CONSTANTS
  NumProcesses = 4
  NumPartitions = 2
  MaxPriority = 1
  MaxReadyPerPriority = 3
  PartitionOf <- MCPartitionOf
  BasePriority <- MCBasePriority
  NumWaitLists = 2
  WaitlistMax = 4
  NoTick = 1
  NumChannels = 1
  ChannelCapacity <- MCChannelCapacity
  Ports <- MCPorts
  Message = {m1, m2}
  Nothing = nothing
  NoWait = 2
  MaxMisses = 1
SPECIFICATION Spec
INVARIANTS
  NoneWaitsInVain
  SomeoneCanRun
PROPERTIES
  Implements
  TruthfulResults
  ServesInOrder
SYMMETRY MessageSymmetry
