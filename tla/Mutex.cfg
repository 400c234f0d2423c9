CONSTANTS
  NumProcesses = 4
  NumPartitions = 1
  MaxPriority = 2
  MaxReadyPerPriority = 4
  PartitionOf <- MCPartitionOf
  BasePriority <- MCBasePriority
  NumWaitLists = 2
  WaitlistMax = 4
  NoTick = 1
  NumMutexes = 2
  MutexPartition <- MCMutexPartition
  MaxMisses = 2
SPECIFICATION Spec
INVARIANTS
  WaitersHaveOwner
  ListsSound
  Inherits
  NoInversion
PROPERTIES
  HandsToBest
  RestartForgets
