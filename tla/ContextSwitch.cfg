CONSTANTS
  NumProcesses = 3
  NumPartitions = 2
  MaxPriority = 1
  MaxReadyPerPriority = 2
  PartitionOf <- MCPartitionOf
  BasePriority <- MCBasePriority
  AddressLimit = 16
  RegionBase <- MCRegionBase
  RegionSize <- MCRegionSize
  Writable = {0, 1}
  Writers = {0, 1}
  ReadersOf = {0}
  MessageSize = 2
  Result = {"OK"}
  Privileged = {1}
  Buffers <- MCBuffers
SPECIFICATION Spec
INVARIANTS
  AnswersArrive
  OwnSlot
  MemoryIsolated
PROPERTIES
  Implements
