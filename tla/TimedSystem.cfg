CONSTANTS
  NumProcesses = 3
  NumPartitions = 2
  MaxPriority = 1
  MaxReadyPerPriority = 2
  PartitionOf <- MCPartitionOf
  BasePriority <- MCBasePriority
  NumWaitLists = 1
  WaitlistMax = 2
  NoTick = 31
  NumSemaphores = 1
  SemaphorePartition <- MCSemaphorePartition
  SemaphoreMax <- MCSemaphoreMax
  SemaphoreInitial <- MCSemaphoreInitial
  Period <- MCPeriod
  Capacity <- MCCapacity
  Slots <- MCSlots
  Timeouts = {1, 2, 31}
  Policies <- MCPolicies
  MaxTick = 8
SPECIFICATION Spec
INVARIANTS
  DueBound
  OnTime
  Supervised
  OwnSlot
  NoIdleWithWork
  NoneWaitsForUnits
PROPERTIES
  WakesAtItsTick
  MissesExact
  NoDrift
