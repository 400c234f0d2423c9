CONSTANTS
  NumProcesses = 3
  NumPartitions = 2
  MaxPriority = 1
  MaxReadyPerPriority = 2
  PartitionOf <- MCPartitionOf
  BasePriority <- MCBasePriority
  NumWaitLists = 1
  WaitlistMax = 2
  NoTick = 7
  NumSemaphores = 1
  SemaphorePartition <- MCSemaphorePartition
  SemaphoreMax <- MCSemaphoreMax
  SemaphoreInitial <- MCSemaphoreInitial
  Period <- MCNoPeriod
  Capacity <- MCNoPeriod
  Slots <- MCSlots
  Timeouts = {3, 7}
  Policies <- MCFaultPolicies
  MaxTick = 7
SPECIFICATION MCFairSpec
INVARIANT OnTime
PROPERTIES
  FiniteWaitsEnd
  SlotsServed
