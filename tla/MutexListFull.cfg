CONSTANTS
  NumProcesses = 3
  NumPartitions = 1
  MaxPriority = 2
  MaxReadyPerPriority = 3
  PartitionOf <- MCThreePartitionOf
  BasePriority <- MCThreeBasePriority
  NumWaitLists = 2
  WaitlistMax = 1
  NoTick = 1
  NumMutexes = 2
  MutexPartition <- MCMutexPartition
  MaxMisses = 1
SPECIFICATION Spec
INVARIANT HolderRunsAtWaiters
