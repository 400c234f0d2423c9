CONSTANTS
  NumProcesses = 4
  NumPartitions = 2
  MaxPriority = 1
  MaxReadyPerPriority = 3
  PartitionOf <- MCPartitionOf
  BasePriority <- MCBasePriority
SPECIFICATION Spec
INVARIANTS
  TypeOK
  CurrentIsRunning
  OnlyReadyQueued
  NoneLost
  NotOutranked
  CpuIsCurrent
  DispatchConsistent
  RestartCanDispatch
PROPERTIES
  NoTimeSlice
  PeersKeepOrder
  PreemptedFirstYieldedLast
