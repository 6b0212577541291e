SPECIFICATION Spec
CONSTANTS
  i1 = i1
  i2 = i2
  t1 = t1
  NoOwner = NoOwner
  ClientTask = t1
  Tasks <- MCTasks
  LastSeq <- MCLastSeq
  Instances <- MCInstances
  QueueSize = 1
  MaxRequeues = 1
  MaxForgets = 1
  Deployments <- MCDeployments
CHECK_DEADLOCK FALSE
INVARIANTS
  AppliedOnce
  PublishedIsNotLost
  PublishedInOrder
  BacklogMeetsLive
PROPERTIES
  EventSettles
