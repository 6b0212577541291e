SPECIFICATION FairSagaSpec
CONSTANTS
  NodeCount = 1
  IsSaga = FALSE
  Calls <- MCCalls
  EffectCalls <- MCCalls
PROPERTIES
  WorkerSettles
  CancelEnds
