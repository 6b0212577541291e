SPECIFICATION SagaSpec
CONSTANTS
  NodeCount = 2
  IsSaga = TRUE
  Calls <- MCCalls
  EffectCalls <- MCCalls
INVARIANTS
  OutcomeMatchesGraph
  EffectHasEvidence
  CrashBetweenStagesIsHarmless
  BoundCheckpointFits
PROPERTIES
  LedgerSpec
