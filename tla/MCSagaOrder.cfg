SPECIFICATION OrderSpec
CONSTANTS
  NodeCount = 3
  IsSaga = TRUE
  Calls <- MCCalls
  EffectCalls <- MCCalls
INVARIANTS
  CompensationInReverse
PROPERTIES
  ForwardStopsAfterFailure
