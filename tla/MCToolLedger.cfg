SPECIFICATION Spec
CONSTANTS
  c1 = c1
  c2 = c2
  Calls <- MCCalls
  EffectCalls <- MCEffectCalls
INVARIANTS
  AuthorizedDispatch
  UnknownHasCase
  WaitingIsBacked
  RejectionClosesBatch
PROPERTIES
  GrantSpentOnce
  SettledFactsStay
