SPECIFICATION Spec
CONSTANTS
  Requests <- MCRequests
  Tasks = {"t1", "t2"}
  TaskOf <- MCTaskOf
  Providers <- MCProviders
  Route <- MCRoute
  Strategy <- MCStrategy
  Price <- MCPrice
  Unpriced = {}
  Limit = 2
  MaxAttempts = 2
  Threshold = 2
  Calls <- MCCalls
  Key <- MCKey
  Mutations <- MCMutations
  Hosts = {"h1", "h2"}
  Here = "h1"
  Configs = {1, 2}
  MaxProviders = 32
  Deployments <- MCDeployments
INVARIANTS BudgetHeld SlotBacked AuditExplainsCatalog ServesCatalog
PROPERTY CompleteEnds
CHECK_DEADLOCK FALSE
