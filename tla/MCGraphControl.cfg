SPECIFICATION Spec
CONSTANTS
  i1 = i1
  i2 = i2
  Instances <- MCInstances
  Nobody = Nobody
  Gone = Gone
  Deployments <- MCDeployments
PROPERTIES
  AppliedUnderIntent
  ControlSettles
CHECK_DEADLOCK FALSE
