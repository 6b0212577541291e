SPECIFICATION Spec
CONSTANTS
  i1 = i1
  i2 = i2
  g1 = g1
  g2 = g2
  n1 = n1
  n2 = n2
  n3 = n3
  a = a
  b = b
  wide = wide
  narrow = narrow
  NoConfig = NoConfig
  Instances <- MCInstances
  Graphs <- MCGraphs
  Nodes <- MCNodes
  GraphOf <- MCGraphOf
  Tools <- MCTools
  ToolOf <- MCToolOf
  ShardOf <- MCShardOf
  Shards <- MCShards
  Configs <- MCConfigs
  GlobalLimit <- MCGlobalLimit
  PerGraphLimit <- MCPerGraphLimit
  ToolLimit <- MCToolLimit
  Deployments <- MCDeployments
CHECK_DEADLOCK FALSE
INVARIANTS
  CapacityHeld
PROPERTIES
  AcquireEnds
