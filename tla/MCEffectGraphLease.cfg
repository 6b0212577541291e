SPECIFICATION Spec
CONSTANTS
  i1 = i1
  i2 = i2
  w1 = w1
  w2 = w2
  w3 = w3
  NoOwner = NoOwner
  Instances <- MCInstances
  Workers <- MCWorkers
  InstanceOf <- MCInstanceOf
  TTL = 2
  MaxNow = 4
  MaxToken = 3
  MaxContent = 2
SYMMETRY MCSymmetry
CHECK_DEADLOCK FALSE
INVARIANTS
  TokenHasOneInstance
PROPERTIES
  FencedSpec
