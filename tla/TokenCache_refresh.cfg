SPECIFICATION Spec
CONSTANTS
  i1 = i1
  i2 = i2
  Call <- TwoInstances
  Federated = TRUE
  Second = 4
  Lifetime = 1
  Fraction = {1}
  DefaultLifetime = 1
  MaxDelay = 1
  MaxSkew = 1
  Skew <- AheadOrBehind
  MaxNow = 8
SYMMETRY InstanceSymmetry
CHECK_DEADLOCK FALSE
INVARIANT CachedExpiryIsOwn
PROPERTY StalenessBounded
