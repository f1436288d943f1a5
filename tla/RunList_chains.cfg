SPECIFICATION Spec
CONSTANTS
  Chains <- MCChains
  Modulus = 64
INVARIANT
  ListIsContiguous
