SPECIFICATION Spec
CONSTANTS
  MaxVcpus = 2
  NumLrs = 2
  SGIs = {1}
  SPIs = {33}
INVARIANTS
  VmInv
PROPERTIES
  NoneLost
