SPECIFICATION Spec
CONSTANTS
  Pars <- MCPars
  Ids = {1, 2}
  MaxNet = 2
INVARIANTS
  BuffersExact
  NoiseOnce
PROPERTIES
  ImplementsKEM
CHECK_DEADLOCK FALSE
