SPECIFICATION Spec
CONSTANTS
  Q = 33
  PowD = 8
  Gamma1 = 4
  Gamma2 = 4
  Eta = 1
  Beta = 1
  Omega = 1
  K = 2
  Matrices <- MCMatrices
  MaxTries = 2
INVARIANTS
  TypeOK
  SignedVerifies
  MaskHidesKey
  LowBitsHideKey
