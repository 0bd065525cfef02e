SPECIFICATION SamplersSpec
CONSTANTS
  N = 6
  Tau = 4
  Rate = 3
  SignBytes = 1
  Kinds <- MCKinds
  MaxUnits = 5
INVARIANTS
  TypeOK
  ExactlyTau
  InBounds
  FirstAccepted
PROPERTY
  SamplerReturns
