SPECIFICATION PrimitivesSpec
CONSTANTS
  KemInputs <- MCKemInputs
  DsaInputs <- MCDsaInputs
  Starts <- MCStarts
  N = 5
  K = 2
  Omega = 3
  Groups <- MCGroups
  Noise <- MCNoise
INVARIANTS
  Splits
  Product
  InRange
  IsKeccakP
  HintsInBounds
  RoundTrip
  OneEncoding
  LittleEndian
  CoefficientsReturn
  NoiseIsBinomial
