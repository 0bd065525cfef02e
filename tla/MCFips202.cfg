SPECIFICATION FairSpec
CONSTANTS
  Rate = 3
  HashBytes = 2
  MaxIn = 7
  MaxOut = 7
INVARIANTS
  PositionIsBytesTaken
  OneShotComplete
PROPERTIES
  ImplementsXOF
  CallsReturn
