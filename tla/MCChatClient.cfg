SPECIFICATION FairSpec
CONSTANTS
  MaxRounds = 2
  MaxSignals = 1
  MaxInts = 1
  MaxIncoming = 1
CHECK_DEADLOCK FALSE
INVARIANTS
  TypeOK
  LinesAccounted
  SetUpFirst
PROPERTIES
  Ends
