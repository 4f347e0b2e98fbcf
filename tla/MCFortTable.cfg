\* Every sequence of calls up to the bound; the program may go wrong or the
\* budget end, hence no check for deadlock.
SPECIFICATION Spec
CONSTANTS
  Junk = Junk
  ANY = ANY
  CUR = CUR
  NULL = NULL
  Nothing = Nothing
  DEFAULT_VECTOR_CAPACITY = 1
  SIZE_MODULUS = 16
  MaxCalls = 3
  MaxSize = 4
  FreshTables <- MCFresh
  UsedTables <- MCUsed
  FirstRows <- MCRows
  Texts <- MCTexts
  Formats <- MCFormats
  Positions <- MCPositions
  Spans <- MCSpans
  Ranges <- MCRanges
  Settings <- MCSettings
  TableSettings <- MCTableSettings
  Styles <- MCStyles
CHECK_DEADLOCK FALSE
INVARIANTS
  TypeOK
  RoomToGrow
  GapsNeedJump
  NearestSetting
  
  LinesAligned
PROPERTIES
  
  
  CopyPrintsTheSame
