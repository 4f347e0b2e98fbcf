SPECIFICATION FairSpec
CONSTANTS
  Tests <- SmallTests
CHECK_DEADLOCK FALSE
INVARIANTS
  TypeOK
  
  ComplaintIsTrue

  
