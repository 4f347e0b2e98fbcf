SPECIFICATION Spec
CONSTANTS
  a = a
  b = b
  d = d
  e = e
  f = f
  h = h
  red = red
  blue = blue
  green = green
  NoName = NoName
  Nobody = Nobody
  Clients <- SixClients
  GroupNames <- ThreeNames
  MAX_GROUPS = 2
  MAX_GROUP_SIZE = 2
  MAX_CLIENTS = 5
CHECK_DEADLOCK FALSE
SYMMETRY Symmetry
INVARIANTS
  TypeOK
  
PROPERTIES
  ImplementsChat
