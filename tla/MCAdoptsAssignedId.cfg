SPECIFICATION Spec
CONSTANTS
  a = a
  b = b
  d = d
  k1 = k1
  k2 = k2
  red = red
  blue = blue
  NoName = NoName
  NoThread = NoThread
  Nobody = Nobody
  Clients <- TwoClients
  Consumers <- OneConsumer
  GroupNames <- OneName
  MAX_GROUPS = 2
  MAX_GROUP_SIZE = 2
  MESSAGE_QUEUE_SIZE = 1
  MaxSends = 1
  SOCKET_BUFFER = 1
CHECK_DEADLOCK FALSE
INVARIANT
  AdoptsAssignedId
