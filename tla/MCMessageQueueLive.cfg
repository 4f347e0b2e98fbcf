\* Liveness: two threads of each kind, a queue of one message, no symmetry.
SPECIFICATION FairSpec
CONSTANTS
  p1 = p1
  p2 = p2
  c1 = c1
  c2 = c2
  c3 = c3
  m1 = m1
  m2 = m2
  Uninit = Uninit
  NoThread = NoThread
  MESSAGE_QUEUE_SIZE = 1
  Producers <- TwoProducers
  Consumers <- TwoConsumers
  Messages <- TwoMessages
PROPERTY
  LiveBuffer
