\* Safety: three consumers, a queue of two messages.
SPECIFICATION Spec
CONSTANTS
  p1 = p1
  p2 = p2
  c1 = c1
  c2 = c2
  c3 = c3
  m1 = m1
  m2 = m2
  Uninit = Uninit
  NoThread = NoThread
  MESSAGE_QUEUE_SIZE = 2
  Producers <- TwoProducers
  Consumers <- ThreeConsumers
  Messages <- TwoMessages
SYMMETRY Symmetry
INVARIANTS
  TypeOK
  NoRefusal
  NoLostWakeup
PROPERTY
  FifoBuffer
