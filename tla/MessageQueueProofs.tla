------------------------- MODULE MessageQueueProofs -------------------------
(***************************************************************************)
(* Proofs about MessageQueue, for any number of handlers and consumers and *)
(* any queue size: type correctness, NoRefusal, NoLostWakeup and that the  *)
(* circular array implements the bounded FIFO buffer (FifoBuffer).         *)
(*                                                                         *)
(* The inductive invariant is IInv.  NoRefusal needs mutual exclusion: who *)
(* saw the queue not full is the only one to touch it until it inserts.    *)
(* NoLostWakeup is not inductive by itself; it follows from a count        *)
(* (WakeupsCovered): as long as a consumer sleeps, each stored message has *)
(* a thread of its own that is bound to take it or to wake a sleeper.      *)
(***************************************************************************)
EXTENDS MessageQueue, FiniteSetTheorems, SequenceTheorems, TLAPS

-----------------------------------------------------------------------------
(* The inductive invariant.                                                 *)

Critical(t) == pc[t] \in {"test", "insert", "pop", "unlock"}

\* A thread is between lock and unlock iff it holds messageLock.
Mutex == \A t \in Threads : Critical(t) <=> messageLock = t

\* The threads asleep are those the condition variables know.
Waiting ==
  /\ \A p \in Producers : p \in c_prod <=> pc[p] = "wait"
  /\ \A c \in Consumers : c \in c_cons <=> pc[c] = "wait"

\* A handler that is on its way to insert has read a message.
HasMessage ==
  \A p \in Producers :
    pc[p] \in {"lock", "relock", "test", "wait", "insert"}
      => message[p] \in Messages

\* Threads that will pop a message, or wake a consumer that will.
ConsumerCover ==
  {t \in Threads :
     \/ t \in Consumers /\ pc[t] \in {"lock", "relock", "test", "pop"}
     \/ t \in Producers /\ pc[t] \in {"unlock", "signal"}}

\* Threads that will fill a slot, or wake a handler that will.
ProducerCover ==
  {t \in Threads :
     \/ t \in Producers /\ pc[t] \in {"lock", "relock", "test", "insert"}
     \/ t \in Consumers /\ pc[t] \in {"unlock", "signal"}}

WakeupsCovered ==
  /\ c_cons # {} => getSize <= Cardinality(ConsumerCover)
  /\ c_prod # {} => MESSAGE_QUEUE_SIZE - getSize <= Cardinality(ProducerCover)

IInv == TypeOK /\ Mutex /\ Waiting /\ HasMessage /\ NoRefusal /\ WakeupsCovered

-----------------------------------------------------------------------------
(* The arithmetic of the circular array.                                    *)

\* The remainder of a number below the divisor.
LEMMA ModSmall ==
  ASSUME NEW n \in Nat \ {0}, NEW a \in 0 .. n - 1
  PROVE  a % n = a
OBVIOUS

\* The remainder of a number that passes the divisor once.
LEMMA ModWrapped ==
  ASSUME NEW n \in Nat \ {0}, NEW a \in n .. 2 * n - 1
  PROVE  a % n = a - n
OBVIOUS

\* next (queue.h:37) stays inside the array and wraps at its last slot.
LEMMA NextValue ==
  ASSUME NEW i \in Slots
  PROVE  /\ next(i) = IF i = MESSAGE_QUEUE_SIZE THEN 0 ELSE i + 1
         /\ next(i) \in Slots
<1>1. CASE i = MESSAGE_QUEUE_SIZE
  BY <1>1, QueueAssumption, ModWrapped DEF next, Slots, size
<1>2. CASE i # MESSAGE_QUEUE_SIZE
  BY <1>2, QueueAssumption, ModSmall DEF next, Slots, size
<1> QED
  BY <1>1, <1>2

\* getSize (queue.h:72) is the distance from l to r and at most the capacity,
\* and the tests for empty and full (queue.h:40-43) are its two extremes.
LEMMA SizeValue ==
  ASSUME l \in Slots, r \in Slots
  PROVE  /\ getSize = IF l <= r THEN r - l ELSE (r - l) + size
         /\ getSize \in 0 .. MESSAGE_QUEUE_SIZE
         /\ queue_is_empty <=> getSize = 0
         /\ queue_is_full <=> getSize = MESSAGE_QUEUE_SIZE
<1>1. getSize = IF l <= r THEN r - l ELSE (r - l) + size
  <2>1. CASE l <= r
    <3>1. size \in Nat \ {0} /\ (r - l) + size \in size .. 2 * size - 1
      BY <2>1, QueueAssumption DEF Slots, size
    <3>2. ((r - l) + size) % size = ((r - l) + size) - size
      BY <3>1, ModWrapped
    <3> QED
      BY <2>1, <3>2, QueueAssumption DEF getSize, Slots, size
  <2>2. CASE ~(l <= r)
    BY <2>2, QueueAssumption, ModSmall DEF getSize, Slots, size
  <2> QED
    BY <2>1, <2>2
<1>2. getSize \in 0 .. MESSAGE_QUEUE_SIZE
  BY <1>1, QueueAssumption DEF Slots, size
<1>3. queue_is_empty <=> getSize = 0
  BY <1>1, QueueAssumption DEF Slots, size, queue_is_empty
<1>4. queue_is_full <=> getSize = MESSAGE_QUEUE_SIZE
  <2>1. queue_is_full <=> l = IF r = MESSAGE_QUEUE_SIZE THEN 0 ELSE r + 1
    BY NextValue DEF queue_is_full
  <2> QED
    BY <1>1, <2>1, QueueAssumption DEF Slots, size
<1> QED
  BY <1>1, <1>2, <1>3, <1>4

\* An insertion that is not refused adds one message; a pop of a queue that
\* is not empty removes one.
LEMMA SizeChange ==
  ASSUME l \in Slots, r \in Slots, l' \in Slots, r' \in Slots
  PROVE  /\ ~queue_is_full /\ l' = l /\ r' = next(r) => getSize' = getSize + 1
         /\ ~queue_is_empty /\ r' = r /\ l' = next(l) => getSize' = getSize - 1
<1>1. getSize' = IF l' <= r' THEN r' - l' ELSE (r' - l') + size
  <2>1. CASE l' <= r'
    BY <2>1, QueueAssumption, ModWrapped DEF getSize, Slots, size
  <2>2. CASE ~(l' <= r')
    BY <2>2, QueueAssumption, ModSmall DEF getSize, Slots, size
  <2> QED
    BY <2>1, <2>2
<1>2. getSize = IF l <= r THEN r - l ELSE (r - l) + size
  BY SizeValue
<1>3. ASSUME ~queue_is_full, l' = l, r' = next(r) PROVE getSize' = getSize + 1
  <2>1. r' = IF r = MESSAGE_QUEUE_SIZE THEN 0 ELSE r + 1
    BY <1>3, NextValue
  <2>2. r' # l
    BY <1>3 DEF queue_is_full
  <2> QED
    BY <1>1, <1>2, <1>3, <2>1, <2>2, QueueAssumption DEF Slots, size
<1>4. ASSUME ~queue_is_empty, r' = r, l' = next(l) PROVE getSize' = getSize - 1
  <2>1. l' = IF l = MESSAGE_QUEUE_SIZE THEN 0 ELSE l + 1
    BY <1>4, NextValue
  <2> QED
    BY <1>1, <1>2, <1>4, <2>1, QueueAssumption
       DEF Slots, size, queue_is_empty
<1> QED
  BY <1>3, <1>4

-----------------------------------------------------------------------------
(* Type correctness.                                                        *)

LEMMA InitTypeOK == Init => TypeOK
BY QueueAssumption, ThreadAssumption
   DEF Init, TypeOK, init_queue, Slots, size, ProducerStates, ConsumerStates,
       Threads

LEMMA StepTypeOK == TypeOK /\ [Next]_vars => TypeOK'
<1> SUFFICES ASSUME TypeOK, [Next]_vars PROVE TypeOK'
  OBVIOUS
<1> USE DEF TypeOK, Goto, Threads, ProducerStates, ConsumerStates
<1>1. ASSUME NEW t \in Threads, Sync(t) PROVE TypeOK'
  <2>1. CASE Lock(t)
    BY <2>1, ThreadAssumption DEF Lock
  <2>2. CASE Reacquire(t)
    BY <2>2, ThreadAssumption DEF Reacquire
  <2>3. CASE Unlock(t)
    BY <2>3, ThreadAssumption DEF Unlock
  <2>4. CASE SpuriousWakeup(t)
    BY <2>4, ThreadAssumption DEF SpuriousWakeup
  <2> QED
    BY <1>1, <2>1, <2>2, <2>3, <2>4 DEF Sync
<1>2. ASSUME NEW p \in Producers, Producer(p) PROVE TypeOK'
  <2>1. CASE Read(p)
    BY <2>1, ThreadAssumption DEF Read, syncVars
  <2>2. CASE WaitNotFull(p)
    BY <2>2, ThreadAssumption DEF WaitNotFull
  <2>3. CASE SeeNotFull(p)
    BY <2>3, ThreadAssumption DEF SeeNotFull, syncVars
  <2>4. CASE Insert(p)
    BY <2>4, ThreadAssumption, NextValue
       DEF Insert, insert_queue, queueVars, syncVars
  <2>5. CASE SignalConsumer(p)
    BY <2>5, ThreadAssumption DEF SignalConsumer
  <2> QED
    BY <1>2, <2>1, <2>2, <2>3, <2>4, <2>5 DEF Producer
<1>3. ASSUME NEW c \in Consumers, Consumer(c) PROVE TypeOK'
  <2>1. CASE WaitNotEmpty(c)
    BY <2>1, ThreadAssumption DEF WaitNotEmpty
  <2>2. CASE SeeNotEmpty(c)
    BY <2>2, ThreadAssumption DEF SeeNotEmpty, syncVars
  <2>3. CASE Pop(c)
    BY <2>3, ThreadAssumption, NextValue DEF Pop, pop_queue, front, syncVars
  <2>4. CASE SignalProducer(c)
    BY <2>4, ThreadAssumption DEF SignalProducer
  <2>5. CASE Deliver(c)
    BY <2>5, ThreadAssumption DEF Deliver, syncVars
  <2> QED
    BY <1>3, <2>1, <2>2, <2>3, <2>4, <2>5 DEF Consumer
<1>4. CASE UNCHANGED vars
  BY <1>4 DEF vars
<1> QED
  BY <1>1, <1>2, <1>3, <1>4 DEF Next

\* Every variable keeps the values the C types and the array bounds allow:
\* in particular l and r never leave the array of size slots.
THEOREM TypeCorrect == Spec => []TypeOK
BY InitTypeOK, StepTypeOK, PTL DEF Spec

-----------------------------------------------------------------------------
(* Mutual exclusion, the wait sets, and NoRefusal.                          *)

Control == Mutex /\ Waiting /\ HasMessage /\ NoRefusal

LEMMA InitControl == Init => Control
BY ThreadAssumption
   DEF Init, Control, Mutex, Waiting, HasMessage, NoRefusal, Critical, Threads

LEMMA StepControl == TypeOK /\ Control /\ [Next]_vars => Control'
<1> SUFFICES ASSUME TypeOK, Control, [Next]_vars PROVE Control'
  OBVIOUS
<1> USE ThreadAssumption
    DEF TypeOK, Control, Mutex, Waiting, HasMessage, NoRefusal, Critical,
        Goto, Threads, ProducerStates, ConsumerStates
<1>1. ASSUME NEW t \in Threads, Sync(t) PROVE Control'
  <2>1. CASE Lock(t)
    BY <2>1 DEF Lock, queue_is_full, queue_is_empty, next
  <2>2. CASE Reacquire(t)
    BY <2>2 DEF Reacquire, queue_is_full, queue_is_empty, next
  <2>3. CASE Unlock(t)
    BY <2>3 DEF Unlock, queue_is_full, queue_is_empty, next
  <2>4. CASE SpuriousWakeup(t)
    BY <2>4 DEF SpuriousWakeup, queue_is_full, queue_is_empty, next
  <2> QED
    BY <1>1, <2>1, <2>2, <2>3, <2>4 DEF Sync
<1>2. ASSUME NEW p \in Producers, Producer(p) PROVE Control'
  <2>1. CASE Read(p)
    BY <2>1 DEF Read, syncVars, queue_is_full, queue_is_empty, next
  <2>2. CASE WaitNotFull(p)
    BY <2>2 DEF WaitNotFull, queue_is_full, queue_is_empty, next
  <2>3. CASE SeeNotFull(p)
    BY <2>3 DEF SeeNotFull, syncVars, queue_is_full, queue_is_empty, next
  <2>4. CASE Insert(p)
    \* p holds the mutex, so nobody else relies on a test it made.
    BY <2>4 DEF Insert, syncVars
  <2>5. CASE SignalConsumer(p)
    BY <2>5 DEF SignalConsumer, queue_is_full, queue_is_empty, next
  <2> QED
    BY <1>2, <2>1, <2>2, <2>3, <2>4, <2>5 DEF Producer
<1>3. ASSUME NEW c \in Consumers, Consumer(c) PROVE Control'
  <2>1. CASE WaitNotEmpty(c)
    BY <2>1 DEF WaitNotEmpty, queue_is_full, queue_is_empty, next
  <2>2. CASE SeeNotEmpty(c)
    BY <2>2 DEF SeeNotEmpty, syncVars, queue_is_full, queue_is_empty, next
  <2>3. CASE Pop(c)
    BY <2>3 DEF Pop, syncVars
  <2>4. CASE SignalProducer(c)
    BY <2>4 DEF SignalProducer, queue_is_full, queue_is_empty, next
  <2>5. CASE Deliver(c)
    BY <2>5 DEF Deliver, syncVars, queue_is_full, queue_is_empty, next
  <2> QED
    BY <1>3, <2>1, <2>2, <2>3, <2>4, <2>5 DEF Consumer
<1>4. CASE UNCHANGED vars
  BY <1>4 DEF vars, queue_is_full, queue_is_empty, next
<1> QED
  BY <1>1, <1>2, <1>3, <1>4 DEF Next

\* No message is refused by insert_queue and no stale slot is popped, however
\* many handlers and consumers compete for the queue (server.c:232-235 and
\* server.c:253-257).
THEOREM NeverRefused == Spec => []NoRefusal
<1>1. Control => NoRefusal
  BY DEF Control
<1> QED
  BY <1>1, TypeCorrect, InitControl, StepControl, PTL DEF Spec

-----------------------------------------------------------------------------
(* No lost wakeup.                                                          *)

\* Both covers are sets of threads: finite, with a natural cardinality.
LEMMA CoverFinite ==
  /\ IsFiniteSet(ConsumerCover) /\ Cardinality(ConsumerCover) \in Nat
  /\ IsFiniteSet(ProducerCover) /\ Cardinality(ProducerCover) \in Nat
BY ThreadAssumption, FS_Subset, FS_CardinalityType
   DEF ConsumerCover, ProducerCover

LEMMA CoverFiniteNext ==
  /\ IsFiniteSet(ConsumerCover') /\ Cardinality(ConsumerCover') \in Nat
  /\ IsFiniteSet(ProducerCover') /\ Cardinality(ProducerCover') \in Nat
<1>1. ConsumerCover' \subseteq Threads /\ ProducerCover' \subseteq Threads
  BY DEF ConsumerCover, ProducerCover
<1> QED
  BY <1>1, ThreadAssumption, FS_Subset, FS_CardinalityType

\* A cover that only grows has no fewer threads.
LEMMA CoverGrows ==
  /\ ConsumerCover \subseteq ConsumerCover'
       => Cardinality(ConsumerCover) <= Cardinality(ConsumerCover')
  /\ ProducerCover \subseteq ProducerCover'
       => Cardinality(ProducerCover) <= Cardinality(ProducerCover')
BY CoverFiniteNext, FS_Subset

LEMMA InitCovered == Init => WakeupsCovered
BY DEF Init, WakeupsCovered

\* Steps that move no message, put no thread to sleep and take no thread out
\* of a cover.
LEMMA QuietStep ==
  ASSUME WakeupsCovered, UNCHANGED <<l, r>>,
         c_cons' # {} => c_cons # {}, c_prod' # {} => c_prod # {},
         ConsumerCover \subseteq ConsumerCover',
         ProducerCover \subseteq ProducerCover',
         l \in Slots, r \in Slots
  PROVE  WakeupsCovered'
<1>1. getSize' = getSize
  BY DEF getSize
<1>2. getSize \in 0 .. MESSAGE_QUEUE_SIZE
  BY SizeValue
<1> QED
  BY <1>1, <1>2, CoverFinite, CoverFiniteNext, CoverGrows, QueueAssumption
     DEF WakeupsCovered

LEMMA StepCovered ==
  TypeOK /\ TypeOK' /\ Control /\ WakeupsCovered /\ [Next]_vars
    => WakeupsCovered'
<1> SUFFICES ASSUME TypeOK, TypeOK', Control, WakeupsCovered, [Next]_vars
             PROVE  WakeupsCovered'
  OBVIOUS
<1> USE ThreadAssumption DEF Goto, Threads
<1>a. l \in Slots /\ r \in Slots /\ l' \in Slots /\ r' \in Slots
  BY DEF TypeOK
<1>b. pc \in [Threads -> ProducerStates \cup ConsumerStates]
  BY DEF TypeOK
<1>1. ASSUME NEW t \in Threads, Sync(t) PROVE WakeupsCovered'
  <2>1. CASE Lock(t)
    BY <2>1, <1>a, <1>b, QuietStep DEF Lock, ConsumerCover, ProducerCover
  <2>2. CASE Reacquire(t)
    BY <2>2, <1>a, <1>b, QuietStep DEF Reacquire, ConsumerCover, ProducerCover
  <2>3. CASE Unlock(t)
    BY <2>3, <1>a, <1>b, QuietStep DEF Unlock, ConsumerCover, ProducerCover
  <2>4. CASE SpuriousWakeup(t)
    BY <2>4, <1>a, <1>b, QuietStep
       DEF SpuriousWakeup, ConsumerCover, ProducerCover
  <2> QED
    BY <1>1, <2>1, <2>2, <2>3, <2>4 DEF Sync
<1>2. ASSUME NEW p \in Producers, Producer(p) PROVE WakeupsCovered'
  <2>1. CASE Read(p)
    BY <2>1, <1>a, <1>b, QuietStep
       DEF Read, syncVars, ConsumerCover, ProducerCover
  <2>2. CASE WaitNotFull(p)
    \* The queue is full: no free slot is left to cover.
    <3>1. getSize' = MESSAGE_QUEUE_SIZE /\ getSize' = getSize
      BY <2>2, <1>a, SizeValue DEF WaitNotFull, getSize
    <3>2. ConsumerCover \subseteq ConsumerCover'
      BY <2>2, <1>b DEF WaitNotFull, ConsumerCover
    <3> QED
      BY <2>2, <3>1, <3>2, CoverFinite, CoverFiniteNext, CoverGrows,
         QueueAssumption
         DEF WaitNotFull, WakeupsCovered
  <2>3. CASE SeeNotFull(p)
    BY <2>3, <1>a, <1>b, QuietStep
       DEF SeeNotFull, syncVars, ConsumerCover, ProducerCover
  <2>4. CASE Insert(p)
    \* One message more, and p itself joins the threads that cover it.
    <3>1. getSize' = getSize + 1
      BY <2>4, <1>a, SizeChange
         DEF Insert, insert_queue, Control, NoRefusal
    <3>2. ConsumerCover' = ConsumerCover \cup {p} /\ p \notin ConsumerCover
      BY <2>4, <1>b DEF Insert, ConsumerCover
    <3>3. ProducerCover' = ProducerCover \ {p} /\ p \in ProducerCover
      BY <2>4, <1>b DEF Insert, ProducerCover
    <3>4. /\ Cardinality(ConsumerCover') = Cardinality(ConsumerCover) + 1
          /\ Cardinality(ProducerCover') = Cardinality(ProducerCover) - 1
      BY <3>2, <3>3, CoverFinite, FS_AddElement, FS_RemoveElement
    <3>5. c_cons' = c_cons /\ c_prod' = c_prod
      BY <2>4 DEF Insert, syncVars
    <3>6. getSize \in 0 .. MESSAGE_QUEUE_SIZE
      BY <1>a, SizeValue
    <3> QED
      BY <3>1, <3>4, <3>5, <3>6, CoverFinite, QueueAssumption
         DEF WakeupsCovered
  <2>5. CASE SignalConsumer(p)
    \* p leaves the cover, the consumer it wakes takes its place.
    <3>1. CASE c_cons = {}
      <4>1. getSize' = getSize /\ c_cons' = {} /\ c_prod' = c_prod
        BY <2>5, <3>1 DEF SignalConsumer, getSize
      <4>2. ProducerCover \subseteq ProducerCover'
        BY <2>5, <3>1, <1>b DEF SignalConsumer, ProducerCover
      <4>3. getSize \in 0 .. MESSAGE_QUEUE_SIZE
        BY <1>a, SizeValue
      <4> QED
        BY <4>1, <4>2, <4>3, CoverFinite, CoverFiniteNext, CoverGrows,
           QueueAssumption
           DEF WakeupsCovered
    <3>2. CASE c_cons # {}
      <4>1. PICK w \in c_cons :
              /\ c_cons' = c_cons \ {w}
              /\ pc' = [pc EXCEPT ![p] = "read", ![w] = "relock"]
        BY <2>5, <3>2 DEF SignalConsumer
      <4>2. pc[p] = "signal" /\ UNCHANGED <<l, r, c_prod>>
        BY <2>5, <3>2 DEF SignalConsumer
      <4>3. w \in Consumers /\ pc[w] = "wait"
        BY <4>1 DEF TypeOK, Control, Waiting
      <4>4. /\ ConsumerCover' = (ConsumerCover \ {p}) \cup {w}
            /\ p \in ConsumerCover
            /\ w \notin ConsumerCover \ {p}
        BY <4>1, <4>2, <4>3, <1>b DEF ConsumerCover
      <4>5. Cardinality(ConsumerCover') = Cardinality(ConsumerCover)
        <5>1. /\ IsFiniteSet(ConsumerCover \ {p})
              /\ Cardinality(ConsumerCover \ {p})
                   = Cardinality(ConsumerCover) - 1
          BY <4>4, CoverFinite, FS_RemoveElement
        <5>2. Cardinality((ConsumerCover \ {p}) \cup {w})
                = Cardinality(ConsumerCover \ {p}) + 1
          BY <4>4, <5>1, FS_AddElement
        <5> QED
          BY <4>4, <5>1, <5>2, CoverFinite
      <4>6. ProducerCover \subseteq ProducerCover'
        BY <4>1, <4>2, <4>3, <1>b DEF ProducerCover
      <4>7. getSize' = getSize /\ getSize \in 0 .. MESSAGE_QUEUE_SIZE
        BY <4>2, <1>a, SizeValue DEF getSize
      <4> QED
        BY <4>1, <4>2, <4>5, <4>6, <4>7, CoverFinite, CoverFiniteNext,
           CoverGrows, QueueAssumption
           DEF WakeupsCovered
    <3> QED
      BY <3>1, <3>2
  <2> QED
    BY <1>2, <2>1, <2>2, <2>3, <2>4, <2>5 DEF Producer
<1>3. ASSUME NEW c \in Consumers, Consumer(c) PROVE WakeupsCovered'
  <2>1. CASE WaitNotEmpty(c)
    \* The queue is empty: there is no message to cover.
    <3>1. getSize' = 0 /\ getSize' = getSize
      BY <2>1, <1>a, SizeValue DEF WaitNotEmpty, getSize
    <3>2. ProducerCover \subseteq ProducerCover'
      BY <2>1, <1>b DEF WaitNotEmpty, ProducerCover
    <3> QED
      BY <2>1, <3>1, <3>2, CoverFinite, CoverFiniteNext, CoverGrows,
         QueueAssumption
         DEF WaitNotEmpty, WakeupsCovered
  <2>2. CASE SeeNotEmpty(c)
    BY <2>2, <1>a, <1>b, QuietStep
       DEF SeeNotEmpty, syncVars, ConsumerCover, ProducerCover
  <2>3. CASE Pop(c)
    \* One message less, and one free slot more, covered by c itself.
    <3>1. getSize' = getSize - 1
      BY <2>3, <1>a, SizeChange DEF Pop, pop_queue, Control, NoRefusal
    <3>2. ConsumerCover' = ConsumerCover \ {c} /\ c \in ConsumerCover
      BY <2>3, <1>b DEF Pop, ConsumerCover
    <3>3. ProducerCover' = ProducerCover \cup {c} /\ c \notin ProducerCover
      BY <2>3, <1>b DEF Pop, ProducerCover
    <3>4. /\ Cardinality(ConsumerCover') = Cardinality(ConsumerCover) - 1
          /\ Cardinality(ProducerCover') = Cardinality(ProducerCover) + 1
      BY <3>2, <3>3, CoverFinite, FS_AddElement, FS_RemoveElement
    <3>5. c_cons' = c_cons /\ c_prod' = c_prod
      BY <2>3 DEF Pop, syncVars
    <3>6. getSize \in 0 .. MESSAGE_QUEUE_SIZE
      BY <1>a, SizeValue
    <3> QED
      BY <3>1, <3>4, <3>5, <3>6, CoverFinite, QueueAssumption
         DEF WakeupsCovered
  <2>4. CASE SignalProducer(c)
    \* c leaves the cover, the handler it wakes takes its place.
    <3>1. CASE c_prod = {}
      <4>1. getSize' = getSize /\ c_prod' = {} /\ c_cons' = c_cons
        BY <2>4, <3>1 DEF SignalProducer, getSize
      <4>2. ConsumerCover \subseteq ConsumerCover'
        BY <2>4, <3>1, <1>b DEF SignalProducer, ConsumerCover
      <4>3. getSize \in 0 .. MESSAGE_QUEUE_SIZE
        BY <1>a, SizeValue
      <4> QED
        BY <4>1, <4>2, <4>3, CoverFinite, CoverFiniteNext, CoverGrows,
           QueueAssumption
           DEF WakeupsCovered
    <3>2. CASE c_prod # {}
      <4>1. PICK w \in c_prod :
              /\ c_prod' = c_prod \ {w}
              /\ pc' = [pc EXCEPT ![c] = "deliver", ![w] = "relock"]
        BY <2>4, <3>2 DEF SignalProducer
      <4>2. pc[c] = "signal" /\ UNCHANGED <<l, r, c_cons>>
        BY <2>4, <3>2 DEF SignalProducer
      <4>3. w \in Producers /\ pc[w] = "wait"
        BY <4>1 DEF TypeOK, Control, Waiting
      <4>4. /\ ProducerCover' = (ProducerCover \ {c}) \cup {w}
            /\ c \in ProducerCover
            /\ w \notin ProducerCover \ {c}
        BY <4>1, <4>2, <4>3, <1>b DEF ProducerCover
      <4>5. Cardinality(ProducerCover') = Cardinality(ProducerCover)
        <5>1. /\ IsFiniteSet(ProducerCover \ {c})
              /\ Cardinality(ProducerCover \ {c})
                   = Cardinality(ProducerCover) - 1
          BY <4>4, CoverFinite, FS_RemoveElement
        <5>2. Cardinality((ProducerCover \ {c}) \cup {w})
                = Cardinality(ProducerCover \ {c}) + 1
          BY <4>4, <5>1, FS_AddElement
        <5> QED
          BY <4>4, <5>1, <5>2, CoverFinite
      <4>6. ConsumerCover \subseteq ConsumerCover'
        BY <4>1, <4>2, <4>3, <1>b DEF ConsumerCover
      <4>7. getSize' = getSize /\ getSize \in 0 .. MESSAGE_QUEUE_SIZE
        BY <4>2, <1>a, SizeValue DEF getSize
      <4> QED
        BY <4>1, <4>2, <4>5, <4>6, <4>7, CoverFinite, CoverFiniteNext,
           CoverGrows, QueueAssumption
           DEF WakeupsCovered
    <3> QED
      BY <3>1, <3>2
  <2>5. CASE Deliver(c)
    BY <2>5, <1>a, <1>b, QuietStep
       DEF Deliver, syncVars, ConsumerCover, ProducerCover
  <2> QED
    BY <1>3, <2>1, <2>2, <2>3, <2>4, <2>5 DEF Consumer
<1>4. CASE UNCHANGED vars
  BY <1>4, <1>a, QuietStep DEF vars, ConsumerCover, ProducerCover
<1> QED
  BY <1>1, <1>2, <1>3, <1>4 DEF Next

\* The count says more than the property: with every consumer asleep, only
\* producers that have yet to signal are left to cover the stored messages.
LEMMA CoveredSuffices == TypeOK /\ Control /\ WakeupsCovered => NoLostWakeup
<1> SUFFICES ASSUME TypeOK, Control, WakeupsCovered PROVE NoLostWakeup
  OBVIOUS
<1>1. /\ getSize \in 0 .. MESSAGE_QUEUE_SIZE
      /\ queue_is_empty <=> getSize = 0
      /\ queue_is_full <=> getSize = MESSAGE_QUEUE_SIZE
  BY SizeValue DEF TypeOK
<1>2. ASSUME Consumers \subseteq c_cons, ~queue_is_empty, Consumers # {}
      PROVE  \E p \in Producers : pc[p] \in {"unlock", "signal"}
  <2>1. ConsumerCover # {}
    <3>1. Cardinality(ConsumerCover) # 0
      BY <1>1, <1>2, CoverFinite, QueueAssumption DEF WakeupsCovered
    <3> QED
      BY <3>1, CoverFinite, FS_EmptySet
  <2>2. \A c \in Consumers : pc[c] = "wait"
    BY <1>2 DEF Control, Waiting
  <2> QED
    BY <2>1, <2>2 DEF ConsumerCover
<1>3. ASSUME c_prod # {}, ~queue_is_full
      PROVE  \/ \E c \in Consumers : pc[c] \in {"unlock", "signal"}
             \/ \E p \in Producers :
                  pc[p] \in {"lock", "relock", "test", "insert"}
  <2>1. ProducerCover # {}
    <3>1. Cardinality(ProducerCover) # 0
      BY <1>1, <1>3, CoverFinite, QueueAssumption DEF WakeupsCovered
    <3> QED
      BY <3>1, CoverFinite, FS_EmptySet
  <2> QED
    BY <2>1 DEF ProducerCover
<1> QED
  BY <1>2, <1>3 DEF NoLostWakeup

\* Whatever the number of handlers and consumers: the signals sent after the
\* unlock (server.c:236-237 and server.c:260-261) never leave all consumers
\* asleep before a stored message, or a handler asleep before a free slot,
\* with nobody left to wake them.
THEOREM WakeupNotLost == Spec => []NoLostWakeup
<1>1. TypeOK /\ [Next]_vars => TypeOK'
  BY StepTypeOK
<1> QED
  BY <1>1, TypeCorrect, InitControl, StepControl, InitCovered, StepCovered,
     CoveredSuffices, PTL DEF Spec

-----------------------------------------------------------------------------
(* The circular array implements the bounded FIFO buffer.                   *)

\* Counting n slots on from a slot stays inside the array and wraps once.
LEMMA IndexValue ==
  ASSUME NEW a \in Slots, NEW n \in Slots
  PROVE  /\ (a + n) % size = IF a + n < size THEN a + n ELSE a + n - size
         /\ (a + n) % size \in Slots
<1>1. size \in Nat \ {0} /\ Slots = 0 .. size - 1
  BY QueueAssumption DEF Slots, size
<1>2. CASE a + n < size
  BY <1>1, <1>2, ModSmall
<1>3. CASE ~(a + n < size)
  <2> DEFINE sum == a + n
  <2>1. sum \in size .. 2 * size - 1
    BY <1>1, <1>3
  <2>2. sum % size = sum - size
    <3> HIDE DEF sum
    <3> QED
      BY <1>1, <2>1, ModWrapped
  <2> QED
    BY <1>1, <1>3, <2>1, <2>2
<1> QED
  BY <1>2, <1>3

\* Contents is a sequence of getSize slots.
LEMMA ContentsSeq ==
  TypeOK => /\ Contents \in Seq(Messages \cup {Uninit})
            /\ Len(Contents) = getSize
            /\ getSize \in 0 .. MESSAGE_QUEUE_SIZE
<1> SUFFICES ASSUME TypeOK
             PROVE  /\ Contents \in Seq(Messages \cup {Uninit})
                    /\ Len(Contents) = getSize
                    /\ getSize \in 0 .. MESSAGE_QUEUE_SIZE
  OBVIOUS
<1>1. getSize \in 0 .. MESSAGE_QUEUE_SIZE
  BY SizeValue DEF TypeOK
<1>2. \A j \in 1 .. getSize : queue[(l + j - 1) % size] \in Messages \cup {Uninit}
  <2> TAKE j \in 1 .. getSize
  <2>1. j - 1 \in Slots /\ l \in Slots /\ l + (j - 1) = l + j - 1
    BY <1>1, QueueAssumption DEF Slots, size, TypeOK
  <2>2. (l + j - 1) % size \in Slots
    BY <2>1, IndexValue
  <2> QED
    BY <2>2 DEF TypeOK
<1> QED
  BY <1>1, <1>2 DEF Contents

\* The same after a step.
LEMMA ContentsSeqNext ==
  TypeOK' => /\ Contents' \in Seq(Messages \cup {Uninit})
             /\ Len(Contents') = getSize'
<1>1. (TypeOK => /\ Contents \in Seq(Messages \cup {Uninit})
                 /\ Len(Contents) = getSize
                 /\ getSize \in 0 .. MESSAGE_QUEUE_SIZE)'
  BY ContentsSeq, PTL
<1> QED
  BY <1>1

\* insert_queue (queue.h:46-60) appends when there is room.
LEMMA PutContents ==
  ASSUME TypeOK, TypeOK', ~queue_is_full, NEW m \in Messages,
         l' = l, r' = next(r), queue' = [queue EXCEPT ![r] = m]
  PROVE  Contents' = Append(Contents, m)
<1> USE DEF TypeOK
<1>1. getSize' = getSize + 1
  BY SizeChange
<1>2. getSize \in 0 .. MESSAGE_QUEUE_SIZE /\ getSize # MESSAGE_QUEUE_SIZE
  BY SizeValue
<1>3. getSize = IF l <= r THEN r - l ELSE (r - l) + size
  BY SizeValue
<1>4. \A j \in 1 .. getSize + 1 :
        /\ (l + j - 1) % size \in Slots
        /\ (l + j - 1) % size = r <=> j = getSize + 1
  <2> TAKE j \in 1 .. getSize + 1
  <2>1. j - 1 \in Slots /\ l + (j - 1) = l + j - 1
    BY <1>2, QueueAssumption DEF Slots, size
  <2>2. /\ (l + j - 1) % size
             = IF l + j - 1 < size THEN l + j - 1 ELSE l + j - 1 - size
        /\ (l + j - 1) % size \in Slots
    BY <2>1, IndexValue
  <2>3. j \in Nat /\ size \in Nat /\ l \in 0 .. size - 1 /\ r \in 0 .. size - 1
    BY <1>2, QueueAssumption DEF Slots, size
  <2> QED
    BY <1>2, <1>3, <2>2, <2>3
<1>5. \A j \in 1 .. getSize + 1 : Contents'[j] = queue'[(l + j - 1) % size]
  BY <1>1 DEF Contents, size
<1>6. /\ \A j \in 1 .. getSize : Contents'[j] = queue[(l + j - 1) % size]
      /\ Contents'[getSize + 1] = m
  BY <1>2, <1>4, <1>5
<1>7. \A j \in 1 .. getSize : Contents[j] = queue[(l + j - 1) % size]
  BY DEF Contents
<1> DEFINE S == Messages \cup {Uninit}
           after == Append(Contents, m)
<1>8. /\ Contents \in Seq(S) /\ Contents' \in Seq(S) /\ m \in S
      /\ Len(Contents) = getSize /\ Len(Contents') = getSize + 1
  BY <1>1, ContentsSeq, ContentsSeqNext
<1>9. /\ after \in Seq(S)
      /\ Len(after) = getSize + 1
      /\ \A j \in 1 .. getSize : after[j] = Contents[j]
      /\ after[getSize + 1] = m
  <2> HIDE DEF S
  <2> QED
    BY <1>8, AppendProperties
<1>10. \A j \in 1 .. Len(Contents') : Contents'[j] = after[j]
  <2> HIDE DEF after
  <2> QED
    BY <1>2, <1>6, <1>7, <1>8, <1>9
<1> HIDE DEF S, after
<1>11. Contents' = after
  BY <1>8, <1>9, <1>10, SeqEqual
<1> QED
  BY <1>11 DEF after

\* pop_queue (queue.h:63-70) takes the oldest message out, if there is one.
LEMMA GetContents ==
  ASSUME TypeOK, TypeOK', ~queue_is_empty,
         r' = r, l' = next(l), queue' = queue
  PROVE  Contents # <<>> /\ Contents' = Tail(Contents)
<1> USE DEF TypeOK
<1>1. getSize' = getSize - 1
  BY SizeChange
<1>2. getSize \in 1 .. MESSAGE_QUEUE_SIZE
  BY SizeValue
<1>3. \A j \in 1 .. getSize - 1 : (l' + j - 1) % size = (l + (j + 1) - 1) % size
  <2> TAKE j \in 1 .. getSize - 1
  <2>1. /\ j - 1 \in Slots /\ l' + (j - 1) = l' + j - 1
        /\ j \in Slots /\ l + j = l + (j + 1) - 1
    BY <1>2, QueueAssumption DEF Slots, size
  <2>2. (l' + j - 1) % size
           = IF l' + j - 1 < size THEN l' + j - 1 ELSE l' + j - 1 - size
    BY <2>1, IndexValue
  <2>3. (l + (j + 1) - 1) % size = IF l + j < size THEN l + j ELSE l + j - size
    BY <2>1, IndexValue
  <2>4. l' = IF l = MESSAGE_QUEUE_SIZE THEN 0 ELSE l + 1
    BY NextValue
  <2> QED
    BY <1>2, <2>2, <2>3, <2>4, QueueAssumption DEF Slots, size
<1>4. \A j \in 1 .. getSize - 1 : Contents'[j] = queue[(l + (j + 1) - 1) % size]
  BY <1>1, <1>3 DEF Contents, size
<1>5. \A j \in 1 .. getSize - 1 :
        Contents[j + 1] = queue[(l + (j + 1) - 1) % size]
  BY <1>2 DEF Contents
<1> DEFINE S == Messages \cup {Uninit}
           after == Tail(Contents)
<1>6. /\ Contents \in Seq(S) /\ Contents' \in Seq(S) /\ Contents # <<>>
      /\ Len(Contents) = getSize /\ Len(Contents') = getSize - 1
  BY <1>1, <1>2, ContentsSeq, ContentsSeqNext
<1>7. /\ after \in Seq(S)
      /\ Len(after) = getSize - 1
      /\ \A j \in 1 .. getSize - 1 : after[j] = Contents[j + 1]
  <2> HIDE DEF S
  <2> QED
    BY <1>6, HeadTailProperties
<1>8. \A j \in 1 .. Len(Contents') : Contents'[j] = after[j]
  <2> HIDE DEF after
  <2> QED
    BY <1>4, <1>5, <1>6, <1>7
<1> HIDE DEF S, after
<1>9. Contents' = after
  BY <1>6, <1>7, <1>8, SeqEqual
<1> QED
  BY <1>6, <1>9 DEF after

\* The initial queue is the empty buffer.
LEMMA InitBuffer == Init => Buffer!Init
<1> SUFFICES ASSUME Init PROVE Contents = <<>>
  BY DEF Buffer!Init
<1>1. TypeOK /\ queue_is_empty
  BY InitTypeOK DEF Init, init_queue, queue_is_empty
<1>2. getSize = 0
  BY <1>1, SizeValue DEF TypeOK
<1> QED
  BY <1>1, <1>2, ContentsSeq

\* Insert maps to Put, Pop to Get, and every other step leaves the array be.
LEMMA StepBuffer ==
  TypeOK /\ TypeOK' /\ Control /\ [Next]_vars => [Buffer!Next]_Contents
<1> SUFFICES ASSUME TypeOK, TypeOK', Control, [Next]_vars
             PROVE  [Buffer!Next]_Contents
  OBVIOUS
<1>1. UNCHANGED <<l, r, queue>> => UNCHANGED Contents
  BY DEF Contents, getSize, size
<1>2. ASSUME NEW t \in Threads, Sync(t) PROVE UNCHANGED Contents
  BY <1>1, <1>2 DEF Sync, Lock, Reacquire, Unlock, SpuriousWakeup
<1>3. ASSUME NEW p \in Producers, Producer(p) PROVE [Buffer!Next]_Contents
  <2>1. CASE Insert(p)
    <3>1. /\ ~queue_is_full
          /\ message[p] \in Messages
      BY <2>1 DEF Insert, Goto, Control, NoRefusal, HasMessage
    <3>2. l' = l /\ r' = next(r) /\ queue' = [queue EXCEPT ![r] = message[p]]
      BY <2>1, <3>1 DEF Insert, insert_queue
    <3>3. Contents' = Append(Contents, message[p])
      BY <3>1, <3>2, PutContents
    <3>4. Len(Contents) < MESSAGE_QUEUE_SIZE
      BY <3>1, SizeValue, ContentsSeq, QueueAssumption DEF TypeOK
    <3> QED
      BY <3>1, <3>3, <3>4 DEF Buffer!Next, Buffer!Put
  <2>2. CASE ~Insert(p)
    BY <1>1, <1>3, <2>2
       DEF Producer, Read, WaitNotFull, SeeNotFull, SignalConsumer
  <2> QED
    BY <2>1, <2>2
<1>4. ASSUME NEW c \in Consumers, Consumer(c) PROVE [Buffer!Next]_Contents
  <2>1. CASE Pop(c)
    <3>1. ~queue_is_empty
      BY <2>1 DEF Pop, Goto, Control, NoRefusal
    <3>2. r' = r /\ l' = next(l) /\ queue' = queue
      BY <2>1 DEF Pop, pop_queue
    <3> QED
      BY <3>1, <3>2, GetContents DEF Buffer!Next, Buffer!Get
  <2>2. CASE ~Pop(c)
    BY <1>1, <1>4, <2>2
       DEF Consumer, WaitNotEmpty, SeeNotEmpty, SignalProducer, Deliver
  <2> QED
    BY <2>1, <2>2
<1>5. CASE UNCHANGED vars
  BY <1>1, <1>5 DEF vars
<1> QED
  BY <1>2, <1>3, <1>4, <1>5 DEF Next

\* The circular array, its mutex and its two condition variables implement the
\* bounded FIFO buffer, for any number of threads and any queue size: what
\* messageDeliver pops is what connection_handler inserted, in that order.
THEOREM ImplementsBuffer == Spec => FifoBuffer
<1>1. TypeOK /\ [Next]_vars => TypeOK'
  BY StepTypeOK
<1>2. Spec => Buffer!Init /\ [][Buffer!Next]_Contents
  BY <1>1, TypeCorrect, InitControl, StepControl, InitBuffer, StepBuffer, PTL
     DEF Spec
<1> QED
  BY <1>2 DEF FifoBuffer, Buffer!Spec
=============================================================================
