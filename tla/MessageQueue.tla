---------------------------- MODULE MessageQueue ----------------------------
(***************************************************************************)
(* The producer - consumer queue of src/server.c: the connection_handler   *)
(* threads insert, the messageDeliver threads pop, and the circular array  *)
(* of Queue is protected by messageLock and the condition variables c_cons *)
(* (a message was inserted) and c_prod (a slot was freed).                 *)
(*                                                                         *)
(* A thread's program counter names what it does next.  Everything between *)
(* taking and releasing messageLock touches only what the mutex protects,  *)
(* so the test of the while loop, the queue operation and the unlock are   *)
(* one action each; the signal comes AFTER the unlock, as in the code, and *)
(* is an action of its own.                                                *)
(***************************************************************************)
EXTENDS Queue, FiniteSets

CONSTANTS Producers,  \* connection_handler threads, one per client
          Consumers,  \* messageDeliver threads, CONSUMER_THREAD_COUNT of them
          NoThread    \* messageLock's holder when it is free

Threads == Producers \cup Consumers

ASSUME ThreadAssumption ==
  /\ Producers \cap Consumers = {}
  /\ NoThread \notin Threads
  /\ IsFiniteSet(Threads)

VARIABLES messageLock,  \* the holder of the mutex, or NoThread
          c_cons,       \* threads blocked in pthread_cond_wait(&c_cons, ..)
          c_prod,       \* threads blocked in pthread_cond_wait(&c_prod, ..)
          pc,           \* what each thread does next
          message       \* the local variable message of each thread

syncVars == <<messageLock, c_cons, c_prod>>

vars == <<l, r, queue, messageLock, c_cons, c_prod, pc, message>>

ProducerStates ==
  {"read", "lock", "test", "insert", "unlock", "signal", "wait", "relock"}

ConsumerStates ==
  {"lock", "test", "pop", "unlock", "signal", "deliver", "wait", "relock"}

TypeOK ==
  /\ l \in Slots
  /\ r \in Slots
  /\ queue \in [Slots -> Messages \cup {Uninit}]
  /\ messageLock \in Threads \cup {NoThread}
  /\ c_cons \subseteq Consumers
  /\ c_prod \subseteq Producers
  /\ pc \in [Threads -> ProducerStates \cup ConsumerStates]
  /\ \A p \in Producers : pc[p] \in ProducerStates
  /\ \A c \in Consumers : pc[c] \in ConsumerStates
  /\ message \in [Threads -> Messages \cup {Uninit}]

Init ==
  /\ init_queue
  /\ messageLock = NoThread
  /\ c_cons = {}
  /\ c_prod = {}
  /\ pc = [t \in Threads |-> IF t \in Producers THEN "read" ELSE "lock"]
  /\ message = [t \in Threads |-> Uninit]

Goto(t, from, to) ==
  /\ pc[t] = from
  /\ pc' = [pc EXCEPT ![t] = to]

-----------------------------------------------------------------------------
(* Both kinds of thread.                                                    *)

\* pthread_mutex_lock(&messageLock)
Lock(t) ==
  /\ Goto(t, "lock", "test")
  /\ messageLock = NoThread
  /\ messageLock' = t
  /\ UNCHANGED <<l, r, queue, c_cons, c_prod, message>>

\* "if" in the place of "while": a thread that was woken does not look again.
Reacquire_NoRetest(t) ==
  /\ Goto(t, "relock", IF t \in Producers THEN "insert" ELSE "pop")
  /\ messageLock = NoThread
  /\ messageLock' = t
  /\ UNCHANGED <<l, r, queue, c_cons, c_prod, message>>

\* pthread_cond_wait takes the mutex back before it returns to the while loop.
Reacquire(t) ==
  /\ Goto(t, "relock", "test")
  /\ messageLock = NoThread
  /\ messageLock' = t
  /\ UNCHANGED <<l, r, queue, c_cons, c_prod, message>>

\* pthread_mutex_unlock(&messageLock)
Unlock(t) ==
  /\ Goto(t, "unlock", "signal")
  /\ messageLock' = NoThread
  /\ UNCHANGED <<l, r, queue, c_cons, c_prod, message>>

\* POSIX lets a wait return although nobody signalled.
SpuriousWakeup(t) ==
  /\ Goto(t, "wait", "relock")
  /\ c_cons' = c_cons \ {t}
  /\ c_prod' = c_prod \ {t}
  /\ UNCHANGED <<l, r, queue, messageLock, message>>

-----------------------------------------------------------------------------
(* connection_handler, from the read loop on.                               *)

\* while (read(nsfd, &message, sizeof(message))): the client sent m.
Read(p) ==
  /\ Goto(p, "read", "lock")
  /\ \E m \in Messages : message' = [message EXCEPT ![p] = m]
  /\ UNCHANGED <<l, r, queue, syncVars>>

\* The loop condition is true: give the mutex up and block on c_prod.
WaitNotFull(p) ==
  /\ Goto(p, "test", "wait")
  /\ queue_is_full
  /\ c_prod' = c_prod \cup {p}
  /\ messageLock' = NoThread
  /\ UNCHANGED <<l, r, queue, c_cons, message>>

SeeNotFull(p) ==
  /\ Goto(p, "test", "insert")
  /\ ~queue_is_full
  /\ UNCHANGED <<l, r, queue, syncVars, message>>

\* Nothing reads the local message before the next read overwrites it.
Insert(p) ==
  /\ Goto(p, "insert", "unlock")
  /\ insert_queue(message[p])
  /\ message' = [message EXCEPT ![p] = Uninit]
  /\ UNCHANGED syncVars

\* The producer signals the condition variable it waits on itself.
SignalConsumer_WrongCondition(p) ==
  /\ IF c_prod = {}
       THEN Goto(p, "signal", "read") /\ UNCHANGED c_prod
       ELSE \E w \in c_prod :
              /\ c_prod' = c_prod \ {w}
              /\ pc[p] = "signal"
              /\ pc' = [pc EXCEPT ![p] = "read", ![w] = "relock"]
  /\ UNCHANGED <<l, r, queue, messageLock, c_cons, message>>

\* pthread_cond_signal(&c_cons): one waiter is woken, if there is one.
SignalConsumer(p) ==
  /\ IF c_cons = {}
       THEN Goto(p, "signal", "read") /\ UNCHANGED c_cons
       ELSE \E w \in c_cons :
              /\ c_cons' = c_cons \ {w}
              /\ pc[p] = "signal"
              /\ pc' = [pc EXCEPT ![p] = "read", ![w] = "relock"]
  /\ UNCHANGED <<l, r, queue, messageLock, c_prod, message>>

-----------------------------------------------------------------------------
(* messageDeliver.                                                          *)

WaitNotEmpty(c) ==
  /\ Goto(c, "test", "wait")
  /\ queue_is_empty
  /\ c_cons' = c_cons \cup {c}
  /\ messageLock' = NoThread
  /\ UNCHANGED <<l, r, queue, c_prod, message>>

SeeNotEmpty(c) ==
  /\ Goto(c, "test", "pop")
  /\ ~queue_is_empty
  /\ UNCHANGED <<l, r, queue, syncVars, message>>

Pop(c) ==
  /\ Goto(c, "pop", "unlock")
  /\ message' = [message EXCEPT ![c] = front]
  /\ pop_queue
  /\ UNCHANGED syncVars

\* pthread_cond_signal(&c_prod)
SignalProducer(c) ==
  /\ IF c_prod = {}
       THEN Goto(c, "signal", "deliver") /\ UNCHANGED c_prod
       ELSE \E w \in c_prod :
              /\ c_prod' = c_prod \ {w}
              /\ pc[c] = "signal"
              /\ pc' = [pc EXCEPT ![c] = "deliver", ![w] = "relock"]
  /\ UNCHANGED <<l, r, queue, messageLock, c_cons, message>>

\* The writes to the group's members, outside the mutex: see GroupServer.
Deliver(c) ==
  /\ Goto(c, "deliver", "lock")
  /\ message' = [message EXCEPT ![c] = Uninit]
  /\ UNCHANGED <<l, r, queue, syncVars>>

-----------------------------------------------------------------------------

Sync(t) == Lock(t) \/ Reacquire(t) \/ Unlock(t) \/ SpuriousWakeup(t)

Producer(p) ==
  \/ Read(p) \/ WaitNotFull(p) \/ SeeNotFull(p) \/ Insert(p)
  \/ SignalConsumer(p)

Consumer(c) ==
  \/ WaitNotEmpty(c) \/ SeeNotEmpty(c) \/ Pop(c) \/ SignalProducer(c)
  \/ Deliver(c)

Next ==
  \/ \E t \in Threads : Sync(t)
  \/ \E p \in Producers : Producer(p)
  \/ \E c \in Consumers : Consumer(c)

Spec == Init /\ [][Next]_vars

(***************************************************************************)
(* A running thread keeps running: weak fairness for every step except     *)
(* Read (a client need not send) and SpuriousWakeup.  A thread that wants  *)
(* messageLock gets it if it finds the mutex free again and again: strong  *)
(* fairness, since a futex waiter is woken at every unlock but may lose    *)
(* the race against a thread that did not block.                           *)
(***************************************************************************)
Fairness ==
  /\ \A t \in Threads : SF_vars(Lock(t) \/ Reacquire(t))
  /\ \A p \in Producers :
       WF_vars(Unlock(p) \/ WaitNotFull(p) \/ SeeNotFull(p) \/ Insert(p)
                         \/ SignalConsumer(p))
  /\ \A c \in Consumers :
       WF_vars(Unlock(c) \/ WaitNotEmpty(c) \/ SeeNotEmpty(c) \/ Pop(c)
                         \/ SignalProducer(c) \/ Deliver(c))

FairSpec == Spec /\ Fairness

-----------------------------------------------------------------------------
(* Properties.                                                              *)

\* Threads about to act on the result of their while test still hold what
\* they saw: insert_queue never meets a full queue (it would drop the message
\* with a -1 that connection_handler ignores) and pop_queue never meets an
\* empty one (it would hand out a stale slot and push l past r).
NoRefusal ==
  /\ \A p \in Producers : pc[p] = "insert" => ~queue_is_full
  /\ \A c \in Consumers : pc[c] = "pop" => ~queue_is_empty

\* No lost wakeup, although the signal is sent after the unlock and other
\* threads may run in between: when every messageDeliver thread is asleep
\* with messages in the queue, some producer still owes the signal; and when
\* a connection_handler sleeps although there is room, a consumer still owes
\* its signal or another producer is on its way to insert.
NoLostWakeup ==
  /\ Consumers \subseteq c_cons /\ ~queue_is_empty /\ Consumers # {}
       => \E p \in Producers : pc[p] \in {"unlock", "signal"}
  /\ c_prod # {} /\ ~queue_is_full
       => \/ \E c \in Consumers : pc[c] \in {"unlock", "signal"}
          \/ \E p \in Producers :
               pc[p] \in {"lock", "relock", "test", "insert"}

Buffer == INSTANCE BoundedBuffer WITH buffer <- Contents,
                                      Capacity <- MESSAGE_QUEUE_SIZE

\* The circular array under its mutex is a bounded first-in first-out buffer:
\* messages are popped in the order in which they were inserted, and none is
\* lost, duplicated or overwritten when the indices wrap around.
FifoBuffer == Buffer!Spec

\* It is so at all times, and every stored message is popped eventually: no
\* interleaving of waits and signals leaves all consumers asleep for good.
LiveBuffer == Buffer!FairSpec
=============================================================================
