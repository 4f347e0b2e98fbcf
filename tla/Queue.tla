------------------------------- MODULE Queue -------------------------------
(***************************************************************************)
(* The circular queue of include/queue.h: an array of size slots, a read   *)
(* index l and a write index r.  One slot is always left unused, so that   *)
(* l = r means empty and next(r) = l means full.  The functions test       *)
(* nothing of the locking they rely on: MessageQueue adds it.              *)
(*                                                                         *)
(* The insertion time that struct MessageQ keeps beside each message only  *)
(* feeds the delay log and is left out.                                    *)
(***************************************************************************)
EXTENDS Integers, Sequences

CONSTANTS Messages,           \* the messages clients send
          MESSAGE_QUEUE_SIZE, \* how many of them the queue holds
          Uninit              \* content of a slot malloc returned

ASSUME QueueAssumption ==
  /\ MESSAGE_QUEUE_SIZE \in Nat \ {0}
  /\ Uninit \notin Messages

VARIABLES l, r, queue

queueVars == <<l, r, queue>>

size == MESSAGE_QUEUE_SIZE + 1

Slots == 0 .. size - 1

\* A queue whose index is never wrapped.
next_NoWrap(i) == i + 1

next(i) == (i + 1) % size

queue_is_full == next(r) = l

queue_is_empty == l = r

getSize == ((r - l) + size) % size

init_queue ==
  /\ l = 0
  /\ r = 0
  /\ queue = [i \in Slots |-> Uninit]

\* The write index moves before the slot is filled.
insert_queue_IndexFirst(m) ==
  IF queue_is_full
    THEN UNCHANGED queueVars
    ELSE /\ r' = next(r)
         /\ queue' = [queue EXCEPT ![next(r)] = m]
         /\ UNCHANGED l

\* A full queue refuses the message and returns -1, which no caller looks at.
insert_queue(m) ==
  IF queue_is_full
    THEN UNCHANGED queueVars
    ELSE /\ queue' = [queue EXCEPT ![r] = m]
         /\ r' = next(r)
         /\ UNCHANGED l

\* What pop_queue returns.
front == queue[l]

\* An empty queue is reported and popped all the same: l then passes r.
pop_queue ==
  /\ l' = next(l)
  /\ UNCHANGED <<r, queue>>

\* The messages stored, oldest first.
Contents == [i \in 1 .. getSize |-> queue[(l + i - 1) % size]]
=============================================================================
