--------------------------- MODULE MCMessageQueue ---------------------------
(***************************************************************************)
(* MessageQueue for TLC.  With two handlers, three consumers (the code's   *)
(* CONSUMER_THREAD_COUNT) and a queue of two messages in three slots, both *)
(* kinds of thread find the queue full and empty, several of one kind wait *)
(* at once and the indices wrap around.  Two different messages are enough *)
(* to tell a reordered or overwritten slot from the right one.             *)
(***************************************************************************)
EXTENDS MessageQueue, TLC

CONSTANTS p1, p2, c1, c2, c3, m1, m2

TwoProducers == {p1, p2}
TwoConsumers == {c1, c2}
ThreeConsumers == {c1, c2, c3}
TwoMessages == {m1, m2}

\* Threads of a kind and messages are interchangeable.
Symmetry == Permutations(TwoProducers) \cup Permutations(ThreeConsumers)
              \cup Permutations(TwoMessages)
=============================================================================
