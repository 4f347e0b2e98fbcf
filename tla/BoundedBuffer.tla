--------------------------- MODULE BoundedBuffer ---------------------------
(***************************************************************************)
(* What the server's message queue promises its users: a first-in          *)
(* first-out buffer of at most Capacity messages.  Nothing stored is lost, *)
(* overwritten, duplicated or reordered, and a stored message is           *)
(* eventually taken out.  MessageQueue implements this specification with  *)
(* a circular array, a mutex and two condition variables.                  *)
(***************************************************************************)
EXTENDS Naturals, Sequences

CONSTANTS Messages,  \* the values the buffer carries
          Capacity   \* how many of them it can hold

VARIABLE buffer

TypeOK == buffer \in Seq(Messages) /\ Len(buffer) <= Capacity

Init == buffer = <<>>

Put(m) ==
  /\ Len(buffer) < Capacity
  /\ buffer' = Append(buffer, m)

Get ==
  /\ buffer # <<>>
  /\ buffer' = Tail(buffer)

Next == Get \/ \E m \in Messages : Put(m)

Spec == Init /\ [][Next]_buffer

FairSpec == Spec /\ WF_buffer(Get)
=============================================================================
