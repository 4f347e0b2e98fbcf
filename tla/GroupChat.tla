------------------------------ MODULE GroupChat ------------------------------
(***************************************************************************)
(* What README.md promises of the server, without tables, threads or       *)
(* sockets: a client joins the group of the name it asks for, a message    *)
(* reaches the other members of its author's group, a client that leaves   *)
(* is a member no more.                                                    *)
(***************************************************************************)
CONSTANTS Clients, GroupNames, Nobody

VARIABLES members,  \* who is in the group of each name
          last      \* the last message: its author and who it was written to

Init ==
  /\ members = [n \in GroupNames |-> {}]
  /\ last = [from |-> Nobody, to |-> {}]

Join(c, n) ==
  /\ \A m \in GroupNames : c \notin members[m]
  /\ members' = [members EXCEPT ![n] = @ \cup {c}]
  /\ last' = last

Say(c, n) ==
  /\ c \in members[n]
  /\ last' = [from |-> c, to |-> members[n] \ {c}]
  /\ members' = members

Leave(c, n) ==
  /\ c \in members[n]
  /\ members' = [members EXCEPT ![n] = @ \ {c}]
  /\ last' = last

Next == \E c \in Clients, n \in GroupNames :
          Join(c, n) \/ Say(c, n) \/ Leave(c, n)

Spec == Init /\ [][Next]_<<members, last>>
=============================================================================
