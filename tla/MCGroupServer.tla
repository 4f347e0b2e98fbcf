---------------------------- MODULE MCGroupServer ----------------------------
(* GroupServer for TLC. *)
EXTENDS GroupServer, TLC

CONSTANTS a, b, d, k1, k2, red, blue

TwoClients == {a, b}
ThreeClients == {a, b, d}
OneConsumer == {k1}
TwoConsumers == {k1, k2}
OneName == {red}
TwoNames == {red, blue}

\* Clients, consumers and group names are interchangeable.
Symmetry == Permutations(ThreeClients) \cup Permutations(Consumers)
              \cup Permutations(TwoNames)
=============================================================================
