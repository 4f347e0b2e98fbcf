---------------------------- MODULE MCGroupTable -----------------------------
(* GroupTable for TLC. *)
EXTENDS GroupTable, TLC

CONSTANTS a, b, d, e, f, h, red, blue, green

SixClients == {a, b, d, e, f, h}
ThreeNames == {red, blue, green}

\* Clients and group names are interchangeable.
Symmetry == Permutations(Clients) \cup Permutations(GroupNames)
=============================================================================
