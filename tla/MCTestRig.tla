------------------------------ MODULE MCTestRig ------------------------------
(* TestRig for TLC. *)
EXTENDS TestRig

\* One user; two who both speak; three of whom one speaks or two do; two
\* groups of two.
SmallTests == {<<1, 1, 1>>, <<1, 2, 2>>, <<1, 3, 1>>, <<1, 3, 2>>, <<2, 2, 1>>}
=============================================================================
