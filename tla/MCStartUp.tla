----------------------------- MODULE MCStartUp ------------------------------
(***************************************************************************)
(* A small instance of StartUp for TLC: two containers of two workers.     *)
(***************************************************************************)
EXTENDS StartUp

CONSTANTS c1, c2, w1, w2, w3, w4

TwoContainers == {c1, c2}
FourWorkers == {w1, w2, w3, w4}
Placement == [w \in FourWorkers |-> IF w \in {w1, w2} THEN c1 ELSE c2]
=============================================================================
