-------------------------- MODULE MCEventListing ---------------------------
(***************************************************************************)
(* A small instance of EventListing for TLC.                               *)
(***************************************************************************)
EXTENDS EventListing, TLC

Interchangeable == Permutations(Events)
=============================================================================
