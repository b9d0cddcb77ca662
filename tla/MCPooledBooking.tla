-------------------------- MODULE MCPooledBooking ---------------------------
(***************************************************************************)
(* A small instance of PooledBooking for TLC: more requests than           *)
(* connections.                                                            *)
(***************************************************************************)
EXTENDS PooledBooking

OnlyFullTexts == {"full"}
=============================================================================
