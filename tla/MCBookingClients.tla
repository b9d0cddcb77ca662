-------------------------- MODULE MCBookingClients --------------------------
(***************************************************************************)
(* Small instances of BookingClients for TLC.                              *)
(***************************************************************************)
EXTENDS BookingClients, TLC

OnlyFullTexts == {"full"}

Interchangeable == Permutations(Users) \cup Permutations(AttendeeReqs)
=============================================================================
