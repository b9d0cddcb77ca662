--------------------------- MODULE MCEventBooking ---------------------------
(***************************************************************************)
(* Small instances of EventBooking for TLC.                                *)
(***************************************************************************)
EXTENDS EventBooking, TLC

AnyText == Texts
OnlyFullTexts == {"full"}
FullOrBlank == {"full", "blank"}

InterchangeableUsers == Permutations(Users) \cup Permutations(AttendeeReqs)
InterchangeableManagers == Permutations(Users) \cup Permutations(ManagerReqs)
=============================================================================
