--------------------------- MODULE MCAiGeneration ---------------------------
(***************************************************************************)
(* A small instance of AiGeneration for TLC: two users and two requests on *)
(* one worker, with room in the window for two of a user's requests.       *)
(***************************************************************************)
EXTENDS AiGeneration
=============================================================================
