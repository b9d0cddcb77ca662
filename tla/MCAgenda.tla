------------------------------ MODULE MCAgenda ------------------------------
(***************************************************************************)
(* Small instances of Agenda for TLC.                                      *)
(***************************************************************************)
EXTENDS Agenda, TLC

WholeDay == {[start |-> 0, end |-> Horizon]}
Morning == {[start |-> 0, end |-> 1]}
Shortened == WholeDay \cup Morning

AnySlot == Slot

Row(e, speaker, room, start, end, status) ==
  [event |-> e, speaker |-> speaker, room |-> room,
   start |-> start, end |-> end, status |-> status]

\* For each rule a pair of rows that breaks it: one room with two speakers, one
\* speaker in two rooms, an hour in common each; a row the shortened day is too
\* short for; a status to go on to, and none to go back to; and a later begin
\* and an earlier end that two edits of the longest row may merge into one.
Programme ==
  LET speaker == CHOOSE p \in Speakers : TRUE
      other == CHOOSE p \in Speakers : p # speaker
      room == CHOOSE r \in Rooms : TRUE
      second == CHOOSE r \in Rooms : r # room
  IN UNION {{Row(e, speaker, room, 0, 3, "scheduled"),
             Row(e, other, room, 0, 1, "scheduled"),
             Row(e, speaker, second, 2, 3, "in_progress")} : e \in Events}

\* Speakers and rooms are told apart by Programme.
Interchangeable == Permutations(Sessions) \cup Permutations(Writers)
=============================================================================
