----------------------------- MODULE EventRules -----------------------------
(***************************************************************************)
(* The rows of the table events and the pure rules about them:             *)
(* app/utils/event_rules.py and the CHECK constraints of app/models/event. *)
(*                                                                         *)
(* A row keeps the columns the rules read.  Title, description and         *)
(* location are abstracted to one value, texts:                            *)
(*   full    none of them is blank;                                        *)
(*   blank   the description has nothing but blanks, enough of them for    *)
(*           its min_length;                                               *)
(*   unfit   EventRead refuses the row: a text too short once stripped,    *)
(*           or a null.                                                    *)
(* The dates are left out here: like the seat columns they have a CHECK,   *)
(* and module Agenda models what they are for.                             *)
(***************************************************************************)
EXTENDS Integers

EventStatus == {"draft", "published", "cancelled", "finished"}

Texts == {"full", "blank", "unfit"}

EventRow(users) ==
  [status : EventStatus, max_capacity : Nat \ {0}, available_slots : Nat,
   texts : Texts, organizer_id : users]

\* ALLOWED_STATUS_TRANSITIONS as the set of its pairs.
AllowedStatusTransitions ==
  {<<"draft", "published">>, <<"draft", "cancelled">>,
   <<"published", "cancelled">>, <<"published", "finished">>}

CanTransition(current, target) ==
  \/ current = target
  \/ <<current, target>> \in AllowedStatusTransitions

\* ck_events_max_capacity_positive and ck_events_available_slots_bounds.
RowCheck(row) ==
  /\ row.max_capacity > 0
  /\ row.available_slots >= 0
  /\ row.available_slots <= row.max_capacity

\* A service method ends by building its answer from the row, EventRead, inside
\* the transaction: it raises on a row it cannot represent.
Readable(row) == row.texts # "unfit"

Storable(row) == RowCheck(row) /\ Readable(row)

IsPublishable(row) == row.texts # "blank" /\ RowCheck(row)
=============================================================================
