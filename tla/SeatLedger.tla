----------------------------- MODULE SeatLedger -----------------------------
(***************************************************************************)
(* What the booking of seats promises, with no request, transaction or     *)
(* lock in sight: a table of events and, for each event, the set of the    *)
(* users that hold a seat.  A user joins or leaves in one step that moves  *)
(* the seat counter and the set together; nothing else changes the set.    *)
(* EventBooking implements it.                                             *)
(***************************************************************************)
EXTENDS EventRules

CONSTANTS Users, Events, NoEvent

VARIABLES row, attending

ledger == <<row, attending>>

Init == /\ row = [e \in Events |-> NoEvent]
        /\ attending = [e \in Events |-> {}]

OtherRowsKept(e) == \A f \in Events \ {e} : row'[f] = row[f]

\* A new event offers every seat it has.
Open(e) == /\ row[e] = NoEvent
           /\ row'[e] \in EventRow(Users)
           /\ row'[e].status \in {"draft", "published"}
           /\ row'[e].available_slots = row'[e].max_capacity
           /\ Readable(row'[e])
           /\ OtherRowsKept(e)
           /\ UNCHANGED attending

\* Its managers may edit a row within the table's constraints and what an
\* answer can show, but neither give it away nor touch who attends.
Manage(e) == /\ row[e] # NoEvent
             /\ row'[e] \in EventRow(Users)
             /\ Storable(row'[e])
             /\ row'[e].organizer_id = row[e].organizer_id
             /\ OtherRowsKept(e)
             /\ UNCHANGED attending

\* A seat is taken on a published event with a seat left, never by its
\* organizer and never twice.
Join(e, u) == /\ row[e] # NoEvent
              /\ row[e].status = "published"
              /\ row[e].organizer_id # u
              /\ row[e].available_slots > 0
              /\ u \notin attending[e]
              /\ row' = [row EXCEPT ![e].available_slots = @ - 1]
              /\ attending' = [attending EXCEPT ![e] = @ \cup {u}]

\* Whoever holds a seat can give it back while the counter has room.
Leave(e, u) == /\ row[e] # NoEvent
               /\ u \in attending[e]
               /\ row[e].available_slots < row[e].max_capacity
               /\ row' = [row EXCEPT ![e].available_slots = @ + 1]
               /\ attending' = [attending EXCEPT ![e] = @ \ {u}]

Next == \E e \in Events : \/ Open(e) \/ Manage(e)
                          \/ \E u \in Users : Join(e, u) \/ Leave(e, u)

Spec == Init /\ [][Next]_ledger
=============================================================================
