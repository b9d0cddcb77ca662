---------------------------- MODULE EventBooking ----------------------------
(***************************************************************************)
(* Booking seats: EventService and RegistrationService of app/services     *)
(* over PostgreSQL at READ COMMITTED.                                      *)
(*                                                                         *)
(* Each HTTP request runs in one coroutine with one AsyncSession and one   *)
(* transaction (app/core/database.py).  A request is modelled by the       *)
(* statements whose order against other requests matters: the read (plain  *)
(* or FOR UPDATE), the service's decision, the flush, the commit.          *)
(*                                                                         *)
(*   register, cancel:  idle -> waiting -> locked -> staged -> flushed     *)
(*   update, delete:    idle ----------------------> staged -> flushed     *)
(*   create:            idle -------------------------------> flushed      *)
(*   flushed -> idle by Commit; any refusal or error -> failed -> idle     *)
(*                                                                         *)
(* events and regs are the committed tables.  What a request has written   *)
(* but not committed is in its own record: seen is the row it loaded, want *)
(* the row its session holds now; the ORM writes the columns where the two *)
(* differ.                                                                 *)
(***************************************************************************)
EXTENDS EventRules, FiniteSets

CONSTANTS Users, Admins,
          Events,                      \* identifiers events may get
          AttendeeReqs, ManagerReqs,   \* requests served concurrently, by kind
          Capacities,                  \* max_capacity of EventCreate
          CapacityEdits, SlotEdits,    \* max_capacity, available_slots of EventUpdate
          TextEdits,                   \* texts of EventCreate and EventUpdate
          NoEvent, NoReq               \* no such row; nobody holds the row lock

Requests == AttendeeReqs \cup ManagerReqs

ASSUME BookingAssumption ==
  /\ IsFiniteSet(Users) /\ Admins \subseteq Users
  /\ AttendeeReqs \cap ManagerReqs = {}
  /\ Capacities \subseteq Nat \ {0}
  /\ CapacityEdits \subseteq Nat \ {0}
  /\ SlotEdits \subseteq Nat
  /\ TextEdits \subseteq Texts
  /\ NoReq \notin Requests
  /\ NoEvent \notin EventRow(Users)

VARIABLES events,   \* the committed rows of events
          regs,     \* the committed rows of event_registrations, counted by status
          lock,     \* the transaction holding the row lock of each event
          req       \* the requests being served

vars == <<events, regs, lock, req>>

Row == EventRow(Users)
RegRows == [registered : Nat, cancelled : Nat]

Ops == {"register", "cancel", "create", "update", "delete"}
PCs == {"waiting", "locked", "staged", "flushed", "failed"}
RegWrites == {"keep", "insert", "reactivate", "cancel"}
Codes == {"ok", "not_found", "forbidden", "event_finished", "invalid_slots",
          "invalid_status_transition", "invalid_initial_status", "invalid_publish",
          "event_not_registerable", "organizer_self_registration",
          "registration_denied_capacity", "internal_error"}

Idle == [pc |-> "idle"]
Served == [pc : PCs, op : Ops, user : Users, event : Events,
           seen : Row \cup {NoEvent}, want : Row \cup {NoEvent},
           reg : RegWrites, code : Codes]

TypeOK == /\ events \in [Events -> Row \cup {NoEvent}]
          /\ regs \in [Events -> [Users -> RegRows]]
          /\ lock \in [Events -> Requests \cup {NoReq}]
          /\ req \in [Requests -> {Idle} \cup Served]

Init == /\ events = [e \in Events |-> NoEvent]
        /\ regs = [e \in Events |-> [u \in Users |-> [registered |-> 0, cancelled |-> 0]]]
        /\ lock = [e \in Events |-> NoReq]
        /\ req = [r \in Requests |-> Idle]

-----------------------------------------------------------------------------
(* The session of a request and the rows it writes *)

At(r, pc) == req[r].pc = pc
Active(r) == ~At(r, "idle")
Mine(r) == regs[req[r].event][req[r].user]

\* A request that a service method has just begun or finished deciding.
Call(pc, op, u, e, seen, want, reg, code) ==
  [pc |-> pc, op |-> op, user |-> u, event |-> e,
   seen |-> seen, want |-> want, reg |-> reg, code |-> code]

Refused(op, u, e, code) == Call("failed", op, u, e, NoEvent, NoEvent, "keep", code)

Refuse(r, code) ==
  req' = [req EXCEPT ![r] = Refused(@.op, @.user, @.event, code)]

\* The unit of work stages want and, perhaps, a registration row.
Stage(r, want, reg) ==
  req' = [req EXCEPT ![r] = [@ EXCEPT !.pc = "staged", !.want = want, !.reg = reg]]

\* UPDATE sets the columns the session changed and keeps the others as the
\* row has them now.
Column(now, seen, want) == IF want = seen THEN now ELSE want

Merge(now, seen, want) ==
  [status |-> Column(now.status, seen.status, want.status),
   max_capacity |-> Column(now.max_capacity, seen.max_capacity, want.max_capacity),
   available_slots |-> Column(now.available_slots, seen.available_slots, want.available_slots),
   texts |-> Column(now.texts, seen.texts, want.texts),
   organizer_id |-> now.organizer_id]

WritesEvent(r) == req[r].want # req[r].seen

Written(r) == IF req[r].seen = NoEvent
              THEN req[r].want
              ELSE Merge(events[req[r].event], req[r].seen, req[r].want)

Activates(r) == req[r].reg \in {"insert", "reactivate"}

\* Mutant: a previous row that is put back without its new status.
RegWrittenForgetful(rows, write) ==
  CASE write \in {"keep", "reactivate"} -> rows
    [] write = "insert" -> [rows EXCEPT !.registered = @ + 1]
    [] write = "cancel" -> [registered |-> rows.registered - 1,
                            cancelled |-> rows.cancelled + 1]

RegWritten(rows, write) ==
  CASE write = "keep" -> rows
    [] write = "insert" -> [rows EXCEPT !.registered = @ + 1]
    [] write = "reactivate" -> [registered |-> rows.registered + 1,
                                cancelled |-> rows.cancelled - 1]
    [] write = "cancel" -> [registered |-> rows.registered - 1,
                            cancelled |-> rows.cancelled + 1]

\* PostgreSQL releases the row locks of a transaction when it ends.
LocksReleased(r) == [e \in Events |-> IF lock[e] = r THEN NoReq ELSE lock[e]]

-----------------------------------------------------------------------------
(* RegistrationService *)

Arrive(r, u, e, op) ==
  /\ r \in AttendeeReqs /\ At(r, "idle")
  /\ req' = [req EXCEPT ![r] = Call("waiting", op, u, e, NoEvent, NoEvent, "keep", "ok")]
  /\ UNCHANGED <<events, regs, lock>>

\* Mutant: the read of a register or cancel without FOR UPDATE.
GetByIdUnlocked(r) ==
  /\ At(r, "waiting")
  /\ LET e == req[r].event
     IN \/ events[e] = NoEvent /\ Refuse(r, "not_found")
        \/ /\ events[e] # NoEvent
           /\ req' = [req EXCEPT ![r] = [@ EXCEPT !.pc = "locked",
                                                 !.seen = events[e], !.want = events[e]]]
  /\ UNCHANGED <<events, regs, lock>>

\* SELECT ... FOR UPDATE: waits for the row lock, then reads the latest
\* committed row.  A row nobody has committed is not there to wait for.
GetByIdForUpdate(r) ==
  /\ At(r, "waiting")
  /\ LET e == req[r].event
     IN \/ /\ events[e] = NoEvent
           /\ Refuse(r, "not_found")
           /\ UNCHANGED lock
        \/ /\ events[e] # NoEvent
           /\ lock[e] = NoReq
           /\ lock' = [lock EXCEPT ![e] = r]
           /\ req' = [req EXCEPT ![r] = [@ EXCEPT !.pc = "locked",
                                                 !.seen = events[e], !.want = events[e]]]
  /\ UNCHANGED <<events, regs>>

\* Mutant: a registration that forgets to ask whether a seat is left.
RegisterRefusalNoCapacity(r) ==
  LET row == req[r].seen
  IN IF row.status # "published" THEN "event_not_registerable"
     ELSE IF row.organizer_id = req[r].user THEN "organizer_self_registration"
     ELSE "ok"

\* Mutant: a registration that accepts an event in any status.
RegisterRefusalAnyStatus(r) ==
  LET row == req[r].seen
  IN IF row.organizer_id = req[r].user THEN "organizer_self_registration"
     ELSE IF Mine(r).registered = 1 THEN "ok"
     ELSE IF row.available_slots <= 0 THEN "registration_denied_capacity"
     ELSE "ok"

\* register_for_event refuses, in this order: the event, its organizer, a
\* full house; scalar_one_or_none raises on more rows than one.
RegisterRefusal(r) ==
  LET row == req[r].seen
  IN IF row.status # "published" THEN "event_not_registerable"
     ELSE IF row.organizer_id = req[r].user THEN "organizer_self_registration"
     ELSE IF Mine(r).registered > 1 THEN "internal_error"
     ELSE IF Mine(r).registered = 1 THEN "ok"
     ELSE IF row.available_slots <= 0 THEN "registration_denied_capacity"
     ELSE IF Mine(r).cancelled > 1 THEN "internal_error"
     ELSE "ok"

\* Mutant: a registration that never looks for a cancelled row to reuse.
RegisterForEventAnew(r) ==
  /\ At(r, "locked") /\ req[r].op = "register"
  /\ LET row == req[r].seen
         refusal == RegisterRefusal(r)
     IN \/ refusal # "ok" /\ Refuse(r, refusal)
        \/ refusal = "ok" /\ Mine(r).registered = 1 /\ Stage(r, row, "keep")
        \/ /\ refusal = "ok" /\ Mine(r).registered = 0
           /\ Stage(r, [row EXCEPT !.available_slots = @ - 1], "insert")
  /\ UNCHANGED <<events, regs, lock>>

RegisterForEvent(r) ==
  /\ At(r, "locked") /\ req[r].op = "register"
  /\ LET row == req[r].seen
         refusal == RegisterRefusal(r)
     IN \/ refusal # "ok" /\ Refuse(r, refusal)
        \/ /\ refusal = "ok" /\ Mine(r).registered = 1  \* already registered: the same answer again
           /\ Stage(r, row, "keep")
        \/ /\ refusal = "ok" /\ Mine(r).registered = 0
           /\ Stage(r, [row EXCEPT !.available_slots = @ - 1],
                    IF Mine(r).cancelled = 1 THEN "reactivate" ELSE "insert")
  /\ UNCHANGED <<events, regs, lock>>

\* Mutant: a cancellation that forgets to give the seat back.
CancelRegistrationKeepingSeat(r) ==
  /\ At(r, "locked") /\ req[r].op = "cancel"
  /\ \/ Mine(r).registered = 0 /\ Refuse(r, "not_found")
     \/ Mine(r).registered = 1 /\ Stage(r, req[r].seen, "cancel")
  /\ UNCHANGED <<events, regs, lock>>

\* Mutant: a cancellation that takes a cancelled row for an active one.
CancelRegistrationAnyRow(r) ==
  /\ At(r, "locked") /\ req[r].op = "cancel"
  /\ \/ Mine(r).registered + Mine(r).cancelled = 0 /\ Refuse(r, "not_found")
     \/ /\ Mine(r).registered + Mine(r).cancelled = 1
        /\ Stage(r, [req[r].seen EXCEPT !.available_slots = @ + 1],
                 IF Mine(r).registered = 1 THEN "cancel" ELSE "keep")
  /\ UNCHANGED <<events, regs, lock>>

\* No look at the event's status: a seat can be given back at any time.
CancelRegistration(r) ==
  /\ At(r, "locked") /\ req[r].op = "cancel"
  /\ \/ Mine(r).registered = 0 /\ Refuse(r, "not_found")
     \/ Mine(r).registered > 1 /\ Refuse(r, "internal_error")
     \/ /\ Mine(r).registered = 1
        /\ Stage(r, [req[r].seen EXCEPT !.available_slots = @ + 1], "cancel")
  /\ UNCHANGED <<events, regs, lock>>

-----------------------------------------------------------------------------
(* EventService: no method of it locks the row it reads *)

Unset == -1               \* a field the PUT body leaves out
Null == -2                \* a number the PUT body sends as null
KeepStatus == "unset"

\* The body of a PUT, the fields that matter here.  EventUpdate accepts a null where
\* the comparison of seats and capacity raises, whatever else the body sends.
Edits == [status : EventStatus \cup {KeepStatus},
          max_capacity : CapacityEdits \cup {Unset},
          available_slots : SlotEdits \cup {Unset},
          texts : TextEdits]
         \cup [status : {KeepStatus}, max_capacity : {Unset, Null},
               available_slots : {Unset, Null}, texts : TextEdits]

SendsNull(edit) == Null \in {edit.max_capacity, edit.available_slots}

CanManage(row, u) == row.organizer_id = u \/ u \in Admins

\* The reads common to PUT and DELETE.
LoadRefusal(row, u) ==
  IF row = NoEvent THEN "not_found"
  ELSE IF row.status = "cancelled" THEN "not_found"
  ELSE IF ~CanManage(row, u) THEN "forbidden"
  ELSE IF row.status = "finished" THEN "event_finished"
  ELSE "ok"

\* The row after setattr for every field sent; a new capacity alone caps
\* the seats left.
Edited(row, edit) ==
  LET cap == IF edit.max_capacity = Unset THEN row.max_capacity ELSE edit.max_capacity
      slots == IF edit.available_slots # Unset THEN edit.available_slots
               ELSE IF edit.max_capacity # Unset /\ row.available_slots > cap THEN cap
               ELSE row.available_slots
  IN [row EXCEPT !.max_capacity = cap, !.available_slots = slots,
                 !.texts = edit.texts]

Transitioned(row, status) ==
  IF status = KeepStatus THEN row ELSE [row EXCEPT !.status = status]

\* Mutant: a PUT that stores any status it is sent.
UpdateRefusalAnyStatus(row, edit, u) ==
  IF LoadRefusal(row, u) # "ok" THEN LoadRefusal(row, u)
  ELSE IF SendsNull(edit) THEN "internal_error"
  ELSE IF Transitioned(Edited(row, edit), edit.status).status = "published"
          /\ ~IsPublishable(Edited(row, edit)) THEN "invalid_publish"
  ELSE "ok"

\* Mutant: a PUT that asks is_publishable only when it is sent a status.
UpdateRefusalOnPublishOnly(row, edit, u) ==
  IF LoadRefusal(row, u) # "ok" THEN LoadRefusal(row, u)
  ELSE IF SendsNull(edit) THEN "internal_error"
  ELSE IF edit.status # KeepStatus /\ ~CanTransition(row.status, edit.status)
    THEN "invalid_status_transition"
  ELSE IF edit.status = "published" /\ ~IsPublishable(Edited(row, edit))
    THEN "invalid_publish"
  ELSE "ok"

UpdateRefusal(row, edit, u) ==
  LET new == Edited(row, edit)
  IN IF LoadRefusal(row, u) # "ok" THEN LoadRefusal(row, u)
     ELSE IF SendsNull(edit) THEN "internal_error"
     ELSE IF edit.available_slots # Unset /\ new.available_slots > new.max_capacity
       THEN "invalid_slots"
     ELSE IF edit.status # KeepStatus /\ ~CanTransition(row.status, edit.status)
       THEN "invalid_status_transition"
     ELSE IF Transitioned(new, edit.status).status = "published" /\ ~IsPublishable(new)
       THEN "invalid_publish"
     ELSE "ok"

NewEvent(u, status, cap, text) ==
  [status |-> status, max_capacity |-> cap, available_slots |-> cap,
   texts |-> text, organizer_id |-> u]

\* create_event strips all three texts: EventRead refuses a blank description as
\* well, and the INSERT is rolled back.
CreateRefusal(new) ==
  IF new.status \notin {"draft", "published"} THEN "invalid_initial_status"
  ELSE IF new.status = "published" /\ ~IsPublishable(new) THEN "invalid_publish"
  ELSE IF new.texts # "full" THEN "internal_error"
  ELSE "ok"

\* The uncommitted row of a new event is visible to its creator alone.
CreateEvent(r, u, e) ==
  /\ r \in ManagerReqs /\ At(r, "idle")
  /\ events[e] = NoEvent /\ lock[e] = NoReq
  /\ \E status \in EventStatus, cap \in Capacities, text \in TextEdits :
       LET new == NewEvent(u, status, cap, text)
           refusal == CreateRefusal(new)
       IN \/ /\ refusal # "ok"
             /\ req' = [req EXCEPT ![r] = Refused("create", u, e, refusal)]
             /\ UNCHANGED lock
          \/ /\ refusal = "ok"
             /\ req' = [req EXCEPT ![r] = Call("flushed", "create", u, e,
                                               NoEvent, new, "keep", "ok")]
             /\ lock' = [lock EXCEPT ![e] = r]
  /\ UNCHANGED <<events, regs>>

\* The plain SELECT of get_by_id and everything decided from the row it read.
UpdateEvent(r, u, e) ==
  /\ r \in ManagerReqs /\ At(r, "idle")
  /\ \E edit \in Edits :
       LET row == events[e]
           refusal == UpdateRefusal(row, edit, u)
       IN \/ /\ refusal # "ok"
             /\ req' = [req EXCEPT ![r] = Refused("update", u, e, refusal)]
          \/ /\ refusal = "ok"
             /\ req' = [req EXCEPT ![r] =
                          Call("staged", "update", u, e, row,
                               Transitioned(Edited(row, edit), edit.status), "keep", "ok")]
  /\ UNCHANGED <<events, regs, lock>>

DeleteRefusal(row, u) ==
  IF LoadRefusal(row, u) # "ok" THEN LoadRefusal(row, u)
  ELSE IF ~CanTransition(row.status, "cancelled") THEN "invalid_status_transition"
  ELSE "ok"

DeleteEvent(r, u, e) ==
  /\ r \in ManagerReqs /\ At(r, "idle")
  /\ LET row == events[e]
         refusal == DeleteRefusal(row, u)
     IN \/ /\ refusal # "ok"
           /\ req' = [req EXCEPT ![r] = Refused("delete", u, e, refusal)]
        \/ /\ refusal = "ok"
           /\ req' = [req EXCEPT ![r] =
                        Call("staged", "delete", u, e, row,
                             Transitioned(row, "cancelled"), "keep", "ok")]
  /\ UNCHANGED <<events, regs, lock>>

-----------------------------------------------------------------------------
(* The session and its transaction *)

\* Mutant: a flush that checks the row its session holds, not the one stored.
FlushFailsOnWant(r) ==
  \/ WritesEvent(r) /\ ~Storable(req[r].want)
  \/ Activates(r) /\ Mine(r).registered > 0

\* The statements of a flush fail on the table's CHECKs and on the partial
\* unique index over active registrations; the row read back after it, on
\* EventRead.
FlushFails(r) ==
  \/ WritesEvent(r) /\ ~Storable(Written(r))
  \/ Activates(r) /\ Mine(r).registered > 0

\* UPDATE waits for the row lock unless its transaction has it already.
Flush(r) ==
  /\ At(r, "staged")
  /\ LET e == req[r].event
     IN \/ ~WritesEvent(r) /\ UNCHANGED lock
        \/ /\ WritesEvent(r)
           /\ lock[e] \in {NoReq, r}
           /\ lock' = [lock EXCEPT ![e] = r]
  /\ \/ FlushFails(r) /\ Refuse(r, "internal_error")
     \/ ~FlushFails(r) /\ req' = [req EXCEPT ![r] = [@ EXCEPT !.pc = "flushed"]]
  /\ UNCHANGED <<events, regs>>

Commit(r) ==
  /\ At(r, "flushed")
  /\ LET e == req[r].event
         u == req[r].user
     IN /\ events' = IF WritesEvent(r) THEN [events EXCEPT ![e] = Written(r)] ELSE events
        /\ regs' = [regs EXCEPT ![e][u] = RegWritten(@, req[r].reg)]
  /\ lock' = LocksReleased(r)
  /\ req' = [req EXCEPT ![r] = Idle]

\* Mutant: an error path that leaves the transaction open.
RollbackKeepingLocks(r) ==
  /\ At(r, "failed")
  /\ req' = [req EXCEPT ![r] = Idle]
  /\ UNCHANGED <<events, regs, lock>>

\* A refusal or an error: get_db_session rolls back.
Rollback(r) ==
  /\ At(r, "failed")
  /\ lock' = LocksReleased(r)
  /\ req' = [req EXCEPT ![r] = Idle]
  /\ UNCHANGED <<events, regs>>

\* The worker dies; PostgreSQL rolls back the transaction it left open.
Crash(r) ==
  /\ Active(r)
  /\ lock' = LocksReleased(r)
  /\ req' = [req EXCEPT ![r] = Idle]
  /\ UNCHANGED <<events, regs>>

-----------------------------------------------------------------------------

Begin(r) ==
  \E u \in Users, e \in Events :
    \/ \E op \in {"register", "cancel"} : Arrive(r, u, e, op)
    \/ CreateEvent(r, u, e)
    \/ UpdateEvent(r, u, e)
    \/ DeleteEvent(r, u, e)

Serve(r) == \/ GetByIdForUpdate(r)
            \/ RegisterForEvent(r)
            \/ CancelRegistration(r)
            \/ Flush(r)
            \/ Commit(r)
            \/ Rollback(r)

Next == \E r \in Requests : Begin(r) \/ Serve(r) \/ Crash(r)

Spec == Init /\ [][Next]_vars

-----------------------------------------------------------------------------
(* Properties *)

\* A user never has two rows for one event, whatever registrations and
\* cancellations are under way: the row lock serialises the check for a
\* previous row and the insert (registration_service.py, register_for_event).
OneRowPerAttendee ==
  \A e \in Events, u \in Users : regs[e][u].registered + regs[e][u].cancelled <= 1

\* No registration dies of an unhandled database error: neither on
\* MultipleResultsFound, nor on the partial unique index, nor on the CHECK of
\* the seats (register_for_event).
RegisterNeverInternalError ==
  \A r \in Requests : Active(r) =>
    ~(req[r].op = "register" /\ req[r].code = "internal_error")

\* The users that hold a seat of each event.
Attending == [e \in Events |-> {u \in Users : regs[e][u].registered > 0}]

\* The requests over locks and transactions implement the ledger of seats:
\* every commit opens, manages, joins or leaves, and a seat moves together
\* with its registration.
Ledger == INSTANCE SeatLedger WITH row <- events, attending <- Attending

LedgerSpec == Ledger!Spec

\* Nobody is registered on an event that was never published.
NoAttendeesInDraft ==
  \A e \in Events : \A u \in Users : regs[e][u].registered > 0 =>
    events[e] # NoEvent /\ events[e].status # "draft"

\* No event has more attendees than seats (README.md, control de cupos).
NoOverbooking ==
  \A e \in Events : events[e] # NoEvent =>
    Cardinality(Attending[e]) <= events[e].max_capacity

\* The seats taken and the seats left are within the capacity together.
SeatsFit(e) == events[e] # NoEvent =>
  Cardinality(Attending[e]) + events[e].available_slots <= events[e].max_capacity

\* A manager's commit writes the row of e.
ManagerCommits(m, e) == Commit(m) /\ req[m].event = e

\* It lowers the stored capacity or raises the stored seats left.
CutsSeats(m, e) ==
  /\ ManagerCommits(m, e)
  /\ \/ events'[e].max_capacity < events[e].max_capacity
     \/ events'[e].available_slots > events[e].available_slots

\* However registrations, cancellations and stale edits interleave, the seats of
\* an event stop fitting only by the commit of a manager that lowers the stored
\* capacity or raises the stored seats left (registration_service.py moves one
\* seat under FOR UPDATE; event_service.py, update_event, looks at no attendee).
SeatsFitUnlessEdited ==
  [][\A e \in Events : SeatsFit(e) =>
       SeatsFit(e)' \/ \E m \in ManagerReqs : CutsSeats(m, e)]_vars

\* A cancellation dies of the CHECK on the seats only where such an edit has left
\* more seats than the capacity (registration_service.py, cancel_registration).
CancelFailsOnlyOverbooked ==
  \A r \in Requests : Active(r) =>
    (req[r].op = "cancel" /\ req[r].code = "internal_error" => ~SeatsFit(req[r].event))

\* The status stored for an event only moves along ALLOWED_STATUS_TRANSITIONS.
StatusMachine ==
  [][\A e \in Events : events[e] # NoEvent =>
       CanTransition(events[e].status, events'[e].status)]_events

\* It leaves them only by the commit of a manager who decided from a status that
\* is no longer the stored one: never by a booking, nor by an edit or a deletion
\* that nobody has overtaken (event_service.py, update_event and delete_event).
StatusMachineUnlessOvertaken ==
  [][\A e \in Events : events[e] # NoEvent =>
       \/ CanTransition(events[e].status, events'[e].status)
       \/ \E m \in ManagerReqs : /\ ManagerCommits(m, e)
                                 /\ req[m].seen.status # events[e].status]_vars

\* Whatever two edits merge into, every stored row can be answered with: no
\* later GET or page of the listing dies on it (schemas/event.py, EventRead).
StoredRowsReadable == \A e \in Events : events[e] # NoEvent => Storable(events[e])

\* Offered to the public without having passed is_publishable.
Incomplete(row) == row # NoEvent /\ row.status = "published" /\ ~IsPublishable(row)

\* The manager has loaded a status or texts that are no longer the stored ones.
Overtaken(m, e) == /\ req[m].seen # NoEvent
                   /\ \/ req[m].seen.status # events[e].status
                      \/ req[m].seen.texts # events[e].texts

\* An event comes to be offered incomplete only by the commit of a manager whose
\* status or texts have been overtaken: two edits that are publishable each, and
\* merge into a row nobody asked is_publishable about (update_event).
PublishableUnlessOvertaken ==
  [][\A e \in Events : Incomplete(events'[e]) =>
       \/ Incomplete(events[e])
       \/ \E m \in ManagerReqs : ManagerCommits(m, e) /\ Overtaken(m, e)]_vars
=============================================================================
