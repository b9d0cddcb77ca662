------------------------- MODULE EventBookingProofs -------------------------
(***************************************************************************)
(* What EventBooking guarantees for any users, events, requests and edits. *)
(***************************************************************************)
EXTENDS EventBooking, FiniteSetTheorems, TLAPS

(***************************************************************************)
(* The inductive invariant.  What a request has decided stays true while   *)
(* it holds the row lock, because only the holder of the lock writes the   *)
(* event and its registrations.                                            *)
(***************************************************************************)
Decided(r) == req[r].pc \in {"staged", "flushed"}

HoldsLock(r) == \/ req[r].pc = "locked"
                \/ r \in AttendeeReqs /\ Decided(r)
                \/ req[r].pc = "flushed" /\ WritesEvent(r)

\* The row a booking has locked is the committed one, and the seat it is
\* about to take or give is its to take or give.
AttendeeWork(r) ==
  LET seen == req[r].seen
      want == req[r].want
  IN /\ req[r].op \in {"register", "cancel"}
     /\ HoldsLock(r) => seen \in Row /\ seen = events[req[r].event]
     /\ Decided(r) => want \in Row
     /\ Decided(r) /\ req[r].reg = "keep" => want = seen
     /\ Decided(r) /\ Activates(r) =>
          /\ req[r].op = "register"
          /\ seen.status = "published" /\ seen.organizer_id # req[r].user
          /\ seen.available_slots > 0
          /\ want = [seen EXCEPT !.available_slots = @ - 1]
          /\ Mine(r).registered = 0
          /\ Mine(r).cancelled = IF req[r].reg = "reactivate" THEN 1 ELSE 0
     /\ Decided(r) /\ req[r].reg = "cancel" =>
          /\ req[r].op = "cancel"
          /\ want = [seen EXCEPT !.available_slots = @ + 1]
          /\ Mine(r).registered = 1

ManagerWork(r) ==
  LET seen == req[r].seen
      want == req[r].want
      e == req[r].event
  IN /\ req[r].op \in {"create", "update", "delete"}
     /\ req[r].reg = "keep"
     /\ req[r].pc \notin {"waiting", "locked"}
     /\ Decided(r) => want \in Row
     /\ Decided(r) /\ seen = NoEvent =>
          /\ req[r].pc = "flushed" /\ events[e] = NoEvent
          /\ want.status \in {"draft", "published"}
          /\ want.available_slots = want.max_capacity
          /\ Readable(want)
     /\ Decided(r) /\ seen # NoEvent => events[e] \in Row

RequestInv(r) == Active(r) =>
  /\ HoldsLock(r) => lock[req[r].event] = r
  /\ r \in AttendeeReqs => AttendeeWork(r)
  /\ r \in ManagerReqs => ManagerWork(r)
  /\ req[r].pc = "flushed" /\ WritesEvent(r) /\ req[r].seen # NoEvent => Storable(Written(r))
  /\ req[r].op = "register" => req[r].code # "internal_error"

BookingInv == /\ TypeOK
              /\ OneRowPerAttendee
              /\ StoredRowsReadable
              /\ \A r \in Requests : RequestInv(r)

-----------------------------------------------------------------------------
\* The columns of a row of events, and that it is a row.
LEMMA TypeOfRow ==
  ASSUME NEW row \in Row
  PROVE  /\ row.status \in EventStatus
         /\ row.max_capacity \in Nat \ {0}
         /\ row.available_slots \in Nat
         /\ row.texts \in Texts
         /\ row.organizer_id \in Users
         /\ row # NoEvent
  BY BookingAssumption DEF Row, EventRow

\* The fields of a request that is being served.
LEMMA TypeOfRequest ==
  ASSUME TypeOK, NEW r \in Requests, Active(r)
  PROVE  /\ req[r] \in Served
         /\ req[r].pc \in PCs /\ req[r].op \in Ops
         /\ req[r].user \in Users /\ req[r].event \in Events
         /\ req[r].seen \in Row \cup {NoEvent}
         /\ req[r].want \in Row \cup {NoEvent}
         /\ req[r].reg \in RegWrites /\ req[r].code \in Codes
  BY DEF TypeOK, Active, At, Idle, Served

\* Releasing the locks of a transaction leaves a table of locks.
LEMMA ReleasedType ==
  ASSUME TypeOK, NEW r \in Requests
  PROVE  LocksReleased(r) \in [Events -> Requests \cup {NoReq}]
  BY DEF TypeOK, LocksReleased

\* The fields of a PUT body without a null leave a row with its organizer and its
\* status.
LEMMA EditedRow ==
  ASSUME NEW row \in Row, NEW edit \in Edits, ~SendsNull(edit)
  PROVE  /\ Edited(row, edit) \in Row
         /\ Edited(row, edit).organizer_id = row.organizer_id
         /\ Edited(row, edit).status = row.status
<1>1. /\ edit.max_capacity \in CapacityEdits \cup {Unset}
      /\ edit.available_slots \in SlotEdits \cup {Unset}
      /\ edit.texts \in Texts
  BY BookingAssumption DEF Edits, SendsNull
<1> DEFINE cap == IF edit.max_capacity = Unset THEN row.max_capacity ELSE edit.max_capacity
           slots == IF edit.available_slots # Unset THEN edit.available_slots
                    ELSE IF edit.max_capacity # Unset /\ row.available_slots > cap THEN cap
                    ELSE row.available_slots
<1>2. cap \in Nat \ {0} /\ slots \in Nat
  BY <1>1, TypeOfRow, BookingAssumption
<1>3. Edited(row, edit) = [row EXCEPT !.max_capacity = cap, !.available_slots = slots,
                                      !.texts = edit.texts]
  BY DEF Edited
<1> HIDE DEF cap, slots
<1> QED BY <1>1, <1>2, <1>3 DEF Row, EventRow

\* A PUT that is not refused has loaded a live row and leaves it with its
\* organizer.
LEMMA UpdatedRow ==
  ASSUME NEW row \in Row \cup {NoEvent}, NEW edit \in Edits, NEW u \in Users,
         UpdateRefusal(row, edit, u) = "ok"
  PROVE  /\ row \in Row
         /\ Transitioned(Edited(row, edit), edit.status) \in Row
         /\ Transitioned(Edited(row, edit), edit.status).organizer_id = row.organizer_id
<1>1. row \in Row
  BY DEF UpdateRefusal, LoadRefusal
<1>2. edit.status \in EventStatus \cup {KeepStatus} /\ ~SendsNull(edit)
  BY DEF Edits, UpdateRefusal, LoadRefusal
<1> QED BY <1>1, <1>2, EditedRow DEF Transitioned, Row, EventRow

\* A DELETE that is not refused has loaded a live row and cancels it.
LEMMA DeletedRow ==
  ASSUME NEW row \in Row \cup {NoEvent}, NEW u \in Users, DeleteRefusal(row, u) = "ok"
  PROVE  /\ row \in Row
         /\ Transitioned(row, "cancelled") \in Row
         /\ Transitioned(row, "cancelled").organizer_id = row.organizer_id
<1>1. row \in Row
  BY DEF DeleteRefusal, LoadRefusal
<1> QED BY <1>1 DEF Transitioned, KeepStatus, Row, EventRow, EventStatus

\* An UPDATE merged into the current row gives a row.
LEMMA MergeType ==
  ASSUME NEW now \in Row, NEW seen \in Row, NEW want \in Row
  PROVE  /\ Merge(now, seen, want) \in Row
         /\ Merge(now, seen, want).organizer_id = now.organizer_id
  BY TypeOfRow DEF Merge, Column, Row, EventRow

\* The registrations of the user of a request, by status.
LEMMA MineType ==
  ASSUME TypeOK, NEW r \in Requests, Active(r)
  PROVE  Mine(r) \in RegRows /\ Mine(r).registered \in Nat /\ Mine(r).cancelled \in Nat
  BY TypeOfRequest DEF TypeOK, Mine, RegRows

\* What a request that holds the lock has found.
LEMMA LockedRow ==
  ASSUME TypeOK, NEW r \in Requests, RequestInv(r), At(r, "locked")
  PROVE  /\ Active(r) /\ r \in AttendeeReqs
         /\ lock[req[r].event] = r
         /\ req[r].seen \in Row /\ req[r].seen = events[req[r].event]
  BY DEF RequestInv, Active, At, HoldsLock, ManagerWork, AttendeeWork, Requests

\* Writing a registration leaves counts, where the row it changes is there.
LEMMA RegWrittenType ==
  ASSUME TypeOK, NEW r \in Requests, RequestInv(r), At(r, "flushed")
  PROVE  RegWritten(Mine(r), req[r].reg) \in RegRows
<1>1. Active(r) /\ Decided(r)
  BY DEF At, Active, Decided
<1>2. /\ req[r].reg \in {"insert", "reactivate", "cancel"} => r \in AttendeeReqs
      /\ req[r].reg \in {"insert", "reactivate", "cancel", "keep"}
  BY <1>1, TypeOfRequest DEF RequestInv, ManagerWork, Requests, RegWrites
<1>3. CASE req[r].reg = "keep"
  BY <1>1, <1>3, MineType DEF RegWritten
<1>4. CASE req[r].reg = "insert"
  BY <1>1, <1>4, MineType DEF RegWritten, RegRows
<1>5. CASE req[r].reg = "reactivate"
  <2>1. Mine(r).cancelled = 1
    BY <1>1, <1>2, <1>5 DEF RequestInv, AttendeeWork, Activates
  <2>2. RegWritten(Mine(r), req[r].reg) =
          [registered |-> Mine(r).registered + 1, cancelled |-> Mine(r).cancelled - 1]
    BY <1>5 DEF RegWritten
  <2> QED BY <1>1, <2>1, <2>2, MineType DEF RegRows
<1>6. CASE req[r].reg = "cancel"
  <2>1. Mine(r).registered = 1
    BY <1>1, <1>2, <1>6 DEF RequestInv, AttendeeWork
  <2>2. RegWritten(Mine(r), req[r].reg) =
          [registered |-> Mine(r).registered - 1, cancelled |-> Mine(r).cancelled + 1]
    BY <1>6 DEF RegWritten
  <2> QED BY <1>1, <2>1, <2>2, MineType DEF RegRows
<1> QED BY <1>2, <1>3, <1>4, <1>5, <1>6

\* The row a flushed request commits.
LEMMA WrittenType ==
  ASSUME TypeOK, NEW r \in Requests, RequestInv(r), Active(r), Decided(r)
  PROVE  /\ req[r].want \in Row
         /\ Written(r) \in Row
         /\ req[r].seen # NoEvent =>
              /\ events[req[r].event] \in Row
              /\ Written(r).organizer_id = events[req[r].event].organizer_id
<1>1. req[r].want \in Row
  BY DEF RequestInv, AttendeeWork, ManagerWork, Requests
<1>2. req[r].seen # NoEvent => req[r].seen \in Row /\ events[req[r].event] \in Row
  BY TypeOfRequest DEF RequestInv, AttendeeWork, ManagerWork, Requests, HoldsLock
<1> QED BY <1>1, <1>2, MergeType DEF Written

\* Staging a row and a registration leaves a request being served.
LEMMA StagedType ==
  ASSUME TypeOK, NEW r \in Requests, Active(r), NEW want \in Row, NEW reg \in RegWrites
  PROVE  [req EXCEPT ![r] = [@ EXCEPT !.pc = "staged", !.want = want, !.reg = reg]]
           \in [Requests -> {Idle} \cup Served]
<1>1. [req[r] EXCEPT !.pc = "staged", !.want = want, !.reg = reg] \in Served
  BY TypeOfRequest DEF Served, PCs
<1> QED BY <1>1 DEF TypeOK

\* Refusing leaves a request being served.
LEMMA RefusalType ==
  ASSUME TypeOK, NEW r \in Requests, Active(r), NEW code \in Codes
  PROVE  [req EXCEPT ![r] = Refused(@.op, @.user, @.event, code)]
           \in [Requests -> {Idle} \cup Served]
<1>1. Refused(req[r].op, req[r].user, req[r].event, code) \in Served
  BY TypeOfRequest DEF Refused, Call, Served, PCs, RegWrites
<1> QED BY <1>1 DEF TypeOK

-----------------------------------------------------------------------------
(* The type invariant *)

\* Every step keeps the types, given what the requests under way have decided.
LEMMA BookingTypes ==
  ASSUME TypeOK, [Next]_vars, \A r \in Requests : RequestInv(r)
  PROVE  TypeOK'
<1>1. ASSUME NEW r \in Requests, NEW u \in Users, NEW e \in Events,
             NEW op \in {"register", "cancel"}, Arrive(r, u, e, op)
      PROVE  TypeOK'
  <2>1. Call("waiting", op, u, e, NoEvent, NoEvent, "keep", "ok") \in Served
    BY DEF Call, Served, PCs, Ops, RegWrites, Codes
  <2> QED BY <1>1, <2>1 DEF Arrive, TypeOK
<1>2. ASSUME NEW r \in Requests, NEW u \in Users, NEW e \in Events, CreateEvent(r, u, e)
      PROVE  TypeOK'
  <2>1. PICK status \in EventStatus, cap \in Capacities, text \in TextEdits, code \in Codes :
          \/ /\ req' = [req EXCEPT ![r] = Refused("create", u, e, code)]
             /\ UNCHANGED lock
          \/ /\ req' = [req EXCEPT ![r] = Call("flushed", "create", u, e, NoEvent,
                                              NewEvent(u, status, cap, text), "keep", "ok")]
             /\ lock' = [lock EXCEPT ![e] = r]
    BY <1>2 DEF CreateEvent, CreateRefusal, Codes
  <2>2. NewEvent(u, status, cap, text) \in Row
    BY BookingAssumption DEF NewEvent, Row, EventRow, EventStatus
  <2>3. Call("flushed", "create", u, e, NoEvent, NewEvent(u, status, cap, text), "keep", "ok")
          \in Served
    BY <2>2 DEF Call, Served, PCs, Ops, RegWrites, Codes
  <2>4. Refused("create", u, e, code) \in Served
    BY DEF Refused, Call, Served, PCs, Ops, RegWrites, Codes
  <2>5. UNCHANGED <<events, regs>>
    BY <1>2 DEF CreateEvent
  <2> QED BY <2>1, <2>3, <2>4, <2>5 DEF TypeOK
<1>3. ASSUME NEW r \in Requests, NEW u \in Users, NEW e \in Events, UpdateEvent(r, u, e)
      PROVE  TypeOK'
  <2>1. PICK edit \in Edits :
          \/ req' = [req EXCEPT ![r] = Refused("update", u, e, UpdateRefusal(events[e], edit, u))]
          \/ /\ UpdateRefusal(events[e], edit, u) = "ok"
             /\ req' = [req EXCEPT ![r] =
                          Call("staged", "update", u, e, events[e],
                               Transitioned(Edited(events[e], edit), edit.status), "keep", "ok")]
    BY <1>3 DEF UpdateEvent
  <2>2. UpdateRefusal(events[e], edit, u) \in Codes
    BY DEF UpdateRefusal, LoadRefusal, Codes
  <2>3. UpdateRefusal(events[e], edit, u) = "ok" =>
          /\ events[e] \in Row
          /\ Transitioned(Edited(events[e], edit), edit.status) \in Row
    BY UpdatedRow DEF TypeOK
  <2>4. UpdateRefusal(events[e], edit, u) = "ok" =>
          Call("staged", "update", u, e, events[e],
               Transitioned(Edited(events[e], edit), edit.status), "keep", "ok") \in Served
    BY <2>3 DEF Call, Served, PCs, Ops, RegWrites, Codes
  <2>5. Refused("update", u, e, UpdateRefusal(events[e], edit, u)) \in Served
    BY <2>2 DEF Refused, Call, Served, PCs, Ops, RegWrites
  <2>6. UNCHANGED <<events, regs, lock>>
    BY <1>3 DEF UpdateEvent
  <2> QED BY <2>1, <2>4, <2>5, <2>6 DEF TypeOK
<1>4. ASSUME NEW r \in Requests, NEW u \in Users, NEW e \in Events, DeleteEvent(r, u, e)
      PROVE  TypeOK'
  <2>1. \/ req' = [req EXCEPT ![r] = Refused("delete", u, e, DeleteRefusal(events[e], u))]
        \/ /\ DeleteRefusal(events[e], u) = "ok"
           /\ req' = [req EXCEPT ![r] =
                        Call("staged", "delete", u, e, events[e],
                             Transitioned(events[e], "cancelled"), "keep", "ok")]
    BY <1>4 DEF DeleteEvent
  <2>2. DeleteRefusal(events[e], u) \in Codes
    BY DEF DeleteRefusal, LoadRefusal, Codes
  <2>3. DeleteRefusal(events[e], u) = "ok" =>
          events[e] \in Row /\ Transitioned(events[e], "cancelled") \in Row
    BY DeletedRow DEF TypeOK
  <2>4. DeleteRefusal(events[e], u) = "ok" =>
          Call("staged", "delete", u, e, events[e],
               Transitioned(events[e], "cancelled"), "keep", "ok") \in Served
    BY <2>3 DEF Call, Served, PCs, Ops, RegWrites, Codes
  <2>5. Refused("delete", u, e, DeleteRefusal(events[e], u)) \in Served
    BY <2>2 DEF Refused, Call, Served, PCs, Ops, RegWrites
  <2>6. UNCHANGED <<events, regs, lock>>
    BY <1>4 DEF DeleteEvent
  <2> QED BY <2>1, <2>4, <2>5, <2>6 DEF TypeOK
<1>5. ASSUME NEW r \in Requests, GetByIdForUpdate(r)
      PROVE  TypeOK'
  <2> DEFINE e == req[r].event
  <2>1. Active(r) /\ e \in Events
    BY <1>5, TypeOfRequest DEF GetByIdForUpdate, Active, At
  <2>2. CASE events[e] = NoEvent /\ Refuse(r, "not_found") /\ UNCHANGED lock
    BY <1>5, <2>1, <2>2, RefusalType DEF GetByIdForUpdate, Refuse, Codes, TypeOK
  <2>3. CASE /\ events[e] # NoEvent
             /\ lock' = [lock EXCEPT ![e] = r]
             /\ req' = [req EXCEPT ![r] = [@ EXCEPT !.pc = "locked",
                                        !.seen = events[e], !.want = events[e]]]
    <3>1. events[e] \in Row
      BY <2>1, <2>3 DEF TypeOK
    <3>2. [req[r] EXCEPT !.pc = "locked", !.seen = events[e], !.want = events[e]] \in Served
      BY <2>1, <3>1, TypeOfRequest DEF Served, PCs
    <3> QED BY <1>5, <2>1, <2>3, <3>2 DEF GetByIdForUpdate, TypeOK
  <2> QED BY <1>5, <2>2, <2>3 DEF GetByIdForUpdate
<1>6. ASSUME NEW r \in Requests, RegisterForEvent(r)
      PROVE  TypeOK'
  <2>1. Active(r) /\ req[r].seen \in Row /\ UNCHANGED <<events, regs, lock>>
    BY <1>6, LockedRow DEF RegisterForEvent
  <2>2. CASE Refuse(r, RegisterRefusal(r))
    <3>1. RegisterRefusal(r) \in Codes
      BY DEF RegisterRefusal, Codes
    <3> QED BY <2>1, <2>2, <3>1, RefusalType DEF Refuse, TypeOK
  <2>3. CASE Stage(r, req[r].seen, "keep")
    BY <2>1, <2>3, StagedType DEF Stage, RegWrites, TypeOK
  <2>4. CASE /\ RegisterRefusal(r) = "ok" /\ Mine(r).registered = 0
             /\ Stage(r, [req[r].seen EXCEPT !.available_slots = @ - 1],
                      IF Mine(r).cancelled = 1 THEN "reactivate" ELSE "insert")
    <3>1. req[r].seen.available_slots > 0
      BY <2>1, <2>4, TypeOfRow DEF RegisterRefusal
    <3>2. [req[r].seen EXCEPT !.available_slots = @ - 1] \in Row
      BY <2>1, <3>1 DEF Row, EventRow
    <3>3. (IF Mine(r).cancelled = 1 THEN "reactivate" ELSE "insert") \in RegWrites
      BY DEF RegWrites
    <3> QED BY <2>1, <2>4, <3>2, <3>3, StagedType DEF Stage, TypeOK
  <2> QED BY <1>6, <2>2, <2>3, <2>4 DEF RegisterForEvent
<1>7. ASSUME NEW r \in Requests, CancelRegistration(r)
      PROVE  TypeOK'
  <2>1. Active(r) /\ req[r].seen \in Row /\ UNCHANGED <<events, regs, lock>>
    BY <1>7, LockedRow DEF CancelRegistration
  <2>2. CASE Refuse(r, "not_found") \/ Refuse(r, "internal_error")
    BY <2>1, <2>2, RefusalType DEF Refuse, Codes, TypeOK
  <2>3. CASE Stage(r, [req[r].seen EXCEPT !.available_slots = @ + 1], "cancel")
    <3>1. [req[r].seen EXCEPT !.available_slots = @ + 1] \in Row
      BY <2>1 DEF Row, EventRow
    <3> QED BY <2>1, <2>3, <3>1, StagedType DEF Stage, RegWrites, TypeOK
  <2> QED BY <1>7, <2>2, <2>3 DEF CancelRegistration
<1>8. ASSUME NEW r \in Requests, Flush(r)
      PROVE  TypeOK'
  <2>1. Active(r) /\ req[r].event \in Events
    BY <1>8, TypeOfRequest DEF Flush, Active, At
  <2>2. lock' \in [Events -> Requests \cup {NoReq}]
    BY <1>8, <2>1 DEF Flush, TypeOK
  <2>3. CASE Refuse(r, "internal_error")
    BY <1>8, <2>1, <2>2, <2>3, RefusalType DEF Flush, Refuse, Codes, TypeOK
  <2>4. CASE req' = [req EXCEPT ![r] = [@ EXCEPT !.pc = "flushed"]]
    <3>1. [req[r] EXCEPT !.pc = "flushed"] \in Served
      BY <2>1, TypeOfRequest DEF Served, PCs
    <3> QED BY <1>8, <2>2, <2>4, <3>1 DEF Flush, TypeOK
  <2> QED BY <1>8, <2>3, <2>4 DEF Flush
<1>9. ASSUME NEW r \in Requests, Commit(r)
      PROVE  TypeOK'
  <2>1. Active(r) /\ Decided(r) /\ req[r].event \in Events /\ req[r].user \in Users
    BY <1>9, TypeOfRequest DEF Commit, Active, At, Decided
  <2>2. Written(r) \in Row
    BY <2>1, WrittenType
  <2>3. events' \in [Events -> Row \cup {NoEvent}]
    BY <1>9, <2>1, <2>2 DEF Commit, TypeOK
  <2>4. RegWritten(Mine(r), req[r].reg) \in RegRows
    BY <1>9, RegWrittenType DEF Commit
  <2>5. regs' \in [Events -> [Users -> RegRows]]
    BY <1>9, <2>1, <2>4 DEF Commit, TypeOK, Mine
  <2> QED BY <1>9, <2>3, <2>5, ReleasedType DEF Commit, TypeOK
<1>10. ASSUME NEW r \in Requests, Rollback(r) \/ Crash(r)
       PROVE  TypeOK'
  BY <1>10, ReleasedType DEF Rollback, Crash, TypeOK
<1>11. CASE UNCHANGED vars
  BY <1>11 DEF vars, TypeOK
<1> QED BY <1>1, <1>2, <1>3, <1>4, <1>5, <1>6, <1>7, <1>8, <1>9, <1>10, <1>11
        DEF Next, Begin, Serve

-----------------------------------------------------------------------------
(* What the steps of one request leave to the others *)

Step(r) == Begin(r) \/ Serve(r) \/ Crash(r)

\* Only the holder of a row lock can commit to the row and its registrations.
LEMMA CommitHoldsLock ==
  ASSUME BookingInv, NEW r \in Requests, Commit(r)
  PROVE  /\ Active(r) /\ Decided(r)
         /\ events' # events => HoldsLock(r)
         /\ regs' # regs => HoldsLock(r)
         /\ HoldsLock(r) => lock[req[r].event] = r
<1>1. Active(r) /\ Decided(r) /\ req[r].pc = "flushed" /\ RequestInv(r)
  BY DEF Commit, At, Active, Decided, BookingInv
<1>2. events' # events => WritesEvent(r)
  BY DEF Commit
<1>3. r \in ManagerReqs => regs' = regs
  <2>1. r \in ManagerReqs => req[r].reg = "keep"
    BY <1>1 DEF RequestInv, ManagerWork
  <2>2. r \in ManagerReqs => RegWritten(Mine(r), req[r].reg) = Mine(r)
    BY <2>1 DEF RegWritten
  <2> QED BY <1>1, <2>2, TypeOfRequest DEF Commit, Mine, BookingInv, TypeOK
<1> QED BY <1>1, <1>2, <1>3 DEF HoldsLock, RequestInv, Requests

\* A step of one request leaves the others alone, and the rows they have locked.
LEMMA OthersUntouched ==
  ASSUME BookingInv, NEW r \in Requests, NEW q \in Requests, q # r, Step(r)
  PROVE  /\ req'[q] = req[q]
         /\ \A e \in Events : lock[e] = q =>
              lock'[e] = q /\ events'[e] = events[e] /\ regs'[e] = regs[e]
         /\ \A e \in Events : events[e] \in Row => events'[e] \in Row
<1>1. TypeOK /\ q # NoReq
  BY BookingAssumption DEF BookingInv
<1>2. ASSUME NEW u \in Users, NEW e \in Events, NEW op \in {"register", "cancel"},
             Arrive(r, u, e, op)
      PROVE  req'[q] = req[q] /\ UNCHANGED <<events, regs, lock>>
  BY <1>1, <1>2 DEF Arrive, TypeOK
<1>3. ASSUME NEW u \in Users, NEW e \in Events,
             UpdateEvent(r, u, e) \/ DeleteEvent(r, u, e)
      PROVE  req'[q] = req[q] /\ UNCHANGED <<events, regs, lock>>
  BY <1>1, <1>3 DEF UpdateEvent, DeleteEvent, TypeOK
<1>4. ASSUME NEW u \in Users, NEW e \in Events, CreateEvent(r, u, e)
      PROVE  /\ req'[q] = req[q] /\ UNCHANGED <<events, regs>>
             /\ \A f \in Events : lock[f] = q => lock'[f] = q
  BY <1>1, <1>4 DEF CreateEvent, TypeOK
<1>5. ASSUME RegisterForEvent(r) \/ CancelRegistration(r)
      PROVE  req'[q] = req[q] /\ UNCHANGED <<events, regs, lock>>
  BY <1>1, <1>5 DEF RegisterForEvent, CancelRegistration, Refuse, Stage, TypeOK
<1>6. ASSUME GetByIdForUpdate(r) \/ Flush(r)
      PROVE  /\ req'[q] = req[q] /\ UNCHANGED <<events, regs>>
             /\ \A f \in Events : lock[f] = q => lock'[f] = q
  BY <1>1, <1>6 DEF GetByIdForUpdate, Flush, Refuse, TypeOK
<1>7. ASSUME Rollback(r) \/ Crash(r)
      PROVE  /\ req'[q] = req[q] /\ UNCHANGED <<events, regs>>
             /\ \A f \in Events : lock[f] = q => lock'[f] = q
  BY <1>1, <1>7 DEF Rollback, Crash, LocksReleased, TypeOK
<1>8. ASSUME Commit(r)
      PROVE  /\ req'[q] = req[q]
             /\ \A f \in Events : lock[f] = q =>
                  lock'[f] = q /\ events'[f] = events[f] /\ regs'[f] = regs[f]
             /\ \A f \in Events : events[f] \in Row => events'[f] \in Row
  <2>1. req'[q] = req[q] /\ \A f \in Events : lock[f] = q => lock'[f] = q
    BY <1>1, <1>8 DEF Commit, LocksReleased, TypeOK
  <2>2. \A f \in Events \ {req[r].event} : events'[f] = events[f] /\ regs'[f] = regs[f]
    BY <1>1, <1>8 DEF Commit, TypeOK
  <2>3. HoldsLock(r) \/ UNCHANGED <<events, regs>>
    BY <1>8, CommitHoldsLock
  <2>4. \A f \in Events : lock[f] = q => events'[f] = events[f] /\ regs'[f] = regs[f]
    BY <1>8, <2>2, <2>3, CommitHoldsLock
  <2>5. Written(r) \in Row
    BY <1>1, <1>8, CommitHoldsLock, WrittenType DEF BookingInv
  <2>6. \A f \in Events : events[f] \in Row => events'[f] \in Row
    BY <1>1, <1>8, <2>5 DEF Commit, TypeOK
  <2> QED BY <2>1, <2>4, <2>6
<1> QED BY <1>2, <1>3, <1>4, <1>5, <1>6, <1>7, <1>8 DEF Step, Begin, Serve

\* So what another request has decided stays true.
LEMMA OthersKeepInv ==
  ASSUME BookingInv, NEW r \in Requests, NEW q \in Requests, q # r, Step(r)
  PROVE  RequestInv(q)'
<1> DEFINE e == req[q].event
<1>1. TypeOK /\ RequestInv(q) /\ req'[q] = req[q]
  BY OthersUntouched DEF BookingInv
<1>2. SUFFICES ASSUME Active(q)
               PROVE  RequestInv(q)'
  BY <1>1 DEF RequestInv, Active, At
<1>3. e \in Events /\ req[q].user \in Users
  BY <1>1, <1>2, TypeOfRequest
<1>4. HoldsLock(q) => /\ lock[e] = q /\ lock'[e] = q
                      /\ events'[e] = events[e] /\ regs'[e] = regs[e]
  BY <1>1, <1>2, <1>3, OthersUntouched DEF RequestInv
<1>5. events[e] \in Row => events'[e] \in Row
  BY <1>3, OthersUntouched
<1>6. HoldsLock(q)' = HoldsLock(q) /\ Active(q)' = Active(q)
  BY <1>1 DEF HoldsLock, Decided, WritesEvent, Active, At
<1>7. q \in AttendeeReqs => AttendeeWork(q)'
  BY <1>1, <1>2, <1>4, <1>6 DEF RequestInv, AttendeeWork, HoldsLock, Decided, Activates, Mine
<1>8. q \in ManagerReqs => ManagerWork(q)'
  <2>1. SUFFICES ASSUME q \in ManagerReqs
                 PROVE  ManagerWork(q)'
    OBVIOUS
  <2>2. ManagerWork(q)
    BY <1>1, <1>2, <2>1 DEF RequestInv
  <2>3. Decided(q) /\ req[q].seen = NoEvent => HoldsLock(q)
    BY <2>2, TypeOfRow DEF ManagerWork, HoldsLock, WritesEvent
  <2> QED BY <1>1, <1>4, <1>5, <2>2, <2>3 DEF ManagerWork, Decided
<1>9. req[q].pc = "flushed" /\ WritesEvent(q) /\ req[q].seen # NoEvent => Storable(Written(q)')
  BY <1>1, <1>2, <1>4 DEF RequestInv, HoldsLock, Written
<1> QED BY <1>1, <1>2, <1>4, <1>6, <1>7, <1>8, <1>9 DEF RequestInv, WritesEvent

-----------------------------------------------------------------------------
(* Each step of a request keeps that request's own invariant *)

\* A request that is refused has decided nothing any more.
LEMMA RefusedInv ==
  ASSUME BookingInv, NEW r \in Requests, Active(r), NEW code \in Codes, Refuse(r, code),
         req[r].op = "register" => code # "internal_error"
  PROVE  RequestInv(r)'
<1>1. /\ req'[r].pc = "failed" /\ req'[r].op = req[r].op
      /\ req'[r].reg = "keep" /\ req'[r].code = code
  BY DEF Refuse, Refused, Call, BookingInv, TypeOK
<1>2. RequestInv(r)
  BY DEF BookingInv
<1> QED BY <1>1, <1>2 DEF RequestInv, AttendeeWork, ManagerWork, HoldsLock, Decided

\* A request begins with what its first read and its service decide.
LEMMA BeginInv ==
  ASSUME BookingInv, NEW r \in Requests, Begin(r)
  PROVE  RequestInv(r)'
<1>1. TypeOK /\ (r \in AttendeeReqs => r \notin ManagerReqs)
  BY BookingAssumption DEF BookingInv
<1>2. ASSUME NEW u \in Users, NEW e \in Events, NEW op \in {"register", "cancel"},
             Arrive(r, u, e, op)
      PROVE  RequestInv(r)'
  <2>1. r \in AttendeeReqs /\ req'[r] = Call("waiting", op, u, e, NoEvent, NoEvent, "keep", "ok")
    BY <1>1, <1>2 DEF Arrive, TypeOK
  <2>2. req'[r].pc = "waiting" /\ req'[r].op = op /\ req'[r].code = "ok"
    BY <2>1 DEF Call
  <2> QED BY <1>1, <2>1, <2>2 DEF RequestInv, AttendeeWork, HoldsLock, Decided
<1>3. ASSUME NEW u \in Users, NEW e \in Events, CreateEvent(r, u, e)
      PROVE  RequestInv(r)'
  <2>1. PICK status \in EventStatus, cap \in Capacities, text \in TextEdits :
          \/ \E code \in Codes : req' = [req EXCEPT ![r] = Refused("create", u, e, code)]
          \/ /\ status \in {"draft", "published"} /\ text = "full"
             /\ req' = [req EXCEPT ![r] = Call("flushed", "create", u, e, NoEvent,
                                              NewEvent(u, status, cap, text), "keep", "ok")]
             /\ lock' = [lock EXCEPT ![e] = r]
    BY <1>3 DEF CreateEvent, CreateRefusal, NewEvent, Codes
  <2>2. /\ NewEvent(u, status, cap, text) \in Row
        /\ NewEvent(u, status, cap, text).status = status
        /\ text = "full" => Readable(NewEvent(u, status, cap, text))
        /\ NewEvent(u, status, cap, text).available_slots =
             NewEvent(u, status, cap, text).max_capacity
    BY BookingAssumption DEF NewEvent, Row, EventRow, EventStatus, Readable
  <2>3. r \in ManagerReqs /\ events'[e] = NoEvent
    BY <1>3 DEF CreateEvent
  <2>4. CASE \E code \in Codes : req'[r] = Refused("create", u, e, code)
    BY <1>1, <2>3, <2>4 DEF Refused, Call, RequestInv, ManagerWork, HoldsLock, Decided
  <2>5. CASE /\ status \in {"draft", "published"} /\ text = "full"
             /\ req'[r] = Call("flushed", "create", u, e, NoEvent,
                               NewEvent(u, status, cap, text), "keep", "ok")
             /\ lock'[e] = r
    <3>1. /\ req'[r].pc = "flushed" /\ req'[r].op = "create" /\ req'[r].event = e
          /\ req'[r].seen = NoEvent /\ req'[r].want = NewEvent(u, status, cap, text)
          /\ req'[r].reg = "keep" /\ req'[r].code = "ok"
      BY <2>5 DEF Call
    <3>2. ManagerWork(r)'
      BY <2>2, <2>3, <2>5, <3>1 DEF ManagerWork
    <3> QED BY <1>1, <2>3, <2>5, <3>1, <3>2 DEF RequestInv
  <2> QED BY <1>1, <2>1, <2>4, <2>5 DEF TypeOK
<1>4. ASSUME NEW op \in {"update", "delete"}, NEW u \in Users, NEW e \in Events,
             NEW code \in Codes, NEW want \in Row, r \in ManagerReqs,
             \/ req' = [req EXCEPT ![r] = Refused(op, u, e, code)]
             \/ /\ events[e] \in Row
                /\ req' = [req EXCEPT ![r] =
                             Call("staged", op, u, e, events[e], want, "keep", "ok")],
             UNCHANGED <<events, regs, lock>>
      PROVE  RequestInv(r)'
  <2>1. CASE req'[r] = Refused(op, u, e, code)
    BY <1>1, <1>4, <2>1 DEF Refused, Call, RequestInv, ManagerWork, HoldsLock, Decided
  <2>2. CASE events[e] \in Row /\ req'[r] = Call("staged", op, u, e, events[e], want, "keep", "ok")
    <3>1. /\ req'[r].pc = "staged" /\ req'[r].op = op /\ req'[r].event = e
          /\ req'[r].seen = events[e] /\ req'[r].want = want
          /\ req'[r].reg = "keep" /\ req'[r].code = "ok"
      BY <2>2 DEF Call
    <3>2. ManagerWork(r)'
      BY <1>4, <2>2, <3>1, TypeOfRow DEF ManagerWork
    <3> QED BY <1>1, <1>4, <3>1, <3>2 DEF RequestInv, HoldsLock, Decided
  <2> QED BY <1>1, <1>4, <2>1, <2>2 DEF TypeOK
<1>5. ASSUME NEW u \in Users, NEW e \in Events, UpdateEvent(r, u, e)
      PROVE  RequestInv(r)'
  <2>1. PICK edit \in Edits :
          \/ req' = [req EXCEPT ![r] = Refused("update", u, e, UpdateRefusal(events[e], edit, u))]
          \/ /\ UpdateRefusal(events[e], edit, u) = "ok"
             /\ req' = [req EXCEPT ![r] =
                          Call("staged", "update", u, e, events[e],
                               Transitioned(Edited(events[e], edit), edit.status), "keep", "ok")]
    BY <1>5 DEF UpdateEvent
  <2>2. r \in ManagerReqs /\ UNCHANGED <<events, regs, lock>>
    BY <1>5 DEF UpdateEvent
  <2>3. UpdateRefusal(events[e], edit, u) \in Codes
    BY DEF UpdateRefusal, LoadRefusal, Codes
  <2>4. CASE req' = [req EXCEPT ![r] =
                       Refused("update", u, e, UpdateRefusal(events[e], edit, u))]
    BY <1>1, <2>2, <2>4 DEF Refused, Call, RequestInv, ManagerWork, HoldsLock, Decided, TypeOK
  <2>5. CASE /\ UpdateRefusal(events[e], edit, u) = "ok"
             /\ req' = [req EXCEPT ![r] =
                          Call("staged", "update", u, e, events[e],
                               Transitioned(Edited(events[e], edit), edit.status), "keep", "ok")]
    <3>1. events[e] \in Row /\ Transitioned(Edited(events[e], edit), edit.status) \in Row
      BY <1>1, <2>5, UpdatedRow DEF TypeOK
    <3> QED BY <1>4, <2>2, <2>3, <2>5, <3>1
  <2> QED BY <2>1, <2>4, <2>5
<1>6. ASSUME NEW u \in Users, NEW e \in Events, DeleteEvent(r, u, e)
      PROVE  RequestInv(r)'
  <2>1. r \in ManagerReqs /\ UNCHANGED <<events, regs, lock>>
    BY <1>6 DEF DeleteEvent
  <2>2. DeleteRefusal(events[e], u) \in Codes
    BY DEF DeleteRefusal, LoadRefusal, Codes
  <2>3. CASE req' = [req EXCEPT ![r] = Refused("delete", u, e, DeleteRefusal(events[e], u))]
    BY <1>1, <2>1, <2>3 DEF Refused, Call, RequestInv, ManagerWork, HoldsLock, Decided, TypeOK
  <2>4. CASE /\ DeleteRefusal(events[e], u) = "ok"
             /\ req' = [req EXCEPT ![r] =
                          Call("staged", "delete", u, e, events[e],
                               Transitioned(events[e], "cancelled"), "keep", "ok")]
    <3>1. events[e] \in Row /\ Transitioned(events[e], "cancelled") \in Row
      BY <1>1, <2>4, DeletedRow DEF TypeOK
    <3> QED BY <1>4, <2>1, <2>2, <2>4, <3>1
  <2> QED BY <1>6, <2>3, <2>4 DEF DeleteEvent
<1> QED BY <1>2, <1>3, <1>5, <1>6 DEF Begin

\* SELECT ... FOR UPDATE leaves the request with the committed row and its lock.
LEMMA LockInv ==
  ASSUME BookingInv, NEW r \in Requests, GetByIdForUpdate(r)
  PROVE  RequestInv(r)'
<1> DEFINE e == req[r].event
<1>1. /\ TypeOK /\ RequestInv(r) /\ Active(r) /\ e \in Events
      /\ r \in AttendeeReqs /\ r \notin ManagerReqs
  BY TypeOfRequest, BookingAssumption
     DEF BookingInv, GetByIdForUpdate, Active, At, RequestInv, ManagerWork, Requests
<1>2. CASE Refuse(r, "not_found")
  BY <1>1, <1>2, RefusedInv DEF Codes
<1>3. CASE /\ events[e] # NoEvent
           /\ lock' = [lock EXCEPT ![e] = r]
           /\ req' = [req EXCEPT ![r] = [@ EXCEPT !.pc = "locked",
                                      !.seen = events[e], !.want = events[e]]]
  <2>1. /\ req'[r].pc = "locked" /\ req'[r].op = req[r].op /\ req'[r].event = e
        /\ req'[r].seen = events[e] /\ req'[r].code = req[r].code
    BY <1>1, <1>3, TypeOfRequest DEF TypeOK, Served
  <2>2. lock'[e] = r /\ events' = events /\ events[e] \in Row
    BY <1>1, <1>3 DEF GetByIdForUpdate, TypeOK
  <2>3. AttendeeWork(r)'
    BY <1>1, <2>1, <2>2 DEF AttendeeWork, RequestInv, Decided
  <2> QED BY <1>1, <2>1, <2>2, <2>3 DEF RequestInv
<1> QED BY <1>2, <1>3 DEF GetByIdForUpdate

\* What staging a booking has to show.
LEMMA StagedInv ==
  ASSUME BookingInv, NEW r \in Requests, At(r, "locked"),
         NEW want \in Row, NEW reg \in RegWrites, Stage(r, want, reg),
         UNCHANGED <<events, regs, lock>>,
         reg = "keep" => want = req[r].seen,
         reg \in {"insert", "reactivate"} =>
           /\ req[r].op = "register"
           /\ req[r].seen.status = "published"
           /\ req[r].seen.organizer_id # req[r].user
           /\ req[r].seen.available_slots > 0
           /\ want = [req[r].seen EXCEPT !.available_slots = @ - 1]
           /\ Mine(r).registered = 0
           /\ Mine(r).cancelled = IF reg = "reactivate" THEN 1 ELSE 0,
         reg = "cancel" =>
           /\ req[r].op = "cancel"
           /\ want = [req[r].seen EXCEPT !.available_slots = @ + 1]
           /\ Mine(r).registered = 1
  PROVE  RequestInv(r)'
<1>1. /\ TypeOK /\ RequestInv(r) /\ Active(r) /\ r \in AttendeeReqs /\ r \notin ManagerReqs
      /\ lock[req[r].event] = r
      /\ req[r].seen \in Row /\ req[r].seen = events[req[r].event]
  BY LockedRow, BookingAssumption DEF BookingInv
<1>2. /\ req'[r].pc = "staged" /\ req'[r].want = want /\ req'[r].reg = reg
      /\ req'[r].op = req[r].op /\ req'[r].event = req[r].event /\ req'[r].user = req[r].user
      /\ req'[r].seen = req[r].seen /\ req'[r].code = req[r].code
  BY <1>1, TypeOfRequest DEF Stage, TypeOK, Served
<1>3. Mine(r)' = Mine(r)
  BY <1>2 DEF Mine
<1>4. AttendeeWork(r)'
  BY <1>1, <1>2, <1>3 DEF AttendeeWork, RequestInv, Activates
<1> QED BY <1>1, <1>2, <1>4 DEF RequestInv

\* register_for_event takes a seat only where it may.
LEMMA RegisterInv ==
  ASSUME BookingInv, NEW r \in Requests, RegisterForEvent(r)
  PROVE  RequestInv(r)'
<1>1. /\ TypeOK /\ Active(r) /\ req[r].seen \in Row /\ At(r, "locked")
      /\ UNCHANGED <<events, regs, lock>> /\ req[r].op = "register"
  BY LockedRow DEF BookingInv, RegisterForEvent
<1>2. /\ Mine(r).registered \in Nat /\ Mine(r).cancelled \in Nat
      /\ Mine(r).registered + Mine(r).cancelled <= 1
  BY <1>1, MineType, TypeOfRequest DEF BookingInv, OneRowPerAttendee, Mine
<1>3. CASE RegisterRefusal(r) # "ok" /\ Refuse(r, RegisterRefusal(r))
  <2>1. RegisterRefusal(r) \in Codes \ {"internal_error"}
    BY <1>2 DEF RegisterRefusal, Codes
  <2> QED BY <1>1, <1>3, <2>1, RefusedInv
<1>4. CASE Stage(r, req[r].seen, "keep")
  BY <1>1, <1>4, StagedInv DEF RegWrites
<1>5. CASE /\ RegisterRefusal(r) = "ok" /\ Mine(r).registered = 0
           /\ Stage(r, [req[r].seen EXCEPT !.available_slots = @ - 1],
                    IF Mine(r).cancelled = 1 THEN "reactivate" ELSE "insert")
  <2> DEFINE want == [req[r].seen EXCEPT !.available_slots = @ - 1]
             reg == IF Mine(r).cancelled = 1 THEN "reactivate" ELSE "insert"
  <2>1. /\ req[r].seen.status = "published"
        /\ req[r].seen.organizer_id # req[r].user
        /\ req[r].seen.available_slots > 0
    BY <1>1, <1>5, TypeOfRow DEF RegisterRefusal
  <2>2. want \in Row
    BY <1>1, <2>1 DEF Row, EventRow
  <2>3. reg \in RegWrites /\ reg # "keep" /\ reg # "cancel"
        /\ Mine(r).cancelled = IF reg = "reactivate" THEN 1 ELSE 0
    BY <1>2 DEF RegWrites
  <2>4. Stage(r, want, reg) /\ want = [req[r].seen EXCEPT !.available_slots = @ - 1]
    BY <1>5
  <2> HIDE DEF want, reg
  <2> QED BY <1>1, <1>5, <2>1, <2>2, <2>3, <2>4, StagedInv
<1> QED BY <1>3, <1>4, <1>5 DEF RegisterForEvent

\* cancel_registration gives back a seat its user has.
LEMMA CancelInv ==
  ASSUME BookingInv, NEW r \in Requests, CancelRegistration(r)
  PROVE  RequestInv(r)'
<1>1. /\ TypeOK /\ Active(r) /\ req[r].seen \in Row /\ At(r, "locked")
      /\ UNCHANGED <<events, regs, lock>> /\ req[r].op = "cancel"
  BY LockedRow DEF BookingInv, CancelRegistration
<1>2. CASE Refuse(r, "not_found") \/ Refuse(r, "internal_error")
  BY <1>1, <1>2, RefusedInv DEF Codes
<1>3. CASE /\ Mine(r).registered = 1
           /\ Stage(r, [req[r].seen EXCEPT !.available_slots = @ + 1], "cancel")
  <2>1. [req[r].seen EXCEPT !.available_slots = @ + 1] \in Row
    BY <1>1 DEF Row, EventRow
  <2> QED BY <1>1, <1>3, <2>1, StagedInv DEF RegWrites
<1> QED BY <1>2, <1>3 DEF CancelRegistration

\* The row a registration flushes passes the CHECK of the seats.
LEMMA SeatFits ==
  ASSUME BookingInv, NEW r \in Requests, At(r, "staged"), req[r].op = "register"
  PROVE  ~FlushFails(r)
<1>1. /\ TypeOK /\ Active(r) /\ RequestInv(r) /\ Decided(r) /\ r \in AttendeeReqs
      /\ req[r].event \in Events
  BY TypeOfRequest DEF BookingInv, At, Active, Decided, RequestInv, ManagerWork, Requests
<1>2. AttendeeWork(r) /\ req[r].reg \in RegWrites
  BY <1>1, TypeOfRequest DEF RequestInv
<1>3. /\ req[r].seen \in Row /\ req[r].seen = events[req[r].event] /\ req[r].seen # NoEvent
      /\ Storable(req[r].seen)
  BY <1>1, <1>2, TypeOfRow DEF AttendeeWork, HoldsLock, BookingInv, StoredRowsReadable
<1>4. CASE req[r].reg = "keep"
  BY <1>1, <1>2, <1>4 DEF AttendeeWork, FlushFails, WritesEvent, Activates
<1>5. CASE Activates(r)
  <2>1. /\ Mine(r).registered = 0 /\ req[r].seen.available_slots > 0
        /\ req[r].want = [req[r].seen EXCEPT !.available_slots = @ - 1]
    BY <1>1, <1>2, <1>5 DEF AttendeeWork
  <2>2. Storable(Written(r))
    BY <1>3, <2>1, TypeOfRow
       DEF Written, Merge, Column, Storable, Readable, RowCheck, Row, EventRow
  <2> QED BY <2>1, <2>2 DEF FlushFails
<1> QED BY <1>1, <1>2, <1>4, <1>5 DEF AttendeeWork, Activates, RegWrites

\* A flush that gets through writes a row within the CHECKs, under the row lock.
LEMMA FlushInv ==
  ASSUME BookingInv, NEW r \in Requests, Flush(r)
  PROVE  RequestInv(r)'
<1> DEFINE e == req[r].event
<1>1. /\ TypeOK /\ RequestInv(r) /\ Active(r) /\ Decided(r) /\ e \in Events
      /\ (r \in AttendeeReqs => r \notin ManagerReqs)
      /\ UNCHANGED <<events, regs>>
  BY TypeOfRequest, BookingAssumption DEF BookingInv, Flush, Active, At, Decided
<1>2. CASE FlushFails(r) /\ Refuse(r, "internal_error")
  BY <1>1, <1>2, SeatFits, RefusedInv DEF Codes, Flush
<1>3. CASE ~FlushFails(r) /\ req' = [req EXCEPT ![r] = [@ EXCEPT !.pc = "flushed"]]
  <2>1. /\ req'[r].pc = "flushed" /\ req'[r].want = req[r].want /\ req'[r].reg = req[r].reg
        /\ req'[r].op = req[r].op /\ req'[r].event = e /\ req'[r].user = req[r].user
        /\ req'[r].seen = req[r].seen /\ req'[r].code = req[r].code
    BY <1>1, <1>3, TypeOfRequest DEF TypeOK, Served
  <2>2. /\ Mine(r)' = Mine(r) /\ Written(r)' = Written(r) /\ WritesEvent(r)' = WritesEvent(r)
        /\ Activates(r)' = Activates(r)
    BY <1>1, <2>1 DEF Mine, Written, WritesEvent, Activates
  <2>3. HoldsLock(r)' => lock'[e] = r
    BY <1>1, <2>1, <2>2 DEF Flush, HoldsLock, RequestInv, TypeOK
  <2>4. r \in AttendeeReqs => AttendeeWork(r)'
    BY <1>1, <2>1, <2>2 DEF RequestInv, AttendeeWork, HoldsLock, Decided
  <2>5. r \in ManagerReqs => ManagerWork(r)'
    BY <1>1, <2>1, <2>2 DEF RequestInv, ManagerWork, Decided
  <2>6. WritesEvent(r)' => Storable(Written(r)')
    BY <1>3, <2>2 DEF FlushFails
  <2> QED BY <1>1, <2>1, <2>3, <2>4, <2>5, <2>6 DEF RequestInv
<1> QED BY <1>2, <1>3 DEF Flush

\* A request that has ended owes nothing.
LEMMA EndInv ==
  ASSUME BookingInv, NEW r \in Requests, Commit(r) \/ Rollback(r) \/ Crash(r)
  PROVE  RequestInv(r)'
<1>1. req'[r].pc = "idle"
  BY DEF Commit, Rollback, Crash, Idle, BookingInv, TypeOK
<1> QED BY <1>1 DEF RequestInv, Active, At

-----------------------------------------------------------------------------
(* What a commit does to the tables *)

\* The row a booking commits is the locked one with the seat moved.
LEMMA AttendeeWritten ==
  ASSUME BookingInv, NEW r \in AttendeeReqs, At(r, "flushed")
  PROVE  /\ events[req[r].event] \in Row
         /\ req[r].seen = events[req[r].event]
         /\ Written(r) = req[r].want
         /\ req[r].reg = "keep" => ~WritesEvent(r)
         /\ Activates(r) \/ req[r].reg = "cancel" => WritesEvent(r)
<1>1. /\ TypeOK /\ Active(r) /\ RequestInv(r) /\ Decided(r) /\ HoldsLock(r) /\ r \in Requests
      /\ req[r].event \in Events
  BY TypeOfRequest DEF BookingInv, At, Active, Decided, Requests, HoldsLock
<1>2. AttendeeWork(r) /\ req[r].reg \in RegWrites
  BY <1>1, TypeOfRequest DEF RequestInv
<1>3. /\ req[r].seen \in Row /\ req[r].seen = events[req[r].event] /\ req[r].seen # NoEvent
  BY <1>1, <1>2, TypeOfRow DEF AttendeeWork
<1>4. CASE req[r].reg = "keep"
  <2>1. req[r].want = req[r].seen
    BY <1>1, <1>2, <1>4 DEF AttendeeWork
  <2>2. Merge(req[r].seen, req[r].seen, req[r].seen) = req[r].seen
    BY <1>3 DEF Merge, Column, Row, EventRow
  <2> QED BY <1>3, <1>4, <2>1, <2>2 DEF Written, WritesEvent, Activates
<1>5. CASE Activates(r)
  <2>1. req[r].want = [req[r].seen EXCEPT !.available_slots = @ - 1]
    BY <1>1, <1>2, <1>5 DEF AttendeeWork
  <2>2. Merge(req[r].seen, req[r].seen, req[r].want) = req[r].want /\ req[r].want # req[r].seen
    BY <1>3, <2>1 DEF Merge, Column, Row, EventRow
  <2> QED BY <1>3, <1>5, <2>2 DEF Written, WritesEvent, Activates
<1>6. CASE req[r].reg = "cancel"
  <2>1. req[r].want = [req[r].seen EXCEPT !.available_slots = @ + 1]
    BY <1>1, <1>2, <1>6 DEF AttendeeWork
  <2>2. Merge(req[r].seen, req[r].seen, req[r].want) = req[r].want /\ req[r].want # req[r].seen
    BY <1>3, <2>1 DEF Merge, Column, Row, EventRow
  <2> QED BY <1>3, <1>6, <2>2 DEF Written, WritesEvent, Activates
<1> QED BY <1>2, <1>4, <1>5, <1>6 DEF Activates, RegWrites

\* The four things a commit can do to the registrations of its user.
LEMMA RegCommitted ==
  ASSUME BookingInv, NEW r \in Requests, At(r, "flushed")
  PROVE  LET old == Mine(r)
             new == RegWritten(Mine(r), req[r].reg)
         IN /\ old \in RegRows /\ new \in RegRows
            /\ req[r].reg = "keep" => new = old
            /\ Activates(r) => /\ old.registered = 0 /\ new.registered = 1
                               /\ new.cancelled = 0
            /\ req[r].reg = "cancel" => /\ old.registered = 1 /\ new.registered = 0
                                        /\ new.cancelled = old.cancelled + 1
<1>1. /\ TypeOK /\ Active(r) /\ RequestInv(r) /\ Decided(r)
  BY DEF BookingInv, At, Active, Decided
<1>2. Mine(r) \in RegRows /\ RegWritten(Mine(r), req[r].reg) \in RegRows
  BY <1>1, MineType, RegWrittenType
<1>3. Mine(r).registered \in Nat /\ Mine(r).cancelled \in Nat
  BY <1>1, MineType
<1>4. Activates(r) \/ req[r].reg = "cancel" => r \in AttendeeReqs
  BY <1>1 DEF RequestInv, ManagerWork, Requests, Activates
<1>5. CASE req[r].reg = "keep"
  BY <1>2, <1>5 DEF RegWritten, Activates
<1>6. CASE req[r].reg = "insert"
  <2>1. Mine(r).registered = 0 /\ Mine(r).cancelled = 0
    BY <1>1, <1>4, <1>6 DEF RequestInv, AttendeeWork, Activates
  <2>2. RegWritten(Mine(r), req[r].reg) = [Mine(r) EXCEPT !.registered = @ + 1]
    BY <1>6 DEF RegWritten
  <2> QED BY <1>2, <1>6, <2>1, <2>2 DEF Activates, RegRows
<1>7. CASE req[r].reg = "reactivate"
  <2>1. Mine(r).registered = 0 /\ Mine(r).cancelled = 1
    BY <1>1, <1>4, <1>7 DEF RequestInv, AttendeeWork, Activates
  <2>2. RegWritten(Mine(r), req[r].reg) =
          [registered |-> Mine(r).registered + 1, cancelled |-> Mine(r).cancelled - 1]
    BY <1>7 DEF RegWritten
  <2> QED BY <1>2, <1>7, <2>1, <2>2 DEF Activates
<1>8. CASE req[r].reg = "cancel"
  <2>1. Mine(r).registered = 1
    BY <1>1, <1>4, <1>8 DEF RequestInv, AttendeeWork
  <2>2. RegWritten(Mine(r), req[r].reg) =
          [registered |-> Mine(r).registered - 1, cancelled |-> Mine(r).cancelled + 1]
    BY <1>8 DEF RegWritten
  <2> QED BY <1>2, <1>8, <2>1, <2>2 DEF Activates
<1> QED BY <1>1, <1>5, <1>6, <1>7, <1>8, TypeOfRequest DEF RegWrites

\* A commit keeps one row per attendee and every row within the CHECKs.
LEMMA CommitTables ==
  ASSUME BookingInv, NEW r \in Requests, Commit(r)
  PROVE  OneRowPerAttendee' /\ StoredRowsReadable'
<1> DEFINE e == req[r].event
           u == req[r].user
<1>1. /\ TypeOK /\ Active(r) /\ RequestInv(r) /\ Decided(r) /\ At(r, "flushed")
      /\ e \in Events /\ u \in Users
  BY TypeOfRequest DEF Commit, BookingInv, At, Active, Decided
<1>2. OneRowPerAttendee'
  <2>1. \A f \in Events, v \in Users : f # e \/ v # u => regs'[f][v] = regs[f][v]
    BY <1>1 DEF Commit, TypeOK
  <2>2. regs'[e][u] = RegWritten(Mine(r), req[r].reg)
    BY <1>1 DEF Commit, TypeOK, Mine
  <2>3. Mine(r).registered + Mine(r).cancelled <= 1
    BY <1>1 DEF BookingInv, OneRowPerAttendee, Mine
  <2>4. regs'[e][u].registered + regs'[e][u].cancelled <= 1
    BY <1>1, <2>2, <2>3, RegCommitted, MineType, TypeOfRequest DEF RegWrites, Activates
  <2> QED BY <2>1, <2>4 DEF OneRowPerAttendee, BookingInv
<1>3. StoredRowsReadable'
  <2>1. CASE ~WritesEvent(r)
    BY <2>1 DEF Commit, StoredRowsReadable, BookingInv
  <2>2. CASE WritesEvent(r)
    <3>1. events'[e] = Written(r) /\ \A f \in Events \ {e} : events'[f] = events[f]
      BY <1>1, <2>2 DEF Commit, TypeOK
    <3>2. req[r].seen # NoEvent => Storable(Written(r))
      BY <1>1, <2>2 DEF RequestInv, At
    <3>3. req[r].seen = NoEvent => Storable(Written(r))
      <4>1. req[r].seen = NoEvent => r \in ManagerReqs
        BY <1>1, TypeOfRow DEF RequestInv, AttendeeWork, HoldsLock, Requests
      <4>2. req[r].seen = NoEvent =>
              req[r].want.available_slots = req[r].want.max_capacity /\ Readable(req[r].want)
        BY <1>1, <4>1 DEF RequestInv, ManagerWork
      <4> QED BY <1>1, <4>2, WrittenType, TypeOfRow DEF Written, Storable, RowCheck
    <3> QED BY <3>1, <3>2, <3>3 DEF StoredRowsReadable, BookingInv
  <2> QED BY <2>1, <2>2
<1> QED BY <1>2, <1>3

\* Nothing but a commit changes the tables.
LEMMA TablesWrittenByCommit ==
  ASSUME NEW r \in Requests, Step(r), ~Commit(r)
  PROVE  UNCHANGED <<events, regs>>
BY DEF Step, Begin, Serve, Arrive, CreateEvent, UpdateEvent, DeleteEvent, GetByIdForUpdate,
       RegisterForEvent, CancelRegistration, Flush, Rollback, Crash

-----------------------------------------------------------------------------
(* Theorems *)

\* What a request has decided from the locked row stays true until it commits:
\* the invariant the other theorems rest on.
THEOREM BookingInvariant == Spec => []BookingInv
<1>1. Init => BookingInv
  BY DEF Init, BookingInv, TypeOK, RegRows, OneRowPerAttendee, StoredRowsReadable, RequestInv,
         Active, At, Idle
<1>2. BookingInv /\ [Next]_vars => BookingInv'
  <2> SUFFICES ASSUME BookingInv, [Next]_vars
               PROVE  BookingInv'
    OBVIOUS
  <2>1. TypeOK'
    BY BookingTypes DEF BookingInv
  <2>2. ASSUME NEW r \in Requests, Step(r)
        PROVE  BookingInv'
    <3>1. RequestInv(r)'
      BY <2>2, BeginInv, LockInv, RegisterInv, CancelInv, FlushInv, EndInv DEF Step, Serve
    <3>2. \A q \in Requests : RequestInv(q)'
      BY <2>2, <3>1, OthersKeepInv
    <3>3. OneRowPerAttendee' /\ StoredRowsReadable'
      BY <2>2, CommitTables, TablesWrittenByCommit
         DEF OneRowPerAttendee, StoredRowsReadable, BookingInv
    <3> QED BY <2>1, <3>2, <3>3 DEF BookingInv
  <2>3. CASE UNCHANGED vars
    <3>1. ASSUME NEW r \in Requests
          PROVE  RequestInv(r)'
      <4>1. (AttendeeWork(r) <=> AttendeeWork(r)') /\ (ManagerWork(r) <=> ManagerWork(r)')
        BY <2>3 DEF vars, AttendeeWork, ManagerWork, HoldsLock, Decided, WritesEvent, Activates, Mine
      <4>2. RequestInv(r)
        BY DEF BookingInv
      <4> QED BY <2>3, <4>1, <4>2
             DEF vars, RequestInv, Active, At, HoldsLock, Decided, WritesEvent, Written
    <3>2. OneRowPerAttendee' /\ StoredRowsReadable'
      BY <2>3 DEF vars, BookingInv, OneRowPerAttendee, StoredRowsReadable
    <3> QED BY <2>1, <3>1, <3>2 DEF BookingInv
  <2> QED BY <2>2, <2>3 DEF Next, Step
<1> QED BY <1>1, <1>2, PTL DEF Spec

\* The tables, the locks and the records of the requests keep their types.
THEOREM TypeCorrect == Spec => []TypeOK
<1>1. BookingInv => TypeOK
  BY DEF BookingInv
<1> QED BY <1>1, BookingInvariant, PTL

\* However many registrations and cancellations run at once, a user has at
\* most one row for an event.
THEOREM NoDuplicateRows == Spec => []OneRowPerAttendee
<1>1. BookingInv => OneRowPerAttendee
  BY DEF BookingInv
<1> QED BY <1>1, BookingInvariant, PTL

\* Every stored event can be answered with, whatever edits have merged into it.
THEOREM RowsReadable == Spec => []StoredRowsReadable
<1>1. BookingInv => StoredRowsReadable
  BY DEF BookingInv
<1> QED BY <1>1, BookingInvariant, PTL

\* No registration meets a database error, whatever the managers edit
\* meanwhile.
THEOREM RegisterSafe == Spec => []RegisterNeverInternalError
<1>1. BookingInv => RegisterNeverInternalError
  BY DEF BookingInv, RequestInv, RegisterNeverInternalError
<1> QED BY <1>1, BookingInvariant, PTL

-----------------------------------------------------------------------------
(* EventBooking implements SeatLedger *)

\* The ledger and the requests mean the same rows and the same CHECKs.
LEMMA LedgerRules ==
  /\ Ledger!EventRow(Users) = Row
  /\ \A row : /\ Ledger!Readable(row) <=> Readable(row)
              /\ Ledger!Storable(row) <=> Storable(row)
BY DEF Ledger!EventRow, Ledger!EventStatus, Ledger!Texts, Ledger!RowCheck, Ledger!Readable,
       Ledger!Storable, Row, EventRow, EventStatus, Texts, RowCheck, Readable, Storable

\* A commit moves the seat and the registration together, or is the work of a
\* manager.
LEMMA CommitIsLedgerStep ==
  ASSUME BookingInv, NEW r \in Requests, Commit(r)
  PROVE  \/ /\ UNCHANGED Attending
            /\ UNCHANGED events \/ (r \in ManagerReqs /\ Ledger!Next)
         \/ \E e \in Events, u \in Users :
              r \in AttendeeReqs /\ (Ledger!Join(e, u) \/ Ledger!Leave(e, u))
<1> DEFINE e == req[r].event
           u == req[r].user
<1>1. /\ TypeOK /\ Active(r) /\ RequestInv(r) /\ Decided(r) /\ At(r, "flushed")
      /\ e \in Events /\ u \in Users
  BY TypeOfRequest DEF Commit, BookingInv, At, Active, Decided
<1>2. /\ \A f \in Events, v \in Users : f # e \/ v # u => regs'[f][v] = regs[f][v]
      /\ regs'[e][u] = RegWritten(Mine(r), req[r].reg)
  BY <1>1 DEF Commit, TypeOK, Mine
<1>3. Attending \in [Events -> SUBSET Users] /\ Attending' \in [Events -> SUBSET Users]
  BY DEF Attending
<1>4. /\ \A f \in Events \ {e} : Attending'[f] = Attending[f]
      /\ \A v \in Users \ {u} : v \in Attending'[e] <=> v \in Attending[e]
      /\ u \in Attending[e] <=> Mine(r).registered > 0
      /\ u \in Attending'[e] <=> RegWritten(Mine(r), req[r].reg).registered > 0
  BY <1>1, <1>2 DEF Attending, Mine
<1>5. WritesEvent(r) => events' = [events EXCEPT ![e] = Written(r)]
  BY DEF Commit
<1>6. CASE req[r].reg = "keep"
  <2>1. UNCHANGED Attending
    <3>1. u \in Attending'[e] <=> u \in Attending[e]
      BY <1>1, <1>4, <1>6, RegCommitted
    <3>2. \A v \in Users : v \in Attending'[e] <=> v \in Attending[e]
      BY <1>4, <3>1
    <3>3. Attending'[e] \subseteq Users /\ Attending[e] \subseteq Users
      BY <1>1, <1>3
    <3>4. Attending'[e] = Attending[e]
      BY <3>2, <3>3
    <3> QED BY <1>3, <1>4, <3>4
  <2>2. CASE ~WritesEvent(r)
    BY <2>1, <2>2 DEF Commit
  <2>3. CASE WritesEvent(r)
    <3>1. r \in ManagerReqs
      BY <1>1, <1>6, <2>3, AttendeeWritten DEF Requests
    <3>2. events'[e] = Written(r) /\ Written(r) \in Row
      BY <1>1, <1>5, <2>3, WrittenType DEF TypeOK
    <3>3. Ledger!OtherRowsKept(e)
      BY <1>1, <1>5, <2>3 DEF Ledger!OtherRowsKept, TypeOK
    <3>4. CASE req[r].seen = NoEvent
      <4>1. /\ events[e] = NoEvent /\ events'[e] = req[r].want
            /\ req[r].want.status \in {"draft", "published"}
            /\ req[r].want.available_slots = req[r].want.max_capacity
            /\ Readable(req[r].want)
        BY <1>1, <3>1, <3>2, <3>4 DEF RequestInv, ManagerWork, Written
      <4>2. Ledger!Open(e)
        BY <2>1, <3>2, <3>3, <4>1, LedgerRules DEF Ledger!Open
      <4> QED BY <1>1, <2>1, <3>1, <4>2 DEF Ledger!Next
    <3>5. CASE req[r].seen # NoEvent
      <4>1. /\ events[e] \in Row /\ events[e] # NoEvent
            /\ Written(r).organizer_id = events[e].organizer_id
            /\ Storable(Written(r))
        BY <1>1, <2>3, <3>5, WrittenType, TypeOfRow DEF RequestInv, At
      <4>2. Ledger!Manage(e)
        BY <2>1, <3>2, <3>3, <4>1, LedgerRules DEF Ledger!Manage
      <4> QED BY <1>1, <2>1, <3>1, <4>2 DEF Ledger!Next
    <3> QED BY <3>4, <3>5
  <2> QED BY <2>2, <2>3
<1>7. CASE Activates(r)
  <2>1. r \in AttendeeReqs /\ AttendeeWork(r)
    BY <1>1, <1>7 DEF RequestInv, ManagerWork, Requests, Activates
  <2>2. /\ events[e] \in Row /\ events[e] # NoEvent
        /\ events[e].status = "published" /\ events[e].organizer_id # u
        /\ events[e].available_slots > 0
        /\ events' = [events EXCEPT ![e].available_slots = @ - 1]
    BY <1>1, <1>5, <1>7, <2>1, AttendeeWritten, TypeOfRow DEF AttendeeWork
  <2>3. u \notin Attending[e] /\ Attending' = [Attending EXCEPT ![e] = @ \cup {u}]
    <3>1. u \notin Attending[e] /\ u \in Attending'[e]
      BY <1>1, <1>4, <1>7, RegCommitted
    <3>2. Attending'[e] = Attending[e] \cup {u}
      BY <1>1, <1>3, <1>4, <3>1
    <3> QED BY <1>1, <1>3, <1>4, <3>1, <3>2
  <2>4. Ledger!Join(e, u)
    BY <2>2, <2>3 DEF Ledger!Join
  <2> QED BY <1>1, <2>1, <2>4
<1>8. CASE req[r].reg = "cancel"
  <2>1. r \in AttendeeReqs /\ AttendeeWork(r)
    BY <1>1, <1>8 DEF RequestInv, ManagerWork, Requests
  <2>2. /\ events[e] \in Row /\ events[e] # NoEvent
        /\ req[r].seen = events[e] /\ req[r].seen # NoEvent
        /\ Written(r) = [events[e] EXCEPT !.available_slots = @ + 1]
        /\ events' = [events EXCEPT ![e].available_slots = @ + 1]
    BY <1>1, <1>5, <1>8, <2>1, AttendeeWritten, TypeOfRow DEF AttendeeWork
  <2>3. RowCheck(Written(r))
    BY <1>1, <1>8, <2>1, <2>2, AttendeeWritten DEF RequestInv, At, Storable
  <2>4. events[e].available_slots < events[e].max_capacity
    BY <2>2, <2>3, TypeOfRow DEF RowCheck, Row, EventRow
  <2>5. u \in Attending[e] /\ Attending' = [Attending EXCEPT ![e] = @ \ {u}]
    <3>1. u \in Attending[e] /\ u \notin Attending'[e]
      BY <1>1, <1>4, <1>8, RegCommitted
    <3>2. Attending'[e] = Attending[e] \ {u}
      BY <1>1, <1>3, <1>4, <3>1
    <3> QED BY <1>1, <1>3, <1>4, <3>1, <3>2
  <2>6. Ledger!Leave(e, u)
    BY <2>2, <2>4, <2>5 DEF Ledger!Leave
  <2> QED BY <1>1, <2>1, <2>6
<1> QED BY <1>1, <1>6, <1>7, <1>8, TypeOfRequest DEF Activates, RegWrites

\* Requests, locks and transactions together do what SeatLedger says.
THEOREM ImplementsLedger == Spec => LedgerSpec
<1>1. Init => Ledger!Init
  BY DEF Init, Ledger!Init, Attending
<1>2. BookingInv /\ [Next]_vars => [Ledger!Next]_<<events, Attending>>
  <2> SUFFICES ASSUME BookingInv, [Next]_vars
               PROVE  Ledger!Next \/ UNCHANGED <<events, Attending>>
    OBVIOUS
  <2>1. ASSUME NEW r \in Requests, Commit(r)
        PROVE  Ledger!Next \/ UNCHANGED <<events, Attending>>
    BY <2>1, CommitIsLedgerStep DEF Ledger!Next
  <2>2. ASSUME NEW r \in Requests, Step(r), ~Commit(r)
        PROVE  UNCHANGED <<events, Attending>>
    BY <2>2, TablesWrittenByCommit DEF Attending
  <2>3. CASE UNCHANGED vars
    BY <2>3 DEF vars, Attending
  <2> QED BY <2>1, <2>2, <2>3 DEF Next, Step
<1>3. Ledger!Spec <=> Ledger!Init /\ [][Ledger!Next]_<<events, Attending>>
  BY DEF Ledger!Spec, Ledger!ledger
<1> QED BY <1>1, <1>2, <1>3, BookingInvariant, PTL DEF Spec, LedgerSpec

-----------------------------------------------------------------------------
(* The status of events *)

\* An edit under way moves the status it has seen along the table, if at all, and
\* offers no row with a blank description.
AllowedEdit(r) ==
  Active(r) /\ r \in ManagerReqs /\ Decided(r) =>
    /\ req[r].seen # NoEvent => CanTransition(req[r].seen.status, req[r].want.status)
    /\ req[r].want.status = "published" => req[r].want.texts # "blank"

AllowedEdits == \A r \in Requests : AllowedEdit(r)

\* A PUT that is not refused moves the status it read along an allowed transition.
LEMMA UpdateAllowed ==
  ASSUME NEW row \in Row, NEW edit \in Edits, NEW u \in Users,
         UpdateRefusal(row, edit, u) = "ok"
  PROVE  LET new == Transitioned(Edited(row, edit), edit.status)
         IN /\ CanTransition(row.status, new.status)
            /\ new.status = "published" => new.texts # "blank"
<1>1. Edited(row, edit).status = row.status /\ Edited(row, edit) \in Row
  BY EditedRow DEF UpdateRefusal, LoadRefusal
<1>2. Edited(row, edit) \in Row
  BY <1>1
<1>3. edit.status = KeepStatus \/ CanTransition(row.status, edit.status)
  BY DEF UpdateRefusal
<1>4. Transitioned(Edited(row, edit), edit.status).status = "published" =>
        Edited(row, edit).texts # "blank"
  BY DEF UpdateRefusal, IsPublishable
<1>5. CASE edit.status = KeepStatus
  BY <1>1, <1>4, <1>5 DEF Transitioned, CanTransition
<1>6. CASE edit.status # KeepStatus
  BY <1>2, <1>3, <1>4, <1>6 DEF Transitioned, Row, EventRow
<1> QED BY <1>5, <1>6

\* Every edit under way keeps to the transition it was granted.
LEMMA AllowedEditsStep ==
  ASSUME BookingInv, AllowedEdits, [Next]_vars
  PROVE  AllowedEdits'
<1>1. TypeOK
  BY DEF BookingInv
<1>2. ASSUME NEW r \in Requests, Step(r)
      PROVE  AllowedEdits'
  <2>1. ASSUME NEW q \in Requests, q # r
        PROVE  AllowedEdit(q)'
    BY <1>2, <2>1, OthersUntouched DEF AllowedEdits, AllowedEdit, Active, At, Decided
  <2>2. AllowedEdit(r)'
    <3>1. CASE r \notin ManagerReqs
      BY <3>1 DEF AllowedEdit
    <3>2. ASSUME NEW u \in Users, NEW e \in Events, UpdateEvent(r, u, e)
          PROVE  AllowedEdit(r)'
      <4>1. PICK edit \in Edits :
              \/ req' = [req EXCEPT ![r] =
                           Refused("update", u, e, UpdateRefusal(events[e], edit, u))]
              \/ /\ UpdateRefusal(events[e], edit, u) = "ok"
                 /\ req' = [req EXCEPT ![r] =
                              Call("staged", "update", u, e, events[e],
                                   Transitioned(Edited(events[e], edit), edit.status),
                                   "keep", "ok")]
        BY <3>2 DEF UpdateEvent
      <4>2. UpdateRefusal(events[e], edit, u) = "ok" =>
              LET new == Transitioned(Edited(events[e], edit), edit.status)
              IN /\ CanTransition(events[e].status, new.status)
                 /\ new.status = "published" => new.texts # "blank"
        BY <1>1, UpdatedRow, UpdateAllowed DEF TypeOK
      <4> QED BY <1>1, <4>1, <4>2 DEF Refused, Call, AllowedEdit, Decided, TypeOK
    <3>3. ASSUME NEW u \in Users, NEW e \in Events, DeleteEvent(r, u, e)
          PROVE  AllowedEdit(r)'
      <4>1. \/ req' = [req EXCEPT ![r] = Refused("delete", u, e, DeleteRefusal(events[e], u))]
            \/ /\ DeleteRefusal(events[e], u) = "ok"
               /\ req' = [req EXCEPT ![r] =
                            Call("staged", "delete", u, e, events[e],
                                 Transitioned(events[e], "cancelled"), "keep", "ok")]
        BY <3>3 DEF DeleteEvent
      <4>2. DeleteRefusal(events[e], u) = "ok" =>
              /\ CanTransition(events[e].status, Transitioned(events[e], "cancelled").status)
              /\ Transitioned(events[e], "cancelled").status # "published"
        BY <1>1, DeletedRow DEF TypeOK, DeleteRefusal, Transitioned, KeepStatus, Row, EventRow
      <4> QED BY <1>1, <4>1, <4>2 DEF Refused, Call, AllowedEdit, Decided, TypeOK
    <3>4. ASSUME NEW u \in Users, NEW e \in Events, CreateEvent(r, u, e)
          PROVE  AllowedEdit(r)'
      BY <1>1, <3>4 DEF CreateEvent, CreateRefusal, NewEvent, Refused, Call, AllowedEdit, Decided,
                        TypeOK
    <3>5. ASSUME Flush(r)
          PROVE  AllowedEdit(r)'
      <4>1. CASE Refuse(r, "internal_error")
        BY <1>1, <4>1 DEF Refuse, Refused, Call, AllowedEdit, Decided, TypeOK
      <4>2. CASE req' = [req EXCEPT ![r] = [@ EXCEPT !.pc = "flushed"]]
        <5>1. Active(r) /\ Decided(r)
          BY <3>5 DEF Flush, Active, At, Decided
        <5>2. req'[r].seen = req[r].seen /\ req'[r].want = req[r].want
          BY <1>1, <4>2, <5>1, TypeOfRequest DEF TypeOK, Served
        <5> QED BY <5>1, <5>2 DEF AllowedEdits, AllowedEdit
      <4> QED BY <3>5, <4>1, <4>2 DEF Flush
    <3>6. ASSUME Commit(r) \/ Rollback(r) \/ Crash(r)
          PROVE  AllowedEdit(r)'
      BY <1>1, <3>6 DEF Commit, Rollback, Crash, Idle, AllowedEdit, Decided, TypeOK
    <3>7. ASSUME GetByIdForUpdate(r) \/ RegisterForEvent(r) \/ CancelRegistration(r),
                 r \in ManagerReqs
          PROVE  FALSE
      BY <3>7 DEF GetByIdForUpdate, RegisterForEvent, CancelRegistration, At, Active,
                  BookingInv, RequestInv, ManagerWork
    <3>8. ASSUME NEW u \in Users, NEW e \in Events, NEW op \in {"register", "cancel"},
                 Arrive(r, u, e, op)
          PROVE  AllowedEdit(r)'
      BY <1>1, <3>8 DEF Arrive, Call, AllowedEdit, Decided, TypeOK
    <3> QED BY <1>2, <3>1, <3>2, <3>3, <3>4, <3>5, <3>6, <3>7, <3>8 DEF Step, Begin, Serve
  <2> QED BY <2>1, <2>2 DEF AllowedEdits
<1>3. CASE UNCHANGED vars
  BY <1>3 DEF vars, AllowedEdits, AllowedEdit, Active, At, Decided
<1> QED BY <1>2, <1>3 DEF Next, Step

\* At any time, every edit under way is an allowed transition of the row it loaded.
LEMMA AllowedEditsInvariant == Spec => []AllowedEdits
<1>1. Init => AllowedEdits
  BY DEF Init, AllowedEdits, AllowedEdit, Active, At, Idle
<1>2. BookingInv /\ AllowedEdits /\ [Next]_vars => AllowedEdits'
  BY AllowedEditsStep
<1> QED BY <1>1, <1>2, BookingInvariant, PTL DEF Spec

\* Bookings leave the status alone; an edit stores the one its session holds
\* only when it has changed it.
LEMMA CommittedStatus ==
  ASSUME BookingInv, NEW r \in Requests, Commit(r), NEW e \in Events, events[e] # NoEvent
  PROVE  \/ events'[e].status = events[e].status
         \/ /\ r \in ManagerReqs /\ Active(r) /\ Decided(r) /\ req[r].event = e
            /\ req[r].seen \in Row /\ req[r].seen # NoEvent
            /\ req[r].want.status # req[r].seen.status
            /\ events'[e].status = req[r].want.status
<1>1. /\ TypeOK /\ Active(r) /\ RequestInv(r) /\ Decided(r) /\ At(r, "flushed")
      /\ req[r].event \in Events
  BY TypeOfRequest DEF Commit, BookingInv, At, Active, Decided
<1>2. CASE e # req[r].event \/ ~WritesEvent(r)
  BY <1>1, <1>2 DEF Commit, TypeOK
<1>3. CASE e = req[r].event /\ WritesEvent(r)
  <2>1. events'[e] = Written(r)
    BY <1>1, <1>3 DEF Commit, TypeOK
  <2>2. CASE r \in AttendeeReqs
    <3>1. AttendeeWork(r) /\ req[r].reg \in RegWrites
      BY <1>1, <2>2, TypeOfRequest DEF RequestInv
    <3>2. Written(r) = req[r].want /\ req[r].seen = events[e] /\ events[e] \in Row
          /\ req[r].reg # "keep"
      BY <1>1, <1>3, <2>2, AttendeeWritten
    <3>3. req[r].want.status = req[r].seen.status
      BY <1>1, <3>1, <3>2 DEF AttendeeWork, Activates, RegWrites, Row, EventRow
    <3> QED BY <2>1, <3>2, <3>3
  <2>3. CASE r \in ManagerReqs
    <3>1. req[r].seen \in Row /\ req[r].seen # NoEvent
      BY <1>1, <1>3, <2>3, TypeOfRequest DEF RequestInv, ManagerWork
    <3>2. Written(r).status = Column(events[e].status, req[r].seen.status, req[r].want.status)
      BY <1>3, <3>1 DEF Written, Merge
    <3> QED BY <1>1, <1>3, <2>1, <2>3, <3>1, <3>2 DEF Column
  <2> QED BY <2>2, <2>3 DEF Requests
<1> QED BY <1>2, <1>3

\* A commit by anybody but a manager leaves the texts alone too.
LEMMA CommittedTexts ==
  ASSUME BookingInv, NEW r \in Requests, Commit(r), NEW e \in Events, events[e] # NoEvent
  PROVE  r \in ManagerReqs \/ events'[e].texts = events[e].texts
<1>1. TypeOK /\ At(r, "flushed") /\ Active(r) /\ Decided(r) /\ RequestInv(r)
  BY DEF Commit, BookingInv, At, Active, Decided
<1>2. CASE r \in AttendeeReqs /\ WritesEvent(r) /\ e = req[r].event
  <2>1. /\ req[r].seen = events[e] /\ events[e] \in Row /\ Written(r) = req[r].want
        /\ req[r].reg # "keep"
    BY <1>1, <1>2, AttendeeWritten
  <2>2. req[r].want.texts = req[r].seen.texts
    BY <1>1, <1>2, <2>1, TypeOfRequest
       DEF RequestInv, AttendeeWork, Activates, RegWrites, Row, EventRow
  <2> QED BY <1>1, <1>2, <2>1, <2>2 DEF Commit, TypeOK
<1>3. CASE ~WritesEvent(r) \/ e # req[r].event
  BY <1>1, <1>3 DEF Commit, TypeOK
<1> QED BY <1>2, <1>3 DEF Requests

\* Of any number of managers, only one whose status has been overtaken can move an
\* event off the table of transitions: what the run status_race shows one do.
THEOREM StatusLeftOnlyByTheLate == Spec => StatusMachineUnlessOvertaken
<1>1. BookingInv /\ AllowedEdits /\ [Next]_vars =>
        [\A e \in Events : events[e] # NoEvent =>
           \/ CanTransition(events[e].status, events'[e].status)
           \/ \E m \in ManagerReqs : /\ ManagerCommits(m, e)
                                     /\ req[m].seen.status # events[e].status]_vars
  <2> SUFFICES ASSUME BookingInv, AllowedEdits, [Next]_vars,
                      NEW e \in Events, events[e] # NoEvent
               PROVE  \/ CanTransition(events[e].status, events'[e].status)
                      \/ \E m \in ManagerReqs : /\ ManagerCommits(m, e)
                                                /\ req[m].seen.status # events[e].status
    OBVIOUS
  <2>1. CASE \A r \in Requests : ~Commit(r)
    BY <2>1, TablesWrittenByCommit DEF Next, Step, vars, CanTransition
  <2>2. ASSUME NEW r \in Requests, Commit(r)
        PROVE  \/ CanTransition(events[e].status, events'[e].status)
               \/ \E m \in ManagerReqs : /\ ManagerCommits(m, e)
                                         /\ req[m].seen.status # events[e].status
    <3>1. CASE events'[e].status = events[e].status
      BY <3>1 DEF CanTransition
    <3>2. CASE events'[e].status # events[e].status
      <4>1. /\ r \in ManagerReqs /\ Active(r) /\ Decided(r) /\ req[r].event = e
            /\ req[r].seen # NoEvent /\ events'[e].status = req[r].want.status
        BY <2>2, <3>2, CommittedStatus
      <4>2. CanTransition(req[r].seen.status, req[r].want.status)
        BY <4>1 DEF AllowedEdits, AllowedEdit
      <4> QED BY <2>2, <4>1, <4>2 DEF ManagerCommits
    <3> QED BY <3>1, <3>2
  <2> QED BY <2>1, <2>2
<1> QED BY <1>1, BookingInvariant, AllowedEditsInvariant, PTL
        DEF Spec, StatusMachineUnlessOvertaken

\* Nor can any but such a manager leave an event offered with a blank text.
THEOREM IncompleteOnlyByTheLate == Spec => PublishableUnlessOvertaken
<1>1. BookingInv /\ BookingInv' /\ AllowedEdits /\ [Next]_vars =>
        [\A e \in Events : Incomplete(events'[e]) =>
           \/ Incomplete(events[e])
           \/ \E m \in ManagerReqs : ManagerCommits(m, e) /\ Overtaken(m, e)]_vars
  <2> SUFFICES ASSUME BookingInv, BookingInv', AllowedEdits, [Next]_vars,
                      NEW e \in Events, Incomplete(events'[e]), ~Incomplete(events[e])
               PROVE  \E m \in ManagerReqs : ManagerCommits(m, e) /\ Overtaken(m, e)
    OBVIOUS
  <2>1. /\ events'[e] # NoEvent /\ events'[e].status = "published"
        /\ events'[e].texts = "blank"
    BY DEF Incomplete, IsPublishable, BookingInv, StoredRowsReadable, Storable
  <2>2. PICK r \in Requests : Commit(r)
    BY TablesWrittenByCommit DEF Next, Step, vars
  <2>3. /\ TypeOK /\ Active(r) /\ RequestInv(r) /\ Decided(r) /\ At(r, "flushed")
        /\ req[r].event \in Events
    BY <2>2, TypeOfRequest DEF Commit, BookingInv, At, Active, Decided
  <2>4. e = req[r].event /\ WritesEvent(r) /\ events'[e] = Written(r)
    BY <2>2, <2>3 DEF Commit, TypeOK
  <2>5. r \in ManagerReqs
    <3>1. ASSUME r \in AttendeeReqs, r \notin ManagerReqs
          PROVE  FALSE
      <4>1. events[e] \in Row /\ events[e] # NoEvent
        BY <2>3, <2>4, <3>1, AttendeeWritten, TypeOfRow
      <4> QED BY <2>1, <2>2, <3>1, <4>1, CommittedStatus, CommittedTexts
              DEF Incomplete, IsPublishable
    <3> QED BY <3>1 DEF Requests
  <2>6. /\ req[r].want.status = "published" => req[r].want.texts # "blank"
        /\ req[r].seen = NoEvent => Written(r) = req[r].want
    BY <2>3, <2>5 DEF AllowedEdits, AllowedEdit, Written
  <2>7. /\ req[r].seen # NoEvent
        /\ Written(r).status = Column(events[e].status, req[r].seen.status, req[r].want.status)
        /\ Written(r).texts = Column(events[e].texts, req[r].seen.texts, req[r].want.texts)
    BY <2>1, <2>4, <2>6 DEF Written, Merge
  <2>8. \/ req[r].seen.status # events[e].status
        \/ req[r].seen.texts # events[e].texts
    BY <2>1, <2>4, <2>6, <2>7 DEF Column
  <2> QED BY <2>2, <2>4, <2>5, <2>7, <2>8 DEF ManagerCommits, Overtaken
<1> QED BY <1>1, BookingInvariant, AllowedEditsInvariant, PTL
        DEF Spec, PublishableUnlessOvertaken

\* Nobody holds a seat of an event that was never published, however many
\* managers and attendees are at work.
THEOREM DraftsAreEmpty == Spec => []NoAttendeesInDraft
<1>1. Init => NoAttendeesInDraft
  BY DEF Init, NoAttendeesInDraft
<1>2. BookingInv /\ AllowedEdits /\ NoAttendeesInDraft /\ [Next]_vars => NoAttendeesInDraft'
  <2> SUFFICES ASSUME BookingInv, AllowedEdits, NoAttendeesInDraft, [Next]_vars,
                      NEW e \in Events, NEW u \in Users, regs'[e][u].registered > 0
               PROVE  events'[e] # NoEvent /\ events'[e].status # "draft"
    BY DEF NoAttendeesInDraft
  <2>1. TypeOK
    BY DEF BookingInv
  <2>2. ASSUME NEW r \in Requests, Commit(r)
        PROVE  events'[e] # NoEvent /\ events'[e].status # "draft"
    <3>1. /\ Active(r) /\ RequestInv(r) /\ Decided(r) /\ At(r, "flushed")
          /\ req[r].event \in Events
      BY <2>1, <2>2, TypeOfRequest DEF Commit, BookingInv, At, Active, Decided
    <3>2. events[e] # NoEvent /\ events[e].status # "draft"
      <4>1. CASE regs[e][u].registered > 0
        BY <4>1 DEF NoAttendeesInDraft
      <4>2. CASE ~(regs[e][u].registered > 0)
        <5>1. e = req[r].event /\ u = req[r].user
          BY <2>1, <2>2, <4>2 DEF Commit, TypeOK
        <5>2. Activates(r)
          <6>1. RegWritten(Mine(r), req[r].reg).registered > 0
            BY <2>1, <2>2, <3>1, <5>1 DEF Commit, TypeOK, Mine
          <6>2. ~(Mine(r).registered > 0)
            BY <4>2, <5>1 DEF Mine
          <6>3. req[r].reg \in RegWrites
            BY <2>1, <3>1, TypeOfRequest
          <6> QED BY <2>1, <3>1, <6>1, <6>2, <6>3, RegCommitted DEF Activates, RegWrites
        <5>3. r \in AttendeeReqs
          BY <3>1, <5>2 DEF RequestInv, ManagerWork, Activates, Requests
        <5>4. req[r].seen = events[e] /\ req[r].seen.status = "published" /\ events[e] \in Row
          BY <3>1, <5>1, <5>2, <5>3, AttendeeWritten DEF RequestInv, AttendeeWork
        <5> QED BY <5>4, TypeOfRow
      <4> QED BY <4>1, <4>2
    <3>3. events'[e] # NoEvent
      <4>1. events[e] \in Row
        BY <2>1, <3>2 DEF TypeOK
      <4>2. events'[e] \in Row
        BY <2>1, <2>2, <3>1, <4>1, WrittenType DEF Commit, TypeOK
      <4> QED BY <4>2, TypeOfRow
    <3>4. events'[e].status # "draft"
      BY <2>2, <3>2, CommittedStatus
         DEF AllowedEdits, AllowedEdit, CanTransition, AllowedStatusTransitions
    <3> QED BY <3>3, <3>4
  <2>3. CASE ~\E r \in Requests : Commit(r)
    BY <2>3, TablesWrittenByCommit DEF Next, Step, vars, NoAttendeesInDraft
  <2> QED BY <2>2, <2>3
<1> QED BY <1>1, <1>2, BookingInvariant, AllowedEditsInvariant, PTL DEF Spec

-----------------------------------------------------------------------------
(***************************************************************************)
(* Seats, for any number of managers and any edits.                        *)
(***************************************************************************)

\* Who attends an event is a finite set.
LEMMA AttendingFinite ==
  ASSUME NEW e \in Events
  PROVE  IsFiniteSet(Attending[e]) /\ Cardinality(Attending[e]) \in Nat
<1>1. Attending[e] \in SUBSET Users
  BY DEF Attending
<1>2. IsFiniteSet(Attending[e])
  BY <1>1, FS_Subset, BookingAssumption
<1> QED BY <1>2, FS_CardinalityType

\* A seat moves between the two parts of the sum.
LEMMA BookedFits ==
  ASSUME BookingInv, NEW e \in Events, NEW u \in Users,
         Ledger!Join(e, u) \/ Ledger!Leave(e, u), NEW f \in Events, SeatsFit(f)
  PROVE  SeatsFit(f)'
<1>1. TypeOK
  BY DEF BookingInv
<1>2. events[e] \in Row /\ events[e] # NoEvent
  BY <1>1 DEF TypeOK, Ledger!Join, Ledger!Leave
<1>3. Attending \in [Events -> SUBSET Users]
  BY DEF Attending
<1>4. CASE f # e
  <2>1. events'[f] = events[f] /\ Attending'[f] = Attending[f]
    BY <1>1, <1>3, <1>4 DEF TypeOK, Ledger!Join, Ledger!Leave
  <2> QED BY <2>1 DEF SeatsFit
<1>5. CASE f = e /\ Ledger!Join(e, u)
  <2>1. /\ events'[e] = [events[e] EXCEPT !.available_slots = @ - 1]
        /\ u \notin Attending[e] /\ Attending'[e] = Attending[e] \cup {u}
    BY <1>1, <1>3, <1>5 DEF TypeOK, Ledger!Join
  <2>2. Cardinality(Attending'[e]) = Cardinality(Attending[e]) + 1
    BY <2>1, AttendingFinite, FS_AddElement
  <2>3. /\ events'[e].available_slots = events[e].available_slots - 1
        /\ events'[e].max_capacity = events[e].max_capacity
    BY <1>2, <2>1 DEF Row, EventRow
  <2> QED BY <1>2, <1>5, <2>2, <2>3, AttendingFinite, TypeOfRow DEF SeatsFit
<1>6. CASE f = e /\ Ledger!Leave(e, u)
  <2>1. /\ events'[e] = [events[e] EXCEPT !.available_slots = @ + 1]
        /\ u \in Attending[e] /\ Attending'[e] = Attending[e] \ {u}
    BY <1>1, <1>3, <1>6 DEF TypeOK, Ledger!Leave
  <2>2. Cardinality(Attending'[e]) = Cardinality(Attending[e]) - 1
    BY <2>1, AttendingFinite, FS_RemoveElement
  <2>3. /\ events'[e].available_slots = events[e].available_slots + 1
        /\ events'[e].max_capacity = events[e].max_capacity
    BY <1>2, <2>1 DEF Row, EventRow
  <2> QED BY <1>2, <1>6, <2>2, <2>3, AttendingFinite, TypeOfRow DEF SeatsFit
<1> QED BY <1>4, <1>5, <1>6

\* A new event offers the seats it has, and has no attendees yet.
LEMMA OpenedFits ==
  ASSUME BookingInv, NoAttendeesInDraft, NEW r \in ManagerReqs, Commit(r),
         NEW e \in Events, e = req[r].event, events[e] = NoEvent
  PROVE  SeatsFit(e)'
<1>1. /\ TypeOK /\ r \in Requests /\ Active(r) /\ RequestInv(r) /\ Decided(r)
  BY DEF Commit, BookingInv, At, Active, Decided, Requests
<1>2. /\ req[r].want \in Row /\ req[r].want # NoEvent /\ req[r].seen = NoEvent
      /\ req[r].want.available_slots = req[r].want.max_capacity
  BY <1>1, TypeOfRow DEF RequestInv, ManagerWork
<1>3. events'[e] = req[r].want
  BY <1>1, <1>2 DEF Commit, WritesEvent, Written, TypeOK
<1>4. Attending'[e] = {}
  <2>1. Attending[e] = {}
    BY <1>1 DEF NoAttendeesInDraft, Attending
  <2>2. Attending' = Attending
    BY <1>1, CommitIsLedgerStep, BookingAssumption
  <2> QED BY <2>1, <2>2
<1>5. Cardinality(Attending'[e]) = 0
  BY <1>4, FS_EmptySet
<1> QED BY <1>1, <1>2, <1>3, <1>5, TypeOfRow DEF SeatsFit

\* The seats of an event stop fitting only by an edit that lowers its capacity or
\* raises its seats left: never by bookings, whatever edits they meet.
THEOREM SeatsKeptButByEdits == Spec => SeatsFitUnlessEdited
<1>1. BookingInv /\ BookingInv' /\ NoAttendeesInDraft /\ [Next]_vars =>
        [\A e \in Events : SeatsFit(e) =>
           SeatsFit(e)' \/ \E m \in ManagerReqs : CutsSeats(m, e)]_vars
  <2> SUFFICES ASSUME BookingInv, BookingInv', NoAttendeesInDraft, [Next]_vars,
                      NEW e \in Events, SeatsFit(e), ~SeatsFit(e)'
               PROVE  \E m \in ManagerReqs : CutsSeats(m, e)
    OBVIOUS
  <2>1. TypeOK /\ TypeOK'
    BY DEF BookingInv
  <2>2. ~UNCHANGED <<events, Attending>>
    BY DEF SeatsFit
  <2>3. PICK r \in Requests : Commit(r)
    BY <2>2, TablesWrittenByCommit DEF Next, Step, vars, Attending
  <2>4. r \in ManagerReqs
    BY <2>2, <2>3, CommitIsLedgerStep, BookedFits DEF Requests
  <2>5. Attending' = Attending
    BY <2>3, <2>4, CommitIsLedgerStep, BookingAssumption
  <2>6. req[r].event = e
    <3>1. req[r].event # e => events'[e] = events[e]
      BY <2>1, <2>3 DEF Commit, TypeOK
    <3> QED BY <2>5, <3>1 DEF SeatsFit
  <2>7. events[e] # NoEvent /\ events'[e] # NoEvent
    BY <2>3, <2>4, <2>6, OpenedFits DEF SeatsFit
  <2>8. \/ events'[e].max_capacity < events[e].max_capacity
        \/ events'[e].available_slots > events[e].available_slots
    <3>1. events[e] \in Row /\ events'[e] \in Row
      BY <2>1, <2>7 DEF TypeOK
    <3>2. /\ events[e].max_capacity \in Nat /\ events[e].available_slots \in Nat
          /\ events'[e].max_capacity \in Nat /\ events'[e].available_slots \in Nat
      BY <3>1, TypeOfRow
    <3> QED BY <2>5, <2>7, <3>2, AttendingFinite DEF SeatsFit
  <2> QED BY <2>3, <2>4, <2>6, <2>8 DEF ManagerCommits, CutsSeats
<1> QED BY <1>1, BookingInvariant, DraftsAreEmpty, PTL DEF Spec, SeatsFitUnlessEdited

\* A cancellation that has failed still holds the row whose seats do not fit.
FailedCancel(r) ==
  Active(r) /\ req[r].op = "cancel" /\ req[r].code = "internal_error" =>
    /\ req[r].pc = "failed"
    /\ lock[req[r].event] = r
    /\ ~SeatsFit(req[r].event)

FailedCancels == \A r \in Requests : FailedCancel(r)

\* The seat a cancellation gives back fits under the capacity, if all seats did.
LEMMA ReturnedSeatFits ==
  ASSUME BookingInv, NEW r \in Requests, At(r, "staged"), req[r].op = "cancel",
         FlushFails(r)
  PROVE  lock[req[r].event] = r /\ ~SeatsFit(req[r].event)
<1> DEFINE e == req[r].event
<1>1. /\ TypeOK /\ Active(r) /\ RequestInv(r) /\ Decided(r) /\ r \in AttendeeReqs
      /\ e \in Events /\ req[r].user \in Users
  BY TypeOfRequest DEF BookingInv, At, Active, Decided, RequestInv, ManagerWork, Requests
<1>2. AttendeeWork(r) /\ req[r].reg \in RegWrites /\ HoldsLock(r)
  BY <1>1, TypeOfRequest DEF RequestInv, HoldsLock
<1>3. ~Activates(r)
  BY <1>1, <1>2 DEF AttendeeWork
<1>4. /\ req[r].seen \in Row /\ req[r].seen = events[e] /\ req[r].seen # NoEvent
      /\ Storable(events[e])
  BY <1>1, <1>2, TypeOfRow DEF AttendeeWork, BookingInv, StoredRowsReadable
<1>5. req[r].reg = "cancel"
  BY <1>1, <1>2, <1>3, <1>4 DEF AttendeeWork, FlushFails, WritesEvent, RegWrites, Activates
<1>6. /\ Mine(r).registered = 1
      /\ req[r].want = [req[r].seen EXCEPT !.available_slots = @ + 1]
  BY <1>1, <1>2, <1>5 DEF AttendeeWork
<1>7. req[r].user \in Attending[e]
  BY <1>1, <1>6 DEF Attending, Mine
<1>8. Cardinality(Attending[e]) \in Nat \ {0}
  BY <1>1, <1>7, AttendingFinite, FS_EmptySet
<1>9. SeatsFit(e) => events[e].available_slots + 1 <= events[e].max_capacity
  BY <1>4, <1>8, TypeOfRow DEF SeatsFit
<1>10. events[e].available_slots + 1 <= events[e].max_capacity => Storable(Written(r))
  BY <1>4, <1>6, TypeOfRow
     DEF Written, Merge, Column, Storable, Readable, RowCheck, Row, EventRow
<1> QED BY <1>1, <1>2, <1>3, <1>9, <1>10 DEF FlushFails, RequestInv

\* A cancellation fails of nothing else on its way to the row or at its flush.
LEMMA FailedCancelStep ==
  ASSUME BookingInv, FailedCancels, NEW r \in Requests, Step(r)
  PROVE  FailedCancel(r)'
<1>1. TypeOK
  BY DEF BookingInv
<1>2. ASSUME NEW u \in Users, NEW e \in Events,
             CreateEvent(r, u, e) \/ UpdateEvent(r, u, e) \/ DeleteEvent(r, u, e)
      PROVE  FailedCancel(r)'
  BY <1>1, <1>2 DEF CreateEvent, UpdateEvent, DeleteEvent, Refused, Call, FailedCancel, TypeOK
<1>3. ASSUME NEW u \in Users, NEW e \in Events, NEW op \in {"register", "cancel"},
             Arrive(r, u, e, op)
      PROVE  FailedCancel(r)'
  BY <1>1, <1>3 DEF Arrive, Call, FailedCancel, TypeOK
<1>4. ASSUME NEW pc \in {"waiting", "locked", "staged"}, At(r, pc)
      PROVE  Active(r) /\ (req[r].op = "cancel" => req[r].code # "internal_error")
  BY <1>4 DEF FailedCancels, FailedCancel, Active, At
<1>5. ASSUME NEW code \in Codes, Refuse(r, code)
      PROVE  req'[r].op = req[r].op /\ req'[r].code = code /\ req'[r].event = req[r].event
             /\ req'[r].pc = "failed"
  BY <1>1, <1>5 DEF Refuse, Refused, Call, TypeOK
<1>6. ASSUME GetByIdForUpdate(r)
      PROVE  FailedCancel(r)'
  <2>1. Active(r) /\ (req[r].op = "cancel" => req[r].code # "internal_error")
    BY <1>4, <1>6 DEF GetByIdForUpdate
  <2>2. CASE Refuse(r, "not_found")
    BY <1>5, <2>2 DEF Codes, FailedCancel
  <2>3. CASE req' = [req EXCEPT ![r] = [@ EXCEPT !.pc = "locked",
                        !.seen = events[req[r].event], !.want = events[req[r].event]]]
    <3>1. req'[r].op = req[r].op /\ req'[r].code = req[r].code
      BY <1>1, <2>1, <2>3, TypeOfRequest DEF TypeOK, Served
    <3> QED BY <2>1, <3>1 DEF FailedCancel
  <2> QED BY <1>6, <2>2, <2>3 DEF GetByIdForUpdate
<1>7. ASSUME RegisterForEvent(r)
      PROVE  FailedCancel(r)'
  <2>1. Active(r) /\ req[r].op = "register"
    BY <1>7 DEF RegisterForEvent, Active, At
  <2>2. ASSUME NEW want, NEW reg, Stage(r, want, reg)
        PROVE  req'[r].op = req[r].op
    BY <1>1, <2>1, <2>2, TypeOfRequest DEF Stage, TypeOK, Served
  <2>3. RegisterRefusal(r) \in Codes
    BY DEF RegisterRefusal, Codes
  <2> QED BY <1>5, <1>7, <2>1, <2>2, <2>3 DEF RegisterForEvent, FailedCancel
<1>8. ASSUME CancelRegistration(r)
      PROVE  FailedCancel(r)'
  <2>1. Active(r) /\ (req[r].op = "cancel" => req[r].code # "internal_error")
    BY <1>4, <1>8 DEF CancelRegistration
  <2>2. ~(Mine(r).registered > 1)
    BY <1>1, <2>1, TypeOfRequest, MineType DEF BookingInv, OneRowPerAttendee, Mine
  <2>3. CASE Refuse(r, "not_found")
    BY <1>5, <2>3 DEF Codes, FailedCancel
  <2>4. CASE Stage(r, [req[r].seen EXCEPT !.available_slots = @ + 1], "cancel")
    <3>1. req'[r].code = req[r].code /\ req'[r].op = req[r].op
      BY <1>1, <2>1, <2>4, TypeOfRequest DEF Stage, TypeOK, Served
    <3> QED BY <2>1, <3>1 DEF FailedCancel
  <2> QED BY <1>8, <2>2, <2>3, <2>4 DEF CancelRegistration
<1>9. ASSUME Flush(r)
      PROVE  FailedCancel(r)'
  <2>1. /\ Active(r) /\ At(r, "staged") /\ UNCHANGED <<events, regs>>
        /\ (req[r].op = "cancel" => req[r].code # "internal_error")
    BY <1>4, <1>9 DEF Flush
  <2>2. CASE FlushFails(r) /\ Refuse(r, "internal_error")
    <3>1. /\ req'[r].op = req[r].op /\ req'[r].event = req[r].event /\ req'[r].pc = "failed"
      BY <1>5, <2>2 DEF Codes
    <3>2. req[r].op = "cancel" => lock[req[r].event] = r /\ ~SeatsFit(req[r].event)
      BY <2>1, <2>2, ReturnedSeatFits
    <3>3. lock[req[r].event] = r => lock'[req[r].event] = r
      BY <1>1, <1>9, <2>1, TypeOfRequest DEF Flush, TypeOK
    <3>4. SeatsFit(req[r].event)' <=> SeatsFit(req[r].event)
      BY <2>1, <3>1 DEF SeatsFit, Attending
    <3> QED BY <3>1, <3>2, <3>3, <3>4 DEF FailedCancel
  <2>3. CASE req' = [req EXCEPT ![r] = [@ EXCEPT !.pc = "flushed"]]
    <3>1. req'[r].op = req[r].op /\ req'[r].code = req[r].code
      BY <1>1, <2>1, <2>3, TypeOfRequest DEF TypeOK, Served
    <3> QED BY <2>1, <3>1 DEF FailedCancel
  <2> QED BY <1>9, <2>2, <2>3 DEF Flush
<1>10. ASSUME Commit(r) \/ Rollback(r) \/ Crash(r)
       PROVE  FailedCancel(r)'
  BY <1>1, <1>10 DEF Commit, Rollback, Crash, Idle, FailedCancel, Active, At, TypeOK
<1> QED BY <1>2, <1>3, <1>6, <1>7, <1>8, <1>9, <1>10 DEF Step, Begin, Serve

\* A cancellation only ever dies of seats that an edit has left without room for the
\* one it gives back.
THEOREM CancelsFitButForEdits == Spec => []CancelFailsOnlyOverbooked
<1>1. Init => FailedCancels
  BY DEF Init, FailedCancels, FailedCancel, Active, At, Idle
<1>2. BookingInv /\ FailedCancels /\ [Next]_vars => FailedCancels'
  <2> SUFFICES ASSUME BookingInv, FailedCancels, [Next]_vars
               PROVE  FailedCancels'
    OBVIOUS
  <2>1. ASSUME NEW r \in Requests, Step(r), NEW q \in Requests, q # r
        PROVE  FailedCancel(q)'
    <3>1. SUFFICES ASSUME Active(q), req[q].op = "cancel", req[q].code = "internal_error"
                   PROVE  FailedCancel(q)'
      BY <2>1, OthersUntouched DEF FailedCancel, Active, At
    <3>2. /\ req[q].pc = "failed" /\ lock[req[q].event] = q /\ ~SeatsFit(req[q].event)
          /\ req[q].event \in Events
      BY <3>1, TypeOfRequest DEF FailedCancels, FailedCancel, BookingInv
    <3>3. /\ req'[q] = req[q] /\ lock'[req[q].event] = q
          /\ events'[req[q].event] = events[req[q].event]
          /\ regs'[req[q].event] = regs[req[q].event]
      BY <2>1, <3>2, OthersUntouched
    <3>4. ~SeatsFit(req[q].event)'
      BY <3>2, <3>3 DEF SeatsFit, Attending
    <3> QED BY <3>2, <3>3, <3>4 DEF FailedCancel
  <2>2. CASE UNCHANGED vars
    <3>1. \A r \in Requests : SeatsFit(req[r].event)' <=> SeatsFit(req[r].event)
      BY <2>2 DEF vars, SeatsFit, Attending
    <3> QED BY <2>2, <3>1 DEF vars, FailedCancels, FailedCancel, Active, At
  <2> QED BY <2>1, <2>2, FailedCancelStep DEF Next, Step, FailedCancels
<1>3. FailedCancels => CancelFailsOnlyOverbooked
  BY DEF FailedCancels, FailedCancel, CancelFailsOnlyOverbooked
<1> QED BY <1>1, <1>2, <1>3, BookingInvariant, PTL DEF Spec
=============================================================================
