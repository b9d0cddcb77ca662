---------------------------- MODULE AgendaProofs ----------------------------
(***************************************************************************)
(* What Agenda guarantees for any events, sessions, writers and requests.  *)
(***************************************************************************)
EXTENDS Agenda, TLAPS

(***************************************************************************)
(* The inductive invariant.  A stored session stays a session, of the same *)
(* event; a row being inserted is known to its writer only; and the row    *)
(* that was checked by the flush is the one the commit writes, because the *)
(* flush took the row's lock.                                              *)
(***************************************************************************)
\* It has decided what to write.
Serving(w) == work[w].pc \in {"speaker", "room", "staged", "flushed"}

SessionWork(w) ==
  LET seen == work[w].seen
      want == work[w].want
      s == work[w].target
  IN work[w].op \in SessionOps =>
       /\ s \in Sessions
       /\ want \in Slot /\ TimeCheck(want)
       /\ work[w].op = "create_session" =>
            seen = NoSession /\ sessions[s] = NoSession /\ lock[s] = w
       /\ work[w].op # "create_session" =>
            /\ seen \in Slot /\ sessions[s] \in Slot
            /\ seen.event = want.event /\ sessions[s].event = want.event

EventWork(w) ==
  work[w].op \notin SessionOps =>
    /\ work[w].target \in Events
    /\ work[w].seen \in Calendar /\ work[w].want \in Calendar

FlushedWork(w) ==
  At(w, "flushed") /\ work[w].want # work[w].seen =>
    lock[work[w].target] = w /\ TimeCheck(Written(w))

\* Between the two SELECTs of get_by_id_with_event.
LoadedWork(w) ==
  LET s == work[w].target
      seen == work[w].seen
  IN At(w, "loaded") =>
       /\ work[w].op \in {"update_session", "delete_session"}
       /\ s \in Sessions
       /\ seen \in Slot /\ TimeCheck(seen)
       /\ sessions[s] \in Slot /\ sessions[s].event = seen.event

WorkInv(w) == /\ Serving(w) => SessionWork(w) /\ EventWork(w) /\ FlushedWork(w)
              /\ LoadedWork(w)

AgendaInv == TypeOK /\ \A w \in Writers : WorkInv(w)

-----------------------------------------------------------------------------
(* The row an UPDATE or INSERT leaves behind. *)

\* Each column of an UPDATE is the one asked for or the one stored.
Merge(now, seen, want) ==
  [c \in DOMAIN now |-> IF want[c] = seen[c] THEN now[c] ELSE want[c]]

\* A merge of two edits of a session is a session with each time from one of them.
LEMMA MergedSlot ==
  ASSUME NEW now \in Slot, NEW seen \in Slot, NEW want \in Slot
  PROVE  LET row == Merge(now, seen, want)
         IN /\ row \in Slot
            /\ row.event \in {now.event, want.event}
            /\ row.start \in {now.start, want.start}
            /\ row.end \in {now.end, want.end}
BY DEF Merge, Slot, SessionRow

\* The same of an event.
LEMMA MergedCalendar ==
  ASSUME NEW now \in Calendar, NEW seen \in Calendar, NEW want \in Calendar
  PROVE  LET row == Merge(now, seen, want)
         IN /\ row \in Calendar
            /\ row.start \in {now.start, want.start}
            /\ row.end \in {now.end, want.end}
BY DEF Merge, Calendar

\* Nothing is merged into a row that is still the one read.
LEMMA MergedUnchanged ==
  ASSUME NEW now, NEW want,
         \/ now \in Slot /\ want \in Slot
         \/ now \in Calendar /\ want \in Calendar
  PROVE  Merge(now, now, want) = want
BY DEF Merge, Slot, SessionRow, Calendar

\* What a request on a session writes is a row of the same event.
LEMMA WrittenSession ==
  ASSUME AgendaInv, NEW w \in Writers, Serving(w), work[w].op \in SessionOps
  PROVE  LET s == work[w].target
             want == work[w].want
         IN /\ s \in Sessions
            /\ Written(w) \in Slot
            /\ Written(w).event = want.event
            /\ work[w].op = "create_session" => Written(w) = want
            /\ work[w].op # "create_session" =>
                 /\ Written(w) = Merge(sessions[s], work[w].seen, want)
                 /\ Written(w).start \in {sessions[s].start, want.start}
                 /\ Written(w).end \in {sessions[s].end, want.end}
<1> DEFINE s == work[w].target
           seen == work[w].seen
           want == work[w].want
<1>1. /\ s \in Sessions /\ s \notin Events
      /\ want \in Slot
      /\ work[w].op = "create_session" => seen = NoSession
      /\ work[w].op # "create_session" =>
           /\ seen \in Slot /\ sessions[s] \in Slot
           /\ sessions[s].event = want.event
  BY AgendaAssumption DEF AgendaInv, WorkInv, SessionWork
<1>2. CASE work[w].op = "create_session"
  BY <1>1, <1>2 DEF Written
<1>3. CASE work[w].op # "create_session"
  <2>1. seen # NoSession
    BY <1>1, <1>3, AgendaAssumption
  <2>2. Written(w) = Merge(sessions[s], seen, want)
    BY <1>1, <2>1 DEF Written, Stored, Merge
  <2> QED BY <1>1, <1>3, <2>2, MergedSlot
<1> QED BY <1>2, <1>3

\* What a request on an event writes is a row of events.
LEMMA WrittenEvent ==
  ASSUME AgendaInv, NEW w \in Writers, Serving(w), work[w].op \notin SessionOps
  PROVE  LET e == work[w].target
             want == work[w].want
         IN /\ e \in Events
            /\ Written(w) \in Calendar
            /\ Written(w) \in {want, Merge(calendar[e], work[w].seen, want)}
            /\ Written(w).start \in {calendar[e].start, want.start}
            /\ Written(w).end \in {calendar[e].end, want.end}
<1> DEFINE e == work[w].target
           seen == work[w].seen
           want == work[w].want
<1>1. /\ e \in Events /\ seen \in Calendar /\ want \in Calendar
      /\ calendar[e] \in Calendar
  BY DEF AgendaInv, WorkInv, EventWork, TypeOK
<1>2. CASE seen = NoSession
  BY <1>1, <1>2 DEF Written
<1>3. CASE seen # NoSession
  <2>1. Written(w) = Merge(calendar[e], seen, want)
    BY <1>1, <1>3 DEF Written, Stored, Merge
  <2> QED BY <1>1, <2>1, MergedCalendar
<1> QED BY <1>2, <1>3

-----------------------------------------------------------------------------
(* The steps preserve the invariant. *)

\* At first nothing is served.
LEMMA InitAgenda == Init => AgendaInv
<1> SUFFICES ASSUME Init PROVE AgendaInv
  OBVIOUS
<1>1. calendar \in [Events -> {row \in Calendar : TimeCheck(row)}]
  <2> SUFFICES ASSUME NEW row \in Calendar, [start |-> row.start, end |-> row.end] \in Windows
               PROVE  TimeCheck(row)
    BY DEF Init
  <2>1. [start |-> row.start, end |-> row.end] \in {v \in [start : Times, end : Times] : v.start <= v.end}
    BY AgendaAssumption
  <2> QED BY <2>1 DEF TimeCheck
<1>2. /\ sessions \in [Sessions -> {row \in Slot : TimeCheck(row)} \cup {NoSession}]
      /\ lock \in [Sessions \cup Events -> Writers \cup {NoWriter}]
      /\ work \in [Writers -> {Idle} \cup Served]
      /\ \A w \in Writers : work[w].pc = "idle"
  BY DEF Init, Idle
<1>3. TypeOK
  BY <1>1, <1>2 DEF Init, TypeOK
<1> QED BY <1>2, <1>3 DEF AgendaInv, WorkInv, LoadedWork, At, Serving

\* Whoever waits while the tables stand still and its own locks stay keeps what
\* it has.
LEMMA WaitingKept ==
  ASSUME AgendaInv, NEW v \in Writers, work'[v] = work[v],
         UNCHANGED <<calendar, sessions>>,
         \A x \in Sessions \cup Events : lock[x] = v => lock'[x] = v
  PROVE  WorkInv(v)'
<1>1. (Serving(v)' <=> Serving(v)) /\ \A pc : At(v, pc)' <=> At(v, pc)
  BY DEF Serving, At
<1>2. WorkInv(v)
  BY DEF AgendaInv
<1>3. LoadedWork(v)'
  BY <1>1, <1>2 DEF WorkInv, LoadedWork, TimeCheck
<1>4. ASSUME Serving(v)
      PROVE  SessionWork(v)' /\ EventWork(v)' /\ FlushedWork(v)'
  <2>1. SessionWork(v) /\ EventWork(v) /\ FlushedWork(v)
    BY <1>2, <1>4 DEF WorkInv
  <2>2. SessionWork(v)'
    BY <2>1 DEF SessionWork, TimeCheck
  <2>3. EventWork(v)'
    BY <2>1 DEF EventWork
  <2>4. FlushedWork(v)'
    <3>1. Written(v)' = Written(v)
      BY DEF Written, Stored
    <3>2. work[v].target \in Sessions \cup Events
      BY <2>1 DEF SessionWork, EventWork
    <3> QED BY <1>1, <2>1, <3>1, <3>2 DEF FlushedWork, TimeCheck
  <2> QED BY <2>2, <2>3, <2>4
<1> QED BY <1>1, <1>3, <1>4 DEF WorkInv

\* A refused request keeps its locks until it is rolled back.
LEMMA FailInv ==
  ASSUME AgendaInv, NEW w \in Writers, NEW code \in Codes, Fail(w, code),
         UNCHANGED <<calendar, sessions, overtaken>>,
         lock' \in [Sessions \cup Events -> Writers \cup {NoWriter}],
         \A v \in Writers \ {w}, x \in Sessions \cup Events : lock[x] = v => lock'[x] = v
  PROVE  AgendaInv'
<1>1. TypeOK /\ work' = [work EXCEPT ![w] = Refused(code)]
  BY DEF AgendaInv, Fail
<1>2. TypeOK'
  <2>1. work' \in [Writers -> {Idle} \cup {Refused(c) : c \in Codes} \cup Served]
    BY <1>1 DEF TypeOK
  <2>2. overtaken' \subseteq {v \in Writers : work'[v].pc # "idle"}
    BY <1>1 DEF TypeOK, Refused
  <2> QED BY <1>1, <2>1, <2>2 DEF TypeOK, TimeCheck
<1>3. ASSUME NEW v \in Writers, v # w
      PROVE  WorkInv(v)'
  <2>1. work'[v] = work[v]
    BY <1>1, <1>3 DEF TypeOK
  <2> QED BY <1>3, <2>1, WaitingKept
<1>4. work'[w].pc = "failed"
  BY <1>1 DEF TypeOK, Refused
<1> QED BY <1>2, <1>3, <1>4 DEF AgendaInv, WorkInv, LoadedWork, At, Serving

\* A request that holds nothing yet and goes on with a row it may write.
LEMMA GoOnInv ==
  ASSUME AgendaInv, NEW w \in Writers, NEW x \in Served,
         work' = [work EXCEPT ![w] = x],
         UNCHANGED <<calendar, sessions, overtaken>>,
         lock' \in [Sessions \cup Events -> Writers \cup {NoWriter}],
         \A v \in Writers \ {w}, y \in Sessions \cup Events : lock[y] = v => lock'[y] = v,
         x.pc # "flushed",
         IF x.pc = "loaded" THEN LoadedWork(w)' ELSE SessionWork(w)' /\ EventWork(w)'
  PROVE  AgendaInv'
<1>1. TypeOK
  BY DEF AgendaInv
<1>2. TypeOK' /\ work'[w] = x
  <2>1. /\ work' \in [Writers -> {Idle} \cup {Refused(c) : c \in Codes} \cup Served]
        /\ work'[w] = x
    BY <1>1 DEF TypeOK
  <2>2. overtaken' \subseteq {v \in Writers : work'[v].pc # "idle"}
    BY <1>1 DEF TypeOK, Served, PCs
  <2> QED BY <1>1, <2>1, <2>2 DEF TypeOK, TimeCheck
<1>3. ASSUME NEW v \in Writers, v # w
      PROVE  WorkInv(v)'
  <2>1. work'[v] = work[v]
    BY <1>1, <1>3 DEF TypeOK
  <2> QED BY <1>3, <2>1, WaitingKept
<1>4. WorkInv(w)'
  BY <1>2 DEF WorkInv, FlushedWork, LoadedWork, At, Serving
<1> QED BY <1>2, <1>3, <1>4 DEF AgendaInv

\* create_session.
LEMMA CreateSessionInv ==
  ASSUME AgendaInv, NEW w \in Writers, NEW s \in Sessions, NEW want \in Wanted,
         NEW allowed \in BOOLEAN, CreateSession(w, s, want, allowed)
  PROVE  AgendaInv'
<1> DEFINE refusal == CreateRefusal(want, allowed)
           begun == Begun("speaker", "create_session", s, NoSession, want)
<1>1. /\ TypeOK
      /\ want \in Slot /\ TimeCheck(want)
      /\ refusal \in Codes \cup {"ok"}
      /\ UNCHANGED <<calendar, sessions, overtaken>>
  BY AgendaAssumption DEF AgendaInv, CreateSession, CreateRefusal, Codes
<1>2. CASE refusal = "ok"
  <2>1. work' = [work EXCEPT ![w] = begun]
    BY <1>2 DEF CreateSession, Start
  <2>2. /\ lock' = [lock EXCEPT ![s] = w]
        /\ lock[s] = NoWriter /\ sessions[s] = NoSession
    BY <1>2 DEF CreateSession
  <2>3. begun \in Served /\ begun.pc = "speaker"
    BY <1>1 DEF Begun, Served, PCs, Ops, SessionOps
  <2>4. /\ lock' \in [Sessions \cup Events -> Writers \cup {NoWriter}]
        /\ lock'[s] = w
        /\ \A v \in Writers \ {w}, x \in Sessions \cup Events : lock[x] = v => lock'[x] = v
    BY <1>1, <2>2, AgendaAssumption DEF TypeOK
  <2>5. work'[w] = begun
    BY <1>1, <2>1 DEF TypeOK
  <2>6. SessionWork(w)' /\ EventWork(w)'
    BY <1>1, <2>2, <2>4, <2>5 DEF Begun, SessionWork, EventWork, SessionOps, TimeCheck
  <2> HIDE DEF begun
  <2> QED BY <1>1, <2>1, <2>3, <2>4, <2>6, GoOnInv
<1>3. CASE refusal # "ok"
  <2>1. Fail(w, refusal) /\ UNCHANGED lock
    BY <1>3 DEF CreateSession, Start
  <2> QED BY <1>1, <1>3, <2>1, FailInv DEF TypeOK
<1> QED BY <1>2, <1>3

\* The other requests begin without a lock: refused, or with a stored row.
LEMMA StartInv ==
  ASSUME AgendaInv, NEW w \in Writers, UNCHANGED <<calendar, sessions, lock, overtaken>>,
         NEW op \in Ops \ {"create_session"}, NEW x \in Sessions \cup Events,
         NEW seen, NEW want, NEW refusal \in Codes \cup {"ok"}, NEW next,
         Start(w, op, x, seen, want, refusal, next),
         refusal = "ok" =>
           \/ /\ next = "loaded" /\ op \in SessionOps /\ x \in Sessions
              /\ seen \in Slot /\ TimeCheck(seen) /\ want = NoSession
              /\ sessions[x] = seen
           \/ /\ next = "staged" /\ op \notin SessionOps /\ x \in Events
              /\ seen \in Calendar /\ want \in Calendar
  PROVE  AgendaInv'
<1>1. TypeOK
  BY DEF AgendaInv
<1>2. CASE refusal = "ok"
  <2> DEFINE begun == Begun(next, op, x, seen, want)
  <2>1. work' = [work EXCEPT ![w] = begun]
    BY <1>2 DEF Start
  <2>2. begun \in Served /\ begun.pc = next /\ next \in {"loaded", "staged"}
    BY <1>2 DEF Begun, Served, PCs
  <2>3. work'[w] = begun
    BY <1>1, <2>1 DEF TypeOK
  <2>4. next = "loaded" => LoadedWork(w)'
    BY <1>2, <2>3 DEF Begun, LoadedWork, SessionOps, At, TimeCheck
  <2>5. next = "staged" => SessionWork(w)' /\ EventWork(w)'
    BY <1>2, <2>3 DEF Begun, SessionWork, EventWork
  <2> HIDE DEF begun
  <2> QED BY <1>1, <2>1, <2>2, <2>4, <2>5, GoOnInv DEF TypeOK
<1>3. CASE refusal # "ok"
  <2>1. Fail(w, refusal)
    BY <1>3 DEF Start
  <2> QED BY <1>1, <1>3, <2>1, FailInv DEF TypeOK
<1> QED BY <1>2, <1>3

\* The first SELECT of get_by_id_with_event.
LEMMA LoadSessionInv ==
  ASSUME AgendaInv, NEW w \in Writers, NEW op \in {"update_session", "delete_session"},
         NEW s \in Sessions, LoadSession(w, op, s)
  PROVE  AgendaInv'
<1> DEFINE refusal == IF sessions[s] = NoSession THEN "not_found" ELSE "ok"
<1>1. /\ refusal \in Codes \cup {"ok"}
      /\ refusal = "ok" => sessions[s] \in Slot /\ TimeCheck(sessions[s])
  BY DEF AgendaInv, TypeOK, Codes
<1>2. /\ Start(w, op, s, sessions[s], NoSession, refusal, "loaded")
      /\ UNCHANGED <<calendar, sessions, lock, overtaken>>
  BY DEF LoadSession
<1>3. op \in Ops \ {"create_session"} /\ op \in SessionOps
  BY DEF Ops, SessionOps
<1> HIDE DEF refusal
<1> QED BY <1>1, <1>2, <1>3, StartInv

\* What update_session and delete_session know of the row they loaded.
LEMMA LoadedFacts ==
  ASSUME AgendaInv, NEW w \in Writers, At(w, "loaded"), NEW allowed \in BOOLEAN
  PROVE  LET row == work[w].seen
         IN /\ work[w] \in Served
            /\ row \in Slot /\ TimeCheck(row)
            /\ work[w].op \in {"update_session", "delete_session"}
            /\ LoadRefusal(row, allowed) \in Codes \cup {"ok"}
            /\ LoadRefusal(row, allowed) = "ok" =>
                 /\ IsSessionMutable(row)
                 /\ IsEventMutable(calendar[row.event])
<1>1. LoadedWork(w) /\ work[w] \in Served
  BY DEF AgendaInv, WorkInv, TypeOK, At, Idle, Refused
<1> QED BY <1>1 DEF LoadedWork, LoadRefusal, Codes

\* The rules are asked, and the request is refused or goes on.
LEMMA DecideInv ==
  ASSUME AgendaInv, NEW w \in Writers, At(w, "loaded"),
         UNCHANGED <<calendar, sessions, lock, overtaken>>,
         NEW want, NEW refusal \in Codes \cup {"ok"}, NEW next \in {"speaker", "staged"},
         Decide(w, want, refusal, next),
         refusal = "ok" => /\ want \in Slot /\ TimeCheck(want)
                           /\ want.event = work[w].seen.event
  PROVE  AgendaInv'
<1>1. TypeOK /\ LoadedWork(w) /\ work[w] \in Served
  BY LoadedFacts DEF AgendaInv, WorkInv
<1>2. CASE refusal = "ok"
  <2> DEFINE going == [work[w] EXCEPT !.pc = next, !.want = want]
  <2>1. work' = [work EXCEPT ![w] = going]
    BY <1>1, <1>2 DEF Decide, TypeOK
  <2>2. going \in Served /\ going.pc \notin {"loaded", "flushed"}
    BY <1>1, <1>2 DEF Served, PCs
  <2>3. work'[w] = going
    BY <1>1, <2>1 DEF TypeOK
  <2>4. /\ work'[w].op = work[w].op /\ work'[w].target = work[w].target
        /\ work'[w].seen = work[w].seen /\ work'[w].want = want
    BY <1>1, <2>3 DEF Served
  <2>5. SessionWork(w)' /\ EventWork(w)'
    BY <1>1, <1>2, <2>4 DEF LoadedWork, SessionWork, EventWork, SessionOps, TimeCheck
  <2> HIDE DEF going
  <2> QED BY <1>1, <2>1, <2>2, <2>5, GoOnInv DEF TypeOK
<1>3. CASE refusal # "ok"
  <2>1. Fail(w, refusal)
    BY <1>3 DEF Decide
  <2> QED BY <1>1, <1>3, <2>1, FailInv DEF TypeOK
<1> QED BY <1>2, <1>3

\* update_session.
LEMMA UpdateSessionInv ==
  ASSUME AgendaInv, NEW w \in Writers, NEW want \in Wanted,
         NEW slotsFit \in BOOLEAN, NEW allowed \in BOOLEAN,
         UpdateSession(w, want, slotsFit, allowed)
  PROVE  AgendaInv'
<1> DEFINE refusal == UpdateRefusal(work[w].seen, want, slotsFit, allowed)
<1>1. /\ At(w, "loaded") /\ want.event = work[w].seen.event
      /\ Decide(w, want, refusal, "speaker")
      /\ UNCHANGED <<calendar, sessions, lock, overtaken>>
  BY DEF UpdateSession
<1>2. refusal \in Codes \cup {"ok"}
  BY <1>1, LoadedFacts DEF UpdateRefusal, Codes
<1>3. want \in Slot
  BY AgendaAssumption
<1>4. ASSUME refusal = "ok" PROVE TimeCheck(want)
  <2>1. ~(want.end < want.start)
    BY <1>4 DEF UpdateRefusal
  <2>2. want.start \in Int /\ want.end \in Int
    BY <1>3, AgendaAssumption DEF Slot, SessionRow, Times
  <2> QED BY <2>1, <2>2 DEF TimeCheck
<1> HIDE DEF refusal
<1> QED BY <1>1, <1>2, <1>3, <1>4, DecideInv

\* delete_session.
LEMMA DeleteSessionInv ==
  ASSUME AgendaInv, NEW w \in Writers, NEW allowed \in BOOLEAN, DeleteSession(w, allowed)
  PROVE  AgendaInv'
<1> DEFINE refusal == LoadRefusal(work[w].seen, allowed)
           want == [work[w].seen EXCEPT !.status = "cancelled"]
<1>1. /\ At(w, "loaded")
      /\ Decide(w, want, refusal, "staged")
      /\ UNCHANGED <<calendar, sessions, lock, overtaken>>
  BY DEF DeleteSession
<1>2. /\ refusal \in Codes \cup {"ok"}
      /\ work[w].seen \in Slot /\ TimeCheck(work[w].seen)
  BY <1>1, LoadedFacts
<1>3. want \in Slot /\ TimeCheck(want) /\ want.event = work[w].seen.event
  BY <1>2 DEF Slot, SessionRow, SessionStatus, TimeCheck
<1> HIDE DEF refusal, want
<1> QED BY <1>1, <1>2, <1>3, DecideInv

\* update_event, the dates and the status.
LEMMA UpdateEventInv ==
  ASSUME AgendaInv, NEW w \in Writers, NEW e \in Events, NEW window \in Windows,
         NEW status \in EventStatus, NEW allowed \in BOOLEAN,
         UpdateEvent(w, e, window, status, allowed)
  PROVE  AgendaInv'
<1> DEFINE refusal == IF EventRefusal(e, allowed) # "ok" THEN EventRefusal(e, allowed)
                      ELSE IF ~CanTransition(calendar[e].status, status)
                        THEN "invalid_status_transition"
                      ELSE "ok"
           want == [status |-> status, start |-> window.start, end |-> window.end]
<1>1. refusal \in Codes \cup {"ok"}
  BY DEF EventRefusal, Codes
<1>2. window \in [start : Times, end : Times]
  BY AgendaAssumption
<1>3. want \in Calendar /\ calendar[e] \in Calendar
  BY <1>2 DEF Calendar, AgendaInv, TypeOK
<1>4. /\ Start(w, "update_event", e, calendar[e], want, refusal, "staged")
      /\ UNCHANGED <<calendar, sessions, lock, overtaken>>
  BY DEF UpdateEvent
<1>5. "update_event" \in Ops \ {"create_session"} /\ "update_event" \notin SessionOps
  BY DEF Ops, SessionOps
<1> HIDE DEF refusal, want
<1> QED BY <1>1, <1>3, <1>4, <1>5, StartInv

\* delete_event.
LEMMA DeleteEventInv ==
  ASSUME AgendaInv, NEW w \in Writers, NEW e \in Events, NEW allowed \in BOOLEAN,
         DeleteEvent(w, e, allowed)
  PROVE  AgendaInv'
<1> DEFINE refusal == EventRefusal(e, allowed)
           want == [calendar[e] EXCEPT !.status = "cancelled"]
<1>1. refusal \in Codes \cup {"ok"}
  BY DEF EventRefusal, Codes
<1>2. calendar[e] \in Calendar
  BY DEF AgendaInv, TypeOK
<1>3. want \in Calendar
  BY <1>2 DEF Calendar, EventStatus
<1>4. /\ Start(w, "delete_event", e, calendar[e], want, refusal, "staged")
      /\ UNCHANGED <<calendar, sessions, lock, overtaken>>
  BY DEF DeleteEvent
<1>5. "delete_event" \in Ops \ {"create_session"} /\ "delete_event" \notin SessionOps
  BY DEF Ops, SessionOps
<1> HIDE DEF refusal, want
<1> QED BY <1>1, <1>2, <1>3, <1>4, <1>5, StartInv

\* A served request that goes on with the row it wants, and nothing written.
LEMMA GotoInv ==
  ASSUME AgendaInv, NEW w \in Writers, Serving(w), NEW pc \in {"room", "staged"},
         Goto(w, pc), UNCHANGED <<calendar, sessions, lock, overtaken>>
  PROVE  AgendaInv'
<1> DEFINE going == [work[w] EXCEPT !.pc = pc]
<1>1. TypeOK /\ work[w] \in Served /\ SessionWork(w) /\ EventWork(w)
  BY DEF AgendaInv, WorkInv, TypeOK, Serving, Idle, Refused
<1>2. work' = [work EXCEPT ![w] = going]
  BY <1>1 DEF Goto, TypeOK
<1>3. going \in Served /\ going.pc \notin {"loaded", "flushed"}
  BY <1>1 DEF Served, PCs
<1>4. /\ work'[w].op = work[w].op /\ work'[w].target = work[w].target
      /\ work'[w].seen = work[w].seen /\ work'[w].want = work[w].want
  BY <1>1, <1>2 DEF Served, TypeOK
<1>5. SessionWork(w)' /\ EventWork(w)'
  BY <1>1, <1>4 DEF SessionWork, EventWork, TimeCheck
<1> HIDE DEF going
<1> QED BY <1>1, <1>2, <1>3, <1>5, GoOnInv DEF TypeOK

\* The two conflict queries.
LEMMA FindConflictInv ==
  ASSUME AgendaInv, NEW w \in Writers, FindSpeakerConflict(w) \/ FindRoomConflict(w)
  PROVE  AgendaInv'
<1>1. /\ UNCHANGED <<calendar, sessions, lock, overtaken>> /\ Serving(w)
      /\ lock \in [Sessions \cup Events -> Writers \cup {NoWriter}]
  BY DEF FindSpeakerConflict, FindRoomConflict, At, Serving, AgendaInv, TypeOK
<1>2. \/ Goto(w, "room") \/ Goto(w, "staged")
      \/ Fail(w, "session_speaker_conflict") \/ Fail(w, "session_room_conflict")
  BY DEF FindSpeakerConflict, FindRoomConflict
<1>3. {"session_speaker_conflict", "session_room_conflict"} \subseteq Codes
  BY DEF Codes
<1> QED BY <1>1, <1>2, <1>3, GotoInv, FailInv

\* The flush takes the lock of the row it writes and fails on its CHECK.
LEMMA FlushInv ==
  ASSUME AgendaInv, NEW w \in Writers, Flush(w)
  PROVE  AgendaInv'
<1> DEFINE x == work[w].target
           writes == work[w].want # work[w].seen
<1>1. /\ TypeOK /\ work[w] \in Served /\ Serving(w) /\ work[w].pc = "staged"
      /\ SessionWork(w) /\ EventWork(w)
      /\ x \in Sessions \cup Events
      /\ UNCHANGED <<calendar, sessions, overtaken>>
  BY DEF AgendaInv, WorkInv, TypeOK, Serving, Idle, Refused, Flush, At, SessionWork, EventWork
<1>2. /\ lock' = [lock EXCEPT ![x] = IF writes THEN w ELSE lock[x]]
      /\ writes => lock[x] \in {NoWriter, w}
  BY <1>1 DEF Flush, TypeOK
<1>3. /\ lock' \in [Sessions \cup Events -> Writers \cup {NoWriter}]
      /\ \A v \in Writers \ {w}, y \in Sessions \cup Events : lock[y] = v => lock'[y] = v
      /\ \A y \in Sessions \cup Events : lock[y] = w => lock'[y] = w
      /\ writes => lock'[x] = w
  BY <1>1, <1>2, AgendaAssumption DEF TypeOK
<1>4. CASE Fail(w, "internal_error")
  <2>1. "internal_error" \in Codes
    BY DEF Codes
  <2> QED BY <1>1, <1>3, <1>4, <2>1, FailInv
<1>5. CASE Goto(w, "flushed") /\ (writes => TimeCheck(Written(w)))
  <2>1. work' = [work EXCEPT ![w] = [work[w] EXCEPT !.pc = "flushed"]]
    BY <1>1, <1>5 DEF Goto, TypeOK
  <2>2. [work[w] EXCEPT !.pc = "flushed"] \in Served
    BY <1>1 DEF Served, PCs
  <2>3. TypeOK'
    BY <1>1, <1>3, <2>1, <2>2 DEF TypeOK, TimeCheck
  <2>4. work'[w] = [work[w] EXCEPT !.pc = "flushed"]
    BY <1>1, <2>1 DEF TypeOK
  <2>5. /\ work'[w].op = work[w].op /\ work'[w].target = work[w].target
        /\ work'[w].seen = work[w].seen /\ work'[w].want = work[w].want
    BY <1>1, <2>4 DEF Served
  <2>6. SessionWork(w)' /\ EventWork(w)'
    BY <1>1, <1>3, <2>5 DEF SessionWork, EventWork, TimeCheck
  <2>7. FlushedWork(w)'
    <3>1. Written(w)' = Written(w)
      BY <1>1, <2>5 DEF Written, Stored
    <3>2. writes => TimeCheck(Written(w)')
      BY <1>5, <3>1 DEF TimeCheck
    <3> QED BY <1>3, <2>5, <3>2 DEF FlushedWork, TimeCheck
  <2>8. ASSUME NEW v \in Writers, v # w
        PROVE  WorkInv(v)'
    <3>1. work'[v] = work[v]
      BY <1>1, <2>1, <2>8 DEF TypeOK
    <3> QED BY <1>1, <1>3, <2>8, <3>1, WaitingKept
  <2>9. WorkInv(w)'
    BY <1>1, <2>4, <2>6, <2>7 DEF Served, WorkInv, LoadedWork, At
  <2> QED BY <2>3, <2>8, <2>9 DEF AgendaInv
<1> QED BY <1>4, <1>5 DEF Flush

\* The end of a transaction takes no lock from another.
LEMMA ReleasedType ==
  ASSUME TypeOK, NEW w \in Writers
  PROVE  /\ LocksReleased(w) \in [Sessions \cup Events -> Writers \cup {NoWriter}]
         /\ \A v \in Writers \ {w}, x \in Sessions \cup Events :
              lock[x] = v => LocksReleased(w)[x] = v
BY DEF TypeOK, LocksReleased

\* A rollback.
LEMMA RollbackInv ==
  ASSUME AgendaInv, NEW w \in Writers, Rollback(w)
  PROVE  AgendaInv'
<1>1. /\ TypeOK /\ lock' = LocksReleased(w) /\ work' = [work EXCEPT ![w] = Idle]
      /\ overtaken' = overtaken \ {w} /\ UNCHANGED <<calendar, sessions>>
  BY DEF AgendaInv, Rollback
<1>2. TypeOK'
  <2>1. work' \in [Writers -> {Idle} \cup {Refused(c) : c \in Codes} \cup Served]
    BY <1>1 DEF TypeOK
  <2>2. overtaken' \subseteq {v \in Writers : work'[v].pc # "idle"}
    BY <1>1 DEF TypeOK
  <2> QED BY <1>1, <2>1, <2>2, ReleasedType DEF TypeOK, TimeCheck
<1>3. work'[w].pc = "idle"
  BY <1>1 DEF TypeOK, Idle
<1>4. ASSUME NEW v \in Writers, v # w
      PROVE  WorkInv(v)'
  <2>1. work'[v] = work[v]
    BY <1>1, <1>4 DEF TypeOK
  <2> QED BY <1>1, <1>4, <2>1, WaitingKept, ReleasedType
<1> QED BY <1>2, <1>3, <1>4 DEF AgendaInv, WorkInv, LoadedWork, At, Serving

\* The tables after a commit: the writer's row, or what was there.
LEMMA CommitEffect ==
  ASSUME AgendaInv, NEW w \in Writers, Commit(w)
  PROVE  LET x == work[w].target
             writes == work[w].want # work[w].seen
         IN /\ Serving(w)
            /\ x \in Sessions <=> work[w].op \in SessionOps
            /\ x \in Events <=> work[w].op \notin SessionOps
            /\ writes => lock[x] = w /\ TimeCheck(Written(w))
            /\ \A s \in Sessions : sessions'[s] =
                 IF writes /\ x = s THEN Written(w) ELSE sessions[s]
            /\ \A e \in Events : calendar'[e] =
                 IF writes /\ x = e THEN Written(w) ELSE calendar[e]
            /\ work' = [work EXCEPT ![w] = Idle]
            /\ lock' = LocksReleased(w)
<1>1. TypeOK /\ Serving(w) /\ At(w, "flushed")
  BY DEF AgendaInv, Commit, At, Serving
<1>2. SessionWork(w) /\ EventWork(w) /\ FlushedWork(w)
  BY <1>1 DEF AgendaInv, WorkInv
<1> QED BY <1>1, <1>2, AgendaAssumption DEF TypeOK, SessionWork, EventWork, FlushedWork, Commit

\* A row that was read by one writer and written by another is still a row of
\* the same event.
LEMMA CommitInv ==
  ASSUME AgendaInv, NEW w \in Writers, Commit(w)
  PROVE  AgendaInv'
<1> DEFINE x == work[w].target
           writes == work[w].want # work[w].seen
<1>1. TypeOK
  BY DEF AgendaInv
<1>2. /\ Serving(w)
      /\ x \in Sessions <=> work[w].op \in SessionOps
      /\ x \in Events <=> work[w].op \notin SessionOps
      /\ writes => lock[x] = w /\ TimeCheck(Written(w))
      /\ \A s \in Sessions : sessions'[s] = IF writes /\ x = s THEN Written(w) ELSE sessions[s]
      /\ \A e \in Events : calendar'[e] = IF writes /\ x = e THEN Written(w) ELSE calendar[e]
      /\ work' = [work EXCEPT ![w] = Idle]
      /\ lock' = LocksReleased(w)
  BY CommitEffect
<1>3. /\ x \in Sessions => /\ Written(w) \in Slot
                           /\ Written(w).event = work[w].want.event
      /\ x \in Events => Written(w) \in Calendar
  BY <1>2, WrittenSession, WrittenEvent
<1>4. TypeOK'
  <2>1. calendar' \in [Events -> {row \in Calendar : TimeCheck(row)}]
    <3>1. calendar' = [calendar EXCEPT ![x] = Written(w)] \/ calendar' = calendar
      BY DEF Commit
    <3>2. \A e \in Events : calendar'[e] \in {row \in Calendar : TimeCheck(row)}
      BY <1>1, <1>2, <1>3 DEF TypeOK
    <3> QED BY <1>1, <3>1, <3>2 DEF TypeOK
  <2>2. sessions' \in [Sessions -> {row \in Slot : TimeCheck(row)} \cup {NoSession}]
    <3>1. sessions' = [sessions EXCEPT ![x] = Written(w)] \/ sessions' = sessions
      BY DEF Commit
    <3>2. \A s \in Sessions : sessions'[s] \in {row \in Slot : TimeCheck(row)} \cup {NoSession}
      BY <1>1, <1>2, <1>3 DEF TypeOK
    <3> QED BY <1>1, <3>1, <3>2 DEF TypeOK
  <2>3. work' \in [Writers -> {Idle} \cup {Refused(c) : c \in Codes} \cup Served]
    BY <1>1, <1>2 DEF TypeOK
  <2>4. lock' \in [Sessions \cup Events -> Writers \cup {NoWriter}]
    BY <1>1, <1>2, ReleasedType
  <2>5. overtaken' \subseteq {v \in Writers : work'[v].pc # "idle"}
    BY <1>1, <1>2 DEF TypeOK, Commit, Passed, UnderWay
  <2> QED BY <2>1, <2>2, <2>3, <2>4, <2>5 DEF TypeOK, TimeCheck
<1>5. work'[w].pc = "idle"
  BY <1>1, <1>2 DEF TypeOK, Idle
<1>6. ASSUME NEW v \in Writers, v # w, Serving(v)
      PROVE  (SessionWork(v) /\ EventWork(v) /\ FlushedWork(v))'
  <2> DEFINE y == work[v].target
  <2>1. work'[v] = work[v]
    BY <1>1, <1>2, <1>6 DEF TypeOK
  <2>2. SessionWork(v) /\ EventWork(v) /\ FlushedWork(v)
    BY <1>6 DEF AgendaInv, WorkInv
  <2>3. /\ y \in Sessions \cup Events
        /\ lock[y] = v => lock'[y] = v /\ ~(writes /\ x = y)
    BY <1>1, <1>2, <1>6, <2>2, ReleasedType DEF SessionWork, EventWork
  <2>4. SessionWork(v)'
    <3>1. SUFFICES ASSUME work[v].op \in SessionOps, writes, x = y
                   PROVE  SessionWork(v)'
      BY <1>2, <2>1, <2>2, <2>3 DEF SessionWork, TimeCheck
    <3>2. /\ y \in Sessions /\ work[v].op # "create_session"
          /\ work[v].want \in Slot /\ TimeCheck(work[v].want)
          /\ work[v].seen \in Slot /\ sessions[y] \in Slot
          /\ work[v].seen.event = work[v].want.event
          /\ sessions[y].event = work[v].want.event
      BY <2>2, <2>3, <3>1 DEF SessionWork
    <3>3. work[w].op # "create_session" /\ sessions[y].event = work[w].want.event
      BY <1>2, <3>1, <3>2, AgendaAssumption DEF AgendaInv, WorkInv, SessionWork
    <3>4. sessions'[y] \in Slot /\ sessions'[y].event = work[v].want.event
      BY <1>2, <1>3, <3>1, <3>2, <3>3
    <3> QED BY <2>1, <3>2, <3>4 DEF SessionWork, TimeCheck
  <2>5. EventWork(v)'
    BY <2>1, <2>2 DEF EventWork
  <2>6. FlushedWork(v)'
    <3>1. SUFFICES ASSUME At(v, "flushed"), work[v].want # work[v].seen
                   PROVE  lock'[y] = v /\ TimeCheck(Written(v)')
      BY <2>1 DEF FlushedWork, At, TimeCheck
    <3>2. lock[y] = v /\ TimeCheck(Written(v))
      BY <2>2, <3>1 DEF FlushedWork
    <3>3. y \in Events => calendar'[y] = calendar[y]
      BY <1>2, <2>3, <3>2
    <3>4. y \in Sessions => sessions'[y] = sessions[y]
      BY <1>2, <2>3, <3>2
    <3>5. Written(v)' = Written(v)
      BY <2>1, <2>3, <3>3, <3>4 DEF Written, Stored
    <3> QED BY <2>3, <3>2, <3>5 DEF TimeCheck
  <2> QED BY <2>4, <2>5, <2>6
<1>7. ASSUME NEW v \in Writers, v # w
      PROVE  WorkInv(v)'
  <2> DEFINE y == work[v].target
  <2>1. /\ work'[v] = work[v]
        /\ Serving(v)' <=> Serving(v)
        /\ At(v, "loaded")' <=> At(v, "loaded")
    BY <1>1, <1>2, <1>7 DEF TypeOK, Serving, At
  <2>2. ASSUME At(v, "loaded")
        PROVE  LoadedWork(v)'
    <3>1. /\ work[v].op \in {"update_session", "delete_session"} /\ y \in Sessions
          /\ work[v].seen \in Slot /\ TimeCheck(work[v].seen)
          /\ sessions[y] \in Slot /\ sessions[y].event = work[v].seen.event
      BY <2>2 DEF AgendaInv, WorkInv, LoadedWork
    <3>2. sessions'[y] \in Slot /\ sessions'[y].event = sessions[y].event
      <4>1. SUFFICES ASSUME writes, x = y
                     PROVE  sessions'[y] \in Slot /\ sessions'[y].event = sessions[y].event
        BY <1>2, <3>1
      <4>2. work[w].op # "create_session" /\ sessions[y].event = work[w].want.event
        BY <1>2, <3>1, <4>1, AgendaAssumption DEF AgendaInv, WorkInv, SessionWork
      <4> QED BY <1>2, <1>3, <3>1, <4>1, <4>2
    <3> QED BY <2>1, <3>1, <3>2 DEF LoadedWork, TimeCheck
  <2> QED BY <1>6, <1>7, <2>1, <2>2 DEF WorkInv, LoadedWork
<1> QED BY <1>4, <1>5, <1>7 DEF AgendaInv, WorkInv, LoadedWork, At, Serving

\* Every step keeps the invariant.
LEMMA StepAgenda == AgendaInv /\ [Next]_vars => AgendaInv'
<1> SUFFICES ASSUME AgendaInv, [Next]_vars PROVE AgendaInv'
  OBVIOUS
<1>1. CASE UNCHANGED vars
  <2>1. TypeOK'
    BY <1>1 DEF AgendaInv, TypeOK, vars, TimeCheck
  <2> QED BY <1>1, <2>1, WaitingKept DEF AgendaInv, vars
<1>2. ASSUME NEW w \in Writers, BeginSession(w) PROVE AgendaInv'
  BY <1>2, CreateSessionInv, LoadSessionInv DEF BeginSession
<1>6. ASSUME NEW w \in Writers, DecideSession(w) PROVE AgendaInv'
  BY <1>6, UpdateSessionInv, DeleteSessionInv DEF DecideSession
<1>3. ASSUME NEW w \in Writers, BeginEvent(w) PROVE AgendaInv'
  BY <1>3, UpdateEventInv, DeleteEventInv DEF BeginEvent
<1>4. ASSUME NEW w \in Writers, FindSpeakerConflict(w) \/ FindRoomConflict(w) PROVE AgendaInv'
  BY <1>4, FindConflictInv
<1>5. ASSUME NEW w \in Writers, Flush(w) \/ Commit(w) \/ Rollback(w) PROVE AgendaInv'
  BY <1>5, FlushInv, CommitInv, RollbackInv
<1> QED BY <1>1, <1>2, <1>3, <1>4, <1>5, <1>6 DEF Next

\* The inductive invariant, with any number of writers.
THEOREM AgendaInvariant == Spec => []AgendaInv
<1> QED BY InitAgenda, StepAgenda, PTL DEF Spec

\* The committed rows keep their types and their CHECK end >= start, also when
\* an UPDATE merges the edits of two requests.
THEOREM AgendaTypeCorrect == Spec => []TypeOK
<1>1. AgendaInv => TypeOK
  BY DEF AgendaInv
<1> QED BY <1>1, AgendaInvariant, PTL

-----------------------------------------------------------------------------
(* What a step does to the requests being served. *)

\* A request goes on with what it read and wants.
GoesOn(w) ==
  /\ Serving(w)
  /\ work'[w].op = work[w].op /\ work'[w].target = work[w].target
  /\ work'[w].seen = work[w].seen /\ work'[w].want = work[w].want

\* A request begins.
Begins(w) == BeginSession(w) \/ BeginEvent(w)

\* A step of w before its commit.
Before(w) == \/ Begins(w) \/ DecideSession(w)
             \/ FindSpeakerConflict(w) \/ FindRoomConflict(w) \/ Flush(w)

\* Next once more.
LEMMA NextCases ==
  ASSUME [Next]_vars
  PROVE  \/ UNCHANGED vars
         \/ \E w \in Writers : Before(w) \/ Commit(w) \/ Rollback(w)
BY DEF Next, Before, Begins

\* Whoever is served has its rows.
LEMMA ServingServed ==
  ASSUME AgendaInv, NEW w \in Writers
  PROVE  /\ Serving(w) \/ At(w, "loaded") => work[w] \in Served
         /\ UnderWay(w) <=> Serving(w) \/ At(w, "loaded")
         /\ Serving(w) => SessionWork(w) /\ EventWork(w) /\ FlushedWork(w)
         /\ LoadedWork(w)
BY DEF AgendaInv, WorkInv, TypeOK, Serving, At, UnderWay, Idle, Refused, Served, PCs

\* The rules are asked: refused, or on with the row that was read.
LEMMA DecideShape ==
  ASSUME AgendaInv, NEW w \in Writers, DecideSession(w)
  PROVE  /\ At(w, "loaded") /\ LoadedWork(w)
         /\ UNCHANGED <<calendar, sessions, overtaken>>
         /\ \A v \in Writers \ {w} : work'[v] = work[v]
         /\ Serving(w)' \/ work'[w].pc = "failed"
         /\ Serving(w)' => /\ work'[w].op = work[w].op
                           /\ work'[w].target = work[w].target
                           /\ work'[w].seen = work[w].seen
<1>1. At(w, "loaded") /\ UNCHANGED <<calendar, sessions, overtaken>>
  BY DEF DecideSession, UpdateSession, DeleteSession
<1>2. TypeOK /\ work[w] \in Served /\ LoadedWork(w)
  BY <1>1, ServingServed DEF AgendaInv
<1>3. ASSUME NEW want, NEW refusal, NEW next \in {"speaker", "staged"},
             Decide(w, want, refusal, next)
      PROVE  /\ \A v \in Writers \ {w} : work'[v] = work[v]
             /\ Serving(w)' \/ work'[w].pc = "failed"
             /\ Serving(w)' => /\ work'[w].op = work[w].op
                               /\ work'[w].target = work[w].target
                               /\ work'[w].seen = work[w].seen
  <2>1. CASE refusal = "ok"
    <3>1. work' = [work EXCEPT ![w] = [work[w] EXCEPT !.pc = next, !.want = want]]
      BY <1>2, <1>3, <2>1 DEF Decide, TypeOK
    <3>2. work'[w] = [work[w] EXCEPT !.pc = next, !.want = want]
      BY <1>2, <3>1 DEF TypeOK
    <3> QED BY <1>2, <3>1, <3>2 DEF TypeOK, Served, Serving
  <2>2. CASE refusal # "ok"
    BY <1>2, <1>3, <2>2 DEF Decide, Fail, Refused, TypeOK, Serving
  <2> QED BY <2>1, <2>2
<1>4. \E want, refusal : \E next \in {"speaker", "staged"} : Decide(w, want, refusal, next)
  BY DEF DecideSession, UpdateSession, DeleteSession
<1> QED BY <1>1, <1>2, <1>3, <1>4

\* Everything but a commit leaves the tables alone and, unless a request
\* begins or decides, what the served requests want.
LEMMA StepShape ==
  ASSUME AgendaInv, NEW w \in Writers, Before(w) \/ Rollback(w)
  PROVE  /\ UNCHANGED <<calendar, sessions>>
         /\ overtaken' = IF Rollback(w) THEN overtaken \ {w} ELSE overtaken
         /\ \A v \in Writers \ {w} : work'[v] = work[v]
         /\ Begins(w) \/ DecideSession(w) \/ ~UnderWay(w)' \/ (GoesOn(w) /\ Serving(w)')
<1>1. TypeOK
  BY DEF AgendaInv
<1>2. CASE Begins(w)
  <2>1. ASSUME NEW op, NEW x, NEW seen, NEW want, NEW refusal, NEW next,
               Start(w, op, x, seen, want, refusal, next)
        PROVE  \A v \in Writers \ {w} : work'[v] = work[v]
    BY <1>1, <2>1 DEF TypeOK, Start, Fail
  <2>2. /\ At(w, "idle") /\ UNCHANGED <<calendar, sessions, overtaken>>
    BY <1>2 DEF Begins, BeginSession, BeginEvent, CreateSession, LoadSession,
      UpdateEvent, DeleteEvent
  <2>3. ASSUME BeginSession(w) PROVE \A v \in Writers \ {w} : work'[v] = work[v]
    BY <2>1, <2>3 DEF BeginSession, CreateSession, LoadSession
  <2>4. ASSUME BeginEvent(w) PROVE \A v \in Writers \ {w} : work'[v] = work[v]
    BY <2>1, <2>4 DEF BeginEvent, UpdateEvent, DeleteEvent
  <2> QED BY <1>2, <2>2, <2>3, <2>4 DEF Begins, Rollback
<1>3. CASE Rollback(w)
  BY <1>1, <1>3 DEF TypeOK, Rollback, UnderWay, Idle
<1>4. CASE FindSpeakerConflict(w) \/ FindRoomConflict(w) \/ Flush(w)
  <2>1. /\ UNCHANGED <<calendar, sessions, overtaken>>
        /\ Serving(w) /\ work[w] \in Served
    BY <1>1, <1>4, ServingServed DEF FindSpeakerConflict, FindRoomConflict, Flush, At, Serving
  <2>2. \/ \E pc \in {"room", "staged", "flushed"} : Goto(w, pc)
        \/ \E code \in Codes : Fail(w, code)
    <3>1. {"session_speaker_conflict", "session_room_conflict", "internal_error"} \subseteq Codes
      BY DEF Codes
    <3> QED BY <1>4, <3>1 DEF FindSpeakerConflict, FindRoomConflict, Flush
  <2>3. ASSUME NEW pc \in {"room", "staged", "flushed"}, Goto(w, pc)
        PROVE  GoesOn(w) /\ Serving(w)' /\ \A v \in Writers \ {w} : work'[v] = work[v]
    <3>1. work' = [work EXCEPT ![w] = [work[w] EXCEPT !.pc = pc]]
      BY <1>1, <2>3 DEF TypeOK, Goto
    <3>2. work'[w] = [work[w] EXCEPT !.pc = pc]
      BY <1>1, <3>1 DEF TypeOK
    <3> QED BY <1>1, <2>1, <3>1, <3>2 DEF TypeOK, Served, GoesOn, Serving
  <2>4. ASSUME NEW code \in Codes, Fail(w, code)
        PROVE  ~UnderWay(w)' /\ \A v \in Writers \ {w} : work'[v] = work[v]
    BY <1>1, <2>4 DEF TypeOK, Fail, Refused, UnderWay
  <2>5. overtaken' = IF Rollback(w) THEN overtaken \ {w} ELSE overtaken
    BY <2>1 DEF Rollback
  <2> QED BY <2>1, <2>2, <2>3, <2>4, <2>5
<1>5. CASE DecideSession(w)
  BY <1>5, DecideShape DEF Rollback
<1> QED BY <1>2, <1>3, <1>4, <1>5 DEF Before

-----------------------------------------------------------------------------
(* Sessions and the dates of their event. *)

\* A commit may give an event more days, but takes none away.
OnlyExtended ==
  \A e \in Events : /\ calendar'[e].start <= calendar[e].start
                    /\ calendar[e].end <= calendar'[e].end

\* All sessions, stored, read or wanted, lie between the dates of their event.
SessionsFit ==
  /\ \A s \in Sessions : sessions[s] # NoSession =>
       WithinEventWindow(sessions[s], calendar[sessions[s].event])
  /\ \A w \in Writers :
       /\ Serving(w) /\ work[w].op \in SessionOps =>
            WithinEventWindow(work[w].want, calendar[work[w].want.event])
       /\ At(w, "loaded") =>
            WithinEventWindow(work[w].seen, calendar[work[w].seen.event])

\* What fits keeps fitting.
LEMMA ExtendedFits ==
  ASSUME TypeOK, TypeOK', OnlyExtended, NEW row \in Slot,
         WithinEventWindow(row, calendar[row.event])
  PROVE  WithinEventWindow(row, calendar'[row.event])
<1>1. row.event \in Events /\ row.start \in Times /\ row.end \in Times
  BY DEF Slot, SessionRow
<1>2. /\ calendar[row.event].start \in Int /\ calendar[row.event].end \in Int
      /\ calendar'[row.event].start \in Int /\ calendar'[row.event].end \in Int
  BY <1>1, AgendaAssumption DEF TypeOK, Calendar, Times
<1>3. row.start \in Int /\ row.end \in Int
  BY <1>1, AgendaAssumption DEF Times
<1> QED BY <1>1, <1>2, <1>3 DEF OnlyExtended, WithinEventWindow

\* A request that begins is refused, has read a session that fits, or asks for
\* a time within the dates of its event.
LEMMA BeginFits ==
  ASSUME AgendaInv, SessionsFit, NEW w \in Writers, Begins(w)
  PROVE  /\ Serving(w)' /\ work'[w].op \in SessionOps =>
              WithinEventWindow(work'[w].want, calendar[work'[w].want.event])
         /\ At(w, "loaded")' =>
              WithinEventWindow(work'[w].seen, calendar[work'[w].seen.event])
<1> USE DEF WithinEventWindow
<1>1. TypeOK
  BY DEF AgendaInv
<1>2. ASSUME NEW s \in Sessions, NEW want \in Wanted, NEW allowed \in BOOLEAN,
             CreateSession(w, s, want, allowed)
      PROVE  /\ ~At(w, "loaded")'
             /\ Serving(w)' => WithinEventWindow(work'[w].want, calendar[work'[w].want.event])
  <2>1. CASE CreateRefusal(want, allowed) = "ok"
    <3>1. work'[w] = Begun("speaker", "create_session", s, NoSession, want)
      BY <1>1, <1>2, <2>1 DEF TypeOK, CreateSession, Start
    <3>2. WithinEventWindow(want, calendar[want.event])
      BY <2>1 DEF CreateRefusal
    <3> QED BY <3>1, <3>2 DEF Begun, At
  <2>2. CASE CreateRefusal(want, allowed) # "ok"
    BY <1>1, <1>2, <2>2 DEF TypeOK, CreateSession, Start, Fail, Refused, Serving, At
  <2> QED BY <2>1, <2>2
<1>3. ASSUME NEW s \in Sessions, NEW op \in {"update_session", "delete_session"},
             LoadSession(w, op, s)
      PROVE  /\ ~Serving(w)'
             /\ At(w, "loaded")' =>
                  WithinEventWindow(work'[w].seen, calendar[work'[w].seen.event])
  <2>1. CASE sessions[s] # NoSession
    <3>1. work'[w] = Begun("loaded", op, s, sessions[s], NoSession)
      BY <1>1, <1>3, <2>1 DEF TypeOK, LoadSession, Start
    <3> QED BY <2>1, <3>1 DEF Begun, At, Serving, SessionsFit
  <2>2. CASE sessions[s] = NoSession
    BY <1>1, <1>3, <2>2 DEF TypeOK, LoadSession, Start, Fail, Refused, Serving, At
  <2> QED BY <2>1, <2>2
<1>4. ASSUME BeginEvent(w)
      PROVE  ~At(w, "loaded")' /\ (Serving(w)' => work'[w].op \notin SessionOps)
  BY <1>1, <1>4 DEF BeginEvent, UpdateEvent, DeleteEvent, Start, Fail, Refused, Begun, TypeOK,
    SessionOps, At, Serving
<1> QED BY <1>2, <1>3, <1>4 DEF Begins, BeginSession

\* So does one that decides.
LEMMA DecideFits ==
  ASSUME AgendaInv, SessionsFit, NEW w \in Writers, DecideSession(w), Serving(w)'
  PROVE  WithinEventWindow(work'[w].want, calendar[work'[w].want.event])
<1>1. TypeOK /\ At(w, "loaded") /\ LoadedWork(w) /\ work[w] \in Served
  BY DecideShape, ServingServed DEF AgendaInv
<1>2. ASSUME NEW want, NEW refusal, NEW next, Decide(w, want, refusal, next)
      PROVE  refusal = "ok" /\ work'[w].want = want
  <2>1. refusal = "ok"
    BY <1>1, <1>2 DEF Decide, Fail, Refused, TypeOK, Serving
  <2>2. work' = [work EXCEPT ![w] = [work[w] EXCEPT !.pc = next, !.want = want]]
    BY <1>1, <1>2, <2>1 DEF Decide, TypeOK
  <2>3. work'[w] = [work[w] EXCEPT !.pc = next, !.want = want]
    BY <1>1, <2>2 DEF TypeOK
  <2> QED BY <1>1, <2>1, <2>3 DEF Served
<1>3. ASSUME NEW want \in Wanted, NEW slotsFit \in BOOLEAN, NEW allowed \in BOOLEAN,
             UpdateSession(w, want, slotsFit, allowed)
      PROVE  WithinEventWindow(work'[w].want, calendar[work'[w].want.event])
  <2>1. /\ UpdateRefusal(work[w].seen, want, slotsFit, allowed) = "ok"
        /\ work'[w].want = want
    BY <1>2, <1>3 DEF UpdateSession
  <2>2. WithinEventWindow(want, calendar[want.event])
    BY <2>1 DEF UpdateRefusal
  <2> QED BY <2>1, <2>2
<1>4. ASSUME NEW allowed \in BOOLEAN, DeleteSession(w, allowed)
      PROVE  WithinEventWindow(work'[w].want, calendar[work'[w].want.event])
  <2>1. work'[w].want = [work[w].seen EXCEPT !.status = "cancelled"]
    BY <1>2, <1>4 DEF DeleteSession
  <2>2. work[w].seen \in Slot /\ WithinEventWindow(work[w].seen, calendar[work[w].seen.event])
    BY <1>1 DEF SessionsFit, LoadedWork
  <2>3. /\ work'[w].want.event = work[w].seen.event
        /\ work'[w].want.start = work[w].seen.start /\ work'[w].want.end = work[w].seen.end
    BY <2>1, <2>2 DEF Slot, SessionRow
  <2> QED BY <2>2, <2>3 DEF WithinEventWindow
<1> QED BY <1>3, <1>4 DEF DecideSession

\* The row a commit writes has each of its times from a row that fits.
LEMMA CommitFits ==
  ASSUME AgendaInv, SessionsFit, NEW w \in Writers, Commit(w), OnlyExtended, TypeOK',
         work[w].target \in Sessions
  PROVE  /\ Written(w) \in Slot
         /\ WithinEventWindow(Written(w), calendar'[Written(w).event])
<1> DEFINE x == work[w].target
<1>1. Serving(w) /\ work[w].op \in SessionOps /\ TypeOK /\ SessionWork(w)
  BY CommitEffect, ServingServed DEF AgendaInv
<1>2. /\ work[w].want \in Slot
      /\ WithinEventWindow(work[w].want, calendar[work[w].want.event])
  BY <1>1 DEF SessionsFit, SessionWork
<1>3. Written(w) \in Slot /\ WithinEventWindow(Written(w), calendar[Written(w).event])
  <2>1. CASE work[w].op = "create_session"
    BY <1>1, <1>2, <2>1, WrittenSession
  <2>2. CASE work[w].op # "create_session"
    <3>1. sessions[x] \in Slot /\ sessions[x].event = work[w].want.event
      BY <1>1, <2>2 DEF SessionWork
    <3>2. WithinEventWindow(sessions[x], calendar[sessions[x].event])
      BY <3>1, AgendaAssumption DEF SessionsFit
    <3>3. /\ Written(w) \in Slot /\ Written(w).event = work[w].want.event
          /\ Written(w).start \in {sessions[x].start, work[w].want.start}
          /\ Written(w).end \in {sessions[x].end, work[w].want.end}
      BY <1>1, <2>2, WrittenSession
    <3> QED BY <1>2, <3>1, <3>2, <3>3 DEF WithinEventWindow
  <2> QED BY <2>1, <2>2
<1> QED BY <1>1, <1>3, ExtendedFits

\* Every step that takes no days away keeps the sessions between the dates.
LEMMA StepFits ==
  ASSUME AgendaInv, AgendaInv', SessionsFit, [Next]_vars, [OnlyExtended]_vars
  PROVE  SessionsFit'
<1>1. TypeOK /\ TypeOK'
  BY DEF AgendaInv
<1>2. CASE UNCHANGED vars
  BY <1>2 DEF vars, SessionsFit, Serving, At, WithinEventWindow
<1>3. ASSUME NEW w \in Writers, Commit(w), OnlyExtended PROVE SessionsFit'
  <2> DEFINE x == work[w].target
             writes == work[w].want # work[w].seen
  <2>1. /\ \A s \in Sessions : sessions'[s] = IF writes /\ x = s THEN Written(w) ELSE sessions[s]
        /\ work' = [work EXCEPT ![w] = Idle]
    BY <1>3, CommitEffect
  <2>2. ASSUME NEW s \in Sessions, sessions'[s] # NoSession
        PROVE  WithinEventWindow(sessions'[s], calendar'[sessions'[s].event])
    <3>1. CASE writes /\ x = s
      BY <1>1, <1>3, <2>1, <3>1, CommitFits
    <3>2. CASE ~(writes /\ x = s)
      <4>1. sessions'[s] = sessions[s] /\ sessions[s] \in Slot
        BY <1>1, <2>1, <2>2, <3>2 DEF TypeOK
      <4>2. WithinEventWindow(sessions[s], calendar[sessions[s].event])
        BY <2>2, <4>1 DEF SessionsFit
      <4> QED BY <1>1, <1>3, <4>1, <4>2, ExtendedFits
    <3> QED BY <3>1, <3>2
  <2>3. \A v \in Writers : Serving(v)' \/ At(v, "loaded")' => v # w /\ work'[v] = work[v]
    BY <1>1, <2>1 DEF TypeOK, Serving, At, Idle
  <2>4. ASSUME NEW v \in Writers, Serving(v)', work'[v].op \in SessionOps
        PROVE  WithinEventWindow(work'[v].want, calendar'[work'[v].want.event])
    <3>1. Serving(v) /\ work'[v] = work[v] /\ SessionWork(v)
      BY <2>3, <2>4, ServingServed DEF Serving
    <3>2. work[v].want \in Slot /\ WithinEventWindow(work[v].want, calendar[work[v].want.event])
      BY <2>4, <3>1 DEF SessionsFit, SessionWork
    <3> QED BY <1>1, <1>3, <3>1, <3>2, ExtendedFits
  <2>5. ASSUME NEW v \in Writers, At(v, "loaded")'
        PROVE  WithinEventWindow(work'[v].seen, calendar'[work'[v].seen.event])
    <3>1. At(v, "loaded") /\ work'[v] = work[v] /\ LoadedWork(v)
      BY <2>3, <2>5, ServingServed DEF At
    <3>2. work[v].seen \in Slot /\ WithinEventWindow(work[v].seen, calendar[work[v].seen.event])
      BY <3>1 DEF SessionsFit, LoadedWork
    <3> QED BY <1>1, <1>3, <3>1, <3>2, ExtendedFits
  <2> QED BY <2>2, <2>4, <2>5 DEF SessionsFit, WithinEventWindow
<1>4. ASSUME NEW w \in Writers, Before(w) \/ Rollback(w)
      PROVE  SessionsFit'
  <2>1. /\ UNCHANGED <<calendar, sessions>>
        /\ \A v \in Writers \ {w} : work'[v] = work[v]
        /\ Begins(w) \/ DecideSession(w) \/ ~UnderWay(w)' \/ (GoesOn(w) /\ Serving(w)')
    BY <1>4, StepShape
  <2>2. ASSUME NEW v \in Writers
        PROVE  /\ Serving(v)' /\ work'[v].op \in SessionOps =>
                    WithinEventWindow(work'[v].want, calendar[work'[v].want.event])
               /\ At(v, "loaded")' =>
                    WithinEventWindow(work'[v].seen, calendar[work'[v].seen.event])
    <3>1. CASE v # w
      <4>1. work'[v] = work[v]
        BY <2>1, <3>1
      <4> QED BY <4>1 DEF SessionsFit, Serving, At
    <3>2. CASE v = w /\ Begins(w)
      BY <3>2, BeginFits
    <3>3. CASE v = w /\ DecideSession(w)
      <4>1. ~At(w, "loaded")'
        BY <3>3, DecideShape DEF Serving, At
      <4> QED BY <3>3, <4>1, DecideFits
    <3>4. CASE v = w /\ ~UnderWay(w)'
      BY <3>4 DEF UnderWay, Serving, At
    <3>5. CASE v = w /\ GoesOn(w) /\ Serving(w)'
      BY <3>5 DEF GoesOn, SessionsFit, Serving, At
    <3> QED BY <2>1, <3>1, <3>2, <3>3, <3>4, <3>5
  <2> QED BY <2>1, <2>2 DEF SessionsFit, WithinEventWindow
<1>5. OnlyExtended \/ UNCHANGED vars
  OBVIOUS
<1> QED BY <1>2, <1>3, <1>4, <1>5, NextCases

\* Every live session lies between the dates of its event (is_within_event_window).
SessionsInWindow == \A s \in Sessions : InWindow(s)

\* As long as no commit takes days away from an event, every live session lies between
\* the dates of its event, though an UPDATE may merge the times two requests chose and
\* whoever else edits the agenda: of all writes only update_event can break the rule.
THEOREM ExtensionsKeepSessions ==
  Spec /\ [][OnlyExtended]_vars => []SessionsInWindow
<1>1. Init => SessionsFit
  BY DEF Init, SessionsFit, Serving, At, Idle
<1>2. AgendaInv /\ AgendaInv' /\ SessionsFit /\ [Next]_vars /\ [OnlyExtended]_vars => SessionsFit'
  BY StepFits
<1>3. SessionsFit => SessionsInWindow
  BY DEF SessionsFit, SessionsInWindow, InWindow, Live
<1> QED BY <1>1, <1>2, <1>3, AgendaInvariant, PTL DEF Spec

-----------------------------------------------------------------------------
(* What any number of writers never do to a session. *)

\* A session that was ever committed remains a row of the same event.
SessionsStay ==
  [][\A s \in Sessions : sessions[s] # NoSession =>
       sessions'[s] # NoSession /\ sessions'[s].event = sessions[s].event]_vars

\* Neither a merge of two edits nor an INSERT that was rolled back takes a
\* committed session away or moves it to another event.
THEOREM SessionsRemain == Spec => SessionsStay
<1>1. AgendaInv /\ [Next]_vars =>
        [\A s \in Sessions : sessions[s] # NoSession =>
           sessions'[s] # NoSession /\ sessions'[s].event = sessions[s].event]_vars
  <2> SUFFICES ASSUME AgendaInv, [Next]_vars, NEW s \in Sessions, sessions[s] # NoSession,
                      sessions'[s] # sessions[s]
               PROVE  sessions'[s] # NoSession /\ sessions'[s].event = sessions[s].event
    OBVIOUS
  <2>1. PICK w \in Writers : Commit(w)
    BY StepShape, NextCases DEF vars
  <2>2. /\ Serving(w) /\ work[w].op \in SessionOps
        /\ work[w].target = s /\ sessions'[s] = Written(w)
    BY <2>1, CommitEffect
  <2>3. sessions[s].event = work[w].want.event
    BY <2>2, ServingServed DEF SessionWork
  <2> QED BY <2>2, <2>3, WrittenSession, AgendaAssumption
<1> QED BY <1>1, AgendaInvariant, PTL DEF Spec, SessionsStay

-----------------------------------------------------------------------------
(***************************************************************************)
(* Requests that nobody overtook.  What they read and checked is still so  *)
(* when they commit, whatever other events, and requests that only read,   *)
(* go on beside them.                                                      *)
(***************************************************************************)

CheckedWork(w) ==
  LET seen == work[w].seen
      want == work[w].want
  IN /\ work[w].op = "create_session" =>
          IsEventMutable(calendar[want.event]) /\ want.status = "scheduled"
     /\ work[w].op \in {"update_session", "delete_session"} =>
          /\ sessions[work[w].target] = seen
          /\ IsSessionMutable(seen)
          /\ IsEventMutable(calendar[seen.event])
          /\ CanTransitionSession(seen.status, want.status)
     /\ work[w].op = "delete_session" => want = [seen EXCEPT !.status = "cancelled"]
     /\ work[w].op \in {"create_session", "update_session"} =>
          /\ WithinEventWindow(want, calendar[want.event])
          /\ work[w].pc # "speaker" => Conflicts(w, "speaker") = {}
          /\ work[w].pc \notin {"speaker", "room"} => Conflicts(w, "room") = {}
     /\ work[w].op \notin SessionOps =>
          /\ calendar[work[w].target] = seen
          /\ IsEventMutable(seen)
          /\ CanTransition(seen.status, want.status)

PromptWork(w) == /\ Serving(w) => CheckedWork(w)
                 /\ At(w, "loaded") => sessions[work[w].target] = work[w].seen

PromptInv == \A w \in Writers \ overtaken : PromptWork(w)

\* While the tables stand still and a request rests, what it checked is so.
LEMMA RestingPrompt ==
  ASSUME NEW v \in Writers, PromptWork(v), work'[v] = work[v], UNCHANGED <<calendar, sessions>>
  PROVE  PromptWork(v)'
<1>1. (Serving(v)' <=> Serving(v)) /\ (At(v, "loaded")' <=> At(v, "loaded"))
  BY DEF Serving, At
<1>2. \A c : Conflicts(v, c)' = Conflicts(v, c)
  BY DEF Conflicts, TimesOverlap
<1>3. CheckedWork(v) => CheckedWork(v)'
  BY <1>2 DEF CheckedWork, IsEventMutable, IsSessionMutable, CanTransition,
    CanTransitionSession, WithinEventWindow
<1> QED BY <1>1, <1>3 DEF PromptWork

\* A request that begins has the stored row before it.
LEMMA BeginPrompt ==
  ASSUME AgendaInv, NEW w \in Writers, Begins(w)
  PROVE  PromptWork(w)'
<1> USE DEF IsEventMutable, IsSessionMutable, CanTransition, CanTransitionSession, WithinEventWindow
<1>1. TypeOK
  BY DEF AgendaInv
<1>2. UNCHANGED <<calendar, sessions>>
  BY StepShape DEF Before
<1>3. ASSUME NEW code, Fail(w, code) PROVE PromptWork(w)'
  BY <1>1, <1>3 DEF TypeOK, Fail, Refused, PromptWork, Serving, At
<1>4. ASSUME NEW s \in Sessions, NEW want \in Wanted, NEW allowed \in BOOLEAN,
             CreateSession(w, s, want, allowed), CreateRefusal(want, allowed) = "ok"
      PROVE  PromptWork(w)'
  <2>1. work'[w] = Begun("speaker", "create_session", s, NoSession, want)
    BY <1>1, <1>4 DEF TypeOK, CreateSession, Start
  <2>2. /\ IsEventMutable(calendar[want.event]) /\ want.status = "scheduled"
        /\ WithinEventWindow(want, calendar[want.event])
    BY <1>4 DEF CreateRefusal
  <2>3. ~At(w, "loaded")'
    BY <2>1 DEF Begun, At
  <2>4. CheckedWork(w)'
    BY <1>2, <2>1, <2>2 DEF CheckedWork, Begun, SessionOps
  <2> QED BY <2>3, <2>4 DEF PromptWork
<1>5. ASSUME NEW s \in Sessions, NEW op \in {"update_session", "delete_session"},
             LoadSession(w, op, s), sessions[s] # NoSession
      PROVE  PromptWork(w)'
  <2>1. work'[w] = Begun("loaded", op, s, sessions[s], NoSession)
    BY <1>1, <1>5 DEF TypeOK, LoadSession, Start
  <2> QED BY <1>2, <2>1 DEF Begun, Serving, At, PromptWork
<1>6. ASSUME NEW e \in Events, NEW window \in Windows, NEW status \in EventStatus,
             NEW allowed \in BOOLEAN, UpdateEvent(w, e, window, status, allowed),
             EventRefusal(e, allowed) = "ok", CanTransition(calendar[e].status, status)
      PROVE  PromptWork(w)'
  <2>1. work'[w] = Begun("staged", "update_event", e, calendar[e],
                         [status |-> status, start |-> window.start, end |-> window.end])
    BY <1>1, <1>6 DEF TypeOK, UpdateEvent, Start
  <2>2. IsEventMutable(calendar[e])
    BY <1>6 DEF EventRefusal
  <2>3. ~At(w, "loaded")'
    BY <2>1 DEF Begun, At
  <2>4. CheckedWork(w)'
    BY <1>2, <1>6, <2>1, <2>2 DEF CheckedWork, SessionOps, Begun
  <2> QED BY <2>3, <2>4 DEF PromptWork
<1>7. ASSUME NEW e \in Events, NEW allowed \in BOOLEAN, DeleteEvent(w, e, allowed),
             EventRefusal(e, allowed) = "ok"
      PROVE  PromptWork(w)'
  <2> DEFINE want == [calendar[e] EXCEPT !.status = "cancelled"]
  <2>1. work'[w] = Begun("staged", "delete_event", e, calendar[e], want)
    BY <1>1, <1>7 DEF TypeOK, DeleteEvent, Start
  <2>2. calendar[e] \in Calendar /\ IsEventMutable(calendar[e])
    BY <1>1, <1>7 DEF TypeOK, EventRefusal
  <2>3. want.status = "cancelled" /\ calendar[e].status \in {"draft", "published"}
    BY <2>2 DEF Calendar, EventStatus
  <2>4. CanTransition(calendar[e].status, want.status)
    BY <2>3 DEF AllowedStatusTransitions
  <2>5. /\ work'[w].op = "delete_event" /\ work'[w].target = e /\ work'[w].pc = "staged"
        /\ work'[w].seen = calendar[e] /\ work'[w].want = want
    BY <2>1 DEF Begun
  <2> HIDE DEF want
  <2> QED BY <1>2, <2>2, <2>4, <2>5 DEF CheckedWork, SessionOps, PromptWork, At
<1>8. CASE BeginSession(w)
  BY <1>3, <1>4, <1>5, <1>8 DEF BeginSession, CreateSession, LoadSession, Start
<1>9. CASE BeginEvent(w)
  <2>1. ASSUME NEW e \in Events, NEW window \in Windows, NEW status \in EventStatus,
               NEW allowed \in BOOLEAN, UpdateEvent(w, e, window, status, allowed)
        PROVE  PromptWork(w)'
    <3>1. CASE EventRefusal(e, allowed) = "ok" /\ CanTransition(calendar[e].status, status)
      BY <1>6, <2>1, <3>1
    <3>2. CASE ~(EventRefusal(e, allowed) = "ok" /\ CanTransition(calendar[e].status, status))
      BY <1>3, <2>1, <3>2 DEF UpdateEvent, Start
    <3> QED BY <3>1, <3>2
  <2>2. ASSUME NEW e \in Events, NEW allowed \in BOOLEAN, DeleteEvent(w, e, allowed)
        PROVE  PromptWork(w)'
    BY <1>3, <1>7, <2>2 DEF DeleteEvent, Start
  <2> QED BY <1>9, <2>1, <2>2 DEF BeginEvent
<1> QED BY <1>8, <1>9 DEF Begins

\* With a row that is still the one it loaded, a request decides by the rules.
LEMMA DecidePrompt ==
  ASSUME AgendaInv, NEW w \in Writers, PromptWork(w), DecideSession(w)
  PROVE  PromptWork(w)'
<1> USE DEF IsEventMutable, IsSessionMutable, CanTransition, CanTransitionSession, WithinEventWindow
<1> DEFINE row == work[w].seen
<1>1. /\ TypeOK /\ At(w, "loaded") /\ LoadedWork(w) /\ work[w] \in Served
      /\ sessions[work[w].target] = row
      /\ UNCHANGED <<calendar, sessions>>
  BY DecideShape, ServingServed DEF AgendaInv, PromptWork
<1>2. ASSUME NEW code, Fail(w, code) PROVE PromptWork(w)'
  BY <1>1, <1>2 DEF TypeOK, Fail, Refused, PromptWork, Serving, At
<1>3. ASSUME NEW want, NEW next \in {"speaker", "staged"}, Decide(w, want, "ok", next)
      PROVE  /\ work'[w].op = work[w].op /\ work'[w].target = work[w].target
             /\ work'[w].seen = row /\ work'[w].want = want /\ work'[w].pc = next
             /\ ~At(w, "loaded")'
  <2>1. work' = [work EXCEPT ![w] = [work[w] EXCEPT !.pc = next, !.want = want]]
    BY <1>1, <1>3 DEF Decide, TypeOK
  <2>2. work'[w] = [work[w] EXCEPT !.pc = next, !.want = want]
    BY <1>1, <2>1 DEF TypeOK
  <2> QED BY <1>1, <2>2 DEF Served, At
<1>4. ASSUME NEW want \in Wanted, NEW slotsFit \in BOOLEAN, NEW allowed \in BOOLEAN,
             UpdateSession(w, want, slotsFit, allowed)
      PROVE  PromptWork(w)'
  <2>1. CASE UpdateRefusal(row, want, slotsFit, allowed) = "ok"
    <3>1. /\ LoadRefusal(row, allowed) = "ok"
          /\ CanTransitionSession(row.status, want.status)
          /\ WithinEventWindow(want, calendar[want.event])
      BY <2>1 DEF UpdateRefusal
    <3>2. IsSessionMutable(row) /\ IsEventMutable(calendar[row.event])
      BY <1>1, <3>1, LoadedFacts
    <3>3. /\ work'[w].op = "update_session" /\ work'[w].target = work[w].target
          /\ work'[w].seen = row /\ work'[w].want = want /\ work'[w].pc = "speaker"
          /\ ~At(w, "loaded")'
      BY <1>3, <1>4, <2>1 DEF UpdateSession
    <3> QED BY <1>1, <3>1, <3>2, <3>3 DEF CheckedWork, SessionOps, PromptWork
  <2>2. CASE UpdateRefusal(row, want, slotsFit, allowed) # "ok"
    BY <1>2, <1>4, <2>2 DEF UpdateSession, Decide
  <2> QED BY <2>1, <2>2
<1>5. ASSUME NEW allowed \in BOOLEAN, DeleteSession(w, allowed)
      PROVE  PromptWork(w)'
  <2> DEFINE want == [row EXCEPT !.status = "cancelled"]
  <2>1. CASE LoadRefusal(row, allowed) = "ok"
    <3>1. /\ row \in Slot /\ IsSessionMutable(row) /\ IsEventMutable(calendar[row.event])
      BY <1>1, <2>1, LoadedFacts
    <3>2. want.status = "cancelled" /\ row.status \in {"scheduled", "in_progress"}
      BY <3>1 DEF Slot, SessionRow, SessionStatus
    <3>3. CanTransitionSession(row.status, want.status)
      BY <3>2 DEF AllowedSessionTransitions
    <3>4. /\ work'[w].op = "delete_session" /\ work'[w].target = work[w].target
          /\ work'[w].seen = row /\ work'[w].want = want /\ work'[w].pc = "staged"
          /\ ~At(w, "loaded")'
      BY <1>3, <1>5, <2>1 DEF DeleteSession
    <3>5. want = [row EXCEPT !.status = "cancelled"]
      OBVIOUS
    <3> HIDE DEF want
    <3> QED BY <1>1, <3>1, <3>3, <3>4, <3>5 DEF CheckedWork, SessionOps, PromptWork
  <2>2. CASE LoadRefusal(row, allowed) # "ok"
    BY <1>2, <1>5, <2>2 DEF DeleteSession, Decide
  <2> QED BY <2>1, <2>2
<1> QED BY <1>4, <1>5 DEF DecideSession

\* Of a request that goes on, the conflicts stay what they were.
LEMMA ConflictsStay ==
  ASSUME NEW w \in Writers, GoesOn(w), UNCHANGED sessions, NEW c \in {"speaker", "room"}
  PROVE  Conflicts(w, c)' = Conflicts(w, c)
BY DEF GoesOn, Conflicts, TimesOverlap

\* A request goes on only past a query that found nothing.
LEMMA ProgressPrompt ==
  ASSUME AgendaInv, NEW w \in Writers, PromptWork(w), GoesOn(w), Serving(w)',
         FindSpeakerConflict(w) \/ FindRoomConflict(w) \/ Flush(w)
  PROVE  PromptWork(w)'
<1>1. /\ TypeOK /\ Serving(w) /\ CheckedWork(w)
      /\ UNCHANGED <<calendar, sessions>>
  BY StepShape DEF AgendaInv, GoesOn, PromptWork, Before
<1>2. \/ /\ work[w].pc = "speaker" /\ work'[w].pc = "room" /\ Conflicts(w, "speaker") = {}
      \/ /\ work[w].pc = "room" /\ work'[w].pc = "staged" /\ Conflicts(w, "room") = {}
      \/ work[w].pc = "staged"
  <2>1. CASE FindSpeakerConflict(w)
    BY <1>1, <2>1 DEF TypeOK, FindSpeakerConflict, At, Goto, Fail, Refused, Serving, Served, Idle
  <2>2. CASE FindRoomConflict(w)
    BY <1>1, <2>2 DEF TypeOK, FindRoomConflict, At, Goto, Fail, Refused, Serving, Served, Idle
  <2>3. CASE Flush(w)
    BY <2>3 DEF Flush, At
  <2> QED BY <2>1, <2>2, <2>3
<1>3. \A c \in {"speaker", "room"} : Conflicts(w, c)' = Conflicts(w, c)
  BY <1>1, ConflictsStay
<1>4. work[w].op \in {"create_session", "update_session"} =>
        /\ work'[w].pc # "speaker" => Conflicts(w, "speaker") = {}
        /\ work'[w].pc \notin {"speaker", "room"} => Conflicts(w, "room") = {}
  BY <1>1, <1>2 DEF CheckedWork
<1>5. CheckedWork(w)'
  BY <1>1, <1>3, <1>4 DEF GoesOn, CheckedWork, IsEventMutable, IsSessionMutable,
    CanTransition, CanTransitionSession, WithinEventWindow
<1> QED BY <1>5 DEF PromptWork, Serving, At

\* What a request is about.
LEMMA AboutFacts ==
  ASSUME AgendaInv, NEW w \in Writers, UnderWay(w)
  PROVE  /\ About(w) \in Events
         /\ work[w].op \in SessionOps /\ Serving(w) => About(w) = work[w].want.event
         /\ work[w].op \in {"update_session", "delete_session"} =>
              /\ About(w) = work[w].seen.event
              /\ sessions[work[w].target] \in Slot
              /\ sessions[work[w].target].event = About(w)
         /\ work[w].op \notin SessionOps => About(w) = work[w].target
<1>1. \/ Serving(w) /\ SessionWork(w) /\ EventWork(w) /\ work[w] \in Served
      \/ At(w, "loaded") /\ LoadedWork(w) /\ ~Serving(w)
  BY ServingServed DEF At, Serving
<1>2. CASE work[w].op = "create_session"
  <2>1. Serving(w) /\ work[w].want \in Slot
    BY <1>1, <1>2 DEF LoadedWork, SessionWork, SessionOps
  <2> QED BY <1>2, <2>1 DEF About, Slot, SessionRow, SessionOps
<1>3. CASE work[w].op \in {"update_session", "delete_session"}
  <2>1. /\ work[w].seen \in Slot /\ sessions[work[w].target] \in Slot
        /\ sessions[work[w].target].event = work[w].seen.event
        /\ Serving(w) => work[w].want.event = work[w].seen.event
    BY <1>1, <1>3 DEF LoadedWork, SessionWork, SessionOps
  <2> QED BY <1>3, <2>1 DEF About, Slot, SessionRow, SessionOps
<1>4. CASE work[w].op \notin SessionOps
  <2>1. work[w].target \in Events
    BY <1>1, <1>4 DEF LoadedWork, EventWork, SessionOps
  <2> QED BY <1>4, <2>1 DEF About, SessionOps
<1> QED BY <1>2, <1>3, <1>4 DEF SessionOps

\* A prompt request writes the row it checked.
LEMMA WrittenPrompt ==
  ASSUME AgendaInv, NEW w \in Writers, PromptWork(w), Serving(w)
  PROVE  Written(w) = work[w].want
<1>1. SessionWork(w) /\ EventWork(w) /\ CheckedWork(w)
  BY ServingServed DEF PromptWork
<1>2. CASE work[w].op = "create_session"
  BY <1>2, WrittenSession DEF SessionOps
<1>3. CASE work[w].op \in SessionOps \ {"create_session"}
  <2>1. /\ sessions[work[w].target] = work[w].seen
        /\ work[w].seen \in Slot /\ work[w].want \in Slot
    BY <1>1, <1>3 DEF SessionWork, CheckedWork, SessionOps
  <2> QED BY <1>3, <2>1, WrittenSession, MergedUnchanged
<1>4. CASE work[w].op \notin SessionOps
  <2>1. /\ calendar[work[w].target] = work[w].seen
        /\ work[w].seen \in Calendar /\ work[w].want \in Calendar
    BY <1>1, <1>4 DEF EventWork, CheckedWork
  <2> QED BY <1>4, <2>1, WrittenEvent, MergedUnchanged
<1> QED BY <1>2, <1>3, <1>4

\* A commit changes the event it is about and sessions of that event only.
LEMMA CommitOfEvent ==
  ASSUME AgendaInv, NEW w \in Writers, Commit(w)
  PROVE  /\ \A e \in Events \ {About(w)} : calendar'[e] = calendar[e]
         /\ \A s \in Sessions : sessions'[s] # sessions[s] =>
              /\ sessions'[s] # NoSession /\ sessions'[s].event = About(w)
              /\ sessions[s] # NoSession => sessions[s].event = About(w)
<1> DEFINE x == work[w].target
           writes == work[w].want # work[w].seen
<1>1. /\ Serving(w) /\ UnderWay(w) /\ SessionWork(w)
      /\ x \in Sessions <=> work[w].op \in SessionOps
      /\ x \in Events <=> work[w].op \notin SessionOps
      /\ \A s \in Sessions : sessions'[s] = IF writes /\ x = s THEN Written(w) ELSE sessions[s]
      /\ \A e \in Events : calendar'[e] = IF writes /\ x = e THEN Written(w) ELSE calendar[e]
  BY CommitEffect, ServingServed
<1>2. \A e \in Events \ {About(w)} : calendar'[e] = calendar[e]
  BY <1>1, AboutFacts
<1>3. ASSUME NEW s \in Sessions, sessions'[s] # sessions[s]
      PROVE  /\ sessions'[s] # NoSession /\ sessions'[s].event = About(w)
             /\ sessions[s] # NoSession => sessions[s].event = About(w)
  <2>1. x = s /\ sessions'[s] = Written(w) /\ work[w].op \in SessionOps
    BY <1>1, <1>3
  <2>2. Written(w) \in Slot /\ Written(w).event = About(w)
    BY <1>1, <2>1, WrittenSession, AboutFacts
  <2>3. sessions[s] # NoSession => sessions[s].event = About(w)
    BY <1>1, <2>1, AboutFacts DEF SessionWork, SessionOps
  <2> QED BY <2>1, <2>2, <2>3, AgendaAssumption
<1> QED BY <1>2, <1>3

\* What a request about another event has read and checked stays as it is.
LEMMA OthersPrompt ==
  ASSUME AgendaInv, NEW w \in Writers, Commit(w),
         NEW v \in Writers, v # w, PromptWork(v), work'[v] = work[v],
         UnderWay(v), About(v) # About(w)
  PROVE  PromptWork(v)'
<1> DEFINE x == work[v].target
           seen == work[v].seen
           want == work[v].want
<1>1. /\ \A e \in Events \ {About(w)} : calendar'[e] = calendar[e]
      /\ \A s \in Sessions : sessions'[s] # sessions[s] =>
           /\ sessions'[s] # NoSession /\ sessions'[s].event = About(w)
           /\ sessions[s] # NoSession => sessions[s].event = About(w)
  BY CommitOfEvent
<1>2. /\ Serving(v)' <=> Serving(v)
      /\ At(v, "loaded")' <=> At(v, "loaded")
  BY DEF Serving, At
<1>3. work[v].op \in {"update_session", "delete_session"} /\ x \in Sessions =>
        sessions'[x] = sessions[x]
  BY <1>1, AboutFacts, AgendaAssumption
<1>4. ASSUME At(v, "loaded")
      PROVE  sessions'[x] = seen
  BY <1>3, <1>4, ServingServed DEF PromptWork, LoadedWork
<1>5. ASSUME Serving(v)
      PROVE  CheckedWork(v)'
  <2>1. SessionWork(v) /\ EventWork(v) /\ CheckedWork(v)
    BY <1>5, ServingServed DEF PromptWork
  <2>2. CASE work[v].op \in SessionOps
    <3>1. /\ want \in Slot /\ want.event = About(v) /\ x \in Sessions
          /\ calendar'[want.event] = calendar[want.event]
      BY <1>1, <1>5, <2>1, <2>2, AboutFacts DEF SessionWork
    <3>2. \A c \in {"speaker", "room"} : Conflicts(v, c) = {} => Conflicts(v, c)' = {}
      <4> SUFFICES ASSUME NEW c \in {"speaker", "room"}, Conflicts(v, c) = {},
                          NEW s \in Conflicts(v, c)'
                   PROVE  FALSE
        OBVIOUS
      <4>1. /\ s \in Sessions \ {x} /\ sessions'[s] # NoSession
            /\ sessions'[s].event = want.event /\ sessions'[s].status # "cancelled"
            /\ sessions'[s][c] = want[c] /\ TimesOverlap(sessions'[s], want)
        BY DEF Conflicts, TimesOverlap
      <4>2. sessions'[s] = sessions[s]
        BY <1>1, <3>1, <4>1
      <4>3. s \in Conflicts(v, c)
        BY <4>1, <4>2 DEF Conflicts
      <4> QED BY <4>3
    <3>3. work[v].op \in {"update_session", "delete_session"} =>
            sessions'[x] = sessions[x] /\ seen.event = want.event
      BY <1>3, <1>5, <3>1, AboutFacts
    <3> QED BY <2>1, <2>2, <3>1, <3>2, <3>3 DEF CheckedWork, IsEventMutable, IsSessionMutable,
      CanTransition, CanTransitionSession, WithinEventWindow
  <2>3. CASE work[v].op \notin SessionOps
    <3>1. x \in Events /\ calendar'[x] = calendar[x]
      BY <1>1, <2>1, <2>3, AboutFacts DEF EventWork
    <3> QED BY <2>1, <2>3, <3>1 DEF CheckedWork, SessionOps, IsEventMutable, CanTransition
  <2> QED BY <2>2, <2>3
<1> QED BY <1>2, <1>4, <1>5 DEF PromptWork

\* Every step keeps what the requests nobody overtook have checked.
LEMMA StepPrompt ==
  ASSUME AgendaInv, PromptInv, [Next]_vars
  PROVE  PromptInv'
<1>1. TypeOK
  BY DEF AgendaInv
<1>2. CASE UNCHANGED vars
  BY <1>2, RestingPrompt DEF vars, PromptInv
<1>3. ASSUME NEW w \in Writers, Commit(w), NEW v \in Writers \ overtaken'
      PROVE  PromptWork(v)'
  <2> DEFINE writes == work[w].want # work[w].seen
  <2>1. /\ work' = [work EXCEPT ![w] = Idle]
        /\ overtaken' = (IF writes THEN overtaken \cup Passed(w) ELSE overtaken) \ {w}
        /\ ~writes => UNCHANGED <<calendar, sessions>>
    BY <1>3, CommitEffect DEF Commit
  <2>2. CASE v = w
    BY <1>1, <2>1, <2>2 DEF TypeOK, PromptWork, Serving, At, Idle
  <2>3. CASE v # w
    <3>1. work'[v] = work[v] /\ PromptWork(v)
      BY <1>1, <1>3, <2>1, <2>3 DEF TypeOK, PromptInv
    <3>2. CASE ~writes
      BY <2>1, <3>1, <3>2, RestingPrompt
    <3>3. CASE writes /\ UnderWay(v)
      <4>1. About(v) # About(w)
        BY <1>3, <2>1, <2>3, <3>3 DEF Passed
      <4> QED BY <1>3, <2>3, <3>1, <3>3, <4>1, OthersPrompt
    <3>4. CASE ~UnderWay(v)
      BY <3>1, <3>4 DEF UnderWay, PromptWork, Serving, At
    <3> QED BY <3>2, <3>3, <3>4
  <2> QED BY <2>2, <2>3
<1>4. ASSUME NEW w \in Writers, Before(w) \/ Rollback(w), NEW v \in Writers \ overtaken'
      PROVE  PromptWork(v)'
  <2>1. /\ UNCHANGED <<calendar, sessions>>
        /\ overtaken' = IF Rollback(w) THEN overtaken \ {w} ELSE overtaken
        /\ \A u \in Writers \ {w} : work'[u] = work[u]
        /\ Begins(w) \/ DecideSession(w) \/ ~UnderWay(w)' \/ (GoesOn(w) /\ Serving(w)')
    BY <1>4, StepShape
  <2>2. CASE v # w
    <3>1. v \in Writers \ overtaken
      BY <1>4, <2>1, <2>2
    <3> QED BY <2>1, <2>2, <3>1, RestingPrompt DEF PromptInv
  <2>3. CASE v = w /\ ~UnderWay(w)'
    BY <2>3 DEF UnderWay, PromptWork, Serving, At
  <2>4. CASE v = w /\ UnderWay(w)'
    <3>1. ~Rollback(w)
      BY <1>1, <2>4 DEF TypeOK, Rollback, UnderWay, Idle
    <3>2. PromptWork(w)
      BY <1>4, <2>1, <2>4, <3>1 DEF PromptInv
    <3>3. CASE Begins(w)
      BY <2>4, <3>3, BeginPrompt
    <3>4. CASE DecideSession(w)
      BY <2>4, <3>2, <3>4, DecidePrompt
    <3>5. CASE ~Begins(w) /\ ~DecideSession(w)
      <4>1. /\ GoesOn(w) /\ Serving(w)'
            /\ FindSpeakerConflict(w) \/ FindRoomConflict(w) \/ Flush(w)
        BY <1>4, <2>1, <2>4, <3>1, <3>5 DEF Before
      <4> QED BY <2>4, <3>2, <4>1, ProgressPrompt
    <3> QED BY <3>3, <3>4, <3>5
  <2> QED BY <2>2, <2>3, <2>4
<1> QED BY <1>2, <1>3, <1>4, NextCases DEF PromptInv

\* What a request has read and checked is so until somebody overtakes it.
THEOREM PromptInvariant == Spec => []PromptInv
<1>1. Init => PromptInv
  BY DEF Init, PromptInv, PromptWork, Serving, At, Idle
<1>2. AgendaInv /\ PromptInv /\ [Next]_vars => PromptInv'
  BY StepPrompt
<1> QED BY <1>1, <1>2, AgendaInvariant, PTL DEF Spec

-----------------------------------------------------------------------------
(* Whatever breaks a rule of the agenda was overtaken. *)

\* What the overlap query does not find shares no hour with the row wanted.
LEMMA ApartShareNoHour ==
  ASSUME NEW a \in Slot, NEW b \in Slot, ~TimesOverlap(a, b)
  PROVE  Hours(a) \cap Hours(b) = {}
<1>1. /\ a.start \in Int /\ a.end \in Int
      /\ b.start \in Int /\ b.end \in Int
  BY AgendaAssumption DEF Slot, SessionRow, Times
<1>2. a.end <= b.start \/ b.end <= a.start
  BY <1>1 DEF TimesOverlap
<1> QED BY <1>1, <1>2 DEF Hours

\* A prompt commit of a session: what it leaves behind, and what it knew.
LEMMA PromptCommit ==
  ASSUME AgendaInv, PromptInv, NEW w \in Writers \ overtaken, Commit(w),
         NEW s \in Sessions, sessions'[s] # sessions[s]
  PROVE  /\ work[w].target = s /\ work[w].op \in SessionOps
         /\ At(w, "flushed") /\ Serving(w) /\ SessionWork(w) /\ CheckedWork(w)
         /\ sessions'[s] = work[w].want
         /\ \A t \in Sessions \ {s} : sessions'[t] = sessions[t]
         /\ calendar' = calendar
<1>1. /\ TypeOK /\ At(w, "flushed") /\ PromptWork(w) /\ Serving(w)
  BY CommitEffect DEF AgendaInv, Commit, PromptInv
<1>2. /\ work[w].target = s /\ work[w].op \in SessionOps
      /\ sessions'[s] = Written(w)
      /\ \A t \in Sessions \ {s} : sessions'[t] = sessions[t]
  BY CommitEffect
<1>3. calendar' = calendar
  BY <1>2, AgendaAssumption DEF Commit
<1> QED BY <1>1, <1>2, <1>3, WrittenPrompt, ServingServed DEF PromptWork

\* Only a commit changes a session.
LEMMA ChangedByCommit ==
  ASSUME AgendaInv, [Next]_vars, NEW s \in Sessions,
         sessions'[s] # sessions[s] \/ calendar' # calendar
  PROVE  \E w \in Writers : Commit(w)
BY StepShape, NextCases DEF vars

\* Beside the session a prompt commit writes there is no other in its place.
LEMMA PromptPlace ==
  ASSUME AgendaInv, PromptInv, NEW w \in Writers \ overtaken, Commit(w),
         NEW s \in Sessions, sessions'[s] # sessions[s], NEW t \in Sessions, t # s
  PROVE  ~Clash(s, t)' /\ ~Clash(t, s)'
<1> DEFINE want == work[w].want
<1>1. /\ work[w].target = s /\ work[w].op \in SessionOps
      /\ At(w, "flushed") /\ SessionWork(w) /\ CheckedWork(w)
      /\ sessions'[s] = want /\ sessions'[t] = sessions[t]
      /\ want \in Slot
  BY PromptCommit DEF SessionWork
<1>2. CASE work[w].op = "delete_session"
  <2>1. want.status = "cancelled"
    <3>1. work[w].seen \in Slot
      BY <1>1, <1>2 DEF SessionWork
    <3> QED BY <1>1, <1>2, <3>1 DEF CheckedWork, Slot, SessionRow
  <2> QED BY <1>1, <2>1 DEF Clash, Live
<1>3. CASE work[w].op \in {"create_session", "update_session"}
  <2>1. Conflicts(w, "speaker") = {} /\ Conflicts(w, "room") = {}
    BY <1>1, <1>3 DEF CheckedWork, At
  <2>2. SUFFICES ASSUME Live(t), sessions[t].event = want.event,
                        \/ sessions[t].speaker = want.speaker
                        \/ sessions[t].room = want.room
                 PROVE  Hours(sessions[t]) \cap Hours(want) = {}
    BY <1>1 DEF Clash, Live, Hours
  <2>3. sessions[t] \in Slot
    BY <2>2 DEF AgendaInv, TypeOK, Live
  <2>4. ~TimesOverlap(sessions[t], want)
    BY <1>1, <2>1, <2>2 DEF Conflicts, Live
  <2> QED BY <1>1, <2>3, <2>4, ApartShareNoHour
<1> QED BY <1>1, <1>2, <1>3 DEF SessionOps

\* A speaker or a room comes to be booked twice only by the commit of a request
\* that another write to the event overtook between its checks and its commit:
\* the conflict queries let nothing else through, however many write at once.
THEOREM BookedTwiceOnlyLate == Spec => ClashesComeLate
<1>1. AgendaInv /\ PromptInv /\ [Next]_vars =>
        [\A s, t \in Sessions : s # t /\ Clash(s, t)' => Clash(s, t) \/ OvertakenCommit]_vars
  <2> SUFFICES ASSUME AgendaInv, PromptInv, [Next]_vars,
                      NEW s \in Sessions, NEW t \in Sessions, s # t,
                      Clash(s, t)', ~Clash(s, t)
               PROVE  OvertakenCommit
    OBVIOUS
  <2>1. sessions'[s] # sessions[s] \/ sessions'[t] # sessions[t]
    BY DEF Clash, Live, Hours
  <2>2. PICK w \in Writers : Commit(w)
    BY <2>1, ChangedByCommit
  <2>3. w \in overtaken
    BY <2>1, <2>2, PromptPlace
  <2> QED BY <2>2, <2>3 DEF OvertakenCommit
<1> QED BY <1>1, AgendaInvariant, PromptInvariant, PTL DEF Spec, ClashesComeLate

\* Dates that are not taken away still hold what they held.
LEMMA WiderStillHolds ==
  ASSUME NEW a \in Slot, NEW b \in Calendar, NEW c \in Calendar,
         WithinEventWindow(a, b), ~(b.start < c.start), ~(c.end < b.end)
  PROVE  WithinEventWindow(a, c)
BY AgendaAssumption DEF WithinEventWindow, Slot, SessionRow, Calendar, Times

\* A session comes to lie outside the dates of its event only by the commit of an
\* event write that takes days away, or of a request that was overtaken.
THEOREM OutOfDatesOnlyLate == Spec => WindowsLostLate
<1>1. AgendaInv /\ AgendaInv' /\ PromptInv /\ [Next]_vars =>
        [\A s \in Sessions : InWindow(s) =>
           InWindow(s)' \/ OvertakenCommit \/ \E w \in Writers : TakesDaysAway(w)]_vars
  <2> SUFFICES ASSUME AgendaInv, AgendaInv', PromptInv, [Next]_vars,
                      NEW s \in Sessions, InWindow(s), ~InWindow(s)',
                      ~\E w \in Writers : TakesDaysAway(w)
               PROVE  OvertakenCommit
    OBVIOUS
  <2>1. PICK w \in Writers : Commit(w)
    BY ChangedByCommit DEF InWindow, Live, WithinEventWindow
  <2>2. CASE sessions'[s] = sessions[s]
    <3> DEFINE e == sessions[s].event
    <3>1. /\ Live(s) /\ WithinEventWindow(sessions[s], calendar[e])
          /\ ~WithinEventWindow(sessions[s], calendar'[e])
      BY <2>2 DEF InWindow, Live, WithinEventWindow
    <3>2. sessions[s] \in Slot /\ e \in Events
      BY <3>1 DEF AgendaInv, TypeOK, Live, Slot, SessionRow
    <3>3. calendar[e] \in Calendar /\ calendar'[e] \in Calendar
      BY <3>2 DEF AgendaInv, TypeOK
    <3>4. calendar[e].start < calendar'[e].start \/ calendar'[e].end < calendar[e].end
      BY <3>1, <3>2, <3>3, WiderStillHolds
    <3>5. TakesDaysAway(w)
      BY <2>1, <3>2, <3>4 DEF TakesDaysAway
    <3> QED BY <3>5
  <2>3. CASE sessions'[s] # sessions[s] /\ w \notin overtaken
    <3>1. /\ work[w].op \in SessionOps /\ SessionWork(w) /\ CheckedWork(w)
          /\ sessions'[s] = work[w].want /\ calendar' = calendar
      BY <2>1, <2>3, PromptCommit
    <3>2. work[w].op # "delete_session"
      <4>1. SUFFICES ASSUME work[w].op = "delete_session" PROVE FALSE
        OBVIOUS
      <4>2. work[w].seen \in Slot /\ work[w].want = [work[w].seen EXCEPT !.status = "cancelled"]
        BY <3>1, <4>1 DEF SessionWork, CheckedWork
      <4>3. sessions'[s].status = "cancelled"
        BY <3>1, <4>2 DEF Slot, SessionRow
      <4> QED BY <4>3 DEF InWindow, Live
    <3> QED BY <3>1, <3>2 DEF SessionOps, CheckedWork, InWindow, WithinEventWindow
  <2> QED BY <2>1, <2>2, <2>3 DEF OvertakenCommit
<1> QED BY <1>1, AgendaInvariant, PromptInvariant, PTL DEF Spec, WindowsLostLate

\* The agenda of an event that is finished or cancelled changes only by the
\* commit of a request that the end of the event overtook.
THEOREM FrozenButForTheLate == Spec => FrozenUnlessOvertaken
<1>1. AgendaInv /\ PromptInv /\ [Next]_vars =>
        [\A s \in Sessions :
           /\ sessions[s] # NoSession /\ ~IsEventMutable(calendar[sessions[s].event])
           => sessions'[s] = sessions[s] \/ OvertakenCommit]_vars
  <2> SUFFICES ASSUME AgendaInv, PromptInv, [Next]_vars, NEW s \in Sessions,
                      sessions[s] # NoSession, ~IsEventMutable(calendar[sessions[s].event]),
                      sessions'[s] # sessions[s]
               PROVE  OvertakenCommit
    OBVIOUS
  <2>1. PICK w \in Writers : Commit(w)
    BY ChangedByCommit
  <2>2. ASSUME w \notin overtaken PROVE FALSE
    <3>1. /\ work[w].target = s /\ work[w].op \in SessionOps
          /\ SessionWork(w) /\ CheckedWork(w)
      BY <2>1, <2>2, PromptCommit
    <3>2. work[w].op \in {"update_session", "delete_session"}
      BY <3>1 DEF SessionWork, SessionOps
    <3> QED BY <3>1, <3>2 DEF CheckedWork
  <2> QED BY <2>1, <2>2 DEF OvertakenCommit
<1> QED BY <1>1, AgendaInvariant, PromptInvariant, PTL DEF Spec, FrozenUnlessOvertaken

-----------------------------------------------------------------------------
(* Requests, queries, locks and transactions together implement Timetable. *)

\* The timetable and the requests mean the same rows and the same rules.
LEMMA TimetableRules ==
  /\ Timetable!Place = Slot /\ Timetable!Dates = Calendar
  /\ \A row : /\ Timetable!IsEventMutable(row) <=> IsEventMutable(row)
              /\ Timetable!IsSessionMutable(row) <=> IsSessionMutable(row)
              /\ Timetable!Hours(row) = Hours(row)
  /\ \A a, b : /\ Timetable!CanTransition(a, b) <=> CanTransition(a, b)
               /\ Timetable!CanTransitionSession(a, b) <=> CanTransitionSession(a, b)
               /\ Timetable!WithinEventWindow(a, b) <=> WithinEventWindow(a, b)
BY DEF Timetable!Place, Timetable!Dates, Timetable!SessionRow, Timetable!SessionStatus,
       Timetable!EventStatus, Slot, Calendar, SessionRow, SessionStatus, EventStatus,
       Timetable!IsEventMutable, Timetable!IsSessionMutable, Timetable!CanTransition,
       Timetable!CanTransitionSession, Timetable!WithinEventWindow,
       Timetable!AllowedStatusTransitions, Timetable!AllowedSessionTransitions,
       AllowedStatusTransitions, AllowedSessionTransitions, Timetable!Hours, Hours,
       IsEventMutable, IsSessionMutable, CanTransition, CanTransitionSession,
       WithinEventWindow

\* A request under way is about one of the events.
LEMMA AboutAnEvent == AgendaInv => \A w \in Writers : UnderWay(w) => About(w) \in Events
BY AboutFacts

\* A request that begins opens the file of its event.
LEMMA DeskOpens ==
  ASSUME NEW w \in Writers, \A v \in Writers \ {w} : work'[v] = work[v],
         ~UnderWay(w), UnderWay(w)'
  PROVE  /\ Opened' = Opened \cup {<<w, About(w)'>>}
         /\ \A e : <<w, e>> \notin Opened
<1>1. \A v \in Writers \ {w} : (UnderWay(v)' <=> UnderWay(v)) /\ About(v)' = About(v)
  BY DEF UnderWay, About
<1>2. Opened' = {<<v, About(v)'>> : v \in {u \in Writers : UnderWay(u)'}}
  BY DEF Opened
<1> QED BY <1>1, <1>2 DEF Opened

\* One that ends closes it.
LEMMA DeskCloses ==
  ASSUME NEW w \in Writers, \A v \in Writers \ {w} : work'[v] = work[v],
         UnderWay(w), ~UnderWay(w)'
  PROVE  /\ Opened' = Opened \ {<<w, About(w)>>}
         /\ <<w, About(w)>> \in Opened
<1>1. \A v \in Writers \ {w} : (UnderWay(v)' <=> UnderWay(v)) /\ About(v)' = About(v)
  BY DEF UnderWay, About
<1>2. Opened' = {<<v, About(v)'>> : v \in {u \in Writers : UnderWay(u)'}}
  BY DEF Opened
<1> QED BY <1>1, <1>2 DEF Opened

\* Between the two the file stays open, or closed.
LEMMA DeskStays ==
  ASSUME NEW w \in Writers, \A v \in Writers \ {w} : work'[v] = work[v],
         UnderWay(w)' <=> UnderWay(w), UnderWay(w) => About(w)' = About(w)
  PROVE  Opened' = Opened
<1>1. \A v \in Writers : /\ UnderWay(v)' <=> UnderWay(v)
                         /\ UnderWay(v) => About(v)' = About(v)
  BY DEF UnderWay, About
<1>2. Opened' = {<<v, About(v)'>> : v \in {u \in Writers : UnderWay(u)'}}
  BY DEF Opened
<1> QED BY <1>1, <1>2 DEF Opened

\* Without a commit nobody comes to be late.
LEMMA LateKept ==
  ASSUME TypeOK, NEW w \in Writers, \A v \in Writers \ {w} : work'[v] = work[v],
         overtaken' \in {overtaken, overtaken \ {w}}
  PROVE  /\ ~UnderWay(w)' => Late' = Late \ {w}
         /\ ~UnderWay(w) /\ (~UnderWay(w)' \/ At(w, "idle")) => Late' = Late
         /\ (UnderWay(w)' <=> UnderWay(w)) /\ overtaken' = overtaken => Late' = Late
<1>1. \A v \in Writers \ {w} : UnderWay(v)' <=> UnderWay(v)
  BY DEF UnderWay
<1>2. /\ Late' = {v \in overtaken' : UnderWay(v)'}
      /\ overtaken \subseteq Writers /\ (At(w, "idle") => w \notin overtaken)
  BY DEF Late, TypeOK, At
<1> QED BY <1>1, <1>2 DEF Late

\* The place a prompt request writes is free of the others of its event.
LEMMA NoConflictsFree ==
  ASSUME AgendaInv, NEW w \in Writers, work[w].want \in Slot,
         Conflicts(w, "speaker") = {}, Conflicts(w, "room") = {}
  PROVE  Timetable!Free(work[w].target, work[w].want)
<1> DEFINE want == work[w].want
<1>1. SUFFICES ASSUME NEW t \in Sessions \ {work[w].target}, sessions[t] # NoSession,
                      sessions[t].event = want.event, sessions[t].status # "cancelled",
                      sessions[t].speaker = want.speaker \/ sessions[t].room = want.room
               PROVE  Hours(sessions[t]) \cap Hours(want) = {}
  BY TimetableRules DEF Timetable!Free
<1>2. ~TimesOverlap(sessions[t], want)
  BY <1>1 DEF Conflicts
<1>3. sessions[t] \in Slot
  BY <1>1 DEF AgendaInv, TypeOK
<1> QED BY <1>2, <1>3, ApartShareNoHour

\* A prompt commit on a session is a step by the rules.
LEMMA PromptSessionByTheRules ==
  ASSUME AgendaInv, PromptInv, NEW w \in Writers \ overtaken, Commit(w),
         work[w].op \in SessionOps, work[w].want # work[w].seen
  PROVE  Timetable!ByTheRules(About(w))
<1> DEFINE s == work[w].target
           seen == work[w].seen
           want == work[w].want
           e == About(w)
<1>1. /\ TypeOK /\ Serving(w) /\ At(w, "flushed") /\ UnderWay(w)
      /\ SessionWork(w) /\ CheckedWork(w)
      /\ s \in Sessions /\ s \notin Events
      /\ want \in Slot /\ TimeCheck(want)
  BY CommitEffect, ServingServed, AgendaAssumption
    DEF AgendaInv, PromptInv, PromptWork, Commit, SessionWork
<1>2. /\ sessions' = [sessions EXCEPT ![s] = want]
      /\ sessions'[s] = want
      /\ UNCHANGED calendar
  BY <1>1, WrittenPrompt DEF Commit, TypeOK, PromptInv
<1>3. Timetable!OtherPlacesKept(s)
  BY <1>2 DEF Timetable!OtherPlacesKept
<1>4. want.event = e
  BY <1>1, AboutFacts
<1>5. ASSUME work[w].op \in {"create_session", "update_session"}
      PROVE  Timetable!Fits(s, want)
  <2>1. Timetable!Free(s, want)
    BY <1>1, <1>5, NoConflictsFree DEF CheckedWork, At
  <2>2. WithinEventWindow(want, calendar[want.event])
    BY <1>1, <1>5 DEF CheckedWork
  <2> QED BY <1>1, <2>1, <2>2, TimetableRules DEF Timetable!Fits, TimeCheck
<1>6. CASE work[w].op = "create_session"
  <2>1. /\ sessions[s] = NoSession
        /\ IsEventMutable(calendar[want.event]) /\ want.status = "scheduled"
    BY <1>1, <1>6 DEF SessionWork, CheckedWork
  <2>2. Timetable!Schedule(s, e)
    BY <1>1, <1>2, <1>3, <1>4, <1>5, <1>6, <2>1, TimetableRules DEF Timetable!Schedule
  <2> QED BY <1>1, <2>2 DEF Timetable!ByTheRules
<1>7. ASSUME work[w].op \in {"update_session", "delete_session"}
      PROVE  Timetable!Changeable(s, e) /\ sessions[s] = seen /\ seen \in Slot
  <2>1. /\ sessions[s] = seen /\ seen \in Slot /\ seen # NoSession
        /\ IsSessionMutable(seen) /\ IsEventMutable(calendar[seen.event])
        /\ seen.event = e
    BY <1>1, <1>7, AboutFacts, AgendaAssumption DEF SessionWork, CheckedWork
  <2> QED BY <2>1, TimetableRules DEF Timetable!Changeable
<1>8. CASE work[w].op = "update_session"
  <2>1. CanTransitionSession(sessions[s].status, want.status)
    BY <1>1, <1>7, <1>8 DEF CheckedWork
  <2>2. Timetable!Change(s, e)
    BY <1>1, <1>2, <1>3, <1>4, <1>5, <1>7, <1>8, <2>1, TimetableRules DEF Timetable!Change
  <2> QED BY <1>1, <2>2 DEF Timetable!ByTheRules
<1>9. CASE work[w].op = "delete_session"
  <2>1. want = [sessions[s] EXCEPT !.status = "cancelled"]
    BY <1>1, <1>7, <1>9 DEF CheckedWork
  <2>2. Timetable!Cancel(s, e)
    BY <1>2, <1>7, <1>9, <2>1 DEF Timetable!Cancel
  <2> QED BY <1>1, <2>2 DEF Timetable!ByTheRules
<1> QED BY <1>6, <1>8, <1>9 DEF SessionOps

\* A prompt commit on an event directs it.
LEMMA PromptEventByTheRules ==
  ASSUME AgendaInv, PromptInv, NEW w \in Writers \ overtaken, Commit(w),
         work[w].op \notin SessionOps, work[w].want # work[w].seen
  PROVE  Timetable!ByTheRules(About(w))
<1> DEFINE e == work[w].target
           want == work[w].want
<1>1. /\ TypeOK /\ Serving(w) /\ UnderWay(w) /\ EventWork(w) /\ CheckedWork(w)
      /\ e \in Events /\ e \notin Sessions
      /\ want \in Calendar
      /\ TimeCheck(Written(w)) /\ Written(w) = want
  BY CommitEffect, ServingServed, WrittenPrompt, AgendaAssumption
    DEF AgendaInv, PromptInv, PromptWork, EventWork
<1>2. /\ calendar' = [calendar EXCEPT ![e] = want]
      /\ calendar'[e] = want
      /\ UNCHANGED sessions
  BY <1>1 DEF Commit, TypeOK
<1>3. IsEventMutable(calendar[e]) /\ CanTransition(calendar[e].status, want.status)
  BY <1>1 DEF CheckedWork
<1>4. calendar' = [calendar EXCEPT ![e] = calendar'[e]] /\ want.start <= want.end
  BY <1>1, <1>2 DEF TimeCheck
<1>5. Timetable!IsEventMutable(calendar[e]) /\ want \in Timetable!Dates
      /\ Timetable!CanTransition(calendar[e].status, want.status)
  BY <1>1, <1>3, TimetableRules
<1>6. Timetable!Direct(e)
  BY <1>2, <1>4, <1>5 DEF Timetable!Direct
<1> QED BY <1>1, <1>6, AboutFacts DEF Timetable!ByTheRules

\* An overtaken commit writes one row of its event.
LEMMA LateCommitBelated ==
  ASSUME AgendaInv, NEW w \in Writers, Commit(w), work[w].want # work[w].seen
  PROVE  Timetable!Belated(About(w))
<1> DEFINE x == work[w].target
<1>1. /\ TypeOK /\ Serving(w) /\ UnderWay(w) /\ TimeCheck(Written(w))
      /\ x \in Sessions <=> work[w].op \in SessionOps
      /\ x \in Events <=> work[w].op \notin SessionOps
  BY CommitEffect, ServingServed DEF AgendaInv
<1>2. CASE work[w].op \in SessionOps
  <2>1. /\ x \in Sessions /\ x \notin Events
        /\ Written(w) \in Slot /\ Written(w).event = About(w)
    BY <1>1, <1>2, WrittenSession, AboutFacts
  <2>2. sessions[x] # NoSession => sessions[x].event = About(w)
    BY <1>1, <1>2, ServingServed, AboutFacts DEF SessionWork, SessionOps
  <2>3. /\ sessions' = [sessions EXCEPT ![x] = Written(w)] /\ sessions'[x] = Written(w)
        /\ UNCHANGED calendar
    BY <1>1, <2>1 DEF Commit, TypeOK
  <2>4. Timetable!OtherPlacesKept(x)
    BY <2>3 DEF Timetable!OtherPlacesKept
  <2> QED BY <1>1, <2>1, <2>2, <2>3, <2>4, TimetableRules DEF Timetable!Belated, TimeCheck
<1>3. CASE work[w].op \notin SessionOps
  <2>1. /\ x \in Events /\ x \notin Sessions /\ x = About(w)
        /\ Written(w) \in Calendar
    BY <1>1, <1>3, WrittenEvent, AboutFacts
  <2>2. /\ calendar' = [calendar EXCEPT ![x] = Written(w)] /\ calendar'[x] = Written(w)
        /\ UNCHANGED sessions
    BY <1>1, <2>1 DEF Commit, TypeOK
  <2>3. /\ calendar'[About(w)] \in Timetable!Dates
        /\ calendar'[About(w)].start <= calendar'[About(w)].end
    BY <1>1, <2>1, <2>2, TimetableRules DEF TimeCheck
  <2>4. calendar' = [calendar EXCEPT ![About(w)] = calendar'[About(w)]]
    BY <2>1, <2>2
  <2> QED BY <2>2, <2>3, <2>4 DEF Timetable!Belated
<1> QED BY <1>2, <1>3

\* Every commit writes to the file of its event, or closes it.
LEMMA CommitIsStep ==
  ASSUME AgendaInv, PromptInv, NEW w \in Writers, Commit(w)
  PROVE  Timetable!Next
<1> DEFINE e == About(w)
           writes == work[w].want # work[w].seen
<1>1. /\ TypeOK /\ UnderWay(w) /\ e \in Events
      /\ work' = [work EXCEPT ![w] = Idle]
      /\ overtaken' = (IF writes THEN overtaken \cup Passed(w) ELSE overtaken) \ {w}
  BY CommitEffect, ServingServed, AboutFacts DEF AgendaInv, Commit
<1>2. ~UnderWay(w)' /\ \A v \in Writers \ {w} : work'[v] = work[v]
  BY <1>1 DEF TypeOK, UnderWay, Idle
<1>3. Opened' = Opened \ {<<w, e>>} /\ <<w, e>> \in Opened
  BY <1>1, <1>2, DeskCloses
<1>4. CASE writes
  <2>1. Late' = (Late \cup {v \in Writers : <<v, e>> \in Opened}) \ {w}
    <3>1. \A v \in Writers \ {w} : UnderWay(v)' <=> UnderWay(v)
      BY <1>2 DEF UnderWay
    <3>2. \A v \in Writers \ {w} : <<v, e>> \in Opened <=> v \in Passed(w)
      BY DEF Opened, Passed
    <3>3. overtaken \subseteq Writers /\ Passed(w) \subseteq {v \in Writers \ {w} : UnderWay(v)}
      BY <1>1 DEF TypeOK, Passed
    <3>4. Late' = {v \in (overtaken \cup Passed(w)) \ {w} : UnderWay(v)'}
      BY <1>1, <1>4 DEF Late
    <3> QED BY <1>1, <3>1, <3>2, <3>3, <3>4 DEF Late
  <2>2. IF w \in Late THEN Timetable!Belated(e) ELSE Timetable!ByTheRules(e)
    BY <1>1, <1>4, LateCommitBelated, PromptSessionByTheRules, PromptEventByTheRules DEF Late
  <2>3. Timetable!Write(w, e)
    BY <1>3, <2>1, <2>2 DEF Timetable!Write
  <2> QED BY <1>1, <2>3 DEF Timetable!Next
<1>5. CASE ~writes
  <2>1. Late' = Late \ {w}
    BY <1>1, <1>2, <1>5, LateKept
  <2>2. UNCHANGED <<calendar, sessions>>
    BY <1>5 DEF Commit
  <2>3. Timetable!Close(w, e)
    BY <1>3, <2>1, <2>2 DEF Timetable!Close
  <2> QED BY <1>1, <2>3 DEF Timetable!Next
<1> QED BY <1>4, <1>5

\* Every other step opens a file, closes one, or is not seen.
LEMMA OtherStepIsStep ==
  ASSUME AgendaInv, NEW w \in Writers, Before(w) \/ Rollback(w),
         UnderWay(w)' => About(w)' \in Events
  PROVE  Timetable!Next \/ UNCHANGED <<calendar, sessions, Opened, Late>>
<1>1. /\ TypeOK /\ UNCHANGED <<calendar, sessions>>
      /\ overtaken' = IF Rollback(w) THEN overtaken \ {w} ELSE overtaken
      /\ \A v \in Writers \ {w} : work'[v] = work[v]
      /\ Begins(w) \/ DecideSession(w) \/ ~UnderWay(w)' \/ (GoesOn(w) /\ Serving(w)')
  BY StepShape DEF AgendaInv
<1>2. CASE ~UnderWay(w) /\ UnderWay(w)'
  <2>1. Opened' = Opened \cup {<<w, About(w)'>>} /\ \A e \in Events : <<w, e>> \notin Opened
    BY <1>1, <1>2, DeskOpens
  <2>2. At(w, "idle") /\ ~Rollback(w)
    <3>1. Rollback(w) => ~UnderWay(w)'
      BY <1>1 DEF TypeOK, Rollback, UnderWay, Idle
    <3>2. ~DecideSession(w) /\ ~GoesOn(w)
      BY <1>2, ServingServed, DecideShape DEF GoesOn
    <3> QED BY <1>1, <1>2, <3>1, <3>2 DEF Begins, BeginSession, BeginEvent, CreateSession,
      LoadSession, UpdateEvent, DeleteEvent
  <2>3. Late' = Late
    BY <1>1, <1>2, <2>2, LateKept
  <2>4. Timetable!Open(w, About(w)')
    BY <1>1, <2>1, <2>3 DEF Timetable!Open
  <2> QED BY <1>2, <2>4 DEF Timetable!Next
<1>3. CASE UnderWay(w) /\ ~UnderWay(w)'
  <2>1. Opened' = Opened \ {<<w, About(w)>>} /\ <<w, About(w)>> \in Opened
    BY <1>1, <1>3, DeskCloses
  <2>2. Late' = Late \ {w} /\ About(w) \in Events
    BY <1>1, <1>3, LateKept, AboutFacts
  <2>3. Timetable!Close(w, About(w))
    BY <1>1, <2>1, <2>2 DEF Timetable!Close
  <2> QED BY <2>2, <2>3 DEF Timetable!Next
<1>4. CASE UnderWay(w) /\ UnderWay(w)'
  <2>1. ~Rollback(w) /\ ~Begins(w)
    <3>1. Rollback(w) => ~UnderWay(w)'
      BY <1>1 DEF TypeOK, Rollback, UnderWay, Idle
    <3>2. Begins(w) => At(w, "idle")
      BY DEF Begins, BeginSession, BeginEvent, CreateSession, LoadSession, UpdateEvent, DeleteEvent
    <3> QED BY <1>4, <3>1, <3>2 DEF UnderWay, At
  <2>2. About(w)' = About(w)
    <3>1. CASE DecideSession(w)
      <4>1. /\ LoadedWork(w) /\ At(w, "loaded")
            /\ work'[w].op = work[w].op /\ work'[w].seen = work[w].seen
        BY <1>4, <3>1, DecideShape DEF UnderWay, Serving
      <4> QED BY <4>1 DEF LoadedWork, About
    <3>2. CASE GoesOn(w)
      BY <3>2 DEF GoesOn, About
    <3> QED BY <1>1, <1>4, <2>1, <3>1, <3>2
  <2>3. Opened' = Opened /\ Late' = Late
    BY <1>1, <1>4, <2>1, <2>2, DeskStays, LateKept
  <2> QED BY <1>1, <2>3
<1>5. CASE ~UnderWay(w) /\ ~UnderWay(w)'
  <2>1. Opened' = Opened /\ Late' = Late
    BY <1>1, <1>5, DeskStays, LateKept
  <2> QED BY <1>1, <2>1
<1> QED BY <1>2, <1>3, <1>4, <1>5

\* For any number of requests at once, queries, locks and transactions together do
\* what Timetable says: a commit that nobody overtook places, changes or cancels one
\* session or directs one event by the rules as they are at that moment, and an
\* overtaken one can break no more than the rules.
THEOREM ImplementsTimetable == Spec => TimetableSpec
<1>1. Init => Timetable!Init
  <2> SUFFICES ASSUME Init PROVE Timetable!Init
    OBVIOUS
  <2>1. AgendaInv
    BY InitAgenda
  <2>2. /\ calendar \in [Events -> Calendar]
        /\ \A e \in Events : TimeCheck(calendar[e])
    BY <2>1 DEF AgendaInv, TypeOK
  <2>3. \A e \in Events : IsEventMutable(calendar[e])
    BY DEF Init, IsEventMutable
  <2>4. Opened = {} /\ Late = {}
    BY DEF Init, Opened, Late, UnderWay, Idle
  <2> QED BY <2>2, <2>3, <2>4, TimetableRules DEF Init, Timetable!Init, TimeCheck
<1>2. (\A w \in Writers : UnderWay(w) => About(w) \in Events)' /\ AgendaInv /\ AgendaInv'
      /\ PromptInv /\ [Next]_vars => [Timetable!Next]_<<calendar, sessions, Opened, Late>>
  <2> SUFFICES ASSUME AgendaInv, AgendaInv', PromptInv, [Next]_vars,
                      (\A w \in Writers : UnderWay(w) => About(w) \in Events)'
               PROVE  Timetable!Next \/ UNCHANGED <<calendar, sessions, Opened, Late>>
    OBVIOUS
  <2>1. CASE UNCHANGED vars
    BY <2>1 DEF vars, Opened, Late, UnderWay, About
  <2>2. ASSUME NEW w \in Writers, Commit(w)
        PROVE  Timetable!Next
    BY <2>2, CommitIsStep
  <2>3. ASSUME NEW w \in Writers, Before(w) \/ Rollback(w)
        PROVE  Timetable!Next \/ UNCHANGED <<calendar, sessions, Opened, Late>>
    BY <2>3, OtherStepIsStep
  <2> QED BY <2>1, <2>2, <2>3, NextCases
<1>3. Timetable!Spec <=>
        Timetable!Init /\ [][Timetable!Next]_<<calendar, sessions, Opened, Late>>
  BY DEF Timetable!Spec, Timetable!timetable
<1> QED BY <1>1, <1>2, <1>3, AboutAnEvent, AgendaInvariant, PromptInvariant, PTL
  DEF Spec, TimetableSpec
=============================================================================
