------------------------------- MODULE Agenda -------------------------------
(***************************************************************************)
(* The agenda of the events: SessionService of app/services and the part   *)
(* of EventService that its rules look at, the status and the dates.       *)
(*                                                                         *)
(* No method locks a row it reads.  The rules are checked by separate      *)
(* SELECTs, each seeing what is committed when it runs:                    *)
(*                                                                         *)
(*   create:        idle -----------> speaker -> room -> staged -> flushed *)
(*   update:        idle -> loaded -> speaker -> room -> staged -> flushed *)
(*   delete:        idle -> loaded --------------------> staged -> flushed *)
(*   event writes:  idle ------------------------------> staged -> flushed *)
(*                                                                         *)
(* flushed -> idle by Commit, any refusal -> failed -> idle.  As in        *)
(* EventBooking, seen is the row a request loaded and want the row its     *)
(* session holds.                                                          *)
(***************************************************************************)
EXTENDS EventRules, SessionRules

CONSTANTS Events, Sessions,      \* identifiers
          Writers,               \* requests served concurrently
          Speakers, Rooms,
          Horizon,               \* times run from 0 to Horizon
          Windows,               \* dates an event may be given
          Wanted,                \* rows a request body may ask for
          NoSession, NoWriter

Times == 0 .. Horizon
Calendar == [status : EventStatus, start : Times, end : Times]
Slot == SessionRow(Events, Speakers, Rooms, Times)

\* CHECK (end >= start) of both tables.
TimeCheck(row) == row.start <= row.end

ASSUME AgendaAssumption ==
  /\ Horizon \in Nat
  /\ Windows \subseteq {w \in [start : Times, end : Times] : w.start <= w.end}
  /\ Wanted \subseteq Slot
  /\ Events \cap Sessions = {}
  /\ NoWriter \notin Writers
  /\ NoSession \notin Slot

VARIABLES calendar,   \* the committed rows of events, as far as the agenda reads them
          sessions,   \* the committed rows of sessions
          lock,       \* the transaction holding each row's lock
          work,       \* the requests being served
          overtaken   \* history: those that acted on what is no longer so

vars == <<calendar, sessions, lock, work, overtaken>>

SessionOps == {"create_session", "update_session", "delete_session"}
Ops == SessionOps \cup {"update_event", "delete_event"}
PCs == {"loaded", "speaker", "room", "staged", "flushed"}
Codes == {"not_found", "forbidden", "event_not_mutable", "event_finished",
          "session_finished", "invalid_slots", "invalid_time_range", "invalid_initial_status",
          "invalid_status_transition", "session_outside_event_window",
          "session_speaker_conflict", "session_room_conflict", "internal_error"}

Idle == [pc |-> "idle"]
Refused(code) == [pc |-> "failed", code |-> code]

\* A request is about one row: a session's or an event's.
Served == [pc : PCs, op : Ops, target : Sessions \cup Events,
           seen : Slot \cup Calendar \cup {NoSession},
           want : Slot \cup Calendar \cup {NoSession}]

\* The committed rows satisfy the CHECKs, also when they merge two edits.
TypeOK == /\ calendar \in [Events -> {row \in Calendar : TimeCheck(row)}]
          /\ sessions \in [Sessions -> {row \in Slot : TimeCheck(row)} \cup {NoSession}]
          /\ lock \in [Sessions \cup Events -> Writers \cup {NoWriter}]
          /\ work \in [Writers -> {Idle} \cup {Refused(code) : code \in Codes} \cup Served]
          /\ overtaken \subseteq {w \in Writers : work[w].pc # "idle"}

\* The events exist, as create_event makes them, and have no session yet.
Init == /\ calendar \in [Events -> {row \in Calendar :
                                  /\ row.status \in {"draft", "published"}
                                  /\ [start |-> row.start, end |-> row.end] \in Windows}]
        /\ sessions = [s \in Sessions |-> NoSession]
        /\ lock = [x \in Sessions \cup Events |-> NoWriter]
        /\ work = [w \in Writers |-> Idle]
        /\ overtaken = {}

-----------------------------------------------------------------------------

At(w, pc) == work[w].pc = pc

Begun(pc, op, target, seen, want) ==
  [pc |-> pc, op |-> op, target |-> target, seen |-> seen, want |-> want]

Fail(w, code) == work' = [work EXCEPT ![w] = Refused(code)]

\* Starts serving: at once refused, or on to the next statement.
Start(w, op, target, seen, want, refusal, next) ==
  IF refusal = "ok"
  THEN work' = [work EXCEPT ![w] = Begun(next, op, target, seen, want)]
  ELSE Fail(w, refusal)

Goto(w, pc) == work' = [work EXCEPT ![w].pc = pc]

\* The request has read something and may still write.
UnderWay(w) == work[w].pc \notin {"idle", "failed"}

\* The event a request is about: its own, or that of its session.
About(w) == CASE work[w].op = "create_session" -> work[w].want.event
              [] work[w].op \in {"update_session", "delete_session"} -> work[w].seen.event
              [] OTHER -> work[w].target

\* The others that read something of that event, or of its agenda, before.
Passed(w) == {v \in Writers \ {w} : UnderWay(v) /\ About(v) = About(w)}

-----------------------------------------------------------------------------
(* SessionService *)

CreateRefusal(want, allowed) ==
  LET event == calendar[want.event]
  IN IF event.status = "cancelled" THEN "not_found"
     ELSE IF ~IsEventMutable(event) THEN "event_not_mutable"
     ELSE IF ~allowed THEN "forbidden"
     ELSE IF want.status # "scheduled" THEN "invalid_initial_status"
     ELSE IF ~WithinEventWindow(want, event) THEN "session_outside_event_window"
     ELSE "ok"

\* The request body has start <= end, or the schema refuses it.  The row is
\* known to nobody else before its commit.
CreateSession(w, s, want, allowed) ==
  /\ At(w, "idle") /\ sessions[s] = NoSession /\ lock[s] = NoWriter
  /\ TimeCheck(want)
  /\ LET refusal == CreateRefusal(want, allowed)
     IN /\ Start(w, "create_session", s, NoSession, want, refusal, "speaker")
        /\ lock' = IF refusal = "ok" THEN [lock EXCEPT ![s] = w] ELSE lock
  /\ UNCHANGED <<calendar, sessions, overtaken>>

\* The first SELECT of get_by_id_with_event: the row of the session.
LoadSession(w, op, s) ==
  /\ At(w, "idle")
  /\ Start(w, op, s, sessions[s], NoSession,
           IF sessions[s] = NoSession THEN "not_found" ELSE "ok", "loaded")
  /\ UNCHANGED <<calendar, sessions, lock, overtaken>>

\* Mutant: a session of an event that is over may still be edited.
LoadRefusalAnyEvent(row, allowed) ==
  IF row.status = "cancelled" THEN "not_found"
  ELSE IF ~allowed THEN "forbidden"
  ELSE IF ~IsSessionMutable(row) THEN "session_finished"
  ELSE "ok"

\* What update_session and delete_session ask of the row they loaded and of
\* its event, before they look at the body.
LoadRefusal(row, allowed) ==
  IF row.status = "cancelled" THEN "not_found"
  ELSE IF ~IsEventMutable(calendar[row.event]) THEN "event_not_mutable"
  ELSE IF ~allowed THEN "forbidden"
  ELSE IF ~IsSessionMutable(row) THEN "session_finished"
  ELSE "ok"

\* Mutant: an update that leaves the window of the event unasked.
UpdateRefusalAnyTime(row, want, slotsFit, allowed) ==
  IF LoadRefusal(row, allowed) # "ok" THEN LoadRefusal(row, allowed)
  ELSE IF ~slotsFit THEN "invalid_slots"
  ELSE IF want.end < want.start THEN "invalid_time_range"
  ELSE IF ~CanTransitionSession(row.status, want.status) THEN "invalid_status_transition"
  ELSE "ok"

\* Mutant: an update that stores any status it is sent.
UpdateRefusalAnyStatus(row, want, slotsFit, allowed) ==
  IF LoadRefusal(row, allowed) # "ok" THEN LoadRefusal(row, allowed)
  ELSE IF ~slotsFit THEN "invalid_slots"
  ELSE IF want.end < want.start THEN "invalid_time_range"
  ELSE IF ~WithinEventWindow(want, calendar[want.event]) THEN "session_outside_event_window"
  ELSE "ok"

\* slotsFit: the seats sent are within the capacity.
UpdateRefusal(row, want, slotsFit, allowed) ==
  IF LoadRefusal(row, allowed) # "ok" THEN LoadRefusal(row, allowed)
  ELSE IF ~slotsFit THEN "invalid_slots"
  ELSE IF want.end < want.start THEN "invalid_time_range"
  ELSE IF ~CanTransitionSession(row.status, want.status) THEN "invalid_status_transition"
  ELSE IF ~WithinEventWindow(want, calendar[want.event]) THEN "session_outside_event_window"
  ELSE "ok"

\* The rules have the row and its event: refused, or on with the row wanted.
Decide(w, want, refusal, next) ==
  IF refusal = "ok"
  THEN work' = [work EXCEPT ![w].pc = next, ![w].want = want]
  ELSE Fail(w, refusal)

\* With the second SELECT, of the event.  want is the loaded row with the
\* fields of the body set: a session never changes its event.
UpdateSession(w, want, slotsFit, allowed) ==
  /\ At(w, "loaded") /\ work[w].op = "update_session"
  /\ want.event = work[w].seen.event
  /\ Decide(w, want, UpdateRefusal(work[w].seen, want, slotsFit, allowed), "speaker")
  /\ UNCHANGED <<calendar, sessions, lock, overtaken>>

DeleteSession(w, allowed) ==
  /\ At(w, "loaded") /\ work[w].op = "delete_session"
  /\ Decide(w, [work[w].seen EXCEPT !.status = "cancelled"],
            LoadRefusal(work[w].seen, allowed), "staged")
  /\ UNCHANGED <<calendar, sessions, lock, overtaken>>

\* Mutant: overlap asked of the sessions still to come only.
ConflictsScheduledOnly(w, column) ==
  LET want == work[w].want
  IN {s \in Sessions \ {work[w].target} :
        /\ sessions[s] # NoSession
        /\ sessions[s].event = want.event /\ sessions[s].status = "scheduled"
        /\ sessions[s][column] = want[column]
        /\ TimesOverlap(sessions[s], want)}

\* _find_schedule_conflict: the other sessions of the event with the same
\* speaker (or room) at the same time.
Conflicts(w, column) ==
  LET want == work[w].want
  IN {s \in Sessions \ {work[w].target} :
        /\ sessions[s] # NoSession
        /\ sessions[s].event = want.event /\ sessions[s].status # "cancelled"
        /\ sessions[s][column] = want[column]
        /\ TimesOverlap(sessions[s], want)}

FindSpeakerConflict(w) ==
  /\ At(w, "speaker")
  /\ IF Conflicts(w, "speaker") = {} THEN Goto(w, "room") ELSE Fail(w, "session_speaker_conflict")
  /\ UNCHANGED <<calendar, sessions, lock, overtaken>>

FindRoomConflict(w) ==
  /\ At(w, "room")
  /\ IF Conflicts(w, "room") = {} THEN Goto(w, "staged") ELSE Fail(w, "session_room_conflict")
  /\ UNCHANGED <<calendar, sessions, lock, overtaken>>

-----------------------------------------------------------------------------
(* EventService: the writes of an event's status and dates *)

EventRefusal(e, allowed) ==
  IF calendar[e].status = "cancelled" THEN "not_found"
  ELSE IF ~allowed THEN "forbidden"
  ELSE IF calendar[e].status = "finished" THEN "event_finished"
  ELSE "ok"

\* No look at the sessions of the event.
UpdateEvent(w, e, window, status, allowed) ==
  /\ At(w, "idle")
  /\ LET refusal == IF EventRefusal(e, allowed) # "ok" THEN EventRefusal(e, allowed)
                    ELSE IF ~CanTransition(calendar[e].status, status)
                      THEN "invalid_status_transition"
                    ELSE "ok"
     IN Start(w, "update_event", e, calendar[e],
              [status |-> status, start |-> window.start, end |-> window.end],
              refusal, "staged")
  /\ UNCHANGED <<calendar, sessions, lock, overtaken>>

DeleteEvent(w, e, allowed) ==
  /\ At(w, "idle")
  /\ Start(w, "delete_event", e, calendar[e], [calendar[e] EXCEPT !.status = "cancelled"],
           EventRefusal(e, allowed), "staged")
  /\ UNCHANGED <<calendar, sessions, lock, overtaken>>

-----------------------------------------------------------------------------
(* The session and its transaction *)

Stored(x) == IF x \in Events THEN calendar[x] ELSE sessions[x]

\* UPDATE sets the columns the session changed; INSERT writes them all.
Written(w) ==
  LET seen == work[w].seen
      want == work[w].want
      now == Stored(work[w].target)
  IN IF seen = NoSession THEN want
     ELSE [c \in DOMAIN now |-> IF want[c] = seen[c] THEN now[c] ELSE want[c]]

\* Mutant: tables without the CHECK end >= start.
FlushUnchecked(w) ==
  /\ At(w, "staged")
  /\ LET x == work[w].target
     IN IF work[w].want = work[w].seen
        THEN Goto(w, "flushed") /\ UNCHANGED lock
        ELSE /\ lock[x] \in {NoWriter, w}
             /\ lock' = [lock EXCEPT ![x] = w]
             /\ Goto(w, "flushed")
  /\ UNCHANGED <<calendar, sessions, overtaken>>

\* The CHECK end >= start of both tables fails a merge of two edits.
Flush(w) ==
  /\ At(w, "staged")
  /\ LET x == work[w].target
     IN IF work[w].want = work[w].seen
        THEN Goto(w, "flushed") /\ UNCHANGED lock
        ELSE /\ lock[x] \in {NoWriter, w}
             /\ lock' = [lock EXCEPT ![x] = w]
             /\ IF TimeCheck(Written(w))
                THEN Goto(w, "flushed") ELSE Fail(w, "internal_error")
  /\ UNCHANGED <<calendar, sessions, overtaken>>

LocksReleased(w) == [x \in DOMAIN lock |-> IF lock[x] = w THEN NoWriter ELSE lock[x]]

Commit(w) ==
  /\ At(w, "flushed")
  /\ LET x == work[w].target
         writes == work[w].want # work[w].seen
     IN /\ calendar' = IF writes /\ x \in Events
                       THEN [calendar EXCEPT ![x] = Written(w)] ELSE calendar
        /\ sessions' = IF writes /\ x \in Sessions
                       THEN [sessions EXCEPT ![x] = Written(w)] ELSE sessions
        /\ overtaken' = (IF writes THEN overtaken \cup Passed(w) ELSE overtaken) \ {w}
  /\ lock' = LocksReleased(w)
  /\ work' = [work EXCEPT ![w] = Idle]

\* After a refusal, an error, or the death of the worker.  Also where a field
\* sent as null, SessionRead or the CHECK on seats ends the request.
Rollback(w) ==
  /\ ~At(w, "idle")
  /\ lock' = LocksReleased(w)
  /\ work' = [work EXCEPT ![w] = Idle]
  /\ overtaken' = overtaken \ {w}
  /\ UNCHANGED <<calendar, sessions>>

-----------------------------------------------------------------------------

BeginSession(w) ==
  \E s \in Sessions :
    \/ \E want \in Wanted, allowed \in BOOLEAN : CreateSession(w, s, want, allowed)
    \/ \E op \in {"update_session", "delete_session"} : LoadSession(w, op, s)

DecideSession(w) ==
  \E allowed \in BOOLEAN :
    \/ \E want \in Wanted, slotsFit \in BOOLEAN : UpdateSession(w, want, slotsFit, allowed)
    \/ DeleteSession(w, allowed)

BeginEvent(w) ==
  \E e \in Events, allowed \in BOOLEAN :
    \/ \E window \in Windows, status \in EventStatus :
         UpdateEvent(w, e, window, status, allowed)
    \/ DeleteEvent(w, e, allowed)

Next == \E w \in Writers :
  \/ BeginSession(w) \/ DecideSession(w) \/ BeginEvent(w)
  \/ FindSpeakerConflict(w) \/ FindRoomConflict(w)
  \/ Flush(w) \/ Commit(w) \/ Rollback(w)

Spec == Init /\ [][Next]_vars

-----------------------------------------------------------------------------
(* Properties.  Two requests for one event may each be right about what they  *)
(* read and wrong about what the other one wrote.  What must not happen is    *)
(* that a rule breaks with nobody overtaken, or by more than the rule whose   *)
(* premise moved.                                                             *)

Live(s) == sessions[s] # NoSession /\ sessions[s].status # "cancelled"

\* The units of time a session takes.
Hours(row) == row.start .. row.end - 1

\* One speaker is in two places, or one room has two sessions, in the same hour.
Clash(s, t) == /\ Live(s) /\ Live(t)
               /\ sessions[s].event = sessions[t].event
               /\ \/ sessions[s].speaker = sessions[t].speaker
                  \/ sessions[s].room = sessions[t].room
               /\ Hours(sessions[s]) \cap Hours(sessions[t]) # {}

\* Nobody speaks in two places, and no room holds two sessions, at the same
\* time of one event (session_service.py, _validate_session_rules).
NoDoubleBooking == \A s, t \in Sessions : s # t => ~Clash(s, t)

OvertakenCommit == \E w \in overtaken : Commit(w)

\* Two sessions come to clash only by the commit of a request that another
\* write to the event overtook after its first read (_find_schedule_conflict).
ClashesComeLate ==
  [][\A s, t \in Sessions : s # t /\ Clash(s, t)' => Clash(s, t) \/ OvertakenCommit]_vars

InWindow(s) == Live(s) => WithinEventWindow(sessions[s], calendar[sessions[s].event])

\* The commit of w gives the event fewer days than it had.
TakesDaysAway(w) ==
  /\ Commit(w)
  /\ \E e \in Events : \/ calendar[e].start < calendar'[e].start
                       \/ calendar'[e].end < calendar[e].end

\* A session comes to lie outside the dates of its event only when update_event
\* takes days away, or by a request that was overtaken (is_within_event_window).
WindowsLostLate ==
  [][\A s \in Sessions : InWindow(s) =>
       InWindow(s)' \/ OvertakenCommit \/ \E w \in Writers : TakesDaysAway(w)]_vars

\* The agenda of a finished or cancelled event changes only by a request that
\* began before the event was over (_ensure_event_allows_changes).
FrozenUnlessOvertaken ==
  [][\A s \in Sessions :
       /\ sessions[s] # NoSession /\ ~IsEventMutable(calendar[sessions[s].event])
       => sessions'[s] = sessions[s] \/ OvertakenCommit]_vars

\* The events that requests are about, and the requests that were overtaken.
Opened == {<<w, About(w)>> : w \in {v \in Writers : UnderWay(v)}}
Late == {w \in overtaken : UnderWay(w)}

Timetable ==
  INSTANCE Timetable WITH agenda <- sessions, Desks <- Writers, open <- Opened, late <- Late

\* Every commit of a request nobody overtook places, changes or cancels one
\* session by the rules as they are at that moment, or directs one event; an
\* overtaken one stays within its event (SessionService and update_event).
TimetableSpec == Timetable!Spec
=============================================================================
