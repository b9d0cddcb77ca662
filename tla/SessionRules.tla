---------------------------- MODULE SessionRules ----------------------------
(***************************************************************************)
(* The rows of the table sessions and the pure rules about them:           *)
(* app/utils/session_rules.py and app/models/session.py.                   *)
(*                                                                         *)
(* Time is a small range of integers.  Speakers and rooms are labels       *)
(* already stripped and lowered, which is how the queries compare them.    *)
(* Title, description and seats play no part in the schedule.              *)
(***************************************************************************)
EXTENDS Integers

SessionStatus == {"scheduled", "in_progress", "finished", "cancelled"}

SessionRow(events, speakers, rooms, times) ==
  [event : events, speaker : speakers, room : rooms,
   start : times, end : times, status : SessionStatus]

\* ALLOWED_SESSION_TRANSITIONS as the set of its pairs.
AllowedSessionTransitions ==
  {<<"scheduled", "in_progress">>, <<"scheduled", "finished">>,
   <<"scheduled", "cancelled">>, <<"in_progress", "finished">>,
   <<"in_progress", "cancelled">>}

CanTransitionSession(current, target) ==
  \/ current = target
  \/ <<current, target>> \in AllowedSessionTransitions

\* Half-open intervals: one may begin when the other ends.
TimesOverlap(a, b) == a.start < b.end /\ b.start < a.end

WithinEventWindow(session, event) ==
  session.start >= event.start /\ session.end <= event.end

IsEventMutable(event) == event.status \notin {"finished", "cancelled"}
IsSessionMutable(session) == session.status \notin {"finished", "cancelled"}
=============================================================================
