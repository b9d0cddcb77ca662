----------------------------- MODULE Timetable -----------------------------
(***************************************************************************)
(* What the agenda promises, with no transaction, query or lock in sight:  *)
(* the dates and the status of every event and, for every session, the     *)
(* place it has.  Whoever wants to change one of them opens the file of an *)
(* event at a desk.  When something is written to a file, whoever else has *)
(* it open is late: it goes on with what it saw.  A desk that is not late  *)
(* writes by the rules as they are at that moment.  Agenda implements it.  *)
(***************************************************************************)
EXTENDS EventRules, SessionRules

CONSTANTS Events, Sessions, Speakers, Rooms, Times, NoSession, Desks

VARIABLES calendar, agenda,
          open,   \* the pairs of a desk and the event it has open
          late    \* the desks whose event was written to meanwhile

timetable == <<calendar, agenda, open, late>>

Dates == [status : EventStatus, start : Times, end : Times]
Place == SessionRow(Events, Speakers, Rooms, Times)

Init == /\ calendar \in [Events -> Dates]
        /\ \A e \in Events : /\ calendar[e].start <= calendar[e].end
                             /\ IsEventMutable(calendar[e])
        /\ agenda = [s \in Sessions |-> NoSession]
        /\ open = {} /\ late = {}

\* The units of time a place takes.
Hours(row) == row.start .. row.end - 1

\* Nobody else of the event has the speaker or the room at that time.
Free(s, row) ==
  \A t \in Sessions \ {s} :
    /\ agenda[t] # NoSession
    /\ agenda[t].event = row.event /\ agenda[t].status # "cancelled"
    /\ agenda[t].speaker = row.speaker \/ agenda[t].room = row.room
    => Hours(agenda[t]) \cap Hours(row) = {}

\* Where a session may stand: between the dates of its event, beside the others.
Fits(s, row) == /\ row.start <= row.end
                /\ WithinEventWindow(row, calendar[row.event])
                /\ Free(s, row)

OtherPlacesKept(s) == /\ agenda' = [agenda EXCEPT ![s] = agenda'[s]]
                      /\ UNCHANGED calendar

\* A session of event e is new and to come.
Schedule(s, e) == LET row == agenda'[s]
                  IN /\ agenda[s] = NoSession
                     /\ row \in Place /\ row.event = e
                     /\ IsEventMutable(calendar[e])
                     /\ row.status = "scheduled"
                     /\ Fits(s, row)
                     /\ OtherPlacesKept(s)

\* One that is neither finished nor cancelled, of an event that is neither.
Changeable(s, e) == /\ agenda[s] # NoSession /\ agenda[s].event = e
                    /\ IsSessionMutable(agenda[s])
                    /\ IsEventMutable(calendar[e])

\* It gets another place, or goes on along its status machine, in its event.
Change(s, e) == LET row == agenda'[s]
                IN /\ Changeable(s, e)
                   /\ row \in Place /\ row.event = e
                   /\ CanTransitionSession(agenda[s].status, row.status)
                   /\ Fits(s, row)
                   /\ OtherPlacesKept(s)

\* Its place can be given up even where the event has other dates by now.
Cancel(s, e) == /\ Changeable(s, e)
                /\ agenda' = [agenda EXCEPT ![s].status = "cancelled"]
                /\ UNCHANGED calendar

\* An event that is not over gets other dates, whatever its agenda, or goes on
\* along the status machine of events.
Direct(e) == LET row == calendar'[e]
             IN /\ IsEventMutable(calendar[e])
                /\ row \in Dates
                /\ CanTransition(calendar[e].status, row.status)
                /\ row.start <= row.end
                /\ calendar' = [calendar EXCEPT ![e] = row]
                /\ UNCHANGED agenda

ByTheRules(e) == \/ \E s \in Sessions : Schedule(s, e) \/ Change(s, e) \/ Cancel(s, e)
                 \/ Direct(e)

\* Who is late may break any rule but these: one row of its event is written,
\* no session leaves the event or loses its place, and nothing ends before it
\* begins.
Belated(e) ==
  \/ \E s \in Sessions : LET row == agenda'[s]
                         IN /\ agenda[s] # NoSession => agenda[s].event = e
                            /\ row \in Place /\ row.event = e
                            /\ row.start <= row.end
                            /\ OtherPlacesKept(s)
  \/ LET row == calendar'[e]
     IN /\ row \in Dates /\ row.start <= row.end
        /\ calendar' = [calendar EXCEPT ![e] = row]
        /\ UNCHANGED agenda

Open(d, e) == /\ \A f \in Events : <<d, f>> \notin open
              /\ open' = open \cup {<<d, e>>}
              /\ UNCHANGED <<calendar, agenda, late>>

Close(d, e) == /\ <<d, e>> \in open
               /\ open' = open \ {<<d, e>>}
               /\ late' = late \ {d}
               /\ UNCHANGED <<calendar, agenda>>

Write(d, e) == /\ <<d, e>> \in open
               /\ open' = open \ {<<d, e>>}
               /\ late' = (late \cup {c \in Desks : <<c, e>> \in open}) \ {d}
               /\ IF d \in late THEN Belated(e) ELSE ByTheRules(e)

Next == \E d \in Desks, e \in Events : Open(d, e) \/ Close(d, e) \/ Write(d, e)

Spec == Init /\ [][Next]_timetable
=============================================================================
