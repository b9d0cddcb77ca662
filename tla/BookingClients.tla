--------------------------- MODULE BookingClients ---------------------------
(***************************************************************************)
(* EventBooking together with what its clients are told.                   *)
(*                                                                         *)
(* The commit is the exit code of the dependency get_db_session            *)
(* (app/core/database.py).  When it runs is FastAPI's choice: before the   *)
(* response is sent up to 0.117, after it from 0.118 on.  pyproject.toml   *)
(* admits both, uv.lock pins 0.136.3.  A deployment has one of them.        *)
(*                                                                         *)
(* A client waits for the answer to a request about an event before it     *)
(* sends the next one about that event.                                    *)
(***************************************************************************)
EXTENDS EventBooking

CONSTANT NoReply

VARIABLES responseFirst,   \* does the deployed FastAPI respond before the commit?
          told,            \* the last answer each user got about each event
          reply            \* the response of each request, from its making to its end

clientVars == <<responseFirst, told, reply>>
allVars == <<vars, clientVars>>

News == {"nothing", "registered", "cancelled"}
Reply == [user : Users, event : Events, news : News, sent : BOOLEAN]

ASSUME ClientsAssumption == NoReply \notin Reply

ClientsTypeOK == /\ responseFirst \in BOOLEAN
                 /\ told \in [Events -> [Users -> News]]
                 /\ reply \in [Requests -> Reply \cup {NoReply}]

ClientsInit == /\ Init
               /\ responseFirst \in BOOLEAN
               /\ told = [e \in Events |-> [u \in Users |-> "nothing"]]
               /\ reply = [r \in Requests |-> NoReply]

\* What RegistrationRead says of the registration.
NewsOf(r) == IF req[r].op = "register" THEN "registered"
             ELSE IF req[r].op = "cancel" THEN "cancelled" ELSE "nothing"

ReplyOf(r, sent) == [user |-> req[r].user, event |-> req[r].event,
                     news |-> NewsOf(r), sent |-> sent]

\* The client of a request has no answer to it yet.
Waits(r, u, e) ==
  \/ /\ Active(r) /\ reply[r] = NoReply
     /\ req[r].user = u /\ req[r].event = e
  \/ /\ reply[r] # NoReply
     /\ ~reply[r].sent /\ reply[r].user = u /\ reply[r].event = e

Unanswered(u, e) == \E r \in AttendeeReqs : Waits(r, u, e)

\* The client told one thing may be told another by the answer to come.
SendBooking(r) ==
  /\ reply[r] = NoReply
  /\ \E u \in Users, e \in Events, op \in {"register", "cancel"} :
       /\ ~Unanswered(u, e)
       /\ Arrive(r, u, e, op)
       /\ told' = [told EXCEPT ![e][u] = "nothing"]
  /\ UNCHANGED <<responseFirst, reply>>

SendManaging(r) ==
  /\ reply[r] = NoReply
  /\ \E u \in Users, e \in Events :
       CreateEvent(r, u, e) \/ UpdateEvent(r, u, e) \/ DeleteEvent(r, u, e)
  /\ UNCHANGED clientVars

Work(r) ==
  /\ \/ GetByIdForUpdate(r) \/ RegisterForEvent(r) \/ CancelRegistration(r)
     \/ Flush(r) \/ Rollback(r)
  /\ UNCHANGED clientVars

Hear(answer) ==
  told' = IF answer.news = "nothing" THEN told
          ELSE [told EXCEPT ![answer.event][answer.user] = answer.news]

\* The response leaves while the transaction is still open.
AnswerBeforeCommit(r) ==
  /\ responseFirst /\ At(r, "flushed") /\ reply[r] = NoReply
  /\ reply' = [reply EXCEPT ![r] = ReplyOf(r, TRUE)]
  /\ Hear(ReplyOf(r, TRUE))
  /\ UNCHANGED <<vars, responseFirst>>

CommitAfterAnswer(r) ==
  /\ responseFirst /\ reply[r] # NoReply
  /\ Commit(r)
  /\ reply' = [reply EXCEPT ![r] = NoReply]
  /\ UNCHANGED <<responseFirst, told>>

CommitBeforeAnswer(r) ==
  /\ ~responseFirst /\ reply[r] = NoReply
  /\ Commit(r)
  /\ reply' = [reply EXCEPT ![r] = ReplyOf(r, FALSE)]
  /\ UNCHANGED <<responseFirst, told>>

AnswerAfterCommit(r) ==
  /\ ~responseFirst /\ reply[r] # NoReply
  /\ Hear(reply[r])
  /\ reply' = [reply EXCEPT ![r] = NoReply]
  /\ UNCHANGED <<vars, responseFirst>>

\* The worker dies: in the middle of the transaction or, its commit done,
\* with the response unsent.  The client sees a broken connection.
WorkerDies(r) ==
  /\ \/ Crash(r)
     \/ ~Active(r) /\ reply[r] # NoReply /\ UNCHANGED vars
  /\ reply' = [reply EXCEPT ![r] = NoReply]
  /\ UNCHANGED <<responseFirst, told>>

ClientsNext == \E r \in Requests :
  \/ SendBooking(r) \/ SendManaging(r) \/ Work(r)
  \/ AnswerBeforeCommit(r) \/ CommitAfterAnswer(r)
  \/ CommitBeforeAnswer(r) \/ AnswerAfterCommit(r)
  \/ WorkerDies(r)

ClientsSpec == ClientsInit /\ [][ClientsNext]_allVars

-----------------------------------------------------------------------------
(* Properties *)

\* A piece of news is what the database has.
IsSo(news, e, u) ==
  /\ news = "registered" => regs[e][u].registered = 1
  /\ news = "cancelled" => regs[e][u].registered = 0

\* What the client was last told about its place is so.
Kept(e, u) == IsSo(told[e][u], e, u)

\* The client has the answer of a transaction that has only its commit left.
Ending(e, u) ==
  \E r \in AttendeeReqs : /\ At(r, "flushed") /\ reply[r] # NoReply
                          /\ reply[r].user = u /\ reply[r].event = e

\* With the response after the commit, whatever a client has last been told
\* about its place is what the database has: a 201 is not taken back, a
\* cancellation stays (registration_service.py with get_db_session).
TruthfulAnswers == ~responseFirst => \A e \in Events, u \in Users : Kept(e, u)

\* Even with the response first, only the death of a worker can break what a
\* client was told: later requests of the same client find the row lock
\* taken and wait for the commit.
OnlyDeathBreaksPromises ==
  [][\/ \E r \in Requests : WorkerDies(r)
     \/ \A e \in Events, u \in Users :
          Kept(e, u) \/ Ending(e, u) => Kept(e, u)' \/ Ending(e, u)']_allVars
=============================================================================
