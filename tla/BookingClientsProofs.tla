------------------------ MODULE BookingClientsProofs -----------------------
(***************************************************************************)
(* What clients are told is so, for any number of clients, requests and    *)
(* managers: always where the response leaves after the commit, and up to  *)
(* the death of a worker where it leaves before.                           *)
(***************************************************************************)
EXTENDS BookingClients, EventBookingProofs

ClientStep(r) ==
  \/ SendBooking(r) \/ SendManaging(r) \/ Work(r)
  \/ AnswerBeforeCommit(r) \/ CommitAfterAnswer(r)
  \/ CommitBeforeAnswer(r) \/ AnswerAfterCommit(r)
  \/ WorkerDies(r)

\* What a client sees of a request are steps of EventBooking and answers.
LEMMA ClientStepIsStep ==
  ASSUME NEW r \in Requests, ClientStep(r)
  PROVE  Step(r) \/ UNCHANGED vars
<1>1. SendBooking(r) \/ SendManaging(r) => Step(r)
  BY DEF SendBooking, SendManaging, Step, Begin
<1>2. Work(r) \/ CommitAfterAnswer(r) \/ CommitBeforeAnswer(r) => Step(r)
  BY DEF Work, CommitAfterAnswer, CommitBeforeAnswer, Step, Serve
<1>3. WorkerDies(r) => Step(r) \/ UNCHANGED vars
  BY DEF WorkerDies, Step
<1>4. AnswerBeforeCommit(r) \/ AnswerAfterCommit(r) => UNCHANGED vars
  BY DEF AnswerBeforeCommit, AnswerAfterCommit
<1> QED BY <1>1, <1>2, <1>3, <1>4 DEF ClientStep

\* So is every step of all of them.
LEMMA ClientsNextIsNext ==
  ASSUME [ClientsNext]_allVars
  PROVE  [Next]_vars
<1>1. ASSUME NEW r \in Requests, ClientStep(r)
      PROVE  [Next]_vars
  BY <1>1, ClientStepIsStep DEF Step, Next
<1>2. CASE UNCHANGED allVars
  BY <1>2 DEF allVars
<1> QED BY <1>1, <1>2 DEF ClientsNext, ClientStep

\* The clients change nothing of what EventBooking does: all its theorems hold
\* in their presence.
THEOREM ClientsImplementBooking == ClientsSpec => Spec
<1>1. ClientsInit => Init
  BY DEF ClientsInit
<1>2. [ClientsNext]_allVars => [Next]_vars
  BY ClientsNextIsNext
<1> QED BY <1>1, <1>2, PTL DEF ClientsSpec, Spec

-----------------------------------------------------------------------------
(* What a booking that is about to commit has found *)

\* A registration that writes nothing has found its user registered.
FoundPlace(r) ==
  Active(r) /\ r \in AttendeeReqs /\ Decided(r) /\ req[r].reg = "keep" =>
    req[r].op = "register" /\ Mine(r).registered = 1

FoundPlaces == \A r \in Requests : FoundPlace(r)

\* It stays so until the commit, for the request holds the row lock.
LEMMA FoundPlacesStep ==
  ASSUME BookingInv, FoundPlaces, [Next]_vars
  PROVE  FoundPlaces'
<1>1. TypeOK
  BY DEF BookingInv
<1>2. ASSUME NEW r \in Requests, Step(r)
      PROVE  FoundPlaces'
  <2>1. ASSUME NEW q \in Requests, q # r
        PROVE  FoundPlace(q)'
    <3> SUFFICES ASSUME Active(q), q \in AttendeeReqs, Decided(q), req[q].reg = "keep"
                 PROVE  (req[q].op = "register" /\ Mine(q).registered = 1)'
      BY <1>2, <2>1, OthersUntouched DEF FoundPlace, Active, At, Decided
    <3>1. lock[req[q].event] = q /\ req[q].event \in Events
      BY <1>1, TypeOfRequest DEF BookingInv, RequestInv, HoldsLock
    <3>2. req'[q] = req[q] /\ regs'[req[q].event] = regs[req[q].event]
      BY <1>2, <2>1, <3>1, OthersUntouched
    <3> QED BY <3>2 DEF FoundPlaces, FoundPlace, Mine
  <2>2. FoundPlace(r)'
    <3>1. ASSUME Begin(r)
          PROVE  FoundPlace(r)'
      <4>1. CASE r \in ManagerReqs
        BY <4>1, BookingAssumption DEF FoundPlace
      <4>2. ASSUME NEW u \in Users, NEW e \in Events, NEW op \in {"register", "cancel"},
                   Arrive(r, u, e, op)
            PROVE  FoundPlace(r)'
        BY <1>1, <4>2 DEF Arrive, Call, FoundPlace, Decided, TypeOK
      <4> QED BY <3>1, <4>1, <4>2 DEF Begin, CreateEvent, UpdateEvent, DeleteEvent
    <3>2. ASSUME GetByIdForUpdate(r)
          PROVE  FoundPlace(r)'
      <4>1. Active(r) /\ req[r] \in Served
        BY <3>2, <1>1, TypeOfRequest DEF GetByIdForUpdate, At, Active
      <4>2. req'[r].pc \in {"failed", "locked"}
        <5>1. CASE Refuse(r, "not_found")
          BY <1>1, <5>1 DEF Refuse, Refused, Call, TypeOK
        <5>2. CASE req' = [req EXCEPT ![r] = [@ EXCEPT !.pc = "locked",
                             !.seen = events[req[r].event], !.want = events[req[r].event]]]
          BY <1>1, <4>1, <5>2 DEF TypeOK, Served
        <5> QED BY <3>2, <5>1, <5>2 DEF GetByIdForUpdate
      <4> QED BY <4>2 DEF FoundPlace, Decided
    <3>3. ASSUME RegisterForEvent(r)
          PROVE  FoundPlace(r)'
      <4>1. Active(r) /\ req[r] \in Served /\ regs' = regs /\ req[r].op = "register"
        BY <3>3, <1>1, TypeOfRequest DEF RegisterForEvent, At, Active
      <4>2. CASE Refuse(r, RegisterRefusal(r))
        BY <1>1, <4>2 DEF Refuse, Refused, Call, FoundPlace, Decided, TypeOK
      <4>3. CASE Mine(r).registered = 1 /\ Stage(r, req[r].seen, "keep")
        <5>1. /\ req'[r].op = "register"
              /\ req'[r].event = req[r].event /\ req'[r].user = req[r].user
          BY <1>1, <4>1, <4>3 DEF Stage, TypeOK, Served
        <5> QED BY <4>1, <4>3, <5>1 DEF FoundPlace, Mine
      <4>4. CASE Stage(r, [req[r].seen EXCEPT !.available_slots = @ - 1],
                       IF Mine(r).cancelled = 1 THEN "reactivate" ELSE "insert")
        <5>1. req'[r].reg = IF Mine(r).cancelled = 1 THEN "reactivate" ELSE "insert"
          BY <1>1, <4>1, <4>4 DEF Stage, TypeOK, Served
        <5> QED BY <5>1 DEF FoundPlace
      <4> QED BY <3>3, <4>2, <4>3, <4>4 DEF RegisterForEvent
    <3>4. ASSUME CancelRegistration(r)
          PROVE  FoundPlace(r)'
      <4>1. Active(r) /\ req[r] \in Served
        BY <3>4, <1>1, TypeOfRequest DEF CancelRegistration, At, Active
      <4>2. ASSUME NEW code \in Codes, Refuse(r, code)
            PROVE  FoundPlace(r)'
        BY <1>1, <4>2 DEF Refuse, Refused, Call, FoundPlace, Decided, TypeOK
      <4>3. CASE Stage(r, [req[r].seen EXCEPT !.available_slots = @ + 1], "cancel")
        <5>1. req'[r].reg = "cancel"
          BY <1>1, <4>1, <4>3 DEF Stage, TypeOK, Served
        <5> QED BY <5>1 DEF FoundPlace
      <4> QED BY <3>4, <4>2, <4>3 DEF CancelRegistration, Codes
    <3>5. ASSUME Flush(r)
          PROVE  FoundPlace(r)'
      <4>1. Active(r) /\ Decided(r) /\ req[r] \in Served /\ regs' = regs
        BY <3>5, <1>1, TypeOfRequest DEF Flush, At, Active, Decided
      <4>2. CASE Refuse(r, "internal_error")
        BY <1>1, <4>2 DEF Refuse, Refused, Call, FoundPlace, Decided, TypeOK
      <4>3. CASE req' = [req EXCEPT ![r] = [@ EXCEPT !.pc = "flushed"]]
        <5>1. /\ req'[r].op = req[r].op /\ req'[r].reg = req[r].reg
              /\ req'[r].event = req[r].event /\ req'[r].user = req[r].user
          BY <1>1, <4>1, <4>3 DEF TypeOK, Served
        <5> QED BY <4>1, <5>1 DEF FoundPlaces, FoundPlace, Mine
      <4> QED BY <3>5, <4>2, <4>3 DEF Flush
    <3>6. ASSUME Commit(r) \/ Rollback(r) \/ Crash(r)
          PROVE  FoundPlace(r)'
      BY <1>1, <3>6 DEF Commit, Rollback, Crash, Idle, FoundPlace, Decided, TypeOK
    <3> QED BY <1>2, <3>1, <3>2, <3>3, <3>4, <3>5, <3>6 DEF Step, Serve
  <2> QED BY <2>1, <2>2 DEF FoundPlaces
<1>3. CASE UNCHANGED vars
  BY <1>3 DEF vars, FoundPlaces, FoundPlace, Active, At, Decided, Mine
<1> QED BY <1>2, <1>3 DEF Next, Step

\* A commit makes true what its client is told, and touches nobody else's place.
LEMMA CommitMakesTrue ==
  ASSUME BookingInv, FoundPlaces, NEW r \in Requests, Commit(r)
  PROVE  LET e == req[r].event
             u == req[r].user
         IN /\ NewsOf(r) = "registered" => regs'[e][u].registered = 1
            /\ NewsOf(r) = "cancelled" => regs'[e][u].registered = 0
            /\ \A f \in Events, v \in Users : f # e \/ v # u => regs'[f][v] = regs[f][v]
            /\ r \in ManagerReqs => regs' = regs /\ NewsOf(r) = "nothing"
<1> DEFINE e == req[r].event
           u == req[r].user
<1>1. /\ TypeOK /\ At(r, "flushed") /\ Active(r) /\ Decided(r) /\ RequestInv(r)
      /\ e \in Events /\ u \in Users /\ req[r].reg \in RegWrites
  BY TypeOfRequest DEF Commit, BookingInv, At, Active, Decided
<1>2. \A f \in Events, v \in Users : f # e \/ v # u => regs'[f][v] = regs[f][v]
  BY <1>1 DEF Commit, TypeOK
<1>3. regs'[e][u] = RegWritten(Mine(r), req[r].reg)
  BY <1>1 DEF Commit, TypeOK, Mine
<1>4. ASSUME r \in ManagerReqs
      PROVE  regs' = regs /\ NewsOf(r) = "nothing"
  <2>1. req[r].reg = "keep" /\ req[r].op \in {"create", "update", "delete"}
    BY <1>1, <1>4 DEF RequestInv, ManagerWork
  <2>2. RegWritten(Mine(r), req[r].reg) = Mine(r)
    BY <2>1 DEF RegWritten
  <2> QED BY <1>1, <2>1, <2>2 DEF Commit, Mine, TypeOK, NewsOf
<1>5. ASSUME r \in AttendeeReqs
      PROVE  /\ NewsOf(r) = "registered" => regs'[e][u].registered = 1
             /\ NewsOf(r) = "cancelled" => regs'[e][u].registered = 0
  <2>1. req[r].op \in {"register", "cancel"}
    BY <1>1, <1>5 DEF RequestInv, AttendeeWork
  <2>2. CASE req[r].reg = "keep"
    BY <1>1, <1>3, <1>5, <2>2, RegCommitted DEF FoundPlaces, FoundPlace, NewsOf
  <2>3. CASE Activates(r)
    <3>1. req[r].op = "register"
      BY <1>1, <1>5, <2>3 DEF RequestInv, AttendeeWork
    <3> QED BY <1>1, <1>3, <2>3, <3>1, RegCommitted DEF NewsOf
  <2>4. CASE req[r].reg = "cancel"
    <3>1. req[r].op = "cancel"
      BY <1>1, <1>5, <2>4 DEF RequestInv, AttendeeWork
    <3> QED BY <1>1, <1>3, <2>4, <3>1, RegCommitted DEF NewsOf
  <2> QED BY <1>1, <2>2, <2>3, <2>4 DEF RegWrites, Activates
<1> QED BY <1>2, <1>4, <1>5 DEF Requests

-----------------------------------------------------------------------------
(* Types *)

\* The response of a request under way.
LEMMA ReplyType ==
  ASSUME TypeOK, NEW r \in Requests, Active(r), NEW sent \in BOOLEAN
  PROVE  ReplyOf(r, sent) \in Reply
BY TypeOfRequest DEF ReplyOf, Reply, NewsOf, News

\* Every step of a client keeps the types of the answers.
LEMMA AnswerTypes ==
  ASSUME TypeOK, ClientsTypeOK, [ClientsNext]_allVars
  PROVE  ClientsTypeOK'
<1>1. ASSUME NEW r \in Requests, Active(r), NEW sent \in BOOLEAN
      PROVE  ReplyOf(r, sent) \in Reply
  BY <1>1, ReplyType
<1>2. ASSUME NEW answer \in Reply, Hear(answer)
      PROVE  told' \in [Events -> [Users -> News]]
  BY <1>2 DEF Hear, Reply, ClientsTypeOK
<1>3. ASSUME NEW r \in Requests, SendBooking(r)
      PROVE  ClientsTypeOK'
  BY <1>3 DEF SendBooking, ClientsTypeOK, News
<1>4. ASSUME NEW r \in Requests, SendManaging(r) \/ Work(r)
      PROVE  ClientsTypeOK'
  BY <1>4 DEF SendManaging, Work, clientVars, ClientsTypeOK
<1>5. ASSUME NEW r \in Requests, AnswerBeforeCommit(r)
      PROVE  ClientsTypeOK'
  <2>1. ReplyOf(r, TRUE) \in Reply
    BY <1>1, <1>5 DEF AnswerBeforeCommit, At, Active
  <2> QED BY <1>2, <1>5, <2>1 DEF AnswerBeforeCommit, ClientsTypeOK
<1>6. ASSUME NEW r \in Requests, CommitBeforeAnswer(r)
      PROVE  ClientsTypeOK'
  <2>1. ReplyOf(r, FALSE) \in Reply
    BY <1>1, <1>6 DEF CommitBeforeAnswer, Commit, At, Active
  <2> QED BY <1>6, <2>1 DEF CommitBeforeAnswer, ClientsTypeOK
<1>7. ASSUME NEW r \in Requests, AnswerAfterCommit(r)
      PROVE  ClientsTypeOK'
  <2>1. reply[r] \in Reply
    BY <1>7 DEF AnswerAfterCommit, ClientsTypeOK
  <2> QED BY <1>2, <1>7, <2>1 DEF AnswerAfterCommit, ClientsTypeOK
<1>8. ASSUME NEW r \in Requests, CommitAfterAnswer(r) \/ WorkerDies(r)
      PROVE  ClientsTypeOK'
  BY <1>8 DEF CommitAfterAnswer, WorkerDies, ClientsTypeOK
<1>9. CASE UNCHANGED allVars
  BY <1>9 DEF allVars, clientVars, ClientsTypeOK
<1> QED BY <1>3, <1>4, <1>5, <1>6, <1>7, <1>8, <1>9 DEF ClientsNext

-----------------------------------------------------------------------------
(* The response after the commit *)

\* The answer of a request that has committed, on its way, is true.
AnswerOnItsWay(r) ==
  reply[r] # NoReply =>
    /\ ~Active(r) /\ ~reply[r].sent
    /\ IsSo(reply[r].news, reply[r].event, reply[r].user)
    /\ r \in ManagerReqs => reply[r].news = "nothing"

\* A client waits for one answer about an event at a time, and has forgotten the
\* one before.
OneAtATime(u, e) ==
  /\ \A r, q \in AttendeeReqs : Waits(r, u, e) /\ Waits(q, u, e) => r = q
  /\ Unanswered(u, e) => told[e][u] = "nothing"

CommitFirstInv == ~responseFirst =>
  /\ \A r \in Requests : AnswerOnItsWay(r)
  /\ \A e \in Events, u \in Users : OneAtATime(u, e) /\ Kept(e, u)

\* What the step of one request leaves of the waiting of the others.
LEMMA OthersWait ==
  ASSUME BookingInv, ClientsTypeOK, NEW r \in Requests, ClientStep(r),
         NEW q \in Requests, q # r
  PROVE  /\ req'[q] = req[q] /\ reply'[q] = reply[q]
         /\ \A u, e : Waits(q, u, e)' <=> Waits(q, u, e)
<1>1. req'[q] = req[q]
  BY ClientStepIsStep, OthersUntouched DEF vars
<1>2. reply'[q] = reply[q]
  BY DEF ClientStep, SendBooking, SendManaging, Work, AnswerBeforeCommit, CommitAfterAnswer,
         CommitBeforeAnswer, AnswerAfterCommit, WorkerDies, clientVars, ClientsTypeOK
<1> QED BY <1>1, <1>2 DEF Waits, Active, At

\* Serving a request leaves it with its client and its event, or ends it.
LEMMA WorkFor ==
  ASSUME TypeOK, NEW r \in Requests, Work(r)
  PROVE  /\ Active(r) /\ reply' = reply /\ told' = told /\ regs' = regs
         /\ Active(r)' => req'[r].user = req[r].user /\ req'[r].event = req[r].event
<1>1. Active(r) /\ req[r] \in Served
  BY TypeOfRequest DEF Work, GetByIdForUpdate, RegisterForEvent, CancelRegistration, Flush,
                       Rollback, Active, At
<1>2. reply' = reply /\ told' = told /\ regs' = regs
  BY DEF Work, clientVars, GetByIdForUpdate, RegisterForEvent, CancelRegistration, Flush, Rollback
<1>3. ASSUME NEW code, Refuse(r, code)
      PROVE  req'[r].user = req[r].user /\ req'[r].event = req[r].event
  BY <1>3 DEF Refuse, Refused, Call, TypeOK
<1>4. ASSUME NEW want, NEW reg, Stage(r, want, reg)
      PROVE  req'[r].user = req[r].user /\ req'[r].event = req[r].event
  BY <1>1, <1>4 DEF Stage, TypeOK, Served
<1>5. ASSUME GetByIdForUpdate(r)
      PROVE  req'[r].user = req[r].user /\ req'[r].event = req[r].event
  <2>1. CASE req' = [req EXCEPT ![r] = [@ EXCEPT !.pc = "locked",
                       !.seen = events[req[r].event], !.want = events[req[r].event]]]
    BY <1>1, <2>1 DEF TypeOK, Served
  <2> QED BY <1>3, <1>5, <2>1 DEF GetByIdForUpdate
<1>6. ASSUME RegisterForEvent(r) \/ CancelRegistration(r)
      PROVE  req'[r].user = req[r].user /\ req'[r].event = req[r].event
  BY <1>3, <1>4, <1>6 DEF RegisterForEvent, CancelRegistration
<1>7. ASSUME Flush(r)
      PROVE  req'[r].user = req[r].user /\ req'[r].event = req[r].event
  <2>1. CASE req' = [req EXCEPT ![r] = [@ EXCEPT !.pc = "flushed"]]
    BY <1>1, <2>1 DEF TypeOK, Served
  <2> QED BY <1>3, <1>7, <2>1 DEF Flush
<1>8. ASSUME Rollback(r)
      PROVE  ~Active(r)'
  BY <1>8 DEF Rollback, TypeOK, Active, At, Idle
<1> QED BY <1>1, <1>2, <1>5, <1>6, <1>7, <1>8 DEF Work

\* No step of a request but the sending of it makes its client wait.
LEMMA WaitsSince ==
  ASSUME BookingInv, ClientsTypeOK, CommitFirstInv, ~responseFirst,
         NEW r \in AttendeeReqs, ClientStep(r), ~SendBooking(r),
         NEW u, NEW e, Waits(r, u, e)'
  PROVE  Waits(r, u, e)
<1>1. TypeOK /\ r \in Requests /\ r \notin ManagerReqs
  BY BookingAssumption DEF BookingInv, Requests
<1>2. ~SendManaging(r) /\ ~AnswerBeforeCommit(r) /\ ~CommitAfterAnswer(r)
  BY <1>1 DEF SendManaging, CreateEvent, UpdateEvent, DeleteEvent, AnswerBeforeCommit,
              CommitAfterAnswer
<1>3. CASE Work(r)
  BY <1>1, <1>3, WorkFor DEF Waits
<1>4. CASE CommitBeforeAnswer(r)
  <2>1. req'[r].pc = "idle" /\ Active(r) /\ reply[r] = NoReply
    BY <1>1, <1>4 DEF CommitBeforeAnswer, Commit, TypeOK, Idle, At, Active
  <2>2. reply'[r] = ReplyOf(r, FALSE)
    BY <1>1, <1>4 DEF CommitBeforeAnswer, ClientsTypeOK
  <2> QED BY <2>1, <2>2 DEF Waits, Active, At, ReplyOf
<1>5. CASE AnswerAfterCommit(r)
  <2>1. reply'[r] = NoReply /\ ~Active(r)'
    BY <1>1, <1>5 DEF AnswerAfterCommit, ClientsTypeOK, vars, CommitFirstInv, AnswerOnItsWay,
                      Active, At
  <2> QED BY <2>1 DEF Waits
<1>6. CASE WorkerDies(r)
  <2>1. reply'[r] = NoReply /\ ~Active(r)'
    BY <1>1, <1>6 DEF WorkerDies, Crash, ClientsTypeOK, TypeOK, vars, Active, At, Idle
  <2> QED BY <2>1 DEF Waits
<1> QED BY <1>2, <1>3, <1>4, <1>5, <1>6 DEF ClientStep

\* Clients that send nothing keep waiting for one answer at a time.
LEMMA StillOneAtATime ==
  ASSUME BookingInv, ClientsTypeOK, CommitFirstInv, ~responseFirst,
         NEW r \in Requests, ClientStep(r), ~SendBooking(r),
         NEW u \in Users, NEW e \in Events
  PROVE  /\ \A p, q \in AttendeeReqs : Waits(p, u, e)' /\ Waits(q, u, e)' => p = q
         /\ Unanswered(u, e)' => Unanswered(u, e)
<1>1. ASSUME NEW q \in AttendeeReqs, Waits(q, u, e)'
      PROVE  Waits(q, u, e)
  BY <1>1, OthersWait, WaitsSince DEF Requests
<1> QED BY <1>1 DEF CommitFirstInv, OneAtATime, Unanswered

\* The steps that leave the registrations and the news alone.
LEMMA QuietStep ==
  ASSUME BookingInv, ClientsTypeOK, CommitFirstInv, ~responseFirst,
         NEW r \in Requests, ClientStep(r), ~SendBooking(r),
         regs' = regs, told' = told, reply'[r] \in {NoReply, reply[r]},
         reply'[r] # NoReply => req'[r] = req[r],
         responseFirst' = responseFirst
  PROVE  CommitFirstInv'
<1>1. ASSUME NEW q \in Requests
      PROVE  AnswerOnItsWay(q)'
  BY OthersWait DEF CommitFirstInv, AnswerOnItsWay, IsSo, Active, At
<1>2. ASSUME NEW u \in Users, NEW e \in Events
      PROVE  OneAtATime(u, e)' /\ Kept(e, u)'
  BY StillOneAtATime DEF CommitFirstInv, OneAtATime, Kept, IsSo
<1> QED BY <1>1, <1>2 DEF CommitFirstInv

\* Where the response leaves after the commit, the invariant is kept.
LEMMA CommitFirstStep ==
  ASSUME BookingInv, FoundPlaces, ClientsTypeOK, CommitFirstInv, [ClientsNext]_allVars
  PROVE  CommitFirstInv'
<1>1. responseFirst' = responseFirst
  BY DEF ClientsNext, SendBooking, SendManaging, Work, AnswerBeforeCommit, CommitAfterAnswer,
         CommitBeforeAnswer, AnswerAfterCommit, WorkerDies, clientVars, allVars
<1>2. SUFFICES ASSUME ~responseFirst
               PROVE  CommitFirstInv'
  BY <1>1 DEF CommitFirstInv
<1>3. TypeOK
  BY DEF BookingInv
<1>4. ASSUME NEW r \in Requests, SendBooking(r)
      PROVE  CommitFirstInv'
  <2>1. PICK u \in Users, e \in Events, op \in {"register", "cancel"} :
          /\ ~Unanswered(u, e)
          /\ Arrive(r, u, e, op)
          /\ told' = [told EXCEPT ![e][u] = "nothing"]
    BY <1>4 DEF SendBooking
  <2>2. /\ reply[r] = NoReply /\ reply' = reply /\ regs' = regs /\ ClientStep(r)
        /\ req'[r].user = u /\ req'[r].event = e
    BY <1>3, <1>4, <2>1 DEF SendBooking, Arrive, Call, TypeOK, ClientStep
  <2>3. told'[e][u] = "nothing" /\ \A f \in Events, v \in Users :
          f # e \/ v # u => told'[f][v] = told[f][v]
    BY <2>1 DEF ClientsTypeOK
  <2>4. ASSUME NEW q \in Requests
        PROVE  AnswerOnItsWay(q)'
    BY <1>2, <2>2, OthersWait DEF CommitFirstInv, AnswerOnItsWay, IsSo, Active, At
  <2>5. ASSUME NEW f \in Events, NEW v \in Users
        PROVE  OneAtATime(v, f)' /\ Kept(f, v)'
    <3>1. \A q \in AttendeeReqs : Waits(q, v, f)' => Waits(q, v, f) \/ (q = r /\ v = u /\ f = e)
      BY <2>2, OthersWait DEF Waits, Requests
    <3>2. Kept(f, v)'
      BY <1>2, <2>2, <2>3 DEF CommitFirstInv, Kept, IsSo
    <3>3. CASE f = e /\ v = u
      BY <2>1, <2>3, <3>1, <3>2, <3>3 DEF OneAtATime, Unanswered
    <3>4. CASE f # e \/ v # u
      BY <1>2, <2>3, <3>1, <3>2, <3>4 DEF CommitFirstInv, OneAtATime, Unanswered
    <3> QED BY <3>3, <3>4
  <2> QED BY <2>4, <2>5 DEF CommitFirstInv
<1>5. ASSUME NEW r \in Requests, SendManaging(r)
      PROVE  CommitFirstInv'
  <2>1. /\ regs' = regs /\ told' = told /\ reply' = reply /\ reply[r] = NoReply
        /\ ClientStep(r) /\ ~SendBooking(r)
    BY <1>5, BookingAssumption
       DEF SendManaging, CreateEvent, UpdateEvent, DeleteEvent, clientVars, ClientStep,
           SendBooking, Arrive
  <2> QED BY <1>1, <1>2, <2>1, QuietStep
<1>6. ASSUME NEW r \in Requests, Work(r)
      PROVE  CommitFirstInv'
  <2>1. Active(r) /\ reply' = reply /\ told' = told /\ regs' = regs
    BY <1>3, <1>6, WorkFor
  <2>2. ClientStep(r) /\ ~SendBooking(r) /\ reply[r] = NoReply
    BY <1>2, <1>6, <2>1 DEF ClientStep, SendBooking, Arrive, CommitFirstInv, AnswerOnItsWay,
                            Active, At
  <2> QED BY <1>1, <1>2, <2>1, <2>2, QuietStep
<1>7. ASSUME NEW r \in Requests, CommitBeforeAnswer(r)
      PROVE  CommitFirstInv'
  <2> DEFINE e == req[r].event
             u == req[r].user
  <2>1. /\ Commit(r) /\ told' = told /\ reply[r] = NoReply /\ Active(r) /\ ClientStep(r)
        /\ ~SendBooking(r) /\ e \in Events /\ u \in Users
    BY <1>3, <1>7, TypeOfRequest
       DEF CommitBeforeAnswer, Commit, ClientStep, SendBooking, Arrive, At, Active
  <2>2. /\ reply'[r].user = u /\ reply'[r].event = e
        /\ reply'[r].news = NewsOf(r) /\ ~reply'[r].sent
    BY <1>7 DEF CommitBeforeAnswer, ClientsTypeOK, ReplyOf
  <2>3. ~Active(r)'
    BY <1>3, <2>1 DEF Commit, TypeOK, Active, At, Idle
  <2>4. /\ NewsOf(r) = "registered" => regs'[e][u].registered = 1
        /\ NewsOf(r) = "cancelled" => regs'[e][u].registered = 0
        /\ \A f \in Events, v \in Users : f # e \/ v # u => regs'[f][v] = regs[f][v]
        /\ r \in ManagerReqs => regs' = regs /\ NewsOf(r) = "nothing"
    BY <2>1, CommitMakesTrue
  <2>5. r \in AttendeeReqs => Waits(r, u, e)
    BY <2>1 DEF Waits
  <2>6. ASSUME NEW q \in Requests, q # r
        PROVE  AnswerOnItsWay(q)'
    <3> SUFFICES ASSUME reply[q] # NoReply
                 PROVE  IsSo(reply[q].news, reply[q].event, reply[q].user)'
      BY <1>2, <2>1, <2>6, OthersWait DEF CommitFirstInv, AnswerOnItsWay, IsSo, Active, At
    <3>1. /\ IsSo(reply[q].news, reply[q].event, reply[q].user) /\ ~reply[q].sent
          /\ reply[q].event \in Events /\ reply[q].user \in Users
          /\ q \in ManagerReqs => reply[q].news = "nothing"
          /\ reply'[q] = reply[q]
      BY <1>2, <2>1, <2>6, OthersWait
         DEF CommitFirstInv, AnswerOnItsWay, ClientsTypeOK, Reply
    <3>2. CASE regs'[reply[q].event][reply[q].user] = regs[reply[q].event][reply[q].user]
      BY <3>1, <3>2 DEF IsSo
    <3>3. CASE reply[q].event = e /\ reply[q].user = u /\ r \in AttendeeReqs
      <4>1. q \notin AttendeeReqs
        <5>1. q \in AttendeeReqs => Waits(q, u, e)
          BY <3>1, <3>3 DEF Waits
        <5> QED BY <1>2, <2>1, <2>5, <2>6, <3>3, <5>1 DEF CommitFirstInv, OneAtATime
      <4> QED BY <3>1, <4>1 DEF IsSo, Requests
    <3> QED BY <2>4, <3>1, <3>2, <3>3 DEF Requests
  <2>7. AnswerOnItsWay(r)'
    BY <2>2, <2>3, <2>4 DEF AnswerOnItsWay, IsSo
  <2>8. ASSUME NEW f \in Events, NEW v \in Users
        PROVE  OneAtATime(v, f)' /\ Kept(f, v)'
    <3>1. OneAtATime(v, f)'
      BY <1>2, <2>1, StillOneAtATime DEF CommitFirstInv, OneAtATime
    <3>2. CASE regs'[f][v] = regs[f][v]
      BY <1>2, <2>1, <3>1, <3>2 DEF CommitFirstInv, Kept, IsSo
    <3>3. CASE f = e /\ v = u /\ r \in AttendeeReqs
      <4>1. told'[f][v] = "nothing"
        BY <1>2, <2>1, <2>5, <3>3 DEF CommitFirstInv, OneAtATime, Unanswered
      <4> QED BY <3>1, <4>1 DEF Kept, IsSo
    <3> QED BY <2>4, <3>1, <3>2, <3>3 DEF Requests
  <2> QED BY <2>6, <2>7, <2>8 DEF CommitFirstInv
<1>8. ASSUME NEW r \in Requests, AnswerAfterCommit(r)
      PROVE  CommitFirstInv'
  <2> PICK e \in Events, u \in Users : reply[r].event = e /\ reply[r].user = u
    BY <1>8 DEF AnswerAfterCommit, ClientsTypeOK, Reply
  <2>1. /\ reply[r] # NoReply /\ reply'[r] = NoReply /\ UNCHANGED vars /\ Hear(reply[r])
        /\ ClientStep(r)
    BY <1>8 DEF AnswerAfterCommit, ClientStep, ClientsTypeOK
  <2>2. ~SendBooking(r)
    BY <2>1 DEF SendBooking
  <2>3. /\ ~reply[r].sent /\ IsSo(reply[r].news, e, u)
        /\ r \in ManagerReqs => reply[r].news = "nothing"
    BY <1>2, <2>1 DEF CommitFirstInv, AnswerOnItsWay
  <2>4. ASSUME NEW q \in Requests
        PROVE  AnswerOnItsWay(q)'
    BY <1>2, <2>1, OthersWait DEF CommitFirstInv, AnswerOnItsWay, IsSo, vars, Active, At
  <2>5. CASE reply[r].news = "nothing"
    BY <1>1, <1>2, <2>1, <2>2, <2>5, QuietStep DEF Hear, vars
  <2>6. CASE reply[r].news # "nothing"
    <3>1. r \in AttendeeReqs /\ Waits(r, u, e)
      BY <2>1, <2>3, <2>6 DEF Requests, Waits
    <3>2. told'[e][u] = reply[r].news /\ \A f \in Events, v \in Users :
            f # e \/ v # u => told'[f][v] = told[f][v]
      BY <2>1, <2>6 DEF Hear, ClientsTypeOK
    <3>3. ~Waits(r, u, e)'
      BY <1>2, <2>1 DEF Waits, CommitFirstInv, AnswerOnItsWay, vars, Active, At
    <3>4. ~Unanswered(u, e)'
      <4>1. ASSUME NEW q \in AttendeeReqs, Waits(q, u, e)'
            PROVE  FALSE
        <5>1. Waits(q, u, e) /\ q # r
          BY <2>1, <3>3, <4>1, OthersWait DEF Requests
        <5> QED BY <1>2, <2>1, <3>1, <5>1 DEF CommitFirstInv, OneAtATime
      <4> QED BY <4>1 DEF Unanswered
    <3>5. ASSUME NEW f \in Events, NEW v \in Users
          PROVE  OneAtATime(v, f)' /\ Kept(f, v)'
      <4>1. CASE f = e /\ v = u
        BY <1>2, <2>1, <2>2, <2>3, <3>2, <3>4, <4>1, StillOneAtATime
           DEF OneAtATime, Kept, IsSo, vars
      <4>2. CASE f # e \/ v # u
        BY <1>2, <2>1, <2>2, <3>2, <4>2, StillOneAtATime
           DEF CommitFirstInv, OneAtATime, Kept, IsSo, vars
      <4> QED BY <4>1, <4>2
    <3> QED BY <2>4, <3>5 DEF CommitFirstInv
  <2> QED BY <2>5, <2>6
<1>9. ASSUME NEW r \in Requests, WorkerDies(r)
      PROVE  CommitFirstInv'
  <2>1. /\ told' = told /\ regs' = regs /\ reply'[r] = NoReply /\ ClientStep(r)
    BY <1>9 DEF WorkerDies, Crash, ClientsTypeOK, ClientStep, vars
  <2>2. ~SendBooking(r)
    BY <1>9 DEF WorkerDies, Crash, SendBooking, Arrive, Active, At
  <2> QED BY <1>1, <1>2, <2>1, <2>2, QuietStep
<1>10. CASE UNCHANGED allVars
  <2>1. \A q, u, e : Waits(q, u, e)' <=> Waits(q, u, e)
    BY <1>10 DEF allVars, vars, clientVars, Waits, Active, At
  <2> QED BY <1>10, <2>1 DEF allVars, vars, clientVars, CommitFirstInv, AnswerOnItsWay,
             OneAtATime, Unanswered, Kept, IsSo, Active, At
<1>11. ~(\E r \in Requests : AnswerBeforeCommit(r) \/ CommitAfterAnswer(r))
  BY <1>2 DEF AnswerBeforeCommit, CommitAfterAnswer
<1> QED BY <1>4, <1>5, <1>6, <1>7, <1>8, <1>9, <1>10, <1>11 DEF ClientsNext

-----------------------------------------------------------------------------
(* The response before the commit *)

\* A request whose response has left has only its commit left, and its client
\* has heard nothing else about its place since.
AnsweredEarly(r) ==
  reply[r] # NoReply =>
    /\ At(r, "flushed") /\ reply[r] = ReplyOf(r, TRUE)
    /\ r \in AttendeeReqs => told[req[r].event][req[r].user] \in {"nothing", NewsOf(r)}

ResponseFirstInv == responseFirst => \A r \in Requests : AnsweredEarly(r)

\* Two bookings of one event are never both about to commit.
LEMMA OneAboutToCommit ==
  ASSUME BookingInv, NEW r \in AttendeeReqs, NEW q \in AttendeeReqs,
         At(r, "flushed"), At(q, "flushed"), req[r].event = req[q].event
  PROVE  r = q
BY DEF BookingInv, RequestInv, HoldsLock, Decided, Active, At, Requests

\* A manager's answer says nothing of anybody's place.
LEMMA ManagersNews ==
  ASSUME BookingInv, NEW r \in ManagerReqs, Active(r)
  PROVE  NewsOf(r) = "nothing"
BY DEF BookingInv, RequestInv, ManagerWork, NewsOf, Requests

\* Where the response leaves before the commit, the invariant is kept.
LEMMA ResponseFirstStep ==
  ASSUME BookingInv, ClientsTypeOK, ResponseFirstInv, [ClientsNext]_allVars
  PROVE  ResponseFirstInv'
<1>1. responseFirst' = responseFirst
  BY DEF ClientsNext, SendBooking, SendManaging, Work, AnswerBeforeCommit, CommitAfterAnswer,
         CommitBeforeAnswer, AnswerAfterCommit, WorkerDies, clientVars, allVars
<1>2. SUFFICES ASSUME responseFirst
               PROVE  \A q \in Requests : AnsweredEarly(q)'
  BY <1>1 DEF ResponseFirstInv
<1>3. TypeOK
  BY DEF BookingInv
<1>4. ASSUME NEW r \in Requests, ClientStep(r), NEW q \in Requests, q # r
      PROVE  AnsweredEarly(q)'
  <2>1. req'[q] = req[q] /\ reply'[q] = reply[q]
    BY <1>4, OthersWait
  <2> SUFFICES ASSUME reply[q] # NoReply
               PROVE  AnsweredEarly(q)'
    BY <2>1 DEF AnsweredEarly
  <2>2. AnsweredEarly(q) /\ At(q, "flushed") /\ req[q].event \in Events /\ req[q].user \in Users
    BY <1>2, <1>3, TypeOfRequest DEF ResponseFirstInv, AnsweredEarly, At, Active
  <2>3. ASSUME q \in AttendeeReqs
        PROVE  told'[req[q].event][req[q].user] \in {"nothing", NewsOf(q)}
    <3> DEFINE e == req[q].event
               u == req[q].user
    <3>1. told[e][u] \in {"nothing", NewsOf(q)}
      BY <2>2, <2>3 DEF AnsweredEarly
    <3>2. CASE told' = told
      BY <3>1, <3>2
    <3>3. CASE SendBooking(r)
      <4>1. told'[e][u] \in {"nothing", told[e][u]}
        BY <2>2, <3>3 DEF SendBooking, ClientsTypeOK
      <4> QED BY <3>1, <4>1
    <3>4. CASE AnswerBeforeCommit(r)
      <4>1. /\ At(r, "flushed") /\ Active(r) /\ Hear(ReplyOf(r, TRUE))
            /\ req[r].event \in Events /\ req[r].user \in Users
        BY <1>3, <3>4, TypeOfRequest DEF AnswerBeforeCommit, At, Active
      <4>2. CASE r \in ManagerReqs
        BY <3>1, <4>1, <4>2, ManagersNews DEF Hear, ReplyOf
      <4>3. CASE r \in AttendeeReqs
        <5>1. req[r].event # e
          BY <1>4, <2>2, <2>3, <4>1, <4>3, OneAboutToCommit
        <5>2. told'[e] = told[e]
          BY <2>2, <4>1, <5>1 DEF Hear, ReplyOf, ClientsTypeOK
        <5> QED BY <3>1, <5>2
      <4> QED BY <4>2, <4>3 DEF Requests
    <3> QED BY <1>2, <1>4, <3>2, <3>3, <3>4
            DEF ClientStep, SendManaging, Work, CommitAfterAnswer, CommitBeforeAnswer,
                AnswerAfterCommit, WorkerDies, clientVars
  <2> QED BY <2>1, <2>2, <2>3 DEF AnsweredEarly, ReplyOf, NewsOf, At
<1>5. ASSUME NEW r \in Requests, ClientStep(r)
      PROVE  AnsweredEarly(r)'
  <2>1. CASE SendBooking(r) \/ SendManaging(r)
    BY <2>1 DEF SendBooking, SendManaging, clientVars, AnsweredEarly
  <2>2. CASE Work(r)
    <3>1. ~At(r, "flushed") /\ reply' = reply
      BY <2>2 DEF Work, GetByIdForUpdate, RegisterForEvent, CancelRegistration, Flush, Rollback,
                  At, clientVars
    <3> QED BY <1>2, <3>1 DEF ResponseFirstInv, AnsweredEarly
  <2>3. CASE AnswerBeforeCommit(r)
    <3>1. /\ At(r, "flushed") /\ UNCHANGED vars /\ Hear(ReplyOf(r, TRUE))
          /\ reply'[r] = ReplyOf(r, TRUE)
          /\ req[r].event \in Events /\ req[r].user \in Users
      BY <1>3, <2>3, TypeOfRequest DEF AnswerBeforeCommit, ClientsTypeOK, At, Active
    <3>2. CASE NewsOf(r) # "nothing"
      BY <3>1, <3>2 DEF Hear, ReplyOf, NewsOf, ClientsTypeOK, AnsweredEarly, vars, At
    <3>3. CASE NewsOf(r) = "nothing"
      <4>1. r \notin AttendeeReqs
        BY <3>1, <3>3 DEF BookingInv, RequestInv, AttendeeWork, NewsOf, Active, At, Requests
      <4> QED BY <3>1, <4>1 DEF ReplyOf, NewsOf, AnsweredEarly, vars, At
    <3> QED BY <3>2, <3>3
  <2>4. CASE CommitAfterAnswer(r) \/ WorkerDies(r)
    BY <2>4 DEF CommitAfterAnswer, WorkerDies, ClientsTypeOK, AnsweredEarly
  <2> QED BY <1>2, <1>5, <2>1, <2>2, <2>3, <2>4 DEF ClientStep, CommitBeforeAnswer, AnswerAfterCommit
<1>6. CASE UNCHANGED allVars
  BY <1>2, <1>6 DEF allVars, vars, clientVars, ResponseFirstInv, AnsweredEarly, ReplyOf, NewsOf, At
<1> QED BY <1>4, <1>5, <1>6 DEF ClientsNext, ClientStep

\* What a client has been told is kept, or is about to become so, in every step but
\* a death.
LEMMA PromisesKept ==
  ASSUME BookingInv, FoundPlaces, ClientsTypeOK, ResponseFirstInv, responseFirst,
         NEW r \in Requests, ClientStep(r), ~WorkerDies(r),
         NEW e \in Events, NEW u \in Users, Kept(e, u) \/ Ending(e, u)
  PROVE  Kept(e, u)' \/ Ending(e, u)'
<1>1. TypeOK
  BY DEF BookingInv
<1>2. ASSUME NEW q \in AttendeeReqs, q # r, At(q, "flushed"), reply[q] # NoReply,
             reply[q].user = u, reply[q].event = e
      PROVE  Ending(e, u)'
  BY <1>2, OthersWait DEF Ending, At, Requests
<1>3. ASSUME At(r, "flushed"), reply[r] # NoReply
      PROVE  AnswerBeforeCommit(r) \/ CommitAfterAnswer(r)
  BY <1>3 DEF ClientStep, SendBooking, SendManaging, Arrive, CreateEvent, UpdateEvent, DeleteEvent,
              Work, GetByIdForUpdate, RegisterForEvent, CancelRegistration, Flush, Rollback,
              CommitBeforeAnswer, AnswerAfterCommit, At
<1>4. CASE CommitAfterAnswer(r)
  <2>1. /\ Commit(r) /\ reply[r] # NoReply /\ told' = told /\ At(r, "flushed")
        /\ req[r].event \in Events /\ req[r].user \in Users
    BY <1>1, <1>4, TypeOfRequest DEF CommitAfterAnswer, Commit, At, Active
  <2>2. AnsweredEarly(r)
    BY DEF ResponseFirstInv
  <2>3. CASE r \in AttendeeReqs /\ e = req[r].event /\ u = req[r].user
    <3>1. told'[e][u] \in {"nothing", NewsOf(r)}
      BY <2>1, <2>2, <2>3 DEF AnsweredEarly
    <3>2. /\ NewsOf(r) = "registered" => regs'[e][u].registered = 1
          /\ NewsOf(r) = "cancelled" => regs'[e][u].registered = 0
      BY <2>1, <2>3, CommitMakesTrue
    <3> QED BY <3>1, <3>2 DEF Kept, IsSo
  <2>4. CASE ~(r \in AttendeeReqs /\ e = req[r].event /\ u = req[r].user)
    <3>1. regs'[e][u] = regs[e][u]
      BY <2>1, <2>4, CommitMakesTrue DEF Requests
    <3>2. Kept(e, u) => Kept(e, u)'
      BY <2>1, <3>1 DEF Kept, IsSo
    <3>3. Ending(e, u) => Ending(e, u)'
      BY <1>2, <2>1, <2>2, <2>4 DEF Ending, AnsweredEarly, ReplyOf
    <3> QED BY <3>2, <3>3
  <2> QED BY <2>3, <2>4
<1>5. CASE AnswerBeforeCommit(r)
  <2>1. /\ At(r, "flushed") /\ Active(r) /\ UNCHANGED vars /\ Hear(ReplyOf(r, TRUE))
        /\ reply'[r] = ReplyOf(r, TRUE) /\ reply[r] = NoReply
        /\ req[r].event \in Events /\ req[r].user \in Users
    BY <1>1, <1>5, TypeOfRequest DEF AnswerBeforeCommit, ClientsTypeOK, At, Active
  <2>2. Ending(e, u) => Ending(e, u)'
    BY <1>2, <2>1 DEF Ending
  <2>3. CASE told'[e][u] = told[e][u]
    BY <2>1, <2>2, <2>3 DEF Kept, IsSo, vars
  <2>4. CASE told'[e][u] # told[e][u]
    <3>1. NewsOf(r) # "nothing" /\ e = req[r].event /\ u = req[r].user
      BY <2>1, <2>4 DEF Hear, ReplyOf, ClientsTypeOK
    <3>2. r \in AttendeeReqs
      BY <2>1, <3>1, ManagersNews DEF Requests
    <3>3. ReplyOf(r, TRUE) # NoReply
      BY <1>1, <2>1, ReplyType, ClientsAssumption
    <3> QED BY <2>1, <3>1, <3>2, <3>3 DEF Ending, ReplyOf, vars, At
  <2> QED BY <2>3, <2>4
<1>6. CASE ~CommitAfterAnswer(r) /\ ~AnswerBeforeCommit(r)
  <2>1. regs' = regs /\ told'[e][u] \in {"nothing", told[e][u]}
    <3>1. CASE SendBooking(r)
      BY <3>1 DEF SendBooking, Arrive, ClientsTypeOK
    <3>2. CASE SendManaging(r)
      BY <3>2 DEF SendManaging, CreateEvent, UpdateEvent, DeleteEvent, clientVars
    <3>3. CASE Work(r)
      BY <1>1, <3>3, WorkFor
    <3> QED BY <1>6, <3>1, <3>2, <3>3 DEF ClientStep, CommitBeforeAnswer, AnswerAfterCommit
  <2>2. Kept(e, u) => Kept(e, u)'
    BY <2>1 DEF Kept, IsSo
  <2>3. Ending(e, u) => Ending(e, u)'
    BY <1>2, <1>3, <1>6 DEF Ending
  <2> QED BY <2>2, <2>3
<1> QED BY <1>4, <1>5, <1>6

-----------------------------------------------------------------------------
(* Theorems *)

ClientsInv == /\ BookingInv /\ FoundPlaces /\ ClientsTypeOK
              /\ CommitFirstInv /\ ResponseFirstInv

\* The inductive invariant: what the answers on their way and the last answers of
\* the clients have to do with the tables, in both orders of commit and response.
THEOREM ClientsInvariant == ClientsSpec => []ClientsInv
<1>1. ClientsInit => FoundPlaces /\ ClientsTypeOK /\ CommitFirstInv /\ ResponseFirstInv
  <2> SUFFICES ASSUME ClientsInit
               PROVE  FoundPlaces /\ ClientsTypeOK /\ CommitFirstInv /\ ResponseFirstInv
    OBVIOUS
  <2>1. \A r \in Requests : ~Active(r) /\ reply[r] = NoReply
    BY DEF ClientsInit, Init, Active, At, Idle
  <2>2. \A u, e : ~Unanswered(u, e) /\ \A r \in AttendeeReqs : ~Waits(r, u, e)
    BY <2>1 DEF Unanswered, Waits, Requests
  <2>3. \A e \in Events, u \in Users : told[e][u] = "nothing"
    BY DEF ClientsInit
  <2> QED BY <2>1, <2>2, <2>3 DEF ClientsInit, FoundPlaces, FoundPlace, ClientsTypeOK, News,
             CommitFirstInv, AnswerOnItsWay, OneAtATime, Kept, IsSo, ResponseFirstInv, AnsweredEarly
<1>2. BookingInv /\ FoundPlaces /\ ClientsTypeOK /\ CommitFirstInv /\ ResponseFirstInv
        /\ [ClientsNext]_allVars
      => FoundPlaces' /\ ClientsTypeOK' /\ CommitFirstInv' /\ ResponseFirstInv'
  <2> SUFFICES ASSUME BookingInv, FoundPlaces, ClientsTypeOK, CommitFirstInv, ResponseFirstInv,
                      [ClientsNext]_allVars
               PROVE  FoundPlaces' /\ ClientsTypeOK' /\ CommitFirstInv' /\ ResponseFirstInv'
    OBVIOUS
  <2>1. [Next]_vars
    BY ClientsNextIsNext
  <2>2. TypeOK
    BY DEF BookingInv
  <2> QED BY <2>1, <2>2, FoundPlacesStep, AnswerTypes, CommitFirstStep, ResponseFirstStep
<1>3. ClientsSpec => []BookingInv
  BY ClientsImplementBooking, BookingInvariant, PTL
<1> QED BY <1>1, <1>2, <1>3, PTL DEF ClientsSpec, ClientsInv

\* The answers keep their types.
THEOREM ClientsTypeCorrect == ClientsSpec => []ClientsTypeOK
<1>1. ClientsInv => ClientsTypeOK
  BY DEF ClientsInv
<1> QED BY <1>1, ClientsInvariant, PTL

\* With the response after the commit, what a client was last told is so.
THEOREM AnswersAreTrue == ClientsSpec => []TruthfulAnswers
<1>1. ClientsInv => TruthfulAnswers
  BY DEF ClientsInv, CommitFirstInv, TruthfulAnswers
<1> QED BY <1>1, ClientsInvariant, PTL

\* In either order, only the death of a worker makes it untrue.
THEOREM OnlyDeathLies == ClientsSpec => OnlyDeathBreaksPromises
<1> DEFINE Promise == \/ \E r \in Requests : WorkerDies(r)
                      \/ \A e \in Events, u \in Users :
                           Kept(e, u) \/ Ending(e, u) => Kept(e, u)' \/ Ending(e, u)'
<1>1. ClientsInv /\ ClientsInv' /\ [ClientsNext]_allVars => [Promise]_allVars
  <2> SUFFICES ASSUME ClientsInv, ClientsInv', ClientsNext
               PROVE  Promise
    OBVIOUS
  <2>1. PICK r \in Requests : ClientStep(r)
    BY DEF ClientsNext, ClientStep
  <2>2. CASE responseFirst
    BY <2>1, <2>2, PromisesKept DEF ClientsInv
  <2>3. CASE ~responseFirst
    <3>1. responseFirst' = responseFirst
      BY <2>1 DEF ClientStep, SendBooking, SendManaging, Work, AnswerBeforeCommit,
                  CommitAfterAnswer, CommitBeforeAnswer, AnswerAfterCommit, WorkerDies, clientVars
    <3> QED BY <2>3, <3>1 DEF ClientsInv, CommitFirstInv
  <2> QED BY <2>2, <2>3
<1> QED BY <1>1, ClientsInvariant, PTL DEF ClientsSpec, OnlyDeathBreaksPromises
=============================================================================
