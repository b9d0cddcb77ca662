------------------------- MODULE PooledBookingProofs ------------------------
(***************************************************************************)
(* The pool changes nothing of what a booking promises, whatever its size  *)
(* and however many requests there are: PooledBooking implements           *)
(* EventBooking, and a connection goes back with nothing left on it.       *)
(***************************************************************************)
EXTENDS PooledBooking, EventBookingProofs, FiniteSetTheorems

\* Every step on a connection is a step of EventBooking, or none.
LEMMA PooledStep ==
  ASSUME [PooledNext]_pooledVars
  PROVE  [Next]_vars
<1>1. ASSUME NEW r \in Clients, AskConnection(r) \/ Checkout(r) \/ PoolTimeout(r)
      PROVE  UNCHANGED vars
  BY <1>1 DEF AskConnection, Checkout, PoolTimeout
<1>2. ASSUME NEW r \in Clients, ServeConnected(r)
      PROVE  [Next]_vars
  <2>1. CASE Unauthorized(r) \/ EndDescription(r)
    BY <2>1 DEF Unauthorized, EndDescription
  <2>2. CASE BeginConnected(r)
    BY <2>2 DEF BeginConnected, Next
  <2>3. CASE GoOn(r)
    BY <2>3 DEF GoOn, Next, Serve
  <2>4. CASE End(r)
    BY <2>4 DEF End, Next, Serve
  <2> QED BY <1>2, <2>1, <2>2, <2>3, <2>4 DEF ServeConnected
<1>3. ASSUME NEW r \in Clients, Die(r)
      PROVE  [Next]_vars
  BY <1>3 DEF Die, Next
<1>4. CASE UNCHANGED pooledVars
  BY <1>4 DEF pooledVars
<1> QED BY <1>1, <1>2, <1>3, <1>4 DEF PooledNext

\* Waiting for a connection and being turned away by the pool are invisible to
\* EventBooking: all its theorems hold behind the pool.
THEOREM PooledImplementsBooking == PooledSpec => Spec
<1>1. PooledInit => Init
  BY DEF PooledInit
<1>2. [PooledNext]_pooledVars => [Next]_vars
  BY PooledStep
<1> QED BY <1>1, <1>2, PTL DEF PooledSpec, Spec

-----------------------------------------------------------------------------
(* The holders of row locks *)

LockOwned == \A e \in Events : lock[e] # NoReq => Active(lock[e])

\* A row lock is taken by a request at work and given back when it ends.
LEMMA LockOwnedStep ==
  ASSUME TypeOK, LockOwned, [Next]_vars
  PROVE  LockOwned'
<1>1. ASSUME NEW r \in Requests, NEW u \in Users, NEW e \in Events,
             NEW op \in {"register", "cancel"}, Arrive(r, u, e, op)
      PROVE  LockOwned'
  BY <1>1 DEF Arrive, Call, TypeOK, LockOwned, Active, At
<1>2. ASSUME NEW r \in Requests, NEW u \in Users, NEW e \in Events, CreateEvent(r, u, e)
      PROVE  LockOwned'
  BY <1>2 DEF CreateEvent, Refused, Call, TypeOK, LockOwned, Active, At
<1>3. ASSUME NEW r \in Requests, NEW u \in Users, NEW e \in Events,
             UpdateEvent(r, u, e) \/ DeleteEvent(r, u, e)
      PROVE  LockOwned'
  BY <1>3 DEF UpdateEvent, DeleteEvent, Refused, Call, TypeOK, LockOwned, Active, At
<1>4. ASSUME NEW r \in Requests,
             GetByIdForUpdate(r) \/ RegisterForEvent(r) \/ CancelRegistration(r) \/ Flush(r)
      PROVE  LockOwned'
  <2>1. Active(r) /\ req[r] \in Served
    BY <1>4, TypeOfRequest
       DEF GetByIdForUpdate, RegisterForEvent, CancelRegistration, Flush, Active, At
  <2>2. /\ \A q \in Requests : Active(q) => Active(q)'
        /\ \A e \in Events : lock'[e] \in {lock[e], r}
    <3>1. ASSUME NEW code, Refuse(r, code)
          PROVE  \A q \in Requests : Active(q) => Active(q)'
      BY <3>1 DEF Refuse, Refused, Call, TypeOK, Active, At
    <3>2. ASSUME NEW want, NEW reg, Stage(r, want, reg)
          PROVE  \A q \in Requests : Active(q) => Active(q)'
      BY <2>1, <3>2 DEF Stage, TypeOK, Active, At, Served
    <3>3. CASE GetByIdForUpdate(r)
      <4>1. CASE req' = [req EXCEPT ![r] = [@ EXCEPT !.pc = "locked",
                           !.seen = events[req[r].event], !.want = events[req[r].event]]]
        BY <2>1, <3>3, <4>1 DEF GetByIdForUpdate, TypeOK, Active, At, Served
      <4>2. CASE Refuse(r, "not_found") /\ UNCHANGED lock
        BY <3>1, <4>2
      <4> QED BY <3>3, <4>1, <4>2 DEF GetByIdForUpdate
    <3>4. CASE RegisterForEvent(r) \/ CancelRegistration(r)
      BY <3>1, <3>2, <3>4 DEF RegisterForEvent, CancelRegistration
    <3>5. CASE Flush(r)
      <4>1. \A e \in Events : lock'[e] \in {lock[e], r}
        BY <3>5 DEF Flush, TypeOK
      <4>2. CASE req' = [req EXCEPT ![r] = [@ EXCEPT !.pc = "flushed"]]
        BY <2>1, <4>1, <4>2 DEF TypeOK, Active, At, Served
      <4> QED BY <3>1, <3>5, <4>1, <4>2 DEF Flush
    <3> QED BY <1>4, <3>3, <3>4, <3>5
  <2> QED BY <2>1, <2>2 DEF LockOwned, TypeOK
<1>5. ASSUME NEW r \in Requests, Commit(r) \/ Rollback(r) \/ Crash(r)
      PROVE  LockOwned'
  <2>1. /\ \A q \in Requests \ {r} : req'[q] = req[q]
        /\ lock' = LocksReleased(r)
    BY <1>5 DEF Commit, Rollback, Crash, TypeOK
  <2>2. \A e \in Events : lock'[e] = (IF lock[e] = r THEN NoReq ELSE lock[e])
    BY <2>1 DEF LocksReleased
  <2> QED BY <2>1, <2>2 DEF LockOwned, TypeOK, Active, At
<1>6. CASE UNCHANGED vars
  BY <1>6 DEF vars, LockOwned, Active, At
<1> QED BY <1>1, <1>2, <1>3, <1>4, <1>5, <1>6 DEF Next, Begin, Serve

-----------------------------------------------------------------------------
(* The connections *)

Connected == \A r \in Requests : Active(r) => conn[r] = "held"

PooledInv == TypeOK /\ LockOwned /\ PooledTypeOK /\ Connected

\* One more connection is lent only below the limit.
LEMMA HeldBounded ==
  ASSUME PooledTypeOK, NEW r \in Clients, NEW from, NEW to \in {"none", "waiting", "held"},
         Turn(r, from, to), to = "held" => Cardinality(Held) < MaxConns
  PROVE  PooledTypeOK'
<1>1. conn' \in [Clients -> {"none", "waiting", "held"}]
  BY DEF PooledTypeOK, Turn
<1>2. IsFiniteSet(Held) /\ Cardinality(Held) \in Nat /\ MaxConns \in Nat
  BY PoolAssumption, FS_Subset, FS_CardinalityType DEF Held
<1>3. CASE to = "held"
  <2>1. Held' = Held \cup {r}
    BY <1>3 DEF PooledTypeOK, Turn, Held
  <2>2. Cardinality(Held \cup {r}) \in {Cardinality(Held), Cardinality(Held) + 1}
    BY <1>2, FS_AddElement
  <2>3. Cardinality(Held') <= MaxConns
    BY <1>2, <1>3, <2>1, <2>2
  <2> QED BY <1>1, <2>3 DEF PooledTypeOK
<1>4. CASE to # "held"
  <2>1. Held' \in SUBSET Held
    BY <1>4 DEF PooledTypeOK, Turn, Held
  <2>2. Cardinality(Held') <= Cardinality(Held) /\ Cardinality(Held') \in Nat
    BY <1>2, <2>1, FS_Subset, FS_CardinalityType
  <2> QED BY <1>1, <1>2, <2>2 DEF PooledTypeOK
<1> QED BY <1>3, <1>4

\* A request works on a connection it has, and leaves it when it ends.
LEMMA PooledInvStep ==
  ASSUME PooledInv, [PooledNext]_pooledVars, TypeOK'
  PROVE  PooledInv'
<1> USE DEF PooledInv
<1>1. LockOwned'
  BY PooledStep, LockOwnedStep
<1>2. ASSUME NEW r \in Clients, AskConnection(r) \/ Checkout(r) \/ PoolTimeout(r)
      PROVE  PooledTypeOK' /\ Connected'
  <2>1. PooledTypeOK'
    BY <1>2, HeldBounded DEF AskConnection, Checkout, PoolTimeout
  <2>2. Connected'
    BY <1>2 DEF AskConnection, Checkout, PoolTimeout, Turn, Connected, PooledTypeOK, Active, At,
                vars, Clients
  <2> QED BY <2>1, <2>2
<1>3. ASSUME NEW r \in Clients, Unauthorized(r) \/ EndDescription(r)
      PROVE  PooledTypeOK' /\ Connected'
  <2>1. PooledTypeOK'
    BY <1>3, HeldBounded DEF Unauthorized, EndDescription
  <2>2. UNCHANGED req /\ (r \in Requests => ~Active(r))
    BY <1>3, PoolAssumption DEF Unauthorized, EndDescription, vars, Active
  <2>3. Connected'
    BY <1>3, <2>2 DEF Unauthorized, EndDescription, Turn, Connected, PooledTypeOK, Active, At,
                      Clients
  <2> QED BY <2>1, <2>3
<1>4. ASSUME NEW r \in Clients, BeginConnected(r) \/ GoOn(r)
      PROVE  PooledTypeOK' /\ Connected'
  <2>1. UNCHANGED conn /\ r \in Requests
    BY <1>4 DEF BeginConnected, GoOn
  <2>2. PooledTypeOK'
    BY <2>1 DEF PooledTypeOK, Held
  <2>3. conn[r] = "held"
    BY <1>4 DEF BeginConnected, GoOn, Connected, GetByIdForUpdate, RegisterForEvent,
                CancelRegistration, Flush, Active, At
  <2>4. \A q \in Requests \ {r} : req'[q] = req[q]
    BY <1>4, <2>1 DEF BeginConnected, GoOn, Begin, Arrive, CreateEvent, UpdateEvent, DeleteEvent,
                GetByIdForUpdate, RegisterForEvent, CancelRegistration, Flush, Refuse, Stage,
                TypeOK
  <2> QED BY <2>1, <2>2, <2>3, <2>4 DEF Connected, Active, At
<1>5. ASSUME NEW r \in Clients, End(r)
      PROVE  PooledTypeOK' /\ Connected'
  <2>1. PooledTypeOK'
    BY <1>5, HeldBounded DEF End
  <2>2. req' = [req EXCEPT ![r] = Idle] /\ r \in Requests /\ Turn(r, "held", "none")
    BY <1>5 DEF End, Commit, Rollback
  <2> QED BY <2>1, <2>2 DEF Turn, Connected, PooledTypeOK, TypeOK, Active, At, Idle, Clients
<1>6. ASSUME NEW r \in Clients, Die(r)
      PROVE  PooledTypeOK' /\ Connected'
  <2>1. Turn(r, conn[r], "none")
    BY <1>6 DEF Die, Turn
  <2>2. PooledTypeOK'
    BY <2>1, HeldBounded
  <2>3. /\ \A q \in Requests \ {r} : req'[q] = req[q]
        /\ r \in Requests => ~Active(r)'
    BY <1>6 DEF Die, Crash, vars, TypeOK, Active, At, Idle
  <2> QED BY <2>1, <2>2, <2>3 DEF Turn, Connected, PooledTypeOK, Active, At, Clients
<1>7. CASE UNCHANGED pooledVars
  BY <1>1, <1>7 DEF pooledVars, vars, PooledTypeOK, Held, Connected, Active, At
<1> QED BY <1>1, <1>2, <1>3, <1>4, <1>5, <1>6, <1>7 DEF PooledNext, ServeConnected

\* An active request holds a connection, and a row lock belongs to an active request.
THEOREM PooledInvariant == PooledSpec => []PooledInv
<1>1. PooledInit => PooledInv
  <2> SUFFICES ASSUME PooledInit PROVE PooledInv
    OBVIOUS
  <2>1. Init /\ conn = [r \in Clients |-> "none"]
    BY DEF PooledInit
  <2>2. Held = {} /\ Cardinality(Held) = 0
    BY <2>1, FS_EmptySet DEF Held
  <2>3. PooledTypeOK
    BY <2>1, <2>2, PoolAssumption DEF PooledTypeOK
  <2>4. LockOwned /\ Connected
    BY <2>1 DEF Init, LockOwned, Connected, Active, At, Idle
  <2>5. TypeOK
    BY <2>1 DEF Init, TypeOK, RegRows
  <2> QED BY <2>3, <2>4, <2>5 DEF PooledInv
<1>2. PooledInv /\ [PooledNext]_pooledVars /\ TypeOK' => PooledInv'
  BY PooledInvStep
<1> QED BY <1>1, <1>2, PooledImplementsBooking, TypeCorrect, PTL DEF PooledSpec

\* Never more connections than the pool may open, for any number of requests.
THEOREM PoolBounded == PooledSpec => []PooledTypeOK
<1>1. PooledInv => PooledTypeOK
  BY DEF PooledInv
<1> QED BY <1>1, PooledInvariant, PTL

\* No transaction and no row lock stays behind on a connection in the pool.
THEOREM ConnectionsClean == PooledSpec => []NothingLeftBehind
<1>1. PooledInv => NothingLeftBehind
  BY DEF PooledInv, NothingLeftBehind, Connected, LockOwned, TypeOK
<1> QED BY <1>1, PooledInvariant, PTL
=============================================================================
