---------------------------- MODULE PooledBooking ---------------------------
(***************************************************************************)
(* EventBooking with the connections its requests need: the pool of the    *)
(* engine and get_db_session of app/core/database.py, get_current_user of  *)
(* app/api/v1/dependencies/auth.py.                                        *)
(*                                                                         *)
(* A request takes a connection for its first statement, the SELECT of the *)
(* current user, and keeps it until its transaction ends:                  *)
(*                                                                         *)
(*   none -> waiting -> held -> none                                       *)
(*                                                                         *)
(* so too a request for a description, which has nothing more to ask of    *)
(* the database and waits for OpenAI (module AiGeneration).  What the pool *)
(* itself does is modelled from how database.py sets it up.                *)
(***************************************************************************)
EXTENDS EventBooking

CONSTANTS DescribeReqs,   \* requests for a description served concurrently
          MaxConns        \* pool_size + max_overflow

Clients == Requests \cup DescribeReqs

ASSUME PoolAssumption == /\ DescribeReqs \cap Requests = {}
                         /\ IsFiniteSet(Clients)
                         /\ MaxConns \in Nat \ {0}

VARIABLE conn   \* the connection of each request

pooledVars == <<vars, conn>>

Held == {r \in Clients : conn[r] = "held"}

PooledTypeOK == /\ conn \in [Clients -> {"none", "waiting", "held"}]
                /\ Cardinality(Held) <= MaxConns

PooledInit == Init /\ conn = [r \in Clients |-> "none"]

Turn(r, from, to) == conn[r] = from /\ conn' = [conn EXCEPT ![r] = to]

-----------------------------------------------------------------------------
(* The pool *)

\* The request's first statement; a token that is not valid ends it before.
AskConnection(r) == Turn(r, "none", "waiting") /\ UNCHANGED vars

\* Mutant: an overflow without a limit.
CheckoutUnbounded(r) == Turn(r, "waiting", "held") /\ UNCHANGED vars

Checkout(r) ==
  /\ Cardinality(Held) < MaxConns
  /\ Turn(r, "waiting", "held")
  /\ UNCHANGED vars

\* pool_timeout: a 500 for a request that has done nothing yet.
PoolTimeout(r) == Turn(r, "waiting", "none") /\ UNCHANGED vars

\* get_current_user finds no active account: 401, and the session is closed.
Unauthorized(r) ==
  /\ r \in Requests => At(r, "idle")
  /\ Turn(r, "held", "none")
  /\ UNCHANGED vars

-----------------------------------------------------------------------------
(* The requests *)

\* The last attempt at OpenAI or the fallback has answered.
EndDescription(r) ==
  /\ r \in DescribeReqs
  /\ Turn(r, "held", "none")
  /\ UNCHANGED vars

BeginConnected(r) == r \in Requests /\ conn[r] = "held" /\ Begin(r) /\ UNCHANGED conn

GoOn(r) ==
  /\ r \in Requests
  /\ \/ GetByIdForUpdate(r) \/ RegisterForEvent(r) \/ CancelRegistration(r) \/ Flush(r)
  /\ UNCHANGED conn

\* Mutant: a booking that is recorded through a session of its own.
EndRecorded(r) ==
  /\ Cardinality(Held) < MaxConns
  /\ r \in Requests /\ (Commit(r) \/ Rollback(r)) /\ Turn(r, "held", "none")

\* The end of the transaction closes the session.
End(r) == r \in Requests /\ (Commit(r) \/ Rollback(r)) /\ Turn(r, "held", "none")

Die(r) ==
  /\ conn[r] # "none"
  /\ \/ r \in Requests /\ Crash(r)
     \/ (r \in Requests => At(r, "idle")) /\ UNCHANGED vars
  /\ conn' = [conn EXCEPT ![r] = "none"]

ServeConnected(r) ==
  BeginConnected(r) \/ Unauthorized(r) \/ GoOn(r) \/ End(r) \/ EndDescription(r)

PooledNext == \E r \in Clients :
  AskConnection(r) \/ Checkout(r) \/ PoolTimeout(r) \/ ServeConnected(r) \/ Die(r)

PooledSpec == PooledInit /\ [][PooledNext]_pooledVars

\* A coroutine that can go on is resumed; OpenAI's client has a timeout, so a
\* description ends.  PostgreSQL queues the waiters of a row lock, and the pool
\* wakes its own in turn, but a newcomer may be faster: strong fairness says that
\* none loses every time.  Nothing is assumed of pool_timeout.
PooledFairSpec ==
  /\ PooledSpec
  /\ \A r \in Clients : /\ WF_pooledVars(ServeConnected(r))
                        /\ SF_pooledVars(Checkout(r))
  /\ \A r \in Requests : /\ SF_pooledVars(GetByIdForUpdate(r) /\ UNCHANGED conn)
                         /\ SF_pooledVars(Flush(r) /\ UNCHANGED conn)

-----------------------------------------------------------------------------
(* Properties *)

\* A transaction and its row locks never outlive their connection: what the pool
\* hands to the next request carries nothing of the last one (get_db_session).
NothingLeftBehind ==
  /\ \A r \in Requests : Active(r) => conn[r] = "held"
  /\ \A e \in Events : lock[e] # NoReq => Active(lock[e]) /\ conn[lock[e]] = "held"

\* Every request that asks for a connection has it back in the pool in the end or
\* gives up, though the requests outnumber the connections and some of them wait
\* for row locks or for OpenAI while they hold one.
ConnectionsComeBack == \A r \in Clients : conn[r] # "none" ~> conn[r] = "none"
=============================================================================
