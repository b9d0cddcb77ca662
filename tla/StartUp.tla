------------------------------ MODULE StartUp ------------------------------
(***************************************************************************)
(* How a deployment comes up: scripts/start-production.sh, the lifespan of *)
(* app/main.py with app/core/migrations.py, and `alembic upgrade head'     *)
(* (alembic/env.py, alembic/versions).                                     *)
(*                                                                         *)
(* A container runs the script, if its command is the script, and then     *)
(* uvicorn with its workers:                                               *)
(*                                                                         *)
(*   container:  down -> upgrade -> applying -> upgraded -> running        *)
(*   worker:     down -> starting -> upgrade -> applying -> upgraded       *)
(*                                       -> serving                        *)
(*                                                                         *)
(* An upgrade reads the version on a connection of its own and applies all *)
(* pending revisions in one transaction, which ends in `failed' if a       *)
(* statement does.  The script's takes no lock.  The lifespan's, which     *)
(* runs in production and staging only, is taken by the worker that gets   *)
(* the advisory lock; the others go on without it.                         *)
(*                                                                         *)
(* PostgreSQL, the supervision of workers by uvicorn and the restart of    *)
(* containers by the platform are modelled from how the code uses them.    *)
(* The advisory lock and the transaction of an upgrade belong to different *)
(* connections: what a dead process leaves behind ends in either order.    *)
(***************************************************************************)
EXTENDS Integers

CONSTANTS Containers, Workers,
          Home,         \* the container of each worker
          MaxFaults,    \* bound of the deaths and of the statements that fail
          Nobody,       \* no process
          Gone          \* a dead process whose connection is still open

Processes == Containers \cup Workers

ASSUME StartUpAssumption == /\ Containers \cap Workers = {}
                            /\ Home \in [Workers -> Containers]
                            /\ MaxFaults \in Nat
                            /\ Nobody \notin Processes /\ Gone \notin Processes
                            /\ Gone # Nobody

VARIABLES deployment,   \* what the containers run and where
          version,      \* the committed alembic_version, as a number of revisions
          schema,       \* the committed tables and enum types
          ddl,          \* the upgrade whose uncommitted statements block the others
          advisory,     \* the worker that holds the advisory lock
          orphan,       \* the upgrade of a dead process, while ddl is Gone
          proc,         \* the processes
          faults        \* how many have died or failed

vars == <<deployment, version, schema, ddl, advisory, orphan, proc, faults>>

-----------------------------------------------------------------------------
(* alembic/versions: what each upgrade() creates and refers to *)

UsersRevision == [creates |-> {"user_role", "users"}, refers |-> {}]
EventsRevision == [creates |-> {"event_status", "events"}, refers |-> {"users"}]
SessionsRevision == [creates |-> {"session_status", "sessions"}, refers |-> {"events"}]
RegistrationsRevision == [creates |-> {"registration_status", "event_registrations"},
                          refers |-> {"events", "users"}]

\* Mutant: a revision whose down_revision skips the one it depends on.
RevisionsMisordered ==
  <<UsersRevision, SessionsRevision, EventsRevision, RegistrationsRevision>>

\* The chain of down_revision.
Revisions == <<UsersRevision, EventsRevision, SessionsRevision, RegistrationsRevision>>

HeadRevision == 4

\* What the revisions after the a-th up to the b-th create.
Created(a, b) == UNION {Revisions[i].creates : i \in a + 1 .. b}

Versions == 0 .. HeadRevision
PCs == {"down", "starting", "upgrade", "applying", "upgraded", "failed", "running", "serving"}

\* seen is the version an upgrade has read, at the one its transaction has reached.
Process == [pc : PCs, seen : Versions, at : Versions]
Down == [pc |-> "down", seen |-> 0, at |-> 0]

TypeOK == /\ deployment \in [script : BOOLEAN, production : BOOLEAN]
          /\ version \in Versions
          /\ schema \subseteq Created(0, HeadRevision)
          /\ ddl \in Processes \cup {Nobody, Gone}
          /\ advisory \in Workers \cup {Nobody, Gone}
          /\ orphan \in Process
          /\ proc \in [Processes -> Process]
          /\ faults \in Nat

\* The database is at any earlier release.
Init == /\ deployment \in [script : BOOLEAN, production : BOOLEAN]
        /\ version \in Versions
        /\ schema = Created(0, version)
        /\ ddl = Nobody
        /\ advisory = Nobody
        /\ orphan = Down
        /\ proc = [p \in Processes |-> Down]
        /\ faults = 0

At(p, pc) == proc[p].pc = pc
Goto(p, pc) == proc' = [proc EXCEPT ![p].pc = pc]

-----------------------------------------------------------------------------
(* alembic upgrade head *)

\* get_current_heads, the first read of the transaction.
ReadVersion(p) ==
  /\ At(p, "upgrade")
  /\ proc' = [proc EXCEPT ![p] = [pc |-> IF version = HeadRevision THEN "upgraded" ELSE "applying",
                                  seen |-> version, at |-> version]]
  /\ UNCHANGED <<deployment, version, schema, ddl, advisory, faults, orphan>>

\* Mutant: a revision whose objects are there at once, outside a transaction.
ApplyRevisionAtOnce(p) ==
  /\ At(p, "applying") /\ proc[p].at < HeadRevision /\ ddl \in {Nobody, p}
  /\ LET next == proc[p].at + 1
         rev == Revisions[next]
     IN \/ /\ rev.creates \cap schema = {}
           /\ rev.refers \subseteq schema
           /\ proc' = [proc EXCEPT ![p].at = next]
           /\ schema' = schema \cup rev.creates
           /\ ddl' = p
        \/ /\ rev.creates \cap schema # {} \/ ~(rev.refers \subseteq schema)
           /\ Goto(p, "failed")
           /\ ddl' = Nobody
           /\ UNCHANGED schema
  /\ UNCHANGED <<deployment, version, advisory, faults, orphan>>

\* One revision.  Its first CREATE waits for an uncommitted one of the same
\* name; the transaction rolls back if that is committed, or if a table referred
\* to is missing.  The enum types are created with checkfirst=True: one that is
\* committed already is let be, and it is the CREATE of its table that fails.
ApplyRevision(p) ==
  /\ At(p, "applying") /\ proc[p].at < HeadRevision /\ ddl \in {Nobody, p}
  /\ LET next == proc[p].at + 1
         rev == Revisions[next]
         visible == schema \cup Created(proc[p].seen, proc[p].at)
     IN \/ /\ rev.creates \cap visible = {} /\ rev.refers \subseteq visible
           /\ proc' = [proc EXCEPT ![p].at = next]
           /\ ddl' = p
        \/ /\ rev.creates \cap visible # {} \/ ~(rev.refers \subseteq visible)
           /\ Goto(p, "failed")
           /\ ddl' = Nobody
  /\ UNCHANGED <<deployment, version, schema, advisory, faults, orphan>>

CommitUpgrade(p) ==
  /\ At(p, "applying") /\ proc[p].at = HeadRevision
  /\ version' = HeadRevision
  /\ schema' = schema \cup Created(proc[p].seen, HeadRevision)
  /\ ddl' = Nobody
  /\ Goto(p, "upgraded")
  /\ UNCHANGED <<deployment, advisory, faults, orphan>>

\* A statement of the upgrade fails for a reason of the database's own.
BreakUpgrade(p) ==
  /\ At(p, "applying") /\ faults < MaxFaults
  /\ faults' = faults + 1
  /\ Goto(p, "failed")
  /\ ddl' = IF ddl = p THEN Nobody ELSE ddl
  /\ UNCHANGED <<deployment, version, schema, advisory, orphan>>

-----------------------------------------------------------------------------
(* start-production.sh *)

\* Mutant: the script starts uvicorn first.
StartContainerUvicornFirst(c) ==
  /\ c \in Containers /\ At(c, "down")
  /\ Goto(c, "running")
  /\ UNCHANGED <<deployment, version, schema, ddl, advisory, faults, orphan>>

StartContainer(c) ==
  /\ c \in Containers /\ At(c, "down")
  /\ Goto(c, IF deployment.script THEN "upgrade" ELSE "running")
  /\ UNCHANGED <<deployment, version, schema, ddl, advisory, faults, orphan>>

\* exec uvicorn, or set -e ends the script and the container with it.
EndScript(c) ==
  /\ c \in Containers
  /\ \/ At(c, "upgraded") /\ Goto(c, "running")
     \/ At(c, "failed") /\ proc' = [proc EXCEPT ![c] = Down]
  /\ UNCHANGED <<deployment, version, schema, ddl, advisory, faults, orphan>>

-----------------------------------------------------------------------------
(* The lifespan of a worker *)

\* uvicorn starts its workers, and starts another for one that has exited.
StartWorker(w) ==
  /\ w \in Workers /\ At(w, "down") /\ At(Home[w], "running")
  /\ Goto(w, "starting")
  /\ UNCHANGED <<deployment, version, schema, ddl, advisory, faults, orphan>>

\* Mutant: every worker goes on as if it had the advisory lock.
TryAdvisoryLockAlways(w) ==
  /\ w \in Workers /\ At(w, "starting")
  /\ IF ~deployment.production
     THEN Goto(w, "serving") /\ UNCHANGED advisory
     ELSE Goto(w, "upgrade") /\ advisory' = w
  /\ UNCHANGED <<deployment, version, schema, ddl, faults, orphan>>

\* Mutant: a lock of the container, not of the worker's connection.
TryAdvisoryLockOfContainer(w) ==
  /\ w \in Workers /\ At(w, "starting")
  /\ IF ~deployment.production \/ advisory # Nobody
     THEN Goto(w, "serving") /\ UNCHANGED advisory
     ELSE Goto(w, "upgrade") /\ advisory' = Home[w]
  /\ UNCHANGED <<deployment, version, schema, ddl, faults, orphan>>

\* run_db_migrations_on_startup, then pg_try_advisory_lock, which does not wait.
TryAdvisoryLock(w) ==
  /\ w \in Workers /\ At(w, "starting")
  /\ IF ~deployment.production \/ advisory # Nobody
     THEN Goto(w, "serving") /\ UNCHANGED advisory
     ELSE Goto(w, "upgrade") /\ advisory' = w
  /\ UNCHANGED <<deployment, version, schema, ddl, faults, orphan>>

\* Mutant: no unlock when the upgrade has failed.
UnlockOnSuccess(w) ==
  /\ w \in Workers
  /\ \/ At(w, "upgraded") /\ Goto(w, "serving") /\ advisory' = Nobody
     \/ At(w, "failed") /\ proc' = [proc EXCEPT ![w] = Down] /\ UNCHANGED advisory
  /\ UNCHANGED <<deployment, version, schema, ddl, faults, orphan>>

\* The finally of apply_pending_migrations.  A failed lifespan ends its worker.
Unlock(w) ==
  /\ w \in Workers
  /\ \/ At(w, "upgraded") /\ Goto(w, "serving")
     \/ At(w, "failed") /\ proc' = [proc EXCEPT ![w] = Down]
  /\ advisory' = Nobody
  /\ UNCHANGED <<deployment, version, schema, ddl, faults, orphan>>

-----------------------------------------------------------------------------
(* Deaths.  PostgreSQL ends what a dead process has left open, the session *)
(* of the lock and that of the transaction, when it finds them closed      *)

Die(dead) ==
  /\ faults < MaxFaults
  /\ faults' = faults + 1
  /\ proc' = [p \in Processes |-> IF p \in dead THEN Down ELSE proc[p]]
  /\ IF ddl \in dead THEN ddl' = Gone /\ orphan' = proc[ddl]
                   ELSE UNCHANGED <<ddl, orphan>>
  /\ advisory' = IF advisory \in dead THEN Gone ELSE advisory
  /\ UNCHANGED <<deployment, version, schema>>

WorkerDies(w) == w \in Workers /\ ~At(w, "down") /\ Die({w})

ContainerDies(c) ==
  /\ c \in Containers /\ ~At(c, "down")
  /\ Die({c} \cup {w \in Workers : Home[w] = c})

EndLockSession == /\ advisory = Gone
                  /\ advisory' = Nobody
                  /\ UNCHANGED <<deployment, version, schema, ddl, orphan, proc, faults>>

\* The transaction is rolled back, unless its COMMIT was under way.
EndTransaction ==
  /\ ddl = Gone
  /\ \/ UNCHANGED <<version, schema>>
     \/ /\ orphan.at = HeadRevision
        /\ version' = HeadRevision
        /\ schema' = schema \cup Created(orphan.seen, HeadRevision)
  /\ ddl' = Nobody
  /\ orphan' = Down
  /\ UNCHANGED <<deployment, advisory, proc, faults>>

-----------------------------------------------------------------------------

Run(p) == \/ ReadVersion(p) \/ ApplyRevision(p) \/ CommitUpgrade(p)
          \/ StartContainer(p) \/ EndScript(p)
          \/ StartWorker(p) \/ TryAdvisoryLock(p) \/ Unlock(p)

CleanUp == EndLockSession \/ EndTransaction

Next == \/ \E p \in Processes :
             Run(p) \/ BreakUpgrade(p) \/ WorkerDies(p) \/ ContainerDies(p)
        \/ CleanUp

Spec == Init /\ [][Next]_vars

\* Every process goes on; the platform and uvicorn start again what has ended,
\* and PostgreSQL ends the sessions of the dead.
FairSpec == /\ Spec
            /\ \A p \in Processes : WF_vars(Run(p))
            /\ WF_vars(EndLockSession) /\ WF_vars(EndTransaction)

-----------------------------------------------------------------------------
(* Properties *)

\* The tables are always those of the stored version: neither a death in the
\* middle of an upgrade nor two upgrades at once leave half of a revision
\* (alembic/env.py, one transaction).
SchemaMatchesVersion == schema = Created(0, version)

\* Behind the script no worker serves on tables the models do not have yet,
\* whichever of the workers and containers found the upgrade done by another.
HeadWhenScripted ==
  \A w \in Workers : deployment.script /\ At(w, "serving") => version = HeadRevision

\* Where the lifespan alone upgrades, no two live workers ever upgrade at once, none
\* waits for another's tables, and the version a worker builds on moves under it
\* only by what a dead one had left to be committed: the lock of the dead can go
\* before its transaction ("multi-worker safe", migrations.py,
\* apply_pending_migrations).
HookUpgradesNeverCollide ==
  [][\A w \in Workers : ~deployment.script /\ At(w, "applying") =>
       /\ \A v \in Workers \ {w} : ~At(v, "applying")
       /\ ddl \in {Nobody, w, Gone}
       /\ version' # version => At(w, "upgraded")' \/ ddl = Gone]_vars

\* The advisory lock is held for an upgrade and never kept by a worker that
\* serves or has ended its upgrade: the lock belongs to a pooled connection, which
\* outlives the upgrade.
LockOnlyWhileUpgrading ==
  advisory \in Workers =>
    proc[advisory].pc \in {"upgrade", "applying", "upgraded", "failed"}

\* Whatever collides or dies on the way, the whole deployment serves in the end.
ComesUp == <>[](\A w \in Workers : At(w, "serving"))
=============================================================================
