---------------------------- MODULE StartUpProofs ---------------------------
(***************************************************************************)
(* Upgrades are atomic and, behind the script, done before anything is     *)
(* served: proved for any number of containers and workers and any number  *)
(* of deaths.                                                              *)
(*                                                                         *)
(* The argument: an upgrade that has created something keeps every other   *)
(* one from creating anything, so that the version it has read is still    *)
(* the committed one when it commits.                                      *)
(***************************************************************************)
EXTENDS StartUp, TLAPS

Upgrading == {"upgrade", "applying", "upgraded", "failed"}

\* What an upgrade under way knows of the version it has read.
UpgradeInv(p) ==
  At(p, "applying") =>
    /\ proc[p].seen < HeadRevision /\ proc[p].seen <= proc[p].at
    /\ proc[p].at > proc[p].seen => ddl = p
    /\ version \in {proc[p].seen, HeadRevision}

\* Whoever has created something, dead or alive, is at the committed version.
DdlInv == /\ ddl \in Processes => At(ddl, "applying") /\ version = proc[ddl].seen
          /\ ddl = Gone => orphan.seen <= orphan.at /\ version = orphan.seen

\* A container runs uvicorn only behind its script, its workers only in it.
ContainerInv(c) ==
  /\ proc[c].pc \notin {"starting", "serving"}
  /\ At(c, "upgraded") => version = HeadRevision
  /\ At(c, "running") /\ deployment.script => version = HeadRevision
  /\ ~deployment.script => proc[c].pc \in {"down", "running"}

WorkerInv(w) ==
  /\ ~At(w, "down") => At(Home[w], "running")
  /\ proc[w].pc \in Upgrading <=> advisory = w

StartUpInv == /\ TypeOK
              /\ SchemaMatchesVersion
              /\ \A p \in Processes : UpgradeInv(p)
              /\ DdlInv
              /\ \A c \in Containers : ContainerInv(c)
              /\ \A w \in Workers : WorkerInv(w)

-----------------------------------------------------------------------------
(* The chain of revisions *)

\* What the revisions up to the b-th create is what those up to the a-th do
\* and what the rest does.
LEMMA CreatedSplits ==
  ASSUME NEW a \in Versions, NEW b \in Versions, a <= b
  PROVE  /\ Created(0, a) \cup Created(a, b) = Created(0, b)
         /\ Created(0, b) \subseteq Created(0, HeadRevision)
<1>1. 0 + 1 .. b = (0 + 1 .. a) \cup (a + 1 .. b)
  BY DEF Versions, HeadRevision
<1>2. 0 + 1 .. b \subseteq 0 + 1 .. HeadRevision
  BY DEF Versions, HeadRevision
<1> QED BY <1>1, <1>2, Zenon DEF Created

\* Each revision finds what it refers to and nothing of what it creates.
LEMMA ChainSound ==
  ASSUME NEW n \in Versions, n < HeadRevision
  PROVE  /\ Revisions[n + 1].creates \cap Created(0, n) = {}
         /\ Revisions[n + 1].refers \subseteq Created(0, n)
<1>1. /\ Revisions[1] = UsersRevision /\ Revisions[2] = EventsRevision
      /\ Revisions[3] = SessionsRevision /\ Revisions[4] = RegistrationsRevision
  BY DEF Revisions
<1>2. /\ Created(0, 0) = {}
      /\ Created(0, 1) = {"user_role", "users"}
      /\ Created(0, 2) = {"user_role", "users", "event_status", "events"}
      /\ Created(0, 3) = {"user_role", "users", "event_status", "events",
                          "session_status", "sessions"}
  <2>1. /\ 0 + 1 .. 0 = {} /\ 0 + 1 .. 1 = {1} /\ 0 + 1 .. 2 = {1, 2} /\ 0 + 1 .. 3 = {1, 2, 3}
    OBVIOUS
  <2>2. /\ Revisions[1].creates = {"user_role", "users"}
        /\ Revisions[2].creates = {"event_status", "events"}
        /\ Revisions[3].creates = {"session_status", "sessions"}
    BY <1>1 DEF UsersRevision, EventsRevision, SessionsRevision
  <2> QED BY <2>1, <2>2 DEF Created
<1>3. n \in {0, 1, 2, 3}
  BY DEF Versions, HeadRevision
<1>4. CASE n = 0
  BY <1>1, <1>2, <1>4 DEF UsersRevision
<1>5. CASE n = 1
  BY <1>1, <1>2, <1>5 DEF EventsRevision
<1>6. CASE n = 2
  BY <1>1, <1>2, <1>6 DEF SessionsRevision
<1>7. CASE n = 3
  BY <1>1, <1>2, <1>7 DEF RegistrationsRevision
<1> QED BY <1>3, <1>4, <1>5, <1>6, <1>7


-----------------------------------------------------------------------------
(* The steps *)

\* A fresh read of the version: there is something to apply, or nothing.
LEMMA ReadVersionInv ==
  ASSUME StartUpInv, NEW p \in Processes, ReadVersion(p)
  PROVE  StartUpInv'
<1> USE DEF StartUpInv
<1>1. TypeOK'
  BY DEF ReadVersion, TypeOK, Process, PCs
<1>2. /\ \A q \in Processes \ {p} : proc'[q] = proc[q]
      /\ proc'[p].pc = (IF version = HeadRevision THEN "upgraded" ELSE "applying")
      /\ proc'[p].seen = version /\ proc'[p].at = version
      /\ At(p, "upgrade") /\ UNCHANGED <<deployment, version, schema, ddl, advisory, orphan>>
  BY DEF ReadVersion, TypeOK
<1>3. SchemaMatchesVersion'
  BY <1>2 DEF SchemaMatchesVersion
<1>4. version \in Versions /\ (version # HeadRevision => version < HeadRevision)
  BY DEF TypeOK, Versions, HeadRevision
<1>5. \A q \in Processes : UpgradeInv(q)'
  BY <1>2, <1>4 DEF UpgradeInv, At, Versions
<1>6. DdlInv'
  BY <1>2 DEF DdlInv, At, TypeOK
<1>7. \A c \in Containers : ContainerInv(c)'
  BY <1>2 DEF ContainerInv, At, Processes
<1>8. \A w \in Workers : WorkerInv(w)'
  BY <1>2, StartUpAssumption DEF WorkerInv, ContainerInv, At, Upgrading, Processes
<1> QED BY <1>1, <1>3, <1>5, <1>6, <1>7, <1>8

\* A revision applied on top of those of its own transaction, or a collision,
\* which only the upgrades of two scripts can meet.
LEMMA ApplyRevisionInv ==
  ASSUME StartUpInv, NEW p \in Processes, ApplyRevision(p)
  PROVE  StartUpInv'
<1> USE DEF StartUpInv
<1>1. /\ At(p, "applying") /\ UpgradeInv(p) /\ proc[p] \in Process
      /\ proc[p].at \in Versions /\ proc[p].seen \in Versions /\ proc[p].at < HeadRevision
      /\ ddl \in {Nobody, p}
      /\ UNCHANGED <<deployment, version, schema, advisory, orphan, faults>>
      /\ p # Nobody /\ p # Gone /\ Nobody # Gone
  BY StartUpAssumption DEF ApplyRevision, TypeOK, Process
<1>2. CASE /\ proc' = [proc EXCEPT ![p].at = proc[p].at + 1]
           /\ ddl' = p
           /\ Revisions[proc[p].at + 1].creates
                \cap (schema \cup Created(proc[p].seen, proc[p].at)) = {}
  <2>1. /\ \A q \in Processes \ {p} : proc'[q] = proc[q]
        /\ proc'[p].pc = "applying" /\ proc'[p].seen = proc[p].seen
        /\ proc'[p].at = proc[p].at + 1
    BY <1>1, <1>2 DEF TypeOK, At
  <2>2. TypeOK'
    BY <1>1, <1>2 DEF TypeOK, Process, Versions, HeadRevision
  <2>3. version = proc[p].seen
    <3>1. ASSUME version = HeadRevision, proc[p].seen < HeadRevision
          PROVE  FALSE
      <4>1. schema = Created(0, HeadRevision)
        BY <3>1 DEF SchemaMatchesVersion
      <4>2. Revisions[proc[p].at + 1].creates \subseteq schema
        BY <1>1, <4>1 DEF Created, Versions, HeadRevision
      <4>3. Revisions[proc[p].at + 1].creates = {}
        BY <1>2, <4>2
      <4>4. proc[p].at + 1 \in {1, 2, 3, 4}
        BY <1>1 DEF Versions, HeadRevision
      <4> QED BY <4>3, <4>4 DEF Revisions, UsersRevision, EventsRevision, SessionsRevision,
                                RegistrationsRevision
    <3> QED BY <1>1, <3>1 DEF UpgradeInv
  <2>4. \A q \in Processes : UpgradeInv(q)'
    <3>1. ASSUME NEW q \in Processes, q # p PROVE UpgradeInv(q)'
      BY <1>1, <1>2, <2>1, <3>1, StartUpAssumption DEF UpgradeInv, At
    <3>2. UpgradeInv(p)'
      BY <1>1, <1>2, <2>1, <2>3 DEF UpgradeInv, At, Versions, HeadRevision
    <3> QED BY <3>1, <3>2
  <2>5. DdlInv'
    BY <1>1, <1>2, <2>1, <2>3 DEF DdlInv, At
  <2>6. \A c \in Containers : ContainerInv(c)'
    BY <1>1, <2>1 DEF ContainerInv, At, Processes
  <2>7. \A w \in Workers : WorkerInv(w)'
    BY <1>1, <2>1, StartUpAssumption DEF WorkerInv, ContainerInv, At, Upgrading, Processes
  <2>8. SchemaMatchesVersion'
    BY <1>1 DEF SchemaMatchesVersion
  <2> QED BY <2>2, <2>4, <2>5, <2>6, <2>7, <2>8
<1>3. CASE /\ Goto(p, "failed") /\ ddl' = Nobody
           /\ LET rev == Revisions[proc[p].at + 1]
                  visible == schema \cup Created(proc[p].seen, proc[p].at)
              IN rev.creates \cap visible # {} \/ ~(rev.refers \subseteq visible)
  <2>1. /\ \A q \in Processes \ {p} : proc'[q] = proc[q]
        /\ proc'[p].pc = "failed"
    BY <1>1, <1>3 DEF TypeOK, Goto
  <2>2. TypeOK'
    BY <1>1, <1>3 DEF TypeOK, Goto, Process, PCs
  <2>3. SchemaMatchesVersion'
    BY <1>1 DEF SchemaMatchesVersion
  <2>4. \A q \in Processes : UpgradeInv(q)'
    <3>1. ASSUME NEW q \in Processes, q # p PROVE UpgradeInv(q)'
      BY <1>1, <1>3, <2>1, <3>1, StartUpAssumption DEF UpgradeInv, At
    <3>2. UpgradeInv(p)'
      BY <2>1 DEF UpgradeInv, At
    <3> QED BY <3>1, <3>2
  <2>5. DdlInv'
    BY <1>1, <1>3, StartUpAssumption DEF DdlInv
  <2>6. \A c \in Containers : ContainerInv(c)'
    BY <1>1, <2>1 DEF ContainerInv, At, Processes
  <2>7. \A w \in Workers : WorkerInv(w)'
    BY <1>1, <2>1, StartUpAssumption
       DEF WorkerInv, ContainerInv, At, Upgrading, Processes
  <2> QED BY <2>2, <2>3, <2>4, <2>5, <2>6, <2>7
<1> QED BY <1>2, <1>3 DEF ApplyRevision

\* A commit makes the head out of the version it has read.
LEMMA CommitUpgradeInv ==
  ASSUME StartUpInv, NEW p \in Processes, CommitUpgrade(p)
  PROVE  StartUpInv'
<1> USE DEF StartUpInv
<1>1. /\ At(p, "applying") /\ UpgradeInv(p) /\ proc[p] \in Process
      /\ proc[p].seen \in Versions /\ proc[p].at = HeadRevision
      /\ version' = HeadRevision /\ schema' = schema \cup Created(proc[p].seen, HeadRevision)
      /\ ddl' = Nobody /\ Goto(p, "upgraded")
      /\ UNCHANGED <<deployment, advisory, orphan, faults>>
      /\ p # Nobody /\ p # Gone /\ Nobody # Gone /\ Nobody \notin Processes
  BY StartUpAssumption DEF CommitUpgrade, TypeOK, Process
<1>2. ddl = p /\ version = proc[p].seen /\ proc[p].seen <= HeadRevision
  BY <1>1 DEF UpgradeInv, DdlInv, Versions, HeadRevision
<1>3. HeadRevision \in Versions
  BY DEF Versions, HeadRevision
<1>4. schema' = Created(0, HeadRevision)
  BY <1>1, <1>2, <1>3, CreatedSplits DEF SchemaMatchesVersion
<1>5. TypeOK'
  BY <1>1, <1>3, <1>4 DEF TypeOK, Goto, Process, PCs
<1>6. /\ \A q \in Processes \ {p} : proc'[q] = proc[q]
      /\ proc'[p].pc = "upgraded"
  BY <1>1 DEF TypeOK, Goto
<1>7. \A q \in Processes \ {p} : At(q, "applying") => proc[q].at = proc[q].seen
  BY <1>2 DEF UpgradeInv, TypeOK, Process, Versions
<1>8. \A q \in Processes : UpgradeInv(q)'
  BY <1>1, <1>6, <1>7 DEF UpgradeInv, At, TypeOK, Process, Versions
<1>9. \A c \in Containers : ContainerInv(c)'
  BY <1>1, <1>6 DEF ContainerInv, At, Processes
<1>10. \A w \in Workers : WorkerInv(w)'
  BY <1>1, <1>6, StartUpAssumption DEF WorkerInv, ContainerInv, At, Upgrading, Processes
<1> QED BY <1>1, <1>4, <1>5, <1>8, <1>9, <1>10 DEF SchemaMatchesVersion, DdlInv

\* What an upgrade that fails has created is gone.
LEMMA BreakUpgradeInv ==
  ASSUME StartUpInv, NEW p \in Processes, BreakUpgrade(p)
  PROVE  StartUpInv'
<1> USE DEF StartUpInv
<1>1. /\ \A q \in Processes \ {p} : proc'[q] = proc[q]
      /\ proc'[p].pc = "failed" /\ At(p, "applying")
      /\ ddl' = (IF ddl = p THEN Nobody ELSE ddl)
      /\ UNCHANGED <<deployment, version, schema, advisory, orphan>>
  BY DEF BreakUpgrade, TypeOK, Goto
<1>2. TypeOK' /\ SchemaMatchesVersion'
  BY DEF BreakUpgrade, Goto, TypeOK, SchemaMatchesVersion, Process, PCs
<1>3. \A q \in Processes : UpgradeInv(q)'
  <2>1. ASSUME NEW q \in Processes, q # p PROVE UpgradeInv(q)'
    BY <1>1, <2>1, StartUpAssumption DEF UpgradeInv, At
  <2>2. UpgradeInv(p)'
    BY <1>1 DEF UpgradeInv, At
  <2> QED BY <2>1, <2>2
<1>4. DdlInv'
  BY <1>1, StartUpAssumption DEF DdlInv, At, TypeOK
<1>5. \A c \in Containers : ContainerInv(c)'
  BY <1>1 DEF ContainerInv, At, Processes
<1>6. \A w \in Workers : WorkerInv(w)'
  BY <1>1, StartUpAssumption DEF WorkerInv, ContainerInv, At, Upgrading, Processes
<1> QED BY <1>2, <1>3, <1>4, <1>5, <1>6

\* A script begins or ends.
LEMMA ContainerStepInv ==
  ASSUME StartUpInv, NEW c \in Containers, StartContainer(c) \/ EndScript(c)
  PROVE  StartUpInv'
<1> USE DEF StartUpInv
<1>1. /\ \A q \in Processes \ {c} : proc'[q] = proc[q]
      /\ proc'[c] \in Process
      /\ \/ At(c, "down") /\ proc'[c].pc = "upgrade" /\ deployment.script
         \/ At(c, "down") /\ proc'[c].pc = "running" /\ ~deployment.script
         \/ At(c, "upgraded") /\ proc'[c].pc = "running"
         \/ At(c, "failed") /\ proc'[c].pc = "down"
      /\ UNCHANGED <<deployment, version, schema, ddl, advisory, orphan, faults>>
  <2>1. CASE StartContainer(c)
    BY <2>1 DEF StartContainer, Goto, TypeOK, Processes, Process, PCs
  <2>2. CASE EndScript(c)
    BY <2>2 DEF EndScript, Goto, TypeOK, Processes, Process, PCs, Down, Versions, HeadRevision
  <2> QED BY <2>1, <2>2
<1>2. TypeOK' /\ SchemaMatchesVersion'
  <2>1. proc' \in [Processes -> Process]
    BY <1>1 DEF StartContainer, EndScript, Goto, TypeOK, Processes, Process, PCs, Down, Versions,
                HeadRevision
  <2> QED BY <1>1, <2>1 DEF TypeOK, SchemaMatchesVersion
<1>3. \A q \in Processes : UpgradeInv(q)'
  BY <1>1 DEF UpgradeInv, At
<1>4. DdlInv'
  BY <1>1 DEF DdlInv, At, TypeOK
<1>5. \A d \in Containers : ContainerInv(d)'
  BY <1>1 DEF ContainerInv, At, Processes
<1>6. \A w \in Workers : WorkerInv(w)'
  BY <1>1, StartUpAssumption DEF WorkerInv, ContainerInv, At, Upgrading, Processes
<1> QED BY <1>2, <1>3, <1>4, <1>5, <1>6

\* A worker starts, asks for the advisory lock, or gives it back.
LEMMA WorkerStepInv ==
  ASSUME StartUpInv, NEW w \in Workers, StartWorker(w) \/ TryAdvisoryLock(w) \/ Unlock(w)
  PROVE  StartUpInv'
<1> USE DEF StartUpInv
<1>1. /\ \A q \in Processes \ {w} : proc'[q] = proc[q]
      /\ \/ /\ At(w, "down") /\ proc'[w].pc = "starting" /\ At(Home[w], "running")
            /\ UNCHANGED advisory
         \/ At(w, "starting") /\ proc'[w].pc = "serving" /\ UNCHANGED advisory
         \/ At(w, "starting") /\ proc'[w].pc = "upgrade" /\ advisory = Nobody /\ advisory' = w
         \/ At(w, "upgraded") /\ proc'[w].pc = "serving" /\ advisory' = Nobody
         \/ At(w, "failed") /\ proc'[w].pc = "down" /\ advisory' = Nobody
      /\ proc' \in [Processes -> Process]
      /\ UNCHANGED <<deployment, version, schema, ddl, orphan, faults>>
  <2>1. CASE StartWorker(w)
    BY <2>1 DEF StartWorker, Goto, TypeOK, Processes, Process, PCs
  <2>2. CASE TryAdvisoryLock(w)
    BY <2>2 DEF TryAdvisoryLock, Goto, TypeOK, Processes, Process, PCs
  <2>3. CASE Unlock(w)
    BY <2>3 DEF Unlock, Goto, TypeOK, Processes, Process, PCs, Down, Versions, HeadRevision
  <2> QED BY <2>1, <2>2, <2>3
<1>2. TypeOK' /\ SchemaMatchesVersion'
  BY <1>1 DEF TypeOK, SchemaMatchesVersion
<1>3. \A q \in Processes : UpgradeInv(q)'
  BY <1>1 DEF UpgradeInv, At
<1>4. DdlInv'
  BY <1>1 DEF DdlInv, At, TypeOK
<1>5. \A d \in Containers : ContainerInv(d)'
  BY <1>1, StartUpAssumption DEF ContainerInv, At, Processes
<1>6. \A v \in Workers : WorkerInv(v)'
  BY <1>1, StartUpAssumption DEF WorkerInv, At, Upgrading, Processes
<1> QED BY <1>2, <1>3, <1>4, <1>5, <1>6

\* A death leaves the two connections of its upgrade open.
LEMMA DeathInv ==
  ASSUME StartUpInv, NEW p \in Processes, WorkerDies(p) \/ ContainerDies(p)
  PROVE  StartUpInv'
<1> USE DEF StartUpInv
<1>1. PICK dead \in SUBSET Processes :
        /\ Die(dead)
        /\ \A w \in Workers : Home[w] \in dead => w \in dead
  <2>1. CASE WorkerDies(p)
    <3>1. p \in Workers /\ {p} \in SUBSET Processes /\ Die({p})
      BY <2>1 DEF WorkerDies
    <3>2. \A w \in Workers : Home[w] \in {p} => w \in {p}
      BY <3>1, StartUpAssumption
    <3> QED BY <3>1, <3>2
  <2>2. CASE ContainerDies(p)
    <3> DEFINE dead == {p} \cup {w \in Workers : Home[w] = p}
    <3>1. dead \in SUBSET Processes /\ Die(dead)
      BY <2>2 DEF ContainerDies, Processes
    <3>2. \A w \in Workers : Home[w] \in dead => w \in dead
      BY <2>2, StartUpAssumption DEF ContainerDies
    <3> QED BY <3>1, <3>2
  <2> QED BY <2>1, <2>2
<1>2. /\ \A q \in Processes : proc'[q] = IF q \in dead THEN Down ELSE proc[q]
      /\ \/ ddl \in dead /\ ddl' = Gone /\ orphan' = proc[ddl]
         \/ ddl \notin dead /\ ddl' = ddl /\ orphan' = orphan
      /\ advisory' = (IF advisory \in dead THEN Gone ELSE advisory)
      /\ UNCHANGED <<deployment, version, schema>>
  BY <1>1 DEF Die
<1>3. \A q \in dead : proc'[q].pc = "down"
  BY <1>2 DEF Down
<1>4. TypeOK' /\ SchemaMatchesVersion'
  BY <1>1 DEF Die, TypeOK, SchemaMatchesVersion, Process, PCs, Down, Versions, HeadRevision
<1>5. \A q \in Processes : UpgradeInv(q)'
  <2>1. ASSUME NEW q \in Processes, q \in dead PROVE UpgradeInv(q)'
    BY <1>3, <2>1 DEF UpgradeInv, At
  <2>2. ASSUME NEW q \in Processes, q \notin dead PROVE UpgradeInv(q)'
    BY <1>2, <2>2, StartUpAssumption DEF UpgradeInv, At
  <2> QED BY <2>1, <2>2
<1>6. DdlInv'
  <2>1. CASE ddl \in dead
    <3>1. ddl \in Processes /\ ddl' = Gone /\ orphan' = proc[ddl] /\ version' = version
      BY <1>2, <2>1
    <3>2. At(ddl, "applying") /\ version = proc[ddl].seen /\ proc[ddl].seen <= proc[ddl].at
      BY <3>1 DEF DdlInv, UpgradeInv
    <3> QED BY <3>1, <3>2, StartUpAssumption DEF DdlInv
  <2>2. CASE ddl \notin dead
    BY <1>2, <2>2, StartUpAssumption DEF DdlInv, At
  <2> QED BY <2>1, <2>2
<1>7. \A c \in Containers : ContainerInv(c)'
  BY <1>2, <1>3 DEF ContainerInv, At, Processes
<1>8. \A w \in Workers : WorkerInv(w)'
  <2>1. ASSUME NEW w \in Workers, w \in dead PROVE WorkerInv(w)'
    BY <1>2, <1>3, <2>1, StartUpAssumption DEF WorkerInv, At, Upgrading, Processes
  <2>2. ASSUME NEW w \in Workers, w \notin dead PROVE WorkerInv(w)'
    BY <1>1, <1>2, <2>2, StartUpAssumption DEF WorkerInv, At, Upgrading, Processes
  <2> QED BY <2>1, <2>2
<1> QED BY <1>4, <1>5, <1>6, <1>7, <1>8

\* The database finds the connection of a dead worker's lock closed.
LEMMA EndLockSessionInv ==
  ASSUME StartUpInv, EndLockSession
  PROVE  StartUpInv'
<1> USE DEF StartUpInv
<1>1. /\ advisory = Gone /\ advisory' = Nobody
      /\ UNCHANGED <<deployment, version, schema, ddl, orphan, proc, faults>>
  BY DEF EndLockSession
<1>2. TypeOK' /\ SchemaMatchesVersion' /\ DdlInv'
  BY <1>1 DEF TypeOK, SchemaMatchesVersion, DdlInv, At
<1>3. \A p \in Processes : UpgradeInv(p)'
  BY <1>1 DEF UpgradeInv, At
<1>4. \A c \in Containers : ContainerInv(c)'
  BY <1>1 DEF ContainerInv, At
<1>5. \A w \in Workers : WorkerInv(w)'
  BY <1>1, StartUpAssumption DEF WorkerInv, At, Processes
<1> QED BY <1>2, <1>3, <1>4, <1>5

\* The transaction of a dead process ends: all of it is committed or nothing.
LEMMA EndTransactionInv ==
  ASSUME StartUpInv, EndTransaction
  PROVE  StartUpInv'
<1> USE DEF StartUpInv
<1>1. /\ ddl = Gone /\ ddl' = Nobody /\ orphan' = Down
      /\ UNCHANGED <<deployment, advisory, proc, faults>>
  BY DEF EndTransaction
<1>2. /\ orphan.seen \in Versions /\ orphan.seen <= HeadRevision /\ version = orphan.seen
      /\ HeadRevision \in Versions /\ version \in Versions
  BY <1>1 DEF DdlInv, TypeOK, Process, Versions, HeadRevision
<1>3. /\ version' \in {version, HeadRevision}
      /\ schema' = Created(0, version')
  <2>1. CASE UNCHANGED <<version, schema>>
    BY <2>1 DEF SchemaMatchesVersion
  <2>2. CASE version' = HeadRevision /\ schema' = schema \cup Created(orphan.seen, HeadRevision)
    BY <1>2, <2>2, CreatedSplits DEF SchemaMatchesVersion
  <2> QED BY <2>1, <2>2 DEF EndTransaction
<1>4. TypeOK'
  <2>1. version' \in Versions /\ schema' \subseteq Created(0, HeadRevision)
    BY <1>2, <1>3, CreatedSplits DEF Versions, HeadRevision
  <2>2. orphan' \in Process
    BY <1>1 DEF Process, PCs, Down, Versions, HeadRevision
  <2> QED BY <1>1, <2>1, <2>2 DEF TypeOK
<1>5. SchemaMatchesVersion' /\ DdlInv'
  BY <1>1, <1>3, StartUpAssumption DEF SchemaMatchesVersion, DdlInv
<1>6. \A p \in Processes : UpgradeInv(p)'
  BY <1>1, <1>3, StartUpAssumption DEF UpgradeInv, At
<1>7. \A c \in Containers : ContainerInv(c)'
  BY <1>1, <1>3 DEF ContainerInv, At
<1>8. \A w \in Workers : WorkerInv(w)'
  BY <1>1 DEF WorkerInv, At
<1> QED BY <1>4, <1>5, <1>6, <1>7, <1>8

-----------------------------------------------------------------------------
(* Theorems *)

\* The invariant behind the others: whoever is creating something creates it on
\* top of the version it has read.
THEOREM StartUpInvariant == Spec => []StartUpInv
<1>1. Init => StartUpInv
  <2> SUFFICES ASSUME Init PROVE StartUpInv
    OBVIOUS
  <2>1. \A p \in Processes : proc[p] = Down
    BY DEF Init
  <2>2. version \in Versions /\ version <= HeadRevision
    BY DEF Init, Versions, HeadRevision
  <2>3. TypeOK /\ SchemaMatchesVersion
    BY <2>2, CreatedSplits
       DEF Init, TypeOK, SchemaMatchesVersion, Process, PCs, Down, Versions, HeadRevision
  <2>4. \A p \in Processes : UpgradeInv(p)
    BY <2>1 DEF UpgradeInv, At, Down
  <2>5. \A w \in Workers : WorkerInv(w)
    BY <2>1, StartUpAssumption DEF Init, WorkerInv, At, Down, Upgrading, Processes
  <2>6. \A c \in Containers : ContainerInv(c)
    BY <2>1 DEF ContainerInv, At, Down, Processes
  <2> QED BY <2>3, <2>4, <2>5, <2>6, StartUpAssumption DEF Init, StartUpInv, DdlInv
<1>2. StartUpInv /\ [Next]_vars => StartUpInv'
  <2> SUFFICES ASSUME StartUpInv, [Next]_vars PROVE StartUpInv'
    OBVIOUS
  <2>1. ASSUME NEW p \in Processes, Run(p) PROVE StartUpInv'
    <3>1. StartContainer(p) \/ EndScript(p) => p \in Containers
      BY DEF StartContainer, EndScript
    <3>2. StartWorker(p) \/ TryAdvisoryLock(p) \/ Unlock(p) => p \in Workers
      BY DEF StartWorker, TryAdvisoryLock, Unlock
    <3> QED BY <2>1, <3>1, <3>2, ReadVersionInv, ApplyRevisionInv, CommitUpgradeInv,
               ContainerStepInv, WorkerStepInv DEF Run
  <2>2. ASSUME NEW p \in Processes, WorkerDies(p) \/ ContainerDies(p) PROVE StartUpInv'
    BY <2>2, DeathInv
  <2>3. ASSUME NEW p \in Processes, BreakUpgrade(p) PROVE StartUpInv'
    BY <2>3, BreakUpgradeInv
  <2>4. CASE CleanUp
    BY <2>4, EndLockSessionInv, EndTransactionInv DEF CleanUp
  <2>5. CASE UNCHANGED vars
    BY <2>5 DEF vars, StartUpInv, TypeOK, SchemaMatchesVersion, UpgradeInv, DdlInv, ContainerInv,
                WorkerInv, At
  <2> QED BY <2>1, <2>2, <2>3, <2>4, <2>5 DEF Next
<1> QED BY <1>1, <1>2, PTL DEF Spec

\* The database, the locks and the processes keep their types.
THEOREM TypeCorrect == Spec => []TypeOK
<1>1. StartUpInv => TypeOK
  BY DEF StartUpInv
<1> QED BY <1>1, StartUpInvariant, PTL

\* However many upgrades run and die, the tables are those of the version.
THEOREM UpgradesAtomic == Spec => []SchemaMatchesVersion
<1>1. StartUpInv => SchemaMatchesVersion
  BY DEF StartUpInv
<1> QED BY <1>1, StartUpInvariant, PTL

\* Behind the script nothing is served before the head.
THEOREM ScriptUpgradesFirst == Spec => []HeadWhenScripted
<1>1. StartUpInv => HeadWhenScripted
  BY StartUpAssumption DEF StartUpInv, HeadWhenScripted, WorkerInv, ContainerInv, At
<1> QED BY <1>1, StartUpInvariant, PTL

\* Two workers never upgrade at once, and the tables that one finds uncommitted
\* are its own or those of the dead.
LEMMA OneUpgrade ==
  ASSUME StartUpInv, ~deployment.script, NEW w \in Workers, At(w, "applying")
  PROVE  /\ \A v \in Workers \ {w} : ~At(v, "applying")
         /\ ddl \in {Nobody, w, Gone}
<1>1. ASSUME NEW v \in Workers, At(v, "applying") PROVE v = w
  BY <1>1 DEF StartUpInv, WorkerInv, At, Upgrading
<1>2. ASSUME ddl \in Processes PROVE ddl = w
  <2>1. At(ddl, "applying")
    BY <1>2 DEF StartUpInv, DdlInv
  <2>2. ddl \in Workers
    BY <1>2, <2>1 DEF StartUpInv, ContainerInv, At, Processes
  <2> QED BY <1>1, <2>1, <2>2
<1> QED BY <1>1, <1>2 DEF StartUpInv, TypeOK

\* The version moves only by the commit of the one that upgrades, or by what the
\* database ends for the dead.
LEMMA VersionMoves ==
  ASSUME StartUpInv, [Next]_vars, ~deployment.script, NEW w \in Workers, At(w, "applying"),
         version' # version
  PROVE  At(w, "upgraded")' \/ ddl = Gone
<1>1. ASSUME NEW p \in Processes, CommitUpgrade(p) PROVE At(w, "upgraded")'
  <2>1. p = w
    BY <1>1, OneUpgrade DEF StartUpInv, ContainerInv, CommitUpgrade, At, Processes
  <2> QED BY <1>1, <2>1 DEF CommitUpgrade, Goto, At, StartUpInv, TypeOK
<1>2. CASE EndTransaction
  BY <1>2 DEF EndTransaction
<1>3. (\E p \in Processes : CommitUpgrade(p)) \/ EndTransaction
  BY DEF Next, Run, CleanUp, vars, ReadVersion, ApplyRevision, BreakUpgrade, StartContainer,
         EndScript, StartWorker, TryAdvisoryLock, Unlock, WorkerDies, ContainerDies, Die,
         EndLockSession
<1> QED BY <1>1, <1>2, <1>3

\* The lifespan's upgrades alone never collide, except with what a dead worker
\* has left to be committed.
THEOREM AdvisoryLockSuffices == Spec => HookUpgradesNeverCollide
<1>1. StartUpInv /\ [Next]_vars =>
        [\A w \in Workers : ~deployment.script /\ At(w, "applying") =>
           /\ \A v \in Workers \ {w} : ~At(v, "applying")
           /\ ddl \in {Nobody, w, Gone}
           /\ version' # version => At(w, "upgraded")' \/ ddl = Gone]_vars
  BY OneUpgrade, VersionMoves
<1> QED BY <1>1, StartUpInvariant, PTL DEF Spec, HookUpgradesNeverCollide

\* No worker keeps the advisory lock.
THEOREM AdvisoryLockReturned == Spec => []LockOnlyWhileUpgrading
<1>1. StartUpInv => LockOnlyWhileUpgrading
  BY DEF StartUpInv, LockOnlyWhileUpgrading, WorkerInv, Upgrading
<1> QED BY <1>1, StartUpInvariant, PTL
=============================================================================
