# Verification of mis-eventos-api

mis-eventos-api is a FastAPI service over PostgreSQL: people register for events,
managers edit events and their agenda of sessions, and an AI provider writes event
descriptions. This directory holds TLA+ models of the parts that keep state, the
TLC configurations that check them on small instances, and theorems checked by
TLAPS. Paths below are relative to `src/`.

    tlc -workers 2 -config booking_safety.cfg MCEventBooking
    tlapm EventBookingProofs.tla

## 1. The system

Every HTTP request runs in one coroutine of one uvicorn worker (production starts
two workers, `scripts/start-production.sh:8`), with one `AsyncSession` and one
transaction. `get_db_session` (`app/core/database.py:31-42`) commits when the
handler returns and rolls back when it raises. Requests interleave at every
`await`, within a worker and across workers; what they share is the database, at
READ COMMITTED, and inside one worker the connection pool and the AI rate limiter.

| Component | State | Operations | Talks to | Hard behaviour | Correct when |
|---|---|---|---|---|---|
| Registrations (`services/registration_service.py`) | rows of `event_registrations`, `events.available_slots` | register, cancel | locks the event row with `FOR UPDATE` | races for the last seat, register/cancel/register reusing a row, two tables in one transaction, stale PUTs beside it | a seat moves with its registration, one row per user and event, no overbooking, no 500 |
| Events (`services/event_service.py`, `utils/event_rules.py`) | rows of `events` | create, update, delete | reads without a lock; the ORM writes the changed columns | decisions from a stale row, merged columns, CHECKs failing at the flush, an answer that refuses the row | status machine, only complete events published, every row can be answered with |
| Sessions of an event (`services/session_service.py`, `utils/session_rules.py`) | rows of `sessions` | create, update, delete | reads the event; two conflict queries | write skew between check and write, the event changing under a session | no speaker or room twice at one time, sessions in the event's window, agenda frozen once the event is over |
| Transactions (`core/database.py:23-42`, `repositories/base.py`) | the session's loaded and changed rows, row locks | flush, commit, rollback | all services | commit after the response, crash in between | answers agree with the table |
| Connection pool (`core/database.py:13-20`) | at most 10 + 20 connections | check out, wait, time out, return | every request | AI requests keep theirs while OpenAI is slow, waiters for a row lock keep theirs | every connection comes back, with nothing left on it |
| Accounts (`services/user_service.py`) | rows of `users` | register, login | unique index on `email` | two registrations of one address, letter case | one account per address |
| Authentication (`core/security.py`, `dependencies/auth.py`) | none (JWT) | issue, verify | accounts | | a token belongs to an account |
| AI descriptions (`services/ai_service.py`, `ai_rate_limiter.py`, `providers/ai/`) | hits per user in each process | generate | OpenAI over HTTP, or the mock | window edge, retries, fallback, restart, several workers | the window limit, an answer in every case |
| Migrations and start-up (`core/migrations.py`, `alembic/`, `scripts/start-production.sh`) | version and tables, advisory lock | upgrade, lock, unlock | PostgreSQL | workers and containers starting at once, a death between two revisions | tables always those of a version, everybody serves in the end |
| Event listing (`repositories/event_repository.py:21-77`) | none; the client's page number | count, slice | `events` | pages over a changing table, ties in the order | an event is skipped or repeated only for a reason that can be named |
| Routes, errors, logging, input policies, configuration | none | formatting, validation | | | pure functions, covered by unit tests |

What can go wrong at which line, and the property that would notice, is the list
`hazards` of `PROJECT.json`.

## 2. The modules

    EventRules ─┬─> EventBooking ─┬─> BookingClients ──> BookingClientsProofs
                │        │        ├─> PooledBooking ──> PooledBookingProofs
                │        │        └─> EventBookingProofs
                ├─> SeatLedger   the abstract specification of EventBooking
                ├─> EventListing ──> EventListingProofs
                ├─> Agenda ──> AgendaProofs
                │     │
    SessionRules ─────┴─> Timetable   the abstract specification of Agenda
    Accounts ──> AccountsProofs              StartUp ──> StartUpProofs
    AiGeneration ──> AiGenerationProofs

`EventBooking` is composed with the clients that call it in one module and with the
connection pool it runs behind in another; both extend it and keep its actions.
Each `MC` module adds the small sets its configurations use.

**EventRules** has the row of `events` and the pure rules: the transition table,
`is_publishable`, the CHECKs, and `Readable`, what `EventRead` accepts. Title,
description and location are one value, `full`, `blank` (long enough for the
schema, but only blanks: not publishable) or `unfit` (refused by `EventRead`).
**SessionRules** does the same for sessions.

**EventBooking** is the core: registration and event services over the two tables.
`events` and `regs` are the committed tables, `lock` the row locks, `req` the
requests under way. A request is split at the statements whose order against other
requests matters:

| Code | Action |
|---|---|
| `POST`/`DELETE .../register` arrives | `Arrive` |
| `get_by_id_for_update` | `GetByIdForUpdate`, which waits for the lock and reads the latest committed row |
| `register_for_event` up to its writes | `RegisterForEvent` with `RegisterRefusal` |
| `cancel_registration` | `CancelRegistration` |
| `create_event` up to its INSERT | `CreateEvent` with `CreateRefusal` |
| `update_event`: `get_by_id` and all it decides | `UpdateEvent` with `UpdateRefusal`, `Edited`, `Transitioned` |
| `delete_event` | `DeleteEvent` with `DeleteRefusal` |
| the flush of the unit of work, `EventRead.model_validate` | `Flush`: waits for the lock, evaluates the CHECKs and the partial unique index, builds the answer (`FlushFails`) |
| `session.commit()` | `Commit`: makes `Written` and `RegWritten` visible, releases locks |
| `session.rollback()` | `Rollback` |
| death of worker or connection | `Crash` |

`seen` is the row a request loaded and `want` the row its session holds.
SQLAlchemy updates the columns in which they differ; `Merge` does the same column
by column over the row as it is at that moment. That is where lost updates come
from, and why stale edits of other columns are harmless. A PUT body is a member of
`Edits`; `EventUpdate` also takes a null for capacity and seats, on which the comparisons
of `update_event` raise (`SendsNull`: a 500, rolled back). `regs` counts rows by
status instead of storing a set, so that a duplicate row is representable.

**SeatLedger** is what booking promises: in one step a user joins or leaves and
the seat counter moves with it; managers edit rows within the CHECKs and never
touch who attends. `EventBooking` implements it with `row <- events` and
`attending <-` the users with an active registration (`LedgerSpec`). Only
a commit is a step of the ledger; locks, stale reads, refusals and crashes stutter.

**BookingClients** adds clients and their answers. FastAPI up to 0.117 ran the exit
code of a dependency, here the commit, before it sent the response; from 0.118 on
it runs after it. `pyproject.toml` admits both and `uv.lock` pins 0.136.3, so
`responseFirst` is chosen in `ClientsInit` and never changes.

**PooledBooking** adds the connections. A request checks one out for its first
statement, the SELECT of `get_current_user`, and keeps it until `get_db_session`
commits or rolls back; so does a request for a description, which then has nothing
to ask of the database and waits for OpenAI (`EndDescription` is the end of the
loop that `AiGeneration` models). `Checkout` waits while `MaxConns` are held,
`PoolTimeout` gives up, `Unauthorized` is the 401 and `Die` the death of a worker.
The actions of `EventBooking` run only on a held connection (`BeginConnected`,
`GoOn`, `End`).

**Agenda** is the session service with the part of the event service its rules read.
The two SELECTs of `get_by_id_with_event` (`LoadSession`, then the rules in
`UpdateSession` or `DeleteSession`), the speaker query, the room query, the flush and the
commit are separate steps, since each statement sees what is committed when it runs and
none locks what it reads. Times are integers up to `Horizon`; who may manage an event is a
Boolean of the request (`allowed`), and so is the check of a session's seats (`slotsFit`).
`overtaken` is a history: the requests about an event to which another one's commit has
written since their first read.

**Timetable** is what the agenda promises: at a desk somebody opens the file of an event,
and places, changes or cancels a session, or directs the event, in one step that sees the
event and all the other sessions as they are at that moment. Who had the file open while
somebody else wrote to it is `late`, and is only bound to write one row of that event that
does not end before it begins (`Belated`). `Agenda` implements it with
`agenda <- sessions`, `open` the requests under way and `late` the overtaken ones
(`TimetableSpec`); only a commit is a `Write`.

**Accounts** is registration (lookup, hash, INSERT against the unique index,
commit) and login. `Lower` is an idempotent function on addresses.

**AiGeneration** is one limiter per worker, the retry loop of the OpenAI provider,
the fallback to the mock and restarts. `acquire` awaits nothing under its lock and
is one step; requests to OpenAI and the pauses between them are the points where
others run. `admitted` is a history of what the limiter let through. `Outcomes`
is what OpenAI may do: a text, a blank text, a reported failure, a text shorter
than the response model takes, a body without choices. The last two end in a 500.

**StartUp** brings a deployment up. `deployment` says whether the containers run
`start-production.sh` and whether the lifespan upgrades (`run_db_migrations_on_startup`:
production and staging). Both reach the same `alembic upgrade head`: `ReadVersion`, one
`ApplyRevision` for each revision, `CommitUpgrade`, in one transaction on a connection of
its own (`alembic/env.py:39-43`). `Revisions` is what the four scripts of
`alembic/versions` create and refer to, by name. PostgreSQL makes the second CREATE of a
name wait for the uncommitted first and fail once that is committed; `ddl` is the
transaction the others wait for. A worker of the lifespan takes the advisory lock with
`pg_try_advisory_lock`, which does not wait (`TryAdvisoryLock`), and its `finally` gives
it back (`Unlock`). `BreakUpgrade`, `WorkerDies` and `ContainerDies` are the faults. The
lock is held on a connection of the engine's pool (`migrations.py:34`) and the upgrade
runs on another one (`env.py:47-54`), so that a death leaves two: `Gone` holds the lock
until `EndLockSession`, and `ddl` until `EndTransaction`, in either order; the transaction
rolls back, or commits when its COMMIT was under way. uvicorn starts a worker again
(`StartWorker`), the platform a container (`StartContainer`).

**EventListing** is a client that walks through the pages of `GET /events` while the
events change. `CountEvents` and `ListEvents` are the two statements of
`EventRepository.list_events`; `Orders` has every order the database may return the rows
in, since ORDER BY leaves ties open; `PageCount` is `PaginatedResponse.build`.
`CreateEvent` and `ChangeEvent` are the commits of the other requests. `hist` records what has happened to the listing since the
walk began, which is what the properties are about.

External to the repository, and modelled from how it is used: the row locks, the
unique-index wait and the DDL locks of PostgreSQL, the column-wise UPDATE and the pool of
SQLAlchemy, the place of the commit in FastAPI, the supervision of workers and
containers, crashes, OpenAI, the client of the listing.

## 3. The runs

All runs have small identifier sets; nothing in the code depends on how many
there are, and each hazard needs at most two parties and a third that observes or
waits.

| Run | Question | Instance |
|---|---|---|
| `booking_safety` | do seats and registrations stay right beside one manager? | 3 users, one event of 1 or 2 seats, 2 booking requests, 1 manager request that edits capacity, seats, texts and status |
| `booking_managers` | what can two managers at once break, and what not? | 2 users, 2 manager requests and 1 booking, an event of 2 seats, capacity lowered to 1, seats set to 2, full and blank texts |
| `booking_answers` | do answers agree with the database, and what makes the seats stop fitting? | 3 users, 2 bookings, 1 manager who sets capacity to 1 or 2 and seats to 1, crashes, both orders of commit and response |
| `booking_pooled` | does every connection come back, and clean? | 1 booking, 1 manager, 1 description, 2 connections |
| `agenda` | what can two writers at once break, and what not? | 1 event, 2 sessions, 2 writers, times 0..3, the three rows of `Programme`, event dates 0..3 or 0..1 |
| `accounts` | one account per address? | 3 registrations, an address typed in two ways and another one |
| `ai_descriptions` | limit, retries, fallback | 2 users, 2 requests, 2 per window of 2, times 0..3, 2 attempts |
| `startup` | does a deployment come up, and on which tables? | 2 containers of 2 workers, every earlier release, script and lifespan on or off, 2 faults |
| `listing` | what makes a page skip or repeat an event? | 3 events, dates 1..3, pages of 2, published and cancelled, both orders, with and without filters |
| `status_race` | (violation) the status machine with two managers | 1 event, 2 manager requests |
| `overbooking` | (violation) attendees against capacity | 3 users, an event of 1 seat, 1 booking, 1 manager whose PUT sets `available_slots` to 1 |
| `double_booking` | (violation) two creations at once | 2 sessions, 2 writers, one speaker, one room |

Bounds, and why they are enough:

- *Seats 1 and 2*: a full event, an event with one seat left and one with more; the
  third user is the organizer or the one who comes too late.
- *One event*: no action of booking relates two events. The theorems hold for any
  number.
- *Agenda*: `Programme` has one pair of rows for each rule: two speakers in one room and
  one speaker in two rooms, with an hour in common; a row the shortened day is too short
  for; a status to go on to and none to go back to; and two edits of the longest row, one
  of its begin and one of its end, which merge into a negative length. `Clash` counts
  common hours and does not use `TimesOverlap`, so that these pairs, with one hour in
  common, tell an overlap test that is too narrow; for sessions that only touch and those
  of no length the theorems have all times (`ApartShareNoHour`).
- *Booking with managers*: one event of two seats lets a PUT of the capacity and one of
  the seats be valid each and against the CHECK together.
- *Limiter*: window 2 and clock 0..3 let a hit leave the window and the next window
  fill; one worker is enough for what a process promises, for workers share nothing.
- *Pool*: three requests for two connections, so that one waits for the pool, one for
  the row lock on a held connection and one for OpenAI.
- *Start-up*: `MaxFaults` 2 lets an upgrade fail and its successor die; two workers in
  each container let a worker lose the lock to its sibling and to a stranger. The run
  says `CHECK_DEADLOCK FALSE`: once all workers serve and the faults are spent, nothing
  more happens.
- *Listing*: three events and pages of two are a full page and a partial one; three
  dates let an event move before, between and behind the others.
- *Symmetry* is declared where a run checks no liveness, over identifiers that the
  model only compares.

What the runs say beyond their tables:

- Two managers break the status machine and `is_publishable`, and in one way only:
  `StatusMachineUnlessOvertaken` and `PublishableUnlessOvertaken` say that the commit that
  does it is of a manager whose loaded row is no longer the stored one. Registrations,
  cancellations, deletions and edits nobody overtook never do. A `FOR UPDATE` in
  `update_event` and `delete_event` would leave no such commit.
- `StoredRowsReadable`: a draft may be made unfit for `EventRead` only inside a
  transaction that the answer then undoes, and column-wise merges of stale rows do
  not bring such a row together either.
- `SeatsFitUnlessEdited`: attendees and free seats stop fitting the capacity only by a PUT
  that lowers the stored capacity or raises the stored seats, since `update_event` counts
  no attendees; and only at such an event a cancellation finds no room under the CHECK
  and ends in a 500 (`CancelFailsOnlyOverbooked`).
- `TruthfulAnswers` holds with the commit first. With the response first
  `OnlyDeathBreaksPromises` is what is left: the next request of the same client
  waits for the row lock, hence for the commit, so only a death in the gap shows.
- `ConnectionsComeBack` needs nothing of `pool_timeout`: who holds a connection
  waits for a row lock whose owner holds one too, or for OpenAI, and never for the
  pool. A second session inside a request would break that; its mutant does.
- `ClashesComeLate`, `FrozenUnlessOvertaken` and `WindowsLostLate` say of the agenda what
  breaks each rule: a commit of an overtaken request, and for the dates also a PUT that
  takes days away. `TimetableSpec` says that every other commit is by the rules.
- `CreatedIsAlone` says that a registration whose INSERT went through cannot fail
  on the index any more.
- `SchemaMatchesVersion` and `ComesUp` hold for every way to start. Where the
  lifespans alone upgrade two live workers never meet (`HookUpgradesNeverCollide`); one
  may find the transaction of a dead one still open, its lock gone first, wait for it, and
  fail if it commits. A worker that finds the lock taken serves on the old tables until the
  winner commits; behind the script it cannot (`HeadWhenScripted`), but there two
  upgrades can meet, of which the second fails, takes its container down and finds the
  work done.
- `SkippedOnlyByLeaving` and `RepeatedOnlyByComing` name every reason: an event that
  left or moved shifts the later pages back, one that came or moved shifts them on, two
  of one date may change places between two pages, and one that comes between the count
  and the slice may be behind the last page.

### Fairness

`booking_pooled`: weak fairness of `ServeConnected` is the event loop, which resumes
every coroutine that can go on, and the timeout of OpenAI's client, which ends a
description. Strong fairness of `GetByIdForUpdate` and `Flush` is PostgreSQL's queue of
waiters for a row lock, and of `Checkout` the pool's queue: a waiter is not passed over
for ever while a lock or a connection is taken and released. Arrivals, `pool_timeout`
and deaths are not fair.
`accounts`: likewise weak fairness of each request, strong fairness of an
INSERT that waits for another transaction's row. `ai_descriptions`: weak fairness
of `Serve`; a request to OpenAI ends with an answer or the client's timeout, and
`asyncio.sleep` ends. `Answered` there needs no fairness of the clock. `startup`: weak
fairness of every process, which includes that uvicorn and the platform start again
what has ended, and of `EndLockSession` and `EndTransaction`: PostgreSQL notices a closed
connection in the end. Faults are not fair and at most `MaxFaults`.

### Disagreements

Three runs show the code doing something else than its documentation or tests say
(`findings`): a PUT or DELETE decided from a stale row overwrites a terminal
status; a PUT of `available_slots` is held against the capacity and not against who
attends, so that two users attend an event of one seat; two sessions created at once
take the same speaker and room.

The models show more of the kind:

- an event blanked as a draft by one manager is published by another one
  (`PublishableUnlessOvertaken` allows this commit only, `event_service.py:131`);
- capacity 2 lowered to 1, or seats raised: the seat of a cancellation no longer fits
  under the CHECK, and the attendee gets a 500 and stays registered
  (`CancelFailsOnlyOverbooked`, `registration_service.py:121`);
- an event is cancelled while an edit of a session is on its way
  (`FrozenUnlessOvertaken`, `session_service.py:188`);
- a PUT of the event's dates leaves its sessions outside (`WindowsLostLate`,
  `event_service.py:110`);
- a text shorter than the response model takes, or a body without choices: no fallback
  and a 500 (`Generated`, `ai_service.py:90`);
- two workers of `AiGeneration` admit a user twice as often as the limit
  (`ai_rate_limiter.py:15`; `ARCHITECTURE.md:808` says so);
- the second of two simultaneous registrations of an address passes `email_exists` and
  fails on the index, which `Insert` of `Accounts` models: an unhandled IntegrityError,
  hence a 500, where a taken address is a 409 (`user_service.py:23`,
  `tests/test_auth.py:20-29`).

## 4. The proofs

TLAPS proves these for every value of the constants, from the assumptions stated beside
them only:

- `BookingAssumption`: finitely many users, disjoint request kinds, positive capacities,
  sentinels that are no rows; `ClientsAssumption`: `NoReply` is no answer; `PoolAssumption`: finitely many
  requests, at least one connection;
- `AgendaAssumption`: dates in order, bodies of the right type, sentinels that are
  neither sessions nor writers;
- `AccountsAssumption`: `Lower` is idempotent;
- `AiAssumption`: a positive limit and window, at least one attempt;
- `StartUpAssumption`: containers are not workers, every worker has one, the sentinels are
  neither;
- `ListingAssumption`: finitely many events, pages of 1 to 100, dates are numbers.

None of them excludes a body the schemas accept or a value `config.py` allows. The one theorem with a further hypothesis is
`ExtensionsKeepSessions`, about behaviours whose commits take no days away.

`EventBookingProofs`:

| Theorem | Says |
|---|---|
| `BookingInvariant` | the inductive invariant `BookingInv` |
| `TypeCorrect` | `TypeOK`; a seat counter or a count of rows is never negative |
| `NoDuplicateRows` | `OneRowPerAttendee` |
| `RegisterSafe` | `RegisterNeverInternalError` |
| `ImplementsLedger` | every step of `EventBooking` is a step or a stutter of `SeatLedger` |
| `RowsReadable` | `StoredRowsReadable`, with any number of stale managers |
| `StatusLeftOnlyByTheLate` | `StatusMachineUnlessOvertaken`, with any number of managers |
| `IncompleteOnlyByTheLate` | `PublishableUnlessOvertaken`, likewise |
| `DraftsAreEmpty` | `NoAttendeesInDraft`, likewise |
| `SeatsKeptButByEdits` | `SeatsFitUnlessEdited`, for every capacity and every edit of it |
| `CancelsFitButForEdits` | `CancelFailsOnlyOverbooked`, likewise |

`OneRowPerAttendee` is not inductive by itself: that a staged insert finds no other
row at its commit depends on what the request saw when it took the lock. `BookingInv`
adds, for every request (`RequestInv`), that whoever has passed the `FOR UPDATE`
holds the row lock, that the row it loaded is still the committed one, that the
seat it takes is there and its registration row is as it was when it decided
(`AttendeeWork`), that a manager's staged row is a row and a new event is not yet
visible (`ManagerWork`), and that a flushed row satisfies the CHECKs. One lemma says
that only the holder of a row's lock changes the row and its registrations
(`CommitHoldsLock`, `OthersUntouched`), so other requests keep their part
(`OthersKeepInv`); then each action is shown to keep its own. The three theorems about
the status rest on `AllowedEdits`: whatever a manager has staged is an allowed transition
of the row it loaded, and offers no row with blank texts. A commit of one who was not
overtaken then makes that same transition of the stored row (`CommittedStatus`,
`CommittedTexts`).

The last two count. A registration or a cancellation moves one seat and one attendee
together (`BookedFits`), a new event starts with nobody and all seats free (`OpenedFits`),
and a manager's commit that neither lowers the stored capacity nor raises the stored seats
leaves room for who attends, over the cardinality facts of FiniteSetTheorems. A
cancellation at an event whose seats fit has room for its seat (`ReturnedSeatFits`), and
no manager can change that before its COMMIT, because it holds the row lock.

`PooledBookingProofs` shows that the pool adds waiting and nothing else:

| Theorem | Says |
|---|---|
| `PooledImplementsBooking` | every step is a step or a stutter of `EventBooking`, so all of its safety theorems hold behind a pool |
| `PooledInvariant` | the inductive invariant: an active request holds a connection, a row lock has an active owner |
| `PoolBounded` | `PooledTypeOK`: never more than `MaxConns` held |
| `ConnectionsClean` | `NothingLeftBehind` |

`BookingClientsProofs`:

| Theorem | Says |
|---|---|
| `ClientsImplementBooking` | every step is a step or a stutter of `EventBooking` |
| `ClientsInvariant` | the inductive invariant `ClientsInv` |
| `ClientsTypeCorrect` | `ClientsTypeOK` |
| `AnswersAreTrue` | `TruthfulAnswers`, for any number of clients, requests, managers and deaths |
| `OnlyDeathLies` | `OnlyDeathBreaksPromises`, in either order of commit and response |

`TruthfulAnswers` needs three facts beside `BookingInv`. A registration that writes
nothing has found its user registered and keeps the row lock until its commit
(`FoundPlaces`). With the commit first (`CommitFirstInv`), an answer on its way is true, a
client waits for one answer about an event at a time, and has forgotten the one before.
With the response first (`ResponseFirstInv`), who was answered has only its commit left;
two bookings of one event are never both there, because each holds the row lock.

`StartUpProofs`, for any number of containers, workers and faults:

| Theorem | Says |
|---|---|
| `StartUpInvariant` | the inductive invariant `StartUpInv` |
| `TypeCorrect` | `TypeOK`; the advisory lock is a worker's |
| `UpgradesAtomic` | `SchemaMatchesVersion` |
| `ScriptUpgradesFirst` | `HeadWhenScripted` |
| `AdvisoryLockSuffices` | `HookUpgradesNeverCollide`, whichever connection of a dead worker ends first |
| `AdvisoryLockReturned` | `LockOnlyWhileUpgrading` |

`SchemaMatchesVersion` alone is not inductive: what a commit adds are the revisions after
the version its upgrade has *read*. `StartUpInv` adds that whoever has created something,
dead or alive, owns `ddl` and has read the stored version; an upgrade that was overtaken has applied
nothing yet, and its first CREATE fails, because the revisions between the version it
read and the stored one are there. It is here that the names in `Revisions` matter.
`HookUpgradesNeverCollide` is about steps: between the lifespans the advisory lock says who
upgrades (`OneUpgrade`), and a version moves only by a commit of that one or of what a dead
one left (`VersionMoves`).

`AccountsProofs`: `AccountsInvariant`, `AccountsTypeCorrect`, `NoTwins`,
`CreatedStaysAlone`. The invariant says that an uncommitted row is in lower case
and its address is nobody else's, committed or not. The lookup `email_exists`
plays no part in it: the index alone carries the property.

`AgendaProofs`, for any number of events, sessions, writers, labels and times:

| Theorem | Says |
|---|---|
| `AgendaInvariant` | the inductive invariant `AgendaInv` |
| `AgendaTypeCorrect` | `TypeOK`; stored rows satisfy their CHECK, also when they merge two edits |
| `SessionsRemain` | a stored session stays a row of the same event |
| `ExtensionsKeepSessions` | sessions stay between the dates of their event as long as no commit takes days away from it, overtaken or not |
| `PromptInvariant` | the inductive invariant `PromptInv` of the requests nobody has overtaken |
| `BookedTwiceOnlyLate` | `ClashesComeLate` |
| `OutOfDatesOnlyLate` | `WindowsLostLate` |
| `FrozenButForTheLate` | `FrozenUnlessOvertaken` |
| `ImplementsTimetable` | every step of `Agenda` is a step or a stutter of `Timetable` |

`TypeOK` is not inductive: what a commit stores is a merge that a flush has checked
earlier. `AgendaInv` adds that a request about a session wants a row of the session's own
event, that the row an INSERT is about to add is in no table and locked by its writer,
and that whoever has flushed a change holds the lock of its row, so that the row it
checked is the one it commits. For `ExtensionsKeepSessions`, an UPDATE that merges the
times of two requests takes each bound from a row that was within the event, so only dates
that shrink leave a session outside (`SessionsFit`).

The other theorems are about which requests can break a rule. `PromptInv` says of a
request that nobody has overtaken that all it has read and found (the session's row, the
event's status and dates, the two empty answers to its queries) still holds. A commit
changes the event it is about and that event's sessions only (`CommitOfEvent`), and
overtakes everybody else who is at work on that event, so the others keep their part
(`OthersPrompt`). A request that commits without having been overtaken therefore writes by
the rules as they are at that moment. A lock on the event's row, taken before the rules are
checked, is all the code would need; `double_booking` shows what happens without.

`AiGenerationProofs`, for any users, workers, limit, window and number of attempts:

| Theorem | Says |
|---|---|
| `AiInvariant` | the inductive invariant `AiInv` |
| `AiTypeCorrect` | `TypeOK`; no attempt beyond `ai_max_retries`, no more hits than granted |
| `LimitKept` | `WindowBound`, through restarts |
| `RefusalsJustified` | `NoFalseRefusal` |

`WindowBound` counts admissions in every window there ever was, while the limiter only
has the hits of the last one. `Limiter` ties the two: the hits are the end of the
admissions, what was dropped has left the window for good, and of `MaxRequests` + 1
admissions in a row the last comes a whole window after the first. `Recent` is written
as the end of the list, because that is what the prover can handle; on a list in order
of time it is the code's filter (`RecentIsFilter`), and the list is in order by the
invariant.

`EventListingProofs`, for any events, dates, filters and page sizes:

| Theorem | Says |
|---|---|
| `ListingInvariant` | the inductive invariant `TypeInv /\ WalkInv` |
| `ListingTypeCorrect` | `TypeOK` |
| `StillWalks` | `StillWalkComplete` |
| `SkipsHaveACause` | `SkippedOnlyByLeaving` |
| `RepeatsHaveACause` | `RepeatedOnlyByComing` |
| `PagesMatchTotals` | `PageMatchesTotal` |

The argument follows the rank of an event, how many listed events come before it. As
long as nothing has left its place, an event stands no earlier than it did, and as long
as nothing has come, no later (`RankFalls`, `RankRises`). So without a departure an event
the walk still owes is on a page to come (`AwaitedAhead`), and without an arrival one
that it has returned is on the pages done (`ReturnedBehind`). A page is the ranks from
its offset on, each once (`OrderIsRank`, `HitsAreRanks`), as long as no two dates are
equal.

Only model-checked are the liveness properties, for fairness and ENABLED are out of the
prover's reach: `ConnectionsComeBack`, `RegistrationsEnd`, `Answered` and `ComesUp`.
Every other property of a passing run has its theorem.

## 5. What is left out, and why

- *Reads that change nothing* and are one statement: an event, lists of attendees, of a
  user's events, of sessions. The paged listing is two statements and is modelled.
- *Search text and `start_date_to` of the listing*: they select rows as the status and
  the first date do.
- *alembic's offline mode and `downgrade`*: nothing in the repository runs them.
- *Dates in EventBooking*: they have a CHECK like the seats, and `Agenda` models
  what they are for. Its `UpdateEvent` leaves out the other columns in turn.
- *Passwords, hashes, tokens*: equal or not; expiry and signature are the library's.
  `require_roles` guards no route.
- *Texts*: sanitising, prompts, log lines, error wording; a refusal is its `code`.
- *Nulls for texts, dates or status in a PUT*: a refusal, an error or no change, as with
  other values; nulls for capacity and seats are modelled.
- *Seats of a session*: checked against its own capacity and used by nothing else. An
  error on them at the flush, or of `SessionRead`, is a `Rollback` of `Agenda`, which may
  come at any step.
- *Enum types of a revision*: they are created with `checkfirst`; of a name that is there
  already it is the CREATE of the table that fails.
- *Deadlocks between rows*: a transaction waits for the lock of one row only, the
  event's (registration rows are written under it), so there is no cycle to find;
  `booking_pooled` checks the waiting itself, with the waiting for connections.
- *Routes, exception handlers, middleware, logging, `input_policies.py`*: they format,
  validate and translate, and keep no state; what they refuse never reaches a service.
- *Configuration*: read at import; the values that matter are constants.

## 6. Plan

1. **AgendaClients**: what the answers of the session service promise their clients, as
   `BookingClients` has it for bookings, over `ImplementsTimetable`.
2. **One row of events**: `EventBooking` and `Agenda` over a common row, so that one notion
   of being overtaken covers managers and session requests.
