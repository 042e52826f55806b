# PingWake: verification development

TLA+ models of PingWake, the service that checks HTTP targets, opens and resolves
incidents and tells Discord about them.  The models are translated from `src/app/`,
`src/migrations/` and the `Dockerfile`; paths below are relative to `src/`.  TLC checks
them on small instances (the `.cfg` files), TLAPS proves the theorems in the `*Proofs`
modules and in `TargetChecksRefinement`.  `PROJECT.json` maps every definition to its lines.

    tlc -workers 2 -config TargetChecks.cfg MCTargetChecks
    tlapm TargetChecksProofs.tla

## The system

PingWake is one FastAPI process with a PostgreSQL database.  An external cron
calls an internal endpoint every few minutes, a person or the DevBase calls the
API.  Nothing in the process keeps two requests apart: what coordinates them is
the database, each request with a session of its own, READ COMMITTED, and an ORM
that writes only the columns whose value differs from what it read.

| Component | State | Operations | Meets the others by |
| --- | --- | --- | --- |
| Checks and incidents (`services/check_runner.py` `run_target`, `incident_service.py`) | rows of `monitoring_targets` (status, counters, thresholds), `check_runs`, `incidents` | run one check; PATCH, DELETE; retention | row locks and foreign keys; hands a transition to the notifications |
| Delivery (`notification_service.py`) | `notification_events` rows, the snapshots sessions hold | first attempt, retry batch, forced retry | reads incidents and check runs, posts to Discord |
| Scheduler cycle (`check_runner.py` `run_due_targets`) | `scheduler_runs` rows, the tasks, the semaphore, the connection pool | one cycle per call of the cron | starts checks, retries and retention |
| Timing and staleness (`check_runner.py`, `status_service.py`) | `interval_minutes`, `next_check_at`, `last_checked_at`, `enabled` | select, plan, PATCH, evaluate | the cron's period lies between them |
| Encrypted configuration (`request_config_service.py`) | two ciphertexts, each with a flag | PATCH, read by a check | the HTTP checker reads what a PATCH wrote |
| Retention (`retention_service.py`) | none | deletes old runs, events and cycles | deletes rows others still refer to |
| HTTP checker (`http_checker.py`) | none | request, classify | supplies the status |
| Migrations (`migrations/`, `Dockerfile`) | the tables, `alembic_version` | upgrade when a container starts, downgrade by hand | the API starts after the upgrade and writes to what it left |
| Watchdog (`system_status_service.py`) | none | read | reads the start of the latest cycle |
| DevBase summary | none | read | reads rows while checks commit |
| Settings, cipher, URL validation, keys, routes | none | | |

What is hard, and what must hold:

- **Read, wait, write.**  `run_target` reads the target, waits seconds for HTTP and
  writes counters computed from the old row.  Two checks of a target may overlap
  (two cycles, or a cycle and `POST /targets/{id}/check`).  There must still be one
  open incident at most, no invented result, one hand-over per transition.
- **Snapshots.**  A retry batch loads up to 100 rows before its first POST and never
  looks at them again; the identity map answers `session.get`.  A row that says SENT
  must have been sent; no event may be forgotten.
- **Locks in two orders.**  DELETE takes the children and then the target, a check
  the target and then its incident.  PostgreSQL breaks the cycle; nothing may hang
  and no row may survive its target.
- **Crashes, lost answers.**  Nothing in memory survives; a message Discord took may
  be recorded as a failure.
- **Limits.**  A semaphore per cycle, one pool for all of them, a connection held
  during the HTTP request, given back at the commit and wanted again for the refresh.
- **Two transactions, no outbox.**  A check commits its incident, and then, in a second
  transaction, the event that announces it.  A restart in between loses the alert, and so
  does a DELETE or an exception (`session.refresh`, the INSERT or its COMMIT raises, and
  `execute` swallows it).  Nothing that comes later may, and nothing may be announced that
  the incidents table does not say.
- **Three clocks.**  The limit of staleness comes from the interval, the next check from
  the interval and the cron, the limit of the watchdog from a setting of its own.
- **Migrations of a database in use.**  Every container runs `alembic upgrade head` before
  it serves; two may do so at once, one may be stopped, and an operator may go back.

## Modules

| Module | Models | State and actions |
| --- | --- | --- |
| `TargetChecks` | all checks of one target with the requests that touch its rows | `target`, `incidents`, `runs` are committed rows; `pc`, `loaded`, `run`, `seen`, `pending` are the locals of each `run_target`.  `LoadTarget` (session.get and the start of the request), `RecordCheck` (INSERT), `SelectOpenIncident` (autoflushed UPDATE, then SELECT), five `Commit...` actions, one for each branch of `apply_check_result`, `HandOver` or `RefreshRaises`; `PatchThresholds`, `DeleteChildren`, `DeleteTarget`, `Prune`; `Rollback`, `ForeignKeyViolation`, `CheckIsVictim`, `DeleteIsVictim`, `Crash` |
| `IncidentLedger` | abstract: incidents opened one at a time, resolved once, erased together | `Open`, `Resolve`, `Erase` |
| `IncidentPolicy` | abstract: when the service is down, as a function of the results | `Observe`, `Forget` |
| `NotificationDelivery` | rows and sessions of the delivery | `event` is committed, `loaded`, `limit`, `batch` belong to a session.  `CreateEvent`, `FirstAttempt`, `ListDueRetries`; `RetryPosts` and `ForcePosts` begin the attempt of a batch or of a person, `RetryGivesUp` and `ForceGivesUp` end the event because the row its message needs is gone; `Accept` (Discord), `SaveSent`, `SaveFailure`, `Elapse`, `Die`, `DeleteIncident`, `Prune` |
| `PingWake` | `TargetChecks` and `NotificationDelivery` over one database: the hand-over of a check is the creation of an event, the DELETE of a target takes its events, a message is rebuilt from the check runs that are left | both modules' variables, `shown` (the check in the message) and `dropped` (history: what was never announced).  `Check`, `Notify`, `NotifyRaises`, `Crash`, `Administer`, `DeleteTarget`, `FirstAttempt`, `ListDueRetries`, `RetryPosts`, `RetryGivesUp`, `Accept`, `Record`, `Age` |
| `SchedulerCycle` | cycles, tasks, semaphores, pool, `scheduler_runs` | `before` is the order of `next_check_at`, `ahead` the queue of a semaphore.  `Start`, `ListDue`, `Acquire`, `Open`, `PoolTimeout`, `CommitCheck`, `Refresh`, `Return`, `TaskFails`, `BeginClosing`, `EndClosing`, `Finish`, `CycleFails`, `Fail`, `FailRaises`, `Crash`, `BecomeDue`, `Toggle`, `PruneRow` |
| `CheckTiming` | one target and the clock, in ticks | `Tick`, `CronCalls`, `ManualCheck`, `Commit`, `MissCall`, `Lose`, `PatchInterval`, `PatchEnabled`; `IsStale` is `evaluate`, `SchedulerStatus` what the watchdog reports |
| `RequestConfig` | the secret columns and overlapping PATCH requests | `row` is committed, `loaded` and `payload` belong to a request; `asked` and `standing` (history) are what the last PATCH asked for.  `Load`, `Save`, `Refuse`, `Delete`; `Sends` is what a check sends |
| `Schema` | the revisions 0001 to 0004, up and down, as sequences of statements, and the columns of the models | operators only |
| `Migrations` | containers and an operator that migrate one database, and the writes of an instance that serves | `db` is committed, `todo` and `work` are the statements left and the tables touched by a transaction.  `StartUpgrade`, `StartDowngrade`, `Execute`, `Commit`, `IsVictim`, `Fails`, `Stop`; `CreateTarget`, `CreateEvent`, `RecordAttempt`.  `Plan` and `Stage` are the statements from one revision to another and what they leave, for the assumptions |
| `MC...` | the above for TLC: symmetry | |
| `...Proofs`, `TargetChecksRefinement` | theorems | |

A write of a transaction is applied at its COMMIT, since no other session sees it
before; the locks it takes until then are the guards (`RowLockFree`, `delLocks`, the
guard of `DeleteTarget`).  Operators marked `Mutant:` are wrong variants of the
definition that follows them.  They are not part of the model: each shows that a
property notices that mistake.

`Migrations` states in three assumptions what the revisions are meant to add up to: each
statement fits what those before it left, a downgrade ends where an older release began, and
revision 4 has the columns of the models.  TLC evaluates them before a run, so a revision
that forgets a column, or a CHECK with a typing error, is refused there
(`RevisionsAssumption`, `BuiltAssumption`); the run is about what happens to the statements
among other transactions.

Simplifications that a reader should know:

- `LoadTarget` joins session.get and `started_at`, which the checker takes next.  The
  id of a run is its place in the order of `started_at`.
- `TargetChecks` has one target, because no statement of a check touches rows of
  another.  The partial unique index on open incidents is left out: the row lock is
  enough, and that is proved.
- What a request meets is one of seven answers, chosen freely; `StatusOf` classifies
  it as `HttpChecker.check` does.  Codes, latencies and error texts are abstract.
- A timeout ends a request as a whole.  `httpx.Timeout` is one for each phase, so that a
  server that sends slowly may hold a check for longer, but not for ever unless it never ends.
- After the check's commit `HandOver` is one step, for `session.refresh` and the transaction
  of the event; in `SchedulerCycle` the connection wanted for the refresh is `Refresh`, and
  what the later statements may run into is `TaskFails`.
- A ciphertext is what it decrypts to; Fernet never gives the same one twice, so a
  new ciphertext always differs from what was read.
- `NotificationDelivery` leaves out `NOTIFICATIONS_ENABLED = false`, the limit of 100
  rows and the age of a row in retention.
- A cycle in `SchedulerCycle` that ended is idle and may start again; its counters of
  retries and deletions are left out.
- In `CheckTiming` the cycle is done with the target before the cron calls again;
  cycles that overlap are the subject of `SchedulerCycle`.
- In `PingWake` a session checks or delivers.  What a message shows is read when its
  attempt begins; with one session that is what the identity map of the code holds.
- A column in `Schema` has what an INSERT can tell: NULL, default, the values of its
  CHECK, the width of an enumerated one.  Indexes and types are left out.  A migration
  locks the tables it touches until it ends (ACCESS EXCLUSIVE), those a foreign key
  refers to included.
- `NotificationDelivery` and `PingWake` assume the columns of the models, in which every
  status fits; what a migrated database does with them is disagreement 3.

## Runs

All runs but the two of the scheduler have `CHECK_DEADLOCK FALSE`: a behaviour ends when
the bound on checks, patches, ticks or rows is reached, when the target is deleted, or when
every event has ended.  The scheduler never stops, and its runs check deadlock.

| Run | Distinct states | Question |
| --- | --- | --- |
| `TargetChecks` | 131,372 | Two overlapping checks, three started, a threshold that is patched between the default of 2 and 1: one open incident, counters that invent nothing, no orphan after DELETE, one hand-over per transition; the incidents implement `IncidentLedger`; every check ends although a DELETE can deadlock with it |
| `TargetChecksSerial` | 1,039,439 | No overlap, seven checks with three answers and the thresholds 3 and 2: the rows implement `IncidentPolicy`, `last_status` is the latest, the incident starts in the streak that opened it |
| `Notification` | 25,690 | Two sessions with one event, one forced retry, one crash: SENT was accepted by Discord, no attempt is counted that was not made |
| `PingWake` | 185,718 | One session, two checks, an incident that opens and resolves, every outcome of a POST, a forced retry, restarts, exceptions, retention and DELETE: Discord is told what the table says, an alert is lost only between the two transactions, a DOWN message shows a failure, the opening is told first unless its first attempt failed, the limit of attempts, reasons for a repetition, SENT is final, every event ends |
| `Scheduler` | 794,979 | Two cycles, two targets, a connection for every slot, two errors, a crash, a target that is toggled: the row says no more than was done, and it says PARTIAL or FAILED for a reason, never for want of a connection |
| `SchedulerServes` | 46,929 | One cycle after another, three targets, two slots, one connection, an error and a crash: a due target is served, a cycle ends, although tasks lose their checks to the timeout of the pool |
| `Timing` | 3,401,344 | Intervals of 3 and 5 ticks, a period of 2, calls that are missed: the next check comes in time, a target that is served is not stale, and one that is stale because the cron does not call is reported by the watchdog |
| `Secrets` | 68,506 | Two overlapping PATCH requests, four in all: no secret that was replaced, or found and cleared, is sent |
| `Migrations` | 36,148 | Two containers and an operator on a new database and on that of release 0.2: the tables are those of the version, an instance serves only what its models know, rows survive, a container that starts serves in the end |
| `StuckRetry` | | disagreement 1 |
| `UnclearedSecret` | | disagreement 2 |
| `NarrowStatus` | | disagreement 3 |

Bounds.  Two sessions are enough for every race here: each is between a read of one
session and a commit of another, and a third adds a second instance of the same race.
Three checks with two answers open an incident, with a threshold of 2 or after a PATCH
with 1, and overlap in its opening and in its resolution; seven
checks open one with 3, resolve it with 2 and begin a streak again.  `PingWake` has one
incident, because nothing of one incident is read for the alerts of another, and one
session, because most of its properties are about deliveries that do not overlap; the three
that hold for any sessions are proved.  Two attempts are
the least number with one that is retried and one that is the last; one forced retry
reaches the raised limit.  In `Scheduler` every slot
has a connection, which is the premise of `LostForAReason`; targets are toggled only there.
In `SchedulerServes` three tasks queue for two slots, and the two that hold one compete for
a single connection, which a check wants a second time after its commit: both limits bite,
and the pool times out before the check of one task and after that of another.  16 ticks are eight periods and at least three
intervals; with the default multipliers, 2.5 for targets and 3.0 for the watchdog, the
premise of `FreshIfServed` holds for the intervals of 3 and 5 (3 + 3 under 7, 5 + 3 under
12), that of `StaleIsReported` for 5 (5 + 6 under 12) and not for 3 (3 + 6 over 7), where a
target can be stale before the watchdog has waited long enough to tell.  Two
migrations overlap in every way two can; one downgrade to any version and one failure at
any statement meet each of them.  They start from a new database, whose upgrade passes
through every revision, or from that of release 0.2, where an upgrade and a downgrade can
deadlock, with a row of each table that has rules for its values; the theorems hold for
every release and any rows.
`MaxErrors`, `MaxCrashes`, `MaxToggles`, `MaxFailures` and `MaxDowngrades` bound how often
the environment interferes; the fairness below then demands progress after the last
interference.

Symmetry is used for sessions, cycles and targets, only in runs without a temporal
property.

Fairness.  `TargetChecks`: the HTTP request has a timeout, so a check ends (WF);
PostgreSQL queues the transactions that wait for a row, so a session that is able to
take the lock again and again gets it (SF on `SelectOpenIncident` and the commit); it
resolves deadlocks (WF on `CheckIsVictim`).  Nothing is assumed about PATCH, crashes,
rollbacks or the start of checks.  `PingWake`: a POST has a timeout, a check that has begun
ends, a DELETE that has begun ends, the cron calls again and its batch takes every row it
listed, delays pass (WF); nothing about Discord's answers, restarts or persons.
`SchedulerCycle`: the cron calls for ever and the
pool serves its waiters in order (SF on what a cycle does next and on `Open`), tasks proceed
(WF); no fairness for errors, crashes and changes of targets.  That a target which lost its
checks is served in the end needs two orders of the code as well: `list_due_ids` sorts by
`next_check_at`, which only a committed check moves, and `asyncio.Semaphore` is first in,
first out, so who was given up comes first in the next cycle (mutant `ListDueUnordered`).  `Migrations`: the platform starts a
container that has exited (WF), and a migration that can go on again and again does (SF on
`Proceeds`: locks are granted in the order of the requests, deadlocks are resolved); none
for operators and failures.

`SchedulerServes` has one cycle at a time on purpose: with two cycles on a pool that is
always exhausted the tasks of one may time out for ever, and no line of the code
promises otherwise.

## Disagreements between the code and what is said of it

1. `StuckRetry`.  `README.md:84` says failed notifications are retried by the cycle of the
   cron.  An event is committed as due before its first POST, so a batch may list it as
   PENDING with no attempt, and holds that snapshot until its turn comes.  Meanwhile two
   other attempts fail and the row is FAILED, 2 of 2.  A person forces it: that session
   reads FAILED and allows itself a third attempt.  Now the POST of the batch fails and
   writes RETRYING, one attempt and a retry time.  Then the forced POST fails; FAILED and
   no retry time are what the session had read, so the flush writes only the counts, 3 of 3.
   The event is RETRYING with no attempt left, and `list_due_retries` never selects it
   again; only another retry by hand would end it.  The run is one of `PingWake` with two
   sessions; its trace needs neither retention nor a restart.
2. `UnclearedSecret`.  `app/schemas/monitoring_target.py:140` and `:146` and `README.md:242`
   say that `null` clears the headers and the body.  A PATCH writes what differs from the
   row it loaded.  One that sends `null` for a field it found empty, and commits after
   another PATCH has set the field, writes nothing: the secret is still sent.  `NoOldSecret`
   says what does hold, and leaves this clear out by name.  The same flush has two more
   consequences, which no run shows: a PATCH that sets a field it found set, after
   another has cleared it, leaves a ciphertext without the flag, and nothing is sent;
   and four PATCHes in two overlapping pairs can leave the flag without the ciphertext, the
   state `app/services/request_config_service.py:42` and `:55` report as an error of every
   later check.
3. `NarrowStatus`.  `migrations/versions/20260707_0002_notification_events.py:48` creates
   the status of an event as an enumeration of `sent` and `failed` without a length, which
   is a VARCHAR(6).  `20260708_0004_reliability.py:50` lets its CHECK admit `pending` and
   `retrying` and does not widen the column, so PostgreSQL refuses the INSERT of every new
   event.  SQLite, on which the tests run (`docs/VALIDATION.md`), ignores the width, and
   the model says `length=20`.  `CHANGELOG.md:22` promises that a failure of Discord no
   longer loses an alert.

Two more things happen when checks overlap, and no line promises otherwise for that case:
two failing checks both write the counter they read plus one, so three consecutive
failures (`docs/DEVBASE.md:27`) may open no incident; and an unchanged `last_status` is not
written, so an overlapping healthy result can stay.

Overlapping sessions are also why some properties are stated for checks or deliveries
that do not overlap: `LastStatusIsLatest` and `ImplementsPolicy` (above), `AttemptLimit`
(two deliveries count one attempt), `SentIsFinal` and `EventsSettle` (disagreement 1) and
`RepeatedForAReason` (an event is committed as due before its first POST, and a batch of
the cron may post it as well).

## What is proved

TLAPS proves the following for every value of the constants that the `ASSUME`s allow;
TLC evaluates these in the runs.

`TargetChecksProofs`, for any number of sessions and checks:

- `TypeCorrect`, `AtMostOneOpenIncident`, `DeletionIsComplete`.  That there is one open
  incident is not inductive: an INSERT of a second is only wrong if the SELECT before it
  was out of date.  `IInv` adds that one transaction at a time is past its UPDATE of the
  target (`LockExclusive`), that what it selected is still what is open (`SeenOpen`: only
  the holder of the lock changes incidents, but for the DELETE, which waits for it), and
  that a transaction that has inserted its run keeps the target alive (`TargetHeld`).
  Remove the autoflush before the SELECT (mutant `SelectWithoutFlush`) and the theorem is false.
- `CountersAreHonest`: a session writes the counter it read plus its own result.  What it
  read did not exceed the committed results when it was read (`ReadIsCommitted`), and these
  only grow; its own result is committed with the counter.

- `HandedOnce`: no two calls notify the same transition.  `HInv` relates what is pending
  or handed to the status of its incident: an "opened" exists for incidents only, a
  "resolved" for resolved ones only, unless the target is gone.
- Lemmas for the composition: a step takes no transition back and adds only what a session
  keeps for later (`NextTransitions`), which is new (`CommitIsNew`); the check that an
  incident names as its last one failed (`NextRunsInv`), because a check in flight has an id
  that no run, incident or other session has (`OwnIds`).

`TargetChecksRefinement`:

- `LedgerRefinement`: every step maps to a step of `IncidentLedger` or to a stutter, with
  the statuses of `incidents` as the ledger.
- Three theorems about behaviours in which the checks of the target do not overlap:
  `ChecksDoNotOverlap` says that at most one session is between `session.get` and its
  commit.  Any number of sessions may take turns, and a hand-over, a PATCH, a DELETE,
  retention or a restart may come in between.  It is what the scheduler keeps to as long as
  a cycle ends before the next and nobody checks by hand; that it is needed is said above.
  `SerialInv` is the inductive invariant: what the session in progress has read is what the
  row holds (`ReadIsCurrent`); the status is the last result and each counter is the length
  of the streak the results end with, no less and no more (`RowFollowsResults`); results
  are committed in the order of their ids (`LogInOrder`), and retention leaves an end of
  them (`PrunedFromBelow`).
  - `LastStatusIsCurrent`: `last_status` is the latest result.
  - `IncidentsStartInTheirStreak`: the oldest of the `consecutive_failures` latest runs that
    were not healthy is one of the streak.  The runs of the streak are the latest, none of
    them is healthy, and there are as many as the counter says, so the query returns just
    these; where retention took some of them, it took everything before them as well.
  - `PolicyRefinement`: every step maps to a step of `IncidentPolicy` or to a stutter.
    `PolicyInv` adds that an incident is open exactly if the results say so
    (`DownIsConfirmed`).  `SettingsOnly` restricts it to targets without thresholds of
    their own: with a PATCH of a threshold an incident opens by the rule of then, and the
    policy has one rule.  The defaults are any in 1..20.

`CheckTimingProofs`, for any interval, period and duration below the period:

- `TypeCorrect`; `TargetsAreCheckedInTime`: an enabled target is checked within interval,
  period and duration, plus a period for every check that was lost;
  `ServedTargetsAreFresh`: if these fit under the limit of staleness, a target that is
  served is not stale.  The invariant follows the next call of the cron: it comes at most
  one period after the target is due (`CronAhead`), and a check in flight began with the
  last call (`CronFlight`), so it has not been in flight for a period.  The one
  assumption beyond the types is `MaxDuration < CronPeriod`.
- `StaleTargetsAreReported`: if the limit of the watchdog fits between the interval and the
  limit of staleness, a stale target of which no check was lost means that the last run of
  the cron is older than the watchdog allows.

`RequestConfigProofs`, for any number of PATCH requests and secrets: `TypeCorrect` and
`NoOldSecretIsSent`.  A PATCH that sets a field flushes its ciphertext whatever it had read,
and only such a PATCH raises the flag; one that clears a field it had found set flushes the
column it had found.  So whatever a check still sends was set last.  The invariant adds that
a request that has not ended holds a row (`LoadedIsRow`).  A clear that had found the field
empty is not covered: it has no effect, which is disagreement 2.

`NotificationDeliveryProofs`, for any number of sessions, events and attempts, with
deliveries that overlap, die or are forced: `TypeCorrect`, `SentMessagesWereDelivered` and
`CountedAttemptsWereMade`.  Two sessions with one row write different columns of it, so the
invariant says of each column, by itself, what it shows: a row, a row in memory and a row of
a batch count no attempt that was not posted (`CountsMade`, `AttemptIsLoaded`).

The last part is about one session (`OneDelivery`): `AttemptsAreLimited`,
`RepetitionsHaveAReason`, `SentRowsAreFinal`.  `SerialInv` says that the row the session
holds, and every row of its batch, is the row of the table, so that each POST is counted by
the row, by a death, or is the one in progress, and each delivery by SENT, by a lost answer
or by a death.  With two sessions none of it is true, and the section above says how.

`SchedulerCycleProofs`, for any number of cycles, targets, connections and slots:
`TypeCorrect`; `RowsAreTrue`, that the `scheduler_runs` row says no more than what was done;
`NoCheckIsLostForRoom`, that where the pool has a connection for every slot of the cycles
(`Room`), every cycle that ends says COMPLETED until something raises or a target is changed.
`IInv` adds that a cycle never runs more tasks than it has slots (`SlotsRespected`), that what
a task returned was committed (`ReturnedWasChecked`) and that a row of a running cycle has no
results (`RunningRowIsEmpty`).  From the slots follows that a task which asks for a
connection, at the start or for the refresh, finds one (`UsersHaveSlots`, `RoomToOpen`); then
a task that has ended has a status (`EndedHasStatus`), and none is left when the cycle closes
(`GatheredBeforeClosing`).

`PingWakeProofs`, the composition:

- `ChecksAreTargetChecks`: the system refines `TargetChecks`, so its theorems hold of it.
- `DiscordIsToldTheTruth`, `NoAlertIsForgotten`, `AlertsShowFailures`, for any number of
  sessions.  `IInv` is that of the checks, that of the deliveries, and how they meet: what
  was announced is shown by the incidents (`AnnouncedIsShown`) and what these show is
  announced, pending, or dropped by a restart, a DELETE or an exception between the two
  transactions (`AlertsAccounted`).  `MessageInv` follows the check in a
  message from the commit, or from the row it is rebuilt from, to the POST.
- `AttemptsAreLimited`, `RepetitionsHaveAReason`, `SentRowsAreFinal`, for one session, also
  when it checks in between and the DELETE takes all events at once.
- `TheOpeningIsToldFirst`, for one session.  The property speaks of one step and of two
  events; the invariant has to say what is left of an opening once its incident is over: it
  is not pending, not created and unposted, and if it is being posted, not for the first time
  (`OpeningIsPast`).  That needs that whatever waits in the table or in a batch was posted
  before (`WaitingWasPosted`), and that a session has no check in hand while it delivers
  (`Apart`).

`MigrationsProofs`, for any number of containers, downgrades, failures and rows:
`TablesFitTheModels`, `TheVersionTellsTheSchema`, `WhatServesHasItsModels`, `NoRowIsLost`.

- The columns are the repository's own, and what a sequence of statements does to them is a
  fold, which the provers cannot evaluate.  So it is assumed in the three assumptions above,
  closed formulas that TLC evaluates; what is proved from them is everything that comes of
  the overlap of transactions.  Lemmas about the single statements (`EffectShape`,
  `EffectFits`, `EffectKeepsRows`) say that a statement treats all tables with the same
  columns alike, that it leaves rows the columns admit, and that it loses no row.
- A migration plans its statements from a version it reads without a lock; the tables it then
  finds may be those of another revision, or the version may have gone and come back.
  `OnItsWay` therefore says what a transaction sees only of the tables that are as its plan
  assumes.  That the UPDATE of `alembic_version` found the number of the plan, and keeps it
  locked, is what turns this into a statement about all tables at the COMMIT.  With an UPDATE
  that replaces any number (mutant `UpdatesAnyVersion`) the theorems are false.
- `WhatServesHasItsModels` adds that without a downgrade nobody leads away from revision 4
  (`HeadIsServed`); `NoRowIsLost` that a write waits for the transaction that has its table.

Only model-checked: liveness and all that rests on fairness (`SessionsFinish`,
`EventsSettle`, `CyclesEnd`, `DueIsServed`, `ContainersServe`), which is out of the prover's
reach; and the assumptions about the revisions, which TLC evaluates.

## Not modelled

- The DevBase summary (`app/api/routes/integrations.py`): a reader in three statements.
  Its answers may come from three moments and no line promises that they agree; the rule of
  staleness it applies is in `CheckTiming`.
- URL validation and API keys (`app/core/security.py`, `app/api/dependencies.py`):
  decisions on a request before any state is read.
- Settings, the cipher, logging: the settings are the constants of the modules, the cipher
  an abstract function.  An invalid list of retry delays raises while a failed attempt is
  being recorded; the session then ends as in `Die`, but the setting is no state of a model.
- Routes and schemas that list, validate or serialise.  A response validates the stored URL
  again under the settings of now, a function of one row.
- The text of a message, the limit of 100 rows of a batch, the counters of a cycle for
  retried and pruned rows, the number of seconds of a retry delay (`Elapse`).

## Plan

Done: every component that keeps state, its composition where two of them meet, and the
proofs above.

Left, should the code grow there:

1. A reader for the DevBase summary, once its answers are meant to agree.
2. The choice of the retry delay (`_retry_delay`) as a function with a reference definition.
