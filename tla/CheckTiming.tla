---------------------------- MODULE CheckTiming ----------------------------
(***************************************************************************)
(* When a target is checked, when its status counts as stale, and when the *)
(* watchdog reports the cron: the times that run_target writes and that    *)
(* list_due_ids and StatusService.evaluate read, the start of the latest   *)
(* scheduler run that SystemStatusService reads, and the external cron     *)
(* between them.                                                           *)
(*                                                                         *)
(* Time is a count of ticks.  The cron calls at every CronPeriod, or misses *)
(* the call; a cycle is done with the target within MaxDuration, its wait  *)
(* for the semaphore included, and that is before the next call.  A check  *)
(* by hand may run at any time beside it.  Statuses and incidents are      *)
(* TargetChecks.                                                           *)
(***************************************************************************)
EXTENDS Integers

CONSTANTS
  Intervals,    \* values of interval_minutes, in ticks
  CronPeriod,   \* the period of the external cron
  MaxDuration,  \* the longest time from the selection of a target to its commit
  Multiplier,   \* ten times settings.stale_after_multiplier
  ExpectedInterval,    \* settings.cron_expected_interval_minutes, in ticks
  WatchdogMultiplier,  \* ten times settings.cron_stale_after_multiplier
  Minute,       \* the ticks in a minute
  MaxTime,      \* bound: the ticks of a behaviour
  NoCheck

ASSUME TimesAssumption ==
  /\ Intervals \subseteq Nat \ {0} /\ Intervals # {}
  /\ CronPeriod \in Nat /\ MaxDuration \in Nat /\ MaxDuration < CronPeriod
  /\ Multiplier \in 11..200 /\ Minute \in Nat \ {0}
  /\ ExpectedInterval \in Nat \ {0} /\ WatchdogMultiplier \in 11..200
ASSUME MaxTimeAssumption == MaxTime \in Nat

VARIABLES
  now,
  nextCron,  \* when the cron calls next
  ran, lastRun,  \* whether there is a scheduler run, and when the latest started
  enabled, interval, checked, last, next,  \* the row: the columns enabled,
             \* interval_minutes, whether last_checked_at is set, last_checked_at
             \* and next_check_at
  flight,    \* the check of the cycle and the check by hand
  used,      \* history: the interval the last check was committed with
  since,     \* history: when the target was last enabled
  grace,     \* history: a period for every check lost and every call missed since
             \* the last check
  lost       \* history: whether a check of the cron was lost since the last check

row == <<enabled, interval, checked, last, next>>
cron == <<nextCron, ran, lastRun>>
history == <<used, since, grace, lost>>
vars == <<now, cron, row, flight, history>>

Sources == {"cron", "manual"}
Check == [start : Nat, interval : Intervals]

ASSUME NoCheckAssumption == NoCheck \notin Check

-----------------------------------------------------------------------------
Init ==
  /\ now = 0 /\ nextCron = 0 /\ ran = FALSE /\ lastRun = 0
  /\ enabled = TRUE /\ interval \in Intervals
  /\ checked = FALSE /\ last = 0 /\ next = 0
  /\ flight = [s \in Sources |-> NoCheck]
  /\ used = 0 /\ since = 0 /\ grace = 0 /\ lost = FALSE

\* Time passes, but not past a call of the cron or the end of a check.
Tick ==
  /\ now < MaxTime /\ now < nextCron
  /\ \A s \in Sources : flight[s] # NoCheck => now < flight[s].start + MaxDuration
  /\ now' = now + 1
  /\ UNCHANGED <<cron, row, flight, history>>

\* Mutant: next_check_at is compared with the time of the next call.
DueLate == enabled /\ next + CronPeriod <= now

\* list_due_ids
Due == enabled /\ next <= now

\* The target as session.get reads it.
Loaded == [start |-> now, interval |-> interval]

\* run_due_targets: the row of the run is committed, then the due targets are listed.
CronCalls ==
  /\ now = nextCron
  /\ nextCron' = nextCron + CronPeriod
  /\ ran' = TRUE /\ lastRun' = now
  /\ flight' = IF Due THEN [flight EXCEPT !["cron"] = Loaded] ELSE flight
  /\ UNCHANGED <<now, row, history>>

\* The external cron does not call, or the call fails before it has a row.
MissCall ==
  /\ now = nextCron
  /\ nextCron' = nextCron + CronPeriod
  /\ grace' = grace + CronPeriod
  /\ UNCHANGED <<now, ran, lastRun, row, flight, used, since, lost>>

\* POST /targets/{id}/check, which looks neither at enabled nor at next_check_at.
ManualCheck ==
  /\ flight["manual"] = NoCheck
  /\ flight' = [flight EXCEPT !["manual"] = Loaded]
  /\ UNCHANGED <<now, cron, row, history>>

\* Mutant: the interval is subtracted.
NextCheckBack(s) == now - flight[s].interval

\* `finished_at + timedelta(minutes=interval_minutes)`
NextCheck(s) == now + flight[s].interval

\* The commit of run_target.
Commit(s) ==
  /\ flight[s] # NoCheck
  /\ checked' = TRUE /\ last' = now /\ next' = NextCheck(s)
  /\ used' = flight[s].interval /\ grace' = 0 /\ lost' = FALSE
  /\ flight' = [flight EXCEPT ![s] = NoCheck]
  /\ UNCHANGED <<now, cron, enabled, interval, since>>

\* An exception before the commit: the target stays due.
Lose(s) ==
  /\ flight[s] # NoCheck
  /\ flight' = [flight EXCEPT ![s] = NoCheck]
  /\ grace' = IF s = "cron" THEN grace + CronPeriod ELSE grace
  /\ lost' = (lost \/ s = "cron")
  /\ UNCHANGED <<now, cron, row, used, since>>

\* PATCH interval_minutes leaves next_check_at alone.
PatchInterval ==
  /\ interval' \in Intervals
  /\ UNCHANGED <<now, cron, enabled, checked, last, next, flight, history>>

\* PATCH enabled
PatchEnabled ==
  /\ enabled' = ~ enabled
  /\ since' = IF enabled THEN since ELSE now
  /\ UNCHANGED <<now, cron, interval, checked, last, next, flight, used, grace, lost>>

Next ==
  \/ Tick \/ CronCalls \/ MissCall \/ ManualCheck \/ PatchInterval \/ PatchEnabled
  \/ \E s \in Sources : Commit(s) \/ Lose(s)

Spec == Init /\ [][Next]_vars

-----------------------------------------------------------------------------
(* StatusService.evaluate *)

\* The whole seconds it rounds to are below the resolution of a tick.
StaleAfter ==
  LET ticks == (interval * Multiplier) \div 10
  IN  IF ticks > Minute THEN ticks ELSE Minute

\* Mutant: a target is stale as soon as it is due.
IsStaleOnceDue == enabled /\ checked /\ now > next

IsStale == enabled /\ checked /\ now > last + StaleAfter

(* SystemStatusService.build *)

WatchdogAfter ==
  LET ticks == (ExpectedInterval * WatchdogMultiplier) \div 10
  IN  IF ticks > Minute THEN ticks ELSE Minute

\* Mutant: the limit is multiplied once more.
SchedulerStatusLate ==
  IF ~ ran THEN "never"
  ELSE IF now > lastRun + (WatchdogAfter * WatchdogMultiplier) \div 10
       THEN "stale" ELSE "healthy"

SchedulerStatus ==
  IF ~ ran THEN "never"
  ELSE IF now > lastRun + WatchdogAfter THEN "stale" ELSE "healthy"

-----------------------------------------------------------------------------
TypeOK ==
  /\ now \in Nat /\ nextCron \in Nat /\ ran \in BOOLEAN /\ lastRun \in Nat
  /\ enabled \in BOOLEAN /\ interval \in Intervals
  /\ checked \in BOOLEAN /\ last \in Nat /\ next \in Nat
  /\ flight \in [Sources -> Check \union {NoCheck}]
  /\ used \in {0} \union Intervals /\ since \in Nat /\ grace \in Nat
  /\ lost \in BOOLEAN

\* From when the target waits for its next check.
Waiting == IF last + used > since THEN last + used ELSE since

\* An enabled target is checked at the latest one period and one duration after
\* its interval, or after it was enabled, and a period later for every check
\* that was lost and every call that was missed (run_target, list_due_ids).
CheckedInTime ==
  enabled => now <= Waiting + grace + CronPeriod + MaxDuration

\* If the period and the duration fit between the interval and the limit of
\* staleness, a target that has been enabled since its last check, whose interval
\* was not changed, of which no check was lost and no call missed is not stale
\* (evaluate).
FreshIfServed ==
  /\ since <= last + used /\ interval = used /\ grace = 0
  /\ used + CronPeriod + MaxDuration <= StaleAfter
  => ~ IsStale

\* The two reports agree: where the limit of the watchdog fits between the interval
\* and the limit of staleness, a stale status of such a target for which no check was
\* lost or is under way means that the watchdog reports the cron, which looks only
\* at the start of the latest run (evaluate, SystemStatusService.build).
StaleIsReported ==
  /\ IsStale /\ since <= last + used /\ interval = used
  /\ ~ lost /\ flight["cron"] = NoCheck
  /\ used + WatchdogAfter <= StaleAfter
  => SchedulerStatus # "healthy"
=============================================================================
