--------------------------- MODULE SchedulerCycle ---------------------------
(***************************************************************************)
(* run_due_targets: the cycles the external cron starts through the        *)
(* internal endpoint.  Nothing keeps two cycles apart: each has a          *)
(* semaphore of its own, and they share the targets and the pool of        *)
(* database connections.  A task holds a connection from session.get to    *)
(* its commit, the HTTP check included, gives it back there and has to get *)
(* one again for the refresh of the row and the notification.              *)
(*                                                                         *)
(* What a check writes besides next_check_at is TargetChecks; what the     *)
(* retry of notifications writes is NotificationDelivery.  A cycle that    *)
(* has ended is "idle" and may be started again: the cron never stops.     *)
(***************************************************************************)
EXTENDS Integers, FiniteSets

CONSTANTS
  Cycles,          \* the calls of run_due_targets that may overlap
  Targets,
  MaxConcurrency,  \* settings.max_concurrency, the size of each semaphore
  PoolSize,        \* the connections of the engine (pool_size + max_overflow)
  MaxErrors,       \* bound: exceptions raised by the database or the network
  MaxCrashes,      \* bound: restarts of the process
  MaxToggles,      \* bound: requests that enable or disable a target
  NoRow

ASSUME LimitsAssumption == MaxConcurrency \in 1..100 /\ PoolSize \in Nat \ {0}
ASSUME BoundsAssumption ==
  MaxErrors \in Nat /\ MaxCrashes \in Nat /\ MaxToggles \in Nat
ASSUME TargetsAssumption == IsFiniteSet(Targets) /\ IsFiniteSet(Cycles)

VARIABLES
  enabled,   \* the targets that exist and are enabled
  due,       \* the targets whose next_check_at has passed
  before,    \* the pairs of them whose next_check_at differ, the earlier one first
  phase,     \* where each cycle stands
  row,       \* the scheduler_runs row of the cycle
  picked,    \* the ids list_due_ids returned
  ahead,     \* the pairs of queued tasks of a cycle, the one served first before the other
  task,      \* the task of each picked target
  status,    \* what execute returned: "none", "up" or "failing"
  checked,   \* history: the targets this cycle committed a check of
  errors, crashes, toggles

targets == <<enabled, due, before>>
cycle == <<phase, row, picked, ahead>>
work == <<task, status, checked>>
bounds == <<errors, crashes, toggles>>
vars == <<targets, cycle, work, bounds>>

-----------------------------------------------------------------------------
RunRow == [status : {"running", "completed", "partial", "failed"},
           selected : Nat, completed : Nat, failing : Nat]
\* Mutant: the counts have no default until the cycle ends.
NewRowWithoutCounts ==
  [status |-> "running", selected |-> NoRow, completed |-> NoRow, failing |-> NoRow]
NewRow == [status |-> "running", selected |-> 0, completed |-> 0, failing |-> 0]

NoTasks == [t \in Targets |-> "out"]
NoStatus == [t \in Targets |-> "none"]

\* Mutant: the block of the semaphore ends with the commit of the check.
RunningUntilCommit(c) == {t \in Targets : task[c][t] \in {"opening", "checking"}}

\* The tasks inside `async with semaphore`.
Running(c) ==
  {t \in Targets : task[c][t] \in {"opening", "checking", "committed", "notifying"}}

\* The connections taken from the pool: those of the tasks, and of the cycles.
Holders == {x \in Cycles \X Targets : task[x[1]][x[2]] \in {"checking", "notifying"}}
Closing == {c \in Cycles : phase[c] = "closing"}
Connections == Cardinality(Holders) + Cardinality(Closing)
PoolHasRoom == Connections < PoolSize

Init ==
  /\ enabled = Targets /\ due = Targets /\ before = {}
  /\ phase = [c \in Cycles |-> "idle"]
  /\ row = [c \in Cycles |-> NoRow]
  /\ picked = [c \in Cycles |-> {}] /\ ahead = [c \in Cycles |-> {}]
  /\ task = [c \in Cycles |-> NoTasks]
  /\ status = [c \in Cycles |-> NoStatus]
  /\ checked = [c \in Cycles |-> {}]
  /\ errors = 0 /\ crashes = 0 /\ toggles = 0

SetTask(c, t, where) == task' = [task EXCEPT ![c][t] = where]
SetPhase(c, where) == phase' = [phase EXCEPT ![c] = where]
CountError == errors < MaxErrors /\ errors' = errors + 1 /\ UNCHANGED <<crashes, toggles>>

-----------------------------------------------------------------------------
\* The cron calls the endpoint; _start_scheduler_run commits the row.
Start(c) ==
  /\ phase[c] = "idle" /\ PoolHasRoom
  /\ SetPhase(c, "started")
  /\ row' = [row EXCEPT ![c] = NewRow]
  /\ picked' = [picked EXCEPT ![c] = {}]
  /\ task' = [task EXCEPT ![c] = NoTasks]
  /\ status' = [status EXCEPT ![c] = NoStatus]
  /\ checked' = [checked EXCEPT ![c] = {}]
  /\ UNCHANGED <<targets, ahead, bounds>>

\* Mutant: ORDER BY next_check_at is dropped.
ListDueUnordered(c) ==
  /\ phase[c] = "started" /\ PoolHasRoom
  /\ picked' = [picked EXCEPT ![c] = enabled \intersect due]
  /\ task' = [task EXCEPT ![c] =
       [t \in Targets |-> IF t \in enabled \intersect due THEN "queued" ELSE "out"]]
  /\ SetPhase(c, "gathering")
  /\ UNCHANGED <<targets, row, ahead, status, checked, bounds>>

\* list_due_ids, in a session of its own, ORDER BY next_check_at; asyncio.gather
\* starts every task in that order.
ListDue(c) ==
  LET listed == enabled \intersect due
  IN  /\ phase[c] = "started" /\ PoolHasRoom
      /\ picked' = [picked EXCEPT ![c] = listed]
      /\ ahead' = [ahead EXCEPT ![c] = before \intersect (listed \X listed)]
      /\ task' = [task EXCEPT ![c] =
           [t \in Targets |-> IF t \in listed THEN "queued" ELSE "out"]]
      /\ SetPhase(c, "gathering")
      /\ UNCHANGED <<targets, row, status, checked, bounds>>

\* A slot of the semaphore, which serves its waiters in the order they came.
Acquire(c, t) ==
  /\ task[c][t] = "queued"
  /\ \A u \in Targets : <<u, t>> \notin ahead[c]
  /\ Cardinality(Running(c)) < MaxConcurrency
  /\ SetTask(c, t, "opening")
  /\ ahead' = [ahead EXCEPT ![c] = {p \in @ : p[1] # t}]
  /\ UNCHANGED <<targets, phase, row, picked, status, checked, bounds>>

\* session.get takes a connection; a target deleted or disabled meanwhile is skipped.
Open(c, t) ==
  /\ task[c][t] = "opening" /\ PoolHasRoom
  /\ SetTask(c, t, IF t \in enabled THEN "checking" ELSE "done")
  /\ UNCHANGED <<targets, cycle, status, checked, bounds>>

\* The pool has no connection for 30 seconds: execute logs and returns None,
\* also when the check is committed already.
PoolTimeout(c, t) ==
  /\ task[c][t] \in {"opening", "committed"} /\ ~ PoolHasRoom
  /\ SetTask(c, t, "done")
  /\ UNCHANGED <<targets, cycle, status, checked, bounds>>

\* run_target up to its commit, which moves next_check_at past now.
CommitCheck(c, t) ==
  /\ task[c][t] = "checking"
  /\ checked' = [checked EXCEPT ![c] = @ \union {t}]
  /\ due' = due \ {t}
  /\ before' = {p \in before : t \notin {p[1], p[2]}}
  /\ SetTask(c, t, "committed")
  /\ UNCHANGED <<enabled, cycle, status, bounds>>

\* session.refresh(check_run)
Refresh(c, t) ==
  /\ task[c][t] = "committed" /\ PoolHasRoom
  /\ SetTask(c, t, "notifying")
  /\ UNCHANGED <<targets, cycle, status, checked, bounds>>

\* Mutant: a check that failed is repeated at once.
ReturnOrRepeat(c, t) ==
  /\ task[c][t] = "notifying"
  /\ \E result \in {"up", "failing"} :
       /\ status' = [status EXCEPT ![c][t] = result]
       /\ SetTask(c, t, IF result = "failing" THEN "queued" ELSE "done")
  /\ UNCHANGED <<targets, cycle, checked, bounds>>

\* The rest of run_target, and the status that execute returns.  What is announced
\* takes two more commits, and the connection is wanted again after each: TaskFails
\* stands for the timeouts there.
Return(c, t) ==
  /\ task[c][t] = "notifying"
  /\ \E result \in {"up", "failing"} : status' = [status EXCEPT ![c][t] = result]
  /\ SetTask(c, t, "done")
  /\ UNCHANGED <<targets, cycle, checked, bounds>>

\* An exception before or after the commit: execute logs and returns None.
TaskFails(c, t) ==
  /\ t \in Running(c)
  /\ CountError
  /\ SetTask(c, t, "done")
  /\ UNCHANGED <<targets, cycle, status, checked>>

Gathered(c) == \A t \in picked[c] : task[c][t] = "done"

\* The session of retry_due_notifications and RetentionService.prune.
BeginClosing(c) ==
  /\ phase[c] = "gathering" /\ Gathered(c) /\ PoolHasRoom
  /\ SetPhase(c, "closing")
  /\ UNCHANGED <<targets, row, picked, ahead, work, bounds>>

EndClosing(c) ==
  /\ phase[c] = "closing"
  /\ SetPhase(c, "finishing")
  /\ UNCHANGED <<targets, row, picked, ahead, work, bounds>>

Returned(c, results) == Cardinality({t \in picked[c] : status[c][t] \in results})

\* Mutant: partial is decided by the checks that failed.
PartialIfFailing(c) == Returned(c, {"failing"}) > 0
Partial(c) == Returned(c, {"up", "failing"}) < Cardinality(picked[c])

\* _finish_scheduler_run, which returns if retention took the row.
Finish(c) ==
  /\ phase[c] = "finishing" /\ PoolHasRoom
  /\ row' = IF row[c] = NoRow THEN row ELSE
       [row EXCEPT ![c] = [status |-> IF Partial(c) THEN "partial" ELSE "completed",
                           selected |-> Cardinality(picked[c]),
                           completed |-> Returned(c, {"up", "failing"}),
                           failing |-> Returned(c, {"failing"})]]
  /\ SetPhase(c, "idle")
  /\ UNCHANGED <<targets, picked, ahead, work, bounds>>

\* An exception outside the tasks, the wait for a connection included.
CycleFails(c) ==
  /\ \/ phase[c] \in {"started", "closing", "finishing"}
     \/ phase[c] = "gathering" /\ Gathered(c)
  /\ CountError
  /\ SetPhase(c, "failing")
  /\ UNCHANGED <<targets, row, picked, ahead, work>>

\* _fail_scheduler_run
Fail(c) ==
  /\ phase[c] = "failing" /\ PoolHasRoom
  /\ row' = IF row[c] = NoRow THEN row ELSE [row EXCEPT ![c].status = "failed"]
  /\ SetPhase(c, "idle")
  /\ UNCHANGED <<targets, picked, ahead, work, bounds>>

\* ... which can fail too: the row stays RUNNING.
FailRaises(c) ==
  /\ phase[c] = "failing"
  /\ CountError
  /\ SetPhase(c, "idle")
  /\ UNCHANGED <<targets, row, picked, ahead, work>>

-----------------------------------------------------------------------------
\* The process restarts: every cycle is gone, its row stays as it was.
Crash ==
  /\ crashes < MaxCrashes /\ \E c \in Cycles : phase[c] # "idle"
  /\ crashes' = crashes + 1
  /\ phase' = [c \in Cycles |-> "idle"]
  /\ task' = [c \in Cycles |-> NoTasks]
  /\ ahead' = [c \in Cycles |-> {}]
  /\ UNCHANGED <<targets, row, picked, status, checked, errors, toggles>>

\* next_check_at passes, later than that of the targets which are due already.
BecomeDue(t) ==
  /\ t \notin due
  /\ due' = due \union {t}
  /\ before' = before \union (due \X {t})
  /\ UNCHANGED <<enabled, cycle, work, bounds>>

\* PATCH enabled, or DELETE.
Toggle(t) ==
  /\ toggles < MaxToggles /\ toggles' = toggles + 1
  /\ enabled' = IF t \in enabled THEN enabled \ {t} ELSE enabled \union {t}
  /\ UNCHANGED <<due, before, cycle, work, errors, crashes>>

\* RetentionService deletes the row of a cycle that ended or died long ago.
PruneRow(c) ==
  /\ phase[c] = "idle" /\ row[c] # NoRow
  /\ \E d \in Cycles \ {c} : phase[d] = "closing"
  /\ row' = [row EXCEPT ![c] = NoRow]
  /\ UNCHANGED <<targets, phase, picked, ahead, work, bounds>>

-----------------------------------------------------------------------------
\* What a cycle and a task do when no exception stops them.
CycleProceeds(c) ==
  \/ Start(c) \/ ListDue(c) \/ BeginClosing(c) \/ EndClosing(c) \/ Finish(c) \/ Fail(c)
TaskProceeds(c, t) ==
  \/ Acquire(c, t) \/ Open(c, t) \/ PoolTimeout(c, t) \/ CommitCheck(c, t)
  \/ Refresh(c, t) \/ Return(c, t)

Next ==
  \/ \E c \in Cycles :
       CycleProceeds(c) \/ CycleFails(c) \/ FailRaises(c) \/ PruneRow(c)
  \/ \E c \in Cycles, t \in Targets : TaskProceeds(c, t) \/ TaskFails(c, t)
  \/ \E t \in Targets : BecomeDue(t) \/ Toggle(t)
  \/ Crash

Spec == Init /\ [][Next]_vars

\* The cron calls for ever; a check, a POST and a statement have timeouts, and so
\* has the wait for a connection, so a task goes on (weak fairness).  The pool gives
\* its connections in the order they are asked for, so who finds it free again and
\* again gets one (strong fairness).
Fairness ==
  /\ \A c \in Cycles : SF_vars(CycleProceeds(c))
  /\ \A c \in Cycles, t \in Targets : WF_vars(TaskProceeds(c, t)) /\ SF_vars(Open(c, t))

FairSpec == Spec /\ Fairness

-----------------------------------------------------------------------------
TypeOK ==
  /\ enabled \subseteq Targets /\ due \subseteq Targets
  /\ before \subseteq Targets \X Targets
  /\ phase \in [Cycles -> {"idle", "started", "gathering", "closing",
                           "finishing", "failing"}]
  /\ row \in [Cycles -> RunRow \union {NoRow}]
  /\ picked \in [Cycles -> SUBSET Targets]
  /\ ahead \in [Cycles -> SUBSET (Targets \X Targets)]
  /\ task \in [Cycles -> [Targets -> {"out", "queued", "opening", "checking",
                                      "committed", "notifying", "done"}]]
  /\ status \in [Cycles -> [Targets -> {"none", "up", "failing"}]]
  /\ checked \in [Cycles -> SUBSET Targets]
  /\ errors \in 0..MaxErrors /\ crashes \in 0..MaxCrashes /\ toggles \in 0..MaxToggles

\* The row of a cycle tells the truth about what was committed: COMPLETED only
\* if every selected target was checked, and never more than that, although a
\* check may be committed whose execute returns None (_finish_scheduler_run).
RowIsTrue ==
  \A c \in Cycles : row[c] # NoRow =>
    /\ row[c].completed <= Cardinality(checked[c])
    /\ row[c].status = "completed" =>
         row[c].completed = row[c].selected /\ picked[c] \subseteq checked[c]
    /\ row[c].status = "partial" => row[c].completed < row[c].selected

\* If the pool has a connection for every slot of the overlapping cycles, no check is
\* lost for want of one, although a task gives its connection back at the commit and
\* asks for another: a row says PARTIAL or FAILED only after an exception or a change of
\* a target.  (Requests of the API, which take connections too, are not counted here.)
Room == Cardinality(Cycles) * MaxConcurrency <= PoolSize
LostForAReason ==
  Room /\ errors = 0 /\ toggles = 0 =>
    \A c \in Cycles : row[c] # NoRow => row[c].status \in {"running", "completed"}

\* A cycle that was started ends, also when the semaphore admits more tasks than the
\* pool has connections: those that get none in time are given up (execute).
CyclesEnd ==
  \A c \in Cycles : phase[c] # "idle" ~> phase[c] = "idle"

\* A target that is due and enabled is checked in the end, whatever the errors and
\* restarts of a while were, and however many checks each cycle gives up for want of a
\* connection: who was given up is first in the next list (list_due_ids).
DueIsServed ==
  \A t \in Targets : t \in due /\ t \in enabled ~> t \notin due \/ t \notin enabled
=============================================================================
