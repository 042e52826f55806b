---------------------------- MODULE TargetChecks ----------------------------
(***************************************************************************)
(* The checks of ONE monitoring target: every run_target call in flight,   *)
(* from session.get to the hand-over of an incident transition, with the   *)
(* requests that change the same rows (PATCH, DELETE, retention).          *)
(*                                                                         *)
(* Each call works in a database session of its own (READ COMMITTED).  It  *)
(* reads the target row BEFORE the HTTP request and writes it after, and   *)
(* the ORM writes only the columns whose value differs from what was read. *)
(* A transaction is three steps: INSERT check_run (a key-share lock on the *)
(* target), the autoflushed UPDATE of the target (its row lock) followed   *)
(* by the SELECT of the open incident, and the flush with COMMIT.  Writes  *)
(* are invisible before the commit, so they are applied there.             *)
(*                                                                         *)
(* Rows of different targets never meet in these statements, hence one     *)
(* target.  Times are the order in which the checks start; last_checked_at *)
(* and next_check_at, which no guard here reads, are left out.             *)
(***************************************************************************)
EXTENDS Integers, Sequences, FiniteSets

CONSTANTS
  Sessions,            \* the database sessions that may run a check
  Answers,             \* what a request may meet
  FailureThresholds,   \* values a PATCH may store in failure_threshold
  RecoveryThresholds,  \* and in recovery_threshold
  FailuresToOpen,      \* settings.failures_to_open_incident
  SuccessesToResolve,  \* settings.successes_to_resolve_incident
  MaxRuns,             \* bound: checks started in a behaviour
  Null, NoRow

CheckStatus == {"pending", "healthy", "degraded",
                "unhealthy", "timeout", "configuration_error"}
Failing == {"unhealthy", "timeout", "configuration_error"}

\* A URL that is not allowed, a secret that cannot be read; no answer within the
\* timeout, or none at all; an answer with another code than the expected one; and
\* the expected one, at or above the target's limit of latency or below it.
HttpAnswers == {"forbidden", "unreadable", "timed_out", "broken",
                "unexpected", "slow", "fast"}
ASSUME AnswersAssumption == Answers \subseteq HttpAnswers
ASSUME ThresholdsAssumption ==
  /\ FailuresToOpen \in 1..20 /\ SuccessesToResolve \in 1..20
  /\ FailureThresholds \subseteq 1..20 \union {Null}
  /\ RecoveryThresholds \subseteq 1..20 \union {Null}
  /\ Null \notin 1..20
ASSUME MaxRunsAssumption == MaxRuns \in Nat

VARIABLES
  \* the committed rows
  target,     \* the monitoring_targets row, or NoRow once it is deleted
  incidents,  \* the incidents of the target, in order of creation
  runs,       \* the check_runs of the target
  \* the sessions
  pc,         \* where each run_target call stands
  loaded,     \* the target row as session.get read it
  run,        \* the check_run of the call; its id is its place in start order
  seen,       \* the open incident the session selected, 0 for none
  pending,    \* the transition still to be handed to the notification service
  \* the DELETE request
  deleting,   \* "idle", or "children" once the child rows are deleted
  delLocks,   \* the incidents whose rows the DELETE holds
  \* history
  started,    \* the number of checks started
  log,        \* every committed check_run, in commit order
  handed      \* the transitions the notification service was called with,
              \* whatever came of the call

rows == <<target, incidents, runs>>
session == <<pc, loaded, run, seen, pending>>
deletion == <<deleting, delLocks>>
history == <<started, log, handed>>
vars == <<rows, session, deletion, history>>

-----------------------------------------------------------------------------
TargetRow == [status : CheckStatus, cf : Nat, cs : Nat,
              ft : 1..20 \union {Null}, rt : 1..20 \union {Null}]
Run == [id : Nat, status : CheckStatus]
Incident == [status : {"open", "resolved"}, first : Nat, last : Nat,
             cf : Nat, cs : Nat]
Transition == [incident : Nat, type : {"opened", "resolved"}]
ASSUME NoRowAssumption == NoRow \notin TargetRow

NoRun == [id |-> 0, status |-> "pending"]
NoTransition == [incident |-> 0, type |-> "opened"]

NewTarget == [status |-> "pending", cf |-> 0, cs |-> 0, ft |-> Null, rt |-> Null]

OpenIncidents == {i \in DOMAIN incidents : incidents[i].status = "open"}
Active == {s \in Sessions : pc[s] \in {"checking", "recorded", "locked"}}

\* The row lock of the target: one transaction has it from its UPDATE on.
RowLockFree == \A s \in Sessions : pc[s] # "locked"

\* `failure_threshold or failures_to_open_incident`
OrDefault(value, default) == IF value = Null THEN default ELSE value

\* The ORM's flush: a column is written only if it differs from what was read.
Column(now, read, new) == IF new # read THEN new ELSE now

-----------------------------------------------------------------------------
Init ==
  /\ target = NewTarget /\ incidents = <<>> /\ runs = {}
  /\ pc = [s \in Sessions |-> "idle"]
  /\ loaded = [s \in Sessions |-> NewTarget]
  /\ run = [s \in Sessions |-> NoRun]
  /\ seen = [s \in Sessions |-> 0]
  /\ pending = [s \in Sessions |-> NoTransition]
  /\ deleting = "idle" /\ delLocks = {}
  /\ started = 0 /\ log = <<>> /\ handed = {}

\* session.get, then HttpChecker.check takes started_at and sends the request.
LoadTarget(s) ==
  /\ pc[s] = "idle" /\ target # NoRow
  /\ started < MaxRuns
  /\ started' = started + 1
  /\ loaded' = [loaded EXCEPT ![s] = target]
  /\ run' = [run EXCEPT ![s] = [id |-> started + 1, status |-> "pending"]]
  /\ pc' = [pc EXCEPT ![s] = "checking"]
  /\ UNCHANGED <<rows, seen, pending, deletion, log, handed>>

\* How HttpChecker.check classifies it: no request is sent without its
\* configuration, and the code counts before the latency.
StatusOf(answer) ==
  CASE answer \in {"forbidden", "unreadable"} -> "configuration_error"
    [] answer = "timed_out"                 -> "timeout"
    [] answer \in {"broken", "unexpected"}  -> "unhealthy"
    [] answer = "slow"                      -> "degraded"
    [] answer = "fast"                      -> "healthy"

\* The request ends; INSERT INTO check_runs, whose foreign key needs the target.
RecordCheck(s) ==
  /\ pc[s] = "checking" /\ target # NoRow
  /\ \E answer \in Answers : run' = [run EXCEPT ![s].status = StatusOf(answer)]
  /\ pc' = [pc EXCEPT ![s] = "recorded"]
  /\ UNCHANGED <<rows, loaded, seen, pending, deletion, history>>

\* Mutant: the incident is selected without the autoflush of the target.
SelectWithoutFlush(s) ==
  /\ pc[s] = "recorded"
  /\ \/ OpenIncidents = {} /\ seen' = [seen EXCEPT ![s] = 0]
     \/ \E i \in OpenIncidents : seen' = [seen EXCEPT ![s] = i]
  /\ pc' = [pc EXCEPT ![s] = "locked"]
  /\ UNCHANGED <<rows, loaded, run, pending, deletion, history>>

\* get_open_by_target: its autoflush UPDATEs the target row first, and so waits
\* for any transaction that has updated it; only then is the incident selected.
SelectOpenIncident(s) ==
  /\ pc[s] = "recorded" /\ RowLockFree
  /\ \/ OpenIncidents = {} /\ seen' = [seen EXCEPT ![s] = 0]
     \/ \E i \in OpenIncidents : seen' = [seen EXCEPT ![s] = i]
  /\ pc' = [pc EXCEPT ![s] = "locked"]
  /\ UNCHANGED <<rows, loaded, run, pending, deletion, history>>

-----------------------------------------------------------------------------
(* The flush and COMMIT, by the branch of apply_check_result that was taken. *)

IsUp(s) == run[s].status \notin Failing

\* Mutant: an up result does not reset the failures.
FailuresKept(s) == loaded[s].cf + 1
Failures(s) == IF IsUp(s) THEN 0 ELSE loaded[s].cf + 1
Successes(s) == IF run[s].status = "healthy" THEN loaded[s].cs + 1 ELSE 0
Resolves(s) ==
  /\ run[s].status = "healthy"
  /\ Successes(s) >= OrDefault(loaded[s].rt, SuccessesToResolve)

\* Mutant: > for >= at the failure threshold.
OpensLate(s) ==
  /\ ~ IsUp(s)
  /\ Failures(s) > OrDefault(loaded[s].ft, FailuresToOpen)
Opens(s) ==
  /\ ~ IsUp(s)
  /\ Failures(s) >= OrDefault(loaded[s].ft, FailuresToOpen)

\* The session forgets its objects once it is closed.
Close(s) ==
  /\ pc' = [pc EXCEPT ![s] = "idle"]
  /\ loaded' = [loaded EXCEPT ![s] = NewTarget]
  /\ run' = [run EXCEPT ![s] = NoRun]
  /\ seen' = [seen EXCEPT ![s] = 0]
  /\ pending' = [pending EXCEPT ![s] = NoTransition]

\* Mutant: last_status follows only the results that are up.
FlushUpStatus(s) ==
  target' = [target EXCEPT
    !.status = IF IsUp(s) THEN run[s].status ELSE @,
    !.cf = Column(@, loaded[s].cf, Failures(s)),
    !.cs = Column(@, loaded[s].cs, Successes(s))]

\* The columns of the target that the session changed.
FlushTarget(s) ==
  target' = [target EXCEPT
    !.status = Column(@, loaded[s].status, run[s].status),
    !.cf = Column(@, loaded[s].cf, Failures(s)),
    !.cs = Column(@, loaded[s].cs, Successes(s))]

CommitCheck(s) ==
  /\ pc[s] = "locked"
  /\ runs' = runs \union {run[s]}
  /\ log' = Append(log, run[s])
  /\ FlushTarget(s)
  /\ UNCHANGED <<deletion, started, handed>>

\* The UPDATE of the open incident, which needs its row if a column changes.
UpdateIncident(s, row) ==
  /\ row # incidents[seen[s]] => seen[s] \notin delLocks
  /\ incidents' = [incidents EXCEPT ![seen[s]] = row]

\* The transition run_target goes on to notify.
KeepTransition(s, i, type) ==
  /\ pc' = [pc EXCEPT ![s] = "notifying"]
  /\ pending' = [pending EXCEPT ![s] = [incident |-> i, type |-> type]]
  /\ UNCHANGED <<loaded, run, seen>>

\* No open incident and nothing to open.
CommitQuietly(s) ==
  /\ seen[s] = 0 /\ ~ Opens(s)
  /\ CommitCheck(s) /\ Close(s)
  /\ UNCHANGED incidents

\* An open incident that a healthy or degraded result does not resolve.
CommitRecovering(s) ==
  /\ seen[s] # 0 /\ IsUp(s) /\ ~ Resolves(s)
  /\ CommitCheck(s) /\ Close(s)
  /\ UpdateIncident(s, [incidents[seen[s]] EXCEPT !.cs = Successes(s)])

\* Mutant: the resolution is returned but the status is not set.
CommitResolvedStillOpen(s) ==
  /\ seen[s] # 0 /\ Resolves(s)
  /\ CommitCheck(s)
  /\ UpdateIncident(s, [incidents[seen[s]] EXCEPT !.cs = Successes(s)])
  /\ KeepTransition(s, seen[s], "resolved")

CommitResolved(s) ==
  /\ seen[s] # 0 /\ Resolves(s)
  /\ CommitCheck(s)
  /\ UpdateIncident(s, [incidents[seen[s]] EXCEPT !.cs = Successes(s),
                                                  !.status = "resolved"])
  /\ KeepTransition(s, seen[s], "resolved")

\* A failure while an incident is open.
CommitStillFailing(s) ==
  /\ seen[s] # 0 /\ ~ IsUp(s)
  /\ CommitCheck(s) /\ Close(s)
  /\ UpdateIncident(s, [incidents[seen[s]] EXCEPT !.last = run[s].id,
                                                  !.cf = Failures(s), !.cs = 0])

\* Mutant: the query without its limit.
AllFailures(s) == {r \in runs \union {run[s]} : r.status # "healthy"}

\* The consecutive_failures most recently started runs that were not healthy;
\* the oldest of them starts the incident (Create).
RecentFailures(s) ==
  LET bad == {r \in runs \union {run[s]} : r.status # "healthy"}
  IN  {r \in bad : Cardinality({q \in bad : q.id > r.id}) < Failures(s)}

\* Mutant: started_at is not set.
CreateUndated(s) ==
  incidents' = Append(incidents,
    [status |-> "open", first |-> Null, last |-> run[s].id,
     cf |-> Failures(s), cs |-> 0])

Create(s) ==
  \E first \in RecentFailures(s) :
    /\ \A q \in RecentFailures(s) : first.id <= q.id
    /\ incidents' = Append(incidents,
         [status |-> "open", first |-> first.id, last |-> run[s].id,
          cf |-> Failures(s), cs |-> 0])

\* Mutant: an incident is created although one is open.
CommitOpenedAgain(s) ==
  /\ Opens(s)
  /\ CommitCheck(s) /\ Create(s)
  /\ KeepTransition(s, Len(incidents) + 1, "opened")

CommitOpened(s) ==
  /\ seen[s] = 0 /\ Opens(s)
  /\ CommitCheck(s) /\ Create(s)
  /\ KeepTransition(s, Len(incidents) + 1, "opened")

\* Mutant: a session whose rows are gone is not closed.
HandOverIfAlive(s) ==
  /\ pc[s] = "notifying" /\ target # NoRow
  /\ handed' = handed \union {pending[s]}
  /\ Close(s)
  /\ UNCHANGED <<rows, deletion, started, log>>

\* session.refresh(check_run), then notify_incident_transition is called;
\* the refresh raises if the target and its runs were deleted after the commit.
HandOver(s) ==
  /\ pc[s] = "notifying"
  /\ handed' = IF target = NoRow THEN handed ELSE handed \union {pending[s]}
  /\ Close(s)
  /\ UNCHANGED <<rows, deletion, started, log>>

-----------------------------------------------------------------------------
(* The ways a check is lost. *)

\* The INSERT finds the target deleted.
ForeignKeyViolation(s) ==
  /\ pc[s] = "checking" /\ target = NoRow
  /\ Close(s)
  /\ UNCHANGED <<rows, deletion, history>>

\* The session waits for an incident the DELETE holds, the DELETE for the
\* target the session holds: PostgreSQL aborts one of the two.
Deadlocked(s) == pc[s] = "locked" /\ seen[s] \in delLocks

CheckIsVictim(s) ==
  /\ Deadlocked(s)
  /\ Close(s)
  /\ UNCHANGED <<rows, deletion, history>>

DeleteIsVictim ==
  /\ \E s \in Sessions : Deadlocked(s)
  /\ deleting' = "idle" /\ delLocks' = {}
  /\ UNCHANGED <<rows, session, history>>

\* Any other exception before the commit: the connection, the pool.
Rollback(s) ==
  /\ s \in Active
  /\ Close(s)
  /\ UNCHANGED <<rows, deletion, history>>

\* The check is committed, and session.refresh finds no connection or fails:
\* execute swallows it too, and the transition is lost.
RefreshRaises(s) ==
  /\ pc[s] = "notifying"
  /\ Close(s)
  /\ UNCHANGED <<rows, deletion, history>>

\* The process stops: every transaction is rolled back, every hand-over lost.
Crash ==
  /\ \E s \in Sessions : pc[s] # "idle"
  /\ pc' = [s \in Sessions |-> "idle"]
  /\ loaded' = [s \in Sessions |-> NewTarget]
  /\ run' = [s \in Sessions |-> NoRun]
  /\ seen' = [s \in Sessions |-> 0]
  /\ pending' = [s \in Sessions |-> NoTransition]
  /\ deleting' = "idle" /\ delLocks' = {}
  /\ UNCHANGED <<rows, history>>

-----------------------------------------------------------------------------
(* The requests that write the same rows. *)

\* PATCH: an UPDATE of the target, which waits for the row lock.
PatchThresholds(ft, rt) ==
  /\ target # NoRow /\ RowLockFree
  /\ target' = [target EXCEPT !.ft = ft, !.rt = rt]
  /\ UNCHANGED <<incidents, runs, session, deletion, history>>

\* DELETE: the ORM loads and deletes the child rows first ...
DeleteChildren ==
  /\ target # NoRow /\ deleting = "idle"
  /\ deleting' = "children"
  /\ delLocks' = DOMAIN incidents
  /\ UNCHANGED <<rows, session, history>>

\* Mutant: only the rows that were loaded are deleted.
DeleteLoaded ==
  /\ deleting = "children"
  /\ \A s \in Sessions : pc[s] \notin {"recorded", "locked"}
  /\ target' = NoRow /\ runs' = {}
  /\ incidents' = SubSeq(incidents, Cardinality(delLocks) + 1, Len(incidents))
  /\ deleting' = "idle" /\ delLocks' = {}
  /\ UNCHANGED <<session, history>>

\* ... then the target, waiting for every transaction that has a lock on it;
\* the foreign keys cascade to what was inserted in between.
DeleteTarget ==
  /\ deleting = "children"
  /\ \A s \in Sessions : pc[s] \notin {"recorded", "locked"}
  /\ target' = NoRow /\ incidents' = <<>> /\ runs' = {}
  /\ deleting' = "idle" /\ delLocks' = {}
  /\ UNCHANGED <<session, history>>

\* RetentionService: the runs that started before the cutoff, which is at least
\* a day away from any check in flight.
Prune(cutoff) ==
  /\ \A s \in Active : cutoff <= run[s].id
  /\ \E r \in runs : r.id < cutoff
  /\ runs' = {r \in runs : r.id >= cutoff}
  /\ UNCHANGED <<target, incidents, session, deletion, history>>

-----------------------------------------------------------------------------
Commit(s) ==
  \/ CommitQuietly(s) \/ CommitRecovering(s) \/ CommitResolved(s)
  \/ CommitStillFailing(s) \/ CommitOpened(s)

Step(s) ==
  \/ LoadTarget(s) \/ RecordCheck(s) \/ SelectOpenIncident(s) \/ Commit(s)
  \/ HandOver(s) \/ ForeignKeyViolation(s) \/ CheckIsVictim(s) \/ Rollback(s)
  \/ RefreshRaises(s)

Next ==
  \/ \E s \in Sessions : Step(s)
  \/ DeleteIsVictim \/ Crash \/ DeleteChildren \/ DeleteTarget
  \/ \E ft \in FailureThresholds, rt \in RecoveryThresholds :
       PatchThresholds(ft, rt)
  \/ \E cutoff \in 1..MaxRuns + 1 : Prune(cutoff)

Spec == Init /\ [][Next]_vars

\* The HTTP request has a timeout, so a check ends; PostgreSQL queues the
\* transactions that wait for a row (strong fairness) and resolves deadlocks.
Fairness ==
  /\ \A s \in Sessions :
       /\ WF_vars(RecordCheck(s)) /\ WF_vars(ForeignKeyViolation(s))
       /\ SF_vars(SelectOpenIncident(s))
       /\ SF_vars(Commit(s)) /\ WF_vars(HandOver(s))
       /\ WF_vars(CheckIsVictim(s))
  /\ WF_vars(DeleteTarget)

FairSpec == Spec /\ Fairness

-----------------------------------------------------------------------------
(* Correctness. *)

TypeOK ==
  /\ target \in TargetRow \union {NoRow}
  /\ incidents \in Seq(Incident)
  /\ runs \subseteq Run
  /\ pc \in [Sessions -> {"idle", "checking", "recorded", "locked", "notifying"}]
  /\ loaded \in [Sessions -> TargetRow]
  /\ run \in [Sessions -> Run]
  /\ seen \in [Sessions -> Nat]
  /\ pending \in [Sessions -> Transition]
  /\ deleting \in {"idle", "children"}
  /\ delLocks \subseteq Nat
  /\ started \in Nat
  /\ log \in Seq(Run)
  /\ handed \subseteq Transition

\* A target never has two open incidents, however its checks overlap
\* (apply_check_result, with the partial unique index left out).
OneOpenIncident ==
  \A i, j \in OpenIncidents : i = j

\* The incidents of a target are a ledger: opened one at a time, resolved once,
\* never reopened or lost while the target exists (apply_check_result).
Ledger == INSTANCE IncidentLedger
            WITH ledger <- [i \in DOMAIN incidents |-> incidents[i].status]
ImplementsLedger == Ledger!Spec

\* When the checks of a target do not overlap, an incident is open exactly
\* when the rules of the policy say so (apply_check_result).
Results == [i \in DOMAIN log |-> log[i].status]
Policy == INSTANCE IncidentPolicy
            WITH results <- IF target = NoRow THEN <<>> ELSE Results,
                 down <- OpenIncidents # {}
ImplementsPolicy == Policy!Spec

\* When the checks do not overlap, last_status is the latest result.
LastStatusIsLatest ==
  target # NoRow /\ log # <<>> => target.status = log[Len(log)].status

\* When the checks do not overlap, the incident starts at a check of the
\* streak that opened it, however many degraded runs or pruned runs there are.
IncidentStartsInStreak ==
  [][\A i \in DOMAIN incidents' \ DOMAIN incidents :
       \A n \in DOMAIN log' :
         log'[n].id >= incidents'[i].first => log'[n].status \in Failing]_vars

\* Overlapping checks may lose a result but never invent one: no counter of the
\* target or of an incident exceeds the results that were committed.
Committed(S) == Cardinality({i \in DOMAIN log : log[i].status \in S})
CountersNeverInvent ==
  /\ target # NoRow => /\ target.cf <= Committed(Failing)
                       /\ target.cs <= Committed({"healthy"})
  /\ \A i \in DOMAIN incidents : /\ incidents[i].cf <= Committed(Failing)
                                 /\ incidents[i].cs <= Committed({"healthy"})

\* Once a DELETE has committed, no check in flight leaves a row behind.
NoOrphanRows ==
  target = NoRow => incidents = <<>> /\ runs = {}

\* No two calls of run_target notify the same transition, which is what lets
\* notify_incident_transition look for an existing event without a lock.
TransitionsHandedOnce ==
  \A s \in Sessions : pc[s] = "notifying" =>
    /\ pending[s] \notin handed
    /\ \A t \in Sessions \ {s} : pc[t] = "notifying" => pending[t] # pending[s]

\* A check that has started always ends, even against a DELETE of its target.
SessionsFinish ==
  \A s \in Sessions : pc[s] # "idle" ~> pc[s] = "idle"
=============================================================================
