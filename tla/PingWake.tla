------------------------------ MODULE PingWake ------------------------------
(***************************************************************************)
(* The checks of a target and the alerts they cause: TargetChecks and      *)
(* NotificationDelivery over one database.  run_target commits the check   *)
(* with its incident, and only then, in the same session, creates the      *)
(* event and posts it: two transactions.  A later attempt rebuilds its     *)
(* message from the rows as they are by then.                              *)
(*                                                                         *)
(* A session runs a check or delivers, and goes from the one to the other  *)
(* in Notify.  The rows a message is rebuilt from are read when the attempt *)
(* begins, which for one session at a time is what its identity map has.   *)
(***************************************************************************)
EXTENDS Integers, Sequences, FiniteSets

CONSTANTS
  Sessions, Null, NoRow,
  Answers, FailureThresholds, RecoveryThresholds,  \* of TargetChecks
  FailuresToOpen, SuccessesToResolve, MaxRuns,
  Outcomes, MaxAttempts, MaxForces, MaxCrashes,    \* of NotificationDelivery
  MaxIncidents   \* bound: the incidents that are opened

ASSUME MaxIncidentsAssumption == MaxIncidents \in Nat

VARIABLES
  target, incidents, runs, pc, loaded, run, seen, pending,
  deleting, delLocks, started, log, handed,        \* of TargetChecks
  event, gone, announced, step, held, snapshot, limit, batch, forces, crashes,
  posts, delivered, crashed, lost,                 \* of NotificationDelivery
  shown,    \* the status of the check in the message a session is posting
  dropped   \* history: the transitions whose hand-over failed or was cut off

Events == [incident : 1..MaxIncidents, type : {"opened", "resolved"}]

Checks == INSTANCE TargetChecks
Alerts == INSTANCE NotificationDelivery WITH pc <- step, loaded <- snapshot

ASSUME ChecksAssumption ==
  Checks!AnswersAssumption /\ Checks!ThresholdsAssumption /\ Checks!MaxRunsAssumption
  /\ Checks!NoRowAssumption
ASSUME AlertsAssumption ==
  /\ Alerts!OutcomesAssumption /\ Alerts!MaxAttemptsAssumption
  /\ Alerts!BoundsAssumption /\ Alerts!NullAssumption

checking == <<target, incidents, runs, pc, loaded, run, seen, pending,
              deleting, delLocks, started, log, handed>>
alerting == <<event, gone, announced, step, held, snapshot, limit, batch,
              forces, crashes, posts, delivered, crashed, lost>>
message == <<shown, dropped>>
vars == <<checking, alerting, message>>

Init ==
  /\ Checks!Init /\ Alerts!Init
  /\ shown = [s \in Sessions |-> "pending"]
  /\ dropped = {}

-----------------------------------------------------------------------------
(* A check, up to the hand-over of its transition. *)

Check(s) ==
  /\ step[s] = "idle"
  /\ \/ Checks!LoadTarget(s) \/ Checks!RecordCheck(s) \/ Checks!SelectOpenIncident(s)
     \/ Checks!Commit(s)
     \/ Checks!ForeignKeyViolation(s) \/ Checks!CheckIsVictim(s) \/ Checks!Rollback(s)
  /\ Len(incidents') <= MaxIncidents
  /\ UNCHANGED <<alerting, message>>

\* Mutant: get_for_transition looks at the incident only.
AnnouncedForIncident(t) ==
  \E e \in Events : event[e] # NoRow /\ e.incident = t.incident

\* get_for_transition
Announced(t) == event[t] # NoRow

\* session.refresh, which raises if the target was deleted, and
\* notify_incident_transition up to the COMMIT of the event.
Notify(s) ==
  /\ Checks!HandOver(s)
  /\ IF target = NoRow \/ Announced(pending[s])
     THEN /\ dropped' = IF target = NoRow THEN dropped \union {pending[s]} ELSE dropped
          /\ UNCHANGED <<alerting, shown>>
     ELSE /\ Alerts!CreateEvent(s, pending[s])
          /\ shown' = [shown EXCEPT ![s] = run[s].status]
          /\ UNCHANGED dropped

\* session.refresh, or the SELECT, the INSERT or the COMMIT of the event, raises: no
\* connection is left in the pool, the database fails or refuses the row.  The check
\* is committed, execute swallows the exception, and nobody tries again.
NotifyRaises(s) ==
  /\ Checks!RefreshRaises(s) \/ Checks!HandOver(s)
  /\ dropped' = dropped \union {pending[s]}
  /\ UNCHANGED <<alerting, shown>>

\* The process restarts while checks run; a delivery ends in Die.  A transition
\* between its two transactions is lost: there is no outbox.
Crash ==
  /\ Checks!Crash
  /\ dropped' = dropped \union {pending[s] : s \in {x \in Sessions : pc[x] = "notifying"}}
  /\ UNCHANGED <<alerting, shown>>

\* PATCH, the first half of a DELETE, the deadlock it may lose, retention.
Administer ==
  /\ \/ \E ft \in FailureThresholds, rt \in RecoveryThresholds :
          Checks!PatchThresholds(ft, rt)
     \/ Checks!DeleteChildren \/ Checks!DeleteIsVictim
     \/ \E cutoff \in 1..MaxRuns + 1 : Checks!Prune(cutoff)
  /\ UNCHANGED <<alerting, message>>

\* The DELETE commits: the events go with the incidents.
DeleteTarget ==
  /\ Checks!DeleteTarget
  /\ gone' = announced
  /\ event' = [e \in Events |-> NoRow]
  /\ UNCHANGED <<announced, step, held, snapshot, limit, batch, forces, crashes,
                 posts, delivered, crashed, lost, message>>

-----------------------------------------------------------------------------
(* The deliveries. *)

\* Mutant: the latest check for both types.
ResolveLatest(e) == {r \in runs : \A q \in runs : q.id <= r.id}

\* _resolve_check_run: the last failure of the incident, or the latest check of
\* the target.
ResolveCheckRun(e) ==
  {r \in runs : IF e.type = "opened"
                THEN r.id = incidents[e.incident].last
                ELSE \A q \in runs : q.id <= r.id}

FirstAttempt(s) ==
  /\ Alerts!FirstAttempt(s)
  /\ UNCHANGED <<checking, message>>

\* retry_due_notifications, for the cron.
ListDueRetries(s) ==
  /\ pc[s] = "idle" /\ Alerts!ListDueRetries(s)
  /\ UNCHANGED <<checking, message>>

\* retry_event by the batch or by hand finds the check and posts ...
RetryPosts(s, e) ==
  /\ pc[s] = "idle"
  /\ Alerts!RetryPosts(s, e) \/ Alerts!ForcePosts(s, e)
  /\ \E r \in ResolveCheckRun(e) : shown' = [shown EXCEPT ![s] = r.status]
  /\ UNCHANGED <<checking, dropped>>

\* ... or finds that it, or the incident, is gone.
RetryGivesUp(s, e) ==
  /\ pc[s] = "idle"
  /\ Alerts!RetryGivesUp(s, e) \/ Alerts!ForceGivesUp(s, e)
  /\ target = NoRow \/ ResolveCheckRun(e) = {}
  /\ UNCHANGED <<checking, message>>

\* Discord takes the message.
Accept(s) ==
  /\ Alerts!Accept(s)
  /\ UNCHANGED <<checking, message>>

\* The COMMIT of an attempt; the session that dies.
Record(s) ==
  /\ Alerts!SaveSent(s) \/ Alerts!SaveFailure(s) \/ Alerts!Die(s)
  /\ shown' = [shown EXCEPT ![s] = "pending"]
  /\ UNCHANGED <<checking, dropped>>

\* The delay of a retry passes; retention deletes an event that has ended.
Age(e) ==
  /\ Alerts!Elapse(e) \/ Alerts!Prune(e)
  /\ UNCHANGED <<checking, message>>

-----------------------------------------------------------------------------
Next ==
  \/ \E s \in Sessions :
       \/ Check(s) \/ Notify(s) \/ NotifyRaises(s) \/ FirstAttempt(s) \/ ListDueRetries(s)
       \/ Accept(s) \/ Record(s)
       \/ \E e \in Events : RetryPosts(s, e) \/ RetryGivesUp(s, e)
  \/ Crash \/ Administer \/ DeleteTarget
  \/ \E e \in Events : Age(e)

Spec == Init /\ [][Next]_vars

\* A request has a timeout and a transaction ends; the cron calls for ever and
\* its batch takes every row it listed; delays pass.  Nothing is assumed of
\* restarts, of what a person does, or of the start of checks.
Fairness ==
  /\ \A s \in Sessions :
       /\ WF_vars(pc[s] # "idle" /\ Check(s)) /\ WF_vars(Notify(s))
       /\ WF_vars(FirstAttempt(s))
       /\ WF_vars(step[s] = "batch" /\ \E e \in Events : RetryPosts(s, e) \/ RetryGivesUp(s, e))
       /\ WF_vars(step[s] \in {"posting", "accepted"} /\ (Accept(s) \/ Record(s)))
  /\ WF_vars(DeleteTarget)
  /\ WF_vars(\E s \in Sessions : ListDueRetries(s))
  /\ \A e \in Events : WF_vars(Alerts!Elapse(e) /\ UNCHANGED <<checking, message>>)

FairSpec == Spec /\ Fairness

-----------------------------------------------------------------------------
(* Correctness: the first three whatever sessions there are, the others for *)
(* one delivery at a time.                                                  *)

\* README.md:273, "envia uma mensagem somente quando" an incident is opened or
\* resolved: whatever is retried, restarted or pruned, Discord is told only of what
\* the incidents table says (run_target, notify_incident_transition).
ToldIsTrue ==
  \A e \in Events : delivered[e] > 0 /\ target # NoRow =>
    /\ e.incident \in DOMAIN incidents
    /\ e.type = "resolved" => incidents[e.incident].status = "resolved"

\* An alert is lost only between the two transactions of run_target, where a restart,
\* a DELETE or an exception ends it: outside that gap every incident of the table, and
\* every resolution, has been announced, and no other event of its incident, retry or
\* check stands in for it (run_target, get_for_transition).
Transitions ==
  {t \in Events : /\ t.incident \in DOMAIN incidents
                  /\ t.type = "resolved" => incidents[t.incident].status = "resolved"}
AlertsAccounted ==
  Transitions \subseteq
    announced \union dropped
    \union {pending[s] : s \in {x \in Sessions : pc[x] = "notifying"}}

\* An alert that a service is down shows a check that failed, also when it is
\* rebuilt after the service has recovered (_resolve_check_run).
DownShowsFailure ==
  \A s \in Sessions :
    step[s] = "posting" /\ held[s].type = "opened" => shown[s] \in Checks!Failing

\* Discord hears of the recovery before the opening only if the first attempt of
\* the opening failed or died (run_target, retry_due_notifications).
OpeningToldFirst ==
  [][\A o, r \in Events :
       /\ o.type = "opened" /\ r = [o EXCEPT !.type = "resolved"]
       /\ delivered'[o] > delivered[o] /\ delivered[r] > 0
       => posts[o] > 1 \/ crashes > 0]_vars

\* One delivery at a time: the POSTs of an event are limited by max_attempts, but
\* for those whose session died before it could count them (_attempt_event).
AttemptLimit == Alerts!AttemptLimit

\* One delivery at a time: a message is repeated only if its answer was lost or the
\* session died before it could record it (_attempt_event, list_due_retries).
RepeatedForAReason == Alerts!RepeatedForAReason

\* One delivery at a time: an event that was sent is never sent again, retried or
\* failed; only retention or a deletion removes it (retry_event).
SentIsFinal == Alerts!SentIsFinal

\* README.md:84, "Notificações com falha são tentadas novamente pelo próprio ciclo do
\* Cron": an event that still waits and that nobody is posting will be found by
\* list_due_retries, now or when its delay is over, however deliveries overlap.
NoStuckEvent == Alerts!NoStuckEvent

\* One delivery at a time: every event ends as sent or failed, or is deleted,
\* whatever Discord answers and whatever happens to the rows its message is
\* rebuilt from (list_due_retries, retry_event).
EventsSettle == Alerts!EventsSettle
=============================================================================
