--------------------------- MODULE PingWakeProofs ---------------------------
(***************************************************************************)
(* The system put together, for any number of sessions: its checks are     *)
(* those of TargetChecks, Discord is told only of what the incidents table *)
(* says, and no alert is lost but by a restart between the two             *)
(* transactions of run_target.  A DOWN message shows a check that failed.  *)
(* The last two parts are about one session: what OneDelivery promises of   *)
(* its deliveries, and that the opening of an incident is told before its  *)
(* end unless an attempt to tell it has failed.                            *)
(*                                                                         *)
(* Every step of PingWake is a step of the checks (CP) and of the          *)
(* deliveries (AP), but for the DELETE, which takes all the events at      *)
(* once.  So the invariants of both hold, and what remains is how they     *)
(* meet: an event is created from a transition that the incidents show     *)
(* (CP!AnnouncedOnly), nothing is delivered but what was created           *)
(* (AP!OnlyAnnounced), and while the target exists no transition is taken  *)
(* back (CP!NextTransitions).                                              *)
(***************************************************************************)
EXTENDS PingWake, TLAPS

CP == INSTANCE TargetChecksProofs
AP == INSTANCE NotificationDeliveryProofs WITH pc <- step, loaded <- snapshot

LEMMA CheckAssumptions ==
  /\ CP!AnswersAssumption /\ CP!ThresholdsAssumption /\ CP!MaxRunsAssumption
  /\ CP!NoRowAssumption
  BY ChecksAssumption
     DEF CP!AnswersAssumption, Checks!AnswersAssumption, CP!HttpAnswers, Checks!HttpAnswers,
         CP!ThresholdsAssumption, Checks!ThresholdsAssumption,
         CP!MaxRunsAssumption, Checks!MaxRunsAssumption,
         CP!NoRowAssumption, Checks!NoRowAssumption, CP!TargetRow, Checks!TargetRow,
         CP!CheckStatus, Checks!CheckStatus

LEMMA AlertAssumptions ==
  /\ AP!OutcomesAssumption /\ AP!MaxAttemptsAssumption
  /\ AP!BoundsAssumption /\ AP!NullAssumption
  BY AlertsAssumption
     DEF AP!OutcomesAssumption, Alerts!OutcomesAssumption, AP!MaxAttemptsAssumption,
         Alerts!MaxAttemptsAssumption, AP!BoundsAssumption, Alerts!BoundsAssumption,
         AP!NullAssumption, Alerts!NullAssumption

LEMMA SameInit == (Checks!Init => CP!Init) /\ (Alerts!Init => AP!Init)
  BY DEF Checks!Init, CP!Init, Checks!NewTarget, CP!NewTarget, Checks!NoRun, CP!NoRun,
         Checks!NoTransition, CP!NoTransition, Alerts!Init, AP!Init, Alerts!NoBatch, AP!NoBatch

LEMMA SameRecentFailures ==
  ASSUME NEW s \in Sessions PROVE Checks!RecentFailures(s) = CP!RecentFailures(s)
<1>1. Checks!Failures(s) = CP!Failures(s)
  BY DEF Checks!Failures, CP!Failures, Checks!IsUp, CP!IsUp, Checks!Failing, CP!Failing
<1>2. \A S : Checks!Cardinality(S) = CP!Cardinality(S)
  BY DEF Checks!Cardinality, CP!Cardinality
<1> QED
  BY <1>1, <1>2, Zenon DEF Checks!RecentFailures, CP!RecentFailures

LEMMA SameCommit ==
  ASSUME NEW s \in Sessions, Checks!Commit(s) PROVE CP!Commit(s)
<1> USE DEF Checks!CommitCheck, CP!CommitCheck, Checks!FlushTarget, CP!FlushTarget,
        Checks!Column, CP!Column, Checks!Failures, CP!Failures, Checks!Successes, CP!Successes,
        Checks!IsUp, CP!IsUp, Checks!Failing, CP!Failing, Checks!deletion, CP!deletion,
        Checks!Opens, CP!Opens, Checks!Resolves, CP!Resolves, Checks!OrDefault, CP!OrDefault,
        Checks!Close, CP!Close, Checks!NewTarget, CP!NewTarget, Checks!NoRun, CP!NoRun,
        Checks!NoTransition, CP!NoTransition, Checks!UpdateIncident, CP!UpdateIncident,
        Checks!KeepTransition, CP!KeepTransition
<1>1. Checks!CommitQuietly(s) => CP!CommitQuietly(s)
  BY DEF Checks!CommitQuietly, CP!CommitQuietly
<1>2. Checks!CommitRecovering(s) => CP!CommitRecovering(s)
  BY DEF Checks!CommitRecovering, CP!CommitRecovering
<1>3. Checks!CommitResolved(s) => CP!CommitResolved(s)
  BY DEF Checks!CommitResolved, CP!CommitResolved
<1>4. Checks!CommitStillFailing(s) => CP!CommitStillFailing(s)
  BY DEF Checks!CommitStillFailing, CP!CommitStillFailing
<1>5. Checks!CommitOpened(s) => CP!CommitOpened(s)
  <2>2. Checks!Create(s) => CP!Create(s)
    BY SameRecentFailures DEF Checks!Create, CP!Create
  <2> QED
    BY <2>2 DEF Checks!CommitOpened, CP!CommitOpened
<1> QED
  BY <1>1, <1>2, <1>3, <1>4, <1>5 DEF Checks!Commit, CP!Commit

LEMMA SameStep ==
  ASSUME NEW s \in Sessions
  PROVE  /\ Checks!LoadTarget(s) => CP!LoadTarget(s)
         /\ Checks!RecordCheck(s) => CP!RecordCheck(s)
         /\ Checks!SelectOpenIncident(s) => CP!SelectOpenIncident(s)
         /\ Checks!HandOver(s) => CP!HandOver(s)
         /\ Checks!ForeignKeyViolation(s) => CP!ForeignKeyViolation(s)
         /\ Checks!CheckIsVictim(s) => CP!CheckIsVictim(s)
         /\ Checks!Rollback(s) => CP!Rollback(s)
         /\ Checks!RefreshRaises(s) => CP!RefreshRaises(s)
<1> USE DEF Checks!rows, CP!rows, Checks!deletion, CP!deletion, Checks!history, CP!history,
        Checks!Close, CP!Close, Checks!NewTarget, CP!NewTarget, Checks!NoRun, CP!NoRun,
        Checks!NoTransition, CP!NoTransition
<1>1. Checks!LoadTarget(s) => CP!LoadTarget(s)
  BY DEF Checks!LoadTarget, CP!LoadTarget
<1>2. Checks!RecordCheck(s) => CP!RecordCheck(s)
  BY DEF Checks!RecordCheck, CP!RecordCheck, Checks!StatusOf, CP!StatusOf
<1>3. Checks!SelectOpenIncident(s) => CP!SelectOpenIncident(s)
  BY DEF Checks!SelectOpenIncident, CP!SelectOpenIncident, Checks!RowLockFree, CP!RowLockFree,
         Checks!OpenIncidents, CP!OpenIncidents
<1>4. Checks!HandOver(s) => CP!HandOver(s)
  BY DEF Checks!HandOver, CP!HandOver
<1>5. Checks!ForeignKeyViolation(s) => CP!ForeignKeyViolation(s)
  BY DEF Checks!ForeignKeyViolation, CP!ForeignKeyViolation
<1>6. Checks!CheckIsVictim(s) => CP!CheckIsVictim(s)
  BY DEF Checks!CheckIsVictim, CP!CheckIsVictim, Checks!Deadlocked, CP!Deadlocked
<1>7. Checks!Rollback(s) => CP!Rollback(s)
  BY DEF Checks!Rollback, CP!Rollback, Checks!Active, CP!Active
<1>8. Checks!RefreshRaises(s) => CP!RefreshRaises(s)
  BY DEF Checks!RefreshRaises, CP!RefreshRaises
<1> QED
  BY <1>1, <1>2, <1>3, <1>4, <1>5, <1>6, <1>7, <1>8

LEMMA SameWorld ==
  /\ Checks!Crash => CP!Crash
  /\ Checks!DeleteIsVictim => CP!DeleteIsVictim
  /\ Checks!DeleteChildren => CP!DeleteChildren
  /\ Checks!DeleteTarget => CP!DeleteTarget
  /\ \A ft \in FailureThresholds, rt \in RecoveryThresholds :
       Checks!PatchThresholds(ft, rt) => CP!PatchThresholds(ft, rt)
  /\ \A cutoff \in 1..MaxRuns + 1 : Checks!Prune(cutoff) => CP!Prune(cutoff)
<1> USE DEF Checks!rows, CP!rows, Checks!deletion, CP!deletion, Checks!history, CP!history,
        Checks!session, CP!session
<1>1. Checks!Crash => CP!Crash
  BY DEF Checks!Crash, CP!Crash, Checks!NewTarget, CP!NewTarget, Checks!NoRun, CP!NoRun,
         Checks!NoTransition, CP!NoTransition
<1>2. Checks!DeleteIsVictim => CP!DeleteIsVictim
  BY DEF Checks!DeleteIsVictim, CP!DeleteIsVictim, Checks!Deadlocked, CP!Deadlocked
<1>3. Checks!DeleteChildren => CP!DeleteChildren
  BY DEF Checks!DeleteChildren, CP!DeleteChildren
<1>4. Checks!DeleteTarget => CP!DeleteTarget
  BY DEF Checks!DeleteTarget, CP!DeleteTarget
<1>5. ASSUME NEW ft \in FailureThresholds, NEW rt \in RecoveryThresholds,
             Checks!PatchThresholds(ft, rt)
      PROVE  CP!PatchThresholds(ft, rt)
  BY <1>5 DEF Checks!PatchThresholds, CP!PatchThresholds, Checks!RowLockFree, CP!RowLockFree
<1>6. ASSUME NEW cutoff \in 1..MaxRuns + 1, Checks!Prune(cutoff) PROVE CP!Prune(cutoff)
  BY <1>6 DEF Checks!Prune, CP!Prune, Checks!Active, CP!Active
<1> QED
  BY <1>1, <1>2, <1>3, <1>4, <1>5, <1>6

LEMMA SameDelivery ==
  ASSUME NEW s \in Sessions
  PROVE  /\ Alerts!FirstAttempt(s) => AP!FirstAttempt(s)
         /\ Alerts!ListDueRetries(s) => AP!ListDueRetries(s)
         /\ Alerts!Accept(s) => AP!Accept(s)
         /\ Alerts!SaveSent(s) => AP!SaveSent(s)
         /\ Alerts!SaveFailure(s) => AP!SaveFailure(s)
         /\ Alerts!Die(s) => AP!Die(s)
<1> USE DEF Alerts!bounds, AP!bounds, Alerts!counts, AP!counts, Alerts!LetGo, AP!LetGo,
        Alerts!NoBatch, AP!NoBatch, Alerts!BeginAttempt, AP!BeginAttempt,
        Alerts!SaveAttempt, AP!SaveAttempt, Alerts!AttemptCount, AP!AttemptCount,
        Alerts!Flushed, AP!Flushed
<1>1. Alerts!FirstAttempt(s) => AP!FirstAttempt(s)
  BY DEF Alerts!FirstAttempt, AP!FirstAttempt
<1>2. Alerts!ListDueRetries(s) => AP!ListDueRetries(s)
  BY DEF Alerts!ListDueRetries, AP!ListDueRetries, Alerts!IsDue, AP!IsDue
<1>3. Alerts!Accept(s) => AP!Accept(s)
  BY DEF Alerts!Accept, AP!Accept
<1>4. Alerts!SaveSent(s) => AP!SaveSent(s)
  BY DEF Alerts!SaveSent, AP!SaveSent
<1>5. Alerts!SaveFailure(s) => AP!SaveFailure(s)
  BY DEF Alerts!SaveFailure, AP!SaveFailure
<1>6. Alerts!Die(s) => AP!Die(s)
  BY DEF Alerts!Die, AP!Die
<1> QED
  BY <1>1, <1>2, <1>3, <1>4, <1>5, <1>6

LEMMA SameEvent ==
  ASSUME NEW e \in Events
  PROVE  /\ \A s \in Sessions :
              /\ Alerts!CreateEvent(s, e) => AP!CreateEvent(s, e)
              /\ Alerts!RetryPosts(s, e) => AP!RetryPosts(s, e)
              /\ Alerts!ForcePosts(s, e) => AP!ForcePosts(s, e)
              /\ Alerts!RetryGivesUp(s, e) => AP!RetryGivesUp(s, e)
              /\ Alerts!ForceGivesUp(s, e) => AP!ForceGivesUp(s, e)
         /\ Alerts!Elapse(e) => AP!Elapse(e)
         /\ Alerts!Prune(e) => AP!Prune(e)
<1> USE DEF Alerts!bounds, AP!bounds, Alerts!counts, AP!counts, Alerts!LetGo, AP!LetGo,
        Alerts!NoBatch, AP!NoBatch, Alerts!BeginAttempt, AP!BeginAttempt, Alerts!delivery,
        AP!delivery, Alerts!Flushed, AP!Flushed, Alerts!GiveUp, AP!GiveUp,
        Alerts!MayForce, AP!MayForce
<1>1. ASSUME NEW s \in Sessions PROVE Alerts!CreateEvent(s, e) => AP!CreateEvent(s, e)
  BY DEF Alerts!CreateEvent, AP!CreateEvent, Alerts!NewEvent, AP!NewEvent
<1>2. ASSUME NEW s \in Sessions PROVE Alerts!RetryPosts(s, e) => AP!RetryPosts(s, e)
  BY DEF Alerts!RetryPosts, AP!RetryPosts
<1>3. ASSUME NEW s \in Sessions PROVE Alerts!ForcePosts(s, e) => AP!ForcePosts(s, e)
  BY DEF Alerts!ForcePosts, AP!ForcePosts
<1>4. ASSUME NEW s \in Sessions PROVE Alerts!RetryGivesUp(s, e) => AP!RetryGivesUp(s, e)
  BY DEF Alerts!RetryGivesUp, AP!RetryGivesUp
<1>5. ASSUME NEW s \in Sessions PROVE Alerts!ForceGivesUp(s, e) => AP!ForceGivesUp(s, e)
  BY DEF Alerts!ForceGivesUp, AP!ForceGivesUp
<1>6. Alerts!Elapse(e) => AP!Elapse(e)
  BY DEF Alerts!Elapse, AP!Elapse
<1>7. Alerts!Prune(e) => AP!Prune(e)
  BY DEF Alerts!Prune, AP!Prune
<1> QED
  BY <1>1, <1>2, <1>3, <1>4, <1>5, <1>6, <1>7

-----------------------------------------------------------------------------
(* The steps of the system. *)

LEMMA CheckStep ==
  ASSUME NEW s \in Sessions, Check(s)
  PROVE  CP!Step(s) /\ UNCHANGED <<alerting, message>> /\ Len(incidents') <= MaxIncidents
  BY SameStep, SameCommit DEF Check, CP!Step

LEMMA AdministerStep ==
  ASSUME Administer PROVE CP!Next /\ UNCHANGED <<incidents, pc, pending, alerting, message>>
  BY SameWorld
     DEF Administer, CP!Next, Checks!PatchThresholds, Checks!DeleteChildren,
         Checks!DeleteIsVictim, Checks!Prune, Checks!session, Checks!rows

\* A hand-over that raises ends the session's check, and nothing else happens.
LEMMA RaisesStep ==
  ASSUME NEW s \in Sessions, NotifyRaises(s)
  PROVE  /\ CP!RefreshRaises(s) \/ CP!HandOver(s)
         /\ pc[s] = "notifying" /\ pc' = [pc EXCEPT ![s] = "idle"]
         /\ pending' = [pending EXCEPT ![s] = CP!NoTransition]
         /\ dropped' = dropped \union {pending[s]}
         /\ UNCHANGED <<target, incidents, step, held, delivered, announced, alerting, shown>>
<1>1. CP!RefreshRaises(s) \/ CP!HandOver(s)
  BY SameStep DEF NotifyRaises
<1> QED
  BY <1>1 DEF NotifyRaises, CP!RefreshRaises, CP!HandOver, CP!Close, CP!rows, alerting

\* Every step is one of the checks, or leaves them alone.
LEMMA ChecksNext == [Next]_vars => [CP!Next]_(CP!vars)
<1>1. UNCHANGED checking => UNCHANGED CP!vars
  BY DEF checking, CP!vars, CP!rows, CP!session, CP!deletion, CP!history
<1>2. ASSUME NEW s \in Sessions, Check(s) \/ Notify(s) \/ NotifyRaises(s) PROVE CP!Next
  BY <1>2, CheckStep, RaisesStep, SameStep DEF Notify, CP!Next, CP!Step
<1>3. Crash \/ Administer \/ DeleteTarget => CP!Next
  BY AdministerStep, SameWorld DEF Crash, DeleteTarget, CP!Next
<1>4. ASSUME \/ \E s \in Sessions :
                  \/ FirstAttempt(s) \/ ListDueRetries(s) \/ Accept(s) \/ Record(s)
                  \/ \E e \in Events : RetryPosts(s, e) \/ RetryGivesUp(s, e)
             \/ \E e \in Events : Age(e)
             \/ UNCHANGED vars
      PROVE  UNCHANGED checking
  BY <1>4 DEF FirstAttempt, ListDueRetries, Accept, Record, RetryPosts, RetryGivesUp, Age, vars
<1> QED
  BY <1>1, <1>2, <1>3, <1>4 DEF Next

\* The steps that only deliver.
Delivers ==
  \/ \E s \in Sessions :
       \/ FirstAttempt(s) \/ ListDueRetries(s) \/ Accept(s) \/ Record(s)
       \/ \E e \in Events : RetryPosts(s, e) \/ RetryGivesUp(s, e)
  \/ \E e \in Events : Age(e)

LEMMA DeliversNext ==
  ASSUME Delivers PROVE AP!Next /\ UNCHANGED <<checking, dropped, announced>>
<1>1. UNCHANGED <<checking, dropped>>
  BY DEF Delivers, FirstAttempt, ListDueRetries, Accept, Record, RetryPosts, RetryGivesUp,
         Age, message
<1>2. AP!Next
  <2>1. ASSUME NEW s \in Sessions,
               FirstAttempt(s) \/ ListDueRetries(s) \/ Accept(s) \/ Record(s)
        PROVE  AP!Step(s)
    BY <2>1, SameDelivery DEF FirstAttempt, ListDueRetries, Accept, Record, AP!Step
  <2>2. ASSUME NEW s \in Sessions, NEW e \in Events, RetryPosts(s, e) \/ RetryGivesUp(s, e)
        PROVE  AP!Step(s)
    BY <2>2, SameEvent DEF RetryPosts, RetryGivesUp, AP!Step
  <2>3. ASSUME NEW e \in Events, Age(e) PROVE AP!Elapse(e) \/ AP!Prune(e)
    BY <2>3, SameEvent DEF Age
  <2> QED
    BY <2>1, <2>2, <2>3 DEF Delivers, AP!Next
<1>3. announced' = announced
  <2>1. ASSUME NEW s \in Sessions,
               FirstAttempt(s) \/ ListDueRetries(s) \/ Accept(s) \/ Record(s)
        PROVE  announced' = announced
    BY <2>1 DEF FirstAttempt, ListDueRetries, Accept, Record, Alerts!FirstAttempt,
       Alerts!ListDueRetries, Alerts!Accept, Alerts!SaveSent, Alerts!SaveFailure,
       Alerts!SaveAttempt, Alerts!Die
  <2>2. ASSUME NEW s \in Sessions, NEW e \in Events, RetryPosts(s, e) \/ RetryGivesUp(s, e)
        PROVE  announced' = announced
    BY <2>2 DEF RetryPosts, RetryGivesUp, Alerts!RetryPosts, Alerts!ForcePosts,
       Alerts!RetryGivesUp, Alerts!ForceGivesUp
  <2>3. ASSUME NEW e \in Events, Age(e) PROVE announced' = announced
    BY <2>3 DEF Age, Alerts!Elapse, Alerts!Prune
  <2> QED
    BY <2>1, <2>2, <2>3 DEF Delivers
<1> QED
  BY <1>1, <1>2, <1>3

-----------------------------------------------------------------------------
(* How the checks and the deliveries meet. *)

\* Nothing was announced but what the incidents show.
AnnouncedIsShown == target # NoRow => \A e \in announced : CP!Announced(e)

ChecksInv == CP!IInv /\ CP!HInv /\ Len(incidents) <= MaxIncidents
AlertsInv == AP!IInv /\ AP!OnlyAnnounced
IInv == ChecksInv /\ AlertsInv /\ AnnouncedIsShown /\ AlertsAccounted

\* The transitions that the properties speak of are those the incidents show.
LEMMA TransitionsAreShown ==
  Transitions = {t \in Events : CP!Announced(t)}
  BY DEF Transitions, CP!Announced

LEMMA EventsAreTransitions == Events \subseteq CP!Transition
  BY MaxIncidentsAssumption DEF Events, CP!Transition

LEMMA InitIInv == Init => IInv
<1> SUFFICES ASSUME Init PROVE IInv
  OBVIOUS
<1>1. CP!Init /\ AP!Init
  BY SameInit DEF Init
<1>2. ChecksInv
  <2>1. Len(incidents) <= MaxIncidents
    BY <1>1, MaxIncidentsAssumption DEF CP!Init
  <2> QED
    BY <1>1, <2>1, CP!InitIInv, CP!InitHInv, CheckAssumptions DEF ChecksInv
<1>3. AlertsInv
  BY <1>1, AP!InitIInv, AP!InitOnlyAnnounced, AlertAssumptions DEF AlertsInv
<1>4. AnnouncedIsShown /\ AlertsAccounted
  BY <1>1 DEF AP!Init, CP!Init, AnnouncedIsShown, AlertsAccounted, Transitions
<1> QED
  BY <1>2, <1>3, <1>4 DEF IInv

\* The invariants of the checks, and the bound on incidents.
LEMMA NextChecksInv == IInv /\ [Next]_vars => ChecksInv'
<1> SUFFICES ASSUME IInv, [Next]_vars PROVE ChecksInv'
  OBVIOUS
<1>1. CP!IInv' /\ CP!HInv'
  BY ChecksNext, CP!NextIInv, CP!NextHInv, CheckAssumptions DEF IInv, ChecksInv
<1>2. Len(incidents') <= MaxIncidents
  <2>1. ASSUME NEW s \in Sessions, Check(s) PROVE Len(incidents') <= MaxIncidents
    BY <2>1, CheckStep
  <2>2. CASE DeleteTarget
    BY <2>2, MaxIncidentsAssumption DEF DeleteTarget, Checks!DeleteTarget
  <2>3. CASE Administer
    BY <2>3, AdministerStep DEF IInv, ChecksInv
  <2>4. CASE Delivers
    BY <2>4, DeliversNext DEF IInv, ChecksInv, checking
  <2>5. CASE UNCHANGED vars \/ Crash \/ \E s \in Sessions : Notify(s)
    BY <2>5 DEF IInv, ChecksInv, vars, checking, Crash, Checks!Crash, Notify,
       Checks!HandOver, Checks!rows
  <2>6. ASSUME NEW s \in Sessions, NotifyRaises(s) PROVE Len(incidents') <= MaxIncidents
    BY <2>6, RaisesStep DEF IInv, ChecksInv
  <2> QED
    BY <2>1, <2>2, <2>3, <2>4, <2>5, <2>6 DEF Next, Delivers
<1> QED
  BY <1>1, <1>2 DEF ChecksInv

\* A session that notifies does so of a transition that the incidents show.
LEMMA PendingIsShown ==
  ASSUME IInv, NEW s \in Sessions, pc[s] = "notifying", target # NoRow
  PROVE  pending[s] \in Events /\ CP!Announced(pending[s])
<1>1. CP!Announced(pending[s]) /\ pending[s] \in CP!Transition /\ CP!TypeOK
  BY DEF IInv, ChecksInv, CP!HInv, CP!AnnouncedOnly, CP!IInv, CP!TypeOK
<1>2. incidents \in Seq(CP!Incident) /\ Len(incidents) <= MaxIncidents
  BY <1>1 DEF IInv, ChecksInv, CP!TypeOK
<1>3. pending[s].incident \in 1..MaxIncidents
  BY <1>1, <1>2, MaxIncidentsAssumption DEF CP!Announced
<1> QED
  BY <1>1, <1>3 DEF Events, CP!Transition

\* A hand-over creates the event, or finds it, or comes too late.
LEMMA NotifySteps ==
  ASSUME IInv, NEW s \in Sessions, Notify(s)
  PROVE  /\ CP!HandOver(s)
         /\ \/ /\ target = NoRow \/ pending[s] \in announced
               /\ UNCHANGED alerting
            \/ /\ target # NoRow /\ AP!CreateEvent(s, pending[s])
               /\ pending[s] \in Events
               /\ announced' = announced \union {pending[s]}
         /\ dropped \subseteq dropped'
<1>1. CP!HandOver(s) /\ pc[s] = "notifying"
  BY SameStep DEF Notify, Checks!HandOver
<1>2. CASE target = NoRow \/ Announced(pending[s])
  <2>1. target # NoRow => pending[s] \in announced
    BY <1>1, <1>2, PendingIsShown DEF Announced, IInv, AlertsInv, AP!OnlyAnnounced
  <2> QED
    BY <1>1, <1>2, <2>1 DEF Notify
<1>3. CASE ~ (target = NoRow \/ Announced(pending[s]))
  <2>1. pending[s] \in Events
    BY <1>1, <1>3, PendingIsShown
  <2>2. Alerts!CreateEvent(s, pending[s]) /\ UNCHANGED dropped
    BY <1>3 DEF Notify
  <2> QED
    BY <1>1, <1>3, <2>1, <2>2, SameEvent DEF Alerts!CreateEvent
<1> QED
  BY <1>2, <1>3

\* The invariants of the deliveries.
LEMMA NextAlertsInv == IInv /\ [Next]_vars => AlertsInv' /\ announced \subseteq announced'
<1> SUFFICES ASSUME IInv, [Next]_vars
             PROVE  AlertsInv' /\ announced \subseteq announced'
  OBVIOUS
<1>1. CASE AP!Next \/ UNCHANGED alerting
  <2>1. [AP!Next]_(AP!vars)
    BY <1>1 DEF alerting, AP!vars, AP!delivery, AP!bounds, AP!counts
  <2> QED
    BY <2>1, AP!StepIInv, AP!NextAnnounced, AlertAssumptions DEF IInv, AlertsInv
<1>2. CASE Delivers
  BY <1>1, <1>2, DeliversNext
<1>3. ASSUME NEW s \in Sessions, Notify(s) PROVE AP!Next \/ UNCHANGED alerting
  BY <1>3, NotifySteps DEF AP!Next, AP!Step
<1>4. CASE DeleteTarget
  <2>1. /\ gone' = announced /\ event' = [e \in Events |-> NoRow]
        /\ UNCHANGED <<announced, step, held, snapshot, limit, batch, forces, crashes,
                       posts, delivered, crashed, lost>>
    BY <1>4 DEF DeleteTarget
  <2>2. AP!TypeOK'
    BY <2>1 DEF IInv, AlertsInv, AP!IInv, AP!TypeOK, AP!Rows
  <2>3. AP!SessionsInv' /\ AP!SentWasDelivered' /\ AP!AttemptsWereMade'
    BY <2>1 DEF IInv, AlertsInv, AP!IInv, AP!SessionsInv, AP!HeldIsEvent, AP!AttemptIsLoaded,
       AP!AcceptedWasDelivered, AP!BatchesCount, AP!CountsMade, AP!SentWasDelivered,
       AP!AttemptsWereMade
  <2>4. AP!OnlyAnnounced'
    BY <2>1 DEF IInv, AlertsInv, AP!OnlyAnnounced
  <2> QED
    BY <2>1, <2>2, <2>3, <2>4 DEF AlertsInv, AP!IInv
<1>5. CASE UNCHANGED vars \/ Crash \/ Administer
           \/ \E s \in Sessions : Check(s) \/ NotifyRaises(s)
  <2>1. UNCHANGED alerting
    BY <1>5, CheckStep, RaisesStep, AdministerStep DEF vars, Crash
  <2> QED
    BY <1>1, <2>1
<1> QED
  BY <1>1, <1>2, <1>3, <1>4, <1>5 DEF Next, Delivers

\* What was announced stays shown, and what comes to be announced is shown.
LEMMA NextAnnouncedIsShown == IInv /\ [Next]_vars => AnnouncedIsShown'
<1> SUFFICES ASSUME IInv, [Next]_vars, target' # NoRow, NEW e \in announced'
             PROVE  CP!Announced(e)'
  BY DEF AnnouncedIsShown
<1>1. CP!IInv /\ [CP!Next]_(CP!vars)
  BY ChecksNext DEF IInv, ChecksInv
<1>2. ASSUME NEW t \in Events, CP!Announced(t) PROVE CP!Announced(t)'
  BY <1>1, <1>2, CP!NextTransitions, CheckAssumptions, EventsAreTransitions
<1>3. target # NoRow
  <2>1. CP!NoTransition \in CP!Transition
    BY DEF CP!NoTransition, CP!Transition
  <2> QED
    BY <1>1, <2>1, CP!NextTransitions, CheckAssumptions
<1>4. CASE e \in announced
  BY <1>2, <1>3, <1>4 DEF IInv, AnnouncedIsShown, AlertsInv, AP!IInv, AP!TypeOK
<1>5. ASSUME e \notin announced
      PROVE  \E s \in Sessions : Notify(s) /\ e = pending[s]
  <2>1. announced' # announced
    BY <1>5
  <2>2. ASSUME NEW s \in Sessions, Notify(s) PROVE e = pending[s]
    BY <1>5, <2>1, <2>2, NotifySteps DEF alerting
  <2> QED
    BY <2>1, <2>2, CheckStep, RaisesStep, AdministerStep, DeliversNext
       DEF Next, Delivers, vars, alerting, Crash, DeleteTarget
<1> QED
  BY <1>2, <1>3, <1>4, <1>5, PendingIsShown DEF Notify, Checks!HandOver

\* A transition that is pending stays so until it is announced or dropped.
LEMMA NextPending ==
  ASSUME IInv, [Next]_vars, NEW s \in Sessions, pc[s] = "notifying"
  PROVE  \/ pc'[s] = "notifying" /\ pending'[s] = pending[s]
         \/ pending[s] \in announced' \union dropped'
<1>1. CP!TypeOK
  BY DEF IInv, ChecksInv, CP!IInv
<1>2. ASSUME NEW u \in Sessions, Check(u) PROVE pc'[s] = pc[s] /\ pending'[s] = pending[s]
  <2>1. CP!Step(u) /\ (\/ CP!LoadTarget(u) \/ CP!RecordCheck(u) \/ CP!SelectOpenIncident(u)
                      \/ CP!Commit(u) \/ CP!ForeignKeyViolation(u) \/ CP!CheckIsVictim(u)
                      \/ CP!Rollback(u))
    BY <1>2, CheckStep, SameStep, SameCommit DEF Check
  <2>2. u # s
    BY <2>1 DEF CP!LoadTarget, CP!RecordCheck, CP!SelectOpenIncident, CP!Commit,
       CP!CommitQuietly, CP!CommitRecovering, CP!CommitResolved, CP!CommitStillFailing,
       CP!CommitOpened, CP!CommitCheck, CP!ForeignKeyViolation, CP!CheckIsVictim,
       CP!Deadlocked, CP!Rollback, CP!Active
  <2>3. CASE CP!Commit(u)
    BY <1>1, <2>2, <2>3 DEF CP!Commit, CP!CommitQuietly, CP!CommitRecovering,
       CP!CommitResolved, CP!CommitStillFailing, CP!CommitOpened, CP!Close,
       CP!KeepTransition, CP!TypeOK
  <2>4. CASE ~ CP!Commit(u)
    BY <1>1, <2>1, <2>2, <2>4 DEF CP!LoadTarget, CP!RecordCheck, CP!SelectOpenIncident,
       CP!ForeignKeyViolation, CP!CheckIsVictim, CP!Rollback, CP!Close, CP!TypeOK
  <2> QED
    BY <2>3, <2>4
<1>3. ASSUME NEW u \in Sessions, Notify(u)
      PROVE  \/ pc'[s] = "notifying" /\ pending'[s] = pending[s]
             \/ pending[s] \in announced' \union dropped'
  <2>1. CASE u # s
    BY <1>1, <1>3, <2>1, NotifySteps DEF CP!HandOver, CP!Close, CP!TypeOK
  <2>2. CASE u = s /\ target = NoRow
    BY <1>3, <2>2 DEF Notify
  <2>3. CASE u = s /\ target # NoRow
    BY <1>3, <2>3, NotifySteps DEF alerting
  <2> QED
    BY <2>1, <2>2, <2>3
<1>4. CASE Crash
  BY <1>4 DEF Crash
<1>5. CASE Delivers \/ Administer \/ DeleteTarget \/ UNCHANGED vars
  <2>1. pc' = pc /\ pending' = pending
    BY <1>5, DeliversNext, AdministerStep
       DEF vars, checking, DeleteTarget, Checks!DeleteTarget, Checks!session
  <2> QED
    BY <2>1
<1>6. ASSUME NEW u \in Sessions, NotifyRaises(u)
      PROVE  \/ pc'[s] = "notifying" /\ pending'[s] = pending[s]
             \/ pending[s] \in announced' \union dropped'
  BY <1>1, <1>6, RaisesStep DEF CP!TypeOK
<1> QED
  BY <1>2, <1>3, <1>4, <1>5, <1>6 DEF Next, Delivers

LEMMA NextDropped == IInv /\ [Next]_vars => dropped \subseteq dropped'
  BY CheckStep, RaisesStep, AdministerStep, DeliversNext, NotifySteps
     DEF Next, Delivers, vars, message, Crash, DeleteTarget

LEMMA NextAlertsAccounted == IInv /\ [Next]_vars => AlertsAccounted'
<1> SUFFICES ASSUME IInv, [Next]_vars, NEW t \in Transitions'
             PROVE  \/ t \in announced' \union dropped'
                    \/ \E s \in Sessions : pc'[s] = "notifying" /\ pending'[s] = t
  BY DEF AlertsAccounted
<1>1. t \in Events /\ t \in CP!Transition /\ CP!Announced(t)'
  BY EventsAreTransitions DEF Transitions, CP!Announced
<1>2. CP!IInv /\ [CP!Next]_(CP!vars)
  BY ChecksNext DEF IInv, ChecksInv
<1>3. target' # NoRow
  <2>1. CP!IInv'
    BY NextChecksInv DEF ChecksInv
  <2>2. incidents' # <<>>
    BY <1>1 DEF CP!Announced
  <2> QED
    BY <2>1, <2>2 DEF CP!IInv, CP!NoOrphanRows
<1>4. \/ CP!Announced(t)
      \/ \E s \in Sessions : pc'[s] = "notifying" /\ pending'[s] = t
  BY <1>1, <1>2, <1>3, CP!NextTransitions, CheckAssumptions
<1>5. CASE CP!Announced(t)
  <2>1. \/ t \in announced \union dropped
        \/ \E s \in Sessions : pc[s] = "notifying" /\ pending[s] = t
    BY <1>1, <1>5, TransitionsAreShown DEF IInv, AlertsAccounted
  <2> QED
    BY <2>1, NextPending, NextDropped, NextAlertsInv
<1> QED
  BY <1>4, <1>5

LEMMA Invariance == Spec => []IInv
<1>1. IInv /\ [Next]_vars => IInv'
  BY NextChecksInv, NextAlertsInv, NextAnnouncedIsShown, NextAlertsAccounted DEF IInv
<1> QED
  BY <1>1, InitIInv, PTL DEF Spec

-----------------------------------------------------------------------------
\* The checks of the system are those of TargetChecks, whatever is delivered meanwhile:
\* all that is proved of TargetChecks holds of the system (run_target).
THEOREM ChecksAreTargetChecks == Spec => CP!Spec
<1>1. Init => CP!Init
  BY SameInit DEF Init
<1> QED
  BY <1>1, ChecksNext, PTL DEF Spec, CP!Spec

\* Whatever is retried, restarted or pruned, and however many sessions do so, Discord is
\* told only of what the incidents table says (notify_incident_transition).
THEOREM DiscordIsToldTheTruth == Spec => []ToldIsTrue
<1>1. IInv => ToldIsTrue
  BY DEF IInv, AlertsInv, AP!OnlyAnnounced, AnnouncedIsShown, CP!Announced, ToldIsTrue
<1> QED
  BY <1>1, Invariance, PTL

\* An alert is lost only between the commit of its check and that of its event, where a
\* restart, a DELETE or an exception that execute swallows ends the hand-over: nothing
\* that happens later, and no other event, takes its place (run_target,
\* get_for_transition).
THEOREM NoAlertIsForgotten == Spec => []AlertsAccounted
<1>1. IInv => AlertsAccounted
  BY DEF IInv
<1> QED
  BY <1>1, Invariance, PTL

-----------------------------------------------------------------------------
(* What a message shows: the check of its transition, or the last one of its *)
(* incident.                                                                 *)

Shows(s) ==
  step[s] \in {"created", "posting"} /\ held[s].type = "opened" => shown[s] \in CP!Failing

MessageInv ==
  /\ CP!RunsInv
  /\ shown \in [Sessions -> CP!CheckStatus]
  /\ \A s \in Sessions : Shows(s)

LEMMA InitMessageInv == Init => MessageInv
  BY SameInit, CP!InitRunsInv, CheckAssumptions
     DEF Init, AP!Init, MessageInv, Shows, CP!CheckStatus

\* The step of a session that begins nothing, or goes on with its message.
LEMMA QuietMessages ==
  ASSUME MessageInv,
         \A s \in Sessions : step'[s] \in {"created", "posting"} =>
           /\ step[s] \in {"created", "posting"}
           /\ held'[s] = held[s] /\ shown'[s] = shown[s]
  PROVE  \A s \in Sessions : Shows(s)'
  BY DEF MessageInv, Shows

LEMMA RetryShows ==
  ASSUME IInv, MessageInv, NEW s \in Sessions, NEW e \in Events, RetryPosts(s, e)
  PROVE  shown' \in [Sessions -> CP!CheckStatus] /\ \A t \in Sessions : Shows(t)'
<1>1. PICK r \in ResolveCheckRun(e) : shown' = [shown EXCEPT ![s] = r.status]
  BY DEF RetryPosts
<1>2. r \in runs /\ runs \subseteq CP!Run /\ target # NoRow
  BY <1>1 DEF ResolveCheckRun, IInv, ChecksInv, CP!IInv, CP!TypeOK, CP!NoOrphanRows
<1>3. e \in announced
  BY DEF RetryPosts, Alerts!RetryPosts, Alerts!ForcePosts, Alerts!MayForce, IInv, AlertsInv,
     AP!OnlyAnnounced
<1>4. e.type = "opened" => r.status \in CP!Failing
  <2>1. e.incident \in DOMAIN incidents
    BY <1>2, <1>3 DEF IInv, AnnouncedIsShown, CP!Announced
  <2> QED
    BY <1>1, <1>2, <2>1 DEF ResolveCheckRun, MessageInv, CP!RunsInv, CP!LastFailed
<1>5. /\ step \in [Sessions -> {"idle", "created", "batch", "posting", "accepted"}]
      /\ held \in [Sessions -> Events \union {Null}] /\ shown \in [Sessions -> CP!CheckStatus]
  BY DEF IInv, AlertsInv, AP!IInv, AP!TypeOK, MessageInv
<1>6. held'[s] = e /\ \A t \in Sessions \ {s} : step'[t] = step[t] /\ held'[t] = held[t]
  BY <1>5 DEF RetryPosts, Alerts!RetryPosts, Alerts!ForcePosts, Alerts!BeginAttempt
<1>7. Shows(s)'
  BY <1>1, <1>4, <1>5, <1>6 DEF Shows
<1>8. \A t \in Sessions \ {s} : Shows(t)'
  BY <1>1, <1>5, <1>6 DEF Shows, MessageInv
<1>9. shown' \in [Sessions -> CP!CheckStatus]
  BY <1>1, <1>2, <1>5 DEF CP!Run
<1> QED
  BY <1>7, <1>8, <1>9

LEMMA NotifyShows ==
  ASSUME IInv, MessageInv, NEW s \in Sessions, Notify(s)
  PROVE  shown' \in [Sessions -> CP!CheckStatus] /\ \A t \in Sessions : Shows(t)'
<1>1. /\ step \in [Sessions -> {"idle", "created", "batch", "posting", "accepted"}]
      /\ held \in [Sessions -> Events \union {Null}] /\ shown \in [Sessions -> CP!CheckStatus]
      /\ run \in [Sessions -> CP!Run]
  BY DEF IInv, AlertsInv, AP!IInv, AP!TypeOK, MessageInv, ChecksInv, CP!IInv, CP!TypeOK
<1>2. CASE UNCHANGED <<alerting, shown>>
  <2>1. step' = step /\ held' = held /\ shown' = shown
    BY <1>2 DEF alerting
  <2> QED
    BY <1>1, <2>1, QuietMessages
<1>3. CASE Alerts!CreateEvent(s, pending[s]) /\ shown' = [shown EXCEPT ![s] = run[s].status]
  <2>1. pc[s] = "notifying"
    BY DEF Notify, Checks!HandOver
  <2>2. pending[s].type = "opened" => run[s].status \in CP!Failing
    BY <2>1 DEF MessageInv, CP!RunsInv, CP!OpeningFailed
  <2>3. /\ held'[s] = pending[s]
        /\ \A t \in Sessions \ {s} : step'[t] = step[t] /\ held'[t] = held[t]
    BY <1>1, <1>3 DEF Alerts!CreateEvent
  <2>4. Shows(s)'
    BY <1>1, <1>3, <2>2, <2>3 DEF Shows
  <2>5. \A t \in Sessions \ {s} : Shows(t)'
    BY <1>1, <1>3, <2>3 DEF Shows, MessageInv
  <2> QED
    BY <1>1, <1>3, <2>4, <2>5 DEF CP!Run
<1> QED
  BY <1>2, <1>3 DEF Notify

LEMMA NextMessageInv == IInv /\ MessageInv /\ [Next]_vars => MessageInv'
<1> SUFFICES ASSUME IInv, MessageInv, [Next]_vars PROVE MessageInv'
  OBVIOUS
<1>1. CP!RunsInv'
  BY ChecksNext, CP!NextRunsInv, CheckAssumptions DEF IInv, ChecksInv, MessageInv
<1>2. /\ step \in [Sessions -> {"idle", "created", "batch", "posting", "accepted"}]
      /\ held \in [Sessions -> Events \union {Null}] /\ shown \in [Sessions -> CP!CheckStatus]
  BY DEF IInv, AlertsInv, AP!IInv, AP!TypeOK, MessageInv
<1> DEFINE Quiet ==
      /\ shown' \in [Sessions -> CP!CheckStatus]
      /\ \A t \in Sessions : step'[t] \in {"created", "posting"} =>
           /\ step[t] \in {"created", "posting"}
           /\ held'[t] = held[t] /\ shown'[t] = shown[t]
<1>3. CASE Quiet
  BY <1>1, <1>3, QuietMessages DEF MessageInv
<1>4. ASSUME NEW s \in Sessions, NEW e \in Events, RetryPosts(s, e) PROVE MessageInv'
  BY <1>1, <1>4, RetryShows DEF MessageInv
<1>5. ASSUME NEW s \in Sessions, Notify(s) PROVE MessageInv'
  BY <1>1, <1>5, NotifyShows DEF MessageInv
<1>6. ASSUME NEW s \in Sessions, FirstAttempt(s) \/ ListDueRetries(s) \/ Accept(s) PROVE Quiet
  BY <1>2, <1>6 DEF FirstAttempt, ListDueRetries, Accept, Alerts!FirstAttempt,
     Alerts!ListDueRetries, Alerts!Accept, Alerts!BeginAttempt, Alerts!LetGo, message
<1>7. ASSUME NEW s \in Sessions, NEW e \in Events, RetryGivesUp(s, e) PROVE Quiet
  BY <1>2, <1>7 DEF RetryGivesUp, Alerts!RetryGivesUp, Alerts!ForceGivesUp, Alerts!GiveUp,
     Alerts!LetGo, message
<1>8. ASSUME NEW s \in Sessions, Record(s) PROVE Quiet
  <2>1. PICK rest : Alerts!LetGo(s, rest)
    BY <1>8 DEF Record, Alerts!SaveSent, Alerts!SaveFailure, Alerts!SaveAttempt, Alerts!Die
  <2>2. shown' = [shown EXCEPT ![s] = "pending"]
    BY <1>8 DEF Record
  <2> QED
    BY <1>2, <2>1, <2>2 DEF Alerts!LetGo, CP!CheckStatus
<1>9. CASE \/ Crash \/ Administer \/ DeleteTarget \/ UNCHANGED vars
           \/ \E s \in Sessions : Check(s) \/ NotifyRaises(s)
           \/ \E e \in Events : Age(e)
  <2>1. UNCHANGED <<step, held, shown>>
    BY <1>9, CheckStep, RaisesStep, AdministerStep DEF vars, alerting, message, Crash, DeleteTarget, Age,
       Alerts!Elapse, Alerts!Prune, Alerts!delivery
  <2> QED
    BY <1>2, <1>3, <2>1
<1> HIDE DEF Quiet
<1> QED
  BY <1>3, <1>4, <1>5, <1>6, <1>7, <1>8, <1>9 DEF Next

\* An alert that a service is down shows a check that failed, however many sessions check
\* and deliver, and whatever was checked or pruned since (_resolve_check_run).
THEOREM AlertsShowFailures == Spec => []DownShowsFailure
<1>1. MessageInv => DownShowsFailure
  BY DEF MessageInv, Shows, DownShowsFailure, CP!Failing, Checks!Failing
<1>2. IInv /\ [Next]_vars /\ MessageInv => MessageInv'
  BY NextMessageInv
<1> QED
  BY <1>1, <1>2, InitMessageInv, Invariance, PTL DEF Spec

-----------------------------------------------------------------------------
(* One session at a time. *)

LEMMA NextSerialInv ==
  ASSUME IInv, AP!SerialInv, AP!OneDelivery, [Next]_vars
  PROVE  AP!SerialInv' /\ AP!SentAll
<1>1. CASE AP!Next \/ UNCHANGED alerting
  <2>1. [AP!Next]_(AP!vars)
    BY <1>1 DEF alerting, AP!vars, AP!delivery, AP!bounds, AP!counts
  <2> QED
    BY <2>1, AP!NextSerialInv, AlertAssumptions
<1>2. CASE Delivers
  BY <1>1, <1>2, DeliversNext
<1>3. ASSUME NEW s \in Sessions, Notify(s) PROVE AP!Next \/ UNCHANGED alerting
  BY <1>3, NotifySteps DEF AP!Next, AP!Step
<1>4. CASE DeleteTarget
  <2>1. /\ event' = [e \in Events |-> NoRow]
        /\ UNCHANGED <<announced, step, held, snapshot, limit, batch, posts, delivered,
                       crashed, lost>>
    BY <1>4 DEF DeleteTarget
  <2>2. event \in [Events -> AP!Rows]
    BY DEF IInv, AlertsInv, AP!IInv, AP!TypeOK
  <2>3. AP!FollowsAll' /\ AP!SentAll
    BY <2>1, <2>2, AP!RemoveFollows, AlertAssumptions DEF AP!delivery, AP!counts
  <2>4. AP!IInv' /\ AP!OnlyAnnounced'
    BY NextAlertsInv DEF AlertsInv
  <2>5. AP!CreatedIsNew'
    BY <2>1 DEF IInv, AlertsInv, AP!IInv, AP!SessionsInv, AP!HeldIsEvent, AP!CreatedIsNew
  <2> QED
    BY <2>3, <2>4, <2>5 DEF AP!SerialInv, AP!FollowsAll
<1>5. CASE UNCHANGED vars \/ Crash \/ Administer
           \/ \E s \in Sessions : Check(s) \/ NotifyRaises(s)
  <2>1. UNCHANGED alerting
    BY <1>5, CheckStep, RaisesStep, AdministerStep DEF vars, Crash
  <2> QED
    BY <1>1, <2>1
<1> QED
  BY <1>1, <1>2, <1>3, <1>4, <1>5 DEF Next, Delivers

LEMMA SerialInvariance == AP!OneDelivery => (Spec => [](IInv /\ AP!SerialInv))
<1> SUFFICES ASSUME AP!OneDelivery PROVE Spec => [](IInv /\ AP!SerialInv)
  OBVIOUS
<1>1. Init => AP!SerialInv
  BY SameInit, AP!InitSerialInv, AlertAssumptions DEF Init
<1>2. IInv /\ AP!SerialInv /\ [Next]_vars => AP!SerialInv'
  BY NextSerialInv
<1>3. IInv /\ AP!SerialInv /\ [Next]_vars => IInv'
  BY NextChecksInv, NextAlertsInv, NextAnnouncedIsShown, NextAlertsAccounted DEF IInv
<1> QED
  BY <1>1, <1>2, <1>3, InitIInv, PTL DEF Spec

LEMMA SameProperties ==
  /\ AP!AttemptLimit => AttemptLimit
  /\ AP!RepeatedForAReason => RepeatedForAReason
  BY DEF AP!AttemptLimit, AP!InHand, AttemptLimit, Alerts!AttemptLimit, Alerts!InHand,
     AP!RepeatedForAReason, RepeatedForAReason, Alerts!RepeatedForAReason

\* One session: whatever it checks, delivers and retries, a message is posted no more than
\* max_attempts times, but for the attempts that died (_attempt_event).
THEOREM AttemptsAreLimited == AP!OneDelivery => (Spec => []AttemptLimit)
<1> SUFFICES ASSUME AP!OneDelivery PROVE Spec => []AttemptLimit
  OBVIOUS
<1>1. AP!SerialInv => AttemptLimit
  BY AP!SerialInvIsEnough, AlertAssumptions, SameProperties
<1> QED
  BY <1>1, SerialInvariance, PTL

\* One session: a message comes twice only if its answer was lost or its session died
\* (_attempt_event, list_due_retries).
THEOREM RepetitionsHaveAReason == AP!OneDelivery => (Spec => []RepeatedForAReason)
<1> SUFFICES ASSUME AP!OneDelivery PROVE Spec => []RepeatedForAReason
  OBVIOUS
<1>1. AP!SerialInv => RepeatedForAReason
  BY AP!SerialInvIsEnough, AlertAssumptions, SameProperties
<1> QED
  BY <1>1, SerialInvariance, PTL

\* One session: nothing is written to a row that says SENT (retry_event).
THEOREM SentRowsAreFinal == AP!OneDelivery => (Spec => SentIsFinal)
<1> SUFFICES ASSUME AP!OneDelivery PROVE Spec => SentIsFinal
  OBVIOUS
<1>1. IInv /\ AP!SerialInv /\ [Next]_vars =>
        [\A e \in Events : event[e] # NoRow /\ event[e].status = "sent" =>
           event'[e] \in {event[e], NoRow}]_(Alerts!vars)
  BY NextSerialInv DEF AP!SentAll, AP!SentStays
<1> QED
  BY <1>1, SerialInvariance, PTL DEF SentIsFinal, Alerts!SentIsFinal, Spec

-----------------------------------------------------------------------------
(* One session: the opening is told first.                                   *)

Resolution(o) == [o EXCEPT !.type = "resolved"]

\* The incident of an opening is resolved, or was when its target was deleted.
Over(o) == Resolution(o) \in announced \/ CP!Announced(Resolution(o))

Posted(o) == posts[o] > 0 \/ crashes > 0
PostedAgain(o) == posts[o] > 1 \/ crashes > 0

\* A session that delivers has no check in hand.
Apart == \A s \in Sessions : step[s] # "idle" => pc[s] = "idle"

Fresh(s, e) == step[s] = "created" /\ held[s] = e

\* What can be retried has been posted before, or its session died.
WaitingWasPosted ==
  \A s \in Sessions, e \in Events :
    (event[e] # NoRow \/ batch[s][e] # NoRow) /\ ~ Fresh(s, e) => Posted(e)

\* When an incident is over, nothing is left of its opening but retries.
OpeningIsPast ==
  \A s \in Sessions, o \in Events : o.type = "opened" /\ Over(o) =>
    /\ pc[s] = "notifying" => pending[s] # o
    /\ ~ Fresh(s, o)
    /\ step[s] = "posting" /\ held[s] = o => PostedAgain(o)

OpeningInv == Apart /\ WaitingWasPosted /\ OpeningIsPast

LEMMA InitOpeningInv == Init => OpeningInv
  BY SameInit
     DEF Init, CP!Init, AP!Init, AP!NoBatch, OpeningInv, Apart, WaitingWasPosted, Fresh,
         OpeningIsPast

LEMMA SystemTypes ==
  ASSUME IInv
  PROVE  /\ CP!TypeOK
         /\ event \in [Events -> AP!Rows]
         /\ step \in [Sessions -> {"idle", "created", "batch", "posting", "accepted"}]
         /\ held \in [Sessions -> Events \union {Null}]
         /\ batch \in [Sessions -> [Events -> AP!Rows]]
         /\ posts \in [Events -> Nat] /\ delivered \in [Events -> Nat] /\ crashes \in Nat
         /\ \A s \in Sessions :
              step[s] \in {"created", "posting", "accepted"} => held[s] \in Events
  BY AlertAssumptions
     DEF IInv, ChecksInv, CP!IInv, AlertsInv, AP!IInv, AP!TypeOK, AP!SessionsInv,
         AP!HeldIsEvent, AP!BoundsAssumption

(* What a session that delivers may do, told apart by what the opening needs. *)

Turns(s) == step[s] = "idle" => pc[s] = "idle"

\* It begins an attempt, the first one or a retry.
Begins(s, e) ==
  /\ \/ Fresh(s, e)
     \/ step[s] \in {"idle", "batch"} /\ (event[e] # NoRow \/ batch[s][e] # NoRow)
  /\ Turns(s) /\ step' = [step EXCEPT ![s] = "posting"] /\ held' = [held EXCEPT ![s] = e]
  /\ posts' = [posts EXCEPT ![e] = @ + 1]
  /\ \A x \in Events : batch'[s][x] \in {batch[s][x], NoRow}
  /\ \A t \in Sessions \ {s} : batch'[t] = batch[t]
  /\ UNCHANGED <<event, crashes>>

\* It reads the rows that are due.
Lists(s) ==
  /\ Turns(s) /\ step[s] = "idle" /\ step' = [step EXCEPT ![s] = "batch"]
  /\ \A x \in Events : batch'[s][x] \in {event[x], NoRow}
  /\ \A t \in Sessions \ {s} : batch'[t] = batch[t]
  /\ UNCHANGED <<event, held, posts, crashes>>

\* It lets go of its event; of a new one only if the row is gone, or it dies.
LetsGo(s) ==
  /\ Turns(s) /\ step' = [step EXCEPT ![s] = step'[s]] /\ step'[s] \in {"idle", "batch"}
  /\ step[s] = "created" =>
       \/ crashes' > 0
       \/ event[held[s]] = NoRow /\ batch'[s][held[s]] = NoRow
  /\ \A t \in Sessions \ {s} : held'[t] = held[t] /\ batch'[t] = batch[t]
  /\ \A x \in Events : batch'[s][x] \in {batch[s][x], NoRow}
  /\ \A x \in Events : event'[x] # NoRow => event[x] # NoRow
  /\ posts' = posts /\ crashes <= crashes'

\* Discord answers.
Accepts(s) ==
  /\ step[s] = "posting" /\ step' = [step EXCEPT ![s] = "accepted"]
  /\ UNCHANGED <<event, held, batch, posts, crashes>>

\* Only rows change.
RowsAge ==
  /\ \A x \in Events : event'[x] # NoRow => event[x] # NoRow
  /\ UNCHANGED <<step, held, batch, posts, crashes>>

LEMMA FirstAttemptForm ==
  ASSUME IInv, NEW s \in Sessions, FirstAttempt(s)
  PROVE  Begins(s, held[s]) \/ LetsGo(s)
<1>1. /\ step[s] = "created" /\ held[s] \in Events /\ crashes \in Nat
      /\ UNCHANGED <<event, crashes>>
  BY SystemTypes DEF FirstAttempt, Alerts!FirstAttempt, Alerts!bounds
<1>2. CASE Alerts!LetGo(s, Alerts!NoBatch) /\ posts' = posts /\ event[held[s]] = NoRow
  BY <1>1, <1>2, SystemTypes DEF Alerts!LetGo, Alerts!NoBatch, LetsGo, Turns
<1>3. CASE \E row, max : Alerts!BeginAttempt(s, held[s], row, max, Alerts!NoBatch)
  BY <1>1, <1>3, SystemTypes DEF Alerts!BeginAttempt, Alerts!NoBatch, Begins, Fresh, Turns
<1> QED
  BY <1>2, <1>3 DEF FirstAttempt, Alerts!FirstAttempt

LEMMA RetryForm ==
  ASSUME IInv, NEW s \in Sessions, NEW e \in Events, RetryPosts(s, e) PROVE Begins(s, e)
<1>1. UNCHANGED <<event, crashes>>
  BY DEF RetryPosts, Alerts!RetryPosts, Alerts!ForcePosts, Alerts!bounds
<1>2. /\ step[s] \in {"idle", "batch"} /\ (event[e] # NoRow \/ batch[s][e] # NoRow)
  BY DEF RetryPosts, Alerts!RetryPosts, Alerts!ForcePosts, Alerts!MayForce
<1>3. PICK rest : /\ \E row, max : Alerts!BeginAttempt(s, e, row, max, rest)
                  /\ \A x \in Events : rest[x] \in {batch[s][x], NoRow}
  <2>1. CASE Alerts!RetryPosts(s, e)
    BY <2>1, SystemTypes DEF Alerts!RetryPosts
  <2>2. CASE Alerts!ForcePosts(s, e)
    BY <2>2 DEF Alerts!ForcePosts, Alerts!NoBatch
  <2> QED
    BY <2>1, <2>2 DEF RetryPosts
<1> QED
  BY <1>1, <1>2, <1>3, SystemTypes DEF RetryPosts, Alerts!BeginAttempt, Begins, Turns

LEMMA GiveUpForm ==
  ASSUME IInv, NEW s \in Sessions, NEW e \in Events, RetryGivesUp(s, e) PROVE LetsGo(s)
<1>1. step[s] \in {"idle", "batch"} /\ UNCHANGED <<posts, crashes>> /\ crashes \in Nat
  BY SystemTypes
     DEF RetryGivesUp, Alerts!RetryGivesUp, Alerts!ForceGivesUp, Alerts!bounds, Alerts!counts
<1>2. PICK rest : /\ Alerts!LetGo(s, rest)
                  /\ \A x \in Events : rest[x] \in {batch[s][x], NoRow}
  <2>1. CASE Alerts!RetryGivesUp(s, e)
    BY <2>1, SystemTypes DEF Alerts!RetryGivesUp, Alerts!GiveUp, Alerts!NoBatch
  <2>2. CASE Alerts!ForceGivesUp(s, e)
    BY <2>2 DEF Alerts!ForceGivesUp, Alerts!GiveUp, Alerts!NoBatch
  <2> QED
    BY <2>1, <2>2 DEF RetryGivesUp
<1>3. \A x \in Events : event'[x] # NoRow => event[x] # NoRow
  BY SystemTypes DEF RetryGivesUp, Alerts!RetryGivesUp, Alerts!ForceGivesUp, Alerts!GiveUp,
     Alerts!MayForce
<1> QED
  BY <1>1, <1>2, <1>3, SystemTypes DEF RetryGivesUp, Alerts!LetGo, LetsGo, Turns

LEMMA RecordForm ==
  ASSUME IInv, NEW s \in Sessions, Record(s) PROVE LetsGo(s)
<1>1. CASE Alerts!Die(s)
  BY <1>1, SystemTypes DEF Alerts!Die, Alerts!LetGo, Alerts!NoBatch, LetsGo, Turns
<1>2. CASE Alerts!SaveSent(s) \/ Alerts!SaveFailure(s)
  <2>1. PICK status, next : Alerts!SaveAttempt(s, status, next)
    BY <1>2 DEF Alerts!SaveSent, Alerts!SaveFailure
  <2>2. step[s] \in {"posting", "accepted"} /\ crashes \in Nat
    BY <1>2, SystemTypes DEF Alerts!SaveSent, Alerts!SaveFailure
  <2>3. UNCHANGED <<posts, crashes>> /\ \A x \in Events : event'[x] # NoRow => event[x] # NoRow
    BY <2>1, SystemTypes DEF Alerts!SaveAttempt, Alerts!bounds
  <2>4. PICK rest : /\ Alerts!LetGo(s, rest)
                    /\ \A x \in Events : rest[x] \in {batch[s][x], NoRow}
    BY <2>1, SystemTypes DEF Alerts!SaveAttempt, Alerts!NoBatch
  <2> QED
    BY <2>2, <2>3, <2>4, SystemTypes DEF Alerts!LetGo, LetsGo, Turns
<1> QED
  BY <1>1, <1>2 DEF Record

LEMMA DeliveryForms ==
  ASSUME IInv, Delivers
  PROVE  \/ \E s \in Sessions :
              \/ \E e \in Events : Begins(s, e)
              \/ Lists(s) \/ LetsGo(s) \/ Accepts(s)
         \/ RowsAge
<1>1. ASSUME NEW s \in Sessions, FirstAttempt(s)
      PROVE  (\E e \in Events : Begins(s, e)) \/ LetsGo(s)
  BY <1>1, FirstAttemptForm, SystemTypes DEF FirstAttempt, Alerts!FirstAttempt
<1>2. ASSUME NEW s \in Sessions, ListDueRetries(s) PROVE Lists(s)
  BY <1>2, SystemTypes DEF ListDueRetries, Alerts!ListDueRetries, Alerts!bounds, Alerts!counts,
     Lists, Turns
<1>3. ASSUME NEW s \in Sessions, Accept(s) PROVE Accepts(s)
  BY <1>3 DEF Accept, Alerts!Accept, Alerts!bounds, Accepts
<1>4. ASSUME NEW e \in Events, Age(e) PROVE RowsAge
  BY <1>4, SystemTypes DEF Age, Alerts!Elapse, Alerts!Prune, Alerts!delivery, Alerts!bounds,
     Alerts!counts, RowsAge
<1> QED
  BY <1>1, <1>2, <1>3, <1>4, RetryForm, GiveUpForm, RecordForm DEF Delivers

\* The other steps create an event, or leave the sessions that deliver alone.
LEMMA OtherForms ==
  ASSUME IInv, [Next]_vars, ~ Delivers
  PROVE  \/ \E s \in Sessions : Notify(s) /\ AP!CreateEvent(s, pending[s]) /\ pending[s] \in Events
         \/ RowsAge
<1>1. CASE UNCHANGED alerting
  BY <1>1 DEF alerting, RowsAge
<1>2. CASE DeleteTarget
  BY <1>2 DEF DeleteTarget, RowsAge
<1>3. ASSUME NEW s \in Sessions, Notify(s), ~ UNCHANGED alerting
      PROVE  AP!CreateEvent(s, pending[s]) /\ pending[s] \in Events
  BY <1>3, NotifySteps
<1> QED
  BY <1>1, <1>2, <1>3, CheckStep, RaisesStep, AdministerStep DEF Next, Delivers, vars, Crash

LEMMA NextApart ==
  ASSUME IInv, Apart, [Next]_vars PROVE Apart'
<1> USE DEF Apart
<1>1. CASE Delivers
  <2>1. pc' = pc
    BY <1>1, DeliversNext DEF checking
  <2> QED
    BY <1>1, <2>1, DeliveryForms, SystemTypes
       DEF Begins, Lists, LetsGo, Accepts, RowsAge, Turns, Fresh
<1>2. ASSUME NEW s \in Sessions, Check(s) PROVE Apart'
  <2>1. step[s] = "idle" /\ step' = step
    BY <1>2, CheckStep DEF Check, alerting
  <2>2. \A t \in Sessions \ {s} : pc'[t] = pc[t]
    BY <1>2, SystemTypes
       DEF Check, Checks!LoadTarget, Checks!RecordCheck, Checks!SelectOpenIncident,
           Checks!Commit, Checks!CommitQuietly, Checks!CommitRecovering,
           Checks!CommitResolved, Checks!CommitStillFailing, Checks!CommitOpened,
           Checks!Close, Checks!KeepTransition, Checks!ForeignKeyViolation,
           Checks!CheckIsVictim, Checks!Rollback, CP!TypeOK
  <2> QED
    BY <2>1, <2>2
<1>3. ASSUME NEW s \in Sessions, Notify(s) PROVE Apart'
  <2>1. pc' = [pc EXCEPT ![s] = "idle"]
    BY <1>3 DEF Notify, Checks!HandOver, Checks!Close
  <2>2. \A t \in Sessions \ {s} : step'[t] = step[t]
    BY <1>3, SystemTypes DEF Notify, Alerts!CreateEvent, alerting
  <2> QED
    BY <2>1, <2>2, SystemTypes DEF CP!TypeOK
<1>4. CASE Crash
  BY <1>4 DEF Crash, Checks!Crash
<1>5. CASE Administer \/ DeleteTarget \/ UNCHANGED vars
  <2>1. pc' = pc /\ step' = step
    BY <1>5, AdministerStep
       DEF DeleteTarget, Checks!DeleteTarget, Checks!session, vars, checking, alerting
  <2> QED
    BY <2>1
<1>6. ASSUME NEW s \in Sessions, NotifyRaises(s) PROVE Apart'
  BY <1>6, RaisesStep, SystemTypes DEF CP!TypeOK
<1> QED
  BY <1>1, <1>2, <1>3, <1>4, <1>5, <1>6 DEF Next, Delivers

\* No post is taken back.
LEMMA NextPosts ==
  ASSUME IInv, [Next]_vars, NEW e \in Events
  PROVE  posts[e] <= posts'[e] /\ crashes <= crashes' /\ posts'[e] \in Nat /\ crashes' \in Nat
<1>1. posts[e] \in Nat /\ crashes \in Nat
  BY SystemTypes
<1>2. posts'[e] \in Nat /\ crashes' \in Nat
  BY NextAlertsInv, AlertAssumptions DEF AlertsInv, AP!IInv, AP!TypeOK, AP!BoundsAssumption
<1>3. CASE Delivers
  BY <1>1, <1>2, <1>3, DeliveryForms, SystemTypes DEF Begins, Lists, LetsGo, Accepts, RowsAge
<1>4. CASE ~ Delivers
  BY <1>1, <1>2, <1>4, OtherForms DEF AP!CreateEvent, AP!counts, AP!bounds, RowsAge
<1> QED
  BY <1>2, <1>3, <1>4

LEMMA NextWaiting ==
  ASSUME IInv, WaitingWasPosted, AP!OneDelivery, [Next]_vars PROVE WaitingWasPosted'
<1> SUFFICES ASSUME NEW s \in Sessions, Sessions = {s}, NEW e \in Events,
                    event'[e] # NoRow \/ batch'[s][e] # NoRow, ~ Fresh(s, e)'
             PROVE  posts'[e] > 0 \/ crashes' > 0
  BY DEF WaitingWasPosted, AP!OneDelivery, Posted
<1> USE DEF Fresh
<1>1. /\ posts[e] \in Nat /\ crashes \in Nat /\ posts'[e] \in Nat /\ crashes' \in Nat
      /\ posts[e] <= posts'[e] /\ crashes <= crashes'
  BY NextPosts, SystemTypes
<1>2. ASSUME event[e] # NoRow \/ batch[s][e] # NoRow, ~ Fresh(s, e)
      PROVE  posts'[e] > 0 \/ crashes' > 0
  BY <1>1, <1>2 DEF WaitingWasPosted, Posted
<1>3. CASE Delivers
  <2>1. ASSUME NEW x \in Events, Begins(s, x) PROVE posts'[e] > 0 \/ crashes' > 0
    <3>1. x = e => posts'[e] = posts[e] + 1
      BY <2>1, SystemTypes DEF Begins
    <3>2. x # e => ~ Fresh(s, e)
      BY <2>1 DEF Begins
    <3> QED
      BY <1>1, <1>2, <2>1, <3>1, <3>2 DEF Begins
  <2>2. CASE Lists(s)
    BY <1>2, <2>2 DEF Lists
  <2>3. CASE LetsGo(s)
    <3>1. Fresh(s, e) => crashes' > 0
      BY <2>3 DEF LetsGo
    <3> QED
      BY <1>2, <2>3, <3>1 DEF LetsGo
  <2>4. CASE Accepts(s)
    BY <1>2, <2>4 DEF Accepts
  <2>5. CASE RowsAge
    BY <1>2, <2>5 DEF RowsAge
  <2> QED
    BY <1>3, <2>1, <2>2, <2>3, <2>4, <2>5, DeliveryForms
<1>4. CASE RowsAge
  BY <1>2, <1>4 DEF RowsAge
<1>5. ASSUME AP!CreateEvent(s, pending[s]), pending[s] \in Events
      PROVE  posts'[e] > 0 \/ crashes' > 0
  <2>1. pending[s] # e
    BY <1>5, SystemTypes DEF AP!CreateEvent
  <2> QED
    BY <1>2, <1>5, <2>1, SystemTypes DEF AP!CreateEvent
<1> QED
  BY <1>3, <1>4, <1>5, OtherForms

LEMMA ResolutionFacts ==
  ASSUME NEW o \in Events, o.type = "opened"
  PROVE  /\ Resolution(o) \in Events /\ Resolution(o) \in CP!Transition /\ Resolution(o) # o
         /\ Resolution(o).incident = o.incident /\ Resolution(o).type = "resolved"
<1>1. Resolution(o) \in Events /\ Resolution(o) # o
      /\ Resolution(o).incident = o.incident /\ Resolution(o).type = "resolved"
  BY DEF Resolution, Events
<1> QED
  BY <1>1, EventsAreTransitions

\* An incident comes to an end in a step that leaves its resolution to be notified.
LEMMA NextOver ==
  ASSUME IInv, [Next]_vars, NEW o \in Events, o.type = "opened", Over(o)'
  PROVE  \/ Over(o)
         \/ \E s \in Sessions : pc'[s] = "notifying" /\ pending'[s] = Resolution(o)
<1> DEFINE r == Resolution(o)
<1>1. r \in Events /\ r \in CP!Transition
  BY ResolutionFacts
<1>2. r \in announced' \/ CP!Announced(r)'
  BY DEF Over, Resolution
<1> HIDE DEF r
<1>3. ASSUME CP!Announced(r)'
      PROVE  CP!Announced(r) \/ \E s \in Sessions : pc'[s] = "notifying" /\ pending'[s] = r
  <2>1. incidents' # <<>>
    BY <1>3 DEF CP!Announced
  <2>2. target' # NoRow
    BY <2>1, NextChecksInv DEF ChecksInv, CP!IInv, CP!NoOrphanRows
  <2>3. CP!IInv /\ [CP!Next]_(CP!vars)
    BY ChecksNext DEF IInv, ChecksInv
  <2> QED
    BY <1>1, <1>3, <2>2, <2>3, CP!NextTransitions, CheckAssumptions
<1>4. ASSUME r \in announced', r \notin announced PROVE CP!Announced(r)
  <2>1. ~ Delivers
    BY <1>4, DeliversNext
  <2>2. ASSUME NEW s \in Sessions, Notify(s) PROVE r = pending[s] /\ pc[s] = "notifying" /\ target # NoRow
    BY <1>4, <2>2, NotifySteps DEF alerting, Notify, Checks!HandOver
  <2>3. \E s \in Sessions : Notify(s)
    BY <1>4, <2>1, CheckStep, RaisesStep, AdministerStep
       DEF Next, Delivers, vars, alerting, Crash, DeleteTarget
  <2> QED
    BY <2>2, <2>3, PendingIsShown
<1> QED
  BY <1>2, <1>3, <1>4 DEF Over, r

\* A transition comes to be pending when it is new.
LEMMA NextNotifying ==
  ASSUME IInv, [Next]_vars, NEW s \in Sessions, pc'[s] = "notifying", NEW t, pending'[s] = t
  PROVE  \/ pc[s] = "notifying" /\ pending[s] = t
         \/ target # NoRow /\ ~ CP!Announced(t)
<1>1. ASSUME NEW u \in Sessions, Check(u)
      PROVE  \/ pc[s] = "notifying" /\ pending[s] = t
             \/ target # NoRow /\ ~ CP!Announced(t)
  <2>1. CASE CP!Commit(u)
    <3>1. CASE u = s
      BY <2>1, <3>1, CP!CommitIsNew, CheckAssumptions DEF IInv, ChecksInv
    <3>2. CASE u # s
      BY <2>1, <3>2, SystemTypes
         DEF CP!Commit, CP!CommitQuietly, CP!CommitRecovering, CP!CommitResolved,
             CP!CommitStillFailing, CP!CommitOpened, CP!Close, CP!KeepTransition, CP!TypeOK
    <3> QED
      BY <3>1, <3>2
  <2>2. CASE \/ CP!LoadTarget(u) \/ CP!RecordCheck(u) \/ CP!SelectOpenIncident(u)
             \/ CP!ForeignKeyViolation(u) \/ CP!CheckIsVictim(u) \/ CP!Rollback(u)
    BY <2>2, SystemTypes
       DEF CP!LoadTarget, CP!RecordCheck, CP!SelectOpenIncident, CP!ForeignKeyViolation,
           CP!CheckIsVictim, CP!Rollback, CP!Close, CP!TypeOK
  <2> QED
    BY <1>1, <2>1, <2>2, SameStep, SameCommit DEF Check
<1>2. ASSUME NEW u \in Sessions, Notify(u) PROVE pc[s] = "notifying" /\ pending[s] = t
  BY <1>2, SystemTypes DEF Notify, Checks!HandOver, Checks!Close, CP!TypeOK
<1>3. CASE Delivers \/ Administer \/ DeleteTarget \/ UNCHANGED vars
  <2>1. pc' = pc /\ pending' = pending
    BY <1>3, DeliversNext, AdministerStep
       DEF vars, checking, DeleteTarget, Checks!DeleteTarget, Checks!session
  <2> QED
    BY <2>1
<1>4. ~ Crash
  BY DEF Crash, Checks!Crash
<1>5. ASSUME NEW u \in Sessions, NotifyRaises(u) PROVE pc[s] = "notifying" /\ pending[s] = t
  BY <1>5, RaisesStep, SystemTypes DEF CP!TypeOK
<1> QED
  BY <1>1, <1>2, <1>3, <1>4, <1>5 DEF Next, Delivers

LEMMA NextOpeningIsPast ==
  ASSUME IInv, OpeningInv, AP!OneDelivery, [Next]_vars PROVE OpeningIsPast'
<1> SUFFICES ASSUME NEW s \in Sessions, Sessions = {s},
                    NEW o \in Events, o.type = "opened", Over(o)'
             PROVE  /\ pc'[s] = "notifying" => pending'[s] # o
                    /\ ~ Fresh(s, o)'
                    /\ step'[s] = "posting" /\ held'[s] = o => posts'[o] > 1 \/ crashes' > 0
  BY DEF OpeningIsPast, AP!OneDelivery, PostedAgain
<1>1. CASE \E u \in Sessions : pc'[u] = "notifying" /\ pending'[u] = Resolution(o)
  <2>1. pc'[s] = "notifying" /\ pending'[s] = Resolution(o)
    BY <1>1
  <2>2. step'[s] = "idle"
    BY <2>1, NextApart DEF OpeningInv, Apart
  <2> QED
    BY <2>1, <2>2, ResolutionFacts DEF Fresh
<1>2. CASE Over(o)
  <2>1. /\ pc[s] = "notifying" => pending[s] # o
        /\ ~ Fresh(s, o)
        /\ step[s] = "posting" /\ held[s] = o => posts[o] > 1 \/ crashes > 0
    BY <1>2 DEF OpeningInv, OpeningIsPast, PostedAgain
  <2>2. pc'[s] = "notifying" => pending'[s] # o
    <3>1. target # NoRow => CP!Announced(o)
      BY <1>2, ResolutionFacts DEF Over, CP!Announced, IInv, AnnouncedIsShown
    <3> QED
      BY <2>1, <3>1, NextNotifying
  <2>3. /\ posts[o] \in Nat /\ crashes \in Nat /\ posts'[o] \in Nat /\ crashes' \in Nat
        /\ posts[o] <= posts'[o] /\ crashes <= crashes'
    BY NextPosts, SystemTypes
  <2>4. CASE Delivers
    <3>1. ASSUME NEW e \in Events, Begins(s, e)
          PROVE  ~ Fresh(s, o)' /\ (held'[s] = o => posts'[o] > 1 \/ crashes' > 0)
      <4>1. step'[s] = "posting" /\ held'[s] = e
        BY <3>1, SystemTypes DEF Begins
      <4>2. ASSUME e = o PROVE posts'[o] > 1 \/ crashes' > 0
        <5>1. posts'[o] = posts[o] + 1
          BY <3>1, <4>2, SystemTypes DEF Begins
        <5>2. posts[o] > 0 \/ crashes > 0
          BY <2>1, <3>1, <4>2 DEF Begins, OpeningInv, WaitingWasPosted, Posted
        <5> QED
          BY <2>3, <5>1, <5>2
      <4> QED
        BY <4>1, <4>2 DEF Fresh
    <3>2. ASSUME Lists(s) \/ LetsGo(s) \/ Accepts(s)
          PROVE  step'[s] \in {"idle", "batch", "accepted"}
      BY <3>2, SystemTypes DEF Lists, LetsGo, Accepts
    <3>3. ASSUME RowsAge PROVE step' = step /\ held' = held
      BY <3>3 DEF RowsAge
    <3>4. (\E e \in Events : Begins(s, e)) \/ Lists(s) \/ LetsGo(s) \/ Accepts(s) \/ RowsAge
      BY <2>4, DeliveryForms
    <3> QED
      BY <2>1, <2>2, <2>3, <3>1, <3>2, <3>3, <3>4 DEF Fresh
  <2>5. CASE RowsAge
    BY <2>1, <2>2, <2>3, <2>5 DEF RowsAge, Fresh
  <2>6. CASE Notify(s) /\ AP!CreateEvent(s, pending[s])
    <3>1. pc[s] = "notifying"
      BY <2>6 DEF Notify, Checks!HandOver
    <3>2. step'[s] = "created" /\ held'[s] # o
      BY <2>1, <2>6, <3>1, SystemTypes DEF AP!CreateEvent
    <3> QED
      BY <2>2, <3>2 DEF Fresh
  <2> QED
    BY <2>4, <2>5, <2>6, OtherForms
<1> QED
  BY <1>1, <1>2, NextOver

LEMMA NextOpeningInv ==
  ASSUME IInv, OpeningInv, AP!OneDelivery, [Next]_vars PROVE OpeningInv'
  BY NextApart, NextWaiting, NextOpeningIsPast DEF OpeningInv

\* What Discord accepts is what a session was posting.
LEMMA DeliveredWasPosted ==
  ASSUME IInv, [Next]_vars, NEW e \in Events, delivered'[e] > delivered[e]
  PROVE  \E s \in Sessions : step[s] = "posting" /\ held[s] = e
<1>1. delivered[e] \in Nat
  BY SystemTypes
<1>2. ASSUME NEW s \in Sessions, Accept(s) PROVE step[s] = "posting" /\ held[s] = e
  BY <1>1, <1>2, SystemTypes DEF Accept, Alerts!Accept
<1>3. ASSUME NEW s \in Sessions, FirstAttempt(s) \/ ListDueRetries(s) \/ Record(s)
      PROVE  delivered' = delivered
  BY <1>3 DEF FirstAttempt, ListDueRetries, Record, Alerts!FirstAttempt,
     Alerts!ListDueRetries, Alerts!SaveSent, Alerts!SaveFailure, Alerts!SaveAttempt,
     Alerts!Die, Alerts!counts
<1>4. ASSUME NEW s \in Sessions, NEW x \in Events, RetryPosts(s, x) \/ RetryGivesUp(s, x)
      PROVE  delivered' = delivered
  BY <1>4 DEF RetryPosts, RetryGivesUp, Alerts!RetryPosts, Alerts!ForcePosts,
     Alerts!RetryGivesUp, Alerts!ForceGivesUp, Alerts!counts
<1>5. ASSUME NEW x \in Events, Age(x) PROVE delivered' = delivered
  BY <1>5 DEF Age, Alerts!Elapse, Alerts!Prune, Alerts!counts
<1>6. ASSUME NEW s \in Sessions, Notify(s) PROVE delivered' = delivered
  BY <1>6, NotifySteps DEF AP!CreateEvent, AP!counts, alerting
<1>7. CASE \/ Crash \/ Administer \/ DeleteTarget \/ UNCHANGED vars
           \/ \E s \in Sessions : Check(s) \/ NotifyRaises(s)
  <2>1. delivered' = delivered
    BY <1>7, CheckStep, RaisesStep, AdministerStep DEF Crash, DeleteTarget, vars, alerting
  <2> QED
    BY <1>1, <2>1
<1> QED
  BY <1>1, <1>2, <1>3, <1>4, <1>5, <1>6, <1>7 DEF Next

\* One session: Discord hears of the recovery first only if an earlier attempt to tell the
\* opening failed or died (run_target, retry_due_notifications).
THEOREM TheOpeningIsToldFirst == AP!OneDelivery => (Spec => OpeningToldFirst)
<1> SUFFICES ASSUME AP!OneDelivery PROVE Spec => OpeningToldFirst
  OBVIOUS
<1>1. IInv /\ OpeningInv /\ [Next]_vars => OpeningInv'
  BY NextOpeningInv
<1>2. IInv /\ OpeningInv /\ [Next]_vars =>
        [\A o, r \in Events :
           /\ o.type = "opened" /\ r = [o EXCEPT !.type = "resolved"]
           /\ delivered'[o] > delivered[o] /\ delivered[r] > 0
           => posts[o] > 1 \/ crashes > 0]_vars
  <2> SUFFICES ASSUME IInv, OpeningInv, [Next]_vars, NEW o \in Events, o.type = "opened",
                      delivered'[o] > delivered[o], Resolution(o) \in Events,
                      delivered[Resolution(o)] > 0
               PROVE  posts[o] > 1 \/ crashes > 0
    BY DEF Resolution
  <2>1. Over(o)
    BY DEF Over, IInv, AlertsInv, AP!OnlyAnnounced
  <2>2. \E s \in Sessions : step[s] = "posting" /\ held[s] = o
    BY DeliveredWasPosted
  <2> QED
    BY <2>1, <2>2 DEF OpeningInv, OpeningIsPast, PostedAgain
<1> QED
  BY <1>1, <1>2, InitOpeningInv, Invariance, PTL DEF OpeningToldFirst, Spec
=============================================================================
