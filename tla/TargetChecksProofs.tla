------------------------- MODULE TargetChecksProofs -------------------------
(***************************************************************************)
(* Safety of TargetChecks for any set of sessions and any thresholds.      *)
(*                                                                         *)
(* OneOpenIncident is not inductive: it rests on the row lock.  Only one   *)
(* transaction is past its UPDATE of the target (LockExclusive), so what   *)
(* it read about open incidents is still true when it commits (SeenOpen);  *)
(* and a transaction that has inserted its check_run keeps the target      *)
(* alive (TargetHeld).                                                     *)
(***************************************************************************)
EXTENDS TargetChecks, SequenceTheorems, FiniteSetTheorems, TLAPS

\* One transaction has the row lock.
LockExclusive ==
  \A s, t \in Sessions : pc[s] = "locked" /\ pc[t] = "locked" => s = t

\* A transaction that wrote its check_run holds the target row.
TargetHeld ==
  \A s \in Sessions : pc[s] \in {"recorded", "locked"} => target # NoRow

\* The open incident a transaction selected is the open incident.
SeenOpen ==
  \A s \in Sessions : pc[s] = "locked" =>
    OpenIncidents = IF seen[s] = 0 THEN {} ELSE {seen[s]}

\* The inductive invariant.
IInv ==
  /\ TypeOK
  /\ LockExclusive /\ TargetHeld /\ SeenOpen
  /\ OneOpenIncident /\ NoOrphanRows

USE ThresholdsAssumption, AnswersAssumption, NoRowAssumption

LEMMA InitIInv == Init => IInv
  BY DEF Init, IInv, TypeOK, LockExclusive, TargetHeld, SeenOpen,
     OneOpenIncident, NoOrphanRows, OpenIncidents, NewTarget, TargetRow, NoRun,
     Run, NoTransition, Transition, CheckStatus, Incident

\* Closing a session keeps its locals well typed.
LEMMA CloseTypes ==
  ASSUME IInv, NEW s \in Sessions, Close(s)
  PROVE  /\ pc' \in [Sessions -> {"idle", "checking", "recorded", "locked", "notifying"}]
         /\ loaded' \in [Sessions -> TargetRow]
         /\ run' \in [Sessions -> Run]
         /\ seen' \in [Sessions -> Nat]
         /\ pending' \in [Sessions -> Transition]
  BY DEF Close, IInv, TypeOK, NewTarget, TargetRow, NoRun, Run, NoTransition,
     Transition, CheckStatus

LEMMA LoadTargetStep ==
  ASSUME IInv, NEW s \in Sessions, LoadTarget(s) PROVE IInv'
<1>1. TypeOK'
  <2>1. target \in TargetRow
    BY DEF IInv, TypeOK, LoadTarget
  <2>2. loaded' \in [Sessions -> TargetRow]
    BY <2>1 DEF IInv, TypeOK, LoadTarget
  <2>3. started' \in Nat /\ run' \in [Sessions -> Run]
    <3>1. started \in Nat /\ run \in [Sessions -> Run]
      BY DEF IInv, TypeOK
    <3>2. [id |-> started + 1, status |-> "pending"] \in Run
      BY <3>1 DEF Run, CheckStatus
    <3> QED BY <3>1, <3>2 DEF LoadTarget
  <2>4. pc' \in [Sessions -> {"idle", "checking", "recorded", "locked", "notifying"}]
    BY DEF IInv, TypeOK, LoadTarget
  <2> QED BY <2>2, <2>3, <2>4 DEF IInv, TypeOK, LoadTarget, rows, deletion
<1>2. LockExclusive' /\ TargetHeld'
  BY DEF IInv, TypeOK, LockExclusive, TargetHeld, LoadTarget, rows
<1>3. SeenOpen' /\ OneOpenIncident' /\ NoOrphanRows'
  BY DEF IInv, TypeOK, SeenOpen, OneOpenIncident, NoOrphanRows, OpenIncidents,
     LoadTarget, rows
<1> QED BY <1>1, <1>2, <1>3 DEF IInv

\* Every answer has a status.
LEMMA StatusOfTypes ==
  ASSUME NEW answer \in Answers PROVE StatusOf(answer) \in CheckStatus
  BY DEF HttpAnswers, StatusOf, CheckStatus

LEMMA RecordCheckStep ==
  ASSUME IInv, NEW s \in Sessions, RecordCheck(s) PROVE IInv'
<1>1. TypeOK'
  <2>1. run' \in [Sessions -> Run]
    <3>1. PICK answer \in Answers : run' = [run EXCEPT ![s].status = StatusOf(answer)]
      BY DEF RecordCheck
    <3>2. run \in [Sessions -> Run] /\ StatusOf(answer) \in CheckStatus
      BY StatusOfTypes DEF IInv, TypeOK
    <3>3. [run[s] EXCEPT !.status = StatusOf(answer)] \in Run
      BY <3>2 DEF Run
    <3> QED BY <3>1, <3>2, <3>3
  <2>2. pc' \in [Sessions -> {"idle", "checking", "recorded", "locked", "notifying"}]
    BY DEF IInv, TypeOK, RecordCheck
  <2> QED BY <2>1, <2>2 DEF IInv, TypeOK, RecordCheck, rows, deletion, history
<1>2. LockExclusive' /\ TargetHeld'
  BY DEF IInv, TypeOK, LockExclusive, TargetHeld, RecordCheck, rows
<1>3. SeenOpen' /\ OneOpenIncident' /\ NoOrphanRows'
  BY DEF IInv, TypeOK, SeenOpen, OneOpenIncident, NoOrphanRows, OpenIncidents,
     RecordCheck, rows
<1> QED BY <1>1, <1>2, <1>3 DEF IInv

LEMMA SelectOpenIncidentStep ==
  ASSUME IInv, NEW s \in Sessions, SelectOpenIncident(s) PROVE IInv'
<1>1. OpenIncidents \subseteq Nat \ {0}
  BY DEF OpenIncidents, IInv, TypeOK
<1>2. TypeOK'
  <2>1. seen' \in [Sessions -> Nat]
    <3>1. seen \in [Sessions -> Nat]
      BY DEF IInv, TypeOK
    <3>2. PICK i \in Nat : seen' = [seen EXCEPT ![s] = i]
      BY <1>1 DEF SelectOpenIncident
    <3> QED BY <3>1, <3>2
  <2>2. pc' \in [Sessions -> {"idle", "checking", "recorded", "locked", "notifying"}]
    BY DEF IInv, TypeOK, SelectOpenIncident
  <2> QED BY <2>1, <2>2 DEF IInv, TypeOK, SelectOpenIncident, rows, deletion, history
<1>3. LockExclusive' /\ TargetHeld'
  BY DEF IInv, TypeOK, LockExclusive, TargetHeld, SelectOpenIncident, RowLockFree, rows
<1>4. OpenIncidents' = OpenIncidents
  BY DEF SelectOpenIncident, OpenIncidents, rows
<1>5. SeenOpen'
  <2> SUFFICES ASSUME NEW t \in Sessions, pc'[t] = "locked"
               PROVE  OpenIncidents = IF seen'[t] = 0 THEN {} ELSE {seen'[t]}
    BY <1>4 DEF SeenOpen
  <2>1. t = s
    BY DEF SelectOpenIncident, RowLockFree, IInv, TypeOK
  <2>2. CASE OpenIncidents = {} /\ seen' = [seen EXCEPT ![s] = 0]
    BY <2>1, <2>2 DEF IInv, TypeOK
  <2>3. ASSUME NEW i \in OpenIncidents, seen' = [seen EXCEPT ![s] = i]
        PROVE  OpenIncidents = IF seen'[t] = 0 THEN {} ELSE {seen'[t]}
    <3>1. seen'[t] = i /\ i # 0
      BY <2>1, <2>3, <1>1 DEF IInv, TypeOK
    <3>2. OpenIncidents = {i}
      BY DEF IInv, OneOpenIncident
    <3> QED BY <3>1, <3>2
  <2> QED BY <2>2, <2>3 DEF SelectOpenIncident
<1>6. OneOpenIncident' /\ NoOrphanRows'
  BY <1>4 DEF IInv, OneOpenIncident, NoOrphanRows, SelectOpenIncident, rows
<1> QED BY <1>2, <1>3, <1>5, <1>6 DEF IInv

\* What every commit does, whatever it does to the incidents.
LEMMA CommitFacts ==
  ASSUME IInv, NEW s \in Sessions, CommitCheck(s)
  PROVE  /\ target' \in TargetRow
         /\ runs' \in SUBSET Run
         /\ log' \in Seq(Run)
         /\ deleting' \in {"idle", "children"} /\ delLocks' \in SUBSET Nat
         /\ started' \in Nat /\ handed' \in SUBSET Transition
         /\ Failures(s) \in Nat /\ Successes(s) \in Nat
         /\ run[s] \in Run
<1>1. target \in TargetRow /\ loaded[s] \in TargetRow /\ run[s] \in Run
  BY DEF IInv, TypeOK, TargetHeld, CommitCheck
<1>2. Failures(s) \in Nat /\ Successes(s) \in Nat
  BY <1>1 DEF Failures, Successes, TargetRow
<1>3. target' \in TargetRow
  <2>1. /\ Column(target.status, loaded[s].status, run[s].status) \in CheckStatus
        /\ Column(target.cf, loaded[s].cf, Failures(s)) \in Nat
        /\ Column(target.cs, loaded[s].cs, Successes(s)) \in Nat
    BY <1>1, <1>2 DEF Column, TargetRow, Run
  <2>2. target' = [target EXCEPT
          !.status = Column(target.status, loaded[s].status, run[s].status),
          !.cf = Column(target.cf, loaded[s].cf, Failures(s)),
          !.cs = Column(target.cs, loaded[s].cs, Successes(s))]
    BY DEF CommitCheck, FlushTarget
  <2> QED BY <1>1, <2>1, <2>2 DEF TargetRow
<1>4. runs' \in SUBSET Run /\ log' \in Seq(Run)
  BY <1>1 DEF IInv, TypeOK, CommitCheck
<1>5. /\ deleting' \in {"idle", "children"} /\ delLocks' \in SUBSET Nat
      /\ started' \in Nat /\ handed' \in SUBSET Transition
  BY DEF IInv, TypeOK, CommitCheck, deletion
<1> QED BY <1>1, <1>2, <1>3, <1>4, <1>5

\* The row of the open incident that a session selected.
LEMMA SeenFacts ==
  ASSUME IInv, NEW s \in Sessions, pc[s] = "locked", seen[s] # 0
  PROVE  /\ seen[s] \in DOMAIN incidents
         /\ incidents[seen[s]] \in Incident
         /\ incidents[seen[s]].status = "open"
         /\ OpenIncidents = {seen[s]}
<1>1. OpenIncidents = {seen[s]}
  BY DEF IInv, SeenOpen
<1> QED BY <1>1 DEF IInv, TypeOK, OpenIncidents

\* A transaction that ends with its lock leaves the locks of the others alone.
LEMMA EndOfLock ==
  ASSUME IInv, NEW s \in Sessions, pc[s] = "locked", target' \in TargetRow,
         NEW where \in {"idle", "notifying"}, pc' = [pc EXCEPT ![s] = where]
  PROVE  /\ pc' \in [Sessions -> {"idle", "checking", "recorded", "locked", "notifying"}]
         /\ LockExclusive' /\ TargetHeld' /\ SeenOpen' /\ NoOrphanRows'
<1>1. pc' \in [Sessions -> {"idle", "checking", "recorded", "locked", "notifying"}]
  BY DEF IInv, TypeOK
<1>2. \A t \in Sessions : pc'[t] # "locked"
  BY DEF IInv, TypeOK, LockExclusive
<1>3. target' # NoRow
  OBVIOUS
<1> QED BY <1>1, <1>2, <1>3 DEF LockExclusive, TargetHeld, SeenOpen, NoOrphanRows

LEMMA CommitQuietlyStep ==
  ASSUME IInv, NEW s \in Sessions, CommitQuietly(s) PROVE IInv'
<1>1. CommitCheck(s) /\ Close(s) /\ incidents' = incidents /\ pc[s] = "locked"
  BY DEF CommitQuietly, CommitCheck
<1>2. LockExclusive' /\ TargetHeld' /\ SeenOpen' /\ NoOrphanRows'
  BY <1>1, CommitFacts, EndOfLock DEF Close
<1>3. TypeOK'
  BY <1>1, CommitFacts, CloseTypes DEF TypeOK, IInv
<1>4. OneOpenIncident'
  BY <1>1 DEF IInv, OneOpenIncident, OpenIncidents
<1> QED BY <1>2, <1>3, <1>4 DEF IInv

\* Writing the open incident opens no other.
LEMMA UpdateFacts ==
  ASSUME IInv, NEW s \in Sessions, pc[s] = "locked", seen[s] # 0,
         NEW row \in Incident, UpdateIncident(s, row)
  PROVE  incidents' \in Seq(Incident) /\ OneOpenIncident'
<1>1. /\ incidents \in Seq(Incident)
      /\ incidents' = [incidents EXCEPT ![seen[s]] = row]
  BY DEF IInv, TypeOK, UpdateIncident
<1>2. OpenIncidents' \subseteq {seen[s]}
  BY <1>1, SeenFacts DEF OpenIncidents
<1>3. incidents' \in Seq(Incident)
  BY <1>1, SeenFacts, ExceptSeq
<1> QED BY <1>2, <1>3 DEF OneOpenIncident

LEMMA CommitRecoveringStep ==
  ASSUME IInv, NEW s \in Sessions, CommitRecovering(s) PROVE IInv'
<1> DEFINE row == [incidents[seen[s]] EXCEPT !.cs = Successes(s)]
<1>1. CommitCheck(s) /\ Close(s) /\ pc[s] = "locked" /\ seen[s] # 0 /\ UpdateIncident(s, row)
  BY DEF CommitRecovering, CommitCheck
<1>2. row \in Incident
  <2>1. incidents[seen[s]] \in Incident
    BY <1>1, SeenFacts
  <2>2. Successes(s) \in Nat
    BY <1>1, CommitFacts
  <2> QED BY <2>1, <2>2 DEF Incident
<1>3. incidents' \in Seq(Incident) /\ OneOpenIncident'
  BY <1>1, <1>2, UpdateFacts
<1>4. LockExclusive' /\ TargetHeld' /\ SeenOpen' /\ NoOrphanRows'
  BY <1>1, CommitFacts, EndOfLock DEF Close
<1>5. TypeOK'
  BY <1>1, <1>3, CommitFacts, CloseTypes DEF TypeOK
<1> QED BY <1>3, <1>4, <1>5 DEF IInv

LEMMA CommitStillFailingStep ==
  ASSUME IInv, NEW s \in Sessions, CommitStillFailing(s) PROVE IInv'
<1> DEFINE row == [incidents[seen[s]] EXCEPT !.last = run[s].id,
                                             !.cf = Failures(s), !.cs = 0]
<1>1. CommitCheck(s) /\ Close(s) /\ pc[s] = "locked" /\ seen[s] # 0 /\ UpdateIncident(s, row)
  BY DEF CommitStillFailing, CommitCheck
<1>2. row \in Incident
  <2>1. incidents[seen[s]] \in Incident
    BY <1>1, SeenFacts
  <2>2. run[s].id \in Nat /\ Failures(s) \in Nat
    BY <1>1, CommitFacts DEF Run
  <2> QED BY <2>1, <2>2 DEF Incident
<1>3. incidents' \in Seq(Incident) /\ OneOpenIncident'
  BY <1>1, <1>2, UpdateFacts
<1>4. LockExclusive' /\ TargetHeld' /\ SeenOpen' /\ NoOrphanRows'
  BY <1>1, CommitFacts, EndOfLock DEF Close
<1>5. TypeOK'
  BY <1>1, <1>3, CommitFacts, CloseTypes DEF TypeOK
<1> QED BY <1>3, <1>4, <1>5 DEF IInv

\* A session that keeps a transition stays well typed.
LEMMA KeepTypes ==
  ASSUME IInv, NEW s \in Sessions, NEW i \in Nat, NEW type \in {"opened", "resolved"},
         KeepTransition(s, i, type)
  PROVE  /\ pc' = [pc EXCEPT ![s] = "notifying"]
         /\ loaded' \in [Sessions -> TargetRow]
         /\ run' \in [Sessions -> Run]
         /\ seen' \in [Sessions -> Nat]
         /\ pending' \in [Sessions -> Transition]
<1>1. [incident |-> i, type |-> type] \in Transition
  BY DEF Transition
<1> QED BY <1>1 DEF KeepTransition, IInv, TypeOK

LEMMA CommitResolvedStep ==
  ASSUME IInv, NEW s \in Sessions, CommitResolved(s) PROVE IInv'
<1> DEFINE row == [incidents[seen[s]] EXCEPT !.cs = Successes(s), !.status = "resolved"]
<1>1. /\ CommitCheck(s) /\ pc[s] = "locked" /\ seen[s] # 0 /\ UpdateIncident(s, row)
      /\ KeepTransition(s, seen[s], "resolved")
  BY DEF CommitResolved, CommitCheck
<1>2. row \in Incident
  <2>1. incidents[seen[s]] \in Incident
    BY <1>1, SeenFacts
  <2>2. Successes(s) \in Nat
    BY <1>1, CommitFacts
  <2> QED BY <2>1, <2>2 DEF Incident
<1>3. incidents' \in Seq(Incident) /\ OneOpenIncident'
  BY <1>1, <1>2, UpdateFacts
<1>4. seen[s] \in Nat
  BY DEF IInv, TypeOK
<1>5. /\ LockExclusive' /\ TargetHeld' /\ SeenOpen' /\ NoOrphanRows'
      /\ pc' \in [Sessions -> {"idle", "checking", "recorded", "locked", "notifying"}]
  BY <1>1, <1>4, CommitFacts, EndOfLock, KeepTypes
<1>6. TypeOK'
  BY <1>1, <1>3, <1>4, <1>5, CommitFacts, KeepTypes DEF TypeOK
<1> QED BY <1>3, <1>5, <1>6 DEF IInv

LEMMA CommitOpenedStep ==
  ASSUME IInv, NEW s \in Sessions, CommitOpened(s) PROVE IInv'
<1>1. /\ CommitCheck(s) /\ pc[s] = "locked" /\ seen[s] = 0 /\ Create(s)
      /\ KeepTransition(s, Len(incidents) + 1, "opened")
  BY DEF CommitOpened, CommitCheck
<1>2. PICK row \in Incident : incidents' = Append(incidents, row)
  <2>1. PICK first \in RecentFailures(s) :
          incidents' = Append(incidents,
            [status |-> "open", first |-> first.id, last |-> run[s].id,
             cf |-> Failures(s), cs |-> 0])
    BY <1>1 DEF Create
  <2>2. first \in Run
    BY <1>1, CommitFacts DEF RecentFailures, IInv, TypeOK
  <2> QED BY <1>1, <2>1, <2>2, CommitFacts DEF Incident, Run
<1>3. incidents \in Seq(Incident) /\ Len(incidents) + 1 \in Nat
  BY DEF IInv, TypeOK
<1>4. incidents' \in Seq(Incident)
  BY <1>2, <1>3
<1>5. OneOpenIncident'
  <2>1. OpenIncidents = {}
    BY <1>1 DEF IInv, SeenOpen
  <2>2. OpenIncidents' \subseteq {Len(incidents) + 1}
    BY <1>2, <1>3, <2>1 DEF OpenIncidents
  <2> QED BY <2>2 DEF OneOpenIncident
<1>6. /\ LockExclusive' /\ TargetHeld' /\ SeenOpen' /\ NoOrphanRows'
      /\ pc' \in [Sessions -> {"idle", "checking", "recorded", "locked", "notifying"}]
  BY <1>1, <1>3, CommitFacts, EndOfLock, KeepTypes
<1>7. TypeOK'
  BY <1>1, <1>3, <1>4, <1>6, CommitFacts, KeepTypes DEF TypeOK
<1> QED BY <1>5, <1>6, <1>7 DEF IInv

\* A session that ends without writing a row.
LEMMA CloseStep ==
  ASSUME IInv, NEW s \in Sessions, Close(s), UNCHANGED <<rows, deletion, started, log>>,
         handed' \in SUBSET Transition
  PROVE  IInv'
<1>1. TypeOK'
  BY CloseTypes DEF IInv, TypeOK, rows, deletion
<1>2. /\ LockExclusive' /\ TargetHeld' /\ SeenOpen'
      /\ OneOpenIncident' /\ NoOrphanRows'
  BY DEF Close, IInv, TypeOK, LockExclusive, TargetHeld, SeenOpen, OpenIncidents,
     OneOpenIncident, NoOrphanRows, rows
<1> QED BY <1>1, <1>2 DEF IInv

LEMMA HandOverStep ==
  ASSUME IInv, NEW s \in Sessions, HandOver(s) PROVE IInv'
<1>1. handed' \in SUBSET Transition
  BY DEF HandOver, IInv, TypeOK
<1> QED BY <1>1, CloseStep DEF HandOver

LEMMA LostCheckStep ==
  ASSUME IInv, NEW s \in Sessions,
         ForeignKeyViolation(s) \/ CheckIsVictim(s) \/ Rollback(s) \/ RefreshRaises(s)
  PROVE  IInv'
<1>1. Close(s) /\ UNCHANGED <<rows, deletion, history>>
  BY DEF ForeignKeyViolation, CheckIsVictim, Rollback, RefreshRaises
<1>2. handed' \in SUBSET Transition
  BY <1>1 DEF IInv, TypeOK, history
<1> QED BY <1>1, <1>2, CloseStep DEF history

LEMMA CrashStep ==
  ASSUME IInv, Crash PROVE IInv'
<1>1. TypeOK'
  <2>1. NewTarget \in TargetRow /\ NoRun \in Run /\ NoTransition \in Transition
    BY DEF NewTarget, TargetRow, NoRun, Run, NoTransition, Transition, CheckStatus
  <2> QED BY <2>1 DEF Crash, IInv, TypeOK, rows, history
<1>2. \A s \in Sessions : pc'[s] = "idle"
  BY DEF Crash
<1>3. /\ LockExclusive' /\ TargetHeld' /\ SeenOpen'
      /\ OneOpenIncident' /\ NoOrphanRows'
  BY <1>2 DEF Crash, IInv, LockExclusive, TargetHeld, SeenOpen, OpenIncidents,
     OneOpenIncident, NoOrphanRows, rows
<1> QED BY <1>1, <1>3 DEF IInv

LEMMA DeletionStep ==
  ASSUME IInv, DeleteIsVictim \/ DeleteChildren PROVE IInv'
<1>1. UNCHANGED <<rows, session, history>>
  BY DEF DeleteIsVictim, DeleteChildren
<1>2. deleting' \in {"idle", "children"} /\ delLocks' \in SUBSET Nat
  BY DEF DeleteIsVictim, DeleteChildren, IInv, TypeOK
<1>3. TypeOK'
  BY <1>1, <1>2 DEF IInv, TypeOK, rows, session, history
<1>4. /\ LockExclusive' /\ TargetHeld' /\ SeenOpen'
      /\ OneOpenIncident' /\ NoOrphanRows'
  BY <1>1 DEF IInv, LockExclusive, TargetHeld, SeenOpen, OpenIncidents,
     OneOpenIncident, NoOrphanRows, rows, session
<1> QED BY <1>3, <1>4 DEF IInv

LEMMA DeleteTargetStep ==
  ASSUME IInv, DeleteTarget PROVE IInv'
<1>1. TypeOK'
  BY DEF DeleteTarget, IInv, TypeOK, session, history
<1>2. /\ LockExclusive' /\ TargetHeld' /\ SeenOpen'
      /\ OneOpenIncident' /\ NoOrphanRows'
  BY DEF DeleteTarget, IInv, LockExclusive, TargetHeld, SeenOpen, OpenIncidents,
     OneOpenIncident, NoOrphanRows, session
<1> QED BY <1>1, <1>2 DEF IInv

LEMMA PatchThresholdsStep ==
  ASSUME IInv, NEW ft \in FailureThresholds, NEW rt \in RecoveryThresholds,
         PatchThresholds(ft, rt)
  PROVE  IInv'
<1>1. target' \in TargetRow
  BY DEF PatchThresholds, IInv, TypeOK, TargetRow
<1>2. TypeOK'
  BY <1>1 DEF PatchThresholds, IInv, TypeOK, session, deletion, history
<1>3. /\ LockExclusive' /\ TargetHeld' /\ SeenOpen'
      /\ OneOpenIncident' /\ NoOrphanRows'
  BY <1>1 DEF PatchThresholds, IInv, LockExclusive, TargetHeld, SeenOpen,
     OpenIncidents, OneOpenIncident, NoOrphanRows, session
<1> QED BY <1>2, <1>3 DEF IInv

LEMMA PruneStep ==
  ASSUME IInv, NEW cutoff \in 1..MaxRuns + 1, Prune(cutoff) PROVE IInv'
<1>1. TypeOK'
  BY DEF Prune, IInv, TypeOK, session, deletion, history
<1>2. /\ LockExclusive' /\ TargetHeld' /\ SeenOpen'
      /\ OneOpenIncident' /\ NoOrphanRows'
  BY DEF Prune, IInv, LockExclusive, TargetHeld, SeenOpen, OpenIncidents,
     OneOpenIncident, NoOrphanRows, session
<1> QED BY <1>1, <1>2 DEF IInv

LEMMA NextIInv == IInv /\ [Next]_vars => IInv'
<1> SUFFICES ASSUME IInv, [Next]_vars PROVE IInv'
  OBVIOUS
<1>1. ASSUME NEW s \in Sessions, Step(s) PROVE IInv'
  <2>1. CASE LoadTarget(s)          BY <2>1, LoadTargetStep
  <2>2. CASE RecordCheck(s)         BY <2>2, RecordCheckStep
  <2>3. CASE SelectOpenIncident(s)  BY <2>3, SelectOpenIncidentStep
  <2>4. CASE CommitQuietly(s)       BY <2>4, CommitQuietlyStep
  <2>5. CASE CommitRecovering(s)    BY <2>5, CommitRecoveringStep
  <2>6. CASE CommitResolved(s)      BY <2>6, CommitResolvedStep
  <2>7. CASE CommitStillFailing(s)  BY <2>7, CommitStillFailingStep
  <2>8. CASE CommitOpened(s)        BY <2>8, CommitOpenedStep
  <2>9. CASE HandOver(s)            BY <2>9, HandOverStep
  <2>10. CASE ForeignKeyViolation(s) \/ CheckIsVictim(s) \/ Rollback(s) \/ RefreshRaises(s)
    BY <2>10, LostCheckStep
  <2> QED
    BY <1>1, <2>1, <2>2, <2>3, <2>4, <2>5, <2>6, <2>7, <2>8, <2>9, <2>10
    DEF Step, Commit
<1>2. CASE DeleteIsVictim \/ DeleteChildren  BY <1>2, DeletionStep
<1>3. CASE Crash                             BY <1>3, CrashStep
<1>4. CASE DeleteTarget                      BY <1>4, DeleteTargetStep
<1>5. ASSUME NEW ft \in FailureThresholds, NEW rt \in RecoveryThresholds,
             PatchThresholds(ft, rt)
      PROVE  IInv'
  BY <1>5, PatchThresholdsStep
<1>6. ASSUME NEW cutoff \in 1..MaxRuns + 1, Prune(cutoff) PROVE IInv'
  BY <1>6, PruneStep
<1>7. CASE UNCHANGED vars
  BY <1>7 DEF vars, rows, session, deletion, history, IInv, TypeOK, LockExclusive,
     TargetHeld, SeenOpen, OpenIncidents, OneOpenIncident, NoOrphanRows
<1> QED BY <1>1, <1>2, <1>3, <1>4, <1>5, <1>6, <1>7 DEF Next

LEMMA Invariance == Spec => []IInv
<1>1. Init => IInv
  BY InitIInv
<1>2. IInv /\ [Next]_vars => IInv'
  BY NextIInv
<1> QED BY <1>1, <1>2, PTL DEF Spec

\* Every variable keeps its type (all the rows and session locals of run_target).
THEOREM TypeCorrect == Spec => []TypeOK
<1>1. IInv => TypeOK
  BY DEF IInv
<1> QED BY <1>1, Invariance, PTL

\* However the checks of a target overlap, at most one of its incidents is open:
\* the row lock of get_open_by_target's autoflush is enough, without the partial
\* unique index.
THEOREM AtMostOneOpenIncident == Spec => []OneOpenIncident
<1>1. IInv => OneOpenIncident
  BY DEF IInv
<1> QED BY <1>1, Invariance, PTL

\* A committed DELETE leaves no row of the target, whatever checks are in flight.
THEOREM DeletionIsComplete == Spec => []NoOrphanRows
<1>1. IInv => NoOrphanRows
  BY DEF IInv
<1> QED BY <1>1, Invariance, PTL

-----------------------------------------------------------------------------
(* No counter exceeds the results that were committed, because what a       *)
(* session read did not, and its own result comes with its commit.          *)

ReadIsCommitted ==
  \A s \in Sessions : /\ loaded[s].cf <= Committed(Failing)
                      /\ loaded[s].cs <= Committed({"healthy"})

CInv == CountersNeverInvent /\ ReadIsCommitted

LEMMA CommittedType ==
  ASSUME log \in Seq(Run), NEW S
  PROVE  /\ Committed(S) \in Nat
         /\ IsFiniteSet({i \in DOMAIN log : log[i].status \in S})
<1>1. DOMAIN log = 1..Len(log) /\ Len(log) \in Nat
  OBVIOUS
<1>2. IsFiniteSet(DOMAIN log)
  BY <1>1, FS_Interval
<1>3. IsFiniteSet({i \in DOMAIN log : log[i].status \in S})
  BY <1>2, FS_Subset
<1> QED
  BY <1>3, FS_CardinalityType DEF Committed

\* A committed check counts once.
LEMMA CommittedGrows ==
  ASSUME log \in Seq(Run), NEW r \in Run, log' = Append(log, r), NEW S
  PROVE  Committed(S)' = Committed(S) + IF r.status \in S THEN 1 ELSE 0
<1> DEFINE D == {i \in DOMAIN log : log[i].status \in S}
           n == Len(log) + 1
<1>1. /\ DOMAIN log = 1..Len(log) /\ Len(log) \in Nat
      /\ DOMAIN log' = 1..n
      /\ \A i \in DOMAIN log : log'[i] = log[i]
      /\ log'[n] = r
  OBVIOUS
<1>2. IsFiniteSet(D) /\ n \notin D
  <2>1. IsFiniteSet(D)
    BY CommittedType
  <2>2. n \notin DOMAIN log
    BY <1>1
  <2> QED
    BY <2>1, <2>2
<1>3. D' = IF r.status \in S THEN D \union {n} ELSE D
  <2>1. DOMAIN log' = DOMAIN log \union {n}
    BY <1>1
  <2> QED
    BY <1>1, <2>1
<1>4. Cardinality(D') = Cardinality(D) + IF r.status \in S THEN 1 ELSE 0
  <2> HIDE DEF D, n
  <2>1. Cardinality(D) \in Nat
    BY <1>2, FS_CardinalityType
  <2>2. Cardinality(D \union {n}) = Cardinality(D) + 1
    BY <1>2, FS_AddElement
  <2> QED
    BY <1>3, <2>1, <2>2
<1> QED
  BY <1>4 DEF Committed

LEMMA InitCInv == Init => CInv
  BY CommittedType DEF Init, CInv, CountersNeverInvent, ReadIsCommitted, NewTarget

\* What a session writes to a counter counts only committed results, its own included.
LEMMA WrittenIsCommitted ==
  ASSUME IInv, CInv, NEW s \in Sessions, CommitCheck(s)
  PROVE  /\ Failures(s) <= Committed(Failing)' /\ Successes(s) <= Committed({"healthy"})'
         /\ Committed(Failing) <= Committed(Failing)'
         /\ Committed({"healthy"}) <= Committed({"healthy"})'
         /\ Committed(Failing)' \in Nat /\ Committed({"healthy"})' \in Nat
         /\ Committed(Failing) \in Nat /\ Committed({"healthy"}) \in Nat
<1>1. log \in Seq(Run) /\ run[s] \in Run /\ log' = Append(log, run[s])
  BY DEF IInv, TypeOK, CommitCheck
<1>2. \A S : /\ Committed(S)' = Committed(S) + IF run[s].status \in S THEN 1 ELSE 0
             /\ Committed(S) \in Nat
  BY <1>1, CommittedGrows, CommittedType
<1>3. loaded[s].cf \in Nat /\ loaded[s].cs \in Nat
  BY DEF IInv, TypeOK, TargetRow
<1>4. loaded[s].cf <= Committed(Failing) /\ loaded[s].cs <= Committed({"healthy"})
  BY DEF CInv, ReadIsCommitted
<1> HIDE DEF Committed
<1>5. Failures(s) <= Committed(Failing)'
  BY <1>2, <1>3, <1>4 DEF Failures, IsUp
<1>6. Successes(s) <= Committed({"healthy"})'
  BY <1>2, <1>3, <1>4 DEF Successes
<1> QED
  BY <1>2, <1>5, <1>6

LEMMA CommitCInv ==
  ASSUME IInv, CInv, NEW s \in Sessions, Commit(s) PROVE CInv'
<1>1. CommitCheck(s)
  BY DEF Commit, CommitQuietly, CommitRecovering, CommitResolved, CommitStillFailing,
     CommitOpened
<1> DEFINE F == Committed(Failing)
           H == Committed({"healthy"})
<1>2. /\ Failures(s) <= F' /\ Successes(s) <= H' /\ F <= F' /\ H <= H'
      /\ F \in Nat /\ H \in Nat /\ F' \in Nat /\ H' \in Nat
      /\ Failures(s) \in Nat /\ Successes(s) \in Nat
  BY <1>1, WrittenIsCommitted, CommitFacts
<1>3. pc[s] = "locked" /\ incidents \in Seq(Incident) /\ target \in TargetRow
  BY <1>1 DEF CommitCheck, IInv, TypeOK, TargetHeld
<1>4. target.cf <= F /\ target.cs <= H
  BY <1>3 DEF CInv, CountersNeverInvent
<1>5. \A i \in DOMAIN incidents : incidents[i].cf <= F /\ incidents[i].cs <= H
  BY DEF CInv, CountersNeverInvent
<1>6. \A t \in Sessions : loaded[t].cf <= F /\ loaded[t].cs <= H
  BY DEF CInv, ReadIsCommitted
<1>7. loaded \in [Sessions -> TargetRow] /\ incidents \in Seq(Incident)
  BY DEF IInv, TypeOK
<1> HIDE DEF F, H
<1>8. target'.cf <= F' /\ target'.cs <= H'
  <2>1. /\ target'.cf \in {target.cf, Failures(s)} /\ target'.cs \in {target.cs, Successes(s)}
    BY <1>1, <1>3 DEF CommitCheck, FlushTarget, Column, TargetRow
  <2>2. target.cf \in Nat /\ target.cs \in Nat
    BY <1>3 DEF TargetRow
  <2> QED
    BY <1>2, <1>4, <2>1, <2>2
<1>9. \A t \in Sessions : loaded'[t].cf <= F' /\ loaded'[t].cs <= H'
  <2>1. \A t \in Sessions : loaded'[t] \in {loaded[t], NewTarget}
    BY <1>7 DEF Commit, CommitQuietly, CommitRecovering, CommitResolved,
       CommitStillFailing, CommitOpened, Close, KeepTransition
  <2>2. \A t \in Sessions : /\ loaded[t].cf \in Nat /\ loaded'[t].cf \in {loaded[t].cf, 0}
                            /\ loaded[t].cs \in Nat /\ loaded'[t].cs \in {loaded[t].cs, 0}
    <3>1. NewTarget.cf = 0 /\ NewTarget.cs = 0
      BY DEF NewTarget
    <3> TAKE t \in Sessions
    <3>2. loaded[t] \in TargetRow
      BY <1>7
    <3>3. loaded[t].cf \in Nat /\ loaded[t].cs \in Nat
      BY <3>2 DEF TargetRow
    <3>4. loaded'[t] = loaded[t] \/ loaded'[t] = NewTarget
      BY <2>1
    <3> QED
      BY <3>1, <3>3, <3>4
  <2> QED
    BY <1>2, <1>6, <2>2
<1>10. \A i \in DOMAIN incidents' : incidents'[i].cf <= F' /\ incidents'[i].cs <= H'
  <2>1. \A i \in DOMAIN incidents' :
          \/ i \in DOMAIN incidents /\ incidents'[i] = incidents[i]
          \/ /\ \/ incidents'[i].cf = Failures(s)
                \/ i \in DOMAIN incidents /\ incidents'[i].cf = incidents[i].cf
             /\ incidents'[i].cs \in {Successes(s), 0}
    <3>1. CASE CommitQuietly(s)
      BY <3>1 DEF CommitQuietly
    <3>2. CASE CommitRecovering(s) \/ CommitResolved(s) \/ CommitStillFailing(s)
      <4>1. seen[s] \in DOMAIN incidents /\ incidents[seen[s]] \in Incident
        BY <1>3, <3>2, SeenFacts DEF CommitRecovering, CommitResolved, CommitStillFailing
      <4>2. ASSUME NEW row \in Incident, UpdateIncident(s, row),
                   row.cf \in {Failures(s), incidents[seen[s]].cf}, row.cs \in {Successes(s), 0}
            PROVE  \A i \in DOMAIN incidents' :
                     \/ i \in DOMAIN incidents /\ incidents'[i] = incidents[i]
                     \/ /\ \/ incidents'[i].cf = Failures(s)
                           \/ i \in DOMAIN incidents /\ incidents'[i].cf = incidents[i].cf
                        /\ incidents'[i].cs \in {Successes(s), 0}
        BY <4>1, <4>2 DEF UpdateIncident
      <4>3. run[s].id \in Nat
        BY <1>1, CommitFacts DEF Run
      <4>4. CASE CommitRecovering(s)
        <5> DEFINE row == [incidents[seen[s]] EXCEPT !.cs = Successes(s)]
        <5>1. row \in Incident /\ row.cf = incidents[seen[s]].cf /\ row.cs = Successes(s)
          BY <1>2, <4>1 DEF Incident
        <5>2. UpdateIncident(s, row)
          BY <4>4 DEF CommitRecovering
        <5> HIDE DEF row
        <5> QED
          BY <4>2, <5>1, <5>2
      <4>5. CASE CommitResolved(s)
        <5> DEFINE row == [incidents[seen[s]] EXCEPT !.cs = Successes(s), !.status = "resolved"]
        <5>1. row \in Incident /\ row.cf = incidents[seen[s]].cf /\ row.cs = Successes(s)
          BY <1>2, <4>1 DEF Incident
        <5>2. UpdateIncident(s, row)
          BY <4>5 DEF CommitResolved
        <5> HIDE DEF row
        <5> QED
          BY <4>2, <5>1, <5>2
      <4>6. CASE CommitStillFailing(s)
        <5> DEFINE row == [incidents[seen[s]] EXCEPT !.last = run[s].id,
                                                     !.cf = Failures(s), !.cs = 0]
        <5>1. row \in Incident /\ row.cf = Failures(s) /\ row.cs = 0
          BY <1>2, <4>1, <4>3 DEF Incident
        <5>2. UpdateIncident(s, row)
          BY <4>6 DEF CommitStillFailing
        <5> HIDE DEF row
        <5> QED
          BY <4>2, <5>1, <5>2
      <4> QED
        BY <3>2, <4>4, <4>5, <4>6
    <3>3. CASE CommitOpened(s)
      BY <1>7, <3>3 DEF CommitOpened, Create
    <3> QED
      BY <3>1, <3>2, <3>3 DEF Commit
  <2>2. \A i \in DOMAIN incidents : incidents[i].cf \in Nat /\ incidents[i].cs \in Nat
    <3> TAKE i \in DOMAIN incidents
    <3>1. incidents[i] \in Incident
      BY <1>7
    <3> QED
      BY <3>1 DEF Incident
  <2> QED
    <3> SUFFICES ASSUME NEW i \in DOMAIN incidents'
                 PROVE  incidents'[i].cf <= F' /\ incidents'[i].cs <= H'
      OBVIOUS
    <3>1. CASE i \in DOMAIN incidents /\ incidents'[i] = incidents[i]
      BY <1>2, <1>5, <2>2, <3>1
    <3>2. ASSUME \/ incidents'[i].cf = Failures(s)
                 \/ i \in DOMAIN incidents /\ incidents'[i].cf = incidents[i].cf
          PROVE  incidents'[i].cf <= F'
      BY <1>2, <1>5, <2>2, <3>2
    <3>3. ASSUME incidents'[i].cs \in {Successes(s), 0} PROVE incidents'[i].cs <= H'
      BY <1>2, <3>3
    <3> QED
      BY <2>1, <3>1, <3>2, <3>3
<1> QED
  BY <1>8, <1>9, <1>10 DEF CInv, CountersNeverInvent, ReadIsCommitted, F, H

\* A step that commits no check writes no counter.
LEMMA OtherCInv ==
  ASSUME IInv, CInv, [Next]_vars, \A s \in Sessions : ~ Commit(s) PROVE CInv'
<1>1. \A S : Committed(S)' = Committed(S) /\ Committed(S) \in Nat
  <2>1. log' = log
    BY DEF Next, Step, LoadTarget, RecordCheck, SelectOpenIncident, HandOver,
       ForeignKeyViolation, CheckIsVictim, Rollback, RefreshRaises, DeleteIsVictim, Crash, DeleteChildren,
       DeleteTarget, PatchThresholds, Prune, vars, history
  <2> QED
    BY <2>1, CommittedType DEF IInv, TypeOK, Committed
<1>2. \/ target' = NoRow
      \/ /\ target # NoRow /\ target'.cf = target.cf /\ target'.cs = target.cs
  <2>1. ASSUME NEW ft \in FailureThresholds, NEW rt \in RecoveryThresholds,
               PatchThresholds(ft, rt)
        PROVE  target # NoRow /\ target'.cf = target.cf /\ target'.cs = target.cs
    BY <2>1 DEF IInv, TypeOK, TargetRow, PatchThresholds
  <2>2. CASE target' = target \/ target' = NoRow
    BY <2>2
  <2> QED
    BY <2>1, <2>2 DEF Next, Step, LoadTarget, RecordCheck, SelectOpenIncident, HandOver,
       ForeignKeyViolation, CheckIsVictim, Rollback, RefreshRaises, DeleteIsVictim, Crash, DeleteChildren,
       DeleteTarget, Prune, vars, rows
<1>3. incidents' = incidents \/ incidents' = <<>>
  BY DEF Next, Step, LoadTarget, RecordCheck, SelectOpenIncident, HandOver,
     ForeignKeyViolation, CheckIsVictim, Rollback, RefreshRaises, DeleteIsVictim, Crash, DeleteChildren,
     DeleteTarget, PatchThresholds, Prune, vars, rows
<1>4. ASSUME NEW s \in Sessions
      PROVE  \/ loaded'[s] \in {loaded[s], NewTarget}
             \/ target # NoRow /\ loaded'[s] = target
  <2>1. loaded \in [Sessions -> TargetRow]
    BY DEF IInv, TypeOK
  <2>2. ASSUME NEW t \in Sessions, Close(t) PROVE loaded'[s] \in {loaded[s], NewTarget}
    BY <2>1, <2>2 DEF Close
  <2>3. ASSUME NEW t \in Sessions, LoadTarget(t)
        PROVE  loaded'[s] = loaded[s] \/ (target # NoRow /\ loaded'[s] = target)
    <3>1. target # NoRow /\ loaded' = [loaded EXCEPT ![t] = target]
      BY <2>3 DEF LoadTarget
    <3>2. CASE s = t
      BY <2>1, <3>1, <3>2
    <3>3. CASE s # t
      BY <2>1, <3>1, <3>3
    <3> QED
      BY <3>2, <3>3
  <2>4. CASE Crash
    BY <2>4 DEF Crash
  <2>5. CASE loaded' = loaded
    BY <2>5
  <2> QED
    BY <2>2, <2>3, <2>4, <2>5 DEF Next, Step, RecordCheck, SelectOpenIncident, HandOver,
       ForeignKeyViolation, CheckIsVictim, Rollback, RefreshRaises, DeleteIsVictim, DeleteChildren,
       DeleteTarget, PatchThresholds, Prune, vars, session
<1> HIDE DEF Committed
<1>5. CountersNeverInvent'
  BY <1>1, <1>2, <1>3 DEF CInv, CountersNeverInvent
<1>6. ReadIsCommitted'
  BY <1>1, <1>4 DEF CInv, CountersNeverInvent, ReadIsCommitted, NewTarget
<1> QED
  BY <1>5, <1>6 DEF CInv

\* However many checks overlap, no counter of the target or of an incident counts a
\* result that was not committed (apply_check_result).
THEOREM CountersAreHonest == Spec => []CountersNeverInvent
<1>1. IInv /\ CInv /\ [Next]_vars => CInv'
  BY CommitCInv, OtherCInv
<1>2. CInv => CountersNeverInvent
  BY DEF CInv
<1> QED
  BY <1>1, <1>2, InitCInv, Invariance, PTL DEF Spec
-----------------------------------------------------------------------------
(* No transition is handed over twice, because each one is a change of the  *)
(* ledger: what was announced is already in the incidents.                  *)

\* The bounds of the thresholds play no part from here on.
HIDE ThresholdsAssumption

Announced(transition) ==
  /\ transition.incident \in DOMAIN incidents
  /\ transition.type = "resolved" => incidents[transition.incident].status = "resolved"

AnnouncedOnly ==
  target # NoRow =>
    /\ \A transition \in handed : Announced(transition)
    /\ \A s \in Sessions : pc[s] = "notifying" => Announced(pending[s])

HInv == AnnouncedOnly /\ TransitionsHandedOnce

LEMMA InitHInv == Init => HInv
  BY DEF Init, HInv, AnnouncedOnly, TransitionsHandedOnce

\* A step that announces nothing and takes nothing back keeps HInv.
LEMMA SilentStep ==
  ASSUME IInv, HInv,
         \A i \in DOMAIN incidents : target' # NoRow =>
           /\ i \in DOMAIN incidents'
           /\ incidents[i].status = "resolved" => incidents'[i].status = "resolved",
         target' # NoRow => target # NoRow,
         handed' = handed,
         \A s \in Sessions : pc'[s] = "notifying" =>
           pc[s] = "notifying" /\ pending'[s] = pending[s]
  PROVE  HInv'
<1>1. AnnouncedOnly'
  BY DEF HInv, AnnouncedOnly, Announced
<1>2. TransitionsHandedOnce'
  BY DEF HInv, TransitionsHandedOnce
<1> QED BY <1>1, <1>2 DEF HInv

\* A commit that announces a change of the incidents keeps HInv.
LEMMA AnnouncingStep ==
  ASSUME IInv, HInv, NEW s \in Sessions, pc[s] = "locked",
         NEW transition \in Transition, ~ Announced(transition), Announced(transition)',
         \A i \in DOMAIN incidents :
           /\ i \in DOMAIN incidents'
           /\ incidents[i].status = "resolved" => incidents'[i].status = "resolved",
         handed' = handed,
         pc' = [pc EXCEPT ![s] = "notifying"],
         pending' = [pending EXCEPT ![s] = transition]
  PROVE  HInv'
<1>1. target # NoRow
  BY DEF IInv, TargetHeld
<1>2. pending'[s] = transition /\ \A t \in Sessions \ {s} : pending'[t] = pending[t]
  BY DEF IInv, TypeOK
<1>3. \A t \in Sessions \ {s} : pc'[t] = pc[t]
  BY DEF IInv, TypeOK
<1>4. AnnouncedOnly'
  <2> SUFFICES ASSUME target' # NoRow
               PROVE  /\ \A old \in handed : Announced(old)'
                      /\ \A t \in Sessions : pc'[t] = "notifying" => Announced(pending[t])'
    BY DEF AnnouncedOnly
  <2>1. \A old \in handed : Announced(old)'
    BY <1>1 DEF HInv, AnnouncedOnly, Announced
  <2>2. \A t \in Sessions : pc'[t] = "notifying" => Announced(pending[t])'
    BY <1>1, <1>2, <1>3 DEF HInv, AnnouncedOnly, Announced
  <2> QED BY <2>1, <2>2
<1>5. transition \notin handed
  BY <1>1 DEF HInv, AnnouncedOnly
<1>6. \A t \in Sessions \ {s} : pc[t] = "notifying" => pending[t] # transition
  BY <1>1 DEF HInv, AnnouncedOnly
<1>7. TransitionsHandedOnce'
  BY <1>2, <1>3, <1>5, <1>6 DEF HInv, TransitionsHandedOnce
<1> QED BY <1>4, <1>7 DEF HInv

LEMMA CommitHInv ==
  ASSUME IInv, HInv, NEW s \in Sessions, Commit(s) PROVE HInv'
<1>1. pc[s] = "locked" /\ handed' = handed /\ target # NoRow /\ seen[s] \in Nat
  BY DEF Commit, CommitQuietly, CommitRecovering, CommitResolved, CommitStillFailing,
     CommitOpened, CommitCheck, IInv, TypeOK, TargetHeld
<1>2. CASE CommitQuietly(s) \/ CommitRecovering(s) \/ CommitStillFailing(s)
  <2>1. \A t \in Sessions : pc'[t] = "notifying" => pc[t] = "notifying" /\ pending'[t] = pending[t]
    BY <1>2 DEF CommitQuietly, CommitRecovering, CommitStillFailing, Close, IInv, TypeOK
  <2>2. \A i \in DOMAIN incidents :
          /\ i \in DOMAIN incidents'
          /\ incidents[i].status = "resolved" => incidents'[i].status = "resolved"
    BY <1>1, <1>2, SeenFacts DEF CommitQuietly, CommitRecovering, CommitStillFailing,
       UpdateIncident
  <2> QED BY <1>1, <2>1, <2>2, SilentStep
<1>3. CASE CommitResolved(s)
  <2>1. PICK transition \in Transition : transition = [incident |-> seen[s], type |-> "resolved"]
    BY <1>1 DEF Transition
  <2>2. /\ pc' = [pc EXCEPT ![s] = "notifying"]
        /\ pending' = [pending EXCEPT ![s] = transition]
    BY <1>3, <2>1 DEF CommitResolved, KeepTransition
  <2>3. /\ seen[s] \in DOMAIN incidents /\ incidents[seen[s]] \in Incident
        /\ incidents[seen[s]].status = "open"
    BY <1>1, <1>3, SeenFacts DEF CommitResolved
  <2>4. incidents' = [incidents EXCEPT ![seen[s]] =
          [incidents[seen[s]] EXCEPT !.cs = Successes(s), !.status = "resolved"]]
    BY <1>3 DEF CommitResolved, UpdateIncident
  <2>5. \A i \in DOMAIN incidents :
          /\ i \in DOMAIN incidents'
          /\ incidents[i].status = "resolved" => incidents'[i].status = "resolved"
    BY <2>3, <2>4
  <2>6. ~ Announced(transition) /\ Announced(transition)'
    BY <2>3, <2>4, <2>1 DEF Announced, Incident
  <2> QED BY <1>1, <2>2, <2>5, <2>6, AnnouncingStep
<1>4. CASE CommitOpened(s)
  <2>1. incidents \in Seq(Incident) /\ Len(incidents) + 1 \in Nat
    BY DEF IInv, TypeOK
  <2>2. PICK transition \in Transition :
          transition = [incident |-> Len(incidents) + 1, type |-> "opened"]
    BY <2>1 DEF Transition
  <2>3. /\ pc' = [pc EXCEPT ![s] = "notifying"]
        /\ pending' = [pending EXCEPT ![s] = transition]
    BY <1>4, <2>2 DEF CommitOpened, KeepTransition
  <2>4. PICK row : incidents' = Append(incidents, row)
    BY <1>4 DEF CommitOpened, Create
  <2>5. /\ DOMAIN incidents = 1..Len(incidents) /\ DOMAIN incidents' = 1..Len(incidents) + 1
        /\ \A i \in DOMAIN incidents : incidents'[i] = incidents[i]
        /\ Len(incidents) \in Nat
    BY <2>4, <2>1
  <2>6. ~ Announced(transition) /\ Announced(transition)'
    BY <2>5, <2>2 DEF Announced
  <2>7. \A i \in DOMAIN incidents :
          /\ i \in DOMAIN incidents'
          /\ incidents[i].status = "resolved" => incidents'[i].status = "resolved"
    BY <2>5
  <2> QED BY <1>1, <2>3, <2>6, <2>7, AnnouncingStep
<1> QED BY <1>2, <1>3, <1>4 DEF Commit

LEMMA HandOverHInv ==
  ASSUME IInv, HInv, NEW s \in Sessions, HandOver(s) PROVE HInv'
<1>1. /\ pc[s] = "notifying" /\ incidents' = incidents /\ target' = target
      /\ pc'[s] = "idle"
      /\ \A t \in Sessions \ {s} : pc'[t] = pc[t] /\ pending'[t] = pending[t]
  BY DEF HandOver, Close, rows, IInv, TypeOK
<1>2. CASE target = NoRow
  BY <1>1, <1>2 DEF HandOver, HInv, AnnouncedOnly, TransitionsHandedOnce
<1>3. CASE target # NoRow
  <2>1. handed' = handed \union {pending[s]}
    BY <1>3 DEF HandOver
  <2>2. AnnouncedOnly'
    BY <1>1, <1>3, <2>1 DEF HInv, AnnouncedOnly, Announced
  <2>3. TransitionsHandedOnce'
    BY <1>1, <2>1 DEF HInv, TransitionsHandedOnce
  <2> QED BY <2>2, <2>3 DEF HInv
<1> QED BY <1>2, <1>3

LEMMA NextHInv == IInv /\ HInv /\ [Next]_vars => HInv'
<1> SUFFICES ASSUME IInv, HInv, [Next]_vars PROVE HInv'
  OBVIOUS
<1>1. ASSUME NEW s \in Sessions, Step(s) PROVE HInv'
  <2>1. CASE Commit(s)    BY <2>1, CommitHInv
  <2>2. CASE HandOver(s)  BY <2>2, HandOverHInv
  <2>3. CASE \/ LoadTarget(s) \/ RecordCheck(s) \/ SelectOpenIncident(s)
             \/ ForeignKeyViolation(s) \/ CheckIsVictim(s) \/ Rollback(s) \/ RefreshRaises(s)
    <3>1. UNCHANGED <<rows, handed>>
      BY <2>3 DEF LoadTarget, RecordCheck, SelectOpenIncident, ForeignKeyViolation,
         CheckIsVictim, Rollback, RefreshRaises, history
    <3>2. \A t \in Sessions : pc'[t] = "notifying" => pc[t] = "notifying" /\ pending'[t] = pending[t]
      BY <2>3 DEF LoadTarget, RecordCheck, SelectOpenIncident, ForeignKeyViolation,
         CheckIsVictim, Rollback, RefreshRaises, Close, IInv, TypeOK
    <3> QED BY <3>1, <3>2, SilentStep DEF rows
  <2> QED BY <1>1, <2>1, <2>2, <2>3 DEF Step
<1>2. CASE Crash
  <2>1. \A t \in Sessions : pc'[t] = "idle"
    BY <1>2 DEF Crash
  <2> QED BY <1>2, <2>1, SilentStep DEF Crash, rows, history
<1>3. CASE DeleteTarget
  BY <1>3, SilentStep DEF DeleteTarget, session, history
<1>4. ASSUME NEW ft \in FailureThresholds, NEW rt \in RecoveryThresholds,
             PatchThresholds(ft, rt)
      PROVE  HInv'
  BY <1>4, SilentStep DEF PatchThresholds, session, history
<1>5. ASSUME NEW cutoff \in 1..MaxRuns + 1, Prune(cutoff) PROVE HInv'
  BY <1>5, SilentStep DEF Prune, session, history
<1>6. CASE DeleteIsVictim \/ DeleteChildren \/ UNCHANGED vars
  <2>1. UNCHANGED <<rows, session, handed>>
    BY <1>6 DEF DeleteIsVictim, DeleteChildren, vars, history
  <2> QED BY <2>1, SilentStep DEF rows, session
<1> QED BY <1>1, <1>2, <1>3, <1>4, <1>5, <1>6 DEF Next

\* No two calls of run_target ever notify the same opening or resolution, which
\* notify_incident_transition relies on when it looks for an existing event.
THEOREM HandedOnce == Spec => []TransitionsHandedOnce
<1>1. Init => HInv
  BY InitHInv
<1>2. IInv /\ HInv /\ [Next]_vars => HInv'
  BY NextHInv
<1>3. HInv => TransitionsHandedOnce
  BY DEF HInv
<1> QED BY <1>1, <1>2, <1>3, Invariance, PTL DEF Spec

-----------------------------------------------------------------------------
(* What a step does to the transitions that the incidents show.            *)

\* A commit takes no transition back, and adds the one it keeps for later.
LEMMA CommitTransitions ==
  ASSUME IInv, NEW s \in Sessions, Commit(s), NEW t \in Transition
  PROVE  /\ Announced(t) => Announced(t)'
         /\ Announced(t)' => Announced(t) \/ (pc'[s] = "notifying" /\ pending'[s] = t)
<1>1. pc[s] = "locked" /\ seen[s] \in Nat
  BY DEF Commit, CommitQuietly, CommitRecovering, CommitResolved, CommitStillFailing,
     CommitOpened, CommitCheck, IInv, TypeOK
<1>2. CASE CommitQuietly(s)
  BY <1>2 DEF CommitQuietly, Announced
<1>3. CASE CommitRecovering(s) \/ CommitStillFailing(s)
  <2>1. /\ seen[s] \in DOMAIN incidents /\ incidents[seen[s]] \in Incident
        /\ incidents[seen[s]].status = "open"
    BY <1>1, <1>3, SeenFacts DEF CommitRecovering, CommitStillFailing
  <2>2. PICK row : /\ incidents' = [incidents EXCEPT ![seen[s]] = row]
                   /\ row.status = "open"
    BY <1>3, <2>1 DEF CommitRecovering, CommitStillFailing, UpdateIncident, Incident
  <2> QED
    BY <2>1, <2>2 DEF Announced, Incident
<1>4. CASE CommitResolved(s)
  <2>1. /\ seen[s] \in DOMAIN incidents /\ incidents[seen[s]] \in Incident
        /\ incidents[seen[s]].status = "open"
    BY <1>1, <1>4, SeenFacts DEF CommitResolved
  <2> DEFINE row == [incidents[seen[s]] EXCEPT !.cs = Successes(s), !.status = "resolved"]
  <2>2. incidents' = [incidents EXCEPT ![seen[s]] = row] /\ row.status = "resolved"
    BY <1>4, <2>1 DEF CommitResolved, UpdateIncident, Incident
  <2> HIDE DEF row
  <2>3. pc'[s] = "notifying" /\ pending'[s] = [incident |-> seen[s], type |-> "resolved"]
    BY <1>4 DEF CommitResolved, KeepTransition, IInv, TypeOK
  <2>4. t.incident # seen[s] => (Announced(t)' <=> Announced(t))
    BY <2>1, <2>2 DEF Announced
  <2>5. t.incident = seen[s] /\ t.type # "resolved" => Announced(t)
    BY <2>1 DEF Announced
  <2>6. t.incident = seen[s] => Announced(t)'
    BY <2>1, <2>2 DEF Announced
  <2>7. t.incident = seen[s] /\ t.type = "resolved" => t = [incident |-> seen[s], type |-> "resolved"]
    BY DEF Transition
  <2> QED
    BY <2>3, <2>4, <2>5, <2>6, <2>7
<1>5. CASE CommitOpened(s)
  <2>1. incidents \in Seq(Incident) /\ Len(incidents) \in Nat
    BY DEF IInv, TypeOK
  <2>2. PICK row \in [status : {"open"}, first : Nat, last : Nat, cf : Nat, cs : Nat] :
          incidents' = Append(incidents, row)
    <3>1. PICK first \in RecentFailures(s) :
            incidents' = Append(incidents,
              [status |-> "open", first |-> first.id, last |-> run[s].id,
               cf |-> Failures(s), cs |-> 0])
      BY <1>5 DEF CommitOpened, Create
    <3>2. /\ first.id \in Nat /\ run[s].id \in Nat /\ Failures(s) \in Nat
      BY <1>5, <3>1, CommitFacts DEF CommitOpened, RecentFailures, IInv, TypeOK, Run
    <3> QED
      BY <3>1, <3>2
  <2>3. /\ DOMAIN incidents = 1..Len(incidents) /\ DOMAIN incidents' = 1..Len(incidents) + 1
        /\ \A i \in DOMAIN incidents : incidents'[i] = incidents[i]
        /\ incidents'[Len(incidents) + 1].status = "open"
    BY <2>1, <2>2
  <2>4. /\ pc'[s] = "notifying"
        /\ pending'[s] = [incident |-> Len(incidents) + 1, type |-> "opened"]
    BY <1>5 DEF CommitOpened, KeepTransition, IInv, TypeOK
  <2>5. t.incident = Len(incidents) + 1 /\ t.type = "opened" =>
          t = [incident |-> Len(incidents) + 1, type |-> "opened"]
    BY DEF Transition
  <2>6. t.type \in {"opened", "resolved"}
    BY DEF Transition
  <2> QED
    BY <2>1, <2>3, <2>4, <2>5, <2>6 DEF Announced
<1> QED
  BY <1>2, <1>3, <1>4, <1>5 DEF Commit

\* The transition that a commit goes on to notify is one that was not shown before.
LEMMA CommitIsNew ==
  ASSUME IInv, NEW s \in Sessions, Commit(s), pc'[s] = "notifying", NEW t, pending'[s] = t
  PROVE  target # NoRow /\ ~ Announced(t)
<1>1. pc[s] = "locked" /\ target # NoRow /\ seen[s] \in Nat
  BY DEF Commit, CommitQuietly, CommitRecovering, CommitResolved, CommitStillFailing,
     CommitOpened, CommitCheck, IInv, TypeOK, TargetHeld
<1>2. CASE CommitQuietly(s) \/ CommitRecovering(s) \/ CommitStillFailing(s)
  BY <1>2 DEF CommitQuietly, CommitRecovering, CommitStillFailing, Close, IInv, TypeOK
<1>3. CASE CommitResolved(s)
  <2>1. incidents[seen[s]].status = "open"
    BY <1>1, <1>3, SeenFacts DEF CommitResolved
  <2>2. t = [incident |-> seen[s], type |-> "resolved"]
    BY <1>3 DEF CommitResolved, KeepTransition, IInv, TypeOK
  <2> QED
    BY <1>1, <2>1, <2>2 DEF Announced
<1>4. CASE CommitOpened(s)
  <2>1. t = [incident |-> Len(incidents) + 1, type |-> "opened"]
    BY <1>4 DEF CommitOpened, KeepTransition, IInv, TypeOK
  <2>2. DOMAIN incidents = 1..Len(incidents) /\ Len(incidents) \in Nat
    BY DEF IInv, TypeOK
  <2> QED
    BY <1>1, <2>1, <2>2 DEF Announced
<1> QED
  BY <1>2, <1>3, <1>4 DEF Commit

\* While the target exists nothing but a commit changes its transitions.
LEMMA NextTransitions ==
  ASSUME IInv, [Next]_vars, NEW t \in Transition, target' # NoRow
  PROVE  /\ target # NoRow
         /\ Announced(t) => Announced(t)'
         /\ Announced(t)' => \/ Announced(t)
                             \/ \E s \in Sessions : pc'[s] = "notifying" /\ pending'[s] = t
<1>1. ASSUME NEW s \in Sessions, Commit(s)
      PROVE  target # NoRow
  BY <1>1 DEF Commit, CommitQuietly, CommitRecovering, CommitResolved, CommitStillFailing,
     CommitOpened, CommitCheck, IInv, TargetHeld
<1>2. ASSUME NEW s \in Sessions, Commit(s)
      PROVE  /\ Announced(t) => Announced(t)'
             /\ Announced(t)' => \/ Announced(t)
                                 \/ \E u \in Sessions : pc'[u] = "notifying" /\ pending'[u] = t
  BY <1>2, CommitTransitions
<1>3. CASE DeleteTarget
  BY <1>3 DEF DeleteTarget
<1>4. CASE incidents' = incidents /\ (target' = target \/ target # NoRow)
  BY <1>4 DEF Announced
<1> QED
  BY <1>1, <1>2, <1>3, <1>4 DEF Next, Step, LoadTarget, RecordCheck, SelectOpenIncident,
     HandOver, ForeignKeyViolation, CheckIsVictim, Rollback, RefreshRaises, DeleteIsVictim, Crash,
     DeleteChildren, PatchThresholds, Prune, vars, rows

-----------------------------------------------------------------------------
(* The last check of an incident is one that failed, because no two checks  *)
(* have the same id: what a message about the opening is rebuilt from.      *)

\* A check in flight has an id of its own.
OwnId(s) ==
  /\ run[s].id \in 1..started
  /\ \A r \in runs : r.id # run[s].id
  /\ \A i \in DOMAIN incidents : incidents[i].last # run[s].id
  /\ \A t \in Active \ {s} : run[t].id # run[s].id

OwnIds == \A s \in Active : OwnId(s)

StartedIds ==
  /\ \A r \in runs : r.id <= started
  /\ \A i \in DOMAIN incidents : incidents[i].last <= started

LastFailed ==
  \A r \in runs, i \in DOMAIN incidents :
    r.id = incidents[i].last => r.status \in Failing

OpeningFailed ==
  \A s \in Sessions :
    pc[s] = "notifying" /\ pending[s].type = "opened" => run[s].status \in Failing

RunsInv == OwnIds /\ StartedIds /\ LastFailed /\ OpeningFailed

LEMMA InitRunsInv == Init => RunsInv
  BY DEF Init, RunsInv, OwnIds, StartedIds, LastFailed, OpeningFailed, Active

\* A step that starts no check and writes none.
LEMMA QuietRuns ==
  ASSUME RunsInv, runs' \subseteq runs, started' = started,
         incidents' \in {incidents, <<>>},
         \A s \in Sessions : pc'[s] \in {"checking", "recorded", "locked"} =>
           pc[s] \in {"checking", "recorded", "locked"} /\ run'[s].id = run[s].id,
         \A s \in Sessions : pc'[s] = "notifying" =>
           pc[s] = "notifying" /\ pending'[s] = pending[s] /\ run'[s] = run[s]
  PROVE  RunsInv'
<1>1. DOMAIN incidents' \subseteq DOMAIN incidents
      /\ \A i \in DOMAIN incidents' : incidents'[i] = incidents[i]
  OBVIOUS
<1>2. Active' \subseteq Active /\ \A s \in Active' : run'[s].id = run[s].id
  BY DEF Active
<1>3. OwnIds'
  BY <1>1, <1>2 DEF RunsInv, OwnIds, OwnId
<1>4. StartedIds' /\ LastFailed'
  BY <1>1 DEF RunsInv, StartedIds, LastFailed
<1>5. OpeningFailed'
  BY DEF RunsInv, OpeningFailed
<1> QED
  BY <1>3, <1>4, <1>5 DEF RunsInv

LEMMA LoadTargetRuns ==
  ASSUME IInv, RunsInv, NEW s \in Sessions, LoadTarget(s) PROVE RunsInv'
<1>1. /\ started \in Nat /\ started' = started + 1
      /\ runs' = runs /\ incidents' = incidents /\ pending' = pending
      /\ run'[s].id = started + 1
      /\ \A t \in Sessions \ {s} : run'[t] = run[t] /\ pc'[t] = pc[t]
      /\ pc'[s] = "checking"
  BY DEF LoadTarget, rows, IInv, TypeOK
<1>2. /\ \A r \in runs : r.id \in Nat /\ r.id <= started
      /\ \A i \in DOMAIN incidents : incidents[i].last \in Nat /\ incidents[i].last <= started
  <2>1. \A i \in DOMAIN incidents : incidents[i] \in Incident
    BY DEF IInv, TypeOK
  <2> QED
    BY <2>1 DEF RunsInv, StartedIds, IInv, TypeOK, Run, Incident
<1>3. \A t \in Active' \ {s} : t \in Active
  BY <1>1 DEF Active
<1>4. StartedIds'
  BY <1>1, <1>2 DEF StartedIds
<1>5. OwnIds'
  <2>1. \A t \in Active' \ {s} : run[t].id \in 1..started
    BY <1>3 DEF RunsInv, OwnIds, OwnId
  <2>2. OwnId(s)'
    BY <1>1, <1>2, <2>1 DEF OwnId, Active
  <2>3. ASSUME NEW t \in Active', t # s PROVE OwnId(t)'
    <3>1. OwnId(t) /\ run'[t].id = run[t].id
      BY <1>1, <1>3, <2>3 DEF RunsInv, OwnIds, Active
    <3> QED
      BY <1>1, <1>3, <2>1, <3>1, <2>3 DEF OwnId, Active
  <2> QED
    BY <2>2, <2>3 DEF OwnIds
<1>6. LastFailed' /\ OpeningFailed'
  BY <1>1 DEF RunsInv, LastFailed, OpeningFailed
<1> QED
  BY <1>4, <1>5, <1>6 DEF RunsInv

\* A commit adds the session's own check, and may make it the last of an incident.
LEMMA WrittenRuns ==
  ASSUME IInv, RunsInv, NEW s \in Sessions, pc[s] = "locked",
         runs' = runs \union {run[s]}, started' = started,
         \A i \in DOMAIN incidents' :
           \/ i \in DOMAIN incidents /\ incidents'[i].last = incidents[i].last
           \/ incidents'[i].last = run[s].id /\ run[s].status \in Failing,
         pc'[s] = "idle"
           \/ (pc'[s] = "notifying" /\ run'[s] = run[s]
               /\ (pending'[s].type = "opened" => run[s].status \in Failing)),
         \A t \in Sessions \ {s} :
           pc'[t] = pc[t] /\ run'[t] = run[t] /\ pending'[t] = pending[t]
  PROVE  RunsInv'
<1>1. s \in Active /\ OwnId(s) /\ started \in Nat
  BY DEF RunsInv, OwnIds, Active, IInv, TypeOK
<1>2. \A t \in Active' : t # s /\ t \in Active /\ run'[t] = run[t] /\ OwnId(t)
  BY DEF Active, RunsInv, OwnIds
<1>3. ASSUME NEW t \in Active' PROVE OwnId(t)'
  <2>1. t # s /\ t \in Active /\ run'[t] = run[t] /\ OwnId(t) /\ run[t].id # run[s].id
    BY <1>1, <1>2 DEF OwnId
  <2>2. run'[t].id \in 1..started'
    BY <2>1 DEF OwnId
  <2>3. \A r \in runs' : r.id # run'[t].id
    BY <2>1 DEF OwnId
  <2>4. \A i \in DOMAIN incidents' : incidents'[i].last # run'[t].id
    BY <2>1 DEF OwnId
  <2>5. \A u \in Active' \ {t} : run'[u].id # run'[t].id
    BY <1>2, <2>1 DEF OwnId
  <2> QED
    BY <2>2, <2>3, <2>4, <2>5 DEF OwnId
<1>4. OwnIds'
  BY <1>3 DEF OwnIds
<1>5. StartedIds'
  <2>1. run[s].id <= started
    BY <1>1 DEF OwnId
  <2> QED
    BY <2>1 DEF RunsInv, StartedIds
<1>6. LastFailed'
  BY <1>1 DEF RunsInv, LastFailed, OwnId
<1>7. OpeningFailed'
  BY DEF RunsInv, OpeningFailed
<1> QED
  BY <1>4, <1>5, <1>6, <1>7 DEF RunsInv

LEMMA CommitRuns ==
  ASSUME IInv, RunsInv, NEW s \in Sessions, Commit(s) PROVE RunsInv'
<1>1. CommitCheck(s)
  BY DEF Commit, CommitQuietly, CommitRecovering, CommitResolved, CommitStillFailing,
     CommitOpened
<1>2. /\ pc[s] = "locked" /\ runs' = runs \union {run[s]} /\ started' = started
      /\ run[s] \in Run /\ incidents \in Seq(Incident)
      /\ Failures(s) \in Nat /\ Successes(s) \in Nat
  BY <1>1, CommitFacts DEF CommitCheck, IInv, TypeOK
<1>3. /\ pc \in [Sessions -> {"idle", "checking", "recorded", "locked", "notifying"}]
      /\ run \in [Sessions -> Run] /\ pending \in [Sessions -> Transition]
  BY DEF IInv, TypeOK
<1>4. \A t \in Sessions \ {s} : pc'[t] = pc[t] /\ run'[t] = run[t] /\ pending'[t] = pending[t]
  BY <1>3 DEF Commit, CommitQuietly, CommitRecovering, CommitResolved, CommitStillFailing,
     CommitOpened, Close, KeepTransition
<1>5. \/ pc'[s] = "idle"
      \/ /\ pc'[s] = "notifying" /\ run'[s] = run[s]
         /\ pending'[s].type = "opened" => run[s].status \in Failing
  BY <1>3 DEF Commit, CommitQuietly, CommitRecovering, CommitResolved, CommitStillFailing,
     CommitOpened, Close, KeepTransition, Opens, IsUp
<1>6. \A i \in DOMAIN incidents' :
        \/ i \in DOMAIN incidents /\ incidents'[i].last = incidents[i].last
        \/ incidents'[i].last = run[s].id /\ run[s].status \in Failing
  <2>1. CASE CommitQuietly(s)
    BY <2>1 DEF CommitQuietly
  <2>2. CASE CommitRecovering(s) \/ CommitResolved(s) \/ CommitStillFailing(s)
    <3>1. seen[s] \in DOMAIN incidents /\ incidents[seen[s]] \in Incident
      BY <1>2, <2>2, SeenFacts DEF CommitRecovering, CommitResolved, CommitStillFailing
    <3>2. CASE CommitRecovering(s) \/ CommitResolved(s)
      <4>1. PICK row : /\ incidents' = [incidents EXCEPT ![seen[s]] = row]
                       /\ row.last = incidents[seen[s]].last
        BY <3>1, <3>2 DEF CommitRecovering, CommitResolved, UpdateIncident, Incident
      <4> QED
        BY <3>1, <4>1
    <3>3. CASE CommitStillFailing(s)
      BY <1>2, <3>1, <3>3 DEF CommitStillFailing, UpdateIncident, Incident, IsUp
    <3> QED
      BY <2>2, <3>2, <3>3
  <2>3. CASE CommitOpened(s)
    BY <1>2, <2>3 DEF CommitOpened, Create, Opens, IsUp
  <2> QED
    BY <2>1, <2>2, <2>3 DEF Commit
<1> QED
  BY <1>2, <1>4, <1>5, <1>6, WrittenRuns

LEMMA NextRunsInv == IInv /\ RunsInv /\ [Next]_vars => RunsInv'
<1> SUFFICES ASSUME IInv, RunsInv, [Next]_vars PROVE RunsInv'
  OBVIOUS
<1>1. /\ pc \in [Sessions -> {"idle", "checking", "recorded", "locked", "notifying"}]
      /\ run \in [Sessions -> Run] /\ pending \in [Sessions -> Transition]
  BY DEF IInv, TypeOK
<1>2. ASSUME NEW s \in Sessions, Close(s), runs' = runs, incidents' = incidents,
             started' = started
      PROVE  RunsInv'
  BY <1>1, <1>2, QuietRuns DEF Close
<1>3. ASSUME NEW s \in Sessions, RecordCheck(s) \/ SelectOpenIncident(s) PROVE RunsInv'
  <2>1. \A t \in Sessions : pc'[t] \in {"checking", "recorded", "locked"} =>
          pc[t] \in {"checking", "recorded", "locked"} /\ run'[t].id = run[t].id
    BY <1>1, <1>3 DEF RecordCheck, SelectOpenIncident, Run
  <2>2. \A t \in Sessions : pc'[t] = "notifying" =>
          pc[t] = "notifying" /\ pending'[t] = pending[t] /\ run'[t] = run[t]
    BY <1>1, <1>3 DEF RecordCheck, SelectOpenIncident
  <2> QED
    BY <1>3, <2>1, <2>2, QuietRuns DEF RecordCheck, SelectOpenIncident, rows, history
<1>4. ASSUME NEW s \in Sessions, Step(s) PROVE RunsInv'
  BY <1>2, <1>3, <1>4, LoadTargetRuns, CommitRuns
     DEF Step, HandOver, ForeignKeyViolation, CheckIsVictim, Rollback, RefreshRaises, rows, history
<1>5. CASE Crash
  BY <1>5, QuietRuns DEF Crash, rows, history
<1>6. CASE \/ DeleteIsVictim \/ DeleteChildren \/ DeleteTarget \/ UNCHANGED vars
           \/ \E ft \in FailureThresholds, rt \in RecoveryThresholds : PatchThresholds(ft, rt)
           \/ \E cutoff \in 1..MaxRuns + 1 : Prune(cutoff)
  <2>1. /\ UNCHANGED <<session, started>> /\ runs' \subseteq runs
        /\ incidents' \in {incidents, <<>>}
    BY <1>6 DEF DeleteIsVictim, DeleteChildren, DeleteTarget, PatchThresholds, Prune, vars,
       rows, history
  <2> QED
    BY <2>1, QuietRuns DEF session
<1> QED
  BY <1>4, <1>5, <1>6 DEF Next
=============================================================================
