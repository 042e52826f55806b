----------------------- MODULE TargetChecksRefinement -----------------------
(***************************************************************************)
(* The incidents of a target implement IncidentLedger, however its checks  *)
(* overlap.                                                                *)
(*                                                                         *)
(* Where they do not (ChecksDoNotOverlap, an assumption about the whole    *)
(* behaviour that any number of sessions can meet), the rows follow the    *)
(* results: last_status is the latest one, the counters are the lengths of *)
(* the streaks the results end with, an incident starts in the streak that *)
(* opened it, and, with the thresholds of the settings, the incidents      *)
(* implement IncidentPolicy.                                               *)
(***************************************************************************)
EXTENDS TargetChecksProofs

Statuses == [i \in DOMAIN incidents |-> incidents[i].status]

LEMMA LedgerSame ==
  ASSUME incidents' = incidents PROVE Statuses' = Statuses
  BY DEF Statuses

\* Writing the open incident keeps its status or resolves it.
LEMMA LedgerUpdate ==
  ASSUME IInv, NEW s \in Sessions, pc[s] = "locked", seen[s] # 0,
         NEW row \in Incident, UpdateIncident(s, row)
  PROVE  /\ row.status = "open" => Statuses' = Statuses
         /\ row.status = "resolved" => Ledger!Resolve
<1>1. /\ incidents \in Seq(Incident)
      /\ incidents' = [incidents EXCEPT ![seen[s]] = row]
  BY DEF IInv, TypeOK, UpdateIncident
<1>2. Statuses' = [Statuses EXCEPT ![seen[s]] = row.status]
  BY <1>1, SeenFacts DEF Statuses
<1>3. seen[s] \in DOMAIN Statuses /\ Statuses[seen[s]] = "open"
  BY SeenFacts DEF Statuses
<1>4. row.status = "open" => Statuses' = Statuses
  BY <1>2, <1>3 DEF Statuses
<1>5. row.status = "resolved" => Ledger!Resolve
  BY <1>2, <1>3 DEF Ledger!Resolve, Statuses
<1> QED BY <1>4, <1>5

LEMMA LedgerOpen ==
  ASSUME IInv, NEW s \in Sessions, CommitOpened(s) PROVE Ledger!Open
<1>1. PICK first \in RecentFailures(s) :
        incidents' = Append(incidents,
          [status |-> "open", first |-> first.id, last |-> run[s].id,
           cf |-> Failures(s), cs |-> 0])
  BY DEF CommitOpened, Create
<1>2. incidents \in Seq(Incident) /\ OpenIncidents = {}
  BY DEF IInv, TypeOK, SeenOpen, CommitOpened, CommitCheck
<1>3. \A i \in DOMAIN incidents : incidents[i].status \in {"open", "resolved"}
  <2> TAKE i \in DOMAIN incidents
  <2>1. incidents[i] \in Incident
    BY <1>2
  <2> QED BY <2>1 DEF Incident
<1>4. \A i \in DOMAIN Statuses : Statuses[i] = "resolved"
  BY <1>2, <1>3 DEF Statuses, OpenIncidents
<1>5. DOMAIN Statuses = 1..Len(incidents) /\ Len(incidents) \in Nat
  BY <1>2 DEF Statuses
<1>6. Statuses \in Seq({"open", "resolved"}) /\ Len(Statuses) = Len(incidents)
  BY <1>2, <1>3, <1>5 DEF Statuses
<1>7. Statuses' = Append(Statuses, "open")
  BY <1>1, <1>2, <1>6 DEF Statuses
<1> QED BY <1>4, <1>7 DEF Ledger!Open, Statuses

LEMMA LedgerInit == Init => Ledger!Init
  BY DEF Init, Ledger!Init

LEMMA LedgerNext == IInv /\ [Next]_vars => [Ledger!Next]_Statuses
<1> SUFFICES ASSUME IInv, [Next]_vars
             PROVE  Ledger!Next \/ Statuses' = Statuses
  OBVIOUS
<1>1. ASSUME NEW s \in Sessions, Commit(s)
      PROVE  Ledger!Next \/ Statuses' = Statuses
  <2>1. CASE CommitQuietly(s)
    BY <2>1, LedgerSame DEF CommitQuietly
  <2>2. CASE CommitRecovering(s)
    <3> DEFINE row == [incidents[seen[s]] EXCEPT !.cs = Successes(s)]
    <3>1. CommitCheck(s) /\ pc[s] = "locked" /\ seen[s] # 0 /\ UpdateIncident(s, row)
      BY <2>2 DEF CommitRecovering, CommitCheck
    <3>2. row \in Incident /\ row.status = "open"
      BY <3>1, SeenFacts, CommitFacts DEF Incident
    <3> QED BY <3>1, <3>2, LedgerUpdate
  <2>3. CASE CommitResolved(s)
    <3> DEFINE row == [incidents[seen[s]] EXCEPT !.cs = Successes(s),
                                                 !.status = "resolved"]
    <3>1. CommitCheck(s) /\ pc[s] = "locked" /\ seen[s] # 0 /\ UpdateIncident(s, row)
      BY <2>3 DEF CommitResolved, CommitCheck
    <3>2. row \in Incident /\ row.status = "resolved"
      BY <3>1, SeenFacts, CommitFacts DEF Incident
    <3> QED BY <3>1, <3>2, LedgerUpdate DEF Ledger!Next
  <2>4. CASE CommitStillFailing(s)
    <3> DEFINE row == [incidents[seen[s]] EXCEPT !.last = run[s].id,
                                                 !.cf = Failures(s), !.cs = 0]
    <3>1. CommitCheck(s) /\ pc[s] = "locked" /\ seen[s] # 0 /\ UpdateIncident(s, row)
      BY <2>4 DEF CommitStillFailing, CommitCheck
    <3>2. row \in Incident /\ row.status = "open"
      BY <3>1, SeenFacts, CommitFacts DEF Incident, Run
    <3> QED BY <3>1, <3>2, LedgerUpdate
  <2>5. CASE CommitOpened(s)
    BY <2>5, LedgerOpen DEF Ledger!Next
  <2> QED BY <1>1, <2>1, <2>2, <2>3, <2>4, <2>5 DEF Commit
<1>2. CASE DeleteTarget
  <2>1. incidents' = <<>>
    BY <1>2 DEF DeleteTarget
  <2> QED BY <2>1 DEF Ledger!Next, Ledger!Erase
<1>3. CASE incidents' = incidents
  BY <1>3, LedgerSame
<1> QED
  BY <1>1, <1>2, <1>3 DEF Next, Step, LoadTarget, RecordCheck, SelectOpenIncident,
     HandOver, ForeignKeyViolation, CheckIsVictim, Rollback, RefreshRaises, DeleteIsVictim, Crash,
     DeleteChildren, PatchThresholds, Prune, vars, rows

\* The incidents of a target are a ledger, whatever the sessions and thresholds
\* are: opened one at a time, resolved once, never reopened (apply_check_result).
THEOREM LedgerRefinement == Spec => ImplementsLedger
<1>1. Init => Ledger!Init
  BY LedgerInit
<1>2. IInv /\ [Next]_vars => [Ledger!Next]_Statuses
  BY LedgerNext
<1> QED BY <1>1, <1>2, Invariance, PTL DEF Spec, ImplementsLedger, Ledger!Spec, Statuses

-----------------------------------------------------------------------------
(* Checks that do not overlap.  A session then reads what it goes on to     *)
(* overwrite (ReadIsCurrent), so the row is up to date with the results:    *)
(* last_status is the last of them and each counter is the length of the    *)
(* streak they end with (RowFollowsResults).                                *)

\* At most one check of the target is between session.get and its commit; the
\* hand-over of its transition may overlap with the next check.
ChecksDoNotOverlap == \A s, t \in Active : s = t

\* seq ends with exactly n results in S.
EndsWith(seq, n, S) ==
  /\ n \in Nat /\ n <= Len(seq)
  /\ \A i \in (Len(seq) - n + 1)..Len(seq) : seq[i] \in S
  /\ n < Len(seq) => seq[Len(seq) - n] \notin S

ReadIsCurrent ==
  target # NoRow =>
    \A s \in Active : /\ loaded[s].status = target.status
                      /\ loaded[s].cf = target.cf /\ loaded[s].cs = target.cs

RowFollowsResults ==
  target # NoRow =>
    /\ Results # <<>> => target.status = Results[Len(Results)]
    /\ EndsWith(Results, target.cf, Failing)
    /\ EndsWith(Results, target.cs, {"healthy"})

\* The results are in the order the checks started.
LogInOrder ==
  /\ \A m, n \in DOMAIN log : m < n => log[m].id < log[n].id
  /\ \A n \in DOMAIN log : log[n].id <= started
  /\ \A s \in Active : /\ run[s].id <= started
                       /\ \A n \in DOMAIN log : log[n].id < run[s].id

\* Retention leaves the latest runs.
PrunedFromBelow ==
  /\ \A r \in runs : \E n \in DOMAIN log : r = log[n]
  /\ \A m, n \in DOMAIN log : m < n /\ log[m] \in runs => log[n] \in runs

SerialInv == ReadIsCurrent /\ RowFollowsResults /\ LogInOrder /\ PrunedFromBelow

LEMMA EndsAppend ==
  ASSUME NEW T, NEW seq \in Seq(T), NEW r \in T, NEW n, NEW S, EndsWith(seq, n, S)
  PROVE  EndsWith(Append(seq, r), IF r \in S THEN n + 1 ELSE 0, S)
<1> DEFINE new == Append(seq, r)
           L == Len(seq)
<1>1. /\ L \in Nat /\ n \in Nat /\ n <= L /\ Len(new) = L + 1 /\ new[L + 1] = r
      /\ \A i \in 1..L : new[i] = seq[i]
  BY DEF EndsWith
<1>2. \A i \in (L - n + 1)..L : seq[i] \in S
  BY DEF EndsWith
<1>3. n < L => seq[L - n] \notin S
  BY DEF EndsWith
<1> HIDE DEF new, L
<1>4. CASE r \in S
  <2>1. \A i \in (L - n + 1)..(L + 1) : new[i] \in S
    BY <1>1, <1>2, <1>4
  <2>2. n < L => new[L - n] \notin S
    BY <1>1, <1>3
  <2>3. EndsWith(new, n + 1, S)
    BY <1>1, <2>1, <2>2 DEF EndsWith
  <2> QED
    BY <1>4, <2>3 DEF new
<1>5. CASE r \notin S
  <2>1. EndsWith(new, 0, S)
    BY <1>1, <1>5 DEF EndsWith
  <2> QED
    BY <1>5, <2>1 DEF new
<1> QED
  BY <1>4, <1>5

LEMMA ResultsType ==
  ASSUME log \in Seq(Run)
  PROVE  Results \in Seq(CheckStatus) /\ Len(Results) = Len(log)
<1>1. DOMAIN log = 1..Len(log) /\ Len(log) \in Nat /\ \A n \in DOMAIN log : log[n] \in Run
  OBVIOUS
<1>2. \A n \in DOMAIN log : log[n].status \in CheckStatus
  BY <1>1 DEF Run
<1> QED
  BY <1>1, <1>2 DEF Results

LEMMA ResultsAppend ==
  ASSUME log \in Seq(Run), NEW r \in Run, log' = Append(log, r)
  PROVE  Results' = Append(Results, r.status)
<1>1. Results \in Seq(CheckStatus) /\ Len(Results) = Len(log) /\ r.status \in CheckStatus
  BY ResultsType DEF Run
<1>2. DOMAIN Results' = 1..Len(log) + 1
  BY DEF Results
<1>3. \A n \in 1..Len(log) : Results'[n] = Results[n]
  BY DEF Results
<1>4. Results'[Len(log) + 1] = r.status
  BY DEF Results
<1>5. Results' = [n \in 1..Len(log) + 1 |-> Results'[n]]
  BY <1>2 DEF Results
<1> HIDE DEF Results
<1> QED
  BY <1>1, <1>2, <1>3, <1>4, <1>5

LEMMA InitSerial == Init => SerialInv
  BY DEF Init, SerialInv, ReadIsCurrent, RowFollowsResults, LogInOrder, PrunedFromBelow,
     Active, Results, NewTarget, EndsWith

\* Every commit writes the row and the log in the same way.
LEMMA CommitWrites ==
  ASSUME IInv, NEW s \in Sessions, Commit(s)
  PROVE  /\ CommitCheck(s) /\ s \in Active /\ pc[s] = "locked"
         /\ target \in TargetRow \ {NoRow} /\ target' \in TargetRow \ {NoRow}
         /\ log \in Seq(Run) /\ run[s] \in Run /\ loaded[s] \in TargetRow
         /\ Failures(s) \in Nat /\ Successes(s) \in Nat
         /\ Active' = Active \ {s}
         /\ \A t \in Active' : loaded'[t] = loaded[t] /\ run'[t] = run[t]
<1>1. CommitCheck(s)
  BY DEF Commit, CommitQuietly, CommitRecovering, CommitResolved, CommitStillFailing,
     CommitOpened
<1>2. s \in Active /\ pc[s] = "locked" /\ target \in TargetRow
  BY <1>1 DEF CommitCheck, Active, IInv, TypeOK, TargetHeld
<1>3. log \in Seq(Run) /\ run[s] \in Run /\ loaded[s] \in TargetRow
  BY DEF IInv, TypeOK
<1>4. target' \in TargetRow /\ Failures(s) \in Nat /\ Successes(s) \in Nat
  BY <1>1, CommitFacts
<1>5. Active' = Active \ {s} /\ \A t \in Active' : loaded'[t] = loaded[t] /\ run'[t] = run[t]
  <2>1. /\ pc \in [Sessions -> {"idle", "checking", "recorded", "locked", "notifying"}]
        /\ loaded \in [Sessions -> TargetRow] /\ run \in [Sessions -> Run]
    BY DEF IInv, TypeOK
  <2>2. \E where \in {"idle", "notifying"} : pc' = [pc EXCEPT ![s] = where]
    BY DEF Commit, CommitQuietly, CommitRecovering, CommitResolved, CommitStillFailing,
       CommitOpened, Close, KeepTransition
  <2>3. \A t \in Sessions \ {s} : loaded'[t] = loaded[t] /\ run'[t] = run[t]
    BY <2>1 DEF Commit, CommitQuietly, CommitRecovering, CommitResolved, CommitStillFailing,
       CommitOpened, Close, KeepTransition
  <2> QED
    BY <2>1, <2>2, <2>3 DEF Active
<1> QED
  BY <1>1, <1>2, <1>3, <1>4, <1>5, NoRowAssumption

\* A check that read the current row leaves its result and its streaks in it.
LEMMA CommitUpdates ==
  ASSUME IInv, ReadIsCurrent, NEW s \in Sessions, Commit(s)
  PROVE  /\ target'.status = run[s].status
         /\ target'.cf = Failures(s) /\ target'.cs = Successes(s)
         /\ Failures(s) = IF run[s].status \in Failing THEN target.cf + 1 ELSE 0
         /\ Successes(s) = IF run[s].status \in {"healthy"} THEN target.cs + 1 ELSE 0
<1>1. /\ loaded[s].status = target.status
      /\ loaded[s].cf = target.cf /\ loaded[s].cs = target.cs
  BY CommitWrites DEF ReadIsCurrent
<1>2. CommitCheck(s) /\ target \in TargetRow
  BY CommitWrites
<1>3. /\ target'.status = Column(target.status, loaded[s].status, run[s].status)
      /\ target'.cf = Column(target.cf, loaded[s].cf, Failures(s))
      /\ target'.cs = Column(target.cs, loaded[s].cs, Successes(s))
  BY <1>2 DEF CommitCheck, FlushTarget, TargetRow
<1> QED
  BY <1>1, <1>3 DEF Column, Failures, Successes, IsUp

LEMMA CommitSerial ==
  ASSUME IInv, SerialInv, ChecksDoNotOverlap, NEW s \in Sessions, Commit(s)
  PROVE  SerialInv'
<1>1. /\ s \in Active /\ Active' = {} /\ CommitCheck(s)
      /\ log \in Seq(Run) /\ run[s] \in Run /\ target # NoRow
  BY CommitWrites DEF ChecksDoNotOverlap
<1>2. /\ log' = Append(log, run[s]) /\ runs' = runs \union {run[s]} /\ started' = started
  BY <1>1 DEF CommitCheck
<1>3. /\ DOMAIN log = 1..Len(log) /\ Len(log) \in Nat /\ DOMAIN log' = 1..Len(log) + 1
      /\ \A n \in DOMAIN log : log'[n] = log[n] /\ log[n] \in Run
      /\ log'[Len(log) + 1] = run[s]
  BY <1>1, <1>2
<1>4. ReadIsCurrent'
  BY <1>1 DEF ReadIsCurrent
<1>5. RowFollowsResults'
  <2>1. /\ Results \in Seq(CheckStatus) /\ run[s].status \in CheckStatus
        /\ Results' = Append(Results, run[s].status)
    BY <1>1, <1>2, ResultsType, ResultsAppend DEF Run
  <2>2. Results'[Len(Results')] = run[s].status
    BY <2>1
  <2>3. /\ EndsWith(Results, target.cf, Failing)
        /\ EndsWith(Results, target.cs, {"healthy"})
    BY <1>1 DEF SerialInv, RowFollowsResults
  <2>4. /\ target'.status = run[s].status
        /\ target'.cf = IF run[s].status \in Failing THEN target.cf + 1 ELSE 0
        /\ target'.cs = IF run[s].status \in {"healthy"} THEN target.cs + 1 ELSE 0
    BY CommitUpdates DEF SerialInv
  <2>5. EndsWith(Append(Results, run[s].status),
                 IF run[s].status \in Failing THEN target.cf + 1 ELSE 0, Failing)
    BY <2>1, <2>3, EndsAppend
  <2>6. EndsWith(Append(Results, run[s].status),
                 IF run[s].status \in {"healthy"} THEN target.cs + 1 ELSE 0, {"healthy"})
    BY <2>1, <2>3, EndsAppend
  <2>7. EndsWith(Results', target'.cf, Failing) /\ EndsWith(Results', target'.cs, {"healthy"})
    BY <2>1, <2>4, <2>5, <2>6
  <2> QED
    BY <2>2, <2>4, <2>7 DEF RowFollowsResults, EndsWith
<1>6. /\ run[s].id <= started /\ \A n \in DOMAIN log : log[n].id < run[s].id
      /\ \A n \in DOMAIN log : log[n].id <= started
      /\ \A m, n \in DOMAIN log : m < n => log[m].id < log[n].id
  BY <1>1 DEF SerialInv, LogInOrder
<1>7. LogInOrder'
  BY <1>1, <1>2, <1>3, <1>6 DEF LogInOrder
<1>8. PrunedFromBelow'
  <2>1. \A r \in runs' : \E n \in DOMAIN log' : r = log'[n]
    BY <1>2, <1>3 DEF SerialInv, PrunedFromBelow
  <2>2. ASSUME NEW m \in DOMAIN log', NEW n \in DOMAIN log', m < n, log'[m] \in runs'
        PROVE  log'[n] \in runs'
    <3>1. CASE n = Len(log) + 1
      BY <1>2, <1>3, <3>1
    <3>2. CASE n # Len(log) + 1
      <4>1. m \in DOMAIN log /\ n \in DOMAIN log
        BY <1>3, <2>2, <3>2
      <4>2. log[m] # run[s]
        BY <1>3, <1>6, <4>1 DEF Run
      <4> QED
        BY <1>2, <1>3, <2>2, <4>1, <4>2 DEF SerialInv, PrunedFromBelow
    <3> QED
      BY <3>1, <3>2
  <2> QED
    BY <2>1, <2>2 DEF PrunedFromBelow
<1> QED
  BY <1>4, <1>5, <1>7, <1>8 DEF SerialInv

\* What any other step does to the rows and to the checks in flight.
LEMMA OtherSteps ==
  ASSUME IInv, [Next]_vars, \A s \in Sessions : ~ Commit(s)
  PROVE  /\ log' = log /\ started' \in Nat /\ started <= started'
         /\ \/ target' = NoRow
            \/ /\ target # NoRow /\ target'.status = target.status
               /\ target'.cf = target.cf /\ target'.cs = target.cs
         /\ \/ runs' = runs \/ runs' = {}
            \/ \E cutoff \in Nat : runs' = {r \in runs : r.id >= cutoff}
         /\ \A s \in Active' :
              \/ s \in Active /\ loaded'[s] = loaded[s] /\ run'[s].id = run[s].id
              \/ /\ target # NoRow /\ loaded'[s] = target
                 /\ run'[s].id = started + 1 /\ started' = started + 1
<1> DEFINE Kept(s) == s \in Active /\ loaded'[s] = loaded[s] /\ run'[s].id = run[s].id
           New(s) == /\ target # NoRow /\ loaded'[s] = target
                     /\ run'[s].id = started + 1 /\ started' = started + 1
<1>1. /\ pc \in [Sessions -> {"idle", "checking", "recorded", "locked", "notifying"}]
      /\ loaded \in [Sessions -> TargetRow] /\ run \in [Sessions -> Run]
      /\ started \in Nat /\ MaxRuns \in Nat
      /\ target \in TargetRow \union {NoRow}
  BY MaxRunsAssumption DEF IInv, TypeOK
<1>2. log' = log /\ started' \in Nat /\ started <= started'
  <2>1. log' = log /\ started' \in {started, started + 1}
    BY DEF Next, Step, LoadTarget, RecordCheck, SelectOpenIncident, HandOver,
       ForeignKeyViolation, CheckIsVictim, Rollback, RefreshRaises, DeleteIsVictim, Crash, DeleteChildren,
       DeleteTarget, PatchThresholds, Prune, vars, history
  <2> QED
    BY <1>1, <2>1
<1>3. \/ target' = NoRow
      \/ /\ target # NoRow /\ target'.status = target.status
         /\ target'.cf = target.cf /\ target'.cs = target.cs
  <2>1. ASSUME NEW ft \in FailureThresholds, NEW rt \in RecoveryThresholds,
               PatchThresholds(ft, rt)
        PROVE  /\ target # NoRow /\ target'.status = target.status
               /\ target'.cf = target.cf /\ target'.cs = target.cs
    BY <1>1, <2>1 DEF TargetRow, PatchThresholds
  <2>2. CASE target' = target \/ target' = NoRow
    BY <2>2
  <2> QED
    BY <2>1, <2>2 DEF Next, Step, LoadTarget, RecordCheck, SelectOpenIncident, HandOver,
       ForeignKeyViolation, CheckIsVictim, Rollback, RefreshRaises, DeleteIsVictim, Crash, DeleteChildren,
       DeleteTarget, Prune, vars, rows
<1>4. \/ runs' = runs \/ runs' = {}
      \/ \E cutoff \in Nat : runs' = {r \in runs : r.id >= cutoff}
  <2>1. ASSUME NEW cutoff \in 1..MaxRuns + 1, Prune(cutoff)
        PROVE  \E c \in Nat : runs' = {r \in runs : r.id >= c}
    BY <1>1, <2>1 DEF Prune
  <2> QED
    BY <2>1 DEF Next, Step, LoadTarget, RecordCheck, SelectOpenIncident, HandOver,
       ForeignKeyViolation, CheckIsVictim, Rollback, RefreshRaises, DeleteIsVictim, Crash, DeleteChildren,
       DeleteTarget, PatchThresholds, vars, rows
<1>5. ASSUME NEW s \in Active' PROVE Kept(s) \/ New(s)
  <2>1. ASSUME NEW t \in Sessions, Close(t) PROVE Kept(s)
    BY <1>1, <2>1 DEF Close, Active
  <2>2. ASSUME NEW t \in Sessions, LoadTarget(t) PROVE Kept(s) \/ New(s)
    <3>1. /\ target # NoRow /\ started' = started + 1 /\ target \in TargetRow
          /\ pc' = [pc EXCEPT ![t] = "checking"] /\ loaded' = [loaded EXCEPT ![t] = target]
          /\ run' = [run EXCEPT ![t] = [id |-> started + 1, status |-> "pending"]]
      BY <1>1, <2>2 DEF LoadTarget
    <3>2. CASE s = t
      BY <1>1, <3>1, <3>2 DEF Active
    <3>3. CASE s # t
      BY <1>1, <3>1, <3>3 DEF Active
    <3> QED
      BY <3>2, <3>3
  <2>3. ASSUME NEW t \in Sessions, RecordCheck(t) PROVE Kept(s)
    BY <1>1, <2>3 DEF RecordCheck, Active, Run
  <2>4. ASSUME NEW t \in Sessions, SelectOpenIncident(t) PROVE Kept(s)
    BY <1>1, <2>4 DEF SelectOpenIncident, Active
  <2>5. CASE Crash
    BY <2>5 DEF Crash, Active
  <2>6. CASE session' = session
    BY <2>6 DEF session, Active
  <2> HIDE DEF Kept, New
  <2> QED
    BY <2>1, <2>2, <2>3, <2>4, <2>5, <2>6 DEF Next, Step, HandOver, ForeignKeyViolation,
       CheckIsVictim, Rollback, RefreshRaises, DeleteIsVictim, DeleteChildren, DeleteTarget,
       PatchThresholds, Prune, vars
<1> QED
  BY <1>2, <1>3, <1>4, <1>5

LEMMA OtherSerial ==
  ASSUME IInv, SerialInv, [Next]_vars, \A s \in Sessions : ~ Commit(s)
  PROVE  SerialInv'
<1>1. /\ log' = log /\ started' \in Nat /\ started <= started' /\ started \in Nat
      /\ Results' = Results /\ log \in Seq(Run) /\ runs \in SUBSET Run
      /\ run \in [Sessions -> Run]
  BY OtherSteps DEF Results, IInv, TypeOK
<1>2. \/ target' = NoRow
      \/ /\ target # NoRow /\ target'.status = target.status
         /\ target'.cf = target.cf /\ target'.cs = target.cs
  BY OtherSteps
<1>3. \A s \in Active' :
        \/ s \in Active /\ loaded'[s] = loaded[s] /\ run'[s].id = run[s].id
        \/ /\ target # NoRow /\ loaded'[s] = target
           /\ run'[s].id = started + 1 /\ started' = started + 1
  BY OtherSteps
<1>4. ReadIsCurrent'
  BY <1>2, <1>3 DEF SerialInv, ReadIsCurrent
<1>5. RowFollowsResults'
  BY <1>1, <1>2 DEF SerialInv, RowFollowsResults
<1>6. /\ \A n \in DOMAIN log : log[n].id \in Nat /\ log[n].id <= started
      /\ \A s \in Active : run[s].id \in Nat
  <2>1. \A n \in DOMAIN log : log[n] \in Run
    BY <1>1
  <2>2. \A s \in Active : run[s] \in Run
    BY <1>1 DEF Active
  <2> QED
    BY <2>1, <2>2 DEF SerialInv, LogInOrder, Run
<1>7. LogInOrder'
  <2>1. \A n \in DOMAIN log : log[n].id <= started'
    BY <1>1, <1>6
  <2>2. \A s \in Active' : run'[s].id <= started' /\ \A n \in DOMAIN log : log[n].id < run'[s].id
    BY <1>1, <1>3, <1>6 DEF SerialInv, LogInOrder
  <2> QED
    BY <1>1, <2>1, <2>2 DEF SerialInv, LogInOrder
<1>8. PrunedFromBelow'
  <2>1. \/ runs' = runs \/ runs' = {}
        \/ \E cutoff \in Nat : runs' = {r \in runs : r.id >= cutoff}
    BY OtherSteps
  <2>2. ASSUME NEW cutoff \in Nat, runs' = {r \in runs : r.id >= cutoff}
        PROVE  PrunedFromBelow'
    <3>1. \A m, n \in DOMAIN log : m < n => log[m].id < log[n].id
      BY DEF SerialInv, LogInOrder
    <3>2. \A m, n \in DOMAIN log : m < n /\ log[m] \in runs' => log[n] \in runs'
      BY <1>6, <2>2, <3>1 DEF SerialInv, PrunedFromBelow
    <3> QED
      BY <1>1, <2>2, <3>2 DEF SerialInv, PrunedFromBelow
  <2> QED
    BY <1>1, <2>1, <2>2 DEF SerialInv, PrunedFromBelow
<1> QED
  BY <1>4, <1>5, <1>7, <1>8 DEF SerialInv

LEMMA NextSerial == IInv /\ SerialInv /\ ChecksDoNotOverlap /\ [Next]_vars => SerialInv'
  BY CommitSerial, OtherSerial

LEMMA SerialInvariance == Spec /\ []ChecksDoNotOverlap => []SerialInv
  BY InitSerial, NextSerial, Invariance, PTL DEF Spec

\* While the checks of a target do not overlap, last_status is the latest committed
\* result, for any number of sessions and through every PATCH, rollback and restart.
THEOREM LastStatusIsCurrent == Spec /\ []ChecksDoNotOverlap => []LastStatusIsLatest
<1>1. IInv /\ SerialInv => LastStatusIsLatest
  <2> SUFFICES ASSUME IInv, SerialInv, target # NoRow, log # <<>>
               PROVE  target.status = log[Len(log)].status
    BY DEF LastStatusIsLatest
  <2>1. /\ log \in Seq(Run) /\ Len(log) \in DOMAIN log /\ Len(Results) = Len(log)
    BY ResultsType DEF IInv, TypeOK
  <2>2. Results # <<>> /\ Results[Len(Results)] = log[Len(log)].status
    BY <2>1 DEF Results
  <2> QED
    BY <2>2 DEF SerialInv, RowFollowsResults
<1> QED
  BY <1>1, SerialInvariance, Invariance, PTL

\* The checks after first that Create's query counts.
NotHealthyAfter(kept, first) ==
  {q \in {r \in kept : r.status # "healthy"} : q.id > first.id}

\* seq ends with k checks that were not healthy; if first started no later than a
\* check before them, all k are among the kept checks that started after first.
LEMMA StreakIsCounted ==
  ASSUME NEW seq \in Seq(Run), NEW kept \in SUBSET Run,
         \A m, n \in DOMAIN seq : m < n => seq[m].id < seq[n].id,
         \A r \in kept : \E n \in DOMAIN seq : r = seq[n],
         \A m, n \in DOMAIN seq : m < n /\ seq[m] \in kept => seq[n] \in kept,
         NEW k \in Nat, k <= Len(seq),
         \A n \in (Len(seq) - k + 1)..Len(seq) : seq[n].status # "healthy",
         NEW first \in kept, NEW n \in 1..(Len(seq) - k), seq[n].id >= first.id
  PROVE  /\ k <= Cardinality(NotHealthyAfter(kept, first))
         /\ Cardinality(NotHealthyAfter(kept, first)) \in Nat
<1> DEFINE D == (Len(seq) - k + 1)..Len(seq)
           T == NotHealthyAfter(kept, first)
           f == [j \in D |-> seq[j]]
<1>1. Len(seq) \in Nat /\ DOMAIN seq = 1..Len(seq) /\ \A j \in DOMAIN seq : seq[j] \in Run
  OBVIOUS
<1>2. \A j \in DOMAIN seq : seq[j].id \in Nat
  BY <1>1 DEF Run
<1>3. PICK m \in DOMAIN seq : first = seq[m]
  OBVIOUS
<1>4. m <= n
  <2>1. CASE m > n
    BY <1>1, <1>2, <1>3, <2>1
  <2> QED
    BY <1>1, <2>1
<1>5. \A j \in D : j \in DOMAIN seq /\ m < j
  BY <1>1, <1>4
<1>6. \A j \in D : seq[j] \in T
  BY <1>2, <1>3, <1>5 DEF NotHealthyAfter
<1>7. \A i, j \in D : seq[i] = seq[j] => i = j
  <2>1. \A i, j \in D : i < j => seq[i].id < seq[j].id
    BY <1>5
  <2>2. \A i, j \in D : i < j \/ j < i \/ i = j
    BY <1>1
  <2> QED
    BY <1>2, <1>5, <2>1, <2>2
<1>8. f \in Injection(D, T)
  BY <1>6, <1>7 DEF Injection, IsInjective
<1>9. IsFiniteSet(T)
  <2> DEFINE R == {seq[j] : j \in DOMAIN seq}
             g == [j \in DOMAIN seq |-> seq[j]]
  <2>1. g \in Surjection(DOMAIN seq, R)
    BY DEF Surjection
  <2>2. IsFiniteSet(DOMAIN seq)
    BY <1>1, FS_Interval
  <2>3. IsFiniteSet(R)
    BY <2>1, <2>2, FS_Surjection
  <2>4. T \in SUBSET R
    BY DEF NotHealthyAfter
  <2> HIDE DEF T, R
  <2> QED
    BY <2>3, <2>4, FS_Subset
<1>10. Cardinality(D) = k
  <2>1. Len(seq) - k + 1 \in Int /\ Len(seq) \in Int
    BY <1>1
  <2>2. Cardinality(D) = IF Len(seq) - k + 1 > Len(seq) THEN 0 ELSE Len(seq) - (Len(seq) - k + 1) + 1
    BY <2>1, FS_Interval
  <2> QED
    BY <1>1, <2>2
<1> HIDE DEF D, T, f
<1>11. Cardinality(D) <= Cardinality(T)
  BY <1>8, <1>9, FS_Injection
<1>12. Cardinality(T) \in Nat
  BY <1>9, FS_CardinalityType
<1> QED
  BY <1>10, <1>11, <1>12 DEF T

\* The incident that is opened starts in the streak of failures that opens it.
LEMMA OpenedInStreak ==
  ASSUME IInv, SerialInv, SerialInv', NEW s \in Sessions, CommitOpened(s),
         NEW first \in RecentFailures(s),
         NEW n \in DOMAIN log', log'[n].id >= first.id
  PROVE  log'[n].status \in Failing
<1>1. /\ CommitCheck(s) /\ Commit(s) /\ Opens(s)
      /\ log \in Seq(Run) /\ run[s] \in Run /\ Failures(s) \in Nat
      /\ runs \in SUBSET Run
  BY CommitWrites DEF CommitOpened, Commit, IInv, TypeOK
<1>2. log' = Append(log, run[s]) /\ runs' = runs \union {run[s]}
  BY <1>1 DEF CommitCheck
<1>3. log' \in Seq(Run) /\ runs' \in SUBSET Run /\ DOMAIN log' = 1..Len(log') /\ Len(log') \in Nat
  BY <1>1, <1>2
<1>4. /\ Len(Results') = Len(log') /\ \A i \in 1..Len(log') : Results'[i] = log'[i].status
  BY <1>3 DEF Results
<1>5. target'.cf = Failures(s) /\ target' # NoRow
  BY <1>1, CommitUpdates, CommitWrites DEF SerialInv
<1>6. EndsWith(Results', Failures(s), Failing)
  BY <1>5 DEF SerialInv, RowFollowsResults
<1> DEFINE k == Failures(s)
<1>7. /\ k \in Nat /\ k <= Len(log')
      /\ \A i \in (Len(log') - k + 1)..Len(log') : log'[i].status \in Failing
  <2>1. \A i \in (Len(log') - k + 1)..Len(log') : i \in 1..Len(log')
    BY <1>1, <1>3, <1>4, <1>6 DEF EndsWith
  <2> QED
    BY <1>1, <1>4, <1>6, <2>1 DEF EndsWith
<1>8. first \in runs' /\ Cardinality(NotHealthyAfter(runs', first)) < k
  BY <1>2 DEF RecentFailures, NotHealthyAfter
<1>9. CASE n \in (Len(log') - k + 1)..Len(log')
  BY <1>7, <1>9
<1>10. CASE n \in 1..(Len(log') - k)
  <2>1. \A i, j \in DOMAIN log' : i < j => log'[i].id < log'[j].id
    BY DEF SerialInv, LogInOrder
  <2>2. /\ \A r \in runs' : \E i \in DOMAIN log' : r = log'[i]
        /\ \A i, j \in DOMAIN log' : i < j /\ log'[i] \in runs' => log'[j] \in runs'
    BY DEF SerialInv, PrunedFromBelow
  <2>3. \A i \in (Len(log') - k + 1)..Len(log') : log'[i].status # "healthy"
    BY <1>7 DEF Failing
  <2> HIDE DEF k
  <2>4. /\ k <= Cardinality(NotHealthyAfter(runs', first))
        /\ Cardinality(NotHealthyAfter(runs', first)) \in Nat
    BY <1>3, <1>7, <1>8, <1>10, <2>1, <2>2, <2>3, StreakIsCounted
  <2> QED
    BY <1>7, <1>8, <2>4
<1> QED
  BY <1>3, <1>7, <1>9, <1>10

LEMMA NextStartsInStreak ==
  ASSUME IInv, SerialInv, SerialInv', [Next]_vars,
         NEW i \in DOMAIN incidents' \ DOMAIN incidents,
         NEW n \in DOMAIN log', log'[n].id >= incidents'[i].first
  PROVE  log'[n].status \in Failing
<1>1. incidents \in Seq(Incident)
  BY DEF IInv, TypeOK
<1>2. ASSUME NEW s \in Sessions, CommitOpened(s) PROVE log'[n].status \in Failing
  <2>1. PICK first \in RecentFailures(s) :
          incidents' = Append(incidents,
            [status |-> "open", first |-> first.id, last |-> run[s].id,
             cf |-> Failures(s), cs |-> 0])
    BY <1>2 DEF CommitOpened, Create
  <2>2. i = Len(incidents) + 1 /\ incidents'[i].first = first.id
    BY <1>1, <2>1
  <2> QED
    BY <1>2, <2>1, <2>2, OpenedInStreak
<1>3. CASE \A s \in Sessions : ~ CommitOpened(s)
  <2>1. \A s \in Sessions : Commit(s) => DOMAIN incidents' = DOMAIN incidents
    BY <1>3 DEF Commit, CommitQuietly, CommitRecovering, CommitResolved, CommitStillFailing,
       UpdateIncident
  <2>2. \/ incidents' \in {incidents, <<>>}
        \/ DOMAIN incidents' = DOMAIN incidents
    BY <2>1 DEF Next, Step, LoadTarget, RecordCheck, SelectOpenIncident, HandOver,
       ForeignKeyViolation, CheckIsVictim, Rollback, RefreshRaises, DeleteIsVictim, Crash, DeleteChildren,
       DeleteTarget, PatchThresholds, Prune, vars, rows
  <2>3. DOMAIN incidents' \subseteq DOMAIN incidents
    BY <2>2
  <2> QED
    BY <2>3
<1> QED
  BY <1>2, <1>3

\* While the checks of a target do not overlap, an incident starts at a failure of the
\* streak that opens it, whatever retention has removed and however many degraded
\* checks came before (apply_check_result, its query of the recent runs).
THEOREM IncidentsStartInTheirStreak ==
  Spec /\ []ChecksDoNotOverlap => IncidentStartsInStreak
<1> DEFINE Starts ==
      \A i \in DOMAIN incidents' \ DOMAIN incidents :
        \A n \in DOMAIN log' :
          log'[n].id >= incidents'[i].first => log'[n].status \in Failing
<1>1. IInv /\ SerialInv /\ SerialInv' /\ [Next]_vars => [Starts]_vars
  BY NextStartsInStreak
<1> QED
  BY <1>1, SerialInvariance, Invariance, PTL DEF Spec, IncidentStartsInStreak

-----------------------------------------------------------------------------
(* Checks that do not overlap, of a target without thresholds of its own.   *)

\* A result is known before the target is updated.
ResultKnown ==
  \A s \in Sessions : pc[s] \in {"recorded", "locked"} => run[s].status # "pending"

DefaultThresholds ==
  /\ target # NoRow => target.ft = Null /\ target.rt = Null
  /\ \A s \in Sessions : loaded[s].ft = Null /\ loaded[s].rt = Null

DownIsConfirmed ==
  target # NoRow => (OpenIncidents # {} <=> Policy!Confirmed(Results))

PolicyInv == ResultKnown /\ DefaultThresholds /\ DownIsConfirmed

LEMMA InitPolicy ==
  ASSUME Init PROVE PolicyInv
<1>1. ResultKnown /\ DefaultThresholds
  BY DEF Init, ResultKnown, DefaultThresholds, NewTarget
<1>2. Results = <<>> /\ OpenIncidents = {}
  BY DEF Init, Results, OpenIncidents
<1>3. ~ Policy!Confirmed(<<>>)
  BY DEF Policy!Confirmed
<1> QED
  BY <1>1, <1>2, <1>3 DEF PolicyInv, DownIsConfirmed

\* A streak that ends before the last result does not depend on it.
LEMMA StreakAppend ==
  ASSUME NEW T, NEW seq \in Seq(T), NEW r \in T, NEW p \in 1..Len(seq), NEW n \in Nat, NEW S
  PROVE  Policy!Streak(Append(seq, r), p, n, S) <=> Policy!Streak(seq, p, n, S)
<1> DEFINE new == Append(seq, r)
<1>1. Len(seq) \in Nat /\ \A i \in 1..Len(seq) : new[i] = seq[i]
  OBVIOUS
<1> HIDE DEF new
<1>2. n <= p => \A i \in (p - n + 1)..p : new[i] = seq[i]
  BY <1>1
<1>3. Policy!Streak(new, p, n, S) <=> Policy!Streak(seq, p, n, S)
  BY <1>2 DEF Policy!Streak
<1> QED
  BY <1>3 DEF new

\* A streak of n results ends seq if n of the results at its end are in S.
LEMMA StreakAtEnd ==
  ASSUME NEW T, NEW seq \in Seq(T), NEW m, NEW S, EndsWith(seq, m, S), NEW n \in Nat \ {0}
  PROVE  Policy!Streak(seq, Len(seq), n, S) <=> n <= m
<1>1. Len(seq) \in Nat /\ m \in Nat /\ m <= Len(seq)
  BY DEF EndsWith
<1>2. ASSUME n <= m PROVE Policy!Streak(seq, Len(seq), n, S)
  <2>1. \A i \in (Len(seq) - n + 1)..Len(seq) : i \in (Len(seq) - m + 1)..Len(seq)
    BY <1>1, <1>2
  <2> QED
    BY <1>1, <1>2, <2>1 DEF Policy!Streak, EndsWith
<1>3. ASSUME m < n, Policy!Streak(seq, Len(seq), n, S) PROVE FALSE
  <2>1. n <= Len(seq) /\ \A i \in (Len(seq) - n + 1)..Len(seq) : seq[i] \in S
    BY <1>3 DEF Policy!Streak
  <2>2. Len(seq) - m \in (Len(seq) - n + 1)..Len(seq)
    BY <1>1, <1>3, <2>1
  <2>3. seq[Len(seq) - m] \notin S
    BY <1>1, <1>3, <2>1 DEF EndsWith
  <2> QED
    BY <2>1, <2>2, <2>3
<1> QED
  BY <1>1, <1>2, <1>3

\* What one more result does to the judgement of the policy.
LEMMA ConfirmedAppend ==
  ASSUME NEW T, NEW seq \in Seq(T), NEW r \in T
  PROVE  Policy!Confirmed(Append(seq, r)) <=>
           \/ Policy!Streak(Append(seq, r), Len(seq) + 1, FailuresToOpen, Policy!Failing)
           \/ /\ Policy!Confirmed(seq)
              /\ ~ Policy!Streak(Append(seq, r), Len(seq) + 1, SuccessesToResolve, {"healthy"})
<1> DEFINE new == Append(seq, r)
           L == Len(seq)
           Down(s, p) == Policy!Streak(s, p, FailuresToOpen, Policy!Failing)
           Up(s, p) == Policy!Streak(s, p, SuccessesToResolve, {"healthy"})
<1>1. /\ L \in Nat /\ Len(new) = L + 1 /\ DOMAIN new = 1..(L + 1) /\ DOMAIN seq = 1..L
      /\ FailuresToOpen \in Nat /\ SuccessesToResolve \in Nat
  BY ThresholdsAssumption
<1>2. \A p \in 1..L : (Down(new, p) <=> Down(seq, p)) /\ (Up(new, p) <=> Up(seq, p))
  BY <1>1, StreakAppend
<1>3. /\ Policy!Confirmed(new) <=>
           \E p \in 1..(L + 1) : Down(new, p) /\ \A q \in (p + 1)..(L + 1) : ~ Up(new, q)
      /\ Policy!Confirmed(seq) <=>
           \E p \in 1..L : Down(seq, p) /\ \A q \in (p + 1)..L : ~ Up(seq, q)
  BY <1>1 DEF Policy!Confirmed
<1> HIDE DEF new, L, Down, Up
<1>4. ASSUME Down(new, L + 1) PROVE Policy!Confirmed(new)
  BY <1>1, <1>3, <1>4
<1>5. ASSUME Policy!Confirmed(seq), ~ Up(new, L + 1) PROVE Policy!Confirmed(new)
  <2>1. PICK p \in 1..L : Down(seq, p) /\ \A q \in (p + 1)..L : ~ Up(seq, q)
    BY <1>3, <1>5
  <2>2. \A q \in (p + 1)..(L + 1) : ~ Up(new, q)
    <3> TAKE q \in (p + 1)..(L + 1)
    <3>1. q = L + 1 \/ (q \in (p + 1)..L /\ q \in 1..L)
      BY <1>1
    <3> QED
      BY <1>2, <1>5, <2>1, <3>1
  <2>3. Down(new, p) /\ p \in 1..(L + 1)
    BY <1>1, <1>2, <2>1
  <2> QED
    BY <1>3, <2>2, <2>3
<1>6. ASSUME Policy!Confirmed(new), ~ Down(new, L + 1)
      PROVE  Policy!Confirmed(seq) /\ ~ Up(new, L + 1)
  <2>1. PICK p \in 1..(L + 1) : Down(new, p) /\ \A q \in (p + 1)..(L + 1) : ~ Up(new, q)
    BY <1>3, <1>6
  <2>2. p \in 1..L /\ L + 1 \in (p + 1)..(L + 1)
    BY <1>1, <1>6, <2>1
  <2>3. \A q \in (p + 1)..L : q \in 1..L /\ q \in (p + 1)..(L + 1)
    BY <1>1, <2>2
  <2>4. Down(seq, p) /\ \A q \in (p + 1)..L : ~ Up(seq, q)
    BY <1>2, <2>1, <2>2, <2>3
  <2> QED
    BY <1>3, <2>1, <2>2, <2>4
<1> QED
  BY <1>4, <1>5, <1>6 DEF new, L, Down, Up

\* The policy is the one of the settings: no target has thresholds of its own.
SettingsOnly == FailureThresholds \subseteq {Null} /\ RecoveryThresholds \subseteq {Null}

\* A commit opens and resolves exactly where the results end in the policy's streaks.
LEMMA CommitJudges ==
  ASSUME IInv, SerialInv, PolicyInv, ChecksDoNotOverlap, NEW s \in Sessions, Commit(s)
  PROVE  /\ Results \in Seq(CheckStatus) /\ run[s].status \in CheckStatus \ {"pending"}
         /\ Results' = Append(Results, run[s].status)
         /\ Opens(s) <=>
              Policy!Streak(Results', Len(Results) + 1, FailuresToOpen, Policy!Failing)
         /\ Resolves(s) <=>
              Policy!Streak(Results', Len(Results) + 1, SuccessesToResolve, {"healthy"})
<1>1. /\ CommitCheck(s) /\ pc[s] = "locked" /\ log \in Seq(Run) /\ run[s] \in Run
      /\ target' # NoRow /\ Failures(s) \in Nat /\ Successes(s) \in Nat
  BY CommitWrites
<1>2. /\ Results \in Seq(CheckStatus) /\ run[s].status \in CheckStatus \ {"pending"}
  BY <1>1, ResultsType DEF PolicyInv, ResultKnown, Run
<1>3. Results' = Append(Results, run[s].status)
  BY <1>1, ResultsAppend DEF CommitCheck
<1>4. Results' \in Seq(CheckStatus) /\ Len(Results') = Len(Results) + 1
  BY <1>2, <1>3
<1>5. EndsWith(Results', Failures(s), Failing) /\ EndsWith(Results', Successes(s), {"healthy"})
  <2>1. SerialInv'
    BY CommitSerial
  <2>2. target'.cf = Failures(s) /\ target'.cs = Successes(s)
    BY CommitUpdates DEF SerialInv
  <2> QED
    BY <1>1, <2>1, <2>2 DEF SerialInv, RowFollowsResults
<1>6. FailuresToOpen \in Nat \ {0} /\ SuccessesToResolve \in Nat \ {0}
  BY ThresholdsAssumption
<1>7. Policy!Streak(Results', Len(Results) + 1, FailuresToOpen, Failing)
        <=> FailuresToOpen <= Failures(s)
  BY <1>4, <1>5, <1>6, StreakAtEnd
<1>8. Policy!Streak(Results', Len(Results) + 1, SuccessesToResolve, {"healthy"})
        <=> SuccessesToResolve <= Successes(s)
  BY <1>4, <1>5, <1>6, StreakAtEnd
<1>9. loaded[s].ft = Null /\ loaded[s].rt = Null
  BY DEF PolicyInv, DefaultThresholds
<1>10. Opens(s) <=> FailuresToOpen <= Failures(s)
  BY <1>1, <1>6, <1>9 DEF Opens, OrDefault, Failures
<1>11. Resolves(s) <=> SuccessesToResolve <= Successes(s)
  BY <1>1, <1>6, <1>9 DEF Resolves, OrDefault, Successes
<1> QED
  BY <1>2, <1>3, <1>7, <1>8, <1>10, <1>11 DEF Failing, Policy!Failing

\* The open incident is written back, or resolved.
LEMMA SeenWritten ==
  ASSUME IInv, NEW s \in Sessions, pc[s] = "locked", seen[s] # 0,
         NEW row \in Incident, UpdateIncident(s, row)
  PROVE  OpenIncidents' = IF row.status = "open" THEN {seen[s]} ELSE {}
<1>1. /\ incidents \in Seq(Incident)
      /\ incidents' = [incidents EXCEPT ![seen[s]] = row]
  BY DEF IInv, TypeOK, UpdateIncident
<1>2. seen[s] \in DOMAIN incidents /\ OpenIncidents = {seen[s]}
  BY SeenFacts
<1> QED
  BY <1>1, <1>2 DEF OpenIncidents

\* A commit opens, keeps or resolves the incident as the policy says.
LEMMA CommitObserves ==
  ASSUME IInv, SerialInv, PolicyInv, ChecksDoNotOverlap, NEW s \in Sessions, Commit(s)
  PROVE  OpenIncidents' # {} <=> Policy!Confirmed(Results')
<1> DEFINE Down == Policy!Streak(Results', Len(Results) + 1, FailuresToOpen, Policy!Failing)
           Up == Policy!Streak(Results', Len(Results) + 1, SuccessesToResolve, {"healthy"})
<1>1. /\ Results \in Seq(CheckStatus) /\ run[s].status \in CheckStatus
      /\ Results' = Append(Results, run[s].status)
  BY CommitJudges
<1>2. (Opens(s) <=> Down) /\ (Resolves(s) <=> Up)
  BY CommitJudges
<1>3. Policy!Confirmed(Results') <=> Down \/ (Policy!Confirmed(Results) /\ ~ Up)
  BY <1>1, ConfirmedAppend
<1>4. OpenIncidents # {} <=> Policy!Confirmed(Results)
  BY CommitWrites DEF PolicyInv, DownIsConfirmed
<1>5. /\ pc[s] = "locked" /\ seen[s] \in Nat /\ incidents \in Seq(Incident)
      /\ run[s].id \in Nat /\ Failures(s) \in Nat /\ Successes(s) \in Nat
  BY CommitWrites DEF IInv, TypeOK, Run
<1>6. OpenIncidents = IF seen[s] = 0 THEN {} ELSE {seen[s]}
  BY <1>5 DEF IInv, SeenOpen
<1>7. seen[s] # 0 => incidents[seen[s]] \in Incident /\ incidents[seen[s]].status = "open"
  BY <1>5, SeenFacts
<1>8. ~ (Opens(s) /\ Resolves(s))
  BY DEF Opens, Resolves, IsUp, Failing
<1> HIDE DEF Down, Up
<1>9. CASE CommitQuietly(s)
  <2>1. OpenIncidents' = OpenIncidents /\ OpenIncidents = {} /\ ~ Opens(s)
    BY <1>6, <1>9 DEF CommitQuietly, OpenIncidents
  <2> QED
    BY <1>2, <1>3, <1>4, <2>1
<1>10. CASE CommitRecovering(s)
  <2> DEFINE row == [incidents[seen[s]] EXCEPT !.cs = Successes(s)]
  <2>1. row \in Incident /\ row.status = "open" /\ seen[s] # 0 /\ UpdateIncident(s, row)
    BY <1>5, <1>7, <1>10 DEF CommitRecovering, Incident
  <2> HIDE DEF row
  <2>2. OpenIncidents' # {} /\ OpenIncidents # {} /\ ~ Resolves(s)
    BY <1>5, <1>6, <1>10, <2>1, SeenWritten DEF CommitRecovering
  <2> QED
    BY <1>2, <1>3, <1>4, <2>2
<1>11. CASE CommitResolved(s)
  <2> DEFINE row == [incidents[seen[s]] EXCEPT !.cs = Successes(s), !.status = "resolved"]
  <2>1. row \in Incident /\ row.status = "resolved" /\ seen[s] # 0 /\ UpdateIncident(s, row)
    BY <1>5, <1>7, <1>11 DEF CommitResolved, Incident
  <2> HIDE DEF row
  <2>2. OpenIncidents' = {} /\ Resolves(s)
    BY <1>5, <1>11, <2>1, SeenWritten DEF CommitResolved
  <2> QED
    BY <1>2, <1>3, <1>8, <2>2
<1>12. CASE CommitStillFailing(s)
  <2> DEFINE row == [incidents[seen[s]] EXCEPT !.last = run[s].id,
                                               !.cf = Failures(s), !.cs = 0]
  <2>1. row \in Incident /\ row.status = "open" /\ seen[s] # 0 /\ UpdateIncident(s, row)
    BY <1>5, <1>7, <1>12 DEF CommitStillFailing, Incident
  <2> HIDE DEF row
  <2>2. OpenIncidents' # {} /\ OpenIncidents # {} /\ ~ Resolves(s)
    BY <1>5, <1>6, <1>12, <2>1, SeenWritten DEF CommitStillFailing, IsUp, Resolves, Failing
  <2> QED
    BY <1>2, <1>3, <1>4, <2>2
<1>13. CASE CommitOpened(s)
  <2>1. PICK row : incidents' = Append(incidents, row) /\ row.status = "open"
    BY <1>13 DEF CommitOpened, Create
  <2>2. Len(incidents) + 1 \in OpenIncidents'
    BY <1>5, <2>1 DEF OpenIncidents
  <2>3. Opens(s)
    BY <1>13 DEF CommitOpened
  <2> QED
    BY <1>2, <1>3, <2>2, <2>3
<1> QED
  BY <1>9, <1>10, <1>11, <1>12, <1>13 DEF Commit

LEMMA NextResultKnown ==
  ASSUME IInv, ResultKnown, [Next]_vars PROVE ResultKnown'
<1>1. /\ pc \in [Sessions -> {"idle", "checking", "recorded", "locked", "notifying"}]
      /\ run \in [Sessions -> Run]
  BY DEF IInv, TypeOK
<1> SUFFICES ASSUME NEW s \in Sessions, pc'[s] \in {"recorded", "locked"}
             PROVE  run'[s].status # "pending"
  BY DEF ResultKnown
<1>2. ASSUME NEW t \in Sessions, RecordCheck(t) PROVE run'[s].status # "pending"
  <2>1. PICK answer \in Answers : run' = [run EXCEPT ![t].status = StatusOf(answer)]
    BY <1>2 DEF RecordCheck
  <2>2. StatusOf(answer) # "pending"
    BY AnswersAssumption DEF HttpAnswers, StatusOf
  <2>3. s = t => run'[s].status = StatusOf(answer)
    BY <1>1, <2>1 DEF Run
  <2>4. s # t => run'[s] = run[s] /\ pc'[s] = pc[s]
    BY <1>1, <1>2, <2>1 DEF RecordCheck
  <2> QED
    BY <2>2, <2>3, <2>4 DEF ResultKnown
<1>3. ASSUME NEW t \in Sessions, Close(t) PROVE pc[s] \in {"recorded", "locked"} /\ run'[s] = run[s]
  BY <1>1, <1>3 DEF Close
<1>4. ASSUME NEW t \in Sessions, LoadTarget(t)
      PROVE  pc[s] \in {"recorded", "locked"} /\ run'[s] = run[s]
  BY <1>1, <1>4 DEF LoadTarget
<1>5. ASSUME NEW t \in Sessions, SelectOpenIncident(t)
      PROVE  pc[s] \in {"recorded", "locked"} /\ run'[s] = run[s]
  BY <1>1, <1>5 DEF SelectOpenIncident
<1>6. ASSUME NEW t \in Sessions, Commit(t)
      PROVE  pc[s] \in {"recorded", "locked"} /\ run'[s] = run[s]
  <2>1. s \in Active' /\ Active' = Active \ {t} /\ run'[s] = run[s]
    BY <1>6, CommitWrites DEF Active
  <2>2. pc'[s] = pc[s]
    BY <1>1, <1>6, <2>1 DEF Commit, CommitQuietly, CommitRecovering, CommitResolved,
       CommitStillFailing, CommitOpened, Close, KeepTransition
  <2> QED
    BY <2>1, <2>2
<1>7. CASE Crash
  BY <1>7 DEF Crash
<1>8. CASE session' = session
  BY <1>8 DEF session, ResultKnown
<1> QED
  BY <1>2, <1>3, <1>4, <1>5, <1>6, <1>7, <1>8 DEF ResultKnown, Next, Step, HandOver,
     ForeignKeyViolation, CheckIsVictim, Rollback, RefreshRaises, DeleteIsVictim, DeleteChildren,
     DeleteTarget, PatchThresholds, Prune, vars

LEMMA NextDefaultThresholds ==
  ASSUME SettingsOnly, IInv, DefaultThresholds, [Next]_vars PROVE DefaultThresholds'
<1>1. /\ target \in TargetRow \union {NoRow} /\ loaded \in [Sessions -> TargetRow]
  BY DEF IInv, TypeOK
<1>2. target' # NoRow => target'.ft = Null /\ target'.rt = Null
  <2>1. ASSUME NEW ft \in FailureThresholds, NEW rt \in RecoveryThresholds,
               PatchThresholds(ft, rt)
        PROVE  target'.ft = Null /\ target'.rt = Null
    BY <1>1, <2>1 DEF PatchThresholds, SettingsOnly, TargetRow
  <2>2. ASSUME NEW s \in Sessions, Commit(s)
        PROVE  target'.ft = Null /\ target'.rt = Null
    <3>1. target \in TargetRow /\ target # NoRow /\ FlushTarget(s)
      BY <2>2, CommitWrites DEF CommitCheck
    <3> QED
      BY <3>1 DEF FlushTarget, TargetRow, DefaultThresholds
  <2>3. CASE target' = target \/ target' = NoRow
    BY <2>3 DEF DefaultThresholds
  <2> QED
    BY <2>1, <2>2, <2>3 DEF Next, Step, LoadTarget, RecordCheck, SelectOpenIncident, HandOver,
       ForeignKeyViolation, CheckIsVictim, Rollback, RefreshRaises, DeleteIsVictim, Crash, DeleteChildren,
       DeleteTarget, Prune, vars, rows
<1>3. ASSUME NEW s \in Sessions PROVE loaded'[s].ft = Null /\ loaded'[s].rt = Null
  <2>1. NewTarget.ft = Null /\ NewTarget.rt = Null
    BY DEF NewTarget
  <2>2. loaded[s].ft = Null /\ loaded[s].rt = Null
    BY DEF DefaultThresholds
  <2>3. ASSUME NEW t \in Sessions, LoadTarget(t)
        PROVE  loaded'[s] = loaded[s] \/ (target # NoRow /\ loaded'[s] = target)
    <3>1. target # NoRow /\ loaded' = [loaded EXCEPT ![t] = target]
      BY <2>3 DEF LoadTarget
    <3>2. CASE s = t
      BY <1>1, <3>1, <3>2
    <3>3. CASE s # t
      BY <1>1, <3>1, <3>3
    <3> QED
      BY <3>2, <3>3
  <2>4. ASSUME NEW t \in Sessions, Close(t) PROVE loaded'[s] \in {loaded[s], NewTarget}
    BY <1>1, <2>4 DEF Close
  <2>5. ASSUME NEW t \in Sessions, Commit(t) PROVE loaded'[s] \in {loaded[s], NewTarget}
    BY <2>4, <2>5 DEF Commit, CommitQuietly, CommitRecovering, CommitResolved,
       CommitStillFailing, CommitOpened, KeepTransition
  <2>6. CASE Crash
    BY <2>1, <2>6 DEF Crash
  <2>7. CASE loaded' = loaded
    BY <2>2, <2>7
  <2> QED
    BY <2>1, <2>2, <2>3, <2>4, <2>5, <2>6, <2>7 DEF DefaultThresholds, Next, Step, RecordCheck,
       SelectOpenIncident, HandOver, ForeignKeyViolation, CheckIsVictim, Rollback, RefreshRaises,
       DeleteIsVictim, DeleteChildren, DeleteTarget, PatchThresholds, Prune, vars, session
<1> QED
  BY <1>2, <1>3 DEF DefaultThresholds

\* Only a commit or the DELETE of the target changes what the policy sees.
LEMMA OtherStepsAreSilent ==
  ASSUME IInv, [Next]_vars, \A s \in Sessions : ~ Commit(s)
  PROVE  \/ target' = NoRow /\ OpenIncidents' = {}
         \/ /\ target # NoRow /\ target' # NoRow
            /\ Results' = Results /\ OpenIncidents' = OpenIncidents
<1>1. Results' = Results
  BY OtherSteps DEF Results
<1>2. CASE DeleteTarget
  BY <1>2 DEF DeleteTarget, OpenIncidents
<1>3. CASE incidents' = incidents /\ ~ DeleteTarget
  <2>1. OpenIncidents' = OpenIncidents
    BY <1>3 DEF OpenIncidents
  <2>2. target = NoRow => OpenIncidents = {}
    BY DEF IInv, NoOrphanRows, OpenIncidents
  <2>3. target = NoRow <=> target' = NoRow
    <3>1. ASSUME NEW ft \in FailureThresholds, NEW rt \in RecoveryThresholds,
                 PatchThresholds(ft, rt)
          PROVE  target # NoRow /\ target' # NoRow
      <4>1. target \in TargetRow /\ ft \in 1..20 \union {Null} /\ rt \in 1..20 \union {Null}
        BY <3>1, ThresholdsAssumption DEF IInv, TypeOK, PatchThresholds
      <4>2. target' \in TargetRow
        BY <3>1, <4>1 DEF PatchThresholds, TargetRow
      <4> QED
        BY <4>1, <4>2, NoRowAssumption
    <3>2. CASE target' = target
      BY <3>2
    <3> QED
      BY <3>1, <3>2, <1>3 DEF Next, Step, LoadTarget, RecordCheck, SelectOpenIncident,
         HandOver, ForeignKeyViolation, CheckIsVictim, Rollback, RefreshRaises, DeleteIsVictim, Crash,
         DeleteChildren, Prune, vars, rows
  <2> QED
    BY <1>1, <2>1, <2>2, <2>3
<1> QED
  BY <1>2, <1>3 DEF Next, Step, LoadTarget, RecordCheck, SelectOpenIncident, HandOver,
     ForeignKeyViolation, CheckIsVictim, Rollback, RefreshRaises, DeleteIsVictim, Crash, DeleteChildren,
     PatchThresholds, Prune, vars, rows

LEMMA NextPolicyInv ==
  ASSUME SettingsOnly, IInv, SerialInv, PolicyInv, ChecksDoNotOverlap, [Next]_vars
  PROVE  PolicyInv'
<1>1. ResultKnown' /\ DefaultThresholds'
  BY NextResultKnown, NextDefaultThresholds DEF PolicyInv
<1>2. ASSUME NEW s \in Sessions, Commit(s) PROVE DownIsConfirmed'
  <2>1. OpenIncidents' # {} <=> Policy!Confirmed(Results')
    BY <1>2, CommitObserves
  <2> QED
    BY <2>1 DEF DownIsConfirmed, Policy!Confirmed, Policy!Streak, Policy!Failing
<1>3. ASSUME \A s \in Sessions : ~ Commit(s) PROVE DownIsConfirmed'
  <2>1. \/ target' = NoRow
        \/ /\ target # NoRow /\ target' # NoRow
           /\ Results' = Results /\ OpenIncidents' = OpenIncidents
    BY <1>3, OtherStepsAreSilent
  <2>2. ASSUME Results' = Results
        PROVE  Policy!Confirmed(Results') <=> Policy!Confirmed(Results)
    BY <2>2
  <2>3. target' # NoRow => (OpenIncidents' # {} <=> Policy!Confirmed(Results'))
    BY <2>1, <2>2 DEF PolicyInv, DownIsConfirmed
  <2> QED
    BY <2>3 DEF DownIsConfirmed, Policy!Confirmed, Policy!Streak, Policy!Failing
<1> QED
  BY <1>1, <1>2, <1>3 DEF PolicyInv

LEMMA PolicyInvariance ==
  ASSUME SettingsOnly PROVE Spec /\ []ChecksDoNotOverlap => []PolicyInv
<1>1. Init => PolicyInv
  BY InitPolicy
<1>2. IInv /\ SerialInv /\ ChecksDoNotOverlap /\ PolicyInv /\ [Next]_vars => PolicyInv'
  BY NextPolicyInv
<1> QED
  BY <1>1, <1>2, SerialInvariance, Invariance, PTL DEF Spec

\* Every step maps to a step of the policy or changes nothing it sees.
LEMMA PolicyStep ==
  ASSUME IInv, SerialInv, PolicyInv, ChecksDoNotOverlap, [Next]_vars
  PROVE  \/ Policy!Next
         \/ UNCHANGED <<IF target = NoRow THEN <<>> ELSE Results, OpenIncidents # {}>>
<1>1. ASSUME NEW s \in Sessions, Commit(s) PROVE Policy!Observe
  <2>1. target # NoRow /\ target' # NoRow
    BY <1>1, CommitWrites
  <2>2. /\ run[s].status \in Policy!Failing \union {"healthy", "degraded"}
        /\ Results' = Append(Results, run[s].status)
    BY <1>1, CommitJudges DEF CheckStatus, Policy!Failing
  <2>3. OpenIncidents' # {} <=> Policy!Confirmed(Results')
    BY <1>1, CommitObserves
  <2>4. (OpenIncidents' # {}) = Policy!Confirmed(Results')
    BY <2>3 DEF Policy!Confirmed
  <2> QED
    BY <2>1, <2>2, <2>4 DEF Policy!Observe
<1>2. ASSUME \A s \in Sessions : ~ Commit(s)
      PROVE  \/ Policy!Forget
             \/ UNCHANGED <<IF target = NoRow THEN <<>> ELSE Results, OpenIncidents # {}>>
  <2>1. \/ target' = NoRow /\ OpenIncidents' = {}
        \/ /\ target # NoRow /\ target' # NoRow
           /\ Results' = Results /\ OpenIncidents' = OpenIncidents
    BY <1>2, OtherStepsAreSilent
  <2>2. CASE target' = NoRow /\ OpenIncidents' = {}
    BY <2>2 DEF Policy!Forget
  <2>3. CASE /\ target # NoRow /\ target' # NoRow
             /\ Results' = Results /\ OpenIncidents' = OpenIncidents
    BY <2>3
  <2> QED
    BY <2>1, <2>2, <2>3
<1> QED
  BY <1>1, <1>2 DEF Policy!Next

\* While the checks of a target do not overlap, an incident is open exactly when the
\* last FailuresToOpen results failed and SuccessesToResolve results in a row have not
\* been healthy since, for any values of the settings (apply_check_result).
THEOREM PolicyRefinement ==
  ASSUME SettingsOnly PROVE Spec /\ []ChecksDoNotOverlap => ImplementsPolicy
<1>1. Init => Policy!Init
  BY NoRowAssumption DEF Init, Policy!Init, Results, OpenIncidents
<1>2. IInv /\ SerialInv /\ PolicyInv /\ ChecksDoNotOverlap /\ [Next]_vars =>
        [Policy!Next]_<<IF target = NoRow THEN <<>> ELSE Results, OpenIncidents # {}>>
  BY PolicyStep
<1> QED
  BY <1>1, <1>2, PolicyInvariance, SerialInvariance, Invariance, PTL
     DEF Spec, ImplementsPolicy, Policy!Spec
=============================================================================
