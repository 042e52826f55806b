------------------------ MODULE SchedulerCycleProofs ------------------------
(***************************************************************************)
(* For any number of cycles, targets, connections and slots, and whatever  *)
(* fails or restarts: the columns have their types, the row of a cycle     *)
(* says no more than what was done, and with a connection for every slot   *)
(* no check is lost for want of one.                                       *)
(*                                                                         *)
(* That the row tells the truth is not inductive: the counts are taken     *)
(* from what the tasks returned, so IInv adds that a task returns a status *)
(* only after the commit of its check (ReturnedWasChecked), and that the   *)
(* row of a cycle that runs has no counts yet (RunningRowIsEmpty).         *)
(*                                                                         *)
(* That no check is lost rests on a count of the connections.  Those of a  *)
(* cycle that closes are taken when its tasks have ended (QuietUnless-     *)
(* Gathering), so a cycle has never more than its slots; the tasks that    *)
(* wait are counted among these, so one that waits finds room (RoomToOpen, *)
(* by an injection of the tasks into cycles times slots).                  *)
(***************************************************************************)
EXTENDS SchedulerCycle, FiniteSetTheorems, FunctionTheorems, TLAPS

ReturnedWasChecked ==
  \A c \in Cycles, t \in Targets :
    task[c][t] \in {"committed", "notifying"} \/ status[c][t] # "none" => t \in checked[c]

RunningRowIsEmpty ==
  \A c \in Cycles : phase[c] # "idle" /\ row[c] # NoRow =>
    row[c].status = "running" /\ row[c].completed = 0

SlotsRespected == \A c \in Cycles : Cardinality(Running(c)) <= MaxConcurrency

IInv == TypeOK /\ SlotsRespected /\ ReturnedWasChecked /\ RunningRowIsEmpty /\ RowIsTrue

-----------------------------------------------------------------------------
\* The sets that are counted are finite, so their sizes are numbers.
LEMMA CountedSetsAreFinite ==
  ASSUME TypeOK
  PROVE  /\ IsFiniteSet(Holders) /\ Cardinality(Holders) \in Nat
         /\ IsFiniteSet(Closing) /\ Cardinality(Closing) \in Nat
         /\ \A c \in Cycles : IsFiniteSet(Running(c)) /\ Cardinality(Running(c)) \in Nat
         /\ \A c \in Cycles : IsFiniteSet(picked[c]) /\ IsFiniteSet(checked[c])
<1>1. IsFiniteSet(Cycles \X Targets)
  BY FS_Product, TargetsAssumption
<1>2. IsFiniteSet(Holders) /\ IsFiniteSet(Closing)
  <2>1. Holders \in SUBSET (Cycles \X Targets) /\ Closing \in SUBSET Cycles
    BY DEF Holders, Closing
  <2> QED
    BY <2>1, <1>1, FS_Subset, TargetsAssumption
<1>3. ASSUME NEW c \in Cycles
      PROVE  IsFiniteSet(Running(c)) /\ IsFiniteSet(picked[c]) /\ IsFiniteSet(checked[c])
  <2>1. /\ Running(c) \in SUBSET Targets
        /\ picked[c] \in SUBSET Targets
        /\ checked[c] \in SUBSET Targets
    BY DEF Running, TypeOK
  <2> QED
    BY <2>1, FS_Subset, TargetsAssumption
<1> QED
  BY <1>2, <1>3, FS_CardinalityType

\* A set that grows by one element at most has one member more at most.
LEMMA GrowsByOne ==
  ASSUME NEW S, IsFiniteSet(S), NEW x, NEW T \in SUBSET (S \union {x})
  PROVE  Cardinality(T) <= Cardinality(S) + 1
<1>1. /\ IsFiniteSet(S \union {x})
      /\ Cardinality(S \union {x}) = IF x \in S THEN Cardinality(S) ELSE Cardinality(S) + 1
  BY FS_AddElement
<1>2. IsFiniteSet(T) /\ Cardinality(T) <= Cardinality(S \union {x})
  BY <1>1, FS_Subset
<1>3. Cardinality(S) \in Nat /\ Cardinality(S \union {x}) \in Nat /\ Cardinality(T) \in Nat
  BY <1>1, <1>2, FS_CardinalityType
<1> QED
  BY <1>1, <1>2, <1>3

\* A step that takes no slot overdraws no semaphore.
LEMMA NothingTaken ==
  ASSUME TypeOK, SlotsRespected, \A c \in Cycles : Running(c)' \subseteq Running(c)
  PROVE  SlotsRespected'
<1> SUFFICES ASSUME NEW c \in Cycles PROVE Cardinality(Running(c)') <= MaxConcurrency
  BY DEF SlotsRespected
<1>1. IsFiniteSet(Running(c)') /\ Cardinality(Running(c)') <= Cardinality(Running(c))
  BY CountedSetsAreFinite, FS_Subset
<1>2. Cardinality(Running(c)') \in Nat
  BY <1>1, FS_CardinalityType
<1> QED
  BY <1>1, <1>2, CountedSetsAreFinite, LimitsAssumption DEF SlotsRespected

\* What the row of a finished cycle counts, it has checked.
LEMMA ReturnedIsChecked ==
  ASSUME TypeOK, ReturnedWasChecked, NEW c \in Cycles
  PROVE  LET n == Returned(c, {"up", "failing"})
         IN /\ n \in Nat /\ Returned(c, {"failing"}) \in Nat
            /\ Cardinality(picked[c]) \in Nat
            /\ n <= Cardinality(checked[c]) /\ n <= Cardinality(picked[c])
            /\ n = Cardinality(picked[c]) => picked[c] \subseteq checked[c]
<1> DEFINE R == {t \in picked[c] : status[c][t] \in {"up", "failing"}}
           F == {t \in picked[c] : status[c][t] \in {"failing"}}
<1>1. /\ R \in SUBSET picked[c] /\ F \in SUBSET picked[c]
      /\ R \in SUBSET checked[c]
  BY DEF ReturnedWasChecked, TypeOK
<1>2. IsFiniteSet(picked[c]) /\ IsFiniteSet(checked[c])
  BY CountedSetsAreFinite
<1>3. /\ IsFiniteSet(R) /\ IsFiniteSet(F)
      /\ Cardinality(R) <= Cardinality(picked[c])
      /\ Cardinality(R) <= Cardinality(checked[c])
      /\ Cardinality(R) = Cardinality(picked[c]) => R = picked[c]
  <2>1. IsFiniteSet(R) /\ Cardinality(R) <= Cardinality(picked[c])
    BY <1>1, <1>2, FS_Subset
  <2>2. Cardinality(R) = Cardinality(picked[c]) => R = picked[c]
    BY <1>1, <1>2, FS_Subset
  <2>3. Cardinality(R) <= Cardinality(checked[c])
    BY <1>1, <1>2, FS_Subset
  <2>4. IsFiniteSet(F)
    BY <1>1, <1>2, FS_Subset
  <2> QED
    BY <2>1, <2>2, <2>3, <2>4
<1>4. Cardinality(R) \in Nat /\ Cardinality(F) \in Nat /\ Cardinality(picked[c]) \in Nat
  BY <1>2, <1>3, FS_CardinalityType
<1>5. Returned(c, {"up", "failing"}) = Cardinality(R)
  BY DEF Returned
<1>6. Returned(c, {"failing"}) = Cardinality(F)
  BY DEF Returned
<1> QED
  BY <1>1, <1>3, <1>4, <1>5, <1>6

-----------------------------------------------------------------------------
LEMMA InitIInv == ASSUME Init PROVE IInv
<1>1. TypeOK
  BY BoundsAssumption DEF Init, TypeOK, NoTasks, NoStatus
<1>2. \A c \in Cycles : Running(c) = {}
  BY DEF Init, Running, NoTasks
<1>3. SlotsRespected
  BY <1>2, FS_EmptySet, LimitsAssumption DEF SlotsRespected
<1>4. ReturnedWasChecked /\ RunningRowIsEmpty /\ RowIsTrue
  BY DEF Init, ReturnedWasChecked, RunningRowIsEmpty, RowIsTrue, NoTasks, NoStatus
<1> QED
  BY <1>1, <1>3, <1>4 DEF IInv

\* The history only grows, unless a new cycle begins; so a row that stays true.
LEMMA RowsStayTrue ==
  ASSUME IInv, TypeOK', UNCHANGED <<row, picked>>,
         \A c \in Cycles : checked[c] \subseteq checked'[c]
  PROVE  RowIsTrue'
<1> SUFFICES ASSUME NEW c \in Cycles, row[c] # NoRow
             PROVE  /\ row[c].completed <= Cardinality(checked'[c])
                    /\ row[c].status = "completed" =>
                         row[c].completed = row[c].selected /\ picked[c] \subseteq checked'[c]
                    /\ row[c].status = "partial" => row[c].completed < row[c].selected
  BY DEF RowIsTrue
<1>1. row[c].completed \in Nat
  BY DEF IInv, TypeOK, RunRow
<1>2. IsFiniteSet(checked[c]) /\ IsFiniteSet(checked'[c])
  <2>1. checked[c] \in SUBSET Targets /\ checked'[c] \in SUBSET Targets
    BY DEF IInv, TypeOK
  <2> QED
    BY <2>1, FS_Subset, TargetsAssumption
<1>3. /\ Cardinality(checked[c]) <= Cardinality(checked'[c])
      /\ Cardinality(checked[c]) \in Nat /\ Cardinality(checked'[c]) \in Nat
  BY <1>2, FS_Subset, FS_CardinalityType
<1> QED
  BY <1>1, <1>3 DEF IInv, RowIsTrue

LEMMA StartIInv ==
  ASSUME IInv, NEW c \in Cycles, Start(c) PROVE IInv'
<1> USE DEF IInv, Start, targets, bounds, SetPhase
<1>1. TypeOK'
  <2>1. NewRow \in RunRow
    BY DEF NewRow, RunRow
  <2> QED
    BY <2>1 DEF TypeOK, NoTasks, NoStatus
<1>2. SlotsRespected'
  <2>1. \A d \in Cycles : Running(d)' \subseteq Running(d)
    BY DEF Running, NoTasks, TypeOK
  <2> QED
    BY <2>1, NothingTaken
<1>3. ReturnedWasChecked' /\ RunningRowIsEmpty'
  BY DEF ReturnedWasChecked, RunningRowIsEmpty, TypeOK, NoTasks, NoStatus, NewRow
<1>4. RowIsTrue'
  BY FS_EmptySet DEF RowIsTrue, TypeOK, NewRow
<1> QED
  BY <1>1, <1>2, <1>3, <1>4

LEMMA ListDueIInv ==
  ASSUME IInv, NEW c \in Cycles, ListDue(c) PROVE IInv'
<1> USE DEF IInv, ListDue, targets, bounds, SetPhase
<1>1. TypeOK'
  BY DEF TypeOK
<1>2. SlotsRespected'
  <2>1. \A d \in Cycles : Running(d)' \subseteq Running(d)
    BY DEF Running, TypeOK
  <2> QED
    BY <2>1, NothingTaken
<1>3. ReturnedWasChecked' /\ RunningRowIsEmpty'
  BY DEF ReturnedWasChecked, RunningRowIsEmpty, TypeOK
<1>4. RowIsTrue'
  BY DEF RowIsTrue, RunningRowIsEmpty, TypeOK
<1> QED
  BY <1>1, <1>2, <1>3, <1>4

LEMMA AcquireIInv ==
  ASSUME IInv, NEW c \in Cycles, NEW t \in Targets, Acquire(c, t) PROVE IInv'
<1> USE DEF IInv, Acquire, targets, bounds, SetTask
<1>1. TypeOK'
  BY DEF TypeOK
<1>2. SlotsRespected'
  <2>1. /\ Running(c)' \subseteq Running(c) \union {t}
        /\ \A d \in Cycles \ {c} : Running(d)' = Running(d)
    BY DEF Running, TypeOK
  <2>2. Cardinality(Running(c)') <= Cardinality(Running(c)) + 1
    BY <2>1, CountedSetsAreFinite, GrowsByOne
  <2>3. Cardinality(Running(c)') \in Nat
    BY <1>1, <2>1, CountedSetsAreFinite, FS_AddElement, FS_Subset, FS_CardinalityType
  <2>4. Cardinality(Running(c)') <= MaxConcurrency
    BY <2>2, <2>3, CountedSetsAreFinite, LimitsAssumption
  <2> QED
    BY <2>1, <2>4 DEF SlotsRespected
<1>3. ReturnedWasChecked' /\ RunningRowIsEmpty'
  BY DEF ReturnedWasChecked, RunningRowIsEmpty, TypeOK
<1> QED
  BY <1>1, <1>2, <1>3, RowsStayTrue

\* The steps of a task that has its slot.
LEMMA TaskIInv ==
  ASSUME IInv, NEW c \in Cycles, NEW t \in Targets,
         \/ Open(c, t) \/ PoolTimeout(c, t) \/ CommitCheck(c, t)
         \/ Refresh(c, t) \/ Return(c, t) \/ TaskFails(c, t)
  PROVE  IInv'
<1> USE DEF IInv, targets, cycle, bounds, SetTask
<1>1. CASE Open(c, t)
  <2> USE <1>1 DEF Open
  <2>1. TypeOK'
    BY DEF TypeOK
  <2>2. \A d \in Cycles : Running(d)' \subseteq Running(d)
    BY DEF Running, TypeOK
  <2>3. SlotsRespected'
    BY <2>2, NothingTaken
  <2>4. ReturnedWasChecked' /\ RunningRowIsEmpty'
    BY DEF ReturnedWasChecked, RunningRowIsEmpty, TypeOK
  <2> QED
    BY <2>1, <2>3, <2>4, RowsStayTrue
<1>2. CASE PoolTimeout(c, t)
  <2> USE <1>2 DEF PoolTimeout
  <2>1. TypeOK'
    BY DEF TypeOK
  <2>2. \A d \in Cycles : Running(d)' \subseteq Running(d)
    BY DEF Running, TypeOK
  <2>3. SlotsRespected'
    BY <2>2, NothingTaken
  <2>4. ReturnedWasChecked' /\ RunningRowIsEmpty'
    BY DEF ReturnedWasChecked, RunningRowIsEmpty, TypeOK
  <2> QED
    BY <2>1, <2>3, <2>4, RowsStayTrue
<1>3. CASE CommitCheck(c, t)
  <2> USE <1>3 DEF CommitCheck
  <2>1. TypeOK'
    BY DEF TypeOK
  <2>2. \A d \in Cycles : Running(d)' \subseteq Running(d)
    BY DEF Running, TypeOK
  <2>3. SlotsRespected'
    BY <2>2, NothingTaken
  <2>4. ReturnedWasChecked' /\ RunningRowIsEmpty'
    BY DEF ReturnedWasChecked, RunningRowIsEmpty, TypeOK
  <2>5. \A d \in Cycles : checked[d] \subseteq checked'[d]
    BY DEF TypeOK
  <2> QED
    BY <2>1, <2>3, <2>4, <2>5, RowsStayTrue
<1>4. CASE Refresh(c, t)
  <2> USE <1>4 DEF Refresh
  <2>1. TypeOK'
    BY DEF TypeOK
  <2>2. \A d \in Cycles : Running(d)' \subseteq Running(d)
    BY DEF Running, TypeOK
  <2>3. SlotsRespected'
    BY <2>2, NothingTaken
  <2>4. ReturnedWasChecked' /\ RunningRowIsEmpty'
    BY DEF ReturnedWasChecked, RunningRowIsEmpty, TypeOK
  <2> QED
    BY <2>1, <2>3, <2>4, RowsStayTrue
<1>5. CASE Return(c, t)
  <2> USE <1>5 DEF Return
  <2>1. TypeOK'
    BY DEF TypeOK
  <2>2. \A d \in Cycles : Running(d)' \subseteq Running(d)
    BY DEF Running, TypeOK
  <2>3. SlotsRespected'
    BY <2>2, NothingTaken
  <2>4. ReturnedWasChecked' /\ RunningRowIsEmpty'
    BY DEF ReturnedWasChecked, RunningRowIsEmpty, TypeOK
  <2> QED
    BY <2>1, <2>3, <2>4, RowsStayTrue
<1>6. CASE TaskFails(c, t)
  <2> USE <1>6 DEF TaskFails, CountError
  <2>1. TypeOK'
    BY BoundsAssumption DEF TypeOK
  <2>2. \A d \in Cycles : Running(d)' \subseteq Running(d)
    BY DEF Running, TypeOK
  <2>3. SlotsRespected'
    BY <2>2, NothingTaken
  <2>4. ReturnedWasChecked' /\ RunningRowIsEmpty'
    BY DEF ReturnedWasChecked, RunningRowIsEmpty, TypeOK
  <2> QED
    BY <2>1, <2>3, <2>4, RowsStayTrue
<1> QED
  BY <1>1, <1>2, <1>3, <1>4, <1>5, <1>6

\* The steps of a cycle that leave its row alone.
LEMMA PhaseIInv ==
  ASSUME IInv, NEW c \in Cycles,
         \/ BeginClosing(c) \/ EndClosing(c) \/ CycleFails(c) \/ FailRaises(c)
  PROVE  IInv'
<1> USE DEF IInv, targets, work, bounds, SetPhase, CountError
<1>1. TypeOK' /\ UNCHANGED <<row, picked, task, status, checked>>
  BY BoundsAssumption DEF TypeOK, BeginClosing, EndClosing, CycleFails, FailRaises
<1>2. \A d \in Cycles : Running(d)' = Running(d)
  BY <1>1 DEF Running
<1>3. SlotsRespected'
  BY <1>2, NothingTaken
<1>4. ReturnedWasChecked'
  BY <1>1 DEF ReturnedWasChecked
<1>5. RunningRowIsEmpty'
  <2>1. \A d \in Cycles : phase'[d] # "idle" => phase[d] # "idle"
    BY DEF BeginClosing, EndClosing, CycleFails, FailRaises, TypeOK
  <2> QED
    BY <1>1, <2>1 DEF RunningRowIsEmpty
<1> QED
  BY <1>1, <1>3, <1>4, <1>5, RowsStayTrue

\* The row is written when the cycle is over: with its counts, or as FAILED.
LEMMA EndIInv ==
  ASSUME IInv, NEW c \in Cycles, Finish(c) \/ Fail(c) PROVE IInv'
<1> USE DEF IInv, targets, work, bounds, SetPhase
<1>1. /\ UNCHANGED <<picked, ahead, task, status, checked, enabled, due, before, errors, crashes, toggles>>
      /\ phase' = [phase EXCEPT ![c] = "idle"]
      /\ \A d \in Cycles \ {c} : row'[d] = row[d]
      /\ row[c] = NoRow => row' = row
      /\ phase[c] # "idle"
  BY DEF Finish, Fail, TypeOK
<1> DEFINE n == Returned(c, {"up", "failing"})
<1>2. /\ n \in Nat /\ Returned(c, {"failing"}) \in Nat
      /\ Cardinality(picked[c]) \in Nat /\ Cardinality(checked[c]) \in Nat
      /\ n <= Cardinality(checked[c]) /\ n <= Cardinality(picked[c])
      /\ n = Cardinality(picked[c]) => picked[c] \subseteq checked[c]
  BY ReturnedIsChecked, CountedSetsAreFinite, FS_CardinalityType
<1>3. ASSUME row[c] # NoRow, Finish(c)
      PROVE  row' = [row EXCEPT ![c] =
               [status |-> IF n < Cardinality(picked[c]) THEN "partial" ELSE "completed",
                selected |-> Cardinality(picked[c]), completed |-> n,
                failing |-> Returned(c, {"failing"})]]
  BY <1>3 DEF Finish, Partial
<1>4. ASSUME row[c] # NoRow, Fail(c)
      PROVE  /\ row' = [row EXCEPT ![c].status = "failed"]
             /\ row[c] \in RunRow /\ row[c].completed = 0
  BY <1>1, <1>4 DEF Fail, TypeOK, RunningRowIsEmpty
<1>5. TypeOK'
  <2>1. row' \in [Cycles -> RunRow \union {NoRow}]
    <3>1. CASE row[c] = NoRow
      BY <3>1, <1>1 DEF TypeOK
    <3>2. CASE row[c] # NoRow /\ Finish(c)
      BY <3>2, <1>2, <1>3 DEF TypeOK, RunRow
    <3>3. CASE row[c] # NoRow /\ Fail(c)
      <4>1. [row[c] EXCEPT !.status = "failed"] \in RunRow
        BY <3>3, <1>4 DEF RunRow
      <4>2. row' = [row EXCEPT ![c] = [row[c] EXCEPT !.status = "failed"]]
        BY <3>3, <1>4
      <4> QED
        BY <4>1, <4>2 DEF TypeOK
    <3> QED
      BY <3>1, <3>2, <3>3
  <2> QED
    BY <1>1, <2>1 DEF TypeOK
<1>6. SlotsRespected'
  <2>1. \A d \in Cycles : Running(d)' \subseteq Running(d)
    BY <1>1 DEF Running, TypeOK
  <2> QED
    BY <2>1, NothingTaken
<1>7. ReturnedWasChecked' /\ RunningRowIsEmpty'
  BY <1>1 DEF ReturnedWasChecked, RunningRowIsEmpty, TypeOK
<1>8. RowIsTrue'
  <2>1. ASSUME NEW d \in Cycles \ {c}, row'[d] # NoRow
        PROVE  /\ row'[d].completed <= Cardinality(checked'[d])
               /\ row'[d].status = "completed" =>
                    row'[d].completed = row'[d].selected /\ picked'[d] \subseteq checked'[d]
               /\ row'[d].status = "partial" => row'[d].completed < row'[d].selected
    BY <1>1, <2>1 DEF RowIsTrue
  <2>2. ASSUME row'[c] # NoRow
        PROVE  /\ row'[c].completed <= Cardinality(checked'[c])
               /\ row'[c].status = "completed" =>
                    row'[c].completed = row'[c].selected /\ picked'[c] \subseteq checked'[c]
               /\ row'[c].status = "partial" => row'[c].completed < row'[c].selected
    <3>1. row[c] # NoRow
      BY <1>1, <2>2
    <3>2. CASE Finish(c)
      <4>1. row'[c] =
              [status |-> IF n < Cardinality(picked[c]) THEN "partial" ELSE "completed",
               selected |-> Cardinality(picked[c]), completed |-> n,
               failing |-> Returned(c, {"failing"})]
        BY <1>3, <3>1, <3>2 DEF TypeOK
      <4>2. /\ row'[c].completed = n /\ row'[c].selected = Cardinality(picked[c])
            /\ row'[c].status = IF n < Cardinality(picked[c]) THEN "partial" ELSE "completed"
        BY <4>1
      <4> HIDE DEF n
      <4> QED
        BY <1>1, <1>2, <4>2
    <3>3. CASE Fail(c)
      <4>1. row'[c].status = "failed" /\ row'[c].completed = 0
        BY <1>4, <3>1, <3>3 DEF TypeOK, RunRow
      <4> QED
        BY <1>1, <1>2, <4>1
    <3> QED
      BY <3>2, <3>3
  <2> QED
    BY <2>1, <2>2 DEF RowIsTrue
<1> QED
  BY <1>5, <1>6, <1>7, <1>8

\* A restart of the process, and what the world does meanwhile.
LEMMA WorldIInv ==
  ASSUME IInv,
         \/ Crash
         \/ \E c \in Cycles : PruneRow(c)
         \/ \E t \in Targets : BecomeDue(t) \/ Toggle(t)
  PROVE  IInv'
<1> USE DEF IInv, targets, cycle, work, bounds
<1>1. CASE Crash
  <2> USE <1>1 DEF Crash
  <2>1. TypeOK'
    BY BoundsAssumption DEF TypeOK, NoTasks
  <2>2. \A d \in Cycles : Running(d)' \subseteq Running(d)
    BY DEF Running, NoTasks, TypeOK
  <2>3. SlotsRespected'
    BY <2>2, NothingTaken
  <2>4. ReturnedWasChecked' /\ RunningRowIsEmpty'
    BY DEF ReturnedWasChecked, RunningRowIsEmpty, NoTasks, TypeOK
  <2> QED
    BY <2>1, <2>3, <2>4, RowsStayTrue
<1>2. ASSUME NEW c \in Cycles, PruneRow(c) PROVE IInv'
  <2> USE <1>2 DEF PruneRow
  <2>1. TypeOK'
    BY DEF TypeOK
  <2>2. \A d \in Cycles : Running(d)' \subseteq Running(d)
    BY DEF Running
  <2>3. SlotsRespected'
    BY <2>2, NothingTaken
  <2>4. ReturnedWasChecked' /\ RunningRowIsEmpty' /\ RowIsTrue'
    BY DEF ReturnedWasChecked, RunningRowIsEmpty, RowIsTrue, TypeOK
  <2> QED
    BY <2>1, <2>3, <2>4
<1>3. ASSUME NEW t \in Targets, BecomeDue(t) \/ Toggle(t) PROVE IInv'
  <2>1. TypeOK' /\ UNCHANGED <<phase, row, picked, task, status, checked>>
    BY <1>3, BoundsAssumption DEF BecomeDue, Toggle, TypeOK
  <2>2. \A d \in Cycles : Running(d)' \subseteq Running(d)
    BY <2>1 DEF Running
  <2>3. SlotsRespected'
    BY <2>2, NothingTaken
  <2>4. ReturnedWasChecked' /\ RunningRowIsEmpty' /\ RowIsTrue'
    BY <2>1 DEF ReturnedWasChecked, RunningRowIsEmpty, RowIsTrue
  <2> QED
    BY <2>1, <2>3, <2>4
<1> QED
  BY <1>1, <1>2, <1>3

LEMMA StutterIInv == ASSUME IInv, UNCHANGED vars PROVE IInv'
  BY DEF IInv, vars, targets, cycle, work, bounds, TypeOK, SlotsRespected,
         Running, ReturnedWasChecked, RunningRowIsEmpty, RowIsTrue

LEMMA StepIInv == ASSUME IInv, [Next]_vars PROVE IInv'
  BY StartIInv, ListDueIInv, AcquireIInv, TaskIInv, PhaseIInv, EndIInv, WorldIInv,
     StutterIInv DEF Next, CycleProceeds, TaskProceeds

\* IInv is an invariant: the theorems below are its parts.
LEMMA Invariance == Spec => []IInv
<1>1. Init => IInv
  BY InitIInv
<1>2. IInv /\ [Next]_vars => IInv'
  BY StepIInv
<1> QED
  BY <1>1, <1>2, PTL DEF Spec

\* The targets, the cycles and the tasks have their types, the numbers in the rows
\* of scheduler_runs among them (run_due_targets).
THEOREM TypeCorrect == Spec => []TypeOK
<1>1. IInv => TypeOK
  BY DEF IInv
<1> QED
  BY <1>1, Invariance, PTL

\* The row that _finish_scheduler_run leaves says no more than what was committed:
\* COMPLETED means that every selected target was checked.
THEOREM RowsAreTrue == Spec => []RowIsTrue
<1>1. IInv => RowIsTrue
  BY DEF IInv
<1> QED
  BY <1>1, Invariance, PTL

-----------------------------------------------------------------------------
(* No check is lost for want of a connection. *)

Users == {u \in Cycles \X Targets : u[2] \in Running(u[1])}

\* Outside of the gather no task of a cycle is on its way.
QuietUnlessGathering ==
  \A c \in Cycles, t \in Targets :
    phase[c] # "gathering" \/ t \notin picked[c] => task[c][t] \in {"out", "done"}

GatheredBeforeClosing ==
  \A c \in Cycles : phase[c] \in {"closing", "finishing"} => Gathered(c)

\* Until something interferes every task that has ended has a status.
EndedHasStatus ==
  Room /\ errors = 0 /\ toggles = 0 =>
    /\ enabled = Targets
    /\ \A c \in Cycles : phase[c] # "failing"
    /\ \A c \in Cycles, t \in Targets : task[c][t] = "done" => status[c][t] # "none"

RInv == QuietUnlessGathering /\ GatheredBeforeClosing /\ EndedHasStatus /\ LostForAReason

\* The tasks of the cycles that do not close have as many slots as there are.
LEMMA UsersHaveSlots ==
  ASSUME IInv, QuietUnlessGathering
  PROVE  /\ IsFiniteSet(Users)
         /\ Cardinality(Users) <= Cardinality(Cycles \ Closing) * MaxConcurrency
<1> DEFINE Busy == Cycles \ Closing
           Slots == Busy \X (1..MaxConcurrency)
           b == [c \in Cycles |->
                   CHOOSE f : f \in Bijection(1..Cardinality(Running(c)), Running(c))]
           slot == [u \in Users |->
                     <<u[1], CHOOSE i \in 1..MaxConcurrency : b[u[1]][i] = u[2]>>]
<1>1. ASSUME NEW c \in Cycles, NEW t \in Running(c)
      PROVE  \E i \in 1..MaxConcurrency : b[c][i] = t
  <2>1. Cardinality(Running(c)) \in Nat
        /\ ExistsBijection(1..Cardinality(Running(c)), Running(c))
    BY CountedSetsAreFinite, FS_CardinalityType DEF IInv
  <2>2. b[c] \in Bijection(1..Cardinality(Running(c)), Running(c))
    BY <2>1 DEF ExistsBijection
  <2> HIDE DEF b
  <2>3. \E i \in 1..Cardinality(Running(c)) : b[c][i] = t
    BY <2>2, Fun_BijectionProperties, Fun_SurjectionProperties DEF Bijection, Surjection
  <2>4. Cardinality(Running(c)) <= MaxConcurrency
    BY DEF IInv, SlotsRespected
  <2> QED
    BY <2>1, <2>3, <2>4, LimitsAssumption
<1>2. ASSUME NEW u \in Users
      PROVE  /\ u = <<u[1], u[2]>> /\ u[1] \in Busy /\ u[2] \in Running(u[1])
             /\ slot[u] \in Slots /\ slot[u][1] = u[1] /\ b[u[1]][slot[u][2]] = u[2]
  <2>1. u = <<u[1], u[2]>> /\ u[1] \in Cycles /\ u[2] \in Running(u[1])
    BY DEF Users
  <2>2. u[1] \in Busy
    BY <2>1 DEF QuietUnlessGathering, Closing, Running
  <2>3. \E i \in 1..MaxConcurrency : b[u[1]][i] = u[2]
    BY <2>1, <1>1
  <2> HIDE DEF b
  <2> QED
    BY <2>1, <2>2, <2>3
<1>3. slot \in Injection(Users, Slots)
  <2>1. slot \in [Users -> Slots]
    BY <1>2
  <2>2. ASSUME NEW u \in Users, NEW v \in Users, slot[u] = slot[v] PROVE u = v
    <3> HIDE DEF b, slot
    <3> QED
      BY <1>2, <2>2
  <2> HIDE DEF slot
  <2> QED
    BY <2>1, <2>2 DEF Injection, IsInjective
<1>4. IsFiniteSet(Busy)
  BY TargetsAssumption, FS_Difference
<1>5. IsFiniteSet(1..MaxConcurrency) /\ Cardinality(1..MaxConcurrency) = MaxConcurrency
  <2>1. MaxConcurrency \in Int /\ 1 \in Int /\ ~ (1 > MaxConcurrency)
    BY LimitsAssumption
  <2>2. /\ IsFiniteSet(1..MaxConcurrency)
        /\ Cardinality(1..MaxConcurrency)
             = IF 1 > MaxConcurrency THEN 0 ELSE MaxConcurrency - 1 + 1
    BY <2>1, FS_Interval
  <2> QED
    BY <2>1, <2>2
<1>6. IsFiniteSet(Slots) /\ Cardinality(Slots) = Cardinality(Busy) * MaxConcurrency
  BY <1>4, <1>5, FS_Product
<1> QED
  BY <1>3, <1>6, FS_Injection

\* A task that waits for a connection is a user that holds none.
LEMMA RoomToOpen ==
  ASSUME IInv, QuietUnlessGathering, Room,
         NEW c \in Cycles, NEW t \in Targets, task[c][t] \in {"opening", "committed"}
  PROVE  PoolHasRoom
<1> DEFINE M == MaxConcurrency
           k == Cardinality(Closing)
           n == Cardinality(Cycles)
<1>1. /\ IsFiniteSet(Users) /\ Cardinality(Users) <= Cardinality(Cycles \ Closing) * M
      /\ Cardinality(Users) \in Nat
  BY UsersHaveSlots, FS_CardinalityType
<1>2. Cardinality(Holders) <= Cardinality(Users) - 1
  <2>1. <<c, t>> \in Users /\ Holders \in SUBSET (Users \ {<<c, t>>})
    BY DEF Users, Holders, Running
  <2>2. IsFiniteSet(Users \ {<<c, t>>})
        /\ Cardinality(Users \ {<<c, t>>}) = Cardinality(Users) - 1
    BY <1>1, <2>1, FS_RemoveElement
  <2> QED
    BY <2>1, <2>2, FS_Subset
<1>3. Cardinality(Holders) \in Nat /\ k \in Nat /\ n \in Nat
  BY CountedSetsAreFinite, FS_CardinalityType, TargetsAssumption DEF IInv
<1>4. Cardinality(Cycles \ Closing) = n - k /\ k <= n
  <2>1. Closing \subseteq Cycles
    BY DEF Closing
  <2>2. Cycles \cap Closing = Closing
    BY <2>1
  <2>3. Cardinality(Cycles \ Closing) = n - Cardinality(Cycles \cap Closing)
    BY TargetsAssumption, FS_Difference
  <2> QED
    BY <2>1, <2>2, <2>3, TargetsAssumption, FS_Subset
<1>5. Cardinality(Holders) + k < n * M
  <2> HIDE DEF M, k, n
  <2>1. M \in Nat /\ M >= 1
    BY LimitsAssumption DEF M
  <2>2. k <= k * M
    BY <2>1, <1>3
  <2>3. (n - k) * M + k * M = n * M
    BY <2>1, <1>3
  <2>4. Cardinality(Holders) <= (n - k) * M - 1
    BY <1>1, <1>2, <1>3, <1>4, <2>1
  <2> QED
    BY <2>1, <2>2, <2>3, <2>4, <1>3
<1> QED
  BY <1>3, <1>5, LimitsAssumption DEF PoolHasRoom, Connections, Room

LEMMA InitRInv == ASSUME Init PROVE RInv
  BY DEF Init, RInv, QuietUnlessGathering, GatheredBeforeClosing, EndedHasStatus,
         LostForAReason, NoTasks, NoStatus

\* The steps of a task: the wait for a connection has an end only where the pool is small.
LEMMA TaskRInv ==
  ASSUME IInv, RInv, NEW c \in Cycles, NEW t \in Targets,
         TaskProceeds(c, t) \/ TaskFails(c, t)
  PROVE  RInv'
<1> USE DEF IInv, RInv, targets, cycle, bounds, SetTask
<1>1. /\ UNCHANGED <<enabled, phase, row, picked, crashes, toggles>>
      /\ \E w \in {"opening", "checking", "committed", "notifying", "done"} :
           task' = [task EXCEPT ![c][t] = w]
      /\ task[c][t] \notin {"out", "done"}
      /\ errors' = 0 => errors = 0
  BY DEF TaskProceeds, Acquire, Open, PoolTimeout, CommitCheck, Refresh, Return, TaskFails,
         CountError, Running, TypeOK
<1>2. phase[c] = "gathering" /\ t \in picked[c]
  BY <1>1 DEF QuietUnlessGathering
<1>3. QuietUnlessGathering' /\ GatheredBeforeClosing' /\ LostForAReason'
  BY <1>1, <1>2 DEF QuietUnlessGathering, GatheredBeforeClosing, Gathered, LostForAReason,
     Room, TypeOK
<1>4. EndedHasStatus'
  <2> SUFFICES ASSUME Room, errors' = 0, toggles = 0
               PROVE  \A d \in Cycles, u \in Targets :
                        task'[d][u] = "done" => status'[d][u] # "none"
    BY <1>1 DEF EndedHasStatus, Room
  <2>1. /\ errors = 0 /\ enabled = Targets
        /\ \A d \in Cycles, u \in Targets : task[d][u] = "done" => status[d][u] # "none"
    BY <1>1 DEF EndedHasStatus
  <2>2. ~ PoolTimeout(c, t)
    BY RoomToOpen DEF PoolTimeout
  <2>3. ~ TaskFails(c, t)
    BY <2>1 DEF TaskFails, CountError
  <2>4. CASE Acquire(c, t) \/ Open(c, t) \/ CommitCheck(c, t) \/ Refresh(c, t)
    BY <2>1, <2>4 DEF Acquire, Open, CommitCheck, Refresh, TypeOK
  <2>5. CASE Return(c, t)
    BY <2>1, <2>5 DEF Return, TypeOK
  <2> QED
    BY <2>2, <2>3, <2>4, <2>5 DEF TaskProceeds
<1> QED
  BY <1>3, <1>4

\* A cycle begins, and ends, with every task where it should be.
LEMMA CycleRInv ==
  ASSUME IInv, RInv, NEW c \in Cycles,
         CycleProceeds(c) \/ CycleFails(c) \/ FailRaises(c) \/ PruneRow(c)
  PROVE  RInv'
<1> USE DEF IInv, RInv, targets, work, bounds, SetPhase
<1>1. CASE Start(c)
  BY <1>1 DEF Start, QuietUnlessGathering, GatheredBeforeClosing, Gathered, EndedHasStatus,
     LostForAReason, Room, NoTasks, NoStatus, NewRow, TypeOK
<1>2. CASE ListDue(c)
  <2> USE <1>2 DEF ListDue
  <2>1. QuietUnlessGathering' /\ GatheredBeforeClosing'
    BY DEF QuietUnlessGathering, GatheredBeforeClosing, Gathered, TypeOK
  <2>2. EndedHasStatus' /\ LostForAReason'
    BY DEF EndedHasStatus, LostForAReason, Room, TypeOK
  <2> QED
    BY <2>1, <2>2
<1>3. CASE BeginClosing(c)
  BY <1>3 DEF BeginClosing, QuietUnlessGathering, GatheredBeforeClosing, Gathered,
     EndedHasStatus, LostForAReason, Room, TypeOK
<1>4. CASE EndClosing(c)
  BY <1>4 DEF EndClosing, QuietUnlessGathering, GatheredBeforeClosing, Gathered,
     EndedHasStatus, LostForAReason, Room, TypeOK
<1>5. CASE Finish(c)
  <2> USE <1>5 DEF Finish
  <2>1. QuietUnlessGathering' /\ GatheredBeforeClosing' /\ EndedHasStatus'
    BY DEF QuietUnlessGathering, GatheredBeforeClosing, Gathered, EndedHasStatus, Room, TypeOK
  <2>2. ASSUME Room, errors = 0, toggles = 0 PROVE ~ Partial(c)
    <3>1. {t \in picked[c] : status[c][t] \in {"up", "failing"}} = picked[c]
      BY <2>2 DEF EndedHasStatus, GatheredBeforeClosing, Gathered, TypeOK
    <3>2. Cardinality(picked[c]) \in Nat
      BY CountedSetsAreFinite, FS_CardinalityType
    <3> QED
      BY <3>1, <3>2 DEF Partial, Returned
  <2>3. LostForAReason'
    BY <2>2 DEF LostForAReason, Room, TypeOK
  <2> QED
    BY <2>1, <2>3
<1>6. CASE Fail(c) \/ FailRaises(c)
  <2>1. /\ UNCHANGED <<picked, task, toggles>> /\ phase[c] = "failing"
        /\ phase' = [phase EXCEPT ![c] = "idle"]
        /\ errors' = 0 => errors = 0
    BY <1>6 DEF Fail, FailRaises, CountError, TypeOK
  <2>2. QuietUnlessGathering' /\ GatheredBeforeClosing'
    BY <2>1 DEF QuietUnlessGathering, GatheredBeforeClosing, Gathered, TypeOK
  <2>3. ~ (Room /\ errors' = 0 /\ toggles' = 0)
    BY <2>1 DEF EndedHasStatus
  <2> QED
    BY <2>2, <2>3 DEF EndedHasStatus, LostForAReason, Room
<1>7. CASE CycleFails(c)
  <2>1. QuietUnlessGathering' /\ GatheredBeforeClosing'
    BY <1>7 DEF CycleFails, QuietUnlessGathering, GatheredBeforeClosing, Gathered, TypeOK
  <2>2. errors' # 0
    BY <1>7 DEF CycleFails, CountError, TypeOK
  <2> QED
    BY <2>1, <2>2 DEF EndedHasStatus, LostForAReason
<1>8. CASE PruneRow(c)
  BY <1>8 DEF PruneRow, QuietUnlessGathering, GatheredBeforeClosing, Gathered,
     EndedHasStatus, LostForAReason, Room, TypeOK
<1> QED
  BY <1>1, <1>2, <1>3, <1>4, <1>5, <1>6, <1>7, <1>8 DEF CycleProceeds

LEMMA WorldRInv ==
  ASSUME IInv, RInv, Crash \/ (\E t \in Targets : BecomeDue(t) \/ Toggle(t))
  PROVE  RInv'
<1> USE DEF IInv, RInv, targets, cycle, work, bounds
<1>1. CASE Crash
  BY <1>1 DEF Crash, QuietUnlessGathering, GatheredBeforeClosing, Gathered, EndedHasStatus,
     LostForAReason, Room, NoTasks, TypeOK
<1>2. ASSUME NEW t \in Targets, BecomeDue(t) PROVE RInv'
  BY <1>2 DEF BecomeDue, QuietUnlessGathering, GatheredBeforeClosing, Gathered,
     EndedHasStatus, LostForAReason, Room
<1>3. ASSUME NEW t \in Targets, Toggle(t) PROVE RInv'
  <2>1. QuietUnlessGathering' /\ GatheredBeforeClosing'
    BY <1>3 DEF Toggle, QuietUnlessGathering, GatheredBeforeClosing, Gathered
  <2>2. toggles' # 0
    BY <1>3 DEF Toggle, TypeOK
  <2> QED
    BY <2>1, <2>2 DEF EndedHasStatus, LostForAReason
<1> QED
  BY <1>1, <1>2, <1>3

LEMMA StepRInv == ASSUME IInv, RInv, [Next]_vars PROVE RInv'
<1>1. CASE UNCHANGED vars
  BY <1>1 DEF RInv, vars, targets, cycle, work, bounds, QuietUnlessGathering,
     GatheredBeforeClosing, Gathered, EndedHasStatus, LostForAReason, Room
<1> QED
  BY <1>1, TaskRInv, CycleRInv, WorldRInv DEF Next

\* With a connection for every slot of the cycles that overlap, a row says PARTIAL or
\* FAILED only after an exception or a change of a target: that a task gives its
\* connection back at the commit of its check and asks for another loses nothing.
THEOREM NoCheckIsLostForRoom == Spec => []LostForAReason
<1>1. Init => RInv
  BY InitRInv
<1>2. IInv /\ RInv /\ [Next]_vars => RInv'
  BY StepRInv
<1>3. RInv => LostForAReason
  BY DEF RInv
<1> QED
  BY <1>1, <1>2, <1>3, Invariance, PTL DEF Spec
=============================================================================
