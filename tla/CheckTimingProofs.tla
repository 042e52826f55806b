------------------------- MODULE CheckTimingProofs -------------------------
(***************************************************************************)
(* For every period, duration and set of intervals: an enabled target is   *)
(* checked in time, a target that is served is not stale, and a target is  *)
(* not stale unnoticed by the watchdog.  The clock                         *)
(* never reaches a second call of the cron while a check of the first is   *)
(* in flight; the invariant relates the next call of the cron to the time  *)
(* from which the target waits.                                            *)
(***************************************************************************)
EXTENDS CheckTiming, TLAPS

\* next_check_at is the last check and its interval.
NextIsPlanned == next = last + used

\* The clock is between two calls of the cron, and what has happened is past.
ClockInPeriod ==
  /\ last <= now /\ since <= now
  /\ now <= nextCron /\ nextCron <= now + CronPeriod

\* No check lasts longer than MaxDuration.
FlightIsShort ==
  \A s \in Sources : flight[s] # NoCheck =>
    flight[s].start <= now /\ now <= flight[s].start + MaxDuration

\* A check of the cron began with its last call, which was not too late.
CronFlight ==
  flight["cron"] # NoCheck =>
    /\ nextCron = flight["cron"].start + CronPeriod
    /\ flight["cron"].start <= Waiting + grace + CronPeriod

\* If none is in flight, the next call is not too late.
CronAhead ==
  enabled /\ flight["cron"] = NoCheck => nextCron <= Waiting + grace + CronPeriod

IInv == TypeOK /\ NextIsPlanned /\ ClockInPeriod /\ FlightIsShort /\ CronFlight /\ CronAhead

-----------------------------------------------------------------------------
LEMMA InitIInv == ASSUME Init PROVE IInv
<1> USE TimesAssumption DEF Init
<1>1. TypeOK
  BY DEF TypeOK
<1>2. NextIsPlanned /\ ClockInPeriod
  BY DEF NextIsPlanned, ClockInPeriod
<1>3. FlightIsShort /\ CronFlight
  BY DEF FlightIsShort, CronFlight, Sources
<1>4. CronAhead
  BY DEF CronAhead, Waiting
<1> QED
  BY <1>1, <1>2, <1>3, <1>4 DEF IInv

LEMMA WaitingIsTime == TypeOK => Waiting \in Nat
  BY TimesAssumption DEF TypeOK, Waiting

LEMMA TickIInv == ASSUME IInv, Tick PROVE IInv'
<1> USE TimesAssumption, NoCheckAssumption DEF IInv, Tick, cron, row, history
<1>1. TypeOK'
  BY DEF TypeOK
<1>2. NextIsPlanned' /\ ClockInPeriod'
  BY DEF NextIsPlanned, ClockInPeriod, TypeOK
<1>3. FlightIsShort'
  <2> SUFFICES ASSUME NEW s \in Sources, flight[s] # NoCheck
               PROVE  flight[s].start <= now' /\ now' <= flight[s].start + MaxDuration
    BY DEF FlightIsShort
  <2>1. flight[s] \in Check
    BY DEF TypeOK
  <2> QED
    BY <2>1 DEF FlightIsShort, TypeOK, Check
<1>4. CronFlight' /\ CronAhead'
  BY DEF CronFlight, CronAhead, Waiting
<1> QED
  BY <1>1, <1>2, <1>3, <1>4

LEMMA CronCallsIInv == ASSUME IInv, CronCalls PROVE IInv'
<1> USE TimesAssumption, NoCheckAssumption DEF IInv, CronCalls, row, history
<1> "cron" \in Sources
  BY DEF Sources
<1>1. flight["cron"] = NoCheck
  <2> SUFFICES ASSUME flight["cron"] # NoCheck PROVE FALSE
    OBVIOUS
  <2>1. flight["cron"].start \in Nat
    BY DEF TypeOK, Check
  <2>2. now <= flight["cron"].start + MaxDuration
    BY DEF FlightIsShort
  <2>3. now = flight["cron"].start + CronPeriod
    BY DEF CronFlight
  <2> QED
    BY <2>1, <2>2, <2>3 DEF TypeOK
<1>2. Loaded \in Check /\ Loaded.start = now /\ Loaded # NoCheck
  BY DEF Loaded, Check, TypeOK
<1>3. TypeOK'
  BY <1>2 DEF TypeOK
<1>4. NextIsPlanned' /\ ClockInPeriod'
  BY DEF NextIsPlanned, ClockInPeriod, TypeOK
<1>5. FlightIsShort'
  BY <1>2 DEF FlightIsShort, TypeOK
<1>6. Waiting' = Waiting /\ Waiting \in Nat /\ last + used <= Waiting
  BY WaitingIsTime DEF Waiting, TypeOK
<1>7. CASE Due
  <2>1. flight'["cron"] = Loaded
    BY <1>7 DEF TypeOK
  <2>2. now <= Waiting + grace + CronPeriod
    BY <1>1, <1>7 DEF CronAhead, Due
  <2> QED
    BY <1>2, <1>3, <1>4, <1>5, <1>6, <2>1, <2>2 DEF CronFlight, CronAhead
<1>8. CASE ~ Due
  <2>1. flight'["cron"] = NoCheck
    BY <1>1, <1>8
  <2>2. enabled => nextCron' <= Waiting + grace + CronPeriod
    BY <1>6, <1>8 DEF Due, NextIsPlanned, TypeOK
  <2> QED
    BY <1>3, <1>4, <1>5, <1>6, <2>1, <2>2 DEF CronFlight, CronAhead
<1> QED
  BY <1>7, <1>8

LEMMA MissCallIInv == ASSUME IInv, MissCall PROVE IInv'
<1> USE TimesAssumption DEF IInv, MissCall, row
<1>1. TypeOK'
  BY DEF TypeOK
<1>2. NextIsPlanned' /\ ClockInPeriod' /\ FlightIsShort'
  BY DEF NextIsPlanned, ClockInPeriod, FlightIsShort, TypeOK
<1>3. Waiting' = Waiting /\ Waiting \in Nat
  BY WaitingIsTime DEF Waiting
<1>4. flight["cron"] = NoCheck
  <2> SUFFICES ASSUME flight["cron"] # NoCheck PROVE FALSE
    OBVIOUS
  <2>1. flight["cron"].start \in Nat
    BY DEF TypeOK, Check, Sources
  <2>2. now <= flight["cron"].start + MaxDuration
    BY DEF FlightIsShort, Sources
  <2>3. now = flight["cron"].start + CronPeriod
    BY DEF CronFlight
  <2> QED
    BY <2>1, <2>2, <2>3 DEF TypeOK
<1>5. CronFlight' /\ CronAhead'
  BY <1>3, <1>4 DEF CronFlight, CronAhead, TypeOK
<1> QED
  BY <1>1, <1>2, <1>5

LEMMA ManualCheckIInv == ASSUME IInv, ManualCheck PROVE IInv'
<1> USE TimesAssumption, NoCheckAssumption DEF IInv, ManualCheck, cron, row, history
<1>1. Loaded \in Check /\ Loaded.start = now
  BY DEF Loaded, Check, TypeOK
<1>2. TypeOK'
  BY <1>1 DEF TypeOK
<1>3. NextIsPlanned' /\ ClockInPeriod'
  BY DEF NextIsPlanned, ClockInPeriod
<1>4. FlightIsShort'
  BY <1>1 DEF FlightIsShort, TypeOK
<1>5. flight'["cron"] = flight["cron"]
  BY DEF TypeOK, Sources
<1> QED
  BY <1>2, <1>3, <1>4, <1>5 DEF CronFlight, CronAhead, Waiting

LEMMA CommitIInv == ASSUME IInv, NEW s \in Sources, Commit(s) PROVE IInv'
<1> USE TimesAssumption, NoCheckAssumption DEF IInv, Commit, NextCheck, cron
<1>1. flight[s] \in Check
  BY DEF TypeOK
<1>2. TypeOK'
  <2>1. flight' \in [Sources -> Check \union {NoCheck}]
    BY DEF TypeOK
  <2>2. used' \in {0} \union Intervals /\ next' \in Nat /\ last' \in Nat
    BY <1>1 DEF TypeOK, Check
  <2>3. checked' \in BOOLEAN /\ lost' \in BOOLEAN /\ grace' \in Nat
    OBVIOUS
  <2>4. now' \in Nat /\ nextCron' \in Nat /\ lastRun' \in Nat /\ since' \in Nat
    BY DEF TypeOK
  <2>5. ran' \in BOOLEAN /\ enabled' \in BOOLEAN
    <3>1. ran' = ran /\ enabled' = enabled
      OBVIOUS
    <3> QED
      BY <3>1 DEF TypeOK
  <2>6. interval' \in Intervals
    BY DEF TypeOK
  <2> QED
    BY <2>1, <2>2, <2>3, <2>4, <2>5, <2>6 DEF TypeOK
<1>3. NextIsPlanned' /\ ClockInPeriod'
  BY <1>1 DEF NextIsPlanned, ClockInPeriod, TypeOK
<1>4. FlightIsShort'
  BY DEF FlightIsShort, TypeOK
<1>5. Waiting' \in Nat /\ now <= Waiting'
  BY <1>1 DEF Waiting, TypeOK, Check
<1>6. CronFlight'
  <2> SUFFICES ASSUME flight'["cron"] # NoCheck PROVE CronFlight'
    BY DEF CronFlight
  <2>1. flight'["cron"] = flight["cron"] /\ flight["cron"] \in Check
    BY DEF TypeOK, Sources
  <2>2. flight["cron"].start <= now /\ flight["cron"].start \in Nat
    BY <2>1 DEF FlightIsShort, Sources, Check
  <2>3. nextCron = flight["cron"].start + CronPeriod
    BY <2>1 DEF CronFlight
  <2> QED
    BY <1>5, <2>1, <2>2, <2>3 DEF CronFlight, TypeOK
<1>7. CronAhead'
  <2>1. /\ nextCron' = nextCron /\ grace' = 0
        /\ nextCron \in Nat /\ now \in Nat /\ CronPeriod \in Nat
        /\ nextCron <= now + CronPeriod
    BY DEF ClockInPeriod, TypeOK
  <2>2. last' = now /\ used' \in Nat /\ since' \in Nat
    BY <1>1 DEF TypeOK, Check
  <2> QED
    BY <2>1, <2>2 DEF CronAhead, Waiting
<1> QED
  BY <1>2, <1>3, <1>4, <1>6, <1>7

LEMMA LoseIInv == ASSUME IInv, NEW s \in Sources, Lose(s) PROVE IInv'
<1> USE TimesAssumption, NoCheckAssumption DEF IInv, Lose, cron, row
<1>1. flight[s] \in Check
  BY DEF TypeOK
<1>2. TypeOK'
  BY DEF TypeOK
<1>3. NextIsPlanned' /\ ClockInPeriod'
  BY DEF NextIsPlanned, ClockInPeriod
<1>4. FlightIsShort'
  BY DEF FlightIsShort, TypeOK
<1>5. Waiting' = Waiting /\ Waiting \in Nat
  BY WaitingIsTime DEF Waiting
<1>6. CASE s = "cron"
  <2>1. flight'["cron"] = NoCheck
    BY <1>6 DEF TypeOK
  <2>2. nextCron = flight["cron"].start + CronPeriod
        /\ flight["cron"].start <= Waiting + grace + CronPeriod
    BY <1>6 DEF CronFlight
  <2>3. nextCron' <= Waiting' + grace' + CronPeriod
    BY <1>1, <1>5, <1>6, <2>2 DEF TypeOK, Check
  <2> QED
    BY <1>2, <1>3, <1>4, <2>1, <2>3 DEF CronFlight, CronAhead
<1>7. CASE s # "cron"
  <2>1. flight'["cron"] = flight["cron"] /\ grace' = grace
    BY <1>7 DEF TypeOK, Sources
  <2> QED
    BY <1>2, <1>3, <1>4, <1>5, <2>1 DEF CronFlight, CronAhead
<1> QED
  BY <1>6, <1>7

LEMMA PatchIntervalIInv == ASSUME IInv, PatchInterval PROVE IInv'
<1> USE DEF IInv, PatchInterval, cron, history
<1>1. TypeOK'
  BY DEF TypeOK
<1>2. NextIsPlanned' /\ ClockInPeriod' /\ FlightIsShort' /\ CronFlight' /\ CronAhead'
  BY DEF NextIsPlanned, ClockInPeriod, FlightIsShort, CronFlight, CronAhead, Waiting
<1> QED
  BY <1>1, <1>2

LEMMA PatchEnabledIInv == ASSUME IInv, PatchEnabled PROVE IInv'
<1> USE TimesAssumption, NoCheckAssumption DEF IInv, PatchEnabled, cron
<1>1. TypeOK'
  BY DEF TypeOK
<1>2. NextIsPlanned' /\ ClockInPeriod' /\ FlightIsShort'
  BY DEF NextIsPlanned, ClockInPeriod, FlightIsShort, TypeOK
<1>3. Waiting \in Nat /\ Waiting' \in Nat /\ Waiting <= Waiting'
  BY <1>1, WaitingIsTime DEF Waiting, TypeOK, ClockInPeriod
<1>4. CronFlight'
  <2> SUFFICES ASSUME flight["cron"] # NoCheck PROVE CronFlight'
    BY DEF CronFlight
  <2>1. flight["cron"].start \in Nat
    BY DEF TypeOK, Sources, Check
  <2> QED
    BY <1>3, <2>1 DEF CronFlight, TypeOK
<1>5. CronAhead'
  <2> SUFFICES ASSUME ~ enabled PROVE nextCron <= Waiting' + grace + CronPeriod
    BY DEF CronAhead, TypeOK
  <2>1. /\ nextCron \in Nat /\ now \in Nat /\ grace \in Nat /\ CronPeriod \in Nat
        /\ nextCron <= now + CronPeriod
    BY DEF ClockInPeriod, TypeOK
  <2>2. since' = now /\ last' + used' \in Nat
    BY TimesAssumption DEF TypeOK
  <2> QED
    BY <2>1, <2>2 DEF Waiting
<1> QED
  BY <1>1, <1>2, <1>4, <1>5

LEMMA StepIInv == IInv /\ [Next]_vars => IInv'
<1> SUFFICES ASSUME IInv, [Next]_vars PROVE IInv'
  OBVIOUS
<1>1. CASE UNCHANGED vars
  BY <1>1 DEF vars, cron, row, history, IInv, TypeOK, NextIsPlanned, ClockInPeriod,
     FlightIsShort, CronFlight, CronAhead, Waiting
<1>2. CASE Tick
  BY <1>2, TickIInv
<1>3. CASE CronCalls
  BY <1>3, CronCallsIInv
<1>4. CASE ManualCheck
  BY <1>4, ManualCheckIInv
<1>5. CASE PatchInterval
  BY <1>5, PatchIntervalIInv
<1>6. CASE PatchEnabled
  BY <1>6, PatchEnabledIInv
<1>7. CASE \E s \in Sources : Commit(s) \/ Lose(s)
  BY <1>7, CommitIInv, LoseIInv
<1>8. CASE MissCall
  BY <1>8, MissCallIInv
<1> QED
  BY <1>1, <1>2, <1>3, <1>4, <1>5, <1>6, <1>7, <1>8 DEF Next

THEOREM Invariance == Spec => []IInv
  BY InitIInv, StepIInv, PTL DEF Spec

-----------------------------------------------------------------------------
LEMMA InTime == IInv => CheckedInTime
<1> SUFFICES ASSUME IInv, enabled
             PROVE  now <= Waiting + grace + CronPeriod + MaxDuration
  BY DEF CheckedInTime
<1> USE TimesAssumption DEF IInv
<1>1. Waiting \in Nat
  BY WaitingIsTime
<1>2. CASE flight["cron"] = NoCheck
  BY <1>1, <1>2 DEF CronAhead, ClockInPeriod, TypeOK
<1>3. CASE flight["cron"] # NoCheck
  <2>1. flight["cron"].start \in Nat
    BY <1>3 DEF TypeOK, Sources, Check
  <2>2. now <= flight["cron"].start + MaxDuration
    BY <1>3 DEF FlightIsShort, Sources
  <2> QED
    BY <1>1, <1>3, <2>1, <2>2 DEF CronFlight, TypeOK
<1> QED
  BY <1>2, <1>3

\* list_due_ids and run_target: an enabled target is always checked in time.
THEOREM TargetsAreCheckedInTime == Spec => []CheckedInTime
  BY Invariance, InTime, PTL

LEMMA StaleAfterIsTime == TypeOK => StaleAfter \in Nat
<1> SUFFICES ASSUME TypeOK PROVE StaleAfter \in Nat
  OBVIOUS
<1> DEFINE ticks == interval * Multiplier
<1>1. ticks \in Nat
  BY TimesAssumption DEF TypeOK
<1> HIDE DEF ticks
<1>2. ticks \div 10 \in Nat
  BY <1>1
<1> QED
  BY <1>2, TimesAssumption DEF StaleAfter, ticks

\* StatusService.evaluate: no target that is served is reported as stale.
THEOREM ServedTargetsAreFresh == Spec => []FreshIfServed
<1>1. IInv => FreshIfServed
  <2> SUFFICES ASSUME IInv, since <= last + used, grace = 0, IsStale,
                      used + CronPeriod + MaxDuration <= StaleAfter
               PROVE  FALSE
    BY DEF FreshIfServed
  <2>1. StaleAfter \in Nat
    BY StaleAfterIsTime DEF IInv
  <2>2. now <= Waiting + grace + CronPeriod + MaxDuration
    BY InTime DEF CheckedInTime, IsStale
  <2>3. Waiting = last + used
    BY TimesAssumption DEF Waiting, IInv, TypeOK
  <2> QED
    BY <2>1, <2>2, <2>3, TimesAssumption DEF IsStale, IInv, TypeOK
<1> QED
  BY <1>1, Invariance, PTL

-----------------------------------------------------------------------------
(* The watchdog. *)

\* After the latest run an enabled target was not yet due, or was enabled, or is
\* being checked, or its check was lost.
RunServed ==
  /\ lastRun <= now
  /\ enabled /\ ran => \/ lastRun <= next \/ lastRun <= since
                      \/ flight["cron"] # NoCheck \/ lost

LEMMA CommitRunServed ==
  ASSUME IInv, RunServed, NEW s \in Sources, Commit(s) PROVE RunServed'
<1> USE TimesAssumption DEF Commit, NextCheck, cron
<1>1. flight[s] \in Check
  BY DEF IInv, TypeOK
<1>2. lastRun' <= now' /\ lastRun' <= next'
  BY <1>1 DEF RunServed, IInv, TypeOK, Check
<1> QED
  BY <1>2 DEF RunServed

LEMMA LoseRunServed ==
  ASSUME IInv, RunServed, NEW s \in Sources, Lose(s) PROVE RunServed'
<1> USE DEF Lose, cron, row
<1>1. s # "cron" => flight'["cron"] = flight["cron"]
  BY DEF IInv, TypeOK, Sources
<1>2. s = "cron" => lost'
  OBVIOUS
<1> QED
  BY <1>1, <1>2 DEF RunServed

LEMMA StepRunServed == IInv /\ RunServed /\ [Next]_vars => RunServed'
<1> SUFFICES ASSUME IInv, RunServed, [Next]_vars PROVE RunServed'
  OBVIOUS
<1> USE TimesAssumption
<1>1. CASE UNCHANGED vars
  BY <1>1 DEF vars, cron, row, history, RunServed
<1>2. CASE Tick
  BY <1>2 DEF Tick, cron, row, history, RunServed, IInv, TypeOK
<1>3. CASE CronCalls
  <2> USE <1>3 DEF CronCalls, row, history
  <2>1. CASE Due
    <3>1. Loaded # NoCheck
      BY NoCheckAssumption DEF Loaded, Check, IInv, TypeOK
    <3>2. flight'["cron"] = Loaded
      BY <2>1 DEF IInv, TypeOK, Sources
    <3> QED
      BY <3>1, <3>2 DEF RunServed, IInv, TypeOK
  <2>2. CASE ~ Due
    BY <2>2 DEF Due, RunServed, IInv, TypeOK
  <2> QED
    BY <2>1, <2>2
<1>4. CASE MissCall
  BY <1>4 DEF MissCall, row, RunServed
<1>5. CASE ManualCheck
  <2>1. flight'["cron"] = flight["cron"]
    BY <1>5 DEF ManualCheck, IInv, TypeOK, Sources
  <2> QED
    BY <1>5, <2>1 DEF ManualCheck, cron, row, history, RunServed
<1>6. CASE PatchInterval
  BY <1>6 DEF PatchInterval, cron, history, RunServed
<1>7. CASE PatchEnabled
  BY <1>7 DEF PatchEnabled, cron, RunServed, IInv, TypeOK
<1>8. CASE \E s \in Sources : Commit(s) \/ Lose(s)
  BY <1>8, CommitRunServed, LoseRunServed
<1> QED
  BY <1>1, <1>2, <1>3, <1>4, <1>5, <1>6, <1>7, <1>8 DEF Next

LEMMA WatchdogAfterIsTime == WatchdogAfter \in Nat
<1> DEFINE ticks == ExpectedInterval * WatchdogMultiplier
<1>1. ticks \in Nat
  BY TimesAssumption
<1> HIDE DEF ticks
<1>2. ticks \div 10 \in Nat
  BY <1>1
<1> QED
  BY <1>2, TimesAssumption DEF WatchdogAfter, ticks

\* SystemStatusService: a served target that is stale is not stale unnoticed.
THEOREM StaleTargetsAreReported == Spec => []StaleIsReported
<1>1. Init => RunServed
  BY DEF Init, RunServed
<1>2. IInv /\ RunServed => StaleIsReported
  <2> SUFFICES ASSUME IInv, RunServed, IsStale, since <= last + used, ~ lost,
                      flight["cron"] = NoCheck, used + WatchdogAfter <= StaleAfter,
                      SchedulerStatus = "healthy"
               PROVE  FALSE
    BY DEF StaleIsReported
  <2>1. StaleAfter \in Nat /\ WatchdogAfter \in Nat
    BY StaleAfterIsTime, WatchdogAfterIsTime DEF IInv
  <2>2. ran /\ now <= lastRun + WatchdogAfter
    BY <2>1 DEF SchedulerStatus, IInv, TypeOK
  <2>3. lastRun <= last + used
    BY <2>2, TimesAssumption DEF RunServed, IsStale, IInv, TypeOK, NextIsPlanned
  <2>4. now > last + StaleAfter
    BY DEF IsStale
  <2>5. now \in Nat /\ lastRun \in Nat /\ last \in Nat /\ used \in Nat
    BY TimesAssumption DEF IInv, TypeOK
  <2> QED
    BY <2>1, <2>2, <2>3, <2>4, <2>5
<1> QED
  BY <1>1, <1>2, Invariance, StepRunServed, PTL DEF Spec

\* The types of the row and of the clock.
THEOREM TypeCorrect == Spec => []TypeOK
<1>1. IInv => TypeOK
  BY DEF IInv
<1> QED
  BY <1>1, Invariance, PTL
=============================================================================
