--------------------------- MODULE IncidentPolicy ---------------------------
(***************************************************************************)
(* What the incident rules promise for one target, whatever rows and       *)
(* counters implement them: the service is down from the moment the last   *)
(* FailuresToOpen checks failed until SuccessesToResolve checks in a row   *)
(* are healthy.  A degraded check is neither a failure nor a success.      *)
(***************************************************************************)
EXTENDS Integers, Sequences

CONSTANTS FailuresToOpen, SuccessesToResolve

VARIABLES
  results,   \* the results of the checks so far
  down       \* whether an incident is open

Failing == {"unhealthy", "timeout", "configuration_error"}

\* The n results that end at position p all lie in S.
Streak(seq, p, n, S) == n <= p /\ \A i \in (p - n + 1)..p : seq[i] \in S

Confirmed(seq) ==
  \E p \in DOMAIN seq :
    /\ Streak(seq, p, FailuresToOpen, Failing)
    /\ \A q \in (p + 1)..Len(seq) :
         ~ Streak(seq, q, SuccessesToResolve, {"healthy"})

Init == results = <<>> /\ down = FALSE

Observe ==
  \E r \in Failing \union {"healthy", "degraded"} :
    /\ results' = Append(results, r)
    /\ down' = Confirmed(results')

Forget == results' = <<>> /\ down' = FALSE

Next == Observe \/ Forget

Spec == Init /\ [][Next]_<<results, down>>
=============================================================================
