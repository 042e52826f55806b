--------------------------- MODULE IncidentLedger ---------------------------
(***************************************************************************)
(* What the incidents table promises for one target: incidents are opened  *)
(* one at a time, each is resolved at most once and never reopened, and    *)
(* only the deletion of the target erases them.                            *)
(***************************************************************************)
EXTENDS Integers, Sequences

VARIABLE ledger   \* the statuses of the incidents, in order of creation

Init == ledger = <<>>

Open ==
  /\ \A i \in DOMAIN ledger : ledger[i] = "resolved"
  /\ ledger' = Append(ledger, "open")

Resolve ==
  \E i \in DOMAIN ledger :
    /\ ledger[i] = "open"
    /\ ledger' = [ledger EXCEPT ![i] = "resolved"]

Erase == ledger' = <<>>

Next == Open \/ Resolve \/ Erase

Spec == Init /\ [][Next]_ledger
=============================================================================
