--------------------------- MODULE RequestConfig ---------------------------
(***************************************************************************)
(* The encrypted headers and body of one target: the PATCH requests that   *)
(* change them and the checks that read them.  Each secret is two columns, *)
(* the ciphertext and a flag that says whether there is one.               *)
(*                                                                         *)
(* A PATCH reads the row when it starts and writes it in one transaction   *)
(* when its body has been applied; the row is not locked in between, and   *)
(* the flush writes the columns that differ from what was read.  A check   *)
(* reads the whole row at once (HttpChecker).  A ciphertext is modelled by *)
(* what it decrypts to; two encryptions of one value differ (Fernet).      *)
(***************************************************************************)
EXTENDS Integers

CONSTANTS
  Sessions,    \* the PATCH requests that may overlap
  Values,      \* what a client may send, Empty among them
  Empty,       \* {}: no headers, but a body
  MaxPatches,  \* bound: PATCH requests in a behaviour
  Omitted, Null, NoRow

ASSUME ValuesAssumption ==
  Empty \in Values /\ Omitted \notin Values /\ Null \notin Values /\ Omitted # Null
ASSUME MaxPatchesAssumption == MaxPatches \in Nat

Fields == {"headers", "body"}
Columns == [secret : Values \union {Null}, flag : BOOLEAN]
Row == [Fields -> Columns]

ASSUME NoRowAssumption == NoRow \notin Row

VARIABLES
  row,      \* the committed columns, or NoRow once the target is deleted
  pc,       \* where each PATCH stands
  loaded,   \* the columns as session.get read them
  payload,  \* for each field what the PATCH sends: Omitted, Null or a value
  patches,
  asked,    \* history: for each field what the last PATCH to name it asked for
  standing  \* history: the same without the clears that had found the field empty

vars == <<row, pc, loaded, payload, patches, asked, standing>>

-----------------------------------------------------------------------------
\* `if not headers`, `if body is None`
Erases(f, v) == v = Null \/ (f = "headers" /\ v = Empty)

\* Mutant: the value itself is assigned to the flag.
StoredInFlag(f, v) ==
  IF Erases(f, v) THEN [secret |-> Null, flag |-> FALSE]
                  ELSE [secret |-> v, flag |-> v]

\* set_headers and set_body
Stored(f, v) ==
  IF Erases(f, v) THEN [secret |-> Null, flag |-> FALSE]
                  ELSE [secret |-> v, flag |-> TRUE]

Init ==
  /\ \E sent \in [Fields -> Values \union {Null}] :
       /\ row = [f \in Fields |-> Stored(f, sent[f])]
       /\ asked = [f \in Fields |-> Stored(f, sent[f]).secret]
       /\ standing = asked
  /\ pc = [s \in Sessions |-> "idle"]
  /\ loaded = [s \in Sessions |-> NoRow]
  /\ payload = [s \in Sessions |-> [f \in Fields |-> Omitted]]
  /\ patches = 0

\* session.get; the request names any of the fields, or only others.
Load(s) ==
  /\ pc[s] = "idle" /\ row # NoRow
  /\ patches < MaxPatches /\ patches' = patches + 1
  /\ loaded' = [loaded EXCEPT ![s] = row]
  /\ \E sent \in [Fields -> Values \union {Null, Omitted}] :
       payload' = [payload EXCEPT ![s] = sent]
  /\ pc' = [pc EXCEPT ![s] = "loaded"]
  /\ UNCHANGED <<row, asked, standing>>

Close(s) ==
  /\ pc' = [pc EXCEPT ![s] = "idle"]
  /\ loaded' = [loaded EXCEPT ![s] = NoRow]
  /\ payload' = [payload EXCEPT ![s] = [f \in Fields |-> Omitted]]

\* The flush; a new ciphertext differs from any that was read.
Flushed(s, f) ==
  LET read == loaded[s][f]
      new == Stored(f, payload[s][f])
  IN  IF payload[s][f] = Omitted THEN row[f] ELSE
      [secret |-> IF new.secret # Null \/ read.secret # Null
                  THEN new.secret ELSE row[f].secret,
       flag |-> IF new.flag # read.flag THEN new.flag ELSE row[f].flag]

\* What a PATCH that commits asked for; `stands` unless it clears what it had
\* found empty.
Asks(s, f) == payload[s][f] # Omitted
Stands(s, f) ==
  Asks(s, f) /\ (~ Erases(f, payload[s][f]) \/ loaded[s][f] # Stored(f, Null))

Remember(s) ==
  /\ asked' = [f \in Fields |->
       IF Asks(s, f) THEN Stored(f, payload[s][f]).secret ELSE asked[f]]
  /\ standing' = [f \in Fields |->
       IF Stands(s, f) THEN Stored(f, payload[s][f]).secret ELSE standing[f]]

\* Mutant: the update starts from the row that was read and writes all of it.
SaveWhole(s) ==
  /\ pc[s] = "loaded" /\ row # NoRow
  /\ row' = [f \in Fields |->
       IF payload[s][f] = Omitted THEN loaded[s][f] ELSE Stored(f, payload[s][f])]
  /\ Remember(s)
  /\ Close(s)
  /\ UNCHANGED patches

\* MonitoringTargetRepository.update and the COMMIT.
Save(s) ==
  /\ pc[s] = "loaded" /\ row # NoRow
  /\ row' = [f \in Fields |-> Flushed(s, f)]
  /\ Remember(s)
  /\ Close(s)
  /\ UNCHANGED patches

\* No encryption key (503), the target was deleted, or the database failed.
Refuse(s) ==
  /\ pc[s] = "loaded"
  /\ Close(s)
  /\ UNCHANGED <<row, patches, asked, standing>>

\* DELETE
Delete ==
  /\ row # NoRow
  /\ row' = NoRow
  /\ UNCHANGED <<pc, loaded, payload, patches, asked, standing>>

Next ==
  \/ \E s \in Sessions : Load(s) \/ Save(s) \/ Refuse(s)
  \/ Delete

Spec == Init /\ [][Next]_vars

-----------------------------------------------------------------------------
(* What a check takes from the row, get_headers and get_body; a flag without *)
(* its ciphertext ends the check.                                             *)

Sends(f) == IF row[f].flag THEN row[f].secret ELSE Null

-----------------------------------------------------------------------------
TypeOK ==
  /\ row \in Row \union {NoRow}
  /\ pc \in [Sessions -> {"idle", "loaded"}]
  /\ loaded \in [Sessions -> Row \union {NoRow}]
  /\ payload \in [Sessions -> [Fields -> Values \union {Null, Omitted}]]
  /\ patches \in 0..MaxPatches
  /\ asked \in [Fields -> Values \union {Null}]
  /\ standing \in [Fields -> Values \union {Null}]

\* However PATCH requests overlap, and whatever fields they omit, a check never sends
\* a secret that a later PATCH replaced, nor one that a later PATCH cleared: what it
\* sends, if anything, is the last that was set (update, set_headers, set_body).
\* A clear counts only if the PATCH had found something to clear; one that had
\* found the field empty changes nothing, which NullClears is about.
NoOldSecret ==
  row # NoRow => \A f \in Fields : Sends(f) # Null => Sends(f) = standing[f]

\* app/schemas/monitoring_target.py:140 and :146, "send null or an empty object to clear
\* them", "send null to clear it": once the last PATCH to name a field has cleared it, no
\* check sends it.
NullClears ==
  row # NoRow => \A f \in Fields : asked[f] = Null => Sends(f) = Null
=============================================================================
