------------------------ MODULE RequestConfigProofs ------------------------
(***************************************************************************)
(* For any number of PATCH requests, values and sessions: the columns have *)
(* their types and no secret that was replaced, or that was there to be    *)
(* cleared, is sent.  Both are inductive together: a PATCH that sets a     *)
(* secret flushes its ciphertext, whatever it had read, and only such a    *)
(* PATCH raises the flag; one that clears flushes the column it had read   *)
(* as set, and the check needs both.                                       *)
(***************************************************************************)
EXTENDS RequestConfig, TLAPS

\* A PATCH that has not ended holds the row that it read.
LoadedIsRow == \A s \in Sessions : pc[s] = "loaded" => loaded[s] \in Row

IInv == TypeOK /\ LoadedIsRow /\ NoOldSecret

\* The two columns as they are stored have their types.
LEMMA StoredIsColumns ==
  ASSUME NEW f \in Fields, NEW v \in Values \union {Null}
  PROVE  Stored(f, v) \in Columns
  BY DEF Stored, Erases, Columns

LEMMA InitIInv == ASSUME Init PROVE IInv
<1>1. PICK sent \in [Fields -> Values \union {Null}] :
        /\ row = [f \in Fields |-> Stored(f, sent[f])]
        /\ asked = [f \in Fields |-> Stored(f, sent[f]).secret]
        /\ standing = asked
  BY DEF Init
<1>2. \A f \in Fields : Stored(f, sent[f]) \in Columns
  BY StoredIsColumns
<1>3. row \in Row /\ asked \in [Fields -> Values \union {Null}] /\ standing = asked
  BY <1>1, <1>2 DEF Row, Columns
<1>4. TypeOK
  BY <1>3, MaxPatchesAssumption DEF Init, TypeOK
<1>5. NoOldSecret
  BY <1>1 DEF NoOldSecret, Sends
<1>6. LoadedIsRow
  BY DEF Init, LoadedIsRow
<1> QED
  BY <1>4, <1>5, <1>6 DEF IInv

LEMMA CloseKeepsTypes ==
  ASSUME TypeOK, NEW s \in Sessions, Close(s)
  PROVE  /\ pc' \in [Sessions -> {"idle", "loaded"}]
         /\ loaded' \in [Sessions -> Row \union {NoRow}]
         /\ payload' \in [Sessions -> [Fields -> Values \union {Null, Omitted}]]
         /\ LoadedIsRow => LoadedIsRow'
  BY DEF TypeOK, Close, LoadedIsRow

\* The history has its types, whether a PATCH stands or not.
LEMMA RememberKeepsTypes ==
  ASSUME TypeOK, NEW s \in Sessions, Remember(s)
  PROVE  /\ asked' \in [Fields -> Values \union {Null}]
         /\ standing' \in [Fields -> Values \union {Null}]
<1>1. \A f \in Fields : Asks(s, f) => Stored(f, payload[s][f]) \in Columns
  BY StoredIsColumns DEF TypeOK, Asks
<1>2. \A f \in Fields : Asks(s, f) => Stored(f, payload[s][f]).secret \in Values \union {Null}
  BY <1>1 DEF Columns
<1>3. \A f \in Fields : Stands(s, f) => Asks(s, f)
  BY DEF Stands
<1> QED
  BY <1>2, <1>3 DEF TypeOK, Remember

LEMMA LoadIInv == ASSUME IInv, NEW s \in Sessions, Load(s) PROVE IInv'
<1>1. loaded' \in [Sessions -> Row \union {NoRow}] /\ pc' \in [Sessions -> {"idle", "loaded"}]
  BY DEF IInv, TypeOK, Load
<1>2. payload' \in [Sessions -> [Fields -> Values \union {Null, Omitted}]]
  BY DEF IInv, TypeOK, Load
<1>3. patches' \in 0..MaxPatches
  BY MaxPatchesAssumption DEF IInv, TypeOK, Load
<1>4. TypeOK'
  BY <1>1, <1>2, <1>3 DEF IInv, TypeOK, Load
<1>5. NoOldSecret'
  BY DEF IInv, NoOldSecret, Sends, Load
<1>6. LoadedIsRow'
  BY DEF IInv, TypeOK, LoadedIsRow, Load
<1> QED
  BY <1>4, <1>5, <1>6 DEF IInv

\* A PATCH that sets a field stores its ciphertext; one that clears it, having found
\* something there, leaves no flag or no ciphertext; any other leaves what it sends,
\* or less.
LEMMA SaveIInv == ASSUME IInv, NEW s \in Sessions, Save(s) PROVE IInv'
<1>1. row \in Row /\ row # NoRow /\ loaded[s] \in Row
  BY DEF IInv, TypeOK, LoadedIsRow, Save
<1>2. \A f \in Fields : payload[s][f] \in Values \union {Null, Omitted}
  BY DEF IInv, TypeOK
<1>3. ASSUME NEW f \in Fields, payload[s][f] # Omitted
      PROVE  Stored(f, payload[s][f]) \in Columns
  BY <1>2, <1>3, StoredIsColumns
<1>4. \A f \in Fields : Flushed(s, f) \in Columns
  BY <1>1, <1>3 DEF Flushed, Row, Columns
<1>5. row' = [f \in Fields |-> Flushed(s, f)] /\ row' \in Row
  BY <1>4 DEF Save, Row
<1>6. TypeOK'
  BY <1>5, CloseKeepsTypes, RememberKeepsTypes DEF IInv, TypeOK, Save
<1>7. ASSUME NEW f \in Fields, Sends(f)' # Null
      PROVE  Sends(f)' = standing'[f]
  <2>1. row'[f] = Flushed(s, f) /\ row'[f].flag /\ row'[f].secret # Null
    BY <1>5, <1>7 DEF Sends
  <2>2. Sends(f)' = row'[f].secret
    BY <2>1 DEF Sends
  <2>3. standing'[f] = IF Stands(s, f) THEN Stored(f, payload[s][f]).secret ELSE standing[f]
    BY DEF Save, Remember
  <2>4. row[f].flag /\ row[f].secret # Null => row[f].secret = standing[f]
    BY <1>1 DEF IInv, NoOldSecret, Sends
  <2>5. CASE payload[s][f] = Omitted
    BY <2>1, <2>2, <2>3, <2>4, <2>5 DEF Flushed, Stands, Asks
  <2>6. CASE payload[s][f] # Omitted /\ ~ Erases(f, payload[s][f])
    <3>1. Stands(s, f)
      BY <2>6 DEF Stands, Asks
    <3>2. Stored(f, payload[s][f]).secret = payload[s][f] /\ payload[s][f] # Null
      BY <2>6 DEF Stored, Erases
    <3>3. row'[f].secret = Stored(f, payload[s][f]).secret
      BY <2>1, <2>6, <3>2 DEF Flushed
    <3> QED
      BY <2>2, <2>3, <3>1, <3>3
  <2>7. CASE payload[s][f] # Omitted /\ Erases(f, payload[s][f])
    <3>1. Stored(f, payload[s][f]) = [secret |-> Null, flag |-> FALSE]
      BY <2>7 DEF Stored
    <3>2. Stored(f, Null) = [secret |-> Null, flag |-> FALSE]
      BY DEF Stored, Erases
    <3>3. loaded[s][f] \in Columns /\ row[f] \in Columns
      BY <1>1 DEF Row
    <3>4. loaded[s][f].secret = Null /\ loaded[s][f].flag = FALSE
      <4>1. Flushed(s, f).flag = IF FALSE # loaded[s][f].flag THEN FALSE ELSE row[f].flag
        BY <2>7, <3>1 DEF Flushed
      <4>2. Flushed(s, f).secret = IF loaded[s][f].secret # Null THEN Null ELSE row[f].secret
        BY <2>7, <3>1 DEF Flushed
      <4>3. loaded[s][f].flag \in {TRUE, FALSE}
        BY <3>3 DEF Columns
      <4>4. loaded[s][f].flag = FALSE
        BY <2>1, <4>1, <4>3
      <4>5. loaded[s][f].secret = Null
        BY <2>1, <4>2
      <4> QED
        BY <4>4, <4>5
    <3>5. loaded[s][f] = Stored(f, Null)
      BY <3>2, <3>3, <3>4 DEF Columns
    <3>6. ~ Stands(s, f)
      BY <2>7, <3>5 DEF Stands
    <3>7. row'[f] = row[f]
      BY <2>1, <2>7, <3>1, <3>3, <3>4 DEF Flushed, Columns
    <3> QED
      BY <2>1, <2>2, <2>3, <2>4, <3>6, <3>7
  <2> QED
    BY <2>5, <2>6, <2>7
<1>8. NoOldSecret'
  BY <1>7 DEF NoOldSecret
<1>9. LoadedIsRow'
  BY CloseKeepsTypes DEF IInv, Save
<1> QED
  BY <1>6, <1>8, <1>9 DEF IInv

LEMMA RefuseIInv == ASSUME IInv, NEW s \in Sessions, Refuse(s) PROVE IInv'
<1>1. TypeOK'
  BY CloseKeepsTypes DEF IInv, TypeOK, Refuse
<1>2. NoOldSecret'
  BY DEF IInv, NoOldSecret, Sends, Refuse
<1>3. LoadedIsRow'
  BY CloseKeepsTypes DEF IInv, Refuse
<1> QED
  BY <1>1, <1>2, <1>3 DEF IInv

LEMMA DeleteIInv == ASSUME IInv, Delete PROVE IInv'
  BY DEF IInv, TypeOK, LoadedIsRow, NoOldSecret, Delete

LEMMA StepIInv == ASSUME IInv, [Next]_vars PROVE IInv'
<1>1. CASE UNCHANGED vars
  BY <1>1 DEF vars, IInv, TypeOK, LoadedIsRow, NoOldSecret, Sends
<1> QED
  BY <1>1, LoadIInv, SaveIInv, RefuseIInv, DeleteIInv DEF Next

LEMMA Invariance == Spec => []IInv
  BY InitIInv, StepIInv, PTL DEF Spec

-----------------------------------------------------------------------------
\* The columns, the requests and the history have their types (MonitoringTarget).
THEOREM TypeCorrect == Spec => []TypeOK
<1>1. IInv => TypeOK
  BY DEF IInv
<1> QED
  BY <1>1, Invariance, PTL

\* However many PATCH requests overlap, what a check sends of a field is what was set
\* last, and nothing once a PATCH that had found it set has cleared it (update,
\* set_headers, set_body).
THEOREM NoOldSecretIsSent == Spec => []NoOldSecret
<1>1. IInv => NoOldSecret
  BY DEF IInv
<1> QED
  BY <1>1, Invariance, PTL
=============================================================================
