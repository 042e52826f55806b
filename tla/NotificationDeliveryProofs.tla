--------------------- MODULE NotificationDeliveryProofs ---------------------
(***************************************************************************)
(* For any number of sessions, events, forced retries and crashes: the rows *)
(* have their types, what is recorded as sent was accepted by Discord, and *)
(* no attempt is counted that was not made.                                *)
(*                                                                         *)
(* A flush merges columns of a session with columns of another, so each    *)
(* column is true by itself: SENT comes from a session whose POST was      *)
(* accepted, and a count from a session that has posted once more than the *)
(* row it loaded had counted.                                              *)
(***************************************************************************)
EXTENDS NotificationDelivery, TLAPS

SessionTypes ==
  /\ pc \in [Sessions -> {"idle", "created", "batch", "posting", "accepted"}]
  /\ held \in [Sessions -> Events \union {Null}]
  /\ loaded \in [Sessions -> Rows]
  /\ limit \in [Sessions -> Nat]
  /\ batch \in [Sessions -> [Events -> Rows]]

HeldIsEvent ==
  \A s \in Sessions : pc[s] \in {"created", "posting", "accepted"} => held[s] \in Events

\* The POST of a session comes on top of those its row had counted.
AttemptIsLoaded ==
  \A s \in Sessions : pc[s] \in {"posting", "accepted"} =>
    loaded[s] \in Row /\ loaded[s].attempts < posts[held[s]]

AcceptedWasDelivered ==
  \A s \in Sessions : pc[s] = "accepted" => delivered[held[s]] > 0

\* rows, as a session read them, count no attempt that was not made.
CountsMade(rows) == \A e \in Events : rows[e] # NoRow => rows[e].attempts <= posts[e]

BatchesCount == \A s \in Sessions : CountsMade(batch[s])

SessionsInv == HeldIsEvent /\ AttemptIsLoaded /\ AcceptedWasDelivered /\ BatchesCount

IInv == TypeOK /\ SessionsInv /\ SentWasDelivered /\ AttemptsWereMade

-----------------------------------------------------------------------------
\* A flush leaves a row, each of whose columns is the old or the new one.
LEMMA FlushedIsRow ==
  ASSUME NEW row \in Row, NEW read \in Row, NEW new \in Row
  PROVE  /\ Flushed(row, read, new) \in Row
         /\ Flushed(row, read, new).status \in {row.status, new.status}
         /\ Flushed(row, read, new).attempts \in {row.attempts, new.attempts}
  BY DEF Flushed, Row

LEMMA InitIInv == ASSUME Init PROVE IInv
<1>1. TypeOK
  BY BoundsAssumption DEF Init, TypeOK, Rows, NoBatch
<1>2. SessionsInv
  BY DEF Init, SessionsInv, HeldIsEvent, AttemptIsLoaded, AcceptedWasDelivered,
         BatchesCount, CountsMade, NoBatch
<1>3. SentWasDelivered /\ AttemptsWereMade
  BY DEF Init, SentWasDelivered, AttemptsWereMade
<1> QED
  BY <1>1, <1>2, <1>3 DEF IInv

\* A session that lets go of its event owes nothing but the rest of its batch.
LEMMA LetGoKeeps ==
  ASSUME IInv, NEW s \in Sessions, NEW rest \in [Events -> Rows], CountsMade(rest),
         LetGo(s, rest), posts' = posts, delivered' = delivered
  PROVE  SessionTypes' /\ SessionsInv'
<1> USE DEF IInv, LetGo
<1>1. SessionTypes'
  BY DEF TypeOK, SessionTypes, Rows
<1>2. HeldIsEvent' /\ AttemptIsLoaded' /\ AcceptedWasDelivered'
  BY DEF TypeOK, SessionsInv, HeldIsEvent, AttemptIsLoaded, AcceptedWasDelivered
<1>3. BatchesCount'
  BY DEF TypeOK, SessionsInv, BatchesCount, CountsMade
<1> QED
  BY <1>1, <1>2, <1>3 DEF SessionsInv

LEMMA NoBatchCounts == NoBatch \in [Events -> Rows] /\ CountsMade(NoBatch)
  BY DEF NoBatch, Rows, CountsMade

\* A session that posts owes one attempt more than its row has counted.
LEMMA BeginAttemptKeeps ==
  ASSUME IInv, NEW s \in Sessions, NEW e \in Events, NEW row \in Row, NEW max \in Nat,
         NEW rest \in [Events -> Rows], CountsMade(rest), row.attempts <= posts[e],
         BeginAttempt(s, e, row, max, rest), delivered' = delivered
  PROVE  /\ SessionTypes' /\ SessionsInv'
         /\ posts' \in [Events -> Nat] /\ \A x \in Events : posts[x] <= posts'[x]
<1> USE DEF IInv, BeginAttempt
<1>1. SessionTypes'
  BY DEF TypeOK, SessionTypes, Rows
<1>2. posts' \in [Events -> Nat] /\ \A x \in Events : posts[x] <= posts'[x]
  BY DEF TypeOK
<1>3. HeldIsEvent' /\ AcceptedWasDelivered'
  BY DEF TypeOK, SessionsInv, HeldIsEvent, AcceptedWasDelivered
<1>4. AttemptIsLoaded'
  <2> SUFFICES ASSUME NEW x \in Sessions, pc'[x] \in {"posting", "accepted"}
               PROVE  loaded'[x] \in Row /\ loaded'[x].attempts < posts'[held'[x]]
    BY DEF AttemptIsLoaded
  <2>1. CASE x = s
    <3>1. posts'[e] = posts[e] + 1 /\ posts[e] \in Nat /\ row.attempts \in Nat
      BY DEF TypeOK, Row
    <3>2. loaded'[x] = row /\ held'[x] = e
      BY <2>1 DEF TypeOK
    <3> QED
      BY <3>1, <3>2
  <2>2. CASE x # s
    <3>1. pc'[x] = pc[x] /\ loaded'[x] = loaded[x] /\ held'[x] = held[x]
      BY <2>2 DEF TypeOK
    <3>2. loaded[x] \in Row /\ loaded[x].attempts < posts[held[x]] /\ held[x] \in Events
      BY <3>1 DEF SessionsInv, AttemptIsLoaded, HeldIsEvent
    <3>3. loaded[x].attempts \in Nat /\ posts[held[x]] \in Nat
      BY <3>2 DEF TypeOK, Row
    <3> QED
      BY <1>2, <3>1, <3>2, <3>3
  <2> QED
    BY <2>1, <2>2
<1>5. BatchesCount'
  <2> SUFFICES ASSUME NEW x \in Sessions, NEW f \in Events, batch'[x][f] # NoRow
               PROVE  batch'[x][f].attempts <= posts'[f]
    BY DEF BatchesCount, CountsMade
  <2>1. batch'[x][f] \in Row /\ batch'[x][f].attempts <= posts[f]
    BY DEF TypeOK, Rows, SessionsInv, BatchesCount, CountsMade
  <2>2. batch'[x][f].attempts \in Nat /\ posts[f] \in Nat /\ posts'[f] \in Nat
    BY <1>2, <2>1 DEF TypeOK, Row
  <2> QED
    BY <1>2, <2>1, <2>2
<1> QED
  BY <1>1, <1>2, <1>3, <1>4, <1>5 DEF SessionsInv

\* Where the rows do not change, more posts and messages leave them true.
LEMMA RowsStayTrue ==
  ASSUME IInv, event' = event,
         posts' \in [Events -> Nat], \A x \in Events : posts[x] <= posts'[x],
         delivered' \in [Events -> Nat], \A x \in Events : delivered[x] <= delivered'[x]
  PROVE  SentWasDelivered' /\ AttemptsWereMade'
<1>1. SentWasDelivered'
  BY DEF IInv, TypeOK, SentWasDelivered
<1>2. AttemptsWereMade'
  <2> SUFFICES ASSUME NEW e \in Events, event[e] # NoRow
               PROVE  event[e].attempts <= posts'[e]
    BY DEF AttemptsWereMade
  <2>1. event[e].attempts <= posts[e] /\ event[e].attempts \in Nat
    BY DEF IInv, TypeOK, AttemptsWereMade, Rows, Row
  <2>2. posts[e] \in Nat
    BY DEF IInv, TypeOK
  <2> QED
    BY <2>1, <2>2
<1> QED
  BY <1>1, <1>2

\* The batch without the row that is taken next.
LEMMA RestCounts ==
  ASSUME IInv, NEW s \in Sessions, NEW e \in Events
  PROVE  /\ [batch[s] EXCEPT ![e] = NoRow] \in [Events -> Rows]
         /\ CountsMade([batch[s] EXCEPT ![e] = NoRow])
<1>1. batch[s] \in [Events -> Rows] /\ CountsMade(batch[s])
  BY DEF IInv, TypeOK, SessionsInv, BatchesCount
<1> QED
  BY <1>1 DEF CountsMade, Rows

\* A flush keeps the rows true if the columns it may write are.
LEMMA FlushKeepsTrue ==
  ASSUME IInv, NEW e \in Events, event[e] # NoRow, NEW read \in Row, NEW new \in Row,
         event' = [event EXCEPT ![e] = Flushed(@, read, new)],
         posts' = posts, delivered' = delivered,
         new.status = "sent" => delivered[e] > 0, new.attempts <= posts[e]
  PROVE  event' \in [Events -> Rows] /\ SentWasDelivered' /\ AttemptsWereMade'
<1>1. event[e] \in Row /\ event \in [Events -> Rows]
  BY DEF IInv, TypeOK, Rows
<1> DEFINE merged == Flushed(event[e], read, new)
<1>2. /\ merged \in Row
      /\ merged.status \in {event[e].status, new.status}
      /\ merged.attempts \in {event[e].attempts, new.attempts}
  BY <1>1, FlushedIsRow
<1>3. event' = [event EXCEPT ![e] = merged]
  OBVIOUS
<1> HIDE DEF merged
<1>4. event' \in [Events -> Rows]
  BY <1>1, <1>2, <1>3 DEF Rows
<1>5. SentWasDelivered'
  BY <1>1, <1>2, <1>3 DEF IInv, SentWasDelivered
<1>6. AttemptsWereMade'
  BY <1>1, <1>2, <1>3 DEF IInv, AttemptsWereMade
<1> QED
  BY <1>4, <1>5, <1>6

LEMMA GiveUpIInv ==
  ASSUME IInv, NEW s \in Sessions, NEW e \in Events, event[e] # NoRow,
         NEW row \in Row, row.attempts <= posts[e],
         NEW rest \in [Events -> Rows], CountsMade(rest), GiveUp(s, e, row, rest),
         UNCHANGED <<gone, announced, crashes, counts>>, forces' \in 0..MaxForces
  PROVE  IInv'
<1> DEFINE new == [row EXCEPT !.status = "failed", !.next = Null]
<1>1. new \in Row /\ new.status # "sent" /\ new.attempts = row.attempts
  BY DEF Row
<1>2. posts' = posts /\ delivered' = delivered
  BY DEF counts
<1>3. event' = [event EXCEPT ![e] = Flushed(@, row, new)] /\ LetGo(s, rest)
  BY DEF GiveUp
<1> HIDE DEF new
<1>4. event' \in [Events -> Rows] /\ SentWasDelivered' /\ AttemptsWereMade'
  BY <1>1, <1>2, <1>3, FlushKeepsTrue
<1>5. SessionTypes' /\ SessionsInv'
  BY <1>2, <1>3, LetGoKeeps
<1> QED
  BY <1>4, <1>5 DEF IInv, TypeOK, SessionTypes, counts

LEMMA CreateEventIInv ==
  ASSUME IInv, NEW s \in Sessions, NEW e \in Events, CreateEvent(s, e) PROVE IInv'
<1> USE DEF IInv, CreateEvent
<1>1. NewEvent \in Row /\ NewEvent.status # "sent" /\ NewEvent.attempts = 0
  BY MaxAttemptsAssumption DEF NewEvent, Row
<1>2. event' \in [Events -> Rows]
  BY <1>1 DEF TypeOK, Rows
<1>3. TypeOK'
  BY <1>2 DEF TypeOK, delivery, bounds, counts
<1>4. SessionsInv'
  BY DEF TypeOK, SessionsInv, HeldIsEvent, AttemptIsLoaded, AcceptedWasDelivered,
         BatchesCount, CountsMade, counts
<1>5. SentWasDelivered' /\ AttemptsWereMade'
  BY <1>1 DEF TypeOK, SentWasDelivered, AttemptsWereMade, counts
<1> QED
  BY <1>3, <1>4, <1>5

LEMMA FirstAttemptIInv ==
  ASSUME IInv, NEW s \in Sessions, FirstAttempt(s) PROVE IInv'
<1>1. held[s] \in Events /\ event[held[s]] \in Rows
  BY DEF IInv, TypeOK, SessionsInv, HeldIsEvent, FirstAttempt
<1>2. /\ event' = event /\ delivered' = delivered
      /\ posts \in [Events -> Nat] /\ delivered \in [Events -> Nat]
  BY DEF IInv, TypeOK, FirstAttempt
<1>3. CASE event[held[s]] = NoRow
  <2>1. LetGo(s, NoBatch) /\ posts' = posts
    BY <1>3 DEF FirstAttempt
  <2>2. SessionTypes' /\ SessionsInv'
    BY <1>2, <2>1, LetGoKeeps, NoBatchCounts
  <2>3. SentWasDelivered' /\ AttemptsWereMade'
    BY <1>2, <2>1 DEF IInv, SentWasDelivered, AttemptsWereMade
  <2> QED
    BY <1>2, <2>1, <2>2, <2>3 DEF IInv, TypeOK, SessionTypes, FirstAttempt, bounds
<1>4. CASE event[held[s]] # NoRow
  <2> DEFINE row == event[held[s]]
  <2>1. /\ row \in Row /\ row.max \in Nat
        /\ row.attempts <= posts[held[s]]
    BY <1>1, <1>4 DEF Rows, Row, IInv, AttemptsWereMade
  <2>2. BeginAttempt(s, held[s], row, row.max, NoBatch)
    BY <1>4 DEF FirstAttempt
  <2> HIDE DEF row
  <2>3. /\ SessionTypes' /\ SessionsInv'
        /\ posts' \in [Events -> Nat] /\ \A x \in Events : posts[x] <= posts'[x]
    BY <1>1, <1>2, <2>1, <2>2, BeginAttemptKeeps, NoBatchCounts
  <2>4. SentWasDelivered' /\ AttemptsWereMade'
    BY <1>2, <2>3, RowsStayTrue
  <2> QED
    BY <1>2, <2>3, <2>4 DEF IInv, TypeOK, SessionTypes, FirstAttempt, bounds
<1> QED
  BY <1>3, <1>4

LEMMA ListDueRetriesIInv ==
  ASSUME IInv, NEW s \in Sessions, ListDueRetries(s) PROVE IInv'
<1> USE DEF IInv, ListDueRetries
<1>1. batch' \in [Sessions -> [Events -> Rows]]
  BY DEF TypeOK, Rows
<1>2. TypeOK'
  BY <1>1 DEF TypeOK, bounds, counts
<1>3. HeldIsEvent' /\ AttemptIsLoaded' /\ AcceptedWasDelivered'
  BY DEF TypeOK, SessionsInv, HeldIsEvent, AttemptIsLoaded, AcceptedWasDelivered, counts
<1>4. BatchesCount'
  BY DEF TypeOK, SessionsInv, BatchesCount, CountsMade, AttemptsWereMade, counts
<1>5. SentWasDelivered' /\ AttemptsWereMade'
  BY DEF SentWasDelivered, AttemptsWereMade, counts
<1> QED
  BY <1>2, <1>3, <1>4, <1>5 DEF SessionsInv

\* What a batch has still to take was read from the table.
LEMMA BatchRow ==
  ASSUME IInv, NEW s \in Sessions, NEW e \in Events, batch[s][e] # NoRow
  PROVE  batch[s][e] \in Row /\ batch[s][e].max \in Nat /\ batch[s][e].attempts <= posts[e]
  BY DEF IInv, TypeOK, Rows, Row, SessionsInv, BatchesCount, CountsMade

LEMMA EventRow ==
  ASSUME IInv, NEW e \in Events, event[e] # NoRow
  PROVE  /\ event[e] \in Row /\ event[e].max \in Nat /\ event[e].attempts \in Nat
         /\ event[e].attempts <= posts[e]
  BY DEF IInv, TypeOK, Rows, Row, AttemptsWereMade

LEMMA RetryPostsIInv ==
  ASSUME IInv, NEW s \in Sessions, NEW e \in Events, RetryPosts(s, e) PROVE IInv'
<1> DEFINE row == batch[s][e]
           rest == [batch[s] EXCEPT ![e] = NoRow]
<1>1. row \in Row /\ row.max \in Nat /\ row.attempts <= posts[e]
  BY BatchRow DEF RetryPosts
<1>2. rest \in [Events -> Rows] /\ CountsMade(rest)
  BY RestCounts
<1>3. BeginAttempt(s, e, row, row.max, rest)
  BY DEF RetryPosts
<1>4. event' = event /\ delivered' = delivered /\ delivered \in [Events -> Nat]
  BY DEF IInv, TypeOK, RetryPosts
<1> HIDE DEF row, rest
<1>5. /\ SessionTypes' /\ SessionsInv'
      /\ posts' \in [Events -> Nat] /\ \A x \in Events : posts[x] <= posts'[x]
  BY <1>1, <1>2, <1>3, <1>4, BeginAttemptKeeps
<1>6. SentWasDelivered' /\ AttemptsWereMade'
  BY <1>4, <1>5, RowsStayTrue
<1> QED
  BY <1>4, <1>5, <1>6 DEF IInv, TypeOK, SessionTypes, RetryPosts, bounds

LEMMA RetryGivesUpIInv ==
  ASSUME IInv, NEW s \in Sessions, NEW e \in Events, RetryGivesUp(s, e) PROVE IInv'
<1> DEFINE row == batch[s][e]
           rest == [batch[s] EXCEPT ![e] = NoRow]
<1>1. row \in Row /\ row.attempts <= posts[e]
  BY BatchRow DEF RetryGivesUp
<1>2. rest \in [Events -> Rows] /\ CountsMade(rest)
  BY RestCounts
<1>3. UNCHANGED <<gone, announced, forces, crashes, counts>> /\ forces' \in 0..MaxForces
  BY DEF RetryGivesUp, IInv, TypeOK, bounds
<1>4. CASE event[e] = NoRow
  <2>1. LetGo(s, NoBatch) /\ event' = event /\ posts' = posts /\ delivered' = delivered
    BY <1>4 DEF RetryGivesUp, counts
  <2>2. SessionTypes' /\ SessionsInv'
    BY <2>1, LetGoKeeps, NoBatchCounts
  <2>3. SentWasDelivered' /\ AttemptsWereMade'
    BY <2>1 DEF IInv, SentWasDelivered, AttemptsWereMade
  <2> QED
    BY <1>3, <2>1, <2>2, <2>3 DEF IInv, TypeOK, SessionTypes, counts
<1>5. CASE event[e] # NoRow
  <2>1. GiveUp(s, e, row, rest)
    BY <1>5 DEF RetryGivesUp
  <2> HIDE DEF row, rest
  <2> QED
    BY <1>1, <1>2, <1>3, <1>5, <2>1, GiveUpIInv
<1> QED
  BY <1>4, <1>5

LEMMA ForcePostsIInv ==
  ASSUME IInv, NEW s \in Sessions, NEW e \in Events, ForcePosts(s, e) PROVE IInv'
<1> DEFINE row == event[e]
           max == IF row.attempts >= row.max THEN row.attempts + 1 ELSE row.max
<1>1. row \in Row /\ row.attempts <= posts[e] /\ max \in Nat
  BY EventRow DEF ForcePosts, MayForce
<1>2. BeginAttempt(s, e, row, max, NoBatch)
  BY DEF ForcePosts
<1>3. event' = event /\ delivered' = delivered /\ delivered \in [Events -> Nat]
  BY DEF IInv, TypeOK, ForcePosts
<1> HIDE DEF row, max
<1>4. /\ SessionTypes' /\ SessionsInv'
      /\ posts' \in [Events -> Nat] /\ \A x \in Events : posts[x] <= posts'[x]
  BY <1>1, <1>2, <1>3, BeginAttemptKeeps, NoBatchCounts
<1>5. SentWasDelivered' /\ AttemptsWereMade'
  BY <1>3, <1>4, RowsStayTrue
<1>6. forces' \in 0..MaxForces
  BY BoundsAssumption DEF IInv, TypeOK, ForcePosts
<1> QED
  BY <1>3, <1>4, <1>5, <1>6 DEF IInv, TypeOK, SessionTypes, ForcePosts

LEMMA ForceGivesUpIInv ==
  ASSUME IInv, NEW s \in Sessions, NEW e \in Events, ForceGivesUp(s, e) PROVE IInv'
<1>1. event[e] # NoRow /\ event[e] \in Row /\ event[e].attempts <= posts[e]
  BY EventRow DEF ForceGivesUp, MayForce
<1>2. GiveUp(s, e, event[e], NoBatch) /\ UNCHANGED <<gone, announced, crashes, counts>>
  BY DEF ForceGivesUp
<1>3. forces' \in 0..MaxForces
  BY BoundsAssumption DEF IInv, TypeOK, ForceGivesUp
<1> QED
  BY <1>1, <1>2, <1>3, NoBatchCounts, GiveUpIInv

LEMMA AcceptIInv == ASSUME IInv, NEW s \in Sessions, Accept(s) PROVE IInv'
<1> USE DEF IInv, Accept
<1>1. held[s] \in Events
  BY DEF TypeOK, SessionsInv, HeldIsEvent
<1>2. /\ delivered' \in [Events -> Nat] /\ \A x \in Events : delivered[x] <= delivered'[x]
      /\ delivered'[held[s]] > 0
  BY <1>1 DEF TypeOK
<1>3. TypeOK'
  BY <1>2 DEF TypeOK, bounds
<1>4. HeldIsEvent' /\ AttemptIsLoaded' /\ BatchesCount'
  BY DEF TypeOK, SessionsInv, HeldIsEvent, AttemptIsLoaded, BatchesCount, CountsMade
<1>5. AcceptedWasDelivered'
  <2> SUFFICES ASSUME NEW x \in Sessions, pc'[x] = "accepted" PROVE delivered'[held[x]] > 0
    BY DEF AcceptedWasDelivered
  <2>1. CASE x = s
    BY <1>2, <2>1
  <2>2. CASE x # s
    <3>1. delivered[held[x]] > 0 /\ held[x] \in Events
      BY <2>2 DEF TypeOK, SessionsInv, AcceptedWasDelivered, HeldIsEvent
    <3>2. delivered[held[x]] \in Nat /\ delivered'[held[x]] \in Nat
      BY <1>2, <3>1 DEF TypeOK
    <3> QED
      BY <1>2, <3>1, <3>2
  <2> QED
    BY <2>1, <2>2
<1>6. SentWasDelivered' /\ AttemptsWereMade'
  <2>1. event' = event /\ posts' = posts /\ \A x \in Events : posts[x] <= posts'[x]
    BY DEF TypeOK
  <2> QED
    BY <1>2, <2>1, RowsStayTrue DEF TypeOK
<1> QED
  BY <1>3, <1>4, <1>5, <1>6 DEF SessionsInv

\* The COMMIT of an attempt, as sent only if it was accepted.
LEMMA SaveAttemptIInv ==
  ASSUME IInv, NEW s \in Sessions, pc[s] \in {"posting", "accepted"},
         NEW status \in {"sent", "retrying", "failed"}, NEW next \in {Null, "later"},
         status = "sent" => pc[s] = "accepted",
         SaveAttempt(s, status, next), lost' \in [Events -> Nat]
  PROVE  IInv'
<1> DEFINE e == held[s]
           new == [status |-> status, attempts |-> AttemptCount(s),
                   max |-> limit[s], next |-> next]
<1>1. /\ e \in Events /\ loaded[s] \in Row /\ loaded[s].attempts < posts[e]
      /\ status = "sent" => delivered[e] > 0
  BY DEF IInv, SessionsInv, HeldIsEvent, AttemptIsLoaded, AcceptedWasDelivered
<1>2. posts' = posts /\ delivered' = delivered /\ posts[e] \in Nat /\ loaded[s].attempts \in Nat
  BY <1>1 DEF SaveAttempt, IInv, TypeOK, Row
<1>3. new \in Row /\ new.status = status /\ new.attempts <= posts[e]
  BY <1>1, <1>2 DEF AttemptCount, Row, IInv, TypeOK
<1>4. /\ batch[s] \in [Events -> Rows] /\ CountsMade(batch[s])
      /\ \A x \in Events : event[x] \in Rows
  BY DEF IInv, TypeOK, SessionsInv, BatchesCount
<1>5. CASE event[e] = NoRow /\ LetGo(s, NoBatch) /\ UNCHANGED event
  <2>1. SessionTypes' /\ SessionsInv'
    BY <1>2, <1>5, LetGoKeeps, NoBatchCounts
  <2>2. SentWasDelivered' /\ AttemptsWereMade'
    BY <1>2, <1>5 DEF IInv, SentWasDelivered, AttemptsWereMade
  <2> QED
    BY <1>2, <1>5, <2>1, <2>2 DEF SaveAttempt, IInv, TypeOK, SessionTypes, bounds
<1>6. CASE /\ event[e] # NoRow /\ LetGo(s, batch[s])
           /\ event' = [event EXCEPT ![e] = Flushed(@, loaded[s], new)]
  <2> HIDE DEF new, e
  <2>1. SessionTypes' /\ SessionsInv'
    BY <1>2, <1>4, <1>6, LetGoKeeps
  <2>2. event' \in [Events -> Rows] /\ SentWasDelivered' /\ AttemptsWereMade'
    BY <1>1, <1>2, <1>3, <1>6, FlushKeepsTrue
  <2> QED
    BY <1>2, <2>1, <2>2 DEF SaveAttempt, IInv, TypeOK, SessionTypes, bounds
<1> QED
  BY <1>5, <1>6 DEF SaveAttempt

LEMMA SaveSentIInv == ASSUME IInv, NEW s \in Sessions, SaveSent(s) PROVE IInv'
<1>1. lost' \in [Events -> Nat]
  BY DEF IInv, TypeOK, SaveSent
<1> QED
  BY <1>1, SaveAttemptIInv DEF SaveSent

LEMMA SaveFailureIInv == ASSUME IInv, NEW s \in Sessions, SaveFailure(s) PROVE IInv'
<1>1. lost' \in [Events -> Nat] /\ pc[s] \in {"posting", "accepted"}
  BY DEF IInv, TypeOK, SaveFailure
<1>2. CASE SaveAttempt(s, "failed", Null)
  BY <1>1, <1>2, SaveAttemptIInv
<1>3. CASE SaveAttempt(s, "retrying", "later")
  BY <1>1, <1>3, SaveAttemptIInv
<1> QED
  BY <1>2, <1>3 DEF SaveFailure

LEMMA DieIInv == ASSUME IInv, NEW s \in Sessions, Die(s) PROVE IInv'
<1>1. crashed' \in [Events -> Nat] /\ crashes' \in 0..MaxCrashes
  <2>1. crashed \in [Events -> Nat] /\ crashes' \in 0..MaxCrashes
    BY BoundsAssumption DEF IInv, TypeOK, Die
  <2>2. CASE pc[s] \in {"posting", "accepted"}
    <3>1. held[s] \in Events
      BY <2>2 DEF IInv, SessionsInv, HeldIsEvent
    <3>2. crashed' = [crashed EXCEPT ![held[s]] = @ + 1]
      BY <2>2 DEF Die
    <3> QED
      BY <2>1, <3>1, <3>2
  <2>3. CASE pc[s] \notin {"posting", "accepted"}
    BY <2>1, <2>3 DEF Die
  <2> QED
    BY <2>1, <2>2, <2>3
<1>2. SessionTypes' /\ SessionsInv'
  BY LetGoKeeps, NoBatchCounts DEF Die
<1>3. SentWasDelivered' /\ AttemptsWereMade'
  BY DEF IInv, SentWasDelivered, AttemptsWereMade, Die
<1> QED
  BY <1>1, <1>2, <1>3 DEF IInv, TypeOK, SessionTypes, Die

\* A delay that passes, a DELETE and retention touch the rows only.
LEMMA ElapseIInv == ASSUME IInv, NEW e \in Events, Elapse(e) PROVE IInv'
<1> USE DEF IInv, Elapse, delivery, counts
<1>1. event[e] \in Row
  BY EventRow
<1>2. event' \in [Events -> Rows] /\ SentWasDelivered' /\ AttemptsWereMade'
  BY <1>1 DEF TypeOK, Rows, Row, SentWasDelivered, AttemptsWereMade
<1>3. SessionsInv'
  BY DEF SessionsInv, HeldIsEvent, AttemptIsLoaded, AcceptedWasDelivered, BatchesCount,
         CountsMade
<1> QED
  BY <1>2, <1>3 DEF TypeOK, bounds

LEMMA RemoveIInv ==
  ASSUME IInv, NEW e \in Events, DeleteIncident(e) \/ Prune(e) PROVE IInv'
<1> USE DEF IInv, DeleteIncident, Prune, delivery, counts
<1>1. event' = [event EXCEPT ![e] = NoRow] /\ gone' \subseteq announced /\ announced' = announced
  BY DEF TypeOK
<1>2. event' \in [Events -> Rows] /\ SentWasDelivered' /\ AttemptsWereMade'
  BY <1>1 DEF TypeOK, Rows, SentWasDelivered, AttemptsWereMade
<1>3. SessionsInv'
  BY DEF SessionsInv, HeldIsEvent, AttemptIsLoaded, AcceptedWasDelivered, BatchesCount,
         CountsMade
<1> QED
  BY <1>1, <1>2, <1>3 DEF TypeOK, bounds

LEMMA StutterIInv == ASSUME IInv, UNCHANGED vars PROVE IInv'
  BY DEF vars, delivery, bounds, counts, IInv, TypeOK, SessionsInv, HeldIsEvent,
         AttemptIsLoaded, AcceptedWasDelivered, BatchesCount, CountsMade,
         SentWasDelivered, AttemptsWereMade

LEMMA StepIInv == ASSUME IInv, [Next]_vars PROVE IInv'
<1>1. CASE UNCHANGED vars
  BY <1>1, StutterIInv
<1>2. ASSUME NEW s \in Sessions, Step(s) PROVE IInv'
  BY <1>2, FirstAttemptIInv, ListDueRetriesIInv, CreateEventIInv, RetryPostsIInv,
     RetryGivesUpIInv, ForcePostsIInv, ForceGivesUpIInv, AcceptIInv, SaveSentIInv,
     SaveFailureIInv, DieIInv DEF Step
<1>3. ASSUME NEW e \in Events, Elapse(e) \/ DeleteIncident(e) \/ Prune(e) PROVE IInv'
  BY <1>3, ElapseIInv, RemoveIInv
<1> QED
  BY <1>1, <1>2, <1>3 DEF Next

LEMMA Invariance == Spec => []IInv
  BY InitIInv, StepIInv, PTL DEF Spec

-----------------------------------------------------------------------------
\* The rows, the sessions and the histories have their types (NotificationEvent).
THEOREM TypeCorrect == Spec => []TypeOK
<1>1. IInv => TypeOK
  BY DEF IInv
<1> QED
  BY <1>1, Invariance, PTL

\* However many deliveries overlap, what is recorded as sent was accepted by Discord
\* (_attempt_event).
THEOREM SentMessagesWereDelivered == Spec => []SentWasDelivered
<1>1. IInv => SentWasDelivered
  BY DEF IInv
<1> QED
  BY <1>1, Invariance, PTL

\* However many deliveries overlap, attempt_count never exceeds the POSTs (_attempt_event).
THEOREM CountedAttemptsWereMade == Spec => []AttemptsWereMade
<1>1. IInv => AttemptsWereMade
  BY DEF IInv
<1> QED
  BY <1>1, Invariance, PTL

-----------------------------------------------------------------------------
(* Nothing is delivered, held or listed but what was announced.            *)

OnlyAnnounced ==
  /\ \A e \in Events : event[e] # NoRow \/ delivered[e] > 0 => e \in announced
  /\ \A s \in Sessions : pc[s] \in {"created", "posting", "accepted"} => held[s] \in announced
  /\ \A s \in Sessions, e \in Events : batch[s][e] # NoRow => e \in announced

LEMMA InitOnlyAnnounced == Init => OnlyAnnounced
  BY DEF Init, OnlyAnnounced, NoBatch

\* Steps of a session that end an attempt, or the work of the session.
LEMMA LetGoAnnounced ==
  ASSUME IInv, OnlyAnnounced, NEW s \in Sessions, NEW rest \in [Events -> Rows],
         LetGo(s, rest), UNCHANGED <<announced, delivered>>,
         \A e \in Events : rest[e] # NoRow => e \in announced,
         \A e \in Events : event'[e] # NoRow => event[e] # NoRow
  PROVE  OnlyAnnounced'
  BY DEF IInv, TypeOK, OnlyAnnounced, LetGo

\* Steps of a session that begin one.
LEMMA BeginAnnounced ==
  ASSUME IInv, OnlyAnnounced, NEW s \in Sessions, NEW e \in Events, e \in announced,
         NEW row, NEW max, NEW rest \in [Events -> Rows],
         BeginAttempt(s, e, row, max, rest), UNCHANGED <<event, announced, delivered>>,
         \A x \in Events : rest[x] # NoRow => x \in announced
  PROVE  OnlyAnnounced'
  BY DEF IInv, TypeOK, OnlyAnnounced, BeginAttempt

LEMMA StepAnnounced ==
  ASSUME IInv, OnlyAnnounced, NEW s \in Sessions, Step(s)
  PROVE  OnlyAnnounced' /\ announced \subseteq announced'
<1>1. NoBatch \in [Events -> Rows] /\ \A e \in Events : NoBatch[e] = NoRow
  BY DEF NoBatch, Rows
<1>2. CASE FirstAttempt(s)
  BY <1>1, <1>2, LetGoAnnounced, BeginAnnounced
     DEF FirstAttempt, OnlyAnnounced, IInv, SessionsInv, HeldIsEvent
<1>3. CASE ListDueRetries(s)
  BY <1>3 DEF ListDueRetries, OnlyAnnounced, IInv, TypeOK, counts
<1>4. ASSUME NEW e \in Events, CreateEvent(s, e)
      PROVE  OnlyAnnounced' /\ announced \subseteq announced'
  BY <1>4 DEF CreateEvent, OnlyAnnounced, IInv, TypeOK, counts
<1>5. ASSUME NEW e \in Events, RetryPosts(s, e) \/ ForcePosts(s, e)
      PROVE  OnlyAnnounced' /\ announced \subseteq announced'
  <2>1. CASE RetryPosts(s, e)
    <3>1. /\ [batch[s] EXCEPT ![e] = NoRow] \in [Events -> Rows]
          /\ \A x \in Events : [batch[s] EXCEPT ![e] = NoRow][x] # NoRow => x \in announced
      BY RestCounts DEF OnlyAnnounced, IInv, TypeOK
    <3> QED
      BY <2>1, <3>1, BeginAnnounced DEF RetryPosts, OnlyAnnounced
  <2>2. CASE ForcePosts(s, e)
    BY <1>1, <2>2, BeginAnnounced DEF ForcePosts, MayForce, OnlyAnnounced
  <2> QED
    BY <1>5, <2>1, <2>2
<1>6. ASSUME NEW e \in Events, RetryGivesUp(s, e) \/ ForceGivesUp(s, e)
      PROVE  OnlyAnnounced' /\ announced \subseteq announced'
  <2>1. \A x \in Events : event'[x] # NoRow => event[x] # NoRow
    BY <1>6 DEF RetryGivesUp, ForceGivesUp, GiveUp, MayForce, IInv, TypeOK
  <2>2. PICK rest \in {NoBatch, [batch[s] EXCEPT ![e] = NoRow]} :
          LetGo(s, rest) /\ UNCHANGED <<announced, delivered>>
    BY <1>6 DEF RetryGivesUp, ForceGivesUp, GiveUp, counts
  <2>3. rest \in [Events -> Rows] /\ \A x \in Events : rest[x] # NoRow => x \in announced
    BY <1>1, RestCounts DEF OnlyAnnounced, IInv, TypeOK
  <2> QED
    BY <2>1, <2>2, <2>3, LetGoAnnounced
<1>7. CASE Accept(s)
  BY <1>7 DEF Accept, OnlyAnnounced, IInv, TypeOK
<1>8. CASE SaveSent(s) \/ SaveFailure(s)
  <2>1. \A x \in Events : event'[x] # NoRow => event[x] # NoRow
    BY <1>8 DEF SaveSent, SaveFailure, SaveAttempt, IInv, TypeOK
  <2>2. PICK rest \in {NoBatch, batch[s]} :
          LetGo(s, rest) /\ UNCHANGED <<announced, delivered>>
    BY <1>8 DEF SaveSent, SaveFailure, SaveAttempt
  <2>3. rest \in [Events -> Rows] /\ \A x \in Events : rest[x] # NoRow => x \in announced
    BY <1>1 DEF OnlyAnnounced, IInv, TypeOK
  <2> QED
    BY <2>1, <2>2, <2>3, LetGoAnnounced
<1>9. CASE Die(s)
  BY <1>1, <1>9, LetGoAnnounced DEF Die
<1> QED
  BY <1>2, <1>3, <1>4, <1>5, <1>6, <1>7, <1>8, <1>9 DEF Step

LEMMA NextAnnounced ==
  ASSUME IInv, OnlyAnnounced, [Next]_vars
  PROVE  OnlyAnnounced' /\ announced \subseteq announced'
<1>1. CASE UNCHANGED vars
  BY <1>1 DEF vars, delivery, counts, OnlyAnnounced
<1>2. ASSUME NEW e \in Events, Elapse(e) \/ DeleteIncident(e) \/ Prune(e)
      PROVE  OnlyAnnounced' /\ announced \subseteq announced'
  BY <1>2 DEF Elapse, DeleteIncident, Prune, delivery, counts, OnlyAnnounced, IInv, TypeOK
<1> QED
  BY <1>1, <1>2, StepAnnounced DEF Next

-----------------------------------------------------------------------------
(***************************************************************************)
(* What holds of the deliveries as long as one session delivers at a time, *)
(* for any number of events, attempts, forced retries and crashes: the     *)
(* limit of attempts, the reasons of repeated messages, SENT is final.     *)
(*                                                                         *)
(* The invariant follows an event through its session.  The row that a     *)
(* batch listed or an attempt loaded is the one in the table, unless that  *)
(* was deleted, since nobody else writes it; so each POST is counted by the *)
(* row, by a crash, or by the session that is posting.                     *)
(***************************************************************************)

OneDelivery == \E s \in Sessions : Sessions = {s}

Attempts(s, e) == pc[s] \in {"posting", "accepted"} /\ held[s] = e

\* A row that waits in the batch.
Listed(s, e) ==
  LET row == batch[s][e]
  IN  /\ row.status \in {"pending", "retrying"} /\ row.next = "due"
      /\ row.attempts < row.max
      /\ event[e] # NoRow => event[e] = row
      /\ posts[e] <= row.attempts + crashed[e]
      /\ delivered[e] <= crashed[e] + lost[e]

\* A row that is being posted; of the columns only its delay may pass meanwhile.
Attempted(s, e) ==
  LET row == loaded[s]
  IN  /\ row.status # "sent" /\ row.attempts <= row.max /\ row.attempts < limit[s]
      /\ event[e] # NoRow =>
           \/ event[e] = row
           \/ row.next = "later" /\ event[e] = [row EXCEPT !.next = "due"]
      /\ posts[e] <= row.attempts + 1 + crashed[e]
      /\ pc[s] = "posting" => delivered[e] <= crashed[e] + lost[e]
      /\ batch[s][e] = NoRow

\* A row that is not.
Resting(e) ==
  /\ event[e].attempts <= event[e].max
  /\ posts[e] <= event[e].attempts + crashed[e]
  /\ event[e].status # "sent" => delivered[e] <= crashed[e] + lost[e]

Follows(s, e) ==
  /\ e \notin announced => posts[e] = 0
  /\ delivered[e] <= 1 + crashed[e] + lost[e]
  /\ event[e] # NoRow /\ event[e].status = "sent" => event[e].next # "later"
  /\ batch[s][e] # NoRow => Listed(s, e)
  /\ Attempts(s, e) => Attempted(s, e)
  /\ event[e] # NoRow /\ ~ Attempts(s, e) => Resting(e)

CreatedIsNew ==
  \A s \in Sessions : pc[s] = "created" => event[held[s]] \in {NewEvent, NoRow}

SerialInv ==
  /\ IInv /\ OnlyAnnounced /\ CreatedIsNew
  /\ \A s \in Sessions, e \in Events : Follows(s, e)

-----------------------------------------------------------------------------
LEMMA InitSerialInv == ASSUME Init PROVE SerialInv
<1>1. IInv /\ OnlyAnnounced
  BY InitIInv, InitOnlyAnnounced
<1>2. CreatedIsNew /\ \A s \in Sessions, e \in Events : Follows(s, e)
  BY DEF Init, CreatedIsNew, Follows, Attempts, NoBatch
<1> QED
  BY <1>1, <1>2 DEF SerialInv

\* What SerialInv says of one session and one event, with the types.
LEMMA Values ==
  ASSUME SerialInv, NEW s \in Sessions, NEW e \in Events
  PROVE  /\ Follows(s, e)
         /\ posts[e] \in Nat /\ delivered[e] \in Nat /\ crashed[e] \in Nat /\ lost[e] \in Nat
         /\ event[e] # NoRow => event[e] \in Row
         /\ batch[s][e] # NoRow => batch[s][e] \in Row
         /\ Attempts(s, e) => loaded[s] \in Row
         /\ limit[s] \in Nat
  BY DEF SerialInv, IInv, TypeOK, Rows, SessionsInv, AttemptIsLoaded, Attempts

\* An event that a step does not touch.
LEMMA FrameFollows ==
  ASSUME SerialInv, NEW s \in Sessions, NEW e \in Events,
         event'[e] = event[e], posts'[e] = posts[e], delivered'[e] = delivered[e],
         crashed'[e] = crashed[e], lost'[e] = lost[e],
         announced \subseteq announced',
         batch'[s][e] \in {batch[s][e], NoRow},
         ~ Attempts(s, e), ~ Attempts(s, e)'
  PROVE  Follows(s, e)'
<1>1. Follows(s, e)
  BY DEF SerialInv
<1> QED
  BY <1>1 DEF Follows, Listed, Resting

\* The beginning of an attempt.
LEMMA BeginFollows ==
  ASSUME SerialInv, NEW s \in Sessions, NEW e \in Events, NEW row \in Row, NEW max \in Nat,
         NEW rest \in [Events -> Rows], rest[e] = NoRow,
         \A x \in Events : rest[x] \in {batch[s][x], NoRow},
         pc[s] \notin {"posting", "accepted"}, e \in announced,
         row.status # "sent", row.attempts <= row.max, row.attempts < max,
         event[e] # NoRow => event[e] = row,
         posts[e] <= row.attempts + crashed[e],
         delivered[e] <= crashed[e] + lost[e],
         BeginAttempt(s, e, row, max, rest),
         UNCHANGED <<event, announced, delivered, crashed, lost>>
  PROVE  \A x \in Events : Follows(s, x)'
<1> SUFFICES ASSUME NEW x \in Events PROVE Follows(s, x)'
  OBVIOUS
<1>1. /\ pc'[s] = "posting" /\ held'[s] = e /\ loaded'[s] = row /\ limit'[s] = max
      /\ batch'[s] = rest /\ posts'[e] = posts[e] + 1
      /\ \A y \in Events : y # e => posts'[y] = posts[y]
  BY DEF BeginAttempt, SerialInv, IInv, TypeOK
<1>2. CASE x # e
  <2>1. ~ Attempts(s, x) /\ ~ Attempts(s, x)'
    BY <1>1, <1>2 DEF Attempts
  <2> QED
    BY <1>1, <1>2, <2>1, FrameFollows
<1>3. CASE x = e
  <2>1. Follows(s, e)
    BY DEF SerialInv
  <2>2. Attempts(s, e)'
    BY <1>1 DEF Attempts
  <2>3. posts[e] \in Nat /\ crashed[e] \in Nat /\ lost[e] \in Nat /\ delivered[e] \in Nat
    BY Values
  <2>4. Attempted(s, e)'
    BY <1>1, <2>3 DEF Attempted, Row
  <2> QED
    BY <1>1, <1>3, <2>1, <2>2, <2>4 DEF Follows
<1> QED
  BY <1>2, <1>3

\* A session lets go of its event, whose row has been written or is gone.
LEMMA LetGoFollows ==
  ASSUME SerialInv, NEW s \in Sessions, NEW e \in Events,
         NEW rest \in [Events -> Rows], rest[e] = NoRow,
         \A x \in Events : rest[x] \in {batch[s][x], NoRow},
         \A x \in Events : Attempts(s, x) => x = e,
         LetGo(s, rest),
         \A x \in Events : x # e =>
           /\ event'[x] = event[x] /\ crashed'[x] = crashed[x] /\ lost'[x] = lost[x],
         UNCHANGED <<announced, posts, delivered>>,
         delivered[e] <= 1 + crashed'[e] + lost'[e],
         event'[e] # NoRow => Resting(e)' /\ (event'[e].status = "sent" => event'[e].next # "later")
  PROVE  \A x \in Events : Follows(s, x)'
<1> SUFFICES ASSUME NEW x \in Events PROVE Follows(s, x)'
  OBVIOUS
<1>1. pc'[s] \in {"idle", "batch"} /\ batch'[s] = rest
  BY DEF LetGo, SerialInv, IInv, TypeOK
<1>2. ~ Attempts(s, x)'
  BY <1>1 DEF Attempts
<1>3. CASE x # e
  BY <1>1, <1>2, <1>3, FrameFollows
<1>4. CASE x = e
  <2>1. Follows(s, e)
    BY DEF SerialInv
  <2> QED
    BY <1>1, <1>2, <1>4, <2>1 DEF Follows
<1> QED
  BY <1>3, <1>4

\* retry_event gives up on a row that is as it was read.
LEMMA GiveUpFollows ==
  ASSUME SerialInv, NEW s \in Sessions, NEW e \in Events,
         pc[s] \in {"idle", "batch"}, event[e] # NoRow, event[e].status # "sent",
         NEW rest \in [Events -> Rows], rest[e] = NoRow,
         \A x \in Events : rest[x] \in {batch[s][x], NoRow},
         GiveUp(s, e, event[e], rest),
         UNCHANGED <<announced, posts, delivered, crashed, lost>>
  PROVE  /\ \A x \in Events : Follows(s, x)'
         /\ \A x \in Events : x # e => event'[x] = event[x]
<1>1. event[e] \in Row /\ event \in [Events -> Rows]
  BY Values DEF SerialInv, IInv, TypeOK
<1>2. event' = [event EXCEPT ![e] = [event[e] EXCEPT !.status = "failed", !.next = Null]]
  BY <1>1 DEF GiveUp, Flushed, Row
<1>3. /\ \A x \in Events : x # e => event'[x] = event[x]
      /\ event'[e].status = "failed" /\ event'[e].attempts = event[e].attempts
      /\ event'[e].max = event[e].max
  BY <1>1, <1>2 DEF Row
<1>4. \A x \in Events : ~ Attempts(s, x)
  BY DEF Attempts
<1>5. Resting(e)' /\ delivered[e] <= 1 + crashed'[e] + lost'[e]
  <2>1. Resting(e) /\ Follows(s, e)
    BY <1>4 DEF SerialInv, Follows
  <2> QED
    BY <1>3, <2>1 DEF Resting, Follows
<1>6. LetGo(s, rest)
  BY DEF GiveUp
<1> QED
  BY <1>3, <1>4, <1>5, <1>6, LetGoFollows

\* The commit of an attempt counts it, and sets its limit.
LEMMA SaveAttemptFollows ==
  ASSUME SerialInv, NEW s \in Sessions, pc[s] \in {"posting", "accepted"},
         NEW status \in {"sent", "failed", "retrying"}, NEW next \in {Null, "later"},
         status = "sent" => next = Null,
         lost' = lost \/ lost' = [lost EXCEPT ![held[s]] = @ + 1],
         status # "sent" => delivered[held[s]] <= crashed[held[s]] + lost'[held[s]],
         SaveAttempt(s, status, next)
  PROVE  /\ \A x \in Events : Follows(s, x)'
         /\ \A x \in Events : x # held[s] => event'[x] = event[x]
         /\ event[held[s]] # NoRow => event[held[s]].status # "sent"
<1>0. PICK e \in Events : e = held[s]
  BY DEF SerialInv, IInv, SessionsInv, HeldIsEvent
<1> USE <1>0
<1>1. /\ Attempts(s, e) /\ event \in [Events -> Rows]
      /\ lost \in [Events -> Nat] /\ batch[s] \in [Events -> Rows]
  BY DEF Attempts, SerialInv, IInv, TypeOK
<1>2. /\ loaded[s] \in Row /\ limit[s] \in Nat
      /\ posts[e] \in Nat /\ delivered[e] \in Nat /\ crashed[e] \in Nat /\ lost[e] \in Nat
      /\ Follows(s, e) /\ Attempted(s, e)
  BY <1>1, Values DEF Follows
<1>3. /\ \A x \in Events : x # e => lost'[x] = lost[x]
      /\ delivered[e] <= 1 + crashed[e] + lost'[e]
  BY <1>1, <1>2 DEF Follows
<1>4. /\ UNCHANGED <<announced, posts, delivered, crashed>>
      /\ \A x \in Events : x # e => event'[x] = event[x]
  BY <1>1 DEF SaveAttempt
<1>5. \A x \in Events : Attempts(s, x) => x = e
  BY DEF Attempts
<1>6. CASE event[e] = NoRow
  <2>1. LetGo(s, NoBatch) /\ event' = event
    BY <1>6 DEF SaveAttempt
  <2>2. NoBatch \in [Events -> Rows] /\ \A x \in Events : NoBatch[x] = NoRow
    BY DEF NoBatch, Rows
  <2>3. \A x \in Events : Follows(s, x)'
    BY <1>1, <1>3, <1>4, <1>5, <1>6, <2>1, <2>2, LetGoFollows
  <2> QED
    BY <1>4, <1>6, <2>3
<1>7. CASE event[e] # NoRow
  <2> DEFINE read == loaded[s]
             new == [status |-> status, attempts |-> read.attempts + 1,
                     max |-> limit[s], next |-> next]
  <2>1. event' = [event EXCEPT ![e] = Flushed(@, read, new)] /\ LetGo(s, batch[s])
    BY <1>7 DEF SaveAttempt, AttemptCount
  <2>2. /\ event[e] \in Row
        /\ event[e].status = read.status /\ event[e].attempts = read.attempts
        /\ event[e].max = read.max /\ read.status # "sent"
        /\ \/ event[e].next = read.next
           \/ read.next = "later" /\ event[e].next = "due"
    <3>1. event[e] \in Row /\ read \in Row /\ read.status # "sent"
      BY <1>1, <1>2, <1>7, Values DEF Attempted
    <3>2. \/ event[e] = read
          \/ read.next = "later" /\ event[e] = [read EXCEPT !.next = "due"]
      BY <1>2, <1>7 DEF Attempted
    <3> HIDE DEF read
    <3> QED
      BY <3>1, <3>2 DEF Row
  <2>3. /\ event'[e].status = status \/ (status # "sent" /\ event'[e].status # "sent")
        /\ event'[e].attempts = read.attempts + 1 /\ event'[e].max = limit[s]
        /\ status = "sent" => event'[e].next # "later"
    <3>1. event'[e] = Flushed(event[e], read, new)
      BY <1>1, <2>1
    <3>2. read \in Row /\ read.attempts \in Nat /\ limit[s] \in Nat
      BY <1>2 DEF Row
    <3>3. event'[e].status = status \/ (status # "sent" /\ event'[e].status # "sent")
      BY <2>2, <3>1 DEF Flushed
    <3>4. event'[e].attempts = read.attempts + 1 /\ event'[e].max = limit[s]
      BY <2>2, <3>1, <3>2 DEF Flushed
    <3>5. status = "sent" => event'[e].next # "later"
      BY <2>2, <3>1, NullAssumption DEF Flushed
    <3> QED
      BY <3>3, <3>4, <3>5
  <2>4. Resting(e)'
    BY <1>2, <1>4, <2>3 DEF Resting, Attempted, Row
  <2>5. \A x \in Events : Follows(s, x)'
    <3>1. batch[s][e] = NoRow
      BY <1>2 DEF Attempted
    <3>2. event'[e].status = "sent" => event'[e].next # "later"
      BY <2>3
    <3>3. \A x \in Events : x # e =>
            event'[x] = event[x] /\ crashed'[x] = crashed[x] /\ lost'[x] = lost[x]
      BY <1>3, <1>4
    <3>4. delivered[e] <= 1 + crashed'[e] + lost'[e]
      BY <1>3, <1>4
    <3>5. LetGo(s, batch[s]) /\ batch[s] \in [Events -> Rows]
      BY <1>1, <2>1
    <3>6. UNCHANGED <<announced, posts, delivered>>
      BY <1>4
    <3> HIDE DEF new, read
    <3> QED
      BY <1>5, <2>4, <3>1, <3>2, <3>3, <3>4, <3>5, <3>6, LetGoFollows
  <2> QED
    BY <1>4, <2>2, <2>5
<1> QED
  BY <1>6, <1>7

-----------------------------------------------------------------------------
(* The actions.  Each also shows that a row that was sent is not written. *)

SentStays(e) ==
  event[e] # NoRow /\ event[e].status = "sent" => event'[e] \in {event[e], NoRow}

FollowsAll == \A s \in Sessions, e \in Events : Follows(s, e)
SentAll == \A e \in Events : SentStays(e)

LEMMA NoBatchIsRest ==
  ASSUME NEW s \in Sessions
  PROVE  /\ NoBatch \in [Events -> Rows] /\ \A x \in Events : NoBatch[x] = NoRow
         /\ \A x \in Events : NoBatch[x] \in {batch[s][x], NoRow}
  BY DEF NoBatch, Rows

LEMMA RestIsRest ==
  ASSUME SerialInv, NEW s \in Sessions, NEW e \in Events
  PROVE  LET rest == [batch[s] EXCEPT ![e] = NoRow]
         IN  /\ rest \in [Events -> Rows] /\ rest[e] = NoRow
             /\ \A x \in Events : rest[x] \in {batch[s][x], NoRow}
  BY DEF SerialInv, IInv, TypeOK, Rows

LEMMA CreateEventFollows ==
  ASSUME SerialInv, OneDelivery, NEW s \in Sessions, NEW e \in Events, CreateEvent(s, e)
  PROVE  FollowsAll' /\ SentAll
<1> SUFFICES ASSUME NEW x \in Events PROVE Follows(s, x)' /\ SentStays(x)
  BY DEF OneDelivery, FollowsAll, SentAll
<1>1. /\ event' = [event EXCEPT ![e] = NewEvent] /\ pc'[s] = "created" /\ e \notin announced
      /\ announced' = announced \union {e} /\ UNCHANGED <<batch, counts>>
      /\ event \in [Events -> Rows] /\ pc[s] = "idle"
  BY DEF CreateEvent, SerialInv, IInv, TypeOK
<1>2. ~ Attempts(s, x) /\ ~ Attempts(s, x)'
  BY <1>1 DEF Attempts
<1>3. CASE x # e
  <2>1. Follows(s, x)'
    BY <1>1, <1>2, <1>3, FrameFollows DEF counts
  <2> QED
    BY <1>1, <1>3, <2>1 DEF SentStays
<1>4. CASE x = e
  <2>1. /\ event[e] = NoRow /\ batch[s][e] = NoRow /\ posts[e] = 0
        /\ delivered[e] \in Nat /\ ~ delivered[e] > 0
        /\ crashed[e] \in Nat /\ lost[e] \in Nat
    BY <1>1, Values DEF SerialInv, OnlyAnnounced, Follows
  <2>2. event'[e] = NewEvent /\ NewEvent.status = "pending"
    BY <1>1 DEF NewEvent
  <2>3. Resting(e)' /\ delivered'[e] <= 1 + crashed'[e] + lost'[e]
    BY <1>1, <2>1, <2>2, MaxAttemptsAssumption DEF Resting, NewEvent, counts
  <2>4. Follows(s, e)'
    BY <1>1, <1>2, <1>4, <2>1, <2>2, <2>3 DEF Follows
  <2> QED
    BY <1>4, <2>1, <2>4 DEF SentStays
<1> QED
  BY <1>3, <1>4

LEMMA FirstAttemptFollows ==
  ASSUME SerialInv, OneDelivery, NEW s \in Sessions, FirstAttempt(s)
  PROVE  FollowsAll' /\ SentAll
<1>1. PICK e \in Events : e = held[s]
  BY DEF FirstAttempt, SerialInv, IInv, SessionsInv, HeldIsEvent
<1>2. /\ pc[s] = "created" /\ event' = event
      /\ UNCHANGED <<announced, delivered, crashed, lost>>
  BY DEF FirstAttempt
<1>3. \A x \in Events : ~ Attempts(s, x)
  BY <1>2 DEF Attempts
<1>4. SentAll
  BY <1>2 DEF SentAll, SentStays
<1>5. CASE event[e] = NoRow
  <2>1. LetGo(s, NoBatch) /\ UNCHANGED posts
    BY <1>1, <1>5 DEF FirstAttempt
  <2>2. delivered[e] <= 1 + crashed[e] + lost[e]
    BY DEF SerialInv, Follows
  <2>3. \A x \in Events : Follows(s, x)'
    BY <1>2, <1>3, <1>5, <2>1, <2>2, NoBatchIsRest, LetGoFollows
  <2> QED
    BY <1>4, <2>3 DEF OneDelivery, FollowsAll
<1>6. CASE event[e] # NoRow
  <2>1. /\ event[e] = NewEvent /\ event[e] \in Row /\ event[e].max \in Nat
        /\ event[e].status # "sent" /\ event[e].attempts < event[e].max
        /\ event[e].attempts <= event[e].max
    BY <1>1, <1>2, <1>6, MaxAttemptsAssumption, Values
       DEF SerialInv, CreatedIsNew, NewEvent, Row
  <2>2. BeginAttempt(s, e, event[e], event[e].max, NoBatch)
    BY <1>1, <1>6 DEF FirstAttempt
  <2>3. /\ posts[e] <= event[e].attempts + crashed[e]
        /\ delivered[e] <= crashed[e] + lost[e]
    BY <1>3, <1>6, <2>1 DEF SerialInv, Follows, Resting
  <2>4. e \in announced
    BY <1>1, <1>2 DEF SerialInv, OnlyAnnounced
  <2>5. \A x \in Events : Follows(s, x)'
    BY <1>2, <2>1, <2>2, <2>3, <2>4, NoBatchIsRest, BeginFollows
  <2> QED
    BY <1>4, <2>5 DEF OneDelivery, FollowsAll
<1> QED
  BY <1>5, <1>6

LEMMA ListDueRetriesFollows ==
  ASSUME SerialInv, OneDelivery, NEW s \in Sessions, ListDueRetries(s)
  PROVE  FollowsAll' /\ SentAll
<1> SUFFICES ASSUME NEW x \in Events PROVE Follows(s, x)' /\ SentStays(x)
  BY DEF OneDelivery, FollowsAll, SentAll
<1>1. /\ UNCHANGED <<event, announced, posts, delivered, crashed, lost>>
      /\ batch'[s][x] = (IF IsDue(event[x]) THEN event[x] ELSE NoRow)
      /\ pc[s] = "idle" /\ pc'[s] = "batch"
  BY DEF ListDueRetries, SerialInv, IInv, TypeOK, counts
<1>2. ~ Attempts(s, x) /\ ~ Attempts(s, x)'
  BY <1>1 DEF Attempts
<1>3. Follows(s, x)
  BY DEF SerialInv
<1>4. batch'[s][x] # NoRow => Listed(s, x)'
  <2> SUFFICES ASSUME batch'[s][x] # NoRow PROVE Listed(s, x)'
    OBVIOUS
  <2>1. IsDue(event[x]) /\ batch'[s][x] = event[x]
    BY <1>1
  <2>2. event[x] # NoRow /\ Resting(x) /\ event[x].status # "sent"
    BY <1>2, <1>3, <2>1 DEF IsDue, Follows
  <2> QED
    BY <1>1, <2>1, <2>2 DEF IsDue, Listed, Resting
<1>5. Resting(x) => Resting(x)'
  BY <1>1 DEF Resting
<1>6. Follows(s, x)'
  BY <1>1, <1>2, <1>3, <1>4, <1>5 DEF Follows
<1> QED
  BY <1>1, <1>6 DEF SentStays

LEMMA RetryPostsFollows ==
  ASSUME SerialInv, OneDelivery, NEW s \in Sessions, NEW e \in Events, RetryPosts(s, e)
  PROVE  FollowsAll' /\ SentAll
<1> DEFINE row == batch[s][e]
           rest == [batch[s] EXCEPT ![e] = NoRow]
<1>1. /\ row # NoRow /\ pc[s] = "batch" /\ BeginAttempt(s, e, row, row.max, rest)
      /\ UNCHANGED <<event, announced, delivered, crashed, lost>>
  BY DEF RetryPosts
<1>2. row \in Row /\ row.max \in Nat /\ row.attempts \in Nat
  BY <1>1, Values DEF Row
<1>3. Listed(s, e) /\ e \in announced
  BY <1>1 DEF SerialInv, Follows, OnlyAnnounced
<1>4. /\ row.status # "sent" /\ row.attempts < row.max /\ row.attempts <= row.max
      /\ event[e] # NoRow => event[e] = row
      /\ posts[e] <= row.attempts + crashed[e] /\ delivered[e] <= crashed[e] + lost[e]
  BY <1>2, <1>3 DEF Listed
<1>5. rest \in [Events -> Rows] /\ rest[e] = NoRow
      /\ \A x \in Events : rest[x] \in {batch[s][x], NoRow}
  BY RestIsRest
<1> HIDE DEF row, rest
<1>6. \A x \in Events : Follows(s, x)'
  BY <1>1, <1>2, <1>3, <1>4, <1>5, BeginFollows
<1> QED
  BY <1>1, <1>6 DEF OneDelivery, FollowsAll, SentAll, SentStays

LEMMA ForcePostsFollows ==
  ASSUME SerialInv, OneDelivery, NEW s \in Sessions, NEW e \in Events, ForcePosts(s, e)
  PROVE  FollowsAll' /\ SentAll
<1> DEFINE row == event[e]
           max == IF row.attempts >= row.max THEN row.attempts + 1 ELSE row.max
<1>1. /\ row # NoRow /\ row.status # "sent" /\ pc[s] = "idle"
      /\ BeginAttempt(s, e, row, max, NoBatch)
      /\ UNCHANGED <<event, announced, delivered, crashed, lost>>
  BY DEF ForcePosts, MayForce
<1>2. row \in Row /\ row.max \in Nat /\ row.attempts \in Nat
  BY <1>1, Values DEF Row
<1>3. max \in Nat /\ row.attempts < max
  BY <1>2
<1>4. Resting(e) /\ e \in announced
  BY <1>1 DEF SerialInv, Follows, Attempts, OnlyAnnounced
<1>5. /\ row.attempts <= row.max /\ posts[e] <= row.attempts + crashed[e]
      /\ delivered[e] <= crashed[e] + lost[e]
  BY <1>1, <1>4 DEF Resting
<1>6. event[e] = row
  OBVIOUS
<1> HIDE DEF row, max
<1>7. \A x \in Events : Follows(s, x)'
  BY <1>1, <1>2, <1>3, <1>4, <1>5, <1>6, NoBatchIsRest, BeginFollows
<1> QED
  BY <1>1, <1>7 DEF OneDelivery, FollowsAll, SentAll, SentStays

LEMMA RetryGivesUpFollows ==
  ASSUME SerialInv, OneDelivery, NEW s \in Sessions, NEW e \in Events, RetryGivesUp(s, e)
  PROVE  FollowsAll' /\ SentAll
<1> DEFINE rest == [batch[s] EXCEPT ![e] = NoRow]
<1>1. /\ batch[s][e] # NoRow /\ pc[s] = "batch"
      /\ UNCHANGED <<announced, posts, delivered, crashed, lost>>
  BY DEF RetryGivesUp, counts
<1>2. Follows(s, e) /\ Listed(s, e)
  BY <1>1 DEF SerialInv, Follows
<1>3. CASE event[e] = NoRow
  <2>1. LetGo(s, NoBatch) /\ event' = event
    BY <1>3 DEF RetryGivesUp
  <2>2. \A x \in Events : ~ Attempts(s, x)
    BY <1>1 DEF Attempts
  <2>3. \A x \in Events : Follows(s, x)'
    BY <1>1, <1>2, <1>3, <2>1, <2>2, NoBatchIsRest, LetGoFollows DEF Follows
  <2> QED
    BY <2>1, <2>3 DEF OneDelivery, FollowsAll, SentAll, SentStays
<1>4. CASE event[e] # NoRow
  <2>1. event[e] = batch[s][e] /\ event[e].status # "sent"
    BY <1>2, <1>4 DEF Listed
  <2>2. GiveUp(s, e, event[e], rest)
    BY <1>4, <2>1 DEF RetryGivesUp
  <2>3. rest \in [Events -> Rows] /\ rest[e] = NoRow
        /\ \A x \in Events : rest[x] \in {batch[s][x], NoRow}
    BY RestIsRest
  <2> HIDE DEF rest
  <2>4. /\ \A x \in Events : Follows(s, x)'
        /\ \A x \in Events : x # e => event'[x] = event[x]
    BY <1>1, <1>4, <2>1, <2>2, <2>3, GiveUpFollows
  <2> QED
    BY <2>1, <2>4 DEF OneDelivery, FollowsAll, SentAll, SentStays
<1> QED
  BY <1>3, <1>4

LEMMA ForceGivesUpFollows ==
  ASSUME SerialInv, OneDelivery, NEW s \in Sessions, NEW e \in Events, ForceGivesUp(s, e)
  PROVE  FollowsAll' /\ SentAll
<1>1. /\ event[e] # NoRow /\ event[e].status # "sent" /\ pc[s] = "idle"
      /\ GiveUp(s, e, event[e], NoBatch)
      /\ UNCHANGED <<announced, posts, delivered, crashed, lost>>
  BY DEF ForceGivesUp, MayForce, counts
<1>2. /\ \A x \in Events : Follows(s, x)'
      /\ \A x \in Events : x # e => event'[x] = event[x]
  BY <1>1, NoBatchIsRest, GiveUpFollows
<1> QED
  BY <1>1, <1>2 DEF OneDelivery, FollowsAll, SentAll, SentStays

LEMMA AcceptFollows ==
  ASSUME SerialInv, OneDelivery, NEW s \in Sessions, Accept(s)
  PROVE  FollowsAll' /\ SentAll
<1> SUFFICES ASSUME NEW x \in Events PROVE Follows(s, x)' /\ SentStays(x)
  BY DEF OneDelivery, FollowsAll, SentAll
<1>1. /\ UNCHANGED <<event, announced, posts, crashed, lost, batch, loaded, limit, held>>
      /\ pc[s] = "posting" /\ pc'[s] = "accepted"
      /\ delivered' = [delivered EXCEPT ![held[s]] = @ + 1]
      /\ delivered \in [Events -> Nat]
  BY DEF Accept, SerialInv, IInv, TypeOK
<1>2. Follows(s, x)
  BY DEF SerialInv
<1>3. Attempts(s, x)' <=> Attempts(s, x)
  BY <1>1 DEF Attempts
<1>4. CASE x # held[s]
  <2>1. ~ Attempts(s, x) /\ delivered'[x] = delivered[x]
    BY <1>1, <1>4 DEF Attempts
  <2>2. Follows(s, x)'
    BY <1>1, <1>3, <1>4, <2>1, FrameFollows
  <2> QED
    BY <1>1, <2>2 DEF SentStays
<1>5. CASE x = held[s]
  <2>1. Attempts(s, x) /\ Attempted(s, x)
    BY <1>1, <1>2, <1>5 DEF Attempts, Follows
  <2>2. delivered'[x] = delivered[x] + 1 /\ delivered[x] <= crashed[x] + lost[x]
    BY <1>1, <1>5, <2>1 DEF Attempted
  <2>3. crashed[x] \in Nat /\ lost[x] \in Nat /\ delivered[x] \in Nat
    BY Values
  <2>4. Attempted(s, x)'
    BY <1>1, <2>1 DEF Attempted
  <2>5. delivered'[x] <= 1 + crashed'[x] + lost'[x] /\ batch'[s][x] = NoRow
    BY <1>1, <2>1, <2>2, <2>3 DEF Attempted
  <2>6. Follows(s, x)'
    BY <1>1, <1>2, <1>3, <2>1, <2>4, <2>5 DEF Follows
  <2> QED
    BY <1>1, <2>6 DEF SentStays
<1> QED
  BY <1>4, <1>5

LEMMA SaveSentFollows ==
  ASSUME SerialInv, OneDelivery, NEW s \in Sessions, SaveSent(s)
  PROVE  FollowsAll' /\ SentAll
<1>1. pc[s] = "accepted" /\ lost' = lost /\ SaveAttempt(s, "sent", Null)
  BY DEF SaveSent
<1>2. /\ \A x \in Events : Follows(s, x)'
      /\ \A x \in Events : x # held[s] => event'[x] = event[x]
      /\ event[held[s]] # NoRow => event[held[s]].status # "sent"
  BY <1>1, SaveAttemptFollows
<1> QED
  BY <1>1, <1>2 DEF OneDelivery, FollowsAll, SentAll, SentStays, SaveAttempt

LEMMA SaveFailureFollows ==
  ASSUME SerialInv, OneDelivery, NEW s \in Sessions, SaveFailure(s)
  PROVE  FollowsAll' /\ SentAll
<1> DEFINE e == held[s]
<1>1. /\ pc[s] \in {"posting", "accepted"} /\ e \in Events /\ Attempts(s, e)
      /\ lost \in [Events -> Nat]
  BY DEF SaveFailure, Attempts, SerialInv, IInv, TypeOK, SessionsInv, HeldIsEvent
<1>2. /\ Attempted(s, e) /\ delivered[e] <= 1 + crashed[e] + lost[e]
      /\ crashed[e] \in Nat /\ lost[e] \in Nat /\ delivered[e] \in Nat
  BY <1>1, Values DEF Follows
<1>3. /\ lost' = lost \/ lost' = [lost EXCEPT ![held[s]] = @ + 1]
      /\ delivered[e] <= crashed[e] + lost'[e]
  <2>1. CASE pc[s] = "posting" /\ lost' = lost
    BY <1>2, <2>1 DEF Attempted
  <2>2. CASE lost' = [lost EXCEPT ![held[s]] = @ + 1]
    <3>1. lost'[e] = lost[e] + 1
      BY <1>1, <2>2
    <3> QED
      BY <1>2, <2>2, <3>1
  <2> QED
    BY <2>1, <2>2 DEF SaveFailure
<1>4. PICK status \in {"failed", "retrying"}, next \in {Null, "later"} :
        SaveAttempt(s, status, next)
  BY DEF SaveFailure
<1>5. /\ \A x \in Events : Follows(s, x)'
      /\ \A x \in Events : x # held[s] => event'[x] = event[x]
      /\ event[held[s]] # NoRow => event[held[s]].status # "sent"
  BY <1>1, <1>3, <1>4, SaveAttemptFollows
<1> QED
  BY <1>4, <1>5 DEF OneDelivery, FollowsAll, SentAll, SentStays, SaveAttempt

LEMMA DieFollows ==
  ASSUME SerialInv, OneDelivery, NEW s \in Sessions, Die(s)
  PROVE  FollowsAll' /\ SentAll
<1>1. /\ LetGo(s, NoBatch) /\ UNCHANGED <<event, announced, posts, delivered, lost>>
      /\ crashed \in [Events -> Nat]
  BY DEF Die, SerialInv, IInv, TypeOK
<1>2. CASE pc[s] \in {"posting", "accepted"}
  <2>1. PICK e \in Events : e = held[s]
    BY <1>2 DEF SerialInv, IInv, SessionsInv, HeldIsEvent
  <2>2. /\ crashed' = [crashed EXCEPT ![e] = @ + 1]
        /\ Attempts(s, e) /\ \A x \in Events : Attempts(s, x) => x = e
    BY <1>2, <2>1 DEF Die, Attempts
  <2>3. /\ crashed'[e] = crashed[e] + 1 /\ \A x \in Events : x # e => crashed'[x] = crashed[x]
        /\ Attempted(s, e) /\ delivered[e] <= 1 + crashed[e] + lost[e]
        /\ (event[e] # NoRow /\ event[e].status = "sent" => event[e].next # "later")
    BY <1>1, <2>2 DEF SerialInv, Follows
  <2>4. /\ posts[e] \in Nat /\ crashed[e] \in Nat /\ lost[e] \in Nat /\ delivered[e] \in Nat
        /\ loaded[s] \in Row
    BY <2>2, Values
  <2>5. ASSUME event[e] # NoRow PROVE Resting(e)'
    <3>1. event[e].attempts = loaded[s].attempts /\ event[e].max = loaded[s].max
      BY <2>3, <2>4, <2>5 DEF Attempted, Row
    <3> QED
      BY <1>1, <2>3, <2>4, <3>1 DEF Attempted, Resting, Row
  <2>6. \A x \in Events : Follows(s, x)'
    <3>1. \A x \in Events : x # e =>
            event'[x] = event[x] /\ crashed'[x] = crashed[x] /\ lost'[x] = lost[x]
      BY <1>1, <2>3
    <3>2. delivered[e] <= 1 + crashed'[e] + lost'[e]
      BY <1>1, <2>3, <2>4
    <3>3. event'[e] # NoRow =>
            Resting(e)' /\ (event'[e].status = "sent" => event'[e].next # "later")
      BY <1>1, <2>3, <2>5
    <3> QED
      BY <1>1, <2>2, <3>1, <3>2, <3>3, NoBatchIsRest, LetGoFollows
  <2> QED
    BY <1>1, <2>6 DEF OneDelivery, FollowsAll, SentAll, SentStays
<1>3. CASE pc[s] \notin {"posting", "accepted"}
  <2>1. crashed' = crashed /\ \A x \in Events : ~ Attempts(s, x)
    BY <1>3 DEF Die, Attempts
  <2>2. pc'[s] \in {"idle", "batch"} /\ batch'[s] = NoBatch
    BY <1>1 DEF LetGo, SerialInv, IInv, TypeOK
  <2>3. \A x \in Events : ~ Attempts(s, x)'
    BY <2>2 DEF Attempts
  <2>4. \A x \in Events : Follows(s, x)'
    BY <1>1, <2>1, <2>2, <2>3, NoBatchIsRest, FrameFollows
  <2> QED
    BY <1>1, <2>4 DEF OneDelivery, FollowsAll, SentAll, SentStays
<1> QED
  BY <1>2, <1>3

LEMMA StepFollows ==
  ASSUME SerialInv, OneDelivery, NEW s \in Sessions, Step(s)
  PROVE  FollowsAll' /\ SentAll
  BY FirstAttemptFollows, ListDueRetriesFollows, CreateEventFollows, RetryPostsFollows,
     RetryGivesUpFollows, ForcePostsFollows, ForceGivesUpFollows, AcceptFollows,
     SaveSentFollows, SaveFailureFollows, DieFollows DEF Step

\* A delay passes: the row is not one that a batch lists.
LEMMA ElapseFollows ==
  ASSUME SerialInv, OneDelivery, NEW e \in Events, Elapse(e) PROVE FollowsAll' /\ SentAll
<1> SUFFICES ASSUME NEW s \in Sessions, NEW x \in Events PROVE Follows(s, x)' /\ SentStays(x)
  BY DEF OneDelivery, FollowsAll, SentAll
<1>1. /\ event[e] # NoRow /\ event[e].next = "later"
      /\ event' = [event EXCEPT ![e].next = "due"] /\ event \in [Events -> Rows]
      /\ UNCHANGED <<announced, delivery, counts>>
  BY DEF Elapse, SerialInv, IInv, TypeOK
<1>2. event[e] \in Row /\ event'[e] = [event[e] EXCEPT !.next = "due"]
  BY <1>1, Values
<1>3. Follows(s, x) /\ (Attempts(s, x)' <=> Attempts(s, x))
  BY <1>1 DEF SerialInv, Attempts, delivery
<1>4. CASE x # e
  <2>1. event'[x] = event[x]
    BY <1>1, <1>4
  <2>2. Follows(s, x)'
    BY <1>1, <1>3, <2>1
       DEF delivery, counts, Follows, Listed, Attempted, Resting
  <2> QED
    BY <2>1, <2>2 DEF SentStays
<1>5. CASE x = e
  <2>1. event[e].status # "sent" /\ batch[s][e] = NoRow
    BY <1>1, <1>3, <1>5 DEF Follows, Listed
  <2>2. /\ event'[e].status = event[e].status /\ event'[e].attempts = event[e].attempts
        /\ event'[e].max = event[e].max /\ event'[e].next = "due"
    BY <1>2 DEF Row
  <2>3. Resting(e) => Resting(e)'
    BY <1>1, <2>2 DEF Resting, counts
  <2>4. ASSUME Attempts(s, e) PROVE Attempted(s, e)'
    <3>1. Attempted(s, e) /\ loaded[s] \in Row
      BY <1>3, <1>5, <2>4, Values DEF Follows
    <3>2. event[e] = loaded[s]
      BY <1>1, <3>1 DEF Attempted, Row
    <3> QED
      BY <1>1, <1>2, <3>1, <3>2 DEF Attempted, delivery, counts
  <2>5. Follows(s, e)'
    BY <1>1, <1>3, <1>5, <2>1, <2>2, <2>3, <2>4 DEF Follows, delivery, counts
  <2> QED
    BY <1>5, <2>1, <2>5 DEF SentStays
<1> QED
  BY <1>4, <1>5

\* A DELETE and retention remove rows, but none that a batch lists has to stay.
LEMMA RemoveFollows ==
  ASSUME SerialInv, OneDelivery, event \in [Events -> Rows],
         \A x \in Events : event'[x] \in {event[x], NoRow},
         UNCHANGED <<announced, delivery, counts>>
  PROVE  FollowsAll' /\ SentAll
<1> SUFFICES ASSUME NEW s \in Sessions, NEW x \in Events PROVE Follows(s, x)' /\ SentStays(x)
  BY DEF OneDelivery, FollowsAll, SentAll
<1>1. Follows(s, x) /\ (Attempts(s, x)' <=> Attempts(s, x))
  BY DEF SerialInv, Attempts, delivery
<1>2. Follows(s, x)'
  BY <1>1 DEF Follows, Listed, Attempted, Resting, delivery, counts
<1> QED
  BY <1>2 DEF SentStays

\* What was created and not yet posted is touched by nobody else.
LEMMA NextCreatedIsNew ==
  ASSUME SerialInv, OneDelivery, [Next]_vars PROVE CreatedIsNew'
<1> SUFFICES ASSUME NEW s \in Sessions, pc'[s] = "created"
             PROVE  event'[held'[s]] \in {NewEvent, NoRow}
  BY DEF CreatedIsNew
<1>1. ASSUME NEW e \in Events, CreateEvent(s, e) PROVE event'[held'[s]] \in {NewEvent, NoRow}
  BY <1>1 DEF CreateEvent, SerialInv, IInv, TypeOK
<1>2. ASSUME Step(s), \A e \in Events : ~ CreateEvent(s, e) PROVE FALSE
  BY <1>2 DEF Step, FirstAttempt, ListDueRetries, RetryPosts, RetryGivesUp, ForcePosts,
     ForceGivesUp, Accept, SaveSent, SaveFailure, SaveAttempt, Die, LetGo, BeginAttempt,
     GiveUp, SerialInv, IInv, TypeOK
<1>3. ASSUME UNCHANGED <<pc, held>>,
             \A x \in Events :
               \/ event'[x] \in {event[x], NoRow}
               \/ event[x] # NoRow /\ event[x].next = "later"
      PROVE  event'[held'[s]] \in {NewEvent, NoRow}
  <2>1. held[s] \in Events /\ event[held[s]] \in {NewEvent, NoRow}
    BY <1>3 DEF SerialInv, CreatedIsNew, IInv, SessionsInv, HeldIsEvent
  <2> QED
    BY <1>3, <2>1 DEF NewEvent
<1>4. CASE UNCHANGED vars
  BY <1>3, <1>4 DEF vars, delivery
<1>5. ASSUME NEW e \in Events, Elapse(e) \/ DeleteIncident(e) \/ Prune(e)
      PROVE  event'[held'[s]] \in {NewEvent, NoRow}
  <2>1. event \in [Events -> Rows]
    BY DEF SerialInv, IInv, TypeOK
  <2> QED
    BY <1>3, <1>5, <2>1 DEF Elapse, DeleteIncident, Prune, delivery
<1> QED
  BY <1>1, <1>2, <1>4, <1>5 DEF OneDelivery, Next

LEMMA NextSerialInv == ASSUME SerialInv, OneDelivery, [Next]_vars PROVE SerialInv' /\ SentAll
<1>1. IInv' /\ OnlyAnnounced' /\ CreatedIsNew'
  BY StepIInv, NextAnnounced, NextCreatedIsNew DEF SerialInv
<1>2. event \in [Events -> Rows]
  BY DEF SerialInv, IInv, TypeOK
<1>3. ASSUME UNCHANGED vars PROVE FollowsAll' /\ SentAll
  BY <1>2, <1>3, RemoveFollows DEF vars
<1>4. ASSUME \E s \in Sessions : Step(s) PROVE FollowsAll' /\ SentAll
  BY <1>4, StepFollows
<1>5. ASSUME \E e \in Events : Elapse(e) PROVE FollowsAll' /\ SentAll
  BY <1>5, ElapseFollows
<1>6. ASSUME \E e \in Events : DeleteIncident(e) \/ Prune(e) PROVE FollowsAll' /\ SentAll
  BY <1>2, <1>6, RemoveFollows DEF DeleteIncident, Prune
<1>7. FollowsAll' /\ SentAll
  BY <1>3, <1>4, <1>5, <1>6 DEF Next
<1> QED
  BY <1>1, <1>7 DEF SerialInv, FollowsAll

LEMMA SerialInvariance == OneDelivery => (Spec => []SerialInv)
<1> SUFFICES ASSUME OneDelivery PROVE Spec => []SerialInv
  OBVIOUS
<1>1. SerialInv /\ [Next]_vars => SerialInv'
  BY NextSerialInv
<1> QED
  BY <1>1, InitSerialInv, PTL DEF Spec

LEMMA SerialInvIsEnough == ASSUME SerialInv, OneDelivery PROVE AttemptLimit /\ RepeatedForAReason
<1>1. AttemptLimit
  <2> SUFFICES ASSUME NEW e \in Events, event[e] # NoRow, ~ InHand(e)
               PROVE  posts[e] <= event[e].max + crashed[e]
    BY DEF AttemptLimit
  <2>1. Resting(e)
    BY DEF OneDelivery, SerialInv, Follows, Attempts, InHand
  <2>2. /\ posts[e] \in Nat /\ crashed[e] \in Nat
        /\ event[e].attempts \in Nat /\ event[e].max \in Nat
    BY Values DEF OneDelivery, Row
  <2> QED
    BY <2>1, <2>2 DEF Resting
<1>2. RepeatedForAReason
  BY DEF RepeatedForAReason, OneDelivery, SerialInv, Follows
<1> QED
  BY <1>1, <1>2

-----------------------------------------------------------------------------
\* One delivery at a time: automatic and forced attempts together are limited by the
\* max_attempts of the row, but for those whose session died (_attempt_event).
THEOREM AttemptsAreLimited == OneDelivery => (Spec => []AttemptLimit)
<1> SUFFICES ASSUME OneDelivery PROVE Spec => []AttemptLimit
  OBVIOUS
<1>1. SerialInv => AttemptLimit
  BY SerialInvIsEnough
<1> QED
  BY <1>1, SerialInvariance, PTL

\* One delivery at a time: only a lost answer or a session that died makes a message
\* come twice (_attempt_event, list_due_retries).
THEOREM RepetitionsHaveAReason == OneDelivery => (Spec => []RepeatedForAReason)
<1> SUFFICES ASSUME OneDelivery PROVE Spec => []RepeatedForAReason
  OBVIOUS
<1>1. SerialInv => RepeatedForAReason
  BY SerialInvIsEnough
<1> QED
  BY <1>1, SerialInvariance, PTL

\* One delivery at a time: nothing is written to a row that says SENT (retry_event).
THEOREM SentRowsAreFinal == OneDelivery => (Spec => SentIsFinal)
<1> SUFFICES ASSUME OneDelivery PROVE Spec => SentIsFinal
  OBVIOUS
<1>1. SerialInv /\ [Next]_vars =>
        [\A e \in Events : event[e] # NoRow /\ event[e].status = "sent" =>
           event'[e] \in {event[e], NoRow}]_vars
  BY NextSerialInv DEF SentAll, SentStays
<1> QED
  BY <1>1, SerialInvariance, PTL DEF SentIsFinal, Spec
=============================================================================
