------------------------ MODULE NotificationDelivery ------------------------
(***************************************************************************)
(* The notification_events rows and the sessions that deliver them to      *)
(* Discord: the first attempt made by run_target, the retry batch at the   *)
(* end of a cron cycle, and the manual retry of the API.                   *)
(*                                                                         *)
(* A row is not locked and not re-read while its message is posted: the    *)
(* session keeps the values it loaded, changes them in memory and, after   *)
(* the POST, writes the columns that differ from what it loaded.  A batch  *)
(* loads all its rows before its first POST.                               *)
(*                                                                         *)
(* An event stands for one <<incident, event_type>>.  A retry time is Null, *)
(* "due" or "later"; Elapse is the passing of the delay.                   *)
(***************************************************************************)
EXTENDS Integers, FiniteSets

CONSTANTS
  Events,       \* the transitions that are notified
  Sessions,     \* the database sessions that deliver
  Outcomes,     \* what a POST may end in: "ok", "refused", "lost"
  MaxAttempts,  \* settings.notification_max_attempts
  MaxForces,    \* bound: manual retries in a behaviour
  MaxCrashes,   \* bound: sessions that die in a behaviour
  Null, NoRow

ASSUME OutcomesAssumption == Outcomes \subseteq {"ok", "refused", "lost"}
ASSUME MaxAttemptsAssumption == MaxAttempts \in 1..20
ASSUME BoundsAssumption == MaxForces \in Nat /\ MaxCrashes \in Nat
ASSUME NullAssumption == Null \notin {"due", "later"}

VARIABLES
  event,      \* the committed row of each event
  gone,       \* the events whose incident was deleted with its target
  announced,  \* the events notify_incident_transition has created
  pc,         \* where each session stands
  held,       \* the event a session is delivering
  loaded,     \* its row as the session loaded it
  limit,      \* its max_attempts in the session's memory
  batch,      \* the rows list_due_retries returned and retry_event still has to take
  forces, crashes,
  posts,      \* history: the POSTs begun for each event
  delivered,  \* history: the messages Discord accepted
  crashed,    \* history: the POSTs whose session died
  lost        \* history: the accepted messages whose answer was lost

delivery == <<pc, held, loaded, limit, batch>>
bounds == <<forces, crashes>>
counts == <<posts, delivered, crashed, lost>>
vars == <<event, gone, announced, delivery, bounds, counts>>

-----------------------------------------------------------------------------
Row == [status : {"pending", "retrying", "sent", "failed"},
        attempts : Nat, max : Nat, next : {Null, "due", "later"}]
Rows == Row \union {NoRow}

\* Mutants: max_attempts, or next_retry_at, is not set on creation.
NewEventWithoutLimit == [status |-> "pending", attempts |-> 0, max |-> Null, next |-> "due"]
NewEventWithoutRetry == [status |-> "pending", attempts |-> 0, max |-> MaxAttempts, next |-> Null]
NewEvent == [status |-> "pending", attempts |-> 0, max |-> MaxAttempts, next |-> "due"]
NoBatch == [e \in Events |-> NoRow]

\* Mutant: the query looks at the attempts only.
IsDueByAttempts(row) == row # NoRow /\ row.attempts < row.max

\* list_due_retries
IsDue(row) ==
  /\ row # NoRow
  /\ row.status \in {"pending", "retrying"}
  /\ row.next = "due"
  /\ row.attempts < row.max

\* The ORM's flush writes the columns that differ from what was read; a retry
\* time that was computed anew always does.
Flushed(row, read, new) ==
  [status   |-> IF new.status # read.status THEN new.status ELSE row.status,
   attempts |-> IF new.attempts # read.attempts THEN new.attempts ELSE row.attempts,
   max      |-> IF new.max # read.max THEN new.max ELSE row.max,
   next     |-> IF new.next # read.next \/ new.next = "later" THEN new.next ELSE row.next]

Init ==
  /\ event = [e \in Events |-> NoRow]
  /\ gone = {} /\ announced = {}
  /\ pc = [s \in Sessions |-> "idle"]
  /\ held = [s \in Sessions |-> Null]
  /\ loaded = [s \in Sessions |-> NoRow]
  /\ limit = [s \in Sessions |-> 0]
  /\ batch = [s \in Sessions |-> NoBatch]
  /\ forces = 0 /\ crashes = 0
  /\ posts = [e \in Events |-> 0] /\ delivered = [e \in Events |-> 0]
  /\ crashed = [e \in Events |-> 0] /\ lost = [e \in Events |-> 0]

-----------------------------------------------------------------------------
\* The session lets go of its event, and of the batch unless rest keeps it.
LetGo(s, rest) ==
  /\ batch' = [batch EXCEPT ![s] = rest]
  /\ pc' = [pc EXCEPT ![s] = IF rest = NoBatch THEN "idle" ELSE "batch"]
  /\ held' = [held EXCEPT ![s] = Null]
  /\ loaded' = [loaded EXCEPT ![s] = NoRow]
  /\ limit' = [limit EXCEPT ![s] = 0]

\* _attempt_event up to the POST: in memory one more attempt, nothing written.
BeginAttempt(s, e, row, max, rest) ==
  /\ pc' = [pc EXCEPT ![s] = "posting"]
  /\ held' = [held EXCEPT ![s] = e]
  /\ loaded' = [loaded EXCEPT ![s] = row]
  /\ limit' = [limit EXCEPT ![s] = max]
  /\ batch' = [batch EXCEPT ![s] = rest]
  /\ posts' = [posts EXCEPT ![e] = @ + 1]

\* Mutant: giving up counts as an attempt.
GiveUpCounted(s, e, row, rest) ==
  /\ event' = [event EXCEPT ![e] =
       Flushed(@, row, [row EXCEPT !.status = "failed", !.next = Null,
                                   !.attempts = @ + 1])]
  /\ LetGo(s, rest)

\* retry_event finds no check_run to rebuild the message from (retention took it),
\* or no incident.
GiveUp(s, e, row, rest) ==
  /\ event' = [event EXCEPT ![e] =
       Flushed(@, row, [row EXCEPT !.status = "failed", !.next = Null])]
  /\ LetGo(s, rest)

\* notify_incident_transition: INSERT and COMMIT; a transition comes only once.
CreateEvent(s, e) ==
  /\ pc[s] = "idle" /\ e \notin announced
  /\ announced' = announced \union {e}
  /\ event' = [event EXCEPT ![e] = NewEvent]
  /\ pc' = [pc EXCEPT ![s] = "created"]
  /\ held' = [held EXCEPT ![s] = e]
  /\ UNCHANGED <<gone, loaded, limit, batch, bounds, counts>>

\* Mutant: the first attempt is left to the retry batch.
FirstAttemptByBatch(s) ==
  /\ pc[s] = "created" /\ LetGo(s, NoBatch)
  /\ UNCHANGED <<event, gone, announced, bounds, counts>>

\* ... session.refresh, which raises if the row is gone, and the first attempt.
FirstAttempt(s) ==
  LET row == event[held[s]]
  IN  /\ pc[s] = "created"
      /\ \/ row = NoRow /\ LetGo(s, NoBatch) /\ UNCHANGED posts
         \/ row # NoRow /\ BeginAttempt(s, held[s], row, row.max, NoBatch)
      /\ UNCHANGED <<event, gone, announced, bounds, delivered, crashed, lost>>

\* retry_due_notifications
ListDueRetries(s) ==
  /\ pc[s] = "idle"
  /\ \E e \in Events : IsDue(event[e])
  /\ batch' = [batch EXCEPT ![s] =
       [e \in Events |-> IF IsDue(event[e]) THEN event[e] ELSE NoRow]]
  /\ pc' = [pc EXCEPT ![s] = "batch"]
  /\ UNCHANGED <<event, gone, announced, held, loaded, limit, bounds, counts>>

\* retry_event for the next row of the batch.  session.get answers from the
\* identity map, so its guards see the row as it was listed.  The incident and
\* the check_run are looked up in the database.
RetryPosts(s, e) ==
  LET row == batch[s][e]
  IN  /\ pc[s] = "batch" /\ row # NoRow /\ e \notin gone
      /\ BeginAttempt(s, e, row, row.max, [batch[s] EXCEPT ![e] = NoRow])
      /\ UNCHANGED <<event, gone, announced, bounds, delivered, crashed, lost>>

\* ... one of them is gone; and if the row is gone as well, the commit of the
\* failure raises and the batch is abandoned.
RetryGivesUp(s, e) ==
  LET row == batch[s][e]
  IN  /\ pc[s] = "batch" /\ row # NoRow
      /\ IF event[e] = NoRow
         THEN LetGo(s, NoBatch) /\ UNCHANGED event
         ELSE GiveUp(s, e, row, [batch[s] EXCEPT ![e] = NoRow])
      /\ UNCHANGED <<gone, announced, bounds, counts>>

MayForceSent(row) == row # NoRow   \* Mutant: the SENT return is dropped
MayForce(row) == row # NoRow /\ row.status # "sent"

\* POST /notifications/{id}/retry: retry_event with force, on a row just loaded.
ForcePosts(s, e) ==
  LET row == event[e]
  IN  /\ pc[s] = "idle" /\ MayForce(row) /\ forces < MaxForces
      /\ forces' = forces + 1
      /\ BeginAttempt(s, e, row,
           IF row.attempts >= row.max THEN row.attempts + 1 ELSE row.max, NoBatch)
      /\ UNCHANGED <<event, gone, announced, crashes, delivered, crashed, lost>>

ForceGivesUp(s, e) ==
  /\ pc[s] = "idle" /\ MayForce(event[e]) /\ forces < MaxForces
  /\ forces' = forces + 1
  /\ GiveUp(s, e, event[e], NoBatch)
  /\ UNCHANGED <<gone, announced, crashes, counts>>

-----------------------------------------------------------------------------
\* Discord takes the message.
Accept(s) ==
  /\ pc[s] = "posting" /\ Outcomes \intersect {"ok", "lost"} # {}
  /\ pc' = [pc EXCEPT ![s] = "accepted"]
  /\ delivered' = [delivered EXCEPT ![held[s]] = @ + 1]
  /\ UNCHANGED <<event, gone, announced, held, loaded, limit, batch, bounds,
                 posts, crashed, lost>>

Uncounted(s) == loaded[s].attempts   \* Mutant: attempt_count is not incremented
AttemptCount(s) == loaded[s].attempts + 1

\* The COMMIT of _attempt_event; an UPDATE of a deleted row raises.
SaveAttempt(s, status, next) ==
  LET e == held[s]
      read == loaded[s]
      new == [status |-> status, attempts |-> AttemptCount(s),
              max |-> limit[s], next |-> next]
  IN  /\ \/ /\ event[e] = NoRow
            /\ LetGo(s, NoBatch) /\ UNCHANGED event
         \/ /\ event[e] # NoRow
            /\ event' = [event EXCEPT ![e] = Flushed(@, read, new)]
            /\ LetGo(s, batch[s])
      /\ UNCHANGED <<gone, announced, bounds, posts, delivered, crashed>>

\* Mutant: raise_for_status is not called.
SaveAnyAsSent(s) ==
  /\ pc[s] \in {"posting", "accepted"} /\ "ok" \in Outcomes
  /\ SaveAttempt(s, "sent", Null)
  /\ UNCHANGED lost

SaveSent(s) ==
  /\ pc[s] = "accepted" /\ "ok" \in Outcomes
  /\ SaveAttempt(s, "sent", Null)
  /\ UNCHANGED lost

\* The POST raised: a refusal, or an answer that never came.
SaveFailure(s) ==
  /\ \/ pc[s] = "posting" /\ "refused" \in Outcomes /\ UNCHANGED lost
     \/ /\ pc[s] = "accepted" /\ "lost" \in Outcomes
        /\ lost' = [lost EXCEPT ![held[s]] = @ + 1]
  /\ IF AttemptCount(s) >= limit[s]
     THEN SaveAttempt(s, "failed", Null)
     ELSE SaveAttempt(s, "retrying", "later")

-----------------------------------------------------------------------------
\* The retry delay of an event passes.
Elapse(e) ==
  /\ event[e] # NoRow /\ event[e].next = "later"
  /\ event' = [event EXCEPT ![e].next = "due"]
  /\ UNCHANGED <<gone, announced, delivery, bounds, counts>>

\* The process stops or the connection fails: nothing of the attempt is written.
Die(s) ==
  /\ pc[s] # "idle" /\ crashes < MaxCrashes
  /\ crashes' = crashes + 1
  /\ crashed' = IF pc[s] \in {"posting", "accepted"}
                THEN [crashed EXCEPT ![held[s]] = @ + 1] ELSE crashed
  /\ LetGo(s, NoBatch)
  /\ UNCHANGED <<event, gone, announced, forces, posts, delivered, lost>>

\* DELETE of the target: the incident and its events go by cascade.
DeleteIncident(e) ==
  /\ e \in announced /\ e \notin gone
  /\ gone' = gone \union {e}
  /\ event' = [event EXCEPT ![e] = NoRow]
  /\ UNCHANGED <<announced, delivery, bounds, counts>>

\* RetentionService; the age of the row is left out.
Prune(e) ==
  /\ event[e] # NoRow /\ event[e].status \in {"sent", "failed"}
  /\ event' = [event EXCEPT ![e] = NoRow]
  /\ UNCHANGED <<gone, announced, delivery, bounds, counts>>

-----------------------------------------------------------------------------
Step(s) ==
  \/ FirstAttempt(s) \/ ListDueRetries(s)
  \/ \E e \in Events :
       \/ CreateEvent(s, e) \/ RetryPosts(s, e) \/ RetryGivesUp(s, e)
       \/ ForcePosts(s, e) \/ ForceGivesUp(s, e)
  \/ Accept(s) \/ SaveSent(s) \/ SaveFailure(s) \/ Die(s)

Next ==
  \/ \E s \in Sessions : Step(s)
  \/ \E e \in Events : Elapse(e) \/ DeleteIncident(e) \/ Prune(e)

Spec == Init /\ [][Next]_vars

\* A POST has a timeout, the cron calls the scheduler for ever, delays pass.
Fairness ==
  /\ \A s \in Sessions :
       /\ WF_vars(FirstAttempt(s))
       /\ WF_vars(\E e \in Events : RetryPosts(s, e) \/ RetryGivesUp(s, e))
       /\ WF_vars(Accept(s) \/ SaveSent(s) \/ SaveFailure(s))
  /\ WF_vars(\E s \in Sessions : ListDueRetries(s))
  /\ \A e \in Events : WF_vars(Elapse(e))

FairSpec == Spec /\ Fairness

-----------------------------------------------------------------------------
TypeOK ==
  /\ event \in [Events -> Rows]
  /\ gone \subseteq announced /\ announced \subseteq Events
  /\ pc \in [Sessions -> {"idle", "created", "batch", "posting", "accepted"}]
  /\ held \in [Sessions -> Events \union {Null}]
  /\ loaded \in [Sessions -> Rows]
  /\ limit \in [Sessions -> Nat]
  /\ batch \in [Sessions -> [Events -> Rows]]
  /\ forces \in 0..MaxForces /\ crashes \in 0..MaxCrashes
  /\ posts \in [Events -> Nat] /\ delivered \in [Events -> Nat]
  /\ crashed \in [Events -> Nat] /\ lost \in [Events -> Nat]

Waiting(e) == event[e] # NoRow /\ event[e].status \in {"pending", "retrying"}
InHand(e) == \E s \in Sessions : held[s] = e

\* However deliveries overlap, an event that is recorded as sent was accepted by
\* Discord: no merge of columns makes it up (_attempt_event).
SentWasDelivered ==
  \A e \in Events : event[e] # NoRow /\ event[e].status = "sent" => delivered[e] > 0

\* However deliveries overlap, die or are forced by hand, an event that still
\* waits and that nobody is posting will be found by list_due_retries, now or
\* when its delay is over.  README.md:84 promises it: "Notificações com falha são tentadas
\* novamente pelo próprio ciclo do Cron".
NoStuckEvent ==
  \A e \in Events : Waiting(e) /\ ~ InHand(e) =>
    event[e].next # Null /\ event[e].attempts < event[e].max

\* attempt_count never exceeds the POSTs that were made.
AttemptsWereMade ==
  \A e \in Events : event[e] # NoRow => event[e].attempts <= posts[e]

\* One delivery at a time: the POSTs of an event are limited by max_attempts,
\* but for those whose session died before it could count them.
AttemptLimit ==
  \A e \in Events : event[e] # NoRow /\ ~ InHand(e) =>
    posts[e] <= event[e].max + crashed[e]

\* One delivery at a time: a message is repeated only if its answer was lost or
\* the session died before it could record it.
RepeatedForAReason ==
  \A e \in Events : delivered[e] <= 1 + crashed[e] + lost[e]

\* One delivery at a time: an event that was sent is never sent again, retried
\* or failed; only retention or a deletion removes it.
SentIsFinal ==
  [][\A e \in Events : event[e] # NoRow /\ event[e].status = "sent" =>
       event'[e] \in {event[e], NoRow}]_vars

\* One delivery at a time: every event ends as sent or failed, or is deleted,
\* whatever Discord answers (list_due_retries, _attempt_event).
EventsSettle ==
  \A e \in Events : e \in announced ~> ~ Waiting(e)
=============================================================================
