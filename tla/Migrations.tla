------------------------------ MODULE Migrations ------------------------------
(***************************************************************************)
(* Containers that migrate the database and then serve from it.            *)
(*                                                                         *)
(* Every container of the current release runs `alembic upgrade head` and, *)
(* if it succeeded, the API.  An operator may run `alembic downgrade`.     *)
(* env.py runs all the revisions of one call in ONE transaction: a         *)
(* statement takes the lock of its table, and of the tables its foreign    *)
(* keys refer to, until the COMMIT, and nobody sees its effect before.  The *)
(* row of alembic_version is updated after each revision, and an UPDATE    *)
(* that finds another number raises.                                       *)
(*                                                                         *)
(* Rows are those of monitoring_targets and notification_events, whose     *)
(* constraints change; equal rows are one.  The database is PostgreSQL.    *)
(***************************************************************************)
EXTENDS Schema

CONSTANTS
  Instances,       \* the containers of the current release
  Operator,        \* whoever runs a downgrade
  InitialVersions, \* the revisions an older release may have left, 0 for none
  MaxDowngrades,   \* bound: downgrades in a behaviour
  MaxFailures,     \* bound: migrations that fail for want of a connection
  MaxRows          \* bound: the different rows of a table

Tables == {"monitoring_targets", "check_runs", "incidents", "notification_events",
           "scheduler_runs"}
Version == "alembic_version"
Migrators == Instances \union {Operator}
ASSUME VersionsAssumption == InitialVersions \subseteq 0..4
ASSUME BoundsAssumption ==
  MaxDowngrades \in Nat /\ MaxFailures \in Nat /\ MaxRows \in Nat
ASSUME OperatorAssumption == Operator \notin Instances

VARIABLES
  db,         \* the committed tables: their columns and rows; the version
  pc,         \* "stopped", "migrating" or "serving"
  todo,       \* the statements a migration still has to execute
  work,       \* the tables its transaction has locked, as it sees them
  downgrades, failures,
  refused     \* history: the tables that refused a write at the head revision

transaction == <<pc, todo, work>>
vars == <<db, transaction, downgrades, failures, refused>>

-----------------------------------------------------------------------------
(* The revisions, and what their statements do. *)

Upgrades == <<Upgrade0001, Upgrade0002, Upgrade0003, Upgrade0004>>
Downgrades == <<Downgrade0001, Downgrade0002, Downgrade0003, Downgrade0004>>

\* The version is a table whose content is a number.
Stamp(from, to) ==
  [do |-> "stamp", table |-> Version, refs |-> {}, from |-> from, to |-> to]

\* alembic upgrade head, alembic downgrade: the revisions in between, in order.
ToHead(v) ==
  FlattenSeq([i \in 1..4 - v |-> Append(Upgrades[v + i], Stamp(v + i - 1, v + i))])
DownTo(v, to) ==
  FlattenSeq([i \in 1..v - to |->
    Append(Downgrades[v + 1 - i], Stamp(v + 1 - i, v - i))])

\* A table that does not exist has neither columns nor rows.
NoTable == <<>>

\* f, where it is defined, over g.
Over(f, g) ==
  [x \in DOMAIN f \union DOMAIN g |-> IF x \in DOMAIN f THEN f[x] ELSE g[x]]
With(f, x, value) == [y \in DOMAIN f \union {x} |-> IF y = x THEN value ELSE f[y]]

Without(row, c) == [k \in DOMAIN row \ {c} |-> row[k]]

\* Whether the columns admit a row.
Admits(columns, row) ==
  /\ DOMAIN row \subseteq DOMAIN columns
  /\ \A c \in DOMAIN columns :
       IF c \in DOMAIN row
       THEN /\ row[c] # Unset \/ columns[c].null
            /\ columns[c].values = {} \/ row[c] \in columns[c].values
            /\ columns[c].width = 0 \/ Len(row[c]) <= columns[c].width
       ELSE columns[c].null \/ columns[c].default # NoDefault

\* Mutants: any version is replaced; a CHECK that is NOT VALID.
UpdatesAnyVersion(op, t) == TRUE
ValidatesNothing(op, t) == TRUE

\* The UPDATE of alembic_version names the number it replaces; a new CHECK is
\* compared with the rows.
Updates(op, t) == t = op.from
Validates(op, t) == \A r \in t.rows : r[op.name] \in op.values

\* Whether the database accepts a statement.
Succeeds(op, t) ==
  CASE op.do = "create" -> t = NoTable
    [] op.do = "drop" -> t # NoTable
    [] op.do = "stamp" -> Updates(op, t)
    [] op.do = "add" ->
         /\ t # NoTable /\ op.name \notin DOMAIN t.columns
         /\ op.column.null \/ op.column.default # NoDefault \/ t.rows = {}
    [] op.do = "check" -> t # NoTable /\ Validates(op, t)
    [] op.do = "index" -> t # NoTable
    [] op.do \in {"remove", "undefault"} -> t # NoTable /\ op.name \in DOMAIN t.columns

\* The table as the statement leaves it.
Effect(op, t) ==
  CASE op.do = "create" -> [columns |-> op.columns, rows |-> {}]
    [] op.do = "drop" -> NoTable
    [] op.do = "index" -> t
    [] op.do = "stamp" -> op.to
    [] op.do = "add" ->
         LET value == IF op.column.default = NoDefault THEN Unset ELSE op.column.default
         IN  [columns |-> With(t.columns, op.name, op.column),
              rows |-> {With(r, op.name, value) : r \in t.rows}]
    [] op.do = "remove" ->
         [columns |-> Without(t.columns, op.name),
          rows |-> {Without(r, op.name) : r \in t.rows}]
    [] op.do = "undefault" -> [t EXCEPT !.columns[op.name].default = NoDefault]
    [] op.do = "check" -> [t EXCEPT !.columns[op.name].values = op.values]

\* The database once all the statements were executed.
After(d, statements) ==
  FoldLeft(LAMBDA e, op : [e EXCEPT ![op.table] = Effect(op, @)], d, statements)

\* The database a release of revision v was installed with.
Empty == [t \in Tables \union {Version} |-> IF t = Version THEN 0 ELSE NoTable]
Built ==
  [v \in 0..4 |-> After(Empty, SubSeq(ToHead(0), 1, Len(ToHead(0)) - Len(ToHead(v))))]

\* A row a release wrote to its own table; only the named columns matter.
RowOf(columns, values) ==
  [c \in DOMAIN columns |->
     IF c \in DOMAIN values THEN values[c]
     ELSE CASE columns[c].null -> Unset
            [] columns[c].values # {} -> CHOOSE v \in columns[c].values : TRUE
            [] OTHER -> "set"]
WithRow(t, values) ==
  [t EXCEPT !.rows = {RowOf(t.columns, values)}]

\* What releases 0.1 to 0.4 left: nothing; a target; a target and an alert.
Installed(v, status) ==
  [t \in DOMAIN Empty |->
     CASE t = "monitoring_targets" /\ v > 0 -> WithRow(Built[v][t], [http_method |-> "GET"])
       [] t = "notification_events" /\ v > 1 -> WithRow(Built[v][t], [status |-> status])
       [] OTHER -> Built[v][t]]

-----------------------------------------------------------------------------
(* What the statements add up to, for any journey from one revision to another. *)

\* Neither is there, or both are and have the same columns.
SameShape(t, u) ==
  IF u = NoTable THEN t = NoTable ELSE t # NoTable /\ t.columns = u.columns

\* Two states of a table have the same rows in the columns they share.
On(columns, rows) == {[c \in columns |-> r[c]] : r \in rows}
SameRows(t, u) ==
  t # NoTable /\ u # NoTable =>
    LET common == DOMAIN t.columns \intersect DOMAIN u.columns
    IN  On(common, t.rows) = On(common, u.rows)

IsColumn(c) == DOMAIN c = {"null", "default", "values", "width"}
IsTable(t) ==
  /\ DOMAIN t = {"columns", "rows"}
  /\ \A c \in DOMAIN t.columns : IsColumn(t.columns[c])
  /\ \A r \in t.rows : DOMAIN r = DOMAIN t.columns /\ Admits(t.columns, r)

Widthless(columns) == [c \in DOMAIN columns |-> [columns[c] EXCEPT !.width = 0]]

Journeys == {j \in (0..4) \X (0..4) : j[2] = 4 \/ j[2] < j[1]}
Plan(j) == IF j[2] = 4 THEN ToHead(j[1]) ELSE DownTo(j[1], j[2])
Stage(j, k) == After(Built[j[1]], SubSeq(Plan(j), 1, k))

\* A column that is added fits the rows if it may be NULL or has a default.
IsStatement(op) ==
  /\ op.do \in {"create", "drop", "stamp", "add", "remove", "index", "undefault", "check"}
  /\ op.table \in Tables \union {Version} /\ op.refs \subseteq Tables
  /\ op.do = "stamp" <=> op.table = Version
  /\ op.do = "create" => \A c \in DOMAIN op.columns : IsColumn(op.columns[c])
  /\ op.do = "add" =>
       /\ IsColumn(op.column) /\ op.column.values = {} /\ op.column.width = 0
       /\ op.column.default # Unset

ASSUME StatementsAssumption ==
  \A j \in Journeys : Plan(j) \in Seq(UNION {Range(Plan(i)) : i \in Journeys})
                      /\ \A k \in 1..Len(Plan(j)) : IsStatement(Plan(j)[k])

\* What a release is installed with are tables of its revision; the revision 4 is
\* the models.
ASSUME BuiltAssumption ==
  \A v \in 0..4 :
    /\ DOMAIN Built[v] = Tables \union {Version} /\ Built[v][Version] = v
    /\ \A t \in Tables : Built[v][t] # NoTable =>
         \A c \in DOMAIN Built[v][t].columns :
           c \in DOMAIN Models[t] /\ Built[v][t].columns[c].values \subseteq Models[t][c].values
    /\ \A t \in Tables : v = 4 =>
         Built[v][t] # NoTable /\ Widthless(Built[v][t].columns) = Widthless(Models[t])
    /\ \A status \in {"sent", "failed"} :
         LET left == Installed(v, status)
         IN  /\ DOMAIN left = Tables \union {Version} /\ left[Version] = v
             /\ \A t \in Tables :
                  SameShape(left[t], Built[v][t]) /\ (left[t] = NoTable \/ IsTable(left[t]))

\* Each statement works on what those before it left; the last leaves the tables of
\* the revision the journey leads to, an upgrade no less of them; none creates a
\* table or a column anew.
ASSUME RevisionsAssumption ==
  \A j \in Journeys :
    LET n == Len(Plan(j))
        start == Built[j[1]]
    IN  /\ Stage(j, 0) = start
        /\ \A k \in 1..n :
             LET op == Plan(j)[k]
                 before == Stage(j, k - 1)
             IN  /\ Stage(j, k) = [before EXCEPT ![op.table] = Effect(op, @)]
                 /\ op.do = "stamp" => op.from = before[Version]
                 /\ op.do = "create" => start[op.table] = NoTable
                 /\ op.do = "add" /\ start[op.table] # NoTable =>
                      op.name \notin DOMAIN start[op.table].columns
        /\ \A k \in 0..n :
             /\ DOMAIN Stage(j, k) = Tables \union {Version}
             /\ \A t \in Tables : Stage(j, k)[t] = NoTable \/ IsTable(Stage(j, k)[t])
             /\ \A t \in Tables \union {Version} :
                  (\A i \in 1..k : Plan(j)[i].table # t) => Stage(j, k)[t] = start[t]
        /\ Stage(j, n)[Version] = j[2]
        /\ \A t \in Tables : SameShape(Stage(j, n)[t], Built[j[2]][t])
        /\ j[1] = j[2] => n = 0
        /\ j[1] < j[2] => \A t \in Tables : Built[j[2]][t] = NoTable => start[t] = NoTable

-----------------------------------------------------------------------------
Init ==
  /\ \E v \in InitialVersions, status \in {"sent", "failed"} : db = Installed(v, status)
  /\ pc = [m \in Migrators |-> "stopped"]
  /\ todo = [m \in Migrators |-> <<>>]
  /\ work = [m \in Migrators |-> <<>>]
  /\ downgrades = 0 /\ failures = 0 /\ refused = {}

-----------------------------------------------------------------------------
(* A migration. *)

StartUpgrade(i) ==
  /\ i \in Instances /\ pc[i] = "stopped"
  /\ pc' = [pc EXCEPT ![i] = "migrating"]
  /\ todo' = [todo EXCEPT ![i] = ToHead(db[Version])]
  /\ UNCHANGED <<db, work, downgrades, failures, refused>>

StartDowngrade ==
  /\ pc[Operator] = "stopped" /\ downgrades < MaxDowngrades
  /\ downgrades' = downgrades + 1
  /\ \E to \in 0..db[Version] - 1 :
       todo' = [todo EXCEPT ![Operator] = DownTo(db[Version], to)]
  /\ pc' = [pc EXCEPT ![Operator] = "migrating"]
  /\ UNCHANGED <<db, work, failures, refused>>

\* Mutant: the API is started whatever the migration says.
ServesAnyway(m) ==
  /\ pc' = [pc EXCEPT ![m] = IF m = Operator THEN "stopped" ELSE "serving"]
  /\ todo' = [todo EXCEPT ![m] = <<>>]
  /\ work' = [work EXCEPT ![m] = <<>>]

\* The transaction is rolled back and alembic exits with an error; what comes after
\* its && is not run.
RollBack(m) ==
  /\ pc' = [pc EXCEPT ![m] = "stopped"]
  /\ todo' = [todo EXCEPT ![m] = <<>>]
  /\ work' = [work EXCEPT ![m] = <<>>]

Needs(m) == {Head(todo[m]).table} \union Head(todo[m]).refs
WaitsFor(m, n) ==
  /\ m # n /\ todo[m] # <<>>
  /\ Needs(m) \intersect DOMAIN work[n] # {}

\* The next statement, in the transaction.
Execute(m) ==
  /\ pc[m] = "migrating" /\ todo[m] # <<>>
  /\ \A n \in Migrators : ~ WaitsFor(m, n)
  /\ LET op == Head(todo[m])
         view == Over(work[m], [t \in Needs(m) |-> db[t]])
     IN  IF Succeeds(op, view[op.table])
         THEN /\ work' = [work EXCEPT ![m] =
                            [view EXCEPT ![op.table] = Effect(op, @)]]
              /\ todo' = [todo EXCEPT ![m] = Tail(@)]
              /\ UNCHANGED pc
         ELSE RollBack(m)
  /\ UNCHANGED <<db, downgrades, failures, refused>>

\* COMMIT; a container then starts the API.
Commit(m) ==
  /\ pc[m] = "migrating" /\ todo[m] = <<>>
  /\ db' = Over(work[m], db)
  /\ work' = [work EXCEPT ![m] = <<>>]
  /\ pc' = [pc EXCEPT ![m] = IF m = Operator THEN "stopped" ELSE "serving"]
  /\ UNCHANGED <<todo, downgrades, failures, refused>>

\* PostgreSQL aborts one of two transactions that wait for each other.
IsVictim(m) ==
  /\ \E n \in Migrators : WaitsFor(m, n) /\ WaitsFor(n, m)
  /\ RollBack(m)
  /\ UNCHANGED <<db, downgrades, failures, refused>>

\* The connection or the process is lost.
Fails(m) ==
  /\ pc[m] = "migrating" /\ failures < MaxFailures
  /\ failures' = failures + 1
  /\ RollBack(m)
  /\ UNCHANGED <<db, downgrades, refused>>

\* A container that serves is stopped, and later started again.
Stop(i) ==
  /\ pc[i] = "serving"
  /\ pc' = [pc EXCEPT ![i] = "stopped"]
  /\ UNCHANGED <<db, todo, work, downgrades, failures, refused>>

-----------------------------------------------------------------------------
(* The writes of a serving instance, which has the models of the release. *)

\* Mutant: a migration that does not lock what it changes.
IsLockedNever(t) == FALSE

IsLocked(t) == \E m \in Migrators : t \in DOMAIN work[m]

\* An INSERT, or an UPDATE of the row old, waits for a migration of its table.
Write(i, t, old, row) ==
  /\ pc[i] = "serving" /\ ~ IsLocked(t)
  /\ IF db[t] # NoTable /\ Admits(db[t].columns, row)
     THEN /\ db' = [db EXCEPT ![t].rows = (@ \ old) \union {row}]
          /\ Cardinality(db'[t].rows) <= MaxRows
          /\ UNCHANGED refused
     ELSE /\ refused' = IF db[Version] = 4 THEN refused \union {t} ELSE refused
          /\ UNCHANGED db
  /\ UNCHANGED <<transaction, downgrades, failures>>

\* POST /targets, notify_incident_transition, the commit of an attempt.
CreateTarget(i) ==
  \E method \in {"GET", "POST"} :
    Write(i, "monitoring_targets", {}, RowOf(MonitoringTarget, [http_method |-> method]))
CreateEvent(i) ==
  Write(i, "notification_events", {}, RowOf(NotificationEvent, [status |-> "pending"]))
RecordAttempt(i) ==
  /\ db["notification_events"] # NoTable
  /\ \E old \in db["notification_events"].rows, status \in {"sent", "retrying", "failed"} :
       /\ old.status # "sent" /\ DOMAIN NotificationEvent \subseteq DOMAIN old
       /\ Write(i, "notification_events", {old}, [old EXCEPT !.status = status])

Next ==
  \/ \E m \in Migrators : Execute(m) \/ Commit(m) \/ IsVictim(m) \/ Fails(m)
  \/ StartDowngrade
  \/ \E i \in Instances :
       StartUpgrade(i) \/ Stop(i) \/ CreateTarget(i) \/ CreateEvent(i) \/ RecordAttempt(i)

Spec == Init /\ [][Next]_vars

\* A migration that can go on, again and again, does: a lock is granted in the order
\* of the requests.  The platform starts a container that has exited.
Proceeds(m) == Execute(m) \/ Commit(m) \/ IsVictim(m)
Fairness ==
  /\ \A m \in Migrators : SF_vars(Proceeds(m))
  /\ \A i \in Instances : WF_vars(StartUpgrade(i))

FairSpec == Spec /\ Fairness

-----------------------------------------------------------------------------
\* The rows have the columns of their table and what these admit, and the columns
\* only what the models know; a transaction is open only in a migration.
TypeOK ==
  /\ DOMAIN db = Tables \union {Version} /\ db[Version] \in 0..4
  /\ \A t \in Tables : db[t] # NoTable =>
       /\ \A c \in DOMAIN db[t].columns : db[t].columns[c].values \subseteq Models[t][c].values
       /\ IsTable(db[t])
  /\ pc \in [Migrators -> {"stopped", "migrating", "serving"}]
  /\ \A m \in Migrators : pc[m] # "migrating" => todo[m] = <<>> /\ work[m] = <<>>
  /\ downgrades \in 0..MaxDowngrades /\ failures \in 0..MaxFailures

\* Whatever migrations overlap, fail, deadlock or are undone, the tables are those
\* the revisions up to the number in alembic_version build from nothing: no revision
\* is applied in part or twice, and a downgrade is the inverse of its upgrade
\* (upgrade and downgrade of 0001 to 0004, do_run_migrations).
VersionTellsSchema ==
  \A t \in Tables : SameShape(db[t], Built[db[Version]][t])

\* An instance serves only from tables that have the columns of its models with
\* their NULL and CHECK constraints, as long as nobody downgrades: the migration has
\* succeeded before the API starts, and the revisions add up to the models
\* (Dockerfile:22, "alembic upgrade head && exec uvicorn").
\* Widthless leaves out how long a value may be, in which the tables and the models
\* differ: that is the subject of AlertsAreStored.
ServesItsModels ==
  downgrades = 0 => \A i \in Instances : pc[i] = "serving" =>
    \A t \in Tables :
      db[t] # NoTable /\ Widthless(db[t].columns) = Widthless(Models[t])

\* A migration keeps the rows of every table it keeps, and an upgrade keeps every
\* table: what an older release stored is still there, column by column.
RowsSurvive ==
  [][db'[Version] # db[Version] => \A t \in Tables :
       /\ SameRows(db[t], db'[t])
       /\ db[t] # NoTable /\ db'[Version] > db[Version] => db'[t] # NoTable]_vars

\* A container that is started serves in the end, whatever rows it finds and
\* whatever else migrates, fails or is undone (Dockerfile:22).
ContainersServe ==
  \A i \in Instances : pc[i] = "stopped" ~> pc[i] = "serving"

\* The CHECK of notification_events.status, "status IN ('pending', 'retrying', 'sent',
\* 'failed')" (20260708_0004_reliability.py:50), says what the release may store: at
\* the head revision no event is refused (notify_incident_transition, _attempt_event).
AlertsAreStored ==
  "notification_events" \notin refused
=============================================================================
