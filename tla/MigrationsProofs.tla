--------------------------- MODULE MigrationsProofs ---------------------------
(***************************************************************************)
(* For any number of containers that migrate one database, of downgrades   *)
(* by an operator, of deadlocks and failures, and of rows written          *)
(* meanwhile: the tables are those of the version, their rows fit them and *)
(* survive, and a container serves only what its models know.              *)
(*                                                                         *)
(* What the statements of the revisions do to the columns is a closed      *)
(* formula, which TLC evaluates (StatementsAssumption, BuiltAssumption,    *)
(* RevisionsAssumption): a database of revision v, migrated alone, has the *)
(* columns of Stage(j, k) after k statements of the journey j, and ends as *)
(* one of the revision it leads to.  What is proved is that a migration    *)
(* among others can do nothing else.                                       *)
(*                                                                         *)
(* A transaction that planned its journey from a version read it without a *)
(* lock, and the tables it finds may be those of another revision.  So the *)
(* invariant (OnItsWay) says what it sees only of the tables that are as   *)
(* its journey assumes.  The UPDATE of alembic_version succeeds only if    *)
(* the version still is, or again is, the one it planned from, and from    *)
(* then on it is locked; then all the tables are as assumed, since the     *)
(* committed ones are those of the version.                                *)
(***************************************************************************)
EXTENDS Migrations, SequenceTheorems, TLAPS

\* Either there is no table, or one whose columns are columns and admit its rows.
Tabular(t) == t = NoTable \/ IsTable(t)

LEMMA NoTableIsNoTable ==
  \A t : "columns" \in DOMAIN t => t # NoTable
  BY DEF NoTable

LEMMA BuiltTable == \A c, r : [columns |-> c, rows |-> r] # NoTable
  BY NoTableIsNoTable

Undefaulted(columns, c) == [columns EXCEPT ![c] = [@ EXCEPT !.default = NoDefault]]
Rechecked(columns, c, values) == [columns EXCEPT ![c] = [@ EXCEPT !.values = values]]

\* A statement about one column leaves the others alone.
LEMMA OtherColumns ==
  ASSUME NEW columns, NEW c
  PROVE  /\ DOMAIN Undefaulted(columns, c) = DOMAIN columns
         /\ \A d \in DOMAIN columns : d # c => Undefaulted(columns, c)[d] = columns[d]
  BY DEF Undefaulted

LEMMA UncheckedColumns ==
  ASSUME NEW columns, NEW c, NEW values
  PROVE  /\ DOMAIN Rechecked(columns, c, values) = DOMAIN columns
         /\ \A d \in DOMAIN columns : d # c =>
              Rechecked(columns, c, values)[d] = columns[d]
  BY DEF Rechecked

\* The columns and the rows of a table once a statement has worked on it.
LEMMA AlteredTable ==
  ASSUME NEW t, IsTable(t), NEW op
  PROVE  /\ op.do = "undefault" =>
              /\ DOMAIN Effect(op, t) = {"columns", "rows"} /\ Effect(op, t).rows = t.rows
              /\ Effect(op, t).columns = Undefaulted(t.columns, op.name)
         /\ op.do = "check" =>
              /\ DOMAIN Effect(op, t) = {"columns", "rows"} /\ Effect(op, t).rows = t.rows
              /\ Effect(op, t).columns = Rechecked(t.columns, op.name, op.values)
<1>1. DOMAIN t = {"columns", "rows"}
  BY DEF IsTable
<1>2. ASSUME op.do = "undefault"
      PROVE  Effect(op, t) = [t EXCEPT !.columns[op.name].default = NoDefault]
  BY <1>2 DEF Effect
<1>3. ASSUME op.do = "check"
      PROVE  Effect(op, t) = [t EXCEPT !.columns[op.name].values = op.values]
  BY <1>3 DEF Effect
<1> QED
  BY <1>1, <1>2, <1>3 DEF Undefaulted, Rechecked

\* The other statements, one equation for each.
LEMMA OtherEffects ==
  ASSUME NEW t, NEW op
  PROVE  /\ op.do = "create" => Effect(op, t) = [columns |-> op.columns, rows |-> {}]
         /\ op.do = "drop" => Effect(op, t) = NoTable
         /\ op.do = "index" => Effect(op, t) = t
         /\ op.do = "stamp" => Effect(op, t) = op.to
         /\ op.do = "remove" => Effect(op, t) =
              [columns |-> Without(t.columns, op.name),
               rows |-> {Without(r, op.name) : r \in t.rows}]
         /\ op.do = "add" => \E value :
              /\ value = IF op.column.default = NoDefault THEN Unset ELSE op.column.default
              /\ Effect(op, t) = [columns |-> With(t.columns, op.name, op.column),
                                  rows |-> {With(r, op.name, value) : r \in t.rows}]
  BY DEF Effect

\* What a statement that succeeds has found.
LEMMA Succeeding ==
  ASSUME NEW t, NEW op, Succeeds(op, t), IsStatement(op)
  PROVE  /\ op.do = "create" => t = NoTable
         /\ op.do = "stamp" => t = op.from
         /\ op.do \in {"drop", "index"} => t # NoTable
         /\ op.do = "add" =>
              /\ t # NoTable /\ op.name \notin DOMAIN t.columns
              /\ op.column.null \/ op.column.default # NoDefault \/ t.rows = {}
         /\ op.do = "check" => t # NoTable /\ \A r \in t.rows : r[op.name] \in op.values
         /\ op.do \in {"remove", "undefault"} => t # NoTable /\ op.name \in DOMAIN t.columns
  BY DEF Succeeds, Updates, Validates, IsStatement

\* A statement that finds the columns it was written for leaves those it should.
LEMMA EffectShape ==
  ASSUME NEW t, NEW u, Tabular(t), Tabular(u), SameShape(t, u),
         NEW op, IsStatement(op), op.do # "stamp", Succeeds(op, t)
  PROVE  SameShape(Effect(op, t), Effect(op, u))
<1>1. CASE op.do = "create"
  BY <1>1, OtherEffects, BuiltTable DEF SameShape
<1>2. CASE op.do = "drop"
  BY <1>2, OtherEffects DEF SameShape
<1>3. CASE op.do = "index"
  BY <1>3, OtherEffects
<1>4. ASSUME op.do \in {"add", "remove", "undefault", "check"}
      PROVE  /\ t # NoTable /\ u # NoTable /\ t.columns = u.columns
             /\ IsTable(t) /\ IsTable(u)
  BY <1>4, Succeeding DEF SameShape, Tabular
<1>5. CASE op.do = "add"
  BY <1>4, <1>5, OtherEffects, BuiltTable DEF SameShape
<1>6. CASE op.do = "remove"
  BY <1>4, <1>6, OtherEffects, BuiltTable DEF SameShape
<1>7. CASE op.do \in {"undefault", "check"}
  <2>1. /\ "columns" \in DOMAIN Effect(op, t) /\ "columns" \in DOMAIN Effect(op, u)
        /\ Effect(op, t).columns = Effect(op, u).columns
    <3>1. CASE op.do = "undefault"
      BY <1>4, <3>1, AlteredTable
    <3>2. CASE op.do = "check"
      BY <1>4, <3>2, AlteredTable
    <3> QED
      BY <1>7, <3>1, <3>2
  <2> QED
    BY <2>1, NoTableIsNoTable DEF SameShape
<1> QED
  BY <1>1, <1>2, <1>3, <1>5, <1>6, <1>7 DEF IsStatement

\* A column that is added, removed or changed leaves rows that the columns admit.
LEMMA EffectFits ==
  ASSUME NEW t, Tabular(t), NEW op, IsStatement(op), op.do # "stamp", Succeeds(op, t)
  PROVE  Tabular(Effect(op, t))
<1>1. CASE op.do = "create"
  BY <1>1, OtherEffects DEF Tabular, IsTable, IsStatement
<1>2. CASE op.do \in {"drop", "index"}
  BY <1>2, OtherEffects DEF Tabular
<1>3. ASSUME op.do \in {"add", "remove", "undefault", "check"} PROVE IsTable(t)
  BY <1>3, Succeeding DEF Tabular
<1>4. CASE op.do = "add"
  <2>1. PICK value :
          /\ value = IF op.column.default = NoDefault THEN Unset ELSE op.column.default
          /\ Effect(op, t) = [columns |-> With(t.columns, op.name, op.column),
                              rows |-> {With(r, op.name, value) : r \in t.rows}]
    BY <1>4, OtherEffects
  <2>2. t.rows # {} => value # Unset \/ op.column.null
    BY <1>4, <2>1, Succeeding DEF IsStatement
  <2> DEFINE columns == With(t.columns, op.name, op.column)
  <2>3. /\ DOMAIN columns = DOMAIN t.columns \union {op.name}
        /\ columns[op.name] = op.column
        /\ \A c \in DOMAIN t.columns : c # op.name /\ columns[c] = t.columns[c]
    BY <1>4, Succeeding DEF With
  <2>4. \A c \in DOMAIN columns : IsColumn(columns[c])
    BY <1>3, <1>4, <2>3 DEF IsTable, IsStatement
  <2>5. ASSUME NEW r \in t.rows
        PROVE  /\ DOMAIN With(r, op.name, value) = DOMAIN columns
               /\ Admits(columns, With(r, op.name, value))
    <3>1. DOMAIN r = DOMAIN t.columns /\ Admits(t.columns, r)
      BY <1>3, <1>4 DEF IsTable
    <3> DEFINE row == With(r, op.name, value)
    <3>2. /\ DOMAIN row = DOMAIN columns /\ row[op.name] = value
          /\ \A c \in DOMAIN t.columns : row[c] = r[c]
      BY <2>3, <3>1 DEF With
    <3>3. op.column.values = {} /\ op.column.width = 0
      BY <1>4 DEF IsStatement
    <3> HIDE DEF row, columns
    <3>4. Admits(columns, row)
      <4> SUFFICES ASSUME NEW c \in DOMAIN columns
                   PROVE  /\ row[c] # Unset \/ columns[c].null
                          /\ columns[c].values = {} \/ row[c] \in columns[c].values
                          /\ columns[c].width = 0 \/ Len(row[c]) <= columns[c].width
        BY <3>2 DEF Admits
      <4>1. CASE c = op.name
        BY <2>2, <2>3, <3>2, <3>3, <4>1
      <4>2. CASE c \in DOMAIN t.columns
        BY <2>3, <3>1, <3>2, <4>2 DEF Admits
      <4> QED
        BY <2>3, <4>1, <4>2
    <3> QED
      BY <3>2, <3>4 DEF row
  <2> HIDE DEF columns
  <2>6. Effect(op, t) = [columns |-> columns, rows |-> {With(r, op.name, value) : r \in t.rows}]
    BY <2>1 DEF columns
  <2> QED
    BY <2>4, <2>5, <2>6 DEF Tabular, IsTable
<1>5. CASE op.do = "remove"
  <2> DEFINE columns == Without(t.columns, op.name)
  <2>1. ASSUME NEW r \in t.rows
        PROVE  /\ DOMAIN Without(r, op.name) = DOMAIN columns
               /\ Admits(columns, Without(r, op.name))
    <3>1. DOMAIN r = DOMAIN t.columns /\ Admits(t.columns, r)
      BY <1>3, <1>5 DEF IsTable
    <3> QED
      BY <3>1 DEF Admits, Without
  <2>2. \A c \in DOMAIN columns : IsColumn(columns[c])
    BY <1>3, <1>5 DEF IsTable, Without
  <2> HIDE DEF columns
  <2>3. Effect(op, t) = [columns |-> columns, rows |-> {Without(r, op.name) : r \in t.rows}]
    BY <1>5, OtherEffects DEF columns
  <2> QED
    BY <2>1, <2>2, <2>3 DEF Tabular, IsTable
<1>6. CASE op.do \in {"undefault", "check"}
  <2> DEFINE table == Effect(op, t)
             columns == table.columns
  <2>1. /\ DOMAIN table = {"columns", "rows"} /\ table.rows = t.rows
        /\ DOMAIN columns = DOMAIN t.columns
        /\ \A c \in DOMAIN columns : c # op.name => columns[c] = t.columns[c]
    <3>1. CASE op.do = "undefault"
      <4>1. /\ DOMAIN Effect(op, t) = {"columns", "rows"} /\ Effect(op, t).rows = t.rows
            /\ Effect(op, t).columns = Undefaulted(t.columns, op.name)
        BY <1>3, <3>1, AlteredTable
      <4> QED
        BY <4>1, OtherColumns
    <3>2. CASE op.do = "check"
      <4>1. /\ DOMAIN Effect(op, t) = {"columns", "rows"} /\ Effect(op, t).rows = t.rows
            /\ Effect(op, t).columns = Rechecked(t.columns, op.name, op.values)
        BY <1>3, <3>2, AlteredTable
      <4> QED
        BY <4>1, UncheckedColumns
    <3> QED
      BY <1>6, <3>1, <3>2
  <2>2. op.name \in DOMAIN columns =>
          /\ IsColumn(columns[op.name])
          /\ columns[op.name].null = t.columns[op.name].null
          /\ columns[op.name].width = t.columns[op.name].width
          /\ \/ columns[op.name].values = t.columns[op.name].values
             \/ \A r \in t.rows : r[op.name] \in columns[op.name].values
    <3>1. op.name \in DOMAIN columns => IsColumn(t.columns[op.name])
      BY <1>3, <1>6, <2>1 DEF IsTable
    <3>2. CASE op.do = "undefault"
      <4>1. columns = Undefaulted(t.columns, op.name)
        BY <1>3, <3>2, AlteredTable, OtherColumns
      <4> HIDE DEF columns
      <4> QED
        BY <2>1, <3>1, <4>1 DEF IsColumn, Undefaulted
    <3>3. CASE op.do = "check"
      <4>1. columns = Rechecked(t.columns, op.name, op.values)
        BY <1>3, <3>3, AlteredTable
      <4>2. \A r \in t.rows : r[op.name] \in op.values
        BY <3>3, Succeeding
      <4> HIDE DEF columns
      <4> QED
        BY <2>1, <3>1, <4>1, <4>2 DEF IsColumn, Rechecked
    <3> QED
      BY <1>6, <3>2, <3>3
  <2>3. ASSUME NEW r \in t.rows PROVE DOMAIN r = DOMAIN columns /\ Admits(columns, r)
    <3>1. DOMAIN r = DOMAIN t.columns /\ Admits(t.columns, r)
      BY <1>3, <1>6 DEF IsTable
    <3> HIDE DEF columns
    <3> QED
      BY <2>1, <2>2, <3>1 DEF Admits
  <2>4. \A c \in DOMAIN columns : IsColumn(columns[c])
    BY <1>3, <1>6, <2>1, <2>2 DEF IsTable
  <2> QED
    BY <2>1, <2>3, <2>4 DEF Tabular, IsTable
<1> QED
  BY <1>1, <1>2, <1>4, <1>5, <1>6 DEF IsStatement

\* Rows that agree on some columns, one by one, are the same on these columns, and on
\* fewer of them.
LEMMA SameOn ==
  ASSUME NEW S, NEW A, NEW B,
         \A r \in A : \E q \in B : \A c \in S : q[c] = r[c],
         \A q \in B : \E r \in A : \A c \in S : q[c] = r[c]
  PROVE  On(S, A) = On(S, B)
<1>1. ASSUME NEW x \in On(S, A) PROVE x \in On(S, B)
  <2>1. PICK r \in A : x = [c \in S |-> r[c]]
    BY <1>1 DEF On
  <2>2. PICK q \in B : \A c \in S : q[c] = r[c]
    OBVIOUS
  <2>3. x = [c \in S |-> q[c]]
    BY <2>1, <2>2
  <2> QED
    BY <2>3 DEF On
<1>2. ASSUME NEW x \in On(S, B) PROVE x \in On(S, A)
  <2>1. PICK q \in B : x = [c \in S |-> q[c]]
    BY <1>2 DEF On
  <2>2. PICK r \in A : \A c \in S : q[c] = r[c]
    OBVIOUS
  <2>3. x = [c \in S |-> r[c]]
    BY <2>1, <2>2
  <2> QED
    BY <2>3 DEF On
<1> QED
  BY <1>1, <1>2

LEMMA OnFewer ==
  ASSUME NEW S, NEW A, NEW B, On(S, A) = On(S, B), NEW T \in SUBSET S
  PROVE  On(T, A) = On(T, B)
<1>1. ASSUME NEW r \in A PROVE \E q \in B : \A c \in T : q[c] = r[c]
  <2>1. [c \in S |-> r[c]] \in On(S, B)
    BY DEF On
  <2>2. PICK q \in B : [c \in S |-> r[c]] = [c \in S |-> q[c]]
    BY <2>1 DEF On
  <2>3. \A c \in S : [d \in S |-> r[d]][c] = [d \in S |-> q[d]][c]
    BY <2>2
  <2> QED
    BY <2>3
<1>2. ASSUME NEW q \in B PROVE \E r \in A : \A c \in T : q[c] = r[c]
  <2>1. [c \in S |-> q[c]] \in On(S, A)
    BY DEF On
  <2>2. PICK r \in A : [c \in S |-> q[c]] = [c \in S |-> r[c]]
    BY <2>1 DEF On
  <2>3. \A c \in S : [d \in S |-> q[d]][c] = [d \in S |-> r[d]][c]
    BY <2>2
  <2> QED
    BY <2>3
<1> QED
  BY <1>1, <1>2, SameOn

\* Neither does it lose a row, or what a row holds in a column of the table as the
\* journey found it.
LEMMA EffectKeepsRows ==
  ASSUME NEW start, Tabular(start), NEW t, Tabular(t), SameRows(start, t),
         NEW op, IsStatement(op), op.do # "stamp", Succeeds(op, t),
         op.do = "create" => start = NoTable,
         op.do = "add" /\ start # NoTable => op.name \notin DOMAIN start.columns
  PROVE  SameRows(start, Effect(op, t))
<1> SUFFICES ASSUME start # NoTable, Effect(op, t) # NoTable
             PROVE  SameRows(start, Effect(op, t))
  BY DEF SameRows
<1>1. CASE op.do \in {"create", "drop"}
  BY <1>1, OtherEffects
<1>2. CASE op.do = "index"
  BY <1>2, OtherEffects
<1>3. ASSUME op.do \in {"add", "remove", "undefault", "check"}
      PROVE  t # NoTable /\ IsTable(t)
  BY <1>3, Succeeding DEF Tabular
<1>4. CASE op.do \in {"undefault", "check"}
  <2>1. Effect(op, t).rows = t.rows /\ DOMAIN Effect(op, t).columns = DOMAIN t.columns
    <3>1. CASE op.do = "undefault"
      <4>1. /\ DOMAIN Effect(op, t) = {"columns", "rows"} /\ Effect(op, t).rows = t.rows
            /\ Effect(op, t).columns = Undefaulted(t.columns, op.name)
        BY <1>3, <3>1, AlteredTable
      <4> QED
        BY <4>1, OtherColumns
    <3>2. CASE op.do = "check"
      <4>1. /\ DOMAIN Effect(op, t) = {"columns", "rows"} /\ Effect(op, t).rows = t.rows
            /\ Effect(op, t).columns = Rechecked(t.columns, op.name, op.values)
        BY <1>3, <3>2, AlteredTable
      <4> QED
        BY <4>1, UncheckedColumns
    <3> QED
      BY <1>4, <3>1, <3>2
  <2> QED
    BY <1>3, <1>4, <2>1 DEF SameRows
<1> DEFINE Common(u) == DOMAIN start.columns \intersect DOMAIN u.columns
<1>5. ASSUME op.do \in {"add", "remove", "undefault", "check"}
      PROVE  On(Common(t), start.rows) = On(Common(t), t.rows)
  BY <1>3, <1>5 DEF SameRows
<1>6. CASE op.do = "add"
  <2>1. PICK value :
          Effect(op, t) = [columns |-> With(t.columns, op.name, op.column),
                           rows |-> {With(r, op.name, value) : r \in t.rows}]
    BY <1>6, OtherEffects
  <2>2. Common(Effect(op, t)) = Common(t)
    BY <1>6, <2>1 DEF With
  <2>3. \A r \in t.rows : \A c \in Common(t) : With(r, op.name, value)[c] = r[c]
    <3> TAKE r \in t.rows
    <3>1. DOMAIN r = DOMAIN t.columns
      BY <1>3, <1>6 DEF IsTable
    <3> QED
      BY <1>6, <3>1 DEF With
  <2>4. On(Common(t), t.rows) = On(Common(t), Effect(op, t).rows)
    <3> HIDE DEF Common
    <3> QED
      BY <2>1, <2>3, SameOn
  <2> QED
    BY <1>5, <1>6, <2>2, <2>4 DEF SameRows
<1>7. CASE op.do = "remove"
  <2> DEFINE S == Common(t) \ {op.name}
  <2>1. Effect(op, t) = [columns |-> Without(t.columns, op.name),
                         rows |-> {Without(r, op.name) : r \in t.rows}]
    BY <1>7, OtherEffects
  <2>2. Common(Effect(op, t)) = S
    BY <2>1 DEF Without
  <2>3. \A r \in t.rows : \A c \in S : Without(r, op.name)[c] = r[c]
    <3> TAKE r \in t.rows
    <3>1. DOMAIN r = DOMAIN t.columns
      BY <1>3, <1>7 DEF IsTable
    <3> QED
      BY <3>1 DEF Without
  <2>4. On(S, t.rows) = On(S, Effect(op, t).rows)
    <3> HIDE DEF S
    <3> QED
      BY <2>1, <2>3, SameOn
  <2>5. On(S, start.rows) = On(S, t.rows)
    BY <1>5, <1>7, OnFewer
  <2> QED
    BY <2>2, <2>4, <2>5 DEF SameRows
<1> QED
  BY <1>1, <1>2, <1>4, <1>6, <1>7 DEF IsStatement

-----------------------------------------------------------------------------
(* The invariant: where each migration is on its journey. *)

\* Of a table whose columns the transaction found as the revision it started from has
\* them, it sees what its statements so far should leave; its version is the
\* committed one, once it has locked it.
OnItsWay(m, j, k) ==
  /\ todo[m] = SubSeq(Plan(j), k + 1, Len(Plan(j)))
  /\ \A i \in 1..k : Plan(j)[i].table \in DOMAIN work[m]
  /\ k = 0 => DOMAIN work[m] = {}
  /\ Version \in DOMAIN work[m] =>
       db[Version] = j[1] /\ work[m][Version] = Stage(j, k)[Version]
  /\ \A t \in Tables : t \in DOMAIN work[m] /\ SameShape(db[t], Built[j[1]][t]) =>
       SameShape(work[m][t], Stage(j, k)[t]) /\ SameRows(db[t], work[m][t])
  /\ downgrades = 0 => j[2] = 4 /\ (j[1] = 4 => db[Version] = 4)

EachOnItsWay ==
  \A m \in Migrators : pc[m] = "migrating" =>
    \E j \in Journeys : \E k \in 0..Len(Plan(j)) : OnItsWay(m, j, k)

Types ==
  /\ DOMAIN db = Tables \union {Version} /\ db[Version] \in 0..4
  /\ pc \in [Migrators -> {"stopped", "migrating", "serving"}]
  /\ DOMAIN todo = Migrators /\ DOMAIN work = Migrators
  /\ \A m \in Migrators : pc[m] # "migrating" => todo[m] = <<>> /\ work[m] = <<>>
  /\ downgrades \in 0..MaxDowngrades /\ failures \in 0..MaxFailures

Locks ==
  \A m \in Migrators :
    /\ DOMAIN work[m] \subseteq Tables \union {Version}
    /\ \A n \in Migrators : m # n => DOMAIN work[m] \intersect DOMAIN work[n] = {}

TablesFit ==
  \A t \in Tables :
    /\ Tabular(db[t])
    /\ \A m \in Migrators : t \in DOMAIN work[m] => Tabular(work[m][t])

HeadIsServed ==
  downgrades = 0 => \A i \in Instances : pc[i] = "serving" => db[Version] = 4

IInv == Types /\ Locks /\ TablesFit /\ EachOnItsWay /\ HeadIsServed /\ VersionTellsSchema

-----------------------------------------------------------------------------
(* What is evaluated of the revisions, one journey at a time. *)

LEMMA JourneyFacts ==
  ASSUME NEW j \in Journeys
  PROVE  /\ j[1] \in 0..4 /\ j[2] \in 0..4
         /\ Len(Plan(j)) \in Nat /\ \E S : Plan(j) \in Seq(S)
         /\ \A k \in 1..Len(Plan(j)) : IsStatement(Plan(j)[k])
<1>1. j[1] \in 0..4 /\ j[2] \in 0..4
  BY DEF Journeys
<1>2. \E S : Plan(j) \in Seq(S)
  BY StatementsAssumption
<1>3. Len(Plan(j)) \in Nat
  BY <1>2
<1>4. \A k \in 1..Len(Plan(j)) : IsStatement(Plan(j)[k])
  BY StatementsAssumption
<1> QED
  BY <1>1, <1>2, <1>3, <1>4

LEMMA StageFacts ==
  ASSUME NEW j \in Journeys, NEW k \in 0..Len(Plan(j))
  PROVE  /\ DOMAIN Stage(j, k) = Tables \union {Version}
         /\ \A t \in Tables : Tabular(Stage(j, k)[t])
         /\ \A t \in Tables \union {Version} :
              (\A i \in 1..k : Plan(j)[i].table # t) => Stage(j, k)[t] = Built[j[1]][t]
  BY RevisionsAssumption DEF Tabular

LEMMA NextStage ==
  ASSUME NEW j \in Journeys, NEW k \in 0..Len(Plan(j)), k < Len(Plan(j)),
         NEW op, op = Plan(j)[k + 1]
  PROVE  /\ Stage(j, k + 1)[op.table] = Effect(op, Stage(j, k)[op.table])
         /\ \A t \in Tables \union {Version} :
              t # op.table => Stage(j, k + 1)[t] = Stage(j, k)[t]
         /\ op.do = "stamp" => op.from = Stage(j, k)[Version]
         /\ op.do = "create" => Built[j[1]][op.table] = NoTable
         /\ op.do = "add" /\ Built[j[1]][op.table] # NoTable =>
              op.name \notin DOMAIN Built[j[1]][op.table].columns
<1>1. k + 1 \in 1..Len(Plan(j)) /\ (k + 1) - 1 = k
  BY JourneyFacts
<1>2. /\ Stage(j, k + 1) = [Stage(j, k) EXCEPT ![op.table] = Effect(op, @)]
      /\ op.do = "stamp" => op.from = Stage(j, k)[Version]
      /\ op.do = "create" => Built[j[1]][op.table] = NoTable
      /\ op.do = "add" /\ Built[j[1]][op.table] # NoTable =>
           op.name \notin DOMAIN Built[j[1]][op.table].columns
  BY <1>1, RevisionsAssumption
<1>3. op.table \in Tables \union {Version}
  BY <1>1, JourneyFacts DEF IsStatement
<1> QED
  BY <1>2, <1>3, StageFacts

LEMMA JourneyEnds ==
  ASSUME NEW j \in Journeys
  PROVE  LET n == Len(Plan(j))
         IN  /\ Stage(j, n)[Version] = j[2]
             /\ \A t \in Tables : SameShape(Stage(j, n)[t], Built[j[2]][t])
             /\ j[1] = j[2] => n = 0
             /\ j[1] < j[2] =>
                  \A t \in Tables : Built[j[2]][t] = NoTable => Built[j[1]][t] = NoTable
  BY RevisionsAssumption

LEMMA BuiltFacts ==
  ASSUME NEW v \in 0..4
  PROVE  /\ Built[v][Version] = v
         /\ \A t \in Tables : Built[v][t] # NoTable =>
              \A c \in DOMAIN Built[v][t].columns :
                /\ c \in DOMAIN Models[t]
                /\ Built[v][t].columns[c].values \subseteq Models[t][c].values
         /\ v = 4 => \A t \in Tables :
              Built[v][t] # NoTable /\ Widthless(Built[v][t].columns) = Widthless(Models[t])
  BY BuiltAssumption

LEMMA TableNames == Version \notin Tables
  BY DEF Version, Tables

LEMMA RestOfSequence ==
  ASSUME NEW S, NEW s \in Seq(S), NEW k \in 0..Len(s)
  PROVE  LET rest == SubSeq(s, k + 1, Len(s))
         IN  /\ rest = <<>> <=> k = Len(s)
             /\ k = 0 => rest = s
             /\ k < Len(s) =>
                  Head(rest) = s[k + 1] /\ Tail(rest) = SubSeq(s, (k + 1) + 1, Len(s))
<1> DEFINE n == Len(s)
           rest == SubSeq(s, k + 1, n)
<1>1. n \in Nat /\ k \in Nat /\ k <= n
  OBVIOUS
<1>2. rest \in Seq(S) /\ Len(rest) = n - k /\ \A i \in 1..n - k : rest[i] = s[k + i]
  OBVIOUS
<1>3. rest = <<>> <=> k = n
  <2> HIDE DEF rest, n
  <2> QED
    BY <1>1, <1>2, EmptySeq
<1>4. k = 0 => rest = s
  BY <1>1, <1>2
<1>5. ASSUME k < n PROVE Head(rest) = s[k + 1] /\ Tail(rest) = SubSeq(s, (k + 1) + 1, n)
  <2> DEFINE later == SubSeq(s, (k + 1) + 1, n)
  <2>1. Head(rest) = s[k + 1]
    BY <1>1, <1>2, <1>5
  <2>2. /\ later \in Seq(S) /\ Len(later) = n - (k + 1)
        /\ \A i \in 1..n - (k + 1) : later[i] = s[(k + 1) + i]
    BY <1>1, <1>5
  <2> HIDE DEF rest, later, n
  <2>3. /\ Tail(rest) \in Seq(S) /\ Len(Tail(rest)) = n - (k + 1)
        /\ \A i \in 1..n - (k + 1) : Tail(rest)[i] = rest[i + 1]
    BY <1>1, <1>2, <1>5
  <2>4. \A i \in 1..n - (k + 1) : Tail(rest)[i] = later[i]
    BY <1>1, <1>2, <2>2, <2>3
  <2>5. Tail(rest) = later
    BY <1>1, <1>5, <2>2, <2>3, <2>4
  <2> QED
    BY <2>1, <2>5 DEF later
<1> QED
  BY <1>3, <1>4, <1>5

LEMMA ShapeTransitive == \A t, u, v : SameShape(t, u) /\ SameShape(u, v) => SameShape(t, v)
  BY DEF SameShape

-----------------------------------------------------------------------------
LEMMA InitIInv == ASSUME Init PROVE IInv
<1>1. PICK v \in InitialVersions, status \in {"sent", "failed"} : db = Installed(v, status)
  BY DEF Init
<1>2. v \in 0..4
  BY <1>1, VersionsAssumption
<1>3. /\ DOMAIN db = Tables \union {Version} /\ db[Version] = v
      /\ \A t \in Tables : SameShape(db[t], Built[v][t]) /\ Tabular(db[t])
  BY <1>1, <1>2, BuiltAssumption DEF Tabular
<1>4. Types
  BY <1>2, <1>3, BoundsAssumption DEF Init, Types
<1>5. Locks /\ TablesFit
  BY <1>3 DEF Init, Locks, TablesFit
<1>6. EachOnItsWay /\ HeadIsServed
  BY OperatorAssumption DEF Init, EachOnItsWay, HeadIsServed, Migrators
<1>7. VersionTellsSchema
  BY <1>3 DEF VersionTellsSchema
<1> QED
  BY <1>4, <1>5, <1>6, <1>7 DEF IInv

\* A transaction that is rolled back leaves nothing.
LEMMA RollBackIInv ==
  ASSUME IInv, NEW m \in Migrators, RollBack(m), db' = db, downgrades' = downgrades,
         failures' \in 0..MaxFailures
  PROVE  IInv'
<1>1. /\ pc' = [pc EXCEPT ![m] = "stopped"]
      /\ todo' = [todo EXCEPT ![m] = <<>>] /\ work' = [work EXCEPT ![m] = <<>>]
  BY DEF RollBack
<1>2. Types'
  BY <1>1 DEF IInv, Types
<1>3. work'[m] = <<>> /\ \A n \in Migrators : n # m => work'[n] = work[n]
  BY <1>1 DEF IInv, Types
<1>4. Locks' /\ TablesFit'
  BY <1>3 DEF IInv, Locks, TablesFit
<1>5. EachOnItsWay'
  <2> SUFFICES ASSUME NEW n \in Migrators, pc'[n] = "migrating"
               PROVE  \E j \in Journeys : \E k \in 0..Len(Plan(j)) : OnItsWay(n, j, k)'
    BY DEF EachOnItsWay
  <2>1. n # m /\ pc[n] = "migrating" /\ todo'[n] = todo[n] /\ work'[n] = work[n]
    BY <1>1 DEF IInv, Types
  <2>2. PICK j \in Journeys : \E k \in 0..Len(Plan(j)) : OnItsWay(n, j, k)
    BY <2>1 DEF IInv, EachOnItsWay
  <2>3. PICK k \in 0..Len(Plan(j)) : OnItsWay(n, j, k)
    BY <2>2
  <2>4. OnItsWay(n, j, k)'
    BY <2>1, <2>3 DEF OnItsWay
  <2> QED
    BY <2>4
<1>6. HeadIsServed' /\ VersionTellsSchema'
  BY <1>1 DEF IInv, Types, HeadIsServed, VersionTellsSchema
<1> QED
  BY <1>2, <1>4, <1>5, <1>6 DEF IInv

\* A migration starts with the statements from the version it reads.
LEMMA StartIInv ==
  ASSUME IInv, NEW m \in Migrators, pc[m] # "migrating", NEW j \in Journeys,
         pc' = [pc EXCEPT ![m] = "migrating"], todo' = [todo EXCEPT ![m] = Plan(j)],
         UNCHANGED <<db, work, failures>>, downgrades' \in 0..MaxDowngrades,
         downgrades' = 0 => downgrades = 0 /\ j[2] = 4 /\ j[1] = db[Version]
  PROVE  IInv'
<1>1. Types'
  BY DEF IInv, Types
<1>2. Locks' /\ TablesFit'
  BY DEF IInv, Locks, TablesFit
<1>3. EachOnItsWay'
  <2> SUFFICES ASSUME NEW n \in Migrators, pc'[n] = "migrating"
               PROVE  \E i \in Journeys : \E k \in 0..Len(Plan(i)) : OnItsWay(n, i, k)'
    BY DEF EachOnItsWay
  <2>1. CASE n = m
    <3>1. PICK S : Plan(j) \in Seq(S)
      BY JourneyFacts
    <3>2. 0 \in 0..Len(Plan(j)) /\ SubSeq(Plan(j), 0 + 1, Len(Plan(j))) = Plan(j)
      BY <3>1, JourneyFacts, RestOfSequence
    <3>3. work'[m] = <<>> /\ todo'[m] = Plan(j)
      BY DEF IInv, Types
    <3>4. DOMAIN work'[m] = {}
      BY <3>3
    <3>5. OnItsWay(n, j, 0)'
      BY <2>1, <3>2, <3>3, <3>4 DEF OnItsWay
    <3> QED
      BY <3>2, <3>5
  <2>2. CASE n # m
    <3>1. pc[n] = "migrating" /\ todo'[n] = todo[n] /\ work'[n] = work[n]
      BY <2>2 DEF IInv, Types
    <3>2. PICK i \in Journeys : \E k \in 0..Len(Plan(i)) : OnItsWay(n, i, k)
      BY <3>1 DEF IInv, EachOnItsWay
    <3>3. PICK k \in 0..Len(Plan(i)) : OnItsWay(n, i, k)
      BY <3>2
    <3>4. OnItsWay(n, i, k)'
      BY <3>1, <3>3 DEF OnItsWay
    <3> QED
      BY <3>4
  <2> QED
    BY <2>1, <2>2
<1>4. HeadIsServed' /\ VersionTellsSchema'
  BY DEF IInv, Types, HeadIsServed, VersionTellsSchema
<1> QED
  BY <1>1, <1>2, <1>3, <1>4 DEF IInv

LEMMA StartUpgradeIInv ==
  ASSUME IInv, NEW i \in Instances, StartUpgrade(i) PROVE IInv'
<1> DEFINE j == <<db[Version], 4>>
<1>1. j \in Journeys /\ j[1] = db[Version] /\ j[2] = 4
  BY DEF IInv, Types, Journeys
<1>2. Plan(j) = ToHead(db[Version])
  BY DEF Plan
<1> HIDE DEF j
<1>3. downgrades' = downgrades /\ downgrades \in 0..MaxDowngrades
  BY DEF StartUpgrade, IInv, Types
<1> QED
  BY <1>1, <1>2, <1>3, StartIInv DEF StartUpgrade, Migrators

LEMMA StartDowngradeIInv ==
  ASSUME IInv, StartDowngrade PROVE IInv'
<1>1. PICK to \in 0..db[Version] - 1 :
        todo' = [todo EXCEPT ![Operator] = DownTo(db[Version], to)]
  BY DEF StartDowngrade
<1> DEFINE j == <<db[Version], to>>
<1>2. j \in Journeys /\ Plan(j) = DownTo(db[Version], to)
  BY DEF IInv, Types, Journeys, Plan
<1> HIDE DEF j
<1>3. downgrades' \in 0..MaxDowngrades /\ downgrades' # 0
  BY BoundsAssumption DEF StartDowngrade, IInv, Types
<1> QED
  BY <1>1, <1>2, <1>3, StartIInv DEF StartDowngrade, Migrators

LEMMA StopIInv ==
  ASSUME IInv, NEW i \in Instances, Stop(i) PROVE IInv'
<1>1. pc' = [pc EXCEPT ![i] = "stopped"] /\ pc[i] = "serving"
  BY DEF Stop
<1>2. UNCHANGED <<db, todo, work, downgrades, failures>> /\ i \in Migrators
  BY DEF Stop, Migrators
<1>3. Types' /\ \A m \in Migrators : pc'[m] = "migrating" => pc[m] = "migrating"
  BY <1>1, <1>2 DEF IInv, Types
<1>4. Locks' /\ TablesFit'
  BY <1>2 DEF IInv, Locks, TablesFit
<1>5. \A m \in Migrators, j \in Journeys : \A k \in 0..Len(Plan(j)) :
        OnItsWay(m, j, k) => OnItsWay(m, j, k)'
  BY <1>2 DEF OnItsWay
<1>6. EachOnItsWay'
  BY <1>3, <1>5 DEF IInv, EachOnItsWay
<1>7. HeadIsServed' /\ VersionTellsSchema'
  BY <1>1, <1>2 DEF IInv, Types, HeadIsServed, VersionTellsSchema, Migrators
<1> QED
  BY <1>3, <1>4, <1>6, <1>7 DEF IInv

\* A statement that succeeds takes its migration one stage further.
LEMMA AdvanceIInv ==
  ASSUME IInv, NEW m \in Migrators, NEW view, NEW op,
         pc[m] = "migrating", todo[m] # <<>>, op = Head(todo[m]),
         \A n \in Migrators : ~ WaitsFor(m, n),
         view = Over(work[m], [t \in Needs(m) |-> db[t]]),
         Succeeds(op, view[op.table]),
         work' = [work EXCEPT ![m] = [view EXCEPT ![op.table] = Effect(op, @)]],
         todo' = [todo EXCEPT ![m] = Tail(@)],
         UNCHANGED <<db, pc, downgrades, failures>>
  PROVE  IInv'
<1>1. PICK j \in Journeys : \E k \in 0..Len(Plan(j)) : OnItsWay(m, j, k)
  BY DEF IInv, EachOnItsWay
<1>2. PICK k \in 0..Len(Plan(j)) : OnItsWay(m, j, k)
  BY <1>1
<1>3. PICK S : Plan(j) \in Seq(S)
  BY JourneyFacts
<1>4. /\ k < Len(Plan(j)) /\ k + 1 \in 0..Len(Plan(j)) /\ k + 1 \in 1..Len(Plan(j))
      /\ op = Plan(j)[k + 1] /\ Tail(todo[m]) = SubSeq(Plan(j), (k + 1) + 1, Len(Plan(j)))
  <2>1. todo[m] = SubSeq(Plan(j), k + 1, Len(Plan(j)))
    BY <1>2 DEF OnItsWay
  <2>2. k < Len(Plan(j)) /\ Len(Plan(j)) \in Nat
    BY <1>3, <2>1, JourneyFacts, RestOfSequence
  <2>3. op = Plan(j)[k + 1] /\ Tail(todo[m]) = SubSeq(Plan(j), (k + 1) + 1, Len(Plan(j)))
    BY <1>3, <2>1, <2>2, RestOfSequence
  <2> QED
    BY <2>2, <2>3
<1>5. IsStatement(op) /\ op.table \in Tables \union {Version} /\ op.refs \subseteq Tables
      /\ (op.do = "stamp" <=> op.table = Version)
  BY <1>4, JourneyFacts DEF IsStatement
<1> DEFINE seen == [view EXCEPT ![op.table] = Effect(op, @)]
<1>6. /\ work'[m] = seen /\ todo'[m] = Tail(todo[m])
      /\ \A n \in Migrators : n # m => work'[n] = work[n] /\ todo'[n] = todo[n]
      /\ DOMAIN work' = Migrators /\ DOMAIN todo' = Migrators
  BY DEF IInv, Types
<1>7. /\ Needs(m) = {op.table} \union op.refs
      /\ DOMAIN view = DOMAIN work[m] \union Needs(m)
      /\ \A t \in DOMAIN view :
           view[t] = IF t \in DOMAIN work[m] THEN work[m][t] ELSE db[t]
  BY DEF Needs, Over
<1>8. /\ DOMAIN seen = DOMAIN view /\ op.table \in DOMAIN view
      /\ seen[op.table] = Effect(op, view[op.table])
      /\ \A t \in DOMAIN view : t # op.table => seen[t] = view[t]
  BY <1>7
<1> HIDE DEF seen
<1>9. Types'
  BY <1>6 DEF IInv, Types
<1>10. Locks'
  <2>1. DOMAIN work'[m] \subseteq Tables \union {Version}
    BY <1>5, <1>6, <1>7, <1>8 DEF IInv, Locks
  <2>2. \A n \in Migrators : n # m => DOMAIN work'[m] \intersect DOMAIN work[n] = {}
    BY <1>6, <1>7, <1>8 DEF IInv, Locks, WaitsFor
  <2> QED
    BY <1>6, <2>1, <2>2 DEF IInv, Locks
\* A table it locks anew is the committed one, and no statement so far was about it.
<1>11. ASSUME NEW t \in Tables, t \in DOMAIN view, SameShape(db[t], Built[j[1]][t])
       PROVE  SameShape(view[t], Stage(j, k)[t]) /\ SameRows(db[t], view[t])
  <2>1. CASE t \in DOMAIN work[m]
    BY <1>2, <1>7, <1>11, <2>1 DEF OnItsWay
  <2>2. CASE t \notin DOMAIN work[m]
    <3>1. Stage(j, k)[t] = Built[j[1]][t]
      BY <1>2, <2>2, StageFacts DEF OnItsWay
    <3> QED
      BY <1>7, <1>11, <2>2, <3>1 DEF SameRows
  <2> QED
    BY <2>1, <2>2
<1>12. \A t \in Tables : t \in DOMAIN view => Tabular(view[t])
  BY <1>7 DEF IInv, TablesFit
<1>13. /\ Stage(j, k + 1)[op.table] = Effect(op, Stage(j, k)[op.table])
       /\ \A t \in Tables \union {Version} :
            t # op.table => Stage(j, k + 1)[t] = Stage(j, k)[t]
       /\ op.do = "stamp" => op.from = Stage(j, k)[Version]
       /\ op.do = "create" => Built[j[1]][op.table] = NoTable
       /\ op.do = "add" /\ Built[j[1]][op.table] # NoTable =>
            op.name \notin DOMAIN Built[j[1]][op.table].columns
  BY <1>4, NextStage
<1>14. ASSUME NEW t \in Tables, t \in DOMAIN seen PROVE Tabular(seen[t])
  <2>1. CASE t = op.table
    BY <1>5, <1>8, <1>12, <1>14, <2>1, EffectFits, TableNames
  <2>2. CASE t # op.table
    BY <1>8, <1>12, <1>14, <2>2
  <2> QED
    BY <2>1, <2>2
<1>15. TablesFit'
  <2> SUFFICES ASSUME NEW t \in Tables, NEW n \in Migrators
               PROVE  Tabular(db[t]) /\ (t \in DOMAIN work'[n] => Tabular(work'[n][t]))
    BY DEF TablesFit
  <2>1. Tabular(db[t]) /\ (t \in DOMAIN work[n] => Tabular(work[n][t]))
    BY DEF IInv, TablesFit
  <2> QED
    BY <1>6, <1>14, <2>1
<1>16. ASSUME NEW t \in Tables, t \in DOMAIN seen, SameShape(db[t], Built[j[1]][t])
       PROVE  SameShape(seen[t], Stage(j, k + 1)[t]) /\ SameRows(db[t], seen[t])
  <2>1. CASE t = op.table
    <3>1. /\ Tabular(view[t]) /\ Tabular(db[t]) /\ Tabular(Stage(j, k)[t])
          /\ op.do # "stamp"
      BY <1>5, <1>8, <1>12, <1>16, <2>1, StageFacts, TableNames DEF IInv, TablesFit
    <3>2. SameShape(view[t], Stage(j, k)[t]) /\ SameRows(db[t], view[t])
      BY <1>8, <1>11, <1>16
    <3>3. /\ op.do = "create" => db[t] = NoTable
          /\ op.do = "add" /\ db[t] # NoTable => op.name \notin DOMAIN db[t].columns
      BY <1>13, <1>16, <2>1 DEF SameShape
    <3>4. SameShape(Effect(op, view[t]), Effect(op, Stage(j, k)[t]))
      BY <1>5, <2>1, <3>1, <3>2, EffectShape
    <3>5. SameRows(db[t], Effect(op, view[t]))
      BY <1>5, <2>1, <3>1, <3>2, <3>3, EffectKeepsRows
    <3> QED
      BY <1>8, <1>13, <2>1, <3>4, <3>5
  <2>2. CASE t # op.table
    BY <1>8, <1>11, <1>13, <1>16, <2>2
  <2> QED
    BY <2>1, <2>2
\* The UPDATE finds the number it replaces: the one the journey started from.
<1>17. ASSUME Version \in DOMAIN seen
       PROVE  db[Version] = j[1] /\ seen[Version] = Stage(j, k + 1)[Version]
  <2>1. Version \in DOMAIN work[m] => view[Version] = Stage(j, k)[Version] /\ db[Version] = j[1]
    BY <1>2, <1>7 DEF OnItsWay
  <2>2. CASE op.do = "stamp"
    <3>1. view[Version] = op.from /\ op.from = Stage(j, k)[Version]
      BY <1>5, <1>13, <2>2, Succeeding
    <3>2. seen[Version] = op.to /\ Stage(j, k + 1)[Version] = op.to
      BY <1>5, <1>8, <1>13, <2>2, OtherEffects
    <3>3. Version \notin DOMAIN work[m] => db[Version] = j[1]
      <4>1. Version \notin DOMAIN work[m] => Stage(j, k)[Version] = Built[j[1]][Version]
        BY <1>2, StageFacts DEF OnItsWay
      <4> QED
        BY <1>5, <1>7, <1>8, <2>2, <3>1, <4>1, JourneyFacts, BuiltFacts
    <3> QED
      BY <2>1, <3>2, <3>3
  <2>3. CASE op.do # "stamp"
    <3>1. op.table # Version /\ Version \in DOMAIN work[m]
      BY <1>5, <1>7, <1>8, <1>17, <2>3, TableNames
    <3> QED
      BY <1>8, <1>13, <1>17, <2>1, <3>1
  <2> QED
    BY <2>2, <2>3
<1>18. OnItsWay(m, j, k + 1)'
  <2>1. todo'[m] = SubSeq(Plan(j), (k + 1) + 1, Len(Plan(j)))
    BY <1>4, <1>6
  <2>2. \A i \in 1..k + 1 : Plan(j)[i].table \in DOMAIN seen
    <3>1. \A i \in 1..k + 1 : i \in 1..k \/ i = k + 1
      OBVIOUS
    <3> QED
      BY <1>2, <1>4, <1>7, <1>8, <3>1 DEF OnItsWay
  <2>3. k + 1 # 0
    OBVIOUS
  <2>4. downgrades' = 0 => j[2] = 4 /\ (j[1] = 4 => db'[Version] = 4)
    BY <1>2 DEF OnItsWay
  <2> QED
    BY <1>6, <1>16, <1>17, <2>1, <2>2, <2>3, <2>4 DEF OnItsWay
<1>19. EachOnItsWay'
  <2> SUFFICES ASSUME NEW n \in Migrators, pc'[n] = "migrating"
               PROVE  \E i \in Journeys : \E l \in 0..Len(Plan(i)) : OnItsWay(n, i, l)'
    BY DEF EachOnItsWay
  <2>1. CASE n = m
    BY <1>4, <1>18, <2>1
  <2>2. CASE n # m
    <3>1. PICK i \in Journeys : \E l \in 0..Len(Plan(i)) : OnItsWay(n, i, l)
      BY DEF IInv, EachOnItsWay
    <3>2. PICK l \in 0..Len(Plan(i)) : OnItsWay(n, i, l)
      BY <3>1
    <3>3. OnItsWay(n, i, l)'
      BY <1>6, <2>2, <3>2 DEF OnItsWay
    <3> QED
      BY <3>3
  <2> QED
    BY <2>1, <2>2
<1>20. HeadIsServed' /\ VersionTellsSchema'
  BY DEF IInv, HeadIsServed, VersionTellsSchema
<1> QED
  BY <1>9, <1>10, <1>15, <1>19, <1>20 DEF IInv

LEMMA ExecuteIInv ==
  ASSUME IInv, NEW m \in Migrators, Execute(m) PROVE IInv'
<1> DEFINE op == Head(todo[m])
           view == Over(work[m], [t \in Needs(m) |-> db[t]])
<1>1. CASE Succeeds(op, view[op.table])
  <2>1. /\ work' = [work EXCEPT ![m] = [view EXCEPT ![op.table] = Effect(op, @)]]
        /\ todo' = [todo EXCEPT ![m] = Tail(@)]
        /\ UNCHANGED <<db, pc, downgrades, failures>>
        /\ pc[m] = "migrating" /\ todo[m] # <<>> /\ \A n \in Migrators : ~ WaitsFor(m, n)
    BY <1>1 DEF Execute
  <2> HIDE DEF op, view
  <2>2. op = Head(todo[m]) /\ view = Over(work[m], [t \in Needs(m) |-> db[t]])
    BY DEF op, view
  <2> QED
    BY <1>1, <2>1, <2>2, AdvanceIInv
<1>2. CASE ~ Succeeds(op, view[op.table])
  <2>1. RollBack(m) /\ db' = db /\ downgrades' = downgrades /\ failures' \in 0..MaxFailures
    BY <1>2 DEF Execute, IInv, Types
  <2> QED
    BY <2>1, RollBackIInv
<1> QED
  BY <1>1, <1>2

-----------------------------------------------------------------------------
\* What a COMMIT makes of the tables.
Overwritten(m) ==
  /\ DOMAIN db' = Tables \union {Version}
  /\ \A t \in Tables \union {Version} :
       db'[t] = IF t \in DOMAIN work[m] THEN work[m][t] ELSE db[t]

LEMMA CommitOverwrites ==
  ASSUME IInv, NEW m \in Migrators, Commit(m) PROVE Overwritten(m)
  BY DEF IInv, Types, Locks, Commit, Over, Overwritten

\* A journey that leads somewhere has locked the version, and leads from the committed
\* one to its own; what it did not touch is the same in both revisions.
LEMMA CommitLeads ==
  ASSUME IInv, NEW m \in Migrators, Commit(m), NEW j \in Journeys,
         OnItsWay(m, j, Len(Plan(j)))
  PROVE  /\ j[1] = j[2] => DOMAIN work[m] = {}
         /\ j[1] # j[2] =>
              /\ Version \in DOMAIN work[m]
              /\ db[Version] = j[1] /\ db'[Version] = j[2]
              /\ \A t \in Tables :
                   /\ SameShape(db'[t], Built[j[2]][t]) /\ SameRows(db[t], db'[t])
                   /\ j[1] < j[2] /\ db[t] # NoTable => db'[t] # NoTable
<1> DEFINE n == Len(Plan(j))
<1>1. Overwritten(m) /\ n \in 0..n
  BY CommitOverwrites, JourneyFacts
<1>2. j[1] = j[2] => DOMAIN work[m] = {}
  BY JourneyEnds DEF OnItsWay
<1>3. ASSUME j[1] # j[2]
      PROVE  Version \in DOMAIN work[m] /\ db[Version] = j[1] /\ db'[Version] = j[2]
  <2>1. Version \notin DOMAIN work[m] => Stage(j, n)[Version] = Built[j[1]][Version]
    BY <1>1, StageFacts DEF OnItsWay
  <2>2. Stage(j, n)[Version] = j[2] /\ Built[j[1]][Version] = j[1]
    BY JourneyEnds, JourneyFacts, BuiltFacts
  <2>3. Version \in DOMAIN work[m]
    BY <1>3, <2>1, <2>2
  <2> QED
    BY <1>1, <2>2, <2>3 DEF OnItsWay, Overwritten
<1>4. ASSUME j[1] # j[2], NEW t \in Tables
      PROVE  SameShape(db'[t], Built[j[2]][t]) /\ SameRows(db[t], db'[t])
  <2>1. SameShape(db[t], Built[j[1]][t])
    BY <1>3, <1>4 DEF IInv, VersionTellsSchema
  <2>2. SameShape(Stage(j, n)[t], Built[j[2]][t])
    BY JourneyEnds
  <2>3. CASE t \in DOMAIN work[m]
    <3>1. db'[t] = work[m][t]
      BY <1>1, <2>3 DEF Overwritten
    <3>2. SameShape(work[m][t], Stage(j, n)[t]) /\ SameRows(db[t], work[m][t])
      BY <2>1, <2>3 DEF OnItsWay
    <3> QED
      BY <2>2, <3>1, <3>2, ShapeTransitive
  <2>4. CASE t \notin DOMAIN work[m]
    <3>1. db'[t] = db[t]
      BY <1>1, <2>4 DEF Overwritten
    <3>2. Stage(j, n)[t] = Built[j[1]][t]
      BY <1>1, <2>4, StageFacts DEF OnItsWay
    <3> QED
      BY <2>1, <2>2, <3>1, <3>2, ShapeTransitive DEF SameRows
  <2> QED
    BY <2>3, <2>4
<1>5. ASSUME j[1] < j[2], NEW t \in Tables, db[t] # NoTable PROVE db'[t] # NoTable
  <2>1. j[1] # j[2]
    BY <1>5, JourneyFacts
  <2>2. SameShape(db[t], Built[j[1]][t]) /\ SameShape(db'[t], Built[j[2]][t])
    BY <1>3, <1>4, <2>1 DEF IInv, VersionTellsSchema
  <2> QED
    BY <1>5, <2>2, JourneyEnds DEF SameShape
<1> QED
  BY <1>2, <1>3, <1>4, <1>5

LEMMA CommitIsJourneysEnd ==
  ASSUME IInv, NEW m \in Migrators, Commit(m)
  PROVE  \E j \in Journeys : OnItsWay(m, j, Len(Plan(j)))
<1>1. pc[m] = "migrating" /\ todo[m] = <<>>
  BY DEF Commit
<1>2. PICK j \in Journeys : \E k \in 0..Len(Plan(j)) : OnItsWay(m, j, k)
  BY <1>1 DEF IInv, EachOnItsWay
<1>3. PICK k \in 0..Len(Plan(j)) : OnItsWay(m, j, k)
  BY <1>2
<1>4. PICK S : Plan(j) \in Seq(S)
  BY JourneyFacts
<1>5. k = Len(Plan(j))
  BY <1>1, <1>3, <1>4, RestOfSequence DEF OnItsWay
<1> QED
  BY <1>3, <1>5

LEMMA CommitIInv ==
  ASSUME IInv, NEW m \in Migrators, Commit(m) PROVE IInv'
<1>1. PICK j \in Journeys : OnItsWay(m, j, Len(Plan(j)))
  BY CommitIsJourneysEnd
<1>2. Overwritten(m)
  BY CommitOverwrites
<1>3. /\ j[1] = j[2] => DOMAIN work[m] = {}
      /\ j[1] # j[2] =>
           /\ Version \in DOMAIN work[m]
           /\ db[Version] = j[1] /\ db'[Version] = j[2]
           /\ \A t \in Tables : SameShape(db'[t], Built[j[2]][t])
  BY <1>1, CommitLeads
<1>4. /\ UNCHANGED <<todo, downgrades, failures>> /\ pc[m] = "migrating" /\ todo[m] = <<>>
      /\ work' = [work EXCEPT ![m] = <<>>]
      /\ pc' = [pc EXCEPT ![m] = IF m = Operator THEN "stopped" ELSE "serving"]
  BY DEF Commit
<1>5. /\ work'[m] = <<>> /\ pc'[m] # "migrating"
      /\ \A n \in Migrators : n # m => work'[n] = work[n] /\ pc'[n] = pc[n]
  BY <1>4 DEF IInv, Types
<1>6. db'[Version] \in 0..4 /\ (db'[Version] = db[Version] \/ db'[Version] = j[2])
  BY <1>2, <1>3, JourneyFacts DEF IInv, Types, Overwritten
<1>7. Types'
  BY <1>2, <1>4, <1>6 DEF IInv, Types, Overwritten
<1>8. Locks' /\ TablesFit'
  BY <1>2, <1>5 DEF IInv, Locks, TablesFit, Overwritten
<1>9. VersionTellsSchema'
  <2>1. CASE j[1] = j[2]
    BY <1>2, <1>3, <2>1 DEF IInv, VersionTellsSchema, Overwritten
  <2>2. CASE j[1] # j[2]
    BY <1>3, <2>2 DEF VersionTellsSchema
  <2> QED
    BY <2>1, <2>2
<1>10. downgrades = 0 => j[2] = 4 /\ db'[Version] = 4
  <2>1. CASE j[1] = j[2]
    BY <1>1, <1>2, <1>3, <2>1 DEF OnItsWay, Overwritten
  <2>2. CASE j[1] # j[2]
    BY <1>1, <1>3, <2>2 DEF OnItsWay
  <2> QED
    BY <2>1, <2>2
<1>11. EachOnItsWay'
  <2> SUFFICES ASSUME NEW n \in Migrators, pc'[n] = "migrating"
               PROVE  \E i \in Journeys : \E k \in 0..Len(Plan(i)) : OnItsWay(n, i, k)'
    BY DEF EachOnItsWay
  <2>1. n # m /\ pc[n] = "migrating" /\ work'[n] = work[n] /\ todo'[n] = todo[n]
    BY <1>4, <1>5
  <2>2. PICK i \in Journeys : \E k \in 0..Len(Plan(i)) : OnItsWay(n, i, k)
    BY <2>1 DEF IInv, EachOnItsWay
  <2>3. PICK k \in 0..Len(Plan(i)) : OnItsWay(n, i, k)
    BY <2>2
  <2>4. \A t \in Tables \union {Version} : t \in DOMAIN work[n] => db'[t] = db[t]
    BY <1>2, <2>1 DEF IInv, Locks, Overwritten
  <2>5. OnItsWay(n, i, k)'
    BY <1>4, <1>10, <2>1, <2>3, <2>4 DEF OnItsWay
  <2> QED
    BY <2>5
<1>12. HeadIsServed'
  BY <1>4, <1>10 DEF HeadIsServed
<1> QED
  BY <1>7, <1>8, <1>9, <1>11, <1>12 DEF IInv

-----------------------------------------------------------------------------
\* A write that the columns admit changes the rows of a table nobody has locked.
LEMMA WriteIInv ==
  ASSUME IInv, NEW i \in Instances, NEW t \in Tables, NEW old, NEW row,
         Write(i, t, old, row),
         db[t] # NoTable /\ Admits(db[t].columns, row) => DOMAIN row = DOMAIN db[t].columns
  PROVE  IInv'
<1>1. UNCHANGED <<pc, todo, work, downgrades, failures>>
  BY DEF Write, transaction
<1>2. \A m \in Migrators : t \notin DOMAIN work[m]
  BY DEF Write, IsLocked
<1>3. CASE db' = db
  BY <1>1, <1>3 DEF IInv, Types, Locks, TablesFit, EachOnItsWay, OnItsWay, HeadIsServed,
                    VersionTellsSchema
<1>4. CASE db' # db
  <2>1. /\ db[t] # NoTable /\ Admits(db[t].columns, row)
        /\ db' = [db EXCEPT ![t].rows = (@ \ old) \union {row}]
    BY <1>4 DEF Write
  <2>2. IsTable(db[t]) /\ t \in DOMAIN db
    BY <2>1 DEF IInv, TablesFit, Types, Tabular
  <2> DEFINE table == [db[t] EXCEPT !.rows = (@ \ old) \union {row}]
  <2>3. /\ DOMAIN db' = DOMAIN db /\ db'[t] = table
        /\ \A u \in DOMAIN db : u # t => db'[u] = db[u]
    BY <2>1, <2>2
  <2>4. /\ DOMAIN table = {"columns", "rows"} /\ table.columns = db[t].columns
        /\ table.rows = (db[t].rows \ old) \union {row}
    BY <2>2 DEF IsTable
  <2> HIDE DEF table
  <2>5. Tabular(table) /\ table # NoTable
    BY <2>1, <2>2, <2>4, NoTableIsNoTable DEF Tabular, IsTable
  <2>6. db'[Version] = db[Version] /\ Version # t
    BY <2>3, TableNames DEF IInv, Types
  <2>7. \A u : SameShape(table, u) <=> SameShape(db[t], u)
    BY <2>1, <2>4, <2>5 DEF SameShape
  <2>8. Types' /\ HeadIsServed'
    BY <1>1, <2>3, <2>6 DEF IInv, Types, HeadIsServed
  <2>9. Locks' /\ TablesFit'
    BY <1>1, <2>3, <2>5 DEF IInv, Types, Locks, TablesFit
  <2>10. VersionTellsSchema'
    BY <2>3, <2>6, <2>7 DEF IInv, Types, VersionTellsSchema
  <2>11. \A m \in Migrators : \A u \in DOMAIN work[m] : db'[u] = db[u]
    BY <1>2, <2>3 DEF IInv, Types, Locks
  <2>12. \A m \in Migrators, j \in Journeys : \A k \in 0..Len(Plan(j)) :
           OnItsWay(m, j, k) => OnItsWay(m, j, k)'
    BY <1>1, <2>6, <2>11 DEF OnItsWay
  <2>13. EachOnItsWay'
    BY <1>1, <2>12 DEF IInv, EachOnItsWay
  <2> QED
    BY <2>8, <2>9, <2>10, <2>13 DEF IInv
<1> QED
  BY <1>3, <1>4

\* A row of the current release has the columns of its models, which no revision
\* goes beyond.
LEMMA RowsOfTheRelease ==
  ASSUME IInv, NEW t \in Tables, db[t] # NoTable, NEW row, DOMAIN row = DOMAIN Models[t],
         Admits(db[t].columns, row)
  PROVE  DOMAIN row = DOMAIN db[t].columns
<1>1. SameShape(db[t], Built[db[Version]][t]) /\ db[Version] \in 0..4
  BY DEF IInv, Types, VersionTellsSchema
<1>2. DOMAIN db[t].columns \subseteq DOMAIN Models[t]
  BY <1>1, BuiltFacts DEF SameShape
<1> QED
  BY <1>2 DEF Admits

LEMMA WritesIInv ==
  ASSUME IInv, NEW i \in Instances, CreateTarget(i) \/ CreateEvent(i) \/ RecordAttempt(i)
  PROVE  IInv'
<1>1. CASE CreateTarget(i)
  <2>1. PICK method \in {"GET", "POST"} :
          Write(i, "monitoring_targets", {}, RowOf(MonitoringTarget, [http_method |-> method]))
    BY <1>1 DEF CreateTarget
  <2> DEFINE t == "monitoring_targets"
             row == RowOf(MonitoringTarget, [http_method |-> method])
  <2>2. t \in Tables /\ DOMAIN row = DOMAIN Models[t]
    BY DEF Tables, RowOf, Models
  <2> HIDE DEF t, row
  <2>3. Write(i, t, {}, row)
    BY <2>1 DEF t, row
  <2> QED
    BY <2>2, <2>3, WriteIInv, RowsOfTheRelease
<1>2. CASE CreateEvent(i)
  <2> DEFINE t == "notification_events"
             row == RowOf(NotificationEvent, [status |-> "pending"])
  <2>1. t \in Tables /\ DOMAIN row = DOMAIN Models[t]
    BY DEF Tables, RowOf, Models
  <2>2. Write(i, t, {}, row)
    BY <1>2 DEF CreateEvent
  <2> HIDE DEF t, row
  <2> QED
    BY <2>1, <2>2, WriteIInv, RowsOfTheRelease
<1>3. CASE RecordAttempt(i)
  <2> DEFINE t == "notification_events"
  <2>1. PICK old \in db[t].rows, status \in {"sent", "retrying", "failed"} :
          db[t] # NoTable /\ Write(i, t, {old}, [old EXCEPT !.status = status])
    BY <1>3 DEF RecordAttempt
  <2> DEFINE row == [old EXCEPT !.status = status]
  <2>2. t \in Tables /\ DOMAIN row = DOMAIN old
    BY DEF Tables
  <2> HIDE DEF t, row
  <2>3. Write(i, t, {old}, row)
    BY <2>1 DEF row
  <2>4. DOMAIN old = DOMAIN db[t].columns
    BY <2>1, <2>2 DEF IInv, TablesFit, Tabular, IsTable
  <2> QED
    BY <2>2, <2>3, <2>4, WriteIInv
<1> QED
  BY <1>1, <1>2, <1>3

LEMMA NextIInv == ASSUME IInv, [Next]_vars PROVE IInv'
<1>1. CASE UNCHANGED vars
  BY <1>1 DEF vars, transaction, IInv, Types, Locks, TablesFit, EachOnItsWay, OnItsWay,
              HeadIsServed, VersionTellsSchema
<1>2. ASSUME NEW m \in Migrators, Execute(m) \/ Commit(m) PROVE IInv'
  BY <1>2, ExecuteIInv, CommitIInv
<1>3. ASSUME NEW m \in Migrators, IsVictim(m) \/ Fails(m) PROVE IInv'
  <2>1. /\ RollBack(m) /\ db' = db /\ downgrades' = downgrades
        /\ failures' \in 0..MaxFailures
    BY <1>3, BoundsAssumption DEF IsVictim, Fails, IInv, Types
  <2> QED
    BY <2>1, RollBackIInv
<1>4. CASE StartDowngrade
  BY <1>4, StartDowngradeIInv
<1>5. ASSUME NEW i \in Instances, StartUpgrade(i) \/ Stop(i) PROVE IInv'
  BY <1>5, StartUpgradeIInv, StopIInv
<1>6. ASSUME NEW i \in Instances, CreateTarget(i) \/ CreateEvent(i) \/ RecordAttempt(i)
      PROVE  IInv'
  BY <1>6, WritesIInv
<1> QED
  BY <1>1, <1>2, <1>3, <1>4, <1>5, <1>6 DEF Next

LEMMA IInvAlways == Spec => []IInv
  BY InitIInv, NextIInv, PTL DEF Spec

-----------------------------------------------------------------------------
LEMMA IInvIsTypeOK == ASSUME IInv PROVE TypeOK
<1>1. Types
  BY DEF IInv
<1>2. ASSUME NEW t \in Tables, db[t] # NoTable
      PROVE  /\ \A c \in DOMAIN db[t].columns :
                  db[t].columns[c].values \subseteq Models[t][c].values
             /\ IsTable(db[t])
  <2>1. SameShape(db[t], Built[db[Version]][t]) /\ IsTable(db[t])
    BY <1>2 DEF IInv, VersionTellsSchema, TablesFit, Tabular
  <2> QED
    BY <1>1, <1>2, <2>1, BuiltFacts DEF Types, SameShape
<1> QED
  BY <1>1, <1>2 DEF Types, TypeOK

\* However many containers migrate, fail and serve: the rows of a table have its columns
\* and what these admit, and the columns admit no value that the models do not know
\* (migrations/versions, the writes of the services).
THEOREM TablesFitTheModels == Spec => []TypeOK
<1>1. IInv => TypeOK
  BY IInvIsTypeOK
<1> QED
  BY <1>1, IInvAlways, PTL

\* Whatever migrations overlap, fail, deadlock or are undone, the tables are those the
\* revisions up to alembic_version build (env.py, one transaction for all revisions).
THEOREM TheVersionTellsTheSchema == Spec => []VersionTellsSchema
<1>1. IInv => VersionTellsSchema
  BY DEF IInv
<1> QED
  BY <1>1, IInvAlways, PTL

\* While nobody downgrades, a container serves only from tables that have the columns
\* of its models (Dockerfile:22, "alembic upgrade head && exec uvicorn").
THEOREM WhatServesHasItsModels == Spec => []ServesItsModels
<1>1. ASSUME IInv PROVE ServesItsModels
  <2> SUFFICES ASSUME downgrades = 0, NEW i \in Instances, pc[i] = "serving", NEW t \in Tables
               PROVE  db[t] # NoTable /\ Widthless(db[t].columns) = Widthless(Models[t])
    BY DEF ServesItsModels
  <2>1. db[Version] = 4 /\ SameShape(db[t], Built[4][t])
    BY <1>1 DEF IInv, HeadIsServed, VersionTellsSchema
  <2> QED
    BY <2>1, BuiltFacts DEF SameShape
<1> QED
  BY <1>1, IInvAlways, PTL

\* Only a COMMIT changes the version.
LEMMA CommitsChangeVersion ==
  ASSUME IInv, [Next]_vars, db'[Version] # db[Version]
  PROVE  \E m \in Migrators : Commit(m)
<1>1. ASSUME NEW i \in Instances, NEW t \in Tables, NEW old, NEW row, Write(i, t, old, row)
      PROVE  db'[Version] = db[Version]
  <2>1. db' = db \/ db' = [db EXCEPT ![t].rows = (@ \ old) \union {row}]
    BY <1>1 DEF Write
  <2> QED
    BY <2>1, TableNames DEF IInv, Types
<1>2. ASSUME NEW i \in Instances
      PROVE  ~ (CreateTarget(i) \/ CreateEvent(i) \/ RecordAttempt(i))
  <2>1. "monitoring_targets" \in Tables /\ "notification_events" \in Tables
    BY DEF Tables
  <2> QED
    BY <1>1, <2>1 DEF CreateTarget, CreateEvent, RecordAttempt
<1> QED
  BY <1>2 DEF Next, vars, StartUpgrade, StartDowngrade, Stop, Execute, IsVictim, Fails

\* A migration keeps the rows of every table it keeps, in every column it keeps, with
\* those that other containers wrote before it took its locks; an upgrade keeps every
\* table (migrations/versions, upgrade and downgrade).
THEOREM NoRowIsLost == Spec => RowsSurvive
<1>1. ASSUME IInv, [Next]_vars, db'[Version] # db[Version], NEW t \in Tables
      PROVE  /\ SameRows(db[t], db'[t])
             /\ db[t] # NoTable /\ db'[Version] > db[Version] => db'[t] # NoTable
  <2>1. PICK m \in Migrators : Commit(m)
    BY <1>1, CommitsChangeVersion
  <2>2. PICK j \in Journeys : OnItsWay(m, j, Len(Plan(j)))
    BY <1>1, <2>1, CommitIsJourneysEnd
  <2>3. Overwritten(m) /\ (j[1] = j[2] => DOMAIN work[m] = {})
    BY <1>1, <2>1, <2>2, CommitOverwrites, CommitLeads
  <2>4. j[1] # j[2]
    BY <1>1, <2>3 DEF Overwritten
  <2> QED
    BY <1>1, <2>1, <2>2, <2>4, CommitLeads, JourneyFacts
<1>2. IInv /\ [Next]_vars =>
        (db'[Version] # db[Version] => \A t \in Tables :
           /\ SameRows(db[t], db'[t])
           /\ db[t] # NoTable /\ db'[Version] > db[Version] => db'[t] # NoTable)
  BY <1>1
<1> QED
  BY <1>2, IInvAlways, PTL DEF Spec, RowsSurvive
=============================================================================
