----------------------------- MODULE SchemaSync -----------------------------
(***************************************************************************)
(* The schema synchroniser of yang-base (database/schema_sync): instances  *)
(* of one release start, take MySQL's advisory lock, plan the DDL that     *)
(* brings the tables to their definitions, scan the old data for what the  *)
(* new constraints would refuse, and run the statements, foreign keys      *)
(* last.  Meanwhile the application goes on writing, a statement may fail  *)
(* and a process may die between two statements.                           *)
(*                                                                         *)
(* A table is a record of what information_schema shows of it and its      *)
(* rows.  Values are the few strings the column types tell apart.          *)
(***************************************************************************)
EXTENDS Naturals, Sequences, FiniteSets, SequencesExt

CONSTANTS
    Instance,       \* processes that start with the same release
    Scenario,       \* what they may find: {[want |-> definitions, start |-> tables]},
                    \* those of which MySQL can hold the tables
    MaxWrites,      \* bound: rows the application writes
    MaxFaults       \* bound: statements that fail and processes that die

VARIABLES
    want,           \* the definitions, in table-name order
    db,             \* table -> its state, for the tables that exist
    holder,         \* {the instance whose session holds the advisory lock}
    sync,           \* instance -> the locals of its sync_table_definitions
    writes, faults  \* counts, for the bounds

syncVars == <<want, db, holder, sync, writes, faults>>

None == "none"      \* no default, no legacy name
Null == "NULL"
Blank == ""         \* what MySQL fills into a NOT NULL column without default

-----------------------------------------------------------------------------
(* Column types: how values fit them, and FieldType against a column.      *)
Values(type) ==
    CASE type = "short" -> {Blank, "a", "b", "1", "2"}
      [] type \in {"long", "text"} -> {Blank, "a", "b", "1", "2", "long"}
      [] type = "enum" -> {"a"}
      [] type = "int" -> {Blank, "1", "2"}

Compatible(type, column) ==
    IF type = "short" THEN column \in {"short", "long"} ELSE column = type

Convertible(type, column) ==
    \/ type \in {"short", "long"} /\ column \in {"short", "long", "text"}
    \/ type = "enum" /\ column \in {"short", "long", "enum"}

-----------------------------------------------------------------------------
(* plan_table_sync: definition d against the state s of its table.         *)
Columns(s) == DOMAIN s.columns
Fields(d) == ToSet(d.fields)

Renames(d, s) ==
    {f \in Fields(d) : f.name \notin Columns(s) /\ f.from \in Columns(s)}

OldName(d, s, c) ==
    IF \E f \in Renames(d, s) : f.name = c
    THEN (CHOOSE f \in Renames(d, s) : f.name = c).from ELSE c

NewName(d, s, c) ==
    IF \E f \in Renames(d, s) : f.from = c
    THEN (CHOOSE f \in Renames(d, s) : f.from = c).name ELSE c

NewNames(d, s, columns) == [i \in DOMAIN columns |-> NewName(d, s, columns[i])]

Missing(d, s) ==
    {f \in Fields(d) : f.name \notin Columns(s) /\ f.from \notin Columns(s)}
Kept(d, s) == Fields(d) \ Missing(d, s)
Column(d, s, f) == s.columns[OldName(d, s, f.name)]

TypeDiffers(d, s, f) == ~Compatible(f.type, Column(d, s, f).type)
(* Variant of Tightens: a default is taken to fill what is NULL. *)
TightensUnfilled(d, s, f) ==
    f.required /\ Column(d, s, f).nullable /\ f.default = None
Tightens(d, s, f) == f.required /\ Column(d, s, f).nullable
(* Variant of Differs: every default counts as a difference. *)
DiffersByAnyDefault(d, s, f) ==
    \/ TypeDiffers(d, s, f)
    \/ f.required = Column(d, s, f).nullable
    \/ f.default # None
Differs(d, s, f) ==
    \/ TypeDiffers(d, s, f)
    \/ f.required = Column(d, s, f).nullable
    \/ f.default # Column(d, s, f).default

Indexes(d, s) == {[i EXCEPT !.columns = NewNames(d, s, @)] : i \in s.indexes}
Covered(d, s, i) ==
    \E j \in Indexes(d, s) : j.columns = i.columns /\ (j.unique \/ ~i.unique)
Checked(s, c) == \E k \in s.checks : k.column = c.column /\ k.bad = c.bad
Matches(d, s, k, f) ==
    /\ NewName(d, s, k.column) = f.column
    /\ k.table = f.table /\ k.target = f.target
Referenced(d, s, f) == \E k \in s.fks : Matches(d, s, k, f)

\* plan_table_sync returns Err: a difference it will not resolve by itself.
Refuses(d, s) ==
    \/ \E f \in Fields(d) : f.name \in Columns(s) /\ f.from \in Columns(s)
    \/ \E f \in Missing(d, s) :
          f.auto \/ (s.rows # << >> /\ f.required /\ f.default = None)
    \/ \E f \in Kept(d, s) :
          \/ f.auto # Column(d, s, f).auto
          \/ TypeDiffers(d, s, f) /\ ~Convertible(f.type, Column(d, s, f).type)
    \/ s.pk # << >> /\ NewNames(d, s, s.pk) # <<d.pk>>
    \/ \E i \in ToSet(d.indexes), j \in Indexes(d, s) : i.name = j.name /\ i # j
    \/ \E c \in ToSet(d.checks), k \in s.checks : c.name = k.name /\ c # k
    \/ \E f \in ToSet(d.fks), k \in s.fks : f.name = k.name /\ ~Matches(d, s, k, f)

AllNew(d, s, i) == ToSet(i.columns) \subseteq {f.name : f \in Missing(d, s)}

\* A loop over a sequence that skips what is not in S.
Chosen(seq, S) ==
    LET Pick(n) == IF seq[n] \in S THEN <<seq[n]>> ELSE << >>
        chosen[n \in 1 .. Len(seq)] == IF n = 1 THEN Pick(n) ELSE chosen[n - 1] \o Pick(n)
    IN  IF seq = << >> THEN << >> ELSE chosen[Len(seq)]

\* The statements for one table that exists, in the order of the plan.
Statements(d, kind, objects) ==
    [i \in DOMAIN objects |-> [kind |-> kind, table |-> d.name, object |-> objects[i]]]

ColumnStatements(d, s) ==
    LET new == Chosen(d.fields, {f \in Fields(d) : f.name \notin Columns(s)})
    IN  [i \in DOMAIN new |->
            [kind |-> IF new[i] \in Renames(d, s) THEN "rename" ELSE "add",
             table |-> d.name, object |-> new[i]]]

Modified(d, s) ==
    Chosen(d.fields, {f \in Kept(d, s) : Differs(d, s, f)})
NewIndexes(d, s) == Chosen(d.indexes, {i \in ToSet(d.indexes) : ~Covered(d, s, i)})
NewChecks(d, s) == Chosen(d.checks, {c \in ToSet(d.checks) : ~Checked(s, c)})
NewKeys(d, s) == Chosen(d.fks, {f \in ToSet(d.fks) : ~Referenced(d, s, f)})

AlterTable(d, s) ==
    ColumnStatements(d, s)
    \o Statements(d, "modify", Modified(d, s))
    \o Statements(d, "pk", IF s.pk = << >> THEN <<[name |-> d.pk]>> ELSE << >>)
    \o Statements(d, "index", NewIndexes(d, s))
    \o Statements(d, "check", NewChecks(d, s))

\* Plan(d, tables, phase): the first phase is everything but foreign keys.
Plan(d, tables, phase) ==
    IF d.name \notin DOMAIN tables
    THEN IF phase = "fk" THEN Statements(d, "fk", d.fks)
                         ELSE Statements(d, "create", <<d>>)
    ELSE IF phase = "fk" THEN Statements(d, "fk", NewKeys(d, tables[d.name]))
                         ELSE AlterTable(d, tables[d.name])

\* plan_locked, in the order in which sync_locked runs it.
FullPlan(tables) ==
    FlattenSeq([i \in DOMAIN want |-> Plan(want[i], tables, "first")])
    \o FlattenSeq([i \in DOMAIN want |-> Plan(want[i], tables, "fk")])

Refused(tables) ==
    \E d \in ToSet(want) : d.name \in DOMAIN tables /\ Refuses(d, tables[d.name])

-----------------------------------------------------------------------------
(* The preflight: each scan is a query over the columns as they are now.   *)
Scan(d, kind, columns, object) ==
    [kind |-> kind, table |-> d.name, pk |-> d.pk, columns |-> columns, object |-> object]

OldNames(d, s, columns) == [i \in DOMAIN columns |-> OldName(d, s, columns[i])]

NullScans(d, s) ==
    {Scan(d, "null", <<OldName(d, s, f.name)>>, f) :
        f \in {g \in Kept(d, s) : Tightens(d, s, g)}}
ValueScans(d, s) ==
    {Scan(d, "value", <<OldName(d, s, f.name)>>, f) :
        f \in {g \in Kept(d, s) : TypeDiffers(d, s, g)}}
UniqueScans(d, s) ==
    {Scan(d, "unique", OldNames(d, s, i.columns), i) :
        i \in {j \in ToSet(NewIndexes(d, s)) : j.unique /\ ~AllNew(d, s, j)}}
CheckScans(d, s) ==
    {Scan(d, "check", <<OldName(d, s, c.column)>>, c) : c \in ToSet(NewChecks(d, s))}
KeyScans(d, s) ==
    {Scan(d, "fk", <<OldName(d, s, f.column)>>, f) : f \in ToSet(NewKeys(d, s))}

Scans(d, tables) ==
    IF d.name \notin DOMAIN tables THEN {}
    ELSE LET s == tables[d.name]
         IN  NullScans(d, s) \cup ValueScans(d, s) \cup UniqueScans(d, s)
             \cup CheckScans(d, s) \cup KeyScans(d, s)

AllScans(tables) == UNION {Scans(d, tables) : d \in ToSet(want)}

\* MySQL can run the query: it names no column or table that is not there.
Readable(scan, tables) ==
    /\ ToSet(scan.columns) \cup {scan.pk} \subseteq Columns(tables[scan.table])
    /\ scan.kind = "fk" =>
          /\ scan.object.table \in DOMAIN tables
          /\ scan.object.target \in Columns(tables[scan.object.table])

CellsOf(row, columns) == [i \in DOMAIN columns |-> row[columns[i]]]
Duplicated(rows, columns) ==
    {r \in DOMAIN rows :
        /\ Null \notin ToSet(CellsOf(rows[r], columns))
        /\ \E q \in DOMAIN rows \ {r} : CellsOf(rows[q], columns) = CellsOf(rows[r], columns)}
Dangling(tables, table, column, key) ==
    {r \in DOMAIN tables[table].rows :
        /\ tables[table].rows[r][column] # Null
        /\ \A q \in DOMAIN tables[key.table].rows :
              tables[key.table].rows[q][key.target] # tables[table].rows[r][column]}

\* preflight_primary_keys: the rows a scan returns.
Found(scan, tables) ==
    LET rows == tables[scan.table].rows
        Cell(r) == rows[r][scan.columns[1]]
    IN  CASE scan.kind = "null" -> {r \in DOMAIN rows : Cell(r) = Null}
          [] scan.kind = "value" ->
                {r \in DOMAIN rows : Cell(r) \notin Values(scan.object.type) \cup {Null}}
          [] scan.kind = "unique" -> Duplicated(rows, scan.columns)
          [] scan.kind = "check" -> {r \in DOMAIN rows : Cell(r) = scan.object.bad}
          [] scan.kind = "fk" -> Dangling(tables, scan.table, scan.columns[1], scan.object)

-----------------------------------------------------------------------------
(* MySQL: what a statement makes of the tables, and when it refuses.       *)
ColumnOf(f) ==
    [type |-> f.type, nullable |-> ~f.required, default |-> f.default, auto |-> f.auto]

Filled(f) ==
    IF f.default # None THEN f.default ELSE IF f.required THEN Blank ELSE Null

Created(d) ==
    [columns |-> [c \in {f.name : f \in Fields(d)} |->
                     ColumnOf(CHOOSE f \in Fields(d) : f.name = c)],
     pk |-> <<d.pk>>, indexes |-> ToSet(d.indexes), checks |-> ToSet(d.checks),
     fks |-> {}, rows |-> << >>]

With(function, c, value) ==
    [b \in DOMAIN function \cup {c} |-> IF b = c THEN value ELSE function[b]]

Swap(c, f) == IF c = f.from THEN f.name ELSE c
Renamed(function, f) ==
    [c \in {Swap(b, f) : b \in DOMAIN function} |->
        function[IF c = f.name THEN f.from ELSE c]]

Altered(s, kind, x) ==
    CASE kind = "add" ->
            [s EXCEPT !.columns = With(@, x.name, ColumnOf(x)),
                      !.rows = [r \in DOMAIN @ |-> With(@[r], x.name, Filled(x))]]
      [] kind = "rename" ->
            [s EXCEPT !.columns = Renamed(@, x),
                      !.rows = [r \in DOMAIN @ |-> Renamed(@[r], x)],
                      !.pk = [i \in DOMAIN @ |-> Swap(@[i], x)],
                      !.indexes = {[i EXCEPT !.columns = [n \in DOMAIN @ |-> Swap(@[n], x)]] : i \in @},
                      !.fks = {[k EXCEPT !.column = Swap(@, x)] : k \in @}]
      [] kind = "modify" -> [s EXCEPT !.columns[x.name] = ColumnOf(x)]
      [] kind = "pk" -> [s EXCEPT !.pk = <<x.name>>, !.columns[x.name].nullable = FALSE]
      [] kind = "index" -> [s EXCEPT !.indexes = @ \cup {x}]
      [] kind = "check" -> [s EXCEPT !.checks = @ \cup {x}]
      [] kind = "fk" -> [s EXCEPT !.fks = @ \cup {x}]

Run(st, tables) ==
    IF st.kind = "create" THEN With(tables, st.table, Created(st.object))
    ELSE [tables EXCEPT ![st.table] = Altered(@, st.kind, st.object)]

\* The statement names what is there, and nothing that is already.
Applies(st, tables) ==
    LET s == tables[st.table]
        x == st.object
    IN  CASE st.kind = "create" -> st.table \notin DOMAIN tables
          [] st.kind = "add" -> x.name \notin Columns(s)
          [] st.kind = "rename" ->
                /\ x.from \in Columns(s) /\ x.name \notin Columns(s)
                /\ \A c \in s.checks : c.column # x.from
          [] st.kind = "modify" -> x.name \in Columns(s)
          [] st.kind = "pk" -> s.pk = << >> /\ x.name \in Columns(s)
          [] st.kind = "index" ->
                /\ \A i \in s.indexes : i.name # x.name
                /\ ToSet(x.columns) \subseteq Columns(s)
          [] st.kind = "check" ->
                x.column \in Columns(s) /\ \A c \in s.checks : c.name # x.name
          [] st.kind = "fk" ->
                /\ x.column \in Columns(s) /\ \A k \in s.fks : k.name # x.name
                /\ x.table \in DOMAIN tables
                /\ LET target == tables[x.table]
                   IN  \E key \in {target.pk} \cup {i.columns : i \in target.indexes} :
                          key # << >> /\ key[1] = x.target

\* The rows obey every column and constraint of their table.
Fits(value, column) == IF value = Null THEN column.nullable ELSE value \in Values(column.type)
RowsLegal(tables, t) ==
    LET s == tables[t]
    IN  /\ \A r \in DOMAIN s.rows, c \in Columns(s) : Fits(s.rows[r][c], s.columns[c])
        /\ s.pk # << >> => Duplicated(s.rows, s.pk) = {}
        /\ \A i \in s.indexes : i.unique => Duplicated(s.rows, i.columns) = {}
        /\ \A c \in s.checks, r \in DOMAIN s.rows : s.rows[r][c.column] # c.bad
        /\ \A k \in s.fks : Dangling(tables, t, k.column, k) = {}
Legal(tables) == \A t \in DOMAIN tables : RowsLegal(tables, t)

-----------------------------------------------------------------------------
(* What a start is handed: definitions as TableDefinition::build accepts   *)
(* them, and tables as MySQL describes them.                               *)
FieldNames(d) == {f.name : f \in Fields(d)}
NamedApart(seq) == \A m, n \in DOMAIN seq : seq[m].name = seq[n].name => m = n

IsColumn(c) ==
    c = [type |-> c.type, nullable |-> c.nullable, default |-> c.default, auto |-> c.auto]
IsIndex(i) == i = [name |-> i.name, unique |-> i.unique, columns |-> i.columns]
IsKey(k) == k = [name |-> k.name, column |-> k.column, table |-> k.table, target |-> k.target]

Accepted(d) ==
    /\ d.fields \in Seq(Fields(d)) /\ NamedApart(d.fields)
    /\ \A f, g \in Fields(d) :
          /\ f.from # g.name
          /\ f.from = g.from /\ f.from # None => f = g
    /\ \A f \in Fields(d) :
          /\ f.name # None /\ f.required \in BOOLEAN
          /\ f.default = None \/ Fits(f.default, ColumnOf(f))
    /\ \E f \in Fields(d) : f.name = d.pk /\ f.required
    /\ d.indexes \in Seq(ToSet(d.indexes)) /\ NamedApart(d.indexes)
    /\ \A i \in ToSet(d.indexes) : IsIndex(i) /\ i.columns \in Seq(FieldNames(d))
    /\ d.checks \in Seq(ToSet(d.checks)) /\ NamedApart(d.checks)
    /\ \A c \in ToSet(d.checks) : c.column \in FieldNames(d)
    /\ d.fks \in Seq(ToSet(d.fks)) /\ NamedApart(d.fks)
    /\ \A k \in ToSet(d.fks) : IsKey(k) /\ k.column \in FieldNames(d)

\* normalize_definitions keeps one definition of a name; MySQL has a foreign
\* key refer to the first column of a key.
Keyed(e, column) ==
    e.pk = column \/ \E i \in ToSet(e.indexes) : i.columns # << >> /\ i.columns[1] = column
Holdable(definitions) ==
    /\ definitions \in Seq(ToSet(definitions)) /\ NamedApart(definitions)
    /\ \A d \in ToSet(definitions) :
          /\ Accepted(d)
          /\ \A k \in ToSet(d.fks) :
                \E e \in ToSet(definitions) : e.name = k.table /\ Keyed(e, k.target)

IsTable(s) ==
    /\ s = [columns |-> s.columns, pk |-> s.pk, indexes |-> s.indexes,
            checks |-> s.checks, fks |-> s.fks, rows |-> s.rows]
    /\ None \notin Columns(s) /\ \A c \in Columns(s) : IsColumn(s.columns[c])
    /\ s.pk \in Seq(Columns(s))
    /\ \A i \in s.indexes : IsIndex(i)
    /\ \A k \in s.fks : IsKey(k)

\* Rows have their table's columns; keys and constraints name what is there.
Linked(tables) == \A t \in DOMAIN tables :
    LET s == tables[t]
    IN  /\ IsTable(s)
        /\ \A r \in DOMAIN s.rows : DOMAIN s.rows[r] = Columns(s)
        /\ \A i \in s.indexes : ToSet(i.columns) \subseteq Columns(s)
        /\ \A c \in s.checks : c.column \in Columns(s)
        /\ \A k \in s.fks :
              /\ k.column \in Columns(s)
              /\ k.table \in DOMAIN tables /\ k.target \in Columns(tables[k.table])

ASSUME ScenarioAssumption == \A s \in Scenario : Holdable(s.want) /\ Linked(s.start)

\* Left out: a renamed column that a foreign key refers to, which MySQL
\* renames there as well.
Unreferenced(definitions, tables) ==
    \A d \in ToSet(definitions), t \in DOMAIN tables :
       \A f \in Fields(d), k \in tables[t].fks : k.table = d.name => k.target # f.from

ASSUME RenamesAssumption == \A s \in Scenario : Unreferenced(s.want, s.start)

-----------------------------------------------------------------------------
(* sync_table_definitions.                                                 *)
Idle == [pc |-> "idle", plan |-> << >>, next |-> 1, scans |-> {},
         result |-> None, stale |-> FALSE]

SyncInit ==
    /\ \E s \in Scenario : Legal(s.start) /\ want = s.want /\ db = s.start
    /\ holder = {}
    /\ sync = [i \in Instance |-> Idle]
    /\ writes = 0 /\ faults = 0

GoTo(i, pc) == sync' = [sync EXCEPT ![i].pc = pc]
Release(i, result) ==
    sync' = [sync EXCEPT ![i].pc = "release", ![i].result = result, ![i].scans = {}]
quiet == <<want, writes, faults>>

Start(i) ==
    /\ sync[i].pc = "idle"
    /\ GoTo(i, "lock")
    /\ UNCHANGED <<db, holder, quiet>>

\* GET_LOCK(name, 30) answers 1 ...
\* (LockFreeIgnored, a variant: the answer is not looked at.)
LockFreeIgnored == TRUE
LockFree == holder = {}
GetLock(i) ==
    /\ sync[i].pc = "lock" /\ LockFree
    /\ holder' = {i}
    /\ GoTo(i, "plan")
    /\ UNCHANGED <<db, quiet>>

\* ... or 0 after its thirty seconds.
LockTimesOut(i) ==
    /\ sync[i].pc = "lock" /\ holder # {}
    /\ sync' = [sync EXCEPT ![i].pc = "done", ![i].result = "timeout"]
    /\ UNCHANGED <<db, holder, quiet>>

MakePlan(i) ==
    /\ sync[i].pc = "plan"
    /\ IF Refused(db)
       THEN Release(i, "refused")
       ELSE sync' = [sync EXCEPT ![i].pc = "scan", ![i].plan = FullPlan(db),
                                 ![i].scans = AllScans(db)]
    /\ UNCHANGED <<db, holder, quiet>>

AllReadable(i) == \A scan \in sync[i].scans : Readable(scan, db)
Preflight(i) ==
    /\ sync[i].pc = "scan"
    /\ \/ /\ ~AllReadable(i)
          /\ Release(i, "unreadable")
       \/ /\ AllReadable(i)
          /\ \E scan \in sync[i].scans : Found(scan, db) # {}
          /\ Release(i, "refused")
       \/ /\ AllReadable(i)
          /\ \A scan \in sync[i].scans : Found(scan, db) = {}
          /\ GoTo(i, "ddl")
    /\ UNCHANGED <<db, holder, quiet>>

Pending(i) == sync[i].pc = "ddl" /\ sync[i].next <= Len(sync[i].plan)
Rest(i) == SubSeq(sync[i].plan, sync[i].next, Len(sync[i].plan))
Statement(i) == sync[i].plan[sync[i].next]

Execute(i) ==
    /\ Pending(i) /\ Applies(Statement(i), db) /\ Legal(Run(Statement(i), db))
    /\ db' = Run(Statement(i), db)
    /\ sync' = [sync EXCEPT ![i].next = @ + 1]
    /\ UNCHANGED <<holder, quiet>>

\* MySQL refuses a statement: for the schema it finds, or for the old rows.
\* Variant of Refusal: the statement is tried again.
RefusalRetries(i) ==
    /\ Pending(i) /\ ~(Applies(Statement(i), db) /\ Legal(Run(Statement(i), db)))
    /\ UNCHANGED <<db, holder, sync, quiet>>
Refusal(i) ==
    /\ Pending(i) /\ ~(Applies(Statement(i), db) /\ Legal(Run(Statement(i), db)))
    /\ Release(i, "failed")
    /\ UNCHANGED <<db, holder, quiet>>

\* A query or a statement fails for reasons of its own.
Fails(i) ==
    /\ sync[i].pc \in {"plan", "scan", "ddl"} /\ faults < MaxFaults
    /\ faults' = faults + 1
    /\ Release(i, "failed")
    /\ UNCHANGED <<want, db, holder, writes>>

Finish(i) ==
    /\ sync[i].pc = "ddl" /\ ~Pending(i)
    /\ Release(i, "ok")
    /\ UNCHANGED <<db, holder, quiet>>

ReleaseLock(i) ==
    /\ sync[i].pc = "release"
    /\ holder' = holder \ {i}
    /\ GoTo(i, "done")
    /\ UNCHANGED <<db, quiet>>

\* The process dies, or exits as its start failed, and starts again; MySQL
\* frees the lock of its session.
Restart(i) ==
    /\ sync[i].pc # "idle" /\ faults < MaxFaults
    /\ faults' = faults + 1
    /\ holder' = holder \ {i}
    /\ sync' = [sync EXCEPT ![i] = Idle]
    /\ UNCHANGED <<want, db, writes>>

\* The application, at any time, within the constraints of the moment.
Overtaken ==
    sync' = [i \in Instance |->
                [sync[i] EXCEPT !.stale = @ \/ sync[i].pc \in {"scan", "ddl"}]]

Write(t, r, c, v) ==
    /\ writes < MaxWrites
    /\ db' = [db EXCEPT ![t].rows[r][c] = v]
    /\ db' # db /\ Legal(db')
    /\ writes' = writes + 1
    /\ Overtaken
    /\ UNCHANGED <<want, holder, faults>>

Insert(t) ==
    /\ writes < MaxWrites /\ db[t].rows = << >>
    /\ \E row \in [Columns(db[t]) -> {Null, "1", "a"}] :
          db' = [db EXCEPT ![t].rows = <<row>>]
    /\ Legal(db')
    /\ writes' = writes + 1
    /\ Overtaken
    /\ UNCHANGED <<want, holder, faults>>

Step(i) ==
    \/ GetLock(i) \/ LockTimesOut(i) \/ MakePlan(i) \/ Preflight(i)
    \/ Execute(i) \/ Refusal(i) \/ Fails(i) \/ Finish(i) \/ ReleaseLock(i)

Application ==
    \E t \in DOMAIN db :
       \/ Insert(t)
       \/ \E r \in DOMAIN db[t].rows, c \in Columns(db[t]),
             v \in {Null, "1", "2", "a", "b", "long"} : Write(t, r, c, v)

SyncNext ==
    \/ \E i \in Instance : Start(i) \/ Step(i) \/ Restart(i)
    \/ Application

SyncSpec == SyncInit /\ [][SyncNext]_syncVars /\ \A i \in Instance : WF_syncVars(Step(i))

-----------------------------------------------------------------------------
SyncTypeOK ==
    /\ holder \subseteq Instance /\ Cardinality(holder) <= 1
    /\ writes \in 0 .. MaxWrites /\ faults \in 0 .. MaxFaults
    /\ \A i \in Instance :
          /\ sync[i].pc \in {"idle", "lock", "plan", "scan", "ddl", "release", "done"}
          /\ sync[i].result \in {None, "ok", "refused", "unreadable", "failed",
                                 "timeout"}

(* sync_locked runs a plan it made once: whatever it has executed so far,  *)
(* a plan made from information_schema now would hold nothing but the rest,*)
(* so a start that was cut short is taken up where it stopped, and after   *)
(* one that reports success there is nothing left to do.                   *)
ReplanIsTheRest == \A i \in Instance :
    /\ sync[i].pc = "ddl" /\ ~Refused(db)
          => ToSet(FullPlan(db)) \subseteq ToSet(Rest(i))
    /\ sync[i].result = "ok" => ~Refused(db) /\ FullPlan(db) = << >>

(* sync_table_definitions holds the advisory lock from the plan to the last*)
(* statement: no statement finds its column, index or constraint made by   *)
(* another instance, or misses the one it builds on.  (MySQL itself refuses*)
(* to rename a column that a CHECK names.)                                 *)
NextStillNeeded == \A i \in Instance :
    Pending(i) =>
       LET st == Statement(i)
       IN  \/ Applies(st, db)
           \/ /\ st.kind = "rename"
              /\ \E c \in db[st.table].checks : c.column = st.object.from

(* What the scans of plan_table_sync read is all that old data can refuse: *)
(* after a clean preflight a statement fails for its data only if the      *)
(* application wrote in between.  Three things are not scanned: an added   *)
(* primary key, a unique index over added columns, and a column of a wider *)
(* type, which is_type_compatible accepts and MODIFY makes narrower.       *)
Blocked(i) ==
    Pending(i) /\ ~sync[i].stale /\ Applies(Statement(i), db) /\ ~Legal(Run(Statement(i), db))
Added(i, table) ==
    {st.object.name : st \in {t \in ToSet(sync[i].plan) : t.kind = "add" /\ t.table = table}}
Narrows(st) ==
    LET column == db[st.table].columns[st.object.name]
    IN  column.type # st.object.type /\ Compatible(st.object.type, column.type)
ScannedDdlSucceeds == \A i \in Instance :
    Blocked(i) =>
       LET st == Statement(i)
       IN  \/ st.kind = "pk"
           \/ st.kind = "index" /\ ToSet(st.object.columns) \subseteq Added(i, st.table)
           \/ st.kind = "modify" /\ Narrows(st)

(* mod.rs:5: whatever old data may block is scanned before any DDL,        *)
(* "任何可能被旧数据阻止的变更都会先只读扫描".                              *)
OldDataIsScanned == \A i \in Instance : ~Blocked(i)

(* Every start ends: the lock is waited for at most thirty seconds and     *)
(* every holder gives it back.                                             *)
SyncReturns == \A i \in Instance :
    sync[i].pc = "lock" ~> sync[i].pc \in {"done", "idle"}

(* plan.rs:346: a scan must not name a column still to be added, "否则     *)
(* preflight SQL 会引用尚未添加的列，导致 Unknown column 报错".          *)
PreflightReadsExisting == \A i \in Instance :
    sync[i].pc = "scan" => AllReadable(i)
=============================================================================
