--------------------------- MODULE SchemaReleases ---------------------------
(***************************************************************************)
(* Releases of a small schema, and the tables they may find, that together *)
(* take every branch of SchemaSync's plan.                                 *)
(***************************************************************************)
EXTENDS SchemaSync

Field(name, type, required, default, from) ==
    [name |-> name, type |-> type, required |-> required, default |-> default,
     from |-> from, auto |-> FALSE]
Id == Field("id", "int", TRUE, None, None)
Unique(columns) == [name |-> "uk", unique |-> TRUE, columns |-> columns]
Index(columns) == [name |-> "idx", unique |-> FALSE, columns |-> columns]
Not(column, bad) == [name |-> "chk", column |-> column, bad |-> bad]
Key(column) == [name |-> "fk", column |-> column, table |-> "p", target |-> "id"]
Definition(name, fields, indexes, checks, fks) ==
    [name |-> name, fields |-> fields, pk |-> "id", indexes |-> indexes,
     checks |-> checks, fks |-> fks]

Col(type, nullable) == [type |-> type, nullable |-> nullable, default |-> None, auto |-> FALSE]
Table(columns, pk, rows) ==
    [columns |-> columns, pk |-> pk, indexes |-> {}, checks |-> {}, fks |-> {}, rows |-> rows]
IdCol == "id" :> Col("int", FALSE)
Row(id, column, value) == "id" :> id @@ column :> value

Parent == Table(IdCol, <<"id">>, <<"id" :> "1">>)
ParentDefinition == Definition("p", <<Id>>, << >>, << >>, << >>)

\* An old table evolves: rename, tighten, shorten, then every constraint.
Evolve ==
    {[want |-> <<Definition("c", <<Id, Field("n", "short", TRUE, default, "o")>>,
                    <<Unique(<<"n">>), Index(<<"n", "id">>)>>, <<Not("n", "b")>>, <<Key("n")>>),
                 ParentDefinition>>,
      start |-> "c" :> Table(IdCol @@ "o" :> Col("text", TRUE), <<"id">>,
                    <<Row("1", "o", v), Row("2", "o", w)>>) @@ "p" :> Parent]
        : v \in {"1"}, w \in {"1", "2", "b", "long", Null}, default \in {None, "1"}}

\* A first start: everything is created, the foreign key last.
Fresh ==
    {[want |-> <<Definition("c", <<Id, Field("n", "int", FALSE, None, None)>>,
                    <<Unique(<<"n">>)>>, <<Not("n", "2")>>, <<Key("n")>>),
                 ParentDefinition>>,
      start |-> tables] : tables \in {<< >>, "p" :> Parent}}

\* Columns, a primary key and indexes are added to a table with or without rows.
Grow ==
    {[want |-> <<Definition("c", <<[Id EXCEPT !.auto = required],
                        Field("m", "enum", required, default, None),
                        Field("n", "long", FALSE, "a", None)>>,
                    <<Unique(<<"n", "id">>), Index(<<"m">>), [Index(<<"n", "id">>) EXCEPT !.name = "i2"]>>, << >>, << >>)>>,
      start |-> "c" :> Table(IdCol @@ "n" :> Col(type, TRUE), pk, rows)]
        : required \in BOOLEAN, default \in {None, "a"}, type \in {"short", "int"},
          pk \in {<< >>, <<"id">>, <<"n">>},
          rows \in {<< >>, <<Row("1", "n", "1")>>,
                    <<Row("1", "n", "1"), Row("1", "n", "2")>>}}

\* A column exists under its old name and its new one.
Torn ==
    {[want |-> <<Definition("c", <<Id, Field("n", "int", FALSE, None, "o")>>, << >>, << >>, << >>)>>,
      start |-> "c" :> Table(IdCol @@ "n" :> Col("int", TRUE) @@ "o" :> Col("int", TRUE),
                             <<"id">>, << >>)]}

\* Constraints over columns still to be added.
OverNewColumns ==
    {[want |-> <<Definition("c", <<Id, Field("n", "int", FALSE, None, None)>>,
                    << >>, checks, fks), ParentDefinition>>,
      start |-> "c" :> Table(IdCol, <<"id">>, <<"id" :> "1">>)]
        : checks \in {<< >>, <<Not("n", "2")>>}, fks \in {<< >>, <<Key("n")>>}}

UniqueDefault ==
    {[want |-> <<Definition("c", <<Id, Field("n", "int", TRUE, "1", None)>>,
                    <<Unique(<<"n">>)>>, << >>, << >>)>>,
      start |-> "c" :> Table(IdCol, <<"id">>, rows)]
        : rows \in {<<"id" :> "1">>, <<"id" :> "1", "id" :> "2">>}}

\* A column is wider than declared, which is accepted until it is modified.
Widened ==
    {[want |-> <<Definition("c", <<Id, Field("n", "short", TRUE, None, None)>>,
                    << >>, << >>, << >>)>>,
      start |-> "c" :> Table(IdCol @@ "n" :> Col("long", TRUE), <<"id">>, <<Row("1", "n", v)>>)]
        : v \in {"1", "long"}}

Releases == Evolve \cup Fresh \cup Grow \cup Torn \cup OverNewColumns \cup UniqueDefault
            \cup Widened
=============================================================================
