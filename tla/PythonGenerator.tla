--------------------------- MODULE PythonGenerator ---------------------------
(***************************************************************************)
(* internal/codegen/python: models.py with a class for every table, item   *)
(* and row, where a row that is a whole table takes the table's class;     *)
(* queries.py with the class Querier for the YDB SDK, DB-API or SQLAlchemy.*)
(***************************************************************************)
EXTENDS Rendering

PythonScalars ==
  {"Bool", "Int8", "Int16", "Int32", "Int64", "Uint8", "Uint16", "Uint32", "Uint64", "Float",
   "Double", "Utf8", "String", "Date", "Date32", "Datetime", "Datetime64", "Timestamp",
   "Timestamp64", "Interval", "Interval64", "Uuid", "Json", "JsonDocument"}

\* snake: an underscore before every capital but the first letter and one
\* that follows a character of no name; a table path's slash is such a one.
PySnake(n) ==
  Join([k \in DOMAIN n |->
          (IF n[k].sep = "" THEN "" ELSE "_")
          \o (IF k > 1 /\ n[k].sep # "/" /\ n[k].case # "lower" THEN "_" ELSE "")
          \o (IF n[k].case = "upper" THEN Spelling[n[k].word].spaced ELSE Low(n[k]))])
PyClass(n) ==
  Join([k \in DOMAIN n |-> IF n[k].case = "upper" THEN Keep(n[k])
                           ELSE IF k > 1 /\ n[k].sep = "" /\ n[k].case = "lower" THEN Low(n[k])
                           ELSE Title(n[k])])
\* fieldName; the keywords among the names made here.
PyField(n) == Escape(PySnake(n), {"for", "in", "is", "match"})

PyItem(a, i) ==
  PyClass(a.queries[i[1]].name
          \o [a.queries[i[1]].parameters[i[2]].name EXCEPT ![1].sep = "_"]
          \o <<[sep |-> "_", word |-> "item", case |-> "lower"]>>)

\* queryMatchesTable: the table whose columns the result has, or 0.
PyRowTable(a, q) ==
  LET t == a.queries[q].columns[1].table
  IN  IF /\ t # 0 /\ a.queries[q].embeds = <<>>
         /\ Contents(a.queries[q].columns) = Contents(a.tables[t].columns)
        THEN t ELSE 0
\* queryRowClass.
PyRow(a, q) ==
  IF PyRowTable(a, q) # 0 THEN PyClass(a.tables[PyRowTable(a, q)].name)
  ELSE PyClass(Append(a.queries[q].name, [sep |-> "", word |-> "row", case |-> "title"]))
\* What the class of a row stands for: a table, or the columns of the result.
PyRowMeans(a, q) ==
  IF PyRowTable(a, q) # 0 THEN <<"table", PyRowTable(a, q)>>
  ELSE <<"row", Contents(a.queries[q].columns)>>

\* validateQuery and validateNames.
PythonAccepts(a) ==
  LET fields(columns) ==
        /\ \A i \in DOMAIN columns : ~FirstIsDigit(columns[i].name)
        /\ Distinct({<<PyField(columns[i].name), i>> : i \in DOMAIN columns})
      typed(columns) == \A i \in DOMAIN columns : columns[i].kind \in PythonScalars
      struct(i) == a.queries[i[1]].parameters[i[2]].fields
      tables == {<<PyClass(a.tables[t].name), t>> : t \in DOMAIN a.tables}
      named(n) == {q \in Rows(a) : PyRow(a, q) = n}
      signature(q) == Contents(a.queries[q].columns)
  IN  /\ Distinct({<<x[1], <<"table", x[2]>>>> : x \in tables}
                  \cup {<<PyItem(a, i), <<"item", i[1], i[2]>>>> : i \in Items(a)}
                  \cup {<<"Optional", <<"typing">>>>})
      /\ \A i \in Items(a) : named(PyItem(a, i)) = {}
      /\ \A q, r \in Rows(a) : PyRow(a, q) = PyRow(a, r) => signature(q) = signature(r)
      /\ \A x \in tables : \A q \in named(x[1]) :
           (\A r \in named(x[1]) : q <= r) => a.queries[q].columns[1].table = x[2]
      /\ Distinct({<<PyField(a.queries[q].name), q>> : q \in DOMAIN a.queries})
      /\ \A t \in ToSet(a.tables) : ~FirstIsDigit(t.name) /\ fields(t.columns) /\ typed(t.columns)
      /\ \A i \in Items(a) : fields(struct(i)) /\ typed(struct(i))
      /\ \A q \in ToSet(a.queries) :
           /\ q.command \in {":one", ":many", ":exec"} /\ ~FirstIsDigit(q.name)
           /\ typed(SelectSeq(q.parameters, LAMBDA p: ~IsStructList(p))) /\ fields(q.parameters)
           /\ \A p \in ToSet(q.parameters) : PyField(p.name) # "self"
           /\ fields(RowColumns(q)) /\ typed(q.columns)

\* renderModels: a class is written once for all the results that share it.
PythonDecls(a) ==
  LET fields(what, columns) ==
        {Declare(what, PyField(columns[i].name), <<"field", i>>) : i \in DOMAIN columns}
      tables == {PyClass(t.name) : t \in ToSet(a.tables)}
      parameters(q) == a.queries[q].parameters
  IN  {Declare(<<"models">>, n, <<"import", n>>)
         : n \in {"dataclass", "date", "datetime", "timedelta", "UUID", "Optional"}}
      \cup {Declare(<<"models">>, PyClass(a.tables[t].name), <<"table", t>>) : t \in DOMAIN a.tables}
      \cup UNION {fields(<<"table", t>>, a.tables[t].columns) : t \in DOMAIN a.tables}
      \cup {Declare(<<"models">>, PyItem(a, i), <<"item", i>>) : i \in Items(a)}
      \cup UNION {fields(<<"item", i>>, parameters(i[1])[i[2]].fields) : i \in Items(a)}
      \cup {Declare(<<"models">>, PyRow(a, q), PyRowMeans(a, q))
              : q \in {q \in Rows(a) : PyRow(a, q) \notin tables}}
      \cup UNION {fields(<<"fields", q>>, RowColumns(a.queries[q])) : q \in Rows(a)}
      \cup {Declare(<<"members">>, n, <<"own", n>>) : n \in {"__init__", "_execute"}}
      \cup {Declare(<<"members">>, PyField(a.queries[q].name), <<"method", q>>) : q \in DOMAIN a.queries}
      \cup UNION {{Declare(<<"body", q>>, PyField(parameters(q)[p].name), <<"parameter", p>>)
                    : p \in DOMAIN parameters(q)}
                  \cup {Declare(<<"body", q>>, "self", <<"own", "self">>)} : q \in DOMAIN a.queries}

\* renderMethod and writeRowFields.
PythonUses(a) ==
  LET embedded == UNION {ToSet(a.queries[q].embeds) : q \in Rows(a)}
      body(q) == << <<"body", q>>, <<"queries">> >>
  IN  {Use(<< <<"models">> >>, n, <<"import", n>>) : n \in {"date", "datetime", "UUID", "Optional"}}
      \cup {Use(<< <<"models">> >>, PyRow(a, q), PyRowMeans(a, q)) : q \in Rows(a)}
      \cup {Use(<< <<"models">> >>, PyClass(a.tables[e.table].name), <<"table", e.table>>) : e \in embedded}
      \cup {Use(<< <<"models">> >>, PyItem(a, i), <<"item", i>>) : i \in Items(a)}
      \cup UNION {{Use(body(q), PyField(a.queries[q].parameters[p].name), <<"parameter", p>>)
                    : p \in DOMAIN a.queries[q].parameters}
                  \cup {Use(body(q), "self", <<"own", "self">>)} : q \in DOMAIN a.queries}

\* rowValue: DB-API rows are read by position, the others by result name.
PyRowValues(q, runtime) ==
  IF runtime = "dbapi" THEN ValuesCovered(q) ELSE ByResultName(q, ValuesCovered(q))
PyRowPairs(a, q, runtime) ==
  LET query == a.queries[q]
  IN  RowPairs(a, query, PyRowValues(query, runtime))
      \cup (IF PyRowTable(a, q) = 0 THEN {}
            ELSE {[declared |-> Contents(a.tables[PyRowTable(a, q)].columns),
                   given |-> [k \in DOMAIN query.columns |->
                                Held(query, PyRowValues(query, runtime)[k])]]})

Python(a, runtime) ==
  IF ~PythonAccepts(a) THEN Refused
  ELSE Program(PythonDecls(a), PythonUses(a), UNION {PyRowPairs(a, q, runtime) : q \in Rows(a)},
               UNION {BoundByName(a.queries[q], q) : q \in DOMAIN a.queries})

=============================================================================
