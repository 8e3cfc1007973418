----------------------------- MODULE GoGenerator -----------------------------
(***************************************************************************)
(* internal/codegen/golang: one package with the structs of embedded       *)
(* tables, rows, parameters and items, and the methods of Queries for the  *)
(* YDB SDK or database/sql.  A runtime is                                  *)
(* [sql, exported, limit]: whether it is database/sql, whether the texts   *)
(* are exported as constants, and how many parameters a method takes       *)
(* before they become a struct.                                            *)
(***************************************************************************)
EXTENDS Rendering

\* The scalar types that have a Go type, and the predeclared name of it.
GoScalars ==
  [Bool |-> "bool", Int8 |-> "int8", Int16 |-> "int16", Int32 |-> "int32", Int64 |-> "int64",
   Uint8 |-> "uint8", Uint16 |-> "uint16", Uint32 |-> "uint32", Uint64 |-> "uint64",
   Float |-> "float32", Double |-> "float64", Utf8 |-> "string", Json |-> "string",
   String |-> "byte"]

\* The keywords among the words that names are made of here.
GoKeywords == {"for", "func", "type"}

\* goName: each part capitalised, and "id" spelled ID.
GoName(n) ==
  LET parts == Words(n, AtSeparator)
  IN  Join([k \in DOMAIN parts |->
              IF LowWord(parts[k]) = "id" THEN "ID" ELSE CapitalWord(parts[k])])

\* exportedQueryName.
GoConstant(n) == Raw([n EXCEPT ![1].case = IF @ = "lower" THEN "title" ELSE @])

GoParamsStruct(q, runtime) == Len(q.parameters) > 0 /\ Len(q.parameters) > runtime.limit
GoItem(q, p) == Raw(q.name) \o GoName(q.parameters[p].name) \o "Item"
GoEmbedded(a) == UNION {{e.table : e \in ToSet(a.queries[q].embeds)} : q \in DOMAIN a.queries}

\* Every struct with its fields.
GoStructs(a, runtime) ==
  {[name |-> GoName(Base(a.tables[t].name)), what |-> <<"table", t>>,
    fields |-> a.tables[t].columns] : t \in GoEmbedded(a)}
  \cup {[name |-> Raw(a.queries[q].name) \o "Row", what |-> <<"row", q>>,
         fields |-> RowColumns(a.queries[q])] : q \in Rows(a)}
  \cup {[name |-> Raw(a.queries[q].name) \o "Params", what |-> <<"params", q>>,
         fields |-> a.queries[q].parameters]
          : q \in {q \in DOMAIN a.queries : GoParamsStruct(a.queries[q], runtime)}}
  \cup {[name |-> GoItem(a.queries[i[1]], i[2]), what |-> <<"item", i[1], i[2]>>,
         fields |-> a.queries[i[1]].parameters[i[2]].fields] : i \in Items(a)}

\* validateStructDeclarations: what the package declares.
GoPackage(a, runtime) ==
  {<<n, <<n>>>> : n \in {"Queries", "DBTX", "Querier", "New", "validateDecimalParameter"}}
  \cup {<<s.name, s.what>> : s \in GoStructs(a, runtime)}
  \cup {<<"bind" \o GoItem(a.queries[i[1]], i[2]), <<"bind", i[1], i[2]>>>> : i \in Items(a)}
  \cup IF runtime.exported
         THEN {<<GoConstant(a.queries[q].name), <<"text", q>>>> : q \in DOMAIN a.queries}
         ELSE {}

\* validate, and format.Source for the columns of embedded tables.
GoAccepts(a, runtime) ==
  LET named(fields) == {<<GoName(fields[i].name), i>> : i \in DOMAIN fields}
      typed(fields) == \A f \in ToSet(fields) : f.kind \in DOMAIN GoScalars \cup {"Timestamp"}
      fits(fields) == /\ Distinct(named(fields))
                      /\ \A f \in ToSet(fields) : ~FirstIsDigit(f.name)
  IN  /\ Distinct(GoPackage(a, runtime))
      /\ \A s \in GoStructs(a, runtime) : fits(s.fields)
      /\ \A t \in GoEmbedded(a) : typed(a.tables[t].columns)
      /\ Distinct({<<Raw(a.queries[q].name), q>> : q \in DOMAIN a.queries})
      /\ \A q \in ToSet(a.queries) :
           /\ ~FirstIsDigit(q.name) /\ Raw(q.name) \notin GoKeywords
           /\ runtime.sql => Raw(q.name) # "WithTx"
           /\ q.command \in {":one", ":many", ":exec"}
           /\ fits(q.parameters)
           /\ typed(q.columns)
           /\ \A p \in ToSet(q.parameters) : typed(IF IsStructList(p) THEN p.fields ELSE <<p>>)

\* methodArgs and varRef: the variables that carry a query's parameters.
GoArgument(q, p, runtime) ==
  IF GoParamsStruct(q, runtime) \/ Len(q.parameters) = 1 THEN "arg"
  ELSE "arg" \o GoName(q.parameters[p].name)

\* The packages that a file of queries imports, and the variables of a method.
GoImports(a, runtime) ==
  {"context"}
  \cup (IF runtime.sql THEN {"sql"} ELSE {"query", "xerrors"})
  \cup (IF ~runtime.sql /\ \E q \in ToSet(a.queries) : q.command = ":many" THEN {"errors", "io"} ELSE {})
  \cup (IF ~runtime.sql /\ \E q \in ToSet(a.queries) : q.parameters # <<>> THEN {"ydb"} ELSE {})
  \cup (IF Items(a) # {} THEN {"types"} ELSE {})
GoLocals(q, runtime) ==
  {"q", "ctx", "err"}
  \cup (IF runtime.sql THEN {} ELSE {"opts"})
  \cup (IF ~runtime.sql /\ q.parameters # <<>> THEN {"parameters", "callOptions"} ELSE {})
  \cup (CASE q.command = ":one" -> {"row"} \cup IF runtime.sql THEN {} ELSE {"result"}
          [] q.command = ":many" -> {"items", "row"} \cup IF runtime.sql THEN {"rows"}
                                                          ELSE {"result", "resultSet", "r"}
          [] OTHER -> {})

\* One declaration per name: Go admits no name both in a file's imports and in
\* its package, and none for both a field and a method of Queries.
GoDecls(a, runtime) ==
  {Declare(<<"universe">>, n, <<"builtin", n>>)
     : n \in {GoScalars[k] : k \in DOMAIN GoScalars} \cup {"error", "nil", "append", "make", "len"}}
  \cup {Declare(<<"package">>, n, <<"import", n>>) : n \in GoImports(a, runtime)}
  \cup {Declare(<<"package">>, d[1], d[2]) : d \in GoPackage(a, runtime)}
  \cup UNION {{Declare(s.what, GoName(s.fields[i].name), <<"field", i>>) : i \in DOMAIN s.fields}
              : s \in GoStructs(a, runtime)}
  \cup {Declare(<<"Queries">>, n, <<"member", n>>)
          : n \in {"db"} \cup (IF runtime.sql THEN {"WithTx"} ELSE {})}
  \cup {Declare(<<"Queries">>, Raw(a.queries[q].name), <<"method", q>>) : q \in DOMAIN a.queries}
  \cup UNION {{Declare(<<"body", q>>, n, <<"local", n>>) : n \in GoLocals(a.queries[q], runtime)}
              : q \in DOMAIN a.queries}
  \cup UNION {{Declare(<<"body", q>>, GoArgument(a.queries[q], p, runtime),
                       IF GoParamsStruct(a.queries[q], runtime) THEN <<"params", q>> ELSE <<"parameter", p>>)
                : p \in DOMAIN a.queries[q].parameters} : q \in DOMAIN a.queries}

GoUses(a, runtime) ==
  LET types == << <<"package">>, <<"universe">> >>
      body(q) == << <<"body", q>> >> \o types
      scalars(s) == {s.fields[i].kind : i \in {i \in DOMAIN s.fields : s.fields[i].kind \in DOMAIN GoScalars}}
  IN  UNION {{Use(types, GoScalars[k], <<"builtin", GoScalars[k]>>) : k \in scalars(s)}
             : s \in {s \in GoStructs(a, runtime) : s.what[1] \in {"table", "item"}}}
      \cup {Use(types, GoName(Base(a.tables[t].name)), <<"table", t>>) : t \in GoEmbedded(a)}
      \cup {Use(body(i[1]), "bind" \o GoItem(a.queries[i[1]], i[2]), <<"bind", i[1], i[2]>>) : i \in Items(a)}
      \cup {Use(body(s.what[2]), s.name, s.what)
              : s \in {s \in GoStructs(a, runtime) : s.what[1] # "table"}}
      \cup UNION {
             {Use(<< <<"Queries">> >>, "db", <<"member", "db">>),
              Use(<< <<"Queries">> >>, Raw(a.queries[q].name), <<"method", q>>)}
             \cup {Use(body(q), n, <<"local", n>>) : n \in {"q", "ctx"}}
             \cup {Use(body(q), n, <<"import", n>>) : n \in IF runtime.sql THEN {"sql"} ELSE {"query", "xerrors"}}
             \cup {Use(body(q), n, <<"builtin", n>>)
                     : n \in {"error", "nil"} \cup IF a.queries[q].command = ":many" THEN {"append"} ELSE {}}
             \cup (IF runtime.exported
                     THEN {Use(body(q), GoConstant(a.queries[q].name), <<"text", q>>)} ELSE {})
             \cup {Use(body(q), GoArgument(a.queries[q], p, runtime),
                       IF GoParamsStruct(a.queries[q], runtime) THEN <<"params", q>> ELSE <<"parameter", p>>)
                     : p \in DOMAIN a.queries[q].parameters}
             : q \in DOMAIN a.queries}

\* resultFieldPath: a column is scanned into the field of its own name, in the
\* row or in the struct of the table that covers it.
GoInto(q, field) ==
  CHOOSE i \in DOMAIN q.columns : Covering(q, i) = {} /\ GoName(q.columns[i].name) = GoName(field.name)
GoWithin(q, e, column) == CHOOSE i \in e.from .. e.to : GoName(q.columns[i].name) = GoName(column.name)
GoEmbed(q, field) == CHOOSE e \in ToSet(q.embeds) : GoName(e.field) = GoName(field.name)

GoNested(a, q, e) ==
  LET columns == a.tables[e.table].columns
  IN  <<"table", e.table, [j \in DOMAIN columns |-> GoWithin(q, e, columns[j])]>>
GoRowValues(a, q) ==
  LET fields == RowColumns(q)
  IN  [k \in DOMAIN fields |->
         IF fields[k].holds[1] = "column" THEN <<"column", GoInto(q, fields[k])>>
         ELSE GoNested(a, q, GoEmbed(q, fields[k]))]

\* Generate: the SDK finds columns by name, database/sql by position; both
\* send parameters under their names.
Go(a, runtime) ==
  IF ~GoAccepts(a, runtime) THEN Refused
  ELSE Program(GoDecls(a, runtime), GoUses(a, runtime),
               UNION {LET q == a.queries[n]
                          values == GoRowValues(a, q)
                      IN  RowPairs(a, q, IF runtime.sql THEN values ELSE ByResultName(q, values))
                      : n \in Rows(a)},
               UNION {BoundByName(a.queries[q], q) : q \in DOMAIN a.queries})

=============================================================================
