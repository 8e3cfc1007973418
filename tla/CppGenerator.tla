---------------------------- MODULE CppGenerator ----------------------------
(***************************************************************************)
(* internal/codegen/cpp: models.hpp with the structs of embedded tables,   *)
(* items and rows; the class Queries for the YDB SDK or userver.  Names    *)
(* are used as they are written; its own locals begin with sqlc_.          *)
(***************************************************************************)
EXTENDS Rendering

\* typeInfo, by runtime.
CppScalars(runtime) ==
  {"Bool", "Int8", "Uint8", "Int16", "Uint16", "Int32", "Uint32", "Int64", "Uint64", "Double",
   "Timestamp", "Json", "String", "Utf8"} \cup IF runtime = "userver" THEN {} ELSE {"Float"}

\* validateIdent; the keywords among the names made here.
CppIdentifier(n) ==
  /\ ~FirstIsDigit(n) /\ \A k \in DOMAIN n : n[k].sep \in {"", "_"}
  /\ Raw(n) \notin {"for", "new", "this"}

CppMembers ==
  {"Queries", "client_", "transaction_", "retry_settings_", "tx_settings_", "execute_settings_",
   "operation_settings_"}

CppRow(q) == Raw(q.name) \o "Row"
CppEmbedded(e) == Join([k \in DOMAIN e.field |-> e.field[k].sep \o
                                                 IF k = 1 THEN Capital(e.field[k]) ELSE Keep(e.field[k])])
CppItem(a, i) ==
  LET n == a.queries[i[1]].parameters[i[2]].name
  IN  Raw(a.queries[i[1]].name)
      \o Join([k \in DOMAIN n |-> IF k = 1 \/ AtSeparator(n, k) THEN Capital(n[k]) ELSE Keep(n[k])])
      \o "Item"
\* The embeddings of all results, and how a row reads its columns.
CppEmbeds(a) == UNION {ToSet(a.queries[q].embeds) : q \in DOMAIN a.queries}

CppAccepts(a, runtime) ==
  LET types == {<<CppRow(a.queries[q]), <<"row", q>>>> : q \in Rows(a)}
               \cup {<<CppEmbedded(e), <<"table", e.table>>>> : e \in CppEmbeds(a)}
               \cup {<<CppItem(a, i), <<"item", i[1], i[2]>>>> : i \in Items(a)}
      valid(fields, owner) ==
        /\ \A i \in DOMAIN fields : CppIdentifier(fields[i].name) /\ Raw(fields[i].name) # owner
        /\ Distinct({<<Raw(fields[i].name), i>> : i \in DOMAIN fields})
      typed(fields) == \A i \in DOMAIN fields : fields[i].kind \in CppScalars(runtime)
  IN  /\ Distinct(types)
      /\ \A e \in CppEmbeds(a) : CppIdentifier(e.field)
      /\ Distinct({<<Raw(a.queries[q].name), q>> : q \in DOMAIN a.queries})
      /\ \A i \in Items(a) :
           LET fields == a.queries[i[1]].parameters[i[2]].fields
           IN  /\ valid(fields, CppItem(a, i)) /\ typed(fields)
               /\ \A f \in ToSet(fields) : runtime = "userver" => Raw(f.name) # "kYdbMemberNames"
      /\ \A q \in ToSet(a.queries) :
           LET owner == IF Reads(q) THEN CppRow(q) ELSE ""
           IN  /\ CppIdentifier(q.name) /\ Raw(q.name) \notin CppMembers \cup {t[1] : t \in types}
               /\ q.command \in {":one", ":many", ":exec"}
               /\ valid(q.parameters, owner)
               /\ typed(SelectSeq(q.parameters, LAMBDA p: ~IsStructList(p)))
               /\ \A c \in ToSet(q.columns) : CppIdentifier(c.name)
               /\ typed(q.columns) /\ valid(RowColumns(q), owner)

\* renderModels, and the class of renderHeader and its method bodies.
CppDecls(a, runtime) ==
  LET fields(what, columns) ==
        {Declare(what, Raw(columns[i].name), <<"field", i>>) : i \in DOMAIN columns}
      parameters(q) == a.queries[q].parameters
  IN  {Declare(<<"namespace">>, CppEmbedded(e), <<"table", e.table>>) : e \in CppEmbeds(a)}
      \cup UNION {fields(<<"table", e.table>>, a.tables[e.table].columns) : e \in CppEmbeds(a)}
      \cup {Declare(<<"namespace">>, CppItem(a, i), <<"item", i>>) : i \in Items(a)}
      \cup UNION {fields(<<"item", i>>, parameters(i[1])[i[2]].fields) : i \in Items(a)}
      \cup (IF runtime = "userver"
              THEN {Declare(<<"item", i>>, "kYdbMemberNames", <<"names">>) : i \in Items(a)}
              ELSE {Declare(<<"namespace">>, "sqlc_bind_" \o CppItem(a, i), <<"bind", i>>) : i \in Items(a)})
      \cup {Declare(<<"namespace">>, CppRow(a.queries[q]), <<"row", q>>) : q \in Rows(a)}
      \cup UNION {fields(<<"row", q>>, RowColumns(a.queries[q])) : q \in Rows(a)}
      \cup {Declare(<<"namespace">>, "Queries", <<"own", "Queries">>)}
      \cup {Declare(<<"class">>, n, <<"own", n>>) : n \in {"Queries", "client_", "transaction_"}}
      \cup {Declare(<<"class">>, Raw(a.queries[q].name), <<"method", q>>) : q \in DOMAIN a.queries}
      \cup UNION {{Declare(<<"body", q>>, Raw(parameters(q)[p].name), <<"parameter", p>>)
                    : p \in DOMAIN parameters(q)} : q \in DOMAIN a.queries}
      \cup UNION {{Declare(<<"body", q>>, n, <<"local", n>>) : n \in {"sqlc_query", "sqlc_row", "sqlc_rows"}}
                  : q \in DOMAIN a.queries}

\* renderNativeMethod and renderUserverMethod.
CppUses(a, runtime) ==
  LET inClass == << <<"class">>, <<"namespace">> >>
      inBody(q) == << <<"body", q>>, <<"class">>, <<"namespace">> >>
  IN  {Use(inBody(q), CppRow(a.queries[q]), <<"row", q>>) : q \in Rows(a)}
      \cup UNION {{Use(<< <<"row", q>>, <<"namespace">> >>, CppEmbedded(e), <<"table", e.table>>)
                    : e \in ToSet(a.queries[q].embeds)} : q \in Rows(a)}
      \cup {Use(inClass, CppItem(a, i), <<"item", i>>) : i \in Items(a)}
      \cup (IF runtime = "userver" THEN {}
            ELSE {Use(inBody(i[1]), "sqlc_bind_" \o CppItem(a, i), <<"bind", i>>) : i \in Items(a)})
      \cup UNION {{Use(inBody(q), Raw(a.queries[q].parameters[p].name), <<"parameter", p>>)
                    : p \in DOMAIN a.queries[q].parameters} : q \in DOMAIN a.queries}
      \cup {Use(<< <<"class">> >>, n, <<"own", n>>) : n \in {"client_", "transaction_"}}

\* writeDecodedRow, whose readers find columns by their result names.
Cpp(a, runtime) ==
  IF ~CppAccepts(a, runtime) THEN Refused
  ELSE Program(CppDecls(a, runtime), CppUses(a, runtime),
               UNION {RowPairs(a, a.queries[q], ByResultName(a.queries[q], ValuesCovered(a.queries[q])))
                      : q \in Rows(a)},
               UNION {BoundByName(a.queries[q], q) : q \in DOMAIN a.queries})

=============================================================================
