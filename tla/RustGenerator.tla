---------------------------- MODULE RustGenerator ----------------------------
(***************************************************************************)
(* internal/codegen/rust: models.rs with the structs of embedded tables,   *)
(* items and rows; queries.rs, which imports them all, with Queries.       *)
(***************************************************************************)
EXTENDS Rendering

RustScalars ==
  {"Bool", "Int8", "Int16", "Int32", "Int64", "Uint8", "Uint16", "Uint32", "Uint64", "Float",
   "Double", "Utf8", "Json", "JsonDocument", "String", "Yson", "Timestamp", "Timestamp64",
   "Date", "Date32", "Datetime", "Datetime64"}
\* The keywords among the names made here.
RustKeywords == {"self", "in", "for", "box", "type"}

RustWords(n) == Words(n, AtHumpOrAcronym)
RustSnake(n) == Snake(RustWords(n))
RustPascal(n) == Join([w \in DOMAIN RustWords(n) |-> TitleWord(RustWords(n)[w])])

\* A query's function leaves out the word get before others.
RustFunction(n) ==
  LET ws == RustWords(n)
  IN  IF Len(ws) > 1 /\ LowWord(ws[1]) = "get" THEN Snake(Tail(ws)) ELSE Snake(ws)

RustItem(a, i) ==
  RustPascal(a.queries[i[1]].name) \o RustPascal(a.queries[i[1]].parameters[i[2]].name) \o "Item"
RustItemType(a, i) ==
  RustSnake(a.queries[i[1]].name) \o "_" \o RustSnake(a.queries[i[1]].parameters[i[2]].name)
    \o "_item_type"

RustAccepts(a) ==
  LET valid(n) == ~FirstIsDigit(n) /\ RustSnake(n) \notin RustKeywords
      names(fields) == {<<RustSnake(fields[i].name), i>> : i \in DOMAIN fields}
      typed(fields) == \A i \in DOMAIN fields : fields[i].kind \in RustScalars
      parameters(q) == SelectSeq(a.queries[q].parameters, LAMBDA p: ~IsStructList(p))
      struct(i) == a.queries[i[1]].parameters[i[2]].fields
      function(q) == RustFunction(a.queries[q].name)
  IN  /\ Distinct({<<function(q), q>> : q \in DOMAIN a.queries})
      /\ \A q \in DOMAIN a.queries : function(q) \notin {"new"} \cup RustKeywords
      /\ Distinct(
           {<<RustPascal(a.queries[q].name) \o "Row", <<"row", q>>>> : q \in DOMAIN a.queries}
           \cup {<<RustItem(a, i), <<"item", i[1], i[2]>>>> : i \in Items(a)}
           \cup UNION {{<<RustPascal(e.field), <<"table", e.table>>>> : e \in ToSet(a.queries[q].embeds)}
                       : q \in DOMAIN a.queries})
      /\ \A i \in Items(a) : Distinct(names(struct(i))) /\ typed(struct(i))
                             /\ \A f \in ToSet(struct(i)) : valid(f.name)
      /\ \A q \in DOMAIN a.queries :
           LET query == a.queries[q]
           IN  /\ query.command \in {":one", ":many", ":exec"} /\ ~FirstIsDigit(query.name)
               /\ \A p \in ToSet(query.parameters) : valid(p.name)
               /\ Distinct(names(query.parameters)) /\ typed(parameters(q))
               /\ \A c \in ToSet(query.columns) : valid(c.name)
               /\ \A e \in ToSet(query.embeds) : valid(e.field)
               /\ typed(query.columns) /\ Distinct(names(RowColumns(query)))

\* renderModels, and what renderQueries adds to it.
RustDecls(a) ==
  LET embedded == UNION {ToSet(a.queries[q].embeds) : q \in DOMAIN a.queries}
      fields(what, columns) ==
        {Declare(what, RustSnake(columns[i].name), <<"field", i>>) : i \in DOMAIN columns}
  IN  {Declare(<<"prelude">>, n, <<"std", n>>) : n \in {"String", "Vec", "Option"}}
      \cup {Declare(<<"models">>, RustPascal(e.field), <<"table", e.table>>) : e \in embedded}
      \cup UNION {fields(<<"table", e.table>>, a.tables[e.table].columns) : e \in embedded}
      \cup {Declare(<<"models">>, RustItem(a, i), <<"item", i>>) : i \in Items(a)}
      \cup UNION {fields(<<"item", i>>, a.queries[i[1]].parameters[i[2]].fields) : i \in Items(a)}
      \cup {Declare(<<"models">>, RustPascal(a.queries[q].name) \o "Row", <<"row", q>>) : q \in Rows(a)}
      \cup UNION {fields(<<"row", q>>, RowColumns(a.queries[q])) : q \in Rows(a)}
      \cup {Declare(<<"queries">>, "Queries", <<"own", "Queries">>)}
      \cup {Declare(<<"functions">>, RustItemType(a, i), <<"item", i>>) : i \in Items(a)}
      \cup {Declare(<<"members">>, "new", <<"own", "new">>)}
      \cup {Declare(<<"members">>, RustFunction(a.queries[q].name), <<"method", q>>) : q \in DOMAIN a.queries}
      \cup UNION {{Declare(<<"body", q>>, RustSnake(a.queries[q].parameters[p].name), <<"parameter", p>>)
                    : p \in DOMAIN a.queries[q].parameters} : q \in DOMAIN a.queries}
      \cup {Declare(<<"body", q>>, "self", <<"own", "self">>) : q \in DOMAIN a.queries}

\* renderMethod and renderStructBinding.
RustUses(a) ==
  LET types == << <<"queries">>, <<"models">>, <<"prelude">> >>
      embedded == UNION {ToSet(a.queries[q].embeds) : q \in Rows(a)}
  IN  {Use(types, RustPascal(e.field), <<"table", e.table>>) : e \in embedded}
      \cup {Use(types, RustPascal(a.queries[q].name) \o "Row", <<"row", q>>) : q \in Rows(a)}
      \cup {Use(types, RustItem(a, i), <<"item", i>>) : i \in Items(a)}
      \cup {Use(<< <<"functions">> >>, RustItemType(a, i), <<"item", i>>) : i \in Items(a)}
      \cup {Use(types, n, <<"std", n>>) : n \in {"String", "Vec", "Option"}}
      \cup {Use(types, "Queries", <<"own", "Queries">>)}
      \cup UNION {{Use(<< <<"body", q>> >>, RustSnake(a.queries[q].parameters[p].name), <<"parameter", p>>)
                    : p \in DOMAIN a.queries[q].parameters}
                  \cup {Use(<< <<"body", q>> >>, "self", <<"own", "self">>)} : q \in DOMAIN a.queries}

\* renderRow: each field takes the column at its position.
RustRowValues(q) == ValuesCovered(q)

Rust(a) ==
  IF ~RustAccepts(a) THEN Refused
  ELSE Program(RustDecls(a), RustUses(a),
               UNION {RowPairs(a, a.queries[q], RustRowValues(a.queries[q])) : q \in Rows(a)},
               UNION {BoundByName(a.queries[q], q) : q \in DOMAIN a.queries})

=============================================================================
