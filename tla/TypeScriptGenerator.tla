------------------------- MODULE TypeScriptGenerator -------------------------
(***************************************************************************)
(* internal/codegen/typescript: one module with the types of embedded      *)
(* tables, items, parameters and rows, and the class Queries.  Rows keep   *)
(* the names of the result columns.                                        *)
(***************************************************************************)
EXTENDS Rendering

TsValueClass ==
  [Bool |-> "Bool", Int8 |-> "Int8", Uint8 |-> "Uint8", Int16 |-> "Int16", Uint16 |-> "Uint16",
   Int32 |-> "Int32", Uint32 |-> "Uint32", Int64 |-> "Int64", Uint64 |-> "Uint64",
   Float |-> "Float", Double |-> "Double", Utf8 |-> "Utf8", String |-> "Bytes",
   Json |-> "Json", JsonDocument |-> "JsonDocument", Timestamp |-> "Timestamp"]

\* The reserved words among those that names are made of here.
TsReserved == {"constructor", "configure", "structList", "sql", "stmt", "rows", "row", "args",
               "in", "for", "new"}

\* identifier: words cut before a capital, the rest of each kept as it is.
TsWords(n) == Words(n, AtHump)
TsExported(n) == Join([w \in DOMAIN TsWords(n) |-> CapitalWord(TsWords(n)[w])])
TsIdentifier(n) ==
  Escape(Join([w \in DOMAIN TsWords(n) |->
                 IF w = 1 THEN SmallWord(TsWords(n)[w]) ELSE CapitalWord(TsWords(n)[w])]),
         TsReserved)

TsItem(a, i) ==
  TsExported(a.queries[i[1]].name) \o TsExported(a.queries[i[1]].parameters[i[2]].name) \o "Item"
\* The embeddings of all results.
TsEmbeds(a) == UNION {ToSet(a.queries[q].embeds) : q \in Rows(a)}

TypeScriptAccepts(a) ==
  LET valid(n) == ~FirstIsDigit(n)
      names(fields) == {<<TsIdentifier(fields[i].name), i>> : i \in DOMAIN fields}
      typed(fields) == \A i \in DOMAIN fields :
                         valid(fields[i].name) /\ fields[i].kind \in DOMAIN TsValueClass
      exported(q) == TsExported(q.name)
      items == {<<TsItem(a, i), i>> : i \in Items(a)}
      models == {<<TsExported(e.field), e.table>> : e \in TsEmbeds(a)}
      taken == {"ConfigureQuery", "Queries"} \cup {x[1] : x \in items}
               \cup UNION {{exported(q) \o "Row", exported(q) \o "WireRow"}
                           \cup (IF Len(q.parameters) > 1 THEN {exported(q) \o "Params"} ELSE {})
                           : q \in ToSet(a.queries)}
  IN  /\ Distinct(items) /\ Distinct(models)
      /\ \A m \in models : m[1] \notin taken
      /\ Distinct({<<TsIdentifier(a.queries[q].name), q>> : q \in DOMAIN a.queries})
      /\ \A i \in Items(a) : LET fields == a.queries[i[1]].parameters[i[2]].fields
                             IN  Distinct(names(fields)) /\ typed(fields)
      /\ \A q \in ToSet(a.queries) :
           /\ q.command \in {":one", ":many", ":exec"} /\ valid(q.name)
           /\ Distinct(names(q.parameters)) /\ \A p \in ToSet(q.parameters) : valid(p.name)
           /\ typed(SelectSeq(q.parameters, LAMBDA p: ~IsStructList(p)))
           /\ Reads(q) =>
                /\ EmbedsMatch(a, q) /\ \A e \in ToSet(q.embeds) : valid(e.field)
                /\ Distinct({<<ResultName(q.columns[i]), i>> : i \in DOMAIN q.columns})
                /\ \A i \in DOMAIN q.columns : q.columns[i].kind \in DOMAIN TsValueClass
                /\ LET fields == RowColumns(q)
                   IN  Distinct({<<Raw(fields[i].name), i>> : i \in DOMAIN fields})

\* renderTypeScript: the value classes it imports, and the list helpers.
TsImports(a) ==
  LET sent == UNION {UNION {IF IsStructList(p) THEN ToSet(p.fields) ELSE {p}
                              : p \in ToSet(q.parameters)} : q \in ToSet(a.queries)}
      batch == Items(a) # {}
      optional == \E f \in sent : f.optional
  IN  {"Query", "SQL"} \cup {TsValueClass[f.kind] : f \in sent}
      \cup {TsValueClass[f.kind] \o "Type" : f \in {f \in sent : f.optional \/ batch}}
      \cup (IF batch THEN {"List", "ListType", "Struct", "StructType", "Value"} ELSE {})
      \cup (IF optional THEN {"Optional"} ELSE {})
      \cup (IF optional /\ batch THEN {"OptionalType"} ELSE {})

TypeScriptDecls(a) ==
  LET exported(q) == TsExported(a.queries[q].name)
      several == {q \in DOMAIN a.queries : Len(a.queries[q].parameters) > 1}
  IN  {Declare(<<"module">>, n, <<"import", n>>) : n \in TsImports(a)}
      \cup {Declare(<<"module">>, n, <<"own", n>>)
              : n \in {"ConfigureQuery", "Queries"} \cup IF Items(a) = {} THEN {} ELSE {"structList"}}
      \cup {Declare(<<"module">>, TsExported(e.field), <<"table", e.table>>) : e \in TsEmbeds(a)}
      \cup {Declare(<<"module">>, TsItem(a, i), <<"item", i>>) : i \in Items(a)}
      \cup {Declare(<<"module">>, exported(q) \o "Params", <<"params", q>>) : q \in several}
      \cup {Declare(<<"module">>, exported(q) \o "Row", <<"row", q>>) : q \in Rows(a)}
      \cup {Declare(<<"module">>, exported(q) \o "WireRow", <<"wire", q>>)
              : q \in {q \in Rows(a) : a.queries[q].embeds # <<>>}}
      \cup {Declare(<<"members">>, TsIdentifier(a.queries[q].name), <<"method", q>>) : q \in DOMAIN a.queries}
      \cup {Declare(<<"members">>, "constructor", <<"own", "constructor">>)}
      \cup UNION {{Declare(<<"row", q>>, Raw(RowColumns(a.queries[q])[k].name), <<"field", k>>)
                    : k \in DOMAIN RowColumns(a.queries[q])} : q \in Rows(a)}
      \cup UNION {{Declare(<<IF q \in several THEN "params" ELSE "body", q>>,
                           TsIdentifier(a.queries[q].parameters[p].name), <<"parameter", p>>)
                    : p \in DOMAIN a.queries[q].parameters} : q \in DOMAIN a.queries}
      \cup UNION {{Declare(<<"body", q>>, n, <<"local", n>>)
                    : n \in {"configure", "stmt"} \cup (IF q \in several THEN {"args"} ELSE {})
                            \cup (IF q \in Rows(a) THEN {"rows"} ELSE {})} : q \in DOMAIN a.queries}

\* renderMethod and bindExpression.
TypeScriptUses(a) ==
  LET body(q) == << <<"body", q>>, <<"module">> >>
      one(q) == Len(a.queries[q].parameters) = 1
  IN  {Use(<< <<"module">> >>, n, <<"import", n>>) : n \in TsImports(a)}
      \cup {Use(<< <<"module">> >>, TsExported(e.field), <<"table", e.table>>) : e \in TsEmbeds(a)}
      \cup {Use(<< <<"module">> >>, TsExported(a.queries[q].name) \o "Row", <<"row", q>>) : q \in Rows(a)}
      \cup UNION {{Use(body(q), n, <<"local", n>>) : n \in {"configure", "stmt"}}
                  \cup {Use(IF one(q) THEN body(q) ELSE << <<"params", q>> >>,
                            TsIdentifier(a.queries[q].parameters[p].name), <<"parameter", p>>)
                          : p \in DOMAIN a.queries[q].parameters}
                  : q \in DOMAIN a.queries}
      \cup {Use(body(i[1]), "structList", <<"own", "structList">>) : i \in Items(a)}

TypeScript(a) ==
  IF ~TypeScriptAccepts(a) THEN Refused
  ELSE Program(TypeScriptDecls(a), TypeScriptUses(a),
               UNION {RowPairs(a, a.queries[q], ByResultName(a.queries[q], ValuesInOrder(a.queries[q])))
                      : q \in Rows(a)},
               UNION {BoundByName(a.queries[q], q) : q \in DOMAIN a.queries})

=============================================================================
