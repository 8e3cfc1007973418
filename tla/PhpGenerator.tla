---------------------------- MODULE PhpGenerator ----------------------------
(***************************************************************************)
(* internal/codegen/php: read-only classes for tables, rows, items and     *)
(* parameters, one file each, and the class Queries.  PHP compares class   *)
(* and method names without regard to case, so these are kept in lower     *)
(* case here.                                                              *)
(***************************************************************************)
EXTENDS Rendering

PhpScalars ==
  {"Bool", "Int8", "Uint8", "Int16", "Uint16", "Int32", "Uint32", "Int64", "Uint64",
   "Float", "Double", "Utf8", "String", "Json", "JsonDocument", "Timestamp"}

\* words: cut at anything that is no letter or digit, and before a capital
\* that follows a small letter.
PhpWords(n) == Words(n, AtHump)
PhpPascal(n) == Join([w \in DOMAIN PhpWords(n) |-> TitleWord(PhpWords(n)[w])])
PhpCamel(n) ==
  Join([w \in DOMAIN PhpWords(n) |->
          IF w = 1 THEN LowWord(PhpWords(n)[w]) ELSE TitleWord(PhpWords(n)[w])])

\* The reserved words among those that names are made of here.
PhpReserved == {"list", "for", "new", "match"}

PhpClasses ==
  {"queries", "ydbruntime", "ydbrawexecutor", "ydbvaluecodec", "retryparams", "table",
   "session", "transactioncontrol", "ydbquery", "executequeryresult"}
PhpMethods == {"__construct", "decoderows", "withtx", "execute"}

\* validateFieldNames and validateFields.
PhpFieldNames(fields) ==
  /\ \A i \in DOMAIN fields : ~FirstIsDigit(fields[i].name) /\ PhpCamel(fields[i].name) # "this"
  /\ Distinct({<<Folded(fields[i].name), i>> : i \in DOMAIN fields})
PhpTyped(fields) == \A i \in DOMAIN fields : fields[i].kind \in PhpScalars

PhpAccepts(a) ==
  LET base(q) == Folded(a.queries[q].name)
      named(i) == a.queries[i[1]].parameters[i[2]]
      valid(n) == ~FirstIsDigit(n) /\ Folded(n) \notin PhpReserved
  IN  /\ Distinct(
           {<<n, <<"predeclared", n>>>> : n \in PhpClasses}
           \cup {<<Folded(a.tables[t].name), <<"table", t>>>> : t \in DOMAIN a.tables}
           \cup {<<base(i[1]) \o Folded(named(i).name) \o "item", <<"item", i[1], i[2]>>>> : i \in Items(a)}
           \cup {<<base(q) \o "params", <<"params", q>>>>
                   : q \in {q \in DOMAIN a.queries : Len(a.queries[q].parameters) > 1}}
           \cup {<<base(q) \o "row", <<"row", q>>>> : q \in Rows(a)})
      /\ Distinct({<<n, 0>> : n \in PhpMethods} \cup {<<base(q), q>> : q \in DOMAIN a.queries})
      /\ \A t \in ToSet(a.tables) :
           valid(t.name) /\ PhpFieldNames(t.columns) /\ PhpTyped(t.columns)
      /\ \A i \in Items(a) : PhpFieldNames(named(i).fields) /\ PhpTyped(named(i).fields)
      /\ \A q \in ToSet(a.queries) :
           /\ valid(q.name) /\ q.command \in {":one", ":many", ":exec"}
           /\ PhpFieldNames(q.parameters)
           /\ PhpTyped(SelectSeq(q.parameters, LAMBDA p: ~IsStructList(p)))
           /\ Reads(q) => PhpFieldNames(RowColumns(q)) /\ PhpTyped(q.columns) /\ EmbedsMatch(a, q)

\* Generate and renderDTO: one class for each table, item, set of two or more
\* parameters and row.
PhpRecords(a) ==
  {[name |-> Folded(a.tables[t].name), what |-> <<"table", t>>, fields |-> a.tables[t].columns]
     : t \in DOMAIN a.tables}
  \cup {[name |-> Folded(a.queries[i[1]].name) \o Folded(a.queries[i[1]].parameters[i[2]].name) \o "item",
         what |-> <<"item", i[1], i[2]>>, fields |-> a.queries[i[1]].parameters[i[2]].fields]
          : i \in Items(a)}
  \cup {[name |-> Folded(a.queries[q].name) \o "params", what |-> <<"params", q>>,
         fields |-> a.queries[q].parameters]
          : q \in {q \in DOMAIN a.queries : Len(a.queries[q].parameters) > 1}}
  \cup {[name |-> Folded(a.queries[q].name) \o "row", what |-> <<"row", q>>,
         fields |-> RowColumns(a.queries[q])] : q \in Rows(a)}

\* renderQueries: the imports and members of Queries.php.
PhpDecls(a) ==
  {Declare(<<"imports">>, n, <<"sdk", n>>)
     : n \in {"closure", "unexpectedvalueexception", "executequeryresult", "transactioncontrol",
              "primitivetypeid", "retryparams", "session", "table"}}
  \cup {Declare(<<"namespace">>, n, <<"runtime", n>>) : n \in {"queries", "ydbrawexecutor", "ydbvaluecodec"}}
  \cup {Declare(<<"namespace">>, r.name, r.what) : r \in PhpRecords(a)}
  \cup UNION {{Declare(r.what, PhpCamel(r.fields[i].name), <<"field", i>>) : i \in DOMAIN r.fields}
              : r \in PhpRecords(a)}
  \cup {Declare(<<"methods">>, n, <<"member", n>>) : n \in PhpMethods}
  \cup {Declare(<<"methods">>, Folded(a.queries[q].name), <<"query", q>>) : q \in DOMAIN a.queries}
  \cup {Declare(<<"arguments", q>>, PhpCamel(a.queries[q].parameters[1].name), <<"field", 1>>)
          : q \in {q \in DOMAIN a.queries : Len(a.queries[q].parameters) = 1}}

\* renderMethod: the classes, members and values that a method names.
PhpUses(a) ==
  LET inQueries == << <<"imports">>, <<"namespace">> >>
      embedded == {e.table : e \in UNION {ToSet(a.queries[q].embeds) : q \in Rows(a)}}
      holder(q) == IF Len(a.queries[q].parameters) = 1 THEN <<"arguments", q>> ELSE <<"params", q>>
  IN  {Use(inQueries, r.name, r.what)
         : r \in {r \in PhpRecords(a) : r.what[1] # "table" \/ r.what[2] \in embedded}}
      \cup {Use(inQueries, n, <<"runtime", n>>) : n \in {"ydbrawexecutor", "ydbvaluecodec"}}
      \cup {Use(inQueries, n, <<"sdk", n>>) : n \in {"session", "table", "retryparams", "executequeryresult"}}
      \cup {Use(<< <<"methods">> >>, n, <<"member", n>>) : n \in {"execute", "decoderows"}}
      \cup UNION {{Use(<<holder(q)>>, PhpCamel(a.queries[q].parameters[p].name), <<"field", p>>)
                    : p \in DOMAIN a.queries[q].parameters} : q \in DOMAIN a.queries}
      \cup UNION {{Use(<<i>>, PhpCamel(a.queries[i[2]].parameters[i[3]].fields[f].name), <<"field", f>>)
                    : f \in DOMAIN a.queries[i[2]].parameters[i[3]].fields}
                  : i \in {<<"item", j[1], j[2]>> : j \in Items(a)}}

Php(a) ==
  IF ~PhpAccepts(a) THEN Refused
  ELSE Program(PhpDecls(a), PhpUses(a),
               UNION {RowPairs(a, a.queries[q], ValuesInOrder(a.queries[q])) : q \in Rows(a)},
               UNION {BoundByName(a.queries[q], q) : q \in DOMAIN a.queries})

=============================================================================
