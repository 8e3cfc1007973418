--------------------------- MODULE CSharpGenerator ---------------------------
(***************************************************************************)
(* internal/codegen/csharp: records for tables, rows, items and parameters *)
(* in Models.cs and the class Queries for ADO.NET or Dapper.               *)
(***************************************************************************)
EXTENDS Rendering

CSharpScalars ==
  [Bool |-> "bool", Int8 |-> "sbyte", Int16 |-> "short", Int32 |-> "int", Int64 |-> "long",
   Uint8 |-> "byte", Uint16 |-> "ushort", Uint32 |-> "uint", Uint64 |-> "ulong",
   Float |-> "float", Double |-> "double", Utf8 |-> "string", String |-> "byte[]",
   Uuid |-> "Guid", Json |-> "string", Timestamp |-> "DateTime"]

\* csName: each part capitalised and otherwise kept, except that id is ID.
CsParts(n) == Words(n, AtSeparator)
CsPiece(part, j) ==
  IF LowWord(part) = "id" THEN Spelling[part[j].word].upper
  ELSE IF j = 1 THEN Capital(part[j]) ELSE Keep(part[j])
CsWord(part) == Join([j \in DOMAIN part |-> CsPiece(part, j)])
CsName(n) ==
  (IF FirstIsDigit(n) THEN "Value" ELSE "") \o
  Join([k \in DOMAIN CsParts(n) |-> CsWord(CsParts(n)[k])])

\* localParameterName: the first letter small, a final ID written Id, and a
\* suffix for the names of the locals.
CsLocalPiece(text, w, first, last) ==
  CASE last /\ text = "ID" -> IF first THEN w.lower ELSE w.title
    [] OTHER -> IF ~first THEN text ELSE IF text = w.upper THEN w.small ELSE w.lower
CsReserve(text) ==
  IF text \in {"command", "reader", "rows", "row", "cancellationToken", "commandTimeout",
               "parameters", "args"} THEN text \o "Value"
  ELSE IF text \in {"in", "is", "for", "new"} THEN "@" \o text ELSE text
CsLocal(n) ==
  LET parts == CsParts(n)
      piece(k, j) ==
        CsLocalPiece(CsPiece(parts[k], j), Spelling[parts[k][j].word],
                     k = 1 /\ j = 1 /\ ~FirstIsDigit(n), k = Len(parts) /\ j = Len(parts[k]))
  IN  CsReserve((IF FirstIsDigit(n) THEN "value" ELSE "") \o
                Join([k \in DOMAIN parts |-> Join([j \in DOMAIN parts[k] |-> piece(k, j)])]))

CsFrameworkTypes(runtime) ==
  {"Guid", "DateTime", "DateTimeKind", "Task", "CancellationToken", "List", "IReadOnlyList",
   "DbType", "DBNull", "DbDataReader", "ArgumentException", "ArgumentNullException",
   "InvalidOperationException", "YdbConnection", "YdbTransaction", "YdbCommand",
   "YdbParameter", "YdbValue", "YdbTypeId"}
  \cup IF runtime = "adonet" THEN {}
       ELSE {"CommandDefinition", "SqlMapper", "DefaultTypeMap", "Type", "ConstructorInfo",
             "Dictionary", "IReadOnlyDictionary"}
CsRecordMembers ==
  {"Clone", "Deconstruct", "EqualityContract", "PrintMembers", "Equals", "GetHashCode",
   "ToString", "GetType", "MemberwiseClone", "Finalize", "ReferenceEquals"}

CsItem(a, i) ==
  CsName(a.queries[i[1]].name) \o CsName(a.queries[i[1]].parameters[i[2]].name) \o "Item"
CsManyParameters(a) == {q \in DOMAIN a.queries : Len(a.queries[q].parameters) > 1}

\* renderModels.
CsRecords(a) ==
  {[name |-> CsName(a.tables[t].name), what |-> <<"table", t>>, fields |-> a.tables[t].columns]
     : t \in DOMAIN a.tables}
  \cup {[name |-> CsItem(a, i), what |-> <<"item", i[1], i[2]>>,
         fields |-> a.queries[i[1]].parameters[i[2]].fields] : i \in Items(a)}
  \cup {[name |-> CsName(a.queries[q].name) \o "Params", what |-> <<"params", q>>,
         fields |-> a.queries[q].parameters] : q \in CsManyParameters(a)}
  \cup {[name |-> CsName(a.queries[q].name) \o "Row", what |-> <<"row", q>>,
         fields |-> RowColumns(a.queries[q])] : q \in Rows(a)}

\* Fault: only the names of the members among themselves are compared.
CsFieldNamesOnly(record, fields) ==
  Distinct({<<CsName(fields[i].name), i>> : i \in DOMAIN fields})

\* fieldNames.
CsFieldNames(record, fields) ==
  /\ Distinct({<<CsName(fields[i].name), i>> : i \in DOMAIN fields})
  /\ \A i \in DOMAIN fields : CsName(fields[i].name) \notin {record} \cup CsRecordMembers
CsTyped(fields) == \A i \in DOMAIN fields : fields[i].kind \in DOMAIN CSharpScalars

CSharpAccepts(a, runtime) ==
  LET name(q) == CsName(a.queries[q].name)
      named(i) == a.queries[i[1]].parameters[i[2]]
      plain(n) == ~FirstIsDigit(n) /\ \A k \in DOMAIN n : n[k].sep \in {"", "_"}
  IN  /\ Distinct(
           {<<n, <<"predeclared", n>>>> : n \in {"Queries"} \cup CsFrameworkTypes(runtime)}
           \cup {<<CsName(a.tables[t].name), <<"table", t>>>> : t \in DOMAIN a.tables}
           \cup {<<CsItem(a, i), <<"item", i[1], i[2]>>>> : i \in Items(a)}
           \cup {<<name(q) \o "Params", <<"params", q>>>> : q \in CsManyParameters(a)}
           \cup {<<name(q) \o "Row", <<"row", q>>>> : q \in Rows(a)}
           \cup {<<name(q) \o "WireRow", <<"wire", q>>>>
                   : q \in {q \in Rows(a) : runtime = "dapper" /\ a.queries[q].embeds # <<>>}})
      /\ Distinct({<<name(q) \o "Async", q>> : q \in DOMAIN a.queries})
      /\ \A t \in ToSet(a.tables) : CsFieldNames(CsName(t.name), t.columns) /\ CsTyped(t.columns)
      /\ \A i \in Items(a) : CsFieldNames(CsItem(a, i), named(i).fields) /\ CsTyped(named(i).fields)
      /\ \A q \in DOMAIN a.queries :
           LET query == a.queries[q]
           IN  /\ plain(query.name) /\ query.command \in {":one", ":many", ":exec"}
               /\ Raw(query.name) \notin {"in", "is", "for", "new"}
               /\ Distinct({<<CsName(query.parameters[p].name), p>> : p \in DOMAIN query.parameters})
               /\ CsTyped(SelectSeq(query.parameters, LAMBDA p: ~IsStructList(p)))
               /\ q \in CsManyParameters(a) => CsFieldNames(name(q) \o "Params", query.parameters)
               /\ Reads(query) => /\ CsFieldNames(name(q) \o "Row", RowColumns(query))
                                  /\ CsTyped(query.columns) /\ EmbedsMatch(a, query)

\* The names that a method's body declares besides its arguments.
CsLocals(q, runtime) ==
  {"command", "cancellationToken"}
  \cup IF runtime = "dapper"
         THEN {"commandTimeout"} \cup (IF q.parameters = <<>> THEN {} ELSE {"parameters"})
         ELSE (IF Reads(q) THEN {"reader"} ELSE {}) \cup (IF q.command = ":many" THEN {"rows"} ELSE {})

CsArgument(q) ==
  IF Len(q.parameters) = 1 THEN CsLocal(q.parameters[1].name) ELSE "args"

CSharpDecls(a, runtime) ==
  LET embedding == {q \in Rows(a) : runtime = "dapper" /\ a.queries[q].embeds # <<>>}
      name(q) == CsName(a.queries[q].name)
  IN  {Declare(<<"usings">>, n, <<"framework", n>>) : n \in CsFrameworkTypes(runtime)}
      \cup {Declare(<<"namespace">>, "Queries", << <<"queries">> >>)}
      \cup {Declare(<<"namespace">>, r.name, r.what) : r \in CsRecords(a)}
      \cup UNION {{Declare(r.what, CsName(r.fields[f].name), <<"field", f>>) : f \in DOMAIN r.fields}
                  \cup {Declare(r.what, n, <<"member", n>>) : n \in CsRecordMembers \cup {r.name}}
                  : r \in CsRecords(a)}
      \cup {Declare(<<"members">>, n, <<"member", n>>)
              : n \in {"_connection", "_transaction", "WithTransaction"}}
      \cup {Declare(<<"members">>, name(q) \o "Async", <<"method", q>>) : q \in DOMAIN a.queries}
      \cup {Declare(<<"members">>, name(q) \o (IF q \in embedding THEN "RowFromWire" ELSE "RowFrom"),
                    <<"mapper", q>>) : q \in Rows(a)}
      \cup {Declare(<<"members">>, name(q) \o "WireRow", <<"wire", q>>) : q \in embedding}
      \cup {Declare(<<"members">>, "Bind" \o CsItem(a, i), <<"bind", i>>) : i \in Items(a)}
      \cup UNION {{Declare(<<"body", q>>, n, <<"local", n>>) : n \in CsLocals(a.queries[q], runtime)}
                  : q \in DOMAIN a.queries}
      \cup {Declare(<<"body", q>>, CsArgument(a.queries[q]), <<"argument">>)
              : q \in {q \in DOMAIN a.queries : a.queries[q].parameters # <<>>}}

CSharpUses(a, runtime) ==
  LET types == << <<"members">>, <<"namespace">>, <<"usings">> >>
      used == {"Task", "CancellationToken", "IReadOnlyList", "YdbConnection", "YdbTransaction",
               "YdbParameter", "ArgumentNullException"}
              \cup IF runtime = "dapper" THEN {"CommandDefinition"} ELSE {"YdbCommand", "DbDataReader", "List"}
      embedded == {e.table : e \in UNION {ToSet(a.queries[q].embeds) : q \in Rows(a)}}
      values(q) == << <<"body", q>>, <<"members">> >>
  IN  {Use(types, n, <<"framework", n>>) : n \in used}
      \cup {Use(types, r.name, r.what)
              : r \in {r \in CsRecords(a) : r.what[1] # "table" \/ r.what[2] \in embedded}}
      \cup {Use(<< <<"namespace">>, <<"usings">> >>, n, <<"framework", n>>)
              : n \in {"Guid", "DateTime"} \cap
                      {CSharpScalars[f.kind] : f \in UNION {ToSet(t.columns) : t \in ToSet(a.tables)}}}
      \cup UNION {{Use(values(q), n, <<"local", n>>) : n \in CsLocals(a.queries[q], runtime)}
                  : q \in DOMAIN a.queries}
      \cup {Use(values(q), CsArgument(a.queries[q]), <<"argument">>)
              : q \in {q \in DOMAIN a.queries : a.queries[q].parameters # <<>>}}
      \cup UNION {{Use(<< <<"params", q>> >>, CsName(a.queries[q].parameters[p].name), <<"field", p>>)
                    : p \in DOMAIN a.queries[q].parameters} : q \in CsManyParameters(a)}

\* writeRowMapper reads by position; the Dapper wire row has one member for
\* each column, which its type map finds by the name of the result column.
CsRowValues(q, runtime) ==
  IF runtime = "dapper" THEN ByResultName(q, ValuesInOrder(q)) ELSE ValuesInOrder(q)

CSharp(a, runtime) ==
  IF ~CSharpAccepts(a, runtime) THEN Refused
  ELSE Program(CSharpDecls(a, runtime), CSharpUses(a, runtime),
               UNION {RowPairs(a, a.queries[q], CsRowValues(a.queries[q], runtime)) : q \in Rows(a)},
               UNION {BoundByName(a.queries[q], q) : q \in DOMAIN a.queries})

=============================================================================
