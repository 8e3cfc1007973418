--------------------------- MODULE KotlinGenerator ---------------------------
(***************************************************************************)
(* internal/codegen/kotlin: data classes for tables, rows and items, one   *)
(* file each, and the class Queries for the YDB SDK, JDBC or Exposed.      *)
(***************************************************************************)
EXTENDS Rendering

\* The scalar types that have a Kotlin type, and that type.
KotlinScalars ==
  [Bool |-> "Boolean", Int8 |-> "Byte", Uint8 |-> "Int", Int16 |-> "Short",
   Uint16 |-> "Int", Int32 |-> "Int", Uint32 |-> "Long", Int64 |-> "Long",
   Uint64 |-> "Long", Float |-> "Float", Double |-> "Double", Utf8 |-> "String",
   String |-> "ByteArray", Json |-> "String", Timestamp |-> "java.time.Instant"]

\* The reserved words among those that names are made of here.
KotlinReserved == {"value", "field", "in", "is", "get", "wait", "it"}

KotlinName(n, upper) ==
  Escape(Join([k \in DOMAIN n |->
                 IF AtSeparator(n, k) \/ (k = 1 /\ upper) THEN Capital(n[k])
                 ELSE IF k = 1 THEN Small(n[k]) ELSE Keep(n[k])]),
         KotlinReserved)

\* The names that no record may have, whatever the file needs.
KotlinTypes ==
  {"Queries", "Boolean", "Byte", "Short", "Int", "Long", "Float", "Double", "String",
   "ByteArray", "List", "ArrayList", "Unit", "SessionRetryContext", "QueryReader", "TxMode",
   "Params", "PrimitiveValue", "PrimitiveType", "OptionalType", "IllegalStateException",
   "IllegalArgumentException"}

KotlinItem(a, q, p) ==
  KotlinName(a.queries[q].name, TRUE) \o KotlinName(a.queries[q].parameters[p].name, TRUE)
    \o "Item"

\* addRecord and addResultRecord: every data class with its fields.
KotlinRecords(a) ==
  {[name |-> KotlinName(a.tables[t].name, TRUE), what |-> <<"table", t>>,
    fields |-> a.tables[t].columns] : t \in DOMAIN a.tables}
  \cup {[name |-> KotlinName(a.queries[q].name, TRUE) \o "Row", what |-> <<"row", q>>,
         fields |-> RowColumns(a.queries[q])] : q \in Rows(a)}
  \cup {[name |-> KotlinItem(a, i[1], i[2]), what |-> <<"item", i[1], i[2]>>,
         fields |-> a.queries[i[1]].parameters[i[2]].fields] : i \in Items(a)}

KotlinAccepts(a) ==
  LET records == KotlinRecords(a)
      named(fields) == {<<KotlinName(fields[i].name, FALSE), i>> : i \in DOMAIN fields}
      types == {<<n, <<"type", n>>>> : n \in KotlinTypes} \cup {<<r.name, r.what>> : r \in records}
      typed(fields) == \A i \in DOMAIN fields : fields[i].kind \in DOMAIN KotlinScalars
      valid(x) == ~FirstIsDigit(x.name)
  IN  /\ Distinct(types)
      /\ \A r \in records : r.fields # <<>> /\ Distinct(named(r.fields))
                            /\ \A i \in DOMAIN r.fields : valid(r.fields[i])
      /\ \A t \in ToSet(a.tables) : valid(t) /\ typed(t.columns)
      /\ Distinct({<<KotlinName(a.queries[q].name, FALSE), q>> : q \in DOMAIN a.queries})
      /\ \A q \in ToSet(a.queries) :
           /\ q.command \in {":one", ":many", ":exec"} /\ valid(q)
           /\ typed(q.columns)
           /\ Distinct(named(q.parameters))
           /\ \A p \in ToSet(q.parameters) :
                /\ valid(p)
                /\ KotlinName(p.name, FALSE) \notin
                     {"client", "transaction", "kotlin", "tech"} \cup {x[1] : x \in types}
                /\ typed(IF IsStructList(p) THEN p.fields ELSE <<p>>)

\* rowValues over the values read at their positions.
KotlinRowValues(q) == ValuesCovered(q)

\* The names that Queries.kt imports.
KotlinImports(a, runtime) ==
  (IF runtime = "ydb"
     THEN {"QueryTransaction", "SessionRetryContext", "QueryReader", "TxMode", "Params"}
     ELSE {})
  \cup (IF \E q \in ToSet(a.queries) : q.parameters # <<>>
          THEN {"PrimitiveValue", "PrimitiveType", "OptionalType"} ELSE {})

\* The packages that the body of a method starts qualified names from.
KotlinRoots(q, runtime) ==
  LET scalars == SelectSeq(q.parameters, LAMBDA p: ~IsStructList(p))
      nullable == {"Bool", "Int8", "Int16", "Int32", "Int64", "Float", "Double"}
                  \cup IF q.declared = {} THEN {} ELSE {"Uint8", "Uint16", "Uint32"}
  IN  (IF runtime = "ydb" /\ Reads(q) THEN {"kotlin"} ELSE {})
      \cup (IF Len(scalars) # Len(q.parameters) \/ (runtime # "ydb" /\ q.declared # {})
              THEN {"tech"} ELSE {})
      \cup (IF runtime # "ydb" /\ \E p \in ToSet(scalars) :
                 p.kind = "Timestamp" \/ (p.optional /\ p.kind \in nullable)
              THEN {"java"} ELSE {})

KotlinDecls(a, runtime) ==
  LET body(q) == a.queries[q].parameters
  IN  {Declare(<<"kotlin">>, n, <<"builtin", n>>)
         : n \in {"Boolean", "Byte", "Short", "Int", "Long", "Float", "Double", "String",
                  "ByteArray", "List", "ArrayList", "Unit"}}
      \cup {Declare(<<"packages">>, n, <<"package", n>>) : n \in {"java", "kotlin", "tech"}}
      \cup {Declare(<<"imports">>, n, <<"sdk", n>>) : n \in KotlinImports(a, runtime)}
      \cup {Declare(<<"package">>, "Queries", <<"Queries">>)}
      \cup {Declare(<<"package">>, r.name, r.what) : r \in KotlinRecords(a)}
      \cup UNION {{Declare(r.what, KotlinName(r.fields[i].name, FALSE), <<"field", i>>)
                    : i \in DOMAIN r.fields} : r \in KotlinRecords(a)}
      \cup {Declare(<<"properties">>, n, <<"property", n>>)
              : n \in {"client"} \cup (IF runtime = "ydb" THEN {"transaction"} ELSE {})}
      \cup {Declare(<<"methods">>, KotlinName(a.queries[q].name, FALSE), <<"method", q>>)
              : q \in DOMAIN a.queries}
      \cup UNION {{Declare(<<"arguments", q>>, KotlinName(body(q)[p].name, FALSE), <<"parameter", p>>)
                    : p \in DOMAIN body(q)} : q \in DOMAIN a.queries}

KotlinUses(a, runtime) ==
  LET types == << <<"imports">>, <<"package">>, <<"kotlin">> >>
      values(q) == << <<"arguments", q>>, <<"properties">>, <<"packages">> >>
  IN  {Use(types, n, <<"sdk", n>>) : n \in KotlinImports(a, runtime)}
      \cup {Use(types, r.name, r.what) : r \in
              {r \in KotlinRecords(a) :
                 r.what[1] # "table" \/ \E q \in Rows(a) : \E e \in ToSet(a.queries[q].embeds) :
                                           e.table = r.what[2]}}
      \cup UNION {
             {Use(types, n, <<"builtin", n>>)
                : n \in (CASE a.queries[q].command = ":exec" -> {"Unit"}
                           [] a.queries[q].command = ":many" -> {"List", "ArrayList"}
                           [] OTHER -> {})}
             \cup {Use(values(q), n, <<"property", n>>)
                     : n \in {"client"} \cup (IF runtime = "ydb" THEN {"transaction"} ELSE {})}
             \cup {Use(values(q), n, <<"package", n>>)
                     : n \in KotlinRoots(a.queries[q], runtime)}
             \cup {Use(values(q), KotlinName(a.queries[q].parameters[p].name, FALSE), <<"parameter", p>>)
                     : p \in DOMAIN a.queries[q].parameters}
             : q \in DOMAIN a.queries}
      \cup UNION {{Use(<< <<"package">>, <<"kotlin">> >>, KotlinScalars[r.fields[i].kind],
                       <<"builtin", KotlinScalars[r.fields[i].kind]>>)
                    : i \in {i \in DOMAIN r.fields :
                               /\ r.what[1] # "row" /\ r.fields[i].kind # "Timestamp"}}
                  : r \in KotlinRecords(a)}

\* Generate.
Kotlin(a, runtime) ==
  IF ~KotlinAccepts(a) THEN Refused
  ELSE Program(KotlinDecls(a, runtime), KotlinUses(a, runtime),
               UNION {RowPairs(a, a.queries[q], KotlinRowValues(a.queries[q])) : q \in Rows(a)},
               UNION {IF runtime = "ydb" THEN BoundByName(a.queries[q], q)
                      ELSE JdbcBinds(a.queries[q], q) : q \in DOMAIN a.queries})

=============================================================================
