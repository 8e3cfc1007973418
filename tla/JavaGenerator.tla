---------------------------- MODULE JavaGenerator ----------------------------
(***************************************************************************)
(* internal/codegen/java: records for tables, rows and items, one file     *)
(* each, and the class Queries for the YDB SDK or JDBC.  The jOOQ runtime  *)
(* is not modelled.                                                        *)
(***************************************************************************)
EXTENDS Rendering

\* The scalar types that have a Java type, and the class of it: the one that
\* a required value has, "" for a primitive, and the one of an optional value.
JavaScalars ==
  LET primitive(boxed) == [required |-> "", optional |-> boxed]
      class(name) == [required |-> name, optional |-> name]
  IN  [Bool |-> primitive("Boolean"), Int8 |-> primitive("Byte"), Uint8 |-> primitive("Integer"),
       Int16 |-> primitive("Short"), Uint16 |-> primitive("Integer"), Int32 |-> primitive("Integer"),
       Uint32 |-> primitive("Long"), Int64 |-> primitive("Long"), Uint64 |-> primitive("Long"),
       Float |-> primitive("Float"), Double |-> primitive("Double"), Utf8 |-> class("String"),
       String |-> class(""), Json |-> class("String"), Timestamp |-> class("")]

\* The class that a field of this kind names, if any.
JavaClasses(f) ==
  {IF f.optional THEN JavaScalars[f.kind].optional ELSE JavaScalars[f.kind].required} \ {""}

\* The reserved words among those that names are made of here.
JavaReserved == {"for", "new", "this", "record", "wait", "package"}

JavaName(n, upper) ==
  Escape(Join([k \in DOMAIN n |->
                 IF AtSeparator(n, k) \/ (k = 1 /\ upper) THEN Capital(n[k])
                 ELSE IF k = 1 THEN Small(n[k]) ELSE Keep(n[k])]),
         JavaReserved)

\* The names that no record may have.
JavaTypes ==
  {"Queries", "String", "Long", "Integer", "Short", "Byte", "Boolean", "Float", "Double",
   "QueryTransaction", "QueryReader", "Params", "PrimitiveValue", "PrimitiveType",
   "OptionalType", "IllegalStateException", "IllegalArgumentException"}

\* addRecord and addResultRecord: every record with its components.
JavaRecords(a) ==
  {[name |-> JavaName(a.tables[t].name, TRUE), what |-> <<"table", t>>,
    fields |-> a.tables[t].columns] : t \in DOMAIN a.tables}
  \cup {[name |-> JavaName(a.queries[q].name, TRUE) \o "Row", what |-> <<"row", q>>,
         fields |-> RowColumns(a.queries[q])] : q \in Rows(a)}
  \cup {[name |-> JavaName(a.queries[i[1]].name, TRUE)
                    \o JavaName(a.queries[i[1]].parameters[i[2]].name, TRUE) \o "Item",
         what |-> <<"item", i[1], i[2]>>,
         fields |-> a.queries[i[1]].parameters[i[2]].fields] : i \in Items(a)}

JavaAccepts(a) ==
  LET records == JavaRecords(a)
      named(fields) == {<<JavaName(fields[i].name, FALSE), i>> : i \in DOMAIN fields}
      typed(fields) == \A f \in ToSet(fields) : f.kind \in DOMAIN JavaScalars
      valid(x) == ~FirstIsDigit(x.name)
  IN  /\ Distinct({<<n, <<"type", n>>>> : n \in JavaTypes} \cup {<<r.name, r.what>> : r \in records})
      /\ \A r \in records : Distinct(named(r.fields)) /\ \A f \in ToSet(r.fields) : valid(f)
      /\ \A t \in ToSet(a.tables) : valid(t) /\ typed(t.columns)
      /\ Distinct({<<JavaName(a.queries[q].name, FALSE), q>> : q \in DOMAIN a.queries})
      /\ \A q \in ToSet(a.queries) :
           /\ valid(q) /\ q.command \in {":one", ":many", ":exec"}
           /\ typed(q.columns)
           /\ Distinct(named(q.parameters))
           /\ \A p \in ToSet(q.parameters) :
                /\ valid(p) /\ JavaName(p.name, FALSE) \notin {"client", "tech"}
                /\ typed(IF IsStructList(p) THEN p.fields ELSE <<p>>)

\* What Queries.java imports: jdbc sends few of its values as the SDK's own.
JavaImports(a, runtime) ==
  LET sent == UNION {{q} \X ToSet(q.parameters) : q \in ToSet(a.queries)}
      wrapped == {s \in sent : \/ runtime = "ydb" \/ s[1].declared # {} \/ IsStructList(s[2])
                               \/ s[2].kind \in {"Uint8", "Uint16", "Uint32", "Uint64", "Json", "Timestamp"}}
      nullable(p) == p.optional \/ \E f \in ToSet(p.fields) : f.optional
  IN  (IF runtime = "ydb" THEN {"QueryTransaction", "Params"} ELSE {})
      \cup (IF runtime = "ydb" /\ Rows(a) # {} THEN {"QueryReader"} ELSE {})
      \cup (IF wrapped # {} THEN {"PrimitiveValue"} ELSE {})
      \cup (IF \E s \in wrapped : nullable(s[2]) THEN {"PrimitiveType", "OptionalType"} ELSE {})

\* The packages that an expression in a method's body begins with, where a
\* variable of that name would be taken instead.
JavaRoots(q, runtime) ==
  LET lists == \E p \in ToSet(q.parameters) : IsStructList(p)
      boxed == {"Bool", "Int8", "Int16", "Int32", "Int64", "Float", "Double"}
               \cup IF q.declared = {} THEN {} ELSE {"Uint8", "Uint16", "Uint32"}
  IN  (IF \/ q.command = ":one" \/ lists
          \/ runtime = "jdbc" /\ \E p \in ToSet(q.parameters) :
                                    p.kind = "Timestamp" \/ (p.optional /\ p.kind \in boxed)
         THEN {"java"} ELSE {})
      \cup (IF lists \/ (runtime = "jdbc" /\ q.declared # {}) THEN {"tech"} ELSE {})

JavaDecls(a, runtime) ==
  {Declare(<<"java.lang">>, n, <<"class", n>>)
     : n \in {"String", "Long", "Integer", "Short", "Byte", "Boolean", "Float", "Double", "IllegalStateException"}}
  \cup {Declare(<<"packages">>, n, <<"package", n>>) : n \in {"java", "tech"}}
  \cup {Declare(<<"imports">>, n, <<"sdk", n>>) : n \in JavaImports(a, runtime)}
  \cup {Declare(<<"package">>, "Queries", <<"Queries">>)}
  \cup {Declare(<<"package">>, r.name, r.what) : r \in JavaRecords(a)}
  \cup UNION {{Declare(r.what, JavaName(r.fields[i].name, FALSE), <<"field", i>>)
                : i \in DOMAIN r.fields} : r \in JavaRecords(a)}
  \cup {Declare(<<"fields">>, "client", <<"client">>)}
  \cup {Declare(<<"methods">>, JavaName(a.queries[q].name, FALSE), <<"method", q>>) : q \in DOMAIN a.queries}
  \cup UNION {{Declare(<<"arguments", q>>, JavaName(a.queries[q].parameters[p].name, FALSE), <<"parameter", p>>)
                : p \in DOMAIN a.queries[q].parameters} : q \in DOMAIN a.queries}

JavaUses(a, runtime) ==
  LET types == << <<"imports">>, <<"package">>, <<"java.lang">> >>
      values(q) == << <<"arguments", q>>, <<"fields">>, <<"packages">> >>
      embedded == UNION {{e.table : e \in ToSet(a.queries[q].embeds)} : q \in Rows(a)}
      classes(fields) == UNION {JavaClasses(f) : f \in ToSet(fields)}
  IN  {Use(types, n, <<"sdk", n>>) : n \in JavaImports(a, runtime)}
      \cup {Use(types, r.name, r.what)
              : r \in {r \in JavaRecords(a) : r.what[1] = "table" => r.what[2] \in embedded}}
      \cup UNION {{Use(<< <<"package">>, <<"java.lang">> >>, n, <<"class", n>>) : n \in classes(r.fields)}
                  : r \in {r \in JavaRecords(a) : r.what[1] # "row"}}
      \cup UNION {
             {Use(values(q), "client", <<"client">>)}
             \cup {Use(types, n, <<"class", n>>)
                     : n \in IF runtime = "ydb" /\ Reads(a.queries[q]) THEN {"IllegalStateException"} ELSE {}}
             \cup {Use(types, n, <<"class", n>>) : n \in classes(a.queries[q].columns)}
             \cup {Use(values(q), n, <<"package", n>>) : n \in JavaRoots(a.queries[q], runtime)}
             \cup {Use(values(q), JavaName(a.queries[q].parameters[p].name, FALSE), <<"parameter", p>>)
                     : p \in DOMAIN a.queries[q].parameters}
             : q \in DOMAIN a.queries}

\* javaRowValues over the values read at their positions.
JavaRowValues(q) == ValuesCovered(q)

\* Generate.
Java(a, runtime) ==
  IF ~JavaAccepts(a) THEN Refused
  ELSE Program(JavaDecls(a, runtime), JavaUses(a, runtime),
               UNION {RowPairs(a, a.queries[q], JavaRowValues(a.queries[q])) : q \in Rows(a)},
               UNION {IF runtime = "ydb" THEN BoundByName(a.queries[q], q)
                      ELSE JdbcBinds(a.queries[q], q) : q \in DOMAIN a.queries})

=============================================================================
