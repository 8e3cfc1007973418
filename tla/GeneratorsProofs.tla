-------------------------- MODULE GeneratorsProofs --------------------------
(***************************************************************************)
(* Proofs about the nine code generators, for every analysis result that is *)
(* one (GeneratorsAssumption), every runtime and every spelling of names: a *)
(* program that is written sends each parameter where the text mentions it, *)
(* and builds each field of a row of the column it was declared for.        *)
(*                                                                          *)
(* A generator writes one program in one step, so that a property of the    *)
(* program is one of its operator.  What makes rows right differs from one  *)
(* to the next.  Readers by position need the embeddings to lie apart;      *)
(* readers by name need the keys of columns to differ, which the validation *)
(* of each language promises in names of its own: in the member names of    *)
(* C#, the fields of Python, the result names of TypeScript, the names as   *)
(* written of C++, and in Go, which looks its own names up as well, in the  *)
(* Go names of rows and of embedded tables.                                 *)
(***************************************************************************)
EXTENDS Generators, TLAPS

-----------------------------------------------------------------------------
(* Parameters. *)

\* What an exact program sends: for each occurrence, its parameter.
Sent(q, number) == {<<number, k, Occurrences(q)[k]>> : k \in DOMAIN Occurrences(q)}
AllSent(a) == UNION {Sent(a.queries[n], n) : n \in DOMAIN a.queries}

\* A name stands for one parameter, so that sending under names is exact.
LEMMA NamesAreExact ==
    ASSUME NEW a, NEW q, IsResult(a, q), NEW n
    PROVE  BoundByName(q, n) = Sent(q, n)
<1>1. \A k \in DOMAIN Occurrences(q) :
          {p \in DOMAIN q.parameters :
               Raw(q.parameters[p].name) = Raw(q.parameters[Occurrences(q)[k]].name)}
          = {Occurrences(q)[k]}
  BY DEF IsResult
<1> QED BY <1>1 DEF BoundByName, Sent

\* JDBC sends by position, or under names where the source declares.
LEMMA PositionsAreExact ==
    ASSUME NEW a, NEW q, IsResult(a, q), NEW n
    PROVE  JdbcBinds(q, n) = Sent(q, n)
  BY NamesAreExact DEF JdbcBinds, Sent

\* A program with these binds meets the property.
LEMMA AllSentReach ==
    ASSUME NEW a, NEW p, p.binds = AllSent(a)
    PROVE  Sends(a, p)
<1> SUFFICES ASSUME NEW q \in DOMAIN a.queries, NEW k \in DOMAIN Occurrences(a.queries[q])
    PROVE  {b[3] : b \in {b \in p.binds : b[1] = q /\ b[2] = k}} = {Occurrences(a.queries[q])[k]}
  BY DEF Sends
<1>1. {b \in p.binds : b[1] = q /\ b[2] = k} = {<<q, k, Occurrences(a.queries[q])[k]>>}
  BY DEF AllSent, Sent
<1>2. <<q, k, Occurrences(a.queries[q])[k]>>[3] = Occurrences(a.queries[q])[k]
  OBVIOUS
<1> HIDE DEF Sends
<1> QED BY <1>1, <1>2, Zenon

\* What the analysis hands over, by the number of a query.
LEMMA QueriesAreResults ==
    ASSUME NEW a \in Analyses, NEW n \in DOMAIN a.queries
    PROVE  IsResult(a, a.queries[n])
  BY GeneratorsAssumption DEF ToSet

\* The binds of a program, all queries together.
LEMMA AllNamed ==
    ASSUME NEW a \in Analyses
    PROVE  UNION {BoundByName(a.queries[q], q) : q \in DOMAIN a.queries} = AllSent(a)
  BY QueriesAreResults, NamesAreExact DEF AllSent

LEMMA AllPlaced ==
    ASSUME NEW a \in Analyses
    PROVE  UNION {JdbcBinds(a.queries[q], q) : q \in DOMAIN a.queries} = AllSent(a)
  BY QueriesAreResults, PositionsAreExact DEF AllSent

LEMMA RefusedSends == \A a : Sends(a, Refused)
  BY DEF Sends, Refused

LEMMA ProgramSends ==
    ASSUME NEW a, NEW d, NEW u, NEW r
    PROVE  Sends(a, Program(d, u, r, AllSent(a)))
<1>1. Program(d, u, r, AllSent(a)).binds = AllSent(a)
  BY DEF Program
<1> QED BY <1>1, AllSentReach

\* Each generator either refuses or sends exactly.
LEMMA GoSends == ASSUME NEW a \in Analyses, NEW runtime PROVE Sends(a, Go(a, runtime))
<1>1. CASE Go(a, runtime) = Refused
  BY <1>1, RefusedSends
<1>2. CASE Go(a, runtime) # Refused
  BY <1>2, AllNamed, AllPlaced, ProgramSends DEF Go
<1> QED BY <1>1, <1>2

LEMMA JavaSends == ASSUME NEW a \in Analyses, NEW runtime PROVE Sends(a, Java(a, runtime))
<1>1. CASE Java(a, runtime) = Refused
  BY <1>1, RefusedSends
<1>2. CASE Java(a, runtime) # Refused
  BY <1>2, AllNamed, AllPlaced, ProgramSends DEF Java
<1> QED BY <1>1, <1>2

LEMMA KotlinSends == ASSUME NEW a \in Analyses, NEW runtime PROVE Sends(a, Kotlin(a, runtime))
<1>1. CASE Kotlin(a, runtime) = Refused
  BY <1>1, RefusedSends
<1>2. CASE Kotlin(a, runtime) # Refused
  BY <1>2, AllNamed, AllPlaced, ProgramSends DEF Kotlin
<1> QED BY <1>1, <1>2

LEMMA PhpSends == ASSUME NEW a \in Analyses, NEW runtime PROVE Sends(a, Php(a))
<1>1. CASE Php(a) = Refused
  BY <1>1, RefusedSends
<1>2. CASE Php(a) # Refused
  BY <1>2, AllNamed, AllPlaced, ProgramSends DEF Php
<1> QED BY <1>1, <1>2

LEMMA CSharpSends == ASSUME NEW a \in Analyses, NEW runtime PROVE Sends(a, CSharp(a, runtime))
<1>1. CASE CSharp(a, runtime) = Refused
  BY <1>1, RefusedSends
<1>2. CASE CSharp(a, runtime) # Refused
  BY <1>2, AllNamed, AllPlaced, ProgramSends DEF CSharp
<1> QED BY <1>1, <1>2

LEMMA TypeScriptSends == ASSUME NEW a \in Analyses, NEW runtime PROVE Sends(a, TypeScript(a))
<1>1. CASE TypeScript(a) = Refused
  BY <1>1, RefusedSends
<1>2. CASE TypeScript(a) # Refused
  BY <1>2, AllNamed, AllPlaced, ProgramSends DEF TypeScript
<1> QED BY <1>1, <1>2

LEMMA RustSends == ASSUME NEW a \in Analyses, NEW runtime PROVE Sends(a, Rust(a))
<1>1. CASE Rust(a) = Refused
  BY <1>1, RefusedSends
<1>2. CASE Rust(a) # Refused
  BY <1>2, AllNamed, AllPlaced, ProgramSends DEF Rust
<1> QED BY <1>1, <1>2

LEMMA CppSends == ASSUME NEW a \in Analyses, NEW runtime PROVE Sends(a, Cpp(a, runtime))
<1>1. CASE Cpp(a, runtime) = Refused
  BY <1>1, RefusedSends
<1>2. CASE Cpp(a, runtime) # Refused
  BY <1>2, AllNamed, AllPlaced, ProgramSends DEF Cpp
<1> QED BY <1>1, <1>2

LEMMA PythonSends == ASSUME NEW a \in Analyses, NEW runtime PROVE Sends(a, Python(a, runtime))
<1>1. CASE Python(a, runtime) = Refused
  BY <1>1, RefusedSends
<1>2. CASE Python(a, runtime) # Refused
  BY <1>2, AllNamed, AllPlaced, ProgramSends DEF Python
<1> QED BY <1>1, <1>2

-----------------------------------------------------------------------------
(* Rows. *)

\* An embedding that begins at a column is the only one that covers it.
LEMMA OneEmbedding ==
    ASSUME NEW a, NEW q, IsResult(a, q), NEW i \in DOMAIN q.columns, NEW e \in Beginning(q, i)
    PROVE  Covering(q, i) = {e} /\ Beginning(q, i) = {e}
<1>1. DOMAIN q.columns \subseteq Nat
  <2>1. q.columns \in Seq(ToSet(q.columns))
    BY DEF IsResult
  <2> QED BY <2>1
<1>2. \A f \in Beginning(q, i) : f \in Covering(q, i)
  <2> SUFFICES ASSUME NEW f \in Beginning(q, i) PROVE f \in Covering(q, i)
    OBVIOUS
  <2>1. f \in ToSet(q.embeds) /\ f.from = i
    BY DEF Beginning
  <2>2. f.from <= f.to
    BY <2>1 DEF IsResult
  <2> QED BY <1>1, <2>1, <2>2 DEF Covering
<1>3. \A f, g \in Covering(q, i) : f = g
  BY DEF IsResult
<1> QED BY <1>2, <1>3

\* To look for the embedding that covers a column or for one that begins there
\* comes to the same where a field begins.
LEMMA CoveredIsInOrder ==
    ASSUME NEW a, NEW q, IsResult(a, q)
    PROVE  ValuesCovered(q) = ValuesInOrder(q)
<1>1. ASSUME NEW i \in Starts(q)
      PROVE  (IF Covering(q, i) = {} THEN <<"column", i>>
              ELSE Nested(TheOne(Covering(q, i))))
             = (IF Beginning(q, i) = {} THEN <<"column", i>>
                ELSE Nested(TheOne(Beginning(q, i))))
  <2>1. CASE Beginning(q, i) = {}
    BY <2>1 DEF Starts
  <2>2. CASE Beginning(q, i) # {}
    <3>1. Covering(q, i) = Beginning(q, i)
      BY <2>2, OneEmbedding DEF Starts
    <3> QED BY <2>2, <3>1
  <2> QED BY <2>1, <2>2
<1> QED BY <1>1, Zenon DEF ValuesCovered, ValuesInOrder

\* What a field of the row holds, and what is put into it.
LEMMA PlainField ==
    ASSUME NEW q, NEW i \in Starts(q), Beginning(q, i) = {}
    PROVE  /\ i \in DOMAIN q.columns /\ Covering(q, i) = {}
           /\ RowColumns(q)[i].name = q.columns[i].name
           /\ RowColumns(q)[i].holds = <<"column", i>>
           /\ ValuesInOrder(q)[i] = <<"column", i>>
  BY DEF Starts, RowColumns, ValuesInOrder

LEMMA EmbeddedField ==
    ASSUME NEW a, NEW q, IsResult(a, q), NEW i \in Starts(q), NEW e \in Beginning(q, i)
    PROVE  /\ i \in DOMAIN q.columns /\ Covering(q, i) = {e}
           /\ e \in ToSet(q.embeds) /\ e.from = i
           /\ RowColumns(q)[i].name = e.field
           /\ RowColumns(q)[i].holds = <<"table", e.table>>
           /\ ValuesInOrder(q)[i] = Nested(e)
<1>1. i \in DOMAIN q.columns
  BY DEF Starts
<1>2. Covering(q, i) = {e} /\ Beginning(q, i) = {e}
  BY <1>1, OneEmbedding
<1>3. TheOne(Beginning(q, i)) = e
  BY <1>2 DEF TheOne
<1>4. e \in ToSet(q.embeds) /\ e.from = i
  BY DEF Beginning
<1>5. ValuesInOrder(q)[i] = Nested(e)
  BY <1>2, <1>3 DEF ValuesInOrder
<1>6. RowColumns(q)[i] = [name |-> e.field, holds |-> <<"table", e.table>>]
  BY <1>2, <1>3 DEF RowColumns
<1> QED BY <1>1, <1>2, <1>4, <1>5, <1>6

\* The columns of a result are a list.
LEMMA ColumnsAreList ==
    ASSUME NEW a, NEW q, IsResult(a, q)
    PROVE  DOMAIN q.columns = 1 .. Len(q.columns) /\ Len(q.columns) \in Nat
<1>1. q.columns \in Seq(ToSet(q.columns))
  BY DEF IsResult
<1> QED BY <1>1

\* An embedded table takes its own columns.
Embedded(a, e) == a.tables[e.table].columns

LEMMA EmbeddedFacts ==
    ASSUME NEW a, NEW q, IsResult(a, q), NEW e \in ToSet(q.embeds)
    PROVE  /\ e.from \in DOMAIN q.columns /\ e.from \in Nat /\ e.to \in Nat
           /\ DOMAIN Embedded(a, e) = 1 .. e.to - e.from + 1
           /\ \A j \in DOMAIN Embedded(a, e) :
                 /\ e.from + j - 1 \in DOMAIN q.columns
                 /\ q.columns[e.from + j - 1].name = Embedded(a, e)[j].name
                 /\ Content(q.columns[e.from + j - 1]) = Content(Embedded(a, e)[j])
<1>1. /\ e.from \in DOMAIN q.columns /\ e.to \in DOMAIN q.columns /\ e.from <= e.to
      /\ Embedded(a, e) \in Seq(ToSet(Embedded(a, e)))
  BY DEF IsResult, Embedded
<1>2. /\ Len(Embedded(a, e)) = e.to - e.from + 1
      /\ \A j \in DOMAIN Embedded(a, e) :
            /\ q.columns[e.from + j - 1].name = Embedded(a, e)[j].name
            /\ q.columns[e.from + j - 1].kind = Embedded(a, e)[j].kind
            /\ q.columns[e.from + j - 1].optional = Embedded(a, e)[j].optional
  BY Zenon DEF IsResult, EmbedsMatch, Embedded
<1>3. DOMAIN Embedded(a, e) = 1 .. Len(Embedded(a, e))
  BY <1>1
<1>4. DOMAIN q.columns = 1 .. Len(q.columns) /\ Len(q.columns) \in Nat
  BY ColumnsAreList
<1>5. \A j \in DOMAIN Embedded(a, e) : e.from + j - 1 \in DOMAIN q.columns
  BY <1>1, <1>2, <1>3, <1>4
<1>6. \A j \in DOMAIN Embedded(a, e) : Content(q.columns[e.from + j - 1]) = Content(Embedded(a, e)[j])
  BY <1>2 DEF Content
<1>7. e.from \in Nat /\ e.to \in Nat
  BY <1>1, <1>4
<1> QED BY <1>1, <1>2, <1>3, <1>5, <1>6, <1>7

\* Values in the order of the fields fill them.
LEMMA InOrderFills ==
    ASSUME NEW a, NEW q, IsResult(a, q), NEW r \in RowPairs(a, q, ValuesInOrder(q))
    PROVE  r.declared = r.given
<1> DEFINE fields == RowColumns(q)
           values == ValuesInOrder(q)
<1>0. DOMAIN fields = Starts(q) /\ DOMAIN values = Starts(q)
  BY DEF RowColumns, ValuesInOrder
<1>1. CASE r = [declared |-> [k \in DOMAIN fields |-> Held(q, fields[k].holds)],
                given |-> [k \in DOMAIN values |-> Held(q, values[k])]]
  <2>1. ASSUME NEW k \in Starts(q)
        PROVE  Held(q, fields[k].holds) = Held(q, values[k])
    <3>1. CASE Beginning(q, k) = {}
      BY <3>1, PlainField
    <3>2. ASSUME NEW e \in Beginning(q, k)
          PROVE  Held(q, fields[k].holds) = Held(q, values[k])
      <4>1. fields[k].holds = <<"table", e.table>> /\ values[k] = Nested(e)
        BY EmbeddedField
      <4> QED BY <4>1 DEF Held, Nested
    <3> QED BY <3>1, <3>2
  <2> HIDE DEF fields, values
  <2>2. [k \in DOMAIN fields |-> Held(q, fields[k].holds)] = [k \in DOMAIN values |-> Held(q, values[k])]
    BY <1>0, <2>1, Zenon
  <2> QED BY <1>1, <2>2
<1>2. ASSUME NEW v \in ToSet(values), v[1] = "table",
             r = [declared |-> Contents(a.tables[v[2]].columns),
                  given |-> [k \in DOMAIN v[3] |-> Held(q, <<"column", v[3][k]>>)]]
      PROVE  r.declared = r.given
  <2>1. PICK i \in Starts(q) : v = values[i]
    BY <1>0 DEF ToSet
  <2>2. Beginning(q, i) # {}
    BY <1>2, <2>1, PlainField
  <2>3. PICK e \in Beginning(q, i) : v = Nested(e) /\ e \in ToSet(q.embeds)
    BY <2>1, <2>2, EmbeddedField
  <2> DEFINE columns == Embedded(a, e)
  <2>4. v[2] = e.table /\ v[3] = [j \in 1 .. e.to - e.from + 1 |-> e.from + j - 1]
    BY <2>3 DEF Nested
  <2>5. DOMAIN columns = 1 .. e.to - e.from + 1
    BY <2>3, EmbeddedFacts
  <2>6. ASSUME NEW k \in DOMAIN columns
        PROVE  Held(q, <<"column", v[3][k]>>) = <<"column", Content(columns[k])>>
    <3>1. v[3][k] = e.from + k - 1
      BY <2>4, <2>5
    <3>2. Content(q.columns[v[3][k]]) = Content(columns[k])
      BY <2>3, <3>1, EmbeddedFacts
    <3> QED BY <3>2 DEF Held
  <2>7. DOMAIN v[3] = DOMAIN columns
    BY <2>4, <2>5
  <2>9. a.tables[v[2]].columns = columns
    BY <2>4 DEF Embedded
  <2> HIDE DEF columns
  <2>8. Contents(columns) = [k \in DOMAIN v[3] |-> Held(q, <<"column", v[3][k]>>)]
    BY <2>6, <2>7, Zenon DEF Contents
  <2> QED BY <1>2, <2>8, <2>9
<1>3. \/ r = [declared |-> [k \in DOMAIN fields |-> Held(q, fields[k].holds)],
              given |-> [k \in DOMAIN values |-> Held(q, values[k])]]
      \/ \E v \in ToSet(values) : v[1] = "table" /\
             r = [declared |-> Contents(a.tables[v[2]].columns),
                  given |-> [k \in DOMAIN v[3] |-> Held(q, <<"column", v[3][k]>>)]]
  BY Zenon DEF RowPairs
<1> QED BY <1>1, <1>2, <1>3

\* A reader that finds columns by their result names finds the same ones,
\* when no two have the same.
Keyed(q) == \A i, j \in DOMAIN q.columns : ResultName(q.columns[i]) = ResultName(q.columns[j]) => i = j

LEMMA ByKey ==
    ASSUME NEW a, NEW q, IsResult(a, q), Keyed(q)
    PROVE  ByResultName(q, ValuesInOrder(q)) = ValuesInOrder(q)
<1> DEFINE values == ValuesInOrder(q)
           given(k) == IF values[k][1] = "column" THEN <<"column", Lookup(q, values[k][2])>>
                       ELSE <<"table", values[k][2], [j \in DOMAIN values[k][3] |-> Lookup(q, values[k][3][j])]>>
<1>1. \A i \in DOMAIN q.columns : Lookup(q, i) = i
  BY DEF Keyed, Lookup
<1>2. DOMAIN values = Starts(q)
  BY DEF ValuesInOrder
<1>3. ASSUME NEW k \in Starts(q) PROVE given(k) = values[k]
  <2>1. CASE Beginning(q, k) = {}
    BY <1>1, <2>1, PlainField
  <2>2. ASSUME NEW e \in Beginning(q, k) PROVE given(k) = values[k]
    <3>1. values[k] = Nested(e) /\ e \in ToSet(q.embeds)
      BY EmbeddedField
    <3>2. DOMAIN Embedded(a, e) = 1 .. e.to - e.from + 1
          /\ \A j \in DOMAIN Embedded(a, e) : e.from + j - 1 \in DOMAIN q.columns
      BY <3>1, EmbeddedFacts
    <3>3. /\ values[k][1] = "table" /\ values[k][2] = e.table
          /\ values[k][3] = [j \in 1 .. e.to - e.from + 1 |-> e.from + j - 1]
      BY <3>1 DEF Nested
    <3> HIDE DEF values
    <3>4. [j \in DOMAIN values[k][3] |-> Lookup(q, values[k][3][j])] = values[k][3]
      BY <1>1, <3>2, <3>3
    <3>5. values[k] = <<"table", values[k][2], values[k][3]>>
      BY <3>1, <3>3 DEF Nested
    <3> QED BY <3>3, <3>4, <3>5
  <2> QED BY <2>1, <2>2
<1>4. ByResultName(q, values) = [k \in DOMAIN values |-> given(k)]
  BY DEF ByResultName
<1>5. values = [k \in DOMAIN values |-> values[k]]
  BY DEF ValuesInOrder
<1> HIDE DEF given, values
<1>6. [k \in DOMAIN values |-> given(k)] = [k \in DOMAIN values |-> values[k]]
  BY <1>2, <1>3, Zenon
<1> QED BY <1>4, <1>5, <1>6 DEF values

\* Rows whose fields have names of their own have such columns.
FieldsDiffer(q) ==
  \A i, j \in Starts(q) : RowColumns(q)[i].name = RowColumns(q)[j].name => i = j

LEMMA FieldsKeyed ==
    ASSUME NEW a, NEW q, IsResult(a, q), FieldsDiffer(q)
    PROVE  Keyed(q)
<1> SUFFICES ASSUME NEW i \in DOMAIN q.columns, NEW j \in DOMAIN q.columns,
                    ResultName(q.columns[i]) = ResultName(q.columns[j]), i # j
             PROVE  FALSE
  BY DEF Keyed
<1>1. q.embeds = <<>> /\ q.columns[i].name = q.columns[j].name
  BY DEF IsResult
<1>2. \A k : Covering(q, k) = {} /\ Beginning(q, k) = {}
  BY <1>1 DEF Covering, Beginning, ToSet
<1>3. i \in Starts(q) /\ j \in Starts(q)
  BY <1>2 DEF Starts
<1>4. RowColumns(q)[i].name = RowColumns(q)[j].name
  BY <1>1, <1>2, <1>3, PlainField
<1> QED BY <1>3, <1>4 DEF FieldsDiffer

-----------------------------------------------------------------------------
(* Rows of each language but Go. *)

\* It is enough to look at the rows of a program.
LEMMA RowsFill ==
    ASSUME NEW a, NEW d, NEW u, NEW b, NEW rows,
           \A r \in rows : r.declared = r.given
    PROVE  Fills(Program(d, u, rows, b))
  BY DEF Fills, Program

LEMMA RefusedFills == Fills(Refused)
  BY DEF Fills, Refused

LEMMA RowIsResult ==
    ASSUME NEW a \in Analyses, NEW n \in Rows(a)
    PROVE  /\ n \in DOMAIN a.queries /\ Reads(a.queries[n])
           /\ a.queries[n] \in ToSet(a.queries) /\ IsResult(a, a.queries[n])
<1>1. n \in DOMAIN a.queries /\ Reads(a.queries[n])
  BY DEF Rows
<1> QED BY <1>1, QueriesAreResults DEF ToSet

\* The rows of a program that reads by position, all queries together.
LEMMA InOrder ==
    ASSUME NEW a \in Analyses
    PROVE  \A r \in UNION {RowPairs(a, a.queries[q], ValuesInOrder(a.queries[q])) : q \in Rows(a)} :
              r.declared = r.given
  BY RowIsResult, InOrderFills

LEMMA Covered ==
    ASSUME NEW a \in Analyses
    PROVE  \A r \in UNION {RowPairs(a, a.queries[q], ValuesCovered(a.queries[q])) : q \in Rows(a)} :
              r.declared = r.given
  BY RowIsResult, InOrderFills, CoveredIsInOrder

LEMMA JavaFills == ASSUME NEW a \in Analyses, NEW runtime PROVE Fills(Java(a, runtime))
<1>1. CASE Java(a, runtime) = Refused
  BY <1>1, RefusedFills
<1>2. CASE Java(a, runtime) # Refused
  BY <1>2, Covered, RowsFill DEF Java, JavaRowValues
<1> QED BY <1>1, <1>2

LEMMA KotlinFills == ASSUME NEW a \in Analyses, NEW runtime PROVE Fills(Kotlin(a, runtime))
<1>1. CASE Kotlin(a, runtime) = Refused
  BY <1>1, RefusedFills
<1>2. CASE Kotlin(a, runtime) # Refused
  BY <1>2, Covered, RowsFill DEF Kotlin, KotlinRowValues
<1> QED BY <1>1, <1>2

LEMMA RustFills == ASSUME NEW a \in Analyses PROVE Fills(Rust(a))
<1>1. CASE Rust(a) = Refused
  BY <1>1, RefusedFills
<1>2. CASE Rust(a) # Refused
  BY <1>2, Covered, RowsFill DEF Rust, RustRowValues
<1> QED BY <1>1, <1>2

LEMMA PhpFills == ASSUME NEW a \in Analyses PROVE Fills(Php(a))
<1>1. CASE Php(a) = Refused
  BY <1>1, RefusedFills
<1>2. CASE Php(a) # Refused
  BY <1>2, InOrder, RowsFill DEF Php
<1> QED BY <1>1, <1>2

\* fieldNames: the members of a row record are spelled apart.
LEMMA CSharpDiffers ==
    ASSUME NEW a \in Analyses, NEW runtime, CSharpAccepts(a, runtime), NEW n \in Rows(a)
    PROVE  FieldsDiffer(a.queries[n])
<1> DEFINE fields == RowColumns(a.queries[n])
<1>1. CsFieldNames(CsName(a.queries[n].name) \o "Row", fields)
  BY RowIsResult, Zenon DEF CSharpAccepts
<1>2. Distinct({<<CsName(fields[i].name), i>> : i \in DOMAIN fields})
  BY <1>1 DEF CsFieldNames
<1>3. DOMAIN fields = Starts(a.queries[n])
  BY DEF RowColumns
<1> DEFINE names == {<<CsName(fields[i].name), i>> : i \in DOMAIN fields}
<1> SUFFICES ASSUME NEW i \in DOMAIN fields, NEW j \in DOMAIN fields, fields[i].name = fields[j].name
             PROVE  i = j
  BY <1>3 DEF FieldsDiffer
<1>4. <<CsName(fields[i].name), i>> \in names /\ <<CsName(fields[j].name), j>> \in names
  OBVIOUS
<1> HIDE DEF names, fields
<1>5. <<CsName(fields[i].name), i>> = <<CsName(fields[j].name), j>>
  BY <1>2, <1>4 DEF Distinct, names
<1> QED BY <1>5

LEMMA CSharpFills == ASSUME NEW a \in Analyses, NEW runtime PROVE Fills(CSharp(a, runtime))
<1>1. CASE ~CSharpAccepts(a, runtime)
  BY <1>1, RefusedFills DEF CSharp
<1>2. CASE CSharpAccepts(a, runtime)
  <2>1. ASSUME NEW n \in Rows(a)
        PROVE  CsRowValues(a.queries[n], runtime) = ValuesInOrder(a.queries[n])
    BY <1>2, RowIsResult, CSharpDiffers, FieldsKeyed, ByKey DEF CsRowValues
  <2>2. \A r \in UNION {RowPairs(a, a.queries[q], CsRowValues(a.queries[q], runtime)) : q \in Rows(a)} :
            r.declared = r.given
    BY <2>1, RowIsResult, InOrderFills
  <2> QED BY <1>2, <2>2, RowsFill DEF CSharp
<1> QED BY <1>1, <1>2

\* The result names themselves differ.
LEMMA TypeScriptKeys ==
    ASSUME NEW a \in Analyses, TypeScriptAccepts(a), NEW n \in Rows(a)
    PROVE  Keyed(a.queries[n])
<1> DEFINE columns == a.queries[n].columns
<1>1. Distinct({<<ResultName(columns[i]), i>> : i \in DOMAIN columns})
  BY RowIsResult, Zenon DEF TypeScriptAccepts
<1> DEFINE names == {<<ResultName(columns[i]), i>> : i \in DOMAIN columns}
<1> SUFFICES ASSUME NEW i \in DOMAIN columns, NEW j \in DOMAIN columns,
                    ResultName(columns[i]) = ResultName(columns[j])
             PROVE  i = j
  BY DEF Keyed
<1>2. <<ResultName(columns[i]), i>> \in names /\ <<ResultName(columns[j]), j>> \in names
  OBVIOUS
<1> HIDE DEF names, columns
<1>3. <<ResultName(columns[i]), i>> = <<ResultName(columns[j]), j>>
  BY <1>1, <1>2 DEF Distinct, names
<1> QED BY <1>3

LEMMA TypeScriptFills == ASSUME NEW a \in Analyses PROVE Fills(TypeScript(a))
<1>1. CASE ~TypeScriptAccepts(a)
  BY <1>1, RefusedFills DEF TypeScript
<1>2. CASE TypeScriptAccepts(a)
  <2>1. \A r \in UNION {RowPairs(a, a.queries[q], ByResultName(a.queries[q], ValuesInOrder(a.queries[q])))
                        : q \in Rows(a)} : r.declared = r.given
    BY <1>2, RowIsResult, TypeScriptKeys, ByKey, InOrderFills
  <2> QED BY <1>2, <2>1, RowsFill DEF TypeScript
<1> QED BY <1>1, <1>2

\* The members of a row struct differ as they are written.
LEMMA CppDiffers ==
    ASSUME NEW a \in Analyses, NEW runtime, CppAccepts(a, runtime), NEW n \in Rows(a)
    PROVE  FieldsDiffer(a.queries[n])
<1> DEFINE fields == RowColumns(a.queries[n])
<1>0. a.queries[n] \in ToSet(a.queries)
  BY RowIsResult
<1>1. Distinct({<<Raw(fields[i].name), i>> : i \in DOMAIN fields})
  BY <1>0, ZenonT(60) DEF CppAccepts
<1>2. DOMAIN fields = Starts(a.queries[n])
  BY DEF RowColumns
<1> DEFINE names == {<<Raw(fields[i].name), i>> : i \in DOMAIN fields}
<1> SUFFICES ASSUME NEW i \in DOMAIN fields, NEW j \in DOMAIN fields, fields[i].name = fields[j].name
             PROVE  i = j
  BY <1>2 DEF FieldsDiffer
<1>4. <<Raw(fields[i].name), i>> \in names /\ <<Raw(fields[j].name), j>> \in names
  OBVIOUS
<1> HIDE DEF names, fields
<1>5. <<Raw(fields[i].name), i>> = <<Raw(fields[j].name), j>>
  BY <1>1, <1>4 DEF Distinct, names
<1> QED BY <1>5

LEMMA CppFills == ASSUME NEW a \in Analyses, NEW runtime PROVE Fills(Cpp(a, runtime))
<1>1. CASE ~CppAccepts(a, runtime)
  BY <1>1, RefusedFills DEF Cpp
<1>2. CASE CppAccepts(a, runtime)
  <2>1. \A r \in UNION {RowPairs(a, a.queries[q], ByResultName(a.queries[q], ValuesCovered(a.queries[q])))
                        : q \in Rows(a)} : r.declared = r.given
    BY <1>2, RowIsResult, CppDiffers, FieldsKeyed, ByKey, CoveredIsInOrder, InOrderFills
  <2> QED BY <1>2, <2>1, RowsFill DEF Cpp
<1> QED BY <1>1, <1>2

\* fieldName: the attributes of a row class differ.
LEMMA PythonDiffers ==
    ASSUME NEW a \in Analyses, PythonAccepts(a), NEW n \in Rows(a)
    PROVE  FieldsDiffer(a.queries[n])
<1> DEFINE fields == RowColumns(a.queries[n])
<1>1. Distinct({<<PyField(fields[i].name), i>> : i \in DOMAIN fields})
  BY RowIsResult, Zenon DEF PythonAccepts
<1>2. DOMAIN fields = Starts(a.queries[n])
  BY DEF RowColumns
<1> DEFINE names == {<<PyField(fields[i].name), i>> : i \in DOMAIN fields}
<1> SUFFICES ASSUME NEW i \in DOMAIN fields, NEW j \in DOMAIN fields, fields[i].name = fields[j].name
             PROVE  i = j
  BY <1>2 DEF FieldsDiffer
<1>4. <<PyField(fields[i].name), i>> \in names /\ <<PyField(fields[j].name), j>> \in names
  OBVIOUS
<1> HIDE DEF names, fields
<1>5. <<PyField(fields[i].name), i>> = <<PyField(fields[j].name), j>>
  BY <1>1, <1>4 DEF Distinct, names
<1> QED BY <1>5

\* A row that is a whole table takes the table's columns.
LEMMA PythonTableFills ==
    ASSUME NEW a \in Analyses, NEW n \in Rows(a), PyRowTable(a, n) # 0
    PROVE  Contents(a.tables[PyRowTable(a, n)].columns)
           = [k \in DOMAIN a.queries[n].columns |->
                Held(a.queries[n], ValuesInOrder(a.queries[n])[k])]
<1> DEFINE q == a.queries[n]
<1>1. q.embeds = <<>> /\ Contents(q.columns) = Contents(a.tables[PyRowTable(a, n)].columns)
  BY DEF PyRowTable
<1>2. \A k : Covering(q, k) = {} /\ Beginning(q, k) = {}
  BY <1>1 DEF Covering, Beginning, ToSet
<1>3. Starts(q) = DOMAIN q.columns
  BY <1>2 DEF Starts
<1>4. \A k \in DOMAIN q.columns : ValuesInOrder(q)[k] = <<"column", k>>
  BY <1>2, <1>3, PlainField
<1>5. \A k \in DOMAIN q.columns : Held(q, ValuesInOrder(q)[k]) = <<"column", Content(q.columns[k])>>
  BY <1>4 DEF Held
<1> HIDE DEF q
<1>6. [k \in DOMAIN q.columns |-> Held(q, ValuesInOrder(q)[k])] = Contents(q.columns)
  BY <1>5, Zenon DEF Contents
<1> QED BY <1>1, <1>6 DEF q

LEMMA PythonFills == ASSUME NEW a \in Analyses, NEW runtime PROVE Fills(Python(a, runtime))
<1>1. CASE ~PythonAccepts(a)
  BY <1>1, RefusedFills DEF Python
<1>2. CASE PythonAccepts(a)
  <2>1. ASSUME NEW n \in Rows(a)
        PROVE  PyRowValues(a.queries[n], runtime) = ValuesInOrder(a.queries[n])
    BY <1>2, RowIsResult, PythonDiffers, FieldsKeyed, ByKey, CoveredIsInOrder DEF PyRowValues
  <2>2. ASSUME NEW n \in Rows(a), NEW r \in PyRowPairs(a, n, runtime)
        PROVE  r.declared = r.given
    <3>1. CASE r \in RowPairs(a, a.queries[n], PyRowValues(a.queries[n], runtime))
      BY <2>1, <3>1, RowIsResult, InOrderFills
    <3>2. CASE r \notin RowPairs(a, a.queries[n], PyRowValues(a.queries[n], runtime))
      <4>1. /\ PyRowTable(a, n) # 0
            /\ r = [declared |-> Contents(a.tables[PyRowTable(a, n)].columns),
                    given |-> [k \in DOMAIN a.queries[n].columns |->
                                 Held(a.queries[n], PyRowValues(a.queries[n], runtime)[k])]]
        BY <3>2, Zenon DEF PyRowPairs
      <4> QED BY <2>1, <4>1, PythonTableFills
    <3> QED BY <3>1, <3>2
  <2>3. \A r \in UNION {PyRowPairs(a, q, runtime) : q \in Rows(a)} : r.declared = r.given
    BY <2>2
  <2> QED BY <1>2, <2>3, RowsFill DEF Python
<1> QED BY <1>1, <1>2

-----------------------------------------------------------------------------
(* Rows of Go. *)

\* Go finds a column by the Go name of a field; the names that it refuses to
\* spell alike are those of a row's fields and of an embedded table's columns.
GoFieldsDiffer(q) ==
  \A i, j \in Starts(q) : GoName(RowColumns(q)[i].name) = GoName(RowColumns(q)[j].name) => i = j
GoColumnsDiffer(columns) ==
  \A i, j \in DOMAIN columns : GoName(columns[i].name) = GoName(columns[j].name) => i = j

\* validate: the fields of a struct have Go names of their own.
LEMMA GoStructDiffers ==
    ASSUME NEW a \in Analyses, NEW runtime, GoAccepts(a, runtime), NEW s \in GoStructs(a, runtime)
    PROVE  GoColumnsDiffer(s.fields)
<1> DEFINE fields == s.fields
           names == {<<GoName(fields[i].name), i>> : i \in DOMAIN fields}
<1>1. Distinct(names)
  BY Zenon DEF GoAccepts
<1> SUFFICES ASSUME NEW i \in DOMAIN fields, NEW j \in DOMAIN fields,
                    GoName(fields[i].name) = GoName(fields[j].name)
             PROVE  i = j
  BY DEF GoColumnsDiffer
<1>2. <<GoName(fields[i].name), i>> \in names /\ <<GoName(fields[j].name), j>> \in names
  OBVIOUS
<1> HIDE DEF names, fields
<1>3. <<GoName(fields[i].name), i>> = <<GoName(fields[j].name), j>>
  BY <1>1, <1>2 DEF Distinct, names
<1> QED BY <1>3

LEMMA GoRowDiffers ==
    ASSUME NEW a \in Analyses, NEW runtime, GoAccepts(a, runtime), NEW n \in Rows(a)
    PROVE  GoFieldsDiffer(a.queries[n])
<1> DEFINE s == [name |-> Raw(a.queries[n].name) \o "Row", what |-> <<"row", n>>,
                 fields |-> RowColumns(a.queries[n])]
<1>1. s \in GoStructs(a, runtime)
  BY Zenon DEF GoStructs
<1>2. s.fields = RowColumns(a.queries[n])
  OBVIOUS
<1>3. GoColumnsDiffer(RowColumns(a.queries[n]))
  <2> HIDE DEF s
  <2> QED BY <1>1, <1>2, GoStructDiffers
<1>4. DOMAIN RowColumns(a.queries[n]) = Starts(a.queries[n])
  BY DEF RowColumns
<1> QED BY <1>3, <1>4 DEF GoColumnsDiffer, GoFieldsDiffer

LEMMA GoEmbeddedDiffers ==
    ASSUME NEW a \in Analyses, NEW runtime, GoAccepts(a, runtime), NEW n \in Rows(a),
           NEW e \in ToSet(a.queries[n].embeds)
    PROVE  GoColumnsDiffer(Embedded(a, e))
<1> DEFINE s == [name |-> GoName(Base(a.tables[e.table].name)), what |-> <<"table", e.table>>,
                 fields |-> a.tables[e.table].columns]
<1>0. n \in DOMAIN a.queries
  BY RowIsResult
<1>1. e.table \in GoEmbedded(a)
  BY <1>0 DEF GoEmbedded
<1>2. s \in GoStructs(a, runtime)
  BY <1>1, Zenon DEF GoStructs
<1>3. s.fields = Embedded(a, e)
  BY DEF Embedded
<1> HIDE DEF s
<1> QED BY <1>2, <1>3, GoStructDiffers

\* The field of a plain column finds this column and no other.
LEMMA GoPlainValue ==
    ASSUME NEW a, NEW q, IsResult(a, q), GoFieldsDiffer(q),
           NEW k \in Starts(q), Beginning(q, k) = {}
    PROVE  GoRowValues(a, q)[k] = ValuesInOrder(q)[k]
<1> DEFINE fields == RowColumns(q)
<1>1. /\ k \in DOMAIN q.columns /\ Covering(q, k) = {} /\ fields[k].name = q.columns[k].name
      /\ fields[k].holds = <<"column", k>> /\ ValuesInOrder(q)[k] = <<"column", k>>
  BY PlainField
<1>2. ASSUME NEW i \in DOMAIN q.columns, Covering(q, i) = {},
             GoName(q.columns[i].name) = GoName(fields[k].name)
      PROVE  i = k
  <2>1. i \in Starts(q)
    BY <1>2 DEF Starts
  <2>2. Beginning(q, i) = {}
    BY <1>2, OneEmbedding
  <2>3. fields[i].name = q.columns[i].name
    BY <2>1, <2>2, PlainField
  <2> QED BY <1>2, <2>1, <2>3 DEF GoFieldsDiffer
<1>3. GoInto(q, fields[k]) = k
  <2> HIDE DEF fields
  <2> QED BY <1>1, <1>2 DEF GoInto
<1>4. DOMAIN fields = Starts(q)
  BY DEF RowColumns
<1>5. GoRowValues(a, q)[k] = <<"column", GoInto(q, fields[k])>>
  BY <1>1, <1>4 DEF GoRowValues
<1> QED BY <1>1, <1>3, <1>5

\* The field of an embedding finds this embedding, and each of its fields the
\* column at its place.
LEMMA GoEmbeddedValue ==
    ASSUME NEW a, NEW q, IsResult(a, q), GoFieldsDiffer(q),
           NEW k \in Starts(q), NEW e \in Beginning(q, k), GoColumnsDiffer(Embedded(a, e))
    PROVE  GoRowValues(a, q)[k] = ValuesInOrder(q)[k]
<1> DEFINE fields == RowColumns(q)
<1>1. /\ e \in ToSet(q.embeds) /\ e.from = k /\ fields[k].name = e.field
      /\ fields[k].holds = <<"table", e.table>> /\ ValuesInOrder(q)[k] = Nested(e)
  BY EmbeddedField
<1>2. ASSUME NEW f \in ToSet(q.embeds), GoName(f.field) = GoName(fields[k].name)
      PROVE  f = e
  <2>1. f.from \in DOMAIN q.columns /\ f \in Beginning(q, f.from)
    BY EmbeddedFacts DEF Beginning
  <2>2. f.from \in Starts(q)
    BY <2>1 DEF Starts
  <2>3. fields[f.from].name = f.field
    BY <2>1, <2>2, EmbeddedField
  <2>4. f.from = k
    BY <1>2, <2>2, <2>3 DEF GoFieldsDiffer
  <2> QED BY <2>1, <2>4, OneEmbedding
<1>3. GoEmbed(q, fields[k]) = e
  <2> HIDE DEF fields
  <2> QED BY <1>1, <1>2 DEF GoEmbed
<1>4. /\ DOMAIN Embedded(a, e) = 1 .. e.to - e.from + 1 /\ e.from \in Nat /\ e.to \in Nat
      /\ \A j \in DOMAIN Embedded(a, e) : q.columns[e.from + j - 1].name = Embedded(a, e)[j].name
  BY <1>1, EmbeddedFacts
<1>5. ASSUME NEW j \in DOMAIN Embedded(a, e)
      PROVE  GoWithin(q, e, Embedded(a, e)[j]) = e.from + j - 1
  <2>1. e.from + j - 1 \in e.from .. e.to
    BY <1>4
  <2>2. ASSUME NEW i \in e.from .. e.to, GoName(q.columns[i].name) = GoName(Embedded(a, e)[j].name)
        PROVE  i = e.from + j - 1
    <3>1. i - e.from + 1 \in DOMAIN Embedded(a, e) /\ e.from + (i - e.from + 1) - 1 = i
      BY <1>4
    <3>2. q.columns[i].name = Embedded(a, e)[i - e.from + 1].name
      BY <1>4, <3>1
    <3>3. i - e.from + 1 = j
      BY <2>2, <3>1, <3>2 DEF GoColumnsDiffer
    <3> QED BY <1>4, <3>3
  <2> QED BY <1>4, <2>1, <2>2 DEF GoWithin
<1>6. DOMAIN fields = Starts(q)
  BY DEF RowColumns
<1>7. GoRowValues(a, q)[k]
      = <<"table", e.table, [j \in DOMAIN Embedded(a, e) |-> GoWithin(q, e, Embedded(a, e)[j])]>>
  <2>1. GoRowValues(a, q)[k] = GoNested(a, q, GoEmbed(q, fields[k]))
    BY <1>1, <1>6 DEF GoRowValues
  <2> QED BY <1>3, <2>1 DEF GoNested, Embedded
<1>8. [j \in DOMAIN Embedded(a, e) |-> GoWithin(q, e, Embedded(a, e)[j])]
      = [j \in 1 .. e.to - e.from + 1 |-> e.from + j - 1]
  BY <1>4, <1>5
<1> QED BY <1>1, <1>7, <1>8 DEF Nested

\* So Go's lookups by name give the values in order.
LEMMA GoInOrder ==
    ASSUME NEW a \in Analyses, NEW runtime, GoAccepts(a, runtime), NEW n \in Rows(a)
    PROVE  GoRowValues(a, a.queries[n]) = ValuesInOrder(a.queries[n])
<1> DEFINE q == a.queries[n]
<1>1. IsResult(a, q) /\ GoFieldsDiffer(q)
  BY RowIsResult, GoRowDiffers
<1>2. ASSUME NEW k \in Starts(q)
      PROVE  GoRowValues(a, q)[k] = ValuesInOrder(q)[k]
  <2>1. CASE Beginning(q, k) = {}
    BY <1>1, <2>1, GoPlainValue
  <2>2. ASSUME NEW e \in Beginning(q, k)
        PROVE  GoRowValues(a, q)[k] = ValuesInOrder(q)[k]
    <3>1. e \in ToSet(q.embeds)
      BY DEF Beginning
    <3> QED BY <1>1, <3>1, GoEmbeddedDiffers, GoEmbeddedValue
  <2> QED BY <2>1, <2>2
<1>3. /\ DOMAIN GoRowValues(a, q) = Starts(q) /\ DOMAIN ValuesInOrder(q) = Starts(q)
      /\ GoRowValues(a, q) = [k \in DOMAIN GoRowValues(a, q) |-> GoRowValues(a, q)[k]]
      /\ ValuesInOrder(q) = [k \in DOMAIN ValuesInOrder(q) |-> ValuesInOrder(q)[k]]
  BY DEF GoRowValues, ValuesInOrder, RowColumns
<1> HIDE DEF q
<1>4. [k \in DOMAIN GoRowValues(a, q) |-> GoRowValues(a, q)[k]]
      = [k \in DOMAIN ValuesInOrder(q) |-> ValuesInOrder(q)[k]]
  BY <1>2, <1>3, Zenon
<1> QED BY <1>3, <1>4 DEF q

LEMMA GoKeyed ==
    ASSUME NEW a, NEW q, IsResult(a, q), GoFieldsDiffer(q)
    PROVE  Keyed(q)
<1>1. FieldsDiffer(q)
  BY DEF GoFieldsDiffer, FieldsDiffer
<1> QED BY <1>1, FieldsKeyed

LEMMA GoFills == ASSUME NEW a \in Analyses, NEW runtime PROVE Fills(Go(a, runtime))
<1> DEFINE given(q) == IF runtime.sql THEN GoRowValues(a, q) ELSE ByResultName(q, GoRowValues(a, q))
<1>1. CASE ~GoAccepts(a, runtime)
  BY <1>1, RefusedFills DEF Go
<1>2. CASE GoAccepts(a, runtime)
  <2>1. ASSUME NEW n \in Rows(a)
        PROVE  given(a.queries[n]) = ValuesInOrder(a.queries[n])
    BY <1>2, RowIsResult, GoInOrder, GoRowDiffers, GoKeyed, ByKey
  <2>2. Go(a, runtime) = Program(GoDecls(a, runtime), GoUses(a, runtime),
                                 UNION {RowPairs(a, a.queries[n], given(a.queries[n])) : n \in Rows(a)},
                                 UNION {BoundByName(a.queries[q], q) : q \in DOMAIN a.queries})
    BY <1>2 DEF Go
  <2> HIDE DEF given
  <2>3. \A r \in UNION {RowPairs(a, a.queries[n], given(a.queries[n])) : n \in Rows(a)} :
            r.declared = r.given
    BY <2>1, RowIsResult, InOrderFills
  <2> QED BY <2>2, <2>3, RowsFill
<1> QED BY <1>1, <1>2

-----------------------------------------------------------------------------
(* The theorems. *)

\* A step of the model runs one generator on the same analysis.
LEMMA StepGenerates ==
    ASSUME Next
    PROVE  /\ analysis' = analysis
           /\ \E runtime :
                  \/ program' = Go(analysis, runtime)
                  \/ program' = Java(analysis, runtime)
                  \/ program' = Kotlin(analysis, runtime)
                  \/ program' = Php(analysis)
                  \/ program' = CSharp(analysis, runtime)
                  \/ program' = TypeScript(analysis)
                  \/ program' = Rust(analysis)
                  \/ program' = Cpp(analysis, runtime)
                  \/ program' = Python(analysis, runtime)
  BY DEF Next, Generate, GenerateGo, GenerateJava, GenerateKotlin, GeneratePhp, GenerateCSharp,
         GenerateTypeScript, GenerateRust, GenerateCpp, GeneratePython

\* Parameters reach the query: the value sent wherever a text mentions a
\* parameter is this parameter's, by position or by name, in every language.
THEOREM ParametersReachTheQueryHolds == Spec => []ParametersReachTheQuery
<1> DEFINE Inv == analysis \in Analyses /\ ParametersReachTheQuery
<1>1. Init => Inv
  BY RefusedSends DEF Init, ParametersReachTheQuery
<1>2. Inv /\ [Next]_vars => Inv'
  <2> SUFFICES ASSUME Inv, [Next]_vars PROVE Inv'
    OBVIOUS
  <2>1. CASE Next
    BY <2>1, StepGenerates, GoSends, JavaSends, KotlinSends, PhpSends, CSharpSends,
       TypeScriptSends, RustSends, CppSends, PythonSends DEF ParametersReachTheQuery
  <2>2. CASE UNCHANGED vars
    BY <2>2 DEF vars, ParametersReachTheQuery
  <2> QED BY <2>1, <2>2
<1> QED BY <1>1, <1>2, PTL DEF Spec

\* Rows fill their models: every field of a row, and of a table embedded in it,
\* is built of the column it was declared for, whether columns are read by
\* position, by key or by the names a language gives them.
THEOREM RowsFillTheirModelsHolds == Spec => []RowsFillTheirModels
<1> DEFINE Inv == analysis \in Analyses /\ RowsFillTheirModels
<1>1. Init => Inv
  BY RefusedFills DEF Init, RowsFillTheirModels
<1>2. Inv /\ [Next]_vars => Inv'
  <2> SUFFICES ASSUME Inv, [Next]_vars PROVE Inv'
    OBVIOUS
  <2>1. CASE Next
    BY <2>1, StepGenerates, GoFills, JavaFills, KotlinFills, PhpFills, CSharpFills,
       TypeScriptFills, RustFills, CppFills, PythonFills DEF RowsFillTheirModels
  <2>2. CASE UNCHANGED vars
    BY <2>2 DEF vars, RowsFillTheirModels
  <2> QED BY <2>1, <2>2
<1> QED BY <1>1, <1>2, PTL DEF Spec

=============================================================================
