------------------------------ MODULE Rendering ------------------------------
(***************************************************************************)
(* What the nine code generators of internal/codegen share: the analysis   *)
(* result they are given, the names they spell and the program they        *)
(* write, reduced to the names it declares, the names it uses, the rows it *)
(* builds and the parameters it binds.                                     *)
(*                                                                         *)
(* A name of the schema or of a query is a sequence of pieces.  A piece is *)
(* [sep, word, case]: the separator before it ("" inside a camel-case      *)
(* name), a word and how it is written ("lower", "title" or "upper").      *)
(* Identifiers are the strings the generators make of these.               *)
(***************************************************************************)
EXTENDS Naturals, Sequences, SequencesExt, FiniteSets

CONSTANT Spelling   \* word -> [lower, title, upper, small, spaced, number]

-----------------------------------------------------------------------------
(* Spelling. *)

Join(texts) == FoldLeft(LAMBDA joined, text: joined \o text, "", texts)

\* A piece as written, with its first letter capitalised or made small.
Keep(p) == Spelling[p.word][p.case]
Capital(p) == Spelling[p.word][IF p.case = "lower" THEN "title" ELSE p.case]
Small(p) == Spelling[p.word][IF p.case = "upper" THEN "small" ELSE "lower"]
Low(p) == Spelling[p.word].lower
Title(p) == Spelling[p.word].title

Raw(n) == Join([k \in DOMAIN n |-> n[k].sep \o Keep(n[k])])
Folded(n) == Join([k \in DOMAIN n |-> Low(n[k])])
FirstIsDigit(n) == n # <<>> /\ Spelling[n[1].word].number

\* The name cut into words where Starts says that a piece begins one.
Words(n, Starts(_, _)) ==
  LET heads == {k \in DOMAIN n : k = 1 \/ Starts(n, k)}
      ends(h) == {k \in DOMAIN n : k >= h /\ \A j \in heads : j <= h \/ k < j}
      order == SetToSortSeq(heads, <)
  IN  [w \in DOMAIN order |->
         SubSeq(n, order[w], CHOOSE k \in ends(order[w]) : \A j \in ends(order[w]) : j <= k)]

\* A separator; or a capital after a small letter; or any capital that does
\* not continue an acronym.
AtSeparator(n, k) == n[k].sep # ""
AtHump(n, k) == n[k].sep # "" \/ (n[k].case # "lower" /\ n[k - 1].case # "upper")
AtHumpOrAcronym(n, k) ==
  n[k].sep # "" \/ n[k].case = "title" \/ (n[k].case = "upper" /\ n[k - 1].case # "upper")

\* words of a name in lower case, joined by a separator; or each capitalised.
LowWord(w) == Join([k \in DOMAIN w |-> Low(w[k])])
TitleWord(w) == Join([k \in DOMAIN w |-> IF k = 1 THEN Title(w[k]) ELSE Low(w[k])])
CapitalWord(w) == Join([k \in DOMAIN w |-> IF k = 1 THEN Capital(w[k]) ELSE Keep(w[k])])
SmallWord(w) == Join([k \in DOMAIN w |-> IF k = 1 THEN Small(w[k]) ELSE Keep(w[k])])
Snake(ws) == Join([k \in DOMAIN ws |-> (IF k = 1 THEN "" ELSE "_") \o LowWord(ws[k])])

\* A name that is a reserved word gets an underscore at its end.
Escape(text, reserved) == IF text \in reserved THEN text \o "_" ELSE text

\* path.Base of a table name.
Base(n) ==
  LET cuts == {k \in DOMAIN n : n[k].sep = "/"}
      from == IF cuts = {} THEN 1 ELSE CHOOSE k \in cuts : \A j \in cuts : j <= k
  IN  [k \in 1 .. Len(n) - from + 1 |->
         IF k = 1 THEN [n[from] EXCEPT !.sep = ""] ELSE n[from + k - 1]]

-----------------------------------------------------------------------------
(* The analysis result.  A table is [name, columns]; a query is            *)
(* [name, command, parameters, declared, text, columns, embeds], its text  *)
(* the order in which its parameters (by number) and local names (0) occur *)
(* and its command one of :one, :many and :exec.  A parameter with fields  *)
(* is a List<Struct>.  A column of a result has its name, the key "wire"   *)
(* that the server gives it when that is another one, and the number of    *)
(* the table it is read from, or 0.  An embedding covers the columns from  *)
(* .. to with the columns of a table.                                      *)

Field(name, kind, optional) == [name |-> name, kind |-> kind, optional |-> optional]
Reads(q) == q.command \in {":one", ":many"}
IsStructList(p) == p.fields # <<>>

\* The embeddings that cover, or begin at, a column: one or none.
Covering(q, i) == {e \in ToSet(q.embeds) : e.from <= i /\ i <= e.to}
Beginning(q, i) == {e \in ToSet(q.embeds) : e.from = i}

TheOne(S) == CHOOSE x \in S : TRUE

\* The columns that begin a field of the row.
Starts(q) == {i \in DOMAIN q.columns : Covering(q, i) = {} \/ Beginning(q, i) # {}}

\* What a row holds: a column of the result, or a table for an embedding.  A
\* field is known by the column it begins at, so that fields keep their order.
RowColumns(q) ==
  [i \in Starts(q) |->
     IF Beginning(q, i) = {} THEN [name |-> q.columns[i].name, holds |-> <<"column", i>>]
     ELSE LET e == TheOne(Beginning(q, i))
          IN  [name |-> e.field, holds |-> <<"table", e.table>>]]

\* Each embedded table still has the columns that the result projects for it.
EmbedsMatch(a, q) ==
  \A e \in ToSet(q.embeds) :
    LET columns == a.tables[e.table].columns
    IN  /\ Len(columns) = e.to - e.from + 1
        /\ \A i \in DOMAIN columns :
             LET projected == q.columns[e.from + i - 1]
             IN  /\ projected.name = columns[i].name
                 /\ projected.kind = columns[i].kind
                 /\ projected.optional = columns[i].optional

-----------------------------------------------------------------------------
\* The items: parameters that are lists of structs, by query and position.
Items(a) == {i \in UNION {{q} \X (DOMAIN a.queries[q].parameters) : q \in DOMAIN a.queries} :
               IsStructList(a.queries[i[1]].parameters[i[2]])}
Rows(a) == {q \in DOMAIN a.queries : Reads(a.queries[q])}

-----------------------------------------------------------------------------
(* The program.  A declaration is [scope, name, what]; a use is            *)
(* [chain, name, what], its chain the scopes searched from the inside out. *)
(* rows pairs what the fields of a class hold with what it is built of;    *)
(* binds has <<query, occurrence, parameter>> for each parameter of a      *)
(* query's text, in their order, and the parameter that is sent for it.    *)

Declare(scope, name, what) == [scope |-> scope, name |-> name, what |-> what]
Use(chain, name, what) == [chain |-> chain, name |-> name, what |-> what]

Program(decls, uses, rows, binds) ==
  [refused |-> FALSE, decls |-> decls, uses |-> uses, rows |-> rows, binds |-> binds]
Refused == [refused |-> TRUE, decls |-> {}, uses |-> {}, rows |-> {}, binds |-> {}]

\* What a field declared for a result column or a table holds, and what is
\* read at a position of the result.
Content(c) == [name |-> c.name, kind |-> c.kind, optional |-> c.optional]
Contents(columns) == [i \in DOMAIN columns |-> <<"column", Content(columns[i])>>]
Held(q, holds) == IF holds[1] = "table" THEN <<"table", holds[2]>>
                  ELSE <<"column", Content(q.columns[holds[2]])>>

\* The pairs for rows whose class lists the fields of RowColumns and whose
\* values are values, each <<"column", position>> or <<"table", table,
\* positions>>, under the column it begins at.
RowPairs(a, q, values) ==
  LET fields == RowColumns(q)
  IN  {[declared |-> [k \in DOMAIN fields |-> Held(q, fields[k].holds)],
        given |-> [k \in DOMAIN values |-> Held(q, values[k])]]}
      \cup {[declared |-> Contents(a.tables[v[2]].columns),
             given |-> [k \in DOMAIN v[3] |-> Held(q, <<"column", v[3][k]>>)]]
              : v \in {v \in ToSet(values) : v[1] = "table"}}

\* Values read by position: of an embedding, its columns from the first on.
Nested(e) == <<"table", e.table, [j \in 1 .. e.to - e.from + 1 |-> e.from + j - 1]>>

\* The generators look for an embedding that begins at a column and then skip
\* its columns, or for one that covers the column and begins there.
ValuesInOrder(q) ==
  [i \in Starts(q) |-> IF Beginning(q, i) = {} THEN <<"column", i>>
                       ELSE Nested(TheOne(Beginning(q, i)))]
ValuesCovered(q) ==
  [i \in Starts(q) |-> IF Covering(q, i) = {} THEN <<"column", i>>
                       ELSE Nested(TheOne(Covering(q, i)))]

ResultName(c) == IF c.wire # "" THEN c.wire ELSE Raw(c.name)

\* Fault: looked up under the name that the row model gives the column.
LookupByModelName(q, i) ==
  CHOOSE j \in DOMAIN q.columns : Raw(q.columns[j].name) = Raw(q.columns[i].name)

\* The column that is found under the key of column i; and the values of a
\* reader that finds columns in this way.
Lookup(q, i) ==
  CHOOSE j \in DOMAIN q.columns : ResultName(q.columns[j]) = ResultName(q.columns[i])
ByResultName(q, values) ==
  [k \in DOMAIN values |->
     IF values[k][1] = "column" THEN <<"column", Lookup(q, values[k][2])>>
     ELSE <<"table", values[k][2], [j \in DOMAIN values[k][3] |-> Lookup(q, values[k][3][j])]>>]

\* The parameters in the order of their occurrences in the text.
Occurrences(q) == SelectSeq(q.text, LAMBDA p: p # 0)

\* Parameters sent under their names.
BoundByName(q, number) ==
  UNION {{<<number, k, p>> : p \in {p \in DOMAIN q.parameters :
             Raw(q.parameters[p].name) = Raw(q.parameters[Occurrences(q)[k]].name)}}
         : k \in DOMAIN Occurrences(q)}

\* Fault: the parameters in their own order, each once.
JdbcBindsOnce(q, number) == {<<number, k, k>> : k \in DOMAIN q.parameters}

\* jdbc.SQL, of the JDBC runtimes of Java and Kotlin: positions in the order of
\* the text, unless the source declares.
JdbcBinds(q, number) ==
  IF q.declared # {} THEN BoundByName(q, number)
  ELSE {<<number, k, Occurrences(q)[k]>> : k \in DOMAIN Occurrences(q)}

\* A validator's table of names: no name stands for two things.
Distinct(names) == \A x, y \in names : x[1] = y[1] => x = y

-----------------------------------------------------------------------------
(* What the generated program owes its reader. *)

\* In every scope a name is declared once.
DeclaredOnce(p) == \A c, d \in p.decls : c.scope = d.scope /\ c.name = d.name => c = d

\* Every name, looked up through its scopes, is what the generator meant.
Meaning(p, u) ==
  LET found(k) == {d \in p.decls : d.scope = u.chain[k] /\ d.name = u.name}
      hits == {k \in DOMAIN u.chain : found(k) # {}}
  IN  IF hits = {} THEN {}
      ELSE {d.what : d \in found(CHOOSE k \in hits : \A j \in hits : k <= j)}
Resolves(p) == \A u \in p.uses : Meaning(p, u) = {u.what}

\* Every value goes into the field that was made for it.
Fills(p) == \A r \in p.rows : r.declared = r.given

\* Every occurrence of a parameter is sent that parameter.
Sends(a, p) ==
  p.refused \/ \A q \in DOMAIN a.queries : \A k \in DOMAIN Occurrences(a.queries[q]) :
    {b[3] : b \in {b \in p.binds : b[1] = q /\ b[2] = k}} = {Occurrences(a.queries[q])[k]}

=============================================================================
