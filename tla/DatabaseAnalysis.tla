-------------------------- MODULE DatabaseAnalysis --------------------------
(***************************************************************************)
(* Analysis of one query set (analyze in internal/analyzer/analyzer.go),    *)
(* with or without a database connection (internal/analyzer/database.go,    *)
(* internal/database).  A connected analysis compiles every query with      *)
(* EXPLAIN, then describes tables, then resolves the queries against what   *)
(* it learned.  These are separate requests: the schema on the server may   *)
(* change between any two of them, and any of them may fail.                *)
(*                                                                          *)
(* A query stands for the columns it uses and the tables whose columns a    *)
(* wildcard or sqlc.embed expands to; its result is the types it gets for   *)
(* them.                                                                    *)
(***************************************************************************)
EXTENDS Naturals, Sequences, SequencesExt

CONSTANTS
    TableNames,
    ColumnNames,
    Descriptions,  \* what DescribeTable may return for an existing table
    Missing,       \* no such table on the server
    KnownTypes,    \* base types that decodeType and parseType both know
    Lower,         \* strings.ToLower on the names of queries
    Inputs,        \* see IsInput
    MaxParts,      \* the longest response stream of EXPLAIN
    MaxMigrations  \* changes to the server's schema during the analysis

\* Flags of a query: its sqlc macros are lowered, the text parses, the types
\* configured for its parameters can be declared, its statements and table
\* references are of the supported kinds, it uses sqlc.embed, and everything
\* else that local analysis looks at is in order.
IsQuery(q) ==
    /\ {q.Lowers, q.Parses, q.Declares, q.Static, q.Embeds, q.Resolves}
           \subseteq BOOLEAN
    /\ q.Name \in DOMAIN Lower
    /\ q.Uses \subseteq TableNames \X ColumnNames
    /\ q.Expands \subseteq TableNames

IsList(s) == s \in Seq(Range(s))

Names(seq) == {seq[i].Name : i \in DOMAIN seq}
NamesDistinct(seq) ==
    \A i, j \in DOMAIN seq : seq[i].Name = seq[j].Name => i = j

\* The repeated fields of a table and of its indexes.
HasLists(table) ==
    /\ IsList(table.Columns) /\ IsList(table.Indexes)
    /\ \A i \in DOMAIN table.Indexes : IsList(table.Indexes[i].DataColumns)

\* What buildCatalog guarantees, with and without diagnostics: the tables, and
\* the columns and the indexes of each, have different names, and an index
\* covers a column once.
IsLocalSchema(tables) ==
    /\ IsList(tables) /\ NamesDistinct(tables)
    /\ \A k \in DOMAIN tables :
          /\ tables[k].Name \in TableNames
          /\ HasLists(tables[k])
          /\ NamesDistinct(tables[k].Columns)
          /\ NamesDistinct(tables[k].Indexes)
          /\ \A i \in DOMAIN tables[k].Indexes :
                IsInjective(tables[k].Indexes[i].DataColumns)

\* Queries: the named queries; Readable: reading the files found nothing
\* wrong outside of them; Given and Tables: the local schema; Sound:
\* buildCatalog had no diagnostics; Parameters: names of the queries with
\* configured parameter types; Connected: whether there is a database.
IsInput(i) ==
    /\ IsList(i.Queries)
    /\ \A k \in DOMAIN i.Queries : IsQuery(i.Queries[k])
    /\ {i.Readable, i.Given, i.Sound, i.Connected} \subseteq BOOLEAN
    /\ IsLocalSchema(i.Tables)
    /\ ~i.Given => i.Connected /\ i.Sound /\ i.Tables = <<>>

ASSUME DatabaseAssumption ==
    /\ IsFiniteSet(TableNames)
    /\ Missing \notin Descriptions
    /\ \A d \in Descriptions : HasLists(d)
    /\ \A i \in Inputs : IsInput(i)
    /\ MaxParts \in Nat \ {0}
    /\ MaxMigrations \in Nat

VARIABLES
    server,      \* the description of each table on the server
    input,       \* what is analyzed
    phase,       \* the loop analyze is in
    blocks,      \* the queries that are still in the game
    at,          \* position in blocks or in references
    references,  \* the tables to describe
    stream,      \* the response of EXPLAIN still to be received, or Idle
    received,    \* whether a part of it has been received
    catalog,     \* the tables queries are resolved against
    diagnosed,   \* whether there are diagnostics
    results,     \* the analyzed queries
    compiled,    \* history: names of the queries the server compiled
    seen,        \* history: descriptions the server returned for each table
    faulty,      \* history: whether a request failed on the way
    migrations   \* history: changes of the server's schema so far

history == <<compiled, seen, faulty, migrations>>
vars == <<server, input, phase, blocks, at, references, stream, received,
          catalog, diagnosed, results, history>>

Idle == <<"idle">>
Ended == {"ok", "failed"}

-----------------------------------------------------------------------------
(***************************************************************************)
(* Tables: decoding what the server returned, and comparing it.             *)
(***************************************************************************)
Find(seq, name) == seq[CHOOSE i \in DOMAIN seq : seq[i].Name = name]

IsOptional(type) == type.Optional > 0

\* NotNull is empty when the server did not set the field.
DecodesColumn(column) ==
    /\ column.Type.Base \in KnownTypes
    /\ \A notNull \in column.NotNull : notNull # IsOptional(column.Type)
    /\ column.Default \in {"none", "sequence"}

DecodesIndex(description, index) ==
    /\ index.Kind \in {"GlobalSync", "GlobalAsync"}
    /\ index.Columns # <<>>
    /\ Range(index.Columns) \cup Range(index.DataColumns)
           \subseteq Names(description.Columns)
    /\ IsInjective(index.Columns) /\ IsInjective(index.DataColumns)
    /\ Range(index.DataColumns) \cap
           (Range(index.Columns) \cup Range(description.PrimaryKey)) = {}

\* decodeTable and normalizeDatabaseTable return no error.
Decodes(description) ==
    /\ description.Columns # <<>>
    /\ NamesDistinct(description.Columns)
    /\ \A i \in DOMAIN description.Columns :
           DecodesColumn(description.Columns[i])
    /\ IsInjective(description.PrimaryKey)
    /\ Range(description.PrimaryKey) \subseteq Names(description.Columns)
    /\ NamesDistinct(description.Indexes)
    /\ \A i \in DOMAIN description.Indexes :
           DecodesIndex(description, description.Indexes[i])

decodeTable(name, description) ==
    [Name |-> name,
     Columns |-> [i \in DOMAIN description.Columns |->
         [Name |-> description.Columns[i].Name,
          Type |-> description.Columns[i].Type,
          SequenceGenerated |-> description.Columns[i].Default = "sequence"]],
     PrimaryKey |-> description.PrimaryKey,
     Indexes |-> description.Indexes]

Occurrences(seq, x) == {i \in DOMAIN seq : seq[i] = x}

\* Fault: covering columns are compared in their order.
SameInOrder(s, t) == s = t

\* slices.Sorted on both sides makes it a comparison of multisets.
SameSorted(s, t) ==
    \A x \in Range(s) \cup Range(t) :
        Cardinality(Occurrences(s, x)) = Cardinality(Occurrences(t, x))

compareDatabaseTable(local, remote) ==
    /\ \A i \in DOMAIN local.Columns :
          LET column == local.Columns[i]
              other == Find(remote.Columns, column.Name)
          IN  /\ column.Name \in Names(remote.Columns)
              /\ column.Type = other.Type
              /\ column.SequenceGenerated = other.SequenceGenerated
    /\ Names(remote.Columns) \subseteq Names(local.Columns)
    /\ local.PrimaryKey = remote.PrimaryKey
    /\ \A i \in DOMAIN local.Indexes :
          LET index == local.Indexes[i]
              other == Find(remote.Indexes, index.Name)
          IN  /\ index.Name \in Names(remote.Indexes)
              /\ index.Kind = other.Kind
              /\ index.Columns = other.Columns
              /\ SameSorted(index.DataColumns, other.DataColumns)
    /\ Names(remote.Indexes) \subseteq Names(local.Indexes)

-----------------------------------------------------------------------------
(***************************************************************************)
(* Before any request.                                                      *)
(***************************************************************************)
\* A query whose name an earlier one has is left out, and so is one whose
\* macros cannot be lowered; both are diagnosed.
IsFirst(i) ==
    \A j \in 1 .. i - 1 :
        Lower[input.Queries[j].Name] # Lower[input.Queries[i].Name]
ValidAt(i) == IsFirst(i) /\ input.Queries[i].Lowers

\* The valid queries in the order of the files.
Rank(i) == Cardinality({j \in 1 .. i : ValidAt(j)})
ValidQueries ==
    [k \in 1 .. Rank(Len(input.Queries)) |->
        input.Queries[CHOOSE i \in DOMAIN input.Queries :
                          ValidAt(i) /\ Rank(i) = k]]

\* The queries that options.Parameters may refer to, in their own spelling.
KnownNames ==
    {input.Queries[i].Name : i \in {j \in DOMAIN input.Queries : IsFirst(j)}}

Enter(next) == phase' = next /\ at' = 1
Diagnose == diagnosed' = TRUE
NextItem == at' = at + 1

Prepare ==
    LET goesOn == input.Sound /\ input.Parameters \subseteq KnownNames
        clean == /\ input.Readable
                 /\ \A i \in DOMAIN input.Queries : ValidAt(i)
    IN  /\ phase = "starting"
        /\ \/ /\ ~goesOn
              /\ Diagnose /\ Enter("closing")
              /\ UNCHANGED blocks
           \/ /\ goesOn
              /\ blocks' = ValidQueries
              /\ diagnosed' = ~clean
              /\ Enter(IF ~input.Connected THEN "analyzing"
                       ELSE IF clean THEN "validating" ELSE "closing")
        /\ UNCHANGED <<server, input, references, stream, received, catalog,
                       results, history>>

\* The settings do not resolve, or the connection cannot be made.
OpenFails ==
    /\ phase = "starting" /\ input.Connected
    /\ Enter("failed")
    /\ Diagnose
    /\ faulty' = TRUE
    /\ UNCHANGED <<server, input, blocks, references, stream, received,
                   catalog, results, compiled, seen, migrations>>

-----------------------------------------------------------------------------
(***************************************************************************)
(* EXPLAIN.  The server compiles a text that uses some columns and expands  *)
(* some tables against its schema of that moment, and answers with a stream *)
(* of parts.  A stream may also be empty, or end in an error of the server  *)
(* or in the metadata of an execution.                                      *)
(***************************************************************************)
ServerCompiles(uses, expands) ==
    /\ \A t \in expands : server[t] # Missing
    /\ \A u \in uses : /\ server[u[1]] # Missing
                       /\ u[2] \in Names(server[u[1]].Columns)

Successes(n) == [i \in 1 .. n |-> "success"]
BrokenStreams ==
    {<<>>} \cup {Append(Successes(n), part) :
                     n \in 0 .. MaxParts - 1, part \in {"error", "metadata"}}

Explain(name, uses, expands) ==
    /\ received' = FALSE
    /\ \/ /\ ServerCompiles(uses, expands)
          /\ \E n \in 1 .. MaxParts : stream' = Successes(n)
          /\ compiled' = compiled \cup {name}
          /\ UNCHANGED faulty
       \/ /\ ~ServerCompiles(uses, expands)
          /\ stream' = <<"error">>
          /\ UNCHANGED <<compiled, faulty>>
       \/ /\ stream' \in BrokenStreams
          /\ faulty' = TRUE
          /\ UNCHANGED compiled
    /\ UNCHANGED <<phase, at, diagnosed, results, seen, migrations>>

\* What a query uses once wildcards are expanded from the catalog.
CatalogColumns(t) ==
    {<<t, c>> : c \in Names(Find(catalog, t).Columns)}
ExpandedUses(q) == q.Uses \cup UNION {CatalogColumns(t) : t \in q.Expands}

Result(q) ==
    [Name |-> q.Name,
     Columns |-> [u \in ExpandedUses(q) |->
                     Find(Find(catalog, u[1]).Columns, u[2]).Type]]

\* The loop goes on after an error; the analyzed query is kept on success.
ExplainEnds(success) ==
    /\ stream' = Idle
    /\ received' = FALSE
    /\ NextItem
    /\ IF success THEN UNCHANGED diagnosed ELSE Diagnose
    /\ IF success /\ phase = "analyzing"
       THEN results' = Append(results, Result(blocks[at]))
       ELSE UNCHANGED results
    /\ UNCHANGED <<server, input, phase, blocks, references, catalog,
                   compiled, seen, migrations>>

Receive ==
    /\ stream # Idle /\ stream # <<>>
    /\ \/ /\ Head(stream) = "success"
          /\ received' = TRUE
          /\ stream' = Tail(stream)
          /\ UNCHANGED <<server, input, phase, blocks, at, references,
                         catalog, diagnosed, results, history>>
       \/ /\ Head(stream) # "success"
          /\ ExplainEnds(FALSE)
          /\ UNCHANGED faulty

\* Fault: an empty stream is taken for success.
ReceiveEOFEmpty ==
    /\ stream = <<>>
    /\ ExplainEnds(TRUE)
    /\ UNCHANGED faulty

\* A clean end of the stream is a success only after a part of it.
ReceiveEOF ==
    /\ stream = <<>>
    /\ ExplainEnds(received)
    /\ UNCHANGED faulty

\* The connection breaks, or the deadline of the request passes.
ReceiveFails ==
    /\ stream # Idle
    /\ ExplainEnds(FALSE)
    /\ faulty' = TRUE

\* One query of the validation loop; sqlc.embed has to be expanded first.
Validate ==
    LET q == blocks[at]
        refused == ~q.Parses \/ (~q.Embeds /\ ~q.Declares)
    IN  /\ phase = "validating" /\ at <= Len(blocks) /\ stream = Idle
        /\ \/ /\ refused
              /\ Diagnose /\ NextItem
              /\ UNCHANGED <<phase, stream, received, results, history>>
           \/ /\ ~refused /\ q.Embeds
              /\ NextItem
              /\ UNCHANGED <<phase, stream, received, diagnosed, results,
                             history>>
           \/ /\ ~refused /\ ~q.Embeds
              /\ Explain(q.Name, q.Uses, q.Expands)
        /\ UNCHANGED <<server, input, blocks, references, catalog>>

-----------------------------------------------------------------------------
(***************************************************************************)
(* databaseCatalog.  With a local schema its tables are described and       *)
(* compared; without one the tables the queries refer to are described and  *)
(* become the catalog.                                                      *)
(***************************************************************************)
TablesOf(q) == q.Expands \cup {u[1] : u \in q.Uses}

\* Each table once; the order in which the text mentions them is left open.
References ==
    IF input.Given
    THEN {[i \in DOMAIN input.Tables |-> input.Tables[i].Name]}
    ELSE SetToSeqs(UNION {TablesOf(blocks[i]) : i \in DOMAIN blocks})

ValidateEnd ==
    LET static == \A i \in DOMAIN blocks : blocks[i].Static
    IN  /\ phase = "validating" /\ at > Len(blocks) /\ stream = Idle
        /\ \/ /\ diagnosed \/ ~static
              /\ Diagnose
              /\ Enter("closing")
              /\ UNCHANGED references
           \/ /\ ~diagnosed /\ static
              /\ references' \in References
              /\ Enter("describing")
              /\ UNCHANGED diagnosed
        /\ UNCHANGED <<server, input, blocks, stream, received, catalog,
                       results, history>>

Describe ==
    LET name == references[at]
        description == server[name]
        decoded == description # Missing /\ Decodes(description)
        table == decodeTable(name, description)
    IN  /\ phase = "describing" /\ at <= Len(references)
        /\ NextItem
        /\ seen' = [seen EXCEPT ![name] = @ \cup {description}]
        /\ \/ ~decoded /\ Diagnose /\ UNCHANGED catalog
           \/ /\ decoded /\ ~input.Given
              /\ catalog' = Append(catalog, table)
              /\ UNCHANGED diagnosed
           \/ /\ decoded /\ input.Given
              /\ diagnosed' =
                     (diagnosed \/ ~compareDatabaseTable(Find(catalog, name), table))
              /\ UNCHANGED catalog
        /\ UNCHANGED <<server, input, phase, blocks, references, stream,
                       received, results, compiled, faulty, migrations>>

\* The request fails or times out, or its operation is incomplete.
DescribeFails ==
    /\ phase = "describing" /\ at <= Len(references)
    /\ NextItem /\ Diagnose
    /\ faulty' = TRUE
    /\ UNCHANGED <<server, input, phase, blocks, references, stream, received,
                   catalog, results, compiled, seen, migrations>>

DescribeEnd ==
    /\ phase = "describing" /\ at > Len(references)
    /\ Enter(IF diagnosed THEN "closing" ELSE "analyzing")
    /\ UNCHANGED <<server, input, blocks, references, stream, received,
                   catalog, diagnosed, results, history>>

-----------------------------------------------------------------------------
(***************************************************************************)
(* analyzeExecutableQuery for one query after another, and EXPLAIN of the   *)
(* expanded text of a query with sqlc.embed.                                *)
(***************************************************************************)
ResolvesIn(q) ==
    /\ q.Parses /\ q.Declares /\ q.Static /\ q.Resolves
    /\ TablesOf(q) \subseteq Names(catalog)
    /\ \A u \in q.Uses : u[2] \in Names(Find(catalog, u[1]).Columns)

Analyze ==
    LET q == blocks[at]
        validates == input.Connected /\ q.Embeds
    IN  /\ phase = "analyzing" /\ at <= Len(blocks) /\ stream = Idle
        /\ \/ /\ ~ResolvesIn(q)
              /\ Diagnose /\ NextItem
              /\ UNCHANGED <<phase, stream, received, results, history>>
           \/ /\ ResolvesIn(q) /\ ~validates
              /\ results' = Append(results, Result(q))
              /\ NextItem
              /\ UNCHANGED <<phase, stream, received, diagnosed, history>>
           \/ /\ ResolvesIn(q) /\ validates
              /\ Explain(q.Name, ExpandedUses(q), {})
        /\ UNCHANGED <<server, input, blocks, references, catalog>>

AnalyzeEnd ==
    /\ phase = "analyzing" /\ at > Len(blocks) /\ stream = Idle
    /\ Enter("closing")
    /\ UNCHANGED <<server, input, blocks, references, stream, received,
                   catalog, diagnosed, results, history>>

\* The connection is closed; an error of Close joins the diagnostics.
Close ==
    /\ phase = "closing"
    /\ Enter(IF diagnosed THEN "failed" ELSE "ok")
    /\ UNCHANGED <<server, input, blocks, references, stream, received,
                   catalog, diagnosed, results, history>>

\* Fault: the error of Close is dropped.
CloseFailsIgnored ==
    /\ phase = "closing" /\ input.Connected
    /\ Enter(IF diagnosed THEN "failed" ELSE "ok")
    /\ faulty' = TRUE
    /\ UNCHANGED <<server, input, blocks, references, stream, received,
                   catalog, diagnosed, results, compiled, seen, migrations>>

CloseFails ==
    /\ phase = "closing" /\ input.Connected
    /\ Enter("failed")
    /\ Diagnose
    /\ faulty' = TRUE
    /\ UNCHANGED <<server, input, blocks, references, stream, received,
                   catalog, results, compiled, seen, migrations>>

-----------------------------------------------------------------------------
\* Somebody migrates the database while the analysis is running.
Migrate ==
    /\ phase \notin Ended /\ input.Connected
    /\ migrations < MaxMigrations
    /\ \E t \in TableNames, d \in Descriptions \cup {Missing} :
           server[t] # d /\ server' = [server EXCEPT ![t] = d]
    /\ migrations' = migrations + 1
    /\ UNCHANGED <<input, phase, blocks, at, references, stream, received,
                   catalog, diagnosed, results, compiled, seen, faulty>>

Init ==
    /\ server \in [TableNames -> Descriptions \cup {Missing}]
    /\ input \in Inputs
    /\ phase = "starting"
    /\ blocks = <<>>
    /\ at = 1
    /\ references = <<>>
    /\ stream = Idle
    /\ received = FALSE
    /\ catalog = input.Tables
    /\ diagnosed = FALSE
    /\ results = <<>>
    /\ compiled = {}
    /\ seen = [t \in TableNames |-> {}]
    /\ faulty = FALSE
    /\ migrations = 0

Step ==
    \/ Prepare \/ OpenFails \/ Validate \/ ValidateEnd
    \/ Receive \/ ReceiveEOF \/ ReceiveFails
    \/ Describe \/ DescribeFails \/ DescribeEnd
    \/ Analyze \/ AnalyzeEnd \/ Close \/ CloseFails

Next == Step \/ Migrate

Spec == Init /\ [][Next]_vars

-----------------------------------------------------------------------------
(***************************************************************************)
(* Properties.                                                              *)
(***************************************************************************)

\* What a reader of two tables would call the same: columns by name, whatever
\* their order; the primary key in its order; indexes by name, their keys in
\* order and the columns they cover in any order.
Equivalent(table, description) ==
    /\ {<<c.Name, c.Type, c.SequenceGenerated>> : c \in Range(table.Columns)}
       = {<<c.Name, c.Type, c.Default = "sequence">> :
              c \in Range(description.Columns)}
    /\ table.PrimaryKey = description.PrimaryKey
    /\ {<<x.Name, x.Kind, x.Columns, Range(x.DataColumns)>> :
            x \in Range(table.Indexes)}
       = {<<x.Name, x.Kind, x.Columns, Range(x.DataColumns)>> :
              x \in Range(description.Indexes)}

\* A connected analysis that succeeds has a result for every query of the
\* files, in their order; the server compiled each of them; each type in a
\* result was reported by the server for that column; and every table of a
\* local schema was found equivalent to what the server reported.  All of it
\* holds although the server's schema changes between the requests.
SuccessWasChecked ==
    phase = "ok" /\ input.Connected =>
        /\ Len(results) = Len(input.Queries)
        /\ \A i \in DOMAIN results :
              /\ results[i].Name = input.Queries[i].Name
              /\ results[i].Name \in compiled
              /\ \A u \in DOMAIN results[i].Columns :
                    \E d \in seen[u[1]] \ {Missing} :
                        \E c \in Range(d.Columns) :
                            /\ c.Name = u[2]
                            /\ c.Type = results[i].Columns[u]
        /\ \A table \in Range(input.Tables) :
              \E d \in seen[table.Name] \ {Missing} : Equivalent(table, d)

\* "A server error fails the command": whichever request fails, in whichever
\* loop and at whichever part of a response, the analysis does not succeed.
ErrorsSurface == faulty => phase # "ok"

HasColumn(columns, name) == \E c \in Range(columns) : c.Name = name

\* What the inputs and the database have to be for a set to be acceptable.
QueryAcceptable(q) ==
    /\ q.Lowers /\ q.Parses /\ q.Declares /\ q.Static /\ q.Resolves
    /\ input.Connected =>
          /\ \A t \in TablesOf(q) : server[t] # Missing
          /\ \A u \in q.Uses : HasColumn(server[u[1]].Columns, u[2])
          /\ ~input.Given => \A t \in TablesOf(q) : Decodes(server[t])
    /\ input.Given =>
          /\ \A t \in TablesOf(q) :
                \E table \in Range(input.Tables) : table.Name = t
          /\ \A u \in q.Uses :
                \E table \in Range(input.Tables) :
                    table.Name = u[1] /\ HasColumn(table.Columns, u[2])

Acceptable ==
    /\ input.Sound /\ input.Readable
    /\ \A i, j \in DOMAIN input.Queries :
          Lower[input.Queries[i].Name] = Lower[input.Queries[j].Name] => i = j
    /\ \A name \in input.Parameters :
          \E q \in Range(input.Queries) : q.Name = name
    /\ \A q \in Range(input.Queries) : QueryAcceptable(q)
    /\ input.Connected =>
          \A table \in Range(input.Tables) :
              /\ server[table.Name] # Missing
              /\ Decodes(server[table.Name])
              /\ Equivalent(table, server[table.Name])

\* With a server that answers and does not change, analysis succeeds exactly
\* on acceptable input: the order of columns and covering columns, and the
\* order in which tables are described, make no difference.
VerdictIsExact ==
    phase \in Ended /\ ~faulty /\ migrations = 0 =>
        (phase = "ok" <=> Acceptable)
=============================================================================
