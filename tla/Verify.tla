------------------------------- MODULE Verify -------------------------------
(***************************************************************************)
(* `sqlc-ydb verify`: a query as it was released, analyzed against its own  *)
(* schema; the text that its client executes, with wildcards written out    *)
(* and macros lowered, analyzed again against the proposed schema; and the  *)
(* comparison of the two.  The analysis is QueryAnalysis, twice.            *)
(*                                                                          *)
(* The proposed configuration's own queries are checked before (prepare in  *)
(* Generate); reading files and the database connection are left out.       *)
(***************************************************************************)
EXTENDS QueryMeaning

CONSTANTS
    ReleasedName,   \* the name of the released query set, "" without one
    ReleasedIndex,  \* its position in the released configuration
    Proposed        \* proposed configurations: sequences of query sets

VARIABLES
    phase,      \* released, proposed, verified, failed
    proposal,   \* the proposed configuration
    release     \* the AnalyzedQuery of the release

verifyVars == <<vars, phase, proposal, release>>

QuerySet(name, tables) == [name |-> name, tables |-> tables]

\* The only set of the same name, or the unnamed set at the same position;
\* 0 without one.
proposedSet(sets, name, index) ==
    LET named == {i \in DOMAIN sets : sets[i].name = name}
    IN  IF name = "" THEN (IF index \in named THEN index ELSE 0)
        ELSE IF Cardinality(named) = 1 THEN CHOOSE i \in named : TRUE ELSE 0

\* Fault: the text as it was authored.
authoredText == [current EXCEPT !.macros = <<>>]

\* The released text: AnalyzedQuery.SQL has neither macros nor wildcards.
executable == [current EXCEPT !.macros = <<>>, !.written = block.expanded]

VerifyInit == Init /\ phase = "released" /\ proposal = <<>> /\ release = NoReport

Released == (Register \/ Begin) /\ phase = "released" /\ UNCHANGED <<phase, proposal, release>>
Analyze ==
    /\ LocalBinding \/ DataStatement \/ Finish
    /\ UNCHANGED <<phase, proposal, release>>

\* The released functions and parameter types go with the released text.
VerifyRelease ==
    /\ phase = "released" /\ status = "analyzed"
    /\ release' = report
    /\ \E sets \in Proposed :
          LET match == proposedSet(sets, ReleasedName, ReleasedIndex)
          IN  /\ proposal' = sets
              /\ \/ match = 0 /\ phase' = "failed" /\ UNCHANGED vars
                 \/ /\ match # 0 /\ phase' = "proposed"
                    /\ catalog' = sets[match].tables /\ current' = executable
                    /\ pass' = "authored" /\ report' = NoReport /\ authored' = NoReport
                    /\ Begins(sets[match].tables, functions, executable, <<>>, <<>>)
                    /\ UNCHANGED <<functions, pending, query>>

\* Fault: names only.
sameNames(old, next) ==
    /\ DOMAIN old.parameters = DOMAIN next.parameters
    /\ Len(old.results) = Len(next.results)
    /\ \A r \in DOMAIN old.results :
          /\ Len(old.results[r]) = Len(next.results[r])
          /\ \A c \in DOMAIN old.results[r] :
                ResultName(old.results[r][c]) = ResultName(next.results[r][c])

\* Parameters by name, results by position.
verifyQuery(old, next) ==
    /\ old.parameters = next.parameters
    /\ Len(old.results) = Len(next.results)
    /\ \A r \in DOMAIN old.results :
          /\ Len(old.results[r]) = Len(next.results[r])
          /\ \A c \in DOMAIN old.results[r] :
                /\ ResultName(old.results[r][c]) = ResultName(next.results[r][c])
                /\ old.results[r][c].Type = next.results[r][c].Type

Compare ==
    /\ phase = "proposed" /\ status \in {"analyzed", "refused"}
    /\ phase' = IF status = "analyzed" /\ verifyQuery(release, report) THEN "verified" ELSE "failed"
    /\ UNCHANGED <<vars, proposal, release>>

VerifyNext == Released \/ Analyze \/ VerifyRelease \/ Compare
VerifySpec == VerifyInit /\ [][VerifyNext]_verifyVars

-----------------------------------------------------------------------------
\* A verified client can go on with the proposed schema: given parameters of
\* the types it was generated for, no row that the server can then return has
\* NULL where its generated code expects a value (verify.go, over the analysis
\* of both texts).
VerifiedIsSafe ==
    phase = "verified" /\ MeaningKnown =>
        ResultsFit(release.parameters, release.results[1])

\* What a schema may add without touching the columns that a release uses.
Extends(tables, more) ==
    \A path \in DOMAIN tables :
        /\ path \in DOMAIN more
        /\ \A n \in ColumnNames(tables[path]) :
              /\ n \in ColumnNames(more[path])
              /\ tableColumn(tables[path], n) = tableColumn(more[path], n)
        /\ \A n \in ColumnNames(more[path]) \ ColumnNames(tables[path]) :
              IsOptional(tableColumn(more[path], n).Type)
UsesNarg == \E n \in DOMAIN release.parameters :
                \E i \in DOMAIN Queries[query].macros :
                    Queries[query].macros[i] = [name |-> n, macro |-> "narg", afterIN |-> FALSE]

\* Columns, tables and query sets that are added, in any order, never fail a
\* release: its text has no wildcard left that they could change
\* (analyzeExecutableQuery, nameImplicitProjections, proposedSet).  Queries with
\* sqlc.narg are excepted; see UnchangedVerifies.
AdditionsVerify ==
    phase = "failed" =>
        \/ UsesNarg
        \/ LET match == proposedSet(proposal, ReleasedName, ReleasedIndex)
           IN  match = 0 \/ ~Extends(Tables, proposal[match].tables)

\* A release verifies against its own schema: a failure is a change, as the
\* documentation of verify has it.
UnchangedVerifies ==
    phase = "failed" => \A i \in DOMAIN proposal : proposal[i] # QuerySet(ReleasedName, Tables)
=============================================================================
