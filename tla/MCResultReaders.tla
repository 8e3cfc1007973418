-------------------------- MODULE MCResultReaders --------------------------
(***************************************************************************)
(* ResultReaders for every kind of method and all responses of up to        *)
(* MaxSets result sets with up to MaxRows rows each, or one set more.       *)
(***************************************************************************)
EXTENDS ResultReaders

CONSTANTS MaxSets, MaxRows

Method(runtime, command, multiple, schemas) ==
    [Runtime |-> runtime, Command |-> command, Multiple |-> multiple,
     Schemas |-> schemas]

MCMethods ==
    {Method(runtime, "each", FALSE, <<"a">>) :
        runtime \in {"ydb", "sql", "jdbc"}}
    \cup {Method(runtime, "multi", TRUE, <<"a", "b">>) :
              runtime \in {"ydb", "sql", "jdbc"}}
    \cup {Method(runtime, "many", multiple, <<"a">>) :
              runtime \in {"ydb", "sql", "jdbc"}, multiple \in BOOLEAN}
    \cup {Method(runtime, "exec", TRUE, <<"a">>) : runtime \in {"sql", "jdbc"}}

\* The value of a row is its position; only the last row may fail to scan.
RowsOf(n, scans) ==
    [i \in 1 .. n |-> [Value |-> i, Scans |-> scans \/ i < n]]
ResultSets ==
    {[Schema |-> schema, Rows |-> RowsOf(n, scans)] :
        schema \in {"a", "b"}, n \in 0 .. MaxRows, scans \in BOOLEAN}
UpTo(S, n) == UNION {[1 .. k -> S] : k \in 0 .. n}

Extra == [Schema |-> "a", Rows |-> <<>>]

MCResponses ==
    {[Sets |-> sets, Failure |-> failure] :
        sets \in UpTo(ResultSets, MaxSets), failure \in BOOLEAN}
    \cup {[Sets |-> Append(sets, Extra), Failure |-> FALSE] :
              sets \in [1 .. MaxSets -> ResultSets]}
=============================================================================
