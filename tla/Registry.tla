------------------------------ MODULE Registry ------------------------------
(***************************************************************************)
(* The registry of configured functions (Registry and NewRegistry in        *)
(* internal/yql/builtins/signatures.go): the signatures of the              *)
(* configuration are read one by one, and one that overlaps with another of *)
(* its name is refused, before any query is analyzed.                       *)
(***************************************************************************)
EXTENDS Overloads

CONSTANTS
    Signatures,         \* the configured function signatures
    KnownFunction(_)    \* isKnownFunction: the names that the analyzer ships

\* The parameters of a signature are a slice.
ASSUME ParametersAreSequences ==
    \A s \in Signatures : s.Arguments \in Seq(ToSet(s.Arguments))

VARIABLES
    functions,      \* Registry.custom: the signatures of each name
    pending,        \* the configured signatures that are not read yet
    status          \* of the analysis: "registering" until the first query is read,
                    \* "refused" after an error, and those of QueryAnalysis

\* The configuration has any of the signatures, in any order.
RegistryInit ==
    functions = <<>> /\ pending \in SUBSET Signatures /\ status = "registering"

Custom(name) == IF name \in DOMAIN functions THEN functions[name] ELSE <<>>

AcceptsSignature(s) ==
    /\ ~KnownFunction(s.Name) /\ validateSignature(s)
    /\ \A i \in DOMAIN Custom(s.Name) : ~signaturesOverlap(Custom(s.Name)[i], s)

\* NewRegistry, one configured signature at a time.
RegisterSignature ==
    /\ status = "registering"
    /\ \E s \in pending :
          /\ pending' = pending \ {s}
          /\ \/ /\ AcceptsSignature(s) /\ UNCHANGED status
                /\ functions' = [name \in DOMAIN functions \cup {s.Name} |->
                                    IF name = s.Name THEN Append(Custom(name), s)
                                    ELSE functions[name]]
             \/ ~AcceptsSignature(s) /\ status' = "refused" /\ UNCHANGED functions

\* The analysis of queries leaves the registry alone, whatever its status is.
RegistrySpec == RegistryInit /\ [][RegisterSignature]_<<functions, pending>>

-----------------------------------------------------------------------------
(***************************************************************************)
(* Properties.                                                              *)
(***************************************************************************)

\* Arguments that have a type and are no literals, which fit several types.
Typed(args) ==
    \A i \in DOMAIN args :
        /\ args[i].IntegerLiteral = <<>> /\ args[i].StringLiteral = FALSE
        /\ UnwrapOptional(args[i].Type) # Null

Unambiguous(args, signatures) ==
    \A i, j \in DOMAIN signatures :
        Matches(args, signatures[i]) /\ Matches(args, signatures[j]) => i = j

\* Calls with up to two arguments of the types and names of the signatures.
CallArguments(signatures) ==
    LET parameters == UNION {ToSet(s.Arguments) : s \in signatures}
        types == {p.Type : p \in parameters} \cup {Optional(p.Type) : p \in
                     {q \in parameters : ~IsOptional(q.Type)}}
    IN  {CallArgument(n, t, <<>>, FALSE, FALSE) : n \in {""} \cup {p.Name : p \in parameters}, t \in types}
CallsOf(signatures) ==
    LET arguments == CallArguments(signatures)
    IN  {<<>>} \cup {<<a>> : a \in arguments} \cup {<<a, b>> : a \in arguments, b \in arguments}

\* No call with typed arguments, by position or by name, matches two signatures
\* that the registry has accepted (signaturesOverlap in NewRegistry): an
\* ambiguity is reported for the configuration, not for the query.
OverlapIsExact ==
    \A n \in DOMAIN functions : \A args \in CallsOf(ToSet(functions[n])) :
        Typed(args) => Unambiguous(args, functions[n])
=============================================================================
