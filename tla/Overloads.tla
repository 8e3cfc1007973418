----------------------------- MODULE Overloads -----------------------------
(***************************************************************************)
(* Signatures of functions and the calls that match them                    *)
(* (internal/yql/builtins/signatures.go), those that the analyzer ships and *)
(* those that the user configures.                                          *)
(*                                                                          *)
(* An argument of a call has a name (or ""), a type, its value when it is a *)
(* direct integer literal, whether it is a direct string literal with valid *)
(* UTF-8, and whether it is a direct ListCreate.  Values of literals are    *)
(* below 2^31.  Every resolver returns the zero type for an error.          *)
(*                                                                          *)
(* Which types are valid is a matter of what containers hold, which Builtins *)
(* says by recursion and every configuration assigns.                       *)
(***************************************************************************)
EXTENDS YQLTypes, Integers, SequencesExt

CONSTANTS
    ValidType(_),               \* validateConcreteOrNull
    ValidSignatureType(_, _)    \* validateSignatureType: a type, inside an Optional

CallArgument(name, type, integer, text, empty) ==
    [Name |-> name, Type |-> type, IntegerLiteral |-> integer,
     StringLiteral |-> text, EmptyList |-> empty]
Plain(t) == CallArgument("", t, <<>>, FALSE, FALSE)

\* An argument given by name, or a parameter that has one.
HasName(a) == a.Name # ""

If(accepted, t) == IF accepted THEN t ELSE ZeroType

\* baseType: the base is UnwrapOptional(t) when there is no error.
hasBase(t) ==
    /\ IsOptional(t) => ~IsOptional(Elem(t))
    /\ ValidType(UnwrapOptional(t))

\* A literal is below 2^31, so that it fits the wider signed kinds.
integerLiteralFits(literal, kind) ==
    /\ literal # <<>>
    /\ LET value == literal[1]
           bits == integerBits[kind]
       IN  IF isSigned(kind)
           THEN bits <= 16 => -(2 ^ (bits - 1)) <= value /\ value < 2 ^ (bits - 1)
           ELSE value >= 0 /\ (bits <= 16 => value < 2 ^ bits)

-----------------------------------------------------------------------------
(***************************************************************************)
(* Signatures.                                                              *)
(***************************************************************************)
Parameter(name, type, optional, automap) ==
    [Name |-> name, Type |-> type, Optional |-> optional, AutoMap |-> automap]
Signature(name, arguments, returns) ==
    [Name |-> name, Arguments |-> arguments, Returns |-> returns]

validateSignature(s) ==
    /\ ValidSignatureType(s.Returns, FALSE)
    /\ \A i \in DOMAIN s.Arguments :
          LET p == s.Arguments[i]
          IN  /\ ValidSignatureType(p.Type, FALSE)
              /\ HasName(p) => \A j \in 1 .. i - 1 : s.Arguments[j].Name # p.Name
              /\ p.AutoMap => ~IsOptional(p.Type)
              /\ i > 1 /\ s.Arguments[i - 1].Optional => p.Optional

parametersOverlap(left, right) == UnwrapOptional(left.Type) = UnwrapOptional(right.Type)

\* 0 for a name that no parameter has.
parameterIndex(parameters, name) ==
    LET found == {i \in DOMAIN parameters : parameters[i].Name = name}
    IN  IF found = {} THEN 0 ELSE Min(found)

requiredNamesOverlap(left, right, prefix) ==
    \A i \in prefix + 1 .. Len(left) :
        \/ left[i].Optional
        \/ LET index == parameterIndex(right, left[i].Name)
           IN  /\ HasName(left[i]) /\ index > prefix
               /\ parametersOverlap(left[i], right[index])

\* Fault: only calls with positional arguments are considered.
signaturesOverlapPositional(left, right) ==
    LET l == left.Arguments
        r == right.Arguments
    IN  /\ Len(l) = Len(r)
        /\ \A i \in DOMAIN l : parametersOverlap(l[i], r[i])

\* Some number of positional arguments, the rest by name or left out.
signaturesOverlap(left, right) ==
    LET l == left.Arguments
        r == right.Arguments
    IN  \E prefix \in 0 .. Min({Len(l), Len(r)}) :
            /\ \A i \in 1 .. prefix : parametersOverlap(l[i], r[i])
            /\ requiredNamesOverlap(l, r, prefix)
            /\ requiredNamesOverlap(r, l, prefix)

-----------------------------------------------------------------------------
(***************************************************************************)
(* Calls.                                                                   *)
(***************************************************************************)

\* Whether an argument may be bound to a parameter.
matchParameter(argument, parameter) ==
    LET actual == UnwrapOptional(argument.Type)
        expected == UnwrapOptional(parameter.Type)
        optional == IsOptional(parameter.Type)
    IN  /\ hasBase(parameter.Type) /\ hasBase(argument.Type)
        /\ \/ actual = Null /\ (parameter.AutoMap \/ optional)
           \/ /\ \/ actual = expected
                 \/ /\ isInteger(actual) /\ isInteger(expected)
                    /\ integerLiteralFits(argument.IntegerLiteral, expected.Kind)
                 \/ /\ actual = Scalar("String") /\ expected = Scalar("Utf8")
                    /\ argument.StringLiteral
              /\ IsOptional(argument.Type) => parameter.AutoMap \/ optional

\* NULL, or a nullable argument, of an AutoMap parameter.
Propagates(argument, parameter) ==
    parameter.AutoMap /\ (IsOptional(argument.Type) \/ argument.Type = Null)

\* The parameter that each argument is bound to, 0 for none.
Bound(args, parameters) ==
    [i \in DOMAIN args |->
        IF HasName(args[i]) THEN parameterIndex(parameters, args[i].Name)
        ELSE IF i > Len(parameters) \/ \E j \in 1 .. i : HasName(args[j])
        THEN 0 ELSE i]

Matches(args, s) ==
    LET bound == Bound(args, s.Arguments)
        missing == DOMAIN s.Arguments \ ToSet(bound)
    IN  /\ 0 \notin ToSet(bound) /\ IsInjective(bound)
        /\ \A p \in missing : s.Arguments[p].Optional
        /\ \A i \in DOMAIN args : matchParameter(args[i], s.Arguments[bound[i]])

matchSignature(args, s) ==
    LET bound == Bound(args, s.Arguments)
        nullable == \E i \in DOMAIN args : Propagates(args[i], s.Arguments[bound[i]])
    IN  If(Matches(args, s), withOptional(s.Returns, nullable))

\* A call with several matching overloads is ambiguous and refused.
resolveSignatures(args, signatures) ==
    LET matches == {i \in DOMAIN signatures : Matches(args, signatures[i])}
    IN  IF \E i \in DOMAIN signatures : matches = {i}
        THEN matchSignature(args, signatures[Min(matches)]) ELSE ZeroType
=============================================================================
