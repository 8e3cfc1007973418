------------------------------ MODULE YQLTypes ------------------------------
(***************************************************************************)
(* YQL types as the analyzer keeps them (internal/model) and the rules that *)
(* need no look inside containers: integer widths, common types, casts and  *)
(* how the uses of a parameter narrow its type.                             *)
(*                                                                          *)
(* Items are the element of Optional and List, the key and element of Dict, *)
(* the items of Tuple and Struct, the arguments and the result of Callable; *)
(* Names are the fields of Struct, or precision and scale of Decimal.  The  *)
(* zero type stands for an error or for a parameter with conflicting uses.  *)
(***************************************************************************)
EXTENDS Naturals, Sequences

Type(kind, items, names) == [Kind |-> kind, Items |-> items, Names |-> names]
Scalar(kind) == Type(kind, <<>>, <<>>)
ZeroType == Scalar("")
Null == Scalar("Null")

Optional(t) == Type("Optional", <<t>>, <<>>)
List(t) == Type("List", <<t>>, <<>>)
IsOptional(t) == t.Kind = "Optional"
Elem(t) == t.Items[Len(t.Items)]
UnwrapOptional(t) == IF IsOptional(t) THEN t.Items[1] ELSE t

\* Never a second level.
withOptional(t, nullable) ==
    IF nullable /\ ~IsOptional(t) THEN Optional(t) ELSE t

-----------------------------------------------------------------------------
(***************************************************************************)
(* Numbers.                                                                 *)
(***************************************************************************)
SignedKinds == {"Int8", "Int16", "Int32", "Int64"}
UnsignedKinds == {"Uint8", "Uint16", "Uint32", "Uint64"}
IntegerKinds == SignedKinds \cup UnsignedKinds

integerBits ==
    [kind \in IntegerKinds |->
        CASE kind \in {"Int8", "Uint8"} -> 8
          [] kind \in {"Int16", "Uint16"} -> 16
          [] kind \in {"Int32", "Uint32"} -> 32
          [] kind \in {"Int64", "Uint64"} -> 64]
isSigned(kind) == kind \in SignedKinds

isInteger(t) == t.Kind \in IntegerKinds
isFloating(t) == t.Kind \in {"Float", "Double"}
isPrimitiveNumber(t) == isInteger(t) \/ isFloating(t) \/ t.Kind = "Decimal"
isString(t) == t.Kind \in {"String", "Utf8"}

\* The wider of the two, the signed one of two equally wide.
commonInteger(left, right) ==
    IF isSigned(left) = isSigned(right)
    THEN IF integerBits[right] > integerBits[left] THEN right ELSE left
    ELSE LET signed == IF isSigned(left) THEN left ELSE right
             unsigned == IF isSigned(left) THEN right ELSE left
         IN  IF integerBits[signed] >= integerBits[unsigned]
             THEN signed ELSE unsigned

\* Nothing common is the zero type.
commonConcreteType(left, right) ==
    IF left = right THEN left
    ELSE IF isInteger(left) /\ isInteger(right)
    THEN Scalar(commonInteger(left.Kind, right.Kind))
    ELSE IF /\ isPrimitiveNumber(left) /\ isPrimitiveNumber(right)
            /\ "Decimal" \notin {left.Kind, right.Kind}
    THEN Scalar(IF "Double" \in {left.Kind, right.Kind} THEN "Double" ELSE "Float")
    ELSE ZeroType

totalIntegerCast(source, target) ==
    IF isSigned(source) = isSigned(target)
    THEN integerBits[target] >= integerBits[source]
    ELSE isSigned(target) /\ integerBits[target] > integerBits[source]

\* Lossless assignment of an integer that keeps its resolved type.
CanWidenInteger(source, target) ==
    LET from == UnwrapOptional(source)
        to == UnwrapOptional(target)
    IN  /\ IsOptional(source) => IsOptional(target)
        /\ isInteger(from) /\ isInteger(to)
        /\ \/ /\ isSigned(from.Kind) = isSigned(to.Kind)
              /\ integerBits[from.Kind] <= integerBits[to.Kind]
           \/ /\ ~isSigned(from.Kind) /\ isSigned(to.Kind)
              /\ integerBits[from.Kind] < integerBits[to.Kind]

\* Whether there is a CAST between two bases, and whether it may yield NULL.
castSupported(source, target) ==
    \/ source = target
    \/ isInteger(source) /\ target.Kind = "Bool"
    \/ source.Kind = "Bool" /\ isInteger(target)
    \/ source.Kind \in {"Date", "Datetime", "Timestamp"} /\ target.Kind = "String"
    \/ <<source.Kind, target.Kind>>
           \in {<<"Timestamp", "Uint64">>, <<"Uint64", "Timestamp">>}
    \/ isString(source) /\ target.Kind = "Json"
    \/ /\ isInteger(source) \/ isFloating(source)
       /\ isInteger(target) \/ isFloating(target)
    \/ isString(source) /\ isPrimitiveNumber(target)
    \/ isPrimitiveNumber(source) /\ target.Kind = "String"
    \/ isString(source) /\ isString(target)

castMayFail(source, target) ==
    /\ source # target
    /\ \/ source.Kind = "Uint64" /\ target.Kind = "Timestamp"
       \/ isString(source) /\ target.Kind = "Json"
       \/ /\ isInteger(source) /\ isInteger(target)
          /\ ~totalIntegerCast(source.Kind, target.Kind)
       \/ isFloating(source) /\ isInteger(target)
       \/ isString(source) /\ isPrimitiveNumber(target)
       \/ source.Kind = "String" /\ target.Kind = "Utf8"

-----------------------------------------------------------------------------
(***************************************************************************)
(* Parameters and columns.                                                  *)
(***************************************************************************)

\* A value of type left can be used where right is expected.
compatibleTypes(left, right) ==
    left = right \/ (IsOptional(right) /\ left = UnwrapOptional(right))

\* What one more use does to the type of a parameter: the required type wins
\* over the optional one, a conflict stays.
narrowed(previous, t) ==
    IF previous = t \/ previous = ZeroType THEN previous
    ELSE IF UnwrapOptional(previous) = UnwrapOptional(t)
    THEN IF IsOptional(t) THEN previous ELSE t
    ELSE ZeroType

\* inferred maps the parameters that have been used to their types.
inferParameter(inferred, name, t) ==
    [n \in DOMAIN inferred \cup {name} |->
        IF n # name THEN inferred[n]
        ELSE IF n \in DOMAIN inferred THEN narrowed(inferred[n], t) ELSE t]

joinedColumn(t, optional) == withOptional(t, optional)
=============================================================================
