------------------------------ MODULE Builtins ------------------------------
(***************************************************************************)
(* The type of a function call (internal/yql/builtins): the core functions, *)
(* the collections, and which types are valid.  Every resolver returns the  *)
(* zero type for an error.                                                  *)
(***************************************************************************)
EXTENDS Overloads

-----------------------------------------------------------------------------
(***************************************************************************)
(* Types that can take part in a resolution.                                *)
(***************************************************************************)
supportedScalarKinds ==
    IntegerKinds \cup
    {"Bool", "Float", "Double", "String", "Utf8", "Yson", "Json", "JsonDocument",
     "Uuid", "DyNumber", "Date", "Datetime", "Timestamp", "Interval", "Date32",
     "Datetime64", "Timestamp64", "Interval64", "TzDate", "TzDatetime",
     "TzTimestamp", "TzDate32", "TzDatetime64", "TzTimestamp64", "Null", "Void"}

\* The opaque values of the library modules.
dateTimeTM == "Resource<'DateTime2.TM'>"
dateTimeTM64 == "Resource<'DateTime2.TM64'>"
ysonNodeResource == "Resource<'Yson2.Node'>"
ysonOptionsResource == "Resource<'Yson2.Options'>"
roaringBitmapResource == "Resource<roaring_bitmap>"
ResourceKinds ==
    {dateTimeTM, dateTimeTM64, ysonNodeResource, ysonOptionsResource, roaringBitmapResource}

RECURSIVE validateConcreteOrNull(_)
validateConcreteOrNull(t) ==
    LET items == \A i \in DOMAIN t.Items : validateConcreteOrNull(t.Items[i])
    IN  CASE t.Kind \in {"Optional", "List", "Stream", "Flow", "Set"} ->
                 Len(t.Items) = 1 /\ t.Names = <<>> /\ items
          [] t.Kind = "Tagged" -> Len(t.Items) = 1 /\ Len(t.Names) = 1 /\ items
          [] t.Kind = "Dict" -> Len(t.Items) = 2 /\ t.Names = <<>> /\ items
          [] t.Kind \in {"Callable", "Tuple"} ->
                 t.Items # <<>> /\ t.Names = <<>> /\ items
          [] t.Kind = "Struct" ->
                 /\ t.Items # <<>> /\ Len(t.Names) = Len(t.Items)
                 /\ IsInjective(t.Names)
                 /\ items
          [] t.Kind = "Decimal" -> t.Items = <<>> /\ Len(t.Names) = 2
          [] OTHER -> /\ t.Kind \in supportedScalarKinds \cup ResourceKinds
                      /\ t.Items = <<>> /\ t.Names = <<>>

\* An argument with a base of one of the kinds.
BaseIn(t, kinds) == hasBase(t) /\ UnwrapOptional(t).Kind \in kinds

CommonType(types) ==
    LET bases == [i \in DOMAIN types |-> UnwrapOptional(types[i])]
        concrete == SelectSeq(bases, LAMBDA t : t # Null)
        common == FoldLeft(commonConcreteType, Head(concrete), Tail(concrete))
        nullable == \E i \in DOMAIN types : IsOptional(types[i]) \/ types[i] = Null
    IN  IF (\A i \in DOMAIN types : hasBase(types[i])) /\ concrete # <<>>
           /\ common # ZeroType
        THEN withOptional(common, nullable)
        ELSE ZeroType

Arithmetic(left, right) ==
    LET numeric(t) == LET base == UnwrapOptional(t)
                      IN  isInteger(base) \/ isFloating(base)
    IN  If(numeric(left) /\ numeric(right), CommonType(<<left, right>>))

Cast(source, target) ==
    LET from == UnwrapOptional(source)
        to == UnwrapOptional(target)
    IN  IF ~hasBase(source) \/ ~hasBase(target) \/ to = Null THEN ZeroType
        ELSE IF from = Null THEN withOptional(to, TRUE)
        ELSE If(castSupported(from, to),
                withOptional(to, \/ IsOptional(source) \/ IsOptional(target)
                                 \/ castMayFail(from, to)))

\* One argument of COALESCE, from left to right.  Only a literal on the right
\* narrows to what is on its left.
coalesced(result, argument) ==
    LET left == UnwrapOptional(result)
        given == UnwrapOptional(argument.Type)
        emptied == argument.EmptyList /\ argument.Type.Kind = "List"
                                      /\ left.Kind = "List"
        right == IF emptied \/ (/\ ~IsOptional(argument.Type)
                                /\ isInteger(left) /\ isInteger(given)
                                /\ integerLiteralFits(argument.IntegerLiteral, left.Kind))
                 THEN left ELSE given
        strings == {left.Kind, right.Kind} = {"String", "Utf8"}
        common == IF strings THEN Scalar("String") ELSE commonConcreteType(left, right)
    IN  IF result = ZeroType \/ ~hasBase(argument.Type) THEN ZeroType
        ELSE IF left = Null THEN argument.Type
        ELSE IF given = Null THEN result
        ELSE If(common # ZeroType,
                withOptional(common, IsOptional(result) /\ IsOptional(argument.Type)))

resolveCoalesceArguments(args) ==
    LET result == FoldLeft(coalesced, Null, args)
    IN  If(args # <<>> /\ result # Null, result)
-----------------------------------------------------------------------------
(***************************************************************************)
(* Core functions, by their upper-case names.                               *)
(***************************************************************************)
resolveUnwrap(args) ==
    If(/\ Len(args) \in 1 .. 2
       /\ validateConcreteOrNull(args[1]) /\ args[1] # Null
       /\ Len(args) = 2 => args[2] \in {Scalar("String"), Scalar("Utf8")},
       UnwrapOptional(args[1]))

\* Clock and random functions; the arguments only say when to evaluate.
resolveDependencyValue(kind, minimum, args) ==
    If(/\ Len(args) >= minimum
       /\ \A i \in DOMAIN args : validateConcreteOrNull(args[i]),
       Scalar(kind))

\* An unknown zone produces NULL.
resolveCurrentTimezone(kind, args) ==
    If(/\ args # <<>>
       /\ BaseIn(args[1], {"String", "Null"})
       /\ resolveDependencyValue(kind, 0, Tail(args)) # ZeroType,
       Optional(Scalar(kind)))

resolveCountIf(args) ==
    If(Len(args) = 1 /\ BaseIn(args[1], {"Bool", "Null"}), Scalar("Uint64"))

NumberKinds == IntegerKinds \cup {"Float", "Double", "Decimal"}
ReadableKinds == {"String", "Utf8"}

resolveSum(args) ==
    LET base == UnwrapOptional(args[1])
    IN  If(Len(args) = 1 /\ BaseIn(args[1], NumberKinds),
           Optional(CASE isInteger(base) /\ isSigned(base.Kind) -> Scalar("Int64")
                      [] isInteger(base) /\ ~isSigned(base.Kind) -> Scalar("Uint64")
                      [] base.Kind = "Decimal" ->
                             Type("Decimal", <<>>, <<"35", base.Names[2]>>)
                      [] OTHER -> base))

resolveAvg(args) ==
    LET base == UnwrapOptional(args[1])
    IN  If(Len(args) = 1
           /\ BaseIn(args[1], NumberKinds \cup {"Interval", "Interval64"}),
           Optional(IF base.Kind = "Decimal" THEN base ELSE Scalar("Double")))

resolveConditionalAggregate(name, args) ==
    LET value == SubSeq(args, 1, 1)
    IN  If(Len(args) = 2 /\ BaseIn(args[2], {"Bool", "Null"}),
           IF name = "SUM_IF" THEN resolveSum(value) ELSE resolveAvg(value))

resolveAggregateList(args) ==
    If(/\ Len(args) \in 1 .. 2
       /\ hasBase(args[1]) /\ UnwrapOptional(args[1]).Kind \notin {"Null", "Void"}
       /\ Len(args) = 2 => args[2].Kind \in IntegerKinds \ {"Int64"},
       List(UnwrapOptional(args[1])))

resolveMinMax(args) ==
    If(Len(args) = 1 /\ BaseIn(args[1], NumberKinds \cup ReadableKinds),
       Optional(UnwrapOptional(args[1])))

resolveCount(args) ==
    If(Len(args) <= 1 /\ (args # <<>> => hasBase(args[1])), Scalar("Uint64"))

resolveNanvl(args) ==
    If(/\ Len(args) = 2
       /\ \A i \in 1 .. 2 : BaseIn(args[i], {"Float", "Double"}),
       CommonType(args))

\* Without a third argument the other branch is NULL.
resolveIf(args) ==
    If(Len(args) \in 2 .. 3 /\ BaseIn(args[1], {"Bool"}),
       CommonType(IF Len(args) = 2 THEN <<args[2], Null>> ELSE Tail(args)))

resolveLength(args) ==
    If(Len(args) = 1 /\ BaseIn(args[1], ReadableKinds),
       withOptional(Scalar("Uint32"), IsOptional(args[1])))

coreStringPositionArgument(t) == BaseIn(t, {"Null", "Uint8", "Uint16", "Uint32"})

resolveSubstring(args) ==
    If(/\ Len(args) \in 2 .. 3
       /\ BaseIn(args[1], {"String"})
       /\ \A i \in 2 .. Len(args) : coreStringPositionArgument(args[i]),
       args[1])

\* Two strings of one kind, one of which may be NULL.
sameStrings(args) ==
    LET kinds == {UnwrapOptional(args[i]).Kind : i \in 1 .. 2} \ {"Null"}
    IN  /\ \A i \in 1 .. 2 : BaseIn(args[i], ReadableKinds \cup {"Null"})
        /\ \E kind \in ReadableKinds : kinds = {kind}

resolveFind(args) ==
    If(/\ Len(args) \in 2 .. 3 /\ sameStrings(args)
       /\ Len(args) = 3 => coreStringPositionArgument(args[3]),
       Optional(Scalar("Uint32")))

resolveAffix(args) ==
    If(Len(args) = 2 /\ sameStrings(args),
       withOptional(Scalar("Bool"),
                    \E i \in 1 .. 2 : IsOptional(args[i]) \/ args[i] = Null))

resolveAbs(args) ==
    If(Len(args) = 1 /\ BaseIn(args[1], NumberKinds), args[1])

-----------------------------------------------------------------------------
(***************************************************************************)
(* Collections.                                                             *)
(***************************************************************************)

\* collectionBase: at most one level of Optional around a collection.
CollectionIs(t, kind) ==
    /\ IsOptional(t) => ~IsOptional(Elem(t))
    /\ UnwrapOptional(t).Kind = kind /\ UnwrapOptional(t).Items # <<>>

RECURSIVE validateDictionaryKey(_)
validateDictionaryKey(key) ==
    CASE IsOptional(key) -> ~IsOptional(Elem(key)) /\ validateDictionaryKey(Elem(key))
      [] key.Kind = "Tuple" ->
             /\ Len(key.Items) >= 2
             /\ \A i \in DOMAIN key.Items : validateDictionaryKey(key.Items[i])
      [] OTHER -> /\ key.Kind \in (supportedScalarKinds \cup {"Decimal"})
                                    \ {"Json", "JsonDocument", "Yson", "Null", "Void"}
                  /\ validateConcreteOrNull(key)

listArgument(t) ==
    CollectionIs(t, "List") /\ validateConcreteOrNull(Elem(UnwrapOptional(t)))
ListElem(t) == Elem(UnwrapOptional(t))

\* A value looked for in a collection: both kinds of strings are one.
exactCollectionValue(expected, actual) ==
    LET want == UnwrapOptional(expected)
        got == UnwrapOptional(actual)
    IN  /\ validateConcreteOrNull(actual)
        /\ \/ IsOptional(expected) /\ actual = Null
           \/ want = got
           \/ isString(want) /\ isString(got)

resolveAsTuple(args) ==
    If(args # <<>> /\ \A i \in DOMAIN args : validateConcreteOrNull(args[i]),
       Type("Tuple", args, <<>>))

resolveAsStruct(args) ==
    LET names == [i \in DOMAIN args |-> args[i].Name]
        types == [i \in DOMAIN args |-> args[i].Type]
    IN  If(/\ args # <<>>
           /\ "" \notin ToSet(names) /\ IsInjective(names)
           /\ \A i \in DOMAIN args : validateConcreteOrNull(types[i]),
           Type("Struct", types, names))

resolveAsList(args) ==
    LET elem == CommonType(args)
    IN  If(args # <<>> /\ elem # ZeroType, List(elem))

resolveListLength(args) ==
    If(Len(args) = 1 /\ listArgument(args[1]),
       withOptional(Scalar("Uint64"), IsOptional(args[1])))

resolveListHas(args) ==
    If(/\ Len(args) = 2 /\ listArgument(args[1])
       /\ UnwrapOptional(ListElem(args[1])).Kind \notin {"Json", "JsonDocument", "Yson"}
       /\ exactCollectionValue(ListElem(args[1]), args[2]),
       Scalar("Bool"))

\* ListMap and ListFilter with a callback of one argument.
resolveListTransform(name, args) ==
    LET result == Elem(args[2])
    IN  If(/\ Len(args) = 2 /\ listArgument(args[1])
           /\ args[2].Kind = "Callable" /\ Len(args[2].Items) = 2
           /\ args[2].Items[1] = ListElem(args[1])
           /\ validateConcreteOrNull(result)
           /\ IF name = "LISTFILTER" THEN BaseIn(result, {"Bool"})
              ELSE result.Kind \notin {"Null", "Void"},
           IF name = "LISTFILTER" THEN args[1]
           ELSE withOptional(List(result), IsOptional(args[1])))

resolveToDict(args) ==
    LET pair == ListElem(args[1])
    IN  If(/\ Len(args) = 1 /\ listArgument(args[1])
           /\ pair.Kind = "Tuple" /\ Len(pair.Items) = 2
           /\ validateDictionaryKey(pair.Items[1]),
           withOptional(Type("Dict", pair.Items, <<>>), IsOptional(args[1])))

resolveDictAccess(name, args) ==
    LET dict == UnwrapOptional(args[1])
    IN  If(/\ Len(args) = 2 /\ CollectionIs(args[1], "Dict")
           /\ validateDictionaryKey(dict.Items[1])
           /\ validateConcreteOrNull(dict.Items[2])
           /\ exactCollectionValue(dict.Items[1], args[2]),
           IF name = "DICTCONTAINS" THEN Scalar("Bool") ELSE Optional(dict.Items[2]))

resolveListCreate(args) ==
    If(/\ Len(args) = 1 /\ validateConcreteOrNull(args[1])
       /\ args[1].Kind \notin {"Null", "Void"},
       List(args[1]))

resolveToSet(args) ==
    If(/\ Len(args) = 1 /\ CollectionIs(args[1], "List")
       /\ validateDictionaryKey(ListElem(args[1])),
       withOptional(Type("Dict", <<ListElem(args[1]), Scalar("Void")>>, <<>>),
                    IsOptional(args[1])))

resolveSetIsDisjoint(args) ==
    LET key(t) == UnwrapOptional(t).Items[1]
    IN  If(/\ Len(args) = 2
           /\ CollectionIs(args[1], "Dict") /\ validateDictionaryKey(key(args[1]))
           /\ CollectionIs(args[2], "List") \/ CollectionIs(args[2], "Dict")
           /\ validateDictionaryKey(key(args[2]))
           /\ key(args[1]) = key(args[2]),
           withOptional(Scalar("Bool"), IsOptional(args[1]) \/ IsOptional(args[2])))

\* The core functions; for any other name the zero type, like an error.
ClockKinds ==
    [CURRENTUTCDATE |-> "Date", CURRENTUTCDATETIME |-> "Datetime",
     CURRENTUTCTIMESTAMP |-> "Timestamp"]
ZoneKinds ==
    [CURRENTTZDATE |-> "TzDate", CURRENTTZDATETIME |-> "TzDatetime",
     CURRENTTZTIMESTAMP |-> "TzTimestamp"]
RandomKinds == [RANDOM |-> "Double", RANDOMNUMBER |-> "Uint64", RANDOMUUID |-> "Uuid"]
ListAggregates ==
    {"AGGREGATE_LIST", "AGG_LIST", "AGGREGATE_LIST_DISTINCT", "AGG_LIST_DISTINCT"}

lookupCore(name, args) ==
    CASE name = "IF" -> resolveIf(args)
      [] name = "NANVL" -> resolveNanvl(args)
      [] name \in DOMAIN ClockKinds -> resolveDependencyValue(ClockKinds[name], 0, args)
      [] name \in DOMAIN ZoneKinds -> resolveCurrentTimezone(ZoneKinds[name], args)
      [] name \in DOMAIN RandomKinds -> resolveDependencyValue(RandomKinds[name], 1, args)
      [] name = "VERSION" -> If(args = <<>>, Scalar("String"))
      [] name \in {"LENGTH", "LEN"} -> resolveLength(args)
      [] name = "SUBSTRING" -> resolveSubstring(args)
      [] name \in {"FIND", "RFIND"} -> resolveFind(args)
      [] name \in {"STARTSWITH", "ENDSWITH"} -> resolveAffix(args)
      [] name = "ABS" -> resolveAbs(args)
      [] name = "UNWRAP" -> resolveUnwrap(args)
      [] name = "TOSET" -> resolveToSet(args)
      [] name = "ASLIST" -> resolveAsList(args)
      [] name = "ASTUPLE" -> resolveAsTuple(args)
      [] name = "LISTLENGTH" -> resolveListLength(args)
      [] name = "LISTHAS" -> resolveListHas(args)
      [] name \in {"LISTMAP", "LISTFILTER"} -> resolveListTransform(name, args)
      [] name = "TODICT" -> resolveToDict(args)
      [] name \in {"DICTCONTAINS", "DICTLOOKUP"} -> resolveDictAccess(name, args)
      [] name = "LISTCREATE" -> resolveListCreate(args)
      [] name = "SETISDISJOINT" -> resolveSetIsDisjoint(args)
      [] name = "COUNT" -> resolveCount(args)
      [] name = "COUNT_IF" -> resolveCountIf(args)
      [] name \in {"MIN", "MAX"} -> resolveMinMax(args)
      [] name = "SUM" -> resolveSum(args)
      [] name \in {"SUM_IF", "AVG_IF"} -> resolveConditionalAggregate(name, args)
      [] name = "AVG" -> resolveAvg(args)
      [] name \in ListAggregates -> resolveAggregateList(args)
      [] OTHER -> ZeroType

CoreFunctions ==
    DOMAIN ClockKinds \cup DOMAIN ZoneKinds \cup DOMAIN RandomKinds \cup ListAggregates
    \cup {"COALESCE", "NVL", "IF", "NANVL", "VERSION", "LENGTH", "LEN", "SUBSTRING", "FIND", "RFIND",
          "STARTSWITH", "ENDSWITH", "ABS", "UNWRAP", "TOSET", "ASLIST", "ASTUPLE", "ASSTRUCT",
          "LISTLENGTH", "LISTHAS", "LISTMAP", "LISTFILTER", "TODICT", "DICTCONTAINS", "DICTLOOKUP",
          "LISTCREATE", "SETISDISJOINT", "COUNT", "COUNT_IF", "MIN", "MAX", "SUM", "SUM_IF",
          "AVG", "AVG_IF"}
-----------------------------------------------------------------------------
\* The types of parameters and results of a configured signature.
RECURSIVE validateSignatureType(_, _)
validateSignatureType(t, parentOptional) ==
    /\ t # Null
    /\ t.Kind = "Dict" => validateDictionaryKey(t.Items[1])
    /\ IsOptional(t) => ~parentOptional
    /\ \A i \in DOMAIN t.Items : validateSignatureType(t.Items[i], IsOptional(t))
    /\ validateConcreteOrNull(t)
=============================================================================
