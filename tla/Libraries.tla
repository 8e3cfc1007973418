----------------------------- MODULE Libraries -----------------------------
(***************************************************************************)
(* The C++ library functions that the analyzer ships contracts for          *)
(* (internal/yql/builtins: libraries.go, udf_*.go, yson_json.go), and the   *)
(* order in which a call is looked up in them, in the configured functions  *)
(* and in the core functions.                                               *)
(*                                                                          *)
(* Most functions are families of names with one signature.  The contracts  *)
(* take named arguments and literals that fit; the plain ones, which the    *)
(* resolver of older functions uses, take neither.  The text of a literal   *)
(* is one line and a regular expression has no groups.                      *)
(***************************************************************************)
EXTENDS Builtins

In(module, functions) == {module \o "::" \o f : f \in functions}
Among(modules, functions) == {m \o "::" \o f : m \in modules, f \in functions}

Dict(key, value) == Type("Dict", <<key, value>>, <<>>)
Tuple(items) == Type("Tuple", items, <<>>)
Struct(names, types) == Type("Struct", types, names)
Tagged(t, tag) == Type("Tagged", <<t>>, <<tag>>)
Callable(parameters, result) == Type("Callable", Append(parameters, result), <<>>)
String == Scalar("String")
OptionalString == Optional(String)

Of(t) == Parameter("", t, FALSE, FALSE)
OfAuto(t) == Parameter("", t, FALSE, TRUE)
OfOptional(t) == Parameter("", Optional(t), TRUE, FALSE)
udfRequired(kind) == Of(Scalar(kind))
udfAuto(kind) == OfAuto(Scalar(kind))
udfOptional(kind) == OfOptional(Scalar(kind))
NamedOptional(name, kind) == [udfOptional(kind) EXCEPT !.Name = name]

Family(names, returns, parameters) ==
    [names |-> names, returns |-> returns, parameters |-> parameters]
SignaturesOf(families, name) ==
    LET found == SelectSeq(families, LAMBDA f : name \in f.names)
    IN  [i \in DOMAIN found |-> Signature(name, found[i].parameters, found[i].returns)]
NamesOf(families) == UNION {families[i].names : i \in DOMAIN families}

-----------------------------------------------------------------------------
(***************************************************************************)
(* String, Unicode and Url.                                                 *)
(***************************************************************************)
Digests ==
    <<Family(In("Digest", {"CityHash", "Crc64", "Fnv64", "MurMurHash", "MurMurHash2A"}),
             Scalar("Uint64"), <<udfAuto("String"), NamedOptional("Init", "Uint64")>>),
      Family(In("Digest", {"Fnv32", "MurMurHash32", "MurMurHash2A32"}),
             Scalar("Uint32"), <<udfAuto("String"), NamedOptional("Init", "Uint32")>>),
      Family(In("Digest", {"Crc32c", "FarmHashFingerprint32", "SuperFastHash"}),
             Scalar("Uint32"), <<udfAuto("String")>>),
      Family(In("Digest", {"Md5Hex", "Md5Raw", "Sha1", "Sha256"}), String, <<udfAuto("String")>>),
      Family(In("Digest", {"Md5HalfMix", "FarmHashFingerprint64", "XXH3"}),
             Scalar("Uint64"), <<udfAuto("String")>>),
      Family(In("Digest", {"NumericHash", "FarmHashFingerprint", "IntHash64"}),
             Scalar("Uint64"), <<udfAuto("Uint64")>>)>>

Classes == {"IsAscii", "IsSpace", "IsUpper", "IsLower", "IsAlpha", "IsAlnum", "IsHex"}
Removals == {"RemoveAll", "RemoveFirst", "RemoveLast"}
SplitOptions ==
    <<NamedOptional("DelimeterString", "Bool"), NamedOptional("SkipEmpty", "Bool"),
      NamedOptional("Limit", "Uint64")>>

stringSignatures ==
    <<Family(In("String", {"Base32Encode", "BinText", "HexText"}), String, <<udfAuto("String")>>),
      Family(In("String", {"Base32Decode", "Base32StrictDecode"}),
             OptionalString, <<udfRequired("String")>>),
      Family(In("String", {"IsAscii", "IsAsciiSpace", "IsAsciiUpper", "IsAsciiLower",
                           "IsAsciiAlpha", "IsAsciiAlnum", "IsAsciiHex"}),
             Scalar("Bool"), <<udfAuto("String")>>),
      Family(In("String", {"Hex", "Bin", "HumanReadableDuration", "HumanReadableQuantity",
                           "HumanReadableBytes"}), String, <<udfAuto("Uint64")>>),
      Family(In("String", {"SHex", "SBin"}), String, <<udfAuto("Int64")>>),
      Family(In("String", {"Contains", "HasPrefix", "HasPrefixIgnoreCase", "StartsWith",
                           "StartsWithIgnoreCase", "HasSuffix", "HasSuffixIgnoreCase",
                           "EndsWith", "EndsWithIgnoreCase"}),
             Scalar("Bool"), <<Of(OptionalString), udfRequired("String")>>),
      Family({"String::Reverse"}, OptionalString, <<Of(OptionalString)>>),
      Family({"String::CollapseText"}, String, <<udfAuto("String"), udfRequired("Uint64")>>),
      Family(In("String", {"RightPad", "LeftPad"}), String,
             <<udfAuto("String"), udfRequired("Uint64"), udfOptional("String")>>),
      Family({"String::Prec"}, String, <<udfAuto("Double"), udfRequired("Uint64")>>),
      Family(In("String", Removals), String, <<udfAuto("String"), udfRequired("String")>>),
      Family({"String::LevensteinDistance"}, Scalar("Uint64"),
             <<udfAuto("String"), udfAuto("String")>>),
      Family({"String::JoinFromList"}, String, <<OfAuto(List(String)), udfRequired("String")>>),
      Family({"String::ToByteList"}, List(Scalar("Uint8")), <<udfRequired("String")>>),
      Family({"String::FromByteList"}, String, <<Of(List(Scalar("Uint8")))>>),
      Family({"String::SplitToList"}, List(String),
             <<Of(OptionalString), udfRequired("String")>> \o SplitOptions)>>

unicodeSignatures ==
    LET text == Scalar("Utf8")
    IN  <<Family(In("Unicode", Classes), Scalar("Bool"), <<OfAuto(text)>>),
          Family({"Unicode::IsUnicodeSet"}, Scalar("Bool"), <<OfAuto(text), Of(text)>>),
          Family(In("Unicode", {"Strip", "Reverse"}), text, <<OfAuto(text)>>),
          Family(In("Unicode", Removals), text, <<OfAuto(text), Of(text)>>),
          Family(In("Unicode", {"ReplaceAll", "ReplaceFirst", "ReplaceLast"}), text,
                 <<OfAuto(text), Of(text), Of(text)>>),
          Family({"Unicode::LevensteinDistance"}, Scalar("Uint64"), <<OfAuto(text), OfAuto(text)>>),
          Family({"Unicode::ToCodePointList"}, List(Scalar("Uint32")), <<OfAuto(text)>>),
          Family({"Unicode::FromCodePointList"}, text, <<OfAuto(List(Scalar("Uint32")))>>),
          Family({"Unicode::JoinFromList"}, text, <<OfAuto(List(text)), Of(text)>>),
          Family({"Unicode::Translit"}, text, <<OfAuto(text), NamedOptional("lang", "String")>>),
          Family({"Unicode::ToUint64"}, Scalar("Uint64"),
                 <<OfAuto(text), NamedOptional("prefix", "Uint16")>>),
          Family({"Unicode::TryToUint64"}, Optional(Scalar("Uint64")),
                 <<OfAuto(text), NamedOptional("prefix", "Uint16")>>),
          Family({"Unicode::Fold"}, text,
                 <<OfAuto(text), NamedOptional("Language", "String"),
                   NamedOptional("DoLowerCase", "Bool"), NamedOptional("DoRenyxa", "Bool"),
                   NamedOptional("DoSimpleCyr", "Bool"), NamedOptional("FillOffset", "Bool")>>),
          Family({"Unicode::SplitToList"}, List(text),
                 <<Of(Optional(text)), Of(text)>> \o SplitOptions)>>

\* What BuildQueryString takes for the pairs of a query.
QueryPairs ==
    <<Dict(String, List(String)), Dict(String, List(OptionalString)), Dict(String, String),
      Dict(String, OptionalString), List(Tuple(<<String, String>>)),
      List(Tuple(<<String, OptionalString>>))>>
UrlParts == <<"Frag", "Host", "ParseError", "Pass", "Path", "Port", "Query", "Scheme", "User">>

urlSignatures ==
    LET pairing == <<udfAuto("String"), NamedOptional("KeepBlankValues", "Bool"),
                     NamedOptional("Strict", "Bool"), NamedOptional("MaxFields", "Uint32"),
                     NamedOptional("Separator", "String")>>
    IN  <<Family(In("Url", {"GetScheme", "GetTLD", "GetOwner", "CutQueryStringAndFragment",
                            "ForceHostNameToPunycode", "ForcePunycodeToHostName"}),
                 String, <<udfAuto("String")>>),
          Family(In("Url", {"IsKnownTLD", "IsWellKnownTLD", "CanBePunycodeHostName"}),
                 Scalar("Bool"), <<udfAuto("String")>>),
          Family({"Url::GetDomainLevel"}, Scalar("Uint64"), <<udfAuto("String")>>),
          Family(In("Url", {"HostNameToPunycode", "PunycodeToHostName"}),
                 OptionalString, <<udfAuto("String")>>),
          Family(In("Url", {"Encode", "Decode", "NormalizeWithDefaultHttpScheme", "GetHost",
                            "GetHostPort", "GetSchemeHost", "GetSchemeHostPort", "GetPort",
                            "GetTail", "GetPath", "GetFragment", "CutScheme", "CutWWW", "CutWWW2"}),
                 OptionalString, <<Of(OptionalString)>>),
          Family({"Url::Normalize"}, OptionalString, <<udfRequired("String")>>),
          Family({"Url::GetCGIParam"}, OptionalString, <<Of(OptionalString), udfRequired("String")>>),
          Family({"Url::GetDomain"}, OptionalString, <<Of(OptionalString), udfRequired("Uint8")>>),
          Family({"Url::GetSignificantDomain"}, String,
                 <<udfAuto("String"), OfOptional(List(String))>>),
          Family({"Url::Parse"}, Struct(UrlParts, [i \in DOMAIN UrlParts |-> OptionalString]),
                 <<udfAuto("String")>>),
          Family({"Url::QueryStringToList"}, List(Tuple(<<String, String>>)), pairing),
          Family({"Url::QueryStringToDict"}, Dict(String, List(String)), pairing)>>
        \o [i \in DOMAIN QueryPairs |->
               Family({"Url::BuildQueryString"}, String,
                      <<OfAuto(QueryPairs[i]), NamedOptional("Separator", "String")>>)]

-----------------------------------------------------------------------------
(***************************************************************************)
(* DateTime: its resources come from the types of one range of dates or of  *)
(* the other.                                                               *)
(***************************************************************************)
isBasicDateTime ==
    {"Date", "Datetime", "Timestamp", "TzDate", "TzDatetime", "TzTimestamp"}
isExtendedDateTime ==
    {"Date32", "Datetime64", "Timestamp64", "TzDate32", "TzDatetime64", "TzTimestamp64"}

dateTimeUpdateSignatures ==
    LET basic == <<dateTimeTM, "Date", "TzDate", "Datetime", "TzDatetime", "Timestamp", "TzTimestamp">>
        extended == <<dateTimeTM64, "Date32", "TzDate32", "Datetime64", "TzDatetime64", "Timestamp64",
                      "TzTimestamp64">>
        families(inputs, year) ==
            [i \in DOMAIN inputs |->
                Family({"DateTime::Update"}, Optional(Scalar(inputs[1])),
                       <<udfAuto(inputs[i]), NamedOptional("Year", year), NamedOptional("Month", "Uint8"),
                         NamedOptional("Day", "Uint8"), NamedOptional("Hour", "Uint8"),
                         NamedOptional("Minute", "Uint8"), NamedOptional("Second", "Uint8"),
                         NamedOptional("Microsecond", "Uint32"), NamedOptional("TimezoneId", "Uint16")>>)]
    IN  families(basic, "Uint16") \o families(extended, "Int32")

dateTimeFormatSignature ==
    <<Family({"DateTime::Format"}, Callable(<<Scalar(dateTimeTM64)>>, String),
             <<udfRequired("String"), NamedOptional("AlwaysWriteFractionalSeconds", "Bool"),
               NamedOptional("WriteOffsetWithColon", "Bool")>>)>>

\* "" for what is not a date or time.
dateTimeResourceArgument(t) ==
    CASE BaseIn(t, isBasicDateTime \cup {dateTimeTM}) -> dateTimeTM
      [] BaseIn(t, isExtendedDateTime \cup {dateTimeTM64}) -> dateTimeTM64
      [] OTHER -> ""

DateTimeGetKinds ==
    [GetYear |-> "Uint16", GetDayOfYear |-> "Uint16", GetMonth |-> "Uint8",
     GetMonthName |-> "String", GetWeekOfYear |-> "Uint8", GetWeekOfYearIso8601 |-> "Uint8",
     GetDayOfMonth |-> "Uint8", GetDayOfWeek |-> "Uint8", GetDayOfWeekName |-> "String",
     GetHour |-> "Uint8", GetMinute |-> "Uint8", GetSecond |-> "Uint8",
     GetMillisecondOfSecond |-> "Uint32", GetMicrosecondOfSecond |-> "Uint32",
     GetTimezoneId |-> "Uint16", GetTimezoneName |-> "String"]
resolveDateTimeGet(name, resource) ==
    LET field == CHOOSE f \in DOMAIN DateTimeGetKinds : name = "DateTime::" \o f
    IN  Scalar(IF field = "GetYear" /\ resource = dateTimeTM64 THEN "Int32"
               ELSE DateTimeGetKinds[field])

resolveDateTimeMake(name, resource) ==
    LET kind == CHOOSE k \in isBasicDateTime \cup isExtendedDateTime : name = "DateTime::Make" \o k
    IN  If(resource = (IF kind \in isExtendedDateTime THEN dateTimeTM64 ELSE dateTimeTM),
           Scalar(kind))

resolveDateTimeFrom ==
    LET from(prefix, names, input, output) ==
            Family(In("DateTime", {prefix \o n : n \in names}), Optional(Scalar(output)),
                   <<udfAuto(input)>>)
    IN  <<from("From", {"Seconds"}, "Uint32", "Timestamp"),
          from("From", {"Milliseconds", "Microseconds"}, "Uint64", "Timestamp"),
          from("From", {"Seconds64", "Milliseconds64", "Microseconds64"}, "Int64", "Timestamp64"),
          from("IntervalFrom", {"Days", "Hours", "Minutes"}, "Int32", "Interval"),
          from("IntervalFrom", {"Seconds", "Milliseconds", "Microseconds"}, "Int64", "Interval"),
          from("Interval64From", {"Days"}, "Int32", "Interval64"),
          from("Interval64From", {"Hours", "Minutes", "Seconds", "Milliseconds", "Microseconds"},
               "Int64", "Interval64")>>

LongUnits == In("DateTime", {"ToDays", "ToHours", "ToMinutes"})
ShortUnits == In("DateTime", {"ToSeconds", "ToMilliseconds", "ToMicroseconds"})
resolveDateTimeTo(name, t) ==
    LET kind == UnwrapOptional(t).Kind
        result ==
            CASE kind \in {"Interval", "Interval64"} ->
                     IF name = "DateTime::ToDays" \/ (name \in LongUnits /\ kind = "Interval")
                     THEN "Int32" ELSE "Int64"
              [] kind \in isBasicDateTime /\ name \in ShortUnits ->
                     IF name = "DateTime::ToSeconds" THEN "Uint32" ELSE "Uint64"
              [] kind \in isExtendedDateTime /\ name \in ShortUnits -> "Int64"
              [] OTHER -> ""
    IN  If(hasBase(t) /\ result # "", Scalar(result))

resolveDateTimeBoundary(name, resource) ==
    IF name = "DateTime::TimeOfDay"
    THEN Scalar(IF resource = dateTimeTM64 THEN "Interval64" ELSE "Interval")
    ELSE Optional(Scalar(resource))

requireExact(t, kind) == ~IsOptional(t) /\ BaseIn(t, {kind})
requireOptionalScalar(t, kind) == BaseIn(t, {kind, "Null"})

DateTimeUnary ==
    {"DateTime::Split"}
    \cup In("DateTime", DOMAIN DateTimeGetKinds
                        \cup {"Make" \o k : k \in isBasicDateTime \cup isExtendedDateTime}
                        \cup {b \o u : b \in {"StartOf", "EndOf"},
                                       u \in {"Year", "Quarter", "Month", "Week", "Day"}}
                        \cup {"TimeOfDay"})
DateTimeBinary ==
    In("DateTime", {"StartOf", "EndOf", "ShiftYears", "ShiftQuarters", "ShiftMonths"})
DateTimeFunctions == DateTimeUnary \cup DateTimeBinary \cup LongUnits \cup ShortUnits

resolveDateTime(name, args) ==
    LET resource == dateTimeResourceArgument(args[1])
        primitive == BaseIn(args[1], isBasicDateTime \cup isExtendedDateTime)
        nullable == IsOptional(args[1])
        of == CASE name \in In("DateTime", DOMAIN DateTimeGetKinds) -> resolveDateTimeGet(name, resource)
                [] name \in In("DateTime", {"Make" \o k : k \in isBasicDateTime \cup isExtendedDateTime}) ->
                       resolveDateTimeMake(name, resource)
                [] name = "DateTime::Split" -> If(primitive, Scalar(resource))
                [] OTHER -> resolveDateTimeBoundary(name, resource)
        shifted == IF name \in {"DateTime::StartOf", "DateTime::EndOf"}
                   THEN requireOptionalScalar(args[2],
                            IF resource = dateTimeTM64 THEN "Interval64" ELSE "Interval")
                   ELSE requireExact(args[2], "Int32")
    IN  CASE Len(args) # (IF name \in DateTimeBinary THEN 2 ELSE 1) -> ZeroType
          [] Len(args) = 1 /\ name \in LongUnits \cup ShortUnits ->
                 LET t == resolveDateTimeTo(name, args[1])
                 IN  If(t # ZeroType, withOptional(t, nullable))
          [] Len(args) = 1 /\ name \in DateTimeUnary ->
                 If(resource # "" /\ of # ZeroType, withOptional(of, nullable))
          [] OTHER -> If(resource # "" /\ shifted, Optional(Scalar(resource)))

dateTimeParsers ==
    LET parser(name, resource) ==
            Family({name}, Callable(<<String>>, Optional(Scalar(resource))), <<udfRequired("String")>>)
    IN  <<parser("DateTime::Parse", dateTimeTM), parser("DateTime::Parse64", dateTimeTM64),
          Family(In("DateTime", {"ParseRfc822", "ParseIso8601", "ParseHttp", "ParseX509"}),
                 Optional(Scalar(dateTimeTM)), <<udfAuto("String")>>)>>

-----------------------------------------------------------------------------
(***************************************************************************)
(* Digest, Ip and Math.                                                     *)
(***************************************************************************)
plainDigests ==
    <<Family(In("Digest", {"CityHash128", "FarmHashFingerprint128", "XXH3_128"}),
             Tuple(<<Scalar("Uint64"), Scalar("Uint64")>>), <<udfAuto("String")>>),
      Family({"Digest::Argon2"}, String, <<udfAuto("String"), udfAuto("String")>>),
      Family({"Digest::Blake2B"}, String, <<udfAuto("String"), udfOptional("String")>>),
      Family({"Digest::SipHash"}, Scalar("Uint64"),
             <<udfRequired("Uint64"), udfRequired("Uint64"), udfAuto("String")>>),
      Family({"Digest::HighwayHash"}, Scalar("Uint64"),
             [i \in 1 .. 4 |-> udfRequired("Uint64")] \o <<udfAuto("String")>>),
      Family({"Digest::FarmHashFingerprint2"}, Scalar("Uint64"),
             <<udfAuto("Uint64"), udfAuto("Uint64")>>)>>

ipSignatures ==
    <<Family(In("Ip", {"FromString", "SubnetFromString"}), OptionalString, <<udfAuto("String")>>),
      Family(In("Ip", {"ToString", "SubnetToString", "ConvertToIPv6"}), String, <<udfAuto("String")>>),
      Family(In("Ip", {"IsIPv4", "IsIPv6", "IsEmbeddedIPv4"}), Scalar("Bool"), <<Of(OptionalString)>>),
      Family({"Ip::GetSubnet"}, String, <<udfAuto("String"), udfOptional("Uint8")>>),
      Family({"Ip::GetSubnetByMask"}, String, <<udfAuto("String"), udfAuto("String")>>),
      Family({"Ip::SubnetMatch"}, Scalar("Bool"), <<udfAuto("String"), udfAuto("String")>>)>>

mathRoundingMode == Tagged(Scalar("Uint32"), "MathRoundingMode")
mathSignatures ==
    LET double == Scalar("Double")
        of(functions, returns, parameters) == Family(In("Math", functions), returns, parameters)
    IN  <<of({"Pi", "E", "Eps"}, double, <<>>),
          of({"IsInf", "IsNaN", "IsFinite"}, Scalar("Bool"), <<OfAuto(double)>>),
          of({"Abs", "Acos", "Asin", "Asinh", "Atan", "Cbrt", "Ceil", "Cos", "Cosh", "Erf", "ErfInv",
              "ErfcInv", "Exp", "Exp2", "Fabs", "Floor", "Lgamma", "Rint", "Sigmoid", "Sin", "Sinh",
              "Sqrt", "Tan", "Tanh", "Tgamma", "Trunc", "Log", "Log2", "Log10"},
             double, <<OfAuto(double)>>),
          of({"Atan2", "Fmod", "Hypot", "Pow", "Remainder"}, double, <<OfAuto(double), OfAuto(double)>>),
          of({"Ldexp"}, double, <<OfAuto(double), udfAuto("Int32")>>),
          of({"Round"}, double, <<OfAuto(double), udfOptional("Int32")>>),
          of({"FuzzyEquals"}, Scalar("Bool"), <<OfAuto(double), OfAuto(double), OfOptional(double)>>),
          of({"Mod", "Rem"}, Optional(Scalar("Int64")), <<udfAuto("Int64"), udfRequired("Int64")>>),
          of({"RoundDownward", "RoundToNearest", "RoundTowardZero", "RoundUpward"}, mathRoundingMode, <<>>),
          of({"NearbyInt"}, Optional(Scalar("Int64")), <<OfAuto(double), Of(mathRoundingMode)>>)>>

\* Any primitive number is converted where a Double is expected.
mathResolver(name, args) ==
    LET s == SignaturesOf(mathSignatures, name)[1]
        double(i) == /\ i <= Len(s.Arguments)
                     /\ UnwrapOptional(s.Arguments[i].Type) = Scalar("Double")
                     /\ BaseIn(args[i], IntegerKinds \cup {"Float", "Double"})
    IN  resolveSignatures([i \in DOMAIN args |-> Plain(IF double(i)
                              THEN withOptional(Scalar("Double"), IsOptional(args[i])) ELSE args[i])],
                          <<s>>)

-----------------------------------------------------------------------------
(***************************************************************************)
(* Yson and Json.  Every other function has a name, a shape of its          *)
(* arguments and a result.                                                  *)
(***************************************************************************)
Node == Scalar(ysonNodeResource)
YsonKinds == {"Bool", "Int64", "Uint64", "Double", "String"}
YsonFunction(name, shape, result) == [name |-> "Yson::" \o name, shape |-> shape, result |-> result]
ysonDocumentedResult ==
    {YsonFunction("ConvertTo" \o k, "convert", Optional(Scalar(k))) : k \in YsonKinds}
    \cup {YsonFunction("ConvertTo" \o k \o "List", "convert", List(Scalar(k))) : k \in YsonKinds}
    \cup {YsonFunction("ConvertTo" \o k \o "Dict", "convert", Dict(String, Scalar(k))) : k \in YsonKinds}
    \cup {YsonFunction(p \o k, "lookup", Optional(Scalar(k))) : p \in {"Lookup", "YPath"}, k \in YsonKinds}
    \cup {YsonFunction(p, "lookup", Optional(Node)) : p \in {"Lookup", "YPath"}}
    \cup {YsonFunction(p \o "List", "lookup", Optional(List(Node))) : p \in {"Lookup", "YPath"}}
    \cup {YsonFunction(p \o "Dict", "lookup", Optional(Dict(String, Node))) : p \in {"Lookup", "YPath"}}
    \cup {YsonFunction("Is" \o k, "node", Scalar("Bool")) :
             k \in {"Entity", "String", "Double", "Uint64", "Int64", "Bool", "List", "Dict"}}
    \cup {YsonFunction(s, "node", Scalar("Yson")) : s \in {"Serialize", "SerializeText", "SerializePretty"}}
    \cup {YsonFunction("ConvertToList", "convert", List(Node)),
          YsonFunction("ConvertToDict", "convert", Dict(String, Node)),
          YsonFunction("WithAttributes", "nodes", Optional(Node)),
          YsonFunction("Equals", "nodes", Scalar("Bool")),
          YsonFunction("GetHash", "node", Scalar("Uint64")),
          YsonFunction("GetLength", "convert", Optional(Scalar("Uint64"))),
          YsonFunction("Contains", "lookup", Optional(Scalar("Bool"))),
          YsonFunction("Attributes", "node", Dict(String, Node))}

ysonNamedSignatures ==
    <<Family({"Yson::Options"}, Scalar(ysonOptionsResource),
             <<NamedOptional("AutoConvert", "Bool"), NamedOptional("Strict", "Bool")>>),
      Family({"Yson::SerializeJson"}, Optional(Scalar("Json")),
             <<OfAuto(Node), udfOptional(ysonOptionsResource), NamedOptional("SkipMapEntity", "Bool"),
               NamedOptional("EncodeUtf8", "Bool"), NamedOptional("WriteNanAsString", "Bool")>>)>>

ysonNodeArgument(t) == BaseIn(t, {ysonNodeResource, "Yson", "Json", "Null"})
ysonNullable(t) == IsOptional(t) \/ t = Null
ysonOptionArgument(t) == BaseIn(t, {ysonOptionsResource, "Null"})

\* What converts from (source) and to YSON.
RECURSIVE validateYsonCompatible(_, _)
validateYsonCompatible(t, source) ==
    \/ source /\ t = Scalar("EmptyList")
    \/ /\ validateConcreteOrNull(t)
       /\ CASE t.Kind \in {"Optional", "List", "Tuple", "Struct"} ->
                   \A i \in DOMAIN t.Items : validateYsonCompatible(t.Items[i], source)
            [] t.Kind = "Dict" -> /\ t.Items[1] \in {String, Scalar("Utf8")}
                                  /\ validateYsonCompatible(t.Items[2], source)
            [] t.Kind \in {"Null", "Void"} -> source
            [] OTHER -> t.Kind \in IntegerKinds \cup {"String", "Utf8", "Bool", "Float", "Double",
                                                      "Yson", "Json", ysonNodeResource}

\* The target of Yson::ConvertTo is a type, not a value.
TypeArgument(t) == Type("TypeArgument", <<t>>, <<>>)

ysonOf(f, args) ==
    LET first == ysonNodeArgument(args[1])
        options(n) == Len(args) >= n => ysonOptionArgument(args[n])
    IN  CASE f.shape = "nodes" ->
                 If(/\ Len(args) = 2 /\ \A i \in 1 .. 2 : ysonNodeArgument(args[i]),
                    withOptional(f.result, \E i \in 1 .. 2 : ysonNullable(args[i])))
          [] f.shape = "lookup" ->
                 If(Len(args) \in 2 .. 3 /\ first /\ requireExact(args[2], "String") /\ options(3),
                    f.result)
          [] f.shape = "convert" -> If(Len(args) \in 1 .. 2 /\ first /\ options(2), f.result)
          [] OTHER -> If(Len(args) = 1 /\ first, withOptional(f.result, ysonNullable(args[1])))

YsonParsers == In("Yson", {"Parse", "ParseJson", "ParseJsonDecodeUtf8"})
YsonCalls == NamesOf(ysonNamedSignatures) \cup YsonParsers \cup {"Yson::From", "Yson::ConvertTo"}
             \cup {f.name : f \in ysonDocumentedResult}

\* Only text and nodes may fail to parse.
ysonParsed(name, args) ==
    LET typed == IF name = "Yson::Parse" THEN "Yson" ELSE "Json"
        kind == UnwrapOptional(args[1]).Kind
    IN  If(/\ Len(args) \in 1 .. 2
           /\ BaseIn(args[1], {typed, "String", "Utf8", ysonNodeResource, "Null"})
           /\ Len(args) = 2 => ysonOptionArgument(args[2]),
           withOptional(Node, IsOptional(args[1]) \/ kind # typed))

resolveYsonCall(name, args) ==
    LET types == [i \in DOMAIN args |-> args[i].Type]
        serialized == IF name = "Yson::SerializeJson"
                      THEN [args EXCEPT ![1].Type = withOptional(Node, ysonNullable(args[1].Type))]
                      ELSE args
    IN  CASE name \in NamesOf(ysonNamedSignatures) ->
                 If(name = "Yson::SerializeJson" => args # <<>> /\ ysonNodeArgument(types[1]),
                    resolveSignatures(serialized, SignaturesOf(ysonNamedSignatures, name)))
          [] \E i \in DOMAIN args : args[i].Name # "" -> ZeroType
          [] name = "Yson::From" -> If(Len(args) = 1 /\ validateYsonCompatible(types[1], TRUE), Node)
          [] name = "Yson::ConvertTo" /\ Len(args) \in 2 .. 3 ->
                 If(/\ ysonNodeArgument(types[1]) /\ types[2].Kind = "TypeArgument"
                    /\ validateYsonCompatible(Elem(types[2]), FALSE)
                    /\ Len(args) = 3 => ysonOptionArgument(types[3]),
                    withOptional(Elem(types[2]), ysonNullable(types[1])))
          [] name \in YsonParsers /\ args # <<>> -> ysonParsed(name, types)
          [] name \in {f.name : f \in ysonDocumentedResult} /\ args # <<>> ->
                 ysonOf(CHOOSE f \in ysonDocumentedResult : f.name = name, types)
          [] OTHER -> ZeroType

-----------------------------------------------------------------------------
(***************************************************************************)
(* Histograms, regular expressions, vectors and bitmaps.                    *)
(***************************************************************************)
histogramStructType ==
    LET double == Scalar("Double")
    IN  Struct(<<"Bins", "Kind", "Max", "Min", "WeightsSum">>,
               <<List(Struct(<<"Frequency", "Position">>, <<double, double>>)), String,
                 double, double, double>>)
histogramSignatures ==
    LET double == Scalar("Double")
        of(functions, extra, returns) ==
            Family(In("Histogram", functions), returns, <<OfAuto(histogramStructType)>> \o extra)
    IN  <<of({"Print"}, <<udfOptional("Uint8")>>, String),
          of({"Normalize"}, <<OfOptional(double), udfOptional("Bool")>>, histogramStructType),
          of({"ToCumulativeDistributionFunction"}, <<>>, histogramStructType),
          of({"GetSumAboveBound", "GetSumBelowBound", "CalcUpperBound", "CalcLowerBound",
              "CalcUpperBoundSafe", "CalcLowerBoundSafe"}, <<Of(double)>>, double),
          of({"GetSumInRange"}, <<Of(double), Of(double)>>, double)>>

\* The scales take a start, an end and a step; the others weights and a limit.
LinearHistograms ==
    {h \o c : h \in {"LINEARHISTOGRAM", "LOGARITHMICHISTOGRAM", "LOGHISTOGRAM"}, c \in {"", "CDF"}}
HistogramAggregates ==
    LinearHistograms \cup {"HISTOGRAM", "HIST", "HISTOGRAMCDF"}
    \cup {k \o "HISTOGRAM" \o c : k \in {"ADAPTIVEWARD", "ADAPTIVEWEIGHT", "ADAPTIVEDISTANCE",
                                         "BLOCKWARD", "BLOCKWEIGHT"}, c \in {"", "CDF"}}
IsHistogramAggregate(name) == name \in HistogramAggregates
resolveHistogramAggregate(name, args) ==
    LET linear == name \in LinearHistograms
    IN  If(/\ Len(args) \in 1 .. (IF linear THEN 4 ELSE 3)
           /\ \A i \in DOMAIN args : BaseIn(args[i], NumberKinds)
           /\ ~linear /\ Len(args) = 3 => isInteger(UnwrapOptional(args[3])),
           Optional(histogramStructType))

specializedArgument(t, wanted) == UnwrapOptional(t) = wanted

re2Options == <<"CaseSensitive", "DotNl", "Literal", "LogErrors", "LongestMatch", "MaxMem", "NeverCapture",
                "NeverNl", "OneLine", "PerlClasses", "PosixSyntax", "Utf8", "WordBoundary">>
re2OptionKind(option) == IF option = "MaxMem" THEN "Uint64" ELSE "Bool"
re2OptionsType ==
    Struct(re2Options, [i \in DOMAIN re2Options |-> Scalar(re2OptionKind(re2Options[i]))])
re2OptionsSignatures ==
    <<Family({"Re2::Options"}, re2OptionsType,
             [i \in DOMAIN re2Options |-> NamedOptional(re2Options[i], re2OptionKind(re2Options[i]))])>>

MultiRegexes == Among({"Hyperscan", "Pcre", "Pire"}, {"MultiGrep", "MultiMatch"})
isMultiRegex(name) == name \in MultiRegexes
\* A direct literal says how many patterns or groups there are: one.
resolvePatternCall(name, args) ==
    LET types == [i \in DOMAIN args |-> args[i].Type]
        result == IF name = "Re2::Capture" THEN Struct(<<"_0">>, <<OptionalString>>)
                  ELSE Tuple(<<Scalar("Bool")>>)
    IN  If(/\ Len(args) = 1 \/ (name = "Re2::Capture" /\ Len(args) = 2)
           /\ \A i \in DOMAIN args : args[i].Name = ""
           /\ types[1] = String /\ args[1].StringLiteral
           /\ Len(args) = 2 => specializedArgument(types[2], re2OptionsType),
           Callable(<<OptionalString>>, result))

Engines == {"Hyperscan", "Pcre", "Pire", "Re2"}
regexResult ==
    <<Family(Among(Engines, {"Grep", "Match"})
             \cup Among({"Hyperscan", "Pcre"}, {"BacktrackingGrep", "BacktrackingMatch"}),
             Scalar("Bool"), <<>>),
      Family(Among(Engines, {"Replace"}) \cup Among(Engines \ {"Re2"}, {"Capture"}), OptionalString, <<>>),
      Family({"Re2::Count"}, Scalar("Uint32"), <<>>),
      Family({"Re2::FindAndConsume"}, List(String), <<>>)>>
resolveRegexConstructor(name, args) ==
    LET replaces == name \in Among(Engines, {"Replace"})
        re2 == name \in In("Re2", {"Grep", "Match", "Replace", "Count", "FindAndConsume"})
    IN  If(/\ Len(args) = 1 \/ (re2 /\ Len(args) = 2)
           /\ args[1] = String
           /\ Len(args) = 2 => specializedArgument(args[2], re2OptionsType),
           Callable(<<OptionalString>> \o (IF replaces THEN <<String>> ELSE <<>>),
                    SignaturesOf(regexResult, name)[1].Returns))

VectorTags == {"FloatVector", "Uint8Vector", "Int8Vector", "BitVector"}
isVector(t) == t.Kind = "Tagged" /\ Elem(t) = String /\ t.Names[1] \in VectorTags
KnnEncoders ==
    [Float |-> {"Float"}, Uint8 |-> {"Uint8"}, Int8 |-> {"Int8"},
     Bit |-> {"Double", "Float", "Uint8", "Int8"}]
KnnDistances ==
    In("Knn", {"InnerProductSimilarity", "CosineSimilarity", "CosineDistance", "ManhattanDistance",
               "EuclideanDistance"})
KnnFunctions == In("Knn", {"ToBinaryString" \o e : e \in DOMAIN KnnEncoders})
                \cup KnnDistances \cup {"Knn::FloatFromBinaryString"}
resolveKnn(name, args) ==
    LET base == UnwrapOptional(args[1])
        encoder == CHOOSE e \in DOMAIN KnnEncoders : name = "Knn::ToBinaryString" \o e
        accepted(t) == UnwrapOptional(t).Kind \in {"String", "Null"} \/ isVector(UnwrapOptional(t))
        tags == {UnwrapOptional(args[i]).Names[1] :
                    i \in {j \in DOMAIN args : isVector(UnwrapOptional(args[j]))}}
        floats == List(Scalar("Float"))
    IN  CASE name \in KnnDistances ->
                 If(/\ Len(args) = 2 /\ \A i \in 1 .. 2 : accepted(args[i])
                    /\ Cardinality(tags) <= 1,
                    Optional(Scalar("Float")))
          [] name = "Knn::FloatFromBinaryString" ->
                 If(Len(args) = 1 /\ hasBase(args[1]) /\ accepted(args[1]),
                    withOptional(floats, IsOptional(args[1]) \/ ~isVector(base)))
          [] OTHER ->
                 If(/\ Len(args) = 1 /\ validateConcreteOrNull(args[1])
                    /\ base.Kind = "List" /\ Elem(base).Kind \in KnnEncoders[encoder],
                    withOptional(Tagged(String, encoder \o "Vector"), IsOptional(args[1])))

roaringSignatures ==
    LET bitmap == Scalar(roaringBitmapResource)
        number == Scalar("Uint32")
        of(functions, inputs, output) ==
            Family(In("Roaring", functions), output, [i \in DOMAIN inputs |-> Of(inputs[i])])
    IN  <<of({"And", "AndNot", "Or"}, <<bitmap, bitmap>>, bitmap),
          of({"AndNotWithBinary", "AndWithBinary", "OrWithBinary"}, <<bitmap, String>>, bitmap),
          of({"Cardinality"}, <<bitmap>>, number), of({"Deserialize"}, <<String>>, bitmap),
          of({"FromUint32List"}, <<List(number)>>, bitmap), of({"RunOptimize"}, <<bitmap>>, bitmap),
          of({"Serialize"}, <<bitmap>>, String), of({"Uint32List"}, <<bitmap>>, List(number))>>
resolveRoaring(name, args) ==
    LET s == SignaturesOf(roaringSignatures, name)[1]
    IN  If(/\ Len(args) = Len(s.Arguments)
           /\ \A i \in DOMAIN args : specializedArgument(args[i], s.Arguments[i].Type),
           withOptional(s.Returns, \E i \in DOMAIN args : IsOptional(args[i])))

-----------------------------------------------------------------------------
(***************************************************************************)
(* Strings by hand, and the lookup of a call.                               *)
(***************************************************************************)
UnicodeFolds ==
    In("Unicode", {"ToLower", "ToUpper", "ToTitle", "Normalize", "NormalizeNFC", "NormalizeNFD",
                   "NormalizeNFKC", "NormalizeNFKD"})
autoMapUnary ==
    <<Family(In("String", {"Base64Encode", "EscapeC", "UnescapeC", "HexEncode", "EncodeHtml", "DecodeHtml",
                           "CgiEscape", "CgiUnescape", "Strip", "Collapse", "AsciiToLower",
                           "AsciiToUpper", "AsciiToTitle"}), String, <<udfAuto("String")>>),
      Family({"Unicode::GetLength"}, Scalar("Uint64"), <<udfAuto("Utf8")>>),
      Family(UnicodeFolds, Scalar("Utf8"), <<udfAuto("Utf8")>>),
      Family(In("String", {"Base64Decode", "Base64StrictDecode", "HexDecode"}),
             OptionalString, <<udfRequired("String")>>),
      Family({"Unicode::IsUtf"}, Scalar("Bool"), <<udfRequired("String")>>)>>

Searches == In("String", {"Find", "ReverseFind"}) \cup In("Unicode", {"Find", "RFind"})
Substrings == {"String::Substring", "Unicode::Substring"}
Replacements == In("String", {"ReplaceAll", "ReplaceFirst", "ReplaceLast"})

\* Find, Substring and Replace over String or Utf8.
resolveText(name, args) ==
    LET kind == IF name \in In("Unicode", {"Find", "RFind", "Substring"}) THEN "Utf8" ELSE "String"
        position(i) == requireOptionalScalar(args[i], "Uint64")
        text == BaseIn(args[1], {kind})
    IN  CASE name \in Searches ->
                 If(/\ Len(args) \in 2 .. 3 /\ text /\ requireExact(args[2], kind)
                    /\ Len(args) = 3 => position(3),
                    IF kind = "Utf8" THEN Optional(Scalar("Uint64"))
                    ELSE withOptional(Scalar("Int64"), IsOptional(args[1])))
          [] name \in Substrings ->
                 If(/\ Len(args) \in 2 .. 3 /\ BaseIn(args[1], {kind, "Null"})
                    /\ \A i \in 2 .. Len(args) : position(i),
                    withOptional(Scalar(kind), IsOptional(args[1]) \/ args[1] = Null))
          [] OTHER ->
                 If(/\ Len(args) = 3 /\ text /\ \A i \in 2 .. 3 : requireExact(args[i], "String"),
                    withOptional(String, IsOptional(args[1])))

\* Contracts that take named arguments and literals.
standardSignatures ==
    Digests \o stringSignatures \o unicodeSignatures \o urlSignatures \o dateTimeUpdateSignatures
    \o dateTimeFormatSignature \o histogramSignatures \o re2OptionsSignatures
\* Contracts that see types alone.
udfResolver ==
    resolveDateTimeFrom \o dateTimeParsers \o plainDigests \o ipSignatures \o autoMapUnary

resolveLibrary(name, args) ==
    CASE name \in NamesOf(udfResolver) ->
             resolveSignatures([i \in DOMAIN args |-> Plain(args[i])], SignaturesOf(udfResolver, name))
      [] name \in DateTimeFunctions -> If(args # <<>>, resolveDateTime(name, args))
      [] name \in NamesOf(mathSignatures) -> mathResolver(name, args)
      [] name = "Json::From" -> If(Len(args) = 1 /\ validateYsonCompatible(args[1], TRUE), Node)
      [] name \in Searches \cup Substrings \cup Replacements -> resolveText(name, args)
      [] name \in KnnFunctions -> resolveKnn(name, args)
      [] name \in NamesOf(roaringSignatures) -> resolveRoaring(name, args)
      [] name \in NamesOf(regexResult) -> resolveRegexConstructor(name, args)
      [] OTHER -> ZeroType

LibraryFunctions ==
    NamesOf(udfResolver) \cup DateTimeFunctions \cup NamesOf(mathSignatures) \cup {"Json::From"}
    \cup Searches \cup Substrings \cup Replacements \cup KnnFunctions \cup NamesOf(roaringSignatures)
    \cup NamesOf(regexResult)

StandardFunctions == NamesOf(standardSignatures)

isKnownFunction(name) ==
    \/ name \in CoreFunctions \cup LibraryFunctions \cup YsonCalls \cup StandardFunctions
    \/ name = "Re2::Capture" \/ isMultiRegex(name) \/ IsHistogramAggregate(name)

\* A literal String is text for the functions over Utf8 that see types alone.
UnicodePlain == UnicodeFolds \cup In("Unicode", {"GetLength", "Find", "RFind", "Substring"})
PlainType(name, argument) ==
    IF /\ name \in UnicodePlain
       /\ argument.Type.Kind = "String" /\ argument.StringLiteral
    THEN Scalar("Utf8") ELSE argument.Type

\* custom holds the configured signatures of this name.
ResolveCall(name, args, custom) ==
    LET plain == [i \in DOMAIN args |-> PlainType(name, args[i])]
    IN  CASE name = "ASSTRUCT" -> resolveAsStruct(args)
          [] name \in YsonCalls -> resolveYsonCall(name, args)
          [] name \in StandardFunctions ->
                 resolveSignatures(args, SignaturesOf(standardSignatures, name))
          [] name = "Re2::Capture" \/ isMultiRegex(name) -> resolvePatternCall(name, args)
          [] custom # <<>> -> resolveSignatures(args, custom)
          [] OTHER ->
                 If(\A i \in DOMAIN args : args[i].Name = "",
                    CASE name \in {"COALESCE", "NVL"} -> resolveCoalesceArguments(args)
                      [] IsHistogramAggregate(name) -> resolveHistogramAggregate(name, plain)
                      [] name \in LibraryFunctions -> resolveLibrary(name, plain)
                      [] OTHER -> lookupCore(name, plain))
=============================================================================
