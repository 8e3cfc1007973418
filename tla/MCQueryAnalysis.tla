--------------------------- MODULE MCQueryAnalysis ---------------------------
(***************************************************************************)
(* Queries over three small tables, chosen so that every rule of the        *)
(* analyzer applies in one of them, accepted and refused.                   *)
(***************************************************************************)
EXTENDS Verify

Int32 == Scalar("Int32")
Uint64 == Scalar("Uint64")
Utf8 == Scalar("Utf8")
Bool == Scalar("Bool")

MCTables ==
    (<<"", "a">> :>
        [TableOf("a", <<Column("id", Int32), Column("name", Utf8), Column("opt", Optional(Utf8)),
                        Column("flag", Optional(Bool))>>)
            EXCEPT !.PrimaryKey = {"id"}, !.Indexes = {"by_name"}]) @@
    (<<"", "b">> :>
        [TableOf("b", <<[Column("id", Int32) EXCEPT !.SequenceGenerated = TRUE],
                        Column("ref", Optional(Int32)), Column("on", Bool)>>)
            EXCEPT !.PrimaryKey = {"id"}]) @@
    (<<"dir", "c">> :>
        [TableOf("c", <<Column("id", Int32), Column("items", Optional(List(Utf8)))>>)
            EXCEPT !.PrimaryKey = {"id"}])

\* Two that overlap only in a call by name, the first with AutoMap; one that
\* takes NULL, and one with the name of a built-in function.
MCSignatures ==
    {Signature("Mix", <<Parameter("x", Int32, FALSE, TRUE), Parameter("y", Utf8, TRUE, FALSE)>>, Int32),
     Signature("Mix", <<Parameter("y", Utf8, FALSE, FALSE), Parameter("x", Int32, FALSE, FALSE)>>, Int32),
     Signature("Pick", <<Parameter("", Optional(Utf8), FALSE, FALSE)>>, Utf8),
     Signature("LENGTH", <<Parameter("", Utf8, FALSE, FALSE)>>, Uint64)}

MCCollation ==
    <<"column0", "column1", "column2", "column3", "column4", "extra", "flag", "id", "items", "more", "name", "on",
      "opt", "ref", "v", "w">>

-----------------------------------------------------------------------------
Equal(left, right) == Expr("compare", "=", <<left, right>>)
And(left, right) == Expr("boolean", "AND", <<left, right>>)
Or(left, right) == Expr("boolean", "OR", <<left, right>>)
Plus(left, right) == Expr("arithmetic", "+", <<left, right>>)
Concat(left, right) == Expr("concat", "", <<left, right>>)
InValues(args) == Expr("in", "values", args)
InList(e, list) == Expr("in", "list", <<e, list>>)
One == IntegerLiteral("", 1)
Text == Literal(Utf8)
Id == Col("", "id")
Opt == Col("", "opt")
Name == Col("", "name")
Flag == Col("", "flag")
FromA == <<Table("a", "")>>
FromB == <<Table("b", "")>>
AB(join) == <<Table("a", ""), Joined(join, "b", "", Equal(Col("a", "id"), Col("b", "ref")))>>
Plainly(e) == Result(e, "")
As(e, name) == Result(e, name)
Derived(core, alias) == [Source("select", <<"", "">>, alias, "", <<>>) EXCEPT !.inner = <<Select(<<core>>)>>]
Tabular(name) == Source("tabular", <<"", name>>, "", "", <<>>)
AsTable(name) == Source("as_table", <<"", name>>, "", "", <<>>)

Many(core) == Query("many", <<SelectStatement(Select(<<core>>))>>)
Union(first, second) == Query("many", <<SelectStatement(Select(<<first, second>>))>>)
Script(command, statements) == Query(command, statements)
Selecting(core) == SelectStatement(Select(<<core>>))

Insert(path, columns, rows) ==
    [Statement("insert") EXCEPT !.path = path, !.columns = columns, !.rows = rows]
InsertSelect(path, columns, core) ==
    [Statement("insert") EXCEPT !.path = path, !.columns = columns, !.select = <<Select(<<core>>)>>]
Set(name, expr) == [name |-> name, expr |-> expr]
Update(sets, where) ==
    [Statement("update") EXCEPT !.path = <<"", "a">>, !.sets = sets, !.where = where]
UpdateOn(core) ==
    [Statement("update") EXCEPT !.path = <<"", "a">>, !.select = <<Select(<<core>>)>>]
Delete(where) == [Statement("delete") EXCEPT !.path = <<"", "a">>, !.where = where]
Returning(s, names) == [s EXCEPT !.id = 90, !.returning = names]
Pragma(value) == [Statement("pragma") EXCEPT !.name = "TablePathPrefix", !.path = <<value, "">>]
Narg(q, name) == [q EXCEPT !.macros = <<[name |-> name, macro |-> "narg", afterIN |-> FALSE]>>]

-----------------------------------------------------------------------------
Joins ==
    <<Many(Core(1, AB("INNER"), <<Star("")>>, <<>>)),
      Many(Core(1, AB("LEFT"), <<Star("a"), Plainly(Col("b", "ref")), Plainly(Col("b", "on"))>>, <<>>)),
      Many(Core(1, AB("RIGHT"), <<Plainly(Col("a", "name")), Plainly(Col("b", "id"))>>, <<>>)),
      Many(Core(1, AB("FULL"), <<As(Col("a", "id"), "v"), As(Col("b", "id"), "w")>>, <<>>)),
      Many(Core(1, AB("INNER") \o <<Joined("RIGHT", "b", "d", Equal(Col("a", "id"), Col("d", "id")))>>,
                <<As(Col("a", "name"), "v"), As(Col("b", "on"), "w"), Plainly(Col("d", "id"))>>, <<>>)),
      Many(Core(1, <<Table("b", "d")>> \o AB("RIGHT"),
                <<As(Col("d", "id"), "v"), As(Col("a", "name"), "w")>>, <<>>)),
      Many(Core(1, AB("LEFT"), <<As(And(Col("b", "on"), Equal(Name, Bind("p"))), "v")>>, <<>>)),
      Many(Core(1, AB("INNER"), <<As(Name, "v"), As(Col("", "id"), "w")>>, <<>>)),
      Many(Core(1, FromA \o FromA, <<As(Name, "v")>>, <<>>))>>

Expressing ==
    <<Many(Core(1, FromA, <<Star("")>>, <<Equal(Id, Bind("p"))>>)),
      Many(Core(1, AB("INNER"), <<As(And(Col("", "on"), Flag), "v"), As(Or(Col("", "on"), Flag), "w")>>, <<>>)),
      Many(Core(1, FromA, <<As(Expr("boolean", "NOT", <<Flag>>), "v"),
                            As(Expr("boolean", "XOR", <<Equal(Id, One), Flag>>), "w")>>, <<>>)),
      Many(Core(1, FromA, <<As(Call("COALESCE", <<Opt, Name>>), "v"), As(Call("IF", <<Flag, Id>>), "w")>>, <<>>)),
      Many(Core(1, FromA, <<As(Call("UNWRAP", <<Opt>>), "v"), As(Call("LENGTH", <<Opt>>), "w")>>, <<>>)),
      Many(Core(1, FromA, <<As(Case(<<>>, <<Flag, Name, Opt>>), "v"),
                            As(Case(<<Id>>, <<One, Id, Literal(Null)>>), "w")>>, <<>>)),
      Many(Core(1, FromA, <<As(CastTo(Id, Scalar("Int64")), "v"), As(CastTo(Name, Int32), "w")>>, <<>>)),
      Many(Core(1, FromA, <<As(Concat(Name, Opt), "v"), As(Concat(Bind("p"), Text), "w")>>, <<>>)),
      Many(Core(1, FromA, <<As(Expr("compare", "distinct", <<Name, Opt>>), "v"),
                            As(Expr("isnull", "", <<Opt>>), "w")>>,
                <<Expr("compare", "between", <<Name, Bind("p"), Bind("q")>>)>>)),
      Many(Core(1, FromA, <<As(Expr("member", "x", <<StructLiteral(<<"x">>, <<Opt>>)>>), "v")>>, <<>>)),
      Many(Core(1, FromA, <<As(StructLiteral(<<"x">>, <<Opt>>), "v"),
                            As(Expr("member", "x", <<Call("MAX", <<Opt>>)>>), "w")>>, <<>>)),
      Many(Core(1, FromA, <<As(Call("SUBSTRING", <<CastTo(Name, Scalar("String")), IntegerLiteral("Uint32", 1)>>), "v"),
                            As(Call("STARTSWITH", <<Name, Opt>>), "w")>>, <<>>)),
      Many(Core(1, FromA, <<As(Literal(Null), "v")>>, <<>>)),
      Many(Core(1, FromA, <<As(Plus(Id, Name), "v")>>, <<>>)),
      Many(Core(1, FromA, <<As(Bind("p"), "v")>>, <<>>))>>

Names ==
    <<Many(Core(1, FromA, <<Star(""), Plainly(Plus(Id, One))>>, <<>>)),
      Many(Core(1, FromA, <<Plainly(Plus(Id, One)), Star(""), Plainly(Call("LENGTH", <<Opt>>))>>, <<>>)),
      Many(Core(1, FromA, <<As(Id, "column1"), Plainly(Plus(Id, One)), Plainly(Equal(Name, Opt))>>, <<>>)),
      Many([Core(1, FromA, <<Star("")>>, <<>>) EXCEPT !.without = <<Opt>>]),
      Many([Core(1, AB("LEFT"), <<Star("")>>, <<>>)
               EXCEPT !.without = <<Col("a", "id"), Col("b", "ref")>>]),
      Many([Core(1, FromA, <<Star("")>>, <<>>) EXCEPT !.without = <<Col("", "none")>>]),
      Many([Core(1, FromA, <<Star("")>>, <<>>) EXCEPT !.without = <<Col("", "none")>>, !.ifExists = TRUE]),
      Many(Core(1, AB("INNER"), <<Embed("a"), Plainly(Col("b", "on"))>>, <<>>)),
      Many(Core(1, AB("RIGHT"), <<Embed("a")>>, <<>>)),
      Many(Core(1, <<Derived(Core(2, FromA, <<Star(""), Plainly(Flag)>>, <<>>), "")>>, <<Star("")>>, <<>>)),
      Many(Core(1, <<Derived(Core(2, AB("LEFT"), <<As(Name, "v"), As(Col("b", "on"), "w")>>, <<>>), "")>>,
                <<Star("")>>, <<>>)),
      Many(Core(1, <<Derived(Core(2, FromA, <<Star(""), Plainly(Plus(Id, One))>>, <<>>), "")>>,
                <<Star(""), Plainly(Plus(Id, One))>>, <<>>))>>

Grouping ==
    <<Many([Core(1, FromA, <<Plainly(Flag), As(CountStar, "v"), As(Call("MAX", <<Opt>>), "w")>>, <<>>)
               EXCEPT !.group = <<Key(Flag, "")>>]),
      Many([Core(1, FromA, <<Plainly(Name), As(Call("SUM", <<Id>>), "v")>>, <<>>)
               EXCEPT !.group = <<Key(Name, "")>>, !.having = <<Equal(Name, Bind("p"))>>]),
      Many(Core(1, FromA, <<As(Call("SUM", <<Id>>), "v"), As(CountDistinct(Opt), "w")>>, <<>>)),
      Many([Core(1, FromA, <<Plainly(Col("", "v")), As(Call("MIN", <<Id>>), "w")>>, <<>>)
               EXCEPT !.group = <<Key(Call("LENGTH", <<Opt>>), "v")>>]),
      Many([Core(1, FromA, <<Plainly(Opt)>>, <<>>) EXCEPT !.group = <<Key(Name, "")>>]),
      Many([Core(1, FromA, <<Plainly(Col("", "opt"))>>, <<Equal(Col("", "opt"), Bind("p"))>>)
               EXCEPT !.group = <<Key(Call("LENGTH", <<Name>>), "opt")>>]),
      Many([Core(1, FromA, <<Plainly(Id)>>, <<>>) EXCEPT !.order = <<Name>>,
                                                        !.limit = <<Bind("p"), IntegerLiteral("Uint64", 1)>>]),
      Many([Core(1, FromA, <<As(Opt, "name")>>, <<>>) EXCEPT !.order = <<Call("LENGTH", <<Name>>)>>]),
      Many([Core(1, FromA, <<Plainly(Id), As(RowNumber("win", <<>>), "v")>>, <<>>)
               EXCEPT !.windows = <<[name |-> "win", columns |-> <<Name>>]>>]),
      Many(Core(1, FromA, <<As(Plus(RowNumber("", <<Id>>), One), "v")>>, <<>>)),
      Union(Core(1, FromA, <<Plainly(Id), Plainly(Name)>>, <<>>), Core(2, FromB, <<Plainly(Id)>>, <<>>)),
      Union(Core(1, FromA, <<Star("")>>, <<>>), Core(2, FromB, <<Plainly(Id)>>, <<>>)),
      Union(Core(1, FromA, <<As(Name, "v")>>, <<>>), Core(2, FromB, <<As(Id, "v")>>, <<>>))>>

Nested ==
    <<Many(Core(1, FromA, <<Plainly(Id)>>, <<InQuery(1, Id, Core(2, FromB, <<Plainly(Col("", "ref"))>>, <<>>))>>)),
      Many(Core(1, FromA, <<Plainly(Id)>>, <<Or(Flag, InQuery(1, Id, Core(2, FromB, <<Star("")>>, <<>>)))>>)),
      Many(Core(1, FromA, <<As(InValues(<<Opt, Bind("p"), Text>>), "v")>>, <<InList(Id, Bind("q"))>>)),
      Script("many", <<TabularLocal("t", Select(<<Core(1, FromA, <<Plainly(Opt), Plainly(Id)>>,
                                                     <<Equal(Name, Bind("p"))>>)>>)),
                       Selecting(Core(2, <<Tabular("t")>>, <<Star("")>>, <<>>))>>),
      Script("many", <<Declare("p", Int32), Local("x", Plus(Bind("p"), One)),
                       Selecting(Core(1, FromA, <<As(Bind("x"), "v")>>, <<Equal(Id, Bind("x"))>>))>>),
      Script("many", <<Declare("p", Optional(Int32)), Local("x", Plus(Bind("p"), One)),
                       Selecting(Core(1, FromA, <<As(Bind("x"), "v")>>, <<Equal(Id, Bind("x"))>>))>>),
      Script("many", <<Declare("p", Type("List", <<Type("Struct", <<Int32, Optional(Utf8)>>, <<"id", "opt">>)>>, <<>>)),
                       Selecting(Core(1, <<AsTable("p")>>, <<Star("")>>, <<>>))>>),
      Script("many", <<Local("f", Lambda(<<"e">>, <<>>, Concat(Bind("e"), Text))),
                       Selecting(Core(1, FromA, <<As(Call("LISTMAP", <<Call("ASLIST", <<Name, Opt>>), Bind("f")>>), "v")>>, <<>>))>>),
      Script("many", <<Pragma("dir"), Selecting(Core(1, <<[Table("c", "") EXCEPT !.flatten = <<[name |-> "items", alias |-> ""]>>]>>,
                                                   <<Star("")>>, <<>>))>>),
      Script("many", <<Selecting(Core(1, <<[Table("a", "") EXCEPT !.view = "by_name"]>>, <<Plainly(Name)>>, <<>>))>>),
      Many(Core(1, FromA, <<As(Call("Mix", <<Id>>), "v"), As(Call("Pick", <<Opt>>), "w")>>, <<>>)),
      Many(Core(1, AB("RIGHT"), <<As(Call("Mix", <<Col("a", "id"), Text>>), "v")>>, <<>>)),
      Many(Core(1, FromA, <<As([Call("Mix", <<Id, Name>>) EXCEPT !.names = <<"x", "y">>], "v")>>, <<>>)),
      Many(Core(1, FromA, <<As(Call("Digest::CityHash", <<Literal(Scalar("String"))>>), "v")>>, <<>>)),
      Many(Core(1, FromA, <<As(Expr("invoke", "", <<Bind("p"), Id>>), "v")>>, <<>>))>>

Calling ==
    LET binary(e) == CastTo(e, String)
        now == Call("CURRENTUTCTIMESTAMP", <<>>)
        vector(t) == Call("Knn::ToBinaryString" \o t, <<Call("ASLIST", <<Literal(Scalar(t))>>)>>)
        bits == Call("Roaring::FromUint32List", <<Call("ASLIST", <<IntegerLiteral("Uint32", 1)>>)>>)
        apply(f, args) == Expr("invoke", "", <<f>> \o args)
        pattern == Literal(String)
        of(e, f) == Many(Core(1, FromA, <<As(e, "v"), As(f, "w")>>, <<>>))
    IN  <<of(Call("String::Strip", <<binary(Opt)>>), Call("Unicode::GetLength", <<Name>>)),
          of(Call("Url::GetHost", <<binary(Name)>>), Call("Url::Parse", <<binary(Opt)>>)),
          of(Call("Math::Abs", <<Id>>), Call("Math::Round", <<CastTo(Opt, Scalar("Double"))>>)),
          of(Call("DateTime::GetYear", <<now>>),
             Call("DateTime::MakeDate", <<Call("DateTime::Split", <<now>>)>>)),
          of(apply(Call("DateTime::Format", <<pattern>>), <<now>>),
             Call("DateTime::MakeDate", <<apply(Call("DateTime::Parse", <<pattern>>), <<binary(Opt)>>)>>)),
          of(Call("DateTime::MakeTimestamp",
                  <<[Call("DateTime::Update", <<now, IntegerLiteral("Uint16", 7)>>) EXCEPT !.names = <<"", "Year">>]>>),
             Call("DateTime::ToSeconds", <<Call("DateTime::MakeTimestamp", <<Call("DateTime::StartOfDay", <<now>>)>>)>>)),
          of(Call("DateTime::ToDays", <<Call("DateTime::TimeOfDay", <<now>>)>>),
             Call("DateTime::MakeDatetime", <<Call("DateTime::ShiftMonths", <<now, One>>)>>)),
          of(Call("Yson::ConvertTo", <<Call("Yson::Parse", <<binary(Opt)>>), TypeName(Int32)>>),
             Call("Yson::SerializeJson", <<Call("Yson::From", <<Call("ASLIST", <<>>)>>)>>)),
          of(Call("Yson::LookupString", <<Call("Yson::ParseJson", <<Name>>), pattern>>),
             Call("Yson::IsList", <<Call("Json::From", <<Opt>>)>>)),
          of(Call("Knn::CosineDistance", <<vector("Float"), vector("Float")>>),
             Call("Knn::FloatFromBinaryString", <<binary(Opt)>>)),
          of(Call("Knn::CosineDistance", <<vector("Float"), vector("Uint8")>>), Id),
          of(Call("Roaring::Cardinality", <<Call("Roaring::Or", <<bits, bits>>)>>), Id),
          of(apply(Call("Re2::Grep", <<pattern>>), <<binary(Opt)>>),
             Expr("member", "_0", <<apply(Call("Re2::Capture", <<pattern>>), <<binary(Name)>>)>>)),
          of(apply(Call("Pire::MultiMatch", <<pattern>>), <<binary(Name)>>),
             [Call("String::SplitToList", <<binary(Name), pattern, Literal(Bool)>>) EXCEPT !.names = <<"", "", "SkipEmpty">>]),
          of(Call("HISTOGRAM", <<Id>>), Call("Histogram::Print", <<Call("LOGHISTOGRAM", <<Id, One>>)>>)),
          of(Call("String::Find", <<binary(Opt), pattern>>), Call("Unicode::Find", <<Name, pattern>>)),
          of(Call("String::ReplaceAll", <<binary(Opt), pattern, pattern>>),
             Call("Unicode::Substring", <<Name, IntegerLiteral("Uint64", 1)>>)),
          of(Call("String::Strip", <<Name>>), Id),
          of(Call("Yson::From", <<Id>>), Id)>>

Writes ==
    <<Script("exec", <<Insert(<<"", "a">>, <<"id", "opt">>, <<<<Bind("p"), Concat(Bind("q"), Text)>>, <<One, Bind("q")>>>>)>>),
      Script("exec", <<Insert(<<"", "b">>, <<"ref", "on">>, <<<<Id, Bind("p")>>>>)>>),
      Script("one", <<Returning(Insert(<<"", "a">>, <<"id", "name">>, <<<<Bind("p"), Bind("q")>>>>), <<"*">>)>>),
      Script("exec", <<InsertSelect(<<"", "b">>, <<"ref", "on">>, Core(1, FromA, <<Plainly(Id), As(Equal(Id, Bind("p")), "v")>>, <<>>))>>),
      Script("exec", <<InsertSelect(<<"", "a">>, <<>>, Core(1, FromA, <<Star("")>>, <<>>))>>),
      Script("exec", <<UpdateOn(Core(1, FromA, <<Plainly(Id), As(Bind("p"), "opt")>>, <<Equal(Opt, Bind("p"))>>))>>),
      Script("exec", <<Update(<<Set("name", Bind("p")), Set("opt", Bind("p"))>>, <<Equal(Opt, Bind("p"))>>)>>),
      Script("exec", <<Update(<<Set("opt", Opt), Set("flag", Equal(Id, Bind("p")))>>, <<Equal(Id, Bind("p"))>>)>>),
      Script("exec", <<Update(<<Set("name", Concat(Bind("p"), Text))>>, <<Equal(Opt, Bind("p"))>>)>>),
      Script("exec", <<Delete(<<Or(Flag, Equal(Id, Bind("p")))>>)>>),
      Script("many", <<Returning(Delete(<<Equal(Name, Bind("p"))>>), <<"id", "opt">>)>>),
      Narg(Script("exec", <<Update(<<Set("opt", Bind("p"))>>, <<Equal(Name, Bind("p"))>>)>>), "p"),
      Narg(Script("exec", <<Update(<<Set("name", Bind("p"))>>, <<>>)>>), "p"),
      Narg(Script("exec", <<Update(<<Set("name", Concat(Bind("p"), Text))>>, <<Equal(Name, Bind("p"))>>)>>), "p"),
      Narg(Many(Core(1, FromA, <<Star(""), As(Equal(Name, Bind("p")), "v")>>, <<>>)), "p"),
      Script("exec", <<Declare("p", Optional(Utf8)), Update(<<Set("name", Bind("p"))>>, <<>>)>>),
      Script("exec", <<Update(<<Set("name", Bind("p"))>>, <<Equal(Id, Bind("p"))>>)>>)>>

Scripts ==
    <<Script("exec", <<Declare("p", Int32)>>),
      Script("one", <<Selecting(Core(1, FromA, <<As(Bind("p"), "v")>>, <<Equal(Opt, Bind("p"))>>)),
                      Update(<<Set("name", Bind("p"))>>, <<>>)>>),
      Script("one", <<Update(<<Set("name", Bind("p"))>>, <<>>),
                      Selecting(Core(1, FromA, <<As(Bind("p"), "v")>>, <<Equal(Opt, Bind("p"))>>))>>),
      Script("one", <<Declare("p", Utf8),
                      Selecting(Core(1, FromA, <<As(Bind("p"), "v")>>, <<Equal(Opt, Bind("p"))>>)),
                      Update(<<Set("name", Bind("p"))>>, <<>>)>>),
      [Script("multi", <<Selecting(Core(1, FromA, <<Plainly(Id)>>, <<>>)),
                         Selecting(Core(2, FromB, <<Star("")>>, <<>>))>>) EXCEPT !.names = <<"", "Second">>],
      Script("multi", <<Selecting(Core(1, FromA, <<Plainly(Id)>>, <<>>))>>),
      Script("exec", <<Selecting(Core(1, FromA, <<Plainly(Id)>>, <<>>))>>),
      Script("execrows", <<Delete(<<>>)>>),
      Script("each", <<Selecting(Core(1, FromA, <<Plainly(Id)>>, <<Equal(Opt, Bind("p"))>>))>>),
      Script("one", <<Delete(<<>>), Delete(<<>>)>>),
      Script("many", <<Selecting(Core(1, FromA, <<Plainly(Id)>>, <<>>)), Declare("p", Int32)>>)>>

MCQueries == Joins \o Expressing \o Names \o Grouping \o Nested \o Calling \o Writes \o Scripts

-----------------------------------------------------------------------------
(***************************************************************************)
(* Proposed configurations for the query set "app".                         *)
(***************************************************************************)
With(table, columns) == [table EXCEPT !.Columns = columns \o table.Columns]
A == <<"", "a">>
B == <<"", "b">>
Same == QuerySet("app", MCTables)
Added ==
    QuerySet("app", (<<"", "d">> :> TableOf("d", <<Column("id", Int32)>>)) @@
        [MCTables EXCEPT ![A] = With(@, <<Column("extra", Optional(Int32))>>),
                         ![B] = With(@, <<Column("more", Optional(Utf8))>>)])
\* DROP NOT NULL on the columns of a; another type for those of b.
Relaxed ==
    QuerySet("app", [MCTables EXCEPT
        ![A].Columns = [i \in DOMAIN @ |-> [@[i] EXCEPT !.Type = withOptional(@, TRUE)]]])
Retyped ==
    QuerySet("app", [MCTables EXCEPT ![A].Columns[2].Type = Scalar("String"),
                                     ![B].Columns[3].Type = Optional(Bool)])
Dropped ==
    QuerySet("app", [MCTables EXCEPT ![A].Columns = SubSeq(@, 1, 2), ![B].Columns[1].SequenceGenerated = FALSE])

MCProposed ==
    {<<Same>>, <<QuerySet("other", <<>>), Added>>, <<Relaxed>>, <<Retyped>>, <<Dropped>>,
     <<Same, Same>>, <<QuerySet("", MCTables)>>}
SameProposed == {<<Same>>}

\* A parameter that the SELECT uses through a named SELECT, and a later
\* statement that narrows it.
StaleQueries ==
    <<Script("many", <<TabularLocal("t", Select(<<Core(1, FromA, <<As(Bind("p"), "v")>>,
                                                       <<Equal(Opt, Bind("p"))>>)>>)),
                       Selecting(Core(2, <<Tabular("t")>>, <<Star("")>>, <<>>)),
                       Update(<<Set("name", Bind("p"))>>, <<>>)>>)>>

NargQueries == <<Narg(Many(Core(1, FromA, <<Plainly(Id)>>, <<Equal(Name, Bind("p"))>>)), "p")>>
=============================================================================
