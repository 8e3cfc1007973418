------------------------- MODULE MCDatabaseAnalysis -------------------------
(***************************************************************************)
(* DatabaseAnalysis on tables with columns "id", "v" and "w": descriptions  *)
(* that differ in one respect each, and inputs for every way to end.  The   *)
(* server's schema is migrated among a few of the descriptions, under the   *)
(* inputs that make several requests.                                       *)
(***************************************************************************)
EXTENDS DatabaseAnalysis

CONSTANTS
    DescriptionNames, InputNames,
    ShiftingNames,        \* the descriptions among which the schema changes
    MigratedInputNames    \* the inputs under which it changes

Column(name, base, optional) ==
    [Name |-> name, Type |-> [Base |-> base, Optional |-> optional],
     NotNull |-> {optional = 0}, Default |-> "none"]

ID == Column("id", "Int64", 0)
V == Column("v", "Utf8", 1)
W == Column("w", "Utf8", 1)

Index(kind, key, cover) ==
    [Name |-> "by_id", Kind |-> kind, Columns |-> key, DataColumns |-> cover]

Table(columns, indexes) ==
    [Columns |-> columns, PrimaryKey |-> <<"id">>, Indexes |-> indexes]

Covered == Index("GlobalSync", <<"id">>, <<"v", "w">>)
Full == Table(<<ID, V, W>>, <<Covered>>)

DescriptionOf ==
    [full       |-> Full,
     reordered  |-> Table(<<W, ID, V>>,
                          <<Index("GlobalSync", <<"id">>, <<"w", "v">>)>>),
     narrow     |-> Table(<<ID, V>>, <<>>),
     retyped    |-> Table(<<ID, Column("v", "Utf8", 0), W>>, <<Covered>>),
     generated  |-> Table(<<[ID EXCEPT !.Default = "sequence"], V, W>>,
                          <<Covered>>),
     async      |-> Table(<<ID, V, W>>,
                          <<Index("GlobalAsync", <<"id">>, <<"v", "w">>)>>),
     rekeyed    |-> [Full EXCEPT !.PrimaryKey = <<"id", "v">>,
                         !.Indexes = <<Index("GlobalSync", <<"id">>, <<"w">>)>>],
     unindexed  |-> Table(<<ID, V, W>>, <<>>),
     unknown    |-> Table(<<ID, Column("v", "Odd", 1), W>>, <<Covered>>),
     literal    |-> Table(<<ID, [V EXCEPT !.Default = "literal"], W>>, <<>>),
     mismatched |-> Table(<<ID, [V EXCEPT !.NotNull = {TRUE}], W>>, <<>>),
     silent     |-> Table(<<ID, [V EXCEPT !.NotNull = {}], W>>, <<Covered>>),
     vector     |-> Table(<<ID, V, W>>, <<Index("Vector", <<"v">>, <<>>)>>)]

MCDescriptions == {DescriptionOf[name] : name \in DescriptionNames}
MCLower == [Get |-> "get", get |-> "get", List |-> "list", Join |-> "join"]

-----------------------------------------------------------------------------
Query(name, uses, expands) ==
    [Name |-> name, Lowers |-> TRUE, Parses |-> TRUE, Declares |-> TRUE,
     Static |-> TRUE, Embeds |-> FALSE, Resolves |-> TRUE,
     Uses |-> uses, Expands |-> expands]

Get == Query("Get", {<<"t", "id">>, <<"t", "v">>}, {})
List == Query("List", {<<"t", "id">>}, {"t"})
Join == [Query("Join", {<<"u", "id">>}, {"t"}) EXCEPT !.Embeds = TRUE]

LocalTable(name, description) == decodeTable(name, description)

Offline(list) ==
    [Queries |-> list, Readable |-> TRUE, Given |-> TRUE, Sound |-> TRUE,
     Tables |-> <<LocalTable("t", Full)>>, Parameters |-> {},
     Connected |-> FALSE]
Compared(list) == [Offline(list) EXCEPT !.Connected = TRUE]
Described(list) ==
    [Compared(list) EXCEPT !.Given = FALSE, !.Tables = <<>>]

InputOf ==
    [offline    |-> Offline(<<Get, List>>),
     lacking    |-> Offline(<<Get, Join>>),
     compared   |-> Compared(<<Get, List>>),
     compared2  |-> [Compared(<<Join>>) EXCEPT
                        !.Tables = Append(@, LocalTable("u", DescriptionOf.narrow))],
     described  |-> Described(<<List, Get>>),
     described2 |-> Described(<<Join, Get>>),
     configured |-> [Described(<<Get>>) EXCEPT !.Parameters = {"Get"}],
     misspelled |-> [Described(<<Get>>) EXCEPT !.Parameters = {"get"}],
     duplicate  |-> Compared(<<Get, [List EXCEPT !.Name = "get"]>>),
     unsound    |-> [Compared(<<Get>>) EXCEPT !.Sound = FALSE],
     preamble   |-> [Described(<<Get>>) EXCEPT !.Readable = FALSE],
     macro      |-> Offline(<<[Get EXCEPT !.Lowers = FALSE], List>>),
     syntax     |-> Described(<<[Get EXCEPT !.Parses = FALSE], List>>),
     conflict   |-> Described(<<List, [Get EXCEPT !.Declares = FALSE]>>),
     dynamic    |-> Compared(<<List, [Get EXCEPT !.Static = FALSE]>>),
     local      |-> Described(<<[Get EXCEPT !.Resolves = FALSE], List>>),
     embedded   |-> Described(<<[Join EXCEPT !.Resolves = FALSE]>>)]

MCInputs == {InputOf[name] : name \in InputNames}

-----------------------------------------------------------------------------
Shifting == {DescriptionOf[name] : name \in ShiftingNames} \cup {Missing}
MCMigrate ==
    /\ input \in {InputOf[name] : name \in MigratedInputNames}
    /\ server \in [TableNames -> Shifting]
    /\ Migrate
    /\ server' \in [TableNames -> Shifting]

MCSpec == Init /\ [][Step \/ MCMigrate]_vars
=============================================================================
