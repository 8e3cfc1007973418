------------------------------- MODULE MCVet --------------------------------
(* A small instance of Vet: one directory of migrations, configurations with *)
(* one or two query sets, and the files that init writes.                    *)
EXTENDS Vet, TLC

\* Digits, small letters and "-" of names.
Zero == 48
One == 49
Two == 50
A == 97
Hyphen == 45
SQL(stem) == stem \o SqlSuffix
Token(kind, marker, after, statement) ==
    [kind |-> kind, marker |-> marker, after |-> after, statement |-> statement]

\* A statement, of a rollback section too, one that is a string literal with a
\* directive in it, and a comment that begins like a directive.
Up(statement) == Token("code", FALSE, "end", statement)
Down(statement) == Up(statement)
Literal(statement) == Token("code", TRUE, "end", statement)
Comment(after) == Token("comment", TRUE, after, "")

Text(tokens) == [kind |-> "file", text |-> tokens]
Folder == [kind |-> "directory", text |-> <<>>]

migrations == <<109>>                               \* "m"
first == SQL(<<Zero, One>>)                         \* "01.sql"
amended == SQL(<<Zero, One, Hyphen, A>>)            \* "01-a.sql"
initial == SQL(<<Zero, One, Dot, A>>)               \* "01.a.sql"
second == SQL(<<Zero, Two>>)                        \* "02.sql"
undoSecond == <<Zero, Two>> \o DownSuffix           \* "02.down.sql"
tenth == SQL(<<One, Zero>>)                         \* "10.sql"
hidden == SQL(<<Dot, One>>)                         \* ".1.sql"
readme == <<114>>                                   \* "r"
nested == <<A>>                                     \* "a"
queriesSQL == SQL(<<113>>)                          \* "q.sql"
schemaSQL == SQL(<<115>>)                           \* "s.sql"
moreSQL == SQL(<<A>>)
secretSQL == SQL(<<A, A>>)
missing == SQL(<<A, A, A>>)

MCTree ==
    (<<>> :> Folder) @@
    (<<migrations>> :> Folder) @@
    (<<migrations, tenth>> :> Text(<<Up("tenth")>>)) @@
    (<<migrations, first>> :>
        Text(<<Up("first"), Literal("marked"), Comment("word"), Up("after"),
               Comment("space"), Down("undo first")>>)) @@
    (<<migrations, amended>> :> Text(<<Up("amended")>>)) @@
    (<<migrations, initial>> :> Text(<<Up("initial")>>)) @@
    (<<migrations, second>> :> Text(<<Up("second"), Comment("end"), Down("undo second")>>)) @@
    (<<migrations, undoSecond>> :> Text(<<Down("drop second")>>)) @@
    (<<migrations, hidden>> :> Text(<<Down("hidden")>>)) @@
    (<<migrations, readme>> :> Text(<<Down("readme")>>)) @@
    (<<migrations, nested>> :> Folder) @@
    (<<migrations, nested, first>> :> Text(<<Up("nested")>>)) @@
    (<<queriesSQL>> :> Text(<<Up("Get"), Comment("end"), Up("Remove")>>)) @@
    (<<schemaSQL>> :> Text(<<Up("schema")>>)) @@
    (<<moreSQL>> :> Text(<<Up("List")>>)) @@
    (<<secretSQL>> :> [kind |-> "denied", text |-> <<>>])

MCSchemaSQL == <<schemaSQL>>
MCQuerySQL == <<queriesSQL>>
Directory == <<migrations>>
Everything == <<migrations, <<Star>>>>
Dated == <<migrations, <<Zero, Star>> \o SqlSuffix>>
Spelled == <<Here, migrations, second>>

MCEnvironment == {"YDB_TOKEN"}

Database(variables) ==
    [uri |-> "given", auth_token_env |-> "YDB_TOKEN", timeout |-> "", variables |-> variables,
     scheme |-> "grpcs", host |-> TRUE, path |-> TRUE, extra |-> FALSE, ca_file |-> TRUE]

QuerySet(schema, queryFiles, rules, database) ==
    [engine |-> "ydb", schema |-> schema, queries |-> queryFiles, rules |-> rules,
     database |-> database, connected |-> {}, functions |-> <<>>, parameters |-> <<>>,
     codegen |-> FALSE, gen |-> <<>>]

Rule(name, expression) == [name |-> name, expression |-> expression]
MCRules == <<Rule("typed", "query"), Rule("scan", "plan"), Rule("named", "query")>>

Document(rules, sets) ==
    [version |-> "2", plugins |-> FALSE, rules |-> rules, sets |-> sets]

Local == QuerySet(<<Directory>>, <<<<queriesSQL>>>>, <<"typed", "named">>, {})
Planned == QuerySet(<<Spelled, Dated, Everything>>, <<<<queriesSQL>>>>, <<"scan", DbPrepare, "typed">>,
                    {Database({"YDB_TOKEN"})})
Live == QuerySet(<<>>, <<<<moreSQL>>>>, <<"named">>, {Database({})})

Vetted ==
    {Document(MCRules, <<s>>) : s \in {Local, Planned, Live}}
    \cup {Document(MCRules, <<s, t>>) : s \in {Local, Live}, t \in {Planned, Local}}

\* Mistakes that the file, the rules, the sources or the connection reveal.
Mistaken ==
    {Document(MCRules \o <<Rule("typed", "query")>>, <<Local>>),
     Document(MCRules \o <<Rule("broken", "malformed")>>, <<Local>>),
     Document(MCRules, <<[Local EXCEPT !.rules = <<"unknown">>]>>),
     Document(MCRules, <<[Local EXCEPT !.connected = {TRUE}]>>),
     Document(MCRules, <<[Planned EXCEPT !.connected = {FALSE}]>>),
     Document(MCRules, <<[Local EXCEPT !.gen = [go |-> [out |-> ""]]]>>),
     Document(MCRules, <<[Local EXCEPT !.functions =
         <<[name |-> "F", returns |-> "Int32",
            args |-> <<[name |-> "a", type |-> "Int32"], [name |-> "a", type |-> "Int32"]>>]>>]>>),
     Document(MCRules, <<Local, [Local EXCEPT !.queries = <<<<missing>>>>]>>),
     Document(MCRules, <<Local, [Local EXCEPT !.schema = <<<<migrations, missing>>>>]>>),
     Document(MCRules, <<Local, [Local EXCEPT !.queries = <<<<secretSQL>>>>]>>),
     Document(MCRules, <<Local, [Planned EXCEPT !.database = {Database({"UNSET"})}]>>)}

\* The files that init writes.
Starters == {Starter(asked) : asked \in Asked}

MCDocuments == Vetted \cup Mistaken \cup Starters

-----------------------------------------------------------------------------
Statements(patterns) ==
    UNION {{token.statement : token \in Range(source.text)} :
           source \in Range(Read(patterns, TRUE))} \ {""}

\* What the migrations mark as forward is what Read leaves of them: no rollback
\* section, `.down.sql`, hidden or other file, and nothing cut at a marker that is
\* only a literal or the beginning of another word.
ASSUME MigrationsKeepTheirStatements ==
    LET forward == {"first", "marked", "after", "amended", "initial", "second", "tenth"}
    IN  /\ Statements(<<Directory>>) = forward
        /\ Statements(<<Dated>>) = forward \ {"tenth"}
        /\ Statements(<<Spelled, Everything>>) = forward \cup {"nested"}

\* The order in which the invariant wants the migrations of this directory is that
\* of the whole names: "-" and "." come before digits, digits before letters.
ASSUME MigrationsAreSortedWhole ==
    LET listed == <<amended, initial, first, second, tenth, nested>>
    IN  \A i, j \in DOMAIN listed :
            Precedes(<<migrations, listed[i]>>, <<migrations, listed[j]>>) <=> i < j
=============================================================================
