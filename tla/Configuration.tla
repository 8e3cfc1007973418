--------------------------- MODULE Configuration ----------------------------
(***************************************************************************)
(* The configuration file: what config.Parse accepts and fills in           *)
(* (internal/config/config.go), the generators and runtimes it knows and    *)
(* the file that init writes (options.go), and the database settings it     *)
(* resolves when a command connects (database.go).                          *)
(*                                                                          *)
(* A generator's options are a function on the keys that the file gives a    *)
(* value: a key it holds empty is one it leaves out.  A malformed name is   *)
(* "", whether it is empty, has spaces around it or is no identifier.       *)
(***************************************************************************)
EXTENDS Naturals, Sequences, SequencesExt

CONSTANTS
    Environment, \* the environment variables that are set
    SchemaSQL,   \* the path schema.sql
    QuerySQL     \* the path query.sql

DbPrepare == "sqlc/db-prepare"

-----------------------------------------------------------------------------
(***************************************************************************)
(* Generators and their runtimes.                                           *)
(***************************************************************************)

\* The first runtime is the default; "native" may stand for "ydb".
Runtimes ==
    [go         |-> [names |-> <<"database/sql", "ydb">>, native |-> FALSE],
     python     |-> [names |-> <<"ydb", "dbapi", "sqlalchemy">>, native |-> FALSE],
     cpp        |-> [names |-> <<"ydb", "userver">>, native |-> TRUE],
     csharp     |-> [names |-> <<"adonet", "dapper">>, native |-> FALSE],
     java       |-> [names |-> <<"ydb", "jdbc", "jooq">>, native |-> TRUE],
     kotlin     |-> [names |-> <<"ydb", "jdbc", "exposed">>, native |-> TRUE],
     typescript |-> [names |-> <<"ydb">>, native |-> FALSE],
     rust       |-> [names |-> <<"ydb">>, native |-> FALSE],
     php        |-> [names |-> <<"ydb">>, native |-> FALSE]]

Languages == DOMAIN Runtimes

RuntimeKey(language) == IF language = "go" THEN "sql_package" ELSE "runtime"

Unsupported == "unsupported"

ResolveRuntime(language, runtime) ==
    LET known == Runtimes[language]
    IN  CASE runtime = "" -> Head(known.names)
          [] runtime = "native" /\ known.native -> "ydb"
          [] runtime \in Range(known.names) -> runtime
          [] OTHER -> Unsupported

\* The options of each generator with the values that init writes.
ListedOptions(language) ==
    CASE language = "go" ->
            [package |-> "db", rename |-> <<>>, overrides |-> <<>>, build_tags |-> "",
             emit_db_tags |-> FALSE, emit_json_tags |-> FALSE, json_tags_case_style |-> "none",
             emit_interface |-> FALSE, emit_empty_slices |-> FALSE,
             emit_exported_queries |-> FALSE, query_parameter_limit |-> 1]
      [] language = "python" -> [emit_sync_querier |-> TRUE, emit_async_querier |-> FALSE]
      [] language = "cpp" -> [namespace |-> "db"]
      [] language \in {"csharp", "php"} -> [namespace |-> "Db"]
      [] language \in {"java", "kotlin"} -> [package |-> "db"]
      [] OTHER -> <<>>

Keys(language) == DOMAIN ListedOptions(language) \cup {"out", RuntimeKey(language)}

\* What init selects: nothing said is Go and Python, each with the ydb runtime.
InitProfiles(language, runtime) ==
    IF language = ""
    THEN IF runtime # "" THEN {}
         ELSE {[language |-> "go", runtime |-> "ydb", out |-> "db"],
               [language |-> "python", runtime |-> "ydb", out |-> "queries"]}
    ELSE IF language \notin Languages \/ ResolveRuntime(language, runtime) = Unsupported THEN {}
    ELSE {[language |-> language, runtime |-> ResolveRuntime(language, runtime), out |-> "db"]}

\* A profile's options, each with the value that init writes.
WrittenOptions(profile) ==
    [key \in Keys(profile.language) |->
        CASE key = "out" -> profile.out
          [] key = RuntimeKey(profile.language) -> profile.runtime
          [] OTHER -> ListedOptions(profile.language)[key]]

\* The configuration init writes for the selected profiles.
InitYAML(profiles) ==
    [version |-> "2", plugins |-> FALSE, rules |-> <<>>,
     sets |-> <<[engine |-> "ydb", schema |-> <<SchemaSQL>>, queries |-> <<QuerySQL>>,
                 rules |-> <<>>, database |-> {}, connected |-> {}, functions |-> <<>>,
                 parameters |-> <<>>, codegen |-> FALSE,
                 gen |-> [language \in {p.language : p \in profiles} |->
                             WrittenOptions(CHOOSE p \in profiles : p.language = language)]]>>]

\* The languages and runtimes that init accepts, and the file it writes.
Asked == {<<"", "">>} \cup
         {asked \in Languages \X
             ({"", "native"} \cup UNION {Range(Runtimes[l].names) : l \in Languages}) :
             InitProfiles(asked[1], asked[2]) # {}}

Starter(asked) == InitYAML(InitProfiles(asked[1], asked[2]))

-----------------------------------------------------------------------------
(***************************************************************************)
(* Parse.                                                                   *)
(***************************************************************************)
\* A key that is not there takes the default.
Given(options, key, default) ==
    IF key \in DOMAIN options THEN options[key] ELSE default

\* Fault: the parameter limit is left at zero when it is not given.
DefaultsWithoutLimit(language, options) ==
    IF language = "go" THEN [ListedOptions("go") EXCEPT !.query_parameter_limit = 0]
    ELSE ListedOptions(language)

\* The Go package is named after the output directory.
Defaults(language, options) ==
    CASE language = "go" ->
            [package |-> Given(options, "out", ""), rename |-> <<>>, overrides |-> <<>>,
             build_tags |-> "", emit_db_tags |-> FALSE, emit_json_tags |-> FALSE,
             json_tags_case_style |-> "none", emit_interface |-> FALSE,
             emit_empty_slices |-> FALSE, emit_exported_queries |-> FALSE,
             query_parameter_limit |-> 1]
      [] language = "python" -> [emit_sync_querier |-> TRUE, emit_async_querier |-> FALSE]
      [] language = "cpp" -> [namespace |-> "db"]
      [] language \in {"csharp", "php"} -> [namespace |-> "Db"]
      [] language \in {"java", "kotlin"} -> [package |-> "db"]
      [] OTHER -> <<>>

Runtime(language, options) ==
    ResolveRuntime(language, Given(options, RuntimeKey(language), ""))

Filled(language, options) ==
    [key \in DOMAIN options \cup DOMAIN Defaults(language, options) \cup {RuntimeKey(language)} |->
        IF key = RuntimeKey(language) THEN Runtime(language, options)
        ELSE Given(options, key, Defaults(language, options)[key])]

OverrideIsValid(override) ==
    /\ (override.db_type = "") # (override.column = "")
    /\ override.go_type # ""
    /\ override.column # "" => ~override.nullable

OptionsAreValid(language, options) ==
    LET filled == Filled(language, options)
    IN  /\ DOMAIN options \subseteq Keys(language)
        /\ Given(options, "out", "") # ""
        /\ Runtime(language, options) # Unsupported
        /\ language = "go" =>
               /\ filled.json_tags_case_style \in {"none", "camel", "pascal", "snake"}
               /\ filled.build_tags # "malformed"
               /\ filled.query_parameter_limit >= 0
               /\ \A i \in DOMAIN filled.overrides : OverrideIsValid(filled.overrides[i])
        /\ language = "python" => filled.emit_sync_querier \/ filled.emit_async_querier

\* analyzer.database, and without it whether there is a database at all.
DatabaseEnabled(set) ==
    IF set.connected # {} THEN set.connected = {TRUE} ELSE set.database # {}

DatabaseIsValid(database) ==
    database.uri # "" /\ database.auth_token_env # "malformed" /\ database.timeout # "malformed"

FunctionIsValid(function) ==
    /\ function.name # "" /\ function.returns # ""
    /\ \A i \in DOMAIN function.args : function.args[i].type # ""
    /\ \A i, j \in DOMAIN function.args :
           i # j /\ function.args[i].name # "" => function.args[i].name # function.args[j].name

\* By query, the types of its parameters.
ParametersAreValid(parameters) ==
    \A query \in DOMAIN parameters :
        /\ query # "" /\ DOMAIN parameters[query] # {}
        /\ \A name \in DOMAIN parameters[query] : name # "" /\ parameters[query][name] # ""

SetIsValid(set, ruleNames) ==
    /\ Range(set.rules) \subseteq ruleNames
    /\ IsInjective(set.rules)
    /\ ~set.codegen
    /\ set.engine = "ydb"
    /\ set.queries # <<>>
    /\ set.schema # <<>> \/ DatabaseEnabled(set)
    /\ DatabaseEnabled(set) => set.database # {}
    /\ \A database \in set.database : DatabaseIsValid(database)
    /\ \A i \in DOMAIN set.functions : FunctionIsValid(set.functions[i])
    /\ ParametersAreValid(set.parameters)
    /\ \A language \in DOMAIN set.gen :
           language \in Languages /\ OptionsAreValid(language, set.gen[language])

IsValid(document) ==
    LET names == [i \in DOMAIN document.rules |-> document.rules[i].name]
    IN  /\ ~document.plugins
        /\ document.version = "2"
        /\ document.sets # <<>>
        /\ \A i \in DOMAIN names : names[i] \notin {"", DbPrepare}
        /\ IsInjective(names)
        /\ \A i \in DOMAIN document.rules : document.rules[i].expression # "blank"
        /\ \A i \in DOMAIN document.sets :
               SetIsValid(document.sets[i], Range(names) \cup {DbPrepare})

\* A query set with the options of its generators filled in.
ParseSet(set) ==
    [set EXCEPT !.gen =
        [language \in DOMAIN set.gen |-> Filled(language, set.gen[language])]]

\* The configuration that a document stands for, once it is valid.
Parse(document) ==
    [document EXCEPT !.sets = [i \in DOMAIN document.sets |-> ParseSet(document.sets[i])]]

-----------------------------------------------------------------------------
\* The settings of a connection, once a command needs one: every variable the
\* URI names and the token are set, and the URI has the required parts.
Resolves(database) ==
    /\ DatabaseIsValid(database)
    /\ database.variables \subseteq Environment
    /\ database.scheme \in {"grpc", "grpcs"} /\ database.host /\ database.path
    /\ ~database.extra
    /\ database.ca_file => database.scheme = "grpcs"
    /\ database.auth_token_env # "" => database.auth_token_env \in Environment
=============================================================================
