-------------------------------- MODULE Vet ---------------------------------
(***************************************************************************)
(* `sqlc-ydb vet` (internal/cli/vet.go): the selected rules of every query  *)
(* set are evaluated on every query, those about the plan with the plan     *)
(* that the server explains for that query.  A rule that matches is a       *)
(* finding, and the command goes on; anything else that goes wrong ends it, *)
(* and must not lose the findings made before.                              *)
(*                                                                          *)
(* Compiling CEL, analysing sources, the connection and the server decide   *)
(* by themselves; what they decide is a choice of the step that asks.       *)
(***************************************************************************)
EXTENDS Sources, Configuration

CONSTANTS
    Documents, \* configuration files the command may be given
    NoPlan     \* the activation of a query that was not explained

\* The query blocks of the files: the j-th of the i-th file is at <<i, j, 1>>.
Blocks(sources) ==
    UNION {{<<i, j, 1>> : j \in {k \in DOMAIN sources[i].text :
                                     sources[i].text[k].statement # ""}} :
           i \in DOMAIN sources}

StatementsIn(sources, turns) ==
    [n \in DOMAIN turns |-> sources[turns[n][1]].text[turns[n][2]].statement]

\* The queries of the files, in their order.
Named(sources) == StatementsIn(sources, InTurn(Blocks(sources)))

\* A document has its fields, and lists in it are slices.
ASSUME VetAssumption ==
    \A d \in Documents : IsValid(d) =>
        /\ {"rules", "sets"} \subseteq DOMAIN d
        /\ d.sets \in Seq(Range(d.sets))
        /\ \A i \in DOMAIN d.sets :
               /\ {"rules", "schema", "queries", "gen"} \subseteq DOMAIN d.sets[i]
               /\ d.sets[i].rules \in Seq(Range(d.sets[i].rules))
               /\ d.sets[i].schema \in Seq(Range(d.sets[i].schema))
               /\ d.sets[i].queries \in Seq(Range(d.sets[i].queries))

VARIABLES
    document,   \* the configuration file
    offline,    \* --no-database
    config,     \* the parsed configuration, <<>> before
    pc,         \* where the command is
    set,        \* the number of the query set
    schemas,    \* the migrations read for the set
    queries,    \* the queries the analysis of the set returned
    client,     \* whether the connection for plans is open
    query,      \* the number of the query
    rule,       \* the number of the selected rule
    plan,       \* the query whose plan the rules see, or NoPlan
    setFailures,\* findings in this set
    failures,   \* findings in the sets before
    reported,   \* what the command returned: findings and errors
    evaluated   \* history: every evaluation and its value

vars == <<document, offline, config, pc, set, schemas, queries, client, query,
          rule, plan, setFailures, failures, reported, evaluated>>

Set == config.sets[set]

RuleNamed(name) == CHOOSE r \in Range(config.rules) : r.name = name

\* The expression of a rule is "query" or "plan" after what it refers to,
\* "malformed" if CEL refuses it, or "blank".
NeedsPlan(name) == name # DbPrepare /\ RuleNamed(name).expression = "plan"

Connected == ~offline /\ DatabaseEnabled(Set)

Selected == Set.rules[rule]

GoTo(state) == pc' = state

-----------------------------------------------------------------------------
\* An error ends the command: withFailures joins it to the findings.
Fail(found) ==
    /\ reported' = [findings |-> found, error |-> TRUE]
    /\ GoTo("ended")

Load ==
    /\ pc = "loading"
    /\ \/ IsValid(document) /\ config' = Parse(document) /\ GoTo("compiling")
          /\ UNCHANGED reported
       \/ ~IsValid(document) /\ Fail({}) /\ UNCHANGED config
    /\ UNCHANGED <<document, offline, set, schemas, queries, client, query, rule,
                   plan, setFailures, failures, evaluated>>

\* Every rule has to be a CEL expression that returns a Boolean.
CompileRules ==
    /\ pc = "compiling"
    /\ \/ (\A r \in Range(config.rules) : r.expression # "malformed") /\ GoTo("checking")
          /\ UNCHANGED reported
       \/ (\E r \in Range(config.rules) : r.expression = "malformed") /\ Fail({})
    /\ UNCHANGED <<document, offline, config, set, schemas, queries, client,
                   query, rule, plan, setFailures, failures, evaluated>>

\* Without a connection there is neither a prepare nor a plan.
SetIsReady ==
    \/ Connected
    \/ /\ \A name \in Range(Set.rules) : name # DbPrepare /\ ~NeedsPlan(name)
       /\ Set.schema # <<>>

CheckSet ==
    /\ pc = "checking"
    /\ \/ SetIsReady /\ GoTo("reading") /\ UNCHANGED reported
       \/ ~SetIsReady /\ Fail(failures)
    /\ UNCHANGED <<document, offline, config, set, schemas, queries, client,
                   query, rule, plan, setFailures, failures, evaluated>>

\* The sources are read and analysed, with the server if connected.
Analyze ==
    LET read == IF Set.schema = <<>> THEN <<>> ELSE Read(Set.schema, TRUE)
        blocks == Read(Set.queries, FALSE)
        analyzable ==
            /\ Set.schema # <<>> => read # Refused
            /\ blocks # Refused
            /\ Connected => \A database \in Set.database : Resolves(database)
    IN  /\ pc = "reading"
        /\ \/ /\ analyzable
              /\ schemas' = read
              /\ queries' = Named(blocks)
              /\ GoTo("connecting")
              /\ UNCHANGED reported
           \/ Fail(failures) /\ UNCHANGED <<schemas, queries>>
        /\ UNCHANGED <<document, offline, config, set, client, query, rule, plan,
                       setFailures, failures, evaluated>>

\* A connection for the plans, if a selected rule needs one.
Connect ==
    /\ pc = "connecting"
    /\ IF Connected /\ \E name \in Range(Set.rules) : NeedsPlan(name)
       THEN \/ client' = TRUE /\ GoTo("explaining") /\ UNCHANGED reported
            \/ Fail(failures) /\ UNCHANGED client
       ELSE GoTo("explaining") /\ UNCHANGED <<client, reported>>
    /\ query' = 1 /\ rule' = 1
    /\ setFailures' = {}
    /\ UNCHANGED <<document, offline, config, set, schemas, queries, plan,
                   failures, evaluated>>

\* The queries end here, after the last of them or with an error.
EndQueries(found, error) ==
    /\ setFailures' = found
    /\ plan' = NoPlan
    /\ GoTo(IF error THEN "closing on error" ELSE "closing")

\* Fault: the plan of the first query serves them all.
PlanOfFirst == IF client THEN queries[1] ELSE NoPlan

PlanSeen == IF client THEN queries[query] ELSE NoPlan

\* The activation of the next query: the plan is new, or the error is.
Explain ==
    /\ pc = "explaining"
    /\ IF query > Len(queries) THEN EndQueries(setFailures, FALSE) /\ UNCHANGED rule
       ELSE \/ /\ plan' = PlanSeen
               /\ rule' = 1
               /\ GoTo("evaluating")
               /\ UNCHANGED setFailures
            \/ client /\ EndQueries(setFailures, TRUE) /\ UNCHANGED rule
    /\ UNCHANGED <<document, offline, config, set, schemas, queries, client,
                   query, failures, reported, evaluated>>

Evaluation(value) ==
    [set |-> set, query |-> queries[query], rule |-> Selected, plan |-> plan, value |-> value]

NextQuery == query' = query + 1 /\ GoTo("explaining") /\ UNCHANGED rule

NextRule == rule' = rule + 1 /\ UNCHANGED <<query, pc>>

\* sqlc/db-prepare has no program: the analysis has prepared the query.
SkipPrepare == NextRule

\* Fault: findings before an error in the same set are not returned.
FoundBeforeErrorLost == {}

FoundBeforeError == setFailures

\* One selected rule on one query.
Evaluate ==
    /\ pc = "evaluating"
    /\ IF rule > Len(Set.rules)
       THEN NextQuery /\ UNCHANGED <<plan, setFailures, evaluated>>
       ELSE IF Selected = DbPrepare
       THEN SkipPrepare /\ UNCHANGED <<plan, setFailures, evaluated>>
       ELSE \E value \in {"match", "clean", "error"} :
                /\ evaluated' = evaluated \cup {Evaluation(value)}
                /\ \/ /\ value = "match"
                      /\ setFailures' = setFailures \cup {Evaluation(value)}
                      /\ NextRule /\ UNCHANGED plan
                   \/ value = "clean" /\ NextRule /\ UNCHANGED <<plan, setFailures>>
                   \/ value = "error" /\ EndQueries(FoundBeforeError, TRUE)
                      /\ UNCHANGED <<query, rule>>
    /\ UNCHANGED <<document, offline, config, set, schemas, queries, client,
                   failures, reported>>

\* The connection is closed, which can fail as well, and the findings of the
\* set join those before it.
CloseSet ==
    LET found == failures \cup setFailures
    IN  /\ pc \in {"closing", "closing on error"}
        /\ client' = FALSE
        /\ failures' = found
        /\ \/ pc = "closing on error" /\ Fail(found) /\ UNCHANGED set
           \/ client /\ Fail(found) /\ UNCHANGED set
           \/ /\ pc = "closing"
              /\ IF set < Len(config.sets)
                 THEN set' = set + 1 /\ GoTo("checking") /\ UNCHANGED reported
                 ELSE /\ reported' = [findings |-> found, error |-> FALSE]
                      /\ GoTo("ended")
                      /\ UNCHANGED set
        /\ setFailures' = {}
        /\ UNCHANGED <<document, offline, config, schemas, queries, query, rule,
                       plan, evaluated>>

Init ==
    /\ document \in Documents
    /\ offline \in BOOLEAN
    /\ config = <<>>
    /\ pc = "loading"
    /\ set = 1
    /\ schemas = <<>> /\ queries = <<>>
    /\ client = FALSE
    /\ query = 1 /\ rule = 1
    /\ plan = NoPlan
    /\ setFailures = {} /\ failures = {}
    /\ reported = [findings |-> {}, error |-> FALSE]
    /\ evaluated = {}

Next ==
    \/ Load \/ CompileRules \/ CheckSet \/ Analyze \/ Connect
    \/ Explain \/ Evaluate \/ CloseSet

Spec == Init /\ [][Next]_vars

-----------------------------------------------------------------------------
(***************************************************************************)
(* Properties.                                                              *)
(***************************************************************************)

\* A vet that reports nothing has found every selected rule false of every
\* query of every set, and every rule about plans false of the plan of that
\* very query: no query, rule or set is passed over, whatever was skipped.
VerdictIsComplete ==
    pc = "ended" /\ ~reported.error /\ reported.findings = {} =>
        \A s \in DOMAIN config.sets :
            \A q \in Range(Named(Read(config.sets[s].queries, FALSE))) :
                \A name \in Range(config.sets[s].rules) \ {DbPrepare} :
                    \E e \in evaluated :
                        /\ e.set = s /\ e.query = q /\ e.rule = name
                        /\ e.value = "clean"
                        /\ NeedsPlan(name) => e.plan = q

\* Every rule that matched is reported, whatever fails later in the same set,
\* in a later set or while the connection is closed, and an evaluation that
\* failed always makes the command fail.
FindingsSurvive ==
    pc = "ended" =>
        /\ reported.findings = {e \in evaluated : e.value = "match"}
        /\ (\E e \in evaluated : e.value = "error") => reported.error

\* The files that a pattern names.
NamedBy(pattern) ==
    {file \in UNION {FilesAt(path) : path \in Matched(pattern)} : IsSource(file)}

\* What comes before the first rollback directive of a file, if it has one.
IsForward(text, whole) ==
    \E n \in 0..Len(whole) :
        /\ text = SubSeq(whole, 1, n)
        /\ \A k \in 1..n : ~IsRollback(whole[k])
        /\ n < Len(whole) => IsRollback(whole[n + 1])

\* A name is sorted before another if, after what they share, it ends or goes on
\* with the lesser character; a path by the first name in which it differs.
Sooner(s, t) ==
    \E n \in 0..Len(s) :
        /\ n < Len(t) /\ SubSeq(s, 1, n) = SubSeq(t, 1, n)
        /\ n = Len(s) \/ s[n + 1] < t[n + 1]

Precedes(p, q) ==
    \E i \in DOMAIN p \cap DOMAIN q :
        SubSeq(p, 1, i - 1) = SubSeq(q, 1, i - 1) /\ Sooner(p[i], q[i])

\* The schema of a query set is the forward part of every file that its
\* patterns name, each file once however many patterns name it: in the order of
\* the first pattern that names them and, within it, of the whole names of their
\* directories and files, the extension included.
SchemasAreForward ==
    pc = "explaining" /\ Set.schema # <<>> =>
        /\ {schemas[i].name : i \in DOMAIN schemas} =
               UNION {NamedBy(Set.schema[f]) : f \in DOMAIN Set.schema}
        /\ \A i \in DOMAIN schemas : IsForward(schemas[i].text, Tree[schemas[i].name].text)
        /\ \A i, j \in DOMAIN schemas : i < j =>
               /\ schemas[i].name # schemas[j].name
               /\ \E f \in DOMAIN Set.schema :
                      /\ schemas[i].name \in NamedBy(Set.schema[f])
                      /\ \A e \in 1..f : schemas[j].name \in NamedBy(Set.schema[e]) =>
                             e = f /\ Precedes(schemas[i].name, schemas[j].name)

\* A starter with only what has no default.
Minimal(starter) ==
    [starter EXCEPT !.sets[1].gen = [language \in DOMAIN starter.sets[1].gen |->
        [key \in {"out", RuntimeKey(language)} |-> starter.sets[1].gen[language][key]]]]

\* A file that init writes for any language and runtime is accepted, and means
\* the same as the file with all its defaults left out: the values listed for
\* init and its help are those that Parse fills in, kept apart in two files.
StartersAgree ==
    \A asked \in Asked :
        document = Starter(asked) /\ pc # "loading" => config = Parse(Minimal(document))
=============================================================================
