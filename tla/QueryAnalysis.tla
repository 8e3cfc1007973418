---------------------------- MODULE QueryAnalysis ----------------------------
(***************************************************************************)
(* How the analyzer works through one named query: the registry of          *)
(* configured functions, then up to three passes over the script            *)
(* (analyzeExecutableQuery): as authored, again with the types found for    *)
(* nullable arguments, and again with its wildcards written out.  A pass    *)
(* (analyzeQuery) takes the local assignments and the data statements one   *)
(* by one and ends with the parameters and the result of the query.         *)
(*                                                                          *)
(* Diagnostics are collected by the code; here the first one ends the       *)
(* analysis, since a query with a diagnostic is not generated.              *)
(*                                                                          *)
(* What one expression and one statement mean is not said again here: the   *)
(* module is a machine over the three analyses below, which Expressions and *)
(* Selects define and every configuration assigns.                          *)
(***************************************************************************)
EXTENDS Selects, Registry

CONSTANTS
    Tables,         \* the tables of the schema: a function from paths to tables
    Queries,        \* a sequence of named queries
    TypeOf(_, _),               \* resolveExpression: an expression in a scope
    AnalyzeTabular(_, _, _),    \* analyzeTabular: block, SELECT, environment
    AnalyzeStatement(_, _, _)   \* analyzeDataStatement: block, statement, environment

VARIABLES
    catalog,            \* the tables that the query is analyzed against
    \* status has the values statements and analyzed as well
    query,              \* the number of the query, 0 before one is taken
    current,            \* the query itself
    pass,               \* authored, assumed, expanded
    todo,               \* the statements of the pass that are not analyzed yet
    declared,           \* types by DECLARE, configuration and earlier passes
    locals,             \* types of the scalar local assignments
    block,              \* queryBlock
    env,                \* what the statements have found out
    resultSets,         \* columns of the results so far
    resultParameters,   \* parameters of the result statement, as it saw them
    report,             \* the last AnalyzedQuery
    authored            \* the one before the wildcards were written out

vars == <<catalog, functions, pending, query, current, status, pass, todo, declared, locals, block,
          env, resultSets, resultParameters, report, authored>>

\* macros are the uses of sqlc.arg, sqlc.narg and sqlc.slice; names those of
\* the results of :multi; parameters the configured types; written the SELECTs whose
\* wildcards the text has written out.
Query(command, script) ==
    [command |-> command, script |-> script, macros |-> <<>>, names |-> <<>>,
     parameters |-> <<>>, written |-> <<>>]
Local(name, e) == [Statement("local") EXCEPT !.name = name, !.exprs = <<e>>]
TabularLocal(name, select) ==
    [Statement("local") EXCEPT !.name = name, !.select = <<select>>]
Declare(name, type) == [Statement("declare") EXCEPT !.name = name, !.type = type]
SelectStatement(select) == [Statement("select") EXCEPT !.select = <<select>>]

NoReport == [parameters |-> <<>>, results |-> <<>>, embeds |-> <<>>]

-----------------------------------------------------------------------------
(***************************************************************************)
(* Before the first statement.                                              *)
(***************************************************************************)
OfKind(script, kinds) == SelectSeq(script, LAMBDA s : s.kind \in kinds)
DataKinds == {"select", "insert", "update", "delete"}
Data(script) == OfKind(script, DataKinds)

\* One macro for a name, and slices right after IN.
lowerSQLCArguments(macros) ==
    \A i \in DOMAIN macros :
        /\ macros[i].name # ""
        /\ macros[i].macro = "slice" => macros[i].afterIN
        /\ \A j \in DOMAIN macros :
              macros[i].name = macros[j].name => macros[i].macro = macros[j].macro
argumentsOf(macros) ==
    [n \in {macros[i].name : i \in DOMAIN macros} |->
        macros[Min({i \in DOMAIN macros : macros[i].name = n})].macro]

\* One prefix, before everything but DECLARE.
tablePathPrefix(script) ==
    LET values == {script[i].path[1] : i \in {j \in DOMAIN script :
                       script[j].kind = "pragma" /\ script[j].name = "TablePathPrefix"}}
    IN  IF values = {} THEN "" ELSE CHOOSE v \in values : TRUE
tablePathPrefixAccepts(script) ==
    \A i \in DOMAIN script : script[i].kind = "pragma" =>
        /\ script[i].name \in {"TablePathPrefix", "OrderedColumns"}
        /\ \A j \in 1 .. i - 1 : script[j].kind \in {"pragma", "declare"}
        /\ script[i].name = "TablePathPrefix" =>
              script[i].path[1] # "" /\ script[i].path[1] = tablePathPrefix(script)

isDeclarationOnlyExec(q) ==
    /\ q.command = "exec" /\ q.script # <<>>
    /\ \A i \in DOMAIN q.script : q.script[i].kind = "declare"

ProducesRows(s) == s.kind = "select" \/ s.returning # <<>>

validateQueryStatements(q) ==
    LET data == Data(q.script)
        results == Len(SelectSeq(data, ProducesRows))
        ordered(first, then) ==
            \A i, j \in DOMAIN q.script :
                q.script[i].kind \in first /\ q.script[j].kind \in then => j < i
    IN  /\ \A i \in DOMAIN q.script :
              q.script[i].kind \in DataKinds \cup {"pragma", "declare", "local"}
        /\ IF data = <<>> THEN isDeclarationOnlyExec(q)
           ELSE /\ ordered(DataKinds, {"declare", "local"}) /\ ordered({"local"}, {"declare"})
                /\ IF q.command = "multi"
                   THEN Len(data) >= 2 /\ \A i \in DOMAIN data : data[i].kind = "select"
                   ELSE Len(data) > 1 =>
                           /\ results <= 1 /\ q.command \notin {"each", "execrows"}
                           /\ q.command \in {"one", "many"} => results = 1

\* -- result: annotations, a default for each SELECT without one.
multiResultNames(q) ==
    LET name(i) == IF i \in DOMAIN q.names /\ q.names[i] # "" THEN q.names[i]
                   ELSE "Result" \o ToString(i)
    IN  [i \in DOMAIN Data(q.script) |-> name(i)]

\* IN subqueries only as predicates of WHERE.
IsINQuery(p) == p.op = "in" /\ p.name = "query"
Enclosed(p) == p.op \in {"case", "call", "cast"} /\ SomePart(p.args, IsINQuery)
RECURSIVE validateINSubqueryContexts(_)
validateINSubqueryContexts(select) ==
    \A a \in DOMAIN select.arms :
        LET core == select.arms[a]
            others == ResultExprs(core) \o core.having \o core.order \o core.limit
                          \o OnExprs(core) \o GroupExprs(core)
        IN  /\ ~SomePart(others, IsINQuery) /\ ~SomePart(core.where, Enclosed)
            /\ \A i \in DOMAIN core.from :
                  core.from[i].kind = "select" => validateINSubqueryContexts(core.from[i].inner[1])
            /\ \A i \in DOMAIN core.where :
                  LET nested == SelectSeq(Parts(core.where[i]), IsINQuery)
                  IN  \A j \in DOMAIN nested : validateINSubqueryContexts(Select(nested[j].inner))
validateINSubqueries(script) ==
    \A i \in DOMAIN script :
        LET s == script[i]
        IN  /\ ~SomePart(FlattenSeq(s.rows) \o s.exprs, IsINQuery)
            /\ \A j \in DOMAIN s.sets : ~SomePart(<<s.sets[j].expr>>, IsINQuery)
            /\ ~SomePart(s.where, Enclosed)
            /\ \A j \in DOMAIN s.select : validateINSubqueryContexts(s.select[j])

\* DECLARE statements agree with each other and with the configuration.
declarations(script) ==
    LET statements == OfKind(script, {"declare"})
    IN  [n \in {statements[i].name : i \in DOMAIN statements} |->
            statements[Min({i \in DOMAIN statements : statements[i].name = n})].type]
declarationsAccept(script, parameters) ==
    LET statements == OfKind(script, {"declare"})
        types == declarations(script)
    IN  /\ \A i \in DOMAIN statements : statements[i].type = types[statements[i].name]
        /\ \A n \in DOMAIN types \cap DOMAIN parameters : types[n] = parameters[n]

localNames(q) ==
    LET statements == OfKind(q.script, {"local"})
    IN  {statements[i].name : i \in DOMAIN statements}

\* The checks that need no statement to be analyzed.
beginAccepts(q, types, arguments) ==
    /\ lowerSQLCArguments(q.macros)
    /\ tablePathPrefixAccepts(q.script) /\ validateQueryStatements(q)
    /\ q.command = "multi" => IsInjective(multiResultNames(q))
    /\ validateINSubqueries(q.script)
    /\ q.command = "each" => \E i \in DOMAIN q.script : q.script[i].kind = "select"
    /\ declarationsAccept(q.script, q.parameters)
    /\ \A n \in DOMAIN arguments :
          /\ isNullable(arguments, n) /\ n \in DOMAIN types => IsOptional(types[n])
          /\ n \notin localNames(q)

-----------------------------------------------------------------------------
(***************************************************************************)
(* Steps.                                                                   *)
(***************************************************************************)
BlockOf(tables, registry, q, assumedArguments, written) ==
    [Block(tables, registry) EXCEPT !.prefix = tablePathPrefix(q.script),
                                     !.arguments = assumedArguments,
                                     !.expanded = written @@ q.written,
                                     !.rewriting = written = <<>>]

Init ==
    /\ RegistryInit /\ catalog = Tables
    /\ query = 0 /\ current = Query("exec", <<>>) /\ todo = <<>>
    /\ pass = "authored"
    /\ declared = <<>> /\ locals = <<>> /\ block = Block(Tables, <<>>)
    /\ env = Environment(<<>>, <<>>) /\ resultSets = <<>> /\ resultParameters = <<>>
    /\ report = NoReport /\ authored = NoReport

\* NewRegistry comes before the first query.
Register ==
    /\ RegisterSignature
    /\ UNCHANGED <<catalog, query, current, pass, todo, declared, locals, block, env, resultSets,
                   resultParameters, report, authored>>

\* The beginning of a pass: assumed are the types of nullable arguments from
\* the pass before, written the cores without wildcards.
Begins(tables, registry, q, assumed, written) ==
    LET arguments == argumentsOf(q.macros)
        known == declarations(q.script) @@ (q.parameters @@ assumed)
    IN  /\ declared' = known
        /\ status' = IF beginAccepts(q, known, arguments) THEN "statements" ELSE "refused"
        /\ todo' = OfKind(q.script, {"local"}) \o Data(q.script)
        /\ locals' = <<>> /\ block' = BlockOf(tables, registry, q, arguments, written)
        /\ env' = Environment(known, <<>>)
        /\ resultSets' = <<>> /\ resultParameters' = <<>>

Begin ==
    /\ status = "registering" /\ pending = {} /\ query = 0
    /\ \E n \in DOMAIN Queries :
          query' = n /\ current' = Queries[n] /\ Begins(catalog, functions, Queries[n], <<>>, <<>>)
    /\ UNCHANGED <<catalog, functions, pending, pass, report, authored>>

\* A lambda with the bindings and the lambdas before it, a SELECT, a plain
\* name (only of what is declared or local), or a scalar expression.
localAccepts(s, scalar, table) ==
    /\ s.name \notin DOMAIN declared \cup DOMAIN locals \cup DOMAIN block.tabular
    /\ IF s.select # <<>> THEN table.ok /\ tabularAccepts(table.columns)
       ELSE \/ s.exprs[1].op = "lambda"
            \/ ~containsAggregate(s.exprs[1]) /\ scalar # ZeroType

LocalBinding ==
    /\ status = "statements" /\ todo # <<>> /\ Head(todo).kind = "local"
    /\ LET s == Head(todo)
           known == locals @@ declared
           expr == IF s.exprs = <<>> THEN Literal(Null) ELSE s.exprs[1]
           table == IF s.select = <<>> THEN env
                    ELSE AnalyzeTabular(block, s.select[1], [env EXCEPT !.bindings = known])
           scalar == IF expr.op = "lambda" THEN Scalar("Lambda")
                     ELSE TypeOf(expr, Scope(<<>>, known, block.lambdas, functions))
           lambda == [lambda |-> expr, bindings |-> FillBindings(known, env.inferred),
                      lambdas |-> block.lambdas]
           captured == IF expr.op = "lambda" THEN lambda ELSE block.lambdas[expr.name]
       IN  IF ~localAccepts(s, scalar, table)
           THEN status' = "refused" /\ UNCHANGED <<todo, locals, block, env>>
           ELSE /\ todo' = Tail(todo) /\ UNCHANGED status
                /\ IF s.select # <<>>
                   THEN /\ block' = [block EXCEPT !.tabular =
                                         (s.name :> tabularTable(s.name, table.columns)) @@ @]
                        /\ env' = [table EXCEPT !.bindings = env.bindings]
                        /\ UNCHANGED locals
                   ELSE /\ locals' = (s.name :> scalar) @@ locals
                        /\ env' = env
                        /\ block' = IF scalar.Kind # "Lambda" THEN block
                                    ELSE [block EXCEPT !.lambdas = (s.name :> captured) @@ @]
    /\ UNCHANGED <<catalog, functions, pending, query, current, pass, declared, resultSets,
                   resultParameters, report, authored>>

\* The parameters of a SELECT that returns rows, as inferred by now.
resultParametersOf(s, inferred) ==
    [n \in statementBindNames(s) \ (DOMAIN declared \cup localNames(current)) |->
        IF n \in DOMAIN inferred THEN inferred[n] ELSE ZeroType]

DataStatement ==
    /\ status = "statements" /\ todo # <<>> /\ Head(todo).kind # "local"
    /\ LET s == Head(todo)
           after == AnalyzeStatement(block, s,
                        [env EXCEPT !.bindings = locals @@ declared, !.columns = <<>>])
       IN  IF ~after.ok THEN status' = "refused" /\ UNCHANGED <<todo, env, resultSets, resultParameters>>
           ELSE /\ todo' = Tail(todo) /\ env' = after /\ UNCHANGED status
                /\ resultSets' = IF after.columns = <<>> THEN resultSets
                                 ELSE IF current.command = "multi"
                                 THEN Append(resultSets, after.columns) ELSE <<after.columns>>
                /\ resultParameters' =
                      IF s.kind = "select" THEN resultParametersOf(s, after.inferred) @@ resultParameters
                      ELSE resultParameters
    /\ UNCHANGED <<catalog, functions, pending, query, current, pass, declared, locals, block, report,
                   authored>>

\* What the parameters of the script are, from DECLARE or from their uses.
ScriptNames(script) == UNION {statementBindNames(script[i]) : i \in DOMAIN script}
ExternalNames(q) == (ScriptNames(q.script) \ localNames(q)) \cup DOMAIN declarations(q.script)
parameterType(n) ==
    LET type == IF n \in DOMAIN declared THEN declared[n]
                ELSE IF n \in DOMAIN env.inferred THEN env.inferred[n] ELSE ZeroType
    IN  IF type # ZeroType /\ isNullable(block.arguments, n)
        THEN withOptional(type, TRUE) ELSE type
externalParameters == [n \in ExternalNames(current) |-> parameterType(n)]

\* Uses agree with each other, with DECLARE and with the local value.
parametersAccept ==
    LET used == env.inferred
    IN  /\ \A n \in ExternalNames(current) :
              /\ parameterType(n) # ZeroType
              /\ n \in DOMAIN used =>
                    IF isNullable(block.arguments, n)
                    THEN UnwrapOptional(parameterType(n)) = UnwrapOptional(used[n])
                    ELSE compatibleTypes(parameterType(n), used[n])
        /\ \A n \in DOMAIN locals \cap DOMAIN used : compatibleTypes(locals[n], used[n])
        /\ DOMAIN current.parameters \subseteq ExternalNames(current)

\* Fault: a parameter may change after the result has been typed.
changesAllowed == TRUE

\* A parameter of the result that a later statement changes needs a DECLARE.
resultParametersKept ==
    \A n \in DOMAIN resultParameters \cap ExternalNames(current) :
        \/ resultParameters[n] = parameterType(n)
        \/ /\ isNullable(block.arguments, n)
           /\ UnwrapOptional(resultParameters[n]) = UnwrapOptional(parameterType(n))

RECURSIVE nonpersistableType(_)
nonpersistableType(t) ==
    \/ t.Kind \in ResourceKinds \cup {"Callable", "Lambda", "Tagged"}
    \/ \E i \in DOMAIN t.Items : nonpersistableType(t.Items[i])

\* A result has types that a client can read, and a command that expects it.
resultAccepts ==
    LET data == Data(current.script)
        returnsRows == resultSets # <<>>
    IN  /\ \A r \in DOMAIN resultSets : \A c \in DOMAIN resultSets[r] :
              resultSets[r][c].Type # Null /\ ~nonpersistableType(resultSets[r][c].Type)
        /\ current.command \in {"one", "many", "each"} => returnsRows
        /\ current.command = "exec" /\ Len(data) <= 1 => ~returnsRows
        /\ current.command = "execrows" => ~returnsRows
        /\ env.embeds # <<>> => Len(data) = 1

Analyzed == [parameters |-> externalParameters, results |-> resultSets, embeds |-> env.embeds]

\* An embed is read by position: writing it out must not change the result.
sameShape(before, after) ==
    /\ Len(before) = 1 /\ Len(after) = 1 /\ Len(before[1]) = Len(after[1])
    /\ \A i \in DOMAIN before[1] :
          /\ ResultName(before[1][i]) = ResultName(after[1][i])
          /\ before[1][i].Type = after[1][i].Type

\* The nullable arguments whose types the next pass takes for granted.
assumedTypes(parameters) ==
    [n \in {m \in DOMAIN parameters : isNullable(block.arguments, m)
                                       /\ m \notin DOMAIN current.parameters} |-> parameters[n]]

\* Fault: nullable arguments are not analyzed again.
needsNothing == FALSE
needsAssumed == pass = "authored" /\ DOMAIN assumedTypes(externalParameters) # {}

\* The end of a pass without diagnostics, and the one that follows it.
Finish ==
    /\ status = "statements" /\ todo = <<>>
    /\ UNCHANGED <<catalog, functions, pending, query, current>>
    /\ \/ /\ ~(parametersAccept /\ resultParametersKept /\ resultAccepts)
          /\ status' = "refused"
          /\ UNCHANGED <<pass, todo, declared, locals, block, env, resultSets,
                         resultParameters, report, authored>>
       \/ /\ parametersAccept /\ resultParametersKept /\ resultAccepts
          /\ \/ /\ needsAssumed
                /\ pass' = "assumed"
                /\ Begins(catalog, functions, current, assumedTypes(externalParameters), <<>>)
                /\ UNCHANGED <<report, authored>>
             \/ /\ ~needsAssumed /\ pass # "expanded" /\ DOMAIN env.rewrites # {}
                /\ pass' = "expanded" /\ report' = Analyzed /\ authored' = Analyzed
                /\ Begins(catalog, functions, current, assumedTypes(externalParameters), env.rewrites)
             \/ /\ ~needsAssumed /\ (pass = "expanded" \/ DOMAIN env.rewrites = {})
                /\ LET kept == authored.embeds # <<>>
                   IN  /\ status' = IF kept /\ ~sameShape(authored.results, resultSets)
                                    THEN "refused" ELSE "analyzed"
                       /\ report' = IF kept THEN [Analyzed EXCEPT !.results = authored.results]
                                    ELSE Analyzed
                /\ UNCHANGED <<pass, todo, declared, locals, block, env, resultSets,
                               resultParameters, authored>>

Next == Register \/ Begin \/ LocalBinding \/ DataStatement \/ Finish
Spec == Init /\ [][Next]_vars

-----------------------------------------------------------------------------
(***************************************************************************)
(* Properties.                                                              *)
(***************************************************************************)
Shape(columns) == {<<ResultName(columns[i]), columns[i].Type>> : i \in DOMAIN columns}

\* The query that is executed has its wildcards and embeds written out
\* (wildcard.go, embed.go); the generated code was promised the names, the types
\* and the parameters of the query as it was authored.
ExpansionKeepsResult ==
    status = "analyzed" /\ pass = "expanded" =>
        /\ report.parameters = authored.parameters
        /\ Len(resultSets) = Len(authored.results)
        /\ \A r \in DOMAIN resultSets : Shape(resultSets[r]) = Shape(authored.results[r])

\* The values that a statement writes, each with its column.
Written(s) ==
    LET target == catalog[resolveTablePath(block.prefix, s.path)]
        cells == {<<r, c>> \in (DOMAIN s.rows) \X (DOMAIN s.columns) : TRUE}
    IN  {[expr |-> s.rows[cell[1]][cell[2]], column |-> tableColumn(target, s.columns[cell[2]]),
          relations |-> <<>>] : cell \in cells}
        \cup {[expr |-> s.sets[i].expr, column |-> tableColumn(target, s.sets[i].name),
               relations |-> <<Relation(target, s.path[2])>>] : i \in DOMAIN s.sets}

\* Every value that an accepted query writes fits its column with the types
\* that the parameters finally have, however many statements and passes it took
\* to find them (validateDMLValue, inferParameter, externalParameters).
AssignmentsFit ==
    status = "analyzed" =>
        \A i \in DOMAIN current.script : current.script[i].kind \in {"insert", "update"} =>
            \A w \in Written(current.script[i]) :
                compatibleDMLAssignmentTypes(
                    TypeOf(w.expr, Scope(w.relations, report.parameters @@ locals,
                                                    block.lambdas, functions)),
                    w.column.Type)

\* The result of a SELECT, and the named SELECTs that it may use, analyzed with
\* the types that the parameters have in the end.
ResultStatement ==
    LET rows == SelectSeq(current.script, LAMBDA s : s.kind = "select") IN rows[Len(rows)]
Final == Environment(report.parameters @@ locals, <<>>)
Retabulated ==
    FoldLeft(LAMBDA known, s :
                 [known EXCEPT !.tabular =
                     (s.name :> tabularTable(s.name,
                         AnalyzeTabular(known, s.select[1], Final).columns)) @@ @],
             [block EXCEPT !.tabular = <<>>],
             SelectSeq(current.script, LAMBDA s : s.kind = "local" /\ s.select # <<>>))
Reanalyzed == AnalyzeStatement(Retabulated, ResultStatement, Final).columns
HasResult ==
    /\ status = "analyzed" /\ report.results # <<>> /\ current.command # "multi"
    /\ \E i \in DOMAIN current.script : current.script[i].kind = "select"
FromCatalog(core) == \A i \in DOMAIN core.from : core.from[i].kind = "table"

\* A result keeps its types when each parameter is declared with the type that
\* the whole script gives it (the check of resultParameters in analyzeQuery):
\* for one SELECT from tables of the catalog.
ResultTypesStable ==
    HasResult /\ Len(ResultStatement.select[1].arms) = 1
              /\ FromCatalog(ResultStatement.select[1].arms[1]) =>
        Shape(Reanalyzed) = Shape(resultSets[Len(resultSets)])

\* The same for every SELECT: what the documentation says of parameters.
ResultTypesAreFinal ==
    HasResult => Shape(Reanalyzed) = Shape(resultSets[Len(resultSets)])
=============================================================================
