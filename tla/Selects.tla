------------------------------ MODULE Selects ------------------------------
(***************************************************************************)
(* The analysis of SELECT and of the statements that write rows             *)
(* (internal/analyzer: semantic.go, select_semantic.go, insert_select.go,   *)
(* in_subquery.go, wildcard.go, embed.go, flatten.go, window.go, ...).      *)
(*                                                                          *)
(* A SELECT core is a record with a number (id), its sources in the order   *)
(* of FROM, its result columns and its clauses; what is left out is <<>>.   *)
(* A path of a table is a folder, or "" for a relative name, and a name.    *)
(* The block holds what a query is analyzed against; the environment what   *)
(* its statements find out: parameter types, the explicit columns that      *)
(* replace wildcards, embeds, the columns of the last SELECT, and whether   *)
(* there has been no diagnostic.                                            *)
(***************************************************************************)
EXTENDS Expressions

CONSTANT Collation      \* the names of columns, in the order of their bytes

Source(kind, path, alias, join, on) ==
    [kind |-> kind, path |-> path, alias |-> alias, join |-> join, on |-> on,
     view |-> "", flatten |-> <<>>, inner |-> <<>>]
Table(name, alias) == Source("table", <<"", name>>, alias, "", <<>>)
Joined(join, name, alias, on) == Source("table", <<"", name>>, alias, join, <<on>>)

Result(expr, alias) == [kind |-> "expr", expr |-> expr, name |-> "", alias |-> alias]
Star(prefix) == [kind |-> "star", expr |-> Null, name |-> prefix, alias |-> ""]
Embed(name) == [kind |-> "embed", expr |-> Null, name |-> name, alias |-> ""]
Key(expr, alias) == [expr |-> expr, alias |-> alias]

Core(id, from, columns, where) ==
    [id |-> id, from |-> from, columns |-> columns, where |-> where, without |-> <<>>,
     ifExists |-> FALSE, group |-> <<>>, having |-> <<>>, order |-> <<>>,
     limit |-> <<>>, windows |-> <<>>]

\* form is "" or a construct that is refused: CTE, EXCEPT, INTERSECT, DISCARD.
Select(arms) == [arms |-> arms, form |-> ""]

Environment(bindings, inferred) ==
    [bindings |-> bindings, inferred |-> inferred, rewrites |-> <<>>,
     embeds |-> <<>>, columns |-> <<>>, ok |-> TRUE]
Refuse(env) == [env EXCEPT !.ok = FALSE]
Require(env, condition) == IF condition THEN env ELSE Refuse(env)
Filled(env) == [env EXCEPT !.bindings = FillBindings(@, env.inferred)]

Block(tables, functions) ==
    [tables |-> tables, functions |-> functions, prefix |-> "", tabular |-> <<>>,
     lambdas |-> <<>>, arguments |-> <<>>, expanded |-> <<>>, rewriting |-> TRUE,
     embedCore |-> 0]

ResultName(column) == IF column.WireName # "" THEN column.WireName ELSE column.Name
qualifiedName(ref) ==
    IF ref.names[1] = "" THEN ref.name ELSE ref.names[1] \o "." \o ref.name

-----------------------------------------------------------------------------
(***************************************************************************)
(* Expressions of a core, as the passes over its tree meet them.            *)
(***************************************************************************)
ResultExprs(core) ==
    LET computed == SelectSeq(core.columns, LAMBDA c : c.kind = "expr")
    IN  [i \in DOMAIN computed |-> computed[i].expr]
GroupExprs(core) == [i \in DOMAIN core.group |-> core.group[i].expr]
OnExprs(core) == FlattenSeq([i \in DOMAIN core.from |-> core.from[i].on])
WindowExprs(core) == FlattenSeq([i \in DOMAIN core.windows |-> core.windows[i].columns])

\* GROUP BY and ON do not see the aliases of GROUP BY.
AliasedExprs(core) ==
    ResultExprs(core) \o core.where \o core.having \o core.order \o WindowExprs(core)
CoreExprs(core) == AliasedExprs(core) \o OnExprs(core) \o GroupExprs(core)

SomePart(exprs, Test(_)) ==
    \E i \in DOMAIN exprs : \E j \in DOMAIN Parts(exprs[i]) : Test(Parts(exprs[i])[j])
IsWindow(p) == p.op = "window"
hasWindowCall(core) == SomePart(CoreExprs(core), IsWindow)

\* Window functions only as direct projections.
validateWindowPlacement(core) ==
    LET nested == FlattenSeq([i \in DOMAIN ResultExprs(core) |-> ResultExprs(core)[i].args])
    IN  ~SomePart(nested \o core.where \o core.having \o core.order \o OnExprs(core)
                         \o GroupExprs(core), IsWindow)

rowNumberWindows(core, relations) ==
    /\ IsInjective([i \in DOMAIN core.windows |-> core.windows[i].name])
    /\ \A i \in DOMAIN core.windows :
          validateRowNumberWindow(core.windows[i].columns, relations)

\* The names of the parameters in an expression, nested scopes included.
RECURSIVE bindNames(_), selectBindNames(_)
bindNames(e) ==
    LET operands == UNION {bindNames(Operands(e)[i]) : i \in DOMAIN Operands(e)}
    IN  CASE e.op = "bind" -> {e.name}
          [] e.op = "lambda" ->
                 (bindNames(e.inner[2])
                     \cup UNION {bindNames(e.inner[1][i].expr) : i \in DOMAIN e.inner[1]})
                 \ (ToSet(e.names) \cup {e.inner[1][i].name : i \in DOMAIN e.inner[1]})
          [] e.op = "in" /\ e.name = "query" ->
                 operands \cup selectBindNames(Select(e.inner))
          [] OTHER -> operands
ExprsBindNames(exprs) == UNION {bindNames(exprs[i]) : i \in DOMAIN exprs}
selectBindNames(select) ==
    UNION {LET core == select.arms[a]
           IN  ExprsBindNames(CoreExprs(core) \o core.limit)
               \cup UNION {CASE core.from[i].kind = "select" ->
                                    selectBindNames(core.from[i].inner[1])
                             [] core.from[i].kind \in {"tabular", "as_table"} ->
                                    {core.from[i].path[2]}
                             [] OTHER -> {} : i \in DOMAIN core.from}
           : a \in DOMAIN select.arms}

-----------------------------------------------------------------------------
(***************************************************************************)
(* Sources.                                                                 *)
(***************************************************************************)
resolveTablePath(prefix, path) ==
    IF path[1] = "" THEN <<prefix, path[2]>> ELSE path

\* Result names become columns; a duplicate or unnamed one is an error.
tabularNames(columns) == [i \in DOMAIN columns |-> ResultName(columns[i])]
tabularAccepts(columns) ==
    IsInjective(tabularNames(columns)) /\ "" \notin ToSet(tabularNames(columns))
tabularTable(name, columns) ==
    TableOf("$" \o name,
            [i \in DOMAIN columns |-> Column(ResultName(columns[i]), columns[i].Type)])

asTableAccepts(name, bindings) ==
    /\ name \in DOMAIN bindings /\ bindings[name].Kind = "List"
    /\ Elem(bindings[name]).Kind = "Struct"
asTableRelation(name, bindings) ==
    LET row == Elem(bindings[name])
    IN  TableOf("AS_TABLE", [i \in DOMAIN row.Items |-> Column(row.Names[i], row.Items[i])])

\* FLATTEN LIST BY one column, under an alias or in place.
flattenAccepts(table, flatten) ==
    /\ flatten.name \in ColumnNames(table)
    /\ UnwrapOptional(tableColumn(table, flatten.name).Type).Kind = "List"
    /\ flatten.alias \notin ColumnNames(table)
flattenListColumn(table, flatten) ==
    LET item == [tableColumn(table, flatten.name)
                    EXCEPT !.Type = Elem(UnwrapOptional(@))]
    IN  IF flatten.alias # ""
        THEN [table EXCEPT !.Columns = Append(@, [item EXCEPT !.Name = flatten.alias])]
        ELSE [table EXCEPT !.Columns = [i \in DOMAIN @ |->
                 IF @[i].Name = flatten.name THEN item ELSE @[i]]]

\* Fault: only the side next to the join becomes optional.
joinNullabilityNearest(join, relations, base) ==
    LET n == Len(relations)
        left == CASE join = "LEFT" -> {n}
                  [] join = "RIGHT" -> {n - 1}
                  [] join = "FULL" -> {n - 1, n}
                  [] OTHER -> {}
    IN  [i \in DOMAIN relations |->
            IF i \in left THEN [relations[i] EXCEPT !.optional = TRUE] ELSE relations[i]]

\* What the join to relation n does to the relations since base.
joinNullability(join, relations, base) ==
    LET n == Len(relations)
        left == CASE join = "LEFT" -> {n}
                  [] join = "RIGHT" -> base .. n - 1
                  [] join = "FULL" -> base .. n
                  [] OTHER -> {}
    IN  [i \in DOMAIN relations |->
            IF i \in left THEN [relations[i] EXCEPT !.optional = TRUE] ELSE relations[i]]

RECURSIVE analyzeSelectCore(_, _, _, _), selectRelations(_, _, _)

\* The rows of a nested SELECT: one input.
analyzeSelectRows(block, select, env, mode) ==
    IF select.form # "" \/ Len(select.arms) # 1 THEN Refuse(env)
    ELSE analyzeSelectCore(block, select.arms[1], env, mode)

\* The table of a source, with the environment after its analysis.
sourceTable(block, source, env) ==
    LET path == resolveTablePath(block.prefix, source.path)
        name == source.path[2]
        nested == analyzeSelectRows(block, source.inner[1], env, "named")
        found(accepted, table, e) == [table |-> table, env |-> Require(e, accepted)]
        none == found(FALSE, TableOf("", <<>>), env)
    IN  CASE source.kind = "select" /\ nested.ok ->
                 found(tabularAccepts(nested.columns),
                       tabularTable("derived", nested.columns), nested)
          [] source.kind = "tabular" /\ name \in DOMAIN block.tabular ->
                 found(TRUE, block.tabular[name], env)
          [] source.kind = "as_table" /\ asTableAccepts(name, env.bindings) ->
                 found(TRUE, asTableRelation(name, env.bindings), env)
          [] source.kind = "table" /\ path \in DOMAIN block.tables ->
                 found(source.view \in {""} \cup block.tables[path].Indexes,
                       block.tables[path], env)
          [] OTHER -> none

\* One source more.  A join of "" begins a new list of joins.
withSource(block, core, known, source) ==
    LET found == sourceTable(block, source, known.env)
        unnamed == source.alias = "" /\ source.kind \in {"select", "as_table"}
        alias == IF source.alias # "" THEN source.alias
                 ELSE IF source.kind = "table" THEN source.path[2] ELSE found.table.Name
        local(table) == \E name \in DOMAIN block.tabular \cup {"derived"} :
                            table.Name = "$" \o name
        duplicate == \E i \in DOMAIN known.relations :
                        /\ known.relations[i].alias = alias
                        /\ \/ source.alias # "" \/ local(found.table)
                           \/ local(known.relations[i].table)
        flattens == source.flatten # <<>>
        table == IF flattens THEN flattenListColumn(found.table, source.flatten[1])
                 ELSE found.table
        relation == [Relation(table, alias)
                        EXCEPT !.physical = source.kind = "table" /\ ~flattens]
        base == IF source.join = "" THEN Len(known.relations) + 1 ELSE known.base
        accepted == /\ found.env.ok /\ ~duplicate
                    /\ unnamed => Len(core.from) = 1
                    /\ flattens => flattenAccepts(found.table, source.flatten[1])
    IN  IF ~known.env.ok \/ ~accepted THEN [known EXCEPT !.env = Refuse(found.env)]
        ELSE [relations |-> joinNullability(source.join,
                                Append(known.relations, relation), base),
              base |-> base, env |-> found.env]

selectRelations(block, core, env) ==
    FoldLeft(LAMBDA known, source : withSource(block, core, known, source),
             [relations |-> <<>>, base |-> 1, env |-> env], core.from)

-----------------------------------------------------------------------------
(***************************************************************************)
(* Projections.                                                             *)
(***************************************************************************)
Selected(prefix, sources) == SelectSeq(sources, LAMBDA r : prefix \in {"", r.alias})
AliasColumns(sources) ==
    UNION {{<<sources[r].alias, name>> : name \in ColumnNames(sources[r].table)} :
           r \in DOMAIN sources}
\* What the wildcards of a core select.
Candidates(core, sources) ==
    UNION {AliasColumns(Selected(core.columns[i].name, sources)) :
           i \in {j \in DOMAIN core.columns : core.columns[j].kind = "star"}}

\* WITHOUT takes effect, and is rewritten, only next to a wildcard.
WithoutMatches(name, sources) ==
    {c \in AliasColumns(sources) : c[2] = name.name /\ name.names[1] \in {"", c[1]}}
withoutAccepts(core, sources) ==
    \/ Candidates(core, sources) = {}
    \/ \A i \in DOMAIN core.without :
          LET matches(j) == WithoutMatches(core.without[j], sources)
          IN  /\ core.without[i].names[1] = "" => Len(sources) <= 1
              /\ \/ core.ifExists
                 \/ /\ matches(i) # {}
                    /\ \A j \in 1 .. i - 1 : matches(j) # matches(i)
selectWithoutColumns(core, sources) ==
    UNION {WithoutMatches(core.without[i], sources) : i \in DOMAIN core.without}
        \cap Candidates(core, sources)

StarColumns(relation, excluded) ==
    SelectSeq(relation.table.Columns, LAMBDA c : <<relation.alias, c.Name>> \notin excluded)
\* The columns of a wildcard and the explicit ones that replace it.
starProjection(item, sources, excluded) ==
    LET explicit(r, c) ==
            IF item.name # "" \/ Len(sources) > 1
            THEN Result(Col(r.alias, c.Name), c.Name) ELSE Result(Col("", c.Name), "")
        of(r) == LET columns == StarColumns(r, excluded)
                 IN  [i \in DOMAIN columns |->
                        [column |-> [columns[i] EXCEPT !.Type = joinedColumn(@, r.optional)],
                         item |-> explicit(r, columns[i]), unnamed |-> FALSE]]
        selected == Selected(item.name, sources)
    IN  FlattenSeq([i \in DOMAIN selected |-> of(selected[i])])

embedWire(ordinal, i) ==
    "__sqlc_embed_" \o ToString(ordinal - 1) \o "_" \o ToString(i - 1)
embedAccepts(block, core, item, sources, embeds) ==
    LET matched == Selected(item.name, sources)
    IN  /\ block.rewriting /\ block.embedCore = core.id /\ item.alias = ""
        /\ matched # <<>> /\ matched[1].physical /\ ~matched[1].optional
        /\ matched[1].table.Name \notin ToSet(embeds) /\ matched[1].table.Columns # <<>>
embedProjection(item, ordinal, sources) ==
    LET matched == Selected(item.name, sources)[1]
        columns == matched.table.Columns
    IN  [i \in DOMAIN columns |->
            [column |-> [columns[i] EXCEPT !.WireName = embedWire(ordinal, i)],
             item |-> Result(Col(matched.alias, columns[i].Name), embedWire(ordinal, i)),
             unnamed |-> FALSE]]

\* A result expression; a qualified column of a join keeps its qualifier.
expressionColumn(item, scope, sources, named) ==
    LET pure == isPureColumnExpression(item.expr)
        column == Column(IF item.alias # "" THEN item.alias
                         ELSE IF pure THEN item.expr.name ELSE "",
                         resolveExpression(item.expr, scope))
        wire == IF item.alias = "" /\ pure /\ Len(sources) > 1 /\ item.expr.names[1] # ""
                THEN qualifiedName(item.expr) ELSE ""
    IN  [column |-> [column EXCEPT !.WireName = wire], item |-> item,
         unnamed |-> item.alias = "" /\ ~pure /\ named]

\* One result column after the others; parts of it are its columns.
withResult(block, core, sources, excluded, scope, named, known, ordinal) ==
    LET item == core.columns[ordinal]
        star == starProjection(item, sources, excluded)
        computed == expressionColumn(item, scope, sources, named)
        add(parts, accepted) ==
            [known EXCEPT !.parts = @ \o [i \in DOMAIN parts |->
                                            parts[i] @@ [ordinal |-> ordinal - 1]],
                          !.ok = @ /\ accepted]
    IN  CASE item.kind = "star" ->
                 [add(star, Selected(item.name, sources) # <<>>)
                     EXCEPT !.emptied = @ + (IF star = <<>> THEN 1 ELSE 0)]
          [] item.kind = "embed" ->
                 IF embedAccepts(block, core, item, sources, known.embeds)
                 THEN [add(embedProjection(item, ordinal, sources), TRUE)
                          EXCEPT !.embeds = Append(@, Selected(item.name, sources)[1].table.Name)]
                 ELSE [known EXCEPT !.ok = FALSE]
          [] OTHER -> add(<<computed>>, computed.column.Type # ZeroType)

\* Fault: the expanded query leaves the names to its own ordinals.
keptItem(item, name) == item

\* An implicit name is written out where wildcards change the ordinals.
pinnedItem(item, name) == [item EXCEPT !.alias = name]

\* columnN from the ordinal of the expression, past the names in use.
implicitName(reserved, ordinal) ==
    LET free(n) == "column" \o ToString(n) \notin reserved
    IN  CHOOSE n \in ordinal .. ordinal + Cardinality(reserved) :
            free(n) /\ \A m \in ordinal .. n - 1 : ~free(m)

nameImplicitProjections(parts, pinned) ==
    LET authored == {ResultName(parts[i].column) :
                        i \in {j \in DOMAIN parts : parts[j].column.Name # ""}}
        name(known, i) ==
            LET n == implicitName(known.reserved, parts[i].ordinal)
                chosen == "column" \o ToString(n)
            IN  IF ~parts[i].unnamed THEN known
                ELSE [parts |-> [known.parts EXCEPT
                                    ![i].column.Name = chosen,
                                    ![i].item = IF pinned THEN pinnedItem(@, chosen) ELSE @],
                      reserved |-> known.reserved \cup {chosen},
                      shifted |-> known.shifted \/ n # parts[i].ordinal]
    IN  FoldLeft(name, [parts |-> parts, reserved |-> authored, shifted |-> FALSE],
                 [i \in DOMAIN parts |-> i])

\* A shifted name loses the order of the result.
byResultName(columns) ==
    LET rank(c) == CHOOSE i \in DOMAIN Collation : Collation[i] = ResultName(c)
    IN  SortSeq(columns, LAMBDA a, b : rank(a) < rank(b))

selectProjectionMode(block, core, relations, scope, env, named) ==
    LET sources == SelectSeq(relations, LAMBDA r : ~r.grouping)
        excluded == selectWithoutColumns(core, sources)
        all == FoldLeft(LAMBDA known, i :
                            withResult(block, core, sources, excluded, scope, named, known, i),
                        [parts |-> <<>>, ok |-> TRUE, emptied |-> 0, embeds |-> env.embeds],
                        [i \in DOMAIN core.columns |-> i])
        wildcard == \E i \in DOMAIN core.columns : core.columns[i].kind # "expr"
        final == nameImplicitProjections(all.parts, wildcard)
        columns == [i \in DOMAIN final.parts |-> final.parts[i].column]
        unnamed == \E i \in DOMAIN all.parts : all.parts[i].unnamed
        removes == core.without # <<>> /\ Candidates(core, sources) # {}
        explicit == [core EXCEPT !.columns = [i \in DOMAIN final.parts |-> final.parts[i].item],
                                 !.without = IF removes THEN <<>> ELSE @]
        accepted == /\ withoutAccepts(core, sources) /\ all.ok
                    /\ core.without # <<>> => columns # <<>>
                    /\ all.emptied <= 1
                    /\ all.embeds # <<>> => ~unnamed /\ IsInjective(tabularNames(columns))
    IN  IF ~accepted THEN Refuse(env)
        ELSE [env EXCEPT !.columns = IF final.shifted THEN byResultName(columns) ELSE columns,
                         !.embeds = all.embeds,
                         !.rewrites = IF block.rewriting /\ (wildcard \/ removes)
                                      THEN (core.id :> explicit) @@ @ ELSE @]

\* IN takes a tuple too.
selectINProjection(block, core, relations, scope, env) ==
    LET item == core.columns[1]
        type == resolveINOperand(item.expr, scope)
        tuple == /\ Len(core.columns) = 1 /\ item.kind = "expr" /\ item.expr.op = "tuple"
                 /\ core.without = <<>>
    IN  IF ~tuple THEN selectProjectionMode(block, core, relations, scope, env, TRUE)
        ELSE [Require(env, type # ZeroType) EXCEPT
                 !.columns = <<Column(IF item.alias = "" THEN "column0" ELSE item.alias, type)>>]

-----------------------------------------------------------------------------
(***************************************************************************)
(* GROUP BY, ORDER BY, LIMIT and references.                                *)
(***************************************************************************)

\* A key named like the column that it is adds no name.
IsAlias(key) ==
    /\ key.alias # ""
    /\ ~(isPureColumnExpression(key.expr) /\ key.expr.names[1] = ""
                                         /\ key.expr.name = key.alias)
AliasKeys(core) == SelectSeq(core.group, IsAlias)
GroupingRelation(keys, types) ==
    [Relation(TableOf("", [i \in DOMAIN keys |-> Column(keys[i].alias, types[i])]), "")
        EXCEPT !.grouping = TRUE]

\* Until its type is known an alias only hides the columns of the sources.
hiddenAliases(core) ==
    IF AliasKeys(core) = <<>> THEN <<>>
    ELSE <<GroupingRelation(AliasKeys(core), [i \in DOMAIN AliasKeys(core) |-> ZeroType])>>
groupingAliases(core, scope) ==
    LET keys == AliasKeys(core)
    IN  IF keys = <<>> THEN <<>>
        ELSE <<GroupingRelation(keys, [i \in DOMAIN keys |->
                                          resolveExpression(keys[i].expr, scope)])>>
groupingAccepts(core, aliases) ==
    LET named == SelectSeq(core.group, LAMBDA k : k.alias # "")
    IN  /\ IsInjective([i \in DOMAIN named |-> named[i].alias])
        /\ \A i \in DOMAIN AliasKeys(core) :
              /\ ~containsAggregate(AliasKeys(core)[i].expr)
              /\ aliases[1].table.Columns[i].Type # ZeroType

\* Which column of which relation; <<>> for none or several.
resolvedColumnKey(relations, ref) ==
    LET aliased == {r \in DOMAIN relations : /\ ref.names[1] = "" /\ relations[r].grouping
                                             /\ ref.name \in ColumnNames(relations[r].table)}
        matches == {r \in DOMAIN relations : /\ ref.names[1] \in {"", relations[r].alias}
                                             /\ ref.name \in ColumnNames(relations[r].table)}
        owner == IF aliased # {} THEN aliased ELSE matches
    IN  IF Cardinality(owner) # 1 THEN <<>>
        ELSE <<relations[Min(owner)].alias, ref.name>>

validateGrouping(core, relations, scope) ==
    LET sources == SelectSeq(relations, LAMBDA r : ~r.grouping)
        direct == {i \in DOMAIN core.group : isPureColumnExpression(core.group[i].expr)}
        named == {i \in DOMAIN core.group : core.group[i].alias # ""}
        grouped == ({resolvedColumnKey(sources, core.group[i].expr) : i \in direct}
                    \cup {resolvedColumnKey(relations, Col("", core.group[i].alias)) : i \in named})
                   \ {<<>>}
        exprs == ResultExprs(core) \o core.having
        aggregating == core.group # <<>> \/ \E i \in DOMAIN exprs : containsAggregate(exprs[i])
        covered(e) == \A i \in DOMAIN unaggregatedColumnRefs(e) :
                         resolvedColumnKey(relations, unaggregatedColumnRefs(e)[i]) \in grouped
    IN  /\ direct \cup named = DOMAIN core.group
        /\ aggregating =>
              /\ \A i \in DOMAIN core.columns : core.columns[i].kind = "expr"
              /\ \A i \in DOMAIN exprs : covered(exprs[i])
              /\ core.having # <<>> =>
                    UnwrapOptional(resolveExpression(core.having[1], scope)).Kind = "Bool"

\* syntax.Columns: the first source with a column of that name.
recordedColumn(relations, ref) ==
    LET matches == {r \in DOMAIN relations : /\ ref.names[1] \in {"", relations[r].alias}
                                             /\ ref.name \in ColumnNames(relations[r].table)}
        aliased == \E r \in matches : relations[r].grouping
    IN  IF matches = {} \/ (aliased /\ ref.names[1] = "") THEN <<>>
        ELSE <<relations[Min(matches)].alias, ref.name>>

\* Output names shadow the columns of the sources.
orderOutputs(core, relations, columns) ==
    LET sources == SelectSeq(relations, LAMBDA r : ~r.grouping)
        computed == [name \in ToSet(tabularNames(columns)) |-> <<>>]
        starred(prefix) ==
            FoldLeft(LAMBDA known, r : [n \in ColumnNames(r.table) |-> <<r.alias, n>>] @@ known,
                     <<>>, Selected(prefix, sources))
        written(item) ==
            IF item.alias # "" THEN item.alias
            ELSE IF Len(sources) > 1 THEN qualifiedName(item.expr) ELSE item.expr.name
        add(known, item) ==
            IF item.kind = "star" THEN starred(item.name) @@ known
            ELSE IF item.kind = "expr" /\ isPureColumnExpression(item.expr)
            THEN (written(item) :> recordedColumn(relations, item.expr)) @@ known
            ELSE known
    IN  FoldLeft(add, computed, core.columns)

\* An expression over an output that is not the column itself is refused.
resolveOrderByProjections(core, relations, columns) ==
    LET outputs == orderOutputs(core, relations, columns)
        fits(ref) == \/ ref.names[1] # "" \/ ref.name \notin DOMAIN outputs
                     \/ /\ outputs[ref.name] # <<>>
                        /\ outputs[ref.name] = recordedColumn(relations, ref)
    IN  \A i \in DOMAIN core.order :
            \/ isPureColumnExpression(core.order[i])
            \/ \A j \in DOMAIN columnRefs(core.order[i]) : fits(columnRefs(core.order[i])[j])

validateColumnReferences(exprs, relations) ==
    \A i \in DOMAIN exprs : \A j \in DOMAIN columnRefs(exprs[i]) :
        resolveColumn(relations, columnRefs(exprs[i])[j]) # ZeroType
validateOrderReferences(order, relations, columns) ==
    \A i \in DOMAIN order : \A j \in DOMAIN columnRefs(order[i]) :
        LET ref == columnRefs(order[i])[j]
        IN  \/ ref.names[1] = "" /\ ref.name \in ToSet(tabularNames(columns))
            \/ resolveColumn(relations, ref) # ZeroType

\* A parameter that nothing else constrains.
inferLimitOffset(limit, env) ==
    LET free(e) == directBind(e) /\ e.name \notin DOMAIN env.bindings \cup DOMAIN env.inferred
    IN  [env EXCEPT !.inferred = inferAll(@, UsesOf(SelectSeq(limit, free), Scalar("Uint64")))]

\* An Int64 only as a literal.
validateLimitOffset(limit, scope) ==
    \A i \in DOMAIN limit :
        LET type == resolveExpression(limit[i], scope)
        IN  /\ ~containsAggregate(limit[i])
            /\ \/ type = Scalar("Int64") /\ limit[i].op = "integer"
               \/ UnwrapOptional(type).Kind \in (IntegerKinds \ {"Int64"}) \cup {"Null"}

validatePredicateContexts(exprs, scope) ==
    \A i \in DOMAIN exprs : ~containsAggregate(exprs[i]) /\ validatePredicate(exprs[i], scope)

-----------------------------------------------------------------------------
(***************************************************************************)
(* SELECT.                                                                  *)
(***************************************************************************)
scopeIn(block, env, relations) ==
    Scope(relations, env.bindings, block.lambdas, block.functions)

\* Uses in the clauses that see the aliases of GROUP BY, then in the others.
inferCore(core, relations, sources, env) ==
    LET first == inferFromComparisons(AliasedExprs(core), relations, env.inferred)
        second == inferFromComparisons(OnExprs(core) \o GroupExprs(core), sources, first)
        third == inferFromInLists(AliasedExprs(core), relations, second)
    IN  [env EXCEPT !.inferred =
            inferFromInLists(OnExprs(core) \o GroupExprs(core), sources, third)]

\* The types of the IN subqueries by their numbers; one column each.
analyzeINSubqueries(block, exprs, env) ==
    LET parts == FlattenSeq([i \in DOMAIN exprs |-> Parts(exprs[i])])
        queries == SelectSeq(parts, LAMBDA p : p.op = "in" /\ p.name = "query")
        add(known, p) ==
            LET after == analyzeSelectCore(block, p.inner[1], known.env, "in")
            IN  IF ~known.env.ok THEN known
                ELSE IF ~after.ok \/ Len(after.columns) # 1
                THEN [known EXCEPT !.env = Refuse(after)]
                ELSE [env |-> after, types |-> (p.value[1] :> after.columns[1].Type) @@ known.types]
    IN  FoldLeft(add, [env |-> env, types |-> <<>>], queries)

\* What remains once the types of the parameters are known.
resolveCore(block, core, mode, relations, sources, env, subqueries) ==
    LET scope == [scopeIn(block, env, relations) EXCEPT
                     !.grouped = core.group # <<>>,
                     !.windows = {core.windows[i].name : i \in DOMAIN core.windows}]
        predicates(rels) == [scopeIn(block, env, rels) EXCEPT !.subqueries = subqueries]
        projected == IF mode = "in" THEN selectINProjection(block, core, relations, scope, env)
                     ELSE selectProjectionMode(block, core, relations, scope, env, mode = "named")
    IN  Require(projected,
                /\ projected.ok
                /\ validateLimitOffset(core.limit, scopeIn(block, env, <<>>))
                /\ resolveOrderByProjections(core, relations, projected.columns)
                /\ validateColumnReferences(ResultExprs(core) \o core.where \o core.having
                                               \o WindowExprs(core) \o OnExprs(core)
                                               \o GroupExprs(core), relations)
                /\ validateOrderReferences(core.order, relations, projected.columns)
                /\ validatePredicateContexts(core.where, predicates(relations))
                /\ validatePredicateContexts(OnExprs(core), predicates(sources))
                /\ validateGrouping(core, relations, scope))

analyzeSelectCore(block, authored, env, mode) ==
    LET core == IF authored.id \in DOMAIN block.expanded
                THEN block.expanded[authored.id] ELSE authored
        from == selectRelations(block, core, env)
        sources == from.relations
        accepted == /\ from.env.ok
                    /\ sources = <<>> => /\ ~SomePart(CoreExprs(core), IsAggregate)
                                         /\ ~hasWindowCall(core)
                    /\ rowNumberWindows(core, sources) /\ validateWindowPlacement(core)
        compared == Filled(inferCore(core, sources \o hiddenAliases(core), sources, from.env))
        nested == analyzeINSubqueries(block, CoreExprs(core), compared)
        contexts == [nested.env EXCEPT !.inferred =
                        inferFromExpressionContexts(CoreExprs(core), nested.env.bindings, @)]
        limited == Filled(inferLimitOffset(core.limit, contexts))
        aliases == groupingAliases(core, scopeIn(block, limited, sources))
        relations == sources \o aliases
        known == IF aliases = <<>> THEN limited
                 ELSE Filled(inferCore(core, relations, sources, limited))
    IN  IF ~accepted THEN Refuse(from.env)
        ELSE IF ~nested.env.ok \/ ~groupingAccepts(core, aliases) THEN Refuse(nested.env)
        ELSE resolveCore(block, core, mode, relations, sources, known, nested.types)

\* Columns of a UNION are matched by their result names.  columnsOf counts
\* the result names that share a name in the API.
reconcileUnionColumns(arms) ==
    LET all == FlattenSeq(arms)
        firsts == SelectSeq([i \in DOMAIN all |-> i],
                            LAMBDA i : \A j \in 1 .. i - 1 : ResultName(all[j]) # ResultName(all[i]))
        typesOf(name) == LET same == SelectSeq(all, LAMBDA c : ResultName(c) = name)
                         IN  [i \in DOMAIN same |-> same[i].Type]
        everywhere(name) == \A a \in DOMAIN arms : name \in ToSet(tabularNames(arms[a]))
        columnsOf(apiName) == {i \in ToSet(firsts) : all[i].Name = apiName}
        united(c) ==
            LET name == ResultName(c)
                type == CommonType(typesOf(name))
                shared == Cardinality(columnsOf(c.Name)) > 1
            IN  [c EXCEPT !.Type = IF type = ZeroType THEN ZeroType
                                   ELSE withOptional(type, ~everywhere(name)),
                          !.Name = IF shared THEN name ELSE @,
                          !.WireName = IF shared \/ c.Name # name THEN name ELSE ""]
        columns == [i \in DOMAIN firsts |-> united(all[firsts[i]])]
    IN  IF Len(arms) = 1 THEN arms[1]
        ELSE IF /\ \A a \in DOMAIN arms : IsInjective(tabularNames(arms[a]))
                /\ \A i \in DOMAIN columns : columns[i].Type # ZeroType
                /\ IsInjective([i \in DOMAIN columns |-> columns[i].Name])
        THEN columns ELSE <<>>

\* The inputs of a top-level SELECT share the bindings of the statement.
analyzeSelect(block, select, env) ==
    LET arm(known, core) ==
            LET after == analyzeSelectCore(
                            [block EXCEPT !.embedCore = IF Len(select.arms) = 1 THEN core.id ELSE 0],
                            core, known.env, "named")
            IN  IF ~known.env.ok THEN known
                ELSE [env |-> after, arms |-> Append(known.arms, after.columns)]
        all == FoldLeft(arm, [env |-> env, arms |-> <<>>], select.arms)
        columns == reconcileUnionColumns(all.arms)
    IN  IF select.form # "" \/ ~all.env.ok THEN Refuse(all.env)
        ELSE [Require(all.env, columns # <<>>) EXCEPT !.columns = columns]

-----------------------------------------------------------------------------
(***************************************************************************)
(* Statements that write rows.  A statement has a kind, the path of its     *)
(* table, the target columns, rows of values, assignments (name and expr),  *)
(* a source SELECT, WHERE, and what it returns.                             *)
(***************************************************************************)
Statement(kind) ==
    [kind |-> kind, id |-> 0, name |-> "", type |-> ZeroType, path |-> <<"", "">>,
     columns |-> <<>>, rows |-> <<>>, sets |-> <<>>, select |-> <<>>, where |-> <<>>,
     returning |-> <<>>, exprs |-> <<>>]

compatibleDMLAssignmentTypes(source, target) ==
    IF source = Null THEN IsOptional(target)
    ELSE \/ source = target
         \/ IsOptional(target) /\ source = UnwrapOptional(target)
         \/ CanWidenInteger(source, target)

isNullable(arguments, name) == name \in DOMAIN arguments /\ arguments[name] = "narg"

\* A value for a column: a parameter takes its type from the column, what a
\* second pass knows of a nullable one must fit.
validateDMLValue(block, expr, column, scope, env) ==
    LET type == resolveExpression(expr, scope)
        known == bindingType(scope, expr.name)
    IN  IF directBind(expr)
        THEN [Require(env, \/ ~isNullable(block.arguments, expr.name) \/ known = ZeroType
                           \/ compatibleDMLAssignmentTypes(known, column.Type))
                 EXCEPT !.inferred = inferParameter(@, expr.name, column.Type)]
        ELSE Require(env, /\ scope.relations = <<>> => columnRefs(expr) = <<>>
                          /\ ~containsAggregate(expr) /\ type # ZeroType
                          /\ compatibleDMLAssignmentTypes(type, column.Type))

\* VALUES with an explicit list of columns.
inferInsert(block, s, target, env) ==
    LET scope == scopeIn(block, env, <<>>)
        cells == {<<r, c>> \in (DOMAIN s.rows) \X (DOMAIN s.columns) : Len(s.rows[r]) = Len(s.columns)}
        value(known, cell) ==
            LET column == tableColumn(target, s.columns[cell[2]])
            IN  IF s.columns[cell[2]] \notin ColumnNames(target) THEN Refuse(known)
                ELSE validateDMLValue(block, s.rows[cell[1]][cell[2]], column, scope, known)
        order == SetToSortSeq(cells, LAMBDA a, b : a[1] < b[1] \/ (a[1] = b[1] /\ a[2] < b[2]))
    IN  FoldLeft(value,
                 Require(env, /\ s.columns # <<>> /\ s.rows # <<>>
                              /\ \A r \in DOMAIN s.rows : Len(s.rows[r]) = Len(s.columns)),
                 order)

inferUpdate(block, s, relation, env) ==
    LET scope == scopeIn(block, env, <<relation>>)
        assign(known, i) ==
            IF s.sets[i].name \notin ColumnNames(relation.table)
               \/ \E j \in 1 .. i - 1 : s.sets[j].name = s.sets[i].name
            THEN Refuse(known)
            ELSE validateDMLValue(block, s.sets[i].expr,
                                  tableColumn(relation.table, s.sets[i].name), scope, known)
    IN  FoldLeft(assign, Require(env, s.sets # <<>>), [i \in DOMAIN s.sets |-> i])

\* Every key column, and every NOT NULL column that an insert does not generate.
validateRequiredDMLColumns(target, names, insert) ==
    \A i \in DOMAIN target.Columns :
        LET column == target.Columns[i]
        IN  \/ column.Name \in names \/ (insert /\ column.SequenceGenerated)
            \/ /\ column.Name \notin target.PrimaryKey
               /\ insert => IsOptional(column.Type)

\* Columns of the SELECT meet those of the target by their result names.
validateNamedDMLColumns(target, columns, insert) ==
    LET names == tabularNames(columns)
    IN  /\ IsInjective(names)
        /\ \A i \in DOMAIN columns :
              /\ names[i] \in ColumnNames(target)
              /\ compatibleDMLAssignmentTypes(columns[i].Type, tableColumn(target, names[i]).Type)
        /\ validateRequiredDMLColumns(target, ToSet(names), insert)

analyzeNamedDMLSelect(block, s, target, env, insert) ==
    LET after == analyzeSelectRows(block, s.select[1], env, "named")
    IN  Require(after, after.ok /\ validateNamedDMLColumns(target, after.columns, insert))

\* With a list of target columns the source columns are taken in order.
analyzeInsertSelect(block, s, target, env) ==
    LET select == s.select[1]
        after == analyzeSelectRows(block, select, env, "dml")
        wildcard == \E a \in DOMAIN select.arms : \E i \in DOMAIN select.arms[a].columns :
                        select.arms[a].columns[i].kind = "star"
    IN  IF s.columns = <<>> THEN analyzeNamedDMLSelect(block, s, target, env, TRUE)
        ELSE Require(after,
                 /\ ~wildcard /\ after.ok /\ Len(after.columns) = Len(s.columns)
                 /\ IsInjective(s.columns)
                 /\ \A i \in DOMAIN s.columns :
                       /\ s.columns[i] \in ColumnNames(target)
                       /\ compatibleDMLAssignmentTypes(after.columns[i].Type,
                                                        tableColumn(target, s.columns[i]).Type)
                 /\ validateRequiredDMLColumns(target, ToSet(s.columns), TRUE))

\* RETURNING * is written out like a wildcard.
returningProjection(block, s, target, env) ==
    LET names == IF s.id \in DOMAIN block.expanded THEN block.expanded[s.id] ELSE s.returning
        all == names = <<"*">>
        columns == IF all THEN target.Columns
                   ELSE [i \in DOMAIN names |-> tableColumn(target, names[i])]
    IN  IF ~all /\ ~ToSet(names) \subseteq ColumnNames(target) THEN Refuse(env)
        ELSE [env EXCEPT !.columns = columns,
                         !.rewrites = IF all /\ block.rewriting
                                      THEN (s.id :> tabularNames(columns)) @@ @ ELSE @]

\* VALUES, SET and WHERE of a statement, in the order of the text.
DMLExprs(s) ==
    FlattenSeq(s.rows) \o [i \in DOMAIN s.sets |-> s.sets[i].expr] \o s.where

\* INSERT and UPSERT, UPDATE [ON], DELETE [ON].
analyzeDML(block, s, env) ==
    LET path == resolveTablePath(block.prefix, s.path)
        target == block.tables[path]
        relation == Relation(target, s.path[2])
        compared == Filled([env EXCEPT !.inferred =
                        inferFromInLists(DMLExprs(s), <<relation>>,
                            inferFromComparisons(DMLExprs(s), <<relation>>, @))])
        nested == analyzeINSubqueries(block, DMLExprs(s), compared)
        scope == [scopeIn(block, nested.env, <<relation>>) EXCEPT !.subqueries = nested.types]
        checked == Require(nested.env, /\ validateColumnReferences(DMLExprs(s), <<relation>>)
                                       /\ validatePredicateContexts(s.where, scope))
        written ==
            CASE s.select # <<>> /\ s.kind = "insert" -> analyzeInsertSelect(block, s, target, env)
              [] s.select # <<>> /\ s.kind # "insert" ->
                     IF s.columns # <<>> THEN Refuse(env)
                     ELSE analyzeNamedDMLSelect(block, s, target, env, FALSE)
              [] s.select = <<>> /\ ~checked.ok -> checked
              [] s.select = <<>> /\ checked.ok /\ s.kind = "insert" ->
                     inferInsert(block, s, target, checked)
              [] s.select = <<>> /\ checked.ok /\ s.kind = "update" ->
                     inferUpdate(block, s, relation, checked)
              [] OTHER -> checked
        done == [written EXCEPT !.columns = <<>>]
    IN  IF path \notin DOMAIN block.tables \/ ~written.ok THEN Refuse(env)
        ELSE IF s.returning = <<>> THEN done ELSE returningProjection(block, s, target, done)

\* The bindings of a statement do not outlive it; what it inferred does.
analyzeDataStatement(block, s, env) ==
    LET after == IF s.kind = "select" THEN analyzeSelect(block, s.select[1], env)
                 ELSE analyzeDML(block, s, env)
    IN  [after EXCEPT !.bindings = env.bindings]

\* A named SELECT, with the types of the parameters so far.
analyzeTabular(block, select, env) ==
    LET rows == analyzeSelectRows(block, select, Filled(env), "named")
    IN  [rows EXCEPT !.bindings = env.bindings]

statementBindNames(s) ==
    ExprsBindNames(DMLExprs(s) \o s.exprs)
        \cup UNION {selectBindNames(s.select[i]) : i \in DOMAIN s.select}
=============================================================================
