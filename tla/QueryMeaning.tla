---------------------------- MODULE QueryMeaning ----------------------------
(***************************************************************************)
(* What the server may put into the result of a query, for the property     *)
(* that the analyzer never promises a value where there may be NULL.  The   *)
(* server is not part of the repository: this is SQL's three-valued logic   *)
(* and the padding of outer joins, as the analyzer's rules assume them.     *)
(*                                                                          *)
(* A value is "null", "true", "false" or "value".  A table may hold any row *)
(* that its column types allow, a parameter any value of its reported type. *)
(***************************************************************************)
EXTENDS QueryAnalysis

Values(t) ==
    CASE t = Null -> {"null"}
      [] IsOptional(t) -> {"null"} \cup (IF Elem(t).Kind = "Bool" THEN {"true", "false"}
                                         ELSE {"value"})
      [] t.Kind = "Bool" -> {"true", "false"}
      [] OTHER -> {"value"}

\* The operators whose meaning is given here; MeaningKnown is for a result.
MeaningfulOps ==
    {"literal", "integer", "bind", "column", "call", "case", "in", "arithmetic", "boolean",
     "concat", "compare", "isnull", "window"}
MeaningfulCalls ==
    {"COALESCE", "NVL", "IF", "UNWRAP", "LENGTH", "ABS", "SUBSTRING", "STARTSWITH", "FIND",
     "COUNT", "MIN", "MAX", "SUM", "AVG", "String::Strip", "Unicode::GetLength", "Math::Abs",
     "Digest::CityHash", "Url::GetHost", "DateTime::GetYear", "CURRENTUTCTIMESTAMP"}
Meaningless(p) ==
    \/ p.op \notin MeaningfulOps
    \/ p.op = "call" /\ p.name \notin MeaningfulCalls \cup DOMAIN functions

Strict(args, results) ==
    {"null" : i \in {j \in DOMAIN args : "null" \in args[j]}}
        \cup (IF \A i \in DOMAIN args : args[i] # {"null"} THEN results ELSE {})

Conjunction(args) ==
    {"false" : i \in {j \in DOMAIN args : "false" \in args[j]}}
        \cup (IF \A i \in DOMAIN args : "true" \in args[i] THEN {"true"} ELSE {})
        \cup {"null" : i \in {j \in DOMAIN args : "null" \in args[j]
                                 /\ \A k \in DOMAIN args : args[k] # {"false"}}}
Negation(values) ==
    {CASE v = "true" -> "false" [] v = "false" -> "true" [] OTHER -> v : v \in values}
Logical(operator, args) ==
    CASE operator = "AND" -> Conjunction(args)
      [] operator = "OR" -> Negation(Conjunction([i \in DOMAIN args |-> Negation(args[i])]))
      [] operator = "NOT" -> Negation(args[1])
      [] OTHER -> Strict(args, {"true", "false"})

\* The first value that is not NULL.
FirstValue(args) ==
    UNION {args[i] \ {"null"} : i \in {j \in DOMAIN args :
                                    \A k \in 1 .. j - 1 : "null" \in args[k]}}
        \cup (IF \A i \in DOMAIN args : "null" \in args[i] THEN {"null"} ELSE {})

\* A branch that some row takes; NULL is not true.
Branches(conditions, branches, otherwise) ==
    UNION {branches[i] : i \in {j \in DOMAIN conditions : "true" \in conditions[j]}}
        \cup (IF \A i \in DOMAIN conditions : conditions[i] # {"true"} THEN otherwise ELSE {})

\* An aggregate of no rows is NULL, and so is one of nothing but NULL.
Aggregated(name, values, grouped) ==
    IF name = "COUNT" THEN {"value"}
    ELSE {"value" : v \in values \ {"null"}}
             \cup (IF ~grouped \/ "null" \in values THEN {"null"} ELSE {})

\* Configured functions: NULL for an AutoMap parameter is the result.
Applied(e, args) ==
    LET given == [i \in DOMAIN e.args |-> CallArgument(e.names[i], Null, <<>>, FALSE, FALSE)]
        fits(s) == 0 \notin ToSet(Bound(given, s.Arguments))
        of(s) == LET mapped == SelectSeq([i \in DOMAIN args |-> i],
                                         LAMBDA i : s.Arguments[Bound(given, s.Arguments)[i]].AutoMap)
                 IN  Strict([i \in DOMAIN mapped |-> args[mapped[i]]], Values(s.Returns))
    IN  UNION {of(s) : s \in {t \in ToSet(functions[e.name]) : fits(t)}}

Called(e, args, grouped) ==
    CASE e.name \in {"COALESCE", "NVL"} -> FirstValue(args)
      [] e.name = "IF" -> Branches(<<args[1]>>, <<args[2]>>,
                                   IF Len(args) = 3 THEN args[3] ELSE {"null"})
      [] e.name = "UNWRAP" -> args[1] \ {"null"}
      [] e.name \in {"LENGTH", "ABS", "SUBSTRING", "String::Strip", "Unicode::GetLength",
                     "Math::Abs", "Digest::CityHash", "DateTime::GetYear"} -> Strict(SubSeq(args, 1, 1), {"value"})
      [] e.name = "STARTSWITH" -> Strict(args, {"true", "false"})
      [] e.name \in {"FIND", "Url::GetHost"} -> {"null", "value"}
      [] e.name = "CURRENTUTCTIMESTAMP" -> {"value"}
      [] IsAggregate(e) -> Aggregated(e.name, IF args = <<>> THEN {"value"} ELSE args[1], grouped)
      [] OTHER -> Applied(e, args)

-----------------------------------------------------------------------------
(***************************************************************************)
(* Expressions over one row.  A context has the rows of the sources (a      *)
(* function from names to values each) with their aliases, the keys of      *)
(* GROUP BY by name and the values of parameters and local names.           *)
(***************************************************************************)
Context(aliases, rows, binds) ==
    [aliases |-> aliases, rows |-> rows, keys |-> <<>>, binds |-> binds, grouped |-> FALSE]

ColumnValue(ref, context) ==
    LET owners == {i \in DOMAIN context.rows : /\ ref.names[1] \in {"", context.aliases[i]}
                                               /\ ref.name \in DOMAIN context.rows[i]}
    IN  IF ref.names[1] = "" /\ ref.name \in DOMAIN context.keys THEN context.keys[ref.name]
        ELSE {context.rows[i][ref.name] : i \in owners}

RECURSIVE Meaning(_, _)
Meaning(e, context) ==
    LET args == [i \in DOMAIN e.args |-> Meaning(e.args[i], context)]
        n == Len(args) \div 2
    IN  CASE e.op = "literal" -> Values(e.type)
          [] e.op \in {"integer", "window"} -> {"value"}
          [] e.op = "bind" -> context.binds[e.name]
          [] e.op = "column" -> ColumnValue(e, context)
          [] e.op \in {"arithmetic", "concat"} -> Strict(args, {"value"})
          [] e.op = "compare" /\ e.name # "distinct" -> Strict(args, {"true", "false"})
          [] e.op = "boolean" -> Logical(e.name, args)
          [] e.op = "call" -> Called(e, args, context.grouped)
          [] e.op = "in" -> IF e.name = "query" THEN {"true", "false", "null"}
                            ELSE Strict(args, {"true", "false"})
          [] e.op = "case" ->
                 Branches([i \in 1 .. n |-> IF e.inner = <<>> THEN args[2 * i - 1]
                                             ELSE {"true", "false"}],
                          [i \in 1 .. n |-> args[2 * i]], args[Len(args)])
          [] OTHER -> {"true", "false"}

Holds(exprs, context) == \A i \in DOMAIN exprs : "true" \in Meaning(exprs[i], context)

-----------------------------------------------------------------------------
(***************************************************************************)
(* Rows.                                                                    *)
(***************************************************************************)
Combinations(sets) ==
    FoldLeft(LAMBDA known, s : {Append(t, v) : t \in known, v \in s}, {<<>>}, sets)
Named(names, values) ==
    [n \in ToSet(names) |-> values[CHOOSE i \in DOMAIN names : names[i] = n]]
RowsOfTypes(types) ==
    LET names == SetToSeq(DOMAIN types)
    IN  {Named(names, t) : t \in Combinations([i \in DOMAIN names |-> Values(types[names[i]])])}
TableRows(table) ==
    RowsOfTypes([n \in ColumnNames(table) |-> tableColumn(table, n).Type])
Padding(rows) == [n \in UNION {DOMAIN r : r \in rows} |-> "null"]

written(core) == IF core.id \in DOMAIN block.expanded THEN block.expanded[core.id] ELSE core

\* The names that the server gives to the columns of a core.
ServerNames(core) ==
    LET named(item) == item.alias # "" \/ isPureColumnExpression(item.expr)
        name(item) == IF item.alias # "" THEN item.alias
                      ELSE IF Len(core.from) > 1 THEN qualifiedName(item.expr) ELSE item.expr.name
        taken == {name(item) : item \in {i \in ToSet(core.columns) : named(i)}}
        next(known, i) ==
            Append(known, IF named(core.columns[i]) THEN name(core.columns[i])
                          ELSE "column" \o ToString(implicitName(taken \cup ToSet(known), i - 1)))
    IN  FoldLeft(next, <<>>, [i \in DOMAIN core.columns |-> i])

RECURSIVE CoreRows(_, _)

SourceRows(source, binds) ==
    LET name == source.path[2]
        row == Elem(report.parameters[name])
        assigned == SelectSeq(current.script, LAMBDA s : s.kind = "local" /\ s.name = name)
    IN  CASE source.kind = "table" -> TableRows(block.tables[resolveTablePath(block.prefix, source.path)])
          [] source.kind = "select" -> CoreRows(source.inner[1].arms[1], binds)
          [] source.kind = "tabular" -> CoreRows(assigned[1].select[1].arms[1], binds)
          [] OTHER -> RowsOfTypes(Named(row.Names, row.Items))

AliasOf(source) == IF source.alias # "" THEN source.alias ELSE source.path[2]

\* The joins since base, with the rows that have no match on the other side.
JoinedRows(core, binds) ==
    LET aliases == [i \in DOMAIN core.from |-> AliasOf(core.from[i])]
        join(known, source) ==
            LET right == SourceRows(source, binds)
                n == Len(known.pads)
                base == IF source.join = "" THEN n + 1 ELSE known.base
                matched == {t \in {Append(l, r) : l \in known.rows, r \in right} :
                               Holds(source.on, Context(aliases, t, binds))}
                lefts == IF source.join \in {"LEFT", "FULL"}
                         THEN {Append(l, Padding(right)) : l \in known.rows} ELSE {}
                rights == IF source.join \in {"RIGHT", "FULL"}
                          THEN {SubSeq(l, 1, base - 1) \o SubSeq(known.pads, base, n) \o <<r>> :
                                   l \in known.rows, r \in right} ELSE {}
            IN  [rows |-> matched \cup lefts \cup rights,
                 pads |-> Append(known.pads, Padding(right)), base |-> base]
        joined == FoldLeft(join, [rows |-> {<<>>}, pads |-> <<>>, base |-> 1], core.from)
    IN  {Context(aliases, t, binds) : t \in joined.rows}

\* The keys of GROUP BY that have a name of their own.
Grouped(core, context) ==
    LET keys == AliasKeys(core)
    IN  [context EXCEPT !.grouped = core.group # <<>>,
                        !.keys = [n \in {keys[i].alias : i \in DOMAIN keys} |->
                            Meaning(keys[CHOOSE i \in DOMAIN keys : keys[i].alias = n].expr, context)]]

CoreRows(core, binds) ==
    LET text == written(core)
        names == ServerNames(text)
        contexts == {Grouped(text, c) : c \in JoinedRows(text, binds)}
        kept == {c \in contexts : Holds(text.where, c) /\ Holds(text.having, c)}
        outcomes(c) == [i \in DOMAIN names |-> Meaning(text.columns[i].expr, c)]
        rows(c) == {Named(names, t) : t \in Combinations(outcomes(c))}
    IN  UNION {rows(c) : c \in kept}

\* The inputs of a UNION; a column that one of them lacks is NULL there.
SelectRows(select, binds) ==
    LET arms == {CoreRows(select.arms[a], binds) : a \in DOMAIN select.arms}
        names == UNION {UNION {DOMAIN r : r \in rows} : rows \in arms}
    IN  {[n \in names |-> IF n \in DOMAIN r THEN r[n] ELSE "null"] : r \in UNION arms}

\* Local values are computed from the parameters.
BindingsOf(parameters) ==
    LET add(known, s) == (s.name :> Meaning(s.exprs[1], Context(<<>>, <<>>, known))) @@ known
    IN  FoldLeft(add, parameters, SelectSeq(current.script, LAMBDA s : s.kind = "local" /\ s.exprs # <<>>))

\* The result SELECT of an analyzed query.
ResultSelect ==
    LET selects == SelectSeq(current.script, LAMBDA s : s.kind = "select")
    IN  selects[1].select[1]

RECURSIVE SelectMeaningful(_)
SelectMeaningful(select) ==
    \A a \in DOMAIN select.arms :
        LET core == written(select.arms[a])
        IN  /\ ~SomePart(CoreExprs(core), Meaningless)
            /\ \A i \in DOMAIN core.from :
                  /\ core.from[i].flatten = <<>>
                  /\ core.from[i].kind = "select" => SelectMeaningful(core.from[i].inner[1])
MeaningKnown ==
    /\ current.command \in {"one", "many", "each"}
    /\ \E i \in DOMAIN current.script : current.script[i].kind = "select"
    /\ SelectMeaningful(ResultSelect)
    /\ \A i \in DOMAIN current.script : LET s == current.script[i] IN s.kind = "local" =>
          /\ ~SomePart(s.exprs, Meaningless)
          /\ \A j \in DOMAIN s.select : SelectMeaningful(s.select[j])

-----------------------------------------------------------------------------
\* Every row of the result, for all values of the parameters, has each column
\* and a value of its type there.
ResultsFit(parameters, columns) ==
    LET types == [n \in {m \in DOMAIN parameters : parameters[m].Kind # "List"} |-> parameters[n]]
    IN  \A values \in RowsOfTypes(types) :
            LET binds == [n \in DOMAIN parameters |->
                             IF n \in DOMAIN values THEN {values[n]} ELSE {"value"}]
            IN  \A row \in SelectRows(ResultSelect, BindingsOf(binds)) : \A i \in DOMAIN columns :
                    /\ ResultName(columns[i]) \in DOMAIN row
                    /\ row[ResultName(columns[i])] \in Values(columns[i].Type)

\* No row of the result has NULL in a column whose type is required, and every
\* column is there: the generated readers scan such a column into a plain
\* value.  The types come from expression.go, boolean.go, selectRelations (the
\* optional sides of joins), UNION and GROUP BY.
NullsAreTyped ==
    status = "analyzed" /\ MeaningKnown => ResultsFit(report.parameters, report.results[1])
=============================================================================
