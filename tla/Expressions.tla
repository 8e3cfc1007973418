---------------------------- MODULE Expressions ----------------------------
(***************************************************************************)
(* The type of a YQL expression in the scope of a SELECT or a DML statement, *)
(* and what the uses of a parameter in an expression say of its type         *)
(* (internal/analyzer: expression.go, arithmetic.go, boolean.go, member.go,  *)
(* lambda.go, literal.go, predicate.go).                                     *)
(*                                                                           *)
(* An expression is a record with its op, a name, its operands in this scope *)
(* (args), the names of its arguments, a type, the value of an integer and   *)
(* what has a scope of its own (inner): the body of a lambda, a subquery.    *)
(* Parentheses are the structure of the record.                              *)
(***************************************************************************)
EXTENDS Libraries

Expr(op, name, args) ==
    [op |-> op, name |-> name, args |-> args, names |-> <<>>, type |-> ZeroType,
     value |-> <<>>, quantifier |-> "", inner |-> <<>>]

Literal(t) == [Expr("literal", "", <<>>) EXCEPT !.type = t]
IntegerLiteral(suffix, n) == [Expr("integer", suffix, <<>>) EXCEPT !.value = <<n>>]
Bind(name) == Expr("bind", name, <<>>)
Col(qualifier, name) == [Expr("column", name, <<>>) EXCEPT !.names = <<qualifier>>]
Call(name, args) ==
    [Expr("call", name, args) EXCEPT !.names = [i \in DOMAIN args |-> ""]]
CountStar == [Call("COUNT", <<>>) EXCEPT !.quantifier = "*"]
CountDistinct(e) == [Call("COUNT", <<e>>) EXCEPT !.quantifier = "DISTINCT"]
StructLiteral(names, args) == [Expr("struct", "", args) EXCEPT !.names = names]
TypeName(t) == [Expr("type", "", <<>>) EXCEPT !.type = t]
CastTo(e, t) == [Expr("cast", "", <<e>>) EXCEPT !.type = t]
\* inner is the selector, if there is one; args end with the ELSE branch.
Case(selector, args) == [Expr("case", "", args) EXCEPT !.inner = selector]
Lambda(params, locals, body) ==
    [Expr("lambda", "", <<>>) EXCEPT !.names = params, !.inner = <<locals, body>>]
\* A named window, or with no name the columns it partitions and orders by.
RowNumber(window, columns) == Expr("window", window, columns)
\* The subqueries of a statement are numbered.
InQuery(n, e, select) ==
    [Expr("in", "query", <<e>>) EXCEPT !.value = <<n>>, !.inner = <<select>>]

\* scopeDescendants: the operands, not what is in lambdas and subqueries.
Operands(e) == e.args \o (IF e.op = "case" THEN e.inner ELSE <<>>)

RECURSIVE Parts(_)
Parts(e) ==
    <<e>> \o FlattenSeq([i \in DOMAIN Operands(e) |-> Parts(Operands(e)[i])])

columnRefs(e) == SelectSeq(Parts(e), LAMBDA p : p.op = "column")
directBind(e) == e.op = "bind"
isPureColumnExpression(e) == e.op = "column"

isAggregateFunction(name) ==
    \/ IsHistogramAggregate(name)
    \/ name \in ListAggregates \cup {"COUNT", "COUNT_IF", "SUM", "SUM_IF", "AVG", "AVG_IF",
                                    "MIN", "MAX", "SOME", "EVERY"}
IsAggregate(e) == e.op = "call" /\ isAggregateFunction(e.name)
containsAggregate(e) == \E i \in DOMAIN Parts(e) : IsAggregate(Parts(e)[i])

RECURSIVE unaggregatedColumnRefs(_)
unaggregatedColumnRefs(e) ==
    IF e.op = "column" THEN <<e>>
    ELSE IF IsAggregate(e) THEN <<>>
    ELSE FlattenSeq([i \in DOMAIN Operands(e) |->
                        unaggregatedColumnRefs(Operands(e)[i])])

-----------------------------------------------------------------------------
(***************************************************************************)
(* Columns of the relations of a statement.  A relation has a table, an     *)
(* alias, and says whether a join may leave it out (optional), whether it is *)
(* a table of the catalog (physical) and whether it holds the aliases of     *)
(* GROUP BY (grouping).                                                      *)
(***************************************************************************)
Column(name, type) ==
    [Name |-> name, Type |-> type, WireName |-> "", SequenceGenerated |-> FALSE]
TableOf(name, columns) ==
    [Name |-> name, Columns |-> columns, PrimaryKey |-> {}, Indexes |-> {}]
Relation(table, alias) ==
    [table |-> table, alias |-> alias, optional |-> FALSE, physical |-> FALSE,
     grouping |-> FALSE]

ColumnNames(table) == {table.Columns[i].Name : i \in DOMAIN table.Columns}
tableColumn(table, name) ==
    table.Columns[Min({i \in DOMAIN table.Columns : table.Columns[i].Name = name})]

\* A name of GROUP BY hides the columns of the sources.
resolveColumn(relations, ref) ==
    LET qualifier == ref.names[1]
        hidden == {r \in DOMAIN relations :
                      /\ qualifier = "" /\ relations[r].grouping
                      /\ ref.name \in ColumnNames(relations[r].table)}
        matches == {m \in UNION {{r} \X DOMAIN relations[r].table.Columns :
                                  r \in DOMAIN relations} :
                      /\ qualifier \in {"", relations[m[1]].alias}
                      /\ relations[m[1]].table.Columns[m[2]].Name = ref.name}
        match == CHOOSE m \in matches : TRUE
        source == relations[match[1]]
    IN  IF hidden # {} THEN tableColumn(relations[Min(hidden)].table, ref.name).Type
        ELSE IF Cardinality(matches) # 1 THEN ZeroType
        ELSE joinedColumn(source.table.Columns[match[2]].Type, source.optional)

-----------------------------------------------------------------------------
(***************************************************************************)
(* Types of the operators, from the types of their operands.                *)
(***************************************************************************)
Resolved(types) == ZeroType \notin ToSet(types)
Nullable(t) == IsOptional(t) \/ t = Null
AnyNullable(types) == \E i \in DOMAIN types : Nullable(types[i])
IsBool(t) == t = Null \/ UnwrapOptional(t).Kind = "Bool"

resolveArithmetic(operator, types) ==
    If(Resolved(types) /\ operator \in {"+", "-", "*"},
       FoldLeft(LAMBDA l, r : If(l # ZeroType, Arithmetic(l, r)), Head(types), Tail(types)))

resolveBoolean(operator, types) ==
    LET allNull == \A i \in DOMAIN types : types[i] = Null
    IN  If(Resolved(types) /\ \A i \in DOMAIN types : IsBool(types[i]),
           IF operator = "NOT" /\ allNull THEN Null
           ELSE withOptional(Scalar("Bool"), AnyNullable(types)))

concatenationType(types) ==
    LET bases == {UnwrapOptional(types[i]) : i \in DOMAIN types} \ {Null}
    IN  If(/\ Resolved(types)
           /\ \A t \in bases : isString(t)
           /\ Cardinality(bases) <= 1,
           IF Null \in ToSet(types) THEN Null
           ELSE withOptional(CHOOSE t \in bases : TRUE, AnyNullable(types)))

comparisonBoolType(types) ==
    LET common == CommonType(types)
    IN  IF ~Resolved(types) THEN ZeroType
        ELSE IF \A i \in DOMAIN types : types[i] = Null THEN Optional(Scalar("Bool"))
        ELSE If(common # ZeroType, withOptional(Scalar("Bool"), IsOptional(common)))

\* IS [NOT] DISTINCT FROM never yields NULL.
resolveComparison(operator, types) ==
    LET plain == comparisonBoolType(types)
    IN  IF operator = "distinct" THEN If(plain # ZeroType, Scalar("Bool")) ELSE plain

member(t, name) ==
    LET base == UnwrapOptional(t)
        found == {i \in DOMAIN base.Names : base.Names[i] = name}
    IN  If(base.Kind = "Struct" /\ found # {},
           withOptional(base.Items[Min(found)], IsOptional(t)))

RECURSIVE validateINSubqueryTypes(_, _)
validateINSubqueryTypes(left, right) ==
    \/ left = Null /\ right = Null
    \/ /\ left.Kind = "Tuple" /\ right.Kind = "Tuple"
       /\ Len(left.Items) = Len(right.Items)
       /\ \A i \in DOMAIN left.Items :
             validateINSubqueryTypes(left.Items[i], right.Items[i])
    \/ {left.Kind, right.Kind} # {"Tuple"} /\ CommonType(<<left, right>>) # ZeroType

\* A value among the elements of a list.
ListMembership(left, list) ==
    LET elements == UnwrapOptional(list)
        common == CommonType(<<left, Elem(elements)>>)
    IN  If(left # ZeroType /\ elements.Kind = "List" /\ common # ZeroType,
           withOptional(Scalar("Bool"), IsOptional(common) \/ IsOptional(list)))

groupMakesAggregateNonOptional(name) == name \in {"MIN", "MAX", "SUM", "AVG"}

dateTimeFormatInput(t) ==
    t.Kind \in {dateTimeTM, dateTimeTM64} \cup isBasicDateTime \cup isExtendedDateTime

\* Calling a value of a Callable type.
invoked(callee, provided) ==
    LET expected == Front(callee.Items)
        result == Elem(callee)
        formats(i) == expected[i] = Scalar(dateTimeTM64)
                      /\ dateTimeFormatInput(UnwrapOptional(provided[i]))
        accepts(i) == \/ expected[i] = provided[i]
                      \/ /\ IsOptional(expected[i])
                         /\ provided[i] \in {UnwrapOptional(expected[i]), Null}
                      \/ formats(i)
                      \/ /\ expected[i] = Scalar("String")
                         /\ provided[i] = Optional(Scalar("String"))
                         /\ result \in {Optional(Scalar(dateTimeTM)), Optional(Scalar(dateTimeTM64))}
    IN  If(/\ callee.Kind = "Callable" /\ Resolved(provided)
           /\ Len(provided) = Len(expected)
           /\ \A i \in DOMAIN provided : accepts(i),
           withOptional(result, \E i \in DOMAIN provided :
                                    /\ expected[i] # provided[i]
                                    /\ formats(i) /\ IsOptional(provided[i])))

-----------------------------------------------------------------------------
(***************************************************************************)
(* Expressions in a scope.  bindings are the types of parameters and local  *)
(* names, lambdas the local lambdas with what they capture, functions the   *)
(* configured signatures of each name, subqueries the types of the IN       *)
(* subqueries that have been analyzed.                                      *)
(***************************************************************************)
Scope(relations, bindings, lambdas, functions) ==
    [relations |-> relations, bindings |-> bindings, lambdas |-> lambdas,
     functions |-> functions, grouped |-> FALSE, subqueries |-> <<>>, windows |-> {}]

bindingType(scope, name) ==
    IF name \in DOMAIN scope.bindings THEN scope.bindings[name] ELSE ZeroType

\* A suffix names the type; a literal out of its range is an error.
literalValueType(e) ==
    IF e.op = "literal" THEN e.type
    ELSE IF e.name = "" THEN Scalar("Int32")
    ELSE If(integerLiteralFits(e.value, e.name), Scalar(e.name))

\* A name that now stands for a value no longer stands for a lambda.
WithLocal(scope, name, t) ==
    [scope EXCEPT !.bindings = (name :> t) @@ @,
                  !.lambdas = [n \in DOMAIN @ \ {name} |-> @[n]]]

\* A body without columns and aggregates.
LambdaBody(e) == columnRefs(e) = <<>> /\ ~containsAggregate(e)

RECURSIVE resolveExpression(_, _), resolveLambda(_, _, _), resolveFunction(_, _)

resolveScalarNode(e, scope) ==
    IF e.op = "struct" THEN ZeroType ELSE resolveExpression(e, scope)

\* The type that a lambda has for arguments of the given types.
resolveLambda(lambda, types, scope) ==
    LET locals == lambda.inner[1]
        names == lambda.names \o [i \in DOMAIN locals |-> locals[i].name]
        entered == FoldLeft(LAMBDA s, i : WithLocal(s, lambda.names[i], types[i]),
                            [scope EXCEPT !.relations = <<>>],
                            [i \in DOMAIN types |-> i])
        last == FoldLeft(LAMBDA s, l :
                             WithLocal(s, l.name, resolveExpression(l.expr, s)),
                         entered, locals)
        result == resolveExpression(lambda.inner[2], last)
    IN  If(/\ Len(lambda.names) = Len(types) /\ IsInjective(names)
           /\ \A i \in DOMAIN types : types[i].Kind # "Lambda"
           /\ \A i \in DOMAIN locals :
                 LambdaBody(locals[i].expr) /\ last.bindings[locals[i].name] # ZeroType
           /\ LambdaBody(lambda.inner[2]) /\ result # ZeroType,
           Type("Callable", types \o <<result>>, <<>>))

\* A lambda written in place, or a local one with what it captured.
IsLambda(e, scope) ==
    \/ e.op = "lambda"
    \/ e.op = "bind" /\ e.name \in DOMAIN scope.lambdas
                     /\ bindingType(scope, e.name).Kind = "Lambda"
appliedLambda(e, types, scope) ==
    IF e.op = "lambda" THEN resolveLambda(e, types, scope)
    ELSE LET binding == scope.lambdas[e.name]
         IN  resolveLambda(binding.lambda, types,
                           [scope EXCEPT !.bindings = binding.bindings,
                                         !.lambdas = binding.lambdas])

\* The second argument of ListMap and ListFilter takes its type from the first;
\* Yson takes a type as a value and an empty list of no type.
argumentType(e, i, scope) ==
    LET list == UnwrapOptional(resolveExpression(e.args[1], scope))
    IN  IF e.name \in {"LISTMAP", "LISTFILTER"} /\ i = 2 /\ IsLambda(e.args[2], scope)
        THEN If(list.Kind = "List", appliedLambda(e.args[2], <<Elem(list)>>, scope))
        ELSE IF e.name = "Yson::ConvertTo" /\ i = 2
        THEN If(e.args[2].op = "type", TypeArgument(e.args[2].type))
        ELSE IF e.name \in {"Json::From", "Yson::From"} /\ i = 1
                /\ e.args[1].op = "call" /\ e.args[1].name = "ASLIST" /\ e.args[1].args = <<>>
        THEN Scalar("EmptyList")
        ELSE resolveExpression(e.args[i], scope)

resolveFunction(e, scope) ==
    LET types == SubSeq([i \in DOMAIN e.args |-> argumentType(e, i, scope)], 1, Len(e.args))
        argument(i) ==
            CallArgument(e.names[i], types[i],
                IF e.args[i].op = "integer" THEN e.args[i].value ELSE <<>>,
                e.args[i].op = "literal" /\ e.args[i].type.Kind = "String",
                e.args[i].op = "call" /\ e.args[i].name = "LISTCREATE")
        custom == IF e.name \in DOMAIN scope.functions
                  THEN scope.functions[e.name] ELSE <<>>
        result == ResolveCall(e.name, [i \in DOMAIN e.args |-> argument(i)], custom)
        nested == isAggregateFunction(e.name)
                  /\ \E i \in DOMAIN e.args : containsAggregate(e.args[i])
    IN  CASE e.quantifier = "*" -> Scalar("Uint64")
          [] e.quantifier # "*" /\ e.name = "LISTCREATE" -> resolveListCreate(<<e.type>>)
          [] e.quantifier # "*" /\ e.name = "COUNT" ->
                 If(/\ Len(e.args) = 1 /\ e.names[1] = "" /\ ~nested /\ Resolved(types)
                    /\ e.quantifier = "DISTINCT" => isPureColumnExpression(e.args[1]),
                    Scalar("Uint64"))
          [] OTHER ->
                 If(Resolved(types) /\ ~nested,
                    IF /\ scope.grouped /\ groupMakesAggregateNonOptional(e.name)
                       /\ Len(types) = 1 /\ ~Nullable(types[1])
                    THEN UnwrapOptional(result) ELSE result)

validateRowNumberWindow(columns, relations) ==
    \A i \in DOMAIN columns :
        isPureColumnExpression(columns[i])
            /\ resolveColumn(relations, columns[i]) # ZeroType
rowNumberWindow(e, scope) ==
    IF e.name # "" THEN e.name \in scope.windows
    ELSE validateRowNumberWindow(e.args, scope.relations)

\* CASE: conditions and branches in turn, then ELSE.
resolveCase(e, types, scope) ==
    LET branches == [i \in 1 .. (Len(types) + 1) \div 2 |->
                        IF 2 * i > Len(types) THEN types[Len(types)] ELSE types[2 * i]]
        conditions == {types[2 * i - 1] : i \in 1 .. Len(types) \div 2}
        selector == resolveExpression(e.inner[1], scope)
    IN  If(/\ Len(types) >= 3 /\ Len(types) % 2 = 1 /\ Resolved(types)
           /\ \A c \in conditions :
                 IF e.inner = <<>> THEN IsBool(c)
                 ELSE selector # ZeroType /\ CommonType(<<selector, c>>) # ZeroType,
           CommonType(branches))

\* Operands of IN may be tuples.
resolveINOperand(e, scope) ==
    LET items == [i \in DOMAIN e.args |-> resolveExpression(e.args[i], scope)]
    IN  IF e.op = "tuple" THEN If(Resolved(items), Type("Tuple", items, <<>>))
        ELSE resolveScalarNode(e, scope)

\* The right side is a subquery, a list or a number of values.
resolveINCondition(e, scope) ==
    LET left == resolveINOperand(e.args[1], scope)
        right == [i \in 1 .. Len(e.args) - 1 |-> resolveExpression(e.args[i + 1], scope)]
    IN  CASE e.name = "query" ->
                 If(/\ left # ZeroType /\ e.value[1] \in DOMAIN scope.subqueries
                    /\ validateINSubqueryTypes(left, scope.subqueries[e.value[1]]),
                    Scalar("Bool"))
          [] e.name = "list" -> If(Resolved(right), ListMembership(left, right[1]))
          [] e.name = "values" ->
                 If(/\ left # ZeroType /\ Resolved(right)
                    /\ \A i \in DOMAIN right :
                          directBind(e.args[i + 1])
                              => UnwrapOptional(right[i]).Kind # "List"
                    /\ CommonType(<<left>> \o right) # ZeroType,
                    withOptional(Scalar("Bool"),
                                 IsOptional(CommonType(<<left>> \o right))))

resolveCallChain(e, scope) ==
    LET provided == [i \in 1 .. Len(e.args) - 1 |-> resolveExpression(e.args[i + 1], scope)]
        callee == e.args[1]
        applied == appliedLambda(callee, provided, scope)
    IN  IF callee.op = "bind" /\ IsLambda(callee, scope)
        THEN If(Resolved(provided) /\ applied # ZeroType, Elem(applied))
        ELSE LET t == resolveExpression(callee, scope)
             IN  If(t # ZeroType, invoked(t, provided))

resolveExpression(e, scope) ==
    LET scalars == [i \in DOMAIN e.args |-> resolveScalarNode(e.args[i], scope)]
        types == [i \in DOMAIN e.args |-> resolveExpression(e.args[i], scope)]
    IN  CASE e.op \in {"literal", "integer"} -> literalValueType(e)
          [] e.op = "arithmetic" -> resolveArithmetic(e.name, scalars)
          [] e.op = "boolean" -> resolveBoolean(e.name, scalars)
          [] e.op = "struct" ->
                 resolveAsStruct([i \in DOMAIN types |->
                     CallArgument(e.names[i], types[i], <<>>, FALSE, FALSE)])
          [] e.op = "member" -> If(types[1] # ZeroType, member(types[1], e.name))
          [] e.op = "bind" -> bindingType(scope, e.name)
          [] e.op = "column" -> resolveColumn(scope.relations, e)
          [] e.op = "cast" -> If(types[1] # ZeroType, Cast(types[1], e.type))
          [] e.op = "case" -> resolveCase(e, types, scope)
          [] e.op = "call" -> resolveFunction(e, scope)
          [] e.op = "window" -> If(rowNumberWindow(e, scope), Scalar("Uint64"))
          [] e.op = "invoke" -> resolveCallChain(e, scope)
          [] e.op = "concat" -> concatenationType(scalars)
          [] e.op = "compare" -> resolveComparison(e.name, scalars)
          [] e.op = "isnull" -> If(Resolved(scalars), Scalar("Bool"))
          [] e.op = "in" -> If(e.name # "query", resolveINCondition(e, scope))
          [] OTHER -> ZeroType

\* Only the atoms of a predicate may be IN subqueries.
RECURSIVE validatePredicate(_, _)
validatePredicate(e, scope) ==
    CASE e.op = "boolean" -> \A i \in DOMAIN e.args : validatePredicate(e.args[i], scope)
      [] e.op = "in" -> resolveINCondition(e, scope) # ZeroType
      [] OTHER -> LET t == resolveExpression(e, scope) IN t # ZeroType /\ IsBool(t)

-----------------------------------------------------------------------------
(***************************************************************************)
(* What the expressions of a statement say of undeclared parameters: pairs  *)
(* of a name and a type, in the order of the text.                          *)
(***************************************************************************)
Use(name, t) == [name |-> name, type |-> t]
UsesOf(binds, t) == [i \in DOMAIN binds |-> Use(binds[i].name, t)]
Binds(e) == SelectSeq(Parts(e), directBind)

\* A parameter compared with a column, directly or by BETWEEN.
comparisonUses(p, relations) ==
    LET column(ref) == resolveColumn(relations, ref)
        left == p.args[1]
        right == p.args[2]
        other == IF isPureColumnExpression(left) THEN right ELSE left
        ref == IF isPureColumnExpression(left) THEN left ELSE right
    IN  IF p.op # "compare" \/ ~isPureColumnExpression(ref) THEN <<>>
        ELSE IF column(ref) = ZeroType THEN <<>>
        ELSE IF p.name = "between"
        THEN IF ref = left
             THEN UsesOf(SelectSeq(Tail(p.args), directBind), column(ref)) ELSE <<>>
        ELSE IF p.name = "=" /\ directBind(other)
        THEN <<Use(other.name, column(ref))>> ELSE <<>>

\* A parameter that is an operand, not an argument or a value of its own.
OperandOps == {"arithmetic", "boolean", "concat", "compare", "isnull", "member"}
HasOperandBind(e) ==
    \E i \in DOMAIN Parts(e) :
        LET p == Parts(e)[i]
        IN  p.op \in OperandOps /\ \E j \in DOMAIN p.args : directBind(p.args[j])

\* IN with one column on either side: a list, or values that are parameters.
inListUses(p, relations) ==
    LET refs == columnRefs(p)
        t == resolveColumn(relations, refs[1])
        values == Tail(p.args)
    IN  IF p.op # "in" \/ Len(refs) # 1 THEN <<>>
        ELSE IF t = ZeroType THEN <<>>
        ELSE CASE p.name = "list" ->
                      UsesOf(SelectSeq(values, directBind), List(UnwrapOptional(t)))
               [] p.name = "values" /\ ~\E i \in DOMAIN values : HasOperandBind(values[i]) ->
                      UsesOf(FlattenSeq([i \in DOMAIN values |-> Binds(values[i])]), t)
               [] OTHER -> <<>>

\* Parameters next to a string whose kind is known.
inferFromConcatenation(p, bindings) ==
    LET known == {UnwrapOptional(bindings[b]) : b \in
                      {p.args[i].name : i \in {j \in DOMAIN p.args : directBind(p.args[j])}}
                          \cap DOMAIN bindings}
        written == {p.args[i].type : i \in {j \in DOMAIN p.args :
                       p.args[j].op = "literal"
                       /\ p.args[j].type.Kind \in {"String", "Utf8", "Yson", "Json"}}}
        families == {t \in known : isString(t)} \cup written
        unknown == SelectSeq(p.args, LAMBDA a : directBind(a) /\ a.name \notin DOMAIN bindings)
    IN  IF p.op = "concat" /\ Cardinality(families) = 1
        THEN UsesOf(unknown, CHOOSE t \in families : TRUE) ELSE <<>>

AllUses(uses(_), exprs) ==
    FlattenSeq([i \in DOMAIN exprs |->
        LET parts == Parts(exprs[i]) IN FlattenSeq([j \in DOMAIN parts |-> uses(parts[j])])])

\* The parameters after one statement more: inferParameter for every use.
inferAll(inferred, uses) ==
    FoldLeft(LAMBDA known, u : inferParameter(known, u.name, u.type), inferred, uses)

inferFromComparisons(exprs, relations, inferred) ==
    LET uses(p) == comparisonUses(p, relations) IN inferAll(inferred, AllUses(uses, exprs))

inferFromInLists(exprs, relations, inferred) ==
    LET uses(p) == inListUses(p, relations) IN inferAll(inferred, AllUses(uses, exprs))

inferFromExpressionContexts(exprs, bindings, inferred) ==
    LET uses(p) == inferFromConcatenation(p, bindings)
    IN  inferAll(inferred, AllUses(uses, exprs))

\* A parameter whose uses agree is bound for the rest of the statement.
FillBindings(bindings, inferred) ==
    bindings @@ [n \in {m \in DOMAIN inferred : inferred[m] # ZeroType} |-> inferred[n]]
=============================================================================
