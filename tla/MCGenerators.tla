---------------------------- MODULE MCGenerators ----------------------------
(***************************************************************************)
(* Generators on pairs of names that some language spells alike: of two    *)
(* tables, a table and a query, two queries, two columns, two parameters   *)
(* and two fields of an item.                                              *)
(***************************************************************************)
EXTENDS Generators, TLC

word(lower, title, upper, small, spaced) ==
  [lower |-> lower, title |-> title, upper |-> upper, small |-> small, spaced |-> spaced,
   number |-> FALSE]
plain(lower, title) == lower :> word(lower, title, title, lower, lower)
Vocabulary ==
  plain("get", "Get") @@ plain("user", "User") @@ plain("row", "Row") @@ plain("item", "Item")
  @@ plain("params", "Params") @@ plain("name", "Name") @@ plain("find", "Find")
  @@ plain("queries", "Queries") @@ plain("list", "List") @@ plain("string", "String")
  @@ plain("client", "Client") @@ plain("args", "Args") @@ plain("command", "Command")
  @@ plain("rows", "Rows") @@ plain("self", "Self") @@ plain("this", "This")
  @@ plain("kotlin", "Kotlin") @@ plain("tech", "Tech") @@ plain("value", "Value")
  @@ plain("for", "For") @@ plain("execute", "Execute") @@ plain("guid", "Guid")
  @@ plain("table", "Table") @@ plain("transaction", "Transaction") @@ plain("wire", "Wire")
  @@ plain("java", "Java") @@ plain("db", "Db") @@ plain("with", "With") @@ plain("tx", "Tx")
  @@ plain("configure", "Configure") @@ plain("new", "New") @@ plain("total", "Total") @@ plain("async", "Async")
  @@ ("id" :> word("id", "Id", "ID", "iD", "i_d"))
  @@ ("2" :> [word("2", "2", "2", "2", "2") EXCEPT !.number = TRUE])
MCSpelling == [w \in DOMAIN Vocabulary |-> Vocabulary[w]]

\* Names: words joined by underscores, by capitals, or by the slash of a path.
Piece(sep, w, case) == [sep |-> sep, word |-> w, case |-> case]
W(w) == Bare(w)
Big(w) == <<Piece("", w, "title")>>
Snaked(v, w) == <<Piece("", v, "lower"), Piece("_", w, "lower")>>
Camel(v, w) == <<Piece("", v, "lower"), Piece("", w, "title")>>
Pascal(v, w) == <<Piece("", v, "title"), Piece("", w, "title")>>
Path(v, w) == <<Piece("", v, "lower"), Piece("/", w, "lower")>>
UserID == <<Piece("", "user", "lower"), Piece("", "id", "upper")>>
ID == <<Piece("", "id", "upper")>>
Three(v, w, x) == Append(Snaked(v, w), Piece("_", x, "lower"))

-----------------------------------------------------------------------------
Parameter(name) == [name |-> name, kind |-> "Int64", optional |-> FALSE, fields |-> <<>>]
List(name, fields) == [Parameter(name) EXCEPT !.fields = fields]
Whole(name) == Field(name, "Int64", FALSE)
Text(name) == Field(name, "Utf8", TRUE)

Table(name, columns) == [name |-> name, columns |-> columns]
Column(f, table) == [name |-> f.name, wire |-> "", kind |-> f.kind, optional |-> f.optional, table |-> table]

Query(name, command, parameters, columns) ==
  [name |-> name, command |-> command, parameters |-> parameters, declared |-> {},
   text |-> [p \in DOMAIN parameters |-> p], columns |-> columns, embeds |-> <<>>]
Exec(name, parameters) == Query(name, ":exec", parameters, <<>>)

Columns(tables, t) == [i \in DOMAIN tables[t].columns |-> Column(tables[t].columns[i], t)]
\* A row with the embedded table t at position from.
Wired(columns, t) ==
  [i \in DOMAIN columns |-> [columns[i] EXCEPT !.wire = "__sqlc_embed_" \o ToString(t) \o "_" \o ToString(i)]]
Embed(tables, t, from) ==
  [from |-> from, to |-> from + Len(tables[t].columns) - 1, table |-> t, field |-> Base(tables[t].name)]

Analysis(tables, queries) == [tables |-> tables, queries |-> queries]
Users == Table(W("user"), <<Whole(W("id")), Text(W("name"))>>)

Find(name, tables) ==
  Query(name, ":many", <<Parameter(W("id"))>>, Columns(tables, 1))
\* An expression named as the first column of the first table, every table
\* embedded, and another expression.
Embedding(name, tables) ==
  LET from(t) == 2 + FoldLeft(LAMBDA n, k: n + Len(tables[k].columns), 0, [k \in 1 .. t - 1 |-> k])
  IN  [Query(name, ":one", <<Parameter(W("id"))>>,
             <<Column(Text(tables[1].columns[1].name), 0)>>
             \o FoldLeft(LAMBDA joined, t: joined \o Wired(Columns(tables, t), t), <<>>,
                         [t \in DOMAIN tables |-> t])
             \o <<Column(Whole(W("total")), 0)>>)
         EXCEPT !.embeds = [t \in DOMAIN tables |-> Embed(tables, t, from(t))]]

-----------------------------------------------------------------------------
TableNames ==
  {W("user"), Snaked("get", "row"), Camel("get", "row"), Pascal("get", "row"), Path("get", "row"),
   Path("get", "user"), Snaked("get", "user"), W("list"), W("string"), W("queries"), W("guid"), W("table"),
   Snaked("2", "user"), Three("get", "user", "item"), Snaked("find", "params"), W("for"), Snaked("get", "wire")}
QueryNames ==
  {W("get"), Big("get"), Snaked("get", "user"), Camel("get", "user"), Pascal("get", "user"),
   W("user"), W("find"), Snaked("get", "row"), W("new"), W("queries"), W("execute"), W("client"),
   Pascal("get", "id"), Snaked("get", "wire"), Snaked("2", "user"), W("for"), Snaked("get", "async"),
   W("db"), Pascal("with", "tx")}
ColumnNames ==
  {W("id"), ID, Big("id"), Snaked("user", "id"), Camel("user", "id"), UserID, Snaked("2", "user"), 
   W("for"), W("value"), Snaked("get", "row"), W("user"), Big("list")}
ParameterNames ==
  {W("id"), ID, Snaked("user", "id"), Camel("user", "id"), W("client"), W("args"), W("command"),
   W("rows"), W("self"), W("this"), W("kotlin"), W("tech"), W("value"), W("for"), W("transaction"),
   W("configure"), Snaked("2", "user"), Pascal("get", "row"), W("params"), W("java")}

MCTables ==
  UNION {LET tables == <<Table(x, Users.columns), Table(y, <<Whole(W("value"))>>)>>
         IN  {Analysis(tables, <<Find(W("find"), tables)>>)}
             \cup IF Base(x) = Base(y) THEN {} ELSE {Analysis(tables, <<Embedding(W("find"), tables)>>)}
         : <<x, y>> \in {p \in TableNames \X TableNames : p[1] # p[2]}}
MCTableQuery ==
  UNION {LET tables == <<Table(x, Users.columns)>>
         IN  {Analysis(tables, <<Find(y, tables)>>), Analysis(tables, <<Embedding(y, tables)>>)}
         : x \in TableNames, y \in QueryNames}
MCQueryQuery ==
  UNION {LET tables == <<Users>>
         IN  {Analysis(tables, <<Embedding(x, tables), Exec(y, <<>>)>>),
              Analysis(tables, <<Find(x, tables), Find(y, tables)>>),
              Analysis(tables, <<Embedding(x, tables), Find(y, tables)>>)}
         : <<x, y>> \in {p \in QueryNames \X QueryNames : p[1] # p[2]}}
MCColumns ==
  UNION {LET tables == <<Table(W("user"), <<Whole(x), Text(y)>>)>>
         IN  {Analysis(tables, <<Find(W("get"), tables)>>), Analysis(tables, <<Embedding(W("get"), tables)>>)}
         : <<x, y>> \in {p \in ColumnNames \X ColumnNames : p[1] # p[2]}}
MCParameters ==
  UNION {LET tables == <<Users>>
             q == [Find(Pascal("get", "user"), tables) EXCEPT !.parameters = <<Parameter(x), Parameter(y)>>,
                                               !.text = <<2, 0, 1, 2>>]
         IN  {Analysis(tables, <<q>>), Analysis(tables, <<[q EXCEPT !.declared = {1}]>>),
              Analysis(tables, <<[q EXCEPT !.command = ":one", !.text = <<1, 0, 1>>,
                                           !.parameters = <<[Parameter(x) EXCEPT !.optional = TRUE]>>]>>)}
         : <<x, y>> \in {p \in ParameterNames \X ParameterNames : p[1] # p[2]}}
MCItems ==
  UNION {{Analysis(<<Users>>, <<Exec(W("get"), <<List(Snaked("user", "id"), <<Whole(x), Text(y)>>)>>),
                               Exec(Snaked("get", "user"), <<List(W("id"), <<Whole(x)>>)>>)>>),
          Analysis(<<Users>>, <<Exec(W("find"), <<List(W("item"), <<Whole(x), Text(y)>>), Parameter(x)>>)>>)}
         : <<x, y>> \in {p \in ColumnNames \X ColumnNames : p[1] # p[2]}}

CONSTANT Families
MCAnalyses ==
  UNION {CASE f = "tables" -> MCTables [] f = "tablequery" -> MCTableQuery [] f = "queries" -> MCQueryQuery
           [] f = "columns" -> MCColumns [] f = "parameters" -> MCParameters [] f = "items" -> MCItems
         : f \in Families}
MCRuntimes ==
  [go |-> [sql : BOOLEAN, exported : BOOLEAN, limit : {1, 2}], java |-> {"ydb", "jdbc"},
   kotlin |-> {"ydb", "jdbc", "exposed"}, php |-> {"ydb"}, csharp |-> {"adonet", "dapper"},
   typescript |-> {"ydb"}, rust |-> {"ydb"}, cpp |-> {"ydb", "userver"},
   python |-> {"ydb", "dbapi", "sqlalchemy"}]
=============================================================================
