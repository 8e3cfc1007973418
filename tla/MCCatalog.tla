----------------------------- MODULE MCCatalog -----------------------------
(***************************************************************************)
(* A small instance of Catalog: two table names, three columns, one of      *)
(* them declared in every way, and CREATE TABLE statements that are right   *)
(* or wrong in each of the ways catalogTable distinguishes.                 *)
(***************************************************************************)
EXTENDS Catalog

CONSTANT MaxCatalogSize \* bound on columns and indexes over all tables

MCTableNames == {"orders", "lines"}
MCColumnNames == {"id", "qty", "sku"}
MCIndexNames == {"by_qty"}
MCBaseTypes == {"Int64"}

Decl(name, kind, optional, notNull) ==
    [Name |-> name, Kind |-> kind,
     Type |-> [Base |-> "Int64", Optional |-> optional], NotNull |-> notNull]

Id == Decl("id", "plain", 0, TRUE)
SerialId == Decl("id", "serial", 0, FALSE)
Qty == Decl("qty", "plain", 0, FALSE)
OptionalQty == Decl("qty", "plain", 1, TRUE)
SerialQty == Decl("qty", "serial", 0, FALSE)
BadQty == Decl("qty", "unsupported", 0, FALSE)
Sku == Decl("sku", "plain", 0, TRUE)

Index(name, kind, columns, cover) ==
    [Supported |-> TRUE,
     Index |-> [Name |-> name, Kind |-> kind, Columns |-> columns,
                DataColumns |-> cover]]

ByQty == Index("by_qty", "GlobalSync", <<"qty">>, <<>>)
ByQtyCover == Index("by_qty", "GlobalAsync", <<"qty">>, <<"sku">>)

Create(columns, keys, indexes) ==
    [Columns |-> columns, Keys |-> keys, Indexes |-> indexes]

Bodies ==
    { Create(<<Id>>, <<<<"id">>>>, <<>>),
      Create(<<SerialId, OptionalQty>>, <<<<"qty", "id">>>>, <<>>),
      Create(<<Id, Qty>>, <<<<"id">>>>, <<ByQty>>),
      \* refused: one statement for each diagnostic of catalogTable
      Create(<<>>, <<<<"id">>>>, <<>>),
      Create(<<Id>>, <<>>, <<>>),
      Create(<<Id, Qty>>, <<<<"id">>, <<"qty">>>>, <<>>),
      Create(<<Id, BadQty>>, <<<<"id">>>>, <<>>),
      Create(<<Id, Id>>, <<<<"id">>>>, <<>>),
      Create(<<Id>>, <<<<"id", "id">>>>, <<>>),
      Create(<<Id>>, <<<<"sku">>>>, <<>>),
      Create(<<Id, SerialQty>>, <<<<"id">>>>, <<>>),
      Create(<<Id>>, <<<<"id">>>>, <<ByQty>>),
      Create(<<Id, Qty>>, <<<<"id">>>>, <<ByQty, ByQty>>) }

MCCreateStatements ==
    { [Name |-> name, IfNotExists |-> ine, Columns |-> body.Columns,
       Keys |-> body.Keys, Indexes |-> body.Indexes] :
         name \in MCTableNames, ine \in BOOLEAN, body \in Bodies }

MCColumnDecls == {Qty, SerialQty, BadQty, Sku}

MCIndexDecls ==
    { ByQty, ByQtyCover,
      Index("by_qty", "GlobalSync", <<"sku", "qty">>, <<"qty">>),
      Index("by_qty", "GlobalSync", <<"qty">>, <<"id">>),
      Index("by_qty", "GlobalSync", <<"qty", "qty">>, <<>>),
      [Index("by_qty", "GlobalSync", <<"qty">>, <<>>) EXCEPT
           !.Supported = FALSE] }

Size(table) == Len(table.Columns) + Len(table.Indexes)

SizeBound ==
    FoldLeft(LAMBDA n, table : n + Size(table), 0, tables) <= MaxCatalogSize
=============================================================================
