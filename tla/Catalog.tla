------------------------------ MODULE Catalog ------------------------------
(***************************************************************************)
(* The schema catalog that internal/analyzer/catalog.go builds by applying  *)
(* the CREATE TABLE, ALTER TABLE and DROP TABLE statements of the schema    *)
(* sources in order (buildCatalog).  A statement that is refused adds a     *)
(* diagnostic and the loop goes on with the next statement, so the catalog  *)
(* has to stay consistent across refused statements too.                    *)
(*                                                                          *)
(* An ALTER TABLE statement is a list of actions applied one after another  *)
(* to a private copy of the table (cloneTable) that replaces the table only *)
(* after the last action.  The model takes one step per action, so that     *)
(* what an unfinished ALTER leaves visible is part of the behaviour.        *)
(***************************************************************************)
EXTENDS Naturals, Sequences, Functions, SequencesExt

CONSTANTS
    TableNames,      \* resolved table paths that statements mention
    ColumnNames,     \* column names that statements mention
    IndexNames,      \* index names that statements mention
    BaseTypes,       \* YQL types without Optional around them
    CreateStatements, \* the CREATE TABLE statements of the input
    ColumnDecls,     \* the column declarations of ALTER TABLE ADD COLUMN
    IndexDecls,      \* the index declarations of ALTER TABLE ADD INDEX
    MaxActions       \* the longest ALTER TABLE statement

(***************************************************************************)
(* Parsed input.  A declared type has Optional written `Optional` times     *)
(* around its base.  A column declaration is of kind "serial", "plain", or  *)
(* "unsupported" when parseType refuses its type.  An index declaration is  *)
(* unsupported when it is not GLOBAL SYNC or GLOBAL ASYNC.                  *)
(***************************************************************************)
Types == [Base : BaseTypes, Optional : Nat]

ColumnDecl ==
    [Name : ColumnNames, Kind : {"plain", "serial", "unsupported"},
     Type : Types, NotNull : BOOLEAN]

Indexes ==
    [Name : IndexNames, Kind : {"GlobalSync", "GlobalAsync"},
     Columns : Seq(ColumnNames), DataColumns : Seq(ColumnNames)]

IndexDecl == [Supported : BOOLEAN, Index : Indexes]

(***************************************************************************)
(* Keys holds the column list of every PRIMARY KEY constraint written in    *)
(* the statement.  An entry catalogTable does not support is an unsupported *)
(* column declaration here: both only add a diagnostic.                     *)
(***************************************************************************)
CreateStatement ==
    [Name : TableNames, IfNotExists : BOOLEAN,
     Columns : Seq(ColumnDecl), Keys : Seq(Seq(ColumnNames)),
     Indexes : Seq(IndexDecl)]

ASSUME InputAssumption ==
    /\ CreateStatements \subseteq CreateStatement
    /\ ColumnDecls \subseteq ColumnDecl
    /\ IndexDecls \subseteq IndexDecl
    /\ MaxActions \in Nat \ {0}

ASSUME NameAssumption == "" \notin TableNames

(***************************************************************************)
(* model.Column, model.Index and model.Table.                               *)
(***************************************************************************)
Columns ==
    [Name : ColumnNames, Type : Types, Table : TableNames,
     SequenceGenerated : BOOLEAN]

Tables ==
    [Name : TableNames, Columns : Seq(Columns),
     PrimaryKey : Seq(ColumnNames), Indexes : Seq(Indexes)]

\* The zero value model.Table{}: no ALTER TABLE is in progress.
ZeroTable ==
    [Name |-> "", Columns |-> <<>>, PrimaryKey |-> <<>>, Indexes |-> <<>>]

VARIABLES
    tables,   \* catalog.Tables
    target,   \* position of the table being altered, 0 between statements
    left,     \* actions of the running ALTER TABLE that are still to apply
    working,  \* the copy of the table that the running ALTER TABLE edits
    outcome   \* what became of the last statement

vars == <<tables, target, left, working, outcome>>

Outcomes == {"none", "applied", "skipped", "diagnosed", "pending"}

-----------------------------------------------------------------------------
(***************************************************************************)
(* Lookups: the code scans the slice and returns the first position.        *)
(***************************************************************************)
Names(seq) == {seq[i].Name : i \in DOMAIN seq}

Position(seq, name) ==
    CHOOSE i \in DOMAIN seq :
        /\ seq[i].Name = name
        /\ \A j \in DOMAIN seq : seq[j].Name = name => i <= j

catalogTableIndex(name) == Position(tables, name)
catalogColumnIndex(table, name) == Position(table.Columns, name)
catalogIndexPosition(table, name) == Position(table.Indexes, name)

-----------------------------------------------------------------------------
(***************************************************************************)
(* Types and columns.                                                       *)
(***************************************************************************)
IsOptional(type) == type.Optional > 0
Optional(type) == [type EXCEPT !.Optional = @ + 1]

\* A column is nullable unless it is NOT NULL, serial, or already Optional.
catalogColumn(table, decl) ==
    LET serial == decl.Kind = "serial"
        wrap == ~serial /\ ~decl.NotNull /\ ~IsOptional(decl.Type)
    IN  [Name |-> decl.Name,
         Type |-> IF serial THEN [decl.Type EXCEPT !.Optional = 0]
                  ELSE IF wrap THEN Optional(decl.Type) ELSE decl.Type,
         Table |-> table,
         SequenceGenerated |-> serial]

\* validateTableIndex: columns exist, none is repeated inside its group, and
\* a covering column is neither an index key column nor a primary key column.
validateTableIndex(table, index) ==
    /\ Range(index.Columns) \cup Range(index.DataColumns)
           \subseteq Names(table.Columns)
    /\ IsInjective(index.Columns)
    /\ IsInjective(index.DataColumns)
    /\ Range(index.DataColumns)
           \cap (Range(index.Columns) \cup Range(table.PrimaryKey)) = {}

\* What ADD INDEX and an INDEX entry of CREATE TABLE require alike.
AcceptsIndex(table, decl) ==
    /\ decl.Supported
    /\ validateTableIndex(table, decl.Index)
    /\ decl.Index.Name \notin Names(table.Indexes)

-----------------------------------------------------------------------------
(***************************************************************************)
(* CREATE TABLE.  catalogTable collects every diagnostic and the caller     *)
(* drops the table when there is any, so the table matters only for a       *)
(* statement that has none.                                                 *)
(***************************************************************************)
DeclaredTable(create) ==
    [Name |-> create.Name,
     Columns |-> [i \in DOMAIN create.Columns |->
                     catalogColumn(create.Name, create.Columns[i])],
     PrimaryKey |-> create.Keys[1],
     Indexes |-> [i \in DOMAIN create.Indexes |-> create.Indexes[i].Index]]

\* The same table as it stands when INDEX entry number i is validated.
DeclaredPrefix(create, i) ==
    [DeclaredTable(create) EXCEPT !.Indexes = SubSeq(@, 1, i - 1)]

catalogTableAccepts(create) ==
    /\ Len(create.Columns) > 0
    /\ Len(create.Keys) = 1
    /\ \A i \in DOMAIN create.Columns : create.Columns[i].Kind # "unsupported"
    /\ \A i, j \in DOMAIN create.Columns :
           create.Columns[i].Name = create.Columns[j].Name => i = j
    /\ IsInjective(create.Keys[1])
    /\ Range(create.Keys[1]) \subseteq Names(create.Columns)
    /\ \A i \in DOMAIN create.Columns :
           create.Columns[i].Kind = "serial"
               => create.Columns[i].Name \in Range(create.Keys[1])
    /\ \A i \in DOMAIN create.Indexes :
           AcceptsIndex(DeclaredPrefix(create, i), create.Indexes[i])

\* A statement that leaves the catalog as it is.
Finish(result) ==
    /\ outcome' = result
    /\ target' = 0
    /\ left' = 0
    /\ working' = ZeroTable
    /\ UNCHANGED tables

applyCreateTable(create) ==
    LET exists == create.Name \in Names(tables)
    IN  /\ target = 0
        /\ \/ exists /\ create.IfNotExists /\ Finish("skipped")
           \/ exists /\ ~create.IfNotExists /\ Finish("diagnosed")
           \/ ~exists /\ ~catalogTableAccepts(create) /\ Finish("diagnosed")
           \/ /\ ~exists
              /\ catalogTableAccepts(create)
              /\ tables' = Append(tables, DeclaredTable(create))
              /\ outcome' = "applied"
              /\ UNCHANGED <<target, left, working>>

-----------------------------------------------------------------------------
(***************************************************************************)
(* DROP TABLE [IF EXISTS].  A form other than DROP TABLE is refused.        *)
(***************************************************************************)
applyDropTable(name, ifExists) ==
    LET exists == name \in Names(tables)
    IN  /\ target = 0
        /\ \/ ~exists /\ ifExists /\ Finish("skipped")
           \/ ~exists /\ ~ifExists /\ Finish("diagnosed")
           \/ /\ exists
              /\ tables' = RemoveAt(tables, catalogTableIndex(name))
              /\ outcome' = "applied"
              /\ UNCHANGED <<target, left, working>>

\* Any statement refused before the catalog is consulted: a syntax error, an
\* unsupported statement, CREATE or DROP form, an ALTER TABLE of several
\* actions one of which is RENAME TO.
RefuseStatement ==
    /\ target = 0
    /\ Finish("diagnosed")

-----------------------------------------------------------------------------
(***************************************************************************)
(* ALTER TABLE with actions other than RENAME TO.                           *)
(***************************************************************************)
applyAlterTable(name, actions) ==
    /\ target = 0
    /\ \/ name \notin Names(tables) /\ Finish("diagnosed")
       \/ /\ name \in Names(tables)
          /\ target' = catalogTableIndex(name)
          /\ left' = actions
          /\ working' = tables[catalogTableIndex(name)]
          /\ outcome' = "pending"
          /\ UNCHANGED tables

\* Fault: the copy shares the backing arrays of the table, so an edit shows
\* in the catalog at once.
AdvanceShared(edited) ==
    /\ left > 1
    /\ left' = left - 1
    /\ working' = edited
    /\ tables' = [tables EXCEPT ![target] = edited]
    /\ UNCHANGED <<target, outcome>>

\* An action that succeeds: the edited copy replaces the table only after the
\* last action of the statement.
Advance(edited) ==
    /\ left > 1
    /\ left' = left - 1
    /\ working' = edited
    /\ UNCHANGED <<tables, target, outcome>>

Commit(edited) ==
    /\ left = 1
    /\ tables' = [tables EXCEPT ![target] = edited]
    /\ outcome' = "applied"
    /\ target' = 0
    /\ left' = 0
    /\ working' = ZeroTable

Proceed(edited) == Advance(edited) \/ Commit(edited)

\* An action that fails ends the statement and drops the copy.
AddIndex(decl) ==
    /\ target # 0
    /\ \/ ~AcceptsIndex(working, decl) /\ Finish("diagnosed")
       \/ /\ AcceptsIndex(working, decl)
          /\ Proceed([working EXCEPT !.Indexes = Append(@, decl.Index)])

DropIndex(name) ==
    LET exists == name \in Names(working.Indexes)
        at == catalogIndexPosition(working, name)
    IN  /\ target # 0
        /\ \/ ~exists /\ Finish("diagnosed")
           \/ /\ exists
              /\ Proceed([working EXCEPT !.Indexes = RemoveAt(@, at)])

\* Fault: ADD COLUMN lets a serial column in.
AddColumnSerial(decl) ==
    /\ target # 0
    /\ decl.Kind # "unsupported"
    /\ decl.Name \notin Names(working.Columns)
    /\ Proceed([working EXCEPT
           !.Columns = Append(@, catalogColumn(working.Name, decl))])

\* A serial column cannot be added: the primary key is fixed by CREATE TABLE.
AddColumn(decl) ==
    LET accepts == /\ decl.Kind = "plain"
                   /\ decl.Name \notin Names(working.Columns)
    IN  /\ target # 0
        /\ \/ ~accepts /\ Finish("diagnosed")
           \/ /\ accepts
              /\ Proceed([working EXCEPT
                     !.Columns = Append(@, catalogColumn(working.Name, decl))])

\* Fault: covering columns are forgotten.
UsedByIndexKeyOnly(table, name) ==
    \E i \in DOMAIN table.Indexes : name \in Range(table.Indexes[i].Columns)

UsedByIndex(table, name) ==
    \E i \in DOMAIN table.Indexes :
        name \in Range(table.Indexes[i].Columns)
                     \cup Range(table.Indexes[i].DataColumns)

\* Fault: a primary key column may be dropped.
DropColumnAcceptsKey(name) ==
    /\ name \in Names(working.Columns)
    /\ ~UsedByIndex(working, name)

DropColumnAccepts(name) ==
    /\ name \in Names(working.Columns)
    /\ name \notin Range(working.PrimaryKey)
    /\ ~UsedByIndex(working, name)

DropColumn(name) ==
    LET at == catalogColumnIndex(working, name)
    IN  /\ target # 0
        /\ \/ ~DropColumnAccepts(name) /\ Finish("diagnosed")
           \/ /\ DropColumnAccepts(name)
              /\ Proceed([working EXCEPT !.Columns = RemoveAt(@, at)])

DropNotNull(name) ==
    LET exists == name \in Names(working.Columns)
        at == catalogColumnIndex(working, name)
        widened == IF IsOptional(working.Columns[at].Type)
                   THEN working.Columns[at].Type
                   ELSE Optional(working.Columns[at].Type)
    IN  /\ target # 0
        /\ \/ ~exists /\ Finish("diagnosed")
           \/ /\ exists
              /\ Proceed([working EXCEPT !.Columns[at].Type = widened])

\* Every other action (SET, ADD FAMILY, ALTER INDEX, ...) is refused.
UnsupportedAction ==
    /\ target # 0
    /\ Finish("diagnosed")

-----------------------------------------------------------------------------
(***************************************************************************)
(* ALTER TABLE name RENAME TO newName, always a statement of its own.       *)
(* Renaming a table to its own name is accepted.                            *)
(***************************************************************************)
\* Fault: the columns keep the old table name.
RenamedTableOnly(table, newName) == [table EXCEPT !.Name = newName]

RenamedTable(table, newName) ==
    [table EXCEPT
        !.Name = newName,
        !.Columns = [i \in DOMAIN @ |-> [@[i] EXCEPT !.Table = newName]]]

\* Fault: the new name is not looked up.
RenameTableUnchecked(name, newName) ==
    /\ target = 0
    /\ name \in Names(tables)
    /\ tables' = [tables EXCEPT
          ![catalogTableIndex(name)] = RenamedTable(@, newName)]
    /\ outcome' = "applied"
    /\ UNCHANGED <<target, left, working>>

RenameTable(name, newName) ==
    LET at == catalogTableIndex(name)
        accepted == /\ name \in Names(tables)
                    /\ newName \in Names(tables)
                           => catalogTableIndex(newName) = at
    IN  /\ target = 0
        /\ \/ ~accepted /\ Finish("diagnosed")
           \/ /\ accepted
              /\ tables' = [tables EXCEPT ![at] = RenamedTable(@, newName)]
              /\ outcome' = "applied"
              /\ UNCHANGED <<target, left, working>>

-----------------------------------------------------------------------------
Init ==
    /\ tables = <<>>
    /\ target = 0
    /\ left = 0
    /\ working = ZeroTable
    /\ outcome = "none"

Next ==
    \/ \E create \in CreateStatements : applyCreateTable(create)
    \/ \E name \in TableNames, ifExists \in BOOLEAN :
           applyDropTable(name, ifExists)
    \/ \E name \in TableNames, actions \in 1..MaxActions :
           applyAlterTable(name, actions)
    \/ \E name, newName \in TableNames : RenameTable(name, newName)
    \/ \E decl \in IndexDecls : AddIndex(decl)
    \/ \E name \in IndexNames : DropIndex(name)
    \/ \E decl \in ColumnDecls : AddColumn(decl)
    \/ \E name \in ColumnNames : DropColumn(name)
    \/ \E name \in ColumnNames : DropNotNull(name)
    \/ UnsupportedAction
    \/ RefuseStatement

Spec == Init /\ [][Next]_vars

-----------------------------------------------------------------------------
(***************************************************************************)
(* Properties.                                                              *)
(***************************************************************************)

\* Every variable has the shape of the Go value it stands for; a running
\* ALTER TABLE points at an existing table.
TypeOK ==
    /\ tables \in Seq(Tables)
    /\ target \in 0..Len(tables)
    /\ left \in 0..MaxActions
    /\ working \in Tables \cup {ZeroTable}
    /\ outcome \in Outcomes

NamesDistinct(seq) ==
    \A i, j \in DOMAIN seq : seq[i].Name = seq[j].Name => i = j

ReferencesResolveIn(table) ==
    /\ NamesDistinct(table.Columns)
    /\ NamesDistinct(table.Indexes)
    /\ IsInjective(table.PrimaryKey)
    /\ Range(table.PrimaryKey) \subseteq Names(table.Columns)
    /\ \A i \in DOMAIN table.Indexes :
           validateTableIndex(table, table.Indexes[i])

SerialInKeyIn(table) ==
    \A i \in DOMAIN table.Columns :
        table.Columns[i].SequenceGenerated
            => table.Columns[i].Name \in Range(table.PrimaryKey)

ColumnsOwnedIn(table) ==
    \A i \in DOMAIN table.Columns : table.Columns[i].Table = table.Name

\* No sequence of CREATE, DROP and RENAME TO statements, refused ones
\* included, leaves two tables under one name: catalogTableIndex finds the
\* only one.
UniqueTables == NamesDistinct(tables)

\* After any sequence of statements the primary key and every index of every
\* table name existing columns once, and covering columns stay out of the
\* index key and the primary key: DROP COLUMN and ADD INDEX agree.
ReferencesResolve ==
    \A i \in DOMAIN tables : ReferencesResolveIn(tables[i])

\* A sequence-generated column is always part of the primary key, although
\* CREATE TABLE, ADD COLUMN and DROP COLUMN enforce it separately.
SerialInKey == \A i \in DOMAIN tables : SerialInKeyIn(tables[i])

\* Column.Table names the table that holds the column, after RENAME TO and
\* after ADD COLUMN to a renamed table.
ColumnsOwned == \A i \in DOMAIN tables : ColumnsOwnedIn(tables[i])

\* The catalog changes only in the step that completes a statement without a
\* diagnostic: a refused statement, and an ALTER TABLE that fails at a later
\* action, leave nothing behind.
AtomicStatements == [][tables' # tables => outcome' = "applied"]_vars

(***************************************************************************)
(* The catalog implements the map of well-formed tables of module Schema.   *)
(***************************************************************************)
AbstractIndex(index) ==
    [name |-> index.Name, kind |-> index.Kind,
     columns |-> Range(index.Columns), cover |-> Range(index.DataColumns)]

AbstractColumn(column) ==
    [base |-> column.Type.Base, nullable |-> IsOptional(column.Type),
     serial |-> column.SequenceGenerated]

AbstractTable(table) ==
    [columns |-> [c \in Names(table.Columns) |->
                     AbstractColumn(table.Columns[catalogColumnIndex(table, c)])],
     key |-> table.PrimaryKey,
     indexes |-> {AbstractIndex(table.Indexes[i]) : i \in DOMAIN table.Indexes}]

Abstract == INSTANCE Schema WITH
    schema <- [n \in Names(tables) |-> AbstractTable(tables[catalogTableIndex(n)])]

\* Every step of the catalog is one Create, Drop, Alter or Rename of a
\* well-formed table, or leaves the schema alone; no ALTER TABLE changes the
\* primary key or the type of a key column.
ImplementsSchema == Abstract!Spec
=============================================================================
