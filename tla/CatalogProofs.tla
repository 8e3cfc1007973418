--------------------------- MODULE CatalogProofs ---------------------------
(***************************************************************************)
(* Proofs that the catalog of module Catalog stays consistent for every set *)
(* of names, types and statements, and that it implements the map of        *)
(* well-formed tables of module Schema.                                     *)
(***************************************************************************)
EXTENDS Catalog, SequenceTheorems, WellFoundedInduction, TLAPS

\* What append(s[:i], s[i+1:]...) leaves in a slice: the elements before i,
\* then the elements after i.
LEMMA RemoveAtProperties ==
    ASSUME NEW S, NEW s \in Seq(S), NEW i \in 1..Len(s)
    PROVE  /\ RemoveAt(s, i) \in Seq(S)
           /\ Len(RemoveAt(s, i)) = Len(s) - 1
           /\ \A k \in 1..(Len(s) - 1) :
                  RemoveAt(s, i)[k] = IF k < i THEN s[k] ELSE s[k + 1]
<1> DEFINE before == SubSeq(s, 1, i - 1)
           after == SubSeq(s, i + 1, Len(s))
<1>1. Len(s) \in Nat /\ \A k \in 1..Len(s) : s[k] \in S
  BY LenProperties, ElementOfSeq
<1>2. /\ before \in Seq(S)
      /\ Len(before) = i - 1
      /\ \A k \in 1..(i - 1) : before[k] = s[k]
  <2>1. \A k \in 1..(i - 1) : s[k] \in S
    BY <1>1
  <2>2. /\ SubSeq(s, 1, i - 1) \in Seq(S)
        /\ Len(SubSeq(s, 1, i - 1)) = IF 1 <= i - 1 THEN (i - 1) - 1 + 1 ELSE 0
        /\ \A k \in 1..((i - 1) - 1 + 1) : SubSeq(s, 1, i - 1)[k] = s[1 + k - 1]
    BY <2>1, <1>1, SubSeqProperties
  <2> QED BY <2>2, <1>1
<1>3. /\ after \in Seq(S)
      /\ Len(after) = Len(s) - i
      /\ \A k \in 1..(Len(s) - i) : after[k] = s[i + k]
  <2>1. \A k \in (i + 1)..Len(s) : s[k] \in S
    BY <1>1
  <2>2. /\ SubSeq(s, i + 1, Len(s)) \in Seq(S)
        /\ Len(SubSeq(s, i + 1, Len(s))) =
               IF i + 1 <= Len(s) THEN Len(s) - (i + 1) + 1 ELSE 0
        /\ \A k \in 1..(Len(s) - (i + 1) + 1) :
               SubSeq(s, i + 1, Len(s))[k] = s[(i + 1) + k - 1]
    BY <2>1, <1>1, SubSeqProperties
  <2> QED BY <2>2, <1>1
<1> HIDE DEF before, after
<1>4. /\ before \o after \in Seq(S)
      /\ Len(before \o after) = Len(before) + Len(after)
      /\ \A k \in 1..(Len(before) + Len(after)) :
             (before \o after)[k] =
                 IF k <= Len(before) THEN before[k] ELSE after[k - Len(before)]
  BY <1>2, <1>3, ConcatProperties
<1>5. RemoveAt(s, i) = before \o after
  BY DEF RemoveAt, before, after
<1>6. Len(before) + Len(after) = Len(s) - 1
  BY <1>1, <1>2, <1>3
<1>7. ASSUME NEW k \in 1..(Len(s) - 1)
      PROVE  (before \o after)[k] = IF k < i THEN s[k] ELSE s[k + 1]
  <2>1. CASE k < i
    BY <2>1, <1>1, <1>2, <1>4, <1>6
  <2>2. CASE ~(k < i)
    <3>1. (before \o after)[k] = after[k - (i - 1)]
      BY <2>2, <1>1, <1>2, <1>4, <1>6
    <3>2. k - (i - 1) \in 1..(Len(s) - i) /\ i + (k - (i - 1)) = k + 1
      BY <2>2, <1>1
    <3> QED BY <2>2, <3>1, <3>2, <1>3
  <2> QED BY <2>1, <2>2
<1> QED BY <1>4, <1>5, <1>6, <1>7

\* A function on 1..n is a sequence.
LEMMA FunctionIsSeq ==
    ASSUME NEW S, NEW n \in Nat, NEW f \in [1..n -> S]
    PROVE  f \in Seq(S)
BY SeqDef

\* A lookup by a name that occurs returns a position that holds it.
LEMMA PositionFacts ==
    ASSUME NEW S, NEW s \in Seq(S), NEW name \in Names(s)
    PROVE  Position(s, name) \in DOMAIN s /\ s[Position(s, name)].Name = name
<1> DEFINE T == {i \in DOMAIN s : s[i].Name = name}
           Less == {ss \in Nat \X Nat : ss[1] < ss[2]}
<1>1. DOMAIN s = 1..Len(s) /\ Len(s) \in Nat
  BY LenProperties
<1>2. T # {} /\ T \subseteq Nat
  BY <1>1 DEF Names
<1>3. IsWellFoundedOn(Less, Nat)
  <2>1. Less = OpToRel(<, Nat)
    BY Zenon DEF OpToRel
  <2> QED BY <2>1, NatLessThanWellFounded
<1>4. \E i \in T : \A j \in T : ~ (<<j, i>> \in Less)
  <2> HIDE DEF T, Less
  <2> QED BY <1>2, <1>3, WFMin
<1>5. \E i \in T : \A j \in T : i <= j
  <2>1. \A i, j \in Nat : j < i => <<j, i>> \in Less
    OBVIOUS
  <2> HIDE DEF T, Less
  <2>2. PICK i \in T : \A j \in T : ~ (<<j, i>> \in Less)
    BY <1>4
  <2>3. ASSUME NEW j \in T PROVE i <= j
    <3>1. i \in Nat /\ j \in Nat
      BY <1>2
    <3>2. ~(j < i)
      BY <2>1, <2>2, <3>1
    <3> QED BY <3>1, <3>2
  <2> QED BY <2>3
<1> QED BY <1>5 DEF Position

-----------------------------------------------------------------------------
\* Appending an element with a fresh name keeps the names distinct.
LEMMA NamesOfAppend ==
    ASSUME NEW S, NEW s \in Seq(S), NEW e \in S
    PROVE  /\ Append(s, e) \in Seq(S)
           /\ Names(Append(s, e)) = Names(s) \cup {e.Name}
           /\ NamesDistinct(s) /\ e.Name \notin Names(s)
                  => NamesDistinct(Append(s, e))
<1>1. /\ Append(s, e) \in Seq(S)
      /\ DOMAIN s = 1..Len(s)
      /\ Len(s) \in Nat
      /\ DOMAIN Append(s, e) = 1..(Len(s) + 1)
      /\ \A k \in 1..Len(s) : Append(s, e)[k] = s[k]
      /\ Append(s, e)[Len(s) + 1] = e
  BY AppendProperties, LenProperties
<1> DEFINE a == Append(s, e)
<1>2. Names(a) = Names(s) \cup {e.Name}
  <2> HIDE DEF a
  <2>1. /\ DOMAIN a = (DOMAIN s) \cup {Len(s) + 1}
        /\ \A k \in DOMAIN s : a[k] = s[k]
        /\ a[Len(s) + 1] = e
    BY <1>1 DEF a
  <2> QED BY <2>1 DEF Names
<1>3. ASSUME NamesDistinct(s), e.Name \notin Names(s)
      PROVE  NamesDistinct(a)
  <2> HIDE DEF a
  <2>1. /\ DOMAIN a = (DOMAIN s) \cup {Len(s) + 1}
        /\ \A k \in DOMAIN s : a[k] = s[k]
        /\ a[Len(s) + 1] = e
    BY <1>1 DEF a
  <2> QED BY <2>1, <1>3 DEF Names, NamesDistinct
<1> QED BY <1>1, <1>2, <1>3

\* Removing an element removes its name and no other, and invents nothing.
LEMMA NamesOfRemoveAt ==
    ASSUME NEW S, NEW s \in Seq(S), NEW i \in DOMAIN s, NamesDistinct(s)
    PROVE  /\ RemoveAt(s, i) \in Seq(S)
           /\ Names(RemoveAt(s, i)) = Names(s) \ {s[i].Name}
           /\ NamesDistinct(RemoveAt(s, i))
           /\ \A k \in DOMAIN RemoveAt(s, i) :
                  \E j \in DOMAIN s : RemoveAt(s, i)[k] = s[j]
<1> DEFINE r == RemoveAt(s, i)
           Source(k) == IF k < i THEN k ELSE k + 1
<1>1. DOMAIN s = 1..Len(s) /\ Len(s) \in Nat
  BY LenProperties
<1>2. /\ r \in Seq(S)
      /\ DOMAIN r = 1..(Len(s) - 1)
      /\ \A k \in DOMAIN r : r[k] = s[Source(k)]
  <2>1. /\ r \in Seq(S)
        /\ Len(r) = Len(s) - 1
        /\ \A k \in 1..(Len(s) - 1) :
               r[k] = IF k < i THEN s[k] ELSE s[k + 1]
    BY <1>1, RemoveAtProperties
  <2> HIDE DEF r
  <2>2. DOMAIN r = 1..(Len(s) - 1)
    BY <2>1, LenProperties
  <2> QED BY <2>1, <2>2
<1> HIDE DEF r
<1>3. \A k \in DOMAIN r : Source(k) \in DOMAIN s /\ Source(k) # i
  BY <1>1, <1>2
<1>4. \A k, l \in DOMAIN r : Source(k) = Source(l) => k = l
  BY <1>1, <1>2
<1>5. \A j \in DOMAIN s : j # i => \E k \in DOMAIN r : Source(k) = j
  <2> TAKE j \in DOMAIN s
  <2> HAVE j # i
  <2>1. CASE j < i
    BY <2>1, <1>1, <1>2
  <2>2. CASE j > i
    <3>1. j - 1 \in DOMAIN r /\ Source(j - 1) = j
      BY <2>2, <1>1, <1>2
    <3> QED BY <3>1
  <2> QED BY <2>1, <2>2, <1>1
<1> HIDE DEF Source
<1>6. NamesDistinct(r)
  BY <1>2, <1>3, <1>4 DEF NamesDistinct
<1>7. Names(r) = Names(s) \ {s[i].Name}
  <2>1. ASSUME NEW n \in Names(r) PROVE n \in Names(s) \ {s[i].Name}
    BY <1>2, <1>3 DEF Names, NamesDistinct
  <2>2. ASSUME NEW n \in Names(s) \ {s[i].Name} PROVE n \in Names(r)
    <3>1. PICK j \in DOMAIN s : n = s[j].Name
      BY DEF Names
    <3>2. PICK k \in DOMAIN r : Source(k) = j
      BY <1>5, <3>1
    <3> QED BY <1>2, <3>1, <3>2 DEF Names
  <2> QED BY <2>1, <2>2
<1>8. \A k \in DOMAIN r : \E j \in DOMAIN s : r[k] = s[j]
  BY <1>2, <1>3
<1> QED BY <1>2, <1>6, <1>7, <1>8 DEF r

-----------------------------------------------------------------------------
(***************************************************************************)
(* A table whose parts refer to each other correctly, and what each edit of *)
(* a table preserves.                                                       *)
(***************************************************************************)
WellFormedTable(table) ==
    /\ ReferencesResolveIn(table)
    /\ SerialInKeyIn(table)
    /\ ColumnsOwnedIn(table)

\* Column names and the primary key are all that validateTableIndex reads.
LEMMA ValidIndexDependsOnNames ==
    ASSUME NEW t, NEW u, NEW index,
           Names(t.Columns) \subseteq Names(u.Columns),
           u.PrimaryKey = t.PrimaryKey,
           validateTableIndex(t, index)
    PROVE  validateTableIndex(u, index)
BY DEF validateTableIndex

\* ADD INDEX of an accepted index keeps a table well formed.
LEMMA AddIndexKeepsTable ==
    ASSUME NEW t \in Tables, WellFormedTable(t),
           NEW decl \in IndexDecl, AcceptsIndex(t, decl)
    PROVE  LET u == [t EXCEPT !.Indexes = Append(@, decl.Index)]
           IN  u \in Tables /\ WellFormedTable(u) /\ u.Name = t.Name
<1> DEFINE added == Append(t.Indexes, decl.Index)
           u == [t EXCEPT !.Indexes = added]
<1>1. t.Indexes \in Seq(Indexes) /\ decl.Index \in Indexes
  BY DEF Tables, IndexDecl
<1>2. /\ added \in Seq(Indexes)
      /\ NamesDistinct(added)
      /\ \A k \in DOMAIN added :
             added[k] = decl.Index \/ \E j \in DOMAIN t.Indexes : added[k] = t.Indexes[j]
  <2>1. NamesDistinct(t.Indexes) /\ decl.Index.Name \notin Names(t.Indexes)
    BY DEF WellFormedTable, ReferencesResolveIn, AcceptsIndex
  <2>2. added \in Seq(Indexes) /\ NamesDistinct(added)
    BY <1>1, <2>1, NamesOfAppend
  <2>3. \A k \in DOMAIN added :
            added[k] = decl.Index \/ \E j \in DOMAIN t.Indexes : added[k] = t.Indexes[j]
    BY <1>1, AppendProperties, LenProperties
  <2> QED BY <2>2, <2>3
<1> HIDE DEF added
<1>3. /\ u \in Tables
      /\ u.Name = t.Name
      /\ u.Columns = t.Columns
      /\ u.PrimaryKey = t.PrimaryKey
      /\ u.Indexes = added
  BY <1>2 DEF Tables
<1> HIDE DEF u
<1>4. \A k \in DOMAIN added : validateTableIndex(t, added[k])
  BY <1>2 DEF WellFormedTable, ReferencesResolveIn, AcceptsIndex
<1>5. \A k \in DOMAIN added : validateTableIndex(u, added[k])
  BY <1>3, <1>4 DEF validateTableIndex
<1>6. WellFormedTable(u)
  BY <1>2, <1>3, <1>5
     DEF WellFormedTable, ReferencesResolveIn, SerialInKeyIn, ColumnsOwnedIn
<1> QED BY <1>3, <1>6 DEF u, added

\* DROP INDEX of an existing index keeps a table well formed.
LEMMA DropIndexKeepsTable ==
    ASSUME NEW t \in Tables, WellFormedTable(t),
           NEW name \in Names(t.Indexes)
    PROVE  LET u == [t EXCEPT
                        !.Indexes = RemoveAt(@, catalogIndexPosition(t, name))]
           IN  u \in Tables /\ WellFormedTable(u) /\ u.Name = t.Name
<1> DEFINE at == catalogIndexPosition(t, name)
           rest == RemoveAt(t.Indexes, at)
           u == [t EXCEPT !.Indexes = rest]
<1>1. t.Indexes \in Seq(Indexes) /\ NamesDistinct(t.Indexes)
  BY DEF Tables, WellFormedTable, ReferencesResolveIn
<1>2. at \in DOMAIN t.Indexes
  BY <1>1, PositionFacts DEF catalogIndexPosition
<1> HIDE DEF at
<1>3. /\ rest \in Seq(Indexes)
      /\ NamesDistinct(rest)
      /\ \A k \in DOMAIN rest : \E j \in DOMAIN t.Indexes : rest[k] = t.Indexes[j]
  BY <1>1, <1>2, NamesOfRemoveAt
<1> HIDE DEF rest
<1>4. /\ u \in Tables
      /\ u.Name = t.Name
      /\ u.Columns = t.Columns
      /\ u.PrimaryKey = t.PrimaryKey
      /\ u.Indexes = rest
  BY <1>3 DEF Tables
<1> HIDE DEF u
<1>5. \A k \in DOMAIN rest : validateTableIndex(u, rest[k])
  BY <1>3, <1>4 DEF WellFormedTable, ReferencesResolveIn, validateTableIndex
<1>6. WellFormedTable(u)
  BY <1>3, <1>4, <1>5
     DEF WellFormedTable, ReferencesResolveIn, SerialInKeyIn, ColumnsOwnedIn
<1> QED BY <1>4, <1>6 DEF u, rest, at

\* What catalogColumn returns for a declaration.
LEMMA ColumnType ==
    ASSUME NEW table \in TableNames, NEW decl \in ColumnDecl
    PROVE  LET c == catalogColumn(table, decl)
           IN  /\ c \in Columns
               /\ c.Name = decl.Name
               /\ c.Table = table
               /\ c.SequenceGenerated = (decl.Kind = "serial")
BY DEF catalogColumn, Columns, ColumnDecl, Types, Optional, IsOptional

\* ADD COLUMN of an accepted declaration keeps a table well formed.
LEMMA AddColumnKeepsTable ==
    ASSUME NEW t \in Tables, WellFormedTable(t),
           NEW decl \in ColumnDecl,
           decl.Kind = "plain", decl.Name \notin Names(t.Columns)
    PROVE  LET u == [t EXCEPT !.Columns = Append(@, catalogColumn(t.Name, decl))]
           IN  u \in Tables /\ WellFormedTable(u) /\ u.Name = t.Name
<1> DEFINE new == catalogColumn(t.Name, decl)
           added == Append(t.Columns, new)
           u == [t EXCEPT !.Columns = added]
<1>1. t.Columns \in Seq(Columns) /\ NamesDistinct(t.Columns)
  BY DEF Tables, WellFormedTable, ReferencesResolveIn
<1>2. t.Name \in TableNames
  BY DEF Tables
<1>3. /\ new \in Columns
      /\ new.Name = decl.Name
      /\ new.Table = t.Name
      /\ ~new.SequenceGenerated
  BY <1>2, ColumnType
<1> HIDE DEF new
<1>4. /\ added \in Seq(Columns)
      /\ NamesDistinct(added)
      /\ Names(t.Columns) \subseteq Names(added)
      /\ \A k \in DOMAIN added :
             added[k] = new \/ \E j \in DOMAIN t.Columns : added[k] = t.Columns[j]
  <2>1. /\ added \in Seq(Columns)
        /\ NamesDistinct(added)
        /\ Names(t.Columns) \subseteq Names(added)
    BY <1>1, <1>3, NamesOfAppend
  <2>2. \A k \in DOMAIN added :
            added[k] = new \/ \E j \in DOMAIN t.Columns : added[k] = t.Columns[j]
    BY <1>1, <1>3, AppendProperties, LenProperties
  <2> QED BY <2>1, <2>2
<1> HIDE DEF added
<1>5. /\ u \in Tables
      /\ u.Name = t.Name
      /\ u.Columns = added
      /\ u.PrimaryKey = t.PrimaryKey
      /\ u.Indexes = t.Indexes
  BY <1>4 DEF Tables
<1> HIDE DEF u
<1>6. ReferencesResolveIn(u)
  <2>1. \A k \in DOMAIN u.Indexes : validateTableIndex(u, u.Indexes[k])
    BY <1>4, <1>5, ValidIndexDependsOnNames
       DEF WellFormedTable, ReferencesResolveIn
  <2> QED BY <1>4, <1>5, <2>1 DEF WellFormedTable, ReferencesResolveIn
<1>7. SerialInKeyIn(u)
  BY <1>3, <1>4, <1>5 DEF WellFormedTable, SerialInKeyIn
<1>8. ColumnsOwnedIn(u)
  BY <1>3, <1>4, <1>5 DEF WellFormedTable, ColumnsOwnedIn
<1>9. WellFormedTable(u)
  BY <1>6, <1>7, <1>8 DEF WellFormedTable
<1> QED BY <1>5, <1>9 DEF u, added, new

\* DROP COLUMN of a column that neither the primary key nor an index uses
\* keeps a table well formed.
LEMMA DropColumnKeepsTable ==
    ASSUME NEW t \in Tables, WellFormedTable(t),
           NEW name \in Names(t.Columns),
           name \notin Range(t.PrimaryKey), ~UsedByIndex(t, name)
    PROVE  LET u == [t EXCEPT
                        !.Columns = RemoveAt(@, catalogColumnIndex(t, name))]
           IN  u \in Tables /\ WellFormedTable(u) /\ u.Name = t.Name
<1> DEFINE at == catalogColumnIndex(t, name)
           rest == RemoveAt(t.Columns, at)
           u == [t EXCEPT !.Columns = rest]
<1>1. t.Columns \in Seq(Columns) /\ NamesDistinct(t.Columns)
  BY DEF Tables, WellFormedTable, ReferencesResolveIn
<1>2. at \in DOMAIN t.Columns /\ t.Columns[at].Name = name
  BY <1>1, PositionFacts DEF catalogColumnIndex
<1> HIDE DEF at
<1>3. /\ rest \in Seq(Columns)
      /\ NamesDistinct(rest)
      /\ Names(rest) = Names(t.Columns) \ {name}
      /\ \A k \in DOMAIN rest : \E j \in DOMAIN t.Columns : rest[k] = t.Columns[j]
  BY <1>1, <1>2, NamesOfRemoveAt
<1> HIDE DEF rest
<1>4. /\ u \in Tables
      /\ u.Name = t.Name
      /\ u.Columns = rest
      /\ u.PrimaryKey = t.PrimaryKey
      /\ u.Indexes = t.Indexes
  BY <1>3 DEF Tables
<1> HIDE DEF u
<1>5. ReferencesResolveIn(u)
  <2>1. Range(u.PrimaryKey) \subseteq Names(u.Columns)
    BY <1>3, <1>4 DEF WellFormedTable, ReferencesResolveIn
  <2>2. \A k \in DOMAIN u.Indexes : validateTableIndex(u, u.Indexes[k])
    BY <1>3, <1>4
       DEF WellFormedTable, ReferencesResolveIn, validateTableIndex, UsedByIndex
  <2> QED BY <1>3, <1>4, <2>1, <2>2 DEF WellFormedTable, ReferencesResolveIn
<1>6. SerialInKeyIn(u)
  BY <1>3, <1>4 DEF WellFormedTable, SerialInKeyIn
<1>7. ColumnsOwnedIn(u)
  BY <1>3, <1>4 DEF WellFormedTable, ColumnsOwnedIn
<1>8. WellFormedTable(u)
  BY <1>5, <1>6, <1>7 DEF WellFormedTable
<1> QED BY <1>4, <1>8 DEF u, rest, at

\* Edits that keep the length, the names, the sequence flags and the owner of
\* the columns: DROP NOT NULL and RENAME TO.
LEMMA ReshapedColumnsKeepTable ==
    ASSUME NEW t \in Tables, WellFormedTable(t), NEW u \in Tables,
           u.PrimaryKey = t.PrimaryKey, u.Indexes = t.Indexes,
           DOMAIN u.Columns = DOMAIN t.Columns,
           \A k \in DOMAIN t.Columns :
               /\ u.Columns[k].Name = t.Columns[k].Name
               /\ u.Columns[k].SequenceGenerated = t.Columns[k].SequenceGenerated
               /\ u.Columns[k].Table = u.Name
    PROVE  WellFormedTable(u)
<1>1. Names(u.Columns) = Names(t.Columns) /\ NamesDistinct(u.Columns)
  BY DEF Names, NamesDistinct, WellFormedTable, ReferencesResolveIn
<1>2. \A k \in DOMAIN u.Indexes : validateTableIndex(u, u.Indexes[k])
  BY <1>1 DEF WellFormedTable, ReferencesResolveIn, validateTableIndex
<1>3. ReferencesResolveIn(u)
  BY <1>1, <1>2 DEF WellFormedTable, ReferencesResolveIn
<1>4. SerialInKeyIn(u) /\ ColumnsOwnedIn(u)
  BY DEF WellFormedTable, SerialInKeyIn, ColumnsOwnedIn
<1> QED BY <1>3, <1>4 DEF WellFormedTable

\* DROP NOT NULL changes one column type and keeps a table well formed.
LEMMA DropNotNullKeepsTable ==
    ASSUME NEW t \in Tables, WellFormedTable(t),
           NEW at \in DOMAIN t.Columns, NEW type \in Types
    PROVE  LET u == [t EXCEPT !.Columns[at].Type = type]
           IN  u \in Tables /\ WellFormedTable(u) /\ u.Name = t.Name
<1> DEFINE column == [t.Columns[at] EXCEPT !.Type = type]
           columns == [t.Columns EXCEPT ![at] = column]
           u == [t EXCEPT !.Columns = columns]
<1>1. t.Columns \in Seq(Columns) /\ t.Columns[at] \in Columns
  <2>1. t.Columns \in Seq(Columns)
    BY DEF Tables
  <2> QED BY <2>1, ElementOfSeq, LenProperties
<1>2. /\ column \in Columns
      /\ column.Name = t.Columns[at].Name
      /\ column.Table = t.Columns[at].Table
      /\ column.SequenceGenerated = t.Columns[at].SequenceGenerated
  BY <1>1 DEF Columns
<1> HIDE DEF column
<1>3. /\ columns \in Seq(Columns)
      /\ DOMAIN columns = DOMAIN t.Columns
      /\ \A k \in DOMAIN t.Columns :
             columns[k] = IF k = at THEN column ELSE t.Columns[k]
  BY <1>1, <1>2, ExceptSeq, LenProperties
<1> HIDE DEF columns
<1>4. /\ u \in Tables
      /\ u.Name = t.Name
      /\ u.Columns = columns
      /\ u.PrimaryKey = t.PrimaryKey
      /\ u.Indexes = t.Indexes
  BY <1>3 DEF Tables
<1> HIDE DEF u
<1>5. \A k \in DOMAIN t.Columns :
          /\ u.Columns[k].Name = t.Columns[k].Name
          /\ u.Columns[k].SequenceGenerated = t.Columns[k].SequenceGenerated
          /\ u.Columns[k].Table = u.Name
  BY <1>2, <1>3, <1>4 DEF WellFormedTable, ColumnsOwnedIn
<1>6. WellFormedTable(u)
  BY <1>3, <1>4, <1>5, ReshapedColumnsKeepTable
<1>7. [t EXCEPT !.Columns[at].Type = type] = u
  BY <1>1 DEF u, columns, column, Tables
<1> QED BY <1>4, <1>6, <1>7

\* RENAME TO moves the table and all its columns to the new name.
LEMMA RenameKeepsTable ==
    ASSUME NEW t \in Tables, WellFormedTable(t), NEW newName \in TableNames
    PROVE  LET u == RenamedTable(t, newName)
           IN  u \in Tables /\ WellFormedTable(u) /\ u.Name = newName
<1> DEFINE columns == [i \in DOMAIN t.Columns |->
                          [t.Columns[i] EXCEPT !.Table = newName]]
           u == RenamedTable(t, newName)
<1>1. /\ t.Columns \in Seq(Columns)
      /\ DOMAIN t.Columns = 1..Len(t.Columns)
      /\ Len(t.Columns) \in Nat
      /\ \A i \in DOMAIN t.Columns : t.Columns[i] \in Columns
  <2>1. t.Columns \in Seq(Columns)
    BY DEF Tables
  <2> QED BY <2>1, ElementOfSeq, LenProperties
<1>2. /\ DOMAIN columns = 1..Len(t.Columns)
      /\ \A i \in DOMAIN t.Columns :
             /\ columns[i] \in Columns
             /\ columns[i].Name = t.Columns[i].Name
             /\ columns[i].SequenceGenerated = t.Columns[i].SequenceGenerated
             /\ columns[i].Table = newName
  BY <1>1 DEF Columns
<1>3. columns \in Seq(Columns)
  <2>1. columns \in [1..Len(t.Columns) -> Columns]
    BY <1>1, <1>2
  <2> HIDE DEF columns
  <2> QED BY <1>1, <2>1, FunctionIsSeq
<1> HIDE DEF columns
<1>4. u = [t EXCEPT !.Name = newName, !.Columns = columns]
  BY DEF RenamedTable, columns, Tables
<1>5. /\ u \in Tables
      /\ u.Name = newName
      /\ u.Columns = columns
      /\ u.PrimaryKey = t.PrimaryKey
      /\ u.Indexes = t.Indexes
  BY <1>3, <1>4 DEF Tables
<1> HIDE DEF u
<1>6. WellFormedTable(u)
  BY <1>1, <1>2, <1>5, ReshapedColumnsKeepTable
<1> QED BY <1>5, <1>6 DEF u

\* A CREATE TABLE statement without diagnostics yields a well-formed table.
LEMMA DeclaredTableWellFormed ==
    ASSUME NEW create \in CreateStatement, catalogTableAccepts(create)
    PROVE  LET u == DeclaredTable(create)
           IN  u \in Tables /\ WellFormedTable(u) /\ u.Name = create.Name
<1> DEFINE u == DeclaredTable(create)
<1>1. /\ create.Name \in TableNames
      /\ create.Columns \in Seq(ColumnDecl)
      /\ create.Keys \in Seq(Seq(ColumnNames))
      /\ create.Indexes \in Seq(IndexDecl)
  BY DEF CreateStatement
<1>2. /\ DOMAIN create.Columns = 1..Len(create.Columns)
      /\ Len(create.Columns) \in Nat
      /\ \A i \in DOMAIN create.Columns : create.Columns[i] \in ColumnDecl
      /\ DOMAIN create.Indexes = 1..Len(create.Indexes)
      /\ Len(create.Indexes) \in Nat
      /\ \A i \in DOMAIN create.Indexes : create.Indexes[i] \in IndexDecl
      /\ create.Keys[1] \in Seq(ColumnNames)
  BY <1>1, ElementOfSeq, LenProperties DEF catalogTableAccepts
<1>3. /\ u.Columns \in Seq(Columns)
      /\ DOMAIN u.Columns = DOMAIN create.Columns
      /\ \A i \in DOMAIN create.Columns :
             /\ u.Columns[i].Name = create.Columns[i].Name
             /\ u.Columns[i].Table = create.Name
             /\ u.Columns[i].SequenceGenerated = (create.Columns[i].Kind = "serial")
  <2> DEFINE columns == [i \in DOMAIN create.Columns |->
                            catalogColumn(create.Name, create.Columns[i])]
  <2>1. \A i \in DOMAIN create.Columns :
            /\ columns[i] \in Columns
            /\ columns[i].Name = create.Columns[i].Name
            /\ columns[i].Table = create.Name
            /\ columns[i].SequenceGenerated = (create.Columns[i].Kind = "serial")
    BY <1>1, <1>2, ColumnType
  <2>2. DOMAIN columns = 1..Len(create.Columns)
    BY <1>2
  <2>3. u.Columns = columns
    BY DEF DeclaredTable
  <2>4. columns \in [1..Len(create.Columns) -> Columns]
    BY <2>1, <2>2, <1>2
  <2> HIDE DEF columns, u
  <2>5. columns \in Seq(Columns)
    BY <2>4, <1>2, FunctionIsSeq
  <2> QED BY <2>1, <2>2, <2>3, <2>5, <1>2
<1>4. /\ u.Indexes \in Seq(Indexes)
      /\ DOMAIN u.Indexes = DOMAIN create.Indexes
      /\ \A i \in DOMAIN create.Indexes : u.Indexes[i] = create.Indexes[i].Index
  <2> DEFINE indexes == [i \in DOMAIN create.Indexes |-> create.Indexes[i].Index]
  <2>1. /\ DOMAIN indexes = 1..Len(create.Indexes)
        /\ \A i \in DOMAIN create.Indexes :
               indexes[i] \in Indexes /\ indexes[i] = create.Indexes[i].Index
    BY <1>2 DEF IndexDecl
  <2>2. u.Indexes = indexes
    BY DEF DeclaredTable
  <2>3. indexes \in [1..Len(create.Indexes) -> Indexes]
    BY <2>1, <1>2
  <2> HIDE DEF indexes, u
  <2>4. indexes \in Seq(Indexes)
    BY <2>3, <1>2, FunctionIsSeq
  <2> QED BY <2>1, <2>2, <2>4, <1>2
<1>5. u.Name = create.Name /\ u.PrimaryKey = create.Keys[1]
  BY DEF DeclaredTable
<1>6. u \in Tables
  <2>1. u = [Name |-> u.Name, Columns |-> u.Columns,
             PrimaryKey |-> u.PrimaryKey, Indexes |-> u.Indexes]
    BY DEF DeclaredTable
  <2> HIDE DEF u
  <2> QED BY <2>1, <1>1, <1>2, <1>3, <1>4, <1>5 DEF Tables
<1>7. ASSUME NEW i \in DOMAIN create.Indexes
      PROVE  /\ validateTableIndex(u, u.Indexes[i])
             /\ \A j \in DOMAIN create.Indexes :
                    j < i => u.Indexes[j].Name # u.Indexes[i].Name
  <2> DEFINE w == DeclaredPrefix(create, i)
  <2>1. AcceptsIndex(w, create.Indexes[i])
    BY DEF catalogTableAccepts
  <2>2. /\ w.Columns = u.Columns
        /\ w.PrimaryKey = u.PrimaryKey
        /\ w.Indexes = SubSeq(u.Indexes, 1, i - 1)
    BY DEF DeclaredPrefix, DeclaredTable
  <2>3. ASSUME NEW j \in DOMAIN create.Indexes, j < i
        PROVE  u.Indexes[j].Name \in Names(w.Indexes)
    <3>1. /\ j \in 1..(i - 1)
          /\ i \in Int
          /\ \A k \in 1..(i - 1) : u.Indexes[k] \in Indexes
      BY <2>3, <1>2, <1>4, ElementOfSeq, LenProperties
    <3> HIDE DEF u, w
    <3>2. /\ SubSeq(u.Indexes, 1, i - 1) \in Seq(Indexes)
          /\ Len(SubSeq(u.Indexes, 1, i - 1)) =
                 IF 1 <= i - 1 THEN (i - 1) - 1 + 1 ELSE 0
          /\ \A k \in 1..((i - 1) - 1 + 1) :
                 SubSeq(u.Indexes, 1, i - 1)[k] = u.Indexes[1 + k - 1]
      BY <3>1, SubSeqProperties
    <3>3. DOMAIN w.Indexes = 1..(i - 1) /\ w.Indexes[j] = u.Indexes[j]
      BY <2>2, <3>1, <3>2, LenProperties
    <3> QED BY <3>1, <3>3 DEF Names
  <2> HIDE DEF w
  <2>4. validateTableIndex(u, u.Indexes[i])
    BY <2>1, <2>2, <1>4 DEF AcceptsIndex, validateTableIndex
  <2>5. u.Indexes[i].Name \notin Names(w.Indexes)
    BY <2>1, <1>4 DEF AcceptsIndex
  <2> QED BY <2>3, <2>4, <2>5
<1> HIDE DEF u
<1>8. NamesDistinct(u.Indexes)
  BY <1>2, <1>4, <1>7 DEF NamesDistinct
<1>9. NamesDistinct(u.Columns) /\ Names(u.Columns) = Names(create.Columns)
  BY <1>3 DEF NamesDistinct, Names, catalogTableAccepts
<1>10. ReferencesResolveIn(u)
  BY <1>4, <1>5, <1>7, <1>8, <1>9 DEF ReferencesResolveIn, catalogTableAccepts
<1>11. SerialInKeyIn(u) /\ ColumnsOwnedIn(u)
  BY <1>3, <1>5 DEF SerialInKeyIn, ColumnsOwnedIn, catalogTableAccepts
<1> QED BY <1>5, <1>6, <1>10, <1>11 DEF WellFormedTable, u

-----------------------------------------------------------------------------
(***************************************************************************)
(* The inductive invariant.  The catalog invariants alone are not           *)
(* inductive: a Commit installs the working copy, so the copy must be well  *)
(* formed and must still carry the name of the table it replaces.           *)
(***************************************************************************)
CatalogInv ==
    /\ TypeOK
    /\ UniqueTables
    /\ \A i \in DOMAIN tables : WellFormedTable(tables[i])
    /\ target # 0 => /\ left > 0
                     /\ working \in Tables
                     /\ WellFormedTable(working)
                     /\ working.Name = tables[target].Name

\* A skipped or refused statement keeps the invariant.
LEMMA FinishKeepsInv ==
    ASSUME CatalogInv, NEW result \in {"skipped", "diagnosed"}, Finish(result)
    PROVE  CatalogInv'
<1>1. TypeOK'
  BY LenProperties, InputAssumption DEF CatalogInv, TypeOK, Finish, Outcomes
<1> QED BY <1>1 DEF CatalogInv, Finish, UniqueTables

\* A statement that replaces, appends or removes a table between ALTERs.
LEMMA NewTablesKeepInv ==
    ASSUME CatalogInv, target = 0, UNCHANGED <<target, left, working>>,
           outcome' = "applied",
           tables' \in Seq(Tables), NamesDistinct(tables'),
           \A i \in DOMAIN tables' : WellFormedTable(tables'[i])
    PROVE  CatalogInv'
BY LenProperties DEF CatalogInv, TypeOK, Outcomes, UniqueTables

\* Replacing a table by a well-formed one whose name no other table has.
LEMMA ReplaceTable ==
    ASSUME CatalogInv, NEW at \in DOMAIN tables, NEW t \in Tables,
           WellFormedTable(t),
           \A i \in DOMAIN tables : tables[i].Name = t.Name => i = at
    PROVE  LET new == [tables EXCEPT ![at] = t]
           IN  /\ new \in Seq(Tables)
               /\ Len(new) = Len(tables)
               /\ NamesDistinct(new)
               /\ \A i \in DOMAIN new : WellFormedTable(new[i])
<1> DEFINE new == [tables EXCEPT ![at] = t]
<1>1. tables \in Seq(Tables) /\ DOMAIN tables = 1..Len(tables)
  BY LenProperties DEF CatalogInv, TypeOK
<1>2. /\ new \in Seq(Tables)
      /\ Len(new) = Len(tables)
      /\ \A i \in DOMAIN tables : new[i] = IF i = at THEN t ELSE tables[i]
  BY <1>1, ExceptSeq
<1>3. DOMAIN new = DOMAIN tables
  BY <1>1
<1> HIDE DEF new
<1>4. NamesDistinct(new)
  BY <1>2, <1>3 DEF NamesDistinct, CatalogInv, UniqueTables
<1>5. \A i \in DOMAIN new : WellFormedTable(new[i])
  BY <1>2, <1>3 DEF CatalogInv
<1> QED BY <1>2, <1>4, <1>5 DEF new

\* An action that edits the copy, or commits it, keeps the invariant.
LEMMA ProceedKeepsInv ==
    ASSUME CatalogInv, target # 0, NEW edited \in Tables,
           WellFormedTable(edited), edited.Name = working.Name, Proceed(edited)
    PROVE  CatalogInv'
<1>1. CASE Advance(edited)
  BY <1>1, InputAssumption DEF Advance, CatalogInv, TypeOK, UniqueTables
<1>2. CASE Commit(edited)
  <2>1. /\ target \in DOMAIN tables
        /\ \A i \in DOMAIN tables : tables[i].Name = edited.Name => i = target
    BY LenProperties DEF CatalogInv, TypeOK, UniqueTables, NamesDistinct
  <2>2. /\ tables' \in Seq(Tables)
        /\ Len(tables') = Len(tables)
        /\ NamesDistinct(tables')
        /\ \A i \in DOMAIN tables' : WellFormedTable(tables'[i])
    BY <1>2, <2>1, ReplaceTable DEF Commit
  <2> QED BY <1>2, <2>2, LenProperties, InputAssumption
          DEF Commit, CatalogInv, TypeOK, Outcomes, UniqueTables
<1> QED BY <1>1, <1>2 DEF Proceed

\* The empty catalog satisfies the invariant.
LEMMA InitInv == Init => CatalogInv
BY InputAssumption
   DEF Init, CatalogInv, TypeOK, Outcomes, UniqueTables, NamesDistinct

\* Every statement and every action keeps the invariant.
LEMMA NextInv == CatalogInv /\ [Next]_vars => CatalogInv'
<1> SUFFICES ASSUME CatalogInv, [Next]_vars PROVE CatalogInv'
  OBVIOUS
<1> USE DEF CatalogInv
<1>1. ASSUME NEW create \in CreateStatements, applyCreateTable(create)
      PROVE  CatalogInv'
  <2>1. create \in CreateStatement
    BY InputAssumption
  <2>2. CASE Finish("skipped") \/ Finish("diagnosed")
    BY <2>2, FinishKeepsInv
  <2>3. CASE /\ create.Name \notin Names(tables)
             /\ catalogTableAccepts(create)
             /\ tables' = Append(tables, DeclaredTable(create))
             /\ outcome' = "applied"
             /\ UNCHANGED <<target, left, working>>
    <3> DEFINE u == DeclaredTable(create)
    <3>1. u \in Tables /\ WellFormedTable(u) /\ u.Name = create.Name
      BY <2>1, <2>3, DeclaredTableWellFormed
    <3> HIDE DEF u
    <3>2. tables \in Seq(Tables) /\ NamesDistinct(tables)
      BY DEF TypeOK, UniqueTables
    <3>3. Append(tables, u) \in Seq(Tables) /\ NamesDistinct(Append(tables, u))
      BY <2>3, <3>1, <3>2, NamesOfAppend
    <3>4. \A i \in DOMAIN Append(tables, u) : WellFormedTable(Append(tables, u)[i])
      <4>1. \A i \in DOMAIN Append(tables, u) :
                \/ Append(tables, u)[i] = u
                \/ \E j \in DOMAIN tables : Append(tables, u)[i] = tables[j]
        BY <3>1, <3>2, AppendProperties, LenProperties
      <4> QED BY <3>1, <4>1
    <3>5. tables' = Append(tables, u)
      BY <2>3 DEF u
    <3>6. target = 0
      BY <1>1 DEF applyCreateTable
    <3> QED BY <2>3, <3>3, <3>4, <3>5, <3>6, NewTablesKeepInv
  <2> QED BY <1>1, <2>2, <2>3 DEF applyCreateTable
<1>2. ASSUME NEW name \in TableNames, NEW ifExists \in BOOLEAN,
             applyDropTable(name, ifExists)
      PROVE  CatalogInv'
  <2>1. CASE Finish("skipped") \/ Finish("diagnosed")
    BY <2>1, FinishKeepsInv
  <2>2. CASE /\ name \in Names(tables)
             /\ tables' = RemoveAt(tables, catalogTableIndex(name))
             /\ outcome' = "applied"
             /\ UNCHANGED <<target, left, working>>
    <3> DEFINE at == catalogTableIndex(name)
    <3>1. tables \in Seq(Tables) /\ NamesDistinct(tables)
      BY DEF TypeOK, UniqueTables
    <3>2. at \in DOMAIN tables
      BY <2>2, <3>1, PositionFacts DEF catalogTableIndex
    <3> HIDE DEF at
    <3>3. /\ RemoveAt(tables, at) \in Seq(Tables)
          /\ NamesDistinct(RemoveAt(tables, at))
          /\ \A i \in DOMAIN RemoveAt(tables, at) :
                 \E j \in DOMAIN tables : RemoveAt(tables, at)[i] = tables[j]
      BY <3>1, <3>2, NamesOfRemoveAt
    <3>4. tables' = RemoveAt(tables, at)
      BY <2>2 DEF at
    <3>5. \A i \in DOMAIN tables' : WellFormedTable(tables'[i])
      BY <3>3, <3>4
    <3>6. target = 0
      BY <1>2 DEF applyDropTable
    <3> QED BY <2>2, <3>3, <3>4, <3>5, <3>6, NewTablesKeepInv
  <2> QED BY <1>2, <2>1, <2>2 DEF applyDropTable
<1>3. ASSUME NEW name \in TableNames, NEW actions \in 1..MaxActions,
             applyAlterTable(name, actions)
      PROVE  CatalogInv'
  <2>1. CASE Finish("diagnosed")
    BY <2>1, FinishKeepsInv
  <2>2. CASE /\ name \in Names(tables)
             /\ target' = catalogTableIndex(name)
             /\ left' = actions
             /\ working' = tables[catalogTableIndex(name)]
             /\ outcome' = "pending"
             /\ UNCHANGED tables
    <3>1. tables \in Seq(Tables)
      BY DEF TypeOK
    <3>2. catalogTableIndex(name) \in DOMAIN tables
      BY <2>2, <3>1, PositionFacts DEF catalogTableIndex
    <3>3. target' \in 1..Len(tables) /\ working' = tables[target']
      BY <2>2, <3>1, <3>2, LenProperties
    <3>4. working' \in Tables /\ WellFormedTable(working')
      BY <3>1, <3>3, ElementOfSeq, LenProperties
    <3>5. TypeOK'
      BY <2>2, <3>1, <3>3, <3>4, LenProperties, InputAssumption
         DEF TypeOK, Outcomes
    <3>6. left' > 0
      BY <2>2, InputAssumption
    <3> QED BY <2>2, <3>3, <3>4, <3>5, <3>6 DEF UniqueTables
  <2> QED BY <1>3, <2>1, <2>2 DEF applyAlterTable
<1>4. ASSUME NEW name \in TableNames, NEW newName \in TableNames,
             RenameTable(name, newName)
      PROVE  CatalogInv'
  <2> DEFINE at == catalogTableIndex(name)
  <2>1. CASE Finish("diagnosed")
    BY <2>1, FinishKeepsInv
  <2>2. CASE /\ name \in Names(tables)
             /\ newName \in Names(tables) => catalogTableIndex(newName) = at
             /\ tables' = [tables EXCEPT ![at] = RenamedTable(@, newName)]
             /\ outcome' = "applied"
             /\ UNCHANGED <<target, left, working>>
    <3>1. tables \in Seq(Tables) /\ NamesDistinct(tables)
      BY DEF TypeOK, UniqueTables
    <3>2. at \in DOMAIN tables
      BY <2>2, <3>1, PositionFacts DEF catalogTableIndex
    <3>3. \A i \in DOMAIN tables : tables[i].Name = newName => i = at
      <4> TAKE i \in DOMAIN tables
      <4> HAVE tables[i].Name = newName
      <4>1. newName \in Names(tables)
        BY DEF Names
      <4>2. /\ catalogTableIndex(newName) \in DOMAIN tables
            /\ tables[catalogTableIndex(newName)].Name = newName
        BY <3>1, <4>1, PositionFacts DEF catalogTableIndex
      <4>3. catalogTableIndex(newName) = i
        BY <3>1, <4>2 DEF NamesDistinct
      <4> QED BY <2>2, <4>1, <4>3
    <3> HIDE DEF at
    <3> DEFINE u == RenamedTable(tables[at], newName)
    <3>4. tables[at] \in Tables /\ WellFormedTable(tables[at])
      BY <3>1, <3>2, ElementOfSeq, LenProperties
    <3>5. u \in Tables /\ WellFormedTable(u) /\ u.Name = newName
      BY <3>4, RenameKeepsTable
    <3>6. tables' = [tables EXCEPT ![at] = u]
      BY <2>2
    <3> HIDE DEF u
    <3>7. /\ tables' \in Seq(Tables)
          /\ NamesDistinct(tables')
          /\ \A i \in DOMAIN tables' : WellFormedTable(tables'[i])
      <4> HIDE DEF CatalogInv
      <4> QED BY <3>2, <3>3, <3>5, <3>6, ReplaceTable
    <3>8. target = 0
      BY <1>4 DEF RenameTable
    <3> QED BY <2>2, <3>7, <3>8, NewTablesKeepInv
  <2> QED BY <1>4, <2>1, <2>2 DEF RenameTable
<1>5. ASSUME NEW decl \in IndexDecls, AddIndex(decl)
      PROVE  CatalogInv'
  <2>1. target # 0 /\ decl \in IndexDecl
    BY <1>5, InputAssumption DEF AddIndex
  <2>2. CASE Finish("diagnosed")
    BY <2>2, FinishKeepsInv
  <2>3. CASE /\ AcceptsIndex(working, decl)
             /\ Proceed([working EXCEPT !.Indexes = Append(@, decl.Index)])
    <3> DEFINE u == [working EXCEPT !.Indexes = Append(@, decl.Index)]
    <3>1. u \in Tables /\ WellFormedTable(u) /\ u.Name = working.Name
      BY <2>1, <2>3, AddIndexKeepsTable
    <3> QED BY <2>1, <2>3, <3>1, ProceedKeepsInv
  <2> QED BY <1>5, <2>2, <2>3 DEF AddIndex
<1>6. ASSUME NEW name \in IndexNames, DropIndex(name)
      PROVE  CatalogInv'
  <2>1. target # 0
    BY <1>6 DEF DropIndex
  <2>2. CASE Finish("diagnosed")
    BY <2>2, FinishKeepsInv
  <2>3. CASE /\ name \in Names(working.Indexes)
             /\ Proceed([working EXCEPT !.Indexes =
                             RemoveAt(@, catalogIndexPosition(working, name))])
    <3> DEFINE u == [working EXCEPT !.Indexes =
                        RemoveAt(@, catalogIndexPosition(working, name))]
    <3>1. u \in Tables /\ WellFormedTable(u) /\ u.Name = working.Name
      BY <2>1, <2>3, DropIndexKeepsTable
    <3> QED BY <2>1, <2>3, <3>1, ProceedKeepsInv
  <2> QED BY <1>6, <2>2, <2>3 DEF DropIndex
<1>7. ASSUME NEW decl \in ColumnDecls, AddColumn(decl)
      PROVE  CatalogInv'
  <2>1. target # 0 /\ decl \in ColumnDecl
    BY <1>7, InputAssumption DEF AddColumn
  <2>2. CASE Finish("diagnosed")
    BY <2>2, FinishKeepsInv
  <2>3. CASE /\ decl.Kind = "plain"
             /\ decl.Name \notin Names(working.Columns)
             /\ Proceed([working EXCEPT !.Columns =
                             Append(@, catalogColumn(working.Name, decl))])
    <3> DEFINE u == [working EXCEPT !.Columns =
                        Append(@, catalogColumn(working.Name, decl))]
    <3>1. u \in Tables /\ WellFormedTable(u) /\ u.Name = working.Name
      BY <2>1, <2>3, AddColumnKeepsTable
    <3> QED BY <2>1, <2>3, <3>1, ProceedKeepsInv
  <2> QED BY <1>7, <2>2, <2>3 DEF AddColumn
<1>8. ASSUME NEW name \in ColumnNames, DropColumn(name)
      PROVE  CatalogInv'
  <2>1. target # 0
    BY <1>8 DEF DropColumn
  <2>2. CASE Finish("diagnosed")
    BY <2>2, FinishKeepsInv
  <2>3. CASE /\ DropColumnAccepts(name)
             /\ Proceed([working EXCEPT !.Columns =
                             RemoveAt(@, catalogColumnIndex(working, name))])
    <3> DEFINE u == [working EXCEPT !.Columns =
                        RemoveAt(@, catalogColumnIndex(working, name))]
    <3>1. u \in Tables /\ WellFormedTable(u) /\ u.Name = working.Name
      BY <2>1, <2>3, DropColumnKeepsTable DEF DropColumnAccepts
    <3> QED BY <2>1, <2>3, <3>1, ProceedKeepsInv
  <2> QED BY <1>8, <2>2, <2>3 DEF DropColumn
<1>9. ASSUME NEW name \in ColumnNames, DropNotNull(name)
      PROVE  CatalogInv'
  <2> DEFINE at == catalogColumnIndex(working, name)
             type == IF IsOptional(working.Columns[at].Type)
                     THEN working.Columns[at].Type
                     ELSE Optional(working.Columns[at].Type)
  <2>1. target # 0
    BY <1>9 DEF DropNotNull
  <2>2. CASE Finish("diagnosed")
    BY <2>2, FinishKeepsInv
  <2>3. CASE /\ name \in Names(working.Columns)
             /\ Proceed([working EXCEPT !.Columns[at].Type = type])
    <3>1. working.Columns \in Seq(Columns)
      BY <2>1 DEF Tables
    <3>2. at \in DOMAIN working.Columns
      BY <2>3, <3>1, PositionFacts DEF catalogColumnIndex
    <3>3. working.Columns[at] \in Columns
      BY <3>1, <3>2, ElementOfSeq, LenProperties
    <3> HIDE DEF at
    <3>4. type \in Types
      BY <3>3 DEF Columns, Types, IsOptional, Optional
    <3> HIDE DEF type
    <3> DEFINE u == [working EXCEPT !.Columns[at].Type = type]
    <3>5. u \in Tables /\ WellFormedTable(u) /\ u.Name = working.Name
      BY <2>1, <3>2, <3>4, DropNotNullKeepsTable
    <3> QED BY <2>1, <2>3, <3>5, ProceedKeepsInv
  <2> QED BY <1>9, <2>2, <2>3 DEF DropNotNull
<1>10. CASE UnsupportedAction \/ RefuseStatement
  BY <1>10, FinishKeepsInv DEF UnsupportedAction, RefuseStatement
<1>11. CASE UNCHANGED vars
  BY <1>11 DEF vars, TypeOK, UniqueTables
<1> HIDE DEF CatalogInv
<1> QED BY <1>1, <1>2, <1>3, <1>4, <1>5, <1>6, <1>7, <1>8, <1>9, <1>10, <1>11
        DEF Next

\* The invariant holds in every reachable state.
LEMMA InvAlways == Spec => []CatalogInv
BY InitInv, NextInv, PTL DEF Spec

\* The catalog keeps its shape through every statement of every input.
THEOREM TypeCorrect == Spec => []TypeOK
<1>1. CatalogInv => TypeOK
  BY DEF CatalogInv
<1> QED BY <1>1, InvAlways, PTL

\* No input leaves two tables under one name (applyCreateTable and RENAME TO
\* check the name separately), so a lookup by name is unambiguous.
THEOREM TablesStayUnique == Spec => []UniqueTables
<1>1. CatalogInv => UniqueTables
  BY DEF CatalogInv
<1> QED BY <1>1, InvAlways, PTL

\* For every input, primary keys and indexes refer to existing columns: what
\* DROP COLUMN refuses is exactly what CREATE TABLE and ADD INDEX require.
THEOREM ReferencesAlwaysResolve == Spec => []ReferencesResolve
<1>1. CatalogInv => ReferencesResolve
  BY DEF CatalogInv, WellFormedTable, ReferencesResolve
<1> QED BY <1>1, InvAlways, PTL

\* For every input, a sequence-generated column is in the primary key, also
\* after ADD COLUMN and DROP COLUMN.
THEOREM SerialColumnsStayInKey == Spec => []SerialInKey
<1>1. CatalogInv => SerialInKey
  BY DEF CatalogInv, WellFormedTable, SerialInKey
<1> QED BY <1>1, InvAlways, PTL

\* For every input, Column.Table is the table that holds the column, also
\* after ADD COLUMN to a renamed table.
THEOREM ColumnsStayOwned == Spec => []ColumnsOwned
<1>1. CatalogInv => ColumnsOwned
  BY DEF CatalogInv, WellFormedTable, ColumnsOwned
<1> QED BY <1>1, InvAlways, PTL

\* For every input, only a statement that completes without a diagnostic
\* changes the catalog: an ALTER TABLE that fails at a later action leaves
\* nothing of its earlier actions behind.
THEOREM StatementsAreAtomic == Spec => AtomicStatements
<1>1. [Next]_vars => [tables' # tables => outcome' = "applied"]_vars
  BY DEF Next, vars, applyCreateTable, applyDropTable, applyAlterTable,
         RenameTable, AddIndex, DropIndex, AddColumn, DropColumn, DropNotNull,
         UnsupportedAction, RefuseStatement, Finish, Proceed, Advance, Commit
<1> QED BY <1>1, PTL DEF Spec, AtomicStatements

-----------------------------------------------------------------------------
(***************************************************************************)
(* What a reader of the catalog may rely on is Schema, whatever the catalog *)
(* does with slices, positions and half-done ALTER TABLEs.  The consistency *)
(* invariant says which tables the catalog can hold; it does not say how    *)
(* the copy that a running ALTER TABLE edits relates to the table it will   *)
(* replace.  EditInv adds that.                                             *)
(***************************************************************************)

(***************************************************************************)
(* The refinement mapping as a function of the catalog's slice of tables.   *)
(***************************************************************************)
SchemaOf(seq) ==
    [n \in Names(seq) |-> AbstractTable(seq[Position(seq, n)])]

\* Among distinct names a lookup finds the position it was given the name of.
LEMMA PositionIsUnique ==
    ASSUME NEW S, NEW s \in Seq(S), NamesDistinct(s), NEW i \in DOMAIN s
    PROVE  Position(s, s[i].Name) = i
<1>1. s[i].Name \in Names(s)
  BY DEF Names
<1>2. /\ Position(s, s[i].Name) \in DOMAIN s
      /\ s[Position(s, s[i].Name)].Name = s[i].Name
  BY <1>1, PositionFacts
<1> QED BY <1>2 DEF NamesDistinct

\* The abstract schema of a slice maps the name of each table to the table.
LEMMA SchemaOfFacts ==
    ASSUME NEW s \in Seq(Tables), NamesDistinct(s)
    PROVE  /\ DOMAIN SchemaOf(s) = Names(s)
           /\ \A i \in DOMAIN s :
                  SchemaOf(s)[s[i].Name] = AbstractTable(s[i])
<1>1. ASSUME NEW i \in DOMAIN s
      PROVE  SchemaOf(s)[s[i].Name] = AbstractTable(s[i])
  <2>1. s[i].Name \in Names(s) /\ Position(s, s[i].Name) = i
    BY PositionIsUnique DEF Names
  <2> HIDE DEF NamesDistinct
  <2> QED BY <2>1 DEF SchemaOf
<1> QED BY <1>1 DEF SchemaOf

\* A slice that still holds a table still maps its name to it.
LEMMA SchemaOfKept ==
    ASSUME NEW s \in Seq(Tables), NamesDistinct(s),
           NEW u \in Seq(Tables), NamesDistinct(u),
           NEW i \in DOMAIN s, NEW k \in DOMAIN u, u[k] = s[i]
    PROVE  /\ s[i].Name \in DOMAIN SchemaOf(u)
           /\ SchemaOf(u)[s[i].Name] = SchemaOf(s)[s[i].Name]
<1>1. /\ SchemaOf(s)[s[i].Name] = AbstractTable(s[i])
      /\ SchemaOf(u)[u[k].Name] = AbstractTable(u[k])
      /\ DOMAIN SchemaOf(u) = Names(u)
  BY SchemaOfFacts
<1> QED BY <1>1 DEF Names

-----------------------------------------------------------------------------
(***************************************************************************)
(* Tables.                                                                  *)
(***************************************************************************)

\* The abstract columns of a table: one per column name.
LEMMA AbstractColumns ==
    ASSUME NEW t \in Tables, WellFormedTable(t)
    PROVE  /\ DOMAIN AbstractTable(t).columns = Names(t.Columns)
           /\ \A i \in DOMAIN t.Columns :
                  AbstractTable(t).columns[t.Columns[i].Name]
                      = AbstractColumn(t.Columns[i])
           /\ AbstractTable(t).key = t.PrimaryKey
<1>1. t.Columns \in Seq(Columns) /\ NamesDistinct(t.Columns)
  BY DEF Tables, WellFormedTable, ReferencesResolveIn
<1>2. ASSUME NEW i \in DOMAIN t.Columns
      PROVE  AbstractTable(t).columns[t.Columns[i].Name]
                 = AbstractColumn(t.Columns[i])
  <2>1. t.Columns[i].Name \in Names(t.Columns)
    BY DEF Names
  <2>2. catalogColumnIndex(t, t.Columns[i].Name) = i
    BY <1>1, PositionIsUnique DEF catalogColumnIndex
  <2> QED BY <2>1, <2>2 DEF AbstractTable
<1> QED BY <1>2 DEF AbstractTable

\* What the catalog calls a well-formed table is one for the abstract schema.
LEMMA AbstractWellFormed ==
    ASSUME NEW t \in Tables, WellFormedTable(t)
    PROVE  Abstract!WellFormed(AbstractTable(t))
<1> DEFINE a == AbstractTable(t)
<1>1. /\ DOMAIN a.columns = Names(t.Columns)
      /\ \A i \in DOMAIN t.Columns :
             a.columns[t.Columns[i].Name] = AbstractColumn(t.Columns[i])
      /\ a.key = t.PrimaryKey
  BY AbstractColumns
<1>2. a.indexes = {AbstractIndex(t.Indexes[i]) : i \in DOMAIN t.Indexes}
  BY DEF AbstractTable
<1> HIDE DEF a
<1>3. Range(a.key) \subseteq DOMAIN a.columns
  BY <1>1 DEF WellFormedTable, ReferencesResolveIn
<1>4. ASSUME NEW c \in DOMAIN a.columns, a.columns[c].serial
      PROVE  c \in Range(a.key)
  <2>1. PICK i \in DOMAIN t.Columns : c = t.Columns[i].Name
    BY <1>1 DEF Names
  <2>2. a.columns[c] = AbstractColumn(t.Columns[i])
    BY <1>1, <2>1
  <2>3. a.columns[c].serial = t.Columns[i].SequenceGenerated
    BY <2>2 DEF AbstractColumn
  <2>4. t.Columns[i].SequenceGenerated
    BY <1>4, <2>3, Zenon
  <2> QED BY <1>1, <2>1, <2>4 DEF WellFormedTable, SerialInKeyIn
<1>5. ASSUME NEW x \in a.indexes
      PROVE  /\ x.columns \cup x.cover \subseteq DOMAIN a.columns
             /\ x.cover \cap (x.columns \cup Range(a.key)) = {}
  <2>1. PICK i \in DOMAIN t.Indexes : x = AbstractIndex(t.Indexes[i])
    BY <1>2
  <2>2. /\ x.columns = Range(t.Indexes[i].Columns)
        /\ x.cover = Range(t.Indexes[i].DataColumns)
    BY <2>1 DEF AbstractIndex
  <2>3. validateTableIndex(t, t.Indexes[i])
    BY DEF WellFormedTable, ReferencesResolveIn
  <2> QED BY <1>1, <2>2, <2>3 DEF validateTableIndex
<1>6. ASSUME NEW x \in a.indexes, NEW y \in a.indexes, x.name = y.name
      PROVE  x = y
  <2>1. PICK i \in DOMAIN t.Indexes : x = AbstractIndex(t.Indexes[i])
    BY <1>2
  <2>2. PICK j \in DOMAIN t.Indexes : y = AbstractIndex(t.Indexes[j])
    BY <1>2
  <2>3. t.Indexes[i].Name = t.Indexes[j].Name
    BY <1>6, <2>1, <2>2 DEF AbstractIndex
  <2>4. i = j
    BY <2>3 DEF WellFormedTable, ReferencesResolveIn, NamesDistinct
  <2> QED BY <2>1, <2>2, <2>4
<1>7. Abstract!WellFormed(a)
  BY <1>3, <1>4, <1>5, <1>6
     DEF Abstract!WellFormed, Abstract!KeyColumns, Abstract!Range, Range
<1> QED BY <1>7 DEF a

(***************************************************************************)
(* What the actions of an ALTER TABLE may do to a table: u keeps the        *)
(* primary key of t, and every key column of t with its type and sequence.  *)
(***************************************************************************)
SameKeyColumn(c, d) ==
    /\ d.Name = c.Name
    /\ d.Type.Base = c.Type.Base
    /\ d.SequenceGenerated = c.SequenceGenerated
    /\ IsOptional(c.Type) => IsOptional(d.Type)

Edited(t, u) ==
    /\ u.PrimaryKey = t.PrimaryKey
    /\ \A i \in DOMAIN t.Columns :
           t.Columns[i].Name \in Range(t.PrimaryKey)
               => \E j \in DOMAIN u.Columns :
                      SameKeyColumn(t.Columns[i], u.Columns[j])

\* An ALTER TABLE without actions done yet.
LEMMA EditedReflexive == ASSUME NEW t PROVE Edited(t, t)
BY DEF Edited, SameKeyColumn

\* One more action.
LEMMA EditedTransitive ==
    ASSUME NEW t, NEW u, NEW v, Edited(t, u), Edited(u, v)
    PROVE  Edited(t, v)
<1>1. v.PrimaryKey = t.PrimaryKey
  BY DEF Edited
<1>2. ASSUME NEW i \in DOMAIN t.Columns,
             t.Columns[i].Name \in Range(t.PrimaryKey)
      PROVE  \E k \in DOMAIN v.Columns :
                 SameKeyColumn(t.Columns[i], v.Columns[k])
  <2>1. PICK j \in DOMAIN u.Columns : SameKeyColumn(t.Columns[i], u.Columns[j])
    BY <1>2 DEF Edited
  <2>2. u.Columns[j].Name \in Range(u.PrimaryKey)
    BY <1>2, <2>1 DEF Edited, SameKeyColumn
  <2>3. PICK k \in DOMAIN v.Columns : SameKeyColumn(u.Columns[j], v.Columns[k])
    BY <2>2 DEF Edited
  <2> QED BY <2>1, <2>3 DEF SameKeyColumn
<1> QED BY <1>1, <1>2 DEF Edited

\* A table edited this way keeps its key in the abstract schema.
LEMMA EditedPreservesKey ==
    ASSUME NEW t \in Tables, WellFormedTable(t),
           NEW u \in Tables, WellFormedTable(u), Edited(t, u)
    PROVE  Abstract!KeyPreserved(AbstractTable(t), AbstractTable(u))
<1> DEFINE a == AbstractTable(t)
           b == AbstractTable(u)
<1>1. /\ \A i \in DOMAIN t.Columns :
             a.columns[t.Columns[i].Name] = AbstractColumn(t.Columns[i])
      /\ a.key = t.PrimaryKey
  BY AbstractColumns
<1>2. /\ \A i \in DOMAIN u.Columns :
             b.columns[u.Columns[i].Name] = AbstractColumn(u.Columns[i])
      /\ b.key = u.PrimaryKey
  BY AbstractColumns
<1> HIDE DEF a, b
<1>3. ASSUME NEW c \in Range(a.key)
      PROVE  /\ b.columns[c].base = a.columns[c].base
             /\ b.columns[c].serial = a.columns[c].serial
             /\ a.columns[c].nullable => b.columns[c].nullable
  <2>1. PICK i \in DOMAIN t.Columns : c = t.Columns[i].Name
    BY <1>1 DEF WellFormedTable, ReferencesResolveIn, Names
  <2>2. PICK j \in DOMAIN u.Columns : SameKeyColumn(t.Columns[i], u.Columns[j])
    BY <1>1, <1>3, <2>1 DEF Edited
  <2>3. /\ a.columns[c] = AbstractColumn(t.Columns[i])
        /\ b.columns[c] = AbstractColumn(u.Columns[j])
    BY <1>1, <1>2, <2>1, <2>2 DEF SameKeyColumn
  <2> QED BY <2>2, <2>3 DEF SameKeyColumn, AbstractColumn
<1>4. b.key = a.key
  BY <1>1, <1>2 DEF Edited
<1>5. Abstract!KeyPreserved(a, b)
  BY <1>3, <1>4
     DEF Abstract!KeyPreserved, Abstract!KeyColumns, Abstract!Range, Range
<1> QED BY <1>5 DEF a, b

\* ADD INDEX and DROP INDEX leave the columns and the key alone.
LEMMA IndexActionsEdit ==
    ASSUME NEW t \in Tables, NEW indexes
    PROVE  Edited(t, [t EXCEPT !.Indexes = indexes])
BY DEF Edited, SameKeyColumn, Tables

\* ADD COLUMN appends.
LEMMA AddColumnEdits ==
    ASSUME NEW t \in Tables, NEW column \in Columns
    PROVE  Edited(t, [t EXCEPT !.Columns = Append(@, column)])
<1> DEFINE added == Append(t.Columns, column)
           u == [t EXCEPT !.Columns = added]
<1>1. t.Columns \in Seq(Columns)
  BY DEF Tables
<1>2. \A i \in DOMAIN t.Columns : i \in DOMAIN added /\ added[i] = t.Columns[i]
  BY <1>1, AppendProperties, LenProperties
<1> HIDE DEF added
<1>3. u.Columns = added /\ u.PrimaryKey = t.PrimaryKey
  BY DEF Tables
<1> HIDE DEF u
<1>4. Edited(t, u)
  BY <1>2, <1>3 DEF Edited, SameKeyColumn
<1> QED BY <1>4 DEF u, added

\* DROP COLUMN removes a column outside the primary key.
LEMMA DropColumnEdits ==
    ASSUME NEW t \in Tables, WellFormedTable(t),
           NEW name \in Names(t.Columns), name \notin Range(t.PrimaryKey)
    PROVE  Edited(t, [t EXCEPT
                         !.Columns = RemoveAt(@, catalogColumnIndex(t, name))])
<1> DEFINE at == catalogColumnIndex(t, name)
           rest == RemoveAt(t.Columns, at)
           u == [t EXCEPT !.Columns = rest]
<1>1. t.Columns \in Seq(Columns) /\ NamesDistinct(t.Columns)
  BY DEF Tables, WellFormedTable, ReferencesResolveIn
<1>2. at \in DOMAIN t.Columns /\ t.Columns[at].Name = name
  BY <1>1, PositionFacts DEF catalogColumnIndex
<1> HIDE DEF at
<1>3. /\ Names(rest) = Names(t.Columns) \ {name}
      /\ \A k \in DOMAIN rest : \E j \in DOMAIN t.Columns : rest[k] = t.Columns[j]
  BY <1>1, <1>2, NamesOfRemoveAt
<1> HIDE DEF rest
<1>4. u.Columns = rest /\ u.PrimaryKey = t.PrimaryKey
  BY DEF Tables
<1> HIDE DEF u
<1>5. ASSUME NEW i \in DOMAIN t.Columns,
             t.Columns[i].Name \in Range(t.PrimaryKey)
      PROVE  \E k \in DOMAIN rest : SameKeyColumn(t.Columns[i], rest[k])
  <2>1. t.Columns[i].Name \in Names(rest)
    BY <1>3, <1>5 DEF Names
  <2>2. PICK k \in DOMAIN rest : rest[k].Name = t.Columns[i].Name
    BY <2>1 DEF Names
  <2>3. PICK j \in DOMAIN t.Columns : rest[k] = t.Columns[j]
    BY <1>3
  <2>4. rest[k] = t.Columns[i]
    BY <1>1, <2>2, <2>3 DEF NamesDistinct
  <2> QED BY <2>4 DEF SameKeyColumn
<1>6. Edited(t, u)
  BY <1>4, <1>5 DEF Edited
<1> QED BY <1>6 DEF u, rest, at

\* DROP NOT NULL widens one column, which may be a key column.
LEMMA DropNotNullEdits ==
    ASSUME NEW t \in Tables, NEW at \in DOMAIN t.Columns, NEW type \in Types,
           type.Base = t.Columns[at].Type.Base, IsOptional(type)
    PROVE  Edited(t, [t EXCEPT !.Columns[at].Type = type])
<1> DEFINE column == [t.Columns[at] EXCEPT !.Type = type]
           columns == [t.Columns EXCEPT ![at] = column]
           u == [t EXCEPT !.Columns = columns]
<1>1. t.Columns \in Seq(Columns) /\ t.Columns[at] \in Columns
  <2>1. t.Columns \in Seq(Columns)
    BY DEF Tables
  <2> QED BY <2>1, ElementOfSeq, LenProperties
<1>2. SameKeyColumn(t.Columns[at], column)
  BY <1>1 DEF SameKeyColumn, Columns
<1>3. /\ DOMAIN columns = DOMAIN t.Columns
      /\ \A k \in DOMAIN t.Columns :
             columns[k] = IF k = at THEN column ELSE t.Columns[k]
  <2> HIDE DEF column
  <2> QED OBVIOUS
<1>4. [t EXCEPT !.Columns[at].Type = type] = u
  BY <1>1 DEF u, columns, column, Tables
<1>5. u.Columns = columns /\ u.PrimaryKey = t.PrimaryKey
  BY DEF Tables
<1> HIDE DEF u, columns, column
<1>6. \A i \in DOMAIN t.Columns : SameKeyColumn(t.Columns[i], columns[i])
  <2> TAKE i \in DOMAIN t.Columns
  <2>1. CASE i = at
    BY <1>2, <1>3, <2>1
  <2>2. CASE i # at
    BY <1>3, <2>2 DEF SameKeyColumn
  <2> QED BY <2>1, <2>2
<1> QED BY <1>3, <1>4, <1>5, <1>6 DEF Edited

\* RENAME TO changes what the abstract schema calls a table, not the table.
LEMMA RenameKeepsAbstractTable ==
    ASSUME NEW t \in Tables, WellFormedTable(t), NEW newName \in TableNames
    PROVE  AbstractTable(RenamedTable(t, newName)) = AbstractTable(t)
<1> DEFINE u == RenamedTable(t, newName)
           a == AbstractTable(t)
           b == AbstractTable(u)
<1>1. /\ t.Columns \in Seq(Columns)
      /\ \A i \in DOMAIN t.Columns : t.Columns[i] \in Columns
  <2>1. t.Columns \in Seq(Columns)
    BY DEF Tables
  <2> QED BY <2>1, ElementOfSeq, LenProperties
<1>2. /\ u.Columns = [i \in DOMAIN t.Columns |->
                         [t.Columns[i] EXCEPT !.Table = newName]]
      /\ u.PrimaryKey = t.PrimaryKey
      /\ u.Indexes = t.Indexes
  BY DEF RenamedTable, Tables
<1>3. /\ DOMAIN u.Columns = DOMAIN t.Columns
      /\ \A i \in DOMAIN t.Columns :
             /\ u.Columns[i].Name = t.Columns[i].Name
             /\ AbstractColumn(u.Columns[i]) = AbstractColumn(t.Columns[i])
  <2> HIDE DEF u
  <2> QED BY <1>1, <1>2 DEF Columns, AbstractColumn
<1>4. Names(u.Columns) = Names(t.Columns)
  BY <1>3 DEF Names
<1>5. u \in Tables /\ WellFormedTable(u)
  BY RenameKeepsTable
<1> HIDE DEF u
<1>6. /\ DOMAIN a.columns = Names(t.Columns)
      /\ \A i \in DOMAIN t.Columns :
             a.columns[t.Columns[i].Name] = AbstractColumn(t.Columns[i])
  BY AbstractColumns
<1>7. /\ DOMAIN b.columns = Names(u.Columns)
      /\ \A i \in DOMAIN u.Columns :
             b.columns[u.Columns[i].Name] = AbstractColumn(u.Columns[i])
  BY <1>5, AbstractColumns
<1>8. \A c \in Names(t.Columns) : b.columns[c] = a.columns[c]
  <2> HIDE DEF a, b
  <2> TAKE c \in Names(t.Columns)
  <2>1. PICK i \in DOMAIN t.Columns : c = t.Columns[i].Name
    BY DEF Names
  <2> QED BY <1>3, <1>6, <1>7, <2>1
<1>9. b.columns = a.columns
  <2>1. /\ a.columns = [c \in Names(t.Columns) |-> a.columns[c]]
        /\ b.columns = [c \in Names(u.Columns) |-> b.columns[c]]
    BY DEF AbstractTable
  <2> HIDE DEF a, b
  <2> QED BY <1>4, <1>8, <2>1
<1>10. b.key = a.key /\ b.indexes = a.indexes
  BY <1>2 DEF AbstractTable
<1>11. /\ a = [columns |-> a.columns, key |-> a.key, indexes |-> a.indexes]
       /\ b = [columns |-> b.columns, key |-> b.key, indexes |-> b.indexes]
  BY DEF AbstractTable
<1>12. b = a
  <2> HIDE DEF a, b
  <2> QED BY <1>9, <1>10, <1>11
<1> QED BY <1>12 DEF u

-----------------------------------------------------------------------------
(***************************************************************************)
(* The running ALTER TABLE.                                                 *)
(***************************************************************************)

\* The copy has the key of the table it will replace, whatever the actions done so
\* far changed besides.
EditInv == target # 0 => Edited(tables[target], working)

\* An action that succeeds and leaves the copy as `edited`.
AlterStep(edited) ==
    /\ target # 0
    /\ WellFormedTable(edited)
    /\ edited.Name = working.Name
    /\ Edited(working, edited)
    /\ Proceed(edited)

\* Every ALTER TABLE action fails, or edits the copy as EditInv allows.
LEMMA AlterActions ==
    ASSUME CatalogInv,
           \/ \E decl \in IndexDecls : AddIndex(decl)
           \/ \E name \in IndexNames : DropIndex(name)
           \/ \E decl \in ColumnDecls : AddColumn(decl)
           \/ \E name \in ColumnNames : DropColumn(name)
           \/ \E name \in ColumnNames : DropNotNull(name)
    PROVE  Finish("diagnosed") \/ \E edited \in Tables : AlterStep(edited)
<1>1. target # 0
  BY DEF AddIndex, DropIndex, AddColumn, DropColumn, DropNotNull
<1>2. working \in Tables /\ WellFormedTable(working)
  BY <1>1 DEF CatalogInv
<1>3. SUFFICES ASSUME ~Finish("diagnosed")
               PROVE  \E edited \in Tables : AlterStep(edited)
  OBVIOUS
<1>4. ASSUME NEW decl \in IndexDecls, AddIndex(decl)
      PROVE  \E edited \in Tables : AlterStep(edited)
  <2> DEFINE u == [working EXCEPT !.Indexes = Append(@, decl.Index)]
  <2>1. AcceptsIndex(working, decl) /\ Proceed(u)
    BY <1>3, <1>4 DEF AddIndex
  <2>2. decl \in IndexDecl
    BY InputAssumption
  <2>3. u \in Tables /\ WellFormedTable(u) /\ u.Name = working.Name
    BY <1>2, <2>1, <2>2, AddIndexKeepsTable
  <2>4. Edited(working, u)
    BY <1>2, IndexActionsEdit
  <2> QED BY <1>1, <2>1, <2>3, <2>4 DEF AlterStep
<1>5. ASSUME NEW name \in IndexNames, DropIndex(name)
      PROVE  \E edited \in Tables : AlterStep(edited)
  <2> DEFINE u == [working EXCEPT !.Indexes =
                      RemoveAt(@, catalogIndexPosition(working, name))]
  <2>1. name \in Names(working.Indexes) /\ Proceed(u)
    BY <1>3, <1>5 DEF DropIndex
  <2>2. u \in Tables /\ WellFormedTable(u) /\ u.Name = working.Name
    BY <1>2, <2>1, DropIndexKeepsTable
  <2>3. Edited(working, u)
    BY <1>2, IndexActionsEdit
  <2> QED BY <1>1, <2>1, <2>2, <2>3 DEF AlterStep
<1>6. ASSUME NEW decl \in ColumnDecls, AddColumn(decl)
      PROVE  \E edited \in Tables : AlterStep(edited)
  <2> DEFINE u == [working EXCEPT !.Columns =
                      Append(@, catalogColumn(working.Name, decl))]
  <2>1. /\ decl.Kind = "plain"
        /\ decl.Name \notin Names(working.Columns)
        /\ Proceed(u)
    BY <1>3, <1>6 DEF AddColumn
  <2>2. decl \in ColumnDecl
    BY InputAssumption
  <2>3. u \in Tables /\ WellFormedTable(u) /\ u.Name = working.Name
    BY <1>2, <2>1, <2>2, AddColumnKeepsTable
  <2>4. catalogColumn(working.Name, decl) \in Columns
    BY <1>2, <2>2, ColumnType DEF Tables
  <2>5. Edited(working, u)
    BY <1>2, <2>4, AddColumnEdits
  <2> QED BY <1>1, <2>1, <2>3, <2>5 DEF AlterStep
<1>7. ASSUME NEW name \in ColumnNames, DropColumn(name)
      PROVE  \E edited \in Tables : AlterStep(edited)
  <2> DEFINE u == [working EXCEPT !.Columns =
                      RemoveAt(@, catalogColumnIndex(working, name))]
  <2>1. DropColumnAccepts(name) /\ Proceed(u)
    BY <1>3, <1>7 DEF DropColumn
  <2>2. u \in Tables /\ WellFormedTable(u) /\ u.Name = working.Name
    BY <1>2, <2>1, DropColumnKeepsTable DEF DropColumnAccepts
  <2>3. Edited(working, u)
    BY <1>2, <2>1, DropColumnEdits DEF DropColumnAccepts
  <2> QED BY <1>1, <2>1, <2>2, <2>3 DEF AlterStep
<1>8. ASSUME NEW name \in ColumnNames, DropNotNull(name)
      PROVE  \E edited \in Tables : AlterStep(edited)
  <2> DEFINE at == catalogColumnIndex(working, name)
             type == IF IsOptional(working.Columns[at].Type)
                     THEN working.Columns[at].Type
                     ELSE Optional(working.Columns[at].Type)
  <2>1. /\ name \in Names(working.Columns)
        /\ Proceed([working EXCEPT !.Columns[at].Type = type])
    BY <1>3, <1>8 DEF DropNotNull
  <2>2. working.Columns \in Seq(Columns)
    BY <1>2 DEF Tables
  <2>3. at \in DOMAIN working.Columns
    BY <2>1, <2>2, PositionFacts DEF catalogColumnIndex
  <2>4. working.Columns[at] \in Columns
    BY <2>2, <2>3, ElementOfSeq, LenProperties
  <2> HIDE DEF at
  <2>5. /\ type \in Types
        /\ type.Base = working.Columns[at].Type.Base
        /\ IsOptional(type)
    BY <2>4 DEF Columns, Types, IsOptional, Optional
  <2> HIDE DEF type
  <2> DEFINE u == [working EXCEPT !.Columns[at].Type = type]
  <2>6. u \in Tables /\ WellFormedTable(u) /\ u.Name = working.Name
    BY <1>2, <2>3, <2>5, DropNotNullKeepsTable
  <2>7. Edited(working, u)
    BY <1>2, <2>3, <2>5, DropNotNullEdits
  <2> QED BY <1>1, <2>1, <2>6, <2>7 DEF AlterStep
<1> QED BY <1>4, <1>5, <1>6, <1>7, <1>8

\* Every step keeps the copy an edit of the table it will replace.
LEMMA EditNext == CatalogInv /\ EditInv /\ [Next]_vars => EditInv'
<1> SUFFICES ASSUME CatalogInv, EditInv, [Next]_vars PROVE EditInv'
  OBVIOUS
<1>1. ASSUME NEW edited \in Tables, AlterStep(edited) PROVE EditInv'
  <2>1. CASE Advance(edited)
    <3>1. Edited(tables[target], edited)
      BY <1>1, EditedTransitive DEF EditInv, AlterStep
    <3> QED BY <2>1, <3>1 DEF EditInv, Advance
  <2>2. CASE Commit(edited)
    BY <2>2 DEF EditInv, Commit
  <2> QED BY <1>1, <2>1, <2>2 DEF AlterStep, Proceed
<1>2. ASSUME NEW name \in TableNames, NEW actions \in 1..MaxActions,
             applyAlterTable(name, actions)
      PROVE  EditInv'
  BY <1>2, EditedReflexive DEF applyAlterTable, Finish, EditInv
<1>3. ASSUME NEW result, Finish(result) PROVE EditInv'
  BY <1>3 DEF Finish, EditInv
<1>4. CASE \/ \E create \in CreateStatements : applyCreateTable(create)
           \/ \E name \in TableNames : \E ifExists \in BOOLEAN :
                  applyDropTable(name, ifExists)
           \/ \E name, newName \in TableNames : RenameTable(name, newName)
  BY <1>4 DEF applyCreateTable, applyDropTable, RenameTable, Finish, EditInv
<1>5. CASE UnsupportedAction \/ RefuseStatement
  BY <1>3, <1>5 DEF UnsupportedAction, RefuseStatement
<1>6. CASE UNCHANGED vars
  BY <1>6 DEF vars, EditInv
<1> QED BY <1>1, <1>2, <1>3, <1>4, <1>5, <1>6, AlterActions DEF Next

-----------------------------------------------------------------------------
(***************************************************************************)
(* The abstract schema before and after a statement.                        *)
(***************************************************************************)

\* Appending a table adds its name and nothing else.
LEMMA SchemaOfAppend ==
    ASSUME NEW s \in Seq(Tables), NamesDistinct(s),
           NEW t \in Tables, t.Name \notin Names(s)
    PROVE  LET u == Append(s, t)
           IN  /\ DOMAIN SchemaOf(u) = Names(s) \cup {t.Name}
               /\ SchemaOf(u)[t.Name] = AbstractTable(t)
               /\ \A n \in Names(s) : SchemaOf(u)[n] = SchemaOf(s)[n]
<1> DEFINE u == Append(s, t)
<1>1. /\ u \in Seq(Tables)
      /\ NamesDistinct(u)
      /\ Names(u) = Names(s) \cup {t.Name}
  BY NamesOfAppend
<1>2. /\ Len(s) + 1 \in DOMAIN u
      /\ u[Len(s) + 1] = t
      /\ \A i \in DOMAIN s : i \in DOMAIN u /\ u[i] = s[i]
  BY AppendProperties, LenProperties
<1> HIDE DEF u
<1>3. DOMAIN SchemaOf(u) = Names(u) /\ SchemaOf(u)[t.Name] = AbstractTable(t)
  BY <1>1, <1>2, SchemaOfFacts
<1>4. ASSUME NEW n \in Names(s) PROVE SchemaOf(u)[n] = SchemaOf(s)[n]
  <2>1. PICK i \in DOMAIN s : n = s[i].Name
    BY DEF Names
  <2> QED BY <1>1, <1>2, <2>1, SchemaOfKept
<1> QED BY <1>1, <1>3, <1>4 DEF u

\* Removing a table removes its name and nothing else.
LEMMA SchemaOfRemoveAt ==
    ASSUME NEW s \in Seq(Tables), NamesDistinct(s), NEW at \in DOMAIN s
    PROVE  LET u == RemoveAt(s, at)
           IN  /\ DOMAIN SchemaOf(u) = Names(s) \ {s[at].Name}
               /\ \A n \in Names(s) \ {s[at].Name} :
                      SchemaOf(u)[n] = SchemaOf(s)[n]
<1> DEFINE u == RemoveAt(s, at)
<1>1. /\ u \in Seq(Tables)
      /\ NamesDistinct(u)
      /\ Names(u) = Names(s) \ {s[at].Name}
      /\ \A k \in DOMAIN u : \E j \in DOMAIN s : u[k] = s[j]
  BY NamesOfRemoveAt
<1> HIDE DEF u
<1>2. DOMAIN SchemaOf(u) = Names(u)
  BY <1>1, SchemaOfFacts
<1>3. ASSUME NEW n \in Names(u) PROVE SchemaOf(u)[n] = SchemaOf(s)[n]
  <2>1. PICK k \in DOMAIN u : n = u[k].Name
    BY DEF Names
  <2>2. PICK j \in DOMAIN s : u[k] = s[j]
    BY <1>1
  <2> QED BY <1>1, <2>1, <2>2, SchemaOfKept
<1> QED BY <1>1, <1>2, <1>3 DEF u

\* Replacing a table touches its old and its new name only.
LEMMA SchemaOfReplace ==
    ASSUME NEW s \in Seq(Tables), NamesDistinct(s), NEW at \in DOMAIN s,
           NEW t \in Tables,
           [s EXCEPT ![at] = t] \in Seq(Tables),
           NamesDistinct([s EXCEPT ![at] = t])
    PROVE  LET u == [s EXCEPT ![at] = t]
           IN  /\ DOMAIN SchemaOf(u) = (Names(s) \ {s[at].Name}) \cup {t.Name}
               /\ SchemaOf(u)[t.Name] = AbstractTable(t)
               /\ \A n \in Names(s) \ {s[at].Name} :
                      SchemaOf(u)[n] = SchemaOf(s)[n]
<1> DEFINE u == [s EXCEPT ![at] = t]
<1>1. /\ DOMAIN u = DOMAIN s
      /\ u[at] = t
      /\ \A i \in DOMAIN s : i # at => u[i] = s[i]
  OBVIOUS
<1>2. u \in Seq(Tables) /\ NamesDistinct(u)
  OBVIOUS
<1> HIDE DEF u
<1>3. DOMAIN SchemaOf(u) = Names(u) /\ SchemaOf(u)[t.Name] = AbstractTable(t)
  BY <1>1, <1>2, SchemaOfFacts
<1>4. Names(u) = (Names(s) \ {s[at].Name}) \cup {t.Name}
  BY <1>1 DEF Names, NamesDistinct
<1>5. ASSUME NEW n \in Names(s) \ {s[at].Name}
      PROVE  SchemaOf(u)[n] = SchemaOf(s)[n]
  <2>1. PICK i \in DOMAIN s : n = s[i].Name
    BY DEF Names
  <2>2. i # at /\ i \in DOMAIN u /\ u[i] = s[i]
    BY <1>1, <2>1
  <2> QED BY <1>2, <2>1, <2>2, SchemaOfKept
<1> QED BY <1>3, <1>4, <1>5 DEF u

\* The state of the abstract schema is SchemaOf(tables).
MappedSchema == [n \in Names(tables) |-> AbstractTable(tables[catalogTableIndex(n)])]

LEMMA MappedSchemaIs ==
    MappedSchema = SchemaOf(tables) /\ MappedSchema' = SchemaOf(tables')
BY DEF MappedSchema, SchemaOf, catalogTableIndex

\* A step that leaves the tables alone leaves the abstract schema alone.
LEMMA RefuseStep == UNCHANGED tables => UNCHANGED MappedSchema
BY MappedSchemaIs

\* The accepted CREATE TABLE.
LEMMA CreateStep ==
    ASSUME CatalogInv, NEW create \in CreateStatement,
           catalogTableAccepts(create), create.Name \notin Names(tables),
           tables' = Append(tables, DeclaredTable(create))
    PROVE  Abstract!Next
<1> DEFINE t == DeclaredTable(create)
           n == create.Name
<1>1. t \in Tables /\ WellFormedTable(t) /\ t.Name = n
  BY DeclaredTableWellFormed
<1>2. tables' = Append(tables, t)
  OBVIOUS
<1>3. n \in TableNames /\ n \notin Names(tables)
  BY DEF CreateStatement
<1> HIDE DEF t, n
<1>4. tables \in Seq(Tables) /\ NamesDistinct(tables)
  BY DEF CatalogInv, TypeOK, UniqueTables
<1>5. /\ DOMAIN SchemaOf(tables') = Names(tables) \cup {n}
      /\ SchemaOf(tables')[n] = AbstractTable(t)
      /\ \A m \in Names(tables) : SchemaOf(tables')[m] = SchemaOf(tables)[m]
  <2> DEFINE u == Append(tables, t)
  <2>1. t.Name \notin Names(tables)
    BY <1>1, <1>3
  <2>2. /\ DOMAIN SchemaOf(u) = Names(tables) \cup {t.Name}
        /\ SchemaOf(u)[t.Name] = AbstractTable(t)
        /\ \A m \in Names(tables) : SchemaOf(u)[m] = SchemaOf(tables)[m]
    BY <1>1, <1>4, <2>1, SchemaOfAppend
  <2> QED BY <1>1, <1>2, <2>2
<1>6. DOMAIN SchemaOf(tables) = Names(tables)
  BY DEF SchemaOf
<1>7. Abstract!WellFormed(AbstractTable(t))
  BY <1>1, AbstractWellFormed
<1>8. Abstract!Create(n)
  BY <1>3, <1>5, <1>6, <1>7, MappedSchemaIs
     DEF Abstract!Create, Abstract!OthersUnchanged, MappedSchema
<1> QED BY <1>3, <1>8 DEF Abstract!Next

\* The accepted DROP TABLE.
LEMMA DropStep ==
    ASSUME CatalogInv, NEW name \in TableNames, name \in Names(tables),
           tables' = RemoveAt(tables, catalogTableIndex(name))
    PROVE  Abstract!Next
<1> DEFINE at == catalogTableIndex(name)
<1>1. tables \in Seq(Tables) /\ NamesDistinct(tables)
  BY DEF CatalogInv, TypeOK, UniqueTables
<1>2. at \in DOMAIN tables /\ tables[at].Name = name
  BY <1>1, PositionFacts DEF catalogTableIndex
<1>3. tables' = RemoveAt(tables, at)
  OBVIOUS
<1> HIDE DEF at
<1>4. /\ DOMAIN SchemaOf(tables') = Names(tables) \ {name}
      /\ \A m \in Names(tables) \ {name} :
             SchemaOf(tables')[m] = SchemaOf(tables)[m]
  <2> DEFINE u == RemoveAt(tables, at)
  <2>1. /\ DOMAIN SchemaOf(u) = Names(tables) \ {tables[at].Name}
        /\ \A m \in Names(tables) \ {tables[at].Name} :
               SchemaOf(u)[m] = SchemaOf(tables)[m]
    BY <1>1, <1>2, SchemaOfRemoveAt
  <2> QED BY <1>2, <1>3, <2>1
<1>5. DOMAIN SchemaOf(tables) = Names(tables)
  BY DEF SchemaOf
<1>6. Abstract!Drop(name)
  BY <1>4, <1>5, MappedSchemaIs
     DEF Abstract!Drop, Abstract!OthersUnchanged, MappedSchema
<1> QED BY <1>6 DEF Abstract!Next

\* The last action of an ALTER TABLE.
LEMMA AlterTableStep ==
    ASSUME CatalogInv, CatalogInv', EditInv,
           NEW edited \in Tables, AlterStep(edited), Commit(edited)
    PROVE  Abstract!Next
<1> DEFINE old == tables[target]
           n == tables[target].Name
<1>1. tables \in Seq(Tables) /\ NamesDistinct(tables)
  BY DEF CatalogInv, TypeOK, UniqueTables
<1>2. target \in DOMAIN tables
  BY <1>1, LenProperties DEF AlterStep, CatalogInv, TypeOK
<1>3. old \in Tables /\ WellFormedTable(old)
  BY <1>1, <1>2, ElementOfSeq, LenProperties DEF CatalogInv
<1>4. /\ WellFormedTable(edited)
      /\ edited.Name = n
      /\ Edited(old, edited)
  BY EditedTransitive DEF AlterStep, EditInv, CatalogInv
<1>5. tables' = [tables EXCEPT ![target] = edited]
  BY DEF Commit
<1>6. tables' \in Seq(Tables) /\ NamesDistinct(tables')
  BY DEF CatalogInv, TypeOK, UniqueTables
<1>7. n \in TableNames /\ n \in Names(tables)
  BY <1>2, <1>3 DEF Tables, Names
<1>8. SchemaOf(tables)[n] = AbstractTable(old)
  BY <1>1, <1>2, SchemaOfFacts
<1> HIDE DEF old
<1>9. /\ DOMAIN SchemaOf(tables') = Names(tables)
      /\ SchemaOf(tables')[n] = AbstractTable(edited)
      /\ \A m \in Names(tables) \ {n} :
             SchemaOf(tables')[m] = SchemaOf(tables)[m]
  <2>1. /\ DOMAIN SchemaOf(tables') = (Names(tables) \ {n}) \cup {edited.Name}
        /\ SchemaOf(tables')[edited.Name] = AbstractTable(edited)
        /\ \A m \in Names(tables) \ {n} :
               SchemaOf(tables')[m] = SchemaOf(tables)[m]
    <3> DEFINE u == [tables EXCEPT ![target] = edited]
    <3>1. u \in Seq(Tables) /\ NamesDistinct(u)
      BY <1>5, <1>6
    <3>2. /\ DOMAIN SchemaOf(u) = (Names(tables) \ {tables[target].Name}) \cup {edited.Name}
          /\ SchemaOf(u)[edited.Name] = AbstractTable(edited)
          /\ \A m \in Names(tables) \ {tables[target].Name} :
                 SchemaOf(u)[m] = SchemaOf(tables)[m]
      BY <1>1, <1>2, <3>1, SchemaOfReplace
    <3> QED BY <1>5, <3>2
  <2> QED BY <1>4, <1>7, <2>1
<1> HIDE DEF n
<1>10. DOMAIN SchemaOf(tables) = Names(tables)
  BY DEF SchemaOf
<1>11. /\ Abstract!WellFormed(AbstractTable(edited))
       /\ Abstract!KeyPreserved(AbstractTable(old), AbstractTable(edited))
  BY <1>3, <1>4, AbstractWellFormed, EditedPreservesKey
<1>12. Abstract!Alter(n)
  BY <1>7, <1>8, <1>9, <1>10, <1>11, MappedSchemaIs
     DEF Abstract!Alter, Abstract!OthersUnchanged, MappedSchema
<1> QED BY <1>7, <1>12 DEF Abstract!Next

\* The accepted RENAME TO.  Renaming a table to its own name is a stutter.
LEMMA RenameStep ==
    ASSUME CatalogInv, CatalogInv',
           NEW name \in TableNames, NEW newName \in TableNames,
           name \in Names(tables),
           newName \in Names(tables)
               => catalogTableIndex(newName) = catalogTableIndex(name),
           tables' = [tables EXCEPT ![catalogTableIndex(name)] =
                         RenamedTable(@, newName)]
    PROVE  Abstract!Next
<1> DEFINE at == catalogTableIndex(name)
           old == tables[at]
           new == RenamedTable(tables[at], newName)
<1>1. tables \in Seq(Tables) /\ NamesDistinct(tables)
  BY DEF CatalogInv, TypeOK, UniqueTables
<1>2. at \in DOMAIN tables /\ old.Name = name
  BY <1>1, PositionFacts DEF catalogTableIndex
<1>3. newName \in Names(tables) => newName = name
  <2> SUFFICES ASSUME newName \in Names(tables) PROVE newName = name
    OBVIOUS
  <2>1. tables[catalogTableIndex(newName)].Name = newName
    BY <1>1, PositionFacts DEF catalogTableIndex
  <2> QED BY <1>2, <2>1
<1>4. tables' = [tables EXCEPT ![at] = new]
  OBVIOUS
<1> HIDE DEF at
<1>5. old \in Tables /\ WellFormedTable(old)
  BY <1>1, <1>2, ElementOfSeq, LenProperties DEF CatalogInv
<1>6. /\ new \in Tables
      /\ new.Name = newName
      /\ AbstractTable(new) = AbstractTable(old)
  BY <1>5, RenameKeepsTable, RenameKeepsAbstractTable
<1>7. tables' \in Seq(Tables) /\ NamesDistinct(tables')
  BY DEF CatalogInv, TypeOK, UniqueTables
<1>8. SchemaOf(tables)[name] = AbstractTable(old)
  BY <1>1, <1>2, SchemaOfFacts
<1>9. DOMAIN SchemaOf(tables) = Names(tables)
  BY DEF SchemaOf
<1> HIDE DEF new
<1>10. /\ DOMAIN SchemaOf(tables') = (Names(tables) \ {name}) \cup {newName}
       /\ SchemaOf(tables')[newName] = SchemaOf(tables)[name]
       /\ \A m \in Names(tables) \ {name} :
              SchemaOf(tables')[m] = SchemaOf(tables)[m]
  <2>1. /\ DOMAIN SchemaOf(tables') = (Names(tables) \ {old.Name}) \cup {new.Name}
        /\ SchemaOf(tables')[new.Name] = AbstractTable(new)
        /\ \A m \in Names(tables) \ {old.Name} :
               SchemaOf(tables')[m] = SchemaOf(tables)[m]
    <3> DEFINE u == [tables EXCEPT ![at] = new]
    <3>1. u \in Seq(Tables) /\ NamesDistinct(u)
      BY <1>4, <1>7
    <3>2. /\ DOMAIN SchemaOf(u) = (Names(tables) \ {tables[at].Name}) \cup {new.Name}
          /\ SchemaOf(u)[new.Name] = AbstractTable(new)
          /\ \A m \in Names(tables) \ {tables[at].Name} :
                 SchemaOf(u)[m] = SchemaOf(tables)[m]
      BY <1>1, <1>2, <1>6, <3>1, SchemaOfReplace
    <3> QED BY <1>4, <3>2
  <2> QED BY <1>2, <1>6, <1>8, <2>1
<1>11. CASE newName \in Names(tables)
  <2>1. /\ DOMAIN SchemaOf(tables') = DOMAIN SchemaOf(tables)
        /\ \A m \in DOMAIN SchemaOf(tables) :
               SchemaOf(tables')[m] = SchemaOf(tables)[m]
    BY <1>3, <1>9, <1>10, <1>11
  <2>2. SchemaOf(tables') = SchemaOf(tables)
    <3>1. ASSUME NEW s
          PROVE  SchemaOf(s) = [n \in DOMAIN SchemaOf(s) |-> SchemaOf(s)[n]]
      BY DEF SchemaOf
    <3> QED BY <2>1, <3>1
  <2>3. Abstract!Refuse
    BY <2>2, MappedSchemaIs DEF Abstract!Refuse, MappedSchema
  <2> QED BY <2>3 DEF Abstract!Next
<1>12. CASE newName \notin Names(tables)
  <2>1. Abstract!Rename(name, newName)
    BY <1>9, <1>10, <1>12, MappedSchemaIs
       DEF Abstract!Rename, Abstract!OthersUnchanged, MappedSchema
  <2> QED BY <2>1 DEF Abstract!Next
<1> QED BY <1>11, <1>12

-----------------------------------------------------------------------------
\* Every step of the catalog is a step of the abstract schema or a stutter.
LEMMA NextRefines ==
    ASSUME CatalogInv, CatalogInv', EditInv, [Next]_vars
    PROVE  [Abstract!Next]_MappedSchema
<1>1. UNCHANGED tables => UNCHANGED MappedSchema
  BY RefuseStep
<1>2. ASSUME NEW result, Finish(result) PROVE UNCHANGED MappedSchema
  BY <1>1, <1>2 DEF Finish
<1>3. ASSUME NEW edited \in Tables, AlterStep(edited)
      PROVE  [Abstract!Next]_MappedSchema
  <2>1. CASE Advance(edited)
    BY <1>1, <2>1 DEF Advance
  <2>2. CASE Commit(edited)
    BY <1>3, <2>2, AlterTableStep
  <2> QED BY <1>3, <2>1, <2>2 DEF AlterStep, Proceed
<1>4. ASSUME NEW create \in CreateStatements, applyCreateTable(create)
      PROVE  [Abstract!Next]_MappedSchema
  <2>1. create \in CreateStatement
    BY InputAssumption
  <2>2. CASE Finish("skipped") \/ Finish("diagnosed")
    BY <1>2, <2>2
  <2>3. CASE /\ create.Name \notin Names(tables)
             /\ catalogTableAccepts(create)
             /\ tables' = Append(tables, DeclaredTable(create))
    BY <2>1, <2>3, CreateStep
  <2> QED BY <1>4, <2>2, <2>3 DEF applyCreateTable
<1>5. ASSUME NEW name \in TableNames, NEW ifExists \in BOOLEAN,
             applyDropTable(name, ifExists)
      PROVE  [Abstract!Next]_MappedSchema
  <2>1. CASE Finish("skipped") \/ Finish("diagnosed")
    BY <1>2, <2>1
  <2>2. CASE /\ name \in Names(tables)
             /\ tables' = RemoveAt(tables, catalogTableIndex(name))
    BY <2>2, DropStep
  <2> QED BY <1>5, <2>1, <2>2 DEF applyDropTable
<1>6. ASSUME NEW name \in TableNames, NEW actions \in 1..MaxActions,
             applyAlterTable(name, actions)
      PROVE  [Abstract!Next]_MappedSchema
  BY <1>1, <1>6 DEF applyAlterTable, Finish
<1>7. ASSUME NEW name \in TableNames, NEW newName \in TableNames,
             RenameTable(name, newName)
      PROVE  [Abstract!Next]_MappedSchema
  <2>1. CASE Finish("diagnosed")
    BY <1>2, <2>1
  <2>2. CASE /\ name \in Names(tables)
             /\ newName \in Names(tables)
                    => catalogTableIndex(newName) = catalogTableIndex(name)
             /\ tables' = [tables EXCEPT ![catalogTableIndex(name)] =
                              RenamedTable(@, newName)]
    BY <2>2, RenameStep
  <2> QED BY <1>7, <2>1, <2>2 DEF RenameTable
<1>8. CASE UnsupportedAction \/ RefuseStatement
  BY <1>2, <1>8 DEF UnsupportedAction, RefuseStatement
<1>9. CASE UNCHANGED vars
  BY <1>1, <1>9 DEF vars
<1> QED BY <1>2, <1>3, <1>4, <1>5, <1>6, <1>7, <1>8, <1>9, AlterActions DEF Next

\* The copy always is an edit of the table it will replace.
LEMMA EditInvAlways == Spec => []EditInv
<1>1. Init => EditInv
  BY DEF Init, EditInv
<1> QED BY <1>1, EditNext, InvAlways, PTL DEF Spec

\* For every input, the catalog implements module Schema: each statement is
\* one Create, Drop, Alter or Rename of a well-formed table or leaves the
\* schema alone, however many actions an ALTER TABLE takes and wherever it
\* fails, and no ALTER TABLE changes the primary key of a table or the base
\* type or sequence of a key column.
THEOREM CatalogImplementsSchema == Spec => ImplementsSchema
<1>1. Init => Abstract!Init
  BY DEF Init, Abstract!Init, Names
<1>2. CatalogInv /\ CatalogInv' /\ EditInv /\ [Next]_vars
          => [Abstract!Next]_MappedSchema
  BY NextRefines
<1>3. ImplementsSchema <=> Abstract!Init /\ [][Abstract!Next]_MappedSchema
  BY DEF ImplementsSchema, Abstract!Spec, MappedSchema
<1> QED BY <1>1, <1>2, <1>3, InvAlways, EditInvAlways, PTL DEF Spec

=============================================================================
