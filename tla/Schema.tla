------------------------------- MODULE Schema -------------------------------
(***************************************************************************)
(* What the schema catalog promises its readers, independent of slices,     *)
(* positions and of how an ALTER TABLE is carried out: a map from table     *)
(* names to well-formed tables in which every statement is one step, and a  *)
(* table keeps its primary key for as long as it lives.                     *)
(***************************************************************************)
EXTENDS Functions

CONSTANT TableNames

VARIABLE schema \* a function from the names of the existing tables

-----------------------------------------------------------------------------
(***************************************************************************)
(* A table has columns (a function from names to [base, nullable, serial]), *)
(* a key (a sequence of column names) and a set of indexes.                 *)
(***************************************************************************)
KeyColumns(table) == Range(table.key)

WellFormed(table) ==
    /\ KeyColumns(table) \subseteq DOMAIN table.columns
    /\ \A c \in DOMAIN table.columns :
           table.columns[c].serial => c \in KeyColumns(table)
    /\ \A i \in table.indexes :
           /\ i.columns \cup i.cover \subseteq DOMAIN table.columns
           /\ i.cover \cap (i.columns \cup KeyColumns(table)) = {}
    /\ \A i, j \in table.indexes : i.name = j.name => i = j

\* A key column keeps its type and its sequence; it may become nullable.
KeyPreserved(old, new) ==
    /\ new.key = old.key
    /\ \A c \in KeyColumns(old) :
           /\ new.columns[c].base = old.columns[c].base
           /\ new.columns[c].serial = old.columns[c].serial
           /\ old.columns[c].nullable => new.columns[c].nullable

\* A statement may be refused.
Refuse == UNCHANGED schema

OthersUnchanged(touched) ==
    \A n \in DOMAIN schema \ touched :
        n \in DOMAIN schema' /\ schema'[n] = schema[n]

Create(n) ==
    /\ n \notin DOMAIN schema
    /\ DOMAIN schema' = DOMAIN schema \cup {n}
    /\ WellFormed(schema'[n])
    /\ OthersUnchanged({n})

Drop(n) ==
    /\ n \in DOMAIN schema
    /\ DOMAIN schema' = DOMAIN schema \ {n}
    /\ OthersUnchanged({n})

Alter(n) ==
    /\ n \in DOMAIN schema
    /\ DOMAIN schema' = DOMAIN schema
    /\ WellFormed(schema'[n])
    /\ KeyPreserved(schema[n], schema'[n])
    /\ OthersUnchanged({n})

Rename(n, m) ==
    /\ n \in DOMAIN schema
    /\ m \notin DOMAIN schema
    /\ DOMAIN schema' = (DOMAIN schema \ {n}) \cup {m}
    /\ schema'[m] = schema[n]
    /\ OthersUnchanged({n})

-----------------------------------------------------------------------------
Init == DOMAIN schema = {}

Next ==
    \/ Refuse
    \/ \E n \in TableNames : Create(n) \/ Drop(n) \/ Alter(n)
    \/ \E n, m \in TableNames : Rename(n, m)

Spec == Init /\ [][Next]_schema
=============================================================================
