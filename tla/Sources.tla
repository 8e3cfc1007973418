------------------------------ MODULE Sources -------------------------------
(***************************************************************************)
(* How the files of a query set are found, ordered and read                 *)
(* (internal/source/source.go): files, nonrecursive directories and glob    *)
(* patterns, each file once, and of a migration only what comes before its  *)
(* rollback section.                                                        *)
(*                                                                          *)
(* A file name is a sequence of characters, each by its code, and a path a  *)
(* sequence of names; a pattern may also hold "." and names with a star.    *)
(* The contents of a file are a sequence of lexer tokens.                   *)
(***************************************************************************)
EXTENDS Naturals, Sequences, SequencesExt, FiniteSets

CONSTANT Tree \* by path: its kind (directory, denied or file) and its text

Refused == <<>> \* what a call that fails returns: no source

Dot == 46
Star == 42
Here == <<Dot>>
SqlSuffix == <<Dot, 115, 113, 108>>                          \* ".sql"
DownSuffix == <<Dot, 100, 111, 119, 110>> \o SqlSuffix       \* ".down.sql"

FileNames == Seq(Nat) \ {<<>>}

\* Directories list finitely many well-formed names, and files are sequences.
ASSUME TreeAssumption ==
    /\ IsFiniteSet(DOMAIN Tree)
    /\ \A path \in DOMAIN Tree :
           path \in Seq(FileNames) /\ Tree[path].text \in Seq(Range(Tree[path].text))

\* Strings are ordered by their first difference, a prefix before the rest.
TextBefore(s, t) ==
    \/ IsStrictPrefix(s, t)
    \/ \E i \in DOMAIN s \cap DOMAIN t :
           SubSeq(s, 1, i - 1) = SubSeq(t, 1, i - 1) /\ s[i] < t[i]

Stem(name) ==
    IF IsSuffix(SqlSuffix, name) THEN SubSeq(name, 1, Len(name) - Len(SqlSuffix)) ELSE name

\* Fault: names are sorted without their extension.
NameBeforeByStem(a, b) ==
    TextBefore(Stem(a), Stem(b)) \/ (Stem(a) = Stem(b) /\ TextBefore(a, b))

\* Names are sorted whole: "001.init.sql" comes before "001.sql".
NameBefore(a, b) == TextBefore(a, b)

\* Glob and ReadDir sort the names of each directory.
PathBefore(p, q) ==
    \E i \in DOMAIN p \cap DOMAIN q :
        (\A j \in 1..i - 1 : p[j] = q[j]) /\ NameBefore(p[i], q[i])

\* Join cleans a path that is relative, and Read the name of every file.
Clean(path) == SelectSeq(path, LAMBDA component : component # Here)

\* The elements of a finite set, listed as a total order has them.
InOrder(S, order) ==
    [n \in 1..Cardinality(S) |->
        CHOOSE x \in S : Cardinality({y \in S : <<y, x>> \in order}) = n - 1]

Sorted(paths) == InOrder(paths, {pair \in paths \X paths : PathBefore(pair[1], pair[2])})

\* A star stands for any characters of one name.
MatchesName(name, component) ==
    \/ name = component
    \/ \E i \in DOMAIN component :
           /\ component[i] = Star
           /\ Len(name) >= Len(component) - 1
           /\ IsPrefix(SubSeq(component, 1, i - 1), name)
           /\ IsSuffix(SubSeq(component, i + 1, Len(component)), name)

Matches(path, pattern) ==
    /\ Len(path) = Len(pattern)
    /\ \A i \in DOMAIN path : MatchesName(path[i], pattern[i])

\* What a pattern names, by Glob; a path without a star names itself.
Matched(pattern) ==
    IF \E i \in DOMAIN Clean(pattern) : Star \in Range(Clean(pattern)[i])
    THEN {p \in DOMAIN Tree : Matches(p, Clean(pattern))} ELSE {Clean(pattern)}

\* A path that is a directory stands for the files directly in it.
FilesAt(path) ==
    IF Tree[path].kind # "directory" THEN {path}
    ELSE {p \in DOMAIN Tree : /\ Len(p) = Len(path) + 1
                              /\ IsPrefix(path, p)
                              /\ Tree[p].kind # "directory"}

Hidden(name) == name[1] = Dot

IsSource(path) ==
    LET name == Last(path)
    IN  IsSuffix(SqlSuffix, name) /\ ~Hidden(name) /\ ~IsSuffix(DownSuffix, name)

\* A comment that begins with one of the rollback directives, as a whole word.
IsRollback(token) == token.kind = "comment" /\ token.marker /\ token.after # "word"

upMigration(text) ==
    LET cut == {i \in DOMAIN text : IsRollback(text[i])}
    IN  IF cut = {} THEN text
        ELSE SubSeq(text, 1, (CHOOSE i \in cut : \A j \in cut : i <= j) - 1)

\* The loops of Read come to the k-th file of the j-th path of the i-th pattern
\* at <<i, j, k>>.
PathAt(patterns, place) == Sorted(Matched(patterns[place[1]]))[place[2]]
FileAt(patterns, place) == Sorted(FilesAt(PathAt(patterns, place)))[place[3]]
Places(patterns) ==
    UNION {UNION {{<<i, j, k>> : k \in DOMAIN Sorted(FilesAt(PathAt(patterns, <<i, j>>)))} :
                  j \in DOMAIN Sorted(Matched(patterns[i]))} : i \in DOMAIN patterns}

Earlier(p, q) ==
    \/ p[1] < q[1]
    \/ p[1] = q[1] /\ (p[2] < q[2] \/ (p[2] = q[2] /\ p[3] < q[3]))

\* Each file is read where it is first found.
FirstPlaces(patterns) ==
    {p \in Places(patterns) :
        /\ IsSource(FileAt(patterns, p))
        /\ \A q \in Places(patterns) : Earlier(q, p) => FileAt(patterns, q) # FileAt(patterns, p)}

\* Places in the order of the loops, and the files at them.
InTurn(places) == InOrder(places, {pair \in places \X places : Earlier(pair[1], pair[2])})
FilesIn(patterns, turns) == [n \in DOMAIN turns |-> FileAt(patterns, turns[n])]

Found(patterns) == FilesIn(patterns, InTurn(FirstPlaces(patterns)))

\* A pattern that matches nothing, a path that does not exist, no file, or one
\* that cannot be read.
Refuses(patterns, found) ==
    \/ \E i \in DOMAIN patterns : Matched(patterns[i]) = {}
    \/ \E i \in DOMAIN patterns : ~(Matched(patterns[i]) \subseteq DOMAIN Tree)
    \/ found = <<>>
    \/ \E n \in DOMAIN found : Tree[found[n]].kind = "denied"

\* The sources of a list of patterns, or Refused.
Read(patterns, schema) ==
    LET found == Found(patterns)
        contents(file) == IF schema THEN upMigration(Tree[file].text) ELSE Tree[file].text
    IN  IF Refuses(patterns, found) THEN Refused
        ELSE [n \in DOMAIN found |-> [name |-> found[n], text |-> contents(found[n])]]
=============================================================================
