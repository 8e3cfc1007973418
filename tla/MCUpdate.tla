------------------------------ MODULE MCUpdate ------------------------------
(***************************************************************************)
(* Small instances of Update.                                               *)
(***************************************************************************)
EXTENDS Update, SequencesExt

\* Only the equality of inode numbers matters, so the file installed at the
\* start may have any fixed one of them.
MCInit == Init /\ inode[Original] = CHOOSE n \in Inodes : TRUE

MCSpec == MCInit /\ [][Next]_vars /\ Fairness

Version(minor, candidate) == <<<<1>>, minor, <<0>>, candidate>>

\* 1.9.0, candidates of 1.10.0, and 1.10.0.
MCComponents ==
    [v \in Versions |->
        CASE v = 1 -> Version(<<9>>, <<>>)
          [] v = MaxVersion -> Version(<<1, 0>>, <<>>)
          [] OTHER -> Version(<<1, 0>>, IF v = 2 THEN <<9>> ELSE <<1, 0>>)]

\* Versions are numbered in their order: by the values of their components,
\* with a release as a candidate after all others.
Value(digits) == FoldLeft(LAMBDA n, d : 10 * n + d, 0, digits)
Values(v) ==
    [i \in 1..4 |-> IF i = 4 /\ v \in Stable THEN 100 ELSE Value(Components[v][i])]
ASSUME NumberedInOrder ==
    \A v, w \in Versions : v > w <=> Prefers(Values(v), Values(w))
=============================================================================
