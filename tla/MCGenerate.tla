----------------------------- MODULE MCGenerate -----------------------------
(***************************************************************************)
(* Generate on one output directory "out", reached also through the link    *)
(* "link", and one source directory "in", reached also through "alias".     *)
(***************************************************************************)
EXTENDS Generate, TLC

CONSTANTS ConfigNames, Inv1, Inv2, Inv3

ThreeInvocations == {Inv1, Inv2, Inv3}

out(name) == <<"out", name>>
link(name) == <<"link", name>>

MCSortedPaths ==
    <<<<"alias", "q">>, link("a"), out("a"), <<"out", "a", "x">>, out("b"),
      <<"out", "note", "x">>>>

MCInitial ==
    out("a") :> Absent @@ out("b") :> Generated("before", out("b"))
    @@ <<"out", "a", "x">> :> Absent @@ <<"out", "note", "x">> :> Absent
    @@ out("note") :> Handwritten
    @@ <<"in", "q">> :> Handwritten @@ <<"in", "sqlc.yaml">> :> Handwritten

MCCanonical ==
    [path \in Range(MCSortedPaths) |->
        CASE path[1] = "link" -> out(path[2])
          [] path[1] = "alias" -> <<"in", path[2]>>
          [] OTHER -> path]

\* A generator that succeeds, one that fails, and a query set.
Gen(paths) == [Sound |-> TRUE, Files |-> paths]
Broken(paths) == [Sound |-> FALSE, Files |-> paths]

Set(gen) ==
    [Schema |-> TRUE, Database |-> FALSE, Sound |-> TRUE,
     Sources |-> {<<"in", "q">>}, Gen |-> gen]

ConfigOf(name, sets) ==
    [Path |-> <<"in", "sqlc.yaml">>, SQL |-> sets, Text |-> name]

\* One configuration per way in which preparation ends.
SetsOf ==
    [pair      |-> <<Set(<<Gen(<<out("b"), out("a")>>)>>)>>,
     renamed   |-> <<Set(<<Gen(<<out("a")>>)>>),
                     [Set(<<>>) EXCEPT !.Gen = <<Gen(<<>>)>>]>>,
     unsound   |-> <<Set(<<Gen(<<out("a")>>)>>),
                     [Set(<<Gen(<<out("b")>>)>>) EXCEPT !.Sound = FALSE]>>,
     schemaless |-> <<[Set(<<Gen(<<out("a")>>)>>) EXCEPT !.Schema = FALSE]>>,
     database  |-> <<[Set(<<Gen(<<out("b")>>)>>) EXCEPT
                         !.Schema = FALSE, !.Database = TRUE]>>,
     broken    |-> <<Set(<<Gen(<<out("a")>>), Broken(<<out("b")>>)>>)>>,
     nogen     |-> <<Set(<<>>)>>,
     clash     |-> <<Set(<<Gen(<<out("a")>>)>>), Set(<<Gen(<<link("a")>>)>>)>>,
     overwrite |-> <<Set(<<Gen(<<<<"alias", "q">>>>)>>)>>,
     nested    |-> <<Set(<<Gen(<<out("a"), <<"out", "a", "x">>>>)>>)>>,
     inner     |-> <<Set(<<Gen(<<<<"out", "a", "x">>>>)>>)>>,
     under     |-> <<Set(<<Gen(<<<<"out", "note", "x">>>>)>>)>>]

MCConfigs == {ConfigOf(name, SetsOf[name]) : name \in ConfigNames}

\* Two invocations overlap, the second with the configuration of the first or one
\* that writes; three run one after another, of which the first two are to leave
\* something on the disk and the second is not killed.
Writing == {ConfigOf(name, SetsOf[name]) : name \in {"pair", "renamed", "inner"}}
Starts(p) == pc[p] = "idle" /\ pc'[p] # "idle"
MCNext ==
    /\ Next
    /\ Starts(Inv2) => /\ pc[Inv1] # "idle"
                       /\ overlap => config'[Inv2] \in Writing \cup {config[Inv1]}
    /\ Starts(Inv3) => pc[Inv2] \notin {"idle", "crashed"} /\ ~overlap /\ command'[Inv3] # "compile"
    /\ \A p \in {Inv1, Inv2} :
          Starts(p) /\ ~overlap => command'[p] = "generate" /\ config'[p] \in Writing

MCInit == Init /\ last = Inv1

MCSpec == MCInit /\ [][MCNext]_vars /\ \A p \in Invocations : WF_vars(Step(p))
=============================================================================
