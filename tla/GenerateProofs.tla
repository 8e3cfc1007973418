--------------------------- MODULE GenerateProofs ---------------------------
(***************************************************************************)
(* Proofs about module Generate for all configurations, paths and numbers   *)
(* of invocations.                                                          *)
(***************************************************************************)
EXTENDS Generate, TLAPS

Texts == {Generated(c.Text, path) : c \in Configs, path \in Paths}
Contents == {Absent, Handwritten, Partial} \cup Texts \cup Range(Initial)
Temps == [Dir : {Dir(l) : l \in Locations}, Content : Contents]
Entries ==
    {[Temp |-> FALSE, Of |-> l] : l \in Locations}
    \cup {[Temp |-> TRUE, Of |-> q] : q \in Invocations}

Emitting == {"checking", "comparing", "writing", "created", "written"}
Replacing == {"writing", "created", "written"}

TypeOK ==
    /\ disk \in [Locations -> Contents]
    /\ temp \in [Invocations -> SUBSET Temps]
    /\ config \in [Invocations -> Configs \cup {NoConfig}]
    /\ command \in [Invocations -> Commands \cup {"none"}]
    /\ pc \in [Invocations -> {"idle", "preparing"} \cup Emitting \cup Ended]
    /\ next \in [Invocations -> Nat \ {0}]
    /\ generator \in [Invocations -> Nat]
    /\ outputs \in [Invocations -> SUBSET Paths]
    /\ todo \in [Invocations -> SUBSET Paths]
    /\ entries \in [Invocations -> SUBSET Entries]
    /\ stale \in [Invocations -> SUBSET Entries]
    /\ last \in Invocations

\* Who has started has a configuration, and who is preparing has found nothing.
StartedInv(p) ==
    /\ pc[p] # "idle" => config[p] \in Configs
    /\ pc[p] = "idle" =>
          config[p] = NoConfig /\ next[p] = 1 /\ generator[p] = 0 /\ outputs[p] = {}
    /\ pc[p] \in {"idle", "preparing"} =>
          temp[p] = {} /\ todo[p] = {} /\ entries[p] = {} /\ stale[p] = {}

\* What has been generated so far is sound, and its files are outputs.
GeneratedSet(p, set) ==
    /\ set.Sound
    /\ \A gen \in Range(set.Gen) : gen.Sound /\ Range(gen.Files) \subseteq outputs[p]

GeneratedSoFar(p, set) ==
    /\ set.Sound
    /\ generator[p] <= Len(set.Gen)
    /\ \A g \in 1 .. generator[p] - 1 :
          set.Gen[g].Sound /\ Range(set.Gen[g].Files) \subseteq outputs[p]

PreparingInv(p) ==
    pc[p] = "preparing" =>
        /\ command[p] = "compile" => generator[p] = 0
        /\ command[p] # "compile" =>
              /\ next[p] <= Len(config[p].SQL) + 1
              /\ \A k \in 1 .. next[p] - 1 : GeneratedSet(p, config[p].SQL[k])
        /\ generator[p] > 0 =>
              /\ next[p] <= Len(config[p].SQL)
              /\ GeneratedSoFar(p, config[p].SQL[next[p]])

\* The outputs are among those of the configuration, and each has a location
\* of its own.
OutputsInv(p) ==
    /\ outputs[p] \subseteq ConfigOutputs(config[p])
    /\ todo[p] \subseteq outputs[p]
    /\ \A a, b \in outputs[p] : Canonical[a] = Canonical[b] => a = b

Prepared(p) == SoundConfig(config[p]) /\ ConfigOutputs(config[p]) \subseteq outputs[p]

\* Whoever has left something behind, or may still, had prepared everything.
PreparedInv(p) ==
    /\ pc[p] \in Emitting \/ temp[p] # {} \/ entries[p] # {} \/ stale[p] # {}
          \/ (pc[p] = "ok" /\ command[p] = "generate")
       => Prepared(p)
    /\ pc[p] \in Emitting => CanonicalRange(outputs[p]) \cap InputLocations(config[p]) = {}
    /\ pc[p] = "checking" => todo[p] = outputs[p]
    /\ pc[p] = "comparing" => command[p] = "diff"
    /\ pc[p] \in Replacing => command[p] = "generate"
    /\ pc[p] = "ok" /\ command[p] = "generate" => todo[p] = {}

\* The temporary file about to be renamed holds what belongs to its output.
WrittenInv(p) ==
    pc[p] = "written" =>
        \A path \in todo[p] : AtOutput(p, "written", path) =>
            \A t \in temp[p] : t.Content = Content(p, path)

\* What is reported as stale, or may still be, is no output of the invocation;
\* what is reported is no input of any configuration.
StaleInv(p) ==
    /\ \A e \in entries[p] \cup stale[p] : ~e.Temp => e.Of \notin CanonicalRange(outputs[p])
    /\ \A e \in stale[p] : \A c \in Configs : ~e.Temp => e.Of \notin InputLocations(c)

\* A file on the disk is what was there, nothing, or the text of a sound
\* configuration.
DiskInv ==
    \A l \in Locations :
        \/ disk[l] \in {Initial[l], Absent}
        \/ \E c \in Configs, path \in Paths :
              SoundConfig(c) /\ disk[l] = Generated(c.Text, path)

InputsInv == \A c \in Configs : \A l \in InputLocations(c) : disk[l] = Initial[l]

\* While only one configuration is in use, what an invocation has dealt with
\* is in place.
Alone(p) == \A q \in Invocations : config[q] \in {config[p], NoConfig}
AgreeInv(p) ==
    /\ pc[p] \in Replacing \/ (pc[p] = "ok" /\ command[p] = "generate")
    /\ Alone(p)
    => \A path \in outputs[p] \ todo[p] : disk[Canonical[path]] = Content(p, path)

-----------------------------------------------------------------------------
LEMMA ContentsAreRecords ==
    /\ Absent # Handwritten /\ Absent # Partial /\ Handwritten # Partial
    /\ ~IsGenerated(Absent) /\ ~IsGenerated(Handwritten) /\ ~IsGenerated(Partial)
    /\ \A text, path : IsGenerated(Generated(text, path))
    /\ \A t1, t2, p1, p2 : Generated(t1, p1) = Generated(t2, p2) => t1 = t2 /\ p1 = p2
BY DEF Absent, Handwritten, Partial, Generated, IsGenerated

LEMMA RankUnique ==
    ASSUME NEW a \in Paths, NEW b \in Paths, Rank(a) <= Rank(b), Rank(b) <= Rank(a)
    PROVE  a = b
<1>1. \A x \in Paths : Rank(x) \in DOMAIN SortedPaths /\ SortedPaths[Rank(x)] = x
  BY DEF Paths, Range, Rank
<1>2. DOMAIN SortedPaths \subseteq Nat
  BY GenerateAssumption
<1> QED
  BY <1>1, <1>2, SMT

LEMMA OneOutput ==
    ASSUME TypeOK, NEW p \in Invocations, NEW state, NEW a, NEW b,
           AtOutput(p, state, a), AtOutput(p, state, b)
    PROVE  a = b
BY RankUnique DEF TypeOK, AtOutput

\* What a configuration holds is of the right kind.
LEMMA ConfigShape ==
    ASSUME NEW c \in Configs
    PROVE  /\ c.SQL \in Seq(Range(c.SQL))
           /\ InputLocations(c) \subseteq Locations
           /\ ConfigOutputs(c) \subseteq Paths
           /\ \A k \in 1 .. Len(c.SQL) : c.SQL[k].Gen \in Seq(Range(c.SQL[k].Gen))
<1>1. IsConfig(c)
  BY GenerateAssumption
<1>2. DOMAIN c.SQL = 1 .. Len(c.SQL) /\ \A k \in DOMAIN c.SQL : c.SQL[k] \in Range(c.SQL)
  BY <1>1 DEF IsConfig, Range
<1>3. InputLocations(c) \subseteq Locations
  BY <1>1, <1>2 DEF IsConfig, InputLocations
<1>4. \A gen \in Generators(c) : gen.Files \in Seq(Paths)
  BY <1>1, <1>2 DEF IsConfig, Generators
<1>5. ConfigOutputs(c) \subseteq Paths
  <2> SUFFICES ASSUME NEW gen \in Generators(c) PROVE Range(gen.Files) \subseteq Paths
    BY DEF ConfigOutputs
  <2> QED
    BY <1>4 DEF Range
<1> QED
  BY <1>1, <1>2, <1>3, <1>5 DEF IsConfig

LEMMA GeneratorOutputs ==
    ASSUME NEW c \in Configs, NEW k \in 1 .. Len(c.SQL), NEW g \in 1 .. Len(c.SQL[k].Gen)
    PROVE  /\ c.SQL[k].Gen[g] \in Range(c.SQL[k].Gen)
           /\ Range(c.SQL[k].Gen[g].Files) \subseteq ConfigOutputs(c)
<1>1. c.SQL[k].Gen[g] \in Range(c.SQL[k].Gen)
  BY ConfigShape DEF Range
<1>2. k \in DOMAIN c.SQL
  BY ConfigShape
<1>3. c.SQL[k].Gen[g] \in Generators(c)
  BY <1>1, <1>2 DEF Generators
<1> QED
  BY <1>1, <1>3 DEF ConfigOutputs

\* A configuration all of whose sets were generated is prepared.
LEMMA AllGenerated ==
    ASSUME NEW p \in Invocations, config[p] \in Configs,
           \A k \in 1 .. Len(config[p].SQL) : GeneratedSet(p, config[p].SQL[k])
    PROVE  Prepared(p)
<1>1. DOMAIN config[p].SQL = 1 .. Len(config[p].SQL)
  BY ConfigShape
<1>2. SoundConfig(config[p])
  BY <1>1 DEF GeneratedSet, SoundConfig, Range
<1>3. \A gen \in Generators(config[p]) : Range(gen.Files) \subseteq outputs[p]
  BY <1>1 DEF GeneratedSet, Generators
<1> QED
  BY <1>2, <1>3 DEF Prepared, ConfigOutputs


-----------------------------------------------------------------------------
(***************************************************************************)
(* Types.                                                                   *)
(***************************************************************************)
LEMMA ContentTyped ==
    ASSUME NEW p \in Invocations, NEW path \in Paths, config[p] \in Configs
    PROVE  Content(p, path) \in Contents
BY DEF Content, Contents, Texts

LEMMA TempTyped ==
    ASSUME NEW path \in Paths, NEW content \in Contents
    PROVE  TempOf(path, content) \in Temps
BY GenerateAssumption DEF TempOf, Temps

LEMMA InitType == Init => TypeOK
<1> SUFFICES ASSUME Init PROVE TypeOK
  OBVIOUS
<1>1. disk \in [Locations -> Contents]
  <2>1. Initial \in [Locations -> Range(Initial)]
    BY GenerateAssumption DEF Range, Locations
  <2> QED
    BY <2>1 DEF Init, Contents
<1> QED
  BY <1>1 DEF Init, TypeOK

LEMMA TypeStep ==
    ASSUME TypeOK, \A p \in Invocations : StartedInv(p) /\ PreparingInv(p), [Next]_vars
    PROVE  TypeOK'
<1> USE DEF files, preparation, given, search, GoTo, Fail
<1> DEFINE States == {"idle", "preparing"} \cup Emitting \cup Ended
<1>p. ASSUME NEW p \in Invocations, NEW s \in States, pc' = [pc EXCEPT ![p] = s]
      PROVE  pc' \in [Invocations -> States]
  BY <1>p DEF TypeOK
<1>s. {"preparing", "failed", "ok", "checking", "comparing", "writing", "created", "written", "crashed"} \subseteq States
  BY DEF Emitting, Ended
<1> HIDE DEF States
<1>t. TypeOK' <=> /\ disk' \in [Locations -> Contents]
                  /\ temp' \in [Invocations -> SUBSET Temps]
                  /\ config' \in [Invocations -> Configs \cup {NoConfig}]
                  /\ command' \in [Invocations -> Commands \cup {"none"}]
                  /\ pc' \in [Invocations -> States]
                  /\ next' \in [Invocations -> Nat \ {0}]
                  /\ generator' \in [Invocations -> Nat]
                  /\ outputs' \in [Invocations -> SUBSET Paths]
                  /\ todo' \in [Invocations -> SUBSET Paths]
                  /\ entries' \in [Invocations -> SUBSET Entries]
                  /\ stale' \in [Invocations -> SUBSET Entries]
                  /\ last' \in Invocations
  BY DEF TypeOK, States, Entries, Temps, Contents, Texts
<1>u. TypeOK <=> /\ disk \in [Locations -> Contents]
                 /\ temp \in [Invocations -> SUBSET Temps]
                 /\ config \in [Invocations -> Configs \cup {NoConfig}]
                 /\ command \in [Invocations -> Commands \cup {"none"}]
                 /\ pc \in [Invocations -> States]
                 /\ next \in [Invocations -> Nat \ {0}]
                 /\ generator \in [Invocations -> Nat]
                 /\ outputs \in [Invocations -> SUBSET Paths]
                 /\ todo \in [Invocations -> SUBSET Paths]
                 /\ entries \in [Invocations -> SUBSET Entries]
                 /\ stale \in [Invocations -> SUBSET Entries]
                 /\ last \in Invocations
  BY DEF TypeOK, States
<1>n. ASSUME NEW p \in Invocations, next' = [next EXCEPT ![p] = @ + 1]
      PROVE  next' \in [Invocations -> Nat \ {0}]
  <2>1. next[p] + 1 \in Nat \ {0}
    BY <1>u
  <2> QED
    BY <1>n, <2>1, <1>u, Zenon
<1>c. ASSUME NEW p \in Invocations, Running(p) PROVE config[p] \in Configs
  BY <1>c DEF Running, StartedInv
<1>1. ASSUME NEW p \in Invocations, Start(p) PROVE TypeOK'
  BY <1>1, <1>p, <1>s, <1>t, <1>u DEF Start
<1>2. ASSUME NEW p \in Invocations, AnalyzeSet(p) PROVE TypeOK'
  <2>1. next' \in [Invocations -> Nat \ {0}]
    BY <1>2, <1>n, <1>u DEF AnalyzeSet
  <2>2. generator' \in [Invocations -> Nat]
    BY <1>2, <1>u DEF AnalyzeSet
  <2>3. outputs' = outputs
    BY <1>2 DEF AnalyzeSet
  <2>4. pc' \in [Invocations -> States]
    BY <1>2, <1>p, <1>s, <1>u DEF AnalyzeSet
  <2> QED
    BY <1>2, <2>1, <2>2, <2>3, <2>4, <1>t, <1>u DEF AnalyzeSet
<1>3. ASSUME NEW p \in Invocations, RunGenerator(p) PROVE TypeOK'
  <2> DEFINE gen == config[p].SQL[next[p]].Gen[generator[p]]
  <2>1. Range(gen.Files) \subseteq Paths
    <3>1. pc[p] = "preparing" /\ generator[p] > 0 /\ config[p] \in Configs
      BY <1>3 DEF RunGenerator, StartedInv
    <3>2. next[p] \in 1 .. Len(config[p].SQL)
      BY <3>1, <1>u DEF PreparingInv
    <3>3. generator[p] \in 1 .. Len(config[p].SQL[next[p]].Gen)
      BY <3>1, <3>2, <1>u, ConfigShape DEF PreparingInv, GeneratedSoFar
    <3> QED
      BY <3>1, <3>2, <3>3, GeneratorOutputs, ConfigShape
  <2>2. /\ next' \in [Invocations -> Nat \ {0}]
        /\ generator' \in [Invocations -> Nat]
    <3>1. \/ NextGenerator(p)
          \/ UNCHANGED <<next, generator>>
      BY <1>3 DEF RunGenerator
    <3>2. CASE NextGenerator(p)
      <4>1. generator[p] + 1 \in Nat
        BY <1>u
      <4>2. \/ generator' = [generator EXCEPT ![p] = @ + 1] /\ next' = next
            \/ generator' = [generator EXCEPT ![p] = 0] /\ next' = [next EXCEPT ![p] = @ + 1]
        BY <3>2 DEF NextGenerator
      <4>3. generator' \in [Invocations -> Nat]
        BY <4>1, <4>2, <1>u
      <4>4. next' \in [Invocations -> Nat \ {0}]
        BY <4>2, <1>n, <1>u
      <4> QED
        BY <4>3, <4>4
    <3> QED
      BY <3>1, <3>2, <1>u
  <2>3. outputs' \in [Invocations -> SUBSET Paths]
    <3> HIDE DEF gen
    <3>1. outputs' = outputs \/ outputs' = [outputs EXCEPT ![p] = @ \cup Range(gen.Files)]
      BY <1>3 DEF RunGenerator, gen
    <3> QED
      BY <2>1, <3>1, <1>u
  <2>4. pc' \in [Invocations -> States]
    BY <1>3, <1>p, <1>s, <1>u DEF RunGenerator
  <2> QED
    BY <1>3, <2>2, <2>3, <2>4, <1>t, <1>u DEF RunGenerator
<1>4. ASSUME NEW p \in Invocations, PrepareEnd(p) PROVE TypeOK'
  BY <1>4, <1>p, <1>s, <1>t, <1>u DEF PrepareEnd
<1>5. ASSUME NEW p \in Invocations, ListDir(p) PROVE TypeOK'
  <2>1. \A dir, found : {[Temp |-> FALSE, Of |-> l] : l \in FilesIn(dir) \ found}
                        \cup {[Temp |-> TRUE, Of |-> q] : q \in TempsIn(dir)} \subseteq Entries
    BY DEF FilesIn, TempsIn, Entries
  <2>2. entries' \in [Invocations -> SUBSET Entries]
    BY <1>5, <2>1, <1>u DEF ListDir
  <2>3. pc' \in [Invocations -> States]
    BY <1>5, <1>p, <1>s, <1>u DEF ListDir
  <2> QED
    BY <1>5, <2>2, <2>3, <1>t, <1>u DEF ListDir
<1>6. ASSUME NEW p \in Invocations, Inspect(p) PROVE TypeOK'
  <2>1. entries' \in [Invocations -> SUBSET Entries] /\ stale' \in [Invocations -> SUBSET Entries]
    BY <1>6, <1>u DEF Inspect
  <2>2. pc' \in [Invocations -> States]
    BY <1>6, <1>p, <1>s, <1>u DEF Inspect
  <2> QED
    BY <1>6, <2>1, <2>2, <1>t, <1>u DEF Inspect
<1>7. ASSUME NEW p \in Invocations, StaleVerdict(p) PROVE TypeOK'
  BY <1>7, <1>p, <1>s, <1>t, <1>u DEF StaleVerdict
<1>8. ASSUME NEW p \in Invocations, Compare(p) PROVE TypeOK'
  BY <1>8, <1>p, <1>s, <1>t, <1>u DEF Compare, Done
<1>9. ASSUME NEW p \in Invocations, CompareEnd(p) PROVE TypeOK'
  BY <1>9, <1>p, <1>s, <1>t, <1>u DEF CompareEnd
<1>10. ASSUME NEW p \in Invocations, SkipUnchanged(p) PROVE TypeOK'
  BY <1>10, <1>t, <1>u DEF SkipUnchanged, Done
<1>11. ASSUME NEW p \in Invocations, CreateTemp(p) PROVE TypeOK'
  <2>1. temp' \in [Invocations -> SUBSET Temps]
    <3>1. PICK path \in todo[p] : temp' = [temp EXCEPT ![p] = {TempOf(path, Partial)}]
      BY <1>11 DEF CreateTemp
    <3>2. TempOf(path, Partial) \in Temps
      BY TempTyped, <1>u DEF Contents
    <3> QED
      BY <3>1, <3>2, <1>u
  <2> QED
    BY <1>11, <2>1, <1>p, <1>s, <1>t, <1>u DEF CreateTemp
<1>12. ASSUME NEW p \in Invocations, WriteTemp(p) PROVE TypeOK'
  <2>1. temp' \in [Invocations -> SUBSET Temps]
    <3>1. PICK path \in todo[p] :
              temp' = [temp EXCEPT ![p] = {[t EXCEPT !.Content = Content(p, path)] : t \in @}]
      BY <1>12 DEF WriteTemp
    <3>2. \E path2 \in todo[p] : AtOutput(p, "created", path2)
      BY <1>12 DEF WriteTemp
    <3>3. Content(p, path) \in Contents
      BY <3>2, ContentTyped, <1>c, <1>u DEF AtOutput, Running, Ended
    <3>4. \A t \in Temps : [t EXCEPT !.Content = Content(p, path)] \in Temps
      BY <3>3 DEF Temps
    <3> QED
      BY <3>1, <3>4, <1>u
  <2> QED
    BY <1>12, <2>1, <1>p, <1>s, <1>t, <1>u DEF WriteTemp
<1>13. ASSUME NEW p \in Invocations, RenameTemp(p) PROVE TypeOK'
  <2>1. disk' \in [Locations -> Contents]
    <3>1. PICK t \in temp[p], path \in todo[p] : disk' = [disk EXCEPT ![Canonical[path]] = t.Content]
      BY <1>13 DEF RenameTemp
    <3>2. t.Content \in Contents
      BY <1>u DEF Temps
    <3> QED
      BY <3>1, <3>2, <1>u
  <2>2. todo' \in [Invocations -> SUBSET Paths] /\ temp' \in [Invocations -> SUBSET Temps]
    BY <1>13, <1>u DEF RenameTemp, Done
  <2> QED
    BY <1>13, <2>1, <2>2, <1>p, <1>s, <1>t, <1>u DEF RenameTemp
<1>14. ASSUME NEW p \in Invocations, WriteFails(p) PROVE TypeOK'
  BY <1>14, <1>p, <1>s, <1>t, <1>u DEF WriteFails
<1>15. ASSUME NEW p \in Invocations, WriteEnd(p) PROVE TypeOK'
  BY <1>15, <1>p, <1>s, <1>t, <1>u DEF WriteEnd
<1>16. ASSUME NEW p \in Invocations, Crash(p) PROVE TypeOK'
  BY <1>16, <1>p, <1>s, <1>t, <1>u DEF Crash
<1>17. ASSUME NEW p \in Invocations, RemoveStale(p) PROVE TypeOK'
  <2>1. disk' \in [Locations -> Contents]
    BY <1>17, <1>u DEF RemoveStale, Contents
  <2>2. temp' \in [Invocations -> SUBSET Temps]
    BY <1>17, <1>u DEF RemoveStale
  <2> QED
    BY <1>17, <2>1, <2>2, <1>t, <1>u DEF RemoveStale
<1>18. ASSUME UNCHANGED vars PROVE TypeOK'
  BY <1>18, <1>t, <1>u DEF vars
<1> QED
  BY <1>1, <1>2, <1>3, <1>4, <1>5, <1>6, <1>7, <1>8, <1>9, <1>10, <1>11, <1>12,
     <1>13, <1>14, <1>15, <1>16, <1>17, <1>18 DEF Next, Step

-----------------------------------------------------------------------------
(***************************************************************************)
(* What an invocation knows of itself.                                      *)
(***************************************************************************)
Known(p) ==
    /\ StartedInv(p) /\ PreparingInv(p) /\ OutputsInv(p)
    /\ PreparedInv(p) /\ WrittenInv(p) /\ StaleInv(p)

Owned(p) ==
    <<config[p], command[p], pc[p], next[p], generator[p], outputs[p], todo[p],
      entries[p], stale[p]>>

\* An invocation that does not move still knows what it knew, even when its
\* temporary file is removed.
LEMMA KnownKept ==
    ASSUME NEW p \in Invocations, Known(p), UNCHANGED Owned(p), temp'[p] \in {temp[p], {}}
    PROVE  Known(p)'
<1>1. StartedInv(p)'
  BY DEF Known, Owned, StartedInv
<1>2. PreparingInv(p)'
  BY DEF Known, Owned, PreparingInv, GeneratedSet, GeneratedSoFar
<1>3. OutputsInv(p)'
  BY DEF Known, Owned, OutputsInv
<1>4. PreparedInv(p)'
  BY DEF Known, Owned, PreparedInv, Prepared, CanonicalRange
<1>5. WrittenInv(p)'
  BY DEF Known, Owned, WrittenInv, AtOutput, Content
<1>6. StaleInv(p)'
  BY DEF Known, Owned, StaleInv, CanonicalRange
<1> QED
  BY <1>1, <1>2, <1>3, <1>4, <1>5, <1>6 DEF Known

\* A step of an invocation that has started, which neither prepares more nor
\* searches for more.
MovesOn(p) ==
    /\ pc[p] # "idle"
    /\ pc'[p] \notin {"idle", "preparing", "checking"}
    /\ UNCHANGED <<config[p], command[p], next[p], generator[p], outputs[p], entries[p], stale[p]>>
    /\ todo'[p] \subseteq todo[p]
    /\ pc'[p] \in Emitting \/ temp'[p] # {} => pc[p] \in Emitting \/ temp[p] # {}
    /\ pc'[p] \in Emitting => pc[p] \in Emitting
    /\ pc'[p] = "comparing" => command[p] = "diff"
    /\ pc'[p] \in Replacing => command[p] = "generate"
    /\ pc'[p] = "ok" /\ command[p] = "generate" => pc[p] \in Emitting /\ todo'[p] = {}

LEMMA KnownMovingOn ==
    ASSUME NEW p \in Invocations, Known(p), MovesOn(p), WrittenInv(p)'
    PROVE  Known(p)'
<1>1. StartedInv(p)'
  BY DEF Known, MovesOn, StartedInv
<1>2. PreparingInv(p)'
  BY DEF MovesOn, PreparingInv
<1>3. OutputsInv(p)'
  BY DEF Known, MovesOn, OutputsInv
<1>4. PreparedInv(p)'
  BY DEF Known, MovesOn, PreparedInv, Prepared, CanonicalRange
<1>5. StaleInv(p)'
  BY DEF Known, MovesOn, StaleInv, CanonicalRange
<1> QED
  BY <1>1, <1>2, <1>3, <1>4, <1>5 DEF Known

LEMMA KnownStart ==
    ASSUME TypeOK, NEW p \in Invocations, Known(p), Start(p)
    PROVE  Known(p)'
<1>1. /\ pc[p] = "idle" /\ pc'[p] = "preparing" /\ config'[p] \in Configs
      /\ UNCHANGED <<temp, next, generator, outputs, todo, entries, stale>>
  BY DEF Start, TypeOK, files, preparation, search, GoTo
<1>2. next[p] = 1 /\ generator[p] = 0 /\ outputs[p] = {} /\ todo[p] = {}
      /\ temp[p] = {} /\ entries[p] = {} /\ stale[p] = {}
  BY <1>1 DEF Known, StartedInv
<1>3. Len(config'[p].SQL) \in Nat
  BY <1>1, ConfigShape
<1>4. PreparingInv(p)'
  BY <1>1, <1>2, <1>3 DEF PreparingInv
<1> QED
  BY <1>1, <1>2, <1>4 DEF Known, StartedInv, OutputsInv, PreparedInv, WrittenInv, StaleInv,
                          Emitting, Replacing

\* A failure while preparing or searching.
LEMMA KnownFailing ==
    ASSUME TypeOK, NEW p \in Invocations, Known(p), Running(p), Fail(p),
           UNCHANGED <<config, command, next, generator, outputs, entries, stale, todo, temp>>
    PROVE  Known(p)'
<1>1. pc[p] # "idle" /\ pc'[p] = "failed"
  BY DEF TypeOK, Fail, GoTo, Running
<1>2. MovesOn(p) /\ WrittenInv(p)'
  BY <1>1 DEF MovesOn, WrittenInv, Emitting, Replacing
<1> QED
  BY <1>2, KnownMovingOn

LEMMA KnownAnalyzeSet ==
    ASSUME TypeOK, NEW p \in Invocations, Known(p), AnalyzeSet(p)
    PROVE  Known(p)'
<1> DEFINE set == config[p].SQL[next[p]]
           generates == command[p] # "compile"
           accepted == AnalyzesSet(set) /\ (generates => Len(set.Gen) > 0)
<1>1. /\ pc[p] = "preparing" /\ generator[p] = 0 /\ next[p] <= Len(config[p].SQL)
      /\ UNCHANGED <<config, command, temp, todo, entries, stale>>
  BY DEF AnalyzeSet, files, given, search
<1>2. config[p] \in Configs /\ next[p] \in 1 .. Len(config[p].SQL)
  BY <1>1, ConfigShape DEF Known, StartedInv, TypeOK
<1>3. CASE ~accepted /\ Fail(p) /\ UNCHANGED preparation
  BY <1>1, <1>3, KnownFailing DEF Running, Ended, preparation
<1>4. CASE /\ accepted /\ generates
           /\ generator' = [generator EXCEPT ![p] = 1]
           /\ UNCHANGED <<pc, next, outputs>>
  <2>1. generator'[p] = 1
    BY <1>4 DEF TypeOK
  <2>2. set.Sound /\ Len(set.Gen) > 0
    BY <1>4 DEF AnalyzesSet
  <2>3. Len(set.Gen) \in Nat
    BY <1>2, ConfigShape
  <2>4. PreparingInv(p)'
    BY <1>1, <1>2, <1>4, <2>1, <2>2, <2>3 DEF Known, PreparingInv, GeneratedSet, GeneratedSoFar
  <2> QED
    BY <1>1, <1>4, <2>4 DEF Known, StartedInv, OutputsInv, PreparedInv, WrittenInv, StaleInv,
                            Prepared, CanonicalRange, Emitting, Replacing
<1>5. CASE /\ accepted /\ ~generates
           /\ next' = [next EXCEPT ![p] = @ + 1]
           /\ UNCHANGED <<pc, generator, outputs>>
  <2>1. PreparingInv(p)'
    BY <1>1, <1>5 DEF PreparingInv
  <2> QED
    BY <1>1, <1>5, <2>1 DEF Known, StartedInv, OutputsInv, PreparedInv, WrittenInv, StaleInv,
                            Prepared, CanonicalRange, Emitting, Replacing
<1> QED
  BY <1>3, <1>4, <1>5 DEF AnalyzeSet

\* Files that add accepts have locations of their own.
LEMMA AddSeparates ==
    ASSUME NEW p \in Invocations, NEW paths \in Seq(Paths), AddAccepts(p, paths), OutputsInv(p)
    PROVE  \A a, b \in outputs[p] \cup Range(paths) : Canonical[a] = Canonical[b] => a = b
<1>1. \A a \in outputs[p], b \in Range(paths) : Canonical[a] # Canonical[b]
  BY DEF AddAccepts, CanonicalRange, Range
<1>2. \A a, b \in Range(paths) : Canonical[a] = Canonical[b] => a = b
  BY DEF AddAccepts, Range
<1> QED
  BY <1>1, <1>2 DEF OutputsInv

LEMMA KnownRunGenerator ==
    ASSUME TypeOK, NEW p \in Invocations, Known(p), RunGenerator(p)
    PROVE  Known(p)'
<1> PICK sets : sets = config[p].SQL
  OBVIOUS
<1> PICK set : set = sets[next[p]]
  OBVIOUS
<1> PICK gen : gen = set.Gen[generator[p]]
  OBVIOUS
<1>1. /\ pc[p] = "preparing" /\ generator[p] > 0
      /\ UNCHANGED <<config, command, temp, todo, entries, stale>>
  BY DEF RunGenerator, files, given, search
<1>2. config[p] \in Configs /\ command[p] # "compile" /\ next[p] \in 1 .. Len(sets)
  BY <1>1 DEF Known, StartedInv, PreparingInv, TypeOK
<1>len. Len(sets) \in Nat /\ next[p] \in Nat
  BY <1>2, ConfigShape DEF TypeOK
<1>3. set.Gen \in Seq(Range(set.Gen)) /\ Len(set.Gen) \in Nat
  BY <1>2, ConfigShape
<1>4. GeneratedSoFar(p, set)
  BY <1>1 DEF Known, PreparingInv
<1>5. generator[p] \in 1 .. Len(set.Gen)
  BY <1>1, <1>3, <1>4 DEF GeneratedSoFar, TypeOK
<1>6. \/ Fail(p) /\ UNCHANGED preparation
      \/ /\ gen.Sound /\ AddAccepts(p, gen.Files)
         /\ outputs' = [outputs EXCEPT ![p] = @ \cup Range(gen.Files)]
         /\ NextGenerator(p)
         /\ UNCHANGED pc
  BY DEF RunGenerator
<1>7. CASE Fail(p) /\ UNCHANGED preparation
  BY <1>1, <1>7, KnownFailing DEF Running, Ended, preparation
<1>8. CASE /\ gen.Sound /\ AddAccepts(p, gen.Files)
           /\ outputs' = [outputs EXCEPT ![p] = @ \cup Range(gen.Files)]
           /\ NextGenerator(p)
           /\ UNCHANGED pc
  <2>1. outputs'[p] = outputs[p] \cup Range(gen.Files)
    BY <1>8 DEF TypeOK
  <2>2. gen \in Range(set.Gen) /\ Range(gen.Files) \subseteq ConfigOutputs(config[p])
    BY <1>2, <1>5, GeneratorOutputs
  <2>3. gen.Files \in Seq(Paths)
    <3>1. set \in Range(config[p].SQL)
      BY <1>2, ConfigShape DEF Range
    <3> QED
      BY <1>2, <2>2, <3>1, GenerateAssumption DEF IsConfig
  <2>4. OutputsInv(p)'
    <3>1. \A a, b \in outputs'[p] : Canonical[a] = Canonical[b] => a = b
      BY <1>8, <2>1, <2>3, AddSeparates DEF Known
    <3> QED
      BY <1>1, <2>1, <2>2, <3>1 DEF Known, OutputsInv
  <2>5. \A g \in 1 .. generator[p] :
            set.Gen[g].Sound /\ Range(set.Gen[g].Files) \subseteq outputs'[p]
    <3>1. \A g \in 1 .. generator[p] - 1 :
              set.Gen[g].Sound /\ Range(set.Gen[g].Files) \subseteq outputs[p]
      BY <1>4 DEF GeneratedSoFar
    <3> HIDE <1>4
    <3>2. \A g \in 1 .. generator[p] : g \in 1 .. generator[p] - 1 \/ g = generator[p]
      BY <1>5
    <3> QED
      BY <1>8, <2>1, <3>1, <3>2
  <2>6. \A k \in 1 .. next[p] - 1 : GeneratedSet(p, sets[k])'
    <3>1. \A k \in 1 .. next[p] - 1 : GeneratedSet(p, sets[k])
      BY <1>1, <1>2 DEF Known, PreparingInv
    <3> QED
      BY <2>1, <3>1 DEF GeneratedSet
  <2>7. pc'[p] = "preparing" /\ config'[p].SQL = sets /\ command'[p] # "compile"
    BY <1>1, <1>2, <1>8
  <2>8. \/ /\ generator[p] < Len(set.Gen)
           /\ generator'[p] = generator[p] + 1 /\ next'[p] = next[p]
        \/ /\ ~(generator[p] < Len(set.Gen))
           /\ generator'[p] = 0 /\ next'[p] = next[p] + 1
    BY <1>8 DEF NextGenerator, TypeOK
  <2>9. ASSUME generator[p] < Len(set.Gen),
               generator'[p] = generator[p] + 1 /\ next'[p] = next[p]
        PROVE  PreparingInv(p)'
    <3>1. GeneratedSoFar(p, set)'
      <4>1. \A g \in 1 .. generator'[p] - 1 : g \in 1 .. generator[p]
        BY <1>5, <2>9
      <4>2. generator'[p] <= Len(set.Gen)
        BY <1>3, <1>5, <2>9
      <4>3. set.Sound
        BY <1>4 DEF GeneratedSoFar
      <4> QED
        BY <2>5, <4>1, <4>2, <4>3 DEF GeneratedSoFar
    <3>2. next'[p] <= Len(sets) + 1 /\ next'[p] <= Len(sets)
      BY <1>2, <1>len, <2>9
    <3>3. \A k \in 1 .. next'[p] - 1 : GeneratedSet(p, sets[k])'
      BY <2>6, <2>9
    <3> QED
      BY <2>7, <2>9, <3>1, <3>2, <3>3
         DEF PreparingInv, GeneratedSet, GeneratedSoFar
  <2>10. ASSUME ~(generator[p] < Len(set.Gen)),
                generator'[p] = 0 /\ next'[p] = next[p] + 1
         PROVE  PreparingInv(p)'
    <3>1. generator[p] = Len(set.Gen)
      BY <1>3, <1>5, <2>10
    <3>2. GeneratedSet(p, set)'
      <4>1. \A gn \in Range(set.Gen) : \E g \in 1 .. generator[p] : gn = set.Gen[g]
        BY <1>3, <3>1 DEF Range
      <4>2. set.Sound
        BY <1>4 DEF GeneratedSoFar
      <4> QED
        BY <2>5, <4>1, <4>2 DEF GeneratedSet
    <3>3. \A k \in 1 .. next'[p] - 1 : GeneratedSet(p, sets[k])'
      <4>1. \A k \in 1 .. next'[p] - 1 : k \in 1 .. next[p] - 1 \/ k = next[p]
        BY <1>2, <2>10
      <4> QED
        BY <2>6, <3>2, <4>1
    <3>4. next'[p] <= Len(sets) + 1
      BY <1>2, <1>len, <2>10
    <3>5. ~(generator'[p] > 0)
      BY <2>10
    <3> QED
      BY <2>7, <3>3, <3>4, <3>5 DEF PreparingInv, GeneratedSet
  <2>11. PreparingInv(p)'
    BY <2>8, <2>9, <2>10
  <2>12. StartedInv(p)' /\ entries'[p] = {} /\ stale'[p] = {} /\ temp'[p] = {}
    BY <1>1, <1>8 DEF Known, StartedInv
  <2> QED
    BY <2>4, <2>7, <2>11, <2>12 DEF Known, PreparedInv, WrittenInv, StaleInv, Emitting, Replacing
<1> QED
  BY <1>6, <1>7, <1>8

LEMMA KnownPrepareEnd ==
    ASSUME TypeOK, NEW p \in Invocations, Known(p), PrepareEnd(p)
    PROVE  Known(p)'
<1>1. /\ pc[p] = "preparing" /\ generator[p] = 0 /\ next[p] > Len(config[p].SQL)
      /\ UNCHANGED <<config, command, temp, next, generator, outputs, entries, stale>>
  BY DEF PrepareEnd, files, given, preparation
<1>2. CASE Fail(p) /\ UNCHANGED todo
  BY <1>1, <1>2, KnownFailing DEF Running, Ended
<1>3. CASE command[p] = "compile" /\ GoTo(p, "ok") /\ UNCHANGED todo
  <2>1. pc'[p] = "ok"
    BY <1>3 DEF GoTo, TypeOK
  <2>2. MovesOn(p) /\ WrittenInv(p)'
    BY <1>1, <1>3, <2>1 DEF MovesOn, WrittenInv, Emitting, Replacing
  <2> QED
    BY <2>2, KnownMovingOn
<1>4. CASE /\ OutputsSeparate(p) /\ command[p] # "compile"
           /\ todo' = [todo EXCEPT ![p] = outputs[p]]
           /\ GoTo(p, "checking")
  <2>1. pc'[p] = "checking" /\ todo'[p] = outputs[p]
    BY <1>4 DEF GoTo, TypeOK
  <2>2. config[p] \in Configs
    BY <1>1 DEF Known, StartedInv
  <2>3. Prepared(p)
    <3>1. \A k \in 1 .. Len(config[p].SQL) : GeneratedSet(p, config[p].SQL[k])
      <4>1. /\ next[p] <= Len(config[p].SQL) + 1
            /\ \A k \in 1 .. next[p] - 1 : GeneratedSet(p, config[p].SQL[k])
        BY <1>1, <1>4 DEF Known, PreparingInv
      <4>2. Len(config[p].SQL) \in Nat /\ next[p] \in Nat
        BY <2>2, ConfigShape DEF TypeOK
      <4>3. 1 .. Len(config[p].SQL) = 1 .. next[p] - 1
        BY <1>1, <4>1, <4>2
      <4> QED
        BY <4>1, <4>3
    <3> QED
      BY <2>2, <3>1, AllGenerated
  <2>4. CanonicalRange(outputs[p]) \cap InputLocations(config[p]) = {}
    BY <1>4 DEF OutputsSeparate
  <2> QED
    BY <1>1, <2>1, <2>2, <2>3, <2>4 DEF Known, StartedInv, PreparingInv, OutputsInv, PreparedInv,
       Prepared, CanonicalRange, WrittenInv, StaleInv, Emitting, Replacing
<1> QED
  BY <1>2, <1>3, <1>4 DEF PrepareEnd

LEMMA KnownListDir ==
    ASSUME TypeOK, NEW p \in Invocations, Known(p), ListDir(p)
    PROVE  Known(p)'
<1>1. /\ pc[p] = "checking"
      /\ UNCHANGED <<config, command, temp, next, generator, outputs, todo, stale>>
  BY DEF ListDir, files, given, preparation
<1>2. CASE Fail(p) /\ UNCHANGED entries
  BY <1>1, <1>2, KnownFailing DEF Running, Ended
<1>3. ASSUME NEW dir \in dirs[p], UNCHANGED pc,
             entries' = [entries EXCEPT ![p] =
                 {[Temp |-> FALSE, Of |-> l] : l \in FilesIn(dir) \ CanonicalRange(outputs[p])}
                 \cup {[Temp |-> TRUE, Of |-> q] : q \in TempsIn(dir)}]
      PROVE  Known(p)'
  <2>1. \A e \in entries'[p] : ~e.Temp => e.Of \notin CanonicalRange(outputs[p])
    BY <1>3 DEF TypeOK
  <2>2. StaleInv(p)'
    BY <1>1, <2>1 DEF Known, StaleInv, CanonicalRange
  <2>3. PreparedInv(p)'
    BY <1>1, <1>3 DEF Known, PreparedInv, Prepared, CanonicalRange, Emitting, Replacing
  <2> QED
    BY <1>1, <1>3, <2>2, <2>3 DEF Known, StartedInv, PreparingInv, OutputsInv, WrittenInv
<1> QED
  BY <1>2, <1>3 DEF ListDir

LEMMA KnownInspect ==
    ASSUME TypeOK, InputsInv, NEW p \in Invocations, Known(p), Inspect(p)
    PROVE  Known(p)'
<1>1. /\ pc[p] = "checking"
      /\ UNCHANGED <<config, command, temp, next, generator, outputs, todo>>
  BY DEF Inspect, files, given, preparation
<1>2. CASE Fail(p) /\ UNCHANGED <<entries, stale>>
  BY <1>1, <1>2, KnownFailing DEF Running, Ended
<1>3. ASSUME NEW entry \in entries[p], UNCHANGED pc,
             NEW found \in hasGeneratedHeader(EntryContent(entry)),
             stale' = [stale EXCEPT ![p] = IF found THEN @ \cup {entry} ELSE @],
             entries' = [entries EXCEPT ![p] = @ \ {entry}]
      PROVE  Known(p)'
  <2>1. /\ stale'[p] = IF found THEN stale[p] \cup {entry} ELSE stale[p]
        /\ entries'[p] = entries[p] \ {entry}
    BY <1>3 DEF TypeOK
  <2>2. ASSUME found, ~entry.Temp, NEW c \in Configs, entry.Of \in InputLocations(c)
        PROVE  FALSE
    <3>1. disk[entry.Of] = Initial[entry.Of] /\ entry.Of \in Locations
      BY <2>2, ConfigShape DEF InputsInv
    <3>2. EntryContent(entry) = Initial[entry.Of]
      BY <2>2, <3>1 DEF EntryContent
    <3>3. EntryContent(entry) \in {Absent, Handwritten}
      BY <2>2, <3>1, <3>2, GenerateAssumption, InputsAssumption
    <3>4. EntryContent(entry) # Partial /\ ~IsGenerated(EntryContent(entry))
      BY <3>3, ContentsAreRecords
    <3>5. hasGeneratedHeader(EntryContent(entry)) = {FALSE}
      BY <3>4 DEF hasGeneratedHeader
    <3> QED
      BY <1>3, <2>2, <3>5
  <2>3. StaleInv(p)'
    BY <1>1, <2>1, <2>2 DEF Known, StaleInv, CanonicalRange
  <2>4. PreparedInv(p)'
    BY <1>1, <1>3 DEF Known, PreparedInv, Prepared, CanonicalRange, Emitting, Replacing
  <2> QED
    BY <1>1, <1>3, <2>3, <2>4 DEF Known, StartedInv, PreparingInv, OutputsInv, WrittenInv
<1> QED
  BY <1>2, <1>3 DEF Inspect

\* What WriteTemp puts into the temporary file belongs to the output.
LEMMA WrittenByWriteTemp ==
    ASSUME TypeOK, NEW p \in Invocations, Known(p), WriteTemp(p)
    PROVE  WrittenInv(p)'
<1>1. PICK path \in todo[p] :
          /\ AtOutput(p, "created", path)
          /\ temp' = [temp EXCEPT ![p] = {[t EXCEPT !.Content = Content(p, path)] : t \in @}]
  BY DEF WriteTemp
<1>2. /\ pc[p] = "created" /\ todo' = todo /\ config' = config
      /\ temp'[p] = {[t EXCEPT !.Content = Content(p, path)] : t \in temp[p]}
  BY <1>1 DEF WriteTemp, TypeOK, AtOutput, given
<1>3. \A t \in temp'[p] : t.Content = Content(p, path)
  BY <1>2 DEF TypeOK, Temps
<1>4. ASSUME NEW other \in todo[p], \A o \in todo[p] : Rank(other) <= Rank(o) PROVE other = path
  BY <1>1, <1>2, <1>4, OneOutput DEF AtOutput
<1> QED
  BY <1>2, <1>3, <1>4 DEF WrittenInv, AtOutput, Content

LEMMA KnownLater ==
    ASSUME TypeOK, NEW p \in Invocations, Known(p),
           \/ StaleVerdict(p) \/ Compare(p) \/ CompareEnd(p) \/ SkipUnchanged(p)
           \/ CreateTemp(p) \/ WriteTemp(p) \/ RenameTemp(p) \/ WriteFails(p)
           \/ WriteEnd(p) \/ Crash(p)
    PROVE  Known(p)'
<1> USE DEF files, given, preparation, search, GoTo, Fail
<1> USE DEF Emitting, Replacing, Ended
<1>1. CASE StaleVerdict(p)
  <2>1. MovesOn(p) /\ WrittenInv(p)'
    BY <1>1 DEF StaleVerdict, MovesOn, WrittenInv, TypeOK
  <2> QED
    BY <2>1, KnownMovingOn
<1>2. CASE Compare(p)
  <2>1. MovesOn(p) /\ WrittenInv(p)'
    BY <1>2 DEF Compare, MovesOn, WrittenInv, TypeOK, AtOutput, Done, Known, PreparedInv
  <2> QED
    BY <2>1, KnownMovingOn
<1>3. CASE CompareEnd(p)
  <2>1. MovesOn(p) /\ WrittenInv(p)'
    BY <1>3 DEF CompareEnd, MovesOn, WrittenInv, TypeOK, AfterOutputs
  <2> QED
    BY <2>1, KnownMovingOn
<1>4. CASE SkipUnchanged(p)
  <2>1. MovesOn(p) /\ WrittenInv(p)'
    BY <1>4 DEF SkipUnchanged, MovesOn, WrittenInv, TypeOK, AtOutput, Done, Known, PreparedInv
  <2> QED
    BY <2>1, KnownMovingOn
<1>5. CASE CreateTemp(p)
  <2>1. MovesOn(p) /\ WrittenInv(p)'
    BY <1>5 DEF CreateTemp, MovesOn, WrittenInv, TypeOK, AtOutput, Known, PreparedInv
  <2> QED
    BY <2>1, KnownMovingOn
<1>6. CASE WriteTemp(p)
  <2>1. MovesOn(p)
    BY <1>6 DEF WriteTemp, MovesOn, TypeOK, AtOutput, Known, PreparedInv
  <2> QED
    BY <1>6, <2>1, KnownMovingOn, WrittenByWriteTemp
<1>7. CASE RenameTemp(p)
  <2>1. MovesOn(p) /\ WrittenInv(p)'
    BY <1>7 DEF RenameTemp, MovesOn, WrittenInv, TypeOK, AtOutput, Done, Known, PreparedInv
  <2> QED
    BY <2>1, KnownMovingOn
<1>8. CASE WriteFails(p)
  <2>1. MovesOn(p) /\ WrittenInv(p)'
    BY <1>8 DEF WriteFails, MovesOn, WrittenInv, TypeOK, AtOutput
  <2> QED
    BY <2>1, KnownMovingOn
<1>9. CASE WriteEnd(p)
  <2>1. MovesOn(p) /\ WrittenInv(p)'
    BY <1>9 DEF WriteEnd, MovesOn, WrittenInv, TypeOK, AfterOutputs
  <2> QED
    BY <2>1, KnownMovingOn
<1>10. CASE Crash(p)
  <2>1. MovesOn(p) /\ WrittenInv(p)'
    BY <1>10 DEF Crash, Running, MovesOn, WrittenInv, TypeOK
  <2> QED
    BY <2>1, KnownMovingOn
<1> QED
  BY <1>1, <1>2, <1>3, <1>4, <1>5, <1>6, <1>7, <1>8, <1>9, <1>10

\* A step of one invocation leaves what the others own alone.
LEMMA OthersKept ==
    ASSUME TypeOK, NEW p \in Invocations, Start(p) \/ Step(p) \/ Crash(p),
           NEW q \in Invocations, q # p
    PROVE  UNCHANGED Owned(q) /\ temp'[q] = temp[q]
<1> USE DEF files, given, preparation, search, GoTo, Fail, Owned, TypeOK
<1>1. CASE Start(p) \/ AnalyzeSet(p) \/ PrepareEnd(p)
  BY <1>1 DEF Start, AnalyzeSet, PrepareEnd
<1>2. CASE RunGenerator(p)
  BY <1>2 DEF RunGenerator, NextGenerator
<1>3. CASE ListDir(p) \/ Inspect(p) \/ StaleVerdict(p)
  BY <1>3 DEF ListDir, Inspect, StaleVerdict
<1>4. CASE Compare(p) \/ CompareEnd(p) \/ SkipUnchanged(p) \/ CreateTemp(p)
  BY <1>4 DEF Compare, CompareEnd, SkipUnchanged, CreateTemp, Done
<1>5. CASE WriteTemp(p) \/ RenameTemp(p) \/ WriteFails(p) \/ WriteEnd(p) \/ Crash(p)
  BY <1>5 DEF WriteTemp, RenameTemp, WriteFails, WriteEnd, Crash, Done
<1> QED
  BY <1>1, <1>2, <1>3, <1>4, <1>5 DEF Step

LEMMA KnownStep ==
    ASSUME TypeOK, InputsInv, \A p \in Invocations : Known(p), [Next]_vars
    PROVE  \A p \in Invocations : Known(p)'
<1> SUFFICES ASSUME NEW q \in Invocations PROVE Known(q)'
  OBVIOUS
<1>1. ASSUME NEW p \in Invocations, Start(p) \/ Step(p) \/ Crash(p) PROVE Known(q)'
  <2>1. CASE q # p
    BY <1>1, <2>1, OthersKept, KnownKept
  <2>2. CASE q = p
    BY <1>1, <2>2, KnownStart, KnownAnalyzeSet, KnownRunGenerator, KnownPrepareEnd,
       KnownListDir, KnownInspect, KnownLater DEF Step
  <2> QED
    BY <2>1, <2>2
<1>2. ASSUME NEW p \in Invocations, RemoveStale(p) PROVE Known(q)'
  <2>1. UNCHANGED Owned(q) /\ temp'[q] \in {temp[q], {}}
    BY <1>2 DEF RemoveStale, TypeOK, Owned, given, preparation, search
  <2> QED
    BY <2>1, KnownKept
<1>3. CASE UNCHANGED vars
  <2>1. UNCHANGED Owned(q) /\ temp'[q] = temp[q]
    BY <1>3 DEF vars, Owned
  <2> QED
    BY <2>1, KnownKept
<1> QED
  BY <1>1, <1>2, <1>3 DEF Next

-----------------------------------------------------------------------------
(***************************************************************************)
(* The disk.                                                                *)
(***************************************************************************)

\* p puts the complete text of one of its outputs in place.
Renames(p, path) ==
    /\ path \in todo[p] /\ pc[p] = "written"
    /\ disk' = [disk EXCEPT ![Canonical[path]] = Content(p, path)]
    /\ todo' = [todo EXCEPT ![p] = @ \ {path}]
    /\ pc' = [pc EXCEPT ![p] = "writing"]
    /\ UNCHANGED <<config, command, outputs>>

\* The user removes a file that the last invocation reported.
Removes(p, entry) ==
    /\ entry \in stale[p] /\ ~entry.Temp /\ pc[p] = "failed" /\ last = p
    /\ disk' = [disk EXCEPT ![entry.Of] = Absent]
    /\ UNCHANGED <<config, command, pc, outputs, todo>>

LEMMA RenameRenames ==
    ASSUME \A p \in Invocations : Known(p), NEW p \in Invocations, RenameTemp(p)
    PROVE  \E path \in todo[p] : Renames(p, path)
<1>1. PICK path \in todo[p] :
          /\ AtOutput(p, "written", path)
          /\ \E t \in temp[p] : disk' = [disk EXCEPT ![Canonical[path]] = t.Content]
          /\ Done(p, path)
  BY DEF RenameTemp
<1>2. \A t \in temp[p] : t.Content = Content(p, path)
  BY <1>1 DEF Known, WrittenInv, AtOutput
<1>3. Renames(p, path)
  BY <1>1, <1>2 DEF RenameTemp, Renames, AtOutput, Done, GoTo, given, preparation
<1> QED
  BY <1>3

LEMMA RemoveStaleRemoves ==
    ASSUME NEW p \in Invocations, RemoveStale(p)
    PROVE  \/ UNCHANGED <<disk, config, command, pc, outputs, todo>>
           \/ \E entry \in stale[p] : Removes(p, entry)
BY DEF RemoveStale, Removes, given, preparation

\* There is no other change of a file.
LEMMA DiskStays ==
    ASSUME NEW p \in Invocations, Start(p) \/ Step(p) \/ Crash(p), ~RenameTemp(p)
    PROVE  UNCHANGED disk
<1> USE DEF files
<1>1. CASE Start(p) \/ AnalyzeSet(p) \/ RunGenerator(p) \/ PrepareEnd(p) \/ ListDir(p) \/ Inspect(p)
  BY <1>1 DEF Start, AnalyzeSet, RunGenerator, PrepareEnd, ListDir, Inspect
<1>2. CASE StaleVerdict(p) \/ Compare(p) \/ CompareEnd(p) \/ SkipUnchanged(p) \/ CreateTemp(p)
  BY <1>2 DEF StaleVerdict, Compare, CompareEnd, SkipUnchanged, CreateTemp
<1>3. CASE WriteTemp(p) \/ WriteFails(p) \/ WriteEnd(p) \/ Crash(p)
  BY <1>3 DEF WriteTemp, WriteFails, WriteEnd, Crash
<1> QED
  BY <1>1, <1>2, <1>3 DEF Step

LEMMA DiskSteps ==
    ASSUME \A p \in Invocations : Known(p), [Next]_vars
    PROVE  \/ UNCHANGED disk
           \/ \E p \in Invocations : \E path \in todo[p] : Renames(p, path)
           \/ \E p \in Invocations : \E entry \in stale[p] : Removes(p, entry)
<1>1. CASE UNCHANGED vars
  BY <1>1 DEF vars
<1> QED
  BY <1>1, RenameRenames, RemoveStaleRemoves, DiskStays DEF Next, Step

\* Where an output of a running invocation lies.
LEMMA RenamedOutput ==
    ASSUME TypeOK, NEW p \in Invocations, Known(p), NEW path \in todo[p], Renames(p, path)
    PROVE  /\ config[p] \in Configs /\ command[p] = "generate" /\ Running(p)
           /\ path \in ConfigOutputs(config[p]) /\ path \in outputs[p]
           /\ Canonical[path] \in Locations
           /\ Canonical[path] \notin InputLocations(config[p])
           /\ SoundConfig(config[p])
<1>1. pc[p] = "written" /\ path \in todo[p]
  BY DEF Renames
<1>2. config[p] \in Configs /\ command[p] = "generate" /\ Running(p) /\ SoundConfig(config[p])
  BY <1>1 DEF Known, StartedInv, PreparedInv, Prepared, Running, Ended, Emitting, Replacing
<1>3. path \in outputs[p] /\ path \in ConfigOutputs(config[p])
  BY <1>1 DEF Known, OutputsInv
<1>4. Canonical[path] \in Locations
  BY <1>3, GenerateAssumption DEF TypeOK
<1>5. Canonical[path] \notin InputLocations(config[p])
  BY <1>1, <1>3 DEF Known, PreparedInv, CanonicalRange, Emitting
<1> QED
  BY <1>2, <1>3, <1>4, <1>5

LEMMA DiskInvStep ==
    ASSUME TypeOK, DiskInv, \A p \in Invocations : Known(p), [Next]_vars
    PROVE  DiskInv'
<1> SUFFICES ASSUME NEW l \in Locations
             PROVE  \/ disk'[l] \in {Initial[l], Absent}
                    \/ \E c \in Configs, path \in Paths :
                          SoundConfig(c) /\ disk'[l] = Generated(c.Text, path)
  BY DEF DiskInv
<1>1. CASE UNCHANGED disk
  BY <1>1 DEF DiskInv
<1>2. ASSUME NEW p \in Invocations, NEW path \in todo[p], Renames(p, path)
      PROVE  \/ disk'[l] = disk[l]
             \/ SoundConfig(config[p]) /\ disk'[l] = Generated(config[p].Text, path)
  <2>1. SoundConfig(config[p]) /\ Canonical[path] \in Locations
    BY <1>2, RenamedOutput
  <2>2. disk' = [disk EXCEPT ![Canonical[path]] = Generated(config[p].Text, path)]
    BY <1>2 DEF Renames, Content
  <2>3. disk \in [Locations -> Contents]
    BY DEF TypeOK
  <2> QED
    BY <2>1, <2>2, <2>3
<1>3. ASSUME NEW p \in Invocations, NEW entry \in stale[p], Removes(p, entry)
      PROVE  disk'[l] = disk[l] \/ disk'[l] = Absent
  BY <1>3 DEF Removes, TypeOK
<1> QED
  BY <1>1, <1>2, <1>3, DiskSteps, RenamedOutput DEF DiskInv, TypeOK

LEMMA InputsInvStep ==
    ASSUME TypeOK, InputsInv, \A p \in Invocations : Known(p), [Next]_vars
    PROVE  InputsInv'
<1> SUFFICES ASSUME NEW c \in Configs, NEW l \in InputLocations(c)
             PROVE  disk'[l] = disk[l]
  BY DEF InputsInv
<1>1. l \in Locations
  BY ConfigShape
<1>2. ASSUME NEW p \in Invocations, NEW path \in todo[p], Renames(p, path)
      PROVE  disk'[l] = disk[l]
  <2>1. Canonical[path] # l
    BY <1>2, RenamedOutput, InputsAssumption
  <2> QED
    BY <1>1, <1>2, <2>1 DEF Renames, TypeOK
<1>3. ASSUME NEW p \in Invocations, NEW entry \in stale[p], Removes(p, entry)
      PROVE  disk'[l] = disk[l]
  <2>1. entry.Of # l
    BY <1>3 DEF Known, StaleInv, Removes
  <2> QED
    BY <1>1, <1>3, <2>1 DEF Removes, TypeOK
<1> QED
  BY <1>2, <1>3, DiskSteps

-----------------------------------------------------------------------------
(***************************************************************************)
(* Invocations of one configuration.                                        *)
(***************************************************************************)

\* How far a step of q takes what p has dealt with.
LEMMA DealtWith ==
    ASSUME TypeOK, NEW p \in Invocations, Known(p), Known(p)',
           NEW q \in Invocations, Start(q) \/ Step(q) \/ Crash(q), ~RenameTemp(q),
           pc'[p] \in Replacing \/ (pc'[p] = "ok" /\ command'[p] = "generate")
    PROVE  /\ config'[p] = config[p] /\ outputs'[p] = outputs[p]
           /\ \/ /\ pc[p] \in Replacing \/ (pc[p] = "ok" /\ command[p] = "generate")
                 /\ todo'[p] = todo[p]
              \/ todo'[p] = outputs[p]
              \/ \E path \in todo[p] :
                    /\ pc[p] \in Replacing /\ todo'[p] = todo[p] \ {path}
                    /\ UpToDate(p, path)
<1> USE DEF files, given, preparation, search, GoTo, Fail, Emitting, Replacing, Ended
<1>1. CASE q # p
  BY <1>1, OthersKept DEF Owned
<1>2. CASE q = p
  <2>1. CASE Start(p)
    BY <2>1 DEF Start, TypeOK
  <2>2. CASE AnalyzeSet(p)
    BY <2>2 DEF AnalyzeSet, TypeOK
  <2>3. CASE RunGenerator(p)
    BY <2>3 DEF RunGenerator, TypeOK
  <2>4. CASE PrepareEnd(p)
    BY <2>4 DEF PrepareEnd, TypeOK
  <2>5. CASE ListDir(p) \/ Inspect(p)
    BY <2>5 DEF ListDir, Inspect, TypeOK
  <2>6. CASE StaleVerdict(p)
    BY <2>6 DEF StaleVerdict, TypeOK, Known, PreparedInv
  <2>7. CASE Compare(p)
    BY <2>7 DEF Compare, AtOutput, TypeOK
  <2>8. CASE CompareEnd(p)
    <3>1. command[p] = "diff"
      BY <2>8 DEF CompareEnd, AfterOutputs, Known, PreparedInv
    <3> QED
      BY <2>8, <3>1 DEF CompareEnd, TypeOK
  <2>9. CASE SkipUnchanged(p)
    BY <2>9 DEF SkipUnchanged, AtOutput, Done, TypeOK
  <2>10. CASE CreateTemp(p)
    BY <2>10 DEF CreateTemp, AtOutput
  <2>11. CASE WriteTemp(p)
    BY <2>11 DEF WriteTemp, AtOutput
  <2>12. CASE WriteFails(p)
    BY <2>12 DEF WriteFails, TypeOK
  <2>13. CASE WriteEnd(p)
    BY <2>13 DEF WriteEnd, AfterOutputs
  <2>14. CASE Crash(p)
    BY <2>14 DEF Crash, TypeOK
  <2> QED
    BY <1>2, <2>1, <2>2, <2>3, <2>4, <2>5, <2>6, <2>7, <2>8, <2>9, <2>10, <2>11,
       <2>12, <2>13, <2>14 DEF Step
<1> QED
  BY <1>1, <1>2

\* Whoever starts had no configuration.
LEMMA WasAlone ==
    ASSUME TypeOK, NEW p \in Invocations, NEW q \in Invocations, Known(q),
           Start(q) \/ Step(q) \/ Crash(q), Alone(p)', pc'[p] # "preparing"
    PROVE  Alone(p) /\ config'[p] = config[p]
<1>1. CASE Start(q)
  <2>1. /\ config[q] = NoConfig /\ q # p
        /\ \A r \in Invocations \ {q} : config'[r] = config[r]
    BY <1>1 DEF Start, Known, StartedInv, TypeOK, GoTo
  <2> QED
    BY <2>1 DEF Alone
<1>2. CASE Step(q) \/ Crash(q)
  <2>1. UNCHANGED config
    BY <1>2 DEF Step, Crash, AnalyzeSet, RunGenerator, PrepareEnd, ListDir, Inspect,
       StaleVerdict, Compare, CompareEnd, SkipUnchanged, CreateTemp, WriteTemp,
       RenameTemp, WriteFails, WriteEnd, given
  <2> QED
    BY <2>1 DEF Alone
<1> QED
  BY <1>1, <1>2

LEMMA AgreeStep ==
    ASSUME TypeOK, TypeOK', [Next]_vars,
           \A p \in Invocations : Known(p) /\ Known(p)' /\ AgreeInv(p)
    PROVE  \A p \in Invocations : AgreeInv(p)'
<1> SUFFICES ASSUME NEW p \in Invocations, Alone(p)',
                    pc'[p] \in Replacing \/ (pc'[p] = "ok" /\ command'[p] = "generate"),
                    NEW path \in outputs'[p] \ todo'[p]
             PROVE  disk'[Canonical[path]] = Content(p, path)'
  BY DEF AgreeInv
<1>0. Canonical[path] \in Locations
  BY GenerateAssumption DEF TypeOK
<1>1. ASSUME NEW q \in Invocations, Start(q) \/ Step(q) \/ Crash(q), ~RenameTemp(q)
      PROVE  disk'[Canonical[path]] = Content(p, path)'
  <2>1. UNCHANGED disk
    BY <1>1, DiskStays
  <2>2. Alone(p)
    BY <1>1, WasAlone DEF Replacing
  <2>3. /\ config'[p] = config[p] /\ outputs'[p] = outputs[p]
        /\ \/ /\ pc[p] \in Replacing \/ (pc[p] = "ok" /\ command[p] = "generate")
              /\ todo'[p] = todo[p]
           \/ todo'[p] = outputs[p]
           \/ \E done \in todo[p] :
                 /\ pc[p] \in Replacing /\ todo'[p] = todo[p] \ {done}
                 /\ UpToDate(p, done)
    BY <1>1, DealtWith
  <2>4. disk[Canonical[path]] = Content(p, path)
    BY <2>2, <2>3 DEF AgreeInv, UpToDate
  <2> QED
    BY <2>1, <2>3, <2>4 DEF Content
<1>2. ASSUME NEW q \in Invocations, NEW done \in todo[q], Renames(q, done)
      PROVE  disk'[Canonical[path]] = Content(p, path)'
  <2>1. /\ config' = config /\ outputs' = outputs /\ Alone(p)
        /\ disk' = [disk EXCEPT ![Canonical[done]] = Content(q, done)]
    BY <1>2 DEF Renames, Alone
  <2>2. config[q] = config[p] /\ done \in ConfigOutputs(config[p])
    BY <1>2, <2>1, RenamedOutput, GenerateAssumption DEF Alone
  <2>3. CASE path = done
    BY <1>0, <2>1, <2>2, <2>3 DEF Content, TypeOK
  <2>4. CASE path # done
    <3>1. ConfigOutputs(config[p]) \subseteq outputs[p]
      BY <2>1 DEF Known, PreparedInv, Prepared, Emitting, Replacing
    <3>2. Canonical[path] # Canonical[done]
      BY <2>1, <2>2, <2>4, <3>1 DEF Known, OutputsInv
    <3>3. disk'[Canonical[path]] = disk[Canonical[path]]
      BY <1>0, <2>1, <3>2 DEF TypeOK
    <3>4. pc[p] \in Replacing \/ (pc[p] = "ok" /\ command[p] = "generate")
      BY <1>2 DEF Renames, TypeOK, Replacing
    <3>5. path \in outputs[p] \ todo[p]
      BY <1>2, <2>1, <2>4 DEF Renames, TypeOK
    <3> QED
      BY <2>1, <3>3, <3>4, <3>5 DEF AgreeInv, Content
  <2> QED
    BY <2>3, <2>4
<1>3. ASSUME NEW q \in Invocations, NEW entry \in stale[q], Removes(q, entry)
      PROVE  disk'[Canonical[path]] = Content(p, path)'
  <2>1. /\ UNCHANGED <<config, command, pc, outputs, todo>> /\ Alone(p)
        /\ disk' = [disk EXCEPT ![entry.Of] = Absent]
    BY <1>3 DEF Removes, Alone
  <2>2. config[q] = config[p] /\ ConfigOutputs(config[q]) \subseteq outputs[q]
    <3>1. pc[q] = "failed" /\ stale[q] # {}
      BY <1>3 DEF Removes
    <3>2. Prepared(q) /\ config[q] \in Configs
      BY <3>1 DEF Known, PreparedInv, StartedInv
    <3> QED
      BY <2>1, <3>2, GenerateAssumption DEF Alone, Prepared
  <2>3. path \in outputs[q]
    BY <2>1, <2>2 DEF Known, OutputsInv
  <2>4. entry.Of # Canonical[path]
    BY <1>3, <2>3 DEF Known, StaleInv, Removes, CanonicalRange
  <2>5. disk'[Canonical[path]] = disk[Canonical[path]]
    BY <1>0, <2>1, <2>4 DEF TypeOK
  <2> QED
    BY <2>1, <2>5 DEF AgreeInv, Content
<1>4. CASE UNCHANGED <<disk, config, command, pc, outputs, todo>>
  BY <1>4 DEF AgreeInv, Alone, Content
<1> QED
  BY <1>1, <1>2, <1>3, <1>4, RenameRenames, RemoveStaleRemoves DEF Next, Step, vars

-----------------------------------------------------------------------------
(***************************************************************************)
(* The inductive invariant and what follows from it.                        *)
(***************************************************************************)
IInv ==
    /\ TypeOK /\ DiskInv /\ InputsInv
    /\ \A p \in Invocations : Known(p) /\ AgreeInv(p)

LEMMA InitIInv == Init => IInv
<1> SUFFICES ASSUME Init PROVE IInv
  OBVIOUS
<1>1. TypeOK
  BY InitType
<1>2. DiskInv /\ InputsInv
  BY DEF Init, DiskInv, InputsInv
<1>3. ASSUME NEW p \in Invocations PROVE Known(p) /\ AgreeInv(p)
  <2>1. /\ pc[p] = "idle" /\ config[p] = NoConfig /\ next[p] = 1 /\ generator[p] = 0
        /\ temp[p] = {} /\ outputs[p] = {} /\ todo[p] = {}
        /\ entries[p] = {} /\ stale[p] = {}
    BY DEF Init
  <2> QED
    BY <2>1 DEF Known, StartedInv, PreparingInv, OutputsInv, PreparedInv, WrittenInv,
       StaleInv, AgreeInv, Emitting, Replacing
<1> QED
  BY <1>1, <1>2, <1>3 DEF IInv

LEMMA NextIInv == IInv /\ [Next]_vars => IInv'
<1> SUFFICES ASSUME IInv, [Next]_vars PROVE IInv'
  OBVIOUS
<1>1. TypeOK'
  BY TypeStep DEF IInv, Known
<1>2. \A p \in Invocations : Known(p)'
  BY KnownStep DEF IInv
<1>3. DiskInv' /\ InputsInv'
  BY DiskInvStep, InputsInvStep DEF IInv
<1>4. \A p \in Invocations : AgreeInv(p)'
  BY <1>1, <1>2, AgreeStep DEF IInv
<1> QED
  BY <1>1, <1>2, <1>3, <1>4 DEF IInv

THEOREM IInvHolds == Spec => []IInv
BY InitIInv, NextIInv, PTL DEF Spec

LEMMA SoundContents ==
    IInv => PreparedBeforeWrites
<1> SUFFICES ASSUME IInv, NEW p \in Invocations, ~SoundConfig(config[p])
             PROVE  /\ temp[p] = {}
                    /\ \A l \in Locations, path \in Paths : disk[l] # Content(p, path)
  BY DEF PreparedBeforeWrites
<1>1. Known(p)
  BY DEF IInv
<1>2. temp[p] = {}
  BY <1>1 DEF Known, PreparedInv, Prepared
<1>3. config[p] \in Configs
  <2>1. SoundConfig(NoConfig)
    BY DEF SoundConfig, NoConfig, Range
  <2> QED
    BY <2>1 DEF IInv, TypeOK
<1>4. ASSUME NEW l \in Locations, NEW path \in Paths PROVE disk[l] # Content(p, path)
  <2>1. Initial[l] # Content(p, path)
    BY <1>3, FreshAssumption DEF Content
  <2>2. Absent # Content(p, path)
    BY ContentsAreRecords DEF Content
  <2>3. ASSUME NEW c \in Configs, NEW other \in Paths, SoundConfig(c)
        PROVE  Generated(c.Text, other) # Content(p, path)
    BY <1>3, <2>3, ContentsAreRecords, GenerateAssumption DEF Content
  <2> QED
    BY <2>1, <2>2, <2>3 DEF IInv, DiskInv
<1> QED
  BY <1>2, <1>4

\* No file of a configuration is written, and no temporary file made, while
\* one of its query sets or generators fails: generate prepares everything
\* before it writes (the loops of prepare come before writeFile).
THEOREM PreparedBeforeWritesHolds == Spec => []PreparedBeforeWrites
BY IInvHolds, SoundContents, PTL

\* The configuration file and the sources of every configuration in use keep
\* what they held: prepare refuses outputs that resolve to inputs, and nothing
\* that is an input is reported as stale.
THEOREM InputsKeptHolds == Spec => []InputsKept
<1>1. IInv => InputsKept
  BY DEF IInv, InputsInv, InputsKept, Known, StartedInv
<1> QED
  BY <1>1, IInvHolds, PTL

\* Invocations of one configuration, in any number, overlapping in any way and
\* killed at any point, leave what one of them completed in place.
THEOREM SameConfigAgreesHolds == Spec => []SameConfigAgrees
<1>1. ASSUME IInv PROVE SameConfigAgrees
  <2> SUFFICES ASSUME NEW p \in Invocations, pc[p] = "ok", command[p] = "generate", Alone(p),
                      NEW path \in ConfigOutputs(config[p])
               PROVE  disk[Canonical[path]] = Content(p, path)
    BY DEF SameConfigAgrees, Alone
  <2>1. path \in outputs[p] \ todo[p]
    BY <1>1 DEF IInv, Known, PreparedInv, Prepared
  <2> QED
    BY <1>1, <2>1 DEF IInv, AgreeInv
<1> QED
  BY <1>1, IInvHolds, PTL

\* No file disappears but one that the last invocation reported as stale, and
\* no file changes but into the complete text of an output: writeFile renames
\* a temporary file that it has written to the end.
THEOREM NothingDeletedHolds == Spec => NothingDeleted
<1> DEFINE Change ==
        \A l \in Locations :
          disk'[l] # disk[l] =>
              \/ /\ disk'[l] = Absent
                 /\ pc[last] = "failed"
                 /\ [Temp |-> FALSE, Of |-> l] \in stale[last]
              \/ \E p \in Invocations : \E path \in ConfigOutputs(config[p]) :
                     /\ Running(p) /\ command[p] = "generate"
                     /\ Canonical[path] = l
                     /\ disk'[l] = Content(p, path)
<1>1. ASSUME IInv, [Next]_vars PROVE Change
  <2> SUFFICES ASSUME NEW l \in Locations, disk'[l] # disk[l]
               PROVE  \/ /\ disk'[l] = Absent
                         /\ pc[last] = "failed"
                         /\ [Temp |-> FALSE, Of |-> l] \in stale[last]
                      \/ \E p \in Invocations : \E path \in ConfigOutputs(config[p]) :
                             /\ Running(p) /\ command[p] = "generate"
                             /\ Canonical[path] = l
                             /\ disk'[l] = Content(p, path)
    OBVIOUS
  <2>d. disk \in [Locations -> Contents]
    BY <1>1 DEF IInv, TypeOK
  <2>1. ASSUME NEW p \in Invocations, NEW path \in todo[p], Renames(p, path)
        PROVE  /\ path \in ConfigOutputs(config[p]) /\ Running(p) /\ command[p] = "generate"
               /\ Canonical[path] = l /\ disk'[l] = Content(p, path)
    <3>1. /\ path \in ConfigOutputs(config[p]) /\ Running(p) /\ command[p] = "generate"
          /\ Canonical[path] \in Locations
      BY <1>1, <2>1, RenamedOutput DEF IInv
    <3> QED
      BY <2>d, <2>1, <3>1 DEF Renames
  <2>2. ASSUME NEW p \in Invocations, NEW entry \in stale[p], Removes(p, entry)
        PROVE  /\ disk'[l] = Absent /\ pc[last] = "failed"
               /\ [Temp |-> FALSE, Of |-> l] \in stale[last]
    <3>1. entry.Of = l /\ disk'[l] = Absent /\ last = p /\ pc[p] = "failed" /\ ~entry.Temp
      BY <2>d, <2>2 DEF Removes
    <3>2. entry \in Entries
      BY <1>1 DEF IInv, TypeOK
    <3>3. entry = [Temp |-> FALSE, Of |-> l]
      BY <3>1, <3>2 DEF Entries
    <3> QED
      BY <2>2, <3>1, <3>3
  <2> QED
    BY <1>1, <2>1, <2>2, DiskSteps DEF IInv
<1>2. IInv /\ [Next]_vars => [Change]_vars
  BY <1>1
<1> QED
  BY <1>2, IInvHolds, PTL DEF Spec, NothingDeleted

-----------------------------------------------------------------------------
(***************************************************************************)
(* The invocation that started last, when invocations do not overlap.  The  *)
(* temporary file of an invocation is its own, so nothing but this one      *)
(* changes what its search for stale files found missing.                   *)
(***************************************************************************)

\* The other invocations are at rest, unless they may overlap.
AtRest == \A q \in Invocations : Running(q) => q = last

SingleTemp(p) == \A a, b \in temp[p] : a = b

Searched(p) == {Dir(l) : l \in CanonicalRange(outputs[p])}

\* What is left in a directory that p writes to: the generated files that are
\* no outputs of p, and the temporary files that hold a generated text.
LeftFiles(p, dir) ==
    {l \in Locations \ CanonicalRange(outputs[p]) : Dir(l) = dir /\ IsGenerated(disk[l])}
LeftTemps(dir) ==
    {q \in Invocations : \E t \in temp[q] : t.Dir = dir /\ IsGenerated(t.Content)}
Left(p, dir) ==
    {[Temp |-> FALSE, Of |-> l] : l \in LeftFiles(p, dir)}
    \cup {[Temp |-> TRUE, Of |-> q] : q \in LeftTemps(dir)}

Succeeded(p) == pc[p] = "ok" /\ command[p] # "compile"
SearchEnded(p) == pc[p] \in {"comparing"} \cup Replacing \/ Succeeded(p)

\* The search misses nothing that is left in a directory it has listed.
SearchInv(p) ==
    /\ pc[p] = "checking" =>
          \A dir \in Searched(p) \ dirs[p] : Left(p, dir) \subseteq entries[p] \cup stale[p]
    /\ SearchEnded(p) =>
          \A dir \in Searched(p) : Left(p, dir) \subseteq {[Temp |-> TRUE, Of |-> p]}
    /\ pc[p] \in {"checking", "comparing", "writing"} \/ Succeeded(p) => temp[p] = {}

\* What has been compared without finding a difference, or written, is in
\* place.
InPlaceInv(p) ==
    /\ (pc[p] = "comparing" /\ ~changed[p]) \/ pc[p] \in Replacing \/ Succeeded(p) =>
          \A path \in outputs[p] \ todo[p] : UpToDate(p, path)
    /\ Succeeded(p) => Prepared(p) /\ todo[p] = {}

LastInv == ~overlap => AtRest /\ SearchInv(last) /\ InPlaceInv(last)

ExactInv ==
    /\ overlap \in BOOLEAN
    /\ changed \in [Invocations -> BOOLEAN]
    /\ dirs \in [Invocations -> SUBSET {Dir(l) : l \in Locations}]
    /\ \A p \in Invocations : SingleTemp(p)
    /\ LastInv

\* Nothing is claimed of an invocation that prepares, failed or was killed.
LEMMA NothingClaimed ==
    ASSUME NEW p \in Invocations, pc'[p] \notin Emitting, ~Succeeded(p)'
    PROVE  SearchInv(p)' /\ InPlaceInv(p)'
BY DEF SearchInv, InPlaceInv, SearchEnded, Emitting, Replacing

LEMMA LeftMember ==
    ASSUME NEW p, NEW dir, NEW e
    PROVE  e \in Left(p, dir) <=>
              \/ \E l \in LeftFiles(p, dir) : e = [Temp |-> FALSE, Of |-> l]
              \/ \E q \in LeftTemps(dir) : e = [Temp |-> TRUE, Of |-> q]
BY DEF Left

\* A step of p which changes nothing but its outputs and its temporary file.
LEMMA NoMoreLeft ==
    ASSUME NEW p \in Invocations, NEW dir, outputs'[p] = outputs[p],
           \A q \in Invocations \ {p} : temp'[q] = temp[q],
           \A l \in Locations \ CanonicalRange(outputs[p]) : disk'[l] = disk[l]
    PROVE  /\ Left(p, dir)' \subseteq Left(p, dir) \cup {[Temp |-> TRUE, Of |-> p]}
           /\ temp'[p] = temp[p] => Left(p, dir)' \subseteq Left(p, dir)
<1>1. LeftFiles(p, dir)' = LeftFiles(p, dir)
  BY DEF LeftFiles, CanonicalRange
<1>2. LeftTemps(dir)' \subseteq LeftTemps(dir) \cup {p}
  BY DEF LeftTemps
<1>3. temp'[p] = temp[p] => LeftTemps(dir)' \subseteq LeftTemps(dir)
  BY DEF LeftTemps
<1> QED
  BY <1>1, <1>2, <1>3 DEF Left

LEMMA ExactPrepareEnd ==
    ASSUME TypeOK, NEW p \in Invocations, Known(p), PrepareEnd(p),
           dirs \in [Invocations -> SUBSET {Dir(l) : l \in Locations}]
    PROVE  SearchInv(p)' /\ InPlaceInv(p)'
<1>1. /\ pc[p] = "preparing" /\ UNCHANGED <<temp, command, outputs>>
  BY DEF PrepareEnd, files, given, preparation
<1>2. CASE pc'[p] \in {"failed", "ok"} /\ (pc'[p] = "ok" => command[p] = "compile")
  BY <1>1, <1>2, NothingClaimed DEF Succeeded, Emitting
<1>3. CASE /\ command[p] # "compile" /\ GoTo(p, "checking")
           /\ dirs' = [dirs EXCEPT ![p] = {Dir(l) : l \in CanonicalRange(outputs[p])}]
  <2>1. pc'[p] = "checking" /\ dirs'[p] = Searched(p)
    BY <1>3 DEF TypeOK, GoTo, Searched
  <2>2. Searched(p)' = Searched(p)
    BY <1>1 DEF Searched, CanonicalRange
  <2>3. temp'[p] = {}
    BY <1>1 DEF Known, StartedInv
  <2> QED
    BY <2>1, <2>2, <2>3 DEF SearchInv, InPlaceInv, SearchEnded, Succeeded, Replacing
<1> QED
  BY <1>1, <1>2, <1>3 DEF PrepareEnd, TypeOK, GoTo, Fail

LEMMA ExactListDir ==
    ASSUME TypeOK, NEW p \in Invocations, Known(p), ListDir(p), SearchInv(p),
           dirs \in [Invocations -> SUBSET {Dir(l) : l \in Locations}]
    PROVE  SearchInv(p)' /\ InPlaceInv(p)'
<1>1. /\ pc[p] = "checking" /\ entries[p] = {}
      /\ UNCHANGED <<disk, temp, command, outputs, todo, stale>>
  BY DEF ListDir, files, given, preparation
<1>2. CASE Fail(p)
  BY <1>2, NothingClaimed DEF Succeeded, Emitting, Fail, GoTo, TypeOK
<1>3. ASSUME NEW dir \in dirs[p], UNCHANGED pc,
             dirs' = [dirs EXCEPT ![p] = @ \ {dir}],
             entries' = [entries EXCEPT ![p] =
                 {[Temp |-> FALSE, Of |-> l] : l \in FilesIn(dir) \ CanonicalRange(outputs[p])}
                 \cup {[Temp |-> TRUE, Of |-> q] : q \in TempsIn(dir)}]
      PROVE  SearchInv(p)' /\ InPlaceInv(p)'
  <2>1. dirs'[p] = dirs[p] \ {dir}
    BY <1>3
  <2>2. Left(p, dir) \subseteq entries'[p]
    <3>1. LeftFiles(p, dir) \subseteq FilesIn(dir) \ CanonicalRange(outputs[p])
      BY ContentsAreRecords DEF LeftFiles, FilesIn
    <3>2. LeftTemps(dir) \subseteq TempsIn(dir)
      BY DEF LeftTemps, TempsIn
    <3>3. entries'[p] =
              {[Temp |-> FALSE, Of |-> l] : l \in FilesIn(dir) \ CanonicalRange(outputs[p])}
              \cup {[Temp |-> TRUE, Of |-> q] : q \in TempsIn(dir)}
      BY <1>3 DEF TypeOK
    <3> QED
      BY <3>1, <3>2, <3>3 DEF Left
  <2>3. ASSUME NEW other \in (Searched(p) \ dirs[p]) \cup {dir}
        PROVE  Left(p, other) \subseteq entries'[p] \cup stale[p]
    BY <1>1, <2>2 DEF SearchInv
  <2>4. Searched(p)' = Searched(p)
    BY <1>1 DEF Searched, CanonicalRange
  <2>5. \A other : Left(p, other)' \subseteq Left(p, other)
    BY <1>1, NoMoreLeft
  <2>6. pc'[p] = "checking" /\ stale'[p] = stale[p] /\ temp'[p] = {}
    BY <1>1, <1>3 DEF SearchInv
  <2>7. \A other \in (Searched(p) \ dirs[p])' : Left(p, other)' \subseteq (entries[p] \cup stale[p])'
    BY <2>1, <2>3, <2>4, <2>5, <2>6
  <2> QED
    BY <2>6, <2>7 DEF SearchInv, InPlaceInv, SearchEnded, Succeeded, Replacing
<1> QED
  BY <1>2, <1>3 DEF ListDir

\* Whatever is left is found to be generated when it is opened.
LEMMA LeftIsFound ==
    ASSUME TypeOK, \A q \in Invocations : SingleTemp(q),
           NEW p \in Invocations, NEW dir, NEW entry \in Left(p, dir),
           NEW found \in hasGeneratedHeader(EntryContent(entry))
    PROVE  found
<1>1. IsGenerated(EntryContent(entry))
  <2>1. CASE \E l \in LeftFiles(p, dir) : entry = [Temp |-> FALSE, Of |-> l]
    BY <2>1 DEF LeftFiles, EntryContent
  <2>2. ASSUME NEW q \in LeftTemps(dir), entry = [Temp |-> TRUE, Of |-> q]
        PROVE  IsGenerated(EntryContent(entry))
    <3>1. PICK t \in temp[q] : IsGenerated(t.Content)
      BY <2>2 DEF LeftTemps
    <3>2. \A other \in temp[q] : other = t
      BY <2>2, <3>1 DEF SingleTemp, LeftTemps
    <3>3. (CHOOSE other \in temp[q] : TRUE) = t
      BY <3>1, <3>2
    <3>4. EntryContent(entry) = t.Content
      BY <2>2, <3>3 DEF EntryContent
    <3> QED
      BY <3>1, <3>4
  <2> QED
    BY <2>1, <2>2, LeftMember
<1>2. hasGeneratedHeader(EntryContent(entry)) = {TRUE}
  BY <1>1, ContentsAreRecords DEF hasGeneratedHeader
<1>3. found = TRUE
  BY <1>2
<1> QED
  BY <1>3

LEMMA ExactInspect ==
    ASSUME TypeOK, \A q \in Invocations : SingleTemp(q),
           NEW p \in Invocations, Inspect(p), SearchInv(p)
    PROVE  SearchInv(p)' /\ InPlaceInv(p)'
<1>1. /\ pc[p] = "checking"
      /\ UNCHANGED <<disk, temp, command, outputs, todo, dirs>>
  BY DEF Inspect, files, given, preparation
<1>2. CASE Fail(p)
  BY <1>2, NothingClaimed DEF Succeeded, Emitting, Fail, GoTo, TypeOK
<1>3. ASSUME NEW entry \in entries[p], UNCHANGED pc,
             NEW found \in hasGeneratedHeader(EntryContent(entry)),
             stale' = [stale EXCEPT ![p] = IF found THEN @ \cup {entry} ELSE @],
             entries' = [entries EXCEPT ![p] = @ \ {entry}]
      PROVE  SearchInv(p)' /\ InPlaceInv(p)'
  <2>1. /\ stale'[p] = IF found THEN stale[p] \cup {entry} ELSE stale[p]
        /\ entries'[p] = entries[p] \ {entry}
    BY <1>3 DEF TypeOK
  <2>2. ASSUME NEW dir \in Searched(p) \ dirs[p]
        PROVE  Left(p, dir) \subseteq entries'[p] \cup stale'[p]
    <3>1. Left(p, dir) \subseteq entries[p] \cup stale[p]
      BY <1>1 DEF SearchInv
    <3>2. entry \in Left(p, dir) => found
      BY <1>3, LeftIsFound
    <3> QED
      BY <2>1, <3>1, <3>2
  <2>3. Searched(p)' = Searched(p)
    BY <1>1 DEF Searched, CanonicalRange
  <2>4. \A dir : Left(p, dir)' \subseteq Left(p, dir)
    BY <1>1, NoMoreLeft
  <2>5. pc'[p] = "checking" /\ dirs'[p] = dirs[p] /\ temp'[p] = {}
    BY <1>1, <1>3 DEF SearchInv
  <2>6. \A dir \in (Searched(p) \ dirs[p])' : Left(p, dir)' \subseteq (entries[p] \cup stale[p])'
    BY <2>2, <2>3, <2>4, <2>5
  <2> QED
    BY <2>5, <2>6 DEF SearchInv, InPlaceInv, SearchEnded, Succeeded, Replacing
<1> QED
  BY <1>2, <1>3 DEF Inspect

LEMMA ExactStaleVerdict ==
    ASSUME TypeOK, NEW p \in Invocations, Known(p), StaleVerdict(p), SearchInv(p)
    PROVE  SearchInv(p)' /\ InPlaceInv(p)'
<1>1. /\ pc[p] = "checking" /\ dirs[p] = {} /\ entries[p] = {}
      /\ UNCHANGED <<disk, temp, config, command, outputs, todo>>
  BY DEF StaleVerdict, files, given, preparation
<1>2. CASE Fail(p)
  BY <1>2, NothingClaimed DEF Succeeded, Emitting, Fail, GoTo, TypeOK
<1>3. CASE stale[p] = {} /\ pc'[p] \in {"comparing", "writing"}
  <2>1. \A dir \in Searched(p) : Left(p, dir) = {}
    BY <1>1, <1>3 DEF SearchInv
  <2>2. Searched(p)' = Searched(p)
    BY <1>1 DEF Searched, CanonicalRange
  <2>3. \A dir : Left(p, dir)' \subseteq Left(p, dir)
    BY <1>1, NoMoreLeft
  <2>4. \A dir \in Searched(p)' : Left(p, dir)' \subseteq {[Temp |-> TRUE, Of |-> p]}
    BY <2>1, <2>2, <2>3
  <2>5. temp'[p] = {} /\ todo'[p] = outputs'[p]
    BY <1>1 DEF SearchInv, Known, PreparedInv
  <2> QED
    BY <1>3, <2>4, <2>5 DEF SearchInv, InPlaceInv, Succeeded
<1> QED
  BY <1>2, <1>3 DEF StaleVerdict, GoTo, TypeOK

\* After the search, p changes nothing but its outputs and its temporary file.
LEMMA ExactLater ==
    ASSUME TypeOK, NEW p \in Invocations, Known(p), SearchInv(p), InPlaceInv(p),
           changed \in [Invocations -> BOOLEAN],
           \/ Compare(p) \/ CompareEnd(p) \/ SkipUnchanged(p) \/ CreateTemp(p)
           \/ WriteTemp(p) \/ WriteFails(p) \/ WriteEnd(p) \/ Crash(p)
    PROVE  SearchInv(p)' /\ InPlaceInv(p)'
<1> USE DEF files, given, preparation, search, GoTo, Fail
<1>1. CASE pc'[p] \in {"failed", "crashed"}
  BY <1>1, NothingClaimed DEF Succeeded, Emitting
<1>2. CASE pc'[p] \notin {"failed", "crashed"}
  <2>1. /\ UNCHANGED <<disk, config, command, outputs>>
        /\ \A q \in Invocations \ {p} : temp'[q] = temp[q]
        /\ pc[p] \in {"comparing"} \cup Replacing
    BY <1>2 DEF Compare, CompareEnd, SkipUnchanged, CreateTemp, WriteTemp, WriteFails,
       WriteEnd, Crash, AtOutput, AfterOutputs, TypeOK, Replacing
  <2>2. \A dir \in Searched(p)' : Left(p, dir)' \subseteq {[Temp |-> TRUE, Of |-> p]}
    <3>1. Searched(p)' = Searched(p)
      BY <2>1 DEF Searched, CanonicalRange
    <3>2. \A dir : Left(p, dir)' \subseteq Left(p, dir) \cup {[Temp |-> TRUE, Of |-> p]}
      BY <2>1, NoMoreLeft
    <3> QED
      BY <2>1, <3>1, <3>2 DEF SearchInv, SearchEnded
  <2>3. /\ pc'[p] \in {"comparing", "writing", "ok"} => temp'[p] = {}
        /\ pc'[p] # "checking"
    <3>1. CASE CreateTemp(p) \/ WriteTemp(p)
      BY <3>1 DEF CreateTemp, WriteTemp, TypeOK, AtOutput
    <3>2. CASE ~CreateTemp(p) /\ ~WriteTemp(p)
      BY <1>2, <3>2 DEF Compare, CompareEnd, SkipUnchanged, WriteFails, WriteEnd, Crash,
         AtOutput, AfterOutputs, TypeOK, SearchInv
    <3> QED
      BY <3>1, <3>2
  <2>4. SearchInv(p)'
    BY <2>2, <2>3 DEF SearchInv, Succeeded
  <2>5. InPlaceInv(p)'
    <3>1. \A path : UpToDate(p, path)' = UpToDate(p, path)
      BY <2>1 DEF UpToDate, Content
    <3>2. CASE Compare(p)
      <4>1. PICK path \in todo[p] :
                /\ pc[p] = "comparing" /\ pc'[p] = "comparing"
                /\ changed'[p] = (changed[p] \/ ~UpToDate(p, path))
                /\ todo'[p] = todo[p] \ {path}
        BY <1>2, <3>2 DEF Compare, AtOutput, TypeOK, Done
      <4>2. ASSUME ~changed'[p], NEW other \in outputs[p] \ todo'[p]
            PROVE  UpToDate(p, other)
        BY <4>1, <4>2 DEF InPlaceInv
      <4>3. ~changed'[p] => \A other \in (outputs[p] \ todo[p])' : UpToDate(p, other)'
        BY <2>1, <3>1, <4>2
      <4> QED
        BY <4>1, <4>3 DEF InPlaceInv, Replacing, Succeeded
    <3>3. CASE CompareEnd(p)
      <4>1. pc[p] = "comparing" /\ ~changed[p] /\ pc'[p] = "ok" /\ todo'[p] = {} /\ todo[p] = {}
        BY <1>2, <3>3 DEF CompareEnd, AfterOutputs, TypeOK
      <4>2. \A other \in (outputs[p] \ todo[p])' : UpToDate(p, other)'
        BY <2>1, <3>1, <4>1 DEF InPlaceInv
      <4>3. Prepared(p)'
        BY <2>1 DEF Known, PreparedInv, Prepared, Emitting, Replacing
      <4> QED
        BY <4>1, <4>2, <4>3 DEF InPlaceInv
    <3>4. CASE SkipUnchanged(p)
      <4>1. PICK path \in todo[p] :
                /\ pc[p] = "writing" /\ pc'[p] = "writing" /\ UpToDate(p, path)
                /\ todo'[p] = todo[p] \ {path}
        BY <3>4 DEF SkipUnchanged, AtOutput, TypeOK, Done
      <4>2. \A other \in (outputs[p] \ todo[p])' : UpToDate(p, other)'
        BY <2>1, <3>1, <4>1 DEF InPlaceInv, Replacing
      <4> QED
        BY <4>1, <4>2 DEF InPlaceInv, Succeeded
    <3>5. CASE CreateTemp(p) \/ WriteTemp(p)
      <4>1. pc[p] \in Replacing /\ pc'[p] \in Replacing /\ todo'[p] = todo[p]
        BY <3>5 DEF CreateTemp, WriteTemp, AtOutput, TypeOK, Replacing
      <4>2. \A other \in (outputs[p] \ todo[p])' : UpToDate(p, other)'
        BY <2>1, <3>1, <4>1 DEF InPlaceInv
      <4> QED
        BY <4>1, <4>2 DEF InPlaceInv, Succeeded, Replacing
    <3>6. CASE WriteEnd(p)
      <4>1. pc[p] = "writing" /\ pc'[p] = "ok" /\ todo'[p] = {} /\ todo[p] = {}
        BY <3>6 DEF WriteEnd, AfterOutputs, TypeOK
      <4>2. \A other \in (outputs[p] \ todo[p])' : UpToDate(p, other)'
        BY <2>1, <3>1, <4>1 DEF InPlaceInv, Replacing
      <4>3. Prepared(p)'
        BY <2>1 DEF Known, PreparedInv, Prepared, Emitting, Replacing
      <4> QED
        BY <4>1, <4>2, <4>3 DEF InPlaceInv
    <3>7. ~WriteFails(p) /\ ~Crash(p)
      BY <1>2 DEF WriteFails, Crash, TypeOK
    <3> QED
      BY <3>2, <3>3, <3>4, <3>5, <3>6, <3>7
  <2> QED
    BY <2>4, <2>5
<1> QED
  BY <1>1, <1>2

LEMMA ExactRename ==
    ASSUME TypeOK, \A q \in Invocations : Known(q),
           NEW p \in Invocations, SearchInv(p), InPlaceInv(p), RenameTemp(p)
    PROVE  SearchInv(p)' /\ InPlaceInv(p)'
<1>1. PICK path \in todo[p] : Renames(p, path)
  BY RenameRenames
<1>2. /\ pc[p] = "written" /\ pc'[p] = "writing" /\ temp'[p] = {}
      /\ UNCHANGED <<config, command, outputs>>
      /\ \A q \in Invocations \ {p} : temp'[q] = temp[q]
      /\ todo'[p] = todo[p] \ {path}
      /\ disk' = [disk EXCEPT ![Canonical[path]] = Content(p, path)]
  BY <1>1 DEF RenameTemp, Renames, TypeOK
<1>3. path \in outputs[p] /\ Canonical[path] \in Locations /\ Canonical[path] \in CanonicalRange(outputs[p])
  BY <1>1, RenamedOutput DEF CanonicalRange
<1>4. \A l \in Locations \ CanonicalRange(outputs[p]) : disk'[l] = disk[l]
  BY <1>2, <1>3 DEF TypeOK
<1>5. \A dir \in Searched(p)' : Left(p, dir)' \subseteq {[Temp |-> TRUE, Of |-> p]}
  <2>1. Searched(p)' = Searched(p)
    BY <1>2 DEF Searched, CanonicalRange
  <2>2. \A dir : Left(p, dir)' \subseteq Left(p, dir) \cup {[Temp |-> TRUE, Of |-> p]}
    BY <1>2, <1>4, NoMoreLeft
  <2> QED
    BY <1>2, <2>1, <2>2 DEF SearchInv, SearchEnded, Replacing
<1>6. SearchInv(p)'
  BY <1>2, <1>5 DEF SearchInv
<1>7. ASSUME NEW other \in outputs[p] \ todo'[p] PROVE disk'[Canonical[other]] = Content(p, other)
  <2>1. Canonical[other] \in Locations
    BY GenerateAssumption DEF TypeOK
  <2>2. CASE other = path
    BY <1>2, <2>1, <2>2 DEF TypeOK
  <2>3. CASE other # path
    <3>1. Canonical[other] # Canonical[path]
      BY <1>3, <2>3 DEF Known, OutputsInv
    <3>2. disk[Canonical[other]] = Content(p, other)
      BY <1>2, <1>7, <2>3 DEF InPlaceInv, UpToDate, Replacing
    <3> QED
      BY <1>2, <2>1, <3>1, <3>2 DEF TypeOK
  <2> QED
    BY <2>2, <2>3
<1>8. \A other \in (outputs[p] \ todo[p])' : UpToDate(p, other)'
  BY <1>2, <1>7 DEF UpToDate, Content
<1>9. InPlaceInv(p)'
  BY <1>2, <1>8 DEF InPlaceInv, Succeeded
<1> QED
  BY <1>6, <1>9

LEMMA ExactStep ==
    ASSUME TypeOK, \A q \in Invocations : Known(q) /\ SingleTemp(q),
           changed \in [Invocations -> BOOLEAN],
           dirs \in [Invocations -> SUBSET {Dir(l) : l \in Locations}],
           NEW p \in Invocations, SearchInv(p), InPlaceInv(p), Step(p) \/ Crash(p)
    PROVE  SearchInv(p)' /\ InPlaceInv(p)'
<1>1. CASE AnalyzeSet(p) \/ RunGenerator(p)
  <2>1. pc'[p] \in {"preparing", "failed"}
    BY <1>1 DEF AnalyzeSet, RunGenerator, Fail, GoTo, TypeOK
  <2> QED
    BY <2>1, NothingClaimed DEF Succeeded, Emitting
<1> QED
  BY <1>1, ExactPrepareEnd, ExactListDir, ExactInspect, ExactStaleVerdict, ExactLater,
     ExactRename DEF Step

\* Only a start changes which invocation is the last.
LEMMA SameLast ==
    ASSUME NEW p \in Invocations, Step(p) \/ Crash(p)
    PROVE  UNCHANGED <<overlap, last, command, config>> /\ Running(p)
<1> USE DEF given, Running, Ended
<1>1. CASE AnalyzeSet(p) \/ RunGenerator(p) \/ PrepareEnd(p) \/ ListDir(p) \/ Inspect(p)
  BY <1>1 DEF AnalyzeSet, RunGenerator, PrepareEnd, ListDir, Inspect
<1>2. CASE StaleVerdict(p) \/ Compare(p) \/ CompareEnd(p) \/ SkipUnchanged(p) \/ CreateTemp(p)
  BY <1>2 DEF StaleVerdict, Compare, CompareEnd, SkipUnchanged, CreateTemp, AtOutput, AfterOutputs
<1>3. CASE WriteTemp(p) \/ RenameTemp(p) \/ WriteFails(p) \/ WriteEnd(p) \/ Crash(p)
  BY <1>3 DEF WriteTemp, RenameTemp, WriteFails, WriteEnd, Crash, AtOutput, AfterOutputs
<1> QED
  BY <1>1, <1>2, <1>3 DEF Step

LEMMA LastStep ==
    ASSUME TypeOK, \A q \in Invocations : Known(q), ExactInv, [Next]_vars
    PROVE  LastInv'
<1> SUFFICES ASSUME ~overlap' PROVE (AtRest /\ SearchInv(last) /\ InPlaceInv(last))'
  BY DEF LastInv
<1>1. ASSUME NEW p \in Invocations, Start(p)
      PROVE  (AtRest /\ SearchInv(last) /\ InPlaceInv(last))'
  <2>1. /\ last' = p /\ \A q \in Invocations : ~Running(q)
        /\ \A q \in Invocations \ {p} : pc'[q] = pc[q]
        /\ pc'[p] = "preparing"
    BY <1>1 DEF Start, GoTo, TypeOK
  <2>2. AtRest'
    BY <2>1 DEF AtRest, Running
  <2>3. SearchInv(p)' /\ InPlaceInv(p)'
    BY <2>1, NothingClaimed DEF Succeeded, Emitting
  <2> QED
    BY <2>1, <2>2, <2>3
<1>2. ASSUME NEW p \in Invocations, Step(p) \/ Crash(p)
      PROVE  (AtRest /\ SearchInv(last) /\ InPlaceInv(last))'
  <2>1. ~overlap /\ last' = last /\ last = p
    BY <1>2, SameLast DEF ExactInv, LastInv, AtRest
  <2>2. AtRest'
    <3>1. \A q \in Invocations \ {p} : pc'[q] = pc[q]
      BY <1>2, OthersKept DEF Owned
    <3> QED
      BY <2>1, <3>1 DEF AtRest, Running, ExactInv, LastInv
  <2>3. SearchInv(p)' /\ InPlaceInv(p)'
    BY <1>2, <2>1, ExactStep DEF ExactInv, LastInv
  <2> QED
    BY <2>1, <2>2, <2>3
<1>3. ASSUME NEW p \in Invocations, RemoveStale(p)
      PROVE  (AtRest /\ SearchInv(last) /\ InPlaceInv(last))'
  <2>1. ~overlap /\ last' = p /\ last = p /\ pc' = pc /\ pc[p] = "failed"
    BY <1>3 DEF RemoveStale, given
  <2>2. AtRest'
    BY <2>1 DEF AtRest, Running, ExactInv, LastInv
  <2>3. SearchInv(p)' /\ InPlaceInv(p)'
    BY <2>1, NothingClaimed DEF Succeeded, Emitting
  <2> QED
    BY <2>1, <2>2, <2>3
<1>4. CASE UNCHANGED vars
  <2>1. ~overlap /\ AtRest /\ SearchInv(last) /\ InPlaceInv(last)
    BY <1>4 DEF ExactInv, LastInv, vars
  <2>2. AtRest'
    BY <1>4, <2>1 DEF AtRest, Running, vars
  <2>3. SearchInv(last)'
    BY <1>4, <2>1 DEF SearchInv, SearchEnded, Succeeded, Searched, Left, LeftFiles, LeftTemps,
       CanonicalRange, vars
  <2>4. InPlaceInv(last)'
    BY <1>4, <2>1 DEF InPlaceInv, Succeeded, UpToDate, Content, Prepared, vars
  <2> QED
    BY <2>2, <2>3, <2>4
<1> QED
  BY <1>1, <1>2, <1>3, <1>4 DEF Next

LEMMA SingleTempStep ==
    ASSUME TypeOK, \A q \in Invocations : SingleTemp(q), [Next]_vars, NEW q \in Invocations
    PROVE  SingleTemp(q)'
<1> USE DEF files, given, preparation, search, TypeOK
<1> SUFFICES \/ temp'[q] \in {temp[q], {}}
             \/ \E t : temp'[q] = {t}
             \/ \E f : \A a \in temp'[q] : \E t \in temp[q] : a = f[t]
  BY DEF SingleTemp
<1>1. ASSUME NEW p \in Invocations, CreateTemp(p)
      PROVE  temp'[q] = temp[q] \/ \E t : temp'[q] = {t}
  BY <1>1 DEF CreateTemp
<1>2. ASSUME NEW p \in Invocations, WriteTemp(p)
      PROVE  \/ temp'[q] = temp[q]
             \/ \E f : \A a \in temp'[q] : \E t \in temp[q] : a = f[t]
  <2>1. CASE q = p
    <3>1. PICK path \in todo[p] :
              temp' = [temp EXCEPT ![p] = {[t EXCEPT !.Content = Content(p, path)] : t \in @}]
      BY <1>2 DEF WriteTemp
    <3> DEFINE f == [t \in temp[q] |-> [t EXCEPT !.Content = Content(p, path)]]
    <3>2. \A a \in temp'[q] : \E t \in temp[q] : a = f[t]
      BY <2>1, <3>1
    <3> QED
      BY <3>2
  <2> QED
    BY <1>2, <2>1 DEF WriteTemp
<1>3. ASSUME NEW p \in Invocations, RenameTemp(p) \/ WriteFails(p) \/ RemoveStale(p)
      PROVE  temp'[q] \in {temp[q], {}}
  BY <1>3 DEF RenameTemp, WriteFails, RemoveStale
<1>4. ASSUME NEW p \in Invocations,
             \/ Start(p) \/ AnalyzeSet(p) \/ RunGenerator(p) \/ PrepareEnd(p) \/ ListDir(p)
             \/ Inspect(p) \/ StaleVerdict(p) \/ Compare(p) \/ CompareEnd(p)
             \/ SkipUnchanged(p) \/ WriteEnd(p) \/ Crash(p)
      PROVE  temp' = temp
  BY <1>4 DEF Start, AnalyzeSet, RunGenerator, PrepareEnd, ListDir, Inspect, StaleVerdict,
     Compare, CompareEnd, SkipUnchanged, WriteEnd, Crash
<1>5. CASE UNCHANGED vars
  BY <1>5 DEF vars
<1> QED
  BY <1>1, <1>2, <1>3, <1>4, <1>5 DEF Next, Step

LEMMA ExactTypeStep ==
    ASSUME TypeOK, ExactInv, [Next]_vars
    PROVE  /\ overlap' \in BOOLEAN
           /\ changed' \in [Invocations -> BOOLEAN]
           /\ dirs' \in [Invocations -> SUBSET {Dir(l) : l \in Locations}]
<1> USE DEF files, given, preparation, search, ExactInv
<1>1. ASSUME NEW p \in Invocations, PrepareEnd(p)
      PROVE  /\ UNCHANGED <<overlap, changed>>
             /\ dirs' \in [Invocations -> SUBSET {Dir(l) : l \in Locations}]
  <2>1. CanonicalRange(outputs[p]) \subseteq Locations
    BY GenerateAssumption DEF TypeOK, CanonicalRange
  <2> QED
    BY <1>1, <2>1 DEF PrepareEnd
<1>2. ASSUME NEW p \in Invocations, ListDir(p)
      PROVE  /\ UNCHANGED <<overlap, changed>>
             /\ dirs' \in [Invocations -> SUBSET {Dir(l) : l \in Locations}]
  BY <1>2 DEF ListDir
<1>3. ASSUME NEW p \in Invocations, Compare(p)
      PROVE  UNCHANGED <<overlap, dirs>> /\ changed' \in [Invocations -> BOOLEAN]
  BY <1>3 DEF Compare
<1>4. ASSUME NEW p \in Invocations,
             \/ Start(p) \/ AnalyzeSet(p) \/ RunGenerator(p) \/ Inspect(p) \/ StaleVerdict(p)
             \/ CompareEnd(p) \/ SkipUnchanged(p) \/ CreateTemp(p) \/ WriteTemp(p)
             \/ RenameTemp(p) \/ WriteFails(p) \/ WriteEnd(p) \/ Crash(p) \/ RemoveStale(p)
      PROVE  UNCHANGED <<overlap, dirs, changed>>
  BY <1>4 DEF Start, AnalyzeSet, RunGenerator, Inspect, StaleVerdict, CompareEnd,
     SkipUnchanged, CreateTemp, WriteTemp, RenameTemp, WriteFails, WriteEnd, Crash, RemoveStale
<1>5. CASE UNCHANGED vars
  BY <1>5 DEF vars
<1> QED
  BY <1>1, <1>2, <1>3, <1>4, <1>5 DEF Next, Step

LEMMA InitExact == Init => ExactInv
<1> SUFFICES ASSUME Init PROVE ExactInv
  OBVIOUS
<1>1. /\ overlap \in BOOLEAN /\ last \in Invocations
      /\ changed \in [Invocations -> BOOLEAN]
      /\ dirs \in [Invocations -> SUBSET {Dir(l) : l \in Locations}]
      /\ \A p \in Invocations : pc[p] = "idle" /\ temp[p] = {}
  BY DEF Init
<1>2. AtRest
  BY <1>1 DEF AtRest, Running
<1>3. SearchInv(last) /\ InPlaceInv(last)
  BY <1>1 DEF SearchInv, InPlaceInv, SearchEnded, Succeeded, Replacing
<1> QED
  BY <1>1, <1>2, <1>3 DEF ExactInv, LastInv, SingleTemp

LEMMA NextExact == IInv /\ ExactInv /\ [Next]_vars => ExactInv'
<1> SUFFICES ASSUME IInv, ExactInv, [Next]_vars PROVE ExactInv'
  OBVIOUS
<1>1. LastInv'
  BY LastStep DEF IInv
<1>2. \A q \in Invocations : SingleTemp(q)'
  BY SingleTempStep DEF IInv, ExactInv
<1> QED
  BY <1>1, <1>2, ExactTypeStep DEF IInv, ExactInv

LEMMA ExactSuffices == IInv /\ ExactInv => SuccessIsExact
<1> SUFFICES ASSUME IInv, ExactInv, ~overlap, Succeeded(last) PROVE SuccessIsExact
  BY DEF SuccessIsExact, Succeeded
<1> DEFINE p == last
           locations == {Canonical[path] : path \in ConfigOutputs(config[p])}
           searched == {Dir(l) : l \in locations}
<1>1. p \in Invocations /\ Known(p) /\ SearchInv(p) /\ InPlaceInv(p)
  BY DEF IInv, TypeOK, ExactInv, LastInv
<1>2. ConfigOutputs(config[p]) = outputs[p] /\ todo[p] = {} /\ temp[p] = {}
  BY <1>1 DEF Known, OutputsInv, InPlaceInv, SearchInv, Prepared
<1>3. locations = CanonicalRange(outputs[p]) /\ searched = Searched(p)
  BY <1>2 DEF CanonicalRange, Searched
<1> HIDE DEF p, locations, searched
<1>4. \A path \in ConfigOutputs(config[p]) : disk[Canonical[path]] = Content(p, path)
  BY <1>1, <1>2 DEF InPlaceInv, UpToDate, p
<1>5. \A dir \in searched : Left(p, dir) \subseteq {[Temp |-> TRUE, Of |-> p]}
  BY <1>1, <1>3 DEF SearchInv, SearchEnded, p
<1>6. ASSUME NEW l \in Locations \ locations, Dir(l) \in searched, IsGenerated(disk[l])
      PROVE  FALSE
  <2>1. l \in LeftFiles(p, Dir(l))
    BY <1>3, <1>6 DEF LeftFiles
  <2>2. [Temp |-> FALSE, Of |-> l] \in Left(p, Dir(l))
    BY <2>1 DEF Left
  <2>3. [Temp |-> FALSE, Of |-> l] = [Temp |-> TRUE, Of |-> p]
    BY <1>5, <1>6, <2>2
  <2> QED
    BY <2>3
<1>7. ASSUME NEW q \in Invocations, NEW t \in temp[q], t.Dir \in searched, IsGenerated(t.Content)
      PROVE  FALSE
  <2>1. q \in LeftTemps(t.Dir)
    BY <1>7 DEF LeftTemps
  <2>2. [Temp |-> TRUE, Of |-> q] \in Left(p, t.Dir)
    BY <2>1 DEF Left
  <2>3. [Temp |-> TRUE, Of |-> q] = [Temp |-> TRUE, Of |-> p]
    BY <1>5, <1>7, <2>2
  <2>4. q = p
    BY <2>3
  <2> QED
    BY <1>2, <1>7, <2>4
<1> QED
  BY <1>4, <1>6, <1>7 DEF SuccessIsExact, p, locations, searched

\* When invocations do not overlap, generate or diff that ends well has every
\* output in place and has overlooked no stale file in the directories it
\* writes to: checkStaleOutputs sees every entry before the first write, and
\* what follows changes only the outputs and the temporary file, which is gone.
THEOREM SuccessIsExactHolds == Spec => []SuccessIsExact
<1>1. Spec => []ExactInv
  BY IInvHolds, InitExact, NextExact, PTL DEF Spec
<1> QED
  BY <1>1, IInvHolds, ExactSuffices, PTL
=============================================================================
