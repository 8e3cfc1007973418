------------------------------ MODULE Generate ------------------------------
(***************************************************************************)
(* The commands generate, diff and compile (internal/cli/cli.go and         *)
(* outputs.go): prepare every output in memory, look for stale generated    *)
(* files, then replace the outputs one by one through a temporary file.     *)
(* Several invocations may share an output directory, and any of them may   *)
(* be killed.                                                               *)
(*                                                                          *)
(* A path is a sequence of names.  An invocation spells its paths in its    *)
(* own way; Canonical resolves the symbolic links of directories, and the   *)
(* disk is indexed by resolved paths.                                       *)
(***************************************************************************)
EXTENDS Naturals, Sequences, SequencesExt

CONSTANTS
    Invocations, \* runs of the command
    Configs,     \* configurations that may be loaded, see IsConfig
    Commands,    \* the commands in use, of generate, diff and compile
    SortedPaths, \* every path an invocation may write, in sorted order
    Canonical,   \* the resolved location of each path
    Initial      \* what the disk holds at first

Paths == Range(SortedPaths)
Locations == DOMAIN Initial

\* A configuration and its sources.  Text stands for everything generated
\* from them; Sound says that reading, analysis or a generator succeeds.
IsConfig(c) ==
    /\ c.Path \in Locations
    /\ c.SQL \in Seq(Range(c.SQL))
    /\ \A set \in Range(c.SQL) :
           /\ {set.Schema, set.Database, set.Sound} \subseteq BOOLEAN
           /\ set.Sources \subseteq Locations
           /\ set.Gen \in Seq(Range(set.Gen))
           /\ \A gen \in Range(set.Gen) : gen.Sound \in BOOLEAN /\ gen.Files \in Seq(Paths)

NoConfig == [Path |-> <<>>, SQL |-> <<>>, Text |-> "none"]

\* Contents of a file: none, something the user wrote, a generated text cut
\* short, or a generated text.  Only a generated text begins with the header.
Absent == [Kind |-> "absent"]
Handwritten == [Kind |-> "handwritten"]
Partial == [Kind |-> "partial"]
Generated(text, path) == [Kind |-> "generated", Text |-> text, Path |-> path]

IsGenerated(content) == content.Kind = "generated"

Dir(path) == Front(path)

ASSUME GenerateAssumption ==
    /\ \A c \in Configs : IsConfig(c) /\ c # NoConfig
    /\ \A c, d \in Configs : c.Text = d.Text => c = d
    /\ Commands \subseteq {"generate", "diff", "compile"}
    /\ SortedPaths \in Seq(Paths)
    /\ Canonical \in [Paths -> Locations]
    /\ Initial = [l \in Locations |-> Initial[l]]
    /\ \A l \in Locations :
           Initial[l] \in {Absent, Handwritten} \/ IsGenerated(Initial[l])

VARIABLES
    disk,     \* the file at each location
    temp,     \* the temporary file of each invocation, a singleton or empty
    config,   \* the configuration each invocation loaded
    command,  \* the command it was given
    pc,       \* where it is
    next,     \* the query set it is preparing
    generator, \* the generator it runs next, 0 before the set is analyzed
    outputs,  \* the paths it is going to write
    todo,     \* those of them that it has not compared or written yet
    dirs,     \* directories still to be searched for stale files
    entries,  \* entries of the current directory still to be inspected
    stale,    \* the stale files it found
    changed,  \* whether diff found a difference
    overlap,  \* whether the user lets invocations run at the same time
    last      \* history: the invocation that started last

vars == <<disk, temp, config, command, pc, next, generator, outputs, todo, dirs,
          entries, stale, changed, overlap, last>>
files == <<disk, temp>>
preparation == <<next, generator, outputs>>
given == <<config, command, overlap, last>>
search == <<dirs, entries, stale>>

Ended == {"ok", "failed", "crashed"}
Running(p) == pc[p] \notin Ended \cup {"idle"}

GoTo(p, state) == pc' = [pc EXCEPT ![p] = state]
Fail(p) == GoTo(p, "failed")

\* What p generates for a path.
Content(p, path) == Generated(config[p].Text, path)

-----------------------------------------------------------------------------
(***************************************************************************)
(* prepare.  A query set is read and analyzed, then its generators run in   *)
(* order; the first error ends the command.                                 *)
(***************************************************************************)
Start(p) ==
    /\ pc[p] = "idle"
    /\ overlap \/ \A q \in Invocations : ~Running(q)
    /\ \E c \in Configs : config' = [config EXCEPT ![p] = c]
    /\ \E cmd \in Commands : command' = [command EXCEPT ![p] = cmd]
    /\ last' = p
    /\ GoTo(p, "preparing")
    /\ UNCHANGED <<files, preparation, todo, search, changed, overlap>>

\* A file where a directory is needed, and a directory where a file is.
UnderFile(location) ==
    \E l \in Locations : disk[l] # Absent /\ IsStrictPrefix(l, location)
IsDirectory(location) ==
    \E l \in Locations : disk[l] # Absent /\ IsStrictPrefix(location, l)

CanonicalRange(paths) == {Canonical[path] : path \in paths}

AnalyzesSet(set) ==
    /\ set.Schema \/ set.Database
    /\ set.Sound

AnalyzeSet(p) ==
    LET set == config[p].SQL[next[p]]
        generates == command[p] # "compile"
        accepted == AnalyzesSet(set) /\ (generates => Len(set.Gen) > 0)
    IN  /\ pc[p] = "preparing" /\ generator[p] = 0
        /\ next[p] <= Len(config[p].SQL)
        /\ \/ ~accepted /\ Fail(p) /\ UNCHANGED preparation
           \/ /\ accepted /\ generates
              /\ generator' = [generator EXCEPT ![p] = 1]
              /\ UNCHANGED <<pc, next, outputs>>
           \/ /\ accepted /\ ~generates
              /\ next' = [next EXCEPT ![p] = @ + 1]
              /\ UNCHANGED <<pc, generator, outputs>>
        /\ UNCHANGED <<files, given, todo, search, changed>>

\* Fault: collisions are looked for before links are resolved.
AddAcceptsSpelled(p, paths) ==
    \A i \in DOMAIN paths :
        /\ ~UnderFile(Canonical[paths[i]])
        /\ paths[i] \notin outputs[p]
        /\ \A j \in DOMAIN paths : paths[i] = paths[j] => i = j

\* add: every path can be resolved, and no two resolve to one location.
AddAccepts(p, paths) ==
    \A i \in DOMAIN paths :
        /\ ~UnderFile(Canonical[paths[i]])
        /\ Canonical[paths[i]] \notin CanonicalRange(outputs[p])
        /\ \A j \in DOMAIN paths : Canonical[paths[i]] = Canonical[paths[j]] => i = j

\* The generator after this one, or the query set after this one.
NextGenerator(p) ==
    IF generator[p] < Len(config[p].SQL[next[p]].Gen)
    THEN generator' = [generator EXCEPT ![p] = @ + 1] /\ UNCHANGED next
    ELSE /\ generator' = [generator EXCEPT ![p] = 0]
         /\ next' = [next EXCEPT ![p] = @ + 1]

\* Fault: a generator that fails is left out, and the others go on.
RunGeneratorSkips(p) ==
    LET gen == config[p].SQL[next[p]].Gen[generator[p]]
    IN  /\ pc[p] = "preparing" /\ generator[p] > 0
        /\ outputs' = IF gen.Sound /\ AddAccepts(p, gen.Files)
                      THEN [outputs EXCEPT ![p] = @ \cup Range(gen.Files)] ELSE outputs
        /\ NextGenerator(p)
        /\ UNCHANGED <<files, given, pc, todo, search, changed>>

RunGenerator(p) ==
    LET gen == config[p].SQL[next[p]].Gen[generator[p]]
        accepted == gen.Sound /\ AddAccepts(p, gen.Files)
    IN  /\ pc[p] = "preparing" /\ generator[p] > 0
        /\ \/ ~accepted /\ Fail(p) /\ UNCHANGED preparation
           \/ /\ accepted
              /\ outputs' = [outputs EXCEPT ![p] = @ \cup Range(gen.Files)]
              /\ NextGenerator(p)
              /\ UNCHANGED pc
        /\ UNCHANGED <<files, given, todo, search, changed>>

\* Locations of the configuration file and of all schema and query sources.
InputLocations(c) ==
    {c.Path} \cup UNION {c.SQL[k].Sources : k \in DOMAIN c.SQL}

\* Fault: outputs are compared with each other only.
OutputsSeparateAmong(p) ==
    \A a, b \in CanonicalRange(outputs[p]) : ~IsStrictPrefix(a, b)

\* Every output can still be resolved, and none resolves to an input or to a
\* directory of another output.
OutputsSeparate(p) ==
    LET locations == CanonicalRange(outputs[p])
    IN  /\ \A l \in locations : ~UnderFile(l)
        /\ locations \cap InputLocations(config[p]) = {}
        /\ \A a, b \in locations : ~IsStrictPrefix(a, b)

PrepareEnd(p) ==
    /\ pc[p] = "preparing" /\ generator[p] = 0
    /\ next[p] > Len(config[p].SQL)
    /\ \/ ~OutputsSeparate(p) /\ Fail(p) /\ UNCHANGED <<todo, dirs>>
       \/ /\ OutputsSeparate(p) /\ command[p] = "compile"
          /\ GoTo(p, "ok")
          /\ UNCHANGED <<todo, dirs>>
       \/ /\ OutputsSeparate(p) /\ command[p] # "compile"
          /\ todo' = [todo EXCEPT ![p] = outputs[p]]
          /\ dirs' = [dirs EXCEPT ![p] =
                         {Dir(l) : l \in CanonicalRange(outputs[p])}]
          /\ GoTo(p, "checking")
    /\ UNCHANGED <<files, given, preparation, entries, stale, changed>>

-----------------------------------------------------------------------------
(***************************************************************************)
(* checkStaleOutputs.  A directory is listed first; its entries are opened  *)
(* later, and one that is gone by then is an error.  A temporary file of    *)
(* another invocation is an entry like any other.  The order of directories *)
(* and entries is left open: it only orders the report.                     *)
(***************************************************************************)
TempsIn(dir) == {q \in Invocations : \E t \in temp[q] : t.Dir = dir}

FilesIn(dir) == {l \in Locations : Dir(l) = dir /\ disk[l] # Absent}

IsFile(dir) == dir \in Locations /\ disk[dir] # Absent

ListDir(p) ==
    /\ pc[p] = "checking"
    /\ entries[p] = {}
    /\ \E dir \in dirs[p] :
          \/ /\ IsFile(dir) \/ UnderFile(dir)
             /\ Fail(p)
             /\ UNCHANGED <<dirs, entries>>
          \/ /\ ~IsFile(dir) /\ ~UnderFile(dir)
             /\ dirs' = [dirs EXCEPT ![p] = @ \ {dir}]
             /\ entries' = [entries EXCEPT ![p] =
                    {[Temp |-> FALSE, Of |-> l] :
                         l \in FilesIn(dir) \ CanonicalRange(outputs[p])}
                    \cup {[Temp |-> TRUE, Of |-> q] : q \in TempsIn(dir)}]
             /\ UNCHANGED pc
    /\ UNCHANGED <<files, given, preparation, todo, stale, changed>>

Vanished(entry) ==
    IF entry.Temp THEN temp[entry.Of] = {} ELSE disk[entry.Of] = Absent

EntryContent(entry) ==
    IF entry.Temp THEN (CHOOSE t \in temp[entry.Of] : TRUE).Content
    ELSE disk[entry.Of]

\* A text that is cut short may or may not include the whole header line.
hasGeneratedHeader(content) ==
    CASE IsGenerated(content) -> {TRUE}
      [] content = Partial -> BOOLEAN
      [] OTHER -> {FALSE}

Inspect(p) ==
    /\ pc[p] = "checking"
    /\ \E entry \in entries[p] :
          \/ /\ Vanished(entry)
             /\ Fail(p)
             /\ UNCHANGED <<entries, stale>>
          \/ /\ ~Vanished(entry)
             /\ \E found \in hasGeneratedHeader(EntryContent(entry)) :
                    stale' = [stale EXCEPT ![p] =
                                 IF found THEN @ \cup {entry} ELSE @]
             /\ entries' = [entries EXCEPT ![p] = @ \ {entry}]
             /\ UNCHANGED pc
    /\ UNCHANGED <<files, given, preparation, todo, dirs, changed>>

StaleVerdict(p) ==
    /\ pc[p] = "checking"
    /\ dirs[p] = {} /\ entries[p] = {}
    /\ \/ stale[p] # {} /\ Fail(p)
       \/ stale[p] = {} /\ command[p] = "diff" /\ GoTo(p, "comparing")
       \/ stale[p] = {} /\ command[p] = "generate" /\ GoTo(p, "writing")
    /\ UNCHANGED <<files, given, preparation, todo, search, changed>>

-----------------------------------------------------------------------------
(***************************************************************************)
(* compare and writeFile, for one output after another in sorted order.     *)
(* Every error ends the command; the deferred calls of writeFile have       *)
(* removed the temporary file by then.                                      *)
(***************************************************************************)
Rank(path) == CHOOSE i \in DOMAIN SortedPaths : SortedPaths[i] = path
AtOutput(p, state, path) ==
    /\ pc[p] = state /\ path \in todo[p]
    /\ \A other \in todo[p] : Rank(path) <= Rank(other)
AfterOutputs(p, state) == pc[p] = state /\ todo[p] = {}
Done(p, path) == todo' = [todo EXCEPT ![p] = @ \ {path}]
UpToDate(p, path) == disk[Canonical[path]] = Content(p, path)

\* os.ReadFile: an absent file is no error, a directory is one.
Readable(location) == ~UnderFile(location) /\ ~IsDirectory(location)

Compare(p) ==
    /\ \E path \in todo[p] :
          /\ AtOutput(p, "comparing", path)
          /\ \/ ~Readable(Canonical[path]) /\ Fail(p) /\ UNCHANGED <<todo, changed>>
             \/ /\ Readable(Canonical[path])
                /\ changed' = [changed EXCEPT ![p] = @ \/ ~UpToDate(p, path)]
                /\ Done(p, path)
                /\ UNCHANGED pc
    /\ UNCHANGED <<files, given, preparation, search>>

CompareEnd(p) ==
    /\ AfterOutputs(p, "comparing")
    /\ GoTo(p, IF changed[p] THEN "failed" ELSE "ok")
    /\ UNCHANGED <<files, given, preparation, todo, search, changed>>

\* Fault: an output that is up to date is looked at for ever.
SkipUnchangedStays(p) ==
    /\ \E path \in todo[p] : AtOutput(p, "writing", path) /\ UpToDate(p, path)
    /\ UNCHANGED vars

SkipUnchanged(p) ==
    /\ \E path \in todo[p] :
          AtOutput(p, "writing", path) /\ UpToDate(p, path) /\ Done(p, path)
    /\ UNCHANGED <<files, given, pc, preparation, search, changed>>

TempOf(path, content) == [Dir |-> Dir(Canonical[path]), Content |-> content]

\* Fault: the output itself is opened for writing.
CreateTempInPlace(p) ==
    /\ \E path \in todo[p] :
          /\ AtOutput(p, "writing", path)
          /\ Readable(Canonical[path]) /\ ~UpToDate(p, path)
          /\ disk' = [disk EXCEPT ![Canonical[path]] = Partial]
          /\ temp' = [temp EXCEPT ![p] = {TempOf(path, Partial)}]
    /\ GoTo(p, "created")
    /\ UNCHANGED <<given, preparation, todo, search, changed>>

CreateTemp(p) ==
    /\ \E path \in todo[p] :
          /\ AtOutput(p, "writing", path)
          /\ Readable(Canonical[path]) /\ ~UpToDate(p, path)
          /\ temp' = [temp EXCEPT ![p] = {TempOf(path, Partial)}]
    /\ GoTo(p, "created")
    /\ UNCHANGED <<disk, given, preparation, todo, search, changed>>

\* Fault: the old output is removed before the rename.
WriteTempRemovesOld(p) ==
    /\ \E path \in todo[p] :
          /\ AtOutput(p, "created", path)
          /\ temp' = [temp EXCEPT ![p] = {[t EXCEPT !.Content = Content(p, path)] : t \in @}]
          /\ disk' = [disk EXCEPT ![Canonical[path]] = Absent]
    /\ GoTo(p, "written")
    /\ UNCHANGED <<given, preparation, todo, search, changed>>

\* The descriptor stays valid when the file was removed meanwhile; then it
\* is the rename that fails.
WriteTemp(p) ==
    /\ \E path \in todo[p] :
          /\ AtOutput(p, "created", path)
          /\ temp' = [temp EXCEPT ![p] = {[t EXCEPT !.Content = Content(p, path)] : t \in @}]
    /\ GoTo(p, "written")
    /\ UNCHANGED <<disk, given, preparation, todo, search, changed>>

RenameTemp(p) ==
    /\ \E path \in todo[p] :
          /\ AtOutput(p, "written", path)
          /\ ~IsDirectory(Canonical[path])
          /\ \E t \in temp[p] : disk' = [disk EXCEPT ![Canonical[path]] = t.Content]
          /\ Done(p, path)
    /\ temp' = [temp EXCEPT ![p] = {}]
    /\ GoTo(p, "writing")
    /\ UNCHANGED <<given, preparation, search, changed>>

\* Any of the file operations fails.
WriteFails(p) ==
    /\ \E path \in todo[p] :
          \/ AtOutput(p, "writing", path) /\ ~UpToDate(p, path)
          \/ AtOutput(p, "created", path)
          \/ AtOutput(p, "written", path)
    /\ temp' = [temp EXCEPT ![p] = {}]
    /\ Fail(p)
    /\ UNCHANGED <<disk, given, preparation, todo, search, changed>>

WriteEnd(p) ==
    /\ AfterOutputs(p, "writing")
    /\ GoTo(p, "ok")
    /\ UNCHANGED <<files, given, preparation, todo, search, changed>>

-----------------------------------------------------------------------------
\* The process is killed: the temporary file stays.
Crash(p) ==
    /\ Running(p)
    /\ GoTo(p, "crashed")
    /\ UNCHANGED <<files, given, preparation, todo, search, changed>>

\* The user removes what the last invocation reported as stale.
RemoveStale(p) ==
    /\ pc[p] = "failed" /\ last = p
    /\ \E entry \in stale[p] :
          /\ ~Vanished(entry)
          /\ IF entry.Temp
             THEN temp' = [temp EXCEPT ![entry.Of] = {}] /\ UNCHANGED disk
             ELSE disk' = [disk EXCEPT ![entry.Of] = Absent] /\ UNCHANGED temp
    /\ UNCHANGED <<given, pc, preparation, todo, search, changed>>

Init ==
    /\ disk = Initial
    /\ temp = [p \in Invocations |-> {}]
    /\ config = [p \in Invocations |-> NoConfig]
    /\ command = [p \in Invocations |-> "none"]
    /\ pc = [p \in Invocations |-> "idle"]
    /\ next = [p \in Invocations |-> 1]
    /\ generator = [p \in Invocations |-> 0]
    /\ outputs = [p \in Invocations |-> {}]
    /\ todo = [p \in Invocations |-> {}]
    /\ dirs = [p \in Invocations |-> {}]
    /\ entries = [p \in Invocations |-> {}]
    /\ stale = [p \in Invocations |-> {}]
    /\ changed = [p \in Invocations |-> FALSE]
    /\ overlap \in BOOLEAN
    /\ last \in Invocations

Step(p) ==
    \/ AnalyzeSet(p) \/ RunGenerator(p) \/ PrepareEnd(p)
    \/ ListDir(p) \/ Inspect(p) \/ StaleVerdict(p)
    \/ Compare(p) \/ CompareEnd(p)
    \/ SkipUnchanged(p) \/ CreateTemp(p) \/ WriteTemp(p) \/ RenameTemp(p)
    \/ WriteFails(p) \/ WriteEnd(p)

Next ==
    \E p \in Invocations : Start(p) \/ Step(p) \/ Crash(p) \/ RemoveStale(p)

Spec == Init /\ [][Next]_vars

\* A command that is running goes on until it ends or is killed.
FairSpec == Spec /\ \A p \in Invocations : WF_vars(Step(p))

-----------------------------------------------------------------------------
(***************************************************************************)
(* Properties.                                                              *)
(***************************************************************************)

\* Every path the configuration makes the generators write.
Generators(c) == UNION {Range(c.SQL[k].Gen) : k \in DOMAIN c.SQL}
ConfigOutputs(c) == UNION {Range(gen.Files) : gen \in Generators(c)}

SoundConfig(c) ==
    \A set \in Range(c.SQL) : set.Sound /\ \A gen \in Range(set.Gen) : gen.Sound

\* Before the first invocation no output of a configuration exists.
ASSUME FreshAssumption ==
    \A c \in Configs, l \in Locations, path \in Paths : Initial[l] # Generated(c.Text, path)

\* Sources are not generated, and a configuration that writes to a source of
\* another one has that source too.
ASSUME InputsAssumption ==
    \A c \in Configs :
        /\ \A l \in InputLocations(c) : ~IsGenerated(Initial[l])
        /\ \A d \in Configs : \A path \in ConfigOutputs(d) :
              Canonical[path] \in InputLocations(c) => Canonical[path] \in InputLocations(d)

\* "Complete all analyses and generation before modifying any output files":
\* while one query set or generator of a configuration fails, none of its
\* files is written, and no temporary file is made.
PreparedBeforeWrites ==
    \A p \in Invocations :
        ~SoundConfig(config[p]) =>
            /\ temp[p] = {}
            /\ \A l \in Locations, path \in Paths :
                   disk[l] # Content(p, path)

\* The configuration file and the sources of every loaded configuration hold
\* what the user put there, however the output directories are spelled.
InputsKept ==
    \A p \in Invocations :
        pc[p] # "idle" =>
            \A l \in InputLocations(config[p]) : disk[l] = Initial[l]

\* When the invocation that started last reports success (generate wrote, or
\* diff found no difference) and no other ran meanwhile, each output is in
\* place, and no directory it writes to holds another generated file.
SuccessIsExact ==
    LET p == last
        locations == {Canonical[path] : path \in ConfigOutputs(config[p])}
        searched == {Dir(l) : l \in locations}
    IN  ~overlap /\ pc[p] = "ok" /\ command[p] # "compile" =>
            /\ \A path \in ConfigOutputs(config[p]) :
                   disk[Canonical[path]] = Content(p, path)
            /\ \A l \in Locations \ locations :
                   Dir(l) \in searched => ~IsGenerated(disk[l])
            /\ \A q \in Invocations : \A t \in temp[q] :
                   t.Dir \in searched => ~IsGenerated(t.Content)

\* Invocations of one configuration, overlapping in any way and killed at any
\* point, do not undo what one of them completed.
SameConfigAgrees ==
    \A p \in Invocations :
        /\ pc[p] = "ok" /\ command[p] = "generate"
        /\ \A q \in Invocations : config[q] \in {config[p], NoConfig}
        => \A path \in ConfigOutputs(config[p]) :
               disk[Canonical[path]] = Content(p, path)

\* "Never delete files on the user's behalf": a file that disappears had been
\* reported as stale by the last invocation, which failed; every other change
\* puts a complete generated text in place of a file that invocation writes.
NothingDeleted ==
    [][\A l \in Locations :
          disk'[l] # disk[l] =>
              \/ /\ disk'[l] = Absent
                 /\ pc[last] = "failed"
                 /\ [Temp |-> FALSE, Of |-> l] \in stale[last]
              \/ \E p \in Invocations : \E path \in ConfigOutputs(config[p]) :
                     /\ Running(p) /\ command[p] = "generate"
                     /\ Canonical[path] = l
                     /\ disk'[l] = Content(p, path)]_vars

\* Every invocation ends, whatever the others do (FairSpec).
Ends == \A p \in Invocations : Running(p) ~> ~Running(p)
=============================================================================
