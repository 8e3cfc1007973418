# A verification project for sqlc-ydb

sqlc-ydb reads a YDB schema and annotated YQL queries and generates typed client
code in nine languages. This directory holds TLA+ modules that model it from the
configuration file to the generated methods, the TLC configurations that check
them on small instances, and TLAPS proofs of what matters most for all instances.
`PROJECT.json` maps every definition to the lines it models and lists the hazards
that the properties are aimed at.

    tlc -config MCCatalog.cfg MCCatalog       # one of the runs of section 3
    tlapm CatalogProofs.tla                   # one of the proofs of section 4

## 1. Inventory of the system

| Component | State it keeps | Operations | Talks to |
|---|---|---|---|
| Schema catalog (`internal/analyzer/catalog.go`, `catalog_indexes.go`) | an ordered list of tables with columns, keys, indexes | one per CREATE, ALTER, DROP TABLE statement; six ALTER actions | built by the analyzer, read by query semantics, compared with the server's description |
| Query semantics (`semantic.go`, `select_semantic.go`, `expression.go`, `predicate.go` and their neighbours) | scopes, named selects, parameter types found so far | resolve names, infer parameters, type expressions and results, check assignments | catalog, built-ins |
| Rewriting (`wildcard.go`, `sqlc_macro.go`, `embed.go`, `projection_names.go`) | the rewritten text | expand `*`, `sqlc.embed`, lower `sqlc.arg` and `sqlc.narg`, name results | query semantics, which runs up to three times |
| Built-ins (`internal/yql/builtins`) | tables of signatures | conversions, overload resolution, overlap of configured functions | query semantics |
| Database-assisted analysis (`analyzer.go`, `database.go`, `internal/database`) | diagnostics, the catalog of described tables, the query results | EXPLAIN each query, describe each table, compare, analyze, EXPLAIN expansions, close | a YDB server whose schema others change |
| Configuration, `init` (`internal/config`) | none between calls | decode, validate, fill defaults, resolve the connection, write a starter file | every command |
| Sources (`internal/source`) | none between calls | expand directories and globs, filter, cut at the rollback section | the file system |
| Output pipeline (`internal/cli/cli.go`, `outputs.go`) | the prepared outputs; the file system | prepare, stale check, compare, write | analyzer and generators; other invocations through the file system |
| `verify` (`internal/cli/verify.go`) | failures found so far | analyze the release and its executable text, match query sets, compare signatures | analyzer |
| `vet` (`internal/cli/vet.go`) | findings so far, the connection | compile rules, analyze, explain, evaluate, close | analyzer, server |
| Generators (`internal/codegen/*`) | names taken so far | refuse collisions, declare models and methods, read rows, bind parameters | the analysis result |
| Generated result readers | one result stream per call | open, next set, next row, callback, close | YDB SDKs and drivers; the caller's context and callback |
| Upgrade (`internal/update`, `install.sh`) | executable, staged file, lock directory | find the release, identify, download, verify, extract, lock, replace | GitHub releases; other upgrades and installers through the file system |

The program itself is one goroutine. Three kinds of behaviour make it hard.
*Around it*: several processes on one directory (upgrades, installers, overlapping
`generate`), kills between two system calls, symbolic links, a server that fails,
ends a stream early or changes its schema between two requests, and, in generated
code, a caller that cancels while rows are delivered. *Sequence*: what a long list
of DDL statements, some of them refused, leaves in the catalog; parameter types
that statement after statement narrows; texts that are analyzed, rewritten and
analyzed again; a clean verdict after rules, plans and sets that were skipped.
*Agreement*: a generator, a driver and the released client must mean the same
query, column and parameter, under names that nine languages spell differently.

What makes each part correct:

* catalog: one table per name, references that resolve, and statements that take
  effect as a whole or not at all;
* queries: a result type that admits every row the server may return, assignments
  that fit the types reported in the end, a rewriting that keeps the result;
* verify: a schema it accepts is safe for the released client, and additions are
  accepted;
* vet: a clean verdict covers every rule, query and plan; no finding is lost;
* sources and configuration: the schema is the forward migrations in order; `init`
  and `Parse` agree on the defaults;
* outputs: nothing written before everything is prepared, no input overwritten,
  success only when exactly the configured files are in place, nothing deleted;
* generators: a program is refused or its names resolve, rows fill the fields they
  were declared for, and each parameter reaches its place in the text;
* readers: all rows once and in order, or an error and no rows; prompt reaction to
  cancellation; the stream closed on every exit;
* database analysis: success only after the server compiled every query and
  described every table it uses; no failure lost;
* upgrade: a complete executable at every moment, one replacement at a time, only
  of the file that was identified, nothing left behind, no downgrade.

## 2. Modules

| Module | Models | Instance | Proofs |
|---|---|---|---|
| `Catalog`, `Schema` | `buildCatalog` and its statements; what the catalog promises | `MCCatalog` | `CatalogProofs` |
| `YQLTypes` | types, conversions, inference of one parameter | below | `TypesProofs` |
| `Overloads`, `Registry` | signatures and the calls that match them; the registry of configured functions | below | `TypesProofs` |
| `Builtins`, `Libraries` | core functions, valid types; library functions | below | |
| `Expressions`, `Selects` | expressions and predicates; SELECT, joins, grouping, wildcards | below | |
| `QueryAnalysis` | `analyzeExecutableQuery`: a script through all its passes | `MCQueryAnalysis` | |
| `QueryMeaning` | what the server may return (external), for the property about NULL | `MCQueryAnalysis` | |
| `Verify` | `verify`: two analyses and their comparison | `MCQueryAnalysis` | |
| `DatabaseAnalysis` | `analyzeSources` and `analyze` with a database | `MCDatabaseAnalysis` | `DatabaseProofs` |
| `Sources`, `Configuration` | `source.Read`; `config.Parse`, generators, `init`, connections | `MCVet` | `VetProofs` |
| `Vet` | `vet` over both | `MCVet` | `VetProofs` |
| `Generate` | `run` for generate, diff and compile | `MCGenerate` | `GenerateProofs` |
| `Rendering`, the nine `*Generator` modules, `Generators` | names, rows and bindings of the programs written | `MCGenerators` | `GeneratorsProofs` |
| `ResultReaders` | methods emitted by the Go and Java generators | `MCResultReaders` | `ReadersProofs` |
| `Update` | `Update`, `install` and `install.sh` | `MCUpdate` | `UpdateProofs` |

`QueryAnalysis` extends `Selects`, which extends `Expressions`, `Libraries`,
`Builtins`, `Overloads` and `YQLTypes`, and takes its first step from `Registry`;
`Verify` runs `QueryAnalysis` twice; `Vet` extends `Sources` and `Configuration`;
`Generators` extends the nine generators over `Rendering`. `DatabaseAnalysis`,
`Generate` and `Vet` see an analysis by its outcome, `Generators` by its result.

Definitions called "Fault" in a comment are plausible bugs of the definition that
follows. They are never part of a specification; replacing the definition by its
fault must break the property the fault is paired with, which shows that the
property watches that code.

### Catalog and Schema

`tables` is the slice `catalog.Tables`. CREATE and DROP are one step each. ALTER
copies the table into `working` (`cloneTable`), then takes a step per action, and
commits at the end. A refusal ends the statement and drops the copy. Columns keep
the flags the code computes (`SequenceGenerated`, the `Optional` wrapper), and a
type is a base with a number of wrappers, because `DROP NOT NULL` wraps a type at
most once. Names are already resolved against the path prefix.

`Schema` is the abstract specification: a function from names to tables in which a
statement is one step, with no positions, no order of tables and no working copy.
Its `Alter` is loose on purpose: it leaves any well-formed table of that name whose
key columns keep their base types and sequences, whatever else has changed, and every
statement may be refused. `Catalog!ImplementsSchema` maps the slice to it. The steps
inside an ALTER map to stuttering.

### Queries

A type is a record of its kind and arguments. An expression is a record with one
shape for every operator (`Expr`), as the parse tree is unwrapped by the code; a
SELECT core, a source, a statement and a script likewise. Each record carries what
the code asks the tree for, and no text, except that the analyzer's names are
strings. `Scope` is the Go struct of the same name. Errors are values: the code
returns at its first error, and so do the operators.

`Selects` threads an environment (`bindings`, `inferred`, `rewrites`, `ok`) through
the steps of `analyzeSelectCore` in the order of the code: relations and their
nullability, aggregates, inference from comparisons and lists, IN subqueries,
inference from contexts, LIMIT, grouping aliases, projection, ORDER BY, predicates,
grouping. The order matters, because a later step sees types that an earlier one
inferred.

`QueryAnalysis` is a state machine over one script. What an expression and a
statement mean it takes as constant operators (`TypeOf`, `AnalyzeTabular`,
`AnalyzeStatement`), to which every configuration assigns `resolveExpression`,
`analyzeTabular` and `analyzeDataStatement`: TLC's coverage statistics follow a call
into each of its operators, at every place where it is written, but not into a
constant. `Registry` adds the configured functions one by one and knows nothing else
of the analysis: which types are valid (`ValidType`, `ValidSignatureType`) and which
names the analyzer ships (`KnownFunction`) are constants as well, to which the
configurations assign definitions of `Builtins` and `Libraries`. All other steps of
`QueryAnalysis` leave its variables `functions` and `pending` alone, so that every
behaviour of `QueryAnalysis` is one of `RegistrySpec`. `Begin` starts a pass,
`LocalBinding` and `DataStatement` take one statement, and `Finish` checks
parameters, results and command and either reports, or starts another pass: with the
types that `sqlc.narg` assumes, or with wildcards and embeds written out. `report`
holds the result of the authored text and `block.expanded` the cores of the
rewritten one.

`Verify` analyzes the released script, then its executable text (no macros, no
wildcards) against each proposed configuration, and compares parameters, result
sets, columns and commands as `verifyQuery` does.

### DatabaseAnalysis

One analysis of one query set: `Prepare` (schema, blocks, names), then for each
query without an embed macro an EXPLAIN whose response stream is received part by
part, then the description, decoding and comparison of each referenced table, then
the local analysis of each query and a second EXPLAIN for those with embeds, and
`Close`. Each request may fail instead. `Migrate` changes the server's tables
between any two steps. A query is the set of columns it uses and the tables whose
columns it takes as a whole; `decodeTable` and `compareDatabaseTable` are modelled
field by field.

### Sources, Configuration and Vet

`Sources` reads from `Tree`, a function from paths to files and directories. A file
name is the sequence of its character codes, suffix included, and names are compared
whole, as `filepath.Glob` and `os.ReadDir` do: `001-x.sql` and `001.x.sql` come before
`001.sql`. Contents are lexer tokens, so that a directive inside a string literal is
no comment. The loops of
`Read` over patterns, matches and files of a directory pass *places* (numbers of
pattern, match and file); a file is read at its first place, which is what `seen`
makes of the loops, and refused when a pattern, path or file is. `Configuration`
has a document as decoded YAML (a function on the keys present), what `Parse`
refuses, the defaults it fills in, the table of generators with runtimes and
aliases, the document that `init` writes, and the conditions under which
connection settings resolve.

`Vet` has one action per stage of the command: load, compile the rules, check that
a set is ready, analyze it, connect for plans, explain a query, evaluate one rule,
close. Whether CEL evaluates to true, false or an error, whether the plan can be
fetched and decoded, whether analysis succeeds and whether `Close` fails are
choices of the step. `evaluated` is history: each evaluation with the plan it saw.

### Generate

An invocation reads its configuration and prepares query set by query set: a step
analyzes a set (`AnalyzeSet`), then a step runs each of its generators
(`RunGenerator`), which succeeds or not and names its output files; `outputs`
collects them, refusing two that resolve to one location. `PrepareEnd` compares
them with the inputs and with each other. Then it lists each output directory,
inspects the files listed one by one, and compares (`diff`) or writes file by file
in sorted order (`todo` holds the outputs that remain): skip if unchanged, create a
temporary, write it, rename it. A kill may fall between any two steps. `disk` maps
resolved locations to contents, a location lies under another as in the file
system, and links are in `Canonical`. `overlap` says whether invocations may
interleave. `RemoveStale` is the user removing a file the program reported.

`FreshAssumption` says that what the disk holds at first is no output of a
configuration in use, `InputsAssumption` that sources are not generated files, and
that a configuration which writes to a source of another one reads that source
too. Without the latter `prepare` cannot know of the source it overwrites.

### Generators

A name of the schema is a sequence of words with their separators and case, so
that `user_id`, `userId` and `UserID` are three names that some languages spell
alike; `Spelling` says how each word looks in each case. An analysis result has
tables, queries, parameters, columns with their wire names, and embeds. A
generator maps it to `Refused` or to a program: nested scopes with the names
declared in each and the names used, what those uses are meant to denote, where
each field of a model takes its value from, and which parameter is sent for each
place in the text. The lists of reserved and taken names are those of the source,
restricted to the words of the instance. Each `*Generator` module covers all
runtimes of its language, except jOOQ.

### ResultReaders

A method is a runtime (native Go SDK, `database/sql`, JDBC), a command, whether the
query is a script, and the schemas it expects. The generators emit different code
for each; the operators `RefusesExtraSet`, `RequiresSet`, `ReadsEverySet`,
`ReportsClose` and `Canceled` say which methods contain which check, and the
actions are the places in the emitted code. The server's response is chosen once:
sets with schemas and rows, any of which may not scan, and whether it ends with an
error. On top of that any request may fail, the callback may fail, `Close` may
fail, and the caller of a Go method may cancel at any point. Checks of argument
ranges, which return before anything is sent, are left out.

### Update

Processes are updaters and installers. Each creates at most one file, which is named
after it; `target` is the file at the executable's path, `temp` the staged files,
`content` what a file holds, `inode` the number it got. Each action is the code
between two system calls another process can observe. A number is free again when
its file has no name and nobody executes it, so `SameFile` can be deceived by reuse;
`seen` remembers, as history, which file the captured number belonged to. Versions
are numbered in their order, and `Components` gives the strings of digits that
`Newer` compares. Any process can be killed anywhere. `RecoverLock` is the user
following the message of the lock error: the directory is removed only when no
updater runs. New releases appear at any time up to `MaxVersion`.

## 3. Runs

| Run | Question | Instance and why it is enough |
|---|---|---|
| `catalog` | Is the catalog consistent after any statements, and does it implement `Schema`? | 2 table names (rename collisions need 2), 3 columns, 1 index name, a CREATE for each diagnostic, 2 actions per ALTER so that a second one fails after a first, at most 5 columns and indexes in all |
| `queries` | Do the reported types hold, does rewriting keep them, is what `verify` accepts safe? | 111 scripts, at least one for every rule accepted and refused, over 3 tables with required, optional, serial and list columns; every subset of 4 configured functions; 7 proposed configurations (unchanged, columns and a table added beside another set, DROP NOT NULL, other types, dropped columns, a repeated set name, an unnamed set) |
| `queries_stale` | Are result types those of the final parameters? | expected violation, see 6 |
| `verify_narg` | Does an unchanged release verify? | expected violation, see 6 |
| `database` | Is the verdict right, also while the schema changes twice? | 17 query sets against all pairs of 13 table descriptions, each different from the schema in one way; 2 response parts; migrations among 5 descriptions for 6 query sets |
| `vet` | Does a clean verdict cover everything, and does a failure keep the findings? | 3 rules (two local, one on plans), sets with and without a connection, two sets in a row, overlapping patterns, 11 documents with one mistake each, 1 or 2 queries; a directory of migrations with every kind of file to be left out and with names that sort differently with and without their suffix; every file `init` can write |
| `generate` | Is success exact, whatever earlier invocations left, and do overlapping ones respect each other and end? | 12 configurations, one for each way preparation can end, links to outputs and to inputs, crashes; 3 invocations in sequence, of which the first or the last may be killed, or 2 interleaved |
| `generators` | Is a program refused, or are its names, rows and bindings right? | 9 languages with every runtime but jOOQ, six families of analyses: every pair of clashing names as tables, table and query, queries, columns, parameters and struct items, plain and embedded |
| `generators_kotlin` | Do collisions of names in Kotlin always produce an error? | expected violation, see 6 |
| `readers` | Are all rows or an error returned, and does every call return? | 14 methods, all responses of up to 2 sets with up to 2 rows, or one set more |
| `update` | Are concurrent upgrades safe, also with `install.sh`, and do they end? | 2 updaters and 1 installer; 3 inodes, so that numbers are given again (the file of the start has a fixed one, as only equality matters); versions 1.9.0, 1.10.0-rc9, 1.10.0-rc10 and 1.10.0. The safety properties are proved for any number of processes, see 4 |
| `update_downgrade` | Is a newer version ever replaced by an older one? | expected violation, see 6 |

Deadlock is not checked where the system really stops: processes and commands that
have ended do nothing more. In every run with that setting there is such a state.

Some properties need a word.

* `NullsAreTyped` compares with `QueryMeaning`, three-valued logic and outer-join
  padding over symbolic values; it is asked only of results whose operators have a
  meaning there, and not of EXCLUSION JOIN.
* `ResultTypesStable` is the check of `resultParameters` restated over the final
  types, for one SELECT from catalog tables; `ResultTypesAreFinal` drops that
  restriction and is violated.
* `VerifiedIsSafe`: for an accepted proposal and parameters of the released types, no
  row the server can return under the proposed schema has NULL where the released
  client expects a value, or lacks a column. `AdditionsVerify` is a converse: a
  proposal that only adds optional columns, tables or sets never fails a release
  without `sqlc.narg`.
* `SchemasAreForward` says which files make the schema and in which order, in terms
  of patterns, names and directives. `MCVet` also assumes, and TLC checks, which
  statements of its migrations have to be left (`MigrationsKeepTheirStatements`), so
  that a directive taken or missed wrongly shows even if both sides misread it. The
  order is that of `Precedes`, written apart from the order `Sources` sorts by, and
  `MCVet` lists its migrations in the order in which Go lists them
  (`MigrationsAreSortedWhole`).
* `InstalledComplete` is about the file at the executable's path, not about the
  version: with an installer that takes no lock the last rename wins.
* `SuccessIsExact` is stated for invocations one after the other; two overlapping
  configurations of the same directory may each succeed and leave a mixture, so
  with `overlap` the project checks `SameConfigAgrees` instead.
* `SuccessIsComplete` asks for the end of the response only where the emitted code
  waits for it; a single statement read with `:many` through `database/sql` returns
  after `rows.Err`, with the deferred `Close` unheard.
* `CollisionsAreRefused` is exact: a program that is written has names that do not
  resolve (`NamesResolve`) if and only if its analysis is one of `KnownClash`, the
  collisions that a generator does not look for. No analysis is left out of the run.
  What the documentation of Kotlin promises without exception is checked by a run of
  its own, which finds the clash; all of them are listed in section 6.
* `ReplacesOwnFile` allows for the file of an installer: it takes no lock, so its
  move can come between the check of the identity and the rename.

### Fairness

* `Update!Fairness`: every step of a process that is not killed is weakly fair.
  The command has one deadline of five minutes (update.go:139), so a download ends
  in success or failure; file operations end.
* `MCGenerate!MCSpec`: steps of an invocation that has not crashed. There are no
  waits in it: the stale check works through a listing taken once.
* `ResultReaders!FairSpec`: the progress of the call, not failures. It assumes that
  the SDK's calls and the callback return, which is the caller's business.

The other runs check safety only. Analysis, verify, vet and generators are finite
walks over their input, and a request in them ends with its own timeout.

## 4. Proofs

All proofs are for arbitrary constants under the named `ASSUME`s of the modules:
shapes of statements, configurations and responses, never their number or size.

* **CatalogProofs**: the type invariant, and with it an inductive invariant that
  every table in the catalog and the working copy are well formed (columns named
  once and owned by the table, keys and indexes resolving, serial columns in the
  key). The working copy is needed because actions are checked against it: a second
  action sees the first. Lemmas say what each edit of a slice (append, remove,
  replace, rename) keeps. `SerialColumnsStayInKey` and `ColumnsStayOwned` are two of
  the invariant's parts. Atomicity follows from the actions: only `Commit` and the
  one-step statements assign `tables`.
* **CatalogProofs**, second part: the catalog implements `Schema`. Of the copy that a
  running ALTER edits, the consistency invariant only says that it is well formed and
  has the name of the table it will replace; `EditInv` adds that it has its primary
  key, whose columns keep their base types and sequences and at most become optional
  (`Edited`). Lemmas show of every action that it fails or leaves a well-formed table
  of the same name that is `Edited` (`AlterActions`). Creating and dropping are then
  `Create` and `Drop` of `Schema`, committing is its `Alter`, renaming its `Rename`, and
  all other steps stutter. What an action does to the other columns and to the indexes
  is not part of the theorem, nor is which statements are refused, as `Schema` may
  refuse any.
* **UpdateProofs**: `LockDiscipline` is inductive with the type invariant: whoever is
  between `Mkdir` and `Remove` holds the only lock, and a directory without such an
  owner means that an updater was killed. Completeness needs `CompleteInv`: a file
  is complete before its creator can reach a rename, and the creator of the
  installed file has no step left that writes to it. `EverythingIsCleanedUp` adds
  `StagedInv`: a staged file belongs to a process that still has its cleanup before
  it. `UpdatersReplaceTheirOwnFile` is for versions numbered as `Newer` orders them.
  Its invariant says that the file at the path and what a running process executes are
  finished files of released versions (`SettledInv`), that files in use have different
  inode numbers (`DistinctInodes`), and that an updater which captured the number of
  the file it executes keeps both and is after a later version (`CapturedInv`); a
  matching number then means the same file, and after the match only an installer can
  have replaced it.
* **VetProofs**: `FindingsInv` says that the findings of earlier sets and of this one
  are the evaluations that matched, and that an evaluation that failed is on its way
  to the error. `CheckedInv` says that, unless something was found or failed, the
  sets before this one were checked completely, of this set the queries before the
  current one, and of this query the rules before the current one, with its own
  plan. That the queries of a set are a list, each block in its place, follows from
  the order of `Read` (`NamedFacts`). `VetAssumption` only says that a valid document
  has its fields and that its lists are lists.
* **VetProofs**, second part: `SchemaIsForward`, for all directories and patterns. A
  finite set listed along a total order has each element once and in that order
  (`InOrderFacts`): a numbering by predecessors is a bijection. Text, names and paths
  are totally ordered as strings are, a prefix first (`TextOrder`, `NameOrder`,
  `PathOrder`), and what comes before by that order does so in the words of the
  property (`SoonerName`, `SoonerPath`). Places are ordered, too. The first places of a list of patterns are
  finitely many, because two of them never hold one file (`FoundFacts`), and every
  file that a pattern names has one, the earliest of its places (`EarliestPlace`).
  Between two first places the earlier pattern decides, and within a pattern the
  paths of the files are in the order of the matches they came from
  (`PlacesInOrder`). What `upMigration` keeps is the text before the least directive
  (`UpMigrationFacts`). The invariant needed is only that the set being vetted is
  one of a parsed document and that its schema was read by this very set
  (`SchemasNext`). `TreeAssumption` says that the file system has finitely many
  paths, made of names, and that files are sequences of tokens.
* **VetProofs**, third part: `StartersMeanTheirMinimum`. What `init` lists for a
  language is, key by key, what `Parse` fills in for a profile that `init` accepts
  (`ListedAreDefaults`), the output directory and the runtime apart; filling in is
  therefore the same with and without the listed keys (`StarterFacts`). The document
  that the command parsed never changes (`ConfigNext`).
* **GenerateProofs**: each invocation knows what it did (`Known`): while it
  prepares, the sets and generators behind it succeeded and their files are outputs
  (`PreparingInv`); outputs are files of the configuration, each at a location of
  its own (`OutputsInv`); whoever searches, compares, writes, has left a temporary
  file or has reported something had prepared everything, away from its inputs
  (`PreparedInv`); a temporary file about to be renamed holds the text of the least
  output that remains (`WrittenInv`); nothing reported as stale is an output of the
  reporter or an input of anybody (`StaleInv`). All of that is about variables of
  one invocation, so steps of others keep it (`KnownKept`). The disk changes only by
  a rename or by the user (`DiskSteps`): hence `DiskInv`, every text on the disk is
  of a configuration all of whose parts succeed, and `InputsInv`. `AgreeInv` says
  that, while one configuration is in use, the outputs an invocation has dealt with
  are in place; it holds because two outputs never share a location and what one of
  the invocations reports as stale is an output of none. `SuccessIsExact` needs what
  a directory held when it was listed: of the invocation that started last, while
  none overlapped (`LastInv`), every generated file and every temporary file in a
  directory that it has listed is still to be looked at or has been found stale
  (`SearchInv`), and after the search only its own temporary file can be there; what
  it has written, or compared without a difference, is in place (`InPlaceInv`). The
  other invocations are at rest, so nothing but its own outputs and temporary files
  changes. The proofs rest on `FreshAssumption` and `InputsAssumption` besides the
  shape of configurations.
* **GeneratorsProofs**: a generator writes its program in one step, so the two
  theorems are about the nine operators, for every analysis, runtime and spelling of
  names, those of `KnownClash` included.
  `ParametersReachTheQuery` holds because a name stands for one parameter. For
  `RowsFillTheirModels`, to look for the embedding that covers a column and for one
  that begins there come to the same at the start of a field (`CoveredIsInOrder`),
  and values in the order of the fields fill them (`InOrderFills`). A reader by
  name finds the same values if keys differ (`ByKey`), which follows from the names
  that the language refuses to spell alike (`CSharpDiffers`, `TypeScriptKeys`,
  `CppDiffers`, `PythonDiffers`); Go also looks up its own names, in the row for a
  plain column and for an embedding, and in the embedded table for the rest
  (`GoPlainValue`, `GoEmbeddedValue`). `GeneratorsAssumption` says what a result of
  analysis is: embeddings are disjoint ranges that project the columns of their
  tables (`embedProjection`), keys differ where there are any (semantic.go:1069-1080)
  and otherwise stand for one name, because YDB rejects a result with two columns
  under one (docs/compatibility.md:95), parameters are known by their names. Without
  the last condition on keys, ``SELECT u.id, x AS `u.id` `` over a join would defeat
  the Go client of the YDB SDK; the analyzer admits the text and the server refuses it.
* **DatabaseProofs**: `ErrorsSurface` is not inductive, because a bad part of a
  response is chosen before it is received. `ErrorInv` says that a failure is either
  on record as a diagnostic or still in the stream being received (`Doomed`: a part
  that is not a success, or an end with nothing received), and that an analysis that
  succeeds has no diagnostics. `SuccessInv` is about a connected analysis without
  diagnostics: the queries before the current one have been compiled, the references
  before the current one described, the local tables checked so far equal a
  description that the server gave, and there is one result for each query analyzed.
  What the server said is kept as history (`seen`, `compiled`), because its schema
  may change between two requests; the comparison looks at sorted lists, and two
  lists sort to the same one when every element occurs equally often in both.
  `VerdictInv` adds, for a server that answers and does not change, that acceptable
  input is never diagnosed (`Spared`) and that what has passed a check is acceptable
  (`Passed`, `Complete`): the verdict is then exact in both directions.
  `DatabaseAssumption` says that lists are lists, that the tables are finitely many
  and that a local schema has tables and columns of distinct names, as
  `buildCatalog` leaves it (`TablesStayUnique` and `ReferencesAlwaysResolve` of
  `CatalogProofs`).
* **ReadersProofs**: `DeliveryStops` needs that a callback about to begin counts as
  not late while the context was live when it was checked.
  `CancellationsAreReported` follows from the last check. For completeness,
  `ReaderInv` relates position and output: all earlier sets are handed out in full,
  the current one up to the row before the pending callback; a method that is
  finishing has read the current set to the end, has reached the expected number of
  sets, and where it refuses extra sets has seen the end of a response without
  failure. All of this holds only while there is no error, which is why the
  invariant also says that an error leads to `Close` and nowhere else. The three
  theorems are read off in the returned state.
* **TypesProofs** is about the operators that inference rests on, for all types: the
  common type and the common integer do not depend on the order of their arguments,
  a widening conversion cannot fail, two uses of a parameter leave the same type in
  either order, and the type that narrowing keeps can be assigned wherever either
  use wants it. Three uses are folded by the code in the order of the text; that is
  in the model and checked by TLC only. The second half is about `Registry`:
  `RegistryInv` says that no two signatures of a name overlap. What makes it useful
  is `MatchingSignaturesOverlap`: if one call of typed arguments matches two
  signatures, take the positional arguments of the call as the prefix of
  `signaturesOverlap`; a required parameter beyond it is bound by name, and the
  other signature binds the same argument, beyond the prefix because binding is
  injective, to the same base type. So no such call is ambiguous, of any length
  (`TypedCallsMatchOnce`), and in particular none that TLC tries
  (`OverlapIsExactHolds`). Literals are left out: they fit several types, and a call
  with one may be ambiguous between accepted overloads, as may NULL.

Only model-checked:

* all liveness properties: the prover does not handle fairness and `ENABLED`;
* everything about whole queries and `verify` (`NullsAreTyped`, `ExpansionKeepsResult`,
  `AssignmentsFit`, `ResultTypesStable`, `VerifiedIsSafe`, `AdditionsVerify`): expressions,
  types and SELECTs are trees, their operators recursive and therefore out of the
  prover's reach;
* `CollisionsAreRefused` of the generators: it is about identifiers, which are strings
  folded from the pieces of a name.

`NoDowngrade`, `ResultTypesAreFinal`, `UnchangedVerifies` and
`KotlinCollisionsAreErrors` do not hold.

## 5. What is left to do

1. A proof of `CollisionsAreRefused` for one language, say Go, with what its validation
   promises as lemmas.
2. Composition: `DatabaseAnalysis` with the query analysis of `QueryAnalysis` in
   place of the columns a query uses, and `Generate` with its verdicts.
3. More runtimes for `ResultReaders`: the native Java SDK, Python, TypeScript, Rust,
   C#, PHP and C++; `:one` and `:execrows`.
4. jOOQ, overrides and `rename` of the Go generator.

## 6. Findings

`update_downgrade`: an upgrade compares the latest release with its own version
before it captures the identity of the file to replace. If another upgrade finishes
in between, the newer file is taken for the updater's own and is replaced by the
older release. docs/installation.md:101 promises that the command does not
downgrade.

`queries_stale`: when a SELECT uses a parameter only through a named SELECT, and a
later statement narrows the parameter, the result keeps the type of the first guess
and no diagnostic asks for DECLARE. docs/compatibility.md:87 speaks of every
parameter used by the SELECT. The result type is wider than needed, never too
narrow: `NullsAreTyped` holds in all runs.

`verify_narg`: a released query with `sqlc.narg` on a required column fails `verify`
against its own unchanged schema, because the executable text no longer says that
the argument is nullable. docs/schema-verification.md:9 lists only changes as
reasons to fail.

`generators_kotlin`: a query parameter `java` is accepted for Kotlin over JDBC and
Exposed, where it hides the package in the `java.sql` names of the method body.
docs/kotlin.md:35 promises an error for every collision of generated names.

All clashes that generators do not refuse, met while modelling `Generators`; the first
group is `KnownClash`:

* C++: an embedded table `queries`, although docs/cpp.md:70 says that names which
  collide with the class `Queries` are rejected, or one whose base name is
  capitalised; Rust: an embedded `queries` or `string`, and columns of an embedded
  table that become one name in snake case; TypeScript: a query `get` with an embed
  beside `get_wire`; Python: a partial or embedding query `get` beside a table
  `get_row`; Go: a query `db`; Java and Kotlin: a parameter `java` where the method
  uses `java.` names.
* Outside the words of the instance: Kotlin, a table `query_transaction`;
  TypeScript, a single parameter `mapped`, embedded `query` or `date`; C# with
  Dapper, tables `ydb_parameters` and `column_type_map`; PHP, an embedded `closure`;
  Python, a table `UUID`.

Each is a compile-time error or a shadowed name in the program that is generated.

## 7. Not modelled

* **YQL parsing**: the grammar is generated by ANTLR. The models start from trees.
* **Text**: rendering, comments, imports that no name depends on, the layout of
  files; type mapping to the languages; YAML and JSON decoding; CEL; archive formats,
  TLS and HTTP. Each is an input or a choice of the action that uses it.
* **Queries**: EXCLUSION JOIN keeps its sides required in the code and in the model,
  and has no meaning in `QueryMeaning`. Dots of API names in UNION, insertion of
  `PRAGMA OrderedColumns` and positions in rewritten text are left out. A literal
  pattern is one line without groups. Library functions whose signature is a row of
  a table stand in `Libraries` by families.
* **Verify**: reading the released files, connected analysis and the `prepare` of the
  proposed configuration, which are in `Vet`, `DatabaseAnalysis` and `Generate`.
* **Generators**: JSON and database tags, overrides, `rename`, `emit_interface`, the
  names of `:each` and `:multi`, and jOOQ.
* **Sources**: "..", and in a pattern "?", "[]" and a second star in one name.
* **Completion, version notices, writing of the starter file**: they print or write
  one text and keep no state.
* **Examples and integration tests**: consumers of the program.
