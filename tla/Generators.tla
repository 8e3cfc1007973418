----------------------------- MODULE Generators -----------------------------
(***************************************************************************)
(* The generators of generate: an entry of a configuration's "gen" asks one *)
(* language and runtime for a program, which is refused or written.        *)
(***************************************************************************)
EXTENDS GoGenerator, JavaGenerator, KotlinGenerator, PhpGenerator, CSharpGenerator,
        TypeScriptGenerator, RustGenerator, CppGenerator, PythonGenerator

CONSTANTS
    Analyses,   \* the results of analysis
    Runtimes    \* language -> the runtimes a configuration can ask for

\* Embeddings lie in the result, apart from each other, and project the
\* columns of their tables (embedProjection).  Where there are any, every
\* column has a key of its own (selectProjectionMode); otherwise a key stands
\* for one name, as YDB has no result with two columns under one.  A parameter
\* is known by its name, and those in the text are the query's.
IsResult(a, q) ==
  /\ q.columns \in Seq(ToSet(q.columns))
  /\ \A e \in ToSet(q.embeds) :
       /\ e.from \in DOMAIN q.columns /\ e.to \in DOMAIN q.columns /\ e.from <= e.to
       /\ e.table \in DOMAIN a.tables
       /\ a.tables[e.table].columns \in Seq(ToSet(a.tables[e.table].columns))
  /\ EmbedsMatch(a, q)
  /\ \A i \in DOMAIN q.columns : \A e, f \in Covering(q, i) : e = f
  /\ \A i, j \in DOMAIN q.columns : ResultName(q.columns[i]) = ResultName(q.columns[j]) /\ i # j =>
       q.embeds = <<>> /\ q.columns[i].name = q.columns[j].name
  /\ \A p, r \in DOMAIN q.parameters : Raw(q.parameters[p].name) = Raw(q.parameters[r].name) => p = r
  /\ \A k \in DOMAIN Occurrences(q) : Occurrences(q)[k] \in DOMAIN q.parameters

ASSUME GeneratorsAssumption == \A a \in Analyses : \A q \in ToSet(a.queries) : IsResult(a, q)

VARIABLES
    analysis,   \* what is generated from
    target,     \* the language and runtime of the generator that ran
    program     \* what it wrote

vars == <<analysis, target, program>>

Unasked == <<"none", "none">>

Init ==
  /\ analysis \in Analyses
  /\ target = Unasked
  /\ program = Refused

\* One entry of "gen", in prepare; no generator sees what another wrote.
Generate(language, Generator(_, _)) ==
  /\ target = Unasked
  /\ \E runtime \in Runtimes[language] :
       /\ target' = <<language, runtime>>
       /\ program' = Generator(analysis, runtime)
  /\ UNCHANGED analysis

GenerateGo == Generate("go", Go)
GenerateJava == Generate("java", Java)
GenerateKotlin == Generate("kotlin", Kotlin)
GeneratePhp == Generate("php", LAMBDA a, runtime: Php(a))
GenerateCSharp == Generate("csharp", CSharp)
GenerateTypeScript == Generate("typescript", LAMBDA a, runtime: TypeScript(a))
GenerateRust == Generate("rust", LAMBDA a, runtime: Rust(a))
GenerateCpp == Generate("cpp", Cpp)
GeneratePython == Generate("python", Python)

Next ==
  \/ GenerateGo \/ GenerateJava \/ GenerateKotlin \/ GeneratePhp \/ GenerateCSharp
  \/ GenerateTypeScript \/ GenerateRust \/ GenerateCpp \/ GeneratePython

Spec == Init /\ [][Next]_vars

-----------------------------------------------------------------------------
(***************************************************************************)
(* Properties.                                                             *)
(***************************************************************************)

\* A program that is written declares a name at most once in each scope, and
\* wherever it uses a name, the scopes around that place lead to what the
\* generator meant, not to a declaration that hides it.
NamesResolve == DeclaredOnce(program) /\ Resolves(program)

\* What the validation of a language does not look at, although its program uses
\* the name otherwise: the result of New in Go, the package java in Java and
\* Kotlin, models of embedded tables in C++ and Rust, the row types of embeddings
\* in TypeScript, and models of tables that equal a row in Python.
Bare(w) == <<[sep |-> "", word |-> w, case |-> "lower"]>>

Embeds(a) == UNION {ToSet(a.queries[q].embeds) : q \in DOMAIN a.queries}

KnownClash(language, runtime, a) ==
  \/ language = "go" /\ \E q \in ToSet(a.queries) : q.name = Bare("db")
  \/ /\ language \in {"java", "kotlin"}
     /\ \E q \in ToSet(a.queries) :
          /\ \E p \in ToSet(q.parameters) : p.name = Bare("java")
          /\ "java" \in IF language = "java" THEN JavaRoots(q, runtime) ELSE KotlinRoots(q, runtime)
  \/ /\ language = "cpp"
     /\ \E e \in Embeds(a) : e.field = Bare("queries") \/ e.field[1].case # "lower"
  \/ /\ language = "rust"
     /\ \E e \in Embeds(a) :
          \/ e.field \in {Bare("queries"), Bare("string")}
          \/ LET columns == a.tables[e.table].columns
             IN  \E i, j \in DOMAIN columns :
                   i < j /\ RustSnake(columns[i].name) = RustSnake(columns[j].name)
  \/ /\ language = "typescript"
     /\ \E q, r \in Rows(a) :
          /\ a.queries[q].embeds # <<>>
          /\ TsExported(a.queries[q].name) \o "Wire" = TsExported(a.queries[r].name)
  \/ /\ language = "python"
     /\ \E q \in Rows(a) : \E t \in DOMAIN a.tables :
          PyRowTable(a, q) = 0 /\ PyRow(a, q) = PyClass(a.tables[t].name)

\* The validation of each generator (Generate and its helpers) refuses every
\* collision of names but the known ones, and each of those reaches the program.
CollisionsAreRefused ==
  program # Refused => (NamesResolve <=> ~KnownClash(target[1], target[2], analysis))

\* "Unsupported identifiers and generated-name collisions produce errors instead
\* of invalid Kotlin source" (docs/kotlin.md:35; the names that generator.go
\* refuses of a parameter).
KotlinCollisionsAreErrors == target[1] = "kotlin" => NamesResolve

\* Every field of a row, and of a table that is embedded in it, is built of
\* the result column it was declared for, whether columns are read by their
\* positions or by their names.
RowsFillTheirModels == Fills(program)

\* Wherever a query's text mentions a parameter, the value sent is that of
\* this parameter, whether the driver matches positions or names.
ParametersReachTheQuery == Sends(analysis, program)

=============================================================================
