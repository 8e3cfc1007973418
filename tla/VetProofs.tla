------------------------------ MODULE VetProofs ------------------------------
(***************************************************************************)
(* Proofs about module Vet for every configuration, file tree and outcome.  *)
(***************************************************************************)
EXTENDS Vet, TLAPS, FiniteSetTheorems, SequenceTheorems, WellFoundedInduction

\* A set of findings holds the evaluations that matched.
AreFound(findings) ==
    /\ findings \subseteq evaluated
    /\ \A e \in evaluated : e.value \in {"match", "clean", "error"}
    /\ \A e \in evaluated : e \in findings <=> e.value = "match"

Failing == pc = "closing on error" \/ (pc = "ended" /\ reported.error = TRUE)

\* The findings are those of the sets before and of this one, which is empty
\* between two sets, and an evaluation that failed leads to the error.
FindingsInv ==
    /\ pc # "ended" => AreFound(failures \cup setFailures)
    /\ pc \in {"loading", "compiling"} => evaluated = {} /\ failures = {}
    /\ pc \in {"loading", "compiling", "checking", "reading", "connecting"} => setFailures = {}
    /\ Failing \/ \A e \in evaluated : e.value # "error"
    /\ pc = "ended" => AreFound(reported.findings)

Between == {"checking", "reading", "connecting"}
Inside == {"explaining", "evaluating", "closing"}

\* A step that ends the command with an error returns what was found.
LEMMA EndsWithError ==
    ASSUME NEW found, AreFound(found), Fail(found), evaluated' = evaluated
    PROVE  FindingsInv'
<1>1. reported' = [findings |-> found, error |-> TRUE] /\ pc' = "ended"
  BY DEF Fail, GoTo
<1>2. AreFound(reported.findings)'
  BY <1>1 DEF AreFound
<1> QED BY <1>1, <1>2 DEF FindingsInv, Failing

\* A step that neither finds nor fails.
LEMMA GoesOn ==
    ASSUME FindingsInv, UNCHANGED <<evaluated, failures, setFailures, reported>>,
           \/ pc = "loading" /\ pc' = "compiling"
           \/ pc \in {"compiling"} \cup Between /\ pc' \in Between
           \/ pc \in {"connecting"} \cup Inside /\ pc' \in Inside
           \/ pc \in Inside /\ pc' = "closing on error"
    PROVE  FindingsInv'
BY DEF FindingsInv, Failing, AreFound, Between, Inside

\* Every step keeps the findings.
LEMMA FindingsNext == FindingsInv /\ [Next]_vars => FindingsInv'
<1> SUFFICES ASSUME FindingsInv, [Next]_vars PROVE FindingsInv'
  OBVIOUS
<1>0. pc \in {"loading", "compiling"} => AreFound({})
  BY DEF FindingsInv, AreFound
<1>1. CASE Load
  <2>1. CASE Fail({}) /\ evaluated' = evaluated
    BY <1>0, <1>1, <2>1, EndsWithError DEF Load
  <2>2. CASE pc' = "compiling" /\ reported' = reported
    BY <1>1, <2>2, GoesOn DEF Load
  <2> QED BY <1>1, <2>1, <2>2 DEF Load, GoTo
<1>2. CASE CompileRules
  <2>1. CASE Fail({}) /\ evaluated' = evaluated
    BY <1>0, <1>2, <2>1, EndsWithError DEF CompileRules
  <2>2. CASE pc' = "checking" /\ reported' = reported
    BY <1>2, <2>2, GoesOn DEF CompileRules, Between
  <2> QED BY <1>2, <2>1, <2>2 DEF CompileRules, GoTo
<1>3. pc \in Between => AreFound(failures)
  BY DEF FindingsInv, AreFound, Between
<1>4. CASE CheckSet
  <2>1. CASE Fail(failures) /\ evaluated' = evaluated
    BY <1>3, <1>4, <2>1, EndsWithError DEF CheckSet, Between
  <2>2. CASE pc' = "reading" /\ reported' = reported
    BY <1>4, <2>2, GoesOn DEF CheckSet, Between
  <2> QED BY <1>4, <2>1, <2>2 DEF CheckSet, GoTo
<1>5. CASE Analyze
  <2>1. CASE Fail(failures) /\ evaluated' = evaluated
    BY <1>3, <1>5, <2>1, EndsWithError DEF Analyze, Between
  <2>2. CASE pc' = "connecting" /\ reported' = reported
    BY <1>5, <2>2, GoesOn DEF Analyze, Between
  <2> QED BY <1>5, <2>1, <2>2 DEF Analyze, GoTo
<1>6. CASE Connect
  <2>1. CASE Fail(failures) /\ evaluated' = evaluated
    BY <1>3, <1>6, <2>1, EndsWithError DEF Connect, Between
  <2>2. CASE pc' = "explaining" /\ reported' = reported
    <3>1. setFailures = {}
      BY <1>6 DEF Connect, FindingsInv
    <3> QED BY <1>6, <2>2, <3>1, GoesOn DEF Connect, Inside
  <2> QED BY <1>6, <2>1, <2>2 DEF Connect, GoTo
<1>7. CASE Explain
  BY <1>7, GoesOn DEF Explain, EndQueries, GoTo, Inside
<1>8. CASE Evaluate
  <2>1. CASE rule > Len(Set.rules) \/ Selected = DbPrepare
    BY <1>8, <2>1, GoesOn DEF Evaluate, NextQuery, SkipPrepare, NextRule, GoTo, Inside
  <2>2. CASE ~(rule > Len(Set.rules)) /\ Selected # DbPrepare
    <3>1. PICK value \in {"match", "clean", "error"} :
            /\ evaluated' = evaluated \cup {Evaluation(value)}
            /\ \/ /\ value = "match" /\ pc' = "evaluating"
                  /\ setFailures' = setFailures \cup {Evaluation(value)}
               \/ value = "clean" /\ pc' = "evaluating" /\ setFailures' = setFailures
               \/ value = "error" /\ pc' = "closing on error" /\ setFailures' = setFailures
      BY <1>8, <2>2 DEF Evaluate, NextRule, EndQueries, FoundBeforeError, GoTo
    <3>2. Evaluation(value).value = value
      BY DEF Evaluation
    <3>3. /\ pc = "evaluating" /\ UNCHANGED <<failures, reported>>
      BY <1>8 DEF Evaluate
    <3>4. AreFound(failures \cup setFailures) /\ \A e \in evaluated : e.value # "error"
      BY <3>3 DEF FindingsInv, Failing
    <3>5. AreFound(failures \cup setFailures)'
      BY <3>1, <3>2, <3>3, <3>4 DEF AreFound
    <3>6. Failing' \/ \A e \in evaluated' : e.value # "error"
      BY <3>1, <3>2, <3>4 DEF Failing
    <3> QED BY <3>1, <3>5, <3>6 DEF FindingsInv
  <2> QED BY <2>1, <2>2
<1>9. CASE CloseSet
  <2>1. AreFound(failures \cup setFailures)
    BY <1>9 DEF CloseSet, FindingsInv
  <2>2. CASE Fail(failures \cup setFailures)
    BY <1>9, <2>1, <2>2, EndsWithError DEF CloseSet
  <2>3. CASE pc = "closing" /\ pc' = "checking" /\ reported' = reported
    <3>1. /\ failures' = failures \cup setFailures /\ setFailures' = {}
          /\ evaluated' = evaluated
      BY <1>9 DEF CloseSet
    <3> QED BY <2>1, <2>3, <3>1 DEF FindingsInv, Failing, AreFound
  <2>4. CASE /\ pc = "closing" /\ pc' = "ended"
             /\ reported' = [findings |-> failures \cup setFailures, error |-> FALSE]
    <3>1. evaluated' = evaluated /\ reported'.findings = failures \cup setFailures
      BY <1>9, <2>4 DEF CloseSet
    <3>2. \A e \in evaluated : e.value # "error"
      BY <2>4 DEF FindingsInv, Failing
    <3>3. AreFound(reported.findings)'
      BY <2>1, <3>1 DEF AreFound
    <3> QED BY <2>4, <3>1, <3>2, <3>3 DEF FindingsInv
  <2> QED BY <1>9, <2>2, <2>3, <2>4 DEF CloseSet, GoTo
<1>10. CASE UNCHANGED vars
  BY <1>10 DEF vars, FindingsInv, AreFound, Failing
<1> QED BY <1>1, <1>2, <1>4, <1>5, <1>6, <1>7, <1>8, <1>9, <1>10 DEF Next

\* For every configuration and every outcome, all rules that matched are
\* reported, and a rule that could not be evaluated fails the command.
THEOREM NoFindingIsLost == Spec => []FindingsSurvive
<1>1. Init => FindingsInv
  BY DEF Init, FindingsInv, AreFound, Failing
<1>2. FindingsInv => FindingsSurvive
  BY DEF FindingsInv, FindingsSurvive, AreFound, Failing
<1> QED BY <1>1, <1>2, FindingsNext, PTL DEF Spec

-----------------------------------------------------------------------------
(***************************************************************************)
(* Sets in order.                                                           *)
(***************************************************************************)

\* A set of numbers that is not empty has a least one.
LEMMA LeastNumber ==
    ASSUME NEW T \in SUBSET Nat, T # {}
    PROVE  \E i \in T : \A j \in T : i <= j
<1> DEFINE Less == {ss \in Nat \X Nat : ss[1] < ss[2]}
<1>1. IsWellFoundedOn(Less, Nat)
  <2>1. Less = OpToRel(<, Nat)
    BY Zenon DEF OpToRel
  <2> QED BY <2>1, NatLessThanWellFounded
<1>2. \A i, j \in Nat : j < i => <<j, i>> \in Less
  OBVIOUS
<1> HIDE DEF Less
<1>3. PICK i \in T : \A j \in T : ~ (<<j, i>> \in Less)
  BY <1>1, WFMin
<1>4. ASSUME NEW j \in T PROVE i <= j
  <2>1. i \in Nat /\ j \in Nat /\ ~(j < i)
    BY <1>2, <1>3
  <2> QED BY <2>1
<1> QED BY <1>4

\* An order that compares any two elements of S one way, and none with itself.
IsTotal(order, S) ==
    /\ \A x \in S : <<x, x>> \notin order
    /\ \A x, y, z \in S : <<x, y>> \in order /\ <<y, z>> \in order => <<x, z>> \in order
    /\ \A x, y \in S : x # y => <<x, y>> \in order \/ <<y, x>> \in order

Below(S, order, x) == {y \in S : <<y, x>> \in order}

\* InOrder lists every element of a finite set once, in a total order.
LEMMA InOrderFacts ==
    ASSUME NEW S, IsFiniteSet(S), NEW order, IsTotal(order, S)
    PROVE  /\ Cardinality(S) \in Nat /\ DOMAIN InOrder(S, order) = 1..Cardinality(S)
           /\ \A n \in DOMAIN InOrder(S, order) : InOrder(S, order)[n] \in S
           /\ \A x \in S : \E n \in DOMAIN InOrder(S, order) : InOrder(S, order)[n] = x
           /\ \A m, n \in DOMAIN InOrder(S, order) :
                  m < n => <<InOrder(S, order)[m], InOrder(S, order)[n]>> \in order
<1> DEFINE c == Cardinality(S)
           rank == [x \in S |-> Cardinality(Below(S, order, x))]
           list == InOrder(S, order)
<1>1. c \in Nat /\ DOMAIN list = 1..c
  BY FS_CardinalityType DEF InOrder
<1>2. ASSUME NEW x \in S
      PROVE  /\ rank[x] \in 0..c - 1
             /\ IsFiniteSet(Below(S, order, x))
  <2>1. Below(S, order, x) \in SUBSET (S \ {x})
    BY DEF Below, IsTotal
  <2>2. IsFiniteSet(S \ {x}) /\ Cardinality(S \ {x}) = c - 1
    BY FS_RemoveElement
  <2>3. IsFiniteSet(Below(S, order, x)) /\ Cardinality(Below(S, order, x)) <= c - 1
    BY <2>1, <2>2, FS_Subset
  <2>4. Cardinality(Below(S, order, x)) \in Nat
    BY <2>3, FS_CardinalityType
  <2> QED BY <1>1, <2>3, <2>4
<1>3. ASSUME NEW x \in S, NEW y \in S, <<x, y>> \in order
      PROVE  rank[x] < rank[y]
  <2>1. Below(S, order, x) \in SUBSET Below(S, order, y)
    BY <1>3 DEF Below, IsTotal
  <2>2. x \in Below(S, order, y) /\ x \notin Below(S, order, x)
    BY <1>3 DEF Below, IsTotal
  <2>3. rank[x] <= rank[y] /\ rank[x] # rank[y]
    BY <1>2, <2>1, <2>2, FS_Subset
  <2>4. rank[x] \in Nat /\ rank[y] \in Nat
    BY <1>2
  <2> HIDE DEF rank
  <2> QED BY <2>3, <2>4
<1> HIDE DEF rank
<1>4. \A x, y \in S : rank[x] = rank[y] => x = y
  <2> SUFFICES ASSUME NEW x \in S, NEW y \in S, rank[x] = rank[y], x # y PROVE FALSE
    OBVIOUS
  <2>1. rank[x] < rank[y] \/ rank[y] < rank[x]
    BY <1>3 DEF IsTotal
  <2>2. rank[x] \in 0..c - 1 /\ rank[y] \in 0..c - 1
    BY <1>2
  <2> QED BY <1>1, <2>1, <2>2
<1>5. rank \in Injection(S, 0..c - 1)
  BY <1>2, <1>4 DEF rank, Injection, IsInjective
<1>6. IsFiniteSet(0..c - 1) /\ Cardinality(0..c - 1) = c
  <2> HIDE DEF c
  <2>1. 0 \in Int /\ c - 1 \in Int
    BY <1>1
  <2>2. /\ IsFiniteSet(0..c - 1)
        /\ Cardinality(0..c - 1) = IF 0 > c - 1 THEN 0 ELSE (c - 1) - 0 + 1
    BY <2>1, FS_Interval, Zenon
  <2> QED BY <1>1, <2>2
<1>7. rank \in Surjection(S, 0..c - 1)
  BY <1>5, <1>6, FS_Injection
<1>8. ASSUME NEW n \in 1..c
      PROVE  list[n] \in S /\ rank[list[n]] = n - 1
  <2>1. n - 1 \in 0..c - 1
    BY <1>1
  <2>2. \E x \in S : rank[x] = n - 1
    BY <1>7, <2>1 DEF Surjection
  <2>3. \E x \in S : Cardinality({y \in S : <<y, x>> \in order}) = n - 1
    BY <2>2 DEF rank, Below
  <2>4. list[n] = CHOOSE x \in S : Cardinality({y \in S : <<y, x>> \in order}) = n - 1
    BY <1>1 DEF InOrder
  <2> HIDE DEF list
  <2>5. list[n] \in S /\ Cardinality({y \in S : <<y, list[n]>> \in order}) = n - 1
    BY <2>3, <2>4
  <2> QED BY <2>5 DEF rank, Below
<1>9. ASSUME NEW x \in S PROVE \E n \in 1..c : list[n] = x
  <2>1. rank[x] + 1 \in 1..c /\ rank[x] \in Nat
    BY <1>1, <1>2
  <2>2. list[rank[x] + 1] \in S /\ rank[list[rank[x] + 1]] = rank[x]
    <3> HIDE DEF list
    <3>1. rank[list[rank[x] + 1]] = (rank[x] + 1) - 1 /\ list[rank[x] + 1] \in S
      BY <1>8, <2>1
    <3> QED BY <2>1, <3>1
  <2> HIDE DEF list
  <2>3. list[rank[x] + 1] = x
    BY <1>4, <2>2
  <2> QED BY <2>1, <2>3
<1>10. ASSUME NEW m \in 1..c, NEW n \in 1..c, m < n
       PROVE  <<list[m], list[n]>> \in order
  <2> HIDE DEF list
  <2>1. /\ list[m] \in S /\ rank[list[m]] = m - 1
        /\ list[n] \in S /\ rank[list[n]] = n - 1
    BY <1>8
  <2>2. list[m] # list[n]
    BY <1>1, <1>10, <2>1
  <2>3. ~(rank[list[n]] < rank[list[m]])
    BY <1>1, <1>10, <2>1
  <2>4. <<list[n], list[m]>> \notin order
    BY <1>3, <2>1, <2>3
  <2> QED BY <2>1, <2>2, <2>4 DEF IsTotal
<1> QED BY <1>1, <1>8, <1>9, <1>10

\* The first place at which s differs from t has it before t.
Differs(s, t, i) ==
    /\ i \in 1..Len(t) /\ i <= Len(s) + 1
    /\ \A j \in 1..i - 1 : s[j] = t[j]
    /\ i <= Len(s) => s[i] < t[i]

ComesBefore(s, t) == \E i \in Nat : Differs(s, t, i)

\* Texts are ordered like strings.
LEMMA TextOrder ==
    ASSUME NEW s \in Seq(Nat), NEW t \in Seq(Nat), NEW u \in Seq(Nat)
    PROVE  /\ ~ComesBefore(s, s)
           /\ ComesBefore(s, t) /\ ComesBefore(t, u) => ComesBefore(s, u)
           /\ s # t => ComesBefore(s, t) \/ ComesBefore(t, s)
<1>1. /\ Len(s) \in Nat /\ \A i \in 1..Len(s) : s[i] \in Nat
      /\ Len(t) \in Nat /\ \A i \in 1..Len(t) : t[i] \in Nat
      /\ Len(u) \in Nat /\ \A i \in 1..Len(u) : u[i] \in Nat
  OBVIOUS
<1>2. ~ComesBefore(s, s)
  BY <1>1 DEF ComesBefore, Differs
<1>3. ASSUME ComesBefore(s, t), ComesBefore(t, u) PROVE ComesBefore(s, u)
  <2>1. PICK i \in Nat : Differs(s, t, i)
    BY <1>3 DEF ComesBefore
  <2>2. PICK k \in Nat : Differs(t, u, k)
    BY <1>3 DEF ComesBefore
  <2>3. CASE i < k
    <3>1. Differs(s, u, i)
      BY <1>1, <2>1, <2>2, <2>3 DEF Differs
    <3> QED BY <3>1 DEF ComesBefore
  <2>4. CASE k < i
    <3>0. i \in 1..Len(t) /\ i <= Len(s) + 1 /\ k \in 1..Len(u)
      BY <2>1, <2>2 DEF Differs
    <3>1. k <= Len(s) /\ k <= Len(t) /\ k \in 1..i - 1
      BY <1>1, <2>4, <3>0
    <3>4. s[k] = t[k] /\ t[k] < u[k]
      BY <2>1, <2>2, <3>1 DEF Differs
    <3>2. \A j \in 1..k - 1 : s[j] = u[j]
      BY <1>1, <2>1, <2>2, <2>4 DEF Differs
    <3>3. Differs(s, u, k)
      BY <1>1, <3>0, <3>1, <3>2, <3>4 DEF Differs
    <3> QED BY <3>3 DEF ComesBefore
  <2>5. CASE i = k
    <3>1. Differs(s, u, i)
      BY <1>1, <2>1, <2>2, <2>5 DEF Differs
    <3> QED BY <3>1 DEF ComesBefore
  <2> QED BY <2>3, <2>4, <2>5
<1>4. ASSUME s # t PROVE ComesBefore(s, t) \/ ComesBefore(t, s)
  <2> DEFINE T == {i \in Nat \ {0} : i > Len(s) \/ i > Len(t) \/ s[i] # t[i]}
  <2>1. Len(s) + 1 \in T
    BY <1>1
  <2>2. T \in SUBSET Nat /\ T # {}
    BY <2>1
  <2>3. PICK i \in T : \A j \in T : i <= j
    <3> HIDE DEF T
    <3> QED BY <2>2, LeastNumber
  <2>4. \A j \in 1..i - 1 : j <= Len(s) /\ j <= Len(t) /\ s[j] = t[j]
    BY <1>1, <2>3
  <2>5. i <= Len(s) + 1 /\ i <= Len(t) + 1
    BY <1>1, <2>3, <2>4
  <2>6. CASE i > Len(s) /\ i > Len(t)
    <3>1. Len(s) = Len(t) /\ \A j \in 1..Len(s) : s[j] = t[j]
      BY <1>1, <2>3, <2>4, <2>5, <2>6
    <3> QED BY <1>4, <3>1, SeqEqual
  <2>7. CASE i <= Len(t) /\ (i <= Len(s) => s[i] < t[i])
    BY <1>1, <2>3, <2>4, <2>5, <2>7 DEF ComesBefore, Differs
  <2>8. CASE i <= Len(s) /\ (i <= Len(t) => t[i] < s[i])
    BY <1>1, <2>3, <2>4, <2>5, <2>8 DEF ComesBefore, Differs
  <2> QED BY <1>1, <2>3, <2>6, <2>7, <2>8
<1> QED BY <1>2, <1>3, <1>4

LEMMA PrefixFacts ==
    ASSUME NEW S, NEW s \in Seq(S), NEW t \in Seq(S)
    PROVE  IsPrefix(s, t) <=> Len(s) <= Len(t) /\ \A j \in 1..Len(s) : s[j] = t[j]
BY DEF IsPrefix

\* What SubSeq says of the places before the i-th, of two texts that reach it.
LEMMA SameStart ==
    ASSUME NEW S, NEW s \in Seq(S), NEW t \in Seq(S), NEW n \in Nat,
           n <= Len(s), n <= Len(t)
    PROVE  SubSeq(s, 1, n) = SubSeq(t, 1, n) <=> \A j \in 1..n : s[j] = t[j]
<1>1. Len(s) \in Nat /\ Len(t) \in Nat
  OBVIOUS
<1>2. /\ SubSeq(s, 1, n) \in Seq(S) /\ Len(SubSeq(s, 1, n)) = n
      /\ SubSeq(t, 1, n) \in Seq(S) /\ Len(SubSeq(t, 1, n)) = n
      /\ \A j \in 1..n : SubSeq(s, 1, n)[j] = s[j] /\ SubSeq(t, 1, n)[j] = t[j]
  BY <1>1
<1>3. ASSUME SubSeq(s, 1, n) = SubSeq(t, 1, n), NEW j \in 1..n PROVE s[j] = t[j]
  BY <1>2, <1>3, Zenon
<1>4. ASSUME \A j \in 1..n : s[j] = t[j] PROVE SubSeq(s, 1, n) = SubSeq(t, 1, n)
  BY <1>2, <1>4, SeqEqual
<1> QED BY <1>3, <1>4

\* Names are ordered by the first place at which they differ.
LEMMA NameBeforeByPlace ==
    ASSUME NEW s \in FileNames, NEW t \in FileNames
    PROVE  NameBefore(s, t) <=> ComesBefore(s, t)
<1>1. s \in Seq(Nat) /\ t \in Seq(Nat)
  BY DEF FileNames
<1>2. /\ DOMAIN s = 1..Len(s) /\ Len(s) \in Nat /\ DOMAIN t = 1..Len(t) /\ Len(t) \in Nat
      /\ \A i \in 1..Len(s) : s[i] \in Nat
      /\ \A i \in 1..Len(t) : t[i] \in Nat
  BY <1>1
<1>3. NameBefore(s, t) <=>
          \/ IsPrefix(s, t) /\ s # t
          \/ \E i \in DOMAIN s \cap DOMAIN t :
                 SubSeq(s, 1, i - 1) = SubSeq(t, 1, i - 1) /\ s[i] < t[i]
  BY DEF NameBefore, TextBefore, IsStrictPrefix
<1>4. ASSUME NEW i \in DOMAIN s \cap DOMAIN t
      PROVE  SubSeq(s, 1, i - 1) = SubSeq(t, 1, i - 1) <=> \A j \in 1..i - 1 : s[j] = t[j]
  <2>1. i - 1 \in Nat /\ i - 1 <= Len(s) /\ i - 1 <= Len(t)
    BY <1>2
  <2> QED BY <1>1, <2>1, SameStart
<1>5. ASSUME NEW i \in DOMAIN s \cap DOMAIN t,
             SubSeq(s, 1, i - 1) = SubSeq(t, 1, i - 1), s[i] < t[i]
      PROVE  ComesBefore(s, t)
  <2>1. i \in Nat /\ i \in 1..Len(t) /\ i <= Len(s) + 1
    BY <1>2
  <2>2. Differs(s, t, i)
    BY <1>4, <1>5, <2>1 DEF Differs
  <2> QED BY <2>1, <2>2 DEF ComesBefore
<1>6. ASSUME IsPrefix(s, t), s # t PROVE ComesBefore(s, t)
  <2>1. Len(s) <= Len(t) /\ \A j \in 1..Len(s) : s[j] = t[j]
    BY <1>1, <1>6, PrefixFacts
  <2>2. Len(s) # Len(t)
    BY <1>1, <1>6, <2>1
  <2>3. Len(s) \in Nat /\ Len(t) \in Nat /\ Len(s) < Len(t)
    <3>1. Len(s) \in Nat /\ Len(t) \in Nat
      BY <1>2
    <3>2. Len(s) <= Len(t)
      BY <2>1
    <3> QED BY <2>2, <3>1, <3>2
  <2>4. PICK i \in Nat : i - 1 = Len(s)
    <3>1. Len(s) + 1 \in Nat /\ (Len(s) + 1) - 1 = Len(s)
      BY <1>2
    <3> QED BY <3>1
  <2>5. i \in 1..Len(t) /\ i <= Len(s) + 1 /\ ~(i <= Len(s))
    BY <1>2, <2>3, <2>4
  <2>6. \A j \in 1..i - 1 : s[j] = t[j]
    BY <2>1, <2>4
  <2>7. Differs(s, t, i)
    BY <2>5, <2>6 DEF Differs
  <2> QED BY <2>7 DEF ComesBefore
<1>7. ASSUME ComesBefore(s, t) PROVE NameBefore(s, t)
  <2>1. PICK i \in Nat : Differs(s, t, i)
    BY <1>7 DEF ComesBefore
  <2>2. CASE i <= Len(s)
    <3>1. i \in DOMAIN s \cap DOMAIN t /\ s[i] < t[i] /\ \A j \in 1..i - 1 : s[j] = t[j]
      BY <1>2, <2>1, <2>2 DEF Differs
    <3> QED BY <1>3, <1>4, <3>1
  <2>3. CASE i > Len(s)
    <3>1. i - 1 = Len(s) /\ Len(s) < Len(t)
      BY <1>2, <2>1, <2>3 DEF Differs
    <3>2. Len(s) <= Len(t) /\ \A j \in 1..Len(s) : s[j] = t[j]
      BY <1>2, <2>1, <3>1 DEF Differs
    <3>3. IsPrefix(s, t)
      BY <1>1, <3>2, PrefixFacts
    <3> QED BY <1>2, <1>3, <3>1, <3>3
  <2> QED BY <1>2, <2>1, <2>2, <2>3
<1> QED BY <1>3, <1>5, <1>6, <1>7

\* Names are totally ordered.
LEMMA NameOrder ==
    ASSUME NEW a \in FileNames, NEW b \in FileNames, NEW c \in FileNames
    PROVE  /\ ~NameBefore(a, a)
           /\ NameBefore(a, b) /\ NameBefore(b, c) => NameBefore(a, c)
           /\ a # b => NameBefore(a, b) \/ NameBefore(b, a)
<1>1. a \in Seq(Nat) /\ b \in Seq(Nat) /\ c \in Seq(Nat)
  BY DEF FileNames
<1> QED BY <1>1, TextOrder, NameBeforeByPlace

\* A name that comes before another does so as the property words it, and a path.
LEMMA SoonerName ==
    ASSUME NEW s \in FileNames, NEW t \in FileNames, NameBefore(s, t)
    PROVE  Sooner(s, t)
<1>1. s \in Seq(Nat) /\ t \in Seq(Nat) /\ Len(s) \in Nat /\ Len(t) \in Nat
  BY DEF FileNames
<1>2. PICK i \in Nat : Differs(s, t, i)
  BY NameBeforeByPlace DEF ComesBefore
<1>3. PICK n \in 0..Len(s) : n = i - 1 /\ n + 1 = i /\ n < Len(t)
  BY <1>1, <1>2 DEF Differs
<1>4. \A j \in 1..n : s[j] = t[j]
  BY <1>2, <1>3 DEF Differs
<1>5. n \in Nat /\ n <= Len(s) /\ n <= Len(t)
  BY <1>1, <1>3
<1>6. SubSeq(s, 1, n) = SubSeq(t, 1, n)
  BY <1>1, <1>4, <1>5, SameStart
<1>7. n = Len(s) \/ s[n + 1] < t[n + 1]
  BY <1>1, <1>2, <1>3 DEF Differs
<1> QED BY <1>3, <1>6, <1>7 DEF Sooner

LEMMA SoonerPath ==
    ASSUME NEW p \in Seq(FileNames), NEW q \in Seq(FileNames), PathBefore(p, q)
    PROVE  Precedes(p, q)
<1>1. PICK i \in DOMAIN p \cap DOMAIN q :
          (\A j \in 1..i - 1 : p[j] = q[j]) /\ NameBefore(p[i], q[i])
  BY DEF PathBefore
<1>2. /\ i \in 1..Len(p) /\ i \in 1..Len(q) /\ Len(p) \in Nat /\ Len(q) \in Nat
      /\ p[i] \in FileNames /\ q[i] \in FileNames
  OBVIOUS
<1>3. i - 1 \in Nat /\ i - 1 <= Len(p) /\ i - 1 <= Len(q)
  BY <1>2
<1>4. SubSeq(p, 1, i - 1) = SubSeq(q, 1, i - 1)
  BY <1>1, <1>3, SameStart
<1>5. Sooner(p[i], q[i])
  BY <1>1, <1>2, SoonerName
<1> QED BY <1>4, <1>5 DEF Precedes

\* Paths of one length are ordered by the first name in which they differ.
LEMMA PathOrder ==
    ASSUME NEW p \in Seq(FileNames), NEW q \in Seq(FileNames), NEW r \in Seq(FileNames),
           Len(p) = Len(q), Len(q) = Len(r)
    PROVE  /\ ~PathBefore(p, p)
           /\ PathBefore(p, q) /\ PathBefore(q, r) => PathBefore(p, r)
           /\ p # q => PathBefore(p, q) \/ PathBefore(q, p)
<1> DEFINE n == Len(p)
<1>1. /\ n \in Nat /\ DOMAIN p = 1..n /\ DOMAIN q = 1..n /\ DOMAIN r = 1..n
      /\ \A i \in 1..n : p[i] \in FileNames /\ q[i] \in FileNames /\ r[i] \in FileNames
  OBVIOUS
<1> HIDE DEF n
<1>2. ~PathBefore(p, p)
  BY <1>1, NameOrder DEF PathBefore
<1>3. ASSUME PathBefore(p, q), PathBefore(q, r) PROVE PathBefore(p, r)
  <2>1. PICK i \in 1..n : (\A j \in 1..i - 1 : p[j] = q[j]) /\ NameBefore(p[i], q[i])
    BY <1>1, <1>3 DEF PathBefore
  <2>2. PICK k \in 1..n : (\A j \in 1..k - 1 : q[j] = r[j]) /\ NameBefore(q[k], r[k])
    BY <1>1, <1>3 DEF PathBefore
  <2>3. CASE i < k
    <3>1. q[i] = r[i] /\ \A j \in 1..i - 1 : p[j] = r[j]
      BY <1>1, <2>1, <2>2, <2>3
    <3> QED BY <1>1, <2>1, <3>1 DEF PathBefore
  <2>4. CASE k < i
    <3>1. p[k] = q[k] /\ \A j \in 1..k - 1 : p[j] = r[j]
      BY <1>1, <2>1, <2>2, <2>4
    <3> QED BY <1>1, <2>2, <3>1 DEF PathBefore
  <2>5. CASE i = k
    <3>1. NameBefore(p[i], r[i])
      BY <1>1, <2>1, <2>2, <2>5, NameOrder
    <3> QED BY <1>1, <2>1, <2>2, <2>5, <3>1 DEF PathBefore
  <2> QED BY <1>1, <2>3, <2>4, <2>5
<1>4. ASSUME p # q PROVE PathBefore(p, q) \/ PathBefore(q, p)
  <2> DEFINE T == {i \in 1..n : p[i] # q[i]}
  <2>1. T \in SUBSET Nat
    BY <1>1
  <2>2. T # {}
    BY <1>1, <1>4 DEF n
  <2>3. PICK i \in T : \A j \in T : i <= j
    <3> HIDE DEF T
    <3> QED BY <2>1, <2>2, LeastNumber
  <2>4. \A j \in 1..i - 1 : p[j] = q[j]
    BY <1>1, <2>3
  <2>5. NameBefore(p[i], q[i]) \/ NameBefore(q[i], p[i])
    BY <1>1, <2>3, NameOrder
  <2> QED BY <1>1, <2>3, <2>4, <2>5 DEF PathBefore
<1> QED BY <1>2, <1>3, <1>4

-----------------------------------------------------------------------------
(***************************************************************************)
(* The files that patterns name.                                            *)
(***************************************************************************)

\* Paths of one length are listed once each, in their order.
LEMMA SortedFacts ==
    ASSUME NEW paths \in SUBSET DOMAIN Tree, \A p, q \in paths : Len(p) = Len(q)
    PROVE  /\ DOMAIN Sorted(paths) \subseteq Nat
           /\ \A n \in DOMAIN Sorted(paths) : Sorted(paths)[n] \in paths
           /\ \A p \in paths : \E n \in DOMAIN Sorted(paths) : Sorted(paths)[n] = p
           /\ \A m, n \in DOMAIN Sorted(paths) :
                  m < n => PathBefore(Sorted(paths)[m], Sorted(paths)[n])
<1> DEFINE order == {pair \in paths \X paths : PathBefore(pair[1], pair[2])}
<1>1. IsFiniteSet(paths)
  BY TreeAssumption, FS_Subset
<1>2. \A p \in paths : p \in Seq(FileNames)
  BY TreeAssumption
<1>3. \A p, q \in paths : <<p, q>> \in order <=> PathBefore(p, q)
  OBVIOUS
<1> HIDE DEF order
<1>4. \A p \in paths : <<p, p>> \notin order
  BY <1>2, <1>3, PathOrder
<1>5. \A p, q, r \in paths : <<p, q>> \in order /\ <<q, r>> \in order => <<p, r>> \in order
  BY <1>2, <1>3, PathOrder
<1>6. \A p, q \in paths : p # q => <<p, q>> \in order \/ <<q, p>> \in order
  BY <1>2, <1>3, PathOrder
<1>7. IsTotal(order, paths)
  BY <1>4, <1>5, <1>6 DEF IsTotal
<1>8. Sorted(paths) = InOrder(paths, order)
  BY DEF Sorted, order
<1>9. /\ Cardinality(paths) \in Nat /\ DOMAIN Sorted(paths) = 1..Cardinality(paths)
      /\ \A n \in DOMAIN Sorted(paths) : Sorted(paths)[n] \in paths
      /\ \A p \in paths : \E n \in DOMAIN Sorted(paths) : Sorted(paths)[n] = p
      /\ \A m, n \in DOMAIN Sorted(paths) :
             m < n => <<Sorted(paths)[m], Sorted(paths)[n]>> \in order
  BY <1>1, <1>7, <1>8, InOrderFacts
<1>10. DOMAIN Sorted(paths) \subseteq Nat
  BY <1>9
<1>11. \A m, n \in DOMAIN Sorted(paths) :
           m < n => PathBefore(Sorted(paths)[m], Sorted(paths)[n])
  BY <1>3, <1>9
<1> QED BY <1>9, <1>10, <1>11

\* The paths that a pattern matches are of its length.
LEMMA MatchedFacts ==
    ASSUME NEW pattern
    PROVE  \A p, q \in Matched(pattern) : Len(p) = Len(q)
<1> DEFINE cleaned == Clean(pattern)
<1>1. Matched(pattern) = IF \E i \in DOMAIN cleaned : Star \in Range(cleaned[i])
                         THEN {p \in DOMAIN Tree : Matches(p, cleaned)} ELSE {cleaned}
  BY DEF Matched
<1> HIDE DEF cleaned
<1>2. \A p \in Matched(pattern) : Len(p) = Len(cleaned)
  BY <1>1 DEF Matches
<1> QED BY <1>2

\* A path stands for itself or for files one level below it.
LEMMA FilesAtFacts ==
    ASSUME NEW path \in DOMAIN Tree
    PROVE  /\ FilesAt(path) \subseteq DOMAIN Tree
           /\ \A p, q \in FilesAt(path) : Len(p) = Len(q)
           /\ \A p \in FilesAt(path) : /\ Len(path) <= Len(p)
                                       /\ \A i \in 1..Len(path) : p[i] = path[i]
<1>1. FilesAt(path) \subseteq DOMAIN Tree /\ \A p, q \in FilesAt(path) : Len(p) = Len(q)
  BY DEF FilesAt
<1>2. ASSUME NEW p \in FilesAt(path)
      PROVE  Len(path) <= Len(p) /\ \A i \in 1..Len(path) : p[i] = path[i]
  <2>1. path \in Seq(FileNames) /\ p \in Seq(FileNames)
    BY <1>1, TreeAssumption
  <2>2. p = path \/ IsPrefix(path, p)
    BY DEF FilesAt
  <2> QED BY <2>1, <2>2, PrefixFacts
<1> QED BY <1>1, <1>2

Existing(patterns) ==
    /\ DOMAIN patterns \subseteq Nat
    /\ \A i \in DOMAIN patterns : Matched(patterns[i]) \subseteq DOMAIN Tree

\* The files of a pattern, whether they are sources or not.
FilesOf(pattern) == UNION {FilesAt(path) : path \in Matched(pattern)}

\* The loops of Read come to the files of every pattern, and to nothing else.
LEMMA PlacesFacts ==
    ASSUME NEW patterns, Existing(patterns)
    PROVE  /\ Places(patterns) \subseteq Nat \X Nat \X Nat
           /\ \A p \in Places(patterns) :
                  /\ p[1] \in DOMAIN patterns
                  /\ p[2] \in DOMAIN Sorted(Matched(patterns[p[1]]))
                  /\ PathAt(patterns, p) \in Matched(patterns[p[1]])
                  /\ p[3] \in DOMAIN Sorted(FilesAt(PathAt(patterns, p)))
                  /\ FileAt(patterns, p) \in FilesAt(PathAt(patterns, p))
           /\ \A i \in DOMAIN patterns : \A file \in FilesOf(patterns[i]) :
                  \E p \in Places(patterns) : p[1] = i /\ FileAt(patterns, p) = file
<1>1. ASSUME NEW i \in DOMAIN patterns
      PROVE  /\ i \in Nat /\ DOMAIN Sorted(Matched(patterns[i])) \subseteq Nat
             /\ \A j \in DOMAIN Sorted(Matched(patterns[i])) :
                    Sorted(Matched(patterns[i]))[j] \in Matched(patterns[i])
             /\ \A path \in Matched(patterns[i]) :
                    \E j \in DOMAIN Sorted(Matched(patterns[i])) :
                        Sorted(Matched(patterns[i]))[j] = path
  <2>1. Matched(patterns[i]) \in SUBSET DOMAIN Tree
    BY DEF Existing
  <2> QED BY <2>1, MatchedFacts, SortedFacts DEF Existing
<1>2. ASSUME NEW path \in DOMAIN Tree
      PROVE  /\ DOMAIN Sorted(FilesAt(path)) \subseteq Nat
             /\ \A k \in DOMAIN Sorted(FilesAt(path)) :
                    Sorted(FilesAt(path))[k] \in FilesAt(path)
             /\ \A file \in FilesAt(path) :
                    \E k \in DOMAIN Sorted(FilesAt(path)) : Sorted(FilesAt(path))[k] = file
  <2>1. FilesAt(path) \in SUBSET DOMAIN Tree /\ \A p, q \in FilesAt(path) : Len(p) = Len(q)
    BY FilesAtFacts
  <2> QED BY <2>1, SortedFacts
<1>3. \A i, j : PathAt(patterns, <<i, j>>) = Sorted(Matched(patterns[i]))[j]
  BY DEF PathAt
<1>4. \A i, j, k : /\ PathAt(patterns, <<i, j, k>>) = Sorted(Matched(patterns[i]))[j]
                   /\ FileAt(patterns, <<i, j, k>>) =
                          Sorted(FilesAt(Sorted(Matched(patterns[i]))[j]))[k]
  BY DEF PathAt, FileAt
<1>5. \A p : p \in Places(patterns) <=>
          \E i \in DOMAIN patterns : \E j \in DOMAIN Sorted(Matched(patterns[i])) :
              \E k \in DOMAIN Sorted(FilesAt(Sorted(Matched(patterns[i]))[j])) :
                  p = <<i, j, k>>
  <2> DEFINE FilesFrom(i, j) ==
                 {<<i, j, k>> : k \in DOMAIN Sorted(FilesAt(PathAt(patterns, <<i, j>>)))}
             PathsFrom(i) == {FilesFrom(i, j) : j \in DOMAIN Sorted(Matched(patterns[i]))}
  <2>1. Places(patterns) = UNION {UNION PathsFrom(i) : i \in DOMAIN patterns}
    BY DEF Places
  <2>2. \A i, j : \A p : p \in FilesFrom(i, j) <=>
            \E k \in DOMAIN Sorted(FilesAt(Sorted(Matched(patterns[i]))[j])) : p = <<i, j, k>>
    BY <1>3
  <2> HIDE DEF FilesFrom
  <2>3. \A i : \A p : p \in UNION PathsFrom(i) <=>
            \E j \in DOMAIN Sorted(Matched(patterns[i])) : p \in FilesFrom(i, j)
    BY Zenon
  <2> HIDE DEF PathsFrom
  <2>4. \A p : p \in Places(patterns) <=> \E i \in DOMAIN patterns : p \in UNION PathsFrom(i)
    BY <2>1, Zenon
  <2> QED BY <2>2, <2>3, <2>4
<1>6. ASSUME NEW p \in Places(patterns)
      PROVE  /\ p \in Nat \X Nat \X Nat
             /\ p[1] \in DOMAIN patterns
             /\ p[2] \in DOMAIN Sorted(Matched(patterns[p[1]]))
             /\ PathAt(patterns, p) \in Matched(patterns[p[1]])
             /\ p[3] \in DOMAIN Sorted(FilesAt(PathAt(patterns, p)))
             /\ FileAt(patterns, p) \in FilesAt(PathAt(patterns, p))
  <2>1. PICK i \in DOMAIN patterns : \E j \in DOMAIN Sorted(Matched(patterns[i])) :
              \E k \in DOMAIN Sorted(FilesAt(Sorted(Matched(patterns[i]))[j])) :
                  p = <<i, j, k>>
    BY <1>5
  <2>2. PICK j \in DOMAIN Sorted(Matched(patterns[i])) :
              \E k \in DOMAIN Sorted(FilesAt(Sorted(Matched(patterns[i]))[j])) :
                  p = <<i, j, k>>
    BY <2>1
  <2>3. PICK k \in DOMAIN Sorted(FilesAt(Sorted(Matched(patterns[i]))[j])) : p = <<i, j, k>>
    BY <2>2
  <2>4. Sorted(Matched(patterns[i]))[j] \in Matched(patterns[i])
    BY <1>1
  <2>5. Sorted(Matched(patterns[i]))[j] \in DOMAIN Tree
    BY <2>4 DEF Existing
  <2>6. Sorted(FilesAt(Sorted(Matched(patterns[i]))[j]))[k]
            \in FilesAt(Sorted(Matched(patterns[i]))[j]) /\ k \in Nat
    BY <1>2, <2>5
  <2>7. i \in Nat /\ j \in Nat
    BY <1>1
  <2>8. p[1] = i /\ p[2] = j /\ p[3] = k
    BY <2>3
  <2>9. PathAt(patterns, p) = Sorted(Matched(patterns[i]))[j]
    BY <2>3, <1>4
  <2> QED BY <1>4, <2>3, <2>4, <2>6, <2>7, <2>8, <2>9
<1>7. ASSUME NEW i \in DOMAIN patterns, NEW file \in FilesOf(patterns[i])
      PROVE  \E p \in Places(patterns) : p[1] = i /\ FileAt(patterns, p) = file
  <2>1. PICK path \in Matched(patterns[i]) : file \in FilesAt(path)
    BY DEF FilesOf
  <2>2. path \in DOMAIN Tree
    BY DEF Existing
  <2>3. PICK j \in DOMAIN Sorted(Matched(patterns[i])) : Sorted(Matched(patterns[i]))[j] = path
    BY <1>1
  <2>4. PICK k \in DOMAIN Sorted(FilesAt(path)) : Sorted(FilesAt(path))[k] = file
    BY <1>2, <2>1, <2>2
  <2>5. <<i, j, k>> \in Places(patterns)
    BY <1>5, <2>3
  <2>6. FileAt(patterns, <<i, j, k>>) = file
    BY <1>4, <2>3, <2>4
  <2>7. <<i, j, k>>[1] = i
    OBVIOUS
  <2> QED BY <2>5, <2>6, <2>7
<1> QED BY <1>6, <1>7

\* The files of one pattern come in the order of their paths.
LEMMA PlacesInOrder ==
    ASSUME NEW patterns, Existing(patterns),
           NEW p \in Places(patterns), NEW q \in Places(patterns),
           p[1] = q[1], Earlier(p, q)
    PROVE  PathBefore(FileAt(patterns, p), FileAt(patterns, q))
<1> DEFINE path == PathAt(patterns, p)
           other == PathAt(patterns, q)
           matched == Matched(patterns[p[1]])
           file == FileAt(patterns, p)
           another == FileAt(patterns, q)
<1>1. /\ p[1] \in Nat /\ p[2] \in Nat /\ p[3] \in Nat
      /\ q[1] \in Nat /\ q[2] \in Nat /\ q[3] \in Nat
  BY PlacesFacts
<1>2. /\ p[2] \in DOMAIN Sorted(matched) /\ q[2] \in DOMAIN Sorted(matched)
      /\ path \in matched /\ other \in matched
      /\ p[3] \in DOMAIN Sorted(FilesAt(path)) /\ q[3] \in DOMAIN Sorted(FilesAt(other))
      /\ file \in FilesAt(path) /\ another \in FilesAt(other)
  BY PlacesFacts
<1>3. /\ path = Sorted(matched)[p[2]] /\ other = Sorted(matched)[q[2]]
      /\ file = Sorted(FilesAt(path))[p[3]] /\ another = Sorted(FilesAt(other))[q[3]]
  BY DEF PathAt, FileAt
<1>4. matched \in SUBSET DOMAIN Tree
  BY PlacesFacts DEF Existing
<1> HIDE DEF path, other, matched, file, another
<1>5. CASE p[2] < q[2]
  <2>1. PathBefore(path, other)
    BY <1>2, <1>3, <1>4, <1>5, SortedFacts, MatchedFacts DEF matched
  <2>2. /\ path \in DOMAIN Tree /\ other \in DOMAIN Tree
        /\ file \in DOMAIN Tree /\ another \in DOMAIN Tree
    BY <1>2, <1>4, FilesAtFacts
  <2>3. /\ path \in Seq(FileNames) /\ other \in Seq(FileNames)
        /\ file \in Seq(FileNames) /\ another \in Seq(FileNames)
    BY <2>2, TreeAssumption
  <2>4. /\ Len(path) <= Len(file) /\ \A i \in 1..Len(path) : file[i] = path[i]
        /\ Len(other) <= Len(another) /\ \A i \in 1..Len(other) : another[i] = other[i]
    BY <1>2, <2>2, FilesAtFacts
  <2>5. PICK i \in DOMAIN path \cap DOMAIN other :
            (\A j \in 1..i - 1 : path[j] = other[j]) /\ NameBefore(path[i], other[i])
    BY <2>1 DEF PathBefore
  <2>6. i \in 1..Len(path) /\ i \in 1..Len(other) /\ Len(path) \in Nat /\ Len(other) \in Nat
        /\ Len(file) \in Nat /\ Len(another) \in Nat
    BY <2>3, <2>5
  <2>7. i \in 1..Len(file) /\ i \in 1..Len(another)
    BY <2>4, <2>6
  <2>8. i \in DOMAIN file \cap DOMAIN another
    BY <2>3, <2>7
  <2>9. \A j \in 1..i - 1 : file[j] = another[j]
    BY <2>4, <2>5, <2>6
  <2>10. NameBefore(file[i], another[i])
    BY <2>4, <2>5, <2>6
  <2>11. PathBefore(file, another)
    BY <2>8, <2>9, <2>10 DEF PathBefore
  <2> QED BY <2>11 DEF file, another
<1>6. CASE p[2] = q[2] /\ p[3] < q[3]
  <2>1. path = other
    BY <1>3, <1>6
  <2>2. FilesAt(path) \in SUBSET DOMAIN Tree /\ \A f, g \in FilesAt(path) : Len(f) = Len(g)
    BY <1>2, <1>4, FilesAtFacts
  <2>3. PathBefore(file, another)
    BY <1>2, <1>3, <1>6, <2>1, <2>2, SortedFacts
  <2> QED BY <2>3 DEF file, another
<1> QED BY <1>1, <1>5, <1>6 DEF Earlier

\* Of some places, one is the earliest.
LEMMA EarliestPlace ==
    ASSUME NEW P \in SUBSET (Nat \X Nat \X Nat), P # {}
    PROVE  \E p \in P : \A q \in P : ~Earlier(q, p)
<1> DEFINE I == {i \in Nat : \E p \in P : p[1] = i}
<1>1. \A p \in P : p[1] \in Nat /\ p[2] \in Nat /\ p[3] \in Nat
  OBVIOUS
<1>2. I \in SUBSET Nat /\ I # {}
  BY <1>1
<1>3. PICK i \in I : \A x \in I : i <= x
  <2> HIDE DEF I
  <2> QED BY <1>2, LeastNumber
<1> DEFINE J == {j \in Nat : \E p \in P : p[1] = i /\ p[2] = j}
<1>4. J \in SUBSET Nat /\ J # {}
  BY <1>1, <1>3
<1>5. PICK j \in J : \A x \in J : j <= x
  <2> HIDE DEF J
  <2> QED BY <1>4, LeastNumber
<1> DEFINE K == {k \in Nat : \E p \in P : p[1] = i /\ p[2] = j /\ p[3] = k}
<1>6. K \in SUBSET Nat /\ K # {}
  BY <1>1, <1>5
<1>7. PICK k \in K : \A x \in K : k <= x
  <2> HIDE DEF K
  <2> QED BY <1>6, LeastNumber
<1>8. PICK p \in P : p[1] = i /\ p[2] = j /\ p[3] = k
  BY <1>7
<1>9. ASSUME NEW q \in P PROVE ~Earlier(q, p)
  <2>0. q[1] \in Nat /\ q[2] \in Nat /\ q[3] \in Nat /\ i \in Nat /\ j \in Nat /\ k \in Nat
    BY <1>1, <1>3, <1>5, <1>7
  <2>1. i <= q[1]
    BY <1>3, <2>0
  <2>2. q[1] = i => j <= q[2]
    BY <1>5, <2>0
  <2>3. q[1] = i /\ q[2] = j => k <= q[3]
    BY <1>7, <2>0
  <2> HIDE DEF I, J, K
  <2> QED BY <1>8, <2>0, <2>1, <2>2, <2>3 DEF Earlier
<1> QED BY <1>9

\* Places are totally ordered.
LEMMA EarlierIsTotal ==
    ASSUME NEW P \in SUBSET (Nat \X Nat \X Nat)
    PROVE  IsTotal({pair \in P \X P : Earlier(pair[1], pair[2])}, P)
<1> DEFINE order == {pair \in P \X P : Earlier(pair[1], pair[2])}
<1>1. \A p, q \in P : <<p, q>> \in order <=> Earlier(p, q)
  OBVIOUS
<1>2. \A p \in P : p[1] \in Nat /\ p[2] \in Nat /\ p[3] \in Nat /\ p = <<p[1], p[2], p[3]>>
  OBVIOUS
<1> HIDE DEF order
<1>3. \A p \in P : <<p, p>> \notin order
  BY <1>1, <1>2 DEF Earlier
<1>4. ASSUME NEW p \in P, NEW q \in P, NEW r \in P, <<p, q>> \in order, <<q, r>> \in order
      PROVE  <<p, r>> \in order
  BY <1>1, <1>2, <1>4 DEF Earlier
<1>5. ASSUME NEW p \in P, NEW q \in P, p # q
      PROVE  <<p, q>> \in order \/ <<q, p>> \in order
  <2>1. p[1] # q[1] \/ p[2] # q[2] \/ p[3] # q[3]
    BY <1>2, <1>5
  <2> QED BY <1>1, <1>2, <2>1 DEF Earlier
<1>6. IsTotal(order, P)
  BY <1>3, <1>4, <1>5 DEF IsTotal
<1> QED BY <1>6 DEF order

Listed(list) == Len(list) \in Nat /\ DOMAIN list = 1..Len(list)

\* What a pattern names, and the patterns all together.
LEMMA FoundFacts ==
    ASSUME NEW patterns, Existing(patterns)
    PROVE  /\ DOMAIN Found(patterns) = 1..Cardinality(FirstPlaces(patterns))
           /\ Cardinality(FirstPlaces(patterns)) \in Nat
           /\ \A n \in DOMAIN Found(patterns) :
                  \E f \in DOMAIN patterns : Found(patterns)[n] \in NamedBy(patterns[f])
           /\ \A f \in DOMAIN patterns : \A file \in NamedBy(patterns[f]) :
                  \E n \in DOMAIN Found(patterns) : Found(patterns)[n] = file
           /\ \A m, n \in DOMAIN Found(patterns) : m < n =>
                  /\ Found(patterns)[m] # Found(patterns)[n]
                  /\ \E f \in DOMAIN patterns :
                         /\ Found(patterns)[m] \in NamedBy(patterns[f])
                         /\ \A e \in 1..f :
                                e \in DOMAIN patterns /\ Found(patterns)[n] \in NamedBy(patterns[e])
                                => e = f /\ Precedes(Found(patterns)[m], Found(patterns)[n])
<1> DEFINE places == Places(patterns)
           firsts == FirstPlaces(patterns)
           order == {pair \in firsts \X firsts : Earlier(pair[1], pair[2])}
           file(p) == FileAt(patterns, p)
           found == Found(patterns)
<1>1. places \in SUBSET (Nat \X Nat \X Nat) /\ firsts \in SUBSET places
  BY PlacesFacts DEF FirstPlaces
<1>2. \A p \in places : /\ p[1] \in DOMAIN patterns
                        /\ PathAt(patterns, p) \in Matched(patterns[p[1]])
                        /\ file(p) \in FilesAt(PathAt(patterns, p))
  BY PlacesFacts
<1>3. \A p \in places : /\ file(p) \in DOMAIN Tree
                        /\ IsSource(file(p)) => file(p) \in NamedBy(patterns[p[1]])
  <2> SUFFICES ASSUME NEW p \in places
               PROVE  /\ file(p) \in DOMAIN Tree
                      /\ IsSource(file(p)) => file(p) \in NamedBy(patterns[p[1]])
    OBVIOUS
  <2>1. PathAt(patterns, p) \in DOMAIN Tree
    BY <1>2 DEF Existing
  <2>2. FilesAt(PathAt(patterns, p)) \subseteq DOMAIN Tree
    BY <2>1, FilesAtFacts
  <2> QED BY <1>2, <2>2 DEF NamedBy
<1>4. \A p \in firsts : /\ IsSource(file(p))
                        /\ \A q \in places : Earlier(q, p) => file(q) # file(p)
  BY DEF FirstPlaces
<1>5. IsTotal(order, firsts)
  <2>1. firsts \in SUBSET (Nat \X Nat \X Nat)
    BY <1>1
  <2> QED BY <2>1, EarlierIsTotal
<1>6. \A p, q \in firsts : <<p, q>> \in order <=> Earlier(p, q)
  OBVIOUS
<1> DEFINE list == InOrder(firsts, order)
<1>7. DOMAIN found = DOMAIN list /\ \A n \in DOMAIN list : found[n] = file(list[n])
  BY DEF Found, FilesIn, InTurn
<1> HIDE DEF places, firsts, order, list, found
<1>8. \A p, q \in firsts : file(p) = file(q) => p = q
  <2> SUFFICES ASSUME NEW p \in firsts, NEW q \in firsts, file(p) = file(q), p # q PROVE FALSE
    OBVIOUS
  <2>1. Earlier(p, q) \/ Earlier(q, p)
    BY <1>5, <1>6 DEF IsTotal
  <2> QED BY <1>1, <1>4, <2>1
<1>9. IsFiniteSet(firsts)
  <2> DEFINE f == [p \in firsts |-> file(p)]
  <2>1. f \in [firsts -> DOMAIN Tree]
    BY <1>1, <1>3
  <2>2. f \in Injection(firsts, DOMAIN Tree)
    BY <1>8, <2>1 DEF Injection, IsInjective
  <2> HIDE DEF f
  <2> QED BY <2>2, TreeAssumption, FS_Injection
<1>10. /\ Cardinality(firsts) \in Nat /\ DOMAIN list = 1..Cardinality(firsts)
       /\ \A n \in DOMAIN list : list[n] \in firsts
       /\ \A x \in firsts : \E n \in DOMAIN list : list[n] = x
       /\ \A m, n \in DOMAIN list : m < n => <<list[m], list[n]>> \in order
  BY <1>5, <1>9, InOrderFacts DEF list
<1>11. ASSUME NEW n \in DOMAIN found
       PROVE  \E f \in DOMAIN patterns : found[n] \in NamedBy(patterns[f])
  <2>1. list[n] \in firsts /\ list[n] \in places /\ found[n] = file(list[n])
    BY <1>1, <1>7, <1>10
  <2> QED BY <1>2, <1>3, <1>4, <2>1
<1>12. ASSUME NEW f \in DOMAIN patterns, NEW x \in NamedBy(patterns[f])
       PROVE  \E n \in DOMAIN found : found[n] = x
  <2> DEFINE P == {p \in places : file(p) = x}
  <2>1. x \in FilesOf(patterns[f]) /\ IsSource(x)
    BY DEF NamedBy, FilesOf
  <2>2. P \in SUBSET (Nat \X Nat \X Nat) /\ P # {}
    BY <1>1, <2>1, PlacesFacts DEF places
  <2>3. PICK p \in P : \A q \in P : ~Earlier(q, p)
    <3> HIDE DEF P
    <3> QED BY <2>2, EarliestPlace
  <2>4. p \in firsts
    BY <2>1, <2>3 DEF firsts, FirstPlaces, places
  <2>5. PICK n \in DOMAIN list : list[n] = p
    BY <1>10, <2>4
  <2> QED BY <1>7, <2>3, <2>5
<1>13. ASSUME NEW m \in DOMAIN found, NEW n \in DOMAIN found, m < n
       PROVE  /\ found[m] # found[n]
              /\ \E f \in DOMAIN patterns :
                     /\ found[m] \in NamedBy(patterns[f])
                     /\ \A e \in 1..f :
                            e \in DOMAIN patterns /\ found[n] \in NamedBy(patterns[e])
                            => e = f /\ Precedes(found[m], found[n])
  <2> DEFINE p == list[m]
             q == list[n]
  <2>1. /\ p \in firsts /\ q \in firsts /\ p \in places /\ q \in places
        /\ found[m] = file(p) /\ found[n] = file(q) /\ <<p, q>> \in order
    BY <1>1, <1>7, <1>10, <1>13
  <2>2. Earlier(p, q)
    BY <1>6, <2>1
  <2>3. p # q
    BY <1>5, <2>1 DEF IsTotal
  <2> HIDE DEF p, q
  <2>4. found[m] # found[n]
    BY <1>8, <2>1, <2>3
  <2>5. p[1] \in DOMAIN patterns /\ found[m] \in NamedBy(patterns[p[1]])
    BY <1>2, <1>3, <1>4, <2>1
  <2>6. ASSUME NEW e \in 1..p[1], e \in DOMAIN patterns, found[n] \in NamedBy(patterns[e])
        PROVE  e = p[1] /\ Precedes(found[m], found[n])
    <3>1. found[n] \in FilesOf(patterns[e])
      BY <2>6 DEF NamedBy, FilesOf
    <3>2. PICK r \in places : r[1] = e /\ file(r) = found[n]
      BY <2>6, <3>1, PlacesFacts DEF places
    <3>3. ~Earlier(r, q)
      BY <1>4, <2>1, <3>2
    <3>4. /\ p[1] \in Nat /\ q[1] \in Nat /\ r[1] \in Nat
      BY <1>1, <2>1, <3>2
    <3>5. q[1] <= r[1] /\ p[1] <= q[1]
      BY <2>2, <3>3, <3>4 DEF Earlier
    <3>6. e = p[1] /\ q[1] = p[1]
      BY <2>6, <3>2, <3>4, <3>5
    <3>7. PathBefore(file(p), file(q))
      BY <2>1, <2>2, <3>6, PlacesInOrder DEF places
    <3>8. file(p) \in Seq(FileNames) /\ file(q) \in Seq(FileNames)
      BY <1>3, <2>1, TreeAssumption
    <3>9. Precedes(file(p), file(q))
      BY <3>7, <3>8, SoonerPath
    <3> QED BY <2>1, <3>6, <3>9
  <2> QED BY <2>4, <2>5, <2>6
<1> QED BY <1>7, <1>10, <1>11, <1>12, <1>13 DEF found, firsts

\* What upMigration keeps of a text.
LEMMA UpMigrationFacts ==
    ASSUME NEW S, NEW text \in Seq(S)
    PROVE  IsForward(upMigration(text), text)
<1> DEFINE cut == {i \in DOMAIN text : IsRollback(text[i])}
           Kept(i) == SubSeq(text, 1, i - 1)
<1>1. DOMAIN text = 1..Len(text) /\ Len(text) \in Nat
  OBVIOUS
<1>2. CASE cut = {}
  <2>1. upMigration(text) = text
    BY <1>2 DEF upMigration
  <2>2. text = SubSeq(text, 1, Len(text))
    <3>1. /\ SubSeq(text, 1, Len(text)) \in Seq(S) /\ Len(SubSeq(text, 1, Len(text))) = Len(text)
          /\ \A i \in 1..Len(text) : SubSeq(text, 1, Len(text))[i] = text[i]
      BY <1>1
    <3> QED BY <3>1, SeqEqual
  <2>3. \A k \in 1..Len(text) : ~IsRollback(text[k])
    BY <1>1, <1>2
  <2>4. \E n \in 0..Len(text) : n = Len(text)
    <3>1. Len(text) \in Nat
      BY <1>1
    <3> QED BY <3>1
  <2>5. PICK n \in 0..Len(text) : n = Len(text)
    BY <2>4
  <2>6. ~(n < Len(text))
    BY <1>1, <2>5
  <2> HIDE DEF cut
  <2> QED BY <2>1, <2>2, <2>3, <2>5, <2>6 DEF IsForward
<1>3. CASE cut # {}
  <2>1. cut \in SUBSET Nat
    BY <1>1
  <2>2. \E i \in cut : \A j \in cut : i <= j
    <3> HIDE DEF cut
    <3> QED BY <1>3, <2>1, LeastNumber
  <2>3. PICK i \in cut : i = CHOOSE x \in cut : \A j \in cut : x <= j
    BY <2>2
  <2>4. \A j \in cut : i <= j
    BY <2>2, <2>3
  <2>5. upMigration(text) = SubSeq(text, 1, i - 1)
    BY <1>3, <2>3 DEF upMigration
  <2>6. i \in 1..Len(text) /\ IsRollback(text[i])
    BY <1>1
  <2>7. PICK n \in 0..Len(text) : n = i - 1 /\ n < Len(text) /\ n + 1 = i
    BY <1>1, <2>6
  <2>8. \A k \in 1..n : ~IsRollback(text[k])
    BY <1>1, <2>4, <2>6, <2>7
  <2> HIDE DEF cut
  <2> QED BY <2>5, <2>6, <2>7, <2>8 DEF IsForward
<1> QED BY <1>2, <1>3

\* What Read returns of a schema, unless it refuses.
LEMMA ReadFacts ==
    ASSUME NEW patterns, DOMAIN patterns \subseteq Nat, Read(patterns, TRUE) # Refused
    PROVE  /\ Existing(patterns)
           /\ DOMAIN Read(patterns, TRUE) = DOMAIN Found(patterns)
           /\ \A n \in DOMAIN Found(patterns) :
                  /\ Read(patterns, TRUE)[n].name = Found(patterns)[n]
                  /\ IsForward(Read(patterns, TRUE)[n].text, Tree[Found(patterns)[n]].text)
<1> DEFINE found == Found(patterns)
           read == [n \in DOMAIN found |->
                       [name |-> found[n], text |-> upMigration(Tree[found[n]].text)]]
<1>1. ~Refuses(patterns, found) /\ Read(patterns, TRUE) = read
  BY DEF Read
<1>2. Existing(patterns)
  BY <1>1 DEF Refuses, Existing
<1>3. ASSUME NEW n \in DOMAIN found
      PROVE  read[n].name = found[n] /\ IsForward(read[n].text, Tree[found[n]].text)
  <2>1. read[n].name = found[n] /\ read[n].text = upMigration(Tree[found[n]].text)
    OBVIOUS
  <2>2. PICK f \in DOMAIN patterns : found[n] \in NamedBy(patterns[f])
    BY <1>2, FoundFacts
  <2>3. PICK path \in Matched(patterns[f]) : found[n] \in FilesAt(path)
    BY <2>2 DEF NamedBy
  <2>4. found[n] \in DOMAIN Tree
    BY <1>2, <2>3, FilesAtFacts DEF Existing
  <2>5. Tree[found[n]].text \in Seq(Range(Tree[found[n]].text))
    BY <2>4, TreeAssumption
  <2> QED BY <2>1, <2>5, UpMigrationFacts
<1> QED BY <1>1, <1>2, <1>3

\* Finitely many finite sets have a finite union.
LEMMA FiniteUnion ==
    ASSUME NEW n \in Nat, NEW f, \A i \in 1..n : IsFiniteSet(f[i])
    PROVE  IsFiniteSet(UNION {f[i] : i \in 1..n})
<1> DEFINE B(k) == UNION {f[i] : i \in 1..k}
           T == {k \in 0..n : ~IsFiniteSet(B(k))}
<1>1. SUFFICES T = {}
  <2>1. n \in 0..n /\ (T = {} => n \notin T)
    OBVIOUS
  <2>2. T = {} => IsFiniteSet(B(n))
    <3> HIDE DEF B
    <3> QED BY <2>1
  <2> QED BY <2>2
<1>2. SUFFICES ASSUME T # {} PROVE FALSE
  OBVIOUS
<1>3. T \in SUBSET Nat
  OBVIOUS
<1>4. PICK k \in T : \A j \in T : k <= j
  <2> HIDE DEF T
  <2> QED BY <1>2, <1>3, LeastNumber
<1>5. k # 0
  <2>1. B(0) = {}
    OBVIOUS
  <2> QED BY <2>1, FS_EmptySet
<1>6. IsFiniteSet(B(k - 1))
  <2>1. k - 1 \in 0..n /\ k - 1 \notin T
    BY <1>4, <1>5
  <2> QED BY <2>1 DEF T
<1>7. B(k) = B(k - 1) \cup f[k]
  <2>1. 1..k = (1..k - 1) \cup {k}
    BY <1>5
  <2> QED BY <2>1
<1>8. k \in 1..n
  BY <1>5
<1>9. IsFiniteSet(B(k))
  <2>1. IsFiniteSet(f[k])
    BY <1>8
  <2> HIDE DEF B
  <2>2. IsFiniteSet(B(k - 1) \cup f[k])
    BY <1>6, <2>1, FS_Union, Zenon
  <2> QED BY <1>7, <2>2
<1> QED BY <1>4, <1>9

\* The blocks of finitely many files can be listed.
LEMMA NamedFacts ==
    ASSUME NEW n \in Nat, NEW sources, DOMAIN sources = 1..n,
           \A i \in 1..n : sources[i].text \in Seq(Range(sources[i].text))
    PROVE  Listed(Named(sources))
<1> DEFINE at == [i \in 1..n |-> {<<i, j, 1>> : j \in {k \in DOMAIN sources[i].text :
                                     sources[i].text[k].statement # ""}}]
           blocks == Blocks(sources)
           order == {pair \in blocks \X blocks : Earlier(pair[1], pair[2])}
<1>1. blocks = UNION {at[i] : i \in 1..n}
  BY DEF Blocks
<1>2. \A i \in 1..n : DOMAIN sources[i].text = 1..Len(sources[i].text)
                      /\ Len(sources[i].text) \in Nat
  OBVIOUS
<1>3. ASSUME NEW i \in 1..n
      PROVE  at[i] \in SUBSET (Nat \X Nat \X Nat) /\ IsFiniteSet(at[i])
  <2> DEFINE f == [block \in at[i] |-> block[2]]
  <2>1. \A block \in at[i] : \E j \in 1..Len(sources[i].text) : block = <<i, j, 1>>
    BY <1>2
  <2> HIDE DEF at
  <2>2. at[i] \in SUBSET (Nat \X Nat \X Nat)
    BY <1>2, <2>1
  <2>3. f \in [at[i] -> 1..Len(sources[i].text)]
    BY <2>1
  <2>4. \A x, y \in at[i] : f[x] = f[y] => x = y
    <3>1. \A x \in at[i] : f[x] = x[2] /\ x = <<i, x[2], 1>>
      BY <2>1
    <3> HIDE DEF f
    <3> QED BY <3>1
  <2>5. f \in Injection(at[i], 1..Len(sources[i].text))
    BY <2>3, <2>4 DEF Injection, IsInjective
  <2>6. IsFiniteSet(1..Len(sources[i].text))
    BY <1>2, FS_Interval
  <2> HIDE DEF f
  <2> QED BY <2>2, <2>5, <2>6, FS_Injection
<1> HIDE DEF at
<1>4. IsFiniteSet(blocks)
  <2>1. IsFiniteSet(UNION {at[i] : i \in 1..n})
    <3>1. \A i \in 1..n : IsFiniteSet(at[i])
      BY <1>3
    <3> QED BY <3>1, FiniteUnion, Zenon
  <2> HIDE DEF blocks
  <2> QED BY <1>1, <2>1
<1>5. blocks \in SUBSET (Nat \X Nat \X Nat)
  BY <1>1, <1>3
<1> DEFINE list == InOrder(blocks, order)
           named == Named(sources)
<1>6. DOMAIN named = DOMAIN list
  BY DEF Named, StatementsIn, InTurn
<1> HIDE DEF blocks, named
<1>7. IsTotal(order, blocks)
  BY <1>5, EarlierIsTotal
<1> HIDE DEF order
<1>8. Cardinality(blocks) \in Nat /\ DOMAIN list = 1..Cardinality(blocks)
  BY <1>4, <1>7, InOrderFacts
<1> QED BY <1>6, <1>8 DEF Listed, named

\* The queries that are read can be listed.
LEMMA ReadListed ==
    ASSUME NEW patterns, Listed(patterns)
    PROVE  Listed(Named(Read(patterns, FALSE)))
<1> DEFINE found == Found(patterns)
           read == [n \in DOMAIN found |->
                       [name |-> found[n], text |-> Tree[found[n]].text]]
<1>1. CASE Refuses(patterns, found)
  <2>1. Read(patterns, FALSE) = <<>>
    BY <1>1 DEF Read, Refused
  <2>2. DOMAIN <<>> = 1..0 /\ 0 \in Nat
    OBVIOUS
  <2>3. \A i \in 1..0 : <<>>[i].text \in Seq(Range(<<>>[i].text))
    OBVIOUS
  <2>4. Listed(Named(<<>>))
    BY <2>2, <2>3, NamedFacts
  <2> QED BY <2>1, <2>4
<1>2. CASE ~Refuses(patterns, found)
  <2>1. Read(patterns, FALSE) = read
    BY <1>2 DEF Read
  <2>2. Existing(patterns)
    BY <1>2 DEF Refuses, Existing, Listed
  <2>3. PICK n \in Nat : DOMAIN found = 1..n
    BY <2>2, FoundFacts
  <2>4. DOMAIN read = 1..n
    BY <2>3
  <2>5. ASSUME NEW i \in 1..n PROVE read[i].text \in Seq(Range(read[i].text))
    <3>1. PICK f \in DOMAIN patterns : found[i] \in NamedBy(patterns[f])
      BY <2>2, <2>3, FoundFacts
    <3>2. PICK path \in Matched(patterns[f]) : found[i] \in FilesAt(path)
      BY <3>1 DEF NamedBy
    <3>3. found[i] \in DOMAIN Tree
      BY <2>2, <3>2, FilesAtFacts DEF Existing
    <3>4. read[i].text = Tree[found[i]].text
      BY <2>3
    <3> HIDE DEF read
    <3> QED BY <3>3, <3>4, TreeAssumption
  <2> HIDE DEF read, found
  <2> QED BY <2>1, <2>4, <2>5, NamedFacts
<1> QED BY <1>1, <1>2

\* Parse keeps the lists of a document.
LEMMA ParseFacts ==
    ASSUME NEW d \in Documents, IsValid(d)
    PROVE  /\ Listed(Parse(d).sets) /\ Len(Parse(d).sets) > 0
           /\ \A i \in DOMAIN Parse(d).sets :
                  /\ Listed(Parse(d).sets[i].rules)
                  /\ Listed(Parse(d).sets[i].schema)
                  /\ Listed(Parse(d).sets[i].queries)
<1> DEFINE sets == d.sets
           parsed == [i \in DOMAIN sets |-> ParseSet(sets[i])]
<1>1. /\ {"rules", "sets"} \subseteq DOMAIN d
      /\ sets \in Seq(Range(sets))
      /\ \A i \in DOMAIN sets :
             /\ {"rules", "schema", "queries", "gen"} \subseteq DOMAIN sets[i]
             /\ sets[i].rules \in Seq(Range(sets[i].rules))
             /\ sets[i].schema \in Seq(Range(sets[i].schema))
             /\ sets[i].queries \in Seq(Range(sets[i].queries))
  BY VetAssumption
<1>2. sets # <<>>
  BY DEF IsValid
<1>3. Parse(d) = [d EXCEPT !.sets = parsed]
  BY DEF Parse
<1> HIDE DEF sets
<1>4. \A s : s \in Seq(Range(s)) => Listed(s)
  BY DEF Listed
<1>5. Listed(sets) /\ Len(sets) > 0
  BY <1>1, <1>2, <1>4, EmptySeq DEF Listed
<1>6. DOMAIN parsed = DOMAIN sets
  OBVIOUS
<1>7. ASSUME NEW i \in DOMAIN sets
      PROVE  /\ parsed[i].rules = sets[i].rules /\ parsed[i].schema = sets[i].schema
             /\ parsed[i].queries = sets[i].queries
  BY <1>1 DEF ParseSet
<1> HIDE DEF parsed
<1>8. Parse(d).sets = parsed
  BY <1>1, <1>3
<1>9. Listed(parsed) /\ Len(parsed) > 0
  BY <1>5, <1>6 DEF Listed
<1>10. ASSUME NEW i \in DOMAIN parsed
       PROVE  Listed(parsed[i].rules) /\ Listed(parsed[i].schema) /\ Listed(parsed[i].queries)
  BY <1>1, <1>4, <1>6, <1>7
<1> QED BY <1>8, <1>9, <1>10

-----------------------------------------------------------------------------
(***************************************************************************)
(* A clean verdict.                                                         *)
(***************************************************************************)
Custom(s) == Range(config.sets[s].rules) \ {DbPrepare}

QueriesOf(s) == Named(Read(config.sets[s].queries, FALSE))

Checked(s, q, name) ==
    \E e \in evaluated : /\ e.set = s /\ e.query = q /\ e.rule = name
                         /\ NeedsPlan(name) => e.plan = q

SetChecked(s) == \A q \in Range(QueriesOf(s)) : \A name \in Custom(s) : Checked(s, q, name)

Loaded ==
    /\ Listed(config.sets) /\ Len(config.sets) > 0
    /\ \A i \in DOMAIN config.sets :
           /\ Listed(config.sets[i].rules) /\ Listed(config.sets[i].schema)
           /\ Listed(QueriesOf(i))

\* The part of the invariant that holds while a set is checked.
InSet ==
    /\ queries = QueriesOf(set)
    /\ \A name \in Range(Set.rules) : NeedsPlan(name) => client = TRUE
    /\ query \in Nat \ {0}
    /\ \A i \in DOMAIN queries : i < query =>
           \A name \in Custom(set) : Checked(set, queries[i], name)

InQuery ==
    /\ query \in DOMAIN queries
    /\ rule \in Nat \ {0}
    /\ plan = PlanSeen
    /\ \A k \in DOMAIN Set.rules : k < rule /\ Set.rules[k] # DbPrepare =>
           Checked(set, queries[query], Set.rules[k])

\* Sets, queries and rules before the current ones are checked.
CheckedInv ==
    /\ document \in Documents
    /\ pc \in {"loading", "compiling", "closing on error", "ended"} \cup Between \cup Inside
    /\ pc \in {"compiling", "closing on error"} \cup Between \cup Inside =>
           Loaded /\ set \in DOMAIN config.sets
    /\ pc \in {"loading", "compiling"} => set = 1
    /\ pc \in {"compiling", "closing on error"} \cup Between \cup Inside =>
           \A s \in DOMAIN config.sets : s < set => SetChecked(s)
    /\ pc \in {"reading", "connecting"} => SetIsReady
    /\ pc = "connecting" => queries = QueriesOf(set)
    /\ pc \in {"explaining", "evaluating"} => InSet
    /\ pc = "evaluating" => InQuery
    /\ pc = "closing" => SetChecked(set)
    /\ pc = "ended" => \/ reported.error = TRUE
                      \/ \A s \in DOMAIN config.sets : SetChecked(s)

\* What was checked stays checked.
LEMMA CheckedKept ==
    ASSUME config' = config, evaluated \subseteq evaluated'
    PROVE  /\ \A s, q, name : Checked(s, q, name) => Checked(s, q, name)'
           /\ \A s : SetChecked(s) => SetChecked(s)'
           /\ Loaded => Loaded'
           /\ \A s : QueriesOf(s)' = QueriesOf(s)
           /\ \A s : Custom(s)' = Custom(s)
           /\ \A name : NeedsPlan(name)' = NeedsPlan(name)
<1>1. \A name : NeedsPlan(name)' = NeedsPlan(name)
  BY DEF NeedsPlan, RuleNamed
<1>2. \A s : Custom(s)' = Custom(s)
  BY DEF Custom
<1>3. \A s : QueriesOf(s)' = QueriesOf(s)
  BY DEF QueriesOf
<1>4. \A s, q, name : Checked(s, q, name) => Checked(s, q, name)'
  BY <1>1 DEF Checked
<1>5. \A s : SetChecked(s) => SetChecked(s)'
  BY <1>2, <1>3, <1>4 DEF SetChecked
<1>6. Loaded => Loaded'
  BY <1>3 DEF Loaded
<1> QED BY <1>1, <1>2, <1>3, <1>4, <1>5, <1>6
\* A step that ends the command with an error promises nothing.
LEMMA CheckedFails ==
    ASSUME NEW found, Fail(found), document \in Documents, document' = document
    PROVE  CheckedInv'
<1>1. pc' = "ended" /\ reported'.error = TRUE
  BY DEF Fail, GoTo
<1> QED BY <1>1 DEF CheckedInv, Between, Inside

\* A step before the queries of a set that changes only where the command is.
LEMMA CheckedGoes ==
    ASSUME CheckedInv, UNCHANGED <<document, config, offline, set, evaluated>>,
           \/ pc = "compiling" /\ pc' = "checking"
           \/ pc = "checking" /\ pc' = "reading" /\ SetIsReady
           \/ pc = "reading" /\ pc' = "connecting" /\ queries' = QueriesOf(set)
    PROVE  CheckedInv'
<1>1. evaluated \subseteq evaluated' /\ config' = config
  OBVIOUS
<1>2. SetIsReady => SetIsReady'
  BY DEF SetIsReady, Connected, Set, NeedsPlan, RuleNamed
<1>3. Loaded' /\ set' \in DOMAIN config'.sets
  BY <1>1, CheckedKept DEF CheckedInv, Between
<1>4. \A s \in DOMAIN config'.sets : s < set' => SetChecked(s)'
  BY <1>1, CheckedKept DEF CheckedInv, Between
<1>5. pc' = "connecting" => queries' = QueriesOf(set)'
  BY DEF QueriesOf
<1> QED BY <1>2, <1>3, <1>4, <1>5 DEF CheckedInv, Between, Inside

\* Every step keeps what was checked.
LEMMA CheckedNext == CheckedInv /\ [Next]_vars => CheckedInv'
<1> SUFFICES ASSUME CheckedInv, [Next]_vars PROVE CheckedInv'
  OBVIOUS
<1>0. document \in Documents
  BY DEF CheckedInv
<1>1. CASE Load
  <2>1. CASE Fail({})
    BY <1>0, <1>1, <2>1, CheckedFails DEF Load
  <2>2. CASE IsValid(document) /\ config' = Parse(document) /\ pc' = "compiling"
    <3>1. Loaded' /\ set' = 1 /\ document' = document
      BY <1>0, <1>1, <2>2, ParseFacts, ReadListed DEF Load, Loaded, QueriesOf, CheckedInv
    <3>2. DOMAIN config'.sets = 1..Len(config'.sets) /\ Len(config'.sets) \in Nat \ {0}
      BY <3>1 DEF Loaded, Listed
    <3>3. \A s \in DOMAIN config'.sets : ~(s < set')
      BY <3>1, <3>2
    <3>4. set' \in DOMAIN config'.sets /\ document' \in Documents
      BY <1>0, <3>1, <3>2
    <3> QED BY <2>2, <3>1, <3>3, <3>4 DEF CheckedInv, Between, Inside
  <2> QED BY <1>1, <2>1, <2>2 DEF Load, GoTo
<1>2. CASE CompileRules
  BY <1>0, <1>2, CheckedFails, CheckedGoes DEF CompileRules, GoTo
<1>3. CASE CheckSet
  BY <1>0, <1>3, CheckedFails, CheckedGoes DEF CheckSet, GoTo
<1>4. CASE Analyze
  <2>1. CASE Fail(failures)
    BY <1>0, <1>4, <2>1, CheckedFails DEF Analyze
  <2>2. CASE pc' = "connecting" /\ queries' = QueriesOf(set)
    BY <1>4, <2>2, CheckedGoes DEF Analyze
  <2> QED BY <1>4, <2>1, <2>2 DEF Analyze, GoTo, Set, QueriesOf
<1>5. CASE Connect
  <2>1. CASE Fail(failures)
    BY <1>0, <1>5, <2>1, CheckedFails DEF Connect
  <2>2. CASE /\ pc' = "explaining"
             /\ \A name \in Range(Set.rules) : NeedsPlan(name) /\ Connected => client' = TRUE
    <3>1. /\ pc = "connecting" /\ query' = 1
          /\ UNCHANGED <<document, config, offline, set, queries, evaluated>>
      BY <1>5 DEF Connect
    <3>2. \A name \in Range(Set.rules) : NeedsPlan(name) => client' = TRUE
      BY <2>2, <3>1 DEF CheckedInv, SetIsReady
    <3>3. Loaded' /\ set' \in DOMAIN config'.sets /\ queries' = QueriesOf(set)'
      BY <3>1, CheckedKept DEF CheckedInv, Between
    <3>4. \A s \in DOMAIN config'.sets : s < set' => SetChecked(s)'
      BY <3>1, CheckedKept DEF CheckedInv, Between
    <3>5. DOMAIN queries' = 1..Len(queries') /\ Len(queries') \in Nat
      BY <3>3 DEF Loaded, Listed
    <3>6. \A i \in DOMAIN queries' : ~(i < query')
      BY <3>1, <3>5
    <3>7. \A name \in Range(Set.rules)' : NeedsPlan(name)' => client' = TRUE
      BY <3>1, <3>2, CheckedKept DEF Set
    <3>8. InSet'
      BY <3>1, <3>3, <3>6, <3>7 DEF InSet
    <3> QED BY <1>0, <2>2, <3>1, <3>3, <3>4, <3>8 DEF CheckedInv, Between, Inside
  <2> QED BY <1>5, <2>1, <2>2 DEF Connect, GoTo
<1>6. CASE Explain
  <2>1. /\ pc = "explaining"
        /\ UNCHANGED <<document, config, offline, set, queries, client, query, evaluated>>
    BY <1>6 DEF Explain
  <2>2. /\ Loaded' /\ set' \in DOMAIN config'.sets
        /\ \A s \in DOMAIN config'.sets : s < set' => SetChecked(s)'
    BY <2>1, CheckedKept DEF CheckedInv, Inside
  <2>3. DOMAIN queries = 1..Len(queries) /\ Len(queries) \in Nat /\ InSet
    BY <2>1 DEF CheckedInv, Inside, InSet, Loaded, Listed
  <2>4. CASE query > Len(queries) /\ pc' = "closing"
    <3>1. \A i \in DOMAIN queries : i < query
      BY <2>3, <2>4 DEF InSet
    <3>2. SetChecked(set)
      BY <2>3, <3>1 DEF InSet, SetChecked, Range
    <3>3. SetChecked(set)'
      BY <2>1, <3>2, CheckedKept
    <3> QED BY <1>0, <2>1, <2>2, <2>4, <3>3 DEF CheckedInv, Between, Inside
  <2>5. CASE ~(query > Len(queries)) /\ pc' = "evaluating" /\ plan' = PlanSeen /\ rule' = 1
    <3>1. InSet'
      BY <2>1, <2>3, CheckedKept DEF InSet, Set
    <3>2. query' \in DOMAIN queries' /\ plan' = PlanSeen'
      BY <2>1, <2>3, <2>5 DEF InSet, PlanSeen
    <3>3. DOMAIN Set'.rules = 1..Len(Set'.rules)
      BY <2>2 DEF Loaded, Listed, Set
    <3>4. \A k \in DOMAIN Set'.rules : ~(k < rule')
      BY <2>5, <3>3
    <3>5. InQuery'
      BY <2>5, <3>2, <3>4 DEF InQuery
    <3> QED BY <1>0, <2>1, <2>2, <2>5, <3>1, <3>5 DEF CheckedInv, Between, Inside
  <2>6. CASE pc' = "closing on error"
    BY <1>0, <2>1, <2>2, <2>6 DEF CheckedInv, Between, Inside
  <2> QED BY <1>6, <2>4, <2>5, <2>6 DEF Explain, EndQueries, GoTo
<1>7. CASE Evaluate
  <2>1. /\ pc = "evaluating" /\ evaluated \subseteq evaluated'
        /\ UNCHANGED <<document, config, offline, set, queries, client>>
    BY <1>7 DEF Evaluate
  <2>2. /\ Loaded' /\ set' \in DOMAIN config'.sets
        /\ \A s \in DOMAIN config'.sets : s < set' => SetChecked(s)'
    BY <2>1, CheckedKept DEF CheckedInv, Inside
  <2>3. InSet /\ InQuery
    BY <2>1 DEF CheckedInv
  <2>4. /\ DOMAIN Set.rules = 1..Len(Set.rules) /\ Len(Set.rules) \in Nat
        /\ Set' = Set /\ rule \in Nat \ {0} /\ query \in Nat \ {0}
    BY <2>1, <2>3 DEF CheckedInv, Inside, Loaded, Listed, Set, InQuery, InSet
  <2>5. query' = query => InSet'
    BY <2>1, <2>3, <2>4, CheckedKept DEF InSet
  <2>6. CASE rule > Len(Set.rules) /\ query' = query + 1 /\ pc' = "explaining"
    <3>1. \A k \in DOMAIN Set.rules : k < rule
      BY <2>4, <2>6
    <3>2. \A name \in Custom(set) : Checked(set, queries[query], name)
      BY <2>3, <3>1 DEF InQuery, Custom, Set, Range
    <3>3. \A i \in DOMAIN queries : i < query + 1 => i < query \/ i = query
      <4>1. DOMAIN queries = 1..Len(queries) /\ Len(queries) \in Nat
        BY <2>1, <2>3 DEF CheckedInv, Inside, InSet, Loaded, Listed
      <4> QED BY <2>4, <4>1
    <3>4. \A i \in DOMAIN queries : i < query + 1 =>
             \A name \in Custom(set) : Checked(set, queries[i], name)
      BY <2>3, <3>2, <3>3 DEF InSet
    <3>5. InSet'
      BY <2>1, <2>3, <2>4, <2>6, <3>4, CheckedKept DEF InSet
    <3> QED BY <1>0, <2>1, <2>2, <2>6, <3>5 DEF CheckedInv, Between, Inside
  <2>7. CASE /\ ~(rule > Len(Set.rules)) /\ query' = query /\ rule' = rule + 1
             /\ pc' = "evaluating" /\ plan' = plan
             /\ \A q, name : q = queries[query] /\ name = Selected /\ name # DbPrepare =>
                    Checked(set, q, name)'
    <3>1. \A k \in DOMAIN Set.rules : k < rule + 1 => k < rule \/ k = rule
      BY <2>4
    <3>2. \A k \in DOMAIN Set.rules : k < rule + 1 /\ Set.rules[k] # DbPrepare =>
             \A q, name : q = queries[query] /\ name = Set.rules[k] => Checked(set, q, name)'
      <4> SUFFICES ASSUME NEW k \in DOMAIN Set.rules, k < rule + 1, Set.rules[k] # DbPrepare,
                          NEW q, NEW name, q = queries[query], name = Set.rules[k]
                   PROVE  Checked(set, q, name)'
        OBVIOUS
      <4>1. CASE k < rule
        <5>1. Checked(set, q, name)
          BY <2>3, <4>1 DEF InQuery
        <5>2. \A s : Checked(s, q, name) => Checked(s, q, name)'
          BY <2>1, CheckedKept
        <5> QED BY <2>1, <5>1, <5>2
      <4>2. CASE k = rule
        BY <2>7, <4>2 DEF Selected
      <4> QED BY <3>1, <4>1, <4>2
    <3>3. plan' = PlanSeen' /\ query' \in DOMAIN queries'
      BY <2>1, <2>3, <2>7 DEF InQuery, PlanSeen
    <3>4. InQuery'
      BY <2>1, <2>4, <2>7, <3>2, <3>3 DEF InQuery
    <3> QED BY <1>0, <2>1, <2>2, <2>5, <2>7, <3>4 DEF CheckedInv, Between, Inside
  <2>8. CASE pc' = "closing on error"
    BY <1>0, <2>1, <2>2, <2>8 DEF CheckedInv, Between, Inside
  <2>9. ASSUME NEW value, evaluated' = evaluated \cup {Evaluation(value)},
               ~(rule > Len(Set.rules))
        PROVE  \A q, name : q = queries[query] /\ name = Selected => Checked(set, q, name)'
    <3> SUFFICES ASSUME NEW q, NEW name, q = queries[query], name = Selected
                 PROVE  Checked(set, q, name)'
      OBVIOUS
    <3> DEFINE e == Evaluation(value)
    <3>1. Selected \in Range(Set.rules)
      BY <2>4, <2>9 DEF Selected, Range
    <3>2. NeedsPlan(Selected) => plan = queries[query]
      BY <2>3, <3>1 DEF InSet, InQuery, PlanSeen
    <3>3. e.set = set /\ e.query = q /\ e.rule = name /\ e.plan = plan
      BY DEF Evaluation
    <3>4. e \in evaluated' /\ (NeedsPlan(name)' <=> NeedsPlan(name))
      BY <2>1, <2>9, CheckedKept
    <3> HIDE DEF e
    <3> QED BY <2>1, <3>2, <3>3, <3>4 DEF Checked
  <2>10. CASE rule > Len(Set.rules) \/ Selected = DbPrepare
    BY <1>7, <2>6, <2>7, <2>10 DEF Evaluate, NextQuery, SkipPrepare, NextRule, GoTo
  <2>11. CASE ~(rule > Len(Set.rules)) /\ Selected # DbPrepare
    <3>1. PICK value \in {"match", "clean", "error"} :
            /\ evaluated' = evaluated \cup {Evaluation(value)}
            /\ \/ /\ pc' = "evaluating" /\ rule' = rule + 1
                  /\ query' = query /\ plan' = plan
               \/ pc' = "closing on error"
      BY <1>7, <2>1, <2>11 DEF Evaluate, NextRule, EndQueries, GoTo
    <3> QED BY <2>7, <2>8, <2>9, <2>11, <3>1
  <2> QED BY <2>10, <2>11
<1>8. CASE CloseSet
  <2>1. CASE Fail(failures \cup setFailures)
    BY <1>0, <1>8, <2>1, CheckedFails DEF CloseSet
  <2>2. CASE pc = "closing" /\ ~Fail(failures \cup setFailures)
    <3>1. UNCHANGED <<document, config, offline, evaluated>>
      BY <1>8 DEF CloseSet
    <3>2. Loaded' /\ DOMAIN config'.sets = 1..Len(config'.sets) /\ Len(config'.sets) \in Nat
      BY <2>2, <3>1, CheckedKept DEF CheckedInv, Inside, Loaded, Listed
    <3>3. \A s \in DOMAIN config'.sets : s <= set => SetChecked(s)'
      BY <2>2, <3>1, <3>2, CheckedKept DEF CheckedInv, Inside
    <3>4. set \in 1..Len(config'.sets)
      BY <2>2, <3>1, <3>2 DEF CheckedInv, Inside
    <3>5. CASE set < Len(config.sets) /\ set' = set + 1 /\ pc' = "checking"
      <4>1. set' \in DOMAIN config'.sets /\ \A s \in DOMAIN config'.sets : s < set' => s <= set
        BY <3>1, <3>2, <3>4, <3>5
      <4> QED BY <1>0, <3>1, <3>2, <3>3, <3>5, <4>1 DEF CheckedInv, Between, Inside
    <3>6. CASE ~(set < Len(config.sets)) /\ pc' = "ended"
      <4>1. \A s \in DOMAIN config'.sets : s <= set
        BY <3>1, <3>2, <3>4, <3>6
      <4> QED BY <1>0, <3>1, <3>3, <3>6, <4>1 DEF CheckedInv, Between, Inside
    <3> QED BY <1>8, <2>2, <3>5, <3>6 DEF CloseSet, GoTo
  <2> QED BY <1>8, <2>1, <2>2 DEF CloseSet
<1>9. CASE UNCHANGED vars
  <2>1. /\ UNCHANGED <<document, config, offline, set, queries, client, query, rule, plan, pc>>
        /\ UNCHANGED <<evaluated, reported>>
    BY <1>9 DEF vars
  <2>2. InSet => InSet'
    BY <2>1, CheckedKept DEF InSet, Set
  <2>3. InQuery => InQuery'
    BY <2>1, CheckedKept DEF InQuery, Set, PlanSeen
  <2>4. SetIsReady => SetIsReady'
    BY <2>1 DEF SetIsReady, Connected, Set, NeedsPlan, RuleNamed
  <2> QED BY <2>1, <2>2, <2>3, <2>4, CheckedKept DEF CheckedInv
<1> QED BY <1>1, <1>2, <1>3, <1>4, <1>5, <1>6, <1>7, <1>8, <1>9 DEF Next

\* For every configuration and every outcome, a vet that reports nothing has
\* evaluated every selected rule on every query of every set, and rules about
\* plans on the plan of that query.
THEOREM SuccessMeansChecked == Spec => []VerdictIsComplete
<1>1. Init => FindingsInv /\ CheckedInv
  BY DEF Init, FindingsInv, AreFound, Failing, CheckedInv, Between, Inside
<1>2. FindingsInv /\ CheckedInv => VerdictIsComplete
  <2> SUFFICES ASSUME FindingsInv, CheckedInv, pc = "ended", ~reported.error,
                      reported.findings = {}, NEW s \in DOMAIN config.sets,
                      NEW q \in Range(QueriesOf(s)), NEW name \in Custom(s)
               PROVE  \E e \in evaluated :
                          /\ e.set = s /\ e.query = q /\ e.rule = name
                          /\ e.value = "clean"
                          /\ NeedsPlan(name) => e.plan = q
    BY DEF VerdictIsComplete, QueriesOf, Custom
  <2>1. \A e \in evaluated : e.value = "clean"
    BY DEF FindingsInv, AreFound, Failing
  <2>2. Checked(s, q, name)
    BY DEF CheckedInv, SetChecked
  <2> QED BY <2>1, <2>2 DEF Checked
<1> QED BY <1>1, <1>2, FindingsNext, CheckedNext, PTL DEF Spec

-----------------------------------------------------------------------------
(***************************************************************************)
(* The schema of a query set.                                               *)
(***************************************************************************)

\* From the analysis of a set to the end of its queries, the schemas are those
\* that Read returned for it.
SchemasInv ==
    pc \in {"connecting", "explaining", "evaluating"} /\ Set.schema # <<>> =>
        schemas = Read(Set.schema, TRUE) /\ schemas # Refused

\* Every step keeps the schemas of the set.
LEMMA SchemasNext == SchemasInv /\ [Next]_vars => SchemasInv'
<1> SUFFICES ASSUME SchemasInv, [Next]_vars PROVE SchemasInv'
  OBVIOUS
<1>1. CASE Load
  BY <1>1 DEF Load, Fail, GoTo, SchemasInv
<1>2. CASE CompileRules
  BY <1>2 DEF CompileRules, Fail, GoTo, SchemasInv
<1>3. CASE CheckSet
  BY <1>3 DEF CheckSet, Fail, GoTo, SchemasInv
<1>4. CASE Analyze
  <2>1. CASE Fail(failures)
    BY <2>1 DEF Fail, GoTo, SchemasInv
  <2>2. CASE ~Fail(failures)
    <3>1. Set.schema # <<>> => schemas' = Read(Set.schema, TRUE) /\ schemas' # Refused
      BY <1>4, <2>2 DEF Analyze
    <3>2. Set' = Set
      BY <1>4 DEF Analyze, Set
    <3> QED BY <3>1, <3>2 DEF SchemasInv
  <2> QED BY <2>1, <2>2
<1>5. CASE Connect
  <2>1. pc = "connecting" /\ UNCHANGED <<schemas, config, set>>
    BY <1>5 DEF Connect
  <2> QED BY <2>1 DEF SchemasInv, Set
<1>6. CASE Explain
  <2>1. pc = "explaining" /\ UNCHANGED <<schemas, config, set>>
    BY <1>6 DEF Explain
  <2> QED BY <2>1 DEF SchemasInv, Set
<1>7. CASE Evaluate
  <2>1. pc = "evaluating" /\ UNCHANGED <<schemas, config, set>>
    BY <1>7 DEF Evaluate
  <2> QED BY <2>1 DEF SchemasInv, Set
<1>8. CASE CloseSet
  BY <1>8 DEF CloseSet, Fail, GoTo, SchemasInv
<1>9. CASE UNCHANGED vars
  BY <1>9 DEF vars, SchemasInv, Set
<1> QED BY <1>1, <1>2, <1>3, <1>4, <1>5, <1>6, <1>7, <1>8, <1>9 DEF Next

\* What Read returns is the forward part of the files that the patterns name,
\* each once, in the order of the patterns and paths.
LEMMA ReadIsForward ==
    ASSUME SchemasInv, CheckedInv, pc = "explaining", Set.schema # <<>>
    PROVE  SchemasAreForward
<1> DEFINE patterns == Set.schema
           found == Found(patterns)
           names == {schemas[i].name : i \in DOMAIN schemas}
<1>1. Listed(patterns)
  BY DEF CheckedInv, Inside, Loaded, Set
<1>2. DOMAIN patterns = 1..Len(patterns) /\ Len(patterns) \in Nat
  BY <1>1 DEF Listed
<1>3. schemas = Read(patterns, TRUE) /\ schemas # Refused
  BY DEF SchemasInv
<1>4. /\ Existing(patterns)
      /\ DOMAIN schemas = DOMAIN found
      /\ \A n \in DOMAIN found :
             /\ schemas[n].name = found[n]
             /\ IsForward(schemas[n].text, Tree[found[n]].text)
  <2> HIDE DEF patterns
  <2>1. DOMAIN patterns \subseteq Nat
    BY <1>2
  <2> QED BY <1>3, <2>1, ReadFacts
<1>5. /\ \A n \in DOMAIN found : \E f \in DOMAIN patterns : found[n] \in NamedBy(patterns[f])
      /\ \A f \in DOMAIN patterns : \A file \in NamedBy(patterns[f]) :
             \E n \in DOMAIN found : found[n] = file
      /\ \A m, n \in DOMAIN found : m < n =>
             /\ found[m] # found[n]
             /\ \E f \in DOMAIN patterns :
                    /\ found[m] \in NamedBy(patterns[f])
                    /\ \A e \in 1..f :
                           e \in DOMAIN patterns /\ found[n] \in NamedBy(patterns[e])
                           => e = f /\ Precedes(found[m], found[n])
  BY <1>4, FoundFacts
<1> HIDE DEF found
<1>6. names = UNION {NamedBy(patterns[f]) : f \in DOMAIN patterns}
  <2>1. ASSUME NEW x \in names
        PROVE  x \in UNION {NamedBy(patterns[f]) : f \in DOMAIN patterns}
    BY <1>4, <1>5
  <2>2. ASSUME NEW x \in UNION {NamedBy(patterns[f]) : f \in DOMAIN patterns}
        PROVE  x \in names
    <3>1. PICK f \in DOMAIN patterns : x \in NamedBy(patterns[f])
      OBVIOUS
    <3>2. PICK n \in DOMAIN found : found[n] = x
      BY <1>5, <3>1
    <3> QED BY <1>4, <3>2
  <2> HIDE DEF names
  <2> QED BY <2>1, <2>2
<1>7. \A i \in DOMAIN schemas : IsForward(schemas[i].text, Tree[schemas[i].name].text)
  BY <1>4
<1>8. ASSUME NEW i \in DOMAIN schemas, NEW j \in DOMAIN schemas, i < j
      PROVE  /\ schemas[i].name # schemas[j].name
             /\ \E f \in DOMAIN patterns :
                    /\ schemas[i].name \in NamedBy(patterns[f])
                    /\ \A e \in 1..f : schemas[j].name \in NamedBy(patterns[e]) =>
                           e = f /\ Precedes(schemas[i].name, schemas[j].name)
  <2>1. schemas[i].name = found[i] /\ schemas[j].name = found[j]
    BY <1>4
  <2>2. PICK f \in DOMAIN patterns :
            /\ found[i] \in NamedBy(patterns[f])
            /\ \A e \in 1..f :
                   e \in DOMAIN patterns /\ found[j] \in NamedBy(patterns[e])
                   => e = f /\ Precedes(found[i], found[j])
    BY <1>4, <1>5, <1>8
  <2>3. \A e \in 1..f : e \in DOMAIN patterns
    BY <1>2
  <2>4. found[i] # found[j]
    BY <1>4, <1>5, <1>8
  <2> HIDE DEF patterns
  <2> QED BY <2>1, <2>2, <2>3, <2>4
<1> QED BY <1>6, <1>7, <1>8 DEF SchemasAreForward

\* For every file tree and configuration, the schema of a query set is the
\* forward part of every file its patterns name, each once and in order.
THEOREM SchemaIsForward == Spec => []SchemasAreForward
<1>1. Init => CheckedInv /\ SchemasInv
  BY DEF Init, CheckedInv, Between, Inside, SchemasInv
<1>2. CheckedInv /\ SchemasInv => SchemasAreForward
  BY ReadIsForward DEF SchemasAreForward
<1> QED BY <1>1, <1>2, CheckedNext, SchemasNext, PTL DEF Spec

-----------------------------------------------------------------------------
(***************************************************************************)
(* The file that init writes.                                               *)
(***************************************************************************)

\* The names of runtimes are proper ones.
LEMMA RuntimesFacts ==
    ASSUME NEW language \in Languages
    PROVE  /\ "" \notin Range(Runtimes[language].names)
           /\ "native" \notin Range(Runtimes[language].names)
           /\ Unsupported \notin Range(Runtimes[language].names)
           /\ "ydb" \in Range(Runtimes["go"].names) /\ "ydb" \in Range(Runtimes["python"].names)
           /\ "go" \in Languages /\ "python" \in Languages
           /\ \A runtime : ResolveRuntime(language, runtime) # Unsupported =>
                  ResolveRuntime(language, runtime) \in Range(Runtimes[language].names)
           /\ \A runtime \in Range(Runtimes[language].names) :
                  ResolveRuntime(language, runtime) = runtime
<1>1. DOMAIN Runtimes = {"go", "python", "cpp", "csharp", "java", "kotlin", "typescript",
                         "rust", "php"}
  BY DEF Runtimes
<1>0. language \in {"go", "python", "cpp", "csharp", "java", "kotlin", "typescript",
                   "rust", "php"}
  BY <1>1 DEF Languages
<1>2. /\ Runtimes["go"].names = <<"database/sql", "ydb">> /\ Runtimes["go"].native = FALSE
      /\ Runtimes["python"].names = <<"ydb", "dbapi", "sqlalchemy">>
      /\ Runtimes["cpp"].names = <<"ydb", "userver">>
      /\ Runtimes["csharp"].names = <<"adonet", "dapper">> /\ Runtimes["csharp"].native = FALSE
      /\ Runtimes["java"].names = <<"ydb", "jdbc", "jooq">>
      /\ Runtimes["kotlin"].names = <<"ydb", "jdbc", "exposed">>
      /\ Runtimes["typescript"].names = <<"ydb">>
      /\ Runtimes["rust"].names = <<"ydb">>
      /\ Runtimes["php"].names = <<"ydb">>
  BY DEF Runtimes
<1>3. /\ Range(<<"database/sql", "ydb">>) = {"database/sql", "ydb"}
      /\ Range(<<"ydb", "dbapi", "sqlalchemy">>) = {"ydb", "dbapi", "sqlalchemy"}
      /\ Range(<<"ydb", "userver">>) = {"ydb", "userver"}
      /\ Range(<<"adonet", "dapper">>) = {"adonet", "dapper"}
      /\ Range(<<"ydb", "jdbc", "jooq">>) = {"ydb", "jdbc", "jooq"}
      /\ Range(<<"ydb", "jdbc", "exposed">>) = {"ydb", "jdbc", "exposed"}
      /\ Range(<<"ydb">>) = {"ydb"}
  BY DEF Range
<1> DEFINE names == Range(Runtimes[language].names)
<1> DEFINE known == {"database/sql", "ydb", "dbapi", "sqlalchemy", "userver", "adonet", "dapper",
                     "jdbc", "jooq", "exposed"}
<1>10. Runtimes[language].names \in
           {<<"database/sql", "ydb">>, <<"ydb", "dbapi", "sqlalchemy">>, <<"ydb", "userver">>,
            <<"adonet", "dapper">>, <<"ydb", "jdbc", "jooq">>, <<"ydb", "jdbc", "exposed">>,
            <<"ydb">>}
  BY <1>0, <1>2
<1>11. names \subseteq known
  BY <1>3, <1>10
<1>4. "" \notin names /\ "native" \notin names /\ Unsupported \notin names
  BY <1>11 DEF Unsupported
<1>5. Head(Runtimes[language].names) \in names
  <2>1. 1 \in DOMAIN Runtimes[language].names
    BY <1>10
  <2>2. Head(Runtimes[language].names) = Runtimes[language].names[1]
    BY <1>10
  <2> QED BY <2>1, <2>2 DEF Range
<1>6. Runtimes[language].native = TRUE => "ydb" \in names
  BY <1>0, <1>2, <1>3
<1>7. Runtimes[language].native \in BOOLEAN
  <2>1. /\ Runtimes["go"].native = FALSE /\ Runtimes["python"].native = FALSE
        /\ Runtimes["cpp"].native = TRUE /\ Runtimes["csharp"].native = FALSE
        /\ Runtimes["java"].native = TRUE /\ Runtimes["kotlin"].native = TRUE
        /\ Runtimes["typescript"].native = FALSE /\ Runtimes["rust"].native = FALSE
        /\ Runtimes["php"].native = FALSE
    BY DEF Runtimes
  <2> QED BY <1>0, <2>1
<1>8. /\ "go" \in Languages /\ "python" \in Languages
      /\ "ydb" \in Range(Runtimes["go"].names) /\ "ydb" \in Range(Runtimes["python"].names)
  BY <1>1, <1>2, <1>3 DEF Languages
<1>9. ASSUME NEW runtime
      PROVE  /\ ResolveRuntime(language, runtime) \in names \cup {Unsupported}
             /\ runtime \in names => ResolveRuntime(language, runtime) = runtime
  BY <1>4, <1>5, <1>6, <1>7 DEF ResolveRuntime
<1> QED BY <1>4, <1>8, <1>9

\* A profile that init may write: Go puts its package into "db".
IsProfile(p) ==
    /\ p.language \in Languages
    /\ p.runtime \in Range(Runtimes[p.language].names)
    /\ p.out \in {"db", "queries"}
    /\ p.language = "go" => p.out = "db"

LEMMA ListedKeys ==
    ASSUME NEW language \in Languages
    PROVE  /\ "out" \notin DOMAIN ListedOptions(language)
           /\ RuntimeKey(language) \notin DOMAIN ListedOptions(language)
           /\ RuntimeKey(language) # "out"
<1>1. RuntimeKey(language) \in {"sql_package", "runtime"}
  BY DEF RuntimeKey
<1>2. "out" \notin DOMAIN ListedOptions(language) /\ "sql_package" \notin DOMAIN ListedOptions(language)
      /\ "runtime" \notin DOMAIN ListedOptions(language)
  BY DEF ListedOptions
<1> QED BY <1>1, <1>2

\* With the output directory of a profile, the defaults are the values listed.
LEMMA ListedAreDefaults ==
    ASSUME NEW language \in Languages, NEW options,
           language = "go" => Given(options, "out", "") = "db"
    PROVE  Defaults(language, options) = ListedOptions(language)
BY DEF Defaults, ListedOptions

MinimalOptions(language, options) ==
    [key \in {"out", RuntimeKey(language)} |-> options[key]]

\* What Parse makes of a profile's options, all of them or the least.
LEMMA WrittenFacts ==
    ASSUME NEW p, IsProfile(p)
    PROVE  LET written == WrittenOptions(p)
           IN  /\ OptionsAreValid(p.language, written)
               /\ Filled(p.language, MinimalOptions(p.language, written)) =
                      Filled(p.language, written)
<1> DEFINE language == p.language
           key == RuntimeKey(language)
           listed == ListedOptions(language)
           written == WrittenOptions(p)
           least == MinimalOptions(language, written)
<1>1. /\ language \in Languages
      /\ "out" \notin DOMAIN listed /\ key \notin DOMAIN listed /\ key # "out"
  BY ListedKeys DEF IsProfile
<1>2. /\ DOMAIN written = DOMAIN listed \cup {"out", key}
      /\ written["out"] = p.out /\ written[key] = p.runtime
      /\ \A k \in DOMAIN listed : written[k] = listed[k]
  BY <1>1 DEF WrittenOptions, Keys
<1>3. /\ DOMAIN least = {"out", key}
      /\ least["out"] = p.out /\ least[key] = p.runtime
  BY <1>2 DEF MinimalOptions
<1> HIDE DEF language, key, written, least, listed
<1>4. /\ Given(written, "out", "") = p.out /\ Given(least, "out", "") = p.out
      /\ Given(written, key, "") = p.runtime /\ Given(least, key, "") = p.runtime
  BY <1>2, <1>3 DEF Given
<1>5. language = "go" => p.out = "db"
  BY DEF IsProfile, language
<1>6. Defaults(language, written) = listed /\ Defaults(language, least) = listed
  BY <1>1, <1>4, <1>5, ListedAreDefaults DEF listed
<1>7. ResolveRuntime(language, p.runtime) = p.runtime /\ p.runtime # Unsupported
  BY <1>1, RuntimesFacts DEF IsProfile, language
<1>8. Runtime(language, written) = p.runtime /\ Runtime(language, least) = p.runtime
  BY <1>4, <1>7 DEF Runtime, key
<1> DEFINE filled == [k \in DOMAIN listed \cup {"out", key} |->
                         IF k = key THEN p.runtime ELSE IF k = "out" THEN p.out ELSE listed[k]]
<1>9. Filled(language, written) = filled
  <2>1. \A k \in DOMAIN listed \cup {"out", key} : k # key =>
            Given(written, k, listed[k]) = (IF k = "out" THEN p.out ELSE listed[k])
    BY <1>1, <1>2 DEF Given
  <2>2. DOMAIN written \cup DOMAIN listed \cup {key} = DOMAIN listed \cup {"out", key}
    BY <1>2
  <2>3. Filled(language, written) =
            [k \in DOMAIN written \cup DOMAIN listed \cup {key} |->
                IF k = key THEN p.runtime ELSE Given(written, k, listed[k])]
    BY <1>6, <1>8 DEF Filled, key
  <2> QED BY <2>1, <2>2, <2>3
<1>10. Filled(language, least) = filled
  <2>1. \A k \in DOMAIN listed \cup {"out", key} : k # key =>
            Given(least, k, listed[k]) = (IF k = "out" THEN p.out ELSE listed[k])
    BY <1>1, <1>3 DEF Given
  <2>2. DOMAIN least \cup DOMAIN listed \cup {key} = DOMAIN listed \cup {"out", key}
    BY <1>3
  <2>3. Filled(language, least) =
            [k \in DOMAIN least \cup DOMAIN listed \cup {key} |->
                IF k = key THEN p.runtime ELSE Given(least, k, listed[k])]
    BY <1>6, <1>8 DEF Filled, key
  <2> QED BY <2>1, <2>2, <2>3
<1>11. OptionsAreValid(language, written)
  <2>1. DOMAIN written \subseteq Keys(language)
    BY <1>2 DEF Keys, listed, key
  <2>2. Given(written, "out", "") # ""
    BY <1>4 DEF IsProfile
  <2>3. \A k \in DOMAIN listed : filled[k] = listed[k]
    BY <1>1
  <2> HIDE DEF filled
  <2>4. ASSUME language = "go"
        PROVE  /\ filled.json_tags_case_style \in {"none", "camel", "pascal", "snake"}
               /\ filled.build_tags # "malformed"
               /\ filled.query_parameter_limit >= 0
               /\ \A i \in DOMAIN filled.overrides : OverrideIsValid(filled.overrides[i])
    <3>1. /\ listed.json_tags_case_style = "none" /\ listed.build_tags = ""
          /\ listed.query_parameter_limit = 1 /\ listed.overrides = <<>>
          /\ {"json_tags_case_style", "build_tags", "query_parameter_limit", "overrides"}
                 \subseteq DOMAIN listed
      BY <2>4 DEF listed, ListedOptions
    <3>2. /\ filled.json_tags_case_style = "none" /\ filled.build_tags = ""
          /\ filled.query_parameter_limit = 1 /\ filled.overrides = <<>>
      BY <2>3, <3>1
    <3>3. filled.build_tags # "malformed"
      BY <3>2
    <3>4. filled.query_parameter_limit >= 0
      <4>1. filled.query_parameter_limit = 1
        BY <3>2
      <4> QED BY <4>1
    <3>5. DOMAIN filled.overrides = {}
      <4>1. DOMAIN <<>> = {}
        OBVIOUS
      <4> QED BY <3>2, <4>1, Zenon
    <3> QED BY <3>2, <3>3, <3>4, <3>5
  <2>5. ASSUME language = "python"
        PROVE  filled.emit_sync_querier \/ filled.emit_async_querier
    <3>1. listed.emit_sync_querier = TRUE /\ "emit_sync_querier" \in DOMAIN listed
      BY <2>5 DEF listed, ListedOptions
    <3> QED BY <2>3, <3>1
  <2> QED BY <1>7, <1>8, <1>9, <2>1, <2>2, <2>4, <2>5 DEF OptionsAreValid
<1>12. /\ OptionsAreValid(language, written)
       /\ Filled(language, least) = Filled(language, written)
  BY <1>9, <1>10, <1>11
<1> QED BY <1>12 DEF language, written, least

\* The profiles that init selects are ones it may write.
LEMMA ProfilesFacts ==
    ASSUME NEW asked \in Asked, NEW p \in InitProfiles(asked[1], asked[2])
    PROVE  IsProfile(p)
<1> DEFINE language == asked[1]
           runtime == asked[2]
<1>0. "go" \in Languages /\ "python" \in Languages
  BY DEF Languages, Runtimes
<1>1. CASE language = ""
  <2>1. \/ p = [language |-> "go", runtime |-> "ydb", out |-> "db"]
        \/ p = [language |-> "python", runtime |-> "ydb", out |-> "queries"]
    BY <1>1 DEF InitProfiles
  <2>2. "ydb" \in Range(Runtimes["go"].names) /\ "ydb" \in Range(Runtimes["python"].names)
    BY <1>0, RuntimesFacts
  <2>3. CASE p = [language |-> "go", runtime |-> "ydb", out |-> "db"]
    BY <1>0, <2>2, <2>3 DEF IsProfile
  <2>4. CASE p = [language |-> "python", runtime |-> "ydb", out |-> "queries"]
    BY <1>0, <2>2, <2>4 DEF IsProfile
  <2> QED BY <2>1, <2>3, <2>4
<1>2. CASE language # ""
  <2>1. /\ language \in Languages /\ ResolveRuntime(language, runtime) # Unsupported
        /\ p = [language |-> language, runtime |-> ResolveRuntime(language, runtime), out |-> "db"]
    BY <1>2 DEF InitProfiles
  <2>2. ResolveRuntime(language, runtime) \in Range(Runtimes[language].names)
    BY <2>1, RuntimesFacts
  <2> QED BY <2>1, <2>2 DEF IsProfile
<1> QED BY <1>1, <1>2

Gen(profiles) ==
    [language \in {p.language : p \in profiles} |->
        WrittenOptions(CHOOSE p \in profiles : p.language = language)]

\* A file with the options of such profiles is valid, and Parse makes the same
\* of it without the defaults.
LEMMA StarterFacts ==
    ASSUME NEW profiles, \A p \in profiles : IsProfile(p)
    PROVE  /\ IsValid(InitYAML(profiles))
           /\ Parse(Minimal(InitYAML(profiles))) = Parse(InitYAML(profiles))
<1> DEFINE gen == Gen(profiles)
           least == [language \in DOMAIN gen |-> MinimalOptions(language, gen[language])]
           filled == [language \in DOMAIN gen |-> Filled(language, gen[language])]
           only == [engine |-> "ydb", schema |-> <<SchemaSQL>>, queries |-> <<QuerySQL>>,
                    rules |-> <<>>, database |-> {}, connected |-> {}, functions |-> <<>>,
                    parameters |-> <<>>, codegen |-> FALSE, gen |-> gen]
           starter == [version |-> "2", plugins |-> FALSE, rules |-> <<>>, sets |-> <<only>>]
<1>1. InitYAML(profiles) = starter
  BY DEF InitYAML, Gen
<1>2. ASSUME NEW language \in DOMAIN gen
      PROVE  /\ language \in Languages
             /\ OptionsAreValid(language, gen[language])
             /\ Filled(language, MinimalOptions(language, gen[language])) =
                    Filled(language, gen[language])
  <2> DEFINE p == CHOOSE p \in profiles : p.language = language
  <2>1. p \in profiles /\ p.language = language
    BY DEF Gen
  <2>2. gen[language] = WrittenOptions(p)
    BY DEF Gen
  <2> HIDE DEF p, gen
  <2>3. IsProfile(p)
    BY <2>1
  <2>4. /\ OptionsAreValid(p.language, WrittenOptions(p))
        /\ Filled(p.language, MinimalOptions(p.language, WrittenOptions(p))) =
               Filled(p.language, WrittenOptions(p))
    BY <2>3, WrittenFacts
  <2> QED BY <2>1, <2>2, <2>3, <2>4 DEF IsProfile
<1> HIDE DEF gen
<1>3. SetIsValid(only, {DbPrepare})
  <2>1. Range(<<>>) = {} /\ IsInjective(<<>>) /\ DOMAIN <<>> = {}
    BY DEF Range, IsInjective
  <2>2. /\ only.rules = <<>> /\ only.codegen = FALSE /\ only.engine = "ydb"
        /\ only.queries # <<>> /\ only.schema # <<>> /\ only.database = {} /\ only.connected = {}
        /\ only.functions = <<>> /\ only.parameters = <<>> /\ only.gen = gen
    OBVIOUS
  <2> HIDE DEF only
  <2>3. ~DatabaseEnabled(only)
    BY <2>2 DEF DatabaseEnabled
  <2>4. ParametersAreValid(only.parameters)
    BY <2>1, <2>2 DEF ParametersAreValid
  <2>5. \A i \in DOMAIN only.functions : FunctionIsValid(only.functions[i])
    BY <2>1, <2>2
  <2>6. \A language \in DOMAIN only.gen :
            language \in Languages /\ OptionsAreValid(language, only.gen[language])
    BY <1>2, <2>2
  <2>7. Range(only.rules) \subseteq {DbPrepare} /\ IsInjective(only.rules)
    BY <2>1, <2>2
  <2> QED BY <2>2, <2>3, <2>4, <2>5, <2>6, <2>7 DEF SetIsValid
<1>4. IsValid(starter)
  <2> DEFINE names == [i \in DOMAIN starter.rules |-> starter.rules[i].name]
  <2>1. /\ starter.plugins = FALSE /\ starter.version = "2" /\ starter.rules = <<>>
        /\ starter.sets = <<only>>
    OBVIOUS
  <2>2. DOMAIN starter.rules = {}
    <3>1. DOMAIN <<>> = {}
      OBVIOUS
    <3> QED BY <2>1, <3>1
  <2> HIDE DEF starter, only
  <2>3. DOMAIN names = {}
    BY <2>2
  <2>4. Range(names) \cup {DbPrepare} = {DbPrepare} /\ IsInjective(names)
    BY <2>3 DEF Range, IsInjective
  <2>5. starter.sets # <<>> /\ \A i \in DOMAIN starter.sets : starter.sets[i] = only
    BY <2>1
  <2>6. \A i \in DOMAIN starter.sets : SetIsValid(starter.sets[i], Range(names) \cup {DbPrepare})
    BY <1>3, <2>4, <2>5
  <2>7. /\ \A i \in DOMAIN names : names[i] \notin {"", DbPrepare}
        /\ \A i \in DOMAIN starter.rules : starter.rules[i].expression # "blank"
    BY <2>2, <2>3
  <2> HIDE DEF names
  <2>8. IsValid(starter) <=>
            /\ ~starter.plugins /\ starter.version = "2" /\ starter.sets # <<>>
            /\ \A i \in DOMAIN names : names[i] \notin {"", DbPrepare}
            /\ IsInjective(names)
            /\ \A i \in DOMAIN starter.rules : starter.rules[i].expression # "blank"
            /\ \A i \in DOMAIN starter.sets :
                   SetIsValid(starter.sets[i], Range(names) \cup {DbPrepare})
    BY DEF IsValid, names
  <2> QED BY <2>1, <2>4, <2>5, <2>6, <2>7, <2>8
<1>5. Minimal(starter) = [starter EXCEPT !.sets = <<[only EXCEPT !.gen = least]>>]
  <2>1. starter.sets[1].gen = gen
    OBVIOUS
  <2>2. Minimal(starter) = [starter EXCEPT !.sets[1].gen = least]
    BY <2>1 DEF Minimal, MinimalOptions
  <2>3. starter.sets = <<only>>
    OBVIOUS
  <2>4. [<<only>> EXCEPT ![1] = [only EXCEPT !.gen = least]] = <<[only EXCEPT !.gen = least]>>
    <3> HIDE DEF only, least
    <3> QED OBVIOUS
  <2> HIDE DEF starter, only, least
  <2> QED BY <2>2, <2>3, <2>4
<1>6. \A g : Parse([starter EXCEPT !.sets = <<[only EXCEPT !.gen = g]>>]) =
                 [starter EXCEPT !.sets = <<[only EXCEPT !.gen =
                     [language \in DOMAIN g |-> Filled(language, g[language])]]>>]
  <2> SUFFICES ASSUME NEW g
               PROVE  Parse([starter EXCEPT !.sets = <<[only EXCEPT !.gen = g]>>]) =
                          [starter EXCEPT !.sets = <<[only EXCEPT !.gen =
                              [language \in DOMAIN g |-> Filled(language, g[language])]]>>]
    OBVIOUS
  <2> DEFINE one == [only EXCEPT !.gen = g]
             file == [starter EXCEPT !.sets = <<one>>]
             parsed == [language \in DOMAIN g |-> Filled(language, g[language])]
  <2>1. "gen" \in DOMAIN only /\ "sets" \in DOMAIN starter
    OBVIOUS
  <2> HIDE DEF only, starter
  <2>2. one.gen = g /\ [one EXCEPT !.gen = parsed] = [only EXCEPT !.gen = parsed]
    BY <2>1
  <2> HIDE DEF one
  <2>3. file.sets = <<one>>
    BY <2>1
  <2>4. \A x : [file EXCEPT !.sets = x] = [starter EXCEPT !.sets = x]
    BY <2>1
  <2> HIDE DEF file
  <2>5. ParseSet(one) = [one EXCEPT !.gen = parsed]
    BY <2>2 DEF ParseSet
  <2> DEFINE sets == [i \in DOMAIN file.sets |-> ParseSet(file.sets[i])]
  <2>8. sets = <<ParseSet(one)>>
    <3>1. DOMAIN <<one>> = 1..1 /\ <<one>>[1] = one
      OBVIOUS
    <3>2. DOMAIN sets = 1..1 /\ sets[1] = ParseSet(one)
      BY <2>3, <3>1
    <3>3. sets = [i \in 1..1 |-> sets[i]]
      BY <3>2
    <3> HIDE DEF sets
    <3> QED BY <3>2, <3>3
  <2>6. Parse(file) = [file EXCEPT !.sets = <<[one EXCEPT !.gen = parsed]>>]
    BY <2>5, <2>8 DEF Parse
  <2>7. Parse(file) = [starter EXCEPT !.sets = <<[only EXCEPT !.gen = parsed]>>]
    BY <2>2, <2>4, <2>6
  <2> QED BY <2>7 DEF file, one
<1>7. starter = [starter EXCEPT !.sets = <<[only EXCEPT !.gen = gen]>>]
  <2>1. [only EXCEPT !.gen = gen] = only
    <3>1. only.gen = gen /\ "gen" \in DOMAIN only /\ only = [k \in DOMAIN only |-> only[k]]
      OBVIOUS
    <3> HIDE DEF only
    <3> QED BY <3>1
  <2>2. starter.sets = <<only>> /\ "sets" \in DOMAIN starter
        /\ starter = [k \in DOMAIN starter |-> starter[k]]
    OBVIOUS
  <2> HIDE DEF starter, only
  <2>3. [starter EXCEPT !.sets = <<only>>] = starter
    BY <2>2
  <2> QED BY <2>1, <2>3
<1>8. [language \in DOMAIN least |-> Filled(language, least[language])] = filled
  <2>1. DOMAIN least = DOMAIN gen
    OBVIOUS
  <2>2. \A language \in DOMAIN gen : Filled(language, least[language]) =
                                         Filled(language, gen[language])
    BY <1>2
  <2> HIDE DEF least
  <2> QED BY <2>1, <2>2
<1> HIDE DEF starter, only, least
<1>9. Parse(starter) = [starter EXCEPT !.sets = <<[only EXCEPT !.gen = filled]>>]
  <2>1. Parse([starter EXCEPT !.sets = <<[only EXCEPT !.gen = gen]>>]) =
            [starter EXCEPT !.sets = <<[only EXCEPT !.gen =
                [language \in DOMAIN gen |-> Filled(language, gen[language])]]>>]
    BY <1>6
  <2> HIDE DEF filled
  <2> QED BY <1>7, <2>1 DEF filled
<1>10. Parse(Minimal(starter)) = [starter EXCEPT !.sets = <<[only EXCEPT !.gen = filled]>>]
  <2>1. Parse([starter EXCEPT !.sets = <<[only EXCEPT !.gen = least]>>]) =
            [starter EXCEPT !.sets = <<[only EXCEPT !.gen =
                [language \in DOMAIN least |-> Filled(language, least[language])]]>>]
    BY <1>6
  <2> HIDE DEF filled
  <2> QED BY <1>5, <1>8, <2>1
<1> QED BY <1>1, <1>4, <1>9, <1>10

\* Past loading, the configuration is what Parse makes of a valid file.
ConfigInv == pc # "loading" => config = Parse(document) \/ ~IsValid(document)

\* Every step keeps the configuration.
LEMMA ConfigNext == ConfigInv /\ [Next]_vars => ConfigInv'
<1> SUFFICES ASSUME ConfigInv, [Next]_vars PROVE ConfigInv'
  OBVIOUS
<1>1. CASE Load
  BY <1>1 DEF Load, ConfigInv
<1>2. CASE ~Load
  <2>1. (pc # "loading" /\ UNCHANGED <<document, config>>) \/ UNCHANGED vars
    BY <1>2 DEF Next, CompileRules, CheckSet, Analyze, Connect, Explain, Evaluate, CloseSet
  <2> QED BY <2>1 DEF ConfigInv, vars
<1> QED BY <1>1, <1>2

\* For every language and runtime that init accepts, what it writes is valid and
\* means what its minimum means: the defaults that init lists are Parse's.
THEOREM StartersMeanTheirMinimum == Spec => []StartersAgree
<1>1. Init => ConfigInv
  BY DEF Init, ConfigInv
<1>2. ConfigInv => StartersAgree
  <2> SUFFICES ASSUME ConfigInv, NEW asked \in Asked, document = Starter(asked), pc # "loading"
               PROVE  config = Parse(Minimal(document))
    BY DEF StartersAgree
  <2>1. \A p \in InitProfiles(asked[1], asked[2]) : IsProfile(p)
    BY ProfilesFacts
  <2>2. IsValid(document) /\ Parse(Minimal(document)) = Parse(document)
    BY <2>1, StarterFacts DEF Starter
  <2> QED BY <2>2 DEF ConfigInv
<1> QED BY <1>1, <1>2, ConfigNext, PTL DEF Spec
=============================================================================
