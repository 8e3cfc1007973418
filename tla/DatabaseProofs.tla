--------------------------- MODULE DatabaseProofs ---------------------------
(***************************************************************************)
(* Proofs about a connected analysis, for every input, every schema of the  *)
(* server and every length of a response: no failed request is lost, what   *)
(* succeeds has been checked against what the server reported, and a server *)
(* that answers and does not change gets the verdict it should.             *)
(***************************************************************************)
EXTENDS DatabaseAnalysis, SequenceTheorems, FiniteSetTheorems, TLAPS

Parts == {"success", "error", "metadata"}

\* The rest of the response makes explainQuery return an error.
Doomed ==
    /\ stream # Idle
    /\ \/ stream = <<>> /\ received = FALSE
       \/ \E i \in DOMAIN stream : stream[i] # "success"

Pending ==
    /\ stream = Idle \/ stream \in Seq(Parts)
    /\ stream # Idle => phase \in {"validating", "analyzing"}
    /\ received \in BOOLEAN

\* A failure is on record, or about to be.
Recorded ==
    /\ diagnosed \in BOOLEAN
    /\ phase = "starting" => ~faulty
    /\ faulty => diagnosed = TRUE \/ Doomed
    /\ phase = "ok" => diagnosed = FALSE

ErrorInv == Pending /\ Recorded

LEMMA PartsAreNotIdle ==
    ASSUME NEW s \in Seq(Parts)
    PROVE  s # Idle
<1>1. \A i \in 1 .. Len(s) : s[i] \in Parts
  BY ElementOfSeq
<1> SUFFICES ASSUME s = Idle PROVE FALSE
  OBVIOUS
<1>2. Len(s) = 1 /\ s[1] = "idle"
  BY DEF Idle
<1> QED BY <1>1, <1>2 DEF Parts

\* What the server may answer is a sequence of parts, and a broken response
\* is one that explainQuery reports.
LEMMA StreamShapes ==
    /\ \A n \in Nat : Successes(n) \in Seq(Parts)
    /\ \A s \in BrokenStreams :
          /\ s \in Seq(Parts)
          /\ s = <<>> \/ \E i \in DOMAIN s : s[i] # "success"
<1>1. ASSUME NEW n \in Nat
      PROVE  /\ Successes(n) \in Seq(Parts)
             /\ Len(Successes(n)) = n
  BY DEF Successes, Parts
<1>2. ASSUME NEW n \in 0 .. MaxParts - 1, NEW part \in {"error", "metadata"}
      PROVE  /\ Append(Successes(n), part) \in Seq(Parts)
             /\ \E i \in DOMAIN Append(Successes(n), part) :
                    Append(Successes(n), part)[i] # "success"
  <2>1. n \in Nat /\ part \in Parts /\ part # "success"
    BY DatabaseAssumption DEF Parts
  <2>2. /\ Append(Successes(n), part) \in Seq(Parts)
        /\ Len(Append(Successes(n), part)) = n + 1
        /\ Append(Successes(n), part)[n + 1] = part
    BY <1>1, <2>1, AppendProperties
  <2>3. n + 1 \in DOMAIN Append(Successes(n), part)
    BY <2>1, <2>2
  <2> QED BY <2>1, <2>2, <2>3
<1>3. <<>> \in Seq(Parts)
  OBVIOUS
<1>4. ASSUME NEW s \in BrokenStreams
      PROVE  /\ s \in Seq(Parts)
             /\ s = <<>> \/ \E i \in DOMAIN s : s[i] # "success"
  <2>1. CASE s = <<>>
    BY <2>1, <1>3
  <2>2. CASE s # <<>>
    <3>1. PICK n \in 0 .. MaxParts - 1, part \in {"error", "metadata"} :
              s = Append(Successes(n), part)
      BY <2>2 DEF BrokenStreams
    <3> QED BY <3>1, <1>2
  <2> QED BY <2>1, <2>2
<1> QED BY <1>1, <1>4

LEMMA ErrorInvInit == Init => ErrorInv
BY DEF Init, ErrorInv, Pending, Recorded

\* Sending a query leaves a stream that is doomed if it counts as faulty.
LEMMA ExplainStep ==
    ASSUME NEW name, NEW uses, NEW expands,
           ErrorInv, stream = Idle, phase \in {"validating", "analyzing"},
           Explain(name, uses, expands)
    PROVE  ErrorInv'
<1>1. phase' = phase /\ diagnosed' = diagnosed /\ received' = FALSE
  BY DEF Explain
<1>2. faulty => diagnosed = TRUE
  BY DEF ErrorInv, Recorded, Doomed
<1>3. stream' \in Seq(Parts) /\ (faulty' => faulty \/ Doomed')
  <2>1. CASE \E n \in 1 .. MaxParts : stream' = Successes(n) /\ UNCHANGED faulty
    BY <2>1, StreamShapes, DatabaseAssumption
  <2>2. CASE stream' = <<"error">> /\ UNCHANGED faulty
    <3>1. <<"error">> \in Seq(Parts)
      BY DEF Parts
    <3> QED BY <2>2, <3>1
  <2>3. CASE stream' \in BrokenStreams
    <3>1. stream' \in Seq(Parts)
      BY <2>3, StreamShapes
    <3>2. stream' = <<>> \/ \E i \in DOMAIN stream' : stream'[i] # "success"
      BY <2>3, StreamShapes
    <3> QED BY <3>1, <3>2, <1>1, PartsAreNotIdle DEF Doomed
  <2> QED BY <2>1, <2>2, <2>3 DEF Explain
<1> QED BY <1>1, <1>2, <1>3 DEF ErrorInv, Pending, Recorded

\* The end of a response: what was doomed is diagnosed.
LEMMA ExplainEndsStep ==
    ASSUME NEW success \in BOOLEAN, ErrorInv, stream # Idle,
           ExplainEnds(success),
           success => ~Doomed /\ faulty' = faulty
    PROVE  ErrorInv'
<1>1. /\ stream' = Idle /\ received' = FALSE /\ phase' = phase
      /\ diagnosed' = IF success THEN diagnosed ELSE TRUE
  BY DEF ExplainEnds, Diagnose
<1>2. phase \in {"validating", "analyzing"}
  BY DEF ErrorInv, Pending
<1>3. (faulty' => diagnosed' = TRUE) /\ diagnosed' \in BOOLEAN
  <2>1. CASE success = TRUE
    <3>1. (faulty => diagnosed = TRUE) /\ diagnosed \in BOOLEAN
      BY <2>1 DEF ErrorInv, Recorded
    <3>2. diagnosed' = diagnosed /\ faulty' = faulty
      BY <2>1, <1>1
    <3> QED BY <3>1, <3>2, Zenon
  <2>2. CASE success = FALSE
    BY <2>2, <1>1
  <2> QED BY <2>1, <2>2
<1> QED BY <1>1, <1>2, <1>3 DEF ErrorInv, Pending, Recorded

\* Success parts do not make up for what is wrong further on in a response.
LEMMA ReceiveKeepsDoomed ==
    ASSUME ErrorInv, Receive, Head(stream) = "success", Doomed
    PROVE  Doomed'
<1>1. stream \in Seq(Parts) /\ stream # <<>>
  BY DEF Receive, ErrorInv, Pending
<1>2. received' = TRUE /\ stream' = Tail(stream)
  BY DEF Receive
<1>3. /\ Tail(stream) \in Seq(Parts) /\ Len(Tail(stream)) = Len(stream) - 1
      /\ \A i \in 1 .. Len(Tail(stream)) : Tail(stream)[i] = stream[i + 1]
  BY <1>1, HeadTailProperties
<1>4. PICK i \in DOMAIN stream : stream[i] # "success"
  BY <1>1 DEF Doomed
<1>5. Head(stream) = stream[1] /\ i \in 1 .. Len(stream) /\ Len(stream) \in Nat
  BY <1>1
<1>6. i # 1
  BY <1>4, <1>5
<1>7. i - 1 \in 1 .. Len(Tail(stream)) /\ (i - 1) + 1 = i
  BY <1>3, <1>5, <1>6
<1>8. Tail(stream)[i - 1] = stream[i] /\ i - 1 \in DOMAIN Tail(stream)
  BY <1>3, <1>7
<1> QED BY <1>2, <1>3, <1>4, <1>8, PartsAreNotIdle DEF Doomed

LEMMA ErrorInvStep == ErrorInv /\ [Next]_vars => ErrorInv'
<1> SUFFICES ASSUME ErrorInv, [Next]_vars
             PROVE  ErrorInv'
  OBVIOUS
<1>1. CASE Prepare
  <2>1. /\ stream' = stream /\ received' = received /\ faulty' = faulty
        /\ phase' \in {"closing", "validating", "analyzing"}
        /\ diagnosed' \in BOOLEAN /\ phase = "starting"
    BY <1>1 DEF Prepare, Enter, Diagnose, history
  <2> QED BY <2>1 DEF ErrorInv, Pending, Recorded
<1>2. CASE OpenFails
  BY <1>2 DEF OpenFails, Enter, Diagnose, ErrorInv, Pending, Recorded
<1>3. CASE Validate
  <2>1. stream = Idle /\ phase \in {"validating", "analyzing"}
    BY <1>3 DEF Validate
  <2>2. CASE Explain(blocks[at].Name, blocks[at].Uses, blocks[at].Expands)
    BY <2>1, <2>2, ExplainStep
  <2>3. CASE /\ UNCHANGED <<phase, stream, received, history>>
             /\ diagnosed' \in {diagnosed, TRUE}
    BY <2>1, <2>3 DEF history, ErrorInv, Pending, Recorded, Doomed
  <2> QED BY <1>3, <2>2, <2>3 DEF Validate, Diagnose
<1>4. CASE ValidateEnd
  <2>1. /\ phase' \in {"closing", "describing"} /\ stream = Idle
        /\ UNCHANGED <<stream, received, history>>
        /\ diagnosed' \in {diagnosed, TRUE}
    BY <1>4 DEF ValidateEnd, Diagnose, Enter
  <2> QED BY <2>1 DEF history, ErrorInv, Pending, Recorded, Doomed
<1>5. CASE Receive
  <2>1. /\ stream \in Seq(Parts) /\ stream # <<>> /\ stream # Idle
    BY <1>5 DEF Receive, ErrorInv, Pending
  <2>2. CASE Head(stream) = "success"
    <3>1. /\ received' = TRUE /\ stream' = Tail(stream)
          /\ UNCHANGED <<phase, diagnosed, faulty>>
      BY <1>5, <2>2 DEF Receive, history
    <3>2. Tail(stream) \in Seq(Parts)
      BY <2>1, HeadTailProperties
    <3>3. phase \in {"validating", "analyzing"}
      BY <2>1 DEF ErrorInv, Pending
    <3>4. Doomed => Doomed'
      BY <1>5, <2>2, ReceiveKeepsDoomed
    <3> QED BY <3>1, <3>2, <3>3, <3>4 DEF ErrorInv, Pending, Recorded
  <2>3. CASE Head(stream) # "success"
    <3>1. ExplainEnds(FALSE)
      BY <1>5, <2>3 DEF Receive
    <3> QED BY <2>1, <3>1, ExplainEndsStep
  <2> QED BY <2>2, <2>3
<1>6. CASE ReceiveEOF
  <2>1. stream = <<>> /\ stream # Idle /\ ExplainEnds(received) /\ faulty' = faulty
    BY <1>6 DEF ReceiveEOF, Idle
  <2>2. received \in BOOLEAN /\ (received => ~Doomed)
    BY <2>1 DEF ErrorInv, Pending, Doomed
  <2> QED BY <2>1, <2>2, ExplainEndsStep
<1>7. CASE ReceiveFails
  BY <1>7, ExplainEndsStep DEF ReceiveFails
<1>8. CASE Describe
  <2>1. /\ phase' = phase /\ phase = "describing"
        /\ UNCHANGED <<stream, received, faulty>>
        /\ diagnosed' = TRUE \/ diagnosed' = diagnosed
           \/ (diagnosed' \in BOOLEAN /\ (diagnosed = TRUE => diagnosed' = TRUE))
    <3> DEFINE name == references[at]
               same == compareDatabaseTable(Find(catalog, name),
                           decodeTable(name, server[name]))
    <3>1. /\ phase' = phase /\ phase = "describing"
          /\ UNCHANGED <<stream, received, faulty>>
          /\ \/ diagnosed' = TRUE
             \/ diagnosed' = diagnosed
             \/ diagnosed' = (diagnosed \/ ~same)
      BY <1>8, Zenon DEF Describe, Diagnose
    <3> HIDE DEF same
    <3> QED BY <3>1 DEF ErrorInv, Recorded
  <2> QED BY <2>1 DEF ErrorInv, Pending, Recorded, Doomed
<1>9. CASE DescribeFails
  BY <1>9 DEF DescribeFails, Diagnose, ErrorInv, Pending, Recorded
<1>10. CASE DescribeEnd
  BY <1>10 DEF DescribeEnd, Enter, history, ErrorInv, Pending, Recorded, Doomed
<1>11. CASE Analyze
  <2>1. stream = Idle /\ phase \in {"validating", "analyzing"}
    BY <1>11 DEF Analyze
  <2>2. CASE Explain(blocks[at].Name, ExpandedUses(blocks[at]), {})
    BY <2>1, <2>2, ExplainStep
  <2>3. CASE /\ UNCHANGED <<phase, stream, received, history>>
             /\ diagnosed' \in {diagnosed, TRUE}
    BY <2>1, <2>3 DEF history, ErrorInv, Pending, Recorded, Doomed
  <2> QED BY <1>11, <2>2, <2>3 DEF Analyze, Diagnose
<1>12. CASE AnalyzeEnd
  BY <1>12 DEF AnalyzeEnd, Enter, history, ErrorInv, Pending, Recorded, Doomed
<1>13. CASE Close
  <2>1. /\ phase = "closing" /\ UNCHANGED <<stream, received, diagnosed, faulty>>
        /\ phase' = IF diagnosed THEN "failed" ELSE "ok"
    BY <1>13 DEF Close, Enter, history
  <2> QED BY <2>1 DEF ErrorInv, Pending, Recorded, Doomed
<1>14. CASE CloseFails
  BY <1>14 DEF CloseFails, Enter, Diagnose, ErrorInv, Pending, Recorded
<1>15. CASE Migrate
  <2>1. UNCHANGED <<phase, stream, received, diagnosed, faulty>>
    BY <1>15 DEF Migrate
  <2> QED BY <2>1 DEF ErrorInv, Pending, Recorded, Doomed
<1>16. CASE UNCHANGED vars
  BY <1>16 DEF vars, history, ErrorInv, Pending, Recorded, Doomed
<1> QED BY <1>1, <1>2, <1>3, <1>4, <1>5, <1>6, <1>7, <1>8, <1>9, <1>10, <1>11,
           <1>12, <1>13, <1>14, <1>15, <1>16 DEF Next, Step

\* No failed request is lost: an analysis during which the connection could
\* not be opened or closed, a response broke off, was empty or carried what
\* it must not, or a description failed, never succeeds.
THEOREM FailuresSurface == Spec => []ErrorsSurface
<1>1. ErrorInv => ErrorsSurface
  BY DEF ErrorInv, Pending, Recorded, Doomed, ErrorsSurface
<1> QED BY <1>1, ErrorInvInit, ErrorInvStep, PTL DEF Spec

-----------------------------------------------------------------------------
(***************************************************************************)
(* Tables: a comparison that succeeds means the same columns, key and       *)
(* indexes.                                                                 *)
(***************************************************************************)

\* A search by a name that occurs finds an element of that name.
LEMMA FindFacts ==
    ASSUME NEW seq, NEW name \in Names(seq)
    PROVE  \E i \in DOMAIN seq :
               Find(seq, name) = seq[i] /\ seq[i].Name = name
BY DEF Find, Names

\* Among distinct names it finds the only one.
LEMMA FindUnique ==
    ASSUME NEW seq, NamesDistinct(seq), NEW i \in DOMAIN seq
    PROVE  Find(seq, seq[i].Name) = seq[i]
<1>1. seq[i].Name \in Names(seq)
  BY DEF Names
<1>2. PICK j \in DOMAIN seq :
          Find(seq, seq[i].Name) = seq[j] /\ seq[j].Name = seq[i].Name
  BY <1>1, FindFacts
<1> QED BY <1>2 DEF NamesDistinct

\* A list has finitely many positions of an element, none if it lacks it.
LEMMA OccurrencesFinite ==
    ASSUME NEW s, IsList(s), NEW x
    PROVE  /\ IsFiniteSet(Occurrences(s, x))
           /\ Cardinality(Occurrences(s, x)) = 0 <=> x \notin Range(s)
<1>1. Len(s) \in Nat /\ DOMAIN s = 1 .. Len(s)
  BY LenProperties DEF IsList
<1>2. IsFiniteSet(1 .. Len(s))
  BY <1>1, FS_Interval
<1>3. IsFiniteSet(Occurrences(s, x))
  BY <1>1, <1>2, FS_Subset DEF Occurrences
<1>4. Occurrences(s, x) = {} <=> x \notin Range(s)
  BY DEF Occurrences, Range
<1> QED BY <1>3, <1>4, FS_EmptySet

\* Equal after sorting means that the same elements occur.
LEMMA SameSortedRange ==
    ASSUME NEW s, IsList(s), NEW t, IsList(t), SameSorted(s, t)
    PROVE  Range(s) = Range(t)
<1>1. ASSUME NEW x \in Range(s) \cup Range(t)
      PROVE  x \in Range(s) /\ x \in Range(t)
  <2>1. Cardinality(Occurrences(s, x)) = Cardinality(Occurrences(t, x))
    BY DEF SameSorted
  <2>2. /\ Cardinality(Occurrences(s, x)) = 0 <=> x \notin Range(s)
        /\ Cardinality(Occurrences(t, x)) = 0 <=> x \notin Range(t)
    BY OccurrencesFinite
  <2> QED BY <2>1, <2>2
<1> QED BY <1>1

\* The columns and indexes of a decoded description are those it lists.
LEMMA DecodedTable ==
    ASSUME NEW name, NEW d
    PROVE  LET remote == decodeTable(name, d)
           IN  /\ remote.Name = name
               /\ DOMAIN remote.Columns = DOMAIN d.Columns
               /\ \A i \in DOMAIN d.Columns :
                     /\ remote.Columns[i].Name = d.Columns[i].Name
                     /\ remote.Columns[i].Type = d.Columns[i].Type
                     /\ remote.Columns[i].SequenceGenerated
                            = (d.Columns[i].Default = "sequence")
               /\ remote.PrimaryKey = d.PrimaryKey
               /\ remote.Indexes = d.Indexes
               /\ Names(remote.Columns) = Names(d.Columns)
               /\ NamesDistinct(d.Columns) => NamesDistinct(remote.Columns)
BY DEF decodeTable, Names, NamesDistinct

\* What compareDatabaseTable accepts is the table that the server described.
LEMMA ComparedIsEquivalent ==
    ASSUME NEW table, HasLists(table), NEW d, HasLists(d), Decodes(d),
           NEW name, compareDatabaseTable(table, decodeTable(name, d))
    PROVE  Equivalent(table, d)
<1> DEFINE remote == decodeTable(name, d)
<1>1. /\ DOMAIN remote.Columns = DOMAIN d.Columns
      /\ \A i \in DOMAIN d.Columns :
            /\ remote.Columns[i].Name = d.Columns[i].Name
            /\ remote.Columns[i].Type = d.Columns[i].Type
            /\ remote.Columns[i].SequenceGenerated
                   = (d.Columns[i].Default = "sequence")
      /\ remote.PrimaryKey = d.PrimaryKey
      /\ remote.Indexes = d.Indexes
      /\ Names(remote.Columns) = Names(d.Columns)
      /\ NamesDistinct(remote.Columns)
  BY DecodedTable DEF Decodes
<1>2. compareDatabaseTable(table, remote)
  OBVIOUS
<1> HIDE DEF remote
<1>3. ASSUME NEW i \in DOMAIN table.Columns
      PROVE  \E k \in DOMAIN d.Columns :
                 /\ d.Columns[k].Name = table.Columns[i].Name
                 /\ d.Columns[k].Type = table.Columns[i].Type
                 /\ (d.Columns[k].Default = "sequence")
                        = table.Columns[i].SequenceGenerated
  <2> DEFINE other == Find(remote.Columns, table.Columns[i].Name)
  <2>1. /\ table.Columns[i].Name \in Names(remote.Columns)
        /\ table.Columns[i].Type = other.Type
        /\ table.Columns[i].SequenceGenerated = other.SequenceGenerated
    BY <1>2 DEF compareDatabaseTable
  <2>2. PICK k \in DOMAIN remote.Columns :
            /\ other = remote.Columns[k]
            /\ remote.Columns[k].Name = table.Columns[i].Name
    BY <2>1, FindFacts
  <2> HIDE DEF other
  <2> QED BY <1>1, <2>1, <2>2
<1>4. ASSUME NEW k \in DOMAIN d.Columns
      PROVE  \E i \in DOMAIN table.Columns :
                 /\ d.Columns[k].Name = table.Columns[i].Name
                 /\ d.Columns[k].Type = table.Columns[i].Type
                 /\ (d.Columns[k].Default = "sequence")
                        = table.Columns[i].SequenceGenerated
  <2>1. d.Columns[k].Name \in Names(table.Columns)
    BY <1>1, <1>2 DEF compareDatabaseTable, Names
  <2>2. PICK i \in DOMAIN table.Columns :
            table.Columns[i].Name = d.Columns[k].Name
    BY <2>1 DEF Names
  <2>3. PICK l \in DOMAIN d.Columns :
            /\ d.Columns[l].Name = table.Columns[i].Name
            /\ d.Columns[l].Type = table.Columns[i].Type
            /\ (d.Columns[l].Default = "sequence")
                   = table.Columns[i].SequenceGenerated
    BY <1>3
  <2>4. l = k
    BY <2>2, <2>3 DEF Decodes, NamesDistinct
  <2> QED BY <2>2, <2>3, <2>4
<1>5. ASSUME NEW i \in DOMAIN table.Indexes
      PROVE  \E k \in DOMAIN d.Indexes :
                 /\ d.Indexes[k].Name = table.Indexes[i].Name
                 /\ d.Indexes[k].Kind = table.Indexes[i].Kind
                 /\ d.Indexes[k].Columns = table.Indexes[i].Columns
                 /\ Range(d.Indexes[k].DataColumns)
                        = Range(table.Indexes[i].DataColumns)
  <2> DEFINE other == Find(d.Indexes, table.Indexes[i].Name)
  <2>1. /\ table.Indexes[i].Name \in Names(d.Indexes)
        /\ table.Indexes[i].Kind = other.Kind
        /\ table.Indexes[i].Columns = other.Columns
        /\ SameSorted(table.Indexes[i].DataColumns, other.DataColumns)
    BY <1>1, <1>2 DEF compareDatabaseTable
  <2>2. PICK k \in DOMAIN d.Indexes :
            other = d.Indexes[k] /\ d.Indexes[k].Name = table.Indexes[i].Name
    BY <2>1, FindFacts
  <2> HIDE DEF other
  <2>3. /\ IsList(table.Indexes[i].DataColumns)
        /\ IsList(d.Indexes[k].DataColumns)
    BY DEF HasLists
  <2>4. Range(table.Indexes[i].DataColumns) = Range(d.Indexes[k].DataColumns)
    BY <2>1, <2>2, <2>3, SameSortedRange
  <2> QED BY <2>1, <2>2, <2>4
<1>6. ASSUME NEW k \in DOMAIN d.Indexes
      PROVE  \E i \in DOMAIN table.Indexes :
                 /\ d.Indexes[k].Name = table.Indexes[i].Name
                 /\ d.Indexes[k].Kind = table.Indexes[i].Kind
                 /\ d.Indexes[k].Columns = table.Indexes[i].Columns
                 /\ Range(d.Indexes[k].DataColumns)
                        = Range(table.Indexes[i].DataColumns)
  <2>1. d.Indexes[k].Name \in Names(table.Indexes)
    BY <1>1, <1>2 DEF compareDatabaseTable, Names
  <2>2. PICK i \in DOMAIN table.Indexes :
            table.Indexes[i].Name = d.Indexes[k].Name
    BY <2>1 DEF Names
  <2>3. PICK l \in DOMAIN d.Indexes :
            /\ d.Indexes[l].Name = table.Indexes[i].Name
            /\ d.Indexes[l].Kind = table.Indexes[i].Kind
            /\ d.Indexes[l].Columns = table.Indexes[i].Columns
            /\ Range(d.Indexes[l].DataColumns)
                   = Range(table.Indexes[i].DataColumns)
    BY <1>5
  <2>4. l = k
    BY <2>2, <2>3 DEF Decodes, NamesDistinct
  <2> QED BY <2>2, <2>3, <2>4
<1>7. {<<c.Name, c.Type, c.SequenceGenerated>> : c \in Range(table.Columns)}
          = {<<c.Name, c.Type, c.Default = "sequence">> : c \in Range(d.Columns)}
  <2>1. /\ \A x : x \in Range(table.Columns) <=>
               \E i \in DOMAIN table.Columns : x = table.Columns[i]
        /\ \A x : x \in Range(d.Columns) <=>
               \E k \in DOMAIN d.Columns : x = d.Columns[k]
    BY DEF Range
  <2>2. ASSUME NEW c \in Range(table.Columns)
        PROVE  \E e \in Range(d.Columns) :
                   <<c.Name, c.Type, c.SequenceGenerated>>
                       = <<e.Name, e.Type, e.Default = "sequence">>
    BY <1>3, <2>1
  <2>3. ASSUME NEW e \in Range(d.Columns)
        PROVE  \E c \in Range(table.Columns) :
                   <<c.Name, c.Type, c.SequenceGenerated>>
                       = <<e.Name, e.Type, e.Default = "sequence">>
    BY <1>4, <2>1
  <2> QED BY <2>2, <2>3
<1>8. {<<x.Name, x.Kind, x.Columns, Range(x.DataColumns)>> :
            x \in Range(table.Indexes)}
          = {<<x.Name, x.Kind, x.Columns, Range(x.DataColumns)>> :
                 x \in Range(d.Indexes)}
  <2>1. /\ \A x : x \in Range(table.Indexes) <=>
               \E i \in DOMAIN table.Indexes : x = table.Indexes[i]
        /\ \A x : x \in Range(d.Indexes) <=>
               \E k \in DOMAIN d.Indexes : x = d.Indexes[k]
    BY DEF Range
  <2>2. ASSUME NEW x \in Range(table.Indexes)
        PROVE  \E y \in Range(d.Indexes) :
                   <<x.Name, x.Kind, x.Columns, Range(x.DataColumns)>>
                       = <<y.Name, y.Kind, y.Columns, Range(y.DataColumns)>>
    BY <1>5, <2>1
  <2>3. ASSUME NEW y \in Range(d.Indexes)
        PROVE  \E x \in Range(table.Indexes) :
                   <<x.Name, x.Kind, x.Columns, Range(x.DataColumns)>>
                       = <<y.Name, y.Kind, y.Columns, Range(y.DataColumns)>>
    BY <1>6, <2>1
  <2> QED BY <2>2, <2>3
<1>9. table.PrimaryKey = d.PrimaryKey
  BY <1>1, <1>2 DEF compareDatabaseTable
<1> QED BY <1>7, <1>8, <1>9 DEF Equivalent

\* A list has one position of an element that it contains once.
LEMMA OccursOnce ==
    ASSUME NEW s, IsInjective(s), NEW x \in Range(s)
    PROVE  Cardinality(Occurrences(s, x)) = 1
<1>1. PICK i \in DOMAIN s : s[i] = x
  BY DEF Range
<1>2. Occurrences(s, x) = {i}
  BY <1>1 DEF Occurrences, IsInjective
<1> QED BY <1>2, FS_Singleton

\* compareDatabaseTable accepts the table that the server described.
LEMMA EquivalentIsCompared ==
    ASSUME NEW table, NamesDistinct(table.Columns), NamesDistinct(table.Indexes),
           \A i \in DOMAIN table.Indexes : IsInjective(table.Indexes[i].DataColumns),
           NEW d, Decodes(d), Equivalent(table, d), NEW name
    PROVE  compareDatabaseTable(table, decodeTable(name, d))
<1> DEFINE remote == decodeTable(name, d)
<1>1. /\ DOMAIN remote.Columns = DOMAIN d.Columns
      /\ \A i \in DOMAIN d.Columns :
            /\ remote.Columns[i].Name = d.Columns[i].Name
            /\ remote.Columns[i].Type = d.Columns[i].Type
            /\ remote.Columns[i].SequenceGenerated
                   = (d.Columns[i].Default = "sequence")
      /\ remote.PrimaryKey = d.PrimaryKey
      /\ remote.Indexes = d.Indexes
      /\ NamesDistinct(remote.Columns)
  BY DecodedTable DEF Decodes
<1> HIDE DEF remote
<1> DEFINE L == {<<c.Name, c.Type, c.SequenceGenerated>> : c \in Range(table.Columns)}
           R == {<<c.Name, c.Type, c.Default = "sequence">> : c \in Range(d.Columns)}
           X(s) == {<<x.Name, x.Kind, x.Columns, Range(x.DataColumns)>> : x \in Range(s)}
<1>2. L = R /\ X(table.Indexes) = X(d.Indexes) /\ table.PrimaryKey = d.PrimaryKey
  BY DEF Equivalent
<1>3. ASSUME NEW i \in DOMAIN table.Columns
      PROVE  \E k \in DOMAIN remote.Columns :
                 /\ remote.Columns[k].Name = table.Columns[i].Name
                 /\ remote.Columns[k].Type = table.Columns[i].Type
                 /\ remote.Columns[k].SequenceGenerated
                        = table.Columns[i].SequenceGenerated
  <2> DEFINE c == table.Columns[i]
  <2>1. <<c.Name, c.Type, c.SequenceGenerated>> \in L
    BY DEF Range
  <2>2. PICK e \in Range(d.Columns) :
            <<c.Name, c.Type, c.SequenceGenerated>>
                = <<e.Name, e.Type, e.Default = "sequence">>
    BY <1>2, <2>1
  <2>3. PICK k \in DOMAIN d.Columns : e = d.Columns[k]
    BY DEF Range
  <2> QED BY <1>1, <2>2, <2>3
<1>4. ASSUME NEW k \in DOMAIN remote.Columns
      PROVE  remote.Columns[k].Name \in Names(table.Columns)
  <2> DEFINE e == d.Columns[k]
  <2>1. <<e.Name, e.Type, e.Default = "sequence">> \in R
    BY <1>1 DEF Range
  <2>2. PICK c \in Range(table.Columns) :
            <<c.Name, c.Type, c.SequenceGenerated>>
                = <<e.Name, e.Type, e.Default = "sequence">>
    BY <1>2, <2>1
  <2> QED BY <1>1, <2>2 DEF Range, Names
<1>5. ASSUME NEW i \in DOMAIN table.Indexes
      PROVE  \E k \in DOMAIN d.Indexes :
                 /\ d.Indexes[k].Name = table.Indexes[i].Name
                 /\ d.Indexes[k].Kind = table.Indexes[i].Kind
                 /\ d.Indexes[k].Columns = table.Indexes[i].Columns
                 /\ SameSorted(table.Indexes[i].DataColumns, d.Indexes[k].DataColumns)
  <2> DEFINE x == table.Indexes[i]
  <2>1. <<x.Name, x.Kind, x.Columns, Range(x.DataColumns)>> \in X(table.Indexes)
    BY DEF Range
  <2>2. PICK y \in Range(d.Indexes) :
            <<x.Name, x.Kind, x.Columns, Range(x.DataColumns)>>
                = <<y.Name, y.Kind, y.Columns, Range(y.DataColumns)>>
    BY <1>2, <2>1
  <2>3. PICK k \in DOMAIN d.Indexes : y = d.Indexes[k]
    BY DEF Range
  <2>4. IsInjective(x.DataColumns) /\ IsInjective(y.DataColumns)
    BY <2>3 DEF Decodes, DecodesIndex
  <2>5. Range(x.DataColumns) = Range(y.DataColumns)
    BY <2>2
  <2>6. SameSorted(x.DataColumns, y.DataColumns)
    <3> DEFINE s == x.DataColumns
               t == y.DataColumns
    <3>1. ASSUME NEW e \in Range(s) \cup Range(t)
          PROVE  Cardinality(Occurrences(s, e)) = Cardinality(Occurrences(t, e))
      <4> HIDE DEF s, t
      <4>1. IsInjective(s) /\ IsInjective(t) /\ e \in Range(s) /\ e \in Range(t)
        BY <2>4, <2>5, <3>1 DEF s, t
      <4> QED BY <4>1, OccursOnce
    <3> QED BY <3>1 DEF SameSorted
  <2> QED BY <2>2, <2>3, <2>6
<1>6. ASSUME NEW k \in DOMAIN d.Indexes
      PROVE  d.Indexes[k].Name \in Names(table.Indexes)
  <2> DEFINE y == d.Indexes[k]
  <2>1. <<y.Name, y.Kind, y.Columns, Range(y.DataColumns)>> \in X(table.Indexes)
    <3>1. y \in Range(d.Indexes)
      BY DEF Range
    <3>2. <<y.Name, y.Kind, y.Columns, Range(y.DataColumns)>> \in X(d.Indexes)
      BY <3>1
    <3> HIDE DEF X
    <3> QED BY <1>2, <3>2
  <2>2. PICK x \in Range(table.Indexes) :
            <<x.Name, x.Kind, x.Columns, Range(x.DataColumns)>>
                = <<y.Name, y.Kind, y.Columns, Range(y.DataColumns)>>
    BY <2>1
  <2>3. x.Name = y.Name
    BY <2>2
  <2> QED BY <2>3 DEF Range, Names
<1> HIDE DEF L, R, X
<1>7. ASSUME NEW i \in DOMAIN table.Columns
      PROVE  LET other == Find(remote.Columns, table.Columns[i].Name)
             IN  /\ table.Columns[i].Name \in Names(remote.Columns)
                 /\ table.Columns[i].Type = other.Type
                 /\ table.Columns[i].SequenceGenerated = other.SequenceGenerated
  <2>1. PICK k \in DOMAIN remote.Columns :
                 /\ remote.Columns[k].Name = table.Columns[i].Name
                 /\ remote.Columns[k].Type = table.Columns[i].Type
                 /\ remote.Columns[k].SequenceGenerated
                        = table.Columns[i].SequenceGenerated
    BY <1>3
  <2>2. Find(remote.Columns, remote.Columns[k].Name) = remote.Columns[k]
    BY <1>1, FindUnique
  <2> QED BY <2>1, <2>2 DEF Names
<1>8. ASSUME NEW i \in DOMAIN table.Indexes
      PROVE  LET other == Find(remote.Indexes, table.Indexes[i].Name)
             IN  /\ table.Indexes[i].Name \in Names(remote.Indexes)
                 /\ table.Indexes[i].Kind = other.Kind
                 /\ table.Indexes[i].Columns = other.Columns
                 /\ SameSorted(table.Indexes[i].DataColumns, other.DataColumns)
  <2>1. PICK k \in DOMAIN d.Indexes :
                 /\ d.Indexes[k].Name = table.Indexes[i].Name
                 /\ d.Indexes[k].Kind = table.Indexes[i].Kind
                 /\ d.Indexes[k].Columns = table.Indexes[i].Columns
                 /\ SameSorted(table.Indexes[i].DataColumns, d.Indexes[k].DataColumns)
    BY <1>5
  <2>2. NamesDistinct(d.Indexes)
    BY DEF Decodes
  <2>3. Find(d.Indexes, d.Indexes[k].Name) = d.Indexes[k]
    BY <2>2, FindUnique
  <2> QED BY <1>1, <2>1, <2>3 DEF Names
<1>9. Names(remote.Columns) \subseteq Names(table.Columns)
  BY <1>4 DEF Names
<1>10. Names(remote.Indexes) \subseteq Names(table.Indexes)
  BY <1>1, <1>6 DEF Names
<1>11. table.PrimaryKey = remote.PrimaryKey
  BY <1>1, <1>2
<1>12. compareDatabaseTable(table, remote)
  BY <1>7, <1>8, <1>9, <1>10, <1>11 DEF compareDatabaseTable
<1> QED BY <1>12 DEF remote


-----------------------------------------------------------------------------
(***************************************************************************)
(* Lists.                                                                   *)
(***************************************************************************)
LEMMA ListFacts ==
    ASSUME NEW s, IsList(s)
    PROVE  Len(s) \in Nat /\ DOMAIN s = 1 .. Len(s)
BY LenProperties DEF IsList

\* Appending to a list adds one element at its end.
LEMMA AppendToList ==
    ASSUME NEW s, IsList(s), NEW e
    PROVE  /\ IsList(Append(s, e))
           /\ Len(Append(s, e)) = Len(s) + 1
           /\ DOMAIN Append(s, e) = DOMAIN s \cup {Len(s) + 1}
           /\ Len(s) + 1 \notin DOMAIN s
           /\ \A k \in DOMAIN s : Append(s, e)[k] = s[k]
           /\ Append(s, e)[Len(s) + 1] = e
<1> DEFINE S == Range(s) \cup {e}
           a == Append(s, e)
<1>1. Len(s) \in Nat /\ DOMAIN s = 1 .. Len(s)
  BY ListFacts
<1>2. s \in Seq(S)
  <2>1. s \in [1 .. Len(s) -> S]
    BY <1>1, SeqDef DEF IsList, Range
  <2> HIDE DEF S
  <2> QED BY <1>1, <2>1, SeqDef
<1>3. e \in S
  OBVIOUS
<1> HIDE DEF S
<1>4. /\ a \in Seq(S)
      /\ Len(a) = Len(s) + 1
      /\ \A k \in 1 .. Len(s) : a[k] = s[k]
      /\ a[Len(s) + 1] = e
  BY <1>2, <1>3, AppendProperties
<1> HIDE DEF a
<1>5. DOMAIN a = DOMAIN s \cup {Len(s) + 1} /\ DOMAIN a = 1 .. Len(a)
  BY <1>1, <1>4, LenProperties
<1>6. IsList(a)
  <2>1. a \in [1 .. Len(a) -> Range(a)]
    BY <1>4, <1>5, SeqDef DEF Range
  <2> QED BY <1>1, <1>4, <2>1, SeqDef DEF IsList
<1> QED BY <1>1, <1>4, <1>5, <1>6 DEF a

LEMMA EmptyList == IsList(<<>>) /\ Len(<<>>) = 0 /\ DOMAIN <<>> = {}
BY DEF IsList

\* Without a query to leave out, what is left are the queries of the files.
LEMMA AllValid ==
    ASSUME IsList(input.Queries), \A i \in DOMAIN input.Queries : ValidAt(i)
    PROVE  ValidQueries = input.Queries
<1> DEFINE n == Len(input.Queries)
<1>1. n \in Nat /\ DOMAIN input.Queries = 1 .. n
  BY ListFacts
<1>2. input.Queries \in [1 .. n -> Range(input.Queries)]
  BY <1>1, SeqDef DEF IsList
<1>3. ASSUME NEW i \in 0 .. n PROVE Rank(i) = i
  <2>1. {j \in 1 .. i : ValidAt(j)} = 1 .. i
    BY <1>1
  <2>2. Cardinality(1 .. i) = i
    BY <1>1, FS_Interval
  <2> QED BY <2>1, <2>2 DEF Rank
<1>4. ASSUME NEW k \in 1 .. n
      PROVE  (CHOOSE i \in DOMAIN input.Queries : ValidAt(i) /\ Rank(i) = k) = k
  <2>1. ValidAt(k) /\ Rank(k) = k /\ k \in DOMAIN input.Queries
    BY <1>1, <1>3
  <2>2. \A i \in DOMAIN input.Queries : Rank(i) = i
    BY <1>1, <1>3
  <2> HIDE DEF n
  <2> QED BY <2>1, <2>2
<1>5. Rank(n) = n
  BY <1>1, <1>3
<1>6. ValidQueries = [k \in 1 .. n |-> input.Queries[k]]
  <2> DEFINE At(k) == CHOOSE i \in DOMAIN input.Queries :
                          ValidAt(i) /\ Rank(i) = k
  <2>1. ValidQueries = [k \in 1 .. n |-> input.Queries[At(k)]]
    BY <1>5 DEF ValidQueries
  <2>2. \A k \in 1 .. n : At(k) = k
    BY <1>4
  <2> HIDE DEF At
  <2> QED BY <2>1, <2>2
<1> HIDE DEF n
<1> QED BY <1>2, <1>6

-----------------------------------------------------------------------------
(***************************************************************************)
(* What a successful analysis rests on.                                     *)
(***************************************************************************)
Shape ==
    /\ input \in Inputs
    /\ at \in Nat \ {0}
    /\ server \in [TableNames -> Descriptions \cup {Missing}]
    /\ seen \in [TableNames -> SUBSET (Descriptions \cup {Missing})]
    /\ IsList(catalog) /\ IsList(results)
    /\ input.Given => catalog = input.Tables
    /\ ~input.Given /\ phase \in {"starting", "validating"} => catalog = <<>>
    /\ phase \in {"starting", "validating", "describing"} => results = <<>>

\* The server reported the type for the column.
Reported(u, type) ==
    /\ u[1] \in TableNames
    /\ \E d \in seen[u[1]] \ {Missing} :
           \E c \in Range(d.Columns) : c.Name = u[2] /\ c.Type = type

\* The table is what the server described, or was compared with it.
Described(table) ==
    /\ table.Name \in TableNames
    /\ \E d \in seen[table.Name] \ {Missing} :
           /\ Decodes(d)
           /\ IF input.Given
              THEN compareDatabaseTable(table, decodeTable(table.Name, d))
              ELSE table = decodeTable(table.Name, d)

Answered(result, q) ==
    /\ result.Name = q.Name
    /\ result.Name \in compiled
    /\ \A u \in DOMAIN result.Columns : Reported(u, result.Columns[u])

\* The tables left to describe.
Listed ==
    /\ IsList(references)
    /\ \A k \in DOMAIN references : references[k] \in TableNames
    /\ input.Given => /\ DOMAIN references = DOMAIN input.Tables
                      /\ \A k \in DOMAIN references :
                             references[k] = input.Tables[k].Name

\* Every query without sqlc.embed has been compiled by the validation loop.
Validated ==
    /\ phase = "validating" =>
          \A k \in DOMAIN blocks :
              k < at /\ ~blocks[k].Embeds => blocks[k].Name \in compiled
    /\ phase \in {"describing", "analyzing", "closing", "ok"} =>
          \A k \in DOMAIN blocks :
              ~blocks[k].Embeds => blocks[k].Name \in compiled

\* A response that is not doomed is one to a text that was compiled.
Asked ==
    stream # Idle =>
        /\ at \in DOMAIN blocks
        /\ Doomed \/ blocks[at].Name \in compiled
        /\ phase = "analyzing" => ResolvesIn(blocks[at])

\* The tables up to the current one have been described.
Known ==
    phase \in {"describing", "analyzing", "closing", "ok"} =>
        \A k \in DOMAIN catalog :
            \/ Described(catalog[k])
            \/ phase = "describing" /\ input.Given /\ k >= at

Counted ==
    /\ phase = "analyzing" => Len(results) = at - 1 /\ at <= Len(blocks) + 1
    /\ phase \in {"closing", "ok"} => Len(results) = Len(blocks)

AllAnswered ==
    \A k \in DOMAIN results :
        k \in DOMAIN input.Queries /\ Answered(results[k], input.Queries[k])

\* The loops one after another, as long as there is nothing to report.
Progress ==
    /\ phase # "starting" => blocks = input.Queries
    /\ phase = "describing" => Listed
    /\ Validated /\ Asked /\ Known /\ Counted /\ AllAnswered

Live == input.Connected = TRUE /\ diagnosed = FALSE

SuccessInv == Shape /\ (Live => Progress)

LEMMA InputFacts ==
    ASSUME Shape
    PROVE  /\ IsList(input.Queries)
           /\ \A k \in DOMAIN input.Queries : IsQuery(input.Queries[k])
           /\ input.Given \in BOOLEAN /\ input.Connected \in BOOLEAN
           /\ IsLocalSchema(input.Tables)
           /\ ~input.Given => input.Tables = <<>>
BY DatabaseAssumption DEF Shape, IsInput

-----------------------------------------------------------------------------
(***************************************************************************)
(* What the server said stays said.                                         *)
(***************************************************************************)
Grow ==
    /\ input' = input
    /\ compiled \subseteq compiled'
    /\ \A t \in TableNames : seen[t] \subseteq seen'[t]

LEMMA ReportedStays ==
    ASSUME Grow, NEW u, NEW type, Reported(u, type)
    PROVE  Reported(u, type)'
BY DEF Grow, Reported

LEMMA DescribedStays ==
    ASSUME Grow, NEW table, Described(table)
    PROVE  Described(table)'
BY DEF Grow, Described

LEMMA AnsweredStays ==
    ASSUME Grow, NEW result, NEW q, Answered(result, q)
    PROVE  Answered(result, q)'
BY ReportedStays DEF Grow, Answered

\* The type of a column of a described table is one the server reported.
LEMMA DescribedColumn ==
    ASSUME NEW table, Described(table), NEW name \in Names(table.Columns)
    PROVE  Reported(<<table.Name, name>>, Find(table.Columns, name).Type)
<1>1. PICK d \in seen[table.Name] \ {Missing} :
          /\ Decodes(d)
          /\ IF input.Given
             THEN compareDatabaseTable(table, decodeTable(table.Name, d))
             ELSE table = decodeTable(table.Name, d)
  BY DEF Described
<1> DEFINE remote == decodeTable(table.Name, d)
<1>2. /\ DOMAIN remote.Columns = DOMAIN d.Columns
      /\ \A i \in DOMAIN d.Columns :
            /\ remote.Columns[i].Name = d.Columns[i].Name
            /\ remote.Columns[i].Type = d.Columns[i].Type
  BY DecodedTable
<1>3. IF input.Given THEN compareDatabaseTable(table, remote) ELSE table = remote
  BY <1>1
<1> HIDE DEF remote
<1>4. PICK i \in DOMAIN table.Columns :
          Find(table.Columns, name) = table.Columns[i] /\ table.Columns[i].Name = name
  BY FindFacts
<1>5. \E k \in DOMAIN d.Columns :
          d.Columns[k].Name = name /\ d.Columns[k].Type = table.Columns[i].Type
  <2>1. CASE input.Given
    <3> DEFINE other == Find(remote.Columns, table.Columns[i].Name)
    <3>1. /\ table.Columns[i].Name \in Names(remote.Columns)
          /\ table.Columns[i].Type = other.Type
      BY <1>3, <2>1 DEF compareDatabaseTable
    <3>2. PICK k \in DOMAIN remote.Columns :
              /\ other = remote.Columns[k]
              /\ remote.Columns[k].Name = table.Columns[i].Name
      BY <3>1, FindFacts
    <3> HIDE DEF other
    <3> QED BY <1>2, <1>4, <3>1, <3>2
  <2>2. CASE ~input.Given
    BY <1>2, <1>3, <1>4, <2>2
  <2> QED BY <2>1, <2>2
<1>6. PICK k \in DOMAIN d.Columns :
          d.Columns[k].Name = name /\ d.Columns[k].Type = table.Columns[i].Type
  BY <1>5
<1>7. d.Columns[k] \in Range(d.Columns)
  BY DEF Range
<1>8. <<table.Name, name>>[1] = table.Name /\ <<table.Name, name>>[2] = name
  OBVIOUS
<1> QED BY <1>1, <1>4, <1>6, <1>7, <1>8 DEF Reported, Described

\* Every type in the result of a query that resolves was reported.
LEMMA ResultReported ==
    ASSUME NEW q, IsQuery(q), ResolvesIn(q),
           \A k \in DOMAIN catalog : Described(catalog[k]),
           NEW u \in DOMAIN Result(q).Columns
    PROVE  Reported(u, Result(q).Columns[u])
<1> DEFINE table == Find(catalog, u[1])
<1>1. /\ u \in ExpandedUses(q)
      /\ Result(q).Columns[u] = Find(table.Columns, u[2]).Type
  BY DEF Result
<1>2. /\ u = <<u[1], u[2]>>
      /\ u[1] \in Names(catalog)
      /\ u[2] \in Names(table.Columns)
  <2>1. CASE u \in q.Uses
    BY <2>1 DEF IsQuery, ResolvesIn, TablesOf
  <2>2. CASE \E t \in q.Expands : u \in CatalogColumns(t)
    <3>1. PICK t \in q.Expands : u \in CatalogColumns(t)
      BY <2>2
    <3>2. PICK c \in Names(Find(catalog, t).Columns) : u = <<t, c>>
      BY <3>1 DEF CatalogColumns
    <3>3. t \in Names(catalog)
      BY DEF ResolvesIn, TablesOf
    <3> QED BY <3>2, <3>3
  <2> QED BY <1>1, <2>1, <2>2 DEF ExpandedUses
<1>3. PICK k \in DOMAIN catalog : table = catalog[k] /\ catalog[k].Name = u[1]
  BY <1>2, FindFacts
<1> HIDE DEF table
<1>4. Reported(<<table.Name, u[2]>>, Find(table.Columns, u[2]).Type)
  BY <1>2, <1>3, DescribedColumn
<1> QED BY <1>1, <1>2, <1>3, <1>4

-----------------------------------------------------------------------------
\* The tables to describe are tables, each of the local schema in its place.
LEMMA ReferencesListed ==
    ASSUME Shape, blocks = input.Queries, NEW refs \in References
    PROVE  /\ IsList(refs)
           /\ \A k \in DOMAIN refs : refs[k] \in TableNames
           /\ input.Given => /\ DOMAIN refs = DOMAIN input.Tables
                             /\ \A k \in DOMAIN refs :
                                    refs[k] = input.Tables[k].Name
<1>1. CASE input.Given
  <2>1. refs = [i \in DOMAIN input.Tables |-> input.Tables[i].Name]
    BY <1>1 DEF References
  <2>2. /\ IsList(input.Tables)
        /\ \A k \in DOMAIN input.Tables : input.Tables[k].Name \in TableNames
    BY InputFacts DEF IsLocalSchema
  <2>3. Len(input.Tables) \in Nat /\ DOMAIN input.Tables = 1 .. Len(input.Tables)
    BY <2>2, ListFacts
  <2>4. refs \in [1 .. Len(input.Tables) -> Range(refs)]
    BY <2>1, <2>3 DEF Range
  <2>5. IsList(refs)
    BY <2>3, <2>4, SeqDef DEF IsList
  <2> QED BY <2>1, <2>2, <2>5
<1>2. CASE ~input.Given
  <2> DEFINE S == UNION {TablesOf(blocks[i]) : i \in DOMAIN blocks}
             n == Cardinality(S)
  <2>1. S \subseteq TableNames
    <3>1. \A i \in DOMAIN blocks : IsQuery(blocks[i])
      BY InputFacts
    <3>2. \A i \in DOMAIN blocks : TablesOf(blocks[i]) \subseteq TableNames
      BY <3>1 DEF IsQuery, TablesOf
    <3> QED BY <3>2
  <2>2. refs \in SetToSeqs(S)
    BY <1>2 DEF References
  <2> HIDE DEF S
  <2>3. n \in Nat
    BY <2>1, FS_Subset, FS_CardinalityType, DatabaseAssumption
  <2>4. refs \in [1 .. n -> S]
    BY <2>2 DEF SetToSeqs
  <2> HIDE DEF n
  <2>5. refs \in [1 .. n -> Range(refs)]
    BY <2>4 DEF Range
  <2>6. IsList(refs)
    BY <2>3, <2>5, SeqDef DEF IsList
  <2> QED BY <1>2, <2>1, <2>4, <2>6
<1> QED BY <1>1, <1>2

LEMMA SuccessInit == Init => SuccessInv
<1> SUFFICES ASSUME Init PROVE SuccessInv
  OBVIOUS
<1>1. IsInput(input)
  BY DatabaseAssumption DEF Init
<1>2. IsList(input.Tables) /\ (~input.Given => input.Tables = <<>>)
  BY <1>1 DEF IsInput, IsLocalSchema
<1>3. Shape
  BY <1>2, EmptyList DEF Init, Shape
<1>4. Progress
  BY EmptyList
     DEF Init, Progress, Validated, Asked, Known, Counted, AllAnswered
<1> QED BY <1>3, <1>4 DEF SuccessInv

\* The shape of the state, whatever happens.
LEMMA ShapeStep == Shape /\ [Next]_vars => Shape'
<1> SUFFICES ASSUME Shape, [Next]_vars PROVE Shape'
  OBVIOUS
<1>1. CASE Prepare \/ OpenFails \/ AnalyzeEnd \/ Close \/ CloseFails
  BY <1>1 DEF Prepare, OpenFails, AnalyzeEnd, Close, CloseFails, Enter, history, Shape
<1>2. CASE Validate
  BY <1>2 DEF Validate, NextItem, Explain, history, Shape
<1>3. CASE ValidateEnd \/ DescribeEnd
  BY <1>3 DEF ValidateEnd, DescribeEnd, Enter, history, Shape
<1>4. ASSUME NEW success, ExplainEnds(success)
      PROVE  Shape'
  <2>1. /\ UNCHANGED <<server, input, phase, catalog, seen>>
        /\ at' = at + 1
        /\ \/ UNCHANGED results
           \/ phase = "analyzing" /\ results' = Append(results, Result(blocks[at]))
    BY <1>4, Zenon DEF ExplainEnds, NextItem
  <2>2. IsList(results')
    <3>1. IsList(results)
      BY DEF Shape
    <3>2. IsList(Append(results, Result(blocks[at])))
      BY <3>1, AppendToList
    <3> QED BY <2>1, <3>1, <3>2
  <2> QED BY <2>1, <2>2 DEF Shape
<1>5. CASE Receive \/ ReceiveEOF \/ ReceiveFails
  <2>1. CASE UNCHANGED <<server, input, phase, at, catalog, results, history>>
    BY <2>1 DEF history, Shape
  <2>2. CASE \E success \in {FALSE, received} : ExplainEnds(success)
    BY <2>2, <1>4
  <2> QED BY <1>5, <2>1, <2>2 DEF Receive, ReceiveEOF, ReceiveFails
<1>6. CASE Describe
  <2> DEFINE name == references[at]
             table == decodeTable(name, server[name])
  <2>1. /\ phase = "describing"
        /\ UNCHANGED <<server, input, phase, results>>
        /\ at' = at + 1
        /\ seen' = [seen EXCEPT ![name] = @ \cup {server[name]}]
        /\ \/ UNCHANGED catalog
           \/ ~input.Given /\ catalog' = Append(catalog, table)
    BY <1>6, Zenon DEF Describe, NextItem
  <2> HIDE DEF table
  <2>2. IsList(catalog')
    <3>1. IsList(catalog)
      BY DEF Shape
    <3>2. IsList(Append(catalog, table))
      BY <3>1, AppendToList
    <3> QED BY <2>1, <3>1, <3>2
  <2>3. seen' \in [TableNames -> SUBSET (Descriptions \cup {Missing})]
    <3> DEFINE D == Descriptions \cup {Missing}
    <3>1. seen \in [TableNames -> SUBSET D] /\ server \in [TableNames -> D]
      BY DEF Shape
    <3> HIDE DEF D
    <3>2. name \in TableNames => seen[name] \cup {server[name]} \in SUBSET D
      BY <3>1
    <3>3. seen' \in [TableNames -> SUBSET D]
      BY <2>1, <3>1, <3>2
    <3> QED BY <3>3 DEF D
  <2> QED BY <2>1, <2>2, <2>3 DEF Shape
<1>7. CASE DescribeFails
  BY <1>7 DEF DescribeFails, NextItem, Shape
<1>8. CASE Analyze
  <2> DEFINE result == Result(blocks[at])
  <2>1. /\ phase = "analyzing"
        /\ UNCHANGED <<server, input, phase, catalog, seen>>
        /\ at' = at + 1 \/ at' = at
        /\ UNCHANGED results \/ results' = Append(results, result)
    BY <1>8, Zenon DEF Analyze, NextItem, Explain, history
  <2> HIDE DEF result
  <2>2. IsList(results')
    <3>1. IsList(results)
      BY DEF Shape
    <3>2. IsList(Append(results, result))
      BY <3>1, AppendToList
    <3> QED BY <2>1, <3>1, <3>2
  <2> QED BY <2>1, <2>2 DEF Shape
<1>9. CASE Migrate
  BY <1>9 DEF Migrate, Shape
<1>10. CASE UNCHANGED vars
  BY <1>10 DEF vars, history, Shape
<1> QED BY <1>1, <1>2, <1>3, <1>5, <1>6, <1>7, <1>8, <1>9, <1>10 DEF Next, Step

-----------------------------------------------------------------------------
(***************************************************************************)
(* One phase after another keeps what it has found out, as long as there is *)
(* nothing to report.                                                       *)
(***************************************************************************)
\* Blocks are the queries of the files, as long as nothing is diagnosed.
LEMMA BlockFacts ==
    ASSUME Shape, blocks = input.Queries
    PROVE  /\ Len(blocks) \in Nat
           /\ DOMAIN blocks = 1 .. Len(blocks)
           /\ at <= Len(blocks) <=> at \in DOMAIN blocks
           /\ \A k \in DOMAIN blocks : IsQuery(blocks[k])
<1>1. Len(blocks) \in Nat /\ DOMAIN blocks = 1 .. Len(blocks)
  BY InputFacts, ListFacts
<1>2. at \in Nat \ {0}
  BY DEF Shape
<1> QED BY <1>1, <1>2, InputFacts

\* A text sent to the server has been compiled, or its answer is an error.
LEMMA ExplainSent ==
    ASSUME NEW name, NEW uses, NEW expands, Explain(name, uses, expands)
    PROVE  /\ compiled \subseteq compiled'
           /\ Doomed' \/ name \in compiled'
<1>1. received' = FALSE
  BY DEF Explain
<1>2. CASE compiled' = compiled \cup {name}
  BY <1>2
<1>3. CASE stream' = <<"error">> /\ compiled' = compiled
  <2>1. <<"error">> \in Seq(Parts)
    BY DEF Parts
  <2>2. 1 \in DOMAIN <<"error">> /\ <<"error">>[1] # "success"
    OBVIOUS
  <2> QED BY <1>3, <2>1, <2>2, PartsAreNotIdle DEF Doomed
<1>4. CASE stream' \in BrokenStreams /\ compiled' = compiled
  <2>1. stream' \in Seq(Parts)
    BY <1>4, StreamShapes
  <2>2. stream' = <<>> \/ \E i \in DOMAIN stream' : stream'[i] # "success"
    BY <1>4, StreamShapes
  <2> QED BY <1>1, <1>4, <2>1, <2>2, PartsAreNotIdle DEF Doomed
<1> QED BY <1>2, <1>3, <1>4 DEF Explain

\* The steps before the first request.
LEMMA PrepareProgress ==
    ASSUME Shape, ErrorInv, Prepare, Live'
    PROVE  Progress'
<1> DEFINE clean == /\ input.Readable
                    /\ \A i \in DOMAIN input.Queries : ValidAt(i)
           next == IF ~input.Connected THEN "analyzing"
                   ELSE IF clean THEN "validating" ELSE "closing"
<1>1. /\ phase = "starting" /\ input.Connected
      /\ UNCHANGED <<input, stream, catalog, results>>
  BY DEF Prepare, Live
<1>2. diagnosed' = ~clean /\ blocks' = ValidQueries /\ phase' = next /\ at' = 1
  BY DEF Prepare, Live, Diagnose, Enter
<1>3. clean
  BY <1>2 DEF Live
<1>4. \A i \in DOMAIN input.Queries : ValidAt(i)
  BY <1>3
<1>5. phase' = "validating"
  BY <1>1, <1>2, <1>3
<1> HIDE DEF clean, next
<1>6. blocks' = input'.Queries
  BY <1>1, <1>2, <1>4, InputFacts, AllValid
<1>7. \A k \in DOMAIN input.Queries : k >= 1
  BY InputFacts, ListFacts
<1>8. stream' = Idle
  BY <1>1 DEF ErrorInv, Pending
<1>9. results' = <<>>
  BY <1>1 DEF Shape
<1> QED BY <1>1, <1>2, <1>5, <1>6, <1>7, <1>8, <1>9, EmptyList
        DEF Progress, Validated, Asked, Known, Counted, AllAnswered

\* What was said is not taken back.
LEMMA KnownStays ==
    ASSUME Grow, Known, UNCHANGED <<phase, catalog>>, at' = at \/ phase # "describing"
    PROVE  Known'
<1>1. input' = input
  BY DEF Grow
<1>2. \A k \in DOMAIN catalog : Described(catalog[k]) => Described(catalog[k])'
  BY DescribedStays
<1>3. ASSUME phase \in {"describing", "analyzing", "closing", "ok"},
             NEW k \in DOMAIN catalog
      PROVE  \/ Described(catalog[k])'
             \/ phase = "describing" /\ input'.Given /\ k >= at'
  BY <1>1, <1>2, <1>3 DEF Known
<1> QED BY <1>3 DEF Known

LEMMA AnswersStay ==
    ASSUME Grow, AllAnswered, UNCHANGED results
    PROVE  AllAnswered'
<1>1. ASSUME NEW k \in DOMAIN results
      PROVE  /\ k \in DOMAIN input'.Queries
             /\ Answered(results[k], input.Queries[k])'
  <2>1. k \in DOMAIN input.Queries /\ Answered(results[k], input.Queries[k])
    BY DEF AllAnswered
  <2>2. input' = input
    BY DEF Grow
  <2> DEFINE r == results[k]
             q == input.Queries[k]
  <2>3. PICK rr, qq : rr = r /\ qq = q
    OBVIOUS
  <2>4. Answered(rr, qq)'
    BY <2>1, <2>3, AnsweredStays
  <2> QED BY <2>1, <2>2, <2>3, <2>4
<1> QED BY <1>1 DEF AllAnswered

\* A text is sent, by either loop.
LEMMA SendProgress ==
    ASSUME Shape, Progress, NEW name, NEW uses, NEW expands,
           phase \in {"validating", "analyzing"}, at <= Len(blocks),
           name = blocks[at].Name, phase = "analyzing" => ResolvesIn(blocks[at]),
           Explain(name, uses, expands),
           UNCHANGED <<input, blocks, references, catalog>>
    PROVE  Progress'
<1>1. UNCHANGED <<input, phase, blocks, at, references, catalog, results, seen>>
  BY DEF Explain
<1>2. Grow
  BY <1>1, ExplainSent DEF Grow
<1>3. blocks = input.Queries /\ at \in DOMAIN blocks
  BY BlockFacts DEF Progress
<1>4. Doomed' \/ blocks[at].Name \in compiled'
  BY ExplainSent
<1>5. Asked'
  <2>1. phase = "analyzing" => ResolvesIn(blocks[at])'
    BY <1>1 DEF ResolvesIn
  <2> QED BY <1>1, <1>3, <1>4, <2>1 DEF Asked
<1>6. Validated'
  BY <1>1, <1>2 DEF Progress, Validated, Grow
<1>7. Known' /\ AllAnswered'
  BY <1>1, <1>2, KnownStays, AnswersStay DEF Progress
<1>8. Counted'
  BY <1>1 DEF Progress, Counted
<1> QED BY <1>1, <1>3, <1>5, <1>6, <1>7, <1>8 DEF Progress

\* A query is done with, and its text, if one was to be sent, compiled.
LEMMA NextQuery ==
    ASSUME Shape, Progress, phase \in {"validating", "analyzing"},
           at \in DOMAIN blocks, at' = at + 1,
           phase = "validating" =>
               blocks[at].Embeds \/ blocks[at].Name \in compiled,
           UNCHANGED <<input, phase, blocks, catalog, seen, compiled>>
    PROVE  Validated' /\ Known' /\ Grow
<1>1. Grow
  BY DEF Grow
<1>2. blocks = input.Queries /\ at \in Nat
  BY DEF Progress, Shape
<1>3. \A k \in DOMAIN blocks : k \in Nat
  BY <1>2, BlockFacts
<1>4. Validated'
  <2>1. ASSUME phase = "validating", NEW k \in DOMAIN blocks, k < at + 1,
               ~blocks[k].Embeds
        PROVE  blocks[k].Name \in compiled
    <3>1. CASE k = at
      BY <2>1, <3>1
    <3>2. CASE k < at
      BY <2>1, <3>2 DEF Progress, Validated
    <3> QED BY <1>2, <1>3, <2>1, <3>1, <3>2
  <2> QED BY <2>1 DEF Progress, Validated
<1>5. Known'
  BY <1>1, KnownStays DEF Progress
<1> QED BY <1>1, <1>4, <1>5

\* The result of the current query joins the others.
LEMMA AnswerProgress ==
    ASSUME Shape, Progress, phase = "analyzing", at \in DOMAIN blocks,
           ResolvesIn(blocks[at]), blocks[at].Name \in compiled,
           at' = at + 1, stream' = Idle,
           results' = Append(results, Result(blocks[at])),
           UNCHANGED <<input, phase, blocks, references, catalog, seen, compiled>>
    PROVE  Progress'
<1> DEFINE r == Result(blocks[at])
<1>1. Validated' /\ Known' /\ Grow
  BY NextQuery
<1>2. blocks = input.Queries /\ IsQuery(blocks[at])
  BY BlockFacts DEF Progress
<1>3. Answered(r, input.Queries[at])
  <2>1. \A k \in DOMAIN catalog : Described(catalog[k])
    BY DEF Progress, Known
  <2>2. r.Name = blocks[at].Name
    BY DEF Result
  <2>3. \A u \in DOMAIN r.Columns : Reported(u, r.Columns[u])
    BY <1>2, <2>1, ResultReported
  <2> HIDE DEF r
  <2> QED BY <1>2, <2>2, <2>3 DEF Answered
<1>4. IsList(results) /\ at \in Nat /\ Len(results) = at - 1
  BY DEF Shape, Progress, Counted
<1> HIDE DEF r
<1>5. /\ Len(results') = Len(results) + 1
      /\ DOMAIN results' = DOMAIN results \cup {Len(results) + 1}
      /\ \A k \in DOMAIN results : results'[k] = results[k]
      /\ results'[Len(results) + 1] = r
  BY <1>4, AppendToList DEF r
<1>6. AllAnswered'
  <2>1. ASSUME NEW k \in DOMAIN results'
        PROVE  /\ k \in DOMAIN input.Queries
               /\ Answered(results'[k], input.Queries[k])
    <3>1. CASE k \in DOMAIN results
      BY <1>5, <3>1 DEF Progress, AllAnswered
    <3>2. CASE k = Len(results) + 1
      <4>1. k = at
        BY <1>4, <3>2
      <4> QED BY <1>2, <1>3, <1>5, <3>2, <4>1
    <3> QED BY <1>5, <2>1, <3>1, <3>2
  <2>2. ASSUME NEW k \in DOMAIN results'
        PROVE  Answered(results[k], input.Queries[k])'
    <3>1. PICK rr, qq : rr = results'[k] /\ qq = input.Queries[k]
      OBVIOUS
    <3>2. Answered(rr, qq)
      BY <2>1, <3>1
    <3>3. Answered(rr, qq)'
      BY <1>1, <3>2, AnsweredStays
    <3> QED BY <3>1, <3>3 DEF Answered, Reported
  <2> QED BY <2>1, <2>2 DEF AllAnswered
<1>7. Counted'
  <2>1. at + 1 <= Len(blocks) + 1
    BY <1>2, <1>4, BlockFacts
  <2> QED BY <1>4, <1>5, <2>1 DEF Counted
<1> QED BY <1>1, <1>2, <1>6, <1>7 DEF Progress, Asked

\* A response ends well.
LEMMA EndProgress ==
    ASSUME Shape, ErrorInv, Progress, stream # Idle, ~Doomed,
           ExplainEnds(TRUE), UNCHANGED faulty
    PROVE  Progress'
<1>1. /\ stream' = Idle /\ at' = at + 1
      /\ UNCHANGED <<input, phase, blocks, references, catalog, seen, compiled>>
      /\ IF phase = "analyzing"
         THEN results' = Append(results, Result(blocks[at]))
         ELSE UNCHANGED results
  BY DEF ExplainEnds, NextItem
<1>2. phase \in {"validating", "analyzing"}
  BY DEF ErrorInv, Pending
<1>3. /\ at \in DOMAIN blocks
      /\ blocks[at].Name \in compiled
      /\ phase = "analyzing" => ResolvesIn(blocks[at])
  BY DEF Progress, Asked
<1>4. CASE phase = "analyzing"
  BY <1>1, <1>3, <1>4, AnswerProgress
<1>5. CASE phase = "validating"
  <2>1. Validated' /\ Known' /\ Grow
    BY <1>1, <1>2, <1>3, NextQuery
  <2>2. AllAnswered'
    BY <1>1, <1>5, <2>1, AnswersStay DEF Progress
  <2> QED BY <1>1, <1>5, <2>1, <2>2 DEF Progress, Asked, Counted
<1> QED BY <1>2, <1>4, <1>5

LEMMA ValidateProgress ==
    ASSUME Shape, Progress, Validate, Live'
    PROVE  Progress'
<1>1. /\ phase = "validating" /\ at <= Len(blocks) /\ stream = Idle
      /\ UNCHANGED <<server, input, blocks, references, catalog>>
  BY DEF Validate
<1>2. at \in DOMAIN blocks
  BY <1>1, BlockFacts DEF Progress
<1>3. CASE Explain(blocks[at].Name, blocks[at].Uses, blocks[at].Expands)
  BY <1>1, <1>3, SendProgress
<1>4. CASE /\ blocks[at].Embeds /\ NextItem
           /\ UNCHANGED <<phase, stream, received, diagnosed, results, history>>
  <2>1. Validated' /\ Known' /\ Grow
    BY <1>1, <1>2, <1>4, NextQuery DEF NextItem, history
  <2>2. AllAnswered'
    BY <1>4, <2>1, AnswersStay DEF Progress
  <2> QED BY <1>1, <1>4, <2>1, <2>2 DEF Progress, Asked, Counted
<1> QED BY <1>3, <1>4 DEF Validate, Diagnose, Live

LEMMA ValidateEndProgress ==
    ASSUME Shape, Progress, ValidateEnd, Live'
    PROVE  Progress'
<1>1. /\ phase = "validating" /\ at > Len(blocks) /\ stream = Idle
      /\ references' \in References
      /\ phase' = "describing" /\ at' = 1
      /\ UNCHANGED <<server, input, blocks, stream, catalog, results, history>>
  BY DEF ValidateEnd, Diagnose, Enter, Live
<1>2. blocks = input.Queries
  BY <1>1 DEF Progress
<1>3. PICK refs : refs = references'
  OBVIOUS
<1>4. /\ IsList(refs)
      /\ \A k \in DOMAIN refs : refs[k] \in TableNames
      /\ input.Given => /\ DOMAIN refs = DOMAIN input.Tables
                        /\ \A k \in DOMAIN refs : refs[k] = input.Tables[k].Name
  BY <1>1, <1>2, <1>3, ReferencesListed
<1>5. Listed'
  BY <1>1, <1>3, <1>4 DEF Listed
<1>6. Validated'
  <2>1. \A k \in DOMAIN blocks : k < at
    BY <1>1, <1>2, BlockFacts DEF Shape
  <2> QED BY <1>1, <2>1 DEF Progress, Validated, history
<1>7. Known'
  <2>1. input.Given => \A k \in DOMAIN catalog : k >= 1
    <3>1. \A k \in DOMAIN catalog : k >= 1
      BY ListFacts DEF Shape
    <3> QED BY <3>1
  <2>2. ~input.Given => DOMAIN catalog = {}
    BY <1>1, EmptyList DEF Shape
  <2> QED BY <1>1, <2>1, <2>2 DEF Known
<1>8. Grow
  BY <1>1 DEF Grow, history
<1>9. AllAnswered'
  BY <1>1, <1>8, AnswersStay DEF Progress
<1> QED BY <1>1, <1>2, <1>5, <1>6, <1>7, <1>9 DEF Progress, Asked, Counted

LEMMA DescribeProgress ==
    ASSUME Shape, ErrorInv, Progress, Describe, Live'
    PROVE  Progress'
<1> DEFINE name == references[at]
           d == server[name]
           table == decodeTable(name, d)
<1>1. /\ phase = "describing" /\ at <= Len(references)
      /\ at' = at + 1
      /\ seen' = [seen EXCEPT ![name] = @ \cup {d}]
      /\ UNCHANGED <<input, phase, blocks, references, stream, results, compiled>>
  BY DEF Describe, NextItem
<1>2. /\ d # Missing /\ Decodes(d)
      /\ \/ ~input.Given /\ catalog' = Append(catalog, table)
         \/ /\ input.Given /\ UNCHANGED catalog
            /\ compareDatabaseTable(Find(catalog, name), table)
  BY DEF Describe, Diagnose, Live
<1>3. at \in DOMAIN references /\ at \in Nat /\ name \in TableNames
  <2>1. Len(references) \in Nat /\ DOMAIN references = 1 .. Len(references)
    BY <1>1, ListFacts DEF Progress, Listed
  <2> QED BY <1>1, <2>1 DEF Progress, Listed, Shape
<1>4. seen \in [TableNames -> SUBSET (Descriptions \cup {Missing})]
  BY DEF Shape
<1>5. d \in seen'[name]
  BY <1>1, <1>3, <1>4
<1>6. Grow
  BY <1>1, <1>3, <1>4 DEF Grow
<1>7. IsList(catalog)
  BY DEF Shape
<1> HIDE DEF d, table
<1>8. Known'
  <2>1. CASE input.Given
    <3>1. catalog = input.Tables /\ catalog' = catalog
      BY <1>2, <2>1 DEF Shape
    <3>2. at \in DOMAIN catalog /\ name = catalog[at].Name
      BY <1>1, <1>3, <2>1, <3>1 DEF Progress, Listed
    <3>3. Find(catalog, name) = catalog[at]
      BY <3>1, <3>2, InputFacts, FindUnique DEF IsLocalSchema
    <3>4. PICK t : t = catalog[at]
      OBVIOUS
    <3>5. compareDatabaseTable(t, decodeTable(t.Name, d))
      BY <1>2, <2>1, <3>2, <3>3, <3>4 DEF table
    <3>6. Described(t)'
      BY <1>1, <1>2, <1>3, <1>5, <2>1, <3>2, <3>4, <3>5 DEF Described
    <3>7. \A k \in DOMAIN catalog : k \in Nat
      BY <1>7, ListFacts
    <3>8. ASSUME NEW k \in DOMAIN catalog
          PROVE  Described(catalog[k])' \/ k >= at + 1
      <4>1. CASE k = at
        BY <3>1, <3>4, <3>6, <4>1 DEF Described
      <4>2. CASE k < at
        <5>1. PICK tt : tt = catalog[k]
          OBVIOUS
        <5>2. Described(tt)
          BY <1>1, <1>3, <3>7, <4>2, <5>1 DEF Progress, Known
        <5>3. Described(tt)'
          BY <1>6, <5>2, DescribedStays
        <5> QED BY <3>1, <5>1, <5>3 DEF Described
      <4> QED BY <1>3, <3>7, <4>1, <4>2
    <3> QED BY <1>1, <2>1, <3>1, <3>8 DEF Known
  <2>2. CASE ~input.Given
    <3>1. catalog' = Append(catalog, table)
      BY <1>2, <2>2
    <3>2. /\ DOMAIN catalog' = DOMAIN catalog \cup {Len(catalog) + 1}
          /\ \A k \in DOMAIN catalog : catalog'[k] = catalog[k]
          /\ catalog'[Len(catalog) + 1] = table
      BY <1>7, <3>1, AppendToList
    <3>3. PICK t : t = table
      OBVIOUS
    <3>4. t.Name = name /\ t = decodeTable(t.Name, d)
      BY <3>3, DecodedTable DEF table
    <3>5. Described(t)'
      BY <1>1, <1>2, <1>3, <1>5, <2>2, <3>4 DEF Described
    <3>6. ASSUME NEW k \in DOMAIN catalog'
          PROVE  Described(catalog[k])'
      <4>1. CASE k = Len(catalog) + 1
        BY <3>2, <3>3, <3>5, <4>1 DEF Described
      <4>2. CASE k \in DOMAIN catalog
        <5>1. PICK tt : tt = catalog[k]
          OBVIOUS
        <5>2. Described(tt)
          BY <1>1, <2>2, <4>2, <5>1 DEF Progress, Known
        <5>3. Described(tt)'
          BY <1>6, <5>2, DescribedStays
        <5> QED BY <3>2, <4>2, <5>1, <5>3 DEF Described
      <4> QED BY <3>2, <4>1, <4>2
    <3> QED BY <1>1, <3>6 DEF Known
  <2> QED BY <2>1, <2>2
<1>9. AllAnswered'
  BY <1>1, <1>6, AnswersStay DEF Progress
<1>10. Validated' /\ Listed' /\ Counted'
  BY <1>1 DEF Progress, Validated, Listed, Counted
<1>11. stream = Idle
  BY <1>1 DEF ErrorInv, Pending
<1> QED BY <1>1, <1>8, <1>9, <1>10, <1>11 DEF Progress, Asked

\* Without a new diagnostic there was none before.
LEMMA StillFine ==
    ASSUME ErrorInv, [Next]_vars, ~Prepare, diagnosed' = FALSE
    PROVE  diagnosed = FALSE /\ input' = input
<1>1. ~OpenFails /\ ~DescribeFails /\ ~CloseFails
  BY DEF OpenFails, DescribeFails, CloseFails, Diagnose
<1>2. input' = input
  BY <1>1
     DEF Next, Step, vars, Validate, ValidateEnd, Receive, ReceiveEOF,
         ReceiveFails, ExplainEnds, Describe, DescribeEnd, Analyze,
         AnalyzeEnd, Close, Migrate
<1>3. CASE Describe
  <2> DEFINE name == references[at]
             same == compareDatabaseTable(Find(catalog, name),
                         decodeTable(name, server[name]))
  <2>1. \/ diagnosed' = TRUE
        \/ diagnosed' = diagnosed
        \/ diagnosed' = (diagnosed \/ ~same)
    BY <1>3, Zenon DEF Describe, Diagnose
  <2> HIDE DEF same
  <2>2. diagnosed \in BOOLEAN
    BY DEF ErrorInv, Recorded
  <2> QED BY <1>2, <2>1, <2>2
<1>4. CASE Validate \/ Analyze
  BY <1>2, <1>4 DEF Validate, Analyze, Explain, Diagnose
<1>5. CASE Receive \/ ReceiveEOF \/ ReceiveFails
  <2>1. ~ExplainEnds(FALSE)
    BY DEF ExplainEnds, Diagnose
  <2>2. received \in BOOLEAN
    BY DEF ErrorInv, Pending
  <2>3. ExplainEnds(TRUE) => diagnosed' = diagnosed
    BY DEF ExplainEnds
  <2>4. ExplainEnds(received) => diagnosed' = diagnosed
    BY <2>1, <2>2, <2>3
  <2> QED BY <1>2, <1>5, <2>1, <2>4 DEF Receive, ReceiveEOF, ReceiveFails
<1>6. CASE ValidateEnd \/ DescribeEnd \/ AnalyzeEnd \/ Close
  BY <1>2, <1>6 DEF ValidateEnd, DescribeEnd, AnalyzeEnd, Close, Diagnose
<1>7. CASE Migrate
  BY <1>2, <1>7 DEF Migrate
<1>8. CASE UNCHANGED vars
  BY <1>2, <1>8 DEF vars
<1> QED BY <1>1, <1>3, <1>4, <1>5, <1>6, <1>7, <1>8 DEF Next, Step

\* The steps that leave the loops where they are.
LEMMA WaitProgress ==
    ASSUME Progress,
           stream' = Idle \/ (stream # Idle /\ (Doomed => Doomed')),
           UNCHANGED <<input, phase, blocks, at, references, catalog, results,
                       compiled, seen>>
    PROVE  Progress'
<1>1. Grow
  BY DEF Grow
<1>2. Known' /\ AllAnswered'
  BY <1>1, KnownStays, AnswersStay DEF Progress
<1>3. Validated' /\ Counted' /\ (phase' = "describing" => Listed')
  BY DEF Progress, Validated, Counted, Listed
<1>4. Asked'
  BY DEF Progress, Asked, ResolvesIn
<1> QED BY <1>2, <1>3, <1>4 DEF Progress

LEMMA ReceiveProgress ==
    ASSUME Shape, ErrorInv, Progress, Receive \/ ReceiveEOF \/ ReceiveFails, Live'
    PROVE  Progress'
<1>1. stream # Idle
  <2>1. <<>> # Idle
    BY DEF Idle
  <2> QED BY <2>1 DEF Receive, ReceiveEOF, ReceiveFails
<1>2. ~ExplainEnds(FALSE)
  BY DEF ExplainEnds, Diagnose, Live
<1>3. CASE Receive
  <2>1. /\ Head(stream) = "success"
        /\ UNCHANGED <<input, phase, blocks, at, references, catalog, results,
                       compiled, seen>>
    BY <1>2, <1>3 DEF Receive, history
  <2>2. Doomed => Doomed'
    BY <1>3, <2>1, ReceiveKeepsDoomed
  <2> QED BY <1>1, <2>1, <2>2, WaitProgress
<1>4. CASE ReceiveEOF
  <2>1. stream = <<>> /\ ExplainEnds(received) /\ UNCHANGED faulty
    BY <1>4 DEF ReceiveEOF
  <2>2. received = TRUE
    BY <1>2, <2>1 DEF ErrorInv, Pending
  <2>3. ~Doomed
    BY <2>1, <2>2 DEF Doomed
  <2>4. ExplainEnds(TRUE)
    BY <2>1, <2>2
  <2> QED BY <1>1, <2>1, <2>3, <2>4, EndProgress
<1> QED BY <1>2, <1>3, <1>4 DEF ReceiveFails

LEMMA DescribeEndProgress ==
    ASSUME Shape, ErrorInv, Progress, DescribeEnd, Live'
    PROVE  Progress'
<1>1. /\ phase = "describing" /\ at > Len(references)
      /\ phase' = "analyzing" /\ at' = 1
      /\ UNCHANGED <<input, blocks, stream, catalog, results, compiled, seen>>
  BY DEF DescribeEnd, Enter, Live, history
<1>2. stream = Idle
  BY <1>1 DEF ErrorInv, Pending
<1>3. ASSUME NEW k \in DOMAIN catalog PROVE Described(catalog[k])
  <2>1. CASE input.Given /\ k >= at
    <3>1. k \in DOMAIN references
      BY <1>1, <2>1 DEF Shape, Progress, Listed
    <3>2. Len(references) \in Nat /\ DOMAIN references = 1 .. Len(references)
      BY <1>1, ListFacts DEF Progress, Listed
    <3> QED BY <1>1, <2>1, <3>1, <3>2 DEF Shape
  <2> QED BY <1>1, <2>1 DEF Progress, Known
<1>4. Grow
  BY <1>1 DEF Grow
<1>5. Known'
  <2>1. ASSUME NEW k \in DOMAIN catalog PROVE Described(catalog[k])'
    <3>1. PICK t : t = catalog[k]
      OBVIOUS
    <3>2. Described(t)'
      BY <1>3, <1>4, <3>1, DescribedStays
    <3> QED BY <1>1, <3>1, <3>2 DEF Described
  <2> QED BY <1>1, <2>1 DEF Known
<1>6. AllAnswered'
  BY <1>1, <1>4, AnswersStay DEF Progress
<1>7. Validated'
  BY <1>1 DEF Progress, Validated
<1>8. Counted'
  <2>1. results = <<>> /\ Len(blocks) \in Nat
    BY <1>1, BlockFacts DEF Shape, Progress
  <2> QED BY <1>1, <2>1, EmptyList DEF Counted
<1> QED BY <1>1, <1>2, <1>5, <1>6, <1>7, <1>8 DEF Progress, Asked

LEMMA AnalyzeProgress ==
    ASSUME Shape, Progress, Analyze, Live'
    PROVE  Progress'
<1>1. /\ phase = "analyzing" /\ at <= Len(blocks) /\ stream = Idle
      /\ UNCHANGED <<input, blocks, references, catalog>>
  BY DEF Analyze
<1>2. at \in DOMAIN blocks /\ input.Connected
  BY <1>1, BlockFacts DEF Progress, Live
<1>3. ResolvesIn(blocks[at])
  BY DEF Analyze, Diagnose, Live
<1>4. CASE Explain(blocks[at].Name, ExpandedUses(blocks[at]), {})
  BY <1>1, <1>3, <1>4, SendProgress
<1>5. CASE /\ ~(input.Connected /\ blocks[at].Embeds)
           /\ results' = Append(results, Result(blocks[at])) /\ NextItem
           /\ UNCHANGED <<phase, stream, received, diagnosed, history>>
  <2>1. blocks[at].Name \in compiled
    BY <1>1, <1>2, <1>5 DEF Progress, Validated
  <2> QED BY <1>1, <1>2, <1>3, <1>5, <2>1, AnswerProgress DEF NextItem, history
<1> QED BY <1>3, <1>4, <1>5 DEF Analyze

\* The loop over the queries has come to its end.
LEMMA EndsProgress ==
    ASSUME Shape, ErrorInv, Progress, AnalyzeEnd \/ Close, Live'
    PROVE  Progress'
<1>1. /\ UNCHANGED <<input, blocks, stream, catalog, results, compiled, seen>>
      /\ stream = Idle
      /\ \/ phase = "analyzing" /\ at > Len(blocks) /\ phase' = "closing"
         \/ phase = "closing" /\ phase' = "ok"
  BY DEF AnalyzeEnd, Close, Enter, Live, history, ErrorInv, Pending
<1>2. Grow
  BY <1>1 DEF Grow
<1>3. ASSUME NEW k \in DOMAIN catalog PROVE Described(catalog[k])'
  <2>1. PICK t : t = catalog[k]
    OBVIOUS
  <2>2. Described(t)
    BY <1>1, <2>1 DEF Progress, Known
  <2>3. Described(t)'
    BY <1>2, <2>2, DescribedStays
  <2> QED BY <1>1, <2>1, <2>3 DEF Described
<1>4. Known'
  BY <1>1, <1>3 DEF Known
<1>5. AllAnswered'
  BY <1>1, <1>2, AnswersStay DEF Progress
<1>6. Validated'
  BY <1>1 DEF Progress, Validated
<1>7. Counted'
  <2>1. Len(blocks) \in Nat /\ at \in Nat
    BY <1>1, BlockFacts DEF Shape, Progress
  <2>2. Len(results) = Len(blocks)
    BY <1>1, <2>1 DEF Progress, Counted
  <2> QED BY <1>1, <2>2 DEF Counted
<1> QED BY <1>1, <1>4, <1>5, <1>6, <1>7 DEF Progress, Asked

LEMMA SuccessStep == ErrorInv /\ SuccessInv /\ [Next]_vars => SuccessInv'
<1> SUFFICES ASSUME ErrorInv, SuccessInv, [Next]_vars PROVE SuccessInv'
  OBVIOUS
<1>1. Shape /\ Shape'
  BY ShapeStep DEF SuccessInv
<1> SUFFICES ASSUME Live' PROVE Progress'
  BY <1>1 DEF SuccessInv
<1>2. CASE Prepare
  BY <1>1, <1>2, PrepareProgress
<1>3. ~OpenFails /\ ~DescribeFails /\ ~CloseFails
  BY DEF OpenFails, DescribeFails, CloseFails, Diagnose, Live
<1>4. CASE ~Prepare
  <2>1. Progress
    BY <1>4, StillFine DEF Live, SuccessInv
  <2>2. CASE Validate \/ ValidateEnd
    BY <1>1, <2>1, <2>2, ValidateProgress, ValidateEndProgress
  <2>3. CASE Receive \/ ReceiveEOF \/ ReceiveFails
    BY <1>1, <2>1, <2>3, ReceiveProgress
  <2>4. CASE Describe \/ DescribeEnd
    BY <1>1, <2>1, <2>4, DescribeProgress, DescribeEndProgress
  <2>5. CASE Analyze \/ AnalyzeEnd \/ Close
    BY <1>1, <2>1, <2>5, AnalyzeProgress, EndsProgress
  <2>6. CASE Migrate \/ UNCHANGED vars
    <3>1. UNCHANGED <<input, phase, blocks, at, references, stream, received,
                      catalog, results, compiled, seen>>
      BY <2>6 DEF Migrate, vars, history
    <3>2. Doomed => Doomed'
      BY <3>1 DEF Doomed
    <3> QED BY <2>1, <3>1, <3>2, WaitProgress
  <2> QED BY <1>3, <1>4, <2>2, <2>3, <2>4, <2>5, <2>6 DEF Next, Step
<1> QED BY <1>2, <1>4

\* A connected analysis that succeeds has checked everything it says.
THEOREM SuccessesWereChecked == Spec => []SuccessWasChecked
<1>1. ErrorInv /\ SuccessInv => SuccessWasChecked
  <2> SUFFICES ASSUME ErrorInv, SuccessInv, phase = "ok", input.Connected
               PROVE  SuccessWasChecked
    BY DEF SuccessWasChecked
  <2>1. Shape /\ Live /\ Progress
    BY InputFacts DEF ErrorInv, Recorded, SuccessInv, Live
  <2>2. Len(results) = Len(input.Queries)
    BY <2>1 DEF Progress, Counted
  <2>3. ASSUME NEW i \in DOMAIN results
        PROVE  /\ results[i].Name = input.Queries[i].Name
               /\ results[i].Name \in compiled
               /\ \A u \in DOMAIN results[i].Columns :
                     \E d \in seen[u[1]] \ {Missing} :
                         \E c \in Range(d.Columns) :
                             /\ c.Name = u[2]
                             /\ c.Type = results[i].Columns[u]
    BY <2>1 DEF Progress, AllAnswered, Answered, Reported
  <2>4. ASSUME NEW table \in Range(input.Tables)
        PROVE  \E d \in seen[table.Name] \ {Missing} : Equivalent(table, d)
    <3>1. PICK k \in DOMAIN input.Tables : table = input.Tables[k]
      BY DEF Range
    <3>2. input.Given /\ HasLists(table)
      BY <2>1, <3>1, InputFacts, EmptyList DEF IsLocalSchema
    <3>3. Described(table)
      BY <2>1, <3>1, <3>2 DEF Shape, Progress, Known
    <3>4. PICK d \in seen[table.Name] \ {Missing} :
              /\ Decodes(d)
              /\ compareDatabaseTable(table, decodeTable(table.Name, d))
      BY <3>2, <3>3 DEF Described
    <3>5. d \in Descriptions
      BY <2>1, <3>3 DEF Shape, Described
    <3>6. HasLists(d)
      BY <3>5, DatabaseAssumption
    <3>7. Equivalent(table, d)
      BY <3>2, <3>4, <3>6, ComparedIsEquivalent
    <3> QED BY <3>7
  <2> QED BY <2>2, <2>3, <2>4 DEF SuccessWasChecked
<1> QED BY <1>1, ErrorInvInit, ErrorInvStep, SuccessInit, SuccessStep, PTL
        DEF Spec

-----------------------------------------------------------------------------
(***************************************************************************)
(* The verdict, with a server that answers and does not change.             *)
(***************************************************************************)
\* The server says of a table what it is, as long as nobody changes it.
Steady ==
    /\ migrations \in Nat
    /\ migrations = 0 => \A t \in TableNames : seen[t] \subseteq {server[t]}

\* What has been found in order when there is nothing to report.
Passed ==
    /\ phase # "starting" =>
          /\ input.Sound /\ input.Readable
          /\ input.Parameters \subseteq KnownNames
          /\ \A i \in DOMAIN input.Queries : ValidAt(i)
          /\ blocks = input.Queries
    /\ phase = "analyzing" =>
          /\ \A k \in DOMAIN blocks : k < at => ResolvesIn(blocks[k])
          /\ stream # Idle => ResolvesIn(blocks[at])
    /\ phase \in {"closing", "ok"} =>
          \A k \in DOMAIN blocks : ResolvesIn(blocks[k])

\* The tables that the queries refer to.
Mentioned == UNION {TablesOf(blocks[i]) : i \in DOMAIN blocks}

\* Each of them is described, when there is no local schema.
Complete ==
    ~input.Given =>
        /\ phase = "describing" =>
              /\ Range(references) = Mentioned
              /\ \A k \in DOMAIN references :
                     k < at => references[k] \in Names(catalog)
        /\ phase = "analyzing" => Mentioned \subseteq Names(catalog)

Quiet == faulty = FALSE /\ migrations = 0

\* Nothing is wrong with acceptable input.
Spared ==
    Quiet /\ Acceptable => diagnosed = FALSE /\ phase # "failed" /\ ~Doomed

\* The phases that make requests belong to a connected analysis.
Connects == phase \in {"validating", "describing"} => input.Connected

VerdictInv ==
    /\ Steady /\ Connects
    /\ faulty \in BOOLEAN
    /\ diagnosed = FALSE => Passed /\ (phase # "starting" => Complete)
    /\ Spared

LEMMA AcceptableStays ==
    ASSUME UNCHANGED <<input, server>>
    PROVE  Acceptable' <=> Acceptable
BY DEF Acceptable, QueryAcceptable

\* As long as the server does not change, it is what it has been described.
LEMMA DescribedNow ==
    ASSUME Shape, Steady, migrations = 0, NEW table, Described(table)
    PROVE  LET d == server[table.Name]
           IN  /\ d # Missing /\ d \in Descriptions /\ Decodes(d)
               /\ IF input.Given
                  THEN compareDatabaseTable(table, decodeTable(table.Name, d))
                  ELSE table = decodeTable(table.Name, d)
               /\ Names(table.Columns) = Names(d.Columns)
<1> DEFINE d == server[table.Name]
           remote == decodeTable(table.Name, d)
<1>1. /\ d # Missing /\ d \in Descriptions /\ Decodes(d)
      /\ IF input.Given THEN compareDatabaseTable(table, remote) ELSE table = remote
  BY DEF Described, Steady, Shape
<1>2. Names(remote.Columns) = Names(d.Columns)
  BY DecodedTable
<1> HIDE DEF d, remote
<1>3. Names(table.Columns) = Names(remote.Columns)
  BY <1>1 DEF compareDatabaseTable, Names
<1> QED BY <1>1, <1>2, <1>3 DEF d, remote

\* The tables to describe are the tables that are mentioned.
LEMMA ReferencesCover ==
    ASSUME Shape, blocks = input.Queries, ~input.Given, NEW refs \in References
    PROVE  Range(refs) = Mentioned
<1> DEFINE n == Cardinality(Mentioned)
<1>1. Mentioned \subseteq TableNames
  <2>1. \A i \in DOMAIN blocks : IsQuery(blocks[i])
    BY InputFacts
  <2>2. \A i \in DOMAIN blocks : TablesOf(blocks[i]) \subseteq TableNames
    BY <2>1 DEF IsQuery, TablesOf
  <2> QED BY <2>2 DEF Mentioned
<1>2. IsFiniteSet(Mentioned) /\ n \in Nat
  BY <1>1, FS_Subset, FS_CardinalityType, DatabaseAssumption
<1>3. refs \in [1 .. n -> Mentioned] /\ \A i, j \in 1 .. n : i # j => refs[i] # refs[j]
  BY DEF References, SetToSeqs, Mentioned
<1>4. refs \in Injection(1 .. n, Mentioned)
  BY <1>3 DEF Injection, IsInjective
<1>5. Cardinality(1 .. n) = n
  BY <1>2, FS_Interval
<1>6. refs \in Surjection(1 .. n, Mentioned)
  BY <1>2, <1>4, <1>5, FS_Injection
<1> HIDE DEF n
<1> QED BY <1>3, <1>6 DEF Surjection, Range

LEMMA SteadyStep ==
    ASSUME Shape, Steady, faulty \in BOOLEAN, [Next]_vars
    PROVE  /\ Steady' /\ faulty' \in BOOLEAN
           /\ Quiet' => Quiet /\ server' = server
<1>1. ASSUME NEW success, ExplainEnds(success)
      PROVE  UNCHANGED <<server, seen, migrations>>
  BY <1>1 DEF ExplainEnds
<1>2. CASE \/ Prepare \/ OpenFails \/ Validate \/ ValidateEnd
           \/ Receive \/ ReceiveEOF \/ ReceiveFails
           \/ DescribeFails \/ DescribeEnd
           \/ Analyze \/ AnalyzeEnd \/ Close \/ CloseFails
           \/ UNCHANGED vars
  <2>1. UNCHANGED <<server, seen, migrations>>
    BY <1>1, <1>2
       DEF vars, history, Prepare, OpenFails, Validate, ValidateEnd, Explain,
           Receive, ReceiveEOF, ReceiveFails, DescribeFails, DescribeEnd,
           Analyze, AnalyzeEnd, Close, CloseFails
  <2>2. faulty' = faulty \/ faulty' = TRUE
    BY <1>2
       DEF vars, history, Prepare, OpenFails, Validate, ValidateEnd, Explain,
           Receive, ReceiveEOF, ReceiveFails, DescribeFails, DescribeEnd,
           Analyze, AnalyzeEnd, Close, CloseFails
  <2> QED BY <2>1, <2>2 DEF Steady, Quiet
<1>3. CASE Describe
  <2> DEFINE name == references[at]
  <2>1. /\ UNCHANGED <<server, faulty, migrations>>
        /\ seen' = [seen EXCEPT ![name] = @ \cup {server[name]}]
    BY <1>3 DEF Describe
  <2>2. seen \in [TableNames -> SUBSET (Descriptions \cup {Missing})]
    BY DEF Shape
  <2> HIDE DEF name
  <2> QED BY <2>1, <2>2 DEF Steady, Quiet
<1>4. CASE Migrate
  BY <1>4 DEF Migrate, Steady, Quiet
<1> QED BY <1>2, <1>3, <1>4 DEF Next, Step

\* What Prepare lets pass.
LEMMA PrepareFacts ==
    ASSUME Shape, Prepare, diagnosed' = FALSE
    PROVE  /\ phase = "starting"
           /\ input.Sound /\ input.Readable
           /\ input.Parameters \subseteq KnownNames
           /\ \A i \in DOMAIN input.Queries : ValidAt(i)
           /\ blocks' = input.Queries /\ at' = 1
           /\ phase' = IF input.Connected THEN "validating" ELSE "analyzing"
           /\ UNCHANGED <<input, stream, catalog>>
<1> DEFINE clean == /\ input.Readable
                    /\ \A i \in DOMAIN input.Queries : ValidAt(i)
           goesOn == input.Sound /\ input.Parameters \subseteq KnownNames
           next == IF ~input.Connected THEN "analyzing"
                   ELSE IF clean THEN "validating" ELSE "closing"
<1>1. phase = "starting" /\ UNCHANGED <<input, stream, catalog>>
  BY DEF Prepare
<1>2. /\ goesOn /\ diagnosed' = ~clean /\ blocks' = ValidQueries
      /\ phase' = next /\ at' = 1
  BY DEF Prepare, Diagnose, Enter
<1>3. clean
  BY <1>2
<1>4. blocks' = input.Queries
  BY <1>2, <1>3, InputFacts, AllValid
<1> QED BY <1>1, <1>2, <1>3, <1>4

LEMMA PassedStep ==
    ASSUME Shape, ErrorInv, diagnosed = FALSE => Passed, [Next]_vars,
           diagnosed' = FALSE
    PROVE  Passed'
<1>1. CASE Prepare
  <2>1. KnownNames' = KnownNames
    BY <1>1, PrepareFacts DEF KnownNames, IsFirst
  <2>2. \A i : ValidAt(i)' <=> ValidAt(i)
    BY <1>1, PrepareFacts DEF ValidAt, IsFirst
  <2>3. \A k \in DOMAIN input.Queries : ~(k < 1)
    BY InputFacts, ListFacts
  <2>4. stream = Idle
    BY <1>1, PrepareFacts DEF ErrorInv, Pending
  <2> QED BY <1>1, <2>1, <2>2, <2>3, <2>4, PrepareFacts DEF Passed
<1>2. CASE ~Prepare
  <2>1. input' = input /\ Passed
    BY <1>2, StillFine
  <2>2. KnownNames' = KnownNames /\ \A i : ValidAt(i)' <=> ValidAt(i)
    BY <2>1 DEF KnownNames, ValidAt, IsFirst
  <2>3. ~OpenFails /\ ~DescribeFails /\ ~CloseFails /\ ~ExplainEnds(FALSE)
    BY DEF OpenFails, DescribeFails, CloseFails, ExplainEnds, Diagnose
  <2>4. ASSUME UNCHANGED blocks, phase # "starting"
        PROVE  phase' # "starting" =>
                  /\ input'.Sound /\ input'.Readable
                  /\ input'.Parameters \subseteq KnownNames'
                  /\ \A i \in DOMAIN input'.Queries : ValidAt(i)'
                  /\ blocks' = input'.Queries
    BY <2>1, <2>2, <2>4 DEF Passed
  <2>5. CASE Validate \/ ValidateEnd \/ Describe
    <3>1. /\ phase \in {"validating", "describing"} /\ UNCHANGED blocks
          /\ phase' \in {"validating", "describing"}
      BY <2>5 DEF Validate, Explain, ValidateEnd, Describe, Diagnose, Enter
    <3> QED BY <2>4, <3>1 DEF Passed
  <2>6. CASE DescribeEnd
    <3>1. /\ phase = "describing" /\ phase' = "analyzing" /\ at' = 1
          /\ UNCHANGED <<blocks, stream>>
      BY <2>1, <2>6 DEF DescribeEnd, Enter
    <3>2. stream = Idle
      BY <3>1 DEF ErrorInv, Pending
    <3>3. \A k \in DOMAIN blocks : ~(k < 1)
      BY <2>1, <3>1, BlockFacts DEF Passed
    <3> QED BY <2>4, <3>1, <3>2, <3>3 DEF Passed
  <2>7. CASE Analyze
    <3>1. /\ phase = "analyzing" /\ phase' = "analyzing"
          /\ UNCHANGED <<blocks, catalog>> /\ ResolvesIn(blocks[at])
          /\ \/ at' = at /\ stream = Idle
             \/ at' = at + 1 /\ stream' = Idle
      BY <2>7 DEF Analyze, Explain, NextItem, Diagnose
    <3>2. at \in Nat /\ \A k \in DOMAIN blocks : k \in Nat
      BY <2>1, <3>1, BlockFacts DEF Passed, Shape
    <3>3. \A q : ResolvesIn(q)' <=> ResolvesIn(q)
      BY <3>1 DEF ResolvesIn
    <3>4. \A k \in DOMAIN blocks : k < at + 1 => k < at \/ k = at
      BY <3>2
    <3>5. \A k \in DOMAIN blocks : k < at' => ResolvesIn(blocks[k])
      BY <2>1, <3>1, <3>4 DEF Passed
    <3>6. stream' # Idle => at' = at
      BY <3>1
    <3> QED BY <2>4, <3>1, <3>3, <3>5, <3>6 DEF Passed
  <2>8. CASE Receive \/ ReceiveEOF \/ ReceiveFails
    <3>1. stream # Idle
      <4>1. <<>> # Idle
        BY DEF Idle
      <4> QED BY <2>8, <4>1 DEF Receive, ReceiveEOF, ReceiveFails
    <3>2. \/ UNCHANGED <<phase, blocks, at, catalog>>
          \/ /\ stream' = Idle /\ at' = at + 1
             /\ UNCHANGED <<phase, blocks, catalog>>
      <4>1. ASSUME NEW success, ExplainEnds(success)
            PROVE  /\ stream' = Idle /\ at' = at + 1
                   /\ UNCHANGED <<phase, blocks, catalog>>
        BY <4>1 DEF ExplainEnds, NextItem
      <4> QED BY <2>3, <2>8, <4>1 DEF Receive, ReceiveEOF, ReceiveFails
    <3>3. phase \in {"validating", "analyzing"}
      BY <3>1 DEF ErrorInv, Pending
    <3>4. at \in Nat /\ \A k \in DOMAIN blocks : k \in Nat
      BY <2>1, <3>3, BlockFacts DEF Passed, Shape
    <3>5. \A q : ResolvesIn(q)' <=> ResolvesIn(q)
      BY <3>2 DEF ResolvesIn
    <3>6. \A k \in DOMAIN blocks : k < at + 1 => k < at \/ k = at
      BY <3>4
    <3>7. phase = "analyzing" =>
              \A k \in DOMAIN blocks : k < at' => ResolvesIn(blocks[k])
      BY <2>1, <3>1, <3>2, <3>6 DEF Passed
    <3>8. stream' # Idle => at' = at
      BY <3>2
    <3> QED BY <2>1, <2>4, <3>1, <3>2, <3>3, <3>5, <3>7, <3>8 DEF Passed
  <2>9. CASE AnalyzeEnd
    <3>1. /\ phase = "analyzing" /\ phase' = "closing" /\ at > Len(blocks)
          /\ UNCHANGED <<blocks, catalog>>
      BY <2>9 DEF AnalyzeEnd, Enter
    <3>2. \A k \in DOMAIN blocks : k < at
      BY <2>1, <3>1, BlockFacts DEF Passed, Shape
    <3>3. \A q : ResolvesIn(q)' <=> ResolvesIn(q)
      BY <3>1 DEF ResolvesIn
    <3> QED BY <2>1, <2>4, <3>1, <3>2, <3>3 DEF Passed
  <2>10. CASE Close
    <3>1. /\ phase = "closing" /\ phase' = "ok" /\ UNCHANGED <<blocks, catalog>>
      BY <2>1, <2>10, StillFine DEF Close, Enter
    <3>2. \A q : ResolvesIn(q)' <=> ResolvesIn(q)
      BY <3>1 DEF ResolvesIn
    <3> QED BY <2>1, <2>4, <3>1, <3>2 DEF Passed
  <2>11. CASE Migrate \/ UNCHANGED vars
    <3>1. UNCHANGED <<input, phase, blocks, at, stream, catalog>>
      BY <2>11 DEF Migrate, vars
    <3>2. \A q : ResolvesIn(q)' <=> ResolvesIn(q)
      BY <3>1 DEF ResolvesIn
    <3> QED BY <2>1, <2>2, <3>1, <3>2 DEF Passed
  <2> QED BY <1>2, <2>3, <2>5, <2>6, <2>7, <2>8, <2>9, <2>10, <2>11 DEF Next, Step
<1> QED BY <1>1, <1>2

LEMMA CompleteStep ==
    ASSUME Shape, ErrorInv, Live => Progress,
           diagnosed = FALSE /\ phase # "starting" => Complete,
           [Next]_vars, diagnosed' = FALSE, phase' # "starting"
    PROVE  Complete'
<1> SUFFICES ASSUME ~input'.Given PROVE Complete'
  BY DEF Complete
<1>1. CASE Prepare
  <2>1. ~input.Given
    BY <1>1, PrepareFacts
  <2>2. input.Connected
    BY <2>1, DatabaseAssumption DEF Shape, IsInput
  <2> QED BY <1>1, <2>2, PrepareFacts DEF Complete
<1>2. CASE ~Prepare
  <2>1. diagnosed = FALSE /\ input' = input /\ ~input.Given
    BY <1>2, StillFine
  <2>2. Live /\ Progress
    BY <2>1, DatabaseAssumption DEF Shape, IsInput, Live
  <2>3. ~OpenFails /\ ~DescribeFails /\ ~CloseFails /\ ~ExplainEnds(FALSE)
    BY DEF OpenFails, DescribeFails, CloseFails, ExplainEnds, Diagnose
  <2>4. CASE Validate \/ AnalyzeEnd \/ Close
    <3>1. phase' \in {"validating", "closing", "ok", "failed"}
      BY <2>4 DEF Validate, Explain, AnalyzeEnd, Close, Enter
    <3> QED BY <3>1 DEF Complete
  <2>5. CASE ValidateEnd
    <3>1. /\ phase = "validating" /\ phase' = "describing" /\ at' = 1
          /\ references' \in References /\ UNCHANGED blocks
      BY <2>5 DEF ValidateEnd, Diagnose, Enter
    <3>2. PICK refs : refs = references'
      OBVIOUS
    <3>3. Range(refs) = Mentioned /\ IsList(refs)
      BY <2>1, <2>2, <3>1, <3>2, ReferencesCover, ReferencesListed DEF Progress
    <3>4. \A k \in DOMAIN refs : ~(k < 1)
      BY <3>3, ListFacts
    <3> QED BY <3>1, <3>2, <3>3, <3>4 DEF Complete, Mentioned
  <2>6. CASE Describe
    <3> DEFINE name == references[at]
               table == decodeTable(name, server[name])
    <3>1. /\ phase = "describing" /\ phase' = phase /\ at' = at + 1
          /\ UNCHANGED <<blocks, references>>
          /\ catalog' = Append(catalog, table)
      BY <2>1, <2>6 DEF Describe, NextItem, Diagnose
    <3>2. table.Name = name
      BY DecodedTable
    <3> HIDE DEF table
    <3>3. /\ DOMAIN catalog' = DOMAIN catalog \cup {Len(catalog) + 1}
          /\ \A k \in DOMAIN catalog : catalog'[k] = catalog[k]
          /\ catalog'[Len(catalog) + 1] = table
      BY <3>1, AppendToList DEF Shape
    <3>4. Names(catalog) \subseteq Names(catalog)' /\ name \in Names(catalog)'
      BY <3>2, <3>3 DEF Names
    <3>5. at \in Nat /\ \A k \in DOMAIN references : k \in Nat
      BY <2>2, <3>1, ListFacts DEF Progress, Listed, Shape
    <3>6. \A k \in DOMAIN references : k < at + 1 => k < at \/ k = at
      BY <3>5
    <3>7. \A k \in DOMAIN references : k < at => references[k] \in Names(catalog)
      BY <2>1, <3>1 DEF Complete
    <3>8. Range(references) = Mentioned
      BY <2>1, <3>1 DEF Complete
    <3> QED BY <3>1, <3>4, <3>6, <3>7, <3>8 DEF Complete, Mentioned
  <2>7. CASE DescribeEnd
    <3>1. /\ phase = "describing" /\ phase' = "analyzing" /\ at > Len(references)
          /\ UNCHANGED <<blocks, references, catalog>>
      BY <2>1, <2>7 DEF DescribeEnd, Enter
    <3>2. Range(references) \subseteq Names(catalog)
      <4>1. \A k \in DOMAIN references : k < at
        BY <2>2, <3>1, ListFacts DEF Progress, Listed, Shape
      <4> QED BY <2>1, <3>1, <4>1 DEF Complete, Range
    <3> QED BY <2>1, <3>1, <3>2 DEF Complete, Mentioned
  <2>8. CASE \/ Analyze \/ Receive \/ ReceiveEOF \/ ReceiveFails
             \/ Migrate \/ UNCHANGED vars
    <3>1. ASSUME NEW success, ExplainEnds(success)
          PROVE  UNCHANGED <<phase, blocks, catalog>>
      BY <3>1 DEF ExplainEnds
    <3>2. /\ UNCHANGED <<phase, blocks, catalog>>
          /\ phase = "describing" => UNCHANGED <<at, references>>
      <4>1. CASE Receive \/ ReceiveEOF \/ ReceiveFails
        <5>1. stream # Idle
          <6>1. <<>> # Idle
            BY DEF Idle
          <6> QED BY <4>1, <6>1 DEF Receive, ReceiveEOF, ReceiveFails
        <5>2. phase # "describing"
          BY <5>1 DEF ErrorInv, Pending
        <5> QED BY <3>1, <4>1, <5>2 DEF Receive, ReceiveEOF, ReceiveFails
      <4>2. CASE Analyze
        BY <4>2 DEF Analyze, Explain
      <4>3. CASE Migrate \/ UNCHANGED vars
        BY <4>3 DEF Migrate, vars
      <4> QED BY <2>8, <4>1, <4>2, <4>3
    <3> QED BY <2>1, <3>2 DEF Complete, Mentioned
  <2> QED BY <1>2, <2>3, <2>4, <2>5, <2>6, <2>7, <2>8 DEF Next, Step
<1> QED BY <1>1, <1>2

LEMMA ColumnNamed ==
    ASSUME NEW columns, NEW name
    PROVE  HasColumn(columns, name) <=> name \in Names(columns)
BY DEF HasColumn, Names, Range

\* The server compiles what an acceptable query refers to.
LEMMA AcceptableCompiles ==
    ASSUME NEW q, QueryAcceptable(q), input.Connected
    PROVE  ServerCompiles(q.Uses, q.Expands)
BY ColumnNamed DEF QueryAcceptable, ServerCompiles, TablesOf

\* What the loop over the queries knows of the tables of acceptable input.
Ready ==
    /\ Shape /\ Steady /\ migrations = 0
    /\ phase = "analyzing" /\ blocks = input.Queries
    /\ Complete /\ Acceptable
    /\ input.Connected => Progress

LEMMA MentionedKnown ==
    ASSUME Ready, NEW i \in DOMAIN blocks
    PROVE  TablesOf(blocks[i]) \subseteq Names(catalog)
<1>1. QueryAcceptable(blocks[i])
  BY DEF Ready, Acceptable, Range
<1>2. CASE input.Given
  BY <1>1, <1>2 DEF Ready, Shape, QueryAcceptable, Names, Range
<1>3. CASE ~input.Given
  BY <1>3 DEF Ready, Complete, Mentioned
<1> QED BY <1>2, <1>3

\* The catalog and the server agree on the columns of a table.
LEMMA FoundIsServed ==
    ASSUME Ready, input.Connected, NEW t \in Names(catalog)
    PROVE  /\ server[t] # Missing
           /\ Names(Find(catalog, t).Columns) = Names(server[t].Columns)
<1>1. PICK k \in DOMAIN catalog : Find(catalog, t) = catalog[k] /\ catalog[k].Name = t
  BY FindFacts
<1>2. Described(catalog[k])
  BY DEF Ready, Progress, Known
<1> QED BY <1>1, <1>2, DescribedNow DEF Ready

LEMMA AcceptableResolves ==
    ASSUME Ready, NEW i \in DOMAIN blocks
    PROVE  ResolvesIn(blocks[i])
<1> DEFINE q == blocks[i]
<1>1. QueryAcceptable(q)
  BY DEF Ready, Acceptable, Range
<1>2. TablesOf(q) \subseteq Names(catalog)
  BY MentionedKnown
<1>3. ASSUME NEW u \in q.Uses PROVE u[2] \in Names(Find(catalog, u[1]).Columns)
  <2>1. CASE input.Given
    <3>1. PICK table \in Range(input.Tables) :
              table.Name = u[1] /\ HasColumn(table.Columns, u[2])
      BY <1>1, <2>1 DEF QueryAcceptable
    <3>2. PICK k \in DOMAIN input.Tables : table = input.Tables[k]
      BY DEF Range
    <3>3. NamesDistinct(input.Tables) /\ catalog = input.Tables
      BY <2>1, InputFacts DEF Ready, Shape, IsLocalSchema
    <3>4. Find(catalog, u[1]) = table
      BY <3>1, <3>2, <3>3, FindUnique
    <3> QED BY <3>1, <3>4, ColumnNamed
  <2>2. CASE ~input.Given
    <3>1. input.Connected
      BY <2>2, DatabaseAssumption DEF Ready, Shape, IsInput
    <3>2. HasColumn(server[u[1]].Columns, u[2]) /\ u[1] \in TablesOf(q)
      BY <1>1, <3>1 DEF QueryAcceptable, TablesOf
    <3>3. Names(Find(catalog, u[1]).Columns) = Names(server[u[1]].Columns)
      BY <1>2, <3>1, <3>2, FoundIsServed
    <3> QED BY <3>2, <3>3, ColumnNamed
  <2> QED BY <2>1, <2>2
<1>4. q.Parses /\ q.Declares /\ q.Static /\ q.Resolves
  BY <1>1 DEF QueryAcceptable
<1> QED BY <1>2, <1>3, <1>4 DEF ResolvesIn

\* The server compiles the text in which the wildcards are expanded.
LEMMA ExpandedCompiles ==
    ASSUME Ready, input.Connected, NEW i \in DOMAIN blocks
    PROVE  ServerCompiles(ExpandedUses(blocks[i]), {})
<1> DEFINE q == blocks[i]
<1>1. ServerCompiles(q.Uses, q.Expands)
  BY AcceptableCompiles DEF Ready, Acceptable, Range
<1>2. ASSUME NEW t \in q.Expands, NEW u \in CatalogColumns(t)
      PROVE  server[u[1]] # Missing /\ u[2] \in Names(server[u[1]].Columns)
  <2>1. t \in Names(catalog)
    BY MentionedKnown DEF TablesOf
  <2>2. PICK c \in Names(Find(catalog, t).Columns) : u = <<t, c>>
    BY <1>2 DEF CatalogColumns
  <2>3. u[1] = t /\ u[2] = c
    BY <2>2
  <2> QED BY <2>1, <2>2, <2>3, FoundIsServed
<1> HIDE DEF q
<1>3. ServerCompiles(ExpandedUses(q), {})
  BY <1>1, <1>2 DEF ServerCompiles, ExpandedUses
<1> QED BY <1>3 DEF q

\* A text that compiles is answered with successes.
LEMMA CompiledIsSpared ==
    ASSUME NEW name, NEW uses, NEW expands, Explain(name, uses, expands),
           ServerCompiles(uses, expands), Quiet'
    PROVE  ~Doomed' /\ diagnosed' = diagnosed /\ phase' = phase
<1>1. PICK n \in 1 .. MaxParts : stream' = Successes(n)
  BY DEF Explain, Quiet
<1>2. /\ DOMAIN Successes(n) = 1 .. n
      /\ \A i \in 1 .. n : Successes(n)[i] = "success"
  BY DEF Successes
<1>3. 1 \in DOMAIN Successes(n)
  BY <1>2, DatabaseAssumption
<1>4. stream' # <<>>
  BY <1>1, <1>3
<1>5. ~Doomed'
  BY <1>1, <1>2, <1>4 DEF Doomed
<1> QED BY <1>5 DEF Explain

\* Every query of acceptable input is valid, and configured by its name.
LEMMA AcceptableIsValid ==
    ASSUME Shape, Acceptable
    PROVE  /\ input.Parameters \subseteq KnownNames
           /\ \A i \in DOMAIN input.Queries : ValidAt(i)
<1>1. Len(input.Queries) \in Nat /\ DOMAIN input.Queries = 1 .. Len(input.Queries)
  BY InputFacts, ListFacts
<1>2. ASSUME NEW i \in DOMAIN input.Queries PROVE IsFirst(i)
  <2>1. \A j \in 1 .. i - 1 : j \in DOMAIN input.Queries /\ j # i
    BY <1>1
  <2> QED BY <2>1 DEF Acceptable, IsFirst
<1>3. input.Parameters \subseteq KnownNames
  <2>1. ASSUME NEW name \in input.Parameters
        PROVE  \E i \in DOMAIN input.Queries : input.Queries[i].Name = name
    BY DEF Acceptable, Range
  <2> QED BY <1>2, <2>1 DEF KnownNames
<1>4. \A i \in DOMAIN input.Queries : input.Queries[i].Lowers
  BY DEF Acceptable, QueryAcceptable, Range
<1> QED BY <1>2, <1>3, <1>4 DEF ValidAt

\* Whatever is described of acceptable input passes.
LEMMA AcceptableIsDescribed ==
    ASSUME Shape, Progress, Complete, input.Connected, diagnosed = FALSE,
           Acceptable, blocks = input.Queries, Describe
    PROVE  diagnosed' = FALSE
<1> DEFINE name == references[at]
           d == server[name]
           found == Find(catalog, name)
           same == compareDatabaseTable(found, decodeTable(name, d))
<1>1. /\ phase = "describing" /\ at <= Len(references)
      /\ \/ ~(d # Missing /\ Decodes(d))
         \/ ~input.Given /\ diagnosed' = diagnosed
         \/ input.Given /\ diagnosed' = (diagnosed \/ ~same)
  BY Zenon DEF Describe
<1>2. at \in DOMAIN references
  BY <1>1, ListFacts DEF Progress, Listed, Shape
<1>3. CASE input.Given
  <2> DEFINE table == input.Tables[at]
  <2>1. at \in DOMAIN input.Tables /\ name = table.Name /\ catalog = input.Tables
    BY <1>1, <1>2, <1>3 DEF Progress, Listed, Shape
  <2>2. d # Missing /\ Decodes(d) /\ Equivalent(table, d)
    BY <2>1 DEF Acceptable, Range
  <2>3. /\ NamesDistinct(input.Tables)
        /\ NamesDistinct(table.Columns) /\ NamesDistinct(table.Indexes)
        /\ \A i \in DOMAIN table.Indexes : IsInjective(table.Indexes[i].DataColumns)
    BY <2>1, InputFacts DEF IsLocalSchema
  <2>4. found = table
    BY <2>1, <2>3, FindUnique
  <2> HIDE DEF table, d, found
  <2>5. same
    BY <2>2, <2>3, <2>4, EquivalentIsCompared
  <2> HIDE DEF same
  <2> QED BY <1>1, <1>3, <2>2, <2>5
<1>4. CASE ~input.Given
  <2>1. name \in Mentioned
    BY <1>1, <1>2, <1>4 DEF Complete, Range
  <2>2. PICK i \in DOMAIN blocks : name \in TablesOf(blocks[i])
    BY <2>1 DEF Mentioned
  <2>3. QueryAcceptable(blocks[i])
    BY DEF Acceptable, Range
  <2>4. d # Missing /\ Decodes(d)
    BY <1>4, <2>2, <2>3 DEF QueryAcceptable
  <2> HIDE DEF same, d
  <2> QED BY <1>1, <1>4, <2>4
<1> QED BY <1>3, <1>4

LEMMA SparedStep ==
    ASSUME Shape, ErrorInv, Live => Progress, VerdictInv, [Next]_vars
    PROVE  Spared'
<1> SUFFICES ASSUME Quiet', Acceptable'
             PROVE  diagnosed' = FALSE /\ phase' # "failed" /\ ~Doomed'
  BY DEF Spared
<1>1. Quiet /\ server' = server
  BY SteadyStep DEF VerdictInv
<1>2. ~OpenFails /\ ~DescribeFails /\ ~CloseFails /\ ~ReceiveFails
  BY DEF OpenFails, DescribeFails, CloseFails, ReceiveFails, Quiet
<1>3. input' = input
  BY <1>2
     DEF Next, Step, vars, Prepare, Validate, ValidateEnd, Receive, ReceiveEOF,
         ExplainEnds, Describe, DescribeEnd, Analyze, AnalyzeEnd, Close, Migrate
<1>4. Acceptable
  BY <1>1, <1>3, AcceptableStays
<1>5. diagnosed = FALSE /\ phase # "failed" /\ ~Doomed
  BY <1>1, <1>4 DEF VerdictInv, Spared
<1>6. Passed /\ (phase # "starting" => Complete)
  BY <1>5 DEF VerdictInv
<1>7. input.Connected => Progress
  BY <1>5, InputFacts DEF Live
<1>8. CASE Prepare
  <2> DEFINE clean == /\ input.Readable
                      /\ \A i \in DOMAIN input.Queries : ValidAt(i)
             goesOn == input.Sound /\ input.Parameters \subseteq KnownNames
             next == IF ~input.Connected THEN "analyzing"
                     ELSE IF clean THEN "validating" ELSE "closing"
  <2>1. clean /\ goesOn
    BY <1>4, AcceptableIsValid DEF Acceptable
  <2>2. /\ phase = "starting" /\ UNCHANGED stream
        /\ goesOn => diagnosed' = ~clean /\ phase' = next
    BY <1>8 DEF Prepare, Enter
  <2>3. stream' = Idle
    BY <2>2 DEF ErrorInv, Pending
  <2> HIDE DEF goesOn
  <2> QED BY <2>1, <2>2, <2>3 DEF Doomed
<1>9. CASE Validate
  <2>1. /\ phase = "validating" /\ at \in DOMAIN blocks /\ stream = Idle
        /\ blocks = input.Queries
    BY <1>6, <1>9, BlockFacts DEF Validate, Passed
  <2>2. QueryAcceptable(blocks[at]) /\ input.Connected
    <3>1. QueryAcceptable(blocks[at])
      BY <1>4, <2>1 DEF Acceptable, Range
    <3>2. input.Connected
      BY <2>1 DEF VerdictInv, Connects
    <3> QED BY <3>1, <3>2
  <2>3. CASE Explain(blocks[at].Name, blocks[at].Uses, blocks[at].Expands)
    BY <1>5, <2>1, <2>2, <2>3, AcceptableCompiles, CompiledIsSpared
  <2>4. CASE UNCHANGED <<phase, stream, diagnosed>>
    BY <1>5, <2>1, <2>4 DEF Doomed
  <2> QED BY <1>9, <2>2, <2>3, <2>4 DEF Validate, QueryAcceptable
<1>10. CASE ValidateEnd
  <2>1. blocks = input.Queries /\ stream = Idle
    BY <1>6, <1>10 DEF ValidateEnd, Passed
  <2>2. \A i \in DOMAIN blocks : blocks[i].Static
    BY <1>4, <2>1 DEF Acceptable, QueryAcceptable, Range
  <2> QED BY <1>5, <1>10, <2>1, <2>2 DEF ValidateEnd, Enter, Doomed
<1>11. CASE Receive \/ ReceiveEOF
  <2>1. Pending
    BY DEF ErrorInv
  <2>2. CASE Receive
    <3>1. /\ stream \in Seq(Parts) /\ stream # <<>> /\ stream # Idle
      BY <2>1, <2>2 DEF Receive, Pending
    <3>2. \A i \in DOMAIN stream : stream[i] = "success"
      BY <1>5, <3>1 DEF Doomed
    <3>3. Head(stream) = "success"
      BY <3>1, <3>2
    <3>4. /\ received' = TRUE /\ stream' = Tail(stream)
          /\ UNCHANGED <<phase, diagnosed>>
      BY <2>2, <3>3 DEF Receive
    <3>5. \A i \in DOMAIN Tail(stream) : Tail(stream)[i] = "success"
      BY <3>1, <3>2, HeadTailProperties
    <3> QED BY <1>5, <3>4, <3>5 DEF Doomed
  <2>3. CASE ReceiveEOF
    <3>1. stream = <<>> /\ <<>> # Idle /\ ExplainEnds(received)
      BY <2>3 DEF ReceiveEOF, Idle
    <3>2. received = TRUE
      BY <1>5, <2>1, <3>1 DEF Doomed, Pending
    <3>3. ExplainEnds(TRUE)
      BY <3>1, <3>2
    <3> QED BY <1>5, <3>3 DEF ExplainEnds, Doomed
  <2> QED BY <1>11, <2>2, <2>3
<1>12. CASE Describe
  <2>1. phase = "describing" /\ phase' = phase /\ stream' = stream
    BY <1>12 DEF Describe
  <2>2. blocks = input.Queries /\ Complete /\ stream = Idle
    BY <1>6, <2>1 DEF Passed, ErrorInv, Pending
  <2>3. input.Connected
    BY <2>1 DEF VerdictInv, Connects
  <2>4. diagnosed' = FALSE
    BY <1>4, <1>5, <1>7, <1>12, <2>2, <2>3, AcceptableIsDescribed
  <2> QED BY <2>1, <2>2, <2>4 DEF Doomed
<1>13. CASE DescribeEnd \/ AnalyzeEnd \/ Close
  <2>1. UNCHANGED <<stream, received, diagnosed>> /\ phase' # "failed"
    BY <1>5, <1>13 DEF DescribeEnd, AnalyzeEnd, Close, Enter
  <2> QED BY <1>5, <2>1 DEF Doomed
<1>14. CASE Analyze
  <2>1. /\ phase = "analyzing" /\ at \in DOMAIN blocks /\ stream = Idle
        /\ blocks = input.Queries
    BY <1>6, <1>14, BlockFacts DEF Analyze, Passed
  <2>2. Ready
    BY <1>1, <1>4, <1>6, <1>7, <2>1 DEF Ready, VerdictInv, Quiet
  <2>3. ResolvesIn(blocks[at])
    BY <2>1, <2>2, AcceptableResolves
  <2>4. CASE UNCHANGED <<phase, stream, diagnosed>>
    BY <1>5, <2>1, <2>4 DEF Doomed
  <2>5. CASE /\ input.Connected
             /\ Explain(blocks[at].Name, ExpandedUses(blocks[at]), {})
    BY <1>5, <2>1, <2>2, <2>5, ExpandedCompiles, CompiledIsSpared
  <2> QED BY <1>14, <2>3, <2>4, <2>5 DEF Analyze
<1>15. CASE Migrate \/ UNCHANGED vars
  <2>1. UNCHANGED <<stream, received, diagnosed, phase>>
    BY <1>15 DEF Migrate, vars
  <2> QED BY <1>5, <2>1 DEF Doomed
<1> QED BY <1>2, <1>8, <1>9, <1>10, <1>11, <1>12, <1>13, <1>14, <1>15
        DEF Next, Step

LEMMA VerdictStep ==
    ErrorInv /\ SuccessInv /\ VerdictInv /\ [Next]_vars => VerdictInv'
<1> SUFFICES ASSUME ErrorInv, SuccessInv, VerdictInv, [Next]_vars
             PROVE  VerdictInv'
  OBVIOUS
<1>1. Shape /\ (Live => Progress)
  BY DEF SuccessInv
<1>2. Steady' /\ faulty' \in BOOLEAN
  BY <1>1, SteadyStep DEF VerdictInv
<1>3. diagnosed' = FALSE => Passed'
  BY <1>1, PassedStep DEF VerdictInv
<1>4. diagnosed' = FALSE /\ phase' # "starting" => Complete'
  BY <1>1, CompleteStep DEF VerdictInv
<1>5. Spared'
  BY <1>1, SparedStep
<1>6. Connects'
  <2>1. CASE Prepare
    BY <2>1 DEF Prepare, Enter, Connects
  <2>2. CASE ~Prepare
    <3>1. ASSUME NEW success, ExplainEnds(success)
          PROVE  UNCHANGED <<input, phase>>
      BY <3>1 DEF ExplainEnds
    <3> QED BY <2>2, <3>1
            DEF Next, Step, vars, OpenFails, Validate, ValidateEnd, Explain,
                Receive, ReceiveEOF, ReceiveFails, Describe, DescribeFails,
                DescribeEnd, Analyze, AnalyzeEnd, Close, CloseFails, Migrate,
                Enter, VerdictInv, Connects
  <2> QED BY <2>1, <2>2
<1> QED BY <1>2, <1>3, <1>4, <1>5, <1>6 DEF VerdictInv

LEMMA VerdictInit == Init => VerdictInv
<1> SUFFICES ASSUME Init PROVE VerdictInv
  OBVIOUS
<1>1. Steady /\ faulty \in BOOLEAN
  BY DEF Init, Steady
<1>2. phase = "starting" /\ diagnosed = FALSE /\ stream = Idle
  BY DEF Init
<1> QED BY <1>1, <1>2 DEF VerdictInv, Connects, Passed, Spared, Doomed

\* What an analysis that succeeds has found out makes its input acceptable.
LEMMA SuccessIsAcceptable ==
    ASSUME Shape, Live => Progress, Steady, migrations = 0, Passed,
           diagnosed = FALSE, phase = "ok"
    PROVE  Acceptable
<1>1. /\ input.Sound /\ input.Readable
      /\ input.Parameters \subseteq KnownNames
      /\ \A i \in DOMAIN input.Queries : ValidAt(i)
      /\ blocks = input.Queries
      /\ \A k \in DOMAIN blocks : ResolvesIn(blocks[k])
  BY DEF Passed
<1>2. input.Connected => Progress
  BY InputFacts DEF Live
<1>3. Len(input.Queries) \in Nat /\ DOMAIN input.Queries = 1 .. Len(input.Queries)
  BY InputFacts, ListFacts
<1>4. \A i, j \in DOMAIN input.Queries :
          Lower[input.Queries[i].Name] = Lower[input.Queries[j].Name] => i = j
  <2>1. ASSUME NEW i \in DOMAIN input.Queries, NEW j \in DOMAIN input.Queries, j < i
        PROVE  Lower[input.Queries[i].Name] # Lower[input.Queries[j].Name]
    <3>1. j \in 1 .. i - 1
      BY <1>3, <2>1
    <3> QED BY <1>1, <3>1 DEF ValidAt, IsFirst
  <2>2. \A i, j \in DOMAIN input.Queries : i < j \/ j < i \/ i = j
    BY <1>3
  <2> QED BY <2>1, <2>2
<1>5. \A name \in input.Parameters : \E q \in Range(input.Queries) : q.Name = name
  BY <1>1 DEF KnownNames, Range
<1>6. ASSUME NEW k \in DOMAIN catalog, input.Connected
      PROVE  LET t == catalog[k].Name
             IN  /\ server[t] # Missing /\ server[t] \in Descriptions
                 /\ Decodes(server[t])
                 /\ input.Given =>
                       compareDatabaseTable(catalog[k], decodeTable(t, server[t]))
                 /\ Names(catalog[k].Columns) = Names(server[t].Columns)
  <2>1. Described(catalog[k])
    BY <1>2, <1>6 DEF Progress, Known
  <2> QED BY <2>1, DescribedNow
<1>7. ASSUME NEW i \in DOMAIN input.Queries PROVE QueryAcceptable(input.Queries[i])
  <2> DEFINE q == input.Queries[i]
  <2>1. /\ q.Lowers /\ q.Parses /\ q.Declares /\ q.Static /\ q.Resolves
        /\ TablesOf(q) \subseteq Names(catalog)
        /\ \A u \in q.Uses : u[2] \in Names(Find(catalog, u[1]).Columns)
    BY <1>1 DEF ValidAt, ResolvesIn
  <2>2. \A u \in q.Uses : u[1] \in TablesOf(q)
    BY DEF TablesOf
  <2>3. ASSUME NEW t \in TablesOf(q)
        PROVE  \E k \in DOMAIN catalog :
                   Find(catalog, t) = catalog[k] /\ catalog[k].Name = t
    BY <2>1, FindFacts
  <2> HIDE DEF q
  <2>4. ASSUME input.Connected
        PROVE  /\ \A t \in TablesOf(q) : server[t] # Missing /\ Decodes(server[t])
               /\ \A u \in q.Uses : HasColumn(server[u[1]].Columns, u[2])
    <3>1. ASSUME NEW t \in TablesOf(q)
          PROVE  /\ server[t] # Missing /\ Decodes(server[t])
                 /\ Names(Find(catalog, t).Columns) = Names(server[t].Columns)
      BY <1>6, <2>3, <2>4
    <3> QED BY <2>1, <2>2, <3>1, ColumnNamed
  <2>5. ASSUME input.Given
        PROVE  /\ \A t \in TablesOf(q) :
                      \E table \in Range(input.Tables) : table.Name = t
               /\ \A u \in q.Uses :
                      \E table \in Range(input.Tables) :
                          table.Name = u[1] /\ HasColumn(table.Columns, u[2])
    <3>1. ASSUME NEW t \in TablesOf(q)
          PROVE  \E table \in Range(input.Tables) :
                     table.Name = t /\ Find(catalog, t) = table
      BY <2>3, <2>5 DEF Shape, Range
    <3> QED BY <2>1, <2>2, <3>1, ColumnNamed
  <2> QED BY <2>1, <2>4, <2>5 DEF QueryAcceptable, q
<1>8. ASSUME input.Connected, NEW k \in DOMAIN input.Tables
      PROVE  LET table == input.Tables[k]
             IN  /\ server[table.Name] # Missing
                 /\ Decodes(server[table.Name])
                 /\ Equivalent(table, server[table.Name])
  <2>1. input.Given /\ catalog = input.Tables
    BY InputFacts, EmptyList DEF Shape
  <2>2. HasLists(input.Tables[k])
    BY InputFacts DEF IsLocalSchema
  <2> QED BY <1>6, <1>8, <2>1, <2>2, ComparedIsEquivalent, DatabaseAssumption
<1> QED BY <1>1, <1>4, <1>5, <1>7, <1>8 DEF Acceptable, Range

\* With a server that answers and does not change, exactly acceptable input
\* succeeds.
THEOREM VerdictsAreExact == Spec => []VerdictIsExact
<1>1. ErrorInv /\ SuccessInv /\ VerdictInv => VerdictIsExact
  <2> SUFFICES ASSUME ErrorInv, SuccessInv, VerdictInv,
                      phase \in Ended, ~faulty, migrations = 0
               PROVE  phase = "ok" <=> Acceptable
    BY DEF VerdictIsExact
  <2>1. Quiet
    BY DEF VerdictInv, Quiet
  <2>2. ASSUME phase = "ok" PROVE Acceptable
    BY <2>2, SuccessIsAcceptable
       DEF ErrorInv, Recorded, SuccessInv, VerdictInv
  <2>3. Acceptable => phase # "failed"
    BY <2>1 DEF VerdictInv, Spared
  <2> QED BY <2>2, <2>3 DEF Ended
<1> QED BY <1>1, ErrorInvInit, ErrorInvStep, SuccessInit, SuccessStep,
           VerdictInit, VerdictStep, PTL DEF Spec
=============================================================================
