--------------------------- MODULE ReadersProofs ---------------------------
(***************************************************************************)
(* Proofs about the generated methods of module ResultReaders, for every    *)
(* set of methods and responses: any number of result sets and rows.        *)
(***************************************************************************)
EXTENDS ResultReaders, SequenceTheorems, TLAPS

\* What is called and what answers stays the same.
Called == method \in Methods /\ response \in Responses

\* The position is inside the response, and a set is left when it is read.
Position ==
    /\ pc \in {"start", "set", "row", "check", "call", "consuming", "finish",
               "closing", "returned"}
    /\ set \in 0 .. Len(Sets) /\ row \in Nat
    /\ set = 0 => row = 0 /\ pc \notin {"row", "check", "call", "consuming"}
    /\ set > 0 => row <= Len(Rows(set))
    /\ pc \in {"check", "call"} => row > 0 /\ IsEach
    /\ pc = "consuming" => IsEach

RowType == [Value : Nat, Scans : BOOLEAN]
SetType == [Schema : STRING, Rows : Seq(RowType)]

LEMMA ResponseShape ==
    ASSUME Called
    PROVE  /\ Sets \in Seq(SetType)
           /\ Len(Sets) \in Nat
           /\ \A k \in 1 .. Len(Sets) :
                 /\ Rows(k) \in Seq(RowType)
                 /\ Len(Rows(k)) \in Nat
           /\ method.Schemas \in Seq(STRING) /\ Expected \in Nat \ {0}
           /\ response.Failure \in BOOLEAN
<1>1. IsMethod(method) /\ IsResponse(response)
  BY ReadersAssumption DEF Called
<1>2. /\ Sets \in Seq(SetType)
      /\ response.Failure \in BOOLEAN
  BY <1>1 DEF IsResponse, Sets, SetType, RowType
<1>3. Len(Sets) \in Nat /\ \A k \in 1 .. Len(Sets) : Sets[k] \in SetType
  BY <1>2, ElementOfSeq, LenProperties
<1>4. \A k \in 1 .. Len(Sets) :
          /\ Rows(k) \in Seq(RowType)
          /\ Len(Rows(k)) \in Nat
  BY <1>3 DEF Rows, SetType
<1>5. method.Schemas \in Seq(STRING) /\ method.Schemas # <<>>
  BY <1>1 DEF IsMethod
<1>6. Expected \in Nat \ {0}
  BY <1>5 DEF Expected
<1> QED BY <1>2, <1>3, <1>4, <1>5, <1>6

-----------------------------------------------------------------------------
(***************************************************************************)
(* Cancellation.  A callback under way to its call counts as not yet late.  *)
(***************************************************************************)
LateInv ==
    /\ late \in Nat /\ late <= 1
    /\ canceled => IsGo
    /\ ~canceled \/ pc = "call" => late = 0

LEMMA LateInvInit == Init => LateInv
<1> SUFFICES ASSUME Init PROVE LateInv
  OBVIOUS
<1>1. late = 0 /\ ~canceled
  BY DEF Init
<1> QED BY <1>1 DEF LateInv, IsGo

LEMMA LateInvStep == LateInv /\ [Next]_vars => LateInv'
<1> SUFFICES ASSUME LateInv, [Next]_vars
             PROVE  LateInv'
  OBVIOUS
<1>1. CASE CheckBeforeCall
  <2>1. /\ UNCHANGED <<method, late, canceled>>
        /\ pc' = "closing" \/ (pc' = "call" /\ ~(IsGo /\ canceled))
    BY <1>1 DEF CheckBeforeCall, Canceled, Fail, Goto, history
  <2> QED BY <2>1 DEF LateInv, IsGo
<1>2. CASE Call
  BY <1>2 DEF Call, Goto, LateInv, IsGo
<1>3. CASE Cancel
  BY <1>3 DEF Cancel, LateInv, IsGo
<1>4. CASE UNCHANGED vars
  BY <1>4 DEF vars, history, LateInv, IsGo
<1>5. CASE Step /\ ~CheckBeforeCall /\ ~Call
  <2>1. UNCHANGED <<method, late, canceled>> /\ pc' # "call"
    BY <1>5 DEF Step, Progress, Refuse, Query, ReadFails, NextSet, NoMoreSets, ReadRow,
                EndOfSet, CallReturns, CallFails, Finish, Close, Goto, Fail,
                history
  <2> QED BY <2>1 DEF LateInv, IsGo
<1> QED BY <1>1, <1>2, <1>3, <1>4, <1>5 DEF Next

\* However many rows a response has, at most one callback begins after the
\* caller has canceled its context.
THEOREM DeliveryStops == Spec => []CancellationStops
<1>1. LateInv => CancellationStops
  BY DEF LateInv, CancellationStops
<1> QED BY <1>1, LateInvInit, LateInvStep, PTL DEF Spec

-----------------------------------------------------------------------------
(***************************************************************************)
(* A cancellation that the last look at the context could see is reported.  *)
(***************************************************************************)
MissedInv ==
    /\ missed => canceled
    /\ /\ pc \in {"closing", "returned"} /\ ~error
       /\ IsGo /\ method.Command \in {"each", "multi"}
       => ~missed

LEMMA MissedInvStep == MissedInv /\ [Next]_vars => MissedInv'
<1> SUFFICES ASSUME MissedInv, [Next]_vars
             PROVE  MissedInv'
  OBVIOUS
<1>1. CASE Finish
  BY <1>1 DEF Finish, Canceled, Fail, Goto, history, MissedInv, IsGo
<1>2. CASE Close
  <2>1. /\ UNCHANGED <<method, canceled, missed>>
        /\ pc = "closing"
    BY <1>2 DEF Close
  <2>2. error => error'
    BY <1>2, Zenon DEF Close
  <2> QED BY <2>1, <2>2 DEF MissedInv, IsGo
<1>3. CASE Cancel
  <2>1. /\ UNCHANGED <<method, pc, error>> /\ canceled'
        /\ pc # "returned"
    BY <1>3 DEF Cancel
  <2>2. pc = "closing" => ~missed'
    BY <1>3, Zenon DEF Cancel
  <2> QED BY <2>1, <2>2 DEF MissedInv, IsGo
<1>4. CASE UNCHANGED vars
  BY <1>4 DEF vars, history, MissedInv, IsGo
<1>5. CASE Step /\ ~Finish /\ ~Close
  <2>1. /\ UNCHANGED <<method, canceled, missed>>
        /\ pc' \in {"closing", "returned"} => error'
    BY <1>5 DEF Step, Progress, Refuse, Query, ReadFails, NextSet, NoMoreSets, ReadRow,
                EndOfSet, CheckBeforeCall, Call, CallReturns, CallFails,
                Goto, Fail, history
  <2> QED BY <2>1 DEF MissedInv, IsGo
<1> QED BY <1>1, <1>2, <1>3, <1>4, <1>5 DEF Next

\* A call of :each or :multi that succeeds was not canceled before it looked
\* at its context for the last time.
THEOREM CancellationsAreReported == Spec => []CancellationReported
<1>1. Init => MissedInv
  BY DEF Init, MissedInv
<1>2. MissedInv => CancellationReported
  BY DEF MissedInv, CancellationReported
<1> QED BY <1>1, <1>2, MissedInvStep, PTL DEF Spec

-----------------------------------------------------------------------------
(***************************************************************************)
(* Completeness.  While nothing has failed, OutInv says what has been       *)
(* handed out at each position and EndInv what is known of the response.    *)
(***************************************************************************)
\* The first n rows of set k, as they are handed out.
Collected(k, n) == [i \in 1 .. n |-> Rows(k)[i].Value]

\* The rows of the current set that have been handed out.
Handed == IF pc \in {"check", "call"} THEN row - 1 ELSE row

OutInv ==
    /\ out \in Seq(Seq(Nat)) /\ Len(out) = set
    /\ method.Command # "exec" =>
          \A k \in 1 .. set :
              out[k] = Collected(k, IF k < set THEN Len(Rows(k)) ELSE Handed)

EndInv ==
    /\ set > Expected => ReadsEverySet
    /\ method.Command = "multi" =>
          \A k \in 1 .. set : Sets[k].Schema = method.Schemas[k]
    /\ ~broken
    /\ ended => set = Len(Sets) /\ ~response.Failure
    /\ pc \in {"set", "finish", "closing"} /\ set > 0 => row = Len(Rows(set))
    /\ pc \in {"finish", "closing"} =>
          /\ RequiresSet => set = Expected
          /\ RefusesExtraSet => ended /\ set = Expected
    /\ pc = "start" => set = 0 /\ ~opened

\* The three promises of a call that has returned.
Kept == SuccessIsComplete /\ NoPartialResult /\ ClosedOnEveryExit

ReaderInv ==
    /\ Called
    /\ error => pc \in {"closing", "returned"}
    /\ pc \notin {"start", "returned"} => opened
    /\ ~error /\ pc # "returned" => Position /\ OutInv /\ EndInv
    /\ pc = "returned" => Kept

LEMMA CollectedShape ==
    ASSUME Called, NEW k \in 1 .. Len(Sets), NEW n \in 0 .. Len(Rows(k))
    PROVE  /\ Collected(k, n) \in Seq(Nat)
           /\ n < Len(Rows(k)) =>
                 Append(Collected(k, n), Rows(k)[n + 1].Value) =
                     Collected(k, n + 1)
           /\ Collected(k, Len(Rows(k))) = Values(k)
<1>1. Rows(k) \in Seq(RowType) /\ Len(Rows(k)) \in Nat
  BY ResponseShape
<1>2. DOMAIN Rows(k) = 1 .. Len(Rows(k))
  BY <1>1, LenProperties
<1>3. \A i \in 1 .. Len(Rows(k)) : Rows(k)[i].Value \in Nat
  <2> TAKE i \in 1 .. Len(Rows(k))
  <2>1. Rows(k)[i] \in RowType
    BY <1>1, ElementOfSeq
  <2> QED BY <2>1 DEF RowType
<1>4. Collected(k, n) \in Seq(Nat) /\ Len(Collected(k, n)) = n
  <2>1. \A i \in 1 .. n : Rows(k)[i].Value \in Nat
    BY <1>1, <1>3
  <2>2. n \in Nat
    BY <1>1
  <2>3. Collected(k, n) \in [1 .. n -> Nat]
    BY <2>1 DEF Collected
  <2>4. Collected(k, n) \in Seq(Nat)
    BY <2>2, <2>3, SeqDef
  <2> QED BY <2>2, <2>3, <2>4, LenProperties
<1>5. ASSUME n < Len(Rows(k))
      PROVE  Append(Collected(k, n), Rows(k)[n + 1].Value) = Collected(k, n + 1)
  <2> DEFINE v == Rows(k)[n + 1].Value
             longer == Append(Collected(k, n), v)
  <2>1. v \in Nat /\ n + 1 \in Nat
    BY <1>1, <1>3, <1>5
  <2>2. \A i \in 1 .. n : Collected(k, n)[i] = Rows(k)[i].Value
    BY DEF Collected
  <2>3. /\ longer \in Seq(Nat) /\ Len(longer) = n + 1
        /\ \A i \in 1 .. n : longer[i] = Collected(k, n)[i]
        /\ longer[n + 1] = v
    BY <1>4, <2>1, AppendProperties
  <2>4. \A i \in 1 .. (n + 1) : longer[i] = Rows(k)[i].Value
    BY <2>1, <2>2, <2>3
  <2>5. longer = [i \in 1 .. (n + 1) |-> longer[i]]
    BY <2>3, LenProperties
  <2> QED BY <2>4, <2>5 DEF Collected
<1> QED BY <1>2, <1>4, <1>5 DEF Collected, Values

-----------------------------------------------------------------------------
LEMMA ReaderInvInit == Init => ReaderInv
<1> SUFFICES ASSUME Init PROVE ReaderInv
  OBVIOUS
<1>1. Called
  BY DEF Init, Called
<1>2. Len(Sets) \in Nat /\ Expected \in Nat \ {0}
  BY <1>1, ResponseShape
<1>3. Position
  BY <1>2 DEF Init, Position
<1>4. out \in Seq(Seq(Nat)) /\ Len(out) = 0 /\ set = 0
  BY EmptySeq DEF Init
<1>5. OutInv
  BY <1>4 DEF OutInv
<1>6. EndInv
  BY <1>2 DEF Init, EndInv
<1>7. pc = "start" /\ ~error
  BY DEF Init
<1> QED BY <1>1, <1>3, <1>5, <1>6, <1>7 DEF ReaderInv

\* A call that fails while it has a stream is on its way to Close.
LEMMA FailKeeps ==
    ASSUME ReaderInv, pc \notin {"start", "returned"}, Fail,
           UNCHANGED <<method, response, opened>>
    PROVE  ReaderInv'
BY DEF ReaderInv, Called, Fail

LEMMA ReaderInvRefuse == ReaderInv /\ Refuse => ReaderInv'
<1> SUFFICES ASSUME ReaderInv, Refuse PROVE ReaderInv'
  OBVIOUS
<1>1. /\ UNCHANGED <<method, response, opened, out>>
      /\ pc' = "returned" /\ error' /\ IsEach /\ pc = "start"
  BY DEF Refuse, Goto, stream
<1>2. ~error /\ ~opened /\ Called
  BY <1>1 DEF ReaderInv, EndInv
<1>3. Kept'
  BY <1>1, <1>2 DEF Kept, SuccessIsComplete, NoPartialResult,
                    ClosedOnEveryExit, IsEach
<1> QED BY <1>1, <1>2, <1>3 DEF ReaderInv, Called

LEMMA ReaderInvQuery == ReaderInv /\ Query => ReaderInv'
<1> SUFFICES ASSUME ReaderInv, Query PROVE ReaderInv'
  OBVIOUS
<1>1. /\ UNCHANGED <<method, response, out, set, row, ended>>
      /\ pc = "start"
  BY DEF Query
<1>2. ~error /\ ~opened /\ Called /\ Position /\ OutInv /\ EndInv
  BY <1>1 DEF ReaderInv, EndInv
<1>3. CASE pc' = "set" /\ opened' /\ UNCHANGED <<error, broken>>
  <2>1. set = 0
    BY <1>1, <1>2 DEF EndInv
  <2>2. Position' /\ OutInv'
    BY <1>1, <1>2, <1>3, <2>1 DEF Position, OutInv, Sets, Rows, IsEach
  <2>3. EndInv'
    BY <1>1, <1>2, <1>3, <2>1 DEF EndInv, Sets, Rows, Expected, ReadsEverySet
  <2> QED BY <1>1, <1>2, <1>3, <2>2, <2>3 DEF ReaderInv, Called
<1>4. CASE pc' = "returned" /\ error' /\ UNCHANGED opened
  <2>1. out = <<>>
    BY <1>1, <1>2, EmptySeq DEF OutInv, EndInv
  <2>2. Kept'
    BY <1>1, <1>2, <1>4, <2>1 DEF Kept, SuccessIsComplete, NoPartialResult,
                                  ClosedOnEveryExit
  <2> QED BY <1>1, <1>2, <1>4, <2>2 DEF ReaderInv, Called
<1> QED BY <1>3, <1>4 DEF Query, Goto

LEMMA ReaderInvNextSet == ReaderInv /\ NextSet => ReaderInv'
<1> SUFFICES ASSUME ReaderInv, NextSet PROVE ReaderInv'
  OBVIOUS
<1>1. /\ UNCHANGED <<method, response, opened, ended, broken>>
      /\ pc = "set" /\ set < Len(Sets)
  BY DEF NextSet, history
<1>2. ~error /\ opened /\ Called /\ Position /\ OutInv /\ EndInv
  BY <1>1 DEF ReaderInv
<1>3. CASE Fail
  BY <1>1, <1>3, FailKeeps
<1>4. CASE /\ AcceptsSet
           /\ set' = set + 1 /\ row' = 0
           /\ out' = Append(out, <<>>)
           /\ pc' = "row"
           /\ UNCHANGED error
  <2>0. Len(Sets) \in Nat /\ set \in Nat /\ Expected \in Nat
        /\ \A k \in 1 .. Len(Sets) : Len(Rows(k)) \in Nat
    BY <1>2, ResponseShape DEF Position
  <2>1. Position'
    BY <1>1, <1>4, <2>0 DEF Position, Sets, Rows, IsEach
  <2>2. /\ out' \in Seq(Seq(Nat)) /\ Len(out') = set + 1
        /\ \A k \in 1 .. set : out'[k] = out[k]
        /\ out'[set + 1] = <<>>
    <3>1. <<>> \in Seq(Nat) /\ out \in Seq(Seq(Nat)) /\ Len(out) = set
      BY <1>2, EmptySeq DEF OutInv
    <3> QED BY <1>4, <3>1, AppendProperties
  <2>3. OutInv'
    <3>1. ASSUME method.Command # "exec", NEW k \in 1 .. (set + 1)
          PROVE  out'[k] = Collected(k, IF k < set + 1 THEN Len(Rows(k)) ELSE 0)
      <4>1. CASE k = set + 1
        <5>1. Collected(k, 0) = <<>>
          BY <2>0 DEF Collected
        <5> QED BY <2>0, <2>2, <4>1, <5>1
      <4>2. CASE k < set
        BY <1>2, <2>0, <2>2, <3>1, <4>2 DEF OutInv
      <4>3. CASE k = set
        <5>1. row = Len(Rows(set)) /\ Handed = row
          BY <1>1, <1>2, <2>0, <4>3 DEF EndInv, Handed
        <5> QED BY <1>2, <2>0, <2>2, <3>1, <4>3, <5>1 DEF OutInv
      <4> QED BY <2>0, <4>1, <4>2, <4>3
    <3>2. Handed' = 0 /\ (\A k, n : Collected(k, n)' = Collected(k, n))
          /\ \A k : Rows(k)' = Rows(k)
      BY <1>1, <1>4 DEF Handed, Collected, Rows, Sets
    <3> QED BY <1>1, <1>4, <2>2, <3>1, <3>2 DEF OutInv
  <2>4. EndInv'
    <3>1. set + 1 > Expected => ReadsEverySet
      BY <1>4, <2>0 DEF AcceptsSet
    <3>2. ASSUME method.Command = "multi", NEW k \in 1 .. (set + 1)
          PROVE  Sets[k].Schema = method.Schemas[k]
      BY <1>2, <1>4, <2>0, <3>2 DEF EndInv, AcceptsSet, ReadsEverySet
    <3>3. ~ended
      BY <1>1, <1>2, <2>0 DEF EndInv
    <3> QED BY <1>1, <1>2, <1>4, <3>1, <3>2, <3>3
            DEF EndInv, Sets, Expected, ReadsEverySet
  <2> QED BY <1>1, <1>2, <1>4, <2>1, <2>3, <2>4 DEF ReaderInv, Called
<1> QED BY <1>3, <1>4 DEF NextSet, Goto

LEMMA ReaderInvNoMoreSets == ReaderInv /\ NoMoreSets => ReaderInv'
<1> SUFFICES ASSUME ReaderInv, NoMoreSets PROVE ReaderInv'
  OBVIOUS
<1>1. /\ UNCHANGED <<method, response, opened, set, row, out, broken>>
      /\ pc = "set" /\ set >= Len(Sets) /\ ended'
  BY DEF NoMoreSets, history
<1>2. ~error /\ opened /\ Called /\ Position /\ OutInv /\ EndInv
  BY <1>1 DEF ReaderInv
<1>3. CASE Fail
  BY <1>1, <1>3, FailKeeps
<1>4. CASE /\ ~response.Failure /\ ~(RequiresSet /\ set < Expected)
           /\ pc' = "finish" /\ UNCHANGED error
  <2>0. Len(Sets) \in Nat /\ set \in 0 .. Len(Sets) /\ Expected \in Nat
    BY <1>2, ResponseShape DEF Position
  <2>1. Position'
    BY <1>1, <1>2, <1>4 DEF Position, Sets, Rows, IsEach
  <2>2. OutInv'
    BY <1>1, <1>2, <1>4 DEF OutInv, Handed, Collected, Sets, Rows
  <2>3. RefusesExtraSet => RequiresSet
    BY DEF RefusesExtraSet, RequiresSet
  <2>4. RequiresSet => set = Expected
    BY <1>2, <1>4, <2>0 DEF EndInv, RequiresSet, ReadsEverySet
  <2>5. EndInv'
    BY <1>1, <1>2, <1>4, <2>0, <2>3, <2>4
       DEF EndInv, Sets, Rows, Expected, ReadsEverySet, RequiresSet,
           RefusesExtraSet
  <2> QED BY <1>1, <1>2, <1>4, <2>1, <2>2, <2>5 DEF ReaderInv, Called
<1> QED BY <1>3, <1>4 DEF NoMoreSets, Goto

\* A step from one place to the next that leaves the stream alone.
LEMMA MoveKeeps ==
    ASSUME ReaderInv, ~error,
           pc \in {"row", "check", "consuming", "finish"},
           pc' \in {"set", "row", "call", "finish", "closing"},
           UNCHANGED <<method, response, error, opened, set, row, out, ended,
                       broken>>,
           Handed' = Handed,
           pc' = "row" => set > 0,
           pc' = "call" => pc = "check",
           pc' \in {"set", "finish"} => pc = "row" /\ row >= Len(Rows(set)),
           pc' = "closing" => pc = "finish",
           pc' = "finish" =>
               ~RefusesExtraSet /\ ~ReadsEverySet /\ set >= Expected
    PROVE  ReaderInv'
<1>1. ~error /\ opened /\ Called /\ Position /\ OutInv /\ EndInv
  BY DEF ReaderInv
<1>2. /\ Len(Sets) \in Nat /\ set \in 0 .. Len(Sets) /\ Expected \in Nat
      /\ row \in Nat
      /\ \A k \in 1 .. Len(Sets) : Len(Rows(k)) \in Nat
  BY <1>1, ResponseShape DEF Position
<1>3. Position'
  BY <1>1, <1>2 DEF Position, Sets, Rows, IsEach
<1>4. OutInv'
  BY <1>1 DEF OutInv, Collected, Sets, Rows
<1>5. pc' \in {"set", "finish", "closing"} /\ set > 0 => row = Len(Rows(set))
  BY <1>1, <1>2 DEF EndInv, Position
<1>6. pc' = "finish" => set = Expected
  BY <1>1, <1>2 DEF EndInv
<1>7. EndInv'
  BY <1>1, <1>5, <1>6
     DEF EndInv, Sets, Rows, Expected, ReadsEverySet, RequiresSet,
         RefusesExtraSet
<1> QED BY <1>1, <1>3, <1>4, <1>7 DEF ReaderInv, Called

LEMMA ReaderInvEndOfSet == ReaderInv /\ EndOfSet => ReaderInv'
<1> SUFFICES ASSUME ReaderInv, EndOfSet PROVE ReaderInv'
  OBVIOUS
<1>1. /\ UNCHANGED <<method, response, opened, set, row, out, ended, broken>>
      /\ pc = "row" /\ row >= Len(Rows(set)) /\ ~error
  BY DEF EndOfSet, stream, history, ReaderInv
<1>2. CASE Fail
  BY <1>1, <1>2, FailKeeps
<1>3. CASE ~Fail
  <2>1. Expected \in Nat /\ set \in Nat
    BY <1>1, ResponseShape DEF ReaderInv, Position
  <2>2. /\ UNCHANGED error
        /\ \/ pc' = "set"
           \/ /\ pc' = "finish"
              /\ ~RefusesExtraSet /\ ~ReadsEverySet /\ set >= Expected
    BY <1>3, <2>1 DEF EndOfSet, Goto
  <2>3. Handed' = Handed
    BY <1>1, <2>2 DEF Handed
  <2> QED BY <1>1, <2>2, <2>3, MoveKeeps
<1> QED BY <1>2, <1>3

LEMMA ReaderInvCheckBeforeCall == ReaderInv /\ CheckBeforeCall => ReaderInv'
<1> SUFFICES ASSUME ReaderInv, CheckBeforeCall PROVE ReaderInv'
  OBVIOUS
<1>1. /\ UNCHANGED <<method, response, opened, set, row, out, ended, broken>>
      /\ pc = "check" /\ ~error
  BY DEF CheckBeforeCall, stream, history, ReaderInv
<1>2. CASE Fail
  BY <1>1, <1>2, FailKeeps
<1>3. CASE pc' = "call" /\ UNCHANGED error
  <2>1. Handed' = Handed
    BY <1>1, <1>3 DEF Handed
  <2> QED BY <1>1, <1>3, <2>1, MoveKeeps
<1> QED BY <1>2, <1>3 DEF CheckBeforeCall, Goto

LEMMA ReaderInvCallReturns == ReaderInv /\ CallReturns => ReaderInv'
<1> SUFFICES ASSUME ReaderInv, CallReturns PROVE ReaderInv'
  OBVIOUS
<1>1. /\ UNCHANGED <<method, response, opened, set, row, out, ended, broken,
                     error>>
      /\ pc = "consuming" /\ pc' = "row" /\ ~error
  BY DEF CallReturns, Goto, stream, history, ReaderInv
<1>2. Handed' = Handed
  BY <1>1 DEF Handed
<1>3. set > 0
  BY <1>1, ResponseShape DEF ReaderInv, Position
<1> QED BY <1>1, <1>2, <1>3, MoveKeeps

LEMMA ReaderInvFinish == ReaderInv /\ Finish => ReaderInv'
<1> SUFFICES ASSUME ReaderInv, Finish PROVE ReaderInv'
  OBVIOUS
<1>1. /\ UNCHANGED <<method, response, opened, set, row, out, ended, broken>>
      /\ pc = "finish" /\ ~error
  BY DEF Finish, stream, history, ReaderInv
<1>2. CASE Fail
  BY <1>1, <1>2, FailKeeps
<1>3. CASE pc' = "closing" /\ UNCHANGED error
  <2>1. Handed' = Handed
    BY <1>1, <1>3 DEF Handed
  <2> QED BY <1>1, <1>3, <2>1, MoveKeeps
<1> QED BY <1>2, <1>3 DEF Finish, Goto

\* One more row of the current set is handed out.
LEMMA HandOut ==
    ASSUME Called, Position, OutInv, set > 0,
           Handed \in 0 .. (Len(Rows(set)) - 1), Handed' = Handed + 1,
           UNCHANGED <<method, response, set>>,
           out' = [out EXCEPT ![set] =
                      Append(@, Rows(set)[Handed + 1].Value)]
    PROVE  OutInv'
<1>1. /\ Len(Sets) \in Nat /\ set \in 1 .. Len(Sets)
      /\ Len(Rows(set)) \in Nat /\ Rows(set) \in Seq(RowType)
      /\ \A k \in 1 .. Len(Sets) : Len(Rows(k)) \in Nat
  BY ResponseShape DEF Position
<1> DEFINE v == Rows(set)[Handed + 1].Value
<1>2. v \in Nat
  <2>1. Handed + 1 \in 1 .. Len(Rows(set))
    BY <1>1
  <2>2. Rows(set)[Handed + 1] \in RowType
    BY <1>1, <2>1, ElementOfSeq
  <2> QED BY <2>2 DEF RowType
<1>3. out \in Seq(Seq(Nat)) /\ Len(out) = set /\ out[set] \in Seq(Nat)
  BY <1>1, ElementOfSeq DEF OutInv
<1>4. Append(out[set], v) \in Seq(Nat)
  BY <1>2, <1>3, AppendProperties
<1>5. /\ out' \in Seq(Seq(Nat)) /\ Len(out') = set
      /\ \A k \in 1 .. set :
            out'[k] = IF k = set THEN Append(out[set], v) ELSE out[k]
  <2>1. set \in 1 .. Len(out)
    BY <1>1, <1>3
  <2>2. out' = [out EXCEPT ![set] = Append(out[set], v)]
    OBVIOUS
  <2> QED BY <1>3, <1>4, <2>1, <2>2, ExceptSeq
<1>6. ASSUME method.Command # "exec", NEW k \in 1 .. set
      PROVE  out'[k] = Collected(k, IF k < set THEN Len(Rows(k))
                                    ELSE Handed + 1)
  <2>1. CASE k < set
    BY <1>1, <1>5, <1>6, <2>1 DEF OutInv
  <2>2. CASE k = set
    <3>1. out[set] = Collected(set, Handed)
      BY <1>1, <1>6, <2>2 DEF OutInv
    <3>2. Handed \in 0 .. Len(Rows(set)) /\ Handed < Len(Rows(set))
      BY <1>1
    <3>3. Append(Collected(set, Handed), v) = Collected(set, Handed + 1)
      BY <1>1, <3>2, CollectedShape
    <3> QED BY <1>1, <1>5, <2>2, <3>1, <3>3
  <2> QED BY <1>1, <2>1, <2>2
<1>7. \A k, n : Collected(k, n)' = Collected(k, n) /\ Rows(k)' = Rows(k)
  BY DEF Collected, Rows, Sets
<1> QED BY <1>5, <1>6, <1>7 DEF OutInv

LEMMA ReaderInvReadRow == ReaderInv /\ ReadRow => ReaderInv'
<1> SUFFICES ASSUME ReaderInv, ReadRow PROVE ReaderInv'
  OBVIOUS
<1>1. /\ UNCHANGED <<method, response, opened, set, ended, broken>>
      /\ pc = "row" /\ row < Len(Rows(set)) /\ ~error
  BY DEF ReadRow, history, ReaderInv
<1>2. opened /\ Called /\ Position /\ OutInv /\ EndInv
  BY <1>1 DEF ReaderInv
<1>3. CASE Fail
  BY <1>1, <1>3, FailKeeps
<1>4. CASE ~Fail
  <2>0. /\ set \in 1 .. Len(Sets) /\ Len(Sets) \in Nat /\ row \in Nat
        /\ Len(Rows(set)) \in Nat
    BY <1>1, <1>2, ResponseShape DEF Position
  <2>1. /\ row' = row + 1 /\ UNCHANGED error
        /\ IF method.Command \in {"multi", "many"}
           THEN out' = [out EXCEPT ![set] =
                           Append(@, Rows(set)[row + 1].Value)]
           ELSE UNCHANGED out
        /\ IF IsEach THEN pc' = "check" ELSE pc' = "row"
    BY <1>1, <1>4 DEF ReadRow, Goto
  <2>2. Position'
    BY <1>1, <1>2, <2>0, <2>1 DEF Position, Sets, Rows, IsEach
  <2>3. EndInv'
    BY <1>1, <1>2, <2>1 DEF EndInv, Sets, Expected, ReadsEverySet
  <2>4. Handed = row
    BY <1>1 DEF Handed
  <2>5. OutInv'
    <3>1. CASE method.Command \in {"multi", "many"}
      <4>1. Handed' = Handed + 1
        BY <2>0, <2>1, <2>4, <3>1 DEF Handed, IsEach
      <4> QED BY <1>1, <1>2, <2>0, <2>1, <2>4, <3>1, <4>1, HandOut
    <3>2. CASE IsEach
      <4>1. Handed' = Handed
        BY <2>0, <2>1, <2>4, <3>2 DEF Handed
      <4>2. UNCHANGED out
        BY <2>1, <3>2 DEF IsEach
      <4> QED BY <1>1, <1>2, <4>1, <4>2 DEF OutInv, Collected, Rows, Sets
    <3>3. CASE method.Command = "exec"
      BY <1>1, <1>2, <2>1, <3>3 DEF OutInv
    <3>4. IsMethod(method)
      BY <1>2, ReadersAssumption DEF Called
    <3> QED BY <3>1, <3>2, <3>3, <3>4 DEF IsMethod, IsEach
  <2> QED BY <1>1, <1>2, <2>1, <2>2, <2>3, <2>5 DEF ReaderInv, Called
<1> QED BY <1>3, <1>4

LEMMA ReaderInvCall == ReaderInv /\ Call => ReaderInv'
<1> SUFFICES ASSUME ReaderInv, Call PROVE ReaderInv'
  OBVIOUS
<1>1. /\ UNCHANGED <<method, response, opened, set, row, ended, broken, error>>
      /\ pc = "call" /\ pc' = "consuming" /\ ~error
      /\ out' = [out EXCEPT ![set] = Append(@, Rows(set)[row].Value)]
  BY DEF Call, Goto, ReaderInv
<1>2. opened /\ Called /\ Position /\ OutInv /\ EndInv
  BY <1>1 DEF ReaderInv
<1>3. /\ set \in 1 .. Len(Sets) /\ Len(Sets) \in Nat
      /\ row \in 1 .. Len(Rows(set)) /\ Len(Rows(set)) \in Nat
      /\ IsEach
  BY <1>1, <1>2, ResponseShape DEF Position
<1>4. /\ Handed = row - 1 /\ Handed' = row
  BY <1>1 DEF Handed
<1>5. OutInv'
  <2>1. /\ set > 0 /\ Handed + 1 = row /\ Handed' = Handed + 1
        /\ Handed \in 0 .. (Len(Rows(set)) - 1)
    BY <1>3, <1>4
  <2> QED BY <1>1, <1>2, <2>1, HandOut
<1>6. Position'
  BY <1>1, <1>2, <1>3 DEF Position, Sets, Rows, IsEach
<1>7. EndInv'
  BY <1>1, <1>2 DEF EndInv, Sets, Expected, ReadsEverySet
<1> QED BY <1>1, <1>2, <1>5, <1>6, <1>7 DEF ReaderInv, Called

LEMMA ReaderInvClose == ReaderInv /\ Close => ReaderInv'
<1> SUFFICES ASSUME ReaderInv, Close PROVE ReaderInv'
  OBVIOUS
<1>1. /\ UNCHANGED <<method, response, opened, ended, canceled>>
      /\ pc = "closing" /\ pc' = "returned" /\ closed' /\ out' = Returned
  BY DEF Close, Goto
<1>2. /\ Called /\ opened
      /\ ~error => Position /\ OutInv /\ EndInv
  BY <1>1 DEF ReaderInv
<1>3. PICK fails \in BOOLEAN :
          /\ ~ended /\ ~canceled /\ ~StopsEarly /\ response.Failure => fails
          /\ broken' = (broken \/ fails)
          /\ error' = (error \/ (fails /\ ReportsClose))
  BY Zenon DEF Close
<1>4. drained' => ~ended /\ ~canceled /\ ~StopsEarly
  BY Zenon DEF Close
<1>5. CASE ~error'
  <2>1. /\ ~error /\ (ReportsClose => ~fails)
        /\ broken' => broken \/ fails
    BY <1>3, <1>5, Zenon
  <2>2. out' = out
    BY <1>1, <1>5 DEF Returned
  <2>3. /\ Position /\ OutInv /\ EndInv /\ IsMethod(method)
        /\ Len(Sets) \in Nat /\ set \in 0 .. Len(Sets) /\ Expected \in Nat \ {0}
        /\ \A k \in 1 .. Len(Sets) : Len(Rows(k)) \in Nat
    BY <1>2, <2>1, ReadersAssumption, ResponseShape DEF Called, Position
  <2>4. ASSUME method.Command # "exec"
        PROVE  /\ Len(out) <= Expected
               /\ RequiresSet => Len(out) = Expected
               /\ \A k \in DOMAIN out : out[k] = Values(k)
    <3>1. /\ Len(out) = set /\ DOMAIN out = 1 .. set
          /\ RequiresSet => set = Expected
      BY <1>1, <2>3, LenProperties DEF OutInv, EndInv
    <3>2. set <= Expected
      BY <2>3, <2>4 DEF EndInv, ReadsEverySet
    <3>3. ASSUME NEW k \in 1 .. set
          PROVE  out[k] = Values(k)
      <4>1. out[k] = Collected(k, Len(Rows(k)))
        <5>1. row = Len(Rows(set)) /\ Handed = row
          BY <1>1, <2>3 DEF EndInv, Handed
        <5> QED BY <2>3, <2>4, <5>1 DEF OutInv
      <4>2. k \in 1 .. Len(Sets) /\ Len(Rows(k)) \in 0 .. Len(Rows(k))
        BY <2>3
      <4> QED BY <1>2, <4>1, <4>2, CollectedShape
    <3> QED BY <3>1, <3>2, <3>3
  <2>5. ASSUME method.Command = "multi"
        PROVE  \A k \in DOMAIN out : Sets[k].Schema = method.Schemas[k]
    BY <2>3, <2>5, LenProperties DEF OutInv, EndInv
  <2>6. RefusesExtraSet => Len(Sets) = Expected /\ ~response.Failure /\ ended
    BY <1>1, <2>3 DEF EndInv
  <2>7. IsGo /\ ReportsClose => canceled \/ ~response.Failure
    <3>1. ended => ~response.Failure
      BY <2>3 DEF EndInv
    <3>2. IsGo => ~StopsEarly
      BY <2>1 DEF StopsEarly
    <3> QED BY <1>3, <2>1, <3>1, <3>2
  <2>8. ReportsClose => ~broken'
    BY <2>1, <2>3 DEF EndInv
  <2>9. SuccessIsComplete'
    BY <1>1, <2>2, <2>4, <2>5, <2>6, <2>7, <2>8
       DEF SuccessIsComplete, Expected, Values, Rows, Sets, RequiresSet,
           RefusesExtraSet, IsGo, ReportsClose
  <2>10. IsEach => ended
    BY <2>6 DEF IsEach, RefusesExtraSet
  <2> QED BY <1>1, <1>2, <1>4, <1>5, <2>9, <2>10
          DEF ReaderInv, Kept, Called, NoPartialResult, ClosedOnEveryExit,
              IsEach
<1>6. CASE error'
  <2>1. ~IsEach => out' = <<>>
    BY <1>1, <1>6 DEF Returned
  <2>2. IsEach => ~drained'
    <3>1. ~error => (IsEach => ended)
      BY <1>1, <1>2 DEF EndInv, IsEach, RefusesExtraSet
    <3>2. error /\ IsEach => StopsEarly \/ ended
      BY DEF StopsEarly
    <3> QED BY <1>4, <3>1, <3>2
  <2> QED BY <1>1, <1>2, <1>6, <2>1, <2>2
          DEF ReaderInv, Kept, Called, SuccessIsComplete, NoPartialResult,
              ClosedOnEveryExit, IsEach
<1> QED BY <1>5, <1>6

\* What the caller does to its context, and stuttering.
LEMMA ReaderInvUnmoved ==
    ASSUME ReaderInv,
           UNCHANGED <<method, response, pc, error, stream, broken, drained>>,
           canceled => canceled'
    PROVE  ReaderInv'
<1>1. UNCHANGED <<set, row, ended, out, opened, closed>>
  BY DEF stream
<1>2. Position => Position'
  BY <1>1 DEF Position, Sets, Rows, IsEach
<1>3. OutInv => OutInv'
  BY <1>1 DEF OutInv, Handed, Collected, Sets, Rows
<1>4. EndInv => EndInv'
  BY <1>1 DEF EndInv, Sets, Rows, Expected, ReadsEverySet, RequiresSet,
              RefusesExtraSet
<1>5. SuccessIsComplete => SuccessIsComplete'
  BY <1>1 DEF SuccessIsComplete, Expected, Values, Rows, Sets, RequiresSet,
              RefusesExtraSet, IsGo, ReportsClose
<1>6. Kept => Kept'
  BY <1>1, <1>5 DEF Kept, NoPartialResult, ClosedOnEveryExit, IsEach
<1> QED BY <1>1, <1>2, <1>3, <1>4, <1>6 DEF ReaderInv, Called

LEMMA ReaderInvStep == ReaderInv /\ [Next]_vars => ReaderInv'
<1> SUFFICES ASSUME ReaderInv, [Next]_vars
             PROVE  ReaderInv'
  OBVIOUS
<1>1. CASE ReadFails \/ CallFails
  <2>1. /\ Fail /\ pc \notin {"start", "returned"}
        /\ UNCHANGED <<method, response, opened>>
    BY <1>1 DEF ReadFails, CallFails, stream
  <2> QED BY <2>1, FailKeeps
<1>2. CASE Cancel
  BY <1>2, ReaderInvUnmoved DEF Cancel
<1>3. CASE UNCHANGED vars
  BY <1>3, ReaderInvUnmoved DEF vars, history
<1> QED BY <1>1, <1>2, <1>3, ReaderInvRefuse, ReaderInvQuery,
           ReaderInvNextSet, ReaderInvNoMoreSets, ReaderInvReadRow,
           ReaderInvEndOfSet, ReaderInvCheckBeforeCall, ReaderInvCall,
           ReaderInvCallReturns, ReaderInvFinish, ReaderInvClose
        DEF Next, Step, Progress

\* A call that returns without an error has handed out every row of every
\* expected set once and in order, and nothing failed that it waits for,
\* however many sets and rows the response has and whatever else happens.
THEOREM SuccessesAreComplete == Spec => []SuccessIsComplete
<1>1. ReaderInv => SuccessIsComplete
  BY DEF ReaderInv, Kept, SuccessIsComplete
<1> QED BY <1>1, ReaderInvInit, ReaderInvStep, PTL DEF Spec

\* An error never comes with part of a result.
THEOREM ErrorsReturnNothing == Spec => []NoPartialResult
<1>1. ReaderInv => NoPartialResult
  BY DEF ReaderInv, Kept, NoPartialResult
<1> QED BY <1>1, ReaderInvInit, ReaderInvStep, PTL DEF Spec

\* A stream that was opened is closed when the method returns, and :each
\* never receives the rows it leaves unread.
THEOREM StreamsAreClosed == Spec => []ClosedOnEveryExit
<1>1. ReaderInv => ClosedOnEveryExit
  BY DEF ReaderInv, Kept, ClosedOnEveryExit
<1> QED BY <1>1, ReaderInvInit, ReaderInvStep, PTL DEF Spec
=============================================================================
