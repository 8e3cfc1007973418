---------------------------- MODULE ResultReaders ----------------------------
(***************************************************************************)
(* The methods that the Go and Java generators emit for queries with        *)
(* results: how one call opens a result stream, moves through its result    *)
(* sets and rows, hands rows to a callback or collects them, and closes the *)
(* stream, while the caller may cancel its context and the server may fail  *)
(* at any moment (internal/codegen/golang, internal/codegen/java).          *)
(*                                                                          *)
(* A method is a runtime ("ydb" for the native Go SDK, "sql" for Go's       *)
(* database/sql, "jdbc" for Java), a command, whether the query is a script *)
(* of several statements, and the schemas of the result sets it expects.    *)
(***************************************************************************)
EXTENDS Naturals, Sequences

CONSTANTS
    Methods,    \* see IsMethod
    Responses   \* see IsResponse

IsMethod(m) ==
    /\ m.Runtime \in {"ydb", "sql", "jdbc"}
    /\ m.Command \in {"each", "multi", "many", "exec"}
    /\ m.Multiple \in BOOLEAN
    /\ m.Schemas \in Seq(STRING) /\ m.Schemas # <<>>
    /\ m.Command # "multi" => Len(m.Schemas) = 1
    /\ m.Command = "multi" => m.Multiple
    /\ m.Command = "exec" => m.Multiple /\ m.Runtime # "ydb"

\* Result sets with their schemas and rows, and whether the stream ends with
\* an error.  A row either scans into the row type or does not.
IsResponse(r) ==
    /\ r.Failure \in BOOLEAN
    /\ r.Sets \in Seq([Schema : STRING,
                       Rows : Seq([Value : Nat, Scans : BOOLEAN])])

ASSUME ReadersAssumption ==
    /\ \A m \in Methods : IsMethod(m)
    /\ \A r \in Responses : IsResponse(r)

VARIABLES
    method,    \* the method called
    response,  \* what the server answers
    pc,        \* where the call is
    set,       \* the result set being read, 0 before the first
    row,       \* rows of it that have been read
    ended,     \* whether the end of the response has been received
    out,       \* for each set the rows handed out or collected
    error,     \* whether an error is being returned
    canceled,  \* whether the caller's context is canceled
    stopped,   \* whether the method canceled its own context
    opened,    \* whether there is a stream
    closed,    \* whether the stream is closed
    late,      \* history: callbacks that began after the cancellation
    missed,    \* history: canceled before the call was finishing
    broken,    \* history: whether the connection failed on the way
    drained    \* history: whether Close received what had not been read

history == <<late, missed, broken, drained>>
stream == <<set, row, ended, out, opened, closed, stopped>>
vars == <<method, response, pc, error, canceled, stream, history>>

Sets == response.Sets
Rows(k) == Sets[k].Rows
Expected == Len(method.Schemas)

-----------------------------------------------------------------------------
(***************************************************************************)
(* What the generators emit for which method.                               *)
(***************************************************************************)
IsGo == method.Runtime \in {"ydb", "sql"}
IsEach == method.Command = "each"

\* After the expected sets the method asks for one more and refuses it.
RefusesExtraSet ==
    \/ method.Command \in {"each", "multi"}
    \/ method.Command = "many" /\ method.Runtime = "ydb"
    \/ method.Command = "many" /\ method.Runtime = "jdbc" /\ method.Multiple

\* A response with fewer sets than expected is refused.
RequiresSet == ~(method.Runtime = "sql" /\ method.Command = "many")
               /\ method.Command # "exec"

\* The JDBC loop for scripts reads every set there is.
ReadsEverySet == method.Command = "exec" /\ method.Runtime = "jdbc"

\* The error of Close is returned; elsewhere a deferred Close drops it.
ReportsClose ==
    \/ method.Command \in {"each", "multi", "exec"}
    \/ method.Runtime = "jdbc"
    \/ method.Runtime = "sql" /\ method.Multiple

\* Fault: the context is only looked at when everything has been read.
CanceledAtEnd(checks) == IsGo /\ checks /\ canceled /\ pc = "finish"

\* ctx.Err() of a method that looks at the context at this point.
Canceled(checks) == IsGo /\ checks /\ canceled

-----------------------------------------------------------------------------
Goto(next) == pc' = next
Fail == pc' = "closing" /\ error' = TRUE

\* The caller passes no callback, or a canceled context; a JDBC connection is
\* not set up for streaming.  Nothing has been sent.
Refuse ==
    /\ pc = "start" /\ IsEach
    /\ Goto("returned") /\ error' = TRUE
    /\ UNCHANGED <<method, response, canceled, stream, history>>

Query ==
    /\ pc = "start"
    /\ ~Canceled(IsEach)
    /\ \/ /\ opened' = TRUE
          /\ Goto("set")
          /\ UNCHANGED <<error, broken>>
       \/ /\ Goto("returned") /\ error' = TRUE
          /\ broken' = TRUE
          /\ UNCHANGED opened
    /\ UNCHANGED <<method, response, canceled, set, row, ended, out, closed,
                   stopped, late, missed, drained>>

\* A request for the next set or row fails, for one reason or another; with
\* database/sql it may be rows.Err that tells.
ReadFails ==
    /\ pc \in {"set", "row"} \/ (pc = "finish" /\ method.Runtime = "sql")
    /\ Fail
    /\ broken' = TRUE
    /\ UNCHANGED <<method, response, canceled, stream, late, missed, drained>>

\* The set may be read; only :multi compares its schema.
AcceptsSet ==
    \/ ReadsEverySet
    \/ /\ set < Expected
       /\ method.Command = "multi" =>
              Sets[set + 1].Schema = method.Schemas[set + 1]

NextSet ==
    /\ pc = "set"
    /\ set < Len(Sets)
    /\ \/ /\ AcceptsSet
          /\ set' = set + 1 /\ row' = 0
          /\ out' = Append(out, <<>>)
          /\ Goto("row")
          /\ UNCHANGED error
       \/ /\ ~AcceptsSet
          /\ Fail
          /\ UNCHANGED <<set, row, out>>
    /\ UNCHANGED <<method, response, canceled, ended, opened, closed, stopped,
                   history>>

\* Fault: the end of the stream is not told from its failure.
NoMoreSetsLenient ==
    /\ pc = "set"
    /\ set >= Len(Sets)
    /\ IF RequiresSet /\ set < Expected
       THEN Fail
       ELSE Goto("finish") /\ UNCHANGED error
    /\ ended' = TRUE
    /\ UNCHANGED <<method, response, canceled, set, row, out, opened, closed,
                   stopped, history>>

\* Fault: the loop over the remaining results does not end.
NoMoreSetsLoops ==
    /\ pc = "set"
    /\ set >= Len(Sets)
    /\ UNCHANGED vars

NoMoreSets ==
    /\ pc = "set"
    /\ set >= Len(Sets)
    /\ IF response.Failure \/ (RequiresSet /\ set < Expected)
       THEN Fail
       ELSE Goto("finish") /\ UNCHANGED error
    /\ ended' = TRUE
    /\ UNCHANGED <<method, response, canceled, set, row, out, opened, closed,
                   stopped, history>>

\* The Go loops for :each look at the context before they read.  A script
\* run for its effects throws rows away.
ReadRow ==
    LET next == Rows(set)[row + 1]
        refused == Canceled(IsEach) \/ (method.Command # "exec" /\ ~next.Scans)
    IN  /\ pc = "row"
        /\ row < Len(Rows(set))
        /\ \/ /\ refused
              /\ Fail
              /\ UNCHANGED <<row, out>>
           \/ /\ ~refused
              /\ row' = row + 1
              /\ IF method.Command \in {"multi", "many"}
                 THEN out' = [out EXCEPT ![set] = Append(@, next.Value)]
                 ELSE UNCHANGED out
              /\ IF IsEach THEN Goto("check") ELSE UNCHANGED pc
              /\ UNCHANGED error
        /\ UNCHANGED <<method, response, canceled, set, ended, opened,
                       closed, stopped, history>>

\* Only the loop over the native SDK looks at the context before it learns
\* that there is no further row.
EndOfSet ==
    LET refused == Canceled(IsEach /\ method.Runtime = "ydb")
    IN  /\ pc = "row"
        /\ row >= Len(Rows(set))
        /\ \/ /\ refused
              /\ Fail
           \/ /\ ~refused
              /\ Goto(IF set < Expected \/ RefusesExtraSet \/ ReadsEverySet
                      THEN "set" ELSE "finish")
              /\ UNCHANGED error
        /\ UNCHANGED <<method, response, canceled, stream, history>>

\* The second look at the context, after the row was decoded.
CheckBeforeCall ==
    /\ pc = "check"
    /\ IF Canceled(TRUE) THEN Fail ELSE Goto("call") /\ UNCHANGED error
    /\ UNCHANGED <<method, response, canceled, stream, history>>

Call ==
    /\ pc = "call"
    /\ Goto("consuming")
    /\ out' = [out EXCEPT ![set] = Append(@, Rows(set)[row].Value)]
    /\ late' = IF canceled THEN late + 1 ELSE late
    /\ UNCHANGED <<method, response, error, canceled, set, row, ended, opened,
                   closed, stopped, missed, broken, drained>>

\* The callback returns nil, or it returns an error or panics.
CallReturns ==
    /\ pc = "consuming"
    /\ Goto("row") /\ UNCHANGED error
    /\ UNCHANGED <<method, response, canceled, stream, history>>

CallFails ==
    /\ pc = "consuming"
    /\ Fail
    /\ UNCHANGED <<method, response, canceled, stream, history>>

\* Fault: a call that has read everything does not look at the context.
FinishUnchecked ==
    /\ pc = "finish"
    /\ Goto("closing") /\ UNCHANGED error
    /\ UNCHANGED <<method, response, canceled, stream, history>>

\* The last look at the context.
Finish ==
    /\ pc = "finish"
    /\ IF Canceled(method.Command \in {"each", "multi"})
       THEN Fail
       ELSE Goto("closing") /\ UNCHANGED error
    /\ UNCHANGED <<method, response, canceled, stream, history>>

\* Fault: an early exit of :each closes the stream without canceling it.
StopsEarlyNever == FALSE

\* What :each leaves unread is canceled before Close, and JDBC's close of the
\* statement cancels by itself.
StopsEarly == IF IsGo THEN IsEach /\ error ELSE ~ended

\* Fault: what was collected is returned beside the error.
ReturnedAnyway == out

\* An error returns no rows.
Returned == IF error' /\ ~IsEach THEN <<>> ELSE out

\* Deferred functions, or the end of try-with-resources.  Close receives what
\* is left unless the stream is canceled, and reports how that ended; it may
\* also fail on its own account.
Close ==
    LET drains == ~ended /\ ~canceled /\ ~StopsEarly
    IN  /\ pc = "closing"
        /\ stopped' = StopsEarly
        /\ closed' = TRUE
        /\ drained' = drains
        /\ \E fails \in BOOLEAN :
              /\ drains /\ response.Failure => fails
              /\ broken' = (broken \/ fails)
              /\ error' = (error \/ (fails /\ ReportsClose))
        /\ out' = Returned
        /\ Goto("returned")
        /\ UNCHANGED <<method, response, canceled, set, row, ended, opened,
                       late, missed>>

Cancel ==
    /\ pc # "returned" /\ IsGo /\ ~canceled
    /\ canceled' = TRUE
    /\ missed' = (pc \notin {"closing", "returned"})
    /\ UNCHANGED <<method, response, pc, error, stream, late, broken, drained>>

Init ==
    /\ method \in Methods
    /\ response \in Responses
    /\ pc = "start"
    /\ set = 0 /\ row = 0 /\ ended = FALSE
    /\ out = <<>>
    /\ error = FALSE
    /\ canceled = FALSE /\ stopped = FALSE
    /\ opened = FALSE /\ closed = FALSE
    /\ late = 0
    /\ missed = FALSE /\ broken = FALSE /\ drained = FALSE

Progress ==
    \/ Refuse \/ Query
    \/ NextSet \/ NoMoreSets \/ ReadRow \/ EndOfSet
    \/ CheckBeforeCall \/ Call \/ CallReturns
    \/ Finish \/ Close

Step == Progress \/ ReadFails \/ CallFails

Next == Step \/ Cancel

Spec == Init /\ [][Next]_vars

\* Calls of the SDK or driver return, and so does the callback; none of them
\* has to fail for the method to go on.
FairSpec == Spec /\ WF_vars(Progress)

-----------------------------------------------------------------------------
(***************************************************************************)
(* Properties.                                                              *)
(***************************************************************************)

Values(k) == [i \in DOMAIN Rows(k) |-> Rows(k)[i].Value]

\* A call that returns without an error has handed out, in order and once,
\* every row of the sets its query has; where it looks further, the response
\* had no other set; and where it waits for the end of the response (always,
\* except for a single statement read with :many through a driver), nothing
\* failed on the way, not even after the last row.
SuccessIsComplete ==
    pc = "returned" /\ ~error =>
        /\ method.Command # "exec" =>
              /\ Len(out) <= Expected
              /\ RequiresSet => Len(out) = Expected
              /\ \A k \in DOMAIN out : out[k] = Values(k)
        /\ method.Command = "multi" =>
              \A k \in DOMAIN out : Sets[k].Schema = method.Schemas[k]
        /\ RefusesExtraSet => Len(Sets) = Expected /\ ~response.Failure
        /\ IsGo /\ ReportsClose => canceled \/ ~response.Failure
        /\ ReportsClose => ~broken

\* "An error returns a zero result, without partial slices", also when the
\* error is one of Close.
NoPartialResult == pc = "returned" /\ error /\ ~IsEach => out = <<>>

\* "Context cancellation stops further delivery": one callback may have been
\* under way to its call, no other begins.
CancellationStops == late <= 1

\* A call of :each or :multi whose context was canceled before it had looked
\* at it for the last time does not succeed.
CancellationReported ==
    /\ pc = "returned" /\ ~error
    /\ IsGo /\ method.Command \in {"each", "multi"}
    => ~missed

\* "The generated method owns the query result and closes it on every exit",
\* and "early exit does not drain it".
ClosedOnEveryExit ==
    pc = "returned" /\ opened => closed /\ (IsEach => ~drained)

\* Every call returns (FairSpec).
Ends == <>(pc = "returned")
=============================================================================
