----------------------------- MODULE Inspector -----------------------------
(***************************************************************************)
(* createInspector() over a fileWriter: inspector.run, step and its        *)
(* wrappers, observeOutcome, flush and close.  A call is made from the fn  *)
(* of another one, or outside of any; each row is awaited until the writer *)
(* has settled it.  The writer has a filePath: all rows go to one file.    *)
(*                                                                         *)
(* Left out: enabled: false, a missing writer, rows that are not valid,    *)
(* the context's metadata, the content of rows.                            *)
(***************************************************************************)
EXTENDS FileWriter

CONSTANTS
    Runs, Steps, Outcomes,   \* calls of run, of step/tool/llm/observe, of observeOutcome
    Outer,                   \* [Calls -> Calls \cup {None}]: from whose fn the call is made
    None

Calls == Runs \cup Steps \cup Outcomes

ASSUME InspectorAssumption ==
    /\ Outer \in [Calls -> Runs \cup Steps \cup {None}]
    /\ (Runs \cup Steps) \cap Outcomes = {}
    /\ MaxEvents >= 2 * Cardinality(Calls)

VARIABLES
    pc,            \* [Calls -> where the call stands]
    row,           \* [Calls -> the write() the call awaits, or 0]
    wrote,         \* history: what the rows given to the writer are, by event number
    runtimeClosed, \* closed of the runtime, not the writer's
    closer         \* [Callers -> where its inspector.close() stands]

inspectorVars == <<pc, row, wrote, runtimeClosed, closer>>

IInit ==
    /\ Init
    /\ pc = [x \in Calls |-> "new"]
    /\ row = [x \in Calls |-> 0]
    /\ wrote = <<>>
    /\ runtimeClosed = FALSE
    /\ closer = [c \in Callers |-> "open"]

\* getCurrentContext(): the run around a call, if there is one.
InRun[x \in Calls] ==
    IF x \in Runs THEN TRUE ELSE Outer[x] # None /\ InRun[Outer[x]]

Begun == {"inside", "completing", "settled"}

MayCall(x) == pc[x] = "new" /\ (Outer[x] # None => pc[Outer[x]] \in Begun)

\* runtime.write: nothing once the runtime is closed.
Write(x, event, ok) ==
    \/ /\ runtimeClosed
       /\ row' = [row EXCEPT ![x] = 0]
       /\ UNCHANGED <<vars, wrote>>
    \/ /\ ~runtimeClosed
       /\ Enqueue
       /\ row' = [row EXCEPT ![x] = issued + 1]
       /\ wrote' = Append(wrote, [of |-> x, event |-> event, ok |-> ok])

Settled_Unawaited(x) == TRUE                                    \* mutant

\* The promise of write() is the writer's operation.
Settled(x) == row[x] \notin Queued

Goes(x, place) == pc' = [pc EXCEPT ![x] = place]

Called(x) ==
    /\ MayCall(x) /\ InRun[x] /\ x \notin Outcomes
    /\ Goes(x, "starting")
    /\ Write(x, "started", TRUE)
    /\ UNCHANGED <<runtimeClosed, closer>>

\* Outside of any run a step is its fn, an outcome nothing.
CalledBare(x) ==
    /\ MayCall(x) /\ ~InRun[x]
    /\ Goes(x, IF x \in Outcomes THEN "settled" ELSE "inside")
    /\ UNCHANGED <<vars, row, wrote, runtimeClosed, closer>>

Observed(x) ==
    /\ MayCall(x) /\ InRun[x] /\ x \in Outcomes
    /\ Goes(x, "completing")
    /\ Write(x, "observed", TRUE)
    /\ UNCHANGED <<runtimeClosed, closer>>

FnBegins(x) ==
    /\ pc[x] = "starting" /\ Settled(x)
    /\ Goes(x, "inside")
    /\ UNCHANGED <<vars, row, wrote, runtimeClosed, closer>>

\* ok is FALSE when fn threw, or when summarizing what it returned did: the ok
\* row is made inside the try.
FnSettles(x, ok) ==
    /\ pc[x] = "inside" /\ InRun[x]
    /\ Goes(x, "completing")
    /\ Write(x, "completed", ok)
    /\ UNCHANGED <<runtimeClosed, closer>>

BareSettles(x) ==
    /\ pc[x] = "inside" /\ ~InRun[x]
    /\ Goes(x, "settled")
    /\ UNCHANGED <<vars, row, wrote, runtimeClosed, closer>>

Returns(x) ==
    /\ pc[x] = "completing" /\ Settled(x)
    /\ Goes(x, "settled")
    /\ UNCHANGED <<vars, row, wrote, runtimeClosed, closer>>

-----------------------------------------------------------------------------
(* flush() and close()                                                      *)

Flush(c) ==
    /\ closer[c] # "closing"
    /\ FlushCalled(c)
    /\ UNCHANGED inspectorVars

\* The closed flag set when close() is called.
Close_FlagFirst(c) ==                                           \* mutant
    /\ closer[c] = "open" /\ ~Waiting(c)
    /\ closer' = [closer EXCEPT ![c] = IF runtimeClosed THEN "returned" ELSE "closing"]
    /\ runtimeClosed' = TRUE
    /\ IF runtimeClosed THEN UNCHANGED vars ELSE CloseCalled(c)
    /\ UNCHANGED <<pc, row, wrote>>

\* close(): at once on a closed runtime, else by way of the writer's.
Close(c) ==
    /\ closer[c] = "open" /\ ~Waiting(c)
    /\ closer' = [closer EXCEPT ![c] = IF runtimeClosed THEN "returned" ELSE "closing"]
    /\ IF runtimeClosed \/ closed THEN UNCHANGED vars ELSE CloseCalled(c)
    /\ UNCHANGED <<pc, row, wrote, runtimeClosed>>

\* finally { closed = true }, when the writer's close() has settled.
CloseReturns(c) ==
    /\ closer[c] = "closing" /\ ~Waiting(c)
    /\ closer' = [closer EXCEPT ![c] = "returned"]
    /\ runtimeClosed' = TRUE
    /\ UNCHANGED <<vars, pc, row, wrote>>

-----------------------------------------------------------------------------
INext ==
    \/ \E x \in Calls :
          \/ Called(x) \/ CalledBare(x) \/ Observed(x)
          \/ FnBegins(x) \/ BareSettles(x) \/ Returns(x)
          \/ \E ok \in BOOLEAN : FnSettles(x, ok)
    \/ \E c \in Callers : Flush(c) \/ Close(c) \/ CloseReturns(c)
    \/ JobStep /\ UNCHANGED inspectorVars

ISpec == IInit /\ [][INext]_<<vars, inspectorVars>>

-----------------------------------------------------------------------------
(* Properties                                                               *)

RowsOf(x, event) == {e \in DOMAIN wrote : wrote[e].of = x /\ wrote[e].event = event}

\* What of a written row may be missing: the file system refused it.
Kept(e) == e \in disk \/ (e \in discarded /\ e <= cut)

\* What a caller awaited is settled: fn does not begin before its started row,
\* and a call that returned has both rows unless the inspector was closed.  And
\* wherever close() cuts the calls under way, a row in the file has what it
\* stands on before it: a completion its start, a call the start of the call
\* around it, every row those written earlier.
ConsistentTrace ==
    /\ \A e \in DOMAIN wrote :
          LET at == pc[wrote[e].of] IN
          (at = "settled" \/ (at = "inside" /\ wrote[e].event = "started"))
             => e \in disk \cup discarded
    /\ \A x \in Calls : (pc[x] = "settled" /\ InRun[x] /\ ~runtimeClosed) =>
          IF x \in Outcomes THEN RowsOf(x, "observed") # {}
          ELSE RowsOf(x, "started") # {} /\ RowsOf(x, "completed") # {}
    /\ \A e \in disk :
          LET x == wrote[e].of
              below == IF wrote[e].event = "completed" THEN x ELSE Outer[x] IN
          /\ \A d \in 1 .. e : Kept(d)
          /\ (below # None /\ InRun[below]) => \E d \in RowsOf(below, "started") : d < e

\* docs/LIFECYCLE.md lets every signal handler await close().  Once any of them
\* has it behind it no row is appended any more, whoever else is still closing:
\* the file may be read, or the process left.
QuietAfterClose ==
    [][(\E c \in Callers : closer[c] = "returned") =>
          disk' = disk /\ ~appending']_<<vars, inspectorVars>>
=============================================================================
