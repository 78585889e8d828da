--------------------------- MODULE ManualTracing ---------------------------
(***************************************************************************)
(* inspectRun() and step() around the application's functions, the context *)
(* AsyncLocalStorage carries from one to the other, and the trace files    *)
(* with their fallback directory.  A program is a tree of calls; the model *)
(* makes any of them, in any order their functions may make them.          *)
(*                                                                         *)
(* A row lands and its writer resumes in one action: what a handler does   *)
(* between two file operations touches nothing another handler reads.      *)
(* Left out: terminal output, names, metadata, times, validation of rows.  *)
(***************************************************************************)
EXTENDS Naturals, Sequences, FiniteSets

CONSTANTS
    Runs,        \* calls of inspectRun()
    Steps,       \* calls of step()
    None,        \* no call
    Outer,       \* [Calls -> Calls \cup {None}]: the call whose fn makes this one
    Awaited,     \* calls that fn awaits before it returns
    Disabled,    \* runs with options.enabled = false
    MaxFaults    \* bound: file operations refused

Calls == Runs \cup Steps

ASSUME TracingAssumption ==
    /\ Runs \cap Steps = {} /\ None \notin Calls
    /\ Outer \in [Calls -> Calls \cup {None}]
    /\ Awaited \subseteq Calls /\ Disabled \subseteq Runs
    /\ MaxFaults \in Nat

VARIABLES
    pc,        \* new, creating, starting, inside (fn runs), completing, settled
    store,     \* what getStore() returns inside the call's fn
    failed,    \* calls whose fn threw
    file,      \* the rows of each run's file in each directory
    lost,      \* rows both directories refused
    faults     \* file operations refused so far

vars == <<pc, store, failed, file, lost, faults>>

Traced == Runs \ Disabled
Dirs == {"trace-dir", "fallback"}
NoContext == [run |-> None, step |-> None]

Init ==
    /\ pc = [x \in Calls |-> "new"]
    /\ store = [x \in Calls |-> NoContext]
    /\ failed = {}
    /\ file = [r \in Traced |-> [d \in Dirs |-> <<>>]]
    /\ lost = {}
    /\ faults = 0

-----------------------------------------------------------------------------
(* context.ts                                                               *)

\* The context a call is made in: that of the fn it is made from.
Context(x) == IF Outer[x] = None THEN NoContext ELSE store[Outer[x]]

RunContext_KeepsStep(x) == [Context(x) EXCEPT !.run = x]        \* mutant

\* runWithContext
RunContext(x) == [run |-> x, step |-> None]

\* runWithStepContext
StepContext(x) == [Context(x) EXCEPT !.step = x]

\* A disabled run and a step outside any run are called bare.
Bare(x) == x \in Disabled \/ (x \in Steps /\ Context(x) = NoContext)

-----------------------------------------------------------------------------
(* The application                                                          *)

\* fn makes the call while it runs; what it does not await may be made from a
\* callback after it has returned.
MayCall(x) ==
    /\ pc[x] = "new"
    /\ Outer[x] # None =>
          pc[Outer[x]] \in {"inside"} \cup
              (IF x \in Awaited THEN {} ELSE {"completing", "settled"})

Enter(x, at, context) ==
    /\ MayCall(x)
    /\ pc' = [pc EXCEPT ![x] = at]
    /\ store' = [store EXCEPT ![x] = context]
    /\ UNCHANGED <<failed, file, lost, faults>>

CalledBare(x) == Bare(x) /\ Enter(x, "inside", Context(x))

RunCalled(x) == x \in Traced /\ Enter(x, "creating", RunContext(x))

StepCalled(x) ==
    /\ x \in Steps
    /\ ~Bare(x)
    /\ Enter(x, "starting", StepContext(x))

Pending(x) ==
    {c \in Calls : Outer[c] = x /\ c \in Awaited /\ pc[c] \notin {"new", "settled"}}

FnMaySettle_NotAwaited(x, ok) == TRUE                           \* mutant

\* await fn(): a function that returns has awaited its calls; one that throws,
\* as Promise.all does at the first rejection, may leave some running.
FnMaySettle(x, ok) == ok => Pending(x) = {}

FnSettles(x, ok) ==
    /\ pc[x] = "inside"
    /\ FnMaySettle(x, ok)
    /\ failed' = IF ok THEN failed ELSE failed \cup {x}
    /\ pc' = [pc EXCEPT ![x] = IF Bare(x) THEN "settled" ELSE "completing"]
    /\ UNCHANGED <<store, file, lost, faults>>

-----------------------------------------------------------------------------
(* storage.ts                                                               *)

\* Where a file operation of a run succeeds, and how many refusals it took.
Outcomes == {"trace-dir", "fallback", "nowhere"}
Refused(d) == CASE d = "trace-dir" -> 0 [] d = "fallback" -> 1 [] OTHER -> 2

Refuse(d) ==
    /\ faults + Refused(d) <= MaxFaults
    /\ faults' = faults + Refused(d)

\* The run a call's rows name.
RunOf(x) == store[x].run

\* initializeTraceFile creates or truncates the run's file.
FileInitialised(x, d) ==
    /\ pc[x] = "creating"
    /\ Refuse(d)
    /\ file' = IF d \in Dirs THEN [file EXCEPT ![x][d] = <<>>] ELSE file
    /\ pc' = [pc EXCEPT ![x] = "starting"]
    /\ UNCHANGED <<store, failed, lost>>

\* run_started, step_started; run_completed, step_completed.
Row(x) ==
    IF pc[x] = "starting"
      THEN [event |-> "started", of |-> x, ok |-> TRUE,
            parent |-> IF x \in Runs THEN None ELSE Context(x).step]
      ELSE [event |-> "completed", of |-> x, ok |-> x \notin failed,
            parent |-> None]

\* tryAppend in the run's directory, then in the fallback directory.
Appended(d, row, files) ==
    [e \in Dirs |-> IF e = d THEN Append(files[e], row) ELSE files[e]]

RowWritten(x, d) ==
    /\ pc[x] \in {"starting", "completing"}
    /\ Refuse(d)
    /\ file' = [file EXCEPT ![RunOf(x)] = Appended(d, Row(x), @)]
    /\ lost' = IF d \in Dirs THEN lost ELSE lost \cup {Row(x)}
    /\ pc' = [pc EXCEPT ![x] = IF @ = "starting" THEN "inside" ELSE "settled"]
    /\ UNCHANGED <<store, failed>>

Next ==
    \E x \in Calls :
        \/ CalledBare(x) \/ RunCalled(x) \/ StepCalled(x)
        \/ \E ok \in BOOLEAN : FnSettles(x, ok)
        \/ \E d \in Outcomes : FileInitialised(x, d) \/ RowWritten(x, d)

Spec == Init /\ [][Next]_vars

-----------------------------------------------------------------------------
(* Properties                                                               *)

Rows == [event : {"started", "completed"}, of : Calls, ok : BOOLEAN,
         parent : Steps \cup {None}]

\* Types; a context that names a step always names the run it belongs to.
TypeOK ==
    /\ pc \in [Calls -> {"new", "creating", "starting", "inside", "completing",
                         "settled"}]
    /\ store \in [Calls -> [run : Traced, step : Steps \cup {None}]
                            \cup {NoContext}]
    /\ failed \subseteq Calls
    /\ file \in [Traced -> [Dirs -> Seq(Rows)]]
    /\ lost \subseteq Rows
    /\ faults \in 0 .. MaxFaults

\* The places a row of the call stands: its files, and the lost ones.
Written(files, x, event) ==
    UNION {{<<run, dir, i>> : i \in {j \in DOMAIN files[run][dir] :
                                      /\ files[run][dir][j].of = x
                                      /\ files[run][dir][j].event = event}} :
           run \in Traced, dir \in Dirs}
Copies(x, event) ==
    Written(file, x, event) \cup {row \in lost : row.of = x /\ row.event = event}

\* Each traced call writes one started and one completed row, into the files of
\* its own run and into one directory only, or loses it when both directories
\* refuse; retrying in the fallback directory neither repeats nor skips a row.
OnceEach ==
    \A x \in Calls :
        /\ Cardinality(Copies(x, "started")) =
              (IF ~Bare(x) /\ pc[x] \in {"inside", "completing", "settled"} THEN 1
               ELSE 0)
        /\ Cardinality(Copies(x, "completed")) =
              (IF ~Bare(x) /\ pc[x] = "settled" THEN 1 ELSE 0)
        /\ \A copy \in Copies(x, "started") \ lost : copy[1] = RunOf(x)

InOrder(f) ==
    \A i, j \in DOMAIN f :
        /\ (f[j].event = "started" /\ f[j].of \in Runs) => j = 1
        /\ (f[i].of = f[j].of /\ f[i].event = "started"
               /\ f[j].event = "completed") => i < j
        /\ (f[i].event = "started" /\ f[j].event = "started"
               /\ f[i].of = f[j].parent) => i < j
        /\ (f[i].event = "completed" /\ f[j].event = "completed" /\ f[j].ok
               /\ f[i].of \in Awaited /\ Outer[f[i].of] = f[j].of) => i < j

\* In every file, whatever the calls overlap and wherever rows fell back: the
\* run opens it, a call completes after it starts, a step starts after its
\* parent did, and a call that returned completes after those it awaited.
RowsInOrder == \A run \in Traced, dir \in Dirs : InOrder(file[run][dir])

\* The calls a call is nested in: those in every set that holds the call around it and,
\* with each of its members, the call around that.
Outward(s) == \A y \in s : Outer[y] \in s \cup {None}
Above == [x \in Calls |->
    {y \in Calls : \A s \in SUBSET Calls :
        Outward(s) /\ Outer[x] \in s \cup {None} => y \in s}]

Innermost(x, calls) == x \in calls /\ \A y \in calls : y = x \/ y \in Above[x]

\* The steps among the calls that are inside of the run.
StepsIn(run, calls) == {y \in calls \cap Steps : run \in Above[y]}

\* A step's row is in the file of the innermost traced run around the call and
\* names the innermost step between the two; runs that are disabled count for
\* nothing, and a nested run hides the steps around it.
ParentIsEnclosing ==
    \A run \in Traced, dir \in Dirs : \A i \in DOMAIN file[run][dir] :
        LET row == file[run][dir][i]
            inside == StepsIn(run, Above[row.of]) IN
        (row.of \in Steps /\ row.event = "started") =>
            /\ Innermost(run, Above[row.of] \cap Traced)
            /\ IF inside = {} THEN row.parent = None
                             ELSE Innermost(row.parent, inside)

\* Every row is where it belongs, once.
RowsPlaced == OnceEach /\ ParentIsEnclosing

-----------------------------------------------------------------------------
(* The inductive invariant of ManualTracingProofs                           *)

Begun == {"inside", "completing", "settled"}

\* A call is made from an fn that began, in a context of calls that began.  A
\* traced run has its own context; any other call keeps the run around it.
Nested ==
    \A x \in Calls :
        /\ pc[x] = "new" => store[x] = NoContext
        /\ pc[x] # "new" =>
              /\ Outer[x] # None => pc[Outer[x]] \in Begun
              /\ store[x].run # x => store[x].run = Context(x).run
              /\ x \in Traced => store[x] = [run |-> x, step |-> None]
        /\ pc[x] = "creating" => x \in Traced
        /\ pc[x] \in {"creating", "starting", "completing"} =>
              RunOf(x) # None /\ x \notin Disabled
        /\ \A y \in {store[x].run, store[x].step} \ {x, None} : pc[y] \in Begun

\* A row is there because its call has come that far, in a run that has begun,
\* under a step that has begun.
RowsMatch ==
    \A run \in Traced, dir \in Dirs : \A i \in DOMAIN file[run][dir] :
        LET row == file[run][dir][i] IN
        /\ pc[run] \in Begun
        /\ pc[row.of] \in Begun
        /\ row.event = "completed" =>
              pc[row.of] = "settled" /\ (row.ok => row.of \notin failed)
        /\ (row.event = "started" /\ row.parent # None) => pc[row.parent] \in Begun

\* A row is in the file of its call's run, and says what came of the call, or under which
\* step it was made.
RowsTell ==
    \A run \in Traced, dir \in Dirs : \A i \in DOMAIN file[run][dir] :
        LET row == file[run][dir][i] IN
        /\ RunOf(row.of) = run
        /\ row.event = "completed" => row.parent = None /\ (row.ok <=> row.of \notin failed)
        /\ row.event = "started" =>
              row.parent = IF row.of \in Runs THEN None ELSE Context(row.of).step

\* A function that returned has awaited its calls.
AwaitedDone ==
    \A x \in Awaited :
        (Outer[x] # None /\ pc[Outer[x]] \in {"completing", "settled"}
            /\ Outer[x] \notin failed) => pc[x] \in {"new", "settled"}

\* A context names the innermost traced run of some calls, and their innermost step in that run.
Names(context, calls) ==
    /\ IF calls \cap Traced = {} THEN context.run = None
                                ELSE Innermost(context.run, calls \cap Traced)
    /\ IF StepsIn(context.run, calls) = {} THEN context.step = None
                                ELSE Innermost(context.step, StepsIn(context.run, calls))

\* What a call's fn has for its context is right, of calls that have all begun before it.
Enclosed ==
    \A x \in Calls : pc[x] # "new" =>
        /\ \A y \in Above[x] : y # x /\ pc[y] \in Begun
        /\ Names(store[x], Above[x] \cup {x})

\* OnceEach, without counting: a row that has been written has one copy, another none.
Single(x, event, written) ==
    IF written THEN \E copy \in Copies(x, event) : Copies(x, event) = {copy}
               ELSE Copies(x, event) = {}
Singly ==
    \A x \in Calls :
        /\ Single(x, "started", ~Bare(x) /\ pc[x] \in Begun)
        /\ Single(x, "completed", ~Bare(x) /\ pc[x] = "settled")
        /\ \A copy \in Copies(x, "started") \ lost : copy[1] = RunOf(x)

IInv ==
    /\ TypeOK /\ Nested /\ RowsMatch /\ AwaitedDone /\ RowsInOrder
    /\ Enclosed /\ ParentIsEnclosing /\ Singly /\ RowsTell
=============================================================================
