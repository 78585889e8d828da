------------------------------- MODULE AiSdk -------------------------------
(***************************************************************************)
(* The AI SDK telemetry integration (packages/ai-sdk/src/index.ts).  One   *)
(* integration keeps at most one active run; the framework's generations   *)
(* call it back, and every callback is cut where it awaits its row.  A     *)
(* generation that starts while a run is active abandons that run, ends    *)
(* what is open in it one awaited row at a time, and is itself ignored.    *)
(*                                                                         *)
(* A strand is a sequence of callbacks the framework awaits one by one: a  *)
(* generation, or a tool call, which runs beside its generation.  The run  *)
(* a generation starts is named after it.  The writer takes rows in the    *)
(* order of the calls and never throws (TraceSink, FileWriter).            *)
(***************************************************************************)
EXTENDS Naturals, Sequences, FiniteSets

CONSTANTS Generations, \* bound: how many generations
          Steps,       \* bound: the model calls of each generation
          MaxFailures, \* bound: generations that fail
          Concurrent,  \* the generations that may start while another one goes on
          Tool,        \* tool calls
          Caller,      \* the generation of each tool call
          Closer,      \* the application's call of close()
          None

Gen == 1..Generations     \* numbered in the order in which they start

ASSUME AiSdkAssumption ==
    /\ Caller \in [Tool -> Gen]
    /\ Generations \in Nat /\ MaxFailures \in Nat
    /\ Steps \in [Gen -> Nat] /\ Concurrent \subseteq Gen
    /\ Closer \notin Gen \cup Tool /\ None \notin Gen \cup Tool \cup {Closer}
    /\ Gen \cap Tool = {}

VARIABLES
    \* the framework
    phase,        \* a generation: idle, open, step (a model call runs), done, failed
    step,         \* its current model call
    tool,         \* a tool call: idle, running, ended
    overlapped,   \* history: a generation started while another one went on
    \* the integration
    active,       \* activeRun
    suspended,    \* suspendedReason is set
    tools, steps, \* the Maps of every run object, in insertion order
    h,            \* the callback in flight of each strand
    \* the writer
    closed,       \* close() was called on it
    log           \* the rows of every run, in the order of the calls

framework == <<phase, step, tool, overlapped>>
vars == <<phase, step, tool, overlapped, active, suspended, tools, steps, h,
          closed, log>>

Strand == Gen \cup Tool \cup {Closer}

RunEvent(g) == <<"run", g, 0>>
StepEvent(g, n) == <<"step", g, n>>
ToolEvent(t) == <<"tool", Caller[t], t>>
RunEvents == {RunEvent(g) : g \in Gen}
StepEvents == UNION {{StepEvent(g, n) : n \in 1..Steps[g]} : g \in Gen}
ToolEvents == {ToolEvent(t) : t \in Tool}
Event == RunEvents \cup StepEvents \cup ToolEvents

At(op, run, ev, key) == [op |-> op, run |-> run, ev |-> ev, key |-> key]
Idle == At("idle", None, None, 0)

Init ==
    /\ phase = [g \in Gen |-> "idle"] /\ step = [g \in Gen |-> 0]
    /\ tool = [t \in Tool |-> "idle"] /\ overlapped = FALSE
    /\ active = None /\ suspended = FALSE
    /\ tools = [g \in Gen |-> <<>>] /\ steps = [g \in Gen |-> <<>>]
    /\ h = [s \in Strand |-> Idle]
    /\ closed = FALSE /\ log = [g \in Gen |-> <<>>]

-----------------------------------------------------------------------------
(* A JavaScript Map: a deleted entry keeps its place, so an iteration that *)
(* is under way neither skips nor repeats what is behind it.               *)

IndexOf(map, key) == {i \in DOMAIN map : map[i].live /\ map[i].key = key}
Entry(map, key) == map[CHOOSE i \in IndexOf(map, key) : TRUE]
SetEntry(map, key, ev, under) ==
    LET new == [key |-> key, ev |-> ev, under |-> under, live |-> TRUE] IN
    IF IndexOf(map, key) = {} THEN Append(map, new)
    ELSE [i \in DOMAIN map |-> IF i \in IndexOf(map, key) THEN new ELSE map[i]]
DeleteEntry(map, key) ==
    [i \in DOMAIN map |-> IF i \in IndexOf(map, key)
                          THEN [map[i] EXCEPT !.live = FALSE] ELSE map[i]]
Cleared(map) == [i \in DOMAIN map |-> [map[i] EXCEPT !.live = FALSE]]
After(map, i) == {j \in DOMAIN map : j > i /\ map[j].live}

\* write(): a closed writer drops the row
Row(run, ev, at, by, under) ==
    log' = IF closed THEN log
           ELSE [log EXCEPT ![run] =
                    Append(@, [ev |-> ev, at |-> at, by |-> by, under |-> under])]

\* getActiveRun: the callback is ignored without an active run, or while suspended
Ignored == suspended \/ active = None
Ignore(s) == Ignored /\ UNCHANGED <<active, suspended, tools, steps, h, closed, log>>

-----------------------------------------------------------------------------
(* terminalizeActiveRun *)

\* the next row of an abandonment that has passed place i of the Map it iterates
Reason(s) == IF s = Closer THEN "close" ELSE "overlap"
EndRun(s, r) ==
    /\ Row(r, RunEvent(r), "end", Reason(s), None)
    /\ h' = [h EXCEPT ![s] = At("run", r, RunEvent(r), 0)]
EndEntry(s, r, map, entry, j) ==
    /\ Row(r, entry.ev, "end", Reason(s), entry.under)
    /\ h' = [h EXCEPT ![s] = At(map, r, entry.ev, j)]
EndStepsAfter_OnlyTools(s, r, i) == EndRun(s, r)                 \* mutant
EndStepsAfter(s, r, i) ==
    \/ After(steps[r], i) = {} /\ EndRun(s, r)
    \/ \E j \in After(steps[r], i) :
          /\ \A k \in After(steps[r], i) : j <= k
          /\ EndEntry(s, r, "steps", steps[r][j], j)
EndToolsAfter(s, r, i) ==
    \/ After(tools[r], i) = {} /\ EndStepsAfter(s, r, 0)
    \/ \E j \in After(tools[r], i) :
          /\ \A k \in After(tools[r], i) : j <= k
          /\ EndEntry(s, r, "tools", tools[r][j], j)

Abandon_Not(s) ==                                               \* mutant
    UNCHANGED <<active, suspended, tools, steps, h, closed, log>>

Abandon(s) ==
    /\ EndToolsAfter(s, active, 0)
    /\ UNCHANGED <<active, suspended, tools, steps, closed>>

\* a row of the abandonment is written: the next one
AbandonGoesOn(s) ==
    /\ \/ h[s].op = "tools" /\ EndToolsAfter(s, h[s].run, h[s].key)
       \/ h[s].op = "steps" /\ EndStepsAfter(s, h[s].run, h[s].key)
    /\ UNCHANGED <<active, suspended, tools, steps, closed, framework>>

AbandonEnds_KeepsRun(s) ==                                      \* mutant
    /\ h[s].op = "run"
    /\ h' = [h EXCEPT ![s] = [@ EXCEPT !.op = "abandoned"]]
    /\ UNCHANGED <<active, tools, steps, suspended, closed, log, framework>>

\* ... or the end: whatever is active now is forgotten
AbandonEnds(s) ==
    /\ h[s].op = "run"
    /\ tools' = [tools EXCEPT ![h[s].run] = Cleared(@)]
    /\ steps' = [steps EXCEPT ![h[s].run] = Cleared(@)]
    /\ active' = None
    /\ h' = [h EXCEPT ![s] = [@ EXCEPT !.op = "abandoned"]]
    /\ UNCHANGED <<suspended, closed, log, framework>>

\* onStart continues after the abandonment it awaited
Suspend(g) ==
    /\ h[g].op = "abandoned"
    /\ suspended' = TRUE
    /\ h' = [h EXCEPT ![g] = Idle]
    /\ UNCHANGED <<active, tools, steps, closed, log, framework>>

-----------------------------------------------------------------------------
(* The callbacks of a generation *)

GoesOn(g) == phase[g] \in {"open", "step"} \/ h[g] # Idle

StartCalled(g) ==
    /\ phase[g] = "idle" /\ (g > 1 => phase[g - 1] # "idle")
    /\ g \in Concurrent \/ \A o \in Gen : ~GoesOn(o)
    /\ phase' = [phase EXCEPT ![g] = "open"]
    /\ overlapped' = (overlapped \/ \E o \in Gen : GoesOn(o))
    /\ UNCHANGED <<step, tool>>
    /\ \/ active # None /\ Abandon(g)
       \/ active = None /\ suspended
          /\ UNCHANGED <<active, suspended, tools, steps, h, closed, log>>
       \/ /\ active = None /\ ~suspended
          /\ active' = g
          /\ Row(g, RunEvent(g), "start", "own", None)
          /\ h' = [h EXCEPT ![g] = At("row", g, RunEvent(g), 0)]
          /\ UNCHANGED <<suspended, tools, steps, closed>>

StepStartCalled(g) ==
    /\ phase[g] = "open" /\ h[g] = Idle /\ step[g] < Steps[g]
    /\ phase' = [phase EXCEPT ![g] = "step"]
    /\ step' = [step EXCEPT ![g] = @ + 1]
    /\ UNCHANGED <<tool, overlapped>>
    /\ LET n == step[g] + 1  ev == StepEvent(g, n) IN
       \/ Ignore(g)
       \/ /\ ~Ignored
          /\ steps' = [steps EXCEPT ![active] = SetEntry(@, n, ev, RunEvent(active))]
          /\ Row(active, ev, "start", "own", RunEvent(active))
          /\ h' = [h EXCEPT ![g] = At("row", active, ev, n)]
          /\ UNCHANGED <<active, suspended, tools, closed>>

StepFinishCalled(g) ==
    /\ phase[g] = "step" /\ h[g] = Idle
    /\ \A t \in Tool : Caller[t] = g => tool[t] # "running" /\ h[t] = Idle
    /\ phase' = [phase EXCEPT ![g] = "open"]
    /\ UNCHANGED <<step, tool, overlapped>>
    /\ \/ Ignore(g)
       \/ /\ ~Ignored /\ IndexOf(steps[active], step[g]) = {}
          /\ UNCHANGED <<active, suspended, tools, steps, h, closed, log>>
       \/ /\ ~Ignored /\ IndexOf(steps[active], step[g]) # {}
          /\ LET e == Entry(steps[active], step[g]) IN
             /\ Row(active, e.ev, "end", "own", e.under)
             /\ h' = [h EXCEPT ![g] = At("endStep", active, e.ev, step[g])]
          /\ UNCHANGED <<active, suspended, tools, steps, closed>>

ToolStartCalled(t) ==
    LET g == Caller[t] IN
    /\ phase[g] = "step" /\ h[g] = Idle /\ tool[t] = "idle"
    /\ tool' = [tool EXCEPT ![t] = "running"]
    /\ UNCHANGED <<phase, step, overlapped>>
    /\ \/ Ignore(t)
       \/ /\ ~Ignored
          /\ LET under == IF IndexOf(steps[active], step[g]) = {} THEN RunEvent(active)
                          ELSE Entry(steps[active], step[g]).ev IN
             /\ tools' = [tools EXCEPT ![active] = SetEntry(@, t, ToolEvent(t), under)]
             /\ Row(active, ToolEvent(t), "start", "own", under)
          /\ h' = [h EXCEPT ![t] = At("row", active, ToolEvent(t), 0)]
          /\ UNCHANGED <<active, suspended, steps, closed>>

ToolFinishCalled(t) ==
    /\ tool[t] = "running" /\ h[t] = Idle
    /\ tool' = [tool EXCEPT ![t] = "ended"]
    /\ UNCHANGED <<phase, step, overlapped>>
    /\ \/ Ignore(t)
       \/ /\ ~Ignored /\ IndexOf(tools[active], t) = {}
          /\ UNCHANGED <<active, suspended, tools, steps, h, closed, log>>
       \/ /\ ~Ignored /\ IndexOf(tools[active], t) # {}
          /\ LET e == Entry(tools[active], t) IN
             /\ Row(active, e.ev, "end", "own", e.under)
             /\ h' = [h EXCEPT ![t] = At("endTool", active, e.ev, 0)]
          /\ UNCHANGED <<active, suspended, tools, steps, closed>>

FinishCalled_StaysSuspended(g) ==                               \* mutant
    /\ phase[g] = "open" /\ h[g] = Idle
    /\ phase' = [phase EXCEPT ![g] = "done"]
    /\ UNCHANGED <<step, tool, overlapped>>
    /\ \/ Ignored /\ UNCHANGED <<active, suspended, tools, steps, h, closed, log>>
       \/ /\ ~Ignored
          /\ Row(active, RunEvent(active), "end", "own", None)
          /\ h' = [h EXCEPT ![g] = At("endRun", active, RunEvent(active), 0)]
          /\ UNCHANGED <<active, suspended, tools, steps, closed>>

\* onFinish: the first one of a suspension, whoever's it is, lifts it
FinishCalled(g) ==
    /\ phase[g] = "open" /\ h[g] = Idle
    /\ phase' = [phase EXCEPT ![g] = "done"]
    /\ UNCHANGED <<step, tool, overlapped>>
    /\ \/ /\ suspended
          /\ suspended' = FALSE
          /\ UNCHANGED <<active, tools, steps, h, closed, log>>
       \/ /\ ~suspended /\ active = None
          /\ UNCHANGED <<active, suspended, tools, steps, h, closed, log>>
       \/ /\ ~suspended /\ active # None
          /\ Row(active, RunEvent(active), "end", "own", None)
          /\ h' = [h EXCEPT ![g] = At("endRun", active, RunEvent(active), 0)]
          /\ UNCHANGED <<active, suspended, tools, steps, closed>>

\* a model call throws or is aborted: no more callbacks of the generation
Fails(g) ==
    /\ phase[g] \in {"open", "step"} /\ h[g] = Idle
    /\ Cardinality({o \in Gen : phase[o] = "failed"}) < MaxFailures
    /\ phase' = [phase EXCEPT ![g] = "failed"]
    /\ UNCHANGED <<step, tool, overlapped, active, suspended, tools, steps, h, closed, log>>

\* the row a callback awaited is written
RowWritten(s) ==
    /\ h[s].op \in {"row", "endStep", "endTool", "endRun"}
    /\ steps' = IF h[s].op = "endStep"
                THEN [steps EXCEPT ![h[s].run] = DeleteEntry(@, h[s].key)] ELSE steps
    /\ tools' = IF h[s].op = "endTool"
                THEN [tools EXCEPT ![h[s].run] = DeleteEntry(@, s)] ELSE tools
    /\ active' = IF h[s].op = "endRun" THEN None ELSE active
    /\ h' = [h EXCEPT ![s] = Idle]
    /\ UNCHANGED <<suspended, closed, log, framework>>

-----------------------------------------------------------------------------
(* close() *)

CloseCalled ==
    /\ ~closed /\ h[Closer] = Idle
    /\ \/ active # None /\ Abandon(Closer)
       \/ /\ active = None
          /\ closed' = TRUE
          /\ h' = [h EXCEPT ![Closer] = At("closing", None, None, 0)]
          /\ UNCHANGED <<active, suspended, tools, steps, log>>
    /\ UNCHANGED framework

CloseWriter ==
    /\ h[Closer].op = "abandoned"
    /\ closed' = TRUE
    /\ h' = [h EXCEPT ![Closer] = At("closing", None, None, 0)]
    /\ UNCHANGED <<active, suspended, tools, steps, log, framework>>

CloseReturns ==
    /\ h[Closer].op = "closing"
    /\ active' = None /\ suspended' = FALSE
    /\ h' = [h EXCEPT ![Closer] = Idle]
    /\ UNCHANGED <<tools, steps, closed, log, framework>>

-----------------------------------------------------------------------------
Resumes ==
    \/ \E s \in Strand : AbandonGoesOn(s) \/ AbandonEnds(s) \/ RowWritten(s)
    \/ \E g \in Gen : Suspend(g)
    \/ CloseWriter \/ CloseReturns
Calls ==
    \/ \E g \in Gen : \/ StartCalled(g) \/ StepStartCalled(g) \/ StepFinishCalled(g)
                      \/ FinishCalled(g) \/ Fails(g)
    \/ \E t \in Tool : ToolStartCalled(t) \/ ToolFinishCalled(t)
    \/ CloseCalled
Next == Resumes \/ Calls
Spec == Init /\ [][Next]_vars
-----------------------------------------------------------------------------
TypeOK ==
    /\ phase \in [Gen -> {"idle", "open", "step", "done", "failed"}]
    /\ \A g \in Gen : step[g] \in 0..Steps[g]
    /\ tool \in [Tool -> {"idle", "running", "ended"}]
    /\ overlapped \in BOOLEAN /\ suspended \in BOOLEAN /\ closed \in BOOLEAN
    /\ active \in Gen \cup {None}
    /\ \A s \in Strand : h[s] # Idle /\ h[s].op \notin {"closing", "abandoned"} =>
           h[s].run \in Gen /\ h[s].ev \in Event
    /\ \A g \in Gen : \A i \in DOMAIN log[g] : log[g][i].ev \in Event

Quiet == \A s \in Strand : h[s] = Idle
Rows(r, ev, at) == {i \in DOMAIN log[r] : log[r][i].ev = ev /\ log[r][i].at = at}
Started(r, ev) == Rows(r, ev, "start") # {}

\* Somebody is writing the end of this event, or is abandoning its run.
BeingEnded(r, ev) ==
    \E s \in Strand : /\ h[s].run = r
                      /\ \/ h[s].op \in {"tools", "steps", "run"}
                         \/ h[s].op \in {"endStep", "endTool", "endRun"} /\ h[s].ev = ev

\* A step, a tool call or a run is ended a second time only in the window in which its own
\* end is being written or its run is being abandoned, whatever overlaps: once those
\* handlers have returned, late callbacks and a later close() find nothing to end.
EndsOnce ==
    [][\A r \in Gen, ev \in Event :
          Rows(r, ev, "end") # {} /\ Rows(r, ev, "end")' # Rows(r, ev, "end")
          => BeingEnded(r, ev)]_vars

\* One generation at a time: the rows of a run are those of its generation only, even when
\* the tool calls of a failed generation go on during the next one.
OwnRows ==
    ~overlapped => \A g \in Gen : \A i \in DOMAIN log[g] : log[g][i].ev[2] = g

\* One generation at a time: a generation that finished is recorded from run_started to
\* run_completed, each event started and ended once by its own callbacks and inside its
\* parent; unless close() was called, or it came after a failed one and was ignored.
RecordedWhole ==
    ~overlapped /\ ~closed /\ h[Closer] = Idle =>
    \A g \in Gen : phase[g] = "done" /\ h[g] = Idle =>
        \/ /\ log[g] = <<>>
           /\ g > 1 /\ phase[g - 1] = "failed"
        \/ /\ log[g] # <<>>
           /\ log[g][1].ev = RunEvent(g)
           /\ log[g][Len(log[g])].ev = RunEvent(g)
           /\ \A i \in DOMAIN log[g] :
                  LET e == log[g][i] IN
                  /\ e.by = "own"
                  /\ Cardinality(Rows(g, e.ev, "start")) = 1
                  /\ Cardinality(Rows(g, e.ev, "end")) = 1
                  /\ e.under # None => \E j \in 1..i : log[g][j].ev = e.under

\* When no callback is in flight, a run that is no longer active is complete: nothing that
\* was started in it is left without an end.
NothingLeftOpen ==
    ~overlapped /\ Quiet /\ ~closed =>
    \A r \in Gen \ {active} : \A ev \in Event : Started(r, ev) => Rows(r, ev, "end") # {}
============================================================================
