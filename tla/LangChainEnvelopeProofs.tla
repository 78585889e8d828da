---------------------- MODULE LangChainEnvelopeProofs ----------------------
(***************************************************************************)
(* Proofs about LangChainEnvelope, for any runs, nesting and labels, for   *)
(* an application that makes one call after another with the handler and   *)
(* leaves completion to the adapter.  The inductive invariant ties three   *)
(* views of a run: the framework's phase, the adapter's bookkeeping (life, *)
(* stepOf, h) and the lines in the files.  The last two sections are about *)
(* any application, and about one that awaits the adapter's callbacks.     *)
(***************************************************************************)
EXTENDS LangChainEnvelope, FiniteSetTheorems, TLAPS

\* The application uses the handler for one call after another and leaves completion to the
\* adapter; no run reports an agent action, and of the runs whose end the framework may
\* deliver twice none has completion attributes.
OneCallAtATime ==
  /\ ParallelRoots = FALSE /\ MaxFinalizes = 0 /\ Agents = {} /\ LateEnds \cap Llm = {}

---------------------------------------------------------------------------
(* The inductive invariant                                                 *)

Unregistered == {"resolved", "grouping"}
Starting == Unregistered \cup {"creating", "opening", "starting"}
Finalizing == {"degrouping", "ending"}
Ending == Finalizing \cup {"completing", "yielded"}
Whereabouts == {"idle"} \cup Starting \cup Ending

HandlerType ==
  [at : Whereabouts, mode : {"none", "start", "end"}, ok : BOOLEAN, env : 0..MaxEnvelopes,
   gen : Nat, closed : SUBSET (Labels \X Envelopes), io : {"none", "flight", "landed"},
   line : LineType]

LifeType ==
  [active : SUBSET Runs, failed : BOOLEAN, gen : Nat, started : BOOLEAN, finalized : BOOLEAN]

Types ==
  /\ phase \in [Runs -> {"new", "open", "ended", "gone"}]
  /\ runId \in Envelopes
  /\ life \in LifeType
  /\ stepOf \in [Runs -> {"none", "run"}]
  /\ siblings \in [Labels -> 0..2]
  /\ late \in Nat
  /\ h \in [Handlers -> HandlerType]
  /\ trace \in [Envelopes -> Seq(LineType)]
  /\ finalizes = 0

GroupSteps == Labels \X Envelopes

\* What a handler at 'at' waits for: its file operation, and the line it writes.
WaitsFor(hd, e, p) ==
  /\ hd.line.env = e /\ hd.io \in {"flight", "landed"}
  /\ hd.at = "grouping" => hd.line.event = "step_started" /\ hd.line.step \in GroupSteps
  /\ hd.at = "creating" => hd.line.event = "truncate"
  /\ hd.at = "opening" => hd.line.event = "run_started" /\ hd.line.step = None
  /\ hd.at = "starting" => hd.line.event = "step_started" /\ hd.line.step = RunStep(p)
  /\ hd.at = "completing" =>
        hd.line.event = "step_completed" /\ hd.line.step = RunStep(p) /\ hd.line.ok = hd.ok
  /\ hd.at = "degrouping" =>
        hd.line.event = "step_completed" /\ hd.line.step \in GroupSteps /\ hd.line.ok = TRUE
  /\ hd.at = "ending" =>
        hd.line.event = "run_completed" /\ hd.line.step = None /\ hd.line.ok = hd.ok

\* A handler's place tells how far its run is.
Shape(p) ==
  /\ h[p].at # "idle" => p \in Runs
  /\ h[p].at \in {"idle", "resolved", "yielded"} => h[p].io = "none"
  /\ h[p].at \notin {"idle", "resolved", "yielded"} => WaitsFor(h[p], runId, p)
  /\ h[p].at \in Starting => phase[p] = "open" /\ h[p].mode = "start"
  /\ h[p].at \in Ending => phase[p] \in {"ended", "gone"} /\ stepOf[p] = "run"

Shapes == \A p \in Handlers : Shape(p)

\* The adapter's bookkeeping of a run against the framework's view of it.
Bookkeeping ==
  /\ \A r \in Runs : r \in life.active <=>
        \/ phase[r] = "open" /\ h[r].at \notin Unregistered
        \/ phase[r] = "ended" /\ h[r].at = "completing"
  /\ \A r \in Runs : phase[r] = "open" =>
        (stepOf[r] = "run" <=> h[r].at \in {"idle", "starting"})
  /\ \A r \in Runs : phase[r] = "new" => stepOf[r] = "none"

\* A run is nested in one that is open and at rest; the first of an envelope is alone.
Nesting ==
  /\ \A r \in Runs : phase[r] = "open" /\ Parent[r] # None =>
        phase[Parent[r]] = "open" /\ h[Parent[r]].at = "idle"
  /\ \A r \in Runs : phase[r] = "open" /\ Parent[r] = None /\ h[r].at # "idle" =>
        \A q \in Runs : phase[q] = "open" => q = r
  /\ \A r \in Runs : h[r].at \in {"creating", "opening"} =>
        \A q \in Runs : stepOf[q] = "none" /\ (q # r => h[q].at = "idle" /\ phase[q] # "open")

\* Before an envelope's first registration there is at most the root that will be.
Fresh ==
  /\ ~life.started =>
        /\ ~life.finalized /\ ~life.failed /\ trace[runId] = <<>>
        /\ \A r \in Runs : stepOf[r] = "none" /\ h[r].at \in {"idle", "resolved"}
        /\ \A r \in Runs : phase[r] = "open" => Parent[r] = None /\ h[r].at = "resolved"
        /\ (\A r \in Runs : phase[r] # "open") => \A l \in Labels : siblings[l] = 0
  /\ \A r \in Runs : h[r].at \in Unregistered /\ Parent[r] = None => ~life.started

\* Files behind the current one are left alone, those ahead empty; the current one is opened by
\* the first start.
Files ==
  /\ \A e \in Envelopes : e > runId => trace[e] = <<>>
  /\ \A e \in Envelopes : trace[e] # <<>> => trace[e][1].event = "run_started"
  /\ \A r \in Runs :
       h[r].at = "creating" \/ (h[r].at = "opening" /\ h[r].io = "flight") => trace[runId] = <<>>
  /\ trace[runId] = <<>> /\ life.started =>
       \E r \in Runs : h[r].at = "creating" \/ (h[r].at = "opening" /\ h[r].io = "flight")

HasLine(e, event, step) == \E i \in Places(e, event) : trace[e][i].step = step

\* A start that has been written is recorded.
Recorded ==
  \A r \in Runs :
    phase[r] # "new" /\ (h[r].at \in Starting => h[r].at = "starting" /\ h[r].io = "landed") =>
      \E e \in Envelopes : HasLine(e, "step_started", RunStep(r))

\* Once nothing is active somebody is about to complete the envelope, is completing it or has.
Completion ==
  /\ \A r \in Runs : h[r].at \in Finalizing => life.finalized
  /\ life.finalized => life.active = {} /\ \A r \in Runs : phase[r] # "open"
  /\ life.started /\ life.active = {} /\ ~life.finalized =>
       \E r \in Runs : h[r].at = "yielded" /\ h[r].gen = life.gen
  /\ life.finalized =>
       \/ Places(runId, "run_completed") # {}
       \/ \E r \in Runs : h[r].at = "degrouping" \/ (h[r].at = "ending" /\ h[r].io = "flight")
  /\ Places(runId, "run_completed") # {} => life.finalized
  /\ \A e \in Envelopes : \A i \in Places(e, "run_completed"), j \in Places(e, "step_started") :
       j < i

\* One handler completes the envelope, once.
Once ==
  /\ \A p, q \in Runs : h[p].at \in Finalizing /\ h[q].at \in Finalizing => p = q
  /\ \A p \in Runs : h[p].at \in Finalizing /\ ~(h[p].at = "ending" /\ h[p].io = "landed") =>
       Places(runId, "run_completed") = {}
  /\ \A e \in Envelopes : \A i \in Places(e, "run_started") : i = 1
  /\ \A e \in Envelopes : \A i, j \in Places(e, "run_completed") : i = j

Failed(e, j) == j \in Places(e, "step_completed") /\ trace[e][j].ok = FALSE
FirstFailed(e, j) == Failed(e, j) /\ FirstEnd(e, j)

\* A first end that failed is noted, or its handler is about to.
Status ==
  /\ \A j \in DOMAIN trace[runId] : FirstFailed(runId, j) =>
       \/ life.failed
       \/ \E r \in life.active : h[r].at = "completing" /\ h[r].ok = FALSE
  /\ \A r \in Runs : stepOf[r] = "run" /\ r \notin life.active =>
       HasLine(runId, "step_completed", RunStep(r))
  /\ \A r \in Runs : h[r].at = "completing" /\ h[r].io = "landed" =>
       \E j \in Places(runId, "step_completed") :
          trace[runId][j].step = RunStep(r) /\ trace[runId][j].ok = h[r].ok
  /\ life.failed => \E j \in DOMAIN trace[runId] : Failed(runId, j)
  /\ \A p \in Runs : h[p].at \in Finalizing =>
       IF h[p].ok THEN \A j \in DOMAIN trace[runId] : ~FirstFailed(runId, j)
                  ELSE \E j \in DOMAIN trace[runId] : Failed(runId, j)
  /\ StatusObserved

IsStep(line, r) == line.step # None /\ line.step = RunStep(r)

\* The current envelope belongs to the call of root c, the others to other calls.
Belongs(c) ==
  /\ c \in Runs => phase[c] # "new"
  /\ \A r \in Runs : phase[r] = "open" \/ h[r].at # "idle" \/ stepOf[r] = "run" => RootOf[r] = c
  /\ \A i \in DOMAIN trace[runId] : \A r \in Runs : IsStep(trace[runId][i], r) => RootOf[r] = c
  /\ \A e \in Envelopes \ {runId} : \A i \in DOMAIN trace[e] : \A r \in Runs :
       IsStep(trace[e][i], r) => RootOf[r] # c /\ phase[RootOf[r]] # "new"

Owned == \E c \in Runs \cup {None} : Belongs(c)

\* CallsNotMixed, of the runs whose steps the lines are.
Apart ==
  \A e, f \in Envelopes : \A i \in DOMAIN trace[e], j \in DOMAIN trace[f] : \A q, r \in Runs :
    IsStep(trace[e][i], q) /\ IsStep(trace[f][j], r) => (e = f <=> RootOf[q] = RootOf[r])

IInv ==
  /\ Types /\ Shapes /\ Bookkeeping /\ Nesting /\ Fresh /\ Files
  /\ Recorded /\ Completion /\ Once /\ Status /\ Owned /\ Apart
---------------------------------------------------------------------------
(* What the steps do, action by action, as far as the invariant is concerned *)

Others(r) == \A q \in Handlers : q # r => h'[q] = h[q]

\* The handler of r, and no other, moves, within the file it has.
Moves(r) ==
  /\ Others(r) /\ h' \in [Handlers -> HandlerType]
  /\ runId' = runId

\* It waits for a new line.
Sends(r) == WaitsFor(h'[r], runId, r) /\ h'[r].io = "flight" /\ trace' = trace

Starts(r) ==
  /\ phase[r] = "new" /\ phase' = [phase EXCEPT ![r] = "open"] /\ trace' = trace
  /\ Others(r) /\ h' \in [Handlers -> HandlerType] /\ h'[r].mode = "start"

StartsChild(r) ==
  /\ Starts(r) /\ UNCHANGED <<runId, life, stepOf>>
  /\ Parent[r] \in Runs /\ phase[Parent[r]] = "open" /\ h[Parent[r]].at = "idle"
  /\ life.started /\ ~life.finalized
  /\ \/ h'[r].at = "resolved" /\ h'[r].io = "none"
     \/ h'[r].at = "grouping" /\ WaitsFor(h'[r], runId, r)

StartsCall(r) ==
  /\ Starts(r) /\ Parent[r] = None /\ Quiet
  /\ h'[r].at = "resolved" /\ h'[r].io = "none"

StartsFirst(r) == StartsCall(r) /\ ~life.started /\ UNCHANGED <<runId, life, stepOf>>

StartsNext(r) ==
  /\ StartsCall(r) /\ life.finalized
  /\ runId' = runId + 1 /\ runId' \in Envelopes
  /\ life' \in LifeType /\ life'.active = {}
  /\ ~life'.failed /\ ~life'.started /\ ~life'.finalized
  /\ stepOf' = [q \in Runs |-> "none"]

EndsStep(r) ==
  /\ h[r].at = "idle" /\ stepOf[r] = "run"
  /\ Moves(r) /\ Sends(r) /\ h'[r].at = "completing" /\ UNCHANGED <<life, stepOf>>

EndsFirst(r) ==
  /\ EndsStep(r)
  /\ phase[r] = "open" /\ phase' = [phase EXCEPT ![r] = "ended"]
  /\ \A c \in Runs : Parent[c] = r => phase[c] \in {"ended", "gone"}

EndsAgain(r) ==
  /\ EndsStep(r)
  /\ phase[r] = "ended" /\ phase' = [phase EXCEPT ![r] = "gone"]

EndsLate(r) ==
  /\ h[r].at = "idle" /\ stepOf[r] = "none" /\ h' = h /\ UNCHANGED <<runId, life, stepOf, siblings, trace>>
  /\ phase[r] = "ended" /\ phase' = [phase EXCEPT ![r] = "gone"]

Lands(r) ==
  /\ h[r].io = "flight" /\ h'[r].io = "landed" /\ WaitsFor(h'[r], runId, r)
  /\ h'[r].at = h[r].at /\ h'[r].line = h[r].line /\ h'[r].ok = h[r].ok
  /\ h'[r].mode = h[r].mode /\ h'[r].gen = h[r].gen
  /\ Moves(r) /\ UNCHANGED <<phase, life, stepOf>>

LandsFile(r) == Lands(r) /\ h[r].at = "creating" /\ trace' = trace

LandsLine(r) ==
  /\ Lands(r) /\ h[r].at # "creating" /\ WaitsFor(h[r], runId, r)
  /\ trace' = [trace EXCEPT ![runId] = Append(@, h[r].line)]

Registers(r) ==
  /\ h[r].at \in Unregistered /\ h'[r].mode = h[r].mode
  /\ Moves(r) /\ Sends(r) /\ UNCHANGED phase
  /\ life' \in LifeType /\ life'.active = life.active \cup {r} /\ life'.started
  /\ (life'.failed <=> life.failed) /\ (life'.finalized <=> life.finalized)

RegistersLater(r) ==
  /\ Registers(r) /\ life.started /\ h'[r].at = "starting"
  /\ stepOf' = [stepOf EXCEPT ![r] = "run"]

RegistersFirst(r) ==
  Registers(r) /\ ~life.started /\ h'[r].at = "creating" /\ stepOf' = stepOf

CreatesFile(r) ==
  /\ h[r].at = "creating" /\ h'[r].at = "opening" /\ h'[r].mode = h[r].mode
  /\ Moves(r) /\ Sends(r) /\ UNCHANGED <<phase, life, stepOf>>

OpensRun(r) ==
  /\ h[r].at = "opening" /\ h'[r].at = "starting" /\ h'[r].mode = h[r].mode
  /\ h[r].io = "landed"
  /\ Moves(r) /\ Sends(r) /\ UNCHANGED <<phase, life>>
  /\ stepOf' = [stepOf EXCEPT ![r] = "run"]

\* The handler of r returns.
Rests(r) == Moves(r) /\ h'[r].at = "idle" /\ h'[r].io = "none" /\ UNCHANGED <<phase, stepOf, trace>>

RecordsStart(r) == h[r].at = "starting" /\ h[r].io = "landed" /\ Rests(r) /\ life' = life

RecordsEnd(r) ==
  /\ h[r].at = "completing" /\ h[r].io = "landed"
  /\ Moves(r) /\ UNCHANGED <<phase, stepOf, trace>> /\ h'[r].io = "none"
  /\ life' \in LifeType /\ life'.active = life.active \ {r}
  /\ (life'.started <=> life.started) /\ (life'.finalized <=> life.finalized)
  /\ life'.failed <=> (life.failed \/ h[r].ok = FALSE)
  /\ \/ h'[r].at = "yielded" /\ h'[r].gen = life'.gen
     \/ h'[r].at = "idle" /\ ~canScheduleFinalize(life')

GivesUp(r) ==
  /\ h[r].at = "yielded" /\ Rests(r) /\ life' = life
  /\ ~(life.gen = h[r].gen /\ canScheduleFinalize(life))

\* The handler of r goes on completing the envelope.
Completes(r) ==
  /\ Moves(r) /\ Sends(r) /\ h'[r].at \in Finalizing /\ UNCHANGED <<phase, stepOf>>

ClosesEnvelope(r) ==
  /\ h[r].at = "yielded" /\ canScheduleFinalize(life) /\ Completes(r)
  /\ life' \in LifeType /\ life'.active = life.active /\ life'.finalized
  /\ (life'.started <=> life.started) /\ (life'.failed <=> life.failed)
  /\ h'[r].ok <=> ~life.failed

ClosesGroup(r) ==
  /\ h[r].at = "degrouping" /\ h[r].io = "landed" /\ Completes(r)
  /\ h'[r].ok = h[r].ok /\ life' = life

ClosesRun(r) == h[r].at = "ending" /\ h[r].io = "landed" /\ Rests(r) /\ life' = life

Stays == UNCHANGED <<phase, runId, life, stepOf, h, trace>>

Calls(r) ==
  \/ StartsChild(r) \/ StartsFirst(r) \/ StartsNext(r)
  \/ EndsFirst(r) \/ EndsAgain(r) \/ EndsLate(r)
Begins(r) ==
  \/ LandsFile(r) \/ LandsLine(r) \/ RegistersLater(r) \/ RegistersFirst(r)
  \/ CreatesFile(r) \/ OpensRun(r) \/ RecordsStart(r)
Finishes(r) ==
  \/ RecordsEnd(r) \/ GivesUp(r) \/ ClosesEnvelope(r) \/ ClosesGroup(r) \/ ClosesRun(r)
Step(r) == Calls(r) \/ Begins(r) \/ Finishes(r)

---------------------------------------------------------------------------
(* The handlers' records *)

\* A line has the fields it was built from.
LEMMA LineIs ==
  ASSUME NEW e \in 0..MaxEnvelopes, NEW event \in Events, NEW step \in Steps, NEW ok \in BOOLEAN
  PROVE  /\ Line(e, event, step, ok) \in LineType
         /\ Line(e, event, step, ok).env = e /\ Line(e, event, step, ok).event = event
         /\ Line(e, event, step, ok).step = step /\ Line(e, event, step, ok).ok = ok
BY DEF Line, LineType

\* The steps of different runs differ, and a group's step is no run's.
LEMMA StepsAre ==
  /\ None \in Steps /\ GroupSteps \subseteq Steps
  /\ \A r \in Runs : RunStep(r) \in Steps /\ RunStep(r) \notin GroupSteps
  /\ \A q, r \in Runs : RunStep(q) = RunStep(r) => q = r
<1>1. \A r \in Runs : RunStep(r) \notin GroupSteps
  BY LangChainAssumption DEF RunStep, GroupSteps
<1> QED BY <1>1 DEF Steps, GroupSteps, RunStep

\* A handler that is not in flight waits for nothing.
LEMMA IdleIs ==
  Idle \in HandlerType /\ Idle.at = "idle" /\ Idle.io = "none" /\ Idle.ok = TRUE
<1>1. MaxEnvelopes \in Nat
  BY LangChainAssumption
<1>2. 0 \in 0..MaxEnvelopes /\ "none" \in Events /\ None \in Steps /\ TRUE \in BOOLEAN
  BY <1>1, StepsAre DEF Events
<1>3. NoLine \in LineType
  BY <1>2, LineIs DEF NoLine
<1> QED BY <1>1, <1>3 DEF Idle, HandlerType, Whereabouts

\* #write: a handler that writes waits for its line and keeps the rest.
LEMMA WritingIs ==
  ASSUME NEW hd \in HandlerType, NEW at \in Whereabouts, NEW line \in LineType
  PROVE  /\ Writing(hd, at, line) \in HandlerType
         /\ Writing(hd, at, line).at = at /\ Writing(hd, at, line).io = "flight"
         /\ Writing(hd, at, line).line = line /\ Writing(hd, at, line).ok = hd.ok
         /\ Writing(hd, at, line).mode = hd.mode /\ Writing(hd, at, line).gen = hd.gen
BY DEF Writing, HandlerType

\* A handler that yields to a microtask waits for no file.
LEMMA YieldingIs ==
  ASSUME NEW hd \in HandlerType, NEW at \in Whereabouts
  PROVE  /\ Yielding(hd, at) \in HandlerType
         /\ Yielding(hd, at).at = at /\ Yielding(hd, at).io = "none"
         /\ Yielding(hd, at).ok = hd.ok
         /\ Yielding(hd, at).mode = hd.mode /\ Yielding(hd, at).gen = hd.gen
<1>1. NoLine \in LineType
  BY IdleIs DEF Idle, HandlerType
<1> QED BY <1>1 DEF Yielding, HandlerType

\* A file operation that lands changes nothing else of the handler that waits for it.
LEMMA LandedIs ==
  ASSUME NEW hd \in HandlerType
  PROVE  LET l == [hd EXCEPT !.io = "landed"] IN
         /\ l \in HandlerType /\ l.io = "landed" /\ l.at = hd.at /\ l.line = hd.line
         /\ l.ok = hd.ok /\ l.mode = hd.mode /\ l.gen = hd.gen
BY DEF HandlerType

\* A step of one handler leaves the others alone.
LEMMA HandlerMoves ==
  ASSUME Types, NEW p \in Handlers, NEW x \in HandlerType, h' = [h EXCEPT ![p] = x]
  PROVE  h'[p] = x /\ Others(p) /\ h' \in [Handlers -> HandlerType]
BY DEF Types, Others

\* The fields of a handler have their types.
LEMMA FieldsAre ==
  ASSUME NEW hd \in HandlerType
  PROVE  /\ hd.at \in Whereabouts /\ hd.mode \in {"none", "start", "end"} /\ hd.ok \in BOOLEAN
         /\ hd.io \in {"none", "flight", "landed"} /\ hd.line \in LineType /\ hd.gen \in Nat
         /\ hd.line.ok \in BOOLEAN /\ hd.line.step \in Steps
BY DEF HandlerType, LineType

\* #ensureRunCompleted writes the end of a group or, after those, run_completed.
LEMMA ClosingIs ==
  ASSUME Types, NEW hd \in HandlerType, NEW c \in Closing(hd), NEW p
  PROVE  /\ c \in HandlerType /\ c.ok = hd.ok /\ c.io = "flight"
         /\ c.at \in Finalizing /\ WaitsFor(c, runId, p)
<1>1. runId \in 0..MaxEnvelopes /\ Groups \subseteq GroupSteps
  BY DEF Types, Envelopes, Groups, GroupSteps
<1>2. hd.ok \in BOOLEAN
  BY FieldsAre
<1>3. CASE Groups \subseteq hd.closed
  <2> DEFINE l == Line(runId, "run_completed", None, hd.ok)
  <2>1. l \in LineType /\ l.env = runId /\ l.event = "run_completed" /\ l.step = None /\ l.ok = hd.ok
    BY <1>1, <1>2, LineIs, StepsAre DEF Events
  <2>2. c = Writing(hd, "ending", l)
    BY <1>3 DEF Closing
  <2> HIDE DEF l
  <2>3. "ending" \in Whereabouts
    BY DEF Whereabouts, Ending, Finalizing
  <2>4. c \in HandlerType /\ c.at = "ending" /\ c.io = "flight" /\ c.line = l /\ c.ok = hd.ok
    BY <2>1, <2>2, <2>3, WritingIs
  <2> QED BY <2>1, <2>4 DEF WaitsFor, Finalizing
<1>4. CASE ~(Groups \subseteq hd.closed)
  <2>1. PICK g \in Groups :
           c = Writing([hd EXCEPT !.closed = @ \cup {g}], "degrouping",
                 Line(runId, "step_completed", g, TRUE))
    BY <1>4 DEF Closing
  <2> DEFINE l == Line(runId, "step_completed", g, TRUE)
             d == [hd EXCEPT !.closed = @ \cup {g}]
  <2>2. /\ l \in LineType /\ l.env = runId /\ l.event = "step_completed" /\ l.step = g
        /\ l.ok = TRUE /\ g \in GroupSteps
    <3>1. g \in GroupSteps /\ g \in Steps /\ "step_completed" \in Events /\ TRUE \in BOOLEAN
      BY <1>1, <2>1, StepsAre DEF Events
    <3> QED BY <1>1, <3>1, LineIs
  <2>3. d \in HandlerType /\ d.ok = hd.ok
    BY <1>1, <2>1 DEF HandlerType, GroupSteps
  <2>4. c = Writing(d, "degrouping", l)
    BY <2>1
  <2> HIDE DEF l, d
  <2>5. "degrouping" \in Whereabouts
    BY DEF Whereabouts, Ending, Finalizing
  <2>6. c \in HandlerType /\ c.at = "degrouping" /\ c.io = "flight" /\ c.line = l /\ c.ok = hd.ok
    BY <2>2, <2>3, <2>4, <2>5, WritingIs
  <2> QED BY <2>2, <2>6 DEF WaitsFor, Finalizing
<1> QED BY <1>3, <1>4

\* Every run is nested in one outermost run.
LEMMA RootIs == RootOf \in [Runs -> Runs] /\ IsRoot(RootOf)
BY LangChainAssumption DEF RootOf

---------------------------------------------------------------------------
(* The lifecycle's records *)

\* resetInvocationState forgets all but the generation.
LEMMA ResetIs ==
  ASSUME NEW l \in LifeType
  PROVE  LET n == resetInvocationState(l) IN
         /\ n \in LifeType /\ n.active = {} /\ ~n.failed /\ ~n.started /\ ~n.finalized
<1>1. l.gen + 1 \in Nat
  BY DEF LifeType
<1>2. createInvocationState \in LifeType
  BY DEF createInvocationState, LifeType
<1> QED BY <1>1, <1>2 DEF LifeType, resetInvocationState, createInvocationState

\* beginCallbackRun makes the run active.
LEMMA BegunIs ==
  ASSUME NEW l \in LifeType, NEW r \in Runs
  PROVE  LET n == beginCallbackRun(l, r) IN
         /\ n \in LifeType /\ n.active = l.active \cup {r} /\ (n.started <=> l.started)
         /\ (n.failed <=> l.failed) /\ (n.finalized <=> l.finalized)
<1> DEFINE n == beginCallbackRun(l, r)
<1>1. l.gen + 1 \in Nat /\ l.active \cup {r} \in SUBSET Runs
  BY DEF LifeType
<1>2. n \in LifeType
  BY <1>1 DEF LifeType, beginCallbackRun
<1>3. n.active = l.active \cup {r}
  BY <1>1 DEF LifeType, beginCallbackRun
<1>4. (n.started <=> l.started) /\ (n.failed <=> l.failed) /\ (n.finalized <=> l.finalized)
  BY <1>1 DEF LifeType, beginCallbackRun
<1> QED BY <1>2, <1>3, <1>4

\* markEnvelopeStarted and markFinalized set their flag only.
LEMMA MarkedIs ==
  ASSUME NEW l \in LifeType
  PROVE  /\ LET n == markEnvelopeStarted(l) IN
            /\ n \in LifeType /\ n.active = l.active /\ n.started
            /\ (n.failed <=> l.failed) /\ (n.finalized <=> l.finalized)
         /\ LET n == markFinalized(l) IN
            /\ n \in LifeType /\ n.active = l.active /\ n.finalized
            /\ (n.failed <=> l.failed) /\ (n.started <=> l.started)
BY DEF markEnvelopeStarted, markFinalized, LifeType

\* The end of a run takes it from the active ones and notes its failure.
LEMMA EndedIs ==
  ASSUME NEW l \in LifeType, NEW r \in Runs, NEW ok \in BOOLEAN
  PROVE  LET n == endCallbackRun(noteTerminalError(l, ok), r) IN
         /\ n \in LifeType /\ n.active = l.active \ {r} /\ (n.started <=> l.started)
         /\ n.failed <=> (l.failed \/ ok = FALSE)
         /\ (n.finalized <=> l.finalized)
<1> DEFINE m == noteTerminalError(l, ok)
<1>1. /\ m \in LifeType /\ m.active = l.active /\ (m.started <=> l.started)
      /\ m.failed <=> (l.failed \/ ok = FALSE)
      /\ (m.finalized <=> l.finalized)
  BY DEF noteTerminalError, LifeType
<1> HIDE DEF m
<1>2. LET n == endCallbackRun(m, r) IN
      /\ n \in LifeType /\ n.active = m.active \ {r} /\ (n.started <=> m.started)
      /\ (n.failed <=> m.failed) /\ (n.finalized <=> m.finalized)
  <2> DEFINE n == endCallbackRun(m, r)
  <2>1. m.gen + 1 \in Nat /\ m.active \ {r} \in SUBSET Runs
    BY <1>1 DEF LifeType
  <2>2. CASE r \in m.active
    <3>1. n = [m EXCEPT !.gen = m.gen + 1, !.active = m.active \ {r}]
      BY <2>2 DEF endCallbackRun
    <3>2. n \in LifeType
      BY <1>1, <2>1, <3>1 DEF LifeType
    <3>3. n.active = m.active \ {r}
      BY <1>1, <2>1, <3>1 DEF LifeType
    <3>4. (n.started <=> m.started) /\ (n.failed <=> m.failed) /\ (n.finalized <=> m.finalized)
      BY <1>1, <2>1, <3>1 DEF LifeType
    <3> QED BY <3>2, <3>3, <3>4
  <2>3. CASE r \notin m.active
    <3>1. n = m /\ m.active \ {r} = m.active
      BY <2>3 DEF endCallbackRun
    <3> QED BY <1>1, <3>1
  <2> QED BY <2>2, <2>3
<1> QED BY <1>1, <1>2 DEF m
---------------------------------------------------------------------------
(* Every step is of one of these kinds *)

\* A run that the framework has not started has no handler.
LEMMA PhaseNewIsIdle ==
  ASSUME Types, Shapes, NEW r \in Runs, phase[r] = "new"
  PROVE  h[r].at = "idle" /\ h[r].io = "none"
<1>1. r \in Handlers /\ h[r].at \in Whereabouts
  BY FieldsAre DEF Handlers, Types
<1> QED BY <1>1 DEF Shapes, Shape, Whereabouts

\* A call that finds the handler at rest after an earlier one finds that one completed.
LEMMA QuietStarts ==
  ASSUME IInv, Quiet, life.started
  PROVE  life.finalized
<1>1. \A q \in Runs : h[q].at = "idle" /\ phase[q] # "open"
  BY DEF Quiet, Returned, Open, Handlers
<1>2. life.active = {}
  <2>1. life.active \subseteq Runs
    BY DEF IInv, Types, LifeType
  <2> QED BY <1>1, <2>1 DEF IInv, Bookkeeping
<1> QED BY <1>1, <1>2 DEF IInv, Completion

\* #maybeAttachSyntheticGroup leaves the handler in a microtask or writing a group's start.
LEMMA AttachIs ==
  ASSUME Types, NEW r \in Runs, NEW s \in [Labels -> 0..2], NEW e \in Envelopes, Attach(r, "start", TRUE, s, e)
  PROVE  /\ Others(r) /\ h' \in [Handlers -> HandlerType]
         /\ siblings' \in [Labels -> 0..2]
         /\ h'[r].mode = "start"
         /\ \/ h'[r].at = "resolved" /\ h'[r].io = "none"
            \/ OpensGroup(s, r) /\ h'[r].at = "grouping" /\ WaitsFor(h'[r], e, r)
<1> DEFINE hd == [Idle EXCEPT !.mode = "start", !.ok = TRUE]
           l == Line(e, "step_started", <<Label[r], e>>, TRUE)
<1>1. hd \in HandlerType /\ hd.mode = "start"
  BY IdleIs DEF HandlerType
<1>2. siblings' \in [Labels -> 0..2]
  BY DEF Attach, CountSibling
<1>3. r \in Handlers
  BY DEF Handlers
<1>4. CASE OpensGroup(s, r)
  <2>1. <<Label[r], e>> \in GroupSteps /\ <<Label[r], e>> \in Steps
    BY <1>4, LangChainAssumption, StepsAre DEF OpensGroup, GroupSteps
  <2>2. e \in 0..MaxEnvelopes /\ "step_started" \in Events /\ TRUE \in BOOLEAN
    BY DEF Envelopes, Events
  <2>3. /\ l \in LineType /\ l.env = e /\ l.event = "step_started"
        /\ l.step = <<Label[r], e>>
    BY <2>1, <2>2, LineIs
  <2>4. h' = [h EXCEPT ![r] = Writing(hd, "grouping", l)]
    BY <1>4 DEF Attach
  <2>5. "grouping" \in Whereabouts
    BY DEF Whereabouts, Starting, Unregistered
  <2> HIDE DEF l, hd
  <2>6. LET x == Writing(hd, "grouping", l) IN
        /\ x \in HandlerType /\ x.at = "grouping" /\ x.io = "flight" /\ x.line = l /\ x.mode = "start"
    BY <1>1, <2>3, <2>5, WritingIs
  <2>7. /\ h'[r].at = "grouping" /\ h'[r].io = "flight" /\ h'[r].line = l /\ h'[r].mode = "start"
        /\ Others(r) /\ h' \in [Handlers -> HandlerType]
    BY <1>3, <2>4, <2>6, HandlerMoves
  <2>8. WaitsFor(h'[r], e, r)
    BY <2>1, <2>3, <2>7 DEF WaitsFor
  <2> QED BY <1>2, <1>4, <2>7, <2>8
<1>5. CASE ~OpensGroup(s, r)
  <2>4. h' = [h EXCEPT ![r] = Yielding(hd, "resolved")]
    BY <1>5 DEF Attach
  <2>5. "resolved" \in Whereabouts
    BY DEF Whereabouts, Starting, Unregistered
  <2> HIDE DEF l, hd
  <2>6. LET x == Yielding(hd, "resolved") IN
        /\ x \in HandlerType /\ x.at = "resolved" /\ x.io = "none" /\ x.mode = "start"
    BY <1>1, <2>5, YieldingIs
  <2>7. /\ h'[r].at = "resolved" /\ h'[r].io = "none" /\ h'[r].mode = "start"
        /\ Others(r) /\ h' \in [Handlers -> HandlerType]
    BY <1>3, <2>4, <2>6, HandlerMoves
  <2> QED BY <1>2, <2>7
<1> QED BY <1>4, <1>5

\* A start is that of a nested run, of the first call or of a later one, which rotates.
LEMMA StartKind ==
  ASSUME OneCallAtATime, IInv, NEW r \in Runs, StartCalled(r)
  PROVE  /\ StartsChild(r) \/ StartsFirst(r) \/ StartsNext(r)
         /\ siblings' \in [Labels -> 0..2] /\ late' \in Nat /\ finalizes' = finalizes
<1> USE DEF IInv
<1>1. /\ phase[r] = "new" /\ phase' = [phase EXCEPT ![r] = "open"]
      /\ trace' = trace /\ finalizes' = finalizes
      /\ Prepare(r, "start", TRUE)
  BY DEF StartCalled
<1>2. \/ Parent[r] = None /\ Quiet
      \/ /\ Parent[r] \in Runs /\ phase[Parent[r]] = "open" /\ h[Parent[r]].at = "idle"
  BY LangChainAssumption DEF StartCalled, OneCallAtATime, Open, Types
<1>3. runId \in Envelopes /\ siblings \in [Labels -> 0..2] /\ late \in Nat
  BY DEF Types
<1>4. CASE Rotates(life)
  <2>1. /\ runId + 1 \in Envelopes /\ runId' = runId + 1 /\ life' = resetInvocationState(life)
        /\ stepOf' = [q \in Runs |-> "none"] /\ late' = 0
        /\ Attach(r, "start", TRUE, [l \in Labels |-> 0], runId + 1)
    BY <1>1, <1>4 DEF Prepare, NextRunId
  <2>2. life.finalized
    BY <1>4 DEF Rotates
  <2>3. Parent[r] = None /\ Quiet
    BY <1>2, <2>2 DEF Completion
  <2>4. /\ life' \in LifeType /\ life'.active = {}
        /\ ~life'.failed /\ ~life'.started /\ ~life'.finalized
    BY <2>1, ResetIs DEF Types
  <2>5. [l \in Labels |-> 0] \in [Labels -> 0..2]
    OBVIOUS
  <2>6. ~OpensGroup([l \in Labels |-> 0], r)
    BY LangChainAssumption DEF OpensGroup
  <2>7. /\ Others(r) /\ h' \in [Handlers -> HandlerType] /\ siblings' \in [Labels -> 0..2]
        /\ h'[r].mode = "start" /\ h'[r].at = "resolved" /\ h'[r].io = "none"
    BY <2>1, <2>5, <2>6, AttachIs
  <2>8. StartsNext(r)
    BY <1>1, <2>1, <2>2, <2>3, <2>4, <2>7 DEF StartsNext, StartsCall, Starts
  <2> QED BY <1>1, <2>1, <2>7, <2>8
<1>5. CASE ~Rotates(life)
  <2>1. /\ UNCHANGED <<runId, life, stepOf, late>>
        /\ Attach(r, "start", TRUE, siblings, runId)
    BY <1>1, <1>5 DEF Prepare
  <2>2. ~life.finalized
    BY <1>5 DEF Rotates
  <2>3. /\ Others(r) /\ h' \in [Handlers -> HandlerType] /\ siblings' \in [Labels -> 0..2]
        /\ h'[r].mode = "start"
        /\ \/ h'[r].at = "resolved" /\ h'[r].io = "none"
           \/ OpensGroup(siblings, r) /\ h'[r].at = "grouping" /\ WaitsFor(h'[r], runId, r)
    BY <1>3, <2>1, AttachIs
  <2>4. CASE Parent[r] = None /\ Quiet
    <3>1. ~life.started
      BY <2>2, <2>4, QuietStarts
    <3>2. \A q \in Runs : phase[q] # "open"
      BY <2>4 DEF Quiet, Open
    <3>3. ~OpensGroup(siblings, r)
      BY <3>1, <3>2, LangChainAssumption DEF Fresh, OpensGroup
    <3>4. StartsFirst(r)
      BY <1>1, <2>1, <2>3, <2>4, <3>1, <3>3 DEF StartsFirst, StartsCall, Starts
    <3> QED BY <1>1, <1>3, <2>1, <2>3, <3>4
  <2>5. CASE Parent[r] \in Runs /\ phase[Parent[r]] = "open" /\ h[Parent[r]].at = "idle"
    <3>1. life.started
      BY <2>5 DEF Fresh
    <3>2. StartsChild(r)
      BY <1>1, <2>1, <2>2, <2>3, <2>5, <3>1 DEF StartsChild, Starts
    <3> QED BY <1>1, <1>3, <2>1, <2>3, <3>2
  <2> QED BY <1>2, <2>4, <2>5
<1> QED BY <1>4, <1>5

\* A handler that writes moves alone and waits for its line.
LEMMA SendsLine ==
  ASSUME Types, NEW r \in Runs, NEW hd \in HandlerType, NEW at \in Whereabouts,
         NEW line \in LineType, h' = [h EXCEPT ![r] = Writing(hd, at, line)], runId' = runId
  PROVE  /\ Moves(r) /\ h'[r].at = at /\ h'[r].io = "flight" /\ h'[r].line = line
         /\ h'[r].ok = hd.ok /\ h'[r].mode = hd.mode
<1>1. r \in Handlers
  BY DEF Handlers
<1>2. LET x == Writing(hd, at, line) IN
      /\ x \in HandlerType /\ x.at = at /\ x.io = "flight" /\ x.line = line
      /\ x.ok = hd.ok /\ x.mode = hd.mode
  BY <1>1, WritingIs
<1>3. h'[r] = Writing(hd, at, line) /\ Others(r) /\ h' \in [Handlers -> HandlerType]
  BY <1>1, <1>2, HandlerMoves
<1> QED BY <1>2, <1>3 DEF Moves

\* A handler that returns moves alone.
LEMMA RestsIs ==
  ASSUME Types, NEW r \in Runs, h' = [h EXCEPT ![r] = Idle], UNCHANGED <<runId, phase, stepOf, trace>>
  PROVE  Rests(r)
<1>1. r \in Handlers
  BY DEF Handlers
<1>2. h'[r] = Idle /\ Others(r) /\ h' \in [Handlers -> HandlerType]
  BY <1>1, IdleIs, HandlerMoves
<1> QED BY <1>2, IdleIs DEF Rests, Moves

\* onStepEnd writes the end of a recorded step; of another it counts a late event or does nothing.
LEMMA StepEndKind ==
  ASSUME Types, NEW r \in Runs, NEW ok \in BOOLEAN, h[r].at = "idle", StepEnd(r, ok),
         runId' = runId, UNCHANGED <<life, stepOf, trace>>,
         stepOf[r] = "none" => r \notin Llm
  PROVE  /\ siblings' = siblings /\ late' \in Nat
         /\ IF stepOf[r] = "none" THEN h' = h ELSE EndsStep(r)
<1>1. stepOf[r] \in {"none", "run"} /\ late \in Nat
  BY DEF Types
<1>2. CASE stepOf[r] = "none"
  BY <1>1, <1>2 DEF StepEnd
<1>3. CASE stepOf[r] = "run"
  <2> DEFINE l == Line(runId, "step_completed", <<stepOf[r], r>>, ok)
             hd == [Idle EXCEPT !.mode = "end", !.ok = ok]
  <2>1. h' = [h EXCEPT ![r] = Writing(hd, "completing", l)] /\ siblings' = siblings /\ late' = late
    BY <1>3 DEF StepEnd
  <2>2. hd \in HandlerType /\ hd.ok = ok
    BY IdleIs DEF HandlerType
  <2>3. <<stepOf[r], r>> = RunStep(r) /\ RunStep(r) \in Steps
    BY <1>3, StepsAre DEF RunStep
  <2>4. runId \in 0..MaxEnvelopes /\ "step_completed" \in Events
    BY DEF Types, Envelopes, Events
  <2>5. /\ l \in LineType /\ l.env = runId /\ l.event = "step_completed" /\ l.step = RunStep(r)
        /\ l.ok = ok
    BY <2>3, <2>4, LineIs
  <2> HIDE DEF l, hd
  <2>6. "completing" \in Whereabouts
    BY DEF Whereabouts, Ending
  <2>7. h' = [h EXCEPT ![r] = Writing(hd, "completing", l)]
    BY <2>1
  <2>10. /\ Moves(r) /\ h'[r].at = "completing" /\ h'[r].io = "flight" /\ h'[r].line = l
         /\ h'[r].ok = hd.ok /\ h'[r].mode = hd.mode
    BY <2>2, <2>5, <2>6, <2>7, SendsLine
  <2>8. WaitsFor(h'[r], runId, r)
    BY <2>2, <2>5, <2>10 DEF WaitsFor
  <2>9. EndsStep(r)
    BY <1>3, <2>10, <2>8 DEF EndsStep, Sends
  <2> QED BY <1>1, <1>3, <2>1, <2>9
<1> QED BY <1>1, <1>2, <1>3

\* An end is the first of its run, a repeated one, or one too late to be recorded.
LEMMA EndKind ==
  ASSUME OneCallAtATime, IInv, NEW r \in Runs, NEW ok \in BOOLEAN,
         EndCalled(r, ok) \/ EndRepeated(r, ok)
  PROVE  /\ EndsFirst(r) \/ EndsAgain(r) \/ EndsLate(r)
         /\ siblings' = siblings /\ late' \in Nat /\ finalizes' = finalizes
<1> USE DEF IInv
<1>1. /\ h[r].at = "idle" /\ StepEnd(r, ok) /\ UNCHANGED <<runId, life, stepOf, trace, finalizes>>
  BY DEF EndCalled, EndRepeated
<1>2. CASE EndCalled(r, ok)
  <2>1. phase[r] = "open" /\ phase' = [phase EXCEPT ![r] = "ended"]
    BY <1>2 DEF EndCalled, Open, Types
  <2>2. \A c \in Runs : Parent[c] = r => phase[c] \in {"ended", "gone"}
    BY <1>2 DEF EndCalled, Children
  <2>3. stepOf[r] = "run"
    BY <1>1, <2>1 DEF Bookkeeping
  <2>4. EndsStep(r) /\ siblings' = siblings /\ late' \in Nat
    BY <1>1, <2>3, StepEndKind
  <2>5. EndsFirst(r)
    BY <2>1, <2>2, <2>4 DEF EndsFirst
  <2> QED BY <1>1, <2>4, <2>5
<1>3. CASE EndRepeated(r, ok)
  <2>1. phase[r] = "ended" /\ phase' = [phase EXCEPT ![r] = "gone"] /\ r \notin Llm
    BY <1>3 DEF EndRepeated, OneCallAtATime
  <2>2. stepOf[r] \in {"none", "run"}
    BY DEF Types
  <2>3. siblings' = siblings /\ late' \in Nat /\ IF stepOf[r] = "none" THEN h' = h ELSE EndsStep(r)
    BY <1>1, <2>1, StepEndKind
  <2>4. CASE stepOf[r] = "none"
    BY <1>1, <2>1, <2>3, <2>4 DEF EndsLate
  <2>5. CASE stepOf[r] = "run"
    BY <1>1, <2>1, <2>3, <2>5 DEF EndsAgain
  <2> QED BY <1>1, <2>2, <2>3, <2>4, <2>5
<1> QED BY <1>2, <1>3

\* No handler is in flight but those of runs: nobody calls finalize().
LEMMA AtNotIdle ==
  ASSUME Types, Shapes, NEW p \in Handlers, h[p].at # "idle"
  PROVE  p \in Runs
BY DEF Shapes, Shape

\* A file operation that lands creates the current file or adds a line to it.
LEMMA LandKind ==
  ASSUME IInv, NEW p \in Handlers, Land(p)
  PROVE  /\ p \in Runs /\ (LandsFile(p) \/ LandsLine(p))
         /\ siblings' = siblings /\ late' = late /\ finalizes' = finalizes
<1> USE DEF IInv
<1>1. /\ h[p].io = "flight" /\ h' = [h EXCEPT ![p].io = "landed"]
      /\ UNCHANGED <<phase, runId, life, stepOf, siblings, late, finalizes>>
  BY DEF Land
<1>2. h[p].at \notin {"idle", "resolved", "yielded"} /\ WaitsFor(h[p], runId, p)
  BY <1>1 DEF Shapes, Shape
<1>3. p \in Runs /\ h[p] \in HandlerType
  BY <1>2, AtNotIdle DEF Types
<1>4. h' = [h EXCEPT ![p] = [h[p] EXCEPT !.io = "landed"]]
  BY <1>1
<1> DEFINE x == [h[p] EXCEPT !.io = "landed"]
<1>5. /\ x \in HandlerType /\ x.io = "landed" /\ x.at = h[p].at /\ x.line = h[p].line
      /\ x.ok = h[p].ok /\ x.mode = h[p].mode /\ x.gen = h[p].gen
  BY <1>3, LandedIs
<1> HIDE DEF x
<1>6. h' = [h EXCEPT ![p] = x]
  BY <1>4 DEF x
<1>7. h'[p] = x /\ Others(p) /\ h' \in [Handlers -> HandlerType]
  BY <1>5, <1>6, HandlerMoves
<1>8. WaitsFor(h'[p], runId, p)
  BY <1>2, <1>5, <1>7 DEF WaitsFor
<1>9. Lands(p)
  BY <1>1, <1>5, <1>7, <1>8 DEF Lands, Moves
<1>10. h[p].line.env = runId
  BY <1>2 DEF WaitsFor
<1>11. h[p].at = "creating" <=> h[p].line.event = "truncate"
  <2>1. h[p].at \in Whereabouts
    BY <1>3, FieldsAre
  <2> QED BY <1>2, <2>1 DEF WaitsFor, Whereabouts, Starting, Unregistered, Ending, Finalizing
<1>12. CASE h[p].at = "creating"
  <2>1. trace' = [trace EXCEPT ![runId] = <<>>]
    BY <1>10, <1>11, <1>12 DEF Land
  <2>2. trace[runId] = <<>>
    BY <1>3, <1>12 DEF Files
  <2>3. trace' = trace
    BY <2>1, <2>2 DEF Types
  <2> QED BY <1>1, <1>3, <1>9, <1>12, <2>3 DEF LandsFile
<1>13. CASE h[p].at # "creating"
  <2>1. trace' = [trace EXCEPT ![runId] = Append(@, h[p].line)]
    BY <1>10, <1>11, <1>13 DEF Land
  <2> QED BY <1>1, <1>2, <1>3, <1>9, <1>13, <2>1 DEF LandsLine
<1> QED BY <1>12, <1>13

\* beginCallbackRun goes on to the step's line, or to the file in the envelope's first start.
LEMMA RegisterKind ==
  ASSUME IInv, NEW r \in Runs, Register(r)
  PROVE  /\ RegistersLater(r) \/ RegistersFirst(r)
         /\ siblings' = siblings /\ late' = late /\ finalizes' = finalizes
<1> USE DEF IInv
<1> DEFINE begun == beginCallbackRun(life, r)
           hd == [h[r] EXCEPT !.env = runId]
<1>1. /\ h[r].at \in Unregistered
      /\ UNCHANGED <<phase, runId, siblings, late, trace, finalizes>>
      /\ IF life.started
           THEN /\ life' = begun
                /\ NoteStep(r)
                /\ h' = [h EXCEPT ![r] = Writing(hd, "starting", StepLine(r, runId))]
           ELSE /\ life' = markEnvelopeStarted(begun)
                /\ h' = [h EXCEPT ![r] =
                          Writing(hd, "creating", Line(runId, "truncate", None, TRUE))]
                /\ UNCHANGED stepOf
  BY DEF Register, Landed, Unregistered
<1>2. h[r] \in HandlerType /\ life \in LifeType /\ runId \in 0..MaxEnvelopes
  BY DEF Types, Handlers, Envelopes
<1>3. h[r].mode = "start"
  BY <1>1 DEF Shapes, Shape, Handlers, Starting
<1>4. hd \in HandlerType /\ hd.mode = "start"
  BY <1>2, <1>3 DEF HandlerType
<1>5. /\ begun \in LifeType /\ begun.active = life.active \cup {r} /\ (begun.started <=> life.started)
      /\ (begun.failed <=> life.failed) /\ (begun.finalized <=> life.finalized)
  BY <1>2, BegunIs
<1> HIDE DEF begun, hd
<1>6. CASE life.started
  <2> DEFINE l == StepLine(r, runId)
  <2>1. RunStep(r) \in Steps /\ "step_started" \in Events /\ TRUE \in BOOLEAN
    BY StepsAre DEF Events
  <2>2. l = Line(runId, "step_started", RunStep(r), TRUE)
    BY <1>3 DEF StepLine
  <2>3. l \in LineType /\ l.env = runId /\ l.event = "step_started" /\ l.step = RunStep(r)
    <3> DEFINE n == Line(runId, "step_started", RunStep(r), TRUE)
    <3>1. n \in LineType /\ n.env = runId /\ n.event = "step_started" /\ n.step = RunStep(r)
      BY <1>2, <2>1, LineIs
    <3>2. l = n
      BY <2>2
    <3> HIDE DEF l, n
    <3> QED BY <3>1, <3>2
  <2> HIDE DEF l
  <2>4. h' = [h EXCEPT ![r] = Writing(hd, "starting", l)] /\ runId' = runId
    BY <1>1, <1>6 DEF l
  <2>5. "starting" \in Whereabouts
    BY DEF Whereabouts, Starting
  <2>6. /\ Moves(r) /\ h'[r].at = "starting" /\ h'[r].io = "flight" /\ h'[r].line = l
        /\ h'[r].ok = hd.ok /\ h'[r].mode = hd.mode
    BY <1>4, <2>3, <2>4, <2>5, SendsLine
  <2>7. WaitsFor(h'[r], runId, r)
    BY <2>3, <2>6 DEF WaitsFor
  <2>8. stepOf' = [stepOf EXCEPT ![r] = "run"]
    BY <1>1, <1>3, <1>6 DEF NoteStep
  <2>9. Registers(r)
    BY <1>1, <1>3, <1>4, <1>5, <1>6, <2>6, <2>7 DEF Registers, Sends
  <2> QED BY <1>1, <1>6, <2>6, <2>8, <2>9 DEF RegistersLater
<1>7. CASE ~life.started
  <2> DEFINE l == Line(runId, "truncate", None, TRUE)
  <2>1. None \in Steps /\ "truncate" \in Events /\ TRUE \in BOOLEAN
    BY StepsAre DEF Events
  <2>3. l \in LineType /\ l.env = runId /\ l.event = "truncate"
    BY <1>2, <2>1, LineIs
  <2> HIDE DEF l
  <2>4. h' = [h EXCEPT ![r] = Writing(hd, "creating", l)] /\ runId' = runId
    BY <1>1, <1>7 DEF l
  <2>5. "creating" \in Whereabouts
    BY DEF Whereabouts, Starting
  <2>6. /\ Moves(r) /\ h'[r].at = "creating" /\ h'[r].io = "flight" /\ h'[r].line = l
        /\ h'[r].ok = hd.ok /\ h'[r].mode = hd.mode
    BY <1>4, <2>3, <2>4, <2>5, SendsLine
  <2>7. WaitsFor(h'[r], runId, r)
    BY <2>3, <2>6 DEF WaitsFor
  <2>8. life' = markEnvelopeStarted(begun) /\ stepOf' = stepOf
    BY <1>1, <1>7
  <2>9. /\ life' \in LifeType /\ life'.active = life.active \cup {r} /\ life'.started
        /\ (life'.failed <=> life.failed) /\ (life'.finalized <=> life.finalized)
    BY <1>5, <2>8, MarkedIs
  <2>10. Registers(r)
    BY <1>1, <1>3, <1>4, <2>6, <2>7, <2>9 DEF Registers, Sends
  <2> QED BY <1>1, <1>7, <2>6, <2>8, <2>10 DEF RegistersFirst
<1> QED BY <1>6, <1>7

\* A start goes on from the file to run_started, to the step's line and returns.
LEMMA StartingKind ==
  ASSUME IInv, NEW r \in Runs, FileCreated(r) \/ RunOpened(r) \/ StartPersisted(r)
  PROVE  /\ CreatesFile(r) \/ OpensRun(r) \/ RecordsStart(r)
         /\ siblings' = siblings /\ late' = late /\ finalizes' = finalizes
<1> USE DEF IInv
<1>1. UNCHANGED <<phase, runId, life, siblings, late, trace, finalizes>>
  BY DEF FileCreated, RunOpened, StartPersisted
<1>2. h[r] \in HandlerType /\ runId \in 0..MaxEnvelopes
  BY DEF Types, Handlers, Envelopes
<1>3. h[r].mode = "start"
  BY DEF Shapes, Shape, Handlers, Starting, FileCreated, RunOpened, StartPersisted, Landed
<1>4. CASE FileCreated(r)
  <2> DEFINE l == Line(runId, "run_started", None, TRUE)
  <2>1. None \in Steps /\ "run_started" \in Events /\ TRUE \in BOOLEAN
    BY StepsAre DEF Events
  <2>3. l \in LineType /\ l.env = runId /\ l.event = "run_started" /\ l.step = None
    BY <1>2, <2>1, LineIs
  <2>4. h' = [h EXCEPT ![r] = Writing(h[r], "opening", l)] /\ h[r].at = "creating" /\ stepOf' = stepOf
    BY <1>4 DEF FileCreated, Landed
  <2> HIDE DEF l
  <2>5. "opening" \in Whereabouts
    BY DEF Whereabouts, Starting
  <2>6. /\ Moves(r) /\ h'[r].at = "opening" /\ h'[r].io = "flight" /\ h'[r].line = l
        /\ h'[r].ok = h[r].ok /\ h'[r].mode = h[r].mode
    BY <1>1, <1>2, <2>3, <2>4, <2>5, SendsLine
  <2>7. WaitsFor(h'[r], runId, r)
    BY <2>3, <2>6 DEF WaitsFor
  <2> QED BY <1>1, <2>4, <2>6, <2>7 DEF CreatesFile, Sends
<1>5. CASE RunOpened(r)
  <2> DEFINE l == StepLine(r, runId)
  <2>1. RunStep(r) \in Steps /\ "step_started" \in Events /\ TRUE \in BOOLEAN
    BY StepsAre DEF Events
  <2>2. l = Line(runId, "step_started", RunStep(r), TRUE)
    BY <1>3 DEF StepLine
  <2>3. l \in LineType /\ l.env = runId /\ l.event = "step_started" /\ l.step = RunStep(r)
    <3> DEFINE n == Line(runId, "step_started", RunStep(r), TRUE)
    <3>1. n \in LineType /\ n.env = runId /\ n.event = "step_started" /\ n.step = RunStep(r)
      BY <1>2, <2>1, LineIs
    <3>2. l = n
      BY <2>2
    <3> HIDE DEF l, n
    <3> QED BY <3>1, <3>2
  <2>4. /\ h' = [h EXCEPT ![r] = Writing(h[r], "starting", l)]
        /\ h[r].at = "opening" /\ h[r].io = "landed"
    BY <1>3, <1>5 DEF RunOpened, Landed
  <2> HIDE DEF l
  <2>5. "starting" \in Whereabouts
    BY DEF Whereabouts, Starting
  <2>6. /\ Moves(r) /\ h'[r].at = "starting" /\ h'[r].io = "flight" /\ h'[r].line = l
        /\ h'[r].ok = h[r].ok /\ h'[r].mode = h[r].mode
    BY <1>1, <1>2, <2>3, <2>4, <2>5, SendsLine
  <2>7. WaitsFor(h'[r], runId, r)
    BY <2>3, <2>6 DEF WaitsFor
  <2>8. stepOf' = [stepOf EXCEPT ![r] = "run"]
    BY <1>3, <1>5 DEF RunOpened, NoteStep
  <2> QED BY <1>1, <2>4, <2>6, <2>7, <2>8 DEF OpensRun, Sends
<1>6. CASE StartPersisted(r)
  <2>1. h' = [h EXCEPT ![r] = Idle] /\ h[r].at = "starting" /\ h[r].io = "landed" /\ stepOf' = stepOf
    BY <1>3, <1>6 DEF StartPersisted, Landed
  <2>2. Rests(r)
    BY <1>1, <2>1, RestsIs
  <2> QED BY <1>1, <2>1, <2>2 DEF RecordsStart
<1> QED BY <1>4, <1>5, <1>6

\* A written end is noted, and yields when it was the last.
LEMMA EndPersistedKind ==
  ASSUME IInv, NEW r \in Runs, EndPersisted(r)
  PROVE  /\ RecordsEnd(r)
         /\ siblings' = siblings /\ late' = late /\ finalizes' = finalizes
<1> USE DEF IInv
<1> DEFINE l == endCallbackRun(noteTerminalError(life, h[r].ok), r)
<1>1. /\ h[r].at = "completing" /\ h[r].io = "landed" /\ life' = l
      /\ h' = [h EXCEPT ![r] =
                  IF canScheduleFinalize(l)
                    THEN Yielding([h[r] EXCEPT !.gen = l.gen], "yielded")
                    ELSE Idle]
      /\ UNCHANGED <<phase, runId, stepOf, siblings, late, trace, finalizes>>
  BY DEF EndPersisted, Landed
<1>2. h[r] \in HandlerType /\ h[r].ok \in BOOLEAN /\ life \in LifeType /\ r \in Handlers
  BY FieldsAre DEF Types, Handlers
<1>3. /\ l \in LifeType /\ l.active = life.active \ {r} /\ (l.started <=> life.started)
      /\ l.failed <=> (life.failed \/ h[r].ok = FALSE)
      /\ (l.finalized <=> life.finalized)
  BY <1>2, EndedIs
<1> HIDE DEF l
<1>4. CASE canScheduleFinalize(l)
  <2> DEFINE hd == [h[r] EXCEPT !.gen = l.gen]
  <2>1. l.gen \in Nat
    BY <1>3 DEF LifeType
  <2>2. hd \in HandlerType /\ hd.gen = l.gen
    BY <1>2, <2>1 DEF HandlerType
  <2>3. h' = [h EXCEPT ![r] = Yielding(hd, "yielded")]
    BY <1>1, <1>4
  <2> HIDE DEF hd
  <2>4. "yielded" \in Whereabouts
    BY DEF Whereabouts, Ending
  <2> DEFINE x == Yielding(hd, "yielded")
  <2>5. x \in HandlerType /\ x.at = "yielded" /\ x.io = "none" /\ x.gen = l.gen
    BY <2>2, <2>4, YieldingIs
  <2> HIDE DEF x
  <2>6. h' = [h EXCEPT ![r] = x]
    BY <2>3 DEF x
  <2>7. h'[r] = x /\ Others(r) /\ h' \in [Handlers -> HandlerType]
    BY <1>2, <2>5, <2>6, HandlerMoves
  <2>8. Moves(r) /\ h'[r].at = "yielded" /\ h'[r].io = "none" /\ h'[r].gen = life'.gen
    BY <1>1, <2>5, <2>7 DEF Moves
  <2> QED BY <1>1, <1>3, <2>8 DEF RecordsEnd
<1>5. CASE ~canScheduleFinalize(l)
  <2>1. h' = [h EXCEPT ![r] = Idle]
    BY <1>1, <1>5
  <2>2. Moves(r) /\ h'[r].at = "idle" /\ h'[r].io = "none"
    BY <1>1, <2>1, RestsIs DEF Rests
  <2> QED BY <1>1, <1>3, <1>5, <2>2 DEF RecordsEnd
<1> QED BY <1>4, <1>5

\* A handler that completes the envelope writes its next line.
LEMMA CompletesIs ==
  ASSUME Types, NEW r \in Runs, NEW hd \in HandlerType, NEW c \in Closing(hd), h' = [h EXCEPT ![r] = c],
         UNCHANGED <<runId, phase, stepOf, trace>>
  PROVE  Completes(r) /\ h'[r].ok = hd.ok
<1>1. c \in HandlerType /\ c.ok = hd.ok /\ c.io = "flight" /\ c.at \in Finalizing /\ WaitsFor(c, runId, r)
  BY ClosingIs
<1>2. h'[r] = c /\ Others(r) /\ h' \in [Handlers -> HandlerType]
  BY <1>1, HandlerMoves DEF Handlers
<1> QED BY <1>1, <1>2 DEF Completes, Sends, Moves

\* After its microtask the last end completes the envelope, or gives up when it is not the last.
LEMMA DeferredKind ==
  ASSUME IInv, NEW r \in Runs, FinalizeDeferred(r)
  PROVE  /\ GivesUp(r) \/ ClosesEnvelope(r)
         /\ siblings' = siblings /\ late' = late /\ finalizes' = finalizes
<1> USE DEF IInv
<1>1. /\ h[r].at = "yielded" /\ UNCHANGED <<phase, runId, stepOf, siblings, late, trace, finalizes>>
      /\ h[r] \in HandlerType /\ life \in LifeType
  BY DEF FinalizeDeferred, Types, Handlers
<1>2. CASE life.gen = h[r].gen /\ canScheduleFinalize(life)
  <2> DEFINE hd == [h[r] EXCEPT !.ok = ~life.failed]
  <2>1. hd \in HandlerType /\ (hd.ok <=> ~life.failed)
    BY <1>1 DEF HandlerType
  <2>2. life' = markFinalized(life) /\ \E c \in Closing(hd) : h' = [h EXCEPT ![r] = c]
    BY <1>2 DEF FinalizeDeferred
  <2> HIDE DEF hd
  <2>3. PICK c \in Closing(hd) : h' = [h EXCEPT ![r] = c]
    BY <2>2
  <2>4. Completes(r) /\ h'[r].ok = hd.ok
    BY <1>1, <2>1, <2>3, CompletesIs
  <2>5. /\ life' \in LifeType /\ life'.active = life.active /\ life'.finalized
        /\ (life'.failed <=> life.failed) /\ (life'.started <=> life.started)
    BY <1>1, <2>2, MarkedIs
  <2> QED BY <1>1, <1>2, <2>1, <2>4, <2>5 DEF ClosesEnvelope
<1>3. CASE ~(life.gen = h[r].gen /\ canScheduleFinalize(life))
  <2>1. h' = [h EXCEPT ![r] = Idle] /\ life' = life
    BY <1>3 DEF FinalizeDeferred
  <2>2. Rests(r)
    BY <1>1, <2>1, RestsIs
  <2> QED BY <1>1, <1>3, <2>1, <2>2 DEF GivesUp
<1> QED BY <1>2, <1>3

\* Completion goes on from a group's end, and returns from run_completed.
LEMMA ClosedKind ==
  ASSUME IInv, NEW p \in Handlers, GroupClosed(p) \/ RunClosed(p)
  PROVE  /\ p \in Runs /\ (ClosesGroup(p) \/ ClosesRun(p))
         /\ siblings' = siblings /\ late' = late /\ finalizes' = finalizes
<1> USE DEF IInv
<1>1. /\ UNCHANGED <<phase, runId, life, stepOf, siblings, late, trace, finalizes>>
      /\ h[p] \in HandlerType /\ h[p].at # "idle"
  BY DEF GroupClosed, RunClosed, Types, Landed
<1>2. p \in Runs
  BY <1>1, AtNotIdle
<1>3. CASE GroupClosed(p)
  <2>1. PICK c \in Closing(h[p]) : h' = [h EXCEPT ![p] = c]
    BY <1>3 DEF GroupClosed
  <2>2. Completes(p) /\ h'[p].ok = h[p].ok
    BY <1>1, <1>2, <2>1, CompletesIs
  <2> QED BY <1>1, <1>2, <1>3, <2>2 DEF ClosesGroup, GroupClosed, Landed
<1>4. CASE RunClosed(p)
  <2>1. h' = [h EXCEPT ![p] = Idle] /\ h[p].at = "ending" /\ h[p].io = "landed"
    BY <1>4 DEF RunClosed, Landed
  <2>2. Rests(p)
    BY <1>1, <1>2, <2>1, RestsIs
  <2> QED BY <1>1, <1>2, <2>1, <2>2 DEF ClosesRun
<1> QED BY <1>3, <1>4

KindsKept ==
  /\ \E r \in Runs : Step(r)
  /\ siblings' \in [Labels -> 0..2] /\ late' \in Nat /\ finalizes' = finalizes

\* Under the hypothesis every step is one of one run, of one of the kinds above.
LEMMA StepKinds ==
  ASSUME OneCallAtATime, IInv, Next
  PROVE  KindsKept
<1>1. siblings \in [Labels -> 0..2] /\ late \in Nat /\ finalizes = 0
  BY DEF IInv, Types
<1>2. ASSUME NEW r \in Runs, StartCalled(r) PROVE KindsKept
  BY <1>2, StartKind DEF KindsKept, Step, Calls
<1>3. ASSUME NEW r \in Runs, NEW ok \in BOOLEAN, EndCalled(r, ok) \/ EndRepeated(r, ok)
      PROVE  KindsKept
  BY <1>1, <1>3, EndKind DEF KindsKept, Step, Calls
<1>4. ASSUME NEW r \in Runs PROVE ~InstantCalled(r)
  BY DEF InstantCalled, OneCallAtATime
<1>5. ASSUME NEW given PROVE ~FinalizeCalled(given)
  BY <1>1 DEF FinalizeCalled, OneCallAtATime
<1>6. ASSUME NEW p \in Handlers, Land(p) PROVE KindsKept
  BY <1>1, <1>6, LandKind DEF KindsKept, Step, Begins
<1>7. ASSUME NEW p \in Handlers, GroupClosed(p) \/ RunClosed(p) PROVE KindsKept
  BY <1>1, <1>7, ClosedKind DEF KindsKept, Step, Finishes
<1>8. ASSUME NEW r \in Runs, Register(r) PROVE KindsKept
  BY <1>1, <1>8, RegisterKind DEF KindsKept, Step, Begins
<1>9. ASSUME NEW r \in Runs, FileCreated(r) \/ RunOpened(r) \/ StartPersisted(r) PROVE KindsKept
  BY <1>1, <1>9, StartingKind DEF KindsKept, Step, Begins
<1>10. ASSUME NEW r \in Runs, EndPersisted(r) PROVE KindsKept
  BY <1>1, <1>10, EndPersistedKind DEF KindsKept, Step, Finishes
<1>11. ASSUME NEW r \in Runs, FinalizeDeferred(r) PROVE KindsKept
  BY <1>1, <1>11, DeferredKind DEF KindsKept, Step, Finishes
<1> QED BY <1>2, <1>3, <1>4, <1>5, <1>6, <1>7, <1>8, <1>9, <1>10, <1>11 DEF Next, Call, Resume
---------------------------------------------------------------------------
(* Types and shapes are kept *)

\* A line is added to the current file as its n-th.
Grows(n, line) ==
  /\ n \in Nat /\ line \in LineType
  /\ \A i \in DOMAIN trace[runId] :
        i \in Nat /\ i < n /\ trace'[runId][i] = trace[runId][i]
  /\ DOMAIN trace'[runId] = DOMAIN trace[runId] \cup {n} /\ n \notin DOMAIN trace[runId]
  /\ trace'[runId][n] = line
  /\ \A e \in Envelopes \ {runId} : trace'[e] = trace[e]
  /\ trace' \in [Envelopes -> Seq(LineType)]
  /\ IF trace[runId] = <<>> THEN n = 1 ELSE 1 \in DOMAIN trace[runId]
  /\ trace'[runId] # <<>>

\* A line that lands is the last of the current file.
LEMMA LineLands ==
  ASSUME Types, NEW r \in Runs, LandsLine(r)
  PROVE  \E n \in Nat : Grows(n, h[r].line)
<1> DEFINE s == trace[runId]
           l == h[r].line
           n == Len(s) + 1
<1>1. s \in Seq(LineType) /\ l \in LineType /\ runId \in Envelopes
  BY FieldsAre DEF Types, Handlers
<1>2. trace' = [trace EXCEPT ![runId] = Append(s, l)]
  BY DEF LandsLine
<1>3. /\ trace'[runId] = Append(s, l) /\ \A e \in Envelopes \ {runId} : trace'[e] = trace[e]
      /\ trace' \in [Envelopes -> Seq(LineType)]
  BY <1>1, <1>2 DEF Types
<1> HIDE DEF s, l
<1>4. /\ n \in Nat /\ DOMAIN s = 1..Len(s) /\ DOMAIN Append(s, l) = 1..n
      /\ Append(s, l)[n] = l /\ \A i \in 1..Len(s) : Append(s, l)[i] = s[i]
  BY <1>1
<1>5. Len(s) \in Nat
  BY <1>1
<1>6. DOMAIN Append(s, l) = DOMAIN s \cup {n} /\ n \notin DOMAIN s
  BY <1>4, <1>5
<1>7. IF s = <<>> THEN n = 1 ELSE 1 \in DOMAIN s
  BY <1>1, <1>4, <1>5
<1>8. Append(s, l) # <<>>
  BY <1>4, <1>5
<1>9. \A i \in DOMAIN s : i \in Nat /\ i < n /\ Append(s, l)[i] = s[i]
  BY <1>4, <1>5
<1> QED BY <1>1, <1>3, <1>4, <1>6, <1>7, <1>8, <1>9 DEF Grows, s, l

\* Every step keeps the types.
LEMMA TypesKept ==
  ASSUME Types, KindsKept
  PROVE  Types'
<1>1. PICK r \in Runs : Step(r)
  BY DEF KindsKept
<1>2. siblings' \in [Labels -> 0..2] /\ late' \in Nat /\ finalizes' = 0
  BY DEF KindsKept, Types
<1>3. trace' \in [Envelopes -> Seq(LineType)]
  <2>1. CASE LandsLine(r)
    BY <2>1, LineLands DEF Grows
  <2>2. CASE ~LandsLine(r)
    <3>1. trace' = trace
      BY <1>1, <2>2 DEF Step, Calls, Begins, Finishes, StartsChild, StartsFirst, StartsNext, StartsCall,
         Starts, EndsFirst, EndsAgain, EndsStep, EndsLate, LandsFile, RegistersLater, RegistersFirst,
         Registers, CreatesFile, OpensRun, RecordsStart, RecordsEnd, GivesUp, ClosesEnvelope,
         ClosesGroup, ClosesRun, Rests, Completes, Sends
    <3> QED BY <3>1 DEF Types
  <2> QED BY <2>1, <2>2
<1>4. h' \in [Handlers -> HandlerType] /\ runId' \in Envelopes
  BY <1>1 DEF Step, Calls, Begins, Finishes, StartsChild, StartsFirst, StartsNext, StartsCall,
     Starts, EndsFirst, EndsAgain, EndsStep, EndsLate, LandsFile, LandsLine, Lands, RegistersLater,
     RegistersFirst, Registers, CreatesFile, OpensRun, RecordsStart, RecordsEnd, GivesUp,
     ClosesEnvelope, ClosesGroup, ClosesRun, Rests, Completes, Moves, Types
<1>5. life' \in LifeType
  BY <1>1 DEF Step, Calls, Begins, Finishes, StartsChild, StartsFirst, StartsNext,
     EndsFirst, EndsAgain, EndsStep, EndsLate, LandsFile, LandsLine, Lands, RegistersLater,
     RegistersFirst, Registers, CreatesFile, OpensRun, RecordsStart, RecordsEnd, GivesUp,
     ClosesEnvelope, ClosesGroup, ClosesRun, Types
<1>6. phase' \in [Runs -> {"new", "open", "ended", "gone"}] /\ stepOf' \in [Runs -> {"none", "run"}]
  BY <1>1 DEF Step, Calls, Begins, Finishes, StartsChild, StartsFirst, StartsNext, StartsCall,
     Starts, EndsFirst, EndsAgain, EndsStep, EndsLate, LandsFile, LandsLine, Lands, RegistersLater,
     RegistersFirst, Registers, CreatesFile, OpensRun, RecordsStart, RecordsEnd, GivesUp,
     ClosesEnvelope, ClosesGroup, ClosesRun, Rests, Completes, Types
<1> QED BY <1>2, <1>3, <1>4, <1>5, <1>6 DEF Types

\* A step leaves the other runs alone, but for the bookkeeping that the next call drops.
LEMMA OtherRuns ==
  ASSUME Types, NEW r \in Runs, Step(r)
  PROVE  /\ Others(r)
         /\ \A q \in Runs : q # r => phase'[q] = phase[q]
         /\ StartsNext(r) \/ (runId' = runId /\ \A q \in Runs : q # r => stepOf'[q] = stepOf[q])
<1>1. Others(r)
  BY DEF Step, Calls, Begins, Finishes, StartsChild, StartsFirst, StartsNext, StartsCall,
     Starts, EndsFirst, EndsAgain, EndsStep, EndsLate, LandsFile, LandsLine, Lands, RegistersLater,
     RegistersFirst, Registers, CreatesFile, OpensRun, RecordsStart, RecordsEnd, GivesUp,
     ClosesEnvelope, ClosesGroup, ClosesRun, Rests, Completes, Moves, Others
<1>2. \A q \in Runs : q # r => phase'[q] = phase[q]
  BY DEF Step, Calls, Begins, Finishes, StartsChild, StartsFirst, StartsNext, StartsCall,
     Starts, EndsFirst, EndsAgain, EndsStep, EndsLate, LandsFile, LandsLine, Lands, RegistersLater,
     RegistersFirst, Registers, CreatesFile, OpensRun, RecordsStart, RecordsEnd, GivesUp,
     ClosesEnvelope, ClosesGroup, ClosesRun, Rests, Completes, Types
<1>3. StartsNext(r) \/ (runId' = runId /\ \A q \in Runs : q # r => stepOf'[q] = stepOf[q])
  BY DEF Step, Calls, Begins, Finishes, StartsChild, StartsFirst,
     EndsFirst, EndsAgain, EndsStep, EndsLate, LandsFile, LandsLine, Lands, RegistersLater,
     RegistersFirst, Registers, CreatesFile, OpensRun, RecordsStart, RecordsEnd, GivesUp,
     ClosesEnvelope, ClosesGroup, ClosesRun, Rests, Completes, Moves, Types
<1> QED BY <1>1, <1>2, <1>3

\* At rest no handler is in flight and no run is open.
LEMMA QuietIs ==
  ASSUME Quiet
  PROVE  /\ \A p \in Handlers : h[p].at = "idle"
         /\ \A q \in Runs : h[q].at = "idle" /\ phase[q] # "open"
BY DEF Quiet, Returned, Open, Handlers

\* Every step keeps a handler's place in agreement with its run's phase.
LEMMA ShapesKept ==
  ASSUME IInv, KindsKept, Types'
  PROVE  Shapes'
<1> USE DEF IInv
<1>1. PICK r \in Runs : Step(r)
  BY DEF KindsKept
<1>2. /\ Others(r) /\ \A q \in Runs : q # r => phase'[q] = phase[q]
      /\ StartsNext(r) \/ (runId' = runId /\ \A q \in Runs : q # r => stepOf'[q] = stepOf[q])
  BY <1>1, OtherRuns
<1>3. ASSUME NEW p \in Handlers, p # r PROVE Shape(p)'
  <2>1. h'[p] = h[p] /\ Shape(p)
    BY <1>2, <1>3 DEF Others, Shapes
  <2>2. CASE StartsNext(r)
    <3>1. h[p].at = "idle"
      BY <2>2, QuietIs DEF StartsNext, StartsCall
    <3> QED BY <2>1, <3>1 DEF Shape, Starting, Unregistered, Ending, Finalizing
  <2>3. CASE runId' = runId /\ \A q \in Runs : q # r => stepOf'[q] = stepOf[q]
    <3>1. p \in Runs => phase'[p] = phase[p] /\ stepOf'[p] = stepOf[p]
      BY <1>2, <1>3, <2>3
    <3> QED BY <2>1, <2>3, <3>1 DEF Shape, Starting, Unregistered, Ending, Finalizing
  <2> QED BY <1>2, <2>2, <2>3
<1>4. Shape(r)'
  <2>1. Shape(r) /\ r \in Handlers /\ h[r].at \in Whereabouts
    BY FieldsAre DEF Shapes, Handlers, Types
  <2>2. CASE Calls(r)
    BY <2>1, <2>2 DEF Calls, StartsChild, StartsFirst, StartsNext, StartsCall, Starts, EndsFirst,
       EndsAgain, EndsStep, EndsLate, Moves, Sends, Shape, Starting, Unregistered, Ending, Finalizing, Types
  <2>3. CASE Begins(r)
    BY <2>1, <2>3 DEF Begins, LandsFile, LandsLine, Lands, RegistersLater,
       RegistersFirst, Registers, CreatesFile, OpensRun, RecordsStart, Rests, Moves, Sends, Shape,
       Starting, Unregistered, Ending, Finalizing, Types
  <2>4. CASE Finishes(r)
    BY <2>1, <2>4 DEF Finishes, RecordsEnd, GivesUp, ClosesEnvelope, ClosesGroup, ClosesRun,
       Rests, Completes, Moves, Sends, Shape,
       Starting, Unregistered, Ending, Finalizing, Types
  <2> QED BY <1>1, <2>2, <2>3, <2>4 DEF Step
<1> QED BY <1>3, <1>4 DEF Shapes

\* Every step keeps the adapter's bookkeeping in agreement with the framework's view.
LEMMA BookkeepingKept ==
  ASSUME IInv, KindsKept, Types'
  PROVE  Bookkeeping'
<1> USE DEF IInv
<1>1. PICK r \in Runs : Step(r)
  BY DEF KindsKept
<1>2. /\ Others(r) /\ \A q \in Runs : q # r => phase'[q] = phase[q]
      /\ StartsNext(r) \/ (runId' = runId /\ \A q \in Runs : q # r => stepOf'[q] = stepOf[q])
  BY <1>1, OtherRuns
<1>3. \A q \in Runs : q # r => h'[q] = h[q]
  BY <1>2 DEF Others, Handlers
<1>4. /\ h[r].at \in Whereabouts /\ h'[r].at \in Whereabouts
      /\ h[r].at \in Starting => phase[r] = "open"
      /\ h[r].at \in Ending => phase[r] \in {"ended", "gone"} /\ stepOf[r] = "run"
  BY FieldsAre DEF Shapes, Shape, Handlers, Types
<1>5. \A q \in Runs : q \in life.active <=>
        \/ phase[q] = "open" /\ h[q].at \notin Unregistered
        \/ phase[q] = "ended" /\ h[q].at = "completing"
  BY DEF Bookkeeping
<1>6. ASSUME NEW q \in Runs
      PROVE  q \in life'.active <=>
               \/ phase'[q] = "open" /\ h'[q].at \notin Unregistered
               \/ phase'[q] = "ended" /\ h'[q].at = "completing"
  <2>1. CASE StartsNext(r)
    BY <1>2, <1>3, <2>1, QuietIs DEF StartsNext, StartsCall, Starts, Types, Unregistered
  <2>2. CASE Calls(r) /\ ~StartsNext(r)
    BY <1>2, <1>3, <1>5, <2>2 DEF Calls, StartsChild, StartsFirst, StartsCall, Starts, EndsFirst,
       EndsAgain, EndsStep, EndsLate, Types, Unregistered
  <2>3. CASE Begins(r)
    BY <1>2, <1>3, <1>4, <1>5, <2>3 DEF Begins, LandsFile, LandsLine, Lands, RegistersLater,
       RegistersFirst, Registers, CreatesFile, OpensRun, RecordsStart, Rests,
       Starting, Unregistered, Types
  <2>4. CASE Finishes(r)
    BY <1>2, <1>3, <1>4, <1>5, <2>4 DEF Finishes, RecordsEnd, GivesUp, ClosesEnvelope, ClosesGroup,
       ClosesRun, Rests, Completes, Unregistered, Ending, Finalizing, Types
  <2> QED BY <1>1, <2>1, <2>2, <2>3, <2>4 DEF Step
<1>7. ASSUME NEW q \in Runs
      PROVE  /\ phase'[q] = "open" => (stepOf'[q] = "run" <=> h'[q].at \in {"idle", "starting"})
             /\ phase'[q] = "new" => stepOf'[q] = "none"
  <2>5. /\ phase[q] = "open" => (stepOf[q] = "run" <=> h[q].at \in {"idle", "starting"})
        /\ phase[q] = "new" => stepOf[q] = "none"
    BY DEF Bookkeeping
  <2>1. CASE StartsNext(r)
    BY <1>2, <1>3, <2>1, QuietIs DEF StartsNext, StartsCall, Starts, Types
  <2>2. CASE Calls(r) /\ ~StartsNext(r)
    BY <1>2, <1>3, <2>5, <2>2 DEF Calls, StartsChild, StartsFirst, StartsCall, Starts, EndsFirst,
       EndsAgain, EndsStep, EndsLate, Types, Unregistered
  <2>3. CASE Begins(r)
    BY <1>2, <1>3, <1>4, <2>5, <2>3 DEF Begins, LandsFile, LandsLine, Lands, RegistersLater,
       RegistersFirst, Registers, CreatesFile, OpensRun, RecordsStart, Rests,
       Starting, Unregistered, Types
  <2>4. CASE Finishes(r)
    BY <1>2, <1>3, <1>4, <2>5, <2>4 DEF Finishes, RecordsEnd, GivesUp, ClosesEnvelope, ClosesGroup,
       ClosesRun, Rests, Completes, Unregistered, Ending, Finalizing, Types
  <2> QED BY <1>1, <2>1, <2>2, <2>3, <2>4 DEF Step
<1> QED BY <1>6, <1>7 DEF Bookkeeping

\* What a step on behalf of r finds and leaves behind, apart from the files.
Framed(r) ==
  /\ \A q \in Runs : q # r => h'[q] = h[q] /\ phase'[q] = phase[q]
  /\ StartsNext(r) \/ (runId' = runId /\ \A q \in Runs : q # r => stepOf'[q] = stepOf[q])
  /\ h[r].at \in Whereabouts /\ h'[r].at \in Whereabouts
  /\ h[r].at \in Starting => phase[r] = "open"
  /\ h[r].at \in Ending => phase[r] \in {"ended", "gone"} /\ stepOf[r] = "run"

\* What a step leaves alone, and where it finds its handler.
LEMMA StepIsFramed ==
  ASSUME IInv, Types', NEW r \in Runs, Step(r)
  PROVE  Framed(r)
<1> USE DEF IInv
<1>1. /\ Others(r) /\ \A q \in Runs : q # r => phase'[q] = phase[q]
      /\ StartsNext(r) \/ (runId' = runId /\ \A q \in Runs : q # r => stepOf'[q] = stepOf[q])
  BY OtherRuns
<1>2. \A q \in Runs : q # r => h'[q] = h[q]
  BY <1>1 DEF Others, Handlers
<1>3. /\ h[r].at \in Whereabouts /\ h'[r].at \in Whereabouts
      /\ h[r].at \in Starting => phase[r] = "open"
      /\ h[r].at \in Ending => phase[r] \in {"ended", "gone"} /\ stepOf[r] = "run"
  BY FieldsAre DEF Shapes, Shape, Handlers, Types
<1> QED BY <1>1, <1>2, <1>3 DEF Framed

\* Every step keeps runs nested in ones that are open and at rest.
LEMMA NestingKept ==
  ASSUME IInv, KindsKept, Types'
  PROVE  Nesting'
<1> USE DEF IInv
<1>1. PICK r \in Runs : Step(r)
  BY DEF KindsKept
<1>2. Framed(r)
  BY <1>1, StepIsFramed
<1>3. ASSUME NEW q \in Runs, phase'[q] = "open", Parent[q] # None
      PROVE  phase'[Parent[q]] = "open" /\ h'[Parent[q]].at = "idle"
  <2>1. Parent[q] \in Runs
    BY <1>3, LangChainAssumption
  <2>2. phase[q] = "open" => phase[Parent[q]] = "open" /\ h[Parent[q]].at = "idle"
    BY <1>3 DEF Nesting
  <2>6. CASE StartsFirst(r) \/ StartsNext(r)
    BY <1>2, <1>3, <2>6, QuietIs DEF Framed, StartsFirst, StartsNext, StartsCall
  <2>7. CASE StartsChild(r)
    BY <1>2, <1>3, <2>1, <2>2, <2>7 DEF Framed, StartsChild, Starts
  <2>3. CASE EndsFirst(r) \/ EndsAgain(r) \/ EndsLate(r)
    BY <1>2, <1>3, <2>1, <2>2, <2>3 DEF Framed, EndsFirst, EndsAgain, EndsStep, EndsLate, Types
  <2>4. CASE Begins(r)
    BY <1>2, <1>3, <2>1, <2>2, <2>4 DEF Framed, Begins, LandsFile, LandsLine, Lands, RegistersLater,
       RegistersFirst, Registers, CreatesFile, OpensRun, RecordsStart, Rests, Unregistered, Types
  <2>5. CASE Finishes(r)
    BY <1>2, <1>3, <2>1, <2>2, <2>5 DEF Framed, Finishes, RecordsEnd, GivesUp, ClosesEnvelope,
       ClosesGroup, ClosesRun, Rests, Completes, Types
  <2> QED BY <1>1, <2>3, <2>4, <2>5, <2>6, <2>7 DEF Step, Calls
<1>4. ASSUME NEW q \in Runs, phase'[q] = "open", Parent[q] = None, h'[q].at # "idle",
             NEW s \in Runs, phase'[s] = "open"
      PROVE  s = q
  <2>1. phase[q] = "open" /\ h[q].at # "idle" /\ phase[s] = "open" => s = q
    BY <1>4 DEF Nesting
  <2>2. CASE StartsChild(r)
    <3>1. Parent[r] \in Runs /\ phase[Parent[r]] = "open" /\ h[Parent[r]].at = "idle" /\ phase[r] = "new"
      BY <2>2 DEF StartsChild, Starts
    <3>2. q # r /\ h[q].at # "idle" /\ phase[q] = "open"
      BY <1>2, <1>4, <3>1, LangChainAssumption DEF Framed
    <3>3. Parent[r] = q
      BY <1>4, <3>1, <3>2 DEF Nesting
    <3> QED BY <3>1, <3>2, <3>3
  <2>3. CASE Calls(r) /\ ~StartsChild(r)
    BY <1>2, <1>4, <2>1, <2>3, QuietIs DEF Framed, Calls, StartsFirst, StartsNext,
       StartsCall, Starts, EndsFirst, EndsAgain, EndsStep, EndsLate, Types
  <2>4. CASE Begins(r)
    BY <1>2, <1>4, <2>1, <2>4 DEF Framed, Begins, LandsFile, LandsLine, Lands, RegistersLater,
       RegistersFirst, Registers, CreatesFile, OpensRun, RecordsStart, Rests, Unregistered, Types
  <2>5. CASE Finishes(r)
    BY <1>2, <1>4, <2>1, <2>5 DEF Framed, Finishes, RecordsEnd, GivesUp, ClosesEnvelope,
       ClosesGroup, ClosesRun, Rests, Completes, Types, Ending, Finalizing
  <2> QED BY <1>1, <2>2, <2>3, <2>4, <2>5 DEF Step
<1>5. ASSUME NEW q \in Runs, h'[q].at \in {"creating", "opening"}, NEW s \in Runs
      PROVE  stepOf'[s] = "none" /\ (s # q => h'[s].at = "idle" /\ phase'[s] # "open")
  <2>1. h[q].at \in {"creating", "opening"} =>
           \A x \in Runs : stepOf[x] = "none" /\ (x # q => h[x].at = "idle" /\ phase[x] # "open")
    BY DEF Nesting
  <2>2. CASE Calls(r)
    <3>1. q # r /\ h[q].at \in {"creating", "opening"}
      BY <1>2, <1>5, <2>2 DEF Framed, Calls, StartsChild, StartsFirst, StartsNext,
         StartsCall, Starts, EndsFirst, EndsAgain, EndsStep, EndsLate, Unregistered
    <3>2. phase[q] = "open"
      BY <3>1 DEF Shapes, Shape, Handlers, Starting
    <3>3. ~StartsFirst(r) /\ ~StartsNext(r)
      BY <3>2, QuietIs DEF StartsFirst, StartsNext, StartsCall
    <3>4. ~StartsChild(r)
      BY <2>1, <3>1 DEF StartsChild
    <3>5. EndsLate(r)
      BY <2>1, <2>2, <3>1, <3>3, <3>4 DEF Calls, EndsFirst, EndsAgain, EndsStep
    <3> QED BY <1>2, <2>1, <3>1, <3>5 DEF Framed, EndsLate, Types
  <2>3. CASE RegistersFirst(r)
    <3>1. /\ ~life.started /\ h[r].at \in Unregistered /\ stepOf' = stepOf /\ phase' = phase
          /\ stepOf[s] = "none" /\ h[s].at \in {"idle", "resolved"}
          /\ phase[r] = "open" => Parent[r] = None /\ h[r].at = "resolved"
      BY <2>3 DEF RegistersFirst, Registers, Fresh
    <3>2. phase[r] = "open" /\ Parent[r] = None
      BY <1>2, <3>1 DEF Framed, Starting
    <3>3. phase[s] = "open" => s = r
      BY <3>1, <3>2 DEF Nesting, Unregistered
    <3>4. h[s].at = "resolved" => phase[s] = "open"
      BY DEF Shapes, Shape, Handlers, Starting, Unregistered
    <3>5. q = r
      <4>1. h[q].at \in {"idle", "resolved"}
        BY <3>1 DEF Fresh
      <4> QED BY <1>2, <1>5, <4>1 DEF Framed
    <3> QED BY <1>2, <3>1, <3>3, <3>4, <3>5 DEF Framed
  <2>4. CASE (Begins(r) \/ Finishes(r)) /\ ~RegistersFirst(r)
    <3>1. h[r].at # "idle"
      BY <2>4 DEF Begins, LandsFile, LandsLine, Lands, RegistersLater, Shapes, Shape, Handlers,
       Registers, CreatesFile, OpensRun, RecordsStart, Unregistered,
       Finishes, RecordsEnd, GivesUp, ClosesEnvelope, ClosesGroup, ClosesRun
    <3>2. q = r
      BY <1>2, <1>5, <2>1, <3>1 DEF Framed
    <3>3. h[q].at \in {"creating", "opening"} /\ stepOf' = stepOf /\ phase' = phase
      BY <1>5, <3>2, <2>4 DEF Begins, LandsFile, LandsLine, Lands, RegistersLater,
       Registers, CreatesFile, OpensRun, RecordsStart, Rests, Unregistered,
       Finishes, RecordsEnd, GivesUp, ClosesEnvelope, ClosesGroup, ClosesRun, Completes, Finalizing
    <3> QED BY <1>2, <2>1, <3>2, <3>3 DEF Framed
  <2> QED BY <1>1, <2>2, <2>3, <2>4 DEF Step, Begins
<1>6. \A q \in Runs : phase'[q] = "open" /\ Parent[q] # None =>
        phase'[Parent[q]] = "open" /\ h'[Parent[q]].at = "idle"
  BY <1>3
<1>7. \A q \in Runs : phase'[q] = "open" /\ Parent[q] = None /\ h'[q].at # "idle" =>
        \A s \in Runs : phase'[s] = "open" => s = q
  BY <1>4
<1>8. \A q \in Runs : h'[q].at \in {"creating", "opening"} =>
        \A s \in Runs : stepOf'[s] = "none" /\ (s # q => h'[s].at = "idle" /\ phase'[s] # "open")
  BY <1>5
<1> QED BY <1>6, <1>7, <1>8 DEF Nesting

\* Every step keeps an envelope without a registration empty.
LEMMA FreshKept ==
  ASSUME IInv, KindsKept, Types'
  PROVE  Fresh'
<1> USE DEF IInv
<1>1. PICK r \in Runs : Step(r)
  BY DEF KindsKept
<1>2. Framed(r)
  BY <1>1, StepIsFramed
<1>3. CASE StartsFirst(r) \/ StartsNext(r)
  <2>1. /\ ~life'.started /\ ~life'.failed /\ ~life'.finalized
        /\ \A q \in Runs : stepOf'[q] = "none"
    BY <1>3 DEF StartsFirst, StartsNext, StartsCall, Starts, Fresh
  <2>2. trace'[runId'] = <<>>
    <3>1. CASE StartsFirst(r)
      BY <3>1 DEF StartsFirst, StartsCall, Starts, Fresh
    <3>2. CASE StartsNext(r)
      <4>1. runId' \in Envelopes /\ runId' > runId /\ trace' = trace
        BY <3>2 DEF StartsNext, StartsCall, Starts, Types, Envelopes
      <4> QED BY <4>1 DEF Files
    <3> QED BY <1>3, <3>1, <3>2
  <2>3. /\ h'[r].at = "resolved" /\ Parent[r] = None
        /\ phase'[r] = "open"
        /\ \A q \in Runs : h[q].at = "idle" /\ phase[q] # "open"
    BY <1>3, QuietIs DEF StartsFirst, StartsNext, StartsCall, Starts, Types
  <2>4. /\ \A q \in Runs : h'[q].at \in {"idle", "resolved"}
        /\ \A q \in Runs : phase'[q] = "open" => Parent[q] = None /\ h'[q].at = "resolved"
    BY <1>2, <2>3 DEF Framed
  <2> QED BY <2>1, <2>2, <2>3, <2>4 DEF Fresh
<1>4. CASE EndsLate(r)
  <2>1. /\ UNCHANGED <<runId, life, stepOf, trace, h>>
        /\ \A q \in Runs : phase'[q] = "open" <=> phase[q] = "open"
    BY <1>4 DEF EndsLate, Types
  <2>2. /\ ~life'.started =>
              /\ ~life'.finalized /\ ~life'.failed /\ trace'[runId'] = <<>>
              /\ \A q \in Runs : stepOf'[q] = "none" /\ h'[q].at \in {"idle", "resolved"}
              /\ \A q \in Runs : phase'[q] = "open" => Parent[q] = None /\ h'[q].at = "resolved"
        /\ \A q \in Runs : h'[q].at \in Unregistered /\ Parent[q] = None => ~life'.started
    BY <2>1 DEF Fresh
  <2>3. ~life'.started /\ (\A q \in Runs : phase'[q] # "open") => \A l \in Labels : siblings'[l] = 0
    BY <1>4, <2>1 DEF Fresh, EndsLate
  <2> QED BY <2>2, <2>3 DEF Fresh
<1>5. CASE RegistersFirst(r)
  <2>1. /\ ~life.started /\ h[r].at \in Unregistered /\ h'[r].at = "creating" /\ phase' = phase
        /\ life'.started /\ phase[r] = "open"
    BY <1>2, <1>5 DEF RegistersFirst, Registers, Framed, Starting
  <2>2. Parent[r] = None /\ h[r].at # "idle"
    BY <2>1 DEF Fresh, Unregistered
  <2>3. ASSUME NEW q \in Runs, Parent[q] = None PROVE h'[q].at \notin Unregistered
    <3>1. CASE q = r
      BY <2>1, <3>1 DEF Unregistered
    <3>2. CASE q # r
      <4>1. phase[q] # "open"
        BY <2>1, <2>2, <3>2 DEF Nesting
      <4>2. h[q].at \notin Unregistered
        BY <4>1 DEF Shapes, Shape, Handlers, Starting
      <4> QED BY <1>2, <3>2, <4>2 DEF Framed
    <3> QED BY <3>1, <3>2
  <2> QED BY <2>1, <2>3 DEF Fresh
<1>6. CASE Step(r) /\ ~(StartsFirst(r) \/ StartsNext(r) \/ EndsLate(r) \/ RegistersFirst(r))
  <2>1. life.started
    <3> SUFFICES ASSUME ~life.started PROVE FALSE
      OBVIOUS
    <3>1. /\ h[r].at \in {"idle", "resolved"} /\ stepOf[r] = "none"
      BY DEF Fresh
    <3>2. h[r].io = "none"
      BY <3>1 DEF Shapes, Shape, Handlers
    <3> QED BY <1>6, <3>1, <3>2 DEF Step, Calls, Begins, Finishes, StartsChild,
         EndsFirst, EndsAgain, EndsStep, LandsFile, LandsLine, Lands, RegistersLater,
         CreatesFile, OpensRun, RecordsStart, RecordsEnd, GivesUp, ClosesEnvelope,
         ClosesGroup, ClosesRun
  <2>2. life'.started
    BY <1>6, <2>1 DEF Step, Calls, Begins, Finishes, StartsChild,
         EndsFirst, EndsAgain, EndsStep, LandsFile, LandsLine, Lands, RegistersLater, Registers,
         CreatesFile, OpensRun, RecordsStart, RecordsEnd, GivesUp, ClosesEnvelope,
         ClosesGroup, ClosesRun
  <2>3. ASSUME NEW q \in Runs, Parent[q] = None PROVE h'[q].at \notin Unregistered
    <3>1. h[q].at \notin Unregistered
      BY <2>1, <2>3 DEF Fresh
    <3>2. CASE q # r
      BY <1>2, <3>1, <3>2 DEF Framed
    <3>3. CASE q = r
      BY <1>6, <2>3, <3>1, <3>3, LangChainAssumption DEF Step, Calls, Begins, Finishes, StartsChild,
         EndsFirst, EndsAgain, EndsStep, LandsFile, LandsLine, Lands, RegistersLater, Registers,
         CreatesFile, OpensRun, RecordsStart, RecordsEnd, GivesUp, ClosesEnvelope,
         ClosesGroup, ClosesRun, Rests, Completes, Unregistered, Finalizing
    <3> QED BY <3>2, <3>3
  <2> QED BY <2>2, <2>3 DEF Fresh
<1> QED BY <1>1, <1>3, <1>4, <1>5, <1>6
---------------------------------------------------------------------------
(* The files *)

\* Only a line that lands changes a file.
LEMMA TraceStays ==
  ASSUME NEW r \in Runs, Step(r), ~LandsLine(r)
  PROVE  trace' = trace
BY DEF Step, Calls, Begins, Finishes, StartsChild, StartsFirst, StartsNext, StartsCall,
   Starts, EndsFirst, EndsAgain, EndsStep, EndsLate, LandsFile, RegistersLater, RegistersFirst,
   Registers, CreatesFile, OpensRun, RecordsStart, RecordsEnd, GivesUp, ClosesEnvelope,
   ClosesGroup, ClosesRun, Rests, Completes, Sends

\* Without a new line the places of the lines stay.
LEMMA PlacesStay ==
  ASSUME trace' = trace
  PROVE  /\ \A e, event : Places(e, event)' = Places(e, event)
         /\ \A e, event, step : HasLine(e, event, step)' <=> HasLine(e, event, step)
BY DEF Places, HasLine

\* A new line adds its own place, after the others.
LEMMA PlacesGrow ==
  ASSUME Types, NEW n, NEW line, Grows(n, line)
  PROVE  /\ \A e \in Envelopes, event \in Events :
               /\ Places(e, event)' = Places(e, event)
                                        \cup (IF e = runId /\ line.event = event THEN {n} ELSE {})
               /\ Places(e, event) \subseteq DOMAIN trace[e]
               /\ \A i \in Places(e, event) : trace'[e][i] = trace[e][i]
         /\ \A e \in Envelopes, event \in Events : \A step :
               HasLine(e, event, step) => HasLine(e, event, step)'
<1>1. runId \in Envelopes
  BY DEF Types
<1>2. ASSUME NEW e \in Envelopes, NEW event \in Events
      PROVE  /\ Places(e, event)' = Places(e, event)
                                        \cup (IF e = runId /\ line.event = event THEN {n} ELSE {})
             /\ Places(e, event) \subseteq DOMAIN trace[e]
             /\ \A i \in Places(e, event) : trace'[e][i] = trace[e][i]
  <2>1. CASE e = runId
    <3>1. /\ DOMAIN trace'[e] = DOMAIN trace[e] \cup {n} /\ n \notin DOMAIN trace[e]
          /\ trace'[e][n] = line /\ \A i \in DOMAIN trace[e] : trace'[e][i] = trace[e][i]
      BY <2>1 DEF Grows
    <3> QED BY <2>1, <3>1 DEF Places
  <2>2. CASE e # runId
    <3>1. trace'[e] = trace[e]
      BY <2>2 DEF Grows
    <3> QED BY <2>2, <3>1 DEF Places
  <2> QED BY <2>1, <2>2
<1>3. ASSUME NEW e \in Envelopes, NEW event \in Events, NEW step, HasLine(e, event, step)
      PROVE  HasLine(e, event, step)'
  <2>1. PICK i \in Places(e, event) : trace[e][i].step = step
    BY <1>3 DEF HasLine
  <2>2. i \in Places(e, event)' /\ trace'[e][i].step = step
    BY <1>2, <2>1
  <2> QED BY <2>2 DEF HasLine
<1> QED BY <1>2, <1>3

\* Every step keeps run_started the first line: no file is truncated once it has lines.
LEMMA FilesKept ==
  ASSUME IInv, KindsKept, Types'
  PROVE  Files'
<1> USE DEF IInv
<1>1. PICK r \in Runs : Step(r)
  BY DEF KindsKept
<1>2. Framed(r) /\ runId \in Envelopes
  BY <1>1, StepIsFramed DEF Types
<1>3. CASE LandsLine(r)
  <2>1. PICK n \in Nat : Grows(n, h[r].line)
    BY <1>3, LineLands
  <2>2. /\ runId' = runId /\ life' = life /\ h'[r].at = h[r].at /\ h'[r].io = "landed"
        /\ h[r].at # "creating" /\ h[r].io = "flight" /\ WaitsFor(h[r], runId, r)
    BY <1>3 DEF LandsLine, Lands, Moves
  <2>3. h[r].at \notin {"idle", "resolved", "yielded"}
    BY <2>2 DEF Shapes, Shape, Handlers
  <2>4. \A q \in Runs : h[q].at \in {"creating", "opening"} => q = r
    BY <2>3 DEF Nesting
  <2>5. ASSUME NEW e \in Envelopes, e > runId' PROVE trace'[e] = <<>>
    <3>1. e > runId /\ e # runId
      BY <1>2, <2>2, <2>5 DEF Envelopes
    <3> QED BY <2>1, <3>1 DEF Grows, Files
  <2>6. ASSUME NEW e \in Envelopes, trace'[e] # <<>> PROVE trace'[e][1].event = "run_started"
    <3>1. CASE e # runId
      BY <2>1, <2>6, <3>1 DEF Grows, Files
    <3>2. CASE e = runId /\ trace[runId] # <<>>
      <4>1. trace'[e][1] = trace[e][1]
        BY <2>1, <3>2 DEF Grows
      <4> QED BY <3>2, <4>1 DEF Files
    <3>3. CASE e = runId /\ trace[runId] = <<>>
      <4>1. life.started
        BY <2>3 DEF Fresh
      <4>2. \E q \in Runs : h[q].at = "creating" \/ (h[q].at = "opening" /\ h[q].io = "flight")
        BY <3>3, <4>1 DEF Files
      <4>3. h[r].at = "opening"
        BY <2>2, <2>4, <4>2
      <4>4. trace'[e][1] = h[r].line /\ h[r].line.event = "run_started"
        BY <2>1, <2>2, <3>3, <4>3 DEF Grows, WaitsFor
      <4> QED BY <4>4
    <3> QED BY <3>1, <3>2, <3>3
  <2>7. ASSUME NEW q \in Runs
        PROVE  ~(h'[q].at = "creating" \/ (h'[q].at = "opening" /\ h'[q].io = "flight"))
    BY <1>2, <2>2, <2>4 DEF Framed
  <2>8. trace'[runId'] # <<>>
    BY <2>1, <2>2 DEF Grows
  <2> QED BY <2>5, <2>6, <2>7, <2>8 DEF Files
<1>4. CASE StartsNext(r)
  <2>1. /\ trace' = trace /\ runId' = runId + 1 /\ ~life'.started
        /\ h'[r].at = "resolved" /\ \A q \in Runs : h[q].at = "idle"
    BY <1>4, QuietIs DEF StartsNext, StartsCall, Starts
  <2>2. \A q \in Runs : h'[q].at \in {"idle", "resolved"}
    BY <1>2, <2>1 DEF Framed
  <2>3. \A e \in Envelopes : e > runId' => e > runId
    BY <2>1, <1>2 DEF Envelopes
  <2> QED BY <2>1, <2>2, <2>3 DEF Files
<1>5. CASE ~LandsLine(r) /\ ~StartsNext(r)
  <2>1. trace' = trace /\ runId' = runId
    BY <1>1, <1>2, <1>5, TraceStays DEF Framed
  <2>2. ASSUME NEW q \in Runs, h'[q].at = "creating" \/ (h'[q].at = "opening" /\ h'[q].io = "flight")
        PROVE  trace[runId] = <<>>
    <3>1. CASE h[q].at = "creating" \/ (h[q].at = "opening" /\ h[q].io = "flight")
      BY <3>1 DEF Files
    <3>2. CASE ~(h[q].at = "creating" \/ (h[q].at = "opening" /\ h[q].io = "flight"))
      <4>1. q = r
        BY <1>2, <2>2, <3>2 DEF Framed
      <4>2. RegistersFirst(r)
        BY <1>1, <1>5, <2>2, <3>2, <4>1 DEF Step, Calls, Begins, Finishes, StartsChild, StartsFirst,
           StartsCall, EndsFirst, EndsAgain, EndsStep, EndsLate, LandsFile, Lands, RegistersLater,
           CreatesFile, OpensRun, RecordsStart, RecordsEnd, GivesUp, ClosesEnvelope,
           ClosesGroup, ClosesRun, Rests, Completes, Unregistered, Finalizing
      <4> QED BY <4>2 DEF RegistersFirst, Fresh
    <3> QED BY <3>1, <3>2
  <2>3. ASSUME trace[runId] = <<>>, life'.started
        PROVE  \E q \in Runs : h'[q].at = "creating" \/ (h'[q].at = "opening" /\ h'[q].io = "flight")
    <3>1. CASE RegistersFirst(r)
      BY <3>1 DEF RegistersFirst
    <3>2. CASE CreatesFile(r)
      BY <3>2 DEF CreatesFile, Sends
    <3>3. CASE ~RegistersFirst(r) /\ ~CreatesFile(r)
      <4>1. life.started
        <5>1. StartsFirst(r) => ~life'.started
          BY DEF StartsFirst
        <5> QED BY <1>1, <1>5, <2>3, <3>3, <5>1 DEF Step, Calls, Begins, Finishes, StartsChild,
           EndsFirst, EndsAgain, EndsStep, EndsLate, LandsFile, Lands, RegistersLater,
           OpensRun, RecordsStart, RecordsEnd, GivesUp, ClosesEnvelope,
           ClosesGroup, ClosesRun, canScheduleFinalize
      <4>2. PICK q \in Runs : h[q].at = "creating" \/ (h[q].at = "opening" /\ h[q].io = "flight")
        BY <2>3, <4>1 DEF Files
      <4>3. CASE q # r
        BY <1>2, <4>2, <4>3 DEF Framed
      <4>4. CASE q = r
        <5>1. phase[r] = "open"
          BY <1>2, <4>2, <4>4 DEF Framed, Starting
        <5>2. LandsFile(r)
          BY <1>1, <1>5, <3>3, <4>2, <4>4, <5>1 DEF Step, Calls, Begins, Finishes, StartsChild, StartsFirst,
           StartsCall, Starts, EndsFirst, EndsAgain, EndsStep, EndsLate, RegistersLater, Registers,
           OpensRun, RecordsStart, RecordsEnd, GivesUp, ClosesEnvelope,
           ClosesGroup, ClosesRun, Unregistered
        <5> QED BY <5>2 DEF LandsFile, Lands
      <4> QED BY <4>3, <4>4
    <3> QED BY <3>1, <3>2, <3>3
  <2> QED BY <2>1, <2>2, <2>3 DEF Files
<1> QED BY <1>3, <1>4, <1>5

\* Every step keeps the starts that were written.
LEMMA RecordedKept ==
  ASSUME IInv, KindsKept, Types'
  PROVE  Recorded'
<1> USE DEF IInv
<1>1. PICK r \in Runs : Step(r)
  BY DEF KindsKept
<1>2. Framed(r)
  BY <1>1, StepIsFramed
<1>3. "step_started" \in Events /\ runId \in Envelopes
  BY DEF Events, Types
<1>4. \A e \in Envelopes, q \in Runs :
         HasLine(e, "step_started", RunStep(q)) => HasLine(e, "step_started", RunStep(q))'
  <2>1. CASE LandsLine(r)
    <3>1. PICK n \in Nat : Grows(n, h[r].line)
      BY <2>1, LineLands
    <3> QED BY <1>3, <3>1, PlacesGrow
  <2>2. CASE ~LandsLine(r)
    BY <1>1, <2>2, TraceStays, PlacesStay
  <2> QED BY <2>1, <2>2
<1> DEFINE Told(q) == phase[q] # "new" /\ (h[q].at \in Starting => h[q].at = "starting" /\ h[q].io = "landed")
<1>5. ASSUME NEW q \in Runs, Told(q)'
      PROVE  \E e \in Envelopes : HasLine(e, "step_started", RunStep(q))'
  <2>1. CASE Told(q)
    <3>1. \E e \in Envelopes : HasLine(e, "step_started", RunStep(q))
      BY <2>1 DEF Recorded
    <3> QED BY <1>4, <3>1
  <2>2. CASE ~Told(q)
    <3>1. q = r
      BY <1>2, <1>5, <2>2 DEF Framed
    <3>2. LandsLine(r) /\ h[r].at = "starting"
      BY <1>1, <1>2, <1>5, <2>2, <3>1 DEF Framed, Step, Calls, Begins, Finishes, StartsChild, StartsFirst,
           StartsCall, Starts, StartsNext, EndsFirst, EndsAgain, EndsStep, EndsLate, LandsFile, LandsLine,
           Lands, RegistersLater, RegistersFirst, Registers, Sends,
           CreatesFile, OpensRun, RecordsStart, RecordsEnd, GivesUp, ClosesEnvelope,
           ClosesGroup, ClosesRun, Rests, Completes, Unregistered, Finalizing, Starting, Ending
    <3>3. PICK n \in Nat : Grows(n, h[r].line)
      BY <3>2, LineLands
    <3>4. h[r].line.event = "step_started" /\ h[r].line.step = RunStep(r) /\ runId' = runId
      BY <3>2 DEF LandsLine, Lands, Moves, WaitsFor
    <3>5. n \in Places(runId, "step_started")'
      BY <1>3, <3>3, <3>4, PlacesGrow
    <3>6. trace'[runId][n].step = RunStep(r)
      BY <3>3, <3>4 DEF Grows
    <3>7. HasLine(runId, "step_started", RunStep(r))'
      BY <3>4, <3>5, <3>6 DEF HasLine
    <3> QED BY <1>3, <3>1, <3>4, <3>7
  <2> QED BY <2>1, <2>2
<1> QED BY <1>5 DEF Recorded
---------------------------------------------------------------------------
(* Completion *)

\* When nothing is active in a started envelope, no run is open.
LEMMA NothingOpen ==
  ASSUME IInv, life.started, life.active = {}
  PROVE  \A q \in Runs : phase[q] # "open"
<1> USE DEF IInv
<1> SUFFICES ASSUME NEW q \in Runs, phase[q] = "open" PROVE FALSE
  OBVIOUS
<1>1. h[q].at \in Unregistered
  BY DEF Bookkeeping
<1>2. Parent[q] # None
  BY <1>1 DEF Fresh
<1>3. Parent[q] \in Runs /\ phase[Parent[q]] = "open" /\ h[Parent[q]].at = "idle"
  BY <1>2, LangChainAssumption DEF Nesting
<1> QED BY <1>3 DEF Bookkeeping, Unregistered

\* The parts of Completion that are not about the files.
ClosedWhenFinalized ==
  /\ \A r \in Runs : h[r].at \in Finalizing => life.finalized
  /\ life.finalized => life.active = {} /\ \A r \in Runs : phase[r] # "open"
  /\ life.started /\ life.active = {} /\ ~life.finalized =>
       \E r \in Runs : h[r].at = "yielded" /\ h[r].gen = life.gen

\* Every step keeps a finalized envelope without active and open runs.
LEMMA FinalizedKept ==
  ASSUME IInv, KindsKept, Types'
  PROVE  ClosedWhenFinalized'
<1> USE DEF IInv
<1>1. PICK r \in Runs : Step(r)
  BY DEF KindsKept
<1>2. Framed(r) /\ ClosedWhenFinalized
  BY <1>1, StepIsFramed DEF Completion, ClosedWhenFinalized
<1>3. ASSUME NEW q \in Runs, h'[q].at \in Finalizing PROVE life'.finalized
  <2>1. h[q].at \in Finalizing => life.finalized
    BY <1>2 DEF ClosedWhenFinalized
  <2>2. CASE StartsNext(r)
    BY <1>2, <1>3, <2>2, QuietIs DEF Framed, StartsNext, StartsCall, Finalizing
  <2>3. CASE Calls(r) /\ ~StartsNext(r)
    BY <1>2, <1>3, <2>1, <2>3 DEF Framed, Calls, StartsChild, StartsFirst, StartsCall,
       EndsFirst, EndsAgain, EndsStep, EndsLate, Finalizing, Unregistered
  <2>4. CASE Begins(r)
    BY <1>2, <1>3, <2>1, <2>4 DEF Framed, Begins, LandsFile, LandsLine, Lands, RegistersLater,
       RegistersFirst, Registers, CreatesFile, OpensRun, RecordsStart, Rests, Finalizing
  <2>5. CASE Finishes(r)
    BY <1>2, <1>3, <2>1, <2>5 DEF Framed, Finishes, RecordsEnd, GivesUp, ClosesEnvelope,
       ClosesGroup, ClosesRun, Rests, Completes, Finalizing
  <2> QED BY <1>1, <2>2, <2>3, <2>4, <2>5 DEF Step
<1>4. ASSUME life'.finalized
      PROVE  life'.active = {} /\ \A q \in Runs : phase'[q] # "open"
  <2>1. CASE ClosesEnvelope(r)
    <3>1. life.started /\ life.active = {} /\ life'.active = life.active /\ phase' = phase
      BY <2>1 DEF ClosesEnvelope, canScheduleFinalize, Completes
    <3> QED BY <3>1, NothingOpen
  <2>2. CASE ~ClosesEnvelope(r)
    <3>1. life.finalized
      <4>1. ~StartsNext(r)
        BY <1>4 DEF StartsNext
      <4> QED BY <1>1, <1>4, <2>2, <4>1 DEF Step, Calls, Begins, Finishes, StartsChild, StartsFirst,
           EndsFirst, EndsAgain, EndsStep, EndsLate, LandsFile, LandsLine, Lands, RegistersLater,
           RegistersFirst, Registers, CreatesFile, OpensRun, RecordsStart, RecordsEnd, GivesUp,
           ClosesGroup, ClosesRun
    <3>2. life.active = {} /\ \A q \in Runs : phase[q] # "open"
      BY <1>2, <3>1 DEF ClosedWhenFinalized
    <3>3. life'.active = {}
      BY <1>1, <1>2, <2>2, <3>1, <3>2 DEF Framed, Step, Calls, Begins, Finishes, StartsChild, StartsFirst,
           StartsNext, EndsFirst, EndsAgain, EndsStep, EndsLate, LandsFile, LandsLine, Lands, RegistersLater,
           RegistersFirst, Registers, CreatesFile, OpensRun, RecordsStart, RecordsEnd, GivesUp,
           ClosesGroup, ClosesRun, Starting
    <3>4. ~(StartsChild(r) \/ StartsFirst(r) \/ StartsNext(r))
      <4>1. ~StartsChild(r)
        BY <3>1 DEF StartsChild
      <4>2. ~StartsFirst(r)
        BY <3>1 DEF StartsFirst, Fresh
      <4>3. ~StartsNext(r)
        BY <1>4 DEF StartsNext
      <4> QED BY <4>1, <4>2, <4>3
    <3>5. \A q \in Runs : phase'[q] = "open" => phase[q] = "open"
      BY <1>1, <2>2, <3>4 DEF Step, Calls, Begins, Finishes,
           EndsFirst, EndsAgain, EndsLate, LandsFile, LandsLine, Lands, RegistersLater,
           RegistersFirst, Registers, CreatesFile, OpensRun, RecordsStart, RecordsEnd, GivesUp,
           ClosesGroup, ClosesRun, Rests, Completes, Types
    <3> QED BY <3>2, <3>3, <3>5
  <2> QED BY <2>1, <2>2
<1>5. ASSUME life'.started, life'.active = {}, ~life'.finalized
      PROVE  \E q \in Runs : h'[q].at = "yielded" /\ h'[q].gen = life'.gen
  <2>1. CASE RecordsEnd(r)
    BY <1>5, <2>1 DEF RecordsEnd, canScheduleFinalize
  <2>2. CASE ~RecordsEnd(r)
    <3>1. life' = life
      BY <1>1, <1>5, <2>2 DEF Step, Calls, Begins, Finishes, StartsChild, StartsFirst, StartsNext,
           EndsFirst, EndsAgain, EndsStep, EndsLate, LandsFile, LandsLine, Lands, RegistersLater,
           RegistersFirst, Registers, CreatesFile, OpensRun, RecordsStart, GivesUp, ClosesEnvelope,
           ClosesGroup, ClosesRun
    <3>2. PICK q \in Runs : h[q].at = "yielded" /\ h[q].gen = life.gen
      BY <1>2, <1>5, <3>1 DEF ClosedWhenFinalized
    <3>3. q # r
      <4> SUFFICES ASSUME q = r PROVE FALSE
        OBVIOUS
      <4>1. phase[r] \in {"ended", "gone"} /\ h[r].io = "none" /\ h[r].at = "yielded"
        BY <3>2 DEF Shapes, Shape, Handlers, Ending
      <4>2. canScheduleFinalize(life)
        BY <1>5, <3>1 DEF canScheduleFinalize
      <4>3. CASE Calls(r) \/ Begins(r)
        BY <4>1, <4>3 DEF Calls, Begins, StartsChild, StartsFirst, StartsNext, StartsCall, Starts,
           EndsFirst, EndsAgain, EndsStep, EndsLate, LandsFile, LandsLine, Lands, RegistersLater,
           RegistersFirst, Registers, CreatesFile, OpensRun, RecordsStart, Unregistered
      <4>4. CASE Finishes(r)
        BY <1>5, <2>2, <3>1, <3>2, <4>1, <4>2, <4>4 DEF Finishes, GivesUp, ClosesEnvelope, ClosesGroup,
           ClosesRun
      <4> QED BY <1>1, <4>3, <4>4 DEF Step
    <3> QED BY <1>2, <3>1, <3>2, <3>3 DEF Framed
  <2> QED BY <2>1, <2>2
<1> QED BY <1>3, <1>4, <1>5 DEF ClosedWhenFinalized

\* Every step keeps somebody about to complete an envelope in which nothing is active.
LEMMA CompletionKept ==
  ASSUME IInv, KindsKept, Types'
  PROVE  Completion'
<1> USE DEF IInv
<1>1. PICK r \in Runs : Step(r)
  BY DEF KindsKept
<1>2. Framed(r) /\ runId \in Envelopes /\ h[r].at \in Whereabouts
  BY <1>1, StepIsFramed DEF Types, Framed
<1>3. ClosedWhenFinalized'
  BY FinalizedKept
<1>4. {"run_completed", "step_started"} \subseteq Events
  BY DEF Events
<1>5. CASE LandsLine(r)
  <2>1. PICK n \in Nat : Grows(n, h[r].line)
    BY <1>5, LineLands
  <2>2. /\ runId' = runId /\ life' = life /\ h'[r].at = h[r].at /\ h'[r].io = "landed"
        /\ h[r].at # "creating" /\ h[r].io = "flight" /\ WaitsFor(h[r], runId, r)
    BY <1>5 DEF LandsLine, Lands, Moves
  <2>3. h[r].line.event = "run_completed" => h[r].at = "ending"
    <3>1. h[r].at \notin {"idle", "resolved", "yielded"}
      BY <2>2 DEF Shapes, Shape, Handlers
    <3> QED BY <1>2, <2>2, <3>1 DEF WaitsFor, Whereabouts, Starting, Unregistered, Ending, Finalizing
  <2>4. h[r].at = "ending" => n \in Places(runId, "run_completed")'
    BY <1>2, <1>4, <2>1, <2>2, PlacesGrow DEF WaitsFor
  <2>5. Places(runId, "run_completed") \subseteq Places(runId, "run_completed")'
    BY <1>2, <1>4, <2>1, <2>2, PlacesGrow
  <2>6. Places(runId, "run_completed")' # {} => life.finalized
    <3>1. h[r].at = "ending" => life.finalized
      BY DEF Completion, Finalizing
    <3>2. Places(runId, "run_completed")' # {} =>
             Places(runId, "run_completed") # {} \/ h[r].line.event = "run_completed"
      BY <1>2, <1>4, <2>1, <2>2, PlacesGrow
    <3> QED BY <2>3, <3>1, <3>2 DEF Completion
  <2>7. life.finalized =>
           \/ Places(runId, "run_completed")' # {}
           \/ \E q \in Runs : h'[q].at = "degrouping" \/ (h'[q].at = "ending" /\ h'[q].io = "flight")
    BY <1>2, <2>2, <2>4, <2>5 DEF Completion, Framed
  <2>8. ASSUME NEW e \in Envelopes, NEW i \in Places(e, "run_completed")',
               NEW j \in Places(e, "step_started")'
        PROVE  j < i
    <3>1. i \in Places(e, "run_completed") \/ (e = runId /\ i = n /\ h[r].line.event = "run_completed")
      BY <1>4, <2>1, PlacesGrow
    <3>2. j \in Places(e, "step_started") \/ (e = runId /\ j = n /\ h[r].line.event = "step_started")
      BY <1>4, <2>1, PlacesGrow
    <3>3. CASE i \in Places(e, "run_completed") /\ j \in Places(e, "step_started")
      BY <3>3 DEF Completion
    <3>4. CASE i = n /\ e = runId /\ j \in Places(e, "step_started")
      <4>1. j \in DOMAIN trace[runId]
        BY <3>4 DEF Places
      <4> QED BY <2>1, <3>4, <4>1 DEF Grows
    <3>5. CASE i \in Places(e, "run_completed") /\ e = runId /\ h[r].line.event = "step_started"
      <4>1. life.finalized
        BY <3>5 DEF Completion
      <4>2. phase[r] # "open"
        BY <4>1 DEF Completion
      <4>3. h[r].at \notin Starting
        BY <1>2, <4>2 DEF Framed
      <4>4. h[r].at \notin {"idle", "resolved", "yielded"}
        BY <2>2 DEF Shapes, Shape, Handlers
      <4> QED BY <1>2, <2>2, <3>5, <4>3, <4>4 DEF WaitsFor, Whereabouts, Starting, Unregistered, Ending, Finalizing
    <3> QED BY <3>1, <3>2, <3>3, <3>4, <3>5
  <2> QED BY <1>3, <2>2, <2>6, <2>7, <2>8 DEF Completion, ClosedWhenFinalized
<1>6. CASE StartsNext(r)
  <2>1. trace' = trace /\ runId' = runId + 1 /\ runId' \in Envelopes /\ ~life'.finalized
    BY <1>6 DEF StartsNext, StartsCall, Starts
  <2>2. trace[runId'] = <<>>
    <3>1. runId' > runId
      BY <1>2, <2>1 DEF Envelopes
    <3> QED BY <2>1, <3>1 DEF Files
  <2>3. Places(runId, "run_completed")' = {}
    BY <2>1, <2>2 DEF Places
  <2>4. \A e \in Envelopes : \A i \in Places(e, "run_completed")', j \in Places(e, "step_started")' : j < i
    BY <2>1 DEF Places, Completion
  <2> QED BY <1>3, <2>1, <2>3, <2>4 DEF Completion, ClosedWhenFinalized
<1>7. CASE ~LandsLine(r) /\ ~StartsNext(r)
  <2>1. trace' = trace /\ runId' = runId
    BY <1>1, <1>2, <1>7, TraceStays DEF Framed
  <2>2. \A e, event : Places(e, event)' = Places(e, event)
    BY <2>1, PlacesStay
  <2>3. ASSUME Places(runId, "run_completed") # {} PROVE life'.finalized
    <3>1. life.finalized
      BY <2>3 DEF Completion
    <3> QED BY <1>1, <1>7, <3>1 DEF Step, Calls, Begins, Finishes, StartsChild, StartsFirst,
           EndsFirst, EndsAgain, EndsStep, EndsLate, LandsFile, Lands, RegistersLater,
           RegistersFirst, Registers, CreatesFile, OpensRun, RecordsStart, RecordsEnd, GivesUp,
           ClosesEnvelope, ClosesGroup, ClosesRun
  <2>4. ASSUME life'.finalized
        PROVE  \/ Places(runId, "run_completed") # {}
               \/ \E q \in Runs : h'[q].at = "degrouping" \/ (h'[q].at = "ending" /\ h'[q].io = "flight")
    <3>1. CASE ClosesEnvelope(r) \/ ClosesGroup(r)
      BY <3>1 DEF ClosesEnvelope, ClosesGroup, Completes, Sends, Finalizing
    <3>2. CASE ~(ClosesEnvelope(r) \/ ClosesGroup(r))
      <4>1. life.finalized
        BY <1>1, <1>7, <2>4, <3>2 DEF Step, Calls, Begins, Finishes, StartsChild, StartsFirst,
           EndsFirst, EndsAgain, EndsStep, EndsLate, LandsFile, Lands, RegistersLater,
           RegistersFirst, Registers, CreatesFile, OpensRun, RecordsStart, RecordsEnd, GivesUp, ClosesRun
      <4>2. CASE Places(runId, "run_completed") # {}
        BY <4>2
      <4>3. CASE Places(runId, "run_completed") = {}
        <5>1. PICK q \in Runs : h[q].at = "degrouping" \/ (h[q].at = "ending" /\ h[q].io = "flight")
          BY <4>1, <4>3 DEF Completion
        <5>2. q # r
          BY <1>1, <1>2, <1>7, <3>2, <5>1 DEF Step, Calls, Begins, Finishes, StartsChild, StartsFirst, StartsCall,
             Starts, Framed, Ending, Finalizing,
             EndsFirst, EndsAgain, EndsStep, EndsLate, LandsFile, Lands, RegistersLater,
             RegistersFirst, Registers, CreatesFile, OpensRun, RecordsStart, RecordsEnd, GivesUp, ClosesRun,
             Unregistered
        <5> QED BY <1>2, <5>1, <5>2 DEF Framed
      <4> QED BY <4>2, <4>3
    <3> QED BY <3>1, <3>2
  <2>5. \A e \in Envelopes : \A i \in Places(e, "run_completed")', j \in Places(e, "step_started")' : j < i
    BY <2>2 DEF Completion
  <2> QED BY <1>3, <2>1, <2>2, <2>3, <2>4, <2>5 DEF Completion, ClosedWhenFinalized
<1> QED BY <1>5, <1>6, <1>7

\* Every step keeps one completion per envelope, by one handler.
LEMMA OnceKept ==
  ASSUME IInv, KindsKept, Types'
  PROVE  Once'
<1> USE DEF IInv
<1>1. PICK r \in Runs : Step(r)
  BY DEF KindsKept
<1>2. Framed(r) /\ runId \in Envelopes /\ h[r].at \in Whereabouts
  BY <1>1, StepIsFramed DEF Types, Framed
<1>3. {"run_completed", "run_started"} \subseteq Events
  BY DEF Events
<1>4. ASSUME NEW q \in Runs, h'[q].at \in Finalizing
      PROVE  h[q].at \in Finalizing \/ (ClosesEnvelope(r) /\ q = r)
  BY <1>1, <1>2, <1>4 DEF Framed, Step, Calls, Begins, Finishes, StartsChild, StartsFirst, StartsNext,
           StartsCall, EndsFirst, EndsAgain, EndsStep, EndsLate, LandsFile, LandsLine, Lands, RegistersLater,
           RegistersFirst, Registers, CreatesFile, OpensRun, RecordsStart, RecordsEnd, GivesUp,
           ClosesGroup, ClosesRun, Rests, Completes, Unregistered, Finalizing
<1>5. ClosesEnvelope(r) => /\ \A q \in Runs : h[q].at \notin Finalizing
                           /\ Places(runId, "run_completed") = {} /\ runId' = runId
  BY DEF ClosesEnvelope, canScheduleFinalize, Completion, Completes, Moves
<1>6. \A p, q \in Runs : h'[p].at \in Finalizing /\ h'[q].at \in Finalizing => p = q
  BY <1>4, <1>5 DEF Once
<1>7. CASE LandsLine(r)
  <2>1. PICK n \in Nat : Grows(n, h[r].line)
    BY <1>7, LineLands
  <2>2. /\ runId' = runId /\ h'[r].at = h[r].at /\ h'[r].io = "landed"
        /\ h[r].at # "creating" /\ h[r].io = "flight" /\ WaitsFor(h[r], runId, r)
    BY <1>7 DEF LandsLine, Lands, Moves
  <2>3. h[r].at \notin {"idle", "resolved", "yielded"}
    BY <2>2 DEF Shapes, Shape, Handlers
  <2>4. /\ h[r].line.event = "run_completed" => h[r].at = "ending"
        /\ h[r].line.event = "run_started" => h[r].at = "opening"
    BY <1>2, <2>2, <2>3 DEF WaitsFor, Whereabouts, Starting, Unregistered, Ending, Finalizing
  <2>5. \A e \in Envelopes, event \in Events : \A i \in Places(e, event)' :
           i \in Places(e, event) \/ (e = runId /\ i = n /\ h[r].line.event = event)
    BY <2>1, PlacesGrow
  <2>6. ASSUME NEW p \in Runs, h'[p].at \in Finalizing, ~(h'[p].at = "ending" /\ h'[p].io = "landed")
        PROVE  Places(runId, "run_completed")' = {}
    <3>1. h[p].at \in Finalizing
      BY <1>2, <2>2, <2>6 DEF Framed
    <3>2. h[r].at # "ending"
      <4>1. SUFFICES ASSUME h[r].at = "ending" PROVE FALSE
        OBVIOUS
      <4>2. p = r
        BY <3>1, <4>1 DEF Once, Finalizing
      <4> QED BY <2>2, <2>6, <4>1, <4>2
    <3>3. Places(runId, "run_completed") = {}
      BY <1>2, <2>2, <2>6, <3>1, <3>2 DEF Framed, Once
    <3> QED BY <1>2, <1>3, <2>2, <2>4, <2>5, <3>2, <3>3
  <2>7. ASSUME NEW e \in Envelopes, NEW i \in Places(e, "run_started")' PROVE i = 1
    <3>1. CASE i \in Places(e, "run_started")
      BY <3>1 DEF Once
    <3>2. CASE i = n /\ h[r].line.event = "run_started"
      <4>1. trace[runId] = <<>>
        BY <2>2, <2>4, <3>2 DEF Files
      <4> QED BY <2>1, <3>2, <4>1 DEF Grows
    <3> QED BY <1>3, <2>5, <3>1, <3>2
  <2>8. ASSUME NEW e \in Envelopes, NEW i \in Places(e, "run_completed")', NEW j \in Places(e, "run_completed")'
        PROVE  i = j
    <3>1. CASE h[r].at = "ending"
      <4>1. Places(runId, "run_completed") = {}
        BY <2>2, <3>1 DEF Once, Finalizing
      <4>2. e = runId => i = n /\ j = n
        BY <1>3, <2>5, <4>1
      <4>3. e # runId => i \in Places(e, "run_completed") /\ j \in Places(e, "run_completed")
        BY <1>3, <2>5
      <4> QED BY <4>2, <4>3 DEF Once
    <3>2. CASE h[r].at # "ending"
      <4>1. i \in Places(e, "run_completed") /\ j \in Places(e, "run_completed")
        BY <1>3, <2>4, <2>5, <3>2
      <4> QED BY <4>1 DEF Once
    <3> QED BY <3>1, <3>2
  <2> QED BY <1>6, <2>6, <2>7, <2>8 DEF Once
<1>8. CASE ~LandsLine(r)
  <2>1. \A e, event : Places(e, event)' = Places(e, event)
    BY <1>1, <1>8, TraceStays, PlacesStay
  <2>2. ASSUME NEW p \in Runs, h'[p].at \in Finalizing, ~(h'[p].at = "ending" /\ h'[p].io = "landed")
        PROVE  Places(runId, "run_completed")' = {}
    <3>1. CASE StartsNext(r)
      BY <1>4, <2>2, <3>1, QuietIs DEF StartsNext, StartsCall, ClosesEnvelope, Finalizing
    <3>2. CASE ~StartsNext(r)
      <4>1. runId' = runId
        BY <1>2, <3>2 DEF Framed
      <4>2. CASE ClosesEnvelope(r)
        BY <1>5, <2>1, <4>1, <4>2
      <4>3. CASE ~ClosesEnvelope(r)
        <5>1. h[p].at \in Finalizing
          BY <1>4, <2>2, <4>3
        <5>2. ~(h[p].at = "ending" /\ h[p].io = "landed")
          <6>1. CASE p # r
            BY <1>2, <2>2, <6>1 DEF Framed
          <6>2. CASE p = r
            <7>1. ClosesGroup(r)
              BY <1>1, <1>8, <2>2, <4>3, <5>1, <6>2 DEF Step, Calls, Begins, Finishes, StartsChild,
                 StartsFirst, StartsNext, StartsCall, EndsFirst, EndsAgain, EndsStep, EndsLate, LandsFile,
                 RegistersLater, RegistersFirst, Registers, CreatesFile, OpensRun, RecordsStart,
                 RecordsEnd, GivesUp, ClosesRun, Rests, Unregistered, Finalizing
            <7> QED BY <6>2, <7>1 DEF ClosesGroup
          <6> QED BY <6>1, <6>2
        <5>3. Places(runId, "run_completed") = {}
          BY <5>1, <5>2 DEF Once
        <5> QED BY <2>1, <4>1, <5>3
      <4> QED BY <4>2, <4>3
    <3> QED BY <3>1, <3>2
  <2> QED BY <1>6, <2>1, <2>2 DEF Once
<1> QED BY <1>7, <1>8
---------------------------------------------------------------------------
(* The observed status *)

\* Which lines are failed ends, and which of them the first of their step, is settled when they
\* are written.
LEMMA FailedStay ==
  ASSUME trace' = trace
  PROVE  /\ \A e, j : (Failed(e, j)' <=> Failed(e, j)) /\ (FirstFailed(e, j)' <=> FirstFailed(e, j))
         /\ StatusObserved' <=> StatusObserved
BY DEF Failed, FirstFailed, FirstEnd, StatusObserved, FailedEnds, Places

\* A new line settles whether it is a failed end and the first of its step, and no other line.
LEMMA FailedSettled ==
  ASSUME Types, NEW n, NEW line, Grows(n, line), runId' = runId
  PROVE  /\ \A e \in Envelopes : \A j \in DOMAIN trace[e] :
               /\ Failed(e, j)' <=> Failed(e, j)
               /\ FirstEnd(e, j)' <=> FirstEnd(e, j)
         /\ Failed(runId, n)' <=> (line.event = "step_completed" /\ line.ok = FALSE)
         /\ FirstEnd(runId, n)' <=> ~HasLine(runId, "step_completed", line.step)
<1>1. runId \in Envelopes /\ "step_completed" \in Events
  BY DEF Types, Events
<1>2. \A e \in Envelopes :
         /\ Places(e, "step_completed")' = Places(e, "step_completed")
              \cup (IF e = runId /\ line.event = "step_completed" THEN {n} ELSE {})
         /\ Places(e, "step_completed") \subseteq DOMAIN trace[e]
  BY <1>1, PlacesGrow
<1>3. \A e \in Envelopes : \A i \in DOMAIN trace[e] : trace'[e][i] = trace[e][i]
  BY DEF Grows
<1>4. /\ trace'[runId][n] = line /\ n \notin DOMAIN trace[runId] /\ n \in Nat
      /\ \A i \in DOMAIN trace[runId] : i \in Nat /\ i < n
  BY DEF Grows
<1>5. ASSUME NEW e \in Envelopes, NEW j \in DOMAIN trace[e]
      PROVE  (Failed(e, j)' <=> Failed(e, j)) /\ (FirstEnd(e, j)' <=> FirstEnd(e, j))
  <2>1. e = runId => j # n /\ j < n /\ j \in Nat
    BY <1>4
  <2>2. Failed(e, j)' <=> Failed(e, j)
    BY <1>2, <1>3, <2>1 DEF Failed
  <2>3. FirstEnd(e, j)' <=> FirstEnd(e, j)
    <3>1. ASSUME NEW k \in Places(e, "step_completed")', k < j
          PROVE  k \in Places(e, "step_completed")
      <4>1. e = runId => k # n
        BY <1>4, <2>1, <3>1
      <4> QED BY <1>2, <3>1, <4>1
    <3>2. Places(e, "step_completed") \subseteq Places(e, "step_completed")'
      BY <1>2
    <3>3. \A k \in Places(e, "step_completed") : trace'[e][k] = trace[e][k]
      BY <1>2, <1>3
    <3>4. trace'[e][j] = trace[e][j]
      BY <1>3
    <3> QED BY <3>1, <3>2, <3>3, <3>4 DEF FirstEnd
  <2> QED BY <2>2, <2>3
<1>6. Failed(runId, n)' <=> (line.event = "step_completed" /\ line.ok = FALSE)
  BY <1>1, <1>2, <1>4 DEF Failed
<1>7. FirstEnd(runId, n)' <=> ~HasLine(runId, "step_completed", line.step)
  <2>1. \A k \in Places(runId, "step_completed")' : k < n <=> k \in Places(runId, "step_completed")
    BY <1>1, <1>2, <1>4
  <2>2. \A k \in Places(runId, "step_completed") :
           k \in Places(runId, "step_completed")' /\ trace'[runId][k] = trace[runId][k]
    BY <1>1, <1>2, <1>3
  <2> QED BY <1>4, <2>1, <2>2 DEF FirstEnd, HasLine
<1> QED BY <1>5, <1>6, <1>7

\* The first end of a step finds its run active.
LEMMA ActiveEnd ==
  ASSUME IInv, NEW r \in Runs, h[r].at = "completing",
         ~HasLine(runId, "step_completed", RunStep(r))
  PROVE  r \in life.active
<1>1. stepOf[r] = "run"
  BY DEF IInv, Shapes, Shape, Handlers, Ending
<1> QED BY <1>1 DEF IInv, Status

\* A line that lands keeps what is known of failures.
LEMMA StatusLands ==
  ASSUME IInv, Types', NEW r \in Runs, Step(r), LandsLine(r)
  PROVE  Status'
<1> USE DEF IInv
<1>1. PICK n \in Nat : Grows(n, h[r].line)
  BY LineLands
<1>2. Framed(r) /\ runId \in Envelopes /\ h[r].at \in Whereabouts
  BY StepIsFramed DEF Types, Framed
<1>3. /\ runId' = runId /\ life' = life /\ stepOf' = stepOf
      /\ h'[r].at = h[r].at /\ h'[r].ok = h[r].ok /\ h'[r].io = "landed"
      /\ h[r].at # "creating" /\ h[r].io = "flight" /\ WaitsFor(h[r], runId, r)
  BY DEF LandsLine, Lands, Moves
<1>4. h[r].at \notin {"idle", "resolved", "yielded"}
  BY <1>3 DEF Shapes, Shape, Handlers
<1>5. /\ h[r].line.event = "step_completed" =>
            \/ h[r].at = "completing" /\ h[r].line.step = RunStep(r) /\ h[r].line.ok = h[r].ok
            \/ h[r].line.ok = TRUE
      /\ h[r].line.event = "run_completed" => h[r].at = "ending" /\ h[r].line.ok = h[r].ok
      /\ h[r].at = "completing" => /\ h[r].line.event = "step_completed"
                                   /\ h[r].line.step = RunStep(r) /\ h[r].line.ok = h[r].ok
  BY <1>2, <1>3, <1>4 DEF WaitsFor, Whereabouts, Starting, Unregistered, Ending, Finalizing
<1>6. /\ \A e \in Envelopes : \A j \in DOMAIN trace[e] :
            (Failed(e, j)' <=> Failed(e, j)) /\ (FirstEnd(e, j)' <=> FirstEnd(e, j))
      /\ Failed(runId, n)' <=> (h[r].line.event = "step_completed" /\ h[r].line.ok = FALSE)
      /\ FirstEnd(runId, n)' <=> ~HasLine(runId, "step_completed", h[r].line.step)
  <2> DEFINE line == h[r].line
  <2>1. PICK l : l = line
    OBVIOUS
  <2>2. Grows(n, l)
    BY <1>1, <2>1
  <2>3. /\ \A e \in Envelopes : \A j \in DOMAIN trace[e] :
            (Failed(e, j)' <=> Failed(e, j)) /\ (FirstEnd(e, j)' <=> FirstEnd(e, j))
        /\ Failed(runId, n)' <=> (l.event = "step_completed" /\ l.ok = FALSE)
        /\ FirstEnd(runId, n)' <=> ~HasLine(runId, "step_completed", l.step)
    BY <1>3, <2>2, FailedSettled
  <2> QED BY <2>1, <2>3
<1>7. DOMAIN trace'[runId] = DOMAIN trace[runId] \cup {n} /\ trace'[runId][n] = h[r].line
      /\ \A e \in Envelopes \ {runId} : trace'[e] = trace[e]
      /\ \A i \in DOMAIN trace[runId] : i \in Nat /\ i < n /\ trace'[runId][i] = trace[runId][i]
  BY <1>1 DEF Grows
<1>8. \A e \in Envelopes, event \in Events :
        /\ \A i \in Places(e, event)' :
             i \in Places(e, event) \/ (e = runId /\ i = n /\ h[r].line.event = event)
        /\ \A i \in Places(e, event) : i \in Places(e, event)' /\ i \in DOMAIN trace[e] /\ trace'[e][i] = trace[e][i]
        /\ \A step : HasLine(e, event, step) => HasLine(e, event, step)'
  BY <1>1, PlacesGrow
<1>9. {"step_completed", "run_completed"} \subseteq Events
  BY DEF Events
\* A line that is a first failed end is that of an active run, still noted by its handler.
<1>10. FirstFailed(runId, n)' => r \in life.active /\ h[r].at = "completing" /\ h[r].ok = FALSE
  BY <1>5, <1>6, ActiveEnd DEF FirstFailed
<1>11. \A j \in DOMAIN trace[runId] : FirstFailed(runId, j)' <=> FirstFailed(runId, j)
  BY <1>2, <1>3, <1>6 DEF FirstFailed
<1>12. ASSUME NEW j \in DOMAIN trace'[runId], FirstFailed(runId, j)'
       PROVE  \/ life.failed
              \/ \E q \in life.active : h'[q].at = "completing" /\ h'[q].ok = FALSE
  <2>1. CASE j = n
    BY <1>3, <1>10, <1>12, <2>1
  <2>2. CASE j \in DOMAIN trace[runId]
    <3>1. life.failed \/ \E q \in life.active : h[q].at = "completing" /\ h[q].ok = FALSE
      BY <1>11, <1>12, <2>2 DEF Status
    <3>2. life.active \subseteq Runs
      BY DEF Types, LifeType
    <3> QED BY <1>2, <1>3, <3>1, <3>2 DEF Framed
  <2> QED BY <1>7, <2>1, <2>2
<1>13. \A q \in Runs : stepOf[q] = "run" /\ q \notin life.active =>
          HasLine(runId, "step_completed", RunStep(q))'
  BY <1>2, <1>3, <1>8, <1>9 DEF Status
<1>14. ASSUME NEW q \in Runs, h'[q].at = "completing", h'[q].io = "landed"
       PROVE  \E j \in Places(runId, "step_completed")' :
                 trace'[runId][j].step = RunStep(q) /\ trace'[runId][j].ok = h'[q].ok
  <2>1. CASE q = r
    <3>1. n \in Places(runId, "step_completed")'
      BY <1>3, <1>5, <1>7, <1>14, <2>1 DEF Places
    <3> QED BY <1>3, <1>5, <1>7, <1>14, <2>1, <3>1
  <2>2. CASE q # r
    <3>1. PICK j \in Places(runId, "step_completed") :
             trace[runId][j].step = RunStep(q) /\ trace[runId][j].ok = h'[q].ok
      BY <1>2, <1>14, <2>2 DEF Framed, Status
    <3>2. j \in Places(runId, "step_completed")' /\ trace'[runId][j] = trace[runId][j]
      BY <1>2, <1>3, <1>8, <1>9
    <3> QED BY <3>1, <3>2
  <2> QED BY <2>1, <2>2
<1>15. \A j \in DOMAIN trace[runId] : Failed(runId, j) => j \in DOMAIN trace'[runId] /\ Failed(runId, j)'
  BY <1>2, <1>3, <1>6, <1>7
<1>16. life.failed => \E j \in DOMAIN trace'[runId] : Failed(runId, j)'
  BY <1>15 DEF Status
<1>17. ASSUME NEW p \in Runs, h'[p].at \in Finalizing
       PROVE  IF h'[p].ok THEN \A j \in DOMAIN trace'[runId] : ~FirstFailed(runId, j)'
                          ELSE \E j \in DOMAIN trace'[runId] : Failed(runId, j)'
  <2>1. h[p].at \in Finalizing /\ h'[p].ok = h[p].ok
    BY <1>2, <1>3, <1>17 DEF Framed
  <2>2. life.active = {}
    BY <2>1 DEF Completion
  <2>3. IF h[p].ok THEN \A j \in DOMAIN trace[runId] : ~FirstFailed(runId, j)
                   ELSE \E j \in DOMAIN trace[runId] : Failed(runId, j)
    BY <2>1 DEF Status
  <2> QED BY <1>7, <1>10, <1>11, <1>15, <2>1, <2>2, <2>3
<1>18. StatusObserved'
  <2> SUFFICES ASSUME NEW e \in Envelopes, NEW i \in Places(e, "run_completed")'
               PROVE  IF trace'[e][i].ok
                        THEN \A j \in FailedEnds(e, i)' : ~FirstEnd(e, j)'
                        ELSE FailedEnds(e, i)' # {}
    BY DEF StatusObserved
  <2>1. CASE i \in Places(e, "run_completed")
    <3>1. trace'[e][i] = trace[e][i] /\ i \in DOMAIN trace[e] /\ (e = runId => i < n /\ i \in Nat)
      <4>1. i \in DOMAIN trace[e] /\ trace'[e][i] = trace[e][i]
        BY <1>8, <1>9, <2>1
      <4>2. \A x \in DOMAIN trace[runId] : x \in Nat /\ x < n
        BY <1>1 DEF Grows
      <4> QED BY <4>1, <4>2
    <3>2. \A j : j \in FailedEnds(e, i)' <=> j \in FailedEnds(e, i)
      <4>1. ASSUME NEW j \in Places(e, "step_completed")', j < i
            PROVE  j \in Places(e, "step_completed")
        <5>1. e = runId => j # n
          BY <1>1, <3>1, <4>1
        <5> QED BY <1>8, <1>9, <4>1, <5>1
      <4>2. \A j \in Places(e, "step_completed") : j \in Places(e, "step_completed")' /\ trace'[e][j] = trace[e][j]
        BY <1>8, <1>9
      <4> QED BY <4>1, <4>2 DEF FailedEnds
    <3>3. \A j \in FailedEnds(e, i) : FirstEnd(e, j)' <=> FirstEnd(e, j)
      <4>1. FailedEnds(e, i) \subseteq DOMAIN trace[e]
        BY DEF FailedEnds, Places
      <4> QED BY <1>6, <4>1
    <3>4. IF trace[e][i].ok THEN \A j \in FailedEnds(e, i) : ~FirstEnd(e, j)
                            ELSE FailedEnds(e, i) # {}
      BY <2>1 DEF Status, StatusObserved
    <3> QED BY <3>1, <3>2, <3>3, <3>4
  <2>2. CASE e = runId /\ i = n /\ h[r].line.event = "run_completed"
    <3>1. h[r].at = "ending" /\ h[r].line.ok = h[r].ok /\ trace'[e][i].ok = h[r].ok
      BY <1>5, <1>7, <2>2
    <3>2. IF h[r].ok THEN \A j \in DOMAIN trace[runId] : ~FirstFailed(runId, j)
                     ELSE \E j \in DOMAIN trace[runId] : Failed(runId, j)
      BY <3>1 DEF Status, Finalizing
    <3>3. h[r].ok \in BOOLEAN
      BY FieldsAre DEF Types, Handlers
    <3>4. ASSUME NEW j \in FailedEnds(e, i)'
          PROVE  j \in DOMAIN trace[runId] /\ Failed(runId, j)
      <4>1. j \in Places(runId, "step_completed")' /\ j < n /\ ~trace'[runId][j].ok
        BY <2>2, <3>4, <1>3 DEF FailedEnds
      <4>2. j # n
        BY <1>1, <4>1
      <4>3. j \in Places(runId, "step_completed") /\ trace'[runId][j] = trace[runId][j] /\ j \in DOMAIN trace[runId]
        BY <1>2, <1>3, <1>8, <1>9, <4>1, <4>2
      <4>4. trace[runId][j].ok \in BOOLEAN
        <5>1. trace[runId][j] \in LineType
          BY <1>2, <4>3 DEF Types
        <5> QED BY <5>1 DEF LineType
      <4> QED BY <4>1, <4>3, <4>4 DEF Failed
    <3>5. ASSUME NEW j \in DOMAIN trace[runId], Failed(runId, j)
          PROVE  j \in FailedEnds(e, i)'
      <4>0. j < n
        BY <1>1 DEF Grows
      <4>1. j \in Places(runId, "step_completed") /\ trace[runId][j].ok = FALSE /\ j < n
        BY <3>5, <4>0 DEF Failed
      <4>2. j \in Places(runId, "step_completed")' /\ trace'[runId][j] = trace[runId][j]
        BY <1>2, <1>3, <1>8, <1>9, <4>1
      <4> QED BY <1>3, <2>2, <4>1, <4>2 DEF FailedEnds
    <3>6. ASSUME NEW j \in DOMAIN trace[runId] PROVE FirstEnd(e, j)' <=> FirstEnd(runId, j)
      BY <1>2, <1>6, <2>2
    <3>7. CASE h[r].ok = TRUE
      BY <3>1, <3>2, <3>4, <3>6, <3>7 DEF FirstFailed
    <3>8. CASE h[r].ok = FALSE
      BY <3>1, <3>2, <3>5, <3>8
    <3> QED BY <3>3, <3>7, <3>8
  <2> QED BY <1>8, <1>9, <2>1, <2>2
<1> QED BY <1>3, <1>12, <1>13, <1>14, <1>16, <1>17, <1>18 DEF Status

\* Every step keeps the failures noted in agreement with the failed ends in the file.
LEMMA StatusKept ==
  ASSUME IInv, KindsKept, Types'
  PROVE  Status'
<1> USE DEF IInv
<1>1. PICK r \in Runs : Step(r)
  BY DEF KindsKept
<1>2. Framed(r) /\ runId \in Envelopes /\ life.active \subseteq Runs
  BY <1>1, StepIsFramed DEF Types, LifeType
<1>3. CASE LandsLine(r)
  BY <1>1, <1>3, StatusLands
<1>4. CASE StartsNext(r)
  <2>1. /\ trace' = trace /\ runId' = runId + 1 /\ runId' \in Envelopes /\ ~life'.failed
        /\ stepOf' = [q \in Runs |-> "none"] /\ h'[r].at = "resolved"
        /\ \A q \in Runs : h[q].at = "idle"
    BY <1>4, QuietIs DEF StartsNext, StartsCall, Starts
  <2>2. trace[runId'] = <<>>
    <3>1. runId' > runId
      BY <1>2, <2>1 DEF Envelopes
    <3> QED BY <2>1, <3>1 DEF Files
  <2>3. \A q \in Runs : h'[q].at \in {"idle", "resolved"}
    BY <1>2, <2>1 DEF Framed
  <2>4. StatusObserved'
    BY <2>1, FailedStay DEF Status
  <2>5. DOMAIN trace'[runId'] = {}
    BY <2>1, <2>2
  <2> QED BY <2>1, <2>3, <2>4, <2>5 DEF Status, Finalizing
<1>5. CASE ~LandsLine(r) /\ ~StartsNext(r)
  <2>1. trace' = trace /\ runId' = runId
    BY <1>1, <1>2, <1>5, TraceStays DEF Framed
  <2>2. /\ \A e, j : (Failed(e, j)' <=> Failed(e, j)) /\ (FirstFailed(e, j)' <=> FirstFailed(e, j))
        /\ StatusObserved'
        /\ \A e, event : Places(e, event)' = Places(e, event)
        /\ \A e, event, step : HasLine(e, event, step)' <=> HasLine(e, event, step)
    BY <2>1, FailedStay, PlacesStay DEF Status
  <2>3. CASE RecordsEnd(r)
    <3>1. /\ h[r].at = "completing" /\ h[r].io = "landed" /\ stepOf' = stepOf
          /\ life'.active = life.active \ {r} /\ (life'.failed <=> (life.failed \/ h[r].ok = FALSE))
          /\ h'[r].at \in {"idle", "yielded"}
      BY <2>3 DEF RecordsEnd
    <3>2. PICK j \in Places(runId, "step_completed") :
             trace[runId][j].step = RunStep(r) /\ trace[runId][j].ok = h[r].ok
      BY <3>1 DEF Status
    <3>3. j \in DOMAIN trace[runId] /\ (h[r].ok = FALSE => Failed(runId, j))
      BY <3>2 DEF Failed, Places
    <3>4. HasLine(runId, "step_completed", RunStep(r))
      BY <3>2 DEF HasLine
    <3>5. \A k \in DOMAIN trace[runId] : FirstFailed(runId, k) =>
             \/ life'.failed
             \/ \E q \in life'.active : h'[q].at = "completing" /\ h'[q].ok = FALSE
      BY <1>2, <3>1 DEF Status, Framed
    <3>6. \A q \in Runs : stepOf'[q] = "run" /\ q \notin life'.active => HasLine(runId, "step_completed", RunStep(q))
      BY <3>1, <3>4 DEF Status
    <3>7. \A q \in Runs : h'[q].at = "completing" /\ h'[q].io = "landed" =>
             \E k \in Places(runId, "step_completed") :
                trace[runId][k].step = RunStep(q) /\ trace[runId][k].ok = h'[q].ok
      BY <1>2, <3>1 DEF Status, Framed
    <3>8. life'.failed => \E k \in DOMAIN trace[runId] : Failed(runId, k)
      BY <3>1, <3>3 DEF Status
    <3>9. \A p \in Runs : h'[p].at \in Finalizing =>
             IF h'[p].ok THEN \A k \in DOMAIN trace[runId] : ~FirstFailed(runId, k)
                         ELSE \E k \in DOMAIN trace[runId] : Failed(runId, k)
      BY <1>2, <3>1 DEF Status, Framed, Finalizing
    <3> QED BY <2>1, <2>2, <3>5, <3>6, <3>7, <3>8, <3>9 DEF Status
  <2>4. CASE ~RecordsEnd(r)
    <3>1. /\ life.active \subseteq life'.active
          /\ life'.failed <=> life.failed
      BY <1>1, <1>5, <2>4 DEF Step, Calls, Begins, Finishes, StartsChild, StartsFirst,
           EndsFirst, EndsAgain, EndsStep, EndsLate, LandsFile, Lands, RegistersLater,
           RegistersFirst, Registers, CreatesFile, OpensRun, RecordsStart, GivesUp,
           ClosesEnvelope, ClosesGroup, ClosesRun
    <3>2. \A q \in Runs : h[q].at = "completing" => h'[q] = h[q]
      <4>1. h[r].at # "completing"
        <5>1. SUFFICES ASSUME h[r].at = "completing" PROVE FALSE
          OBVIOUS
        <5>2. phase[r] \in {"ended", "gone"}
          BY <1>2, <5>1 DEF Framed, Ending
        <5> QED BY <1>1, <1>5, <2>4, <5>1, <5>2 DEF Step, Calls, Begins, Finishes, StartsChild, StartsFirst,
           StartsCall, Starts, EndsFirst, EndsAgain, EndsStep, EndsLate, LandsFile, RegistersLater,
           RegistersFirst, Registers, CreatesFile, OpensRun, RecordsStart, GivesUp,
           ClosesEnvelope, ClosesGroup, ClosesRun, Unregistered
      <4> QED BY <1>2, <4>1 DEF Framed
    <3>3. \A q \in Runs : h'[q].at = "completing" /\ h'[q].io = "landed" => h[q].at = "completing" /\ h'[q] = h[q]
      <4>1. ~(h'[r].at = "completing" /\ h'[r].io = "landed")
        BY <1>1, <1>5, <2>4 DEF Step, Calls, Begins, Finishes, StartsChild, StartsFirst, StartsCall, Sends,
           EndsFirst, EndsAgain, EndsStep, LandsFile, Lands, RegistersLater,
           RegistersFirst, Registers, CreatesFile, OpensRun, RecordsStart, GivesUp, Rests, Completes, Finalizing,
           ClosesEnvelope, ClosesGroup, ClosesRun, EndsLate
      <4> QED BY <1>2, <4>1 DEF Framed
    <3>4. \A q \in Runs : stepOf'[q] = "run" /\ q \notin life'.active => stepOf[q] = "run" /\ q \notin life.active
      <4>1. ASSUME stepOf'[r] = "run", r \notin life'.active PROVE stepOf[r] = "run"
        <5>1. h[r].at = "opening" => r \in life.active
          <6>1. h[r].at = "opening" => phase[r] = "open" /\ h[r].at \notin Unregistered
            BY <1>2 DEF Framed, Starting, Unregistered
          <6> QED BY <6>1 DEF Bookkeeping
        <5> QED BY <1>1, <1>5, <2>4, <3>1, <4>1, <5>1 DEF Step, Calls, Begins, Finishes, StartsChild, StartsFirst,
           EndsFirst, EndsAgain, EndsStep, EndsLate, LandsFile, Lands, RegistersLater,
           RegistersFirst, Registers, CreatesFile, OpensRun, RecordsStart, GivesUp, Rests, Completes,
           ClosesEnvelope, ClosesGroup, ClosesRun
      <4> QED BY <1>2, <1>5, <3>1, <4>1 DEF Framed
    <3>5. ASSUME NEW p \in Runs, h'[p].at \in Finalizing
          PROVE  IF h'[p].ok THEN \A k \in DOMAIN trace[runId] : ~FirstFailed(runId, k)
                             ELSE \E k \in DOMAIN trace[runId] : Failed(runId, k)
      <4>1. CASE ClosesEnvelope(r) /\ p = r
        <5>1. (h'[p].ok <=> ~life.failed) /\ life.active = {}
          BY <4>1 DEF ClosesEnvelope, canScheduleFinalize
        <5> QED BY <5>1 DEF Status
      <4>2. CASE ~(ClosesEnvelope(r) /\ p = r)
        <5>1. h[p].at \in Finalizing /\ h'[p].ok = h[p].ok
          <6>1. CASE p # r
            BY <1>2, <3>5, <6>1 DEF Framed
          <6>2. CASE p = r
            BY <1>1, <1>5, <2>4, <3>5, <4>2, <6>2 DEF Step, Calls, Begins, Finishes, StartsChild, StartsFirst,
               StartsCall, EndsFirst, EndsAgain, EndsStep, EndsLate, LandsFile, Lands, RegistersLater,
               RegistersFirst, Registers, CreatesFile, OpensRun, RecordsStart, GivesUp, Rests, Completes,
               ClosesGroup, ClosesRun, Finalizing, Unregistered
          <6> QED BY <6>1, <6>2
        <5> QED BY <5>1 DEF Status
      <4> QED BY <4>1, <4>2
    <3>6. \A k \in DOMAIN trace[runId] : FirstFailed(runId, k) =>
             \/ life'.failed
             \/ \E q \in life'.active : h'[q].at = "completing" /\ h'[q].ok = FALSE
      BY <1>2, <3>1, <3>2 DEF Status
    <3>7. \A q \in Runs : stepOf'[q] = "run" /\ q \notin life'.active => HasLine(runId, "step_completed", RunStep(q))
      BY <3>4 DEF Status
    <3>8. \A q \in Runs : h'[q].at = "completing" /\ h'[q].io = "landed" =>
             \E k \in Places(runId, "step_completed") :
                trace[runId][k].step = RunStep(q) /\ trace[runId][k].ok = h'[q].ok
      BY <3>3 DEF Status
    <3>9. life'.failed => \E k \in DOMAIN trace[runId] : Failed(runId, k)
      BY <3>1 DEF Status
    <3> QED BY <2>1, <2>2, <3>5, <3>6, <3>7, <3>8, <3>9 DEF Status
  <2> QED BY <2>3, <2>4
<1> QED BY <1>3, <1>4, <1>5
---------------------------------------------------------------------------
(* Calls and envelopes *)

\* The lines a handler writes are of its own run, of a group or of no step.
LEMMA LineIsOwn ==
  ASSUME IInv, NEW r \in Runs, LandsLine(r), NEW q \in Runs, IsStep(h[r].line, q)
  PROVE  q = r /\ h[r].at # "idle"
<1> USE DEF IInv
<1>1. h[r].io = "flight" /\ WaitsFor(h[r], runId, r) /\ h[r].at # "creating"
  BY DEF LandsLine, Lands
<1>2. h[r].at \notin {"idle", "resolved", "yielded"} /\ h[r].at \in Whereabouts
  BY <1>1, FieldsAre DEF Shapes, Shape, Handlers, Types
<1>3. h[r].line.step # None /\ h[r].line.step = RunStep(q) /\ RunStep(q) \notin GroupSteps
  BY StepsAre DEF IsStep
<1>4. h[r].line.step = RunStep(r)
  BY <1>1, <1>2, <1>3 DEF WaitsFor, Whereabouts, Starting, Unregistered, Ending, Finalizing
<1> QED BY <1>2, <1>3, <1>4, StepsAre

\* A step on behalf of r finds r at work in the call of the envelope, unless r starts that call.
LEMMA StepIsOwned ==
  ASSUME IInv, Types', NEW r \in Runs, Step(r), ~StartsFirst(r), ~StartsNext(r),
         NEW c \in Runs \cup {None}, Belongs(c),
         phase'[r] = "open" \/ h'[r].at # "idle" \/ stepOf'[r] = "run"
  PROVE  RootOf[r] = c
<1>1. CASE StartsChild(r)
  <2>1. Parent[r] \in Runs /\ phase[Parent[r]] = "open" /\ Parent[r] # None
    BY <1>1, LangChainAssumption DEF StartsChild
  <2>2. RootOf[r] = RootOf[Parent[r]]
    BY <2>1, RootIs DEF IsRoot
  <2> QED BY <2>1, <2>2 DEF Belongs
<1>2. CASE ~StartsChild(r)
  <2>1. phase[r] = "open" \/ h[r].at # "idle" \/ stepOf[r] = "run"
    <3>1. CASE EndsLate(r)
      BY <3>1 DEF EndsLate
    <3>2. CASE EndsFirst(r) \/ EndsAgain(r)
      BY <3>2 DEF EndsFirst, EndsAgain, EndsStep
    <3>3. CASE LandsFile(r) \/ LandsLine(r)
      <4>1. h[r].io = "flight"
        BY <3>3 DEF LandsFile, LandsLine, Lands
      <4> QED BY <4>1 DEF IInv, Shapes, Shape, Handlers
    <3>4. CASE Begins(r) /\ ~LandsFile(r) /\ ~LandsLine(r)
      BY <3>4 DEF Begins, RegistersLater, RegistersFirst, Registers, CreatesFile, OpensRun,
        RecordsStart, Unregistered
    <3>5. CASE Finishes(r)
      BY <3>5 DEF Finishes, RecordsEnd, GivesUp, ClosesEnvelope, ClosesGroup, ClosesRun
    <3> QED BY <1>2, <3>1, <3>2, <3>3, <3>4, <3>5 DEF Step, Calls
  <2> QED BY <2>1 DEF Belongs
<1> QED BY <1>1, <1>2

\* A run that the framework started stays started.
LEMMA StaysStarted ==
  ASSUME IInv, Types', NEW r \in Runs, Step(r), NEW q \in Runs, phase[q] # "new"
  PROVE  phase'[q] # "new"
<1>1. CASE q # r
  BY <1>1, StepIsFramed DEF Framed
<1>2. CASE Calls(r) /\ q = r
  BY <1>2 DEF Calls, StartsChild, StartsFirst, StartsNext, StartsCall, Starts, EndsFirst, EndsAgain,
    EndsLate, IInv, Types
<1>3. CASE Begins(r) \/ Finishes(r)
  BY <1>3 DEF Begins, Finishes, LandsFile, LandsLine, Lands, RegistersLater, RegistersFirst, Registers,
    CreatesFile, OpensRun, RecordsStart, RecordsEnd, GivesUp, ClosesEnvelope, ClosesGroup,
    ClosesRun, Rests, Completes
<1> QED BY <1>1, <1>2, <1>3 DEF Step

\* The first run of a call takes over an envelope no other call has a line in.
LEMMA CallTakesOver ==
  ASSUME IInv, Types', NEW r \in Runs, StartsCall(r), Step(r), trace'[runId'] = <<>>,
         \A q \in Runs : stepOf'[q] = "none",
         NEW c \in Runs \cup {None}, Belongs(c)
  PROVE  Belongs(r)'
<1>1. /\ phase[r] = "new" /\ phase'[r] = "open" /\ Parent[r] = None /\ trace' = trace
      /\ \A q \in Runs : h[q].at = "idle" /\ phase[q] # "open"
  BY QuietIs DEF StartsCall, Starts, IInv, Types
<1>2. RootOf[r] = r /\ RootOf \in [Runs -> Runs]
  BY <1>1, RootIs DEF IsRoot
<1>3. ASSUME NEW q \in Runs, phase'[q] = "open" \/ h'[q].at # "idle" \/ stepOf'[q] = "run"
      PROVE  RootOf[q] = r
  <2>1. q = r
    BY <1>1, <1>3, StepIsFramed DEF Framed
  <2> QED BY <1>2, <2>1
<1>4. ASSUME NEW e \in Envelopes \ {runId'}, NEW i \in DOMAIN trace[e], NEW q \in Runs,
             IsStep(trace[e][i], q)
      PROVE  RootOf[q] # r /\ phase'[RootOf[q]] # "new"
  <2>1. phase[RootOf[q]] # "new"
    BY <1>2, <1>4 DEF Belongs
  <2> QED BY <1>1, <1>2, <2>1, StaysStarted
<1>5. DOMAIN trace'[runId'] = {}
  OBVIOUS
<1> QED BY <1>1, <1>3, <1>4, <1>5 DEF Belongs, IsStep

\* A step that starts no call leaves the current envelope to the call it belongs to.
LEMMA BelongsKept ==
  ASSUME IInv, Types', NEW r \in Runs, Step(r), ~StartsFirst(r), ~StartsNext(r),
         NEW c \in Runs \cup {None}, Belongs(c)
  PROVE  Belongs(c)'
<1>1. Framed(r) /\ runId' = runId /\ runId \in Envelopes /\ RootOf \in [Runs -> Runs]
  BY StepIsFramed, RootIs DEF Framed, IInv, Types
<1>2. c \in Runs => phase'[c] # "new"
  BY StaysStarted DEF Belongs
<1>3. \A q \in Runs : phase'[q] = "open" \/ h'[q].at # "idle" \/ stepOf'[q] = "run" => RootOf[q] = c
  BY <1>1, StepIsOwned DEF Belongs, Framed
<1>4. CASE LandsLine(r)
  <2>1. PICK n \in Nat : Grows(n, h[r].line)
    BY <1>4, LineLands DEF IInv
  <2>2. ASSUME NEW i \in DOMAIN trace'[runId], NEW q \in Runs, IsStep(trace'[runId][i], q)
        PROVE  RootOf[q] = c
    <3>1. CASE i \in DOMAIN trace[runId]
      <4>1. trace'[runId][i] = trace[runId][i]
        BY <2>1, <3>1 DEF Grows
      <4> QED BY <2>2, <3>1, <4>1 DEF Belongs
    <3>2. CASE i = n
      <4>1. q = r /\ h[r].at # "idle"
        BY <1>4, <2>1, <2>2, <3>2, LineIsOwn DEF Grows
      <4> QED BY <4>1 DEF Belongs
    <3> QED BY <2>1, <3>1, <3>2 DEF Grows
  <2>3. ASSUME NEW e \in Envelopes \ {runId}, NEW i \in DOMAIN trace'[e], NEW q \in Runs,
               IsStep(trace'[e][i], q)
        PROVE  RootOf[q] # c /\ phase'[RootOf[q]] # "new"
    <3>1. trace'[e] = trace[e]
      BY <2>1 DEF Grows
    <3>2. RootOf[q] # c /\ phase[RootOf[q]] # "new"
      BY <2>3, <3>1 DEF Belongs
    <3> QED BY <1>1, <3>2, StaysStarted
  <2> QED BY <1>1, <1>2, <1>3, <2>2, <2>3 DEF Belongs, IsStep
<1>5. CASE ~LandsLine(r)
  <2>1. trace' = trace
    BY <1>5, TraceStays
  <2>2. \A i \in DOMAIN trace[runId] : \A q \in Runs : IsStep(trace[runId][i], q) => RootOf[q] = c
    BY DEF Belongs
  <2>3. ASSUME NEW e \in Envelopes \ {runId}, NEW i \in DOMAIN trace[e], NEW q \in Runs,
               IsStep(trace[e][i], q)
        PROVE  RootOf[q] # c /\ phase'[RootOf[q]] # "new"
    <3>1. RootOf[q] # c /\ phase[RootOf[q]] # "new"
      BY <2>3 DEF Belongs
    <3> QED BY <1>1, <3>1, StaysStarted
  <2> QED BY <1>1, <1>2, <1>3, <2>1, <2>2, <2>3 DEF Belongs, IsStep
<1> QED BY <1>4, <1>5

\* Every step keeps the current envelope that of one call.
LEMMA OwnedKept ==
  ASSUME IInv, KindsKept, Types'
  PROVE  Owned'
<1>1. PICK r \in Runs : Step(r)
  BY DEF KindsKept
<1>2. PICK c \in Runs \cup {None} : Belongs(c)
  BY DEF IInv, Owned
<1>3. CASE StartsFirst(r)
  <2>1. trace'[runId'] = <<>> /\ \A q \in Runs : stepOf'[q] = "none"
    BY <1>3 DEF StartsFirst, StartsCall, Starts, IInv, Fresh
  <2>2. Belongs(r)'
    BY <1>1, <1>2, <1>3, <2>1, CallTakesOver DEF StartsFirst
  <2> QED BY <2>2 DEF Owned
<1>4. CASE StartsNext(r)
  <2>1. /\ trace' = trace /\ runId' = runId + 1 /\ runId' \in Envelopes
        /\ \A q \in Runs : stepOf'[q] = "none"
    BY <1>4 DEF StartsNext, StartsCall, Starts
  <2>2. runId' > runId
    BY <2>1 DEF Envelopes, IInv, Types
  <2>3. trace'[runId'] = <<>>
    BY <2>1, <2>2 DEF IInv, Files
  <2>4. Belongs(r)'
    BY <1>1, <1>2, <1>4, <2>1, <2>3, CallTakesOver DEF StartsNext
  <2> QED BY <2>4 DEF Owned
<1>5. CASE ~StartsFirst(r) /\ ~StartsNext(r)
  BY <1>1, <1>2, <1>5, BelongsKept DEF Owned
<1> QED BY <1>3, <1>4, <1>5

\* Every step keeps the files of different calls apart.
LEMMA ApartKept ==
  ASSUME IInv, KindsKept, Types', Owned'
  PROVE  Apart'
<1>1. PICK r \in Runs : Step(r)
  BY DEF KindsKept
<1>2. Apart
  BY DEF IInv
<1>3. CASE LandsLine(r)
  <2>1. PICK n \in Nat : Grows(n, h[r].line)
    BY <1>3, LineLands DEF IInv
  <2>2. runId' = runId
    BY <1>3 DEF LandsLine, Lands, Moves
  <2>3. PICK c \in Runs \cup {None} : Belongs(c)'
    BY DEF Owned
  <2>4. \A i \in DOMAIN trace'[runId] : \A q \in Runs : IsStep(trace'[runId][i], q) => RootOf[q] = c
    BY <2>2, <2>3 DEF Belongs, IsStep
  <2>5. \A e \in Envelopes \ {runId} : \A i \in DOMAIN trace'[e] : \A q \in Runs :
          IsStep(trace'[e][i], q) => RootOf[q] # c
    BY <2>2, <2>3 DEF Belongs, IsStep
  <2>6. \A e \in Envelopes \ {runId} : trace'[e] = trace[e]
    BY <2>1 DEF Grows
  <2>7. ASSUME NEW e \in Envelopes, NEW f \in Envelopes,
               NEW i \in DOMAIN trace'[e], NEW j \in DOMAIN trace'[f], NEW p \in Runs, NEW q \in Runs,
               IsStep(trace'[e][i], p), IsStep(trace'[f][j], q)
        PROVE  e = f <=> RootOf[p] = RootOf[q]
    <3>1. CASE e = runId \/ f = runId
      BY <2>4, <2>5, <2>7, <3>1
    <3>2. CASE e # runId /\ f # runId
      BY <1>2, <2>6, <2>7, <3>2 DEF Apart
    <3> QED BY <3>1, <3>2
  <2> QED BY <2>7 DEF Apart, IsStep
<1>4. CASE ~LandsLine(r)
  BY <1>1, <1>2, <1>4, TraceStays DEF Apart, IsStep
<1> QED BY <1>3, <1>4
---------------------------------------------------------------------------
(* The invariant is inductive *)

\* The invariant holds before the first callback.
LEMMA InitInv == Init => IInv
<1> SUFFICES ASSUME Init PROVE IInv
  OBVIOUS
<1>1. /\ \A r \in Runs : phase[r] = "new" /\ stepOf[r] = "none"
      /\ \A p \in Handlers : h[p].at = "idle" /\ h[p].io = "none"
      /\ runId = 1 /\ 1 \in Envelopes /\ \A e \in Envelopes : trace[e] = <<>>
      /\ life.active = {} /\ ~life.started /\ ~life.failed /\ ~life.finalized
      /\ \A l \in Labels : siblings[l] = 0
  BY IdleIs, LangChainAssumption DEF Init, Envelopes, createInvocationState
<1>2. Types
  <2>1. life \in LifeType
    BY DEF Init, createInvocationState, LifeType
  <2>2. trace \in [Envelopes -> Seq(LineType)] /\ h \in [Handlers -> HandlerType]
    BY IdleIs DEF Init
  <2> QED BY <1>1, <2>1, <2>2 DEF Init, Types
<1>3. Shapes /\ Bookkeeping /\ Nesting /\ Fresh
  BY <1>1 DEF Shapes, Shape, Bookkeeping, Nesting, Fresh, Handlers, Starting, Ending, Unregistered,
    Finalizing
<1>4. \A e \in Envelopes : DOMAIN trace[e] = {} /\ \A event : Places(e, event) = {}
  BY <1>1 DEF Places
<1>5. Files /\ Recorded /\ Completion /\ Once
  BY <1>1, <1>4 DEF Files, Recorded, Completion, Once, Handlers, Finalizing
<1>6. Status
  BY <1>1, <1>4 DEF Status, StatusObserved, Handlers, Finalizing
<1>7. Belongs(None)
  BY <1>1, <1>4, LangChainAssumption DEF Belongs, Handlers
<1> QED BY <1>2, <1>3, <1>4, <1>5, <1>6, <1>7 DEF IInv, Owned, Apart

\* A stutter keeps the invariant.
LEMMA StutterKeeps ==
  ASSUME IInv, UNCHANGED vars
  PROVE  IInv'
<1> USE DEF IInv
<1>1. /\ phase' = phase /\ runId' = runId /\ life' = life /\ stepOf' = stepOf
      /\ siblings' = siblings /\ late' = late /\ h' = h /\ trace' = trace
      /\ finalizes' = finalizes
  BY DEF vars
<1>2. \A e, event : Places(e, event)' = Places(e, event)
  BY <1>1, PlacesStay
<1>3. \A e, event, step : HasLine(e, event, step)' <=> HasLine(e, event, step)
  BY <1>1, PlacesStay
<1>4. Types' /\ Shapes' /\ Bookkeeping' /\ Nesting' /\ Fresh'
  BY <1>1 DEF Types, Shapes, Shape, WaitsFor, Bookkeeping, Nesting, Fresh
<1>5. Files' /\ Recorded'
  BY <1>1, <1>3 DEF Files, Recorded
<1>6. Completion' /\ Once'
  BY <1>1, <1>2 DEF Completion, Once
<1>7. Status'
  <2>1. /\ \A e, j : (Failed(e, j)' <=> Failed(e, j)) /\ (FirstFailed(e, j)' <=> FirstFailed(e, j))
        /\ StatusObserved' <=> StatusObserved
    BY <1>1, FailedStay
  <2> QED BY <1>1, <1>2, <1>3, <2>1 DEF Status
<1>8. Owned' /\ Apart'
  BY <1>1 DEF Owned, Belongs, IsStep, Apart
<1> QED BY <1>4, <1>5, <1>6, <1>7, <1>8

\* Every step of an application that makes one call after another keeps the invariant.
LEMMA StepKeeps ==
  ASSUME OneCallAtATime, IInv, Next
  PROVE  IInv'
<1>1. KindsKept
  BY StepKinds
<1>2. Types'
  BY <1>1, TypesKept DEF IInv
<1>3. Shapes' /\ Bookkeeping' /\ Nesting' /\ Fresh'
  BY <1>1, <1>2, ShapesKept, BookkeepingKept, NestingKept, FreshKept
<1>4. Files' /\ Recorded' /\ Completion' /\ Once'
  BY <1>1, <1>2, FilesKept, RecordedKept, CompletionKept, OnceKept
<1>5. Status' /\ Owned'
  BY <1>1, <1>2, StatusKept, OwnedKept
<1>6. Apart'
  BY <1>1, <1>2, <1>5, ApartKept
<1> QED BY <1>2, <1>3, <1>4, <1>5, <1>6 DEF IInv

\* The invariant holds throughout.
LEMMA EnvelopeInductive ==
  ASSUME OneCallAtATime
  PROVE  Spec => []IInv
<1>1. IInv /\ [Next]_vars => IInv'
  BY StepKeeps, StutterKeeps
<1> QED
  BY <1>1, InitInv, PTL DEF Spec
---------------------------------------------------------------------------
(* What it gives *)

\* Every variable has its type.
THEOREM EnvelopeTypes ==
  ASSUME OneCallAtATime
  PROVE  Spec => []TypeOK
<1>1. IInv => TypeOK
  <2> SUFFICES ASSUME IInv PROVE TypeOK
    OBVIOUS
  <2>1. finalizes \in 0..MaxFinalizes
    BY LangChainAssumption DEF IInv, Types
  <2>2. HandlerType \subseteq
          [at : {"idle", "resolved", "grouping", "creating", "opening",
                 "starting", "completing", "yielded", "degrouping", "ending"},
           mode : {"none", "start", "instant", "end"}, ok : BOOLEAN,
           env : 0..MaxEnvelopes, gen : Nat, closed : SUBSET (Labels \X Envelopes),
           io : {"none", "flight", "landed"}, line : LineType]
    BY DEF HandlerType, Whereabouts, Starting, Unregistered, Ending, Finalizing
  <2> QED BY <2>1, <2>2 DEF IInv, Types, TypeOK, LifeType
<1> QED
  BY <1>1, EnvelopeInductive, PTL

\* A file opens with its run_started, no start follows its run_completed, and every start that
\* was reported is in some file.
THEOREM EnvelopesWellFormed ==
  ASSUME OneCallAtATime
  PROVE  Spec => []WellFormed
<1>1. IInv => WellFormed
  BY DEF IInv, Files, Completion, Recorded, HasLine, WellFormed, Places, Starting,
    Unregistered
<1> QED
  BY <1>1, EnvelopeInductive, PTL

\* The adapter completes no envelope on its own while a run it reported is open.
THEOREM CompletedAfterAll ==
  ASSUME OneCallAtATime
  PROVE  Spec => []CompletesWhenAllEnded
<1>1. IInv => CompletesWhenAllEnded
  BY DEF IInv, Types, Completion, CompletesWhenAllEnded, Finalizing, Open
<1> QED
  BY <1>1, EnvelopeInductive, PTL

\* When every run has ended and every handler has returned, the envelope is completed in its file.
THEOREM CompletedAtRest ==
  ASSUME OneCallAtATime
  PROVE  Spec => []ClosedAtRest
<1>1. IInv => ClosedAtRest
  <2> SUFFICES ASSUME IInv, Quiet, life.started
               PROVE  life.finalized /\ Places(runId, "run_completed") # {}
    BY DEF ClosedAtRest
  <2>1. life.finalized /\ \A q \in Runs : h[q].at = "idle"
    BY QuietStarts, QuietIs
  <2> QED BY <2>1 DEF IInv, Completion
<1> QED
  BY <1>1, EnvelopeInductive, PTL

\* An envelope completes as an error exactly when the first end of a step had failed before.
THEOREM CompletedAsObserved ==
  ASSUME OneCallAtATime
  PROVE  Spec => []StatusObserved
<1>1. IInv => StatusObserved
  BY DEF IInv, Status
<1> QED
  BY <1>1, EnvelopeInductive, PTL

\* The steps of a file are those of one call, and the steps of a call are in one file.
THEOREM OneFilePerCall ==
  ASSUME OneCallAtATime
  PROVE  Spec => []CallsNotMixed
<1>1. IInv => CallsNotMixed
  <2> SUFFICES ASSUME IInv, NEW e \in Envelopes, NEW f \in Envelopes,
                      NEW i \in DOMAIN trace[e], NEW j \in DOMAIN trace[f],
                      trace[e][i].step # None, trace[f][j].step # None,
                      trace[e][i].step[1] = "run", trace[f][j].step[1] = "run"
               PROVE  e = f <=> RootOf[trace[e][i].step[2]] = RootOf[trace[f][j].step[2]]
    BY DEF CallsNotMixed
  <2>1. ASSUME NEW step \in Steps, step # None, step[1] = "run"
        PROVE  \E q \in Runs : step = RunStep(q) /\ step[2] = q
    BY <2>1, LangChainAssumption DEF Steps, RunStep
  <2>2. trace[e][i].step \in Steps /\ trace[f][j].step \in Steps
    <3>1. trace[e][i] \in LineType /\ trace[f][j] \in LineType
      BY DEF IInv, Types
    <3> QED BY <3>1 DEF LineType
  <2>3. PICK q \in Runs : IsStep(trace[e][i], q) /\ trace[e][i].step[2] = q
    BY <2>1, <2>2 DEF IsStep
  <2>4. PICK r \in Runs : IsStep(trace[f][j], r) /\ trace[f][j].step[2] = r
    BY <2>1, <2>2 DEF IsStep
  <2>5. e = f <=> RootOf[q] = RootOf[r]
    BY <2>3, <2>4 DEF IInv, Apart
  <2> QED BY <2>3, <2>4, <2>5
<1> QED
  BY <1>1, EnvelopeInductive, PTL

\* An envelope's file never holds two run_started or two run_completed lines.
THEOREM OneEnvelopePerFile ==
  ASSUME OneCallAtATime
  PROVE  Spec => []AtMostOneEnvelope
<1>1. ASSUME NEW S, \A i, j \in S : i = j
      PROVE  Cardinality(S) <= 1
  <2>1. S = {} \/ \E x : S = {x}
    BY <1>1
  <2>2. Cardinality(S) = 0 \/ Cardinality(S) = 1
    BY <2>1, FS_EmptySet, FS_Singleton
  <2> QED BY <2>2
<1>2. IInv => AtMostOneEnvelope
  BY <1>1 DEF IInv, Once, AtMostOneEnvelope
<1> QED
  BY <1>2, EnvelopeInductive, PTL

---------------------------------------------------------------------------
(* Types, whoever calls what and when                                      *)

AnyHandler ==
  [at : Whereabouts, mode : {"none", "start", "instant", "end"}, ok : BOOLEAN,
   env : 0..MaxEnvelopes, gen : Nat, closed : SUBSET (Labels \X Envelopes),
   io : {"none", "flight", "landed"}, line : LineType]

AnyTypes ==
  /\ phase \in [Runs -> {"new", "open", "acted", "ended", "gone"}]
  /\ runId \in Envelopes
  /\ life \in LifeType
  /\ stepOf \in [Runs -> {"none", "run", "point"}]
  /\ siblings \in [Labels -> 0..2]
  /\ late \in Nat
  /\ h \in [Handlers -> AnyHandler]
  /\ trace \in [Envelopes -> Seq(LineType)]
  /\ finalizes \in 0..MaxFinalizes

\* The places of a handler are those of the type invariant.
LEMMA AnyTypesAre == AnyTypes <=> TypeOK
<1>1. Whereabouts = {"idle", "resolved", "grouping", "creating", "opening",
                     "starting", "completing", "yielded", "degrouping", "ending"}
  BY DEF Whereabouts, Starting, Unregistered, Ending, Finalizing
<1> QED BY <1>1 DEF AnyTypes, TypeOK, AnyHandler, LifeType

\* What a handler may go on to wait for.
WritingTo(hd, at, line) ==
  /\ hd \in AnyHandler /\ hd.at = at /\ hd.io = "flight" /\ hd.line = line

\* Writing waits for its line and keeps the rest of the handler.
LEMMA AnyWriting ==
  ASSUME NEW hd \in AnyHandler, NEW at \in Whereabouts, NEW line \in LineType
  PROVE  /\ WritingTo(Writing(hd, at, line), at, line)
         /\ Writing(hd, at, line).mode = hd.mode
BY DEF Writing, WritingTo, AnyHandler

\* A handler at rest, and one that yields.
LEMMA AnyIdle == Idle \in AnyHandler /\ Idle.at = "idle" /\ Idle.io = "none"
<1>1. Idle \in HandlerType /\ Idle.at = "idle" /\ Idle.io = "none"
  BY IdleIs
<1>2. HandlerType \subseteq AnyHandler
  BY DEF HandlerType, AnyHandler
<1> QED BY <1>1, <1>2

\* A handler that yields to a microtask has no file operation.
LEMMA AnyYielding ==
  ASSUME NEW hd \in AnyHandler, NEW at \in Whereabouts
  PROVE  /\ Yielding(hd, at) \in AnyHandler
         /\ Yielding(hd, at).at = at /\ Yielding(hd, at).io = "none"
<1>1. NoLine \in LineType
  BY IdleIs DEF Idle, HandlerType
<1> QED BY <1>1 DEF Yielding, AnyHandler

\* A handler begins by writing a group's start or by yielding to a microtask.
Begun(hd) ==
  /\ hd \in AnyHandler
  /\ \/ hd.at = "resolved" /\ hd.io = "none"
     \/ hd.at = "grouping" /\ hd.io = "flight" /\ hd.line.event = "step_started"

\* Attach counts the sibling, and the handler begins.
LEMMA AnyAttach ==
  ASSUME NEW r \in Runs, NEW mode \in {"start", "instant", "end"}, NEW ok \in BOOLEAN,
         NEW s \in [Labels -> 0..2], NEW e \in Envelopes, AnyTypes, Attach(r, mode, ok, s, e)
  PROVE  /\ siblings' \in [Labels -> 0..2]
         /\ \E hd : h' = [h EXCEPT ![r] = hd] /\ Begun(hd)
<1>1. siblings' \in [Labels -> 0..2]
  <2>1. siblings' = CountSibling(s, r)
    BY DEF Attach
  <2>2. \A l \in Labels : s[l] \in 0..2 /\ (s[l] < 2 => s[l] + 1 \in 0..2)
    OBVIOUS
  <2> QED BY <2>1, <2>2 DEF CountSibling
<1> DEFINE b == [Idle EXCEPT !.mode = mode, !.ok = ok]
<1>2. b \in AnyHandler
  BY AnyIdle DEF AnyHandler
<1>3. CASE OpensGroup(s, r)
  <2>1. Label[r] \in Labels
    BY <1>3, LangChainAssumption DEF OpensGroup
  <2> DEFINE line == Line(e, "step_started", <<Label[r], e>>, TRUE)
  <2>2. line \in LineType /\ line.event = "step_started"
    <3>1. <<Label[r], e>> \in Steps
      BY <2>1 DEF Steps
    <3>2. e \in 0..MaxEnvelopes /\ "step_started" \in Events /\ TRUE \in BOOLEAN
      BY DEF Envelopes, Events
    <3> QED BY <3>1, <3>2, LineIs
  <2>3. h' = [h EXCEPT ![r] = Writing(b, "grouping", line)]
    BY <1>3 DEF Attach
  <2> HIDE DEF line, b
  <2>4. "grouping" \in Whereabouts
    BY DEF Whereabouts, Starting, Unregistered
  <2>5. PICK hd : hd = Writing(b, "grouping", line)
    OBVIOUS
  <2>6. WritingTo(hd, "grouping", line)
    BY <1>2, <2>2, <2>4, <2>5, AnyWriting
  <2>7. Begun(hd)
    BY <2>2, <2>6 DEF Begun, WritingTo
  <2> QED BY <1>1, <2>3, <2>5, <2>7
<1>4. CASE ~OpensGroup(s, r)
  <2>1. h' = [h EXCEPT ![r] = Yielding(b, "resolved")]
    BY <1>4 DEF Attach
  <2> HIDE DEF b
  <2>2. "resolved" \in Whereabouts
    BY DEF Whereabouts, Starting, Unregistered
  <2>3. PICK hd : hd = Yielding(b, "resolved")
    OBVIOUS
  <2>4. Begun(hd)
    BY <1>2, <2>2, <2>3, AnyYielding DEF Begun
  <2> QED BY <1>1, <2>1, <2>3, <2>4
<1> QED BY <1>3, <1>4

\* #ensureRunCompleted goes on with the end of a group or with run_completed.
Seals(hd) ==
  /\ hd \in AnyHandler /\ hd.io = "flight"
  /\ \/ hd.at = "degrouping" /\ hd.line.event = "step_completed"
     \/ hd.at = "ending" /\ hd.line.event = "run_completed" /\ hd.line.env = runId

LEMMA AnyClosing ==
  ASSUME AnyTypes, NEW hd \in AnyHandler, NEW c \in Closing(hd)
  PROVE  Seals(c)
<1>1. runId \in 0..MaxEnvelopes /\ Groups \subseteq GroupSteps /\ hd.ok \in BOOLEAN
  BY DEF AnyTypes, AnyHandler, Envelopes, Groups, GroupSteps
<1>2. CASE Groups \subseteq hd.closed
  <2> DEFINE l == Line(runId, "run_completed", None, hd.ok)
  <2>1. l \in LineType /\ l.env = runId /\ l.event = "run_completed"
    BY <1>1, LineIs, StepsAre DEF Events
  <2>2. c = Writing(hd, "ending", l)
    BY <1>2 DEF Closing
  <2> HIDE DEF l
  <2>3. "ending" \in Whereabouts
    BY DEF Whereabouts, Ending, Finalizing
  <2>4. WritingTo(c, "ending", l)
    BY <2>1, <2>2, <2>3, AnyWriting
  <2> QED BY <2>1, <2>4 DEF WritingTo, Seals
<1>3. CASE ~(Groups \subseteq hd.closed)
  <2>1. PICK g \in Groups :
           c = Writing([hd EXCEPT !.closed = @ \cup {g}], "degrouping",
                 Line(runId, "step_completed", g, TRUE))
    BY <1>3 DEF Closing
  <2> DEFINE l == Line(runId, "step_completed", g, TRUE)
             d == [hd EXCEPT !.closed = @ \cup {g}]
  <2>2. l \in LineType /\ l.event = "step_completed"
    <3>1. g \in Steps /\ "step_completed" \in Events /\ TRUE \in BOOLEAN
      BY <1>1, <2>1, StepsAre DEF Events
    <3> QED BY <1>1, <3>1, LineIs
  <2>3. d \in AnyHandler
    BY <1>1, <2>1 DEF AnyHandler, GroupSteps
  <2>4. c = Writing(d, "degrouping", l)
    BY <2>1
  <2> HIDE DEF l, d
  <2>5. "degrouping" \in Whereabouts
    BY DEF Whereabouts, Ending, Finalizing
  <2>6. WritingTo(c, "degrouping", l)
    BY <2>2, <2>3, <2>4, <2>5, AnyWriting
  <2> QED BY <2>2, <2>6 DEF WritingTo, Seals
<1> QED BY <1>2, <1>3


\* One handler moves, the others stay.
LEMMA AnyMoves ==
  ASSUME AnyTypes, NEW p \in Handlers, NEW x \in AnyHandler, h' = [h EXCEPT ![p] = x]
  PROVE  h'[p] = x /\ Others(p) /\ h' \in [Handlers -> AnyHandler]
BY DEF AnyTypes, Others

\* A start in an envelope that has been completed begins the next one.
BeginsEnvelope(r) ==
  /\ r \in Runs /\ h[r].at = "idle" /\ life.finalized /\ Others(r) /\ Begun(h'[r])
  /\ runId' = runId + 1 /\ ~life'.started /\ ~life'.finalized /\ trace' = trace

\* The handler goes on with lines of steps, or returns.
GoesOn(p) ==
  /\ Others(p) /\ UNCHANGED <<runId, trace>>
  /\ (life'.started <=> life.started) /\ (life'.finalized <=> life.finalized)
  /\ h'[p].at \notin {"creating", "opening"} \cup Finalizing
  /\ h'[p].io = "flight" => h'[p].line.event \in {"step_started", "step_completed"}
  /\ p = User => h'[p].at = "idle"

\* The first start of an envelope truncates its file, and opens it when that is done.
CreatesEnvelope(r) ==
  /\ r \in Runs /\ ~life.started /\ Others(r) /\ UNCHANGED <<runId, trace>>
  /\ h'[r].at = "creating" /\ h'[r].line.event = "truncate"
  /\ life'.started /\ (life'.finalized <=> life.finalized)

OpensEnvelope(r) ==
  /\ r \in Runs /\ h[r].at = "creating" /\ Others(r) /\ UNCHANGED <<runId, life, trace>>
  /\ h'[r].at = "opening" /\ h'[r].line.event = "run_started" /\ h'[r].line.env = runId

\* Somebody completes the envelope, and goes on with it after the end of a group.
SealsEnvelope(p) ==
  /\ ~life.finalized /\ Others(p) /\ UNCHANGED <<runId, trace>> /\ Seals(h'[p])
  /\ life'.finalized /\ (life'.started <=> life.started)

SealsFurther(p) ==
  /\ h[p].at = "degrouping" /\ h[p].io = "landed"
  /\ Others(p) /\ UNCHANGED <<runId, life, trace>> /\ Seals(h'[p])

LandsAnywhere(p) ==
  /\ h[p].io = "flight" /\ h'[p].io = "landed" /\ h'[p].at = h[p].at
  /\ Others(p) /\ UNCHANGED <<runId, life>>
  /\ trace' = [trace EXCEPT ![h[p].line.env] =
                IF h[p].line.event = "truncate" THEN <<>> ELSE Append(@, h[p].line)]

Remains == UNCHANGED <<h, life, runId, trace>>

\* The kinds a step of handler p may be of.
AnyStep(p) ==
  \/ BeginsEnvelope(p) \/ GoesOn(p) \/ CreatesEnvelope(p) \/ OpensEnvelope(p)
  \/ SealsEnvelope(p) \/ SealsFurther(p) \/ LandsAnywhere(p) \/ Remains

\* A start that begins in the current envelope goes on there, or begins a new one.
LEMMA BegunGoesOn ==
  ASSUME AnyTypes, NEW r \in Runs, NEW hd, h' = [h EXCEPT ![r] = hd], Begun(hd)
  PROVE  /\ h' \in [Handlers -> AnyHandler] /\ Others(r) /\ Begun(h'[r])
         /\ h'[r].at \notin {"creating", "opening"} \cup Finalizing
         /\ h'[r].io = "flight" => h'[r].line.event \in {"step_started", "step_completed"}
<1>1. h'[r] = hd /\ Others(r) /\ h' \in [Handlers -> AnyHandler]
  BY AnyMoves DEF Begun, Handlers
<1> QED BY <1>1 DEF Begun, Finalizing

\* A start, or an action reported under a run's own id.
LEMMA PreparesKind ==
  ASSUME AnyTypes, NEW r \in Runs, NEW mode \in {"start", "instant", "end"}, h[r].at = "idle",
         Prepare(r, mode, TRUE), UNCHANGED <<trace, finalizes>>,
         phase' \in [Runs -> {"new", "open", "acted", "ended", "gone"}]
  PROVE  AnyTypes' /\ AnyStep(r)
<1>0. r # User
  BY LangChainAssumption
<1>1. CASE life.finalized
  <2>1. /\ NextRunId(runId) \in Envelopes /\ runId' = NextRunId(runId)
        /\ life' = resetInvocationState(life) /\ stepOf' = [q \in Runs |-> "none"] /\ late' = 0
        /\ Attach(r, mode, TRUE, [l \in Labels |-> 0], NextRunId(runId))
    BY <1>1 DEF Prepare, Rotates
  <2>2. PICK s \in [Labels -> 0..2], e \in Envelopes :
           s = [l \in Labels |-> 0] /\ e = NextRunId(runId)
    BY <2>1
  <2>3. siblings' \in [Labels -> 0..2] /\ \E hd : h' = [h EXCEPT ![r] = hd] /\ Begun(hd)
    BY <2>1, <2>2, AnyAttach
  <2>4. h' \in [Handlers -> AnyHandler] /\ Others(r) /\ Begun(h'[r])
    BY <2>3, BegunGoesOn
  <2>5. life' \in LifeType /\ ~life'.started /\ ~life'.finalized
    BY <2>1, ResetIs DEF AnyTypes
  <2>6. AnyTypes'
    BY <2>1, <2>3, <2>4, <2>5 DEF AnyTypes
  <2>7. BeginsEnvelope(r)
    BY <1>1, <2>1, <2>4, <2>5 DEF BeginsEnvelope, NextRunId
  <2> QED BY <2>6, <2>7 DEF AnyStep
<1>2. CASE ~life.finalized
  <2>1. /\ UNCHANGED <<runId, life, stepOf, late>>
        /\ Attach(r, mode, TRUE, siblings, runId)
    BY <1>2 DEF Prepare, Rotates
  <2>2. siblings' \in [Labels -> 0..2] /\ \E hd : h' = [h EXCEPT ![r] = hd] /\ Begun(hd)
    BY <2>1, AnyAttach DEF AnyTypes
  <2>3. /\ h' \in [Handlers -> AnyHandler] /\ Others(r)
        /\ h'[r].at \notin {"creating", "opening"} \cup Finalizing
        /\ h'[r].io = "flight" => h'[r].line.event \in {"step_started", "step_completed"}
    BY <2>2, BegunGoesOn
  <2>4. AnyTypes'
    BY <2>1, <2>2, <2>3 DEF AnyTypes
  <2>5. GoesOn(r)
    BY <1>0, <2>1, <2>3 DEF GoesOn
  <2> QED BY <2>4, <2>5 DEF AnyStep
<1> QED BY <1>1, <1>2

\* The end of a run writes it, invents its start first, or is late.
LEMMA EndsKind ==
  ASSUME AnyTypes, NEW r \in Runs, NEW ok \in BOOLEAN, StepEnd(r, ok),
         UNCHANGED <<runId, life, stepOf, trace, finalizes>>,
         phase' \in [Runs -> {"new", "open", "acted", "ended", "gone"}]
  PROVE  AnyTypes' /\ AnyStep(r)
<1>0. r # User /\ r \in Handlers
  BY LangChainAssumption DEF Handlers
<1>1. CASE UNCHANGED <<siblings, h>>
  <2>1. late' \in Nat
    <3>1. late + 1 \in Nat
      BY DEF AnyTypes
    <3> QED BY <3>1 DEF AnyTypes, StepEnd
  <2>2. AnyTypes'
    BY <1>1, <2>1 DEF AnyTypes
  <2> QED BY <1>1, <2>2 DEF AnyStep, Remains
<1>2. CASE /\ UNCHANGED <<late, siblings>> /\ stepOf[r] # "none"
           /\ h' = [h EXCEPT ![r] = Writing([Idle EXCEPT !.mode = "end", !.ok = ok], "completing",
                      Line(runId, "step_completed", <<stepOf[r], r>>, ok))]
  <2> DEFINE b == [Idle EXCEPT !.mode = "end", !.ok = ok]
             line == Line(runId, "step_completed", <<stepOf[r], r>>, ok)
  <2>1. b \in AnyHandler
    BY AnyIdle DEF AnyHandler
  <2>2. line \in LineType /\ line.event = "step_completed"
    <3>1. <<stepOf[r], r>> \in Steps
      BY <1>2 DEF AnyTypes, Steps
    <3>2. runId \in 0..MaxEnvelopes /\ "step_completed" \in Events
      BY DEF AnyTypes, Envelopes, Events
    <3> QED BY <3>1, <3>2, LineIs
  <2>3. h' = [h EXCEPT ![r] = Writing(b, "completing", line)]
    BY <1>2
  <2> HIDE DEF b, line
  <2>4. "completing" \in Whereabouts
    BY DEF Whereabouts, Ending
  <2>5. PICK hd : hd = Writing(b, "completing", line)
    OBVIOUS
  <2>6. WritingTo(hd, "completing", line)
    BY <2>1, <2>2, <2>4, <2>5, AnyWriting
  <2>7. h'[r] = hd /\ Others(r) /\ h' \in [Handlers -> AnyHandler]
    BY <1>0, <2>3, <2>5, <2>6, AnyMoves DEF WritingTo
  <2>8. AnyTypes'
    BY <1>2, <2>7 DEF AnyTypes
  <2>9. GoesOn(r)
    BY <1>0, <2>2, <2>6, <2>7 DEF GoesOn, WritingTo, Finalizing
  <2> QED BY <2>8, <2>9 DEF AnyStep
<1>3. CASE UNCHANGED late /\ Attach(r, "end", ok, siblings, runId)
  <2>1. siblings' \in [Labels -> 0..2] /\ \E hd : h' = [h EXCEPT ![r] = hd] /\ Begun(hd)
    BY <1>3, AnyAttach DEF AnyTypes
  <2>2. /\ h' \in [Handlers -> AnyHandler] /\ Others(r)
        /\ h'[r].at \notin {"creating", "opening"} \cup Finalizing
        /\ h'[r].io = "flight" => h'[r].line.event \in {"step_started", "step_completed"}
    BY <2>1, BegunGoesOn
  <2>3. AnyTypes'
    BY <1>3, <2>1, <2>2 DEF AnyTypes
  <2>4. GoesOn(r)
    BY <1>0, <2>2 DEF GoesOn
  <2> QED BY <2>3, <2>4 DEF AnyStep
<1> QED BY <1>1, <1>2, <1>3 DEF StepEnd


\* A handler with nothing left to do returns.
LEMMA IdlesKind ==
  ASSUME AnyTypes, NEW p \in Handlers, h' = [h EXCEPT ![p] = Idle],
         UNCHANGED <<runId, life, trace>>
  PROVE  h' \in [Handlers -> AnyHandler] /\ GoesOn(p)
<1>1. h'[p] = Idle /\ Others(p) /\ h' \in [Handlers -> AnyHandler]
  BY AnyIdle, AnyMoves
<1>2. h'[p].at = "idle" /\ h'[p].io = "none"
  BY <1>1, AnyIdle
<1> QED BY <1>1, <1>2 DEF GoesOn, Finalizing

\* The line of a step.
LEMMA StepLineIs ==
  ASSUME AnyTypes, NEW r \in Runs, NEW env \in 0..MaxEnvelopes
  PROVE  StepLine(r, env) \in LineType /\ StepLine(r, env).event = "step_started"
<1>1. PICK step \in Steps :
         step = IF h[r].mode = "instant" THEN <<"point", r>> ELSE RunStep(r)
  BY DEF Steps, RunStep
<1>2. PICK line : line = Line(env, "step_started", step, TRUE)
  OBVIOUS
<1>3. "step_started" \in Events /\ TRUE \in BOOLEAN
  BY DEF Events
<1>4. line \in LineType /\ line.event = "step_started"
  BY <1>2, <1>3, LineIs
<1>5. StepLine(r, env) = line
  BY <1>1, <1>2 DEF StepLine
<1> QED BY <1>4, <1>5

\* The step a run notes is its own or an instant one.
LEMMA NoteStepIs ==
  ASSUME AnyTypes, NEW r \in Runs, NoteStep(r)
  PROVE  stepOf' \in [Runs -> {"none", "run", "point"}]
BY DEF AnyTypes, NoteStep

\* From here on one lemma per action: it keeps the types and is of one of the kinds.
LEMMA RegisterAny ==
  ASSUME AnyTypes, NEW r \in Runs, Register(r)
  PROVE  AnyTypes' /\ AnyStep(r)
<1>1. PICK begun, b : begun = beginCallbackRun(life, r) /\ b = [h[r] EXCEPT !.env = runId]
  OBVIOUS
<1>2. /\ life \in LifeType /\ runId \in 0..MaxEnvelopes /\ h[r] \in AnyHandler
      /\ begun \in LifeType /\ (begun.started <=> life.started)
      /\ (begun.finalized <=> life.finalized)
  BY <1>1, BegunIs DEF AnyTypes, Handlers, Envelopes
<1>3. b \in AnyHandler
  BY <1>1, <1>2 DEF AnyHandler
<1>4. UNCHANGED <<phase, runId, siblings, late, trace, finalizes>>
  BY DEF Register
<1>5. "starting" \in Whereabouts /\ "creating" \in Whereabouts
  BY DEF Whereabouts, Starting
<1>6. CASE life.started
  <2>1. PICK line : line = StepLine(r, runId)
    OBVIOUS
  <2>2. line \in LineType /\ line.event = "step_started"
    BY <1>2, <2>1, StepLineIs
  <2>3. /\ life' = begun /\ NoteStep(r)
        /\ h' = [h EXCEPT ![r] = Writing(b, "starting", line)]
    BY <1>1, <1>6, <2>1 DEF Register
  <2>4. /\ h' \in [Handlers -> AnyHandler] /\ Others(r) /\ r # User
        /\ h'[r].at = "starting" /\ h'[r].io = "flight" /\ h'[r].line = line
    <3>1. PICK hd : hd = Writing(b, "starting", line)
      OBVIOUS
    <3>2. h' = [h EXCEPT ![r] = hd]
      BY <2>3, <3>1
    <3>3. WritingTo(hd, "starting", line)
      BY <1>3, <1>5, <2>2, <2>3, <3>1, AnyWriting
    <3>4. h'[r] = hd /\ Others(r) /\ h' \in [Handlers -> AnyHandler]
      BY <3>2, <3>3, AnyMoves DEF WritingTo, Handlers
    <3> QED BY <3>3, <3>4, LangChainAssumption DEF WritingTo
  <2>5. AnyTypes'
    BY <1>2, <1>4, <2>3, <2>4, NoteStepIs DEF AnyTypes
  <2>6. GoesOn(r)
    BY <1>2, <1>4, <2>2, <2>3, <2>4 DEF GoesOn, Finalizing
  <2> QED BY <2>5, <2>6 DEF AnyStep
<1>7. CASE ~life.started
  <2>1. PICK line : line = Line(runId, "truncate", None, TRUE)
    OBVIOUS
  <2>2. line \in LineType /\ line.event = "truncate"
    <3>1. "truncate" \in Events /\ None \in Steps /\ TRUE \in BOOLEAN
      BY StepsAre DEF Events
    <3>2. runId \in 0..MaxEnvelopes
      BY <1>2
    <3> QED BY <2>1, <3>1, <3>2, LineIs
  <2>3. /\ life' = markEnvelopeStarted(begun) /\ UNCHANGED stepOf
        /\ h' = [h EXCEPT ![r] = Writing(b, "creating", line)]
    BY <1>1, <1>7, <2>1 DEF Register
  <2>4. /\ h' \in [Handlers -> AnyHandler] /\ Others(r) /\ r # User
        /\ h'[r].at = "creating" /\ h'[r].io = "flight" /\ h'[r].line = line
    <3>1. PICK hd : hd = Writing(b, "creating", line)
      OBVIOUS
    <3>2. h' = [h EXCEPT ![r] = hd]
      BY <2>3, <3>1
    <3>3. WritingTo(hd, "creating", line)
      BY <1>3, <1>5, <2>2, <2>3, <3>1, AnyWriting
    <3>4. h'[r] = hd /\ Others(r) /\ h' \in [Handlers -> AnyHandler]
      BY <3>2, <3>3, AnyMoves DEF WritingTo, Handlers
    <3> QED BY <3>3, <3>4, LangChainAssumption DEF WritingTo
  <2>5. life' \in LifeType /\ life'.started /\ (life'.finalized <=> life.finalized)
    BY <1>2, <2>3, MarkedIs
  <2>6. AnyTypes'
    BY <1>4, <2>3, <2>4, <2>5 DEF AnyTypes
  <2>7. CreatesEnvelope(r)
    BY <1>4, <1>7, <2>2, <2>4, <2>5 DEF CreatesEnvelope
  <2> QED BY <2>6, <2>7 DEF AnyStep
<1> QED BY <1>6, <1>7

LEMMA FileCreatedAny ==
  ASSUME AnyTypes, NEW r \in Runs, FileCreated(r)
  PROVE  AnyTypes' /\ AnyStep(r)
<1>1. PICK line : line = Line(runId, "run_started", None, TRUE)
  OBVIOUS
<1>2. h[r] \in AnyHandler /\ runId \in 0..MaxEnvelopes /\ "opening" \in Whereabouts
  BY DEF AnyTypes, Handlers, Envelopes, Whereabouts, Starting
<1>3. line \in LineType /\ line.event = "run_started" /\ line.env = runId
  <2>1. "run_started" \in Events /\ None \in Steps /\ TRUE \in BOOLEAN
    BY StepsAre DEF Events
  <2> QED BY <1>1, <1>2, <2>1, LineIs
<1>4. /\ h' = [h EXCEPT ![r] = Writing(h[r], "opening", line)] /\ h[r].at = "creating"
      /\ UNCHANGED <<phase, runId, life, stepOf, siblings, late, trace, finalizes>>
  BY <1>1 DEF FileCreated, Landed
<1>5. /\ h' \in [Handlers -> AnyHandler] /\ Others(r) /\ r # User
      /\ h'[r].at = "opening" /\ h'[r].io = "flight" /\ h'[r].line = line
  <2>1. PICK hd : hd = Writing(h[r], "opening", line)
    OBVIOUS
  <2>2. h' = [h EXCEPT ![r] = hd]
    BY <1>4, <2>1
  <2>3. WritingTo(hd, "opening", line)
    BY <1>2, <1>3, <1>4, <2>1, AnyWriting
  <2>4. h'[r] = hd /\ Others(r) /\ h' \in [Handlers -> AnyHandler]
    BY <2>2, <2>3, AnyMoves DEF WritingTo, Handlers
  <2> QED BY <2>3, <2>4, LangChainAssumption DEF WritingTo
<1>6. AnyTypes'
  BY <1>4, <1>5 DEF AnyTypes
<1>7. OpensEnvelope(r)
  BY <1>3, <1>4, <1>5 DEF OpensEnvelope
<1> QED BY <1>6, <1>7 DEF AnyStep

LEMMA RunOpenedAny ==
  ASSUME AnyTypes, NEW r \in Runs, RunOpened(r)
  PROVE  AnyTypes' /\ AnyStep(r)
<1>1. PICK env, line : /\ env = (IF h[r].mode = "end" THEN h[r].env ELSE runId)
                       /\ line = StepLine(r, env)
  OBVIOUS
<1>2. h[r] \in AnyHandler /\ runId \in 0..MaxEnvelopes /\ "starting" \in Whereabouts
  BY DEF AnyTypes, Handlers, Envelopes, Whereabouts, Starting
<1>3. env \in 0..MaxEnvelopes
  BY <1>1, <1>2 DEF AnyHandler
<1>4. line \in LineType /\ line.event = "step_started"
  BY <1>1, <1>3, StepLineIs
<1>5. /\ h' = [h EXCEPT ![r] = Writing(h[r], "starting", line)] /\ NoteStep(r)
      /\ UNCHANGED <<phase, runId, life, siblings, late, trace, finalizes>>
  BY <1>1 DEF RunOpened
<1>6. /\ h' \in [Handlers -> AnyHandler] /\ Others(r) /\ r # User
      /\ h'[r].at = "starting" /\ h'[r].io = "flight" /\ h'[r].line = line
  <2>1. PICK hd : hd = Writing(h[r], "starting", line)
    OBVIOUS
  <2>2. h' = [h EXCEPT ![r] = hd]
    BY <1>5, <2>1
  <2>3. WritingTo(hd, "starting", line)
    BY <1>2, <1>4, <1>5, <2>1, AnyWriting
  <2>4. h'[r] = hd /\ Others(r) /\ h' \in [Handlers -> AnyHandler]
    BY <2>2, <2>3, AnyMoves DEF WritingTo, Handlers
  <2> QED BY <2>3, <2>4, LangChainAssumption DEF WritingTo
<1>7. AnyTypes'
  BY <1>5, <1>6, NoteStepIs DEF AnyTypes
<1>8. GoesOn(r)
  BY <1>4, <1>5, <1>6 DEF GoesOn, Finalizing
<1> QED BY <1>7, <1>8 DEF AnyStep

LEMMA StartPersistedAny ==
  ASSUME AnyTypes, NEW r \in Runs, StartPersisted(r)
  PROVE  AnyTypes' /\ AnyStep(r)
<1>1. UNCHANGED <<phase, runId, life, stepOf, siblings, late, trace, finalizes>>
  BY DEF StartPersisted
<1>2. CASE h[r].mode = "start"
  <2>1. h' = [h EXCEPT ![r] = Idle]
    BY <1>2 DEF StartPersisted
  <2>2. h' \in [Handlers -> AnyHandler] /\ GoesOn(r)
    BY <1>1, <2>1, IdlesKind DEF Handlers
  <2>3. AnyTypes'
    BY <1>1, <2>2 DEF AnyTypes
  <2> QED BY <2>2, <2>3 DEF AnyStep
<1>3. CASE h[r].mode # "start"
  <2>1. PICK line : line = Line(runId, "step_completed", h[r].line.step, h[r].ok)
    OBVIOUS
  <2>2. h[r] \in AnyHandler /\ runId \in 0..MaxEnvelopes /\ "completing" \in Whereabouts
    BY DEF AnyTypes, Handlers, Envelopes, Whereabouts, Ending
  <2>3. h[r].line.step \in Steps /\ h[r].ok \in BOOLEAN
    BY <2>2 DEF AnyHandler, LineType
  <2>4. line \in LineType /\ line.event = "step_completed"
    BY <2>1, <2>2, <2>3, LineIs DEF Events
  <2>5. h' = [h EXCEPT ![r] = Writing(h[r], "completing", line)]
    BY <1>3, <2>1 DEF StartPersisted
  <2>6. /\ h' \in [Handlers -> AnyHandler] /\ Others(r) /\ r # User
        /\ h'[r].at = "completing" /\ h'[r].io = "flight" /\ h'[r].line = line
    <3>1. PICK hd : hd = Writing(h[r], "completing", line)
      OBVIOUS
    <3>2. h' = [h EXCEPT ![r] = hd]
      BY <2>5, <3>1
    <3>3. WritingTo(hd, "completing", line)
      BY <2>2, <2>4, <2>5, <3>1, AnyWriting
    <3>4. h'[r] = hd /\ Others(r) /\ h' \in [Handlers -> AnyHandler]
      BY <3>2, <3>3, AnyMoves DEF WritingTo, Handlers
    <3> QED BY <3>3, <3>4, LangChainAssumption DEF WritingTo
  <2>7. AnyTypes'
    BY <1>1, <2>6 DEF AnyTypes
  <2>8. GoesOn(r)
    BY <1>1, <2>4, <2>6 DEF GoesOn, Finalizing
  <2> QED BY <2>7, <2>8 DEF AnyStep
<1> QED BY <1>2, <1>3

LEMMA EndPersistedAny ==
  ASSUME AnyTypes, NEW r \in Runs, EndPersisted(r)
  PROVE  AnyTypes' /\ AnyStep(r)
<1>1. PICK l : l = endCallbackRun(noteTerminalError(life, h[r].ok), r)
  OBVIOUS
<1>2. /\ life \in LifeType /\ h[r] \in AnyHandler /\ r \in Handlers /\ r # User
      /\ h[r].ok \in BOOLEAN
  BY LangChainAssumption DEF AnyTypes, Handlers, AnyHandler
<1>3. l \in LifeType /\ (l.started <=> life.started) /\ (l.finalized <=> life.finalized)
  BY <1>1, <1>2, EndedIs
<1>4. life' = l /\ UNCHANGED <<phase, runId, stepOf, siblings, late, trace, finalizes>>
  BY <1>1 DEF EndPersisted
<1>5. PICK hd : /\ h' = [h EXCEPT ![r] = hd]
                /\ hd \in AnyHandler /\ hd.at \in {"idle", "yielded"} /\ hd.io = "none"
  <2>1. CASE canScheduleFinalize(l)
    <3>1. PICK b : b = [h[r] EXCEPT !.gen = l.gen]
      OBVIOUS
    <3>2. b \in AnyHandler /\ "yielded" \in Whereabouts
      BY <1>2, <1>3, <3>1 DEF AnyHandler, LifeType, Whereabouts, Ending
    <3>3. h' = [h EXCEPT ![r] = Yielding(b, "yielded")]
      BY <1>1, <2>1, <3>1 DEF EndPersisted
    <3>4. PICK hd : hd = Yielding(b, "yielded")
      OBVIOUS
    <3>5. hd \in AnyHandler /\ hd.at = "yielded" /\ hd.io = "none"
      BY <3>2, <3>4, AnyYielding
    <3> QED BY <3>3, <3>4, <3>5
  <2>2. CASE ~canScheduleFinalize(l)
    <3>1. h' = [h EXCEPT ![r] = Idle]
      BY <1>1, <2>2 DEF EndPersisted
    <3> QED BY <3>1, AnyIdle
  <2> QED BY <2>1, <2>2
<1>6. h'[r] = hd /\ Others(r) /\ h' \in [Handlers -> AnyHandler]
  BY <1>2, <1>5, AnyMoves
<1>7. AnyTypes'
  BY <1>3, <1>4, <1>6 DEF AnyTypes
<1>8. GoesOn(r)
  BY <1>2, <1>3, <1>4, <1>5, <1>6 DEF GoesOn, Finalizing
<1> QED BY <1>7, <1>8 DEF AnyStep

\* Whoever seals an envelope goes on as #ensureRunCompleted does.
LEMMA SealsKind ==
  ASSUME AnyTypes, NEW p \in Handlers, NEW b \in AnyHandler, NEW c \in Closing(b),
         h' = [h EXCEPT ![p] = c]
  PROVE  h' \in [Handlers -> AnyHandler] /\ Others(p) /\ Seals(h'[p])
<1>1. Seals(c)
  BY AnyClosing
<1>2. h'[p] = c /\ Others(p) /\ h' \in [Handlers -> AnyHandler]
  BY <1>1, AnyMoves DEF Seals
<1> QED BY <1>1, <1>2

LEMMA FinalizeDeferredAny ==
  ASSUME AnyTypes, NEW r \in Runs, FinalizeDeferred(r)
  PROVE  AnyTypes' /\ AnyStep(r)
<1>1. UNCHANGED <<phase, runId, stepOf, siblings, late, trace, finalizes>>
  BY DEF FinalizeDeferred
<1>2. life \in LifeType /\ h[r] \in AnyHandler /\ r \in Handlers
  BY DEF AnyTypes, Handlers
<1>3. CASE life.gen = h[r].gen /\ canScheduleFinalize(life)
  <2>1. PICK b : b = [h[r] EXCEPT !.ok = ~life.failed]
    OBVIOUS
  <2>2. b \in AnyHandler
    BY <1>2, <2>1 DEF AnyHandler
  <2>3. life' = markFinalized(life) /\ \E c \in Closing(b) : h' = [h EXCEPT ![r] = c]
    BY <1>3, <2>1 DEF FinalizeDeferred
  <2>4. h' \in [Handlers -> AnyHandler] /\ Others(r) /\ Seals(h'[r])
    BY <1>2, <2>2, <2>3, SealsKind
  <2>5. life' \in LifeType /\ life'.finalized /\ (life'.started <=> life.started)
    BY <1>2, <2>3, MarkedIs
  <2>6. AnyTypes'
    BY <1>1, <2>4, <2>5 DEF AnyTypes
  <2>7. ~life.finalized
    BY <1>3 DEF canScheduleFinalize
  <2>8. SealsEnvelope(r)
    BY <1>1, <2>4, <2>5, <2>7 DEF SealsEnvelope
  <2> QED BY <2>6, <2>8 DEF AnyStep
<1>4. CASE ~(life.gen = h[r].gen /\ canScheduleFinalize(life))
  <2>1. h' = [h EXCEPT ![r] = Idle] /\ UNCHANGED life
    BY <1>4 DEF FinalizeDeferred
  <2>2. h' \in [Handlers -> AnyHandler] /\ GoesOn(r)
    BY <1>1, <1>2, <2>1, IdlesKind
  <2>3. AnyTypes'
    BY <1>1, <2>1, <2>2 DEF AnyTypes
  <2> QED BY <2>2, <2>3 DEF AnyStep
<1> QED BY <1>3, <1>4

LEMMA FinalizeCalledAny ==
  ASSUME AnyTypes, NEW given \in {"observed", "success", "error"}, FinalizeCalled(given)
  PROVE  AnyTypes' /\ AnyStep(User)
<1>1. PICK ok \in BOOLEAN :
         ok = IF given = "observed" THEN ~life.failed ELSE given = "success"
  OBVIOUS
<1>2. PICK l : l = noteTerminalError(bumpCompletionGeneration(life), ok)
  OBVIOUS
<1>3. life \in LifeType /\ User \in Handlers
  BY DEF AnyTypes, Handlers
<1>4. l \in LifeType /\ (l.started <=> life.started) /\ (l.finalized <=> life.finalized)
  <2>1. life.gen + 1 \in Nat
    BY <1>3 DEF LifeType
  <2> QED BY <1>2, <1>3, <2>1 DEF LifeType, noteTerminalError, bumpCompletionGeneration
<1>5. PICK b : b = [Idle EXCEPT !.ok = ok]
  OBVIOUS
<1>6. b \in AnyHandler
  BY <1>5, AnyIdle DEF AnyHandler
<1>7. /\ finalizes < MaxFinalizes /\ ~life.finalized /\ finalizes' = finalizes + 1
      /\ life' = markFinalized(l) /\ \E c \in Closing(b) : h' = [h EXCEPT ![User] = c]
      /\ UNCHANGED <<phase, runId, stepOf, siblings, late, trace>>
  BY <1>1, <1>2, <1>5 DEF FinalizeCalled
<1>8. h' \in [Handlers -> AnyHandler] /\ Others(User) /\ Seals(h'[User])
  BY <1>3, <1>6, <1>7, SealsKind
<1>9. life' \in LifeType /\ life'.finalized /\ (life'.started <=> life.started)
  BY <1>4, <1>7, MarkedIs
<1>10. finalizes' \in 0..MaxFinalizes
  BY <1>7, LangChainAssumption DEF AnyTypes
<1>11. AnyTypes'
  BY <1>7, <1>8, <1>9, <1>10 DEF AnyTypes
<1>12. SealsEnvelope(User)
  BY <1>7, <1>8, <1>9 DEF SealsEnvelope
<1> QED BY <1>11, <1>12 DEF AnyStep

LEMMA ClosesAny ==
  ASSUME AnyTypes, NEW p \in Handlers, GroupClosed(p) \/ RunClosed(p)
  PROVE  AnyTypes' /\ AnyStep(p)
<1>1. UNCHANGED <<phase, runId, life, stepOf, siblings, late, trace, finalizes>>
  BY DEF GroupClosed, RunClosed
<1>2. CASE GroupClosed(p)
  <2>1. h[p] \in AnyHandler
    BY DEF AnyTypes
  <2>2. /\ h[p].at = "degrouping" /\ h[p].io = "landed"
        /\ \E c \in Closing(h[p]) : h' = [h EXCEPT ![p] = c]
    BY <1>2 DEF GroupClosed, Landed
  <2>3. h' \in [Handlers -> AnyHandler] /\ Others(p) /\ Seals(h'[p])
    BY <2>1, <2>2, SealsKind
  <2>4. AnyTypes'
    BY <1>1, <2>3 DEF AnyTypes
  <2>5. SealsFurther(p)
    BY <1>1, <2>2, <2>3 DEF SealsFurther
  <2> QED BY <2>4, <2>5 DEF AnyStep
<1>3. CASE RunClosed(p)
  <2>1. h' = [h EXCEPT ![p] = Idle]
    BY <1>3 DEF RunClosed
  <2>2. h' \in [Handlers -> AnyHandler] /\ GoesOn(p)
    BY <1>1, <2>1, IdlesKind
  <2>3. AnyTypes'
    BY <1>1, <2>2 DEF AnyTypes
  <2> QED BY <2>2, <2>3 DEF AnyStep
<1> QED BY <1>2, <1>3

LEMMA LandAny ==
  ASSUME AnyTypes, NEW p \in Handlers, Land(p)
  PROVE  AnyTypes' /\ AnyStep(p)
<1>1. PICK w : w = h[p].line
  OBVIOUS
<1>2. h[p] \in AnyHandler /\ w \in LineType
  BY <1>1 DEF AnyTypes, AnyHandler
<1>3. /\ h[p].io = "flight" /\ h' = [h EXCEPT ![p].io = "landed"]
      /\ trace' = [trace EXCEPT ![w.env] =
                    IF w.event = "truncate" THEN <<>> ELSE Append(@, w)]
      /\ UNCHANGED <<phase, runId, life, stepOf, siblings, late, finalizes>>
  BY <1>1 DEF Land
<1>4. PICK hd : hd = [h[p] EXCEPT !.io = "landed"]
  OBVIOUS
<1>5. hd \in AnyHandler /\ hd.io = "landed" /\ hd.at = h[p].at
  BY <1>2, <1>4 DEF AnyHandler
<1>6. h' = [h EXCEPT ![p] = hd]
  BY <1>3, <1>4
<1>7. h'[p] = hd /\ Others(p) /\ h' \in [Handlers -> AnyHandler]
  BY <1>5, <1>6, AnyMoves
<1>8. trace' \in [Envelopes -> Seq(LineType)]
  <2>1. \A e \in Envelopes : trace[e] \in Seq(LineType) /\ Append(trace[e], w) \in Seq(LineType)
    BY <1>2 DEF AnyTypes
  <2>2. <<>> \in Seq(LineType)
    OBVIOUS
  <2> QED BY <1>3, <2>1, <2>2 DEF AnyTypes
<1>9. AnyTypes'
  BY <1>3, <1>7, <1>8 DEF AnyTypes
<1>10. LandsAnywhere(p)
  BY <1>1, <1>3, <1>5, <1>7 DEF LandsAnywhere
<1> QED BY <1>9, <1>10 DEF AnyStep

\* Nothing has been called yet.
LEMMA AnyInit == Init => AnyTypes
<1> SUFFICES ASSUME Init PROVE AnyTypes
  OBVIOUS
<1>1. createInvocationState \in LifeType
  BY DEF createInvocationState, LifeType
<1>2. 1 \in Envelopes /\ 0 \in 0..MaxFinalizes
  BY LangChainAssumption DEF Envelopes
<1> QED BY <1>1, <1>2, AnyIdle DEF Init, AnyTypes

\* A run that has not started has no handler in flight.
NewAtRest == \A r \in Runs : phase[r] = "new" => h[r].at = "idle"

\* The calls of the framework, and what the handlers do of themselves.
LEMMA CallKind ==
  ASSUME AnyTypes, NewAtRest, NEW r \in Runs,
         \/ StartCalled(r) \/ InstantCalled(r)
         \/ \E ok \in BOOLEAN : EndCalled(r, ok) \/ EndRepeated(r, ok)
  PROVE  /\ AnyTypes' /\ AnyStep(r)
         /\ phase'[r] # "new" /\ \A q \in Runs \ {r} : phase'[q] = phase[q]
<1>1. CASE StartCalled(r)
  <2>1. /\ Prepare(r, "start", TRUE) /\ UNCHANGED <<trace, finalizes>> /\ h[r].at = "idle"
        /\ phase' \in [Runs -> {"new", "open", "acted", "ended", "gone"}]
        /\ phase'[r] = "open" /\ \A q \in Runs \ {r} : phase'[q] = phase[q]
    BY <1>1 DEF StartCalled, AnyTypes, NewAtRest
  <2> QED BY <2>1, PreparesKind
<1>2. CASE InstantCalled(r)
  <2>1. /\ Prepare(r, "instant", TRUE) /\ UNCHANGED <<trace, finalizes>> /\ h[r].at = "idle"
        /\ phase' \in [Runs -> {"new", "open", "acted", "ended", "gone"}]
        /\ phase'[r] = "acted" /\ \A q \in Runs \ {r} : phase'[q] = phase[q]
    BY <1>2 DEF InstantCalled, AnyTypes
  <2> QED BY <2>1, PreparesKind
<1>3. ASSUME NEW ok \in BOOLEAN, EndCalled(r, ok) \/ EndRepeated(r, ok)
      PROVE  /\ AnyTypes' /\ AnyStep(r)
             /\ phase'[r] # "new" /\ \A q \in Runs \ {r} : phase'[q] = phase[q]
  <2>1. /\ StepEnd(r, ok) /\ UNCHANGED <<runId, life, stepOf, trace, finalizes>>
        /\ phase' \in [Runs -> {"new", "open", "acted", "ended", "gone"}]
        /\ phase'[r] \in {"ended", "gone"} /\ \A q \in Runs \ {r} : phase'[q] = phase[q]
    BY <1>3 DEF EndCalled, EndRepeated, AnyTypes
  <2> QED BY <2>1, EndsKind
<1> QED BY <1>1, <1>2, <1>3

\* What a handler does of itself leaves the framework's phases alone.
LEMMA HandlerKind ==
  ASSUME AnyTypes, NEW p \in Handlers, Land(p) \/ Resume(p)
  PROVE  /\ AnyTypes' /\ AnyStep(p) /\ phase' = phase
         /\ h[p].at = "idle" => h'[p].at = "idle"
<1>1. CASE Land(p)
  <2>1. AnyTypes' /\ AnyStep(p) /\ phase' = phase
    BY <1>1, LandAny DEF Land
  <2>2. h'[p].at = h[p].at
    BY <1>1 DEF Land, AnyTypes, AnyHandler
  <2> QED BY <2>1, <2>2
<1>2. CASE Resume(p)
  <2>1. AnyTypes' /\ AnyStep(p)
    BY <1>2, ClosesAny, RegisterAny, FileCreatedAny, RunOpenedAny, StartPersistedAny,
       EndPersistedAny, FinalizeDeferredAny DEF Resume
  <2>2. phase' = phase /\ h[p].at # "idle"
    BY <1>2 DEF Resume, GroupClosed, RunClosed, Register, FileCreated, RunOpened, StartPersisted,
       EndPersisted, FinalizeDeferred, Landed
  <2> QED BY <2>1, <2>2
<1> QED BY <1>1, <1>2

\* Every step is of one of these kinds, and keeps the types.
LEMMA AnyNext ==
  ASSUME AnyTypes, NewAtRest, Next
  PROVE  AnyTypes' /\ NewAtRest' /\ \E p \in Handlers : AnyStep(p)
<1>1. ASSUME NEW p \in Handlers, AnyStep(p)
      PROVE  \A r \in Runs : r # p => h'[r] = h[r]
  BY <1>1 DEF AnyStep, BeginsEnvelope, GoesOn, CreatesEnvelope, OpensEnvelope, SealsEnvelope,
     SealsFurther, LandsAnywhere, Remains, Others, Handlers
<1>2. ASSUME NEW r \in Runs,
             \/ StartCalled(r) \/ InstantCalled(r)
             \/ \E ok \in BOOLEAN : EndCalled(r, ok) \/ EndRepeated(r, ok)
      PROVE  AnyTypes' /\ NewAtRest' /\ \E p \in Handlers : AnyStep(p)
  <2>1. /\ AnyTypes' /\ AnyStep(r) /\ r \in Handlers
        /\ phase'[r] # "new" /\ \A q \in Runs \ {r} : phase'[q] = phase[q]
    BY <1>2, CallKind DEF Handlers
  <2>2. \A q \in Runs \ {r} : h'[q] = h[q]
    BY <1>1, <2>1
  <2>3. NewAtRest'
    BY <2>1, <2>2 DEF NewAtRest
  <2> QED BY <2>1, <2>3
<1>3. ASSUME NEW given \in {"observed", "success", "error"}, FinalizeCalled(given)
      PROVE  AnyTypes' /\ NewAtRest' /\ \E p \in Handlers : AnyStep(p)
  <2>1. AnyTypes' /\ AnyStep(User) /\ User \in Handlers /\ User \notin Runs
    BY <1>3, FinalizeCalledAny, LangChainAssumption DEF Handlers
  <2>2. (\A q \in Runs : h'[q] = h[q]) /\ phase' = phase
    BY <1>1, <1>3, <2>1 DEF FinalizeCalled
  <2>3. NewAtRest'
    BY <2>2 DEF NewAtRest
  <2> QED BY <2>1, <2>3
<1>4. ASSUME NEW p \in Handlers, Land(p) \/ Resume(p)
      PROVE  AnyTypes' /\ NewAtRest' /\ \E q \in Handlers : AnyStep(q)
  <2>1. /\ AnyTypes' /\ AnyStep(p) /\ phase' = phase
        /\ h[p].at = "idle" => h'[p].at = "idle"
    BY <1>4, HandlerKind
  <2>2. \A r \in Runs : r # p => h'[r] = h[r]
    BY <1>1, <2>1
  <2>3. NewAtRest'
    BY <2>1, <2>2 DEF NewAtRest
  <2> QED BY <2>1, <2>3
<1> QED BY <1>2, <1>3, <1>4 DEF Next, Call

---------------------------------------------------------------------------
(* One envelope per file when callbacks are awaited                        *)

\* The framework awaits a callback before it makes the next, whichever run it is about, and none
\* is about to start a step while finalize() writes the ends of groups.  When finalize() is
\* called, what is reported and how often an end is delivered is left open.
Awaited ==
  /\ \A q, r \in Runs : h[q].at # "idle" /\ h[r].at # "idle" => q = r
  /\ h[User].at = "degrouping" => \A r \in Runs : h[r].at \notin Unregistered

Opens(r) == h[r].at = "creating" \/ (h[r].at = "opening" /\ h[r].io = "flight")
Sealing(p, e) == h[p].at = "ending" /\ h[p].io = "flight" /\ h[p].line.env = e

\* Only those who open an envelope or complete it write the lines that say so.
Announced ==
  \A p \in Handlers : h[p].io = "flight" =>
    /\ h[p].line.event = "run_started" => h[p].at = "opening" /\ p \in Runs
    /\ h[p].line.event = "run_completed" => h[p].at = "ending"

UserSeals == h[User].at \in {"idle"} \cup Finalizing

\* Envelopes to come have not been written to.
Ahead ==
  \A e \in Envelopes : e > runId =>
    Places(e, "run_started") = {} /\ Places(e, "run_completed") = {}

OpenedOnce ==
  /\ \A r \in Runs : Opens(r) =>
        /\ life.started /\ Places(runId, "run_started") = {}
        /\ h[r].at = "opening" => h[r].line.env = runId
  /\ ~life.started => Places(runId, "run_started") = {}
  /\ \A e \in Envelopes : \A i, j \in Places(e, "run_started") : i = j

\* Whoever writes the ends of groups is the one to complete the current envelope; a completion
\* in flight is the only one for its envelope, which may be a former one.
SealedOnce ==
  /\ \A p \in Handlers : h[p].at = "degrouping" =>
        /\ life.finalized /\ Places(runId, "run_completed") = {}
        /\ \A q \in Handlers : h[q].at = "degrouping" => p = q
        /\ \A q \in Handlers : ~Sealing(q, runId)
  /\ \A p \in Handlers : \A e : Sealing(p, e) =>
        /\ e \in Envelopes /\ e <= runId /\ Places(e, "run_completed") = {}
        /\ e = runId => life.finalized
        /\ \A q \in Handlers : Sealing(q, e) => p = q
  /\ ~life.finalized => Places(runId, "run_completed") = {}
  /\ \A e \in Envelopes : \A i, j \in Places(e, "run_completed") : i = j

AwaitedInv ==
  AnyTypes /\ NewAtRest /\ Announced /\ UserSeals /\ Ahead /\ OpenedOnce /\ SealedOnce

\* A line that lands adds at most its own place.
Grown(e, event, w) ==
  \E n : Places(e, event)' \subseteq Places(e, event)
                                       \cup (IF e = w.env /\ event = w.event THEN {n} ELSE {})

LEMMA LandGrows ==
  ASSUME AnyTypes, NEW p \in Handlers, LandsAnywhere(p), NEW w, w = h[p].line,
         NEW e \in Envelopes, NEW event
  PROVE  Grown(e, event, w)
<1>1. w \in LineType /\ trace[e] \in Seq(LineType) /\ DOMAIN trace = Envelopes
  BY DEF AnyTypes, AnyHandler
<1>2. trace' = [trace EXCEPT ![w.env] = IF w.event = "truncate" THEN <<>> ELSE Append(@, w)]
  BY DEF LandsAnywhere
<1>3. CASE e # w.env
  <2>1. trace'[e] = trace[e]
    BY <1>1, <1>2, <1>3
  <2>2. Places(e, event)' = Places(e, event)
    BY <2>1 DEF Places
  <2> QED BY <2>2 DEF Grown
<1>4. CASE e = w.env /\ w.event = "truncate"
  <2>1. trace'[e] = <<>>
    BY <1>1, <1>2, <1>4
  <2>2. Places(e, event)' = {}
    BY <2>1 DEF Places
  <2> QED BY <2>2 DEF Grown
<1>5. CASE e = w.env /\ w.event # "truncate"
  <2>1. trace'[e] = Append(trace[e], w)
    BY <1>1, <1>2, <1>5
  <2>2. PICK s, n : s = trace[e] /\ n = Len(s) + 1
    OBVIOUS
  <2>3. /\ n \in Nat /\ DOMAIN s = 1..Len(s) /\ DOMAIN Append(s, w) = 1..n
        /\ Append(s, w)[n] = w /\ \A i \in 1..Len(s) : Append(s, w)[i] = s[i]
    BY <1>1, <2>2
  <2>4. \A i \in 1..n : i = n \/ i \in 1..Len(s)
    BY <1>1, <2>2
  <2>5. \A i \in Places(e, event)' : i \in Places(e, event) \/ (i = n /\ w.event = event)
    BY <2>1, <2>2, <2>3, <2>4 DEF Places
  <2>6. Places(e, event)' \subseteq Places(e, event)
                                     \cup (IF e = w.env /\ event = w.event THEN {n} ELSE {})
    BY <1>5, <2>5
  <2> QED BY <2>6 DEF Grown
<1> QED BY <1>3, <1>4, <1>5

\* Each conjunct of the invariant is kept by each kind of step.
LEMMA AnnouncedKept ==
  ASSUME AwaitedInv, NEW p \in Handlers, AnyStep(p)
  PROVE  Announced' /\ UserSeals'
<1> USE DEF AwaitedInv
<1>1. \A q \in Handlers : q # p => h'[q] = h[q]
  BY DEF AnyStep, BeginsEnvelope, GoesOn, CreatesEnvelope, OpensEnvelope, SealsEnvelope,
     SealsFurther, LandsAnywhere, Remains, Others
<1>2. /\ h'[p].io = "flight" =>
            /\ h'[p].line.event = "run_started" => h'[p].at = "opening" /\ p \in Runs
            /\ h'[p].line.event = "run_completed" => h'[p].at = "ending"
      /\ p = User => h'[p].at \in {"idle"} \cup Finalizing
  <2>0. User \notin Runs
    BY LangChainAssumption
  <2>1. CASE BeginsEnvelope(p)
    BY <2>0, <2>1 DEF BeginsEnvelope, Begun
  <2>2. CASE GoesOn(p)
    BY <2>0, <2>2 DEF GoesOn
  <2>3. CASE CreatesEnvelope(p) \/ OpensEnvelope(p)
    BY <2>0, <2>3 DEF CreatesEnvelope, OpensEnvelope
  <2>4. CASE SealsEnvelope(p) \/ SealsFurther(p)
    BY <2>0, <2>4 DEF SealsEnvelope, SealsFurther, Seals, Finalizing
  <2>5. CASE LandsAnywhere(p)
    BY <2>0, <2>5 DEF LandsAnywhere, UserSeals
  <2>6. CASE Remains
    BY <2>0, <2>6 DEF Remains, Announced, UserSeals
  <2> QED BY <2>1, <2>2, <2>3, <2>4, <2>5, <2>6 DEF AnyStep
<1>3. User \in Handlers
  BY DEF Handlers
<1> QED BY <1>1, <1>2, <1>3 DEF Announced, UserSeals

\* The line that opens an envelope, or completes one, is about the current or a former one.
LEMMA LandsBehind ==
  ASSUME AwaitedInv, NEW p \in Handlers, LandsAnywhere(p), NEW w, w = h[p].line
  PROVE  /\ w.event = "run_started" => p \in Runs /\ Opens(p) /\ h[p].at = "opening" /\ w.env = runId
         /\ w.event = "run_completed" => Sealing(p, w.env)
<1>1. h[p].io = "flight"
  BY DEF LandsAnywhere
<1> QED BY <1>1 DEF AwaitedInv, Announced, Opens, Sealing, OpenedOnce

\* Lines go to the current envelope or a former one.
LEMMA AheadKept ==
  ASSUME AwaitedInv, NEW p \in Handlers, AnyStep(p)
  PROVE  Ahead'
<1>1. CASE LandsAnywhere(p)
  <2>1. PICK w : w = h[p].line
    OBVIOUS
  <2>2. w.env \in Int /\ runId \in Int
    BY <2>1 DEF AwaitedInv, AnyTypes, AnyHandler, LineType, Envelopes
  <2>3. (w.event = "run_started" => w.env = runId) /\ (w.event = "run_completed" => w.env <= runId)
    BY <1>1, <2>1, LandsBehind DEF AwaitedInv, SealedOnce
  <2>4. ASSUME NEW e \in Envelopes, e > runId, NEW event \in {"run_started", "run_completed"}
        PROVE  Places(e, event)' = {}
    <3>1. Grown(e, event, w)
      BY <1>1, <2>1, LandGrows DEF AwaitedInv
    <3>2. ~(e = w.env /\ event = w.event)
      BY <2>2, <2>3, <2>4 DEF Envelopes
    <3>3. Places(e, event) = {}
      BY <2>4 DEF AwaitedInv, Ahead
    <3> QED BY <3>1, <3>2, <3>3 DEF Grown
  <2>5. runId' = runId
    BY <1>1 DEF LandsAnywhere
  <2> QED BY <2>4, <2>5 DEF Ahead
<1>2. CASE ~LandsAnywhere(p)
  <2>1. trace' = trace /\ (runId' = runId \/ runId' = runId + 1) /\ runId \in Nat
    BY <1>2 DEF AwaitedInv, AnyTypes, Envelopes, AnyStep, BeginsEnvelope, GoesOn, CreatesEnvelope,
       OpensEnvelope, SealsEnvelope, SealsFurther, Remains
  <2>2. \A e, event : Places(e, event)' = Places(e, event)
    BY <2>1, PlacesStay
  <2>3. \A e \in Envelopes : e > runId' => e > runId
    BY <2>1 DEF Envelopes
  <2> QED BY <2>2, <2>3 DEF AwaitedInv, Ahead
<1> QED BY <1>1, <1>2

\* Only the start that found the envelope unopened opens it.
LEMMA OpenedKept ==
  ASSUME AwaitedInv, Awaited, Awaited', NEW p \in Handlers, AnyStep(p), runId' \in Envelopes
  PROVE  OpenedOnce'
<1>0. \A r \in Runs : r \in Handlers
  BY DEF Handlers
<1>1. \A q \in Runs : q # p => (Opens(q)' <=> Opens(q)) /\ h'[q] = h[q]
  BY <1>0 DEF AnyStep, BeginsEnvelope, GoesOn, CreatesEnvelope, OpensEnvelope, SealsEnvelope,
     SealsFurther, LandsAnywhere, Remains, Others, Opens
<1>i. OpenedOnce
  BY DEF AwaitedInv
<1>2. CASE LandsAnywhere(p)
  <2>1. PICK w : w = h[p].line
    OBVIOUS
  <2>2. \A e \in Envelopes : Grown(e, "run_started", w)
    BY <1>2, <2>1, LandGrows DEF AwaitedInv
  <2>3. runId' = runId /\ life' = life /\ runId \in Envelopes
    BY <1>2 DEF LandsAnywhere, AwaitedInv, AnyTypes
  <2>4. p \in Runs /\ Opens(p)' => Opens(p) /\ h[p].at = "creating" /\ h'[p].at = "creating"
    BY <1>2 DEF LandsAnywhere, Opens
  <2>5. CASE w.event = "run_started"
    <3>1. p \in Runs /\ Opens(p) /\ h[p].at = "opening" /\ w.env = runId
      BY <1>2, <2>1, <2>5, LandsBehind
    <3>2. life.started /\ Places(runId, "run_started") = {}
      BY <1>i, <3>1 DEF OpenedOnce
    <3>3. \A q \in Runs : ~Opens(q)'
      <4>1. \A q \in Runs : q # p => h[q].at = "idle"
        BY <3>1 DEF Awaited, Opens
      <4>2. \A q \in Runs : q # p => ~Opens(q)
        BY <4>1 DEF Opens
      <4> QED BY <1>1, <2>4, <3>1, <4>2
    <3>4. ASSUME NEW e \in Envelopes
          PROVE  \A i, j \in Places(e, "run_started")' : i = j
      <4>1. CASE e = runId
        BY <2>2, <3>2, <4>1 DEF Grown
      <4>2. CASE e # runId
        <5>1. Places(e, "run_started")' \subseteq Places(e, "run_started")
          BY <2>2, <3>1, <4>2 DEF Grown
        <5> QED BY <1>i, <5>1 DEF OpenedOnce
      <4> QED BY <4>1, <4>2
    <3> QED BY <2>3, <3>2, <3>3, <3>4 DEF OpenedOnce
  <2>6. CASE w.event # "run_started"
    <3>1. \A e \in Envelopes : Places(e, "run_started")' \subseteq Places(e, "run_started")
      BY <2>2, <2>6 DEF Grown
    <3>2. ASSUME NEW r \in Runs, Opens(r)'
          PROVE  /\ life'.started /\ Places(runId, "run_started")' = {}
                 /\ h'[r].at = "opening" => h'[r].line.env = runId
      <4>1. Opens(r) /\ (h'[r].at = "opening" => h'[r] = h[r])
        BY <1>1, <2>4, <3>2
      <4> QED BY <1>i, <2>3, <3>1, <4>1 DEF OpenedOnce
    <3>3. ~life.started => Places(runId, "run_started")' = {}
      BY <1>i, <2>3, <3>1 DEF OpenedOnce
    <3>4. \A e \in Envelopes : \A i, j \in Places(e, "run_started")' : i = j
      BY <1>i, <3>1 DEF OpenedOnce
    <3> QED BY <2>3, <3>2, <3>3, <3>4 DEF OpenedOnce
  <2> QED BY <2>5, <2>6
<1>3. CASE BeginsEnvelope(p)
  <2>1. /\ p \in Runs /\ h'[p].at \in {"resolved", "grouping"} /\ trace' = trace
        /\ runId' = runId + 1 /\ ~life'.started
    BY <1>3 DEF BeginsEnvelope, Begun
  <2>2. \A q \in Runs : ~Opens(q)'
    <3>1. \A q \in Runs : q # p => h'[q].at = "idle"
      BY <2>1 DEF Awaited
    <3> QED BY <2>1, <3>1 DEF Opens
  <2>3. \A e, event : Places(e, event)' = Places(e, event)
    BY <2>1, PlacesStay
  <2>4. Places(runId', "run_started") = {}
    BY <2>1 DEF AwaitedInv, Ahead, AnyTypes, Envelopes
  <2>5. Places(runId, "run_started")' = {}
    BY <2>1, <2>4 DEF Places
  <2> QED BY <1>i, <2>1, <2>2, <2>3, <2>5 DEF OpenedOnce
<1>4. CASE ~LandsAnywhere(p) /\ ~BeginsEnvelope(p)
  <2>1. trace' = trace /\ runId' = runId
    BY <1>4 DEF AnyStep, GoesOn, CreatesEnvelope, OpensEnvelope, SealsEnvelope, SealsFurther, Remains
  <2>2. Places(runId, "run_started")' = Places(runId, "run_started")
    BY <2>1 DEF Places
  <2>3. \A e, event : Places(e, event)' = Places(e, event)
    BY <2>1, PlacesStay
  <2>4. (life.started => life'.started) /\ (~life'.started => ~life.started)
    BY <1>4 DEF AnyStep, GoesOn, CreatesEnvelope, OpensEnvelope, SealsEnvelope, SealsFurther, Remains
  <2>5. ASSUME NEW r \in Runs, Opens(r)'
        PROVE  /\ life'.started /\ Places(runId, "run_started") = {}
               /\ h'[r].at = "opening" => h'[r].line.env = runId
    <3>1. CASE r # p
      BY <1>1, <1>i, <2>4, <2>5, <3>1 DEF OpenedOnce
    <3>2. CASE r = p /\ GoesOn(p)
      BY <2>5, <3>2 DEF GoesOn, Opens
    <3>3. CASE r = p /\ CreatesEnvelope(p)
      BY <1>i, <3>3 DEF CreatesEnvelope, OpenedOnce
    <3>4. CASE r = p /\ OpensEnvelope(p)
      BY <1>i, <3>4 DEF OpensEnvelope, OpenedOnce, Opens
    <3>5. CASE r = p /\ (SealsEnvelope(p) \/ SealsFurther(p))
      BY <2>5, <3>5 DEF SealsEnvelope, SealsFurther, Seals, Opens
    <3>6. CASE r = p /\ Remains
      BY <1>i, <2>5, <3>6 DEF Remains, OpenedOnce, Opens
    <3> QED BY <1>4, <3>1, <3>2, <3>3, <3>4, <3>5, <3>6 DEF AnyStep
  <2> QED BY <1>i, <2>1, <2>2, <2>3, <2>4, <2>5 DEF OpenedOnce
<1> QED BY <1>2, <1>3, <1>4


\* Only the one that found the envelope uncompleted completes it.
LEMMA SealedKept ==
  ASSUME AwaitedInv, Awaited, Awaited', NEW p \in Handlers, AnyStep(p), runId' \in Envelopes
  PROVE  SealedOnce'
<1>0. (\A r \in Runs : r \in Handlers) /\ User \in Handlers /\ Handlers = Runs \cup {User}
  BY DEF Handlers
<1>1. \A q \in Handlers : q # p => h'[q] = h[q] /\ \A e : Sealing(q, e)' <=> Sealing(q, e)
  BY DEF AnyStep, BeginsEnvelope, GoesOn, CreatesEnvelope, OpensEnvelope, SealsEnvelope,
     SealsFurther, LandsAnywhere, Remains, Others, Sealing
<1>i. SealedOnce /\ runId \in Envelopes
  BY DEF AwaitedInv, AnyTypes
<1>2. CASE LandsAnywhere(p)
  <2>1. PICK w : w = h[p].line
    OBVIOUS
  <2>2. \A e \in Envelopes : Grown(e, "run_completed", w)
    BY <1>2, <2>1, LandGrows DEF AwaitedInv
  <2>3. /\ runId' = runId /\ life' = life /\ \A e : ~(Sealing(p, e)')
        /\ h'[p].at = "degrouping" => h[p].at = "degrouping"
    BY <1>2 DEF LandsAnywhere, Sealing
  <2>4. w.event = "run_completed" => Sealing(p, w.env)
    BY <1>2, <2>1, LandsBehind
  <2>5. \A e \in Envelopes : ~(e = w.env /\ w.event = "run_completed") =>
           Places(e, "run_completed")' \subseteq Places(e, "run_completed")
    BY <2>2 DEF Grown
  <2>6. ASSUME NEW q \in Handlers, h'[q].at = "degrouping"
        PROVE  /\ life'.finalized /\ Places(runId, "run_completed")' = {}
               /\ \A z \in Handlers : h'[z].at = "degrouping" => q = z
               /\ \A z \in Handlers : ~(Sealing(z, runId)')
    <3>1. h[q].at = "degrouping"
      BY <1>1, <2>3, <2>6
    <3>2. /\ life.finalized /\ Places(runId, "run_completed") = {}
          /\ \A z \in Handlers : h[z].at = "degrouping" => q = z
          /\ \A z \in Handlers : ~Sealing(z, runId)
      BY <1>i, <3>1 DEF SealedOnce
    <3>3. \A e \in Envelopes : e = runId => Places(e, "run_completed")' = {}
      BY <2>4, <2>5, <3>2
    <3>4. Places(runId, "run_completed")' = {}
      BY <1>i, <2>3, <3>3
    <3>5. \A z \in Handlers : ~(Sealing(z, runId)')
      <4>1. \A z \in Handlers : \A e : e = runId => ~(Sealing(z, e)')
        BY <1>1, <2>3, <3>2
      <4> QED BY <2>3, <4>1 DEF Sealing
    <3> QED BY <1>1, <2>3, <3>2, <3>4, <3>5
  <2>7. ASSUME NEW q \in Handlers, NEW e, Sealing(q, e)'
        PROVE  /\ e \in Envelopes /\ e <= runId /\ Places(e, "run_completed")' = {}
               /\ e = runId => life'.finalized
               /\ \A z \in Handlers : Sealing(z, e)' => q = z
    <3>1. q # p /\ Sealing(q, e)
      BY <1>1, <2>3, <2>7
    <3>2. /\ e \in Envelopes /\ e <= runId /\ Places(e, "run_completed") = {}
          /\ e = runId => life.finalized
          /\ \A z \in Handlers : Sealing(z, e) => q = z
      BY <1>i, <3>1 DEF SealedOnce
    <3>3. ~(e = w.env /\ w.event = "run_completed")
      BY <2>4, <3>1, <3>2
    <3>4. Places(e, "run_completed")' = {}
      BY <2>5, <3>2, <3>3
    <3>5. \A z \in Handlers : Sealing(z, e)' => q = z
      BY <1>1, <2>3, <3>2
    <3> QED BY <2>3, <3>2, <3>4, <3>5
  <2>8. ~life.finalized => Places(runId, "run_completed")' = {}
    <3>1. \A e \in Envelopes : e = runId /\ ~life.finalized => Places(e, "run_completed")' = {}
      BY <1>i, <2>4, <2>5 DEF SealedOnce
    <3> QED BY <1>i, <2>3, <3>1
  <2>9. ASSUME NEW e \in Envelopes PROVE \A i, j \in Places(e, "run_completed")' : i = j
    <3>1. CASE e = w.env /\ w.event = "run_completed"
      <4>1. Places(e, "run_completed") = {}
        BY <1>i, <2>4, <3>1 DEF SealedOnce
      <4> QED BY <2>2, <4>1 DEF Grown
    <3>2. CASE ~(e = w.env /\ w.event = "run_completed")
      BY <1>i, <2>5, <3>2 DEF SealedOnce
    <3> QED BY <3>1, <3>2
  <2> QED BY <2>3, <2>6, <2>7, <2>8, <2>9 DEF SealedOnce
<1>3. CASE BeginsEnvelope(p)
  <2>1. /\ p \in Runs /\ h'[p].at \in Unregistered /\ trace' = trace
        /\ runId' = runId + 1 /\ ~life'.finalized
    BY <1>3 DEF BeginsEnvelope, Begun, Unregistered
  <2>2. \A q \in Handlers : h'[q].at # "degrouping"
    <3>1. \A q \in Runs : q # p => h'[q].at = "idle"
      BY <2>1 DEF Awaited, Unregistered
    <3>2. h'[User].at # "degrouping"
      BY <2>1 DEF Awaited
    <3> QED BY <1>0, <2>1, <3>1, <3>2 DEF Unregistered
  <2>3. \A e, event : Places(e, event)' = Places(e, event)
    BY <2>1, PlacesStay
  <2>4. \A e : ~(Sealing(p, e)')
    BY <2>1 DEF Sealing, Unregistered
  <2>5. Places(runId', "run_completed") = {}
    BY <2>1 DEF AwaitedInv, Ahead, AnyTypes, Envelopes
  <2>6. Places(runId, "run_completed")' = {}
    BY <2>1, <2>5 DEF Places
  <2>7. ASSUME NEW q \in Handlers, NEW e, Sealing(q, e)'
        PROVE  /\ e \in Envelopes /\ e <= runId' /\ Places(e, "run_completed")' = {}
               /\ e # runId' /\ \A z \in Handlers : Sealing(z, e)' => q = z
    <3>1. q # p /\ Sealing(q, e)
      BY <1>1, <2>4, <2>7
    <3>2. /\ e \in Envelopes /\ e <= runId /\ Places(e, "run_completed") = {}
          /\ \A z \in Handlers : Sealing(z, e) => q = z
      BY <1>i, <3>1 DEF SealedOnce
    <3>3. e <= runId' /\ e # runId'
      BY <1>i, <2>1, <3>2 DEF Envelopes
    <3>4. \A z \in Handlers : Sealing(z, e)' => q = z
      BY <1>1, <2>4, <3>2
    <3> QED BY <2>3, <3>2, <3>3, <3>4
  <2> QED BY <1>i, <2>1, <2>2, <2>3, <2>6, <2>7 DEF SealedOnce
<1>4. CASE ~LandsAnywhere(p) /\ ~BeginsEnvelope(p)
  <2>1. trace' = trace /\ runId' = runId
    BY <1>4 DEF AnyStep, GoesOn, CreatesEnvelope, OpensEnvelope, SealsEnvelope, SealsFurther, Remains
  <2>2. \A e, event : Places(e, event)' = Places(e, event)
    BY <2>1, PlacesStay
  <2>3. Places(runId, "run_completed")' = Places(runId, "run_completed")
    BY <2>1 DEF Places
  <2>4. CASE SealsEnvelope(p) \/ SealsFurther(p)
    <3>1. /\ life'.finalized /\ Places(runId, "run_completed") = {}
          /\ \A q \in Handlers : q # p => h[q].at # "degrouping" /\ ~Sealing(q, runId)
      BY <1>i, <2>4 DEF SealsEnvelope, SealsFurther, SealedOnce
    <3>2. \A e : Sealing(p, e)' => e = runId /\ h'[p].at # "degrouping"
      BY <2>4 DEF SealsEnvelope, SealsFurther, Seals, Sealing
    <3>3. \A q \in Handlers : h'[q].at = "degrouping" => q = p
      BY <1>1, <3>1
    <3>4. h'[p].at = "degrouping" => \A q \in Handlers : ~(Sealing(q, runId)')
      <4>1. \A q \in Handlers : h'[p].at = "degrouping" => \A e : e = runId => ~(Sealing(q, e)')
        BY <1>1, <3>1, <3>2
      <4> QED BY <2>1, <4>1 DEF Sealing
    <3>5. ASSUME NEW q \in Handlers, NEW e, Sealing(q, e)'
          PROVE  /\ e \in Envelopes /\ e <= runId /\ Places(e, "run_completed") = {}
                 /\ \A z \in Handlers : Sealing(z, e)' => q = z
      <4>1. CASE q = p
        <5>1. e = runId
          BY <3>2, <3>5, <4>1
        <5> QED BY <1>1, <1>i, <3>1, <4>1, <5>1 DEF Envelopes
      <4>2. CASE q # p
        <5>1. Sealing(q, e) /\ e # runId
          BY <1>1, <3>1, <3>5, <4>2
        <5>2. ~(Sealing(p, e)')
          BY <3>2, <5>1
        <5> QED BY <1>1, <1>i, <5>1, <5>2 DEF SealedOnce
      <4> QED BY <4>1, <4>2
    <3> QED BY <1>i, <2>1, <2>2, <2>3, <3>1, <3>3, <3>4, <3>5 DEF SealedOnce
  <2>5. CASE ~SealsEnvelope(p) /\ ~SealsFurther(p)
    <3>1. life'.finalized <=> life.finalized
      BY <1>4, <2>5 DEF AnyStep, GoesOn, CreatesEnvelope, OpensEnvelope, Remains
    <3>2. /\ \A q \in Handlers : h'[q].at = "degrouping" => h[q].at = "degrouping"
          /\ \A q \in Handlers : \A e : Sealing(q, e)' => Sealing(q, e)
      <4>1. CASE Remains
        BY <4>1 DEF Remains, Sealing
      <4>2. CASE ~Remains
        <5>1. h'[p].at \notin Finalizing
          BY <1>4, <2>5, <4>2 DEF AnyStep, GoesOn, CreatesEnvelope, OpensEnvelope, Finalizing
        <5>2. h'[p].at # "degrouping" /\ \A e : ~(Sealing(p, e)')
          BY <5>1 DEF Sealing, Finalizing
        <5> QED BY <1>1, <5>2
      <4> QED BY <4>1, <4>2
    <3>3. \A q \in Handlers : Sealing(q, runId)' => Sealing(q, runId)
      BY <2>1, <3>2 DEF Sealing
    <3> QED BY <1>i, <2>1, <2>2, <2>3, <3>1, <3>2, <3>3 DEF SealedOnce
  <2> QED BY <2>4, <2>5
<1> QED BY <1>2, <1>3, <1>4

\* The invariant holds initially.
LEMMA AwaitedInit == Init => AwaitedInv
<1> SUFFICES ASSUME Init PROVE AwaitedInv
  OBVIOUS
<1>1. \A p \in Handlers : h[p].at = "idle" /\ h[p].io = "none"
  BY AnyIdle DEF Init
<1>2. User \in Handlers /\ Runs \subseteq Handlers
  BY DEF Handlers
<1>3. \A e \in Envelopes, event \in Events : Places(e, event) = {}
  BY DEF Init, Places
<1>4. ~life.started /\ ~life.finalized /\ runId \in Envelopes
  BY LangChainAssumption DEF Init, createInvocationState, Envelopes
<1>5. AnyTypes /\ NewAtRest
  BY <1>1, <1>2, AnyInit DEF NewAtRest
<1>6. Announced /\ UserSeals
  BY <1>1, <1>2 DEF Announced, UserSeals
<1>7. \A e \in Envelopes : Places(e, "run_started") = {} /\ Places(e, "run_completed") = {}
  BY <1>3 DEF Events
<1>8. Ahead /\ OpenedOnce
  BY <1>1, <1>2, <1>4, <1>7 DEF Ahead, OpenedOnce, Opens
<1>9. SealedOnce
  BY <1>1, <1>4, <1>7 DEF SealedOnce, Sealing
<1> QED BY <1>5, <1>6, <1>8, <1>9 DEF AwaitedInv

\* The invariant is inductive as long as callbacks are awaited.
LEMMA AwaitedStep == AwaitedInv /\ Awaited /\ Awaited' /\ [Next]_vars => AwaitedInv'
<1> SUFFICES ASSUME AwaitedInv, Awaited, Awaited', [Next]_vars PROVE AwaitedInv'
  OBVIOUS
<1>1. CASE Next
  <2>1. AnyTypes' /\ NewAtRest' /\ \E p \in Handlers : AnyStep(p)
    BY <1>1, AnyNext DEF AwaitedInv
  <2>2. PICK p \in Handlers : AnyStep(p)
    BY <2>1
  <2>3. runId' \in Envelopes
    BY <2>1 DEF AnyTypes
  <2> QED BY <2>1, <2>2, <2>3, AnnouncedKept, AheadKept, OpenedKept, SealedKept DEF AwaitedInv
<1>2. CASE UNCHANGED vars
  <2>1. trace' = trace /\ runId' = runId /\ life' = life /\ h' = h /\ phase' = phase
    BY <1>2 DEF vars
  <2>2. AnyTypes' /\ NewAtRest'
    BY <1>2 DEF vars, AwaitedInv, AnyTypes, NewAtRest
  <2>3. Remains /\ User \in Handlers /\ runId' \in Envelopes
    BY <2>1, <2>2 DEF Remains, Handlers, AnyTypes
  <2>4. AnyStep(User)
    BY <2>3 DEF AnyStep
  <2> QED BY <2>2, <2>3, <2>4, AnnouncedKept, AheadKept, OpenedKept, SealedKept DEF AwaitedInv
<1> QED BY <1>1, <1>2

\* Every variable has its type, whoever calls the adapter and when.
THEOREM TypesHold == Spec => []TypeOK
<1>1. Init => AnyTypes /\ NewAtRest
  BY AwaitedInit DEF AwaitedInv
<1>2. AnyTypes /\ NewAtRest /\ [Next]_vars => AnyTypes' /\ NewAtRest'
  <2>1. ASSUME AnyTypes, NewAtRest, UNCHANGED vars PROVE AnyTypes' /\ NewAtRest'
    BY <2>1 DEF vars, AnyTypes, NewAtRest
  <2> QED BY <2>1, AnyNext
<1>3. AnyTypes => TypeOK
  BY AnyTypesAre
<1> QED BY <1>1, <1>2, <1>3, PTL DEF Spec

\* An envelope's file never holds two run_started or two run_completed lines if callbacks are
\* awaited, however often and whenever finalize() is called, whatever agent actions the runs
\* report under their own ids, whichever ends are delivered twice and whoever shares the handler.
THEOREM OneEnvelopeWhenAwaited == Spec /\ []Awaited => []AtMostOneEnvelope
<1>1. ASSUME NEW S, \A i, j \in S : i = j
      PROVE  Cardinality(S) <= 1
  <2>1. S = {} \/ \E x : S = {x}
    BY <1>1
  <2>2. Cardinality(S) = 0 \/ Cardinality(S) = 1
    BY <2>1, FS_EmptySet, FS_Singleton
  <2> QED BY <2>2
<1>2. AwaitedInv => AtMostOneEnvelope
  BY <1>1 DEF AwaitedInv, OpenedOnce, SealedOnce, AtMostOneEnvelope
<1> QED BY <1>2, AwaitedInit, AwaitedStep, PTL DEF Spec
=============================================================================
