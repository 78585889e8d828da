------------------------- MODULE LangChainEnvelope -------------------------
(***************************************************************************)
(* The persistence of the LangChain/LangGraph callback adapter             *)
(* (packages/langchain/src/trace-persistence.ts, invocation-state.ts): the *)
(* framework's callbacks become the lines of one trace file per envelope.  *)
(* Every handler is asynchronous; it is cut here at its awaits.  An await  *)
(* of a file operation takes two steps (the operation lands, the handler   *)
(* resumes); an await of a settled promise takes one, and no file          *)
(* operation resumes a handler while such a microtask is outstanding.      *)
(*                                                                         *)
(* Left out: step names, metadata and parent links; the streaming option   *)
(* (a model call's start persisted with its end); reset(); a handler       *)
(* nested in inspectRun, which owns no envelope; failing file operations.  *)
(***************************************************************************)
EXTENDS Integers, Sequences, FiniteSets

CONSTANTS
  Runs,          \* callback runs: the framework's run ids
  None,          \* no parent, no label
  User,          \* the application calling finalize() or close()
  Parent,        \* [Runs -> Runs \cup {None}]: the run a run is nested in
  Labels, Label, \* [Runs -> Labels \cup {None}]: the semantic parent a run
                 \*   names when its parent was never observed
  Llm,           \* runs whose end carries completionAttributes
  Agents,        \* runs that report one agent action under their own run id
  ParallelRoots, \* do callers share the handler between concurrent calls?
  LateEnds,      \* runs whose end the framework may deliver twice
  MaxFinalizes,  \* bound on the calls of finalize()
  MaxEnvelopes   \* bound on the envelopes

\* root[r] is the outermost run that r is nested in.
IsRoot(root) ==
  \A r \in Runs : root[r] = IF Parent[r] = None THEN r ELSE root[Parent[r]]

ASSUME LangChainAssumption ==
  /\ None \notin Runs /\ None \notin Labels /\ User \notin Runs
  /\ Labels \cap {"run", "point"} = {}
  /\ \E root \in [Runs -> Runs] : IsRoot(root)
  /\ Parent \in [Runs -> Runs \cup {None}]
  /\ Label \in [Runs -> Labels \cup {None}]
  /\ Llm \subseteq Runs /\ Agents \subseteq Runs
  /\ ParallelRoots \in BOOLEAN /\ LateEnds \subseteq Runs
  /\ MaxFinalizes \in Nat /\ MaxEnvelopes \in Nat \ {0}

VARIABLES
  phase,     \* the framework's view: new, open, acted, ended, gone
  runId,     \* #runId: the current envelope
  life,      \* #lifecycle
  stepOf,    \* #lcToStepId: which step of the run its end would close
  siblings,  \* #semanticParentCounts; 2 means #syntheticByLabel has the label
  late,      \* #lateEventCount
  h,         \* the handler in flight for each run, and finalize()
  trace,     \* the lines of each envelope's file
  finalizes  \* calls of finalize() so far

vars == <<phase, runId, life, stepOf, siblings, late, h, trace, finalizes>>

Envelopes == 1..MaxEnvelopes
Handlers == Runs \cup {User}

\* The steps: of a run, of an agent action, of a synthetic group.
RunStep(r) == <<"run", r>>
Line(env, event, step, ok) ==
  [env |-> env, event |-> event, step |-> step, ok |-> ok]
NoLine == Line(0, "none", None, TRUE)

Idle == [at |-> "idle", mode |-> "none", ok |-> TRUE, env |-> 0, gen |-> 0,
         closed |-> {}, io |-> "none", line |-> NoLine]

\* #write(event), initializeTraceFile: the handler waits at 'at' for the file.
Writing(hd, at, line) == [hd EXCEPT !.at = at, !.io = "flight", !.line = line]
\* await of a settled promise
Yielding(hd, at) == [hd EXCEPT !.at = at, !.io = "none", !.line = NoLine]

Landed(p, at) == h[p].at = at /\ h[p].io = "landed"
NoMicrotask == \A p \in Handlers : h[p].at \notin {"resolved", "yielded"}
Returned == \A p \in Handlers : h[p].at = "idle"
---------------------------------------------------------------------------
(***************************************************************************)
(* invocation-state.ts, on the fields the trace depends on.                *)
(***************************************************************************)
createInvocationState ==
  [active |-> {}, failed |-> FALSE, gen |-> 0, started |-> FALSE,
   finalized |-> FALSE]

beginCallbackRun(l, r) ==
  [l EXCEPT !.gen = @ + 1, !.active = @ \cup {r}]

endCallbackRun_LeavesActive(l, r) ==                            \* mutant
  IF r \in l.active THEN [l EXCEPT !.gen = @ + 1] ELSE l

endCallbackRun(l, r) ==
  IF r \in l.active THEN [l EXCEPT !.gen = @ + 1, !.active = @ \ {r}] ELSE l

markEnvelopeStarted(l) == [l EXCEPT !.started = TRUE]

markFinalized_Forgets(l) == l                                   \* mutant

markFinalized(l) == [l EXCEPT !.finalized = TRUE]

noteTerminalError_LastWins(l, ok) == [l EXCEPT !.failed = ~ok]  \* mutant

noteTerminalError(l, ok) == [l EXCEPT !.failed = @ \/ ~ok]

canScheduleFinalize_AnyEnd(l) == l.started /\ ~l.finalized      \* mutant

canScheduleFinalize(l) == l.started /\ ~l.finalized /\ l.active = {}

bumpCompletionGeneration(l) == [l EXCEPT !.gen = @ + 1]

resetInvocationState(l) == [createInvocationState EXCEPT !.gen = l.gen + 1]

NextRunId_Reused(e) == e                                        \* mutant

NextRunId(e) == e + 1

Rotates_Never(l) == FALSE                                       \* mutant

\* #prepareForStart, #prepareCallbackInvocation
Rotates(l) == l.finalized
---------------------------------------------------------------------------
Init ==
  /\ phase = [r \in Runs |-> "new"]
  /\ runId = 1
  /\ life = createInvocationState
  /\ stepOf = [r \in Runs |-> "none"]
  /\ siblings = [l \in Labels |-> 0]
  /\ late = 0
  /\ h = [p \in Handlers |-> Idle]
  /\ trace = [e \in Envelopes |-> <<>>]
  /\ finalizes = 0

\* #maybeAttachSyntheticGroup: the second sibling of a label writes the group.
OpensGroup(s, r) == Label[r] # None /\ s[Label[r]] = 1
CountSibling(s, r) ==
  [l \in Labels |-> IF l = Label[r] /\ s[l] < 2 THEN s[l] + 1 ELSE s[l]]

\* The part of a handler up to its first await: resolve the parent, and either
\* write the group's start or go on in a microtask.
Attach(r, mode, ok, s, e) ==
  /\ siblings' = CountSibling(s, r)
  /\ h' = [h EXCEPT ![r] =
            LET hd == [Idle EXCEPT !.mode = mode, !.ok = ok] IN
            IF OpensGroup(s, r)
              THEN Writing(hd, "grouping",
                     Line(e, "step_started", <<Label[r], e>>, TRUE))
              ELSE Yielding(hd, "resolved")]

\* onStepStart and onInstantStep, up to their first await.
Prepare(r, mode, ok) ==
  IF Rotates(life)
    THEN /\ NextRunId(runId) \in Envelopes
         /\ runId' = NextRunId(runId)
         /\ life' = resetInvocationState(life)
         /\ stepOf' = [q \in Runs |-> "none"]
         /\ late' = 0
         /\ Attach(r, mode, ok, [l \in Labels |-> 0], NextRunId(runId))
    ELSE /\ UNCHANGED <<runId, life, stepOf, late>>
         /\ Attach(r, mode, ok, siblings, runId)
---------------------------------------------------------------------------
(***************************************************************************)
(* The framework's calls.  It awaits every handler, so a run's callbacks   *)
(* do not overlap, a child starts after its parent's start returned, and   *)
(* a run ends after its children.                                          *)
(***************************************************************************)
Open(r) == phase[r] \in {"open", "acted"}
Quiet == Returned /\ \A r \in Runs : ~Open(r)
Children(r) == {c \in Runs : Parent[c] = r}

\* handleChainStart, handleLLMStart, handleToolStart, handleRetrieverStart
StartCalled(r) ==
  /\ phase[r] = "new"
  /\ IF Parent[r] = None THEN ParallelRoots \/ Quiet
                         ELSE Open(Parent[r]) /\ h[Parent[r]].at = "idle"
  /\ Prepare(r, "start", TRUE)
  /\ phase' = [phase EXCEPT ![r] = "open"]
  /\ UNCHANGED <<trace, finalizes>>

\* handleAgentAction, handleAgentEnd: the run id is the enclosing run's.
InstantCalled(r) ==
  /\ r \in Agents /\ phase[r] = "open" /\ h[r].at = "idle"
  /\ Prepare(r, "instant", TRUE)
  /\ phase' = [phase EXCEPT ![r] = "acted"]
  /\ UNCHANGED <<trace, finalizes>>

\* onStepEnd, up to its first await.
StepEnd(r, ok) ==
  IF \/ /\ life.finalized /\ r \notin life.active /\ stepOf[r] = "none"
     \/ /\ stepOf[r] = "none" /\ r \in Llm /\ life.finalized
  THEN /\ late' = late + 1
       /\ UNCHANGED <<siblings, h>>
  ELSE /\ UNCHANGED late
       /\ CASE stepOf[r] # "none" ->
               /\ h' = [h EXCEPT ![r] =
                         Writing([Idle EXCEPT !.mode = "end", !.ok = ok],
                           "completing",
                           Line(runId, "step_completed", <<stepOf[r], r>>, ok))]
               /\ UNCHANGED siblings
            [] stepOf[r] = "none" /\ r \in Llm ->
               Attach(r, "end", ok, siblings, runId)
            [] OTHER -> UNCHANGED <<siblings, h>>

\* handleChainEnd, handleChainError and the like
EndCalled(r, ok) ==
  /\ Open(r) /\ h[r].at = "idle"
  /\ \A c \in Children(r) : phase[c] \in {"ended", "gone"} /\ h[c].at = "idle"
  /\ StepEnd(r, ok)
  /\ phase' = [phase EXCEPT ![r] = "ended"]
  /\ UNCHANGED <<runId, life, stepOf, trace, finalizes>>

\* The end of a run delivered again.
EndRepeated(r, ok) ==
  /\ r \in LateEnds /\ phase[r] = "ended" /\ h[r].at = "idle"
  /\ StepEnd(r, ok)
  /\ phase' = [phase EXCEPT ![r] = "gone"]
  /\ UNCHANGED <<runId, life, stepOf, trace, finalizes>>
---------------------------------------------------------------------------
\* #ensureRunCompleted: the groups' ends one by one, then run_completed; each
\* line names the envelope that is current when it is built.
Groups == {<<l, runId>> : l \in {x \in Labels : siblings[x] = 2}}
Closing(hd) ==
  IF Groups \subseteq hd.closed
    THEN {Writing(hd, "ending", Line(runId, "run_completed", None, hd.ok))}
    ELSE {Writing([hd EXCEPT !.closed = @ \cup {g}], "degrouping",
            Line(runId, "step_completed", g, TRUE)) : g \in Groups \ hd.closed}

\* The operation a handler waits for takes effect on the file.
Land(p) ==
  /\ h[p].io = "flight"
  /\ LET w == h[p].line IN
     trace' = [trace EXCEPT ![w.env] =
                IF w.event = "truncate" THEN <<>> ELSE Append(@, w)]
  /\ h' = [h EXCEPT ![p].io = "landed"]
  /\ UNCHANGED <<phase, runId, life, stepOf, siblings, late, finalizes>>

\* beginCallbackRun, and the first start of the envelope creates its file;
\* any other start goes straight to its own line.
StepLine(r, env) ==
  Line(env, "step_started",
       IF h[r].mode = "instant" THEN <<"point", r>> ELSE RunStep(r), TRUE)
NoteStep(r) ==
  stepOf' = [stepOf EXCEPT ![r] = IF h[r].mode = "instant" THEN "point"
                                                           ELSE "run"]
Register(r) ==
  /\ h[r].at = "resolved" \/ (Landed(r, "grouping") /\ NoMicrotask)
  /\ LET begun == beginCallbackRun(life, r)
         hd == [h[r] EXCEPT !.env = runId] IN
     IF life.started
       THEN /\ life' = begun
            /\ NoteStep(r)
            /\ h' = [h EXCEPT ![r] = Writing(hd, "starting", StepLine(r, runId))]
       ELSE /\ life' = markEnvelopeStarted(begun)
            /\ h' = [h EXCEPT ![r] =
                      Writing(hd, "creating", Line(runId, "truncate", None, TRUE))]
            /\ UNCHANGED stepOf
  /\ UNCHANGED <<phase, runId, siblings, late, trace, finalizes>>

\* #ensureRunStarted after initializeTraceFile
FileCreated(r) ==
  /\ Landed(r, "creating") /\ NoMicrotask
  /\ h' = [h EXCEPT ![r] =
            Writing(h[r], "opening", Line(runId, "run_started", None, TRUE))]
  /\ UNCHANGED <<phase, runId, life, stepOf, siblings, late, trace, finalizes>>

\* An end that had to invent its start built that line before the await.
RunOpened(r) ==
  /\ Landed(r, "opening") /\ NoMicrotask
  /\ NoteStep(r)
  /\ h' = [h EXCEPT ![r] =
            Writing(h[r], "starting",
              StepLine(r, IF h[r].mode = "end" THEN h[r].env ELSE runId))]
  /\ UNCHANGED <<phase, runId, life, siblings, late, trace, finalizes>>

StartPersisted(r) ==
  /\ Landed(r, "starting") /\ NoMicrotask
  /\ h' = [h EXCEPT ![r] =
            IF h[r].mode = "start"
              THEN Idle
              ELSE Writing(h[r], "completing",
                     Line(runId, "step_completed", h[r].line.step, h[r].ok))]
  /\ UNCHANGED <<phase, runId, life, stepOf, siblings, late, trace, finalizes>>

EndPersisted_AwaitsTheLast(r) ==                                \* mutant
  /\ Landed(r, "completing") /\ NoMicrotask
  /\ life.active \subseteq {r}
  /\ life' = markFinalized(endCallbackRun(noteTerminalError(life, h[r].ok), r))
  /\ \E c \in Closing([h[r] EXCEPT !.ok = ~life'.failed]) :
       h' = [h EXCEPT ![r] = c]
  /\ UNCHANGED <<phase, runId, stepOf, siblings, late, trace, finalizes>>

\* noteTerminalError, endCallbackRun, #scheduleStandaloneFinalization
EndPersisted(r) ==
  /\ Landed(r, "completing") /\ NoMicrotask
  /\ LET l == endCallbackRun(noteTerminalError(life, h[r].ok), r) IN
     /\ life' = l
     /\ h' = [h EXCEPT ![r] =
               IF canScheduleFinalize(l)
                 THEN Yielding([h[r] EXCEPT !.gen = l.gen], "yielded")
                 ELSE Idle]
  /\ UNCHANGED <<phase, runId, stepOf, siblings, late, trace, finalizes>>

\* #scheduleStandaloneFinalization after its microtask
FinalizeDeferred(r) ==
  /\ h[r].at = "yielded"
  /\ IF life.gen = h[r].gen /\ canScheduleFinalize(life)
       THEN /\ life' = markFinalized(life)
            /\ \E c \in Closing([h[r] EXCEPT !.ok = ~life.failed]) :
                 h' = [h EXCEPT ![r] = c]
       ELSE /\ h' = [h EXCEPT ![r] = Idle]
            /\ UNCHANGED life
  /\ UNCHANGED <<phase, runId, stepOf, siblings, late, trace, finalizes>>

\* finalize(options), close(): the status the steps had, or the given one.
FinalizeCalled(given) ==
  /\ finalizes < MaxFinalizes /\ h[User].at = "idle"
  /\ life.started /\ ~life.finalized
  /\ LET ok == IF given = "observed" THEN ~life.failed ELSE given = "success"
         l == noteTerminalError(bumpCompletionGeneration(life), ok) IN
     /\ life' = markFinalized(l)
     /\ \E c \in Closing([Idle EXCEPT !.ok = ok]) :
          h' = [h EXCEPT ![User] = c]
  /\ finalizes' = finalizes + 1
  /\ UNCHANGED <<phase, runId, stepOf, siblings, late, trace>>

GroupClosed(p) ==
  /\ Landed(p, "degrouping") /\ NoMicrotask
  /\ \E c \in Closing(h[p]) : h' = [h EXCEPT ![p] = c]
  /\ UNCHANGED <<phase, runId, life, stepOf, siblings, late, trace, finalizes>>

RunClosed(p) ==
  /\ Landed(p, "ending") /\ NoMicrotask
  /\ h' = [h EXCEPT ![p] = Idle]
  /\ UNCHANGED <<phase, runId, life, stepOf, siblings, late, trace, finalizes>>

Resume(p) ==
  \/ GroupClosed(p)
  \/ RunClosed(p)
  \/ /\ p \in Runs
     /\ \/ Register(p) \/ FileCreated(p) \/ RunOpened(p)
        \/ StartPersisted(p) \/ EndPersisted(p) \/ FinalizeDeferred(p)

Call ==
  \/ \E r \in Runs :
       \/ StartCalled(r)
       \/ InstantCalled(r)
       \/ \E ok \in BOOLEAN : EndCalled(r, ok) \/ EndRepeated(r, ok)
  \/ \E given \in {"observed", "success", "error"} : FinalizeCalled(given)

Next == Call \/ \E p \in Handlers : Land(p) \/ Resume(p)

Spec == Init /\ [][Next]_vars

\* File operations complete and the event loop runs what is ready.
FairSpec == Spec /\ \A p \in Handlers : WF_vars(Land(p) \/ Resume(p))
---------------------------------------------------------------------------
Events == {"truncate", "run_started", "run_completed", "step_started",
           "step_completed", "none"}
Steps == ({"run", "point"} \X Runs) \cup (Labels \X Envelopes) \cup {None}
LineType == [env : 0..MaxEnvelopes, event : Events, step : Steps, ok : BOOLEAN]

\* Every variable has its type: a label has at most two counted siblings, and
\* a landed or flying operation names an envelope.
TypeOK ==
  /\ phase \in [Runs -> {"new", "open", "acted", "ended", "gone"}]
  /\ runId \in Envelopes
  /\ life \in [active : SUBSET Runs, failed : BOOLEAN, gen : Nat,
               started : BOOLEAN, finalized : BOOLEAN]
  /\ stepOf \in [Runs -> {"none", "run", "point"}]
  /\ siblings \in [Labels -> 0..2]
  /\ late \in Nat
  /\ h \in [Handlers ->
       [at : {"idle", "resolved", "grouping", "creating", "opening",
              "starting", "completing", "yielded", "degrouping", "ending"},
        mode : {"none", "start", "instant", "end"}, ok : BOOLEAN,
        env : 0..MaxEnvelopes, gen : Nat, closed : SUBSET (Labels \X Envelopes),
        io : {"none", "flight", "landed"}, line : LineType]]
  /\ trace \in [Envelopes -> Seq(LineType)]
  /\ finalizes \in 0..MaxFinalizes

Places(e, event) == {i \in DOMAIN trace[e] : trace[e][i].event = event}

\* docs/LANGGRAPH-FIDELITY.md, rows 1 and 2: an envelope's file never holds two
\* run_started or two run_completed lines, however the deferred completion, repeated ends and
\* the next invocation interleave, and whenever finalize() is called if no two callbacks
\* of parallel nodes are in flight then.
AtMostOneEnvelope ==
  \A e \in Envelopes : /\ Cardinality(Places(e, "run_started")) <= 1
                       /\ Cardinality(Places(e, "run_completed")) <= 1

\* A file opens with its run_started, and every started step precedes its
\* run_completed: the completion is written when no step can still start.  And a
\* start the framework was told is recorded stays in some file: truncating a new
\* envelope's file takes no line that another handler wrote.
WellFormed ==
  /\ \A e \in Envelopes :
       /\ trace[e] # <<>> => trace[e][1].event = "run_started"
       /\ \A i \in Places(e, "run_completed"), j \in Places(e, "step_started") :
            j < i
  /\ \A r \in Runs :
       (phase[r] # "new" /\ h[r].at = "idle")
         => \E e \in Envelopes : \E i \in DOMAIN trace[e] :
              trace[e][i].event = "step_started" /\ trace[e][i].step = RunStep(r)

\* Row 4, and "When the last active LangChain callback ends": the adapter does
\* not complete an envelope on its own while a run it reported is still open.
CompletesWhenAllEnded ==
  \A p \in Runs :
    h[p].at \in {"degrouping", "ending"} =>
      \A r \in Runs : Open(r) => stepOf[r] = "none"

\* Row 2: when every run the framework started has ended and every handler has
\* returned, the envelope is completed in its file; nothing is left to a
\* finalize() that the application may never call.
ClosedAtRest ==
  (Quiet /\ life.started) =>
    life.finalized /\ Places(runId, "run_completed") # {}

\* Row 3: an envelope completes as an error exactly when a step ended in one
\* before its completion; a repeated end may come too late to be observed.
FailedEnds(e, i) ==
  {j \in Places(e, "step_completed") : j < i /\ ~trace[e][j].ok}
FirstEnd(e, j) ==
  \A k \in Places(e, "step_completed") :
    k < j => trace[e][k].step # trace[e][j].step
StatusObserved ==
  \A e \in Envelopes : \A i \in Places(e, "run_completed") :
    IF trace[e][i].ok
      THEN \A j \in FailedEnds(e, i) : ~FirstEnd(e, j)
      ELSE FailedEnds(e, i) # {}

RootOf == CHOOSE root \in [Runs -> Runs] : IsRoot(root)

\* Row 10: a handler used for one call after another does not mix the calls;
\* the steps of one file belong to one call, and a call's steps are in one file.
CallsNotMixed ==
  \A e, f \in Envelopes :
    \A i \in DOMAIN trace[e], j \in DOMAIN trace[f] :
      LET one == trace[e][i].step
          two == trace[f][j].step IN
      (one # None /\ two # None /\ one[1] = "run" /\ two[1] = "run")
        => (e = f <=> RootOf[one[2]] = RootOf[two[2]])

\* Row 11, towards the framework: a callback's promise settles; no handler
\* waits on another one or on a finalize().
HandlersReturn ==
  \A p \in Handlers : (h[p].at # "idle") ~> (h[p].at = "idle")
=============================================================================
