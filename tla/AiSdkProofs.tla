----------------------------- MODULE AiSdkProofs -----------------------------
(***************************************************************************)
(* For any generations, model calls and tool calls, however they overlap,  *)
(* fail and are abandoned: an event is ended again only while its end, or  *)
(* the abandonment of its run, is in flight; generations that do not       *)
(* overlap keep their rows apart, are recorded whole, and leave nothing    *)
(* open behind them.                                                       *)
(***************************************************************************)
EXTENDS AiSdk, FiniteSetTheorems, SequenceTheorems, TLAPS

\* the operations that write the end of something
Abandoning == {"tools", "steps", "run"}
Ending == Abandoning \cup {"endStep", "endTool", "endRun"}
Op == Ending \cup {"idle", "row", "abandoned", "closing"}

Handler == [op : Op, run : Gen \cup {None}, ev : Event \cup {None}, key : Nat]

Entries(K) == [key : K, ev : Event, under : Event, live : BOOLEAN]
LogRow == [ev : Event, at : {"start", "end"}, by : {"own", "close", "overlap"},
           under : Event \cup {None}]

\* TypeOK, with what stands in the Maps, in the log and in a handler.
Typed ==
    /\ phase \in [Gen -> {"idle", "open", "step", "done", "failed"}]
    /\ step \in [Gen -> Nat] /\ \A g \in Gen : step[g] <= Steps[g]
    /\ tool \in [Tool -> {"idle", "running", "ended"}]
    /\ overlapped \in BOOLEAN /\ suspended \in BOOLEAN /\ closed \in BOOLEAN
    /\ active \in Gen \cup {None}
    /\ tools \in [Gen -> Seq(Entries(Tool))]
    /\ steps \in [Gen -> Seq(Entries(Nat))]
    /\ h \in [Strand -> Handler]
    /\ log \in [Gen -> Seq(LogRow)]

\* What a handler that writes a row is about.
Shape(s, at) ==
    /\ at.op \in Ending \cup {"row"} => at.run \in Gen /\ at.ev \in Event
    /\ at.op = "endStep" => \E g \in Gen : at.ev = StepEvent(g, at.key)
    /\ at.op = "endTool" => s \in Tool /\ at.ev = ToolEvent(s)
    /\ at.op = "endRun" => at.ev = RunEvent(at.run)
    /\ at.op = "idle" => at = Idle

MapShapes ==
    /\ \A r \in Gen : \A i \in DOMAIN steps[r] :
          \E g \in Gen : steps[r][i].ev = StepEvent(g, steps[r][i].key)
    /\ \A r \in Gen : \A i \in DOMAIN tools[r] : tools[r][i].ev = ToolEvent(tools[r][i].key)

Shapes == MapShapes /\ \A s \in Strand : Shape(s, h[s])

\* The framework has begun this event.
Begun(e) ==
    \/ \E g \in Gen : e = RunEvent(g) /\ phase[g] # "idle"
    \/ \E g \in Gen : \E n \in 1..step[g] : e = StepEvent(g, n)
    \/ \E x \in Tool : e = ToolEvent(x) /\ tool[x] # "idle"

Known(map) == \A r \in Gen : \A i \in DOMAIN map[r] : Begun(map[r][i].ev)

\* Nothing is recorded of what has not begun.
Fresh ==
    /\ Known(log) /\ Known(steps) /\ Known(tools)
    /\ \A r \in Gen : log[r] # <<>> => phase[r] # "idle"
    /\ \A s \in Strand : h[s].run \in Gen => phase[h[s].run] # "idle"
    /\ active \in Gen => phase[active] # "idle"
    /\ \A g \in Gen : phase[g] = "idle" => h[g] = Idle
    /\ \A x \in Tool : tool[x] = "idle" => h[x] = Idle

OpenIn(map, e) == \E i \in DOMAIN map : map[i].live /\ map[i].ev = e

\* What is ended, and is not being ended, cannot be found any more.
Gone ==
    \A r \in Gen, e \in Event :
        Rows(r, e, "end") # {} /\ ~BeingEnded(r, e) =>
            /\ ~OpenIn(steps[r], e) /\ ~OpenIn(tools[r], e)
            /\ e = RunEvent(r) => active # r

\* Without overlap one generation goes on; its run is the active one, or it is abandoning
\* the active one, or it is ignored; and what it begins goes to its own run.
OneGoesOn == \A f, g \in Gen : GoesOn(f) /\ GoesOn(g) => f = g
ActiveIsMine ==
    \A g \in Gen : phase[g] \in {"open", "step"} /\ active \in Gen \ {g} =>
                       suspended \/ h[g].op \in Abandoning
OwnEntries ==
    /\ \A r \in Gen : \A i \in DOMAIN steps[r] : steps[r][i].ev[2] = r
    /\ \A r \in Gen : \A i \in DOMAIN tools[r] : tools[r][i].ev[2] = r
Apart == ~overlapped => OneGoesOn /\ ActiveIsMine /\ OwnEntries

IInv == Typed /\ Shapes /\ Fresh /\ Gone /\ Apart /\ OwnRows

-----------------------------------------------------------------------------
(* The data                                                                *)

LEMMA EventsAre ==
    /\ \A g \in Gen : RunEvent(g) \in Event
    /\ \A g \in Gen : \A n \in 1..Steps[g] : StepEvent(g, n) \in Event
    /\ \A x \in Tool : ToolEvent(x) \in Event
    /\ \A f, g \in Gen : RunEvent(f) = RunEvent(g) => f = g
    /\ \A f, g, n : RunEvent(f) # StepEvent(g, n)
    /\ \A f, x : RunEvent(f) # ToolEvent(x)
    /\ \A g, n, x : StepEvent(g, n) # ToolEvent(x)
    /\ \A f, g, m, n : StepEvent(f, m) = StepEvent(g, n) => f = g /\ m = n
    /\ \A x, y : ToolEvent(x) = ToolEvent(y) => x = y
<1>1. /\ \A f, g \in Gen : RunEvent(f) = RunEvent(g) => f = g
      /\ \A f, g, n : RunEvent(f) # StepEvent(g, n)
      /\ \A f, x : RunEvent(f) # ToolEvent(x)
      /\ \A g, n, x : StepEvent(g, n) # ToolEvent(x)
      /\ \A f, g, m, n : StepEvent(f, m) = StepEvent(g, n) => f = g /\ m = n
      /\ \A x, y : ToolEvent(x) = ToolEvent(y) => x = y
  BY DEF RunEvent, StepEvent, ToolEvent
<1>2. \A g \in Gen : RunEvent(g) \in RunEvents
  BY DEF RunEvents
<1>3. \A x \in Tool : ToolEvent(x) \in ToolEvents
  BY DEF ToolEvents
<1>4. ASSUME NEW g \in Gen, NEW n \in 1..Steps[g] PROVE StepEvent(g, n) \in StepEvents
  <2> DEFINE Of(f) == {StepEvent(f, m) : m \in 1..Steps[f]}
  <2>1. StepEvent(g, n) \in Of(g)
    OBVIOUS
  <2>2. Of(g) \in {Of(f) : f \in Gen}
    OBVIOUS
  <2>3. StepEvents = UNION {Of(f) : f \in Gen}
    BY DEF StepEvents
  <2> QED BY <2>1, <2>2, <2>3
<1>5. /\ \A g \in Gen : RunEvent(g) \in Event
      /\ \A g \in Gen : \A n \in 1..Steps[g] : StepEvent(g, n) \in Event
      /\ \A x \in Tool : ToolEvent(x) \in Event
  BY <1>2, <1>3, <1>4 DEF Event
<1> QED BY <1>1, <1>5

LEMMA EntryIs ==
    ASSUME NEW K, NEW map \in Seq(Entries(K)), NEW k, IndexOf(map, k) # {}
    PROVE  /\ Entry(map, k) \in Entries(K) /\ Entry(map, k).key = k
           /\ \E i \in DOMAIN map : map[i] = Entry(map, k) /\ map[i].live
<1> DEFINE j == CHOOSE i \in IndexOf(map, k) : TRUE
<1>1. j \in IndexOf(map, k)
  OBVIOUS
<1>2. j \in DOMAIN map /\ map[j].live /\ map[j].key = k
  BY <1>1 DEF IndexOf
<1>3. Entry(map, k) = map[j]
  BY DEF Entry
<1>4. map[j] \in Entries(K)
  BY <1>2
<1> QED BY <1>2, <1>3, <1>4

LEMMA SetEntryIs ==
    ASSUME NEW K, NEW map \in Seq(Entries(K)), NEW k \in K, NEW e \in Event, NEW u \in Event
    PROVE  /\ SetEntry(map, k, e, u) \in Seq(Entries(K))
           /\ \A i \in DOMAIN SetEntry(map, k, e, u) :
                 \/ i \in DOMAIN map /\ SetEntry(map, k, e, u)[i] = map[i]
                 \/ SetEntry(map, k, e, u)[i].key = k /\ SetEntry(map, k, e, u)[i].ev = e
<1> DEFINE new == [key |-> k, ev |-> e, under |-> u, live |-> TRUE]
           set == SetEntry(map, k, e, u)
<1>1. new \in Entries(K)
  BY DEF Entries
<1>4. new.key = k /\ new.ev = e
  OBVIOUS
<1>2. CASE IndexOf(map, k) = {}
  <2>1. set = Append(map, new)
    BY <1>2 DEF SetEntry
  <2> HIDE DEF new
  <2>2. /\ set \in Seq(Entries(K)) /\ Len(set) = Len(map) + 1
        /\ \A i \in 1..Len(map) : set[i] = map[i]
        /\ set[Len(map) + 1] = new
    BY <1>1, <2>1, AppendProperties
  <2>3. DOMAIN set = 1..(Len(map) + 1) /\ DOMAIN map = 1..Len(map) /\ Len(map) \in Nat
    BY <2>2
  <2>4. \A i \in DOMAIN set : set[i] = new \/ (i \in DOMAIN map /\ set[i] = map[i])
    BY <2>2, <2>3
  <2> QED BY <1>4, <2>2, <2>4
<1>3. CASE IndexOf(map, k) # {}
  <2>1. set = [i \in DOMAIN map |-> IF i \in IndexOf(map, k) THEN new ELSE map[i]]
    BY <1>3 DEF SetEntry
  <2> HIDE DEF new
  <2>2. DOMAIN map = 1..Len(map) /\ Len(map) \in Nat
    OBVIOUS
  <2>3. \A i \in 1..Len(map) : set[i] \in Entries(K)
    BY <1>1, <2>1, <2>2
  <2>4. set \in Seq(Entries(K))
    BY <2>1, <2>2, <2>3, IsASeq
  <2>5. \A i \in DOMAIN set : set[i] = new \/ (i \in DOMAIN map /\ set[i] = map[i])
    BY <2>1
  <2> QED BY <1>4, <2>4, <2>5
<1> QED BY <1>2, <1>3

\* Deleting entries leaves what they say, and does not bring any back.
Thinned(map, out) ==
    /\ DOMAIN out = DOMAIN map
    /\ \A i \in DOMAIN map : /\ out[i].ev = map[i].ev /\ out[i].key = map[i].key
                             /\ out[i].live => map[i].live

LEMMA DeleteIs ==
    ASSUME NEW K, NEW map \in Seq(Entries(K)), NEW k
    PROVE  /\ DeleteEntry(map, k) \in Seq(Entries(K)) /\ Thinned(map, DeleteEntry(map, k))
           /\ \A i \in DOMAIN map : map[i].key = k => ~DeleteEntry(map, k)[i].live
           /\ Cleared(map) \in Seq(Entries(K)) /\ Thinned(map, Cleared(map))
           /\ \A i \in DOMAIN map : ~Cleared(map)[i].live
<1>1. DOMAIN map = 1..Len(map) /\ Len(map) \in Nat /\ \A i \in 1..Len(map) : map[i] \in Entries(K)
  OBVIOUS
<1>2. \A i \in 1..Len(map) : [map[i] EXCEPT !.live = FALSE] \in Entries(K)
  BY <1>1 DEF Entries
<1>3. DeleteEntry(map, k) \in Seq(Entries(K)) /\ Cleared(map) \in Seq(Entries(K))
  BY <1>1, <1>2, IsASeq DEF DeleteEntry, Cleared
<1>4. \A i \in 1..Len(map) :
         LET less == [map[i] EXCEPT !.live = FALSE] IN
         less.ev = map[i].ev /\ less.key = map[i].key /\ less.live = FALSE
  BY <1>1 DEF Entries
<1>5. \A i \in 1..Len(map) : map[i].live \in BOOLEAN
  BY <1>1 DEF Entries
<1> QED BY <1>1, <1>3, <1>4, <1>5 DEF DeleteEntry, Cleared, Thinned, IndexOf

-----------------------------------------------------------------------------
(* What a step can be                                                      *)

Wrote(r, e, at) ==
    \E by \in {"own", "close", "overlap"}, u \in Event \cup {None} : Row(r, e, at, by, u)

LEMMA RowIs ==
    ASSUME Typed, NEW r \in Gen, NEW e \in Event, NEW at \in {"start", "end"}, Wrote(r, e, at)
    PROVE  /\ log' \in [Gen -> Seq(LogRow)]
           /\ \A q \in Gen : \A i \in DOMAIN log'[q] :
                 \/ i \in DOMAIN log[q] /\ log'[q][i] = log[q][i]
                 \/ q = r /\ log'[q][i].ev = e /\ log'[q][i].at = at
           /\ \A q \in Gen : \A i \in DOMAIN log[q] :
                 i \in DOMAIN log'[q] /\ log'[q][i] = log[q][i]
<1>1. PICK by \in {"own", "close", "overlap"}, u \in Event \cup {None} : Row(r, e, at, by, u)
  BY DEF Wrote
<1> DEFINE row == [ev |-> e, at |-> at, by |-> by, under |-> u]
<1>2. row \in LogRow /\ row.ev = e /\ row.at = at
  BY DEF LogRow
<1>3. log' = log \/ log' = [log EXCEPT ![r] = Append(@, row)]
  BY <1>1 DEF Row
<1>4. log \in [Gen -> Seq(LogRow)]
  BY DEF Typed
<1> HIDE DEF row
<1>5. CASE log' = log
  BY <1>4, <1>5
<1>6. CASE log' = [log EXCEPT ![r] = Append(@, row)]
  <2>1. /\ Append(log[r], row) \in Seq(LogRow)
        /\ Len(Append(log[r], row)) = Len(log[r]) + 1
        /\ \A i \in 1..Len(log[r]) : Append(log[r], row)[i] = log[r][i]
        /\ Append(log[r], row)[Len(log[r]) + 1] = row
    BY <1>2, <1>4, AppendProperties
  <2>2. log' \in [Gen -> Seq(LogRow)] /\ log'[r] = Append(log[r], row)
        /\ \A q \in Gen \ {r} : log'[q] = log[q]
    BY <1>4, <1>6, <2>1
  <2>3. DOMAIN log[r] = 1..Len(log[r]) /\ Len(log[r]) \in Nat
        /\ DOMAIN log'[r] = 1..(Len(log[r]) + 1)
    BY <1>4, <2>1, <2>2
  <2>4. \A i \in DOMAIN log'[r] : \/ i \in DOMAIN log[r] /\ log'[r][i] = log[r][i]
                                  \/ log'[r][i] = row
    BY <2>1, <2>2, <2>3
  <2>5. \A i \in DOMAIN log[r] : i \in DOMAIN log'[r] /\ log'[r][i] = log[r][i]
    BY <2>1, <2>2, <2>3
  <2> HIDE <1>6
  <2> QED BY <1>2, <2>2, <2>4, <2>5
<1> QED BY <1>3, <1>5, <1>6

LEMMA RowsAre ==
    ASSUME Typed, NEW r \in Gen, NEW e \in Event, NEW at \in {"start", "end"}, Wrote(r, e, at),
           NEW q \in Gen, NEW f, NEW end, q # r \/ f # e \/ end # at
    PROVE  Rows(q, f, end)' = Rows(q, f, end)
BY RowIs DEF Rows

\* Strand s writes the end e of run r, with handler at.
WritesEnd(s, r, e, at) ==
    /\ at \in Handler /\ at.op \in Ending /\ at.run = r /\ at.ev = e /\ Shape(s, at)
    /\ OpenIn(tools[r], e) \/ OpenIn(steps[r], e) \/ e = RunEvent(r)
    /\ Wrote(r, e, "end")
    /\ h' = [h EXCEPT ![s] = at]

\* ... because it is called while r is active, or because it abandons r.
Ends(s, r, e, at) ==
    /\ WritesEnd(s, r, e, at)
    /\ \/ h[s].op \notin Ending /\ active = r
       \/ h[s].op \in {"tools", "steps"} /\ h[s].run = r /\ at.op \in Abandoning
    /\ UNCHANGED <<active, tools, steps, suspended, closed>>

\* Strand s writes the start of e, which begins now, in run r.
Begins(s, r, e, at) ==
    /\ at \in Handler /\ at.op = "row" /\ at.run = r /\ at.ev = e
    /\ ~Begun(e) /\ Begun(e)'
    /\ Apart /\ ~overlapped => e[2] = r
    /\ \/ /\ active = r /\ active' = r
          /\ \/ \E u \in Event, g \in Gen :
                   /\ e = StepEvent(g, at.key)
                   /\ steps' = [steps EXCEPT ![r] = SetEntry(@, at.key, e, u)]
                   /\ tools' = tools
             \/ \E u \in Event, x \in Tool :
                   /\ e = ToolEvent(x)
                   /\ tools' = [tools EXCEPT ![r] = SetEntry(@, x, e, u)]
                   /\ steps' = steps
       \/ /\ active' = r /\ e = RunEvent(r) /\ phase[r] = "idle"
          /\ UNCHANGED <<tools, steps>>
    /\ Wrote(r, e, "start")
    /\ h[s] = Idle /\ h' = [h EXCEPT ![s] = at]
    /\ UNCHANGED <<suspended, closed>>

\* Nothing is written or found anew.
Idles(s, at) ==
    /\ at \in Handler /\ at.op \in {"idle", "abandoned", "closing"} /\ at.run \in {None, h[s].run}
    /\ at.op = "idle" => at = Idle
    /\ h[s].op \notin Ending
    /\ h' = [h EXCEPT ![s] = at]
    /\ active' \in {active, None} /\ closed' \in BOOLEAN /\ suspended' \in BOOLEAN
    /\ UNCHANGED <<tools, steps, log>>

LEMMA AtIs ==
    ASSUME NEW op \in Op, NEW r \in Gen \cup {None}, NEW e \in Event \cup {None}, NEW k \in Nat
    PROVE  /\ At(op, r, e, k) \in Handler
           /\ At(op, r, e, k).op = op /\ At(op, r, e, k).run = r
           /\ At(op, r, e, k).ev = e
BY DEF At, Handler

LEMMA KeyIs == \A op, r, e, k : At(op, r, e, k).key = k
BY DEF At

LEMMA IdleIs == Idle \in Handler /\ Idle.op = "idle" /\ Idle.run = None
BY DEF Idle, At, Handler, Op

LEMMA EndingRunEnds ==
    ASSUME Typed, NEW s \in Strand, NEW r \in Gen, EndRun(s, r)
    PROVE  \E e \in Event, at \in Handler : WritesEnd(s, r, e, at) /\ at.op \in Abandoning
<1> DEFINE at == At("run", r, RunEvent(r), 0)
<1>1. RunEvent(r) \in Event
  BY EventsAre
<1>2. at \in Handler /\ at.op = "run" /\ at.run = r /\ at.ev = RunEvent(r)
  BY <1>1, AtIs DEF Op, Ending, Abandoning
<1>3. h' = [h EXCEPT ![s] = at] /\ Wrote(r, RunEvent(r), "end")
  BY DEF EndRun, Wrote, Reason
<1> HIDE DEF at
<1>4. WritesEnd(s, r, RunEvent(r), at)
  BY <1>1, <1>2, <1>3 DEF WritesEnd, Shape, Ending, Abandoning
<1> QED BY <1>1, <1>2, <1>4 DEF Abandoning

LEMMA EndsEntry ==
    ASSUME Typed, NEW s \in Strand, NEW r \in Gen, NEW map \in {"steps", "tools"}, NEW K,
           NEW entries \in Seq(Entries(K)), NEW i, NEW j \in After(entries, i),
           entries = IF map = "steps" THEN steps[r] ELSE tools[r],
           EndEntry(s, r, map, entries[j], j)
    PROVE  \E e \in Event, at \in Handler : WritesEnd(s, r, e, at) /\ at.op \in Abandoning
<1> DEFINE e == entries[j].ev
           at == At(map, r, e, j)
<1>1. j \in DOMAIN entries /\ entries[j].live /\ j \in Nat
  BY DEF After
<1>2. entries[j] \in Entries(K)
  BY <1>1
<1>3. e \in Event /\ entries[j].under \in Event
  BY <1>2 DEF Entries
<1>4. at \in Handler /\ at.op = map /\ at.run = r /\ at.ev = e
  BY <1>1, <1>3, AtIs DEF Op, Ending, Abandoning
<1>5. h' = [h EXCEPT ![s] = at] /\ Wrote(r, e, "end")
  BY <1>3 DEF EndEntry, Wrote, Reason
<1>6. OpenIn(tools[r], e) \/ OpenIn(steps[r], e)
  BY <1>1 DEF OpenIn
<1> HIDE DEF at, e
<1>7. WritesEnd(s, r, e, at)
  BY <1>3, <1>4, <1>5, <1>6 DEF WritesEnd, Shape, Ending, Abandoning
<1> QED BY <1>3, <1>4, <1>7 DEF Abandoning

LEMMA EndsAfter ==
    ASSUME Typed, NEW s \in Strand, NEW r \in Gen, NEW i,
           EndToolsAfter(s, r, i) \/ EndStepsAfter(s, r, i)
    PROVE  \E e \in Event, at \in Handler : WritesEnd(s, r, e, at) /\ at.op \in Abandoning
<1>1. tools[r] \in Seq(Entries(Tool)) /\ steps[r] \in Seq(Entries(Nat))
  BY DEF Typed
<1>2. ASSUME NEW k, EndStepsAfter(s, r, k)
      PROVE  \E e \in Event, at \in Handler : WritesEnd(s, r, e, at) /\ at.op \in Abandoning
  BY <1>1, <1>2, EndingRunEnds, EndsEntry DEF EndStepsAfter
<1>3. CASE EndToolsAfter(s, r, i)
  BY <1>1, <1>2, <1>3, EndsEntry DEF EndToolsAfter
<1> QED BY <1>2, <1>3

\* Nothing of the integration moves, but a suspension may be lifted.
Rests == UNCHANGED <<active, tools, steps, h, closed, log>> /\ suspended' \in BOOLEAN

FrameworkTyped ==
    /\ phase \in [Gen -> {"idle", "open", "step", "done", "failed"}]
    /\ step \in [Gen -> Nat] /\ \A g \in Gen : step[g] <= Steps[g]
    /\ tool \in [Tool -> {"idle", "running", "ended"}]
    /\ overlapped \in BOOLEAN

LEMMA FrameworkSteps ==
    ASSUME Typed, Next
    PROVE  /\ FrameworkTyped'
           /\ \A g \in Gen : /\ phase[g] # "idle" => phase'[g] # "idle"
                             /\ step[g] <= step'[g]
           /\ \A x \in Tool : tool[x] # "idle" => tool'[x] # "idle"
           /\ overlapped => overlapped'
<1> USE AiSdkAssumption
<1>1. FrameworkTyped
  BY DEF Typed, FrameworkTyped
<1>2. CASE UNCHANGED framework
  BY <1>1, <1>2 DEF framework, FrameworkTyped
<1>3. CASE Resumes
  <2>1. UNCHANGED framework
    BY <1>3 DEF Resumes, AbandonGoesOn, AbandonEnds, RowWritten, Suspend, CloseWriter,
       CloseReturns
  <2> QED BY <1>2, <2>1
<1>4. ASSUME NEW g \in Gen, StartCalled(g)
      PROVE  FrameworkTyped' /\ phase' = [phase EXCEPT ![g] = "open"] /\ UNCHANGED <<step, tool>>
             /\ (overlapped => overlapped')
  <2>1. /\ phase' = [phase EXCEPT ![g] = "open"] /\ UNCHANGED <<step, tool>>
        /\ overlapped' = (overlapped \/ \E o \in Gen : GoesOn(o))
    BY <1>4 DEF StartCalled
  <2>2. overlapped' \in BOOLEAN /\ (overlapped => overlapped')
    BY <1>1, <2>1 DEF FrameworkTyped
  <2> QED BY <1>1, <2>1, <2>2 DEF FrameworkTyped
<1>5. ASSUME NEW g \in Gen, StepStartCalled(g)
      PROVE  FrameworkTyped' /\ phase' = [phase EXCEPT ![g] = "step"]
             /\ step' = [step EXCEPT ![g] = @ + 1] /\ UNCHANGED <<tool, overlapped>>
  BY <1>1, <1>5 DEF StepStartCalled, FrameworkTyped
<1>6. ASSUME NEW g \in Gen, StepFinishCalled(g) \/ FinishCalled(g) \/ Fails(g)
      PROVE  FrameworkTyped' /\ UNCHANGED <<step, tool, overlapped>>
             /\ \E p \in {"open", "done", "failed"} : phase' = [phase EXCEPT ![g] = p]
  BY <1>1, <1>6 DEF StepFinishCalled, FinishCalled, Fails, FrameworkTyped
<1>7. ASSUME NEW x \in Tool, ToolStartCalled(x) \/ ToolFinishCalled(x)
      PROVE  FrameworkTyped' /\ UNCHANGED <<phase, step, overlapped>>
             /\ \E p \in {"running", "ended"} : tool' = [tool EXCEPT ![x] = p]
  BY <1>1, <1>7 DEF ToolStartCalled, ToolFinishCalled, FrameworkTyped
<1>8. CASE CloseCalled
  BY <1>2, <1>8 DEF CloseCalled
<1> QED BY <1>1, <1>3, <1>4, <1>5, <1>6, <1>7, <1>8 DEF Next, Calls, FrameworkTyped

LEMMA BegunStays ==
    ASSUME Typed, Next, NEW e, Begun(e)
    PROVE  Begun(e)'
<1>1. \A g \in Gen : step[g] \in Nat /\ step'[g] \in Nat /\ step[g] <= step'[g]
  BY FrameworkSteps DEF Typed, FrameworkTyped
<1>2. \A g \in Gen : 1..step[g] \subseteq 1..step'[g]
  BY <1>1
<1> QED BY <1>2, FrameworkSteps DEF Begun

-----------------------------------------------------------------------------
Kind ==
    \/ \E s \in Strand, r \in Gen, e \in Event, at \in Handler : Ends(s, r, e, at)
    \/ \E s \in Strand, r \in Gen, e \in Event, at \in Handler : Begins(s, r, e, at)
    \/ \E s \in Strand : AbandonEnds(s) \/ RowWritten(s)
    \/ \E s \in Strand, at \in Handler : Idles(s, at)
    \/ Rests

LEMMA AbandonKind ==
    ASSUME Typed, NEW s \in Strand, active # None, Abandon(s), h[s].op \notin Ending
    PROVE  Kind
<1>1. active \in Gen
  BY DEF Typed
<1>2. PICK e \in Event, at \in Handler : WritesEnd(s, active, e, at)
  BY <1>1, EndsAfter DEF Abandon
<1>3. Ends(s, active, e, at)
  BY <1>2 DEF Ends, Abandon
<1> QED BY <1>1, <1>3 DEF Kind

LEMMA EntryKind ==
    ASSUME Typed, Shapes, NEW s \in Strand, active \in Gen, h[s] = Idle,
           NEW K, NEW map \in Seq(Entries(K)), NEW k, IndexOf(map, k) # {},
           NEW op \in {"endStep", "endTool"}, NEW n \in Nat,
           \/ op = "endStep" /\ map = steps[active] /\ n = k
           \/ op = "endTool" /\ map = tools[active] /\ s = k /\ s \in Tool,
           Row(active, Entry(map, k).ev, "end", "own", Entry(map, k).under),
           h' = [h EXCEPT ![s] = At(op, active, Entry(map, k).ev, n)],
           UNCHANGED <<active, suspended, tools, steps, closed>>
    PROVE  Kind
<1> DEFINE e == Entry(map, k).ev
           at == At(op, active, e, n)
<1>1. Entry(map, k) \in Entries(K) /\ Entry(map, k).key = k
  BY EntryIs
<1>2. PICK i \in DOMAIN map : map[i] = Entry(map, k) /\ map[i].live
  BY EntryIs
<1>3. e \in Event /\ Entry(map, k).under \in Event
  BY <1>1 DEF Entries
<1>4. at \in Handler /\ at.op = op /\ at.run = active /\ at.ev = e
  <2>1. op \in Op /\ active \in Gen \cup {None} /\ e \in Event \cup {None} /\ n \in Nat
    BY <1>3 DEF Op, Ending
  <2> HIDE DEF e
  <2> QED BY <2>1 DEF At, Handler
<1>5. Wrote(active, e, "end")
  BY <1>3 DEF Wrote
<1>6. OpenIn(tools[active], e) \/ OpenIn(steps[active], e)
  BY <1>2 DEF OpenIn
<1>7. /\ op = "endStep" => \E g \in Gen : e = StepEvent(g, n)
      /\ op = "endTool" => s \in Tool /\ e = ToolEvent(s)
  BY <1>1, <1>2 DEF Shapes, MapShapes
<1>11. at.key = n
  BY KeyIs
<1> HIDE DEF at, e
<1>8. Shape(s, at)
  BY <1>3, <1>4, <1>7, <1>11 DEF Shape
<1>9. WritesEnd(s, active, e, at)
  BY <1>4, <1>5, <1>6, <1>8 DEF WritesEnd, Ending, at, e
<1>10. Ends(s, active, e, at)
  BY <1>9, IdleIs DEF Ends, Ending, Abandoning
<1> QED BY <1>3, <1>4, <1>10 DEF Kind

LEMMA StartKind ==
    ASSUME Typed, Fresh, NEW g \in Gen, StartCalled(g)
    PROVE  Kind
<1>1. /\ phase[g] = "idle" /\ phase' = [phase EXCEPT ![g] = "open"]
      /\ \/ active # None /\ Abandon(g)
         \/ active = None /\ suspended /\ Rests
         \/ /\ active = None /\ ~suspended /\ active' = g
            /\ Row(g, RunEvent(g), "start", "own", None)
            /\ h' = [h EXCEPT ![g] = At("row", g, RunEvent(g), 0)]
            /\ UNCHANGED <<suspended, tools, steps, closed>>
  BY DEF StartCalled, Rests, Typed
<1>2. g \in Strand /\ h[g] = Idle
  BY <1>1 DEF Strand, Fresh
<1>3. CASE active # None /\ Abandon(g)
  BY <1>2, <1>3, AbandonKind, IdleIs DEF Ending, Abandoning
<1>4. CASE /\ active' = g
           /\ Row(g, RunEvent(g), "start", "own", None)
           /\ h' = [h EXCEPT ![g] = At("row", g, RunEvent(g), 0)]
           /\ UNCHANGED <<suspended, tools, steps, closed>>
  <2> DEFINE e == RunEvent(g)
             at == At("row", g, e, 0)
  <2>1. e \in Event
    BY EventsAre
  <2>2. at \in Handler /\ at.op = "row" /\ at.run = g /\ at.ev = e
    <3>1. "row" \in Op
      BY DEF Op
    <3> HIDE DEF e
    <3> QED BY <2>1, <3>1, AtIs
  <2>3. ~Begun(e)
    BY <1>1, EventsAre DEF Begun
  <2>4. Begun(e)'
    BY <1>1 DEF Begun, Typed
  <2>5. Wrote(g, e, "start")
    BY <1>4 DEF Wrote
  <2>6. h' = [h EXCEPT ![g] = at]
    BY <1>4
  <2> HIDE DEF at
  <2>8. e[2] = g
    BY DEF RunEvent
  <2>7. Begins(g, g, e, at)
    BY <1>1, <1>2, <1>4, <2>2, <2>3, <2>4, <2>5, <2>6, <2>8 DEF Begins
  <2> QED BY <1>2, <2>1, <2>2, <2>7 DEF Kind
<1> QED BY <1>1, <1>3, <1>4 DEF Kind

LEMMA StepStartKind ==
    ASSUME Typed, NEW g \in Gen, StepStartCalled(g)
    PROVE  Kind
<1>4. PICK n : n = step[g] + 1
  OBVIOUS
<1> DEFINE e == StepEvent(g, n)
           at == At("row", active, e, n)
<1>1. h[g] = Idle /\ step[g] < Steps[g] /\ step' = [step EXCEPT ![g] = n] /\ g \in Strand
  BY <1>4 DEF StepStartCalled, Strand
<1>2. CASE Ignore(g)
  BY <1>2 DEF Ignore, Rests, Kind, Typed
<1>3. CASE ~Ignore(g)
  <2>1. /\ active \in Gen
        /\ steps' = [steps EXCEPT ![active] = SetEntry(@, n, e, RunEvent(active))]
        /\ Row(active, e, "start", "own", RunEvent(active))
        /\ h' = [h EXCEPT ![g] = at]
        /\ UNCHANGED <<active, suspended, tools, closed>>
    BY <1>3, <1>4 DEF StepStartCalled, Typed, Ignored
  <2>2. n \in Nat /\ n \in 1..Steps[g] /\ step[g] \in Nat
    <3>1. step[g] \in Nat /\ Steps[g] \in Nat
      BY AiSdkAssumption DEF Typed
    <3> QED BY <1>1, <1>4, <3>1
  <2>3. e \in Event /\ RunEvent(active) \in Event
    BY <2>1, <2>2, EventsAre
  <2>4. at \in Handler /\ at.op = "row" /\ at.run = active /\ at.ev = e
    <3>1. "row" \in Op /\ n \in Nat /\ active \in Gen \cup {None} /\ e \in Event \cup {None}
      BY <2>1, <2>2, <2>3 DEF Op
    <3> HIDE DEF e
    <3> QED BY <3>1 DEF At, Handler
  <2>5. ~Begun(e)
    BY <1>4, <2>2, EventsAre DEF Begun
  <2>6. Begun(e)'
    <3>1. step'[g] = n
      BY <1>1 DEF Typed
    <3>2. \E m \in 1..step'[g] : e = StepEvent(g, m)
      BY <2>2, <3>1
    <3> HIDE DEF e
    <3> QED BY <3>2 DEF Begun
  <2>7. Wrote(active, e, "start")
    BY <2>1, <2>3 DEF Wrote
  <2>9. at.key = n
    BY KeyIs
  <2>10. Apart /\ ~overlapped => e[2] = active
    <3>1. Apart /\ ~overlapped => active = g
      BY <1>1, <1>3, <2>1, IdleIs DEF StepStartCalled, Apart, ActiveIsMine, Abandoning, Ignored
    <3>2. e[2] = g
      BY DEF StepEvent
    <3> QED BY <3>1, <3>2
  <2> HIDE DEF at, e
  <2>8. Begins(g, active, e, at)
    BY <1>1, <2>1, <2>3, <2>4, <2>5, <2>6, <2>7, <2>9, <2>10 DEF Begins, e
  <2> QED BY <1>1, <2>1, <2>3, <2>4, <2>8 DEF Kind
<1> QED BY <1>2, <1>3

LEMMA ToolStartKind ==
    ASSUME Typed, Fresh, NEW x \in Tool, ToolStartCalled(x)
    PROVE  Kind
<1> DEFINE e == ToolEvent(x)
           map == steps[active]
           n == step[Caller[x]]
           under == IF IndexOf(map, n) = {} THEN RunEvent(active) ELSE Entry(map, n).ev
           at == At("row", active, e, 0)
<1>1. tool[x] = "idle" /\ tool' = [tool EXCEPT ![x] = "running"] /\ x \in Strand
  BY DEF ToolStartCalled, Strand
<1>2. h[x] = Idle
  BY <1>1 DEF Fresh
<1>3. CASE Ignore(x)
  BY <1>3 DEF Ignore, Rests, Kind, Typed
<1>4. CASE ~Ignore(x)
  <2>1. /\ active \in Gen
        /\ tools' = [tools EXCEPT ![active] = SetEntry(@, x, e, under)]
        /\ Row(active, e, "start", "own", under)
        /\ h' = [h EXCEPT ![x] = at]
        /\ UNCHANGED <<active, suspended, steps, closed>>
    BY <1>4 DEF ToolStartCalled, Typed, Ignored
  <2>2. e \in Event
    BY EventsAre
  <2>3. under \in Event
    <3>1. map \in Seq(Entries(Nat))
      BY <2>1 DEF Typed
    <3>2. RunEvent(active) \in Event
      BY <2>1, EventsAre
    <3>3. IndexOf(map, n) # {} => Entry(map, n).ev \in Event
      BY <3>1, EntryIs DEF Entries
    <3> QED BY <3>2, <3>3
  <2>4. at \in Handler /\ at.op = "row" /\ at.run = active /\ at.ev = e
    <3>1. "row" \in Op
      BY DEF Op
    <3> HIDE DEF e
    <3> QED BY <2>1, <2>2, <3>1, AtIs
  <2>5. ~Begun(e)
    BY <1>1, EventsAre DEF Begun
  <2>6. Begun(e)'
    BY <1>1 DEF Begun, Typed
  <2>7. Wrote(active, e, "start")
    BY <2>1, <2>3 DEF Wrote
  <2>9. Apart /\ ~overlapped => e[2] = active
    <3>1. Caller[x] \in Gen
      BY AiSdkAssumption
    <3>2. Apart /\ ~overlapped => active = Caller[x]
      BY <1>4, <2>1, <3>1, IdleIs DEF ToolStartCalled, Apart, ActiveIsMine, Abandoning, Ignored
    <3>3. e[2] = Caller[x]
      BY DEF ToolEvent
    <3> QED BY <3>2, <3>3
  <2> HIDE DEF at, e, under
  <2>8. Begins(x, active, e, at)
    BY <1>1, <1>2, <2>1, <2>3, <2>4, <2>5, <2>6, <2>7, <2>9 DEF Begins, e
  <2> QED BY <1>1, <2>1, <2>2, <2>4, <2>8 DEF Kind
<1> QED BY <1>3, <1>4

LEMMA FinishKinds ==
    ASSUME Typed, Shapes, NEW g \in Gen,
           StepFinishCalled(g) \/ FinishCalled(g) \/ Fails(g)
    PROVE  Kind
<1>1. g \in Strand
  BY DEF Strand
<1>2. CASE Rests
  BY <1>2 DEF Kind
<1>3. CASE StepFinishCalled(g) /\ ~Rests
  <2> DEFINE map == steps[active]
             n == step[g]
  <2>1. /\ h[g] = Idle /\ active \in Gen /\ IndexOf(map, n) # {}
        /\ Row(active, Entry(map, n).ev, "end", "own", Entry(map, n).under)
        /\ h' = [h EXCEPT ![g] = At("endStep", active, Entry(map, n).ev, n)]
        /\ UNCHANGED <<active, suspended, tools, steps, closed>>
    BY <1>3 DEF StepFinishCalled, Ignore, Ignored, Rests, Typed
  <2>2. map \in Seq(Entries(Nat)) /\ n \in Nat
    BY <2>1 DEF Typed
  <2> QED BY <1>1, <2>1, <2>2, EntryKind
<1>4. CASE FinishCalled(g) /\ ~Rests
  <2>1. /\ h[g] = Idle /\ active \in Gen
        /\ Row(active, RunEvent(active), "end", "own", None)
        /\ h' = [h EXCEPT ![g] = At("endRun", active, RunEvent(active), 0)]
        /\ UNCHANGED <<active, suspended, tools, steps, closed>>
    BY <1>4 DEF FinishCalled, Rests, Typed
  <2> DEFINE e == RunEvent(active)
             at == At("endRun", active, e, 0)
  <2>2. e \in Event /\ Wrote(active, e, "end")
    BY <2>1, EventsAre DEF Wrote
  <2>3. at \in Handler /\ at.op = "endRun" /\ at.run = active /\ at.ev = e
    <3>1. "endRun" \in Op
      BY DEF Op, Ending
    <3> HIDE DEF e
    <3> QED BY <2>1, <2>2, <3>1, AtIs
  <2> HIDE DEF at
  <2>4. WritesEnd(g, active, e, at)
    BY <2>1, <2>2, <2>3 DEF WritesEnd, Shape, Ending, at
  <2>5. Ends(g, active, e, at)
    BY <2>1, <2>4, IdleIs DEF Ends, Ending, Abandoning
  <2> QED BY <1>1, <2>1, <2>2, <2>3, <2>5 DEF Kind
<1>5. CASE Fails(g)
  BY <1>5 DEF Fails, Rests, Kind, Typed
<1> QED BY <1>2, <1>3, <1>4, <1>5

LEMMA ToolFinishKind ==
    ASSUME Typed, Shapes, NEW x \in Tool, ToolFinishCalled(x)
    PROVE  Kind
<1>1. x \in Strand
  BY DEF Strand
<1>2. CASE Rests
  BY <1>2 DEF Kind
<1>3. CASE ~Rests
  <2> DEFINE map == tools[active]
  <2>1. /\ h[x] = Idle /\ active \in Gen /\ IndexOf(map, x) # {}
        /\ Row(active, Entry(map, x).ev, "end", "own", Entry(map, x).under)
        /\ h' = [h EXCEPT ![x] = At("endTool", active, Entry(map, x).ev, 0)]
        /\ UNCHANGED <<active, suspended, tools, steps, closed>>
    BY <1>3 DEF ToolFinishCalled, Ignore, Ignored, Rests, Typed
  <2>2. map \in Seq(Entries(Tool))
    BY <2>1 DEF Typed
  <2> QED BY <1>1, <2>1, <2>2, EntryKind
<1> QED BY <1>2, <1>3

LEMMA IdlesAt ==
    ASSUME Typed, NEW s \in Strand, h[s].op \notin Ending,
           NEW op \in {"idle", "abandoned", "closing"},
           h' = [h EXCEPT ![s] = At(op, None, None, 0)],
           active' \in {active, None}, closed' \in BOOLEAN, suspended' \in BOOLEAN,
           UNCHANGED <<tools, steps, log>>
    PROVE  Kind
<1>1. op \in Op /\ (op = "idle" => At(op, None, None, 0) = Idle)
  BY DEF Op, Idle
<1>2. /\ At(op, None, None, 0) \in Handler /\ At(op, None, None, 0).op = op
      /\ At(op, None, None, 0).run = None
  BY <1>1, AtIs
<1>3. Idles(s, At(op, None, None, 0))
  BY <1>1, <1>2 DEF Idles
<1> QED BY <1>2, <1>3 DEF Kind

LEMMA Kinds ==
    ASSUME Typed, Shapes, Fresh, Next
    PROVE  Kind
<1>1. Closer \in Strand /\ \A g \in Gen : g \in Strand
  BY DEF Strand
<1>2. ASSUME NEW s \in Strand, AbandonGoesOn(s) PROVE Kind
  <2>1. h[s].run \in Gen /\ h[s].op \in {"tools", "steps"}
    BY <1>2 DEF AbandonGoesOn, Shapes, Shape, Ending, Abandoning
  <2> DEFINE r == h[s].run
  <2>2. PICK e \in Event, at \in Handler : WritesEnd(s, r, e, at) /\ at.op \in Abandoning
    <3>1. EndToolsAfter(s, r, h[s].key) \/ EndStepsAfter(s, r, h[s].key)
      BY <1>2 DEF AbandonGoesOn
    <3> HIDE DEF r
    <3> QED BY <2>1, <3>1, EndsAfter DEF r
  <2>3. Ends(s, r, e, at)
    BY <1>2, <2>1, <2>2 DEF Ends, AbandonGoesOn
  <2> QED BY <2>1, <2>3 DEF Kind
<1>3. ASSUME NEW g \in Gen, Suspend(g) PROVE Kind
  <2>1. /\ h[g].op \notin Ending /\ h' = [h EXCEPT ![g] = At("idle", None, None, 0)]
        /\ active' = active /\ closed' \in BOOLEAN /\ suspended' \in BOOLEAN
        /\ UNCHANGED <<tools, steps, log>>
    BY <1>3 DEF Suspend, Idle, Typed, Ending, Abandoning
  <2> QED BY <1>1, <2>1, IdlesAt
<1>4. CASE CloseWriter
  <2>1. /\ h[Closer].op \notin Ending /\ h' = [h EXCEPT ![Closer] = At("closing", None, None, 0)]
        /\ active' = active /\ closed' \in BOOLEAN /\ suspended' \in BOOLEAN
        /\ UNCHANGED <<tools, steps, log>>
    BY <1>4 DEF CloseWriter, Typed, Ending, Abandoning
  <2> QED BY <1>1, <2>1, IdlesAt
<1>5. CASE CloseReturns
  <2>1. /\ h[Closer].op \notin Ending /\ h' = [h EXCEPT ![Closer] = At("idle", None, None, 0)]
        /\ active' = None /\ closed' \in BOOLEAN /\ suspended' \in BOOLEAN
        /\ UNCHANGED <<tools, steps, log>>
    BY <1>5 DEF CloseReturns, Idle, Typed, Ending, Abandoning
  <2> QED BY <1>1, <2>1, IdlesAt
<1>6. CASE CloseCalled
  <2>1. h[Closer] = Idle /\ h[Closer].op \notin Ending
    BY <1>6, IdleIs DEF CloseCalled, Ending, Abandoning
  <2>2. CASE active # None /\ Abandon(Closer)
    BY <1>1, <2>1, <2>2, AbandonKind
  <2>3. CASE ~(active # None /\ Abandon(Closer))
    <3>1. /\ h' = [h EXCEPT ![Closer] = At("closing", None, None, 0)]
          /\ active' = active /\ closed' \in BOOLEAN /\ suspended' \in BOOLEAN
          /\ UNCHANGED <<tools, steps, log>>
      BY <1>6, <2>3 DEF CloseCalled, Typed
    <3> QED BY <1>1, <2>1, <3>1, IdlesAt
  <2> QED BY <2>2, <2>3
<1>7. ASSUME NEW s \in Strand, AbandonEnds(s) \/ RowWritten(s) PROVE Kind
  BY <1>7 DEF Kind
<1> QED
  BY <1>2, <1>3, <1>4, <1>5, <1>6, <1>7, StartKind, StepStartKind, ToolStartKind, FinishKinds,
     ToolFinishKind DEF Next, Resumes, Calls

-----------------------------------------------------------------------------
(* The invariant                                                           *)

\* What becomes of the Maps, whatever the step: entries are kept, thinned, or one is set.
LEMMA BeginsMaps ==
    ASSUME Typed, Fresh, NEW s \in Strand, NEW r \in Gen, NEW e \in Event, NEW at \in Handler,
           Begins(s, r, e, at)
    PROVE  /\ tools' \in [Gen -> Seq(Entries(Tool))] /\ steps' \in [Gen -> Seq(Entries(Nat))]
           /\ \A q \in Gen : \A i \in DOMAIN steps'[q] :
                 \/ i \in DOMAIN steps[q] /\ steps'[q][i] = steps[q][i]
                 \/ /\ q = r /\ steps'[q][i].ev = e
                    /\ \E g \in Gen : e = StepEvent(g, steps'[q][i].key)
           /\ \A q \in Gen : \A i \in DOMAIN tools'[q] :
                 \/ i \in DOMAIN tools[q] /\ tools'[q][i] = tools[q][i]
                 \/ q = r /\ tools'[q][i].ev = e /\ e = ToolEvent(tools'[q][i].key)
<1>1. tools \in [Gen -> Seq(Entries(Tool))] /\ steps \in [Gen -> Seq(Entries(Nat))]
  BY DEF Typed
<1>2. CASE tools' = tools /\ steps' = steps
  BY <1>1, <1>2
<1>3. ASSUME NEW u \in Event, NEW g \in Gen, e = StepEvent(g, at.key),
             steps' = [steps EXCEPT ![r] = SetEntry(@, at.key, e, u)], tools' = tools
      PROVE  /\ steps' \in [Gen -> Seq(Entries(Nat))]
             /\ \A q \in Gen : \A i \in DOMAIN steps'[q] :
                   \/ i \in DOMAIN steps[q] /\ steps'[q][i] = steps[q][i]
                   \/ /\ q = r /\ steps'[q][i].ev = e
                      /\ \E f \in Gen : e = StepEvent(f, steps'[q][i].key)
  <2>1. PICK keys, k : keys = Nat /\ k = at.key
    OBVIOUS
  <2> DEFINE set == SetEntry(steps[r], k, e, u)
  <2>2. steps[r] \in Seq(Entries(keys)) /\ k \in keys
    BY <1>1, <2>1 DEF Handler
  <2>3. set \in Seq(Entries(keys))
        /\ \A i \in DOMAIN set : \/ i \in DOMAIN steps[r] /\ set[i] = steps[r][i]
                                 \/ set[i].key = k /\ set[i].ev = e
    BY <2>2, SetEntryIs
  <2>4. steps'[r] = set /\ \A q \in Gen \ {r} : steps'[q] = steps[q]
    BY <1>1, <1>3, <2>1
  <2>5. steps' \in [Gen -> Seq(Entries(Nat))]
    BY <1>1, <1>3, <2>1, <2>3
  <2> HIDE DEF set
  <2> QED BY <1>3, <2>1, <2>3, <2>4, <2>5
<1>4. ASSUME NEW u \in Event, NEW x \in Tool, e = ToolEvent(x),
             tools' = [tools EXCEPT ![r] = SetEntry(@, x, e, u)], steps' = steps
      PROVE  /\ tools' \in [Gen -> Seq(Entries(Tool))]
             /\ \A q \in Gen : \A i \in DOMAIN tools'[q] :
                   \/ i \in DOMAIN tools[q] /\ tools'[q][i] = tools[q][i]
                   \/ q = r /\ tools'[q][i].ev = e /\ e = ToolEvent(tools'[q][i].key)
  <2> DEFINE set == SetEntry(tools[r], x, e, u)
  <2>1. set \in Seq(Entries(Tool))
        /\ \A i \in DOMAIN set : \/ i \in DOMAIN tools[r] /\ set[i] = tools[r][i]
                                 \/ set[i].key = x /\ set[i].ev = e
    BY <1>1, SetEntryIs
  <2>2. tools'[r] = set /\ \A q \in Gen \ {r} : tools'[q] = tools[q]
    BY <1>1, <1>4
  <2>3. tools' \in [Gen -> Seq(Entries(Tool))]
    BY <1>1, <1>4, <2>1
  <2> HIDE DEF set
  <2> QED BY <1>4, <2>1, <2>2, <2>3
<1> QED BY <1>1, <1>2, <1>3, <1>4 DEF Begins

LEMMA ThinnedMaps ==
    ASSUME Typed, NEW s \in Strand, AbandonEnds(s) \/ RowWritten(s)
    PROVE  /\ tools' \in [Gen -> Seq(Entries(Tool))] /\ steps' \in [Gen -> Seq(Entries(Nat))]
           /\ \A q \in Gen : Thinned(steps[q], steps'[q]) /\ Thinned(tools[q], tools'[q])
<1>1. tools \in [Gen -> Seq(Entries(Tool))] /\ steps \in [Gen -> Seq(Entries(Nat))]
  BY DEF Typed
<1>2. \A q \in Gen : \A k :
         /\ DeleteEntry(steps[q], k) \in Seq(Entries(Nat)) /\ Cleared(steps[q]) \in Seq(Entries(Nat))
         /\ DeleteEntry(tools[q], k) \in Seq(Entries(Tool)) /\ Cleared(tools[q]) \in Seq(Entries(Tool))
         /\ Thinned(steps[q], DeleteEntry(steps[q], k)) /\ Thinned(steps[q], Cleared(steps[q]))
         /\ Thinned(tools[q], DeleteEntry(tools[q], k)) /\ Thinned(tools[q], Cleared(tools[q]))
  BY <1>1, DeleteIs
<1>3. \A map : Thinned(map, map)
  BY DEF Thinned
<1>4. \/ steps' = steps
      \/ \E q, k : steps' = [steps EXCEPT ![q] = DeleteEntry(@, k)]
      \/ \E q : steps' = [steps EXCEPT ![q] = Cleared(@)]
  BY DEF AbandonEnds, RowWritten
<1>5. \/ tools' = tools
      \/ \E q, k : tools' = [tools EXCEPT ![q] = DeleteEntry(@, k)]
      \/ \E q : tools' = [tools EXCEPT ![q] = Cleared(@)]
  BY DEF AbandonEnds, RowWritten
<1>6. steps' \in [Gen -> Seq(Entries(Nat))] /\ \A q \in Gen : Thinned(steps[q], steps'[q])
  <2>1. CASE steps' = steps
    BY <1>1, <1>3, <2>1
  <2>2. ASSUME NEW q, NEW k, steps' = [steps EXCEPT ![q] = DeleteEntry(@, k)]
        PROVE  /\ steps' \in [Gen -> Seq(Entries(Nat))]
               /\ \A p \in Gen : Thinned(steps[p], steps'[p])
    <3>1. \A p \in Gen : steps'[p] = IF p = q THEN DeleteEntry(steps[p], k) ELSE steps[p]
      BY <1>1, <2>2
    <3> QED BY <1>1, <1>2, <1>3, <2>2, <3>1
  <2>3. ASSUME NEW q, steps' = [steps EXCEPT ![q] = Cleared(@)]
        PROVE  /\ steps' \in [Gen -> Seq(Entries(Nat))]
               /\ \A p \in Gen : Thinned(steps[p], steps'[p])
    <3>1. \A p \in Gen : steps'[p] = IF p = q THEN Cleared(steps[p]) ELSE steps[p]
      BY <1>1, <2>3
    <3> QED BY <1>1, <1>2, <1>3, <2>3, <3>1
  <2> QED BY <1>4, <2>1, <2>2, <2>3
<1>7. tools' \in [Gen -> Seq(Entries(Tool))] /\ \A q \in Gen : Thinned(tools[q], tools'[q])
  <2>1. CASE tools' = tools
    BY <1>1, <1>3, <2>1
  <2>2. ASSUME NEW q, NEW k, tools' = [tools EXCEPT ![q] = DeleteEntry(@, k)]
        PROVE  /\ tools' \in [Gen -> Seq(Entries(Tool))]
               /\ \A p \in Gen : Thinned(tools[p], tools'[p])
    <3>1. \A p \in Gen : tools'[p] = IF p = q THEN DeleteEntry(tools[p], k) ELSE tools[p]
      BY <1>1, <2>2
    <3> QED BY <1>1, <1>2, <1>3, <2>2, <3>1
  <2>3. ASSUME NEW q, tools' = [tools EXCEPT ![q] = Cleared(@)]
        PROVE  /\ tools' \in [Gen -> Seq(Entries(Tool))]
               /\ \A p \in Gen : Thinned(tools[p], tools'[p])
    <3>1. \A p \in Gen : tools'[p] = IF p = q THEN Cleared(tools[p]) ELSE tools[p]
      BY <1>1, <2>3
    <3> QED BY <1>1, <1>2, <1>3, <2>3, <3>1
  <2> QED BY <1>5, <2>1, <2>2, <2>3
<1> QED BY <1>6, <1>7

LEMMA TypeStep ==
    ASSUME Typed, Shapes, Fresh, Next
    PROVE  Typed'
<1>1. FrameworkTyped'
  BY FrameworkSteps
<1>2. /\ h \in [Strand -> Handler] /\ log \in [Gen -> Seq(LogRow)]
      /\ tools \in [Gen -> Seq(Entries(Tool))] /\ steps \in [Gen -> Seq(Entries(Nat))]
      /\ active \in Gen \cup {None} /\ suspended \in BOOLEAN /\ closed \in BOOLEAN
  BY DEF Typed
<1> DEFINE Rest == /\ h' \in [Strand -> Handler] /\ log' \in [Gen -> Seq(LogRow)]
                   /\ tools' \in [Gen -> Seq(Entries(Tool))]
                   /\ steps' \in [Gen -> Seq(Entries(Nat))]
                   /\ active' \in Gen \cup {None} /\ suspended' \in BOOLEAN /\ closed' \in BOOLEAN
<1>3. ASSUME NEW s \in Strand, NEW r \in Gen, NEW e \in Event, NEW at \in Handler,
             Ends(s, r, e, at)
      PROVE  Rest
  <2>1. log' \in [Gen -> Seq(LogRow)]
    BY <1>3, RowIs DEF Ends, WritesEnd
  <2> QED BY <1>2, <1>3, <2>1 DEF Ends, WritesEnd
<1>4. ASSUME NEW s \in Strand, NEW r \in Gen, NEW e \in Event, NEW at \in Handler,
             Begins(s, r, e, at)
      PROVE  Rest
  <2>1. log' \in [Gen -> Seq(LogRow)]
    BY <1>4, RowIs DEF Begins
  <2>2. tools' \in [Gen -> Seq(Entries(Tool))] /\ steps' \in [Gen -> Seq(Entries(Nat))]
    BY <1>4, BeginsMaps
  <2> QED BY <1>2, <1>4, <2>1, <2>2 DEF Begins
<1>5. ASSUME NEW s \in Strand, AbandonEnds(s) \/ RowWritten(s) PROVE Rest
  <2>1. tools' \in [Gen -> Seq(Entries(Tool))] /\ steps' \in [Gen -> Seq(Entries(Nat))]
    BY <1>5, ThinnedMaps
  <2>2. [h[s] EXCEPT !.op = "abandoned"] \in Handler
    BY <1>2 DEF Handler, Op
  <2>3. h' \in [Strand -> Handler]
    BY <1>2, <1>5, <2>2, IdleIs DEF AbandonEnds, RowWritten
  <2> QED BY <1>2, <1>5, <2>1, <2>3 DEF AbandonEnds, RowWritten
<1>6. ASSUME NEW s \in Strand, NEW at \in Handler, Idles(s, at) PROVE Rest
  BY <1>2, <1>6 DEF Idles
<1>7. ASSUME Rests PROVE Rest
  BY <1>2, <1>7 DEF Rests
<1> HIDE DEF Rest
<1>8. Rest
  BY <1>3, <1>4, <1>5, <1>6, <1>7, Kinds DEF Kind
<1> QED BY <1>1, <1>8 DEF Rest, Typed, FrameworkTyped

LEMMA ShapesStep ==
    ASSUME Typed, Shapes, Fresh, Next
    PROVE  Shapes'
<1>1. h \in [Strand -> Handler]
  BY DEF Typed
<1>2. ASSUME NEW s \in Strand, NEW at, h' = [h EXCEPT ![s] = at], Shape(s, at)
      PROVE  \A x \in Strand : Shape(x, h'[x])
  BY <1>1, <1>2 DEF Shapes
<1>3. MapShapes
  BY DEF Shapes
<1>4. ASSUME UNCHANGED <<steps, tools>> PROVE MapShapes'
  BY <1>3, <1>4 DEF MapShapes
<1>5. ASSUME NEW s \in Strand, NEW r \in Gen, NEW e \in Event, NEW at \in Handler,
             Ends(s, r, e, at)
      PROVE  Shapes'
  <2>1. \A x \in Strand : Shape(x, h'[x])
    BY <1>2, <1>5 DEF Ends, WritesEnd
  <2> QED BY <1>4, <1>5, <2>1 DEF Ends, Shapes, Shape
<1>6. ASSUME NEW s \in Strand, NEW r \in Gen, NEW e \in Event, NEW at \in Handler,
             Begins(s, r, e, at)
      PROVE  Shapes'
  <2>1. Shape(s, at)
    BY <1>6 DEF Begins, Shape
  <2>2. \A x \in Strand : Shape(x, h'[x])
    BY <1>2, <1>6, <2>1 DEF Begins
  <2>3. \A q \in Gen : \A i \in DOMAIN steps'[q] :
           \E g \in Gen : steps'[q][i].ev = StepEvent(g, steps'[q][i].key)
    <3> SUFFICES ASSUME NEW q \in Gen, NEW i \in DOMAIN steps'[q]
                 PROVE  \E g \in Gen : steps'[q][i].ev = StepEvent(g, steps'[q][i].key)
      OBVIOUS
    <3>1. \/ i \in DOMAIN steps[q] /\ steps'[q][i] = steps[q][i]
          \/ /\ steps'[q][i].ev = e
             /\ \E g \in Gen : e = StepEvent(g, steps'[q][i].key)
      BY <1>6, BeginsMaps
    <3>2. i \in DOMAIN steps[q] => \E g \in Gen : steps[q][i].ev = StepEvent(g, steps[q][i].key)
      BY <1>3 DEF MapShapes
    <3> QED BY <3>1, <3>2
  <2>4. \A q \in Gen : \A i \in DOMAIN tools'[q] :
           tools'[q][i].ev = ToolEvent(tools'[q][i].key)
    BY <1>3, <1>6, BeginsMaps DEF MapShapes
  <2>5. MapShapes'
    BY <2>3, <2>4 DEF MapShapes
  <2> QED BY <2>2, <2>5 DEF Shapes, Shape
<1>7. ASSUME NEW s \in Strand, AbandonEnds(s) \/ RowWritten(s)
      PROVE  Shapes'
  <2>1. [h[s] EXCEPT !.op = "abandoned"].op = "abandoned"
    BY <1>1 DEF Handler
  <2>2. Shape(s, Idle) /\ Shape(s, [h[s] EXCEPT !.op = "abandoned"])
    BY <2>1, IdleIs DEF Shape, Ending, Abandoning
  <2>3. \A x \in Strand : Shape(x, h'[x])
    BY <1>2, <1>7, <2>2 DEF AbandonEnds, RowWritten
  <2>4. \A q \in Gen : Thinned(steps[q], steps'[q]) /\ Thinned(tools[q], tools'[q])
    BY <1>7, ThinnedMaps
  <2>5. \A q \in Gen : \A i \in DOMAIN steps'[q] :
           \E g \in Gen : steps'[q][i].ev = StepEvent(g, steps'[q][i].key)
    <3> SUFFICES ASSUME NEW q \in Gen, NEW i \in DOMAIN steps'[q]
                 PROVE  \E g \in Gen : steps'[q][i].ev = StepEvent(g, steps'[q][i].key)
      OBVIOUS
    <3>1. i \in DOMAIN steps[q] /\ steps'[q][i].ev = steps[q][i].ev /\ steps'[q][i].key = steps[q][i].key
      BY <2>4 DEF Thinned
    <3>2. \E g \in Gen : steps[q][i].ev = StepEvent(g, steps[q][i].key)
      BY <1>3, <3>1 DEF MapShapes
    <3> QED BY <3>1, <3>2
  <2>6. \A q \in Gen : \A i \in DOMAIN tools'[q] :
           tools'[q][i].ev = ToolEvent(tools'[q][i].key)
    <3> SUFFICES ASSUME NEW q \in Gen, NEW i \in DOMAIN tools'[q]
                 PROVE  tools'[q][i].ev = ToolEvent(tools'[q][i].key)
      OBVIOUS
    <3>1. i \in DOMAIN tools[q] /\ tools'[q][i].ev = tools[q][i].ev /\ tools'[q][i].key = tools[q][i].key
      BY <2>4 DEF Thinned
    <3> QED BY <1>3, <3>1 DEF MapShapes
  <2>7. MapShapes'
    BY <2>5, <2>6 DEF MapShapes
  <2> QED BY <2>3, <2>7 DEF Shapes, Shape
<1>8. ASSUME NEW s \in Strand, NEW at \in Handler, Idles(s, at) PROVE Shapes'
  <2>1. Shape(s, at)
    BY <1>8 DEF Idles, Shape, Ending, Abandoning
  <2>2. \A x \in Strand : Shape(x, h'[x])
    BY <1>2, <1>8, <2>1 DEF Idles
  <2> QED BY <1>4, <1>8, <2>2 DEF Idles, Shapes, Shape
<1>9. CASE Rests
  BY <1>4, <1>9 DEF Rests, Shapes, Shape
<1> QED BY <1>5, <1>6, <1>7, <1>8, <1>9, Kinds DEF Kind

\* A handler moves only for a callback that has been made.
LEMMA Touches ==
    ASSUME Typed, Shapes, Fresh, Next
    PROVE  \A s \in Strand :
              h'[s] # h[s] => /\ s \in Gen => phase'[s] # "idle" /\ (GoesOn(s) \/ StartCalled(s))
                              /\ s \in Tool => tool'[s] # "idle"
<1>1. h \in [Strand -> Handler] /\ phase \in [Gen -> {"idle", "open", "step", "done", "failed"}]
      /\ tool \in [Tool -> {"idle", "running", "ended"}]
  BY DEF Typed
<1>2. \A g \in Gen : h[g] # Idle => phase'[g] # "idle"
  BY FrameworkSteps DEF Fresh
<1>3. \A x \in Tool : h[x] # Idle => tool'[x] # "idle"
  BY FrameworkSteps DEF Fresh
<1>4. ASSUME NEW s \in Strand, active # None, Abandon(s)
      PROVE  \A x \in Strand : h'[x] # h[x] => x = s
  <2>1. active \in Gen
    BY <1>4 DEF Typed
  <2>2. PICK e \in Event, at \in Handler : WritesEnd(s, active, e, at)
    BY <1>4, <2>1, EndsAfter DEF Abandon
  <2> QED BY <1>1, <2>2 DEF WritesEnd
<1>5. ASSUME NEW s \in Strand, AbandonGoesOn(s)
      PROVE  h[s] # Idle /\ \A x \in Strand : h'[x] # h[x] => x = s
  <2>1. h[s].run \in Gen /\ h[s] # Idle
    BY <1>5, IdleIs DEF AbandonGoesOn, Shapes, Shape, Ending, Abandoning
  <2>2. PICK r \in Gen : r = h[s].run
    BY <2>1
  <2>3. EndToolsAfter(s, r, h[s].key) \/ EndStepsAfter(s, r, h[s].key)
    BY <1>5, <2>2 DEF AbandonGoesOn
  <2>4. PICK e \in Event, at \in Handler : WritesEnd(s, r, e, at)
    BY <2>3, EndsAfter
  <2> QED BY <1>1, <2>1, <2>4 DEF WritesEnd
<1>6. CASE Resumes
  <2>1. \A s \in Strand : h'[s] # h[s] => h[s] # Idle
    BY <1>1, <1>5, <1>6, IdleIs DEF Resumes, AbandonEnds, RowWritten, Suspend, CloseWriter,
       CloseReturns
  <2> QED BY <1>2, <1>3, <2>1 DEF GoesOn
<1>7. ASSUME NEW g \in Gen, StartCalled(g)
      PROVE  phase'[g] # "idle" /\ \A x \in Strand : h'[x] # h[x] => x = g
  <2>1. g \in Strand
    BY DEF Strand
  <2> QED BY <1>1, <1>4, <1>7, <2>1 DEF StartCalled
<1>8. ASSUME NEW g \in Gen,
             StepStartCalled(g) \/ StepFinishCalled(g) \/ FinishCalled(g) \/ Fails(g)
      PROVE  /\ phase'[g] # "idle" /\ GoesOn(g)
             /\ \A x \in Strand : h'[x] # h[x] => x = g
  BY <1>1, <1>8 DEF StepStartCalled, StepFinishCalled, FinishCalled, Fails, Ignore, GoesOn
<1>9. ASSUME NEW t \in Tool, ToolStartCalled(t) \/ ToolFinishCalled(t)
      PROVE  tool'[t] # "idle" /\ \A x \in Strand : h'[x] # h[x] => x = t
  BY <1>1, <1>9 DEF ToolStartCalled, ToolFinishCalled, Ignore
<1>10. CASE CloseCalled
  <2>1. \A x \in Strand : h'[x] # h[x] => x = Closer
    BY <1>1, <1>4, <1>10 DEF CloseCalled, Strand
  <2> QED BY <2>1, AiSdkAssumption
<1> QED
  BY <1>6, <1>7, <1>8, <1>9, <1>10, AiSdkAssumption DEF Next, Calls

LEMMA KnownStays ==
    ASSUME Typed, Next
    PROVE  /\ Known(log) /\ log' = log => Known(log)'
           /\ Known(steps) /\ steps' = steps => Known(steps)'
           /\ Known(tools) /\ tools' = tools => Known(tools)'
BY BegunStays DEF Known

\* A row is written in a run that has begun, of an event that has begun.
LEMMA EndsFresh ==
    ASSUME Typed, Shapes, Fresh, NEW s \in Strand, NEW r \in Gen, NEW e \in Event,
           NEW at \in Handler, Ends(s, r, e, at)
    PROVE  Begun(e) /\ phase[r] # "idle"
<1>1. phase[r] # "idle"
  BY DEF Ends, Fresh
<1>2. Known(steps) /\ Known(tools)
  BY DEF Fresh
<1>3. OpenIn(tools[r], e) \/ OpenIn(steps[r], e) \/ e = RunEvent(r)
  BY DEF Ends, WritesEnd
<1>4. OpenIn(tools[r], e) => Begun(e)
  BY <1>2 DEF OpenIn, Known
<1>5. OpenIn(steps[r], e) => Begun(e)
  BY <1>2 DEF OpenIn, Known
<1>6. e = RunEvent(r) => Begun(e)
  BY <1>1 DEF Begun
<1> QED BY <1>1, <1>3, <1>4, <1>5, <1>6

LEMMA BeginsFresh ==
    ASSUME Typed, Fresh, Next, NEW s \in Strand, NEW r \in Gen, NEW e \in Event,
           NEW at \in Handler, Begins(s, r, e, at)
    PROVE  phase'[r] # "idle"
<1>1. CASE active = r
  BY <1>1, FrameworkSteps DEF Fresh
<1>2. CASE e = RunEvent(r)
  BY <1>2, EventsAre DEF Begins, Begun
<1> QED BY <1>1, <1>2 DEF Begins

LEMMA RowKnown ==
    ASSUME Typed, Known(log), Next, NEW r \in Gen, NEW e \in Event, NEW at \in {"start", "end"},
           Wrote(r, e, at), Begun(e)', phase'[r] # "idle",
           \A q \in Gen : log[q] # <<>> => phase[q] # "idle"
    PROVE  Known(log)' /\ \A q \in Gen : log'[q] # <<>> => phase'[q] # "idle"
<1>1. log' \in [Gen -> Seq(LogRow)] /\ log \in [Gen -> Seq(LogRow)]
  BY RowIs DEF Typed
<1>2. \A q \in Gen : \A i \in DOMAIN log'[q] :
         \/ i \in DOMAIN log[q] /\ log'[q][i] = log[q][i]
         \/ q = r /\ log'[q][i].ev = e
  BY RowIs
<1>3. ASSUME NEW q \in Gen, NEW i \in DOMAIN log'[q]
      PROVE  \E f : f = log'[q][i].ev /\ Begun(f)'
  BY <1>2, BegunStays DEF Known
<1>4. ASSUME NEW q \in Gen, log'[q] # <<>> PROVE phase'[q] # "idle"
  <2>1. 1 \in DOMAIN log'[q]
    BY <1>1, <1>4
  <2>2. CASE q = r
    BY <2>2
  <2>3. CASE q # r
    <3>1. 1 \in DOMAIN log[q]
      BY <1>2, <2>1, <2>3
    <3>2. log[q] # <<>>
      BY <3>1
    <3> QED BY <3>2, FrameworkSteps
  <2> QED BY <2>2, <2>3
<1>5. Known(log)'
  BY <1>3 DEF Known, Begun
<1> QED BY <1>4, <1>5

LEMMA FreshStep ==
    ASSUME Typed, Shapes, Fresh, Next
    PROVE  Fresh'
<1>1. /\ Known(log) /\ Known(steps) /\ Known(tools)
      /\ \A r \in Gen : log[r] # <<>> => phase[r] # "idle"
      /\ \A s \in Strand : h[s].run \in Gen => phase[h[s].run] # "idle"
      /\ active \in Gen => phase[active] # "idle"
      /\ h \in [Strand -> Handler] /\ None \notin Gen
  BY AiSdkAssumption DEF Fresh, Typed
<1>2. \A g \in Gen : phase[g] # "idle" => phase'[g] # "idle"
  BY FrameworkSteps
<1>3. /\ \A g \in Gen : phase'[g] = "idle" => h'[g] = Idle
      /\ \A x \in Tool : tool'[x] = "idle" => h'[x] = Idle
  <2>1. \A s \in Gen \cup Tool : s \in Strand
    BY DEF Strand
  <2>2. ASSUME NEW g \in Gen, phase'[g] = "idle" PROVE h'[g] = Idle
    <3>1. h[g] = Idle
      BY <2>2, <1>2 DEF Fresh
    <3>2. h'[g] = h[g]
      <4>1. g \in Strand
        BY <2>1
      <4>2. h'[g] # h[g] => phase'[g] # "idle"
        BY <4>1, Touches
      <4> QED BY <2>2, <4>2
    <3> QED BY <3>1, <3>2
  <2>3. ASSUME NEW x \in Tool, tool'[x] = "idle" PROVE h'[x] = Idle
    <3>1. h[x] = Idle
      BY <2>3, FrameworkSteps DEF Fresh
    <3>2. h'[x] = h[x]
      <4>1. x \in Strand
        BY <2>1
      <4>2. h'[x] # h[x] => tool'[x] # "idle"
        BY <4>1, Touches
      <4> QED BY <2>3, <4>2
    <3> QED BY <3>1, <3>2
  <2> QED BY <2>2, <2>3
<1> DEFINE RunsKnown == \A s \in Strand : h[s].run \in Gen => phase[h[s].run] # "idle"
           LogsKnown == \A r \in Gen : log[r] # <<>> => phase[r] # "idle"
           ActiveKnown == active \in Gen => phase[active] # "idle"
           Rest == Known(log) /\ Known(steps) /\ Known(tools) /\ RunsKnown /\ LogsKnown /\ ActiveKnown
<1>4. ASSUME NEW s \in Strand, NEW at, h' = [h EXCEPT ![s] = at],
             at.run \in Gen => phase'[at.run] # "idle"
      PROVE  RunsKnown'
  BY <1>1, <1>2, <1>4
<1>5. ASSUME NEW s \in Strand, NEW r \in Gen, NEW e \in Event, NEW at \in Handler,
             Ends(s, r, e, at)
      PROVE  Rest'
  <2>1. Begun(e)' /\ phase'[r] # "idle"
    BY <1>2, <1>5, EndsFresh, BegunStays
  <2>2. Known(log)' /\ LogsKnown'
    BY <1>1, <1>5, <2>1, RowKnown DEF Ends, WritesEnd
  <2>3. RunsKnown'
    BY <1>4, <1>5, <2>1 DEF Ends, WritesEnd
  <2>4. Known(steps)' /\ Known(tools)' /\ ActiveKnown'
    BY <1>1, <1>2, <1>5, KnownStays DEF Ends
  <2> QED BY <2>2, <2>3, <2>4
<1>6. ASSUME NEW s \in Strand, NEW r \in Gen, NEW e \in Event, NEW at \in Handler,
             Begins(s, r, e, at)
      PROVE  Rest'
  <2>1. Begun(e)' /\ phase'[r] # "idle"
    <3>1. phase'[r] # "idle"
      BY <1>6, BeginsFresh
    <3> QED BY <1>6, <3>1 DEF Begins
  <2>2. Known(log)' /\ LogsKnown'
    BY <1>1, <1>6, <2>1, RowKnown DEF Begins
  <2>3. RunsKnown'
    BY <1>4, <1>6, <2>1 DEF Begins
  <2>4. ActiveKnown'
    BY <1>6, <2>1 DEF Begins
  <2>5. ASSUME NEW q \in Gen, NEW i \in DOMAIN steps'[q] 
        PROVE \E f : f = steps'[q][i].ev /\ Begun(f)'
    <3>1. (i \in DOMAIN steps[q] /\ steps'[q][i] = steps[q][i]) \/ steps'[q][i].ev = e
      BY <1>6, BeginsMaps
    <3>2. i \in DOMAIN steps[q] => Begun(steps[q][i].ev)
      BY <1>1 DEF Known
    <3> QED BY <2>1, <3>1, <3>2, BegunStays
  <2>6. ASSUME NEW q \in Gen, NEW i \in DOMAIN tools'[q] 
        PROVE \E f : f = tools'[q][i].ev /\ Begun(f)'
    <3>1. (i \in DOMAIN tools[q] /\ tools'[q][i] = tools[q][i]) \/ tools'[q][i].ev = e
      BY <1>6, BeginsMaps
    <3>2. i \in DOMAIN tools[q] => Begun(tools[q][i].ev)
      BY <1>1 DEF Known
    <3> QED BY <2>1, <3>1, <3>2, BegunStays
  <2>7. Known(steps)' /\ Known(tools)'
    BY <2>5, <2>6 DEF Known, Begun
  <2> QED BY <2>2, <2>3, <2>4, <2>7
<1>7. ASSUME NEW s \in Strand, AbandonEnds(s) \/ RowWritten(s)
      PROVE  Rest'
  <2>1. log' = log /\ active' \in {active, None}
    BY <1>7 DEF AbandonEnds, RowWritten
  <2>2. Known(log)' /\ LogsKnown' /\ ActiveKnown'
    BY <1>1, <1>2, <2>1, KnownStays
  <2>3. PICK at : h' = [h EXCEPT ![s] = at] /\ at.run \in {None, h[s].run}
    <3>1. [h[s] EXCEPT !.op = "abandoned"].run = h[s].run
      BY <1>1 DEF Handler
    <3> QED BY <1>7, <3>1, IdleIs DEF AbandonEnds, RowWritten
  <2>4. RunsKnown'
    BY <1>1, <1>2, <1>4, <2>3
  <2>5. /\ \A q \in Gen : Thinned(steps[q], steps'[q])
        /\ \A q \in Gen : Thinned(tools[q], tools'[q])
    BY <1>7, ThinnedMaps
  <2>6. ASSUME NEW q \in Gen, NEW i \in DOMAIN steps'[q]
        PROVE \E f : f = steps'[q][i].ev /\ Begun(f)'
    BY <1>1, <2>5, BegunStays DEF Thinned, Known
  <2>7. ASSUME NEW q \in Gen, NEW i \in DOMAIN tools'[q]
        PROVE \E f : f = tools'[q][i].ev /\ Begun(f)'
    BY <1>1, <2>5, BegunStays DEF Thinned, Known
  <2>8. Known(steps)' /\ Known(tools)'
    BY <2>6, <2>7 DEF Known, Begun
  <2> QED BY <2>2, <2>4, <2>8
<1>8. ASSUME NEW s \in Strand, NEW at \in Handler, Idles(s, at) PROVE Rest'
  <2>1. RunsKnown'
    BY <1>1, <1>2, <1>4, <1>8 DEF Idles
  <2>2. Known(log)' /\ Known(steps)' /\ Known(tools)' /\ LogsKnown' /\ ActiveKnown'
    BY <1>1, <1>2, <1>8, KnownStays DEF Idles
  <2> QED BY <2>1, <2>2
<1>9. ASSUME Rests PROVE Rest'
  BY <1>1, <1>2, <1>9, KnownStays DEF Rests
<1> HIDE DEF Rest
<1>10. Rest'
  BY <1>5, <1>6, <1>7, <1>8, <1>9, Kinds DEF Kind
<1> QED BY <1>3, <1>10 DEF Rest, Fresh

\* Who is ending an event goes on doing so, as long as only other handlers move.
LEMMA StillEnding ==
    ASSUME Typed, NEW s \in Strand, NEW at, h' = [h EXCEPT ![s] = at],
           NEW q \in Gen, NEW f, BeingEnded(q, f),
           ~(h[s].op \in Ending /\ h[s].run = q /\ (h[s].op \in Abandoning \/ h[s].ev = f))
    PROVE  BeingEnded(q, f)'
<1>1. h \in [Strand -> Handler]
  BY DEF Typed
<1>2. PICK x \in Strand : /\ h[x].run = q /\ h[x].op \in Ending
                          /\ h[x].op \in Abandoning \/ h[x].ev = f
  BY DEF BeingEnded, Ending, Abandoning
<1>3. x # s
  BY <1>2
<1>4. h'[x] = h[x]
  BY <1>1, <1>3
<1> QED BY <1>2, <1>4 DEF BeingEnded, Ending, Abandoning

LEMMA RowsKnown ==
    ASSUME Fresh, NEW r \in Gen, NEW e, Rows(r, e, "end") # {}
    PROVE  Begun(e) /\ phase[r] # "idle"
<1>1. PICK i \in DOMAIN log[r] : log[r][i].ev = e
  BY DEF Rows
<1>2. log[r] # <<>>
  BY <1>1
<1> QED BY <1>1, <1>2 DEF Fresh, Known

LEMMA GoneEnds ==
    ASSUME Typed, Gone, NEW s \in Strand, NEW r \in Gen, NEW e \in Event, NEW at \in Handler,
           Ends(s, r, e, at)
    PROVE  Gone'
<1> SUFFICES ASSUME NEW q \in Gen, NEW f \in Event, Rows(q, f, "end")' # {}, ~BeingEnded(q, f)'
             PROVE  /\ ~OpenIn(steps[q], f)' /\ ~OpenIn(tools[q], f)'
                    /\ f = RunEvent(q) => active' # q
  BY DEF Gone
<1>1. h' = [h EXCEPT ![s] = at] /\ h'[s] = at
  BY DEF Ends, WritesEnd, Typed
<1>2. at.op \in Ending /\ at.run = r /\ at.ev = e
  BY DEF Ends, WritesEnd
<1>3. ~(q = r /\ f = e) /\ ~(q = r /\ at.op \in Abandoning)
  BY <1>1, <1>2 DEF BeingEnded, Ending, Abandoning
<1>4. Rows(q, f, "end")' = Rows(q, f, "end")
  BY <1>3, RowsAre DEF Ends, WritesEnd
<1>5. ~BeingEnded(q, f)
  BY <1>1, <1>3, StillEnding DEF Ends
<1> QED BY <1>4, <1>5 DEF Gone, Ends, OpenIn

LEMMA GoneBegins ==
    ASSUME Typed, Fresh, Gone, NEW s \in Strand, NEW r \in Gen, NEW e \in Event,
           NEW at \in Handler, Begins(s, r, e, at)
    PROVE  Gone'
<1> SUFFICES ASSUME NEW q \in Gen, NEW f \in Event, Rows(q, f, "end")' # {}, ~BeingEnded(q, f)'
             PROVE  /\ ~OpenIn(steps[q], f)' /\ ~OpenIn(tools[q], f)'
                    /\ f = RunEvent(q) => active' # q
  BY DEF Gone
<1>1. Rows(q, f, "end")' = Rows(q, f, "end")
  BY RowsAre DEF Begins
<1>2. ~BeingEnded(q, f)
  BY StillEnding, IdleIs DEF Begins, Ending, Abandoning
<1>3. /\ ~OpenIn(steps[q], f) /\ ~OpenIn(tools[q], f)
      /\ f = RunEvent(q) => active # q
  BY <1>1, <1>2 DEF Gone
<1>4. Begun(f) /\ phase[q] # "idle"
  BY <1>1, RowsKnown
<1>5. f # e
  BY <1>4 DEF Begins
<1>6. ~OpenIn(steps[q], f)'
  BY <1>3, <1>5, BeginsMaps DEF OpenIn
<1>7. ~OpenIn(tools[q], f)'
  BY <1>3, <1>5, BeginsMaps DEF OpenIn
<1>8. f = RunEvent(q) => active' # q
  BY <1>3, <1>4 DEF Begins
<1> QED BY <1>6, <1>7, <1>8

LEMMA GoneWritten ==
    ASSUME Typed, Shapes, Gone, NEW s \in Strand, AbandonEnds(s) \/ RowWritten(s)
    PROVE  Gone'
<1> SUFFICES ASSUME NEW q \in Gen, NEW f \in Event, Rows(q, f, "end")' # {}, ~BeingEnded(q, f)'
             PROVE  /\ ~OpenIn(steps[q], f)' /\ ~OpenIn(tools[q], f)'
                    /\ f = RunEvent(q) => active' # q
  BY DEF Gone
<1>1. /\ \A p \in Gen : Thinned(steps[p], steps'[p]) /\ Thinned(tools[p], tools'[p])
      /\ steps \in [Gen -> Seq(Entries(Nat))] /\ tools \in [Gen -> Seq(Entries(Tool))]
  BY ThinnedMaps DEF Typed
<1>2. OpenIn(steps[q], f)' => OpenIn(steps[q], f)
  BY <1>1 DEF OpenIn, Thinned
<1>3. OpenIn(tools[q], f)' => OpenIn(tools[q], f)
  BY <1>1 DEF OpenIn, Thinned
<1>4. Rows(q, f, "end")' = Rows(q, f, "end") /\ active' \in {active, None}
  BY DEF AbandonEnds, RowWritten, Rows
<1>5. CASE ~BeingEnded(q, f)
  BY <1>2, <1>3, <1>4, <1>5, AiSdkAssumption DEF Gone
<1>6. CASE BeingEnded(q, f)
  <2>1. PICK at : h' = [h EXCEPT ![s] = at]
    BY DEF AbandonEnds, RowWritten
  <2>2. /\ h[s].op \in Ending /\ h[s].run = q
        /\ h[s].op \in Abandoning \/ h[s].ev = f
    BY <1>6, <2>1, StillEnding
  <2>3. CASE AbandonEnds(s)
    <3>1. steps'[q] = Cleared(steps[q]) /\ tools'[q] = Cleared(tools[q]) /\ active' = None
      BY <1>1, <2>2, <2>3 DEF AbandonEnds
    <3>2. /\ steps[q] \in Seq(Entries(Nat)) /\ tools[q] \in Seq(Entries(Tool))
          /\ Thinned(steps[q], Cleared(steps[q])) /\ Thinned(tools[q], Cleared(tools[q]))
          /\ \A i \in DOMAIN steps[q] : ~Cleared(steps[q])[i].live
          /\ \A i \in DOMAIN tools[q] : ~Cleared(tools[q])[i].live
      BY <1>1, DeleteIs
    <3> QED BY <3>1, <3>2, AiSdkAssumption DEF OpenIn, Thinned
  <2>4. CASE RowWritten(s)
    <3>1. h[s].op \in {"endStep", "endTool", "endRun"} /\ h[s].ev = f
      BY <2>2, <2>4 DEF RowWritten, Ending, Abandoning
    <3>2. /\ \A i \in DOMAIN steps[q] : \E g \in Gen : steps[q][i].ev = StepEvent(g, steps[q][i].key)
          /\ \A i \in DOMAIN tools[q] : tools[q][i].ev = ToolEvent(tools[q][i].key)
          /\ Shape(s, h[s])
      BY DEF Shapes, MapShapes
    <3>3. CASE h[s].op = "endStep"
      <4>1. PICK g \in Gen : f = StepEvent(g, h[s].key)
        BY <3>1, <3>2, <3>3 DEF Shape
      <4>2. steps'[q] = DeleteEntry(steps[q], h[s].key) /\ tools' = tools
        BY <1>1, <2>2, <2>4, <3>3 DEF RowWritten
      <4>3. \A i \in DOMAIN steps[q] : steps[q][i].ev = f => steps[q][i].key = h[s].key
        BY <3>2, <4>1, EventsAre
      <4>4. \A i \in DOMAIN steps[q] : steps[q][i].key = h[s].key => ~steps'[q][i].live
        BY <1>1, <4>2, DeleteIs
      <4>5. ~OpenIn(steps[q], f)'
        BY <1>1, <4>3, <4>4 DEF OpenIn, Thinned
      <4>6. ~OpenIn(tools[q], f)'
        BY <3>2, <4>1, <4>2, EventsAre DEF OpenIn
      <4>7. f # RunEvent(q)
        BY <4>1, EventsAre
      <4> QED BY <4>5, <4>6, <4>7
    <3>4. CASE h[s].op = "endTool"
      <4>1. s \in Tool /\ f = ToolEvent(s)
        BY <3>1, <3>2, <3>4 DEF Shape
      <4>2. tools'[q] = DeleteEntry(tools[q], s) /\ steps' = steps
        BY <1>1, <2>2, <2>4, <3>4 DEF RowWritten
      <4>3. \A i \in DOMAIN tools[q] : tools[q][i].ev = f => tools[q][i].key = s
        BY <3>2, <4>1, EventsAre
      <4>4. \A i \in DOMAIN tools[q] : tools[q][i].key = s => ~tools'[q][i].live
        BY <1>1, <4>2, DeleteIs
      <4>5. ~OpenIn(tools[q], f)'
        <5>1. Thinned(tools[q], tools'[q])
          BY <1>1
        <5> QED BY <4>3, <4>4, <5>1 DEF OpenIn, Thinned
      <4>6. ~OpenIn(steps[q], f)'
        BY <3>2, <4>1, <4>2, EventsAre DEF OpenIn
      <4>7. f # RunEvent(q)
        BY <4>1, EventsAre
      <4> QED BY <4>5, <4>6, <4>7
    <3>5. CASE h[s].op = "endRun"
      <4>1. f = RunEvent(q) /\ active' = None /\ steps' = steps /\ tools' = tools
        BY <2>2, <2>4, <3>1, <3>2, <3>5 DEF Shape, RowWritten
      <4>2. ~OpenIn(steps[q], f)' /\ ~OpenIn(tools[q], f)'
        BY <3>2, <4>1, EventsAre DEF OpenIn
      <4> QED BY <4>1, <4>2, AiSdkAssumption
    <3> QED BY <3>1, <3>3, <3>4, <3>5
  <2> QED BY <2>3, <2>4
<1> QED BY <1>5, <1>6

LEMMA GoneStep ==
    ASSUME Typed, Shapes, Fresh, Gone, Next
    PROVE  Gone'
<1>1. ASSUME NEW s \in Strand, NEW at \in Handler, Idles(s, at)
      PROVE  Gone'
  <2>1. \A q \in Gen, f \in Event : BeingEnded(q, f) => BeingEnded(q, f)'
    BY <1>1, StillEnding DEF Idles
  <2>2. active' \in {active, None} /\ UNCHANGED <<steps, tools, log>>
    BY <1>1 DEF Idles
  <2> QED BY <2>1, <2>2, AiSdkAssumption DEF Gone, Rows, OpenIn
<1>2. CASE Rests
  BY <1>2 DEF Rests, Gone, Rows, OpenIn, BeingEnded
<1> QED BY <1>1, <1>2, GoneEnds, GoneBegins, GoneWritten, Kinds DEF Kind

\* What EndsOnce says of a step.
LEMMA EndsOnceStep ==
    ASSUME Typed, Shapes, Fresh, Gone, Next, NEW q \in Gen, NEW f \in Event,
           Rows(q, f, "end") # {}, Rows(q, f, "end")' # Rows(q, f, "end")
    PROVE  BeingEnded(q, f)
<1>1. ASSUME NEW s \in Strand, NEW r \in Gen, NEW e \in Event, NEW at \in Handler,
             Ends(s, r, e, at)
      PROVE  BeingEnded(q, f)
  <2>1. q = r /\ f = e
    BY <1>1, RowsAre DEF Ends, WritesEnd
  <2>2. CASE h[s].op \in {"tools", "steps"} /\ h[s].run = r
    BY <2>1, <2>2 DEF BeingEnded
  <2>3. CASE active = r
    <3>1. OpenIn(tools[r], e) \/ OpenIn(steps[r], e) \/ e = RunEvent(r)
      BY <1>1 DEF Ends, WritesEnd
    <3> QED BY <2>1, <2>3, <3>1 DEF Gone
  <2> QED BY <1>1, <2>2, <2>3 DEF Ends
<1>2. ASSUME NEW s \in Strand, NEW r \in Gen, NEW e \in Event, NEW at \in Handler,
             Begins(s, r, e, at)
      PROVE  FALSE
  BY <1>2, RowsAre DEF Begins
<1>3. ASSUME NEW s \in Strand, AbandonEnds(s) \/ RowWritten(s) PROVE FALSE
  BY <1>3 DEF AbandonEnds, RowWritten, Rows
<1>4. ASSUME NEW s \in Strand, NEW at \in Handler, Idles(s, at) PROVE FALSE
  BY <1>4 DEF Idles, Rows
<1>5. ASSUME Rests PROVE FALSE
  BY <1>5 DEF Rests, Rows
<1> QED BY <1>1, <1>2, <1>3, <1>4, <1>5, Kinds DEF Kind

-----------------------------------------------------------------------------
(* One generation at a time                                                *)

\* What the framework's own state allows a step to do to the generations.
LEMMA Phases ==
    ASSUME Typed, Shapes, Fresh, Next
    PROVE  \/ \E g \in Gen : StartCalled(g)
           \/ \E g \in Gen : FinishCalled(g)
           \/ /\ \A g \in Gen : phase'[g] \in {"open", "step"} => phase[g] \in {"open", "step"}
              /\ \A g \in Gen : phase[g] = "idle" => phase'[g] = "idle"
              /\ suspended => suspended' \/ active' = None
<1>1. phase \in [Gen -> {"idle", "open", "step", "done", "failed"}]
  BY DEF Typed
<1>2. CASE Resumes
  BY <1>2 DEF Resumes, AbandonGoesOn, AbandonEnds, RowWritten, Suspend, CloseWriter,
     CloseReturns, framework
<1>3. CASE CloseCalled
  BY <1>3 DEF CloseCalled, Abandon, framework
<1>4. ASSUME NEW g \in Gen, StepStartCalled(g) \/ StepFinishCalled(g) \/ Fails(g)
      PROVE  /\ \A f \in Gen : phase'[f] \in {"open", "step"} => phase[f] \in {"open", "step"}
             /\ \A f \in Gen : phase[f] = "idle" => phase'[f] = "idle"
             /\ suspended' = suspended
  BY <1>1, <1>4 DEF StepStartCalled, StepFinishCalled, Fails, Ignore
<1>5. ASSUME NEW x \in Tool, ToolStartCalled(x) \/ ToolFinishCalled(x)
      PROVE  phase' = phase /\ suspended' = suspended
  BY <1>5 DEF ToolStartCalled, ToolFinishCalled, Ignore
<1> QED BY <1>2, <1>3, <1>4, <1>5 DEF Next, Calls

\* A generation goes on only if it did or is started.
LEMMA GoingOn ==
    ASSUME Typed, Shapes, Fresh, Next, NEW g \in Gen, GoesOn(g)'
    PROVE  GoesOn(g) \/ StartCalled(g)
<1>1. phase \in [Gen -> {"idle", "open", "step", "done", "failed"}] /\ g \in Strand
  BY DEF Typed, Strand
<1>2. CASE h'[g] # h[g]
  BY <1>1, <1>2, Touches
<1>3. CASE h'[g] = h[g] /\ h[g] # Idle
  BY <1>3 DEF GoesOn
<1>4. CASE phase'[g] \in {"open", "step"}
  <2>1. phase[g] \in {"open", "step"} \/ (\E f \in Gen : StartCalled(f) \/ FinishCalled(f))
    BY <1>4, Phases
  <2>2. ASSUME NEW f \in Gen, StartCalled(f) PROVE f = g \/ phase[g] \in {"open", "step"}
    BY <1>1, <1>4, <2>2 DEF StartCalled
  <2>3. ASSUME NEW f \in Gen, FinishCalled(f) PROVE phase[g] \in {"open", "step"}
    BY <1>1, <1>4, <2>3 DEF FinishCalled
  <2> QED BY <2>1, <2>2, <2>3 DEF GoesOn
<1> QED BY <1>2, <1>3, <1>4 DEF GoesOn

LEMMA OneGoesOnStep ==
    ASSUME Typed, Shapes, Fresh, Apart, Next, ~overlapped'
    PROVE  OneGoesOn'
<1>1. OneGoesOn
  BY FrameworkSteps DEF Apart
<1>2. \A g \in Gen : StartCalled(g) => \A f \in Gen : ~GoesOn(f)
  BY DEF StartCalled
<1>3. \A g \in Gen : StartCalled(g) => phase'[g] # "idle" /\ phase' = [phase EXCEPT ![g] = "open"]
  BY DEF StartCalled, Typed
<1>4. ASSUME NEW f \in Gen, NEW g \in Gen, StartCalled(f), StartCalled(g) PROVE f = g
  BY <1>3, <1>4 DEF StartCalled, Typed
<1> QED BY <1>1, <1>2, <1>4, GoingOn DEF OneGoesOn

\* What holds of the generation that is not the active one.
Yields(g) ==
    phase[g] \in {"open", "step"} /\ active \in Gen \ {g} => suspended \/ h[g].op \in Abandoning

LEMMA YieldsStep ==
    ASSUME Typed, Shapes, Fresh, Apart, Next, ~overlapped', NEW g \in Gen
    PROVE  Yields(g)'
<1> SUFFICES ASSUME phase'[g] \in {"open", "step"}, active' \in Gen \ {g}
             PROVE  suspended' \/ h'[g].op \in Abandoning
  BY DEF Yields
<1>1. /\ phase \in [Gen -> {"idle", "open", "step", "done", "failed"}] /\ g \in Strand
      /\ h \in [Strand -> Handler] /\ active \in Gen \cup {None} /\ None \notin Gen
  BY AiSdkAssumption DEF Typed, Strand
<1>2. ~overlapped /\ OneGoesOn /\ ActiveIsMine
  BY FrameworkSteps DEF Apart
<1>3. ASSUME NEW f \in Gen, StartCalled(f) PROVE suspended' \/ h'[g].op \in Abandoning
  <2>1. ~GoesOn(g) /\ f = g
    BY <1>1, <1>3 DEF StartCalled, GoesOn
  <2>2. active # None /\ Abandon(g)
    BY <1>1, <1>3, <2>1 DEF StartCalled
  <2>3. PICK e \in Event, at \in Handler : WritesEnd(g, active, e, at) /\ at.op \in Abandoning
    BY <1>1, <2>2, EndsAfter DEF Abandon
  <2> QED BY <1>1, <2>3 DEF WritesEnd
<1>4. ASSUME NEW f \in Gen, FinishCalled(f) PROVE FALSE
  <2>1. GoesOn(f) /\ GoesOn(g) /\ f # g
    BY <1>1, <1>4 DEF FinishCalled, GoesOn
  <2> QED BY <1>2, <2>1 DEF OneGoesOn
<1>5. CASE /\ phase[g] \in {"open", "step"} /\ (suspended => suspended')
           /\ \A f \in Gen : phase[f] = "idle" => phase'[f] = "idle"
  <2>1. active \in Gen \ {g} => suspended \/ h[g].op \in Abandoning
    BY <1>2, <1>5 DEF ActiveIsMine
  <2>2. ASSUME NEW s \in Strand, NEW r \in Gen, NEW e \in Event, NEW at \in Handler,
               Ends(s, r, e, at)
        PROVE  suspended' \/ h'[g].op \in Abandoning
    <3>1. h[g].op \in Abandoning => h'[g].op \in Abandoning
      BY <1>1, <2>2 DEF Ends, WritesEnd, Ending
    <3> QED BY <1>5, <2>1, <2>2, <3>1 DEF Ends
  <2>3. ASSUME NEW s \in Strand, NEW r \in Gen, NEW e \in Event, NEW at \in Handler,
               Begins(s, r, e, at)
        PROVE  suspended' \/ h'[g].op \in Abandoning
    <3>1. h[g].op \in Abandoning => h'[g].op \in Abandoning
      BY <1>1, <2>3, IdleIs DEF Begins, Abandoning
    <3>2. active = r
      BY <1>5, <2>3, BeginsFresh DEF Begins
    <3> QED BY <1>5, <2>1, <2>3, <3>1, <3>2 DEF Begins
  <2>4. ASSUME NEW s \in Strand, AbandonEnds(s) \/ RowWritten(s)
        PROVE  suspended' \/ h'[g].op \in Abandoning
    <3>1. RowWritten(s) /\ active' = active
      BY <1>1, <2>4 DEF AbandonEnds, RowWritten
    <3>2. h[g].op \in Abandoning => h'[g] = h[g]
      BY <1>1, <3>1 DEF RowWritten, Abandoning
    <3> QED BY <1>5, <2>1, <3>1, <3>2
  <2>5. ASSUME NEW s \in Strand, NEW at \in Handler, Idles(s, at)
        PROVE  suspended' \/ h'[g].op \in Abandoning
    <3>1. active' = active
      BY <1>1, <2>5 DEF Idles
    <3>2. h[g].op \in Abandoning => h'[g] = h[g]
      BY <1>1, <2>5 DEF Idles, Ending
    <3> QED BY <1>5, <2>1, <3>1, <3>2
  <2>6. CASE Rests
    BY <1>5, <2>1, <2>6 DEF Rests
  <2> QED BY <2>2, <2>3, <2>4, <2>5, <2>6, Kinds DEF Kind
<1> QED BY <1>1, <1>3, <1>4, <1>5, Phases

LEMMA OwnEntriesStep ==
    ASSUME Typed, Shapes, Fresh, Apart, Next, ~overlapped'
    PROVE  OwnEntries'
<1>1. ~overlapped /\ OwnEntries
  BY FrameworkSteps DEF Apart
<1>2. CASE UNCHANGED <<steps, tools>>
  BY <1>1, <1>2 DEF OwnEntries
<1>3. ASSUME NEW s \in Strand, NEW r \in Gen, NEW e \in Event, NEW at \in Handler,
             Begins(s, r, e, at)
      PROVE  OwnEntries'
  <2>1. e[2] = r
    BY <1>1, <1>3 DEF Begins
  <2>2. ASSUME NEW q \in Gen, NEW i \in DOMAIN steps'[q] PROVE steps'[q][i].ev[2] = q
    <3>1. \/ i \in DOMAIN steps[q] /\ steps'[q][i] = steps[q][i]
          \/ q = r /\ steps'[q][i].ev = e
      BY <1>3, BeginsMaps
    <3> QED BY <1>1, <2>1, <3>1 DEF OwnEntries
  <2>3. ASSUME NEW q \in Gen, NEW i \in DOMAIN tools'[q] PROVE tools'[q][i].ev[2] = q
    <3>1. \/ i \in DOMAIN tools[q] /\ tools'[q][i] = tools[q][i]
          \/ q = r /\ tools'[q][i].ev = e
      BY <1>3, BeginsMaps
    <3> QED BY <1>1, <2>1, <3>1 DEF OwnEntries
  <2> QED BY <2>2, <2>3 DEF OwnEntries
<1>4. ASSUME NEW s \in Strand, AbandonEnds(s) \/ RowWritten(s) PROVE OwnEntries'
  <2>1. \A q \in Gen : Thinned(steps[q], steps'[q]) /\ Thinned(tools[q], tools'[q])
    BY <1>4, ThinnedMaps
  <2>2. ASSUME NEW q \in Gen, NEW i \in DOMAIN steps'[q] PROVE steps'[q][i].ev[2] = q
    <3>1. i \in DOMAIN steps[q] /\ steps'[q][i].ev = steps[q][i].ev
      BY <2>1 DEF Thinned
    <3> QED BY <1>1, <3>1 DEF OwnEntries
  <2>3. ASSUME NEW q \in Gen, NEW i \in DOMAIN tools'[q] PROVE tools'[q][i].ev[2] = q
    <3>1. i \in DOMAIN tools[q] /\ tools'[q][i].ev = tools[q][i].ev
      BY <2>1 DEF Thinned
    <3> QED BY <1>1, <3>1 DEF OwnEntries
  <2> QED BY <2>2, <2>3 DEF OwnEntries
<1> QED BY <1>2, <1>3, <1>4, Kinds DEF Kind, Ends, Idles, Rests

LEMMA ApartStep ==
    ASSUME Typed, Shapes, Fresh, Apart, Next
    PROVE  Apart'
<1> SUFFICES ASSUME ~overlapped' PROVE OneGoesOn' /\ ActiveIsMine' /\ OwnEntries'
  BY DEF Apart
<1> QED BY OneGoesOnStep, YieldsStep, OwnEntriesStep DEF ActiveIsMine, Yields

LEMMA OwnRowsStep ==
    ASSUME Typed, Shapes, Fresh, Apart, OwnRows, Next
    PROVE  OwnRows'
<1> SUFFICES ASSUME ~overlapped', NEW q \in Gen, NEW i \in DOMAIN log'[q]
             PROVE  log'[q][i].ev[2] = q
  BY DEF OwnRows
<1>1. ~overlapped
  BY FrameworkSteps
<1>2. i \in DOMAIN log[q] => log[q][i].ev[2] = q
  BY <1>1 DEF OwnRows
<1>3. OwnEntries
  BY <1>1 DEF Apart
<1>4. ASSUME NEW s \in Strand, NEW r \in Gen, NEW e \in Event, NEW at \in Handler,
             Ends(s, r, e, at)
      PROVE  log'[q][i].ev[2] = q
  <2>1. e[2] = r
    BY <1>3, <1>4 DEF Ends, WritesEnd, OwnEntries, OpenIn, RunEvent
  <2>2. \/ i \in DOMAIN log[q] /\ log'[q][i] = log[q][i]
        \/ q = r /\ log'[q][i].ev = e
    BY <1>4, RowIs DEF Ends, WritesEnd
  <2> QED BY <1>2, <2>1, <2>2
<1>5. ASSUME NEW s \in Strand, NEW r \in Gen, NEW e \in Event, NEW at \in Handler,
             Begins(s, r, e, at)
      PROVE  log'[q][i].ev[2] = q
  <2>1. e[2] = r
    BY <1>1, <1>5 DEF Begins
  <2>2. \/ i \in DOMAIN log[q] /\ log'[q][i] = log[q][i]
        \/ q = r /\ log'[q][i].ev = e
    BY <1>5, RowIs DEF Begins
  <2> QED BY <1>2, <2>1, <2>2
<1>6. log' = log => log'[q][i].ev[2] = q
  BY <1>2
<1> QED BY <1>4, <1>5, <1>6, Kinds DEF Kind, AbandonEnds, RowWritten, Idles, Rests

-----------------------------------------------------------------------------
LEMMA InitInv == Init => IInv
<1> SUFFICES ASSUME Init PROVE IInv
  OBVIOUS
<1>1. Typed
  <2>1. Idle \in Handler /\ \A S : <<>> \in Seq(S)
    BY IdleIs
  <2>2. \A g \in Gen : 0 <= Steps[g]
    BY AiSdkAssumption
  <2> QED BY <2>1, <2>2 DEF Init, Typed
<1>2. \A s \in Strand : h[s] = Idle
  BY DEF Init
<1>3. \A r \in Gen : /\ log[r] = <<>> /\ steps[r] = <<>> /\ tools[r] = <<>>
                     /\ phase[r] = "idle"
  BY DEF Init
<1>4. DOMAIN <<>> = {}
  OBVIOUS
<1>5. Shapes
  BY <1>2, <1>3, <1>4, IdleIs DEF Shapes, MapShapes, Shape, Ending, Abandoning
<1>6. Fresh
  BY <1>2, <1>3, <1>4, IdleIs, AiSdkAssumption DEF Fresh, Known, Init, Strand
<1>7. Gone /\ OwnRows
  BY <1>3, <1>4 DEF Gone, OwnRows, Rows
<1>8. Apart
  BY <1>2, <1>3, <1>4 DEF Apart, OneGoesOn, ActiveIsMine, OwnEntries, GoesOn, Strand
<1> QED BY <1>1, <1>5, <1>6, <1>7, <1>8 DEF IInv

LEMMA StepInv == IInv /\ [Next]_vars => IInv'
<1> SUFFICES ASSUME IInv, [Next]_vars PROVE IInv'
  OBVIOUS
<1>1. CASE Next
  BY <1>1, TypeStep, ShapesStep, FreshStep, GoneStep, ApartStep, OwnRowsStep DEF IInv
<1>2. CASE UNCHANGED vars
  BY <1>2 DEF vars, IInv, Typed, Shapes, MapShapes, Shape, Fresh, Known, Begun, Gone, Rows,
     BeingEnded, OpenIn, Apart, OneGoesOn, GoesOn, ActiveIsMine, OwnEntries, OwnRows
<1> QED BY <1>1, <1>2

\* The integration's variables hold what they should, whatever the framework calls.
THEOREM TypeCorrect == Spec => []TypeOK
<1>1. IInv => TypeOK
  <2> SUFFICES ASSUME IInv PROVE TypeOK
    OBVIOUS
  <2>1. /\ phase \in [Gen -> {"idle", "open", "step", "done", "failed"}]
        /\ tool \in [Tool -> {"idle", "running", "ended"}]
        /\ overlapped \in BOOLEAN /\ suspended \in BOOLEAN /\ closed \in BOOLEAN
        /\ active \in Gen \cup {None}
    BY DEF IInv, Typed
  <2>2. \A g \in Gen : step[g] \in 0..Steps[g]
    BY AiSdkAssumption DEF IInv, Typed
  <2>3. ASSUME NEW s \in Strand, h[s].op \notin {"closing", "abandoned"}, h[s].op # "idle"
        PROVE  h[s].run \in Gen /\ h[s].ev \in Event
    BY <2>3 DEF IInv, Typed, Shapes, Shape, Handler, Op
  <2>4. \A s \in Strand : h[s].op = "idle" => h[s] = Idle
    BY DEF IInv, Shapes, Shape
  <2>5. \A g \in Gen : \A i \in DOMAIN log[g] : log[g][i].ev \in Event
    <3>1. log \in [Gen -> Seq(LogRow)]
      BY DEF IInv, Typed
    <3>2. \A g \in Gen : \A i \in DOMAIN log[g] : log[g][i] \in LogRow
      BY <3>1
    <3> QED BY <3>2 DEF LogRow
  <2> QED BY <2>1, <2>2, <2>3, <2>4, <2>5 DEF TypeOK
<1> QED BY <1>1, InitInv, StepInv, PTL DEF Spec

\* An event is ended a second time only while its end, or the abandonment of its run, is in
\* flight: for any generations and tool calls, however they overlap, fail and are abandoned.
THEOREM EventsEndOnce == Spec => EndsOnce
<1>1. IInv /\ [Next]_vars =>
         [\A r \in Gen, ev \in Event :
             Rows(r, ev, "end") # {} /\ Rows(r, ev, "end")' # Rows(r, ev, "end")
             => BeingEnded(r, ev)]_vars
  BY EndsOnceStep DEF IInv
<1> QED BY <1>1, InitInv, StepInv, PTL DEF Spec, EndsOnce

\* As long as no generation starts beside another one, every row of a run comes from the
\* generation the run was started for, whatever a failed generation left running.
THEOREM RowsKeptApart == Spec => []OwnRows
<1>1. IInv => OwnRows
  BY DEF IInv
<1> QED BY <1>1, InitInv, StepInv, PTL DEF Spec

-----------------------------------------------------------------------------
(* Runs are recorded whole: nobody calls close(), generations one at a time *)

Calm == ~overlapped /\ ~closed /\ h[Closer] = Idle

\* close() on its way: once it let go of the handler, the writer is closed.
Closing ==
    /\ h[Closer].op \in Abandoning \cup {"idle", "abandoned", "closing"}
    /\ h[Closer].op = "closing" => closed

\* The generation that started last.
Last(g) == phase[g] # "idle" /\ \A f \in Gen : f > g => phase[f] = "idle"

InLog(r, e) == \E i \in DOMAIN log[r] : log[r][i].ev = e

\* Generations start in order; the active run is that of the last one, or the failed one
\* before it that it abandons; a generation is only ignored after a failed one.
InTurn ==
    /\ \A f, g \in Gen : phase[g] # "idle" /\ f < g => phase[f] # "idle"
    /\ \A g \in Gen : GoesOn(g) => Last(g)
    /\ suspended =>
          active = None /\ \E g \in Gen : Last(g) /\ phase[g] \in {"open", "step", "failed"}
    /\ \A f \in Gen : active = f =>
          \/ Last(f) /\ (phase[f] # "done" \/ h[f].op = "endRun")
          \/ phase[f] = "failed" /\ \E g \in Gen : h[g].op \in Abandoning /\ h[g].run = f
    /\ \A g \in Gen : phase[g] # "idle" /\ log[g] = <<>> => g > 1 /\ phase[g - 1] = "failed"
    /\ \A g \in Gen : phase[g] \in {"open", "step"} /\ log[g] # <<>> => active = g

\* What the callbacks in flight are about: the active run, and their own generation's.
Strands ==
    /\ \A s \in Strand : h[s].op \in Abandoning =>
          /\ s \in Gen /\ phase[s] = "open"
          /\ active = h[s].run /\ phase[h[s].run] = "failed"
    /\ \A s \in Strand : h[s].op = "abandoned" => s \in Gen /\ phase[s] = "open" /\ active = None
    /\ \A s \in Strand : h[s].op = "endRun" =>
          s \in Gen /\ h[s].run = s /\ active = s /\ phase[s] = "done"
    /\ \A g \in Gen : h[g].op \in {"row", "endStep"} => h[g].run = g /\ active = g
    /\ \A g \in Gen : h[g].op = "endStep" => h[g].key = step[g]
    /\ \A x \in Tool : h[x].op \in {"idle", "row", "endTool"}
    /\ \A x \in Tool : h[x].op = "endTool" => h[x].run = Caller[x]
    /\ \A x \in Tool : tool[x] = "running" \/ h[x] # Idle => phase[Caller[x]] \in {"step", "failed"}

\* What can still be found in the Maps has not ended.
LiveEntries ==
    /\ \A r \in Gen : \A i \in DOMAIN steps[r] : steps[r][i].live =>
          /\ active = r /\ steps[r][i].key = step[r]
          /\ phase[r] \in {"step", "failed"} \/ h[r].op = "endStep"
    /\ \A r \in Gen : \A i \in DOMAIN tools[r] : tools[r][i].live =>
          /\ active = r
          /\ tool[tools[r][i].key] = "running" \/ h[tools[r][i].key].op = "endTool"

\* What the Maps name is in the log.
Recorded ==
    /\ \A r \in Gen : \A i \in DOMAIN steps[r] :
          Started(r, steps[r][i].ev) /\ InLog(r, steps[r][i].under)
    /\ \A r \in Gen : \A i \in DOMAIN tools[r] :
          Started(r, tools[r][i].ev) /\ InLog(r, tools[r][i].under)
    /\ \A r \in Gen : active = r => Started(r, RunEvent(r))

\* A log begins with its run; an event is started once, and what is in the log is started,
\* after its parent.
Once(r, at) ==
    \A i, j \in DOMAIN log[r] :
        log[r][i].at = at /\ log[r][j].at = at /\ log[r][i].ev = log[r][j].ev => i = j
Ordered ==
    \A r \in Gen :
       /\ log[r] # <<>> => log[r][1].ev = RunEvent(r)
       /\ Once(r, "start")
       /\ \A i \in DOMAIN log[r] : Started(r, log[r][i].ev)
       /\ \A i \in DOMAIN log[r] : log[r][i].under # None =>
             \E j \in 1..i : log[r][j].ev = log[r][i].under

\* Unless its generation failed, a run's rows are its own, it ends what it started once,
\* and itself last.
Clean ==
    \A r \in Gen : phase[r] # "failed" =>
       /\ \A i \in DOMAIN log[r] : log[r][i].by = "own"
       /\ Once(r, "end")
       /\ phase[r] = "done" /\ log[r] # <<>> => log[r][Len(log[r])].ev = RunEvent(r)

EndsWritten == \A s \in Strand : h[s].op \in Ending => Rows(h[s].run, h[s].ev, "end") # {}

\* The abandonment whose handler is at will come by e.
Ahead(r, e, at) ==
    \/ e = RunEvent(r) /\ at.op # "run"
    \/ /\ at.op # "run"
       /\ \E i \in DOMAIN steps[r] :
             steps[r][i].live /\ steps[r][i].ev = e /\ (at.op = "steps" => i > at.key)
    \/ /\ at.op \notin {"run", "steps"}
       /\ \E i \in DOMAIN tools[r] :
             tools[r][i].live /\ tools[r][i].ev = e /\ (at.op = "tools" => i > at.key)

\* What has started and not ended is of the active run, can be found in its Maps, and who
\* abandons the run will come by it.
ToEnd ==
    \A r \in Gen, e \in Event :
       Started(r, e) /\ Rows(r, e, "end") = {} =>
          /\ active = r
          /\ Ahead(r, e, Idle)
          /\ \A s \in Strand : h[s].op \in Abandoning /\ h[s].run = r => Ahead(r, e, h[s])

Whole ==
    /\ Closing
    /\ Calm => /\ InTurn /\ Strands /\ LiveEntries /\ Recorded /\ Ordered /\ Clean
               /\ EndsWritten /\ ToEnd

-----------------------------------------------------------------------------
(* What a calm step does                                                   *)

Puts(r, e, at, by, u) ==
    log' = [log EXCEPT ![r] = Append(@, [ev |-> e, at |-> at, by |-> by, under |-> u])]
Moves(s, at) == h' = [h EXCEPT ![s] = at]

LEMMA PutsIs ==
    ASSUME Typed, NEW r \in Gen, NEW e \in Event, NEW at \in {"start", "end"},
           NEW by \in {"own", "close", "overlap"}, NEW u \in Event \cup {None},
           Puts(r, e, at, by, u)
    PROVE  /\ \A q \in Gen \ {r} : log'[q] = log[q]
           /\ Len(log[r]) \in Nat /\ DOMAIN log[r] = 1..Len(log[r])
           /\ Len(log'[r]) = Len(log[r]) + 1 /\ DOMAIN log'[r] = 1..(Len(log[r]) + 1)
           /\ \A i \in 1..Len(log[r]) : log'[r][i] = log[r][i]
           /\ LET row == log'[r][Len(log[r]) + 1]
              IN row.ev = e /\ row.at = at /\ row.by = by /\ row.under = u
<1> DEFINE row == [ev |-> e, at |-> at, by |-> by, under |-> u]
<1>1. row \in LogRow /\ row.ev = e /\ row.at = at /\ row.by = by /\ row.under = u
  BY DEF LogRow
<1>2. log \in [Gen -> Seq(LogRow)] /\ log' = [log EXCEPT ![r] = Append(@, row)]
  BY DEF Typed, Puts
<1> HIDE DEF row
<1>3. /\ Append(log[r], row) \in Seq(LogRow)
      /\ Len(Append(log[r], row)) = Len(log[r]) + 1
      /\ \A i \in 1..Len(log[r]) : Append(log[r], row)[i] = log[r][i]
      /\ Append(log[r], row)[Len(log[r]) + 1] = row
  BY <1>1, <1>2, AppendProperties
<1>4. log'[r] = Append(log[r], row) /\ \A q \in Gen \ {r} : log'[q] = log[q]
  BY <1>2
<1>5. log[r] \in Seq(LogRow)
  BY <1>2
<1>6. Len(log[r]) \in Nat /\ DOMAIN log[r] = 1..Len(log[r])
  BY <1>5
<1>7. DOMAIN log'[r] = 1..(Len(log[r]) + 1)
  BY <1>3, <1>4
<1> QED BY <1>1, <1>3, <1>4, <1>6, <1>7

\* Rows are added, and only the one that is written.
LEMMA PutsRows ==
    ASSUME Typed, NEW r \in Gen, NEW e \in Event, NEW at \in {"start", "end"},
           NEW by \in {"own", "close", "overlap"}, NEW u \in Event \cup {None},
           Puts(r, e, at, by, u)
    PROVE  /\ \A q \in Gen : \A f, a : Rows(q, f, a) # {} => Rows(q, f, a)' # {}
           /\ \A q \in Gen : \A f, a :
                 Rows(q, f, a)' # {} => Rows(q, f, a) # {} \/ (q = r /\ f = e /\ a = at)
           /\ Rows(r, e, at)' # {}
           /\ \A q \in Gen : \A f : InLog(q, f) => InLog(q, f)'
           /\ \A q \in Gen : log[q] # <<>> => log'[q] # <<>>
           /\ log'[r] # <<>> /\ InLog(r, e)'
<1> DEFINE n == Len(log[r]) + 1
<1>1. /\ \A q \in Gen \ {r} : log'[q] = log[q]
      /\ n \in Nat /\ DOMAIN log[r] = 1..(n - 1) /\ DOMAIN log'[r] = 1..n
      /\ \A i \in 1..(n - 1) : log'[r][i] = log[r][i]
      /\ log'[r][n].ev = e /\ log'[r][n].at = at
      /\ n \in DOMAIN log'[r] /\ \A i \in DOMAIN log'[r] : i = n \/ i \in DOMAIN log[r]
      /\ \A i \in DOMAIN log[r] : i \in DOMAIN log'[r] /\ log'[r][i] = log[r][i]
  BY PutsIs
<1> HIDE DEF n
<1>2. \A q \in Gen : \A i \in DOMAIN log[q] : i \in DOMAIN log'[q] /\ log'[q][i] = log[q][i]
  BY <1>1
<1>3. \A q \in Gen : \A i \in DOMAIN log'[q] :
         \/ i \in DOMAIN log[q] /\ log'[q][i] = log[q][i]
         \/ q = r /\ log'[q][i].ev = e /\ log'[q][i].at = at
  BY <1>1
<1>4. ASSUME NEW q \in Gen, NEW f, NEW a, Rows(q, f, a) # {} PROVE Rows(q, f, a)' # {}
  BY <1>2, <1>4 DEF Rows
<1>5. ASSUME NEW q \in Gen, NEW f, NEW a, Rows(q, f, a)' # {}
      PROVE  Rows(q, f, a) # {} \/ (q = r /\ f = e /\ a = at)
  BY <1>3, <1>5 DEF Rows
<1>6. Rows(r, e, at)' # {} /\ InLog(r, e)'
  BY <1>1 DEF Rows, InLog
<1>7. \A q \in Gen : \A f : InLog(q, f) => InLog(q, f)'
  BY <1>2 DEF InLog
<1>8. ASSUME NEW q \in Gen, log[q] # <<>> PROVE log'[q] # <<>>
  <2>1. CASE q = r
    <3>1. DOMAIN log'[r] # {} /\ DOMAIN <<>> = {}
      BY <1>1
    <3> QED BY <2>1, <3>1
  <2>2. CASE q # r
    BY <1>1, <1>8, <2>2
  <2> QED BY <2>1, <2>2
<1>9. log'[r] # <<>>
  <2>1. DOMAIN log'[r] # {} /\ DOMAIN <<>> = {}
    BY <1>1
  <2> QED BY <2>1
<1> QED BY <1>4, <1>5, <1>6, <1>7, <1>8, <1>9

LEMMA RowPuts ==
    ASSUME ~closed, NEW r, NEW e, NEW at, NEW by, NEW u, Row(r, e, at, by, u)
    PROVE  Puts(r, e, at, by, u)
BY DEF Row, Puts

\* A new key is set behind all others.
LEMMA SetsLast ==
    ASSUME NEW K, NEW map \in Seq(Entries(K)), NEW k \in K, NEW e \in Event, NEW u \in Event,
           IndexOf(map, k) = {}
    PROVE  LET set == SetEntry(map, k, e, u)
               n == Len(map) + 1
           IN /\ Len(map) \in Nat /\ DOMAIN map = 1..Len(map) /\ DOMAIN set = 1..n
              /\ \A i \in 1..Len(map) : set[i] = map[i]
              /\ set[n].key = k /\ set[n].ev = e /\ set[n].under = u /\ set[n].live
<1> DEFINE new == [key |-> k, ev |-> e, under |-> u, live |-> TRUE]
<1>1. new \in Entries(K) /\ new.key = k /\ new.ev = e /\ new.under = u /\ new.live
  BY DEF Entries
<1>2. SetEntry(map, k, e, u) = Append(map, new)
  BY DEF SetEntry
<1> HIDE DEF new
<1>3. /\ Append(map, new) \in Seq(Entries(K)) /\ Len(Append(map, new)) = Len(map) + 1
      /\ \A i \in 1..Len(map) : Append(map, new)[i] = map[i]
      /\ Append(map, new)[Len(map) + 1] = new
  BY <1>1, AppendProperties
<1>4. DOMAIN Append(map, new) = 1..(Len(map) + 1)
  BY <1>3
<1> QED BY <1>1, <1>2, <1>3, <1>4

\* Entries are made dead, and otherwise left alone.
Weeded(map, out) ==
    /\ DOMAIN out = DOMAIN map
    /\ \A i \in DOMAIN map : /\ out[i].ev = map[i].ev /\ out[i].key = map[i].key
                             /\ out[i].under = map[i].under
                             /\ out[i].live => map[i].live

LEMMA DeleteWeeds ==
    ASSUME NEW K, NEW map \in Seq(Entries(K)), NEW k
    PROVE  /\ Weeded(map, map)
           /\ Weeded(map, DeleteEntry(map, k)) /\ Weeded(map, Cleared(map))
           /\ \A i \in DOMAIN map :
                 DeleteEntry(map, k)[i].live <=> map[i].live /\ map[i].key # k
           /\ \A i \in DOMAIN map : ~Cleared(map)[i].live
<1>1. \A i \in DOMAIN map : map[i] \in Entries(K)
  OBVIOUS
<1>2. \A i \in DOMAIN map :
         LET less == [map[i] EXCEPT !.live = FALSE] IN
         /\ less.ev = map[i].ev /\ less.key = map[i].key
         /\ less.under = map[i].under /\ less.live = FALSE
  BY <1>1 DEF Entries
<1>3. \A i \in DOMAIN map : map[i].live \in BOOLEAN
  BY <1>1 DEF Entries
<1>4. /\ DOMAIN DeleteEntry(map, k) = DOMAIN map /\ DOMAIN Cleared(map) = DOMAIN map
      /\ \A i \in DOMAIN map :
            /\ DeleteEntry(map, k)[i] = IF map[i].live /\ map[i].key = k
                                        THEN [map[i] EXCEPT !.live = FALSE] ELSE map[i]
            /\ Cleared(map)[i] = [map[i] EXCEPT !.live = FALSE]
  BY DEF DeleteEntry, Cleared, IndexOf
<1> QED BY <1>2, <1>3, <1>4 DEF Weeded

-----------------------------------------------------------------------------
\* Generation g starts, and nothing else goes on.
Starts(g) ==
    /\ phase[g] = "idle" /\ (g > 1 => phase[g - 1] # "idle")
    /\ phase' = [phase EXCEPT ![g] = "open"]
    /\ \A o \in Gen : ~GoesOn(o)
    /\ h[g] = Idle
    /\ UNCHANGED <<step, tool>>

Opens(g) ==
    /\ Starts(g)
    /\ active = None /\ ~suspended /\ active' = g
    /\ Puts(g, RunEvent(g), "start", "own", None)
    /\ Moves(g, At("row", g, RunEvent(g), 0))
    /\ UNCHANGED <<suspended, tools, steps>>

\* Strand s writes the next row of its abandonment of run r.
AbandonsOne(s, r) ==
    \E e \in Event, at \in Handler, by \in {"close", "overlap"}, u \in Event \cup {None} :
       /\ Puts(r, e, "end", by, u) /\ Started(r, e) /\ (u # None => InLog(r, u))
       /\ Moves(s, at) /\ at.op \in Abandoning /\ at.run = r /\ at.ev = e
       /\ \A f \in Event : f # e /\ Ahead(r, f, h[s]) => Ahead(r, f, at)
       /\ UNCHANGED <<active, suspended, tools, steps>>

StartAbandons(g) ==
    /\ Starts(g)
    /\ active \in Gen \ {g} /\ AbandonsOne(g, active)

AbandonsOn(s) ==
    /\ h[s].op \in {"tools", "steps"} /\ h[s].run \in Gen
    /\ AbandonsOne(s, h[s].run)
    /\ UNCHANGED framework

BeginsStep(g) ==
    /\ phase[g] = "open" /\ h[g] = Idle /\ active = g /\ ~suspended
    /\ phase' = [phase EXCEPT ![g] = "step"] /\ step' = [step EXCEPT ![g] = @ + 1]
    /\ LET n == step[g] + 1  ev == StepEvent(g, n) IN
       /\ n \in Nat /\ ev \in Event /\ ~Begun(ev)
       /\ steps' = [steps EXCEPT ![g] = SetEntry(@, n, ev, RunEvent(g))]
       /\ Puts(g, ev, "start", "own", RunEvent(g))
       /\ Moves(g, At("row", g, ev, n))
    /\ UNCHANGED <<tool, active, suspended, tools>>

BeginsTool(x) ==
    LET g == Caller[x] IN
    /\ g \in Gen /\ phase[g] = "step" /\ h[g] = Idle /\ h[x] = Idle
    /\ active = g /\ ~suspended
    /\ tool[x] = "idle" /\ tool' = [tool EXCEPT ![x] = "running"]
    /\ ~Begun(ToolEvent(x))
    /\ \E u \in Event :
       /\ InLog(g, u)
       /\ tools' = [tools EXCEPT ![g] = SetEntry(@, x, ToolEvent(x), u)]
       /\ Puts(g, ToolEvent(x), "start", "own", u)
    /\ Moves(x, At("row", g, ToolEvent(x), 0))
    /\ UNCHANGED <<phase, step, active, suspended, steps>>

\* Strand s of generation g ends an event that is open in its active run.
EndsOwn(s, g, e, at) ==
    /\ h[s] = Idle /\ active = g /\ ~suspended
    /\ Started(g, e) /\ (phase[g] # "failed" => Rows(g, e, "end") = {})
    /\ \E u \in Event \cup {None} :
          Puts(g, e, "end", "own", u) /\ (u # None => InLog(g, u))
    /\ at \in Handler /\ at.run = g /\ at.ev = e
    /\ Moves(s, at)
    /\ UNCHANGED <<active, suspended, tools, steps>>

EndsStep(g) ==
    /\ phase[g] = "step" /\ phase' = [phase EXCEPT ![g] = "open"]
    /\ \A x \in Tool : Caller[x] = g => tool[x] # "running" /\ h[x] = Idle
    /\ LET e == StepEvent(g, step[g]) IN EndsOwn(g, g, e, At("endStep", g, e, step[g]))
    /\ UNCHANGED <<step, tool>>

EndsTool(x) ==
    /\ tool[x] = "running" /\ tool' = [tool EXCEPT ![x] = "ended"]
    /\ active = Caller[x] /\ OpenIn(tools[active], ToolEvent(x))
    /\ EndsOwn(x, active, ToolEvent(x), At("endTool", active, ToolEvent(x), 0))
    /\ UNCHANGED <<phase, step>>

EndsRun(g) ==
    /\ phase[g] = "open" /\ phase' = [phase EXCEPT ![g] = "done"]
    /\ EndsOwn(g, g, RunEvent(g), At("endRun", g, RunEvent(g), 0))
    /\ UNCHANGED <<step, tool>>

\* A callback that is ignored, or a generation that fails: the framework alone moves.
Passes == UNCHANGED <<active, tools, steps, h, log>>

PassStart(g) == Starts(g) /\ suspended /\ active = None /\ Passes /\ UNCHANGED suspended
PassStepStart(g) ==
    /\ phase[g] = "open" /\ h[g] = Idle /\ active = None
    /\ phase' = [phase EXCEPT ![g] = "step"] /\ step' = [step EXCEPT ![g] = @ + 1]
    /\ Passes /\ UNCHANGED <<tool, suspended>>
PassStepEnd(g) ==
    /\ phase[g] = "step" /\ h[g] = Idle /\ (active = g => IndexOf(steps[g], step[g]) = {})
    /\ phase' = [phase EXCEPT ![g] = "open"]
    /\ \A x \in Tool : Caller[x] = g => tool[x] # "running" /\ h[x] = Idle
    /\ Passes /\ UNCHANGED <<step, tool, suspended>>
PassToolStart(x) ==
    /\ phase[Caller[x]] = "step"
    /\ tool[x] = "idle" /\ tool' = [tool EXCEPT ![x] = "running"]
    /\ Passes /\ UNCHANGED <<phase, step, suspended>>
PassToolEnd(x) ==
    /\ tool[x] = "running" /\ tool' = [tool EXCEPT ![x] = "ended"]
    /\ active \in Gen => IndexOf(tools[active], x) = {}
    /\ Passes /\ UNCHANGED <<phase, step, suspended>>
PassFinish(g) ==
    /\ phase[g] = "open" /\ h[g] = Idle /\ active = None
    /\ phase' = [phase EXCEPT ![g] = "done"] /\ suspended' = FALSE
    /\ Passes /\ UNCHANGED <<step, tool>>
PassFails(g) ==
    /\ phase[g] \in {"open", "step"} /\ h[g] = Idle /\ phase' = [phase EXCEPT ![g] = "failed"]
    /\ Passes /\ UNCHANGED <<step, tool, suspended>>

CalmStep ==
    \/ \E g \in Gen : Opens(g) \/ StartAbandons(g) \/ BeginsStep(g) \/ EndsStep(g) \/ EndsRun(g)
    \/ \E x \in Tool : BeginsTool(x) \/ EndsTool(x)
    \/ \E s \in Gen \cup Tool : AbandonsOn(s) \/ AbandonEnds(s) \/ RowWritten(s)
    \/ \E g \in Gen : Suspend(g)
    \/ \E g \in Gen : \/ PassStart(g) \/ PassStepStart(g) \/ PassStepEnd(g)
                      \/ PassFinish(g) \/ PassFails(g)
    \/ \E x \in Tool : PassToolStart(x) \/ PassToolEnd(x)

-----------------------------------------------------------------------------
LEMMA CloserMoves ==
    ASSUME Typed, Shapes, Fresh, Closing, Next
    PROVE  Closing' /\ (Calm' => Calm)
<1>1. /\ h \in [Strand -> Handler] /\ closed \in BOOLEAN /\ Closer \in Strand
      /\ Closer \notin Gen /\ Closer \notin Tool
  BY AiSdkAssumption DEF Typed, Strand
<1>2. h[Closer].op = "idle" <=> h[Closer] = Idle
  BY <1>1, IdleIs DEF Shapes, Shape
<1>3. overlapped => overlapped'
  BY FrameworkSteps
<1>4. CASE h'[Closer] = h[Closer] /\ (closed => closed')
  BY <1>3, <1>4 DEF Closing, Calm
<1>5. ASSUME NEW s \in Strand, NEW r \in Gen, NEW e \in Event, NEW at \in Handler,
             WritesEnd(s, r, e, at), at.op \in Abandoning, closed' = closed,
             s = Closer => h[s] = Idle \/ h[s].op \in {"tools", "steps"}
      PROVE  Closing' /\ (Calm' => Calm)
  <2>1. h' = [h EXCEPT ![s] = at]
    BY <1>5 DEF WritesEnd
  <2>2. CASE s = Closer
    <3>1. h'[Closer].op \in Abandoning
      BY <1>1, <1>5, <2>1, <2>2
    <3>2. h'[Closer] # Idle
      BY <3>1, IdleIs DEF Abandoning
    <3> QED BY <3>1, <3>2 DEF Closing, Calm, Abandoning
  <2>3. CASE s # Closer
    BY <1>1, <1>4, <1>5, <2>1, <2>3
  <2> QED BY <2>2, <2>3
<1>6. ASSUME NEW s \in Strand, active # None, Abandon(s), h[s] = Idle
      PROVE  Closing' /\ (Calm' => Calm)
  <2>1. active \in Gen
    BY <1>6 DEF Typed
  <2>2. PICK e \in Event, at \in Handler : WritesEnd(s, active, e, at) /\ at.op \in Abandoning
    BY <1>6, <2>1, EndsAfter DEF Abandon
  <2> QED BY <1>5, <1>6, <2>1, <2>2 DEF Abandon
<1>7. ASSUME NEW s \in Strand, AbandonGoesOn(s)
      PROVE  Closing' /\ (Calm' => Calm)
  <2>1. h[s].run \in Gen /\ h[s].op \in {"tools", "steps"}
    BY <1>7 DEF AbandonGoesOn, Shapes, Shape, Ending, Abandoning
  <2>2. PICK r : r = h[s].run
    OBVIOUS
  <2>3. EndToolsAfter(s, r, h[s].key) \/ EndStepsAfter(s, r, h[s].key)
    BY <1>7, <2>2 DEF AbandonGoesOn
  <2>4. r \in Gen
    BY <2>1, <2>2
  <2>5. PICK e \in Event, at \in Handler : WritesEnd(s, r, e, at) /\ at.op \in Abandoning
    BY <2>3, <2>4, EndsAfter
  <2> QED BY <1>5, <1>7, <2>1, <2>4, <2>5 DEF AbandonGoesOn
<1>8. ASSUME NEW s \in Strand, AbandonEnds(s)
      PROVE  Closing' /\ (Calm' => Calm)
  <2>1. CASE s = Closer
    <3>1. h'[Closer].op = "abandoned"
      BY <1>1, <1>8, <2>1 DEF AbandonEnds, Handler
    <3>2. h'[Closer] # Idle
      BY <3>1, IdleIs
    <3> QED BY <3>1, <3>2 DEF Closing, Calm
  <2>2. CASE s # Closer
    <3>1. h'[Closer] = h[Closer]
      BY <1>1, <1>8, <2>2 DEF AbandonEnds
    <3> QED BY <1>4, <1>8, <3>1 DEF AbandonEnds
  <2> QED BY <2>1, <2>2
<1>9. ASSUME NEW s \in Strand, RowWritten(s)
      PROVE  Closing' /\ (Calm' => Calm)
  <2>1. s # Closer
    BY <1>9 DEF RowWritten, Closing, Abandoning
  <2>2. h'[Closer] = h[Closer]
    BY <1>1, <1>9, <2>1 DEF RowWritten
  <2> QED BY <1>4, <1>9, <2>2 DEF RowWritten
<1>10. ASSUME NEW g \in Gen, Suspend(g)
       PROVE  Closing' /\ (Calm' => Calm)
  <2>1. h'[Closer] = h[Closer]
    BY <1>1, <1>10 DEF Suspend
  <2> QED BY <1>4, <1>10, <2>1 DEF Suspend
<1>11. CASE CloseWriter
  <2>1. h'[Closer].op = "closing" /\ closed' = TRUE
    BY <1>1, <1>11 DEF CloseWriter, At
  <2> QED BY <2>1 DEF Closing, Calm
<1>12. CASE CloseReturns
  <2>1. h'[Closer].op = "idle" /\ closed'
    BY <1>1, <1>12, IdleIs DEF CloseReturns, Closing
  <2> QED BY <2>1 DEF Closing, Calm
<1>13. CASE CloseCalled
  <2>1. CASE active # None /\ Abandon(Closer)
    BY <1>1, <1>6, <1>13, <2>1 DEF CloseCalled
  <2>2. CASE ~(active # None /\ Abandon(Closer))
    <3>1. h'[Closer].op = "closing" /\ closed' = TRUE
      BY <1>1, <1>13, <2>2 DEF CloseCalled, At
    <3> QED BY <3>1 DEF Closing, Calm
  <2> QED BY <2>1, <2>2
<1>14. ASSUME NEW g \in Gen, StartCalled(g)
       PROVE  Closing' /\ (Calm' => Calm)
  <2>1. g \in Strand /\ g # Closer /\ h[g] = Idle
    BY <1>1, <1>14 DEF Strand, StartCalled, Fresh
  <2>2. CASE active # None /\ Abandon(g)
    BY <1>6, <2>1, <2>2
  <2>3. CASE ~(active # None /\ Abandon(g))
    <3>1. h'[Closer] = h[Closer] /\ closed' = closed
      BY <1>1, <1>14, <2>1, <2>3 DEF StartCalled
    <3> QED BY <1>4, <3>1
  <2> QED BY <2>2, <2>3
<1>15. ASSUME NEW g \in Gen,
              StepStartCalled(g) \/ StepFinishCalled(g) \/ FinishCalled(g) \/ Fails(g)
       PROVE  Closing' /\ (Calm' => Calm)
  <2>1. h'[Closer] = h[Closer] /\ closed' = closed
    BY <1>1, <1>15 DEF StepStartCalled, StepFinishCalled, FinishCalled, Fails, Ignore
  <2> QED BY <1>4, <2>1
<1>16. ASSUME NEW x \in Tool, ToolStartCalled(x) \/ ToolFinishCalled(x)
       PROVE  Closing' /\ (Calm' => Calm)
  <2>1. h'[Closer] = h[Closer] /\ closed' = closed
    BY <1>1, <1>16 DEF ToolStartCalled, ToolFinishCalled, Ignore
  <2> QED BY <1>4, <2>1
<1> QED
  BY <1>7, <1>8, <1>9, <1>10, <1>11, <1>12, <1>13, <1>14, <1>15, <1>16
     DEF Next, Resumes, Calls

-----------------------------------------------------------------------------
Good == /\ Typed /\ Shapes /\ Fresh /\ Gone /\ Apart /\ OwnRows /\ Calm /\ InTurn /\ Strands
        /\ LiveEntries /\ Recorded /\ Ordered /\ Clean /\ EndsWritten /\ ToEnd

LEMMA AbandonsIs ==
    ASSUME Typed, Recorded, ~closed, NEW s \in Strand, NEW r \in Gen, active = r,
           \/ h[s].op = "idle" /\ EndToolsAfter(s, r, 0)
           \/ h[s].op = "tools" /\ EndToolsAfter(s, r, h[s].key)
           \/ h[s].op = "steps" /\ EndStepsAfter(s, r, h[s].key),
           UNCHANGED <<active, suspended, tools, steps>>
    PROVE  AbandonsOne(s, r)
<1>1. /\ steps[r] \in Seq(Entries(Nat)) /\ tools[r] \in Seq(Entries(Tool))
      /\ h[s] \in Handler /\ h[s].key \in Nat
  BY DEF Typed, Handler
<1>2. Reason(s) \in {"close", "overlap"}
  BY DEF Reason
<1>3. /\ \A i \in DOMAIN steps[r] : i \in Nat /\ i > 0
      /\ \A i \in DOMAIN tools[r] : i \in Nat /\ i > 0
  BY <1>1
\* where the abandonment stands
<1> DEFINE AheadSteps == {i \in DOMAIN steps[r] :
                            steps[r][i].live /\ (h[s].op = "steps" => i > h[s].key)}
           AheadTools == IF h[s].op = "steps" THEN {}
                         ELSE {i \in DOMAIN tools[r] :
                                 tools[r][i].live /\ (h[s].op = "tools" => i > h[s].key)}
<1>4. \A f : f # RunEvent(r) /\ Ahead(r, f, h[s]) =>
                \/ \E i \in AheadSteps : steps[r][i].ev = f
                \/ \E i \in AheadTools : tools[r][i].ev = f
  BY DEF Ahead
<1>5. \/ AheadTools = {} /\ AheadSteps = {} /\ EndRun(s, r)
      \/ \E j \in AheadSteps : /\ \A k \in AheadSteps : j <= k
                               /\ AheadTools = {} /\ EndEntry(s, r, "steps", steps[r][j], j)
      \/ \E j \in AheadTools : /\ \A k \in AheadTools : j <= k
                               /\ EndEntry(s, r, "tools", tools[r][j], j)
  <2>1. ASSUME NEW i, EndStepsAfter(s, r, i), AheadSteps = After(steps[r], i), AheadTools = {}
        PROVE  \/ AheadTools = {} /\ AheadSteps = {} /\ EndRun(s, r)
               \/ \E j \in AheadSteps : /\ \A k \in AheadSteps : j <= k
                                        /\ AheadTools = {}
                                        /\ EndEntry(s, r, "steps", steps[r][j], j)
    BY <2>1 DEF EndStepsAfter
  <2>2. ASSUME NEW i, EndToolsAfter(s, r, i), AheadTools = After(tools[r], i),
               AheadSteps = After(steps[r], 0)
        PROVE  <1>5
    <3>1. CASE AheadTools = {} /\ EndStepsAfter(s, r, 0)
      BY <2>1, <2>2, <3>1
    <3>2. CASE AheadTools # {} \/ ~EndStepsAfter(s, r, 0)
      BY <2>2, <3>2 DEF EndToolsAfter
    <3> QED BY <3>1, <3>2
  <2>3. CASE h[s].op = "steps"
    <3>1. AheadSteps = After(steps[r], h[s].key) /\ AheadTools = {}
      BY <2>3 DEF After
    <3> QED BY <2>1, <2>3, <3>1
  <2>4. CASE h[s].op = "tools"
    <3>1. AheadTools = After(tools[r], h[s].key) /\ AheadSteps = After(steps[r], 0)
      BY <1>3, <2>4 DEF After
    <3> QED BY <2>2, <2>4, <3>1
  <2>5. CASE h[s].op = "idle"
    <3>1. AheadTools = After(tools[r], 0) /\ AheadSteps = After(steps[r], 0)
      BY <1>3, <2>5 DEF After
    <3> QED BY <2>2, <2>5, <3>1
  <2> QED BY <2>3, <2>4, <2>5
<1>6. ASSUME EndRun(s, r), AheadTools = {}, AheadSteps = {}
      PROVE  AbandonsOne(s, r)
  <2> DEFINE e == RunEvent(r)
             at == At("run", r, e, 0)
  <2>1. e \in Event
    BY EventsAre
  <2>2. at \in Handler /\ at.op = "run" /\ at.run = r /\ at.ev = e
    BY <2>1, AtIs DEF Op, Ending, Abandoning
  <2>3. Puts(r, e, "end", Reason(s), None) /\ Moves(s, at)
    BY <1>6, RowPuts DEF EndRun, Moves
  <2>4. Started(r, e)
    BY DEF Recorded
  <2> HIDE DEF at, e
  <2>5. \A f \in Event : f # e /\ Ahead(r, f, h[s]) => Ahead(r, f, at)
    BY <1>4, <1>6 DEF e
  <2> QED BY <1>2, <2>1, <2>2, <2>3, <2>4, <2>5 DEF AbandonsOne, Abandoning
<1>7. ASSUME NEW j \in AheadSteps, \A k \in AheadSteps : j <= k, AheadTools = {},
             EndEntry(s, r, "steps", steps[r][j], j)
      PROVE  AbandonsOne(s, r)
  <2> DEFINE e == steps[r][j].ev
             u == steps[r][j].under
             at == At("steps", r, e, j)
  <2>1. j \in DOMAIN steps[r] /\ steps[r][j].live /\ steps[r][j] \in Entries(Nat) /\ j \in Nat
    BY <1>1
  <2>2. e \in Event /\ u \in Event
    BY <2>1 DEF Entries
  <2>3. at \in Handler /\ at.op = "steps" /\ at.run = r /\ at.ev = e /\ at.key = j
    BY <2>1, <2>2, AtIs, KeyIs DEF Op, Ending, Abandoning
  <2>4. Puts(r, e, "end", Reason(s), u) /\ Moves(s, at)
    BY <1>7, RowPuts DEF EndEntry, Moves
  <2>5. Started(r, e) /\ InLog(r, u)
    BY <2>1 DEF Recorded
  <2> HIDE DEF at
  <2>6. ASSUME NEW f \in Event, f # e, Ahead(r, f, h[s]) PROVE Ahead(r, f, at)
    <3>1. CASE f = RunEvent(r)
      BY <2>3, <3>1 DEF Ahead
    <3>2. CASE f # RunEvent(r)
      <4>1. PICK i \in AheadSteps : steps[r][i].ev = f
        BY <1>4, <1>7, <2>6, <3>2
      <4>2. i \in Nat /\ j \in Nat /\ j <= i /\ i # j
        BY <1>7, <2>1, <2>6, <4>1, <1>3
      <4>3. i \in DOMAIN steps[r] /\ steps[r][i].live /\ steps[r][i].ev = f /\ i > at.key
        BY <2>3, <4>1, <4>2
      <4> QED BY <2>3, <4>3 DEF Ahead
    <3> QED BY <3>1, <3>2
  <2> HIDE DEF e, u
  <2> QED BY <1>2, <2>2, <2>3, <2>4, <2>5, <2>6 DEF AbandonsOne, Abandoning
<1>8. ASSUME NEW j \in AheadTools, \A k \in AheadTools : j <= k,
             EndEntry(s, r, "tools", tools[r][j], j)
      PROVE  AbandonsOne(s, r)
  <2> DEFINE e == tools[r][j].ev
             u == tools[r][j].under
             at == At("tools", r, e, j)
  <2>1. j \in DOMAIN tools[r] /\ tools[r][j].live /\ tools[r][j] \in Entries(Tool) /\ j \in Nat
        /\ h[s].op # "steps"
    BY <1>1
  <2>2. e \in Event /\ u \in Event
    BY <2>1 DEF Entries
  <2>3. at \in Handler /\ at.op = "tools" /\ at.run = r /\ at.ev = e /\ at.key = j
    BY <2>1, <2>2, AtIs, KeyIs DEF Op, Ending, Abandoning
  <2>4. Puts(r, e, "end", Reason(s), u) /\ Moves(s, at)
    BY <1>8, RowPuts DEF EndEntry, Moves
  <2>5. Started(r, e) /\ InLog(r, u)
    BY <2>1 DEF Recorded
  <2> HIDE DEF at
  <2>6. ASSUME NEW f \in Event, f # e, Ahead(r, f, h[s]) PROVE Ahead(r, f, at)
    <3>1. CASE f = RunEvent(r)
      BY <2>3, <3>1 DEF Ahead
    <3>2. ASSUME NEW i \in AheadSteps, steps[r][i].ev = f PROVE Ahead(r, f, at)
      BY <2>3, <3>2 DEF Ahead
    <3>3. ASSUME NEW i \in AheadTools, tools[r][i].ev = f PROVE Ahead(r, f, at)
      <4>2. i \in Nat /\ j \in Nat /\ j <= i /\ i # j
        BY <1>8, <2>1, <2>6, <3>3, <1>3
      <4>3. i \in DOMAIN tools[r] /\ tools[r][i].live /\ i > at.key
        BY <2>1, <2>3, <3>3, <4>2
      <4> QED BY <2>3, <3>3, <4>3 DEF Ahead
    <3> QED BY <1>4, <2>6, <3>1, <3>2, <3>3
  <2> HIDE DEF e, u
  <2> QED BY <1>2, <2>2, <2>3, <2>4, <2>5, <2>6 DEF AbandonsOne, Abandoning
<1> HIDE DEF AheadSteps, AheadTools
<1> QED BY <1>5, <1>6, <1>7, <1>8

\* Without overlap, a generation that is called back has its own run active, or no run.
LEMMA MineOrNone ==
    ASSUME Good, NEW g \in Gen, phase[g] \in {"open", "step"}, h[g] = Idle
    PROVE  /\ ~Ignored => active = g /\ ~suspended
           /\ Ignored => active = None
<1>1. ActiveIsMine /\ active \in Gen \cup {None}
  BY DEF Good, Apart, Calm, Typed
<1>2. h[g].op \notin Abandoning
  BY IdleIs DEF Abandoning
<1>3. suspended => active = None
  BY DEF Good, InTurn
<1> QED BY <1>1, <1>2, <1>3 DEF Ignored, ActiveIsMine

\* An event that can be found in the Maps of a run whose generation has not failed, or the
\* run itself, has not ended, unless the strand that ends it now is at it already.
LEMMA NotEnded ==
    ASSUME Good, NEW g \in Gen, active = g, phase[g] # "failed", NEW e \in Event,
           OpenIn(steps[g], e) \/ OpenIn(tools[g], e) \/ e = RunEvent(g),
           \A s \in Strand : h[s].op \in {"endStep", "endTool", "endRun"} => h[s].ev # e
    PROVE  Rows(g, e, "end") = {}
<1>1. ~BeingEnded(g, e)
  BY DEF BeingEnded, Good, Strands, Abandoning
<1> QED BY <1>1 DEF Good, Gone

-----------------------------------------------------------------------------
(* Every step is a calm one                                                *)

LEMMA CalmHas ==
    ASSUME Good
    PROVE  /\ ~closed /\ ~overlapped /\ h \in [Strand -> Handler]
           /\ active \in Gen \cup {None} /\ None \notin Gen
           /\ phase \in [Gen -> {"idle", "open", "step", "done", "failed"}]
           /\ \A r \in Gen : /\ steps[r] \in Seq(Entries(Nat)) /\ tools[r] \in Seq(Entries(Tool))
                             /\ step[r] \in Nat /\ Steps[r] \in Nat
           /\ \A x \in Tool : Caller[x] \in Gen
           /\ suspended => active = None
           /\ OwnEntries /\ OneGoesOn
BY AiSdkAssumption DEF Good, Calm, Typed, Apart, InTurn

LEMMA EndAtIs ==
    ASSUME NEW op \in Ending, NEW r \in Gen, NEW e \in Event, NEW k \in Nat
    PROVE  At(op, r, e, k) \in Handler /\ At(op, r, e, k).run = r /\ At(op, r, e, k).ev = e
<1>1. op \in Op /\ r \in Gen \cup {None} /\ e \in Event \cup {None}
  BY DEF Op
<1> QED BY <1>1, AtIs

LEMMA CalmStart ==
    ASSUME Good, NEW g \in Gen, StartCalled(g), ~overlapped'
    PROVE  Opens(g) \/ StartAbandons(g) \/ PassStart(g)
<1>1. g \in Strand /\ h[g] = Idle /\ phase[g] = "idle"
  BY DEF Good, Fresh, StartCalled, Strand
<1>2. Starts(g)
  BY <1>1 DEF StartCalled, Starts
<1>3. CASE active # None /\ Abandon(g)
  <2>1. active \in Gen \ {g}
    BY <1>1, <1>3 DEF Good, Typed, Fresh
  <2>2. AbandonsOne(g, active)
    BY <1>1, <1>3, <2>1, AbandonsIs, IdleIs DEF Abandon, Good, Calm
  <2> QED BY <1>2, <2>1, <2>2 DEF StartAbandons
<1>4. CASE /\ active = None /\ suspended
           /\ UNCHANGED <<active, suspended, tools, steps, h, closed, log>>
  BY <1>2, <1>4 DEF PassStart, Passes
<1>5. CASE /\ active = None /\ ~suspended
           /\ active' = g
           /\ Row(g, RunEvent(g), "start", "own", None)
           /\ h' = [h EXCEPT ![g] = At("row", g, RunEvent(g), 0)]
           /\ UNCHANGED <<suspended, tools, steps, closed>>
  <2>1. Puts(g, RunEvent(g), "start", "own", None)
    BY <1>5, RowPuts, CalmHas
  <2> QED BY <1>2, <1>5, <2>1 DEF Opens, Moves
<1> QED BY <1>3, <1>4, <1>5 DEF StartCalled

LEMMA CalmStepStart ==
    ASSUME Good, NEW g \in Gen, StepStartCalled(g)
    PROVE  BeginsStep(g) \/ PassStepStart(g)
<1>1. phase[g] = "open" /\ h[g] = Idle /\ step[g] < Steps[g]
  BY DEF StepStartCalled
<1>2. CASE Ignore(g)
  <2>1. active = None
    BY <1>1, <1>2, MineOrNone DEF Ignore
  <2> QED BY <1>2, <2>1 DEF StepStartCalled, Ignore, PassStepStart, Passes
<1>3. CASE ~Ignored
  <2>1. active = g /\ ~suspended
    BY <1>1, <1>3, MineOrNone
  <2> DEFINE n == step[g] + 1
             ev == StepEvent(g, n)
  <2>2. n \in Nat /\ n \in 1..Steps[g] /\ n \notin 1..step[g]
    BY <1>1, CalmHas
  <2>3. ev \in Event
    BY <2>2, EventsAre
  <2>4. ~Begun(ev)
    BY <2>2, EventsAre DEF Begun
  <2>5. /\ steps' = [steps EXCEPT ![g] = SetEntry(@, n, ev, RunEvent(g))]
        /\ Row(g, ev, "start", "own", RunEvent(g))
        /\ h' = [h EXCEPT ![g] = At("row", g, ev, n)]
        /\ UNCHANGED <<active, suspended, tools, closed>>
    BY <1>3, <2>1 DEF StepStartCalled, Ignore
  <2>6. Puts(g, ev, "start", "own", RunEvent(g))
    BY <2>5, RowPuts, CalmHas
  <2> QED BY <1>1, <2>1, <2>2, <2>3, <2>4, <2>5, <2>6 DEF StepStartCalled, BeginsStep, Moves
<1> QED BY <1>2, <1>3 DEF StepStartCalled, Ignore

LEMMA CalmStepFinish ==
    ASSUME Good, NEW g \in Gen, StepFinishCalled(g)
    PROVE  EndsStep(g) \/ PassStepEnd(g)
<1>1. /\ phase[g] = "step" /\ h[g] = Idle /\ phase' = [phase EXCEPT ![g] = "open"]
      /\ \A x \in Tool : Caller[x] = g => tool[x] # "running" /\ h[x] = Idle
      /\ UNCHANGED <<step, tool>>
  BY DEF StepFinishCalled
<1>2. CASE Ignore(g)
  <2>1. active = None
    BY <1>1, <1>2, MineOrNone DEF Ignore
  <2>2. active # g
    BY <2>1, CalmHas
  <2> QED BY <1>1, <1>2, <2>2 DEF Ignore, PassStepEnd, Passes
<1>3. CASE /\ ~Ignored /\ IndexOf(steps[active], step[g]) = {}
           /\ UNCHANGED <<active, suspended, tools, steps, h, closed, log>>
  BY <1>1, <1>3 DEF PassStepEnd, Passes
<1>4. CASE /\ ~Ignored /\ IndexOf(steps[active], step[g]) # {}
           /\ LET e == Entry(steps[active], step[g]) IN
              /\ Row(active, e.ev, "end", "own", e.under)
              /\ h' = [h EXCEPT ![g] = At("endStep", active, e.ev, step[g])]
           /\ UNCHANGED <<active, suspended, tools, steps, closed>>
  <2>1. active = g /\ ~suspended
    BY <1>1, <1>4, MineOrNone
  <2> DEFINE entry == Entry(steps[g], step[g])
             e == StepEvent(g, step[g])
  <2>0. steps[g] \in Seq(Entries(Nat)) /\ IndexOf(steps[g], step[g]) # {}
    BY <1>4, <2>1, CalmHas
  <2>2. PICK i \in DOMAIN steps[g] : /\ steps[g][i] = entry /\ steps[g][i].live
                                     /\ entry \in Entries(Nat) /\ entry.key = step[g]
    BY <2>0, EntryIs
  <2>3. entry.ev = e
    <3>1. PICK f \in Gen : entry.ev = StepEvent(f, step[g])
      BY <2>2 DEF Good, Shapes, MapShapes
    <3>2. entry.ev[2] = g
      BY <2>2, CalmHas DEF OwnEntries
    <3> QED BY <3>1, <3>2 DEF StepEvent
  <2>4. Started(g, e) /\ InLog(g, entry.under) /\ entry.under \in Event /\ e \in Event
    BY <2>2, <2>3 DEF Good, Recorded, Entries
  <2>5. OpenIn(steps[g], e)
    BY <2>2, <2>3 DEF OpenIn
  <2>6. \A s \in Strand : h[s].op \in {"endStep", "endTool", "endRun"} => h[s].ev # e
    <3> SUFFICES ASSUME NEW s \in Strand, h[s].op \in {"endStep", "endTool", "endRun"}, h[s].ev = e
                 PROVE  FALSE
      OBVIOUS
    <3>1. h[s].op = "endStep"
      BY EventsAre DEF Good, Shapes, Shape
    <3>2. s \in Gen
      BY <3>1, IdleIs DEF Good, Strands, Strand, Calm
    <3>3. active = s
      BY <3>1, <3>2 DEF Good, Strands
    <3> QED BY <1>1, <2>1, <3>1, <3>3, IdleIs
  <2>7. Rows(g, e, "end") = {}
    BY <1>1, <2>1, <2>4, <2>5, <2>6, NotEnded
  <2>8. At("endStep", g, e, step[g]) \in Handler /\ At("endStep", g, e, step[g]).run = g
        /\ At("endStep", g, e, step[g]).ev = e
    <3> HIDE DEF e
    <3>1. "endStep" \in Ending /\ step[g] \in Nat
      BY CalmHas DEF Ending
    <3> QED BY <2>4, <3>1, EndAtIs
  <2>9. Puts(g, e, "end", "own", entry.under)
    BY <1>4, <2>1, <2>3, RowPuts, CalmHas
  <2>10. Moves(g, At("endStep", g, e, step[g]))
    BY <1>4, <2>1, <2>3 DEF Moves
  <2> HIDE DEF e, entry
  <2>11. EndsOwn(g, g, e, At("endStep", g, e, step[g]))
    BY <1>1, <1>4, <2>1, <2>4, <2>7, <2>8, <2>9, <2>10 DEF EndsOwn
  <2> QED BY <1>1, <2>11 DEF EndsStep, e
<1> QED BY <1>2, <1>3, <1>4 DEF StepFinishCalled

LEMMA CalmToolStart ==
    ASSUME Good, NEW x \in Tool, ToolStartCalled(x)
    PROVE  BeginsTool(x) \/ PassToolStart(x)
<1> DEFINE g == Caller[x]
<1>1. /\ g \in Gen /\ phase[g] = "step" /\ h[g] = Idle /\ tool[x] = "idle"
      /\ tool' = [tool EXCEPT ![x] = "running"] /\ UNCHANGED <<phase, step>>
  BY CalmHas DEF ToolStartCalled
<1>2. CASE Ignore(x)
  BY <1>1, <1>2 DEF Ignore, PassToolStart, Passes
<1>3. CASE ~Ignored
  <2>1. active = g /\ ~suspended
    BY <1>1, <1>3, MineOrNone
  <2>0. PICK u : u = IF IndexOf(steps[active], step[g]) = {} THEN RunEvent(active)
                     ELSE Entry(steps[active], step[g]).ev
    OBVIOUS
  <2>2. /\ tools' = [tools EXCEPT ![active] = SetEntry(@, x, ToolEvent(x), u)]
        /\ Row(active, ToolEvent(x), "start", "own", u)
        /\ h' = [h EXCEPT ![x] = At("row", active, ToolEvent(x), 0)]
        /\ UNCHANGED <<active, suspended, steps, closed>>
    BY <1>3, <2>0 DEF ToolStartCalled, Ignore
  <2>3. Started(g, u) /\ u \in Event
    <3>1. CASE IndexOf(steps[active], step[g]) = {}
      <4>1. u = RunEvent(g)
        BY <2>0, <2>1, <3>1
      <4>2. Started(g, RunEvent(g)) /\ RunEvent(g) \in Event
        BY <1>1, <2>1, EventsAre DEF Good, Recorded
      <4> QED BY <4>1, <4>2
    <3>2. CASE IndexOf(steps[active], step[g]) # {}
      <4>1. steps[g] \in Seq(Entries(Nat)) /\ IndexOf(steps[g], step[g]) # {}
        BY <2>1, <3>2, CalmHas
      <4>2. PICK i \in DOMAIN steps[g] : steps[g][i] = Entry(steps[g], step[g])
        BY <4>1, EntryIs
      <4>3. u = steps[g][i].ev
        BY <2>0, <2>1, <3>2, <4>2
      <4>4. steps[g][i].ev \in Event
        <5>1. steps[g][i] \in Entries(Nat)
          BY <4>1
        <5> QED BY <5>1 DEF Entries
      <4> QED BY <1>1, <4>3, <4>4 DEF Good, Recorded
    <3> QED BY <3>1, <3>2
  <2>4. InLog(g, u)
    BY <2>3 DEF Started, Rows, InLog
  <2>5. ~Begun(ToolEvent(x))
    BY <1>1, EventsAre DEF Begun
  <2>6. h[x] = Idle
    BY <1>1 DEF Good, Fresh
  <2>7. Puts(g, ToolEvent(x), "start", "own", u)
    BY <2>1, <2>2, RowPuts, CalmHas
  <2> QED BY <1>1, <2>1, <2>2, <2>3, <2>4, <2>5, <2>6, <2>7 DEF BeginsTool, Moves
<1> QED BY <1>2, <1>3 DEF ToolStartCalled, Ignore

LEMMA CalmToolFinish ==
    ASSUME Good, NEW x \in Tool, ToolFinishCalled(x)
    PROVE  EndsTool(x) \/ PassToolEnd(x)
<1>1. /\ tool[x] = "running" /\ h[x] = Idle /\ tool' = [tool EXCEPT ![x] = "ended"]
      /\ UNCHANGED <<phase, step>> /\ x \in Strand
  BY DEF ToolFinishCalled, Strand
<1>2. CASE Ignore(x)
  <2>1. active \notin Gen
    BY <1>2, CalmHas DEF Ignore, Ignored
  <2> QED BY <1>1, <1>2, <2>1 DEF Ignore, PassToolEnd, Passes
<1>3. CASE /\ ~Ignored /\ IndexOf(tools[active], x) = {}
           /\ UNCHANGED <<active, suspended, tools, steps, h, closed, log>>
  BY <1>1, <1>3 DEF PassToolEnd, Passes
<1>4. CASE /\ ~Ignored /\ IndexOf(tools[active], x) # {}
           /\ LET e == Entry(tools[active], x) IN
              /\ Row(active, e.ev, "end", "own", e.under)
              /\ h' = [h EXCEPT ![x] = At("endTool", active, e.ev, 0)]
           /\ UNCHANGED <<active, suspended, tools, steps, closed>>
  <2>1. active \in Gen /\ ~suspended
    BY <1>4, CalmHas DEF Ignored
  <2> DEFINE entry == Entry(tools[active], x)
             e == ToolEvent(x)
  <2>2. PICK i \in DOMAIN tools[active] : /\ tools[active][i] = entry /\ tools[active][i].live
                                          /\ entry \in Entries(Tool) /\ entry.key = x
    BY <1>4, <2>1, EntryIs, CalmHas
  <2>3. entry.ev = e
    BY <2>1, <2>2 DEF Good, Shapes, MapShapes
  <2>4. e[2] = active
    BY <2>1, <2>2, <2>3, CalmHas DEF OwnEntries
  <2>5. active = Caller[x]
    BY <2>4 DEF ToolEvent
  <2>6. Started(active, e) /\ InLog(active, entry.under) /\ entry.under \in Event /\ e \in Event
    BY <2>1, <2>2, <2>3 DEF Good, Recorded, Entries
  <2>7. OpenIn(tools[active], e)
    BY <2>2, <2>3 DEF OpenIn
  <2>8. \A s \in Strand : h[s].op \in {"endStep", "endTool", "endRun"} => h[s].ev # e
    <3> SUFFICES ASSUME NEW s \in Strand, h[s].op \in {"endStep", "endTool", "endRun"}, h[s].ev = e
                 PROVE  FALSE
      OBVIOUS
    <3>1. h[s].op = "endTool" /\ s \in Tool /\ h[s].ev = ToolEvent(s)
      BY EventsAre DEF Good, Shapes, Shape
    <3>2. s = x
      BY <3>1, EventsAre
    <3> QED BY <1>1, <3>1, <3>2, IdleIs
  <2>9. phase[active] # "failed" => Rows(active, e, "end") = {}
    BY <2>1, <2>6, <2>7, <2>8, NotEnded
  <2>10. At("endTool", active, e, 0) \in Handler /\ At("endTool", active, e, 0).run = active
        /\ At("endTool", active, e, 0).ev = e
    <3> HIDE DEF e
    <3>1. "endTool" \in Ending
      BY DEF Ending
    <3> QED BY <2>1, <2>6, <3>1, EndAtIs
  <2>11. Puts(active, e, "end", "own", entry.under)
    BY <1>4, <2>3, RowPuts, CalmHas
  <2>12. Moves(x, At("endTool", active, e, 0))
    BY <1>4, <2>3 DEF Moves
  <2> HIDE DEF e, entry
  <2>13. EndsOwn(x, active, e, At("endTool", active, e, 0))
    BY <1>1, <1>4, <2>1, <2>6, <2>9, <2>10, <2>11, <2>12 DEF EndsOwn
  <2> QED BY <1>1, <2>5, <2>7, <2>13 DEF EndsTool, e
<1> QED BY <1>2, <1>3, <1>4 DEF ToolFinishCalled

LEMMA CalmFinish ==
    ASSUME Good, NEW g \in Gen, FinishCalled(g)
    PROVE  EndsRun(g) \/ PassFinish(g)
<1>1. /\ phase[g] = "open" /\ h[g] = Idle /\ phase' = [phase EXCEPT ![g] = "done"]
      /\ UNCHANGED <<step, tool>>
  BY DEF FinishCalled
<1>2. CASE suspended \/ active = None
  <2>1. active = None
    BY <1>2, CalmHas
  <2> QED BY <1>1, <1>2, <2>1, CalmHas DEF FinishCalled, PassFinish, Passes, Good, Typed
<1>3. CASE /\ ~suspended /\ active # None
           /\ Row(active, RunEvent(active), "end", "own", None)
           /\ h' = [h EXCEPT ![g] = At("endRun", active, RunEvent(active), 0)]
           /\ UNCHANGED <<active, suspended, tools, steps, closed>>
  <2>1. active = g
    BY <1>1, <1>3, MineOrNone DEF Ignored
  <2> DEFINE e == RunEvent(g)
  <2>2. e \in Event /\ Started(g, e)
    BY <2>1, EventsAre DEF Good, Recorded
  <2>3. \A s \in Strand : h[s].op \in {"endStep", "endTool", "endRun"} => h[s].ev # e
    <3> SUFFICES ASSUME NEW s \in Strand, h[s].op \in {"endStep", "endTool", "endRun"}, h[s].ev = e
                 PROVE  FALSE
      OBVIOUS
    <3>1. h[s].op = "endRun"
      BY EventsAre DEF Good, Shapes, Shape
    <3>2. s = g
      BY <2>1, <3>1 DEF Good, Strands
    <3> QED BY <1>1, <3>1, <3>2, IdleIs
  <2>4. Rows(g, e, "end") = {}
    BY <1>1, <2>1, <2>2, <2>3, NotEnded
  <2>5. At("endRun", g, e, 0) \in Handler /\ At("endRun", g, e, 0).run = g
        /\ At("endRun", g, e, 0).ev = e
    <3> HIDE DEF e
    <3>1. "endRun" \in Ending
      BY DEF Ending
    <3> QED BY <2>2, <3>1, EndAtIs
  <2>6. Puts(g, e, "end", "own", None)
    BY <1>3, <2>1, RowPuts, CalmHas
  <2>7. Moves(g, At("endRun", g, e, 0))
    BY <1>3, <2>1 DEF Moves
  <2> HIDE DEF e
  <2>8. EndsOwn(g, g, e, At("endRun", g, e, 0))
    BY <1>1, <1>3, <2>1, <2>2, <2>4, <2>5, <2>6, <2>7 DEF EndsOwn
  <2> QED BY <1>1, <2>8 DEF EndsRun, e
<1> QED BY <1>2, <1>3 DEF FinishCalled

LEMMA CalmSteps ==
    ASSUME Good, Next, Calm'
    PROVE  CalmStep
<1>1. h[Closer] = Idle /\ h'[Closer] = Idle /\ ~closed /\ ~overlapped' /\ ~closed'
      /\ Closer \in Strand /\ \A s \in Strand : s \in Gen \cup Tool \/ s = Closer
  BY DEF Good, Calm, Strand
<1>2. ASSUME NEW s \in Strand, AbandonGoesOn(s) PROVE CalmStep
  <2>1. s \in Gen \cup Tool /\ h[s].op \in {"tools", "steps"}
    BY <1>1, <1>2, IdleIs DEF AbandonGoesOn
  <2>2. h[s].run \in Gen /\ active = h[s].run
    BY <2>1 DEF Good, Shapes, Shape, Strands, Ending, Abandoning
  <2>3. AbandonsOne(s, h[s].run)
    BY <1>1, <1>2, <2>2, AbandonsIs DEF AbandonGoesOn, Good
  <2> QED BY <1>2, <2>1, <2>2, <2>3 DEF AbandonGoesOn, AbandonsOn, CalmStep
<1>3. ASSUME NEW s \in Strand, AbandonEnds(s) \/ RowWritten(s) PROVE CalmStep
  <2>1. s \in Gen \cup Tool
    BY <1>1, <1>3, IdleIs DEF AbandonEnds, RowWritten
  <2> QED BY <1>3, <2>1 DEF CalmStep
<1>4. ~CloseWriter /\ ~CloseReturns
  BY <1>1, IdleIs DEF CloseWriter, CloseReturns
<1>5. ASSUME CloseCalled PROVE FALSE
  <2>1. CASE active # None /\ Abandon(Closer)
    <3>1. active \in Gen
      BY <2>1 DEF Good, Typed
    <3>2. PICK e \in Event, at \in Handler : WritesEnd(Closer, active, e, at) /\ at.op \in Abandoning
      BY <1>1, <2>1, <3>1, EndsAfter DEF Abandon, Good
    <3> QED BY <1>1, <3>2, IdleIs, CalmHas DEF WritesEnd, Abandoning
  <2>2. CASE ~(active # None /\ Abandon(Closer))
    BY <1>1, <1>5, <2>2 DEF CloseCalled
  <2> QED BY <2>1, <2>2
<1>6. ASSUME NEW g \in Gen, Fails(g) PROVE PassFails(g)
  BY <1>6 DEF Fails, PassFails, Passes
<1>7. ASSUME NEW g \in Gen,
             \/ StartCalled(g) \/ StepStartCalled(g) \/ StepFinishCalled(g)
             \/ FinishCalled(g) \/ Fails(g)
      PROVE  CalmStep
  BY <1>1, <1>6, <1>7, CalmStart, CalmStepStart, CalmStepFinish, CalmFinish DEF CalmStep
<1>8. ASSUME NEW x \in Tool, ToolStartCalled(x) \/ ToolFinishCalled(x) PROVE CalmStep
  BY <1>8, CalmToolStart, CalmToolFinish DEF CalmStep
<1>9. ASSUME NEW g \in Gen, Suspend(g) PROVE CalmStep
  BY <1>9 DEF CalmStep
<1> QED BY <1>2, <1>3, <1>4, <1>5, <1>7, <1>8, <1>9 DEF Next, Resumes, Calls

-----------------------------------------------------------------------------
(* Generations in turn                                                     *)

\* While a generation goes on, no other one does.
LEMMA Alone ==
    ASSUME Good, NEW g \in Gen, GoesOn(g)
    PROVE  /\ \A o \in Gen \ {g} : h[o] = Idle /\ phase[o] \notin {"open", "step"}
           /\ Last(g)
BY CalmHas DEF OneGoesOn, GoesOn, Good, InTurn

LEMMA GenIs ==
    ASSUME Good
    PROVE  /\ \A g \in Gen : g \in Nat /\ g > 0 /\ g \in Strand /\ g \notin Tool /\ (g > 1 => g - 1 \in Gen)
           /\ \A x \in Tool : x \in Strand /\ x \notin Gen
           /\ None \notin Gen
BY AiSdkAssumption DEF Gen, Strand

\* A generation that starts comes right after the last one.
LEMMA StartsNext ==
    ASSUME Good, NEW g \in Gen, Starts(g)
    PROVE  /\ Last(g)' /\ \A o \in Gen \ {g} : phase'[o] = phase[o] /\ h[o] = Idle
           /\ phase'[g] = "open" /\ h[g] = Idle /\ log[g] = <<>>
           /\ \A o \in Gen : phase[o] \notin {"open", "step"}
           /\ \A f \in Gen : Last(f) => f = g - 1 /\ g > 1
           /\ \A o \in Gen : o < g => phase[o] # "idle"
<1>1. /\ phase[g] = "idle" /\ (g > 1 => phase[g - 1] # "idle")
      /\ phase' = [phase EXCEPT ![g] = "open"]
      /\ \A o \in Gen : ~GoesOn(o)
  BY DEF Starts
<1>2. \A o \in Gen : h[o] = Idle /\ phase[o] \notin {"open", "step"}
  BY <1>1 DEF GoesOn
<1>3. phase'[g] = "open" /\ \A o \in Gen \ {g} : phase'[o] = phase[o]
  BY <1>1, CalmHas
<1>4. \A e, f \in Gen : phase[f] # "idle" /\ e < f => phase[e] # "idle"
  BY DEF Good, InTurn
<1>5. \A f \in Gen : f > g => phase[f] = "idle"
  BY <1>1, <1>4
<1>6. Last(g)'
  BY <1>3, <1>5, GenIs DEF Last
<1>7. ASSUME NEW f \in Gen, Last(f) PROVE f = g - 1 /\ g > 1
  <2>1. phase[f] # "idle" /\ \A e \in Gen : e > f => phase[e] = "idle"
    BY <1>7 DEF Last
  <2>2. f < g
    BY <1>1, <1>4, <2>1, GenIs
  <2>3. ~(g - 1 > f)
    BY <1>1, <2>1, <2>2, GenIs
  <2> QED BY <2>2, <2>3, GenIs
<1>8. \A o \in Gen : o < g => phase[o] # "idle"
  <2> SUFFICES ASSUME NEW o \in Gen, o < g PROVE phase[o] # "idle"
    OBVIOUS
  <2>1. g > 1 /\ g - 1 \in Gen /\ (o = g - 1 \/ o < g - 1)
    BY GenIs
  <2> QED BY <1>1, <1>4, <2>1
<1>9. log[g] = <<>>
  BY <1>1 DEF Good, Fresh
<1> QED BY <1>1, <1>2, <1>3, <1>6, <1>7, <1>8, <1>9

\* A run that is abandoned by a generation that starts is the failed one before it.
LEMMA ActiveAtStart ==
    ASSUME Good, NEW g \in Gen, Starts(g), active \in Gen
    PROVE  phase[active] = "failed" /\ active = g - 1 /\ g > 1
<1>1. \A o \in Gen : h[o] = Idle /\ phase[o] \notin {"open", "step"}
  BY StartsNext
<1>2. Last(active) /\ phase[active] # "done"
  BY <1>1, IdleIs DEF Good, InTurn, Abandoning
<1>3. phase[active] = "failed"
  BY <1>1, <1>2, CalmHas DEF Last
<1> QED BY <1>2, <1>3, StartsNext

\* A step of generation g, after its start.
Goes(g) ==
    /\ phase[g] \in {"open", "step"} \/ h[g] # Idle
    /\ \A o \in Gen \ {g} : phase'[o] = phase[o] /\ h'[o] = h[o]
    /\ phase[g] \in {"open", "step"} \/ phase'[g] = phase[g]
    /\ phase'[g] # "idle" /\ (phase[g] = "failed" => phase'[g] = "failed")
    /\ tool' = tool /\ \A x \in Tool : h'[x] = h[x]

\* A step of a tool call.
ToolGoes ==
    /\ UNCHANGED <<phase, step, suspended>>
    /\ \A g \in Gen : h'[g] = h[g]
    /\ active' = active

LEMMA WhoGoes ==
    ASSUME Good, CalmStep
    PROVE  \/ \E g \in Gen : Opens(g) \/ StartAbandons(g) \/ PassStart(g)
           \/ \E g \in Gen : /\ Goes(g)
                             /\ \/ BeginsStep(g) \/ EndsStep(g) \/ EndsRun(g) \/ AbandonsOn(g)
                                \/ AbandonEnds(g) \/ RowWritten(g) \/ Suspend(g)
                                \/ PassStepStart(g) \/ PassStepEnd(g) \/ PassFinish(g)
                                \/ PassFails(g)
           \/ \E x \in Tool : /\ ToolGoes
                              /\ \/ BeginsTool(x) \/ EndsTool(x) \/ RowWritten(x)
                                 \/ PassToolStart(x) \/ PassToolEnd(x)
<1> USE CalmHas, GenIs
<1>1. ASSUME NEW g \in Gen, BeginsStep(g) \/ EndsStep(g) \/ EndsRun(g) PROVE Goes(g)
  BY <1>1 DEF BeginsStep, EndsStep, EndsRun, EndsOwn, Moves, Goes
<1>2. ASSUME NEW g \in Gen, AbandonsOn(g) PROVE Goes(g)
  <2>1. h[g] # Idle /\ phase[g] = "open" /\ UNCHANGED framework
    BY <1>2, IdleIs DEF AbandonsOn, Good, Strands, Abandoning
  <2>2. PICK at \in Handler : Moves(g, at)
    BY <1>2 DEF AbandonsOn, AbandonsOne
  <2> QED BY <2>1, <2>2 DEF Moves, Goes, framework
<1>3. ASSUME NEW g \in Gen, AbandonEnds(g) \/ RowWritten(g) \/ Suspend(g) PROVE Goes(g)
  <2>1. h[g] # Idle /\ UNCHANGED framework
    BY <1>3, IdleIs DEF AbandonEnds, RowWritten, Suspend
  <2>2. phase[g] # "idle"
    BY <2>1 DEF Good, Fresh
  <2> QED BY <1>3, <2>1, <2>2 DEF AbandonEnds, RowWritten, Suspend, Goes, framework
<1>4. ASSUME NEW g \in Gen,
             PassStepStart(g) \/ PassStepEnd(g) \/ PassFinish(g) \/ PassFails(g)
      PROVE  Goes(g)
  BY <1>4 DEF PassStepStart, PassStepEnd, PassFinish, PassFails, Passes, Goes
<1>5. ASSUME NEW x \in Tool, BeginsTool(x) \/ EndsTool(x) \/ PassToolStart(x) \/ PassToolEnd(x)
      PROVE  ToolGoes
  BY <1>5 DEF BeginsTool, EndsTool, EndsOwn, Moves, PassToolStart, PassToolEnd, Passes, ToolGoes
<1>6. ASSUME NEW x \in Tool, RowWritten(x) PROVE ToolGoes
  <2>1. h[x].op # "endRun"
    BY DEF Good, Strands
  <2> QED BY <1>6, <2>1 DEF RowWritten, ToolGoes, framework
<1>7. ASSUME NEW x \in Tool, AbandonsOn(x) \/ AbandonEnds(x) PROVE FALSE
  BY <1>7 DEF AbandonsOn, AbandonEnds, Good, Strands
<1> QED BY <1>1, <1>2, <1>3, <1>4, <1>5, <1>6, <1>7 DEF CalmStep

NoneDone(r) == \A q \in Gen \ {r} : phase'[q] = "done" => phase[q] = "done"

\* A row that a calm step adds: the start of something new, or the end of something
\* that has started, in a run that is not done.
Adds(r, e, at, by, u) ==
    /\ Puts(r, e, at, by, u)
    /\ u # None => InLog(r, u)
    /\ phase[r] # "done" /\ (phase'[r] = "done" => e = RunEvent(r)) /\ NoneDone(r)
    /\ \/ /\ at = "start" /\ by = "own" /\ ~Begun(e)
          /\ log[r] = <<>> => e = RunEvent(r) /\ u = None
       \/ /\ at = "end" /\ Started(r, e)
          /\ phase[r] # "failed" => by = "own" /\ Rows(r, e, "end") = {}
AddsOne ==
    \E r \in Gen, e \in Event, at \in {"start", "end"}, by \in {"own", "close", "overlap"},
       u \in Event \cup {None} : Adds(r, e, at, by, u)
AddsNone ==
    log' = log /\ \A r \in Gen : phase'[r] = "done" => phase[r] = "done" \/ log[r] = <<>>

LEMMA StartedIs ==
    ASSUME Good, NEW r \in Gen, NEW e, Started(r, e)
    PROVE  e \in Event /\ log[r] # <<>> /\ InLog(r, e)
<1>1. log[r] \in Seq(LogRow)
  BY DEF Good, Typed
<1>2. PICK i \in DOMAIN log[r] : log[r][i].ev = e
  BY DEF Started, Rows
<1>3. log[r][i] \in LogRow
  BY <1>1, <1>2
<1>4. log[r] # <<>>
  <2>1. DOMAIN log[r] # {} /\ DOMAIN <<>> = {}
    BY <1>2
  <2> QED BY <2>1
<1> QED BY <1>2, <1>3, <1>4 DEF LogRow, InLog

LEMMA AddsEnds ==
    ASSUME Good, NEW s \in Strand, NEW g \in Gen, NEW e, NEW at, EndsOwn(s, g, e, at),
           phase[g] # "done", phase'[g] = "done" => e = RunEvent(g), NoneDone(g)
    PROVE  AddsOne
<1>1. PICK u \in Event \cup {None} : Puts(g, e, "end", "own", u) /\ (u # None => InLog(g, u))
  BY DEF EndsOwn
<1>2. e \in Event
  BY StartedIs DEF EndsOwn
<1>3. Adds(g, e, "end", "own", u)
  BY <1>1 DEF Adds, EndsOwn
<1> QED BY <1>1, <1>2, <1>3 DEF AddsOne

LEMMA AddsAbandons ==
    ASSUME Good, NEW s \in Strand, NEW r \in Gen, AbandonsOne(s, r), phase[r] = "failed",
           phase'[r] = phase[r], NoneDone(r)
    PROVE  AddsOne
<1>1. PICK e \in Event, by \in {"close", "overlap"}, u \in Event \cup {None} :
         Puts(r, e, "end", by, u) /\ Started(r, e) /\ (u # None => InLog(r, u))
  BY DEF AbandonsOne
<1>2. Adds(r, e, "end", by, u)
  BY <1>1 DEF Adds
<1> QED BY <1>1, <1>2 DEF AddsOne

LEMMA LogMoves ==
    ASSUME Good, CalmStep
    PROVE  AddsOne \/ AddsNone
<1> USE CalmHas, GenIs, EventsAre
<1>1. ASSUME NEW g \in Gen, Opens(g) PROVE AddsOne
  <2>1. phase[g] = "idle" /\ phase'[g] = "open" /\ log[g] = <<>> /\ NoneDone(g)
    BY <1>1, StartsNext DEF Opens, Starts, NoneDone
  <2>2. ~Begun(RunEvent(g))
    BY <2>1 DEF Begun
  <2>3. Adds(g, RunEvent(g), "start", "own", None)
    BY <1>1, <2>1, <2>2 DEF Opens, Adds
  <2> QED BY <2>3 DEF AddsOne
<1>2. ASSUME NEW g \in Gen, StartAbandons(g) PROVE AddsOne
  <2>1. active \in Gen \ {g} /\ AbandonsOne(g, active) /\ Starts(g)
    BY <1>2 DEF StartAbandons
  <2>2. phase[active] = "failed" /\ phase'[active] = phase[active] /\ NoneDone(active)
    BY <2>1, ActiveAtStart, StartsNext DEF NoneDone
  <2> QED BY <2>1, <2>2, AddsAbandons
<1>3. ASSUME NEW g \in Gen, BeginsStep(g) PROVE AddsOne
  <2>1. PICK ev \in Event : /\ ~Begun(ev) /\ Puts(g, ev, "start", "own", RunEvent(g))
                            /\ phase[g] = "open" /\ active = g /\ phase'[g] = "step"
                            /\ NoneDone(g)
    BY <1>3 DEF BeginsStep, NoneDone
  <2>2. Started(g, RunEvent(g))
    BY <2>1 DEF Good, Recorded
  <2>3. log[g] # <<>> /\ InLog(g, RunEvent(g))
    BY <2>2, StartedIs
  <2>4. Adds(g, ev, "start", "own", RunEvent(g))
    BY <2>1, <2>3 DEF Adds
  <2> QED BY <2>4 DEF AddsOne
<1>4. ASSUME NEW x \in Tool, BeginsTool(x) PROVE AddsOne
  <2> DEFINE g == Caller[x]
  <2>1. PICK u \in Event : Puts(g, ToolEvent(x), "start", "own", u) /\ InLog(g, u)
    BY <1>4 DEF BeginsTool
  <2>2. /\ ~Begun(ToolEvent(x)) /\ phase[g] = "step" /\ active = g /\ phase' = phase /\ g \in Gen
        /\ ToolEvent(x) \in Event /\ NoneDone(g)
    BY <1>4 DEF BeginsTool, NoneDone
  <2>3. Started(g, RunEvent(g))
    BY <2>2 DEF Good, Recorded
  <2>4. log[g] # <<>>
    BY <2>2, <2>3, StartedIs
  <2>5. Adds(g, ToolEvent(x), "start", "own", u)
    BY <2>1, <2>2, <2>4 DEF Adds
  <2> QED BY <2>2, <2>5 DEF AddsOne
<1>5. ASSUME NEW g \in Gen, EndsStep(g) \/ EndsRun(g) PROVE AddsOne
  <2>1. CASE EndsStep(g)
    <3>1. PICK e, at : EndsOwn(g, g, e, at)
      BY <2>1 DEF EndsStep
    <3>2. phase[g] = "step" /\ phase'[g] = "open" /\ NoneDone(g)
      BY <2>1 DEF EndsStep, NoneDone
    <3> QED BY <3>1, <3>2, AddsEnds
  <2>2. CASE EndsRun(g)
    <3>1. EndsOwn(g, g, RunEvent(g), At("endRun", g, RunEvent(g), 0)) /\ phase[g] = "open"
          /\ NoneDone(g)
      BY <2>2 DEF EndsRun, NoneDone
    <3> QED BY <3>1, AddsEnds
  <2> QED BY <1>5, <2>1, <2>2
<1>6. ASSUME NEW x \in Tool, EndsTool(x) PROVE AddsOne
  <2>1. PICK e, at : EndsOwn(x, active, e, at)
    BY <1>6 DEF EndsTool
  <2>2. active = Caller[x] /\ tool[x] = "running" /\ phase' = phase /\ NoneDone(active)
    BY <1>6 DEF EndsTool, NoneDone
  <2>3. phase[active] \in {"step", "failed"}
    BY <2>2 DEF Good, Strands
  <2> QED BY <2>1, <2>2, <2>3, AddsEnds
<1>7. ASSUME NEW s \in Gen, AbandonsOn(s) PROVE AddsOne
  <2>1. /\ h[s].run \in Gen /\ phase[h[s].run] = "failed" /\ AbandonsOne(s, h[s].run)
        /\ phase' = phase /\ NoneDone(h[s].run)
    BY <1>7 DEF AbandonsOn, Good, Strands, Abandoning, framework, NoneDone
  <2> QED BY <2>1, AddsAbandons
<1>8. ASSUME NEW s \in Gen \cup Tool, AbandonEnds(s) \/ RowWritten(s) PROVE AddsNone
  BY <1>8 DEF AbandonEnds, RowWritten, AddsNone, framework
<1>9. ASSUME NEW g \in Gen, Suspend(g) PROVE AddsNone
  BY <1>9 DEF Suspend, AddsNone, framework
<1>10. ASSUME NEW g \in Gen, PassStart(g) \/ PassStepStart(g) \/ PassStepEnd(g) \/ PassFails(g)
       PROVE  AddsNone
  BY <1>10 DEF PassStart, Starts, PassStepStart, PassStepEnd, PassFails, Passes, AddsNone
<1>11. ASSUME NEW g \in Gen, PassFinish(g) PROVE AddsNone
  <2>1. log[g] = <<>>
    BY <1>11 DEF PassFinish, Good, InTurn
  <2> QED BY <1>11, <2>1 DEF PassFinish, Passes, AddsNone
<1>12. ASSUME NEW x \in Tool, PassToolStart(x) \/ PassToolEnd(x) PROVE AddsNone
  BY <1>12 DEF PassToolStart, PassToolEnd, Passes, AddsNone
<1> QED BY <1>1, <1>2, <1>3, <1>4, <1>5, <1>6, <1>7, <1>8, <1>9, <1>10, <1>11, <1>12, WhoGoes

LEMMA LogGrows ==
    ASSUME Good, CalmStep
    PROVE  /\ \A q \in Gen : \A f, a : Rows(q, f, a) # {} => Rows(q, f, a)' # {}
           /\ \A q \in Gen : \A f : InLog(q, f) => InLog(q, f)'
           /\ \A q \in Gen : log[q] # <<>> => log'[q] # <<>>
<1>1. CASE AddsNone
  BY <1>1 DEF AddsNone, Rows, InLog
<1>2. CASE AddsOne
  BY <1>2, PutsRows DEF AddsOne, Adds, Good
<1> QED BY <1>1, <1>2, LogMoves

LEMMA InTurnStep ==
    ASSUME Good, CalmStep
    PROVE  InTurn'
<1> USE CalmHas, GenIs
<1>1. \A q \in Gen : log'[q] = <<>> => log[q] = <<>>
  BY LogGrows
<1>2. /\ \A f, g \in Gen : phase[g] # "idle" /\ f < g => phase[f] # "idle"
      /\ \A g \in Gen : phase[g] # "idle" /\ log[g] = <<>> => g > 1 /\ phase[g - 1] = "failed"
      /\ \A g \in Gen : phase[g] \in {"open", "step"} /\ log[g] # <<>> => active = g
  BY DEF Good, InTurn
<1>3. ASSUME NEW g \in Gen, Opens(g) \/ StartAbandons(g) \/ PassStart(g) PROVE InTurn'
  <2>1. Starts(g)
    BY <1>3 DEF Opens, StartAbandons, PassStart
  <2>2. /\ Last(g)' /\ phase'[g] = "open" /\ log[g] = <<>>
        /\ \A o \in Gen \ {g} : phase'[o] = phase[o] /\ h[o] = Idle
        /\ \A o \in Gen : phase[o] \notin {"open", "step"}
        /\ \A f \in Gen : Last(f) => f = g - 1 /\ g > 1
        /\ \A o \in Gen : o < g => phase[o] # "idle"
    BY <2>1, StartsNext
  <2>3. \A o \in Gen \ {g} : h'[o] = h[o]
    BY <1>3 DEF Opens, StartAbandons, PassStart, Passes, AbandonsOne, Moves
  <2>4. \A f, o \in Gen : phase'[o] # "idle" /\ f < o => phase'[f] # "idle"
    BY <1>2, <2>2
  <2>5. \A o \in Gen : GoesOn(o)' => Last(o)'
    BY <2>2, <2>3 DEF GoesOn
  <2>6. suspended' => active' = None /\ \E o \in Gen : Last(o)' /\ phase'[o] \in {"open", "step", "failed"}
    BY <1>3, <2>2 DEF Opens, StartAbandons, AbandonsOne, PassStart, Passes
  <2>7. ASSUME NEW f \in Gen, active' = f
        PROVE  \/ Last(f)' /\ (phase'[f] # "done" \/ h'[f].op = "endRun")
               \/ phase'[f] = "failed" /\ \E o \in Gen : h'[o].op \in Abandoning /\ h'[o].run = f
    <3>1. CASE Opens(g)
      BY <2>2, <2>7, <3>1 DEF Opens
    <3>2. CASE StartAbandons(g)
      <4>1. active \in Gen \ {g} /\ AbandonsOne(g, active)
        BY <3>2 DEF StartAbandons
      <4>2. active' = active /\ h'[g].op \in Abandoning /\ h'[g].run = active
        BY <4>1 DEF AbandonsOne, Moves
      <4>3. phase'[active] = "failed"
        BY <2>1, <2>2, <4>1, ActiveAtStart
      <4> QED BY <2>7, <4>2, <4>3
    <3>3. CASE PassStart(g)
      BY <2>7, <3>3 DEF PassStart, Passes
    <3> QED BY <1>3, <3>1, <3>2, <3>3
  <2>8. ASSUME NEW o \in Gen, phase'[o] # "idle", log'[o] = <<>>
        PROVE  o > 1 /\ phase'[o - 1] = "failed"
    <3>1. CASE o # g
      <4>1. o > 1 /\ phase[o - 1] = "failed"
        BY <1>1, <1>2, <2>2, <2>8, <3>1
      <4> QED BY <2>1, <2>2, <4>1 DEF Starts
    <3>2. CASE o = g /\ Opens(g)
      <4>1. log'[g] # <<>>
        BY <3>2, PutsRows, EventsAre DEF Opens, Good
      <4> QED BY <2>8, <3>2, <4>1
    <3>3. CASE o = g /\ StartAbandons(g)
      <4>1. phase[active] = "failed" /\ active = g - 1 /\ g > 1
        BY <2>1, <3>3, ActiveAtStart DEF StartAbandons
      <4> QED BY <2>2, <3>3, <4>1
    <3>4. CASE o = g /\ PassStart(g)
      <4>1. PICK f \in Gen : Last(f) /\ phase[f] \in {"open", "step", "failed"}
        BY <3>4 DEF PassStart, Good, InTurn
      <4> QED BY <2>2, <3>4, <4>1
    <3> QED BY <1>3, <3>1, <3>2, <3>3, <3>4
  <2>9. ASSUME NEW o \in Gen, phase'[o] \in {"open", "step"}, log'[o] # <<>> PROVE active' = o
    <3>1. o = g
      BY <2>2, <2>9
    <3>2. CASE Opens(g)
      BY <3>1, <3>2 DEF Opens
    <3>3. CASE StartAbandons(g)
      <4>1. active \in Gen \ {g} /\ AbandonsOne(g, active)
        BY <3>3 DEF StartAbandons
      <4>2. log'[g] = log[g]
        BY <4>1 DEF AbandonsOne, Puts
      <4> QED BY <2>2, <2>9, <3>1, <4>2
    <3>4. CASE PassStart(g)
      BY <2>2, <2>9, <3>1, <3>4 DEF PassStart, Passes
    <3> QED BY <1>3, <3>2, <3>3, <3>4
  <2> QED BY <2>4, <2>5, <2>6, <2>7, <2>8, <2>9 DEF InTurn
<1>4. ASSUME NEW g \in Gen, Goes(g),
             \/ BeginsStep(g) \/ EndsStep(g) \/ EndsRun(g) \/ AbandonsOn(g)
             \/ AbandonEnds(g) \/ RowWritten(g) \/ Suspend(g)
             \/ PassStepStart(g) \/ PassStepEnd(g) \/ PassFinish(g)
             \/ PassFails(g)
      PROVE  InTurn'
  <2>1. /\ GoesOn(g) /\ Last(g)
        /\ \A o \in Gen \ {g} : h[o] = Idle /\ phase[o] \notin {"open", "step"}
    BY <1>4, Alone DEF Goes, GoesOn
  <2>2. /\ \A o \in Gen \ {g} : phase'[o] = phase[o] /\ h'[o] = Idle
        /\ \A o \in Gen : phase'[o] = "idle" <=> phase[o] = "idle"
        /\ \A o \in Gen : phase[o] = "failed" => phase'[o] = "failed"
        /\ phase[g] \in {"open", "step"} \/ phase'[g] = phase[g]
    BY <1>4, <2>1 DEF Goes, Last
  <2>3. Last(g)' /\ \A o \in Gen : Last(o) => o = g
    <3>1. Last(g)'
      BY <2>1, <2>2 DEF Last
    <3>2. \A o \in Gen : o = g \/ o > g \/ g > o
      BY DEF Gen
    <3> QED BY <2>1, <3>1, <3>2 DEF Last
  <2>4. active' \in {active, None}
    BY <1>4 DEF BeginsStep, EndsStep, EndsRun, EndsOwn, AbandonsOn, AbandonsOne, AbandonEnds,
       RowWritten, Suspend, PassStepStart, PassStepEnd, PassFinish, PassFails, Passes
  <2>5. suspended' => /\ suspended \/ Suspend(g)
                      /\ ~EndsRun(g) /\ ~PassFinish(g)
    BY <1>4 DEF BeginsStep, EndsStep, EndsRun, EndsOwn, AbandonsOn, AbandonsOne, AbandonEnds,
       RowWritten, PassStepStart, PassStepEnd, PassFinish, PassFails, Passes
  <2>6. \A f, o \in Gen : phase'[o] # "idle" /\ f < o => phase'[f] # "idle"
    BY <1>2, <2>2
  <2>7. \A o \in Gen : GoesOn(o)' => Last(o)'
    BY <2>1, <2>2, <2>3 DEF GoesOn
  \* what becomes of its phase
  <2>8. \/ EndsRun(g) \/ PassFinish(g) \/ phase'[g] = phase[g]
        \/ phase'[g] \in {"open", "step", "failed"}
    BY <1>4 DEF BeginsStep, EndsStep, AbandonsOn, AbandonEnds, RowWritten, Suspend,
       PassStepStart, PassStepEnd, PassFails, framework
  <2>9. ASSUME suspended'
        PROVE  active' = None /\ \E o \in Gen : Last(o)' /\ phase'[o] \in {"open", "step", "failed"}
    <3>1. CASE Suspend(g)
      <4>1. active = None /\ phase[g] = "open"
        BY <3>1 DEF Suspend, Good, Strands
      <4>2. phase'[g] = "open"
        BY <3>1, <4>1 DEF Suspend, framework
      <4> QED BY <2>3, <2>4, <4>1, <4>2
    <3>2. CASE suspended
      <4>1. active = None /\ phase[g] \in {"open", "step", "failed"}
        BY <2>3, <3>2 DEF Good, InTurn
      <4>2. phase'[g] \in {"open", "step", "failed"}
        BY <2>5, <2>8, <2>9, <4>1
      <4> QED BY <2>3, <2>4, <4>1, <4>2
    <3> QED BY <2>5, <2>9, <3>1, <3>2
  <2>10. ASSUME NEW f \in Gen, active' = f
         PROVE  \/ Last(f)' /\ (phase'[f] # "done" \/ h'[f].op = "endRun")
                \/ phase'[f] = "failed" /\ \E o \in Gen : h'[o].op \in Abandoning /\ h'[o].run = f
    <3>1. active = f
      BY <2>4, <2>10
    <3>2. CASE Last(f) /\ (phase[f] # "done" \/ h[f].op = "endRun")
      <4>1. f = g
        BY <2>3, <3>2
      <4>2. CASE EndsRun(g)
        <5>1. h'[g].op = "endRun"
          BY <4>2 DEF EndsRun, EndsOwn, Moves, At
        <5> QED BY <2>3, <4>1, <5>1
      <4>3. ~PassFinish(g)
        BY <3>1, <4>1 DEF PassFinish
      <4>4. CASE phase'[g] \in {"open", "step", "failed"}
        BY <2>3, <4>1, <4>4
      <4>5. CASE phase'[g] = phase[g] /\ phase[g] = "done"
        <5>1. h[g].op = "endRun"
          BY <3>2, <4>1, <4>5
        <5>2. RowWritten(g)
          BY <1>4, <4>5, <5>1, IdleIs
             DEF BeginsStep, EndsStep, EndsRun, EndsOwn, AbandonsOn, AbandonEnds, Suspend,
                 PassStepStart, PassStepEnd, PassFinish, PassFails
        <5> QED BY <2>10, <5>1, <5>2 DEF RowWritten
      <4> QED BY <2>3, <2>8, <4>1, <4>2, <4>3, <4>4, <4>5, <3>2
    <3>3. CASE phase[f] = "failed" /\ \E o \in Gen : h[o].op \in Abandoning /\ h[o].run = f
      <4>1. h[g].op \in Abandoning /\ h[g].run = f
        BY <2>1, <3>3, IdleIs DEF Abandoning
      <4>2. AbandonsOn(g) \/ AbandonEnds(g)
        BY <1>4, <4>1, IdleIs
           DEF BeginsStep, EndsStep, EndsRun, EndsOwn, RowWritten, Suspend,
               PassStepStart, PassStepEnd, PassFinish, PassFails, Abandoning
      <4>3. ~AbandonEnds(g)
        BY <2>10 DEF AbandonEnds
      <4>4. h'[g].op \in Abandoning /\ h'[g].run = f
        BY <4>1, <4>2, <4>3 DEF AbandonsOn, AbandonsOne, Moves
      <4> QED BY <2>2, <3>3, <4>4
    <3> QED BY <3>1, <3>2, <3>3 DEF Good, InTurn
  <2>11. ASSUME NEW o \in Gen, phase'[o] # "idle", log'[o] = <<>>
         PROVE  o > 1 /\ phase'[o - 1] = "failed"
    BY <1>1, <1>2, <2>2, <2>11
  <2>12. ASSUME NEW o \in Gen, phase'[o] \in {"open", "step"}, log'[o] # <<>> PROVE active' = o
    <3>1. o = g /\ phase[g] \in {"open", "step"}
      BY <2>1, <2>2, <2>12
    <3>2. CASE log[g] # <<>>
      <4>1. active = g
        BY <1>2, <3>1, <3>2
      <4>2. ~AbandonEnds(g)
        BY <3>1, <4>1 DEF AbandonEnds, Good, Strands, Abandoning
      <4>3. h[g].op # "endRun"
        BY <3>1 DEF Good, Strands
      <4>4. active' = active
        BY <1>4, <4>2, <4>3 DEF BeginsStep, EndsStep, EndsRun, EndsOwn, AbandonsOn,
           AbandonsOne, RowWritten, Suspend, PassStepStart, PassStepEnd, PassFinish,
           PassFails, Passes
      <4> QED BY <3>1, <4>1, <4>4
    <3>3. CASE log[g] = <<>>
      <4>1. log'[g] # log[g]
        BY <2>12, <3>1, <3>3
      <4>2. BeginsStep(g) \/ EndsStep(g) \/ EndsRun(g) \/ AbandonsOn(g)
        BY <1>4, <4>1 DEF AbandonEnds, RowWritten, Suspend, PassStepStart, PassStepEnd,
           PassFinish, PassFails, Passes
      <4>3. ~AbandonsOn(g)
        <5> SUFFICES ASSUME AbandonsOn(g) PROVE FALSE
          OBVIOUS
        <5>1. AbandonsOne(g, h[g].run) /\ h[g].run \in Gen /\ phase[h[g].run] = "failed"
          BY DEF AbandonsOn, Good, Strands, Abandoning
        <5>2. h[g].run # g
          BY <3>1, <5>1
        <5>3. log'[g] = log[g]
          BY <5>1, <5>2 DEF AbandonsOne, Puts
        <5> QED BY <4>1, <5>3
      <4>4. active = g /\ active' = active
        BY <4>2, <4>3 DEF BeginsStep, EndsStep, EndsRun, EndsOwn
      <4> QED BY <3>1, <4>4
    <3> QED BY <3>2, <3>3
  <2> QED BY <2>6, <2>7, <2>9, <2>10, <2>11, <2>12 DEF InTurn
<1>5. ASSUME NEW x \in Tool, ToolGoes,
             \/ BeginsTool(x) \/ EndsTool(x) \/ RowWritten(x) \/ PassToolStart(x)
             \/ PassToolEnd(x)
      PROVE  InTurn'
  <2>1. /\ phase' = phase /\ suspended' = suspended /\ active' = active
        /\ \A g \in Gen : h'[g] = h[g]
    BY <1>5 DEF ToolGoes
  <2>2. \A g \in Gen : phase[g] \in {"open", "step"} /\ log'[g] # <<>> => active = g
    <3> SUFFICES ASSUME NEW g \in Gen, phase[g] \in {"open", "step"}, log'[g] # <<>>, active # g
                 PROVE  FALSE
      OBVIOUS
    <3>1. log[g] = <<>>
      BY <1>2
    <3>2. log'[g] = log[g]
      <4>1. ASSUME NEW r, NEW e, NEW at, NEW by, NEW u, r # g, Puts(r, e, at, by, u)
            PROVE  log'[g] = log[g]
        BY <4>1 DEF Puts, Good, Typed
      <4>2. CASE BeginsTool(x)
        BY <4>1, <4>2 DEF BeginsTool
      <4>3. CASE EndsTool(x)
        BY <4>1, <4>3 DEF EndsTool, EndsOwn
      <4>4. CASE RowWritten(x) \/ PassToolStart(x) \/ PassToolEnd(x)
        BY <4>4 DEF RowWritten, PassToolStart, PassToolEnd, Passes
      <4> QED BY <1>5, <4>2, <4>3, <4>4
    <3> QED BY <3>1, <3>2
  <2>3. \A g \in Gen : (Last(g)' <=> Last(g)) /\ (GoesOn(g)' <=> GoesOn(g))
    BY <2>1 DEF Last, GoesOn
  <2> QED BY <1>1, <2>1, <2>2, <2>3 DEF Good, InTurn
<1> QED BY <1>3, <1>4, <1>5, WhoGoes

-----------------------------------------------------------------------------
(* The strands                                                             *)

GenStrand(g) ==
    /\ h[g].op \in Abandoning => phase[g] = "open" /\ active = h[g].run /\ phase[h[g].run] = "failed"
    /\ h[g].op = "abandoned" => phase[g] = "open" /\ active = None
    /\ h[g].op = "endRun" => h[g].run = g /\ active = g /\ phase[g] = "done"
    /\ h[g].op \in {"row", "endStep"} => h[g].run = g /\ active = g
    /\ h[g].op = "endStep" => h[g].key = step[g]
ToolStrand(x) ==
    /\ h[x].op \in {"idle", "row", "endTool"}
    /\ h[x].op = "endTool" => h[x].run = Caller[x]
    /\ tool[x] = "running" \/ h[x] # Idle => phase[Caller[x]] \in {"step", "failed"}

LEMMA StrandsAre ==
    ASSUME h'[Closer] = Idle, \A g \in Gen : GenStrand(g)', \A x \in Tool : ToolStrand(x)'
    PROVE  Strands'
<1>1. \A s \in Strand : s \in Gen \/ h'[s].op \in {"idle", "row", "endTool"}
  BY IdleIs DEF Strand, ToolStrand
<1> QED BY <1>1 DEF Strands, GenStrand, ToolStrand, Abandoning

LEMMA IdleStrand ==
    ASSUME NEW g, h'[g] = Idle
    PROVE  GenStrand(g)'
BY IdleIs DEF GenStrand, Abandoning

LEMMA AtOps == \A op, r, e, k : At(op, r, e, k).op = op /\ At(op, r, e, k).run = r
BY DEF At

LEMMA OtherTools ==
    ASSUME Good, NEW x \in Tool,
           \/ BeginsTool(x) \/ EndsTool(x) \/ RowWritten(x) \/ PassToolStart(x)
           \/ PassToolEnd(x)
    PROVE  \A y \in Tool \ {x} : h'[y] = h[y] /\ tool'[y] = tool[y]
<1>1. /\ tool' = tool \/ \E p : tool' = [tool EXCEPT ![x] = p]
      /\ h' = h \/ \E at : h' = [h EXCEPT ![x] = at]
  BY DEF BeginsTool, EndsTool, EndsOwn, Moves, RowWritten, PassToolStart, PassToolEnd,
     Passes, framework
<1> QED BY <1>1, GenIs DEF Good, Typed

LEMMA StrandsStep ==
    ASSUME Good, CalmStep, h'[Closer] = Idle
    PROVE  Strands'
<1> USE CalmHas, GenIs
<1>1. /\ \A g \in Gen : GenStrand(g)
      /\ \A x \in Tool : ToolStrand(x)
  BY DEF Good, Strands, GenStrand, ToolStrand
<1>2. ASSUME NEW g \in Gen, Opens(g) \/ StartAbandons(g) \/ PassStart(g) PROVE Strands'
  <2>1. Starts(g)
    BY <1>2 DEF Opens, StartAbandons, PassStart
  <2>2. /\ phase'[g] = "open" /\ \A o \in Gen \ {g} : phase'[o] = phase[o] /\ h[o] = Idle
        /\ h[g] = Idle /\ phase[g] = "idle" /\ tool' = tool
    BY <2>1, StartsNext DEF Starts
  <2>3. \A s \in Strand \ {g} : h'[s] = h[s]
    BY <1>2 DEF Opens, StartAbandons, PassStart, Passes, AbandonsOne, Moves
  <2>4. \A o \in Gen \ {g} : GenStrand(o)'
    BY <2>2, <2>3, IdleStrand
  <2>5. GenStrand(g)'
    <3>1. CASE Opens(g)
      <4>1. h'[g].op = "row" /\ h'[g].run = g /\ active' = g
        BY <3>1, AtOps DEF Opens, Moves
      <4> QED BY <4>1 DEF GenStrand, Abandoning
    <3>2. CASE StartAbandons(g)
      <4>1. active \in Gen \ {g} /\ AbandonsOne(g, active)
        BY <3>2 DEF StartAbandons
      <4>2. h'[g].op \in Abandoning /\ h'[g].run = active /\ active' = active
        BY <4>1 DEF AbandonsOne, Moves
      <4>3. phase'[active] = "failed"
        BY <2>1, <2>2, <4>1, ActiveAtStart
      <4> QED BY <2>2, <4>2, <4>3 DEF GenStrand, Abandoning
    <3>3. CASE PassStart(g)
      BY <2>2, <3>3, IdleStrand DEF PassStart, Passes
    <3> QED BY <1>2, <3>1, <3>2, <3>3
  <2>6. ASSUME NEW x \in Tool PROVE ToolStrand(x)'
    BY <1>1, <2>2, <2>3 DEF ToolStrand
  <2> QED BY <2>4, <2>5, <2>6, StrandsAre
<1>3. ASSUME NEW g \in Gen, Goes(g),
             \/ BeginsStep(g) \/ EndsStep(g) \/ EndsRun(g) \/ AbandonsOn(g)
             \/ AbandonEnds(g) \/ RowWritten(g) \/ Suspend(g)
             \/ PassStepStart(g) \/ PassStepEnd(g) \/ PassFinish(g)
             \/ PassFails(g)
      PROVE  Strands'
  <2>1. \A o \in Gen \ {g} : h'[o] = Idle /\ phase'[o] = phase[o]
    BY <1>3, Alone DEF Goes, GoesOn
  <2>2. \A o \in Gen \ {g} : GenStrand(o)'
    BY <2>1, IdleStrand
  <2>3. GenStrand(g)'
    <3>1. CASE BeginsStep(g)
      <4>1. h'[g].op = "row" /\ h'[g].run = g /\ active' = g
        BY <3>1, AtOps DEF BeginsStep, Moves
      <4> QED BY <4>1 DEF GenStrand, Abandoning
    <3>2. CASE EndsStep(g)
      <4>1. h'[g].op = "endStep" /\ h'[g].run = g /\ h'[g].key = step'[g] /\ active' = g
        BY <3>2, AtOps, KeyIs DEF EndsStep, EndsOwn, Moves
      <4> QED BY <4>1 DEF GenStrand, Abandoning
    <3>3. CASE EndsRun(g)
      <4>1. h'[g].op = "endRun" /\ h'[g].run = g /\ active' = g /\ phase'[g] = "done"
        BY <3>3, AtOps DEF EndsRun, EndsOwn, Moves
      <4> QED BY <4>1 DEF GenStrand, Abandoning
    <3>4. CASE AbandonsOn(g)
      <4>1. h'[g].op \in Abandoning /\ h'[g].run = h[g].run /\ active' = active /\ phase' = phase
        BY <3>4 DEF AbandonsOn, AbandonsOne, Moves, framework
      <4>2. phase[g] = "open" /\ active = h[g].run /\ phase[h[g].run] = "failed"
        BY <1>1, <3>4 DEF AbandonsOn, GenStrand, Abandoning
      <4> QED BY <4>1, <4>2 DEF GenStrand, Abandoning
    <3>5. CASE AbandonEnds(g)
      <4>1. h'[g].op = "abandoned" /\ active' = None /\ phase' = phase
        BY <3>5 DEF AbandonEnds, Handler, framework
      <4>2. phase[g] = "open"
        BY <1>1, <3>5 DEF AbandonEnds, GenStrand, Abandoning
      <4> QED BY <4>1, <4>2 DEF GenStrand, Abandoning
    <3>6. CASE RowWritten(g) \/ Suspend(g)
      BY <3>6, IdleStrand DEF RowWritten, Suspend
    <3>7. CASE PassStepStart(g) \/ PassStepEnd(g) \/ PassFinish(g) \/ PassFails(g)
      BY <3>7, IdleStrand DEF PassStepStart, PassStepEnd, PassFinish, PassFails, Passes
    <3> QED BY <1>3, <3>1, <3>2, <3>3, <3>4, <3>5, <3>6, <3>7
  <2>4. ASSUME NEW x \in Tool PROVE ToolStrand(x)'
    <3>1. tool' = tool /\ h'[x] = h[x] /\ ToolStrand(x)
      BY <1>1, <1>3 DEF Goes
    <3>2. CASE phase'[Caller[x]] = phase[Caller[x]]
      BY <3>1, <3>2 DEF ToolStrand
    <3>3. CASE phase'[Caller[x]] # phase[Caller[x]]
      <4>1. Caller[x] = g
        BY <2>1, <3>3
      <4>2. CASE EndsStep(g) \/ PassStepEnd(g)
        BY <3>1, <4>1, <4>2 DEF EndsStep, PassStepEnd, ToolStrand
      <4>3. CASE PassFails(g)
        BY <3>1, <4>1, <4>3 DEF PassFails, ToolStrand
      <4>4. CASE ~EndsStep(g) /\ ~PassStepEnd(g) /\ ~PassFails(g)
        <5>1. phase[g] = "open"
          BY <1>3, <3>3, <4>1, <4>4 DEF BeginsStep, EndsRun, AbandonsOn, AbandonEnds, RowWritten,
             Suspend, PassStepStart, PassFinish, framework
        <5> QED BY <3>1, <4>1, <5>1 DEF ToolStrand
      <4> QED BY <4>2, <4>3, <4>4
    <3> QED BY <3>2, <3>3
  <2> QED BY <2>2, <2>3, <2>4, StrandsAre
<1>4. ASSUME NEW x \in Tool, ToolGoes,
             \/ BeginsTool(x) \/ EndsTool(x) \/ RowWritten(x) \/ PassToolStart(x)
             \/ PassToolEnd(x)
      PROVE  Strands'
  <2>1. /\ phase' = phase /\ step' = step /\ active' = active
        /\ \A g \in Gen : h'[g] = h[g]
    BY <1>4 DEF ToolGoes
  <2>2. \A g \in Gen : GenStrand(g)'
    BY <1>1, <2>1 DEF GenStrand
  <2>3. \A y \in Tool \ {x} : h'[y] = h[y] /\ tool'[y] = tool[y]
    BY <1>4, OtherTools
  <2>4. \A y \in Tool \ {x} : ToolStrand(y)'
    BY <1>1, <2>1, <2>3 DEF ToolStrand
  <2>5. ToolStrand(x)'
    <3>1. CASE BeginsTool(x)
      <4>1. h'[x].op = "row" /\ phase[Caller[x]] = "step"
        BY <3>1, AtOps DEF BeginsTool, Moves
      <4> QED BY <2>1, <4>1 DEF ToolStrand
    <3>2. CASE EndsTool(x)
      <4>1. h'[x].op = "endTool" /\ h'[x].run = Caller[x] /\ tool[x] = "running"
        BY <3>2, AtOps DEF EndsTool, EndsOwn, Moves
      <4> QED BY <1>1, <2>1, <4>1 DEF ToolStrand
    <3>3. CASE RowWritten(x)
      <4>1. h'[x] = Idle /\ tool' = tool
        BY <3>3 DEF RowWritten, framework
      <4> QED BY <1>1, <2>1, <4>1, IdleIs DEF ToolStrand
    <3>4. CASE PassToolStart(x) \/ PassToolEnd(x)
      BY <1>1, <2>1, <3>4 DEF PassToolStart, PassToolEnd, Passes, ToolStrand
    <3> QED BY <1>4, <3>1, <3>2, <3>3, <3>4
  <2> QED BY <2>2, <2>4, <2>5, StrandsAre
<1> QED BY <1>2, <1>3, <1>4, WhoGoes

-----------------------------------------------------------------------------
(* The log                                                                 *)

LEMMA OrderedStep ==
    ASSUME Good, CalmStep
    PROVE  Ordered'
<1>1. Ordered
  BY DEF Good
<1>2. CASE AddsNone
  BY <1>1, <1>2 DEF AddsNone, Ordered, Once, Started, Rows
<1>3. ASSUME NEW r \in Gen, NEW e \in Event, NEW at \in {"start", "end"},
             NEW by \in {"own", "close", "overlap"}, NEW u \in Event \cup {None},
             Adds(r, e, at, by, u)
      PROVE  Ordered'
  <2>0. PICK n : n = Len(log[r]) + 1
    OBVIOUS
  <2>1. /\ \A q \in Gen \ {r} : log'[q] = log[q]
        /\ n \in Nat /\ n > 0 /\ DOMAIN log[r] = 1..(n - 1) /\ DOMAIN log'[r] = 1..n
        /\ \A i \in 1..(n - 1) : log'[r][i] = log[r][i]
        /\ LET row == log'[r][n]
           IN row.ev = e /\ row.at = at /\ row.by = by /\ row.under = u
    BY <1>3, <2>0, PutsIs DEF Adds, Good
  <2>2. log[r] = <<>> <=> n = 1
    <3>1. log[r] \in Seq(LogRow)
      BY DEF Good, Typed
    <3> QED BY <2>0, <3>1
  <2>3. /\ log[r] # <<>> => log[r][1].ev = RunEvent(r)
        /\ Once(r, "start")
        /\ \A i \in DOMAIN log[r] : Started(r, log[r][i].ev)
        /\ \A i \in DOMAIN log[r] : log[r][i].under # None =>
              \E j \in 1..i : log[r][j].ev = log[r][i].under
    BY <1>1 DEF Ordered
  <2>4. log'[r][1].ev = RunEvent(r)
    <3>1. CASE n = 1
      <4>1. e = RunEvent(r)
        BY <1>3, <2>2, <3>1, StartedIs DEF Adds
      <4> QED BY <2>1, <3>1, <4>1
    <3>2. CASE n # 1
      <4>1. 1 \in 1..(n - 1)
        BY <2>1, <3>2
      <4> QED BY <2>1, <2>2, <2>3, <3>2, <4>1
    <3> QED BY <3>1, <3>2
  <2>5. Once(r, "start")'
    <3> SUFFICES ASSUME NEW i \in 1..n, NEW j \in 1..n, i # j,
                        log'[r][i].at = "start", log'[r][j].at = "start",
                        log'[r][i].ev = log'[r][j].ev
                 PROVE  FALSE
      BY <2>1 DEF Once
    <3>1. CASE at = "end"
      <4>1. i \in 1..(n - 1) /\ j \in 1..(n - 1)
        BY <2>1, <3>1
      <4> QED BY <2>1, <2>3, <4>1 DEF Once
    <3>2. CASE at = "start"
      <4>1. ~Begun(e)
        BY <1>3, <3>2 DEF Adds
      <4>2. \A k \in 1..(n - 1) : log[r][k].ev # e
        BY <2>1, <4>1 DEF Good, Fresh, Known
      <4>3. i \in 1..(n - 1) /\ j \in 1..(n - 1)
        BY <2>1, <4>2
      <4> QED BY <2>1, <2>3, <4>3 DEF Once
    <3> QED BY <3>1, <3>2
  <2>6. Started(r, e)'
    <3>1. CASE at = "start"
      BY <1>3, <3>1, PutsRows DEF Adds, Good, Started
    <3>2. CASE at = "end"
      BY <1>3, <3>2, LogGrows DEF Adds, Started
    <3> QED BY <3>1, <3>2
  <2>7. (\A i \in DOMAIN log[r] : Started(r, log[r][i].ev))'
    <3>1. \A i \in 1..(n - 1) : Rows(r, log[r][i].ev, "start") # {}
      BY <2>1, <2>3 DEF Started
    <3>2. ASSUME NEW i \in 1..(n - 1) PROVE Rows(r, log[r][i].ev, "start")' # {}
      <4>1. PICK f : f = log[r][i].ev
        OBVIOUS
      <4>2. Rows(r, f, "start")' # {}
        BY <3>1, <4>1, LogGrows
      <4> QED BY <2>1, <4>1, <4>2
    <3>3. Rows(r, log[r][n].ev, "start")' # {}
      BY <2>1, <2>6 DEF Started
    <3>4. \A i \in 1..n : i = n \/ i \in 1..(n - 1)
      BY <2>1
    <3> QED BY <2>1, <3>2, <3>3, <3>4 DEF Started
  <2>8. \A i \in 1..n : log'[r][i].under # None =>
           \E j \in 1..i : log'[r][j].ev = log'[r][i].under
    <3> SUFFICES ASSUME NEW i \in 1..n, log'[r][i].under # None
                 PROVE  \E j \in 1..i : log'[r][j].ev = log'[r][i].under
      OBVIOUS
    <3>1. CASE i = n
      <4>1. PICK j \in 1..(n - 1) : log[r][j].ev = u
        BY <1>3, <2>1, <3>1 DEF Adds, InLog
      <4> QED BY <2>1, <3>1, <4>1
    <3>2. CASE i # n
      <4>1. i \in 1..(n - 1)
        BY <2>1, <3>2
      <4>2. PICK j \in 1..i : log[r][j].ev = log[r][i].under
        BY <2>1, <2>3, <4>1
      <4>3. j \in 1..(n - 1)
        BY <2>1, <4>1, <4>2
      <4> QED BY <2>1, <4>1, <4>2, <4>3
    <3> QED BY <3>1, <3>2
  <2>9. ASSUME NEW q \in Gen, q # r
         PROVE /\ log'[q] # <<>> => log'[q][1].ev = RunEvent(q)
               /\ Once(q, "start")'
               /\ (\A i \in DOMAIN log[q] : Started(q, log[q][i].ev))'
               /\ \A i \in DOMAIN log'[q] : log'[q][i].under # None =>
                     \E j \in 1..i : log'[q][j].ev = log'[q][i].under
    <3>1. log'[q] = log[q]
      BY <2>1, <2>9
    <3> QED BY <1>1, <3>1 DEF Ordered, Once, Started, Rows
  <2> QED BY <2>1, <2>4, <2>5, <2>7, <2>8, <2>9 DEF Ordered
<1> QED BY <1>2, <1>3, LogMoves DEF AddsOne

LEMMA CleanStep ==
    ASSUME Good, CalmStep
    PROVE  Clean'
<1>1. Clean
  BY DEF Good
<1>2. \A r \in Gen : phase[r] = "failed" => phase'[r] = "failed"
  <2>1. ASSUME NEW g \in Gen, Opens(g) \/ StartAbandons(g) \/ PassStart(g), NEW r \in Gen,
               phase[r] = "failed"
        PROVE  phase'[r] = "failed"
    <3>1. Starts(g)
      BY <2>1 DEF Opens, StartAbandons, PassStart
    <3> QED BY <2>1, <3>1, StartsNext DEF Starts
  <2> QED BY <2>1, WhoGoes DEF Goes, ToolGoes
<1>3. CASE AddsNone
  BY <1>1, <1>2, <1>3 DEF AddsNone, Clean, Once
<1>4. ASSUME NEW r \in Gen, NEW e \in Event, NEW at \in {"start", "end"},
             NEW by \in {"own", "close", "overlap"}, NEW u \in Event \cup {None},
             Adds(r, e, at, by, u)
      PROVE  Clean'
  <2>0. PICK n : n = Len(log[r]) + 1
    OBVIOUS
  <2>1. /\ \A q \in Gen \ {r} : log'[q] = log[q]
        /\ n \in Nat /\ n > 0 /\ DOMAIN log[r] = 1..(n - 1) /\ DOMAIN log'[r] = 1..n
        /\ Len(log'[r]) = n
        /\ \A i \in 1..(n - 1) : log'[r][i] = log[r][i]
        /\ LET row == log'[r][n]
           IN row.ev = e /\ row.at = at /\ row.by = by /\ row.under = u
    BY <1>4, <2>0, PutsIs DEF Adds, Good
  <2>2. ASSUME phase'[r] # "failed"
        PROVE  /\ \A i \in 1..n : log'[r][i].by = "own"
               /\ Once(r, "end")'
               /\ phase'[r] = "done" => log'[r][n].ev = RunEvent(r)
    <3>1. /\ \A i \in 1..(n - 1) : log[r][i].by = "own"
          /\ Once(r, "end") /\ phase[r] # "failed"
      BY <1>1, <1>2, <2>1, <2>2 DEF Clean
    <3>2. by = "own" /\ (at = "end" => Rows(r, e, "end") = {})
      BY <1>4, <3>1 DEF Adds
    <3>3. \A i \in 1..n : i = n \/ i \in 1..(n - 1)
      BY <2>1
    <3>4. \A i \in 1..n : log'[r][i].by = "own"
      BY <2>1, <3>1, <3>2, <3>3
    <3>7. \A i, j \in 1..(n - 1) :
             log'[r][i].at = "end" /\ log'[r][j].at = "end" /\ log'[r][i].ev = log'[r][j].ev
             => i = j
      <4>1. \A i, j \in 1..(n - 1) :
               log[r][i].at = "end" /\ log[r][j].at = "end" /\ log[r][i].ev = log[r][j].ev
               => i = j
        BY <2>1, <3>1 DEF Once
      <4>2. \A i \in 1..(n - 1) : log'[r][i] = log[r][i]
        BY <2>1
      <4> QED BY <4>1, <4>2
    <3>5. Once(r, "end")'
      <4> SUFFICES ASSUME NEW i \in 1..n, NEW j \in 1..n, i # j,
                          log'[r][i].at = "end", log'[r][j].at = "end",
                          log'[r][i].ev = log'[r][j].ev
                   PROVE  FALSE
        BY <2>1 DEF Once
      <4>1. CASE at = "start"
        <5>1. i \in 1..(n - 1) /\ j \in 1..(n - 1)
          BY <2>1, <4>1, <3>3
        <5> QED BY <3>7, <5>1
      <4>2. CASE at = "end"
        <5>1. \A k \in 1..(n - 1) : ~(log[r][k].at = "end" /\ log[r][k].ev = e)
          BY <2>1, <3>2, <4>2 DEF Rows
        <5>2. i \in 1..(n - 1) /\ j \in 1..(n - 1)
          BY <2>1, <5>1, <3>3
        <5> QED BY <3>7, <5>2
      <4> QED BY <4>1, <4>2
    <3>6. phase'[r] = "done" => log'[r][n].ev = RunEvent(r)
      BY <1>4, <2>1 DEF Adds
    <3> QED BY <3>4, <3>5, <3>6
  <2>3. ASSUME NEW q \in Gen, q # r, phase'[q] # "failed"
        PROVE  /\ \A i \in DOMAIN log'[q] : log'[q][i].by = "own"
               /\ Once(q, "end")'
               /\ phase'[q] = "done" /\ log'[q] # <<>> => log'[q][Len(log'[q])].ev = RunEvent(q)
    <3>1. phase[q] # "failed" /\ log'[q] = log[q] /\ (phase'[q] = "done" => phase[q] = "done")
      BY <1>2, <1>4, <2>1, <2>3 DEF Adds, NoneDone
    <3> QED BY <1>1, <3>1 DEF Clean, Once
  <2> QED BY <2>1, <2>2, <2>3 DEF Clean
<1> QED BY <1>3, <1>4, LogMoves DEF AddsOne

-----------------------------------------------------------------------------
(* The Maps                                                                *)

\* The step ends of the generation, the tool ends of the call, and the end of the
\* abandonment are all that takes entries away.
TakesSteps(s, r) == s \in Gen /\ RowWritten(s) /\ h[s].op = "endStep" /\ h[s].run = r
TakesTools(s, r) == s \in Tool /\ RowWritten(s) /\ h[s].op = "endTool" /\ h[s].run = r
TakesAll(s, r) == s \in Gen /\ AbandonEnds(s) /\ h[s].run = r

LEMMA MapsMove ==
    ASSUME Good, CalmStep
    PROVE  /\ \/ steps' = steps
              \/ \E g \in Gen : BeginsStep(g)
              \/ \E s \in Gen, r \in Gen : TakesAll(s, r) \/ TakesSteps(s, r)
           /\ \/ tools' = tools
              \/ \E x \in Tool : BeginsTool(x)
              \/ \E s \in Gen, r \in Gen : TakesAll(s, r)
              \/ \E x \in Tool, r \in Gen : TakesTools(x, r)
<1>1. ASSUME NEW g \in Gen, Opens(g) \/ StartAbandons(g) \/ PassStart(g)
      PROVE  steps' = steps /\ tools' = tools
  BY <1>1 DEF Opens, StartAbandons, AbandonsOne, PassStart, Passes
<1>2. ASSUME NEW g \in Gen,
             \/ EndsStep(g) \/ EndsRun(g) \/ AbandonsOn(g) \/ Suspend(g)
             \/ PassStepStart(g) \/ PassStepEnd(g) \/ PassFinish(g) \/ PassFails(g)
      PROVE  steps' = steps /\ tools' = tools
  BY <1>2 DEF EndsStep, EndsRun, EndsOwn, AbandonsOn, AbandonsOne, Suspend, PassStepStart,
     PassStepEnd, PassFinish, PassFails, Passes
<1>3. ASSUME NEW g \in Gen, BeginsStep(g) PROVE tools' = tools
  BY <1>3 DEF BeginsStep
<1>4. ASSUME NEW g \in Gen, AbandonEnds(g) PROVE \E r \in Gen : TakesAll(g, r)
  BY <1>4, GenIs DEF AbandonEnds, TakesAll, Good, Shapes, Shape, Ending, Abandoning
<1>5. ASSUME NEW g \in Gen, RowWritten(g)
      PROVE  tools' = tools /\ (steps' = steps \/ \E r \in Gen : TakesSteps(g, r))
  <2>1. h[g].op # "endTool" /\ (h[g].op = "endStep" => h[g].run \in Gen)
    BY GenIs DEF Good, Shapes, Shape, Ending
  <2> QED BY <1>5, <2>1 DEF RowWritten, TakesSteps
<1>6. ASSUME NEW x \in Tool, RowWritten(x)
      PROVE  steps' = steps /\ (tools' = tools \/ \E r \in Gen : TakesTools(x, r))
  <2>1. h[x].op # "endStep" /\ (h[x].op = "endTool" => h[x].run \in Gen)
    BY GenIs DEF Good, Strands, Shapes, Shape, Ending
  <2> QED BY <1>6, <2>1 DEF RowWritten, TakesTools
<1>7. ASSUME NEW x \in Tool, EndsTool(x) \/ PassToolStart(x) \/ PassToolEnd(x)
      PROVE  steps' = steps /\ tools' = tools
  BY <1>7 DEF EndsTool, EndsOwn, PassToolStart, PassToolEnd, Passes
<1>8. ASSUME NEW x \in Tool, BeginsTool(x) PROVE steps' = steps
  BY <1>8 DEF BeginsTool
<1> QED BY <1>1, <1>2, <1>3, <1>4, <1>5, <1>6, <1>7, <1>8, WhoGoes

LEMMA StepIs ==
    ASSUME Good, NEW r \in Gen, NEW i \in DOMAIN steps[r]
    PROVE  /\ steps[r][i] \in Entries(Nat) /\ steps[r][i].ev = StepEvent(r, steps[r][i].key)
           /\ steps[r][i].key \in 1..step[r]
<1>1. steps[r][i] \in Entries(Nat)
  BY CalmHas
<1>2. PICK g \in Gen : steps[r][i].ev = StepEvent(g, steps[r][i].key)
  BY DEF Good, Shapes, MapShapes
<1>3. steps[r][i].ev[2] = r
  BY CalmHas DEF OwnEntries
<1>4. g = r
  BY <1>2, <1>3 DEF StepEvent
<1>5. Begun(StepEvent(r, steps[r][i].key))
  BY <1>2, <1>4 DEF Good, Fresh, Known
<1>6. steps[r][i].key \in 1..step[r]
  BY <1>5, EventsAre DEF Begun
<1> QED BY <1>1, <1>2, <1>4, <1>6

LEMMA ToolIs ==
    ASSUME Good, NEW r \in Gen, NEW i \in DOMAIN tools[r]
    PROVE  /\ tools[r][i] \in Entries(Tool) /\ tools[r][i].key \in Tool
           /\ tools[r][i].ev = ToolEvent(tools[r][i].key)
           /\ Caller[tools[r][i].key] = r /\ tool[tools[r][i].key] # "idle"
<1>1. tools[r][i] \in Entries(Tool)
  BY CalmHas
<1>2. tools[r][i].key \in Tool
  BY <1>1 DEF Entries
<1>3. tools[r][i].ev = ToolEvent(tools[r][i].key)
  BY DEF Good, Shapes, MapShapes
<1>4. tools[r][i].ev[2] = r
  BY CalmHas DEF OwnEntries
<1>5. Caller[tools[r][i].key] = r
  BY <1>3, <1>4 DEF ToolEvent
<1>6. Begun(ToolEvent(tools[r][i].key))
  BY <1>3 DEF Good, Fresh, Known
<1>7. tool[tools[r][i].key] # "idle"
  BY <1>2, <1>6, EventsAre DEF Begun
<1> QED BY <1>1, <1>2, <1>3, <1>5, <1>7

LEMMA BeginsStepMap ==
    ASSUME Good, NEW g \in Gen, BeginsStep(g), NEW n, n = Len(steps[g]) + 1,
           NEW k, k = step[g] + 1
    PROVE  /\ \A r \in Gen \ {g} : steps'[r] = steps[r]
           /\ n \in Nat /\ DOMAIN steps[g] = 1..(n - 1) /\ DOMAIN steps'[g] = 1..n
           /\ n \in DOMAIN steps'[g]
           /\ \A i \in 1..(n - 1) : i # n /\ steps'[g][i] = steps[g][i]
           /\ \A i \in 1..n : i = n \/ i \in 1..(n - 1)
           /\ steps'[g][n].key = k /\ step'[g] = k
           /\ steps'[g][n].ev = StepEvent(g, k) /\ steps'[g][n].under = RunEvent(g)
           /\ steps'[g][n].live
           /\ Puts(g, StepEvent(g, k), "start", "own", RunEvent(g)) /\ StepEvent(g, k) \in Event
<1>0. k = step[g] + 1
  OBVIOUS
<1>1. /\ steps' = [steps EXCEPT ![g] = SetEntry(@, k, StepEvent(g, k), RunEvent(g))]
      /\ Puts(g, StepEvent(g, k), "start", "own", RunEvent(g))
      /\ StepEvent(g, k) \in Event /\ RunEvent(g) \in Event /\ step'[g] = k /\ k \in Nat
  BY <1>0, EventsAre DEF BeginsStep, Good, Typed
<1>2. steps[g] \in Seq(Entries(Nat))
  BY CalmHas
<1>3. IndexOf(steps[g], k) = {}
  <2>1. \A i \in DOMAIN steps[g] : steps[g][i].key \in 1..step[g]
    BY StepIs
  <2>2. k \notin 1..step[g]
    BY <1>0, CalmHas
  <2> QED BY <2>1, <2>2 DEF IndexOf
<1>4. steps'[g] = SetEntry(steps[g], k, StepEvent(g, k), RunEvent(g))
      /\ \A r \in Gen \ {g} : steps'[r] = steps[r]
  BY <1>1 DEF Good, Typed
<1>5. n = Len(steps[g]) + 1
  OBVIOUS
<1>6. PICK e : e = StepEvent(g, k)
  OBVIOUS
<1>7. PICK u : u = RunEvent(g)
  OBVIOUS
<1>8. steps'[g] = SetEntry(steps[g], k, e, u) /\ e \in Event /\ u \in Event
  BY <1>1, <1>4, <1>6, <1>7
<1>12. PICK K : K = Nat
  OBVIOUS
<1>13. steps[g] \in Seq(Entries(K)) /\ k \in K
  BY <1>1, <1>2, <1>12
<1>9. /\ Len(steps[g]) \in Nat /\ DOMAIN steps[g] = 1..Len(steps[g]) /\ DOMAIN steps'[g] = 1..n
      /\ \A i \in 1..Len(steps[g]) : steps'[g][i] = steps[g][i]
      /\ steps'[g][n].key = k /\ steps'[g][n].ev = e /\ steps'[g][n].under = u
      /\ steps'[g][n].live
  BY <1>3, <1>5, <1>8, <1>13, SetsLast
<1>10. /\ n \in Nat /\ Len(steps[g]) = n - 1 /\ n \in 1..n
       /\ \A i \in 1..n : i = n \/ i \in 1..(n - 1)
       /\ \A i \in 1..(n - 1) : i # n
  BY <1>5, <1>9
<1>11. /\ DOMAIN steps[g] = 1..(n - 1) /\ DOMAIN steps'[g] = 1..n /\ n \in DOMAIN steps'[g]
       /\ \A i \in 1..(n - 1) : i # n /\ steps'[g][i] = steps[g][i]
  BY <1>9, <1>10
<1> QED BY <1>0, <1>1, <1>4, <1>5, <1>6, <1>7, <1>9, <1>10, <1>11

LEMMA BeginsToolMap ==
    ASSUME Good, NEW x \in Tool, BeginsTool(x), NEW g, g = Caller[x],
           NEW n, n = Len(tools[g]) + 1
    PROVE  /\ \A r \in Gen \ {g} : tools'[r] = tools[r]
           /\ n \in Nat /\ DOMAIN tools[g] = 1..(n - 1) /\ DOMAIN tools'[g] = 1..n
           /\ n \in DOMAIN tools'[g]
           /\ \A i \in 1..(n - 1) : i # n /\ tools'[g][i] = tools[g][i]
           /\ \A i \in 1..n : i = n \/ i \in 1..(n - 1)
           /\ tools'[g][n].key = x /\ tools'[g][n].ev = ToolEvent(x) /\ tools'[g][n].live
           /\ InLog(g, tools'[g][n].under)
           /\ \E u \in Event : Puts(g, ToolEvent(x), "start", "own", u)
           /\ ToolEvent(x) \in Event /\ g \in Gen /\ active = g /\ active' = g
<1>0. g = Caller[x]
  OBVIOUS
<1>1. PICK u \in Event :
         /\ InLog(g, u)
         /\ tools' = [tools EXCEPT ![g] = SetEntry(@, x, ToolEvent(x), u)]
         /\ Puts(g, ToolEvent(x), "start", "own", u)
  BY <1>0 DEF BeginsTool
<1>2. g \in Gen /\ active = g /\ active' = g /\ ToolEvent(x) \in Event /\ tool[x] = "idle"
  BY <1>0, EventsAre DEF BeginsTool
<1>3. tools[g] \in Seq(Entries(Tool))
  BY <1>2, CalmHas
<1>4. IndexOf(tools[g], x) = {}
  BY <1>2, ToolIs DEF IndexOf
<1>5. n = Len(tools[g]) + 1
  OBVIOUS
<1>6. PICK e : e = ToolEvent(x)
  OBVIOUS
<1>8. /\ tools'[g] = SetEntry(tools[g], x, e, u) /\ e \in Event
      /\ \A r \in Gen \ {g} : tools'[r] = tools[r]
  BY <1>1, <1>2, <1>6 DEF Good, Typed
<1>9. /\ Len(tools[g]) \in Nat /\ DOMAIN tools[g] = 1..Len(tools[g]) /\ DOMAIN tools'[g] = 1..n
      /\ \A i \in 1..Len(tools[g]) : tools'[g][i] = tools[g][i]
      /\ tools'[g][n].key = x /\ tools'[g][n].ev = e /\ tools'[g][n].under = u
      /\ tools'[g][n].live
  BY <1>3, <1>4, <1>5, <1>8, SetsLast
<1>10. /\ n \in Nat /\ Len(tools[g]) = n - 1 /\ n \in 1..n
       /\ \A i \in 1..n : i = n \/ i \in 1..(n - 1)
       /\ \A i \in 1..(n - 1) : i # n
  BY <1>5, <1>9
<1>11. /\ DOMAIN tools[g] = 1..(n - 1) /\ DOMAIN tools'[g] = 1..n /\ n \in DOMAIN tools'[g]
       /\ \A i \in 1..(n - 1) : i # n /\ tools'[g][i] = tools[g][i]
  BY <1>9, <1>10
<1> QED BY <1>0, <1>1, <1>2, <1>5, <1>6, <1>8, <1>9, <1>10, <1>11

LEMMA Takes ==
    ASSUME Good, NEW s \in Strand, NEW r \in Gen
    PROVE  /\ TakesSteps(s, r) =>
                 /\ \A q \in Gen : Weeded(steps[q], steps'[q])
                 /\ \A q \in Gen \ {r} : steps'[q] = steps[q]
                 /\ \A i \in DOMAIN steps[r] :
                       steps'[r][i].live <=> steps[r][i].live /\ steps[r][i].key # h[s].key
           /\ TakesTools(s, r) =>
                 /\ \A q \in Gen : Weeded(tools[q], tools'[q])
                 /\ \A q \in Gen \ {r} : tools'[q] = tools[q]
                 /\ \A i \in DOMAIN tools[r] :
                       tools'[r][i].live <=> tools[r][i].live /\ tools[r][i].key # s
           /\ TakesAll(s, r) =>
                 /\ \A q \in Gen : Weeded(steps[q], steps'[q]) /\ Weeded(tools[q], tools'[q])
                 /\ \A q \in Gen \ {r} : steps'[q] = steps[q] /\ tools'[q] = tools[q]
                 /\ \A i \in DOMAIN steps[r] : ~steps'[r][i].live
                 /\ \A i \in DOMAIN tools[r] : ~tools'[r][i].live
                 /\ active' = None
<1>1. /\ \A q \in Gen : steps[q] \in Seq(Entries(Nat)) /\ tools[q] \in Seq(Entries(Tool))
      /\ DOMAIN steps = Gen /\ DOMAIN tools = Gen
  BY DEF Good, Typed
<1>2. ASSUME TakesSteps(s, r)
      PROVE  /\ steps'[r] = DeleteEntry(steps[r], h[s].key)
             /\ \A q \in Gen \ {r} : steps'[q] = steps[q]
  BY <1>1, <1>2 DEF TakesSteps, RowWritten
<1>3. ASSUME TakesTools(s, r)
      PROVE  /\ tools'[r] = DeleteEntry(tools[r], s)
             /\ \A q \in Gen \ {r} : tools'[q] = tools[q]
  BY <1>1, <1>3 DEF TakesTools, RowWritten
<1>4. ASSUME TakesAll(s, r)
      PROVE  /\ steps'[r] = Cleared(steps[r]) /\ tools'[r] = Cleared(tools[r])
             /\ \A q \in Gen \ {r} : steps'[q] = steps[q] /\ tools'[q] = tools[q]
             /\ active' = None
  BY <1>1, <1>4 DEF TakesAll, AbandonEnds
<1>5. ASSUME TakesSteps(s, r)
      PROVE  /\ \A q \in Gen : Weeded(steps[q], steps'[q])
             /\ \A i \in DOMAIN steps[r] :
                   steps'[r][i].live <=> steps[r][i].live /\ steps[r][i].key # h[s].key
  <2>1. \A q \in Gen : Weeded(steps[q], steps[q]) /\ Weeded(steps[q], DeleteEntry(steps[q], h[s].key))
    BY <1>1, DeleteWeeds
  <2>2. \A i \in DOMAIN steps[r] :
           DeleteEntry(steps[r], h[s].key)[i].live <=> steps[r][i].live /\ steps[r][i].key # h[s].key
    BY <1>1, DeleteWeeds
  <2> QED BY <1>2, <1>5, <2>1, <2>2
<1>6. ASSUME TakesTools(s, r)
      PROVE  /\ \A q \in Gen : Weeded(tools[q], tools'[q])
             /\ \A i \in DOMAIN tools[r] :
                   tools'[r][i].live <=> tools[r][i].live /\ tools[r][i].key # s
  <2>1. \A q \in Gen : Weeded(tools[q], tools[q]) /\ Weeded(tools[q], DeleteEntry(tools[q], s))
    BY <1>1, DeleteWeeds
  <2>2. \A i \in DOMAIN tools[r] :
           DeleteEntry(tools[r], s)[i].live <=> tools[r][i].live /\ tools[r][i].key # s
    BY <1>1, DeleteWeeds
  <2> QED BY <1>3, <1>6, <2>1, <2>2
<1>7. ASSUME TakesAll(s, r)
      PROVE  /\ \A q \in Gen : Weeded(steps[q], steps'[q]) /\ Weeded(tools[q], tools'[q])
             /\ \A i \in DOMAIN steps[r] : ~steps'[r][i].live
             /\ \A i \in DOMAIN tools[r] : ~tools'[r][i].live
  <2>1. \A q \in Gen : Weeded(steps[q], steps[q]) /\ Weeded(tools[q], tools[q])
    BY <1>1, DeleteWeeds
  <2>2. /\ Weeded(steps[r], Cleared(steps[r])) /\ Weeded(tools[r], Cleared(tools[r]))
        /\ \A i \in DOMAIN steps[r] : ~Cleared(steps[r])[i].live
        /\ \A i \in DOMAIN tools[r] : ~Cleared(tools[r])[i].live
    BY <1>1, DeleteWeeds
  <2> QED BY <1>4, <1>7, <2>1, <2>2
<1> QED BY <1>2, <1>3, <1>4, <1>5, <1>6, <1>7

LEMMA RecordedStep ==
    ASSUME Good, CalmStep
    PROVE  Recorded'
<1>1. /\ \A r \in Gen : \A i \in DOMAIN steps[r] :
            Started(r, steps[r][i].ev) /\ InLog(r, steps[r][i].under)
      /\ \A r \in Gen : \A i \in DOMAIN tools[r] :
            Started(r, tools[r][i].ev) /\ InLog(r, tools[r][i].under)
      /\ \A r \in Gen : active = r => Started(r, RunEvent(r))
  BY DEF Good, Recorded
<1>2. /\ \A q \in Gen : \A f : Started(q, f) => Started(q, f)'
      /\ \A q \in Gen : \A f : InLog(q, f) => InLog(q, f)'
  BY LogGrows DEF Started
\* an entry that was there
<1>3. ASSUME NEW r \in Gen, NEW i, i \in DOMAIN steps[r], steps'[r][i].ev = steps[r][i].ev,
             steps'[r][i].under = steps[r][i].under
      PROVE  (Started(r, steps[r][i].ev) /\ InLog(r, steps[r][i].under))'
  <2>1. PICK e, u : e = steps[r][i].ev /\ u = steps[r][i].under
    OBVIOUS
  <2>2. Started(r, e)' /\ InLog(r, u)'
    BY <1>1, <1>2, <1>3, <2>1
  <2> QED BY <1>3, <2>1, <2>2
<1>4. ASSUME NEW r \in Gen, NEW i, i \in DOMAIN tools[r], tools'[r][i].ev = tools[r][i].ev,
             tools'[r][i].under = tools[r][i].under
      PROVE  (Started(r, tools[r][i].ev) /\ InLog(r, tools[r][i].under))'
  <2>1. PICK e, u : e = tools[r][i].ev /\ u = tools[r][i].under
    OBVIOUS
  <2>2. Started(r, e)' /\ InLog(r, u)'
    BY <1>1, <1>2, <1>4, <2>1
  <2> QED BY <1>4, <2>1, <2>2
<1>5. (\A r \in Gen : \A i \in DOMAIN steps[r] :
          Started(r, steps[r][i].ev) /\ InLog(r, steps[r][i].under))'
  <2>1. CASE steps' = steps
    BY <1>3, <2>1
  <2>2. ASSUME NEW g \in Gen, BeginsStep(g), NEW r \in Gen, NEW i \in DOMAIN steps'[r]
        PROVE  (Started(r, steps[r][i].ev) /\ InLog(r, steps[r][i].under))'
    <3>0. PICK n : n = Len(steps[g]) + 1
      OBVIOUS
    <3>1. PICK k : k = step[g] + 1
      OBVIOUS
    <3>2. /\ \A q \in Gen \ {g} : steps'[q] = steps[q]
          /\ n \in Nat /\ DOMAIN steps[g] = 1..(n - 1) /\ DOMAIN steps'[g] = 1..n
          /\ \A j \in 1..(n - 1) : j # n /\ steps'[g][j] = steps[g][j]
          /\ \A j \in 1..n : j = n \/ j \in 1..(n - 1)
          /\ steps'[g][n].ev = StepEvent(g, k) /\ steps'[g][n].under = RunEvent(g)
          /\ Puts(g, StepEvent(g, k), "start", "own", RunEvent(g)) /\ StepEvent(g, k) \in Event
      BY <2>2, <3>0, <3>1, BeginsStepMap
    <3>3. CASE i \in DOMAIN steps[r] /\ steps'[r][i] = steps[r][i]
      BY <1>3, <3>3
    <3>4. CASE r = g /\ i = n
      <4>1. PICK e, u : e = StepEvent(g, k) /\ u = RunEvent(g)
        OBVIOUS
      <4>2. Started(g, e)'
        BY <3>2, <4>1, PutsRows, EventsAre DEF Good, Started
      <4>3. InLog(g, u)
        BY <1>1, <2>2, <4>1, StartedIs DEF BeginsStep
      <4>4. InLog(g, u)'
        BY <1>2, <4>3
      <4> QED BY <3>2, <3>4, <4>1, <4>2, <4>4
    <3> QED BY <2>2, <3>2, <3>3, <3>4
  <2>3. ASSUME NEW s \in Gen, NEW q \in Gen, TakesAll(s, q) \/ TakesSteps(s, q), NEW r \in Gen,
               NEW i \in DOMAIN steps'[r]
        PROVE  (Started(r, steps[r][i].ev) /\ InLog(r, steps[r][i].under))'
    <3>1. Weeded(steps[r], steps'[r])
      BY <2>3, Takes, GenIs
    <3> QED BY <1>3, <3>1 DEF Weeded
  <2> QED BY <2>1, <2>2, <2>3, MapsMove
<1>6. (\A r \in Gen : \A i \in DOMAIN tools[r] :
          Started(r, tools[r][i].ev) /\ InLog(r, tools[r][i].under))'
  <2>1. CASE tools' = tools
    BY <1>4, <2>1
  <2>2. ASSUME NEW x \in Tool, BeginsTool(x), NEW r \in Gen, NEW i \in DOMAIN tools'[r]
        PROVE  (Started(r, tools[r][i].ev) /\ InLog(r, tools[r][i].under))'
    <3>0. PICK g : g = Caller[x]
      OBVIOUS
    <3>1. PICK n : n = Len(tools[g]) + 1
      OBVIOUS
    <3>2. /\ \A q \in Gen \ {g} : tools'[q] = tools[q]
          /\ n \in Nat /\ DOMAIN tools[g] = 1..(n - 1) /\ DOMAIN tools'[g] = 1..n
          /\ \A j \in 1..(n - 1) : j # n /\ tools'[g][j] = tools[g][j]
          /\ \A j \in 1..n : j = n \/ j \in 1..(n - 1)
      BY <2>2, <3>0, <3>1, BeginsToolMap
    <3>3. /\ tools'[g][n].key = x /\ tools'[g][n].ev = ToolEvent(x) /\ tools'[g][n].live
          /\ InLog(g, tools'[g][n].under)
          /\ \E u \in Event : Puts(g, ToolEvent(x), "start", "own", u)
          /\ ToolEvent(x) \in Event /\ g \in Gen
      BY <2>2, <3>0, <3>1, BeginsToolMap
    <3>4. CASE i \in DOMAIN tools[r] /\ tools'[r][i] = tools[r][i]
      BY <1>4, <3>4
    <3>5. CASE r = g /\ i = n
      <4>1. PICK e, u : e = ToolEvent(x) /\ u = tools'[g][n].under
        OBVIOUS
      <4>2. Started(g, e)'
        BY <3>3, <4>1, PutsRows DEF Good, Started
      <4>3. InLog(g, u)'
        BY <1>2, <3>3, <4>1
      <4> QED BY <3>3, <3>5, <4>1, <4>2, <4>3
    <3> QED BY <2>2, <3>2, <3>3, <3>4, <3>5
  <2>3. ASSUME NEW s \in Gen, NEW q \in Gen, TakesAll(s, q), NEW r \in Gen,
               NEW i \in DOMAIN tools'[r]
        PROVE  (Started(r, tools[r][i].ev) /\ InLog(r, tools[r][i].under))'
    <3>1. Weeded(tools[r], tools'[r])
      BY <2>3, Takes, GenIs
    <3> QED BY <1>4, <3>1 DEF Weeded
  <2>4. ASSUME NEW x \in Tool, NEW q \in Gen, TakesTools(x, q), NEW r \in Gen,
               NEW i \in DOMAIN tools'[r]
        PROVE  (Started(r, tools[r][i].ev) /\ InLog(r, tools[r][i].under))'
    <3>1. Weeded(tools[r], tools'[r])
      BY <2>4, Takes, GenIs
    <3> QED BY <1>4, <3>1 DEF Weeded
  <2> QED BY <2>1, <2>2, <2>3, <2>4, MapsMove
<1>7. ASSUME NEW r \in Gen, active' = r PROVE Started(r, RunEvent(r))'
  <2>1. CASE active = r
    BY <1>1, <1>2, <2>1
  <2>2. ASSUME NEW g \in Gen, Opens(g) PROVE Started(r, RunEvent(r))'
    <3>1. r = g /\ Puts(g, RunEvent(g), "start", "own", None)
      BY <1>7, <2>2 DEF Opens
    <3> QED BY <3>1, PutsRows, EventsAre DEF Good, Started
  <2>3. ASSUME NEW g \in Gen, StartAbandons(g) \/ PassStart(g) PROVE active' = active
    BY <2>3 DEF StartAbandons, AbandonsOne, PassStart, Passes
  <2>4. ASSUME NEW g \in Gen,
               \/ BeginsStep(g) \/ EndsStep(g) \/ EndsRun(g) \/ AbandonsOn(g)
               \/ AbandonEnds(g) \/ RowWritten(g) \/ Suspend(g)
               \/ PassStepStart(g) \/ PassStepEnd(g) \/ PassFinish(g) \/ PassFails(g)
        PROVE  active' \in {active, None}
    BY <2>4 DEF BeginsStep, EndsStep, EndsRun, EndsOwn, AbandonsOn, AbandonsOne, AbandonEnds,
       RowWritten, Suspend, PassStepStart, PassStepEnd, PassFinish, PassFails, Passes
  <2> QED BY <1>7, <2>1, <2>2, <2>3, <2>4, WhoGoes, GenIs DEF ToolGoes
<1> QED BY <1>5, <1>6, <1>7 DEF Recorded

\* Who is at the end of something has written it.
LEMMA EndsWrittenStep ==
    ASSUME Good, CalmStep
    PROVE  EndsWritten'
<1> USE CalmHas, GenIs
<1>0. ASSUME NEW s \in Strand, h[s].op \in Ending, h'[s] = h[s]
      PROVE  Rows(h[s].run, h[s].ev, "end")' # {}
  <2>1. PICK r, e : r = h[s].run /\ e = h[s].ev
    OBVIOUS
  <2>2. r \in Gen /\ Rows(r, e, "end") # {}
    BY <1>0, <2>1 DEF Good, Shapes, Shape, EndsWritten
  <2>3. Rows(r, e, "end")' # {}
    BY <2>2, LogGrows
  <2> QED BY <1>0, <2>1, <2>3
<1>1. ASSUME NEW s \in Strand, NEW at, h' = [h EXCEPT ![s] = at], at.op \notin Ending
      PROVE  EndsWritten'
  BY <1>0, <1>1 DEF EndsWritten
<1>2. ASSUME h' = h PROVE EndsWritten'
  BY <1>0, <1>2 DEF EndsWritten
<1>3. ASSUME NEW s \in Strand, NEW r \in Gen, NEW e \in Event, NEW by \in {"own", "close", "overlap"},
             NEW u \in Event \cup {None}, NEW at,
             Puts(r, e, "end", by, u), Moves(s, at), at.run = r, at.ev = e
      PROVE  EndsWritten'
  <2>1. Rows(r, e, "end")' # {}
    BY <1>3, PutsRows DEF Good
  <2> QED BY <1>0, <1>3, <2>1 DEF EndsWritten, Moves
<1>4. ASSUME NEW s \in Strand, NEW g \in Gen, NEW e, NEW at, EndsOwn(s, g, e, at) PROVE EndsWritten'
  <2>1. e \in Event
    BY <1>4, StartedIs DEF EndsOwn
  <2> QED BY <1>3, <1>4, <2>1 DEF EndsOwn
<1>5. ASSUME NEW s \in Strand, NEW r \in Gen, AbandonsOne(s, r) PROVE EndsWritten'
  BY <1>3, <1>5 DEF AbandonsOne
<1>6. \A r, e, k : At("row", r, e, k).op \notin Ending
  BY AtOps DEF Ending, Abandoning
<1>7. ASSUME NEW g \in Gen, Opens(g) \/ BeginsStep(g) PROVE EndsWritten'
  BY <1>1, <1>6, <1>7 DEF Opens, BeginsStep, Moves
<1>8. ASSUME NEW x \in Tool, BeginsTool(x) PROVE EndsWritten'
  BY <1>1, <1>6, <1>8 DEF BeginsTool, Moves
<1>9. ASSUME NEW g \in Gen, StartAbandons(g) \/ AbandonsOn(g) PROVE EndsWritten'
  BY <1>5, <1>9 DEF StartAbandons, AbandonsOn
<1>10. ASSUME NEW g \in Gen, EndsStep(g) \/ EndsRun(g) PROVE EndsWritten'
  <2>1. PICK e, at : EndsOwn(g, g, e, at)
    BY <1>10 DEF EndsStep, EndsRun
  <2> QED BY <1>4, <2>1
<1>11. ASSUME NEW x \in Tool, EndsTool(x) PROVE EndsWritten'
  <2>1. PICK e, at : EndsOwn(x, active, e, at)
    BY <1>11 DEF EndsTool
  <2>2. active \in Gen
    BY <1>11 DEF EndsTool
  <2> QED BY <1>4, <2>1, <2>2
<1>12. ASSUME NEW s \in Strand, AbandonEnds(s) PROVE EndsWritten'
  <2>1. PICK at : at = [h[s] EXCEPT !.op = "abandoned"]
    OBVIOUS
  <2>2. at.op = "abandoned" /\ h' = [h EXCEPT ![s] = at]
    BY <1>12, <2>1 DEF AbandonEnds, Handler
  <2> QED BY <1>1, <2>2 DEF Ending, Abandoning
<1>13. ASSUME NEW s \in Strand, RowWritten(s) \/ Suspend(s) PROVE EndsWritten'
  <2>1. h' = [h EXCEPT ![s] = Idle] /\ Idle.op \notin Ending
    BY <1>13, IdleIs DEF RowWritten, Suspend, Ending, Abandoning
  <2> QED BY <1>1, <2>1
<1>14. ASSUME NEW g \in Gen,
              \/ PassStart(g) \/ PassStepStart(g) \/ PassStepEnd(g) \/ PassFinish(g)
              \/ PassFails(g)
       PROVE  EndsWritten'
  BY <1>2, <1>14 DEF PassStart, PassStepStart, PassStepEnd, PassFinish, PassFails, Passes
<1>15. ASSUME NEW x \in Tool, PassToolStart(x) \/ PassToolEnd(x) PROVE EndsWritten'
  BY <1>2, <1>15 DEF PassToolStart, PassToolEnd, Passes
<1> QED
  BY <1>7, <1>8, <1>9, <1>10, <1>11, <1>12, <1>13, <1>14, <1>15, WhoGoes

\* An entry that can be found in the Maps was there, and nobody takes it, or is new.
LEMMA LiveStepWas ==
    ASSUME Good, CalmStep, NEW r \in Gen, NEW i \in DOMAIN steps'[r], steps'[r][i].live
    PROVE  \/ /\ i \in DOMAIN steps[r] /\ steps[r][i].live
              /\ steps'[r][i].key = steps[r][i].key /\ steps'[r][i].ev = steps[r][i].ev
              /\ \A s \in Gen : /\ ~TakesAll(s, r)
                                /\ TakesSteps(s, r) => steps[r][i].key # h[s].key
           \/ BeginsStep(r) /\ steps'[r][i].key = step'[r]
<1>1. ASSUME NEW s \in Gen, NEW q \in Gen, TakesAll(s, q) \/ TakesSteps(s, q)
      PROVE  /\ i \in DOMAIN steps[r] /\ steps[r][i].live
             /\ steps'[r][i].key = steps[r][i].key /\ steps'[r][i].ev = steps[r][i].ev
             /\ TakesAll(s, r) => FALSE
             /\ TakesSteps(s, r) => steps[r][i].key # h[s].key
  <2>1. Weeded(steps[r], steps'[r])
    BY <1>1, Takes, GenIs
  <2>2. /\ i \in DOMAIN steps[r] /\ steps[r][i].live
        /\ steps'[r][i].key = steps[r][i].key /\ steps'[r][i].ev = steps[r][i].ev
    BY <2>1 DEF Weeded
  <2> QED BY <2>2, Takes, GenIs
<1>2. ASSUME NEW s \in Gen, TakesAll(s, r) \/ TakesSteps(s, r)
      PROVE  /\ i \in DOMAIN steps[r] /\ steps[r][i].live
             /\ steps'[r][i].key = steps[r][i].key /\ steps'[r][i].ev = steps[r][i].ev
             /\ \A z \in Gen : /\ ~TakesAll(z, r)
                               /\ TakesSteps(z, r) => steps[r][i].key # h[z].key
  BY <1>1, <1>2
<1>3. CASE \A s \in Gen : ~TakesAll(s, r) /\ ~TakesSteps(s, r)
  <2>1. CASE steps' = steps
    BY <1>3, <2>1
  <2>2. ASSUME NEW g \in Gen, BeginsStep(g)
        PROVE  \/ i \in DOMAIN steps[r] /\ steps'[r][i] = steps[r][i]
               \/ r = g /\ steps'[r][i].key = step'[r]
    <3>1. PICK n, k : n = Len(steps[g]) + 1 /\ k = step[g] + 1
      OBVIOUS
    <3>2. /\ r # g => steps'[r] = steps[r]
          /\ DOMAIN steps[g] = 1..(n - 1) /\ DOMAIN steps'[g] = 1..n
          /\ \A j \in 1..(n - 1) : steps'[g][j] = steps[g][j]
          /\ \A j \in 1..n : j = n \/ j \in 1..(n - 1)
          /\ steps'[g][n].key = step'[g]
      BY <2>2, <3>1, BeginsStepMap
    <3> QED BY <3>2
  <2> QED BY <1>1, <1>3, <2>1, <2>2, MapsMove
<1> QED BY <1>2, <1>3

LEMMA LiveToolWas ==
    ASSUME Good, CalmStep, NEW r \in Gen, NEW i \in DOMAIN tools'[r], tools'[r][i].live
    PROVE  \/ /\ i \in DOMAIN tools[r] /\ tools[r][i].live
              /\ tools'[r][i].key = tools[r][i].key /\ tools'[r][i].ev = tools[r][i].ev
              /\ \A s \in Gen : ~TakesAll(s, r)
              /\ \A s \in Tool : TakesTools(s, r) => tools[r][i].key # s
           \/ \E x \in Tool : BeginsTool(x) /\ r = Caller[x] /\ tools'[r][i].key = x
<1>1. ASSUME NEW s \in Strand, NEW q \in Gen, TakesAll(s, q) \/ TakesTools(s, q)
      PROVE  /\ i \in DOMAIN tools[r] /\ tools[r][i].live
             /\ tools'[r][i].key = tools[r][i].key /\ tools'[r][i].ev = tools[r][i].ev
             /\ TakesAll(s, r) => FALSE
             /\ TakesTools(s, r) => tools[r][i].key # s
  <2>1. Weeded(tools[r], tools'[r])
    BY <1>1, Takes
  <2>2. /\ i \in DOMAIN tools[r] /\ tools[r][i].live
        /\ tools'[r][i].key = tools[r][i].key /\ tools'[r][i].ev = tools[r][i].ev
    BY <2>1 DEF Weeded
  <2> QED BY <2>2, Takes
<1>2. ASSUME NEW s \in Strand, TakesAll(s, r) \/ TakesTools(s, r)
      PROVE  /\ i \in DOMAIN tools[r] /\ tools[r][i].live
             /\ tools'[r][i].key = tools[r][i].key /\ tools'[r][i].ev = tools[r][i].ev
             /\ \A z \in Gen : ~TakesAll(z, r)
             /\ \A z \in Tool : TakesTools(z, r) => tools[r][i].key # z
  BY <1>1, <1>2, GenIs
<1>3. CASE \A s \in Strand : ~TakesAll(s, r) /\ ~TakesTools(s, r)
  <2>1. CASE tools' = tools
    BY <1>3, <2>1, GenIs
  <2>2. ASSUME NEW x \in Tool, BeginsTool(x)
        PROVE  \/ i \in DOMAIN tools[r] /\ tools'[r][i] = tools[r][i]
               \/ r = Caller[x] /\ tools'[r][i].key = x
    <3>1. PICK g : g = Caller[x]
      OBVIOUS
    <3>2. PICK n : n = Len(tools[g]) + 1
      OBVIOUS
    <3> QED BY <2>2, <3>1, <3>2, BeginsToolMap
  <2> QED BY <1>1, <1>3, <2>1, <2>2, MapsMove, GenIs
<1> QED BY <1>2, <1>3

LEMMA LiveStepsStep ==
    ASSUME Good, CalmStep, NEW r \in Gen, NEW i \in DOMAIN steps'[r], steps'[r][i].live
    PROVE  /\ active' = r /\ steps'[r][i].key = step'[r]
           /\ phase'[r] \in {"step", "failed"} \/ h'[r].op = "endStep"
<1> USE CalmHas, GenIs
<1> SUFFICES ASSUME ~BeginsStep(r)
             PROVE  /\ active' = r /\ steps'[r][i].key = step'[r]
                    /\ phase'[r] \in {"step", "failed"} \/ h'[r].op = "endStep"
  <2>1. CASE BeginsStep(r)
    <3>1. active' = r /\ phase'[r] = "step" /\ phase[r] = "open"
      BY <2>1 DEF BeginsStep
    <3>2. ~(i \in DOMAIN steps[r] /\ steps[r][i].live)
      BY <2>1, IdleIs DEF BeginsStep, Good, LiveEntries
    <3> QED BY <3>1, <3>2, LiveStepWas
  <2> QED BY <2>1
<1>1. /\ i \in DOMAIN steps[r] /\ steps[r][i].live /\ steps'[r][i].key = steps[r][i].key
      /\ \A s \in Gen : /\ ~TakesAll(s, r)
                        /\ TakesSteps(s, r) => steps[r][i].key # h[s].key
  BY LiveStepWas
<1>2. /\ active = r /\ steps[r][i].key = step[r]
      /\ phase[r] \in {"step", "failed"} \/ h[r].op = "endStep"
  BY <1>1 DEF Good, LiveEntries
<1>3. ASSUME NEW g \in Gen, Opens(g) \/ StartAbandons(g) \/ PassStart(g)
      PROVE  /\ active' = r /\ step'[r] = step[r]
             /\ phase'[r] \in {"step", "failed"} \/ h'[r].op = "endStep"
  <2>1. Starts(g) /\ active' = active
    BY <1>2, <1>3 DEF Opens, StartAbandons, AbandonsOne, PassStart, Passes
  <2>2. phase[r] = "failed" /\ r # g
    BY <1>2, <2>1, ActiveAtStart DEF Starts
  <2> QED BY <1>2, <2>1, <2>2, StartsNext DEF Starts
<1>4. ASSUME NEW g \in Gen, Goes(g),
             \/ BeginsStep(g) \/ EndsStep(g) \/ EndsRun(g) \/ AbandonsOn(g)
             \/ AbandonEnds(g) \/ RowWritten(g) \/ Suspend(g)
             \/ PassStepStart(g) \/ PassStepEnd(g) \/ PassFinish(g)
             \/ PassFails(g)
      PROVE  /\ active' = r /\ step'[r] = step[r]
             /\ phase'[r] \in {"step", "failed"} \/ h'[r].op = "endStep"
  <2>1. ~BeginsStep(g)
    BY <1>2 DEF BeginsStep
  <2>2. ~EndsRun(g)
    BY <1>2, IdleIs DEF EndsRun, EndsOwn
  <2>3. ~AbandonEnds(g)
    BY <1>1, <1>2 DEF AbandonEnds, TakesAll, Good, Strands, Abandoning
  <2>4. ~Suspend(g) /\ ~PassStepStart(g) /\ ~PassFinish(g)
    BY <1>2 DEF Suspend, PassStepStart, PassFinish, Good, Strands
  <2>5. CASE EndsStep(g)
    <3>1. g = r /\ h'[g].op = "endStep" /\ active' = r /\ step' = step
      BY <1>2, <2>5, AtOps DEF EndsStep, EndsOwn, Moves
    <3> QED BY <3>1
  <2>6. CASE AbandonsOn(g)
    <3>1. phase' = phase /\ step' = step /\ active' = active /\ h[g].op # "endStep"
      BY <2>6 DEF AbandonsOn, AbandonsOne, framework
    <3> QED BY <1>2, <1>4, <3>1 DEF Goes
  <2>7. CASE RowWritten(g)
    <3>1. phase' = phase /\ step' = step
      BY <2>7 DEF RowWritten, framework
    <3>2. h[g].op # "endRun"
      BY <1>2 DEF Good, Strands
    <3>3. active' = active
      BY <2>7, <3>2 DEF RowWritten
    <3>4. ~(g = r /\ h[g].op = "endStep")
      BY <1>1, <1>2, <2>7 DEF Good, Strands, TakesSteps
    <3> QED BY <1>2, <1>4, <3>1, <3>3, <3>4 DEF Goes
  <2>8. CASE PassStepEnd(g)
    <3>1. g # r
      BY <1>1, <1>2, <2>8 DEF PassStepEnd, IndexOf
    <3> QED BY <1>2, <1>4, <2>8, <3>1 DEF PassStepEnd, Passes, Goes
  <2>9. CASE PassFails(g)
    <3>1. phase'[r] \in {phase[r], "failed"} /\ step' = step /\ active' = active /\ h' = h
      BY <2>9 DEF PassFails, Passes
    <3> QED BY <1>2, <3>1
  <2> QED BY <1>4, <2>1, <2>2, <2>3, <2>4, <2>5, <2>6, <2>7, <2>8, <2>9
<1>5. ToolGoes => /\ active' = r /\ step'[r] = step[r]
                  /\ phase'[r] \in {"step", "failed"} \/ h'[r].op = "endStep"
  BY <1>2 DEF ToolGoes
<1> QED BY <1>1, <1>2, <1>3, <1>4, <1>5, WhoGoes

LEMMA LiveToolsStep ==
    ASSUME Good, CalmStep, NEW r \in Gen, NEW i \in DOMAIN tools'[r], tools'[r][i].live
    PROVE  /\ active' = r
           /\ tool'[tools'[r][i].key] = "running" \/ h'[tools'[r][i].key].op = "endTool"
<1> USE CalmHas, GenIs
<1>1. ASSUME NEW x \in Tool, BeginsTool(x), r = Caller[x], tools'[r][i].key = x
      PROVE  active' = r /\ tool'[x] = "running"
  BY <1>1 DEF BeginsTool, Good, Typed
<1> SUFFICES ASSUME NEW k, k = tools[r][i].key,
                    i \in DOMAIN tools[r], tools[r][i].live, tools'[r][i].key = k,
                    \A s \in Gen : ~TakesAll(s, r),
                    \A s \in Tool : TakesTools(s, r) => k # s
             PROVE  active' = r /\ (tool'[k] = "running" \/ h'[k].op = "endTool")
  BY <1>1, LiveToolWas
<1>2. k \in Tool /\ Caller[k] = r
  BY ToolIs
<1>3. active = r /\ (tool[k] = "running" \/ h[k].op = "endTool")
  BY DEF Good, LiveEntries
<1>4. phase[r] \in {"step", "failed"}
  BY <1>2, <1>3, IdleIs DEF Good, Strands
<1>5. ASSUME NEW g \in Gen, Opens(g) \/ StartAbandons(g) \/ PassStart(g)
      PROVE  active' = r /\ (tool'[k] = "running" \/ h'[k].op = "endTool")
  <2>1. Starts(g) /\ active' = active /\ h'[k] = h[k]
    BY <1>2, <1>3, <1>5 DEF Opens, StartAbandons, AbandonsOne, Moves, PassStart, Passes
  <2> QED BY <1>3, <2>1 DEF Starts
<1>6. ASSUME NEW g \in Gen, Goes(g),
             \/ BeginsStep(g) \/ EndsStep(g) \/ EndsRun(g) \/ AbandonsOn(g)
             \/ AbandonEnds(g) \/ RowWritten(g) \/ Suspend(g)
             \/ PassStepStart(g) \/ PassStepEnd(g) \/ PassFinish(g)
             \/ PassFails(g)
      PROVE  active' = r /\ (tool'[k] = "running" \/ h'[k].op = "endTool")
  <2>1. ~AbandonEnds(g)
    BY <1>3 DEF AbandonEnds, TakesAll, Good, Strands, Abandoning
  <2>2. h[g].op # "endRun"
    BY <1>3, <1>4 DEF Good, Strands
  <2>3. active' = active
    BY <1>6, <2>1, <2>2 DEF BeginsStep, EndsStep, EndsRun, EndsOwn, AbandonsOn, AbandonsOne,
       RowWritten, Suspend, PassStepStart, PassStepEnd, PassFinish, PassFails, Passes
  <2> QED BY <1>2, <1>3, <1>6, <2>3 DEF Goes
<1>7. ASSUME NEW x \in Tool, ToolGoes,
             \/ BeginsTool(x) \/ EndsTool(x) \/ RowWritten(x) \/ PassToolStart(x)
             \/ PassToolEnd(x)
      PROVE  active' = r /\ (tool'[k] = "running" \/ h'[k].op = "endTool")
  <2>1. active' = active
    BY <1>7 DEF ToolGoes
  <2>2. CASE k # x
    <3>1. h'[k] = h[k] /\ tool'[k] = tool[k]
      BY <1>2, <1>7, <2>2, OtherTools
    <3> QED BY <1>3, <2>1, <3>1
  <2>3. CASE k = x
    <3>1. CASE BeginsTool(x) \/ PassToolStart(x)
      BY <1>2, <1>3, <2>1, <2>3, <3>1 DEF BeginsTool, PassToolStart, Good, Typed
    <3>2. CASE EndsTool(x)
      BY <1>2, <1>3, <2>1, <2>3, <3>2, AtOps DEF EndsTool, EndsOwn, Moves
    <3>3. CASE RowWritten(x)
      <4>1. h[x].op # "endTool"
        BY <1>2, <2>3, <3>3 DEF TakesTools, Good, Strands
      <4> QED BY <1>3, <2>1, <2>3, <3>3, <4>1 DEF RowWritten, framework
    <3>4. ~PassToolEnd(x)
      BY <1>2, <1>3, <2>3 DEF PassToolEnd, IndexOf
    <3> QED BY <1>7, <3>1, <3>2, <3>3, <3>4
  <2> QED BY <2>2, <2>3
<1> QED BY <1>5, <1>6, <1>7, WhoGoes

LEMMA LiveEntriesStep ==
    ASSUME Good, CalmStep
    PROVE  LiveEntries'
BY LiveStepsStep, LiveToolsStep DEF LiveEntries

-----------------------------------------------------------------------------
(* What is open will be ended                                              *)

\* What is newly started is a run that opens, a step or a tool call that begins.
LEMMA NewStart ==
    ASSUME Good, CalmStep, NEW r \in Gen, NEW e \in Event, Started(r, e)', ~Started(r, e)
    PROVE  \/ Opens(r) /\ e = RunEvent(r)
           \/ BeginsStep(r) /\ e = StepEvent(r, step[r] + 1)
           \/ \E x \in Tool : BeginsTool(x) /\ r = Caller[x] /\ e = ToolEvent(x)
<1> USE GenIs, EventsAre
<1>1. log' # log
  BY DEF Started, Rows
<1>2. ASSUME NEW q \in Gen, NEW f \in Event, NEW by \in {"own", "close", "overlap"},
             NEW u \in Event \cup {None}, Puts(q, f, "end", by, u)
      PROVE  FALSE
  <2>1. Rows(r, e, "start")' # {} => Rows(r, e, "start") # {}
    BY <1>2, PutsRows DEF Good
  <2> QED BY <2>1 DEF Started
<1>3. ASSUME NEW q \in Gen, NEW f \in Event, NEW u \in Event \cup {None},
             Puts(q, f, "start", "own", u)
      PROVE  q = r /\ f = e
  <2>1. Rows(r, e, "start")' # {} => Rows(r, e, "start") # {} \/ (r = q /\ e = f)
    BY <1>3, PutsRows DEF Good
  <2> QED BY <2>1 DEF Started
<1>4. ASSUME NEW s \in Strand, NEW g \in Gen, NEW f, NEW at, EndsOwn(s, g, f, at) PROVE FALSE
  <2>1. f \in Event
    BY <1>4, StartedIs DEF EndsOwn
  <2> QED BY <1>2, <1>4, <2>1 DEF EndsOwn
<1>5. ASSUME NEW s, NEW g \in Gen, AbandonsOne(s, g) PROVE FALSE
  BY <1>2, <1>5 DEF AbandonsOne
<1>6. ASSUME NEW g \in Gen, Opens(g) PROVE Opens(r) /\ e = RunEvent(r)
  BY <1>3, <1>6 DEF Opens
<1>7. ASSUME NEW g \in Gen, StartAbandons(g) \/ AbandonsOn(g) PROVE FALSE
  BY <1>5, <1>7 DEF StartAbandons, AbandonsOn
<1>8. ASSUME NEW g \in Gen, BeginsStep(g) PROVE BeginsStep(r) /\ e = StepEvent(r, step[r] + 1)
  <2>1. PICK k : k = step[g] + 1
    OBVIOUS
  <2>2. StepEvent(g, k) \in Event /\ Puts(g, StepEvent(g, k), "start", "own", RunEvent(g))
    BY <1>8, <2>1 DEF BeginsStep
  <2> QED BY <1>3, <1>8, <2>1, <2>2
<1>9. ASSUME NEW x \in Tool, BeginsTool(x) PROVE r = Caller[x] /\ e = ToolEvent(x)
  <2>1. PICK u \in Event : Puts(Caller[x], ToolEvent(x), "start", "own", u)
    BY <1>9 DEF BeginsTool
  <2> QED BY <1>3, <2>1, AiSdkAssumption
<1>10. ASSUME NEW g \in Gen, EndsStep(g) \/ EndsRun(g) PROVE FALSE
  BY <1>4, <1>10 DEF EndsStep, EndsRun
<1>11. ASSUME NEW x \in Tool, EndsTool(x) PROVE FALSE
  <2>1. active \in Gen
    BY <1>11, AiSdkAssumption DEF EndsTool
  <2> QED BY <1>4, <1>11, <2>1 DEF EndsTool
<1>12. ASSUME NEW g \in Gen,
              \/ AbandonEnds(g) \/ RowWritten(g) \/ Suspend(g) \/ PassStart(g)
              \/ PassStepStart(g) \/ PassStepEnd(g) \/ PassFinish(g) \/ PassFails(g)
       PROVE  FALSE
  BY <1>1, <1>12 DEF AbandonEnds, RowWritten, Suspend, PassStart, PassStepStart, PassStepEnd,
     PassFinish, PassFails, Passes
<1>13. ASSUME NEW x \in Tool, RowWritten(x) \/ PassToolStart(x) \/ PassToolEnd(x) PROVE FALSE
  BY <1>1, <1>13 DEF RowWritten, PassToolStart, PassToolEnd, Passes
<1> QED BY <1>6, <1>7, <1>8, <1>9, <1>10, <1>11, <1>12, <1>13, WhoGoes

\* A strand that abandons a run has just written a row of the abandonment, or stays.
LEMMA AbandonMoves ==
    ASSUME Good, CalmStep, h'[Closer] = Idle, NEW s \in Strand, h'[s].op \in Abandoning
    PROVE  \/ h'[s] = h[s]
           \/ \E r \in Gen : /\ AbandonsOne(s, r)
                             /\ \/ h[s] = Idle /\ active = r
                                \/ h[s].op \in {"tools", "steps"} /\ h[s].run = r
<1> USE CalmHas, GenIs
<1>1. s \in Gen
  BY StrandsStep DEF Strands
<1>2. ASSUME NEW g \in Gen, Opens(g) \/ PassStart(g) PROVE h'[s] = h[s]
  <2>1. At("row", g, RunEvent(g), 0).op \notin Abandoning
    BY AtOps DEF Abandoning
  <2> QED BY <1>2, <2>1 DEF Opens, Moves, PassStart, Passes
<1>3. ASSUME NEW g \in Gen, StartAbandons(g)
      PROVE  h'[s] = h[s] \/ (s = g /\ active \in Gen /\ AbandonsOne(s, active) /\ h[s] = Idle)
  <2>1. active \in Gen \ {g} /\ AbandonsOne(g, active)
    BY <1>3 DEF StartAbandons
  <2>2. h[g] = Idle
    BY <1>3 DEF StartAbandons, Starts
  <2>3. s # g => h'[s] = h[s]
    BY <2>1, <1>1 DEF AbandonsOne, Moves
  <2> QED BY <2>1, <2>2, <2>3
<1>4. ASSUME NEW g \in Gen, Goes(g),
             \/ BeginsStep(g) \/ EndsStep(g) \/ EndsRun(g) \/ AbandonsOn(g)
             \/ AbandonEnds(g) \/ RowWritten(g) \/ Suspend(g)
             \/ PassStepStart(g) \/ PassStepEnd(g) \/ PassFinish(g)
             \/ PassFails(g)
      PROVE  \/ h'[s] = h[s]
             \/ s = g /\ AbandonsOn(s)
  <2>1. s # g => h'[s] = h[s]
    BY <1>1, <1>4 DEF Goes
  <2>2. CASE BeginsStep(g) \/ EndsStep(g) \/ EndsRun(g)
    <3>1. h'[g].op \in {"row", "endStep", "endRun"}
      BY <2>2, AtOps DEF BeginsStep, EndsStep, EndsRun, EndsOwn, Moves
    <3> QED BY <2>1, <3>1 DEF Abandoning
  <2>3. CASE AbandonEnds(g) \/ RowWritten(g) \/ Suspend(g)
    <3>1. h'[g].op \in {"abandoned", "idle"}
      BY <2>3, IdleIs DEF AbandonEnds, RowWritten, Suspend, Handler
    <3> QED BY <2>1, <3>1 DEF Abandoning
  <2>4. CASE PassStepStart(g) \/ PassStepEnd(g) \/ PassFinish(g) \/ PassFails(g)
    BY <2>4 DEF PassStepStart, PassStepEnd, PassFinish, PassFails, Passes
  <2> QED BY <1>4, <2>1, <2>2, <2>3, <2>4
<1> QED BY <1>1, <1>2, <1>3, <1>4, WhoGoes DEF AbandonsOn, ToolGoes

\* What has not ended stays ahead of whom it was ahead of.
LEMMA AheadStays ==
    ASSUME Good, CalmStep, NEW r \in Gen, NEW e \in Event, Rows(r, e, "end") = {},
           \A s \in Gen : ~TakesAll(s, r), NEW at, Ahead(r, e, at)
    PROVE  Ahead(r, e, at)'
<1>1. ASSUME NEW i \in DOMAIN steps[r], steps[r][i].live, steps[r][i].ev = e
      PROVE  i \in DOMAIN steps'[r] /\ steps'[r][i].live /\ steps'[r][i].ev = e
  <2>1. CASE steps' = steps
    BY <1>1, <2>1
  <2>2. ASSUME NEW g \in Gen, BeginsStep(g)
        PROVE  i \in DOMAIN steps'[r] /\ steps'[r][i].live /\ steps'[r][i].ev = e
    <3>1. PICK n, k : n = Len(steps[g]) + 1 /\ k = step[g] + 1
      OBVIOUS
    <3>2. /\ r # g => steps'[r] = steps[r]
          /\ n \in Nat /\ DOMAIN steps[g] = 1..(n - 1) /\ DOMAIN steps'[g] = 1..n
          /\ \A j \in 1..(n - 1) : steps'[g][j] = steps[g][j]
      BY <2>2, <3>1, BeginsStepMap
    <3> QED BY <1>1, <3>2
  <2>3. ASSUME NEW s \in Gen, NEW q \in Gen, TakesAll(s, q) \/ TakesSteps(s, q)
        PROVE  i \in DOMAIN steps'[r] /\ steps'[r][i].live /\ steps'[r][i].ev = e
    <3>1. CASE q # r
      BY <1>1, <2>3, <3>1, Takes, GenIs
    <3>2. CASE q = r
      <4>1. TakesSteps(s, r)
        BY <2>3, <3>2
      <4>2. /\ Weeded(steps[r], steps'[r])
            /\ steps'[r][i].live <=> steps[r][i].live /\ steps[r][i].key # h[s].key
        BY <4>1, Takes, GenIs
      <4>3. steps[r][i].key # h[s].key
        <5> SUFFICES ASSUME steps[r][i].key = h[s].key PROVE FALSE
          OBVIOUS
        <5>1. PICK f : f = h[s].ev
          OBVIOUS
        <5>2. Rows(r, f, "end") # {} /\ f \in Event
          BY <4>1, <5>1, GenIs DEF TakesSteps, Good, EndsWritten, Ending, Shapes, Shape
        <5>3. f[2] = r
          BY <5>2, CalmHas DEF Good, OwnRows, Rows
        <5>4. PICK g \in Gen : f = StepEvent(g, h[s].key)
          BY <4>1, <5>1, GenIs DEF TakesSteps, Good, Shapes, Shape
        <5>5. f = steps[r][i].ev
          BY <5>3, <5>4, StepIs DEF StepEvent
        <5> QED BY <1>1, <5>2, <5>5
      <4> QED BY <1>1, <4>2, <4>3 DEF Weeded
    <3> QED BY <3>1, <3>2
  <2> QED BY <2>1, <2>2, <2>3, MapsMove
<1>2. ASSUME NEW i \in DOMAIN tools[r], tools[r][i].live, tools[r][i].ev = e
      PROVE  i \in DOMAIN tools'[r] /\ tools'[r][i].live /\ tools'[r][i].ev = e
  <2>1. CASE tools' = tools
    BY <1>2, <2>1
  <2>2. ASSUME NEW x \in Tool, BeginsTool(x)
        PROVE  i \in DOMAIN tools'[r] /\ tools'[r][i].live /\ tools'[r][i].ev = e
    <3>0. PICK g : g = Caller[x]
      OBVIOUS
    <3>1. PICK n : n = Len(tools[g]) + 1
      OBVIOUS
    <3>2. /\ r # g => tools'[r] = tools[r]
          /\ n \in Nat /\ DOMAIN tools[g] = 1..(n - 1) /\ DOMAIN tools'[g] = 1..n
          /\ \A j \in 1..(n - 1) : tools'[g][j] = tools[g][j]
      BY <2>2, <3>0, <3>1, BeginsToolMap
    <3> QED BY <1>2, <3>2
  <2>3. ASSUME NEW s \in Gen, NEW q \in Gen, TakesAll(s, q)
        PROVE  i \in DOMAIN tools'[r] /\ tools'[r][i].live /\ tools'[r][i].ev = e
    BY <1>2, <2>3, Takes, GenIs
  <2>4. ASSUME NEW x \in Tool, NEW q \in Gen, TakesTools(x, q)
        PROVE  i \in DOMAIN tools'[r] /\ tools'[r][i].live /\ tools'[r][i].ev = e
    <3>1. CASE q # r
      BY <1>2, <2>4, <3>1, Takes, GenIs
    <3>2. CASE q = r
      <4>1. TakesTools(x, r)
        BY <2>4, <3>2
      <4>2. /\ Weeded(tools[r], tools'[r])
            /\ tools'[r][i].live <=> tools[r][i].live /\ tools[r][i].key # x
        BY <4>1, Takes, GenIs
      <4>3. tools[r][i].key # x
        <5> SUFFICES ASSUME tools[r][i].key = x PROVE FALSE
          OBVIOUS
        <5>1. PICK f : f = h[x].ev
          OBVIOUS
        <5>2. Rows(r, f, "end") # {} /\ f = ToolEvent(x)
          BY <4>1, <5>1, GenIs DEF TakesTools, Good, EndsWritten, Ending, Shapes, Shape
        <5>3. f = tools[r][i].ev
          BY <5>2, ToolIs
        <5> QED BY <1>2, <5>2, <5>3
      <4> QED BY <1>2, <4>2, <4>3 DEF Weeded
    <3> QED BY <3>1, <3>2
  <2> QED BY <2>1, <2>2, <2>3, <2>4, MapsMove
<1>3. CASE e = RunEvent(r) /\ at.op # "run"
  BY <1>3 DEF Ahead
<1>4. ASSUME at.op # "run", NEW i \in DOMAIN steps[r], steps[r][i].live, steps[r][i].ev = e,
             at.op = "steps" => i > at.key
      PROVE  Ahead(r, e, at)'
  BY <1>1, <1>4 DEF Ahead
<1>5. ASSUME at.op \notin {"run", "steps"}, NEW i \in DOMAIN tools[r], tools[r][i].live,
             tools[r][i].ev = e, at.op = "tools" => i > at.key
      PROVE  Ahead(r, e, at)'
  BY <1>2, <1>5 DEF Ahead
<1> QED BY <1>3, <1>4, <1>5 DEF Ahead

LEMMA ActiveStays ==
    ASSUME Good, CalmStep, NEW r \in Gen, active = r, \A s \in Gen : ~TakesAll(s, r),
           NEW e \in Event, Rows(r, e, "end") = {}, Ahead(r, e, Idle)
    PROVE  active' = r
<1> USE CalmHas, GenIs
<1>1. ASSUME NEW g \in Gen, Opens(g) \/ StartAbandons(g) \/ PassStart(g) PROVE active' = active
  BY <1>1 DEF Opens, StartAbandons, AbandonsOne, PassStart, Passes
<1>2. ASSUME NEW g \in Gen, h[g].op = "endRun" PROVE FALSE
  <2>1. h[g].run = g /\ g = r /\ phase[r] = "done"
    BY <1>2 DEF Good, Strands
  <2>2. e # RunEvent(r)
    BY <1>2, <2>1 DEF Good, EndsWritten, Ending, Shapes, Shape
  <2>3. \A i \in DOMAIN steps[r] : ~steps[r][i].live
    BY <1>2, <2>1 DEF Good, LiveEntries
  <2>4. ASSUME NEW i \in DOMAIN tools[r], tools[r][i].live PROVE FALSE
    <3>1. PICK k \in Tool : k = tools[r][i].key /\ Caller[k] = r
      BY ToolIs
    <3>2. tool[k] = "running" \/ h[k].op = "endTool"
      BY <2>4, <3>1 DEF Good, LiveEntries
    <3>3. phase[r] \in {"step", "failed"}
      BY <3>1, <3>2, IdleIs DEF Good, Strands
    <3> QED BY <2>1, <3>3
  <2> QED BY <2>2, <2>3, <2>4 DEF Ahead
<1>3. ASSUME NEW g \in Gen, Goes(g),
             \/ BeginsStep(g) \/ EndsStep(g) \/ EndsRun(g) \/ AbandonsOn(g)
             \/ AbandonEnds(g) \/ RowWritten(g) \/ Suspend(g)
             \/ PassStepStart(g) \/ PassStepEnd(g) \/ PassFinish(g)
             \/ PassFails(g)
      PROVE  active' = active
  <2>1. ~AbandonEnds(g)
    BY DEF AbandonEnds, TakesAll, Good, Strands, Abandoning
  <2> QED BY <1>2, <1>3, <2>1 DEF BeginsStep, EndsStep, EndsRun, EndsOwn, AbandonsOn,
       AbandonsOne, RowWritten, Suspend, PassStepStart, PassStepEnd, PassFinish, PassFails, Passes
<1> QED BY <1>1, <1>3, WhoGoes DEF ToolGoes

LEMMA ToEndStep ==
    ASSUME Good, CalmStep, h'[Closer] = Idle
    PROVE  ToEnd'
<1> SUFFICES ASSUME NEW r \in Gen, NEW e \in Event, Started(r, e)', Rows(r, e, "end")' = {}
             PROVE  /\ active' = r
                    /\ Ahead(r, e, Idle)'
                    /\ \A s \in Strand : h'[s].op \in Abandoning /\ h'[s].run = r =>
                          Ahead(r, e, h[s])'
  BY DEF ToEnd
<1> USE CalmHas, GenIs
<1>1. Rows(r, e, "end") = {}
  BY LogGrows
<1>2. CASE Started(r, e)
  <2>1. /\ active = r /\ Ahead(r, e, Idle)
        /\ \A s \in Strand : h[s].op \in Abandoning /\ h[s].run = r => Ahead(r, e, h[s])
    BY <1>1, <1>2 DEF Good, ToEnd
  <2>2. \A s \in Gen : ~TakesAll(s, r)
    <3> SUFFICES ASSUME NEW s \in Gen, TakesAll(s, r) PROVE FALSE
      OBVIOUS
    <3>1. h[s].op = "run" /\ Ahead(r, e, h[s])
      BY <2>1 DEF TakesAll, AbandonEnds, Abandoning
    <3> QED BY <3>1 DEF Ahead
  <2>3. active' = r
    BY <1>1, <2>1, <2>2, ActiveStays
  <2>4. \A at : Ahead(r, e, at) => Ahead(r, e, at)'
    BY <1>1, <2>2, AheadStays
  <2>5. ASSUME NEW s \in Strand, h'[s].op \in Abandoning, h'[s].run = r PROVE Ahead(r, e, h[s])'
    <3>0. PICK to : to = h'[s]
      OBVIOUS
    <3>1. CASE h'[s] = h[s]
      <4>1. Ahead(r, e, to)
        BY <2>1, <2>5, <3>0, <3>1
      <4>2. Ahead(r, e, to)'
        BY <2>4, <4>1
      <4> QED BY <3>0, <4>2
    <3>2. ASSUME NEW q \in Gen, AbandonsOne(s, q),
                 \/ h[s] = Idle /\ active = q
                 \/ h[s].op \in {"tools", "steps"} /\ h[s].run = q
          PROVE  Ahead(r, e, h[s])'
      <4>1. PICK f \in Event, by \in {"close", "overlap"}, u \in Event \cup {None}, at \in Handler :
               /\ Puts(q, f, "end", by, u) /\ Moves(s, at) /\ at.run = q
               /\ \A g \in Event : g # f /\ Ahead(q, g, h[s]) => Ahead(q, g, at)
        BY <3>2 DEF AbandonsOne
      <4>2. at = to /\ q = r
        BY <2>5, <3>0, <4>1 DEF Moves
      <4>3. f # e
        BY <4>1, <4>2, PutsRows DEF Good
      <4>4. Ahead(r, e, h[s])
        BY <2>1, <3>2, <4>2 DEF Abandoning
      <4>5. Ahead(r, e, to)
        BY <4>1, <4>2, <4>3, <4>4
      <4>6. Ahead(r, e, to)'
        BY <2>4, <4>5
      <4> QED BY <3>0, <4>6
    <3> QED BY <2>5, <3>1, <3>2, AbandonMoves
  <2> QED BY <2>1, <2>3, <2>4, <2>5
<1>3. CASE ~Started(r, e)
  <2>1. /\ active' = r /\ phase'[r] # "failed" /\ Ahead(r, e, Idle)'
    <3>1. CASE Opens(r) /\ e = RunEvent(r)
      <4>1. active' = r /\ phase'[r] # "failed"
        BY <3>1, StartsNext DEF Opens
      <4> QED BY <3>1, <4>1, IdleIs DEF Ahead
    <3>2. CASE BeginsStep(r) /\ e = StepEvent(r, step[r] + 1)
      <4>1. active' = r /\ phase'[r] # "failed"
        BY <3>2 DEF BeginsStep
      <4>2. PICK n, k : n = Len(steps[r]) + 1 /\ k = step[r] + 1
        OBVIOUS
      <4>3. n \in DOMAIN steps'[r] /\ steps'[r][n].live /\ steps'[r][n].ev = StepEvent(r, k)
        BY <3>2, <4>2, BeginsStepMap
      <4> QED BY <3>2, <4>1, <4>2, <4>3, IdleIs DEF Ahead
    <3>3. ASSUME NEW x \in Tool, BeginsTool(x), r = Caller[x], e = ToolEvent(x)
          PROVE  active' = r /\ phase'[r] # "failed" /\ Ahead(r, e, Idle)'
      <4>1. active' = r /\ phase'[r] # "failed"
        BY <3>3 DEF BeginsTool
      <4>2. PICK n : n = Len(tools[r]) + 1
        OBVIOUS
      <4>3. n \in DOMAIN tools'[r] /\ tools'[r][n].live /\ tools'[r][n].ev = ToolEvent(x)
        BY <3>3, <4>2, BeginsToolMap
      <4> QED BY <3>3, <4>1, <4>3, IdleIs DEF Ahead
    <3> QED BY <1>3, <3>1, <3>2, <3>3, NewStart
  <2>2. \A s \in Strand : h'[s].op \in Abandoning => phase'[h'[s].run] = "failed"
    BY StrandsStep DEF Strands
  <2> QED BY <2>1, <2>2
<1> QED BY <1>2, <1>3

-----------------------------------------------------------------------------
LEMMA InitWhole == Init => Whole
<1> SUFFICES ASSUME Init PROVE Whole
  OBVIOUS
<1>1. /\ \A s \in Strand : h[s] = Idle
      /\ Closer \in Strand
      /\ \A r \in Gen : /\ log[r] = <<>> /\ steps[r] = <<>> /\ tools[r] = <<>>
                        /\ phase[r] = "idle"
      /\ \A x \in Tool : tool[x] = "idle" /\ x \in Strand
      /\ \A g \in Gen : g \in Strand
      /\ active = None /\ None \notin Gen /\ ~suspended /\ ~closed
  BY AiSdkAssumption DEF Init, Strand
<1>2. DOMAIN <<>> = {}
  OBVIOUS
<1>3. Closing
  BY <1>1, IdleIs DEF Closing
<1>4. InTurn
  BY <1>1 DEF InTurn, GoesOn
<1>5. Strands
  BY <1>1, IdleIs DEF Strands, Abandoning
<1>6. LiveEntries /\ Recorded
  BY <1>1, <1>2 DEF LiveEntries, Recorded
<1>7. Ordered /\ Clean
  BY <1>1, <1>2 DEF Ordered, Clean, Once
<1>8. EndsWritten
  BY <1>1, IdleIs DEF EndsWritten, Ending, Abandoning
<1>9. ToEnd
  BY <1>1, <1>2 DEF ToEnd, Started, Rows
<1> QED BY <1>3, <1>4, <1>5, <1>6, <1>7, <1>8, <1>9 DEF Whole

LEMMA WholeStep == IInv /\ Whole /\ [Next]_vars => Whole'
<1> SUFFICES ASSUME IInv, Whole, [Next]_vars PROVE Whole'
  OBVIOUS
<1>1. CASE Next
  <2>1. Closing' /\ (Calm' => Calm)
    BY <1>1, CloserMoves DEF IInv, Whole
  <2>2. ASSUME Calm'
        PROVE  /\ InTurn' /\ Strands' /\ LiveEntries' /\ Recorded' /\ Ordered' /\ Clean'
               /\ EndsWritten' /\ ToEnd'
    <3>1. Good
      BY <2>1, <2>2 DEF Good, IInv, Whole
    <3>2. CalmStep
      BY <1>1, <2>2, <3>1, CalmSteps
    <3>3. h'[Closer] = Idle
      BY <2>2 DEF Calm
    <3> QED BY <3>1, <3>2, <3>3, InTurnStep, StrandsStep, LiveEntriesStep, RecordedStep,
          OrderedStep, CleanStep, EndsWrittenStep, ToEndStep
  <2> QED BY <2>1, <2>2 DEF Whole
<1>2. CASE UNCHANGED vars
  <2>1. UNCHANGED <<phase, step, tool, overlapped, active, suspended, tools, steps, h,
                    closed, log>>
    BY <1>2 DEF vars
  <2>2. Closing' = Closing /\ Calm' = Calm
    BY <2>1 DEF Closing, Calm
  <2>3. InTurn' = InTurn /\ Strands' = Strands
    BY <2>1 DEF InTurn, GoesOn, Last, Strands
  <2>4. LiveEntries' = LiveEntries /\ Recorded' = Recorded
    BY <2>1 DEF LiveEntries, Recorded, Started, Rows, InLog
  <2>5. Ordered' = Ordered /\ Clean' = Clean
    BY <2>1 DEF Ordered, Clean, Once, Started, Rows
  <2>6. EndsWritten' = EndsWritten /\ ToEnd' = ToEnd
    BY <2>1 DEF EndsWritten, ToEnd, Ahead, Started, Rows
  <2> QED BY <2>2, <2>3, <2>4, <2>5, <2>6 DEF Whole
<1> QED BY <1>1, <1>2

LEMMA CalmWhole ==
    ASSUME IInv, Whole, Calm
    PROVE  Good
BY DEF Good, IInv, Whole

LEMMA WholeRecorded == IInv /\ Whole => RecordedWhole
<1> SUFFICES ASSUME IInv, Whole, Calm, NEW g \in Gen, phase[g] = "done", h[g] = Idle,
                    log[g] # <<>> \/ ~(g > 1 /\ phase[g - 1] = "failed")
             PROVE  /\ log[g] # <<>>
                    /\ log[g][1].ev = RunEvent(g)
                    /\ log[g][Len(log[g])].ev = RunEvent(g)
                    /\ \A i \in DOMAIN log[g] :
                           LET e == log[g][i] IN
                           /\ e.by = "own"
                           /\ Cardinality(Rows(g, e.ev, "start")) = 1
                           /\ Cardinality(Rows(g, e.ev, "end")) = 1
                           /\ e.under # None => \E j \in 1..i : log[g][j].ev = e.under
  BY DEF RecordedWhole, Calm
<1>1. Good
  BY CalmWhole
<1>2. log[g] # <<>>
  BY <1>1 DEF Good, InTurn
<1>3. log[g][1].ev = RunEvent(g) /\ log[g][Len(log[g])].ev = RunEvent(g)
  BY <1>1, <1>2 DEF Good, Ordered, Clean
<1>4. active # g
  <2> SUFFICES ASSUME active = g PROVE FALSE
    OBVIOUS
  <2>1. h[g].op # "endRun"
    BY IdleIs
  <2> QED BY <1>1, <2>1 DEF Good, InTurn
<1>5. ASSUME NEW e, NEW i \in DOMAIN log[g], log[g][i].ev = e
      PROVE  Cardinality(Rows(g, e, "start")) = 1 /\ Cardinality(Rows(g, e, "end")) = 1
  <2>1. Started(g, e)
    BY <1>1, <1>5 DEF Good, Ordered
  <2>2. Rows(g, e, "end") # {}
    BY <1>1, <1>4, <2>1, StartedIs DEF Good, ToEnd
  <2>3. \A j, k \in Rows(g, e, "start") : j = k
    BY <1>1 DEF Good, Ordered, Once, Rows
  <2>4. \A j, k \in Rows(g, e, "end") : j = k
    BY <1>1 DEF Good, Clean, Once, Rows
  <2>5. PICK j : Rows(g, e, "start") = {j}
    BY <2>1, <2>3 DEF Started
  <2>6. PICK k : Rows(g, e, "end") = {k}
    BY <2>2, <2>4
  <2> QED BY <2>5, <2>6, FS_Singleton
<1>6. ASSUME NEW i \in DOMAIN log[g]
      PROVE  /\ log[g][i].by = "own"
             /\ log[g][i].under # None => \E j \in 1..i : log[g][j].ev = log[g][i].under
  BY <1>1 DEF Good, Clean, Ordered
<1> QED BY <1>2, <1>3, <1>5, <1>6

LEMMA WholeOpen == IInv /\ Whole => NothingLeftOpen
<1> SUFFICES ASSUME IInv, Whole, ~overlapped, Quiet, ~closed, NEW r \in Gen, r # active,
                    NEW e \in Event, Started(r, e)
             PROVE  Rows(r, e, "end") # {}
  BY DEF NothingLeftOpen
<1>1. Calm
  BY DEF Calm, Quiet, Strand
<1>2. Good
  BY <1>1, CalmWhole
<1> QED BY <1>2 DEF Good, ToEnd

\* For any generations, model calls and tool calls of which no two generations overlap, and as
\* long as close() is not called: a generation that has finished is recorded from run_started
\* to run_completed, each event started once and ended once by its own callbacks and after its
\* parent, or it came after a failed one and is not recorded at all.
THEOREM RunsRecordedWhole == Spec => []RecordedWhole
<1>1. IInv /\ Whole /\ [Next]_vars => (IInv /\ Whole)'
  BY StepInv, WholeStep
<1>2. Init => IInv /\ Whole
  BY InitInv, InitWhole
<1>3. IInv /\ Whole => RecordedWhole
  BY WholeRecorded
<1> QED BY <1>1, <1>2, <1>3, PTL DEF Spec

\* ... and when no callback is in flight, whatever was started in a run that is not the active
\* one has its end, if its generation failed and was abandoned too.
THEOREM NothingOpenLeft == Spec => []NothingLeftOpen
<1>1. IInv /\ Whole /\ [Next]_vars => (IInv /\ Whole)'
  BY StepInv, WholeStep
<1>2. Init => IInv /\ Whole
  BY InitInv, InitWhole
<1>3. IInv /\ Whole => NothingLeftOpen
  BY WholeOpen
<1> QED BY <1>1, <1>2, <1>3, PTL DEF Spec
=============================================================================
