--------------------------- MODULE OpenAiAgents ----------------------------
(***************************************************************************)
(* The OpenAI Agents tracing processor (packages/openai-agents/src/        *)
(* index.ts) over a compositeWriter.  The SDK calls onSpanStart and        *)
(* onSpanEnd without awaiting them, and awaits onTraceStart and            *)
(* onTraceEnd; each callback is cut where the processor awaits the writer. *)
(***************************************************************************)
EXTENDS Naturals, Sequences, FiniteSets

CONSTANTS Trace, Span,
          TraceOf,    \* the trace of each span
          Parent,     \* the enclosing span, or None
          Repeated,   \* the spans and traces whose end is delivered twice
          Child, MaxFaults, None

Item == Trace \cup Span

\* The callbacks; "again" is an end delivered a second time.
Callback == [of : Item, at : {"start", "end"}] \cup [of : Repeated, at : {"again"}]
            \cup [of : {None}, at : {"flush", "shutdown"}]
On(x, at) == [of |-> x, at |-> at]

ASSUME AgentsAssumption ==
    /\ TraceOf \in [Span -> Trace] /\ Parent \in [Span -> Span \cup {None}]
    /\ Repeated \subseteq Item /\ None \notin Item /\ Trace \cap Span = {}

VARIABLES
    activeTraces,  \* the trace ids of the Map
    activeSpans,   \* the span ids of the Map
    under,         \* the parent event each open span was given
    down,          \* closed
    ignored,       \* history: callbacks that found no matching start, or came after shutdown
    parentOf,      \* history: the parent event in the row of each callback
    call, accepted, waiting, file, shut, closed, written, dropped, sent, lost, throws

Writer == INSTANCE CompositeWriter WITH Caller <- Callback

own == <<activeTraces, activeSpans, under, down, ignored, parentOf>>
writer == <<call, accepted, waiting, file, shut, closed, written, dropped, sent, lost, throws>>
vars == <<own, writer>>

Init ==
    /\ activeTraces = {} /\ activeSpans = {} /\ down = FALSE
    /\ under = [s \in Span |-> None]
    /\ ignored = {} /\ parentOf = [c \in Callback |-> None]
    /\ Writer!CompositeInit

-----------------------------------------------------------------------------
(* The SDK *)

Delivered(x, at) == ~Writer!Free(On(x, at)) \/ On(x, at) \in ignored

\* The writer answers a refused row at once, and still the callback returns after shutdown()
\* has: that one's continuation stands before it in the queue of jobs.
InFlight(x, at) == \/ call[On(x, at)] = "write"
                   \/ call[On(x, at)] = "refused" /\ ~down

MayDeliver(x, at) ==
    /\ On(x, at) \in Callback /\ ~Delivered(x, at)
    /\ CASE at = "start" /\ x \in Trace -> TRUE
         [] at = "start" /\ x \in Span ->
                /\ Delivered(TraceOf[x], "start") /\ ~InFlight(TraceOf[x], "start")
                /\ Parent[x] # None => Delivered(Parent[x], "start")
         [] at = "end" -> Delivered(x, "start")
         [] at = "again" -> Delivered(x, "end")

-----------------------------------------------------------------------------
(* The processor *)

\* shutdown() has been called, and the writer's close() with it
Closing == Writer!CloseWasCalled

Ignore(x, at) ==
    /\ ignored' = ignored \cup {On(x, at)}
    /\ UNCHANGED <<activeTraces, activeSpans, under, down, parentOf, writer>>

\* The row says what the callback is about, and the parent.
Write(x, at, parent) ==
    /\ Writer!WriteCalled(On(x, at))
    /\ parentOf' = [parentOf EXCEPT ![On(x, at)] = parent]

\* resolveParentEventId
ParentEvent(s) == IF Parent[s] # None THEN Parent[s]
                  ELSE IF TraceOf[s] \in activeTraces THEN TraceOf[s] ELSE None

OnTraceStart(t) ==
    /\ MayDeliver(t, "start")
    /\ \/ down /\ Ignore(t, "start")
       \/ /\ ~down
          /\ activeTraces' = activeTraces \cup {t}
          /\ Write(t, "start", None)
          /\ UNCHANGED <<activeSpans, under, down, ignored>>

OnTraceEnd(t, at) ==
    /\ MayDeliver(t, at)
    /\ \/ (down \/ t \notin activeTraces) /\ Ignore(t, at)
       \/ /\ ~down /\ t \in activeTraces
          /\ Write(t, at, None)
          /\ UNCHANGED <<activeTraces, activeSpans, under, down, ignored>>

OnSpanStart(s) ==
    /\ MayDeliver(s, "start")
    /\ \/ down /\ Ignore(s, "start")
       \/ /\ ~down
          /\ activeSpans' = activeSpans \cup {s}
          /\ under' = [under EXCEPT ![s] = ParentEvent(s)]
          /\ Write(s, "start", ParentEvent(s))
          /\ UNCHANGED <<activeTraces, down, ignored>>

OnSpanEnd(s, at) ==
    /\ MayDeliver(s, at)
    /\ \/ (down \/ s \notin activeSpans) /\ Ignore(s, at)
       \/ /\ ~down /\ s \in activeSpans
          /\ Write(s, at, under[s])
          /\ UNCHANGED <<activeTraces, activeSpans, under, down, ignored>>

WriteReturns_Keeps(c) ==                                        \* mutant
    Writer!WriteReturns(c) /\ UNCHANGED own
WriteReturns_AlwaysForgets(c) ==                                \* mutant
    /\ Writer!WriteReturns(c)
    /\ activeTraces' = activeTraces \ {c.of} /\ activeSpans' = activeSpans \ {c.of}
    /\ UNCHANGED <<under, down, ignored, parentOf>>

\* the continuation of a callback: an end forgets its trace or span
WriteReturns(c) ==
    /\ Writer!WriteReturns(c)
    /\ activeTraces' = IF c.at = "start" THEN activeTraces ELSE activeTraces \ {c.of}
    /\ activeSpans' = IF c.at = "start" THEN activeSpans ELSE activeSpans \ {c.of}
    /\ UNCHANGED <<under, down, ignored, parentOf>>

\* The application flushes between its workflows, when every trace has ended and no callback
\* is under way, and not once it has shut down, which it does whenever it likes.
ForceFlush ==
    /\ ~Closing /\ \A c \in Callback : ~InFlight(c.of, c.at)
    /\ \E t \in Trace : Delivered(t, "end")
    /\ \A t \in Trace : Delivered(t, "start") => Delivered(t, "end")
    /\ Writer!FlushCalled(On(None, "flush")) /\ UNCHANGED own

\* shutdown() marks the processor in a job of its own after the writer has closed
Shutdown ==
    /\ ~down
    /\ Writer!CloseCalled(On(None, "shutdown")) /\ UNCHANGED own
WriterCloses == Writer!CloseReturns(On(None, "shutdown")) /\ UNCHANGED own
ShutdownReturns ==
    /\ call[On(None, "shutdown")] = "closed" /\ ~down
    /\ down' = TRUE /\ activeTraces' = {} /\ activeSpans' = {}
    /\ UNCHANGED <<under, ignored, parentOf, writer>>

\* a child's answer is an I/O completion: it comes after the jobs of settled promises
MicrotasksDone ==
    /\ \A c \in Callback : call[c] \in {"write", "flush", "close"} => ~Writer!Settled(c)
    /\ call[On(None, "shutdown")] = "closed" => down
ChildAnswers == MicrotasksDone /\ Writer!ChildAnswers /\ UNCHANGED own
FlushReturns == Writer!FlushReturns(On(None, "flush")) /\ UNCHANGED own

Next ==
    \/ \E t \in Trace : OnTraceStart(t) \/ \E at \in {"end", "again"} : OnTraceEnd(t, at)
    \/ \E s \in Span : OnSpanStart(s) \/ \E at \in {"end", "again"} : OnSpanEnd(s, at)
    \/ \E c \in Callback : WriteReturns(c)
    \/ ForceFlush \/ FlushReturns \/ Shutdown \/ WriterCloses \/ ShutdownReturns \/ ChildAnswers
Spec == Init /\ [][Next]_vars

-----------------------------------------------------------------------------
TypeOK ==
    /\ activeTraces \subseteq Trace /\ activeSpans \subseteq Span
    /\ under \in [Span -> Item \cup {None}] /\ down \in BOOLEAN
    /\ ignored \subseteq Callback /\ parentOf \in [Callback -> Item \cup {None}]

\* A span's parent: the span around it, else its trace, unless that ended before it began.
ParentRight(s, parent) ==
    \/ parent = IF Parent[s] # None THEN Parent[s] ELSE TraceOf[s]
    \/ /\ parent = None /\ Parent[s] = None
       /\ \E e \in Writer!Place(On(TraceOf[s], "end")),
             b \in Writer!Place(On(s, "start")) : e < b

\* Each child's file holds the rows of exactly those callbacks that were delivered before
\* shutdown(), that the child has answered and did not lose itself, each once and in the
\* order of delivery, whatever another child throws or loses and however long a row takes;
\* and a span stands there under its parent span, else under its trace unless that ended
\* before it.
FilesAsDelivered ==
    /\ Writer!FilesAsCalled
    /\ \A k \in Child : \A i \in DOMAIN file[k] :
          LET c == file[k][i] IN
          IF c.of \in Trace THEN parentOf[c] = None ELSE ParentRight(c.of, parentOf[c])

\* Before shutdown() no callback is lost: one that is ignored is the second delivery of an
\* end whose first one was written.
NothingIgnored ==
    ~Closing => \A c \in ignored : c.at = "again" /\ call[On(c.of, "end")] = "wrote"

\* A second row for the end of a span or a trace needs the first one still in flight.
EndsOnce ==
    [][\A x \in Repeated :
          Writer!Free(On(x, "again")) /\ ~Writer!Free(On(x, "again"))'
          => InFlight(x, "end")]_vars

\* The statistics of the composite writer under this traffic.
StatsAccount == Writer!StatsAccount
============================================================================
