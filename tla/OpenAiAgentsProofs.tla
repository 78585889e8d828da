------------------------- MODULE OpenAiAgentsProofs -------------------------
(***************************************************************************)
(* For any traces, spans, nesting and repetition of ends, and for any      *)
(* writers that fail as they like: the processor writes a second end of a  *)
(* span only while the first is in flight, loses no callback before        *)
(* shutdown(), and each child's file holds the rows it kept in order of    *)
(* delivery and under the right parents.                                   *)
(***************************************************************************)
EXTENDS OpenAiAgents, TLAPS

\* the theorems of the composite writer, for this traffic
Composite == INSTANCE CompositeWriterProofs WITH Caller <- Callback

Stamps == {"start", "end", "again"}
Active == activeTraces \cup activeSpans
Typed == TypeOK /\ Composite!CompositeType

LEMMA OnIs ==
    /\ \A x, at : On(x, at).of = x /\ On(x, at).at = at
    /\ \A x, at, y, st : On(x, at) = On(y, st) <=> x = y /\ at = st
BY DEF On

LEMMA CallbackIs ==
    ASSUME NEW c \in Callback
    PROVE  /\ c = On(c.of, c.at)
           /\ \/ c.of = None /\ c.at \in {"flush", "shutdown"}
              \/ c.of \in Item /\ c.at \in {"start", "end"}
              \/ c.of \in Repeated /\ c.at = "again"
BY DEF Callback, On

LEMMA InCallback ==
    /\ \A x \in Item : On(x, "start") \in Callback /\ On(x, "end") \in Callback
    /\ \A x \in Repeated : On(x, "again") \in Callback
    /\ \A x : On(x, "again") \in Callback => x \in Repeated
    /\ On(None, "flush") \in Callback /\ On(None, "shutdown") \in Callback
BY AgentsAssumption DEF Callback, On

LEMMA SameCardinality == \A S : Writer!Cardinality(S) = Composite!Cardinality(S)
BY Zenon DEF Writer!Cardinality, Composite!Cardinality

LEMMA ClosingIs == Closing <=> \E c \in Callback : call[c] \in {"close", "closed"}
BY DEF Closing, Writer!CloseWasCalled, Writer!Made

\* Every step of the processor is a step of its writer, or leaves it alone.
LEMMA WriterSteps ==
    ASSUME TypeOK, [Next]_vars
    PROVE  [Composite!CompositeNext]_(Composite!cvars)
<1> USE DEF Composite!CompositeNext, Composite!Calls, Composite!Returns, Composite!ChildAnswers
<1>1. ASSUME NEW x, NEW at, NEW p, On(x, at) \in Callback, Write(x, at, p)
      PROVE  Composite!CompositeNext
  <2>1. Writer!CloseWasCalled <=> Composite!CloseWasCalled
    BY DEF Writer!CloseWasCalled, Composite!CloseWasCalled, Writer!Made, Composite!Made
  <2>2. Composite!WriteCalled(On(x, at))
    BY <1>1, <2>1 DEF Write, Writer!WriteCalled, Composite!WriteCalled, Writer!Free,
       Composite!Free, Writer!CallAll, Composite!CallAll
  <2> QED BY <1>1, <2>2
<1>2. ASSUME UNCHANGED writer PROVE UNCHANGED Composite!cvars
  BY <1>2 DEF writer, Composite!cvars
<1>3. ASSUME NEW t \in Trace, OnTraceStart(t)
      PROVE  [Composite!CompositeNext]_(Composite!cvars)
  <2>1. On(t, "start") \in Callback
    BY InCallback DEF Item
  <2> QED BY <1>1, <1>2, <1>3, <2>1 DEF OnTraceStart, Ignore
<1>4. ASSUME NEW t \in Trace, NEW at \in {"end", "again"}, OnTraceEnd(t, at)
      PROVE  [Composite!CompositeNext]_(Composite!cvars)
  <2>1. On(t, at) \in Callback
    BY <1>4 DEF OnTraceEnd, MayDeliver
  <2> QED BY <1>1, <1>2, <1>4, <2>1 DEF OnTraceEnd, Ignore
<1>5. ASSUME NEW s \in Span, OnSpanStart(s)
      PROVE  [Composite!CompositeNext]_(Composite!cvars)
  <2>1. On(s, "start") \in Callback
    BY InCallback DEF Item
  <2> QED BY <1>1, <1>2, <1>5, <2>1 DEF OnSpanStart, Ignore
<1>6. ASSUME NEW s \in Span, NEW at \in {"end", "again"}, OnSpanEnd(s, at)
      PROVE  [Composite!CompositeNext]_(Composite!cvars)
  <2>1. On(s, at) \in Callback
    BY <1>6 DEF OnSpanEnd, MayDeliver
  <2> QED BY <1>1, <1>2, <1>6, <2>1 DEF OnSpanEnd, Ignore
<1>7. ASSUME NEW c \in Callback, WriteReturns(c) PROVE Composite!CompositeNext
  BY <1>7 DEF WriteReturns, Writer!WriteReturns, Composite!WriteReturns, Writer!Settled,
     Composite!Settled, Writer!Answered, Composite!Answered
<1>8. ASSUME ForceFlush PROVE Composite!CompositeNext
  BY <1>8, InCallback DEF ForceFlush, Writer!FlushCalled, Composite!FlushCalled,
     Writer!CallAll, Composite!CallAll, Writer!Free, Composite!Free
<1>9. ASSUME FlushReturns PROVE Composite!CompositeNext
  BY <1>9, InCallback DEF FlushReturns, Writer!FlushReturns, Composite!FlushReturns,
     Writer!Settled, Composite!Settled, Writer!Answered, Composite!Answered
<1>10. ASSUME Shutdown PROVE Composite!CompositeNext
  BY <1>10, InCallback DEF Shutdown, Writer!CloseCalled, Composite!CloseCalled,
     Writer!CallAll, Composite!CallAll, Writer!Free, Composite!Free
<1>11. ASSUME WriterCloses PROVE Composite!CompositeNext
  BY <1>11, InCallback DEF WriterCloses, Writer!CloseReturns, Composite!CloseReturns,
     Writer!Settled, Composite!Settled, Writer!Answered, Composite!Answered
<1>12. ASSUME ShutdownReturns PROVE UNCHANGED Composite!cvars
  BY <1>2, <1>12 DEF ShutdownReturns
<1>13. ASSUME ChildAnswers PROVE Composite!CompositeNext
  <2>1. PICK k \in Child : Writer!ChildSettles(k) \/ Writer!ChildThrows(k)
    BY <1>13 DEF ChildAnswers, Writer!ChildAnswers
  <2>2. Composite!ChildSettles(k) \/ Composite!ChildThrows(k)
    BY <2>1, SameCardinality
    DEF Writer!ChildSettles, Composite!ChildSettles, Writer!ChildThrows,
        Composite!ChildThrows, Writer!Answers, Composite!Answers, Writer!Stores,
        Composite!Stores, Writer!Loses, Composite!Loses
  <2> QED BY <2>2
<1>14. CASE UNCHANGED vars
  BY <1>2, <1>14 DEF vars
<1> QED
  BY <1>3, <1>4, <1>5, <1>6, <1>7, <1>8, <1>9, <1>10, <1>11, <1>12, <1>13, <1>14 DEF Next

LEMMA WriterInit == Init => Composite!CompositeInit
BY DEF Init, Writer!CompositeInit, Composite!CompositeInit

LEMMA TypeInit == Init => Typed
<1> SUFFICES ASSUME Init PROVE Typed
  OBVIOUS
<1>1. Composite!CompositeType
  BY WriterInit, Composite!TypeInit
<1>2. activeTraces \subseteq Trace /\ activeSpans \subseteq Span /\ under = [s \in Span |-> None]
      /\ down \in BOOLEAN /\ ignored \subseteq Callback /\ parentOf = [c \in Callback |-> None]
  BY DEF Init
<1>3. under \in [Span -> Item \cup {None}] /\ parentOf \in [Callback -> Item \cup {None}]
  BY <1>2
<1> QED BY <1>1, <1>2, <1>3 DEF Typed, TypeOK

LEMMA TypeStep ==
    ASSUME Typed, [Next]_vars
    PROVE  Typed'
<1>1. Composite!CompositeType'
  BY WriterSteps, Composite!TypeStep DEF Typed
<1>2. ASSUME NEW x \in Item, NEW at \in Stamps, NEW p \in Item \cup {None}, Write(x, at, p)
      PROVE  parentOf' \in [Callback -> Item \cup {None}]
  BY <1>2 DEF Write, Typed, TypeOK
<1> USE DEF Typed, TypeOK
<1>3. ASSUME NEW x \in Item, NEW at \in Stamps, On(x, at) \in Callback, Ignore(x, at)
      PROVE  TypeOK'
  BY <1>3 DEF Ignore
<1>4. ASSUME NEW t \in Trace, OnTraceStart(t) PROVE TypeOK'
  <2>1. t \in Item /\ On(t, "start") \in Callback
    BY InCallback DEF Item
  <2> QED BY <1>2, <1>3, <1>4, <2>1 DEF OnTraceStart, Stamps
<1>5. ASSUME NEW t \in Trace, NEW at \in {"end", "again"}, OnTraceEnd(t, at) PROVE TypeOK'
  <2>1. t \in Item /\ On(t, at) \in Callback
    BY <1>5 DEF Item, OnTraceEnd, MayDeliver
  <2> QED BY <1>2, <1>3, <1>5, <2>1 DEF OnTraceEnd, Stamps
<1>6. ASSUME NEW s \in Span, OnSpanStart(s) PROVE TypeOK'
  <2>1. s \in Item /\ On(s, "start") \in Callback /\ ParentEvent(s) \in Item \cup {None}
    BY InCallback, AgentsAssumption DEF Item, ParentEvent
  <2> QED BY <1>2, <1>3, <1>6, <2>1 DEF OnSpanStart, Stamps
<1>7. ASSUME NEW s \in Span, NEW at \in {"end", "again"}, OnSpanEnd(s, at) PROVE TypeOK'
  <2>1. s \in Item /\ On(s, at) \in Callback
    BY <1>7 DEF Item, OnSpanEnd, MayDeliver
  <2>2. under[s] \in Item \cup {None}
    OBVIOUS
  <2> QED BY <1>2, <1>3, <1>7, <2>1, <2>2 DEF OnSpanEnd, Stamps
<1>8. CASE \/ \E c \in Callback : WriteReturns(c)
           \/ ForceFlush \/ FlushReturns \/ Shutdown \/ WriterCloses \/ ShutdownReturns
           \/ ChildAnswers \/ UNCHANGED vars
  <2>1. /\ activeTraces' \subseteq activeTraces /\ activeSpans' \subseteq activeSpans
        /\ under' = under /\ down' \in BOOLEAN /\ ignored' = ignored
        /\ parentOf' = parentOf
    BY <1>8 DEF WriteReturns, ForceFlush, FlushReturns, Shutdown, WriterCloses,
       ShutdownReturns, ChildAnswers, own, vars
  <2> QED BY <1>1, <2>1
<1> QED BY <1>1, <1>4, <1>5, <1>6, <1>7, <1>8 DEF Next

\* The statistics of the composite writer are exact under this traffic.
THEOREM StatsUnderTraffic ==
    ASSUME Composite!CompositeAssumption PROVE Spec => []StatsAccount
<1> DEFINE Inv == Typed /\ Composite!StatsAccount
<1>1. Init => Inv
  BY TypeInit, WriterInit, Composite!StatsInit
<1>2. Inv /\ [Next]_vars => Inv'
  BY TypeStep, WriterSteps, Composite!StatsStep DEF Typed
<1>3. Inv => StatsAccount
  BY SameCardinality DEF StatsAccount, Writer!StatsAccount, Composite!StatsAccount, Writer!Taken,
     Composite!Taken, Writer!Missed, Composite!Missed, Writer!Refused, Composite!Refused,
     Writer!Made, Composite!Made
<1> QED BY <1>1, <1>2, <1>3, PTL DEF Spec

-----------------------------------------------------------------------------
(* What each kind of step does to the calls and to what is active *)

\* The writer closes before the processor is down, and refuses rows only then; a call for an
\* item was made once and is in flight, over or refused.
ShutdownCall == On(None, "shutdown")
Calm ==
    /\ down => closed
    /\ closed <=> call[ShutdownCall] = "closed"
    /\ \A x \in Item, at \in Stamps : On(x, at) \in Callback =>
          /\ call[On(x, at)] \in {"none", "write", "wrote", "refused"}
          /\ call[On(x, at)] = "refused" => closed

\* the parent event in the row of a callback
RowParent(x, at) == IF x \in Trace THEN None ELSE IF at = "start" THEN ParentEvent(x)
                    ELSE under[x]

Begins(x, at) ==
    /\ MayDeliver(x, at) /\ ~down /\ call[On(x, at)] = "none"
    /\ at = "start" \/ x \in Active
    /\ call' = [call EXCEPT ![On(x, at)] = IF closed THEN "refused" ELSE "write"]
    /\ call'[ShutdownCall] = call[ShutdownCall]
    /\ Active' = IF at = "start" THEN Active \cup {x} ELSE Active
    /\ sent' = IF Closing THEN sent ELSE Append(sent, On(x, at))
    /\ parentOf' = [parentOf EXCEPT ![On(x, at)] = RowParent(x, at)]
    /\ under' = IF x \in Span /\ at = "start" THEN [under EXCEPT ![x] = RowParent(x, at)]
                ELSE under
    /\ UNCHANGED <<down, ignored, closed>>
Skips(x, at) ==
    /\ MayDeliver(x, at)
    /\ down \/ (at # "start" /\ x \notin Active)
    /\ ignored' = ignored \cup {On(x, at)}
    /\ Active' = Active
    /\ UNCHANGED <<down, call, closed, sent, parentOf, under>>
Finishes(c) ==
    /\ call[c] = "write"
    /\ call' = [call EXCEPT ![c] = "wrote"]
    /\ call'[ShutdownCall] = "closed" <=> call[ShutdownCall] = "closed"
    /\ Active' = IF c.at = "start" THEN Active ELSE Active \ {c.of}
    /\ UNCHANGED <<down, ignored, closed, sent, parentOf, under>>
Others ==
    /\ \A c \in Callback : c.of # None => call'[c] = call[c]
    /\ Active' = Active \/ (down' /\ Active' = {})
    /\ down => down'
    /\ closed => closed'
    /\ down' => closed'
    /\ closed' <=> call'[ShutdownCall] = "closed"
    /\ UNCHANGED <<ignored, sent, parentOf, under>>

LEMMA WriteBegins ==
    ASSUME Typed, Calm, NEW x \in Item, NEW at \in Stamps,
           MayDeliver(x, at), ~down, Write(x, at, RowParent(x, at)), at = "start" \/ x \in Active,
           Active' = IF at = "start" THEN Active \cup {x} ELSE Active,
           under' = IF x \in Span /\ at = "start" THEN [under EXCEPT ![x] = RowParent(x, at)]
                    ELSE under,
           UNCHANGED <<down, ignored>>
    PROVE  Begins(x, at)
<1>1. call[On(x, at)] = "none" /\ closed' = closed
      /\ parentOf' = [parentOf EXCEPT ![On(x, at)] = RowParent(x, at)]
  BY DEF Write, Writer!WriteCalled, Writer!Free
<1>2. call' = [call EXCEPT ![On(x, at)] = IF closed THEN "refused" ELSE "write"]
  BY DEF Write, Writer!WriteCalled, Writer!CallAll
<1>3. sent' = IF Closing THEN sent ELSE Append(sent, On(x, at))
  <2>1. closed => Closing
    BY ClosingIs, InCallback DEF Calm, ShutdownCall
  <2> QED BY <2>1 DEF Write, Writer!WriteCalled, Closing
<1>4. call'[ShutdownCall] = call[ShutdownCall]
  <2>1. ShutdownCall # On(x, at) /\ ShutdownCall \in Callback
    BY OnIs, InCallback, AgentsAssumption DEF ShutdownCall
  <2> QED BY <1>2, <2>1 DEF Typed, Composite!CompositeType
<1> QED BY <1>1, <1>2, <1>3, <1>4 DEF Begins

LEMMA Kinds ==
    ASSUME Typed, Calm, [Next]_vars
    PROVE  \/ \E x \in Item, at \in Stamps : Begins(x, at) \/ Skips(x, at)
           \/ \E c \in Callback : Finishes(c)
           \/ Others
<1>1. ASSUME NEW t \in Trace, OnTraceStart(t)
      PROVE  Begins(t, "start") \/ Skips(t, "start")
  <2>1. CASE down
    BY <1>1, <2>1 DEF OnTraceStart, Ignore, Skips, writer, Active
  <2>2. CASE ~down
    BY <1>1, <2>2, WriteBegins, AgentsAssumption
    DEF OnTraceStart, Active, Stamps, Item, RowParent
  <2> QED BY <2>1, <2>2
<1>2. ASSUME NEW s \in Span, OnSpanStart(s)
      PROVE  Begins(s, "start") \/ Skips(s, "start")
  <2>1. CASE down
    BY <1>2, <2>1 DEF OnSpanStart, Ignore, Skips, writer, Active
  <2>2. CASE ~down
    BY <1>2, <2>2, WriteBegins, AgentsAssumption
    DEF OnSpanStart, Active, Stamps, Item, RowParent
  <2> QED BY <2>1, <2>2
<1>3. ASSUME NEW t \in Trace, NEW at \in {"end", "again"}, OnTraceEnd(t, at)
      PROVE  Begins(t, at) \/ Skips(t, at)
  <2>1. t \in Active <=> t \in activeTraces
    BY AgentsAssumption DEF Typed, TypeOK, Active
  <2>2. CASE down \/ t \notin activeTraces
    BY <1>3, <2>1, <2>2 DEF OnTraceEnd, Ignore, Skips, writer, Active
  <2>3. CASE ~down /\ t \in activeTraces
    BY <1>3, <2>1, <2>3, WriteBegins, AgentsAssumption
    DEF OnTraceEnd, Active, Stamps, Item, RowParent
  <2> QED BY <2>2, <2>3
<1>4. ASSUME NEW s \in Span, NEW at \in {"end", "again"}, OnSpanEnd(s, at)
      PROVE  Begins(s, at) \/ Skips(s, at)
  <2>1. s \in Active <=> s \in activeSpans
    BY AgentsAssumption DEF Typed, TypeOK, Active
  <2>2. CASE down \/ s \notin activeSpans
    BY <1>4, <2>1, <2>2 DEF OnSpanEnd, Ignore, Skips, writer, Active
  <2>3. CASE ~down /\ s \in activeSpans
    BY <1>4, <2>1, <2>3, WriteBegins, AgentsAssumption
    DEF OnSpanEnd, Active, Stamps, Item, RowParent
  <2> QED BY <2>2, <2>3
<1>5. ASSUME NEW c \in Callback, WriteReturns(c) PROVE Finishes(c)
  <2>1. call[c] = "write" /\ call' = [call EXCEPT ![c] = "wrote"]
        /\ UNCHANGED <<closed, sent, down, ignored, parentOf, under>>
    BY <1>5 DEF WriteReturns, Writer!WriteReturns
  <2>2. call'[ShutdownCall] = "closed" <=> call[ShutdownCall] = "closed"
    BY <2>1, InCallback DEF ShutdownCall, Typed, Composite!CompositeType
  <2> QED BY <1>5, <2>1, <2>2 DEF WriteReturns, Finishes, Active
<1>6. /\ On(None, "flush").of = None /\ ShutdownCall.of = None
      /\ On(None, "flush") \in Callback /\ ShutdownCall \in Callback
      /\ On(None, "flush") # ShutdownCall
  BY OnIs, InCallback DEF ShutdownCall
<1>7. ASSUME ForceFlush \/ FlushReturns PROVE Others
  <2>1. UNCHANGED <<own, closed, sent>>
        /\ \E v \in {"flush", "flushed"} : call' = [call EXCEPT ![On(None, "flush")] = v]
    BY <1>7 DEF ForceFlush, FlushReturns, Writer!FlushCalled, Writer!FlushReturns,
       Writer!CallAll
  <2>2. /\ \A c \in Callback : c.of # None => call'[c] = call[c]
        /\ call'[ShutdownCall] = call[ShutdownCall]
    BY <1>6, <2>1 DEF Typed, Composite!CompositeType
  <2> QED BY <2>1, <2>2 DEF Others, own, Active, Calm
<1>8. ASSUME Shutdown \/ WriterCloses PROVE Others
  <2>1. UNCHANGED <<own, sent>>
        /\ \/ Writer!CloseCalled(ShutdownCall)
           \/ Writer!CloseReturns(ShutdownCall)
    BY <1>8 DEF Shutdown, WriterCloses, Writer!CloseCalled, Writer!CloseReturns, ShutdownCall
  <2>2. \/ closed' = closed /\ closed /\ call' = [call EXCEPT ![ShutdownCall] = "closed"]
        \/ /\ closed' = closed /\ ~closed /\ call' = [call EXCEPT ![ShutdownCall] = "close"]
        \/ closed' = TRUE /\ call' = [call EXCEPT ![ShutdownCall] = "closed"]
    BY <2>1 DEF Writer!CloseCalled, Writer!CloseReturns, Writer!CallAll
  <2>3. /\ \A c \in Callback : c.of # None => call'[c] = call[c]
        /\ closed' <=> call'[ShutdownCall] = "closed"
        /\ closed => closed'
    BY <1>6, <2>2 DEF Typed, Composite!CompositeType
  <2> QED BY <2>1, <2>3 DEF Others, own, Active, Calm
<1>9. ASSUME ShutdownReturns PROVE Others
  BY <1>9 DEF ShutdownReturns, Others, Active, Calm, writer, ShutdownCall
<1>10. ASSUME ChildAnswers PROVE Others
  <2>1. UNCHANGED <<own, call, closed, sent>>
    BY <1>10 DEF ChildAnswers, Writer!ChildAnswers, Writer!ChildSettles,
       Writer!ChildThrows, Writer!Answers
  <2> QED BY <2>1 DEF Others, own, Active, Calm
<1>11. CASE UNCHANGED vars
  BY <1>11 DEF vars, own, writer, Others, Active, Calm
<1> QED
  BY <1>1, <1>2, <1>3, <1>4, <1>5, <1>7, <1>8, <1>9, <1>10, <1>11
  DEF Next, Item, Stamps

-----------------------------------------------------------------------------
(* Ends and starts *)

\* What the calls for an item tell about it: it was started before it is ended, the first
\* end comes before the second, and, until shutdown() is over, it is inactive after its
\* start exactly because a row of its end was written.
EndsAfterStart(x) ==
    /\ Delivered(x, "end") => Delivered(x, "start")
    /\ call[On(x, "end")] = "wrote" => x \notin Active
    /\ On(x, "end") \in ignored => down \/ x \notin Active
    /\ x \in Repeated /\ call[On(x, "again")] # "none" => call[On(x, "end")] # "none"
    /\ ~down /\ call[On(x, "start")] # "none" /\ x \notin Active
       => \/ call[On(x, "end")] = "wrote"
          \/ x \in Repeated /\ call[On(x, "again")] = "wrote"
Unheard == ~down => \A c \in ignored : c.at = "again" /\ call[On(c.of, "end")] = "wrote"
CallInv == Calm /\ Unheard /\ \A x \in Item : EndsAfterStart(x)

LEMMA CallInit == Init => CallInv
<1> SUFFICES ASSUME Init PROVE CallInv
  OBVIOUS
<1>1. \A c \in Callback : call[c] = "none"
  BY WriterInit DEF Composite!CompositeInit
<1>2. /\ closed = FALSE /\ down = FALSE /\ ignored = {} /\ Active = {}
  BY WriterInit DEF Composite!CompositeInit, Init, Active
<1>3. Calm /\ Unheard
  BY <1>1, <1>2, InCallback DEF Calm, Unheard, ShutdownCall
<1>4. ASSUME NEW x \in Item PROVE EndsAfterStart(x)
  BY <1>1, <1>2, InCallback DEF EndsAfterStart, Delivered, Writer!Free
<1> QED BY <1>3, <1>4 DEF CallInv

\* A call of one item leaves those of the others alone.
LEMMA CallOf ==
    ASSUME Typed, NEW c \in Callback, NEW v, call' = [call EXCEPT ![c] = v]
    PROVE  /\ call'[c] = v
           /\ \A y \in Item, st \in Stamps :
                 On(y, st) \in Callback /\ On(y, st) # c => call'[On(y, st)] = call[On(y, st)]
BY DEF Typed, Composite!CompositeType

LEMMA BeginsKeeps ==
    ASSUME Typed, CallInv, NEW x \in Item, NEW at \in Stamps, Begins(x, at)
    PROVE  CallInv'
<1> USE DEF Stamps
<1>0. On(x, at) \in Callback /\ (at = "again" => x \in Repeated)
  BY InCallback DEF Begins, MayDeliver
<1>1. /\ call'[On(x, at)] = IF closed THEN "refused" ELSE "write"
      /\ \A y \in Item, st \in Stamps :
            On(y, st) \in Callback /\ (y # x \/ st # at) => call'[On(y, st)] = call[On(y, st)]
  <2>1. \A y \in Item, st \in Stamps : y # x \/ st # at => On(y, st) # On(x, at)
    BY OnIs
  <2>2. call' = [call EXCEPT ![On(x, at)] = IF closed THEN "refused" ELSE "write"]
    BY DEF Begins
  <2>3. ASSUME NEW v, call' = [call EXCEPT ![On(x, at)] = v]
        PROVE  /\ call'[On(x, at)] = v
               /\ \A y \in Item, st \in Stamps :
                     On(y, st) \in Callback /\ (y # x \/ st # at)
                     => call'[On(y, st)] = call[On(y, st)]
    BY <1>0, <2>1, <2>3, CallOf
  <2> QED BY <2>2, <2>3, Zenon
<1>2. call[On(x, at)] = "none" /\ ~down /\ down' = down /\ ignored' = ignored
  BY DEF Begins
<1>3. Calm'
  BY <1>1, OnIs DEF CallInv, Calm, Begins
<1>4. \A y \in Item : On(y, "end") \in Callback
  BY InCallback
<1>5. Unheard'
  <2>1. \A c \in ignored : c \in Callback /\ c.at = "again"
    BY <1>2 DEF CallInv, Unheard, Typed, TypeOK
  <2>2. \A c \in ignored : c.of \in Item
    BY <2>1, CallbackIs, AgentsAssumption
  <2> QED BY <1>1, <1>2, <1>4, <2>2 DEF CallInv, Unheard
<1>6. ASSUME NEW y \in Item, y # x PROVE EndsAfterStart(y)'
  <2>1. (y \in Active') <=> (y \in Active)
    BY <1>6 DEF Begins
  <2> QED
    BY <1>1, <1>2, <1>6, <2>1, InCallback
    DEF CallInv, EndsAfterStart, Delivered, Writer!Free
<1>7. EndsAfterStart(x)'
  <2>1. CASE at = "start"
    <3>1. x \in Active' /\ ~Delivered(x, "start")
      BY <2>1 DEF Begins, MayDeliver
    <3>2. call[On(x, "end")] = "none" /\ On(x, "end") \notin ignored
      BY <3>1 DEF CallInv, EndsAfterStart, Delivered, Writer!Free
    <3> QED
      BY <1>1, <1>2, <2>1, <3>1, <3>2, InCallback
      DEF CallInv, EndsAfterStart, Delivered, Writer!Free
  <2>2. CASE at = "end"
    <3>1. x \in Active /\ x \in Active' /\ Delivered(x, "start")
      BY <2>2 DEF Begins, MayDeliver
    <3> QED
      BY <1>1, <1>2, <2>2, <3>1, InCallback
      DEF CallInv, EndsAfterStart, Delivered, Writer!Free
  <2>3. CASE at = "again"
    <3>1. x \in Active /\ x \in Active' /\ Delivered(x, "end")
      BY <2>3 DEF Begins, MayDeliver
    <3>2. On(x, "end") \notin ignored
      BY <1>2, <3>1 DEF CallInv, EndsAfterStart
    <3> QED
      BY <1>1, <1>2, <2>3, <3>1, <3>2, InCallback
      DEF CallInv, EndsAfterStart, Delivered, Writer!Free
  <2> QED BY <2>1, <2>2, <2>3
<1> QED BY <1>3, <1>5, <1>6, <1>7 DEF CallInv

LEMMA SkipsKeeps ==
    ASSUME Typed, CallInv, NEW x \in Item, NEW at \in Stamps, Skips(x, at)
    PROVE  CallInv'
<1>1. /\ call' = call /\ down' = down /\ Active' = Active
      /\ ignored' = ignored \cup {On(x, at)}
  BY DEF Skips
<1>2. Calm'
  BY <1>1 DEF CallInv, Calm, Skips
<1>3. ASSUME ~down PROVE at = "again" /\ call[On(x, "end")] = "wrote"
  <2>1. at # "start" /\ x \notin Active /\ On(x, at) \in Callback /\ ~Delivered(x, at)
    BY <1>3 DEF Skips, MayDeliver
  <2>2. Delivered(x, "start") /\ (at = "again" => Delivered(x, "end"))
    BY <2>1 DEF Skips, MayDeliver, Stamps, CallInv, EndsAfterStart
  <2>3. On(x, "start") \notin ignored /\ On(x, "end") \notin ignored
    BY <1>3, OnIs DEF CallInv, Unheard
  <2>4. call[On(x, "start")] # "none"
    BY <2>2, <2>3 DEF Delivered, Writer!Free
  <2>5. \/ call[On(x, "end")] = "wrote"
        \/ x \in Repeated /\ call[On(x, "again")] = "wrote"
    BY <1>3, <2>1, <2>4 DEF CallInv, EndsAfterStart
  <2>6. CASE at = "end"
    BY <2>1, <2>5, <2>6 DEF CallInv, EndsAfterStart, Delivered, Writer!Free
  <2>7. CASE at = "again"
    BY <2>1, <2>5, <2>7 DEF Delivered, Writer!Free
  <2> QED BY <2>1, <2>6, <2>7 DEF Stamps
<1>4. Unheard'
  BY <1>1, <1>3, OnIs DEF CallInv, Unheard
<1>5. ASSUME NEW y \in Item PROVE EndsAfterStart(y)'
  <2>1. \A st : On(y, st) \in ignored' <=> On(y, st) \in ignored \/ (y = x /\ st = at)
    BY <1>1, OnIs
  <2>2. y = x /\ at = "end" => Delivered(x, "start") /\ (down \/ x \notin Active)
    BY DEF Skips, MayDeliver
  <2> QED
    BY <1>1, <2>1, <2>2 DEF CallInv, EndsAfterStart, Delivered, Writer!Free
<1> QED BY <1>2, <1>4, <1>5 DEF CallInv

LEMMA FinishesKeeps ==
    ASSUME Typed, CallInv, NEW c \in Callback, Finishes(c)
    PROVE  CallInv'
<1>1. /\ call[c] = "write" /\ call'[c] = "wrote"
      /\ \A y \in Item, st \in Stamps :
            On(y, st) \in Callback /\ On(y, st) # c => call'[On(y, st)] = call[On(y, st)]
  BY CallOf DEF Finishes
<1>2. /\ down' = down /\ ignored' = ignored
      /\ Active' = IF c.at = "start" THEN Active ELSE Active \ {c.of}
  BY DEF Finishes
<1>3. Calm'
  BY <1>1 DEF CallInv, Calm, Finishes
<1>4. \A y \in Item : On(y, "end") \in Callback
  BY InCallback
<1>5. Unheard'
  <2>1. ~down => \A d \in ignored : d \in Callback /\ d.at = "again"
    BY DEF CallInv, Unheard, Typed, TypeOK
  <2>2. ~down => \A d \in ignored : d.of \in Item
    BY <2>1, CallbackIs, AgentsAssumption
  <2> QED BY <1>1, <1>2, <1>4, <2>2 DEF CallInv, Unheard, Stamps
<1>6. ASSUME NEW y \in Item PROVE EndsAfterStart(y)'
  <2>1. \A st \in Stamps : On(y, st) \in Callback
           => /\ call'[On(y, st)] = "none" <=> call[On(y, st)] = "none"
              /\ call[On(y, st)] = "wrote" => call'[On(y, st)] = "wrote"
              /\ call'[On(y, st)] = "wrote" /\ call[On(y, st)] # "wrote" => c = On(y, st)
    BY <1>1
  <2>2. c = On(y, "end") => y \notin Active'
    BY <1>2, OnIs
  <2>3. y \in Active /\ y \notin Active'
        => c = On(y, "end") \/ (y \in Repeated /\ c = On(y, "again"))
    BY <1>2, CallbackIs, AgentsAssumption
  <2>4. y \in Active' => y \in Active
    BY <1>2
  <2> QED
    BY <1>1, <1>2, <2>1, <2>2, <2>3, <2>4, InCallback
    DEF CallInv, EndsAfterStart, Delivered, Writer!Free, Stamps
<1> QED BY <1>3, <1>5, <1>6 DEF CallInv

LEMMA OthersKeep ==
    ASSUME Typed, CallInv, Others
    PROVE  CallInv'
<1>1. \A y \in Item, st \in Stamps :
         On(y, st) \in Callback => call'[On(y, st)] = call[On(y, st)]
  BY OnIs, AgentsAssumption DEF Others
<1>2. ignored' = ignored /\ (down => down')
      /\ (Active' = Active \/ (down' /\ Active' = {}))
  BY DEF Others
<1>3. Calm'
  BY <1>1 DEF CallInv, Calm, Others
<1>4. Unheard'
  <2>1. ~down => \A d \in ignored : d \in Callback /\ d.at = "again"
    BY DEF CallInv, Unheard, Typed, TypeOK
  <2>2. ~down => \A d \in ignored : d.of \in Item
    BY <2>1, CallbackIs, AgentsAssumption
  <2> QED BY <1>1, <1>2, <2>2, InCallback DEF CallInv, Unheard, Stamps
<1>5. ASSUME NEW y \in Item PROVE EndsAfterStart(y)'
  BY <1>1, <1>2, InCallback DEF CallInv, EndsAfterStart, Delivered, Writer!Free, Stamps
<1> QED BY <1>3, <1>4, <1>5 DEF CallInv

LEMMA CallStep ==
    ASSUME Typed, CallInv, [Next]_vars
    PROVE  CallInv'
BY Kinds, BeginsKeeps, SkipsKeeps, FinishesKeeps, OthersKeep DEF CallInv

\* Before shutdown() the processor loses no callback: what it ignores is the second
\* delivery of an end whose first one was written.
THEOREM NothingLost == Spec => []NothingIgnored
<1>1. Init => Typed /\ CallInv
  BY TypeInit, CallInit
<1>2. Typed /\ CallInv /\ [Next]_vars => (Typed /\ CallInv)'
  BY TypeStep, CallStep
<1>3. CallInv => NothingIgnored
  <2>1. CallInv /\ down => Closing
    BY ClosingIs, InCallback DEF CallInv, Calm, ShutdownCall
  <2> QED BY <2>1 DEF CallInv, Unheard, NothingIgnored
<1> QED BY <1>1, <1>2, <1>3, PTL DEF Spec

\* A second row for the end of a span or a trace is written only while the first one is
\* in flight.
THEOREM OneEndRow == Spec => EndsOnce
<1> DEFINE Once == \A x \in Repeated :
              Writer!Free(On(x, "again")) /\ ~Writer!Free(On(x, "again"))'
              => InFlight(x, "end")
<1>1. Init => Typed /\ CallInv
  BY TypeInit, CallInit
<1>2. Typed /\ CallInv /\ [Next]_vars => (Typed /\ CallInv)'
  BY TypeStep, CallStep
<1>3. Typed /\ CallInv /\ [Next]_vars => [Once]_vars
  <2> SUFFICES ASSUME Typed, CallInv, [Next]_vars, NEW x \in Repeated,
                      call[On(x, "again")] = "none", call'[On(x, "again")] # "none"
               PROVE  InFlight(x, "end")
    BY DEF Writer!Free
  <2>0. x \in Item /\ On(x, "again") \in Callback
    BY AgentsAssumption, InCallback
  <2>1. Begins(x, "again")
    <3>1. ASSUME NEW y \in Item, NEW at \in Stamps, Begins(y, at) PROVE Begins(x, "again")
      <4>1. On(y, at) \in Callback
        BY <3>1 DEF Begins, MayDeliver
      <4>2. On(y, at) = On(x, "again")
        BY <2>0, <3>1, <4>1, CallOf DEF Begins, Stamps
      <4> QED BY <3>1, <4>2, OnIs
    <3>2. ASSUME NEW y \in Item, NEW at \in Stamps, Skips(y, at) PROVE FALSE
      BY <3>2 DEF Skips
    <3>3. ASSUME NEW c \in Callback, Finishes(c) PROVE FALSE
      BY <2>0, <3>3, CallOf DEF Finishes, Stamps
    <3>4. ASSUME Others PROVE FALSE
      BY <2>0, <3>4, OnIs, AgentsAssumption DEF Others
    <3> QED BY <3>1, <3>2, <3>3, <3>4, Kinds DEF CallInv
  <2>2. ~down /\ x \in Active /\ Delivered(x, "end")
    BY <2>1 DEF Begins, MayDeliver
  <2>3. call[On(x, "end")] # "none" /\ call[On(x, "end")] # "wrote"
    BY <2>0, <2>2 DEF CallInv, EndsAfterStart, Delivered, Writer!Free
  <2> QED BY <2>0, <2>2, <2>3, InCallback DEF CallInv, Calm, InFlight, Stamps
<1> QED BY <1>1, <1>2, <1>3, PTL DEF Spec, EndsOnce

-----------------------------------------------------------------------------
(* The children's files *)

\* Whether the parent in a row is right is told from the callbacks that were sent.
UnderIn(q, s, u) ==
    \/ u = IF Parent[s] # None THEN Parent[s] ELSE TraceOf[s]
    \/ /\ u = None /\ Parent[s] = None
       /\ \E e, b \in DOMAIN q : q[e] = On(TraceOf[s], "end") /\ q[b] = On(s, "start") /\ e < b
RowIn(q, c, u) == IF c.of \in Trace THEN u = None ELSE UnderIn(q, c.of, u)
RowsRight == \A i \in DOMAIN sent : RowIn(sent, sent[i], parentOf[sent[i]])
\* Until shutdown() is called, what was called is in the list of what was sent, and an open
\* span has the parent its rows are to carry.
SentKept == \A x \in Item, at \in Stamps :
    On(x, at) \in Callback /\ call[On(x, at)] # "none"
    => \E i \in DOMAIN sent : sent[i] = On(x, at)
UnderKept == \A s \in activeSpans : UnderIn(sent, s, under[s])
ParentInv == RowsRight /\ (~Closing => SentKept /\ UnderKept)

LEMMA SentGrows ==
    ASSUME Typed, NEW c \in Callback, NEW q, q = Append(sent, c)
    PROVE  /\ Len(sent) + 1 \in Nat /\ DOMAIN q = DOMAIN sent \cup {Len(sent) + 1}
           /\ \A i \in DOMAIN sent : q[i] = sent[i] /\ i < Len(sent) + 1
           /\ q[Len(sent) + 1] = c
<1>1. sent \in Seq(Callback)
  BY DEF Typed, Composite!CompositeType
<1> QED BY <1>1

\* a parent that is right stays so when more callbacks are sent
LEMMA UnderGrows ==
    ASSUME Typed, NEW c \in Callback, NEW q, q = Append(sent, c),
           NEW s, NEW u, UnderIn(sent, s, u)
    PROVE  UnderIn(q, s, u)
<1>1. \A i \in DOMAIN sent : i \in DOMAIN q /\ q[i] = sent[i]
  BY SentGrows
<1> QED BY <1>1 DEF UnderIn

\* The trace of a span that starts is active, or a row of its end was sent.
LEMMA StartUnder ==
    ASSUME Typed, CallInv, ParentInv, NEW s \in Span, Begins(s, "start"), ~Closing
    PROVE  UnderIn(sent', s, RowParent(s, "start"))
<1> DEFINE t == TraceOf[s]
           u == RowParent(s, "start")
           last == Len(sent) + 1
<1>1. t \in Trace /\ t \in Item /\ s \notin Trace /\ Parent[s] \in Span \cup {None}
  BY AgentsAssumption DEF Item
<1>2. u = ParentEvent(s)
  BY <1>1 DEF RowParent
<1>3. CASE Parent[s] # None \/ t \in activeTraces
  BY <1>2, <1>3 DEF ParentEvent, UnderIn
<1>4. CASE Parent[s] = None /\ t \notin activeTraces
  <2>1. t \notin Active /\ ~down
    BY <1>1, <1>4, AgentsAssumption DEF Active, Typed, TypeOK, Begins
  <2>2. Delivered(t, "start") /\ On(s, "start") \in Callback
    BY AgentsAssumption DEF Begins, MayDeliver
  <2>3. call[On(t, "start")] # "none"
    BY <2>1, <2>2, OnIs DEF CallInv, Unheard, Delivered, Writer!Free
  <2>4. call[On(t, "end")] # "none"
    BY <1>1, <2>1, <2>3 DEF CallInv, EndsAfterStart
  <2>5. PICK e \in DOMAIN sent : sent[e] = On(t, "end")
    BY <1>1, <2>4, InCallback DEF ParentInv, SentKept, Stamps
  <2>6. sent' = Append(sent, On(s, "start"))
    BY DEF Begins
  <2>7. /\ e \in DOMAIN sent' /\ sent'[e] = On(t, "end")
        /\ last \in DOMAIN sent' /\ sent'[last] = On(s, "start") /\ e < last
    BY <2>2, <2>5, <2>6, SentGrows
  <2>8. u = None
    BY <1>2, <1>4 DEF ParentEvent
  <2> QED BY <1>4, <2>7, <2>8 DEF UnderIn
<1> QED BY <1>3, <1>4

\* The row of a callback that is delivered before shutdown() has the right parent.
LEMMA RowAsDelivered ==
    ASSUME Typed, CallInv, ParentInv, ~Closing,
           NEW x \in Item, NEW at \in Stamps, Begins(x, at)
    PROVE  RowIn(sent', On(x, at), RowParent(x, at))
<1>1. On(x, at) \in Callback /\ sent' = Append(sent, On(x, at)) /\ On(x, at).of = x
  BY OnIs DEF Begins, MayDeliver
<1>2. CASE x \in Trace
  BY <1>1, <1>2 DEF RowIn, RowParent
<1>3. CASE x \in Span
  <2>1. x \notin Trace
    BY <1>3, AgentsAssumption
  <2>2. UnderIn(sent', x, RowParent(x, at))
    <3>1. CASE at = "start"
      BY <1>3, <3>1, StartUnder
    <3>2. CASE at # "start"
      <4>1. x \in activeSpans
        BY <2>1, <3>2 DEF Begins, Active, Typed, TypeOK
      <4>2. RowParent(x, at) = under[x]
        BY <2>1, <3>2 DEF RowParent
      <4>3. UnderIn(sent, x, under[x])
        BY <4>1 DEF ParentInv, UnderKept
      <4> QED BY <1>1, <4>2, <4>3, UnderGrows
    <3> QED BY <3>1, <3>2
  <2> QED BY <1>1, <2>1, <2>2 DEF RowIn
<1> QED BY <1>2, <1>3 DEF Item

LEMMA ParentInit == Init => ParentInv
<1> SUFFICES ASSUME Init PROVE ParentInv
  OBVIOUS
<1>1. (\A c \in Callback : call[c] = "none") /\ sent = <<>> /\ activeSpans = {}
  BY WriterInit DEF Init, Composite!CompositeInit
<1> QED BY <1>1 DEF ParentInv, RowsRight, SentKept, UnderKept

LEMMA ParentBegins ==
    ASSUME Typed, Typed', CallInv, Composite!CallsInv, ParentInv, Closing => Closing',
           NEW x \in Item, NEW at \in Stamps, Begins(x, at)
    PROVE  ParentInv'
<1>1. On(x, at) \in Callback /\ ~down /\ call[On(x, at)] = "none"
  BY DEF Begins, MayDeliver
<1>2. \A i \in DOMAIN sent : /\ sent[i] \in Callback /\ sent[i] # On(x, at)
                             /\ parentOf'[sent[i]] = parentOf[sent[i]]
  <2>1. \A i \in DOMAIN sent : sent[i] \in Callback /\ sent[i] # On(x, at)
    <3>1. sent \in Seq(Callback)
      BY DEF Typed, Composite!CompositeType
    <3>2. \A i \in DOMAIN sent : call[sent[i]] \in {"write", "wrote"}
      BY DEF Composite!CallsInv, Composite!SentOnce
    <3> QED BY <1>1, <3>1, <3>2
  <2> QED BY <2>1 DEF Begins, Typed, TypeOK
<1>3. CASE Closing
  <2>1. sent' = sent
    BY <1>3 DEF Begins
  <2>2. RowsRight'
    BY <1>2, <2>1 DEF ParentInv, RowsRight
  <2> QED BY <1>3, <2>2 DEF ParentInv
<1>4. CASE ~Closing
  <2> DEFINE last == Len(sent) + 1
  <2>1. sent' = Append(sent, On(x, at))
    BY <1>4 DEF Begins
  <2>2. /\ DOMAIN sent' = DOMAIN sent \cup {last} /\ sent'[last] = On(x, at)
        /\ \A i \in DOMAIN sent : sent'[i] = sent[i]
    BY <1>1, <2>1, SentGrows
  <2> HIDE DEF last
  <2>3. RowsRight'
    <3> SUFFICES ASSUME NEW i \in DOMAIN sent' PROVE RowIn(sent', sent'[i], parentOf'[sent'[i]])
      BY DEF RowsRight
    <3>1. CASE i = last
      <4>1. parentOf'[On(x, at)] = RowParent(x, at)
        BY <1>1 DEF Begins, Typed, TypeOK
      <4> QED BY <1>4, <2>2, <3>1, <4>1, RowAsDelivered
    <3>2. CASE i # last
      <4>1. i \in DOMAIN sent /\ sent'[i] = sent[i] /\ parentOf'[sent[i]] = parentOf[sent[i]]
        BY <1>2, <2>2, <3>2
      <4>2. RowIn(sent, sent[i], parentOf[sent[i]])
        BY <4>1 DEF ParentInv, RowsRight
      <4> QED BY <1>1, <2>1, <4>1, <4>2, UnderGrows DEF RowIn
    <3> QED BY <3>1, <3>2
  <2>4. SentKept'
    <3> SUFFICES ASSUME NEW y \in Item, NEW st \in Stamps, On(y, st) \in Callback,
                        call'[On(y, st)] # "none"
                 PROVE  \E i \in DOMAIN sent' : sent'[i] = On(y, st)
      BY DEF SentKept
    <3>1. CASE On(y, st) = On(x, at)
      BY <2>2, <3>1
    <3>2. CASE On(y, st) # On(x, at)
      <4>1. call[On(y, st)] # "none"
        BY <1>1, <3>2, CallOf DEF Begins
      <4>2. \E i \in DOMAIN sent : sent[i] = On(y, st)
        BY <1>4, <4>1 DEF ParentInv, SentKept
      <4> QED BY <2>2, <4>2
    <3> QED BY <3>1, <3>2
  <2>5. UnderKept'
    <3> SUFFICES ASSUME NEW s \in activeSpans' PROVE UnderIn(sent', s, under'[s])
      BY DEF UnderKept
    <3>1. s \in Span /\ s \notin Trace /\ s \in Active'
      BY AgentsAssumption DEF Typed, TypeOK, Active
    <3>2. CASE s = x /\ at = "start"
      <4>1. under'[s] = RowParent(s, "start")
        BY <3>1, <3>2 DEF Begins, Typed, TypeOK
      <4> QED BY <1>4, <3>1, <3>2, <4>1, StartUnder
    <3>3. CASE ~(s = x /\ at = "start")
      <4>1. under'[s] = under[s] /\ s \in Active
        BY <3>1, <3>3 DEF Begins, Typed, TypeOK
      <4>2. s \in activeSpans
        BY <3>1, <4>1 DEF Active, Typed, TypeOK
      <4>3. UnderIn(sent, s, under[s])
        BY <1>4, <4>2 DEF ParentInv, UnderKept
      <4> QED BY <1>1, <2>1, <4>1, <4>3, UnderGrows
    <3> QED BY <3>2, <3>3
  <2> QED BY <2>3, <2>4, <2>5 DEF ParentInv
<1> QED BY <1>3, <1>4

\* The steps that send nothing change no parent.
LEMMA ParentRests ==
    ASSUME Typed, Typed', ParentInv, UNCHANGED <<sent, parentOf, under>>,
           Active' \subseteq Active, Closing => Closing',
           \A y \in Item, st \in Stamps :
               On(y, st) \in Callback /\ call[On(y, st)] = "none"
               => call'[On(y, st)] = "none"
    PROVE  ParentInv'
<1>1. RowsRight'
  BY DEF ParentInv, RowsRight
<1>2. SentKept => SentKept'
  BY DEF SentKept
<1>3. activeSpans' \subseteq activeSpans
  BY AgentsAssumption DEF Active, Typed, TypeOK
<1>4. UnderKept => UnderKept'
  BY <1>3 DEF UnderKept
<1> QED BY <1>1, <1>2, <1>4 DEF ParentInv

LEMMA ParentStep ==
    ASSUME Typed, CallInv, Composite!CallsInv, ParentInv, [Next]_vars
    PROVE  ParentInv'
<1>1. Typed'
  BY TypeStep
<1>2. Closing => Closing'
  <2>1. Closing <=> Composite!CloseWasCalled
    BY DEF Closing, Writer!CloseWasCalled, Writer!Made, Composite!CloseWasCalled,
       Composite!Made
  <2>2. Closing' <=> Composite!CloseWasCalled'
    BY DEF Closing, Writer!CloseWasCalled, Writer!Made, Composite!CloseWasCalled,
       Composite!Made
  <2> QED BY <2>1, <2>2, WriterSteps, Composite!CloseStays DEF Typed
<1>3. ASSUME NEW x \in Item, NEW at \in Stamps, Begins(x, at) PROVE ParentInv'
  BY <1>1, <1>2, <1>3, ParentBegins
<1>4. ASSUME NEW x \in Item, NEW at \in Stamps, Skips(x, at) PROVE ParentInv'
  BY <1>1, <1>2, <1>4, ParentRests DEF Skips
<1>5. ASSUME NEW c \in Callback, Finishes(c) PROVE ParentInv'
  <2>1. \A y \in Item, st \in Stamps :
           On(y, st) \in Callback /\ call[On(y, st)] = "none" => call'[On(y, st)] = "none"
    BY <1>5, CallOf DEF Finishes
  <2> QED BY <1>1, <1>2, <1>5, <2>1, ParentRests DEF Finishes
<1>6. ASSUME Others PROVE ParentInv'
  <2>1. \A y \in Item, st \in Stamps :
           On(y, st) \in Callback /\ call[On(y, st)] = "none" => call'[On(y, st)] = "none"
    BY <1>6, OnIs, AgentsAssumption DEF Others
  <2> QED BY <1>1, <1>2, <1>6, <2>1, ParentRests DEF Others
<1> QED BY <1>3, <1>4, <1>5, <1>6, Kinds DEF CallInv

LEMMA FilesRight ==
    ASSUME Composite!CallsInv, ParentInv, Typed
    PROVE  FilesAsDelivered
<1>1. Writer!FilesAsCalled
  BY Composite!KeptIsAsCalled
  DEF Composite!CallsInv, Composite!FilesAsCalled, Writer!FilesAsCalled,
      Composite!Place, Writer!Place, Composite!Answered, Writer!Answered
<1>2. ASSUME NEW k \in Child, NEW i \in DOMAIN file[k], NEW c, c = file[k][i]
      PROVE  IF c.of \in Trace THEN parentOf[c] = None ELSE ParentRight(c.of, parentOf[c])
  <2>1. c \in Callback
    BY <1>2 DEF Typed, Composite!CompositeType
  <2>2. PICK a \in DOMAIN sent : sent[a] = c
    BY <1>2, <2>1 DEF Composite!CallsInv, Composite!Kept
  <2>3. RowIn(sent, c, parentOf[c])
    BY <2>2 DEF ParentInv, RowsRight
  <2> QED BY <2>3 DEF RowIn, UnderIn, ParentRight, Writer!Place
<1> QED BY <1>1, <1>2 DEF FilesAsDelivered

\* Each child's file holds the rows of exactly the callbacks that were delivered before
\* shutdown(), that it has answered and did not lose itself, each once, in the order of
\* delivery and under the right parent, for any number of children and any failures.
THEOREM FilesInOrder == Spec => []FilesAsDelivered
<1> DEFINE Inv == Typed /\ CallInv /\ Composite!CallsInv /\ ParentInv
<1>1. Init => Inv
  BY TypeInit, CallInit, ParentInit, WriterInit, Composite!FilesInit
<1>2. Inv /\ [Next]_vars => Inv'
  BY TypeStep, CallStep, ParentStep, WriterSteps, Composite!FilesStep DEF Typed
<1>3. Inv => FilesAsDelivered
  BY FilesRight
<1> QED BY <1>1, <1>2, <1>3, PTL DEF Spec
=============================================================================
