----------------------- MODULE CompositeWriterProofs -----------------------
(***************************************************************************)
(* For any finite number of children and callers: the statistics of a      *)
(* composite writer account for every row, refusal and failure, and each   *)
(* child holds, in order, the rows called before close() that it did not   *)
(* lose itself.                                                            *)
(***************************************************************************)
EXTENDS CompositeWriter, FiniteSetTheorems, TLAPS

Stages == {"none", "write", "flush", "close", "refused", "wrote", "flushed", "closed"}

CompositeType ==
    /\ call \in [Caller -> Stages] /\ accepted \subseteq Caller
    /\ waiting \in [Child -> Seq(Caller)] /\ file \in [Child -> Seq(Caller)]
    /\ shut \subseteq Child /\ closed \in BOOLEAN
    /\ written \in Nat /\ dropped \in Nat
    /\ sent \in Seq(Caller) /\ lost \subseteq Child \X Caller /\ throws \in Nat

CompositeNext == ChildAnswers \/ Returns \/ Calls

LEMMA TypeInit == CompositeInit => CompositeType
<1> SUFFICES ASSUME CompositeInit PROVE CompositeType
  OBVIOUS
<1>1. call \in [Caller -> Stages]
  BY DEF CompositeInit, Stages
<1>2. waiting \in [Child -> Seq(Caller)] /\ file \in [Child -> Seq(Caller)]
  BY DEF CompositeInit
<1>3. sent \in Seq(Caller)
  BY DEF CompositeInit
<1>4. closed \in BOOLEAN
  BY DEF CompositeInit
<1> QED BY <1>1, <1>2, <1>3, <1>4 DEF CompositeInit, CompositeType

LEMMA CallAllType ==
    ASSUME CompositeType, NEW c \in Caller, NEW op \in Stages, CallAll(c, op)
    PROVE  call' \in [Caller -> Stages] /\ waiting' \in [Child -> Seq(Caller)]
<1>1. \A k \in Child : Append(waiting[k], c) \in Seq(Caller)
  BY DEF CompositeType
<1> QED BY <1>1 DEF CallAll, CompositeType

LEMMA AnswersType ==
    ASSUME CompositeType, NEW k \in Child, Answers(k)
    PROVE  /\ Head(waiting[k]) \in Caller
           /\ waiting' \in [Child -> Seq(Caller)] /\ shut' \subseteq Child
<1>1. waiting[k] \in Seq(Caller) /\ waiting[k] # <<>>
  BY DEF CompositeType, Answers
<1>2. Head(waiting[k]) \in Caller /\ Tail(waiting[k]) \in Seq(Caller)
  BY <1>1
<1> QED BY <1>2 DEF Answers, CompositeType

LEMMA TypeStep ==
    ASSUME CompositeType, [CompositeNext]_cvars
    PROVE  CompositeType'
<1> USE DEF CompositeType
<1>1. ASSUME NEW c \in Caller, WriteCalled(c) PROVE CompositeType'
  <2>1. CASE closed
    <3>1. UNCHANGED <<accepted, waiting, file, shut, closed, written, sent, lost, throws>>
      BY <1>1, <2>1 DEF WriteCalled
    <3>2. call' = [call EXCEPT ![c] = "refused"] /\ dropped' = dropped + 1
      BY <1>1, <2>1 DEF WriteCalled
    <3>3. call' \in [Caller -> Stages] /\ dropped' \in Nat
      BY <3>2 DEF Stages
    <3> QED BY <3>1, <3>3
  <2>2. CASE ~closed
    <3>1. CallAll(c, "write") /\ UNCHANGED dropped
      BY <1>1, <2>2 DEF WriteCalled
    <3>2. sent' \in Seq(Caller)
      <4>1. sent' = sent \/ sent' = Append(sent, c)
        BY <1>1, <2>2 DEF WriteCalled
      <4>2. sent \in Seq(Caller) /\ Append(sent, c) \in Seq(Caller)
        OBVIOUS
      <4> QED BY <4>1, <4>2, Zenon
    <3> QED BY <1>1, <3>1, <3>2, CallAllType DEF WriteCalled, Stages
  <2> QED BY <2>1, <2>2
<1>2. ASSUME NEW c \in Caller, FlushCalled(c) PROVE CompositeType'
  BY <1>2, CallAllType DEF FlushCalled, Stages
<1>3. ASSUME NEW c \in Caller, CloseCalled(c) PROVE CompositeType'
  BY <1>3, CallAllType DEF CloseCalled, Stages
<1>4. ASSUME NEW k \in Child, ChildSettles(k) \/ ChildThrows(k) PROVE CompositeType'
  <2>1. Head(waiting[k]) \in Caller /\ waiting' \in [Child -> Seq(Caller)] /\ shut' \subseteq Child
    BY <1>4, AnswersType DEF ChildSettles, ChildThrows
  <2>2. UNCHANGED <<call, closed, written, sent>>
    BY <1>4 DEF ChildSettles, ChildThrows, Answers
  <2> DEFINE w == Head(waiting[k])
  <2>3. \/ UNCHANGED <<file, lost>>
        \/ file' = [file EXCEPT ![k] = Append(@, w)] /\ lost' = lost
        \/ lost' = lost \cup {<<k, w>>} /\ file' = file
    BY <1>4 DEF ChildSettles, ChildThrows, Stores, Loses
  <2>4. Append(file[k], w) \in Seq(Caller)
    BY <2>1
  <2>5. file' \in [Child -> Seq(Caller)] /\ lost' \subseteq Child \X Caller
    <3>1. file' \in [Child -> Seq(Caller)]
      BY <2>3, <2>4
    <3>2. lost' \subseteq Child \X Caller
      BY <2>1, <2>3
    <3> QED BY <3>1, <3>2
  <2>6. accepted' \subseteq Caller /\ dropped' \in Nat /\ throws' \in Nat
    BY <1>4, <2>1 DEF ChildSettles, ChildThrows
  <2> QED BY <2>1, <2>2, <2>5, <2>6
<1>5. ASSUME NEW c \in Caller, WriteReturns(c) PROVE CompositeType'
  BY <1>5 DEF WriteReturns, Stages
<1>6. ASSUME NEW c \in Caller, FlushReturns(c) \/ CloseReturns(c) PROVE CompositeType'
  BY <1>6 DEF FlushReturns, CloseReturns, Stages
<1>7. CASE UNCHANGED cvars
  BY <1>7 DEF cvars
<1> QED
  BY <1>1, <1>2, <1>3, <1>4, <1>5, <1>6, <1>7
  DEF CompositeNext, ChildAnswers, Returns, Calls

Counted == Cardinality(Taken) \in Nat /\ Cardinality(Missed) \in Nat
           /\ Cardinality(Refused) \in Nat

LEMMA Finite ==
    ASSUME CompositeAssumption
    PROVE  /\ IsFiniteSet(Taken) /\ IsFiniteSet(Missed) /\ IsFiniteSet(Refused)
           /\ Counted
<1>1. IsFiniteSet(Taken) /\ IsFiniteSet(Missed) /\ IsFiniteSet(Refused)
  BY FS_Subset DEF CompositeAssumption, Taken, Missed, Refused, Made
<1> QED BY <1>1, FS_CardinalityType DEF Counted

LEMMA StatsInit == CompositeInit => StatsAccount
<1> SUFFICES ASSUME CompositeInit PROVE StatsAccount
  OBVIOUS
<1>1. Taken = {} /\ Missed = {} /\ Refused = {}
  BY DEF CompositeInit, Made, Taken, Missed, Refused
<1>2. Cardinality({}) = 0
  BY FS_EmptySet
<1> QED BY <1>1, <1>2 DEF CompositeInit, StatsAccount

\* A child that answers changes whose row was taken, but of no call that has returned.
LEMMA AnswersKeepStats ==
    ASSUME CompositeType, CompositeAssumption, StatsAccount,
           NEW k \in Child, ChildSettles(k) \/ ChildThrows(k)
    PROVE  StatsAccount'
<1>1. call' = call /\ written' = written
  BY DEF ChildSettles, ChildThrows, Answers
<1>2. accepted' = accepted \/ \E c : call[c] = "write" /\ accepted' = accepted \cup {c}
  BY DEF ChildSettles, ChildThrows
<1>3. Taken' = Taken /\ Missed' = Missed /\ Refused' = Refused
  BY <1>1, <1>2 DEF Made, Taken, Missed, Refused
<1>4. \/ dropped' = dropped /\ throws' = throws
      \/ dropped' = dropped + 1 /\ throws' = throws + 1
  BY DEF ChildSettles, ChildThrows
<1>5. Counted
  BY Finite
<1>6. dropped' = Cardinality(Refused) + throws' + Cardinality(Missed)
  <2>1. CASE dropped' = dropped /\ throws' = throws
    BY <2>1 DEF StatsAccount
  <2>2. CASE dropped' = dropped + 1 /\ throws' = throws + 1
    BY <1>5, <2>2 DEF StatsAccount, CompositeType, Counted
  <2> QED BY <1>4, <2>1, <2>2
<1> QED BY <1>1, <1>3, <1>6 DEF StatsAccount

LEMMA ReturnsKeepStats ==
    ASSUME CompositeType, CompositeAssumption, StatsAccount,
           NEW c \in Caller, WriteReturns(c)
    PROVE  StatsAccount'
<1>1. c \notin Taken /\ c \notin Missed /\ Refused' = Refused /\ throws' = throws
  BY DEF WriteReturns, Made, Taken, Missed, Refused, CompositeType
<1>2. CASE c \in accepted
  <2>1. Taken' = Taken \cup {c} /\ Missed' = Missed
    BY <1>2 DEF WriteReturns, Made, Taken, Missed, CompositeType
  <2>2. Cardinality(Taken') = Cardinality(Taken) + 1
    BY <1>1, <2>1, Finite, FS_AddElement
  <2> QED BY <1>1, <1>2, <2>1, <2>2 DEF WriteReturns, StatsAccount
<1>3. CASE c \notin accepted
  <2>1. Missed' = Missed \cup {c} /\ Taken' = Taken
    BY <1>3 DEF WriteReturns, Made, Taken, Missed, CompositeType
  <2>2. Cardinality(Missed') = Cardinality(Missed) + 1
    BY <1>1, <2>1, Finite, FS_AddElement
  <2>3. dropped' = dropped + 1 /\ written' = written
    BY <1>3 DEF WriteReturns
  <2> QED
    BY <1>1, <2>1, <2>2, <2>3, Finite DEF StatsAccount, CompositeType, Counted
<1> QED BY <1>2, <1>3

LEMMA CallsKeepStats ==
    ASSUME CompositeType, CompositeAssumption, StatsAccount, NEW c \in Caller,
           \/ WriteCalled(c)
           \/ FlushCalled(c) \/ CloseCalled(c) \/ FlushReturns(c) \/ CloseReturns(c)
    PROVE  StatsAccount'
<1> USE DEF WriteCalled, FlushCalled, CloseCalled, FlushReturns, CloseReturns, CallAll, Free
<1>1. Taken' = Taken /\ Missed' = Missed /\ throws' = throws /\ written' = written
  BY DEF Made, Taken, Missed, CompositeType
<1>2. CASE dropped' = dropped
  <2>1. Refused' = Refused
    BY <1>2 DEF Made, Refused, CompositeType
  <2> QED BY <1>1, <1>2, <2>1 DEF StatsAccount
<1>3. CASE dropped' # dropped
  <2>1. dropped' = dropped + 1 /\ c \notin Refused /\ Refused' = Refused \cup {c}
    BY <1>3 DEF Made, Refused, CompositeType
  <2>2. Cardinality(Refused') = Cardinality(Refused) + 1
    BY <2>1, Finite, FS_AddElement
  <2> QED
    BY <1>1, <2>1, <2>2, Finite DEF StatsAccount, CompositeType, Counted
<1> QED BY <1>2, <1>3

LEMMA StatsStep ==
    ASSUME CompositeType, CompositeAssumption, StatsAccount, [CompositeNext]_cvars
    PROVE  StatsAccount'
<1>1. CASE UNCHANGED cvars
  BY <1>1 DEF cvars, StatsAccount, Made, Taken, Missed, Refused
<1> QED
  BY <1>1, AnswersKeepStats, ReturnsKeepStats, CallsKeepStats
  DEF CompositeNext, ChildAnswers, Returns, Calls

\* The statistics of a composite writer are exact, for any callers and any
\* children that fail as they like.
THEOREM StatsExact == ASSUME CompositeAssumption PROVE CompositeSpec => []StatsAccount
<1>1. CompositeInit => CompositeType /\ StatsAccount
  BY TypeInit, StatsInit
<1>2. CompositeType /\ StatsAccount /\ [ChildAnswers \/ Returns \/ Calls]_cvars
        => (CompositeType /\ StatsAccount)'
  BY TypeStep, StatsStep DEF CompositeNext
<1> QED BY <1>1, <1>2, PTL DEF CompositeSpec

-----------------------------------------------------------------------------
(* What the children hold *)

\* A caller waits once at a child, and only while its call is under way.
Queued == \A k \in Child : \A i \in DOMAIN waiting[k] :
    /\ call[waiting[k][i]] \in {"write", "flush", "close"}
    /\ \A j \in DOMAIN waiting[k] : i # j => waiting[k][i] # waiting[k][j]
SentOnce ==
    /\ \A i \in DOMAIN sent : call[sent[i]] \in {"write", "wrote"}
    /\ \A i, j \in DOMAIN sent : i # j => sent[i] # sent[j]
LostOnes == \A k \in Child, c \in Caller : <<k, c>> \in lost =>
    /\ \A i \in DOMAIN waiting[k] : waiting[k][i] # c
    /\ call[c] \in {"write", "wrote"}
\* What waits at a child was sent after what the child holds, and stands in order.
InOrder == \A k \in Child : \A j \in DOMAIN waiting[k] : \A b \in DOMAIN sent :
    sent[b] = waiting[k][j] =>
    /\ \A i \in DOMAIN file[k], a \in DOMAIN sent : sent[a] = file[k][i] => a < b
    /\ \A i \in DOMAIN waiting[k], a \in DOMAIN sent :
          i < j /\ sent[a] = waiting[k][i] => a < b
\* A row waits before the close() of its child if and only if it was sent before close().
Cut == \A k \in Child : \A j \in DOMAIN waiting[k] :
    call[waiting[k][j]] = "write" =>
    ((\E b \in DOMAIN sent : sent[b] = waiting[k][j])
     <=> /\ k \notin shut
         /\ \A i \in DOMAIN waiting[k] : i < j => call[waiting[k][i]] # "close")
Closes ==
    /\ ~CloseWasCalled => shut = {}
    /\ closed => CloseWasCalled
    /\ CloseWasCalled => \A k \in Child :
          k \in shut \/ \E i \in DOMAIN waiting[k] : call[waiting[k][i]] = "close"
Kept ==
    /\ \A k \in Child : \A i, j \in DOMAIN file[k] : \A a, b \in DOMAIN sent :
          i < j /\ sent[a] = file[k][i] /\ sent[b] = file[k][j] => a < b
    /\ \A k \in Child, c \in Caller :
          (\E i \in DOMAIN file[k] : file[k][i] = c)
            <=> /\ \E a \in DOMAIN sent : sent[a] = c
                /\ \A i \in DOMAIN waiting[k] : waiting[k][i] # c
                /\ <<k, c>> \notin lost
CallsInv == Queued /\ SentOnce /\ LostOnes /\ InOrder /\ Cut /\ Closes /\ Kept

LEMMA KeptIsAsCalled == Kept => FilesAsCalled
<1> SUFFICES ASSUME Kept, NEW k \in Child
             PROVE  /\ \A i, j \in DOMAIN file[k] : i < j =>
                          \A a \in Place(file[k][i]), b \in Place(file[k][j]) : a < b
                    /\ \A c \in Caller :
                          (\E i \in DOMAIN file[k] : file[k][i] = c)
                            <=> Place(c) # {} /\ Answered(k, c) /\ <<k, c>> \notin lost
  BY DEF FilesAsCalled
<1>1. \A c : Place(c) # {} <=> \E a \in DOMAIN sent : sent[a] = c
  BY DEF Place
<1> QED BY <1>1 DEF Kept, Place, Answered

LEMMA AppendIs ==
    ASSUME NEW S, NEW s \in Seq(S), NEW e \in S
    PROVE  /\ Append(s, e) \in Seq(S) /\ Len(s) \in Nat /\ DOMAIN s = 1 .. Len(s)
           /\ DOMAIN Append(s, e) = DOMAIN s \cup {Len(s) + 1}
           /\ \A i \in DOMAIN s : Append(s, e)[i] = s[i] /\ i \in Nat /\ i < Len(s) + 1
           /\ Append(s, e)[Len(s) + 1] = e
OBVIOUS

LEMMA TailIs ==
    ASSUME NEW S, NEW s \in Seq(S), s # <<>>
    PROVE  /\ 1 \in DOMAIN s /\ Head(s) = s[1] /\ Head(s) \in S
           /\ Tail(s) \in Seq(S) /\ DOMAIN s \subseteq Nat /\ DOMAIN Tail(s) \subseteq Nat
           /\ \A i \in DOMAIN Tail(s) : 1 < i + 1 /\ i + 1 \in DOMAIN s /\ Tail(s)[i] = s[i + 1]
           /\ \A i \in DOMAIN s :
                 i # 1 => 1 < i /\ i - 1 \in DOMAIN Tail(s) /\ Tail(s)[i - 1] = s[i]
OBVIOUS

\* Nothing is known yet of a caller that has made no call.
LEMMA FreshCaller ==
    ASSUME CompositeType, CallsInv, NEW c \in Caller, call[c] = "none"
    PROVE  /\ \A k \in Child : /\ \A i \in DOMAIN waiting[k] : waiting[k][i] # c
                               /\ \A i \in DOMAIN file[k] : file[k][i] # c
                               /\ <<k, c>> \notin lost
           /\ \A a \in DOMAIN sent : sent[a] # c
BY DEF CallsInv, Queued, SentOnce, LostOnes, Kept

LEMMA CloseWasCalledIs == CloseWasCalled <=> \E c \in Caller : call[c] \in {"close", "closed"}
BY DEF CloseWasCalled, Made

\* A close() stays called.
LEMMA CloseStays ==
    ASSUME CompositeType, [CompositeNext]_cvars, CloseWasCalled
    PROVE  CloseWasCalled'
<1>1. PICK d \in Caller : call[d] \in {"close", "closed"}
  BY CloseWasCalledIs
<1>2. call'[d] \in {"close", "closed"}
  BY <1>1 DEF CompositeType, CompositeNext, ChildAnswers, Returns, Calls, ChildSettles,
     ChildThrows, Answers, WriteReturns, FlushReturns, CloseReturns, WriteCalled,
     FlushCalled, CloseCalled, CallAll, Free, cvars
<1> QED BY <1>2 DEF CloseWasCalled, Made

\* A call that waits nowhere may go on: the children do not care.
LEMMA CallMoves ==
    ASSUME CompositeType, CallsInv, NEW c \in Caller, NEW v \in Stages,
           call' = [call EXCEPT ![c] = v],
           UNCHANGED <<waiting, file, shut, sent, lost>>,
           \A k \in Child : Answered(k, c),
           \/ v = "wrote"
           \/ /\ \A a \in DOMAIN sent : sent[a] # c
              /\ \A k \in Child : <<k, c>> \notin lost,
           CloseWasCalled' <=> CloseWasCalled, closed' => CloseWasCalled
    PROVE  CallsInv'
<1>1. call'[c] = v /\ \A d \in Caller : d # c => call'[d] = call[d]
  BY DEF CompositeType
<1>2. \A k \in Child : \A i \in DOMAIN waiting[k] :
         waiting[k][i] \in Caller /\ call'[waiting[k][i]] = call[waiting[k][i]]
  BY <1>1 DEF CompositeType, Answered
<1>3. Queued'
  BY <1>2 DEF CallsInv, Queued
<1>4. SentOnce'
  <2>1. \A i \in DOMAIN sent : sent[i] \in Caller
    BY DEF CompositeType
  <2> QED BY <1>1, <2>1 DEF CallsInv, SentOnce
<1>5. LostOnes'
  BY <1>1 DEF CallsInv, LostOnes
<1>6. InOrder' /\ Kept'
  BY DEF CallsInv, InOrder, Kept
<1>7. Cut'
  BY <1>2 DEF CallsInv, Cut
<1>8. Closes'
  BY <1>2 DEF CallsInv, Closes
<1> QED BY <1>3, <1>4, <1>5, <1>6, <1>7, <1>8 DEF CallsInv

LEMMA ReturnsKeepFiles ==
    ASSUME CompositeType, CallsInv, NEW c \in Caller,
           WriteReturns(c) \/ FlushReturns(c) \/ CloseReturns(c)
    PROVE  CallsInv'
<1>1. UNCHANGED <<waiting, file, shut, sent, lost>> /\ \A k \in Child : Answered(k, c)
  BY DEF WriteReturns, FlushReturns, CloseReturns, Settled
<1>2. CloseWasCalled' <=> \E d \in Caller : call'[d] \in {"close", "closed"}
  BY DEF CloseWasCalled, Made
<1>3. CASE WriteReturns(c)
  <2>1. call[c] = "write" /\ call' = [call EXCEPT ![c] = "wrote"] /\ closed' = closed
    BY <1>3 DEF WriteReturns
  <2>2. CloseWasCalled' <=> CloseWasCalled
    BY <1>2, <2>1, CloseWasCalledIs DEF CompositeType
  <2> QED BY <1>1, <2>1, <2>2, CallMoves DEF Stages, CallsInv, Closes
<1>4. CASE FlushReturns(c) \/ CloseReturns(c)
  <2>1. \/ call[c] = "flush" /\ call' = [call EXCEPT ![c] = "flushed"] /\ closed' = closed
        \/ call[c] = "close" /\ call' = [call EXCEPT ![c] = "closed"]
    BY <1>4 DEF FlushReturns, CloseReturns
  <2>2. /\ \A a \in DOMAIN sent : sent[a] # c
        /\ \A k \in Child : <<k, c>> \notin lost
    BY <2>1 DEF CallsInv, SentOnce, LostOnes
  <2>3. CloseWasCalled' <=> CloseWasCalled
    BY <1>2, <2>1, CloseWasCalledIs DEF CompositeType
  <2>4. closed' => CloseWasCalled
    BY <2>1, CloseWasCalledIs DEF CallsInv, Closes
  <2>5. \E v \in Stages : call' = [call EXCEPT ![c] = v]
    BY <2>1 DEF Stages
  <2> QED BY <1>1, <2>2, <2>3, <2>4, <2>5, CallMoves
<1> QED BY <1>3, <1>4

\* The calls that a closed writer answers at once
LEMMA LateCallsKeepFiles ==
    ASSUME CompositeType, CallsInv, NEW c \in Caller, closed,
           WriteCalled(c) \/ CloseCalled(c)
    PROVE  CallsInv'
<1>1. /\ UNCHANGED <<waiting, file, shut, sent, lost, closed>>
      /\ call[c] = "none"
      /\ \/ call' = [call EXCEPT ![c] = "refused"]
         \/ call' = [call EXCEPT ![c] = "closed"]
  BY DEF WriteCalled, CloseCalled, Free
<1>2. /\ \A k \in Child : Answered(k, c) /\ <<k, c>> \notin lost
      /\ \A a \in DOMAIN sent : sent[a] # c
  BY <1>1, FreshCaller DEF Answered
<1>3. CloseWasCalled
  BY DEF CallsInv, Closes
<1>4. CloseWasCalled'
  <2>1. PICK d \in Caller : call[d] \in {"close", "closed"}
    BY <1>3, CloseWasCalledIs
  <2>2. call'[d] = call[d]
    BY <1>1, <2>1 DEF CompositeType
  <2> QED BY <2>1, <2>2 DEF CloseWasCalled, Made
<1>5. \E v \in Stages : call' = [call EXCEPT ![c] = v]
  BY <1>1 DEF Stages
<1> QED BY <1>1, <1>2, <1>3, <1>4, <1>5, CallMoves

\* A call that is handed to every child stands behind everything else.
LEMMA JoinsKeepFiles ==
    ASSUME CompositeType, CallsInv, NEW c \in Caller, NEW op \in {"write", "flush", "close"},
           Free(c), CallAll(c, op), UNCHANGED <<file, shut, closed, lost>>,
           sent' = IF op = "write" /\ ~CloseWasCalled THEN Append(sent, c) ELSE sent
    PROVE  CallsInv'
<1> DEFINE Last(k) == Len(waiting[k]) + 1
           next == Len(sent) + 1
           joins == op = "write" /\ ~CloseWasCalled
<1>0. call[c] = "none" /\ file' = file /\ shut' = shut /\ lost' = lost
  BY DEF Free
<1>1. ASSUME NEW k \in Child
      PROVE  /\ Last(k) \in Nat
             /\ DOMAIN waiting'[k] = DOMAIN waiting[k] \cup {Last(k)}
             /\ \A i \in DOMAIN waiting[k] :
                   /\ waiting'[k][i] = waiting[k][i] /\ waiting[k][i] \in Caller
                   /\ i \in Nat /\ i < Last(k)
             /\ waiting'[k][Last(k)] = c
  BY AppendIs DEF CallAll, CompositeType
<1>2. call'[c] = op /\ \A d \in Caller : d # c => call'[d] = call[d]
  BY DEF CallAll, CompositeType
<1>3. /\ \A k \in Child : /\ \A i \in DOMAIN waiting[k] : waiting[k][i] # c
                          /\ \A i \in DOMAIN file[k] : file[k][i] # c
                          /\ <<k, c>> \notin lost
      /\ \A a \in DOMAIN sent : sent[a] # c
  BY <1>0, FreshCaller
<1>4. \A k \in Child : \A i \in DOMAIN waiting[k] : call'[waiting[k][i]] = call[waiting[k][i]]
  BY <1>1, <1>2, <1>3
<1>5. CloseWasCalled' <=> CloseWasCalled \/ op = "close"
  <2>1. CloseWasCalled' <=> \E d \in Caller : call'[d] \in {"close", "closed"}
    BY DEF CloseWasCalled, Made
  <2> QED BY <1>0, <1>2, <2>1, CloseWasCalledIs
<1>6. /\ \A a \in DOMAIN sent : /\ a \in Nat /\ a < next /\ sent[a] \in Caller
                                /\ a \in DOMAIN sent' /\ sent'[a] = sent[a]
      /\ \A a \in DOMAIN sent' : a \in DOMAIN sent \/ (joins /\ a = next)
      /\ joins => next \in DOMAIN sent' /\ sent'[next] = c
      /\ next \in Nat
  <2>1. sent \in Seq(Caller) /\ sent' = IF joins THEN Append(sent, c) ELSE sent
    BY DEF CompositeType
  <2> HIDE DEF joins
  <2>2. CASE joins
    BY <2>1, <2>2, AppendIs
  <2>3. CASE ~joins
    BY <2>1, <2>3
  <2> QED BY <2>2, <2>3
<1> HIDE DEF Last, next, joins
<1>6a. joins <=> op = "write" /\ ~CloseWasCalled
  BY DEF joins
<1>7. Queued'
  <2> SUFFICES ASSUME NEW k \in Child
               PROVE  \A i \in DOMAIN waiting'[k] :
                         /\ call'[waiting'[k][i]] \in {"write", "flush", "close"}
                         /\ \A j \in DOMAIN waiting'[k] :
                               i # j => waiting'[k][i] # waiting'[k][j]
    BY DEF Queued
  <2> DEFINE q == waiting[k]
             r == waiting'[k]
  <2>1. /\ DOMAIN r = DOMAIN q \cup {Last(k)} /\ r[Last(k)] = c
        /\ \A i \in DOMAIN q : r[i] = q[i] /\ q[i] # c /\ call'[q[i]] = call[q[i]]
    BY <1>1, <1>3, <1>4
  <2>2. \A i \in DOMAIN q : /\ call[q[i]] \in {"write", "flush", "close"}
                            /\ \A j \in DOMAIN q : i # j => q[i] # q[j]
    BY DEF CallsInv, Queued
  <2>3. call'[c] \in {"write", "flush", "close"}
    BY <1>2
  <2> HIDE DEF q, r
  <2>4. \A i \in DOMAIN r : /\ call'[r[i]] \in {"write", "flush", "close"}
                            /\ \A j \in DOMAIN r : i # j => r[i] # r[j]
    BY <2>1, <2>2, <2>3
  <2> QED BY <2>4 DEF r
<1>8. SentOnce'
  BY <1>2, <1>3, <1>6 DEF CallsInv, SentOnce
<1>9. LostOnes'
  <2> SUFFICES ASSUME NEW k \in Child, NEW d \in Caller, <<k, d>> \in lost
               PROVE  /\ \A i \in DOMAIN waiting'[k] : waiting'[k][i] # d
                      /\ call'[d] \in {"write", "wrote"}
    BY <1>0 DEF LostOnes
  <2> QED BY <1>1, <1>2, <1>3 DEF CallsInv, LostOnes
<1>10. InOrder'
  <2> SUFFICES ASSUME NEW k \in Child, NEW j \in DOMAIN waiting'[k], NEW b \in DOMAIN sent',
                      sent'[b] = waiting'[k][j]
               PROVE  /\ \A i \in DOMAIN file[k], a \in DOMAIN sent' :
                            sent'[a] = file[k][i] => a < b
                      /\ \A i \in DOMAIN waiting'[k], a \in DOMAIN sent' :
                            i < j /\ sent'[a] = waiting'[k][i] => a < b
    BY <1>0 DEF InOrder
  <2> DEFINE q == waiting[k]
             r == waiting'[k]
             f == file[k]
  <2>1. /\ DOMAIN r = DOMAIN q \cup {Last(k)} /\ r[Last(k)] = c /\ Last(k) \in Nat
        /\ \A i \in DOMAIN q : r[i] = q[i] /\ q[i] # c /\ i \in Nat /\ i < Last(k)
        /\ \A i \in DOMAIN f : f[i] # c
        /\ \A a \in DOMAIN sent : sent[a] # c
    BY <1>1, <1>3
  <2>2. /\ \A i \in DOMAIN q, y \in DOMAIN sent : sent[y] = q[i] =>
              /\ \A x \in DOMAIN f, a \in DOMAIN sent : sent[a] = f[x] => a < y
              /\ \A x \in DOMAIN q, a \in DOMAIN sent : x < i /\ sent[a] = q[x] => a < y
    BY DEF CallsInv, InOrder
  <2>3. j \in DOMAIN r /\ b \in DOMAIN sent' /\ sent'[b] = r[j]
    OBVIOUS
  <2> HIDE DEF q, r, f
  <2>4. CASE j = Last(k)
    <3>1. b = next
      BY <1>6, <2>1, <2>3, <2>4
    <3>2. ASSUME NEW a \in DOMAIN sent', sent'[a] # c PROVE a < b
      BY <1>6, <3>1, <3>2
    <3>3. \A i \in DOMAIN r : i < j => i \in DOMAIN q
      BY <2>1, <2>4
    <3>4. /\ \A i \in DOMAIN f, a \in DOMAIN sent' : sent'[a] = f[i] => a < b
          /\ \A i \in DOMAIN r, a \in DOMAIN sent' : i < j /\ sent'[a] = r[i] => a < b
      BY <2>1, <3>2, <3>3
    <3> QED BY <3>4 DEF r, f
  <2>5. CASE j # Last(k)
    <3>1. j \in DOMAIN q /\ b \in DOMAIN sent /\ sent[b] = q[j]
      BY <1>6, <2>1, <2>3, <2>5
    <3>2. \A i \in DOMAIN r : i < j => i \in DOMAIN q
      BY <2>1, <3>1
    <3>3. ASSUME NEW a \in DOMAIN sent', sent'[a] # c PROVE a \in DOMAIN sent /\ sent[a] = sent'[a]
      BY <1>6, <3>3
    <3>4. ASSUME NEW i \in DOMAIN f, NEW a \in DOMAIN sent', sent'[a] = f[i] PROVE a < b
      BY <2>1, <2>2, <3>1, <3>3, <3>4
    <3>5. ASSUME NEW i \in DOMAIN r, NEW a \in DOMAIN sent', i < j, sent'[a] = r[i] PROVE a < b
      BY <2>1, <2>2, <3>1, <3>2, <3>3, <3>5
    <3> QED BY <3>4, <3>5 DEF r, f
  <2> QED BY <2>4, <2>5
<1>11. Cut'
  <2> SUFFICES ASSUME NEW k \in Child, NEW j \in DOMAIN waiting'[k],
                      call'[waiting'[k][j]] = "write"
               PROVE  (\E b \in DOMAIN sent' : sent'[b] = waiting'[k][j])
                      <=> /\ k \notin shut
                          /\ \A i \in DOMAIN waiting'[k] :
                                i < j => call'[waiting'[k][i]] # "close"
    BY <1>0 DEF Cut
  <2> DEFINE q == waiting[k]
             r == waiting'[k]
             before == \A i \in DOMAIN r : i < j => call'[r[i]] # "close"
  <2>1. /\ DOMAIN r = DOMAIN q \cup {Last(k)} /\ r[Last(k)] = c /\ Last(k) \in Nat
        /\ \A i \in DOMAIN q : /\ r[i] = q[i] /\ q[i] # c /\ i \in Nat /\ i < Last(k)
                               /\ q[i] \in Caller /\ call'[q[i]] = call[q[i]]
        /\ \A a \in DOMAIN sent : sent[a] # c
    BY <1>1, <1>3, <1>4
  <2>2. \A i \in DOMAIN q : call[q[i]] = "write" =>
           ((\E b \in DOMAIN sent : sent[b] = q[i])
            <=> k \notin shut /\ \A x \in DOMAIN q : x < i => call[q[x]] # "close")
    BY DEF CallsInv, Cut
  <2>3. CloseWasCalled => k \in shut \/ \E i \in DOMAIN q : call[q[i]] = "close"
    BY DEF CallsInv, Closes
  <2>4. ~CloseWasCalled => k \notin shut /\ \A d \in Caller : call[d] # "close"
    BY CloseWasCalledIs DEF CallsInv, Closes
  <2>5. j \in DOMAIN r /\ call'[r[j]] = "write"
    OBVIOUS
  <2> HIDE DEF q, r
  <2>6. CASE j = Last(k)
    <3>1. op = "write" /\ r[j] = c
      BY <1>2, <2>1, <2>5, <2>6
    <3>2. before <=> \A i \in DOMAIN q : call[q[i]] # "close"
      BY <2>1, <2>6
    <3>3. (\E b \in DOMAIN sent' : sent'[b] = c) <=> ~CloseWasCalled
      BY <1>6, <1>6a, <2>1, <3>1
    <3>4. (\E b \in DOMAIN sent' : sent'[b] = r[j]) <=> k \notin shut /\ before
      BY <2>1, <2>3, <2>4, <3>1, <3>2, <3>3
    <3> QED BY <3>4 DEF r
  <2>7. CASE j # Last(k)
    <3>1. j \in DOMAIN q /\ r[j] = q[j] /\ call[q[j]] = "write" /\ q[j] # c
      BY <2>1, <2>5, <2>7
    <3>2. (\E b \in DOMAIN sent' : sent'[b] = q[j]) <=> \E b \in DOMAIN sent : sent[b] = q[j]
      BY <1>6, <3>1
    <3>3. before <=> \A i \in DOMAIN q : i < j => call[q[i]] # "close"
      BY <2>1, <3>1
    <3>4. (\E b \in DOMAIN sent' : sent'[b] = r[j]) <=> k \notin shut /\ before
      BY <2>2, <3>1, <3>2, <3>3
    <3> QED BY <3>4 DEF r
  <2> QED BY <2>6, <2>7
<1>12. Closes'
  BY <1>0, <1>1, <1>2, <1>4, <1>5 DEF CallsInv, Closes
<1>13. Kept'
  <2>1. ASSUME NEW k \in Child, NEW i \in DOMAIN file[k], NEW j \in DOMAIN file[k],
               NEW a \in DOMAIN sent', NEW b \in DOMAIN sent',
               i < j, sent'[a] = file[k][i], sent'[b] = file[k][j]
        PROVE  a < b
    <3>1. a \in DOMAIN sent /\ b \in DOMAIN sent /\ sent[a] = file[k][i] /\ sent[b] = file[k][j]
      <4>1. file[k][i] # c /\ file[k][j] # c
        BY <1>3
      <4> QED BY <1>6, <2>1, <4>1
    <3> QED BY <2>1, <3>1 DEF CallsInv, Kept
  <2>2. ASSUME NEW k \in Child, NEW d \in Caller
        PROVE  (\E i \in DOMAIN file[k] : file[k][i] = d)
               <=> /\ \E a \in DOMAIN sent' : sent'[a] = d
                   /\ \A i \in DOMAIN waiting'[k] : waiting'[k][i] # d
                   /\ <<k, d>> \notin lost
    BY <1>1, <1>3, <1>6 DEF CallsInv, Kept
  <2> QED BY <1>0, <2>1, <2>2 DEF Kept
<1> QED BY <1>7, <1>8, <1>9, <1>10, <1>11, <1>12, <1>13 DEF CallsInv

\* What an answer does to the child that gives it
Outcome(k, w) ==
    \/ k \in shut /\ call[w] = "write" /\ UNCHANGED <<file, lost>>
    \/ /\ k \notin shut /\ call[w] = "write" /\ lost' = lost
       /\ file' = [file EXCEPT ![k] = Append(@, w)]
    \/ call[w] = "write" /\ file' = file /\ lost' = lost \cup {<<k, w>>}
    \/ call[w] # "write" /\ UNCHANGED <<file, lost>>

\* A child that answers its oldest call keeps the row, loses it, or has closed before.
LEMMA AnswersKeepFiles ==
    ASSUME CompositeType, CallsInv, NEW k \in Child, ChildSettles(k) \/ ChildThrows(k)
    PROVE  CallsInv'
<1> DEFINE q == waiting[k]
           r == waiting'[k]
           w == Head(waiting[k])
<1>1. UNCHANGED <<call, sent, closed>> /\ q # <<>> /\ Outcome(k, w)
      /\ waiting' = [waiting EXCEPT ![k] = Tail(@)]
      /\ shut' = IF call[w] = "close" THEN shut \cup {k} ELSE shut
  BY DEF ChildSettles, ChildThrows, Answers, Stores, Loses, Outcome
<1>2. /\ 1 \in DOMAIN q /\ q[1] = w /\ w \in Caller
      /\ \A i \in DOMAIN q : i \in Nat /\ q[i] \in Caller
      /\ \A i \in DOMAIN r : i \in Nat /\ 1 < i + 1 /\ i + 1 \in DOMAIN q /\ r[i] = q[i + 1]
      /\ \A i \in DOMAIN q : i # 1 => 1 < i /\ i - 1 \in DOMAIN r /\ r[i - 1] = q[i]
  <2>1. q \in Seq(Caller) /\ r = Tail(q) /\ q # <<>> /\ w = Head(q)
    BY <1>1 DEF CompositeType
  <2> HIDE DEF q, r, w
  <2>2. \A i \in DOMAIN q : q[i] \in Caller
    BY <2>1
  <2> QED BY <2>1, <2>2, TailIs
<1>3. \A n \in Child : n # k =>
         /\ waiting'[n] = waiting[n] /\ file'[n] = file[n] /\ (n \in shut' <=> n \in shut)
         /\ \A d : <<n, d>> \in lost' <=> <<n, d>> \in lost
  BY <1>1 DEF CompositeType, Outcome
<1>4. k \in shut' <=> k \in shut \/ call[w] = "close"
  BY <1>1
<1>5. /\ \A i \in DOMAIN q : call[q[i]] \in {"write", "flush", "close"}
      /\ \A i \in DOMAIN q, j \in DOMAIN q : i # j => q[i] # q[j]
  BY DEF CallsInv, Queued
<1>6. /\ <<k, w>> \notin lost
      /\ \A i \in DOMAIN file[k] : file[k][i] # w
  BY <1>2 DEF CallsInv, LostOnes, Kept
<1>7. call[w] = "write" => (k \notin shut <=> \E b \in DOMAIN sent : sent[b] = w)
  <2>1. \A i \in DOMAIN q : ~(i < 1)
    BY <1>2
  <2> QED BY <1>2, <2>1 DEF CallsInv, Cut
<1>8. \/ call[w] = "write" /\ k \notin shut /\ file'[k] = Append(file[k], w) /\ lost' = lost
      \/ call[w] = "write" /\ file'[k] = file[k] /\ lost' = lost \cup {<<k, w>>}
      \/ (call[w] # "write" \/ k \in shut) /\ file'[k] = file[k] /\ lost' = lost
  BY <1>1 DEF Outcome, CompositeType
<1>9. /\ DOMAIN file[k] \subseteq DOMAIN file'[k]
      /\ \A i \in DOMAIN file[k] : file'[k][i] = file[k][i]
      /\ \/ DOMAIN file'[k] = DOMAIN file[k]
         \/ \E n \in Nat : /\ DOMAIN file'[k] = DOMAIN file[k] \cup {n} /\ file'[k][n] = w
                           /\ call[w] = "write" /\ k \notin shut /\ lost' = lost
                           /\ \A i \in DOMAIN file[k] : i \in Nat /\ i < n
  <2>1. CASE file'[k] = file[k]
    BY <2>1
  <2>2. CASE call[w] = "write" /\ k \notin shut /\ file'[k] = Append(file[k], w) /\ lost' = lost
    <3>1. file[k] \in Seq(Caller)
      BY DEF CompositeType
    <3>2. /\ DOMAIN file'[k] = DOMAIN file[k] \cup {Len(file[k]) + 1}
          /\ \A i \in DOMAIN file[k] : /\ file'[k][i] = file[k][i] /\ i \in Nat
                                       /\ i < Len(file[k]) + 1
          /\ file'[k][Len(file[k]) + 1] = w /\ Len(file[k]) + 1 \in Nat
      BY <1>2, <2>2, <3>1, AppendIs
    <3> QED BY <2>2, <3>2
  <2> QED BY <1>8, <2>1, <2>2
<1> HIDE DEF q, r, w
<1>10. Queued'
  <2> SUFFICES ASSUME NEW n \in Child
               PROVE  \A i \in DOMAIN waiting'[n] :
                         /\ call'[waiting'[n][i]] \in {"write", "flush", "close"}
                         /\ \A j \in DOMAIN waiting'[n] :
                               i # j => waiting'[n][i] # waiting'[n][j]
    BY DEF Queued
  <2>1. CASE n # k
    BY <1>1, <1>3, <2>1 DEF CallsInv, Queued
  <2>2. CASE n = k
    <3>1. \A i \in DOMAIN r : /\ call[r[i]] \in {"write", "flush", "close"}
                              /\ \A j \in DOMAIN r : i # j => r[i] # r[j]
      BY <1>2, <1>5
    <3> QED BY <1>1, <2>2, <3>1 DEF r
  <2> QED BY <2>1, <2>2
<1>11. SentOnce'
  BY <1>1 DEF CallsInv, SentOnce
<1>12. LostOnes'
  <2> SUFFICES ASSUME NEW n \in Child, NEW d \in Caller, <<n, d>> \in lost'
               PROVE  /\ \A i \in DOMAIN waiting'[n] : waiting'[n][i] # d
                      /\ call[d] \in {"write", "wrote"}
    BY <1>1 DEF LostOnes
  <2>1. CASE n # k
    BY <1>3, <2>1 DEF CallsInv, LostOnes
  <2>2. CASE n = k /\ d = w
    <3>1. call[w] = "write"
      BY <1>6, <1>8, <2>2
    <3>2. \A i \in DOMAIN r : r[i] # w
      BY <1>2, <1>5
    <3> QED BY <2>2, <3>1, <3>2 DEF r
  <2>3. CASE n = k /\ d # w
    <3>1. <<k, d>> \in lost
      BY <1>8, <2>3
    <3>2. (\A i \in DOMAIN q : q[i] # d) /\ call[d] \in {"write", "wrote"}
      BY <3>1 DEF CallsInv, LostOnes, q
    <3>3. \A i \in DOMAIN r : r[i] # d
      BY <1>2, <3>2
    <3> QED BY <2>3, <3>2, <3>3 DEF r
  <2> QED BY <2>1, <2>2, <2>3
<1>13. InOrder'
  <2> SUFFICES ASSUME NEW n \in Child, NEW j \in DOMAIN waiting'[n], NEW b \in DOMAIN sent,
                      sent[b] = waiting'[n][j]
               PROVE  /\ \A i \in DOMAIN file'[n], a \in DOMAIN sent :
                            sent[a] = file'[n][i] => a < b
                      /\ \A i \in DOMAIN waiting'[n], a \in DOMAIN sent :
                            i < j /\ sent[a] = waiting'[n][i] => a < b
    BY <1>1 DEF InOrder
  <2>1. CASE n # k
    BY <1>3, <2>1 DEF CallsInv, InOrder
  <2>2. CASE n = k
    <3>1. j \in DOMAIN r /\ sent[b] = r[j]
      BY <2>2 DEF r
    <3>2. \A i \in DOMAIN q, y \in DOMAIN sent : sent[y] = q[i] =>
            /\ \A x \in DOMAIN file[k], a \in DOMAIN sent : sent[a] = file[k][x] => a < y
            /\ \A x \in DOMAIN q, a \in DOMAIN sent : x < i /\ sent[a] = q[x] => a < y
      BY DEF CallsInv, InOrder, q
    <3>3. j + 1 \in DOMAIN q /\ sent[b] = q[j + 1] /\ 1 < j + 1
      BY <1>2, <3>1
    <3>4. ASSUME NEW i \in DOMAIN file'[k], NEW a \in DOMAIN sent, sent[a] = file'[k][i]
          PROVE  a < b
      <4>1. CASE i \in DOMAIN file[k]
        BY <1>9, <3>2, <3>3, <3>4, <4>1
      <4>2. CASE i \notin DOMAIN file[k]
        <5>1. sent[a] = q[1]
          BY <1>2, <1>9, <3>4, <4>2
        <5> QED BY <1>2, <3>2, <3>3, <5>1
      <4> QED BY <4>1, <4>2
    <3>5. ASSUME NEW i \in DOMAIN r, NEW a \in DOMAIN sent, i < j, sent[a] = r[i]
          PROVE  a < b
      <4>1. i + 1 \in DOMAIN q /\ sent[a] = q[i + 1] /\ i + 1 < j + 1
        BY <1>2, <3>1, <3>5
      <4> QED BY <3>2, <3>3, <4>1
    <3> QED BY <2>2, <3>4, <3>5 DEF r
  <2> QED BY <2>1, <2>2
<1>14. Cut'
  <2> SUFFICES ASSUME NEW n \in Child, NEW j \in DOMAIN waiting'[n],
                      call[waiting'[n][j]] = "write"
               PROVE  (\E b \in DOMAIN sent : sent[b] = waiting'[n][j])
                      <=> /\ n \notin shut'
                          /\ \A i \in DOMAIN waiting'[n] :
                                i < j => call[waiting'[n][i]] # "close"
    BY <1>1 DEF Cut
  <2>1. CASE n # k
    BY <1>3, <2>1 DEF CallsInv, Cut
  <2>2. CASE n = k
    <3>1. j \in DOMAIN r /\ call[r[j]] = "write"
      BY <2>2 DEF r
    <3>2. j + 1 \in DOMAIN q /\ r[j] = q[j + 1] /\ j \in Nat /\ 1 < j + 1
      BY <1>2, <3>1
    <3>3. (\E b \in DOMAIN sent : sent[b] = q[j + 1])
          <=> k \notin shut /\ \A x \in DOMAIN q : x < j + 1 => call[q[x]] # "close"
      BY <3>1, <3>2 DEF CallsInv, Cut, q
    <3>4. (\A x \in DOMAIN q : x < j + 1 => call[q[x]] # "close")
          <=> call[w] # "close" /\ \A i \in DOMAIN r : i < j => call[r[i]] # "close"
      <4>1. ASSUME \A x \in DOMAIN q : x < j + 1 => call[q[x]] # "close"
            PROVE  call[w] # "close" /\ \A i \in DOMAIN r : i < j => call[r[i]] # "close"
        BY <1>2, <3>2, <4>1
      <4>2. ASSUME call[w] # "close", \A i \in DOMAIN r : i < j => call[r[i]] # "close",
                   NEW x \in DOMAIN q, x < j + 1
            PROVE  call[q[x]] # "close"
        <5>1. CASE x = 1
          BY <1>2, <4>2, <5>1
        <5>2. CASE x # 1
          <6>1. x - 1 \in DOMAIN r /\ r[x - 1] = q[x] /\ x - 1 < j
            BY <1>2, <3>2, <4>2, <5>2
          <6> QED BY <4>2, <6>1
        <5> QED BY <5>1, <5>2
      <4> QED BY <4>1, <4>2
    <3>5. (\E b \in DOMAIN sent : sent[b] = r[j])
          <=> k \notin shut' /\ \A i \in DOMAIN r : i < j => call[r[i]] # "close"
      BY <1>4, <3>2, <3>3, <3>4
    <3> QED BY <2>2, <3>5 DEF r
  <2> QED BY <2>1, <2>2
<1>15. Closes'
  <2>1. CloseWasCalled' <=> CloseWasCalled
    BY <1>1 DEF CloseWasCalled, Made
  <2>2. call[w] = "close" => CloseWasCalled
    BY <1>2, CloseWasCalledIs
  <2>3. ~CloseWasCalled => shut' = {}
    BY <1>1, <2>2 DEF CallsInv, Closes
  <2>4. ASSUME CloseWasCalled, NEW n \in Child
        PROVE  n \in shut' \/ \E i \in DOMAIN waiting'[n] : call[waiting'[n][i]] = "close"
    <3>1. n \in shut \/ \E i \in DOMAIN waiting[n] : call[waiting[n][i]] = "close"
      BY <2>4 DEF CallsInv, Closes
    <3>2. CASE n # k
      BY <1>3, <3>1, <3>2
    <3>3. CASE n = k
      <4>1. k \in shut \/ \E i \in DOMAIN q : call[q[i]] = "close"
        BY <3>1, <3>3 DEF q
      <4>2. k \in shut' \/ \E i \in DOMAIN r : call[r[i]] = "close"
        BY <1>2, <1>4, <4>1
      <4> QED BY <3>3, <4>2 DEF r
    <3> QED BY <3>2, <3>3
  <2>5. closed' => CloseWasCalled
    BY <1>1 DEF CallsInv, Closes
  <2> QED BY <1>1, <2>1, <2>3, <2>4, <2>5 DEF Closes
<1>16. Kept'
  <2>1. ASSUME NEW n \in Child, NEW i \in DOMAIN file'[n], NEW j \in DOMAIN file'[n],
               NEW a \in DOMAIN sent, NEW b \in DOMAIN sent,
               i < j, sent[a] = file'[n][i], sent[b] = file'[n][j]
        PROVE  a < b
    <3>1. CASE n # k
      BY <1>3, <2>1, <3>1 DEF CallsInv, Kept
    <3>2. CASE n = k
      <4>1. \A x, y \in DOMAIN file[k] : x < y /\ sent[a] = file[k][x] /\ sent[b] = file[k][y]
               => a < b
        BY DEF CallsInv, Kept
      <4>2. CASE i \in DOMAIN file[k] /\ j \in DOMAIN file[k]
        BY <1>9, <2>1, <3>2, <4>1, <4>2
      <4>3. CASE i \in DOMAIN file[k] /\ j \notin DOMAIN file[k]
        <5>1. sent[b] = q[1] /\ sent[a] = file[k][i]
          BY <1>2, <1>9, <2>1, <3>2, <4>3
        <5> QED BY <1>2, <4>3, <5>1 DEF CallsInv, InOrder, q
      <4>4. CASE i \notin DOMAIN file[k]
        <5>1. FALSE
          BY <1>9, <2>1, <3>2, <4>4
        <5> QED BY <5>1
      <4> QED BY <4>2, <4>3, <4>4
    <3> QED BY <3>1, <3>2
  <2>2. ASSUME NEW n \in Child, NEW d \in Caller
        PROVE  (\E i \in DOMAIN file'[n] : file'[n][i] = d)
               <=> /\ \E a \in DOMAIN sent : sent[a] = d
                   /\ \A i \in DOMAIN waiting'[n] : waiting'[n][i] # d
                   /\ <<n, d>> \notin lost'
    <3>0. (\E i \in DOMAIN file[n] : file[n][i] = d)
               <=> /\ \E a \in DOMAIN sent : sent[a] = d
                   /\ \A i \in DOMAIN waiting[n] : waiting[n][i] # d
                   /\ <<n, d>> \notin lost
      BY DEF CallsInv, Kept
    <3>1. CASE n # k
      BY <1>3, <3>0, <3>1
    <3>2. CASE n = k /\ d # w
      <4>1. (\E i \in DOMAIN file'[k] : file'[k][i] = d) <=> \E i \in DOMAIN file[k] : file[k][i] = d
        BY <1>9, <3>2
      <4>2. (\A i \in DOMAIN r : r[i] # d) <=> \A i \in DOMAIN q : q[i] # d
        BY <1>2, <3>2
      <4>3. <<k, d>> \in lost' <=> <<k, d>> \in lost
        BY <1>8, <3>2
      <4> QED BY <3>0, <3>2, <4>1, <4>2, <4>3 DEF q, r
    <3>3. CASE n = k /\ d = w
      <4>1. \A i \in DOMAIN r : r[i] # w
        BY <1>2, <1>5
      <4>2. (\E i \in DOMAIN file'[k] : file'[k][i] = w)
            <=> (\E a \in DOMAIN sent : sent[a] = w) /\ <<k, w>> \notin lost'
        <5>1. CASE file'[k] = Append(file[k], w) /\ call[w] = "write" /\ k \notin shut /\ lost' = lost
          <6>1. file[k] \in Seq(Caller)
            BY DEF CompositeType
          <6>2. Len(file[k]) + 1 \in DOMAIN file'[k] /\ file'[k][Len(file[k]) + 1] = w
            BY <1>2, <5>1, <6>1, AppendIs
          <6> QED BY <1>6, <1>7, <5>1, <6>2
        <5>2. CASE file'[k] = file[k] /\ lost' = lost \cup {<<k, w>>}
          BY <1>6, <5>2
        <5>3. CASE call[w] = "write" /\ k \in shut /\ file'[k] = file[k] /\ lost' = lost
          BY <1>6, <1>7, <5>3
        <5>4. CASE call[w] # "write" /\ file'[k] = file[k] /\ lost' = lost
          <6>1. call[w] # "wrote"
            BY <1>2, <1>5
          <6>2. \A a \in DOMAIN sent : sent[a] # w
            BY <5>4, <6>1 DEF CallsInv, SentOnce
          <6> QED BY <1>6, <5>4, <6>2
        <5> QED BY <1>8, <5>1, <5>2, <5>3, <5>4
      <4> QED BY <3>3, <4>1, <4>2 DEF r
    <3> QED BY <3>1, <3>2, <3>3
  <2> QED BY <1>1, <2>1, <2>2 DEF Kept
<1> QED
  BY <1>10, <1>11, <1>12, <1>13, <1>14, <1>15, <1>16 DEF CallsInv

LEMMA FilesInit == CompositeInit => CallsInv
BY DEF CompositeInit, CallsInv, Queued, SentOnce, LostOnes, InOrder, Cut, Closes, Kept,
   CloseWasCalled, Made

LEMMA FilesStep ==
    ASSUME CompositeType, CallsInv, [CompositeNext]_cvars
    PROVE  CallsInv'
<1>1. ASSUME NEW c \in Caller, WriteCalled(c) PROVE CallsInv'
  <2>1. CASE closed
    BY <1>1, <2>1, LateCallsKeepFiles
  <2>2. CASE ~closed
    BY <1>1, <2>2, JoinsKeepFiles DEF WriteCalled
  <2> QED BY <2>1, <2>2
<1>2. ASSUME NEW c \in Caller, FlushCalled(c) PROVE CallsInv'
  BY <1>2, JoinsKeepFiles DEF FlushCalled
<1>3. ASSUME NEW c \in Caller, CloseCalled(c) PROVE CallsInv'
  <2>1. CASE closed
    BY <1>3, <2>1, LateCallsKeepFiles
  <2>2. CASE ~closed
    BY <1>3, <2>2, JoinsKeepFiles DEF CloseCalled
  <2> QED BY <2>1, <2>2
<1>4. CASE UNCHANGED cvars
  BY <1>4 DEF cvars, CallsInv, Queued, SentOnce, LostOnes, InOrder, Cut, Closes, Kept,
     CloseWasCalled, Made
<1> QED
  BY <1>1, <1>2, <1>3, <1>4, AnswersKeepFiles, ReturnsKeepFiles
  DEF CompositeNext, ChildAnswers, Returns, Calls

\* Each child holds exactly the rows that were written before close() was called, that it
\* has answered and did not lose itself, each once and in the order of the calls, whatever
\* the other children do and however many callers write while close() is under way.
THEOREM FilesKeepOrder == CompositeSpec => []FilesAsCalled
<1>1. CompositeInit => CompositeType /\ CallsInv
  BY TypeInit, FilesInit
<1>2. CompositeType /\ CallsInv /\ [ChildAnswers \/ Returns \/ Calls]_cvars
        => (CompositeType /\ CallsInv)'
  BY TypeStep, FilesStep DEF CompositeNext
<1>3. CallsInv => FilesAsCalled
  BY KeptIsAsCalled DEF CallsInv
<1> QED BY <1>1, <1>2, <1>3, PTL DEF CompositeSpec
=============================================================================
