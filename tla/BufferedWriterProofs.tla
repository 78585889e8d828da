------------------------ MODULE BufferedWriterProofs ------------------------
(***************************************************************************)
(* Theorems about BufferedWriter for every value of its constants.  The    *)
(* inductive invariant IInv adds to the types: what is running, whose      *)
(* drain empties the queue, and the order of the ids in queue and batch.   *)
(***************************************************************************)
EXTENDS BufferedWriter, FiniteSetTheorems, TLAPS

-----------------------------------------------------------------------------
(* Sequences and the sets of their elements                                 *)

\* Appending adds exactly the new element.
LEMMA RangeAppend ==
    ASSUME NEW S, NEW s \in Seq(S), NEW e \in S
    PROVE  Range(Append(s, e)) = Range(s) \cup {e}
<1>1. \A i \in 1 .. Len(s) : Append(s, e)[i] = s[i]
  OBVIOUS
<1>2. Append(s, e)[Len(s) + 1] = e /\ Len(Append(s, e)) = Len(s) + 1
  OBVIOUS
<1>3. DOMAIN Append(s, e) = (1 .. Len(s)) \cup {Len(s) + 1} /\ DOMAIN s = 1 .. Len(s)
  BY <1>2
<1> QED
  BY <1>1, <1>2, <1>3 DEF Range

\* Dropping the head loses nothing but the head.
LEMMA RangeTail ==
    ASSUME NEW S, NEW s \in Seq(S), s # <<>>
    PROVE  /\ Range(Tail(s)) \subseteq Range(s)
           /\ Range(s) \ Range(Tail(s)) \subseteq {Head(s)}
           /\ Head(s) \in Range(s)
<1>1. /\ Len(s) \in Nat /\ Len(s) >= 1
      /\ DOMAIN s = 1 .. Len(s)
      /\ DOMAIN Tail(s) = 1 .. Len(s) - 1
      /\ \A i \in 1 .. Len(s) - 1 : Tail(s)[i] = s[i + 1]
      /\ Head(s) = s[1]
  OBVIOUS
<1>2. ASSUME NEW i \in 1 .. Len(s), i # 1
      PROVE  s[i] \in Range(Tail(s))
  <2>1. i - 1 \in 1 .. Len(s) - 1 /\ Tail(s)[i - 1] = s[i]
    BY <1>1, <1>2
  <2> QED
    BY <2>1, <1>1 DEF Range
<1>3. \A i \in 1 .. Len(s) - 1 : i + 1 \in 1 .. Len(s)
  BY <1>1
<1> QED
  BY <1>1, <1>2, <1>3 DEF Range

\* A split of a sequence splits its elements.
LEMMA RangeSplit ==
    ASSUME NEW S, NEW s \in Seq(S), NEW n \in 0 .. Len(s)
    PROVE  Range(s) = Range(SubSeq(s, 1, n)) \cup Range(SubSeq(s, n + 1, Len(s)))
<1>1. /\ DOMAIN s = 1 .. Len(s)
      /\ DOMAIN SubSeq(s, 1, n) = 1 .. n
      /\ \A i \in 1 .. n : SubSeq(s, 1, n)[i] = s[i]
      /\ DOMAIN SubSeq(s, n + 1, Len(s)) = 1 .. Len(s) - n
      /\ \A i \in 1 .. Len(s) - n : SubSeq(s, n + 1, Len(s))[i] = s[n + i]
  OBVIOUS
<1>2. ASSUME NEW i \in 1 .. Len(s), ~(i <= n)
      PROVE  s[i] \in Range(SubSeq(s, n + 1, Len(s)))
  <2>1. i - n \in 1 .. Len(s) - n /\ SubSeq(s, n + 1, Len(s))[i - n] = s[i]
    BY <1>1, <1>2
  <2> QED
    BY <2>1, <1>1 DEF Range
<1>3. \A i \in 1 .. Len(s) - n : n + i \in 1 .. Len(s)
  OBVIOUS
<1>4. \A i \in 1 .. n : i \in 1 .. Len(s)
  OBVIOUS
<1>5. ASSUME NEW i \in 1 .. Len(s), i <= n
      PROVE  s[i] \in Range(SubSeq(s, 1, n))
  <2>1. i \in 1 .. n /\ SubSeq(s, 1, n)[i] = s[i]
    BY <1>1, <1>5
  <2> QED
    BY <2>1, <1>1 DEF Range
<1>6. Range(s) \subseteq Range(SubSeq(s, 1, n)) \cup Range(SubSeq(s, n + 1, Len(s)))
  BY <1>1, <1>2, <1>5 DEF Range
<1>7. Range(SubSeq(s, 1, n)) \cup Range(SubSeq(s, n + 1, Len(s))) \subseteq Range(s)
  BY <1>1, <1>3, <1>4 DEF Range
<1> QED
  BY <1>6, <1>7

\* A batch and what it leaves, taken from the front of the queue.
LEMMA BatchLenType ==
    ASSUME NEW s \in Seq(Ids), s = pending
    PROVE  BatchLen \in 0 .. Len(pending) /\ BatchLen <= MaxBatchSize
BY WriterAssumption, EventsAssumption DEF BatchLen

-----------------------------------------------------------------------------
(* Types                                                                    *)

LEMMA InitTypeOK == Init => TypeOK
<1> SUFFICES ASSUME Init PROVE TypeOK
  OBVIOUS
<1>1. /\ pending \in Seq(Ids) /\ Len(pending) <= MaxQueueSize
      /\ batch \in Seq(Ids) /\ Len(batch) <= MaxBatchSize
      /\ chain \in Seq(Drains)
  BY WriterAssumption, EventsAssumption DEF Init
<1>2. issued \in 0 .. MaxEvents /\ mark \in [Callers -> 0 .. MaxEvents]
  BY WriterAssumption, EventsAssumption DEF Init
<1>3. /\ file \in [Files -> SUBSET Ids]
      /\ stats \in [written : Nat, dropped : Nat, flushes : Nat]
      /\ phase \in [Callers -> Phases]
  BY DEF Init, Phases
<1> QED
  BY <1>1, <1>2, <1>3 DEF Init, TypeOK

\* Taking a batch from a well-typed queue keeps queue and batch typed, and
\* bounded.
LEMMA TakeBatchType ==
    ASSUME TypeOK, TakeBatch
    PROVE  /\ pending' \in Seq(Ids) /\ Len(pending') <= MaxQueueSize
           /\ batch' \in Seq(Ids) /\ Len(batch') <= MaxBatchSize
           /\ todo' \subseteq Files
           /\ running'
           /\ UNCHANGED <<chain, phase>>
<1>1. BatchLen \in 0 .. Len(pending) /\ BatchLen <= MaxBatchSize
  BY BatchLenType DEF TypeOK
<1>2. /\ pending \in Seq(Ids) /\ Len(pending) <= MaxQueueSize
      /\ MaxQueueSize \in Nat
  BY WriterAssumption, EventsAssumption DEF TypeOK
<1>3. /\ batch' = SubSeq(pending, 1, BatchLen)
      /\ pending' = SubSeq(pending, BatchLen + 1, Len(pending))
      /\ todo' = {FileOf[pending[i]] : i \in 1 .. BatchLen}
  BY DEF TakeBatch
<1>4. batch' \in Seq(Ids) /\ Len(batch') = BatchLen
  BY <1>1, <1>2, <1>3
<1>5. pending' \in Seq(Ids) /\ Len(pending') = Len(pending) - BatchLen
  BY <1>1, <1>2, <1>3
<1>6. todo' \subseteq Files
  BY <1>1, <1>2, <1>3, WriterAssumption, EventsAssumption
<1> QED
  BY <1>1, <1>2, <1>4, <1>5, <1>6 DEF TakeBatch

LEMMA SettleHeadType ==
    ASSUME TypeOK, SettleHead, chain # <<>>
    PROVE  /\ pending' = pending /\ todo' = todo
           /\ batch' = <<>> /\ batch' \in Seq(Ids) /\ Len(batch') <= MaxBatchSize
           /\ running' = FALSE
           /\ chain' \in Seq(Drains)
           /\ phase' \in [Callers -> Phases]
<1>1. chain' \in Seq(Drains)
  BY DEF TypeOK, SettleHead
<1>2. \A p : Settled(p) \in Phases
  BY DEF Settled, Phases
<1>3. phase' \in [Callers -> Phases]
  BY <1>2 DEF TypeOK, SettleHead
<1>4. batch' \in Seq(Ids) /\ Len(batch') <= MaxBatchSize
  BY WriterAssumption, EventsAssumption DEF SettleHead
<1> QED
  BY <1>1, <1>3, <1>4 DEF SettleHead

\* Sets of events are finite.
LEMMA IdsFinite ==
    ASSUME NEW T \in SUBSET Ids
    PROVE  IsFiniteSet(T) /\ Cardinality(T) \in Nat
<1>1. IsFiniteSet(Ids)
  BY WriterAssumption, EventsAssumption, FS_Interval DEF Ids
<1> QED
  BY <1>1, FS_Subset, FS_CardinalityType

\* Counting events forward keeps the counters natural.
LEMMA CountedType ==
    ASSUME NEW w \in Nat, NEW d \in Nat, NEW f \in Nat,
           stats \in [written : Nat, dropped : Nat, flushes : Nat]
    PROVE  Counted(w, d, f) \in [written : Nat, dropped : Nat, flushes : Nat]
BY DEF Counted

\* The batch's refused rows are no more than its rows.
LEMMA RefusedCount ==
    ASSUME NEW s \in Seq(Ids), NEW T \in SUBSET DOMAIN s
    PROVE  Cardinality(T) \in Nat /\ Len(s) - Cardinality(T) \in Nat
<1>1. DOMAIN s = 1 .. Len(s) /\ Len(s) \in Nat
  OBVIOUS
<1>2. 1 \in Int /\ Len(s) \in Int
  BY <1>1
<1>3. /\ IsFiniteSet(1 .. Len(s))
      /\ Cardinality(1 .. Len(s)) = IF 1 > Len(s) THEN 0 ELSE Len(s) - 1 + 1
  BY <1>2, FS_Interval
<1>4. IsFiniteSet(1 .. Len(s)) /\ Cardinality(1 .. Len(s)) = Len(s)
  BY <1>1, <1>3
<1>5. Cardinality(T) \in Nat /\ Cardinality(T) <= Len(s)
  BY <1>1, <1>4, FS_Subset, FS_CardinalityType
<1> QED
  BY <1>1, <1>5

LEMMA NextTypeOK ==
    ASSUME TypeOK, Flow, [Next]_vars
    PROVE  TypeOK'
<1> USE DEF TypeOK
<1>1. ASSUME NEW valid \in BOOLEAN, RejectWrite(valid)
      PROVE  TypeOK'
  <2>1. issued' \in 0 .. MaxEvents /\ issued + 1 \in Ids
    BY <1>1, WriterAssumption, EventsAssumption DEF RejectWrite, Ids
  <2>2. stats' \in [written : Nat, dropped : Nat, flushes : Nat]
    BY <1>1, CountedType DEF RejectWrite
  <2> QED
    BY <1>1, <2>1, <2>2 DEF RejectWrite, diskVars
<1>2. ASSUME AcceptWrite
      PROVE  TypeOK'
  <2>1. issued' \in 0 .. MaxEvents /\ issued + 1 \in Ids
    BY <1>2, WriterAssumption, EventsAssumption DEF AcceptWrite, Ids
  <2>2. Kept \in Seq(Ids) /\ Len(Kept) + 1 <= MaxQueueSize
    BY WriterAssumption, EventsAssumption DEF Kept, Full
  <2>3. pending' \in Seq(Ids) /\ Len(pending') <= MaxQueueSize
    BY <1>2, <2>1, <2>2 DEF AcceptWrite
  <2>4. Range(pending) \subseteq Ids
    BY DEF Range
  <2>5. Evicted \subseteq Ids /\ Cardinality(Evicted) \in Nat
    BY <2>4, IdsFinite DEF Evicted
  <2>6. discarded' \subseteq Ids /\ stats' \in [written : Nat, dropped : Nat, flushes : Nat]
    BY <1>2, <2>5, CountedType DEF AcceptWrite
  <2>7. timer' \in BOOLEAN
    BY <1>2 DEF AcceptWrite, ScheduleFlush
  <2> QED
    BY <1>2, <2>1, <2>3, <2>6, <2>7 DEF AcceptWrite, diskVars
<1>3. ASSUME TimerFires
      PROVE  TypeOK'
  <2>1. [all |-> FALSE, by |-> "timer"] \in Drains
    BY DEF Drains
  <2>2. chain' \in Seq(Drains)
    BY <1>3, <2>1 DEF TimerFires
  <2> QED
    BY <1>3, <2>2 DEF TimerFires, diskVars
<1>4. ASSUME DrainStarts
      PROVE  TypeOK'
  <2>1. CASE pending = <<>>
    <3>1. SettleHead /\ chain # <<>>
      BY <1>4, <2>1 DEF DrainStarts
    <3> QED
      BY <1>4, <3>1, SettleHeadType DEF DrainStarts
  <2>2. CASE pending # <<>>
    <3>1. TakeBatch
      BY <1>4, <2>2 DEF DrainStarts
    <3> QED
      BY <1>4, <3>1, TakeBatchType DEF DrainStarts
  <2> QED
    BY <2>1, <2>2
<1>5. ASSUME NEW f \in Files, NEW ok \in BOOLEAN, AppendGroup(f, ok)
      PROVE  TypeOK'
  <2> DEFINE group == {e \in Range(batch) : FileOf[e] = f}
  <2>1. group \subseteq Ids
    BY DEF Range
  <2>2. file' \in [Files -> SUBSET Ids] /\ discarded' \subseteq Ids
    BY <1>5, <2>1 DEF AppendGroup
  <2> QED
    BY <1>5, <2>2 DEF AppendGroup
<1>6. ASSUME BatchDone
      PROVE  TypeOK'
  <2> DEFINE refused == {i \in DOMAIN batch : batch[i] \in discarded}
  <2>1. Cardinality(refused) \in Nat /\ Len(batch) - Cardinality(refused) \in Nat
    BY RefusedCount
  <2>2. stats' \in [written : Nat, dropped : Nat, flushes : Nat]
    BY <1>6, <2>1, CountedType DEF BatchDone
  <2>3. chain # <<>>
    BY <1>6 DEF BatchDone, Flow
  <2>4. CASE Head(chain).all /\ pending # <<>>
    <3>1. TakeBatch /\ UNCHANGED timer
      BY <1>6, <2>4 DEF BatchDone
    <3> QED
      BY <1>6, <3>1, <2>2, TakeBatchType DEF BatchDone
  <2>5. CASE ~(Head(chain).all /\ pending # <<>>)
    <3>1. SettleHead /\ timer' \in BOOLEAN
      BY <1>6, <2>5 DEF BatchDone, ScheduleFlush
    <3> QED
      BY <1>6, <3>1, <2>2, <2>3, SettleHeadType DEF BatchDone
  <2> QED
    BY <2>4, <2>5
<1>7. ASSUME NEW c \in Callers, FlushCalled(c) \/ CloseCalled(c)
      PROVE  TypeOK'
  <2>1. DrainFor(c) \in Drains
    BY DEF DrainFor, Drains
  <2>2. PICK w \in Phases : Await(c, w)
    BY <1>7 DEF FlushCalled, CloseCalled, Phases
  <2>3. chain' \in Seq(Drains)
    BY <2>1, <2>2 DEF Await
  <2>4. phase' \in [Callers -> Phases] /\ mark' \in [Callers -> 0 .. MaxEvents]
    BY <2>2 DEF Await
  <2> QED
    BY <2>2, <2>3, <2>4 DEF Await, diskVars
<1>8. ASSUME NEW c \in Callers, FlushResumes(c) \/ CloseResumes(c)
      PROVE  TypeOK'
  <2>1. /\ phase' = [phase EXCEPT ![c] = "idle"]
        /\ mark' = [mark EXCEPT ![c] = 0]
    BY <1>8 DEF FlushResumes, CloseResumes
  <2>2. "idle" \in Phases /\ 0 \in 0 .. MaxEvents
    BY WriterAssumption, EventsAssumption DEF Phases
  <2>3. phase' \in [Callers -> Phases] /\ mark' \in [Callers -> 0 .. MaxEvents]
    BY <2>1, <2>2
  <2>4. stats' = Counted(0, 0, 1) \/ stats' = stats
    BY <1>8 DEF FlushResumes, CloseResumes
  <2>5. Counted(0, 0, 1) \in [written : Nat, dropped : Nat, flushes : Nat]
    BY CountedType
  <2>6. stats' \in [written : Nat, dropped : Nat, flushes : Nat]
    BY <2>4, <2>5
  <2> QED
    BY <1>8, <2>3, <2>6 DEF FlushResumes, CloseResumes, diskVars
<1>9. ASSUME UNCHANGED vars
      PROVE  TypeOK'
  BY <1>9 DEF vars
<1> QED
  BY <1>1, <1>2, <1>3, <1>4, <1>5, <1>6, <1>7, <1>8, <1>9 DEF Next

-----------------------------------------------------------------------------
(* What the queue steps do to the events                                    *)

\* A batch splits the queue: every event of the batch precedes every event
\* left, and the groups of the batch are all still to append.
LEMMA TakeBatchSplits ==
    ASSUME TypeOK, TakeBatch
    PROVE  /\ Range(pending) = Range(batch') \cup Range(pending')
           /\ \A e \in Range(batch') : FileOf[e] \in todo'
           /\ Increasing(pending) =>
                /\ Increasing(pending')
                /\ \A x \in Range(batch'), y \in Range(pending') : x < y
<1>1. /\ BatchLen \in 0 .. Len(pending)
      /\ batch' = SubSeq(pending, 1, BatchLen)
      /\ pending' = SubSeq(pending, BatchLen + 1, Len(pending))
      /\ todo' = {FileOf[pending[i]] : i \in 1 .. BatchLen}
  BY BatchLenType DEF TypeOK, TakeBatch
<1>2. pending \in Seq(Ids) /\ DOMAIN pending = 1 .. Len(pending)
  BY DEF TypeOK
<1>3. /\ DOMAIN batch' = 1 .. BatchLen
      /\ \A i \in 1 .. BatchLen : batch'[i] = pending[i]
  BY <1>1, <1>2
<1>4. /\ DOMAIN pending' = 1 .. Len(pending) - BatchLen
      /\ \A i \in 1 .. Len(pending) - BatchLen : pending'[i] = pending[BatchLen + i]
  BY <1>1, <1>2
<1>5. Range(pending) = Range(batch') \cup Range(pending')
  BY <1>1, <1>2, RangeSplit
<1>6. \A e \in Range(batch') : FileOf[e] \in todo'
  BY <1>1, <1>3 DEF Range
<1>7. ASSUME Increasing(pending)
      PROVE  /\ Increasing(pending')
             /\ \A x \in Range(batch'), y \in Range(pending') : x < y
  <2>1. \A i, j \in 1 .. Len(pending) : i < j => pending[i] < pending[j]
    BY <1>2, <1>7 DEF Increasing
  <2>2. ASSUME NEW i \in 1 .. Len(pending) - BatchLen,
               NEW j \in 1 .. Len(pending) - BatchLen, i < j
        PROVE  pending'[i] < pending'[j]
    <3>1. /\ BatchLen + i \in 1 .. Len(pending)
          /\ BatchLen + j \in 1 .. Len(pending)
          /\ BatchLen + i < BatchLen + j
      BY <1>1, <1>2, <2>2
    <3> QED
      BY <1>4, <2>1, <3>1
  <2>3. ASSUME NEW i \in 1 .. BatchLen, NEW j \in 1 .. Len(pending) - BatchLen
        PROVE  batch'[i] < pending'[j]
    <3>1. /\ i \in 1 .. Len(pending)
          /\ BatchLen + j \in 1 .. Len(pending)
          /\ i < BatchLen + j
      BY <1>1, <1>2
    <3> QED
      BY <1>3, <1>4, <2>1, <3>1
  <2> QED
    BY <1>3, <1>4, <2>2, <2>3 DEF Increasing, Range
<1> QED
  BY <1>5, <1>6, <1>7

\* What overflow keeps is the queue less at most its head, in order.
LEMMA KeptType ==
    ASSUME TypeOK
    PROVE  /\ Kept \in Seq(Ids)
           /\ Range(Kept) \subseteq Range(pending)
           /\ \A x, y \in Evicted : x = y
           /\ Full \/ Kept = pending
           /\ Increasing(pending) => Increasing(Kept)
<1>1. pending \in Seq(Ids) /\ DOMAIN pending = 1 .. Len(pending)
  BY DEF TypeOK
<1>2. CASE ~Full
  BY <1>1, <1>2 DEF Kept, Evicted
<1>3. CASE Full
  <2>1. Kept = Tail(pending) /\ pending # <<>>
    BY <1>1, <1>3, WriterAssumption, EventsAssumption DEF Kept, Full
  <2>2. /\ Kept \in Seq(Ids)
        /\ DOMAIN Kept = 1 .. Len(pending) - 1
        /\ \A i \in 1 .. Len(pending) - 1 : Kept[i] = pending[i + 1]
    BY <1>1, <2>1
  <2>3. Range(Kept) \subseteq Range(pending) /\ Evicted \subseteq {Head(pending)}
    BY <1>1, <2>1, RangeTail DEF Evicted
  <2>4. ASSUME Increasing(pending) PROVE Increasing(Kept)
    <3>1. ASSUME NEW i \in 1 .. Len(pending) - 1, NEW j \in 1 .. Len(pending) - 1, i < j
          PROVE  Kept[i] < Kept[j]
      <4>1. /\ i + 1 \in DOMAIN pending /\ j + 1 \in DOMAIN pending
            /\ i + 1 < j + 1
        BY <1>1, <3>1
      <4> QED
        BY <2>2, <2>4, <4>1 DEF Increasing
    <3> QED
      BY <2>2, <3>1 DEF Increasing
  <2> QED
    BY <1>3, <2>2, <2>3, <2>4
<1> QED
  BY <1>2, <1>3

-----------------------------------------------------------------------------
(* Each part of the inductive invariant                                     *)

\* Drains head the chain one at a time, and an awaited drain empties the queue.
LEMMA NextFlow ==
    ASSUME TypeOK, Flow, [Next]_vars
    PROVE  Flow'
<1>1. chain \in Seq(Drains) /\ (running => chain # <<>>)
      /\ (~running => batch = <<>> /\ todo = {})
      /\ \A i \in DOMAIN chain : chain[i].by \in Callers => chain[i].all
  BY DEF TypeOK, Flow
<1>2. ASSUME SettleHead, chain # <<>>, todo = {}
      PROVE  Flow'
  <2>1. \A i \in DOMAIN Tail(chain) :
           i + 1 \in DOMAIN chain /\ Tail(chain)[i] = chain[i + 1]
    BY <1>1, <1>2
  <2>2. \A i \in DOMAIN chain' : chain'[i].by \in Callers => chain'[i].all
    BY <1>1, <1>2, <2>1 DEF SettleHead
  <2> QED
    BY <1>2, <2>2 DEF SettleHead, Flow
<1>3. ASSUME TakeBatch, chain # <<>>
      PROVE  Flow'
  BY <1>1, <1>3 DEF TakeBatch, Flow
<1>4. ASSUME NEW d \in Drains, chain' = Append(chain, d), d.by \in Callers => d.all,
             UNCHANGED <<running, batch, todo>>
      PROVE  Flow'
  <2>1. /\ DOMAIN chain' = (1 .. Len(chain)) \cup {Len(chain) + 1}
        /\ DOMAIN chain = 1 .. Len(chain)
        /\ chain'[Len(chain) + 1] = d
        /\ \A i \in 1 .. Len(chain) : chain'[i] = chain[i]
    BY <1>1, <1>4
  <2>2. \A i \in DOMAIN chain' : chain'[i].by \in Callers => chain'[i].all
    BY <1>1, <1>4, <2>1
  <2>3. chain' # <<>>
    BY <1>1, <1>4
  <2> QED
    BY <1>1, <1>4, <2>2, <2>3 DEF Flow
<1>5. ASSUME UNCHANGED <<chain, running, batch, todo>>
      PROVE  Flow'
  BY <1>1, <1>5 DEF Flow
<1>6. ASSUME TimerFires
      PROVE  Flow'
  <2>1. [all |-> FALSE, by |-> "timer"] \in Drains
    BY DEF Drains
  <2> QED
    BY <1>4, <1>6, <2>1, WriterAssumption, EventsAssumption DEF TimerFires, diskVars
<1>7. ASSUME DrainStarts
      PROVE  Flow'
  BY <1>1, <1>2, <1>3, <1>7 DEF DrainStarts
<1>8. ASSUME NEW f \in Files, NEW ok \in BOOLEAN, AppendGroup(f, ok)
      PROVE  Flow'
  BY <1>1, <1>8 DEF AppendGroup, Flow
<1>9. ASSUME BatchDone
      PROVE  Flow'
  BY <1>1, <1>2, <1>3, <1>9 DEF BatchDone
<1>10. ASSUME NEW c \in Callers, FlushCalled(c) \/ CloseCalled(c)
       PROVE  Flow'
  <2>1. DrainFor(c) \in Drains /\ DrainFor(c).all
    BY DEF DrainFor, Drains
  <2>2. chain' = Append(chain, DrainFor(c)) /\ UNCHANGED <<running, batch, todo>>
    BY <1>10 DEF FlushCalled, CloseCalled, Await, diskVars
  <2> QED
    BY <1>4, <2>1, <2>2
<1>11. CASE \/ \E valid \in BOOLEAN : RejectWrite(valid)
            \/ AcceptWrite
            \/ \E c \in Callers : FlushResumes(c) \/ CloseResumes(c)
            \/ UNCHANGED vars
  BY <1>5, <1>11 DEF RejectWrite, AcceptWrite, FlushResumes, CloseResumes, vars, diskVars
<1> QED
  BY <1>6, <1>7, <1>8, <1>9, <1>10, <1>11 DEF Next

\* The queue stays in call order, behind the batch, and no mark is ahead.
LEMMA NextCallOrder ==
    ASSUME TypeOK, CallOrder, [Next]_vars
    PROVE  CallOrder'
<1>1. /\ issued \in Nat
      /\ Range(pending) \subseteq Nat /\ Range(batch) \subseteq Nat
      /\ mark \in [Callers -> Nat]
  BY WriterAssumption, EventsAssumption DEF TypeOK, Range, Ids
<1>2. ASSUME NEW valid \in BOOLEAN, RejectWrite(valid)
      PROVE  CallOrder'
  BY <1>1, <1>2 DEF RejectWrite, CallOrder
<1>3. ASSUME AcceptWrite
      PROVE  CallOrder'
  <2>1. issued' = issued + 1 /\ issued + 1 \in Ids
    BY <1>1, <1>3, WriterAssumption, EventsAssumption DEF AcceptWrite, Ids
  <2>2. Kept \in Seq(Ids) /\ Range(Kept) \subseteq Range(pending) /\ Increasing(Kept)
    BY KeptType DEF CallOrder
  <2>3. pending' = Append(Kept, issued + 1) /\ UNCHANGED <<batch, mark>>
    BY <1>3 DEF AcceptWrite
  <2>4. Range(pending') = Range(Kept) \cup {issued + 1}
    BY <2>1, <2>2, <2>3, RangeAppend
  <2>5. \A e \in Range(Kept) \cup Range(batch) : e \in Nat /\ e < issued + 1
    BY <1>1, <2>2 DEF CallOrder
  <2>6. Increasing(pending')
    <3>1. /\ DOMAIN Kept = 1 .. Len(Kept) /\ Len(Kept) \in Nat
          /\ DOMAIN pending' = 1 .. Len(Kept) + 1
          /\ \A i \in 1 .. Len(Kept) : pending'[i] = Kept[i]
          /\ pending'[Len(Kept) + 1] = issued + 1
      BY <2>1, <2>2, <2>3
    <3>2. \A i \in 1 .. Len(Kept) : Kept[i] < issued + 1
      BY <2>5, <3>1 DEF Range
    <3>3. ASSUME NEW i \in DOMAIN pending', NEW j \in DOMAIN pending', i < j
          PROVE  pending'[i] < pending'[j]
      <4>1. CASE j = Len(Kept) + 1
        BY <3>1, <3>2, <3>3, <4>1
      <4>2. CASE j # Len(Kept) + 1
        BY <2>2, <3>1, <3>3, <4>2 DEF Increasing
      <4> QED
        BY <4>1, <4>2
    <3> QED
      BY <3>3 DEF Increasing
  <2> QED
    BY <1>1, <2>1, <2>2, <2>3, <2>4, <2>5, <2>6 DEF CallOrder
<1>4. ASSUME TakeBatch, UNCHANGED <<issued, mark>>
      PROVE  CallOrder'
  <2>1. Increasing(pending) /\ \A e \in Range(pending) : e <= issued
    BY DEF CallOrder
  <2> QED
    BY <1>4, <2>1, TakeBatchSplits DEF CallOrder
<1>5. ASSUME SettleHead, UNCHANGED <<issued, mark>>
      PROVE  CallOrder'
  <2>1. Range(batch') = {} /\ pending' = pending
    BY <1>5 DEF SettleHead, Range
  <2> QED
    BY <1>5, <2>1 DEF CallOrder
<1>6. ASSUME UNCHANGED <<issued, pending, batch>>,
             \A c \in Callers : mark'[c] <= issued
      PROVE  CallOrder'
  BY <1>6 DEF CallOrder
<1>7. ASSUME DrainStarts \/ BatchDone
      PROVE  CallOrder'
  BY <1>4, <1>5, <1>7 DEF DrainStarts, BatchDone
<1>8. ASSUME NEW c \in Callers,
             FlushCalled(c) \/ CloseCalled(c) \/ FlushResumes(c) \/ CloseResumes(c)
      PROVE  CallOrder'
  <2>1. UNCHANGED <<issued, pending, batch>>
    BY <1>8 DEF FlushCalled, CloseCalled, FlushResumes, CloseResumes, Await
  <2>2. mark' = [mark EXCEPT ![c] = issued] \/ mark' = [mark EXCEPT ![c] = 0]
    BY <1>8 DEF FlushCalled, CloseCalled, FlushResumes, CloseResumes, Await
  <2>3. \A d \in Callers : mark'[d] <= issued
    BY <1>1, <2>2 DEF CallOrder
  <2> QED
    BY <1>6, <2>1, <2>3
<1>9. CASE \/ TimerFires
           \/ \E f \in Files, ok \in BOOLEAN : AppendGroup(f, ok)
           \/ UNCHANGED vars
  BY <1>6, <1>9 DEF TimerFires, AppendGroup, CallOrder, vars
<1> QED
  BY <1>2, <1>3, <1>7, <1>8, <1>9 DEF Next

\* Queued events keep a timer or a drain coming for them.
LEMMA NextNothingStranded ==
    ASSUME TypeOK, Flow, NothingStranded, [Next]_vars
    PROVE  NothingStranded'
<1>1. ASSUME AcceptWrite
      PROVE  NothingStranded'
  <2>1. Kept \in Seq(Ids) /\ issued + 1 \in Ids
    BY <1>1, KeptType, WriterAssumption, EventsAssumption DEF AcceptWrite, TypeOK, Ids
  <2>2. pending' # <<>>
    BY <1>1, <2>1 DEF AcceptWrite
  <2>3. timer'
    BY <1>1, <2>2 DEF AcceptWrite, ScheduleFlush
  <2> QED
    BY <2>3 DEF NothingStranded
<1>2. ASSUME NEW d, chain' = Append(chain, d)
      PROVE  NothingStranded'
  <2>1. chain' # <<>>
    BY <1>2 DEF TypeOK
  <2> QED
    BY <2>1 DEF NothingStranded
<1>3. ASSUME DrainStarts
      PROVE  NothingStranded'
  BY <1>3 DEF DrainStarts, SettleHead, TakeBatch, NothingStranded
<1>4. ASSUME BatchDone
      PROVE  NothingStranded'
  <2>1. CASE Head(chain).all /\ pending # <<>>
    BY <1>4, <2>1 DEF BatchDone, TakeBatch, Flow, NothingStranded
  <2>2. CASE ~(Head(chain).all /\ pending # <<>>)
    BY <1>4, <2>2 DEF BatchDone, SettleHead, ScheduleFlush, NothingStranded
  <2> QED
    BY <2>1, <2>2
<1>5. CASE \/ TimerFires
           \/ \E c \in Callers : FlushCalled(c) \/ CloseCalled(c)
  BY <1>2, <1>5 DEF TimerFires, FlushCalled, CloseCalled, Await
<1>6. CASE \E c \in Callers : CloseResumes(c)
  BY <1>6 DEF CloseResumes, NothingStranded
<1>7. CASE \/ \E valid \in BOOLEAN : RejectWrite(valid)
           \/ \E f \in Files, ok \in BOOLEAN : AppendGroup(f, ok)
           \/ \E c \in Callers : FlushResumes(c)
           \/ UNCHANGED vars
  BY <1>7 DEF RejectWrite, AppendGroup, FlushResumes, NothingStranded, vars
<1> QED
  BY <1>1, <1>3, <1>4, <1>5, <1>6, <1>7 DEF Next

\* A settled flush or close leaves only events written after its call.
LEMMA NextFlushBarrier ==
    ASSUME TypeOK, Flow, CallOrder, FlushBarrier, [Next]_vars
    PROVE  FlushBarrier'
<1>1. /\ issued \in Nat
      /\ Range(pending) \subseteq Nat /\ Range(batch) \subseteq Nat
      /\ mark \in [Callers -> Nat]
      /\ \A c \in Callers : mark[c] <= issued
  BY WriterAssumption, EventsAssumption DEF TypeOK, Range, Ids, CallOrder
<1> DEFINE Waits(c) == phase[c] \in {"flush-settled", "close-settled"}
<1>2. ASSUME UNCHANGED mark,
             \A c \in Callers : Waits(c)' => Waits(c),
             \A e \in Range(pending') \cup Range(batch') :
                e \in Range(pending) \cup Range(batch) \/ e = issued + 1
      PROVE  FlushBarrier'
  BY <1>1, <1>2 DEF FlushBarrier
<1>3. ASSUME UNCHANGED mark, TakeBatch
      PROVE  FlushBarrier'
  BY <1>2, <1>3, TakeBatchSplits DEF TakeBatch
<1>4. ASSUME UNCHANGED mark, SettleHead, chain # <<>>,
             Head(chain).all => pending = <<>>
      PROVE  FlushBarrier'
  <2>1. 1 \in DOMAIN chain /\ Head(chain) = chain[1]
    BY <1>4 DEF TypeOK
  <2>2. pending' = pending /\ Range(batch') = {}
    BY <1>4 DEF SettleHead, Range
  <2>3. CASE Head(chain).by \in Callers
    <3>1. Range(pending') = {}
      BY <1>4, <2>1, <2>2, <2>3 DEF Flow, Range
    <3> QED
      BY <2>2, <3>1 DEF FlushBarrier
  <2>4. CASE Head(chain).by \notin Callers
    <3>1. \A c \in Callers : phase'[c] = phase[c]
      BY <1>4, <2>4 DEF SettleHead
    <3> QED
      BY <1>2, <1>4, <2>2, <3>1
  <2> QED
    BY <2>3, <2>4
<1>5. ASSUME AcceptWrite
      PROVE  FlushBarrier'
  <2>1. Kept \in Seq(Ids) /\ Range(Kept) \subseteq Range(pending) /\ issued + 1 \in Ids
    BY <1>5, KeptType, WriterAssumption, EventsAssumption DEF AcceptWrite, TypeOK, Ids
  <2>2. Range(pending') = Range(Kept) \cup {issued + 1}
    BY <1>5, <2>1, RangeAppend DEF AcceptWrite
  <2> QED
    BY <1>2, <1>5, <2>1, <2>2 DEF AcceptWrite
<1>6. ASSUME DrainStarts
      PROVE  FlushBarrier'
  BY <1>3, <1>4, <1>6 DEF DrainStarts
<1>7. ASSUME BatchDone
      PROVE  FlushBarrier'
  <2>1. chain # <<>>
    BY <1>7 DEF BatchDone, Flow
  <2> QED
    BY <1>3, <1>4, <1>7, <2>1 DEF BatchDone
<1>8. ASSUME NEW c \in Callers,
             FlushCalled(c) \/ CloseCalled(c) \/ FlushResumes(c) \/ CloseResumes(c)
      PROVE  FlushBarrier'
  <2>1. /\ UNCHANGED <<pending, batch>>
        /\ \A d \in Callers \ {c} : mark'[d] = mark[d] /\ phase'[d] = phase[d]
        /\ ~Waits(c)'
    BY <1>8 DEF FlushCalled, CloseCalled, FlushResumes, CloseResumes, Await, TypeOK
  <2> QED
    BY <2>1 DEF FlushBarrier
<1>9. CASE \/ \E valid \in BOOLEAN : RejectWrite(valid)
           \/ TimerFires
           \/ \E f \in Files, ok \in BOOLEAN : AppendGroup(f, ok)
           \/ UNCHANGED vars
  BY <1>2, <1>9 DEF RejectWrite, TimerFires, AppendGroup, vars
<1> QED
  BY <1>5, <1>6, <1>7, <1>8, <1>9 DEF Next

-----------------------------------------------------------------------------
(* The theorems                                                             *)

LEMMA InitIInv == Init => IInv
<1> SUFFICES ASSUME Init PROVE IInv
  OBVIOUS
<1>1. TypeOK
  BY InitTypeOK
<1>2. Range(<<>>) = {} /\ Increasing(<<>>)
  BY DEF Range, Increasing
<1>3. Flow
  BY DEF Init, Flow
<1>4. CallOrder
  BY <1>2 DEF Init, CallOrder
<1>5. NothingStranded /\ FlushBarrier
  BY DEF Init, NothingStranded, FlushBarrier
<1> QED
  BY <1>1, <1>3, <1>4, <1>5 DEF IInv

LEMMA NextIInv == IInv /\ [Next]_vars => IInv'
BY NextTypeOK, NextFlow, NextCallOrder, NextNothingStranded, NextFlushBarrier
   DEF IInv

\* IInv is an invariant of the writer.
THEOREM InductiveInvariant == Spec => []IInv
BY InitIInv, NextIInv, PTL DEF Spec

\* Types, and with them the bounds on the queue and on a batch, for every
\* number of events, files and callers and every queue and batch size.
THEOREM TypeCorrect == Spec => []TypeOK
<1>1. IInv => TypeOK
  BY DEF IInv
<1> QED
  BY <1>1, InductiveInvariant, PTL

\* An open writer never holds an event that no timer and no drain will take.
THEOREM NeverStranded == Spec => []NothingStranded
<1>1. IInv => NothingStranded
  BY DEF IInv
<1> QED
  BY <1>1, InductiveInvariant, PTL

\* flush() and close() are barriers: what was written before the call has left
\* the writer when their drain settles.
THEOREM FlushIsBarrier == Spec => []FlushBarrier
<1>1. IInv => FlushBarrier
  BY DEF IInv
<1> QED
  BY <1>1, InductiveInvariant, PTL

-----------------------------------------------------------------------------
(* The ledger                                                               *)

LEMMA BatchIncreases ==
    ASSUME TypeOK, TakeBatch, Increasing(pending)
    PROVE  Increasing(batch')
<1>1. BatchLen \in 0 .. Len(pending) /\ batch' = SubSeq(pending, 1, BatchLen)
  BY BatchLenType DEF TypeOK, TakeBatch
<1>2. /\ pending \in Seq(Ids) /\ DOMAIN pending = 1 .. Len(pending)
      /\ DOMAIN batch' = 1 .. BatchLen
      /\ \A i \in 1 .. BatchLen : batch'[i] = pending[i]
  BY <1>1 DEF TypeOK
<1>3. \A i \in 1 .. BatchLen : i \in DOMAIN pending
  BY <1>1, <1>2
<1> QED
  BY <1>2, <1>3 DEF Increasing

\* The batch stays in the order of the calls.
LEMMA NextBatchIncreases ==
    ASSUME TypeOK, CallOrder, Increasing(batch), [Next]_vars
    PROVE  Increasing(batch')
<1>1. ASSUME SettleHead PROVE Increasing(batch')
  BY <1>1 DEF SettleHead, Increasing
<1>2. ASSUME TakeBatch PROVE Increasing(batch')
  BY <1>2, BatchIncreases DEF CallOrder
<1>3. CASE DrainStarts \/ BatchDone
  BY <1>1, <1>2, <1>3 DEF DrainStarts, BatchDone
<1>4. CASE \/ \E valid \in BOOLEAN : RejectWrite(valid)
           \/ AcceptWrite \/ TimerFires
           \/ \E f \in Files, ok \in BOOLEAN : AppendGroup(f, ok)
           \/ \E c \in Callers : \/ FlushCalled(c) \/ FlushResumes(c)
                                 \/ CloseCalled(c) \/ CloseResumes(c)
           \/ UNCHANGED vars
  BY <1>4 DEF RejectWrite, AcceptWrite, TimerFires, AppendGroup, FlushCalled,
              FlushResumes, CloseCalled, CloseResumes, Await, vars
<1> QED
  BY <1>3, <1>4 DEF Next

\* Where the events are: the first four conjuncts of Ledger.
InOnePlace ==
    /\ Range(pending) \cup InFlight \cup OnDisk \cup discarded = 1 .. issued
    /\ OnDisk \cap discarded = {}
    /\ Range(pending) \cap (Range(batch) \cup OnDisk \cup discarded) = {}
    /\ InFlight \cap (OnDisk \cup discarded) = {}

Rows == OnDisk \ Range(batch)
Losses == discarded \ Range(batch)

LEMMA Places ==
    ASSUME TypeOK
    PROVE  /\ OnDisk \in SUBSET Ids /\ discarded \in SUBSET Ids
           /\ Range(batch) \in SUBSET Ids /\ Range(pending) \in SUBSET Ids
           /\ issued \in Nat
BY EventsAssumption DEF TypeOK, OnDisk, Range

\* An increasing sequence has as many positions with an element of T as T and
\* the sequence have elements in common.
LEMMA PositionsCount ==
    ASSUME NEW s \in Seq(Ids), Increasing(s), NEW T
    PROVE  Cardinality({i \in DOMAIN s : s[i] \in T}) = Cardinality(Range(s) \cap T)
<1> DEFINE P == {i \in DOMAIN s : s[i] \in T}
           g == [i \in P |-> s[i]]
<1>1. /\ DOMAIN s = 1 .. Len(s) /\ Len(s) \in Nat
      /\ \A i \in DOMAIN s : s[i] \in Nat
  BY EventsAssumption DEF Ids
<1>2. IsFiniteSet(1 .. Len(s))
  BY <1>1, FS_Interval
<1>3. IsFiniteSet(P)
  BY <1>1, <1>2, FS_Subset
<1>4. g \in [P -> Range(s) \cap T]
  BY DEF Range
<1>5. ASSUME NEW i \in P, NEW j \in P, g[i] = g[j]
      PROVE  i = j
  <2>1. ~(i < j) /\ ~(j < i)
    BY <1>1, <1>5 DEF Increasing
  <2> QED
    BY <1>1, <2>1
<1>6. \A e \in Range(s) \cap T : \E i \in P : g[i] = e
  BY DEF Range
<1>7. g \in Injection(P, Range(s) \cap T) /\ g \in Surjection(P, Range(s) \cap T)
  BY <1>4, <1>5, <1>6 DEF Injection, IsInjective, Surjection
<1>8. ExistsBijection(P, Range(s) \cap T)
  BY <1>7 DEF ExistsBijection, Bijection
<1> QED
  BY <1>3, <1>8, FS_Bijection

\* What a batch adds to the statistics is what became of its events.
LEMMA BatchCounts ==
    ASSUME TypeOK, CallOrder, InOnePlace, Increasing(batch), todo = {}
    PROVE  LET refused == {i \in DOMAIN batch : batch[i] \in discarded} IN
           /\ Cardinality(OnDisk) = Cardinality(Rows) + Len(batch) - Cardinality(refused)
           /\ Cardinality(discarded) = Cardinality(Losses) + Cardinality(refused)
           /\ Len(batch) - Cardinality(refused) \in Nat /\ Cardinality(refused) \in Nat
<1> DEFINE B == Range(batch)
           refused == {i \in DOMAIN batch : batch[i] \in discarded}
<1>1. batch \in Seq(Ids) /\ DOMAIN batch = 1 .. Len(batch) /\ Len(batch) \in Nat
  BY DEF TypeOK
<1>2. Cardinality(refused) = Cardinality(B \cap discarded)
  BY <1>1, PositionsCount
<1>3. Len(batch) = Cardinality(B)
  <2>1. {i \in DOMAIN batch : batch[i] \in Ids} = 1 .. Len(batch) /\ B \cap Ids = B
    BY <1>1 DEF Range
  <2>2. Cardinality(1 .. Len(batch)) = Len(batch)
    BY <1>1, FS_Interval
  <2> QED
    BY <1>1, <2>1, <2>2, PositionsCount
<1>4. B \subseteq OnDisk \cup discarded
  BY Places DEF InOnePlace, InFlight, CallOrder, Ids
<1>5. /\ IsFiniteSet(B) /\ IsFiniteSet(OnDisk) /\ IsFiniteSet(discarded)
      /\ Cardinality(B) \in Nat /\ Cardinality(OnDisk) \in Nat /\ Cardinality(discarded) \in Nat
      /\ Cardinality(B \cap OnDisk) \in Nat /\ Cardinality(B \cap discarded) \in Nat
  BY Places, IdsFinite
<1>6. B \ discarded = B \cap OnDisk
  BY <1>4 DEF InOnePlace
<1>7. Cardinality(B \cap OnDisk) = Cardinality(B) - Cardinality(B \cap discarded)
  BY <1>5, <1>6, FS_Difference
<1>8. OnDisk \cap B = B \cap OnDisk /\ discarded \cap B = B \cap discarded
  OBVIOUS
<1>9. /\ Cardinality(Rows) = Cardinality(OnDisk) - Cardinality(B \cap OnDisk)
      /\ Cardinality(Losses) = Cardinality(discarded) - Cardinality(B \cap discarded)
  <2>1. Cardinality(Rows) = Cardinality(OnDisk) - Cardinality(OnDisk \cap B)
    BY <1>5, FS_Difference DEF Rows
  <2>2. Cardinality(Losses) = Cardinality(discarded) - Cardinality(discarded \cap B)
    BY <1>5, FS_Difference DEF Losses
  <2> QED
    BY <1>8, <2>1, <2>2
<1>10. /\ Cardinality(OnDisk) = Cardinality(Rows) + Len(batch) - Cardinality(refused)
       /\ Cardinality(discarded) = Cardinality(Losses) + Cardinality(refused)
       /\ Len(batch) - Cardinality(refused) \in Nat /\ Cardinality(refused) \in Nat
  <2> HIDE DEF B, refused
  <2>1. Cardinality(Rows) \in Int /\ Cardinality(Losses) \in Int
    BY <1>5, <1>9
  <2> QED
    BY <1>2, <1>3, <1>5, <1>7, <1>9, <2>1
<1> QED
  BY <1>10

\* Between two batches each event stays where it is.
LEMMA QueueStep ==
    ASSUME TypeOK, CallOrder, InOnePlace, todo = {}, TakeBatch \/ SettleHead,
           UNCHANGED <<issued, file, discarded>>
    PROVE  InOnePlace' /\ Rows' = OnDisk /\ Losses' = discarded
<1>1. OnDisk' = OnDisk /\ InFlight = {}
  BY DEF OnDisk, InFlight
<1>2. CASE TakeBatch
  <2>1. /\ Range(pending) = Range(batch') \cup Range(pending')
        /\ InFlight' = Range(batch')
        /\ \A x \in Range(batch'), y \in Range(pending') : x < y
    BY <1>2, TakeBatchSplits DEF InFlight, CallOrder
  <2>2. Range(pending') \cap Range(batch') = {}
    <3>1. \A x \in Range(pending) : x \in Nat /\ ~(x < x)
      BY Places DEF Ids
    <3> QED
      BY <2>1, <3>1
  <2> QED
    BY <1>1, <2>1, <2>2 DEF InOnePlace, Rows, Losses
<1>3. CASE SettleHead
  <2>1. Range(batch') = {} /\ InFlight' = {} /\ pending' = pending
    BY <1>3 DEF SettleHead, InFlight, Range
  <2> QED
    BY <1>1, <2>1 DEF InOnePlace, Rows, Losses
<1> QED
  BY <1>2, <1>3

LEMMA NextLedger ==
    ASSUME IInv, Ledger, Increasing(batch), [Next]_vars
    PROVE  Ledger'
<1> USE DEF IInv
<1>1. InOnePlace /\ stats.written = Cardinality(Rows) /\ stats.dropped = Cardinality(Losses)
  BY DEF Ledger, InOnePlace, Rows, Losses
<1>2. stats.written \in Nat /\ stats.dropped \in Nat
  BY DEF TypeOK
<1>3. SUFFICES InOnePlace' /\ stats'.written = Cardinality(Rows') /\ stats'.dropped = Cardinality(Losses')
  BY DEF Ledger, InOnePlace, Rows, Losses
<1>4. /\ issued \in Nat /\ 1 .. (issued + 1) = (1 .. issued) \cup {issued + 1}
      /\ issued + 1 \notin 1 .. issued
  BY Places
<1>5. Range(batch) \subseteq 1 .. issued
  BY Places DEF CallOrder, Ids
<1>6. IsFiniteSet(Losses) /\ Cardinality(Losses) \in Nat
  BY Places, IdsFinite DEF Losses
<1>7. ASSUME NEW valid \in BOOLEAN, RejectWrite(valid)
      PROVE  InOnePlace' /\ stats'.written = Cardinality(Rows') /\ stats'.dropped = Cardinality(Losses')
  <2>1. /\ UNCHANGED <<pending, batch, todo, file>>
        /\ issued' = issued + 1 /\ discarded' = discarded \cup {issued + 1}
        /\ stats' = Counted(0, 1, 0)
    BY <1>7 DEF RejectWrite, diskVars
  <2>2. OnDisk' = OnDisk /\ InFlight' = InFlight
    BY <2>1 DEF OnDisk, InFlight
  <2>3. Rows' = Rows /\ Losses' = Losses \cup {issued + 1} /\ issued + 1 \notin Losses
    BY <1>1, <1>4, <1>5, <2>1, <2>2 DEF Rows, Losses, InOnePlace
  <2>4. Cardinality(Losses') = Cardinality(Losses) + 1
    BY <1>6, <2>3, FS_AddElement
  <2>5. InOnePlace'
    BY <1>1, <1>4, <2>1, <2>2 DEF InOnePlace
  <2>6. stats'.written = stats.written /\ stats'.dropped = stats.dropped + 1
    BY <1>2, <2>1 DEF Counted
  <2> QED
    BY <1>1, <2>3, <2>4, <2>5, <2>6
<1>8. ASSUME AcceptWrite
      PROVE  InOnePlace' /\ stats'.written = Cardinality(Rows') /\ stats'.dropped = Cardinality(Losses')
  <2>1. /\ UNCHANGED <<batch, todo, file>>
        /\ issued' = issued + 1 /\ discarded' = discarded \cup Evicted
        /\ pending' = Append(Kept, issued + 1)
        /\ stats' = Counted(0, Cardinality(Evicted), 0)
        /\ issued + 1 \in Ids
    BY <1>4, <1>8, EventsAssumption DEF AcceptWrite, diskVars, Ids
  <2>2. OnDisk' = OnDisk /\ InFlight' = InFlight
    BY <2>1 DEF OnDisk, InFlight
  <2>3. /\ Range(pending') = Range(Kept) \cup {issued + 1}
        /\ Range(pending) = Range(Kept) \cup Evicted /\ Range(Kept) \cap Evicted = {}
    BY <2>1, KeptType, RangeAppend DEF Evicted
  <2>4. Evicted \cap (Range(batch) \cup OnDisk \cup discarded \cup InFlight) = {}
    BY <1>1, <2>3 DEF InOnePlace, InFlight
  <2>5. InOnePlace'
    BY <1>1, <1>4, <1>5, <2>1, <2>2, <2>3, <2>4 DEF InOnePlace
  <2>6. Rows' = Rows /\ Losses' = Losses \cup Evicted /\ Losses \cap Evicted = {}
    BY <2>1, <2>2, <2>4 DEF Rows, Losses
  <2>7. IsFiniteSet(Evicted) /\ Cardinality(Evicted) \in Nat
    BY Places, IdsFinite DEF Evicted
  <2>8. Cardinality(Losses') = Cardinality(Losses) + Cardinality(Evicted)
    BY <1>6, <2>6, <2>7, FS_Union, FS_EmptySet
  <2>9. stats'.written = stats.written /\ stats'.dropped = stats.dropped + Cardinality(Evicted)
    BY <1>2, <2>1, <2>7 DEF Counted
  <2> QED
    BY <1>1, <2>5, <2>6, <2>8, <2>9
<1>9. ASSUME DrainStarts
      PROVE  InOnePlace' /\ stats'.written = Cardinality(Rows') /\ stats'.dropped = Cardinality(Losses')
  <2>1. batch = <<>> /\ todo = {} /\ UNCHANGED <<issued, file, discarded, stats>>
    BY <1>9 DEF DrainStarts, Flow
  <2>2. TakeBatch \/ SettleHead
    BY <1>9 DEF DrainStarts
  <2>3. Range(batch) = {}
    BY <2>1 DEF Range
  <2>4. Rows = OnDisk /\ Losses = discarded
    BY <2>3 DEF Rows, Losses
  <2> QED
    BY <1>1, <2>1, <2>2, <2>4, QueueStep
<1>10. ASSUME BatchDone
       PROVE  InOnePlace' /\ stats'.written = Cardinality(Rows') /\ stats'.dropped = Cardinality(Losses')
  <2> DEFINE refused == {i \in DOMAIN batch : batch[i] \in discarded}
  <2>1. todo = {} /\ (TakeBatch \/ SettleHead) /\ UNCHANGED <<issued, file, discarded>>
    BY <1>10 DEF BatchDone
  <2>2. stats' = Counted(Len(batch) - Cardinality(refused), Cardinality(refused), 0)
    BY <1>10 DEF BatchDone
  <2>3. InOnePlace' /\ Rows' = OnDisk /\ Losses' = discarded
    BY <1>1, <2>1, QueueStep
  <2>4. /\ Cardinality(OnDisk) = Cardinality(Rows) + Len(batch) - Cardinality(refused)
        /\ Cardinality(discarded) = Cardinality(Losses) + Cardinality(refused)
    BY <1>1, <2>1, BatchCounts
  <2>5. Len(batch) \in Nat /\ Cardinality(refused) \in Nat
    BY <1>1, <2>1, BatchCounts DEF TypeOK
  <2> HIDE DEF refused
  <2>6. /\ stats'.written = stats.written + (Len(batch) - Cardinality(refused))
        /\ stats'.dropped = stats.dropped + Cardinality(refused)
    BY <2>2 DEF Counted
  <2> QED
    BY <1>1, <1>2, <2>3, <2>4, <2>5, <2>6
<1>11. ASSUME NEW f \in Files, NEW ok \in BOOLEAN, AppendGroup(f, ok)
       PROVE  InOnePlace' /\ stats'.written = Cardinality(Rows') /\ stats'.dropped = Cardinality(Losses')
  <2> DEFINE group == {e \in Range(batch) : FileOf[e] = f}
  <2>1. /\ f \in todo /\ todo' = todo \ {f}
        /\ file' = IF ok THEN [file EXCEPT ![f] = @ \cup group] ELSE file
        /\ discarded' = IF ok THEN discarded ELSE discarded \cup group
        /\ UNCHANGED <<issued, pending, batch, stats>>
    BY <1>11 DEF AppendGroup
  <2>2. InFlight' = InFlight \ group /\ group \subseteq InFlight /\ group \subseteq Range(batch)
    BY <2>1 DEF InFlight
  <2>3. OnDisk' = IF ok THEN OnDisk \cup group ELSE OnDisk
    BY <2>1 DEF OnDisk, TypeOK
  <2> HIDE DEF group
  <2>4. InOnePlace'
    BY <1>1, <2>1, <2>2, <2>3 DEF InOnePlace
  <2>5. Rows' = Rows /\ Losses' = Losses
    BY <2>1, <2>2, <2>3 DEF Rows, Losses
  <2> QED
    BY <1>1, <2>1, <2>4, <2>5
<1>12. CASE \/ TimerFires
            \/ \E c \in Callers : \/ FlushCalled(c) \/ FlushResumes(c)
                                  \/ CloseCalled(c) \/ CloseResumes(c)
            \/ UNCHANGED vars
  <2>1. UNCHANGED <<issued, pending, batch, todo, file, discarded>>
    BY <1>12 DEF TimerFires, FlushCalled, CloseCalled, FlushResumes, CloseResumes, Await,
                 vars, diskVars
  <2>2. stats' = stats \/ stats' = Counted(0, 0, 1)
    BY <1>12 DEF TimerFires, FlushCalled, CloseCalled, FlushResumes, CloseResumes, Await, vars
  <2>3. stats'.written = stats.written /\ stats'.dropped = stats.dropped
    BY <1>2, <2>2 DEF Counted
  <2>4. OnDisk' = OnDisk /\ InFlight' = InFlight
    BY <2>1 DEF OnDisk, InFlight
  <2> QED
    BY <1>1, <2>1, <2>3, <2>4 DEF InOnePlace, Rows, Losses
<1> QED
  BY <1>7, <1>8, <1>9, <1>10, <1>11, <1>12 DEF Next

\* Whatever writes, timers, flushes and closes do to each other, every event is
\* in one place, and getStats() counts what became of the batches done.
THEOREM LedgerExact == Spec => []Ledger
<1>1. Init => Ledger /\ Increasing(batch)
  <2> SUFFICES ASSUME Init PROVE Ledger /\ Increasing(batch)
    OBVIOUS
  <2>1. Range(pending) = {} /\ Range(batch) = {} /\ OnDisk = {} /\ Increasing(batch)
    BY DEF Init, Range, OnDisk, Increasing
  <2> QED
    BY <2>1, FS_EmptySet DEF Init, Ledger, InFlight
<1>2. IInv /\ Increasing(batch) /\ [Next]_vars => Increasing(batch)'
  BY NextBatchIncreases DEF IInv
<1>3. IInv /\ Ledger /\ Increasing(batch) /\ [Next]_vars => Ledger'
  BY NextLedger
<1> QED
  BY <1>1, <1>2, <1>3, InductiveInvariant, PTL DEF Spec

-----------------------------------------------------------------------------
(* Overflow                                                                 *)

\* What makes room is older than all that is kept.
LEMMA EvictedIsOldest ==
    ASSUME TypeOK, Increasing(pending)
    PROVE  \A e \in Evicted, kept \in Range(Kept) : e < kept
<1>1. pending \in Seq(Ids) /\ DOMAIN pending = 1 .. Len(pending)
  BY DEF TypeOK
<1>2. CASE ~Full
  BY <1>2 DEF Kept, Evicted
<1>3. CASE Full
  <2>1. Kept = Tail(pending) /\ pending # <<>>
    BY <1>1, <1>3, WriterAssumption DEF Kept, Full
  <2>2. /\ DOMAIN Kept = 1 .. Len(pending) - 1
        /\ \A i \in 1 .. Len(pending) - 1 : Kept[i] = pending[i + 1]
        /\ Head(pending) = pending[1] /\ 1 \in DOMAIN pending
    BY <1>1, <2>1
  <2>3. Evicted \subseteq {pending[1]}
    BY <1>1, <2>1, <2>2, RangeTail DEF Evicted
  <2>4. ASSUME NEW i \in DOMAIN Kept
        PROVE  pending[1] < Kept[i]
    <3>1. i + 1 \in DOMAIN pending /\ 1 < i + 1
      BY <1>1, <2>2
    <3> QED
      BY <2>2, <3>1 DEF Increasing
  <2> QED
    BY <2>3, <2>4 DEF Range
<1> QED
  BY <1>2, <1>3

\* Only an overflow under drop-oldest takes an event out of the queue to drop
\* it, and it takes the oldest.
THEOREM OverflowDropsOldest == Spec => OverflowPolicy
<1> DEFINE Evicts == \A e \in Range(pending) : e \in discarded' =>
                        /\ overflow = "drop-oldest"
                        /\ \A kept \in Range(pending') : e < kept
<1>1. ASSUME IInv, Ledger, [Next]_vars
      PROVE  [Evicts]_vars
  <2>1. \A e \in Range(pending) : e \in Ids /\ e <= issued /\ e \notin discarded \cup Range(batch)
    BY <1>1, Places DEF IInv, CallOrder, Ledger
  <2>2. SUFFICES ASSUME NEW e \in Range(pending), e \in discarded'
                 PROVE  overflow = "drop-oldest" /\ \A kept \in Range(pending') : e < kept
    OBVIOUS
  <2>3. issued \in Nat /\ e \in Nat /\ e <= issued
    BY <1>1, <2>1, Places DEF IInv, Ids
  <2>4. CASE \E valid \in BOOLEAN : RejectWrite(valid)
    BY <2>1, <2>2, <2>3, <2>4 DEF RejectWrite
  <2>5. CASE AcceptWrite
    <3>1. e \in Evicted /\ pending' = Append(Kept, issued + 1) /\ issued + 1 \in Ids
      BY <2>1, <2>2, <2>3, <2>5, EventsAssumption DEF AcceptWrite, Ids
    <3>2. overflow = "drop-oldest"
      BY <1>1, <2>5, <3>1, KeptType DEF AcceptWrite, Evicted, IInv
    <3>3. Range(pending') = Range(Kept) \cup {issued + 1}
      BY <1>1, <3>1, KeptType, RangeAppend DEF IInv
    <3>4. \A kept \in Range(Kept) : e < kept
      BY <1>1, <3>1, EvictedIsOldest DEF IInv, CallOrder
    <3> QED
      BY <2>3, <3>2, <3>3, <3>4
  <2>6. CASE \E f \in Files, ok \in BOOLEAN : AppendGroup(f, ok)
    BY <2>1, <2>2, <2>6 DEF AppendGroup
  <2>7. CASE \/ TimerFires \/ DrainStarts \/ BatchDone
             \/ \E c \in Callers : \/ FlushCalled(c) \/ FlushResumes(c)
                                   \/ CloseCalled(c) \/ CloseResumes(c)
             \/ UNCHANGED vars
    BY <2>1, <2>2, <2>7 DEF TimerFires, DrainStarts, BatchDone, FlushCalled, FlushResumes,
                            CloseCalled, CloseResumes, Await, vars
  <2> QED
    BY <1>1, <2>4, <2>5, <2>6, <2>7 DEF Next
<1> QED
  BY <1>1, InductiveInvariant, LedgerExact, PTL DEF Spec, OverflowPolicy

-----------------------------------------------------------------------------
(* Refinement                                                               *)

\* The trace sink's queue, as the writer holds it.
Held == Range(pending) \cup InFlight

\* Starting a batch moves events from the queue to the batch and nowhere else.
LEMMA TakeBatchHolds ==
    ASSUME TypeOK, TakeBatch, todo = {}
    PROVE  Held' = Held
<1>1. InFlight = {}
  BY DEF InFlight
<1>2. InFlight' = Range(batch')
  BY TakeBatchSplits DEF InFlight
<1> QED
  BY <1>1, <1>2, TakeBatchSplits DEF Held

LEMMA SettleHeadHolds ==
    ASSUME SettleHead, todo = {}
    PROVE  Held' = Held
BY DEF SettleHead, Held, InFlight

\* Every step of the writer is a step of the trace sink, or none.
LEMMA NextImplements ==
    ASSUME IInv, [Next]_vars
    PROVE  [Sink!SinkNext]_(Sink!sinkVars)
<1> USE DEF IInv
<1>1. /\ issued \in Nat
      /\ Held \subseteq Ids /\ Held \subseteq Nat
      /\ \A e \in Held : e <= issued
      /\ issued + 1 \notin Held
  <2>1. issued \in Nat /\ Ids \subseteq Nat
    BY WriterAssumption, EventsAssumption DEF TypeOK, Ids
  <2>2. Range(pending) \subseteq Ids /\ InFlight \subseteq Range(batch)
        /\ Range(batch) \subseteq Ids
    BY DEF TypeOK, InFlight, Range
  <2>3. \A e \in Held : e \in Nat /\ e <= issued
    BY <2>1, <2>2 DEF CallOrder, Held
  <2>4. issued + 1 \notin Held
    BY <2>1, <2>3
  <2> QED
    BY <2>1, <2>2, <2>3, <2>4 DEF Held
<1>2. ASSUME UNCHANGED <<issued, file, discarded>>, Held' = Held
      PROVE  UNCHANGED Sink!sinkVars
  BY <1>2 DEF Sink!sinkVars, Held, OnDisk
<1>3. ASSUME NEW gone \in SUBSET (Held \cup {issued + 1}),
             \A x, y \in gone : x = y,
             issued < MaxEvents, issued' = issued + 1, UNCHANGED file,
             discarded' = discarded \cup gone,
             Held' = (Held \cup {issued + 1}) \ gone
      PROVE  Sink!SinkNext
  <2>1. Sink!Offer(gone)
    BY <1>3 DEF Sink!Offer, Held, OnDisk
  <2> QED
    BY <1>3, <2>1 DEF Sink!SinkNext, Held
<1>4. ASSUME NEW valid \in BOOLEAN, RejectWrite(valid)
      PROVE  Sink!SinkNext
  <2>1. Held' = Held
    BY <1>4 DEF RejectWrite, diskVars, Held, InFlight
  <2>2. Held' = (Held \cup {issued + 1}) \ {issued + 1}
    BY <1>1, <2>1
  <2>3. {issued + 1} \in SUBSET (Held \cup {issued + 1})
    OBVIOUS
  <2>4. /\ issued < MaxEvents /\ issued' = issued + 1 /\ file' = file
        /\ discarded' = discarded \cup {issued + 1}
    BY <1>4 DEF RejectWrite, diskVars
  <2> QED
    BY <1>3, <2>2, <2>3, <2>4
<1>5. ASSUME AcceptWrite
      PROVE  Sink!SinkNext
  <2>1. /\ Kept \in Seq(Ids) /\ Range(Kept) \subseteq Range(pending)
        /\ \A x, y \in Evicted : x = y
        /\ issued + 1 \in Ids
    BY <1>1, <1>5, KeptType, WriterAssumption, EventsAssumption DEF AcceptWrite, Ids
  <2>2. Range(pending') = Range(Kept) \cup {issued + 1}
    BY <1>5, <2>1, RangeAppend DEF AcceptWrite
  <2>3. /\ Evicted \subseteq Range(pending)
        /\ Range(Kept) = Range(pending) \ Evicted
    BY <2>1 DEF Evicted
  <2>4. InFlight' = InFlight /\ InFlight \subseteq Range(batch)
    BY <1>5 DEF AcceptWrite, diskVars, InFlight
  <2>5. Range(batch) \cap Range(pending) = {}
    <3>1. Range(pending) \subseteq Nat
      BY <1>1 DEF Held
    <3> QED
      BY <3>1 DEF CallOrder
  <2>6. Held' = (Held \cup {issued + 1}) \ Evicted
    BY <1>1, <2>2, <2>3, <2>4, <2>5 DEF Held
  <2>7. Evicted \in SUBSET (Held \cup {issued + 1})
    BY <2>3 DEF Held
  <2> QED
    BY <1>3, <1>5, <2>1, <2>6, <2>7 DEF AcceptWrite, diskVars
<1>6. ASSUME NEW f \in Files, NEW ok \in BOOLEAN, AppendGroup(f, ok)
      PROVE  Sink!SinkNext
  <2> DEFINE group == {e \in Range(batch) : FileOf[e] = f}
  <2>1. /\ f \in todo /\ todo' = todo \ {f}
        /\ file' = IF ok THEN [file EXCEPT ![f] = @ \cup group] ELSE file
        /\ discarded' = IF ok THEN discarded ELSE discarded \cup group
        /\ UNCHANGED <<issued, pending, batch>>
    BY <1>6 DEF AppendGroup
  <2>2. group \subseteq InFlight /\ InFlight' = InFlight \ group
    BY <2>1 DEF InFlight
  <2>3. \A x \in Range(batch), y \in Range(pending) : x < y /\ x \in Nat /\ y \in Nat
    BY WriterAssumption, EventsAssumption DEF CallOrder, TypeOK, Range, Ids
  <2>4. group \cap Range(pending) = {}
    BY <2>3
  <2>5. Held' = Held \ group /\ group \in SUBSET Held
    BY <2>1, <2>2, <2>4 DEF Held
  <2>6. ASSUME NEW x \in group, NEW y \in Held \ group, FileOf[x] = FileOf[y]
        PROVE  x < y
    BY <2>3, <2>6 DEF Held, InFlight
  <2>7. Sink!Oldest(group)
    BY <2>6 DEF Sink!Oldest, Held
  <2>8. CASE ok
    <3>1. OnDisk' = OnDisk \cup group
      <4>1. file' = [file EXCEPT ![f] = @ \cup group] /\ file \in [Files -> SUBSET Ids]
        BY <2>1, <2>8 DEF TypeOK
      <4>2. /\ file'[f] = file[f] \cup group
            /\ \A g \in Files \ {f} : file'[g] = file[g]
        BY <4>1
      <4> QED
        BY <4>2 DEF OnDisk
    <3>2. Sink!Land(group)
      BY <2>1, <2>5, <2>7, <2>8, <3>1 DEF Sink!Land, Held
    <3> QED
      BY <2>5, <3>2 DEF Sink!SinkNext, Held
  <2>9. CASE ~ok
    <3>1. OnDisk' = OnDisk
      BY <2>1, <2>9 DEF OnDisk
    <3>2. Sink!GiveUp(group)
      BY <2>1, <2>5, <2>7, <2>9, <3>1 DEF Sink!GiveUp, Held
    <3> QED
      BY <2>5, <3>2 DEF Sink!SinkNext, Held
  <2> QED
    BY <2>8, <2>9
<1>7. ASSUME DrainStarts \/ BatchDone
      PROVE  UNCHANGED Sink!sinkVars
  <2>1. todo = {}
    BY <1>7 DEF DrainStarts, BatchDone, Flow
  <2>2. Held' = Held
    BY <1>7, <2>1, TakeBatchHolds, SettleHeadHolds DEF DrainStarts, BatchDone
  <2> QED
    BY <1>2, <1>7, <2>2 DEF DrainStarts, BatchDone
<1>8. CASE \/ TimerFires
           \/ \E c \in Callers : \/ FlushCalled(c) \/ CloseCalled(c)
                                 \/ FlushResumes(c) \/ CloseResumes(c)
           \/ UNCHANGED vars
  <2>1. UNCHANGED <<issued, file, discarded, pending, batch, todo>>
    BY <1>8 DEF TimerFires, FlushCalled, CloseCalled, FlushResumes, CloseResumes,
                Await, diskVars, vars
  <2>2. Held' = Held
    BY <2>1 DEF Held, InFlight
  <2> QED
    BY <1>2, <2>1, <2>2
<1> QED
  BY <1>4, <1>5, <1>6, <1>7, <1>8 DEF Next

\* bufferedFileWriter implements the trace sink: whatever the interleaving of
\* writes, timers, drains and failing appends, an event leaves the queue only
\* for its file or for the discarded ones, and per file oldest first.
THEOREM BufferedImplementsSink == Spec => ImplementsSink
<1>1. Init => Sink!SinkInit
  BY DEF Init, Sink!SinkInit, Range, InFlight, OnDisk
<1> QED
  BY <1>1, NextImplements, InductiveInvariant, PTL
     DEF Spec, ImplementsSink, Sink!SinkSpec

\* What keeps the rows of a sink in order: those on disk precede the queued ones.
LEMMA SinkInductive == Spec => []Sink!SinkIInv
<1>1. Sink!SinkInit => Sink!SinkIInv
  BY DEF Sink!SinkInit, Sink!SinkIInv
<1>2. Sink!SinkIInv /\ [Sink!SinkNext]_(Sink!sinkVars) => Sink!SinkIInv'
  <2> SUFFICES ASSUME Sink!SinkIInv, [Sink!SinkNext]_(Sink!sinkVars)
               PROVE  Sink!SinkIInv'
    OBVIOUS
  <2>1. ASSUME NEW gone, Sink!Offer(gone)
        PROVE  Sink!SinkIInv'
    BY <2>1 DEF Sink!Offer, Sink!SinkIInv
  <2>2. ASSUME NEW rows, Sink!Land(rows)
        PROVE  Sink!SinkIInv'
    BY <2>2 DEF Sink!Land, Sink!Oldest, Sink!SinkIInv
  <2>3. ASSUME NEW rows, Sink!GiveUp(rows)
        PROVE  Sink!SinkIInv'
    BY <2>3 DEF Sink!GiveUp, Sink!SinkIInv
  <2>4. CASE UNCHANGED Sink!sinkVars
    BY <2>4 DEF Sink!sinkVars, Sink!SinkIInv
  <2> QED
    BY <2>1, <2>2, <2>3, <2>4 DEF Sink!SinkNext
<1> QED
  BY <1>1, <1>2, BufferedImplementsSink, PTL DEF ImplementsSink, Sink!SinkSpec

\* The rows of every file stand in the order of the write() calls, whatever a full queue,
\* a batch or a failed append has left out.
THEOREM FilesInCallOrder == Spec => Sink!RowsInCallOrder
<1>1. Sink!SinkIInv /\ [Sink!SinkNext]_(Sink!sinkVars) =>
        [\A new \in OnDisk' \ OnDisk, old \in OnDisk :
            FileOf[new] = FileOf[old] => old < new]_(Sink!sinkVars)
  BY DEF Sink!SinkIInv, Sink!SinkNext, Sink!Offer, Sink!Land, Sink!GiveUp, Sink!sinkVars
<1> QED
  BY <1>1, SinkInductive, BufferedImplementsSink, PTL
     DEF ImplementsSink, Sink!SinkSpec, Sink!RowsInCallOrder
=============================================================================
