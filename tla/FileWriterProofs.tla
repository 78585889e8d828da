-------------------------- MODULE FileWriterProofs --------------------------
(***************************************************************************)
(* Theorems about FileWriter for every number of events, files, callers    *)
(* and flushes.  The argument: jobs stand in the order of the calls and    *)
(* run in that order, so when a close has its turn all that is queued is   *)
(* younger than it.  And about the inspector over this writer, for any     *)
(* calls made from each other's fn.                                        *)
(***************************************************************************)
EXTENDS Inspector, FiniteSetTheorems, TLAPS

-----------------------------------------------------------------------------
(* Adding and taking jobs                                                   *)

LEMMA JobFields ==
    ASSUME TypeOK
    PROVE  \A i \in DOMAIN jobs : jobs[i] \in Jobs /\ jobs[i].upto \in Nat
<1>1. \A i \in DOMAIN jobs : jobs[i] \in Jobs
  BY DEF TypeOK
<1>2. \A j \in Jobs : j.upto \in Nat
  BY EventsAssumption DEF Jobs
<1> QED
  BY <1>1, <1>2

\* The jobs after one is queued.
LEMMA JobAdded ==
    ASSUME TypeOK, NEW job \in Jobs, jobs' = Append(jobs, job)
    PROVE  /\ jobs' \in Seq(Jobs) /\ jobs' # <<>>
           /\ DOMAIN jobs = 1 .. Len(jobs) /\ Len(jobs) \in Nat
           /\ DOMAIN jobs' = 1 .. Len(jobs) + 1
           /\ \A i \in DOMAIN jobs : jobs'[i] = jobs[i]
           /\ jobs'[Len(jobs) + 1] = job
           /\ Range(jobs') = Range(jobs) \cup {job}
           /\ jobs # <<>> => Head(jobs') = Head(jobs)
<1>1. /\ jobs' \in Seq(Jobs) /\ jobs' # <<>>
      /\ DOMAIN jobs = 1 .. Len(jobs) /\ Len(jobs) \in Nat
      /\ DOMAIN jobs' = 1 .. Len(jobs) + 1
      /\ \A i \in 1 .. Len(jobs) : jobs'[i] = jobs[i]
      /\ jobs'[Len(jobs) + 1] = job
  BY DEF TypeOK
<1>2. 1 .. Len(jobs) + 1 = (1 .. Len(jobs)) \cup {Len(jobs) + 1}
  BY <1>1
<1>3. Range(jobs') = Range(jobs) \cup {job}
  BY <1>1, <1>2 DEF Range
<1>4. jobs # <<>> => Head(jobs') = Head(jobs)
  BY <1>1 DEF TypeOK
<1> QED
  BY <1>1, <1>3, <1>4

\* The jobs after the head has run.
LEMMA JobTaken ==
    ASSUME TypeOK, jobs # <<>>, jobs' = Tail(jobs)
    PROVE  /\ jobs' \in Seq(Jobs)
           /\ DOMAIN jobs = 1 .. Len(jobs) /\ Len(jobs) \in Nat \ {0}
           /\ DOMAIN jobs' = 1 .. Len(jobs) - 1
           /\ \A i \in DOMAIN jobs' : i + 1 \in DOMAIN jobs /\ jobs'[i] = jobs[i + 1]
           /\ \A i \in DOMAIN jobs \ {1} : i - 1 \in DOMAIN jobs' /\ jobs'[i - 1] = jobs[i]
           /\ Head(jobs) = jobs[1] /\ Head(jobs) \in Jobs /\ 1 \in DOMAIN jobs
           /\ Range(jobs) = Range(jobs') \cup {Head(jobs)}
<1>1. /\ jobs' \in Seq(Jobs)
      /\ DOMAIN jobs = 1 .. Len(jobs) /\ Len(jobs) \in Nat \ {0}
      /\ DOMAIN jobs' = 1 .. Len(jobs) - 1
      /\ \A i \in 1 .. Len(jobs) - 1 : jobs'[i] = jobs[i + 1]
      /\ Head(jobs) = jobs[1] /\ Head(jobs) \in Jobs
  BY DEF TypeOK
<1>2. \A i \in 1 .. Len(jobs) - 1 : i + 1 \in DOMAIN jobs
  BY <1>1
<1>3. \A i \in DOMAIN jobs \ {1} : i - 1 \in DOMAIN jobs' /\ jobs'[i - 1] = jobs[i]
  BY <1>1
<1>4. Range(jobs) \subseteq Range(jobs') \cup {Head(jobs)}
  <2>1. ASSUME NEW i \in DOMAIN jobs
        PROVE  jobs[i] \in Range(jobs') \cup {Head(jobs)}
    <3>1. CASE i = 1
      BY <1>1, <3>1
    <3>2. CASE i # 1
      BY <1>3, <3>2 DEF Range
    <3> QED
      BY <3>1, <3>2
  <2> QED
    BY <2>1 DEF Range
<1>5. Range(jobs') \cup {Head(jobs)} \subseteq Range(jobs)
  BY <1>1, <1>2 DEF Range
<1> QED
  BY <1>1, <1>2, <1>3, <1>4, <1>5

\* Running the head takes its event, and no other, out of the queue.
LEMMA QueuedTaken ==
    ASSUME TypeOK, JobOrder, jobs # <<>>, jobs' = Tail(jobs)
    PROVE  /\ Head(jobs).kind = "write" =>
                Queued' = Queued \ {Head(jobs).upto} /\ Head(jobs).upto \in Queued
           /\ Head(jobs).kind # "write" => Queued' = Queued
<1>1. Queued = Queued' \cup {job.upto : job \in {j \in {Head(jobs)} : j.kind = "write"}}
  BY JobTaken DEF Queued
<1>2. ASSUME Head(jobs).kind = "write"
      PROVE  Head(jobs).upto \notin Queued'
  <2>1. ASSUME NEW i \in DOMAIN jobs', jobs'[i].kind = "write"
        PROVE  jobs'[i].upto # jobs[1].upto
    <3>1. i + 1 \in DOMAIN jobs /\ 1 \in DOMAIN jobs /\ 1 < i + 1 /\ jobs'[i] = jobs[i + 1]
      BY JobTaken
    <3>2. jobs[1].upto < jobs[i + 1].upto
      BY <2>1, <3>1 DEF JobOrder
    <3>3. jobs[1].upto \in Nat /\ jobs[i + 1].upto \in Nat
      BY <3>1, JobFields
    <3> QED
      BY <3>1, <3>2, <3>3
  <2> QED
    BY <2>1, JobTaken DEF Queued, Range
<1> QED
  BY <1>1, <1>2

\* What stands behind the head is younger than the head.
LEMMA BehindHead ==
    ASSUME TypeOK, JobOrder, jobs # <<>>, Head(jobs).kind # "write"
    PROVE  \A e \in Queued : Head(jobs).upto < e
<1>1. Head(jobs) = jobs[1] /\ 1 \in DOMAIN jobs /\ DOMAIN jobs = 1 .. Len(jobs)
  BY DEF TypeOK
<1>2. ASSUME NEW i \in DOMAIN jobs, jobs[i].kind = "write"
      PROVE  jobs[1].upto < jobs[i].upto
  <2>1. i # 1 /\ 1 < i
    BY <1>1, <1>2
  <2> QED
    BY <1>1, <1>2, <2>1 DEF JobOrder
<1> QED
  BY <1>1, <1>2 DEF Queued, Range

-----------------------------------------------------------------------------
(* Each part of the inductive invariant                                     *)

LEMMA CountedType ==
    ASSUME NEW w \in Nat, NEW d \in Nat, NEW f \in Nat, TypeOK
    PROVE  Counted(w, d, f) \in [written : Nat, dropped : Nat, flushes : Nat]
BY DEF Counted, TypeOK

\* A job's event is an event: the queue's bounds are those of the calls.
LEMMA JobTyped ==
    ASSUME NEW k \in {"write", "flush", "close"}, NEW c \in Callers \cup {"writer"},
           NEW n \in 0 .. MaxEvents
    PROVE  /\ Job(k, c, n) \in Jobs
           /\ Job(k, c, n).kind = k /\ Job(k, c, n).by = c /\ Job(k, c, n).upto = n
BY DEF Job, Jobs

LEMMA NextTypeOK ==
    ASSUME TypeOK, Accounted, JobOrder, [Next]_vars
    PROVE  TypeOK'
<1>1. issued \in Nat /\ MaxEvents \in Nat
  BY EventsAssumption DEF TypeOK
<1>2. ASSUME issued < MaxEvents, issued' = issued + 1
      PROVE  issued' \in 0 .. MaxEvents /\ issued + 1 \in Ids
  BY <1>1, <1>2 DEF Ids
<1>3. ASSUME HeadIs("write")
      PROVE  Head(jobs).upto \in Ids
  <2>1. Head(jobs) \in Range(jobs)
    BY <1>3 DEF HeadIs, TypeOK, Range
  <2>2. Head(jobs).upto \in Queued
    BY <1>3, <2>1 DEF HeadIs, Queued
  <2> QED
    BY <1>1, <2>2 DEF Accounted, Ids, TypeOK
<1>4. ASSUME NEW e \in Ids, Discard(e)
      PROVE  /\ discarded' \subseteq Ids
             /\ stats' \in [written : Nat, dropped : Nat, flushes : Nat]
  BY <1>4, CountedType DEF Discard, TypeOK
<1>5. ASSUME RejectInvalid
      PROVE  TypeOK'
  BY <1>2, <1>4, <1>5 DEF RejectInvalid, TypeOK
<1>6. ASSUME Enqueue
      PROVE  TypeOK'
  <2>1. Job("write", "writer", issued + 1) \in Jobs
    BY <1>1, <1>2, <1>6, JobTyped DEF Enqueue, Ids
  <2>2. jobs' \in Seq(Jobs)
    BY <1>6, <2>1, JobAdded DEF Enqueue
  <2> QED
    BY <1>2, <1>6, <2>2 DEF Enqueue, TypeOK
<1>7. ASSUME HeadIs("write") \/ HeadIs("flush") \/ HeadIs("close"), jobs' = Tail(jobs)
      PROVE  jobs' \in Seq(Jobs)
  BY <1>7, JobTaken DEF HeadIs
<1>8. ASSUME OperationRefused
      PROVE  TypeOK'
  BY <1>3, <1>4, <1>7, <1>8 DEF OperationRefused, TypeOK
<1>9. ASSUME OperationStarts
      PROVE  TypeOK'
  BY <1>9 DEF OperationStarts, TypeOK
<1>10. ASSUME AppendSucceeds
       PROVE  TypeOK'
  <2>1. HeadIs("write")
    BY <1>10 DEF AppendSucceeds, JobOrder
  <2>2. stats' \in [written : Nat, dropped : Nat, flushes : Nat]
    BY <1>10, CountedType DEF AppendSucceeds
  <2> QED
    BY <1>3, <1>7, <1>10, <2>1, <2>2 DEF AppendSucceeds, TypeOK
<1>11. ASSUME AppendFails
       PROVE  TypeOK'
  <2>1. HeadIs("write")
    BY <1>11 DEF AppendFails, JobOrder
  <2> QED
    BY <1>3, <1>4, <1>7, <1>11, <2>1 DEF AppendFails, TypeOK
<1>12. ASSUME FlushResumes
       PROVE  TypeOK'
  BY <1>7, <1>12, CountedType DEF FlushResumes, TypeOK
<1>13. ASSUME CloseResumes
       PROVE  TypeOK'
  BY <1>7, <1>13 DEF CloseResumes, TypeOK
<1>14. ASSUME NEW c \in Callers, FlushCalled(c) \/ CloseCalled(c)
       PROVE  TypeOK'
  <2>1. PICK k \in {"flush", "close"} : jobs' = Append(jobs, Job(k, c, issued))
    BY <1>14 DEF FlushCalled, CloseCalled, AwaitTail
  <2>2. Job(k, c, issued) \in Jobs
    BY JobTyped DEF TypeOK
  <2>3. jobs' \in Seq(Jobs)
    BY <2>1, <2>2, JobAdded
  <2>4. cut' \in 0 .. NoCut
    BY <1>1, <1>14 DEF FlushCalled, CloseCalled, TypeOK, NoCut
  <2> QED
    BY <1>14, <2>3, <2>4 DEF FlushCalled, CloseCalled, AwaitTail, TypeOK
<1>15. ASSUME UNCHANGED vars
       PROVE  TypeOK'
  BY <1>15 DEF vars, TypeOK
<1> QED
  BY <1>5, <1>6, <1>8, <1>9, <1>10, <1>11, <1>12, <1>13, <1>14, <1>15 DEF Next, JobStep

\* Every event stays somewhere.
LEMMA NextAccounted ==
    ASSUME TypeOK, Accounted, JobOrder, [Next]_vars
    PROVE  Accounted'
<1>1. issued \in Nat /\ 1 .. (issued + 1) = (1 .. issued) \cup {issued + 1}
  BY EventsAssumption DEF TypeOK
<1>2. ASSUME RejectInvalid
      PROVE  Accounted'
  BY <1>1, <1>2 DEF RejectInvalid, Discard, Accounted, Queued
<1>3. ASSUME Enqueue
      PROVE  Accounted'
  <2>1. issued + 1 \in 0 .. MaxEvents
    BY <1>1, <1>3, EventsAssumption DEF Enqueue
  <2>2. Range(jobs') = Range(jobs) \cup {Job("write", "writer", issued + 1)}
    BY <1>3, <2>1, JobTyped, JobAdded DEF Enqueue
  <2>3. Queued' = Queued \cup {issued + 1}
    BY <2>1, <2>2, JobTyped DEF Queued
  <2> QED
    BY <1>1, <1>3, <2>3 DEF Enqueue, Accounted
<1>4. ASSUME OperationRefused \/ AppendSucceeds \/ AppendFails
      PROVE  Accounted'
  <2>1. /\ HeadIs("write") /\ jobs' = Tail(jobs) /\ issued' = issued
        /\ disk' \cup discarded' = disk \cup discarded \cup {Head(jobs).upto}
    BY <1>4 DEF OperationRefused, AppendSucceeds, AppendFails, Discard, JobOrder
  <2>2. Queued' = Queued \ {Head(jobs).upto} /\ Head(jobs).upto \in Queued
    BY <2>1, QueuedTaken DEF HeadIs
  <2> QED
    BY <2>1, <2>2 DEF Accounted
<1>5. ASSUME FlushResumes \/ CloseResumes
      PROVE  Accounted'
  <2>1. /\ jobs # <<>> /\ Head(jobs).kind # "write" /\ jobs' = Tail(jobs)
        /\ UNCHANGED <<issued, disk, discarded>>
    BY <1>5 DEF FlushResumes, CloseResumes, HeadIs
  <2>2. Queued' = Queued
    BY <2>1, QueuedTaken
  <2> QED
    BY <2>1, <2>2 DEF Accounted
<1>6. ASSUME NEW c \in Callers, FlushCalled(c) \/ CloseCalled(c)
      PROVE  Accounted'
  <2>1. PICK k \in {"flush", "close"} : jobs' = Append(jobs, Job(k, c, issued))
    BY <1>6 DEF FlushCalled, CloseCalled, AwaitTail
  <2>2. Range(jobs') = Range(jobs) \cup {Job(k, c, issued)} /\ Job(k, c, issued).kind = k
    BY <2>1, JobTyped, JobAdded DEF TypeOK
  <2>3. Queued' = Queued
    BY <2>2 DEF Queued
  <2> QED
    BY <1>6, <2>3 DEF FlushCalled, CloseCalled, AwaitTail, Accounted
<1>7. ASSUME OperationStarts \/ UNCHANGED vars
      PROVE  Accounted'
  BY <1>7 DEF OperationStarts, vars, Accounted, Queued
<1> QED
  BY <1>2, <1>3, <1>4, <1>5, <1>6, <1>7 DEF Next, JobStep

\* The jobs stay in the order of the calls.
LEMMA NextJobOrder ==
    ASSUME TypeOK, JobOrder, [Next]_vars
    PROVE  JobOrder'
<1>1. issued \in Nat
  BY EventsAssumption DEF TypeOK
<1>2. ASSUME jobs # <<>>, jobs' = Tail(jobs), issued' = issued, appending' = FALSE
      PROVE  JobOrder'
  <2>1. \A i \in DOMAIN jobs' : i + 1 \in DOMAIN jobs /\ jobs'[i] = jobs[i + 1] /\ i \in Nat
    BY <1>2, JobTaken
  <2>2. ASSUME NEW i \in DOMAIN jobs', NEW j \in DOMAIN jobs', i < j
        PROVE  /\ jobs'[i].upto <= jobs'[j].upto
               /\ jobs'[j].kind = "write" => jobs'[i].upto < jobs'[j].upto
    <3>1. i + 1 < j + 1
      BY <2>1, <2>2
    <3> QED
      BY <2>1, <3>1 DEF JobOrder
  <2>3. \A i \in DOMAIN jobs' : jobs'[i].upto <= issued'
    BY <1>2, <2>1 DEF JobOrder
  <2> QED
    BY <1>2, <2>2, <2>3 DEF JobOrder
<1>3. ASSUME NEW job \in Jobs, jobs' = Append(jobs, job), UNCHANGED <<appending, closed>>,
             issued <= issued', issued' \in Nat, job.upto = issued',
             job.kind = "write" => issued' = issued + 1
      PROVE  JobOrder'
  <2>1. /\ DOMAIN jobs' = (DOMAIN jobs) \cup {Len(jobs) + 1}
        /\ DOMAIN jobs = 1 .. Len(jobs) /\ Len(jobs) \in Nat
        /\ \A i \in DOMAIN jobs : jobs'[i] = jobs[i]
        /\ jobs'[Len(jobs) + 1] = job
    BY <1>3, JobAdded
  <2>2. \A i \in DOMAIN jobs : jobs[i].upto \in Nat /\ jobs[i].upto <= issued
    BY JobFields DEF JobOrder
  <2>3. ASSUME NEW i \in DOMAIN jobs', NEW j \in DOMAIN jobs', i < j
        PROVE  /\ jobs'[i].upto <= jobs'[j].upto
               /\ jobs'[j].kind = "write" => jobs'[i].upto < jobs'[j].upto
    <3>1. CASE j \in DOMAIN jobs
      <4>1. i \in DOMAIN jobs
        BY <2>1, <2>3, <3>1
      <4> QED
        BY <2>1, <2>3, <3>1, <4>1 DEF JobOrder
    <3>2. CASE j = Len(jobs) + 1
      <4>1. i \in DOMAIN jobs
        BY <2>1, <2>3, <3>2
      <4> QED
        BY <1>1, <1>3, <2>1, <2>2, <3>2, <4>1
    <3> QED
      BY <2>1, <3>1, <3>2
  <2>4. \A i \in DOMAIN jobs' : jobs'[i].upto <= issued'
    BY <1>1, <1>3, <2>1, <2>2
  <2>5. appending' => HeadIs("write")' /\ ~closed'
    BY <1>3, JobAdded DEF JobOrder, HeadIs
  <2> QED
    BY <2>3, <2>4, <2>5 DEF JobOrder
<1>4. ASSUME RejectInvalid
      PROVE  JobOrder'
  <2>1. \A i \in DOMAIN jobs : jobs[i].upto <= issued + 1
    BY <1>1, JobFields DEF JobOrder
  <2> QED
    BY <1>4, <2>1 DEF RejectInvalid, JobOrder, HeadIs
<1>5. ASSUME Enqueue
      PROVE  JobOrder'
  <2>1. issued + 1 \in 0 .. MaxEvents
    BY <1>1, <1>5, EventsAssumption DEF Enqueue
  <2>2. /\ Job("write", "writer", issued + 1) \in Jobs
        /\ Job("write", "writer", issued + 1).upto = issued + 1
    BY <2>1, JobTyped
  <2> QED
    BY <1>1, <1>3, <1>5, <2>2 DEF Enqueue
<1>6. ASSUME NEW c \in Callers, FlushCalled(c) \/ CloseCalled(c)
      PROVE  JobOrder'
  <2>1. PICK k \in {"flush", "close"} : jobs' = Append(jobs, Job(k, c, issued))
    BY <1>6 DEF FlushCalled, CloseCalled, AwaitTail
  <2>2. /\ Job(k, c, issued) \in Jobs
        /\ Job(k, c, issued).upto = issued /\ Job(k, c, issued).kind = k
    BY JobTyped DEF TypeOK
  <2>3. UNCHANGED <<issued, appending, closed>>
    BY <1>6 DEF FlushCalled, CloseCalled, AwaitTail
  <2> QED
    BY <1>1, <1>3, <2>1, <2>2, <2>3
<1>7. ASSUME OperationStarts \/ UNCHANGED vars
      PROVE  JobOrder'
  BY <1>7 DEF OperationStarts, vars, JobOrder, HeadIs
<1>8. ASSUME \/ OperationRefused \/ AppendSucceeds \/ AppendFails
             \/ FlushResumes \/ CloseResumes
      PROVE  JobOrder'
  <2>1. jobs # <<>> /\ jobs' = Tail(jobs) /\ issued' = issued
    BY <1>8 DEF OperationRefused, AppendSucceeds, AppendFails, FlushResumes,
                CloseResumes, HeadIs, JobOrder
  <2>2. appending' = FALSE
    BY <1>8 DEF OperationRefused, AppendSucceeds, AppendFails, FlushResumes,
                CloseResumes, HeadIs, JobOrder, TypeOK
  <2> QED
    BY <1>2, <2>1, <2>2
<1> QED
  BY <1>4, <1>5, <1>6, <1>7, <1>8 DEF Next, JobStep

\* A waiting job at the head sees every earlier write settled.
LEMMA HeadSeesSettled ==
    ASSUME TypeOK, Accounted, JobOrder, HeadIs("flush") \/ HeadIs("close")
    PROVE  \A e \in 1 .. Head(jobs).upto : e \in disk \cup discarded
<1>1. jobs # <<>> /\ Head(jobs).kind # "write" /\ Head(jobs) = jobs[1] /\ 1 \in DOMAIN jobs
  BY DEF HeadIs, TypeOK
<1>2. Head(jobs).upto \in Nat /\ Head(jobs).upto <= issued /\ issued \in Nat
  BY <1>1, JobFields, EventsAssumption DEF JobOrder, TypeOK
<1>3. \A e \in Queued : Head(jobs).upto < e
  BY <1>1, BehindHead
<1>4. ASSUME NEW e \in 1 .. Head(jobs).upto
      PROVE  e \in disk \cup discarded
  <2>1. e \in 1 .. issued /\ ~(Head(jobs).upto < e)
    BY <1>2
  <2> QED
    BY <1>3, <2>1 DEF Accounted
<1> QED
  BY <1>4

\* The first close() stands in the queue until its turn, and nothing issued
\* after it is stored.
LEMMA NextCutHolds ==
    ASSUME TypeOK, Accounted, JobOrder, CutHolds, [Next]_vars
    PROVE  CutHolds'
<1>1. issued \in Nat /\ MaxEvents \in Nat /\ cut \in Nat /\ issued <= MaxEvents
  BY EventsAssumption DEF TypeOK, NoCut
<1>2. ASSUME jobs # <<>>, jobs' = Tail(jobs), Head(jobs).kind # "close",
             UNCHANGED <<issued, cut, closed>>,
             \A e \in disk' \ disk : cut # NoCut => e <= cut
      PROVE  CutHolds'
  <2>1. ASSUME cut # NoCut, ~closed
        PROVE  \E i \in DOMAIN jobs' : jobs'[i].kind = "close" /\ jobs'[i].upto = cut
    <3>1. PICK i \in DOMAIN jobs : jobs[i].kind = "close" /\ jobs[i].upto = cut
      BY <2>1 DEF CutHolds
    <3>2. i \in DOMAIN jobs \ {1}
      BY <1>2, <3>1, JobTaken
    <3>3. i - 1 \in DOMAIN jobs' /\ jobs'[i - 1] = jobs[i]
      BY <1>2, <3>2, JobTaken
    <3> QED
      BY <3>1, <3>3
  <2>2. \A i \in DOMAIN jobs' : i + 1 \in DOMAIN jobs /\ jobs'[i] = jobs[i + 1]
    BY <1>2, JobTaken
  <2>3. \A i \in DOMAIN jobs' : jobs'[i].kind = "close" => cut # NoCut /\ cut <= jobs'[i].upto
    BY <2>2 DEF CutHolds
  <2>4. cut # NoCut => cut <= issued /\ \A e \in disk' : e <= cut
    BY <1>2 DEF CutHolds
  <2> QED
    BY <1>2, <2>1, <2>3, <2>4 DEF CutHolds, NoCut
<1>3. ASSUME NEW job \in Jobs, jobs' = Append(jobs, job), job.kind # "close",
             issued <= issued', issued' \in Nat, UNCHANGED <<disk, cut, closed>>
      PROVE  CutHolds'
  <2>1. /\ DOMAIN jobs' = (DOMAIN jobs) \cup {Len(jobs) + 1}
        /\ \A i \in DOMAIN jobs : jobs'[i] = jobs[i]
        /\ jobs'[Len(jobs) + 1] = job
    BY <1>3, JobAdded
  <2>2. cut # NoCut => cut <= issued'
    BY <1>1, <1>3 DEF CutHolds
  <2> QED
    BY <1>3, <2>1, <2>2 DEF CutHolds, NoCut
<1>4. ASSUME NEW c \in Callers, CloseCalled(c)
      PROVE  CutHolds'
  <2>1. /\ Job("close", c, issued) \in Jobs
        /\ Job("close", c, issued).upto = issued /\ Job("close", c, issued).kind = "close"
    BY JobTyped DEF TypeOK
  <2>2. jobs' = Append(jobs, Job("close", c, issued))
    BY <1>4 DEF CloseCalled, AwaitTail
  <2>3. /\ DOMAIN jobs' = (DOMAIN jobs) \cup {Len(jobs) + 1}
        /\ \A i \in DOMAIN jobs : jobs'[i] = jobs[i]
        /\ jobs'[Len(jobs) + 1] = Job("close", c, issued)
    BY <2>1, <2>2, JobAdded
  <2>4. cut' = (IF cut = NoCut THEN issued ELSE cut) /\ ~closed
        /\ UNCHANGED <<issued, disk, closed>>
    BY <1>4 DEF CloseCalled, AwaitTail
  <2>5. NoCut' = NoCut /\ issued # NoCut
    BY <1>1 DEF NoCut
  <2>6. CASE cut = NoCut
    <3>1. cut' = issued /\ \A e \in disk : e <= issued
      <4>1. \A e \in disk : e <= issued
        BY <1>1 DEF Accounted
      <4> QED
        BY <2>4, <2>6, <4>1
    <3>2. \A i \in DOMAIN jobs : jobs[i].kind # "close"
      BY <2>6 DEF CutHolds
    <3> QED
      BY <1>1, <2>1, <2>3, <2>4, <2>5, <3>1, <3>2 DEF CutHolds
  <2>7. CASE cut # NoCut
    <3>1. cut' = cut
      BY <2>4, <2>7
    <3> QED
      BY <2>1, <2>3, <2>4, <2>5, <2>7, <3>1 DEF CutHolds
  <2> QED
    BY <2>6, <2>7
<1>5. ASSUME AppendSucceeds
      PROVE  CutHolds'
  <2>1. HeadIs("write") /\ ~closed
    BY <1>5 DEF AppendSucceeds, JobOrder
  <2>2. ASSUME cut # NoCut
        PROVE  Head(jobs).upto <= cut
    <3>1. PICK i \in DOMAIN jobs : jobs[i].kind = "close" /\ jobs[i].upto = cut
      BY <2>1, <2>2 DEF CutHolds
    <3>2. Head(jobs) = jobs[1] /\ 1 \in DOMAIN jobs /\ DOMAIN jobs = 1 .. Len(jobs)
      BY <2>1 DEF HeadIs, TypeOK
    <3>3. i # 1 /\ 1 < i
      BY <2>1, <3>1, <3>2 DEF HeadIs
    <3> QED
      BY <3>1, <3>2, <3>3 DEF JobOrder
  <2> QED
    BY <1>2, <1>5, <2>1, <2>2 DEF AppendSucceeds, HeadIs
<1>6. ASSUME OperationRefused \/ AppendFails \/ FlushResumes
      PROVE  CutHolds'
  BY <1>2, <1>6 DEF OperationRefused, AppendFails, FlushResumes, HeadIs, JobOrder
<1>7. ASSUME CloseResumes
      PROVE  CutHolds'
  <2>1. jobs # <<>> /\ jobs' = Tail(jobs) /\ closed' /\ UNCHANGED <<issued, disk, cut>>
    BY <1>7 DEF CloseResumes, HeadIs
  <2>2. cut # NoCut
    BY <1>7 DEF CloseResumes, HeadIs, CutHolds, TypeOK
  <2>3. \A i \in DOMAIN jobs' : i + 1 \in DOMAIN jobs /\ jobs'[i] = jobs[i + 1]
    BY <2>1, JobTaken
  <2> QED
    BY <2>1, <2>2, <2>3 DEF CutHolds, NoCut
<1>8. ASSUME Enqueue
      PROVE  CutHolds'
  <2>1. issued + 1 \in 0 .. MaxEvents
    BY <1>1, <1>8 DEF Enqueue
  <2>2. /\ Job("write", "writer", issued + 1) \in Jobs
        /\ Job("write", "writer", issued + 1).kind # "close"
    BY <2>1, JobTyped
  <2> QED
    BY <1>1, <1>3, <1>8, <2>2 DEF Enqueue
<1>9. ASSUME NEW c \in Callers, FlushCalled(c)
      PROVE  CutHolds'
  <2>1. Job("flush", c, issued) \in Jobs /\ Job("flush", c, issued).kind # "close"
    BY JobTyped DEF TypeOK
  <2> QED
    BY <1>1, <1>3, <1>9, <2>1 DEF FlushCalled, AwaitTail
<1>10. ASSUME RejectInvalid \/ OperationStarts \/ UNCHANGED vars
       PROVE  CutHolds'
  BY <1>1, <1>10 DEF RejectInvalid, OperationStarts, vars, CutHolds, NoCut
<1> QED
  BY <1>4, <1>5, <1>6, <1>7, <1>8, <1>9, <1>10 DEF Next, JobStep

\* A closed writer has settled everything before the first close() call and
\* stored nothing after it.
LEMMA NextCloseCuts ==
    ASSUME IInv, [Next]_vars
    PROVE  CloseCuts'
<1> USE DEF IInv
<1>1. CutHolds'
  BY NextCutHolds
<1>2. CASE closed
  <2>1. cut' = cut
    BY <1>2 DEF Next, RejectInvalid, Enqueue, JobStep, OperationRefused, OperationStarts,
                AppendSucceeds, AppendFails, FlushResumes, CloseResumes, FlushCalled,
                CloseCalled, vars
  <2>2. disk \subseteq disk' /\ discarded \subseteq discarded'
    BY DEF Next, RejectInvalid, Enqueue, JobStep, OperationRefused, OperationStarts,
           AppendSucceeds, AppendFails, FlushResumes, CloseResumes, FlushCalled,
           CloseCalled, AwaitTail, Discard, vars
  <2>3. cut # NoCut
    BY <1>2 DEF CutHolds
  <2> QED
    BY <1>1, <1>2, <2>1, <2>2, <2>3 DEF CloseCuts, CutHolds, NoCut
<1>3. CASE ~closed /\ closed'
  <2>1. CloseResumes
    BY <1>3 DEF Next, RejectInvalid, Enqueue, JobStep, OperationRefused, OperationStarts,
                AppendSucceeds, AppendFails, FlushResumes, FlushCalled, CloseCalled,
                AwaitTail, vars
  <2>2. \A e \in 1 .. Head(jobs).upto : e \in disk \cup discarded
    BY <2>1, HeadSeesSettled DEF CloseResumes
  <2>3. Head(jobs) = jobs[1] /\ 1 \in DOMAIN jobs /\ jobs[1].kind = "close"
    BY <2>1 DEF CloseResumes, HeadIs, TypeOK
  <2>4. cut # NoCut /\ cut <= Head(jobs).upto /\ Head(jobs).upto \in Nat
    BY <2>3, JobFields DEF CutHolds
  <2>5. cut \in Nat /\ cut' = cut /\ disk' = disk /\ discarded' = discarded
    BY <2>1, EventsAssumption DEF CloseResumes, TypeOK, NoCut
  <2> QED
    BY <2>2, <2>4, <2>5 DEF CloseCuts, CutHolds
<1>4. CASE ~closed'
  BY <1>4 DEF CloseCuts
<1> QED
  BY <1>2, <1>3, <1>4

-----------------------------------------------------------------------------
(* The theorems                                                             *)

LEMMA InitIInv == Init => IInv
<1> SUFFICES ASSUME Init PROVE IInv
  OBVIOUS
<1>1. jobs \in Seq(Jobs) /\ Range(jobs) = {} /\ DOMAIN jobs = {}
  BY DEF Init, Range
<1>2. issued \in 0 .. MaxEvents /\ cut \in 0 .. NoCut
  BY EventsAssumption DEF Init, NoCut
<1>3. TypeOK
  <2>1. stats \in [written : Nat, dropped : Nat, flushes : Nat]
    BY DEF Init
  <2> QED
    BY <1>1, <1>2, <2>1 DEF Init, TypeOK
<1>4. Accounted
  BY <1>1 DEF Init, Accounted, Queued
<1>5. JobOrder /\ CutHolds /\ CloseCuts
  BY <1>1 DEF Init, JobOrder, CutHolds, CloseCuts
<1> QED
  BY <1>3, <1>4, <1>5 DEF IInv

LEMMA NextIInv == IInv /\ [Next]_vars => IInv'
BY NextTypeOK, NextAccounted, NextJobOrder, NextCutHolds, NextCloseCuts DEF IInv

\* IInv is an invariant of the writer.
THEOREM InductiveInvariant == Spec => []IInv
BY InitIInv, NextIInv, PTL DEF Spec

\* The types, for every value of the constants.
THEOREM TypeCorrect == Spec => []TypeOK
<1>1. IInv => TypeOK
  BY DEF IInv
<1> QED
  BY <1>1, InductiveInvariant, PTL

\* close() settles every write called before it and stores none called after
\* it, for any number of concurrent writes, flushes and closes.
THEOREM CloseIsExact == Spec => []CloseCuts
<1>1. IInv => CloseCuts
  BY DEF IInv
<1> QED
  BY <1>1, InductiveInvariant, PTL

\* flush() returns only after every earlier write has settled.
THEOREM FlushIsBarrier == Spec => []FlushBarrier
<1>1. IInv => FlushBarrier
  BY HeadSeesSettled DEF IInv, FlushBarrier
<1> QED
  BY <1>1, InductiveInvariant, PTL

-----------------------------------------------------------------------------
(* The statistics                                                           *)

LEMMA OneMore ==
    ASSUME NEW S \in SUBSET Ids, NEW e \in Ids, e \notin S
    PROVE  Cardinality(S \cup {e}) = Cardinality(S) + 1
<1>1. IsFiniteSet(Ids)
  BY EventsAssumption, FS_Interval DEF Ids
<1>2. IsFiniteSet(S)
  BY <1>1, FS_Subset
<1> QED
  BY <1>2, FS_AddElement

\* An event settles once, and is counted where it is put.
LEMMA LedgerSettles ==
    ASSUME TypeOK, Ledger, NEW e \in Ids, e \notin disk \cup discarded,
           Queued' = Queued \ {e},
           \/ /\ disk' = disk \cup {e} /\ discarded' = discarded
              /\ stats' = Counted(1, 0, 0)
           \/ Discard(e) /\ disk' = disk
    PROVE  /\ disk' \cap discarded' = {}
           /\ Queued' \cap (disk' \cup discarded') = {}
           /\ stats'.written = Cardinality(disk') /\ stats'.dropped = Cardinality(discarded')
<1>1. /\ Cardinality(disk \cup {e}) = Cardinality(disk) + 1
      /\ Cardinality(discarded \cup {e}) = Cardinality(discarded) + 1
  BY OneMore DEF TypeOK
<1>2. /\ stats.written \in Nat /\ stats.dropped \in Nat
      /\ stats.written = Cardinality(disk) /\ stats.dropped = Cardinality(discarded)
  BY DEF TypeOK, Ledger
<1>3. disk \cap discarded = {} /\ Queued \cap (disk \cup discarded) = {}
  BY DEF Ledger
<1>4. CASE disk' = disk \cup {e} /\ discarded' = discarded /\ stats' = Counted(1, 0, 0)
  <2>1. stats'.written = stats.written + 1 /\ stats'.dropped = stats.dropped
    BY <1>2, <1>4 DEF Counted
  <2> QED
    BY <1>1, <1>2, <1>3, <1>4, <2>1
<1>5. CASE Discard(e) /\ disk' = disk
  <2>1. stats'.written = stats.written /\ stats'.dropped = stats.dropped + 1
    BY <1>2, <1>5 DEF Discard, Counted
  <2> QED
    BY <1>1, <1>2, <1>3, <1>5, <2>1 DEF Discard
<1> QED
  BY <1>4, <1>5

\* Queueing and starting settle nothing.
LEMMA LedgerKept ==
    ASSUME Ledger, UNCHANGED <<disk, discarded, stats.written, stats.dropped>>,
           Queued' \cap (disk \cup discarded) = {}
    PROVE  /\ disk' \cap discarded' = {}
           /\ Queued' \cap (disk' \cup discarded') = {}
           /\ stats'.written = Cardinality(disk') /\ stats'.dropped = Cardinality(discarded')
BY DEF Ledger

LEMMA NextLedger ==
    ASSUME IInv, Ledger, [Next]_vars
    PROVE  Ledger'
<1> USE DEF IInv
<1>1. Accounted'
  BY NextAccounted
<1>2. issued \in Nat /\ issued + 1 \notin 1 .. issued
  BY EventsAssumption DEF TypeOK
<1>3. SUFFICES /\ disk' \cap discarded' = {}
               /\ Queued' \cap (disk' \cup discarded') = {}
               /\ stats'.written = Cardinality(disk') /\ stats'.dropped = Cardinality(discarded')
  BY <1>1 DEF Accounted, Ledger
<1>4. CASE RejectInvalid
  <2>1. issued + 1 \in Ids /\ issued + 1 \notin Queued \cup disk \cup discarded
    BY <1>2, <1>4, EventsAssumption DEF RejectInvalid, Ids, Ledger
  <2>2. Queued' = Queued \ {issued + 1}
    BY <1>4, <2>1 DEF RejectInvalid, Queued
  <2> QED
    BY <1>4, <2>1, <2>2, LedgerSettles DEF RejectInvalid
<1>5. CASE Enqueue
  <2>1. issued + 1 \in 0 .. MaxEvents
    BY <1>2, <1>5, EventsAssumption DEF Enqueue
  <2>2. Queued' = Queued \cup {issued + 1}
    BY <1>5, <2>1, JobTyped, JobAdded DEF Enqueue, Queued
  <2>3. issued + 1 \notin disk \cup discarded
    BY <1>2 DEF Ledger
  <2> QED
    BY <1>5, <2>2, <2>3, LedgerKept DEF Enqueue, Ledger
<1>6. CASE OperationRefused \/ AppendSucceeds \/ AppendFails
  <2>1. HeadIs("write") /\ jobs' = Tail(jobs)
    BY <1>6 DEF OperationRefused, AppendSucceeds, AppendFails, JobOrder
  <2>2. Queued' = Queued \ {Head(jobs).upto} /\ Head(jobs).upto \in Queued
    BY <2>1, QueuedTaken DEF HeadIs
  <2>3. Head(jobs).upto \in Ids /\ Head(jobs).upto \notin disk \cup discarded
    BY <1>2, <2>2, EventsAssumption DEF Ledger, Ids, TypeOK
  <2> QED
    BY <1>6, <2>2, <2>3, LedgerSettles DEF OperationRefused, AppendSucceeds, AppendFails
<1>7. CASE FlushResumes \/ CloseResumes
  <2>1. jobs # <<>> /\ Head(jobs).kind # "write" /\ jobs' = Tail(jobs)
    BY <1>7 DEF FlushResumes, CloseResumes, HeadIs
  <2>2. Queued' = Queued
    BY <2>1, QueuedTaken
  <2>3. /\ UNCHANGED <<disk, discarded>>
        /\ stats'.written = stats.written /\ stats'.dropped = stats.dropped
    BY <1>7 DEF FlushResumes, CloseResumes, Counted, TypeOK
  <2> QED
    BY <2>2, <2>3, LedgerKept DEF Ledger
<1>8. CASE \E c \in Callers : FlushCalled(c) \/ CloseCalled(c)
  <2>1. PICK c \in Callers, k \in {"flush", "close"} : jobs' = Append(jobs, Job(k, c, issued))
    BY <1>8 DEF FlushCalled, CloseCalled, AwaitTail
  <2>2. Range(jobs') = Range(jobs) \cup {Job(k, c, issued)} /\ Job(k, c, issued).kind = k
    BY <2>1, JobTyped, JobAdded DEF TypeOK
  <2>3. Queued' = Queued
    BY <2>2 DEF Queued
  <2> QED
    BY <1>8, <2>3, LedgerKept DEF FlushCalled, CloseCalled, AwaitTail, Ledger
<1>9. CASE OperationStarts \/ UNCHANGED vars
  BY <1>9 DEF OperationStarts, vars, Ledger, Queued
<1> QED
  BY <1>4, <1>5, <1>6, <1>7, <1>8, <1>9 DEF Next, JobStep

\* Every event a caller gave to write() is in one place, and getStats() counts
\* exactly the rows on disk and the events given up, at every moment.
THEOREM LedgerExact == Spec => []Ledger
<1>1. Init => Ledger
  <2> SUFFICES ASSUME Init PROVE Ledger
    OBVIOUS
  <2>1. Queued = {}
    BY DEF Init, Queued, Range
  <2> QED
    BY <2>1, FS_EmptySet DEF Init, Ledger
<1>2. IInv /\ Ledger /\ [Next]_vars => Ledger'
  BY NextLedger
<1> QED
  BY <1>1, <1>2, InductiveInvariant, PTL DEF Spec

-----------------------------------------------------------------------------
(* Refinement                                                               *)

\* The head write is the oldest event queued.
LEMMA HeadIsOldest ==
    ASSUME TypeOK, JobOrder, HeadIs("write")
    PROVE  Sink!Oldest({Head(jobs).upto})
<1>1. Head(jobs) = jobs[1] /\ 1 \in DOMAIN jobs /\ DOMAIN jobs = 1 .. Len(jobs)
  BY DEF HeadIs, TypeOK
<1>2. ASSUME NEW i \in DOMAIN jobs, jobs[i].kind = "write", jobs[i].upto # jobs[1].upto
      PROVE  jobs[1].upto < jobs[i].upto
  <2>1. i # 1 /\ 1 < i
    BY <1>1, <1>2
  <2> QED
    BY <1>1, <1>2, <2>1 DEF JobOrder
<1> QED
  BY <1>1, <1>2 DEF Sink!Oldest, Queued, Range

LEMMA NextImplements ==
    ASSUME IInv, [Next]_vars
    PROVE  [Sink!SinkNext]_(Sink!sinkVars)
<1> USE DEF IInv
<1>1. /\ issued \in Nat
      /\ \A e \in Queued : e \in 1 .. issued
      /\ issued + 1 \notin Queued
  BY EventsAssumption DEF TypeOK, Accounted
<1>2. ASSUME RejectInvalid
      PROVE  Sink!SinkNext
  <2>1. /\ issued < MaxEvents /\ issued' = issued + 1 /\ disk' = disk
        /\ discarded' = discarded \cup {issued + 1} /\ Queued' = Queued
    BY <1>2 DEF RejectInvalid, Discard, Queued
  <2>2. Queued' = (Queued \cup {issued + 1}) \ {issued + 1}
    BY <1>1, <2>1
  <2>3. Sink!Offer({issued + 1})
    BY <2>1, <2>2 DEF Sink!Offer
  <2> QED
    BY <2>3 DEF Sink!SinkNext
<1>3. ASSUME Enqueue
      PROVE  Sink!SinkNext
  <2>1. issued + 1 \in 0 .. MaxEvents
    BY <1>1, <1>3, EventsAssumption DEF Enqueue
  <2>2. Range(jobs') = Range(jobs) \cup {Job("write", "writer", issued + 1)}
    BY <1>3, <2>1, JobTyped, JobAdded DEF Enqueue
  <2>3. Queued' = Queued \cup {issued + 1}
    BY <2>1, <2>2, JobTyped DEF Queued
  <2>4. Sink!Offer({})
    BY <1>3, <2>3 DEF Enqueue, Sink!Offer
  <2> QED
    BY <2>4 DEF Sink!SinkNext
<1>4. ASSUME OperationRefused \/ AppendSucceeds \/ AppendFails
      PROVE  Sink!SinkNext
  <2> DEFINE head == {Head(jobs).upto}
  <2>1. HeadIs("write") /\ jobs' = Tail(jobs) /\ issued' = issued
    BY <1>4 DEF OperationRefused, AppendSucceeds, AppendFails, JobOrder
  <2>2. Queued' = Queued \ head /\ head \in SUBSET Queued
    BY <2>1, QueuedTaken DEF HeadIs
  <2>3. Sink!Oldest(head)
    BY <2>1, HeadIsOldest
  <2>4. Sink!Land(head) \/ Sink!GiveUp(head)
    BY <1>4, <2>1, <2>2, <2>3 DEF OperationRefused, AppendSucceeds, AppendFails,
                                  Discard, Sink!Land, Sink!GiveUp
  <2> QED
    BY <2>2, <2>4 DEF Sink!SinkNext
<1>5. ASSUME FlushResumes \/ CloseResumes
      PROVE  UNCHANGED Sink!sinkVars
  <2>1. jobs # <<>> /\ Head(jobs).kind # "write" /\ jobs' = Tail(jobs)
    BY <1>5 DEF FlushResumes, CloseResumes, HeadIs
  <2>2. Queued' = Queued
    BY <2>1, QueuedTaken
  <2> QED
    BY <1>5, <2>2 DEF FlushResumes, CloseResumes, Sink!sinkVars
<1>6. ASSUME NEW c \in Callers, FlushCalled(c) \/ CloseCalled(c)
      PROVE  UNCHANGED Sink!sinkVars
  <2>1. PICK k \in {"flush", "close"} : jobs' = Append(jobs, Job(k, c, issued))
    BY <1>6 DEF FlushCalled, CloseCalled, AwaitTail
  <2>2. Range(jobs') = Range(jobs) \cup {Job(k, c, issued)} /\ Job(k, c, issued).kind = k
    BY <2>1, JobTyped, JobAdded DEF TypeOK
  <2>3. Queued' = Queued
    BY <2>2 DEF Queued
  <2> QED
    BY <1>6, <2>3 DEF FlushCalled, CloseCalled, AwaitTail, Sink!sinkVars
<1>7. ASSUME OperationStarts \/ UNCHANGED vars
      PROVE  UNCHANGED Sink!sinkVars
  BY <1>7 DEF OperationStarts, vars, Sink!sinkVars, Queued
<1> QED
  BY <1>2, <1>3, <1>4, <1>5, <1>6, <1>7 DEF Next, JobStep

\* fileWriter implements the trace sink, so the rows of every file are in the
\* order of the write() calls.
THEOREM FileWriterImplementsSink == Spec => ImplementsSink
<1>1. Init => Sink!SinkInit
  BY DEF Init, Sink!SinkInit, Queued, Range
<1> QED
  BY <1>1, NextImplements, InductiveInvariant, PTL
     DEF Spec, ImplementsSink, Sink!SinkSpec

-----------------------------------------------------------------------------
(* The order on disk                                                        *)

\* Rows on disk are older than those queued: no row is stored before an older one is settled.
StoredInOrder == \A e \in disk, q \in Queued : e < q

LEMMA NextStoredInOrder ==
    ASSUME IInv, StoredInOrder, [Next]_vars
    PROVE  StoredInOrder'
<1> USE DEF IInv
<1>1. issued \in Nat /\ \A e \in disk : e \in Nat /\ e < issued + 1
  BY EventsAssumption DEF TypeOK, Accounted
<1>2. ASSUME Queued' \subseteq Queued, disk' = disk PROVE StoredInOrder'
  BY <1>2 DEF StoredInOrder
<1>3. CASE Enqueue
  <2>1. issued + 1 \in 0 .. MaxEvents
    BY <1>1, <1>3, EventsAssumption DEF Enqueue
  <2>2. Queued' = Queued \cup {issued + 1} /\ disk' = disk
    BY <1>3, <2>1, JobTyped, JobAdded DEF Enqueue, Queued
  <2> QED BY <1>1, <2>2 DEF StoredInOrder
<1>4. CASE AppendSucceeds
  <2>1. HeadIs("write") /\ jobs' = Tail(jobs) /\ disk' = disk \cup {Head(jobs).upto}
    BY <1>4 DEF AppendSucceeds, JobOrder
  <2>2. Queued' = Queued \ {Head(jobs).upto} /\ Head(jobs).upto \in Queued
    BY <2>1, QueuedTaken DEF HeadIs
  <2>3. \A q \in Queued' : Head(jobs).upto < q
    <3>1. Head(jobs) = jobs[1] /\ 1 \in DOMAIN jobs /\ DOMAIN jobs = 1 .. Len(jobs)
      BY <2>1 DEF HeadIs, TypeOK
    <3>2. ASSUME NEW i \in DOMAIN jobs, jobs[i].kind = "write", jobs[i].upto # jobs[1].upto
          PROVE  jobs[1].upto < jobs[i].upto
      <4>1. i # 1 /\ 1 < i
        BY <3>1, <3>2
      <4> QED BY <3>1, <3>2, <4>1 DEF JobOrder
    <3>3. \A q \in Queued : q # Head(jobs).upto => Head(jobs).upto < q
      BY <3>1, <3>2 DEF Queued, Range
    <3> QED BY <2>2, <3>3
  <2> QED BY <2>1, <2>2, <2>3 DEF StoredInOrder
<1>5. CASE OperationRefused \/ AppendFails
  <2>1. HeadIs("write") /\ jobs' = Tail(jobs) /\ disk' = disk
    BY <1>5 DEF OperationRefused, AppendFails, JobOrder
  <2>2. Queued' = Queued \ {Head(jobs).upto}
    BY <2>1, QueuedTaken DEF HeadIs
  <2> QED BY <1>2, <2>1, <2>2
<1>6. CASE FlushResumes \/ CloseResumes
  <2>1. /\ jobs # <<>> /\ Head(jobs).kind # "write" /\ jobs' = Tail(jobs) /\ disk' = disk
    BY <1>6 DEF FlushResumes, CloseResumes, HeadIs
  <2> QED BY <1>2, <2>1, QueuedTaken
<1>7. ASSUME NEW c \in Callers, FlushCalled(c) \/ CloseCalled(c) PROVE StoredInOrder'
  <2>1. PICK k \in {"flush", "close"} : jobs' = Append(jobs, Job(k, c, issued))
    BY <1>7 DEF FlushCalled, CloseCalled, AwaitTail
  <2>2. Range(jobs') = Range(jobs) \cup {Job(k, c, issued)} /\ Job(k, c, issued).kind = k
    BY <2>1, JobTyped, JobAdded DEF TypeOK
  <2>3. Queued' = Queued
    BY <2>2 DEF Queued
  <2> QED BY <1>2, <1>7, <2>3 DEF FlushCalled, CloseCalled, AwaitTail
<1>8. CASE RejectInvalid \/ OperationStarts \/ UNCHANGED vars
  BY <1>2, <1>8 DEF RejectInvalid, OperationStarts, vars, Queued
<1> QED BY <1>3, <1>4, <1>5, <1>6, <1>7, <1>8 DEF Next, JobStep

\* The rows of the file stand in the order of the write() calls.
THEOREM FileInCallOrder == Spec => Sink!RowsInCallOrder
<1>1. Init => StoredInOrder
  BY DEF Init, StoredInOrder
<1>2. IInv /\ StoredInOrder /\ [Next]_vars => StoredInOrder'
  BY NextStoredInOrder
<1>3. IInv /\ StoredInOrder /\ [Next]_vars =>
        [\A new \in disk' \ disk, old \in disk :
            FileOf[new] = FileOf[old] => old < new]_(Sink!sinkVars)
  <2> SUFFICES ASSUME IInv, StoredInOrder, [Sink!SinkNext]_(Sink!sinkVars),
                      NEW new \in disk' \ disk, NEW old \in disk
               PROVE  old < new
    BY NextImplements
  <2>1. new \in Queued
    BY DEF Sink!SinkNext, Sink!Offer, Sink!Land, Sink!GiveUp, Sink!sinkVars
  <2> QED BY <2>1 DEF StoredInOrder
<1> QED
  BY <1>1, <1>2, <1>3, InductiveInvariant, PTL DEF Spec, Sink!RowsInCallOrder

-----------------------------------------------------------------------------
(* createInspector() over the writer                                        *)

WroteRow == [of : Calls, event : {"started", "completed", "observed"}, ok : BOOLEAN]

Places == {"new", "starting", "inside", "completing", "settled"}

InspectorType ==
    /\ pc \in [Calls -> Places]
    /\ \A x \in Outcomes : pc[x] \in {"new", "completing", "settled"}
    /\ row \in [Calls -> Nat]
    /\ wrote \in Seq(WroteRow) /\ Len(wrote) = issued
    /\ closer \in [Callers -> {"open", "closing", "returned"}]
    /\ runtimeClosed \in BOOLEAN

\* A call awaits the row it wrote last.
Awaited ==
    \A e \in DOMAIN wrote :
        LET x == wrote[e].of IN
        /\ pc[x] # "new"
        /\ wrote[e].event = "started" /\ pc[x] = "starting" => row[x] = e
        /\ wrote[e].event # "started" =>
              pc[x] \in {"completing", "settled"} /\ (pc[x] = "completing" => row[x] = e)

\* What it has awaited is settled.
AwaitedSettled ==
    \A e \in DOMAIN wrote :
        LET at == pc[wrote[e].of] IN
        (at = "settled" \/ (at \in {"inside", "completing"} /\ wrote[e].event = "started"))
           => e \in disk \cup discarded

\* Until the inspector is closed a call has the rows of the way it has gone.
HasRows ==
    ~runtimeClosed =>
        \A x \in Calls : InRun[x] /\ pc[x] # "new" =>
            IF x \in Outcomes THEN RowsOf(x, "observed") # {}
            ELSE /\ RowsOf(x, "started") # {}
                 /\ pc[x] \in {"completing", "settled"} => RowsOf(x, "completed") # {}

\* Every row, written or not, comes after the start it stands on.
Below(e) == IF wrote[e].event = "completed" THEN wrote[e].of ELSE Outer[wrote[e].of]
Founded ==
    \A e \in DOMAIN wrote :
        Below(e) # None /\ InRun[Below(e)] => \E d \in RowsOf(Below(e), "started") : d < e

\* A close() that has returned, or may, has closed the writer.
ClosesWriter ==
    /\ runtimeClosed => closed
    /\ \A c \in Callers :
          /\ closer[c] = "returned" => runtimeClosed
          /\ closer[c] = "closing" =>
                closed \/ \E i \in DOMAIN jobs : jobs[i].kind = "close" /\ jobs[i].by = c

InspectorIInv ==
    InspectorType /\ StoredInOrder /\ Awaited /\ AwaitedSettled /\ HasRows /\ Founded
        /\ ClosesWriter

\* A step of the inspector is a step of the writer, or leaves the writer alone.
LEMMA InspectorDrivesWriter == [INext]_<<vars, inspectorVars>> => [Next]_vars
BY DEF INext, Next, Called, CalledBare, Observed, FnBegins, FnSettles, BareSettles, Returns,
       Flush, Close, CloseReturns, Write, vars

\* A writer settles for good, and stays closed.
LEMMA WriterKeeps ==
    ASSUME [Next]_vars
    PROVE  disk \subseteq disk' /\ discarded \subseteq discarded' /\ (closed => closed')
BY DEF Next, RejectInvalid, Enqueue, JobStep, OperationRefused, OperationStarts,
       AppendSucceeds, AppendFails, FlushResumes, CloseResumes, FlushCalled,
       CloseCalled, AwaitTail, Discard, vars

\* What is not queued any more has been settled.
LEMMA NotQueued ==
    ASSUME TypeOK, Accounted, NEW e \in 1 .. issued, e \notin Queued
    PROVE  e \in disk \cup discarded
BY DEF Accounted

\* A row that is written gets the next number; on a closed inspector nothing is written.
LEMMA RowWritten ==
    ASSUME TypeOK, InspectorType, NEW x \in Calls,
           NEW event \in {"started", "completed", "observed"}, NEW ok \in BOOLEAN,
           Write(x, event, ok)
    PROVE  /\ wrote' \in Seq(WroteRow) /\ Len(wrote') = issued' /\ row' \in [Calls -> Nat]
           /\ issued \in Nat /\ DOMAIN wrote = 1 .. issued
           /\ \A y \in Calls \ {x} : row'[y] = row[y]
           /\ \A e \in DOMAIN wrote : e \in DOMAIN wrote' /\ wrote'[e] = wrote[e]
           /\ \/ runtimeClosed /\ wrote' = wrote /\ UNCHANGED vars
              \/ /\ ~runtimeClosed /\ Enqueue /\ issued' = issued + 1
                 /\ row'[x] = issued + 1
                 /\ DOMAIN wrote' = 1 .. issued + 1
                 /\ issued + 1 \in DOMAIN wrote' /\ issued + 1 \notin DOMAIN wrote
                 /\ \A e \in DOMAIN wrote' : e \in DOMAIN wrote \/ e = issued + 1
                 /\ wrote'[issued + 1] = [of |-> x, event |-> event, ok |-> ok]
<1>1. issued \in Nat /\ DOMAIN wrote = 1 .. issued
  BY EventsAssumption DEF TypeOK, InspectorType
<1>2. CASE runtimeClosed
  <2>1. wrote' = wrote /\ UNCHANGED vars /\ row' = [row EXCEPT ![x] = 0]
    BY <1>2 DEF Write
  <2>2. row' \in [Calls -> Nat] /\ \A y \in Calls \ {x} : row'[y] = row[y]
    BY <2>1 DEF InspectorType
  <2>3. issued' = issued
    BY <2>1 DEF vars
  <2> QED BY <1>1, <1>2, <2>1, <2>2, <2>3 DEF InspectorType
<1>3. CASE ~runtimeClosed
  <2>1. /\ Enqueue /\ issued' = issued + 1 /\ row' = [row EXCEPT ![x] = issued + 1]
        /\ wrote' = Append(wrote, [of |-> x, event |-> event, ok |-> ok])
    BY <1>3 DEF Write, Enqueue
  <2>2. [of |-> x, event |-> event, ok |-> ok] \in WroteRow
    BY DEF WroteRow
  <2>3. /\ wrote' \in Seq(WroteRow) /\ Len(wrote') = issued + 1
        /\ DOMAIN wrote' = 1 .. issued + 1
        /\ \A e \in 1 .. issued : wrote'[e] = wrote[e]
        /\ wrote'[issued + 1] = [of |-> x, event |-> event, ok |-> ok]
    BY <1>1, <2>1, <2>2 DEF InspectorType
  <2>4. /\ row' \in [Calls -> Nat] /\ \A y \in Calls \ {x} : row'[y] = row[y]
        /\ row'[x] = issued + 1
    BY <1>1, <2>1 DEF InspectorType
  <2>5. /\ issued + 1 \in 1 .. issued + 1 /\ issued + 1 \notin 1 .. issued
        /\ \A e \in 1 .. issued + 1 : e \in 1 .. issued \/ e = issued + 1
        /\ \A e \in 1 .. issued : e \in 1 .. issued + 1
    BY <1>1
  <2> QED BY <1>1, <1>3, <2>1, <2>3, <2>4, <2>5
<1> QED BY <1>2, <1>3

LEMMA Moved ==
    ASSUME InspectorType, NEW x \in Calls, NEW place \in Places, Goes(x, place),
           x \in Outcomes => place \in {"completing", "settled"}
    PROVE  /\ pc' \in [Calls -> Places] /\ pc'[x] = place
           /\ \A y \in Calls \ {x} : pc'[y] = pc[y]
           /\ \A y \in Outcomes : pc'[y] \in {"new", "completing", "settled"}
<1>1. pc \in [Calls -> Places] /\ pc' = [pc EXCEPT ![x] = place]
  BY DEF InspectorType, Places, Goes
<1>2. \A y \in Outcomes : y \in Calls /\ pc[y] \in {"new", "completing", "settled"}
  BY DEF InspectorType, Calls
<1> QED BY <1>1, <1>2

\* The three ways to write a row, and where the call stands before and after.
Writes(x, event, place) ==
    /\ Goes(x, place) /\ InRun[x] /\ UNCHANGED <<runtimeClosed, closer>>
    /\ \/ MayCall(x) /\ x \notin Outcomes /\ event = "started" /\ place = "starting"
       \/ MayCall(x) /\ x \in Outcomes /\ event = "observed" /\ place = "completing"
       \/ pc[x] = "inside" /\ x \notin Outcomes /\ event = "completed" /\ place = "completing"

\* The ways to go on without one.
GoesOn(x, place) ==
    /\ Goes(x, place) /\ UNCHANGED <<vars, row, wrote, runtimeClosed, closer>>
    /\ \/ pc[x] = "new" /\ ~InRun[x] /\ x \in Outcomes /\ place = "settled"
       \/ pc[x] = "new" /\ ~InRun[x] /\ x \notin Outcomes /\ place = "inside"
       \/ pc[x] = "starting" /\ Settled(x) /\ x \notin Outcomes /\ place = "inside"
       \/ pc[x] = "inside" /\ ~InRun[x] /\ place = "settled"
       \/ pc[x] = "completing" /\ Settled(x) /\ place = "settled"

\* flush(), close() and the writer's jobs.
Elsewhere ==
    /\ UNCHANGED <<pc, row, wrote>> /\ (runtimeClosed => runtimeClosed') /\ issued' = issued
    /\ closer' \in [Callers -> {"open", "closing", "returned"}] /\ runtimeClosed' \in BOOLEAN

LEMMA InspectorSteps ==
    ASSUME InspectorType, [INext]_<<vars, inspectorVars>>
    PROVE  \/ \E x \in Calls, event \in {"started", "completed", "observed"}, ok \in BOOLEAN,
                 place \in Places : Write(x, event, ok) /\ Writes(x, event, place)
           \/ \E x \in Calls, place \in Places : GoesOn(x, place)
           \/ Elsewhere
<1> USE DEF Places
<1>1. ASSUME NEW x \in Calls, Called(x)
      PROVE  Write(x, "started", TRUE) /\ Writes(x, "started", "starting")
  BY <1>1 DEF Called, Writes
<1>2. ASSUME NEW x \in Calls, Observed(x)
      PROVE  Write(x, "observed", TRUE) /\ Writes(x, "observed", "completing")
  BY <1>2 DEF Observed, Writes
<1>3. ASSUME NEW x \in Calls, NEW ok \in BOOLEAN, FnSettles(x, ok)
      PROVE  Write(x, "completed", ok) /\ Writes(x, "completed", "completing")
  BY <1>3 DEF FnSettles, Writes, InspectorType
<1>4. ASSUME NEW x \in Calls, CalledBare(x)
      PROVE  GoesOn(x, "settled") \/ GoesOn(x, "inside")
  BY <1>4 DEF CalledBare, MayCall, GoesOn
<1>5. ASSUME NEW x \in Calls, FnBegins(x) \/ BareSettles(x) \/ Returns(x)
      PROVE  GoesOn(x, "settled") \/ GoesOn(x, "inside")
  BY <1>5 DEF FnBegins, BareSettles, Returns, GoesOn, InspectorType
<1>6. ASSUME NEW c \in Callers, Flush(c) \/ Close(c) \/ CloseReturns(c)
      PROVE  Elsewhere
  BY <1>6 DEF Flush, Close, CloseReturns, FlushCalled, CloseCalled, AwaitTail, inspectorVars,
              vars, Elsewhere, InspectorType
<1>7. CASE JobStep /\ UNCHANGED inspectorVars
  BY <1>7 DEF JobStep, OperationRefused, OperationStarts, AppendSucceeds, AppendFails,
              FlushResumes, CloseResumes, inspectorVars, Elsewhere, InspectorType
<1>8. CASE UNCHANGED <<vars, inspectorVars>>
  BY <1>8 DEF vars, inspectorVars, Elsewhere, InspectorType
<1> QED BY <1>1, <1>2, <1>3, <1>4, <1>5, <1>6, <1>7, <1>8 DEF INext

LEMMA NextInspectorType ==
    ASSUME TypeOK, InspectorType, [INext]_<<vars, inspectorVars>>
    PROVE  InspectorType'
<1>1. ASSUME NEW x \in Calls, NEW event \in {"started", "completed", "observed"},
             NEW ok \in BOOLEAN, NEW place \in Places, Write(x, event, ok), Writes(x, event, place)
      PROVE  InspectorType'
  <2>1. /\ pc' \in [Calls -> Places] /\ \A y \in Outcomes : pc'[y] \in {"new", "completing", "settled"}
    BY <1>1, Moved DEF Writes
  <2>2. wrote' \in Seq(WroteRow) /\ Len(wrote') = issued' /\ row' \in [Calls -> Nat]
    BY <1>1, RowWritten
  <2> QED BY <1>1, <2>1, <2>2 DEF Writes, InspectorType, Places
<1>2. ASSUME NEW x \in Calls, NEW place \in Places, GoesOn(x, place)
      PROVE  InspectorType'
  <2>1. /\ pc' \in [Calls -> Places] /\ \A y \in Outcomes : pc'[y] \in {"new", "completing", "settled"}
    BY <1>2, Moved DEF GoesOn, InspectorType
  <2> QED BY <1>2, <2>1 DEF GoesOn, InspectorType, Places, vars
<1>3. CASE Elsewhere
  BY <1>3 DEF Elsewhere, InspectorType
<1> QED BY <1>1, <1>2, <1>3, InspectorSteps

\* Every call of a row is a call.
LEMMA WroteOf ==
    ASSUME InspectorType
    PROVE  \A e \in DOMAIN wrote :
              /\ wrote[e].of \in Calls /\ pc[wrote[e].of] \in Places
              /\ wrote[e].event \in {"started", "completed", "observed"}
<1>1. \A e \in DOMAIN wrote : wrote[e] \in WroteRow
  BY DEF InspectorType
<1> QED BY <1>1 DEF WroteRow, InspectorType, Places

LEMMA NextAwaited ==
    ASSUME TypeOK, InspectorType, Awaited, [INext]_<<vars, inspectorVars>>
    PROVE  Awaited'
<1>1. ASSUME NEW x \in Calls, NEW event \in {"started", "completed", "observed"},
             NEW ok \in BOOLEAN, NEW place \in Places, Write(x, event, ok), Writes(x, event, place)
      PROVE  Awaited'
  <2>1. /\ pc'[x] = place /\ \A y \in Calls \ {x} : pc'[y] = pc[y]
    BY <1>1, Moved DEF Writes
  <2>2. \A e \in DOMAIN wrote : wrote[e].of = x => pc[x] = "inside" /\ wrote[e].event = "started"
    BY <1>1, WroteOf DEF Writes, MayCall, Awaited
  <2>3. ASSUME NEW e \in DOMAIN wrote', e \in DOMAIN wrote, wrote'[e] = wrote[e]
        PROVE  LET y == wrote'[e].of IN
               /\ pc'[y] # "new"
               /\ wrote'[e].event = "started" /\ pc'[y] = "starting" => row'[y] = e
               /\ wrote'[e].event # "started" =>
                     pc'[y] \in {"completing", "settled"} /\ (pc'[y] = "completing" => row'[y] = e)
    <3>1. CASE wrote[e].of = x
      BY <1>1, <2>1, <2>2, <2>3, <3>1 DEF Writes, MayCall
    <3>2. CASE wrote[e].of # x
      <4>1. PICK y \in Calls : y = wrote[e].of
        BY <2>3, WroteOf
      <4>2. pc'[y] = pc[y] /\ row'[y] = row[y]
        BY <1>1, <2>1, <3>2, <4>1, RowWritten
      <4> QED BY <2>3, <4>1, <4>2 DEF Awaited
    <3> QED BY <3>1, <3>2
  <2>4. ASSUME NEW e \in DOMAIN wrote', e = issued + 1, row'[x] = issued + 1,
               wrote'[e] = [of |-> x, event |-> event, ok |-> ok]
        PROVE  LET y == wrote'[e].of IN
               /\ pc'[y] # "new"
               /\ wrote'[e].event = "started" /\ pc'[y] = "starting" => row'[y] = e
               /\ wrote'[e].event # "started" =>
                     pc'[y] \in {"completing", "settled"} /\ (pc'[y] = "completing" => row'[y] = e)
    BY <1>1, <2>1, <2>4 DEF Writes
  <2>5. \A e \in DOMAIN wrote' :
           \/ e \in DOMAIN wrote /\ wrote'[e] = wrote[e]
           \/ /\ e = issued + 1 /\ row'[x] = issued + 1
              /\ wrote'[e] = [of |-> x, event |-> event, ok |-> ok]
    BY <1>1, RowWritten
  <2> QED BY <2>3, <2>4, <2>5 DEF Awaited
<1>2. ASSUME NEW x \in Calls, NEW place \in Places, GoesOn(x, place)
      PROVE  Awaited'
  <2>1. /\ pc'[x] = place /\ \A y \in Calls \ {x} : pc'[y] = pc[y]
        /\ wrote' = wrote /\ row' = row
    BY <1>2, Moved DEF GoesOn, InspectorType
  <2>2. ASSUME NEW e \in DOMAIN wrote
        PROVE  LET y == wrote[e].of IN
               /\ pc'[y] # "new"
               /\ wrote[e].event = "started" /\ pc'[y] = "starting" => row[y] = e
               /\ wrote[e].event # "started" =>
                     pc'[y] \in {"completing", "settled"} /\ (pc'[y] = "completing" => row[y] = e)
    BY <1>2, <2>1, WroteOf DEF GoesOn, Awaited
  <2> QED BY <2>1, <2>2 DEF Awaited
<1>3. CASE Elsewhere
  BY <1>3 DEF Elsewhere, Awaited
<1> QED BY <1>1, <1>2, <1>3, InspectorSteps

LEMMA NextAwaitedSettled ==
    ASSUME TypeOK, Accounted, InspectorType, Awaited, AwaitedSettled,
           [INext]_<<vars, inspectorVars>>
    PROVE  AwaitedSettled'
<1>1. disk \subseteq disk' /\ discarded \subseteq discarded'
  BY InspectorDrivesWriter, WriterKeeps
<1>2. ASSUME NEW x \in Calls, NEW event \in {"started", "completed", "observed"},
             NEW ok \in BOOLEAN, NEW place \in Places, Write(x, event, ok), Writes(x, event, place)
      PROVE  AwaitedSettled'
  <2>1. /\ pc'[x] = place /\ \A y \in Calls \ {x} : pc'[y] = pc[y]
    BY <1>2, Moved DEF Writes
  <2>2. \A e \in DOMAIN wrote : wrote[e].of = x =>
            wrote[e].event = "started" /\ e \in disk \cup discarded
    BY <1>2, WroteOf DEF Writes, MayCall, Awaited, AwaitedSettled
  <2>3. ASSUME NEW e \in DOMAIN wrote, wrote'[e] = wrote[e],
               \/ pc'[wrote[e].of] = "settled"
               \/ pc'[wrote[e].of] \in {"inside", "completing"} /\ wrote[e].event = "started"
        PROVE  e \in disk' \cup discarded'
    BY <1>1, <2>1, <2>2, <2>3, WroteOf DEF AwaitedSettled
  <2>4. \A e \in DOMAIN wrote' :
           \/ e \in DOMAIN wrote /\ wrote'[e] = wrote[e]
           \/ wrote'[e] = [of |-> x, event |-> event, ok |-> ok]
    BY <1>2, RowWritten
  <2>5. place # "settled" /\ (place \in {"inside", "completing"} => event # "started")
    BY <1>2 DEF Writes
  <2> QED BY <2>1, <2>3, <2>4, <2>5 DEF AwaitedSettled
<1>3. ASSUME NEW x \in Calls, NEW place \in Places, GoesOn(x, place)
      PROVE  AwaitedSettled'
  <2>1. /\ pc'[x] = place /\ \A y \in Calls \ {x} : pc'[y] = pc[y]
        /\ wrote' = wrote
    BY <1>3, Moved DEF GoesOn, InspectorType
  <2>2. ASSUME NEW e \in DOMAIN wrote,
               \/ pc'[wrote[e].of] = "settled"
               \/ pc'[wrote[e].of] \in {"inside", "completing"} /\ wrote[e].event = "started"
        PROVE  e \in disk \cup discarded
    <3>1. CASE wrote[e].of # x
      BY <2>1, <2>2, <3>1, WroteOf DEF AwaitedSettled
    <3>2. CASE wrote[e].of = x /\ row[x] = e /\ Settled(x)
      <4>1. e \in 1 .. issued
        BY EventsAssumption DEF TypeOK, InspectorType
      <4> QED BY <3>2, <4>1, NotQueued DEF Settled
    <3>3. CASE wrote[e].of = x /\ ~(row[x] = e /\ Settled(x))
      BY <1>3, <2>1, <2>2, <3>3, WroteOf DEF GoesOn, Awaited, AwaitedSettled
    <3> QED BY <3>1, <3>2, <3>3
  <2> QED BY <1>1, <2>1, <2>2 DEF AwaitedSettled
<1>4. CASE Elsewhere
  BY <1>1, <1>4 DEF Elsewhere, AwaitedSettled
<1> QED BY <1>2, <1>3, <1>4, InspectorSteps

\* Rows stay, and a new one is its call's.
LEMMA RowsStay ==
    ASSUME TypeOK, InspectorType, [INext]_<<vars, inspectorVars>>
    PROVE  \A y, event : \A d \in RowsOf(y, event) : d \in RowsOf(y, event)'
<1>1. ASSUME NEW x \in Calls, NEW event \in {"started", "completed", "observed"},
             NEW ok \in BOOLEAN, Write(x, event, ok)
      PROVE  \A e \in DOMAIN wrote : e \in DOMAIN wrote' /\ wrote'[e] = wrote[e]
  BY <1>1, RowWritten
<1>2. \A e \in DOMAIN wrote : e \in DOMAIN wrote' /\ wrote'[e] = wrote[e]
  BY <1>1, InspectorSteps DEF GoesOn, Elsewhere
<1> QED BY <1>2 DEF RowsOf

LEMMA NextHasRows ==
    ASSUME TypeOK, InspectorType, HasRows, [INext]_<<vars, inspectorVars>>
    PROVE  HasRows'
<1>1. ASSUME NEW x \in Calls, NEW event \in {"started", "completed", "observed"},
             NEW ok \in BOOLEAN, NEW place \in Places, Write(x, event, ok), Writes(x, event, place),
             ~runtimeClosed', NEW y \in Calls, InRun[y], pc'[y] # "new"
      PROVE  IF y \in Outcomes THEN RowsOf(y, "observed")' # {}
             ELSE /\ RowsOf(y, "started")' # {}
                  /\ pc'[y] \in {"completing", "settled"} => RowsOf(y, "completed")' # {}
  <2>1. /\ pc'[x] = place /\ \A z \in Calls \ {x} : pc'[z] = pc[z]
        /\ ~runtimeClosed
    BY <1>1, Moved DEF Writes
  <2>2. RowsOf(x, event)' # {}
    <3>1. /\ issued + 1 \in DOMAIN wrote'
          /\ wrote'[issued + 1] = [of |-> x, event |-> event, ok |-> ok]
      BY <1>1, <2>1, RowWritten
    <3> QED BY <3>1 DEF RowsOf
  <2>3. CASE y = x
    <3>1. CASE event = "completed"
      <4>1. x \notin Outcomes /\ pc[x] = "inside"
        BY <1>1, <3>1 DEF Writes
      <4>2. RowsOf(x, "started") # {}
        BY <1>1, <2>1, <2>3, <4>1 DEF HasRows
      <4> QED BY <2>2, <2>3, <3>1, <4>1, <4>2, RowsStay
    <3>2. CASE event # "completed"
      BY <1>1, <2>1, <2>2, <2>3, <3>2 DEF Writes
    <3> QED BY <3>1, <3>2
  <2>4. CASE y # x
    BY <1>1, <2>1, <2>4, RowsStay DEF HasRows
  <2> QED BY <2>3, <2>4
<1>2. ASSUME NEW x \in Calls, NEW place \in Places, GoesOn(x, place),
             ~runtimeClosed', NEW y \in Calls, InRun[y], pc'[y] # "new"
      PROVE  IF y \in Outcomes THEN RowsOf(y, "observed")' # {}
             ELSE /\ RowsOf(y, "started")' # {}
                  /\ pc'[y] \in {"completing", "settled"} => RowsOf(y, "completed")' # {}
  <2>1. /\ pc'[x] = place /\ \A z \in Calls \ {x} : pc'[z] = pc[z]
        /\ ~runtimeClosed
    BY <1>2, Moved DEF GoesOn, InspectorType
  <2>2. pc[y] # "new" /\ (pc'[y] \in {"completing", "settled"} => pc[y] \in {"completing", "settled"})
    BY <1>2, <2>1 DEF GoesOn
  <2> QED BY <1>2, <2>1, <2>2, RowsStay DEF HasRows
<1>3. ASSUME Elsewhere, ~runtimeClosed', NEW y \in Calls, InRun[y], pc'[y] # "new"
      PROVE  IF y \in Outcomes THEN RowsOf(y, "observed")' # {}
             ELSE /\ RowsOf(y, "started")' # {}
                  /\ pc'[y] \in {"completing", "settled"} => RowsOf(y, "completed")' # {}
  BY <1>3, RowsStay DEF Elsewhere, HasRows
<1> QED BY <1>1, <1>2, <1>3, InspectorSteps DEF HasRows

LEMMA NextFounded ==
    ASSUME TypeOK, InspectorType, HasRows, Founded, [INext]_<<vars, inspectorVars>>
    PROVE  Founded'
<1>1. ASSUME NEW x \in Calls, NEW event \in {"started", "completed", "observed"},
             NEW ok \in BOOLEAN, NEW place \in Places, Write(x, event, ok), Writes(x, event, place)
      PROVE  Founded'
  <2>1. ASSUME NEW e \in DOMAIN wrote', e \in DOMAIN wrote, wrote'[e] = wrote[e],
               NEW y, y = Below(e)', y # None, InRun[y]
        PROVE  \E d \in RowsOf(y, "started")' : d < e
    <3>1. y = Below(e)
      BY <2>1 DEF Below
    <3>2. \E d \in RowsOf(y, "started") : d < e
      BY <2>1, <3>1 DEF Founded
    <3> QED BY <3>2, RowsStay
  <2>2. ASSUME NEW e \in DOMAIN wrote', e = issued + 1, ~runtimeClosed,
               wrote'[e] = [of |-> x, event |-> event, ok |-> ok],
               NEW y, y = Below(e)', y # None, InRun[y]
        PROVE  \E d \in RowsOf(y, "started")' : d < e
    <3>1. y = IF event = "completed" THEN x ELSE Outer[x]
      BY <2>2 DEF Below
    <3>2. y \in Calls /\ y \notin Outcomes /\ pc[y] # "new"
      <4>1. CASE event = "completed"
        BY <1>1, <3>1, <4>1 DEF Writes
      <4>2. CASE event # "completed"
        <5>1. MayCall(x) /\ y = Outer[x] /\ y # None
          BY <1>1, <2>2, <3>1, <4>2 DEF Writes
        <5>2. y \in Runs \cup Steps
          BY <5>1, InspectorAssumption
        <5> QED BY <5>1, <5>2, InspectorAssumption DEF MayCall, Begun, Calls
      <4> QED BY <4>1, <4>2
    <3>3. RowsOf(y, "started") # {}
      BY <2>2, <3>2 DEF HasRows
    <3>4. \A d \in DOMAIN wrote : d < issued + 1
      <4>1. issued \in Nat /\ DOMAIN wrote = 1 .. issued
        BY <1>1, RowWritten
      <4> QED BY <4>1
    <3> QED BY <2>2, <3>3, <3>4, RowsStay DEF RowsOf
  <2>3. \A e \in DOMAIN wrote' :
           \/ e \in DOMAIN wrote /\ wrote'[e] = wrote[e]
           \/ /\ e = issued + 1 /\ ~runtimeClosed
              /\ wrote'[e] = [of |-> x, event |-> event, ok |-> ok]
    BY <1>1, RowWritten
  <2> QED BY <2>1, <2>2, <2>3 DEF Founded
<1>2. CASE wrote' = wrote
  BY <1>2 DEF Founded, Below, RowsOf
<1> QED BY <1>1, <1>2, InspectorSteps DEF GoesOn, Elsewhere

\* The job of a close() stays until the writer is closed.
LEMMA CloseJobStays ==
    ASSUME TypeOK, [Next]_vars, ~closed', NEW c \in Callers,
           NEW i \in DOMAIN jobs, jobs[i].kind = "close", jobs[i].by = c, JobOrder
    PROVE  \E j \in DOMAIN jobs' : jobs'[j].kind = "close" /\ jobs'[j].by = c
<1>1. ASSUME NEW job \in Jobs, jobs' = Append(jobs, job)
      PROVE  \E j \in DOMAIN jobs' : jobs'[j].kind = "close" /\ jobs'[j].by = c
  BY <1>1, JobAdded
<1>2. ASSUME jobs # <<>>, jobs' = Tail(jobs), Head(jobs).kind # "close"
      PROVE  \E j \in DOMAIN jobs' : jobs'[j].kind = "close" /\ jobs'[j].by = c
  <2>1. Head(jobs) = jobs[1] /\ i # 1
    BY <1>2, JobTaken
  <2>2. i - 1 \in DOMAIN jobs' /\ jobs'[i - 1] = jobs[i]
    BY <1>2, <2>1, JobTaken
  <2> QED BY <2>2
<1>3. CASE Enqueue
  <2>1. issued + 1 \in 0 .. MaxEvents
    BY <1>3, EventsAssumption DEF Enqueue, TypeOK
  <2> QED BY <1>1, <1>3, <2>1, JobTyped DEF Enqueue
<1>4. ASSUME NEW d \in Callers, FlushCalled(d) \/ CloseCalled(d)
      PROVE  \E j \in DOMAIN jobs' : jobs'[j].kind = "close" /\ jobs'[j].by = c
  <2>1. PICK k \in {"flush", "close"} : jobs' = Append(jobs, Job(k, d, issued))
    BY <1>4 DEF FlushCalled, CloseCalled, AwaitTail
  <2> QED BY <1>1, <2>1, JobTyped DEF TypeOK
<1>5. CASE OperationRefused \/ AppendSucceeds \/ AppendFails \/ FlushResumes
  <2>1. jobs # <<>> /\ jobs' = Tail(jobs) /\ Head(jobs).kind # "close"
    BY <1>5 DEF OperationRefused, AppendSucceeds, AppendFails, FlushResumes, HeadIs, JobOrder
  <2> QED BY <1>2, <2>1
<1>6. CASE RejectInvalid \/ OperationStarts \/ UNCHANGED vars
  BY <1>6 DEF RejectInvalid, OperationStarts, vars
<1>7. ~CloseResumes
  BY DEF CloseResumes
<1> QED BY <1>3, <1>4, <1>5, <1>6, <1>7 DEF Next, JobStep

LEMMA NextClosesWriter ==
    ASSUME TypeOK, JobOrder, InspectorType, ClosesWriter, [INext]_<<vars, inspectorVars>>
    PROVE  ClosesWriter'
<1>1. [Next]_vars
  BY InspectorDrivesWriter
<1>2. closed => closed'
  BY <1>1, WriterKeeps
<1>3. ASSUME NEW c \in Callers, closer'[c] = closer[c]
      PROVE  /\ closer'[c] = "returned" => runtimeClosed
             /\ closer'[c] = "closing" =>
                   closed' \/ \E j \in DOMAIN jobs' : jobs'[j].kind = "close" /\ jobs'[j].by = c
  BY <1>1, <1>2, <1>3, CloseJobStays DEF ClosesWriter
<1>4. CASE closer' = closer /\ runtimeClosed' = runtimeClosed
  BY <1>2, <1>3, <1>4 DEF ClosesWriter
<1>5. ASSUME NEW c \in Callers, Close(c) PROVE ClosesWriter'
  <2>1. /\ \A d \in Callers \ {c} : closer'[d] = closer[d]
        /\ closer'[c] = IF runtimeClosed THEN "returned" ELSE "closing"
        /\ runtimeClosed' = runtimeClosed
    BY <1>5 DEF Close, InspectorType
  <2>2. ASSUME ~runtimeClosed, ~closed
        PROVE  \E j \in DOMAIN jobs' : jobs'[j].kind = "close" /\ jobs'[j].by = c
    <3>1. jobs' = Append(jobs, Job("close", c, issued))
      BY <1>5, <2>2 DEF Close, CloseCalled, AwaitTail
    <3>2. /\ Job("close", c, issued) \in Jobs
          /\ Job("close", c, issued).kind = "close" /\ Job("close", c, issued).by = c
      BY JobTyped DEF TypeOK
    <3>3. Len(jobs) + 1 \in DOMAIN jobs' /\ jobs'[Len(jobs) + 1] = Job("close", c, issued)
      BY <3>1, <3>2, JobAdded
    <3> QED BY <3>2, <3>3
  <2> QED BY <1>2, <1>3, <2>1, <2>2 DEF ClosesWriter
<1>6. ASSUME NEW c \in Callers, CloseReturns(c) PROVE ClosesWriter'
  <2>1. /\ \A d \in Callers \ {c} : closer'[d] = closer[d]
        /\ closer'[c] = "returned" /\ runtimeClosed' /\ closed' = closed
    BY <1>6 DEF CloseReturns, InspectorType, vars
  <2>2. closed
    BY <1>6 DEF CloseReturns, Waiting, ClosesWriter
  <2> QED BY <1>3, <2>1, <2>2 DEF ClosesWriter
<1>7. CASE \A c \in Callers : ~Close(c) /\ ~CloseReturns(c)
  BY <1>4, <1>7 DEF INext, Called, CalledBare, Observed, FnBegins, FnSettles, BareSettles,
     Returns, Flush, inspectorVars
<1> QED BY <1>5, <1>6, <1>7

LEMMA InitInspector == IInit => IInv /\ InspectorIInv
<1> SUFFICES ASSUME IInit PROVE IInv /\ InspectorIInv
  OBVIOUS
<1>1. IInv
  BY InitIInv DEF IInit
<1>2. wrote \in Seq(WroteRow) /\ Len(wrote) = 0 /\ DOMAIN wrote = {}
  BY DEF IInit
<1>3. InspectorType
  BY <1>2 DEF IInit, Init, InspectorType, Places, Calls
<1>4. StoredInOrder
  BY DEF IInit, Init, StoredInOrder
<1>5. Awaited /\ AwaitedSettled /\ Founded
  BY <1>2 DEF Awaited, AwaitedSettled, Founded
<1>6. HasRows /\ ClosesWriter
  BY DEF IInit, HasRows, ClosesWriter
<1> QED BY <1>1, <1>3, <1>4, <1>5, <1>6 DEF InspectorIInv

LEMMA NextInspector ==
    IInv /\ InspectorIInv /\ [INext]_<<vars, inspectorVars>> => (IInv /\ InspectorIInv)'
<1> SUFFICES ASSUME IInv, InspectorIInv, [INext]_<<vars, inspectorVars>>
             PROVE  IInv' /\ InspectorIInv'
  OBVIOUS
<1>1. [Next]_vars
  BY InspectorDrivesWriter
<1>2. TypeOK /\ Accounted /\ JobOrder
  BY DEF IInv
<1> QED BY <1>1, <1>2, NextIInv, NextInspectorType, NextStoredInOrder, NextAwaited,
           NextAwaitedSettled, NextHasRows, NextFounded, NextClosesWriter DEF InspectorIInv

LEMMA InspectorConsistent == IInv /\ InspectorIInv => ConsistentTrace
<1> SUFFICES ASSUME IInv, InspectorIInv PROVE ConsistentTrace
  OBVIOUS
<1> USE DEF IInv, InspectorIInv
<1>1. issued \in Nat /\ DOMAIN wrote = 1 .. issued
  BY EventsAssumption DEF TypeOK, InspectorType
<1>2. ASSUME NEW e \in disk, NEW d \in 1 .. e PROVE Kept(d)
  <2>1. e \in 1 .. issued /\ d \in 1 .. issued /\ d <= e
    BY <1>1, <1>2 DEF Accounted
  <2>2. d \notin Queued
    BY <2>1 DEF StoredInOrder
  <2>3. d \in disk \cup discarded
    BY <2>1, <2>2 DEF Accounted
  <2>4. e <= cut
    <3>1. CASE cut # NoCut
      BY <3>1 DEF CutHolds
    <3>2. CASE cut = NoCut
      BY <1>1, <2>1, <3>2, EventsAssumption DEF NoCut, TypeOK
    <3> QED BY <3>1, <3>2
  <2>5. cut \in Nat
    BY EventsAssumption DEF TypeOK, NoCut
  <2> QED BY <2>1, <2>3, <2>4, <2>5 DEF Kept
<1>3. ASSUME NEW e \in disk, Below(e) # None, InRun[Below(e)]
      PROVE  \E d \in RowsOf(Below(e), "started") : d < e
  <2>1. e \in DOMAIN wrote
    BY <1>1 DEF Accounted
  <2> QED BY <1>3, <2>1 DEF Founded
<1>4. ASSUME NEW x \in Calls, pc[x] = "settled", InRun[x], ~runtimeClosed
      PROVE  IF x \in Outcomes THEN RowsOf(x, "observed") # {}
             ELSE RowsOf(x, "started") # {} /\ RowsOf(x, "completed") # {}
  BY <1>4 DEF HasRows
<1>5. ASSUME NEW e \in DOMAIN wrote,
             \/ pc[wrote[e].of] = "settled"
             \/ pc[wrote[e].of] = "inside" /\ wrote[e].event = "started"
      PROVE  e \in disk \cup discarded
  BY <1>5 DEF AwaitedSettled
<1> QED BY <1>2, <1>3, <1>4, <1>5 DEF ConsistentTrace, Below

\* For any calls in each other's fn, any callers that flush and close, and any number of failed
\* appends: what a call awaited is settled, and wherever close() cuts the calls under way the
\* file holds with each row what it stands on.
THEOREM TraceIsConsistent == ISpec => []ConsistentTrace
BY InitInspector, NextInspector, InspectorConsistent, PTL DEF ISpec

\* Once any close() of the inspector has returned no row is appended.
THEOREM ClosedIsQuiet == ISpec => QuietAfterClose
<1>1. IInv /\ InspectorIInv /\ [INext]_<<vars, inspectorVars>> =>
         [(\E c \in Callers : closer[c] = "returned") =>
             disk' = disk /\ ~appending']_<<vars, inspectorVars>>
  <2> SUFFICES ASSUME IInv, InspectorIInv, [INext]_<<vars, inspectorVars>>,
                      NEW c \in Callers, closer[c] = "returned"
               PROVE  disk' = disk /\ ~appending'
    OBVIOUS
  <2>1. closed /\ appending = FALSE
    BY DEF IInv, TypeOK, InspectorIInv, ClosesWriter, JobOrder
  <2>2. [Next]_vars
    BY InspectorDrivesWriter
  <2>3. ~OperationStarts /\ ~AppendSucceeds /\ ~AppendFails
    BY <2>1 DEF OperationStarts, AppendSucceeds, AppendFails
  <2>4. disk' = disk /\ appending' = appending
    BY <2>2, <2>3 DEF Next, RejectInvalid, Enqueue, JobStep, OperationRefused,
       FlushResumes, CloseResumes, FlushCalled, CloseCalled, AwaitTail, vars
  <2> QED BY <2>1, <2>4
<1> QED BY <1>1, InitInspector, NextInspector, PTL DEF ISpec, QuietAfterClose
=============================================================================
