----------------------------- MODULE FileWriter -----------------------------
(***************************************************************************)
(* fileWriter: every write is an operation on a promise chain, and flush   *)
(* and close await the chain's tail.  Promise reactions run in the order   *)
(* they were registered, so operations and waiting calls form one FIFO of  *)
(* jobs; a job added while the head runs goes to the back.                 *)
(***************************************************************************)
EXTENDS TraceEvents, Sequences, FiniteSets, Functions

CONSTANTS
    Callers,      \* application tasks that flush and close the writer
    MaxFlushes    \* bound: completed or waiting flush() calls

ASSUME FileWriterAssumption == MaxFlushes \in Nat /\ "writer" \notin Callers

VARIABLES
    issued,      \* write() calls so far: the last event id
    jobs,        \* what the chain still has to run, oldest first
    appending,   \* the head's appendFile is under way
    disk,        \* events whose row is in its file
    discarded,   \* events recordDropped
    stats,       \* writtenEvents, droppedEvents, flushCount
    closed,
    cut          \* history: issued when close() was first called, or NoCut

vars == <<issued, jobs, appending, disk, discarded, stats, closed, cut>>

NoCut == MaxEvents + 1

\* A job remembers how many events were issued when it was queued: for a write
\* that is its own event, for a flush or close the last event before the call.
Jobs == [kind : {"write", "flush", "close"}, by : Callers \cup {"writer"},
         upto : 0 .. MaxEvents]

Init ==
    /\ issued = 0
    /\ jobs = <<>>
    /\ appending = FALSE
    /\ disk = {}
    /\ discarded = {}
    /\ stats = [written |-> 0, dropped |-> 0, flushes |-> 0]
    /\ closed = FALSE
    /\ cut = NoCut

\* stats after w more rows written, d more events dropped, f more flushes.
Counted(w, d, f) ==
    [written |-> stats.written + w,
     dropped |-> stats.dropped + d,
     flushes |-> stats.flushes + f]

Job(kind, by, upto) == [kind |-> kind, by |-> by, upto |-> upto]

HeadIs(kind) == jobs # <<>> /\ Head(jobs).kind = kind

Discard(e) ==
    /\ discarded' = discarded \cup {e}
    /\ stats' = Counted(0, 1, 0)

-----------------------------------------------------------------------------
(* write()                                                                  *)

RejectInvalid ==
    /\ issued < MaxEvents
    /\ issued' = issued + 1
    /\ Discard(issued + 1)
    /\ UNCHANGED <<jobs, appending, disk, closed, cut>>

Enqueue_AtFront ==                                              \* mutant
    /\ issued < MaxEvents
    /\ ~appending
    /\ issued' = issued + 1
    /\ jobs' = <<Job("write", "writer", issued + 1)>> \o jobs
    /\ UNCHANGED <<appending, disk, discarded, stats, closed, cut>>

Enqueue ==
    /\ issued < MaxEvents
    /\ issued' = issued + 1
    /\ jobs' = Append(jobs, Job("write", "writer", issued + 1))
    /\ UNCHANGED <<appending, disk, discarded, stats, closed, cut>>

\* The operation's turn comes on a closed writer.
OperationRefused ==
    /\ HeadIs("write")
    /\ ~appending
    /\ closed
    /\ Discard(Head(jobs).upto)
    /\ jobs' = Tail(jobs)
    /\ UNCHANGED <<issued, appending, disk, closed, cut>>

OperationStarts_EvenIfClosed ==                                 \* mutant
    /\ HeadIs("write")
    /\ ~appending
    /\ appending' = TRUE
    /\ UNCHANGED <<issued, jobs, disk, discarded, stats, closed, cut>>

OperationStarts ==
    /\ HeadIs("write")
    /\ ~appending
    /\ ~closed
    /\ appending' = TRUE
    /\ UNCHANGED <<issued, jobs, disk, discarded, stats, closed, cut>>

AppendSucceeds_CountsTwice ==                                   \* mutant
    /\ appending
    /\ disk' = disk \cup {Head(jobs).upto}
    /\ stats' = Counted(2, 0, 0)
    /\ jobs' = Tail(jobs)
    /\ appending' = FALSE
    /\ UNCHANGED <<issued, discarded, closed, cut>>

AppendSucceeds ==
    /\ appending
    /\ disk' = disk \cup {Head(jobs).upto}
    /\ stats' = Counted(1, 0, 0)
    /\ jobs' = Tail(jobs)
    /\ appending' = FALSE
    /\ UNCHANGED <<issued, discarded, closed, cut>>

\* The chain is kept alive: the operation that failed is over, not the chain.
AppendFails_BreaksChain ==                                      \* mutant
    /\ appending
    /\ Discard(Head(jobs).upto)
    /\ jobs' = <<>>
    /\ appending' = FALSE
    /\ UNCHANGED <<issued, disk, closed, cut>>

AppendFails ==
    /\ appending
    /\ Discard(Head(jobs).upto)
    /\ jobs' = Tail(jobs)
    /\ appending' = FALSE
    /\ UNCHANGED <<issued, disk, closed, cut>>

-----------------------------------------------------------------------------
(* flush() and close(): await the tail, then act                            *)

Waiting(c) == \E i \in DOMAIN jobs : jobs[i].by = c

\* A job that overtakes the operations before it.
AwaitTail_Front(kind, c) ==                                     \* mutant
    /\ ~Waiting(c)
    /\ ~appending
    /\ jobs' = <<Job(kind, c, issued)>> \o jobs
    /\ UNCHANGED <<issued, appending, disk, discarded, stats, closed>>

AwaitTail(kind, c) ==
    /\ ~Waiting(c)
    /\ jobs' = Append(jobs, Job(kind, c, issued))
    /\ UNCHANGED <<issued, appending, disk, discarded, stats, closed>>

Flushing == {i \in DOMAIN jobs : jobs[i].kind = "flush"}

FlushCalled(c) ==
    /\ stats.flushes + Cardinality(Flushing) < MaxFlushes
    /\ AwaitTail("flush", c)
    /\ UNCHANGED cut

FlushResumes ==
    /\ HeadIs("flush")
    /\ stats' = Counted(0, 0, 1)
    /\ jobs' = Tail(jobs)
    /\ UNCHANGED <<issued, appending, disk, discarded, closed, cut>>

\* close() on a closed writer returns at once and changes nothing.
CloseCalled(c) ==
    /\ ~closed
    /\ AwaitTail("close", c)
    /\ cut' = IF cut = NoCut THEN issued ELSE cut

CloseResumes ==
    /\ HeadIs("close")
    /\ closed' = TRUE
    /\ jobs' = Tail(jobs)
    /\ UNCHANGED <<issued, appending, disk, discarded, stats, cut>>

-----------------------------------------------------------------------------
JobStep ==
    \/ OperationRefused
    \/ OperationStarts
    \/ AppendSucceeds
    \/ AppendFails
    \/ FlushResumes
    \/ CloseResumes

Next ==
    \/ RejectInvalid
    \/ Enqueue
    \/ JobStep
    \/ \E c \in Callers : FlushCalled(c) \/ CloseCalled(c)

Spec == Init /\ [][Next]_vars

\* While the process lives the head job runs on: reactions are never starved
\* and every appendFile returns.
FairSpec == Spec /\ WF_vars(JobStep)

-----------------------------------------------------------------------------
(* Properties                                                               *)

TypeOK ==
    /\ issued \in 0 .. MaxEvents
    /\ jobs \in Seq(Jobs)
    /\ appending \in BOOLEAN
    /\ disk \subseteq Ids
    /\ discarded \subseteq Ids
    /\ stats \in [written : Nat, dropped : Nat, flushes : Nat]
    /\ closed \in BOOLEAN
    /\ cut \in 0 .. NoCut

Queued == {job.upto : job \in {j \in Range(jobs) : j.kind = "write"}}

\* Every write() call's event is queued, on disk or discarded, in one place
\* only, and getStats() is exact after every step.
Ledger ==
    /\ Queued \cup disk \cup discarded = 1 .. issued
    /\ disk \cap discarded = {}
    /\ Queued \cap (disk \cup discarded) = {}
    /\ stats.written = Cardinality(disk)
    /\ stats.dropped = Cardinality(discarded)

\* close() cuts the stream of writes exactly where it was called: a closed
\* writer has settled every earlier write and never stores a later one, even
\* one issued while close() was still waiting.
CloseCuts ==
    closed => /\ \A e \in 1 .. cut : e \in disk \cup discarded
              /\ \A e \in disk : e <= cut

\* When a flush() or close() has its turn, every write before it has settled.
FlushBarrier ==
    (HeadIs("flush") \/ HeadIs("close")) =>
        \A e \in 1 .. Head(jobs).upto : e \in disk \cup discarded

\* Every written event settles, closed or not: it is stored or counted.
EventsSettle ==
    \A e \in Ids : (e \in Queued) ~> (e \in disk \cup discarded)

\* The writer implements the trace sink, and so keeps the rows of a file in
\* the order of the calls.
Sink == INSTANCE TraceSink WITH
            offered <- issued,
            queue <- Queued

ImplementsSink == Sink!SinkSpec

-----------------------------------------------------------------------------
(* The inductive invariant of FileWriterProofs                              *)

\* Every event is somewhere.
Accounted == Queued \cup disk \cup discarded = 1 .. issued

\* The jobs stand in the order of the calls; an append under way is the head's,
\* on an open writer.
JobOrder ==
    /\ \A i, j \in DOMAIN jobs : i < j =>
          /\ jobs[i].upto <= jobs[j].upto
          /\ jobs[j].kind = "write" => jobs[i].upto < jobs[j].upto
    /\ \A i \in DOMAIN jobs : jobs[i].upto <= issued
    /\ appending => HeadIs("write") /\ ~closed

\* From the first call of close() to its turn, its job stands in the queue;
\* nothing issued after it is stored.
CutHolds ==
    /\ cut # NoCut => cut <= issued /\ \A e \in disk : e <= cut
    /\ closed => cut # NoCut
    /\ cut # NoCut /\ ~closed =>
          \E i \in DOMAIN jobs : jobs[i].kind = "close" /\ jobs[i].upto = cut
    /\ \A i \in DOMAIN jobs : jobs[i].kind = "close" =>
          cut # NoCut /\ cut <= jobs[i].upto

IInv == TypeOK /\ Accounted /\ JobOrder /\ CutHolds /\ CloseCuts
=============================================================================
