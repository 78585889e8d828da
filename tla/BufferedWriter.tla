--------------------------- MODULE BufferedWriter ---------------------------
(***************************************************************************)
(* bufferedFileWriter: a bounded in-memory queue, a flush timer, and drains *)
(* serialised on a promise chain.  One action is one uninterrupted run of  *)
(* the JavaScript thread: a handler up to its next await, or the           *)
(* continuation after one.  Any caller may call write, flush or close      *)
(* between two of them.                                                    *)
(*                                                                         *)
(* Events are numbered by write() call.  A file is the set of the rows it  *)
(* holds; RowsInCallOrder speaks of their order.  lastError and            *)
(* lastFlushAt are left out.  A failed append leaves no row of its group.  *)
(***************************************************************************)
EXTENDS TraceEvents, Sequences, FiniteSets, Functions

CONSTANTS
    Callers,        \* application tasks that flush and close the writer
    MaxFlushes,     \* bound: completed or running flush() calls
    MaxQueueSize,   \* options.maxQueueSize
    MaxBatchSize    \* options.maxBatchSize

Policies == {"drop-oldest", "drop-newest"}

ASSUME WriterAssumption ==
    /\ MaxFlushes \in Nat
    /\ MaxQueueSize \in Nat \ {0}     \* positiveInteger
    /\ MaxBatchSize \in Nat \ {0}
    /\ "timer" \notin Callers

VARIABLES
    overflow,    \* options.overflow, fixed when the writer is built
    issued,      \* write() calls so far: the last event id
    pending,     \* the in-memory queue
    timer,       \* a flush timer is armed
    chain,       \* drains not yet settled, oldest first; the head may be running
    running,     \* the head drain has taken a batch
    batch,       \* the batch the running drain is appending
    todo,        \* files of that batch not yet appended to
    file,        \* rows on disk, per file
    discarded,   \* events recordDropped, or refused by the file system
    stats,       \* writtenEvents, droppedEvents, flushCount
    closed,
    phase,       \* what each caller awaits
    mark         \* history: issued when the caller's running flush or close began

vars == <<overflow, issued, pending, timer, chain, running, batch, todo, file,
          discarded, stats, closed, phase, mark>>

diskVars == <<file, todo>>

Init ==
    /\ overflow \in Policies
    /\ issued = 0
    /\ pending = <<>>
    /\ timer = FALSE
    /\ chain = <<>>
    /\ running = FALSE
    /\ batch = <<>>
    /\ todo = {}
    /\ file = [f \in Files |-> {}]
    /\ discarded = {}
    /\ stats = [written |-> 0, dropped |-> 0, flushes |-> 0]
    /\ closed = FALSE
    /\ phase = [c \in Callers |-> "idle"]
    /\ mark = [c \in Callers |-> 0]

-----------------------------------------------------------------------------
(* The thread is between two tasks of the event loop only when no promise   *)
(* reaction is due: I/O completions and timers wait for that.               *)
MicrotasksDone ==
    /\ \A c \in Callers : phase[c] \notin {"flush-settled", "close-settled"}
    /\ chain # <<>> => running /\ todo # {}

\* stats after w more rows written, d more events dropped, f more flushes.
Counted(w, d, f) ==
    [written |-> stats.written + w,
     dropped |-> stats.dropped + d,
     flushes |-> stats.flushes + f]

-----------------------------------------------------------------------------
(* write()                                                                  *)

Full == Len(pending) >= MaxQueueSize

\* What overflow leaves of the queue: all but its head.
Kept_DropsTail == IF Full THEN SubSeq(pending, 1, Len(pending) - 1)   \* mutant
                  ELSE pending

Kept == IF Full THEN Tail(pending) ELSE pending

Evicted == Range(pending) \ Range(Kept)

\* The timer after scheduleFlush(): armed once, never for an empty queue or a
\* closed writer.
ScheduleFlush_OnlyIfArmed(queue) == timer                       \* mutant

ScheduleFlush(queue) == timer \/ (queue # <<>> /\ ~closed)

RejectWrite(valid) ==
    /\ issued < MaxEvents
    /\ closed \/ ~valid \/ (Full /\ overflow = "drop-newest")
    /\ issued' = issued + 1
    /\ discarded' = discarded \cup {issued + 1}
    /\ stats' = Counted(0, 1, 0)
    /\ UNCHANGED <<overflow, pending, timer, chain, running, batch, closed,
                   phase, mark, diskVars>>

\* Full here means drop-oldest: the queue's head makes room.
AcceptWrite ==
    /\ issued < MaxEvents
    /\ ~closed
    /\ Full => overflow = "drop-oldest"
    /\ issued' = issued + 1
    /\ pending' = Append(Kept, issued + 1)
    /\ discarded' = discarded \cup Evicted
    /\ stats' = Counted(0, Cardinality(Evicted), 0)
    /\ timer' = ScheduleFlush(pending')
    /\ UNCHANGED <<overflow, chain, running, batch, closed, phase, mark,
                   diskVars>>

-----------------------------------------------------------------------------
(* drain(), drainBatch(), appendEventBatch()                                *)

BatchLen == IF Len(pending) < MaxBatchSize THEN Len(pending) ELSE MaxBatchSize

TakeBatch_NewestFirst ==                                        \* mutant
    LET n == Len(pending) - BatchLen
    IN  /\ batch' = SubSeq(pending, n + 1, Len(pending))
        /\ pending' = SubSeq(pending, 1, n)
        /\ todo' = {FileOf[pending[i]] : i \in n + 1 .. Len(pending)}
        /\ running' = TRUE
        /\ UNCHANGED <<chain, phase>>

TakeBatch_SkipsOne ==                                           \* mutant
    LET n == BatchLen
    IN  /\ batch' = SubSeq(pending, 1, n)
        /\ pending' = SubSeq(pending, n + 2, Len(pending))
        /\ todo' = {FileOf[pending[i]] : i \in 1 .. n}
        /\ running' = TRUE
        /\ UNCHANGED <<chain, phase>>

\* pending.splice(0, maxBatchSize), grouped by file.
TakeBatch ==
    LET n == BatchLen
    IN  /\ batch' = SubSeq(pending, 1, n)
        /\ pending' = SubSeq(pending, n + 1, Len(pending))
        /\ todo' = {FileOf[pending[i]] : i \in 1 .. n}
        /\ running' = TRUE
        /\ UNCHANGED <<chain, phase>>

\* What becomes of a caller whose drain settles.
Settled_Never(p) == p                                           \* mutant

Settled(p) == IF p = "flushing" THEN "flush-settled" ELSE "close-settled"

\* The head drain's promise settles: whoever awaits it may resume, the next
\* drain of the chain may start.
SettleHead ==
    /\ chain' = Tail(chain)
    /\ running' = FALSE
    /\ batch' = <<>>
    /\ phase' = [c \in Callers |-> IF c = Head(chain).by THEN Settled(phase[c])
                                   ELSE phase[c]]
    /\ UNCHANGED <<pending, todo>>

\* The timer callback: drain(false).
TimerFires ==
    /\ timer
    /\ MicrotasksDone
    /\ timer' = FALSE
    /\ chain' = Append(chain, [all |-> FALSE, by |-> "timer"])
    /\ UNCHANGED <<overflow, issued, pending, running, batch, discarded, stats,
                   closed, phase, mark, diskVars>>

\* drainBatch up to its first await, or to its end when nothing is pending.
DrainStarts ==
    /\ chain # <<>>
    /\ ~running
    /\ timer' = FALSE
    /\ IF pending = <<>> THEN SettleHead ELSE TakeBatch
    /\ UNCHANGED <<overflow, issued, file, discarded, stats, closed, mark>>

\* One file's group of the batch is appended, or refused as a whole.
AppendGroup(f, ok) ==
    LET group == {e \in Range(batch) : FileOf[e] = f}
    IN  /\ running
        /\ f \in todo
        /\ MicrotasksDone
        /\ todo' = todo \ {f}
        /\ file' = IF ok THEN [file EXCEPT ![f] = @ \cup group] ELSE file
        /\ discarded' = IF ok THEN discarded ELSE discarded \cup group
        /\ UNCHANGED <<overflow, issued, pending, timer, chain, running, batch,
                       stats, closed, phase, mark>>

\* The continuation after appendEventBatch: account for the batch, then loop
\* or end, rearming the timer for what is left.
BatchDone ==
    LET refused == {i \in DOMAIN batch : batch[i] \in discarded}
    IN  /\ running
        /\ todo = {}
        /\ stats' = Counted(Len(batch) - Cardinality(refused),
                             Cardinality(refused), 0)
        /\ IF Head(chain).all /\ pending # <<>>
           THEN TakeBatch /\ UNCHANGED timer
           ELSE /\ SettleHead
                /\ timer' = ScheduleFlush(pending)
        /\ UNCHANGED <<overflow, issued, file, discarded, closed, mark>>

-----------------------------------------------------------------------------
(* flush() and close()                                                      *)

\* drain(true), awaited by caller c.
DrainFor_OneBatch(c) == [all |-> FALSE, by |-> c]               \* mutant

DrainFor(c) == [all |-> TRUE, by |-> c]

Await(c, waiting) ==
    /\ phase[c] = "idle"
    /\ phase' = [phase EXCEPT ![c] = waiting]
    /\ mark' = [mark EXCEPT ![c] = issued]
    /\ chain' = Append(chain, DrainFor(c))
    /\ UNCHANGED <<overflow, issued, pending, timer, running, batch, discarded,
                   stats, closed, diskVars>>

FlushesRunning == {c \in Callers : phase[c] \in {"flushing", "flush-settled"}}

FlushCalled(c) ==
    /\ stats.flushes + Cardinality(FlushesRunning) < MaxFlushes
    /\ Await(c, "flushing")

FlushResumes(c) ==
    /\ phase[c] = "flush-settled"
    /\ phase' = [phase EXCEPT ![c] = "idle"]
    /\ mark' = [mark EXCEPT ![c] = 0]
    /\ stats' = Counted(0, 0, 1)
    /\ UNCHANGED <<overflow, issued, pending, timer, chain, running, batch,
                   discarded, closed, diskVars>>

\* close() on a closed writer returns at once and changes nothing.
CloseCalled(c) ==
    /\ ~closed
    /\ Await(c, "closing")

CloseResumes(c) ==
    /\ phase[c] = "close-settled"
    /\ phase' = [phase EXCEPT ![c] = "idle"]
    /\ closed' = TRUE
    /\ timer' = FALSE
    /\ mark' = [mark EXCEPT ![c] = 0]
    /\ UNCHANGED <<overflow, issued, pending, chain, running, batch, discarded,
                   stats, diskVars>>

-----------------------------------------------------------------------------
Next ==
    \/ \E valid \in BOOLEAN : RejectWrite(valid)
    \/ AcceptWrite
    \/ TimerFires
    \/ DrainStarts
    \/ \E f \in Files, ok \in BOOLEAN : AppendGroup(f, ok)
    \/ BatchDone
    \/ \E c \in Callers : \/ FlushCalled(c)
                          \/ FlushResumes(c)
                          \/ CloseCalled(c)
                          \/ CloseResumes(c)

Spec == Init /\ [][Next]_vars

\* While the process lives, a due reaction runs, a started append returns,
\* and an armed timer fires.  Nothing makes a caller call.
FairSpec ==
    /\ Spec
    /\ WF_vars(DrainStarts)
    /\ WF_vars(\E f \in Files, ok \in BOOLEAN : AppendGroup(f, ok))
    /\ WF_vars(BatchDone)
    /\ WF_vars(TimerFires)
    /\ \A c \in Callers : WF_vars(FlushResumes(c)) /\ WF_vars(CloseResumes(c))

-----------------------------------------------------------------------------
(* Properties                                                               *)

Phases == {"idle", "flushing", "flush-settled", "closing", "close-settled"}
Drains == [all : BOOLEAN, by : Callers \cup {"timer"}]

\* Types, and the bounds the options promise: the queue never holds more than
\* maxQueueSize events, nor a batch more than maxBatchSize, so an abrupt exit
\* loses at most their sum.
TypeOK ==
    /\ overflow \in Policies
    /\ issued \in 0 .. MaxEvents
    /\ pending \in Seq(Ids) /\ Len(pending) <= MaxQueueSize
    /\ timer \in BOOLEAN
    /\ chain \in Seq(Drains)
    /\ running \in BOOLEAN
    /\ batch \in Seq(Ids) /\ Len(batch) <= MaxBatchSize
    /\ todo \subseteq Files
    /\ file \in [Files -> SUBSET Ids]
    /\ discarded \subseteq Ids
    /\ stats \in [written : Nat, dropped : Nat, flushes : Nat]
    /\ closed \in BOOLEAN
    /\ phase \in [Callers -> Phases]
    /\ mark \in [Callers -> 0 .. MaxEvents]

OnDisk == UNION {file[f] : f \in Files}
InFlight == {e \in Range(batch) : FileOf[e] \in todo}

\* Every write() call's event is in exactly one place: the queue, the batch
\* being appended, its file, or the discarded ones; and getStats() counts
\* exactly the rows on disk and the discarded events of every batch already
\* accounted for.  No interleaving of write, timer, flush and close loses an
\* event without a trace or counts one twice.
Ledger ==
    /\ Range(pending) \cup InFlight \cup OnDisk \cup discarded = 1 .. issued
    /\ OnDisk \cap discarded = {}
    /\ Range(pending) \cap (Range(batch) \cup OnDisk \cup discarded) = {}
    /\ InFlight \cap (OnDisk \cup discarded) = {}
    /\ stats.written = Cardinality(OnDisk \ Range(batch))
    /\ stats.dropped = Cardinality(discarded \ Range(batch))

\* While the writer is open, queued events always have someone coming for
\* them: an armed timer or a drain that has not settled.
NothingStranded == (pending # <<>> /\ ~closed) => (timer \/ chain # <<>>)

\* When the drain of a flush() or close() has settled, every event written
\* before the call is on disk or given up, however many writes, overflows and
\* timer drains came in between.
FlushBarrier ==
    \A c \in Callers : phase[c] \in {"flush-settled", "close-settled"} =>
        \A e \in Range(pending) \cup Range(batch) : e > mark[c]

\* A queued event is evicted only under drop-oldest, and is then older than
\* every event that stays.
OverflowPolicy ==
    [][\A e \in Range(pending) : e \in discarded' =>
          /\ overflow = "drop-oldest"
          /\ \A kept \in Range(pending') : e < kept]_vars

\* An event accepted by an open writer does not stay in the queue for ever,
\* unless the writer is closed.
AcceptedSettles ==
    \A e \in Ids :
        (e \in Range(pending)) ~> (closed \/ e \notin Range(pending))

\* Every flush() and close() call returns.
CallsReturn == \A c \in Callers : (phase[c] # "idle") ~> (phase[c] = "idle")

\* The writer implements the trace sink: its queue is what is pending or in
\* flight.
Sink == INSTANCE TraceSink WITH
            offered <- issued,
            queue <- Range(pending) \cup InFlight,
            disk <- OnDisk,
            discarded <- discarded

ImplementsSink == Sink!SinkSpec

-----------------------------------------------------------------------------
(* The inductive invariant of BufferedWriterProofs                          *)

Increasing(s) == \A i, j \in DOMAIN s : i < j => s[i] < s[j]

\* A batch is held only by the running drain, which heads the chain; a drain
\* someone awaits empties the queue.
Flow ==
    /\ running => chain # <<>>
    /\ ~running => batch = <<>> /\ todo = {}
    /\ \A i \in DOMAIN chain : chain[i].by \in Callers => chain[i].all

\* Queue and batch keep the order of the calls, the batch ahead of the queue.
CallOrder ==
    /\ Increasing(pending)
    /\ \A x \in Range(batch), y \in Range(pending) : x < y
    /\ \A e \in Range(pending) \cup Range(batch) : e <= issued
    /\ \A c \in Callers : mark[c] <= issued

IInv == TypeOK /\ Flow /\ CallOrder /\ NothingStranded /\ FlushBarrier
=============================================================================
