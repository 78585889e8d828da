------------------------------ MODULE TraceSink ------------------------------
(***************************************************************************)
(* What a local trace writer promises its callers, with no promise chain,  *)
(* no timer and no batch: an offered event is kept in a queue, reaches its *)
(* JSONL file, or is given up and counted.  Events are numbered in the     *)
(* order of the write() calls.                                             *)
(***************************************************************************)
EXTENDS TraceEvents

VARIABLES
    offered,     \* number of write() calls so far
    queue,       \* events held in memory, neither on disk nor given up
    disk,        \* events whose row is in its file
    discarded    \* events given up: rejected, evicted, or failed to append

sinkVars == <<offered, queue, disk, discarded>>

SinkInit ==
    /\ offered = 0
    /\ queue = {}
    /\ disk = {}
    /\ discarded = {}

\* A write() call: the event joins the queue; at most one event, the new one
\* or one already queued, is given up for it.
Offer(gone) ==
    /\ offered < MaxEvents
    /\ gone \subseteq queue \cup {offered + 1}
    /\ \A x, y \in gone : x = y
    /\ offered' = offered + 1
    /\ queue' = (queue \cup {offered + 1}) \ gone
    /\ discarded' = discarded \cup gone
    /\ UNCHANGED disk

\* No other queued event of the same file is older than one of these.
Oldest(rows) ==
    \A x \in rows, y \in queue \ rows : FileOf[x] = FileOf[y] => x < y

\* Queued rows reach their file, oldest first.
Land(rows) ==
    /\ rows \subseteq queue
    /\ Oldest(rows)
    /\ queue' = queue \ rows
    /\ disk' = disk \cup rows
    /\ UNCHANGED <<offered, discarded>>

\* The file system refuses queued rows, oldest first: they are given up.
GiveUp(rows) ==
    /\ rows \subseteq queue
    /\ Oldest(rows)
    /\ queue' = queue \ rows
    /\ discarded' = discarded \cup rows
    /\ UNCHANGED <<offered, disk>>

SinkNext ==
    \/ \E gone \in SUBSET (queue \cup {offered + 1}) : Offer(gone)
    \/ \E rows \in SUBSET queue : Land(rows) \/ GiveUp(rows)

SinkSpec == SinkInit /\ [][SinkNext]_sinkVars

-----------------------------------------------------------------------------
(* Within a file, rows are appended in the order of the write() calls: no   *)
(* step adds a row older than one already there.                            *)
RowsInCallOrder ==
    [][\A new \in disk' \ disk, old \in disk :
          FileOf[new] = FileOf[old] => old < new]_sinkVars

\* What makes it so: the rows on disk precede the queued ones.
SinkIInv ==
    /\ offered \in Nat
    /\ queue \subseteq 1 .. offered
    /\ disk \subseteq 1 .. offered
    /\ \A old \in disk, new \in queue : FileOf[new] = FileOf[old] => old < new
=============================================================================
