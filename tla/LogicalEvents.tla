--------------------------- MODULE LogicalEvents ---------------------------
(***************************************************************************)
(* A trace file of inspectRun() and step() as checks and trees read it:    *)
(* one persisted event per row, and the projection that folds the start    *)
(* and the completion of a run or a step into one logical event.           *)
(*                                                                         *)
(* rows is a sequence of [event, of, ok, parent, at]: what the row says,   *)
(* of which run or step, and the millisecond it carries.  A file holds the *)
(* rows of one run.  Every step is a tool call; names are the calls        *)
(* themselves, and the step id of a completion is none of them.            *)
(***************************************************************************)
EXTENDS Integers, Sequences, FiniteSets

CONSTANTS Runs, None

\* traceEventToPersistedInspectEvent, with the id it mints from the row's
\* position.  A completion row says neither the step's type nor its name.
PersistedEvent(rows, i) ==
    LET row == rows[i]
        starts == row.event = "started" IN
    [id |-> <<row.event, row.of, i - 1>>,
     kind |-> IF row.of \in Runs THEN "RUN" ELSE IF starts THEN "TOOL" ELSE "LOGIC",
     name |-> IF starts THEN row.of ELSE None,
     status |-> IF starts THEN "running" ELSE IF row.ok THEN "ok" ELSE "error",
     parent |-> row.parent,
     startedAt |-> IF starts THEN row.at ELSE None,
     endedAt |-> IF starts THEN None ELSE row.at,
     timestamp |-> row.at,
     sources |-> <<i>>]

RowsOf(rows, event, x) == {i \in DOMAIN rows : rows[i].event = event /\ rows[i].of = x}

Earlier(i, S) == Cardinality({j \in S : j < i})

\* Event ids that differ in their position only are compared as strings: 10
\* comes before 3.  From the hundredth row on this is a strict order still,
\* but not that of the strings; what is said below needs no more of it.
Digits(n) == IF n < 10 THEN <<n, -1>> ELSE <<n \div 10, n % 10>>

IdLess(i, j) ==
    LET one == Digits(i - 1)
        other == Digits(j - 1) IN
    one[1] < other[1] \/ (one[1] = other[1] /\ one[2] < other[2])

\* The completion a start takes: the first by id that no earlier start took.
Match(rows, i) ==
    IF rows[i].event # "started" THEN {}
    ELSE LET completes == RowsOf(rows, "completed", rows[i].of) IN
    {c \in completes : Cardinality({d \in completes : IdLess(d, c)})
                          = Earlier(i, RowsOf(rows, "started", rows[i].of))}

Absorbed(rows) == UNION {Match(rows, i) : i \in DOMAIN rows}

PairStartComplete_CompletionWins(start, complete) ==            \* mutant
    [complete EXCEPT !.kind = start.kind, !.name = start.name,
                     !.sources = start.sources \o complete.sources]

PairStartComplete(start, complete) ==
    [start EXCEPT !.status = complete.status, !.timestamp = complete.timestamp,
                  !.endedAt = complete.endedAt,
                  !.sources = start.sources \o complete.sources]

\* The event of a row that no start absorbs.
LogicalEvent(rows, i, match) ==
    IF match = {} THEN PersistedEvent(rows, i)
    ELSE PairStartComplete(PersistedEvent(rows, i),
                           PersistedEvent(rows, CHOOSE c \in match : TRUE))

\* The row whose logical event the step's is, if there is one.
OwnerAmong(rows, x, starts) ==
    IF starts # {} THEN {i \in starts : \A j \in starts : j <= i}
    ELSE LET alone == RowsOf(rows, "completed", x) \ Absorbed(rows) IN
         {i \in alone : \A j \in alone : i <= j}

Owner_OfFinished(rows, x) ==                                    \* mutant
    OwnerAmong(rows, x, {i \in RowsOf(rows, "started", x) : Match(rows, i) # {}})

\* stepIdToLogicalId: the last start of the step, else its first completion.
Owner(rows, x) == OwnerAmong(rows, x, RowsOf(rows, "started", x))

\* A parent is the id of a step: it becomes that of the step's logical event,
\* or stays as it is when the file has no row of the step.
ParentOf(rows, i) ==
    LET owner == IF rows[i].parent = None THEN {} ELSE Owner(rows, rows[i].parent) IN
    IF owner = {} THEN rows[i].parent
    ELSE LET j == CHOOSE k \in owner : TRUE IN
         IF j = i THEN None ELSE PersistedEvent(rows, j).id

\* The rows that open an event, and the k-th of them.
Kept(rows) == DOMAIN rows \ Absorbed(rows)
Opening(kept, k) == CHOOSE i \in kept : Earlier(i, kept) = k - 1

\* projectLogicalEvents: in the order of the first row of each.
Logical(rows) ==
    LET kept == Kept(rows) IN
    [k \in 1 .. Cardinality(kept) |->
        LET i == Opening(kept, k) IN
        [LogicalEvent(rows, i, Match(rows, i)) EXCEPT !.parent = ParentOf(rows, i)]]

-----------------------------------------------------------------------------
(* The run as TreeBuilder builds it from the raw rows                       *)

\* computeRunStatus: the last of the run's terminal rows; in a file with no row
\* of the run itself, whatever its steps' rows say.
RunStatus(rows) ==
    LET all == {PersistedEvent(rows, i) : i \in DOMAIN rows}
        ofRun == {e \in all : e.kind = "RUN"}
        terminal == {e \in ofRun : e.status # "running"}
        After(e, f) == \/ f.timestamp < e.timestamp
                       \/ f.timestamp = e.timestamp /\ f.sources[1] <= e.sources[1]
        last == {e \in terminal : \A f \in terminal : After(e, f)} IN
    CASE last # {} -> (CHOOSE e \in last : TRUE).status
      [] ofRun # {} /\ last = {} -> "running"
      [] ofRun = {} /\ \E e \in all : e.status = "error" -> "error"
      [] OTHER -> IF \E e \in all : e.status = "running" THEN "running" ELSE "ok"
=============================================================================
