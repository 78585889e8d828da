---------------------------- MODULE TraceReading ----------------------------
(***************************************************************************)
(* Manual tracing with the times its rows carry, and what the checks read *)
(* back from the files at any moment: while calls are running, with rows  *)
(* lost or split over two directories, and after the rows of a file have  *)
(* been delivered twice.  Bare calls leave no rows and are left out.      *)
(***************************************************************************)
EXTENDS ManualTracing

CONSTANTS
    First,       \* [Calls -> SUBSET Calls]: the calls awaited before this one is made
    MaxClock,    \* bound: milliseconds that pass
    Orders       \* orders of the ids of events, [Calls \cup {None} -> Nat] each

\* No call is no time, and no step has the id of an event that a reader mints for a row:
\* the prefixes differ.
ASSUME ReadingAssumption ==
    /\ First \in [Calls -> SUBSET Calls] /\ MaxClock \in Nat
    /\ None \notin Nat
    /\ (Steps \cup {None}) \cap ({"started", "completed"} \X Calls \X Nat) = {}

VARIABLES
    clock,       \* Date.now()
    calledAt,    \* startTime of each call
    settledAt,   \* endTime of each call
    returned,    \* the calls that had returned to their caller when it was made
    open         \* the calls whose fn was running, or about to, when it was made

times == <<clock, calledAt, settledAt, returned, open>>

INSTANCE RecoveryRules

TInit ==
    /\ Init
    /\ clock = 0
    /\ calledAt = [x \in Calls |-> 0]
    /\ settledAt = [x \in Calls |-> 0]
    /\ returned = [x \in Calls |-> {}]
    /\ open = [x \in Calls |-> {}]

\* const startTime = Date.now(), before any row is written.
Called(x) ==
    /\ \A y \in First[x] : pc[y] = "settled"
    /\ RunCalled(x) \/ StepCalled(x)
    /\ calledAt' = [calledAt EXCEPT ![x] = clock]
    /\ returned' = [returned EXCEPT ![x] = {y \in Calls : pc[y] = "settled"}]
    /\ open' = [open EXCEPT ![x] =
                  {y \in Calls : pc[y] \in {"creating", "starting", "inside"}}]
    /\ UNCHANGED <<clock, settledAt>>

\* const endTime = Date.now(), when await fn() resumes.
Settles(x, ok) ==
    /\ FnSettles(x, ok)
    /\ settledAt' = [settledAt EXCEPT ![x] = clock]
    /\ UNCHANGED <<clock, calledAt, returned, open>>

Tick ==
    /\ clock < MaxClock
    /\ clock' = clock + 1
    /\ UNCHANGED <<vars, calledAt, settledAt, returned, open>>

TNext ==
    \/ \E x \in Calls :
          \/ Called(x)
          \/ \E ok \in BOOLEAN : Settles(x, ok)
          \/ \E d \in Outcomes :
                (FileInitialised(x, d) \/ RowWritten(x, d)) /\ UNCHANGED times
    \/ Tick

TSpec == TInit /\ [][TNext]_<<vars, times>>

\* The rows of a file with the times they carry.
TimedRow(row) ==
    [event |-> row.event, of |-> row.of, ok |-> row.ok, parent |-> row.parent,
     at |-> IF row.event = "started" THEN calledAt[row.of] ELSE settledAt[row.of]]

Read(run, dir) == [i \in DOMAIN file[run][dir] |-> TimedRow(file[run][dir][i])]

-----------------------------------------------------------------------------
(* Properties                                                               *)

InFile(run, dir, event) ==
    LET rows == file[run][dir] IN
    {rows[i].of : i \in {j \in DOMAIN rows : rows[j].event = event}}

Twice(rows) == rows \o rows

EventsOf(events, x) == {k \in DOMAIN events : events[k].name = x}

\* The event says of the call what the rows in the file do.
Whole(run, dir, event, x) ==
    LET done == x \in InFile(run, dir, "completed") IN
    /\ event.startedAt = calledAt[x]
    /\ event.status = IF ~done THEN "running" ELSE IF x \in failed THEN "error" ELSE "ok"
    /\ event.endedAt = IF done THEN settledAt[x] ELSE None

\* It is under an event of the step around the call.
Under(run, dir, events, event, x) ==
    LET parent == store[Outer[x]].step IN
    IF x \in Runs \/ parent = None THEN event.parent = None
    ELSE parent \in InFile(run, dir, "started") =>
            \E k \in EventsOf(events, parent) : event.parent = events[k].id

Right(run, dir, events, copies) ==
    LET started == InFile(run, dir, "started") IN
    /\ Len(events) = copies * Cardinality(started \cup InFile(run, dir, "completed"))
    /\ \A x \in started :
          /\ Cardinality(EventsOf(events, x)) = copies
          /\ \A k \in EventsOf(events, x) :
                Whole(run, dir, events[k], x) /\ Under(run, dir, events, events[k], x)

\* Whenever a file is read it gives one logical event for each call whose start
\* is in it, finished with the call's outcome and times exactly when its
\* completion is, under the event of the step around it; the file of a settled
\* run delivered twice gives each twice, none of them unfinished for it.
ReadBack ==
    \A run \in Traced, dir \in Dirs :
        LET rows == Read(run, dir) IN
        /\ Right(run, dir, Logical(rows), 1)
        /\ pc[run] = "settled" => Right(run, dir, Logical(Twice(rows)), 2)

\* A reader that read a file when it had one row less saw the same events: none
\* has vanished or changed its place, its id or its start since; a finished one
\* changes no more; and a parent that was found stays.
ReadsGrow ==
    \A run \in Traced, dir \in Dirs : file[run][dir] # <<>> =>
        LET rows == Read(run, dir)
            old == Logical(SubSeq(rows, 1, Len(rows) - 1))
            new == Logical(rows) IN
        /\ Len(old) <= Len(new)
        /\ \A k \in DOMAIN old :
              /\ new[k].id = old[k].id
              /\ new[k].startedAt = old[k].startedAt
              /\ old[k].status # "running" => new[k].status = old[k].status
              /\ old[k].parent \notin Steps => new[k].parent = old[k].parent

Modes == {"first-occurrence", "happens-before", "all-occurrences"}

\* The order rule against what happened, for any naming of the steps.  Calls
\* made after earlier ones returned are accepted in every mode, however many
\* happened in one millisecond.  What all-occurrences accepts did end before those
\* of the others were called that the rule looks at, unless it happened in the
\* same millisecond: once one of them has finished it leaves out those that run
\* (checks/index.ts:2309), where docs/TRACE-CONTRACTS.md:45 promises all.  As many calls
\* as are said to have been open at once were.  And no call is found in its own
\* call tree twice, or, unless a completion is there without its start, before
\* the step around it.
CausalOrder ==
    \A run \in Traced, dir \in Dirs :
        LET events == Logical(Read(run, dir))
            started == InFile(run, dir, "started")
            completed == InFile(run, dir, "completed") IN
        /\ \A before, after \in (SUBSET (Steps \cap started)) \ {{}} :
              before \cap after = {} =>
              LET seen == IF after \cap completed = {} THEN after
                          ELSE after \cap completed IN
              /\ (/\ before \subseteq completed
                  /\ \A y \in after : before \subseteq returned[y]) =>
                    \A mode \in Modes : OrderRule(events, mode, before, after) = "pass"
              /\ OrderRule(events, "all-occurrences", before, after) = "pass" =>
                    \A x \in before, y \in seen :
                        x \notin open[y] \/ settledAt[x] = calledAt[y]
        /\ CycleRule(events) = "pass"
        /\ completed \subseteq started => RelationshipRule(events) = "pass"
        /\ \E y \in Calls :
              Width(events) <= Cardinality((open[y] \cup {y}) \cap started)
           \/ Width(events) = 0

\* A file in which the run's start was written passes the run checks only when
\* the run has settled without an error, and every call whose start is in the
\* file has settled and has the step around it in the file.
PassMeansSettled ==
    \A run \in Traced, dir \in Dirs :
        LET status == RunStatus(Read(run, dir))
            events == Logical(Read(run, dir))
            verdict == TraceChecks({RunStatusRule(status, events), OrphanRule(events),
                                    RequireCompletedRule(status, events)}) IN
        (verdict = "pass" /\ run \in InFile(run, dir, "started")) =>
              /\ run \notin failed
              /\ \A x \in InFile(run, dir, "started") :
                    /\ pc[x] = "settled"
                    /\ x \in Steps => store[Outer[x]].step \in
                          {None} \cup InFile(run, dir, "completed")

-----------------------------------------------------------------------------
(* Retries against what happened: every step is an attempt of one operation *)

\* What a contract knows of the attempts: I carry an id, N their number in the
\* order of the file, none idempotency evidence.
Meta(number, I, N) ==
    [attempts |-> Steps, identified |-> I, numbered |-> N, number |-> number,
     evidence |-> {}]

\* A retry made after an attempt had returned ok is reported without evidence,
\* a failure followed by a success is seen, and so is a failure that was called
\* in an earlier millisecond than its fallback.
RetriesSeen(events, made, done, number) ==
    /\ TerminalResultRule(events, Meta(number, {}, {})) = Reported(made # {} /\ done = {})
    /\ (\E x \in done \ failed, y \in done : x \in returned[y]) =>
          NonIdempotentRule(events, Meta(number, {}, {})) = "fail"
    /\ (\E x, y \in done : x \in returned[y]) =>
          \A N \in {{}, made} : EvidenceRule(events, Meta(number, made \ N, N)) = "fail"
    /\ (\E x \in done \cap failed, y \in done \ failed : x \in returned[y]) =>
          RecoveredVisibleRule(events, Meta(number, {}, {})) = "pass"
    /\ \A x \in done \cap failed, y \in made :
          (x \in returned[y] /\ calledAt[x] < calledAt[y]) =>
             FallbackRule(events, [Meta(number, {}, {}) EXCEPT !.attempts = made \ {y}], {y})
                = "pass"

\* The recovery oracle.  A terminal success is an attempt that returned ok with
\* no attempt made after it; attempts made one after the other get the verdict
\* of the last, none is of unknown identity, and a failure is seen before the
\* retry it preceded by a millisecond.  What a write tool is not blamed for
\* has completed.
RecoveriesSeen(events, made, done, number) ==
    LET OneByOne == \A x, y \in made : x = y \/ x \in returned[y] \/ y \in returned[x]
        Apart == \A x, y \in made : x \in returned[y] => calledAt[x] < calledAt[y]
        Last(x) == \A y \in made : x \notin returned[y]
        found == OperationFindings(events, Meta(number, {}, {}), [max |-> 1, write |-> TRUE]) IN
    /\ "terminal-success" \notin found => \E x \in done \ failed : Last(x)
    /\ "write-completion-unevaluable" \notin found => made = done
    /\ ("max-attempts" \in found) = (Cardinality(made) > 1)
    /\ "duplicate-attempt-id" \notin found
    /\ OneByOne =>
          /\ (\E x \in done \ failed : Last(x)) => "terminal-success" \notin found
          /\ made = done => "attempt-identity" \notin found
          /\ (Apart /\ \A x, y \in made : x \in returned[y] => x \in done \cap failed) =>
                found \cap {"failure-before-retry", "recovered-failure-visible"} = {}

\* The roles of failures, however ids fall within a millisecond.  A recovered one
\* has a success of an attempt that was not over before it, a terminal one a run
\* that failed without any; a success under the same step, called after it and
\* over in a later millisecond, recovers it, unless it is under none and there
\* are successes under several; and it keeps its role in a file delivered twice.
RolesTrue(events, again, made, done, number, run) ==
    \A k \in DOMAIN events : events[k].name \in done \cap failed =>
    \A N \in {made, {}}, order \in Orders :
        LET meta == Meta(number, {}, N)
            Rank(logical) == [j \in DOMAIN logical |-> order[logical[j].name]]
            x == events[k].name
            role == Role(events, meta, Rank(events), k) IN
        /\ role = "recovered" =>
              \E y \in done \ failed : y \notin returned[x] /\ settledAt[x] <= settledAt[y]
        /\ role = "terminal" => pc[run] = "settled" /\ run \in failed /\ done \subseteq failed
        /\ (N = made /\ \E y \in done \ failed :
              /\ x \in returned[y] /\ store[Outer[x]] = store[Outer[y]]
              /\ settledAt[x] < settledAt[y]
              /\ \/ store[Outer[x]].step # None
                 \/ Cardinality({store[Outer[z]].step : z \in done \ failed} \ {None}) <= 1)
              => role = "recovered"
        /\ pc[run] = "settled" =>
              \A j \in EventsOf(again, x) : Role(again, meta, Rank(again), j) = role

\* The attempts counted are those started, whichever of them carry an id or a
\* number, and also when the file of a settled run is delivered twice; and what
\* the retry rules, the recovery oracle and the roles of failures say of them is
\* what happened.
RetriesJudged ==
    \A run \in Traced, dir \in Dirs :
        LET rows == Read(run, dir)
            events == Logical(rows)
            again == Logical(Twice(rows))
            made == Steps \cap InFile(run, dir, "started")
            done == made \cap InFile(run, dir, "completed")
            place == [x \in made |-> CHOOSE k \in DOMAIN events : events[k].name = x]
            number == [x \in made |-> 1 + Cardinality({y \in made : place[y] < place[x]})] IN
        /\ pc[run] = "settled" =>
              /\ \A N \in SUBSET made :
                    AttemptCount(again, Meta(number, {}, N)) = Cardinality(made)
              /\ \A x \in made :
                    AttemptCount(again, Meta(number, {x}, {})) = Cardinality(made)
              /\ \A I \in {{}, made} :
                    MaxAttemptsRule(again, Meta(number, I, made), 1)
                        = Reported(Cardinality(made) > 1)
        /\ AttemptCount(events, Meta(number, {}, {})) = Cardinality(made)
        /\ RetriesSeen(events, made, done, number)
        /\ RecoveriesSeen(events, made, done, number)
        /\ RolesTrue(events, again, made, done, number, run)

-----------------------------------------------------------------------------
(* The times in the inductive invariant of ManualTracingProofs              *)

Over(x) == pc[x] \in {"completing", "settled"}

TimesOK ==
    /\ clock \in Nat /\ calledAt \in [Calls -> Nat] /\ settledAt \in [Calls -> Nat]
    /\ returned \in [Calls -> SUBSET Calls] /\ open \in [Calls -> SUBSET Calls]
    /\ \A x \in Calls :
          /\ calledAt[x] <= clock /\ settledAt[x] <= clock
          /\ Over(x) => calledAt[x] <= settledAt[x]
          /\ pc[x] = "new" => returned[x] = {} /\ open[x] = {}

\* A call made after others returned, or while their functions run, is not earlier.
Later ==
    \A x \in Calls :
        /\ \A y \in returned[x] : pc[y] = "settled" /\ settledAt[y] <= calledAt[x]
        /\ \A y \in open[x] :
              /\ pc[y] # "new" /\ y # x /\ calledAt[y] <= calledAt[x]
              /\ Over(y) => calledAt[x] <= settledAt[y]
        /\ pc[x] # "new" /\ Context(x).step # None =>
              calledAt[Context(x).step] <= calledAt[x]

\* Of two calls that have been made, one found the other open or over.
Compared ==
    \A x, y \in Calls : (x # y /\ pc[x] # "new" /\ pc[y] # "new") =>
        \/ x \in open[y] \/ y \in open[x]
        \/ Over(x) /\ settledAt[x] <= calledAt[y]
        \/ Over(y) /\ settledAt[y] <= calledAt[x]

\* Calls that found each other open were made one after the other.
NoRound ==
    \A x, y, z \in Calls : (x \in open[y] /\ y \in open[z]) => x # z /\ z \notin open[x]

\* What had returned left its rows before.
RowsApart ==
    \A run \in Traced, dir \in Dirs : \A i, j \in DOMAIN file[run][dir] :
        file[run][dir][i].of \in returned[file[run][dir][j].of] => i < j

TIInv == IInv /\ TimesOK /\ Later /\ Compared /\ NoRound /\ RowsApart
=============================================================================
