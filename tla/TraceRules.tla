----------------------------- MODULE TraceRules -----------------------------
(***************************************************************************)
(* The deterministic checks on a file's logical events: run status,        *)
(* completion, orphans, parallel width and step ordering.  A rule is what  *)
(* it reports: "fail", "warning" or "pass".                                *)
(*                                                                         *)
(* Left out: the texts and evidence of findings, rules about tokens,       *)
(* durations, models, arguments and baselines, selection of rules.         *)
(***************************************************************************)
EXTENDS LogicalEvents, FiniteSetsExt

Running_OfRun(events) ==                                        \* mutant
    {k \in DOMAIN events : events[k].status = "running" /\ events[k].kind = "RUN"}

Running(events) == {k \in DOMAIN events : events[k].status = "running"}

Reported(found) == IF found THEN "fail" ELSE "pass"

\* runTraceChecks on the reports of its rules.
TraceChecks(reports) ==
    CASE reports = {} -> "error"
      [] "fail" \in reports -> "fail"
      [] OTHER -> "pass"

\* createRunStatusRule with its defaults: an ok run without running events.
RunStatusRule(status, events) ==
    Reported(status # "ok" \/ Running(events) # {})

\* createRequireCompletedRule
RequireCompletedRule(status, events) ==
    Reported(status = "running" \/ Running(events) # {})

\* createStructureOrphanRule: the parent of every event is an event of the run.
OrphanRule(events) ==
    LET ids == {events[k].id : k \in DOMAIN events} IN
    Reported(\E k \in DOMAIN events : events[k].parent \notin ids \cup {None})

\* createStructureCycleRule: parents lead from some event back to it.
CycleRule(events) ==
    Reported(\E S \in SUBSET DOMAIN events : S # {} /\
                \A k \in S : events[k].parent \in {events[j].id : j \in S})

-----------------------------------------------------------------------------
(* structure.parallelWidth                                                  *)

Lasting(events) ==
    {k \in DOMAIN events :
        /\ events[k].startedAt # None /\ events[k].endedAt # None
        /\ events[k].endedAt > events[k].startedAt}

\* The sweep over starts and ends: at the same millisecond the ends go first.
Width(events) ==
    LET Active(t) == {k \in Lasting(events) : events[k].startedAt <= t
                                                /\ t < events[k].endedAt} IN
    Max({0} \cup {Cardinality(Active(events[k].startedAt)) : k \in Lasting(events)})

-----------------------------------------------------------------------------
(* step.order, tool.order: the names of the endpoints are sets of calls     *)

Finished(events) == DOMAIN events \ Running(events)
Named(events, names) ==
    {k \in DOMAIN events : events[k].kind = "TOOL" /\ events[k].name \in names}

\* eventStartMs and eventEndMs; the events compared have both or are running.
StartMs(event) == IF event.startedAt # None THEN event.startedAt ELSE event.timestamp
EndMs(event) == event.endedAt

\* createStructureRelationshipRule with requireParentBeforeChild.
RelationshipRule(events) ==
    Reported(\E j, k \in DOMAIN events :
                /\ events[k].parent = events[j].id
                /\ j = k \/ StartMs(events[j]) > StartMs(events[k]))

FirstRow(event) == event.sources[1]
LastRow(event) == Max({event.sources[j] : j \in DOMAIN event.sources})

TieInOrder_Ignored(events, B, A) == FALSE                       \* mutant

\* recordedTieOrder: within one millisecond the rows are in the order of what
\* happened.
TieInOrder(events, B, A) ==
    \A b \in B, a \in A : LastRow(events[b]) < FirstRow(events[a])

\* B ends before A starts: by time, and within the millisecond by row.
Precedes(events, B, A) ==
    LET end == Max({EndMs(events[b]) : b \in B})
        start == Min({StartMs(events[a]) : a \in A}) IN
    \/ end < start
    \/ /\ end = start
       /\ TieInOrder(events, {b \in B : EndMs(events[b]) = end},
                             {a \in A : StartMs(events[a]) = start})

\* createStepOrderingRule without requireEndpoints, for two different names.
OrderRule(events, mode, before, after) ==
    LET B == Named(events, before)
        named == Named(events, after)
        running == Running(events)
        finishedB == B \ running
        finishedA == named \ running
        A == IF finishedA # {} THEN finishedA ELSE named
        \* the running ones are appended to the finished ones
        firstB == Min(finishedB)
        firstA == Min(A) IN
    IF B # finishedB /\ A # {} THEN "fail"
    ELSE IF finishedB = {} \/ A = {} THEN "pass"
    ELSE CASE mode = "all-occurrences" -> Reported(~Precedes(events, finishedB, A))
           [] mode = "happens-before" -> Reported(~Precedes(events, {firstB}, {firstA}))
           [] mode = "first-occurrence" ->
                IF finishedA # {} /\ firstA < firstB THEN "fail"
                ELSE IF EndMs(events[firstB]) > StartMs(events[firstA]) THEN "warning"
                ELSE "pass"
=============================================================================
