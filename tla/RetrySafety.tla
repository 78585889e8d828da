---------------------------- MODULE RetrySafety ----------------------------
(***************************************************************************)
(* The retry rules of a contract on a file's logical events, for one       *)
(* operation of one tool: meta says which steps carry its operationId      *)
(* (attempts), and which of those an attemptId of their own (identified),  *)
(* an attemptNumber (numbered, number), idempotency evidence (evidence).   *)
(*                                                                         *)
(* Left out: retryOf, direct against nested metadata, several operations.  *)
(***************************************************************************)
EXTENDS TraceRules

Members(events, meta) == Named(events, meta.attempts)

Fingerprint_WithPosition(event) ==                              \* mutant
    <<event.id, event.status, event.parent, event.startedAt>>

\* redeliveryFingerprint: the id without the position it was minted from.
Fingerprint(event) ==
    <<event.id[1], event.id[2], event.status, event.parent, event.startedAt>>

Fingerprints(events, K) == {Fingerprint(events[k]) : k \in K}

\* countOperationAttempts: the ids, or without any the numbers, and what
\* carries none.
AttemptCount(events, meta) ==
    LET members == Members(events, meta)
        identified == {k \in members : events[k].name \in meta.identified}
        numbered == {k \in members : events[k].name \in meta.numbered}
        ids == {events[k].name : k \in identified}
        numbers == {meta.number[events[k].name] : k \in numbered} IN
    IF ids # {}
      THEN Cardinality(ids) + Cardinality(Fingerprints(events, members \ identified))
      ELSE Cardinality(numbers) + Cardinality(Fingerprints(events, members \ numbered))

\* hasConflictingAttemptIdReuse
IdReused(events, meta) ==
    LET identified == {k \in Members(events, meta) : events[k].name \in meta.identified} IN
    \E j, k \in identified : /\ events[j].name = events[k].name
                             /\ Fingerprint(events[j]) # Fingerprint(events[k])

PartlyIdentified(events, meta) ==
    LET names == {events[k].name : k \in Members(events, meta)} IN
    names \cap meta.identified # {} /\ names \ meta.identified # {}

\* retry.maxAttempts
MaxAttemptsRule(events, meta, max) ==
    Reported(\/ IdReused(events, meta) \/ PartlyIdentified(events, meta)
             \/ AttemptCount(events, meta) > max)

\* retry.requireTerminalResult
TerminalResultRule(events, meta) ==
    LET members == Members(events, meta) IN
    Reported(members # {} /\ members \subseteq Running(events))

\* retry.fallbackOnlyAfterFailure, for steps that are fallbacks of the operation.
FallbackRule(events, meta, fallbacks) ==
    Reported(\E f \in Named(events, fallbacks) :
                ~\E k \in Members(events, meta) :
                    /\ events[k].status = "error"
                    /\ StartMs(events[k]) < StartMs(events[f]))

\* sortByTime is stable: within a millisecond the logical events keep their order.
Before(events, j, k) ==
    \/ StartMs(events[j]) < StartMs(events[k])
    \/ StartMs(events[j]) = StartMs(events[k]) /\ j < k

Done(events, meta) == Members(events, meta) \cap Finished(events)

\* classifyRetryAttempt among the attempts of a set.
Classify(events, meta, among, k) ==
    LET name == events[k].name
        prior == {j \in among : Before(events, j, k)} IN
    IF name \in meta.numbered THEN IF meta.number[name] > 1 THEN "retry" ELSE "first"
    ELSE IF prior = {} THEN "first"
    ELSE IF \/ prior \cap Finished(events) # {}
            \/ /\ name \in meta.identified
               /\ \E j \in prior : events[j].name \in meta.identified \ {name}
      THEN "retry"
    ELSE "unknown"

\* retry.requireIdempotencyEvidenceForRetry
EvidenceRule(events, meta) ==
    LET done == Done(events, meta) IN
    Reported(\E k \in done : /\ events[k].name \notin meta.evidence
                             /\ Classify(events, meta, done, k) = "retry")

\* retry.nonIdempotentTools
NonIdempotentRule(events, meta) ==
    LET plain == {k \in Done(events, meta) : events[k].name \notin meta.evidence} IN
    Reported(\E j, k \in plain : events[j].status = "ok" /\ Before(events, j, k))

\* retry.requireRecoveredFailureVisible
RecoveredVisibleRule(events, meta) ==
    LET done == Done(events, meta)
        ok == {k \in done : events[k].status = "ok"} IN
    Reported(/\ Cardinality(done) > 1 /\ ok # {}
             /\ ~\E k \in ok, j \in done \ ok : Before(events, j, k))
=============================================================================
