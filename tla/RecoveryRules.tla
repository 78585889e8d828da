--------------------------- MODULE RecoveryRules ---------------------------
(***************************************************************************)
(* The recovery oracle of one tool on a file's logical events, and the     *)
(* roles its failed attempts are given.  op has the options of the oracle: *)
(* max, and write for a tool with side effects; what a caller does not     *)
(* require it does not look for among the findings.                        *)
(*                                                                         *)
(* Left out: error codes, arguments, model calls that consume a result,    *)
(* links by call ids, retries in other runs.                               *)
(***************************************************************************)
EXTENDS RetrySafety

Latest_AnyFinished(events, K) ==                                \* mutant
    CHOOSE k \in K : k \in Finished(events) \/ K \cap Finished(events) = {}

\* latestAttempt: the last to start.
Latest(events, K) == CHOOSE k \in K : \A j \in K \ {k} : Before(events, j, k)

Finding(name, found) == IF found THEN {name} ELSE {}

\* evaluateRecoveryOperations: the names of its findings.
OperationFindings(events, meta, op) ==
    LET members == Members(events, meta)
        latestOk == members # {} /\ events[Latest(events, members)].status = "ok"
        failures == {k \in members : events[k].status = "error"}
        retries == {k \in members : Classify(events, meta, members, k) = "retry"} IN
    Finding("terminal-success", ~latestOk)
    \cup Finding("duplicate-attempt-id", IdReused(events, meta))
    \cup Finding("max-attempts", AttemptCount(events, meta) > op.max)
    \cup Finding("write-completion-unevaluable",
                 op.write /\ members \cap Running(events) # {})
    \cup Finding("attempt-identity",
                 \E k \in members : Classify(events, meta, members, k) = "unknown")
    \cup Finding("failure-before-retry",
                 \E k \in retries : ~\E j \in failures :
                    Before(events, j, k) /\ StartMs(events[j]) < StartMs(events[k]))
    \cup Finding("recovered-failure-visible",
                 /\ latestOk /\ Cardinality(members) > 1
                 /\ ~\E j \in failures, k \in members :
                        events[k].status = "ok" /\ Before(events, j, k))

-----------------------------------------------------------------------------
(* deriveFailureFacts                                                       *)

\* An attempt's number, or that of the first event of the run that has one.
NumberOf(events, meta, k) ==
    LET numbered == Named(events, meta.numbered) IN
    IF k \in numbered THEN meta.number[events[k].name]
    ELSE IF numbered = {} THEN None
    ELSE meta.number[events[Min(numbered)].name]

\* compareEventOrder: by the time of the last row; ids decide within the
\* millisecond, in an order rank that has to do with nothing.
Follows(events, rank, j, k) ==
    \/ events[j].timestamp < events[k].timestamp
    \/ events[j].timestamp = events[k].timestamp /\ rank[j] < rank[k]

\* collectCandidates: later attempts by number, not under another parent.
Candidates(events, meta, rank, failure) ==
    LET own == NumberOf(events, meta, failure) IN
    {k \in Done(events, meta) \ {failure} :
        LET parents == {events[failure].parent, events[k].parent} IN
        /\ own # None /\ Follows(events, rank, failure, k)
        /\ NumberOf(events, meta, k) > own
        /\ None \in parents \/ Cardinality(parents) = 1}

Role_AnyCandidate(events, meta, rank, failure) ==               \* mutant
    IF Candidates(events, meta, rank, failure) # {} THEN "recovered" ELSE "unknown"

\* classifyFailure
Role(events, meta, rank, failure) ==
    LET found == Candidates(events, meta, rank, failure)
        ok == {k \in found : events[k].status = "ok"}
        inChain == \/ events[failure].name \in meta.numbered
                   \/ NumberOf(events, meta, failure) # None
                      /\ NumberOf(events, meta, failure) > 1
        runFailed == \E k \in DOMAIN events :
                        events[k].kind = "RUN" /\ events[k].status = "error"
        succeeded == \E k \in Members(events, meta) : events[k].status = "ok" IN
    IF Cardinality({events[k].parent : k \in ok} \ {None}) > 1 THEN "unknown"
    ELSE IF ok # {} THEN "recovered"
    ELSE IF found # {} THEN "transient"
    ELSE IF inChain /\ runFailed /\ ~succeeded THEN "terminal"
    ELSE "unknown"
=============================================================================
