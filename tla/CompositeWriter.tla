-------------------------- MODULE CompositeWriter --------------------------
(***************************************************************************)
(* compositeWriter (packages/core/src/writers/index.ts): every call is     *)
(* handed to all children in the same run of the thread and returns when   *)
(* the last of them has settled.  A child is any TraceWriter that answers  *)
(* its calls in order, as fileWriter does: it keeps a row, throws, or      *)
(* loses it in silence (a refused append), and keeps none that was handed  *)
(* to it behind its close(), even if that close() threw.                   *)
(***************************************************************************)
EXTENDS Naturals, Sequences, FiniteSets

CONSTANTS Child,      \* the writers it was made of
          Caller,     \* whoever awaits a call; a caller makes one call
          MaxFaults   \* bound: rows that some child loses, throwing or in silence

CompositeAssumption ==
    IsFiniteSet(Child) /\ IsFiniteSet(Caller) /\ MaxFaults \in Nat

VARIABLES
    call,       \* how far the call of each caller is
    accepted,   \* the callers whose row some child took without throwing
    waiting,    \* the calls each child has not answered, oldest first
    file,       \* the rows each child holds, named by their callers
    shut,       \* the children that have closed
    closed, written, dropped,
    sent,       \* history: the write() calls before close() was called
    lost,       \* history: the children that did not keep a row, and its caller
    throws      \* history: how often a child's write threw

cvars == <<call, accepted, waiting, file, shut, closed, written, dropped, sent, lost, throws>>

CompositeInit ==
    /\ call = [c \in Caller |-> "none"] /\ accepted = {}
    /\ waiting = [k \in Child |-> <<>>] /\ file = [k \in Child |-> <<>>]
    /\ shut = {} /\ closed = FALSE
    /\ written = 0 /\ dropped = 0
    /\ sent = <<>> /\ lost = {} /\ throws = 0

Free(c) == call[c] = "none"
Made(ops) == {c \in Caller : call[c] \in ops}
CloseWasCalled == Made({"close", "closed"}) # {}

CallAll(c, op) ==
    /\ call' = [call EXCEPT ![c] = op]
    /\ waiting' = [k \in Child |-> Append(waiting[k], c)]

\* The row is a valid event: one that is not is dropped without asking the children.
WriteCalled(c) ==
    /\ Free(c)
    /\ \/ /\ closed
          /\ dropped' = dropped + 1
          /\ call' = [call EXCEPT ![c] = "refused"]
          /\ UNCHANGED <<waiting, sent>>
       \/ /\ ~closed
          /\ CallAll(c, "write")
          /\ sent' = IF CloseWasCalled THEN sent ELSE Append(sent, c)
          /\ UNCHANGED dropped
    /\ UNCHANGED <<accepted, file, shut, closed, written, lost, throws>>

FlushCalled(c) ==
    /\ Free(c)
    /\ CallAll(c, "flush")
    /\ UNCHANGED <<accepted, file, shut, closed, written, dropped, sent, lost, throws>>

\* close() waits for one child and forgets the others
CloseCalled_One(c) ==                                           \* mutant
    /\ Free(c)
    /\ call' = [call EXCEPT ![c] = "close"]
    /\ \E k \in Child : waiting' = [waiting EXCEPT ![k] = Append(@, c)]
    /\ UNCHANGED <<accepted, file, shut, closed, written, dropped, sent, lost, throws>>
CloseCalled(c) ==
    /\ Free(c)
    /\ \/ /\ closed
          /\ call' = [call EXCEPT ![c] = "closed"]
          /\ UNCHANGED waiting
       \/ /\ ~closed
          /\ CallAll(c, "close")
    /\ UNCHANGED <<accepted, file, shut, closed, written, dropped, sent, lost, throws>>

Answers(k) ==
    /\ waiting[k] # <<>>
    /\ waiting' = [waiting EXCEPT ![k] = Tail(@)]
    /\ shut' = IF call[Head(waiting[k])] = "close" THEN shut \cup {k} ELSE shut
    /\ UNCHANGED <<call, closed, written, sent>>

\* What an open child does with a row: it keeps it, or not.
Stores(k, c) ==
    /\ file' = [file EXCEPT ![k] = Append(@, c)]
    /\ UNCHANGED lost
Loses(k, c) ==
    /\ lost' = lost \cup {<<k, c>>}
    /\ Cardinality({pair[2] : pair \in lost'}) =< MaxFaults
    /\ UNCHANGED file

\* A child answers; that it lost a row, or dropped one after its close(), it does not tell.
ChildSettles(k) ==
    /\ Answers(k)
    /\ LET c == Head(waiting[k]) IN
       \/ /\ call[c] = "write"
          /\ accepted' = accepted \cup {c}
          /\ \/ k \in shut /\ UNCHANGED <<file, lost>>
             \/ k \notin shut /\ (Stores(k, c) \/ Loses(k, c))
       \/ /\ call[c] # "write"
          /\ UNCHANGED <<accepted, file, lost>>
    /\ UNCHANGED <<dropped, throws>>

\* only the failure of a write is counted
ChildThrows_Uncounted(k) ==                                     \* mutant
    /\ Answers(k)
    /\ call[Head(waiting[k])] = "write" /\ Loses(k, Head(waiting[k]))
    /\ throws' = throws + 1
    /\ UNCHANGED <<accepted, dropped>>
ChildThrows(k) ==
    /\ Answers(k)
    /\ \/ /\ call[Head(waiting[k])] = "write" /\ Loses(k, Head(waiting[k]))
          /\ dropped' = dropped + 1 /\ throws' = throws + 1
       \/ /\ call[Head(waiting[k])] # "write"
          /\ UNCHANGED <<file, lost, dropped, throws>>
    /\ UNCHANGED accepted

\* what the caller awaited has settled
Answered(k, c) == \A i \in DOMAIN waiting[k] : waiting[k][i] # c
Settled(c) == \A k \in Child : Answered(k, c)

WriteReturns(c) ==
    /\ call[c] = "write" /\ Settled(c)
    /\ \/ /\ c \in accepted
          /\ written' = written + 1 /\ UNCHANGED dropped
       \/ /\ c \notin accepted
          /\ dropped' = dropped + 1 /\ UNCHANGED written
    /\ call' = [call EXCEPT ![c] = "wrote"]
    /\ UNCHANGED <<accepted, waiting, file, shut, closed, sent, lost, throws>>
FlushReturns(c) ==
    /\ call[c] = "flush" /\ Settled(c)
    /\ call' = [call EXCEPT ![c] = "flushed"]
    /\ UNCHANGED <<accepted, waiting, file, shut, closed, written, dropped, sent, lost, throws>>
CloseReturns(c) ==
    /\ call[c] = "close" /\ Settled(c)
    /\ closed' = TRUE
    /\ call' = [call EXCEPT ![c] = "closed"]
    /\ UNCHANGED <<accepted, waiting, file, shut, written, dropped, sent, lost, throws>>

ChildAnswers == \E k \in Child : ChildSettles(k) \/ ChildThrows(k)
Returns == \E c \in Caller : WriteReturns(c) \/ FlushReturns(c) \/ CloseReturns(c)
Calls == \E c \in Caller : WriteCalled(c) \/ FlushCalled(c) \/ CloseCalled(c)
CompositeSpec == CompositeInit /\ [][ChildAnswers \/ Returns \/ Calls]_cvars

-----------------------------------------------------------------------------
Taken == Made({"wrote"}) \cap accepted
Missed == Made({"wrote"}) \ accepted
Refused == Made({"refused"})

\* The statistics are exact about what the composite is told: a row counts as written once,
\* when its write returned and at least one child did not throw; the drops are the refused
\* rows, every child's failure, and one more for each row that every child failed.
StatsAccount ==
    /\ written = Cardinality(Taken)
    /\ dropped = Cardinality(Refused) + throws + Cardinality(Missed)

Place(c) == {i \in DOMAIN sent : sent[i] = c}

\* A failing child keeps nothing from the others (docs/API.md): each child holds exactly the
\* rows that were written before close() was called, that it has answered and did not lose
\* itself, each once and in the order of the calls; the rows that are handed to it while
\* close() waits for the others it never holds.
FilesAsCalled ==
    \A k \in Child :
      /\ \A i, j \in DOMAIN file[k] : i < j =>
            \A a \in Place(file[k][i]), b \in Place(file[k][j]) : a < b
      /\ \A c \in Caller :
            (\E i \in DOMAIN file[k] : file[k][i] = c)
              <=> Place(c) # {} /\ Answered(k, c) /\ <<k, c>> \notin lost
============================================================================
