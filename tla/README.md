# A verification development of agent-inspect

agent-inspect records what an agent run did as JSONL rows on the local disk and
evaluates deterministic checks over those rows. It is a TypeScript monorepo; paths
below are relative to `src/packages/` of the repository unless they start with `docs/`.

The development concentrates on the part of the program where the *order* of events
decides what is on disk and what is read back: the trace writers, the adapters and the
manual API that write rows, Studio's ingest, and the checks that read files which may be
incomplete, split or delivered twice. What the program computes once and for all from a
finished file (exporters, viewers, redaction, reports) is sequential and left aside.

Every process of the tracing side is one JavaScript thread. An atomic step of the models
is therefore one uninterrupted run of that thread: a handler up to its next `await`, or
the continuation after one. Between two steps any other callback may run. An await of
a settled promise resumes before any timer or I/O completion (the guards
`MicrotasksDone` in BufferedWriter and OpenAiAgents and `NoMicrotask` in
LangChainEnvelope); in FileWriter the microtask order *is* the model's job queue.

## Inventory

| Component | Source | State it keeps | Operations | Status |
| --- | --- | --- | --- | --- |
| Trace writers | `core/src/writers/index.ts`, `core/src/trace-filesystem.ts` | queue or promise chain, timer, closed flag, statistics | `write`, `flush`, `close`, timer, drain, append | `fileWriter`, `bufferedFileWriter` and `compositeWriter` modelled |
| LangChain/LangGraph adapter | `langchain/src/trace-persistence.ts`, `invocation-state.ts`, `agent-inspect-callback.ts` | current run id, lifecycle (active runs, status, completion generation, started, finalized), step ids, synthetic groups | start, end, error and instant callbacks, deferred completion, `finalize` | envelope modelled; the streaming option is not |
| LangChain parent reconciliation | `langchain/src/parent-reconciliation.ts` | none between calls | rewrite parents of observed runs | not modelled |
| Manual tracing | `core/src/inspect-run.ts`, `step.ts`, `context.ts`, `storage.ts` | the AsyncLocalStorage context, one file per run (with a fallback directory) | `inspectRun`, `step` | modelled |
| createInspector | `core/src/inspector.ts`, `inspector-runtime.ts` | open calls, a writer, its own closed flag | `run`, `step` and wrappers, `observeOutcome`, `flush`, `close` | modelled over a `fileWriter` |
| AI SDK adapter | `ai-sdk/src/index.ts` | one active run, its open steps and tools, a reason for suspension | telemetry callbacks, terminalise, `close` | modelled |
| OpenAI Agents adapter | `openai-agents/src/index.ts` | open traces and spans | trace/span start and end, `forceFlush`, `shutdown` | modelled over a `compositeWriter` |
| Studio ingest | `studio/src/ingest/` | drop directory and archive, staging directories, destination files, SQLite rows | hash, look up, stage, promote, insert, refresh, archive, clean up | one import at a time modelled, with crashes |
| Studio database, ingest endpoint | `studio/src/db.ts`, `ingest/http.ts`, `ingest/token.ts` | tables rebuilt from the registry | insert, query, receive | the `ingest_files` row is part of StudioIngest |
| Readers and persisted format | `core/src/persisted/from-trace-event.ts`, `core/src/readers`, `core/src/logs/tree-builder.ts` | none between calls | rows to events, run status | modelled for the files of manual tracing |
| Deterministic checks | `core/src/checks/` | none between calls | projection to logical events, rules | run, structure, ordering, retry and recovery rules modelled |
| Live tail | `cli/src/tail.ts` | read offset, carry-over | poll, read, detect truncation | not modelled |
| Test harness | `harness/src/index.ts` | fixture phase and errors | bootstrap, resolve, invoke, shut down | not modelled |
| Suites, cohorts, gates | `core/src/suite/run.ts`, `core/src/cohort`, `core/src/gate` | none between calls | aggregate results to a verdict | not modelled |
| Exporters, redaction, bundles, workspace, eval, CLI, viewers, Studio pages, website | see `PROJECT.json` | none that outlives a call, or files written once | transform, render | not modelled |

How they interact. The application calls `inspectRun`/`step`, or hands an adapter to a
framework, which calls the adapter's handlers. Manual tracing and the LangChain adapter
append rows to one JSONL file per run through `core/src/storage.ts`;
`createInspector`, the AI SDK and the OpenAI Agents adapters write through a
`TraceWriter`. The checks read files, and nothing keeps them from reading one that is
still written; Studio's ingest copies files into its own tree and database.

What is hard, and the properties that make each part correct:

- *Trace writers.* Drains are serialised on a promise chain while writes, evictions and
  timers go on. Correct: no event is lost uncounted or counted twice, the rows of a file
  are in call order, `flush()` is a barrier, an accepted event never waits for ever,
  every call returns, `close()` has a clear cut; of several writers, each gets the same
  rows in the same order, and the statistics say what they took.
- *LangChain adapter.* The framework does not say when a call is over: the adapter
  infers it when its last open run ends, one microtask later, unless a sibling starts in
  between; the handler object is then reused for the next call. Correct: at most one
  `run_started` and one `run_completed` per file, no start after the completion, the
  completion exactly when all runs ended, the observed status, and calls kept apart.
- *Manual tracing.* The context is implicit; functions nest, overlap, and outlive their
  callers; an append may fail and fall back to another directory. Correct: each row once,
  in its own run's file, in a readable order, under the enclosing step.
- *createInspector.* Calls write through a chain that others flush and close. Correct: a
  call that returned has its rows settled, the file is a consistent cut of the calls
  under way, nothing is appended after a `close()` returned.
- *AI SDK adapter.* One run is active; a second generation abandons it, awaiting one row
  for each open step and tool while callbacks of the abandoned one arrive. Correct: every
  event ends once, rows go to the run they belong to, what is started is recorded as
  ended, and generations that do not overlap are recorded in full.
- *OpenAI Agents adapter.* Spans are delivered without being awaited, ends may repeat while
  the first is written, shutdown meets open spans. Correct: one end row each, nothing
  ignored that came before shutdown in order, both files in the order of delivery.
- *Studio ingest.* A crash between two steps, a refused rename or insert, contents that
  come back after a change, two importers at once, a drop file that changes while it is
  read. Correct: a row always has its file, since a source with a row is not imported
  again; no import destroys another's file; what is stored is whole and has the hash its
  name tells; only imported files leave the drop directory.
- *Reading and checking.* A file may lack rows because calls are running, a row was lost or
  went to the fallback directory; may be delivered twice; and may hold several calls with
  one time. Correct: what is read grows with the file and is what happened; a rule's
  verdict is true of the calls, not only of the rows.

`PROJECT.json` lists each hazard at its line with the properties that cover it.

## The modules

| Module | Models | State and actions |
| --- | --- | --- |
| `TraceEvents` | the events handed to a writer | events are the numbers of the `write()` calls; `FileOf` gives each one's file |
| `TraceSink` | *abstract*: what a local writer promises | an event is offered, lands in its file or is given up; `Land` and `GiveUp` take a file's oldest events first |
| `BufferedWriter` | `bufferedFileWriter`, `writers/index.ts` 281–405 | `pending`, `timer`, `chain` (the drain promise chain), `batch`/`todo` (the batch being appended, file by file). `RejectWrite`, `AcceptWrite`, `TimerFires`, `DrainStarts`, `AppendGroup`, `BatchDone`, `FlushCalled`/`FlushResumes`, `CloseCalled`/`CloseResumes` |
| `FileWriter` | `fileWriter`, 202–279 | `jobs`: operations and waiting calls in the order their promise reactions run. `Enqueue`, `OperationStarts`/`OperationRefused`, `AppendSucceeds`/`AppendFails`, flush and close |
| `CompositeWriter` | `compositeWriter`, 407–470 | `waiting[k]` are the calls child `k` has not answered, `file[k]` the rows it holds, `sent` and `lost` histories of what was written and what a child did not keep. `WriteCalled`, `FlushCalled`, `CloseCalled` hand a call to all children; `ChildSettles` (the row is kept, lost in silence, or dropped behind the child's `close()`) and `ChildThrows` are their answers; `WriteReturns`, `FlushReturns`, `CloseReturns` the continuations |
| `Inspector` | `inspector.ts`, `inspector-runtime.ts` | extends `FileWriter`: `pc` where each call stands, `row` the write it awaits, `runtimeClosed` the runtime's own flag, `closer` its `close()` calls |
| `LangChainEnvelope` | `trace-persistence.ts`, `invocation-state.ts` | `life` is `#lifecycle`, `stepOf` is `#lcToStepId`, `siblings` the synthetic groups, `h[p]` the handler in flight for each framework run cut at its awaits, `trace` the files. `StartCalled`, `InstantCalled`, `EndCalled`, `EndRepeated`, `FinalizeCalled` are what the framework and the application do; `Land` completes a file operation; the other actions resume a handler |
| `ManualTracing` | `inspect-run.ts`, `step.ts`, `context.ts`, `storage.ts` | a program is a tree of calls; `pc` is where each call stands, `store` its context, `file` each run's rows in each directory. `RunCalled`, `StepCalled`, `CalledBare` (a disabled run, a step outside any run), `FnSettles`, `FileInitialised`, `RowWritten` |
| `AiSdk` | `ai-sdk/src/index.ts` | `phase`, `step`, `tool` are the framework; `active`, `suspended`, `tools`, `steps` the integration; `h[x]` the callback in flight of each strand (a generation, a tool call, the application's `close()`) cut at its awaited rows; `log` the rows of each run |
| `OpenAiAgents` | `openai-agents/src/index.ts` | `activeTraces`, `activeSpans`, `under`, `down`; instantiates `CompositeWriter` for what it awaits. One action per callback and one for its return; `WriterCloses` and `ShutdownReturns` are two, since the writer and the processor mark themselves closed in two promise jobs |
| `StudioIngest` | `studio/src/ingest/file-drop.ts`, `bundle-upload.ts`, `github-artifact.ts`, `limits.ts` | `source`, `archive` and `files` are the file system, `row` the table `ingest_files`, `imp[i]` where importer `i` stands in one import. `Hashed`, `Checked`, `Staged`, `Promoted`, `Inserted`, `Refreshed`, `Archived` and `CleanedUp` are its steps in order; `Published` and `Crashed` are what the world does. The three imports are one sequence with the differences named (`Kind`): a scan is a sequence of imports, a download is held in memory, a bundle is a directory and refreshes the registry |
| `LogicalEvents` | `persisted/from-trace-event.ts`, `checks/logical-events.ts`, `logs/tree-builder.ts` | operators: the persisted events of rows, the pairing of starts with completions, parents, the status of the run |
| `TraceRules` | `checks/index.ts` | operators: run status, completion, orphans, cycles, relationships, parallel width, step order in its three modes |
| `RetrySafety` | `checks/retry-safety.ts` | operators: attempts counted, the retry rules of a contract |
| `RecoveryRules` | `checks/recovery-operations.ts`, `derived-failure.ts` | operators: the recovery oracle of one tool, the roles of failures |
| `TraceReading` | manual tracing and its readers together | extends `ManualTracing` with a clock and the times rows carry; instantiates the rules, which read the files at every moment |
| `*MC` | | the small instances |
| `*Proofs` | | theorems |

How they compose. `BufferedWriter` and `FileWriter` both instantiate `TraceSink`
(`ImplementsSink`) with a refinement mapping: the sink's queue is everything accepted that is
neither on disk nor discarded. `Inspector` runs on `FileWriter` step by step, so its awaits
resume in the order of that writer's promise chain. `OpenAiAgents` runs on
`CompositeWriter`, whose children answer in any order among themselves. `AiSdk` awaits rows
of a writer that takes them in call order and does not throw, which is what the sink
promises. `TraceReading` puts the checks on top of `ManualTracing`: what they should say is known from
the calls, what they do say is computed from the rows. LangChainEnvelope and StudioIngest
own their files and share nothing with the others.

History variables are marked as such where they are declared. Bounds are constants that
limit how often the *environment* acts and never what the code does.

## The runs

| Run | Instance | What it shows |
| --- | --- | --- |
| `buffered_writer` | 5 events over two files, queue 3, batch 2, one caller with two flushes; 394,430 states | `Ledger`, `NothingStranded`, `FlushBarrier`, `OverflowPolicy`, `AcceptedSettles`, `CallsReturn`, `ImplementsSink` under both overflow policies and partial append failures |
| `file_writer` | 5 events, two callers, two flushes; 78,728 states | `Ledger`, `CloseCuts`, `FlushBarrier`, `EventsSettle`, `ImplementsSink` |
| `inspector` | a bare step whose fn makes a run with a step that observes an outcome, two callers of `close()`, one flush, one file; 1,730,453 states | `ConsistentTrace`: a call that returned has its rows settled and the file is a consistent cut; `QuietAfterClose`: nothing is appended once any `close()` returned |
| `openai_agents` | a trace, a span and a span in it whose end is delivered twice, two writers, one row that one or both of them lose, throwing or in silence, a flush between workflows, shutdown at any moment; 1,338,193 states | `FilesAsDelivered`, `NothingIgnored`, `StatsAccount`, `EndsOnce` |
| `ai_sdk` | three generations, of which the third may overlap, a tool call, one failure, `close()` at any moment; 1,045,844 states | `OwnRows`, `RecordedWhole`, `NothingLeftOpen`, `EndsOnce` |
| `langchain_graph` | a graph run with two parallel nodes naming one unobserved parent, one end delivered twice, then a second call on the same handler; 74,936 states | `WellFormed`, `CompletesWhenAllEnded`, `ClosedAtRest`, `StatusObserved`, `CallsNotMixed`, `HandlersReturn` |
| `langchain_agent` | an agent run with a model call, `finalize()` at any moment, up to four envelopes; 410,102 states | `AtMostOneEnvelope` where completion is forced and bookkeeping is disturbed by an agent action |
| `langchain_agent_action` | the same agent | violation of `CompletesWhenAllEnded` (finding 1) |
| `manual_tracing` | run → step → disabled run → step → run → step, the second step left running, two refused file operations; 745,295 states | `RowsPlaced` (each row once, under the enclosing step), `RowsInOrder` |
| `trace_reading` | a run with a step and, after it, a step that awaits a nested one, one refused file operation, times 0 and 1, files delivered once and twice; 59,303 states | `ReadBack`, `ReadsGrow`, `CausalOrder`, `PassMeansSettled`, `RetriesJudged` |
| `studio_ingest` | a drop file, a bundle and an artifact with two contents published five times, two faults, archiving; 159,335 states | `RowHasFile`, `NamedFileUntouched`, `StoredAsHashed`, `ArchivesImportedOnly` |
| `studio_same_bundle` | two bundle directories of one folder name and content, no fault | violation of `RowHasFile` (finding 2) |

Why the bounds are enough.

- *Writers.* With a queue of three and batches of two a drain may take a part of the queue
  and leave a rest behind. Five events are what it takes for the queue to overflow while a batch
  is in flight: one is being appended, three fill the queue, and the fifth finds it full. Two
  files make a batch fail in part. Two flushes of one caller and a close overlap with
  timer drains. What several callers of `bufferedFileWriter` may do to each other is covered by the proofs
  for the safety properties only; `CallsReturn` is checked for one caller.
- *Inspector.* The program has every kind of call once, inside and outside of a run; two
  closers are what it takes for one to return before the other; each call writes at most
  two rows, so `MaxEvents = 8` never holds a call back.
- *OpenAI Agents.* The inner span's end may arrive before its start was awaited, after its
  parent's end and twice; a child that loses one row disagrees with the other, and
  both may lose the same row, so that nobody took it. The flush is held back to the moments
  between workflows, where it meets no callback under way; the shutdown comes whenever it likes.
  The two writers are interchangeable (symmetry).
- *AI SDK.* One generation without a model call, one with a tool call beside its model call
  and one that may overlap either: abandonment meets zero, one and two open entries, and a
  third generation shows what the suspension left behind. One failure is enough, since a
  failed generation does nothing more.
- *LangChain.* The graph has one synthetic group and two siblings, the smallest in which
  a deferred completion can be cancelled by a start.
- *Manual tracing.* The nested program has every kind of enclosure once: a step in a step
  across a disabled run, a run in a step, a step in the nested run, and awaited and
  unawaited calls at both levels; two refusals are what it takes to lose a row.
- *Reading.* Three steps give overlap, nesting and sequence; two times give calls within one
  millisecond and calls apart; one refused append splits a file over two directories.
  A step both of whose rows are lost leaves nothing to judge by: `PassMeansSettled` speaks of the calls whose
  start is in the file. Every pair of
  disjoint sets of calls is tried as the two names of an order rule, and ids are ordered with
  and against the calls, where the code breaks ties by id.
- *Ingest.* Two contents and five publications let a source change and change back, which is
  when a new import meets files and rows of an old one; two faults let an import fail
  after another one crashed. The run has one importer, sources of different names that stand
  still while they are imported, and a registry refresh that succeeds (it is not in
  `Refusable`): outside these conditions some of its properties fail, as finding 2 and
  the hazards say.

Deadlock is not checked: every system here may stop when its environment makes no
further call.

### Fairness

`BufferedWriter!FairSpec`: an armed timer fires, a drain whose turn it is starts, a
started append returns with success or failure, and the continuation of a settled
promise runs. `FileWriter!FairSpec`: the head job goes on. `LangChainEnvelope!FairSpec`:
each handler's file operation lands and the handler resumes. All of this is what the
event loop and the file system do while the process lives. Nothing makes the
application or the framework call anything, and no strong fairness is used: in
particular `AcceptedSettles` must hold by the timer alone.

### Findings

1. `langchain_agent_action`: `handleAgentAction` registers an instant step under the run
   id of the *enclosing* chain and then removes it, so the chain no longer counts as active
   and the envelope is completed while it is open.
2. `studio_same_bundle`: the destination of a bundle depends on folder name and hash, its row
   on its path. A copy of an imported bundle elsewhere is imported again; the rename onto
   the non-empty directory fails, and the clean-up deletes what the first row names.

Further disagreements of code and documents, noted while modelling, without a run of their own:

- `bufferedFileWriter.close()` sets `closed` only after its drain. A `write()` that runs
  between the drain's end and that assignment is accepted into the queue and then neither
  written nor counted (`writers/index.ts:388`, against `docs/API.md:442`).
- "Failures are reflected in composite stats", says `docs/API.md:434` of `compositeWriter`. A child that is a
  `fileWriter` swallows a refused append and drops what comes behind its `close()`; the
  composite writer counts such a row as written (`writers/index.ts:430`). `StatsAccount` is exact about
  what the children tell.
- A model end delivered again after the LangChain handler went on to the next call finds no
  step id, invents a start, and appears in the next call's file (`trace-persistence.ts:488`,
  against `docs/LANGGRAPH-FIDELITY.md:98`).
- When `fn` rejects while another awaited step is writing (the ordinary `Promise.all`),
  `inspectRun` settles before that step's rows are on disk, though `docs/LIFECYCLE.md:13`
  says it awaits the flush on success and error paths.
- The order rule in its mode `all-occurrences` compares the finished occurrences of `after` only, once there is
  one (`checks/index.ts:2309`), and so accepts an overlap with one that is running,
  though `docs/TRACE-CONTRACTS.md:45` speaks of all of them. `CausalOrder` is stated for
  the occurrences the rule does compare.
- The fallback rule compares *start* times (`retry-safety.ts:493`): it accepts a fallback called
  while the attempt it falls back from was still running, if that one fails later.
- A later success recovers a failure only if the steps that the later successes ran under do not
  differ (`derived-failure.ts:313`, `distinctParents`): a failure under no step, followed by
  successes under two, has the role "unknown". `RetriesJudged` states "recovered" for failures
  under a step and for files whose successes ran under one step at most.
- One `run_started` and one `run_completed` per envelope (`docs/LANGGRAPH-FIDELITY.md`, rows 1 and 2)
  fail when `finalize()` comes in the middle of a call with parallel nodes. It writes the ends of
  synthetic groups one by one and builds `run_completed` after them, with the run id of that moment
  (`trace-persistence.ts:786`): a node that starts meanwhile rotates, and the former envelope's
  completion becomes a second one of the next. After two calls of `finalize()`, two nodes that
  rotate while an earlier one awaits the creation of its file build their `run_started` with the
  same id (`trace-persistence.ts:756`). TLC finds both on four runs (three nodes in a graph, with
  a group and one `finalize()`, or without groups and two). `OneEnvelopeWhenAwaited`, below, says
  what excludes them.

## Proofs

TLAPS checks the following for every value of the constants that satisfies the named
assumptions of the modules (`EventsAssumption`, `WriterAssumption`, `FileWriterAssumption`,
`InspectorAssumption`, `TracingAssumption`, `IngestAssumption`, `AgentsAssumption`,
`AiSdkAssumption`, `LangChainAssumption`); theorems about the composite writer assume
`CompositeAssumption` (finitely many children and callers), and the ingest and LangChain
theorems and some of the AI SDK name further hypotheses, given below.

- `BufferedWriterProofs`: the inductive invariant is `IInv` = types, `Flow` (a batch exists
  only under a running drain, the drain a caller awaits empties the queue), `CallOrder`
  (batch and queue are increasing, the batch before the queue), and the two safety
  properties. `CallOrder` is what `FlushBarrier` needs: events written after the call have
  larger numbers and stand behind those written before it, and the drain empties both. From
  `IInv`: `TypeCorrect`, `NeverStranded`, `FlushIsBarrier`, and, step by step against the
  sink, `BufferedImplementsSink`. Since the sink's `Land` takes a file's oldest event, what is queued
  is always newer than what is on disk; carried through the refinement this is
  `FilesInCallOrder`, and for the other writer `FileInCallOrder`. `LedgerExact` adds that no event is in two places: the
  batch increases, so its refused positions count as many events, and while a batch is out
  the statistics hold everything but that batch. `OverflowDropsOldest` rests on `CallOrder`: the
  head, which is evicted, is older than all that stays.
- `FileWriterProofs`: `IInv` = types, `Accounted` (every event is somewhere), `JobOrder` (jobs
  stand in call order) and `CutHolds` (between the first `close()` and its turn its job is in
  the queue, so nothing later can be stored). From it: `TypeCorrect`, `CloseIsExact`,
  `FlushIsBarrier`, `FileWriterImplementsSink`, and `LedgerExact`: an event leaves the queue
  for one place, where the counter of that place is raised. The same module proves the two
  properties of `Inspector`, which runs on this writer. `InspectorIInv` = types, `StoredInOrder`,
  `Awaited` (a call waits for the row it wrote last), `AwaitedSettled` (what it has waited for is
  settled), `HasRows` (until `close()` a call has handed over the rows of the way it has gone),
  `Founded` (a row comes after the start it stands on) and `ClosesWriter` (a `close()` on its
  way has closed the writer, or its job is queued to). `StoredInOrder` (what is on disk is older than
  what is queued) turns the order of the calls into a consistent cut of the file. From it:
  `TraceIsConsistent`, for any program, callers and failures, and `ClosedIsQuiet`, the action
  property of `close()`.
- `CompositeWriterProofs`: `StatsExact`, the statistics count every row once, as written if some child took
  it; and `FilesKeepOrder`, the property `FilesAsCalled`: each child holds exactly the rows called before
  `close()` that it answered and did not lose, each once and in call order. The rows are handed over at
  their calls but arrive at each child at its own pace, so the invariant `CallsInv` relates what
  a child holds and what still waits for it to the history of the calls: calls wait once and in the order they were made
  (`Queued`, `InOrder`), a row is in the history once (`SentOnce`), it waits ahead of its child's `close()` exactly if it was
  written before `close()` was called (`Cut`, `Closes`), a row lost waits no more (`LostOnes`), and a row of the history
  that does not wait is held or lost (`Kept`).
- `OpenAiAgentsProofs`: the writer's invariants carry over to its use here (`StatsUnderTraffic`).
  `CallInv` = `Calm` (the writer is closed as soon as the processor is down, so it refuses
  nothing), `Unheard` (before shutdown only repeated ends are ignored) and `EndsAfterStart` of
  each item (it is inactive after its start exactly because a row of its end was written).
  The files are `CallsInv` of the composite writer for these callers; `ParentInv` adds that every row sent has
  the right parent (`RowsRight`) and, until shutdown, `SentKept` (what was called is in the
  list of what was sent) and `UnderKept` (an open span has the parent its rows are to
  carry). From them: `NothingLost`, `OneEndRow`, `FilesInOrder`, for any spans, any number of
  writers and any repetition of ends.
- `AiSdkProofs`: `IInv` = types, `Shapes` (what a callback in flight holds), `Fresh` (nothing is
  recorded of what has not begun), `Gone` (what has ended and is not being ended cannot be found any
  more), `Apart` (without overlap one generation goes on, the active run is its own or is
  being abandoned, and entries go to their own run) and `OwnRows`. The end of an event is
  awaited while its entry is or is not still in a map, so *once* follows only from `Gone`:
  either an entry can be found, or its end row is written. Steps fall into
  four kinds (they end, begin, idle or rest a strand), and each part is shown for a kind. From it: `TypeCorrect`, `EventsEndOnce`,
  `RowsKeptApart`, for any generations, model calls and tools. `RunsRecordedWhole` and
  `NothingOpenLeft` need a second invariant, `Whole`, which holds while generations do not overlap and
  `close()` has not been called: `InTurn` (generations start in order, and the active run is
  that of the last one or the failed one it abandons), `Strands`, `LiveEntries` and `Recorded` (what
  can be found in the maps is in the log and has not ended), `Ordered`, `Clean` and `ToEnd`. The last says that
  whatever is started and not ended is of the active run, can be found, and lies ahead of the
  strand that abandons the run: entries that end while the abandonment awaits a row are not skipped.
- `LangChainEnvelopeProofs`: the hypothesis `OneCallAtATime` says that the application makes one call after
  another with a handler (`ParallelRoots = FALSE`) and never calls `finalize()`
  (`MaxFinalizes = 0`), that no run reports an agent action (finding 1 is a counterexample otherwise), and
  that the end of a model call is not delivered twice (one that comes after a rotation invents a start, as noted under
  the findings). Runs, their nesting, labels, other repeated ends and the number of
  calls are arbitrary. `IInv` ties three views of a run to each other: the framework's phase, the adapter's
  bookkeeping, and the lines in the files. `Shapes` and `Bookkeeping` say which runs the
  adapter counts as active at each await; `Nesting` and `Fresh` that the first run of an envelope is alone
  until its file is open, so no other start can meet a file about to be truncated; `Files`, `Recorded` and
  `Once` follow the lines. The heart is `Completion`: when nothing is active some handler is
  yielded with the *current* generation, or is completing the envelope, or has done so. The adapter's
  check of the generation after its microtask (`trace-persistence.ts:741`) is enough because of this
  conjunct. `Status` relates `life.failed` to the first failed ends in the file, `Belongs` gives each
  envelope the outermost run of its call. Steps are first shown to be of one of eighteen kinds
  (`StepKinds`), then each part is shown for a kind. From it: `EnvelopeTypes`, `EnvelopesWellFormed`,
  `CompletedAfterAll`, `CompletedAtRest`, `CompletedAsObserved`, `OneFilePerCall`, `OneEnvelopePerFile`.
  `TypesHold` and `OneEnvelopeWhenAwaited` drop `OneCallAtATime`: `finalize()` any number of times and
  at any moment, agent actions, ends delivered twice, several calls open at once. The first needs
  no other hypothesis. The second assumes `Awaited` of a behaviour: at most one callback is in flight,
  which is what a sequential chain does with the handler (`awaitHandlers = true`,
  `agent-inspect-callback.ts:68`), and none is about to start a step while `finalize()` writes the ends of
  groups. Parallel nodes do not satisfy it; they are the matter of `OneCallAtATime`. Its invariant `AwaitedInv`
  does not follow runs at all: `OpenedOnce` and `SealedOnce` say that whoever is about
  to open or complete an envelope is the one that found it unopened or uncompleted, `Ahead` that the
  next one is untouched, so that a rotation starts clean. A completion in flight may belong to a former envelope:
  a start may rotate while `finalize()` writes.
- `ManualTracingProofs`: `IInv` = types, `Nested` (a call that has been made is made from a
  function that began, in a context of calls that began, and keeps the run around it),
  `RowsMatch` (a row is in a file because its call has come that far, in a run and under a
  step that have begun), `AwaitedDone` (a function that returned has awaited its calls),
  `RowsInOrder`, `Enclosed` (the context a call keeps names the innermost traced run around its
  function and the innermost step there), `ParentIsEnclosing` and `Singly` (`OnceEach` without
  counting: one copy or none). The order alone is not inductive: that the next row may go to
  the end of its file follows from where its call, its run, its parent and its caller stand,
  which `RowsMatch` ties to the rows already there; nor are the parents, which rows take from
  contexts that only `Enclosed` describes. `Above` is the least set of calls closed under
  "the call around it": with it the proof goes from a call to the one around it and needs no
  induction over the tree. From it: `TypeCorrect`, `OrderKept`, `PlacesKept`, for any tree of
  calls, any overlap of them and any refused file operations.
  `RowsTell` (a row is in its run's file and says what came of its call) carries the invariant
  over to the readers: `SettledWhenPassed`, `ReadsRight`, `ReadsOnlyGrow`, `OrderIsCausal` and
  `RetriesAreJudged` hold of `TSpec`, the tracing with its times, which steps as `Spec` does. The
  projection chooses by rank (the k-th row that opens an event, the k-th completion by id), so
  the lemma `Ranks`, that the members of
  a finite set have one each of the ranks in a strict order of it, replaces induction over rows:
  `Places` is its use for positions, `IdPlaces` for the string order of event ids. `Even` (each
  row there as often as any other) makes the pairing exact (`MatchIs`) for a file and for a file
  delivered twice, `FileLike` says what both share, `EventIs` what an event of such rows
  is, and `Ago` goes back one row. `OrderIsCausal` needs the times as well, which `TIInv` relates
  to the calls: `TimesOK` (none is in the future), `Later` (a call made after others had
  returned, or in their functions, is not earlier than they), `Compared` (of two calls that were
  made, one found the other open or was over when it was made), `NoRound` (calls that found each
  other open were made one after the other) and `RowsApart` (what had returned has its rows
  before). The first two and the last bear the order rule in its three modes and the parents
  (`OrderAccepts`, `OrderAccepted`, `NoCycle`, `ParentFirst`); `Compared` and `NoRound` the
  width: calls that last through one millisecond found each other open, and the last of them
  made found all others so (`LastOfOpen`). `RetriesAreJudged` carries twenty statements about
  the rules for retries and recoveries, in one file and in one delivered twice. `Attempts` says of
  the events of steps all these rules read: which were attempted, how they ended, when, and under
  which parent. Two copies of a file give the attempts the same fingerprints and different calls
  different ones (`FingerprintsAre`), so a bijection counts them (`Counted`), whichever carry ids
  or numbers. The numbers are those of the file (`AttemptsInOrder`, by `Ranks` again) and respect
  the calls (`ReturnedFirst`); the latest attempt is the greatest in a strict order
  (`BeforeOrders`, `LatestIs`). Each rule is then read off the calls (`RetriesTold`,
  `RecoveriesTold`). `Role`, which compares events, equals `RoleByCalls`, which compares calls and
  does not mention the file (`RoleIs`): hence it is the same in both deliveries. All five theorems
  assume of the ids only that a
  step's is none of the `manual:...` ids a reader mints, and that no call is neither a time nor
  such an id (`ReadingAssumption`).
- `StudioIngestProofs`: `IInv` = types, `RowHasFile` and `Fresh` (an import past its check is one
  whose path no row names; once promoted, its file is there); `SteadyInv` adds `StoredAsHashed`
  and `Steady` (what was hashed is what is staged, promoted and archived). `TypeCorrect` needs
  no condition. `RowKeepsFile` and `NamedFilesKept` assume `OneImporter`, `DistinctNames` and
  `RefreshAccepted`, `FilesAsHashed` and `ArchivedIsImported` also that sources stand still
  while they are imported. Each condition is needed: without it the hazards listed at
  `file-drop.ts:249` and `:256` and `bundle-upload.ts:230` and `:247` are counterexamples.

Only model-checked:

- All liveness (`AcceptedSettles`, `CallsReturn`, `EventsSettle`, `HandlersReturn`), which is
  outside the prover's reach.
- `AtMostOneEnvelope` of LangChainEnvelope where `finalize()` interferes with handlers that are in flight
  together: there the run `langchain_agent` is the evidence, for an agent with one model call and no
  groups. `OneEnvelopePerFile` covers adapters left to themselves, `OneEnvelopeWhenAwaited` callbacks
  that come one at a time; outside all three it may fail, as noted under the findings.

## What is left out of the modelled components

Timestamps (except in TraceReading), names, metadata, validation details, redaction and size
limits of rows, terminal output, `lastError`/`lastFlushAt`, diagnostics counters. A failed
append is assumed to leave nothing in the file. *LangChain adapter*: the streaming option,
`reset()`, a handler nested in `inspectRun`, failing file operations, and concurrent calls
sharing one handler (`ParallelRoots = FALSE`; the module has the constant).
*createInspector*: writers other than `fileWriter`, `enabled: false`, rows refused by
validation. *AI SDK*: capture of metadata, a writer that throws, creation of the trace
directory. *OpenAI Agents*: what rows say beyond their event and parent.
*Ingest*: size limits, validation and rejected sources, the staging directory a crash leaves
behind (never read again), the order of a scan, and collisions of the eight hash digits in
a destination's name. *Checks and readers*: formats other than that of manual tracing,
rules about tokens, durations, models, arguments and text, several operations or
runs in one contract, explicit links (`retryOf`, call ids), the wording of findings.

## Not modelled

Most of the repository's lines are outside, for these reasons.

- *One pass over finished data*: exporters, redaction and evidence, bundles, suites, cohorts
  and gates, eval, sessions, parent reconciliation, the remaining rules of the checks. They have one
  caller, no interleaving and no state between calls; what could go wrong there is a
  matter of formats and texts, which a table of examples tests better than a state model.
- *I/O glue and rendering*: the CLI, viewers, Studio's pages and HTTP routes, the test-framework
  integrations, the website, release scripts.
- *Small concurrent parts not reached*: the live tail (a truncated file that
  grew back past the read offset goes unnoticed; its hazard is listed), the harness's
  shutdown after a failed fixture.

What would come next, in this order: the live tail against a file that is appended to, truncated and
rotated; `StudioIngest` with two importers and a registry refresh that fails, against a weaker
property that the code does keep; the harness.
