------------------------ MODULE ManualTracingProofs ------------------------
(***************************************************************************)
(* For any tree of calls, any overlap of them and any refused file         *)
(* operations: types, the order of the rows in every file, the place of    *)
(* every row, and what the checks read back from the files meanwhile.      *)
(***************************************************************************)
EXTENDS TraceReading, SequenceTheorems, FiniteSetTheorems, TLAPS

Pcs == {"new", "creating", "starting", "inside", "completing", "settled"}
Contexts == [run : Traced, step : Steps \cup {None}] \cup {NoContext}

LEMMA ContextType ==
    ASSUME TypeOK, NEW x \in Calls
    PROVE  /\ Context(x) \in Contexts
           /\ store[x] \in Contexts
           /\ RunOf(x) # None => RunOf(x) \in Traced
<1>1. store[x] \in Contexts
  BY DEF TypeOK, Contexts
<1>2. Context(x) \in Contexts
  BY TracingAssumption DEF TypeOK, Context, Contexts
<1>3. RunOf(x) # None => RunOf(x) \in Traced
  BY <1>1 DEF RunOf, Contexts, NoContext
<1> QED BY <1>1, <1>2, <1>3

LEMMA RowType ==
    ASSUME TypeOK, NEW x \in Calls
    PROVE  Row(x) \in Rows
<1>1. Context(x).step \in Steps \cup {None}
  BY ContextType DEF Contexts, NoContext
<1> QED BY <1>1 DEF Row, Rows

LEMMA RefuseType ==
    ASSUME TypeOK, NEW d \in Outcomes, Refuse(d)
    PROVE  faults' \in 0 .. MaxFaults
BY TracingAssumption DEF Refuse, Refused, TypeOK, Outcomes

\* A row goes to the end of one file, or nowhere.
LEMMA AppendedIs ==
    ASSUME NEW d, NEW row, NEW files \in [Dirs -> Seq(Rows)], row \in Rows,
           NEW e \in Dirs
    PROVE  /\ Appended(d, row, files) \in [Dirs -> Seq(Rows)]
           /\ Appended(d, row, files)[e] \in {files[e], Append(files[e], row)}
BY DEF Appended

LEMMA TypeInit == Init => TypeOK
BY TracingAssumption DEF Init, TypeOK

LEMMA EnterType ==
    ASSUME TypeOK, NEW x \in Calls, NEW at \in Pcs, NEW context \in Contexts,
           Enter(x, at, context)
    PROVE  TypeOK'
BY DEF Enter, TypeOK, Pcs, Contexts

LEMMA TypeStep ==
    ASSUME TypeOK, Nested, [Next]_vars
    PROVE  TypeOK'
<1>1. ASSUME NEW x \in Calls, CalledBare(x) PROVE TypeOK'
  BY <1>1, ContextType, EnterType DEF CalledBare, Pcs
<1>2. ASSUME NEW x \in Calls, RunCalled(x) PROVE TypeOK'
  <2>1. RunContext(x) \in Contexts
    BY <1>2 DEF RunCalled, RunContext, Contexts
  <2> QED BY <1>2, <2>1, EnterType DEF RunCalled, Pcs
<1>3. ASSUME NEW x \in Calls, StepCalled(x) PROVE TypeOK'
  <2>1. Context(x) \in [run : Traced, step : Steps \cup {None}]
    BY <1>3, ContextType DEF StepCalled, Bare, Contexts
  <2>2. StepContext(x) \in Contexts
    BY <1>3, <2>1 DEF StepCalled, StepContext, Contexts
  <2> QED BY <1>3, <2>2, EnterType DEF StepCalled, Pcs
<1>4. ASSUME NEW x \in Calls, NEW ok \in BOOLEAN, FnSettles(x, ok) PROVE TypeOK'
  BY <1>4 DEF FnSettles, TypeOK
<1>5. ASSUME NEW x \in Calls, NEW d \in Outcomes, FileInitialised(x, d) PROVE TypeOK'
  <2>1. faults' \in 0 .. MaxFaults
    BY <1>5, RefuseType DEF FileInitialised
  <2>2. file' \in [Traced -> [Dirs -> Seq(Rows)]]
    <3>1. <<>> \in Seq(Rows)
      OBVIOUS
    <3> QED BY <1>5, <3>1 DEF FileInitialised, TypeOK
  <2> QED BY <1>5, <2>1, <2>2 DEF FileInitialised, TypeOK
<1>6. ASSUME NEW x \in Calls, NEW d \in Outcomes, RowWritten(x, d) PROVE TypeOK'
  <2>1. faults' \in 0 .. MaxFaults
    BY <1>6, RefuseType DEF RowWritten
  <2>2. RunOf(x) \in Traced
    BY <1>6, ContextType DEF RowWritten, Nested
  <2>3. Appended(d, Row(x), file[RunOf(x)]) \in [Dirs -> Seq(Rows)]
    BY <2>2, RowType DEF TypeOK, Appended
  <2>4. file' \in [Traced -> [Dirs -> Seq(Rows)]]
    BY <1>6, <2>2, <2>3 DEF RowWritten, TypeOK
  <2>5. lost' \subseteq Rows
    BY <1>6, RowType DEF RowWritten, TypeOK
  <2>6. pc' \in [Calls -> Pcs]
    BY <1>6 DEF RowWritten, TypeOK, Pcs
  <2> QED BY <1>6, <2>1, <2>4, <2>5, <2>6 DEF RowWritten, TypeOK, Pcs
<1>7. CASE UNCHANGED vars
  BY <1>7 DEF vars, TypeOK
<1> QED BY <1>1, <1>2, <1>3, <1>4, <1>5, <1>6, <1>7 DEF Next

-----------------------------------------------------------------------------

\* What a call has reached it does not leave.
LEMMA Progress ==
    ASSUME TypeOK, [Next]_vars, NEW y \in Calls
    PROVE  /\ pc[y] \in Begun => pc'[y] \in Begun
           /\ pc[y] # "new" => pc'[y] # "new" /\ store'[y] = store[y]
           /\ pc[y] = "settled" => pc'[y] = "settled"
BY DEF Next, vars, CalledBare, RunCalled, StepCalled, Enter, MayCall, FnSettles,
       FileInitialised, RowWritten, TypeOK, Begun

\* The calls a context names have begun.
LEMMA ContextBegun ==
    ASSUME TypeOK, Nested, NEW x \in Calls,
           Outer[x] # None => pc[Outer[x]] \in Begun,
           NEW y \in {Context(x).run, Context(x).step} \ {None}
    PROVE  pc[y] \in Begun
<1>1. CASE Outer[x] = None
  BY <1>1 DEF Context, NoContext
<1>2. CASE Outer[x] # None
  <2>1. Outer[x] \in Calls /\ pc[Outer[x]] \in Begun
    BY <1>2, TracingAssumption
  <2>2. y \in {store[Outer[x]].run, store[Outer[x]].step} \ {None}
    BY <1>2 DEF Context
  <2> QED BY <2>1, <2>2 DEF Nested
<1> QED BY <1>1, <1>2

\* A call that is not bare has a run to write its rows to.
LEMMA Instrumented ==
    ASSUME TypeOK, Nested, NEW x \in Calls, pc[x] # "new", ~Bare(x)
    PROVE  RunOf(x) \in Traced
<1>1. CASE x \in Runs
  <2>1. x \in Traced
    BY <1>1 DEF Bare, Traced
  <2>2. store[x] = [run |-> x, step |-> None]
    BY <2>1 DEF Nested
  <2> QED BY <2>1, <2>2 DEF RunOf
<1>2. CASE x \in Steps
  <2>1. Context(x).run \in Traced
    BY <1>2, ContextType DEF Bare, Contexts
  <2>2. x \notin Traced /\ store[x] \in Contexts
    BY <1>2, TracingAssumption, ContextType DEF Traced
  <2>3. store[x].run # x
    BY <2>2, TracingAssumption DEF Contexts, NoContext, Calls
  <2>4. store[x].run = Context(x).run
    BY <2>3 DEF Nested
  <2> QED BY <2>1, <2>4 DEF RunOf
<1> QED BY <1>1, <1>2 DEF Calls

LEMMA EnterNested ==
    ASSUME TypeOK, Nested, NEW x \in Calls, NEW at \in Pcs \ {"new"},
           NEW context \in Contexts, Enter(x, at, context),
           context.run # x => context.run = Context(x).run,
           x \in Traced => context = [run |-> x, step |-> None],
           at = "creating" => x \in Traced,
           at \in {"creating", "starting", "completing"} =>
              context.run # None /\ x \notin Disabled,
           {context.run, context.step} \ {x, None}
              \subseteq {Context(x).run, Context(x).step}
    PROVE  Nested'
<1>1. /\ pc[x] = "new"
      /\ pc' = [pc EXCEPT ![x] = at] /\ store' = [store EXCEPT ![x] = context]
      /\ pc'[x] = at /\ store'[x] = context
      /\ \A y \in Calls \ {x} : pc'[y] = pc[y] /\ store'[y] = store[y]
  BY DEF Enter, MayCall, TypeOK
<1>2. Outer[x] # None => Outer[x] \in Calls \ {x} /\ pc[Outer[x]] \in Begun
  BY <1>1, TracingAssumption DEF Enter, MayCall, Begun
<1>3. \A y \in Calls \ {x} : pc[y] # "new" => Outer[y] # x
  <2> TAKE y \in Calls \ {x}
  <2> HAVE pc[y] # "new"
  <2>1. Outer[y] # None => pc[Outer[y]] \in Begun
    BY DEF Nested
  <2> QED BY <1>1, <2>1, TracingAssumption DEF Begun
<1>4. Context(x)' = Context(x)
  BY <1>1, <1>2 DEF Context
<1>5. \A y \in Calls \ {x} : pc[y] # "new" => Context(y)' = Context(y)
  BY <1>1, <1>3, TracingAssumption DEF Context
<1>6. \A y \in Calls : pc[y] \in Begun => pc'[y] \in Begun
  BY <1>1 DEF Begun
<1>7. \A y \in {context.run, context.step} \ {x, None} : pc'[y] \in Begun
  <2> TAKE y \in {context.run, context.step} \ {x, None}
  <2>1. y \in {Context(x).run, Context(x).step} \ {None}
    OBVIOUS
  <2>2. pc[y] \in Begun
    BY <1>2, <2>1, ContextBegun
  <2>3. y \in Calls
    BY DEF Contexts, NoContext, Traced, Calls
  <2> QED BY <2>2, <2>3, <1>6
<1>8. ASSUME NEW y \in Calls \ {x},
             NEW z \in {store[y].run, store[y].step} \ {y, None}
      PROVE  pc'[z] \in Begun
  <2>1. pc[z] \in Begun
    BY DEF Nested
  <2>2. z \in Calls
    BY ContextType DEF Contexts, NoContext, Traced, Calls
  <2> QED BY <2>1, <2>2, <1>6
<1> SUFFICES ASSUME NEW y \in Calls
             PROVE  /\ pc'[y] = "new" => store'[y] = NoContext
                    /\ pc'[y] # "new" =>
                          /\ Outer[y] # None => pc'[Outer[y]] \in Begun
                          /\ store'[y].run # y =>
                                store'[y].run = (Context(y)').run
                          /\ y \in Traced => store'[y] = [run |-> y, step |-> None]
                    /\ pc'[y] = "creating" => y \in Traced
                    /\ pc'[y] \in {"creating", "starting", "completing"} =>
                          RunOf(y)' # None /\ y \notin Disabled
                    /\ \A z \in {store'[y].run, store'[y].step} \ {y, None} :
                          pc'[z] \in Begun
  BY DEF Nested
<1>9. CASE y = x
  BY <1>1, <1>2, <1>4, <1>6, <1>7, <1>9 DEF RunOf
<1>10. CASE y # x
  <2>1. pc[y] # "new" /\ Outer[y] # None => pc'[Outer[y]] \in Begun
    BY <1>6, <1>10, TracingAssumption DEF Nested
  <2> QED BY <1>1, <1>5, <1>8, <1>10, <2>1 DEF Nested, RunOf
<1> QED BY <1>9, <1>10

LEMMA KeptNested ==
    ASSUME TypeOK, Nested, store' = store, [Next]_vars,
           \A y \in Calls : /\ pc[y] = "new" <=> pc'[y] = "new"
                            /\ pc'[y] = "creating" => pc[y] = "creating"
                            /\ pc'[y] \in {"starting", "completing"} =>
                                  RunOf(y) # None /\ y \notin Disabled
    PROVE  Nested'
<1>1. \A y \in Calls : pc[y] \in Begun => pc'[y] \in Begun
  BY Progress
<1> SUFFICES ASSUME NEW y \in Calls
             PROVE  /\ pc'[y] = "new" => store'[y] = NoContext
                    /\ pc'[y] # "new" =>
                          /\ Outer[y] # None => pc'[Outer[y]] \in Begun
                          /\ store'[y].run # y =>
                                store'[y].run = (Context(y)').run
                          /\ y \in Traced => store'[y] = [run |-> y, step |-> None]
                    /\ pc'[y] = "creating" => y \in Traced
                    /\ pc'[y] \in {"creating", "starting", "completing"} =>
                          RunOf(y)' # None /\ y \notin Disabled
                    /\ \A z \in {store'[y].run, store'[y].step} \ {y, None} :
                          pc'[z] \in Begun
  BY DEF Nested
<1>2. Context(y)' = Context(y) /\ RunOf(y)' = RunOf(y)
  BY DEF Context, RunOf
<1>3. \A z \in {store[y].run, store[y].step} \ {y, None} : pc'[z] \in Begun
  <2> TAKE z \in {store[y].run, store[y].step} \ {y, None}
  <2>1. pc[z] \in Begun
    BY DEF Nested
  <2>2. z \in Calls
    BY ContextType DEF Contexts, NoContext, Traced, Calls
  <2> QED BY <1>1, <2>1, <2>2
<1>4. pc'[y] # "new" /\ Outer[y] # None => pc'[Outer[y]] \in Begun
  BY <1>1, TracingAssumption DEF Nested
<1> QED BY <1>2, <1>3, <1>4 DEF Nested

LEMMA NestedStep ==
    ASSUME TypeOK, Nested, [Next]_vars
    PROVE  Nested'
<1>1. ASSUME NEW x \in Calls, CalledBare(x) PROVE Nested'
  <2>1. x \notin Traced
    BY <1>1, TracingAssumption DEF CalledBare, Bare, Traced
  <2> QED BY <1>1, <2>1, ContextType, EnterNested DEF CalledBare, Pcs
<1>2. ASSUME NEW x \in Calls, RunCalled(x) PROVE Nested'
  <2>1. /\ RunContext(x) \in Contexts /\ RunContext(x).run = x
        /\ RunContext(x).step = None /\ x # None
    BY <1>2, TracingAssumption DEF RunCalled, RunContext, Contexts
  <2>2. x \in Traced /\ x \notin Disabled /\ Enter(x, "creating", RunContext(x))
    BY <1>2 DEF RunCalled, Traced
  <2> QED BY <2>1, <2>2, EnterNested DEF RunContext, Pcs
<1>3. ASSUME NEW x \in Calls, StepCalled(x) PROVE Nested'
  <2>1. Context(x) \in [run : Traced, step : Steps \cup {None}]
    BY <1>3, ContextType DEF StepCalled, Bare, Contexts
  <2>2. /\ StepContext(x) \in Contexts /\ StepContext(x).run = Context(x).run
        /\ StepContext(x).step = x /\ Context(x).run # None
    BY <1>3, <2>1, TracingAssumption
       DEF StepCalled, StepContext, Contexts, Traced, Calls
  <2>3. x \notin Traced /\ x \notin Disabled /\ Enter(x, "starting", StepContext(x))
    BY <1>3, TracingAssumption DEF StepCalled, Traced
  <2> QED BY <2>2, <2>3, EnterNested DEF Pcs
<1>4. ASSUME NEW x \in Calls, NEW ok \in BOOLEAN, FnSettles(x, ok) PROVE Nested'
  <2>1. /\ pc[x] = "inside" /\ pc' = [pc EXCEPT ![x] = pc'[x]] /\ store' = store
        /\ pc'[x] = IF Bare(x) THEN "settled" ELSE "completing"
    BY <1>4 DEF FnSettles, TypeOK
  <2>2. ~Bare(x) => RunOf(x) # None /\ x \notin Disabled
    BY <2>1, Instrumented, TracingAssumption DEF Traced, Calls, Bare
  <2> QED BY <2>1, <2>2, KeptNested DEF TypeOK, Nested
<1>5. ASSUME NEW x \in Calls, NEW d \in Outcomes, FileInitialised(x, d) PROVE Nested'
  <2>1. /\ pc[x] = "creating" /\ pc' = [pc EXCEPT ![x] = "starting"]
        /\ store' = store
    BY <1>5 DEF FileInitialised
  <2> QED BY <2>1, KeptNested DEF TypeOK, Nested
<1>6. ASSUME NEW x \in Calls, NEW d \in Outcomes, RowWritten(x, d) PROVE Nested'
  <2>1. /\ pc[x] \in {"starting", "completing"} /\ store' = store
        /\ pc'[x] \in {"inside", "settled"}
        /\ \A y \in Calls \ {x} : pc'[y] = pc[y]
    BY <1>6 DEF RowWritten, TypeOK
  <2> QED BY <2>1, KeptNested DEF Nested
<1>7. CASE UNCHANGED vars
  BY <1>7, KeptNested DEF vars, Nested
<1> QED BY <1>1, <1>2, <1>3, <1>4, <1>5, <1>6, <1>7 DEF Next

-----------------------------------------------------------------------------

\* Only an fn still running fails.
LEMMA Failures ==
    ASSUME [Next]_vars, NEW y \in Calls
    PROVE  /\ y \in failed => y \in failed'
           /\ pc[y] # "inside" => (y \in failed' <=> y \in failed)
BY DEF Next, vars, CalledBare, RunCalled, StepCalled, Enter, FnSettles,
       FileInitialised, RowWritten

LEMMA AwaitedStep ==
    ASSUME TypeOK, Nested, AwaitedDone, [Next]_vars
    PROVE  AwaitedDone'
<1> SUFFICES ASSUME NEW x \in Awaited, Outer[x] # None,
                    pc'[Outer[x]] \in {"completing", "settled"}, Outer[x] \notin failed'
             PROVE  pc'[x] \in {"new", "settled"}
  BY DEF AwaitedDone
<1> DEFINE y == Outer[x]
<1>1. x \in Calls /\ y \in Calls
  BY TracingAssumption
<1>2. CASE pc[y] \in {"completing", "settled"}
  <2>1. y \notin failed
    BY <1>1, Failures
  <2>2. pc[x] \in {"new", "settled"}
    BY <1>2, <2>1 DEF AwaitedDone
  <2>3. ~MayCall(x)
    BY <1>2 DEF MayCall
  <2> QED
    BY <1>1, <2>2, <2>3
       DEF Next, vars, CalledBare, RunCalled, StepCalled, Enter, FnSettles,
           FileInitialised, RowWritten, TypeOK
<1>3. CASE pc[y] \notin {"completing", "settled"}
  <2>1. PICK ok \in BOOLEAN : FnSettles(y, ok)
    BY <1>1, <1>3, TracingAssumption
       DEF Next, vars, CalledBare, RunCalled, StepCalled, Enter, MayCall, FnSettles,
           FileInitialised, RowWritten, TypeOK
  <2>2. ok
    BY <2>1 DEF FnSettles
  <2>3. pc[x] \in {"new", "settled"}
    BY <1>1, <2>1, <2>2 DEF FnSettles, FnMaySettle, Pending
  <2> QED BY <1>1, <2>1, <2>3 DEF FnSettles, TypeOK
<1> QED BY <1>2, <1>3

-----------------------------------------------------------------------------

\* A row at the end of an ordered file keeps it ordered, unless it opens a run
\* late, starts what has completed, starts the parent of a started step, or
\* completes a call whose caller has returned.
LEMMA AppendInOrder ==
    ASSUME NEW f \in Seq(Rows), InOrder(f), NEW row \in Rows,
           (row.event = "started" /\ row.of \in Runs) => f = <<>>,
           \A j \in DOMAIN f :
              /\ row.event = "started" =>
                    f[j].of # row.of /\ (f[j].event = "started" => f[j].parent # row.of)
              /\ (row.event = "completed" /\ f[j].event = "completed" /\ f[j].ok
                     /\ row.of \in Awaited) => Outer[row.of] # f[j].of,
           (row.event = "started") => row.parent # row.of,
           (row.event = "completed" /\ row.ok /\ row.of \in Awaited) =>
              Outer[row.of] # row.of
    PROVE  InOrder(Append(f, row))
<1> DEFINE g == Append(f, row)
<1>1. /\ DOMAIN g = 1 .. Len(f) + 1 /\ DOMAIN f = 1 .. Len(f) /\ Len(f) \in Nat
      /\ \A i \in DOMAIN f : g[i] = f[i]
      /\ g[Len(f) + 1] = row
  OBVIOUS
<1> SUFFICES ASSUME NEW i \in DOMAIN g, NEW j \in DOMAIN g
             PROVE  /\ (g[j].event = "started" /\ g[j].of \in Runs) => j = 1
                    /\ (g[i].of = g[j].of /\ g[i].event = "started"
                           /\ g[j].event = "completed") => i < j
                    /\ (g[i].event = "started" /\ g[j].event = "started"
                           /\ g[i].of = g[j].parent) => i < j
                    /\ (g[i].event = "completed" /\ g[j].event = "completed"
                           /\ g[j].ok /\ g[i].of \in Awaited
                           /\ Outer[g[i].of] = g[j].of) => i < j
  BY DEF InOrder
<1>2. CASE i \in DOMAIN f /\ j \in DOMAIN f
  BY <1>1, <1>2 DEF InOrder
<1>3. CASE i \in DOMAIN f /\ j = Len(f) + 1
  BY <1>1, <1>3
<1>4. CASE i = Len(f) + 1 /\ j \in DOMAIN f
  BY <1>1, <1>4 DEF InOrder
<1>5. CASE i = Len(f) + 1 /\ j = Len(f) + 1
  BY <1>1, <1>5
<1> QED BY <1>1, <1>2, <1>3, <1>4, <1>5

\* The row a call is about to write, and the run it is written to.
LEMMA NextRow ==
    ASSUME TypeOK, Nested, NEW x \in Calls, pc[x] \in {"starting", "completing"}
    PROVE  /\ RunOf(x) \in Traced /\ Row(x) \in Rows /\ Row(x).of = x
           /\ RunOf(x) # x => pc[RunOf(x)] \in Begun
           /\ pc[x] = "starting" => Row(x).event = "started"
           /\ pc[x] = "completing" => /\ Row(x).event = "completed"
                                      /\ Row(x).ok <=> x \notin failed
           /\ Row(x).event = "started" /\ Row(x).parent # None =>
                 pc[Row(x).parent] \in Begun
           /\ x \in Runs => RunOf(x) = x
<1>1. RunOf(x) \in Traced /\ RunOf(x) \in Calls /\ RunOf(x) # None
  BY ContextType, TracingAssumption DEF Nested, Traced, Calls
<1>2. RunOf(x) # x => pc[RunOf(x)] \in Begun
  BY <1>1 DEF Nested, RunOf
<1>3. Outer[x] # None => pc[Outer[x]] \in Begun
  BY DEF Nested
<1>4. ASSUME x \notin Runs, Context(x).step # None PROVE pc[Context(x).step] \in Begun
  BY <1>3, <1>4, ContextBegun
<1>5. Row(x).event = "started" /\ Row(x).parent # None => pc[Row(x).parent] \in Begun
  BY <1>4 DEF Row
<1>6. x \in Runs => RunOf(x) = x
  <2>1. x \in Runs => x \in Traced
    BY DEF Nested, Traced
  <2>2. x \in Traced => store[x] = [run |-> x, step |-> None]
    BY DEF Nested
  <2> QED BY <2>1, <2>2 DEF RunOf
<1> QED BY <1>1, <1>2, <1>5, <1>6, RowType DEF Row

\* What a step does to a file: nothing, truncate it, or append the next row of
\* a call of its run.
LEMMA FileStep ==
    ASSUME TypeOK, Nested, [Next]_vars, NEW run \in Traced, NEW dir \in Dirs
    PROVE  \/ file'[run][dir] = file[run][dir]
           \/ file'[run][dir] = <<>>
           \/ \E x \in Calls :
                 /\ pc[x] \in {"starting", "completing"} /\ RunOf(x) = run
                 /\ pc'[x] = IF pc[x] = "starting" THEN "inside" ELSE "settled"
                 /\ file'[run][dir] = Append(file[run][dir], Row(x))
<1>1. ASSUME NEW x \in Calls, NEW d \in Outcomes, FileInitialised(x, d)
      PROVE  file'[run][dir] \in {file[run][dir], <<>>}
  BY <1>1 DEF FileInitialised, TypeOK
<1>2. ASSUME NEW x \in Calls, NEW d \in Outcomes, RowWritten(x, d)
      PROVE  \/ file'[run][dir] = file[run][dir]
             \/ /\ pc[x] \in {"starting", "completing"} /\ RunOf(x) = run
                /\ pc'[x] = IF pc[x] = "starting" THEN "inside" ELSE "settled"
                /\ file'[run][dir] = Append(file[run][dir], Row(x))
  <2>1. /\ pc[x] \in {"starting", "completing"}
        /\ pc'[x] = IF pc[x] = "starting" THEN "inside" ELSE "settled"
    BY <1>2 DEF RowWritten, TypeOK
  <2>2. RunOf(x) # run => file'[run] = file[run]
    BY <1>2 DEF RowWritten, TypeOK
  <2>3. RunOf(x) = run => file'[run] = Appended(d, Row(x), file[run])
    BY <1>2 DEF RowWritten, TypeOK
  <2>4. Appended(d, Row(x), file[run])[dir]
           \in {file[run][dir], Append(file[run][dir], Row(x))}
    BY RowType, AppendedIs DEF TypeOK
  <2> QED BY <2>1, <2>2, <2>3, <2>4
<1>3. CASE file' = file
  BY <1>3
<1> QED
  BY <1>1, <1>2, <1>3
     DEF Next, vars, CalledBare, RunCalled, StepCalled, Enter, FnSettles

\* What RowsMatch says of one row.
Matched(run, row) ==
    /\ pc[run] \in Begun
    /\ pc[row.of] \in Begun
    /\ row.event = "completed" =>
          pc[row.of] = "settled" /\ (row.ok => row.of \notin failed)
    /\ (row.event = "started" /\ row.parent # None) => pc[row.parent] \in Begun

LEMMA MatchedKept ==
    ASSUME TypeOK, [Next]_vars, NEW run \in Traced, NEW row \in Rows,
           Matched(run, row)
    PROVE  Matched(run, row)'
<1>1. run \in Calls /\ row.of \in Calls /\ (row.parent # None => row.parent \in Calls)
  BY DEF Rows, Traced, Calls
<1>2. pc'[run] \in Begun /\ pc'[row.of] \in Begun
  BY <1>1, Progress DEF Matched
<1>3. row.parent # None /\ row.event = "started" => pc'[row.parent] \in Begun
  BY <1>1, Progress DEF Matched
<1>4. row.event = "completed" =>
         pc'[row.of] = "settled" /\ (row.ok => row.of \notin failed')
  BY <1>1, Progress, Failures DEF Matched
<1> QED BY <1>2, <1>3, <1>4 DEF Matched

LEMMA MatchedWritten ==
    ASSUME TypeOK, Nested, [Next]_vars, NEW x \in Calls,
           pc[x] \in {"starting", "completing"},
           pc'[x] = IF pc[x] = "starting" THEN "inside" ELSE "settled",
           NEW run, run = RunOf(x), NEW row, row = Row(x)
    PROVE  Matched(run, row)'
<1>1. run \in Calls /\ row \in Rows /\ row.of = x
  BY NextRow DEF Traced, Calls
<1>2. pc'[x] \in Begun /\ pc'[run] \in Begun
  BY <1>1, NextRow, Progress DEF Begun
<1>3. row.parent # None /\ row.event = "started" => pc'[row.parent] \in Begun
  <2> SUFFICES ASSUME row.parent # None, row.event = "started"
               PROVE  pc'[row.parent] \in Begun
    OBVIOUS
  <2>1. row.parent \in Calls
    BY <1>1 DEF Rows, Calls
  <2> QED BY <2>1, NextRow, Progress
<1>4. row.event = "completed" =>
         pc'[row.of] = "settled" /\ (row.ok => row.of \notin failed')
  BY <1>1, NextRow, Failures
<1> QED BY <1>1, <1>2, <1>3, <1>4 DEF Matched

LEMMA RowsMatchStep ==
    ASSUME TypeOK, Nested, RowsMatch, [Next]_vars
    PROVE  RowsMatch'
<1> SUFFICES ASSUME NEW run \in Traced, NEW dir \in Dirs,
                    NEW i \in DOMAIN file'[run][dir],
                    NEW row, row = file'[run][dir][i]
             PROVE  Matched(run, row)'
  BY DEF RowsMatch, Matched
<1> DEFINE f == file[run][dir]
<1>1. f \in Seq(Rows)
  BY DEF TypeOK
<1>2. \A j \in DOMAIN f : f[j] \in Rows /\ Matched(run, f[j])
  BY <1>1 DEF RowsMatch, Matched
<1>3. i \in DOMAIN f /\ row = f[i] => Matched(run, row)'
  BY <1>2, MatchedKept
<1>4. CASE file'[run][dir] = f
  BY <1>3, <1>4
<1>5. CASE file'[run][dir] = <<>>
  BY <1>5
<1>6. ASSUME NEW x \in Calls, pc[x] \in {"starting", "completing"}, RunOf(x) = run,
             pc'[x] = IF pc[x] = "starting" THEN "inside" ELSE "settled",
             file'[run][dir] = Append(f, Row(x))
      PROVE  Matched(run, row)'
  <2>1. i \in DOMAIN f => row = f[i]
    BY <1>1, <1>6
  <2>2. i \notin DOMAIN f => row = Row(x)
    BY <1>1, <1>6
  <2> QED BY <1>3, <1>6, <2>1, <2>2, MatchedWritten
<1> QED BY <1>4, <1>5, <1>6, FileStep

\* What RowsTell says of one row.
Told(run, row) ==
    /\ RunOf(row.of) = run
    /\ row.event = "completed" => row.parent = None /\ (row.ok <=> row.of \notin failed)
    /\ row.event = "started" =>
          row.parent = IF row.of \in Runs THEN None ELSE Context(row.of).step

LEMMA ToldKept ==
    ASSUME TypeOK, Nested, [Next]_vars, NEW run \in Traced, NEW row \in Rows,
           Matched(run, row), Told(run, row)
    PROVE  Told(run, row)'
<1>1. row.of \in Calls /\ pc[row.of] \in Begun
  BY DEF Rows, Matched
<1>2. RunOf(row.of)' = RunOf(row.of)
  BY <1>1, Progress DEF RunOf, Begun
<1>3. Context(row.of)' = Context(row.of)
  <2>1. Outer[row.of] # None => Outer[row.of] \in Calls /\ pc[Outer[row.of]] \in Begun
    BY <1>1, TracingAssumption DEF Nested, Begun
  <2> QED BY <2>1, Progress DEF Context, Begun
<1>4. row.event = "completed" => (row.of \in failed' <=> row.of \in failed)
  BY <1>1, Failures DEF Matched
<1> QED BY <1>2, <1>3, <1>4 DEF Told

LEMMA ToldWritten ==
    ASSUME TypeOK, Nested, [Next]_vars, NEW x \in Calls,
           pc[x] \in {"starting", "completing"},
           NEW run, run = RunOf(x), NEW row, row = Row(x)
    PROVE  Told(run, row)'
<1>1. row.of = x
  BY NextRow
<1>2. RunOf(x)' = RunOf(x)
  BY Progress DEF RunOf
<1>3. Context(x)' = Context(x)
  <2>1. Outer[x] # None => Outer[x] \in Calls /\ pc[Outer[x]] \in Begun
    BY TracingAssumption DEF Nested
  <2> QED BY <2>1, Progress DEF Context, Begun
<1>4. x \in failed' <=> x \in failed
  BY Failures
<1>5. CASE pc[x] = "starting"
  <2>1. row.event = "started" /\ row.parent = IF x \in Runs THEN None ELSE Context(x).step
    BY <1>5 DEF Row
  <2> QED BY <1>1, <1>2, <1>3, <2>1 DEF Told
<1>6. CASE pc[x] = "completing"
  <2>1. row.event = "completed" /\ row.parent = None /\ (row.ok <=> x \notin failed)
    BY <1>6 DEF Row
  <2> QED BY <1>1, <1>2, <1>4, <2>1 DEF Told
<1> QED BY <1>5, <1>6

LEMMA RowsTellStep ==
    ASSUME TypeOK, Nested, RowsMatch, RowsTell, [Next]_vars
    PROVE  RowsTell'
<1> SUFFICES ASSUME NEW run \in Traced, NEW dir \in Dirs,
                    NEW i \in DOMAIN file'[run][dir],
                    NEW row, row = file'[run][dir][i]
             PROVE  Told(run, row)'
  BY DEF RowsTell, Told
<1> DEFINE f == file[run][dir]
<1>1. f \in Seq(Rows)
  BY DEF TypeOK
<1>2. \A j \in DOMAIN f : f[j] \in Rows /\ Matched(run, f[j]) /\ Told(run, f[j])
  BY <1>1 DEF RowsMatch, Matched, RowsTell, Told
<1>3. i \in DOMAIN f /\ row = f[i] => Told(run, row)'
  BY <1>2, ToldKept
<1>4. CASE file'[run][dir] = f
  BY <1>3, <1>4
<1>5. CASE file'[run][dir] = <<>>
  BY <1>5
<1>6. ASSUME NEW x \in Calls, pc[x] \in {"starting", "completing"}, RunOf(x) = run,
             file'[run][dir] = Append(f, Row(x))
      PROVE  Told(run, row)'
  <2>1. i \in DOMAIN f => row = f[i]
    BY <1>1, <1>6
  <2>2. i \notin DOMAIN f => row = Row(x)
    BY <1>1, <1>6
  <2> QED BY <1>3, <1>6, <2>1, <2>2, ToldWritten
<1> QED BY <1>4, <1>5, <1>6, FileStep

LEMMA InOrderStep ==
    ASSUME TypeOK, Nested, RowsMatch, AwaitedDone, RowsInOrder, [Next]_vars
    PROVE  RowsInOrder'
<1> SUFFICES ASSUME NEW run \in Traced, NEW dir \in Dirs
             PROVE  InOrder(file'[run][dir])
  BY DEF RowsInOrder, InOrder
<1> DEFINE f == file[run][dir]
<1>1. f \in Seq(Rows) /\ InOrder(f)
  BY DEF TypeOK, RowsInOrder
<1>2. \A j \in DOMAIN f : f[j] \in Rows /\ Matched(run, f[j])
  BY <1>1 DEF RowsMatch, Matched
<1>3. InOrder(<<>>)
  BY DEF InOrder
<1>4. ASSUME NEW x \in Calls, pc[x] \in {"starting", "completing"}, RunOf(x) = run,
             file'[run][dir] = Append(f, Row(x))
      PROVE  InOrder(file'[run][dir])
  <2> DEFINE row == Row(x)
  <2>1. /\ row \in Rows /\ row.of = x /\ x # None
        /\ row.event = "started" <=> pc[x] = "starting"
        /\ row.event = "completed" <=> pc[x] = "completing"
        /\ row.event = "completed" => (row.ok <=> x \notin failed)
        /\ row.event = "started" /\ row.parent # None => pc[row.parent] \in Begun
        /\ x \in Runs => run = x
    BY <1>4, NextRow, TracingAssumption
  <2> HIDE DEF row
  <2>2. (row.event = "started" /\ row.of \in Runs) => f = <<>>
    <3> SUFFICES ASSUME row.event = "started", row.of \in Runs, f # <<>>
                 PROVE  FALSE
      OBVIOUS
    <3>1. 1 \in DOMAIN f
      BY <1>1
    <3>2. pc[run] \in Begun
      BY <1>2, <3>1 DEF Matched
    <3> QED BY <2>1, <3>2 DEF Begun
  <2>3. ASSUME NEW j \in DOMAIN f, row.event = "started"
        PROVE  f[j].of # row.of /\ (f[j].event = "started" => f[j].parent # row.of)
    BY <1>2, <2>1, <2>3 DEF Matched, Begun
  <2>4. ASSUME NEW j \in DOMAIN f, row.event = "completed",
               f[j].event = "completed", f[j].ok, row.of \in Awaited
        PROVE  Outer[row.of] # f[j].of
    <3>1. f[j].of \in Calls /\ pc[f[j].of] = "settled" /\ f[j].of \notin failed
      BY <1>2, <2>4 DEF Matched, Rows
    <3> QED BY <2>1, <2>4, <3>1, TracingAssumption DEF AwaitedDone
  <2>5. row.event = "started" => row.parent # row.of
    BY <2>1 DEF Begun
  <2>6. (row.event = "completed" /\ row.ok /\ row.of \in Awaited) =>
           Outer[row.of] # row.of
    BY <2>1, TracingAssumption DEF AwaitedDone
  <2> QED BY <1>1, <1>4, <2>1, <2>2, <2>3, <2>4, <2>5, <2>6, AppendInOrder DEF row
<1> QED BY <1>1, <1>3, <1>4, FileStep

-----------------------------------------------------------------------------
(* Where a call is                                                          *)

\* Above[x] is the least set that holds the call around x and whatever is around its members.
LEMMA AboveLeast ==
    ASSUME NEW x \in Calls
    PROVE  /\ Above[x] \subseteq Calls
           /\ Outward(Above[x]) /\ Outer[x] \in Above[x] \cup {None}
           /\ \A s \in SUBSET Calls :
                 Outward(s) /\ Outer[x] \in s \cup {None} => Above[x] \subseteq s
<1>1. Above[x] = {y \in Calls : \A s \in SUBSET Calls :
                     Outward(s) /\ Outer[x] \in s \cup {None} => y \in s}
  BY DEF Above
<1>2. ASSUME NEW y \in Above[x]
      PROVE  Outer[y] \in Above[x] \cup {None}
  <2> SUFFICES ASSUME Outer[y] # None,
                      NEW s \in SUBSET Calls, Outward(s), Outer[x] \in s \cup {None}
               PROVE  Outer[y] \in s
    BY <1>1, TracingAssumption
  <2>1. y \in s
    BY <1>1
  <2> QED BY <2>1 DEF Outward
<1>3. Outer[x] \in Above[x] \cup {None}
  BY <1>1, TracingAssumption
<1> QED BY <1>1, <1>2, <1>3 DEF Outward

\* A call is nested in the call around it and in what that one is nested in.
LEMMA AboveIs ==
    ASSUME NEW x \in Calls
    PROVE  /\ Outer[x] = None => Above[x] = {}
           /\ Outer[x] # None => Above[x] = Above[Outer[x]] \cup {Outer[x]}
           /\ \A y \in Above[x] : Above[y] \subseteq Above[x]
<1>1. ASSUME Outer[x] = None PROVE Above[x] = {}
  <2>1. Outward({})
    BY DEF Outward
  <2> QED BY <1>1, <2>1, AboveLeast
<1>2. ASSUME NEW y \in Above[x]
      PROVE  Above[y] \subseteq Above[x]
  <2>1. y \in Calls /\ Outer[y] \in Above[x] \cup {None}
    BY AboveLeast DEF Outward
  <2> QED BY <2>1, AboveLeast
<1>3. ASSUME Outer[x] # None PROVE Above[x] = Above[Outer[x]] \cup {Outer[x]}
  <2> DEFINE o == Outer[x]
             s == Above[o] \cup {o}
  <2>1. o \in Calls /\ o \in Above[x]
    BY <1>3, AboveLeast, TracingAssumption
  <2>2. s \subseteq Above[x]
    BY <1>2, <2>1
  <2>3. Outward(s) /\ s \in SUBSET Calls
    BY <2>1, AboveLeast DEF Outward
  <2>4. Above[x] \subseteq s
    BY <2>3, AboveLeast
  <2> QED BY <2>2, <2>4
<1> QED BY <1>1, <1>2, <1>3

\* AsyncLocalStorage hands a call the context of the fn it is made from, which is right for it.
LEMMA ContextNames ==
    ASSUME TypeOK, Enclosed, NEW x \in Calls, Outer[x] # None => pc[Outer[x]] \in Begun
    PROVE  /\ Names(Context(x), Above[x])
           /\ \A y \in Above[x] : pc[y] \in Begun
<1>1. CASE Outer[x] = None
  <2>1. Above[x] = {} /\ Context(x) = NoContext
    BY <1>1, AboveIs DEF Context
  <2> QED BY <2>1 DEF Names, NoContext, StepsIn
<1>2. CASE Outer[x] # None
  <2>1. /\ Outer[x] \in Calls /\ pc[Outer[x]] # "new"
        /\ Above[x] = Above[Outer[x]] \cup {Outer[x]} /\ Context(x) = store[Outer[x]]
    BY <1>2, AboveIs, TracingAssumption DEF Context, Begun
  <2> QED BY <1>2, <2>1 DEF Enclosed
<1> QED BY <1>1, <1>2

\* A bare call changes nothing, a run hides what is around it, a step is the innermost in its run.
LEMMA BareNames ==
    ASSUME NEW x \in Calls, TypeOK, Names(Context(x), Above[x]), Bare(x)
    PROVE  Names(Context(x), Above[x] \cup {x})
<1>1. CASE x \in Disabled
  <2>1. x \notin Traced /\ x \notin Steps
    BY <1>1, TracingAssumption DEF Traced
  <2>2. /\ (Above[x] \cup {x}) \cap Traced = Above[x] \cap Traced
        /\ \A run : StepsIn(run, Above[x] \cup {x}) = StepsIn(run, Above[x])
    BY <2>1 DEF StepsIn
  <2> QED BY <2>2 DEF Names
<1>2. CASE x \in Steps /\ Context(x) = NoContext
  <2>1. x \notin Traced /\ Context(x).run = None /\ Context(x).step = None
    BY <1>2, TracingAssumption DEF Traced, NoContext
  <2>2. (Above[x] \cup {x}) \cap Traced = Above[x] \cap Traced
    BY <2>1
  <2>3. \A y \in Calls : None \notin Above[y]
    BY AboveLeast, TracingAssumption
  <2>4. StepsIn(None, Above[x] \cup {x}) = {} /\ StepsIn(None, Above[x]) = {}
    BY <2>3 DEF StepsIn, Calls
  <2> QED BY <2>1, <2>2, <2>4 DEF Names
<1> QED BY <1>1, <1>2 DEF Bare

LEMMA RunNames ==
    ASSUME NEW x \in Traced, x \notin Above[x]
    PROVE  Names(RunContext(x), Above[x] \cup {x})
<1>1. x \in Calls /\ x \notin Steps /\ RunContext(x).run = x /\ RunContext(x).step = None
  BY TracingAssumption DEF Traced, Calls, RunContext
<1>2. Innermost(x, (Above[x] \cup {x}) \cap Traced)
  BY DEF Innermost
<1>3. StepsIn(x, Above[x] \cup {x}) = {}
  BY <1>1, AboveIs DEF StepsIn
<1> QED BY <1>1, <1>2, <1>3 DEF Names

LEMMA StepNames ==
    ASSUME TypeOK, NEW x \in Steps, x \notin Above[x], ~Bare(x), Names(Context(x), Above[x])
    PROVE  Names(StepContext(x), Above[x] \cup {x})
<1>1. x \in Calls /\ x \notin Traced
  BY TracingAssumption DEF Traced, Calls
<1>2. Context(x) \in [run : Traced, step : Steps \cup {None}]
  BY <1>1, ContextType DEF Bare, Contexts
<1>3. StepContext(x).run = Context(x).run /\ StepContext(x).step = x
  BY <1>2 DEF StepContext
<1> DEFINE run == Context(x).run
<1>4. run # None
  BY <1>2, TracingAssumption DEF Traced, Calls
<1>5. Innermost(run, Above[x] \cap Traced)
  BY <1>4 DEF Names
<1>6. (Above[x] \cup {x}) \cap Traced = Above[x] \cap Traced /\ Above[x] \cap Traced # {}
  BY <1>1, <1>5 DEF Innermost
<1>7. Innermost(x, StepsIn(run, Above[x] \cup {x}))
  BY <1>5 DEF Innermost, StepsIn
<1>8. StepsIn(run, Above[x] \cup {x}) # {}
  BY <1>7 DEF Innermost
<1> QED BY <1>3, <1>5, <1>6, <1>7, <1>8 DEF Names

LEMMA EnterEnclosed ==
    ASSUME TypeOK, Enclosed, NEW x \in Calls, NEW at \in Pcs \ {"new"},
           NEW context, Enter(x, at, context), Names(context, Above[x] \cup {x})
    PROVE  Enclosed'
<1>1. /\ pc[x] = "new" /\ pc'[x] = at /\ store'[x] = context
      /\ \A y \in Calls \ {x} : pc'[y] = pc[y] /\ store'[y] = store[y]
      /\ Outer[x] # None => pc[Outer[x]] \in Begun
  BY DEF Enter, MayCall, TypeOK, Begun
<1>2. \A y \in Calls : pc[y] \in Begun => y # x /\ pc'[y] \in Begun
  BY <1>1 DEF Begun
<1>3. \A z \in Above[x] : z \in Calls /\ pc[z] \in Begun
  BY <1>1, ContextNames, AboveLeast
<1> SUFFICES ASSUME NEW y \in Calls, pc'[y] # "new"
             PROVE  /\ \A z \in Above[y] : z # y /\ pc'[z] \in Begun
                    /\ Names(store'[y], Above[y] \cup {y})
  BY DEF Enclosed
<1>4. CASE y = x
  BY <1>1, <1>2, <1>3, <1>4
<1>5. CASE y # x
  <2>1. pc[y] # "new" /\ store'[y] = store[y]
    BY <1>1, <1>5
  <2>2. \A z \in Above[y] : z \in Calls /\ z # y /\ pc[z] \in Begun
    BY <2>1, AboveLeast DEF Enclosed
  <2> QED BY <1>2, <2>1, <2>2 DEF Enclosed
<1> QED BY <1>4, <1>5

LEMMA EnclosedStep ==
    ASSUME TypeOK, Enclosed, [Next]_vars
    PROVE  Enclosed'
<1>1. ASSUME NEW x \in Calls, MayCall(x)
      PROVE  Names(Context(x), Above[x]) /\ x \notin Above[x]
  <2>1. pc[x] = "new" /\ (Outer[x] # None => pc[Outer[x]] \in Begun)
    BY <1>1 DEF MayCall, Begun
  <2> QED BY <2>1, ContextNames DEF Begun
<1>2. ASSUME NEW x \in Calls, CalledBare(x) PROVE Enclosed'
  <2>1. Names(Context(x), Above[x] \cup {x})
    BY <1>1, <1>2, BareNames DEF CalledBare, Enter
  <2> QED BY <1>2, <2>1, EnterEnclosed DEF CalledBare, Pcs
<1>3. ASSUME NEW x \in Calls, RunCalled(x) PROVE Enclosed'
  <2>1. Names(RunContext(x), Above[x] \cup {x})
    BY <1>1, <1>3, RunNames DEF RunCalled, Enter
  <2> QED BY <1>3, <2>1, EnterEnclosed DEF RunCalled, Pcs
<1>4. ASSUME NEW x \in Calls, StepCalled(x) PROVE Enclosed'
  <2>1. Names(StepContext(x), Above[x] \cup {x})
    BY <1>1, <1>4, StepNames DEF StepCalled, Enter
  <2> QED BY <1>4, <2>1, EnterEnclosed DEF StepCalled, Pcs
<1>5. ASSUME store' = store, \A y \in Calls : pc[y] = "new" <=> pc'[y] = "new"
      PROVE  Enclosed'
  <2>1. \A y, z \in Calls : pc[z] \in Begun => pc'[z] \in Begun
    BY Progress
  <2>2. \A y \in Calls : Above[y] \subseteq Calls
    BY AboveLeast
  <2> QED BY <1>5, <2>1, <2>2 DEF Enclosed, Names
<1>6. CASE UNCHANGED vars
  BY <1>5, <1>6 DEF vars
<1>7. ASSUME NEW x \in Calls, NEW ok \in BOOLEAN, FnSettles(x, ok) PROVE Enclosed'
  BY <1>5, <1>7 DEF FnSettles, TypeOK
<1>8. ASSUME NEW x \in Calls, NEW d \in Outcomes, FileInitialised(x, d) \/ RowWritten(x, d)
      PROVE  Enclosed'
  BY <1>5, <1>8 DEF FileInitialised, RowWritten, TypeOK
<1> QED BY <1>2, <1>3, <1>4, <1>6, <1>7, <1>8 DEF Next

\* What ParentIsEnclosing says of one row.
Placed(run, row) ==
    row.of \in Steps /\ row.event = "started" =>
        /\ Innermost(run, Above[row.of] \cap Traced)
        /\ IF StepsIn(run, Above[row.of]) = {} THEN row.parent = None
                                               ELSE Innermost(row.parent, StepsIn(run, Above[row.of]))

LEMMA RowPlaced ==
    ASSUME TypeOK, Nested, Enclosed, NEW x \in Calls, pc[x] \in {"starting", "completing"}
    PROVE  Placed(RunOf(x), Row(x))
<1> SUFFICES ASSUME x \in Steps, pc[x] = "starting"
             PROVE  Placed(RunOf(x), Row(x))
  BY NextRow DEF Placed
<1>1. Row(x).of = x /\ Row(x).parent = Context(x).step
  BY TracingAssumption DEF Row
<1>2. RunOf(x) \in Traced /\ RunOf(x) # None /\ x \notin Traced
  BY NextRow, TracingAssumption DEF Traced, Calls
<1>3. RunOf(x) = Context(x).run
  BY <1>2 DEF Nested, RunOf
<1>4. Names(Context(x), Above[x])
  BY ContextNames DEF Nested
<1> QED BY <1>1, <1>2, <1>3, <1>4 DEF Placed, Names

LEMMA ParentStep ==
    ASSUME TypeOK, Nested, Enclosed, ParentIsEnclosing, [Next]_vars
    PROVE  ParentIsEnclosing'
<1> SUFFICES ASSUME NEW run \in Traced, NEW dir \in Dirs,
                    NEW i \in DOMAIN file'[run][dir]
             PROVE  Placed(run, file'[run][dir][i])
  BY DEF ParentIsEnclosing, Placed
<1> DEFINE f == file[run][dir]
<1>1. f \in Seq(Rows)
  BY DEF TypeOK
<1>2. \A j \in DOMAIN f : Placed(run, f[j])
  BY DEF ParentIsEnclosing, Placed
<1>3. ASSUME NEW x \in Calls, pc[x] \in {"starting", "completing"}, RunOf(x) = run,
             file'[run][dir] = Append(f, Row(x))
      PROVE  Placed(run, file'[run][dir][i])
  <2>1. Placed(run, Row(x))
    BY <1>3, RowPlaced
  <2>2. \/ i \in DOMAIN f /\ file'[run][dir][i] = f[i]
        \/ file'[run][dir][i] = Row(x)
    BY <1>1, <1>3
  <2> QED BY <1>2, <2>1, <2>2
<1> QED BY <1>2, <1>3, FileStep

-----------------------------------------------------------------------------
(* Every row once                                                           *)

LEMMA SameSet ==
    ASSUME NEW s, NEW t, \A e : e \in s <=> e \in t
    PROVE  s = t
OBVIOUS

LEMMA WrittenIs ==
    ASSUME NEW files, NEW y, NEW event, NEW copy
    PROVE  copy \in Written(files, y, event) <=>
              \E run \in Traced, dir \in Dirs : \E i \in DOMAIN files[run][dir] :
                 /\ files[run][dir][i].of = y /\ files[run][dir][i].event = event
                 /\ copy = <<run, dir, i>>
<1> DEFINE At(run, dir) == {j \in DOMAIN files[run][dir] : /\ files[run][dir][j].of = y
                                                           /\ files[run][dir][j].event = event}
           Found(run, dir) == {<<run, dir, i>> : i \in At(run, dir)}
<1>1. Written(files, y, event) = UNION {Found(run, dir) : run \in Traced, dir \in Dirs}
  BY DEF Written
<1>2. \A run, dir : copy \in Found(run, dir) <=> \E i \in At(run, dir) : copy = <<run, dir, i>>
  OBVIOUS
<1> HIDE DEF Found
<1>3. copy \in Written(files, y, event) <=>
         \E run \in Traced, dir \in Dirs : copy \in Found(run, dir)
  BY <1>1
<1>4. ASSUME NEW run \in Traced, NEW dir \in Dirs, copy \in Found(run, dir)
      PROVE  \E i \in DOMAIN files[run][dir] :
                /\ files[run][dir][i].of = y /\ files[run][dir][i].event = event
                /\ copy = <<run, dir, i>>
  BY <1>2, <1>4
<1>5. ASSUME NEW run \in Traced, NEW dir \in Dirs, NEW i \in DOMAIN files[run][dir],
             files[run][dir][i].of = y, files[run][dir][i].event = event, copy = <<run, dir, i>>
      PROVE  copy \in Found(run, dir)
  BY <1>2, <1>5
<1> QED BY <1>3, <1>4, <1>5

LEMMA CopiesStay ==
    ASSUME file' = file, lost' = lost
    PROVE  \A y, event : Copies(y, event)' = Copies(y, event)
BY DEF Copies

\* A row that is written has one copy more, in a file of its run or among the lost, and no
\* other row has.
LEMMA CopyWritten ==
    ASSUME TypeOK, Nested, NEW x \in Calls, NEW d \in Outcomes, RowWritten(x, d),
           NEW kind, kind = Row(x).event
    PROVE  /\ \A y, event : ~(y = x /\ event = kind) => Copies(y, event)' = Copies(y, event)
           /\ \E copy : /\ Copies(x, kind)' = Copies(x, kind) \cup {copy}
                        /\ copy \in lost' \/ copy[1] = RunOf(x)
           /\ lost \subseteq lost'
<1> DEFINE own == RunOf(x)
           n == Len(file[own][d]) + 1
<1>1. /\ own \in Traced /\ Row(x).of = x /\ Row(x) \in Rows
      /\ file' = [file EXCEPT ![own] = Appended(d, Row(x), @)]
      /\ lost' = IF d \in Dirs THEN lost ELSE lost \cup {Row(x)}
  BY NextRow DEF RowWritten
<1>2. PICK row : row = Row(x)
  OBVIOUS
<1>row. row.of = x /\ row.event = kind
  BY <1>1, <1>2
<1>5. ASSUME NEW new,
             \A y, event, copy : copy \in Copies(y, event)' <=>
                \/ copy \in Copies(y, event)
                \/ copy = new /\ row.of = y /\ row.event = event
      PROVE  /\ \A y, event : ~(y = x /\ event = kind) =>
                   Copies(y, event)' = Copies(y, event)
             /\ Copies(x, kind)' = Copies(x, kind) \cup {new}
  <2>1. ASSUME NEW y, NEW event, ~(y = x /\ event = kind)
        PROVE  Copies(y, event)' = Copies(y, event)
    <3>1. \A copy : copy \in Copies(y, event)' <=> copy \in Copies(y, event)
      BY <1>row, <1>5, <2>1
    <3> QED BY <3>1, SameSet
  <2>2. Copies(x, kind)' = Copies(x, kind) \cup {new}
    <3>1. \A copy : copy \in Copies(x, kind)' <=> copy \in Copies(x, kind) \cup {new}
      BY <1>row, <1>5
    <3> QED BY <3>1, SameSet
  <2> QED BY <2>1, <2>2
<1>3. CASE d \notin Dirs
  <2>1. file' = file /\ lost' = lost \cup {row}
    <3>1. Appended(d, Row(x), file[own]) = file[own]
      BY <1>1, <1>3 DEF Appended, TypeOK
    <3> QED BY <1>1, <1>2, <1>3, <3>1 DEF TypeOK
  <2>2. \A y, event, copy : copy \in Copies(y, event)' <=>
           \/ copy \in Copies(y, event)
           \/ copy = row /\ row.of = y /\ row.event = event
    <3> TAKE y, event, copy
    <3>1. copy \in Copies(y, event)' <=>
             copy \in Written(file, y, event) \/ (copy \in lost' /\ copy.of = y /\ copy.event = event)
      BY <2>1 DEF Copies
    <3> QED BY <2>1, <3>1 DEF Copies
  <2>3. row \in lost' /\ lost \subseteq lost'
    BY <2>1
  <2> QED BY <1>5, <2>2, <2>3
<1>4. CASE d \in Dirs
  <2>1. /\ lost' = lost
        /\ \A run \in Traced, dir \in Dirs : ~(run = own /\ dir = d) =>
              file'[run][dir] = file[run][dir]
        /\ file'[own][d] = Append(file[own][d], row)
    BY <1>1, <1>2, <1>4 DEF TypeOK, Appended
  <2>2. file[own][d] \in Seq(Rows)
    BY <1>1, <1>4 DEF TypeOK
  <2>3. /\ DOMAIN file'[own][d] = DOMAIN file[own][d] \cup {n} /\ n \notin DOMAIN file[own][d]
        /\ \A i \in DOMAIN file[own][d] : file'[own][d][i] = file[own][d][i]
        /\ file'[own][d][n] = row
    BY <1>1, <1>2, <2>1, <2>2
  <2>4. PICK new : new = <<own, d, n>>
    OBVIOUS
  <2> HIDE DEF own, n
  <2>5. ASSUME NEW y, NEW event, NEW copy
        PROVE  copy \in Written(file', y, event) <=>
                  \/ copy \in Written(file, y, event)
                  \/ copy = new /\ row.of = y /\ row.event = event
    <3>1. ASSUME copy \in Written(file', y, event)
          PROVE  \/ copy \in Written(file, y, event)
                 \/ copy = new /\ row.of = y /\ row.event = event
      <4>1. PICK run \in Traced, dir \in Dirs : \E i \in DOMAIN file'[run][dir] :
               /\ file'[run][dir][i].of = y /\ file'[run][dir][i].event = event
               /\ copy = <<run, dir, i>>
        BY <3>1, WrittenIs
      <4>2. PICK i \in DOMAIN file'[run][dir] :
               /\ file'[run][dir][i].of = y /\ file'[run][dir][i].event = event
               /\ copy = <<run, dir, i>>
        BY <4>1
      <4>3. CASE run = own /\ dir = d /\ i = n
        BY <2>3, <2>4, <4>2, <4>3
      <4>4. CASE ~(run = own /\ dir = d /\ i = n)
        <5>1. i \in DOMAIN file[run][dir] /\ file'[run][dir][i] = file[run][dir][i]
          BY <2>1, <2>3, <4>4
        <5> QED BY <4>2, <5>1, WrittenIs
      <4> QED BY <4>3, <4>4
    <3>2. ASSUME copy \in Written(file, y, event)
          PROVE  copy \in Written(file', y, event)
      <4>1. PICK run \in Traced, dir \in Dirs : \E i \in DOMAIN file[run][dir] :
               /\ file[run][dir][i].of = y /\ file[run][dir][i].event = event
               /\ copy = <<run, dir, i>>
        BY <3>2, WrittenIs
      <4>2. PICK i \in DOMAIN file[run][dir] :
               /\ file[run][dir][i].of = y /\ file[run][dir][i].event = event
               /\ copy = <<run, dir, i>>
        BY <4>1
      <4>3. i \in DOMAIN file'[run][dir] /\ file'[run][dir][i] = file[run][dir][i]
        BY <2>1, <2>3
      <4> QED BY <4>2, <4>3, WrittenIs
    <3>3. ASSUME copy = new, row.of = y, row.event = event
          PROVE  copy \in Written(file', y, event)
      <4>1. /\ own \in Traced /\ n \in DOMAIN file'[own][d] /\ file'[own][d][n].of = y
            /\ file'[own][d][n].event = event /\ copy = <<own, d, n>>
        BY <1>1, <2>3, <2>4, <3>3
      <4> QED BY <1>4, <4>1, WrittenIs
    <3> QED BY <3>1, <3>2, <3>3
  <2>6. ASSUME NEW y, NEW event, NEW copy
        PROVE  copy \in Copies(y, event)' <=>
                  \/ copy \in Copies(y, event)
                  \/ copy = new /\ row.of = y /\ row.event = event
    <3>1. copy \in Copies(y, event)' <=>
             copy \in Written(file', y, event) \/ (copy \in lost /\ copy.of = y /\ copy.event = event)
      BY <2>1 DEF Copies
    <3> QED BY <2>5, <3>1 DEF Copies
  <2>7. new[1] = RunOf(x) /\ lost \subseteq lost'
    BY <2>1, <2>4 DEF own
  <2>8. \A y, event, copy : copy \in Copies(y, event)' <=>
           \/ copy \in Copies(y, event)
           \/ copy = new /\ row.of = y /\ row.event = event
    BY <2>6
  <2> QED BY <1>5, <2>7, <2>8
<1> QED BY <1>3, <1>4

\* Whether a call that may have been made is bare does not change any more.
LEMMA BareStays ==
    ASSUME TypeOK, [Next]_vars, NEW x \in Calls, Outer[x] # None => pc[Outer[x]] \in Begun
    PROVE  Bare(x)' <=> Bare(x)
<1>1. Context(x)' = Context(x)
  <2>1. CASE Outer[x] = None
    BY <2>1 DEF Context
  <2>2. CASE Outer[x] # None
    <3>1. Outer[x] \in Calls /\ pc[Outer[x]] # "new"
      BY <2>2, TracingAssumption DEF Begun
    <3> QED BY <2>2, <3>1, Progress DEF Context
  <2> QED BY <2>1, <2>2
<1> QED BY <1>1 DEF Bare

\* A step that moves x and no row keeps the copies, if it does not take x past a row.
LEMMA SinglyKept ==
    ASSUME TypeOK, Nested, Singly, [Next]_vars, file' = file, lost' = lost,
           NEW x \in Calls, Outer[x] # None => pc[Outer[x]] \in Begun,
           \A y \in Calls \ {x} : pc'[y] = pc[y],
           ~Bare(x) => (pc'[x] \in Begun <=> pc[x] \in Begun),
           ~Bare(x) => (pc'[x] = "settled" <=> pc[x] = "settled")
    PROVE  Singly'
<1>1. \A y, event : Copies(y, event)' = Copies(y, event)
  BY CopiesStay
<1> SUFFICES ASSUME NEW y \in Calls
             PROVE  /\ Single(y, "started", ~Bare(y) /\ pc[y] \in Begun)'
                    /\ Single(y, "completed", ~Bare(y) /\ pc[y] = "settled")'
                    /\ \A copy \in (Copies(y, "started") \ lost)' : copy[1] = RunOf(y)'
  BY DEF Singly
<1>2. /\ Single(y, "started", ~Bare(y) /\ pc[y] \in Begun)
      /\ Single(y, "completed", ~Bare(y) /\ pc[y] = "settled")
      /\ \A copy \in Copies(y, "started") \ lost : copy[1] = RunOf(y)
  BY DEF Singly
<1>3. pc[y] # "new" \/ y = x => (Bare(y)' <=> Bare(y))
  BY BareStays DEF Nested
<1>4. /\ (~Bare(y) /\ pc[y] \in Begun)' <=> (~Bare(y) /\ pc[y] \in Begun)
      /\ (~Bare(y) /\ pc[y] = "settled")' <=> (~Bare(y) /\ pc[y] = "settled")
  <2>1. CASE y = x
    BY <1>3, <2>1
  <2>2. CASE y # x /\ pc[y] = "new"
    BY <2>2 DEF Begun
  <2>3. CASE y # x /\ pc[y] # "new"
    BY <1>3, <2>3
  <2> QED BY <2>1, <2>2, <2>3
<1>5. \A copy \in Copies(y, "started") \ lost : copy[1] = RunOf(y)'
  <2>1. CASE pc[y] = "new"
    <3>1. Copies(y, "started") = {}
      BY <1>2, <2>1 DEF Single, Begun
    <3> QED BY <3>1
  <2>2. CASE pc[y] # "new"
    BY <1>2, <2>2, Progress DEF RunOf
  <2> QED BY <2>1, <2>2
<1> QED BY <1>1, <1>2, <1>4, <1>5 DEF Single

LEMMA SinglyWritten ==
    ASSUME TypeOK, Nested, Singly, NEW x \in Calls, NEW d \in Outcomes, RowWritten(x, d)
    PROVE  Singly'
<1>1. /\ pc[x] \in {"starting", "completing"} /\ store' = store
      /\ pc'[x] = IF pc[x] = "starting" THEN "inside" ELSE "settled"
      /\ \A y \in Calls \ {x} : pc'[y] = pc[y]
  BY DEF RowWritten, TypeOK
<1>2. PICK kind : /\ kind = Row(x).event
                  /\ kind = IF pc[x] = "starting" THEN "started" ELSE "completed"
  BY <1>1, NextRow
<1>3. \A y \in Calls : (Bare(y)' <=> Bare(y)) /\ RunOf(y)' = RunOf(y)
  BY <1>1 DEF Bare, Context, RunOf
<1>4. ~Bare(x)
  <2>1. RunOf(x) # None /\ x \notin Disabled
    BY <1>1 DEF Nested
  <2>2. ASSUME x \in Steps, Context(x) = NoContext PROVE FALSE
    <3>1. RunOf(x) \in Traced /\ x \notin Traced
      BY <1>1, <2>2, NextRow, TracingAssumption DEF Traced
    <3>2. RunOf(x) = Context(x).run
      BY <1>1, <3>1 DEF Nested, RunOf
    <3> QED BY <2>1, <2>2, <3>2 DEF NoContext
  <2> QED BY <2>1, <2>2 DEF Bare
<1>5. PICK new : /\ Copies(x, kind)' = Copies(x, kind) \cup {new}
                 /\ new \in lost' \/ new[1] = RunOf(x)
  BY <1>2, CopyWritten
<1>6. /\ lost \subseteq lost'
      /\ \A y, event : ~(y = x /\ event = kind) => Copies(y, event)' = Copies(y, event)
  BY <1>2, CopyWritten
<1>7. \A y \in Calls :
        /\ Single(y, "started", ~Bare(y) /\ pc[y] \in Begun)
        /\ Single(y, "completed", ~Bare(y) /\ pc[y] = "settled")
        /\ \A copy \in Copies(y, "started") \ lost : copy[1] = RunOf(y)
  BY DEF Singly
<1> SUFFICES ASSUME NEW y \in Calls
             PROVE  /\ Single(y, "started", ~Bare(y) /\ pc[y] \in Begun)'
                    /\ Single(y, "completed", ~Bare(y) /\ pc[y] = "settled")'
                    /\ \A copy \in (Copies(y, "started") \ lost)' : copy[1] = RunOf(y)'
  BY DEF Singly
<1>8. CASE y # x
  <2>1. /\ Copies(y, "started")' = Copies(y, "started")
        /\ Copies(y, "completed")' = Copies(y, "completed")
        /\ pc'[y] = pc[y] /\ (Bare(y)' <=> Bare(y)) /\ RunOf(y)' = RunOf(y)
    BY <1>1, <1>3, <1>6, <1>8
  <2> QED BY <1>6, <1>7, <2>1 DEF Single
<1>9. CASE y = x /\ pc[x] = "starting"
  <2>1. Copies(x, "started") = {} /\ Copies(x, "completed") = {}
    BY <1>7, <1>9 DEF Single, Begun
  <2>2. Copies(x, "started")' = {new} /\ Copies(x, "completed")' = {}
    BY <1>2, <1>5, <1>6, <1>9, <2>1
  <2>3. pc'[x] = "inside" /\ ~Bare(x)' /\ RunOf(x)' = RunOf(x)
    BY <1>1, <1>3, <1>4, <1>9
  <2> QED BY <1>5, <1>9, <2>2, <2>3 DEF Single, Begun
<1>10. CASE y = x /\ pc[x] = "completing"
  <2>1. Single(x, "started", TRUE) /\ Copies(x, "completed") = {}
    BY <1>4, <1>7, <1>10 DEF Single, Begun
  <2>2. Copies(x, "started")' = Copies(x, "started") /\ Copies(x, "completed")' = {new}
    BY <1>2, <1>5, <1>6, <1>10, <2>1
  <2>3. pc'[x] = "settled" /\ ~Bare(x)' /\ RunOf(x)' = RunOf(x)
    BY <1>1, <1>3, <1>4, <1>10
  <2> QED BY <1>6, <1>7, <1>10, <2>1, <2>2, <2>3 DEF Single, Begun
<1> QED BY <1>1, <1>8, <1>9, <1>10

LEMMA SinglyStep ==
    ASSUME TypeOK, Nested, RowsMatch, Singly, [Next]_vars
    PROVE  Singly'
<1>1. ASSUME NEW x \in Calls, NEW at \in Pcs, NEW context, Enter(x, at, context),
             ~Bare(x) => at \in {"creating", "starting"}
      PROVE  Singly'
  <2>1. /\ pc[x] = "new" /\ (Outer[x] # None => pc[Outer[x]] \in Begun)
        /\ pc'[x] = at /\ \A y \in Calls \ {x} : pc'[y] = pc[y]
        /\ file' = file /\ lost' = lost
    BY <1>1 DEF Enter, MayCall, Begun, TypeOK
  <2> QED BY <1>1, <2>1, SinglyKept DEF Begun
<1>2. ASSUME NEW x \in Calls, CalledBare(x) PROVE Singly'
  BY <1>1, <1>2 DEF CalledBare, Pcs
<1>3. ASSUME NEW x \in Calls, RunCalled(x) PROVE Singly'
  BY <1>1, <1>3 DEF RunCalled, Pcs
<1>4. ASSUME NEW x \in Calls, StepCalled(x) PROVE Singly'
  BY <1>1, <1>4 DEF StepCalled, Pcs
<1>5. ASSUME NEW x \in Calls, NEW ok \in BOOLEAN, FnSettles(x, ok) PROVE Singly'
  <2>1. /\ pc[x] = "inside" /\ pc'[x] = (IF Bare(x) THEN "settled" ELSE "completing")
        /\ file' = file /\ lost' = lost /\ \A y \in Calls \ {x} : pc'[y] = pc[y]
    BY <1>5 DEF FnSettles, TypeOK
  <2>2. Outer[x] # None => pc[Outer[x]] \in Begun
    BY <2>1 DEF Nested
  <2> QED BY <2>1, <2>2, SinglyKept DEF Begun
<1>6. ASSUME NEW x \in Calls, NEW d \in Outcomes, FileInitialised(x, d) PROVE Singly'
  <2>1. /\ pc[x] = "creating" /\ pc'[x] = "starting" /\ lost' = lost
        /\ \A y \in Calls \ {x} : pc'[y] = pc[y]
        /\ file' = IF d \in Dirs THEN [file EXCEPT ![x][d] = <<>>] ELSE file
    BY <1>6 DEF FileInitialised, TypeOK
  <2>2. x \in Traced /\ (Outer[x] # None => pc[Outer[x]] \in Begun)
    BY <2>1 DEF Nested
  <2>3. \A dir \in Dirs : file[x][dir] = <<>>
    <3> TAKE dir \in Dirs
    <3>1. file[x][dir] \in Seq(Rows)
      BY <2>2 DEF TypeOK
    <3>2. ASSUME 1 \in DOMAIN file[x][dir] PROVE FALSE
      BY <2>1, <2>2, <3>2 DEF RowsMatch, Begun
    <3> QED BY <3>1, <3>2
  <2>4. file' = file
    BY <2>1, <2>2, <2>3 DEF TypeOK
  <2> QED BY <2>1, <2>2, <2>4, SinglyKept DEF Begun
<1>7. ASSUME NEW x \in Calls, NEW d \in Outcomes, RowWritten(x, d) PROVE Singly'
  BY <1>7, SinglyWritten
<1>8. CASE UNCHANGED vars
  <2>1. \A y, event : Copies(y, event)' = Copies(y, event)
    BY <1>8, CopiesStay DEF vars
  <2> QED BY <1>8, <2>1 DEF vars, Singly, Single, Bare, Context, RunOf
<1> QED BY <1>2, <1>3, <1>4, <1>5, <1>6, <1>7, <1>8 DEF Next

\* Having one copy is having as many as OnceEach says.
LEMMA SinglyIsOnce == Singly => OnceEach
<1>1. ASSUME NEW y, NEW event, NEW written \in BOOLEAN, Single(y, event, written)
      PROVE  Cardinality(Copies(y, event)) = IF written THEN 1 ELSE 0
  BY <1>1, FS_EmptySet, FS_Singleton DEF Single
<1> SUFFICES ASSUME Singly, NEW x \in Calls
             PROVE  /\ Cardinality(Copies(x, "started")) =
                          (IF ~Bare(x) /\ pc[x] \in Begun THEN 1 ELSE 0)
                    /\ Cardinality(Copies(x, "completed")) =
                          (IF ~Bare(x) /\ pc[x] = "settled" THEN 1 ELSE 0)
                    /\ \A copy \in Copies(x, "started") \ lost : copy[1] = RunOf(x)
  BY DEF OnceEach, Begun
<1>2. /\ Single(x, "started", ~Bare(x) /\ pc[x] \in Begun)
      /\ Single(x, "completed", ~Bare(x) /\ pc[x] = "settled")
      /\ \A copy \in Copies(x, "started") \ lost : copy[1] = RunOf(x)
  BY DEF Singly
<1> QED BY <1>1, <1>2

-----------------------------------------------------------------------------

LEMMA InitIInv == Init => IInv
<1> SUFFICES ASSUME Init PROVE IInv
  OBVIOUS
<1>1. TypeOK
  BY TypeInit
<1>2. Nested
  BY DEF Init, Nested, NoContext
<1>3. RowsMatch /\ RowsInOrder /\ RowsTell
  BY DEF Init, RowsMatch, RowsInOrder, InOrder, RowsTell
<1>4. AwaitedDone
  BY TracingAssumption DEF Init, AwaitedDone
<1>5. Enclosed /\ ParentIsEnclosing
  BY DEF Init, Enclosed, ParentIsEnclosing
<1>6. Singly
  <2>1. ASSUME NEW y, NEW event PROVE Copies(y, event) = {}
    <3>1. \A copy : copy \notin Written(file, y, event)
      BY WrittenIs DEF Init
    <3>2. \A copy : copy \in Copies(y, event) <=> copy \in {}
      BY <3>1 DEF Copies, Init
    <3> QED BY <3>2, SameSet
  <2> QED BY <2>1 DEF Init, Singly, Single, Begun
<1> QED BY <1>1, <1>2, <1>3, <1>4, <1>5, <1>6 DEF IInv

LEMMA StepIInv == IInv /\ [Next]_vars => IInv'
BY TypeStep, NestedStep, RowsMatchStep, AwaitedStep, InOrderStep, EnclosedStep, ParentStep,
   SinglyStep, RowsTellStep DEF IInv

\* Types, and a context that names a step always names its run.
THEOREM TypeCorrect == Spec => []TypeOK
<1>1. IInv => TypeOK
  BY DEF IInv
<1> QED BY InitIInv, StepIInv, <1>1, PTL DEF Spec

\* In every file of every run the run's row comes first, a call's rows and its
\* parent's start come before what follows from them, and a call that returned
\* completes after the calls it awaited.
THEOREM OrderKept == Spec => []RowsInOrder
<1>1. IInv => RowsInOrder
  BY DEF IInv
<1> QED BY InitIInv, StepIInv, <1>1, PTL DEF Spec

\* Whatever the calls overlap and whatever file operations are refused, each row is written
\* once, to a file of the innermost traced run around its call, under the innermost step there.
THEOREM PlacesKept == Spec => []RowsPlaced
<1>1. IInv => RowsPlaced
  BY SinglyIsOnce DEF IInv, RowsPlaced
<1> QED BY InitIInv, StepIInv, <1>1, PTL DEF Spec

-----------------------------------------------------------------------------
(* What readers make of a sequence of rows                                  *)

\* The members of S before c in an order R.
Below(S, R, c) == {d \in S : <<d, c>> \in R}

Ranked(S, R, rank) ==
    /\ IsFiniteSet(S)
    /\ \A c \in S : <<c, c>> \notin R
    /\ \A c, d \in S : c # d => <<c, d>> \in R \/ <<d, c>> \in R
    /\ \A c, d, e \in S : <<c, d>> \in R /\ <<d, e>> \in R => <<c, e>> \in R
    /\ \A c \in S : rank[c] = Cardinality(Below(S, R, c))

Ladder(S, R, rank) ==
    /\ Cardinality(S) \in Nat
    /\ \A c \in S : rank[c] \in 0 .. Cardinality(S) - 1
    /\ \A c, d \in S : <<c, d>> \in R <=> rank[c] < rank[d]
    /\ \A c, d \in S : rank[c] = rank[d] => c = d
    /\ \A k \in 0 .. Cardinality(S) - 1 : \E c \in S : rank[c] = k

\* The members of a finite set have, in a strict order R of them, one each of the ranks.
LEMMA Ranks ==
    ASSUME NEW S, NEW R, NEW rank, Ranked(S, R, rank)
    PROVE  Ladder(S, R, rank)
<1> DEFINE n == Cardinality(S)
           Less(c) == Below(S, R, c)
<1>0. /\ IsFiniteSet(S)
      /\ \A c \in S : <<c, c>> \notin R
      /\ \A c, d \in S : c # d => <<c, d>> \in R \/ <<d, c>> \in R
      /\ \A c, d, e \in S : <<c, d>> \in R /\ <<d, e>> \in R => <<c, e>> \in R
      /\ \A c \in S : rank[c] = Cardinality(Below(S, R, c))
  BY DEF Ranked
<1>1. n \in Nat
  BY <1>0, FS_CardinalityType
<1>2. \A c \in S : /\ IsFiniteSet(Less(c)) /\ Cardinality(Less(c)) \in Nat
                   /\ rank[c] = Cardinality(Less(c))
  <2>1. \A c \in S : Less(c) \in SUBSET S
    BY DEF Below
  <2> QED BY <1>0, <2>1, FS_Subset, FS_CardinalityType
<1>3. ASSUME NEW c \in S, NEW d \in S, <<c, d>> \in R PROVE rank[c] < rank[d]
  <2>1. Less(c) \subseteq Less(d) /\ c \in Less(d) /\ c \notin Less(c)
    BY <1>0, <1>3 DEF Below
  <2>2. Less(c) # Less(d) /\ Less(c) \in SUBSET Less(d)
    BY <2>1
  <2> HIDE DEF Less
  <2>3. Cardinality(Less(c)) <= Cardinality(Less(d)) /\ Cardinality(Less(c)) # Cardinality(Less(d))
    BY <1>2, <2>2, FS_Subset
  <2> QED BY <1>2, <2>3
<1>4. ASSUME NEW c \in S PROVE rank[c] \in 0 .. n - 1
  <2>1. Less(c) \in SUBSET S /\ Less(c) # S
    BY <1>0 DEF Below
  <2> HIDE DEF Less
  <2>2. Cardinality(Less(c)) <= n /\ Cardinality(Less(c)) # n
    BY <1>0, <2>1, FS_Subset
  <2> QED BY <1>1, <1>2, <2>2
<1>5. \A c, d \in S : <<c, d>> \in R <=> rank[c] < rank[d]
  <2> TAKE c, d \in S
  <2>1. rank[c] \in Int /\ rank[d] \in Int
    BY <1>4
  <2>2. CASE c = d
    BY <1>0, <2>1, <2>2
  <2>3. CASE <<c, d>> \in R
    BY <1>3, <2>3
  <2>4. CASE <<d, c>> \in R
    <3>1. rank[d] < rank[c] /\ <<c, d>> \notin R
      BY <1>0, <1>3, <2>4
    <3> QED BY <2>1, <3>1
  <2> QED BY <1>0, <2>2, <2>3, <2>4
<1>6. \A c, d \in S : rank[c] = rank[d] => c = d
  <2> SUFFICES ASSUME NEW c \in S, NEW d \in S, rank[c] = rank[d], c # d PROVE FALSE
    OBVIOUS
  <2>1. rank[c] \in Int /\ rank[d] \in Int
    BY <1>4
  <2>2. rank[c] < rank[d] \/ rank[d] < rank[c]
    BY <1>0, <1>3
  <2> QED BY <2>1, <2>2
<1>7. ASSUME NEW k \in 0 .. n - 1 PROVE \E c \in S : rank[c] = k
  <2> DEFINE g == [c \in S |-> rank[c]]
             T == 0 .. n - 1
  <2>1. g \in Injection(S, T)
    BY <1>4, <1>6 DEF Injection, IsInjective
  <2>2. IsFiniteSet(T) /\ Cardinality(T) = n
    BY <1>1, FS_Interval
  <2> HIDE DEF g, T
  <2>3. g \in Surjection(S, T)
    BY <2>1, <2>2, FS_Injection
  <2>4. \E c \in S : g[c] = k
    BY <2>3 DEF Surjection, T
  <2> QED BY <2>4 DEF g
<1> QED BY <1>1, <1>4, <1>5, <1>6, <1>7 DEF Ladder

\* The positions of rows have one each of the places among them.
LEMMA Places ==
    ASSUME NEW S, IsFiniteSet(S), S \subseteq Nat
    PROVE  /\ Cardinality(S) \in Nat
           /\ \A i \in S : Earlier(i, S) \in 0 .. Cardinality(S) - 1
           /\ \A i, j \in S : i < j <=> Earlier(i, S) < Earlier(j, S)
           /\ \A i, j \in S : Earlier(i, S) = Earlier(j, S) => i = j
           /\ \A k \in 0 .. Cardinality(S) - 1 : \E i \in S : Earlier(i, S) = k
<1>1. PICK before : before = {p \in Nat \X Nat : p[1] < p[2]}
  OBVIOUS
<1>2. \A i, j \in S : <<i, j>> \in before <=> i < j
  BY <1>1
<1>3. PICK rank : rank = [i \in S |-> Cardinality(Below(S, before, i))]
  OBVIOUS
<1>4. \A i \in S : rank[i] = Cardinality(Below(S, before, i))
  BY <1>3
<1>5. \A i \in S : Earlier(i, S) = rank[i]
  <2> TAKE i \in S
  <2>1. {j \in S : j < i} = Below(S, before, i)
    BY <1>2 DEF Below
  <2> QED BY <1>4, <2>1 DEF Earlier
<1>6. Ranked(S, before, rank)
  BY <1>2, <1>4 DEF Ranked
<1>7. /\ Cardinality(S) \in Nat
      /\ \A c \in S : rank[c] \in 0 .. Cardinality(S) - 1
      /\ \A c, d \in S : <<c, d>> \in before <=> rank[c] < rank[d]
      /\ \A c, d \in S : rank[c] = rank[d] => c = d
      /\ \A k \in 0 .. Cardinality(S) - 1 : \E c \in S : rank[c] = k
  <2>1. Ladder(S, before, rank)
    BY <1>6, Ranks
  <2> QED BY <2>1 DEF Ladder
<1>8. \A i, j \in S : i < j <=> Earlier(i, S) < Earlier(j, S)
  <2> TAKE i, j \in S
  <2>1. Earlier(i, S) = rank[i] /\ Earlier(j, S) = rank[j]
    BY <1>5
  <2>2. <<i, j>> \in before <=> rank[i] < rank[j]
    BY <1>7
  <2>3. <<i, j>> \in before <=> i < j
    BY <1>2
  <2>4. rank[i] < rank[j] <=> Earlier(i, S) < Earlier(j, S)
    BY <2>1
  <2> QED BY <2>2, <2>3, <2>4
<1>9. \A i, j \in S : Earlier(i, S) = Earlier(j, S) => i = j
  BY <1>5, <1>7
<1>10. \A k \in 0 .. Cardinality(S) - 1 : \E i \in S : Earlier(i, S) = k
  BY <1>5, <1>7
<1>11. \A i \in S : Earlier(i, S) \in 0 .. Cardinality(S) - 1
  BY <1>5, <1>7
<1> QED BY <1>7, <1>8, <1>9, <1>10, <1>11

\* projectLogicalEvents goes through the rows that open an event one by one.
LEMMA Openings ==
    ASSUME NEW S, IsFiniteSet(S), S \subseteq Nat
    PROVE  /\ \A k \in 1 .. Cardinality(S) : /\ Opening(S, k) \in S
                                             /\ Earlier(Opening(S, k), S) = k - 1
           /\ \A i \in S : /\ Earlier(i, S) + 1 \in 1 .. Cardinality(S)
                           /\ Opening(S, Earlier(i, S) + 1) = i
           /\ \A j, k \in 1 .. Cardinality(S) : j < k <=> Opening(S, j) < Opening(S, k)
<1> DEFINE n == Cardinality(S)
<1>0. /\ n \in Nat
      /\ \A i \in S : Earlier(i, S) \in 0 .. n - 1
      /\ \A i, j \in S : i < j <=> Earlier(i, S) < Earlier(j, S)
      /\ \A i, j \in S : Earlier(i, S) = Earlier(j, S) => i = j
      /\ \A k \in 0 .. n - 1 : \E i \in S : Earlier(i, S) = k
  BY Places
<1> HIDE DEF n
<1>1. ASSUME NEW k \in 1 .. n
      PROVE  Opening(S, k) \in S /\ Earlier(Opening(S, k), S) = k - 1
  <2>1. k - 1 \in 0 .. n - 1
    BY <1>0
  <2>2. \E i \in S : Earlier(i, S) = k - 1
    BY <1>0, <2>1
  <2> QED BY <2>2 DEF Opening
<1>2. ASSUME NEW i \in S
      PROVE  Earlier(i, S) + 1 \in 1 .. n /\ Opening(S, Earlier(i, S) + 1) = i
  <2>1. PICK k : k = Earlier(i, S) + 1
    OBVIOUS
  <2>2. k \in 1 .. n /\ k - 1 = Earlier(i, S)
    BY <1>0, <2>1
  <2>3. Opening(S, k) \in S /\ Earlier(Opening(S, k), S) = Earlier(i, S)
    BY <1>1, <2>2
  <2>4. Opening(S, k) = i
    BY <1>0, <2>3
  <2> QED BY <2>1, <2>2, <2>4
<1>3. ASSUME NEW j \in 1 .. n, NEW k \in 1 .. n
      PROVE  j < k <=> Opening(S, j) < Opening(S, k)
  <2>1. /\ Opening(S, j) \in S /\ Earlier(Opening(S, j), S) = j - 1
        /\ Opening(S, k) \in S /\ Earlier(Opening(S, k), S) = k - 1
    BY <1>1
  <2>2. Opening(S, j) < Opening(S, k) <=>
           Earlier(Opening(S, j), S) < Earlier(Opening(S, k), S)
    BY <1>0, <2>1
  <2>3. j \in Int /\ k \in Int
    BY <1>0
  <2>4. Earlier(Opening(S, j), S) = j - 1 /\ Earlier(Opening(S, k), S) = k - 1
    BY <2>1
  <2> QED BY <2>2, <2>3, <2>4
<1> QED BY <1>1, <1>2, <1>3 DEF n

\* Event ids are in one order.
LEMMA IdOrder ==
    ASSUME NEW i \in Nat \ {0}, NEW j \in Nat \ {0}, NEW k \in Nat \ {0}
    PROVE  /\ ~IdLess(i, i)
           /\ i # j => IdLess(i, j) \/ IdLess(j, i)
           /\ IdLess(i, j) /\ IdLess(j, k) => IdLess(i, k)
<1> DEFINE Tens(n) == IF n < 10 THEN n ELSE n \div 10
           Ones(n) == IF n < 10 THEN -1 ELSE n % 10
<1>1. \A n \in Nat : /\ Digits(n)[1] = Tens(n) /\ Digits(n)[2] = Ones(n)
                     /\ Tens(n) \in Int /\ Ones(n) \in Int
  BY DEF Digits
<1>2. \A m, n \in Nat : Tens(m) = Tens(n) /\ Ones(m) = Ones(n) => m = n
  OBVIOUS
<1> HIDE DEF Tens, Ones
<1>3. \A m, n \in Nat \ {0} : IdLess(m, n) <=>
         \/ Tens(m - 1) < Tens(n - 1)
         \/ Tens(m - 1) = Tens(n - 1) /\ Ones(m - 1) < Ones(n - 1)
  BY <1>1 DEF IdLess
<1>4. \A n \in Nat \ {0} : n - 1 \in Nat
  OBVIOUS
<1>5. i # j => IdLess(i, j) \/ IdLess(j, i)
  <2>1. Tens(i - 1) = Tens(j - 1) /\ Ones(i - 1) = Ones(j - 1) => i - 1 = j - 1
    BY <1>2, <1>4
  <2> QED BY <1>1, <1>3, <1>4, <2>1
<1> QED BY <1>1, <1>3, <1>4, <1>5

\* How many of some completions come before one of them by id.
IdsBefore(c, S) == Cardinality({d \in S : IdLess(d, c)})

LEMMA IdPlaces ==
    ASSUME NEW S, IsFiniteSet(S), S \subseteq Nat \ {0}
    PROVE  /\ \A c \in S : IdsBefore(c, S) \in 0 .. Cardinality(S) - 1
           /\ \A c, d \in S : IdsBefore(c, S) = IdsBefore(d, S) => c = d
           /\ \A k \in 0 .. Cardinality(S) - 1 : \E c \in S : IdsBefore(c, S) = k
<1>1. PICK before : before = {p \in (Nat \ {0}) \X (Nat \ {0}) : IdLess(p[1], p[2])}
  OBVIOUS
<1>2. \A c, d \in S : <<c, d>> \in before <=> IdLess(c, d)
  BY <1>1
<1>3. PICK rank : rank = [c \in S |-> Cardinality(Below(S, before, c))]
  OBVIOUS
<1>4. \A c \in S : rank[c] = Cardinality(Below(S, before, c))
  BY <1>3
<1>5. \A c \in S : IdsBefore(c, S) = rank[c]
  <2> TAKE c \in S
  <2>1. {d \in S : IdLess(d, c)} = Below(S, before, c)
    BY <1>2 DEF Below
  <2> QED BY <1>4, <2>1 DEF IdsBefore
<1>6. Ranked(S, before, rank)
  <2>1. \A c \in S : ~IdLess(c, c)
    BY IdOrder
  <2>2. \A c, d \in S : c # d => IdLess(c, d) \/ IdLess(d, c)
    BY IdOrder
  <2>3. \A c, d, e \in S : IdLess(c, d) /\ IdLess(d, e) => IdLess(c, e)
    BY IdOrder
  <2> QED BY <1>2, <1>4, <2>1, <2>2, <2>3 DEF Ranked
<1>7. Ladder(S, before, rank)
  BY <1>6, Ranks
<1>8. \A c \in S : IdsBefore(c, S) \in 0 .. Cardinality(S) - 1
  BY <1>5, <1>7 DEF Ladder
<1>9. \A c, d \in S : IdsBefore(c, S) = IdsBefore(d, S) => c = d
  BY <1>5, <1>7 DEF Ladder
<1>10. \A k \in 0 .. Cardinality(S) - 1 : \E c \in S : IdsBefore(c, S) = k
  BY <1>5, <1>7 DEF Ladder
<1> QED BY <1>8, <1>9, <1>10

\* Rows of which each is there as often as any other, if at all: those of a file, or of a
\* file delivered again.
Even(rows, copies) ==
    /\ \E n \in Nat : DOMAIN rows = 1 .. n
    /\ \A i \in DOMAIN rows : rows[i].event \in {"started", "completed"}
    /\ \A event, x : RowsOf(rows, event, x) # {} =>
                        Cardinality(RowsOf(rows, event, x)) = copies

LEMMA RowsOfFinite ==
    ASSUME NEW rows, NEW copies, Even(rows, copies)
    PROVE  /\ DOMAIN rows \subseteq Nat \ {0}
           /\ \A S \in SUBSET DOMAIN rows : IsFiniteSet(S) /\ S \subseteq Nat \ {0}
           /\ \A event, x : RowsOf(rows, event, x) \in SUBSET DOMAIN rows
<1>1. PICK n \in Nat : DOMAIN rows = 1 .. n
  BY DEF Even
<1>2. IsFiniteSet(1 .. n)
  BY FS_Interval
<1>3. \A event, x : RowsOf(rows, event, x) \in SUBSET DOMAIN rows
  BY DEF RowsOf
<1> QED BY <1>1, <1>2, <1>3, FS_Subset

\* A start takes one completion when its call has any, and every completion of a call that has
\* a start is taken.
LEMMA MatchIs ==
    ASSUME NEW rows, NEW copies, Even(rows, copies)
    PROVE  /\ \A i \in DOMAIN rows :
                 IF rows[i].event = "started" /\ RowsOf(rows, "completed", rows[i].of) # {}
                   THEN \E c \in RowsOf(rows, "completed", rows[i].of) : Match(rows, i) = {c}
                   ELSE Match(rows, i) = {}
           /\ \A c \in DOMAIN rows :
                 c \in Absorbed(rows) <=> /\ rows[c].event = "completed"
                                          /\ RowsOf(rows, "started", rows[c].of) # {}
<1> DEFINE C(x) == RowsOf(rows, "completed", x)
           S(x) == RowsOf(rows, "started", x)
<1>1. \A i \in DOMAIN rows : Match(rows, i) =
         IF rows[i].event # "started" THEN {}
         ELSE {c \in C(rows[i].of) :
                  IdsBefore(c, C(rows[i].of)) = Earlier(i, S(rows[i].of))}
  BY DEF Match, IdsBefore
<1>2. \A i \in DOMAIN rows : /\ rows[i].event = "started" => i \in S(rows[i].of)
                             /\ rows[i].event = "completed" => i \in C(rows[i].of)
  BY DEF RowsOf
<1>3. \A x : /\ IsFiniteSet(C(x)) /\ C(x) \subseteq Nat \ {0}
             /\ IsFiniteSet(S(x)) /\ S(x) \subseteq Nat
  BY RowsOfFinite
<1>4. \A x : C(x) # {} /\ S(x) # {} => Cardinality(C(x)) = Cardinality(S(x))
  BY DEF Even
<1>5. \A x : \A i \in DOMAIN rows : i \in C(x) \cup S(x) => rows[i].of = x
  BY DEF RowsOf
<1> HIDE DEF C, S
<1>6. ASSUME NEW i \in DOMAIN rows, rows[i].event = "started", C(rows[i].of) # {}
      PROVE  \E c \in C(rows[i].of) : Match(rows, i) = {c}
  <2>1. PICK x : x = rows[i].of
    OBVIOUS
  <2>2. i \in S(x) /\ C(x) # {} /\ Cardinality(C(x)) = Cardinality(S(x))
    BY <1>2, <1>4, <1>6, <2>1
  <2>3. Earlier(i, S(x)) \in 0 .. Cardinality(S(x)) - 1
    BY <1>3, <2>2, Places
  <2>4. PICK c \in C(x) : IdsBefore(c, C(x)) = Earlier(i, S(x))
    BY <1>3, <2>2, <2>3, IdPlaces
  <2>5. \A d \in C(x) : IdsBefore(d, C(x)) = Earlier(i, S(x)) <=> d = c
    BY <1>3, <2>4, IdPlaces
  <2>6. Match(rows, i) = {d \in C(x) : IdsBefore(d, C(x)) = Earlier(i, S(x))}
    BY <1>1, <1>6, <2>1
  <2>7. Match(rows, i) = {c}
    BY <2>4, <2>5, <2>6
  <2> QED BY <2>1, <2>4, <2>7
<1>7. ASSUME NEW i \in DOMAIN rows, ~(rows[i].event = "started" /\ C(rows[i].of) # {})
      PROVE  Match(rows, i) = {}
  BY <1>1, <1>7
<1>8. ASSUME NEW c \in DOMAIN rows, rows[c].event = "completed", S(rows[c].of) # {}
      PROVE  c \in Absorbed(rows)
  <2>1. PICK x : x = rows[c].of
    OBVIOUS
  <2>2. c \in C(x) /\ S(x) # {} /\ Cardinality(C(x)) = Cardinality(S(x))
    BY <1>2, <1>4, <1>8, <2>1
  <2>3. IdsBefore(c, C(x)) \in 0 .. Cardinality(S(x)) - 1
    BY <1>3, <2>2, IdPlaces
  <2>4. PICK i \in S(x) : Earlier(i, S(x)) = IdsBefore(c, C(x))
    BY <1>3, <2>3, Places
  <2>5. i \in DOMAIN rows /\ rows[i].of = x /\ rows[i].event = "started"
    BY <2>4 DEF S, RowsOf
  <2>6. c \in Match(rows, i)
    BY <1>1, <2>2, <2>4, <2>5
  <2> QED BY <2>5, <2>6 DEF Absorbed
<1>9. ASSUME NEW c \in DOMAIN rows, c \in Absorbed(rows)
      PROVE  rows[c].event = "completed" /\ S(rows[c].of) # {}
  <2>1. PICK i \in DOMAIN rows : c \in Match(rows, i)
    BY <1>9 DEF Absorbed
  <2>2. rows[i].event = "started" /\ c \in C(rows[i].of)
    BY <1>1, <2>1
  <2>3. rows[c].of = rows[i].of /\ rows[c].event = "completed"
    BY <2>2 DEF C, RowsOf
  <2>4. i \in S(rows[i].of)
    BY <1>2, <2>2
  <2> QED BY <2>3, <2>4
<1> QED BY <1>6, <1>7, <1>8, <1>9 DEF C, S

LEMMA Pair ==
    ASSUME NEW i \in Nat, NEW c \in Nat
    PROVE  <<i>> \o <<c>> = <<i, c>>
<1>1. <<i>> \in Seq(Nat) /\ <<c>> \in Seq(Nat) /\ <<i, c>> \in Seq(Nat)
  OBVIOUS
<1>2. PICK s : s = <<i>> \o <<c>>
  OBVIOUS
<1>3. s \in Seq(Nat) /\ Len(s) = 2 /\ s[1] = i /\ s[2] = c
  BY <1>1, <1>2, ConcatProperties
<1>4. Len(<<i, c>>) = 2 /\ <<i, c>>[1] = i /\ <<i, c>>[2] = c
  OBVIOUS
<1>5. \A k \in 1 .. Len(s) : s[k] = <<i, c>>[k]
  BY <1>3, <1>4
<1> QED BY <1>1, <1>2, <1>3, <1>4, <1>5, SeqEqual

\* The logical event that the row at i opens.
Event(rows, i) == [LogicalEvent(rows, i, Match(rows, i)) EXCEPT !.parent = ParentOf(rows, i)]

LEMMA KeptIs ==
    ASSUME NEW rows, NEW copies, Even(rows, copies)
    PROVE  /\ IsFiniteSet(Kept(rows)) /\ Kept(rows) \subseteq Nat
           /\ Kept(rows) = {i \in DOMAIN rows :
                              \/ rows[i].event = "started"
                              \/ RowsOf(rows, "started", rows[i].of) = {}}
<1>1. Kept(rows) \in SUBSET DOMAIN rows
  BY DEF Kept
<1>2. \A i \in DOMAIN rows : rows[i].event \in {"started", "completed"}
  BY DEF Even
<1>3. \A i \in DOMAIN rows : i \in Absorbed(rows) <=>
         rows[i].event = "completed" /\ RowsOf(rows, "started", rows[i].of) # {}
  BY MatchIs
<1>4. \A i \in DOMAIN rows : i \in Kept(rows) <=>
         rows[i].event = "started" \/ RowsOf(rows, "started", rows[i].of) = {}
  BY <1>2, <1>3 DEF Kept
<1> QED BY <1>1, <1>4, RowsOfFinite

LEMMA LogicalIs ==
    ASSUME NEW rows, NEW copies, Even(rows, copies)
    PROVE  /\ DOMAIN Logical(rows) = 1 .. Cardinality(Kept(rows))
           /\ Cardinality(Kept(rows)) \in Nat
           /\ Len(Logical(rows)) = Cardinality(Kept(rows))
           /\ \A k \in DOMAIN Logical(rows) :
                 /\ Opening(Kept(rows), k) \in Kept(rows)
                 /\ Earlier(Opening(Kept(rows), k), Kept(rows)) = k - 1
                 /\ Logical(rows)[k] = Event(rows, Opening(Kept(rows), k))
           /\ \A i \in Kept(rows) :
                 /\ Earlier(i, Kept(rows)) + 1 \in DOMAIN Logical(rows)
                 /\ Logical(rows)[Earlier(i, Kept(rows)) + 1] = Event(rows, i)
<1> DEFINE kept == Kept(rows)
           n == Cardinality(kept)
           At(k) == Opening(kept, k)
<1>1. IsFiniteSet(kept) /\ kept \subseteq Nat /\ n \in Nat
  BY KeptIs, Places
<1>2. Logical(rows) = [k \in 1 .. n |-> Event(rows, At(k))]
  BY DEF Logical, Event
<1> HIDE DEF kept, n
<1>3. DOMAIN Logical(rows) = 1 .. n /\ Len(Logical(rows)) = n
  BY <1>1, <1>2
<1>4. \A k \in 1 .. n : At(k) \in kept /\ Earlier(At(k), kept) = k - 1
  BY <1>1, Openings DEF n
<1>5. \A i \in kept : Earlier(i, kept) + 1 \in 1 .. n /\ At(Earlier(i, kept) + 1) = i
  BY <1>1, Openings DEF n
<1> HIDE DEF At
<1>6. \A k \in 1 .. n : Logical(rows)[k] = Event(rows, At(k))
  BY <1>2
<1>7. \A i \in kept : Logical(rows)[Earlier(i, kept) + 1] = Event(rows, i)
  BY <1>5, <1>6
<1> QED BY <1>1, <1>3, <1>4, <1>5, <1>6, <1>7 DEF kept, n, At

\* The event of a start that is alone, of one with a completion, and of a completion.
LEMMA EventIs ==
    ASSUME NEW rows, NEW copies, Even(rows, copies), NEW i \in DOMAIN rows, NEW e, e = Event(rows, i)
    PROVE  LET x == rows[i].of IN
           /\ e.id = <<rows[i].event, x, i - 1>>
           /\ e.parent = ParentOf(rows, i)
           /\ rows[i].event = "started" =>
                 /\ e.kind = IF x \in Runs THEN "RUN" ELSE "TOOL"
                 /\ e.name = x /\ e.startedAt = rows[i].at
                 /\ e.sources[1] = i
                 /\ RowsOf(rows, "completed", x) = {} =>
                       /\ e.status = "running" /\ e.endedAt = None
                       /\ e.timestamp = rows[i].at /\ e.sources = <<i>>
                 /\ RowsOf(rows, "completed", x) # {} =>
                       \E c \in RowsOf(rows, "completed", x) :
                          /\ e.status = IF rows[c].ok THEN "ok" ELSE "error"
                          /\ e.endedAt = rows[c].at /\ e.timestamp = rows[c].at
                          /\ e.sources = <<i, c>>
           /\ rows[i].event = "completed" =>
                 /\ e.kind = IF x \in Runs THEN "RUN" ELSE "LOGIC"
                 /\ e.name = None /\ e.startedAt = None /\ e.endedAt = rows[i].at
                 /\ e.timestamp = rows[i].at /\ e.sources = <<i>>
                 /\ e.status = IF rows[i].ok THEN "ok" ELSE "error"
<1> DEFINE x == rows[i].of
           p == PersistedEvent(rows, i)
<1>1. e = [LogicalEvent(rows, i, Match(rows, i)) EXCEPT !.parent = ParentOf(rows, i)]
  BY DEF Event
<1>2. CASE rows[i].event = "completed"
  <2>1. Match(rows, i) = {}
    BY <1>2, MatchIs
  <2>2. e = [p EXCEPT !.parent = ParentOf(rows, i)]
    BY <1>1, <2>1 DEF LogicalEvent
  <2> QED BY <1>2, <2>2 DEF PersistedEvent
<1>3. CASE rows[i].event = "started" /\ RowsOf(rows, "completed", x) = {}
  <2>1. Match(rows, i) = {}
    BY <1>3, MatchIs
  <2>2. e = [p EXCEPT !.parent = ParentOf(rows, i)]
    BY <1>1, <2>1 DEF LogicalEvent
  <2> QED BY <1>3, <2>2 DEF PersistedEvent
<1>4. CASE rows[i].event = "started" /\ RowsOf(rows, "completed", x) # {}
  <2>1. PICK c \in RowsOf(rows, "completed", x) : Match(rows, i) = {c}
    BY <1>4, MatchIs
  <2>2. rows[c].event = "completed" /\ c \in DOMAIN rows
    BY <2>1 DEF RowsOf
  <2>3. PICK q : q = PersistedEvent(rows, c)
    OBVIOUS
  <2>4. e = [PairStartComplete(p, q) EXCEPT !.parent = ParentOf(rows, i)]
    <3>1. (CHOOSE d \in Match(rows, i) : TRUE) = c
      BY <2>1
    <3> QED BY <1>1, <2>1, <2>3, <3>1 DEF LogicalEvent
  <2>5. /\ q.status = (IF rows[c].ok THEN "ok" ELSE "error") /\ q.endedAt = rows[c].at
        /\ q.timestamp = rows[c].at /\ q.sources = <<c>>
    BY <2>2, <2>3 DEF PersistedEvent
  <2>6. /\ p.sources = <<i>> /\ p.name = x /\ p.startedAt = rows[i].at
        /\ p.id = <<rows[i].event, x, i - 1>>
        /\ p.kind = IF x \in Runs THEN "RUN" ELSE "TOOL"
    BY <1>4 DEF PersistedEvent
  <2>7. p.sources \o q.sources = <<i, c>>
    <3>1. i \in Nat /\ c \in Nat
      BY <2>2, RowsOfFinite
    <3>2. <<i>> \o <<c>> = <<i, c>>
      BY <3>1, Pair
    <3> QED BY <2>5, <2>6, <3>2
  <2>8. /\ e.id = p.id /\ e.parent = ParentOf(rows, i) /\ e.kind = p.kind /\ e.name = p.name
        /\ e.startedAt = p.startedAt /\ e.status = q.status /\ e.endedAt = q.endedAt
        /\ e.timestamp = q.timestamp /\ e.sources = p.sources \o q.sources
    BY <2>4 DEF PairStartComplete, PersistedEvent
  <2> QED BY <1>4, <2>1, <2>5, <2>6, <2>7, <2>8
<1> QED BY <1>2, <1>3, <1>4 DEF Even

-----------------------------------------------------------------------------
(* What they make of the file of a run                                      *)

\* A file has each row once.
LEMMA RowOnce ==
    ASSUME Singly, NEW run \in Traced, NEW dir \in Dirs,
           NEW i \in DOMAIN file[run][dir], NEW j \in DOMAIN file[run][dir],
           file[run][dir][i].of \in Calls, file[run][dir][i].event \in {"started", "completed"},
           file[run][dir][i].of = file[run][dir][j].of,
           file[run][dir][i].event = file[run][dir][j].event
    PROVE  i = j
<1>1. PICK x, event : x = file[run][dir][i].of /\ event = file[run][dir][i].event
  OBVIOUS
<1>2. <<run, dir, i>> \in Written(file, x, event) /\ <<run, dir, j>> \in Written(file, x, event)
  BY <1>1, WrittenIs
<1>3. \E copy : Copies(x, event) \subseteq {copy}
  <2>1. \E written \in BOOLEAN : Single(x, event, written)
    BY <1>1 DEF Singly
  <2> QED BY <2>1 DEF Single
<1> QED BY <1>2, <1>3 DEF Copies

\* A row is there of a traced call only, a run's in its own file.
LEMMA RowTraced ==
    ASSUME TypeOK, Nested, Singly, NEW run \in Traced, NEW dir \in Dirs,
           NEW i \in DOMAIN file[run][dir], NEW row, row = file[run][dir][i],
           row \in Rows, Matched(run, row), Told(run, row)
    PROVE  /\ row.of \in Runs => row.of = run
           /\ row.of \in Steps => Outer[row.of] # None
<1>1. PICK x, event : /\ x = row.of /\ event = row.event
                      /\ x \in Calls /\ event \in {"started", "completed"}
  BY DEF Rows
<1>2. Copies(x, event) # {}
  <2>1. <<run, dir, i>> \in Written(file, x, event)
    BY <1>1, WrittenIs
  <2> QED BY <2>1 DEF Copies
<1>3. ~Bare(x)
  <2>1. PICK written \in BOOLEAN : Single(x, event, written) /\ (written => ~Bare(x))
    BY <1>1 DEF Singly
  <2> QED BY <1>2, <2>1 DEF Single
<1>4. pc[x] \in Begun /\ RunOf(x) = run
  BY <1>1 DEF Matched, Told
<1>5. x \in Runs => x = run
  <2>1. x \in Runs => x \in Traced
    BY <1>3 DEF Bare, Traced
  <2>2. x \in Traced => store[x] = [run |-> x, step |-> None]
    BY <1>1, <1>4 DEF Nested, Begun
  <2> QED BY <1>4, <2>1, <2>2 DEF RunOf
<1>6. x \in Steps => Outer[x] # None
  BY <1>3 DEF Bare, Context
<1> QED BY <1>1, <1>5, <1>6

\* A call's rows tell of it, and its start comes first, after that of the step it names.
LEMMA FileIs ==
    ASSUME IInv, NEW run \in Traced, NEW dir \in Dirs, NEW rows, rows = Read(run, dir)
    PROVE  /\ Even(rows, 1)
           /\ \A event, x : x \in InFile(run, dir, event) <=> RowsOf(rows, event, x) # {}
           /\ \A i \in DOMAIN rows :
                 /\ rows[i].of \in Calls /\ rows[i].parent \in Steps \cup {None}
                 /\ rows[i].event \in {"started", "completed"} /\ rows[i].ok \in BOOLEAN
                 /\ Matched(run, rows[i]) /\ Told(run, rows[i])
                 /\ rows[i].of \in Runs => rows[i].of = run
                 /\ rows[i].of \in Steps => Outer[rows[i].of] # None
                 /\ rows[i].at = IF rows[i].event = "started" THEN calledAt[rows[i].of]
                                                              ELSE settledAt[rows[i].of]
           /\ \A i, j \in DOMAIN rows :
                 /\ rows[i].event = rows[j].event /\ rows[i].of = rows[j].of => i = j
                 /\ (rows[i].of = rows[j].of /\ rows[i].event = "started"
                       /\ rows[j].event = "completed") => i < j
                 /\ (rows[i].event = "started" /\ rows[j].event = "started"
                       /\ rows[i].of = rows[j].parent) => i < j
<1> DEFINE f == file[run][dir]
<1>1. f \in Seq(Rows)
  BY DEF IInv, TypeOK
<1>2. DOMAIN rows = DOMAIN f /\ \A i \in DOMAIN f : rows[i] = TimedRow(f[i])
  BY DEF Read
<1>3. \A i \in DOMAIN f : /\ f[i] \in Rows /\ Matched(run, f[i]) /\ Told(run, f[i])
  BY <1>1 DEF IInv, RowsMatch, Matched, RowsTell, Told
<1>4. \A i \in DOMAIN f :
         /\ rows[i].event = f[i].event /\ rows[i].of = f[i].of /\ rows[i].ok = f[i].ok
         /\ rows[i].parent = f[i].parent
         /\ rows[i].at = IF f[i].event = "started" THEN calledAt[f[i].of] ELSE settledAt[f[i].of]
  <2> TAKE i \in DOMAIN f
  <2>1. PICK row : row = f[i]
    OBVIOUS
  <2>2. rows[i] = TimedRow(row)
    BY <1>2, <2>1
  <2>3. /\ TimedRow(row).event = row.event /\ TimedRow(row).of = row.of
        /\ TimedRow(row).ok = row.ok /\ TimedRow(row).parent = row.parent
        /\ TimedRow(row).at = IF row.event = "started" THEN calledAt[row.of] ELSE settledAt[row.of]
    BY DEF TimedRow
  <2> HIDE DEF f
  <2> QED BY <2>1, <2>2, <2>3
<1>5. \A i \in DOMAIN rows :
         /\ rows[i].of \in Calls /\ rows[i].parent \in Steps \cup {None}
         /\ rows[i].event \in {"started", "completed"} /\ rows[i].ok \in BOOLEAN
         /\ Matched(run, rows[i]) /\ Told(run, rows[i])
         /\ rows[i].of \in Runs => rows[i].of = run
         /\ rows[i].of \in Steps => Outer[rows[i].of] # None
         /\ rows[i].at = IF rows[i].event = "started" THEN calledAt[rows[i].of]
                                                      ELSE settledAt[rows[i].of]
  <2> TAKE i \in DOMAIN rows
  <2>1. f[i] \in Rows /\ Matched(run, f[i]) /\ Told(run, f[i])
    BY <1>2, <1>3
  <2>2. /\ rows[i].event = f[i].event /\ rows[i].of = f[i].of /\ rows[i].ok = f[i].ok
        /\ rows[i].parent = f[i].parent
    BY <1>2, <1>4
  <2>3. Matched(run, rows[i]) /\ Told(run, rows[i])
    BY <2>1, <2>2 DEF Matched, Told
  <2>4. /\ f[i].of \in Runs => f[i].of = run
        /\ f[i].of \in Steps => Outer[f[i].of] # None
    BY <1>2, <2>1, RowTraced DEF IInv
  <2> QED BY <1>2, <1>4, <2>1, <2>2, <2>3, <2>4 DEF Rows
<1>6. \A i, j \in DOMAIN rows : rows[i].event = rows[j].event /\ rows[i].of = rows[j].of => i = j
  <2> SUFFICES ASSUME NEW i \in DOMAIN rows, NEW j \in DOMAIN rows,
                      rows[i].event = rows[j].event, rows[i].of = rows[j].of
               PROVE  i = j
    OBVIOUS
  <2>1. f[i].event = f[j].event /\ f[i].of = f[j].of /\ i \in DOMAIN f /\ j \in DOMAIN f
    BY <1>2, <1>4
  <2>2. f[i].of \in Calls /\ f[i].event \in {"started", "completed"}
    BY <1>3, <2>1 DEF Rows
  <2> QED BY <2>1, <2>2, RowOnce DEF IInv
<1>7. \A i, j \in DOMAIN rows :
         /\ (rows[i].of = rows[j].of /\ rows[i].event = "started"
               /\ rows[j].event = "completed") => i < j
         /\ (rows[i].event = "started" /\ rows[j].event = "started"
               /\ rows[i].of = rows[j].parent) => i < j
  <2>1. InOrder(f)
    BY DEF IInv, RowsInOrder
  <2>2. \A i, j \in DOMAIN f :
           /\ (f[i].of = f[j].of /\ f[i].event = "started" /\ f[j].event = "completed") => i < j
           /\ (f[i].event = "started" /\ f[j].event = "started" /\ f[i].of = f[j].parent) => i < j
    BY <2>1 DEF InOrder
  <2> HIDE DEF f
  <2> QED BY <1>2, <1>4, <2>2
<1>8. Even(rows, 1)
  <2>1. \E n \in Nat : DOMAIN rows = 1 .. n
    BY <1>1, <1>2
  <2>2. ASSUME NEW event, NEW x, RowsOf(rows, event, x) # {}
        PROVE  Cardinality(RowsOf(rows, event, x)) = 1
    <3>1. PICK i : i \in RowsOf(rows, event, x)
      BY <2>2
    <3>2. RowsOf(rows, event, x) = {i}
      BY <1>6, <3>1 DEF RowsOf
    <3> QED BY <3>2, FS_Singleton
  <2> QED BY <1>5, <2>1, <2>2 DEF Even
<1>9. ASSUME NEW event, NEW x PROVE x \in InFile(run, dir, event) <=> RowsOf(rows, event, x) # {}
  <2>1. x \in InFile(run, dir, event) <=> \E i \in DOMAIN f : f[i].event = event /\ f[i].of = x
    BY DEF InFile
  <2>2. RowsOf(rows, event, x) # {} <=> \E i \in DOMAIN f : f[i].event = event /\ f[i].of = x
    BY <1>2, <1>4 DEF RowsOf
  <2> QED BY <2>1, <2>2
<1> QED BY <1>5, <1>6, <1>7, <1>8, <1>9

\* A file whose run's start is in it says ok only of a run that returned.
LEMMA StatusIs ==
    ASSUME IInv, NEW run \in Traced, NEW dir \in Dirs, NEW rows, rows = Read(run, dir),
           run \in InFile(run, dir, "started"), RunStatus(rows) = "ok"
    PROVE  run \notin failed
<1> DEFINE all == {PersistedEvent(rows, i) : i \in DOMAIN rows}
           ofRun == {e \in all : e.kind = "RUN"}
           terminal == {e \in ofRun : e.status # "running"}
           After(e, g) == \/ g.timestamp < e.timestamp
                          \/ g.timestamp = e.timestamp /\ g.sources[1] <= e.sources[1]
           last == {e \in terminal : \A g \in terminal : After(e, g)}
<1>1. \A i \in DOMAIN rows : /\ rows[i].event \in {"started", "completed"}
                             /\ Told(run, rows[i]) /\ rows[i].of \in Calls
  BY FileIs
<1>2. PICK i \in DOMAIN rows : rows[i].event = "started" /\ rows[i].of = run
  BY FileIs DEF RowsOf
<1>3. ofRun # {}
  <2>1. PersistedEvent(rows, i).kind = "RUN"
    BY <1>2 DEF PersistedEvent, Traced
  <2> QED BY <2>1
<1> HIDE DEF After
<1>4. last # {}
  <2> SUFFICES ASSUME last = {} PROVE FALSE
    OBVIOUS
  <2>1. RunStatus(rows) = "running"
    BY <1>3 DEF RunStatus, After
  <2> QED BY <2>1
<1>5. \E e \in last : e.status = "ok"
  <2>1. RunStatus(rows) = (CHOOSE e \in last : TRUE).status
    BY <1>4 DEF RunStatus, After
  <2> QED BY <1>4, <2>1
<1>6. PICK j \in DOMAIN rows : PersistedEvent(rows, j).kind = "RUN"
                               /\ PersistedEvent(rows, j).status = "ok"
  BY <1>5
<1>7. rows[j].event = "completed" /\ rows[j].ok /\ rows[j].of \in Runs
  BY <1>1, <1>6 DEF PersistedEvent
<1>8. rows[j].of = run
  BY <1>7, FileIs
<1> QED BY <1>1, <1>7, <1>8 DEF Told

LEMMA PassSettled == IInv => PassMeansSettled
<1> SUFFICES ASSUME IInv, NEW run \in Traced, NEW dir \in Dirs,
                    NEW rows, rows = Read(run, dir),
                    NEW status, status = RunStatus(rows), NEW events, events = Logical(rows),
                    TraceChecks({RunStatusRule(status, events), OrphanRule(events),
                                 RequireCompletedRule(status, events)}) = "pass",
                    run \in InFile(run, dir, "started")
             PROVE  /\ run \notin failed
                    /\ \A x \in InFile(run, dir, "started") :
                          /\ pc[x] = "settled"
                          /\ x \in Steps => store[Outer[x]].step \in
                                {None} \cup InFile(run, dir, "completed")
  BY DEF PassMeansSettled
<1>1. /\ status = "ok" /\ Running(events) = {}
      /\ \A k \in DOMAIN events :
            events[k].parent \in {events[j].id : j \in DOMAIN events} \cup {None}
  <2>1. /\ RunStatusRule(status, events) # "fail" /\ OrphanRule(events) # "fail"
    BY DEF TraceChecks
  <2> QED BY <2>1 DEF RunStatusRule, OrphanRule, Reported
<1>2. Even(rows, 1)
  BY FileIs
<1>3. \A i \in DOMAIN rows : rows[i].event = "started" =>
         /\ i \in Kept(rows) /\ Earlier(i, Kept(rows)) + 1 \in DOMAIN events
         /\ events[Earlier(i, Kept(rows)) + 1] = Event(rows, i)
  BY <1>2, KeptIs, LogicalIs
<1>4. ASSUME NEW i \in DOMAIN rows, rows[i].event = "started"
      PROVE  RowsOf(rows, "completed", rows[i].of) # {}
  <2> SUFFICES ASSUME RowsOf(rows, "completed", rows[i].of) = {} PROVE FALSE
    OBVIOUS
  <2>1. PICK k \in DOMAIN events : events[k] = Event(rows, i)
    BY <1>3, <1>4
  <2>2. events[k].status = "running"
    BY <1>2, <1>4, <2>1, EventIs
  <2> QED BY <1>1, <2>2 DEF Running
<1>5. ASSUME NEW x \in InFile(run, dir, "started")
      PROVE  /\ pc[x] = "settled" /\ x \in InFile(run, dir, "completed")
             /\ \E i \in DOMAIN rows : rows[i].event = "started" /\ rows[i].of = x
  <2>1. PICK i \in DOMAIN rows : rows[i].event = "started" /\ rows[i].of = x
    BY <1>5, FileIs DEF RowsOf
  <2>2. PICK c \in DOMAIN rows : rows[c].event = "completed" /\ rows[c].of = x
    BY <1>4, <2>1 DEF RowsOf
  <2>3. pc[x] = "settled"
    BY <2>2, FileIs DEF Matched
  <2> QED BY <1>4, <2>1, <2>3, FileIs
<1>6. ASSUME NEW x \in InFile(run, dir, "started") \cap Steps,
             NEW p, p = store[Outer[x]].step, p # None
      PROVE  p \in InFile(run, dir, "completed")
  <2>1. PICK i \in DOMAIN rows : rows[i].event = "started" /\ rows[i].of = x
    BY <1>5
  <2>2. x \notin Runs /\ rows[i].parent = Context(x).step /\ rows[i].parent \in Steps \cup {None}
    BY <2>1, FileIs, TracingAssumption DEF Told
  <2>3. rows[i].parent = p /\ p \in Steps
    <3>1. Outer[x] # None
      BY <2>1, FileIs
    <3> QED BY <1>6, <2>2, <3>1 DEF Context
  <2>4. CASE Owner(rows, p) = {}
    <3>1. ParentOf(rows, i) = p
      BY <1>6, <2>3, <2>4 DEF ParentOf
    <3>2. PICK k \in DOMAIN events : events[k] = Event(rows, i)
      BY <1>3, <2>1
    <3>3. events[k].parent = p
      BY <1>2, <3>1, <3>2, EventIs
    <3>4. PICK j \in DOMAIN events : events[j].id = p
      BY <1>1, <1>6, <3>2, <3>3
    <3>5. PICK m \in DOMAIN rows : events[j] = Event(rows, m)
      BY <1>2, LogicalIs, KeptIs
    <3>6. p = <<rows[m].event, rows[m].of, m - 1>>
      <4>1. events[j].id = <<rows[m].event, rows[m].of, m - 1>>
        BY <1>2, <3>5, EventIs
      <4> QED BY <3>4, <4>1
    <3>7. m - 1 \in Nat
      BY <1>2, RowsOfFinite
    <3>8. p \in {"started", "completed"} \X Calls \X Nat
      BY <3>6, <3>7, FileIs
    <3> QED BY <2>3, <3>8, ReadingAssumption
  <2>5. CASE Owner(rows, p) # {}
    <3>1. RowsOf(rows, "started", p) # {} \/ RowsOf(rows, "completed", p) # {}
      BY <2>5 DEF Owner, OwnerAmong
    <3>2. RowsOf(rows, "started", p) # {} => RowsOf(rows, "completed", p) # {}
      BY <1>4 DEF RowsOf
    <3> QED BY <3>1, <3>2, FileIs
  <2> QED BY <2>4, <2>5
<1>7. run \notin failed
  BY <1>1, StatusIs
<1> QED BY <1>5, <1>6, <1>7

\* Twice as many positions: those of a sequence and of one like it behind.
LEMMA Doubled ==
    ASSUME NEW n \in Nat, NEW S \in SUBSET (1 .. n), NEW T,
           T = S \cup {i + n : i \in S}
    PROVE  Cardinality(S) \in Nat /\ Cardinality(T) = 2 * Cardinality(S)
<1> DEFINE U == {i + n : i \in S}
<1>1. IsFiniteSet(S) /\ Cardinality(S) \in Nat
  <2>1. IsFiniteSet(1 .. n)
    BY FS_Interval
  <2>2. IsFiniteSet(S)
    BY <2>1, FS_Subset
  <2> QED BY <2>2, FS_CardinalityType
<1>2. ExistsBijection(S, U)
  <2> DEFINE g == [i \in S |-> i + n]
  <2>1. g \in Injection(S, U)
    BY DEF Injection, IsInjective
  <2>2. g \in Surjection(S, U)
    BY DEF Surjection
  <2> QED BY <2>1, <2>2 DEF ExistsBijection, Bijection
<1>3. IsFiniteSet(U) /\ Cardinality(U) = Cardinality(S)
  BY <1>1, <1>2, FS_Bijection
<1>4. S \cap U = {}
  OBVIOUS
<1> HIDE DEF U
<1>5. Cardinality(S \cup U) = Cardinality(S) + Cardinality(U) - Cardinality(S \cap U)
  BY <1>1, <1>3, FS_Union
<1>6. Cardinality(S \cap U) = 0
  BY <1>4, FS_EmptySet
<1>7. Cardinality(S \cup U) = 2 * Cardinality(S)
  BY <1>1, <1>3, <1>5, <1>6
<1> QED BY <1>1, <1>7 DEF U

\* The rows of a file, or several times those.
FileLike(run, dir, rows, copies) ==
    /\ Even(rows, copies)
    /\ \A event, x : x \in InFile(run, dir, event) <=> RowsOf(rows, event, x) # {}
    /\ \A i \in DOMAIN rows :
          /\ rows[i].of \in Calls /\ rows[i].parent \in Steps \cup {None}
          /\ rows[i].event \in {"started", "completed"} /\ rows[i].ok \in BOOLEAN
          /\ Told(run, rows[i])
          /\ rows[i].of \in Steps => Outer[rows[i].of] # None
          /\ rows[i].at = IF rows[i].event = "started" THEN calledAt[rows[i].of]
                                                       ELSE settledAt[rows[i].of]
    /\ \A i, j \in DOMAIN rows : rows[i].event = "started" /\ rows[j].event = "started"
                                   /\ rows[i].of = rows[j].parent => rows[i].of # rows[j].of

LEMMA FileAlone ==
    ASSUME IInv, NEW run \in Traced, NEW dir \in Dirs
    PROVE  FileLike(run, dir, Read(run, dir), 1)
<1>0. PICK rows : rows = Read(run, dir)
  OBVIOUS
<1>1. Even(rows, 1)
  BY <1>0, FileIs
<1>2. \A event, x : x \in InFile(run, dir, event) <=> RowsOf(rows, event, x) # {}
  BY <1>0, FileIs
<1>3. \A i \in DOMAIN rows :
         /\ rows[i].of \in Calls /\ rows[i].parent \in Steps \cup {None}
         /\ rows[i].event \in {"started", "completed"} /\ rows[i].ok \in BOOLEAN
         /\ Told(run, rows[i])
         /\ rows[i].of \in Steps => Outer[rows[i].of] # None
         /\ rows[i].at = IF rows[i].event = "started" THEN calledAt[rows[i].of]
                                                      ELSE settledAt[rows[i].of]
  BY <1>0, FileIs
<1>4. ASSUME NEW i \in DOMAIN rows, NEW j \in DOMAIN rows,
             rows[i].event = "started", rows[j].event = "started",
             rows[i].of = rows[j].parent, rows[i].of = rows[j].of
      PROVE  FALSE
  <2>0. \A k, m \in DOMAIN rows :
           /\ rows[k].event = rows[m].event /\ rows[k].of = rows[m].of => k = m
           /\ (rows[k].event = "started" /\ rows[m].event = "started"
                 /\ rows[k].of = rows[m].parent) => k < m
    BY <1>0, FileIs
  <2>1. i = j /\ i < j
    BY <1>4, <2>0
  <2>2. i \in Nat
    BY <1>1, RowsOfFinite
  <2> QED BY <2>1, <2>2
<1>5. FileLike(run, dir, rows, 1)
  BY <1>1, <1>2, <1>3, <1>4 DEF FileLike
<1> QED BY <1>0, <1>5

LEMMA TwiceIs ==
    ASSUME NEW rows, NEW n \in Nat, rows = [i \in 1 .. n |-> rows[i]]
    PROVE  /\ DOMAIN Twice(rows) = 1 .. 2 * n
           /\ \A i \in 1 .. n : Twice(rows)[i] = rows[i] /\ Twice(rows)[i + n] = rows[i]
<1> DEFINE S == {rows[i] : i \in 1 .. n}
<1>1. rows \in [1 .. n -> S]
  OBVIOUS
<1>2. rows \in Seq(S) /\ Len(rows) = n
  BY <1>1
<1> HIDE DEF S
<1>3. /\ Twice(rows) \in Seq(S) /\ Len(Twice(rows)) = n + n
      /\ \A i \in 1 .. n + n : Twice(rows)[i] = IF i <= n THEN rows[i] ELSE rows[i - n]
  BY <1>2, ConcatProperties DEF Twice
<1>4. DOMAIN Twice(rows) = 1 .. 2 * n
  BY <1>3
<1>5. ASSUME NEW i \in 1 .. n
      PROVE  Twice(rows)[i] = rows[i] /\ Twice(rows)[i + n] = rows[i]
  <2>1. i \in 1 .. n + n /\ i + n \in 1 .. n + n /\ i <= n /\ ~(i + n <= n) /\ (i + n) - n = i
    OBVIOUS
  <2> QED BY <1>3, <2>1
<1> QED BY <1>4, <1>5

\* What a row of rows delivered twice is, and where it came from.
LEMMA TwiceRows ==
    ASSUME NEW rows, NEW n \in Nat, rows = [i \in 1 .. n |-> rows[i]], Even(rows, 1)
    PROVE  /\ \A j \in DOMAIN Twice(rows) : \E i \in DOMAIN rows :
                 Twice(rows)[j] = rows[i] /\ (j = i \/ j = i + n)
           /\ \A event, x : RowsOf(Twice(rows), event, x) =
                 RowsOf(rows, event, x) \cup {i + n : i \in RowsOf(rows, event, x)}
           /\ Even(Twice(rows), 2)
<1>1. /\ DOMAIN Twice(rows) = 1 .. 2 * n
      /\ \A i \in 1 .. n : Twice(rows)[i] = rows[i] /\ Twice(rows)[i + n] = rows[i]
  BY TwiceIs
<1>2. \A j \in DOMAIN Twice(rows) : \E i \in DOMAIN rows :
         Twice(rows)[j] = rows[i] /\ (j = i \/ j = i + n)
  <2> TAKE j \in DOMAIN Twice(rows)
  <2>1. CASE j <= n
    <3>1. j \in 1 .. n
      BY <1>1, <2>1
    <3> QED BY <1>1, <3>1
  <2>2. CASE ~(j <= n)
    <3>1. PICK i \in 1 .. n : j = i + n
      <4>1. j - n \in 1 .. n /\ j = (j - n) + n
        BY <1>1, <2>2
      <4> QED BY <4>1
    <3> QED BY <1>1, <3>1
  <2> QED BY <2>1, <2>2
<1>3. ASSUME NEW event, NEW x
      PROVE  RowsOf(Twice(rows), event, x) =
                RowsOf(rows, event, x) \cup {i + n : i \in RowsOf(rows, event, x)}
  <2>1. \A i \in 1 .. n : i \in DOMAIN Twice(rows) /\ i + n \in DOMAIN Twice(rows)
    BY <1>1
  <2>2. \A j : j \in RowsOf(Twice(rows), event, x) <=>
               j \in RowsOf(rows, event, x) \cup {i + n : i \in RowsOf(rows, event, x)}
    <3> TAKE j
    <3>1. ASSUME j \in RowsOf(Twice(rows), event, x)
          PROVE  j \in RowsOf(rows, event, x) \cup {i + n : i \in RowsOf(rows, event, x)}
      <4>1. PICK i \in DOMAIN rows : Twice(rows)[j] = rows[i] /\ (j = i \/ j = i + n)
        BY <1>2, <3>1 DEF RowsOf
      <4>2. i \in RowsOf(rows, event, x)
        BY <3>1, <4>1 DEF RowsOf
      <4> QED BY <4>1, <4>2
    <3>2. ASSUME NEW i \in RowsOf(rows, event, x)
          PROVE  /\ i \in RowsOf(Twice(rows), event, x)
                 /\ i + n \in RowsOf(Twice(rows), event, x)
      <4>1. i \in 1 .. n /\ rows[i].event = event /\ rows[i].of = x
        BY DEF RowsOf
      <4> QED BY <1>1, <2>1, <4>1 DEF RowsOf
    <3> QED BY <3>1, <3>2
  <2> QED BY <2>2, SameSet
<1>4. Even(Twice(rows), 2)
  <2>1. 2 * n \in Nat /\ DOMAIN Twice(rows) = 1 .. 2 * n
    BY <1>1
  <2>2. \A j \in DOMAIN Twice(rows) : Twice(rows)[j].event \in {"started", "completed"}
    BY <1>2 DEF Even
  <2>3. ASSUME NEW event, NEW x, RowsOf(Twice(rows), event, x) # {}
        PROVE  Cardinality(RowsOf(Twice(rows), event, x)) = 2
    <3>1. RowsOf(rows, event, x) # {}
      BY <1>3, <2>3
    <3>2. Cardinality(RowsOf(rows, event, x)) = 1
      BY <3>1 DEF Even
    <3>3. RowsOf(rows, event, x) \in SUBSET (1 .. n)
      BY DEF RowsOf
    <3>4. Cardinality(RowsOf(Twice(rows), event, x)) = 2 * Cardinality(RowsOf(rows, event, x))
      BY <1>3, <3>3, Doubled
    <3> QED BY <3>2, <3>4
  <2> QED BY <2>1, <2>2, <2>3 DEF Even
<1> QED BY <1>2, <1>3, <1>4

LEMMA FileTwice ==
    ASSUME IInv, NEW run \in Traced, NEW dir \in Dirs
    PROVE  FileLike(run, dir, Twice(Read(run, dir)), 2)
<1>1. PICK rows : rows = Read(run, dir)
  OBVIOUS
<1>2. FileLike(run, dir, rows, 1)
  BY <1>1, FileAlone
<1>3. PICK n \in Nat : DOMAIN rows = 1 .. n
  BY <1>2 DEF FileLike, Even
<1>4. rows = [i \in 1 .. n |-> rows[i]]
  BY <1>1, <1>3 DEF Read
<1>5. PICK twice : twice = Twice(rows)
  OBVIOUS
<1>6. /\ \A j \in DOMAIN twice : \E i \in DOMAIN rows : twice[j] = rows[i]
      /\ \A event, x : RowsOf(twice, event, x) =
            RowsOf(rows, event, x) \cup {i + n : i \in RowsOf(rows, event, x)}
      /\ Even(twice, 2)
  <2>1. Even(rows, 1)
    BY <1>2 DEF FileLike
  <2>2. /\ \A j \in DOMAIN Twice(rows) : \E i \in DOMAIN rows :
              Twice(rows)[j] = rows[i] /\ (j = i \/ j = i + n)
        /\ \A event, x : RowsOf(Twice(rows), event, x) =
              RowsOf(rows, event, x) \cup {i + n : i \in RowsOf(rows, event, x)}
        /\ Even(Twice(rows), 2)
    BY <1>4, <2>1, TwiceRows
  <2> QED BY <1>5, <2>2
<1>7. ASSUME NEW event, NEW x PROVE x \in InFile(run, dir, event) <=> RowsOf(twice, event, x) # {}
  <2>1. RowsOf(twice, event, x) # {} <=> RowsOf(rows, event, x) # {}
    BY <1>6
  <2> QED BY <1>2, <2>1 DEF FileLike
<1>8. \A i \in DOMAIN rows :
         /\ rows[i].of \in Calls /\ rows[i].parent \in Steps \cup {None}
         /\ rows[i].event \in {"started", "completed"} /\ rows[i].ok \in BOOLEAN
         /\ Told(run, rows[i])
         /\ rows[i].of \in Steps => Outer[rows[i].of] # None
         /\ rows[i].at = IF rows[i].event = "started" THEN calledAt[rows[i].of]
                                                      ELSE settledAt[rows[i].of]
  BY <1>2 DEF FileLike
<1>9. \A i, j \in DOMAIN rows : rows[i].event = "started" /\ rows[j].event = "started"
                                  /\ rows[i].of = rows[j].parent => rows[i].of # rows[j].of
  BY <1>2 DEF FileLike
<1>10. \A i \in DOMAIN twice :
         /\ twice[i].of \in Calls /\ twice[i].parent \in Steps \cup {None}
         /\ twice[i].event \in {"started", "completed"} /\ twice[i].ok \in BOOLEAN
         /\ Told(run, twice[i])
         /\ twice[i].of \in Steps => Outer[twice[i].of] # None
         /\ twice[i].at = IF twice[i].event = "started" THEN calledAt[twice[i].of]
                                                        ELSE settledAt[twice[i].of]
  <2> TAKE i \in DOMAIN twice
  <2>1. PICK j \in DOMAIN rows : twice[i] = rows[j]
    BY <1>6
  <2> QED BY <1>8, <2>1
<1>11. \A i, j \in DOMAIN twice : twice[i].event = "started" /\ twice[j].event = "started"
                                    /\ twice[i].of = twice[j].parent => twice[i].of # twice[j].of
  <2> TAKE i, j \in DOMAIN twice
  <2>1. PICK k \in DOMAIN rows : twice[i] = rows[k]
    BY <1>6
  <2>2. PICK m \in DOMAIN rows : twice[j] = rows[m]
    BY <1>6
  <2> QED BY <1>9, <2>1, <2>2
<1>12. FileLike(run, dir, twice, 2)
  BY <1>6, <1>7, <1>10, <1>11 DEF FileLike
<1> QED BY <1>1, <1>5, <1>12

\* Of each start there is one event, with the name of its call.
LEMMA EventsOfIs ==
    ASSUME NEW rows, NEW copies, Even(rows, copies), NEW x, x # None,
           NEW events, events = Logical(rows)
    PROVE  /\ \A k \in EventsOf(events, x) :
                 \E i \in RowsOf(rows, "started", x) : events[k] = Event(rows, i)
           /\ \A i \in RowsOf(rows, "started", x) :
                 \E k \in EventsOf(events, x) : events[k] = Event(rows, i)
           /\ Cardinality(EventsOf(events, x)) = Cardinality(RowsOf(rows, "started", x))
<1> DEFINE kept == Kept(rows)
           starts == RowsOf(rows, "started", x)
<1>1. /\ \A k \in DOMAIN events :
            /\ Opening(kept, k) \in kept /\ Earlier(Opening(kept, k), kept) = k - 1
            /\ events[k] = Event(rows, Opening(kept, k))
      /\ \A i \in kept : /\ Earlier(i, kept) + 1 \in DOMAIN events
                         /\ events[Earlier(i, kept) + 1] = Event(rows, i)
      /\ \A k \in DOMAIN events : k \in Int
  BY LogicalIs
<1>2. \A i \in kept : i \in DOMAIN rows
  BY DEF Kept
<1>3. \A i \in starts : i \in kept /\ rows[i].of = x /\ rows[i].event = "started"
  BY KeptIs DEF RowsOf
<1>4. ASSUME NEW i \in kept, Event(rows, i).name = x PROVE i \in starts
  <2>1. rows[i].event = "started"
    <3>1. rows[i].event \in {"started", "completed"}
      BY <1>2 DEF Even
    <3>2. rows[i].event = "completed" => Event(rows, i).name = None
      BY <1>2, EventIs
    <3> QED BY <1>4, <3>1, <3>2
  <2>2. rows[i].of = x
    BY <1>2, <1>4, <2>1, EventIs
  <2> QED BY <1>2, <2>1, <2>2 DEF RowsOf
<1>5. ASSUME NEW i \in starts PROVE Event(rows, i).name = x
  BY <1>2, <1>3, EventIs
<1> DEFINE place == [i \in starts |-> Earlier(i, kept) + 1]
<1>6. \A i \in starts : place[i] \in EventsOf(events, x) /\ events[place[i]] = Event(rows, i)
  BY <1>1, <1>3, <1>5 DEF EventsOf
<1>7. ASSUME NEW k \in EventsOf(events, x)
      PROVE  \E i \in starts : place[i] = k /\ events[k] = Event(rows, i)
  <2>1. PICK i : i = Opening(kept, k)
    OBVIOUS
  <2>2. k \in DOMAIN events /\ events[k].name = x
    BY DEF EventsOf
  <2>3. i \in kept /\ Earlier(i, kept) = k - 1 /\ events[k] = Event(rows, i) /\ k \in Int
    BY <1>1, <2>1, <2>2
  <2>4. i \in starts
    BY <1>4, <2>2, <2>3
  <2> QED BY <2>3, <2>4
<1>8. IsFiniteSet(starts)
  BY RowsOfFinite
<1>9. ExistsBijection(starts, EventsOf(events, x))
  <2>1. \A i, j \in starts : place[i] = place[j] => i = j
    <3> TAKE i, j \in starts
    <3>1. IsFiniteSet(kept) /\ kept \subseteq Nat
      BY KeptIs
    <3>2. Earlier(i, kept) \in Int /\ Earlier(j, kept) \in Int
      BY <1>3, <3>1, Places
    <3>3. Earlier(i, kept) = Earlier(j, kept) => i = j
      BY <1>3, <3>1, Places
    <3> QED BY <3>2, <3>3
  <2> HIDE DEF starts
  <2>2. place \in Injection(starts, EventsOf(events, x))
    BY <1>6, <2>1 DEF Injection, IsInjective
  <2>3. place \in Surjection(starts, EventsOf(events, x))
    BY <1>6, <1>7 DEF Surjection
  <2> QED BY <2>2, <2>3 DEF ExistsBijection, Bijection
<1>10. Cardinality(EventsOf(events, x)) = Cardinality(starts)
  BY <1>8, <1>9, FS_Bijection
<1> QED BY <1>6, <1>7, <1>10

\* The last start of a step is the one its children are put under.
LEMMA OwnerIs ==
    ASSUME NEW rows, NEW copies, Even(rows, copies), NEW x, RowsOf(rows, "started", x) # {}
    PROVE  \E j \in RowsOf(rows, "started", x) : Owner(rows, x) = {j}
<1> DEFINE starts == RowsOf(rows, "started", x)
<1>1. IsFiniteSet(starts) /\ starts \subseteq Nat
  BY RowsOfFinite
<1>2. Owner(rows, x) = {i \in starts : \A j \in starts : j <= i}
  BY DEF Owner, OwnerAmong
<1> HIDE DEF starts
<1>3. Cardinality(starts) \in Nat /\ Cardinality(starts) # 0
  BY <1>1, FS_EmptySet, FS_CardinalityType DEF starts
<1>4. Cardinality(starts) - 1 \in 0 .. Cardinality(starts) - 1
  BY <1>3
<1>5. PICK i \in starts : Earlier(i, starts) = Cardinality(starts) - 1
  BY <1>1, <1>4, Places
<1>6. ASSUME NEW j \in starts PROVE j <= i
  <2>1. Earlier(j, starts) \in 0 .. Cardinality(starts) - 1
    BY <1>1, Places
  <2>2. ~(Earlier(i, starts) < Earlier(j, starts))
    BY <1>3, <1>5, <2>1
  <2>3. ~(i < j)
    BY <1>1, <2>2, Places
  <2> QED BY <1>1, <2>3
<1>7. \A j \in starts : (\A m \in starts : m <= j) => j = i
  <2> TAKE j \in starts
  <2> SUFFICES ASSUME \A m \in starts : m <= j PROVE j = i
    OBVIOUS
  <2>1. i <= j /\ j <= i
    BY <1>6
  <2> QED BY <1>1, <2>1
<1>8. \A j : j \in Owner(rows, x) <=> j \in {i}
  BY <1>2, <1>6, <1>7
<1>9. Owner(rows, x) = {i}
  BY <1>8, SameSet
<1> QED BY <1>9 DEF starts

LEMMA EventWhole ==
    ASSUME NEW run, NEW dir, NEW rows, NEW copies, FileLike(run, dir, rows, copies),
           NEW i \in DOMAIN rows, rows[i].event = "started", NEW x, x = rows[i].of,
           NEW e, e = Event(rows, i)
    PROVE  Whole(run, dir, e, x)
<1>1. Even(rows, copies)
  BY DEF FileLike
<1>2. x \in InFile(run, dir, "completed") <=> RowsOf(rows, "completed", x) # {}
  BY DEF FileLike
<1>3. e.startedAt = calledAt[x]
  <2>1. e.startedAt = rows[i].at
    BY <1>1, EventIs
  <2> QED BY <2>1 DEF FileLike
<1>4. CASE RowsOf(rows, "completed", x) = {}
  <2>1. e.status = "running" /\ e.endedAt = None
    BY <1>1, <1>4, EventIs
  <2> QED BY <1>2, <1>3, <1>4, <2>1 DEF Whole
<1>5. CASE RowsOf(rows, "completed", x) # {}
  <2>1. PICK c \in RowsOf(rows, "completed", x) :
           e.status = (IF rows[c].ok THEN "ok" ELSE "error") /\ e.endedAt = rows[c].at
    BY <1>1, <1>5, EventIs
  <2>2. c \in DOMAIN rows /\ rows[c].event = "completed" /\ rows[c].of = x
    BY DEF RowsOf
  <2>3. rows[c].at = settledAt[x] /\ Told(run, rows[c])
    BY <2>2 DEF FileLike
  <2>4. rows[c].ok <=> x \notin failed
    BY <2>2, <2>3 DEF Told
  <2> QED BY <1>2, <1>3, <1>5, <2>1, <2>3, <2>4 DEF Whole
<1> QED BY <1>4, <1>5

LEMMA EventUnder ==
    ASSUME NEW run, NEW dir, NEW rows, NEW copies, FileLike(run, dir, rows, copies),
           NEW events, events = Logical(rows),
           NEW i \in DOMAIN rows, rows[i].event = "started", NEW x, x = rows[i].of,
           NEW e, e = Event(rows, i)
    PROVE  Under(run, dir, events, e, x)
<1> DEFINE parent == store[Outer[x]].step
<1>1. Even(rows, copies)
  BY DEF FileLike
<1>2. e.parent = ParentOf(rows, i)
  BY <1>1, EventIs
<1>3. /\ rows[i].parent = IF x \in Runs THEN None ELSE Context(x).step
      /\ x \in Calls /\ (x \in Steps => Outer[x] # None) /\ rows[i].parent \in Steps \cup {None}
  BY DEF FileLike, Told
<1>4. rows[i].parent = IF x \in Runs THEN None ELSE parent
  BY <1>3 DEF Context, Calls
<1>5. CASE x \in Runs \/ parent = None
  <2>1. rows[i].parent = None
    BY <1>4, <1>5
  <2>2. ParentOf(rows, i) = None
    BY <2>1 DEF ParentOf
  <2> QED BY <1>2, <1>5, <2>2 DEF Under
<1>6. CASE ~(x \in Runs \/ parent = None)
  <2> SUFFICES ASSUME parent \in InFile(run, dir, "started")
               PROVE  \E k \in EventsOf(events, parent) : e.parent = events[k].id
    BY <1>6 DEF Under
  <2>1. PICK p : p = parent
    OBVIOUS
  <2>2. rows[i].parent = p /\ p # None
    BY <1>4, <1>6, <2>1
  <2>3. RowsOf(rows, "started", p) # {}
    BY <2>1 DEF FileLike
  <2>4. PICK j \in RowsOf(rows, "started", p) : Owner(rows, p) = {j}
    BY <1>1, <2>3, OwnerIs
  <2>5. j \in DOMAIN rows /\ rows[j].event = "started" /\ rows[j].of = p
    BY DEF RowsOf
  <2>6. j # i
    BY <2>2, <2>5 DEF FileLike
  <2>7. ParentOf(rows, i) = PersistedEvent(rows, j).id
    <3>1. (CHOOSE k \in {j} : TRUE) = j
      OBVIOUS
    <3> QED BY <2>2, <2>4, <2>6, <3>1 DEF ParentOf
  <2>8. PersistedEvent(rows, j).id = <<"started", p, j - 1>>
    BY <2>5 DEF PersistedEvent
  <2>9. PICK k \in EventsOf(events, p) : events[k] = Event(rows, j)
    BY <1>1, <2>2, EventsOfIs
  <2>10. events[k].id = <<"started", p, j - 1>>
    BY <1>1, <2>5, <2>9, EventIs
  <2> QED BY <1>2, <2>1, <2>7, <2>8, <2>9, <2>10
<1> QED BY <1>5, <1>6

LEMMA EventsRight ==
    ASSUME NEW run, NEW dir, NEW rows, NEW copies, FileLike(run, dir, rows, copies),
           NEW events, events = Logical(rows),
           Len(events) = copies * Cardinality(InFile(run, dir, "started")
                                                \cup InFile(run, dir, "completed"))
    PROVE  Right(run, dir, events, copies)
<1>1. Even(rows, copies)
  BY DEF FileLike
<1> SUFFICES ASSUME NEW x \in InFile(run, dir, "started")
             PROVE  /\ Cardinality(EventsOf(events, x)) = copies
                    /\ \A k \in EventsOf(events, x) :
                          Whole(run, dir, events[k], x) /\ Under(run, dir, events, events[k], x)
  BY DEF Right
<1>3. RowsOf(rows, "started", x) # {}
  BY DEF FileLike
<1>2. x \in Calls /\ x # None
  BY <1>3, TracingAssumption DEF FileLike, RowsOf
<1>4. Cardinality(EventsOf(events, x)) = copies
  <2>1. Cardinality(RowsOf(rows, "started", x)) = copies
    BY <1>1, <1>3 DEF Even
  <2> QED BY <1>1, <1>2, <2>1, EventsOfIs
<1>5. ASSUME NEW k \in EventsOf(events, x)
      PROVE  Whole(run, dir, events[k], x) /\ Under(run, dir, events, events[k], x)
  <2>1. PICK i \in RowsOf(rows, "started", x) : events[k] = Event(rows, i)
    BY <1>1, <1>2, EventsOfIs
  <2>2. i \in DOMAIN rows /\ rows[i].event = "started" /\ rows[i].of = x
    BY DEF RowsOf
  <2> QED BY <2>1, <2>2, EventWhole, EventUnder
<1> QED BY <1>4, <1>5

\* There is one row to open an event for each call in a file.
LEMMA KeptCount ==
    ASSUME IInv, NEW run \in Traced, NEW dir \in Dirs, NEW rows, rows = Read(run, dir)
    PROVE  /\ IsFiniteSet(Kept(rows))
           /\ Cardinality(Kept(rows)) =
                 Cardinality(InFile(run, dir, "started") \cup InFile(run, dir, "completed"))
<1> DEFINE there == InFile(run, dir, "started") \cup InFile(run, dir, "completed")
           kept == Kept(rows)
           call == [i \in kept |-> rows[i].of]
<1>1. Even(rows, 1)
  BY FileIs
<1>2. IsFiniteSet(kept)
  BY <1>1, KeptIs
<1>3. \A i \in DOMAIN rows : i \in kept <=>
         rows[i].event = "started" \/ RowsOf(rows, "started", rows[i].of) = {}
  BY <1>1, KeptIs
<1>4. \A i \in kept : i \in DOMAIN rows
  BY DEF Kept
<1>5. /\ \A i \in DOMAIN rows : rows[i].event \in {"started", "completed"}
      /\ \A i, j \in DOMAIN rows :
            rows[i].event = rows[j].event /\ rows[i].of = rows[j].of => i = j
      /\ \A event, x : x \in InFile(run, dir, event) <=> RowsOf(rows, event, x) # {}
  BY FileIs
<1> HIDE DEF kept
<1>6. ASSUME NEW i \in kept PROVE rows[i].of \in there
  <2>1. i \in RowsOf(rows, rows[i].event, rows[i].of)
    BY <1>4 DEF RowsOf
  <2> QED BY <1>4, <1>5, <2>1
<1>7. ASSUME NEW i \in kept, NEW j \in kept, rows[i].of = rows[j].of PROVE i = j
  <2>1. i \in DOMAIN rows /\ j \in DOMAIN rows
    BY <1>4
  <2>2. rows[i].event = "started" <=> rows[j].event = "started"
    <3>1. \A k, m \in DOMAIN rows : rows[k].event = "started" /\ rows[k].of = rows[m].of =>
             RowsOf(rows, "started", rows[m].of) # {}
      BY DEF RowsOf
    <3> QED BY <1>3, <1>7, <2>1, <3>1
  <2> QED BY <1>5, <1>7, <2>1, <2>2
<1>8. ASSUME NEW x \in there PROVE \E i \in kept : rows[i].of = x
  <2>1. CASE RowsOf(rows, "started", x) # {}
    <3>1. PICK i \in DOMAIN rows : rows[i].event = "started" /\ rows[i].of = x
      BY <2>1 DEF RowsOf
    <3> QED BY <1>3, <3>1
  <2>2. CASE RowsOf(rows, "started", x) = {}
    <3>1. RowsOf(rows, "completed", x) # {}
      BY <1>5, <2>2
    <3>2. PICK i \in DOMAIN rows : rows[i].of = x
      BY <3>1 DEF RowsOf
    <3> QED BY <1>3, <2>2, <3>2
  <2> QED BY <2>1, <2>2
<1>9. ExistsBijection(kept, there)
  <2> HIDE DEF there
  <2>1. call \in Injection(kept, there)
    BY <1>6, <1>7 DEF Injection, IsInjective
  <2>2. call \in Surjection(kept, there)
    BY <1>6, <1>8 DEF Surjection
  <2> QED BY <2>1, <2>2 DEF ExistsBijection, Bijection
<1>10. Cardinality(there) = Cardinality(kept)
  <2> HIDE DEF there
  <2> QED BY <1>2, <1>9, FS_Bijection
<1> QED BY <1>2, <1>10 DEF kept

LEMMA ReadRight == IInv => ReadBack
<1> SUFFICES ASSUME IInv, NEW run \in Traced, NEW dir \in Dirs, NEW rows, rows = Read(run, dir)
             PROVE  /\ Right(run, dir, Logical(rows), 1)
                    /\ Right(run, dir, Logical(Twice(rows)), 2)
  BY DEF ReadBack
<1> DEFINE n == Cardinality(InFile(run, dir, "started") \cup InFile(run, dir, "completed"))
<1>1. FileLike(run, dir, rows, 1) /\ FileLike(run, dir, Twice(rows), 2)
  BY FileAlone, FileTwice
<1>2. Even(rows, 1) /\ Even(Twice(rows), 2)
  BY <1>1 DEF FileLike
<1>3. IsFiniteSet(Kept(rows)) /\ Cardinality(Kept(rows)) = n
  BY KeptCount
<1>4. Len(Logical(rows)) = n /\ n \in Nat
  BY <1>2, <1>3, LogicalIs
<1>5. Len(Logical(Twice(rows))) = 2 * n
  <2>1. PICK len \in Nat : DOMAIN rows = 1 .. len
    BY <1>2 DEF Even
  <2>2. rows = [i \in 1 .. len |-> rows[i]]
    BY <2>1 DEF Read
  <2>3. /\ DOMAIN Twice(rows) = 1 .. 2 * len
        /\ \A i \in 1 .. len : Twice(rows)[i] = rows[i] /\ Twice(rows)[i + len] = rows[i]
    BY <2>2, TwiceIs
  <2>4. \A event, x : RowsOf(Twice(rows), event, x) # {} <=> RowsOf(rows, event, x) # {}
    BY <1>1 DEF FileLike
  <2>5. \A i \in 1 .. len : /\ i \in Kept(Twice(rows)) <=> i \in Kept(rows)
                            /\ i + len \in Kept(Twice(rows)) <=> i \in Kept(rows)
    <3> TAKE i \in 1 .. len
    <3>1. i \in DOMAIN Twice(rows) /\ i + len \in DOMAIN Twice(rows) /\ i \in DOMAIN rows
      BY <2>1, <2>3
    <3>2. i \in Kept(rows) <=>
             rows[i].event = "started" \/ RowsOf(rows, "started", rows[i].of) = {}
      BY <1>2, <3>1, KeptIs
    <3>3. \A j \in DOMAIN Twice(rows) : j \in Kept(Twice(rows)) <=>
             \/ Twice(rows)[j].event = "started"
             \/ RowsOf(Twice(rows), "started", Twice(rows)[j].of) = {}
      BY <1>2, KeptIs
    <3> QED BY <2>3, <2>4, <3>1, <3>2, <3>3
  <2>6. Kept(rows) \in SUBSET (1 .. len) /\ \A j \in Kept(Twice(rows)) : j \in 1 .. 2 * len
    BY <2>1, <2>3 DEF Kept
  <2>7. Kept(Twice(rows)) = Kept(rows) \cup {i + len : i \in Kept(rows)}
    <3>1. \A j \in 1 .. 2 * len : j \in 1 .. len \/ \E i \in 1 .. len : j = i + len
      <4> TAKE j \in 1 .. 2 * len
      <4>1. j \in 1 .. len \/ (j - len \in 1 .. len /\ j = (j - len) + len)
        OBVIOUS
      <4> QED BY <4>1
    <3>2. \A j : j \in Kept(Twice(rows)) <=>
                 j \in Kept(rows) \cup {i + len : i \in Kept(rows)}
      BY <2>5, <2>6, <3>1
    <3> QED BY <3>2, SameSet
  <2>8. Cardinality(Kept(Twice(rows))) = 2 * n
    BY <1>3, <2>6, <2>7, Doubled
  <2> QED BY <1>2, <2>8, LogicalIs
<1>6. n = 1 * n
  BY <1>4
<1>7. Right(run, dir, Logical(rows), 1)
  BY <1>1, <1>4, <1>6, EventsRight
<1> QED BY <1>1, <1>5, <1>7, EventsRight

-----------------------------------------------------------------------------
(* What they made of it a row ago                                           *)

\* Rows with a start before the completion of its call, and each once.
Tidy(rows) ==
    /\ Even(rows, 1)
    /\ \A i \in DOMAIN rows : rows[i].parent \in Steps \cup {None}
    /\ \A i, j \in DOMAIN rows :
          /\ rows[i].event = rows[j].event /\ rows[i].of = rows[j].of => i = j
          /\ (rows[i].of = rows[j].of /\ rows[i].event = "started"
                /\ rows[j].event = "completed") => i < j

Listed(rows, n) == n \in Nat \ {0} /\ rows = [i \in 1 .. n |-> rows[i]]

\* All of some rows but the last one.
Ago(rows, n) == SubSeq(rows, 1, n - 1)

Shorter(rows, n, ago) ==
    /\ DOMAIN ago = 1 .. n - 1 /\ \A i \in 1 .. n - 1 : ago[i] = rows[i]
    /\ DOMAIN rows = 1 .. n /\ n \in Nat \ {0}
    /\ \A event, x : RowsOf(ago, event, x) = RowsOf(rows, event, x) \ {n}
    /\ Tidy(rows) /\ Tidy(ago) /\ Even(rows, 1) /\ Even(ago, 1)

LEMMA AgoIs ==
    ASSUME NEW rows, Tidy(rows), NEW n, Listed(rows, n),
           NEW ago, ago = Ago(rows, n)
    PROVE  Shorter(rows, n, ago)
<1>0. n \in Nat \ {0} /\ rows = [i \in 1 .. n |-> rows[i]]
  BY DEF Listed
<1>1. DOMAIN ago = 1 .. n - 1 /\ \A i \in 1 .. n - 1 : ago[i] = rows[i]
  BY <1>0 DEF Ago
<1>2. DOMAIN rows = 1 .. n
  BY <1>0
<1>3. ASSUME NEW event, NEW x PROVE RowsOf(ago, event, x) = RowsOf(rows, event, x) \ {n}
  BY <1>0, <1>1, <1>2 DEF RowsOf
<1>4. Even(ago, 1)
  <2>0. \A i \in DOMAIN rows : rows[i].event \in {"started", "completed"}
    BY DEF Tidy, Even
  <2>1. n - 1 \in Nat /\ \A i \in DOMAIN ago : ago[i].event \in {"started", "completed"}
    BY <1>0, <1>1, <1>2, <2>0
  <2>2. ASSUME NEW event, NEW x, RowsOf(ago, event, x) # {}
        PROVE  Cardinality(RowsOf(ago, event, x)) = 1
    <3>1. PICK i : i \in RowsOf(ago, event, x)
      BY <2>2
    <3>2. \A j : j \in RowsOf(ago, event, x) => j = i
      BY <1>0, <1>1, <1>2, <3>1 DEF Tidy, RowsOf
    <3>3. RowsOf(ago, event, x) = {i}
      BY <3>1, <3>2
    <3> QED BY <3>3, FS_Singleton
  <2> QED BY <1>1, <2>1, <2>2 DEF Even
<1>5. Tidy(ago)
  BY <1>0, <1>1, <1>2, <1>4 DEF Tidy
<1>6. Even(rows, 1)
  BY DEF Tidy
<1> QED BY <1>0, <1>1, <1>2, <1>3, <1>4, <1>5, <1>6 DEF Shorter

\* What opens an event keeps opening it.
LEMMA KeptAgo ==
    ASSUME NEW rows, Tidy(rows), NEW n, Listed(rows, n),
           NEW ago, ago = Ago(rows, n)
    PROVE  /\ Kept(ago) = Kept(rows) \ {n}
           /\ \A i \in Kept(ago) : Earlier(i, Kept(ago)) = Earlier(i, Kept(rows))
<1>0. Shorter(rows, n, ago)
  BY AgoIs
<1>1. /\ DOMAIN ago = 1 .. n - 1 /\ \A i \in 1 .. n - 1 : ago[i] = rows[i]
      /\ \A event, x : RowsOf(ago, event, x) = RowsOf(rows, event, x) \ {n}
      /\ n \in Nat \ {0}
  BY <1>0 DEF Shorter
<1>2. DOMAIN rows = 1 .. n /\ Even(rows, 1) /\ Even(ago, 1)
  BY <1>0 DEF Shorter
<1>3. /\ \A i \in 1 .. n - 1 : i \in Kept(ago) <=>
            rows[i].event = "started" \/ RowsOf(rows, "started", rows[i].of) \ {n} = {}
      /\ \A i \in 1 .. n : i \in Kept(rows) <=>
            rows[i].event = "started" \/ RowsOf(rows, "started", rows[i].of) = {}
      /\ Kept(ago) \subseteq 1 .. n - 1 /\ Kept(rows) \subseteq 1 .. n
  <2>1. Kept(ago) = {i \in DOMAIN ago : \/ ago[i].event = "started"
                                       \/ RowsOf(ago, "started", ago[i].of) = {}}
    BY <1>2, KeptIs
  <2>2. Kept(rows) = {i \in DOMAIN rows : \/ rows[i].event = "started"
                                         \/ RowsOf(rows, "started", rows[i].of) = {}}
    BY <1>2, KeptIs
  <2>3. \A i \in 1 .. n - 1 : i \in Kept(ago) <=>
           ago[i].event = "started" \/ RowsOf(ago, "started", ago[i].of) = {}
    BY <1>1, <2>1
  <2>4. \A i \in 1 .. n - 1 : i \in Kept(ago) <=>
           rows[i].event = "started" \/ RowsOf(rows, "started", rows[i].of) \ {n} = {}
    BY <1>1, <2>3
  <2> QED BY <1>1, <1>2, <2>1, <2>2, <2>4
<1>4. ASSUME NEW i \in 1 .. n - 1, rows[i].event # "started",
             n \in RowsOf(rows, "started", rows[i].of)
      PROVE  FALSE
  <2>1. n \in DOMAIN rows /\ i \in DOMAIN rows /\ rows[n].event = "started"
        /\ rows[n].of = rows[i].of /\ rows[i].event = "completed"
    BY <1>2, <1>4 DEF RowsOf, Tidy, Even
  <2>2. n < i
    BY <2>1 DEF Tidy
  <2> QED BY <1>1, <2>2
<1>5. \A i \in 1 .. n - 1 : i \in Kept(ago) <=> i \in Kept(rows)
  <2> TAKE i \in 1 .. n - 1
  <2>1. rows[i].event # "started" =>
           RowsOf(rows, "started", rows[i].of) \ {n} = RowsOf(rows, "started", rows[i].of)
    BY <1>4
  <2>2. i \in 1 .. n
    BY <1>1
  <2> QED BY <1>3, <2>1, <2>2
<1>6. Kept(ago) = Kept(rows) \ {n}
  <2>1. \A i \in 1 .. n : i \in 1 .. n - 1 <=> i # n
    BY <1>1
  <2> QED BY <1>3, <1>5, <2>1
<1>7. ASSUME NEW i \in Kept(ago) PROVE Earlier(i, Kept(ago)) = Earlier(i, Kept(rows))
  <2>1. i \in 1 .. n - 1
    BY <1>3
  <2>2. {j \in Kept(ago) : j < i} = {j \in Kept(rows) : j < i}
    BY <1>3, <1>6, <2>1
  <2> QED BY <2>2 DEF Earlier
<1> QED BY <1>6, <1>7

LEMMA LoneOwner ==
    ASSUME NEW rows, Tidy(rows), NEW c \in DOMAIN rows, rows[c].event = "completed",
           NEW x, x = rows[c].of, RowsOf(rows, "started", x) = {}
    PROVE  Owner(rows, x) = {c}
<1>1. RowsOf(rows, "completed", x) = {c}
  BY DEF RowsOf, Tidy
<1>2. c \notin Absorbed(rows)
  BY MatchIs DEF Tidy
<1>3. RowsOf(rows, "completed", x) \ Absorbed(rows) = {c}
  BY <1>1, <1>2
<1>4. c \in Nat
  BY RowsOfFinite DEF Tidy
<1>5. Owner(rows, x) = {i \in {c} : \A j \in {c} : i <= j}
  BY <1>3 DEF Owner, OwnerAmong
<1> QED BY <1>4, <1>5

\* A parent that was found stays.
LEMMA ParentAgo ==
    ASSUME NEW rows, Tidy(rows), NEW n, Listed(rows, n),
           NEW ago, ago = Ago(rows, n), NEW i \in 1 .. n - 1, ParentOf(ago, i) \notin Steps
    PROVE  ParentOf(rows, i) = ParentOf(ago, i)
<1>0. Shorter(rows, n, ago)
  BY AgoIs
<1>1. /\ DOMAIN ago = 1 .. n - 1 /\ \A j \in 1 .. n - 1 : ago[j] = rows[j]
      /\ \A event, x : RowsOf(ago, event, x) = RowsOf(rows, event, x) \ {n}
      /\ Tidy(ago) /\ Even(ago, 1) /\ Even(rows, 1)
  BY <1>0 DEF Shorter
<1>2. DOMAIN rows = 1 .. n /\ ago[i] = rows[i] /\ n \in Nat
  BY <1>0 DEF Shorter
<1>3. PICK p : p = rows[i].parent
  OBVIOUS
<1>4. CASE p = None
  BY <1>2, <1>3, <1>4 DEF ParentOf
<1>5. CASE p # None
  <2>1. Owner(ago, p) # {}
    <3> SUFFICES ASSUME Owner(ago, p) = {} PROVE FALSE
      OBVIOUS
    <3>1. ParentOf(ago, i) = p
      BY <1>2, <1>3, <1>5 DEF ParentOf
    <3>2. p \in Steps
      BY <1>2, <1>3, <1>5 DEF Tidy
    <3> QED BY <3>1, <3>2
  <2>2. \E j \in 1 .. n - 1 : Owner(ago, p) = {j} /\ Owner(rows, p) = {j}
    <3>1. CASE RowsOf(ago, "started", p) # {}
      <4>1. PICK j \in RowsOf(ago, "started", p) : Owner(ago, p) = {j}
        BY <1>1, <3>1, OwnerIs
      <4>2. RowsOf(rows, "started", p) # {}
        BY <1>1, <4>1
      <4>3. PICK k \in RowsOf(rows, "started", p) : Owner(rows, p) = {k}
        BY <1>1, <4>2, OwnerIs
      <4>4. j \in RowsOf(rows, "started", p) /\ j \in 1 .. n - 1
        BY <1>1 DEF RowsOf
      <4>5. j = k
        BY <4>4 DEF RowsOf, Tidy
      <4> QED BY <4>1, <4>3, <4>4, <4>5
    <3>2. CASE RowsOf(ago, "started", p) = {}
      <4>1. PICK j \in 1 .. n - 1 : rows[j].event = "completed" /\ rows[j].of = p
        <5>1. RowsOf(ago, "completed", p) # {}
          BY <2>1, <3>2 DEF Owner, OwnerAmong
        <5> QED BY <1>1, <5>1 DEF RowsOf
      <4>2. RowsOf(rows, "started", p) = {}
        <5> SUFFICES ASSUME RowsOf(rows, "started", p) # {} PROVE FALSE
          OBVIOUS
        <5>1. n \in RowsOf(rows, "started", p)
          BY <1>1, <3>2
        <5>2. rows[n].event = "started" /\ rows[n].of = p /\ n \in DOMAIN rows /\ j \in DOMAIN rows
          BY <1>2, <5>1 DEF RowsOf
        <5>3. n < j
          BY <4>1, <5>2 DEF Tidy
        <5> QED BY <1>2, <5>3
      <4>3. Owner(rows, p) = {j}
        <5>1. j \in DOMAIN rows
          BY <1>2
        <5> QED BY <4>1, <4>2, <5>1, LoneOwner
      <4>4. ago[j].event = "completed" /\ ago[j].of = p /\ j \in DOMAIN ago
        BY <1>1, <4>1
      <4>5. Owner(ago, p) = {j}
        BY <1>1, <3>2, <4>4, LoneOwner
      <4> QED BY <4>3, <4>5
    <3> QED BY <3>1, <3>2
  <2>3. PICK j \in 1 .. n - 1 : Owner(ago, p) = {j} /\ Owner(rows, p) = {j}
    BY <2>2
  <2>4. PersistedEvent(ago, j).id = PersistedEvent(rows, j).id
    BY <1>1 DEF PersistedEvent
  <2>5. (CHOOSE k \in {j} : TRUE) = j
    OBVIOUS
  <2>6. ParentOf(ago, i) = IF j = i THEN None ELSE PersistedEvent(ago, j).id
    BY <1>2, <1>3, <1>5, <2>3, <2>5 DEF ParentOf
  <2>7. ParentOf(rows, i) = IF j = i THEN None ELSE PersistedEvent(rows, j).id
    <3>1. ParentOf(rows, i) = IF Owner(rows, rows[i].parent) = {} THEN rows[i].parent
                              ELSE LET k == CHOOSE m \in Owner(rows, rows[i].parent) : TRUE IN
                                   IF k = i THEN None ELSE PersistedEvent(rows, k).id
      BY <1>3, <1>5 DEF ParentOf
    <3>2. Owner(rows, rows[i].parent) = {j}
      BY <1>3, <2>3
    <3> QED BY <2>5, <3>1, <3>2
  <2> QED BY <2>4, <2>6, <2>7
<1> QED BY <1>4, <1>5

\* What an event has from its row alone.
About(rows, i, e) ==
    /\ e.id = <<rows[i].event, rows[i].of, i - 1>> /\ e.parent = ParentOf(rows, i)
    /\ rows[i].event = "started" =>
          /\ e.startedAt = rows[i].at
          /\ RowsOf(rows, "completed", rows[i].of) = {} => e.status = "running"
    /\ rows[i].event = "completed" =>
          e.startedAt = None /\ e.status = IF rows[i].ok THEN "ok" ELSE "error"

LEMMA EventHas ==
    ASSUME NEW rows, NEW copies, Even(rows, copies), NEW i \in DOMAIN rows, NEW e, e = Event(rows, i)
    PROVE  About(rows, i, e)
BY EventIs DEF About

LEMMA EventDone ==
    ASSUME NEW rows, NEW copies, Even(rows, copies), NEW i \in DOMAIN rows, NEW e, e = Event(rows, i),
           NEW x, x = rows[i].of, rows[i].event = "started", RowsOf(rows, "completed", x) # {}
    PROVE  \E c \in RowsOf(rows, "completed", x) : e.status = IF rows[c].ok THEN "ok" ELSE "error"
BY EventIs

LEMMA EventAgo ==
    ASSUME NEW rows, Tidy(rows), NEW n, Listed(rows, n),
           NEW ago, ago = Ago(rows, n), NEW i \in 1 .. n - 1,
           NEW old, old = Event(ago, i), NEW new, new = Event(rows, i)
    PROVE  /\ new.id = old.id /\ new.startedAt = old.startedAt
           /\ old.status # "running" => new.status = old.status
           /\ old.parent \notin Steps => new.parent = old.parent
<1>1. Shorter(rows, n, ago)
  BY AgoIs
<1>2. /\ DOMAIN ago = 1 .. n - 1 /\ \A j \in 1 .. n - 1 : ago[j] = rows[j]
      /\ \A event, x : RowsOf(ago, event, x) = RowsOf(rows, event, x) \ {n}
      /\ Even(ago, 1) /\ Even(rows, 1)
  BY <1>1 DEF Shorter
<1>3. DOMAIN rows = 1 .. n /\ ago[i] = rows[i] /\ i \in DOMAIN rows /\ i \in DOMAIN ago
  <2>1. DOMAIN rows = 1 .. n /\ n \in Nat
    BY <1>1 DEF Shorter
  <2> QED BY <1>2, <2>1
<1>4. PICK x : x = rows[i].of
  OBVIOUS
<1>5. /\ new.id = <<rows[i].event, rows[i].of, i - 1>> /\ new.parent = ParentOf(rows, i)
      /\ rows[i].event = "started" =>
            /\ new.startedAt = rows[i].at
            /\ RowsOf(rows, "completed", rows[i].of) = {} => new.status = "running"
      /\ rows[i].event = "completed" =>
            new.startedAt = None /\ new.status = IF rows[i].ok THEN "ok" ELSE "error"
  <2>1. About(rows, i, new)
    BY <1>2, <1>3, EventHas
  <2> QED BY <2>1 DEF About
<1>6. /\ old.id = <<ago[i].event, ago[i].of, i - 1>> /\ old.parent = ParentOf(ago, i)
      /\ ago[i].event = "started" =>
            /\ old.startedAt = ago[i].at
            /\ RowsOf(ago, "completed", ago[i].of) = {} => old.status = "running"
      /\ ago[i].event = "completed" =>
            old.startedAt = None /\ old.status = IF ago[i].ok THEN "ok" ELSE "error"
  <2>1. About(ago, i, old)
    BY <1>2, <1>3, EventHas
  <2> QED BY <2>1 DEF About
<1>7. new.id = old.id
  BY <1>3, <1>5, <1>6
<1>8. new.parent = ParentOf(rows, i) /\ old.parent = ParentOf(ago, i)
  BY <1>5, <1>6
<1>9. CASE rows[i].event = "completed"
  <2>1. new.startedAt = None /\ new.status = IF rows[i].ok THEN "ok" ELSE "error"
    BY <1>9, <1>5
  <2>2. old.startedAt = None /\ old.status = IF rows[i].ok THEN "ok" ELSE "error"
    BY <1>3, <1>9, <1>6
  <2> QED BY <1>7, <1>8, <2>1, <2>2, ParentAgo
<1>10. CASE rows[i].event = "started"
  <2>1. new.startedAt = rows[i].at /\ old.startedAt = rows[i].at
    BY <1>3, <1>10, <1>5, <1>6
  <2>2. ASSUME old.status # "running" PROVE new.status = old.status
    <3>1. RowsOf(ago, "completed", x) # {}
      BY <1>3, <1>4, <1>10, <1>6, <2>2
    <3>2. PICK c \in RowsOf(ago, "completed", x) : old.status = IF ago[c].ok THEN "ok" ELSE "error"
      <4>1. ago[i].event = "started" /\ x = ago[i].of
        BY <1>3, <1>4, <1>10
      <4>2. i \in DOMAIN ago /\ Even(ago, 1)
        BY <1>2, <1>3
      <4> QED BY <3>1, <4>1, <4>2, EventDone
    <3>3. c \in 1 .. n - 1 /\ ago[c] = rows[c] /\ c \in RowsOf(rows, "completed", x)
      <4>1. c \in DOMAIN ago /\ c \in RowsOf(rows, "completed", x)
        <5>1. c \in DOMAIN ago
          BY <3>2 DEF RowsOf
        <5> QED BY <1>2, <3>2, <5>1
      <4> QED BY <1>2, <4>1
    <3>4. PICK d \in RowsOf(rows, "completed", x) : new.status = IF rows[d].ok THEN "ok" ELSE "error"
      BY <1>2, <1>3, <1>4, <1>10, <3>3, EventDone
    <3>5. c = d
      BY <3>3 DEF RowsOf, Tidy
    <3> QED BY <3>2, <3>3, <3>4, <3>5
  <2> QED BY <1>3, <1>7, <1>8, <2>1, <2>2, ParentAgo
<1>11. rows[i].event \in {"started", "completed"}
  BY <1>2, <1>3 DEF Even
<1> QED BY <1>9, <1>10, <1>11

LEMMA ReadGrows == IInv => ReadsGrow
<1> SUFFICES ASSUME IInv, NEW run \in Traced, NEW dir \in Dirs, file[run][dir] # <<>>,
                    NEW rows, rows = Read(run, dir),
                    NEW old, old = Logical(SubSeq(rows, 1, Len(rows) - 1)),
                    NEW new, new = Logical(rows)
             PROVE  /\ Len(old) <= Len(new)
                    /\ \A k \in DOMAIN old :
                          /\ new[k].id = old[k].id
                          /\ new[k].startedAt = old[k].startedAt
                          /\ old[k].status # "running" => new[k].status = old[k].status
                          /\ old[k].parent \notin Steps => new[k].parent = old[k].parent
  BY DEF ReadsGrow
<1>1. PICK n \in Nat \ {0} : DOMAIN rows = 1 .. n
  <2>1. file[run][dir] \in Seq(Rows)
    BY DEF IInv, TypeOK
  <2>2. Len(file[run][dir]) \in Nat \ {0} /\ DOMAIN file[run][dir] = 1 .. Len(file[run][dir])
    BY <2>1
  <2> QED BY <2>2 DEF Read
<1>2. rows = [i \in 1 .. n |-> rows[i]] /\ Len(rows) = n
  BY <1>1 DEF Read
<1>3. Tidy(rows)
  <2>1. Even(rows, 1)
    BY FileIs
  <2>2. \A i \in DOMAIN rows : rows[i].parent \in Steps \cup {None}
    BY FileIs
  <2>3. \A i, j \in DOMAIN rows :
           /\ rows[i].event = rows[j].event /\ rows[i].of = rows[j].of => i = j
           /\ (rows[i].of = rows[j].of /\ rows[i].event = "started"
                 /\ rows[j].event = "completed") => i < j
    BY FileIs
  <2> QED BY <2>1, <2>2, <2>3 DEF Tidy
<1>4. PICK ago : ago = Ago(rows, n)
  OBVIOUS
<1>5. Listed(rows, n)
  BY <1>2 DEF Listed
<1>6. Shorter(rows, n, ago)
  BY <1>3, <1>4, <1>5, AgoIs
<1>7. DOMAIN ago = 1 .. n - 1
  BY <1>6 DEF Shorter
<1>8. /\ Kept(ago) = Kept(rows) \ {n}
      /\ \A i \in Kept(ago) : Earlier(i, Kept(ago)) = Earlier(i, Kept(rows))
  BY <1>3, <1>4, <1>5, KeptAgo
<1>9. old = Logical(ago)
  BY <1>2, <1>4 DEF Ago
<1>10. Even(rows, 1) /\ Even(ago, 1)
  BY <1>6 DEF Shorter
<1>11. Len(old) <= Len(new)
  <2>1. IsFiniteSet(Kept(rows)) /\ Kept(ago) \in SUBSET Kept(rows)
    BY <1>8, <1>10, KeptIs
  <2>2. Cardinality(Kept(ago)) <= Cardinality(Kept(rows))
    BY <2>1, FS_Subset
  <2>3. Len(old) = Cardinality(Kept(ago)) /\ Len(new) = Cardinality(Kept(rows))
    BY <1>9, <1>10, LogicalIs
  <2> QED BY <2>2, <2>3
<1>12. ASSUME NEW k \in DOMAIN old
       PROVE  \E i \in 1 .. n - 1 : old[k] = Event(ago, i) /\ new[k] = Event(rows, i)
  <2>1. PICK i : i = Opening(Kept(ago), k)
    OBVIOUS
  <2>2. i \in Kept(ago) /\ Earlier(i, Kept(ago)) = k - 1 /\ old[k] = Event(ago, i) /\ k \in Int
    BY <1>9, <1>10, <2>1, LogicalIs
  <2>3. i \in Kept(rows) /\ Earlier(i, Kept(rows)) = k - 1
    BY <1>8, <2>2
  <2>4. new[Earlier(i, Kept(rows)) + 1] = Event(rows, i)
    BY <1>10, <2>3, LogicalIs
  <2>5. Earlier(i, Kept(rows)) + 1 = k
    BY <2>2, <2>3
  <2>6. i \in 1 .. n - 1
    BY <1>7, <2>2 DEF Kept
  <2> QED BY <2>2, <2>4, <2>5, <2>6
<1>13. ASSUME NEW k \in DOMAIN old
       PROVE  /\ new[k].id = old[k].id
              /\ new[k].startedAt = old[k].startedAt
              /\ old[k].status # "running" => new[k].status = old[k].status
              /\ old[k].parent \notin Steps => new[k].parent = old[k].parent
  BY <1>3, <1>4, <1>12, <1>5, EventAgo
<1> QED BY <1>11, <1>13

-----------------------------------------------------------------------------
(* At every moment of a tracing with its times                              *)

\* The clock and the times of calls leave the tracing itself alone.
LEMMA TimedNext == [TNext]_<<vars, times>> => [Next]_vars
<1>1. ASSUME TNext PROVE [Next]_vars
  <2>1. ASSUME NEW x \in Calls, Called(x) PROVE Next
    BY <2>1 DEF Called, Next
  <2>2. ASSUME NEW x \in Calls, NEW ok \in BOOLEAN, Settles(x, ok) PROVE Next
    BY <2>2 DEF Settles, Next
  <2>3. ASSUME NEW x \in Calls, NEW d \in Outcomes, FileInitialised(x, d) \/ RowWritten(x, d)
        PROVE  Next
    BY <2>3 DEF Next
  <2>4. CASE Tick
    BY <2>4 DEF Tick
  <2> QED BY <1>1, <2>1, <2>2, <2>3, <2>4 DEF TNext
<1>2. ASSUME UNCHANGED <<vars, times>> PROVE UNCHANGED vars
  BY <1>2
<1> QED BY <1>1, <1>2

LEMMA TimedIInv ==
    /\ TInit => IInv
    /\ IInv /\ [TNext]_<<vars, times>> => IInv'
BY InitIInv, StepIInv, TimedNext DEF TInit

\* A file that passes the run checks is of a run that settled without an error, and every call
\* started in it has settled and has the step around it in the file.
THEOREM SettledWhenPassed == TSpec => []PassMeansSettled
BY TimedIInv, PassSettled, PTL DEF TSpec

\* Whenever a file is read, with calls running, rows refused or split over two directories, its
\* logical events say of each call started in it what became of it and where it belongs, and
\* those of a settled run's file delivered twice say so twice.
THEOREM ReadsRight == TSpec => []ReadBack
BY TimedIInv, ReadRight, PTL DEF TSpec

\* A reader never has to take back what it read of a file when that had one row less.
THEOREM ReadsOnlyGrow == TSpec => []ReadsGrow
BY TimedIInv, ReadGrows, PTL DEF TSpec

-----------------------------------------------------------------------------
(* Times                                                                    *)

LEMMA TimesInit == TInit => TIInv
<1> SUFFICES ASSUME TInit PROVE TIInv
  OBVIOUS
<1>1. /\ Init /\ clock = 0
      /\ calledAt = [x \in Calls |-> 0] /\ settledAt = [x \in Calls |-> 0]
      /\ returned = [x \in Calls |-> {}] /\ open = [x \in Calls |-> {}]
      /\ \A x \in Calls : pc[x] = "new"
      /\ \A run \in Traced, dir \in Dirs : file[run][dir] = <<>>
  BY DEF TInit, Init
<1>2. TimesOK
  BY <1>1 DEF TimesOK, Over
<1>3. Later /\ Compared /\ NoRound
  BY <1>1 DEF Later, Compared, NoRound
<1>4. RowsApart
  BY <1>1 DEF RowsApart
<1> QED BY <1>1, <1>2, <1>3, <1>4, InitIInv DEF TIInv

\* What Called does: the times of x, and nothing of the other calls.
LEMMA CalledIs ==
    ASSUME TIInv, NEW x \in Calls, Called(x)
    PROVE  /\ pc[x] = "new" /\ pc'[x] \in {"creating", "starting"}
           /\ \A y \in Calls \ {x} : pc'[y] = pc[y]
           /\ file' = file /\ clock' = clock /\ settledAt' = settledAt
           /\ \A y \in Calls \ {x} : /\ calledAt'[y] = calledAt[y]
                                     /\ returned'[y] = returned[y] /\ open'[y] = open[y]
           /\ calledAt'[x] = clock
           /\ returned'[x] = {y \in Calls : pc[y] = "settled"}
           /\ open'[x] = {y \in Calls : pc[y] \in {"creating", "starting", "inside"}}
           /\ calledAt' \in [Calls -> Nat] /\ returned' \in [Calls -> SUBSET Calls]
           /\ open' \in [Calls -> SUBSET Calls]
<1>1. /\ pc \in [Calls -> Pcs] /\ clock \in Nat /\ calledAt \in [Calls -> Nat]
      /\ returned \in [Calls -> SUBSET Calls] /\ open \in [Calls -> SUBSET Calls]
  BY DEF TIInv, IInv, TypeOK, Pcs, TimesOK
<1>2. PICK at, context : at \in {"creating", "starting"} /\ Enter(x, at, context)
  BY DEF Called, RunCalled, StepCalled
<1>3. pc[x] = "new" /\ pc' = [pc EXCEPT ![x] = at] /\ file' = file
  BY <1>2 DEF Enter, MayCall
<1>4. /\ calledAt' = [calledAt EXCEPT ![x] = clock]
      /\ returned' = [returned EXCEPT ![x] = {y \in Calls : pc[y] = "settled"}]
      /\ open' = [open EXCEPT ![x] =
                    {y \in Calls : pc[y] \in {"creating", "starting", "inside"}}]
      /\ clock' = clock /\ settledAt' = settledAt
  BY DEF Called
<1> QED BY <1>1, <1>2, <1>3, <1>4

\* The steps in contexts were called before, and contexts stay.
LEMMA ContextLasts ==
    ASSUME TIInv, NEW x \in Calls, [Next]_vars, pc[x] # "new"
    PROVE  /\ Context(x)' = Context(x)
           /\ Context(x).step # None => Context(x).step \in Calls /\ pc[Context(x).step] \in Begun
<1>1. TypeOK /\ Nested
  BY DEF TIInv, IInv
<1>2. Outer[x] # None => Outer[x] \in Calls /\ pc[Outer[x]] \in Begun
  BY <1>1, TracingAssumption DEF Nested
<1>3. Context(x)' = Context(x)
  BY <1>1, <1>2, Progress DEF Context, Begun
<1>4. Context(x).step \in Steps \cup {None}
  BY <1>1, ContextType DEF Contexts, NoContext
<1>5. Context(x).step # None => pc[Context(x).step] \in Begun
  BY <1>1, <1>2, ContextBegun
<1> QED BY <1>3, <1>4, <1>5 DEF Calls

LEMMA CalledStep ==
    ASSUME TIInv, NEW x \in Calls, Called(x), [Next]_vars
    PROVE  (TimesOK /\ Later /\ Compared /\ NoRound /\ RowsApart)'
<1>1. /\ pc[x] = "new" /\ pc'[x] \in {"creating", "starting"}
      /\ \A y \in Calls \ {x} : pc'[y] = pc[y]
      /\ file' = file /\ clock' = clock /\ settledAt' = settledAt
      /\ \A y \in Calls \ {x} : /\ calledAt'[y] = calledAt[y]
                                /\ returned'[y] = returned[y] /\ open'[y] = open[y]
      /\ calledAt'[x] = clock
      /\ returned'[x] = {y \in Calls : pc[y] = "settled"}
      /\ open'[x] = {y \in Calls : pc[y] \in {"creating", "starting", "inside"}}
      /\ calledAt' \in [Calls -> Nat] /\ returned' \in [Calls -> SUBSET Calls]
      /\ open' \in [Calls -> SUBSET Calls]
  BY CalledIs
<1>2. /\ clock \in Nat /\ calledAt \in [Calls -> Nat] /\ settledAt \in [Calls -> Nat]
      /\ \A y \in Calls :
            /\ calledAt[y] <= clock /\ settledAt[y] <= clock
            /\ Over(y) => calledAt[y] <= settledAt[y]
            /\ pc[y] = "new" => returned[y] = {} /\ open[y] = {}
      /\ returned \in [Calls -> SUBSET Calls] /\ open \in [Calls -> SUBSET Calls]
  BY DEF TIInv, TimesOK
<1>3. ~Over(x) /\ ~(Over(x)') /\ \A y \in Calls \ {x} : Over(y)' <=> Over(y)
  BY <1>1 DEF Over
<1>4. \A y \in Calls : x \notin open[y] /\ x \notin returned[y]
  BY <1>1 DEF TIInv, Later
<1>5. TimesOK'
  <2>1. \A y \in Calls :
           /\ calledAt'[y] <= clock /\ settledAt[y] <= clock
           /\ Over(y)' => calledAt'[y] <= settledAt[y]
           /\ pc'[y] = "new" => returned'[y] = {} /\ open'[y] = {}
    <3> TAKE y \in Calls
    <3>1. CASE y = x
      BY <1>1, <1>2, <1>3, <3>1
    <3>2. CASE y # x
      BY <1>1, <1>2, <1>3, <3>2
    <3> QED BY <3>1, <3>2
  <2> QED BY <1>1, <1>2, <2>1 DEF TimesOK
<1>6. Later'
  <2> SUFFICES ASSUME NEW y \in Calls
               PROVE  /\ \A z \in returned'[y] :
                            pc'[z] = "settled" /\ settledAt'[z] <= calledAt'[y]
                      /\ \A z \in open'[y] :
                            /\ pc'[z] # "new" /\ z # y /\ calledAt'[z] <= calledAt'[y]
                            /\ Over(z)' => calledAt'[y] <= settledAt'[z]
                      /\ pc'[y] # "new" /\ (Context(y)').step # None =>
                            calledAt'[(Context(y)').step] <= calledAt'[y]
    BY DEF Later
  <2>1. CASE y = x
    <3>1. \A z \in returned'[x] : z \in Calls \ {x} /\ pc[z] = "settled"
      BY <1>1
    <3>2. \A z \in open'[x] : z \in Calls \ {x} /\ pc[z] \in {"creating", "starting", "inside"}
      BY <1>1
    <3>3. Context(x)' = Context(x)
      <4>1. PICK at, context : at \in {"creating", "starting"} /\ Enter(x, at, context)
        BY DEF Called, RunCalled, StepCalled
      <4>2. store' = [store EXCEPT ![x] = context] /\ Outer[x] # x /\ store \in [Calls -> Contexts]
        BY <4>1, TracingAssumption DEF Enter, MayCall, TIInv, IInv, TypeOK, Contexts
      <4> QED BY <4>2, TracingAssumption DEF Context
    <3>4. Context(x).step # None => Context(x).step \in Calls \ {x}
      <4>1. TypeOK /\ Nested
        BY DEF TIInv, IInv
      <4>2. Outer[x] # None => pc[Outer[x]] \in Begun
        BY DEF Called, RunCalled, StepCalled, Enter, MayCall, Begun
      <4>3. Context(x).step \in Steps \cup {None}
        BY <4>1, ContextType DEF Contexts, NoContext
      <4>4. Context(x).step # None => pc[Context(x).step] \in Begun
        BY <4>1, <4>2, ContextBegun
      <4> QED BY <1>1, <4>3, <4>4 DEF Calls, Begun
    <3>5. \A z \in Calls \ {x} : calledAt'[z] <= clock
      BY <1>1, <1>2
    <3>6. \A z \in open'[x] : ~(Over(z)')
      BY <1>1, <3>2 DEF Over
    <3> QED BY <1>1, <1>2, <2>1, <3>1, <3>2, <3>3, <3>4, <3>5, <3>6
  <2>2. CASE y # x
    <3>1. /\ \A z \in returned[y] : pc[z] = "settled" /\ settledAt[z] <= calledAt[y]
          /\ \A z \in open[y] :
                /\ pc[z] # "new" /\ z # y /\ calledAt[z] <= calledAt[y]
                /\ Over(z) => calledAt[y] <= settledAt[z]
          /\ pc[y] # "new" /\ Context(y).step # None =>
                calledAt[Context(y).step] <= calledAt[y]
      BY DEF TIInv, Later
    <3>2. \A z \in returned[y] \cup open[y] : z \in Calls \ {x}
      BY <1>2, <1>4
    <3>3. pc[y] # "new" => /\ Context(y)' = Context(y)
                           /\ Context(y).step # None => Context(y).step \in Calls \ {x}
      BY <1>1, ContextLasts DEF Begun
    <3> QED BY <1>1, <1>3, <2>2, <3>1, <3>2, <3>3
  <2> QED BY <2>1, <2>2
<1>7. Compared'
  <2> SUFFICES ASSUME NEW y \in Calls, NEW z \in Calls, y # z, pc'[y] # "new", pc'[z] # "new"
               PROVE  \/ y \in open'[z] \/ z \in open'[y]
                      \/ Over(y)' /\ settledAt'[y] <= calledAt'[z]
                      \/ Over(z)' /\ settledAt'[z] <= calledAt'[y]
    BY DEF Compared
  <2>1. ASSUME NEW u \in Calls \ {x}, pc'[u] # "new"
        PROVE  u \in open'[x] \/ (Over(u)' /\ settledAt'[u] <= calledAt'[x])
    <3>1. pc[u] \in Pcs /\ pc[u] # "new"
      BY <1>1, <2>1 DEF TIInv, IInv, TypeOK, Pcs
    <3> QED BY <1>1, <1>2, <1>3, <3>1 DEF Pcs, Over
  <2>2. CASE y # x /\ z # x
    <3>1. \/ y \in open[z] \/ z \in open[y]
          \/ Over(y) /\ settledAt[y] <= calledAt[z]
          \/ Over(z) /\ settledAt[z] <= calledAt[y]
      BY <1>1, <2>2 DEF TIInv, Compared
    <3> QED BY <1>1, <1>3, <2>2, <3>1
  <2> QED BY <2>1, <2>2
<1>8. NoRound'
  <2> SUFFICES ASSUME NEW u \in Calls, NEW y \in Calls, NEW z \in Calls,
                      u \in open'[y], y \in open'[z]
               PROVE  u # z /\ z \notin open'[u]
    BY DEF NoRound
  <2>1. u # x /\ y # x
    <3>1. x \notin open'[x] /\ \A v \in Calls \ {x} : x \notin open'[v]
      BY <1>1, <1>4
    <3> QED BY <3>1
  <2>2. CASE z = x
    BY <1>1, <1>4, <2>1, <2>2
  <2>3. CASE z # x
    BY <1>1, <2>1, <2>3 DEF TIInv, NoRound
  <2> QED BY <2>2, <2>3
<1>9. RowsApart'
  <2> SUFFICES ASSUME NEW run \in Traced, NEW dir \in Dirs,
                      NEW i \in DOMAIN file[run][dir], NEW j \in DOMAIN file[run][dir],
                      file[run][dir][i].of \in returned'[file[run][dir][j].of]
               PROVE  i < j
    BY <1>1 DEF RowsApart
  <2>1. pc[file[run][dir][j].of] \in Begun
    BY DEF TIInv, IInv, RowsMatch
  <2>2. file[run][dir][j].of \in Calls
    <3>1. file[run][dir] \in Seq(Rows)
      BY DEF TIInv, IInv, TypeOK
    <3>2. file[run][dir][j] \in Rows
      BY <3>1
    <3> QED BY <3>2 DEF Rows
  <2>3. file[run][dir][j].of # x
    BY <1>1, <2>1 DEF Begun
  <2> QED BY <1>1, <2>2, <2>3 DEF TIInv, RowsApart
<1> QED BY <1>5, <1>6, <1>7, <1>8, <1>9

LEMMA SettlesStep ==
    ASSUME TIInv, NEW x \in Calls, NEW ok \in BOOLEAN, Settles(x, ok), [Next]_vars
    PROVE  (TimesOK /\ Later /\ Compared /\ NoRound /\ RowsApart)'
<1>1. /\ pc[x] = "inside" /\ pc'[x] \in {"completing", "settled"}
      /\ \A y \in Calls \ {x} : pc'[y] = pc[y]
      /\ file' = file /\ clock' = clock /\ calledAt' = calledAt
      /\ returned' = returned /\ open' = open
      /\ \A y \in Calls \ {x} : settledAt'[y] = settledAt[y]
      /\ settledAt'[x] = clock /\ settledAt' \in [Calls -> Nat]
  BY DEF Settles, FnSettles, TIInv, IInv, TypeOK, TimesOK
<1>2. /\ clock \in Nat /\ calledAt \in [Calls -> Nat] /\ settledAt \in [Calls -> Nat]
      /\ \A y \in Calls :
            /\ calledAt[y] <= clock /\ settledAt[y] <= clock
            /\ Over(y) => calledAt[y] <= settledAt[y]
            /\ pc[y] = "new" => returned[y] = {} /\ open[y] = {}
      /\ returned \in [Calls -> SUBSET Calls] /\ open \in [Calls -> SUBSET Calls]
  BY DEF TIInv, TimesOK
<1>3. Over(x)' /\ ~Over(x) /\ \A y \in Calls \ {x} : Over(y)' <=> Over(y)
  BY <1>1 DEF Over
<1>4. TimesOK'
  <2>1. \A y \in Calls :
           /\ calledAt[y] <= clock /\ settledAt'[y] <= clock
           /\ Over(y)' => calledAt[y] <= settledAt'[y]
           /\ pc'[y] = "new" => returned[y] = {} /\ open[y] = {}
    <3> TAKE y \in Calls
    <3>1. CASE y = x
      BY <1>1, <1>2, <3>1
    <3>2. CASE y # x
      BY <1>1, <1>2, <1>3, <3>2
    <3> QED BY <3>1, <3>2
  <2> QED BY <1>1, <1>2, <2>1 DEF TimesOK
<1>5. Later'
  <2> SUFFICES ASSUME NEW y \in Calls
               PROVE  /\ \A z \in returned[y] :
                            pc'[z] = "settled" /\ settledAt'[z] <= calledAt[y]
                      /\ \A z \in open[y] :
                            /\ pc'[z] # "new" /\ z # y /\ calledAt[z] <= calledAt[y]
                            /\ Over(z)' => calledAt[y] <= settledAt'[z]
                      /\ pc'[y] # "new" /\ (Context(y)').step # None =>
                            calledAt[(Context(y)').step] <= calledAt[y]
    BY <1>1 DEF Later
  <2>1. /\ \A z \in returned[y] : pc[z] = "settled" /\ settledAt[z] <= calledAt[y]
        /\ \A z \in open[y] :
              /\ pc[z] # "new" /\ z # y /\ calledAt[z] <= calledAt[y]
              /\ Over(z) => calledAt[y] <= settledAt[z]
        /\ pc[y] # "new" /\ Context(y).step # None =>
              calledAt[Context(y).step] <= calledAt[y]
    BY DEF TIInv, Later
  <2>2. \A z \in returned[y] : z \in Calls \ {x}
    BY <1>1, <1>2, <2>1
  <2>3. ASSUME NEW z \in open[y]
        PROVE  pc'[z] # "new" /\ (Over(z)' => calledAt[y] <= settledAt'[z])
    <3>1. z \in Calls
      BY <1>2
    <3>2. CASE z = x
      BY <1>1, <1>2, <3>2
    <3>3. CASE z # x
      BY <1>1, <1>3, <2>1, <3>1, <3>3
    <3> QED BY <3>2, <3>3
  <2>4. pc'[y] # "new" => pc[y] # "new"
    BY <1>1
  <2>5. pc[y] # "new" => Context(y)' = Context(y)
    BY ContextLasts
  <2> QED BY <1>1, <2>1, <2>2, <2>3, <2>4, <2>5
<1>6. Compared'
  <2> SUFFICES ASSUME NEW y \in Calls, NEW z \in Calls, y # z, pc'[y] # "new", pc'[z] # "new"
               PROVE  \/ y \in open[z] \/ z \in open[y]
                      \/ Over(y)' /\ settledAt'[y] <= calledAt[z]
                      \/ Over(z)' /\ settledAt'[z] <= calledAt[y]
    BY <1>1 DEF Compared
  <2>1. pc[y] # "new" /\ pc[z] # "new"
    BY <1>1
  <2>2. \/ y \in open[z] \/ z \in open[y]
        \/ Over(y) /\ settledAt[y] <= calledAt[z]
        \/ Over(z) /\ settledAt[z] <= calledAt[y]
    BY <2>1 DEF TIInv, Compared
  <2> QED BY <1>1, <1>3, <2>2
<1>7. NoRound'
  BY <1>1 DEF TIInv, NoRound
<1>8. RowsApart'
  BY <1>1 DEF TIInv, RowsApart
<1> QED BY <1>4, <1>5, <1>6, <1>7, <1>8

\* The file operations of a call leave the times, and settle nothing of the others.
LEMMA OperationStep ==
    ASSUME TIInv, NEW x \in Calls, [Next]_vars, UNCHANGED times,
           pc[x] # "new", pc'[x] # "new", Over(x)' <=> Over(x),
           \A y \in Calls \ {x} : pc'[y] = pc[y], pc[x] # "settled"
    PROVE  (TimesOK /\ Later /\ Compared /\ NoRound)'
<1>1. /\ clock' = clock /\ calledAt' = calledAt /\ settledAt' = settledAt
      /\ returned' = returned /\ open' = open
  BY DEF times
<1>2. \A y \in Calls : (Over(y)' <=> Over(y)) /\ (pc'[y] = "new" <=> pc[y] = "new")
                       /\ (pc[y] = "settled" => pc'[y] = "settled")
  BY DEF Over
<1>3. returned \in [Calls -> SUBSET Calls] /\ open \in [Calls -> SUBSET Calls]
  BY DEF TIInv, TimesOK
<1>4. TimesOK'
  BY <1>1, <1>2 DEF TIInv, TimesOK
<1>5. Later'
  <2> SUFFICES ASSUME NEW y \in Calls
               PROVE  /\ \A z \in returned[y] :
                            pc'[z] = "settled" /\ settledAt[z] <= calledAt[y]
                      /\ \A z \in open[y] :
                            /\ pc'[z] # "new" /\ z # y /\ calledAt[z] <= calledAt[y]
                            /\ Over(z)' => calledAt[y] <= settledAt[z]
                      /\ pc'[y] # "new" /\ (Context(y)').step # None =>
                            calledAt[(Context(y)').step] <= calledAt[y]
    BY <1>1 DEF Later
  <2>1. /\ \A z \in returned[y] : pc[z] = "settled" /\ settledAt[z] <= calledAt[y]
        /\ \A z \in open[y] :
              /\ pc[z] # "new" /\ z # y /\ calledAt[z] <= calledAt[y]
              /\ Over(z) => calledAt[y] <= settledAt[z]
        /\ pc[y] # "new" /\ Context(y).step # None =>
              calledAt[Context(y).step] <= calledAt[y]
    BY DEF TIInv, Later
  <2>2. pc[y] # "new" => Context(y)' = Context(y)
    BY ContextLasts
  <2> QED BY <1>2, <1>3, <2>1, <2>2
<1>6. Compared'
  BY <1>1, <1>2 DEF TIInv, Compared
<1>7. NoRound'
  BY <1>1 DEF TIInv, NoRound
<1> QED BY <1>4, <1>5, <1>6, <1>7

LEMMA FileStepTimes ==
    ASSUME TIInv, NEW x \in Calls, NEW d \in Outcomes, [Next]_vars, UNCHANGED times,
           FileInitialised(x, d) \/ RowWritten(x, d)
    PROVE  (TimesOK /\ Later /\ Compared /\ NoRound /\ RowsApart)'
<1>0. TypeOK /\ Nested /\ file \in [Traced -> [Dirs -> Seq(Rows)]]
  BY DEF TIInv, IInv, TypeOK
<1>1. returned' = returned
  BY DEF times
<1>2. CASE FileInitialised(x, d)
  <2>1. /\ pc[x] = "creating" /\ pc'[x] = "starting" /\ \A y \in Calls \ {x} : pc'[y] = pc[y]
    BY <1>0, <1>2 DEF FileInitialised, TypeOK
  <2>2. (TimesOK /\ Later /\ Compared /\ NoRound)'
    BY <2>1, OperationStep DEF Over
  <2>3. ASSUME NEW run \in Traced, NEW dir \in Dirs
        PROVE  file'[run][dir] = file[run][dir] \/ file'[run][dir] = <<>>
    BY <1>0, <1>2 DEF FileInitialised
  <2>4. RowsApart'
    BY <1>1, <2>3 DEF TIInv, RowsApart
  <2> QED BY <2>2, <2>4
<1>3. CASE RowWritten(x, d)
  <2>1. /\ pc[x] \in {"starting", "completing"} /\ pc'[x] # "new" /\ pc'[x] \in Pcs
        /\ \A y \in Calls \ {x} : pc'[y] = pc[y]
        /\ pc'[x] = IF pc[x] = "starting" THEN "inside" ELSE "settled"
    BY <1>0, <1>3 DEF RowWritten, TypeOK, Pcs
  <2>2. (TimesOK /\ Later /\ Compared /\ NoRound)'
    BY <2>1, OperationStep DEF Over
  <2>3. RunOf(x) \in Traced
    BY <1>0, <1>3, ContextType DEF RowWritten, Nested
  <2>4. ASSUME NEW run \in Traced, NEW dir \in Dirs
        PROVE  file'[run][dir] \in {file[run][dir], Append(file[run][dir], Row(x))}
    <3>1. Row(x) \in Rows
      BY <1>0, RowType
    <3>2. CASE run = RunOf(x)
      <4>1. file'[run] = Appended(d, Row(x), file[run])
        BY <1>0, <1>3, <2>3, <3>2 DEF RowWritten
      <4> QED BY <1>0, <3>1, <4>1, AppendedIs
    <3>3. CASE run # RunOf(x)
      BY <1>0, <1>3, <2>3, <3>3 DEF RowWritten
    <3> QED BY <3>2, <3>3
  <2>5. Row(x).of = x
    BY DEF Row
  <2>6. \A y \in Calls : x \notin returned[y]
    BY <2>1 DEF TIInv, Later
  <2>7. ASSUME NEW run \in Traced, NEW dir \in Dirs,
               NEW i \in DOMAIN file'[run][dir], NEW j \in DOMAIN file'[run][dir],
               file'[run][dir][i].of \in returned[file'[run][dir][j].of]
        PROVE  i < j
    <3>1. PICK f \in Seq(Rows) : f = file[run][dir]
      BY <1>0
    <3>2. CASE file'[run][dir] = f
      BY <2>7, <3>1, <3>2 DEF TIInv, RowsApart
    <3>3. CASE file'[run][dir] = Append(f, Row(x))
      <4>1. PICK g : g = Append(f, Row(x))
        OBVIOUS
      <4>2. Row(x) \in Rows
        BY <1>0, RowType
      <4>3. /\ DOMAIN g = 1 .. Len(f) + 1 /\ g[Len(f) + 1] = Row(x) /\ Len(f) \in Nat
            /\ \A k \in 1 .. Len(f) : g[k] = f[k]
            /\ DOMAIN f = 1 .. Len(f)
        BY <3>1, <4>1, <4>2
      <4>4. \A k \in DOMAIN g : g[k].of \in Calls
        <5>1. g \in Seq(Rows)
          BY <3>1, <4>1, <4>2
        <5>2. \A k \in DOMAIN g : g[k] \in Rows
          BY <5>1
        <5> QED BY <5>2 DEF Rows
      <4>5. i # Len(f) + 1
        BY <2>5, <2>6, <2>7, <3>3, <4>1, <4>3, <4>4
      <4>6. CASE j = Len(f) + 1
        BY <3>3, <4>1, <4>3, <4>5, <4>6
      <4>7. CASE j # Len(f) + 1
        <5>1. i \in DOMAIN f /\ j \in DOMAIN f /\ g[i] = f[i] /\ g[j] = f[j]
          BY <3>3, <4>1, <4>3, <4>5, <4>7
        <5> QED BY <2>7, <3>1, <3>3, <4>1, <5>1 DEF TIInv, RowsApart
      <4> QED BY <4>6, <4>7
    <3> QED BY <2>4, <3>1, <3>2, <3>3
  <2>8. RowsApart'
    BY <1>1, <2>7 DEF RowsApart
  <2> QED BY <2>2, <2>8
<1> QED BY <1>2, <1>3

LEMMA TickStep ==
    ASSUME TIInv, Tick
    PROVE  (TimesOK /\ Later /\ Compared /\ NoRound /\ RowsApart)'
<1>1. /\ pc' = pc /\ store' = store /\ file' = file /\ calledAt' = calledAt
      /\ settledAt' = settledAt /\ returned' = returned /\ open' = open /\ clock' = clock + 1
  BY DEF Tick, vars
<1>2. TimesOK'
  BY <1>1 DEF TIInv, TimesOK, Over
<1>3. Later'
  BY <1>1 DEF TIInv, Later, Over, Context
<1>4. Compared'
  BY <1>1 DEF TIInv, Compared, Over
<1>5. NoRound' /\ RowsApart'
  BY <1>1 DEF TIInv, NoRound, RowsApart
<1> QED BY <1>2, <1>3, <1>4, <1>5

LEMMA TimesStep == TIInv /\ [TNext]_<<vars, times>> => TIInv'
<1> SUFFICES ASSUME TIInv, [TNext]_<<vars, times>> PROVE TIInv'
  OBVIOUS
<1>1. IInv' /\ IInv
  BY TimedIInv DEF TIInv
<1>2. [Next]_vars
  BY TimedNext
<1>3. (TimesOK /\ Later /\ Compared /\ NoRound /\ RowsApart)'
  <2>1. ASSUME NEW x \in Calls, Called(x) PROVE (TimesOK /\ Later /\ Compared /\ NoRound /\ RowsApart)'
    BY <1>2, <2>1, CalledStep
  <2>2. ASSUME NEW x \in Calls, NEW ok \in BOOLEAN, Settles(x, ok)
        PROVE  (TimesOK /\ Later /\ Compared /\ NoRound /\ RowsApart)'
    BY <1>2, <2>2, SettlesStep
  <2>3. ASSUME NEW x \in Calls, NEW d \in Outcomes,
               FileInitialised(x, d) \/ RowWritten(x, d), UNCHANGED times
        PROVE  (TimesOK /\ Later /\ Compared /\ NoRound /\ RowsApart)'
    BY <1>2, <2>3, FileStepTimes
  <2>4. CASE Tick
    BY <2>4, TickStep
  <2>5. CASE UNCHANGED <<vars, times>>
    BY <2>5 DEF vars, times, TIInv, TimesOK, Later, Compared, NoRound, RowsApart, Over, Context
  <2> QED BY <2>1, <2>2, <2>3, <2>4, <2>5 DEF TNext
<1> QED BY <1>1, <1>3 DEF TIInv

-----------------------------------------------------------------------------
(* What the rules of order read                                             *)

LEMMA MaxMin ==
    ASSUME NEW S, IsFiniteSet(S), S # {}, S \subseteq Nat
    PROVE  /\ Max(S) \in S /\ Min(S) \in S
           /\ \A y \in S : Min(S) <= y /\ y <= Max(S)
<1> DEFINE n == Cardinality(S)
<1>1. n \in Nat /\ n # 0
  BY FS_EmptySet, FS_CardinalityType
<1> HIDE DEF n
<1>2. /\ \A i \in S : Earlier(i, S) \in 0 .. n - 1
      /\ \A i, j \in S : i < j <=> Earlier(i, S) < Earlier(j, S)
      /\ \A k \in 0 .. n - 1 : \E i \in S : Earlier(i, S) = k
  BY Places DEF n
<1>3. 0 \in 0 .. n - 1 /\ n - 1 \in 0 .. n - 1
  BY <1>1
<1>4. PICK first \in S : Earlier(first, S) = 0
  BY <1>2, <1>3
<1>5. PICK last \in S : Earlier(last, S) = n - 1
  BY <1>2, <1>3
<1>6. \A y \in S : first <= y
  <2> TAKE y \in S
  <2>1. ~(Earlier(y, S) < Earlier(first, S))
    BY <1>2, <1>4
  <2>2. ~(y < first)
    BY <1>2, <2>1
  <2> QED BY <2>2
<1>7. \A y \in S : last >= y
  <2> TAKE y \in S
  <2>1. ~(Earlier(last, S) < Earlier(y, S))
    BY <1>1, <1>2, <1>5
  <2>2. ~(last < y)
    BY <1>2, <2>1
  <2> QED BY <2>2
<1>8. Max(S) \in S /\ \A y \in S : Max(S) >= y
  BY <1>5, <1>7 DEF Max
<1>9. Min(S) \in S /\ \A y \in S : Min(S) <= y
  BY <1>4, <1>6 DEF Min
<1>10. \A y \in S : y <= Max(S)
  BY <1>8
<1> QED BY <1>8, <1>9, <1>10

\* The event says of a call whose start is in the file what the rows do, and where they are.
Tells(run, dir, rows, e, x) ==
    /\ e.name = x /\ e.kind = IF x \in Runs THEN "RUN" ELSE "TOOL"
    /\ e.startedAt = calledAt[x] /\ StartMs(e) = calledAt[x]
    /\ FirstRow(e) \in RowsOf(rows, "started", x)
    /\ x \notin InFile(run, dir, "completed") => e.status = "running" /\ e.endedAt = None
    /\ x \in InFile(run, dir, "completed") =>
          /\ e.status # "running" /\ e.endedAt = settledAt[x]
          /\ LastRow(e) \in RowsOf(rows, "completed", x)

LEMMA EventTold ==
    ASSUME IInv, TimesOK, NEW run \in Traced, NEW dir \in Dirs, NEW rows, rows = Read(run, dir),
           NEW i \in DOMAIN rows, NEW e, e = Event(rows, i)
    PROVE  /\ FirstRow(e) = i /\ e.parent = ParentOf(rows, i)
           /\ e.id = <<rows[i].event, rows[i].of, i - 1>>
           /\ rows[i].event = "started" => Tells(run, dir, rows, e, rows[i].of)
           /\ rows[i].event = "completed" => e.kind # "TOOL" /\ e.startedAt = None
<1>1. Even(rows, 1)
  BY FileIs
<1>2. PICK x : x = rows[i].of
  OBVIOUS
<1>3. /\ x \in Calls /\ rows[i].event \in {"started", "completed"}
      /\ \A j \in DOMAIN rows :
            rows[j].at = IF rows[j].event = "started" THEN calledAt[rows[j].of]
                                                      ELSE settledAt[rows[j].of]
      /\ \A j, k \in DOMAIN rows : (rows[j].of = rows[k].of /\ rows[j].event = "started"
                                      /\ rows[k].event = "completed") => j < k
      /\ x \in InFile(run, dir, "completed") <=> RowsOf(rows, "completed", x) # {}
  BY <1>2, FileIs
<1>4. e.parent = ParentOf(rows, i) /\ e.id = <<rows[i].event, x, i - 1>>
  BY <1>1, <1>2, EventIs
<1>5. CASE rows[i].event = "completed"
  <2>1. /\ e.kind = IF x \in Runs THEN "RUN" ELSE "LOGIC"
        /\ e.startedAt = None /\ e.sources = <<i>>
    BY <1>1, <1>2, <1>5, EventIs
  <2> QED BY <1>2, <1>4, <1>5, <2>1 DEF FirstRow
<1>6. CASE rows[i].event = "started"
  <2>1. /\ e.kind = (IF x \in Runs THEN "RUN" ELSE "TOOL")
        /\ e.name = x /\ e.startedAt = rows[i].at
        /\ e.sources[1] = i
    BY <1>1, <1>2, <1>6, EventIs
  <2>2. e.startedAt = calledAt[x] /\ calledAt[x] \in Nat
    BY <1>2, <1>3, <1>6, <2>1 DEF TimesOK
  <2>3. StartMs(e) = calledAt[x]
    <3>1. e.startedAt # None
      BY <2>2, ReadingAssumption
    <3> QED BY <2>2, <3>1 DEF StartMs
  <2>4. FirstRow(e) = i /\ i \in RowsOf(rows, "started", x)
    BY <1>2, <1>6, <2>1 DEF FirstRow, RowsOf
  <2>5. ASSUME x \notin InFile(run, dir, "completed")
        PROVE  e.status = "running" /\ e.endedAt = None
    <3>1. RowsOf(rows, "completed", x) = {}
      BY <1>3, <2>5
    <3> QED BY <1>1, <1>2, <1>6, <3>1, EventIs
  <2>6. ASSUME x \in InFile(run, dir, "completed")
        PROVE  /\ e.status # "running" /\ e.endedAt = settledAt[x]
               /\ LastRow(e) \in RowsOf(rows, "completed", x)
    <3>1. RowsOf(rows, "completed", x) # {}
      BY <1>3, <2>6
    <3>2. PICK c \in RowsOf(rows, "completed", x) :
             /\ e.status = IF rows[c].ok THEN "ok" ELSE "error"
             /\ e.endedAt = rows[c].at /\ e.sources = <<i, c>>
      BY <1>1, <1>2, <1>6, <3>1, EventIs
    <3>3. c \in DOMAIN rows /\ rows[c].event = "completed" /\ rows[c].of = x
      BY DEF RowsOf
    <3>4. rows[c].at = settledAt[x] /\ i < c
      BY <1>2, <1>3, <1>6, <3>3
    <3>5. LastRow(e) = c
      <4>1. i \in Nat /\ c \in Nat
        BY <1>1, <3>3, RowsOfFinite
      <4>2. {e.sources[j] : j \in DOMAIN e.sources} = {i, c}
        BY <3>2
      <4>3. IsFiniteSet({i, c}) /\ {i, c} # {} /\ {i, c} \subseteq Nat
        <5>1. IsFiniteSet({i}) /\ IsFiniteSet({c}) /\ {i} \cup {c} = {i, c}
          BY FS_Singleton
        <5> QED BY <4>1, <5>1, FS_Union
      <4>4. Max({i, c}) \in {i, c} /\ \A y \in {i, c} : y <= Max({i, c})
        BY <4>3, MaxMin
      <4>5. Max({i, c}) = c
        BY <3>4, <4>1, <4>4
      <4> QED BY <4>2, <4>5 DEF LastRow
    <3>6. e.status # "running"
      BY <3>2
    <3> QED BY <3>2, <3>4, <3>5, <3>6
  <2>7. Tells(run, dir, rows, e, x)
    BY <2>1, <2>2, <2>3, <2>4, <2>5, <2>6 DEF Tells
  <2> QED BY <1>2, <1>4, <1>6, <2>4, <2>7
<1> QED BY <1>3, <1>5, <1>6

LEMMA ImageFinite ==
    ASSUME NEW S, NEW T, NEW f \in [S -> T], IsFiniteSet(S), \A t \in T : \E s \in S : f[s] = t
    PROVE  IsFiniteSet(T)
<1>1. f \in Surjection(S, T)
  BY DEF Surjection
<1> QED BY <1>1, FS_Surjection DEF ExistsSurjection

\* The events are in the order of the rows that open them, one for each start.
Recorded(run, dir, rows, events) ==
    /\ \E n \in Nat : DOMAIN events = 1 .. n
    /\ \A k \in DOMAIN events :
          /\ FirstRow(events[k]) \in DOMAIN rows
          /\ events[k] = Event(rows, FirstRow(events[k]))
    /\ \A j, k \in DOMAIN events : j < k <=> FirstRow(events[j]) < FirstRow(events[k])
    /\ \A x \in InFile(run, dir, "started") :
          \E k \in DOMAIN events : Tells(run, dir, rows, events[k], x)

LEMMA FileEvents ==
    ASSUME IInv, TimesOK, NEW run \in Traced, NEW dir \in Dirs, NEW rows, rows = Read(run, dir),
           NEW events, events = Logical(rows)
    PROVE  Recorded(run, dir, rows, events)
<1> DEFINE kept == Kept(rows)
           n == Cardinality(kept)
<1>1. Even(rows, 1)
  BY FileIs
<1>2. /\ DOMAIN events = 1 .. n /\ n \in Nat
      /\ \A k \in 1 .. n : /\ Opening(kept, k) \in kept
                           /\ events[k] = Event(rows, Opening(kept, k))
      /\ \A i \in kept : /\ Earlier(i, kept) + 1 \in 1 .. n
                         /\ events[Earlier(i, kept) + 1] = Event(rows, i)
  BY <1>1, LogicalIs
<1>3. \A j, k \in 1 .. n : j < k <=> Opening(kept, j) < Opening(kept, k)
  <2>1. IsFiniteSet(kept) /\ kept \subseteq Nat
    BY <1>1, KeptIs
  <2> QED BY <2>1, Openings
<1>4. /\ \A i \in kept : i \in DOMAIN rows
      /\ \A i \in DOMAIN rows : rows[i].event = "started" => i \in kept
  BY <1>1, KeptIs
<1> HIDE DEF kept, n
<1>5. \A k \in DOMAIN events : FirstRow(events[k]) = Opening(kept, k)
  BY <1>2, <1>4, EventTold
<1>6. ASSUME NEW x \in InFile(run, dir, "started")
      PROVE  \E k \in DOMAIN events : Tells(run, dir, rows, events[k], x)
  <2>1. RowsOf(rows, "started", x) # {}
    BY FileIs
  <2>2. PICK i \in DOMAIN rows : rows[i].event = "started" /\ rows[i].of = x
    BY <2>1 DEF RowsOf
  <2>3. PICK k \in DOMAIN events : events[k] = Event(rows, i)
    BY <1>2, <1>4, <2>2
  <2> QED BY <2>2, <2>3, EventTold
<1>7. \A k \in DOMAIN events : FirstRow(events[k]) \in DOMAIN rows
                                 /\ events[k] = Event(rows, FirstRow(events[k]))
  BY <1>2, <1>4, <1>5
<1>8. \A j, k \in DOMAIN events : j < k <=> FirstRow(events[j]) < FirstRow(events[k])
  BY <1>2, <1>3, <1>5
<1> QED BY <1>2, <1>6, <1>7, <1>8 DEF Recorded

\* The events a rule finds by the names of steps in the file are theirs.
LEMMA NamedIs ==
    ASSUME IInv, TimesOK, NEW run \in Traced, NEW dir \in Dirs, NEW rows, rows = Read(run, dir),
           NEW events, events = Logical(rows),
           NEW S, S \subseteq Steps \cap InFile(run, dir, "started")
    PROVE  /\ \A k \in Named(events, S) :
                 k \in DOMAIN events /\ \E x \in S : Tells(run, dir, rows, events[k], x)
           /\ \A x \in S : \E k \in Named(events, S) : Tells(run, dir, rows, events[k], x)
           /\ IsFiniteSet(Named(events, S)) /\ Named(events, S) \subseteq Nat
<1>1. Recorded(run, dir, rows, events)
  BY FileEvents
<1>2. ASSUME NEW k \in Named(events, S)
      PROVE  k \in DOMAIN events /\ \E x \in S : Tells(run, dir, rows, events[k], x)
  <2>1. k \in DOMAIN events /\ events[k].kind = "TOOL" /\ events[k].name \in S
    BY DEF Named
  <2>2. PICK i \in DOMAIN rows : events[k] = Event(rows, i)
    BY <1>1, <2>1 DEF Recorded
  <2>3. rows[i].event \in {"started", "completed"}
    BY FileIs
  <2>4. Tells(run, dir, rows, events[k], rows[i].of)
    BY <2>1, <2>2, <2>3, EventTold
  <2> QED BY <2>1, <2>4 DEF Tells
<1>3. ASSUME NEW x \in S
      PROVE  \E k \in Named(events, S) : Tells(run, dir, rows, events[k], x)
  <2>1. PICK k \in DOMAIN events : Tells(run, dir, rows, events[k], x)
    BY <1>1 DEF Recorded
  <2>2. x \notin Runs
    BY TracingAssumption
  <2>3. events[k].kind = "TOOL" /\ events[k].name \in S
    BY <2>1, <2>2 DEF Tells
  <2> QED BY <2>1, <2>3 DEF Named
<1>4. IsFiniteSet(Named(events, S)) /\ Named(events, S) \subseteq Nat
  <2>1. PICK n \in Nat : DOMAIN events = 1 .. n
    BY <1>1 DEF Recorded
  <2>2. IsFiniteSet(1 .. n) /\ Named(events, S) \subseteq 1 .. n
    BY <2>1, FS_Interval DEF Named
  <2> QED BY <2>2, FS_Subset
<1> QED BY <1>2, <1>3, <1>4

\* Of those the running ones are the ones that have no completion.
LEMMA RunningIs ==
    ASSUME NEW run, NEW dir, NEW rows, NEW events, NEW k \in DOMAIN events, NEW x,
           Tells(run, dir, rows, events[k], x)
    PROVE  k \in Running(events) <=> x \notin InFile(run, dir, "completed")
BY DEF Running, Tells

\* The first start and the last end of some events.
Starts(events, K) == {StartMs(events[k]) : k \in K}
Ends(events, K) == {EndMs(events[k]) : k \in K}

LEMMA Spans ==
    ASSUME IInv, TimesOK, NEW run \in Traced, NEW dir \in Dirs, NEW rows, rows = Read(run, dir),
           NEW events, events = Logical(rows),
           NEW S, S \subseteq Steps \cap InFile(run, dir, "started"),
           NEW K, K \subseteq Named(events, S), K # {}
    PROVE  /\ \E k \in K : /\ Min(Starts(events, K)) = StartMs(events[k])
                           /\ \A j \in K : StartMs(events[k]) <= StartMs(events[j])
           /\ (\A k \in K : k \notin Running(events)) =>
                 \E k \in K : /\ Max(Ends(events, K)) = EndMs(events[k])
                              /\ \A j \in K : EndMs(events[j]) <= EndMs(events[k])
<1>1. /\ \A k \in K : k \in DOMAIN events /\ \E x \in S : Tells(run, dir, rows, events[k], x)
      /\ IsFiniteSet(Named(events, S))
  BY NamedIs
<1>2. IsFiniteSet(K)
  BY <1>1, FS_Subset
<1>3. \A x \in S : calledAt[x] \in Nat /\ settledAt[x] \in Nat
  BY DEF TimesOK, Calls
<1>4. PICK starts : starts = {StartMs(events[j]) : j \in K}
  OBVIOUS
<1>5. PICK ends : ends = {EndMs(events[j]) : j \in K}
  OBVIOUS
<1>6. IsFiniteSet(starts) /\ starts # {}
  <2>1. PICK f : f = [j \in K |-> StartMs(events[j])]
    OBVIOUS
  <2>2. \A t \in starts : \E j \in K : f[j] = t
    BY <1>4, <2>1
  <2>3. f \in [K -> starts]
    BY <1>4, <2>1
  <2> QED BY <1>2, <1>4, <2>2, <2>3, ImageFinite
<1>7. IsFiniteSet(ends) /\ ends # {}
  <2>1. PICK f : f = [j \in K |-> EndMs(events[j])]
    OBVIOUS
  <2>2. \A t \in ends : \E j \in K : f[j] = t
    BY <1>5, <2>1
  <2>3. f \in [K -> ends]
    BY <1>5, <2>1
  <2> QED BY <1>2, <1>5, <2>2, <2>3, ImageFinite
<1>8. starts \subseteq Nat
  BY <1>1, <1>3, <1>4 DEF Tells
<1>9. Min(starts) \in starts /\ \A t \in starts : Min(starts) <= t
  BY <1>6, <1>8, MaxMin
<1>10. ASSUME \A k \in K : k \notin Running(events)
       PROVE  \E k \in K : /\ Max(ends) = EndMs(events[k])
                           /\ \A j \in K : EndMs(events[j]) <= EndMs(events[k])
  <2>1. \A k \in K : EndMs(events[k]) \in Nat
    <3> TAKE k \in K
    <3>1. PICK x \in S : Tells(run, dir, rows, events[k], x)
      BY <1>1
    <3>2. x \in InFile(run, dir, "completed")
      BY <1>1, <1>10, <3>1, RunningIs
    <3> QED BY <1>3, <3>1, <3>2 DEF Tells, EndMs
  <2>2. ends \subseteq Nat
    BY <1>5, <2>1
  <2>3. Max(ends) \in ends /\ \A t \in ends : t <= Max(ends)
    BY <1>7, <2>2, MaxMin
  <2> QED BY <1>5, <2>3
<1>11. \E k \in K : /\ Min(starts) = StartMs(events[k])
                    /\ \A j \in K : StartMs(events[k]) <= StartMs(events[j])
  BY <1>4, <1>9
<1> QED BY <1>4, <1>5, <1>10, <1>11 DEF Starts, Ends

\* Calls made after others had returned come after them, by time and by row.
LEMMA ReturnedPrecede ==
    ASSUME TIInv, NEW run \in Traced, NEW dir \in Dirs, NEW rows, rows = Read(run, dir),
           NEW events, events = Logical(rows),
           NEW before, before \subseteq Steps \cap InFile(run, dir, "started"),
           NEW after, after \subseteq Steps \cap InFile(run, dir, "started"),
           before \subseteq InFile(run, dir, "completed"),
           \A y \in after : before \subseteq returned[y],
           NEW K, K \subseteq Named(events, before), K # {},
           NEW M, M \subseteq Named(events, after), M # {}
    PROVE  Precedes(events, K, M) /\ \A k \in K, m \in M : k < m /\ EndMs(events[k]) <= StartMs(events[m])
<1>0. IInv /\ TimesOK /\ Later /\ RowsApart
  BY DEF TIInv
<1>1. \A k \in K : k \in DOMAIN events /\ \E x \in before : Tells(run, dir, rows, events[k], x)
  BY <1>0, NamedIs
<1>2. \A m \in M : m \in DOMAIN events /\ \E y \in after : Tells(run, dir, rows, events[m], y)
  BY <1>0, NamedIs
<1>3. Recorded(run, dir, rows, events)
  BY <1>0, FileEvents
<1>4. /\ DOMAIN rows = DOMAIN file[run][dir]
      /\ \A i \in DOMAIN rows : rows[i].of = file[run][dir][i].of
  BY DEF Read, TimedRow
<1>5. DOMAIN rows \subseteq Nat
  BY <1>0, FileIs, RowsOfFinite
<1>6. ASSUME NEW k \in K, NEW m \in M
      PROVE  /\ k < m /\ LastRow(events[k]) < FirstRow(events[m])
             /\ EndMs(events[k]) \in Nat /\ StartMs(events[m]) \in Nat
             /\ EndMs(events[k]) <= StartMs(events[m])
             /\ k \notin Running(events)
  <2>1. PICK x \in before : Tells(run, dir, rows, events[k], x)
    BY <1>1
  <2>2. PICK y \in after : Tells(run, dir, rows, events[m], y)
    BY <1>2
  <2>3. x \in Calls /\ y \in Calls /\ x \in returned[y]
    BY DEF Calls
  <2>4. settledAt[x] <= calledAt[y] /\ settledAt[x] \in Nat /\ calledAt[y] \in Nat
    BY <1>0, <2>3 DEF Later, TimesOK
  <2>5. EndMs(events[k]) = settledAt[x] /\ StartMs(events[m]) = calledAt[y]
    BY <2>1, <2>2 DEF Tells, EndMs
  <2>6. PICK i, c, s : i = FirstRow(events[k]) /\ c = LastRow(events[k]) /\ s = FirstRow(events[m])
    OBVIOUS
  <2>7. /\ i \in DOMAIN rows /\ rows[i].event = "started" /\ rows[i].of = x
        /\ c \in DOMAIN rows /\ rows[c].event = "completed" /\ rows[c].of = x
        /\ s \in DOMAIN rows /\ rows[s].of = y
    BY <2>1, <2>2, <2>6 DEF Tells, RowsOf
  <2>8. i < c
    BY <1>0, <2>7, FileIs
  <2>9. c < s
    BY <1>0, <1>4, <2>3, <2>7 DEF RowsApart
  <2>10. i < s
    BY <1>5, <2>7, <2>8, <2>9
  <2>11. k < m
    BY <1>1, <1>2, <1>3, <2>6, <2>10 DEF Recorded
  <2>12. k \notin Running(events)
    BY <1>1, <2>1, RunningIs
  <2> QED BY <2>4, <2>5, <2>6, <2>9, <2>11, <2>12
<1>7. PICK end : end = Max(Ends(events, K))
  OBVIOUS
<1>8. PICK start : start = Min(Starts(events, M))
  OBVIOUS
<1>9. \E k \in K : end = EndMs(events[k])
  <2>1. \A k \in K : k \notin Running(events)
    BY <1>6
  <2>2. \E k \in K : /\ Max(Ends(events, K)) = EndMs(events[k])
                     /\ \A j \in K : EndMs(events[j]) <= EndMs(events[k])
    BY <1>0, <2>1, Spans
  <2> QED BY <1>7, <2>2
<1>10. \E m \in M : start = StartMs(events[m])
  <2>1. \E m \in M : /\ Min(Starts(events, M)) = StartMs(events[m])
                     /\ \A j \in M : StartMs(events[m]) <= StartMs(events[j])
    BY <1>0, Spans
  <2> QED BY <1>8, <2>1
<1>11. end < start \/ end = start
  BY <1>6, <1>9, <1>10
<1>12. TieInOrder(events, {b \in K : EndMs(events[b]) = end},
                          {a \in M : StartMs(events[a]) = start})
  BY <1>6 DEF TieInOrder
<1>13. Precedes(events, K, M)
  BY <1>7, <1>8, <1>11, <1>12 DEF Precedes, Starts, Ends
<1> QED BY <1>6, <1>13

LEMMA OrderAccepts ==
    ASSUME TIInv, NEW run \in Traced, NEW dir \in Dirs, NEW rows, rows = Read(run, dir),
           NEW events, events = Logical(rows),
           NEW before, before \subseteq Steps \cap InFile(run, dir, "started"), before # {},
           NEW after, after \subseteq Steps \cap InFile(run, dir, "started"), after # {},
           before \subseteq InFile(run, dir, "completed"),
           \A y \in after : before \subseteq returned[y],
           NEW mode \in Modes
    PROVE  OrderRule(events, mode, before, after) = "pass"
<1>0. IInv /\ TimesOK
  BY DEF TIInv
<1> DEFINE B == Named(events, before)
           named == Named(events, after)
           running == Running(events)
           finishedB == B \ running
           finishedA == named \ running
           A == IF finishedA # {} THEN finishedA ELSE named
           firstB == Min(finishedB)
           firstA == Min(A)
<1>1. \A k \in B : k \notin running
  <2> TAKE k \in B
  <2>1. PICK x \in before : k \in DOMAIN events /\ Tells(run, dir, rows, events[k], x)
    BY <1>0, NamedIs
  <2> QED BY <2>1, RunningIs
<1>2. B # {} /\ IsFiniteSet(B) /\ B \subseteq Nat /\ named # {} /\ IsFiniteSet(named) /\ named \subseteq Nat
  BY <1>0, NamedIs
<1>3. finishedB = B /\ A # {} /\ A \subseteq named
  BY <1>1, <1>2
<1>4. A \subseteq Nat /\ IsFiniteSet(A)
  BY <1>2, <1>3, FS_Subset
<1> HIDE DEF A, B, running, named, finishedA
<1>5. firstB \in B /\ firstA \in A /\ firstB \in Nat /\ firstA \in Nat
  BY <1>2, <1>3, <1>4, MaxMin
<1>6. Precedes(events, B, A)
  BY <1>2, <1>3, ReturnedPrecede DEF B, named
<1>7. Precedes(events, {firstB}, {firstA})
  <2>1. {firstB} \subseteq B /\ {firstA} \subseteq named
    BY <1>3, <1>5
  <2> HIDE DEF firstB, firstA
  <2>2. PICK K, M : K = {firstB} /\ M = {firstA}
    OBVIOUS
  <2>3. K \subseteq Named(events, before) /\ K # {} /\ M \subseteq Named(events, after) /\ M # {}
    BY <2>1, <2>2 DEF B, named
  <2>4. Precedes(events, K, M)
    BY <2>3, ReturnedPrecede
  <2> QED BY <2>2, <2>4
<1>8. firstB < firstA /\ EndMs(events[firstB]) <= StartMs(events[firstA])
  <2>1. B \subseteq Named(events, before) /\ B # {} /\ A \subseteq Named(events, after) /\ A # {}
    BY <1>2, <1>3 DEF B, named
  <2>2. \A k \in B, m \in A : k < m /\ EndMs(events[k]) <= StartMs(events[m])
    BY <2>1, ReturnedPrecede
  <2> QED BY <1>5, <2>2
<1>9. /\ EndMs(events[firstB]) \in Nat
      /\ StartMs(events[firstA]) \in Nat
  <2>1. PICK x \in before : firstB \in DOMAIN events /\ Tells(run, dir, rows, events[firstB], x)
    BY <1>0, <1>5, NamedIs DEF B
  <2>2. PICK y \in after : firstA \in DOMAIN events /\ Tells(run, dir, rows, events[firstA], y)
    BY <1>0, <1>3, <1>5, NamedIs DEF named
  <2>3. settledAt[x] \in Nat /\ calledAt[y] \in Nat
    BY <1>0 DEF TimesOK, Calls
  <2> QED BY <2>1, <2>2, <2>3 DEF Tells, EndMs
<1>10. ~(firstA < firstB) /\ ~(EndMs(events[firstB]) > StartMs(events[firstA]))
  BY <1>5, <1>8, <1>9
<1>11. mode \in {"all-occurrences", "happens-before", "first-occurrence"}
  BY DEF Modes
<1>12. OrderRule(events, mode, before, after) =
         IF B # finishedB /\ A # {} THEN "fail"
         ELSE IF finishedB = {} \/ A = {} THEN "pass"
         ELSE CASE mode = "all-occurrences" -> Reported(~Precedes(events, finishedB, A))
                [] mode = "happens-before" -> Reported(~Precedes(events, {firstB}, {firstA}))
                [] mode = "first-occurrence" ->
                     IF finishedA # {} /\ firstA < firstB THEN "fail"
                     ELSE IF EndMs(events[firstB]) > StartMs(events[firstA]) THEN "warning"
                     ELSE "pass"
  BY DEF OrderRule, A, B, named, running, finishedA
<1> HIDE DEF firstA, firstB, finishedB
<1> QED BY <1>2, <1>3, <1>6, <1>7, <1>10, <1>11, <1>12 DEF Reported

\* What all-occurrences accepts had ended, unless in the millisecond of the call.
LEMMA OrderAccepted ==
    ASSUME TIInv, NEW run \in Traced, NEW dir \in Dirs, NEW rows, rows = Read(run, dir),
           NEW events, events = Logical(rows),
           NEW before, before \subseteq Steps \cap InFile(run, dir, "started"),
           NEW after, after \subseteq Steps \cap InFile(run, dir, "started"),
           OrderRule(events, "all-occurrences", before, after) = "pass",
           NEW x \in before, NEW y \in after,
           y \in InFile(run, dir, "completed") \/ after \cap InFile(run, dir, "completed") = {}
    PROVE  x \notin open[y] \/ settledAt[x] = calledAt[y]
<1>0. IInv /\ TimesOK /\ Later
  BY DEF TIInv
<1> DEFINE B == Named(events, before)
           named == Named(events, after)
           running == Running(events)
           finishedB == B \ running
           finishedA == named \ running
           A == IF finishedA # {} THEN finishedA ELSE named
<1>1. y \in after
  OBVIOUS
<1>2. PICK kx \in B : kx \in DOMAIN events /\ Tells(run, dir, rows, events[kx], x)
  BY <1>0, NamedIs
<1>3. PICK ky \in named : ky \in DOMAIN events /\ Tells(run, dir, rows, events[ky], y)
  BY <1>0, <1>1, NamedIs
<1>4. ky \in A
  <2>1. CASE finishedA = {}
    BY <1>3, <2>1
  <2>2. CASE finishedA # {}
    <3>1. PICK m \in named : m \notin running
      BY <2>2
    <3>2. PICK z \in after : m \in DOMAIN events /\ Tells(run, dir, rows, events[m], z)
      BY <1>0, NamedIs
    <3>3. z \in InFile(run, dir, "completed")
      BY <3>1, <3>2, RunningIs
    <3>4. y \in InFile(run, dir, "completed")
      BY <3>3
    <3>5. ky \notin running
      BY <1>3, <3>4, RunningIs
    <3> QED BY <1>3, <2>2, <3>5
  <2> QED BY <2>1, <2>2
<1>5. OrderRule(events, "all-occurrences", before, after) =
         IF B # finishedB /\ A # {} THEN "fail"
         ELSE IF finishedB = {} \/ A = {} THEN "pass"
         ELSE Reported(~Precedes(events, finishedB, A))
  BY DEF OrderRule
<1>6. IsFiniteSet(A) /\ A \subseteq named
  <2>1. A \subseteq named /\ IsFiniteSet(named)
    BY <1>0, NamedIs
  <2> QED BY <2>1, FS_Subset
<1> HIDE DEF A, B, named, running
<1>7. B = finishedB /\ finishedB # {} /\ Precedes(events, B, A)
  BY <1>2, <1>4, <1>5 DEF Reported
<1>8. \A k \in B : k \notin Running(events)
  BY <1>7 DEF running
<1>9. PICK end : end = Max(Ends(events, B))
  OBVIOUS
<1>10. PICK start : start = Min(Starts(events, A))
  OBVIOUS
<1>11. \E b \in B : end = EndMs(events[b]) /\ \A j \in B : EndMs(events[j]) <= EndMs(events[b])
  <2>1. B # {} /\ B \subseteq Named(events, before)
    BY <1>7 DEF B
  <2>2. \E b \in B : /\ Max(Ends(events, B)) = EndMs(events[b])
                     /\ \A j \in B : EndMs(events[j]) <= EndMs(events[b])
    BY <1>0, <1>8, <2>1, Spans
  <2> QED BY <1>9, <2>2
<1>12. \E a \in A : start = StartMs(events[a]) /\ \A j \in A : StartMs(events[a]) <= StartMs(events[j])
  <2>1. A # {} /\ A \subseteq Named(events, after)
    BY <1>4, <1>6 DEF named
  <2>2. \E a \in A : /\ Min(Starts(events, A)) = StartMs(events[a])
                     /\ \A j \in A : StartMs(events[a]) <= StartMs(events[j])
    BY <1>0, <2>1, Spans
  <2> QED BY <1>10, <2>2
<1>13. end < start \/ end = start
  BY <1>7, <1>9, <1>10 DEF Precedes, Starts, Ends
<1>14. EndMs(events[kx]) <= end /\ start <= StartMs(events[ky])
  BY <1>2, <1>4, <1>11, <1>12
<1>15. x \in InFile(run, dir, "completed")
  BY <1>2, <1>8, RunningIs
<1>16. EndMs(events[kx]) = settledAt[x] /\ StartMs(events[ky]) = calledAt[y]
  BY <1>2, <1>3, <1>15 DEF Tells, EndMs
<1>17. /\ \A b \in B : EndMs(events[b]) \in Nat
       /\ \A a \in A : StartMs(events[a]) \in Nat
  <2>1. ASSUME NEW b \in B PROVE EndMs(events[b]) \in Nat
    <3>1. PICK z \in before : b \in DOMAIN events /\ Tells(run, dir, rows, events[b], z)
      BY <1>0, NamedIs DEF B
    <3>2. z \in InFile(run, dir, "completed") /\ settledAt[z] \in Nat
      BY <1>0, <1>8, <3>1, RunningIs DEF TimesOK, Calls
    <3> QED BY <3>1, <3>2 DEF Tells, EndMs
  <2>2. ASSUME NEW a \in A PROVE StartMs(events[a]) \in Nat
    <3>1. PICK z \in after : a \in DOMAIN events /\ Tells(run, dir, rows, events[a], z)
      BY <1>0, <1>6, NamedIs DEF named
    <3>2. calledAt[z] \in Nat
      BY <1>0 DEF TimesOK, Calls
    <3> QED BY <3>1, <3>2 DEF Tells
  <2> QED BY <2>1, <2>2
<1>18. settledAt[x] <= calledAt[y]
  <2>1. end \in Nat /\ start \in Nat
    BY <1>11, <1>12, <1>17
  <2>2. settledAt[x] \in Nat /\ calledAt[y] \in Nat
    BY <1>0, <1>1 DEF TimesOK, Calls
  <2> QED BY <1>13, <1>14, <1>16, <2>1, <2>2
<1>19. x \in open[y] => calledAt[y] <= settledAt[x]
  <2>1. Over(x)
    <3>1. RowsOf(rows, "completed", x) # {}
      BY <1>0, <1>15, FileIs
    <3>2. PICK c \in DOMAIN rows : rows[c].event = "completed" /\ rows[c].of = x
      BY <3>1 DEF RowsOf
    <3>3. Matched(run, rows[c])
      BY <1>0, FileIs
    <3> QED BY <3>2, <3>3 DEF Matched, Over
  <2> QED BY <1>0, <1>1, <2>1 DEF Later, Calls
<1>20. settledAt[x] \in Nat /\ calledAt[y] \in Nat
  BY <1>0, <1>1 DEF TimesOK, Calls
<1> QED BY <1>18, <1>19, <1>20

\* The parent of an event is that of an earlier row, unless that is a completion alone.
LEMMA ParentRow ==
    ASSUME IInv, TimesOK, NEW run \in Traced, NEW dir \in Dirs, NEW rows, rows = Read(run, dir),
           NEW i \in DOMAIN rows, NEW e, e = Event(rows, i),
           NEW j \in DOMAIN rows, NEW id, id = <<rows[j].event, rows[j].of, j - 1>>, e.parent = id
    PROVE  /\ rows[i].event = "started" /\ i # j
           /\ rows[j].of = rows[i].parent /\ rows[i].parent # None
           /\ rows[j].event = "started" => j < i
           /\ rows[j].of \in InFile(run, dir, "started") => rows[j].event = "started"
<1> DEFINE p == rows[i].parent
           owner == Owner(rows, p)
           starts == RowsOf(rows, "started", p)
           alone == RowsOf(rows, "completed", p) \ Absorbed(rows)
<1>1. DOMAIN rows \subseteq Nat \ {0}
  BY FileIs, RowsOfFinite
<1>2. /\ rows[i].event \in {"started", "completed"} /\ p \in Steps \cup {None}
      /\ rows[i].event = "completed" => p = None
      /\ rows[j].event \in {"started", "completed"} /\ rows[j].of \in Calls
      /\ (rows[j].event = "started" /\ rows[i].event = "started" /\ rows[j].of = p) => j < i
      /\ \A x : x \in InFile(run, dir, "started") <=> RowsOf(rows, "started", x) # {}
  BY FileIs DEF Told
<1>3. id \notin Steps /\ id # None
  <2>1. j - 1 \in Nat
    BY <1>1
  <2>2. id \in {"started", "completed"} \X Calls \X Nat
    BY <1>2, <2>1
  <2> QED BY <2>2, ReadingAssumption
<1>4. ParentOf(rows, i) = id
  <2>1. Even(rows, 1)
    BY FileIs
  <2>2. e.parent = ParentOf(rows, i)
    BY <2>1, EventIs
  <2> QED BY <2>2
<1>5. p # None
  BY <1>3, <1>4 DEF ParentOf
<1>6. owner # {}
  BY <1>2, <1>3, <1>4, <1>5 DEF ParentOf
<1>7. PICK k : k = CHOOSE m \in owner : TRUE
  OBVIOUS
<1>8. k \in owner
  BY <1>6, <1>7
<1>9. k # i /\ PersistedEvent(rows, k).id = id
  BY <1>3, <1>4, <1>5, <1>6, <1>7 DEF ParentOf
<1>10. /\ starts # {} => k \in starts
       /\ starts = {} => k \in alone
  BY <1>8 DEF Owner, OwnerAmong
<1>11. k \in DOMAIN rows /\ rows[k].of = p /\ (starts # {} => rows[k].event = "started")
  BY <1>10 DEF RowsOf
<1>12. k = j
  <2>1. PersistedEvent(rows, k).id = <<rows[k].event, rows[k].of, k - 1>>
    BY DEF PersistedEvent
  <2>2. k - 1 = j - 1
    BY <1>9, <2>1
  <2> QED BY <1>1, <1>11, <2>2
<1>13. rows[j].of \in InFile(run, dir, "started") => starts # {}
  BY <1>2, <1>11, <1>12
<1> QED BY <1>2, <1>5, <1>9, <1>11, <1>12, <1>13

LEMMA NoCycle ==
    ASSUME IInv, TimesOK, NEW run \in Traced, NEW dir \in Dirs, NEW rows, rows = Read(run, dir),
           NEW events, events = Logical(rows)
    PROVE  CycleRule(events) = "pass"
<1>1. Recorded(run, dir, rows, events)
  BY FileEvents
<1>2. PICK n \in Nat : DOMAIN events = 1 .. n
  BY <1>1 DEF Recorded
<1>3. ASSUME NEW S \in SUBSET DOMAIN events, S # {},
             \A k \in S : events[k].parent \in {events[j].id : j \in S}
      PROVE  FALSE
  <2>1. \A k \in S : /\ FirstRow(events[k]) \in DOMAIN rows
                     /\ events[k] = Event(rows, FirstRow(events[k]))
    BY <1>1 DEF Recorded
  <2>2. ASSUME NEW k \in S, NEW j \in S, events[k].parent = events[j].id
        PROVE  /\ rows[FirstRow(events[k])].event = "started"
               /\ rows[FirstRow(events[j])].event = "started" =>
                     FirstRow(events[j]) < FirstRow(events[k])
    <3>1. PICK i, r : i = FirstRow(events[k]) /\ r = FirstRow(events[j])
      OBVIOUS
    <3>2. i \in DOMAIN rows /\ r \in DOMAIN rows
      BY <2>1, <3>1
    <3>3. PICK id, e : id = events[j].id /\ e = events[k]
      OBVIOUS
    <3>4. id = <<rows[r].event, rows[r].of, r - 1>>
      BY <2>1, <3>1, <3>2, <3>3, EventTold
    <3>5. e = Event(rows, i) /\ e.parent = id
      BY <2>1, <2>2, <3>1, <3>3
    <3>6. rows[i].event = "started" /\ (rows[r].event = "started" => r < i)
      BY <3>2, <3>4, <3>5, ParentRow
    <3> QED BY <3>1, <3>6
  <2>3. \A k \in S : rows[FirstRow(events[k])].event = "started"
    BY <1>3, <2>2
  <2>4. PICK k : k = Min(S)
    OBVIOUS
  <2>5. k \in S /\ \A j \in S : k <= j
    <3>1. IsFiniteSet(1 .. n) /\ S \subseteq 1 .. n /\ 1 .. n \subseteq Nat
      BY <1>2, FS_Interval
    <3>2. IsFiniteSet(S) /\ S \subseteq Nat
      BY <3>1, FS_Subset
    <3> QED BY <1>3, <2>4, <3>2, MaxMin
  <2>6. PICK j \in S : events[k].parent = events[j].id
    BY <1>3, <2>5
  <2>7. FirstRow(events[j]) < FirstRow(events[k])
    BY <2>2, <2>3, <2>5, <2>6
  <2>8. j < k
    BY <1>1, <2>5, <2>7 DEF Recorded
  <2> QED BY <1>2, <2>5, <2>8
<1> QED BY <1>3 DEF CycleRule, Reported

LEMMA ParentFirst ==
    ASSUME TIInv, NEW run \in Traced, NEW dir \in Dirs, NEW rows, rows = Read(run, dir),
           NEW events, events = Logical(rows),
           InFile(run, dir, "completed") \subseteq InFile(run, dir, "started")
    PROVE  RelationshipRule(events) = "pass"
<1>0. IInv /\ TimesOK /\ Later
  BY DEF TIInv
<1>1. Recorded(run, dir, rows, events)
  BY <1>0, FileEvents
<1>2. ASSUME NEW j \in DOMAIN events, NEW k \in DOMAIN events, events[k].parent = events[j].id
      PROVE  j # k /\ ~(StartMs(events[j]) > StartMs(events[k]))
  <2>1. PICK i, r : i = FirstRow(events[k]) /\ r = FirstRow(events[j])
    OBVIOUS
  <2>2. /\ i \in DOMAIN rows /\ r \in DOMAIN rows
        /\ events[k] = Event(rows, i) /\ events[j] = Event(rows, r)
    BY <1>1, <2>1 DEF Recorded
  <2>3. PICK id, e : id = events[j].id /\ e = events[k]
    OBVIOUS
  <2>10. id = <<rows[r].event, rows[r].of, r - 1>>
    BY <1>0, <2>2, <2>3, EventTold
  <2>11. e = Event(rows, i) /\ e.parent = id
    BY <1>2, <2>2, <2>3
  <2>4. /\ rows[i].event = "started" /\ i # r
        /\ rows[r].of = rows[i].parent /\ rows[i].parent # None
        /\ rows[r].of \in InFile(run, dir, "started") => rows[r].event = "started"
    BY <1>0, <2>2, <2>10, <2>11, ParentRow
  <2>5. PICK x, p : x = rows[i].of /\ p = rows[r].of
    OBVIOUS
  <2>6. p \in InFile(run, dir, "started")
    <3>1. rows[r].event \in {"started", "completed"}
      BY <1>0, <2>2, FileIs
    <3>2. RowsOf(rows, rows[r].event, p) # {}
      BY <2>2, <2>5 DEF RowsOf
    <3>3. p \in InFile(run, dir, rows[r].event)
      BY <1>0, <3>2, FileIs
    <3> QED BY <3>1, <3>3
  <2>7. StartMs(events[k]) = calledAt[x] /\ StartMs(events[j]) = calledAt[p]
    <3>1. Tells(run, dir, rows, events[k], x)
      BY <1>0, <2>2, <2>4, <2>5, EventTold
    <3>2. Tells(run, dir, rows, events[j], p)
      BY <1>0, <2>2, <2>4, <2>5, <2>6, EventTold
    <3> QED BY <3>1, <3>2 DEF Tells
  <2>8. x \in Calls /\ p \in Calls /\ pc[x] # "new" /\ p = Context(x).step
    <3>1. /\ x \in Calls /\ p \in Calls
          /\ Told(run, rows[i]) /\ Matched(run, rows[i])
      BY <1>0, <2>2, <2>5, FileIs
    <3> QED BY <2>4, <2>5, <3>1 DEF Told, Matched, Begun
  <2>9. calledAt[p] <= calledAt[x] /\ calledAt[p] \in Nat /\ calledAt[x] \in Nat
    BY <1>0, <2>4, <2>5, <2>8 DEF Later, TimesOK
  <2> QED BY <2>1, <2>4, <2>7, <2>9
<1> QED BY <1>2 DEF RelationshipRule, Reported

ActiveAt(events, t) ==
    {k \in Lasting(events) : events[k].startedAt <= t /\ t < events[k].endedAt}

LEMMA WidthIs ==
    ASSUME NEW events, NEW n \in Nat, DOMAIN events = 1 .. n
    PROVE  \/ Width(events) = 0
           \/ \E k \in Lasting(events) :
                 Width(events) = Cardinality(ActiveAt(events, events[k].startedAt))
<1>1. PICK f : f = [k \in Lasting(events) |->
                      Cardinality(ActiveAt(events, events[k].startedAt))]
  OBVIOUS
<1>2. PICK widths : widths = {f[k] : k \in Lasting(events)}
  OBVIOUS
<1>3. Width(events) = Max({0} \cup widths)
  BY <1>1, <1>2 DEF Width, ActiveAt
<1>4. \A K \in SUBSET Lasting(events) : IsFiniteSet(K)
  <2>1. IsFiniteSet(1 .. n)
    BY FS_Interval
  <2>2. \A K \in SUBSET Lasting(events) : K \subseteq 1 .. n
    BY DEF Lasting
  <2> QED BY <2>1, <2>2, FS_Subset
<1>5. IsFiniteSet(widths)
  <2>1. f \in [Lasting(events) -> widths] /\ \A w \in widths : \E k \in Lasting(events) : f[k] = w
    BY <1>1, <1>2
  <2>2. IsFiniteSet(Lasting(events))
    BY <1>4
  <2> QED BY <2>1, <2>2, ImageFinite
<1>6. widths \subseteq Nat
  <2>1. \A t : Cardinality(ActiveAt(events, t)) \in Nat
    <3>1. \A t : ActiveAt(events, t) \in SUBSET Lasting(events)
      BY DEF ActiveAt
    <3> QED BY <1>4, <3>1, FS_CardinalityType
  <2> QED BY <1>1, <1>2, <2>1
<1>7. Max({0} \cup widths) \in {0} \cup widths
  <2>1. IsFiniteSet({0} \cup widths)
    BY <1>5, FS_Singleton, FS_Union
  <2>2. {0} \cup widths # {} /\ {0} \cup widths \subseteq Nat
    BY <1>6
  <2> QED BY <2>1, <2>2, MaxMin
<1> QED BY <1>1, <1>2, <1>3, <1>7

\* The calls whose functions run at one moment were made one after the other.
LEMMA LastOfOpen ==
    ASSUME TIInv, NEW C, C \subseteq Calls, IsFiniteSet(C), C # {}, NEW t \in Nat,
           \A x \in C : pc[x] # "new" /\ calledAt[x] <= t /\ t < settledAt[x]
    PROVE  \E y \in C : \A x \in C : x = y \/ x \in open[y]
<1>0. TimesOK /\ Compared /\ NoRound
  BY DEF TIInv
<1>1. ASSUME NEW x \in C, NEW y \in C, x # y PROVE x \in open[y] \/ y \in open[x]
  <2>1. x \in Calls /\ y \in Calls /\ pc[x] # "new" /\ pc[y] # "new"
    OBVIOUS
  <2>2. \/ x \in open[y] \/ y \in open[x]
        \/ settledAt[x] <= calledAt[y]
        \/ settledAt[y] <= calledAt[x]
    BY <1>0, <1>1, <2>1 DEF Compared
  <2>3. /\ settledAt[x] \in Nat /\ calledAt[x] \in Nat
        /\ settledAt[y] \in Nat /\ calledAt[y] \in Nat
    BY <1>0, <2>1 DEF TimesOK
  <2>4. calledAt[x] <= t /\ t < settledAt[x] /\ calledAt[y] <= t /\ t < settledAt[y]
    OBVIOUS
  <2> QED BY <2>2, <2>3, <2>4
<1>2. \A x, y, z \in C : (x \in open[y] /\ y \in open[z]) => x # z /\ z \notin open[x]
  BY <1>0 DEF NoRound
<1>3. PICK R : R = {p \in C \X C : p[1] \in open[p[2]]}
  OBVIOUS
<1>4. \A x, y \in C : <<x, y>> \in R <=> x \in open[y]
  BY <1>3
<1>5. PICK rank : rank = [c \in C |-> Cardinality(Below(C, R, c))]
  OBVIOUS
<1>6. Ranked(C, R, rank)
  <2>1. \A c \in C : <<c, c>> \notin R
    BY <1>2, <1>4
  <2>2. \A c, d \in C : c # d => <<c, d>> \in R \/ <<d, c>> \in R
    BY <1>1, <1>4
  <2>3. ASSUME NEW c \in C, NEW d \in C, NEW e \in C, <<c, d>> \in R, <<d, e>> \in R
        PROVE  <<c, e>> \in R
    <3>1. c \in open[d] /\ d \in open[e]
      BY <1>4, <2>3
    <3>2. c # e /\ e \notin open[c]
      BY <1>2, <3>1
    <3> QED BY <1>1, <1>4, <3>2
  <2> QED BY <1>5, <2>1, <2>2, <2>3 DEF Ranked
<1>7. Ladder(C, R, rank)
  BY <1>6, Ranks
<1>8. PICK n : n = Cardinality(C)
  OBVIOUS
<1>9. n \in Nat /\ n # 0
  BY <1>8, FS_EmptySet, FS_CardinalityType
<1>10. /\ \A c \in C : rank[c] \in 0 .. n - 1
       /\ \A c, d \in C : <<c, d>> \in R <=> rank[c] < rank[d]
       /\ \A c, d \in C : rank[c] = rank[d] => c = d
       /\ \A k \in 0 .. n - 1 : \E c \in C : rank[c] = k
  BY <1>7, <1>8 DEF Ladder
<1>11. PICK y \in C : rank[y] = n - 1
  <2>1. n - 1 \in 0 .. n - 1
    BY <1>9
  <2> QED BY <1>10, <2>1
<1>12. ASSUME NEW x \in C, x # y PROVE x \in open[y]
  <2>1. rank[x] \in 0 .. n - 1 /\ rank[x] # rank[y]
    BY <1>10, <1>12
  <2>2. rank[x] < rank[y]
    BY <1>9, <1>11, <2>1
  <2> QED BY <1>4, <1>10, <2>2
<1> QED BY <1>12

LEMMA WidthOpen ==
    ASSUME TIInv, NEW run \in Traced, NEW dir \in Dirs, NEW rows, rows = Read(run, dir),
           NEW events, events = Logical(rows),
           NEW started, started = InFile(run, dir, "started")
    PROVE  \/ Width(events) = 0
           \/ \E y \in Calls : Width(events) <= Cardinality((open[y] \cup {y}) \cap started)
<1>0. IInv /\ TimesOK
  BY DEF TIInv
<1>1. Recorded(run, dir, rows, events)
  BY <1>0, FileEvents
<1>2. PICK n \in Nat : DOMAIN events = 1 .. n
  BY <1>1 DEF Recorded
<1> SUFFICES ASSUME Width(events) # 0
             PROVE  \E y \in Calls :
                       Width(events) <= Cardinality((open[y] \cup {y}) \cap started)
  OBVIOUS
<1>3. PICK k \in Lasting(events) :
         Width(events) = Cardinality(ActiveAt(events, events[k].startedAt))
  BY <1>2, WidthIs
<1>4. PICK t, X : t = events[k].startedAt /\ X = ActiveAt(events, t)
  OBVIOUS
<1>5. ASSUME NEW j \in Lasting(events)
      PROVE  \E x \in started : /\ Tells(run, dir, rows, events[j], x)
                                /\ x \in Calls /\ pc[x] # "new"
                                /\ events[j].startedAt = calledAt[x]
                                /\ events[j].endedAt = settledAt[x]
                                /\ calledAt[x] < settledAt[x]
  <2>1. /\ j \in DOMAIN events /\ events[j].startedAt # None /\ events[j].endedAt # None
        /\ events[j].endedAt > events[j].startedAt
    BY DEF Lasting
  <2>2. PICK i \in DOMAIN rows : events[j] = Event(rows, i)
    BY <1>1, <2>1 DEF Recorded
  <2>3. PICK x : x = rows[i].of
    OBVIOUS
  <2>4. /\ rows[i].event \in {"started", "completed"} /\ x \in Calls /\ pc[x] # "new"
        /\ \A event : x \in InFile(run, dir, event) <=> RowsOf(rows, event, x) # {}
    BY <1>0, <2>2, <2>3, FileIs DEF Matched, Begun
  <2>5. rows[i].event = "started" /\ Tells(run, dir, rows, events[j], x)
    BY <1>0, <2>1, <2>2, <2>3, <2>4, EventTold
  <2>6. x \in started
    BY <2>3, <2>4, <2>5 DEF RowsOf
  <2>7. x \in InFile(run, dir, "completed")
    BY <2>1, <2>5 DEF Tells
  <2>8. events[j].startedAt = calledAt[x] /\ events[j].endedAt = settledAt[x]
    BY <2>5, <2>7 DEF Tells
  <2>9. calledAt[x] \in Nat /\ settledAt[x] \in Nat
    BY <1>0, <2>4 DEF TimesOK
  <2> QED BY <2>1, <2>4, <2>5, <2>6, <2>8, <2>9
<1>6. X \subseteq Lasting(events) /\ k \in X
  <2>1. events[k].startedAt <= t /\ t < events[k].endedAt
    <3>1. PICK x \in started : /\ x \in Calls /\ calledAt[x] < settledAt[x]
                               /\ events[k].startedAt = calledAt[x]
                               /\ events[k].endedAt = settledAt[x]
      BY <1>5
    <3>2. calledAt[x] \in Nat
      BY <1>0, <3>1 DEF TimesOK
    <3> QED BY <1>4, <3>1, <3>2
  <2> QED BY <1>4, <2>1 DEF ActiveAt
<1>7. PICK g : g = [j \in X |-> events[j].name]
  OBVIOUS
<1>8. PICK C : C = {g[j] : j \in X}
  OBVIOUS
<1>9. ASSUME NEW j \in X
      PROVE  /\ g[j] \in started \cap Calls /\ pc[g[j]] # "new"
             /\ calledAt[g[j]] <= t /\ t < settledAt[g[j]]
             /\ FirstRow(events[j]) \in RowsOf(rows, "started", g[j])
  <2>1. PICK x \in started : /\ Tells(run, dir, rows, events[j], x)
                             /\ x \in Calls /\ pc[x] # "new"
                             /\ events[j].startedAt = calledAt[x]
                             /\ events[j].endedAt = settledAt[x]
    BY <1>5, <1>6
  <2>2. g[j] = x /\ FirstRow(events[j]) \in RowsOf(rows, "started", x)
    BY <1>7, <2>1 DEF Tells
  <2>3. events[j].startedAt <= t /\ t < events[j].endedAt
    BY <1>4 DEF ActiveAt
  <2> QED BY <2>1, <2>2, <2>3
<1>10. ASSUME NEW i \in X, NEW j \in X, g[i] = g[j] PROVE i = j
  <2>1. PICK r, s : r = FirstRow(events[i]) /\ s = FirstRow(events[j])
    OBVIOUS
  <2>2. /\ r \in DOMAIN rows /\ s \in DOMAIN rows /\ rows[r].of = rows[s].of
        /\ rows[r].event = "started" /\ rows[s].event = "started"
    BY <1>9, <1>10, <2>1 DEF RowsOf
  <2>3. r = s /\ r \in Nat
    BY <1>0, <2>2, FileIs, RowsOfFinite
  <2>4. i \in DOMAIN events /\ j \in DOMAIN events
    BY <1>6 DEF Lasting
  <2>5. (i < j <=> r < s) /\ (j < i <=> s < r)
    BY <1>1, <2>1, <2>4 DEF Recorded
  <2> QED BY <1>2, <2>3, <2>4, <2>5
<1>11. IsFiniteSet(X)
  <2>1. Lasting(events) \subseteq 1 .. n
    BY <1>2 DEF Lasting
  <2>2. IsFiniteSet(1 .. n) /\ X \subseteq 1 .. n
    BY <1>6, <2>1, FS_Interval
  <2> QED BY <2>2, FS_Subset
<1>12. IsFiniteSet(C) /\ Cardinality(C) = Cardinality(X)
  <2>1. g \in Injection(X, C) /\ g \in Surjection(X, C)
    BY <1>7, <1>8, <1>10 DEF Injection, IsInjective, Surjection
  <2>2. ExistsBijection(X, C)
    BY <2>1 DEF ExistsBijection, Bijection
  <2> QED BY <1>11, <2>2, FS_Bijection
<1>13. t \in Nat
  <2>1. PICK x \in started : x \in Calls /\ events[k].startedAt = calledAt[x]
    BY <1>5
  <2> QED BY <1>0, <1>4, <2>1 DEF TimesOK
<1>14. PICK y \in C : \A x \in C : x = y \/ x \in open[y]
  <2>1. /\ C \subseteq Calls /\ C # {}
        /\ \A x \in C : pc[x] # "new" /\ calledAt[x] <= t /\ t < settledAt[x]
    BY <1>6, <1>8, <1>9
  <2> QED BY <1>12, <1>13, <2>1, LastOfOpen
<1>15. C \subseteq (open[y] \cup {y}) \cap started
  BY <1>8, <1>9, <1>14
<1>16. IsFiniteSet(started)
  <2>1. PICK starts : starts = {i \in DOMAIN rows : rows[i].event = "started"}
    OBVIOUS
  <2>2. PICK h : h = [i \in starts |-> rows[i].of]
    OBVIOUS
  <2>3. \A x : x \in started <=> \E i \in starts : h[i] = x
    <3>1. \A x : x \in started <=> RowsOf(rows, "started", x) # {}
      BY <1>0, FileIs
    <3> QED BY <2>1, <2>2, <3>1 DEF RowsOf
  <2>4. h \in [starts -> started]
    BY <2>2, <2>3
  <2>5. IsFiniteSet(starts)
    BY <1>0, <2>1, FileIs, RowsOfFinite
  <2> QED BY <2>3, <2>4, <2>5, ImageFinite
<1>17. Cardinality(C) <= Cardinality((open[y] \cup {y}) \cap started)
  <2>1. IsFiniteSet((open[y] \cup {y}) \cap started)
    BY <1>16, FS_Subset
  <2> QED BY <1>15, <2>1, FS_Subset
<1>18. y \in Calls
  BY <1>8, <1>9
<1> QED BY <1>3, <1>4, <1>12, <1>17, <1>18

LEMMA OrderTrue == TIInv => CausalOrder
<1> SUFFICES ASSUME TIInv, NEW run \in Traced, NEW dir \in Dirs,
                    NEW events, events = Logical(Read(run, dir)),
                    NEW started, started = InFile(run, dir, "started"),
                    NEW completed, completed = InFile(run, dir, "completed")
             PROVE  /\ \A before, after \in (SUBSET (Steps \cap started)) \ {{}} :
                          before \cap after = {} =>
                          LET seen == IF after \cap completed = {} THEN after
                                      ELSE after \cap completed IN
                          /\ (/\ before \subseteq completed
                              /\ \A y \in after : before \subseteq returned[y]) =>
                                \A mode \in Modes :
                                   OrderRule(events, mode, before, after) = "pass"
                          /\ OrderRule(events, "all-occurrences", before, after) = "pass" =>
                                \A x \in before, y \in seen :
                                    x \notin open[y] \/ settledAt[x] = calledAt[y]
                    /\ CycleRule(events) = "pass"
                    /\ completed \subseteq started => RelationshipRule(events) = "pass"
                    /\ \E y \in Calls :
                          Width(events) <= Cardinality((open[y] \cup {y}) \cap started)
                       \/ Width(events) = 0
  BY DEF CausalOrder
<1>0. IInv /\ TimesOK
  BY DEF TIInv
<1>1. PICK rows : rows = Read(run, dir)
  OBVIOUS
<1>2. ASSUME NEW before \in (SUBSET (Steps \cap started)) \ {{}},
             NEW after \in (SUBSET (Steps \cap started)) \ {{}}
      PROVE  /\ (/\ before \subseteq completed
                 /\ \A y \in after : before \subseteq returned[y]) =>
                   \A mode \in Modes : OrderRule(events, mode, before, after) = "pass"
             /\ OrderRule(events, "all-occurrences", before, after) = "pass" =>
                   \A seen : seen = (IF after \cap completed = {} THEN after
                                     ELSE after \cap completed) =>
                      \A x \in before, y \in seen :
                         x \notin open[y] \/ settledAt[x] = calledAt[y]
  <2>1. /\ before \subseteq Steps \cap InFile(run, dir, "started") /\ before # {}
        /\ after \subseteq Steps \cap InFile(run, dir, "started") /\ after # {}
    OBVIOUS
  <2>2. (/\ before \subseteq completed
         /\ \A y \in after : before \subseteq returned[y]) =>
            \A mode \in Modes : OrderRule(events, mode, before, after) = "pass"
    BY <1>1, <2>1, OrderAccepts
  <2>4. ASSUME OrderRule(events, "all-occurrences", before, after) = "pass",
               NEW seen, seen = IF after \cap completed = {} THEN after
                                ELSE after \cap completed,
               NEW x \in before, NEW y \in seen
        PROVE  x \notin open[y] \/ settledAt[x] = calledAt[y]
    <3>1. /\ y \in after
          /\ y \in InFile(run, dir, "completed") \/ after \cap InFile(run, dir, "completed") = {}
      BY <2>4
    <3> QED BY <1>1, <2>1, <2>4, <3>1, OrderAccepted
  <2> QED BY <2>2, <2>4
<1>3. CycleRule(events) = "pass"
  BY <1>0, <1>1, NoCycle
<1>4. completed \subseteq started => RelationshipRule(events) = "pass"
  BY <1>1, ParentFirst
<1>5. \E y \in Calls : Width(events) <= Cardinality((open[y] \cup {y}) \cap started)
                         \/ Width(events) = 0
  <2>1. \/ Width(events) = 0
        \/ \E y \in Calls : Width(events) <= Cardinality((open[y] \cup {y}) \cap started)
    BY <1>1, WidthOpen
  <2>2. run \in Calls
    BY DEF Traced, Calls
  <2> QED BY <2>1, <2>2
<1>6. ASSUME NEW before \in (SUBSET (Steps \cap started)) \ {{}},
             NEW after \in (SUBSET (Steps \cap started)) \ {{}}
      PROVE  LET seen == IF after \cap completed = {} THEN after ELSE after \cap completed IN
             /\ (/\ before \subseteq completed
                 /\ \A y \in after : before \subseteq returned[y]) =>
                   \A mode \in Modes : OrderRule(events, mode, before, after) = "pass"
             /\ OrderRule(events, "all-occurrences", before, after) = "pass" =>
                   \A x \in before, y \in seen :
                       x \notin open[y] \/ settledAt[x] = calledAt[y]
  <2>1. PICK seen : seen = IF after \cap completed = {} THEN after ELSE after \cap completed
    OBVIOUS
  <2>2. OrderRule(events, "all-occurrences", before, after) = "pass" =>
           \A x \in before, y \in seen : x \notin open[y] \/ settledAt[x] = calledAt[y]
    BY <1>2, <2>1
  <2>3. (before \subseteq completed /\ \A y \in after : before \subseteq returned[y]) =>
           \A mode \in Modes : OrderRule(events, mode, before, after) = "pass"
    BY <1>2
  <2> QED BY <2>1, <2>2, <2>3
<1>7. \A before, after \in (SUBSET (Steps \cap started)) \ {{}} :
         before \cap after = {} =>
         LET seen == IF after \cap completed = {} THEN after ELSE after \cap completed IN
         /\ (/\ before \subseteq completed
             /\ \A y \in after : before \subseteq returned[y]) =>
               \A mode \in Modes : OrderRule(events, mode, before, after) = "pass"
         /\ OrderRule(events, "all-occurrences", before, after) = "pass" =>
               \A x \in before, y \in seen :
                   x \notin open[y] \/ settledAt[x] = calledAt[y]
  BY <1>6
<1> QED BY <1>3, <1>4, <1>5, <1>7

\* For every program, order of calls and clock, what the rules of order say of a file at any
\* moment is what happened (createStepOrderingRule, createStructureParallelWidthRule and the
\* structure rules over trace-logical-event-projection.ts): [CausalOrder] of every instance.
THEOREM OrderIsCausal == TSpec => []CausalOrder
<1>1. TInit => TIInv
  BY TimesInit
<1>2. TIInv /\ [TNext]_<<vars, times>> => TIInv'
  BY TimesStep
<1>3. TIInv => CausalOrder
  BY OrderTrue
<1> QED BY <1>1, <1>2, <1>3, PTL DEF TSpec

-----------------------------------------------------------------------------
(* What the retry rules read                                                *)

\* The parent of the events of steps under p.
Home(rows, p) ==
    IF p = None \/ Owner(rows, p) = {} THEN p
    ELSE PersistedEvent(rows, CHOOSE j \in Owner(rows, p) : TRUE).id

\* Events have one parent only if their steps have.
Homes(home) ==
    /\ home[None] = None
    /\ \A p, q \in Steps \cup {None} : home[p] = home[q] => p = q

\* The parents that the events of a file show tell the parents of its steps apart.
LEMMA HomeIs ==
    ASSUME NEW run, NEW dir, NEW rows, NEW copies, FileLike(run, dir, rows, copies),
           NEW home, home = [p \in Steps \cup {None} |-> Home(rows, p)]
    PROVE  Homes(home)
<1>1. \A i \in DOMAIN rows : rows[i].of \in Calls /\ rows[i].event \in {"started", "completed"}
  BY DEF FileLike
<1>2. \A i \in DOMAIN rows : i - 1 \in Nat
  <2>1. DOMAIN rows \subseteq Nat \ {0}
    BY RowsOfFinite DEF FileLike
  <2> QED BY <2>1
<1>3. ASSUME NEW p \in Steps \cup {None}
      PROVE  \/ home[p] = p
             \/ p # None /\ \E i \in DOMAIN rows : /\ home[p] = <<rows[i].event, p, i - 1>>
                                                   /\ rows[i].of = p
  <2>1. home[p] = Home(rows, p)
    OBVIOUS
  <2>2. CASE p = None \/ Owner(rows, p) = {}
    BY <2>1, <2>2 DEF Home
  <2>3. CASE p # None /\ Owner(rows, p) # {}
    <3>1. PICK i : i = CHOOSE j \in Owner(rows, p) : TRUE
      OBVIOUS
    <3>2. i \in Owner(rows, p)
      BY <2>3, <3>1
    <3>3. i \in DOMAIN rows /\ rows[i].of = p
      BY <3>2 DEF Owner, OwnerAmong, RowsOf
    <3>4. home[p] = PersistedEvent(rows, i).id
      BY <2>1, <2>3, <3>1 DEF Home
    <3>5. PersistedEvent(rows, i).id = <<rows[i].event, p, i - 1>>
      BY <3>3 DEF PersistedEvent
    <3> QED BY <2>3, <3>3, <3>4, <3>5
  <2> QED BY <2>2, <2>3
<1>4. \A i \in DOMAIN rows : \A p \in Steps \cup {None} : <<rows[i].event, rows[i].of, i - 1>> # p
  BY <1>1, <1>2, ReadingAssumption
<1>5. home[None] = None
  BY <1>3
<1>6. ASSUME NEW p \in Steps \cup {None}, NEW q \in Steps \cup {None}, home[p] = home[q]
      PROVE  p = q
  <2>1. CASE home[p] = p
    <3>1. ASSUME NEW i \in DOMAIN rows, home[q] = <<rows[i].event, q, i - 1>>, rows[i].of = q
          PROVE  FALSE
      <4>1. home[q] = <<rows[i].event, rows[i].of, i - 1>>
        BY <3>1
      <4> QED BY <1>4, <1>6, <2>1, <4>1
    <3>2. home[q] = q
      BY <1>3, <3>1
    <3> QED BY <1>6, <2>1, <3>2
  <2>2. CASE home[p] # p
    <3>1. PICK i \in DOMAIN rows : home[p] = <<rows[i].event, p, i - 1>> /\ rows[i].of = p
      BY <1>3, <2>2
    <3>2. home[q] # q
      BY <1>4, <1>6, <3>1
    <3>3. PICK j \in DOMAIN rows : home[q] = <<rows[j].event, q, j - 1>> /\ rows[j].of = q
      BY <1>3, <3>2
    <3> QED BY <1>6, <3>1, <3>3
  <2> QED BY <2>1, <2>2
<1> QED BY <1>5, <1>6 DEF Homes

\* What an event tells of an attempt.
Attempt(e, made, done, home) ==
    /\ e.name \in made /\ e.kind = "TOOL"
    /\ e.id[1] = "started" /\ e.id[2] = e.name
    /\ e.startedAt = calledAt[e.name] /\ StartMs(e) = calledAt[e.name]
    /\ e.parent = home[store[Outer[e.name]].step]
    /\ e.name \notin done => e.status = "running"
    /\ e.name \in done /\ e.name \in failed => e.status = "error"
    /\ e.name \in done /\ e.name \notin failed => e.status = "ok"
    /\ e.name \in done => e.timestamp = settledAt[e.name]

\* What the event of an attempted step says of it: name, kind, status, parent and times.
LEMMA AttemptIs ==
    ASSUME TimesOK, NEW run, NEW dir, NEW rows, NEW copies, FileLike(run, dir, rows, copies),
           NEW home, home = [p \in Steps \cup {None} |-> Home(rows, p)],
           NEW made, made = Steps \cap InFile(run, dir, "started"),
           NEW done, done = made \cap InFile(run, dir, "completed"),
           NEW i \in DOMAIN rows, rows[i].event = "started", rows[i].of \in Steps,
           NEW e, e = Event(rows, i)
    PROVE  Attempt(e, made, done, home) /\ store[Outer[e.name]].step \in Steps \cup {None}
<1>1. Even(rows, copies)
  BY DEF FileLike
<1>2. PICK x : x = rows[i].of
  OBVIOUS
<1>3. /\ x \in Steps /\ x \notin Runs /\ x \in Calls /\ x \in made
  <2>1. i \in RowsOf(rows, "started", x)
    BY <1>2 DEF RowsOf
  <2>2. x \in InFile(run, dir, "started")
    BY <2>1 DEF FileLike
  <2> QED BY <1>2, <2>2, TracingAssumption DEF Calls
<1>4. x \in done <=> RowsOf(rows, "completed", x) # {}
  BY <1>3 DEF FileLike
<1>5. /\ e.id = <<"started", x, i - 1>> /\ e.parent = ParentOf(rows, i)
      /\ e.kind = "TOOL" /\ e.name = x /\ e.startedAt = rows[i].at
  BY <1>1, <1>2, <1>3, EventIs
<1>6. e.startedAt = calledAt[x] /\ StartMs(e) = calledAt[x]
  <2>1. e.startedAt = calledAt[x]
    BY <1>2, <1>5 DEF FileLike
  <2>2. calledAt[x] # None
    BY <1>3, ReadingAssumption DEF TimesOK
  <2> QED BY <2>1, <2>2 DEF StartMs
<1>7. PICK p : p = store[Outer[x]].step
  OBVIOUS
<1>8. rows[i].parent = p /\ p \in Steps \cup {None}
  <2>1. Outer[x] # None /\ rows[i].parent = Context(x).step /\ rows[i].parent \in Steps \cup {None}
    BY <1>2, <1>3 DEF FileLike, Told
  <2> QED BY <1>7, <2>1 DEF Context
<1>9. ParentOf(rows, i) = Home(rows, p)
  <2>1. CASE p = None
    BY <1>8, <2>1 DEF ParentOf, Home
  <2>2. CASE p # None /\ Owner(rows, p) = {}
    BY <1>8, <2>2 DEF ParentOf, Home
  <2>3. CASE p # None /\ Owner(rows, p) # {}
    <3>1. PICK j : j = CHOOSE k \in Owner(rows, p) : TRUE
      OBVIOUS
    <3>2. j \in Owner(rows, p)
      BY <2>3, <3>1
    <3>3. j \in DOMAIN rows /\ rows[j].of = p
      BY <3>2 DEF Owner, OwnerAmong, RowsOf
    <3>4. j # i
      BY <1>8, <3>3 DEF FileLike
    <3> QED BY <1>8, <2>3, <3>1, <3>4 DEF ParentOf, Home
  <2> QED BY <2>1, <2>2, <2>3
<1>10. e.parent = home[p]
  BY <1>5, <1>8, <1>9
<1>11. CASE x \notin done
  <2>1. e.status = "running"
    BY <1>1, <1>2, <1>4, <1>11, EventIs
  <2> QED BY <1>3, <1>5, <1>6, <1>7, <1>8, <1>10, <1>11, <2>1 DEF Attempt
<1>12. CASE x \in done
  <2>1. PICK c \in RowsOf(rows, "completed", x) :
           /\ e.status = IF rows[c].ok THEN "ok" ELSE "error"
           /\ e.timestamp = rows[c].at
    BY <1>1, <1>2, <1>4, <1>12, EventIs
  <2>2. c \in DOMAIN rows /\ rows[c].event = "completed" /\ rows[c].of = x
    BY DEF RowsOf
  <2>3. rows[c].at = settledAt[x] /\ Told(run, rows[c])
    BY <2>2 DEF FileLike
  <2>4. rows[c].ok <=> x \notin failed
    BY <2>2, <2>3 DEF Told
  <2> QED BY <1>3, <1>5, <1>6, <1>7, <1>8, <1>10, <1>12, <2>1, <2>3, <2>4 DEF Attempt
<1> QED BY <1>11, <1>12

\* The attempts among some events are those of the steps whose start is in the file.
Attempts(events, made, done, home) ==
    /\ Homes(home)
    /\ made \subseteq Steps /\ done \subseteq made /\ IsFiniteSet(made)
    /\ \A x \in made : /\ calledAt[x] \in Nat /\ settledAt[x] \in Nat
                       /\ store[Outer[x]].step \in Steps \cup {None}
    /\ \E n \in Nat : DOMAIN events = 1 .. n
    /\ \A k \in DOMAIN events : events[k].name \in Steps => Attempt(events[k], made, done, home)
    /\ \A x \in made : \E k \in DOMAIN events : events[k].name = x

\* The events of a file with each row once or twice are those of the attempts in it.
LEMMA AttemptsAre ==
    ASSUME TimesOK, NEW run, NEW dir, NEW rows, NEW copies, FileLike(run, dir, rows, copies),
           NEW home, home = [p \in Steps \cup {None} |-> Home(rows, p)],
           NEW made, made = Steps \cap InFile(run, dir, "started"),
           NEW done, done = made \cap InFile(run, dir, "completed"),
           NEW events, events = Logical(rows)
    PROVE  Attempts(events, made, done, home)
<1>1. Even(rows, copies)
  BY DEF FileLike
<1>2. Homes(home)
  BY HomeIs
<1>3. PICK n \in Nat : DOMAIN events = 1 .. n
  BY <1>1, LogicalIs
<1>4. /\ \A k \in DOMAIN events : \E i \in DOMAIN rows : events[k] = Event(rows, i)
      /\ \A i \in DOMAIN rows : rows[i].event = "started" =>
            \E k \in DOMAIN events : events[k] = Event(rows, i)
  <2>1. /\ \A i \in Kept(rows) : i \in DOMAIN rows
        /\ \A i \in DOMAIN rows : rows[i].event = "started" => i \in Kept(rows)
    BY <1>1, KeptIs DEF Kept
  <2> QED BY <1>1, <2>1, LogicalIs
<1>5. None \notin Steps
  BY TracingAssumption DEF Calls
<1>6. ASSUME NEW k \in DOMAIN events, events[k].name \in Steps
      PROVE  Attempt(events[k], made, done, home)
  <2>1. PICK i \in DOMAIN rows : events[k] = Event(rows, i)
    BY <1>4
  <2>2. rows[i].event = "started"
    <3>1. rows[i].event = "completed" => events[k].name = None
      BY <1>1, <2>1, EventIs
    <3> QED BY <1>5, <1>6, <3>1 DEF FileLike
  <2>3. rows[i].of = events[k].name
    BY <1>1, <2>1, <2>2, EventIs
  <2> QED BY <1>6, <2>1, <2>2, <2>3, AttemptIs
<1>7. ASSUME NEW x \in made
      PROVE  /\ calledAt[x] \in Nat /\ settledAt[x] \in Nat
             /\ store[Outer[x]].step \in Steps \cup {None}
             /\ \E k \in DOMAIN events : events[k].name = x
  <2>1. RowsOf(rows, "started", x) # {} /\ x \in Steps
    BY DEF FileLike
  <2>2. PICK i \in DOMAIN rows : rows[i].event = "started" /\ rows[i].of = x
    BY <2>1 DEF RowsOf
  <2>3. PICK k \in DOMAIN events : events[k] = Event(rows, i)
    BY <1>4, <2>2
  <2>4. events[k].name = x
    BY <1>1, <2>2, <2>3, EventIs
  <2>5. store[Outer[x]].step \in Steps \cup {None}
    BY <2>1, <2>2, <2>3, <2>4, AttemptIs
  <2> QED BY <2>1, <2>4, <2>5 DEF TimesOK, Calls
<1>8. IsFiniteSet(made)
  <2>1. PICK named : named = {k \in DOMAIN events : events[k].name \in made}
    OBVIOUS
  <2>2. PICK f : f = [k \in named |-> events[k].name]
    OBVIOUS
  <2>3. f \in [named -> made] /\ \A x \in made : \E k \in named : f[k] = x
    BY <1>7, <2>1, <2>2
  <2>4. IsFiniteSet(named)
    <3>1. IsFiniteSet(1 .. n) /\ named \in SUBSET (1 .. n)
      BY <1>3, <2>1, FS_Interval
    <3> QED BY <3>1, FS_Subset
  <2> QED BY <2>3, <2>4, ImageFinite
<1> QED BY <1>2, <1>3, <1>6, <1>7, <1>8 DEF Attempts

\* The members of the operation are the events of the steps, a finite number of them.
LEMMA MembersAre ==
    ASSUME NEW events, NEW made, NEW done, NEW home, Attempts(events, made, done, home),
           NEW S, S \subseteq Steps, NEW K, K = Named(events, S)
    PROVE  /\ \A k : k \in K <=> k \in DOMAIN events /\ events[k].name \in S
           /\ \A k \in K : Attempt(events[k], made, done, home) /\ events[k].name \in made
           /\ \A x \in S \cap made : \E k \in K : events[k].name = x
           /\ IsFiniteSet(K) /\ K \subseteq Nat
           /\ \A k \in K : /\ k \in Running(events) <=> events[k].name \notin done
                           /\ k \in Finished(events) <=> events[k].name \in done
                           /\ events[k].status = "ok" <=> events[k].name \in done \ failed
                           /\ events[k].status = "error" <=> events[k].name \in done \cap failed
<1>1. \A k \in DOMAIN events : events[k].name \in S => Attempt(events[k], made, done, home)
  BY DEF Attempts
<1>2. \A k : k \in K <=> k \in DOMAIN events /\ events[k].name \in S
  BY <1>1 DEF Named, Attempt
<1>3. IsFiniteSet(K) /\ K \subseteq Nat
  <2>1. PICK n \in Nat : DOMAIN events = 1 .. n
    BY DEF Attempts
  <2>2. IsFiniteSet(1 .. n) /\ K \in SUBSET (1 .. n)
    BY <1>2, <2>1, FS_Interval
  <2> QED BY <2>2, FS_Subset
<1>4. ASSUME NEW k \in K
      PROVE  /\ Attempt(events[k], made, done, home) /\ events[k].name \in made
             /\ k \in Running(events) <=> events[k].name \notin done
             /\ k \in Finished(events) <=> events[k].name \in done
             /\ events[k].status = "ok" <=> events[k].name \in done \ failed
             /\ events[k].status = "error" <=> events[k].name \in done \cap failed
  <2>1. Attempt(events[k], made, done, home) /\ k \in DOMAIN events
    BY <1>1, <1>2
  <2> QED BY <2>1 DEF Attempt, Running, Finished
<1>5. \A x \in S \cap made : \E k \in K : events[k].name = x
  BY <1>2 DEF Attempts
<1> QED BY <1>2, <1>3, <1>4, <1>5

\* Sets that a function maps one to one onto each other have the same size.
LEMMA SameSize ==
    ASSUME NEW S, NEW T, IsFiniteSet(S), NEW f \in [S -> T],
           \A x, y \in S : f[x] = f[y] => x = y, \A t \in T : \E x \in S : f[x] = t
    PROVE  IsFiniteSet(T) /\ Cardinality(T) = Cardinality(S)
<1>1. f \in Bijection(S, T)
  BY DEF Bijection, Injection, IsInjective, Surjection
<1> QED BY <1>1, FS_Bijection DEF ExistsBijection

\* Attempts have one fingerprint each, in however many copies.
LEMMA FingerprintsAre ==
    ASSUME NEW events, NEW made, NEW done, NEW home, Attempts(events, made, done, home),
           NEW K, NEW S, S \subseteq made,
           \A k \in K : k \in DOMAIN events /\ events[k].name \in S,
           \A x \in S : \E k \in K : events[k].name = x
    PROVE  Cardinality(Fingerprints(events, K)) = Cardinality(S)
<1>1. \A k \in K : Attempt(events[k], made, done, home)
  BY DEF Attempts
<1>2. ASSUME NEW j \in K, NEW k \in K
      PROVE  Fingerprint(events[j]) = Fingerprint(events[k]) <=> events[j].name = events[k].name
  <2>1. Fingerprint(events[j])[2] = events[j].name /\ Fingerprint(events[k])[2] = events[k].name
    BY <1>1 DEF Fingerprint, Attempt
  <2>2. ASSUME events[j].name = events[k].name
        PROVE  Fingerprint(events[j]) = Fingerprint(events[k])
    <3>1. /\ events[j].id[1] = events[k].id[1] /\ events[j].id[2] = events[k].id[2]
          /\ events[j].parent = events[k].parent /\ events[j].startedAt = events[k].startedAt
      BY <1>1, <2>2 DEF Attempt
    <3>2. events[j].status = events[k].status
      BY <1>1, <2>2 DEF Attempt
    <3> QED BY <3>1, <3>2 DEF Fingerprint
  <2> QED BY <2>1, <2>2
<1>3. PICK T : T = Fingerprints(events, K)
  OBVIOUS
<1>4. PICK at : at = [x \in S |-> CHOOSE k \in K : events[k].name = x]
  OBVIOUS
<1>5. \A x \in S : at[x] \in K /\ events[at[x]].name = x
  BY <1>4
<1>6. PICK f : f = [x \in S |-> Fingerprint(events[at[x]])]
  OBVIOUS
<1>7. f \in [S -> T]
  BY <1>3, <1>5, <1>6 DEF Fingerprints
<1>8. \A x, y \in S : f[x] = f[y] => x = y
  BY <1>2, <1>5, <1>6
<1>9. ASSUME NEW t \in T PROVE \E x \in S : f[x] = t
  <2>1. PICK k \in K : t = Fingerprint(events[k])
    BY <1>3 DEF Fingerprints
  <2>2. PICK x \in S : x = events[k].name
    OBVIOUS
  <2>3. Fingerprint(events[at[x]]) = Fingerprint(events[k])
    BY <1>2, <1>5, <2>2
  <2> QED BY <1>6, <2>1, <2>3
<1>10. IsFiniteSet(S)
  BY FS_Subset DEF Attempts
<1> QED BY <1>3, <1>7, <1>8, <1>9, <1>10, SameSize

\* However many attempts carry an id or a number of their own, as many are counted.
LEMMA Counted ==
    ASSUME NEW events, NEW made, NEW done, NEW home, Attempts(events, made, done, home),
           NEW number, \A x, y \in made : number[x] = number[y] => x = y,
           NEW I \in SUBSET made, NEW N \in SUBSET made, NEW meta, meta = Meta(number, I, N)
    PROVE  AttemptCount(events, meta) = Cardinality(made)
<1>1. PICK members : members = Members(events, meta)
  OBVIOUS
<1>2. /\ meta.attempts = Steps /\ meta.identified = I /\ meta.numbered = N
      /\ meta.number = number
  BY DEF Meta
<1>3. /\ \A k \in members : k \in DOMAIN events /\ events[k].name \in made
      /\ \A x \in made : \E k \in members : events[k].name = x
  <2>1. members = Named(events, Steps) /\ made \subseteq Steps
    BY <1>1, <1>2 DEF Members, Attempts
  <2> QED BY <2>1, MembersAre
<1>4. IsFiniteSet(made) /\ Cardinality(made) \in Nat
  BY FS_CardinalityType DEF Attempts
<1>5. ASSUME NEW J \in SUBSET made, NEW known, known = {k \in members : events[k].name \in J}
      PROVE  /\ {events[k].name : k \in known} = J
             /\ IsFiniteSet(J) /\ Cardinality(J) \in Nat
             /\ Cardinality(J) + Cardinality(Fingerprints(events, members \ known))
                   = Cardinality(made)
  <2>1. \A x : x \in {events[k].name : k \in known} <=> x \in J
    BY <1>3, <1>5
  <2>2. {events[k].name : k \in known} = J
    BY <2>1
  <2>3. PICK K, S : K = members \ known /\ S = made \ J
    OBVIOUS
  <2>4. /\ S \subseteq made
        /\ \A k \in K : k \in DOMAIN events /\ events[k].name \in S
        /\ \A x \in S : \E k \in K : events[k].name = x
    BY <1>3, <1>5, <2>3
  <2>5. Cardinality(Fingerprints(events, K)) = Cardinality(S)
    BY <2>4, FingerprintsAre
  <2>6. IsFiniteSet(J) /\ Cardinality(J) \in Nat
    BY <1>4, FS_Subset, FS_CardinalityType
  <2>7. Cardinality(S) = Cardinality(made) - Cardinality(J)
    <3>1. made \cap J = J
      OBVIOUS
    <3> QED BY <1>4, <2>3, <3>1, FS_Difference
  <2> QED BY <1>4, <2>2, <2>3, <2>5, <2>6, <2>7
<1>6. PICK identified, numbered :
         /\ identified = {k \in members : events[k].name \in I}
         /\ numbered = {k \in members : events[k].name \in N}
  OBVIOUS
<1>7. PICK ids, numbers : /\ ids = {events[k].name : k \in identified}
                          /\ numbers = {number[events[k].name] : k \in numbered}
  OBVIOUS
<1>8. AttemptCount(events, meta) =
         IF ids # {}
           THEN Cardinality(ids) + Cardinality(Fingerprints(events, members \ identified))
           ELSE Cardinality(numbers) + Cardinality(Fingerprints(events, members \ numbered))
  BY <1>1, <1>2, <1>6, <1>7 DEF AttemptCount
<1>9. ids = I
  BY <1>5, <1>6, <1>7
<1>10. Cardinality(numbers) = Cardinality(N)
  <2>1. {events[k].name : k \in numbered} = N /\ IsFiniteSet(N)
    BY <1>5, <1>6
  <2>2. PICK f : f = [x \in N |-> number[x]]
    OBVIOUS
  <2>3. \A x \in N : number[x] \in numbers
    BY <1>7, <2>1
  <2>4. \A t \in numbers : \E x \in N : number[x] = t
    BY <1>6, <1>7
  <2>5. f \in [N -> numbers] /\ \A t \in numbers : \E x \in N : f[x] = t
    BY <2>2, <2>3, <2>4
  <2>6. \A x, y \in N : f[x] = f[y] => x = y
    BY <2>2
  <2>7. IsFiniteSet(N)
    BY <2>1
  <2>8. f \in [N -> numbers]
    BY <2>5
  <2>9. \A t \in numbers : \E x \in N : f[x] = t
    BY <2>5
  <2> QED BY <2>6, <2>7, <2>8, <2>9, SameSize
<1>11. CASE I # {}
  BY <1>5, <1>6, <1>8, <1>9, <1>11
<1>12. CASE I = {}
  BY <1>5, <1>6, <1>8, <1>9, <1>10, <1>12
<1> QED BY <1>11, <1>12

\* No two attempts share an id, and all of them have one or none.
LEMMA IdsApart ==
    ASSUME NEW events, NEW made, NEW done, NEW home, Attempts(events, made, done, home),
           NEW number, NEW I, NEW N, NEW meta, meta = Meta(number, I, N)
    PROVE  /\ ~IdReused(events, meta)
           /\ I \in {{}, made} => ~PartlyIdentified(events, meta)
<1>1. meta.attempts = Steps /\ meta.identified = I
  BY DEF Meta
<1>2. PICK members : members = Members(events, meta)
  OBVIOUS
<1>3. \A k \in members : Attempt(events[k], made, done, home) /\ events[k].name \in made
  <2>1. members = Named(events, Steps)
    BY <1>1, <1>2 DEF Members
  <2> QED BY <2>1, MembersAre
<1>4. ASSUME NEW j \in members, NEW k \in members, events[j].name = events[k].name
      PROVE  Fingerprint(events[j]) = Fingerprint(events[k])
  <2>1. /\ events[j].id[1] = events[k].id[1] /\ events[j].id[2] = events[k].id[2]
        /\ events[j].parent = events[k].parent /\ events[j].startedAt = events[k].startedAt
    BY <1>3, <1>4 DEF Attempt
  <2>2. events[j].status = events[k].status
    BY <1>3, <1>4 DEF Attempt
  <2> QED BY <2>1, <2>2 DEF Fingerprint
<1>5. ~IdReused(events, meta)
  BY <1>2, <1>4 DEF IdReused
<1>6. I \in {{}, made} => ~PartlyIdentified(events, meta)
  BY <1>1, <1>2, <1>3 DEF PartlyIdentified
<1> QED BY <1>5, <1>6

\* The calls that have their place in a file before that of x.
Sooner(made, place, x) == {y \in made : place[y] < place[x]}

\* An attempt that comes later in the file has the larger number, and none shares one.
LEMMA NumbersRise ==
    ASSUME NEW made, IsFiniteSet(made), NEW place, NEW number,
           \A x \in made : place[x] \in Nat, \A x, y \in made : place[x] = place[y] => x = y,
           \A x \in made : number[x] = 1 + Cardinality(Sooner(made, place, x))
    PROVE  /\ \A x \in made : number[x] \in Nat \ {0}
           /\ \A x, y \in made : place[x] < place[y] <=> number[x] < number[y]
           /\ \A x, y \in made : number[x] = number[y] => x = y
<1>1. PICK R : R = {p \in made \X made : place[p[1]] < place[p[2]]}
  OBVIOUS
<1>2. \A x, y \in made : <<x, y>> \in R <=> place[x] < place[y]
  BY <1>1
<1>3. PICK rank : rank = [x \in made |-> Cardinality(Below(made, R, x))]
  OBVIOUS
<1>4. Ladder(made, R, rank)
  <2>1. /\ \A x, y \in made : x # y => <<x, y>> \in R \/ <<y, x>> \in R
        /\ \A x \in made : <<x, x>> \notin R
    BY <1>2
  <2>2. \A x, y, z \in made : <<x, y>> \in R /\ <<y, z>> \in R => <<x, z>> \in R
    BY <1>2
  <2>3. \A x \in made : rank[x] = Cardinality(Below(made, R, x))
    BY <1>3
  <2>4. Ranked(made, R, rank)
    BY <2>1, <2>2, <2>3 DEF Ranked
  <2> QED BY <2>4, Ranks
<1>5. ASSUME NEW x \in made PROVE number[x] = 1 + rank[x] /\ rank[x] \in Nat
  <2>1. \A y : y \in Sooner(made, place, x) <=> y \in Below(made, R, x)
    BY <1>2 DEF Below, Sooner
  <2>2. Sooner(made, place, x) = Below(made, R, x)
    BY <2>1, SameSet
  <2>3. rank[x] \in 0 .. Cardinality(made) - 1 /\ Cardinality(made) \in Nat
    BY <1>4 DEF Ladder
  <2> QED BY <1>3, <2>2, <2>3
<1>6. ASSUME NEW x \in made, NEW y \in made
      PROVE  /\ place[x] < place[y] <=> number[x] < number[y]
             /\ number[x] = number[y] => x = y
  <2>1. (<<x, y>> \in R <=> rank[x] < rank[y]) /\ (rank[x] = rank[y] => x = y)
    BY <1>4 DEF Ladder
  <2> QED BY <1>2, <1>5, <2>1
<1> QED BY <1>5, <1>6

\* Each attempt in one event, and numbered in the order of the file.
InOrderOfFile(events, made, number) ==
    /\ \A j, k \in DOMAIN events :
          events[j].name \in made /\ events[j].name = events[k].name => j = k
    /\ \A x \in made : number[x] \in Nat \ {0}
    /\ \A j, k \in DOMAIN events : events[j].name \in made /\ events[k].name \in made =>
          (j < k <=> number[events[j].name] < number[events[k].name])
    /\ \A x, y \in made : number[x] = number[y] => x = y

\* The numbers of the attempts are their places among the attempts of the file.
LEMMA AttemptsInOrder ==
    ASSUME IInv, TimesOK, NEW run \in Traced, NEW dir \in Dirs, NEW rows, rows = Read(run, dir),
           NEW events, events = Logical(rows),
           NEW made, made = Steps \cap InFile(run, dir, "started"),
           NEW place, \A x \in made : place[x] \in DOMAIN events /\ events[place[x]].name = x,
           NEW number, \A x \in made : number[x] = 1 + Cardinality(Sooner(made, place, x))
    PROVE  InOrderOfFile(events, made, number)
<1>1. Recorded(run, dir, rows, events)
  BY FileEvents
<1>2. PICK done, home : /\ done = made \cap InFile(run, dir, "completed")
                        /\ home = [p \in Steps \cup {None} |-> Home(rows, p)]
  OBVIOUS
<1>3. Attempts(events, made, done, home)
  <2>1. FileLike(run, dir, rows, 1)
    BY FileAlone
  <2> QED BY <1>2, <2>1, AttemptsAre
<1>4. ASSUME NEW k \in DOMAIN events, events[k].name \in made
      PROVE  FirstRow(events[k]) \in RowsOf(rows, "started", events[k].name)
  <2>1. events[k].kind = "TOOL"
    BY <1>3, <1>4 DEF Attempts, Attempt
  <2>2. PICK i \in DOMAIN rows : events[k] = Event(rows, i)
    BY <1>1 DEF Recorded
  <2>3. rows[i].event \in {"started", "completed"}
    BY FileIs
  <2>4. Tells(run, dir, rows, events[k], rows[i].of)
    BY <2>1, <2>2, <2>3, EventTold
  <2> QED BY <2>4 DEF Tells
<1>5. ASSUME NEW j \in DOMAIN events, NEW k \in DOMAIN events, events[j].name \in made,
             events[j].name = events[k].name
      PROVE  j = k
  <2>1. FirstRow(events[j]) = FirstRow(events[k])
    BY <1>4, <1>5, FileIs DEF RowsOf
  <2>2. FirstRow(events[k]) \in Nat
    <3>1. DOMAIN rows \subseteq Nat
      BY FileIs, RowsOfFinite
    <3> QED BY <1>4, <1>5, <3>1 DEF RowsOf
  <2>3. ~(j < k) /\ ~(k < j)
    BY <1>1, <2>1, <2>2 DEF Recorded
  <2>4. j \in Nat /\ k \in Nat
    BY <1>1 DEF Recorded
  <2> QED BY <2>3, <2>4
<1>6. \A k \in DOMAIN events : events[k].name \in made => place[events[k].name] = k
  BY <1>5
<1>7. \A x, y \in made : place[x] = place[y] => x = y
  OBVIOUS
<1>8. \A x \in made : place[x] \in Nat
  <2>1. PICK n \in Nat : DOMAIN events = 1 .. n
    BY <1>1 DEF Recorded
  <2> QED BY <2>1
<1>9. IsFiniteSet(made)
  BY <1>3 DEF Attempts
<1>10. /\ \A x \in made : number[x] \in Nat \ {0}
       /\ \A x, y \in made : place[x] < place[y] <=> number[x] < number[y]
       /\ \A x, y \in made : number[x] = number[y] => x = y
  BY <1>7, <1>8, <1>9, NumbersRise
<1>11. ASSUME NEW j \in DOMAIN events, NEW k \in DOMAIN events,
              events[j].name \in made, events[k].name \in made
       PROVE  j < k <=> number[events[j].name] < number[events[k].name]
  <2>1. place[events[j].name] = j /\ place[events[k].name] = k
    BY <1>6, <1>11
  <2>2. place[events[j].name] < place[events[k].name]
           <=> number[events[j].name] < number[events[k].name]
    BY <1>10, <1>11
  <2> QED BY <2>1, <2>2
<1> QED BY <1>5, <1>10, <1>11 DEF InOrderOfFile

\* An attempt that had returned comes before those made after it.
InOrderOfCalls(events, made) ==
    \A j, k \in DOMAIN events :
        (/\ events[j].name \in made /\ events[k].name \in made
         /\ events[j].name \in returned[events[k].name]) => j < k /\ Before(events, j, k)

\* The event of an attempt that returned before another began comes before it.
LEMMA ReturnedFirst ==
    ASSUME TIInv, NEW run \in Traced, NEW dir \in Dirs, NEW rows, rows = Read(run, dir),
           NEW events, events = Logical(rows),
           NEW made, made = Steps \cap InFile(run, dir, "started")
    PROVE  InOrderOfCalls(events, made)
<1>0. IInv /\ TimesOK /\ Later /\ RowsApart
  BY DEF TIInv
<1>1. Recorded(run, dir, rows, events)
  BY <1>0, FileEvents
<1> SUFFICES ASSUME NEW j \in DOMAIN events, NEW k \in DOMAIN events,
                    NEW x \in made, x = events[j].name, NEW y \in made, y = events[k].name,
                    x \in returned[y]
             PROVE  j < k /\ Before(events, j, k)
  BY DEF InOrderOfCalls
<1>2. x \in Calls /\ y \in Calls
  BY DEF Calls
<1>3. calledAt[x] \in Nat /\ calledAt[y] \in Nat /\ calledAt[x] <= calledAt[y]
  <2>1. pc[x] = "settled" /\ settledAt[x] <= calledAt[y]
    BY <1>0, <1>2 DEF Later
  <2>2. calledAt[x] <= settledAt[x]
    BY <1>0, <1>2, <2>1 DEF TimesOK, Over
  <2> QED BY <1>0, <1>2, <2>1, <2>2 DEF TimesOK
<1>4. ASSUME NEW m \in DOMAIN events, events[m].name \in made
      PROVE  Tells(run, dir, rows, events[m], events[m].name)
  <2>1. PICK K : K = Named(events, made)
    OBVIOUS
  <2>2. PICK i \in DOMAIN rows : events[m] = Event(rows, i)
    BY <1>1 DEF Recorded
  <2>3. rows[i].event = "started"
    <3>1. Even(rows, 1)
      BY <1>0, FileIs
    <3>2. rows[i].event = "completed" => events[m].name = None
      BY <2>2, <3>1, EventIs
    <3>3. None \notin Steps
      BY TracingAssumption DEF Calls
    <3> QED BY <1>0, <1>4, <3>2, <3>3, FileIs
  <2>4. Tells(run, dir, rows, events[m], rows[i].of)
    BY <1>0, <2>2, <2>3, EventTold
  <2> QED BY <2>4 DEF Tells
<1>5. Tells(run, dir, rows, events[j], x) /\ Tells(run, dir, rows, events[k], y)
  BY <1>4
<1>6. PICK i, s : i = FirstRow(events[j]) /\ s = FirstRow(events[k])
  OBVIOUS
<1>7. i \in DOMAIN rows /\ rows[i].of = x /\ s \in DOMAIN rows /\ rows[s].of = y
  BY <1>5, <1>6 DEF Tells, RowsOf
<1>8. DOMAIN rows = DOMAIN file[run][dir] /\ \A n \in DOMAIN rows : rows[n].of = file[run][dir][n].of
  BY DEF Read, TimedRow
<1>9. i < s
  BY <1>0, <1>7, <1>8 DEF RowsApart
<1>10. j < k
  BY <1>1, <1>6, <1>9 DEF Recorded
<1>11. StartMs(events[j]) = calledAt[x] /\ StartMs(events[k]) = calledAt[y]
  BY <1>5 DEF Tells
<1> QED BY <1>3, <1>10, <1>11 DEF Before

\* sortByTime is a strict order, so that a latest attempt is there.
LEMMA BeforeOrders ==
    ASSUME NEW events, NEW K, K \subseteq Nat, \A k \in K : StartMs(events[k]) \in Nat
    PROVE  /\ \A k \in K : ~Before(events, k, k)
           /\ \A j, k \in K : j # k => Before(events, j, k) \/ Before(events, k, j)
           /\ \A j, k \in K : Before(events, j, k) => ~Before(events, k, j) /\ j # k
           /\ \A i, j, k \in K : Before(events, i, j) /\ Before(events, j, k) => Before(events, i, k)
BY DEF Before

\* The latest attempt is the last in time, and in the order of the file among those.
LEMMA LatestIs ==
    ASSUME NEW events, NEW K, K \subseteq Nat, IsFiniteSet(K), K # {},
           \A k \in K : StartMs(events[k]) \in Nat, NEW last, last = Latest(events, K)
    PROVE  last \in K /\ \A j \in K : j # last => Before(events, j, last)
<1>1. PICK R : R = {p \in K \X K : Before(events, p[1], p[2])}
  OBVIOUS
<1>2. \A j, k \in K : <<j, k>> \in R <=> Before(events, j, k)
  BY <1>1
<1>3. PICK rank : rank = [k \in K |-> Cardinality(Below(K, R, k))]
  OBVIOUS
<1>4. Ladder(K, R, rank)
  <2>1. /\ \A k \in K : <<k, k>> \notin R
        /\ \A j, k \in K : j # k => <<j, k>> \in R \/ <<k, j>> \in R
        /\ \A i, j, k \in K : <<i, j>> \in R /\ <<j, k>> \in R => <<i, k>> \in R
    BY <1>2, BeforeOrders
  <2>2. \A k \in K : rank[k] = Cardinality(Below(K, R, k))
    BY <1>3
  <2>3. Ranked(K, R, rank)
    BY <2>1, <2>2 DEF Ranked
  <2> QED BY <2>3, Ranks
<1>5. Cardinality(K) \in Nat /\ Cardinality(K) # 0
  BY FS_EmptySet, FS_CardinalityType
<1>6. PICK top \in K : rank[top] = Cardinality(K) - 1
  <2>1. Cardinality(K) - 1 \in 0 .. Cardinality(K) - 1
    BY <1>5
  <2> QED BY <1>4, <2>1 DEF Ladder
<1>7. \A j \in K : j # top => Before(events, j, top)
  <2> SUFFICES ASSUME NEW j \in K, j # top PROVE Before(events, j, top)
    OBVIOUS
  <2>1. /\ rank[j] \in 0 .. Cardinality(K) - 1 /\ (rank[j] = rank[top] => j = top)
        /\ <<j, top>> \in R <=> rank[j] < rank[top]
    BY <1>4 DEF Ladder
  <2> QED BY <1>2, <1>5, <1>6, <2>1
<1>8. \E k \in K : \A j \in K \ {k} : Before(events, j, k)
  BY <1>7
<1> QED BY <1>8 DEF Latest

\* What the retry rules say of the attempts is what became of them.
LEMMA RetriesTold ==
    ASSUME NEW events, NEW made, NEW done, NEW home, NEW number,
           Attempts(events, made, done, home), InOrderOfFile(events, made, number),
           InOrderOfCalls(events, made)
    PROVE  RetriesSeen(events, made, done, number)
<1>1. PICK members : members = Named(events, Steps)
  OBVIOUS
<1>2. /\ \A k : k \in members <=> k \in DOMAIN events /\ events[k].name \in Steps
      /\ \A k \in members : Attempt(events[k], made, done, home) /\ events[k].name \in made
      /\ \A x \in made : \E k \in members : events[k].name = x
      /\ \A k \in members : /\ k \in Running(events) <=> events[k].name \notin done
                            /\ k \in Finished(events) <=> events[k].name \in done
                            /\ events[k].status = "ok" <=> events[k].name \in done \ failed
                            /\ events[k].status = "error" <=> events[k].name \in done \cap failed
  <2>1. made \subseteq Steps
    BY DEF Attempts
  <2> QED BY <1>1, <2>1, MembersAre
<1>3. done \subseteq made /\ made \subseteq Steps
  BY DEF Attempts
<1>4. ASSUME NEW I, NEW N, NEW meta, meta = Meta(number, I, N)
      PROVE  /\ Members(events, meta) = members
             /\ \A k : k \in Done(events, meta) <=> k \in members /\ events[k].name \in done
             /\ meta.evidence = {} /\ meta.numbered = N /\ meta.number = number
  <2>1. /\ meta.attempts = Steps /\ meta.evidence = {} /\ meta.numbered = N
        /\ meta.number = number
    BY <1>4 DEF Meta
  <2>2. Members(events, meta) = members
    BY <1>1, <2>1 DEF Members
  <2> QED BY <1>2, <2>1, <2>2 DEF Done
<1>5. ASSUME NEW x \in done, NEW y \in done, x \in returned[y]
      PROVE  \E j, k \in members : /\ events[j].name = x /\ events[k].name = y
                                   /\ Before(events, j, k) /\ number[x] < number[y]
  <2>1. PICK j \in members : events[j].name = x
    BY <1>2, <1>3
  <2>2. PICK k \in members : events[k].name = y
    BY <1>2, <1>3
  <2>3. j < k /\ Before(events, j, k)
    BY <1>2, <1>5, <2>1, <2>2 DEF InOrderOfCalls
  <2>4. number[x] < number[y]
    BY <1>2, <2>1, <2>2, <2>3 DEF InOrderOfFile
  <2> QED BY <2>1, <2>2, <2>3, <2>4
<1>6. PICK meta : meta = Meta(number, {}, {})
  OBVIOUS
<1>7. /\ Members(events, meta) = members
      /\ \A k : k \in Done(events, meta) <=> k \in members /\ events[k].name \in done
      /\ meta.evidence = {}
  BY <1>4, <1>6
<1>8. TerminalResultRule(events, meta) = Reported(made # {} /\ done = {})
  <2>1. members # {} <=> made # {}
    BY <1>2
  <2>2. members \subseteq Running(events) <=> done = {}
    BY <1>2, <1>3
  <2> QED BY <1>7, <2>1, <2>2 DEF TerminalResultRule
<1>9. ASSUME NEW x \in done \ failed, NEW y \in done, x \in returned[y]
      PROVE  NonIdempotentRule(events, meta) = "fail"
  <2>1. PICK j \in members, k \in members :
           events[j].name = x /\ events[k].name = y /\ Before(events, j, k)
    BY <1>5, <1>9
  <2>2. events[j].status = "ok" /\ j \in Done(events, meta) /\ k \in Done(events, meta)
    BY <1>2, <1>7, <2>1
  <2> QED BY <1>7, <2>1, <2>2 DEF NonIdempotentRule, Reported
<1>10. ASSUME NEW x \in done, NEW y \in done, x \in returned[y], NEW N \in {{}, made},
              NEW known, known = Meta(number, made \ N, N)
       PROVE  EvidenceRule(events, known) = "fail"
  <2>1. PICK j \in members, k \in members :
           /\ events[j].name = x /\ events[k].name = y
           /\ Before(events, j, k) /\ number[x] < number[y]
    BY <1>5, <1>10
  <2>2. PICK among : among = Done(events, known)
    OBVIOUS
  <2>3. /\ \A m : m \in among <=> m \in members /\ events[m].name \in done
        /\ known.evidence = {} /\ known.numbered = N /\ known.number = number
    BY <1>4, <1>10, <2>2
  <2>4. j \in among /\ k \in among /\ j \in Finished(events)
    BY <1>2, <2>1, <2>3
  <2>5. Classify(events, known, among, k) = "retry"
    <3>1. CASE N = made
      <4>1. number[x] \in Nat \ {0} /\ number[y] \in Nat
        BY <1>3 DEF InOrderOfFile
      <4>2. number[y] > 1
        BY <2>1, <4>1
      <4>3. y \in known.numbered /\ known.number[y] > 1
        BY <1>3, <2>3, <3>1, <4>2
      <4> QED BY <2>1, <4>3 DEF Classify
    <3>2. CASE N = {}
      <4>1. y \notin known.numbered
        BY <2>3, <3>2
      <4>2. PICK prior : prior = {m \in among : Before(events, m, k)}
        OBVIOUS
      <4>3. prior # {} /\ prior \cap Finished(events) # {}
        BY <2>1, <2>4, <4>2
      <4> QED BY <2>1, <4>1, <4>2, <4>3 DEF Classify
    <3> QED BY <3>1, <3>2
  <2> QED BY <2>2, <2>3, <2>4, <2>5 DEF EvidenceRule, Reported
<1>11. ASSUME NEW x \in done \cap failed, NEW y \in done \ failed, x \in returned[y]
       PROVE  RecoveredVisibleRule(events, meta) = "pass"
  <2>1. PICK j \in members, k \in members :
           events[j].name = x /\ events[k].name = y /\ Before(events, j, k)
    BY <1>5, <1>11
  <2>2. /\ j \in Done(events, meta) /\ k \in Done(events, meta)
        /\ events[k].status = "ok" /\ events[j].status # "ok"
    BY <1>2, <1>7, <2>1
  <2> QED BY <2>1, <2>2 DEF RecoveredVisibleRule, Reported
<1>12. ASSUME NEW x \in done \cap failed, NEW y \in made, x \in returned[y],
              calledAt[x] < calledAt[y],
              NEW others, others = [Meta(number, {}, {}) EXCEPT !.attempts = made \ {y}]
       PROVE  FallbackRule(events, others, {y}) = "pass"
  <2>1. Members(events, others) = Named(events, made \ {y})
    BY <1>12 DEF Members, Meta
  <2>2. x # y /\ x \in made
    <3>1. calledAt[x] \in Nat /\ x \in made
      BY <1>3 DEF Attempts
    <3> QED BY <1>12, <3>1
  <2>3. PICK j \in members : events[j].name = x
    BY <1>2, <2>2
  <2>4. j \in Named(events, made \ {y}) /\ events[j].status = "error"
        /\ StartMs(events[j]) = calledAt[x]
    <3>1. \A k : k \in Named(events, made \ {y}) <=>
                    k \in DOMAIN events /\ events[k].name \in made \ {y}
      BY <1>3, MembersAre
    <3>2. Attempt(events[j], made, done, home)
      BY <1>2
    <3> QED BY <1>2, <2>2, <2>3, <3>1, <3>2 DEF Attempt
  <2>5. \A f \in Named(events, {y}) : StartMs(events[f]) = calledAt[y]
    <3>1. PICK S : S = {y} /\ S \subseteq Steps
      BY <1>3
    <3>2. \A f \in Named(events, S) : Attempt(events[f], made, done, home)
                                        /\ events[f].name \in S
      BY <3>1, MembersAre
    <3> QED BY <3>1, <3>2 DEF Attempt
  <2> QED BY <1>12, <2>1, <2>4, <2>5 DEF FallbackRule, Reported
<1> QED BY <1>6, <1>8, <1>9, <1>10, <1>11, <1>12 DEF RetriesSeen

\* What the recovery rules say of the attempts is what became of them.
LEMMA RecoveriesTold ==
    ASSUME NEW events, NEW made, NEW done, NEW home, NEW number,
           Attempts(events, made, done, home), InOrderOfFile(events, made, number),
           InOrderOfCalls(events, made)
    PROVE  RecoveriesSeen(events, made, done, number)
<1>1. PICK members : members = Named(events, Steps)
  OBVIOUS
<1>2. /\ \A k : k \in members <=> k \in DOMAIN events /\ events[k].name \in Steps
      /\ \A k \in members : Attempt(events[k], made, done, home) /\ events[k].name \in made
      /\ \A x \in made : \E k \in members : events[k].name = x
      /\ IsFiniteSet(members) /\ members \subseteq Nat
      /\ \A k \in members : /\ k \in Running(events) <=> events[k].name \notin done
                            /\ k \in Finished(events) <=> events[k].name \in done
                            /\ events[k].status = "ok" <=> events[k].name \in done \ failed
                            /\ events[k].status = "error" <=> events[k].name \in done \cap failed
  <2>1. made \subseteq Steps
    BY DEF Attempts
  <2> QED BY <1>1, <2>1, MembersAre
<1>3. done \subseteq made /\ made \subseteq Steps
  BY DEF Attempts
<1>4. \A k \in members : StartMs(events[k]) = calledAt[events[k].name]
                           /\ StartMs(events[k]) \in Nat
  BY <1>2 DEF Attempt, Attempts
<1>5. /\ \A j, k \in members : j # k => Before(events, j, k) \/ Before(events, k, j)
      /\ \A j, k \in members : Before(events, j, k) => ~Before(events, k, j) /\ j # k
  BY <1>2, <1>4, BeforeOrders
<1>6. \A j, k \in members : events[j].name \in returned[events[k].name] => Before(events, j, k)
  BY <1>2 DEF InOrderOfCalls
<1>7. \A j, k \in members : events[j].name = events[k].name => j = k
  BY <1>2 DEF InOrderOfFile
<1>8. PICK meta : meta = Meta(number, {}, {})
  OBVIOUS
<1>9. /\ Members(events, meta) = members
      /\ meta.numbered = {} /\ meta.identified = {}
  <2>1. meta.attempts = Steps /\ meta.numbered = {} /\ meta.identified = {}
    BY <1>8 DEF Meta
  <2> QED BY <1>1, <2>1 DEF Members
<1>10. PICK op : op = [max |-> 1, write |-> TRUE]
  OBVIOUS
<1>11. PICK found : found = OperationFindings(events, meta, op)
  OBVIOUS
<1>12. PICK last : last = Latest(events, members)
  OBVIOUS
<1>13. members # {} => last \in members /\ \A j \in members : j # last => Before(events, j, last)
  BY <1>2, <1>4, <1>12, LatestIs
<1>14. PICK latestOk \in BOOLEAN : latestOk <=> members # {} /\ events[last].status = "ok"
  OBVIOUS
<1>15. PICK failures, retries :
          /\ failures = {k \in members : events[k].status = "error"}
          /\ retries = {k \in members : Classify(events, meta, members, k) = "retry"}
  OBVIOUS
<1>16. found =
          Finding("terminal-success", ~latestOk)
          \cup Finding("duplicate-attempt-id", IdReused(events, meta))
          \cup Finding("max-attempts", AttemptCount(events, meta) > 1)
          \cup Finding("write-completion-unevaluable", members \cap Running(events) # {})
          \cup Finding("attempt-identity",
                       \E k \in members : Classify(events, meta, members, k) = "unknown")
          \cup Finding("failure-before-retry",
                       \E k \in retries : ~\E j \in failures :
                          Before(events, j, k) /\ StartMs(events[j]) < StartMs(events[k]))
          \cup Finding("recovered-failure-visible",
                       /\ latestOk /\ Cardinality(members) > 1
                       /\ ~\E j \in failures, k \in members :
                              events[k].status = "ok" /\ Before(events, j, k))
  <2>1. latestOk = (members # {} /\ events[last].status = "ok")
    BY <1>14
  <2>2. op.max = 1 /\ op.write = TRUE
    BY <1>10
  <2> QED BY <1>9, <1>11, <1>12, <1>15, <2>1, <2>2 DEF OperationFindings
<1>17. /\ "terminal-success" \in found <=> ~latestOk
       /\ "duplicate-attempt-id" \in found <=> IdReused(events, meta)
       /\ "max-attempts" \in found <=> AttemptCount(events, meta) > 1
       /\ "write-completion-unevaluable" \in found <=> members \cap Running(events) # {}
       /\ "attempt-identity" \in found <=>
             \E k \in members : Classify(events, meta, members, k) = "unknown"
       /\ "failure-before-retry" \in found <=>
             \E k \in retries : ~\E j \in failures :
                Before(events, j, k) /\ StartMs(events[j]) < StartMs(events[k])
       /\ "recovered-failure-visible" \in found <=>
             /\ latestOk /\ Cardinality(members) > 1
             /\ ~\E j \in failures, k \in members :
                    events[k].status = "ok" /\ Before(events, j, k)
  BY <1>16 DEF Finding
<1> DEFINE OneByOne == \A x, y \in made : x = y \/ x \in returned[y] \/ y \in returned[x]
           Apart == \A x, y \in made : x \in returned[y] => calledAt[x] < calledAt[y]
           Final(x) == \A y \in made : x \notin returned[y]
<1>18. ASSUME "terminal-success" \notin found PROVE \E x \in done \ failed : Final(x)
  <2>1. last \in members /\ events[last].status = "ok"
    BY <1>13, <1>14, <1>17, <1>18
  <2>2. PICK x \in done \ failed : x = events[last].name
    BY <1>2, <2>1
  <2>3. ASSUME NEW y \in made, x \in returned[y] PROVE FALSE
    <3>1. PICK k \in members : events[k].name = y
      BY <1>2
    <3>2. Before(events, last, k)
      BY <1>6, <2>1, <2>2, <2>3, <3>1
    <3>3. k # last /\ ~Before(events, k, last)
      BY <1>5, <2>1, <3>2
    <3> QED BY <1>13, <2>1, <3>3
  <2> QED BY <2>3
<1>19. "write-completion-unevaluable" \notin found => made = done
  <2> SUFFICES ASSUME members \cap Running(events) = {}, NEW x \in made PROVE x \in done
    BY <1>3, <1>17
  <2>1. PICK k \in members : events[k].name = x
    BY <1>2
  <2>2. k \notin Running(events)
    BY <2>1
  <2> QED BY <1>2, <2>1, <2>2
<1>20. ("max-attempts" \in found) = (Cardinality(made) > 1)
  <2>1. \A x, y \in made : number[x] = number[y] => x = y
    BY DEF InOrderOfFile
  <2>2. AttemptCount(events, meta) = Cardinality(made)
    BY <1>8, <2>1, Counted
  <2> QED BY <1>17, <2>2
<1>21. "duplicate-attempt-id" \notin found
  BY <1>8, <1>17, IdsApart
<1>22. ASSUME OneByOne, NEW x \in done \ failed, Final(x) PROVE "terminal-success" \notin found
  <2>1. PICK k \in members : events[k].name = x
    BY <1>2, <1>3
  <2>2. k = last
    <3> SUFFICES ASSUME k # last PROVE FALSE
      OBVIOUS
    <3>1. last \in members /\ Before(events, k, last)
      BY <1>13, <2>1
    <3>2. PICK y \in made : y = events[last].name
      BY <1>2, <3>1
    <3>3. x # y
      BY <1>7, <2>1, <3>1, <3>2
    <3>4. y \in returned[x]
      BY <1>3, <1>22, <3>2, <3>3
    <3>5. Before(events, last, k)
      BY <1>6, <2>1, <3>1, <3>2, <3>4
    <3> QED BY <1>5, <3>1, <3>5
  <2>3. events[last].status = "ok"
    BY <1>2, <2>1, <2>2
  <2> QED BY <1>14, <1>17, <2>1, <2>3
<1>23. ASSUME NEW k \in members
       PROVE  LET prior == {j \in members : Before(events, j, k)} IN
              Classify(events, meta, members, k) =
                 IF prior = {} THEN "first"
                 ELSE IF prior \cap Finished(events) # {} THEN "retry" ELSE "unknown"
  BY <1>9 DEF Classify
<1>24. ASSUME made = done PROVE "attempt-identity" \notin found
  <2> SUFFICES ASSUME NEW k \in members, Classify(events, meta, members, k) = "unknown"
               PROVE  FALSE
    BY <1>17
  <2>1. PICK prior : prior = {j \in members : Before(events, j, k)}
    OBVIOUS
  <2>2. prior # {} /\ prior \cap Finished(events) = {}
    BY <1>23, <2>1
  <2>3. \A j \in members : j \in Finished(events)
    BY <1>2, <1>24
  <2> QED BY <2>1, <2>2, <2>3
<1>25. ASSUME OneByOne, Apart, \A x, y \in made : x \in returned[y] => x \in done \cap failed,
              NEW j \in members, NEW k \in members, Before(events, j, k)
       PROVE  j \in failures /\ StartMs(events[j]) < StartMs(events[k])
  <2>1. PICK x, y : x = events[j].name /\ y = events[k].name
    OBVIOUS
  <2>2. x \in made /\ y \in made /\ x # y
    BY <1>2, <1>5, <1>7, <1>25, <2>1
  <2>3. y \notin returned[x]
    BY <1>5, <1>6, <1>25, <2>1
  <2>4. x \in returned[y]
    BY <1>25, <2>2, <2>3
  <2>5. x \in done \cap failed /\ calledAt[x] < calledAt[y]
    BY <1>25, <2>2, <2>4
  <2> QED BY <1>2, <1>4, <1>15, <2>1, <2>5
<1>26. ASSUME OneByOne, Apart, \A x, y \in made : x \in returned[y] => x \in done \cap failed
       PROVE  found \cap {"failure-before-retry", "recovered-failure-visible"} = {}
  <2>1. \A j, k \in members : Before(events, j, k) =>
           j \in failures /\ StartMs(events[j]) < StartMs(events[k])
    BY <1>25, <1>26
  <2>2. "failure-before-retry" \notin found
    <3> SUFFICES ASSUME NEW k \in retries
                 PROVE  \E j \in failures :
                           Before(events, j, k) /\ StartMs(events[j]) < StartMs(events[k])
      BY <1>17
    <3>1. k \in members /\ Classify(events, meta, members, k) = "retry"
      BY <1>15
    <3>2. {j \in members : Before(events, j, k)} # {}
      BY <1>23, <3>1
    <3> QED BY <2>1, <3>1, <3>2
  <2>3. "recovered-failure-visible" \notin found
    <3> SUFFICES ASSUME latestOk, Cardinality(members) > 1
                 PROVE  \E j \in failures, k \in members :
                           events[k].status = "ok" /\ Before(events, j, k)
      BY <1>17
    <3>1. last \in members /\ events[last].status = "ok"
      BY <1>13, <1>14
    <3>2. PICK j \in members : j # last
      <4>1. members # {last}
        <5>1. Cardinality({last}) = 1
          BY FS_Singleton
        <5> QED BY <5>1
      <4> QED BY <3>1, <4>1
    <3> QED BY <1>13, <2>1, <3>1, <3>2
  <2> QED BY <2>2, <2>3
<1>27. /\ "terminal-success" \notin found => \E x \in done \ failed : Final(x)
       /\ "write-completion-unevaluable" \notin found => made = done
       /\ ("max-attempts" \in found) = (Cardinality(made) > 1)
       /\ "duplicate-attempt-id" \notin found
       /\ OneByOne =>
             /\ (\E x \in done \ failed : Final(x)) => "terminal-success" \notin found
             /\ made = done => "attempt-identity" \notin found
             /\ (Apart /\ \A x, y \in made : x \in returned[y] => x \in done \cap failed) =>
                   found \cap {"failure-before-retry", "recovered-failure-visible"} = {}
  BY <1>18, <1>19, <1>20, <1>21, <1>22, <1>24, <1>26
<1> QED BY <1>8, <1>10, <1>11, <1>27 DEF RecoveriesSeen

\* The attempts that a failed one is recovered by if one of them is a success, the parents that
\* successes may disagree about, and the role a failure has by the calls.
Followers(x, done, number, order) ==
    {y \in done :
        /\ \/ settledAt[x] < settledAt[y]
           \/ settledAt[x] = settledAt[y] /\ order[x] < order[y]
        /\ number[y] > number[x]
        /\ \/ store[Outer[x]].step = None \/ store[Outer[y]].step = None
           \/ store[Outer[x]].step = store[Outer[y]].step}

Divided(Y) ==
    \E y, z \in Y : /\ store[Outer[y]].step # None /\ store[Outer[z]].step # None
                    /\ store[Outer[y]].step # store[Outer[z]].step

RoleByCalls(x, done, number, order, outcome) ==
    LET Y == Followers(x, done, number, order) IN
    IF Divided(Y \ failed) THEN "unknown"
    ELSE IF Y \ failed # {} THEN "recovered"
    ELSE IF Y # {} THEN "transient"
    ELSE IF outcome = "error" /\ done \subseteq failed THEN "terminal"
    ELSE "unknown"

\* A finite set has more than one member exactly when two of them differ.
LEMMA Several ==
    ASSUME NEW T, IsFiniteSet(T)
    PROVE  /\ Cardinality(T) > 1 <=> \E a, b \in T : a # b
           /\ Cardinality(T) \in Nat
<1>1. Cardinality(T) \in Nat
  BY FS_CardinalityType
<1>2. ASSUME NEW a \in T, NEW b \in T, a # b PROVE Cardinality(T) > 1
  <2>1. Cardinality({a}) = 1 /\ {a} \in SUBSET T /\ {a} # T
    BY <1>2, FS_Singleton
  <2>2. Cardinality({a}) <= Cardinality(T) /\ Cardinality({a}) # Cardinality(T)
    BY <2>1, FS_Subset
  <2> QED BY <1>1, <2>1, <2>2
<1>3. ASSUME \A a, b \in T : a = b PROVE ~(Cardinality(T) > 1)
  <2>1. CASE T = {}
    BY <2>1, FS_EmptySet
  <2>2. CASE T # {}
    <3>1. PICK a \in T : TRUE
      BY <2>2
    <3>2. T = {a}
      BY <1>3, <3>1
    <3> QED BY <3>2, FS_Singleton
  <2> QED BY <2>1, <2>2
<1> QED BY <1>1, <1>2, <1>3

\* A pair has one member exactly when its two are the same.
LEMMA OneOfTwo ==
    ASSUME NEW a, NEW b
    PROVE  Cardinality({a, b}) = 1 <=> a = b
<1>1. CASE a = b
  <2>1. {a, b} = {a}
    BY <1>1
  <2> QED BY <1>1, <2>1, FS_Singleton
<1>2. CASE a # b
  <2>1. IsFiniteSet({a}) /\ IsFiniteSet({b}) /\ {a} \cup {b} = {a, b}
    BY FS_Singleton
  <2>2. IsFiniteSet({a, b})
    BY <2>1, FS_Union
  <2>3. Cardinality({a, b}) > 1
    BY <1>2, <2>2, Several
  <2> QED BY <1>2, <2>3
<1> QED BY <1>1, <1>2

\* The candidates are the events of the attempts that follow.
LEMMA CandidatesAre ==
    ASSUME NEW events, NEW made, NEW done, NEW home, Attempts(events, made, done, home),
           NEW number, \A x \in made : number[x] \in Nat \ {0},
           NEW meta, meta = Meta(number, {}, made),
           NEW order, NEW rank, \A j \in DOMAIN events : rank[j] = order[events[j].name],
           NEW failure \in DOMAIN events, NEW x \in done, x = events[failure].name,
           NEW found, found = Candidates(events, meta, rank, failure),
           NEW Y, Y = Followers(x, done, number, order)
    PROVE  /\ \A k : k \in found <=> k \in DOMAIN events /\ events[k].name \in Y
           /\ NumberOf(events, meta, failure) = number[x]
<1>1. /\ meta.attempts = Steps /\ meta.numbered = made /\ meta.number = number
  BY DEF Meta
<1>2. made \subseteq Steps /\ done \subseteq made /\ Homes(home)
  BY DEF Attempts
<1>3. \A k : k \in Done(events, meta) <=> k \in DOMAIN events /\ events[k].name \in done
  <2>1. PICK members : members = Named(events, Steps)
    OBVIOUS
  <2>2. /\ \A k : k \in members <=> k \in DOMAIN events /\ events[k].name \in Steps
        /\ \A k \in members : k \in Finished(events) <=> events[k].name \in done
    BY <2>1, MembersAre
  <2> QED BY <1>1, <1>2, <2>1, <2>2 DEF Done, Members
<1>4. ASSUME NEW k \in DOMAIN events, events[k].name \in made
      PROVE  NumberOf(events, meta, k) = number[events[k].name]
  <2>1. k \in Named(events, made)
    BY <1>2, <1>4, MembersAre
  <2> QED BY <1>1, <2>1 DEF NumberOf
<1>5. number[x] \in Nat /\ number[x] # None /\ x \in made
  BY <1>2, ReadingAssumption
<1>6. Attempt(events[failure], made, done, home)
  BY <1>2 DEF Attempts
<1>7. ASSUME NEW k \in DOMAIN events, NEW y \in done, y = events[k].name
      PROVE  k \in found <=> y \in Y
  <2>1. Attempt(events[k], made, done, home)
    BY <1>2, <1>7 DEF Attempts
  <2>2. Follows(events, rank, failure, k) <=>
           \/ settledAt[x] < settledAt[y]
           \/ settledAt[x] = settledAt[y] /\ order[x] < order[y]
    BY <1>6, <1>7, <2>1 DEF Follows, Attempt
  <2>3. PICK p, q : p = store[Outer[x]].step /\ q = store[Outer[y]].step
    OBVIOUS
  <2>4. /\ events[failure].parent = home[p] /\ events[k].parent = home[q]
        /\ p \in Steps \cup {None} /\ q \in Steps \cup {None}
    BY <1>2, <1>5, <1>6, <1>7, <2>1, <2>3 DEF Attempt, Attempts
  <2>5. PICK parents : parents = {events[failure].parent, events[k].parent}
    OBVIOUS
  <2>6. (None \in parents \/ Cardinality(parents) = 1) <=> p = None \/ q = None \/ p = q
    <3>1. None \in parents <=> p = None \/ q = None
      BY <1>2, <2>4, <2>5 DEF Homes
    <3>2. Cardinality(parents) = 1 <=> home[p] = home[q]
      <4>1. PICK a, b : a = events[failure].parent /\ b = events[k].parent
        OBVIOUS
      <4>2. Cardinality({a, b}) = 1 <=> a = b
        BY OneOfTwo
      <4> QED BY <2>4, <2>5, <4>1, <4>2
    <3>3. home[p] = home[q] <=> p = q
      BY <1>2, <2>4 DEF Homes
    <3> QED BY <3>1, <3>2, <3>3
  <2>7. NumberOf(events, meta, k) = number[y] /\ NumberOf(events, meta, failure) = number[x]
    BY <1>2, <1>4, <1>7
  <2>8. number[y] > number[x] => k # failure
    BY <1>5, <1>7
  <2>9. k \in found <=>
           /\ k \in Done(events, meta) /\ k # failure
           /\ Follows(events, rank, failure, k) /\ number[y] > number[x]
           /\ None \in parents \/ Cardinality(parents) = 1
    BY <1>5, <2>5, <2>7 DEF Candidates
  <2> QED BY <1>3, <1>7, <2>2, <2>3, <2>6, <2>8, <2>9 DEF Followers
<1>8. \A k : k \in found => k \in DOMAIN events /\ events[k].name \in done
  BY <1>3 DEF Candidates
<1>9. Y \subseteq done
  BY DEF Followers
<1>10. \A k : k \in found <=> k \in DOMAIN events /\ events[k].name \in Y
  BY <1>7, <1>8, <1>9
<1> QED BY <1>2, <1>4, <1>10

\* The attempts have numbers, the events have ranks in the order of a sort, and the file shows
\* that the run failed.
Numbered(made, number) == \A x \in made : number[x] \in Nat \ {0}
RanksByOrder(events, order, rank) == \A j \in DOMAIN events : rank[j] = order[events[j].name]
Broken(events) == \E k \in DOMAIN events : events[k].kind = "RUN" /\ events[k].status = "error"

\* The role is that by the calls when attempts are numbered, in however many copies, and
\* unknown when none is.
LEMMA RoleIs ==
    ASSUME NEW events, NEW made, NEW done, NEW home, Attempts(events, made, done, home),
           NEW number, Numbered(made, number),
           NEW meta, meta = Meta(number, {}, made),
           NEW order, NEW rank, RanksByOrder(events, order, rank),
           NEW failure \in DOMAIN events, NEW x \in done, x = events[failure].name,
           NEW outcome, outcome = "error" <=> Broken(events)
    PROVE  Role(events, meta, rank, failure) = RoleByCalls(x, done, number, order, outcome)
<1>1. PICK found, Y : /\ found = Candidates(events, meta, rank, failure)
                      /\ Y = Followers(x, done, number, order)
  OBVIOUS
<1>2. /\ \A k : k \in found <=> k \in DOMAIN events /\ events[k].name \in Y
      /\ NumberOf(events, meta, failure) = number[x]
  BY <1>1, CandidatesAre DEF Numbered, RanksByOrder
<1>3. /\ meta.attempts = Steps /\ meta.numbered = made
  BY DEF Meta
<1>4. made \subseteq Steps /\ done \subseteq made /\ Homes(home) /\ IsFiniteSet(made)
  BY DEF Attempts
<1>5. Y \subseteq done
  BY <1>1 DEF Followers
<1>6. \A k \in DOMAIN events : events[k].name \in made =>
         /\ Attempt(events[k], made, done, home)
         /\ events[k].status = "ok" <=> events[k].name \in done \ failed
  <2> TAKE k \in DOMAIN events
  <2> SUFFICES ASSUME events[k].name \in made
               PROVE  /\ Attempt(events[k], made, done, home)
                      /\ events[k].status = "ok" <=> events[k].name \in done \ failed
    OBVIOUS
  <2>1. Attempt(events[k], made, done, home)
    BY <1>4 DEF Attempts
  <2> QED BY <2>1 DEF Attempt
<1>7. \A y \in made : \E k \in DOMAIN events : events[k].name = y
  BY DEF Attempts
<1>8. PICK ok : ok = {k \in found : events[k].status = "ok"}
  OBVIOUS
<1>9. \A k : k \in ok <=> k \in DOMAIN events /\ events[k].name \in Y \ failed
  BY <1>2, <1>4, <1>5, <1>6, <1>8
<1>10. PICK T : T = {events[k].parent : k \in ok} \ {None}
  OBVIOUS
<1>11. Cardinality(T) > 1 <=> Divided(Y \ failed)
  <2>1. \A y \in made : store[Outer[y]].step \in Steps \cup {None}
    BY DEF Attempts
  <2>2. \A k \in ok : events[k].name \in made
                        /\ events[k].parent = home[store[Outer[events[k].name]].step]
    BY <1>4, <1>5, <1>6, <1>9 DEF Attempt
  <2>3. \A p \in Steps \cup {None} : home[p] = None <=> p = None
    BY <1>4 DEF Homes
  <2>4. \A t : t \in T <=> \E y \in Y \ failed : /\ store[Outer[y]].step # None
                                                 /\ t = home[store[Outer[y]].step]
    <3>1. ASSUME NEW t \in T
          PROVE  \E y \in Y \ failed : /\ store[Outer[y]].step # None
                                       /\ t = home[store[Outer[y]].step]
      <4>1. PICK k \in ok : t = events[k].parent /\ t # None
        BY <1>10
      <4>2. PICK y \in Y \ failed : y = events[k].name
        BY <1>9
      <4> QED BY <2>1, <2>2, <2>3, <4>1, <4>2
    <3>2. ASSUME NEW y \in Y \ failed, store[Outer[y]].step # None
          PROVE  home[store[Outer[y]].step] \in T
      <4>1. PICK k \in DOMAIN events : events[k].name = y
        BY <1>4, <1>5, <1>7
      <4>2. k \in ok
        BY <1>9, <4>1
      <4>3. events[k].parent = home[store[Outer[y]].step] /\ y \in made
        BY <2>2, <4>1, <4>2
      <4>4. events[k].parent # None
        BY <2>1, <2>3, <3>2, <4>3
      <4> QED BY <1>10, <4>2, <4>3, <4>4
    <3> QED BY <3>1, <3>2
  <2>5. IsFiniteSet(T)
    <3>1. PICK under : under = {y \in Y \ failed : store[Outer[y]].step # None}
      OBVIOUS
    <3>2. IsFiniteSet(under)
      BY <1>4, <1>5, <3>1, FS_Subset
    <3>3. PICK f : f = [y \in under |-> home[store[Outer[y]].step]]
      OBVIOUS
    <3>4. f \in [under -> T]
      BY <2>4, <3>1, <3>3
    <3>5. \A t \in T : \E y \in under : f[y] = t
      BY <2>4, <3>1, <3>3
    <3> QED BY <3>2, <3>4, <3>5, ImageFinite
  <2>6. Cardinality(T) > 1 <=> \E a, b \in T : a # b
    BY <2>5, Several
  <2>7. \A p, q \in Steps \cup {None} : home[p] = home[q] <=> p = q
    BY <1>4 DEF Homes
  <2>8. \A y \in Y : y \in made
    BY <1>4, <1>5
  <2>9. ASSUME NEW a \in T, NEW b \in T, a # b PROVE Divided(Y \ failed)
    <3>1. PICK y \in Y \ failed : store[Outer[y]].step # None /\ a = home[store[Outer[y]].step]
      BY <2>4
    <3>2. PICK z \in Y \ failed : store[Outer[z]].step # None /\ b = home[store[Outer[z]].step]
      BY <2>4
    <3> QED BY <2>9, <3>1, <3>2 DEF Divided
  <2>10. ASSUME Divided(Y \ failed) PROVE \E a, b \in T : a # b
    <3>1. PICK y \in Y \ failed, z \in Y \ failed :
             /\ store[Outer[y]].step # None /\ store[Outer[z]].step # None
             /\ store[Outer[y]].step # store[Outer[z]].step
      BY <2>10 DEF Divided
    <3>2. home[store[Outer[y]].step] \in T /\ home[store[Outer[z]].step] \in T
      BY <2>4, <3>1
    <3>3. home[store[Outer[y]].step] # home[store[Outer[z]].step]
      BY <2>1, <2>7, <2>8, <3>1
    <3> QED BY <3>2, <3>3
  <2> QED BY <2>6, <2>9, <2>10
<1>12. (ok # {} <=> Y \ failed # {}) /\ (found # {} <=> Y # {})
  BY <1>2, <1>4, <1>5, <1>7, <1>9
<1>13. events[failure].name \in meta.numbered
  BY <1>3, <1>4
<1>14. (\E k \in Members(events, meta) : events[k].status = "ok") <=> ~(done \subseteq failed)
  <2>1. PICK members : members = Named(events, Steps)
    OBVIOUS
  <2>2. /\ \A k : k \in members <=> k \in DOMAIN events /\ events[k].name \in Steps
        /\ \A k \in members : events[k].status = "ok" <=> events[k].name \in done \ failed
        /\ \A y \in made : \E k \in members : events[k].name = y
    BY <1>4, <2>1, MembersAre
  <2>3. Members(events, meta) = members
    BY <1>3, <2>1 DEF Members
  <2> QED BY <1>4, <2>2, <2>3
<1>15. PICK succeeded \in BOOLEAN :
          succeeded <=> \E k \in Members(events, meta) : events[k].status = "ok"
  OBVIOUS
<1>16. Role(events, meta, rank, failure) =
          IF Cardinality(T) > 1 THEN "unknown"
          ELSE IF ok # {} THEN "recovered"
          ELSE IF found # {} THEN "transient"
          ELSE IF outcome = "error" /\ ~succeeded THEN "terminal"
          ELSE "unknown"
  BY <1>1, <1>8, <1>10, <1>13, <1>15 DEF Role, Broken
<1> QED BY <1>1, <1>11, <1>12, <1>14, <1>15, <1>16 DEF RoleByCalls

\* Without numbers a failure has no role.
LEMMA RoleUnnumbered ==
    ASSUME NEW events, NEW number, NEW meta, meta = Meta(number, {}, {}), NEW rank, NEW failure
    PROVE  Role(events, meta, rank, failure) = "unknown"
<1>1. meta.numbered = {}
  BY DEF Meta
<1>2. NumberOf(events, meta, failure) = None
  BY <1>1 DEF NumberOf, Named
<1>3. Candidates(events, meta, rank, failure) = {}
  BY <1>2 DEF Candidates
<1>4. PICK ok : ok = {k \in {} : events[k].status = "ok"}
  OBVIOUS
<1>5. {events[k].parent : k \in ok} \ {None} = {}
  BY <1>4
<1>6. Cardinality({}) = 0
  BY FS_EmptySet
<1>7. ~(Cardinality({events[k].parent : k \in ok} \ {None}) > 1) /\ ok = {}
  BY <1>4, <1>5, <1>6
<1> QED BY <1>1, <1>2, <1>3, <1>4, <1>7 DEF Role

\* A failed run is seen when its completion is in the file.
LEMMA BrokenIs ==
    ASSUME NEW run \in Traced, NEW dir, NEW rows, NEW copies, FileLike(run, dir, rows, copies),
           \A i \in DOMAIN rows : rows[i].of \in Runs => rows[i].of = run,
           NEW events, events = Logical(rows)
    PROVE  (\E k \in DOMAIN events : events[k].kind = "RUN" /\ events[k].status = "error")
              <=> run \in failed /\ run \in InFile(run, dir, "completed")
<1>1. Even(rows, copies) /\ run \in Runs
  BY DEF FileLike, Traced
<1>2. /\ \A i \in Kept(rows) : i \in DOMAIN rows
      /\ \A i \in DOMAIN rows : i \in Kept(rows) <=>
            rows[i].event = "started" \/ RowsOf(rows, "started", rows[i].of) = {}
  BY <1>1, KeptIs DEF Kept
<1>3. /\ \A k \in DOMAIN events : \E i \in DOMAIN rows : events[k] = Event(rows, i)
      /\ \A i \in Kept(rows) : \E k \in DOMAIN events : events[k] = Event(rows, i)
  BY <1>1, <1>2, LogicalIs
<1>4. \A i \in DOMAIN rows : /\ rows[i].event \in {"started", "completed"}
                             /\ rows[i].event = "completed" =>
                                   (rows[i].ok <=> rows[i].of \notin failed)
  BY DEF FileLike, Told
<1>5. run \in InFile(run, dir, "completed") <=> RowsOf(rows, "completed", run) # {}
  BY DEF FileLike
<1>6. ASSUME NEW i \in DOMAIN rows, NEW e, e = Event(rows, i)
      PROVE  /\ e.kind = "RUN" <=> rows[i].of \in Runs
             /\ rows[i].event = "started" /\ RowsOf(rows, "completed", rows[i].of) = {} =>
                   e.status = "running"
             /\ rows[i].event = "completed" \/ RowsOf(rows, "completed", rows[i].of) # {} =>
                   (e.status = "error" <=> rows[i].of \in failed)
  <2>1. CASE rows[i].event = "completed"
    <3>1. /\ e.kind = (IF rows[i].of \in Runs THEN "RUN" ELSE "LOGIC")
          /\ e.status = (IF rows[i].ok THEN "ok" ELSE "error")
      BY <1>1, <1>6, <2>1, EventIs
    <3> QED BY <1>4, <2>1, <3>1
  <2>2. CASE rows[i].event = "started"
    <3>1. e.kind = IF rows[i].of \in Runs THEN "RUN" ELSE "TOOL"
      BY <1>1, <1>6, <2>2, EventIs
    <3>2. CASE RowsOf(rows, "completed", rows[i].of) = {}
      <4>1. e.status = "running"
        BY <1>1, <1>6, <2>2, <3>2, EventIs
      <4> QED BY <2>2, <3>1, <3>2, <4>1
    <3>3. CASE RowsOf(rows, "completed", rows[i].of) # {}
      <4>1. PICK c \in RowsOf(rows, "completed", rows[i].of) :
               e.status = IF rows[c].ok THEN "ok" ELSE "error"
        BY <1>1, <1>6, <2>2, <3>3, EventIs
      <4>2. c \in DOMAIN rows /\ rows[c].event = "completed" /\ rows[c].of = rows[i].of
        BY DEF RowsOf
      <4>3. rows[c].ok <=> rows[i].of \notin failed
        BY <1>4, <4>2
      <4> QED BY <3>1, <3>3, <4>1, <4>3
    <3> QED BY <3>2, <3>3
  <2> QED BY <1>4, <2>1, <2>2
<1>7. ASSUME NEW k \in DOMAIN events, events[k].kind = "RUN", events[k].status = "error"
      PROVE  run \in failed /\ run \in InFile(run, dir, "completed")
  <2>1. PICK i \in DOMAIN rows : events[k] = Event(rows, i)
    BY <1>3
  <2>2. rows[i].of = run
    BY <1>6, <1>7, <2>1
  <2>3. RowsOf(rows, "completed", run) # {}
    <3>1. rows[i].event = "completed" => i \in RowsOf(rows, "completed", run)
      BY <2>2 DEF RowsOf
    <3>2. "error" # "running"
      OBVIOUS
    <3>3. rows[i].event = "started" => RowsOf(rows, "completed", rows[i].of) # {}
      BY <1>6, <1>7, <2>1, <3>2
    <3> QED BY <1>4, <2>2, <3>1, <3>3
  <2>4. run \in failed
    BY <1>6, <1>7, <2>1, <2>2, <2>3
  <2> QED BY <1>5, <2>3, <2>4
<1>8. ASSUME run \in failed, run \in InFile(run, dir, "completed")
      PROVE  \E k \in DOMAIN events : events[k].kind = "RUN" /\ events[k].status = "error"
  <2>1. PICK i \in Kept(rows) : rows[i].of = run
    <3>1. PICK c \in DOMAIN rows : rows[c].event = "completed" /\ rows[c].of = run
      BY <1>5, <1>8 DEF RowsOf
    <3>2. CASE RowsOf(rows, "started", run) = {}
      BY <1>2, <3>1, <3>2
    <3>3. CASE RowsOf(rows, "started", run) # {}
      <4>1. PICK s \in DOMAIN rows : rows[s].event = "started" /\ rows[s].of = run
        BY <3>3 DEF RowsOf
      <4> QED BY <1>2, <4>1
    <3> QED BY <3>2, <3>3
  <2>2. PICK k \in DOMAIN events : events[k] = Event(rows, i)
    BY <1>3
  <2>3. i \in DOMAIN rows /\ RowsOf(rows, "completed", rows[i].of) # {}
    BY <1>2, <1>5, <1>8, <2>1
  <2>4. events[k].kind = "RUN" /\ events[k].status = "error"
    BY <1>1, <1>6, <1>8, <2>1, <2>2, <2>3
  <2> QED BY <2>4
<1> QED BY <1>7, <1>8

\* The rows of a file delivered twice are about no other run.
LEMMA TwiceOfRun ==
    ASSUME IInv, NEW run \in Traced, NEW dir \in Dirs, NEW rows, rows = Read(run, dir)
    PROVE  /\ \A i \in DOMAIN rows : rows[i].of \in Runs => rows[i].of = run
           /\ \A i \in DOMAIN Twice(rows) : Twice(rows)[i].of \in Runs => Twice(rows)[i].of = run
<1>1. \A i \in DOMAIN rows : rows[i].of \in Runs => rows[i].of = run
  BY FileIs
<1>2. PICK len \in Nat : DOMAIN rows = 1 .. len
  BY FileIs DEF Even
<1>3. rows = [i \in 1 .. len |-> rows[i]]
  BY <1>2 DEF Read
<1>4. /\ DOMAIN Twice(rows) = 1 .. 2 * len
      /\ \A i \in 1 .. len : Twice(rows)[i] = rows[i] /\ Twice(rows)[i + len] = rows[i]
  BY <1>3, TwiceIs
<1>5. \A j \in 1 .. 2 * len : j \in 1 .. len \/ \E i \in 1 .. len : j = i + len
  <2> TAKE j \in 1 .. 2 * len
  <2>1. j \in 1 .. len \/ (j - len \in 1 .. len /\ j = (j - len) + len)
    OBVIOUS
  <2> QED BY <2>1
<1>6. ASSUME NEW j \in DOMAIN Twice(rows), Twice(rows)[j].of \in Runs
      PROVE  Twice(rows)[j].of = run
  <2>1. PICK i \in 1 .. len : Twice(rows)[j] = rows[i]
    BY <1>4, <1>5
  <2> QED BY <1>1, <1>2, <1>6, <2>1
<1> QED BY <1>1, <1>6

\* What RolesTrue says of one failure.
RoleTrue(events, again, made, done, number, run, k, N, order) ==
    LET meta == Meta(number, {}, N)
        Rank(logical) == [j \in DOMAIN logical |-> order[logical[j].name]]
        x == events[k].name
        role == Role(events, meta, Rank(events), k) IN
    /\ role = "recovered" =>
          \E y \in done \ failed : y \notin returned[x] /\ settledAt[x] <= settledAt[y]
    /\ role = "terminal" => pc[run] = "settled" /\ run \in failed /\ done \subseteq failed
    /\ (N = made /\ \E y \in done \ failed :
          /\ x \in returned[y] /\ store[Outer[x]] = store[Outer[y]]
          /\ settledAt[x] < settledAt[y]
          /\ \/ store[Outer[x]].step # None
             \/ Cardinality({store[Outer[z]].step : z \in done \ failed} \ {None}) <= 1)
          => role = "recovered"
    /\ pc[run] = "settled" =>
          \A j \in EventsOf(again, x) : Role(again, meta, Rank(again), j) = role

\* The roles of the failures of a file tell what the calls did.
LEMMA RolesTold ==
    ASSUME NEW events, NEW again, NEW made, NEW done, NEW home, NEW homeAgain, NEW number,
           Attempts(events, made, done, home), Attempts(again, made, done, homeAgain),
           InOrderOfFile(events, made, number), InOrderOfCalls(events, made),
           NEW run, NEW outcome, outcome = "error" => run \in failed /\ pc[run] = "settled",
           outcome = "error" <=> Broken(events), outcome = "error" <=> Broken(again)
    PROVE  RolesTrue(events, again, made, done, number, run)
<1>1. /\ done \subseteq made /\ IsFiniteSet(made)
      /\ \A x \in made : settledAt[x] \in Nat /\ store[Outer[x]].step \in Steps \cup {None}
  BY DEF Attempts
<1>2. \A x \in made : number[x] \in Nat \ {0}
  BY DEF InOrderOfFile
<1>3. ASSUME NEW x \in made, NEW y \in made, x \in returned[y] PROVE number[x] < number[y]
  <2>1. PICK j \in DOMAIN events : events[j].name = x
    BY DEF Attempts
  <2>2. PICK k \in DOMAIN events : events[k].name = y
    BY DEF Attempts
  <2>3. j < k
    BY <1>3, <2>1, <2>2 DEF InOrderOfCalls
  <2> QED BY <2>1, <2>2, <2>3 DEF InOrderOfFile
<1> SUFFICES ASSUME NEW k \in DOMAIN events, events[k].name \in done \cap failed,
                    NEW N \in {made, {}}, NEW order \in Orders
             PROVE  RoleTrue(events, again, made, done, number, run, k, N, order)
  BY DEF RolesTrue, RoleTrue
<1> DEFINE meta == Meta(number, {}, N)
           rank == [j \in DOMAIN events |-> order[events[j].name]]
           rankAgain == [j \in DOMAIN again |-> order[again[j].name]]
           role == Role(events, meta, rank, k)
           x == events[k].name
<1>r. RanksByOrder(events, order, rank) /\ RanksByOrder(again, order, rankAgain)
  BY DEF RanksByOrder
<1>n. Numbered(made, number)
  BY <1>2 DEF Numbered
<1>x. x \in done /\ x \in failed /\ x \in made
  BY <1>1
<1> SUFFICES
             /\ role = "recovered" =>
                   \E y \in done \ failed : y \notin returned[x] /\ settledAt[x] <= settledAt[y]
             /\ role = "terminal" => pc[run] = "settled" /\ run \in failed /\ done \subseteq failed
             /\ (N = made /\ \E y \in done \ failed :
                   /\ x \in returned[y] /\ store[Outer[x]] = store[Outer[y]]
                   /\ settledAt[x] < settledAt[y]
                   /\ \/ store[Outer[x]].step # None
                      \/ Cardinality({store[Outer[z]].step : z \in done \ failed} \ {None}) <= 1)
                   => role = "recovered"
             /\ pc[run] = "settled" =>
                   \A j \in EventsOf(again, x) : Role(again, meta, rankAgain, j) = role
  BY DEF RoleTrue
<1> HIDE DEF meta, rank, rankAgain, role, x
<1>4. CASE N = {}
  <2>1. N # made
    BY <1>x, <1>4
  <2>2. role = "unknown" /\ \A j : Role(again, meta, rankAgain, j) = "unknown"
    BY <1>4, RoleUnnumbered DEF meta, role
  <2> QED BY <2>1, <2>2
<1>5. CASE N = made
  <2>1. PICK Y : Y = Followers(x, done, number, order)
    OBVIOUS
  <2>2. role = RoleByCalls(x, done, number, order, outcome)
    <3>1. meta = Meta(number, {}, made)
      BY <1>5 DEF meta
    <3>2. x = events[k].name
      BY DEF x
    <3>3. Role(events, meta, rank, k) = RoleByCalls(x, done, number, order, outcome)
      BY <1>n, <1>r, <1>x, <3>1, <3>2, RoleIs
    <3> QED BY <3>3 DEF role
  <2>3. \A j \in EventsOf(again, x) :
           Role(again, meta, rankAgain, j) = RoleByCalls(x, done, number, order, outcome)
    <3> SUFFICES ASSUME NEW j \in DOMAIN again, x = again[j].name
                 PROVE  Role(again, meta, rankAgain, j)
                           = RoleByCalls(x, done, number, order, outcome)
      BY DEF EventsOf
    <3>1. meta = Meta(number, {}, made)
      BY <1>5 DEF meta
    <3> QED BY <1>n, <1>r, <1>x, <3>1, RoleIs
  <2>4. role = IF Divided(Y \ failed) THEN "unknown"
               ELSE IF Y \ failed # {} THEN "recovered"
               ELSE IF Y # {} THEN "transient"
               ELSE IF outcome = "error" /\ done \subseteq failed THEN "terminal"
               ELSE "unknown"
    BY <2>1, <2>2 DEF RoleByCalls
  <2>5. ASSUME role = "recovered"
        PROVE  \E y \in done \ failed : y \notin returned[x] /\ settledAt[x] <= settledAt[y]
    <3>1. PICK y \in Y \ failed : TRUE
      BY <2>4, <2>5
    <3>2. /\ y \in done \ failed /\ number[y] > number[x]
          /\ settledAt[x] < settledAt[y] \/ settledAt[x] = settledAt[y]
      BY <2>1, <3>1 DEF Followers
    <3>3. x \in made /\ y \in made
      BY <1>1, <1>x, <3>2
    <3>4. y \notin returned[x]
      BY <1>2, <1>3, <3>2, <3>3
    <3>5. settledAt[x] <= settledAt[y]
      BY <1>1, <3>2, <3>3
    <3> QED BY <3>2, <3>4, <3>5
  <2>6. role = "terminal" => pc[run] = "settled" /\ run \in failed /\ done \subseteq failed
    BY <2>4
  <2>7. ASSUME NEW y \in done \ failed, x \in returned[y], store[Outer[x]] = store[Outer[y]],
               settledAt[x] < settledAt[y],
               \/ store[Outer[x]].step # None
               \/ Cardinality({store[Outer[z]].step : z \in done \ failed} \ {None}) <= 1
        PROVE  role = "recovered"
    <3>1. number[x] < number[y] /\ number[x] \in Nat /\ number[y] \in Nat
      BY <1>1, <1>x, <1>2, <1>3, <2>7
    <3>2. number[y] > number[x]
      BY <3>1
    <3>3. y \in Y \ failed
      BY <2>1, <2>7, <3>2 DEF Followers
    <3>4. \A z \in Y \ failed : z \in done \ failed /\
             (store[Outer[x]].step = None \/ store[Outer[z]].step = None
                \/ store[Outer[x]].step = store[Outer[z]].step)
      BY <2>1 DEF Followers
    <3>5. ~Divided(Y \ failed)
      <4>1. CASE store[Outer[x]].step # None
        BY <3>4, <4>1 DEF Divided
      <4>2. CASE Cardinality({store[Outer[z]].step : z \in done \ failed} \ {None}) <= 1
        <5>1. PICK T : T = {store[Outer[z]].step : z \in done \ failed} \ {None}
          OBVIOUS
        <5>2. IsFiniteSet(T)
          <6>1. PICK under : under = {z \in done \ failed : store[Outer[z]].step # None}
            OBVIOUS
          <6>2. IsFiniteSet(under)
            BY <1>1, <6>1, FS_Subset
          <6>3. PICK f : f = [z \in under |-> store[Outer[z]].step]
            OBVIOUS
          <6>4. f \in [under -> T] /\ \A t \in T : \E z \in under : f[z] = t
            BY <5>1, <6>1, <6>3
          <6> QED BY <6>2, <6>4, ImageFinite
        <5>3. \A a, b \in T : a = b
          <6>1. Cardinality(T) \in Nat /\ (Cardinality(T) > 1 <=> \E a, b \in T : a # b)
            BY <5>2, Several
          <6>2. ~(Cardinality(T) > 1)
            BY <4>2, <5>1, <6>1
          <6> QED BY <6>1, <6>2
        <5>4. \A z \in Y \ failed : store[Outer[z]].step # None => store[Outer[z]].step \in T
          BY <3>4, <5>1
        <5> QED BY <5>3, <5>4 DEF Divided
      <4> QED BY <2>7, <4>1, <4>2
    <3> QED BY <2>4, <3>3, <3>5
  <2> QED BY <2>2, <2>3, <2>5, <2>6, <2>7
<1> QED BY <1>4, <1>5

\* What RetriesJudged says of one file.
Judged(run, events, again, made, done, number) ==
    /\ pc[run] = "settled" =>
          /\ \A N \in SUBSET made :
                AttemptCount(again, Meta(number, {}, N)) = Cardinality(made)
          /\ \A x \in made :
                AttemptCount(again, Meta(number, {x}, {})) = Cardinality(made)
          /\ \A I \in {{}, made} :
                MaxAttemptsRule(again, Meta(number, I, made), 1)
                    = Reported(Cardinality(made) > 1)
    /\ AttemptCount(events, Meta(number, {}, {})) = Cardinality(made)
    /\ RetriesSeen(events, made, done, number)
    /\ RecoveriesSeen(events, made, done, number)
    /\ RolesTrue(events, again, made, done, number, run)

\* All of it holds of one file of one traced run.
LEMMA FileJudged ==
    ASSUME TIInv, NEW run \in Traced, NEW dir \in Dirs, NEW rows, rows = Read(run, dir),
           NEW events, events = Logical(rows), NEW again, again = Logical(Twice(rows)),
           NEW made, made = Steps \cap InFile(run, dir, "started"),
           NEW done, done = made \cap InFile(run, dir, "completed"),
           NEW place,
           \A x \in made : place[x] \in DOMAIN events /\ events[place[x]].name = x,
           NEW number, \A x \in made : number[x] = 1 + Cardinality(Sooner(made, place, x))
    PROVE  Judged(run, events, again, made, done, number)
<1>0. IInv /\ TimesOK
  BY DEF TIInv
<1>1. FileLike(run, dir, rows, 1) /\ FileLike(run, dir, Twice(rows), 2)
  BY <1>0, FileAlone, FileTwice
<1>2. PICK home, homeAgain : /\ home = [p \in Steps \cup {None} |-> Home(rows, p)]
                             /\ homeAgain = [p \in Steps \cup {None} |-> Home(Twice(rows), p)]
  OBVIOUS
<1>3. Attempts(events, made, done, home) /\ Attempts(again, made, done, homeAgain)
  BY <1>0, <1>1, <1>2, AttemptsAre
<1>6. InOrderOfFile(events, made, number)
  BY <1>0, AttemptsInOrder
<1>7. InOrderOfCalls(events, made)
  BY ReturnedFirst
<1>8. PICK outcome :
         outcome = "error" <=> run \in failed /\ run \in InFile(run, dir, "completed")
  OBVIOUS
<1>9. (outcome = "error" <=> Broken(events)) /\ (outcome = "error" <=> Broken(again))
  BY <1>0, <1>1, <1>8, BrokenIs, TwiceOfRun DEF Broken
<1>10. outcome = "error" => run \in failed /\ pc[run] = "settled"
  <2>1. run \in InFile(run, dir, "completed") =>
           \E i \in DOMAIN rows : rows[i].event = "completed" /\ rows[i].of = run
    BY <1>1 DEF FileLike, RowsOf
  <2>2. \A i \in DOMAIN rows : Matched(run, rows[i])
    BY <1>0, FileIs
  <2> QED BY <1>8, <2>1, <2>2 DEF Matched
<1>11. \A x, y \in made : number[x] = number[y] => x = y
  BY <1>6 DEF InOrderOfFile
<1>12. \A I, N \in SUBSET made : /\ AttemptCount(again, Meta(number, I, N)) = Cardinality(made)
                                 /\ AttemptCount(events, Meta(number, I, N)) = Cardinality(made)
  <2> TAKE I, N \in SUBSET made
  <2>1. PICK meta : meta = Meta(number, I, N)
    OBVIOUS
  <2>2. AttemptCount(again, meta) = Cardinality(made)
    BY <1>3, <1>11, <2>1, Counted
  <2>3. AttemptCount(events, meta) = Cardinality(made)
    BY <1>3, <1>11, <2>1, Counted
  <2> QED BY <2>1, <2>2, <2>3
<1>13. ASSUME NEW I \in {{}, made}
       PROVE  MaxAttemptsRule(again, Meta(number, I, made), 1) = Reported(Cardinality(made) > 1)
  <2>1. PICK meta : meta = Meta(number, I, made)
    OBVIOUS
  <2>2. ~IdReused(again, meta) /\ ~PartlyIdentified(again, meta)
    BY <1>3, <2>1, IdsApart
  <2>3. I \in SUBSET made /\ made \in SUBSET made
    OBVIOUS
  <2>4. AttemptCount(again, meta) = Cardinality(made)
    BY <1>12, <2>1, <2>3
  <2> QED BY <2>1, <2>2, <2>4 DEF MaxAttemptsRule, Reported
<1>14. RetriesSeen(events, made, done, number) /\ RecoveriesSeen(events, made, done, number)
  BY <1>3, <1>6, <1>7, RetriesTold, RecoveriesTold
<1>15. RolesTrue(events, again, made, done, number, run)
  BY <1>3, <1>6, <1>7, <1>9, <1>10, RolesTold
<1>16. \A x \in made : {x} \in SUBSET made /\ {} \in SUBSET made
  OBVIOUS
<1>17. /\ \A N \in SUBSET made : AttemptCount(again, Meta(number, {}, N)) = Cardinality(made)
       /\ \A x \in made : AttemptCount(again, Meta(number, {x}, {})) = Cardinality(made)
       /\ AttemptCount(events, Meta(number, {}, {})) = Cardinality(made)
  BY <1>12, <1>16
<1> QED BY <1>13, <1>14, <1>15, <1>17 DEF Judged

\* It holds of every file of every traced run.
LEMMA RetriesTrue == TIInv => RetriesJudged
<1> SUFFICES ASSUME TIInv, NEW run \in Traced, NEW dir \in Dirs
             PROVE  LET rows == Read(run, dir)
                        events == Logical(rows)
                        again == Logical(Twice(rows))
                        made == Steps \cap InFile(run, dir, "started")
                        done == made \cap InFile(run, dir, "completed")
                        place == [x \in made |->
                                     CHOOSE k \in DOMAIN events : events[k].name = x]
                        number == [x \in made |->
                                     1 + Cardinality({y \in made : place[y] < place[x]})] IN
                    Judged(run, events, again, made, done, number)
  BY DEF RetriesJudged, Judged
<1> DEFINE rows == Read(run, dir)
           events == Logical(rows)
           again == Logical(Twice(rows))
           made == Steps \cap InFile(run, dir, "started")
           done == made \cap InFile(run, dir, "completed")
           place == [x \in made |-> CHOOSE k \in DOMAIN events : events[k].name = x]
           number == [x \in made |-> 1 + Cardinality({y \in made : place[y] < place[x]})]
<1> SUFFICES Judged(run, events, again, made, done, number)
  OBVIOUS
<1> HIDE DEF rows, events, again, made, done, place, number
<1>3. /\ rows = Read(run, dir) /\ events = Logical(rows) /\ again = Logical(Twice(rows))
      /\ made = Steps \cap InFile(run, dir, "started")
      /\ done = made \cap InFile(run, dir, "completed")
  BY DEF rows, events, again, made, done
<1>1. \A x \in made : place[x] \in DOMAIN events /\ events[place[x]].name = x
  <2>1. PICK home : home = [p \in Steps \cup {None} |-> Home(rows, p)]
    OBVIOUS
  <2>2. FileLike(run, dir, rows, 1)
    BY <1>3, FileAlone DEF TIInv
  <2>3. Attempts(events, made, done, home)
    BY <1>3, <2>1, <2>2, AttemptsAre DEF TIInv
  <2>4. \A x \in made : \E k \in DOMAIN events : events[k].name = x
    BY <2>3 DEF Attempts
  <2> QED BY <2>4 DEF place
<1>2. \A x \in made : number[x] = 1 + Cardinality(Sooner(made, place, x))
  BY DEF number, Sooner
<1> QED BY <1>1, <1>2, <1>3, FileJudged

\* What the retry rules, the recovery oracle and the roles of failures say of the attempts of a
\* run is what happened, whichever of them carry an id or a number, also when rows were lost or
\* the file has been delivered twice.
THEOREM RetriesAreJudged == TSpec => []RetriesJudged
<1> QED BY TimesInit, TimesStep, RetriesTrue, PTL DEF TSpec
=============================================================================
