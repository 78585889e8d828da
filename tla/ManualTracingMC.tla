-------------------------- MODULE ManualTracingMC --------------------------
(***************************************************************************)
(* A small program: a run r makes a step a, which makes through a disabled *)
(* run a step c it does not await; c makes a run n, and n a step m.        *)
(***************************************************************************)
EXTENDS ManualTracing, TLC

CONSTANTS r, n, d, a, c, m

NestedOuter ==
    (r :> None) @@ (a :> r) @@ (d :> a) @@ (c :> d) @@ (n :> c) @@ (m :> n)
=============================================================================
