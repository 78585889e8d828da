---------------------------- MODULE InspectorMC ----------------------------
(***************************************************************************)
(* A step s outside of any run whose fn makes a run r with a step a that   *)
(* observes an outcome o; two callers that close.                          *)
(***************************************************************************)
EXTENDS Inspector, TLC

CONSTANTS r, a, o, s, c1, c2

MCOuter == (s :> None) @@ (r :> s) @@ (a :> r) @@ (o :> a)
Signals == Permutations(Callers)
OneFile == [e \in Ids |-> "f"]
=============================================================================
