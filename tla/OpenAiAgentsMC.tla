--------------------------- MODULE OpenAiAgentsMC ---------------------------
(***************************************************************************)
(* A trace with a span and a span inside it, over two writers.             *)
(***************************************************************************)
EXTENDS OpenAiAgents, TLC

CONSTANTS t, outer, inner, k1, k2

OneTrace == (outer :> t) @@ (inner :> t)
InnerInOuter == (outer :> None) @@ (inner :> outer)

\* The two writers are alike.
Writers == Permutations({k1, k2})
=============================================================================
