------------------------ MODULE LangChainEnvelopeMC ------------------------
(***************************************************************************)
(* Small instances of LangChainEnvelope.  A graph run g and its two nodes  *)
(* name the same unobserved parent; then a second call s on the same       *)
(* handler.                                                                *)
(***************************************************************************)
EXTENDS LangChainEnvelope, TLC

CONSTANTS g, a, b, s, group

GraphParent == (g :> None) @@ (a :> g) @@ (b :> g) @@ (s :> None)
GraphLabel == (g :> group) @@ (a :> group) @@ (b :> group) @@ (s :> None)

\* Nothing names an unobserved parent.
NoLabel == [r \in Runs |-> None]

\* An agent g that calls the model a.
AgentParent == (g :> None) @@ (a :> g)
=============================================================================
