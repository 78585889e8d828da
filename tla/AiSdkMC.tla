------------------------------ MODULE AiSdkMC ------------------------------
(***************************************************************************)
(* Three generations on one integration: the first makes no model call,    *)
(* the others one each, the second with a tool call t.                     *)
(***************************************************************************)
EXTENDS AiSdk, TLC

CONSTANT t

ToolOfSecond == t :> 2
ModelCalls == <<0, 1, 1>>
=============================================================================
