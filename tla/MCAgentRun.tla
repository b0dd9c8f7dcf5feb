----------------------------- MODULE MCAgentRun -----------------------------
(***************************************************************************)
(* AgentRun for TLC: a cockpit, and an agent behind the LangGraph or the   *)
(* Claude adapter.                                                         *)
(***************************************************************************)
EXTENDS AgentRun, TLC

CONSTANTS graph, claude

Framework == (graph :> "langgraph") @@ (claude :> "claude")
GraphStepsSet == (graph :> 2) @@ (claude :> None)
=============================================================================
