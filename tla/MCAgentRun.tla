----------------------------- MODULE MCAgentRun -----------------------------
(* A root, its sub-agent, and a sub-agent of that one; the last two ask.   *)
EXTENDS AgentRun

CONSTANTS root, child, deep, c1, d1

MCParent == (root :> root) @@ (child :> root) @@ (deep :> child)
MCOwner == (c1 :> child) @@ (d1 :> deep)
=============================================================================
