---------------------------- MODULE MCAgentInbox ----------------------------
(***************************************************************************)
(* AgentInbox for TLC: messages m1, m2 of other agents, the result r1 of a *)
(* child.                                                                  *)
(***************************************************************************)
EXTENDS AgentInbox

CONSTANTS m1, m2, r1
=============================================================================
