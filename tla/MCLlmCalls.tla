----------------------------- MODULE MCLlmCalls -----------------------------
(***************************************************************************)
(* LlmCalls for TLC: c3 is made by a tool of c1.                           *)
(***************************************************************************)
EXTENDS LlmCalls

CONSTANTS c1, c2, c3, c4

InlineCalls == [c \in {c3} |-> c1]
=============================================================================
