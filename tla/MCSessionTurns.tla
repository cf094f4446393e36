--------------------------- MODULE MCSessionTurns ---------------------------
(***************************************************************************)
(* SessionTurns for TLC: turns t1, t2, t3 of one session.                  *)
(***************************************************************************)
EXTENDS SessionTurns

CONSTANTS t1, t2, t3

=============================================================================
