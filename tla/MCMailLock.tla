----------------------------- MODULE MCMailLock -----------------------------
(***************************************************************************)
(* Two library processes and one mail transfer agent.  RETRY, LOCKTO_RM    *)
(* and LOCKTO_GLOB are 5, 300 and 400 seconds in the code; the instance    *)
(* keeps RETRY <= LOCKTO_RM < LOCKTO_GLOB, not their ratio.  Two inodes:   *)
(* the path's, and one that a descriptor still has open or that a rewrite  *)
(* brings in.                                                              *)
(***************************************************************************)
EXTENDS MailLock

CONSTANTS p1, p2, m1

MCProcs == {p1, p2}
MCMtas == {m1}
MCInodes == 1..2
=============================================================================
