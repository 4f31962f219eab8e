------------------------------- MODULE MCPop3 -------------------------------
(***************************************************************************)
(* An instance of Pop3: maildrops of up to two messages, two connections,  *)
(* enough commands for a login, a listing, deletions and what follows a    *)
(* read that timed out.  The client may stop.                              *)
(***************************************************************************)
EXTENDS Pop3
=============================================================================
