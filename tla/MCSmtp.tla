------------------------------- MODULE MCSmtp -------------------------------
(***************************************************************************)
(* An instance of Smtp: two recipients, lists of them that are empty, in   *)
(* order and with a repetition, two connections, and enough commands for a *)
(* send that fails half-way and another one after it.  The client may      *)
(* stop.                                                                   *)
(***************************************************************************)
EXTENDS Smtp

MCLists == {<<>>, << 1 >>, << 2 >>, << 1, 2 >>, << 1, 1 >>}
=============================================================================
