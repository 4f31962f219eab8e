----------------------------- MODULE MCMailIdle -----------------------------
(***************************************************************************)
(* Two controllers with two notifications each, and a socket that gets     *)
(* ready three times.                                                      *)
(***************************************************************************)
EXTENDS MailIdle
=============================================================================
