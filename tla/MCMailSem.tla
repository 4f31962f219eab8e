----------------------------- MODULE MCMailSem ------------------------------
(***************************************************************************)
(* Three threads, up to three permits and one failed wait.                 *)
(***************************************************************************)
EXTENDS MailSem

CONSTANTS t1, t2, t3

MCThreads == {t1, t2, t3}
=============================================================================
