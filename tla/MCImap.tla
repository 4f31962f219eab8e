------------------------------- MODULE MCImap -------------------------------
(***************************************************************************)
(* An instance of Imap: commands enough to log in, select, change the      *)
(* mailbox and go on after a timeout; a uint32_t has ten values.  The      *)
(* client may stop.                                                        *)
(***************************************************************************)
EXTENDS Imap

\* What no later step and no property looks at is left out: the result of the
\* call before the one in progress, what a server that is gone knew, the tag of
\* an exchange that is over.
View ==
  <<state, stream, tag, sel, call, idling, toServer, toClient, server, granted, timeouts, connects, late,
    IF call = Idle THEN ret ELSE "none",
    IF server = "closed" THEN <<>> ELSE <<back, held, qresync>>,
    IF server \in {"APPEND", "AUTHENTICATE", "IDLE"} THEN stag ELSE 0,
    ~late /\ server # "closed" /\ back = "selected" /\ stale>>
=============================================================================
