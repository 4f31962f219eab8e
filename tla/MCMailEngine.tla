---------------------------- MODULE MCMailEngine ----------------------------
(***************************************************************************)
(* An instance of MailEngine: two folders and one uid, which can be lost   *)
(* and come back, two message objects, two lists.  The client may stop.    *)
(***************************************************************************)
EXTENDS MailEngine

\* Nothing is said about a client that goes on after a folder's tables were
\* freed under it, and none goes on after a fault or with the lock held: such
\* states are checked and not continued.
GoesOn == dropped = {} /\ ~con.fault /\ hash_lock = "free"

\* An object that is gone and that nobody holds is never looked at again, one list
\* is as good as another, and the two histories that excuse a fault are looked at
\* together, and for a pop3 storage not at all.
Gone(m) == msg[m].state \in {"freed", "orphan"} /\ Holds(m) = 0
HowMany(l) == Cardinality({i \in DOMAIN lists : lists[i] = l})

View ==
  <<driver, con, [m \in Msgs |-> IF Gone(m) THEN [state |-> "freed"] ELSE msg[m]],
    uid_hash, hash_lock, [l \in {lists[i] : i \in DOMAIN lists} |-> HowMany(l)],
    refs, mimes, dropped, [m \in Msgs |-> IF Gone(m) THEN 0 ELSE unearned[m]],
    driver # "pop3" /\ (blind \/ \E m \in Msgs : unearned[m] > 0)>>
=============================================================================
