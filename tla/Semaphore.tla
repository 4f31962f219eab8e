----------------------------- MODULE Semaphore ------------------------------
(***************************************************************************)
(* What a client of mailsem.h relies on: a counting semaphore.  A thread   *)
(* that asks for a permit waits until it is granted one or is told of a    *)
(* failure; while permits are left and threads wait, one of them gets one. *)
(***************************************************************************)
EXTENDS Naturals

CONSTANT Threads

VARIABLES permits,  \* permits that can be handed out
          waiting,  \* threads inside mailsem_down
          refused   \* how often mailsem_down returned -1

Init == permits = 0 /\ waiting = {} /\ refused = 0

Ask(t) ==
  /\ t \notin waiting
  /\ waiting' = waiting \cup {t}
  /\ UNCHANGED <<permits, refused>>

Grant(t) ==
  /\ t \in waiting /\ permits > 0
  /\ permits' = permits - 1
  /\ waiting' = waiting \ {t}
  /\ UNCHANGED refused

\* mailsem_down fails, and takes no permit.
Refuse(t) ==
  /\ t \in waiting
  /\ waiting' = waiting \ {t}
  /\ refused' = refused + 1
  /\ UNCHANGED permits

Release == permits' = permits + 1 /\ UNCHANGED <<waiting, refused>>

Next == (\E t \in Threads : Ask(t) \/ Grant(t) \/ Refuse(t)) \/ Release

vars == <<permits, waiting, refused>>
SafeSpec == Init /\ [][Next]_vars
Spec == SafeSpec /\ WF_vars(\E t \in Threads : Grant(t))
=============================================================================
