------------------------------ MODULE MailIdle ------------------------------
(***************************************************************************)
(* Cancellation and idling of a socket stream (data-types:                 *)
(* mailstream_cancel.c, mailstream_socket.c, mailstream_low.c and          *)
(* mailstream.c).  One thread works with the stream: it reads, writes, and *)
(* between mailstream_setup_idle and mailstream_unsetup_idle waits for     *)
(* data.  Other threads cancel the stream or interrupt the wait.  Both are *)
(* a flag and a byte in a pipe that the worker polls with the socket.      *)
(***************************************************************************)
EXTENDS Naturals, FiniteSets

CONSTANTS Controllers,  \* the threads that cancel and interrupt
          MaxNotify,    \* how often each of them does so
          MaxArrivals   \* how often the socket gets ready

ASSUME IdleAssumption == MaxNotify \in Nat /\ MaxArrivals \in Nat

VARIABLES
  ready,         \* what the socket is ready for
  arrivals,
  ms_cancelled,  \* the flag of the stream's cancel object ...
  cancel_pipe,   \* ... and the bytes in its pipe
  idling,        \* s->idling
  idle,          \* s->idle: NULL or a cancel object
  idle_pipe,     \* the bytes in the pipe of that object
  worker,        \* the worker
  result,        \* how its last call ended
  cpc,           \* the controllers
  notifies,      \* how many calls each of them made
  notified,      \* history: a call of mailstream_cancel has returned
  pending        \* history: what was asked for during the worker's call: a
                 \* cancellation, or an interruption since setup or the last wait

socketVars == <<ready, arrivals>>
cancelVars == <<ms_cancelled, cancel_pipe>>
idleVars == <<idling, idle, idle_pipe>>
controlVars == <<cpc, notifies>>
workVars ==
  <<socketVars, cancelVars, idleVars, worker, result, controlVars, notified, pending>>

Calls == {"read", "write"}
Event(op) == IF op = "read" THEN "in" ELSE "out"

\* Where a call is between the return of poll() and the end of its recv() or send().
Transfers == {"recv", "send"}
Transfer(op) == IF op = "read" THEN "recv" ELSE "send"

IdleInit ==
  /\ ready = {} /\ arrivals = 0
  /\ ms_cancelled = FALSE /\ cancel_pipe = 0
  /\ idling = FALSE /\ idle = "NULL" /\ idle_pipe = 0
  /\ worker = "run" /\ result = "none"
  /\ cpc = [c \in Controllers |-> "run"]
  /\ notifies = [c \in Controllers |-> 0]
  /\ notified = FALSE /\ pending = {}

\* Data arrives, or the peer makes room.
SocketReady(e) ==
  /\ e \notin ready /\ arrivals < MaxArrivals
  /\ ready' = ready \cup {e}
  /\ arrivals' = arrivals + 1
  /\ UNCHANGED <<cancelVars, idleVars, worker, result, controlVars, notified, pending>>

-----------------------------------------------------------------------------
\* The worker.

WorkerReturns(how, seen) ==
  /\ worker' = "run" /\ result' = how
  /\ pending' = pending \ seen

\* mailstream_low_socket_read, mailstream_low_socket_write: a cancelled stream
\* is not tried.
SocketCall_Unchecked(op) ==
  /\ worker = "run"
  /\ worker' = op /\ UNCHANGED <<result, pending>>
  /\ UNCHANGED <<socketVars, cancelVars, idleVars, controlVars, notified>>

SocketCall(op) ==
  /\ worker = "run"
  /\ IF ms_cancelled THEN WorkerReturns("failed", {"cancel"})
                     ELSE worker' = op /\ UNCHANGED <<result, pending>>
  /\ UNCHANGED <<socketVars, cancelVars, idleVars, controlVars, notified>>

\* poll() returns: a cancellation comes before the data.  Otherwise the call
\* goes on to its recv() or send() and looks at the pipe no more.
SocketPoll(op) ==
  /\ worker = op /\ (cancel_pipe > 0 \/ Event(op) \in ready)
  /\ IF cancel_pipe > 0
       THEN /\ cancel_pipe' = cancel_pipe - 1
            /\ WorkerReturns("failed", {"cancel"})
       ELSE /\ worker' = Transfer(op)
            /\ UNCHANGED <<cancel_pipe, result, pending>>
  /\ UNCHANGED <<socketVars, ms_cancelled, idleVars, controlVars, notified>>

\* recv(), read(), send() or write() on the socket.
SocketTransfer(op) ==
  /\ worker = Transfer(op)
  /\ \/ /\ ready' = ready \ {Event(op)}
        /\ WorkerReturns("ok", {"cancel"})
     \/ /\ UNCHANGED ready
        /\ WorkerReturns("failed", {"cancel"})
  /\ UNCHANGED <<arrivals, cancelVars, idleVars, controlVars, notified>>

\* poll() times out.
SocketTimeout(op) ==
  /\ worker = op /\ cancel_pipe = 0 /\ Event(op) \notin ready
  /\ WorkerReturns("failed", {"cancel"})
  /\ UNCHANGED <<socketVars, cancelVars, idleVars, controlVars, notified>>

\* mailstream_setup_idle: sockets have no idle of their own and get an object.
SetupIdle ==
  /\ worker = "run"
  /\ IF idling THEN /\ WorkerReturns("failed", {})
                    /\ UNCHANGED idleVars
               ELSE /\ idle' = "object" /\ idle_pipe' = 0
                    /\ idling' = TRUE
                    /\ WorkerReturns("ok", {"interrupt"})
  /\ UNCHANGED <<socketVars, cancelVars, controlVars, notified>>

\* mailstream_wait_idle
WaitIdle ==
  /\ worker = "run"
  /\ IF idle = "NULL" THEN WorkerReturns("failed", {})
                      ELSE worker' = "wait" /\ UNCHANGED <<result, pending>>
  /\ UNCHANGED <<socketVars, cancelVars, idleVars, controlVars, notified>>

\* mailstream_low_wait_idle: data, then an interruption, then a cancellation.
WaitHasData ==
  /\ worker = "wait" /\ "in" \in ready
  /\ WorkerReturns("has_data", {"cancel", "interrupt"})
  /\ UNCHANGED <<socketVars, cancelVars, idleVars, controlVars, notified>>

WaitInterrupted ==
  /\ worker = "wait" /\ "in" \notin ready /\ idle_pipe > 0
  /\ idle_pipe' = idle_pipe - 1
  /\ WorkerReturns("interrupted", {"cancel", "interrupt"})
  /\ UNCHANGED <<socketVars, cancelVars, idling, idle, controlVars, notified>>

WaitCancelled_Always ==
  /\ worker = "wait" /\ ms_cancelled
  /\ cancel_pipe' = cancel_pipe - 1
  /\ WorkerReturns("cancelled", {"cancel", "interrupt"})
  /\ UNCHANGED <<socketVars, ms_cancelled, idleVars, controlVars, notified>>

WaitCancelled ==
  /\ worker = "wait" /\ "in" \notin ready /\ idle_pipe = 0 /\ cancel_pipe > 0
  /\ cancel_pipe' = cancel_pipe - 1
  /\ WorkerReturns("cancelled", {"cancel", "interrupt"})
  /\ UNCHANGED <<socketVars, ms_cancelled, idleVars, controlVars, notified>>

WaitTimeout ==
  /\ worker = "wait" /\ "in" \notin ready /\ idle_pipe = 0 /\ cancel_pipe = 0
  /\ WorkerReturns("timeout", {"cancel", "interrupt"})
  /\ UNCHANGED <<socketVars, cancelVars, idleVars, controlVars, notified>>

\* mailstream_unsetup_idle.  The programs must not let it overlap with
\* mailstream_interrupt_idle, which would use the object after it was freed.
UnsetupIdle ==
  /\ worker = "run" /\ idling
  /\ \A c \in Controllers : cpc[c] # "interrupt_write"
  /\ idle' = "NULL" /\ idle_pipe' = 0
  /\ idling' = FALSE
  /\ WorkerReturns("ok", {"interrupt"})
  /\ UNCHANGED <<socketVars, cancelVars, controlVars, notified>>

-----------------------------------------------------------------------------
\* The controllers: mailstream_cancel_notify sets the flag with the mutex and
\* writes to the pipe without it.

Control(c, l) == cpc' = [cpc EXCEPT ![c] = l]

CancelFlag(c) ==
  /\ cpc[c] = "run" /\ notifies[c] < MaxNotify
  /\ notifies' = [notifies EXCEPT ![c] = @ + 1]
  /\ ms_cancelled' = TRUE
  /\ Control(c, "cancel_write")
  /\ UNCHANGED <<socketVars, cancel_pipe, idleVars, worker, result, notified, pending>>

CancelWrite_Not(c) ==
  /\ cpc[c] = "cancel_write"
  /\ UNCHANGED cancel_pipe
  /\ notified' = TRUE
  /\ pending' = IF worker = "run" THEN pending ELSE pending \cup {"cancel"}
  /\ Control(c, "run")
  /\ UNCHANGED <<socketVars, ms_cancelled, idleVars, worker, result, notifies>>

CancelWrite(c) ==
  /\ cpc[c] = "cancel_write"
  /\ cancel_pipe' = cancel_pipe + 1
  /\ notified' = TRUE
  /\ pending' = IF worker = "run" THEN pending ELSE pending \cup {"cancel"}
  /\ Control(c, "run")
  /\ UNCHANGED <<socketVars, ms_cancelled, idleVars, worker, result, notifies>>

\* mailstream_interrupt_idle
InterruptTest(c) ==
  /\ cpc[c] = "run" /\ notifies[c] < MaxNotify
  /\ notifies' = [notifies EXCEPT ![c] = @ + 1]
  /\ Control(c, IF idling THEN "interrupt_write" ELSE "run")
  /\ UNCHANGED <<socketVars, cancelVars, idleVars, worker, result, notified, pending>>

InterruptWrite_IfWaiting(c) ==
  /\ cpc[c] = "interrupt_write"
  /\ idle_pipe' = IF worker = "wait" THEN idle_pipe + 1 ELSE idle_pipe
  /\ pending' = pending \cup {"interrupt"}
  /\ Control(c, "run")
  /\ UNCHANGED <<socketVars, cancelVars, idling, idle, worker, result, notifies, notified>>

InterruptWrite(c) ==
  /\ cpc[c] = "interrupt_write"
  /\ idle_pipe' = idle_pipe + 1
  /\ pending' = pending \cup {"interrupt"}
  /\ Control(c, "run")
  /\ UNCHANGED <<socketVars, cancelVars, idling, idle, worker, result, notifies, notified>>

-----------------------------------------------------------------------------
\* A call that polls returns when one of its descriptors is ready.
PollReturns ==
  \/ \E op \in Calls : SocketPoll(op)
  \/ WaitHasData \/ WaitInterrupted \/ WaitCancelled

IdleNext ==
  \/ \E e \in {"in", "out"} : SocketReady(e)
  \/ \E op \in Calls : SocketCall(op) \/ SocketTransfer(op) \/ SocketTimeout(op)
  \/ PollReturns
  \/ SetupIdle \/ WaitIdle \/ WaitTimeout \/ UnsetupIdle
  \/ \E c \in Controllers :
       \/ CancelFlag(c) \/ CancelWrite(c)
       \/ InterruptTest(c) \/ InterruptWrite(c)

\* poll() returns when there is something to report, the socket does not block
\* the transfer after it, and a thread goes on with a notification it has begun.  Nothing makes the timeouts come early.
IdleFairness ==
  /\ WF_workVars(PollReturns)
  /\ WF_workVars(\E op \in Calls : SocketTransfer(op))
  /\ \A c \in Controllers : WF_workVars(CancelWrite(c) \/ InterruptWrite(c))

IdleSpec == IdleInit /\ [][IdleNext]_workVars /\ IdleFairness

-----------------------------------------------------------------------------
IdleTypeOK ==
  /\ ready \subseteq {"in", "out"} /\ arrivals \in 0..MaxArrivals
  /\ ms_cancelled \in BOOLEAN /\ cancel_pipe \in Nat
  /\ idling \in BOOLEAN /\ idle \in {"NULL", "object"} /\ idle_pipe \in Nat
  /\ worker \in Calls \cup Transfers \cup {"run", "wait"}
  /\ result \in {"none", "ok", "failed", "has_data", "interrupted", "cancelled", "timeout"}
  /\ cpc \in [Controllers -> {"run", "cancel_write", "interrupt_write"}]
  /\ notifies \in [Controllers -> 0..MaxNotify]
  /\ notified \in BOOLEAN /\ pending \subseteq {"cancel", "interrupt"}

\* Once a call of mailstream_cancel has returned, no read and no write of the
\* stream gets past its poll() any more, whether or not there are data: not one
\* that was polling then, and none that comes later, although the byte in the
\* pipe was taken by the first call that saw it.  The one success there may
\* still be is that of a transfer poll() had let through before.
CancelSticks ==
  [][notified => /\ worker' \in Transfers => worker' = worker
                 /\ worker' = "run" /\ result' = "ok" => worker \notin Calls]_workVars

\* A cancellation ends the call that is under way, a read, a write or a wait,
\* without its timeout.
CancelEndsCall == "cancel" \in pending ~> "cancel" \notin pending

\* An interruption that comes after mailstream_setup_idle is not lost if the
\* worker is not yet waiting: the wait returns.
InterruptEndsWait ==
  [](worker = "wait" /\ "interrupt" \in pending => <>(worker # "wait"))
=============================================================================
