------------------------------ MODULE MailSem -------------------------------
(***************************************************************************)
(* The semaphore of data-types/mailsem.c (the pthread branch): a count and *)
(* a number of waiters under a mutex, and a condition variable that is     *)
(* signalled only when somebody waits.  What a thread does with the mutex  *)
(* held is one step, since nothing is read or written without it; a thread *)
(* that was woken needs the mutex again before it looks at the count.      *)
(***************************************************************************)
EXTENDS Naturals, FiniteSets

CONSTANTS Threads,    \* the threads that share the semaphore
          MaxCount,   \* bound on the count
          MaxErrors   \* bound on the number of failed waits

ASSUME SemAssumption ==
  /\ IsFiniteSet(Threads)
  /\ MaxCount \in Nat /\ MaxErrors \in Nat

VARIABLES count,          \* current count of the semaphore
          waiters_count,  \* threads that are in the wait loop
          pc,             \* where each thread is
          errors          \* how many waits failed

vars == <<count, waiters_count, pc, errors>>

Sleeping == {t \in Threads : pc[t] = "sleep"}
Woken == {t \in Threads : pc[t] = "woken"}

\* mailsem_new: mailsem_internal_init with an initial count of 0.
Init ==
  /\ count = 0
  /\ waiters_count = 0
  /\ pc = [t \in Threads |-> "run"]
  /\ errors = 0

Go(t, l) == pc' = [pc EXCEPT ![t] = l]

-----------------------------------------------------------------------------
\* mailsem_internal_wait

\* mailsem_down: the thread waits for the mutex.
DownCall(t) ==
  /\ pc[t] = "run"
  /\ Go(t, "enter")
  /\ UNCHANGED <<count, waiters_count, errors>>

\* With the mutex: the thread is counted, and takes a permit or sleeps in
\* pthread_cond_wait, which releases the mutex.
EnterAndTake(t) ==
  /\ pc[t] = "enter" /\ count > 0
  /\ count' = count - 1
  /\ Go(t, "run")
  /\ UNCHANGED <<waiters_count, errors>>

EnterAndSleep_Uncounted(t) ==
  /\ pc[t] = "enter" /\ count = 0
  /\ Go(t, "sleep")
  /\ UNCHANGED <<count, waiters_count, errors>>

EnterAndSleep(t) ==
  /\ pc[t] = "enter" /\ count = 0
  /\ waiters_count' = waiters_count + 1
  /\ Go(t, "sleep")
  /\ UNCHANGED <<count, errors>>

\* pthread_cond_wait may return without a signal.
SpuriousWakeup(t) ==
  /\ pc[t] = "sleep"
  /\ Go(t, "woken")
  /\ UNCHANGED <<count, waiters_count, errors>>

\* The loop tests the count again: another thread may have been faster.
WakeAndTake_Blindly(t) ==
  /\ pc[t] = "woken"
  /\ waiters_count' = waiters_count - 1
  /\ count' = IF count > 0 THEN count - 1 ELSE 0
  /\ Go(t, "run")
  /\ UNCHANGED errors

WakeAndTake(t) ==
  /\ pc[t] = "woken" /\ count > 0
  /\ waiters_count' = waiters_count - 1
  /\ count' = count - 1
  /\ Go(t, "run")
  /\ UNCHANGED errors

WakeAndSleep(t) ==
  /\ pc[t] = "woken" /\ count = 0
  /\ Go(t, "sleep")
  /\ UNCHANGED <<count, waiters_count, errors>>

\* pthread_cond_wait fails: mailsem_down returns -1 and the thread stays
\* counted as a waiter.
WaitFails(t) ==
  /\ pc[t] = "sleep" /\ errors < MaxErrors
  /\ errors' = errors + 1
  /\ Go(t, "run")
  /\ UNCHANGED <<count, waiters_count>>

-----------------------------------------------------------------------------
\* mailsem_internal_post, by any thread: pthread_cond_signal wakes one of the
\* sleepers, if there are any.
Signal_OnFirst == count = 0 /\ waiters_count > 0
Signal == waiters_count > 0

Up ==
  /\ count < MaxCount
  /\ count' = count + 1
  /\ IF Signal /\ Sleeping # {} THEN \E u \in Sleeping : Go(u, "woken")
                                ELSE UNCHANGED pc
  /\ UNCHANGED <<waiters_count, errors>>

-----------------------------------------------------------------------------
MutexStep(t) ==
  \/ EnterAndTake(t) \/ EnterAndSleep(t)
  \/ WakeAndTake(t) \/ WakeAndSleep(t)

Next ==
  \/ \E t \in Threads :
       \/ DownCall(t) \/ MutexStep(t)
       \/ SpuriousWakeup(t) \/ WaitFails(t)
  \/ Up

\* A thread that asks for the mutex gets it: it is held for a few statements
\* only.  Nothing is promised about posts or wake-ups.
Fairness == \A t \in Threads : WF_vars(MutexStep(t))

Spec == Init /\ [][Next]_vars /\ Fairness

-----------------------------------------------------------------------------
TypeOK ==
  /\ count \in 0..MaxCount
  /\ waiters_count \in Nat
  /\ pc \in [Threads -> {"run", "enter", "sleep", "woken"}]
  /\ errors \in 0..MaxErrors

\* Every thread in the wait loop is counted, so that mailsem_internal_post
\* does not skip the signal ("Keep track of the number of waiters so that
\* <sema_post> works correctly"); failed waits only make the number larger.
WaitersCounted == waiters_count >= Cardinality(Sleeping) + Cardinality(Woken)

\* No wake-up is lost: while threads sleep, enough threads are on their way
\* for all the permits there are, however threads that come later, spurious
\* wake-ups and failed waits interfere.
NoLostWakeup == Sleeping # {} => Cardinality(Woken) >= count

S == INSTANCE Semaphore WITH permits <- count,
                             waiting <- {t \in Threads : pc[t] # "run"},
                             refused <- errors

\* mailsem_up and mailsem_down make a counting semaphore: a permit is granted
\* once, to a thread that asked for it, and is not withheld from the waiting
\* threads.
Implements == S!Spec
=============================================================================
