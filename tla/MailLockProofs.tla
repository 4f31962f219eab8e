--------------------------- MODULE MailLockProofs ---------------------------
(***************************************************************************)
(* The safety of MailLock for any number of processes, mail transfer       *)
(* agents and inodes and any timeouts.                                     *)
(***************************************************************************)
EXTENDS MailLock, TLAPS

-----------------------------------------------------------------------------
\* The timeouts as numbers.
LEMMA Timeouts ==
  /\ LOCKTO_RM \in Nat /\ LOCKTO_RM > 0
  /\ LOCKTO_GLOB \in Nat /\ RETRY \in Nat /\ STATFAILS \in Nat
BY ConstantsAssumption DEF ConstantsAssumption

\* Init gives every variable of the lock its type.
LEMMA InitType == Init => TypeOK
<1> SUFFICES ASSUME Init PROVE TypeOK
  OBVIOUS
<1>1. 0 \in 0..(LOCKTO_GLOB + 1) /\ 0 \in 0..RETRY /\ 0 \in 0..(STATFAILS + 1)
  BY Timeouts
<1>2. QED
  BY <1>1 DEF Init, TypeOK, LockKinds, PCs, InLoop

\* Every step of a process preserves the types: the lock file's age and the
\* counters of lock_common stay within their bounds.
LEMMA ProcType ==
  ASSUME TypeOK, NEW p \in Procs, ProcStep(p)
  PROVE  TypeOK'
<1> USE Timeouts DEF TypeOK, LockKinds, PCs, InLoop, LockFile
<1>1. ASSUME NEW t \in LockKinds, LockCall(p, t) PROVE TypeOK'
  BY <1>1 DEF LockCall
<1>2. CASE FcntlGranted(p)
  BY <1>2 DEF FcntlGranted, LType
<1>3. CASE FcntlError(p)
  BY <1>3 DEF FcntlError
<1>4. CASE Fail(p)
  BY <1>4 DEF Fail, Leave
<1>5. CASE CreateLockFile(p)
  BY <1>5 DEF CreateLockFile
<1>6. CASE OpenFails(p)
  BY <1>6 DEF OpenFails
<1>7. CASE StatFailedAgain(p)
  BY <1>7 DEF StatFailedAgain, TolerateStat
<1>8. CASE StatDone(p)
  BY <1>8 DEF StatDone
<1>9. CASE RemoveStale(p)
  BY <1>9 DEF RemoveStale
<1>10. CASE UnlinkLockFile(p)
  BY <1>10 DEF UnlinkLockFile
<1>11. CASE FcntlUnlock(p)
  BY <1>11 DEF FcntlUnlock, Leave
<1>12. CASE Reopen(p)
  BY <1>12 DEF Reopen
<1>13. CASE RewriteAndReopen(p)
  BY <1>13 DEF RewriteAndReopen
<1>14. CASE Crash(p)
  BY <1>14 DEF Crash, Leave
<1>15. CASE Restart(p)
  BY <1>15 DEF Restart
<1>16. QED
  BY <1>1, <1>2, <1>3, <1>4, <1>5, <1>6, <1>7, <1>8, <1>9, <1>10, <1>11,
     <1>12, <1>13, <1>14, <1>15
     DEF ProcStep, LoopStep, GlobalTimeout, StatFailedTooOften, RemoveFails

\* So do the mail transfer agents and the clock.
LEMMA EnvType ==
  ASSUME TypeOK, (\E x \in Mtas : MtaLock(x) \/ MtaUnlock(x)) \/ Tick
  PROVE  TypeOK'
<1> USE Timeouts DEF TypeOK, LockFile
<1>1. ASSUME NEW x \in Mtas, MtaLock(x) PROVE TypeOK'
  BY <1>1 DEF MtaLock
<1>2. ASSUME NEW x \in Mtas, MtaUnlock(x) PROVE TypeOK'
  BY <1>2 DEF MtaUnlock
<1>3. CASE Tick
  BY <1>3 DEF Tick, Stale
<1>4. QED
  BY <1>1, <1>2, <1>3

\* The type invariant holds for all constants: lock_common's counters never
\* pass their limits and a lock file always has an owner.
THEOREM TypeCorrect == Spec => []TypeOK
<1>1. TypeOK /\ [Next]_vars => TypeOK'
  <2> SUFFICES ASSUME TypeOK, [Next]_vars PROVE TypeOK'
    OBVIOUS
  <2>1. CASE UNCHANGED vars
    BY <2>1 DEF vars, TypeOK
  <2>2. CASE Next
    BY <2>2, ProcType, EnvType DEF Next
  <2>3. QED
    BY <2>1, <2>2
<1>2. QED
  BY InitType, <1>1, PTL DEF Spec

-----------------------------------------------------------------------------
\* The record locks.

\* Between F_SETLKW and F_UNLCK a process that got its record lock and did
\* not drop it by a rewrite holds the kind it asked for.
HoldsWhatItWants ==
  \A p \in Procs :
    (pc[p] \in InLoop \cup {"cs", "unlock"} /\ ~bare[p]) => fcntl[p] = want[p]

\* What the kernel grants: on one inode a write lock stands alone.
RecordLocksCompatible ==
  \A p, q \in Procs :
    (p # q /\ fd[p] = fd[q] /\ fcntl[p] # "none" /\ fcntl[q] # "none")
      => fcntl[p] = "rd"

FcntlInv ==
  TypeOK /\ NoLeakedFcntlLock /\ HoldsWhatItWants /\ RecordLocksCompatible

\* A step of a process keeps the discipline of the record locks.
LEMMA ProcFcntl ==
  ASSUME FcntlInv, NEW p \in Procs, ProcStep(p)
  PROVE  NoLeakedFcntlLock' /\ HoldsWhatItWants' /\ RecordLocksCompatible'
<1> DEFINE G == NoLeakedFcntlLock' /\ HoldsWhatItWants' /\ RecordLocksCompatible'
<1> USE DEF FcntlInv, TypeOK, NoLeakedFcntlLock, HoldsWhatItWants,
            RecordLocksCompatible, LockKinds, PCs, InLoop
<1>1. ASSUME NEW t \in LockKinds, LockCall(p, t) PROVE G
  BY <1>1 DEF LockCall
<1>2. CASE FcntlGranted(p)
  BY <1>2 DEF FcntlGranted, LType, Compatible
<1>3. CASE FcntlError(p)
  BY <1>3 DEF FcntlError
<1>4. CASE Fail(p)
  BY <1>4 DEF Fail, Leave
<1>5. CASE CreateLockFile(p)
  BY <1>5 DEF CreateLockFile
<1>6. CASE OpenFails(p)
  BY <1>6 DEF OpenFails
<1>7. CASE StatFailedAgain(p)
  BY <1>7 DEF StatFailedAgain, Awake
<1>8. CASE StatDone(p)
  BY <1>8 DEF StatDone, Awake
<1>9. CASE RemoveStale(p)
  BY <1>9 DEF RemoveStale
<1>10. CASE UnlinkLockFile(p)
  BY <1>10 DEF UnlinkLockFile
<1>11. CASE FcntlUnlock(p)
  BY <1>11 DEF FcntlUnlock, Leave
<1>12. CASE Reopen(p)
  BY <1>12 DEF Reopen
<1>13. CASE RewriteAndReopen(p)
  BY <1>13 DEF RewriteAndReopen
<1>14. CASE Crash(p)
  BY <1>14 DEF Crash, Leave
<1>15. CASE Restart(p)
  BY <1>15 DEF Restart
<1>16. QED
  BY <1>1, <1>2, <1>3, <1>4, <1>5, <1>6, <1>7, <1>8, <1>9, <1>10, <1>11,
     <1>12, <1>13, <1>14, <1>15
     DEF ProcStep, LoopStep, GlobalTimeout, StatFailedTooOften, RemoveFails

\* FcntlInv is an inductive invariant of the lock.
LEMMA FcntlInvariant == Spec => []FcntlInv
<1>1. Init => FcntlInv
  BY InitType DEF Init, FcntlInv, NoLeakedFcntlLock, HoldsWhatItWants,
                  RecordLocksCompatible, InLoop
<1>2. FcntlInv /\ [Next]_vars => FcntlInv'
  <2> SUFFICES ASSUME FcntlInv, [Next]_vars PROVE FcntlInv'
    OBVIOUS
  <2>1. TypeOK'
    <3>1. CASE UNCHANGED vars
      BY <3>1 DEF vars, TypeOK, FcntlInv
    <3>2. CASE Next
      BY <3>2, ProcType, EnvType DEF Next, FcntlInv
    <3>3. QED
      BY <3>1, <3>2
  <2>2. CASE \E p \in Procs : ProcStep(p)
    BY <2>1, <2>2, ProcFcntl DEF FcntlInv
  <2>3. CASE \/ \E x \in Mtas : MtaLock(x) \/ MtaUnlock(x)
             \/ Tick \/ UNCHANGED vars
    BY <2>1, <2>3 DEF MtaLock, MtaUnlock, Tick, vars, FcntlInv,
       NoLeakedFcntlLock, HoldsWhatItWants, RecordLocksCompatible
  <2>4. QED
    BY <2>2, <2>3 DEF Next
<1>3. QED
  BY <1>1, <1>2, PTL DEF Spec

\* lock_common and unlock_common leak no record lock, whichever way they end.
THEOREM NoLeak == Spec => []NoLeakedFcntlLock
<1>1. FcntlInv => NoLeakedFcntlLock
  BY DEF FcntlInv
<1>2. QED
  BY <1>1, FcntlInvariant, PTL

\* A writer that still has its record lock is alone on its inode among the
\* processes that have theirs, however many lock files were broken as stale.
THEOREM WriterExclusionHolds == Spec => []WriterExclusion
<1>1. FcntlInv => WriterExclusion
  BY DEF FcntlInv, HoldsWhatItWants, RecordLocksCompatible, WriterExclusion,
         Guarded, TypeOK, LockKinds
<1>2. QED
  BY <1>1, FcntlInvariant, PTL

-----------------------------------------------------------------------------
\* The lock file.

\* While nobody died and no lock file got old in use, the lock file exists
\* exactly while its creator works on the mailbox, and it is young, so that
\* no waiter is about to remove it.
DotInv ==
  (~crashed /\ ~overstayed) =>
    /\ \A x \in InCS : dot # None /\ dot.by = x
    /\ dot # None => dot.by \in InCS /\ dot.age < LOCKTO_RM
    /\ \A p \in Procs : pc[p] # "unlink"

\* A step of a process keeps the lock file in step with its owner.
LEMMA ProcDot ==
  ASSUME TypeOK, DotInv, NEW p \in Procs, ProcStep(p)
  PROVE  DotInv'
<1> USE Timeouts, ConstantsAssumption DEF TypeOK, DotInv, InCS, PCs, InLoop
<1>0. Procs \cap Mtas = {} /\ None \notin LockFile
  BY DEF ConstantsAssumption, LockFile
<1>1. ASSUME NEW t \in LockKinds, LockCall(p, t) PROVE DotInv'
  BY <1>1 DEF LockCall
<1>2. CASE FcntlGranted(p)
  BY <1>2 DEF FcntlGranted
<1>3. CASE FcntlError(p)
  BY <1>3 DEF FcntlError
<1>4. CASE Fail(p) /\ pc[p] \in InLoop
  BY <1>4 DEF Fail, Leave
<1>5. CASE CreateLockFile(p)
  BY <1>0, <1>5 DEF CreateLockFile, MayCreate, LockFile
<1>6. CASE OpenFails(p)
  BY <1>6 DEF OpenFails
<1>7. CASE StatFailedAgain(p)
  BY <1>7 DEF StatFailedAgain, Awake
<1>8. CASE StatDone(p)
  BY <1>8 DEF StatDone, Awake, Stale, LockFile
<1>9. CASE RemoveStale(p)
  BY <1>9 DEF RemoveStale
<1>10. CASE UnlinkLockFile(p)
  BY <1>0, <1>10 DEF UnlinkLockFile
<1>11. CASE FcntlUnlock(p)
  BY <1>11 DEF FcntlUnlock, Leave
<1>12. CASE Reopen(p)
  BY <1>12 DEF Reopen
<1>13. CASE RewriteAndReopen(p)
  BY <1>13 DEF RewriteAndReopen
<1>14. CASE Crash(p)
  BY <1>14 DEF Crash
<1>15. CASE Restart(p)
  BY <1>15 DEF Restart
<1>16. QED
  BY <1>1, <1>2, <1>3, <1>4, <1>5, <1>6, <1>7, <1>8, <1>9, <1>10, <1>11,
     <1>12, <1>13, <1>14, <1>15
     DEF ProcStep, LoopStep, GlobalTimeout, StatFailedTooOften, RemoveFails,
         Awake

\* So do the mail transfer agents and the clock.
LEMMA EnvDot ==
  ASSUME TypeOK, DotInv, (\E x \in Mtas : MtaLock(x) \/ MtaUnlock(x)) \/ Tick
  PROVE  DotInv'
<1> USE Timeouts, ConstantsAssumption DEF TypeOK, DotInv, InCS
<1>0. Procs \cap Mtas = {} /\ None \notin LockFile
  BY DEF ConstantsAssumption, LockFile
<1>1. ASSUME NEW x \in Mtas, MtaLock(x) PROVE DotInv'
  BY <1>0, <1>1 DEF MtaLock, LockFile
<1>2. ASSUME NEW x \in Mtas, MtaUnlock(x) PROVE DotInv'
  BY <1>0, <1>2 DEF MtaUnlock
<1>3. CASE Tick
  BY <1>0, <1>3 DEF Tick, Stale, LockFile
<1>4. QED
  BY <1>1, <1>2, <1>3

\* At most one program works on the mailbox, as long as nobody dies with the
\* lock and nobody keeps it for LOCKTO_RM seconds: the lock file alone gives
\* that, for readers and writers, with and without working record locks.
THEOREM SafeLockHolds == Spec => []SafeLock
<1>1. Init => DotInv
  BY DEF Init, DotInv, InCS
<1>2. TypeOK /\ DotInv /\ [Next]_vars => DotInv'
  <2> SUFFICES ASSUME TypeOK, DotInv, [Next]_vars PROVE DotInv'
    OBVIOUS
  <2>1. CASE UNCHANGED vars
    BY <2>1 DEF vars, DotInv, InCS
  <2>2. CASE Next
    BY <2>2, ProcDot, EnvDot DEF Next
  <2>3. QED
    BY <2>1, <2>2
<1>3. DotInv => SafeLock
  BY DEF DotInv, SafeLock
<1>4. QED
  BY <1>1, <1>2, <1>3, TypeCorrect, PTL DEF Spec
=============================================================================
