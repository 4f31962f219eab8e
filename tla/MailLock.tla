------------------------------ MODULE MailLock ------------------------------
(***************************************************************************)
(* The advisory lock of one mailbox file (data-types/maillock.c, the POSIX *)
(* branch): lock_common takes an fcntl() record lock on the caller's file  *)
(* descriptor and then creates the exclusive "<mailbox>.lock" file,        *)
(* breaking a lock file older than LOCKTO_RM seconds and giving up after   *)
(* LOCKTO_GLOB seconds; unlock_common removes the lock file and drops the  *)
(* record lock.                                                            *)
(*                                                                         *)
(* Procs are processes that use this library, each with one descriptor on  *)
(* the mailbox.  Mtas are the other programs of the machine that append to *)
(* the mailbox under the lock file only (external).  The record lock lives *)
(* on an inode: mailmbox_expunge_no_lock gives the path a new inode under  *)
(* the lock, so descriptors on several inodes coexist.                     *)
(*                                                                         *)
(* Time is relative: what the code compares are durations, so the age of   *)
(* the lock file, the time a caller has waited and what is left of its     *)
(* sleep are counters that saturate, and a behaviour may last for ever.    *)
(***************************************************************************)
EXTENDS Naturals

CONSTANTS Procs,        \* processes that lock through maillock.c
          Mtas,         \* programs that respect only the lock file
          Inodes,       \* inode numbers
          LOCKTO_RM,    \* age at which a lock file counts as stale
          LOCKTO_GLOB,  \* longest wait for the lock file
          RETRY,        \* the sleep between two tries
          STATFAILS,    \* failed stat() calls in a row that are tolerated
          None          \* no lock file

ASSUME ConstantsAssumption ==
  /\ Procs \cap Mtas = {}
  /\ None \notin [by : Procs \cup Mtas, age : 0..LOCKTO_RM]
  /\ {LOCKTO_RM, LOCKTO_GLOB, RETRY} \subseteq Nat \ {0}
  /\ STATFAILS \in Nat

VARIABLES path,        \* the inode the mailbox's path names
          fd,          \* the inode each process has open
          fcntl,       \* the record lock each process holds on its inode
          dot,         \* the lock file: its creator and its age
          pc,          \* where each process is in lock_common / unlock_common
          want,        \* the kind of lock asked for: F_RDLCK or F_WRLCK
          waited,      \* seconds since time(&start)
          nap,         \* seconds left of sleep(5)
          statfailed,  \* stat() failures in a row
          mta,         \* the Mtas that hold the lock file
          bare,        \* ghost: works without a record lock of its own
          crashed,     \* ghost: some process has died holding a lock
          overstayed   \* ghost: some lock file reached LOCKTO_RM while in use

vars == <<path, fd, fcntl, dot, pc, want, waited, nap, statfailed, mta,
          bare, crashed, overstayed>>

LockKinds == {"rd", "wr"}
InLoop == {"try", "sleep", "unlink"}
PCs == {"idle", "fcntl", "cs", "unlock", "dead"} \cup InLoop
LockFile == [by : Procs \cup Mtas, age : 0..LOCKTO_RM]

\* Everyone who believes to hold the mailbox.
InCS == {p \in Procs : pc[p] = "cs"} \cup mta

TypeOK ==
  /\ path \in Inodes
  /\ fd \in [Procs -> Inodes]
  /\ fcntl \in [Procs -> LockKinds \cup {"none"}]
  /\ dot \in LockFile \cup {None}
  /\ pc \in [Procs -> PCs]
  /\ want \in [Procs -> LockKinds]
  /\ waited \in [Procs -> 0..(LOCKTO_GLOB + 1)]
  /\ nap \in [Procs -> 0..RETRY]
  /\ statfailed \in [Procs -> 0..(STATFAILS + 1)]
  /\ mta \subseteq Mtas
  /\ bare \in [Procs -> BOOLEAN]
  /\ crashed \in BOOLEAN
  /\ overstayed \in BOOLEAN

Init ==
  /\ path \in Inodes
  /\ fd = [p \in Procs |-> path]
  /\ fcntl = [p \in Procs |-> "none"]
  /\ dot = None
  /\ pc = [p \in Procs |-> "idle"]
  /\ want = [p \in Procs |-> "rd"]
  /\ waited = [p \in Procs |-> 0]
  /\ nap = [p \in Procs |-> 0]
  /\ statfailed = [p \in Procs |-> 0]
  /\ mta = {}
  /\ bare = [p \in Procs |-> FALSE]
  /\ crashed = FALSE
  /\ overstayed = FALSE

-----------------------------------------------------------------------------
\* POSIX record locks, as fcntl(2) specifies them (external): a write lock
\* excludes every other lock on the inode, read locks are shared.

Compatible(p, t) ==
  \A q \in Procs \ {p} :
    (fd[q] = fd[p] /\ fcntl[q] # "none") => (t = "rd" /\ fcntl[q] = "rd")

-----------------------------------------------------------------------------
\* lock_common

\* maillock_read_lock and maillock_write_lock enter lock_common.
LockCall(p, t) ==
  /\ pc[p] = "idle"
  /\ pc' = [pc EXCEPT ![p] = "fcntl"]
  /\ want' = [want EXCEPT ![p] = t]
  /\ UNCHANGED <<path, fd, fcntl, dot, waited, nap, statfailed, mta, bare,
                 crashed, overstayed>>

\* lock.l_type: the kind of record lock the call asks for.
LType_AlwaysShared(p) == "rd"
LType(p) == want[p]

\* F_SETLKW waits until the record lock is granted; time(&start) follows.
FcntlGranted(p) ==
  /\ pc[p] = "fcntl"
  /\ Compatible(p, LType(p))
  /\ fcntl' = [fcntl EXCEPT ![p] = LType(p)]
  /\ bare' = [bare EXCEPT ![p] = FALSE]
  /\ pc' = [pc EXCEPT ![p] = "try"]
  /\ UNCHANGED <<path, fd, dot, want, waited, nap, statfailed, mta, crashed,
                 overstayed>>

\* "WARNING POSIX lock could not be applied" (no lock manager, EDEADLK):
\* the error is ignored.
FcntlError(p) ==
  /\ pc[p] = "fcntl"
  /\ bare' = [bare EXCEPT ![p] = TRUE]
  /\ pc' = [pc EXCEPT ![p] = "try"]
  /\ UNCHANGED <<path, fd, fcntl, dot, want, waited, nap, statfailed, mta,
                 crashed, overstayed>>

\* The locals and the arguments of a call are gone when it returns, and the
\* record lock is dropped (F_UNLCK, or the end of the process).
Leave(p, to) ==
  /\ fcntl' = [fcntl EXCEPT ![p] = "none"]
  /\ pc' = [pc EXCEPT ![p] = to]
  /\ want' = [want EXCEPT ![p] = "rd"]
  /\ waited' = [waited EXCEPT ![p] = 0]
  /\ nap' = [nap EXCEPT ![p] = 0]
  /\ statfailed' = [statfailed EXCEPT ![p] = 0]
  /\ bare' = [bare EXCEPT ![p] = FALSE]

\* The error exit of lock_common: F_UNLCK, and the call returns -1.
Fail_KeepsFcntl(p) ==
  /\ pc' = [pc EXCEPT ![p] = "idle"]
  /\ UNCHANGED <<path, fd, fcntl, dot, want, waited, nap, statfailed, mta,
                 bare, crashed, overstayed>>

Fail(p) ==
  /\ Leave(p, "idle")
  /\ UNCHANGED <<path, fd, dot, mta, crashed, overstayed>>

\* The global timeout is tested before every try.
TimedOut_Never(p) == FALSE
TimedOut(p) == waited[p] > LOCKTO_GLOB

GlobalTimeout(p) ==
  /\ pc[p] = "try" /\ TimedOut(p)
  /\ Fail(p)

\* open(O_EXCL | O_CREAT) succeeds only when there is no lock file.
MayCreate_NoExcl == TRUE
MayCreate == dot = None

CreateLockFile(p) ==
  /\ pc[p] = "try" /\ ~TimedOut(p)
  /\ MayCreate
  /\ dot' = [by |-> p, age |-> 0]
  /\ pc' = [pc EXCEPT ![p] = "cs"]
  /\ waited' = [waited EXCEPT ![p] = 0]
  /\ statfailed' = [statfailed EXCEPT ![p] = 0]
  /\ UNCHANGED <<path, fd, fcntl, want, nap, mta, bare, crashed, overstayed>>

\* open() fails, because of somebody's lock file or for another reason (no
\* permission, no space): sleep.
OpenFails(p) ==
  /\ pc[p] = "try" /\ ~TimedOut(p)
  /\ pc' = [pc EXCEPT ![p] = "sleep"]
  /\ nap' = [nap EXCEPT ![p] = RETRY]
  /\ UNCHANGED <<path, fd, fcntl, dot, want, waited, statfailed, mta, bare,
                 crashed, overstayed>>

Awake(p) == pc[p] = "sleep" /\ nap[p] = 0

\* The lock file vanished before stat(): try again, but not for ever.
TolerateStat_Always(p) == TRUE
TolerateStat(p) == statfailed[p] <= STATFAILS

StatFailedAgain(p) ==
  /\ Awake(p) /\ dot = None
  /\ TolerateStat(p)
  /\ statfailed' = [statfailed EXCEPT ![p] = @ + 1]
  /\ pc' = [pc EXCEPT ![p] = "try"]
  /\ UNCHANGED <<path, fd, fcntl, dot, want, waited, nap, mta, bare,
                 crashed, overstayed>>

StatFailedTooOften(p) ==
  /\ Awake(p) /\ dot = None
  /\ ~TolerateStat(p)
  /\ Fail(p)

Stale(f) == f.age >= LOCKTO_RM

\* A lock file that is young enough is respected; a stale one is going to
\* be removed by the next step, whatever lock file is there by then.
StatDone(p) ==
  /\ Awake(p) /\ dot # None
  /\ statfailed' = [statfailed EXCEPT ![p] = 0]
  /\ pc' = [pc EXCEPT ![p] = IF Stale(dot) THEN "unlink" ELSE "try"]
  /\ UNCHANGED <<path, fd, fcntl, dot, want, waited, nap, mta, bare,
                 crashed, overstayed>>

RemoveStale(p) ==
  /\ pc[p] = "unlink" /\ dot # None
  /\ dot' = None
  /\ pc' = [pc EXCEPT ![p] = "try"]
  /\ UNCHANGED <<path, fd, fcntl, want, waited, nap, statfailed, mta, bare,
                 crashed, overstayed>>

\* unlink() fails: somebody was faster, or the directory does not allow it.
RemoveFails(p) ==
  /\ pc[p] = "unlink"
  /\ Fail(p)

-----------------------------------------------------------------------------
\* unlock_common: unlink() without a look at whose lock file it is ...
UnlinkLockFile(p) ==
  /\ pc[p] = "cs"
  /\ dot' = None
  /\ pc' = [pc EXCEPT ![p] = "unlock"]
  /\ UNCHANGED <<path, fd, fcntl, want, waited, nap, statfailed, mta, bare,
                 crashed, overstayed>>

\* ... and then F_UNLCK.
FcntlUnlock(p) ==
  /\ pc[p] = "unlock"
  /\ Leave(p, "idle")
  /\ UNCHANGED <<path, fd, dot, mta, crashed, overstayed>>

-----------------------------------------------------------------------------
\* What the callers in mailmbox.c do with the descriptor.

\* mailmbox_validate_lock closes and reopens the mailbox before it locks.
Reopen(p) ==
  /\ pc[p] = "idle" /\ fd[p] # path
  /\ fd' = [fd EXCEPT ![p] = path]
  /\ UNCHANGED <<path, fcntl, dot, pc, want, waited, nap, statfailed, mta,
                 bare, crashed, overstayed>>

\* mailmbox_expunge_no_lock renames a new file over the mailbox, or copies it
\* into the old one, closes the old descriptor, which drops the record lock,
\* and opens the path: from here to unlock the process holds the lock file
\* only.
RewriteAndReopen(p) ==
  /\ pc[p] = "cs" /\ want[p] = "wr"
  /\ \E i \in Inodes :
       /\ i = path \/ \A q \in Procs : fd[q] # i
       /\ path' = i
       /\ fd' = [fd EXCEPT ![p] = i]
  /\ fcntl' = [fcntl EXCEPT ![p] = "none"]
  /\ bare' = [bare EXCEPT ![p] = TRUE]
  /\ UNCHANGED <<dot, pc, want, waited, nap, statfailed, mta, crashed,
                 overstayed>>

-----------------------------------------------------------------------------
\* The environment (external).

\* A process dies: the kernel drops its record lock, its lock file stays.
Crash(p) ==
  /\ pc[p] \notin {"idle", "dead"}
  /\ Leave(p, "dead")
  /\ crashed' = TRUE
  /\ UNCHANGED <<path, fd, dot, mta, overstayed>>

Restart(p) ==
  /\ pc[p] = "dead"
  /\ pc' = [pc EXCEPT ![p] = "idle"]
  /\ fd' = [fd EXCEPT ![p] = path]
  /\ UNCHANGED <<path, fcntl, dot, want, waited, nap, statfailed, mta, bare,
                 crashed, overstayed>>

MtaLock(x) ==
  /\ x \notin mta /\ dot = None
  /\ dot' = [by |-> x, age |-> 0]
  /\ mta' = mta \cup {x}
  /\ UNCHANGED <<path, fd, fcntl, pc, want, waited, nap, statfailed, bare,
                 crashed, overstayed>>

MtaUnlock(x) ==
  /\ x \in mta
  /\ dot' = None
  /\ mta' = mta \ {x}
  /\ UNCHANGED <<path, fd, fcntl, pc, want, waited, nap, statfailed, bare,
                 crashed, overstayed>>

\* One second passes.
Tick ==
  /\ dot' = IF dot # None /\ ~Stale(dot) THEN [dot EXCEPT !.age = @ + 1]
                                         ELSE dot
  /\ waited' = [p \in Procs |-> IF pc[p] \in InLoop /\ waited[p] <= LOCKTO_GLOB
                                THEN waited[p] + 1 ELSE waited[p]]
  /\ nap' = [p \in Procs |-> IF nap[p] > 0 THEN nap[p] - 1 ELSE 0]
  /\ overstayed' = \/ overstayed
                   \/ dot # None /\ dot.age + 1 >= LOCKTO_RM /\ dot.by \in InCS
  /\ UNCHANGED <<path, fd, fcntl, pc, want, statfailed, mta, bare, crashed>>

-----------------------------------------------------------------------------
LoopStep(p) ==
  \/ GlobalTimeout(p) \/ CreateLockFile(p) \/ OpenFails(p)
  \/ StatFailedAgain(p) \/ StatFailedTooOften(p) \/ StatDone(p)
  \/ RemoveStale(p) \/ RemoveFails(p)

ProcStep(p) ==
  \/ \E t \in LockKinds : LockCall(p, t)
  \/ FcntlGranted(p) \/ FcntlError(p)
  \/ LoopStep(p)
  \/ UnlinkLockFile(p) \/ FcntlUnlock(p)
  \/ Reopen(p) \/ RewriteAndReopen(p)
  \/ Crash(p) \/ Restart(p)

Next ==
  \/ \E p \in Procs : ProcStep(p)
  \/ \E x \in Mtas : MtaLock(x) \/ MtaUnlock(x)
  \/ Tick

\* Time passes and a process that is not blocked runs; nothing is promised
\* about the time a lock is kept, nor about who gets a record lock first.
Fairness == WF_vars(Tick) /\ \A p \in Procs : WF_vars(LoopStep(p))

Spec == Init /\ [][Next]_vars /\ Fairness

-----------------------------------------------------------------------------
\* As long as nobody died holding a lock and no lock file was kept for
\* LOCKTO_RM seconds, at most one program works on the mailbox: libEtPan!
\* readers and writers and the programs that use only the lock file exclude
\* each other, on whatever inode they work and whether fcntl() works or not.
SafeLock ==
  (~crashed /\ ~overstayed) => \A x, y \in InCS : x = y

\* Even when lock files are broken as stale, under crashes and overstays, a
\* writer is alone on its inode among the libEtPan! processes that got the
\* record lock and have not dropped it with a rename.
Guarded(p) == pc[p] = "cs" /\ ~bare[p]

WriterExclusion ==
  \A p, q \in Procs :
    (p # q /\ Guarded(p) /\ Guarded(q) /\ want[p] = "wr") => fd[p] # fd[q]

\* A call that failed, timed out or has been undone leaves no record lock
\* behind: every other process would wait for it in F_SETLKW for ever.
NoLeakedFcntlLock ==
  \A p \in Procs : pc[p] \in {"idle", "fcntl", "dead"} => fcntl[p] = "none"

\* Once the record lock is settled lock_common returns, with the lock or
\* with an error, however long the lock file stays in the way.
LockReturns ==
  \A p \in Procs : (pc[p] \in InLoop) ~> (pc[p] \notin InLoop)

=============================================================================
