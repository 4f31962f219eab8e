-------------------------------- MODULE Mbox --------------------------------
(***************************************************************************)
(* One mbox file shared by processes that each have it open through a      *)
(* struct mailmbox_folder (low-level/mbox/mailmbox.c) and by a mail        *)
(* transfer agent that delivers into it.                                   *)
(*                                                                         *)
(* An operation is split where another program can get in: the stat() of   *)
(* mailmbox_validate_lock, the reopening, the wait for the lock, and, with *)
(* the lock held, every step that changes the file, because the other      *)
(* processes look at the file before they ask for the lock and because a   *)
(* process may die.  The lock is the exclusive lock file of MailLock,      *)
(* reduced to its holder: readers take it exclusively as well.  The record *)
(* lock is left out: it keeps nobody out that has another inode open, and  *)
(* no delivery agent.                                                      *)
(*                                                                         *)
(* Folders are writable here, and a client has one folder per process.     *)
(***************************************************************************)
EXTENDS MboxFormat

CONSTANTS Procs,        \* processes with a folder on the mailbox
          NoUid,        \* the ones that pass force_no_uid
          Inodes,       \* inode numbers
          DeliverUids,  \* X-LibEtPan-UID values a delivered mail may carry
          MaxTime,      \* bound of the clock, in seconds
          MaxCrashes,   \* bound on the number of crashes
          MaxCalls,     \* bound on the number of operations started
          Agent,        \* the mail transfer agent
          None          \* nobody holds the lock

ASSUME MboxAssumption ==
  /\ NoUid \subseteq Procs
  /\ {None, Agent} \cap Procs = {} /\ None # Agent
  /\ DeliverUids \subseteq Uids
  /\ {MaxTime, MaxCrashes, MaxCalls} \subseteq Nat
  /\ Inodes \subseteq Nat \ {0} /\ 1 \in Inodes
  /\ IsFiniteSet(Inodes) /\ IsFiniteSet(Procs)
  /\ Cardinality(Inodes) > Cardinality(Procs) + 1

VARIABLES now,      \* the clock that st_mtime is read from
          path,     \* the inode the mailbox's path names
          data,     \* the content of each inode
          mtime,    \* st_mtime of each inode
          lock,     \* who holds the lock file
          mb,       \* each process's struct mailmbox_folder
          pc,       \* where each process is in its operation
          call,     \* the operation, its argument and its locals
          crashes,  \* how often a process died
          calls,    \* how many operations were started
          unsent,   \* the messages nobody appended or delivered so far
          kept,     \* ghost: accepted messages that nobody asked to delete
          marked,   \* ghost: what each process asked its folder to delete
          unsafe    \* ghost: what the lock cannot protect has happened: a
                    \* writer got it with an outdated view, a live holder's
                    \* lock file was removed, a copy stopped half-way

disk == <<path, data, mtime>>
ghosts == <<unsent, kept, marked, unsafe>>
vars == <<now, path, data, mtime, lock, mb, pc, call, crashes, calls,
          unsent, kept, marked, unsafe>>

-----------------------------------------------------------------------------
\* struct mailmbox_folder

NoFd == 0

\* mailmbox_folder_new, with default_written_uid 0 as the driver passes it.
FolderNew ==
  [mb_fd |-> NoFd, mb_mapping_size |-> 0, mb_mtime |-> MaxTime + 1,
   mb_tab |-> <<>>, mb_written_uid |-> 0, mb_max_uid |-> 0,
   mb_changed |-> FALSE, mb_deleted_count |-> 0]

NoCall == [op |-> "none", msg |-> None, uid |-> 0, mtime |-> 0,
           changed |-> FALSE, size |-> 0, ok |-> TRUE]

\* What a process sees through its mapping: the inode it has open, over the
\* length the mapping has.
Mapping(p) ==
  IF mb[p].mb_fd = NoFd THEN <<>>
  ELSE Resize(data[mb[p].mb_fd], mb[p].mb_mapping_size)

\* A view is current when descriptor, length and message table are those of
\* the file that the path names.
Current(fol) ==
  /\ fol.mb_fd = path
  /\ fol.mb_mapping_size = Len(data[path])
  /\ LET starts == Starts(data[path], 1) IN
     /\ DOMAIN fol.mb_tab = DOMAIN starts
     /\ \A i \in DOMAIN starts :
          LET e == fol.mb_tab[i]
              g == MsgInfo(data[path], starts[i], e.uid)
          IN  /\ e.start = g.start /\ e.body = g.body /\ e.next = g.next
              /\ e.texts = g.texts
              /\ e.written => e.uid = UidField(data[path], starts[i])

\* mailmbox_map and mailmbox_parse, for the file with the given content and
\* a mapping of the given length.
MapAndParse_OldMax(fol, bytes, size) ==
  LET r == Parse(Resize(bytes, size), fol.mb_written_uid) IN
  [fol EXCEPT !.mb_mapping_size = size, !.mb_tab = r.tab,
              !.mb_written_uid = r.written_uid]

MapAndParse(fol, bytes, size) ==
  LET r == Parse(Resize(bytes, size), fol.mb_written_uid) IN
  [fol EXCEPT !.mb_mapping_size = size, !.mb_tab = r.tab,
              !.mb_written_uid = r.written_uid, !.mb_max_uid = r.max_uid]

\* mmap() refuses a length of zero.
CanMap == data[path] # <<>>

Go(p, l) == pc' = [pc EXCEPT ![p] = l]

-----------------------------------------------------------------------------
Init ==
  /\ now = 0
  /\ path = 1
  /\ \E m \in Msgs, u \in {0} \cup DeliverUids :
       /\ data = [i \in Inodes |->
                    IF i = 1 THEN <<From>> \o (IF u = 0 THEN <<>> ELSE <<Uid(u)>>)
                                    \o <<Body(m)>>
                             ELSE <<>>]
       /\ m \notin Unterminated
       /\ unsent = Msgs \ {m}
       /\ kept = {m}
  /\ mtime = [i \in Inodes |-> 0]
  /\ lock = None
  /\ mb = [p \in Procs |-> FolderNew]
  /\ pc = [p \in Procs \cup {Agent} |-> "closed"]
  /\ call = [p \in Procs |-> NoCall]
  /\ crashes = 0
  /\ calls = 0
  /\ marked = [p \in Procs |-> {}]
  /\ unsafe = FALSE

-----------------------------------------------------------------------------
\* The operations' entry: mailmbox_validate_lock looks at the file before it
\* asks for the lock.

FileChanged(p) ==
  \/ mtime[path] # mb[p].mb_mtime
  \/ Len(data[path]) # mb[p].mb_mapping_size

Enter(p, c) ==
  /\ calls < MaxCalls
  /\ calls' = calls + 1
  /\ call' = [call EXCEPT ![p] = [c EXCEPT !.mtime = mtime[path],
                                           !.changed = FileChanged(p)]]
  /\ Go(p, IF FileChanged(p) THEN "reopen" ELSE "lock")

\* mailmbox_init: the open() and the mapping that come before the validation
\* leave nothing but their failure on an empty file.
InitCall(p) ==
  /\ pc[p] = "closed" /\ CanMap
  /\ Enter(p, [NoCall EXCEPT !.op = "init"])
  /\ UNCHANGED <<now, disk, lock, mb, crashes, ghosts>>

\* mailmbox_append_message_uid
AppendCall(p, m) ==
  /\ pc[p] = "idle" /\ m \in unsent
  /\ Enter(p, [NoCall EXCEPT !.op = "append", !.msg = m])
  /\ unsent' = unsent \ {m}
  /\ UNCHANGED <<now, disk, lock, mb, crashes, kept, marked, unsafe>>

\* mailmbox_expunge; mailmbox_fetch_msg and the other readers ("read");
\* mailmbox_done, which expunges first.
OtherCall(p, op) ==
  /\ pc[p] = "idle"
  /\ Enter(p, [NoCall EXCEPT !.op = op])
  /\ UNCHANGED <<now, disk, lock, mb, crashes, ghosts>>

MarkDeleted(fol, i) ==
  [fol EXCEPT !.mb_tab[i].deleted = TRUE, !.mb_changed = TRUE,
              !.mb_deleted_count = @ + 1]

\* mailmbox_delete_msg changes the table only, without a look at the file.
DeleteMsg(p, u) ==
  /\ pc[p] = "idle"
  /\ \E i \in DOMAIN mb[p].mb_tab :
       LET e == mb[p].mb_tab[i] IN
       /\ e.uid = u /\ ~e.deleted
       /\ mb' = [mb EXCEPT ![p] = MarkDeleted(@, i)]
       /\ kept' = kept \ e.texts
       /\ marked' = [marked EXCEPT ![p] = @ \cup e.texts]
  /\ UNCHANGED <<now, disk, lock, pc, call, crashes, calls, unsent, unsafe>>

\* The file looked changed: unmap, close, open.
Reopen(p) ==
  /\ pc[p] = "reopen"
  /\ mb' = [mb EXCEPT ![p].mb_fd = path, ![p].mb_mapping_size = 0]
  /\ Go(p, "lock")
  /\ UNCHANGED <<now, disk, lock, call, crashes, calls, ghosts>>

\* With the lock, the file is mapped and parsed if it had looked changed.  The
\* bytes are those of the open file, the length is that of the path's file,
\* and mb_mtime is the time stat() gave before the lock.
Revalidated(p) ==
  IF call[p].changed
  THEN [MapAndParse(mb[p], data[mb[p].mb_fd], Len(data[path]))
          EXCEPT !.mb_mtime = call[p].mtime]
  ELSE mb[p]

\* The operations that take the lock with mailmbox_write_lock.
Writes(p) == call[p].op \in {"append", "expunge", "done"}

\* mailmbox_expunge_no_lock has work to do; afterwards an append goes on.
NeedsExpunge(p, fol) ==
  \/ fol.mb_changed
  \/ fol.mb_written_uid < fol.mb_max_uid /\ p \notin NoUid

AfterExpunge(p) == IF call[p].op = "append" THEN "append" ELSE "unlock"

Lock(p) ==
  /\ pc[p] = "lock" /\ lock = None
  /\ lock' = p
  /\ IF call[p].changed /\ ~CanMap
     THEN /\ Go(p, "unlock")
          /\ call' = [call EXCEPT ![p].ok = FALSE]
          /\ UNCHANGED <<mb, unsafe>>
     ELSE /\ mb' = [mb EXCEPT ![p] = Revalidated(p)]
          /\ unsafe' = (unsafe \/ (Writes(p) /\ ~Current(Revalidated(p))))
          /\ Go(p, CASE ~Writes(p) -> "unlock"
                     [] Writes(p) /\ NeedsExpunge(p, Revalidated(p)) -> "expunge"
                     [] OTHER -> AfterExpunge(p))
          /\ call' = [call EXCEPT ![p].mtime = 0, ![p].changed = FALSE]
  /\ UNCHANGED <<now, disk, crashes, calls, unsent, kept, marked>>

\* Where a finished operation leaves the process: mailmbox_init frees the
\* folder when it fails, mailmbox_done always does.
Finish(p, ok) ==
  LET gone == call[p].op = "done" \/ (call[p].op = "init" /\ ~ok) IN
  /\ Go(p, IF gone THEN "closed" ELSE "idle")
  /\ call' = [call EXCEPT ![p] = NoCall]
  /\ mb' = [mb EXCEPT ![p] = IF gone THEN FolderNew ELSE @]
  /\ marked' = [marked EXCEPT ![p] = IF gone THEN {} ELSE @]

\* lock_common gave up, after LOCKTO_GLOB or because unlink() failed: the
\* folder stays without a mapping when it had been closed for reopening.
LockTimeout(p) ==
  /\ pc[p] \in {"lock", "stale"}
  /\ pc[p] = "lock" => lock # None
  /\ Finish(p, FALSE)
  /\ UNCHANGED <<now, disk, lock, crashes, calls, unsent, kept, unsafe>>

\* stat() finds the lock file older than LOCKTO_RM: its holder died, or it is
\* alive and slow.
StatLock(p) ==
  /\ pc[p] = "lock" /\ lock # None
  /\ Go(p, "stale")
  /\ UNCHANGED <<now, disk, lock, mb, call, crashes, calls, ghosts>>

\* unlink() removes the lock file that is there by now, whosever it is, and
\* the waiter tries again to make its own.
BreakStaleLock(p) ==
  /\ pc[p] = "stale" /\ lock # None
  /\ lock' = None
  /\ unsafe' = (unsafe \/ pc[lock] # "dead")
  /\ Go(p, "lock")
  /\ UNCHANGED <<now, disk, mb, call, crashes, calls, unsent, kept, marked>>

-----------------------------------------------------------------------------
\* mailmbox_expunge_no_lock

NewContent(p) == ExpungeTo(Mapping(p), mb[p].mb_tab, p \in NoUid)

\* The temporary file cannot be made, extended or mapped; an empty one never
\* can be mapped, so an expunge that leaves no message always fails.
ExpungeFails(p) ==
  /\ pc[p] = "expunge"
  /\ call' = [call EXCEPT ![p].ok = FALSE]
  /\ Go(p, "unlock")
  /\ UNCHANGED <<now, disk, lock, mb, crashes, calls, ghosts>>

\* rename() gives the path a new inode; when it fails copy_to_old_file writes
\* the file in place.
ReplaceFile(p, i) ==
  /\ path' = i
  /\ data' = [data EXCEPT ![i] = NewContent(p)]
  /\ mtime' = [mtime EXCEPT ![i] = now]

FreeInode == Min(Inodes \ ({path} \cup {mb[q].mb_fd : q \in Procs}))

\* Then unmap, close, open, map, parse, take the time stamp, forget the
\* changes: nobody else touches the file meanwhile.
Reopened_SameFd(fol, i, bytes) ==
  [MapAndParse(fol, bytes, Len(bytes)) EXCEPT
     !.mb_mtime = now, !.mb_changed = FALSE, !.mb_deleted_count = 0]

Reopened(fol, i, bytes) ==
  [MapAndParse(fol, bytes, Len(bytes)) EXCEPT
     !.mb_fd = i, !.mb_mtime = now, !.mb_changed = FALSE,
     !.mb_deleted_count = 0]

Expunge(p) ==
  /\ pc[p] = "expunge" /\ NewContent(p) # <<>>
  /\ \/ ReplaceFile(p, FreeInode)
     \/ ReplaceFile(p, path)
  /\ mb' = [mb EXCEPT ![p] = Reopened(@, path', NewContent(p))]
  /\ Go(p, AfterExpunge(p))
  /\ UNCHANGED <<now, lock, call, crashes, calls, ghosts>>

\* The file is replaced and cannot be opened or mapped again: the folder is
\* left without a mapping, its table and mb_changed as they were.
ReopenFails(p) ==
  /\ pc[p] = "expunge" /\ NewContent(p) # <<>>
  /\ \/ ReplaceFile(p, FreeInode)
     \/ ReplaceFile(p, path)
  /\ \E fd \in {NoFd, path'} :
       mb' = [mb EXCEPT ![p].mb_fd = fd, ![p].mb_mapping_size = 0]
  /\ call' = [call EXCEPT ![p].ok = FALSE]
  /\ Go(p, "unlock")
  /\ UNCHANGED <<now, lock, crashes, calls, ghosts>>

\* rename() fails, the folder is closed and copy_to_old_file fails too: before
\* its ftruncate() of the mailbox, or after it, when the mailbox has the new
\* length and the old bytes.  Who dies between ftruncate() and memcpy() leaves
\* the same file.
CopyFails(p) ==
  /\ pc[p] = "expunge" /\ NewContent(p) # <<>>
  /\ \/ UNCHANGED <<data, mtime, unsafe>>
     \/ /\ data' = [data EXCEPT ![path] = Resize(@, Len(NewContent(p)))]
        /\ mtime' = [mtime EXCEPT ![path] = now]
        /\ unsafe' = TRUE
  /\ mb' = [mb EXCEPT ![p].mb_fd = NoFd, ![p].mb_mapping_size = 0]
  /\ call' = [call EXCEPT ![p].ok = FALSE]
  /\ Go(p, "unlock")
  /\ UNCHANGED <<now, path, lock, crashes, calls, unsent, kept, marked>>

-----------------------------------------------------------------------------
\* mailmbox_append_message_list_no_lock and the rest of
\* mailmbox_append_message_list

\* The number the new message gets.
AppendUid_Last(fol) == fol.mb_max_uid
AppendUid(fol) == NextUid(fol.mb_max_uid)

Appended(p) ==
  NewCells(Mapping(p), call[p].msg, AppendUid(mb[p]), p \in NoUid)

\* ftruncate() to the size of the mapping plus the new cells, on the open file.
Truncate(p) ==
  /\ pc[p] = "append"
  /\ data' = [data EXCEPT ![mb[p].mb_fd] =
                Resize(@, mb[p].mb_mapping_size + Len(Appended(p)))]
  /\ mtime' = [mtime EXCEPT ![mb[p].mb_fd] = now]
  /\ call' = [call EXCEPT ![p].size = mb[p].mb_mapping_size,
                          ![p].uid = AppendUid(mb[p])]
  /\ Go(p, "write")
  /\ UNCHANGED <<now, path, lock, mb, crashes, calls, ghosts>>

\* No space: the file is mapped again and the operation fails.
TruncateFails(p) ==
  /\ pc[p] = "append"
  /\ mb' = [mb EXCEPT ![p].mb_mapping_size = Len(data[path])]
  /\ call' = [call EXCEPT ![p].ok = FALSE]
  /\ Go(p, "unlock")
  /\ UNCHANGED <<now, disk, lock, crashes, calls, ghosts>>

\* The new mapping has the length of the path's file.  The cells are written,
\* msync(), mailmbox_parse_additionnal and mailmbox_timestamp follow.
WriteAndParse(p) ==
  /\ pc[p] = "write" /\ CanMap
  /\ LET fd == mb[p].mb_fd
         c == call[p].size
         old == Resize(data[fd], c)
         new == NewCells(old, call[p].msg, call[p].uid, p \in NoUid)
         full == Overwrite(data[fd], c, new)
         disk2 == [data EXCEPT ![fd] = full]
         size == Len(disk2[path])
         r == ParseAdditionnal(Resize(full, size), mb[p].mb_tab,
                               mb[p].mb_written_uid, c + 1)
     IN  /\ data' = disk2
         /\ mtime' = [mtime EXCEPT ![fd] = now]
         /\ mb' = [mb EXCEPT ![p].mb_mapping_size = size,
                             ![p].mb_tab = r.tab,
                             ![p].mb_written_uid = r.written_uid,
                             ![p].mb_max_uid = r.max_uid,
                             ![p].mb_mtime = mtime'[path]]
  /\ Go(p, "unlock")
  /\ UNCHANGED <<now, path, lock, call, crashes, calls, ghosts>>

\* unlock_common, and the operation returns.  The lock file that is there is
\* removed, whosever it is.
Unlock(p) ==
  /\ pc[p] = "unlock"
  /\ lock' = None
  /\ Finish(p, call[p].ok)
  /\ kept' = IF call[p].op = "append" /\ call[p].ok
             THEN kept \cup {call[p].msg} ELSE kept
  /\ UNCHANGED <<now, disk, crashes, calls, unsent, unsafe>>

-----------------------------------------------------------------------------
\* The environment (external).

\* A mail transfer agent makes the lock file, appends and removes it.
AgentLocks ==
  /\ pc[Agent] = "closed" /\ lock = None /\ unsent # {}
  /\ lock' = Agent
  /\ Go(Agent, "deliver")
  /\ UNCHANGED <<now, disk, mb, call, crashes, calls, ghosts>>

Deliver(m, u) ==
  /\ pc[Agent] = "deliver" /\ m \in unsent /\ m \notin Unterminated
  /\ data' = [data EXCEPT ![path] =
                @ \o <<From>> \o (IF u = 0 THEN <<>> ELSE <<Uid(u)>>)
                  \o <<Body(m)>>]
  /\ mtime' = [mtime EXCEPT ![path] = now]
  /\ unsent' = unsent \ {m}
  /\ kept' = kept \cup {m}
  /\ UNCHANGED <<now, path, lock, mb, pc, call, crashes, calls, marked, unsafe>>

AgentUnlocks ==
  /\ pc[Agent] = "deliver"
  /\ lock' = None
  /\ Go(Agent, "closed")
  /\ UNCHANGED <<now, disk, mb, call, crashes, calls, ghosts>>

\* A process dies: its lock file stays.
Crash(p) ==
  /\ pc[p] \notin {"closed", "dead"} /\ crashes < MaxCrashes
  /\ crashes' = crashes + 1
  /\ Go(p, "dead")
  /\ mb' = [mb EXCEPT ![p] = FolderNew]
  /\ call' = [call EXCEPT ![p] = NoCall]
  /\ marked' = [marked EXCEPT ![p] = {}]
  /\ UNCHANGED <<now, disk, lock, calls, unsent, kept, unsafe>>

\* It is started again once its lock file is out of the way.
Restart(p) ==
  /\ pc[p] = "dead" /\ lock # p
  /\ Go(p, "closed")
  /\ UNCHANGED <<now, disk, lock, mb, call, crashes, calls, ghosts>>

Tick ==
  /\ now < MaxTime
  /\ now' = now + 1
  /\ UNCHANGED <<disk, lock, mb, pc, call, crashes, calls, ghosts>>

-----------------------------------------------------------------------------
ProcStep(p) ==
  \/ InitCall(p)
  \/ \E m \in Msgs : AppendCall(p, m)
  \/ \E op \in {"read", "expunge", "done"} : OtherCall(p, op)
  \/ \E u \in Uids : DeleteMsg(p, u)
  \/ Reopen(p) \/ Lock(p) \/ LockTimeout(p) \/ StatLock(p) \/ BreakStaleLock(p)
  \/ ExpungeFails(p) \/ Expunge(p) \/ ReopenFails(p) \/ CopyFails(p)
  \/ Truncate(p) \/ TruncateFails(p) \/ WriteAndParse(p)
  \/ Unlock(p)
  \/ Crash(p) \/ Restart(p)

Next ==
  \/ \E p \in Procs : ProcStep(p)
  \/ AgentLocks \/ AgentUnlocks
  \/ \E m \in Msgs, u \in DeliverUids : Deliver(m, u)
  \/ Tick

Spec == Init /\ [][Next]_vars

-----------------------------------------------------------------------------
Entries ==
  [start : Nat, body : Nat, next : Nat, uid : Uids, written : BOOLEAN,
   deleted : BOOLEAN, texts : SUBSET Msgs]

Folders ==
  [mb_fd : Inodes \cup {NoFd}, mb_mapping_size : Nat,
   mb_mtime : 0..(MaxTime + 1), mb_tab : Seq(Entries),
   mb_written_uid : Uids, mb_max_uid : Uids, mb_changed : BOOLEAN,
   mb_deleted_count : Nat]

Ops == {"none", "init", "append", "read", "expunge", "done"}
Labels == {"closed", "idle", "reopen", "lock", "stale", "expunge", "append",
           "write", "unlock", "dead", "deliver"}
Calls ==
  [op : Ops, msg : Msgs \cup {None}, uid : Uids, mtime : 0..MaxTime,
   changed : BOOLEAN, size : Nat, ok : BOOLEAN]

\* The type of every variable: folders, calls and files as declared above.
TypeOK ==
  /\ now \in 0..MaxTime
  /\ path \in Inodes
  /\ data \in [Inodes -> Seq(Cells)]
  /\ mtime \in [Inodes -> 0..MaxTime]
  /\ lock \in Procs \cup {Agent, None}
  /\ mb \in [Procs -> Folders]
  /\ pc \in [Procs \cup {Agent} -> Labels]
  /\ call \in [Procs -> Calls]
  /\ crashes \in 0..MaxCrashes
  /\ calls \in 0..MaxCalls
  /\ unsent \subseteq Msgs
  /\ kept \subseteq Msgs
  /\ marked \in [Procs -> SUBSET Msgs]
  /\ unsafe \in BOOLEAN

\* The numbers in a folder's table are distinct, not zero, and below the
\* counter the next number is taken from, whatever the file holds (numbers
\* that other processes gave, entries cut off by a crash) and in whatever
\* order the table was rebuilt.
NumbersDistinct ==
  /\ TypeOK
  /\ \A p \in Procs :
       LET tab == mb[p].mb_tab IN
       /\ \A i \in DOMAIN tab : tab[i].uid \in 1..mb[p].mb_max_uid
       /\ \A i, j \in DOMAIN tab : tab[i].uid = tab[j].uid => i = j

Lost == kept \ Texts(data[path])

\* No accepted message disappears from the file unless somebody asked for its
\* deletion, through every interleaving of appends, expunges, deliveries and
\* deaths, every rename, failed rename and failed reopening, and every removal
\* of a dead process's lock file - as long as none of three things happened:
\* a writer's view was out of date when it got the lock; a waiter removed the
\* lock file of a live holder, which stat() and unlink() allow (the file is
\* old and the holder slow, or it was made since the stat()); and
\* copy_to_old_file failed between ftruncate() and memcpy().
NoMessageLost == (lock = None /\ ~unsafe) => Lost = {}

\* The same without the proviso: what the documentation's "safe lock" means.
NoMessageEverLost == lock = None => Lost = {}

NumberedStarts(f) == {i \in ToSet(Starts(f, 1)) : UidField(f, i) # 0}

\* The numbers written in the file by this library are unique there.
FileNumbersUnique ==
  (lock = None /\ ~unsafe) =>
    \A i, j \in NumberedStarts(data[path]) :
      UidField(data[path], i) = UidField(data[path], j) => i = j

\* The number an append returns names the appended message and no other: the
\* folder's table has an entry with that number that covers the message's text
\* and nobody else's, whether or not the file ended with a blank line, or with
\* a complete line, before the append.
AppendReturnsName ==
  \A p \in Procs :
    (pc[p] = "unlock" /\ call[p].op = "append" /\ call[p].ok /\ ~unsafe) =>
      \E i \in DOMAIN mb[p].mb_tab :
        /\ mb[p].mb_tab[i].uid = call[p].uid
        /\ mb[p].mb_tab[i].texts = {call[p].msg}

\* More: a fetch by that number yields the text alone.
AppendReturnsText ==
  \A p \in Procs :
    (pc[p] = "unlock" /\ call[p].op = "append" /\ call[p].ok /\ ~unsafe) =>
      \E i \in DOMAIN mb[p].mb_tab :
        /\ mb[p].mb_tab[i].uid = call[p].uid
        /\ Content(Mapping(p), mb[p].mb_tab[i]) = <<Body(call[p].msg)>>

Named(tab, e) ==
  \E i \in DOMAIN tab : tab[i].uid = e.uid /\ tab[i].texts = e.texts

\* A folder's own writing keeps the numbers its client knows: through the
\* expunge (which rewrites the file and parses it from scratch) and the
\* append, every message that is not expunged keeps its number, whether that
\* number was read from the file or is a temporary one.
NumbersStable ==
  [][\A p \in Procs :
       (lock = p /\ lock' = p /\ pc'[p] # "dead" /\ ~unsafe) =>
         \A i \in DOMAIN mb[p].mb_tab :
           LET e == mb[p].mb_tab[i] IN
           e.deleted \/ Named(mb'[p].mb_tab, e)]_vars

\* A number never comes to mean another message while a folder is open: "we
\* can work with message numbers in mbox files" (doc/DOCUMENTATION).  Entries
\* that were cut off before their text are left out.
NumberNamesOneMessage ==
  [][\A p \in Procs : mb[p].mb_fd # NoFd /\ mb'[p].mb_fd # NoFd /\ ~unsafe' =>
       \A i \in DOMAIN mb[p].mb_tab, j \in DOMAIN mb'[p].mb_tab :
         LET old == mb[p].mb_tab[i]
             new == mb'[p].mb_tab[j]
         IN  old.uid = new.uid /\ {} \notin {old.texts, new.texts}
               => old.texts = new.texts]_vars

\* A successful mailmbox_expunge leaves no message in the file that its
\* client had marked deleted.
MarkedAreExpunged ==
  \A p \in Procs :
    (pc[p] = "unlock" /\ call[p].op = "expunge" /\ call[p].ok)
      => marked[p] \cap Texts(data[path]) = {}
=============================================================================
