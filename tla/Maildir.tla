------------------------------ MODULE Maildir -------------------------------
(***************************************************************************)
(* A maildir mailbox (low-level/maildir/maildir.c) that several sessions   *)
(* (struct maildir) and a mail transfer agent use at once.  There is no    *)
(* lock: the mailbox relies on link(), unlink() and rename() being atomic  *)
(* and on unique file names.                                               *)
(*                                                                         *)
(* A file in new/ or cur/ is named by the message's uid and its flags; the *)
(* uid is the time, process number and counter of the delivery.  An        *)
(* operation is split at its system calls, so that other sessions get in   *)
(* between and a crash may come at any point.  Reading one directory is    *)
(* one step.                                                               *)
(***************************************************************************)
EXTENDS Naturals, FiniteSets

CONSTANTS Sessions,       \* struct maildir instances
          Pid,            \* mdir_pid of each session
          Msgs,           \* message texts
          Flags,          \* the sets of flags a name may carry, "" is none
          HardLinks,      \* may link() work, may it give EPERM?
          MAX_TRY_ALLOC,  \* tries to find a free name in tmp/
          MaxTime,        \* bound of the clock, in seconds
          MaxCrashes,     \* bound on the number of crashes
          MaxChanges,     \* bound on the number of flag changes
          NoUid           \* no uid

ASSUME MaildirAssumption ==
  /\ IsFiniteSet(Sessions)
  /\ HardLinks \subseteq BOOLEAN
  /\ MAX_TRY_ALLOC \in Nat \ {0}
  /\ MaxTime \in Nat /\ MaxCrashes \in Nat /\ MaxChanges \in Nat
  /\ "" \in Flags

VARIABLES now,        \* time()
          files,      \* the links in tmp/, new/ and cur/ and their message
          mtime,      \* st_mtime of new/ and cur/
          hardlinks,  \* does the file system have hard links?
          md,         \* the sessions' struct maildir
          pc,         \* where each session is
          call,       \* the operation under way, its arguments and locals
          unsent,     \* the messages nobody tried to add so far
          crashes,    \* how many sessions died
          changes,    \* how many flag changes were started
          accepted,   \* ghost: the messages whose delivery was reported done
          removed,    \* ghost: the messages that were removed
          unlinked    \* ghost: the messages whose link() to new/ failed unnoticed

disk == <<files, mtime>>
bounds == <<unsent, crashes, changes>>
vars == <<now, files, mtime, hardlinks, md, pc, call, unsent, crashes,
          changes, accepted, removed, unlinked>>

-----------------------------------------------------------------------------
\* Files.

Mailboxes == {"new", "cur"}
Uid(t, p, n) == [t |-> t, pid |-> p, n |-> n]
Link(d, u, f, m) == [dir |-> d, uid |-> u, fl |-> f, msg |-> m]

At(d, u, f) == {x \in files : x.dir = d /\ x.uid = u /\ x.fl = f}
Exists(d, u, f) == At(d, u, f) # {}

\* Directories get a new modification time when a name comes or goes.
Touch(dirs) ==
  mtime' = [d \in Mailboxes |-> IF d \in dirs THEN now ELSE mtime[d]]

-----------------------------------------------------------------------------
\* struct maildir: mdir_msg_list holds what update found, mdir_msg_hash the
\* entry of a uid that was added last.

Never == MaxTime + 1
Entry(u, f, new) == [uid |-> u, fl |-> f, new |-> new]
Dir(e) == IF e.new THEN "new" ELSE "cur"

\* maildir_new
MaildirNew ==
  [mdir_counter |-> 0, mdir_mtime |-> [d \in Mailboxes |-> Never],
   mdir_msg_list |-> {}, mdir_msg_hash |-> {}]

NoCall == [op |-> "none", msg |-> {}, uid |-> NoUid,
           from |-> Entry(NoUid, "", FALSE), to |-> Entry(NoUid, "", FALSE),
           linked |-> FALSE]

\* add_message for a set of entries, in any order: the last one of a uid gets
\* into the hash, on top of the entries in old.
Hashes(old, entries) ==
  LET others == {e \in old : \A x \in entries : x.uid # e.uid} IN
  {others \cup h : h \in
     {c \in SUBSET entries : /\ \A e \in entries : \E x \in c : x.uid = e.uid
                             /\ \A x, y \in c : x.uid = y.uid => x = y}}

Go(s, l) == pc' = [pc EXCEPT ![s] = l]
Return(s) == Go(s, "idle") /\ call' = [call EXCEPT ![s] = NoCall]

-----------------------------------------------------------------------------
Init ==
  /\ now = 0
  /\ files = {}
  /\ mtime = [d \in Mailboxes |-> 0]
  /\ hardlinks \in HardLinks
  /\ md = [s \in Sessions |-> MaildirNew]
  /\ pc = [s \in Sessions |-> "idle"]
  /\ call = [s \in Sessions |-> NoCall]
  /\ unsent = Msgs
  /\ crashes = 0
  /\ changes = 0
  /\ accepted = {}
  /\ removed = {}
  /\ unlinked = {}

-----------------------------------------------------------------------------
\* maildir_update, alone or as the first part of maildir_message_add_uid

\* "did new/ changed ?", "did cur/ changed ?"
DirsChanged(s) == md[s].mdir_mtime # mtime

\* Where the operation op goes on after the update.
AfterUpdate(op) == IF op = "add" THEN "name" ELSE "idle"

\* Both directories' times are compared and kept; maildir_flush empties the
\* list when one of them differs.
Update(s, c) ==
  /\ pc[s] = "idle"
  /\ IF DirsChanged(s)
     THEN /\ md' = [md EXCEPT ![s].mdir_mtime = mtime, ![s].mdir_msg_list = {},
                              ![s].mdir_msg_hash = {}]
          /\ Go(s, "readnew")
          /\ call' = [call EXCEPT ![s] = c]
     ELSE /\ Go(s, AfterUpdate(c.op))
          /\ call' = [call EXCEPT ![s] = IF c.op = "add" THEN c ELSE NoCall]
          /\ UNCHANGED md

UpdateCall(s) ==
  /\ Update(s, [NoCall EXCEPT !.op = "update"])
  /\ UNCHANGED <<now, disk, hardlinks, bounds, accepted, removed, unlinked>>

AddCall(s, m) ==
  /\ m \in unsent
  /\ unsent' = unsent \ {m}
  /\ Update(s, [NoCall EXCEPT !.op = "add", !.msg = {m}])
  /\ UNCHANGED <<now, disk, hardlinks, crashes, changes, accepted, removed, unlinked>>

\* add_directory
Found(d) == {Entry(x.uid, x.fl, d = "new") : x \in {y \in files : y.dir = d}}

ReadDirectory(s, d) ==
  \E h \in Hashes(md[s].mdir_msg_hash, Found(d)) :
    md' = [md EXCEPT ![s].mdir_msg_list = @ \cup Found(d),
                     ![s].mdir_msg_hash = h]

ReadNew(s) ==
  /\ pc[s] = "readnew"
  /\ ReadDirectory(s, "new")
  /\ Go(s, "readcur")
  /\ UNCHANGED <<now, disk, hardlinks, call, bounds, accepted, removed, unlinked>>

ReadCur(s) ==
  /\ pc[s] = "readcur"
  /\ ReadDirectory(s, "cur")
  /\ Go(s, AfterUpdate(call[s].op))
  /\ call' = [call EXCEPT ![s] = IF @.op = "add" THEN @ ELSE NoCall]
  /\ UNCHANGED <<now, disk, hardlinks, bounds, accepted, removed, unlinked>>

-----------------------------------------------------------------------------
\* maildir_message_add_uid

\* The message is written to a file that mkstemp() named; when that fails the
\* file is removed and the call fails.  The caller still has the message.
WriteFails(s) ==
  /\ pc[s] = "name"
  /\ Return(s)
  /\ unsent' = unsent \cup call[s].msg
  /\ UNCHANGED <<now, disk, hardlinks, md, crashes, changes, accepted, removed, unlinked>>

\* maildir_get_new_message_filename: the first counter whose name is free in
\* tmp/; rename() takes the first one where there are no hard links.
NameOf(s, k) == Uid(now, Pid[s], md[s].mdir_counter + k)
FreeTries(s) ==
  {k \in 0..(MAX_TRY_ALLOC - 1) : hardlinks => ~Exists("tmp", NameOf(s, k), "")}

NextCounter_Same(c) == c
NextCounter(c) == c + 1

NameDraft(s) ==
  /\ pc[s] = "name"
  /\ IF FreeTries(s) = {}
     THEN /\ md' = [md EXCEPT ![s].mdir_counter = @ + MAX_TRY_ALLOC]
          /\ Return(s)
          /\ UNCHANGED files
     ELSE \E k \in FreeTries(s) :
            LET u == NameOf(s, k)
            IN  /\ \A j \in FreeTries(s) : k <= j
                /\ files' = (files \ At("tmp", u, ""))
                              \cup {Link("tmp", u, "", m) : m \in call[s].msg}
                /\ md' = [md EXCEPT ![s].mdir_counter = NextCounter(@ + k)]
                /\ call' = [call EXCEPT ![s].uid = u]
                /\ Go(s, "deliver")
  /\ UNCHANGED <<now, mtime, hardlinks, bounds, accepted, removed, unlinked>>

\* link() from tmp/ to new/.  It fails when the name exists in new/ or is gone
\* from tmp/, and may fail for want of space or rights; but for EXDEV and EPERM
\* no failure is noticed, and the file stays in tmp/.
Drafts(s) == {Link("new", call[s].uid, "", x.msg) : x \in At("tmp", call[s].uid, "")}

Deliver(s) ==
  /\ pc[s] = "deliver" /\ hardlinks
  /\ \/ /\ ~Exists("new", call[s].uid, "") /\ Drafts(s) # {}
        /\ files' = files \cup Drafts(s)
        /\ Touch({"new"})
        /\ call' = [call EXCEPT ![s].linked = TRUE]
        /\ UNCHANGED unlinked
     \/ /\ unlinked' = unlinked \cup call[s].msg
        /\ UNCHANGED <<disk, call>>
  /\ Go(s, "finish")
  /\ UNCHANGED <<now, hardlinks, md, bounds, accepted, removed>>

\* link() gives EPERM: rename(), which replaces what has the name in new/ and
\* whose failure is reported.
DeliverByRename(s) ==
  /\ pc[s] = "deliver" /\ ~hardlinks
  /\ IF Drafts(s) = {}
     THEN Return(s) /\ UNCHANGED disk
     ELSE /\ files' = (files \ (At("new", call[s].uid, "")
                                  \cup At("tmp", call[s].uid, ""))) \cup Drafts(s)
          /\ Touch({"new"})
          /\ Go(s, "finish")
          /\ UNCHANGED call
  /\ UNCHANGED <<now, hardlinks, md, bounds, accepted, removed, unlinked>>

\* The name in tmp/ goes, the time of new/ is taken, the entry is added, and
\* the call reports success.
FinishAdd(s) ==
  /\ pc[s] = "finish"
  /\ LET e == Entry(call[s].uid, "", TRUE) IN
     /\ files' = IF call[s].linked THEN files \ At("tmp", e.uid, "") ELSE files
     /\ \E h \in Hashes(md[s].mdir_msg_hash, {e}) :
          md' = [md EXCEPT ![s].mdir_mtime["new"] = mtime["new"],
                           ![s].mdir_msg_list = @ \cup {e},
                           ![s].mdir_msg_hash = h]
  /\ accepted' = accepted \cup call[s].msg
  /\ Return(s)
  /\ UNCHANGED <<now, mtime, hardlinks, bounds, removed, unlinked>>

-----------------------------------------------------------------------------
\* maildir_message_remove: the entry stays in the list.
Remove(s, e) ==
  /\ pc[s] = "idle" /\ e \in md[s].mdir_msg_hash
  /\ LET gone == At(Dir(e), e.uid, e.fl) IN
     /\ gone # {}
     /\ files' = files \ gone
     /\ removed' = removed \cup {x.msg : x \in gone}
     /\ Touch({Dir(e)})
  /\ UNCHANGED <<now, hardlinks, md, pc, call, bounds, accepted, unlinked>>

\* maildir_message_change_flags: nothing to do when the name stays the same.
ChangeCall(s, e, f, new) ==
  /\ pc[s] = "idle" /\ e \in md[s].mdir_msg_hash /\ changes < MaxChanges
  /\ Entry(e.uid, f, new) # e
  /\ changes' = changes + 1
  /\ call' = [call EXCEPT ![s].op = "change", ![s].from = e,
                          ![s].to = Entry(e.uid, f, new)]
  /\ Go(s, "link")
  /\ UNCHANGED <<now, disk, hardlinks, md, unsent, crashes, accepted, removed, unlinked>>

\* The entry takes the new name.
Renamed(s) ==
  LET swap(S) == IF call[s].from \in S THEN (S \ {call[s].from}) \cup {call[s].to}
                                       ELSE S
  IN  [md[s] EXCEPT !.mdir_msg_list = swap(@), !.mdir_msg_hash = swap(@)]

OldName(s) == At(Dir(call[s].from), call[s].from.uid, call[s].from.fl)
NewName(s) == At(Dir(call[s].to), call[s].to.uid, call[s].to.fl)
NewLinks(s) ==
  {Link(Dir(call[s].to), call[s].to.uid, call[s].to.fl, x.msg) : x \in OldName(s)}

\* link() makes the new name, unlink() removes the old one.
LinkName_AfterUnlink(s) ==
  /\ pc[s] = "link" /\ hardlinks
  /\ OldName(s) # {} /\ NewName(s) = {}
  /\ files' = files \ OldName(s)
  /\ Touch({Dir(call[s].from), Dir(call[s].to)})
  /\ Go(s, "unlink")
  /\ UNCHANGED <<now, hardlinks, md, call, bounds, accepted, removed, unlinked>>

LinkName(s) ==
  /\ pc[s] = "link" /\ hardlinks
  /\ OldName(s) # {} /\ NewName(s) = {}
  /\ files' = files \cup NewLinks(s)
  /\ Touch({Dir(call[s].to)})
  /\ Go(s, "unlink")
  /\ UNCHANGED <<now, hardlinks, md, call, bounds, accepted, removed, unlinked>>

UnlinkName(s) ==
  /\ pc[s] = "unlink"
  /\ files' = files \ OldName(s)
  /\ Touch(IF OldName(s) = {} THEN {} ELSE {Dir(call[s].from)})
  /\ md' = [md EXCEPT ![s] = Renamed(s)]
  /\ Return(s)
  /\ UNCHANGED <<now, hardlinks, bounds, accepted, removed, unlinked>>

\* link() fails, because the old name is gone, the new one exists or for want
\* of space or rights: the call goes on as if it had worked.
LinkNameFails(s) ==
  /\ pc[s] = "link" /\ hardlinks
  /\ md' = [md EXCEPT ![s] = Renamed(s)]
  /\ Return(s)
  /\ UNCHANGED <<now, disk, hardlinks, bounds, accepted, removed, unlinked>>

\* Without hard links: rename(), whose failure is reported.
RenameName(s) ==
  /\ pc[s] = "link" /\ ~hardlinks
  /\ IF OldName(s) = {}
     THEN UNCHANGED <<disk, md>>
     ELSE /\ files' = (files \ (OldName(s) \cup NewName(s))) \cup NewLinks(s)
          /\ Touch({Dir(call[s].from), Dir(call[s].to)})
          /\ md' = [md EXCEPT ![s] = Renamed(s)]
  /\ Return(s)
  /\ UNCHANGED <<now, hardlinks, bounds, accepted, removed, unlinked>>

-----------------------------------------------------------------------------
\* The environment (external).

\* A session's process dies in an operation; what it left in the directories
\* stays.  (One that dies between operations just does not act any more.)
Crash(s) ==
  /\ pc[s] \notin {"idle", "dead"} /\ crashes < MaxCrashes
  /\ crashes' = crashes + 1
  /\ pc' = [pc EXCEPT ![s] = "dead"]
  /\ call' = [call EXCEPT ![s] = NoCall]
  /\ md' = [md EXCEPT ![s] = MaildirNew]
  /\ UNCHANGED <<now, disk, hardlinks, unsent, changes, accepted, removed, unlinked>>

\* A mail transfer agent delivers under a name of its own.
MtaDeliver(m) ==
  /\ m \in unsent
  /\ unsent' = unsent \ {m}
  /\ files' = files \cup {Link("new", Uid(now, "mta", Cardinality(accepted)), "", m)}
  /\ Touch({"new"})
  /\ accepted' = accepted \cup {m}
  /\ UNCHANGED <<now, hardlinks, md, pc, call, crashes, changes, removed, unlinked>>

Tick ==
  /\ now < MaxTime
  /\ now' = now + 1
  /\ UNCHANGED <<disk, hardlinks, md, pc, call, bounds, accepted, removed, unlinked>>

-----------------------------------------------------------------------------
SessionStep(s) ==
  \/ UpdateCall(s)
  \/ \E m \in Msgs : AddCall(s, m)
  \/ ReadNew(s) \/ ReadCur(s)
  \/ WriteFails(s) \/ NameDraft(s)
  \/ Deliver(s) \/ DeliverByRename(s) \/ FinishAdd(s)
  \/ \E e \in md[s].mdir_msg_hash :
       \/ Remove(s, e)
       \/ \E f \in Flags, new \in BOOLEAN : ChangeCall(s, e, f, new)
  \/ LinkName(s) \/ UnlinkName(s) \/ LinkNameFails(s) \/ RenameName(s)
  \/ Crash(s)

Next ==
  \/ \E s \in Sessions : SessionStep(s)
  \/ \E m \in Msgs : MtaDeliver(m)
  \/ Tick

Spec == Init /\ [][Next]_vars

-----------------------------------------------------------------------------
UidSpace ==
  [t : 0..MaxTime, pid : {Pid[s] : s \in Sessions} \cup {"mta"}, n : Nat]
Entries == [uid : UidSpace, fl : Flags, new : BOOLEAN]
MaybeEntries == Entries \cup {Entry(NoUid, "", FALSE)}
Labels == {"idle", "readnew", "readcur", "name", "deliver", "finish",
           "link", "unlink", "dead"}

\* The type of every variable; the hash holds entries, one for a uid.
TypeOK ==
  /\ now \in 0..MaxTime
  /\ files \subseteq [dir : Mailboxes \cup {"tmp"}, uid : UidSpace, fl : Flags,
                      msg : Msgs]
  /\ mtime \in [Mailboxes -> 0..MaxTime]
  /\ hardlinks \in BOOLEAN
  /\ \A s \in Sessions :
       /\ md[s].mdir_counter \in Nat
       /\ md[s].mdir_mtime \in [Mailboxes -> 0..Never]
       /\ md[s].mdir_msg_list \subseteq Entries
       /\ md[s].mdir_msg_hash \subseteq Entries
       /\ \A d, e \in md[s].mdir_msg_hash : d.uid = e.uid => d = e
       /\ pc[s] \in Labels
       /\ call[s].op \in {"none", "update", "add", "change"}
       /\ call[s].msg \subseteq Msgs
       /\ call[s].uid \in UidSpace \cup {NoUid}
       /\ call[s].from \in MaybeEntries
       /\ call[s].to \in MaybeEntries
       /\ call[s].linked \in BOOLEAN
  /\ unsent \subseteq Msgs
  /\ crashes \in 0..MaxCrashes
  /\ changes \in 0..MaxChanges
  /\ accepted \subseteq Msgs
  /\ removed \subseteq Msgs
  /\ unlinked \subseteq Msgs

InMailbox == {x \in files : x.dir \in Mailboxes}

\* A message whose delivery was reported and that nobody removed has a name
\* in new/ or cur/ at every moment: sessions that change its flags at the
\* same time, through link() and unlink() or rename(), and sessions that die
\* in the middle of it may leave it two names but never none.  The exception is
\* a message whose link() to new/ failed with an error maildir_message_add_uid
\* ignores: it is reported as delivered and keeps its file in tmp/, where no
\* reader looks for it.
NoMessageLost ==
  \A m \in accepted \ removed :
    \E x \in files : x.msg = m /\ (x.dir \in Mailboxes \/ m \in unlinked)

\* A uid names one message, in all sessions and through all flag changes:
\* time, process number and counter never repeat.
UidNamesOneMessage ==
  /\ TypeOK
  /\ \A x, y \in InMailbox : x.uid = y.uid => x.msg = y.msg

\* A session that finds both directories unchanged (maildir_update: "did new/
\* changed ?", "did cur/ changed ?") knows every message they hold.
UpdateSeesAll ==
  \A s \in Sessions : pc[s] = "idle" /\ ~DirsChanged(s) =>
    \A x \in InMailbox : \E e \in md[s].mdir_msg_list : e.uid = x.uid
=============================================================================
