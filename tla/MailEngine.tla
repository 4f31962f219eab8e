----------------------------- MODULE MailEngine -----------------------------
(***************************************************************************)
(* The engine (engine/mailengine.c) over the storage and folder objects    *)
(* (driver/interface: mailstorage.c, mailfolder.c): sessions that are      *)
(* shared, lost and restored, and the reference counts of the messages     *)
(* that clients were given.  One storage with its folders.  Calls are      *)
(* atomic: mailengine.h makes the callers protect a storage against        *)
(* concurrency.                                                            *)
(***************************************************************************)
EXTENDS Integers, FiniteSets

CONSTANTS Folders,    \* the folders of the storage
          Inbox,      \* the folder imap serves from the storage's own session
          Uids,       \* msg_uid
          MaxMsgs,    \* how many message objects are ever made
          MaxLists,   \* how many message lists the client has at a time
          MaxRefs,    \* how many references it takes by itself on a message
          MaxFrees    \* how many lost lists with a message in it frees

ASSUME EngineAssumption ==
  /\ Inbox \in Folders /\ "none" \notin Folders
  /\ {MaxMsgs, MaxLists, MaxRefs, MaxFrees} \subseteq Nat

Msgs == 1..MaxMsgs
NoMsg == 0
Drivers == {"imap", "nntp", "pop3", "mh", "local"}   \* local: mbox, maildir, feed, db

VARIABLES
  driver,     \* the storage's driver
  con,        \* storage, folders and their connections, see Connections
  msg,        \* message objects with their message_ref_elt
  uid_hash,   \* per folder: uid => message object
  hash_lock,  \* storage_hash_lock
  lists,      \* the client's lists
  refs,       \* the references the client took on each message ...
  mimes,      \* ... and on its MIME structure
  dropped,    \* history: folders whose folder_ref_info was freed while the client
              \* held messages or lists of theirs or the storage still listed them
  unearned,   \* history: per message, the references released with lost lists
  blind       \* history: the client used a folder known to have lost its session

clientVars == <<lists, refs, mimes>>
historyVars == <<dropped, unearned, blind>>
vars == <<driver, con, msg, uid_hash, hash_lock, clientVars, historyVars>>

(* sto: sto_session # NULL; fld: fld_session # NULL; fsh: fld_shared_session,
   which mailfolder_disconnect leaves as it is; ref: the folders that have a
   folder_ref_info; lost: lost_session; cut, restored: the folders whose
   session was closed and whose messages were given a new one in this call;
   fault: the call followed a pointer to nothing. *)
Connections ==
  [sto : BOOLEAN, fld : [Folders -> BOOLEAN], fsh : [Folders -> BOOLEAN],
   ref : SUBSET Folders, lost : [Folders -> BOOLEAN],
   cut : SUBSET Folders, restored : SUBSET Folders, fault : BOOLEAN]

\* live: in the msg_hash of its folder; orphan: its folder's tables were freed
Messages ==
  [state : {"none", "freed"}] \cup
  [state : {"live", "orphan"}, folder : Folders, uid : Uids,
   ref_count : Int, mime_ref_count : Nat, mime : BOOLEAN,
   session : {"open", "closed"}]

Init ==
  /\ driver \in Drivers
  /\ con = [sto |-> FALSE, fld |-> [f \in Folders |-> FALSE],
            fsh |-> [f \in Folders |-> FALSE], ref |-> {},
            lost |-> [f \in Folders |-> FALSE], cut |-> {}, restored |-> {},
            fault |-> FALSE]
  /\ msg = [m \in Msgs |-> [state |-> "none"]]
  /\ uid_hash = [f \in Folders |-> [u \in Uids |-> NoMsg]]
  /\ hash_lock = "free"
  /\ lists = [i \in 1..MaxLists |-> [of |-> "none"]]
  /\ refs = [m \in Msgs |-> 0] /\ mimes = [m \in Msgs |-> 0]
  /\ dropped = {} /\ unearned = [m \in Msgs |-> 0] /\ blind = FALSE

-----------------------------------------------------------------------------
\* Connections.  A call is the set of its outcomes: a result and what became
\* of the connections.

Outcome(r, c) == [r |-> r, c |-> c]
Failures(c) == {Outcome("stream", c), Outcome("error", c)}

\* A call goes on with Op unless it has run into a fault.
Then(S, Op(_)) == UNION {IF o.c.fault THEN {o} ELSE Op(o) : o \in S}

SharedSession(f) == driver # "imap" \/ f = Inbox
HasSelect == driver \in {"imap", "nntp", "mh"}
HasNoop == driver \in {"imap", "nntp", "pop3"}

\* sto_shared_folders
Shared(c) == {f \in Folders : c.fld[f] /\ c.fsh[f]}

\* mailstorage_connect
MailstorageConnect(c) ==
  CASE c.sto -> {Outcome("ok", c)}
    [] ~c.sto /\ Shared(c) # {} -> {Outcome("error", c)}
    [] OTHER -> Failures(c) \cup {Outcome("ok", [c EXCEPT !.sto = TRUE])}

\* mailfolder_disconnect
MailfolderDisconnect(c, f) ==
  IF c.fld[f] THEN [c EXCEPT !.fld[f] = FALSE, !.cut = @ \cup {f}] ELSE c

\* mailstorage_disconnect: the shared folders first.
MailstorageDisconnect(c) ==
  [c EXCEPT !.fld = [f \in Folders |-> c.fld[f] /\ f \notin Shared(c)],
            !.cut = @ \cup Shared(c),
            !.sto = FALSE]

\* mailfolder_connect, with the get_folder_session of the drivers.
MailfolderConnect(c, f) ==
  LET connected == [c EXCEPT !.fld[f] = TRUE, !.fsh[f] = SharedSession(f)] IN
  IF c.fld[f]
    THEN {Outcome("ok", c)} \cup (IF c.fsh[f] /\ HasSelect THEN Failures(c) ELSE {})
    ELSE {Outcome("ok", connected)}
           \cup (IF SharedSession(f) /\ driver # "mh" THEN {} ELSE Failures(c))

\* mailsession_noop
Noop(c) == IF HasNoop THEN {Outcome("ok", c)} \cup Failures(c)
                      ELSE {Outcome("not_implemented", c)}

\* do_storage_disconnect looks up the reference of every shared folder.
DoStorageDisconnect_OnlyStorage(c) == MailstorageDisconnect(c)

DoStorageDisconnect(c) ==
  IF Shared(c) \subseteq c.ref
    THEN MailstorageDisconnect(
           [c EXCEPT !.lost = [f \in Folders |-> @[f] \/ f \in Shared(c)]])
    ELSE [c EXCEPT !.fault = TRUE]

\* folder_connect, folder_disconnect
FolderConnect(c, f) ==
  Then(MailstorageConnect(c),
       LAMBDA o : IF o.r = "ok" THEN MailfolderConnect(o.c, f) ELSE {o})

FolderDisconnect(c, f) ==
  LET d == MailfolderDisconnect([c EXCEPT !.lost[f] = TRUE], f)
  IN  IF d.fsh[f] THEN DoStorageDisconnect(d) ELSE d

\* storage_restore_message_session, folder_restore_session
Restorable(c) == {f \in c.ref : c.lost[f] /\ c.fld[f]}
Restore_FlagOnly(c) ==
  [c EXCEPT !.lost = [f \in Folders |-> @[f] /\ f \notin Restorable(c)]]

Restore(c) ==
  [c EXCEPT !.restored = @ \cup Restorable(c),
            !.lost = [f \in Folders |-> @[f] /\ f \notin Restorable(c)]]

\* storage_get_folder_ref, storage_folder_add_ref
AddRef(c, f) ==
  IF f \in c.ref THEN c ELSE [c EXCEPT !.ref = @ \cup {f}, !.lost[f] = TRUE]

\* storage_folder_remove_ref
RemoveRef(c, f) ==
  IF c.fault THEN c ELSE [c EXCEPT !.ref = @ \ {f}, !.lost[f] = FALSE]

\* storage_folder_connect: a stream error is answered by one new attempt,
\* another failure costs the folder its reference.
Reconnect(o, f) ==
  IF o.r = "stream"
    THEN Then({Outcome("stream", FolderDisconnect(o.c, f))},
              LAMBDA p : FolderConnect(p.c, f))
    ELSE {o}

StorageFolderConnect(c, f) ==
  LET first == Then(FolderConnect(AddRef(c, f), f), LAMBDA o : Reconnect(o, f))
      tested(o) == Then(Noop(o.c), LAMBDA p : Reconnect(p, f))
  IN  Then(first, LAMBDA o :
        IF o.r # "ok" THEN {Outcome(o.r, RemoveRef(o.c, f))}
        ELSE Then(tested(o), LAMBDA p :
               IF p.r \in {"ok", "not_implemented"}
                 THEN {Outcome("ok", Restore(p.c))}
                 ELSE {Outcome(p.r, RemoveRef(FolderDisconnect(p.c, f), f))}))

\* storage_connect: not_implemented does not pass the second test.
StorageConnect(c) ==
  LET again(o) == Then({Outcome(o.r, DoStorageDisconnect(o.c))},
                       LAMBDA p : MailstorageConnect(p.c))
      finish(o) == IF o.r = "ok" THEN {Outcome("ok", Restore(o.c))}
                   ELSE {Outcome(o.r, DoStorageDisconnect(o.c))}
  IN  Then(Then(MailstorageConnect(c), LAMBDA o : IF o.r = "stream" THEN again(o) ELSE {o}),
           LAMBDA o : IF o.r # "ok" THEN finish(o)
             ELSE Then(Then(Noop(o.c), LAMBDA p :
                              IF p.r \in {"ok", "not_implemented"} THEN {p} ELSE again(p)),
                       finish))

\* storage_folder_disconnect, storage_disconnect
StorageFolderDisconnect(c, f) == RemoveRef(MailfolderDisconnect(c, f), f)
StorageDisconnect(c) ==
  DoStorageDisconnect([c EXCEPT !.fld = [f \in Folders |-> @[f] /\ f \notin c.ref],
                                !.cut = @ \cup {f \in c.ref : c.fld[f]},
                                !.ref = {}, !.lost = [f \in Folders |-> FALSE]])

-----------------------------------------------------------------------------
\* Messages.

Live == {m \in Msgs : msg[m].state = "live"}
InHash(f) == {m \in Live : msg[m].folder = f}
ListRefs(m) == Cardinality({i \in DOMAIN lists : /\ lists[i].of # "none" /\ ~lists[i].lost
                                                 /\ m \in lists[i].msgs})
Holds(m) == ListRefs(m) + refs[m] + mimes[m]
Held(f) == {m \in Msgs : msg[m].state \in {"live", "orphan"} /\ msg[m].folder = f /\ Holds(m) > 0}
Quiet(f) == Held(f) = {} /\ \A i \in DOMAIN lists : lists[i].of # f

\* What a call did to the connections reaches the messages: a folder that lost
\* its folder_ref_info lost its tables, and the counts of its messages with them.
MessageAfter(m, c) ==
  IF msg[m].state \notin {"live", "orphan"} THEN msg[m]
  ELSE LET f == msg[m].folder IN
       [msg[m] EXCEPT
          !.state = IF f \in con.ref \ c.ref THEN "orphan" ELSE @,
          !.session = IF f \in c.restored /\ msg[m].state = "live" THEN "open"
                      ELSE IF f \in c.cut THEN "closed" ELSE @]

Settled(c) == [c EXCEPT !.cut = {}, !.restored = {}]

Connected(c) ==
  /\ con' = Settled(c)
  /\ msg' = [m \in Msgs |-> MessageAfter(m, c)]
  /\ uid_hash' = [f \in Folders |->
                   IF f \in con.ref \ c.ref THEN [u \in Uids |-> NoMsg] ELSE uid_hash[f]]
  /\ dropped' = dropped \cup {f \in con.ref \ c.ref : ~Quiet(f) \/ f \in Shared(c)}
  /\ UNCHANGED <<driver, hash_lock, clientVars, unearned>>

\* libetpan_folder_connect, libetpan_storage_connect
FolderConnects(f) == \E o \in StorageFolderConnect(con, f) : Connected(o.c) /\ UNCHANGED blind
StorageConnects == \E o \in StorageConnect(con) : Connected(o.c) /\ UNCHANGED blind

\* libetpan_folder_disconnect, libetpan_storage_disconnect: "only when you
\* have freed all the message you were given".
FolderDisconnects(f) ==
  /\ f \in con.ref /\ Quiet(f)
  /\ Connected(StorageFolderDisconnect(con, f)) /\ UNCHANGED blind

StorageDisconnects ==
  /\ \A f \in Folders : Quiet(f)
  /\ Connected(StorageDisconnect(con)) /\ UNCHANGED blind

\* libetpan_storage_remove: remove_storage_ref_info locks storage_hash_lock a
\* second time instead of unlocking it, and no other call gets it any more.
StorageRemoves ==
  /\ con.ref = {} /\ ~con.sto
  /\ hash_lock' = "held"
  /\ UNCHANGED <<driver, con, msg, uid_hash, clientVars, historyVars>>

\* message_get_folder_ref and folder_info_get_msg_ref find message m.
Found(m) == msg[m].state = "live" /\ msg[m].folder \in con.ref
Faults == /\ con' = [con EXCEPT !.fault = TRUE]
          /\ UNCHANGED <<msg, uid_hash>>

\* folder_message_add, and the reference of the list or of the client
NewMessage(f, u) ==
  [state |-> "live", folder |-> f, uid |-> u, ref_count |-> 1, mime_ref_count |-> 0,
   mime |-> FALSE, session |-> "open"]

Unused == {m \in Msgs : msg[m].state = "none"}

\* folder_update_msg_list: the uids that the mailbox has now, which other programs
\* may have changed since the last call, each with its object: the messages of
\* uids known are the old objects, with one more reference; the objects of uids
\* that are gone are lost.
Objects(f) ==
  {g \in UNION {[uids -> Msgs] : uids \in SUBSET Uids} :
     /\ \A u \in DOMAIN g : IF uid_hash[f][u] # NoMsg THEN g[u] = uid_hash[f][u]
                                                    ELSE g[u] \in Unused
     /\ \A u, v \in DOMAIN g : g[u] = g[v] => u = v
     /\ \A u \in DOMAIN g, k \in Unused : g[u] \in Unused /\ k < g[u] =>
          \E v \in DOMAIN g : g[v] = k}

Listed(f, closed, obj, i, j) ==
  LET news == {obj[u] : u \in DOMAIN obj}
      lost == InHash(f) \ news
  IN  /\ msg' = [m \in Msgs |->
                   IF m \in Unused /\ m \in news
                     THEN NewMessage(f, CHOOSE u \in DOMAIN obj : obj[u] = m)
                   ELSE LET old == MessageAfter(m, closed) IN
                        IF m \in news THEN [old EXCEPT !.ref_count = @ + 1] ELSE old]
      /\ uid_hash' = [uid_hash EXCEPT ![f] =
                        [u \in Uids |-> IF u \in DOMAIN obj THEN obj[u] ELSE @[u]]]
      /\ lists' = [k \in DOMAIN lists |->
                     IF k = i THEN [of |-> f, lost |-> FALSE, msgs |-> news]
                     ELSE IF k = j /\ lost # {} THEN [of |-> f, lost |-> TRUE, msgs |-> lost]
                     ELSE lists[k]]

\* libetpan_folder_get_msg_list of a folder that the engine has.  A session
\* that is NULL is followed.  mailfolder_get_messages_list closes and reopens
\* the session of a pop3 storage first, and the engine does not learn of it.
\* Lost messages are not referenced; the client keeps their list or drops it.
MessagesList(f) ==
  IF driver = "pop3"
    THEN Then(MailstorageConnect(MailstorageDisconnect(con)),
              LAMBDA p : IF p.r = "ok" THEN MailfolderConnect(p.c, f) ELSE {p})
    ELSE {Outcome("ok", con), Outcome("error", con)}

GetMsgList(f) ==
  /\ f \in con.ref
  /\ blind' = (blind \/ con.lost[f])
  /\ \/ /\ driver # "pop3" /\ ~con.fld[f]
        /\ Faults
        /\ UNCHANGED <<driver, hash_lock, clientVars, dropped, unearned>>
     \/ /\ driver = "pop3" \/ con.fld[f]
        /\ \E o \in MessagesList(f) :
             \/ o.r # "ok" /\ Connected(o.c)
             \/ /\ o.r = "ok"
                /\ \E i, j \in DOMAIN lists :
                     /\ lists[i].of = "none" /\ lists[j].of = "none"
                     /\ \A k \in 1..i - 1 : lists[k].of # "none"
                     /\ \E obj \in Objects(f) : Listed(f, o.c, obj, i, j)
                /\ con' = Settled(o.c)
                /\ UNCHANGED <<driver, hash_lock, refs, mimes, dropped, unearned>>

\* folder_message_unref of every message in M; the last reference frees it.
LosesUid_Always(M, f) ==
  [uid_hash EXCEPT ![f] = [u \in Uids |->
     IF \E m \in M : msg[m].uid = u THEN NoMsg ELSE @[u]]]

LosesUid(M, f) ==
  [uid_hash EXCEPT ![f] = [u \in Uids |->
     IF \E m \in M : msg[m].ref_count = 1 /\ msg[m].uid = u THEN NoMsg ELSE @[u]]]

Unreferenced(m) ==
  IF msg[m].ref_count = 1 THEN [state |-> "freed"]
                          ELSE [msg[m] EXCEPT !.ref_count = @ - 1]

Unref(M, f) ==
  IF \A m \in M : Found(m)
    THEN /\ msg' = [m \in Msgs |-> IF m \in M THEN Unreferenced(m) ELSE msg[m]]
         /\ uid_hash' = LosesUid(M, f)
         /\ UNCHANGED con
    ELSE Faults

\* libetpan_folder_free_msg_list: "these two list can only be freed by" it.
FreeMsgList(i) ==
  /\ lists[i].of # "none"
  /\ lists[i].lost => \A m \in lists[i].msgs : unearned[m] < MaxFrees
  /\ lists' = [lists EXCEPT ![i] = [of |-> "none"]]
  /\ Unref(lists[i].msgs, lists[i].of)
  /\ unearned' = [m \in Msgs |-> IF lists[i].lost /\ m \in lists[i].msgs
                                   THEN unearned[m] + 1 ELSE unearned[m]]
  /\ UNCHANGED <<driver, hash_lock, refs, mimes, dropped, blind>>

\* libetpan_message_ref, libetpan_message_unref
MessageRef(m) ==
  /\ Holds(m) > 0 /\ refs[m] < MaxRefs
  /\ refs' = [refs EXCEPT ![m] = @ + 1]
  /\ IF Found(m) THEN /\ msg' = [msg EXCEPT ![m].ref_count = @ + 1]
                      /\ UNCHANGED <<con, uid_hash>>
                 ELSE Faults
  /\ UNCHANGED <<driver, hash_lock, lists, mimes, historyVars>>

MessageUnref(m) ==
  /\ refs[m] > 0
  /\ refs' = [refs EXCEPT ![m] = @ - 1]
  /\ Unref({m}, IF Found(m) THEN msg[m].folder ELSE Inbox)
  /\ UNCHANGED <<driver, hash_lock, lists, mimes, historyVars>>

\* libetpan_message_mime_ref: the first one fetches the structure through the
\* session of the message, and may fail.
MimeRef(m) ==
  /\ Holds(m) > 0 /\ mimes[m] < MaxRefs
  /\ blind' = (blind \/ (Found(m) /\ con.lost[msg[m].folder]))
  /\ IF ~Found(m) \/ (msg[m].mime_ref_count = 0 /\ ~msg[m].mime /\ msg[m].session = "closed")
       THEN Faults /\ UNCHANGED mimes
       ELSE /\ msg' = [msg EXCEPT ![m].ref_count = @ + 1, ![m].mime_ref_count = @ + 1,
                                  ![m].mime = TRUE]
            /\ mimes' = [mimes EXCEPT ![m] = @ + 1]
            /\ UNCHANGED <<con, uid_hash>>
  /\ UNCHANGED <<driver, hash_lock, lists, refs, dropped, unearned>>

\* libetpan_message_mime_unref: the message is not freed with its last reference.
MimeUnref(m) ==
  /\ mimes[m] > 0
  /\ mimes' = [mimes EXCEPT ![m] = @ - 1]
  /\ IF Found(m)
       THEN /\ msg' = [msg EXCEPT ![m].ref_count = @ - 1, ![m].mime_ref_count = @ - 1,
                                  ![m].mime = msg[m].mime_ref_count # 1]
            /\ UNCHANGED <<con, uid_hash>>
       ELSE Faults
  /\ UNCHANGED <<driver, hash_lock, lists, refs, historyVars>>

\* libetpan_message_register of a message that no list has shown, and the
\* reference its owner takes at once.
Register(f, u) ==
  /\ f \in con.ref /\ con.fld[f] /\ ~con.lost[f]
  /\ uid_hash[f][u] = NoMsg
  /\ \E m \in Unused :
       /\ \A k \in Unused : m <= k
       /\ MaxRefs > 0
       /\ msg' = [msg EXCEPT ![m] = NewMessage(f, u)]
       /\ uid_hash' = [uid_hash EXCEPT ![f][u] = m]
       /\ refs' = [refs EXCEPT ![m] = 1]
  /\ UNCHANGED <<driver, con, hash_lock, lists, mimes, historyVars>>

Call ==
  \/ \E f \in Folders : FolderConnects(f) \/ FolderDisconnects(f) \/ GetMsgList(f)
  \/ StorageConnects \/ StorageDisconnects \/ StorageRemoves
  \/ \E i \in DOMAIN lists : FreeMsgList(i)
  \/ \E m \in Msgs : MessageRef(m) \/ MessageUnref(m) \/ MimeRef(m) \/ MimeUnref(m)
  \/ \E f \in Folders, u \in Uids : Register(f, u)

Next == hash_lock = "free" /\ ~con.fault /\ Call

Spec == Init /\ [][Next]_vars

-----------------------------------------------------------------------------
TypeOK ==
  /\ driver \in Drivers
  /\ con \in Connections /\ con.cut = {} /\ con.restored = {}
  /\ msg \in [Msgs -> Messages]
  /\ uid_hash \in [Folders -> [Uids -> Msgs \cup {NoMsg}]]
  /\ hash_lock \in {"free", "held"}
  /\ lists \in [1..MaxLists -> [of : {"none"}] \cup
                                [of : Folders, lost : BOOLEAN, msgs : SUBSET Msgs]]
  /\ refs \in [Msgs -> 0..MaxRefs] /\ mimes \in [Msgs -> 0..MaxRefs]
  /\ dropped \subseteq Folders /\ unearned \in [Msgs -> 0..MaxFrees] /\ blind \in BOOLEAN

\* The counts of a message in the tables are the client's holds on it, by a list,
\* a reference or a reference on its structure, less the references that lost
\* lists took with them: they are released with their lists and were never taken.
\* A message is found by its uid as long as it is there, so the next list
\* continues the same object, and it goes with the release that brings the count
\* to zero: a client that freed no lost list with a message of its own in it
\* holds no message that is gone, and the others hold as many dead ones as that.
RefsCounted ==
  /\ TypeOK
  /\ dropped = {} /\ ~con.fault =>
       \A m \in Msgs :
         CASE msg[m].state = "live" ->
                /\ Found(m) /\ uid_hash[msg[m].folder][msg[m].uid] = m
                /\ msg[m].ref_count = Holds(m) - unearned[m]
                /\ msg[m].mime_ref_count = mimes[m]
                /\ mimes[m] > 0 => msg[m].mime
           [] msg[m].state = "freed" -> Holds(m) = unearned[m]
           [] OTHER -> Holds(m) = 0

\* Sessions are closed behind the backs of folders that share them.  However
\* connections break and come back, a folder that the engine does not know to
\* have lost its session is connected, and its messages point to the session
\* that is open now.  The lists of a pop3 storage break this.
SessionsCurrent ==
  driver # "pop3" /\ ~con.fault =>
    \A f \in con.ref : ~con.lost[f] =>
      con.fld[f] /\ \A m \in InHash(f) : msg[m].session = "open"

\* A call follows a pointer to a message, a reference or a session that is gone
\* in four cases only: a failed reconnection freed the tables of a folder under
\* the client; lists of a pop3 storage closed the session of older messages; a
\* lost list was freed through the engine; or the client used a folder whose
\* session was closed behind it, by a failed call for another folder or for the
\* storage, and did not connect it again.
NoFault ==
  dropped = {} /\ driver # "pop3" /\ (\A m \in Msgs : unearned[m] = 0) /\ ~blind => ~con.fault
=============================================================================
