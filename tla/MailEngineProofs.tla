-------------------------- MODULE MailEngineProofs --------------------------
(***************************************************************************)
(* The engine's sessions and reference counts, for any folders, any uids   *)
(* and any number of messages, lists and references.                       *)
(***************************************************************************)
EXTENDS MailEngine, FiniteSetTheorems, TLAPS

-----------------------------------------------------------------------------
\* The inductive invariant.

\* The types, but for the sign of the second counter.
FullMessages ==
  [state : {"live", "orphan"}, folder : Folders, uid : Uids,
   ref_count : Int, mime_ref_count : Int, mime : BOOLEAN,
   session : {"open", "closed"}]
NoMessages == [state : {"none", "freed"}]
AllLists == [of : {"none"}] \cup [of : Folders, lost : BOOLEAN, msgs : SUBSET Msgs]

Shaped ==
  /\ driver \in Drivers
  /\ con \in Connections /\ con.cut = {} /\ con.restored = {}
  /\ msg \in [Msgs -> NoMessages \cup FullMessages]
  /\ uid_hash \in [Folders -> [Uids -> Msgs \cup {NoMsg}]]
  /\ hash_lock \in {"free", "held"}
  /\ lists \in [1..MaxLists -> AllLists]
  /\ refs \in [Msgs -> 0..MaxRefs] /\ mimes \in [Msgs -> 0..MaxRefs]
  /\ dropped \subseteq Folders /\ unearned \in [Msgs -> 0..MaxFrees] /\ blind \in BOOLEAN

\* msg_hash and uid_hash of a folder have the same messages.
Tables ==
  /\ \A m \in Msgs : msg[m].state = "live" =>
       msg[m].folder \in con.ref /\ uid_hash[msg[m].folder][msg[m].uid] = m
  /\ \A f \in Folders, u \in Uids : uid_hash[f][u] # NoMsg =>
       LET m == uid_hash[f][u] IN msg[m].state = "live" /\ msg[m].folder = f /\ msg[m].uid = u

\* A list has messages of its folder.
Belongs(m, f) ==
  /\ msg[m].state # "none"
  /\ msg[m].state \in {"live", "orphan"} => msg[m].folder = f
ListsBelong ==
  \A i \in 1..MaxLists : lists[i].of # "none" =>
    \A m \in lists[i].msgs : Belongs(m, lists[i].of)

\* lost_session is set for the folders that have no session and for no other;
\* the messages of the others have the session that is open.
Sessions ==
  driver # "pop3" /\ ~con.fault =>
    \A f \in con.ref :
      /\ con.lost[f] <=> ~con.fld[f]
      /\ ~con.lost[f] => \A m \in Msgs : msg[m].state = "live" /\ msg[m].folder = f =>
                           msg[m].session = "open"

\* A storage lists no folder without a folder_ref_info.
Linked == dropped = {} /\ ~con.fault => Shared(con) \subseteq con.ref

TablesInv == Shaped /\ Tables /\ ListsBelong /\ Sessions /\ Linked

\* The counters of a message are the client's holds on it, less what lost lists
\* released.
Counted(m) ==
  /\ msg[m].state = "live" =>
       /\ msg[m].ref_count = Holds(m) - unearned[m] /\ msg[m].mime_ref_count = mimes[m]
       /\ mimes[m] > 0 => msg[m].mime
  /\ msg[m].state = "none" => Holds(m) = 0 /\ unearned[m] = 0
  /\ msg[m].state = "freed" => Holds(m) = unearned[m]
  /\ msg[m].state = "orphan" /\ Holds(m) > 0 => msg[m].folder \in dropped

Counts ==
  /\ \A m \in Msgs : msg[m].state \in {"live", "orphan"} => msg[m].mime_ref_count >= 0
  /\ ~con.fault => \A m \in Msgs : Counted(m)

CountsInv == TablesInv /\ Counts /\ NoFault

-----------------------------------------------------------------------------
\* Connections, field by field.

OnlySto(c, d) ==
  /\ d \in Connections
  /\ d.fld = c.fld /\ d.fsh = c.fsh /\ d.ref = c.ref /\ d.lost = c.lost
  /\ d.cut = c.cut /\ d.restored = c.restored /\ d.fault = c.fault

LEMMA OutcomeFields ==
  ASSUME NEW r, NEW c
  PROVE  Outcome(r, c).r = r /\ Outcome(r, c).c = c
BY DEF Outcome

LEMMA ConnectionFields ==
  ASSUME NEW c \in Connections
  PROVE  /\ c.sto \in BOOLEAN /\ c.fld \in [Folders -> BOOLEAN]
         /\ c.fsh \in [Folders -> BOOLEAN] /\ c.ref \in SUBSET Folders
         /\ c.lost \in [Folders -> BOOLEAN] /\ c.cut \in SUBSET Folders
         /\ c.restored \in SUBSET Folders /\ c.fault \in BOOLEAN
BY DEF Connections

LEMMA FailuresFields ==
  ASSUME NEW c, NEW o \in Failures(c)
  PROVE  o.c = c /\ o.r \in {"stream", "error"}
BY DEF Failures, Outcome

LEMMA SetSto ==
  ASSUME NEW c \in Connections
  PROVE  OnlySto(c, [c EXCEPT !.sto = TRUE])
BY DEF Connections, OnlySto

LEMMA MailstorageConnectFields ==
  ASSUME NEW c \in Connections, NEW o \in MailstorageConnect(c)
  PROVE  OnlySto(c, o.c) /\ o.r \in {"ok", "stream", "error"}
<1>1. OnlySto(c, c)
  BY DEF OnlySto
<1>2. CASE o \in Failures(c)
  BY <1>1, <1>2, FailuresFields
<1>3. CASE o = Outcome("ok", c) \/ o = Outcome("error", c)
  BY <1>1, <1>3, OutcomeFields
<1>4. CASE o = Outcome("ok", [c EXCEPT !.sto = TRUE])
  BY <1>4, SetSto, OutcomeFields
<1>5. QED
  BY <1>2, <1>3, <1>4 DEF MailstorageConnect

Plugged(c, d, f, b) ==
  /\ d \in Connections
  /\ d.fld = [c.fld EXCEPT ![f] = TRUE] /\ d.fsh = [c.fsh EXCEPT ![f] = b]
  /\ d.ref = c.ref /\ d.lost = c.lost
  /\ d.cut = c.cut /\ d.restored = c.restored /\ d.fault = c.fault

LEMMA SetConnected ==
  ASSUME NEW c \in Connections, NEW f \in Folders, SharedSession(f) \in BOOLEAN, NEW d,
         d = [c EXCEPT !.fld[f] = TRUE, !.fsh[f] = SharedSession(f)]
  PROVE  Plugged(c, d, f, SharedSession(f))
<1> DEFINE b == SharedSession(f)
<1>1. /\ d.fld = [c.fld EXCEPT ![f] = TRUE] /\ d.fsh = [c.fsh EXCEPT ![f] = b]
      /\ d.ref = c.ref /\ d.lost = c.lost /\ d.sto = c.sto
      /\ d.cut = c.cut /\ d.restored = c.restored /\ d.fault = c.fault
  BY DEF Connections
<1>2. d = [sto |-> c.sto, fld |-> d.fld, fsh |-> d.fsh, ref |-> c.ref, lost |-> c.lost,
           cut |-> c.cut, restored |-> c.restored, fault |-> c.fault]
  BY DEF Connections
<1>3. d.fld \in [Folders -> BOOLEAN] /\ d.fsh \in [Folders -> BOOLEAN]
  BY <1>1, ConnectionFields
<1>4. d \in Connections
  BY <1>2, <1>3, ConnectionFields DEF Connections
<1>5. QED
  BY <1>1, <1>4 DEF Plugged

\* A failed mailfolder_connect leaves everything as it was.
LEMMA MailfolderConnectFields ==
  ASSUME NEW c \in Connections, NEW f \in Folders, NEW o \in MailfolderConnect(c, f)
  PROVE  /\ o.c \in Connections /\ o.r \in {"ok", "stream", "error"}
         /\ o.r # "ok" => o.c = c
         /\ \A g \in Folders \ {f} : o.c.fld[g] = c.fld[g] /\ o.c.fsh[g] = c.fsh[g]
         /\ c.fld[f] => o.c.fld[f]
         /\ o.c.ref = c.ref /\ o.c.lost = c.lost
         /\ o.c.cut = c.cut /\ o.c.restored = c.restored /\ o.c.fault = c.fault
<1> DEFINE d == [c EXCEPT !.fld[f] = TRUE, !.fsh[f] = SharedSession(f)]
<1>1. CASE o.c = c /\ o.r \in {"ok", "stream", "error"}
  BY <1>1
<1>2. CASE o = Outcome("ok", d)
  <2>1. SharedSession(f) \in BOOLEAN
    BY DEF SharedSession
  <2>2. PICK e : e = d
    OBVIOUS
  <2>3. Plugged(c, e, f, SharedSession(f))
    BY <2>1, <2>2, SetConnected
  <2>4. o.c = e /\ o.r = "ok"
    BY <1>2, <2>2, OutcomeFields
  <2>5. QED
    BY <2>1, <2>3, <2>4, ConnectionFields DEF Plugged
<1>3. \/ o = Outcome("ok", d) \/ o = Outcome("ok", c) \/ o \in Failures(c)
  BY DEF MailfolderConnect
<1>4. QED
  BY <1>1, <1>2, <1>3, OutcomeFields, FailuresFields

Closed(c, d) ==
  /\ d.fsh = c.fsh /\ d.ref = c.ref /\ d.restored = c.restored
  /\ IF Shared(c) \subseteq c.ref
       THEN /\ d.fault = c.fault /\ d.cut = c.cut \cup Shared(c)
            /\ d.fld = [g \in Folders |-> c.fld[g] /\ g \notin Shared(c)]
            /\ d.lost = [g \in Folders |-> c.lost[g] \/ g \in Shared(c)]
       ELSE d.fault = TRUE /\ d.fld = c.fld /\ d.lost = c.lost /\ d.cut = c.cut

LEMMA SharedType ==
  ASSUME NEW c
  PROVE  Shared(c) \in SUBSET Folders
BY DEF Shared

LEMMA DoStorageDisconnectFields ==
  ASSUME NEW c \in Connections
  PROVE  DoStorageDisconnect(c) \in Connections /\ Closed(c, DoStorageDisconnect(c))
<1> DEFINE lo == [g \in Folders |-> c.lost[g] \/ g \in Shared(c)]
           l == [c EXCEPT !.lost = lo]
<1>1. lo \in [Folders -> BOOLEAN]
  BY ConnectionFields
<1>2. PICK e : e = l
  OBVIOUS
<1>3. /\ e \in Connections /\ e.lost = lo
      /\ e.sto = c.sto /\ e.fld = c.fld /\ e.fsh = c.fsh /\ e.ref = c.ref
      /\ e.cut = c.cut /\ e.restored = c.restored /\ e.fault = c.fault
  <2> HIDE DEF lo
  <2>1. QED
    BY <1>1, <1>2 DEF Connections
<1>4. Shared(e) = Shared(c)
  BY <1>3 DEF Shared
<1>5. PICK d : d = MailstorageDisconnect(e)
  OBVIOUS
<1>6. PICK fl : fl = [g \in Folders |-> c.fld[g] /\ g \notin Shared(c)]
  OBVIOUS
<1>7. fl \in [Folders -> BOOLEAN]
  BY <1>6, ConnectionFields
<1>8. d = [e EXCEPT !.fld = fl, !.cut = c.cut \cup Shared(c), !.sto = FALSE]
  BY <1>3, <1>4, <1>5, <1>6 DEF MailstorageDisconnect
<1>9. /\ d \in Connections /\ d.lost = lo /\ d.fld = fl /\ d.cut = c.cut \cup Shared(c)
      /\ d.fsh = c.fsh /\ d.ref = c.ref /\ d.restored = c.restored /\ d.fault = c.fault
  <2> HIDE DEF lo
  <2>1. c.cut \cup Shared(c) \in SUBSET Folders
    BY SharedType, ConnectionFields
  <2>2. PICK cu : cu = c.cut \cup Shared(c)
    OBVIOUS
  <2>3. d = [e EXCEPT !.fld = fl, !.cut = cu, !.sto = FALSE] /\ cu \in SUBSET Folders
    BY <1>8, <2>1, <2>2
  <2>4. QED
    BY <1>3, <1>7, <2>2, <2>3 DEF Connections
<1>10. CASE Shared(c) \subseteq c.ref
  <2>1. DoStorageDisconnect(c) = d
    BY <1>10, <1>2, <1>5 DEF DoStorageDisconnect
  <2>2. QED
    BY <1>6, <1>9, <1>10, <2>1 DEF Closed
<1>11. CASE ~(Shared(c) \subseteq c.ref)
  <2>1. PICK x : x = [c EXCEPT !.fault = TRUE]
    OBVIOUS
  <2>2. /\ x \in Connections /\ x.lost = c.lost /\ x.fld = c.fld /\ x.cut = c.cut
        /\ x.fsh = c.fsh /\ x.ref = c.ref /\ x.restored = c.restored /\ x.fault = TRUE
    BY <2>1 DEF Connections
  <2>3. DoStorageDisconnect(c) = x
    BY <1>11, <2>1 DEF DoStorageDisconnect
  <2>4. QED
    BY <1>11, <2>2, <2>3 DEF Closed
<1>12. QED
  BY <1>10, <1>11

\* mailfolder_disconnect after lost_session was set
Cut(c, d, f) ==
  /\ d \in Connections
  /\ d.fsh = c.fsh /\ d.ref = c.ref /\ d.restored = c.restored /\ d.fault = c.fault
  /\ d.fld = [c.fld EXCEPT ![f] = FALSE]
  /\ d.lost = [c.lost EXCEPT ![f] = TRUE]
  /\ d.cut = IF c.fld[f] THEN c.cut \cup {f} ELSE c.cut

LEMMA MailfolderDisconnectFields ==
  ASSUME NEW c \in Connections, NEW f \in Folders
  PROVE  Cut(c, MailfolderDisconnect([c EXCEPT !.lost[f] = TRUE], f), f)
<1>1. PICK e : e = [c EXCEPT !.lost[f] = TRUE]
  OBVIOUS
<1>2. /\ e.lost = [c.lost EXCEPT ![f] = TRUE]
      /\ e.sto = c.sto /\ e.fld = c.fld /\ e.fsh = c.fsh /\ e.ref = c.ref
      /\ e.cut = c.cut /\ e.restored = c.restored /\ e.fault = c.fault
  BY <1>1 DEF Connections
<1>3. e \in Connections
  <2>1. e = [sto |-> c.sto, fld |-> c.fld, fsh |-> c.fsh, ref |-> c.ref, lost |-> e.lost,
             cut |-> c.cut, restored |-> c.restored, fault |-> c.fault]
    BY <1>1 DEF Connections
  <2>2. e.lost \in [Folders -> BOOLEAN]
    BY <1>2, ConnectionFields
  <2>3. QED
    BY <2>1, <2>2, ConnectionFields DEF Connections
<1>4. CASE ~c.fld[f]
  <2>1. c.fld = [c.fld EXCEPT ![f] = FALSE]
    <3>1. c.fld \in [Folders -> BOOLEAN]
      BY ConnectionFields
    <3>2. c.fld[f] = FALSE
      BY <1>4, <3>1
    <3>3. QED
      BY <3>1, <3>2
  <2>2. QED
    BY <1>1, <1>2, <1>3, <1>4, <2>1 DEF Cut, MailfolderDisconnect
<1>5. CASE c.fld[f]
  <2>1. PICK d : d = [e EXCEPT !.fld[f] = FALSE, !.cut = @ \cup {f}]
    OBVIOUS
  <2>2. MailfolderDisconnect(e, f) = d
    BY <1>2, <1>5, <2>1 DEF MailfolderDisconnect
  <2>3. /\ d.lost = e.lost /\ d.sto = e.sto /\ d.fsh = e.fsh /\ d.ref = e.ref
        /\ d.restored = e.restored /\ d.fault = e.fault
        /\ d.fld = [e.fld EXCEPT ![f] = FALSE] /\ d.cut = e.cut \cup {f}
    BY <2>1, <1>3 DEF Connections
  <2>4. d = [sto |-> e.sto, fld |-> d.fld, fsh |-> e.fsh, ref |-> e.ref, lost |-> e.lost,
             cut |-> d.cut, restored |-> e.restored, fault |-> e.fault]
    BY <2>1, <1>3 DEF Connections
  <2>5. d.fld \in [Folders -> BOOLEAN] /\ d.cut \in SUBSET Folders
    BY <1>3, <2>3, ConnectionFields
  <2>6. d \in Connections
    BY <1>3, <2>4, <2>5, ConnectionFields DEF Connections
  <2>7. QED
    BY <1>1, <1>2, <1>5, <2>2, <2>3, <2>6 DEF Cut
<1>6. QED
  BY <1>4, <1>5

Restored(c, d) ==
  /\ d \in Connections
  /\ d.fld = c.fld /\ d.fsh = c.fsh /\ d.ref = c.ref /\ d.cut = c.cut /\ d.fault = c.fault
  /\ d.restored = c.restored \cup Restorable(c)
  /\ d.lost = [g \in Folders |-> c.lost[g] /\ g \notin Restorable(c)]

LEMMA RestoreFields ==
  ASSUME NEW c \in Connections
  PROVE  Restored(c, Restore(c))
<1>1. PICK lo : lo = [g \in Folders |-> c.lost[g] /\ g \notin Restorable(c)]
  OBVIOUS
<1>2. PICK re : re = c.restored \cup Restorable(c)
  OBVIOUS
<1>3. lo \in [Folders -> BOOLEAN] /\ re \in SUBSET Folders
  BY <1>1, <1>2, ConnectionFields DEF Restorable
<1>4. PICK d : d = [c EXCEPT !.restored = re, !.lost = lo]
  OBVIOUS
<1>5. Restore(c) = d
  BY <1>1, <1>2, <1>4 DEF Restore
<1>6. /\ d \in Connections /\ d.fld = c.fld /\ d.fsh = c.fsh /\ d.ref = c.ref
      /\ d.cut = c.cut /\ d.fault = c.fault /\ d.restored = re /\ d.lost = lo
  BY <1>3, <1>4 DEF Connections
<1>7. QED
  BY <1>1, <1>2, <1>5, <1>6 DEF Restored

Removed(c, d, f) ==
  /\ d \in Connections
  /\ d.fld = c.fld /\ d.fsh = c.fsh /\ d.cut = c.cut /\ d.restored = c.restored
  /\ d.fault = c.fault /\ d.ref = c.ref \ {f} /\ d.lost = [c.lost EXCEPT ![f] = FALSE]

LEMMA RemoveRefFields ==
  ASSUME NEW c \in Connections, NEW f \in Folders, ~c.fault
  PROVE  Removed(c, RemoveRef(c, f), f)
<1>1. PICK d : d = [c EXCEPT !.ref = @ \ {f}, !.lost[f] = FALSE]
  OBVIOUS
<1>2. RemoveRef(c, f) = d
  BY <1>1 DEF RemoveRef
<1>3. /\ d.fld = c.fld /\ d.fsh = c.fsh /\ d.cut = c.cut /\ d.restored = c.restored
      /\ d.fault = c.fault /\ d.ref = c.ref \ {f} /\ d.lost = [c.lost EXCEPT ![f] = FALSE]
  BY <1>1 DEF Connections
<1>4. d = [sto |-> c.sto, fld |-> c.fld, fsh |-> c.fsh, ref |-> d.ref, lost |-> d.lost,
           cut |-> c.cut, restored |-> c.restored, fault |-> c.fault]
  BY <1>1 DEF Connections
<1>5. d.ref \in SUBSET Folders /\ d.lost \in [Folders -> BOOLEAN]
  BY <1>3, ConnectionFields
<1>6. d \in Connections
  BY <1>4, <1>5, ConnectionFields DEF Connections
<1>7. QED
  BY <1>2, <1>3, <1>6 DEF Removed

-----------------------------------------------------------------------------
\* What holds of the connections during a call that began with c0.  The
\* folders in F may have a session that they do not know of yet.

\* Folder g has a session, and it is new to its messages or the one they had.
Current(c0, c, g) ==
  c.fld[g] /\ (g \in c.restored \/ (g \notin c.cut /\ g \in c0.ref /\ ~c0.lost[g]))

Steady(c0, c, F) ==
  driver # "pop3" /\ ~c.fault =>
    \A g \in c.ref : /\ ~c.lost[g] => Current(c0, c, g)
                     /\ g \notin F /\ c.lost[g] => ~c.fld[g]

Sound(c) == ~c.fault /\ Shared(c) \subseteq c.ref

During(c0, c, F) ==
  /\ c \in Connections
  /\ Steady(c0, c, F)
  /\ Sound(c0) => Sound(c)

LEMMA OnlyStoDuring ==
  ASSUME NEW c0, NEW F, NEW c, During(c0, c, F), NEW d, OnlySto(c, d)
  PROVE  During(c0, d, F) /\ Shared(d) = Shared(c)
BY DEF During, OnlySto, Steady, Current, Sound, Shared

LEMMA MailstorageConnectDuring ==
  ASSUME NEW c0, NEW F, NEW c, During(c0, c, F), NEW o \in MailstorageConnect(c)
  PROVE  /\ During(c0, o.c, F) /\ Shared(o.c) = Shared(c)
         /\ o.c.ref = c.ref /\ o.c.fault = c.fault
<1>1. OnlySto(c, o.c)
  BY MailstorageConnectFields DEF During
<1>2. QED
  BY <1>1, OnlyStoDuring DEF OnlySto

LEMMA MailfolderConnectDuring ==
  ASSUME NEW c0, NEW c, NEW f \in Folders, During(c0, c, {f}), f \in c.ref,
         NEW o \in MailfolderConnect(c, f)
  PROVE  /\ During(c0, o.c, {f}) /\ o.c.ref = c.ref /\ o.c.fault = c.fault
         /\ o.r # "ok" => Shared(o.c) = Shared(c)
<1>1. c \in Connections
  BY DEF During
<1>2. PICK d : d = o.c
  OBVIOUS
<1>3. /\ d \in Connections
      /\ o.r # "ok" => d = c
      /\ \A g \in Folders \ {f} : d.fld[g] = c.fld[g] /\ d.fsh[g] = c.fsh[g]
      /\ c.fld[f] => d.fld[f]
      /\ d.ref = c.ref /\ d.lost = c.lost
      /\ d.cut = c.cut /\ d.restored = c.restored /\ d.fault = c.fault
  BY <1>1, <1>2, MailfolderConnectFields
<1>4. Sound(c) => Sound(d)
  BY <1>3 DEF Sound, Shared
<1>5. Steady(c0, d, {f})
  BY <1>1, <1>3, ConnectionFields DEF During, Steady, Current
<1>6. QED
  BY <1>2, <1>3, <1>4, <1>5 DEF During

LEMMA DoStorageDisconnectDuring ==
  ASSUME NEW c0, NEW F, NEW c, During(c0, c, F), NEW d, d = DoStorageDisconnect(c)
  PROVE  During(c0, d, F) /\ d.ref = c.ref /\ Shared(d) \subseteq Shared(c)
<1>1. c \in Connections
  BY DEF During
<1>2. d \in Connections /\ Closed(c, d)
  BY <1>1, DoStorageDisconnectFields
<1>3. Shared(d) \subseteq Shared(c)
  BY <1>2 DEF Closed, Shared
<1>4. Sound(c) => Sound(d)
  BY <1>2, <1>3 DEF Closed, Sound
<1>5. Steady(c0, d, F)
  <2>1. CASE Shared(c) \subseteq c.ref
    <3>1. SUFFICES ASSUME driver # "pop3", ~d.fault, NEW g \in d.ref
                   PROVE  /\ ~d.lost[g] => Current(c0, d, g)
                          /\ g \notin F /\ d.lost[g] => ~d.fld[g]
      BY DEF Steady
    <3>2. g \in Folders /\ g \in c.ref /\ ~c.fault
      BY <1>1, <1>2, <2>1, <3>1, ConnectionFields DEF Closed
    <3>3. /\ ~c.lost[g] => Current(c0, c, g)
          /\ g \notin F /\ c.lost[g] => ~c.fld[g]
      BY <3>1, <3>2 DEF During, Steady
    <3>4. /\ d.fld[g] <=> c.fld[g] /\ g \notin Shared(c)
          /\ d.lost[g] <=> c.lost[g] \/ g \in Shared(c)
          /\ d.cut = c.cut \cup Shared(c) /\ d.restored = c.restored
      BY <1>2, <2>1, <3>2 DEF Closed
    <3>5. QED
      BY <3>3, <3>4 DEF Current
  <2>2. CASE ~(Shared(c) \subseteq c.ref)
    BY <1>2, <2>2 DEF Closed, Steady
  <2>3. QED
    BY <2>1, <2>2
<1>6. QED
  BY <1>2, <1>3, <1>4, <1>5 DEF During, Closed

LEMMA FolderDisconnectDuring ==
  ASSUME NEW c0, NEW c, NEW f \in Folders, During(c0, c, {f}), NEW d, d = FolderDisconnect(c, f)
  PROVE  /\ During(c0, d, {f}) /\ d.ref = c.ref /\ Shared(d) \subseteq Shared(c)
         /\ f \notin Shared(d)
<1>1. c \in Connections
  BY DEF During
<1>2. PICK e : e = MailfolderDisconnect([c EXCEPT !.lost[f] = TRUE], f)
  OBVIOUS
<1>3. Cut(c, e, f)
  BY <1>1, <1>2, MailfolderDisconnectFields
<1>4. Shared(e) = Shared(c) \ {f}
  BY <1>1, <1>3, ConnectionFields DEF Cut, Shared
<1>5. Sound(c) => Sound(e)
  BY <1>3, <1>4 DEF Cut, Sound
<1>6. Steady(c0, e, {f})
  BY <1>1, <1>3, ConnectionFields DEF During, Steady, Current, Cut
<1>7. During(c0, e, {f})
  BY <1>3, <1>5, <1>6 DEF During, Cut
<1>8. d = IF e.fsh[f] THEN DoStorageDisconnect(e) ELSE e
  BY <1>2 DEF FolderDisconnect
<1>9. During(c0, d, {f}) /\ d.ref = e.ref /\ Shared(d) \subseteq Shared(e)
  BY <1>7, <1>8, DoStorageDisconnectDuring
<1>10. QED
  BY <1>3, <1>4, <1>9 DEF Cut

LEMMA FolderConnectDuring ==
  ASSUME NEW c0, NEW c, NEW f \in Folders, During(c0, c, {f}), ~c.fault, f \in c.ref,
         NEW o \in FolderConnect(c, f)
  PROVE  /\ During(c0, o.c, {f}) /\ o.c.ref = c.ref /\ ~o.c.fault
         /\ o.r # "ok" => Shared(o.c) = Shared(c)
<1>1. PICK p \in MailstorageConnect(c) :
        o \in IF p.c.fault THEN {p} ELSE IF p.r = "ok" THEN MailfolderConnect(p.c, f) ELSE {p}
  BY DEF FolderConnect, Then
<1>2. PICK d : d = p.c
  OBVIOUS
<1>3. During(c0, d, {f}) /\ Shared(d) = Shared(c) /\ d.ref = c.ref /\ ~d.fault
  BY <1>2, MailstorageConnectDuring
<1>4. CASE o = p
  BY <1>2, <1>3, <1>4
<1>5. CASE o \in MailfolderConnect(d, f)
  <2>1. f \in d.ref
    BY <1>3
  <2>2. /\ During(c0, o.c, {f}) /\ o.c.ref = d.ref /\ o.c.fault = d.fault
        /\ o.r # "ok" => Shared(o.c) = Shared(d)
    BY <1>3, <1>5, <2>1, MailfolderConnectDuring
  <2>3. QED
    BY <1>3, <2>2
<1>6. QED
  BY <1>1, <1>2, <1>4, <1>5

LEMMA ReconnectDuring ==
  ASSUME NEW c0, NEW f \in Folders, NEW o, During(c0, o.c, {f}), ~o.c.fault, f \in o.c.ref,
         NEW q \in Reconnect(o, f)
  PROVE  /\ During(c0, q.c, {f}) /\ q.c.ref = o.c.ref
         /\ q.r # "ok" => Shared(q.c) \subseteq Shared(o.c)
<1>1. CASE o.r # "stream"
  BY <1>1 DEF Reconnect
<1>2. CASE o.r = "stream"
  <2>1. PICK d : d = FolderDisconnect(o.c, f)
    OBVIOUS
  <2>2. During(c0, d, {f}) /\ d.ref = o.c.ref /\ Shared(d) \subseteq Shared(o.c)
    BY <2>1, FolderDisconnectDuring
  <2>3. PICK p : p = Outcome("stream", d)
    OBVIOUS
  <2>4. q \in IF p.c.fault THEN {p} ELSE FolderConnect(p.c, f)
    BY <1>2, <2>1, <2>3 DEF Reconnect, Then
  <2>5. p.c = d
    BY <2>3, OutcomeFields
  <2>6. CASE q = p
    BY <2>2, <2>5, <2>6
  <2>7. CASE ~d.fault /\ q \in FolderConnect(d, f)
    <3>1. During(c0, q.c, {f}) /\ q.c.ref = d.ref /\ (q.r # "ok" => Shared(q.c) = Shared(d))
      BY <2>2, <2>7, FolderConnectDuring
    <3>2. QED
      BY <2>2, <3>1
  <2>8. QED
    BY <2>4, <2>5, <2>6, <2>7
<1>3. QED
  BY <1>1, <1>2

LEMMA NoopFields ==
  ASSUME NEW c, NEW o \in Noop(c)
  PROVE  o.c = c
BY FailuresFields, OutcomeFields DEF Noop

\* What holds of the connections that a call ends with.
Ended(c0, c) ==
  /\ c \in Connections
  /\ Steady(c0, c, {})
  /\ Sound(c0) => ~c.fault /\ Shared(c) \subseteq c.ref \cup c0.ref

LEMMA DuringEnds ==
  ASSUME NEW c0, NEW c, During(c0, c, {})
  PROVE  Ended(c0, c)
BY DEF During, Ended, Sound

LEMMA FaultEnds ==
  ASSUME NEW c0, NEW F, NEW c, During(c0, c, F), c.fault
  PROVE  Ended(c0, c)
BY DEF During, Ended, Steady, Sound

LEMMA RestoreEnds ==
  ASSUME NEW c0, NEW F, NEW c, During(c0, c, F)
  PROVE  Ended(c0, Restore(c))
<1>1. PICK d : d = Restore(c)
  OBVIOUS
<1>2. c \in Connections
  BY DEF During
<1>3. Restored(c, d)
  BY <1>1, <1>2, RestoreFields
<1>4. Shared(d) = Shared(c)
  BY <1>3 DEF Restored, Shared
<1>5. Steady(c0, d, {})
  <2>1. SUFFICES ASSUME driver # "pop3", ~d.fault, NEW g \in d.ref
                 PROVE  /\ ~d.lost[g] => Current(c0, d, g)
                        /\ g \notin {} /\ d.lost[g] => ~d.fld[g]
    BY DEF Steady
  <2>2. g \in Folders /\ g \in c.ref /\ ~c.fault
    BY <1>2, <1>3, <2>1, ConnectionFields DEF Restored
  <2>3. ~c.lost[g] => Current(c0, c, g)
    BY <2>1, <2>2 DEF During, Steady
  <2>4. /\ d.fld[g] = c.fld[g] /\ (d.lost[g] <=> c.lost[g] /\ g \notin Restorable(c))
        /\ d.cut = c.cut /\ d.restored = c.restored \cup Restorable(c)
    BY <1>3, <2>2 DEF Restored
  <2>5. QED
    BY <2>2, <2>3, <2>4 DEF Current, Restorable
<1>6. QED
  BY <1>1, <1>3, <1>4, <1>5 DEF During, Ended, Sound, Restored

LEMMA RemoveRefEnds ==
  ASSUME NEW c0, NEW f \in Folders, NEW c, During(c0, c, {f}),
         Sound(c0) /\ f \in Shared(c) => f \in c0.ref
  PROVE  Ended(c0, RemoveRef(c, f))
<1>1. CASE c.fault
  BY <1>1, FaultEnds DEF RemoveRef
<1>2. CASE ~c.fault
  <2>1. PICK d : d = RemoveRef(c, f)
    OBVIOUS
  <2>2. c \in Connections
    BY DEF During
  <2>3. Removed(c, d, f)
    BY <1>2, <2>1, <2>2, RemoveRefFields
  <2>4. Shared(d) = Shared(c)
    BY <2>3 DEF Removed, Shared
  <2>5. Steady(c0, d, {})
    <3>1. SUFFICES ASSUME driver # "pop3", ~d.fault, NEW g \in d.ref
                   PROVE  /\ ~d.lost[g] => Current(c0, d, g)
                          /\ g \notin {} /\ d.lost[g] => ~d.fld[g]
      BY DEF Steady
    <3>2. g \in Folders /\ g \in c.ref /\ g # f
      BY <2>2, <2>3, ConnectionFields DEF Removed
    <3>3. /\ ~c.lost[g] => Current(c0, c, g)
          /\ c.lost[g] => ~c.fld[g]
      BY <1>2, <3>1, <3>2 DEF During, Steady
    <3>4. d.lost[g] = c.lost[g]
      BY <2>2, <2>3, <3>2, ConnectionFields DEF Removed
    <3>5. QED
      BY <2>3, <3>3, <3>4 DEF Current, Removed
  <2>6. QED
    BY <2>1, <2>3, <2>4, <2>5 DEF During, Ended, Sound, Removed
<1>3. QED
  BY <1>1, <1>2

\* storage_folder_connect
LEMMA AddedDuring ==
  ASSUME NEW c0, During(c0, c0, {}), NEW f \in Folders, NEW c,
         c = AddRef(c0, f)
  PROVE  /\ During(c0, c, {f}) /\ f \in c.ref /\ c.fault = c0.fault
         /\ Shared(c) = Shared(c0)
<1>1. CASE f \in c0.ref
  BY <1>1 DEF During, Steady, AddRef
<1>2. CASE f \notin c0.ref
  <2>1. c0 \in Connections
    BY DEF During
  <2>2. c = [c0 EXCEPT !.ref = @ \cup {f}, !.lost[f] = TRUE]
    BY <1>2 DEF AddRef
  <2>3. /\ c.fld = c0.fld /\ c.fsh = c0.fsh /\ c.cut = c0.cut /\ c.restored = c0.restored
        /\ c.fault = c0.fault /\ c.ref = c0.ref \cup {f} /\ c.lost = [c0.lost EXCEPT ![f] = TRUE]
    BY <2>1, <2>2 DEF Connections
  <2>4. c = [sto |-> c0.sto, fld |-> c0.fld, fsh |-> c0.fsh, ref |-> c.ref, lost |-> c.lost,
             cut |-> c0.cut, restored |-> c0.restored, fault |-> c0.fault]
    BY <2>1, <2>2 DEF Connections
  <2>5. c.ref \in SUBSET Folders /\ c.lost \in [Folders -> BOOLEAN]
    BY <2>1, <2>3, ConnectionFields
  <2>6. c \in Connections
    BY <2>1, <2>4, <2>5, ConnectionFields DEF Connections
  <2>7. Shared(c) = Shared(c0)
    BY <2>3 DEF Shared
  <2>8. Steady(c0, c, {f})
    <3>1. SUFFICES ASSUME driver # "pop3", ~c.fault, NEW g \in c.ref
                   PROVE  /\ ~c.lost[g] => Current(c0, c, g)
                          /\ g \notin {f} /\ c.lost[g] => ~c.fld[g]
      BY DEF Steady
    <3>2. CASE g = f
      BY <2>1, <2>3, <3>2, ConnectionFields
    <3>3. CASE g # f
      <4>1. g \in c0.ref /\ c.lost[g] = c0.lost[g]
        BY <2>1, <2>3, <3>3, ConnectionFields
      <4>2. /\ ~c0.lost[g] => Current(c0, c0, g)
            /\ c0.lost[g] => ~c0.fld[g]
        BY <2>3, <3>1, <4>1 DEF During, Steady
      <4>3. QED
        BY <2>3, <4>1, <4>2 DEF Current
    <3>4. QED
      BY <3>2, <3>3
  <2>9. QED
    BY <2>3, <2>6, <2>7, <2>8 DEF During, Sound
<1>3. QED
  BY <1>1, <1>2

LEMMA StorageFolderConnectEnds ==
  ASSUME NEW c0, During(c0, c0, {}), ~c0.fault, NEW f \in Folders,
         NEW o \in StorageFolderConnect(c0, f)
  PROVE  Ended(c0, o.c)
<1>1. PICK a : a = AddRef(c0, f)
  OBVIOUS
<1>2. During(c0, a, {f}) /\ f \in a.ref /\ ~a.fault /\ Shared(a) = Shared(c0)
  BY <1>1, AddedDuring
<1> DEFINE first == Then(FolderConnect(a, f), LAMBDA x : Reconnect(x, f))
           tested(x) == Then(Noop(x.c), LAMBDA y : Reconnect(y, f))
           last(y) == IF y.r \in {"ok", "not_implemented"}
                        THEN {Outcome("ok", Restore(y.c))}
                        ELSE {Outcome(y.r, RemoveRef(FolderDisconnect(y.c, f), f))}
           after(x) == IF x.r # "ok" THEN {Outcome(x.r, RemoveRef(x.c, f))}
                       ELSE Then(tested(x), last)
<1>3. o \in Then(first, after)
  BY <1>1 DEF StorageFolderConnect
<1>4. PICK p \in first : o \in IF p.c.fault THEN {p} ELSE after(p)
  BY <1>3 DEF Then
<1>5. /\ During(c0, p.c, {f}) /\ f \in p.c.ref
      /\ p.r # "ok" => Shared(p.c) \subseteq Shared(c0)
  <2>1. PICK x \in FolderConnect(a, f) : p \in IF x.c.fault THEN {x} ELSE Reconnect(x, f)
    BY DEF Then
  <2>2. /\ During(c0, x.c, {f}) /\ x.c.ref = a.ref /\ ~x.c.fault
        /\ x.r # "ok" => Shared(x.c) = Shared(a)
    BY <1>2, FolderConnectDuring
  <2>3. p \in Reconnect(x, f) /\ f \in x.c.ref
    BY <1>2, <2>1, <2>2
  <2>4. /\ During(c0, p.c, {f}) /\ p.c.ref = x.c.ref
        /\ p.r # "ok" => Shared(p.c) \subseteq Shared(x.c)
    BY <2>2, <2>3, ReconnectDuring
  <2>5. CASE x.r = "ok"
    <3>1. p = x
      BY <2>3, <2>5 DEF Reconnect
    <3>2. QED
      BY <1>2, <2>2, <2>5, <3>1
  <2>6. CASE x.r # "ok"
    BY <1>2, <2>2, <2>4, <2>6
  <2>7. QED
    BY <2>5, <2>6
<1>6. CASE p.c.fault
  <2>1. o = p
    BY <1>4, <1>6
  <2>2. QED
    BY <1>5, <1>6, <2>1, FaultEnds
<1>7. CASE ~p.c.fault /\ p.r # "ok"
  <2>1. o = Outcome(p.r, RemoveRef(p.c, f))
    BY <1>4, <1>7
  <2>2. Sound(c0) /\ f \in Shared(p.c) => f \in c0.ref
    BY <1>5, <1>7 DEF Sound
  <2>3. Ended(c0, RemoveRef(p.c, f))
    BY <1>5, <2>2, RemoveRefEnds
  <2>4. QED
    BY <2>1, <2>3, OutcomeFields
<1>8. CASE ~p.c.fault /\ p.r = "ok"
  <2>1. o \in Then(tested(p), last)
    BY <1>4, <1>8
  <2>2. PICK q \in tested(p) : o \in IF q.c.fault THEN {q} ELSE last(q)
    BY <2>1 DEF Then
  <2>3. During(c0, q.c, {f})
    <3>1. PICK y \in Noop(p.c) : q \in IF y.c.fault THEN {y} ELSE Reconnect(y, f)
      BY DEF Then
    <3>2. y.c = p.c
      BY NoopFields
    <3>3. q \in Reconnect(y, f) /\ During(c0, y.c, {f}) /\ ~y.c.fault /\ f \in y.c.ref
      BY <1>5, <1>8, <3>1, <3>2
    <3>4. QED
      BY <3>3, ReconnectDuring
  <2>4. CASE o = q /\ q.c.fault
    BY <2>3, <2>4, FaultEnds
  <2>5. CASE o = Outcome("ok", Restore(q.c))
    BY <2>3, <2>5, RestoreEnds, OutcomeFields
  <2>6. CASE o = Outcome(q.r, RemoveRef(FolderDisconnect(q.c, f), f))
    <3>1. PICK d : d = FolderDisconnect(q.c, f)
      OBVIOUS
    <3>2. During(c0, d, {f}) /\ f \notin Shared(d)
      BY <2>3, <3>1, FolderDisconnectDuring
    <3>3. Ended(c0, RemoveRef(d, f))
      BY <3>2, RemoveRefEnds
    <3>4. QED
      BY <2>6, <3>1, <3>3, OutcomeFields
  <2>7. QED
    BY <2>2, <2>4, <2>5, <2>6
<1>9. QED
  BY <1>6, <1>7, <1>8

\* storage_connect
LEMMA StorageConnectEnds ==
  ASSUME NEW c0, During(c0, c0, {}), NEW o \in StorageConnect(c0)
  PROVE  Ended(c0, o.c)
<1> DEFINE again(x) == Then({Outcome(x.r, DoStorageDisconnect(x.c))},
                            LAMBDA y : MailstorageConnect(y.c))
           finish(x) == IF x.r = "ok" THEN {Outcome("ok", Restore(x.c))}
                        ELSE {Outcome(x.r, DoStorageDisconnect(x.c))}
           first == Then(MailstorageConnect(c0),
                         LAMBDA x : IF x.r = "stream" THEN again(x) ELSE {x})
           tested(x) == Then(Noop(x.c), LAMBDA y :
                               IF y.r \in {"ok", "not_implemented"} THEN {y} ELSE again(y))
           after(x) == IF x.r # "ok" THEN finish(x) ELSE Then(tested(x), finish)
<1>1. o \in Then(first, after)
  BY DEF StorageConnect
<1>2. ASSUME NEW x, During(c0, x.c, {}), NEW y \in again(x)
      PROVE  During(c0, y.c, {})
  <2>1. PICK d : d = DoStorageDisconnect(x.c)
    OBVIOUS
  <2>2. During(c0, d, {})
    BY <1>2, <2>1, DoStorageDisconnectDuring
  <2>3. PICK z : z = Outcome(x.r, d)
    OBVIOUS
  <2>4. y \in IF z.c.fault THEN {z} ELSE MailstorageConnect(z.c)
    BY <2>1, <2>3 DEF Then
  <2>5. z.c = d
    BY <2>3, OutcomeFields
  <2>6. QED
    BY <2>2, <2>4, <2>5, MailstorageConnectDuring
<1>3. ASSUME NEW x, During(c0, x.c, {}), NEW y \in finish(x)
      PROVE  Ended(c0, y.c)
  <2>1. CASE y = Outcome("ok", Restore(x.c))
    BY <1>3, <2>1, RestoreEnds, OutcomeFields
  <2>2. CASE y = Outcome(x.r, DoStorageDisconnect(x.c))
    <3>1. PICK d : d = DoStorageDisconnect(x.c)
      OBVIOUS
    <3>2. During(c0, d, {})
      BY <1>3, <3>1, DoStorageDisconnectDuring
    <3>3. QED
      BY <2>2, <3>1, <3>2, DuringEnds, OutcomeFields
  <2>3. QED
    BY <2>1, <2>2
<1>4. PICK p \in first : o \in IF p.c.fault THEN {p} ELSE after(p)
  BY <1>1 DEF Then
<1>5. During(c0, p.c, {})
  <2>1. PICK x \in MailstorageConnect(c0) :
          p \in IF x.c.fault THEN {x} ELSE IF x.r = "stream" THEN again(x) ELSE {x}
    BY DEF Then
  <2>2. During(c0, x.c, {})
    BY MailstorageConnectDuring
  <2>3. CASE p = x
    BY <2>2, <2>3
  <2>4. CASE p \in again(x)
    BY <2>2, <2>4, <1>2
  <2>5. QED
    BY <2>1, <2>3, <2>4
<1>6. CASE o = p /\ p.c.fault
  BY <1>5, <1>6, FaultEnds
<1>7. CASE o \in finish(p)
  BY <1>3, <1>5, <1>7
<1>8. CASE o \in Then(tested(p), finish)
  <2>1. PICK q \in tested(p) : o \in IF q.c.fault THEN {q} ELSE finish(q)
    BY <1>8 DEF Then
  <2>2. During(c0, q.c, {})
    <3>1. PICK y \in Noop(p.c) :
            q \in IF y.c.fault THEN {y}
                  ELSE IF y.r \in {"ok", "not_implemented"} THEN {y} ELSE again(y)
      BY DEF Then
    <3>2. During(c0, y.c, {})
      BY <1>5, NoopFields
    <3>3. CASE q = y
      BY <3>2, <3>3
    <3>4. CASE q \in again(y)
      BY <3>2, <3>4, <1>2
    <3>5. QED
      BY <3>1, <3>3, <3>4
  <2>3. CASE o = q /\ q.c.fault
    BY <2>2, <2>3, FaultEnds
  <2>4. CASE o \in finish(q)
    BY <2>2, <2>4, <1>3
  <2>5. QED
    BY <2>1, <2>3, <2>4
<1>9. QED
  BY <1>4, <1>6, <1>7, <1>8

\* storage_folder_disconnect
LEMMA StorageFolderDisconnectEnds ==
  ASSUME NEW c0, During(c0, c0, {}), ~c0.fault, NEW f \in Folders
  PROVE  Ended(c0, StorageFolderDisconnect(c0, f))
<1>1. c0 \in Connections
  BY DEF During
<1>2. PICK e : e = MailfolderDisconnect(c0, f)
  OBVIOUS
<1>3. /\ e \in Connections /\ e.fld = [c0.fld EXCEPT ![f] = FALSE] /\ e.fsh = c0.fsh
      /\ e.ref = c0.ref /\ e.lost = c0.lost /\ e.restored = c0.restored /\ ~e.fault
      /\ e.cut \subseteq c0.cut \cup {f}
  <2>1. CASE ~c0.fld[f]
    <3>1. c0.fld = [c0.fld EXCEPT ![f] = FALSE]
      <4>1. c0.fld \in [Folders -> BOOLEAN]
        BY <1>1, ConnectionFields
      <4>2. c0.fld[f] = FALSE
        BY <2>1, <4>1
      <4>3. QED
        BY <4>1, <4>2
    <3>2. QED
      BY <1>1, <1>2, <2>1, <3>1 DEF MailfolderDisconnect
  <2>2. CASE c0.fld[f]
    <3>1. e = [c0 EXCEPT !.fld[f] = FALSE, !.cut = @ \cup {f}]
      BY <1>2, <2>2 DEF MailfolderDisconnect
    <3>2. /\ e.lost = c0.lost /\ e.sto = c0.sto /\ e.fsh = c0.fsh /\ e.ref = c0.ref
          /\ e.restored = c0.restored /\ e.fault = c0.fault
          /\ e.fld = [c0.fld EXCEPT ![f] = FALSE] /\ e.cut = c0.cut \cup {f}
      BY <1>1, <3>1 DEF Connections
    <3>3. e = [sto |-> c0.sto, fld |-> e.fld, fsh |-> c0.fsh, ref |-> c0.ref, lost |-> c0.lost,
               cut |-> e.cut, restored |-> c0.restored, fault |-> c0.fault]
      BY <1>1, <3>1 DEF Connections
    <3>4. e.fld \in [Folders -> BOOLEAN] /\ e.cut \in SUBSET Folders
      BY <1>1, <3>2, ConnectionFields
    <3>5. e \in Connections
      BY <1>1, <3>3, <3>4, ConnectionFields DEF Connections
    <3>6. QED
      BY <3>2, <3>5
  <2>3. QED
    BY <2>1, <2>2
<1>4. PICK d : d = RemoveRef(e, f)
  OBVIOUS
<1>5. Removed(e, d, f)
  BY <1>3, <1>4, RemoveRefFields
<1>6. Shared(d) = Shared(c0) \ {f}
  BY <1>1, <1>3, <1>5, ConnectionFields DEF Removed, Shared
<1>7. Steady(c0, d, {})
  <2>1. SUFFICES ASSUME driver # "pop3", ~d.fault, NEW g \in d.ref
                 PROVE  /\ ~d.lost[g] => Current(c0, d, g)
                        /\ g \notin {} /\ d.lost[g] => ~d.fld[g]
    BY DEF Steady
  <2>2. g \in Folders /\ g \in c0.ref /\ g # f
    BY <1>1, <1>3, <1>5, ConnectionFields DEF Removed
  <2>3. /\ ~c0.lost[g] => Current(c0, c0, g)
        /\ c0.lost[g] => ~c0.fld[g]
    BY <2>1, <2>2 DEF During, Steady
  <2>4. d.lost[g] = c0.lost[g] /\ d.fld[g] = c0.fld[g] /\ d.restored = c0.restored
        /\ (g \in d.cut => g \in c0.cut)
    BY <1>1, <1>3, <1>5, <2>2, ConnectionFields DEF Removed
  <2>5. QED
    BY <2>3, <2>4 DEF Current
<1>8. QED
  BY <1>2, <1>3, <1>4, <1>5, <1>6, <1>7
     DEF StorageFolderDisconnect, Ended, Sound, Removed

\* storage_disconnect
LEMMA StorageDisconnectEnds ==
  ASSUME NEW c0, During(c0, c0, {})
  PROVE  Ended(c0, StorageDisconnect(c0))
<1>1. c0 \in Connections
  BY DEF During
<1>2. PICK fl : fl = [g \in Folders |-> c0.fld[g] /\ g \notin c0.ref]
  OBVIOUS
<1>3. PICK cu : cu = c0.cut \cup {g \in c0.ref : c0.fld[g]}
  OBVIOUS
<1>4. PICK lo : lo = [g \in Folders |-> FALSE]
  OBVIOUS
<1>5. fl \in [Folders -> BOOLEAN] /\ cu \in SUBSET Folders /\ lo \in [Folders -> BOOLEAN]
  BY <1>1, <1>2, <1>3, <1>4, ConnectionFields
<1>6. PICK e : e = [c0 EXCEPT !.fld = fl, !.cut = cu, !.ref = {}, !.lost = lo]
  OBVIOUS
<1>7. e \in Connections /\ e.fld = fl /\ e.fsh = c0.fsh /\ e.ref = {} /\ e.fault = c0.fault
  BY <1>1, <1>5, <1>6 DEF Connections
<1>8. StorageDisconnect(c0) = DoStorageDisconnect(e)
  BY <1>2, <1>3, <1>4, <1>6 DEF StorageDisconnect
<1>9. PICK d : d = DoStorageDisconnect(e)
  OBVIOUS
<1>10. d \in Connections /\ Closed(e, d)
  BY <1>7, <1>9, DoStorageDisconnectFields
<1>11. Steady(c0, d, {})
  BY <1>7, <1>10 DEF Closed, Steady
<1>12. Sound(c0) => Shared(e) = {} /\ ~e.fault
  BY <1>2, <1>7 DEF Sound, Shared
<1>13. Sound(c0) => ~d.fault /\ Shared(d) = {}
  BY <1>7, <1>10, <1>12 DEF Closed, Shared
<1>14. QED
  BY <1>8, <1>9, <1>10, <1>11, <1>13 DEF Ended

-----------------------------------------------------------------------------
\* Messages.

LEMMA MessageFields ==
  ASSUME Shaped, NEW m \in Msgs
  PROVE  \/ msg[m] \in NoMessages /\ msg[m].state \in {"none", "freed"}
         \/ msg[m] \in FullMessages /\ msg[m].state \in {"live", "orphan"}
BY DEF Shaped, NoMessages, FullMessages

LEMMA FullFields ==
  ASSUME NEW x \in FullMessages
  PROVE  /\ x.state \in {"live", "orphan"} /\ x.folder \in Folders /\ x.uid \in Uids
         /\ x.ref_count \in Int /\ x.mime_ref_count \in Int /\ x.mime \in BOOLEAN
         /\ x.session \in {"open", "closed"}
BY DEF FullMessages

SameCounts(x, y) ==
  /\ y \in FullMessages /\ y.folder = x.folder /\ y.uid = x.uid
  /\ y.ref_count = x.ref_count /\ y.mime_ref_count = x.mime_ref_count /\ y.mime = x.mime

After(m, c, y) ==
  IF msg[m].state \in {"live", "orphan"}
    THEN /\ SameCounts(msg[m], y)
         /\ y.state = IF msg[m].folder \in con.ref \ c.ref THEN "orphan" ELSE msg[m].state
         /\ y.session = IF msg[m].folder \in c.restored /\ msg[m].state = "live" THEN "open"
                        ELSE IF msg[m].folder \in c.cut THEN "closed" ELSE msg[m].session
    ELSE y = msg[m]

LEMMA MessageAfterFields ==
  ASSUME Shaped, NEW m \in Msgs, NEW c
  PROVE  After(m, c, MessageAfter(m, c))
<1>1. CASE msg[m].state \notin {"live", "orphan"}
  BY <1>1 DEF After, MessageAfter
<1>2. CASE msg[m].state \in {"live", "orphan"}
  <2>1. PICK x : x = msg[m]
    OBVIOUS
  <2>2. x \in FullMessages
    BY <1>2, <2>1, MessageFields
  <2>3. PICK st : st = IF x.folder \in con.ref \ c.ref THEN "orphan" ELSE x.state
    OBVIOUS
  <2>4. PICK se : se = IF x.folder \in c.restored /\ x.state = "live" THEN "open"
                       ELSE IF x.folder \in c.cut THEN "closed" ELSE x.session
    OBVIOUS
  <2>5. st \in {"live", "orphan"} /\ se \in {"open", "closed"}
    BY <2>2, <2>3, <2>4, FullFields
  <2>6. PICK y : y = [x EXCEPT !.state = st, !.session = se]
    OBVIOUS
  <2>7. /\ y \in FullMessages /\ y.folder = x.folder /\ y.uid = x.uid
        /\ y.ref_count = x.ref_count /\ y.mime_ref_count = x.mime_ref_count /\ y.mime = x.mime
        /\ y.state = st /\ y.session = se
    BY <2>2, <2>5, <2>6 DEF FullMessages
  <2>8. MessageAfter(m, c) = y
    BY <1>2, <2>1, <2>3, <2>4, <2>6 DEF MessageAfter
  <2>9. QED
    BY <1>2, <2>1, <2>3, <2>4, <2>7, <2>8 DEF After, SameCounts
<1>3. QED
  BY <1>1, <1>2

LEMMA AfterType ==
  ASSUME Shaped, NEW m \in Msgs, NEW c, NEW y, After(m, c, y)
  PROVE  y \in NoMessages \cup FullMessages
BY MessageFields DEF After, SameCounts

LEMMA SettledFields ==
  ASSUME NEW c \in Connections, NEW d, d = Settled(c)
  PROVE  /\ d \in Connections /\ d.cut = {} /\ d.restored = {}
         /\ d.fld = c.fld /\ d.fsh = c.fsh /\ d.ref = c.ref /\ d.lost = c.lost
         /\ d.fault = c.fault /\ Shared(d) = Shared(c)
<1>1. /\ d \in Connections /\ d.cut = {} /\ d.restored = {}
      /\ d.fld = c.fld /\ d.fsh = c.fsh /\ d.ref = c.ref /\ d.lost = c.lost
      /\ d.fault = c.fault
  BY DEF Settled, Connections
<1>2. QED
  BY <1>1 DEF Shared

\* The step to c maps each message to what MessageAfter says.
Moved(c) == \A m \in Msgs : After(m, c, msg'[m])

LEMMA ConnectedMoved ==
  ASSUME Shaped, NEW c, Connected(c)
  PROVE  Moved(c) /\ msg' \in [Msgs -> NoMessages \cup FullMessages]
<1>1. msg' = [m \in Msgs |-> MessageAfter(m, c)]
  BY DEF Connected
<1>2. ASSUME NEW m \in Msgs PROVE After(m, c, msg'[m])
  BY <1>1, <1>2, MessageAfterFields
<1>3. ASSUME NEW m \in Msgs PROVE msg'[m] \in NoMessages \cup FullMessages
  BY <1>2, <1>3, AfterType
<1>4. QED
  BY <1>1, <1>2, <1>3 DEF Moved

LEMMA ConnectedShaped ==
  ASSUME Shaped, NEW c \in Connections, Connected(c), blind' \in BOOLEAN
  PROVE  Shaped'
<1>1. msg' \in [Msgs -> NoMessages \cup FullMessages]
  BY ConnectedMoved
<1>2. con' \in Connections /\ con'.cut = {} /\ con'.restored = {}
  BY SettledFields DEF Connected
<1>3. uid_hash' \in [Folders -> [Uids -> Msgs \cup {NoMsg}]]
  BY DEF Connected, Shaped
<1>4. dropped' \subseteq Folders
  <2>1. con.ref \subseteq Folders
    BY ConnectionFields DEF Shaped
  <2>2. QED
    BY <2>1 DEF Connected, Shaped
<1>5. QED
  BY <1>1, <1>2, <1>3, <1>4 DEF Connected, Shaped, clientVars

LEMMA ConnectedTables ==
  ASSUME Shaped, Tables, NEW c \in Connections, Connected(c)
  PROVE  Tables'
<1>1. Moved(c)
  BY ConnectedMoved
<1>2. con'.ref = c.ref
  BY SettledFields DEF Connected
<1>3. \A f \in Folders, u \in Uids :
        uid_hash'[f][u] = IF f \in con.ref \ c.ref THEN NoMsg ELSE uid_hash[f][u]
  BY DEF Connected
<1>4. ASSUME NEW m \in Msgs, msg'[m].state = "live"
      PROVE  msg'[m].folder \in con'.ref /\ uid_hash'[msg'[m].folder][msg'[m].uid] = m
  <2>1. msg[m].state = "live" /\ msg[m].folder \notin con.ref \ c.ref
        /\ msg'[m].folder = msg[m].folder /\ msg'[m].uid = msg[m].uid
    <3>1. After(m, c, msg'[m])
      BY <1>1 DEF Moved
    <3>2. QED
      BY <1>4, <3>1, MessageFields DEF After, SameCounts
  <2>2. msg[m].folder \in con.ref /\ uid_hash[msg[m].folder][msg[m].uid] = m
    BY <2>1 DEF Tables
  <2>3. msg[m].folder \in Folders /\ msg[m].uid \in Uids
    BY <2>1, MessageFields, FullFields
  <2>4. QED
    BY <1>2, <1>3, <2>1, <2>2, <2>3
<1>5. ASSUME NEW f \in Folders, NEW u \in Uids, uid_hash'[f][u] # NoMsg, NEW m, m = uid_hash'[f][u]
      PROVE  msg'[m].state = "live" /\ msg'[m].folder = f /\ msg'[m].uid = u
  <2>1. uid_hash[f][u] = m /\ f \notin con.ref \ c.ref
    BY <1>3, <1>5
  <2>2. m \in Msgs
    BY <1>5, <2>1 DEF Shaped
  <2>3. msg[m].state = "live" /\ msg[m].folder = f /\ msg[m].uid = u
    BY <1>5, <2>1 DEF Tables
  <2>4. After(m, c, msg'[m])
    BY <1>1, <2>2 DEF Moved
  <2>5. QED
    BY <2>1, <2>3, <2>4 DEF After, SameCounts
<1>6. QED
  BY <1>4, <1>5 DEF Tables

LEMMA ConnectedLists ==
  ASSUME Shaped, ListsBelong, NEW c \in Connections, Connected(c)
  PROVE  ListsBelong'
<1>1. Moved(c)
  BY ConnectedMoved
<1>2. lists' = lists
  BY DEF Connected, clientVars
<1>3. ASSUME NEW i \in 1..MaxLists, lists[i].of # "none", NEW m \in lists[i].msgs
      PROVE  Belongs(m, lists[i].of)'
  <2>1. PICK f : f = lists[i].of
    OBVIOUS
  <2>2. m \in Msgs
    BY <1>3 DEF Shaped, AllLists
  <2>3. Belongs(m, f)
    BY <1>3, <2>1 DEF ListsBelong
  <2>4. After(m, c, msg'[m])
    BY <1>1, <2>2 DEF Moved
  <2>5. msg'[m].state # "none" /\ (msg'[m].state \in {"live", "orphan"} => msg'[m].folder = f)
    BY <2>2, <2>3, <2>4, MessageFields, FullFields DEF Belongs, After, SameCounts
  <2>6. QED
    BY <1>2, <2>1, <2>5 DEF Belongs
<1>4. QED
  BY <1>2, <1>3 DEF ListsBelong

LEMMA ConnectedSessions ==
  ASSUME Shaped, Sessions, ~con.fault, NEW c, Ended(con, c), Connected(c)
  PROVE  Sessions'
<1> SUFFICES ASSUME driver' # "pop3", ~con'.fault, NEW f \in con'.ref
             PROVE  /\ con'.lost[f] <=> ~con'.fld[f]
                    /\ ~con'.lost[f] => \A m \in Msgs :
                         msg'[m].state = "live" /\ msg'[m].folder = f => msg'[m].session = "open"
  BY DEF Sessions
<1>1. c \in Connections /\ driver # "pop3"
  BY DEF Ended, Connected
<1>2. /\ con'.ref = c.ref /\ con'.lost = c.lost /\ con'.fld = c.fld /\ con'.fault = c.fault
  BY <1>1, SettledFields DEF Connected
<1>3. /\ ~c.lost[f] => Current(con, c, f)
      /\ c.lost[f] => ~c.fld[f]
  BY <1>1, <1>2 DEF Ended, Steady
<1>4. f \in Folders /\ c.lost[f] \in BOOLEAN /\ c.fld[f] \in BOOLEAN
  BY <1>1, <1>2, ConnectionFields
<1>5. ASSUME ~c.lost[f], NEW m \in Msgs, msg'[m].state = "live", msg'[m].folder = f
      PROVE  msg'[m].session = "open"
  <2>1. Moved(c)
    BY <1>1, ConnectedMoved
  <2>2. After(m, c, msg'[m])
    BY <2>1 DEF Moved
  <2>3. /\ msg[m].state = "live" /\ msg[m].folder = f
        /\ msg'[m].session = IF f \in c.restored THEN "open"
                             ELSE IF f \in c.cut THEN "closed" ELSE msg[m].session
    BY <1>5, <2>2, MessageFields DEF After, SameCounts
  <2>4. CASE f \in c.restored
    BY <2>3, <2>4
  <2>5. CASE f \notin c.restored
    <3>1. f \notin c.cut /\ f \in con.ref /\ ~con.lost[f]
      BY <1>3, <1>5, <2>5 DEF Current
    <3>2. msg[m].session = "open"
      BY <1>1, <2>3, <3>1 DEF Sessions
    <3>3. QED
      BY <2>3, <2>5, <3>1, <3>2
  <2>6. QED
    BY <2>4, <2>5
<1>6. c.lost[f] <=> ~c.fld[f]
  BY <1>3, <1>4 DEF Current
<1>7. QED
  BY <1>2, <1>5, <1>6

LEMMA SoundNow ==
  ASSUME Linked, ~con.fault, dropped = {}
  PROVE  Sound(con)
BY DEF Linked, Sound

LEMMA ConnectedLinked ==
  ASSUME Shaped, Linked, ~con.fault, NEW c, Ended(con, c), Connected(c)
  PROVE  Linked' /\ (dropped' = {} => ~con'.fault)
<1> SUFFICES ASSUME dropped' = {} PROVE Shared(con)' \subseteq con'.ref /\ ~con'.fault
  BY DEF Linked
<1>1. c \in Connections
  BY DEF Ended
<1>2. PICK d : d = Settled(c)
  OBVIOUS
<1>3. con' = d /\ d.ref = c.ref /\ Shared(d) = Shared(c) /\ d.fault = c.fault
  BY <1>1, <1>2, SettledFields DEF Connected
<1>4. dropped = {} /\ {f \in con.ref \ c.ref : ~Quiet(f) \/ f \in Shared(c)} = {}
  BY DEF Connected
<1>5. ~c.fault /\ Shared(c) \subseteq c.ref \cup con.ref
  BY <1>4, SoundNow DEF Ended
<1>6. Shared(c) \subseteq c.ref
  BY <1>4, <1>5
<1>7. Shared(con)' = Shared(d)
  BY <1>3 DEF Shared
<1>8. QED
  BY <1>3, <1>5, <1>6, <1>7

LEMMA ConnectedStep ==
  ASSUME TablesInv, ~con.fault, NEW c, Ended(con, c), Connected(c), blind' \in BOOLEAN
  PROVE  TablesInv'
<1>1. c \in Connections
  BY DEF Ended
<1>2. QED
  BY <1>1, ConnectedShaped, ConnectedTables, ConnectedLists, ConnectedSessions, ConnectedLinked
     DEF TablesInv

\* A call begins with the connections that the last one ended with.
LEMMA BeginsDuring ==
  ASSUME Shaped, Sessions, ~con.fault
  PROVE  During(con, con, {})
<1>1. con \in Connections
  BY DEF Shaped
<1>2. Steady(con, con, {})
  BY DEF Steady, Current, Sessions, Shaped
<1>3. QED
  BY <1>1, <1>2 DEF During

LEMMA ConnectionCalls ==
  ASSUME TablesInv, ~con.fault,
         \/ \E f \in Folders : FolderConnects(f) \/ FolderDisconnects(f)
         \/ StorageConnects \/ StorageDisconnects
  PROVE  \E c : Ended(con, c) /\ Connected(c) /\ UNCHANGED blind
<1>1. During(con, con, {})
  BY BeginsDuring DEF TablesInv
<1>2. ASSUME NEW f \in Folders, FolderConnects(f) PROVE \E c : Ended(con, c) /\ Connected(c) /\ UNCHANGED blind
  <2>1. PICK o \in StorageFolderConnect(con, f) : Connected(o.c) /\ UNCHANGED blind
    BY <1>2 DEF FolderConnects
  <2>2. Ended(con, o.c)
    BY <1>1, StorageFolderConnectEnds
  <2>3. QED
    BY <2>1, <2>2
<1>3. ASSUME NEW f \in Folders, FolderDisconnects(f) PROVE \E c : Ended(con, c) /\ Connected(c) /\ UNCHANGED blind
  BY <1>1, <1>3, StorageFolderDisconnectEnds DEF FolderDisconnects
<1>4. ASSUME StorageConnects PROVE \E c : Ended(con, c) /\ Connected(c) /\ UNCHANGED blind
  <2>1. PICK o \in StorageConnect(con) : Connected(o.c) /\ UNCHANGED blind
    BY <1>4 DEF StorageConnects
  <2>2. Ended(con, o.c)
    BY <1>1, StorageConnectEnds
  <2>3. QED
    BY <2>1, <2>2
<1>5. ASSUME StorageDisconnects PROVE \E c : Ended(con, c) /\ Connected(c) /\ UNCHANGED blind
  BY <1>1, <1>5, StorageDisconnectEnds DEF StorageDisconnects
<1>6. QED
  BY <1>2, <1>3, <1>4, <1>5

-----------------------------------------------------------------------------
\* libetpan_folder_get_msg_list

LEMMA MessagesListEnds ==
  ASSUME Shaped, Sessions, ~con.fault, NEW f \in Folders, f \in con.ref, NEW o \in MessagesList(f)
  PROVE  /\ Ended(con, o.c) /\ o.c.ref = con.ref /\ ~o.c.fault
         /\ driver # "pop3" => o.c = con
<1>1. CASE driver # "pop3"
  <2>1. o.c = con
    BY <1>1 DEF MessagesList, Outcome, Then
  <2>2. QED
    BY <1>1, <2>1, BeginsDuring, DuringEnds
<1>2. CASE driver = "pop3"
  <2>1. PICK d : d = MailstorageDisconnect(con)
    OBVIOUS
  <2>2. con \in Connections
    BY DEF Shaped
  <2>3. d \in Connections /\ d.ref = con.ref /\ ~d.fault /\ Shared(d) = {}
    <3>1. PICK fl : fl = [g \in Folders |-> con.fld[g] /\ g \notin Shared(con)]
      OBVIOUS
    <3>2. PICK cu : cu = con.cut \cup Shared(con)
      OBVIOUS
    <3>3. fl \in [Folders -> BOOLEAN] /\ cu \in SUBSET Folders
      BY <2>2, <3>1, <3>2, SharedType, ConnectionFields
    <3>4. d = [con EXCEPT !.fld = fl, !.cut = cu, !.sto = FALSE]
      BY <2>1, <3>1, <3>2 DEF MailstorageDisconnect
    <3>5. /\ d \in Connections /\ d.ref = con.ref /\ d.fault = con.fault
          /\ d.fld = fl /\ d.fsh = con.fsh
      BY <2>2, <3>3, <3>4 DEF Connections
    <3>6. QED
      BY <3>1, <3>5 DEF Shared
  <2>4. During(con, d, {f})
    BY <1>2, <2>3 DEF During, Steady, Sound
  <2>5. PICK p \in MailstorageConnect(d) :
          o \in IF p.c.fault THEN {p} ELSE IF p.r = "ok" THEN MailfolderConnect(p.c, f) ELSE {p}
    BY <1>2, <2>1 DEF MessagesList, Then
  <2>6. PICK e : e = p.c
    OBVIOUS
  <2>7. During(con, e, {f}) /\ e.ref = con.ref /\ ~e.fault
    BY <2>3, <2>4, <2>6, MailstorageConnectDuring
  <2>8. CASE o = p
    BY <1>2, <2>6, <2>7, <2>8 DEF During, Ended, Sound, Steady
  <2>9. CASE o \in MailfolderConnect(e, f)
    <3>1. f \in e.ref
      BY <2>7
    <3>2. During(con, o.c, {f}) /\ o.c.ref = e.ref /\ o.c.fault = e.fault
      BY <2>7, <2>9, <3>1, MailfolderConnectDuring, ZenonT(60)
    <3>3. QED
      BY <1>2, <2>7, <3>2 DEF During, Ended, Sound, Steady
  <2>10. QED
    BY <2>5, <2>6, <2>8, <2>9
<1>3. QED
  BY <1>1, <1>2

\* Message y is message x with k more references.
Kept(x, y, k) ==
  /\ y \in FullMessages /\ y.state = x.state /\ y.folder = x.folder /\ y.uid = x.uid
  /\ y.mime_ref_count = x.mime_ref_count /\ y.mime = x.mime
  /\ y.ref_count = x.ref_count + k

News(f, obj) == {obj[u] : u \in DOMAIN obj}

\* What Listed makes of message m
Relisted(m, f, obj, y) ==
  CASE m \in News(f, obj) /\ msg[m].state = "none" ->
         \E u \in DOMAIN obj : obj[u] = m /\ y = NewMessage(f, u)
    [] m \in News(f, obj) /\ msg[m].state # "none" ->
         msg[m].state = "live" /\ msg[m].folder = f /\ Kept(msg[m], y, 1)
    [] m \notin News(f, obj) /\ msg[m].state \in {"live", "orphan"} -> Kept(msg[m], y, 0)
    [] OTHER -> y = msg[m]

\* The objects of a list: those of the hash, and unused ones.
LEMMA ObjectsFields ==
  ASSUME Shaped, Tables, NEW f \in Folders, NEW obj \in Objects(f), NEW u \in DOMAIN obj
  PROVE  /\ obj[u] \in Msgs /\ u \in Uids
         /\ IF uid_hash[f][u] # NoMsg
              THEN /\ obj[u] = uid_hash[f][u] /\ msg[obj[u]].state = "live"
                   /\ msg[obj[u]].folder = f /\ msg[obj[u]].uid = u
              ELSE msg[obj[u]].state = "none"
         /\ \A v \in DOMAIN obj : obj[u] = obj[v] => u = v
<1>1. u \in Uids
  BY DEF Objects
<1>2. obj[u] \in Msgs
  BY DEF Objects
<1>3. IF uid_hash[f][u] # NoMsg THEN obj[u] = uid_hash[f][u] ELSE obj[u] \in Unused
  BY DEF Objects
<1>4. CASE uid_hash[f][u] # NoMsg
  BY <1>1, <1>2, <1>3, <1>4 DEF Tables, Objects
<1>5. CASE uid_hash[f][u] = NoMsg
  BY <1>1, <1>2, <1>3, <1>5 DEF Unused, Objects
<1>6. QED
  BY <1>4, <1>5

LEMMA ListedMessage ==
  ASSUME Shaped, Tables, NEW f \in Folders, NEW c, c.ref = con.ref, NEW obj \in Objects(f),
         NEW i, NEW j, Listed(f, c, obj, i, j), NEW m \in Msgs
  PROVE  /\ Relisted(m, f, obj, msg'[m])
         /\ c = con /\ msg[m].state \in {"live", "orphan"} => msg'[m].session = msg[m].session
<1>1. msg'[m] = IF m \in Unused /\ m \in News(f, obj)
                  THEN NewMessage(f, CHOOSE u \in DOMAIN obj : obj[u] = m)
                  ELSE LET old == MessageAfter(m, c) IN
                       IF m \in News(f, obj) THEN [old EXCEPT !.ref_count = @ + 1] ELSE old
  BY DEF Listed, News
<1>2. PICK x : x = MessageAfter(m, c)
  OBVIOUS
<1>3. After(m, c, x)
  BY <1>2, MessageAfterFields
<1>4. CASE m \in News(f, obj) /\ msg[m].state = "none"
  <2>1. PICK u : u = CHOOSE v \in DOMAIN obj : obj[v] = m
    OBVIOUS
  <2>2. u \in DOMAIN obj /\ obj[u] = m
    BY <1>4, <2>1 DEF News
  <2>3. msg'[m] = NewMessage(f, u)
    BY <1>1, <1>4, <2>1 DEF Unused
  <2>4. QED
    BY <1>4, <2>2, <2>3 DEF Relisted
<1>5. CASE m \in News(f, obj) /\ msg[m].state # "none"
  <2>1. msg[m].state = "live" /\ msg[m].folder = f
    BY <1>5, ObjectsFields DEF News
  <2>2. msg'[m] = [x EXCEPT !.ref_count = @ + 1]
    BY <1>1, <1>2, <1>5 DEF Unused
  <2>3. /\ SameCounts(msg[m], x) /\ x.state = msg[m].state
        /\ x.session = IF f \in c.restored THEN "open"
                       ELSE IF f \in c.cut THEN "closed" ELSE msg[m].session
    BY <1>3, <2>1 DEF After
  <2>4. PICK y : y = msg'[m]
    OBVIOUS
  <2>5. /\ y \in FullMessages /\ y.state = x.state /\ y.folder = x.folder /\ y.uid = x.uid
        /\ y.mime_ref_count = x.mime_ref_count /\ y.mime = x.mime
        /\ y.ref_count = x.ref_count + 1 /\ y.session = x.session
    BY <2>2, <2>3, <2>4 DEF SameCounts, FullMessages
  <2>6. Kept(msg[m], y, 1)
    BY <2>3, <2>5 DEF Kept, SameCounts
  <2>7. c = con => y.session = msg[m].session
    BY <2>3, <2>5 DEF Shaped
  <2>8. QED
    BY <1>5, <2>1, <2>4, <2>6, <2>7 DEF Relisted
<1>6. CASE m \notin News(f, obj) /\ msg[m].state \in {"live", "orphan"}
  <2>1. msg'[m] = x
    BY <1>1, <1>2, <1>6
  <2>2. SameCounts(msg[m], x) /\ x.state = msg[m].state
    BY <1>3, <1>6 DEF After
  <2>3. Kept(msg[m], x, 0)
    BY <2>2, FullFields DEF Kept, SameCounts
  <2>4. c = con => x.session = msg[m].session
    BY <1>3, <1>6 DEF Shaped, After
  <2>5. QED
    BY <1>6, <2>1, <2>3, <2>4 DEF Relisted
<1>7. CASE m \notin News(f, obj) /\ msg[m].state \notin {"live", "orphan"}
  BY <1>1, <1>2, <1>3, <1>7 DEF Relisted, After
<1>8. QED
  BY <1>4, <1>5, <1>6, <1>7

Fresh(y, f, u) ==
  /\ y \in FullMessages /\ y.state = "live" /\ y.folder = f /\ y.uid = u
  /\ y.ref_count = 1 /\ y.mime_ref_count = 0 /\ y.mime = FALSE /\ y.session = "open"

LEMMA NewMessageFields ==
  ASSUME NEW f \in Folders, NEW u \in Uids, NEW y, y = NewMessage(f, u)
  PROVE  Fresh(y, f, u)
BY DEF Fresh, NewMessage, FullMessages

LEMMA RelistedType ==
  ASSUME Shaped, NEW f \in Folders, NEW obj \in Objects(f), NEW m \in Msgs, NEW y,
         Relisted(m, f, obj, y)
  PROVE  y \in NoMessages \cup FullMessages
<1>1. DOMAIN obj \subseteq Uids
  BY DEF Objects
<1>2. CASE \E u \in DOMAIN obj : obj[u] = m /\ y = NewMessage(f, u)
  <2>1. PICK u \in Uids : y = NewMessage(f, u)
    BY <1>1, <1>2
  <2>2. QED
    BY <2>1, NewMessageFields DEF Fresh
<1>3. CASE Kept(msg[m], y, 1) \/ Kept(msg[m], y, 0)
  BY <1>3 DEF Kept
<1>4. CASE y = msg[m]
  BY <1>4, MessageFields
<1>5. QED
  BY <1>2, <1>3, <1>4 DEF Relisted

\* A successful libetpan_folder_get_msg_list
ListStep(f, c, obj, i, j) ==
  /\ lists[i].of = "none" /\ lists[j].of = "none"
  /\ Listed(f, c, obj, i, j)
  /\ con' = Settled(c) /\ blind' \in BOOLEAN
  /\ UNCHANGED <<driver, hash_lock, refs, mimes, dropped, unearned>>

\* How the hash of f changes.
HashStep(f, obj) ==
  \A g \in Folders, u \in Uids :
    uid_hash'[g][u] = IF g = f /\ u \in DOMAIN obj THEN obj[u] ELSE uid_hash[g][u]

LEMMA ListedHash ==
  ASSUME Shaped, NEW f \in Folders, NEW c, NEW obj \in Objects(f),
         NEW i, NEW j, Listed(f, c, obj, i, j)
  PROVE  /\ uid_hash' \in [Folders -> [Uids -> Msgs \cup {NoMsg}]]
         /\ HashStep(f, obj)
<1>1. PICK h : h = [u \in Uids |-> IF u \in DOMAIN obj THEN obj[u] ELSE uid_hash[f][u]]
  OBVIOUS
<1>2. uid_hash' = [uid_hash EXCEPT ![f] = h]
  BY <1>1 DEF Listed, Shaped
<1>3. \A u \in DOMAIN obj : obj[u] \in Msgs
  BY DEF Objects
<1>4. h \in [Uids -> Msgs \cup {NoMsg}]
  BY <1>1, <1>3 DEF Shaped
<1>5. uid_hash' \in [Folders -> [Uids -> Msgs \cup {NoMsg}]]
  BY <1>2, <1>4 DEF Shaped
<1>6. ASSUME NEW g \in Folders, NEW u \in Uids
      PROVE  uid_hash'[g][u] = IF g = f /\ u \in DOMAIN obj THEN obj[u] ELSE uid_hash[g][u]
  <2>1. CASE g = f
    BY <1>1, <1>2, <2>1 DEF Shaped
  <2>2. CASE g # f
    BY <1>2, <2>2 DEF Shaped
  <2>3. QED
    BY <2>1, <2>2
<1>7. QED
  BY <1>5, <1>6 DEF HashStep

\* How the lists change: list j gets the lost messages, if there are any.
ListsStep(f, obj, i, j) ==
  /\ lists' \in [1..MaxLists -> AllLists]
  /\ lists'[i] = [of |-> f, lost |-> FALSE, msgs |-> News(f, obj)]
  /\ \A k \in 1..MaxLists \ {i} :
       \/ lists'[k] = lists[k]
       \/ k = j /\ lists'[k] = [of |-> f, lost |-> TRUE, msgs |-> InHash(f) \ News(f, obj)]

LEMMA ListedLists ==
  ASSUME Shaped, NEW f \in Folders, NEW c, NEW obj \in Objects(f),
         NEW i \in 1..MaxLists, NEW j \in 1..MaxLists, Listed(f, c, obj, i, j)
  PROVE  ListsStep(f, obj, i, j)
<1>1. PICK a : a = [of |-> f, lost |-> FALSE, msgs |-> News(f, obj)]
  OBVIOUS
<1>2. PICK b : b = [of |-> f, lost |-> TRUE, msgs |-> InHash(f) \ News(f, obj)]
  OBVIOUS
<1>3. News(f, obj) \subseteq Msgs /\ InHash(f) \subseteq Msgs
  BY DEF News, Objects, InHash, Live
<1>4. a \in AllLists /\ b \in AllLists
  BY <1>1, <1>2, <1>3 DEF AllLists
<1>5. lists' = [k \in 1..MaxLists |->
                 IF k = i THEN a
                 ELSE IF k = j /\ InHash(f) \ News(f, obj) # {} THEN b ELSE lists[k]]
  BY <1>1, <1>2 DEF Listed, News, Shaped
<1>6. QED
  BY <1>1, <1>2, <1>4, <1>5 DEF Shaped, ListsStep

LEMMA ListShaped ==
  ASSUME Shaped, Tables, NEW f \in Folders, NEW c \in Connections, c.ref = con.ref,
         NEW obj \in Objects(f), NEW i \in 1..MaxLists, NEW j \in 1..MaxLists,
         ListStep(f, c, obj, i, j)
  PROVE  Shaped'
<1>1. Listed(f, c, obj, i, j)
  BY DEF ListStep
<1>2. ASSUME NEW m \in Msgs PROVE msg'[m] \in NoMessages \cup FullMessages
  BY <1>1, ListedMessage, RelistedType
<1>3. msg' \in [Msgs -> NoMessages \cup FullMessages]
  BY <1>1, <1>2 DEF Listed
<1>4. con' \in Connections /\ con'.cut = {} /\ con'.restored = {}
  BY SettledFields DEF ListStep
<1>5. uid_hash' \in [Folders -> [Uids -> Msgs \cup {NoMsg}]]
  BY <1>1, ListedHash
<1>6. lists' \in [1..MaxLists -> AllLists]
  BY <1>1, ListedLists DEF ListsStep
<1>7. QED
  BY <1>3, <1>4, <1>5, <1>6 DEF ListStep, Shaped

\* What became of a message that the engine knew.
LEMMA RelistedKnown ==
  ASSUME Shaped, NEW f, NEW obj, NEW m \in Msgs, NEW y, Relisted(m, f, obj, y),
         msg[m].state # "none"
  PROVE  /\ y.state = msg[m].state
         /\ msg[m].state \in {"live", "orphan"} => y.folder = msg[m].folder /\ y.uid = msg[m].uid
BY MessageFields DEF Relisted, Kept

LEMMA RelistedFresh ==
  ASSUME Shaped, Tables, NEW f \in Folders, NEW obj \in Objects(f), NEW u \in DOMAIN obj,
         NEW m, m = obj[u], msg[m].state = "none", NEW y, Relisted(m, f, obj, y)
  PROVE  Fresh(y, f, u)
<1>1. m \in News(f, obj)
  BY DEF News
<1>2. PICK v \in DOMAIN obj : obj[v] = m /\ y = NewMessage(f, v)
  BY <1>1 DEF Relisted
<1>3. v = u
  BY <1>2, ObjectsFields
<1>4. u \in Uids
  BY DEF Objects
<1>5. QED
  BY <1>2, <1>3, <1>4, NewMessageFields

LEMMA ListTables ==
  ASSUME Shaped, Tables, NEW f \in Folders, f \in con.ref, NEW c \in Connections, c.ref = con.ref,
         NEW obj \in Objects(f), NEW i \in 1..MaxLists, NEW j \in 1..MaxLists,
         ListStep(f, c, obj, i, j)
  PROVE  Tables'
<1>1. Listed(f, c, obj, i, j) /\ DOMAIN obj \subseteq Uids
  BY DEF ListStep, Objects
<1>2. con'.ref = con.ref
  BY SettledFields DEF ListStep
<1>3. HashStep(f, obj)
  BY <1>1, ListedHash
<1>4. \A m \in Msgs : Relisted(m, f, obj, msg'[m])
  BY <1>1, ListedMessage
<1>5. ASSUME NEW m \in Msgs, msg'[m].state = "live"
      PROVE  msg'[m].folder \in con'.ref /\ uid_hash'[msg'[m].folder][msg'[m].uid] = m
  <2>1. CASE msg[m].state = "none"
    <3>1. m \in News(f, obj)
      BY <1>4, <1>5, <2>1 DEF Relisted
    <3>2. PICK u \in DOMAIN obj : m = obj[u]
      BY <3>1 DEF News
    <3>3. Fresh(msg'[m], f, u)
      BY <1>4, <2>1, <3>2, RelistedFresh
    <3>4. u \in Uids /\ msg'[m].folder = f /\ msg'[m].uid = u
      BY <1>1, <3>3 DEF Fresh
    <3>5. QED
      BY <1>2, <1>3, <3>2, <3>4 DEF HashStep
  <2>2. CASE msg[m].state # "none"
    <3>1. Relisted(m, f, obj, msg'[m])
      BY <1>4
    <3>2. msg[m].state = "live" /\ msg'[m].folder = msg[m].folder /\ msg'[m].uid = msg[m].uid
      BY <1>5, <2>2, <3>1, RelistedKnown
    <3>3. msg[m].folder \in con.ref /\ uid_hash[msg[m].folder][msg[m].uid] = m
      BY <3>2 DEF Tables
    <3>4. msg[m].folder \in Folders /\ msg[m].uid \in Uids
      BY <3>2, MessageFields, FullFields
    <3>5. m # NoMsg
      BY DEF NoMsg, Msgs
    <3>6. msg[m].folder = f /\ msg[m].uid \in DOMAIN obj => obj[msg[m].uid] = m
      BY <3>3, <3>5, ObjectsFields
    <3>7. QED
      BY <1>2, <1>3, <3>2, <3>3, <3>4, <3>6 DEF HashStep
  <2>3. QED
    BY <2>1, <2>2
<1>6. ASSUME NEW g \in Folders, NEW u \in Uids, NEW m, m = uid_hash'[g][u], m # NoMsg
      PROVE  msg'[m].state = "live" /\ msg'[m].folder = g /\ msg'[m].uid = u
  <2>1. CASE uid_hash[g][u] = m
    <3>1. m \in Msgs
      BY <1>6, <2>1 DEF Shaped
    <3>2. msg[m].state = "live" /\ msg[m].folder = g /\ msg[m].uid = u
      BY <1>6, <2>1 DEF Tables
    <3>3. Relisted(m, f, obj, msg'[m])
      BY <1>4, <3>1
    <3>4. QED
      BY <3>1, <3>2, <3>3, RelistedKnown
  <2>2. CASE uid_hash[g][u] # m
    <3>1. g = f /\ u \in DOMAIN obj /\ obj[u] = m
      BY <1>3, <1>6, <2>2 DEF HashStep
    <3>2. m \in Msgs /\ msg[m].state = "none"
      BY <2>2, <3>1, ObjectsFields
    <3>3. Fresh(msg'[m], f, u)
      BY <1>4, <3>1, <3>2, RelistedFresh
    <3>4. QED
      BY <3>1, <3>3 DEF Fresh
  <2>3. QED
    BY <2>1, <2>2
<1>7. QED
  BY <1>5, <1>6 DEF Tables

LEMMA ListBelongs ==
  ASSUME Shaped, Tables, ListsBelong,
         NEW f \in Folders, NEW c \in Connections, c.ref = con.ref,
         NEW obj \in Objects(f), NEW i \in 1..MaxLists, NEW j \in 1..MaxLists,
         ListStep(f, c, obj, i, j)
  PROVE  ListsBelong'
<1>1. Listed(f, c, obj, i, j) /\ DOMAIN obj \subseteq Uids
  BY DEF ListStep, Objects
<1>2. \A m \in Msgs : Relisted(m, f, obj, msg'[m])
  BY <1>1, ListedMessage
<1>3. ASSUME NEW g, NEW m \in Msgs, Belongs(m, g)
      PROVE  msg'[m].state # "none" /\ (msg'[m].state \in {"live", "orphan"} => msg'[m].folder = g)
  BY <1>2, <1>3, RelistedKnown DEF Belongs
<1>4. ASSUME NEW m \in News(f, obj)
      PROVE  msg'[m].state # "none" /\ (msg'[m].state \in {"live", "orphan"} => msg'[m].folder = f)
  <2>1. PICK u \in DOMAIN obj : m = obj[u]
    BY <1>4 DEF News
  <2>2. m \in Msgs
    BY <2>1, ObjectsFields
  <2>3. CASE msg[m].state = "none"
    <3>1. Fresh(msg'[m], f, u)
      BY <1>2, <2>1, <2>2, <2>3, RelistedFresh
    <3>2. QED
      BY <1>1, <3>1 DEF Fresh
  <2>4. CASE msg[m].state # "none"
    <3>1. msg[m].folder = f
      BY <2>1, <2>4, ObjectsFields
    <3>2. QED
      BY <1>3, <2>2, <2>4, <3>1 DEF Belongs
  <2>5. QED
    BY <2>3, <2>4
<1>5. ListsStep(f, obj, i, j)
  BY <1>1, ListedLists
<1>6. ASSUME NEW k \in 1..MaxLists, lists'[k].of # "none", NEW m \in lists'[k].msgs
      PROVE  Belongs(m, lists[k].of)'
  <2>1. CASE k = i
    <3>1. lists'[k] = [of |-> f, lost |-> FALSE, msgs |-> News(f, obj)]
      BY <1>5, <2>1 DEF ListsStep
    <3>2. m \in News(f, obj) /\ lists'[k].of = f
      BY <1>6, <3>1
    <3>3. QED
      BY <1>4, <3>2 DEF Belongs
  <2>2. CASE k # i /\ lists'[k] = lists[k]
    <3>1. m \in Msgs /\ Belongs(m, lists[k].of)
      BY <1>6, <2>2 DEF ListsBelong, Shaped, AllLists
    <3>2. PICK g : g = lists[k].of
      OBVIOUS
    <3>3. msg'[m].state # "none" /\ (msg'[m].state \in {"live", "orphan"} => msg'[m].folder = g)
      BY <1>3, <3>1, <3>2
    <3>4. QED
      BY <2>2, <3>2, <3>3 DEF Belongs
  <2>3. CASE lists'[k] = [of |-> f, lost |-> TRUE, msgs |-> InHash(f) \ News(f, obj)]
    <3>1. m \in InHash(f) /\ lists'[k].of = f
      BY <1>6, <2>3
    <3>2. m \in Msgs /\ Belongs(m, f)
      BY <3>1 DEF InHash, Live, Belongs
    <3>3. msg'[m].state # "none" /\ (msg'[m].state \in {"live", "orphan"} => msg'[m].folder = f)
      BY <1>3, <3>2
    <3>4. QED
      BY <3>1, <3>3 DEF Belongs
  <2>4. QED
    BY <1>5, <2>1, <2>2, <2>3 DEF ListsStep
<1>7. QED
  BY <1>6 DEF ListsBelong

LEMMA ListSessions ==
  ASSUME Shaped, Tables, Sessions, ~con.fault,
         NEW f \in Folders, NEW c \in Connections, c.ref = con.ref, driver # "pop3" => c = con,
         NEW obj \in Objects(f), NEW i \in 1..MaxLists, NEW j \in 1..MaxLists,
         ListStep(f, c, obj, i, j)
  PROVE  Sessions'
<1> SUFFICES ASSUME driver' # "pop3", ~con'.fault, NEW g \in con'.ref
             PROVE  /\ con'.lost[g] <=> ~con'.fld[g]
                    /\ ~con'.lost[g] => \A m \in Msgs :
                         msg'[m].state = "live" /\ msg'[m].folder = g => msg'[m].session = "open"
  BY DEF Sessions
<1>1. driver # "pop3" /\ c = con /\ Listed(f, c, obj, i, j) /\ DOMAIN obj \subseteq Uids
  BY DEF ListStep, Objects
<1>2. con'.ref = con.ref /\ con'.lost = con.lost /\ con'.fld = con.fld
  BY <1>1, SettledFields DEF ListStep
<1>3. /\ con.lost[g] <=> ~con.fld[g]
      /\ ~con.lost[g] => \A m \in Msgs :
           msg[m].state = "live" /\ msg[m].folder = g => msg[m].session = "open"
  BY <1>1, <1>2 DEF Sessions
<1>4. ASSUME ~con.lost[g], NEW m \in Msgs, msg'[m].state = "live", msg'[m].folder = g
      PROVE  msg'[m].session = "open"
  <2>1. /\ Relisted(m, f, obj, msg'[m])
        /\ msg[m].state \in {"live", "orphan"} => msg'[m].session = msg[m].session
    BY <1>1, ListedMessage
  <2>2. CASE msg[m].state = "none"
    <3>1. m \in News(f, obj)
      BY <1>4, <2>1, <2>2 DEF Relisted
    <3>2. PICK u \in DOMAIN obj : m = obj[u]
      BY <3>1 DEF News
    <3>3. Fresh(msg'[m], f, u)
      BY <2>1, <2>2, <3>2, RelistedFresh
    <3>4. QED
      BY <1>1, <3>3 DEF Fresh
  <2>3. CASE msg[m].state # "none"
    <3>1. msg[m].state = "live" /\ msg[m].folder = g
      BY <1>4, <2>1, <2>3, RelistedKnown
    <3>2. QED
      BY <1>3, <1>4, <2>1, <3>1
  <2>4. QED
    BY <2>2, <2>3
<1>5. QED
  BY <1>2, <1>3, <1>4

LEMMA ListLinked ==
  ASSUME Shaped, Linked, ~con.fault, NEW f, NEW c, Ended(con, c), c.ref = con.ref,
         NEW obj, NEW i, NEW j, ListStep(f, c, obj, i, j)
  PROVE  Linked'
<1> SUFFICES ASSUME dropped' = {} PROVE Shared(con)' \subseteq con'.ref
  BY DEF Linked
<1>1. PICK d : d = Settled(c)
  OBVIOUS
<1>2. con' = d /\ d.ref = c.ref /\ Shared(d) = Shared(c)
  BY <1>1, SettledFields DEF ListStep, Ended
<1>3. dropped = {}
  BY DEF ListStep
<1>4. Shared(c) \subseteq c.ref
  BY <1>3, SoundNow DEF Ended
<1>5. Shared(con)' = Shared(d)
  BY <1>2 DEF Shared
<1>6. QED
  BY <1>2, <1>4, <1>5

-----------------------------------------------------------------------------
\* References.

\* The client's variables keep their types, and no list is made.
ClientShaped ==
  /\ lists' \in [1..MaxLists -> AllLists]
  /\ \A i \in 1..MaxLists : lists'[i].of # "none" => lists'[i] = lists[i]
  /\ refs' \in [Msgs -> 0..MaxRefs] /\ mimes' \in [Msgs -> 0..MaxRefs]
  /\ unearned' \in [Msgs -> 0..MaxFrees] /\ blind' \in BOOLEAN
  /\ UNCHANGED <<driver, hash_lock, dropped>>

LEMMA FaultsTables ==
  ASSUME TablesInv, Faults, ClientShaped
  PROVE  TablesInv' /\ con'.fault
<1>1. con \in Connections
  BY DEF TablesInv, Shaped
<1>2. /\ con' \in Connections /\ con'.ref = con.ref /\ con'.fault = TRUE
      /\ con'.cut = con.cut /\ con'.restored = con.restored
  BY <1>1 DEF Faults, Connections
<1>3. Shaped'
  BY <1>2 DEF Faults, ClientShaped, TablesInv, Shaped
<1>4. Tables'
  BY <1>2 DEF Faults, TablesInv, Tables
<1>5. ListsBelong'
  BY DEF Faults, ClientShaped, TablesInv, ListsBelong, Belongs
<1>6. Sessions' /\ Linked'
  BY <1>2 DEF Sessions, Linked
<1>7. QED
  BY <1>2, <1>3, <1>4, <1>5, <1>6 DEF TablesInv

LEMMA GetMsgListStep ==
  ASSUME TablesInv, ~con.fault, NEW f \in Folders, GetMsgList(f)
  PROVE  TablesInv'
<1> DEFINE null == driver # "pop3" /\ ~con.fld[f]
<1>1. f \in con.ref /\ blind' \in BOOLEAN
  BY DEF GetMsgList
<1>a. CASE null
  <2>1. Faults /\ UNCHANGED <<driver, hash_lock, clientVars, dropped, unearned>>
    BY <1>a DEF GetMsgList
  <2>2. ClientShaped
    BY <1>1, <2>1 DEF ClientShaped, clientVars, TablesInv, Shaped
  <2>3. QED
    BY <2>1, <2>2, FaultsTables
<1> SUFFICES ASSUME ~null PROVE TablesInv'
  BY <1>a
<1>2. PICK o \in MessagesList(f) :
        \/ o.r # "ok" /\ Connected(o.c)
        \/ \E i, j \in DOMAIN lists : \E obj \in Objects(f) : ListStep(f, o.c, obj, i, j)
  BY <1>1 DEF GetMsgList, ListStep
<1>3. PICK c : c = o.c
  OBVIOUS
<1>4. Ended(con, c) /\ c.ref = con.ref /\ (driver # "pop3" => c = con)
  BY <1>1, <1>3, MessagesListEnds DEF TablesInv
<1>5. CASE Connected(c)
  BY <1>1, <1>4, <1>5, ConnectedStep
<1>6. CASE \E i, j \in DOMAIN lists : \E obj \in Objects(f) : ListStep(f, c, obj, i, j)
  <2>1. DOMAIN lists = 1..MaxLists
    BY DEF TablesInv, Shaped
  <2>2. PICK i \in 1..MaxLists, j \in 1..MaxLists, obj \in Objects(f) : ListStep(f, c, obj, i, j)
    BY <1>6, <2>1
  <2>3. c \in Connections
    BY <1>4 DEF Ended
  <2>4. Shaped' /\ Tables'
    BY <1>1, <1>4, <2>2, <2>3, ListShaped, ListTables DEF TablesInv
  <2>5. ListsBelong'
    BY <1>4, <2>2, <2>3, ListBelongs DEF TablesInv
  <2>6. Sessions'
    BY <1>4, <2>2, <2>3, ListSessions DEF TablesInv
  <2>7. Linked'
    BY <1>4, <2>2, ListLinked DEF TablesInv
  <2>8. QED
    BY <2>4, <2>5, <2>6, <2>7 DEF TablesInv
<1>7. QED
  BY <1>2, <1>3, <1>5, <1>6

\* Message y is message x with other counts.
Touched(x, y) ==
  /\ y \in FullMessages /\ y.state = x.state /\ y.folder = x.folder /\ y.uid = x.uid
  /\ y.session = x.session

\* A step that frees the messages in D and touches others.
CountsStep(D) ==
  /\ msg' \in [Msgs -> NoMessages \cup FullMessages]
  /\ \A m \in Msgs : \/ m \notin D /\ msg'[m] = msg[m]
                     \/ m \notin D /\ msg[m].state = "live" /\ Touched(msg[m], msg'[m])
                     \/ m \in D /\ msg'[m] = [state |-> "freed"]

LEMMA CountsStepState ==
  ASSUME Shaped, NEW D, CountsStep(D), NEW m \in Msgs
  PROVE  /\ m \notin D => /\ msg'[m].state = msg[m].state
                          /\ msg[m].state \in {"live", "orphan"} =>
                               /\ msg'[m].folder = msg[m].folder /\ msg'[m].uid = msg[m].uid
                               /\ msg'[m].session = msg[m].session
         /\ m \in D => msg'[m].state = "freed"
<1>1. CASE msg'[m] = msg[m] /\ m \notin D
  BY <1>1
<1>2. CASE Touched(msg[m], msg'[m]) /\ m \notin D
  BY <1>2 DEF Touched
<1>3. CASE msg'[m] = [state |-> "freed"] /\ m \in D
  BY <1>3
<1>4. QED
  BY <1>1, <1>2, <1>3 DEF CountsStep

LEMMA UnrefTables ==
  ASSUME TablesInv, ClientShaped, NEW D \in SUBSET Msgs, CountsStep(D), UNCHANGED con,
         NEW f \in Folders,
         \A m \in D : msg[m].state = "live" /\ msg[m].folder = f,
         uid_hash' \in [Folders -> [Uids -> Msgs \cup {NoMsg}]],
         \A g \in Folders, u \in Uids :
           uid_hash'[g][u] = IF g = f /\ \E m \in D : msg[m].uid = u THEN NoMsg
                             ELSE uid_hash[g][u]
  PROVE  TablesInv'
<1> USE DEF TablesInv
<1>1. Shaped'
  BY DEF ClientShaped, CountsStep, Shaped
<1>2. ASSUME NEW m \in Msgs, msg'[m].state = "live"
      PROVE  msg'[m].folder \in con'.ref /\ uid_hash'[msg'[m].folder][msg'[m].uid] = m
  <2>1. m \notin D /\ msg[m].state = "live"
        /\ msg'[m].folder = msg[m].folder /\ msg'[m].uid = msg[m].uid
    BY <1>2, CountsStepState
  <2>2. msg[m].folder \in con.ref /\ uid_hash[msg[m].folder][msg[m].uid] = m
    BY <2>1 DEF Tables
  <2>3. msg[m].folder \in Folders /\ msg[m].uid \in Uids
    BY <2>1, MessageFields, FullFields
  <2>4. ~(msg[m].folder = f /\ \E k \in D : msg[k].uid = msg[m].uid)
    <3>1. SUFFICES ASSUME msg[m].folder = f, NEW k \in D, msg[k].uid = msg[m].uid PROVE FALSE
      OBVIOUS
    <3>2. uid_hash[f][msg[k].uid] = k
      BY DEF Tables
    <3>3. QED
      BY <2>1, <2>2, <3>1, <3>2
  <2>5. QED
    BY <2>1, <2>2, <2>3, <2>4
<1>3. ASSUME NEW g \in Folders, NEW u \in Uids, NEW m, m = uid_hash'[g][u], m # NoMsg
      PROVE  msg'[m].state = "live" /\ msg'[m].folder = g /\ msg'[m].uid = u
  <2>1. uid_hash[g][u] = m /\ ~(g = f /\ \E k \in D : msg[k].uid = u)
    BY <1>3
  <2>2. m \in Msgs
    BY <1>3, <2>1 DEF Shaped
  <2>3. msg[m].state = "live" /\ msg[m].folder = g /\ msg[m].uid = u
    BY <1>3, <2>1 DEF Tables
  <2>4. m \notin D
    BY <2>1, <2>3
  <2>5. QED
    BY <2>2, <2>3, <2>4, CountsStepState
<1>4. Tables'
  BY <1>2, <1>3 DEF Tables
<1>5. ASSUME NEW i \in 1..MaxLists, lists'[i].of # "none", NEW m \in lists'[i].msgs
      PROVE  Belongs(m, lists[i].of)'
  <2>1. lists'[i] = lists[i]
    BY <1>5 DEF ClientShaped
  <2>2. m \in Msgs /\ Belongs(m, lists[i].of)
    BY <1>5, <2>1 DEF ListsBelong, Shaped, AllLists
  <2>3. QED
    BY <2>1, <2>2, CountsStepState DEF Belongs
<1>6. ListsBelong'
  BY <1>5 DEF ListsBelong
<1>7. Sessions'
  <2> SUFFICES ASSUME driver # "pop3", ~con.fault, NEW g \in con.ref
               PROVE  /\ con.lost[g] <=> ~con.fld[g]
                      /\ ~con.lost[g] => \A m \in Msgs :
                           msg'[m].state = "live" /\ msg'[m].folder = g => msg'[m].session = "open"
    BY DEF Sessions, ClientShaped
  <2>1. /\ con.lost[g] <=> ~con.fld[g]
        /\ ~con.lost[g] => \A m \in Msgs :
             msg[m].state = "live" /\ msg[m].folder = g => msg[m].session = "open"
    BY DEF Sessions
  <2>2. QED
    BY <2>1, CountsStepState
<1>8. Linked'
  BY DEF Linked, ClientShaped, Shared
<1>9. QED
  BY <1>1, <1>4, <1>6, <1>7, <1>8

Last(M) == {m \in M : msg[m].ref_count = 1}

\* folder_message_unref of messages that are found: the counts, one by one.
LEMMA UnrefCounts ==
  ASSUME Shaped, NEW M \in SUBSET Msgs, \A m \in M : Found(m), NEW f, Unref(M, f),
         NEW m \in Msgs
  PROVE  /\ m \notin M => msg'[m] = msg[m]
         /\ m \in Last(M) => msg'[m] = [state |-> "freed"]
         /\ m \in M \ Last(M) => Touched(msg[m], msg'[m]) /\ Kept(msg[m], msg'[m], -1)
<1>1. msg' = [k \in Msgs |-> IF k \in M THEN Unreferenced(k) ELSE msg[k]]
  BY DEF Unref
<1>2. CASE m \notin M
  BY <1>1, <1>2 DEF Last
<1>3. CASE m \in Last(M)
  BY <1>1, <1>3 DEF Last, Unreferenced
<1>4. CASE m \in M \ Last(M)
  <2>1. PICK x : x = msg[m]
    OBVIOUS
  <2>2. x \in FullMessages
    BY <1>4, <2>1, MessageFields DEF Found
  <2>3. PICK y : y = [x EXCEPT !.ref_count = @ - 1]
    OBVIOUS
  <2>4. msg'[m] = y
    BY <1>1, <1>4, <2>1, <2>3 DEF Last, Unreferenced
  <2>5. /\ y \in FullMessages /\ y.state = x.state /\ y.folder = x.folder /\ y.uid = x.uid
        /\ y.mime_ref_count = x.mime_ref_count /\ y.mime = x.mime
        /\ y.ref_count = x.ref_count - 1 /\ y.session = x.session
    BY <2>2, <2>3 DEF FullMessages
  <2>6. y.ref_count = x.ref_count + (-1)
    BY <2>2, <2>5, FullFields
  <2>7. QED
    BY <1>4, <2>1, <2>4, <2>5, <2>6 DEF Touched, Kept
<1>5. QED
  BY <1>2, <1>3, <1>4 DEF Last

LEMMA UnrefStep ==
  ASSUME TablesInv, ClientShaped, NEW M \in SUBSET Msgs, NEW f \in Folders,
         (\A m \in M : Found(m)) => \A m \in M : msg[m].folder = f, Unref(M, f)
  PROVE  TablesInv'
<1>1. CASE ~(\A m \in M : Found(m))
  <2>1. Faults
    BY <1>1 DEF Unref
  <2>2. QED
    BY <2>1, FaultsTables
<1>2. CASE \A m \in M : Found(m)
  <2>1. Shaped
    BY DEF TablesInv
  <2>2. PICK D : D = Last(M)
    OBVIOUS
  <2>3. D \in SUBSET Msgs /\ \A m \in D : msg[m].state = "live" /\ msg[m].folder = f
    BY <1>2, <2>2 DEF Last, Found
  <2>4. DOMAIN msg' = Msgs /\ msg' = [m \in Msgs |-> msg'[m]] /\ UNCHANGED con
    BY <1>2 DEF Unref
  <2>5. ASSUME NEW m \in Msgs
        PROVE  /\ \/ m \notin D /\ msg'[m] = msg[m]
                  \/ m \notin D /\ msg[m].state = "live" /\ Touched(msg[m], msg'[m])
                  \/ m \in D /\ msg'[m] = [state |-> "freed"]
               /\ msg'[m] \in NoMessages \cup FullMessages
    <3>1. CASE m \notin M
      BY <1>2, <2>1, <2>2, <3>1, UnrefCounts, MessageFields DEF Last
    <3>2. CASE m \in D
      <4>1. msg'[m] = [state |-> "freed"]
        BY <1>2, <2>1, <2>2, <3>2, UnrefCounts
      <4>2. QED
        BY <3>2, <4>1 DEF NoMessages
    <3>3. CASE m \in M \ D
      <4>1. Touched(msg[m], msg'[m])
        BY <1>2, <2>1, <2>2, <3>3, UnrefCounts
      <4>2. QED
        BY <1>2, <3>3, <4>1 DEF Touched, Found
    <3>4. QED
      BY <2>2, <3>1, <3>2, <3>3 DEF Last
  <2>6. CountsStep(D)
    BY <2>4, <2>5 DEF CountsStep
  <2>7. PICK h : h = [u \in Uids |-> IF \E m \in D : msg[m].uid = u THEN NoMsg
                                     ELSE uid_hash[f][u]]
    OBVIOUS
  <2>8. uid_hash' = [uid_hash EXCEPT ![f] = h]
    <3>1. uid_hash' = LosesUid(M, f)
      BY <1>2 DEF Unref
    <3>2. \A u \in Uids : (\E m \in M : msg[m].ref_count = 1 /\ msg[m].uid = u)
                            <=> (\E m \in D : msg[m].uid = u)
      BY <2>2 DEF Last
    <3>3. [u \in Uids |-> IF \E m \in M : msg[m].ref_count = 1 /\ msg[m].uid = u
                            THEN NoMsg ELSE uid_hash[f][u]] = h
      BY <2>7, <3>2
    <3>4. QED
      BY <2>1, <3>1, <3>3 DEF LosesUid, Shaped
  <2>9. h \in [Uids -> Msgs \cup {NoMsg}]
    BY <2>1, <2>7 DEF Shaped
  <2>10. uid_hash' \in [Folders -> [Uids -> Msgs \cup {NoMsg}]]
    BY <2>1, <2>8, <2>9 DEF Shaped
  <2>11. \A g \in Folders, u \in Uids :
           uid_hash'[g][u] = IF g = f /\ \E m \in D : msg[m].uid = u THEN NoMsg
                             ELSE uid_hash[g][u]
    BY <2>1, <2>7, <2>8 DEF Shaped
  <2>12. QED
    BY <2>3, <2>4, <2>6, <2>10, <2>11, UnrefTables
<1>3. QED
  BY <1>1, <1>2

\* A step that touches one live message.
LEMMA TouchStep ==
  ASSUME TablesInv, ClientShaped, NEW m \in Msgs, Found(m), NEW y, Touched(msg[m], y),
         msg' = [msg EXCEPT ![m] = y], UNCHANGED <<con, uid_hash>>
  PROVE  TablesInv'
<1>1. Shaped
  BY DEF TablesInv
<1>2. msg' \in [Msgs -> NoMessages \cup FullMessages]
  BY <1>1 DEF Shaped, Touched
<1>3. ASSUME NEW k \in Msgs
      PROVE  msg'[k] = msg[k] \/ (msg[k].state = "live" /\ Touched(msg[k], msg'[k]))
  BY <1>1 DEF Shaped, Found
<1>4. CountsStep({})
  BY <1>2, <1>3 DEF CountsStep
<1>5. Inbox \in Folders
  BY EngineAssumption DEF EngineAssumption
<1>6. uid_hash' \in [Folders -> [Uids -> Msgs \cup {NoMsg}]]
  BY <1>1 DEF Shaped
<1>7. \A g \in Folders, u \in Uids :
        uid_hash'[g][u] = IF g = Inbox /\ \E k \in {} : msg[k].uid = u THEN NoMsg
                          ELSE uid_hash[g][u]
  OBVIOUS
<1>8. UNCHANGED con
  OBVIOUS
<1>9. PICK D \in SUBSET Msgs : D = {}
  OBVIOUS
<1>10. \A k \in D : msg[k].state = "live" /\ msg[k].folder = Inbox
  BY <1>9
<1>11. QED
  BY <1>4, <1>5, <1>6, <1>7, <1>8, <1>9, <1>10, UnrefTables

-----------------------------------------------------------------------------
\* The tables and the sessions, action by action.

\* The message that a call of libetpan_message_ref, _mime_ref or _mime_unref leaves.
LEMMA MessageRefFields ==
  ASSUME Shaped, NEW m \in Msgs, Found(m), MessageRef(m)
  PROVE  \E y : Touched(msg[m], y) /\ Kept(msg[m], y, 1) /\ msg' = [msg EXCEPT ![m] = y]
<1>1. PICK x : x = msg[m]
  OBVIOUS
<1>2. x \in FullMessages
  BY <1>1, MessageFields DEF Found
<1>3. PICK y : y = [x EXCEPT !.ref_count = @ + 1]
  OBVIOUS
<1>4. msg' = [msg EXCEPT ![m] = y]
  BY <1>1, <1>3 DEF MessageRef, Shaped
<1>5. /\ y \in FullMessages /\ y.state = x.state /\ y.folder = x.folder /\ y.uid = x.uid
      /\ y.mime_ref_count = x.mime_ref_count /\ y.mime = x.mime
      /\ y.ref_count = x.ref_count + 1 /\ y.session = x.session
  BY <1>2, <1>3 DEF FullMessages
<1>6. QED
  BY <1>1, <1>4, <1>5 DEF Touched, Kept

\* Message y is x with k more references on the structure.
MimeKept(x, y, k) == y.ref_count = x.ref_count + k /\ y.mime_ref_count = x.mime_ref_count + k

MimeTouch(x, a, b) == [x EXCEPT !.ref_count = @ + a, !.mime_ref_count = @ + a, !.mime = b]

LEMMA MimeFields ==
  ASSUME Shaped, NEW m \in Msgs, Found(m), NEW a \in Int, NEW b \in BOOLEAN, NEW y,
         y = MimeTouch(msg[m], a, b)
  PROVE  Touched(msg[m], y) /\ MimeKept(msg[m], y, a) /\ y.mime = b
<1>1. PICK x : x = msg[m]
  OBVIOUS
<1>2. x \in FullMessages
  BY <1>1, MessageFields DEF Found
<1>3. y = [x EXCEPT !.ref_count = @ + a, !.mime_ref_count = @ + a, !.mime = b]
  BY <1>1 DEF MimeTouch
<1>4. /\ y.state = x.state /\ y.folder = x.folder /\ y.uid = x.uid /\ y.session = x.session
      /\ y.ref_count = x.ref_count + a /\ y.mime_ref_count = x.mime_ref_count + a /\ y.mime = b
  BY <1>2, <1>3 DEF FullMessages
<1>5. y = [state |-> x.state, folder |-> x.folder, uid |-> x.uid, ref_count |-> y.ref_count,
           mime_ref_count |-> y.mime_ref_count, mime |-> b, session |-> x.session]
  BY <1>2, <1>3 DEF FullMessages
<1>6. y.ref_count \in Int /\ y.mime_ref_count \in Int
  BY <1>2, <1>4, FullFields
<1>7. y \in FullMessages
  BY <1>2, <1>5, <1>6, FullFields DEF FullMessages
<1>8. QED
  BY <1>1, <1>4, <1>7 DEF Touched, MimeKept

LEMMA MimeRefFields ==
  ASSUME Shaped, NEW m \in Msgs, MimeRef(m), ~Faults
  PROVE  /\ Found(m) /\ mimes' = [mimes EXCEPT ![m] = @ + 1] /\ UNCHANGED <<con, uid_hash>>
         /\ \E y : /\ Touched(msg[m], y) /\ MimeKept(msg[m], y, 1) /\ y.mime = TRUE
                   /\ msg' = [msg EXCEPT ![m] = y]
<1>1. Found(m) /\ mimes' = [mimes EXCEPT ![m] = @ + 1] /\ UNCHANGED <<con, uid_hash>>
  BY DEF MimeRef
<1>2. PICK b \in BOOLEAN : b = TRUE
  OBVIOUS
<1>3. PICK y : y = MimeTouch(msg[m], 1, b)
  OBVIOUS
<1>4. msg' = [msg EXCEPT ![m] = y]
  BY <1>2, <1>3 DEF MimeRef, MimeTouch, Shaped
<1>5. Touched(msg[m], y) /\ MimeKept(msg[m], y, 1) /\ y.mime = b
  BY <1>1, <1>3, MimeFields
<1>6. QED
  BY <1>1, <1>2, <1>4, <1>5

LEMMA MimeUnrefFields ==
  ASSUME Shaped, NEW m \in Msgs, MimeUnref(m), Found(m)
  PROVE  /\ UNCHANGED <<con, uid_hash>>
         /\ \E y : /\ Touched(msg[m], y) /\ MimeKept(msg[m], y, -1)
                   /\ y.mime = (msg[m].mime_ref_count # 1)
                   /\ msg' = [msg EXCEPT ![m] = y]
<1>1. UNCHANGED <<con, uid_hash>>
  BY DEF MimeUnref
<1>2. PICK b \in BOOLEAN : b = (msg[m].mime_ref_count # 1)
  OBVIOUS
<1>3. PICK y : y = MimeTouch(msg[m], -1, b)
  OBVIOUS
<1>4. msg[m].ref_count \in Int /\ msg[m].mime_ref_count \in Int
  BY MessageFields, FullFields DEF Found
<1>5. /\ msg[m].ref_count - 1 = msg[m].ref_count + (-1)
      /\ msg[m].mime_ref_count - 1 = msg[m].mime_ref_count + (-1)
  BY <1>4
<1>6. msg' = [msg EXCEPT ![m] = y]
  BY <1>2, <1>3, <1>5 DEF MimeUnref, MimeTouch, Shaped
<1>7. Touched(msg[m], y) /\ MimeKept(msg[m], y, -1) /\ y.mime = b
  BY <1>3, MimeFields
<1>8. QED
  BY <1>1, <1>2, <1>6, <1>7

\* What freeing a lost list adds to the history.
LEMMA UnearnedFields ==
  ASSUME Shaped, NEW i \in 1..MaxLists, FreeMsgList(i)
  PROVE  /\ unearned' \in [Msgs -> 0..MaxFrees]
         /\ \A m \in Msgs : unearned'[m] = IF lists[i].lost /\ m \in lists[i].msgs
                                            THEN unearned[m] + 1 ELSE unearned[m]
<1>1. MaxFrees \in Nat
  BY EngineAssumption DEF EngineAssumption
<1>2. \A m \in Msgs : unearned[m] \in 0..MaxFrees
  BY DEF Shaped
<1>3. lists[i].lost => \A m \in lists[i].msgs : unearned[m] < MaxFrees
  BY DEF FreeMsgList
<1>4. unearned' = [m \in Msgs |-> IF lists[i].lost /\ m \in lists[i].msgs
                                   THEN unearned[m] + 1 ELSE unearned[m]]
  BY DEF FreeMsgList
<1>5. QED
  BY <1>1, <1>2, <1>3, <1>4

LEMMA FreeMsgListStep ==
  ASSUME TablesInv, NEW i \in DOMAIN lists, FreeMsgList(i)
  PROVE  TablesInv'
<1>1. i \in 1..MaxLists
  BY DEF TablesInv, Shaped
<1>2. lists[i] \in [of : Folders, lost : BOOLEAN, msgs : SUBSET Msgs]
  BY <1>1 DEF TablesInv, Shaped, AllLists, FreeMsgList
<1>3. ClientShaped
  <2>1. [of |-> "none"] \in AllLists
    BY DEF AllLists
  <2>2. PICK n : n = [of |-> "none"]
    OBVIOUS
  <2>3. lists' = [lists EXCEPT ![i] = n] /\ n \in AllLists /\ n.of = "none"
    BY <2>1, <2>2 DEF FreeMsgList
  <2>4. /\ lists' \in [1..MaxLists -> AllLists]
        /\ \A k \in 1..MaxLists : lists'[k].of # "none" => lists'[k] = lists[k]
    BY <1>1, <2>3 DEF TablesInv, Shaped
  <2>5. unearned' \in [Msgs -> 0..MaxFrees]
    BY <1>1, <1>2, UnearnedFields DEF TablesInv
  <2>6. QED
    BY <2>4, <2>5 DEF ClientShaped, FreeMsgList, TablesInv, Shaped
<1>4. PICK f \in Folders : f = lists[i].of
  BY <1>2
<1>5. PICK M \in SUBSET Msgs : M = lists[i].msgs
  BY <1>2
<1>6. Unref(M, f)
  BY <1>4, <1>5 DEF FreeMsgList
<1>7. (\A m \in M : Found(m)) => \A m \in M : msg[m].folder = f
  BY <1>1, <1>4, <1>5 DEF FreeMsgList, TablesInv, ListsBelong, Belongs, Found
<1>8. QED
  BY <1>3, <1>6, <1>7, UnrefStep

LEMMA MessageRefClient ==
  ASSUME Shaped, NEW m \in Msgs, MessageRef(m)
  PROVE  ClientShaped
<1>1. refs' \in [Msgs -> 0..MaxRefs]
  <2>1. refs[m] \in Nat /\ refs[m] + 1 \in 0..MaxRefs
    BY EngineAssumption DEF MessageRef, Shaped, EngineAssumption
  <2>2. QED
    BY <2>1 DEF MessageRef, Shaped
<1>2. QED
  BY <1>1 DEF ClientShaped, MessageRef, Shaped, historyVars

LEMMA MessageUnrefClient ==
  ASSUME Shaped, NEW m \in Msgs, MessageUnref(m)
  PROVE  ClientShaped
<1>1. refs' \in [Msgs -> 0..MaxRefs]
  <2>1. refs[m] \in Nat /\ refs[m] - 1 \in 0..MaxRefs
    BY EngineAssumption DEF MessageUnref, Shaped, EngineAssumption
  <2>2. QED
    BY <2>1 DEF MessageUnref, Shaped
<1>2. QED
  BY <1>1 DEF ClientShaped, MessageUnref, Shaped, historyVars

LEMMA MimeRefClient ==
  ASSUME Shaped, NEW m \in Msgs, MimeRef(m)
  PROVE  ClientShaped
<1>1. mimes' \in [Msgs -> 0..MaxRefs]
  <2>1. mimes[m] \in Nat /\ mimes[m] + 1 \in 0..MaxRefs
    BY EngineAssumption DEF MimeRef, Shaped, EngineAssumption
  <2>2. mimes' = mimes \/ mimes' = [mimes EXCEPT ![m] = mimes[m] + 1]
    BY DEF MimeRef
  <2>3. QED
    BY <2>1, <2>2 DEF Shaped
<1>2. QED
  BY <1>1 DEF ClientShaped, MimeRef, Shaped

LEMMA MimeUnrefClient ==
  ASSUME Shaped, NEW m \in Msgs, MimeUnref(m)
  PROVE  ClientShaped
<1>1. mimes' \in [Msgs -> 0..MaxRefs]
  <2>1. mimes[m] \in Nat /\ mimes[m] - 1 \in 0..MaxRefs
    BY EngineAssumption DEF MimeUnref, Shaped, EngineAssumption
  <2>2. mimes' = [mimes EXCEPT ![m] = mimes[m] - 1]
    BY DEF MimeUnref
  <2>3. QED
    BY <2>1, <2>2 DEF Shaped
<1>2. QED
  BY <1>1 DEF ClientShaped, MimeUnref, Shaped, historyVars

LEMMA MessageRefStep ==
  ASSUME TablesInv, NEW m \in Msgs, MessageRef(m)
  PROVE  TablesInv'
<1>1. Shaped
  BY DEF TablesInv
<1>2. ClientShaped
  BY <1>1, MessageRefClient
<1>3. CASE ~Found(m)
  BY <1>2, <1>3, FaultsTables DEF MessageRef
<1>4. CASE Found(m)
  <2>1. PICK y : Touched(msg[m], y) /\ msg' = [msg EXCEPT ![m] = y]
    BY <1>1, <1>4, MessageRefFields
  <2>2. UNCHANGED <<con, uid_hash>>
    BY <1>4 DEF MessageRef
  <2>3. QED
    BY <1>2, <1>4, <2>1, <2>2, TouchStep
<1>5. QED
  BY <1>3, <1>4

LEMMA MessageUnrefStep ==
  ASSUME TablesInv, NEW m \in Msgs, MessageUnref(m)
  PROVE  TablesInv'
<1>1. Shaped
  BY DEF TablesInv
<1>2. ClientShaped
  BY <1>1, MessageUnrefClient
<1>3. PICK f : f = IF Found(m) THEN msg[m].folder ELSE Inbox
  OBVIOUS
<1>4. f \in Folders
  BY <1>1, <1>3, MessageFields, FullFields, EngineAssumption DEF Found, EngineAssumption
<1>5. PICK M \in SUBSET Msgs : M = {m}
  OBVIOUS
<1>6. Unref(M, f)
  BY <1>3, <1>5 DEF MessageUnref
<1>7. (\A k \in M : Found(k)) => \A k \in M : msg[k].folder = f
  BY <1>3, <1>5
<1>8. QED
  BY <1>2, <1>4, <1>6, <1>7, UnrefStep

LEMMA MimeRefStep ==
  ASSUME TablesInv, NEW m \in Msgs, MimeRef(m)
  PROVE  TablesInv'
<1>1. Shaped
  BY DEF TablesInv
<1>2. ClientShaped
  BY <1>1, MimeRefClient
<1>3. CASE Faults
  BY <1>2, <1>3, FaultsTables
<1>4. CASE ~Faults
  <2>1. Found(m) /\ UNCHANGED <<con, uid_hash>>
    BY <1>1, <1>4, MimeRefFields
  <2>2. PICK y : Touched(msg[m], y) /\ msg' = [msg EXCEPT ![m] = y]
    BY <1>1, <1>4, MimeRefFields
  <2>3. QED
    BY <1>2, <2>1, <2>2, TouchStep
<1>5. QED
  BY <1>3, <1>4

LEMMA MimeUnrefStep ==
  ASSUME TablesInv, NEW m \in Msgs, MimeUnref(m)
  PROVE  TablesInv'
<1>1. Shaped
  BY DEF TablesInv
<1>2. ClientShaped
  BY <1>1, MimeUnrefClient
<1>3. CASE ~Found(m)
  BY <1>2, <1>3, FaultsTables DEF MimeUnref
<1>4. CASE Found(m)
  <2>1. UNCHANGED <<con, uid_hash>>
    BY <1>1, <1>4, MimeUnrefFields
  <2>2. PICK y : Touched(msg[m], y) /\ msg' = [msg EXCEPT ![m] = y]
    BY <1>1, <1>4, MimeUnrefFields
  <2>3. QED
    BY <1>2, <1>4, <2>1, <2>2, TouchStep
<1>5. QED
  BY <1>3, <1>4

\* libetpan_message_register
RegisterStep(f, u, m) ==
  /\ f \in con.ref /\ ~con.lost[f] /\ uid_hash[f][u] = NoMsg
  /\ m \in Msgs /\ msg[m].state = "none"
  /\ MaxRefs > 0
  /\ msg' = [msg EXCEPT ![m] = NewMessage(f, u)]
  /\ uid_hash' = [uid_hash EXCEPT ![f][u] = m]
  /\ refs' = [refs EXCEPT ![m] = 1]
  /\ UNCHANGED <<driver, con, hash_lock, lists, mimes, dropped, unearned, blind>>

LEMMA RegisterMessage ==
  ASSUME NEW f, NEW u, Register(f, u)
  PROVE  \E m : RegisterStep(f, u, m)
BY DEF Register, RegisterStep, Unused, historyVars

LEMMA RegisterTables ==
  ASSUME TablesInv, NEW f \in Folders, NEW u \in Uids, NEW m, RegisterStep(f, u, m)
  PROVE  TablesInv' /\ Fresh(msg'[m], f, u) /\ \A k \in Msgs \ {m} : msg'[k] = msg[k]
<1> USE DEF TablesInv
<1>1. PICK y : y = NewMessage(f, u)
  OBVIOUS
<1>2. Fresh(y, f, u)
  BY <1>1, NewMessageFields
<1>3. /\ m \in Msgs /\ msg[m].state = "none" /\ m # NoMsg
      /\ msg' = [msg EXCEPT ![m] = y]
  BY <1>1 DEF RegisterStep, Msgs, NoMsg
<1>4. msg'[m] = y /\ \A k \in Msgs \ {m} : msg'[k] = msg[k]
  BY <1>3 DEF Shaped
<1>5. msg' \in [Msgs -> NoMessages \cup FullMessages]
  BY <1>2, <1>3 DEF Shaped, Fresh
<1>6. /\ uid_hash' \in [Folders -> [Uids -> Msgs \cup {NoMsg}]]
      /\ \A g \in Folders, v \in Uids :
           uid_hash'[g][v] = IF g = f /\ v = u THEN m ELSE uid_hash[g][v]
  <2>1. PICK h : h = [uid_hash[f] EXCEPT ![u] = m]
    OBVIOUS
  <2>2. uid_hash' = [uid_hash EXCEPT ![f] = h]
    BY <2>1 DEF RegisterStep, Shaped
  <2>3. /\ h \in [Uids -> Msgs \cup {NoMsg}]
        /\ \A v \in Uids : h[v] = IF v = u THEN m ELSE uid_hash[f][v]
    BY <1>3, <2>1 DEF Shaped
  <2>4. QED
    BY <2>2, <2>3 DEF Shaped
<1>7. refs' \in [Msgs -> 0..MaxRefs]
  BY EngineAssumption DEF RegisterStep, Shaped, EngineAssumption
<1>8. Shaped'
  BY <1>5, <1>6, <1>7 DEF RegisterStep, Shaped
<1>9. ASSUME NEW k \in Msgs, msg'[k].state = "live"
      PROVE  msg'[k].folder \in con'.ref /\ uid_hash'[msg'[k].folder][msg'[k].uid] = k
  <2>1. CASE k = m
    BY <1>2, <1>4, <1>6, <2>1 DEF Fresh, RegisterStep
  <2>2. CASE k # m
    <3>1. msg[k].state = "live" /\ msg'[k] = msg[k]
      BY <1>4, <1>9, <2>2
    <3>2. msg[k].folder \in con.ref /\ uid_hash[msg[k].folder][msg[k].uid] = k
      BY <3>1 DEF Tables
    <3>3. msg[k].folder \in Folders /\ msg[k].uid \in Uids /\ k # NoMsg
      BY <3>1, MessageFields, FullFields DEF Msgs, NoMsg
    <3>4. QED
      BY <1>6, <3>1, <3>2, <3>3 DEF RegisterStep
  <2>3. QED
    BY <2>1, <2>2
<1>10. ASSUME NEW g \in Folders, NEW v \in Uids, NEW k, k = uid_hash'[g][v], k # NoMsg
       PROVE  msg'[k].state = "live" /\ msg'[k].folder = g /\ msg'[k].uid = v
  <2>1. CASE g = f /\ v = u
    BY <1>2, <1>4, <1>6, <1>10, <2>1 DEF Fresh
  <2>2. CASE ~(g = f /\ v = u)
    <3>1. uid_hash[g][v] = k
      BY <1>6, <1>10, <2>2
    <3>2. k \in Msgs /\ msg[k].state = "live" /\ msg[k].folder = g /\ msg[k].uid = v
      BY <1>10, <3>1 DEF Tables, Shaped
    <3>3. QED
      BY <1>3, <1>4, <3>2
  <2>3. QED
    BY <2>1, <2>2
<1>11. Tables'
  BY <1>9, <1>10 DEF Tables
<1>12. ASSUME NEW i \in 1..MaxLists, lists'[i].of # "none", NEW k \in lists'[i].msgs
       PROVE  Belongs(k, lists[i].of)'
  <2>1. lists'[i] = lists[i]
    BY DEF RegisterStep
  <2>2. k \in Msgs /\ Belongs(k, lists[i].of)
    BY <1>12, <2>1 DEF ListsBelong, Shaped, AllLists
  <2>3. msg'[k] = msg[k]
    BY <1>3, <1>4, <2>2 DEF Belongs
  <2>4. QED
    BY <2>1, <2>2, <2>3 DEF Belongs
<1>13. ListsBelong'
  BY <1>12 DEF ListsBelong
<1>14. Sessions'
  <2> SUFFICES ASSUME driver # "pop3", ~con.fault, NEW g \in con.ref
               PROVE  /\ con.lost[g] <=> ~con.fld[g]
                      /\ ~con.lost[g] => \A k \in Msgs :
                           msg'[k].state = "live" /\ msg'[k].folder = g => msg'[k].session = "open"
    BY DEF Sessions, RegisterStep
  <2>1. /\ con.lost[g] <=> ~con.fld[g]
        /\ ~con.lost[g] => \A k \in Msgs :
             msg[k].state = "live" /\ msg[k].folder = g => msg[k].session = "open"
    BY DEF Sessions
  <2>2. QED
    BY <1>2, <1>4, <2>1 DEF Fresh
<1>15. Linked'
  BY DEF Linked, RegisterStep, Shared
<1>16. QED
  BY <1>2, <1>4, <1>8, <1>11, <1>13, <1>14, <1>15

LEMMA OtherTables ==
  ASSUME TablesInv, StorageRemoves \/ UNCHANGED vars
  PROVE  /\ TablesInv'
         /\ UNCHANGED <<con, msg, lists, refs, mimes, dropped, unearned, blind, driver>>
<1>1. /\ UNCHANGED <<driver, con, msg, uid_hash, lists, refs, mimes, dropped, unearned, blind>>
      /\ hash_lock' \in {"free", "held"}
  <2>1. CASE StorageRemoves
    BY <2>1 DEF StorageRemoves, clientVars, historyVars, TablesInv, Shaped
  <2>2. CASE UNCHANGED vars
    BY <2>2 DEF vars, clientVars, historyVars, TablesInv, Shaped
  <2>3. QED
    BY <2>1, <2>2
<1>2. Shaped' /\ Tables' /\ ListsBelong'
  BY <1>1 DEF TablesInv, Shaped, Tables, ListsBelong, Belongs
<1>3. Sessions' /\ Linked'
  BY <1>1 DEF TablesInv, Sessions, Linked, Shared
<1>4. QED
  BY <1>1, <1>2, <1>3 DEF TablesInv

LEMMA TablesStart == Init => TablesInv
<1> SUFFICES ASSUME Init PROVE TablesInv
  OBVIOUS
<1>1. con \in Connections /\ con.cut = {} /\ con.restored = {}
  BY DEF Init, Connections
<1>2. msg \in [Msgs -> NoMessages \cup FullMessages]
  BY DEF Init, NoMessages
<1>3. lists \in [1..MaxLists -> AllLists] /\ \A i \in 1..MaxLists : lists[i].of = "none"
  BY DEF Init, AllLists
<1>4. /\ refs \in [Msgs -> 0..MaxRefs] /\ mimes \in [Msgs -> 0..MaxRefs]
      /\ unearned \in [Msgs -> 0..MaxFrees]
  BY EngineAssumption DEF Init, EngineAssumption
<1>5. Shaped
  BY <1>1, <1>2, <1>3, <1>4 DEF Init, Shaped
<1>6. Tables
  BY DEF Init, Tables
<1>7. ListsBelong
  BY <1>3 DEF ListsBelong
<1>8. con.ref = {} /\ Shared(con) = {}
  BY DEF Init, Shared
<1>9. QED
  BY <1>5, <1>6, <1>7, <1>8 DEF TablesInv, Sessions, Linked

\* TablesInv is inductive.
LEMMA TablesStep ==
  ASSUME TablesInv, [Next]_vars
  PROVE  TablesInv'
<1>1. CASE UNCHANGED vars \/ StorageRemoves
  BY <1>1, OtherTables
<1>2. ASSUME ~con.fault,
             \/ \E f \in Folders : FolderConnects(f) \/ FolderDisconnects(f)
             \/ StorageConnects \/ StorageDisconnects
      PROVE  TablesInv'
  <2>1. PICK c : Ended(con, c) /\ Connected(c) /\ UNCHANGED blind
    BY <1>2, ConnectionCalls
  <2>2. blind' \in BOOLEAN
    BY <2>1 DEF TablesInv, Shaped
  <2>3. QED
    BY <1>2, <2>1, <2>2, ConnectedStep
<1>3. ASSUME ~con.fault, NEW f \in Folders, GetMsgList(f) PROVE TablesInv'
  BY <1>3, GetMsgListStep
<1>4. ASSUME NEW i \in DOMAIN lists, FreeMsgList(i) PROVE TablesInv'
  BY <1>4, FreeMsgListStep
<1>5. ASSUME NEW m \in Msgs, MessageRef(m) \/ MessageUnref(m) \/ MimeRef(m) \/ MimeUnref(m)
      PROVE  TablesInv'
  BY <1>5, MessageRefStep, MessageUnrefStep, MimeRefStep, MimeUnrefStep
<1>6. ASSUME NEW f \in Folders, NEW u \in Uids, Register(f, u) PROVE TablesInv'
  BY <1>6, RegisterMessage, RegisterTables
<1>7. QED
  BY <1>1, <1>2, <1>3, <1>4, <1>5, <1>6 DEF Next, Call

LEMMA TablesInvariant == Spec => []TablesInv
<1>1. TablesInv /\ [Next]_vars => TablesInv'
  BY TablesStep
<1>2. QED
  BY TablesStart, <1>1, PTL DEF Spec

\* However the connections of mailengine.c break and come back, the messages
\* of a folder whose lost_session is not set point to the session that is
\* open now.
THEOREM SessionsStayCurrent == Spec => []SessionsCurrent
<1>1. TablesInv => SessionsCurrent
  <2> SUFFICES ASSUME TablesInv, driver # "pop3", ~con.fault, NEW f \in con.ref, ~con.lost[f]
               PROVE  con.fld[f] /\ \A m \in InHash(f) : msg[m].session = "open"
    BY DEF SessionsCurrent
  <2>1. f \in Folders /\ con.fld[f] \in BOOLEAN
    BY ConnectionFields DEF TablesInv, Shaped
  <2>2. con.fld[f]
    BY <2>1 DEF TablesInv, Sessions
  <2>3. QED
    BY <2>2 DEF TablesInv, Sessions, InHash, Live
<1>2. QED
  BY <1>1, TablesInvariant, PTL

-----------------------------------------------------------------------------
\* Counting the client's holds.

Listing(L, m) == {i \in 1..MaxLists : L[i].of # "none" /\ ~L[i].lost /\ m \in L[i].msgs}

LEMMA ListingFinite ==
  ASSUME NEW L, NEW m
  PROVE  IsFiniteSet(Listing(L, m)) /\ Cardinality(Listing(L, m)) \in Nat
<1>1. IsFiniteSet(1..MaxLists)
  <2>1. MaxLists \in Int /\ 1 \in Int
    BY EngineAssumption DEF EngineAssumption
  <2>2. QED
    BY <2>1, FS_Interval, Zenon
<1>2. IsFiniteSet(Listing(L, m))
  BY <1>1, FS_Subset DEF Listing
<1>3. QED
  BY <1>2, FS_CardinalityType

LEMMA ListRefsNow ==
  ASSUME Shaped
  PROVE  \A m : ListRefs(m) = Cardinality(Listing(lists, m))
<1>1. DOMAIN lists = 1..MaxLists
  BY DEF Shaped
<1>2. QED
  BY <1>1 DEF ListRefs, Listing

LEMMA ListRefsNext ==
  ASSUME Shaped'
  PROVE  \A m : ListRefs(m)' = Cardinality(Listing(lists', m))
<1>1. DOMAIN lists' = 1..MaxLists
  BY DEF Shaped
<1>2. QED
  BY <1>1 DEF ListRefs, Listing

\* The parts of Holds.
Sum(h, l, r, k) == l \in Nat /\ r \in Nat /\ k \in Nat /\ h = l + r + k

LEMMA HoldsNow ==
  ASSUME Shaped, NEW m \in Msgs
  PROVE  /\ Sum(Holds(m), ListRefs(m), refs[m], mimes[m])
         /\ Holds(m) \in Nat
<1>1. ListRefs(m) \in Nat
  BY ListRefsNow, ListingFinite
<1>2. refs[m] \in Nat /\ mimes[m] \in Nat
  BY EngineAssumption DEF Shaped, EngineAssumption
<1>3. QED
  BY <1>1, <1>2 DEF Sum, Holds

LEMMA HoldsNext ==
  ASSUME Shaped', NEW m \in Msgs
  PROVE  /\ Sum(Holds(m)', ListRefs(m)', refs'[m], mimes'[m])
         /\ Holds(m)' \in Nat
<1>1. ListRefs(m)' \in Nat
  BY ListRefsNext, ListingFinite
<1>2. refs'[m] \in Nat /\ mimes'[m] \in Nat
  BY EngineAssumption DEF Shaped, EngineAssumption
<1>3. QED
  BY <1>1, <1>2 DEF Sum, Holds

\* One more list, one list less.
LEMMA ListingAdded ==
  ASSUME NEW L, NEW K, NEW i \in 1..MaxLists, L[i].of = "none",
         \A k \in 1..MaxLists \ {i} : K[k] = L[k] \/ (L[k].of = "none" /\ K[k].lost),
         K[i].of # "none", ~K[i].lost, NEW m
  PROVE  Cardinality(Listing(K, m)) =
           IF m \in K[i].msgs THEN Cardinality(Listing(L, m)) + 1 ELSE Cardinality(Listing(L, m))
<1>1. CASE m \in K[i].msgs
  <2>1. Listing(K, m) = Listing(L, m) \cup {i} /\ i \notin Listing(L, m)
    BY <1>1 DEF Listing
  <2>2. IsFiniteSet(Listing(L, m))
    BY ListingFinite
  <2>3. Cardinality(Listing(L, m) \cup {i}) = Cardinality(Listing(L, m)) + 1
    BY <2>1, <2>2, FS_AddElement
  <2>4. QED
    BY <1>1, <2>1, <2>3, Zenon
<1>2. CASE m \notin K[i].msgs
  <2>1. Listing(K, m) = Listing(L, m)
    BY <1>2 DEF Listing
  <2>2. QED
    BY <1>2, <2>1
<1>3. QED
  BY <1>1, <1>2

\* A lost list that goes.
LEMMA ListingLost ==
  ASSUME NEW L, NEW K, NEW i \in 1..MaxLists, K[i].of = "none",
         \A k \in 1..MaxLists \ {i} : K[k] = L[k], L[i].lost, NEW m
  PROVE  Listing(K, m) = Listing(L, m)
BY DEF Listing

LEMMA ListingFreed ==
  ASSUME NEW L, NEW K, NEW i \in 1..MaxLists, K[i].of = "none",
         \A k \in 1..MaxLists \ {i} : K[k] = L[k], L[i].of # "none", ~L[i].lost, NEW m
  PROVE  Cardinality(Listing(K, m)) =
           IF m \in L[i].msgs THEN Cardinality(Listing(L, m)) - 1 ELSE Cardinality(Listing(L, m))
<1>1. CASE m \in L[i].msgs
  <2>1. Listing(K, m) = Listing(L, m) \ {i} /\ i \in Listing(L, m)
    BY <1>1 DEF Listing
  <2>2. QED
    BY <1>1, <2>1, ListingFinite, FS_RemoveElement
<1>2. CASE m \notin L[i].msgs
  <2>1. Listing(K, m) = Listing(L, m)
    BY <1>2 DEF Listing
  <2>2. QED
    BY <1>2, <2>1
<1>3. QED
  BY <1>1, <1>2

\* The parts of Counts.
NotNegative ==
  \A m \in Msgs : msg[m].state \in {"live", "orphan"} => msg[m].mime_ref_count >= 0

\* Nothing of the client's history excuses a fault.
Clear == dropped = {} /\ driver # "pop3" /\ (\A m \in Msgs : unearned[m] = 0) /\ ~blind

LEMMA FaultExcused ==
  /\ ~Clear \/ ~con.fault => NoFault
  /\ ~Clear' \/ ~con'.fault => NoFault'
BY DEF Clear, NoFault

LEMMA UnearnedNow ==
  ASSUME Shaped, NEW m \in Msgs
  PROVE  unearned[m] \in Nat
BY EngineAssumption DEF Shaped, EngineAssumption

LEMMA UnearnedNext ==
  ASSUME Shaped', NEW m \in Msgs
  PROVE  unearned'[m] \in Nat
BY EngineAssumption DEF Shaped, EngineAssumption

\* What the client holds is there, unless a folder was dropped or a lost list
\* released it.
LEMMA HeldFound ==
  ASSUME CountsInv, ~con.fault, dropped = {}, NEW m \in Msgs, unearned[m] = 0, Holds(m) > 0
  PROVE  Found(m)
<1>1. Shaped /\ Tables /\ Counted(m)
  BY DEF CountsInv, TablesInv, Counts
<1>2. Holds(m) \in Nat
  BY <1>1, HoldsNow
<1>3. msg[m].state = "live"
  BY <1>1, <1>2, MessageFields DEF Counted
<1>4. QED
  BY <1>1, <1>3 DEF Tables, Found

\* A call that follows a pointer to nothing
LEMMA FaultsCounts ==
  ASSUME CountsInv, Faults, con'.fault
  PROVE  Counts'
<1>1. NotNegative'
  BY DEF Faults, CountsInv, Counts, NotNegative
<1>2. QED
  BY <1>1 DEF Counts, NotNegative

LEMMA ConnectedCounts ==
  ASSUME CountsInv, ~con.fault, NEW c, Ended(con, c), Connected(c), blind' \in BOOLEAN
  PROVE  CountsInv'
<1>1. TablesInv' /\ Shaped /\ c \in Connections
  BY ConnectedStep DEF CountsInv, TablesInv, Ended
<1>2. NoFault'
  BY ConnectedLinked, FaultExcused DEF CountsInv, TablesInv, Clear
<1>3. Moved(c)
  BY <1>1, ConnectedMoved
<1>4. lists' = lists /\ refs' = refs /\ mimes' = mimes /\ unearned' = unearned
  BY DEF Connected, clientVars
<1>6. \A m : Holds(m)' = Holds(m)
  BY <1>4 DEF Holds, ListRefs
<1>7. ASSUME NEW m \in Msgs, msg'[m].state \in {"live", "orphan"}
      PROVE  /\ msg[m].state \in {"live", "orphan"} /\ SameCounts(msg[m], msg'[m])
             /\ msg'[m].state = IF msg[m].folder \in con.ref \ c.ref THEN "orphan" ELSE msg[m].state
  BY <1>3, <1>7 DEF Moved, After
<1>8. NotNegative'
  BY <1>7 DEF CountsInv, Counts, NotNegative, SameCounts
<1>9. ASSUME NEW m \in Msgs PROVE Counted(m)'
  <2>1. Counted(m)
    BY DEF CountsInv, Counts
  <2>2. CASE msg'[m].state = "live"
    <3>1. msg[m].state = "live" /\ SameCounts(msg[m], msg'[m])
      BY <1>1, <1>7, <2>2, MessageFields
    <3>2. QED
      BY <1>4, <1>6, <2>1, <2>2, <3>1 DEF Counted, SameCounts
  <2>3. CASE msg'[m].state = "orphan"
    <3>1. msg[m].state \in {"live", "orphan"} /\ msg'[m].folder = msg[m].folder
      BY <1>7, <2>3 DEF SameCounts
    <3>2. ASSUME Holds(m) > 0 PROVE msg[m].folder \in dropped'
      <4>1. CASE msg[m].state = "orphan"
        BY <2>1, <3>2, <4>1 DEF Counted, Connected
      <4>2. CASE msg[m].state = "live"
        <5>1. msg[m].folder \in con.ref \ c.ref
          BY <1>7, <2>3, <4>2
        <5>2. ~Quiet(msg[m].folder)
          BY <3>2, <4>2 DEF Held, Quiet
        <5>3. QED
          BY <5>1, <5>2 DEF Connected
      <4>3. QED
        BY <3>1, <4>1, <4>2
    <3>3. QED
      BY <1>6, <2>3, <3>1, <3>2 DEF Counted
  <2>4. CASE msg'[m].state \notin {"live", "orphan"}
    <3>1. msg'[m] = msg[m]
      BY <1>1, <1>3, <2>4, FullFields DEF Moved, After, SameCounts
    <3>2. QED
      BY <1>4, <1>6, <2>1, <2>4, <3>1 DEF Counted
  <2>5. QED
    BY <2>2, <2>3, <2>4
<1>10. QED
  BY <1>1, <1>2, <1>8, <1>9 DEF CountsInv, Counts, NotNegative

LEMMA ListCounts ==
  ASSUME CountsInv, ~con.fault, NEW f \in Folders,
         NEW c \in Connections, c.ref = con.ref, ~c.fault, TablesInv',
         NEW obj \in Objects(f), NEW i \in 1..MaxLists, NEW j \in 1..MaxLists,
         ListStep(f, c, obj, i, j)
  PROVE  CountsInv'
<1>1. Shaped /\ Tables /\ Shaped'
  BY DEF CountsInv, TablesInv
<1>2. Listed(f, c, obj, i, j) /\ lists[i].of = "none" /\ lists[j].of = "none"
  BY DEF ListStep
<1>3. ~con'.fault
  BY SettledFields DEF ListStep
<1>4. ListsStep(f, obj, i, j)
  BY <1>1, <1>2, ListedLists
<1>5. /\ lists'[i].of = f /\ lists'[i].lost = FALSE /\ lists'[i].msgs = News(f, obj)
      /\ \A k \in 1..MaxLists \ {i} : lists'[k] = lists[k] \/ (lists[k].of = "none" /\ lists'[k].lost)
  BY <1>2, <1>4 DEF ListsStep
<1>7. ASSUME NEW m \in Msgs
      PROVE  ListRefs(m)' = IF m \in News(f, obj) THEN ListRefs(m) + 1 ELSE ListRefs(m)
  <2>1. PICK L : L = lists
    OBVIOUS
  <2>2. PICK K : K = lists'
    OBVIOUS
  <2>3. lists'[i].of # "none"
    BY <1>5, EngineAssumption DEF EngineAssumption
  <2>4. Cardinality(Listing(K, m)) =
          IF m \in K[i].msgs THEN Cardinality(Listing(L, m)) + 1 ELSE Cardinality(Listing(L, m))
    BY <1>2, <1>5, <2>1, <2>2, <2>3, ListingAdded
  <2>5. QED
    BY <1>1, <1>5, <2>1, <2>2, <2>4, ListRefsNow, ListRefsNext
<1>8. refs' = refs /\ mimes' = mimes /\ dropped' = dropped /\ unearned' = unearned
  BY DEF ListStep
<1>9. ASSUME NEW m \in Msgs
      PROVE  /\ Counted(m)'
             /\ msg'[m].state \in {"live", "orphan"} => msg'[m].mime_ref_count >= 0
  <2>1. /\ Counted(m) /\ unearned[m] \in Nat
        /\ msg[m].state \in {"live", "orphan"} => msg[m].mime_ref_count >= 0
    BY <1>1, UnearnedNow DEF CountsInv, Counts
  <2>2. Relisted(m, f, obj, msg'[m])
    BY <1>1, <1>2, ListedMessage
  <2>3. PICK h \in Nat : h = Holds(m) /\ Sum(h, ListRefs(m), refs[m], mimes[m])
    BY <1>1, HoldsNow
  <2>4. PICK n \in Nat : n = Holds(m)' /\ Sum(n, ListRefs(m)', refs[m], mimes[m])
    BY <1>1, <1>8, HoldsNext
  <2>5. n = IF m \in News(f, obj) THEN h + 1 ELSE h
    BY <1>7, <2>3, <2>4 DEF Sum
  <2>6. CASE m \in News(f, obj) /\ msg[m].state = "none"
    <3>1. PICK u \in DOMAIN obj : m = obj[u]
      BY <2>6 DEF News
    <3>2. Fresh(msg'[m], f, u)
      BY <1>1, <2>2, <2>6, <3>1, RelistedFresh
    <3>3. h = 0 /\ mimes[m] = 0 /\ unearned[m] = 0
      <4>1. h = 0 /\ unearned[m] = 0
        BY <2>1, <2>3, <2>6 DEF Counted
      <4>2. mimes[m] = 0
        BY <2>3, <4>1 DEF Sum
      <4>3. QED
        BY <4>1, <4>2
    <3>4. n = 1
      BY <2>5, <2>6, <3>3
    <3>5. QED
      BY <1>8, <2>4, <3>2, <3>3, <3>4 DEF Fresh, Counted
  <2>7. CASE m \in News(f, obj) /\ msg[m].state # "none"
    <3>1. msg[m].state = "live" /\ Kept(msg[m], msg'[m], 1)
      BY <2>2, <2>7 DEF Relisted
    <3>2. n = h + 1
      BY <2>5, <2>7
    <3>3. msg[m].ref_count \in Int /\ msg[m].mime_ref_count \in Int
      BY <1>1, <3>1, MessageFields, FullFields
    <3>4. Counted(m)'
      BY <1>8, <2>1, <2>3, <2>4, <3>1, <3>2 DEF Kept, Counted
    <3>5. QED
      BY <2>1, <3>1, <3>3, <3>4 DEF Kept
  <2>8. CASE m \notin News(f, obj) /\ msg[m].state \in {"live", "orphan"}
    <3>1. Kept(msg[m], msg'[m], 0)
      BY <2>2, <2>8 DEF Relisted
    <3>2. n = h
      BY <2>5, <2>8
    <3>3. msg[m].ref_count \in Int /\ msg[m].mime_ref_count \in Int
      BY <1>1, <2>8, MessageFields, FullFields
    <3>4. msg'[m].ref_count = msg[m].ref_count /\ msg'[m].mime_ref_count = msg[m].mime_ref_count
          /\ msg'[m].state = msg[m].state /\ msg'[m].mime = msg[m].mime
          /\ msg'[m].folder = msg[m].folder
      BY <3>1, <3>3 DEF Kept
    <3>5. Counted(m)'
      BY <1>8, <2>1, <2>3, <2>4, <3>2, <3>4 DEF Counted
    <3>6. QED
      BY <2>1, <3>4, <3>5
  <2>9. CASE m \notin News(f, obj) /\ msg[m].state \notin {"live", "orphan"}
    <3>1. msg'[m] = msg[m]
      BY <2>2, <2>9 DEF Relisted
    <3>2. n = h
      BY <2>5, <2>9
    <3>3. QED
      BY <1>8, <2>1, <2>3, <2>4, <2>9, <3>1, <3>2 DEF Counted
  <2>10. QED
    BY <2>6, <2>7, <2>8, <2>9
<1>10. NotNegative'
  BY <1>9 DEF NotNegative
<1>11. Counts'
  BY <1>9, <1>10 DEF Counts, NotNegative
<1>12. QED
  BY <1>3, <1>11, FaultExcused DEF CountsInv

-----------------------------------------------------------------------------
\* The counters, action by action.

CountersOK(m) == msg[m].state \in {"live", "orphan"} => msg[m].mime_ref_count >= 0

\* A step after which every message is counted.
LEMMA CountsFollow ==
  ASSUME CountsInv, ~con.fault, TablesInv', UNCHANGED con,
         \A m \in Msgs : Counted(m)' /\ CountersOK(m)'
  PROVE  CountsInv'
<1>1. NotNegative'
  BY DEF NotNegative, CountersOK
<1>2. NoFault'
  BY FaultExcused
<1>3. QED
  BY <1>1, <1>2 DEF CountsInv, Counts, NotNegative

\* A step that faults has an excuse.
LEMMA CountsFault ==
  ASSUME CountsInv, ClientShaped, Faults, ~Clear'
  PROVE  CountsInv'
<1>1. TablesInv' /\ con'.fault
  BY FaultsTables DEF CountsInv
<1>2. NoFault'
  BY FaultExcused
<1>3. QED
  BY <1>1, <1>2, FaultsCounts DEF CountsInv

LEMMA GetMsgListCounts ==
  ASSUME CountsInv, ~con.fault, NEW f \in Folders, GetMsgList(f)
  PROVE  CountsInv'
<1> DEFINE null == driver # "pop3" /\ ~con.fld[f]
<1>1. f \in con.ref /\ Shaped /\ Sessions /\ blind' \in BOOLEAN
  BY DEF GetMsgList, CountsInv, TablesInv
<1>2. TablesInv'
  BY GetMsgListStep DEF CountsInv
<1>a. CASE null
  <2>1. Faults /\ UNCHANGED <<driver, hash_lock, clientVars, dropped, unearned>>
    BY <1>a DEF GetMsgList
  <2>2. ClientShaped
    BY <1>1, <2>1 DEF ClientShaped, clientVars, Shaped
  <2>3. con.lost[f]
    BY <1>1, <1>a DEF Sessions
  <2>4. blind'
    BY <2>3 DEF GetMsgList
  <2>5. QED
    BY <2>1, <2>2, <2>4, CountsFault DEF Clear
<1> SUFFICES ASSUME ~null PROVE CountsInv'
  BY <1>a
<1>3. PICK o \in MessagesList(f) :
        \/ o.r # "ok" /\ Connected(o.c)
        \/ \E i, j \in DOMAIN lists : \E obj \in Objects(f) : ListStep(f, o.c, obj, i, j)
  BY <1>1 DEF GetMsgList, ListStep
<1>4. PICK c : c = o.c
  OBVIOUS
<1>5. Ended(con, c) /\ c.ref = con.ref /\ ~c.fault
  BY <1>1, <1>4, MessagesListEnds
<1>6. CASE Connected(c)
  BY <1>1, <1>5, <1>6, ConnectedCounts
<1>7. CASE \E i, j \in DOMAIN lists : \E obj \in Objects(f) : ListStep(f, c, obj, i, j)
  <2>1. DOMAIN lists = 1..MaxLists
    BY <1>1 DEF Shaped
  <2>2. PICK i \in 1..MaxLists, j \in 1..MaxLists, obj \in Objects(f) : ListStep(f, c, obj, i, j)
    BY <1>7, <2>1
  <2>3. c \in Connections
    BY <1>5 DEF Ended
  <2>4. QED
    BY <1>2, <1>5, <2>2, <2>3, ListCounts
<1>8. QED
  BY <1>3, <1>4, <1>6, <1>7

\* A message that the step leaves alone, and one that it touches.
LEMMA SameCounted ==
  ASSUME CountsInv, ~con.fault, NEW m \in Msgs, msg'[m] = msg[m], Holds(m)' = Holds(m),
         mimes'[m] = mimes[m], dropped' = dropped, unearned'[m] = unearned[m]
  PROVE  Counted(m)' /\ CountersOK(m)'
<1>1. Counted(m) /\ CountersOK(m)
  BY DEF CountsInv, Counts, CountersOK
<1>2. CountersOK(m)'
  BY <1>1 DEF CountersOK
<1>3. QED
  BY <1>1, <1>2 DEF Counted

LEMMA LiveCounted ==
  ASSUME Shaped', NEW m \in Msgs, msg'[m].state = "live",
         msg'[m].ref_count = Holds(m)' - unearned'[m],
         msg'[m].mime_ref_count = mimes'[m], mimes'[m] > 0 => msg'[m].mime
  PROVE  Counted(m)' /\ CountersOK(m)'
<1>1. mimes'[m] \in Nat
  BY HoldsNext DEF Sum
<1>2. CountersOK(m)'
  BY <1>1 DEF CountersOK
<1>3. QED
  BY <1>2 DEF Counted

LEMMA LiveNow ==
  ASSUME CountsInv, ~con.fault, NEW m \in Msgs, Found(m)
  PROVE  /\ msg[m].state = "live" /\ msg[m].ref_count = Holds(m) - unearned[m]
         /\ msg[m].mime_ref_count = mimes[m] /\ (mimes[m] > 0 => msg[m].mime)
         /\ Holds(m) \in Nat /\ unearned[m] \in Nat
<1>1. Shaped
  BY DEF CountsInv, TablesInv
<1>2. Holds(m) \in Nat /\ unearned[m] \in Nat
  BY <1>1, HoldsNow, UnearnedNow
<1>3. QED
  BY <1>2 DEF CountsInv, Counts, Counted, Found

LEMMA HoldsSame ==
  ASSUME NEW m, lists' = lists, refs'[m] = refs[m], mimes'[m] = mimes[m]
  PROVE  Holds(m)' = Holds(m)
BY DEF Holds, ListRefs

\* A step on one message.
LEMMA OneCounted ==
  ASSUME CountsInv, ~con.fault, TablesInv', ClientShaped, UNCHANGED <<con, lists, unearned>>,
         NEW m \in Msgs, Counted(m)', CountersOK(m)',
         \A k \in Msgs \ {m} : msg'[k] = msg[k] /\ refs'[k] = refs[k] /\ mimes'[k] = mimes[k]
  PROVE  CountsInv'
<1>1. dropped' = dropped
  BY DEF ClientShaped
<1>2. ASSUME NEW k \in Msgs PROVE Counted(k)' /\ CountersOK(k)'
  <2>1. CASE k = m
    BY <2>1
  <2>2. CASE k # m
    <3>1. msg'[k] = msg[k] /\ mimes'[k] = mimes[k] /\ Holds(k)' = Holds(k)
      BY <2>2, HoldsSame
    <3>2. QED
      BY <1>1, <3>1, SameCounted
  <2>3. QED
    BY <2>1, <2>2
<1>3. QED
  BY <1>2, CountsFollow

LEMMA MessageRefCounts ==
  ASSUME CountsInv, ~con.fault, NEW m \in Msgs, MessageRef(m)
  PROVE  CountsInv'
<1>1. Shaped /\ TablesInv' /\ Shaped'
  BY MessageRefStep DEF CountsInv, TablesInv
<1>2. ClientShaped
  BY <1>1, MessageRefClient
<1>3. CASE ~Found(m)
  <2>1. Faults /\ Holds(m) > 0
    BY <1>3 DEF MessageRef
  <2>2. ~Clear'
    BY <1>2, <1>3, <2>1, HeldFound DEF Clear, ClientShaped, MessageRef, historyVars
  <2>3. QED
    BY <1>2, <2>1, <2>2, CountsFault
<1>4. CASE Found(m)
  <2>1. PICK y : Touched(msg[m], y) /\ Kept(msg[m], y, 1) /\ msg' = [msg EXCEPT ![m] = y]
    BY <1>1, <1>4, MessageRefFields
  <2>2. UNCHANGED <<con, lists, unearned>> /\ mimes' = mimes /\ refs' = [refs EXCEPT ![m] = refs[m] + 1]
    BY <1>4 DEF MessageRef, historyVars
  <2>3. \A k \in Msgs \ {m} : msg'[k] = msg[k] /\ refs'[k] = refs[k] /\ mimes'[k] = mimes[k]
    BY <1>1, <2>1, <2>2 DEF Shaped
  <2>4. msg'[m] = y /\ refs'[m] = refs[m] + 1 /\ mimes'[m] = mimes[m]
    BY <1>1, <2>1, <2>2 DEF Shaped
  <2>5. ListRefs(m)' = ListRefs(m)
    BY <2>2 DEF ListRefs
  <2>6. Holds(m)' = Holds(m) + 1
    BY <1>1, <2>4, <2>5, HoldsNow, HoldsNext DEF Sum
  <2>7. /\ msg'[m].state = "live" /\ msg'[m].ref_count = Holds(m)' - unearned'[m]
        /\ msg'[m].mime_ref_count = mimes'[m] /\ (mimes'[m] > 0 => msg'[m].mime)
    BY <1>4, <2>1, <2>2, <2>4, <2>6, LiveNow DEF Kept
  <2>8. Counted(m)' /\ CountersOK(m)'
    BY <1>1, <2>7, LiveCounted
  <2>9. QED
    BY <1>1, <1>2, <2>2, <2>3, <2>8, OneCounted
<1>5. QED
  BY <1>3, <1>4

LEMMA MimeRefCounts ==
  ASSUME CountsInv, ~con.fault, NEW m \in Msgs, MimeRef(m)
  PROVE  CountsInv'
<1>1. Shaped /\ TablesInv' /\ Shaped'
  BY MimeRefStep DEF CountsInv, TablesInv
<1>2. ClientShaped
  BY <1>1, MimeRefClient
<1>3. CASE Faults
  <2>1. SUFFICES ASSUME Clear' PROVE FALSE
    BY <1>2, <1>3, CountsFault
  <2>2. /\ Holds(m) > 0 /\ dropped = {} /\ driver # "pop3" /\ unearned[m] = 0
        /\ ~(Found(m) /\ con.lost[msg[m].folder])
    BY <1>2, <2>1 DEF MimeRef, Clear, ClientShaped
  <2>3. Found(m)
    BY <2>2, HeldFound
  <2>4. PICK f : f = msg[m].folder
    OBVIOUS
  <2>5. f \in con.ref /\ ~con.lost[f] /\ msg[m].state = "live"
    BY <2>2, <2>3, <2>4 DEF Found
  <2>6. msg[m].session = "open"
    BY <2>2, <2>4, <2>5 DEF CountsInv, TablesInv, Sessions
  <2>7. UNCHANGED con
    BY <2>3, <2>6 DEF MimeRef
  <2>8. con'.fault
    BY <1>2, <1>3, FaultsTables DEF CountsInv
  <2>9. QED
    BY <2>7, <2>8
<1>4. CASE ~Faults
  <2>1. Found(m) /\ mimes' = [mimes EXCEPT ![m] = mimes[m] + 1] /\ UNCHANGED con
    BY <1>1, <1>4, MimeRefFields
  <2>2. PICK y : /\ Touched(msg[m], y) /\ MimeKept(msg[m], y, 1) /\ y.mime = TRUE
                 /\ msg' = [msg EXCEPT ![m] = y]
    BY <1>1, <1>4, MimeRefFields
  <2>3. UNCHANGED <<con, lists, unearned>> /\ refs' = refs
    BY <2>1 DEF MimeRef
  <2>4. \A k \in Msgs \ {m} : msg'[k] = msg[k] /\ refs'[k] = refs[k] /\ mimes'[k] = mimes[k]
    BY <1>1, <2>1, <2>2, <2>3 DEF Shaped
  <2>5. msg'[m] = y /\ mimes'[m] = mimes[m] + 1 /\ refs'[m] = refs[m]
    BY <1>1, <2>1, <2>2, <2>3 DEF Shaped
  <2>6. ListRefs(m)' = ListRefs(m)
    BY <2>3 DEF ListRefs
  <2>7. Holds(m)' = Holds(m) + 1
    BY <1>1, <2>5, <2>6, HoldsNow, HoldsNext DEF Sum
  <2>8. /\ msg'[m].state = "live" /\ msg'[m].ref_count = Holds(m)' - unearned'[m]
        /\ msg'[m].mime_ref_count = mimes'[m] /\ (mimes'[m] > 0 => msg'[m].mime)
    BY <2>1, <2>2, <2>3, <2>5, <2>7, LiveNow DEF Touched, MimeKept
  <2>9. Counted(m)' /\ CountersOK(m)'
    BY <1>1, <2>8, LiveCounted
  <2>10. QED
    BY <1>1, <1>2, <2>3, <2>4, <2>9, OneCounted
<1>5. QED
  BY <1>3, <1>4

LEMMA MimeUnrefCounts ==
  ASSUME CountsInv, ~con.fault, NEW m \in Msgs, MimeUnref(m)
  PROVE  CountsInv'
<1>1. Shaped /\ TablesInv' /\ Shaped'
  BY MimeUnrefStep DEF CountsInv, TablesInv
<1>2. ClientShaped
  BY <1>1, MimeUnrefClient
<1>3. mimes[m] > 0 /\ mimes[m] \in Nat
  BY <1>1, HoldsNow DEF MimeUnref, Sum
<1>4. CASE ~Found(m)
  <2>1. Faults
    BY <1>4 DEF MimeUnref
  <2>2. Holds(m) > 0
    BY <1>1, <1>3, HoldsNow DEF Sum
  <2>3. ~Clear'
    BY <1>2, <1>4, <2>2, HeldFound DEF Clear, ClientShaped, MimeUnref, historyVars
  <2>4. QED
    BY <1>2, <2>1, <2>3, CountsFault
<1>5. CASE Found(m)
  <2>1. UNCHANGED con
    BY <1>1, <1>5, MimeUnrefFields
  <2>2. PICK y : /\ Touched(msg[m], y) /\ MimeKept(msg[m], y, -1)
                 /\ y.mime = (msg[m].mime_ref_count # 1) /\ msg' = [msg EXCEPT ![m] = y]
    BY <1>1, <1>5, MimeUnrefFields
  <2>3. UNCHANGED <<con, lists, unearned>> /\ refs' = refs /\ mimes' = [mimes EXCEPT ![m] = mimes[m] - 1]
    BY <2>1 DEF MimeUnref, historyVars
  <2>4. \A k \in Msgs \ {m} : msg'[k] = msg[k] /\ refs'[k] = refs[k] /\ mimes'[k] = mimes[k]
    BY <1>1, <2>2, <2>3 DEF Shaped
  <2>5. msg'[m] = y /\ mimes'[m] = mimes[m] - 1 /\ refs'[m] = refs[m]
    BY <1>1, <2>2, <2>3 DEF Shaped
  <2>6. ListRefs(m)' = ListRefs(m)
    BY <2>3 DEF ListRefs
  <2>7. Holds(m)' = Holds(m) - 1
    BY <1>1, <2>5, <2>6, HoldsNow, HoldsNext DEF Sum
  <2>8. /\ msg[m].state = "live" /\ msg[m].ref_count = Holds(m) - unearned[m]
        /\ msg[m].mime_ref_count = mimes[m]
    BY <1>5, LiveNow
  <2>9. Holds(m) \in Nat /\ unearned[m] \in Nat
    BY <1>5, LiveNow
  <2>10. /\ msg'[m].state = "live" /\ msg'[m].ref_count = Holds(m)' - unearned'[m]
         /\ msg'[m].mime_ref_count = mimes'[m]
    BY <1>3, <2>2, <2>3, <2>5, <2>7, <2>8, <2>9 DEF Touched, MimeKept
  <2>11. mimes'[m] > 0 => msg'[m].mime
    <3>1. mimes'[m] > 0 => msg[m].mime_ref_count # 1
      BY <1>3, <2>5, <2>8
    <3>2. msg'[m].mime = (msg[m].mime_ref_count # 1)
      BY <2>2, <2>5
    <3>3. QED
      BY <3>1, <3>2, Zenon
  <2>12. Counted(m)' /\ CountersOK(m)'
    BY <1>1, <2>10, <2>11, LiveCounted
  <2>13. QED
    BY <1>1, <1>2, <2>3, <2>4, <2>12, OneCounted
<1>6. QED
  BY <1>4, <1>5

\* What is left of the holds on a message, and the messages that lose one of
\* them in a call of folder_message_unref.
Net(m) == Holds(m) - unearned[m]

LEMMA UnrefHolds ==
  ASSUME CountsInv, ~con.fault, TablesInv', ClientShaped, mimes' = mimes,
         NEW M \in SUBSET Msgs, \A m \in M : Found(m), NEW f, Unref(M, f),
         \A m \in Msgs \ M : Holds(m)' = Holds(m) /\ unearned'[m] = unearned[m],
         \A m \in M : Net(m)' = Net(m) - 1
  PROVE  CountsInv'
<1>1. Shaped /\ Shaped'
  BY DEF CountsInv, TablesInv
<1>2. dropped' = dropped
  BY DEF ClientShaped
<1>3. UNCHANGED con
  BY DEF Unref
<1>4. ASSUME NEW m \in Msgs PROVE Counted(m)' /\ CountersOK(m)'
  <2>1. CASE m \notin M
    <3>1. msg'[m] = msg[m]
      BY <1>1, <2>1, UnrefCounts
    <3>2. QED
      BY <1>2, <2>1, <3>1, SameCounted
  <2>2. CASE m \in Last(M)
    <3>1. m \in M /\ msg[m].ref_count = 1
      BY <2>2 DEF Last
    <3>2. Net(m) = 1
      BY <3>1, LiveNow DEF Net
    <3>3. Net(m)' = 0
      BY <3>1, <3>2
    <3>4. Holds(m)' \in Nat /\ unearned'[m] \in Nat
      BY <1>1, HoldsNext, UnearnedNext
    <3>5. Holds(m)' = unearned'[m]
      BY <3>3, <3>4 DEF Net
    <3>6. msg'[m] = [state |-> "freed"]
      BY <1>1, <2>2, UnrefCounts
    <3>7. msg'[m].state = "freed"
      BY <3>6
    <3>8. QED
      BY <3>5, <3>7 DEF Counted, CountersOK
  <2>3. CASE m \in M \ Last(M)
    <3>1. Kept(msg[m], msg'[m], -1)
      BY <1>1, <2>3, UnrefCounts
    <3>2. Net(m)' = Net(m) - 1 /\ mimes'[m] = mimes[m]
      BY <1>1, <2>3
    <3>3. msg[m].ref_count = Net(m) /\ Net(m) \in Int
      BY <2>3, LiveNow DEF Net
    <3>4. msg'[m].ref_count = Net(m)'
      BY <3>1, <3>2, <3>3 DEF Kept
    <3>5. /\ msg'[m].state = "live" /\ msg'[m].ref_count = Holds(m)' - unearned'[m]
          /\ msg'[m].mime_ref_count = mimes'[m] /\ (mimes'[m] > 0 => msg'[m].mime)
      BY <2>3, <3>1, <3>2, <3>4, LiveNow DEF Kept, Net
    <3>6. QED
      BY <1>1, <3>5, LiveCounted
  <2>4. QED
    BY <2>1, <2>2, <2>3 DEF Last
<1>5. QED
  BY <1>3, <1>4, CountsFollow

LEMMA MessageUnrefCounts ==
  ASSUME CountsInv, ~con.fault, NEW m \in Msgs, MessageUnref(m)
  PROVE  CountsInv'
<1>1. Shaped /\ TablesInv' /\ Shaped'
  BY MessageUnrefStep DEF CountsInv, TablesInv
<1>2. ClientShaped
  BY <1>1, MessageUnrefClient
<1>3. /\ refs[m] > 0 /\ lists' = lists /\ mimes' = mimes /\ refs' = [refs EXCEPT ![m] = refs[m] - 1]
      /\ unearned' = unearned
  BY DEF MessageUnref, historyVars
<1>4. PICK M \in SUBSET Msgs : M = {m}
  OBVIOUS
<1>5. PICK f : Unref(M, f)
  BY <1>4 DEF MessageUnref
<1>6. CASE ~Found(m)
  <2>1. Faults
    BY <1>4, <1>5, <1>6 DEF Unref
  <2>2. Holds(m) > 0
    BY <1>1, <1>3, HoldsNow DEF Sum
  <2>3. ~Clear'
    BY <1>2, <1>3, <1>6, <2>2, HeldFound DEF Clear, ClientShaped
  <2>4. QED
    BY <1>2, <2>1, <2>3, CountsFault
<1>7. CASE Found(m)
  <2>1. ASSUME NEW k \in Msgs
        PROVE  Holds(k)' = IF k \in M THEN Holds(k) - 1 ELSE Holds(k)
    <3>1. CASE k \in M
      <4>1. k = m /\ refs'[k] = refs[k] - 1 /\ mimes'[k] = mimes[k] /\ ListRefs(k)' = ListRefs(k)
        BY <1>1, <1>3, <1>4, <3>1 DEF Shaped, ListRefs
      <4>2. QED
        BY <1>1, <3>1, <4>1, HoldsNow, HoldsNext DEF Sum
    <3>2. CASE k \notin M
      <4>1. refs'[k] = refs[k] /\ mimes'[k] = mimes[k]
        BY <1>1, <1>3, <1>4, <3>2 DEF Shaped
      <4>2. QED
        BY <1>3, <3>2, <4>1, HoldsSame
    <3>3. QED
      BY <3>1, <3>2
  <2>2. \A k \in M : Found(k)
    BY <1>4, <1>7
  <2>3. ASSUME NEW k \in M PROVE Net(k)' = Net(k) - 1
    <3>1. Holds(k)' = Holds(k) - 1 /\ Holds(k) \in Nat /\ unearned[k] \in Nat
      BY <1>1, <2>1, HoldsNow, UnearnedNow
    <3>2. QED
      BY <1>3, <3>1 DEF Net
  <2>4. \A k \in Msgs \ M : Holds(k)' = Holds(k) /\ unearned'[k] = unearned[k]
    BY <1>3, <2>1
  <2>5. QED
    BY <1>1, <1>2, <1>3, <1>5, <2>2, <2>3, <2>4, UnrefHolds
<1>8. QED
  BY <1>6, <1>7

LEMMA FreeMsgListCounts ==
  ASSUME CountsInv, ~con.fault, NEW i \in DOMAIN lists, FreeMsgList(i)
  PROVE  CountsInv'
<1>1. Shaped /\ TablesInv' /\ Shaped'
  BY FreeMsgListStep DEF CountsInv, TablesInv
<1>2. i \in 1..MaxLists /\ lists[i].of # "none"
  BY <1>1 DEF FreeMsgList, Shaped
<1>3. lists[i] \in [of : Folders, lost : BOOLEAN, msgs : SUBSET Msgs]
  BY <1>1, <1>2 DEF Shaped, AllLists
<1>4. PICK n : n = [of |-> "none"]
  OBVIOUS
<1>5. lists' = [lists EXCEPT ![i] = n] /\ n.of = "none"
  BY <1>4 DEF FreeMsgList
<1>6. lists'[i].of = "none" /\ \A k \in 1..MaxLists \ {i} : lists'[k] = lists[k]
  BY <1>1, <1>2, <1>5 DEF Shaped
<1>7. refs' = refs /\ mimes' = mimes
  BY DEF FreeMsgList
<1>8. ClientShaped
  <2>1. \A k \in 1..MaxLists : lists'[k].of # "none" => lists'[k] = lists[k]
    BY <1>6
  <2>2. QED
    BY <1>1, <2>1 DEF ClientShaped, FreeMsgList, Shaped
<1>9. PICK M \in SUBSET Msgs : M = lists[i].msgs
  BY <1>3
<1>10. PICK f : Unref(M, f)
  BY <1>9 DEF FreeMsgList
<1>11. \A m \in Msgs : unearned'[m] = IF lists[i].lost /\ m \in M THEN unearned[m] + 1 ELSE unearned[m]
  BY <1>1, <1>2, <1>9, UnearnedFields
<1>12. ASSUME NEW m \in Msgs
       PROVE  ListRefs(m)' = IF ~lists[i].lost /\ m \in M THEN ListRefs(m) - 1 ELSE ListRefs(m)
  <2>1. PICK L : L = lists
    OBVIOUS
  <2>2. PICK K : K = lists'
    OBVIOUS
  <2>3. CASE ~lists[i].lost
    <3>1. Cardinality(Listing(K, m)) =
            IF m \in L[i].msgs THEN Cardinality(Listing(L, m)) - 1 ELSE Cardinality(Listing(L, m))
      <4>1. K[i].of = "none" /\ (\A k \in 1..MaxLists \ {i} : K[k] = L[k])
        BY <1>6, <2>1, <2>2, Zenon
      <4>2. L[i].of # "none" /\ ~L[i].lost
        BY <1>2, <2>1, <2>3, Zenon
      <4>3. QED
        BY <1>2, <4>1, <4>2, ListingFreed, SMTT(30)
    <3>2. QED
      BY <1>1, <1>9, <2>1, <2>2, <2>3, <3>1, ListRefsNow, ListRefsNext
  <2>4. CASE lists[i].lost
    <3>1. Listing(K, m) = Listing(L, m)
      BY <1>2, <1>6, <2>1, <2>2, <2>4, ListingLost
    <3>2. QED
      BY <1>1, <2>1, <2>2, <2>4, <3>1, ListRefsNow, ListRefsNext
  <2>5. QED
    BY <2>3, <2>4
<1>13. ASSUME NEW m \in Msgs
       PROVE  /\ m \notin M => Holds(m)' = Holds(m) /\ unearned'[m] = unearned[m]
              /\ m \in M => Net(m)' = Net(m) - 1
              /\ m \in M /\ ~lists[i].lost => Holds(m) > 0
  <2>1. Sum(Holds(m), ListRefs(m), refs[m], mimes[m])
    BY <1>1, HoldsNow
  <2>2. Sum(Holds(m)', ListRefs(m)', refs[m], mimes[m])
    BY <1>1, <1>7, HoldsNext
  <2>3. unearned[m] \in Nat
    BY <1>1, UnearnedNow
  <2>4. CASE m \notin M
    BY <1>11, <1>12, <2>1, <2>2, <2>4 DEF Sum
  <2>5. CASE m \in M /\ lists[i].lost
    <3>1. unearned'[m] = unearned[m] + 1 /\ ListRefs(m)' = ListRefs(m)
      BY <1>11, <1>12, <2>5
    <3>2. QED
      BY <2>1, <2>2, <2>3, <2>5, <3>1 DEF Sum, Net
  <2>6. CASE m \in M /\ ~lists[i].lost
    <3>1. unearned'[m] = unearned[m] /\ ListRefs(m)' = ListRefs(m) - 1
      BY <1>11, <1>12, <2>6
    <3>2. QED
      BY <2>1, <2>2, <2>3, <2>6, <3>1 DEF Sum, Net
  <2>7. QED
    BY <2>4, <2>5, <2>6
<1>14. CASE ~(\A m \in M : Found(m))
  <2>1. Faults
    BY <1>10, <1>14 DEF Unref
  <2>2. PICK m \in M : ~Found(m)
    BY <1>14
  <2>3. m \in Msgs /\ unearned[m] \in Nat
    BY <1>1, <1>9, UnearnedNow
  <2>4. CASE lists[i].lost
    <3>1. unearned'[m] = unearned[m] + 1
      BY <1>11, <2>3, <2>4
    <3>2. unearned'[m] # 0
      BY <2>3, <3>1
    <3>3. ~Clear'
      BY <2>3, <3>2 DEF Clear
    <3>4. QED
      BY <1>8, <2>1, <3>3, CountsFault
  <2>5. CASE ~lists[i].lost
    <3>1. unearned'[m] = unearned[m] /\ Holds(m) > 0
      BY <1>11, <1>13, <2>3, <2>5
    <3>2. dropped # {} \/ unearned[m] # 0
      BY <2>2, <2>3, <3>1, HeldFound
    <3>3. ~Clear'
      BY <1>8, <2>3, <3>1, <3>2 DEF Clear, ClientShaped
    <3>4. QED
      BY <1>8, <2>1, <3>3, CountsFault
  <2>6. QED
    BY <2>4, <2>5
<1>15. CASE \A m \in M : Found(m)
  BY <1>1, <1>7, <1>8, <1>10, <1>13, <1>15, UnrefHolds
<1>16. QED
  BY <1>14, <1>15

LEMMA RegisterCounts ==
  ASSUME CountsInv, ~con.fault, NEW f \in Folders, NEW u \in Uids, Register(f, u)
  PROVE  CountsInv'
<1>1. PICK m : RegisterStep(f, u, m)
  BY RegisterMessage
<1>2. TablesInv' /\ Fresh(msg'[m], f, u) /\ \A k \in Msgs \ {m} : msg'[k] = msg[k]
  BY <1>1, RegisterTables DEF CountsInv
<1>3. Shaped /\ Shaped'
  BY <1>2 DEF CountsInv, TablesInv
<1>4. /\ m \in Msgs /\ msg[m].state = "none" /\ refs' = [refs EXCEPT ![m] = 1]
      /\ mimes' = mimes /\ UNCHANGED <<con, lists, unearned>> /\ dropped' = dropped
  BY <1>1 DEF RegisterStep
<1>5. ClientShaped
  BY <1>1, <1>3 DEF ClientShaped, RegisterStep, Shaped
<1>6. refs'[m] = 1 /\ mimes'[m] = mimes[m] /\ \A k \in Msgs \ {m} : refs'[k] = refs[k]
  BY <1>3, <1>4 DEF Shaped
<1>7. Holds(m) = 0 /\ unearned'[m] = 0
  BY <1>4 DEF CountsInv, Counts, Counted
<1>8. ListRefs(m)' = ListRefs(m)
  BY <1>4 DEF ListRefs
<1>9. Holds(m)' = 1 /\ mimes'[m] = 0
  <2>1. Sum(Holds(m), ListRefs(m), refs[m], mimes[m])
    BY <1>3, <1>4, HoldsNow
  <2>2. Sum(Holds(m)', ListRefs(m)', 1, mimes[m])
    BY <1>3, <1>4, <1>6, HoldsNext
  <2>3. QED
    BY <1>6, <1>7, <1>8, <2>1, <2>2 DEF Sum
<1>10. /\ msg'[m].state = "live" /\ msg'[m].ref_count = Holds(m)' - unearned'[m]
       /\ msg'[m].mime_ref_count = mimes'[m] /\ (mimes'[m] > 0 => msg'[m].mime)
  BY <1>2, <1>7, <1>9 DEF Fresh
<1>11. Counted(m)' /\ CountersOK(m)'
  BY <1>3, <1>4, <1>10, LiveCounted
<1>12. QED
  BY <1>2, <1>4, <1>5, <1>6, <1>11, OneCounted

LEMMA OtherCounts ==
  ASSUME CountsInv, StorageRemoves \/ UNCHANGED vars
  PROVE  CountsInv'
<1>1. TablesInv' /\ UNCHANGED <<con, msg, lists, refs, mimes, dropped, unearned, blind, driver>>
  BY OtherTables DEF CountsInv
<1>2. \A m : Holds(m)' = Holds(m)
  BY <1>1 DEF Holds, ListRefs
<1>3. \A m \in Msgs : Counted(m)' <=> Counted(m)
  BY <1>1, <1>2 DEF Counted
<1>4. Counts'
  BY <1>1, <1>3 DEF CountsInv, Counts
<1>5. NoFault'
  BY <1>1 DEF CountsInv, NoFault
<1>6. QED
  BY <1>1, <1>4, <1>5 DEF CountsInv

LEMMA CountsStart == Init => CountsInv
<1> SUFFICES ASSUME Init PROVE CountsInv
  OBVIOUS
<1>1. TablesInv /\ Shaped
  BY TablesStart DEF TablesInv
<1>2. \A i \in 1..MaxLists : lists[i].of = "none"
  BY DEF Init
<1>3. \A m \in Msgs : msg[m].state = "none" /\ refs[m] = 0 /\ mimes[m] = 0 /\ unearned[m] = 0
  BY DEF Init
<1>4. ASSUME NEW m \in Msgs PROVE Holds(m) = 0
  <2>1. Listing(lists, m) = {}
    BY <1>2 DEF Listing
  <2>2. ListRefs(m) = 0
    BY <1>1, <2>1, ListRefsNow, FS_EmptySet
  <2>3. QED
    BY <1>3, <2>2 DEF Holds
<1>5. ~con.fault
  BY DEF Init
<1>6. Counts
  BY <1>2, <1>3, <1>4 DEF Counts, Counted
<1>7. QED
  BY <1>1, <1>5, <1>6 DEF CountsInv, NoFault

\* CountsInv is inductive.
LEMMA CountsNext ==
  ASSUME CountsInv, [Next]_vars
  PROVE  CountsInv'
<1>1. CASE UNCHANGED vars \/ StorageRemoves
  BY <1>1, OtherCounts
<1>2. ASSUME ~con.fault,
             \/ \E f \in Folders : FolderConnects(f) \/ FolderDisconnects(f)
             \/ StorageConnects \/ StorageDisconnects
      PROVE  CountsInv'
  <2>1. TablesInv
    BY DEF CountsInv
  <2>2. PICK c : Ended(con, c) /\ Connected(c) /\ UNCHANGED blind
    BY <1>2, <2>1, ConnectionCalls
  <2>3. blind' \in BOOLEAN
    BY <2>1, <2>2 DEF TablesInv, Shaped
  <2>4. QED
    BY <1>2, <2>2, <2>3, ConnectedCounts
<1>3. ASSUME ~con.fault, NEW f \in Folders, GetMsgList(f) PROVE CountsInv'
  BY <1>3, GetMsgListCounts
<1>4. ASSUME ~con.fault, NEW i \in DOMAIN lists, FreeMsgList(i) PROVE CountsInv'
  BY <1>4, FreeMsgListCounts
<1>5. ASSUME ~con.fault, NEW m \in Msgs,
             MessageRef(m) \/ MessageUnref(m) \/ MimeRef(m) \/ MimeUnref(m)
      PROVE  CountsInv'
  BY <1>5, MessageRefCounts, MessageUnrefCounts, MimeRefCounts, MimeUnrefCounts
<1>6. ASSUME ~con.fault, NEW f \in Folders, NEW u \in Uids, Register(f, u) PROVE CountsInv'
  BY <1>6, RegisterCounts
<1>7. QED
  BY <1>1, <1>2, <1>3, <1>4, <1>5, <1>6 DEF Next, Call

LEMMA CountsInvariant == Spec => []CountsInv
<1>1. CountsInv /\ [Next]_vars => CountsInv'
  BY CountsNext
<1>2. QED
  BY CountsStart, <1>1, PTL DEF Spec

\* Across every list, reference, fetch and reconnection of mailengine.c the
\* counters of a message are the client's holds on it, less one for each lost
\* list with it that was freed as mailengine.h prescribes: folder_update_msg_list
\* gives lost messages no reference, folder_free_msg_list takes one.
THEOREM CountersAreHolds == Spec => []RefsCounted
<1>1. CountsInv => RefsCounted
  <2> SUFFICES ASSUME CountsInv PROVE RefsCounted
    OBVIOUS
  <2>1. Shaped /\ Tables /\ Counts
    BY DEF CountsInv, TablesInv
  <2>2. ASSUME NEW m \in Msgs PROVE msg[m] \in Messages
    <3>1. msg[m] \in NoMessages \cup FullMessages
      BY <2>1 DEF Shaped
    <3>2. CASE msg[m] \in NoMessages
      BY <3>2 DEF NoMessages, Messages
    <3>3. CASE msg[m] \in FullMessages
      <4>1. PICK x : x = msg[m]
        OBVIOUS
      <4>2. x \in FullMessages /\ x.state \in {"live", "orphan"}
        BY <3>3, <4>1 DEF FullMessages
      <4>3. x.mime_ref_count \in Int /\ x.mime_ref_count >= 0
        BY <2>1, <4>1, <4>2 DEF Counts, FullMessages
      <4>4. x.mime_ref_count \in Nat
        BY <4>3
      <4>5. QED
        BY <4>1, <4>2, <4>4 DEF FullMessages, Messages
    <3>4. QED
      BY <3>1, <3>2, <3>3
  <2>3. TypeOK
    BY <2>1, <2>2 DEF Shaped, TypeOK, AllLists
  <2>4. ASSUME dropped = {}, ~con.fault, NEW m \in Msgs
        PROVE  /\ msg[m].state = "live" =>
                    /\ Found(m) /\ uid_hash[msg[m].folder][msg[m].uid] = m
                    /\ msg[m].ref_count = Holds(m) - unearned[m]
                    /\ msg[m].mime_ref_count = mimes[m]
                    /\ mimes[m] > 0 => msg[m].mime
               /\ msg[m].state = "freed" => Holds(m) = unearned[m]
               /\ msg[m].state \notin {"live", "freed"} => Holds(m) = 0
    <3>1. Counted(m) /\ Holds(m) \in Nat
      BY <2>1, <2>4, HoldsNow DEF Counts
    <3>2. CASE msg[m].state = "live"
      <4>1. Found(m) /\ uid_hash[msg[m].folder][msg[m].uid] = m
        BY <2>1, <3>2 DEF Tables, Found
      <4>2. QED
        BY <3>1, <3>2, <4>1 DEF Counted
    <3>3. CASE msg[m].state # "live"
      BY <2>1, <2>4, <3>1, <3>3, MessageFields DEF Counted
    <3>4. QED
      BY <3>2, <3>3
  <2>5. QED
    BY <2>3, <2>4 DEF RefsCounted
<1>2. QED
  BY <1>1, CountsInvariant, PTL

\* A call follows a pointer to a message, a folder_ref_info or a session that is
\* gone only after a failed reconnection freed the tables of a folder under the
\* client, after a lost list was freed, when the client used a folder whose
\* session was closed behind it without connecting it again, or over pop3.
THEOREM NothingDangles == Spec => []NoFault
<1>1. CountsInv => NoFault
  BY DEF CountsInv
<1>2. QED
  BY <1>1, CountsInvariant, PTL

=============================================================================
