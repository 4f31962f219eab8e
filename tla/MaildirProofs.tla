--------------------------- MODULE MaildirProofs ----------------------------
(***************************************************************************)
(* The properties of a maildir mailbox, for any sessions, messages, flags  *)
(* and bounds, where every session has a process number of its own.        *)
(***************************************************************************)
EXTENDS Maildir, FiniteSetTheorems, TLAPS

\* Every session runs in a process of its own.
OwnPids == /\ \A s, t \in Sessions : Pid[s] = Pid[t] => s = t
           /\ \A s \in Sessions : Pid[s] # "mta"

FileSet == [dir : Mailboxes \cup {"tmp"}, uid : UidSpace, fl : Flags, msg : Msgs]
MdSet == [mdir_counter : Nat, mdir_mtime : [Mailboxes -> 0..Never],
          mdir_msg_list : SUBSET Entries, mdir_msg_hash : SUBSET Entries]
CallSet == [op : {"none", "update", "add", "change"}, msg : SUBSET Msgs, uid : UidSpace \cup {NoUid},
            from : MaybeEntries, to : MaybeEntries, linked : BOOLEAN]

\* The types; the files, the accepted messages and those of a call are finite.
Typed ==
  /\ now \in 0..MaxTime
  /\ files \subseteq FileSet /\ IsFiniteSet(files)
  /\ mtime \in [Mailboxes -> 0..MaxTime] /\ hardlinks \in BOOLEAN
  /\ md \in [Sessions -> MdSet] /\ pc \in [Sessions -> Labels] /\ call \in [Sessions -> CallSet]
  /\ \A s \in Sessions : IsFiniteSet(call[s].msg)
  /\ unsent \subseteq Msgs /\ crashes \in 0..MaxCrashes /\ changes \in 0..MaxChanges
  /\ accepted \subseteq Msgs /\ IsFiniteSet(accepted) /\ removed \subseteq Msgs /\ unlinked \subseteq Msgs

\* A hash has one entry for a uid.
OneEntry(hash) == \A d, e \in hash : d.uid = e.uid => d = e
Hashed == \A s \in Sessions : OneEntry(md[s].mdir_msg_hash)

\* A message is with one session, or nobody has tried to add it yet, or its
\* delivery was reported.  A session has one message at a time.
Custody ==
  /\ unsent \cap accepted = {}
  /\ \A s \in Sessions : call[s].msg \cap (unsent \cup accepted) = {}
  /\ \A s, t \in Sessions : s # t => call[s].msg \cap call[t].msg = {}
  /\ \A s \in Sessions : \A m, n \in call[s].msg : m = n

-----------------------------------------------------------------------------
Changing == {"link", "unlink"}
Adding == {"deliver", "finish"}

\* The uid was given out: no session will give it out again.
Issued(u) ==
  \/ u.pid = "mta" /\ u.n < Cardinality(accepted)
  \/ \E s \in Sessions : u.pid = Pid[s] /\ (pc[s] = "dead" \/ u.n < md[s].mdir_counter)

\* The uid has been in new/ or cur/: it has a name there, or a session knows it.
Seen(u) ==
  \/ \E x \in InMailbox : x.uid = u
  \/ \E s \in Sessions : \E e \in md[s].mdir_msg_hash : e.uid = u
  \/ \E s \in Sessions : pc[s] \in Changing /\ call[s].from.uid = u

OneMessage == \A x, y \in files : x.uid = y.uid => x.msg = y.msg

\* The uid of a delivery is the session's own, nobody has seen it before link(),
\* and until then the draft is there.
Drafting(s) ==
  /\ pc[s] \in Adding => /\ call[s].uid \in UidSpace /\ call[s].uid.pid = Pid[s]
                         /\ call[s].uid.n < md[s].mdir_counter
  /\ pc[s] = "deliver" => /\ ~Seen(call[s].uid)
                          /\ \A m \in call[s].msg : Link("tmp", call[s].uid, "", m) \in files

\* A change of flags keeps the uid.
Renaming(s) ==
  /\ pc[s] \in Changing => /\ call[s].from \in Entries /\ call[s].to \in Entries
                           /\ call[s].to.uid = call[s].from.uid
  /\ pc[s] = "unlink" => hardlinks

Issue ==
  /\ \A x \in files : Issued(x.uid)
  /\ \A u \in UidSpace : Seen(u) => Issued(u)
  /\ OneMessage
  /\ \A s \in Sessions : Drafting(s) /\ Renaming(s)

-----------------------------------------------------------------------------
\* The names of a uid, and the sessions that are about to remove one of them.
Names(u) == {x \in InMailbox : x.uid = u}
Pending(u) == {s \in Sessions : pc[s] = "unlink" /\ call[s].from.uid = u}

\* A message that nobody removed has more names than sessions will unlink.
Spare == \A x \in InMailbox : x.msg \notin removed =>
           Cardinality(Names(x.uid)) > Cardinality(Pending(x.uid))

Kept(m) == m \in removed \/ m \in unlinked \/ \E x \in InMailbox : x.msg = m
AllKept == /\ \A m \in accepted : Kept(m)
           /\ \A s \in Sessions : pc[s] = "finish" => \A m \in call[s].msg : Kept(m)

MaildirInv == Typed /\ Hashed /\ Custody /\ Issue /\ Spare /\ AllKept

-----------------------------------------------------------------------------
\* Only session s moves.
Own(s) ==
  /\ md' \in [Sessions -> MdSet] /\ pc' \in [Sessions -> Labels] /\ call' \in [Sessions -> CallSet]
  /\ \A t \in Sessions : t # s => md'[t] = md[t] /\ pc'[t] = pc[t] /\ call'[t] = call[t]

\* Its counter does not go back as long as it lives.
Grows(s) ==
  pc'[s] = "dead" \/ (pc[s] # "dead" /\ md'[s].mdir_counter >= md[s].mdir_counter)

AcceptedGrows == accepted \subseteq accepted' /\ IsFiniteSet(accepted')

LEMMA CounterFacts ==
  ASSUME Typed
  PROVE  /\ \A s \in Sessions : md[s].mdir_counter \in Nat /\ md[s] \in MdSet /\ call[s] \in CallSet /\ pc[s] \in Labels
         /\ Cardinality(accepted) \in Nat
<1>1. \A s \in Sessions : md[s] \in MdSet /\ call[s] \in CallSet /\ pc[s] \in Labels
  BY DEF Typed
<1>2. Cardinality(accepted) \in Nat
  BY FS_CardinalityType DEF Typed
<1>3. QED
  BY <1>1, <1>2 DEF MdSet

LEMMA AcceptedCounts ==
  ASSUME Typed, AcceptedGrows
  PROVE  Cardinality(accepted) <= Cardinality(accepted') /\ Cardinality(accepted') \in Nat
<1>1. PICK S : S = accepted'
  OBVIOUS
<1>2. IsFiniteSet(S) /\ accepted \in SUBSET S
  BY <1>1 DEF AcceptedGrows
<1>3. Cardinality(accepted) <= Cardinality(S) /\ Cardinality(S) \in Nat
  BY <1>2, FS_Subset, FS_CardinalityType
<1>4. QED
  BY <1>1, <1>3

\* A uid that was given out stays so.
LEMMA IssuedGrows ==
  ASSUME Typed, NEW s \in Sessions, Own(s), Grows(s), AcceptedGrows, NEW u \in UidSpace, Issued(u)
  PROVE  Issued(u)'
<1>1. u.n \in Nat
  BY DEF UidSpace
<1>2. CASE u.pid = "mta" /\ u.n < Cardinality(accepted)
  <2>1. /\ Cardinality(accepted) <= Cardinality(accepted') /\ Cardinality(accepted') \in Nat
        /\ Cardinality(accepted) \in Nat
    BY AcceptedCounts, CounterFacts
  <2>2. u.n < Cardinality(accepted')
    BY <1>1, <1>2, <2>1
  <2>3. QED
    BY <1>2, <2>2 DEF Issued
<1>3. CASE \E t \in Sessions : u.pid = Pid[t] /\ (pc[t] = "dead" \/ u.n < md[t].mdir_counter)
  <2>1. PICK t \in Sessions : u.pid = Pid[t] /\ (pc[t] = "dead" \/ u.n < md[t].mdir_counter)
    BY <1>3
  <2>2. pc'[t] = "dead" \/ u.n < md'[t].mdir_counter
    <3>1. CASE t # s
      BY <2>1, <3>1 DEF Own
    <3>2. CASE t = s
      <4>1. md[s].mdir_counter \in Nat /\ md'[s].mdir_counter \in Nat
        BY CounterFacts DEF Own, MdSet
      <4>2. QED
        BY <1>1, <2>1, <3>2, <4>1 DEF Grows
    <3>3. QED
      BY <3>1, <3>2
  <2>3. QED
    BY <2>1, <2>2 DEF Issued
<1>4. QED
  BY <1>2, <1>3 DEF Issued

\* What a step of session s may add: names of uids in V, which s gave out
\* itself, of which those in W come into view.
NewUids(s, V, W) ==
  /\ W \subseteq V
  /\ \A v \in V : v \in UidSpace /\ v.pid = Pid[s] /\ v.n < md'[s].mdir_counter
  /\ \A x \in files' : (\E y \in files : y.uid = x.uid) \/ x.uid \in V
  /\ \A x \in InMailbox' : Seen(x.uid) \/ x.uid \in W
  /\ \A e \in md'[s].mdir_msg_hash : Seen(e.uid) \/ e.uid \in W
  /\ pc'[s] \in Changing => Seen(call'[s].from.uid)

\* What it may do to the files.
FilesStep(s) ==
  /\ files' \subseteq FileSet /\ OneMessage' /\ hardlinks' = hardlinks
  /\ \A x \in files : x.dir = "tmp" /\ x.uid.pid # Pid[s] => x \in files'

\* Where it is then.
CallStep(s, V) ==
  /\ pc'[s] \in Adding => call'[s].uid \in V
  /\ pc'[s] = "deliver" => /\ \A u : u = call'[s].uid => ~Seen(u)'
                           /\ \A m \in call'[s].msg : Link("tmp", call'[s].uid, "", m) \in files'
  /\ pc'[s] \in Changing => /\ call'[s].from \in Entries /\ call'[s].to \in Entries
                            /\ call'[s].to.uid = call'[s].from.uid
  /\ pc'[s] = "unlink" => hardlinks

LEMMA SeenStep ==
  ASSUME Typed, NEW s \in Sessions, Own(s), NEW V, NEW W, NewUids(s, V, W), NEW u, Seen(u)'
  PROVE  Seen(u) \/ u \in W
<1>1. CASE \E x \in InMailbox' : x.uid = u
  BY <1>1 DEF NewUids
<1>2. CASE \E t \in Sessions : \E e \in md'[t].mdir_msg_hash : e.uid = u
  <2>1. PICK t \in Sessions : \E e \in md'[t].mdir_msg_hash : e.uid = u
    BY <1>2
  <2>2. CASE t = s
    BY <2>1, <2>2 DEF NewUids
  <2>3. CASE t # s
    BY <2>1, <2>3 DEF Own, Seen
  <2>4. QED
    BY <2>2, <2>3
<1>3. CASE \E t \in Sessions : pc'[t] \in Changing /\ call'[t].from.uid = u
  <2>1. PICK t \in Sessions : pc'[t] \in Changing /\ call'[t].from.uid = u
    BY <1>3
  <2>2. CASE t = s
    BY <2>1, <2>2 DEF NewUids
  <2>3. CASE t # s
    BY <2>1, <2>3 DEF Own, Seen
  <2>4. QED
    BY <2>2, <2>3
<1>4. QED
  BY <1>1, <1>2, <1>3 DEF Seen

LEMMA IssueStep ==
  ASSUME OwnPids, Typed, Issue, NEW s \in Sessions, Own(s), Grows(s), AcceptedGrows,
         NEW V, NEW W, NewUids(s, V, W), FilesStep(s), CallStep(s, V)
  PROVE  Issue'
<1>1. \A v \in V : v \in UidSpace /\ Issued(v)'
  BY DEF NewUids, Issued
<1>2. \A u \in UidSpace : Issued(u) => Issued(u)'
  BY IssuedGrows
<1>3. ASSUME NEW x \in files'
      PROVE  Issued(x.uid)'
  <2>1. CASE x.uid \in V
    BY <1>1, <2>1
  <2>2. CASE \E y \in files : y.uid = x.uid
    <3>1. PICK y \in files : y.uid = x.uid
      BY <2>2
    <3>2. Issued(y.uid) /\ y.uid \in UidSpace
      BY DEF Issue, Typed, FileSet
    <3>3. QED
      BY <1>2, <3>1, <3>2
  <2>3. QED
    BY <2>1, <2>2 DEF NewUids
<1>4. ASSUME NEW u \in UidSpace, Seen(u)'
      PROVE  Issued(u)'
  <2>1. Seen(u) \/ u \in W
    BY <1>4, SeenStep
  <2>2. QED
    BY <1>1, <1>2, <2>1 DEF Issue, NewUids
<1>5. ASSUME NEW t \in Sessions, t # s
      PROVE  Drafting(t)' /\ Renaming(t)'
  <2>1. md'[t] = md[t] /\ pc'[t] = pc[t] /\ call'[t] = call[t] /\ Drafting(t) /\ Renaming(t) /\ Pid[t] # Pid[s]
    BY <1>5 DEF Own, Issue, OwnPids
  <2>2. ASSUME pc[t] = "deliver"
        PROVE  /\ ~Seen(call[t].uid)'
               /\ \A m \in call[t].msg : Link("tmp", call[t].uid, "", m) \in files'
    <3>1. PICK u : u = call[t].uid
      OBVIOUS
    <3>2. u.pid = Pid[t] /\ ~Seen(u) /\ \A m \in call[t].msg : Link("tmp", u, "", m) \in files
      BY <2>1, <2>2, <3>1 DEF Drafting, Adding
    <3>3. ~Seen(u)'
      BY <2>1, <3>2, SeenStep DEF NewUids
    <3>4. \A m \in call[t].msg : Link("tmp", u, "", m) \in files'
      <4>1. ASSUME NEW m \in call[t].msg
            PROVE  Link("tmp", u, "", m) \in files'
        <5>1. PICK x : x = Link("tmp", u, "", m)
          OBVIOUS
        <5>2. x.dir = "tmp" /\ x.uid = u /\ x \in files
          BY <3>2, <5>1 DEF Link
        <5>3. QED
          BY <2>1, <3>2, <5>1, <5>2 DEF FilesStep
      <4>2. QED
        BY <4>1
    <3>5. Seen(call[t].uid)' <=> Seen(u)'
      BY <2>1, <3>1 DEF Seen
    <3>6. QED
      BY <3>1, <3>3, <3>4, <3>5
  <2>3. Drafting(t)'
    <3>1. PICK u : u = call[t].uid /\ u = call'[t].uid
      BY <2>1
    <3>2. pc[t] = "deliver" => ~Seen(u)' /\ \A m \in call[t].msg : Link("tmp", u, "", m) \in files'
      BY <2>2, <3>1
    <3>3. QED
      BY <2>1, <3>1, <3>2 DEF Drafting
  <2>4. Renaming(t)'
    BY <2>1 DEF Renaming, FilesStep
  <2>5. QED
    BY <2>3, <2>4
<1>6. Drafting(s)'
  <2>1. PICK u : u = call'[s].uid
    OBVIOUS
  <2>2. pc'[s] = "deliver" => ~Seen(u)' /\ \A m \in call'[s].msg : Link("tmp", u, "", m) \in files'
    BY <2>1 DEF CallStep
  <2>3. pc'[s] \in Adding => u \in UidSpace /\ u.pid = Pid[s] /\ u.n < md'[s].mdir_counter
    BY <2>1 DEF CallStep, NewUids
  <2>4. QED
    BY <2>1, <2>2, <2>3 DEF Drafting
<1>7. Renaming(s)'
  BY DEF CallStep, Renaming, FilesStep
<1>8. OneMessage'
  BY DEF FilesStep
<1>9. \A t \in Sessions : Drafting(t)' /\ Renaming(t)'
  BY <1>5, <1>6, <1>7
<1>10. QED
  BY <1>3, <1>4, <1>8, <1>9 DEF Issue

-----------------------------------------------------------------------------
LEMMA PendingFinite ==
  ASSUME Typed, NEW u
  PROVE  IsFiniteSet(Names(u)) /\ IsFiniteSet(Pending(u)) /\ Cardinality(Names(u)) \in Nat
           /\ Cardinality(Pending(u)) \in Nat
<1>1. IsFiniteSet(files) /\ IsFiniteSet(Sessions)
  BY MaildirAssumption DEF Typed
<1>2. Names(u) \in SUBSET files /\ Pending(u) \in SUBSET Sessions
  BY DEF Names, Pending, InMailbox
<1>3. IsFiniteSet(Names(u)) /\ IsFiniteSet(Pending(u))
  BY <1>1, <1>2, FS_Subset
<1>4. QED
  BY <1>3, FS_CardinalityType

\* The mailbox is as it was, and nobody else is about to unlink a name.
LEMMA SpareSame ==
  ASSUME Typed, Spare, NEW s \in Sessions, Own(s), InMailbox' = InMailbox, removed \subseteq removed',
         pc'[s] # "unlink"
  PROVE  Spare'
<1>1. SUFFICES ASSUME NEW x \in InMailbox, x.msg \notin removed'
               PROVE  (Cardinality(Names(x.uid)) > Cardinality(Pending(x.uid)))'
  BY DEF Spare
<1>2. PICK u : u = x.uid
  OBVIOUS
<1>3. Cardinality(Names(u)) > Cardinality(Pending(u))
  BY <1>1, <1>2 DEF Spare
<1>4. PICK n, p : n = Names(u)' /\ p = Pending(u)'
  OBVIOUS
<1>5. n = Names(u)
  BY <1>4 DEF Names
<1>6. p \in SUBSET Pending(u)
  <2>1. ASSUME NEW t \in p
        PROVE  t \in Pending(u)
    <3>1. t \in Sessions /\ pc'[t] = "unlink" /\ call'[t].from.uid = u
      BY <1>4 DEF Pending
    <3>2. t # s
      BY <3>1
    <3>3. QED
      BY <3>1, <3>2 DEF Own, Pending
  <2>2. QED
    BY <2>1
<1>7. /\ Cardinality(p) <= Cardinality(Pending(u)) /\ Cardinality(p) \in Nat
      /\ Cardinality(Pending(u)) \in Nat /\ Cardinality(Names(u)) \in Nat
  BY <1>6, PendingFinite, FS_Subset, FS_CardinalityType
<1>8. Cardinality(n) > Cardinality(p)
  BY <1>3, <1>5, <1>7
<1>9. QED
  BY <1>2, <1>4, <1>8

LEMMA KeptStep ==
  ASSUME AllKept, NEW s \in Sessions, Own(s), \A m : Kept(m) => Kept(m)',
         \A m \in accepted' : m \in accepted \/ (pc[s] = "finish" /\ m \in call[s].msg),
         pc'[s] = "finish" => \A m \in call'[s].msg : Kept(m)'
  PROVE  AllKept'
<1>1. \A m \in accepted' : Kept(m)'
  BY DEF AllKept
<1>2. \A t \in Sessions : pc'[t] = "finish" => \A m \in call'[t].msg : Kept(m)'
  BY DEF AllKept, Own
<1>3. QED
  BY <1>1, <1>2 DEF AllKept

\* A step that leaves the mailbox alone.
LEMMA LocalInv ==
  ASSUME OwnPids, MaildirInv, NEW s \in Sessions, Own(s), Grows(s), AcceptedGrows,
         NEW V, NEW W, NewUids(s, V, W), FilesStep(s), CallStep(s, V),
         InMailbox' = InMailbox, UNCHANGED <<removed, unlinked>>, pc'[s] \notin {"unlink", "finish"},
         \A m \in accepted' : m \in accepted \/ (pc[s] = "finish" /\ m \in call[s].msg)
  PROVE  Issue' /\ Spare' /\ AllKept'
<1>1. Issue'
  BY IssueStep DEF MaildirInv
<1>2. Spare'
  BY SpareSame DEF MaildirInv
<1>3. \A m : Kept(m) => Kept(m)'
  BY DEF Kept
<1>4. AllKept'
  BY <1>3, KeptStep DEF MaildirInv
<1>5. QED
  BY <1>1, <1>2, <1>4

-----------------------------------------------------------------------------
LEMMA Bounds ==
  /\ MaxTime \in Nat /\ MaxCrashes \in Nat /\ MaxChanges \in Nat
  /\ Never \in 0..Never /\ 0..MaxTime \subseteq 0..Never
<1>1. MaxTime \in Nat /\ MaxCrashes \in Nat /\ MaxChanges \in Nat
  BY MaildirAssumption
<1>2. Never \in Nat /\ MaxTime <= Never
  BY <1>1 DEF Never
<1>3. QED
  BY <1>1, <1>2

LEMMA NoCallFacts ==
  /\ NoCall \in CallSet /\ NoCall.msg = {} /\ IsFiniteSet(NoCall.msg)
  /\ MaildirNew \in MdSet /\ MaildirNew.mdir_msg_hash = {} /\ MaildirNew.mdir_counter = 0
<1>1. NoCall \in CallSet /\ NoCall.msg = {}
  BY DEF NoCall, CallSet, MaybeEntries, Entry
<1>2. Never \in 0..Never
  BY Bounds
<1>3. [d \in Mailboxes |-> Never] \in [Mailboxes -> 0..Never]
  BY <1>2
<1>4. MaildirNew \in MdSet /\ MaildirNew.mdir_msg_hash = {} /\ MaildirNew.mdir_counter = 0
  BY <1>3 DEF MaildirNew, MdSet
<1>5. QED
  BY <1>1, <1>4, FS_EmptySet

\* Session s goes on with m, at l, with call c.
Moved(s, m, l, c) ==
  /\ md' = [md EXCEPT ![s] = m] /\ pc' = [pc EXCEPT ![s] = l] /\ call' = [call EXCEPT ![s] = c]

LEMMA MovedFacts ==
  ASSUME Typed, NEW s \in Sessions, NEW m \in MdSet, NEW l \in Labels, NEW c \in CallSet, Moved(s, m, l, c)
  PROVE  Own(s) /\ md'[s] = m /\ pc'[s] = l /\ call'[s] = c
BY DEF Typed, Moved, Own

LEMMA MovedHashed ==
  ASSUME Hashed, NEW s \in Sessions, Own(s), OneEntry(md'[s].mdir_msg_hash)
  PROVE  Hashed'
<1>1. \A t \in Sessions : OneEntry(md'[t].mdir_msg_hash)
  BY DEF Hashed, Own
<1>2. QED
  BY <1>1 DEF Hashed, OneEntry

\* The call ends, or goes on with the same message.
LEMMA MovedCustody ==
  ASSUME Custody, NEW s \in Sessions, Own(s), call'[s].msg \subseteq call[s].msg,
         UNCHANGED <<unsent, accepted>>
  PROVE  Custody'
<1>1. \A t \in Sessions : call'[t].msg \subseteq call[t].msg
  BY DEF Own
<1>2. QED
  BY <1>1 DEF Custody

\* A step that touches neither files nor messages.
Idles == UNCHANGED <<now, files, mtime, hardlinks, accepted, removed, unlinked>>

LEMMA IdleStep ==
  ASSUME OwnPids, MaildirInv, NEW s \in Sessions, Own(s), Grows(s), Idles,
         \A e \in md'[s].mdir_msg_hash : Seen(e.uid),
         OneEntry(md'[s].mdir_msg_hash), IsFiniteSet(call'[s].msg),
         pc'[s] \notin Adding \cup {"unlink"},
         pc'[s] = "link" => /\ call'[s].from \in Entries /\ call'[s].to \in Entries
                            /\ call'[s].to.uid = call'[s].from.uid /\ Seen(call'[s].from.uid),
         unsent' \subseteq Msgs, crashes' \in 0..MaxCrashes, changes' \in 0..MaxChanges, Custody'
  PROVE  MaildirInv'
<1>1. Typed /\ UNCHANGED <<now, files, mtime, hardlinks, accepted, removed, unlinked>>
  BY DEF MaildirInv, Idles
<1>2. Typed'
  <2>1. \A t \in Sessions : IsFiniteSet(call'[t].msg)
    BY <1>1 DEF Typed, Own
  <2>2. QED
    BY <1>1, <2>1 DEF Typed, Own
<1>3. Hashed'
  BY MovedHashed DEF MaildirInv
<1>4. InMailbox' = InMailbox
  BY <1>1 DEF InMailbox
<1>5. AcceptedGrows
  BY <1>1 DEF AcceptedGrows, Typed
<1>6. PICK V : V = {}
  OBVIOUS
<1>7. NewUids(s, V, V)
  <2>1. \A x \in InMailbox' : Seen(x.uid)
    BY <1>4 DEF Seen
  <2>2. pc'[s] \in Changing => Seen(call'[s].from.uid)
    BY DEF Changing
  <2>3. QED
    BY <1>1, <1>6, <2>1, <2>2 DEF NewUids
<1>8. FilesStep(s)
  BY <1>1 DEF FilesStep, MaildirInv, Issue, OneMessage, Typed
<1>9. CallStep(s, V)
  BY DEF CallStep, Adding, Changing
<1>10. pc'[s] \notin {"unlink", "finish"}
  BY DEF Adding
<1>11. Issue' /\ Spare' /\ AllKept'
  BY <1>1, <1>4, <1>5, <1>7, <1>8, <1>9, <1>10, LocalInv
<1>12. QED
  BY <1>2, <1>3, <1>11 DEF MaildirInv

LEMMA HashFacts ==
  ASSUME MaildirInv, NEW s \in Sessions
  PROVE  /\ \A e \in md[s].mdir_msg_hash : Seen(e.uid) /\ e \in Entries
         /\ OneEntry(md[s].mdir_msg_hash)
         /\ IsFiniteSet(call[s].msg) /\ call[s].msg \subseteq Msgs
         /\ md[s] \in MdSet /\ call[s] \in CallSet /\ md[s].mdir_counter \in Nat
<1>1. md[s] \in MdSet /\ call[s] \in CallSet /\ IsFiniteSet(call[s].msg) /\ md[s].mdir_counter \in Nat
  BY CounterFacts DEF MaildirInv, Typed
<1>2. QED
  BY <1>1 DEF MaildirInv, Seen, Hashed, MdSet, CallSet

\* maildir_update, alone or at the start of maildir_message_add_uid.
LEMMA UpdateInv ==
  ASSUME OwnPids, MaildirInv, NEW s \in Sessions, NEW c \in CallSet, Update(s, c), Idles,
         IsFiniteSet(c.msg), unsent' \subseteq Msgs, UNCHANGED <<crashes, changes>>,
         Own(s) /\ call'[s] \in {c, NoCall} => Custody'
  PROVE  MaildirInv'
<1>1. /\ pc[s] = "idle" /\ md[s] \in MdSet /\ Typed /\ md[s].mdir_counter \in Nat
      /\ crashes \in 0..MaxCrashes /\ changes \in 0..MaxChanges
  BY HashFacts DEF Update, MaildirInv, Typed
<1>2. NoCall \in CallSet /\ IsFiniteSet(NoCall.msg)
  BY NoCallFacts
<1>3. CASE DirsChanged(s)
  <2>1. PICK m : m = [md[s] EXCEPT !.mdir_mtime = mtime, !.mdir_msg_list = {}, !.mdir_msg_hash = {}]
    OBVIOUS
  <2>2. mtime \in [Mailboxes -> 0..Never]
    BY <1>1, Bounds DEF Typed
  <2>3. m \in MdSet /\ m.mdir_msg_hash = {} /\ m.mdir_counter = md[s].mdir_counter
    BY <1>1, <2>1, <2>2 DEF MdSet
  <2>4. Moved(s, m, "readnew", c)
    BY <1>1, <1>3, <2>1 DEF Update, Go, Moved, Typed
  <2>5. Own(s) /\ md'[s] = m /\ pc'[s] = "readnew" /\ call'[s] = c
    BY <1>1, <2>3, <2>4, MovedFacts DEF Labels
  <2>6. Grows(s) /\ OneEntry(md'[s].mdir_msg_hash) /\ pc'[s] \notin Adding \cup {"unlink", "link"}
    BY <1>1, <2>3, <2>5 DEF Grows, OneEntry, Adding
  <2>7. QED
    BY <1>1, <2>3, <2>5, <2>6, IdleStep
<1>4. CASE ~DirsChanged(s)
  <2>1. PICK m, d, l : m = md[s] /\ d = (IF c.op = "add" THEN c ELSE NoCall) /\ l = AfterUpdate(c.op)
    OBVIOUS
  <2>2. d \in CallSet /\ d \in {c, NoCall} /\ IsFiniteSet(d.msg) /\ l \in {"name", "idle"} /\ l \in Labels
    BY <1>2, <2>1 DEF AfterUpdate, Labels
  <2>3. Moved(s, m, l, d)
    <3>1. md' = [md EXCEPT ![s] = m]
      BY <1>1, <1>4, <2>1 DEF Update, Typed
    <3>2. QED
      BY <1>4, <2>1, <3>1 DEF Update, Go, Moved
  <2>4. Own(s) /\ md'[s] = m /\ pc'[s] = l /\ call'[s] = d
    BY <1>1, <2>1, <2>2, <2>3, MovedFacts
  <2>5. /\ \A e \in md'[s].mdir_msg_hash : Seen(e.uid)
        /\ OneEntry(md'[s].mdir_msg_hash)
    BY <2>1, <2>4, HashFacts
  <2>6. Grows(s) /\ pc'[s] \notin Adding \cup {"unlink", "link"}
    BY <1>1, <2>1, <2>2, <2>4 DEF Grows, Adding
  <2>7. QED
    BY <1>1, <2>2, <2>4, <2>5, <2>6, IdleStep
<1>5. QED
  BY <1>3, <1>4

LEMMA UpdateCallInv ==
  ASSUME OwnPids, MaildirInv, NEW s \in Sessions, UpdateCall(s)
  PROVE  MaildirInv'
<1>1. PICK c : c = [NoCall EXCEPT !.op = "update"]
  OBVIOUS
<1>2. c \in CallSet /\ c.msg = {} /\ IsFiniteSet(c.msg) /\ NoCall.msg = {}
  BY <1>1, NoCallFacts DEF CallSet
<1>3. Update(s, c) /\ Idles /\ UNCHANGED <<unsent, crashes, changes>> /\ unsent' \subseteq Msgs
  BY <1>1 DEF UpdateCall, Idles, disk, bounds, MaildirInv, Typed
<1>4. ASSUME Own(s), call'[s] \in {c, NoCall}
      PROVE  Custody'
  <2>1. call'[s].msg \subseteq call[s].msg
    BY <1>2, <1>4
  <2>2. QED
    BY <1>3, <1>4, <2>1, MovedCustody DEF MaildirInv, Idles
<1>5. QED
  BY <1>2, <1>3, <1>4, UpdateInv

LEMMA AddCallInv ==
  ASSUME OwnPids, MaildirInv, NEW s \in Sessions, NEW m \in Msgs, AddCall(s, m)
  PROVE  MaildirInv'
<1>1. PICK c : c = [NoCall EXCEPT !.op = "add", !.msg = {m}]
  OBVIOUS
<1>2. c \in CallSet /\ c.msg = {m} /\ NoCall.msg = {}
  BY <1>1, NoCallFacts DEF CallSet
<1>3. IsFiniteSet(c.msg)
  BY <1>2, FS_Singleton
<1>4. Update(s, c) /\ Idles /\ UNCHANGED <<crashes, changes>> /\ unsent' = unsent \ {m} /\ m \in unsent
  BY <1>1 DEF AddCall, Idles, disk
<1>5. unsent' \subseteq Msgs
  BY <1>4 DEF MaildirInv, Typed
<1>6. ASSUME Own(s), call'[s] \in {c, NoCall}
      PROVE  Custody'
  <2>1. call'[s].msg \subseteq {m}
    BY <1>2, <1>6
  <2>2. Custody /\ accepted' = accepted
    BY <1>4 DEF MaildirInv, Idles
  <2>3. m \notin accepted /\ \A t \in Sessions : m \notin call[t].msg
    BY <1>4, <2>2 DEF Custody
  <2>4. \A t \in Sessions : t # s => call'[t].msg = call[t].msg
    BY <1>6 DEF Own
  <2>5. unsent' \cap accepted' = {}
    BY <1>4, <2>2 DEF Custody
  <2>6. \A t \in Sessions : call'[t].msg \cap (unsent' \cup accepted') = {}
    BY <1>4, <2>1, <2>2, <2>3, <2>4 DEF Custody
  <2>7. \A t, v \in Sessions : t # v => call'[t].msg \cap call'[v].msg = {}
    BY <2>1, <2>2, <2>3, <2>4 DEF Custody
  <2>8. \A t \in Sessions : \A v, w \in call'[t].msg : v = w
    BY <2>1, <2>2, <2>4 DEF Custody
  <2>9. QED
    BY <2>5, <2>6, <2>7, <2>8 DEF Custody
<1>7. QED
  BY <1>2, <1>3, <1>4, <1>5, <1>6, UpdateInv

\* add_message of entries that are there.
LEMMA HashesFacts ==
  ASSUME NEW old, NEW entries, NEW h \in Hashes(old, entries), OneEntry(old)
  PROVE  OneEntry(h) /\ h \subseteq old \cup entries
<1>1. PICK c \in SUBSET entries : /\ \A x, y \in c : x.uid = y.uid => x = y
                                  /\ h = {e \in old : \A x \in entries : x.uid # e.uid} \cup c
  BY DEF Hashes
<1>2. QED
  BY <1>1 DEF OneEntry

LEMMA FoundFacts ==
  ASSUME MaildirInv, NEW d \in Mailboxes
  PROVE  Found(d) \subseteq Entries /\ \A e \in Found(d) : Seen(e.uid)
<1>1. ASSUME NEW e \in Found(d)
      PROVE  e \in Entries /\ Seen(e.uid)
  <2>1. PICK x \in files : x.dir = d /\ e = Entry(x.uid, x.fl, d = "new")
    BY DEF Found
  <2>2. x \in InMailbox /\ x.uid \in UidSpace /\ x.fl \in Flags
    BY <2>1 DEF InMailbox, MaildirInv, Typed, FileSet
  <2>3. e.uid = x.uid /\ e \in Entries
    BY <2>1, <2>2 DEF Entry, Entries
  <2>4. QED
    BY <2>2, <2>3 DEF Seen
<1>2. QED
  BY <1>1

LEMMA ReadInv ==
  ASSUME OwnPids, MaildirInv, NEW s \in Sessions, NEW d \in Mailboxes, ReadDirectory(s, d), Idles,
         pc[s] \in {"readnew", "readcur"}, NEW l \in {"readcur", "name", "idle"}, NEW c \in {call[s], NoCall},
         Go(s, l), call' = [call EXCEPT ![s] = c], UNCHANGED bounds
  PROVE  MaildirInv'
<1>1. /\ Typed /\ md[s] \in MdSet /\ md[s].mdir_counter \in Nat /\ OneEntry(md[s].mdir_msg_hash)
      /\ call[s] \in CallSet /\ IsFiniteSet(call[s].msg)
      /\ \A e \in md[s].mdir_msg_hash : Seen(e.uid) /\ e \in Entries
  BY HashFacts DEF MaildirInv
<1>2. c \in CallSet /\ IsFiniteSet(c.msg) /\ c.msg \subseteq call[s].msg
  BY <1>1, NoCallFacts
<1>3. PICK h \in Hashes(md[s].mdir_msg_hash, Found(d)) :
        md' = [md EXCEPT ![s].mdir_msg_list = @ \cup Found(d), ![s].mdir_msg_hash = h]
  BY DEF ReadDirectory
<1>4. OneEntry(h) /\ h \subseteq md[s].mdir_msg_hash \cup Found(d)
  BY <1>1, <1>3, HashesFacts
<1>5. PICK m : m = [md[s] EXCEPT !.mdir_msg_list = @ \cup Found(d), !.mdir_msg_hash = h]
  OBVIOUS
<1>6. (\A e \in h : Seen(e.uid)) /\ h \subseteq Entries /\ Found(d) \subseteq Entries
  BY <1>1, <1>4, FoundFacts
<1>7. m \in MdSet /\ m.mdir_msg_hash = h /\ m.mdir_counter = md[s].mdir_counter
  BY <1>1, <1>5, <1>6 DEF MdSet
<1>8. l \in Labels
  BY DEF Labels
<1>9. Moved(s, m, l, c)
  BY <1>1, <1>3, <1>5 DEF Go, Moved, Typed
<1>10. Own(s) /\ md'[s] = m /\ pc'[s] = l /\ call'[s] = c
  BY <1>1, <1>2, <1>7, <1>8, <1>9, MovedFacts
<1>11. Grows(s) /\ pc'[s] \notin Adding \cup {"unlink", "link"}
  BY <1>1, <1>7, <1>10 DEF Grows, Adding
<1>12. UNCHANGED <<unsent, crashes, changes, accepted>> /\ unsent' \subseteq Msgs
         /\ crashes' \in 0..MaxCrashes /\ changes' \in 0..MaxChanges
  BY <1>1 DEF bounds, Idles, Typed
<1>13. Custody'
  BY <1>2, <1>10, <1>12, MovedCustody DEF MaildirInv
<1>14. QED
  BY <1>2, <1>4, <1>6, <1>7, <1>10, <1>11, <1>12, <1>13, IdleStep

LEMMA ReadNewInv ==
  ASSUME OwnPids, MaildirInv, NEW s \in Sessions, ReadNew(s)
  PROVE  MaildirInv'
<1>1. PICK c, l, d : c = call[s] /\ l = "readcur" /\ d = "new"
  OBVIOUS
<1>2. call' = [call EXCEPT ![s] = c]
  BY <1>1 DEF ReadNew, MaildirInv, Typed
<1>3. Idles /\ UNCHANGED bounds /\ ReadDirectory(s, d) /\ Go(s, l) /\ pc[s] = "readnew"
  BY <1>1 DEF ReadNew, Idles, disk
<1>4. d \in Mailboxes /\ l \in {"readcur", "name", "idle"} /\ c \in {call[s], NoCall}
  BY <1>1 DEF Mailboxes
<1>5. QED
  BY <1>2, <1>3, <1>4, ReadInv

LEMMA ReadCurInv ==
  ASSUME OwnPids, MaildirInv, NEW s \in Sessions, ReadCur(s)
  PROVE  MaildirInv'
<1>1. PICK c, l, d : /\ c = (IF call[s].op = "add" THEN call[s] ELSE NoCall)
                     /\ l = AfterUpdate(call[s].op) /\ d = "cur"
  OBVIOUS
<1>2. call' = [call EXCEPT ![s] = c]
  BY <1>1 DEF ReadCur, MaildirInv, Typed
<1>3. Idles /\ UNCHANGED bounds /\ ReadDirectory(s, d) /\ Go(s, l) /\ pc[s] = "readcur"
  BY <1>1 DEF ReadCur, Idles, disk
<1>4. d \in Mailboxes /\ l \in {"readcur", "name", "idle"} /\ c \in {call[s], NoCall}
  BY <1>1 DEF Mailboxes, AfterUpdate
<1>5. QED
  BY <1>2, <1>3, <1>4, ReadInv

\* The call ends without a change of the files.
LEMMA EndInv ==
  ASSUME OwnPids, MaildirInv, NEW s \in Sessions, NEW m \in MdSet, md' = [md EXCEPT ![s] = m],
         m.mdir_counter >= md[s].mdir_counter, pc[s] # "dead", OneEntry(m.mdir_msg_hash),
         \A e \in m.mdir_msg_hash : Seen(e.uid), Return(s), Idles, UNCHANGED <<crashes, changes>>,
         unsent' \subseteq unsent \cup call[s].msg
  PROVE  MaildirInv'
<1>1. Typed /\ Custody /\ NoCall \in CallSet /\ NoCall.msg = {} /\ IsFiniteSet(NoCall.msg)
  BY NoCallFacts DEF MaildirInv
<1>2. Moved(s, m, "idle", NoCall)
  BY DEF Return, Go, Moved
<1>3. Own(s) /\ md'[s] = m /\ pc'[s] = "idle" /\ call'[s] = NoCall
  BY <1>1, <1>2, MovedFacts DEF Labels
<1>4. Grows(s) /\ pc'[s] \notin Adding \cup {"unlink", "link"}
  BY <1>3 DEF Grows, Adding
<1>5. unsent' \subseteq Msgs /\ crashes' \in 0..MaxCrashes /\ changes' \in 0..MaxChanges
  BY <1>1, HashFacts DEF Typed
<1>6. Custody'
  <2>1. \A t \in Sessions : t # s => call'[t].msg = call[t].msg
    BY <1>3 DEF Own
  <2>2. accepted' = accepted /\ call'[s].msg = {}
    BY <1>1, <1>3 DEF Idles
  <2>3. unsent' \cap accepted' = {}
    BY <1>1, <2>2 DEF Custody
  <2>4. \A t \in Sessions : call'[t].msg \cap (unsent' \cup accepted') = {}
    BY <1>1, <2>1, <2>2 DEF Custody
  <2>5. \A t, v \in Sessions : t # v => call'[t].msg \cap call'[v].msg = {}
    BY <1>1, <2>1, <2>2 DEF Custody
  <2>6. \A t \in Sessions : \A v, w \in call'[t].msg : v = w
    BY <1>1, <2>1, <2>2 DEF Custody
  <2>7. QED
    BY <2>3, <2>4, <2>5, <2>6 DEF Custody
<1>7. QED
  BY <1>1, <1>3, <1>4, <1>5, <1>6, IdleStep

LEMMA WriteFailsInv ==
  ASSUME OwnPids, MaildirInv, NEW s \in Sessions, WriteFails(s)
  PROVE  MaildirInv'
<1>1. PICK m : m = md[s]
  OBVIOUS
<1>2. md' = [md EXCEPT ![s] = m] /\ pc[s] = "name" /\ Return(s) /\ Idles
        /\ UNCHANGED <<crashes, changes>> /\ unsent' = unsent \cup call[s].msg
  BY <1>1 DEF WriteFails, Idles, disk, MaildirInv, Typed
<1>3. m \in MdSet /\ m.mdir_counter >= md[s].mdir_counter /\ OneEntry(m.mdir_msg_hash)
        /\ \A e \in m.mdir_msg_hash : Seen(e.uid)
  BY <1>1, HashFacts
<1>4. QED
  BY <1>2, <1>3, EndInv

LEMMA NoDraftInv ==
  ASSUME OwnPids, MaildirInv, NEW s \in Sessions, NameDraft(s), FreeTries(s) = {}
  PROVE  MaildirInv'
<1>1. PICK m : m = [md[s] EXCEPT !.mdir_counter = @ + MAX_TRY_ALLOC]
  OBVIOUS
<1>2. md' = [md EXCEPT ![s] = m] /\ pc[s] = "name" /\ Return(s) /\ Idles
        /\ UNCHANGED <<crashes, changes, unsent>>
  BY <1>1 DEF NameDraft, Idles, bounds, MaildirInv, Typed
<1>3. PICK k \in Nat : k = MAX_TRY_ALLOC
  BY MaildirAssumption
<1>4. md[s] \in MdSet /\ md[s].mdir_counter \in Nat
  BY HashFacts
<1>5. m = [md[s] EXCEPT !.mdir_counter = md[s].mdir_counter + k]
  BY <1>1, <1>3
<1>6. m \in MdSet /\ m.mdir_counter >= md[s].mdir_counter /\ m.mdir_msg_hash = md[s].mdir_msg_hash
  BY <1>4, <1>5 DEF MdSet
<1>7. QED
  BY <1>2, <1>6, HashFacts, EndInv

\* The entry that takes the new name has the same uid.
LEMMA RenamedFacts ==
  ASSUME MaildirInv, NEW s \in Sessions, pc[s] \in Changing
  PROVE  /\ Renamed(s) \in MdSet /\ Renamed(s).mdir_counter = md[s].mdir_counter
         /\ OneEntry(Renamed(s).mdir_msg_hash)
         /\ \A e \in Renamed(s).mdir_msg_hash : Seen(e.uid)
<1>1. PICK a, b : a = call[s].from /\ b = call[s].to
  OBVIOUS
<1>2. a \in Entries /\ b \in Entries /\ b.uid = a.uid /\ Seen(a.uid)
  BY <1>1 DEF MaildirInv, Issue, Renaming, Seen
<1>3. PICK L, H : L = md[s].mdir_msg_list /\ H = md[s].mdir_msg_hash
  OBVIOUS
<1>4. /\ md[s] \in MdSet /\ md[s].mdir_counter \in Nat
      /\ OneEntry(H) /\ \A e \in H : Seen(e.uid) /\ e \in Entries
  BY <1>3, HashFacts
<1>5. L \subseteq Entries
  BY <1>3, <1>4 DEF MdSet
<1>6. PICK K, J : /\ K = (IF a \in L THEN (L \ {a}) \cup {b} ELSE L)
                  /\ J = (IF a \in H THEN (H \ {a}) \cup {b} ELSE H)
  OBVIOUS
<1>7. K \subseteq Entries /\ J \subseteq Entries /\ \A e \in J : Seen(e.uid)
  BY <1>2, <1>4, <1>5, <1>6
<1>8. OneEntry(J)
  BY <1>2, <1>4, <1>6 DEF OneEntry
<1>9. Renamed(s) = [md[s] EXCEPT !.mdir_msg_list = K, !.mdir_msg_hash = J]
  BY <1>1, <1>3, <1>4, <1>6 DEF Renamed, MdSet
<1>10. Renamed(s) \in MdSet /\ Renamed(s).mdir_counter = md[s].mdir_counter /\ Renamed(s).mdir_msg_hash = J
  BY <1>4, <1>7, <1>9 DEF MdSet
<1>11. QED
  BY <1>7, <1>8, <1>10

LEMMA LinkNameFailsInv ==
  ASSUME OwnPids, MaildirInv, NEW s \in Sessions, LinkNameFails(s)
  PROVE  MaildirInv'
<1>1. PICK m : m = Renamed(s)
  OBVIOUS
<1>2. md' = [md EXCEPT ![s] = m] /\ pc[s] = "link" /\ Return(s) /\ Idles
        /\ UNCHANGED <<crashes, changes, unsent>>
  BY <1>1 DEF LinkNameFails, Idles, disk, bounds
<1>3. m \in MdSet /\ m.mdir_counter >= md[s].mdir_counter /\ OneEntry(m.mdir_msg_hash)
        /\ \A e \in m.mdir_msg_hash : Seen(e.uid)
  BY <1>1, <1>2, RenamedFacts, HashFacts DEF Changing
<1>4. QED
  BY <1>2, <1>3, EndInv

LEMMA NoRenameInv ==
  ASSUME OwnPids, MaildirInv, NEW s \in Sessions, RenameName(s), OldName(s) = {}
  PROVE  MaildirInv'
<1>1. PICK m : m = md[s]
  OBVIOUS
<1>2. md' = [md EXCEPT ![s] = m] /\ pc[s] = "link" /\ Return(s) /\ Idles
        /\ UNCHANGED <<crashes, changes, unsent>>
  BY <1>1 DEF RenameName, Idles, disk, bounds, MaildirInv, Typed
<1>3. m \in MdSet /\ m.mdir_counter >= md[s].mdir_counter /\ OneEntry(m.mdir_msg_hash)
        /\ \A e \in m.mdir_msg_hash : Seen(e.uid)
  BY <1>1, HashFacts
<1>4. QED
  BY <1>2, <1>3, EndInv

LEMMA NoDeliveryInv ==
  ASSUME OwnPids, MaildirInv, NEW s \in Sessions, DeliverByRename(s), Drafts(s) = {}
  PROVE  MaildirInv'
<1>1. PICK m : m = md[s]
  OBVIOUS
<1>2. md' = [md EXCEPT ![s] = m] /\ pc[s] = "deliver" /\ Return(s) /\ Idles
        /\ UNCHANGED <<crashes, changes, unsent>>
  BY <1>1 DEF DeliverByRename, Idles, disk, bounds, MaildirInv, Typed
<1>3. m \in MdSet /\ m.mdir_counter >= md[s].mdir_counter /\ OneEntry(m.mdir_msg_hash)
        /\ \A e \in m.mdir_msg_hash : Seen(e.uid)
  BY <1>1, HashFacts
<1>4. QED
  BY <1>2, <1>3, EndInv

LEMMA ChangeCallInv ==
  ASSUME OwnPids, MaildirInv, NEW s \in Sessions, NEW e \in md[s].mdir_msg_hash, NEW f \in Flags,
         NEW new \in BOOLEAN, ChangeCall(s, e, f, new)
  PROVE  MaildirInv'
<1>1. PICK a, c, m : /\ a = Entry(e.uid, f, new) /\ m = md[s]
                     /\ c = [call[s] EXCEPT !.op = "change", !.from = e, !.to = a]
  OBVIOUS
<1>2. /\ Typed /\ m \in MdSet /\ m.mdir_counter \in Nat /\ OneEntry(m.mdir_msg_hash)
      /\ call[s] \in CallSet /\ IsFiniteSet(call[s].msg) /\ e \in Entries
      /\ \A d \in m.mdir_msg_hash : Seen(d.uid)
  BY <1>1, HashFacts DEF MaildirInv
<1>3. a \in Entries /\ a.uid = e.uid /\ Seen(e.uid)
  BY <1>1, <1>2 DEF Entry, Entries
<1>4. c \in CallSet /\ c.msg = call[s].msg /\ c.from = e /\ c.to = a
  BY <1>1, <1>2, <1>3 DEF CallSet, MaybeEntries
<1>5. Moved(s, m, "link", c)
  BY <1>1, <1>2 DEF ChangeCall, Go, Moved, Typed
<1>6. Own(s) /\ md'[s] = m /\ pc'[s] = "link" /\ call'[s] = c
  BY <1>2, <1>4, <1>5, MovedFacts DEF Labels
<1>7. Grows(s) /\ pc'[s] \notin Adding \cup {"unlink"}
  BY <1>1, <1>2, <1>6 DEF Grows, Adding, ChangeCall
<1>8. Idles /\ UNCHANGED <<unsent, crashes>> /\ changes < MaxChanges /\ changes' = changes + 1
  BY DEF ChangeCall, Idles, disk
<1>9. unsent' \subseteq Msgs /\ crashes' \in 0..MaxCrashes /\ changes' \in 0..MaxChanges
  BY <1>2, <1>8, Bounds DEF Typed
<1>10. Custody'
  BY <1>4, <1>6, <1>8, MovedCustody DEF MaildirInv, Idles
<1>11. QED
  BY <1>2, <1>3, <1>4, <1>6, <1>7, <1>8, <1>9, <1>10, IdleStep

LEMMA CrashInv ==
  ASSUME OwnPids, MaildirInv, NEW s \in Sessions, Crash(s)
  PROVE  MaildirInv'
<1>1. Typed /\ NoCall \in CallSet /\ NoCall.msg = {} /\ IsFiniteSet(NoCall.msg)
        /\ MaildirNew \in MdSet /\ MaildirNew.mdir_msg_hash = {}
  BY NoCallFacts DEF MaildirInv
<1>2. Moved(s, MaildirNew, "dead", NoCall)
  BY DEF Crash, Moved
<1>3. Own(s) /\ md'[s] = MaildirNew /\ pc'[s] = "dead" /\ call'[s] = NoCall
  BY <1>1, <1>2, MovedFacts DEF Labels
<1>4. Grows(s) /\ pc'[s] \notin Adding \cup {"unlink", "link"} /\ OneEntry(md'[s].mdir_msg_hash)
  BY <1>1, <1>3 DEF Grows, Adding, OneEntry
<1>5. Idles /\ UNCHANGED <<unsent, changes>> /\ crashes < MaxCrashes /\ crashes' = crashes + 1
  BY DEF Crash, Idles, disk
<1>6. unsent' \subseteq Msgs /\ crashes' \in 0..MaxCrashes /\ changes' \in 0..MaxChanges
  BY <1>1, <1>5, Bounds DEF Typed
<1>7. Custody'
  BY <1>1, <1>3, <1>5, MovedCustody DEF MaildirInv, Idles
<1>8. QED
  BY <1>1, <1>3, <1>4, <1>5, <1>6, <1>7, IdleStep

-----------------------------------------------------------------------------
\* A name that the session gives out is new.
LEMMA NameFacts ==
  ASSUME OwnPids, MaildirInv, NEW s \in Sessions, pc[s] = "name", NEW k \in Nat
  PROVE  /\ NameOf(s, k) \in UidSpace /\ ~Seen(NameOf(s, k)) /\ \A x \in files : x.uid # NameOf(s, k)
         /\ NameOf(s, k).pid = Pid[s] /\ NameOf(s, k).n = md[s].mdir_counter + k
<1>1. PICK u : u = NameOf(s, k)
  OBVIOUS
<1>2. md[s].mdir_counter \in Nat /\ now \in 0..MaxTime
  BY HashFacts DEF MaildirInv, Typed
<1>3. u \in UidSpace /\ u.pid = Pid[s] /\ u.n = md[s].mdir_counter + k
  BY <1>1, <1>2 DEF NameOf, Uid, UidSpace
<1>4. ~Issued(u)
  BY <1>2, <1>3 DEF Issued, OwnPids
<1>5. ~Seen(u) /\ \A x \in files : x.uid # u
  BY <1>3, <1>4 DEF MaildirInv, Issue
<1>6. QED
  BY <1>1, <1>3, <1>5

LEMMA AtMostOne ==
  ASSUME NEW S, \A x, y \in S : x = y
  PROVE  IsFiniteSet(S) /\ (S = {} \/ \E x : S = {x})
<1>1. S = {} \/ \E x : S = {x}
  OBVIOUS
<1>2. QED
  BY <1>1, FS_EmptySet, FS_Singleton

\* The types after a step of one session that changes the files.
LEMMA TypedStep ==
  ASSUME Typed, NEW s \in Sessions, Own(s), files' \subseteq FileSet, IsFiniteSet(files'),
         mtime' \in [Mailboxes -> 0..MaxTime], call'[s].msg \subseteq call[s].msg,
         accepted' \subseteq Msgs, IsFiniteSet(accepted'), removed' \subseteq Msgs, unlinked' \subseteq Msgs,
         UNCHANGED <<now, hardlinks, unsent, crashes, changes>>
  PROVE  Typed'
<1>1. ASSUME NEW t \in Sessions
      PROVE  IsFiniteSet(call'[t].msg)
  <2>1. PICK A, B : A = call[t].msg /\ B = call'[t].msg
    OBVIOUS
  <2>2. IsFiniteSet(A) /\ B \in SUBSET A
    BY <2>1 DEF Typed, Own
  <2>3. IsFiniteSet(B)
    BY <2>2, FS_Subset
  <2>4. QED
    BY <2>1, <2>3
<1>2. QED
  BY <1>1 DEF Typed, Own

\* x is a link of that name and message.
Is(x, d, u, f, m) == x \in FileSet /\ x.dir = d /\ x.uid = u /\ x.fl = f /\ x.msg = m

LEMMA LinkFacts ==
  ASSUME NEW d \in Mailboxes \cup {"tmp"}, NEW u \in UidSpace, NEW f \in Flags, NEW m \in Msgs
  PROVE  Is(Link(d, u, f, m), d, u, f, m)
BY DEF Link, FileSet, Is

LEMMA NameLinkFacts ==
  ASSUME NEW u \in UidSpace, NEW m \in Msgs
  PROVE  Is(Link("tmp", u, "", m), "tmp", u, "", m) /\ Is(Link("new", u, "", m), "new", u, "", m)
<1>1. PICK d, e, f : d = "tmp" /\ e = "new" /\ f = ""
  OBVIOUS
<1>2. d \in Mailboxes \cup {"tmp"} /\ e \in Mailboxes \cup {"tmp"} /\ f \in Flags
  BY <1>1, MaildirAssumption DEF Mailboxes
<1>3. Is(Link(d, u, f, m), d, u, f, m) /\ Is(Link(e, u, f, m), e, u, f, m)
  BY <1>2, LinkFacts
<1>4. QED
  BY <1>1, <1>3

LEMMA DraftInv ==
  ASSUME OwnPids, MaildirInv, NEW s \in Sessions, NameDraft(s), FreeTries(s) # {}
  PROVE  MaildirInv'
<1>1. PICK k \in FreeTries(s) :
        /\ files' = (files \ At("tmp", NameOf(s, k), ""))
                      \cup {Link("tmp", NameOf(s, k), "", m) : m \in call[s].msg}
        /\ md' = [md EXCEPT ![s].mdir_counter = NextCounter(@ + k)]
        /\ call' = [call EXCEPT ![s].uid = NameOf(s, k)]
        /\ Go(s, "deliver")
  BY DEF NameDraft
<1>2. k \in Nat /\ pc[s] = "name" /\ UNCHANGED <<now, mtime, hardlinks, unsent, crashes, changes, accepted, removed, unlinked>>
  <2>1. PICK n \in Nat : n = MAX_TRY_ALLOC /\ n # 0
    BY MaildirAssumption
  <2>2. k \in 0..(n - 1)
    BY <2>1 DEF FreeTries
  <2>3. k \in Nat
    BY <2>1, <2>2
  <2>4. QED
    BY <2>3 DEF NameDraft, bounds
<1>3. PICK u : u = NameOf(s, k)
  OBVIOUS
<1>4. /\ u \in UidSpace /\ ~Seen(u) /\ \A x \in files : x.uid # u
      /\ u.pid = Pid[s] /\ u.n = md[s].mdir_counter + k
  BY <1>2, <1>3, NameFacts
<1>5. /\ Typed /\ md[s] \in MdSet /\ md[s].mdir_counter \in Nat /\ OneEntry(md[s].mdir_msg_hash)
      /\ call[s] \in CallSet /\ IsFiniteSet(call[s].msg) /\ call[s].msg \subseteq Msgs
      /\ \A e \in md[s].mdir_msg_hash : Seen(e.uid)
  BY HashFacts DEF MaildirInv
<1>6. PICK N : N = {Link("tmp", u, "", m) : m \in call[s].msg}
  OBVIOUS
<1>7. files' = files \cup N
  BY <1>1, <1>3, <1>4, <1>6 DEF At
<1>8. \A x \in N : x \in FileSet /\ x.dir = "tmp" /\ x.uid = u /\ x.msg \in call[s].msg
  <2>1. ASSUME NEW m \in call[s].msg
        PROVE  Is(Link("tmp", u, "", m), "tmp", u, "", m)
    BY <1>4, <1>5, NameLinkFacts
  <2>2. ASSUME NEW x \in N
        PROVE  x \in FileSet /\ x.dir = "tmp" /\ x.uid = u /\ x.msg \in call[s].msg
    <3>1. PICK m \in call[s].msg : x = Link("tmp", u, "", m)
      BY <1>6
    <3>2. Is(x, "tmp", u, "", m)
      BY <2>1, <3>1
    <3>3. QED
      BY <3>2 DEF Is
  <2>3. QED
    BY <2>2
<1>9. \A x, y \in N : x = y
  BY <1>6 DEF MaildirInv, Custody
<1>10. IsFiniteSet(files') /\ files' \subseteq FileSet
  <2>1. IsFiniteSet(N) /\ IsFiniteSet(files) /\ files \subseteq FileSet
    BY <1>5, <1>9, AtMostOne DEF Typed
  <2>2. IsFiniteSet(files \cup N)
    BY <2>1, FS_Union
  <2>3. QED
    BY <1>7, <1>8, <2>1, <2>2
<1>11. PICK m, c : /\ m = [md[s] EXCEPT !.mdir_counter = NextCounter(md[s].mdir_counter + k)]
                   /\ c = [call[s] EXCEPT !.uid = u]
  OBVIOUS
<1>12. /\ m \in MdSet /\ m.mdir_counter = md[s].mdir_counter + k + 1
       /\ m.mdir_msg_hash = md[s].mdir_msg_hash
  BY <1>2, <1>5, <1>11 DEF MdSet, NextCounter
<1>13. c \in CallSet /\ c.msg = call[s].msg /\ c.uid = u
  BY <1>4, <1>5, <1>11 DEF CallSet
<1>14. Moved(s, m, "deliver", c)
  BY <1>1, <1>3, <1>5, <1>11 DEF Go, Moved, Typed
<1>15. Own(s) /\ md'[s] = m /\ pc'[s] = "deliver" /\ call'[s] = c
  BY <1>5, <1>12, <1>13, <1>14, MovedFacts DEF Labels
<1>16. Grows(s) /\ AcceptedGrows
  BY <1>2, <1>5, <1>12, <1>15 DEF Grows, AcceptedGrows, Typed
<1>17. InMailbox' = InMailbox
  BY <1>7, <1>8 DEF InMailbox, Mailboxes
<1>18. PICK V, W : V = {u} /\ W = {}
  OBVIOUS
<1>19. NewUids(s, V, W)
  <2>1. \A v \in V : v \in UidSpace /\ v.pid = Pid[s] /\ v.n < md'[s].mdir_counter
    BY <1>2, <1>4, <1>5, <1>12, <1>15, <1>18
  <2>2. \A x \in files' : (\E y \in files : y.uid = x.uid) \/ x.uid \in V
    BY <1>7, <1>8, <1>18
  <2>3. \A x \in InMailbox' : Seen(x.uid)
    BY <1>17 DEF Seen
  <2>4. \A e \in md'[s].mdir_msg_hash : Seen(e.uid)
    BY <1>5, <1>12, <1>15
  <2>5. pc'[s] \notin Changing /\ W \subseteq V
    BY <1>15, <1>18 DEF Changing
  <2>6. QED
    BY <2>1, <2>2, <2>3, <2>4, <2>5 DEF NewUids
<1>20. FilesStep(s)
  <2>1. OneMessage'
    <3>1. OneMessage
      BY DEF MaildirInv, Issue
    <3>2. QED
      BY <1>4, <1>7, <1>8, <1>9, <3>1 DEF OneMessage
  <2>2. QED
    BY <1>2, <1>7, <1>10, <2>1 DEF FilesStep
<1>21. CallStep(s, V)
  <2>1. ~Seen(u)'
    BY <1>4, <1>5, <1>15, <1>18, <1>19, SeenStep
  <2>2. \A v : v = call'[s].uid => ~Seen(v)'
    <3>1. SUFFICES ASSUME NEW v, v = u
                   PROVE  ~Seen(v)'
      BY <1>13, <1>15
    <3>2. QED
      BY <2>1, <3>1 DEF Seen
  <2>3. \A n \in call'[s].msg : Link("tmp", call'[s].uid, "", n) \in files'
    BY <1>6, <1>7, <1>13, <1>15
  <2>4. QED
    BY <1>13, <1>15, <1>18, <2>2, <2>3 DEF CallStep, Changing
<1>22. Issue' /\ Spare' /\ AllKept'
  <2>1. pc'[s] \notin {"unlink", "finish"} /\ accepted' = accepted /\ removed' = removed /\ unlinked' = unlinked
    BY <1>2, <1>15
  <2>2. QED
    BY <1>15, <1>16, <1>17, <1>19, <1>20, <1>21, <2>1, LocalInv
<1>23. Typed'
  <2>1. call'[s].msg \subseteq call[s].msg
    BY <1>13, <1>15
  <2>2. mtime' \in [Mailboxes -> 0..MaxTime] /\ accepted' \subseteq Msgs /\ IsFiniteSet(accepted')
          /\ removed' \subseteq Msgs /\ unlinked' \subseteq Msgs
    BY <1>2, <1>5 DEF Typed
  <2>3. QED
    BY <1>2, <1>5, <1>10, <1>15, <2>1, <2>2, TypedStep
<1>24. Hashed'
  BY <1>5, <1>12, <1>15, MovedHashed DEF MaildirInv
<1>25. Custody'
  BY <1>2, <1>13, <1>15, MovedCustody DEF MaildirInv
<1>26. QED
  BY <1>22, <1>23, <1>24, <1>25 DEF MaildirInv

LEMMA FinishAddInv ==
  ASSUME OwnPids, MaildirInv, NEW s \in Sessions, FinishAdd(s)
  PROVE  MaildirInv'
<1>1. PICK u, e : u = call[s].uid /\ e = Entry(u, "", TRUE)
  OBVIOUS
<1>2. /\ files' = IF call[s].linked THEN files \ At("tmp", u, "") ELSE files
      /\ \E h \in Hashes(md[s].mdir_msg_hash, {e}) :
           md' = [md EXCEPT ![s].mdir_mtime["new"] = mtime["new"],
                            ![s].mdir_msg_list = @ \cup {e}, ![s].mdir_msg_hash = h]
  <2>1. e.uid = u
    BY <1>1 DEF Entry
  <2>2. QED
    BY <1>1, <2>1 DEF FinishAdd
<1>3. /\ pc[s] = "finish" /\ Return(s) /\ accepted' = accepted \cup call[s].msg
      /\ UNCHANGED <<now, mtime, hardlinks, unsent, crashes, changes, removed, unlinked>>
  BY DEF FinishAdd, bounds
<1>4. /\ Typed /\ md[s] \in MdSet /\ md[s].mdir_counter \in Nat /\ OneEntry(md[s].mdir_msg_hash)
      /\ call[s] \in CallSet /\ IsFiniteSet(call[s].msg) /\ call[s].msg \subseteq Msgs
      /\ \A d \in md[s].mdir_msg_hash : Seen(d.uid) /\ d \in Entries
  BY HashFacts DEF MaildirInv
<1>5. u \in UidSpace /\ u.pid = Pid[s] /\ u.n < md[s].mdir_counter
  BY <1>1, <1>3 DEF MaildirInv, Issue, Drafting, Adding
<1>6. e \in Entries /\ e.uid = u
  BY <1>1, <1>5, MaildirAssumption DEF Entry, Entries
<1>7. PICK h \in Hashes(md[s].mdir_msg_hash, {e}) :
           md' = [md EXCEPT ![s].mdir_mtime["new"] = mtime["new"],
                            ![s].mdir_msg_list = @ \cup {e}, ![s].mdir_msg_hash = h]
  BY <1>2
<1>8. OneEntry(h) /\ h \subseteq md[s].mdir_msg_hash \cup {e}
  BY <1>4, <1>7, HashesFacts
<1>9. PICK z : z = [md[s].mdir_mtime EXCEPT !["new"] = mtime["new"]]
  OBVIOUS
<1>10. z \in [Mailboxes -> 0..Never]
  <2>1. mtime["new"] \in 0..Never
    BY <1>4, Bounds DEF Typed, Mailboxes
  <2>2. md[s].mdir_mtime \in [Mailboxes -> 0..Never]
    BY <1>4 DEF MdSet
  <2>3. QED
    BY <1>9, <2>1, <2>2
<1>11. PICK m : m = [md[s] EXCEPT !.mdir_mtime = z, !.mdir_msg_list = @ \cup {e}, !.mdir_msg_hash = h]
  OBVIOUS
<1>12. h \subseteq Entries
  BY <1>4, <1>6, <1>8
<1>13. m \in MdSet /\ m.mdir_msg_hash = h /\ m.mdir_counter = md[s].mdir_counter
  BY <1>4, <1>6, <1>10, <1>11, <1>12 DEF MdSet
<1>14. Moved(s, m, "idle", NoCall)
  <2>1. md' = [md EXCEPT ![s] = m]
    BY <1>4, <1>7, <1>9, <1>11 DEF Typed, MdSet
  <2>2. QED
    BY <1>3, <2>1 DEF Return, Go, Moved
<1>15. Own(s) /\ md'[s] = m /\ pc'[s] = "idle" /\ call'[s] = NoCall /\ call'[s].msg = {}
  BY <1>4, <1>13, <1>14, NoCallFacts, MovedFacts DEF Labels
<1>16. Grows(s) /\ AcceptedGrows
  <2>1. IsFiniteSet(accepted \cup call[s].msg)
    BY <1>4, FS_Union DEF Typed
  <2>2. QED
    BY <1>3, <1>4, <1>13, <1>15, <2>1 DEF Grows, AcceptedGrows
<1>17. files' \subseteq files /\ \A x \in files : x \in files' \/ (x.dir = "tmp" /\ x.uid = u)
  BY <1>2 DEF At
<1>18. InMailbox' = InMailbox
  BY <1>17 DEF InMailbox, Mailboxes
<1>19. PICK V : V = {u}
  OBVIOUS
<1>20. NewUids(s, V, V)
  <2>1. \A v \in V : v \in UidSpace /\ v.pid = Pid[s] /\ v.n < md'[s].mdir_counter
    BY <1>5, <1>13, <1>15, <1>19
  <2>2. \A x \in InMailbox' : Seen(x.uid)
    BY <1>18 DEF Seen
  <2>3. \A d \in md'[s].mdir_msg_hash : Seen(d.uid) \/ d.uid \in V
    BY <1>4, <1>6, <1>8, <1>13, <1>15, <1>19
  <2>4. pc'[s] \notin Changing
    BY <1>15 DEF Changing
  <2>5. QED
    BY <1>17, <2>1, <2>2, <2>3, <2>4 DEF NewUids
<1>21. FilesStep(s)
  <2>1. OneMessage'
    BY <1>17 DEF OneMessage, MaildirInv, Issue
  <2>2. \A x \in files : x.dir = "tmp" /\ x.uid.pid # Pid[s] => x \in files'
    BY <1>5, <1>17
  <2>3. QED
    BY <1>3, <1>4, <1>17, <2>1, <2>2 DEF FilesStep, Typed
<1>22. CallStep(s, V)
  BY <1>15 DEF CallStep, Adding, Changing
<1>23. Issue' /\ Spare' /\ AllKept'
  <2>1. pc'[s] \notin {"unlink", "finish"} /\ removed' = removed /\ unlinked' = unlinked
         /\ \A n \in accepted' : n \in accepted \/ (pc[s] = "finish" /\ n \in call[s].msg)
    BY <1>3, <1>15
  <2>2. QED
    BY <1>15, <1>16, <1>18, <1>20, <1>21, <1>22, <2>1, LocalInv
<1>24. Typed'
  <2>1. PICK S : S = files'
    OBVIOUS
  <2>2. S \in SUBSET files /\ IsFiniteSet(files) /\ files \subseteq FileSet
    BY <1>4, <1>17, <2>1 DEF Typed
  <2>3. IsFiniteSet(S)
    BY <2>2, FS_Subset
  <2>4. /\ mtime' \in [Mailboxes -> 0..MaxTime] /\ accepted' \subseteq Msgs /\ removed' \subseteq Msgs
        /\ unlinked' \subseteq Msgs /\ call'[s].msg \subseteq call[s].msg
    BY <1>3, <1>4, <1>15 DEF Typed
  <2>5. QED
    BY <1>3, <1>4, <1>15, <1>16, <2>1, <2>2, <2>3, <2>4, TypedStep DEF AcceptedGrows
<1>25. Hashed'
  BY <1>8, <1>13, <1>15, MovedHashed DEF MaildirInv
<1>26. Custody'
  <2>1. \A t \in Sessions : t # s => call'[t].msg = call[t].msg
    BY <1>15 DEF Own
  <2>2. Custody
    BY DEF MaildirInv
  <2>3. unsent' \cap accepted' = {}
    BY <1>3, <2>2 DEF Custody
  <2>4. \A t \in Sessions : call'[t].msg \cap (unsent' \cup accepted') = {}
    BY <1>3, <1>15, <2>1, <2>2 DEF Custody
  <2>5. \A t, v \in Sessions : t # v => call'[t].msg \cap call'[v].msg = {}
    BY <1>15, <2>1, <2>2 DEF Custody
  <2>6. \A t \in Sessions : \A v, w \in call'[t].msg : v = w
    BY <1>15, <2>1, <2>2 DEF Custody
  <2>7. QED
    BY <2>3, <2>4, <2>5, <2>6 DEF Custody
<1>27. QED
  BY <1>23, <1>24, <1>25, <1>26 DEF MaildirInv

-----------------------------------------------------------------------------
\* Steps that change the mailbox.

LEMMA TouchFacts ==
  ASSUME Typed, NEW D, Touch(D)
  PROVE  mtime' \in [Mailboxes -> 0..MaxTime]
BY DEF Typed, Touch

LEMMA PendingShrinks ==
  ASSUME NEW s \in Sessions, Own(s), pc'[s] # "unlink", NEW u
  PROVE  Pending(u)' \subseteq Pending(u)
<1>1. PICK P : P = Pending(u)'
  OBVIOUS
<1>2. ASSUME NEW t \in P
      PROVE  t \in Pending(u)
  <2>1. t \in Sessions /\ pc'[t] = "unlink" /\ call'[t].from.uid = u
    BY <1>1 DEF Pending
  <2>2. t # s
    BY <2>1
  <2>3. QED
    BY <2>1, <2>2 DEF Own, Pending
<1>3. QED
  BY <1>1, <1>2

\* Names that stay, and sessions that are still to unlink one.
LEMMA StillSpare ==
  ASSUME NEW A, NEW B, NEW C, NEW D, IsFiniteSet(B), IsFiniteSet(C), A \subseteq C, D \subseteq B,
         Cardinality(A) > Cardinality(B)
  PROVE  Cardinality(C) > Cardinality(D)
<1>1. A \in SUBSET C /\ D \in SUBSET B
  OBVIOUS
<1>2. IsFiniteSet(A) /\ IsFiniteSet(D) /\ Cardinality(A) <= Cardinality(C) /\ Cardinality(D) <= Cardinality(B)
  BY <1>1, FS_Subset
<1>3. PICK a \in Nat, b \in Nat, c \in Nat, d \in Nat :
        a = Cardinality(A) /\ b = Cardinality(B) /\ c = Cardinality(C) /\ d = Cardinality(D)
  BY <1>2, FS_CardinalityType
<1>4. a <= c /\ d <= b /\ a > b
  BY <1>2, <1>3
<1>5. c > d
  BY <1>4
<1>6. QED
  BY <1>3, <1>5

LEMMA NonEmptySpare ==
  ASSUME NEW C, NEW D, NEW x \in C, IsFiniteSet(C), D = {}
  PROVE  Cardinality(C) > Cardinality(D)
<1>1. Cardinality(C) \in Nat /\ Cardinality(C) # 0 /\ Cardinality(D) = 0
  BY FS_CardinalityType, FS_EmptySet
<1>2. QED
  BY <1>1

LEMMA FileInv ==
  ASSUME OwnPids, MaildirInv, NEW s \in Sessions, Own(s), Grows(s), NEW V, NEW W,
         NewUids(s, V, W), FilesStep(s), CallStep(s, V), IsFiniteSet(files'),
         mtime' \in [Mailboxes -> 0..MaxTime], removed' \subseteq Msgs, unlinked' \subseteq Msgs,
         call'[s].msg \subseteq call[s].msg, OneEntry(md'[s].mdir_msg_hash),
         UNCHANGED <<now, hardlinks, unsent, crashes, changes, accepted>>,
         \A m : Kept(m) => Kept(m)', pc'[s] = "finish" => \A m \in call'[s].msg : Kept(m)', Spare'
  PROVE  MaildirInv'
<1>1. Typed /\ AcceptedGrows /\ files' \subseteq FileSet /\ accepted' \subseteq Msgs /\ IsFiniteSet(accepted')
  BY DEF MaildirInv, Typed, AcceptedGrows, FilesStep
<1>2. Typed'
  BY <1>1, TypedStep
<1>3. Hashed'
  BY MovedHashed DEF MaildirInv
<1>4. Custody'
  BY MovedCustody DEF MaildirInv
<1>5. Issue'
  BY <1>1, IssueStep DEF MaildirInv
<1>6. AllKept'
  BY KeptStep DEF MaildirInv
<1>7. QED
  BY <1>2, <1>3, <1>4, <1>5, <1>6 DEF MaildirInv

\* A name has one link at most.
LEMMA AtOne ==
  ASSUME MaildirInv, NEW d, NEW u, NEW f
  PROVE  /\ At(d, u, f) \subseteq files
         /\ \A x, y \in At(d, u, f) : x = y
         /\ \A x \in At(d, u, f) : x.dir = d /\ x.uid = u /\ x.fl = f
<1>1. /\ At(d, u, f) \subseteq files
      /\ \A x \in At(d, u, f) : x.dir = d /\ x.uid = u /\ x.fl = f
  BY DEF At
<1>2. ASSUME NEW x \in At(d, u, f), NEW y \in At(d, u, f)
      PROVE  x = y
  <2>1. x \in FileSet /\ y \in FileSet /\ x.msg = y.msg
    BY <1>1 DEF MaildirInv, Typed, Issue, OneMessage
  <2>2. x.dir = y.dir /\ x.uid = y.uid /\ x.fl = y.fl
    BY <1>1
  <2>3. QED
    BY <2>1, <2>2 DEF FileSet
<1>3. QED
  BY <1>1, <1>2

\* D holds the link of uid u in new/ for the one in tmp/.
DraftSet(D, u) ==
  /\ \A x \in D : /\ x \in FileSet /\ x.dir = "new" /\ x.uid = u
                  /\ \E y \in files : y.uid = u /\ x.msg = y.msg
  /\ \A x, y \in D : x = y
  /\ \A m \in Msgs : Link("tmp", u, "", m) \in files => \E x \in D : x.msg = m

LEMMA DraftsFacts ==
  ASSUME MaildirInv, NEW s \in Sessions, NEW u \in UidSpace, NEW D, u = call[s].uid, D = Drafts(s)
  PROVE  DraftSet(D, u)
<1>1. PICK A : A = At("tmp", u, "")
  OBVIOUS
<1>2. /\ A \subseteq files /\ \A x, y \in A : x = y
      /\ \A x \in A : x.uid = u /\ x.msg \in Msgs
  <2>1. PICK d, f : d = "tmp" /\ f = ""
    OBVIOUS
  <2>2. PICK B : B = At(d, u, f)
    OBVIOUS
  <2>3. B \subseteq files /\ (\A x, y \in B : x = y) /\ \A x \in B : x.uid = u
    BY <2>2, AtOne
  <2>4. B = A /\ \A x \in files : x.msg \in Msgs
    BY <1>1, <2>1, <2>2 DEF MaildirInv, Typed, FileSet
  <2>5. QED
    BY <2>3, <2>4
<1>3. D = {Link("new", u, "", x.msg) : x \in A}
  BY <1>1 DEF Drafts
<1>4. ASSUME NEW x \in D
      PROVE  /\ x \in FileSet /\ x.dir = "new" /\ x.uid = u
             /\ \E y \in files : y.uid = u /\ x.msg = y.msg
  <2>1. PICK y \in A : x = Link("new", u, "", y.msg)
    BY <1>3
  <2>2. PICK m \in Msgs : m = y.msg
    BY <1>2
  <2>3. Is(x, "new", u, "", m)
    BY <1>1, <2>1, <2>2, NameLinkFacts
  <2>4. QED
    BY <1>2, <2>2, <2>3 DEF Is
<1>5. \A x, y \in D : x = y
  BY <1>2, <1>3
<1>6. ASSUME NEW m \in Msgs, Link("tmp", u, "", m) \in files
      PROVE  \E x \in D : x.msg = m
  <2>1. PICK y : y = Link("tmp", u, "", m)
    OBVIOUS
  <2>2. Is(y, "tmp", u, "", m)
    BY <1>1, <2>1, NameLinkFacts
  <2>3. y \in A /\ y.msg = m
    BY <1>1, <1>6, <2>1, <2>2 DEF Is, At
  <2>4. Link("new", u, "", m) \in D
    BY <1>3, <2>3
  <2>5. Is(Link("new", u, "", m), "new", u, "", m)
    BY <1>1, NameLinkFacts
  <2>6. QED
    BY <2>4, <2>5 DEF Is
<1>7. \A m \in Msgs : Link("tmp", u, "", m) \in files => \E x \in D : x.msg = m
  BY <1>6
<1>8. \A x \in D : /\ x \in FileSet /\ x.dir = "new" /\ x.uid = u
                           /\ \E y \in files : y.uid = u /\ x.msg = y.msg
  BY <1>4
<1>9. QED
  BY <1>5, <1>7, <1>8 DEF DraftSet

\* The draft gets its name in new/.
LEMMA DeliveredInv ==
  ASSUME OwnPids, MaildirInv, NEW s \in Sessions, pc[s] = "deliver", Own(s), md' = md, pc'[s] = "finish",
         call'[s].msg = call[s].msg, call'[s].uid = call[s].uid,
         files' \subseteq files \cup Drafts(s), Drafts(s) \subseteq files',
         \A x \in files : x \in files' \/ (x.dir = "tmp" /\ x.uid = call[s].uid),
         mtime' \in [Mailboxes -> 0..MaxTime],
         UNCHANGED <<now, hardlinks, unsent, crashes, changes, accepted, removed, unlinked>>
  PROVE  MaildirInv'
<1>1. PICK u, D : u = call[s].uid /\ D = Drafts(s)
  OBVIOUS
<1>2. /\ u \in UidSpace /\ u.pid = Pid[s] /\ u.n < md[s].mdir_counter /\ ~Seen(u)
      /\ \A m \in call[s].msg : Link("tmp", u, "", m) \in files
  BY <1>1 DEF MaildirInv, Issue, Drafting, Adding
<1>3. /\ \A x \in D : /\ x \in FileSet /\ x.dir = "new" /\ x.uid = u
                      /\ \E y \in files : y.uid = u /\ x.msg = y.msg
      /\ \A x, y \in D : x = y
      /\ \A m \in Msgs : Link("tmp", u, "", m) \in files => \E x \in D : x.msg = m
  <2>1. DraftSet(D, u)
    BY <1>1, <1>2, DraftsFacts
  <2>2. QED
    BY <2>1 DEF DraftSet
<1>4. /\ Typed /\ OneEntry(md[s].mdir_msg_hash) /\ md[s].mdir_counter \in Nat
      /\ call[s].msg \subseteq Msgs /\ OneMessage /\ Spare
      /\ \A d \in md[s].mdir_msg_hash : Seen(d.uid)
  BY HashFacts DEF MaildirInv, Issue
<1>5. files' \subseteq files \cup D /\ D \subseteq files' /\ \A x \in files : x \in files' \/ (x.dir = "tmp" /\ x.uid = u)
  BY <1>1
<1>6. Grows(s) /\ AcceptedGrows
  BY <1>4 DEF Grows, AcceptedGrows, Typed
<1>7. PICK V : V = {u}
  OBVIOUS
<1>8. \A x \in InMailbox' : x \in InMailbox \/ x \in D
  BY <1>5 DEF InMailbox
<1>9. NewUids(s, V, V)
  <2>1. \A v \in V : v \in UidSpace /\ v.pid = Pid[s] /\ v.n < md'[s].mdir_counter
    BY <1>2, <1>7
  <2>2. \A x \in files' : (\E y \in files : y.uid = x.uid) \/ x.uid \in V
    BY <1>3, <1>5, <1>7
  <2>3. \A x \in InMailbox' : Seen(x.uid) \/ x.uid \in V
    BY <1>3, <1>7, <1>8 DEF Seen
  <2>4. pc'[s] \notin Changing /\ \A d \in md'[s].mdir_msg_hash : Seen(d.uid)
    BY <1>4 DEF Changing
  <2>5. QED
    BY <2>1, <2>2, <2>3, <2>4 DEF NewUids
<1>10. FilesStep(s)
  <2>1. ASSUME NEW x \in files'
        PROVE  \E y \in files : y.uid = x.uid /\ y.msg = x.msg
    <3>1. CASE x \in files
      BY <3>1
    <3>2. CASE x \in D
      <4>1. x.uid = u /\ \E y \in files : y.uid = u /\ x.msg = y.msg
        BY <1>3, <3>2
      <4>2. QED
        BY <4>1
    <3>3. QED
      BY <1>5, <3>1, <3>2
  <2>2. OneMessage'
    BY <1>4, <2>1 DEF OneMessage
  <2>3. files' \subseteq FileSet
    BY <1>3, <1>4, <1>5 DEF Typed
  <2>4. QED
    BY <1>2, <1>5, <2>2, <2>3 DEF FilesStep
<1>11. CallStep(s, V)
  BY <1>1, <1>7 DEF CallStep, Changing
<1>12. IsFiniteSet(files')
  <2>1. PICK S : S = files'
    OBVIOUS
  <2>2. IsFiniteSet(D) /\ IsFiniteSet(files)
    BY <1>3, <1>4, AtMostOne DEF Typed
  <2>3. IsFiniteSet(files \cup D) /\ S \in SUBSET (files \cup D)
    BY <1>5, <2>1, <2>2, FS_Union
  <2>4. IsFiniteSet(S)
    BY <2>3, FS_Subset
  <2>5. QED
    BY <2>1, <2>4
<1>13. InMailbox \subseteq InMailbox' /\ D \subseteq InMailbox'
  BY <1>3, <1>5 DEF InMailbox, Mailboxes
<1>14. \A m : Kept(m) => Kept(m)'
  BY <1>13 DEF Kept
<1>15. \A m \in call'[s].msg : Kept(m)'
  <2>1. \A m \in call[s].msg : \E x \in D : x.msg = m
    BY <1>2, <1>3, <1>4
  <2>2. QED
    BY <1>13, <2>1 DEF Kept
<1>16. ASSUME NEW x \in InMailbox', x.msg \notin removed
       PROVE  (Cardinality(Names(x.uid)) > Cardinality(Pending(x.uid)))'
  <2>1. PICK v : v = x.uid
    OBVIOUS
  <2>2. PICK C, E : C = Names(v)' /\ E = Pending(v)'
    OBVIOUS
  <2>3. IsFiniteSet(C)
    <3>1. PICK S : S = files'
      OBVIOUS
    <3>2. C \in SUBSET S /\ IsFiniteSet(S)
      BY <1>12, <2>2, <3>1 DEF Names, InMailbox
    <3>3. QED
      BY <3>2, FS_Subset
  <2>4. E \subseteq Pending(v)
    BY <2>2, PendingShrinks
  <2>5. CASE v = u
    <3>1. Pending(v) = {}
      BY <1>2, <2>5 DEF Pending, Seen, Changing
    <3>2. x \in C /\ E = {}
      BY <2>1, <2>2, <2>4, <3>1 DEF Names
    <3>3. Cardinality(C) > Cardinality(E)
      BY <2>3, <3>2, NonEmptySpare
    <3>4. QED
      BY <2>1, <2>2, <3>3
  <2>6. CASE v # u
    <3>1. x \in InMailbox
      BY <1>3, <1>8, <2>1, <2>6
    <3>2. Cardinality(Names(v)) > Cardinality(Pending(v))
      BY <1>4, <1>16, <2>1, <3>1 DEF Spare
    <3>3. Names(v) \subseteq C
      BY <1>13, <2>2 DEF Names
    <3>4. IsFiniteSet(Pending(v))
      BY <1>4, PendingFinite
    <3>5. Cardinality(C) > Cardinality(E)
      BY <2>3, <2>4, <3>2, <3>3, <3>4, StillSpare
    <3>6. QED
      BY <2>1, <2>2, <3>5
  <2>7. QED
    BY <2>5, <2>6
<1>17. Spare'
  BY <1>16 DEF Spare
<1>18. removed' \subseteq Msgs /\ unlinked' \subseteq Msgs /\ OneEntry(md'[s].mdir_msg_hash) /\ call'[s].msg \subseteq call[s].msg
  BY <1>4 DEF Typed
<1>19. QED
  BY <1>6, <1>9, <1>10, <1>11, <1>12, <1>14, <1>15, <1>17, <1>18, FileInv

\* link() fails and nobody notices: the message stays in tmp/.
LEMMA UndeliveredInv ==
  ASSUME OwnPids, MaildirInv, NEW s \in Sessions, pc[s] = "deliver", Go(s, "finish"),
         unlinked' = unlinked \cup call[s].msg,
         UNCHANGED <<now, files, mtime, hardlinks, md, call, unsent, crashes, changes, accepted, removed>>
  PROVE  MaildirInv'
<1>1. /\ Typed /\ Spare /\ OneMessage /\ OneEntry(md[s].mdir_msg_hash) /\ md[s].mdir_counter \in Nat
      /\ call[s] \in CallSet /\ call[s].msg \subseteq Msgs /\ \A d \in md[s].mdir_msg_hash : Seen(d.uid)
  BY HashFacts DEF MaildirInv, Issue
<1>2. Own(s) /\ Grows(s) /\ pc'[s] = "finish"
  BY <1>1 DEF Go, Own, Grows, Typed, Labels
<1>3. PICK u, V, W : u = call[s].uid /\ V = {u} /\ W = {}
  OBVIOUS
<1>4. u \in UidSpace /\ u.pid = Pid[s] /\ u.n < md[s].mdir_counter
  BY <1>3 DEF MaildirInv, Issue, Drafting, Adding
<1>5. InMailbox' = InMailbox
  BY DEF InMailbox
<1>6. NewUids(s, V, W)
  <2>1. \A x \in InMailbox' : Seen(x.uid)
    BY <1>5 DEF Seen
  <2>2. QED
    BY <1>1, <1>2, <1>3, <1>4, <2>1 DEF NewUids, Changing
<1>7. FilesStep(s)
  BY <1>1 DEF FilesStep, OneMessage, Typed
<1>8. CallStep(s, V)
  BY <1>2, <1>3 DEF CallStep, Changing
<1>9. Spare'
  BY <1>1, <1>2, <1>5, SpareSame
<1>10. \A m : Kept(m) => Kept(m)'
  BY <1>5 DEF Kept
<1>11. \A m \in call'[s].msg : Kept(m)'
  BY DEF Kept
<1>12. /\ IsFiniteSet(files') /\ mtime' \in [Mailboxes -> 0..MaxTime] /\ removed' \subseteq Msgs
       /\ unlinked' \subseteq Msgs /\ call'[s].msg \subseteq call[s].msg
       /\ OneEntry(md'[s].mdir_msg_hash)
  BY <1>1 DEF Typed
<1>13. QED
  BY <1>2, <1>6, <1>7, <1>8, <1>9, <1>10, <1>11, <1>12, FileInv

LEMMA DeliverInv ==
  ASSUME OwnPids, MaildirInv, NEW s \in Sessions, Deliver(s)
  PROVE  MaildirInv'
<1>1. /\ Typed /\ md[s] \in MdSet /\ call[s] \in CallSet /\ pc[s] = "deliver" /\ Go(s, "finish")
      /\ UNCHANGED <<now, hardlinks, unsent, crashes, changes, accepted, removed>> /\ md' = md
  BY HashFacts DEF MaildirInv, Deliver, bounds
<1>2. CASE unlinked' = unlinked \cup call[s].msg /\ UNCHANGED <<disk, call>>
  <2>1. UNCHANGED <<files, mtime, call>>
    BY <1>2 DEF disk
  <2>2. QED
    BY <1>1, <1>2, <2>1, UndeliveredInv
<1>3. CASE /\ files' = files \cup Drafts(s) /\ Touch({"new"})
           /\ call' = [call EXCEPT ![s].linked = TRUE] /\ UNCHANGED unlinked
  <2>1. PICK c, m : m = md[s] /\ c = [call[s] EXCEPT !.linked = TRUE]
    OBVIOUS
  <2>2. m \in MdSet /\ c \in CallSet /\ c.msg = call[s].msg /\ c.uid = call[s].uid
    BY <1>1, <2>1 DEF CallSet
  <2>3. Moved(s, m, "finish", c)
    BY <1>1, <1>3, <2>1 DEF Go, Moved, Typed
  <2>4. Own(s) /\ pc'[s] = "finish" /\ call'[s] = c
    BY <1>1, <2>2, <2>3, MovedFacts DEF Labels
  <2>5. mtime' \in [Mailboxes -> 0..MaxTime]
    BY <1>1, <1>3, TouchFacts
  <2>6. QED
    BY <1>1, <1>3, <2>2, <2>4, <2>5, DeliveredInv
<1>4. QED
  BY <1>2, <1>3 DEF Deliver

LEMMA DeliverByRenameInv ==
  ASSUME OwnPids, MaildirInv, NEW s \in Sessions, DeliverByRename(s)
  PROVE  MaildirInv'
<1>1. SUFFICES ASSUME Drafts(s) # {}
               PROVE  MaildirInv'
  BY NoDeliveryInv
<1>2. /\ Typed /\ md[s] \in MdSet /\ call[s] \in CallSet /\ pc[s] = "deliver" /\ md' = md /\ call' = call
      /\ UNCHANGED <<now, hardlinks, unsent, crashes, changes, accepted, removed, unlinked>>
  BY <1>1, HashFacts DEF MaildirInv, DeliverByRename, bounds
<1>3. PICK c, m : m = md[s] /\ c = call[s]
  OBVIOUS
<1>4. Moved(s, m, "finish", c)
  BY <1>1, <1>2, <1>3 DEF DeliverByRename, Go, Moved, Typed
<1>5. Own(s) /\ pc'[s] = "finish" /\ call'[s] = c
  BY <1>2, <1>3, <1>4, MovedFacts DEF Labels
<1>6. At("new", call[s].uid, "") = {}
  <2>1. ~Seen(call[s].uid)
    BY <1>2 DEF MaildirInv, Issue, Drafting
  <2>2. QED
    BY <2>1 DEF At, Seen, InMailbox, Mailboxes
<1>7. files' = (files \ At("tmp", call[s].uid, "")) \cup Drafts(s)
  BY <1>1, <1>6 DEF DeliverByRename
<1>8. \A x \in files : x \in files' \/ (x.dir = "tmp" /\ x.uid = call[s].uid)
  BY <1>7 DEF At
<1>9. mtime' \in [Mailboxes -> 0..MaxTime]
  <2>1. \E T : Touch(T)
    BY <1>1 DEF DeliverByRename
  <2>2. QED
    BY <1>2, <2>1, TouchFacts
<1>10. files' \subseteq files \cup Drafts(s) /\ Drafts(s) \subseteq files'
  BY <1>7
<1>11. QED
  BY <1>2, <1>3, <1>5, <1>8, <1>9, <1>10, DeliveredInv

LEMMA NamesFinite ==
  ASSUME IsFiniteSet(files'), NEW v
  PROVE  IsFiniteSet(Names(v)')
<1>1. PICK S, C : S = files' /\ C = Names(v)'
  OBVIOUS
<1>2. C \in SUBSET S /\ IsFiniteSet(S)
  BY <1>1 DEF Names, InMailbox
<1>3. IsFiniteSet(C)
  BY <1>2, FS_Subset
<1>4. QED
  BY <1>1, <1>3

LEMMA DirFacts == \A e \in Entries : Dir(e) \in Mailboxes
BY DEF Dir, Mailboxes

LEMMA RemoveInv ==
  ASSUME OwnPids, MaildirInv, NEW s \in Sessions, NEW e \in md[s].mdir_msg_hash, Remove(s, e)
  PROVE  MaildirInv'
<1>1. PICK G, d : G = At(d, e.uid, e.fl) /\ d = Dir(e)
  OBVIOUS
<1>2. /\ pc[s] = "idle" /\ files' = files \ G /\ removed' = removed \cup {x.msg : x \in G} /\ Touch({d})
      /\ UNCHANGED <<now, hardlinks, md, pc, call, unsent, crashes, changes, accepted, unlinked>>
  BY <1>1 DEF Remove, bounds
<1>3. /\ Typed /\ OneEntry(md[s].mdir_msg_hash) /\ md[s].mdir_counter \in Nat
      /\ OneMessage /\ Spare /\ e \in Entries
      /\ \A x \in md[s].mdir_msg_hash : Seen(x.uid)
  BY HashFacts DEF MaildirInv, Issue
<1>4. d \in Mailboxes
  BY <1>1, <1>3, DirFacts
<1>5. G \subseteq files /\ (\A x \in G : x.dir = d) /\ (\A x \in files : x.msg \in Msgs)
  BY <1>1, <1>3 DEF At, Typed, FileSet
<1>6. Own(s) /\ Grows(s)
  BY <1>2, <1>3 DEF Own, Grows, Typed
<1>7. PICK V : V = {}
  OBVIOUS
<1>8. InMailbox' = InMailbox \ G
  BY <1>2 DEF InMailbox
<1>9. NewUids(s, V, V)
  <2>1. \A x \in InMailbox' : Seen(x.uid)
    BY <1>8 DEF Seen
  <2>2. \A x \in files' : \E y \in files : y.uid = x.uid
    BY <1>2
  <2>3. pc'[s] \notin Changing /\ \A x \in md'[s].mdir_msg_hash : Seen(x.uid)
    BY <1>2, <1>3 DEF Changing
  <2>4. QED
    BY <1>7, <2>1, <2>2, <2>3 DEF NewUids
<1>10. FilesStep(s)
  <2>1. OneMessage'
    BY <1>2, <1>3 DEF OneMessage
  <2>2. \A x \in files : x.dir = "tmp" => x \in files'
    BY <1>2, <1>4, <1>5 DEF Mailboxes
  <2>3. QED
    BY <1>2, <1>3, <2>1, <2>2 DEF FilesStep, Typed
<1>11. CallStep(s, V)
  BY <1>2 DEF CallStep, Adding, Changing
<1>12. IsFiniteSet(files')
  <2>1. IsFiniteSet(files) /\ files \ G \in SUBSET files
    BY <1>3 DEF Typed
  <2>2. QED
    BY <1>2, <2>1, FS_Subset
<1>13. \A m : Kept(m) => Kept(m)'
  BY <1>2, <1>8 DEF Kept
<1>14. ASSUME NEW x \in InMailbox', x.msg \notin removed'
       PROVE  (Cardinality(Names(x.uid)) > Cardinality(Pending(x.uid)))'
  <2>1. PICK v : v = x.uid
    OBVIOUS
  <2>2. PICK C, E : C = Names(v)' /\ E = Pending(v)'
    OBVIOUS
  <2>3. x \in InMailbox /\ x \in files /\ x.msg \notin removed
    BY <1>2, <1>8, <1>14 DEF InMailbox
  <2>4. Cardinality(Names(v)) > Cardinality(Pending(v))
    BY <1>3, <2>1, <2>3 DEF Spare
  <2>5. \A y \in G : y.uid # v
    BY <1>2, <1>3, <1>5, <1>14, <2>1, <2>3 DEF OneMessage
  <2>6. Names(v) \subseteq C
    BY <1>8, <2>2, <2>5 DEF Names
  <2>7. E \subseteq Pending(v)
    BY <1>2, <1>6, <2>2, PendingShrinks
  <2>8. IsFiniteSet(C) /\ IsFiniteSet(Pending(v))
    BY <1>3, <1>12, <2>2, NamesFinite, PendingFinite
  <2>9. Cardinality(C) > Cardinality(E)
    BY <2>4, <2>6, <2>7, <2>8, StillSpare
  <2>10. QED
    BY <2>1, <2>2, <2>9
<1>15. Spare'
  BY <1>14 DEF Spare
<1>16. removed' \subseteq Msgs /\ unlinked' \subseteq Msgs /\ mtime' \in [Mailboxes -> 0..MaxTime]
  BY <1>2, <1>3, <1>5, TouchFacts DEF Typed
<1>17. call'[s].msg \subseteq call[s].msg /\ OneEntry(md'[s].mdir_msg_hash) /\ pc'[s] # "finish"
  BY <1>2, <1>3
<1>18. QED
  BY <1>2, <1>6, <1>9, <1>10, <1>11, <1>12, <1>13, <1>15, <1>16, <1>17, FileInv

\* The links of a change of flags: the old name O, the new name N and the
\* link L that is to get it, for the uid u.
Change(u, O, N, L) ==
  /\ u \in UidSpace /\ Seen(u)
  /\ O \subseteq InMailbox /\ (\A x \in O : x.uid = u) /\ (\A x, y \in O : x = y)
  /\ N \subseteq InMailbox /\ (\A x \in N : x.uid = u)
  /\ \A x \in L : /\ x \in FileSet /\ x.dir \in Mailboxes /\ x.uid = u
                  /\ (x \in files => x \in N) /\ \E y \in O : y.msg = x.msg
  /\ \A x, y \in L : x = y
  /\ \A y \in O : \E x \in L : x.msg = y.msg

LEMMA ChangeFacts ==
  ASSUME MaildirInv, NEW s \in Sessions, pc[s] \in Changing,
         NEW u, NEW O, NEW N, NEW L,
         u = call[s].from.uid, O = OldName(s), N = NewName(s), L = NewLinks(s)
  PROVE  Change(u, O, N, L)
<1>1. PICK a, b : a = call[s].from /\ b = call[s].to
  OBVIOUS
<1>2. a \in Entries /\ b \in Entries /\ b.uid = u /\ a.uid = u /\ Seen(u)
  BY <1>1 DEF MaildirInv, Issue, Renaming, Seen
<1>3. PICK d, g : d = Dir(a) /\ g = Dir(b)
  OBVIOUS
<1>4. d \in Mailboxes /\ g \in Mailboxes
  BY <1>2, <1>3, DirFacts
<1>5. O = At(d, u, a.fl) /\ N = At(g, u, b.fl) /\ L = {Link(g, u, b.fl, x.msg) : x \in O}
  BY <1>1, <1>2, <1>3 DEF OldName, NewName, NewLinks
<1>6. u \in UidSpace /\ b.fl \in Flags
  BY <1>2 DEF Entries
<1>7. O \subseteq InMailbox /\ (\A x \in O : x.uid = u) /\ (\A x, y \in O : x = y)
  <2>1. O \subseteq files /\ (\A x, y \in O : x = y) /\ (\A x \in O : x.dir = d /\ x.uid = u)
    BY <1>5, AtOne
  <2>2. QED
    BY <1>4, <2>1 DEF InMailbox
<1>8. N \subseteq InMailbox /\ (\A x \in N : x.uid = u)
  BY <1>4, <1>5 DEF At, InMailbox
<1>9. \A x \in O : x.msg \in Msgs
  BY <1>7 DEF InMailbox, MaildirInv, Typed, FileSet
<1>10. ASSUME NEW x \in L
       PROVE  /\ x \in FileSet /\ x.dir \in Mailboxes /\ x.uid = u
              /\ (x \in files => x \in N) /\ \E y \in O : y.msg = x.msg
  <2>1. PICK y \in O : x = Link(g, u, b.fl, y.msg)
    BY <1>5
  <2>2. PICK m, f : m = y.msg /\ f = b.fl
    OBVIOUS
  <2>3. Is(x, g, u, f, m)
    BY <1>4, <1>6, <1>9, <2>1, <2>2, LinkFacts
  <2>4. x \in files => x \in N
    BY <1>5, <2>2, <2>3 DEF Is, At
  <2>5. QED
    BY <1>4, <2>2, <2>3, <2>4 DEF Is
<1>11. \A x, y \in L : x = y
  BY <1>5, <1>7
<1>12. ASSUME NEW y \in O
       PROVE  \E x \in L : x.msg = y.msg
  <2>1. PICK m, f, x : m = y.msg /\ f = b.fl /\ x = Link(g, u, f, m)
    OBVIOUS
  <2>2. x \in L
    BY <1>5, <2>1
  <2>3. Is(x, g, u, f, m)
    BY <1>4, <1>6, <1>9, <2>1, LinkFacts
  <2>4. QED
    BY <2>1, <2>2, <2>3 DEF Is
<1>13. \A x \in L : /\ x \in FileSet /\ x.dir \in Mailboxes /\ x.uid = u
                    /\ (x \in files => x \in N) /\ \E y \in O : y.msg = x.msg
  BY <1>10
<1>14. \A y \in O : \E x \in L : x.msg = y.msg
  BY <1>12
<1>15. QED
  BY <1>2, <1>6, <1>7, <1>8, <1>11, <1>13, <1>14 DEF Change

\* One name and one session that will unlink one more, or less.
LEMMA SpareGrows ==
  ASSUME NEW A, NEW B, NEW C, NEW D, NEW x, NEW s, IsFiniteSet(A), IsFiniteSet(B), x \notin A,
         C = A \cup {x}, D = B \cup {s}, Cardinality(A) > Cardinality(B)
  PROVE  Cardinality(C) > Cardinality(D)
<1>1. PICK a \in Nat, b \in Nat : a = Cardinality(A) /\ b = Cardinality(B)
  BY FS_CardinalityType
<1>2. Cardinality(A \cup {x}) = a + 1
  BY <1>1, FS_AddElement
<1>3. Cardinality(B \cup {s}) = b \/ Cardinality(B \cup {s}) = b + 1
  BY <1>1, FS_AddElement
<1>4. a > b
  BY <1>1
<1>5. QED
  BY <1>1, <1>2, <1>3, <1>4

LEMMA SpareShrinks ==
  ASSUME NEW A, NEW B, NEW C, NEW D, NEW x, NEW s, IsFiniteSet(A), IsFiniteSet(B), IsFiniteSet(C),
         A \ {x} \subseteq C, D \subseteq B \ {s}, s \in B, Cardinality(A) > Cardinality(B)
  PROVE  Cardinality(C) > Cardinality(D)
<1>1. PICK a \in Nat, b \in Nat : a = Cardinality(A) /\ b = Cardinality(B)
  BY FS_CardinalityType
<1>2. IsFiniteSet(A \ {x}) /\ (Cardinality(A \ {x}) = a \/ Cardinality(A \ {x}) = a - 1)
  BY <1>1, FS_RemoveElement
<1>3. IsFiniteSet(B \ {s}) /\ Cardinality(B \ {s}) = b - 1
  BY <1>1, FS_RemoveElement
<1>4. a > b
  BY <1>1
<1>5. Cardinality(A \ {x}) > Cardinality(B \ {s})
  BY <1>1, <1>2, <1>3, <1>4
<1>6. PICK F, G : F = A \ {x} /\ G = B \ {s}
  OBVIOUS
<1>7. F \subseteq C /\ D \subseteq G /\ IsFiniteSet(G) /\ Cardinality(F) > Cardinality(G)
  BY <1>3, <1>5, <1>6
<1>8. QED
  BY <1>7, StillSpare

LEMMA LinkNameInv ==
  ASSUME OwnPids, MaildirInv, NEW s \in Sessions, LinkName(s)
  PROVE  MaildirInv'
<1>1. PICK u, O, N, L, D : /\ u = call[s].from.uid /\ O = OldName(s) /\ N = NewName(s) /\ L = NewLinks(s)
                           /\ D = {Dir(call[s].to)}
  OBVIOUS
<1>2. /\ pc[s] = "link" /\ hardlinks /\ O # {} /\ N = {} /\ files' = files \cup L /\ Touch(D)
      /\ Go(s, "unlink")
      /\ UNCHANGED <<now, hardlinks, md, call, unsent, crashes, changes, accepted, removed, unlinked>>
  BY <1>1 DEF LinkName, bounds
<1>3. Change(u, O, N, L)
  BY <1>1, <1>2, ChangeFacts DEF Changing
<1>4. PICK o \in O, z \in L : z.msg = o.msg
  BY <1>2, <1>3 DEF Change
<1>5. /\ L = {z} /\ z \notin files /\ z \in FileSet /\ z.dir \in Mailboxes /\ z.uid = u
      /\ o \in InMailbox /\ o.uid = u /\ o \in files /\ Seen(u)
  BY <1>2, <1>3, <1>4 DEF Change, InMailbox
<1>6. /\ Typed /\ OneEntry(md[s].mdir_msg_hash) /\ md[s].mdir_counter \in Nat
      /\ OneMessage /\ Spare
      /\ \A x \in md[s].mdir_msg_hash : Seen(x.uid)
  BY HashFacts DEF MaildirInv, Issue
<1>7. Own(s) /\ pc'[s] = "unlink" /\ Grows(s)
  BY <1>2, <1>6 DEF Own, Grows, Go, Typed, Labels
<1>8. PICK V : V = {}
  OBVIOUS
<1>9. InMailbox' = InMailbox \cup {z} /\ z \notin InMailbox
  BY <1>2, <1>5 DEF InMailbox
<1>10. NewUids(s, V, V)
  <2>1. \A x \in InMailbox' : Seen(x.uid)
    BY <1>5, <1>9 DEF Seen
  <2>2. \A x \in files' : \E y \in files : y.uid = x.uid
    BY <1>2, <1>5
  <2>3. Seen(call'[s].from.uid) /\ \A x \in md'[s].mdir_msg_hash : Seen(x.uid)
    BY <1>1, <1>2, <1>5, <1>6
  <2>4. QED
    BY <1>8, <2>1, <2>2, <2>3 DEF NewUids
<1>11. FilesStep(s)
  <2>1. \A x \in files' : \E y \in files : y.uid = x.uid /\ y.msg = x.msg
    BY <1>2, <1>4, <1>5
  <2>2. OneMessage'
    BY <1>6, <2>1 DEF OneMessage
  <2>3. QED
    BY <1>2, <1>5, <1>6, <2>2 DEF FilesStep, Typed
<1>12. CallStep(s, V)
  <2>1. Renaming(s) /\ pc[s] \in Changing
    BY <1>2 DEF MaildirInv, Issue, Changing
  <2>2. QED
    BY <1>2, <1>7, <2>1 DEF CallStep, Renaming, Adding
<1>13. IsFiniteSet(files')
  <2>1. IsFiniteSet(files \cup {z})
    BY <1>6, FS_AddElement DEF Typed
  <2>2. QED
    BY <1>2, <1>5, <2>1
<1>14. \A m : Kept(m) => Kept(m)'
  BY <1>2, <1>9 DEF Kept
<1>15. ASSUME NEW x \in InMailbox', x.msg \notin removed
       PROVE  (Cardinality(Names(x.uid)) > Cardinality(Pending(x.uid)))'
  <2>1. PICK v : v = x.uid
    OBVIOUS
  <2>2. PICK A, B, C, E : A = Names(v) /\ B = Pending(v) /\ C = Names(v)' /\ E = Pending(v)'
    OBVIOUS
  <2>3. IsFiniteSet(A) /\ IsFiniteSet(B)
    BY <1>6, <2>2, PendingFinite
  <2>4. CASE v = u
    <3>1. o.msg \notin removed
      BY <1>4, <1>5, <1>6, <1>9, <1>15, <2>1, <2>4 DEF OneMessage, InMailbox
    <3>2. Cardinality(A) > Cardinality(B)
      BY <1>5, <1>6, <2>2, <2>4, <3>1 DEF Spare
    <3>3. C = A \cup {z} /\ z \notin A
      BY <1>5, <1>9, <2>2, <2>4 DEF Names
    <3>4. E = B \cup {s}
      BY <1>1, <1>2, <1>7, <2>2, <2>4 DEF Pending, Own
    <3>5. Cardinality(C) > Cardinality(E)
      BY <2>3, <3>2, <3>3, <3>4, SpareGrows
    <3>6. QED
      BY <2>1, <2>2, <3>5
  <2>5. CASE v # u
    <3>1. x \in InMailbox
      BY <1>5, <1>9, <2>1, <2>5
    <3>2. Cardinality(A) > Cardinality(B)
      BY <1>6, <1>15, <2>1, <2>2, <3>1 DEF Spare
    <3>3. C = A
      BY <1>5, <1>9, <2>2, <2>5 DEF Names
    <3>4. E = B
      BY <1>1, <1>2, <1>7, <2>2, <2>5 DEF Pending, Own
    <3>5. QED
      BY <2>1, <2>2, <3>2, <3>3, <3>4
  <2>6. QED
    BY <2>4, <2>5
<1>16. Spare'
  BY <1>2, <1>15 DEF Spare
<1>17. removed' \subseteq Msgs /\ unlinked' \subseteq Msgs /\ mtime' \in [Mailboxes -> 0..MaxTime]
  BY <1>2, <1>6, TouchFacts DEF Typed
<1>18. call'[s].msg \subseteq call[s].msg /\ OneEntry(md'[s].mdir_msg_hash) /\ pc'[s] # "finish"
  BY <1>2, <1>6, <1>7
<1>19. QED
  BY <1>2, <1>7, <1>10, <1>11, <1>12, <1>13, <1>14, <1>16, <1>17, <1>18, FileInv

\* The session is done and its entry has the new name.
Settled(s) ==
  /\ Own(s) /\ Grows(s) /\ pc'[s] = "idle" /\ call'[s].msg = {}
  /\ OneEntry(md'[s].mdir_msg_hash) /\ \A e \in md'[s].mdir_msg_hash : Seen(e.uid)

LEMMA SettledFacts ==
  ASSUME MaildirInv, NEW s \in Sessions, pc[s] \in Changing, md' = [md EXCEPT ![s] = Renamed(s)], Return(s)
  PROVE  Settled(s)
<1>1. PICK m : m = Renamed(s)
  OBVIOUS
<1>2. /\ Typed /\ m \in MdSet /\ NoCall \in CallSet /\ NoCall.msg = {} /\ m.mdir_counter = md[s].mdir_counter
      /\ OneEntry(m.mdir_msg_hash) /\ \A e \in m.mdir_msg_hash : Seen(e.uid)
  BY <1>1, RenamedFacts, NoCallFacts DEF MaildirInv
<1>3. Moved(s, m, "idle", NoCall)
  BY <1>1 DEF Return, Go, Moved
<1>4. Own(s) /\ md'[s] = m /\ pc'[s] = "idle" /\ call'[s] = NoCall
  BY <1>2, <1>3, MovedFacts DEF Labels
<1>5. Grows(s)
  BY <1>2, <1>4, HashFacts DEF Grows, Changing
<1>6. QED
  BY <1>2, <1>4, <1>5 DEF Settled

\* What the ends of both ways to change flags have in common.
LEMMA SettleInv ==
  ASSUME OwnPids, MaildirInv, NEW s \in Sessions, Settled(s),
         UNCHANGED <<now, hardlinks, unsent, crashes, changes, accepted, removed, unlinked>>,
         mtime' \in [Mailboxes -> 0..MaxTime], IsFiniteSet(files'), files' \subseteq FileSet,
         \A x \in files' : \E y \in files : y.uid = x.uid /\ y.msg = x.msg,
         \A x \in InMailbox' : Seen(x.uid),
         \A x \in files : x.dir = "tmp" => x \in files',
         \A m : Kept(m) => Kept(m)', Spare'
  PROVE  MaildirInv'
<1>1. /\ Own(s) /\ Grows(s) /\ pc'[s] = "idle" /\ call'[s].msg = {}
      /\ OneEntry(md'[s].mdir_msg_hash) /\ \A e \in md'[s].mdir_msg_hash : Seen(e.uid)
  BY DEF Settled
<1>2. PICK V : V = {}
  OBVIOUS
<1>3. NewUids(s, V, V)
  BY <1>1, <1>2 DEF NewUids, Changing
<1>4. FilesStep(s)
  <2>1. OneMessage'
    BY DEF OneMessage, MaildirInv, Issue
  <2>2. QED
    BY <2>1 DEF FilesStep
<1>5. CallStep(s, V)
  BY <1>1 DEF CallStep, Adding, Changing
<1>6. removed' \subseteq Msgs /\ unlinked' \subseteq Msgs /\ call'[s].msg \subseteq call[s].msg /\ pc'[s] # "finish"
  BY <1>1 DEF MaildirInv, Typed
<1>7. QED
  BY <1>1, <1>3, <1>4, <1>5, <1>6, FileInv

LEMMA UnlinkNameInv ==
  ASSUME OwnPids, MaildirInv, NEW s \in Sessions, UnlinkName(s)
  PROVE  MaildirInv'
<1>1. PICK u, O, N, L, D : /\ u = call[s].from.uid /\ O = OldName(s) /\ N = NewName(s) /\ L = NewLinks(s)
                           /\ D = IF OldName(s) = {} THEN {} ELSE {Dir(call[s].from)}
  OBVIOUS
<1>2. /\ pc[s] = "unlink" /\ files' = files \ O /\ Touch(D) /\ Return(s)
      /\ md' = [md EXCEPT ![s] = Renamed(s)]
      /\ UNCHANGED <<now, hardlinks, unsent, crashes, changes, accepted, removed, unlinked>>
  BY <1>1 DEF UnlinkName, bounds
<1>3. Change(u, O, N, L) /\ Settled(s)
  BY <1>1, <1>2, ChangeFacts, SettledFacts DEF Changing
<1>4. O \subseteq InMailbox /\ (\A x \in O : x.uid = u) /\ (\A x, y \in O : x = y)
  BY <1>3 DEF Change
<1>5. PICK z : O \subseteq {z}
  BY <1>4
<1>6. Typed /\ OneMessage /\ Spare /\ Own(s) /\ pc'[s] = "idle"
  BY <1>3 DEF MaildirInv, Issue, Settled
<1>7. InMailbox' = InMailbox \ O
  BY <1>2 DEF InMailbox
<1>8. IsFiniteSet(files') /\ files' \subseteq FileSet
  <2>1. IsFiniteSet(files) /\ files \subseteq FileSet /\ files \ O \in SUBSET files
    BY <1>6 DEF Typed
  <2>2. IsFiniteSet(files \ O)
    BY <2>1, FS_Subset
  <2>3. QED
    BY <1>2, <2>1, <2>2
<1>9. ASSUME NEW x \in InMailbox, x.msg \notin removed
      PROVE  \A C, E : C = Names(x.uid)' /\ E = Pending(x.uid)' => Cardinality(C) > Cardinality(E)
  <2>1. SUFFICES ASSUME NEW C, NEW E, C = Names(x.uid)', E = Pending(x.uid)'
                 PROVE  Cardinality(C) > Cardinality(E)
    OBVIOUS
  <2>2. PICK v : v = x.uid
    OBVIOUS
  <2>3. PICK A, B : A = Names(v) /\ B = Pending(v)
    OBVIOUS
  <2>4. IsFiniteSet(A) /\ IsFiniteSet(B) /\ Cardinality(A) > Cardinality(B)
    BY <1>6, <1>9, <2>2, <2>3, PendingFinite DEF Spare
  <2>5. C = Names(v)' /\ E = Pending(v)'
    BY <2>1, <2>2
  <2>6. IsFiniteSet(C) /\ E \subseteq B
    BY <1>6, <1>8, <2>3, <2>5, NamesFinite, PendingShrinks
  <2>7. CASE v = u
    <3>1. A \ {z} \subseteq C
      BY <1>5, <1>7, <2>3, <2>5 DEF Names
    <3>2. s \in B /\ s \notin E
      BY <1>1, <1>2, <1>6, <2>3, <2>5, <2>7 DEF Pending
    <3>3. E \subseteq B \ {s}
      BY <2>6, <3>2
    <3>4. QED
      BY <2>4, <2>6, <3>1, <3>2, <3>3, SpareShrinks
  <2>8. CASE v # u
    <3>1. A \subseteq C
      BY <1>4, <1>7, <2>3, <2>5, <2>8 DEF Names
    <3>2. QED
      BY <2>4, <2>6, <3>1, StillSpare
  <2>9. QED
    BY <2>7, <2>8
<1>10. Spare'
  <2>1. ASSUME NEW x \in InMailbox', x.msg \notin removed
        PROVE  (Cardinality(Names(x.uid)) > Cardinality(Pending(x.uid)))'
    <3>1. x \in InMailbox
      BY <1>7
    <3>2. PICK C, E : C = Names(x.uid)' /\ E = Pending(x.uid)'
      OBVIOUS
    <3>3. Cardinality(C) > Cardinality(E)
      BY <1>9, <2>1, <3>1, <3>2
    <3>4. QED
      BY <3>2, <3>3
  <2>2. QED
    BY <1>2, <2>1 DEF Spare
<1>11. ASSUME NEW m, Kept(m)
       PROVE  Kept(m)'
  <2>1. SUFFICES ASSUME m \notin removed, m \notin unlinked
                 PROVE  \E y \in InMailbox' : y.msg = m
    BY <1>2 DEF Kept
  <2>2. PICK x \in InMailbox : x.msg = m
    BY <1>11, <2>1 DEF Kept
  <2>3. PICK C, E : C = Names(x.uid)' /\ E = Pending(x.uid)'
    OBVIOUS
  <2>4. Cardinality(C) > Cardinality(E)
    BY <1>9, <2>1, <2>2, <2>3
  <2>5. IsFiniteSet(C) /\ IsFiniteSet(E)
    <3>1. E \in SUBSET Sessions /\ IsFiniteSet(Sessions)
      BY <2>3, MaildirAssumption DEF Pending
    <3>2. IsFiniteSet(E)
      BY <3>1, FS_Subset
    <3>3. PICK v : v = x.uid
      OBVIOUS
    <3>4. IsFiniteSet(Names(v)') /\ C = Names(v)'
      BY <1>8, <2>3, <3>3, NamesFinite
    <3>5. QED
      BY <3>2, <3>4
  <2>6. C # {}
    <3>1. Cardinality(C) \in Nat /\ Cardinality(E) \in Nat
      BY <2>5, FS_CardinalityType
    <3>2. Cardinality(C) # 0
      BY <2>4, <3>1
    <3>3. QED
      BY <3>2, FS_EmptySet
  <2>7. PICK y \in C : TRUE
    BY <2>6
  <2>8. y \in InMailbox' /\ y.uid = x.uid
    BY <2>3, <2>7 DEF Names
  <2>9. y.msg = m
    BY <1>6, <1>7, <2>2, <2>8 DEF OneMessage, InMailbox
  <2>10. QED
    BY <2>8, <2>9
<1>12. mtime' \in [Mailboxes -> 0..MaxTime]
  BY <1>2, <1>6, TouchFacts
<1>13. /\ \A x \in files' : \E y \in files : y.uid = x.uid /\ y.msg = x.msg
       /\ \A x \in InMailbox' : Seen(x.uid)
       /\ \A x \in files : x.dir = "tmp" => x \in files'
  BY <1>2, <1>4, <1>7 DEF Seen, InMailbox, Mailboxes
<1>14. QED
  BY <1>2, <1>3, <1>8, <1>10, <1>11, <1>12, <1>13, SettleInv

LEMMA RenameNameInv ==
  ASSUME OwnPids, MaildirInv, NEW s \in Sessions, RenameName(s)
  PROVE  MaildirInv'
<1>1. SUFFICES ASSUME OldName(s) # {}
               PROVE  MaildirInv'
  BY NoRenameInv
<1>2. PICK u, O, N, L, D : /\ u = call[s].from.uid /\ O = OldName(s) /\ N = NewName(s) /\ L = NewLinks(s)
                           /\ D = {Dir(call[s].from), Dir(call[s].to)}
  OBVIOUS
<1>3. /\ pc[s] = "link" /\ ~hardlinks /\ O # {} /\ files' = (files \ (O \cup N)) \cup L /\ Touch(D)
      /\ Return(s) /\ md' = [md EXCEPT ![s] = Renamed(s)]
      /\ UNCHANGED <<now, hardlinks, unsent, crashes, changes, accepted, removed, unlinked>>
  BY <1>1, <1>2 DEF RenameName, bounds
<1>4. Change(u, O, N, L) /\ Settled(s)
  BY <1>2, <1>3, ChangeFacts, SettledFacts DEF Changing
<1>5. Typed /\ OneMessage /\ Own(s) /\ pc'[s] = "idle"
  BY <1>4 DEF MaildirInv, Issue, Settled
<1>6. /\ O \subseteq InMailbox /\ (\A x \in O : x.uid = u)
      /\ N \subseteq InMailbox /\ (\A x \in N : x.uid = u) /\ Seen(u)
      /\ \A x, y \in L : x = y
      /\ \A y \in O : \E x \in L : x.msg = y.msg
      /\ \A x \in L : x \in FileSet /\ x.dir \in Mailboxes /\ x.uid = u /\ \E y \in O : y.msg = x.msg
  BY <1>4 DEF Change
<1>7. PICK o \in O, z \in L : z.msg = o.msg
  BY <1>3, <1>6
<1>8. IsFiniteSet(files') /\ files' \subseteq FileSet
  <2>1. PICK S : S = files \ (O \cup N)
    OBVIOUS
  <2>2. IsFiniteSet(files) /\ files \subseteq FileSet /\ S \in SUBSET files
    BY <1>5, <2>1 DEF Typed
  <2>3. IsFiniteSet(S) /\ IsFiniteSet(L)
    BY <1>6, <2>2, FS_Subset, AtMostOne
  <2>4. IsFiniteSet(S \cup L)
    BY <2>3, FS_Union
  <2>5. QED
    BY <1>3, <1>6, <2>1, <2>2, <2>4
<1>9. \A v : Pending(v)' = {}
  <2>1. \A t \in Sessions : pc[t] # "unlink"
    BY <1>3 DEF MaildirInv, Issue, Renaming
  <2>2. \A t \in Sessions : pc'[t] # "unlink"
    BY <1>5, <2>1 DEF Own
  <2>3. QED
    BY <2>2 DEF Pending
<1>10. Spare'
  <2>1. ASSUME NEW x \in InMailbox'
        PROVE  (Cardinality(Names(x.uid)) > Cardinality(Pending(x.uid)))'
    <3>1. PICK v : v = x.uid
      OBVIOUS
    <3>2. PICK C, E : C = Names(v)' /\ E = Pending(v)'
      OBVIOUS
    <3>3. x \in C /\ IsFiniteSet(C) /\ E = {}
      BY <1>8, <1>9, <3>1, <3>2, NamesFinite DEF Names
    <3>4. Cardinality(C) > Cardinality(E)
      BY <3>3, NonEmptySpare
    <3>5. QED
      BY <3>1, <3>2, <3>4
  <2>2. QED
    BY <2>1 DEF Spare
<1>11. \A x \in InMailbox' : Seen(x.uid)
  BY <1>3, <1>6 DEF InMailbox, Seen
<1>12. z \in InMailbox'
  BY <1>3, <1>6, <1>7 DEF InMailbox
<1>13. ASSUME NEW m, Kept(m)
       PROVE  Kept(m)'
  <2>1. SUFFICES ASSUME NEW x \in InMailbox, x.msg = m
                 PROVE  \E y \in InMailbox' : y.msg = m
    BY <1>3, <1>13 DEF Kept
  <2>2. CASE x \in O \cup N
    <3>1. x.msg = o.msg
      BY <1>5, <1>6, <1>7, <2>1, <2>2 DEF OneMessage, InMailbox
    <3>2. QED
      BY <1>7, <1>12, <2>1, <3>1
  <2>3. CASE x \notin O \cup N
    BY <1>3, <2>1, <2>3 DEF InMailbox
  <2>4. QED
    BY <2>2, <2>3
<1>14. mtime' \in [Mailboxes -> 0..MaxTime]
  BY <1>3, <1>5, TouchFacts
<1>15. \A x \in files' : \E y \in files : y.uid = x.uid /\ y.msg = x.msg
  <2>1. ASSUME NEW x \in files'
        PROVE  \E y \in files : y.uid = x.uid /\ y.msg = x.msg
    <3>1. CASE x \in L
      BY <1>6, <3>1 DEF InMailbox
    <3>2. CASE x \in files
      BY <3>2
    <3>3. QED
      BY <1>3, <3>1, <3>2
  <2>2. QED
    BY <2>1
<1>16. \A x \in files : x.dir = "tmp" => x \in files'
  BY <1>3, <1>6 DEF InMailbox, Mailboxes
<1>17. QED
  BY <1>3, <1>4, <1>8, <1>10, <1>11, <1>13, <1>14, <1>15, <1>16, SettleInv

-----------------------------------------------------------------------------
\* The transfer agent and the clock.

LEMMA MtaDeliverInv ==
  ASSUME OwnPids, MaildirInv, NEW m \in Msgs, MtaDeliver(m)
  PROVE  MaildirInv'
<1>1. PICK u, D : u = Uid(now, "mta", Cardinality(accepted)) /\ D = {"new"}
  OBVIOUS
<1>2. PICK z : z = Link("new", u, "", m)
  OBVIOUS
<1>3. /\ m \in unsent /\ unsent' = unsent \ {m} /\ accepted' = accepted \cup {m}
      /\ UNCHANGED <<now, hardlinks, md, pc, call, crashes, changes, removed, unlinked>>
      /\ files' = files \cup {z} /\ Touch(D)
  BY <1>1, <1>2 DEF MtaDeliver
<1>4. Typed /\ Hashed /\ Custody /\ Issue /\ Spare /\ AllKept /\ now \in 0..MaxTime /\ OneMessage
  BY DEF MaildirInv, Typed, Issue
<1>5. PICK n \in Nat : n = Cardinality(accepted)
  BY <1>4, CounterFacts
<1>6. u \in UidSpace /\ u.pid = "mta" /\ u.n = n
  BY <1>1, <1>4, <1>5 DEF Uid, UidSpace
<1>7. m \notin accepted /\ IsFiniteSet(accepted') /\ Cardinality(accepted') = n + 1 /\ accepted' \subseteq Msgs
  <2>1. m \notin accepted
    BY <1>3, <1>4 DEF Custody
  <2>2. IsFiniteSet(accepted \cup {m}) /\ Cardinality(accepted \cup {m}) = n + 1
    BY <1>4, <1>5, <2>1, FS_AddElement DEF Typed
  <2>3. QED
    BY <1>3, <1>4, <2>1, <2>2 DEF Typed
<1>8. ~Issued(u)
  BY <1>5, <1>6 DEF Issued, OwnPids
<1>9. ~Seen(u) /\ \A x \in files : x.uid # u
  BY <1>4, <1>6, <1>8 DEF Issue
<1>10. z \in FileSet /\ z.dir = "new" /\ z.uid = u /\ z.msg = m
  <2>1. Is(z, "new", u, "", m)
    BY <1>2, <1>6, NameLinkFacts
  <2>2. QED
    BY <2>1 DEF Is
<1>11. InMailbox' = InMailbox \cup {z}
  BY <1>3, <1>10 DEF InMailbox, Mailboxes
<1>12. Typed'
  <2>1. IsFiniteSet(files) /\ files \subseteq FileSet
    BY <1>4 DEF Typed
  <2>2. IsFiniteSet(files \cup {z})
    BY <2>1, FS_AddElement
  <2>3. files' \subseteq FileSet /\ IsFiniteSet(files') /\ unsent' \subseteq Msgs
    BY <1>3, <1>4, <1>10, <2>1, <2>2 DEF Typed
  <2>4. mtime' \in [Mailboxes -> 0..MaxTime]
    BY <1>3, <1>4, TouchFacts
  <2>5. QED
    BY <1>3, <1>4, <1>7, <2>3, <2>4 DEF Typed
<1>13. Hashed'
  BY <1>3, <1>4 DEF Hashed, OneEntry
<1>14. Custody'
  <2>1. \A s \in Sessions : m \notin call[s].msg
    BY <1>3, <1>4 DEF Custody
  <2>2. QED
    BY <1>3, <1>4, <2>1 DEF Custody
<1>15. \A v \in UidSpace : v = u \/ Issued(v) => Issued(v)'
  <2>1. SUFFICES ASSUME NEW v \in UidSpace, v = u \/ Issued(v)
                 PROVE  Issued(v)'
    OBVIOUS
  <2>2. v.n \in Nat
    BY DEF UidSpace
  <2>3. CASE v.pid = "mta" /\ v.n <= n
    <3>1. v.n < Cardinality(accepted')
      BY <1>7, <2>2, <2>3
    <3>2. QED
      BY <2>3, <3>1 DEF Issued
  <2>4. CASE \E s \in Sessions : v.pid = Pid[s] /\ (pc[s] = "dead" \/ v.n < md[s].mdir_counter)
    BY <1>3, <2>4 DEF Issued
  <2>5. v.n < n => v.n <= n
    BY <2>2
  <2>6. QED
    BY <1>5, <1>6, <2>1, <2>3, <2>4, <2>5 DEF Issued
<1>16. \A v : Seen(v)' => Seen(v) \/ v = u
  BY <1>3, <1>10, <1>11 DEF Seen
<1>17. Issue'
  <2>1. ASSUME NEW x \in files'
        PROVE  Issued(x.uid)'
    <3>1. PICK v : v = x.uid
      OBVIOUS
    <3>2. v \in UidSpace /\ (v = u \/ Issued(v))
      BY <1>3, <1>4, <1>6, <1>10, <3>1 DEF Issue, Typed, FileSet
    <3>3. Issued(v)'
      BY <1>15, <3>2
    <3>4. QED
      BY <3>1, <3>3
  <2>2. \A v \in UidSpace : Seen(v)' => Issued(v)'
    BY <1>4, <1>15, <1>16 DEF Issue
  <2>3. OneMessage'
    BY <1>3, <1>4, <1>9, <1>10 DEF OneMessage
  <2>4. ASSUME NEW s \in Sessions
        PROVE  Drafting(s)' /\ Renaming(s)'
    <3>1. Drafting(s) /\ Renaming(s)
      BY <1>4 DEF Issue
    <3>2. ASSUME pc[s] = "deliver"
          PROVE  ~Seen(call[s].uid)'
      <4>1. PICK v : v = call[s].uid
        OBVIOUS
      <4>2. ~Seen(v) /\ v # u
        BY <1>6, <3>1, <3>2, <4>1 DEF Drafting, Adding, OwnPids
      <4>3. ~Seen(v)'
        BY <1>16, <4>2
      <4>4. QED
        BY <1>3, <4>1, <4>3 DEF Seen
    <3>3. Drafting(s)'
      <4>1. PICK v : v = call[s].uid /\ v = call'[s].uid
        BY <1>3
      <4>2. pc'[s] = "deliver" => ~Seen(v)'
        BY <1>3, <3>2, <4>1 DEF Seen
      <4>3. QED
        BY <1>3, <3>1, <4>1, <4>2 DEF Drafting
    <3>4. Renaming(s)'
      BY <1>3, <3>1 DEF Renaming
    <3>5. QED
      BY <3>3, <3>4
  <2>5. QED
    BY <2>1, <2>2, <2>3, <2>4 DEF Issue
<1>18. Spare'
  <2>1. ASSUME NEW x \in InMailbox', x.msg \notin removed
        PROVE  (Cardinality(Names(x.uid)) > Cardinality(Pending(x.uid)))'
    <3>1. PICK v : v = x.uid
      OBVIOUS
    <3>2. PICK A, B, C, E : A = Names(v) /\ B = Pending(v) /\ C = Names(v)' /\ E = Pending(v)'
      OBVIOUS
    <3>3. E = B /\ A \subseteq C /\ x \in C
      BY <1>3, <1>11, <3>1, <3>2 DEF Names, Pending
    <3>4. IsFiniteSet(B) /\ IsFiniteSet(C)
      BY <1>4, <1>12, <3>2, PendingFinite, NamesFinite DEF Typed
    <3>5. CASE v = u
      <4>1. E = {}
        BY <1>9, <3>2, <3>3, <3>5 DEF Pending, Seen, Changing
      <4>2. Cardinality(C) > Cardinality(E)
        BY <3>3, <3>4, <4>1, NonEmptySpare
      <4>3. QED
        BY <3>1, <3>2, <4>2
    <3>6. CASE v # u
      <4>1. x \in InMailbox
        BY <1>10, <1>11, <3>1, <3>6
      <4>2. Cardinality(A) > Cardinality(B)
        BY <1>4, <2>1, <3>1, <3>2, <4>1 DEF Spare
      <4>3. Cardinality(C) > Cardinality(E)
        BY <3>3, <3>4, <4>2, StillSpare
      <4>4. QED
        BY <3>1, <3>2, <4>3
    <3>7. QED
      BY <3>5, <3>6
  <2>2. QED
    BY <1>3, <2>1 DEF Spare
<1>19. AllKept'
  <2>1. \A k : Kept(k) => Kept(k)'
    BY <1>3, <1>11 DEF Kept
  <2>2. Kept(m)'
    BY <1>10, <1>11 DEF Kept
  <2>3. QED
    BY <1>3, <1>4, <2>1, <2>2 DEF AllKept
<1>20. QED
  BY <1>12, <1>13, <1>14, <1>17, <1>18, <1>19 DEF MaildirInv

LEMMA TickInv ==
  ASSUME MaildirInv, now' \in 0..MaxTime, UNCHANGED <<files, mtime, hardlinks, md, pc, call, unsent,
                                                     crashes, changes, accepted, removed, unlinked>>
  PROVE  MaildirInv'
<1>1. Typed' /\ Hashed' /\ Custody'
  BY DEF MaildirInv, Typed, Hashed, OneEntry, Custody
<1>2. InMailbox' = InMailbox
  BY DEF InMailbox
<1>3. \A u : (Seen(u)' <=> Seen(u)) /\ (Issued(u)' <=> Issued(u)) /\ (Kept(u)' <=> Kept(u))
  BY <1>2 DEF Seen, Issued, Kept
<1>4. \A u : Names(u)' = Names(u) /\ Pending(u)' = Pending(u)
  BY <1>2 DEF Names, Pending
<1>5. Issue'
  <2>1. \A s \in Sessions : Renaming(s)' <=> Renaming(s)
    BY DEF Renaming
  <2>2. ASSUME NEW s \in Sessions, Drafting(s)
        PROVE  Drafting(s)'
    <3>1. PICK v : v = call[s].uid /\ v = call'[s].uid
      OBVIOUS
    <3>2. pc'[s] = "deliver" => ~Seen(v)'
      BY <1>3, <2>2, <3>1 DEF Drafting
    <3>3. QED
      BY <2>2, <3>1, <3>2 DEF Drafting
  <2>3. OneMessage'
    BY DEF MaildirInv, Issue, OneMessage
  <2>4. QED
    BY <1>3, <2>1, <2>2, <2>3 DEF Issue, MaildirInv
<1>6. Spare'
  BY <1>2, <1>4 DEF MaildirInv, Spare
<1>7. AllKept'
  BY <1>3 DEF MaildirInv, AllKept
<1>8. QED
  BY <1>1, <1>5, <1>6, <1>7 DEF MaildirInv

-----------------------------------------------------------------------------
LEMMA InitLemma ==
  ASSUME Init
  PROVE  MaildirInv
<1>1. /\ files = {} /\ pc = [s \in Sessions |-> "idle"] /\ call = [s \in Sessions |-> NoCall]
      /\ md = [s \in Sessions |-> MaildirNew] /\ accepted = {} /\ removed = {} /\ unlinked = {}
      /\ unsent = Msgs
  BY DEF Init
<1>2. /\ NoCall \in CallSet /\ NoCall.msg = {} /\ MaildirNew \in MdSet /\ MaildirNew.mdir_msg_hash = {}
      /\ IsFiniteSet(NoCall.msg)
  BY NoCallFacts
<1>3. Typed
  <2>1. /\ MaxTime \in Nat /\ MaxCrashes \in Nat /\ MaxChanges \in Nat
    BY Bounds
  <2>2. now \in 0..MaxTime /\ crashes \in 0..MaxCrashes /\ changes \in 0..MaxChanges
    BY <2>1 DEF Init
  <2>3. mtime \in [Mailboxes -> 0..MaxTime]
    <3>1. 0 \in 0..MaxTime
      BY <2>1
    <3>2. QED
      BY <3>1 DEF Init
  <2>4. hardlinks \in BOOLEAN
    BY MaildirAssumption DEF Init
  <2>5. md \in [Sessions -> MdSet] /\ pc \in [Sessions -> Labels] /\ call \in [Sessions -> CallSet]
    BY <1>1, <1>2 DEF Labels
  <2>6. IsFiniteSet(files) /\ IsFiniteSet(accepted) /\ \A s \in Sessions : IsFiniteSet(call[s].msg)
    BY <1>1, <1>2, FS_EmptySet
  <2>7. QED
    BY <1>1, <2>2, <2>3, <2>4, <2>5, <2>6 DEF Typed
<1>4. Hashed /\ Custody
  BY <1>1, <1>2 DEF Hashed, OneEntry, Custody
<1>5. InMailbox = {}
  BY <1>1 DEF InMailbox
<1>6. \A u : ~Seen(u)
  BY <1>1, <1>2, <1>5 DEF Seen, Changing
<1>7. Issue
  BY <1>1, <1>6 DEF Issue, OneMessage, Drafting, Renaming, Adding, Changing
<1>8. Spare /\ AllKept
  BY <1>1, <1>5 DEF Spare, AllKept
<1>9. QED
  BY <1>3, <1>4, <1>7, <1>8 DEF MaildirInv

LEMMA NextLemma ==
  ASSUME OwnPids, MaildirInv, [Next]_vars
  PROVE  MaildirInv'
<1>1. ASSUME NEW s \in Sessions, SessionStep(s)
      PROVE  MaildirInv'
  <2>1. CASE UpdateCall(s)
    BY <2>1, UpdateCallInv
  <2>2. ASSUME NEW m \in Msgs, AddCall(s, m)
        PROVE  MaildirInv'
    BY <2>2, AddCallInv
  <2>3. CASE ReadNew(s)
    BY <2>3, ReadNewInv
  <2>4. CASE ReadCur(s)
    BY <2>4, ReadCurInv
  <2>5. CASE WriteFails(s)
    BY <2>5, WriteFailsInv
  <2>6. CASE NameDraft(s)
    BY <2>6, NoDraftInv, DraftInv
  <2>7. CASE Deliver(s)
    BY <2>7, DeliverInv
  <2>8. CASE DeliverByRename(s)
    BY <2>8, DeliverByRenameInv
  <2>9. CASE FinishAdd(s)
    BY <2>9, FinishAddInv
  <2>10. ASSUME NEW e \in md[s].mdir_msg_hash, Remove(s, e)
         PROVE  MaildirInv'
    BY <2>10, RemoveInv
  <2>11. ASSUME NEW e \in md[s].mdir_msg_hash, NEW f \in Flags, NEW new \in BOOLEAN, ChangeCall(s, e, f, new)
         PROVE  MaildirInv'
    BY <2>11, ChangeCallInv
  <2>12. CASE LinkName(s)
    BY <2>12, LinkNameInv
  <2>13. CASE UnlinkName(s)
    BY <2>13, UnlinkNameInv
  <2>14. CASE LinkNameFails(s)
    BY <2>14, LinkNameFailsInv
  <2>15. CASE RenameName(s)
    BY <2>15, RenameNameInv
  <2>16. CASE Crash(s)
    BY <2>16, CrashInv
  <2>17. QED
    BY <1>1, <2>1, <2>2, <2>3, <2>4, <2>5, <2>6, <2>7, <2>8, <2>9, <2>10, <2>11, <2>12, <2>13, <2>14,
       <2>15, <2>16 DEF SessionStep
<1>2. ASSUME NEW m \in Msgs, MtaDeliver(m)
      PROVE  MaildirInv'
  BY <1>2, MtaDeliverInv
<1>3. CASE Tick
  <2>1. now' \in 0..MaxTime
    BY <1>3, Bounds DEF Tick, MaildirInv, Typed
  <2>2. UNCHANGED <<files, mtime, hardlinks, md, pc, call, unsent, crashes, changes, accepted, removed, unlinked>>
    BY <1>3 DEF Tick, disk, bounds
  <2>3. QED
    BY <2>1, <2>2, TickInv
<1>4. CASE UNCHANGED vars
  <2>1. now' \in 0..MaxTime
    BY <1>4 DEF vars, MaildirInv, Typed
  <2>2. UNCHANGED <<files, mtime, hardlinks, md, pc, call, unsent, crashes, changes, accepted, removed, unlinked>>
    BY <1>4 DEF vars
  <2>3. QED
    BY <2>1, <2>2, TickInv
<1>5. QED
  BY <1>1, <1>2, <1>3, <1>4 DEF Next

LEMMA MaildirInvariant ==
  ASSUME OwnPids
  PROVE  Spec => []MaildirInv
<1>1. Init => MaildirInv
  BY InitLemma
<1>2. MaildirInv /\ [Next]_vars => MaildirInv'
  BY NextLemma
<1>3. QED
  BY <1>1, <1>2, PTL DEF Spec

-----------------------------------------------------------------------------
\* A message whose link() failed unnoticed keeps its file in tmp/: no session
\* is about to rename or to unlink it.

Stays(x) ==
  x.dir = "tmp" /\ \A s \in Sessions : pc[s] \in Adding /\ call[s].uid = x.uid =>
                     pc[s] = "finish" /\ ~call[s].linked

StuckInv ==
  /\ \A s \in Sessions : pc[s] # "finish" => ~call[s].linked
  /\ \A m \in unlinked : \E x \in files : x.msg = m /\ Stays(x)

\* A step of a session that adds nothing then and leaves tmp/ alone, or takes
\* out of it what it was about to.
LEMMA StuckSame ==
  ASSUME StuckInv, NEW s \in Sessions, Own(s), unlinked' = unlinked,
         \A x \in files : Stays(x) => x \in files',
         pc'[s] # "finish" => ~call'[s].linked,
         pc'[s] \in Adding => \A x \in files : Stays(x) => call'[s].uid # x.uid
  PROVE  StuckInv'
<1>1. \A t \in Sessions : pc'[t] # "finish" => ~call'[t].linked
  BY DEF StuckInv, Own
<1>2. ASSUME NEW m \in unlinked'
      PROVE  \E x \in files' : x.msg = m /\ Stays(x)'
  <2>1. PICK x \in files : x.msg = m /\ Stays(x)
    BY <1>2 DEF StuckInv
  <2>2. \A t \in Sessions : pc'[t] \in Adding /\ call'[t].uid = x.uid =>
                              pc'[t] = "finish" /\ ~call'[t].linked
    BY <2>1 DEF Stays, Own
  <2>3. QED
    BY <2>1, <2>2 DEF Stays
<1>3. QED
  BY <1>1, <1>2 DEF StuckInv

\* A step after which the session adds nothing.
LEMMA StuckIdle ==
  ASSUME MaildirInv, StuckInv, NEW s \in Sessions, Own(s), unlinked' = unlinked,
         \A x \in files : x.dir = "tmp" => x \in files',
         pc'[s] \notin Adding, ~call'[s].linked
  PROVE  StuckInv'
<1>1. \A x \in files : Stays(x) => x \in files'
  BY DEF Stays
<1>2. QED
  BY <1>1, StuckSame

LEMMA MovedOwn ==
  ASSUME MaildirInv, MaildirInv', NEW s \in Sessions, NEW m, NEW l, NEW c, Moved(s, m, l, c)
  PROVE  Own(s) /\ pc'[s] = l /\ call'[s] = c
BY DEF MaildirInv, Typed, Own, Moved

LEMMA StuckInit ==
  ASSUME Init
  PROVE  StuckInv
BY DEF Init, StuckInv, NoCall

\* The steps that touch only md, pc and call, or files of new/ and cur/.
LEMMA QuietStuck ==
  ASSUME MaildirInv, MaildirInv', StuckInv, NEW s \in Sessions, unlinked' = unlinked,
         NEW c, call' = [call EXCEPT ![s] = c], ~c.linked,
         NEW l, pc' = [pc EXCEPT ![s] = l], l \notin Adding,
         \E m : md' = [md EXCEPT ![s] = m],
         \A x \in files : x.dir = "tmp" => x \in files'
  PROVE  StuckInv'
<1>1. Own(s) /\ call'[s] = c /\ pc'[s] = l
  BY DEF MaildirInv, Typed, Own
<1>2. QED
  BY <1>1, StuckIdle

LEMMA ReturnStuck ==
  ASSUME MaildirInv, MaildirInv', StuckInv, NEW s \in Sessions, unlinked' = unlinked, Return(s),
         \E m : md' = [md EXCEPT ![s] = m],
         \A x \in files : x.dir = "tmp" => x \in files'
  PROVE  StuckInv'
<1>1. PICK c, l : c = NoCall /\ l = "idle"
  OBVIOUS
<1>2. ~c.linked /\ l \notin Adding /\ call' = [call EXCEPT ![s] = c] /\ pc' = [pc EXCEPT ![s] = l]
  BY <1>1 DEF NoCall, Adding, Return, Go
<1>3. QED
  BY <1>2, QuietStuck

\* md, pc and call stay or change at s alone.
LEMMA SameAt ==
  ASSUME MaildirInv, NEW s \in Sessions
  PROVE  /\ md = [md EXCEPT ![s] = md[s]] /\ call = [call EXCEPT ![s] = call[s]]
         /\ pc = [pc EXCEPT ![s] = pc[s]]
BY DEF MaildirInv, Typed

LEMMA UpdateStuck ==
  ASSUME MaildirInv, MaildirInv', StuckInv, NEW s \in Sessions, NEW c, ~c.linked, Update(s, c),
         UNCHANGED <<files, unlinked>>
  PROVE  StuckInv'
<1>1. CASE DirsChanged(s)
  <2>1. PICK l : l = "readnew"
    OBVIOUS
  <2>2. l \notin Adding /\ pc' = [pc EXCEPT ![s] = l] /\ call' = [call EXCEPT ![s] = c]
    BY <1>1, <2>1 DEF Update, Go, Adding
  <2>3. PICK m : m = [md[s] EXCEPT !.mdir_mtime = mtime, !.mdir_msg_list = {}, !.mdir_msg_hash = {}]
    OBVIOUS
  <2>4. md' = [md EXCEPT ![s] = m]
    BY <1>1, <2>3 DEF Update, MaildirInv, Typed, MdSet
  <2>5. QED
    BY <2>2, <2>4, QuietStuck
<1>2. CASE ~DirsChanged(s)
  <2>1. PICK l, d : l = AfterUpdate(c.op) /\ d = IF c.op = "add" THEN c ELSE NoCall
    OBVIOUS
  <2>2. ~d.linked /\ l \notin Adding
    BY <2>1 DEF NoCall, AfterUpdate, Adding
  <2>3. md' = md /\ pc' = [pc EXCEPT ![s] = l] /\ call' = [call EXCEPT ![s] = d]
    BY <1>2, <2>1 DEF Update, Go
  <2>4. md' = [md EXCEPT ![s] = md[s]]
    BY <2>3, SameAt
  <2>5. QED
    BY <2>2, <2>3, <2>4, QuietStuck
<1>3. QED
  BY <1>1, <1>2

LEMMA ReadStuck ==
  ASSUME MaildirInv, MaildirInv', StuckInv, NEW s \in Sessions, ReadNew(s) \/ ReadCur(s)
  PROVE  StuckInv'
<1>1. UNCHANGED <<files, unlinked>> /\ ~call[s].linked /\ pc[s] \in {"readnew", "readcur"}
  BY DEF ReadNew, ReadCur, disk, StuckInv
<1>2. \E m : md' = [md EXCEPT ![s] = m]
  <2>1. PICK D, h : md' = [md EXCEPT ![s].mdir_msg_list = @ \cup D, ![s].mdir_msg_hash = h]
    BY DEF ReadNew, ReadCur, ReadDirectory
  <2>2. PICK m : m = [md[s] EXCEPT !.mdir_msg_list = @ \cup D, !.mdir_msg_hash = h]
    OBVIOUS
  <2>3. md' = [md EXCEPT ![s] = m]
    BY <2>1, <2>2 DEF MaildirInv, Typed, MdSet
  <2>4. QED
    BY <2>3
<1>3. CASE ReadNew(s)
  <2>1. PICK c, l : c = call[s] /\ l = "readcur"
    OBVIOUS
  <2>2. ~c.linked /\ l \notin Adding /\ pc' = [pc EXCEPT ![s] = l] /\ call' = call
    BY <1>1, <1>3, <2>1 DEF ReadNew, Go, Adding
  <2>3. call' = [call EXCEPT ![s] = c]
    BY <2>1, <2>2, SameAt
  <2>4. QED
    BY <1>1, <1>2, <2>2, <2>3, QuietStuck
<1>4. CASE ReadCur(s)
  <2>1. PICK c, l : c = (IF call[s].op = "add" THEN call[s] ELSE NoCall) /\ l = AfterUpdate(call[s].op)
    OBVIOUS
  <2>2. ~c.linked /\ l \notin Adding
    BY <1>1, <2>1 DEF NoCall, AfterUpdate, Adding
  <2>3. pc' = [pc EXCEPT ![s] = l] /\ call' = [call EXCEPT ![s] = c]
    BY <1>4, <2>1 DEF ReadCur, Go
  <2>4. QED
    BY <1>1, <1>2, <2>2, <2>3, QuietStuck
<1>5. QED
  BY <1>3, <1>4

\* A new name is none that a file has.
LEMMA DraftStuck ==
  ASSUME OwnPids, MaildirInv, MaildirInv', StuckInv, NEW s \in Sessions, NameDraft(s)
  PROVE  StuckInv'
<1>1. pc[s] = "name" /\ unlinked' = unlinked
  BY DEF NameDraft
<1>2. CASE FreeTries(s) = {}
  <2>1. PICK m : m = [md[s] EXCEPT !.mdir_counter = @ + MAX_TRY_ALLOC]
    OBVIOUS
  <2>2. md' = [md EXCEPT ![s] = m]
    BY <1>2, <2>1 DEF NameDraft, MaildirInv, Typed, MdSet
  <2>3. Return(s) /\ files' = files
    BY <1>2 DEF NameDraft
  <2>4. QED
    BY <1>1, <2>2, <2>3, ReturnStuck
<1>3. CASE FreeTries(s) # {}
  <2>1. PICK k \in FreeTries(s) :
          /\ files' = (files \ At("tmp", NameOf(s, k), ""))
                        \cup {Link("tmp", NameOf(s, k), "", m) : m \in call[s].msg}
          /\ md' = [md EXCEPT ![s].mdir_counter = NextCounter(@ + k)]
          /\ call' = [call EXCEPT ![s].uid = NameOf(s, k)]
          /\ Go(s, "deliver")
    BY <1>3 DEF NameDraft
  <2>2. PICK u : u = NameOf(s, k)
    OBVIOUS
  <2>3. k \in Nat
    <3>1. PICK n \in Nat : n = MAX_TRY_ALLOC /\ n # 0
      BY MaildirAssumption
    <3>2. k \in 0..(n - 1)
      BY <3>1 DEF FreeTries
    <3>3. QED
      BY <3>1, <3>2
  <2>4. \A x \in files : x.uid # u
    BY <1>1, <2>2, <2>3, NameFacts
  <2>5. \A x \in files : x \in files'
    BY <2>1, <2>2, <2>4 DEF At
  <2>6. Own(s) /\ call'[s].uid = u /\ call'[s].linked = call[s].linked
    <3>1. PICK m, c : /\ m = [md[s] EXCEPT !.mdir_counter = NextCounter(@ + k)]
                      /\ c = [call[s] EXCEPT !.uid = u]
      OBVIOUS
    <3>2. Moved(s, m, "deliver", c)
      BY <2>1, <2>2, <3>1 DEF Moved, Go, MaildirInv, Typed
    <3>3. c.uid = u /\ c.linked = call[s].linked
      BY <3>1 DEF MaildirInv, Typed, CallSet
    <3>4. QED
      BY <3>2, <3>3, MovedOwn
  <2>7. QED
    BY <1>1, <2>4, <2>5, <2>6, StuckSame DEF StuckInv
<1>4. QED
  BY <1>2, <1>3

\* A link() that fails leaves the draft to stay.
LEMMA DeliverStuck ==
  ASSUME OwnPids, MaildirInv, MaildirInv', StuckInv, NEW s \in Sessions, Deliver(s)
  PROVE  StuckInv'
<1>1. PICK u : u = call[s].uid
  OBVIOUS
<1>2. /\ pc[s] = "deliver" /\ pc' = [pc EXCEPT ![s] = "finish"] /\ ~call[s].linked /\ md' = md
      /\ u \in UidSpace /\ u.pid = Pid[s] /\ call[s].msg \subseteq Msgs
      /\ \A m \in call[s].msg : Link("tmp", u, "", m) \in files
  BY <1>1, HashFacts DEF Deliver, Go, StuckInv, MaildirInv, Issue, Drafting, Adding
<1>3. Own(s) \/ ~(call' = call)
  BY <1>2 DEF MaildirInv, Typed, Own
<1>4. \A x \in files : Stays(x) => x.uid # u
  BY <1>1, <1>2 DEF Stays, Adding
<1>5. CASE unlinked' = unlinked \cup call[s].msg /\ UNCHANGED <<files, call>>
  <2>1. Own(s) /\ pc'[s] = "finish" /\ \A t \in Sessions : t # s => pc'[t] = pc[t]
    BY <1>2, <1>5 DEF MaildirInv, Typed, Own
  <2>2. \A t \in Sessions : pc'[t] # "finish" => ~call'[t].linked
    BY <1>5, <2>1 DEF StuckInv
  <2>3. ASSUME NEW m \in call[s].msg
        PROVE  \E x \in files' : x.msg = m /\ Stays(x)'
    <3>1. PICK x : x = Link("tmp", u, "", m)
      OBVIOUS
    <3>2. x \in files' /\ x.dir = "tmp" /\ x.uid = u /\ x.msg = m
      BY <1>2, <1>5, <2>3, <3>1 DEF Link
    <3>3. \A t \in Sessions : pc'[t] \in Adding /\ call'[t].uid = x.uid =>
                                pc'[t] = "finish" /\ ~call'[t].linked
      <4>1. ASSUME NEW t \in Sessions, pc'[t] \in Adding, call'[t].uid = u
            PROVE  t = s
        <5>1. SUFFICES ASSUME t # s PROVE FALSE
          OBVIOUS
        <5>2. pc[t] \in Adding /\ call[t].uid = u
          BY <1>5, <2>1, <4>1, <5>1
        <5>3. u.pid = Pid[t]
          BY <5>2 DEF MaildirInv, Issue, Drafting
        <5>4. QED
          BY <1>2, <5>1, <5>3 DEF OwnPids
      <4>2. QED
        BY <1>2, <1>5, <2>1, <3>2, <4>1
    <3>4. QED
      BY <3>2, <3>3 DEF Stays
  <2>4. ASSUME NEW m \in unlinked
        PROVE  \E x \in files' : x.msg = m /\ Stays(x)'
    <3>1. PICK x \in files : x.msg = m /\ Stays(x)
      BY <2>4 DEF StuckInv
    <3>2. x.dir = "tmp" /\ x.uid # u /\ x \in files'
      BY <1>4, <1>5, <3>1 DEF Stays
    <3>3. \A t \in Sessions : pc'[t] \in Adding /\ call'[t].uid = x.uid =>
                                pc'[t] = "finish" /\ ~call'[t].linked
      BY <1>1, <1>5, <2>1, <3>1, <3>2 DEF Stays
    <3>4. QED
      BY <3>1, <3>2, <3>3 DEF Stays
  <2>5. QED
    BY <1>5, <2>2, <2>3, <2>4 DEF StuckInv
<1>6. CASE /\ files' = files \cup Drafts(s) /\ call' = [call EXCEPT ![s].linked = TRUE]
           /\ unlinked' = unlinked
  <2>1. Own(s) /\ pc'[s] = "finish" /\ call'[s].uid = u
    <3>1. PICK m, c : m = md[s] /\ c = [call[s] EXCEPT !.linked = TRUE]
      OBVIOUS
    <3>2. Moved(s, m, "finish", c)
      BY <1>2, <1>6, <3>1 DEF Moved, MaildirInv, Typed
    <3>3. c.uid = u
      BY <1>1, <3>1 DEF MaildirInv, Typed, CallSet
    <3>4. QED
      BY <3>2, <3>3, MovedOwn
  <2>2. QED
    BY <1>4, <1>6, <2>1, StuckSame
<1>7. QED
  BY <1>5, <1>6 DEF Deliver, disk

\* rename() takes the session's own draft, and the last unlink() too.
LEMMA TakesDraft ==
  ASSUME MaildirInv, MaildirInv', StuckInv, NEW s \in Sessions, NEW u, u = call[s].uid,
         pc[s] = "deliver" \/ (pc[s] = "finish" /\ call[s].linked), Own(s),
         \A x \in files : x \in files' \/ x.dir # "tmp" \/ x.uid = u,
         pc'[s] \in Adding => call'[s].uid = u,
         pc'[s] # "finish" => ~call'[s].linked, unlinked' = unlinked
  PROVE  StuckInv'
<1>1. \A x \in files : Stays(x) => x.uid # u /\ x.dir = "tmp"
  BY DEF Stays, Adding
<1>2. \A x \in files : Stays(x) => x \in files'
  BY <1>1
<1>3. QED
  BY <1>1, <1>2, StuckSame

LEMMA RenameStuck ==
  ASSUME MaildirInv, MaildirInv', StuckInv, NEW s \in Sessions, DeliverByRename(s)
  PROVE  StuckInv'
<1>1. pc[s] = "deliver" /\ unlinked' = unlinked /\ md' = md /\ ~call[s].linked
  BY DEF DeliverByRename, StuckInv
<1>2. CASE Drafts(s) = {}
  <2>1. Return(s) /\ files' = files
    BY <1>2 DEF DeliverByRename, disk
  <2>2. QED
    BY <1>1, <2>1, SameAt, ReturnStuck
<1>3. CASE Drafts(s) # {}
  <2>1. PICK u : u = call[s].uid
    OBVIOUS
  <2>2. /\ files' = (files \ (At("new", u, "") \cup At("tmp", u, ""))) \cup Drafts(s)
        /\ pc' = [pc EXCEPT ![s] = "finish"] /\ call' = call
    BY <1>3, <2>1 DEF DeliverByRename, Go
  <2>3. Own(s) /\ call'[s].uid = u /\ pc'[s] = "finish"
    BY <1>1, <2>1, <2>2 DEF MaildirInv, Typed, Own
  <2>4. \A x \in files : x \in files' \/ x.dir # "tmp" \/ x.uid = u
    BY <2>2 DEF At
  <2>5. QED
    BY <1>1, <2>1, <2>3, <2>4, TakesDraft
<1>4. QED
  BY <1>2, <1>3

LEMMA FinishStuck ==
  ASSUME MaildirInv, MaildirInv', StuckInv, NEW s \in Sessions, FinishAdd(s)
  PROVE  StuckInv'
<1>1. PICK u, e : u = call[s].uid /\ e = Entry(u, "", TRUE)
  OBVIOUS
<1>2. /\ pc[s] = "finish" /\ unlinked' = unlinked /\ Return(s)
      /\ files' = IF call[s].linked THEN files \ At("tmp", u, "") ELSE files
      /\ \E h : md' = [md EXCEPT ![s].mdir_mtime["new"] = mtime["new"],
                                  ![s].mdir_msg_list = @ \cup {e}, ![s].mdir_msg_hash = h]
  BY <1>1 DEF FinishAdd, Entry
<1>3. PICK h : md' = [md EXCEPT ![s].mdir_mtime["new"] = mtime["new"],
                                ![s].mdir_msg_list = @ \cup {e}, ![s].mdir_msg_hash = h]
  BY <1>2
<1>4. PICK m : m = [md[s] EXCEPT !.mdir_mtime["new"] = mtime["new"],
                                 !.mdir_msg_list = @ \cup {e}, !.mdir_msg_hash = h]
  OBVIOUS
<1>5. md' = [md EXCEPT ![s] = m]
  BY <1>3, <1>4 DEF MaildirInv, Typed, MdSet
<1>6. CASE ~call[s].linked
  BY <1>2, <1>5, <1>6, ReturnStuck
<1>7. CASE call[s].linked
  <2>1. \A x \in files : x \in files' \/ x.dir # "tmp" \/ x.uid = u
    BY <1>2, <1>7 DEF At
  <2>2. Own(s) /\ pc'[s] = "idle" /\ call'[s] = NoCall
    <3>1. Moved(s, m, "idle", NoCall)
      BY <1>2, <1>5 DEF Moved, Return, Go
    <3>2. QED
      BY <3>1, MovedOwn
  <2>3. pc'[s] \notin Adding /\ ~call'[s].linked
    <3>1. ~NoCall.linked
      BY DEF NoCall
    <3>2. QED
      BY <2>2, <3>1 DEF Adding
  <2>4. QED
    BY <1>1, <1>2, <1>7, <2>1, <2>2, <2>3, TakesDraft
<1>8. QED
  BY <1>6, <1>7

\* Names in new/ and cur/ are none in tmp/.
LEMMA MailboxNames ==
  ASSUME MaildirInv, NEW s \in Sessions, pc[s] \in Changing
  PROVE  \A x \in OldName(s) \cup NewName(s) : x.dir # "tmp"
<1>1. call[s].from \in Entries /\ call[s].to \in Entries
  BY DEF MaildirInv, Issue, Renaming
<1>2. Dir(call[s].from) # "tmp" /\ Dir(call[s].to) # "tmp"
  BY DEF Dir
<1>3. QED
  BY <1>2 DEF OldName, NewName, At

LEMMA ChangeStuck ==
  ASSUME MaildirInv, MaildirInv', StuckInv, NEW s \in Sessions,
         LinkName(s) \/ UnlinkName(s) \/ LinkNameFails(s) \/ RenameName(s)
  PROVE  StuckInv'
<1>1. /\ pc[s] \in Changing /\ unlinked' = unlinked /\ ~call[s].linked
      /\ \A x \in files : x.dir = "tmp" => x \in files'
  <2>1. pc[s] \in Changing /\ unlinked' = unlinked /\ pc[s] # "finish"
    BY DEF LinkName, UnlinkName, LinkNameFails, RenameName, Changing
  <2>2. \A x \in OldName(s) \cup NewName(s) : x.dir # "tmp"
    BY <2>1, MailboxNames
  <2>3. \A x \in files : x.dir = "tmp" => x \in files'
    BY <2>2 DEF LinkName, UnlinkName, LinkNameFails, RenameName, disk
  <2>4. QED
    BY <2>1, <2>3 DEF StuckInv
<1>2. CASE LinkName(s)
  <2>1. PICK l : l = "unlink"
    OBVIOUS
  <2>2. l \notin Adding /\ pc' = [pc EXCEPT ![s] = l] /\ call' = call /\ md' = md
    BY <1>2, <2>1 DEF LinkName, Go, Adding
  <2>3. call' = [call EXCEPT ![s] = call[s]] /\ md' = [md EXCEPT ![s] = md[s]]
    BY <2>2, SameAt
  <2>4. QED
    BY <1>1, <2>2, <2>3, QuietStuck
<1>3. CASE UnlinkName(s) \/ LinkNameFails(s) \/ RenameName(s)
  <2>1. Return(s) /\ \E m : md' = [md EXCEPT ![s] = m]
    BY <1>3, SameAt DEF UnlinkName, LinkNameFails, RenameName
  <2>2. QED
    BY <1>1, <2>1, ReturnStuck
<1>4. QED
  BY <1>2, <1>3

LEMMA StuckStep ==
  ASSUME OwnPids, MaildirInv, MaildirInv', StuckInv, [Next]_vars
  PROVE  StuckInv'
<1>1. ASSUME NEW s \in Sessions, SessionStep(s)
      PROVE  StuckInv'
  <2>1. CASE UpdateCall(s)
    <3>1. PICK c : c = [NoCall EXCEPT !.op = "update"]
      OBVIOUS
    <3>2. ~c.linked /\ Update(s, c) /\ UNCHANGED <<files, unlinked>>
      BY <2>1, <3>1 DEF UpdateCall, NoCall, disk
    <3>3. QED
      BY <3>2, UpdateStuck
  <2>2. ASSUME NEW m \in Msgs, AddCall(s, m)
        PROVE  StuckInv'
    <3>1. PICK c : c = [NoCall EXCEPT !.op = "add", !.msg = {m}]
      OBVIOUS
    <3>2. ~c.linked /\ Update(s, c) /\ UNCHANGED <<files, unlinked>>
      BY <2>2, <3>1 DEF AddCall, NoCall, disk
    <3>3. QED
      BY <3>2, UpdateStuck
  <2>3. CASE ReadNew(s) \/ ReadCur(s)
    BY <2>3, ReadStuck
  <2>4. CASE WriteFails(s)
    <3>1. Return(s) /\ md' = md /\ UNCHANGED <<files, unlinked>>
      BY <2>4 DEF WriteFails, disk
    <3>2. QED
      BY <3>1, SameAt, ReturnStuck
  <2>5. CASE NameDraft(s)
    BY <2>5, DraftStuck
  <2>6. CASE Deliver(s)
    BY <2>6, DeliverStuck
  <2>7. CASE DeliverByRename(s)
    BY <2>7, RenameStuck
  <2>8. CASE FinishAdd(s)
    BY <2>8, FinishStuck
  <2>9. ASSUME NEW e \in md[s].mdir_msg_hash, Remove(s, e)
        PROVE  StuckInv'
    <3>1. pc' = pc /\ call' = call /\ md' = md /\ unlinked' = unlinked /\ pc[s] = "idle"
      BY <2>9 DEF Remove
    <3>2. \A x \in files : x.dir = "tmp" => x \in files'
      BY <2>9 DEF Remove, At, Dir
    <3>3. Own(s) /\ pc'[s] \notin Adding /\ ~call'[s].linked
      BY <3>1 DEF MaildirInv, Typed, Own, Adding, StuckInv
    <3>4. QED
      BY <3>1, <3>2, <3>3, StuckIdle
  <2>10. ASSUME NEW e \in md[s].mdir_msg_hash, NEW f \in Flags, NEW new \in BOOLEAN,
                ChangeCall(s, e, f, new)
         PROVE  StuckInv'
    <3>1. PICK c, l : /\ c = [call[s] EXCEPT !.op = "change", !.from = e, !.to = Entry(e.uid, f, new)]
                      /\ l = "link"
      OBVIOUS
    <3>2. /\ call' = [call EXCEPT ![s] = c] /\ pc' = [pc EXCEPT ![s] = l] /\ md' = md
          /\ UNCHANGED <<files, unlinked>> /\ pc[s] = "idle"
      BY <2>10, <3>1 DEF ChangeCall, Go, disk, MaildirInv, Typed, CallSet
    <3>3. ~c.linked /\ l \notin Adding
      BY <3>1, <3>2 DEF StuckInv, MaildirInv, Typed, CallSet, Adding
    <3>4. md' = [md EXCEPT ![s] = md[s]]
      BY <3>2, SameAt
    <3>5. QED
      BY <3>2, <3>3, <3>4, QuietStuck
  <2>11. CASE LinkName(s) \/ UnlinkName(s) \/ LinkNameFails(s) \/ RenameName(s)
    BY <2>11, ChangeStuck
  <2>12. CASE Crash(s)
    <3>1. PICK c, l : c = NoCall /\ l = "dead"
      OBVIOUS
    <3>2. /\ call' = [call EXCEPT ![s] = c] /\ pc' = [pc EXCEPT ![s] = l]
          /\ md' = [md EXCEPT ![s] = MaildirNew] /\ UNCHANGED <<files, unlinked>>
      BY <2>12, <3>1 DEF Crash, disk
    <3>3. ~c.linked /\ l \notin Adding
      BY <3>1 DEF NoCall, Adding
    <3>4. QED
      BY <3>2, <3>3, QuietStuck
  <2>13. QED
    BY <1>1, <2>1, <2>2, <2>3, <2>4, <2>5, <2>6, <2>7, <2>8, <2>9, <2>10, <2>11, <2>12 DEF SessionStep
<1>2. CASE (\E m \in Msgs : MtaDeliver(m)) \/ Tick \/ UNCHANGED vars
  <2>1. UNCHANGED <<pc, call, unlinked>> /\ files \subseteq files'
    BY <1>2 DEF MtaDeliver, Tick, vars, disk
  <2>2. \A x : Stays(x)' <=> Stays(x)
    BY <2>1 DEF Stays
  <2>3. QED
    BY <2>1, <2>2 DEF StuckInv
<1>3. QED
  BY <1>1, <1>2 DEF Next

\* No message is lost: through maildir_message_add_uid, maildir_message_remove
\* and maildir_message_change_flags of any number of processes at once, and
\* whichever of them dies in the middle, a message whose delivery was reported
\* has a name in new/ or cur/ until it is removed, or, if the link() to new/
\* failed with an error that is ignored, its file in tmp/.  Every process has a
\* number of its own.
THEOREM MessagesKept == ASSUME OwnPids PROVE Spec => []NoMessageLost
<1>1. MaildirInv /\ StuckInv => NoMessageLost
  BY DEF MaildirInv, AllKept, Kept, StuckInv, InMailbox, NoMessageLost
<1>2. MaildirInv /\ MaildirInv' /\ StuckInv /\ [Next]_vars => StuckInv'
  BY StuckStep
<1>3. Init => StuckInv
  BY StuckInit
<1>4. QED
  BY <1>1, <1>2, <1>3, MaildirInvariant, PTL DEF Spec

\* The uid that maildir_get_new_message_filename makes of time, process number
\* and counter names one message for ever; the hash mdir_msg_hash, which is
\* keyed by it, has one entry for it.  Every process has a number of its own.
THEOREM UidsUnique == ASSUME OwnPids PROVE Spec => []UidNamesOneMessage
<1>1. ASSUME MaildirInv
      PROVE  UidNamesOneMessage
  <2>1. TypeOK
    <3>1. ASSUME NEW s \in Sessions
          PROVE  /\ md[s].mdir_counter \in Nat
                 /\ md[s].mdir_mtime \in [Mailboxes -> 0..Never]
                 /\ md[s].mdir_msg_list \subseteq Entries
                 /\ md[s].mdir_msg_hash \subseteq Entries
                 /\ \A d, e \in md[s].mdir_msg_hash : d.uid = e.uid => d = e
                 /\ pc[s] \in Labels
                 /\ call[s].op \in {"none", "update", "add", "change"}
                 /\ call[s].msg \subseteq Msgs
                 /\ call[s].uid \in UidSpace \cup {NoUid}
                 /\ call[s].from \in MaybeEntries
                 /\ call[s].to \in MaybeEntries
                 /\ call[s].linked \in BOOLEAN
      <4>1. md[s] \in MdSet /\ pc[s] \in Labels /\ call[s] \in CallSet /\ OneEntry(md[s].mdir_msg_hash)
        BY <1>1 DEF MaildirInv, Typed, Hashed
      <4>2. QED
        BY <4>1 DEF MdSet, CallSet, OneEntry
    <3>2. QED
      BY <1>1, <3>1 DEF MaildirInv, Typed, TypeOK, FileSet
  <2>2. QED
    BY <1>1, <2>1 DEF MaildirInv, Issue, OneMessage, InMailbox, UidNamesOneMessage
<1>2. QED
  BY <1>1, MaildirInvariant, PTL

=============================================================================
