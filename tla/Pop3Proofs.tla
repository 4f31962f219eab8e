----------------------------- MODULE Pop3Proofs -----------------------------
(***************************************************************************)
(* The three properties of a POP3 session, for maildrops of any size and   *)
(* any number of commands, timeouts and connections.                       *)
(***************************************************************************)
EXTENDS Pop3, FiniteSetTheorems, TLAPS

Kinds == {"ok", "err", "cont", "item", "text", "word", "end"}
Lines == [of : Int, kind : Kinds, i : 0..N, v : 0..N]
Commands == [op : Ops \cup {"RESPONSE"}, msg : 0..N]
Calls == [op : Ops, msg : 0..N, at : {"none", "status", "list", "uidl", "lines"},
          tab : Seq(Entries), then : Commands]

LongOps == {"RETR", "TOP", "CAPA", "LIST", "UIDL"}
MessageOps == {"RETR", "TOP", "DELE"}

\* The types, those of the lines and commands under way included.
Typed ==
  /\ TypeOK /\ late \in BOOLEAN /\ call \in Calls
  /\ Len(call.tab) <= N /\ box \in Seq(Msgs) /\ Len(box) <= N
  /\ toServer \in Seq(Commands) /\ toClient \in Seq(Lines)

\* A call and the session it belongs to.
Structured ==
  /\ (call.at = "none" \/ call.op = "none") => call = Idle
  /\ call.at = "list" => call.op = "LIST"
  /\ call.at = "uidl" => call.op = "UIDL"
  /\ call.at = "lines" => call.op \in {"RETR", "TOP", "CAPA"}
  /\ call.then # None => call.op \in {"LIST", "UIDL"} /\ call.then.op \in MessageOps
  /\ ~stream => call = Idle /\ state = "DISCONNECTED" /\ server = "closed"
                /\ toServer = <<>> /\ toClient = <<>>
  /\ ~listed => tab = <<>>
  /\ state = "DISCONNECTED" => ~listed /\ call.op \notin MessageOps \cup {"LIST", "UIDL", "RSET", "NOOP"}
  /\ call.op = "CONNECT" => state = "DISCONNECTED"
  /\ call.op = "LIST" => ~listed
  /\ call.op \in MessageOps \cup {"UIDL"} => listed
  /\ call.op \in MessageOps => call.msg \in 1..Len(tab)
  /\ call.op \in MessageOps \cup {"LIST", "UIDL", "RSET", "NOOP"} => state = "TRANSACTION"
  /\ call.at = "status" /\ call.op = "LIST" => call.tab = <<>>

\* Every listing is asked for before the first deletion.
ListsFirst ==
  /\ ~listed => /\ server # "closed" => marks = {}
                /\ \A p \in 1..Len(toServer) : toServer[p].op # "DELE"
  /\ \A p \in 1..Len(toServer) : toServer[p].op \in {"LIST", "UIDL"} =>
       /\ server # "closed" => marks = {}
       /\ \A q \in 1..p : toServer[q].op # "DELE"

\* The entry before i comes right before i.
Chained(s) ==
  \A p \in 1..Len(s) : s[p].kind = "item" /\ s[p].i > 1 /\ p > 1 =>
    s[p - 1].kind = "item" /\ s[p - 1].i = s[p].i - 1

\* So a listing fills the table without a hole, wherever a call begins to read.
Dense ==
  /\ \A i \in 1..Len(tab) : tab[i].here
  /\ \A i \in 1..Len(call.tab) : call.tab[i].here
  /\ \A p \in 1..Len(toClient) : toClient[p].kind = "item" => toClient[p].i > 0
  /\ Chained(toClient)
  /\ call.at = "list" /\ toClient # <<>> /\ toClient[1].kind = "item" =>
       Len(call.tab) >= toClient[1].i - 1

TableInv == Typed /\ Structured /\ ListsFirst /\ Dense

-----------------------------------------------------------------------------
\* The lines that follow an accepting status.
Body(s) ==
  /\ s # <<>> /\ s[Len(s)].kind = "end"
  /\ \A p \in 1..(Len(s) - 1) : s[p].kind # "end"

\* A whole answer to op.
Whole(s, op) ==
  /\ s # <<>> /\ s[1].kind \in {"ok", "err", "cont"}
  /\ s[1].kind = "cont" => op = "AUTH"
  /\ IF s[1].kind = "ok" /\ op \in LongOps THEN Len(s) > 1 /\ Body(Tail(s)) ELSE Len(s) = 1

\* The command under way is that of the call.
Asked ==
  /\ toClient = <<>> /\ Len(toServer) = 1
  /\ \/ toServer[1].op = call.op /\ toServer[1].msg = call.msg
     \/ toServer[1].op = "RESPONSE" /\ call.op = "AUTH"

Quiet == toServer = <<>> /\ toClient = <<>>

\* The call has its command under way, or what it has not yet read of the answer.
Phase ==
  ~late =>
    /\ call = Idle => Quiet
    /\ call.at = "status" => \/ Asked
                             \/ toServer = <<>> /\ Whole(toClient, call.op)
                             \/ Quiet /\ server = "closed"
    /\ call.at \in {"list", "uidl", "lines"} => toServer = <<>> /\ Body(toClient)
    /\ \A p \in 1..Len(toClient) : toClient[p].of = sent

PhaseInv == TableInv /\ Phase

-----------------------------------------------------------------------------
\* The call is about to read that its command was accepted.
Accepted(op) == call.op = op /\ call.at = "status" /\ toClient # <<>> /\ toClient[1].kind = "ok"

LoggingIn == \E op \in {"PASS", "APOP", "AUTH"} : Accepted(op)

LoginAgrees ==
  /\ IF LoggingIn THEN server = "trans" ELSE (state = "TRANSACTION") = (server = "trans")
  /\ server = "sasl" => /\ call.op = "AUTH"
                        /\ toServer # <<>> => toServer[1].op = "RESPONSE"
                        /\ toClient # <<>> => toClient[1].kind = "cont"
  /\ call.op = "AUTH" /\ toClient # <<>> /\ toClient[1].kind = "cont" => server = "sasl"
  /\ server # "trans" => marks = {}

Marked == {i \in 1..Len(tab) : tab[i].deleted}

MarksAgree ==
  IF Accepted("DELE") THEN call.msg \in (1..Len(tab)) \ Marked /\ marks = Marked \cup {call.msg}
  ELSE IF call.op = "RSET" /\ toClient # <<>> THEN marks = {}
  ELSE marks = Marked

TableAgrees ==
  listed => /\ Len(tab) = Len(box)
            /\ deleted_count = Cardinality(Marked)
            /\ \A i \in 1..Len(tab) : tab[i].uid \in {0, box[i]}
            /\ MarksAgree

\* The same when no answer is to be read.
Settled ==
  listed => /\ Len(tab) = Len(box)
            /\ deleted_count = Cardinality(Marked)
            /\ \A i \in 1..Len(tab) : tab[i].uid \in {0, box[i]}
            /\ marks = Marked

\* A listing under way is the maildrop's.
ListingAgrees ==
  /\ Accepted("LIST") =>
       /\ Len(toClient) = Len(box) + 2
       /\ \A p \in 2..(Len(box) + 1) : toClient[p].kind = "item" /\ toClient[p].i = p - 1
  /\ call.at = "list" =>
       /\ \A i \in 1..Len(call.tab) : call.tab[i] = NewEntry
       /\ Len(call.tab) + Len(toClient) = Len(box) + 1
       /\ \A p \in 1..(Len(toClient) - 1) :
            toClient[p].kind = "item" /\ toClient[p].i = Len(call.tab) + p
  /\ call.op = "UIDL" =>
       \A p \in 1..Len(toClient) : toClient[p].kind = "item" =>
         toClient[p].i \in 1..Len(box) /\ toClient[p].v = box[toClient[p].i]

Agreement == ~late /\ server # "closed" => LoginAgrees /\ TableAgrees /\ ListingAgrees

SessionInv == PhaseInv /\ Agreement

-----------------------------------------------------------------------------
LEMMA TailFacts ==
  ASSUME NEW S, NEW s \in Seq(S), s # <<>>
  PROVE  /\ Tail(s) \in Seq(S) /\ Len(Tail(s)) = Len(s) - 1 /\ Len(s) \in Nat \ {0}
         /\ Head(s) = s[1] /\ s[1] \in S
         /\ \A p \in 1..(Len(s) - 1) : Tail(s)[p] = s[p + 1]
  OBVIOUS

LEMMA AppendFacts ==
  ASSUME NEW S, NEW s \in Seq(S), NEW e \in S
  PROVE  /\ Append(s, e) \in Seq(S) /\ Len(Append(s, e)) = Len(s) + 1 /\ Len(s) \in Nat
         /\ \A p \in 1..Len(s) : Append(s, e)[p] = s[p]
         /\ Append(s, e)[Len(s) + 1] = e
  OBVIOUS

LEMMA ConcatFacts ==
  ASSUME NEW S, NEW s \in Seq(S), NEW t \in Seq(S)
  PROVE  /\ s \o t \in Seq(S) /\ Len(s \o t) = Len(s) + Len(t)
         /\ Len(s) \in Nat /\ Len(t) \in Nat
         /\ \A p \in 1..Len(s) : (s \o t)[p] = s[p]
         /\ \A p \in 1..Len(t) : (s \o t)[Len(s) + p] = t[p]
         /\ \A p \in (Len(s) + 1)..(Len(s) + Len(t)) : (s \o t)[p] = t[p - Len(s)]
  OBVIOUS

LEMMA HeadFacts ==
  ASSUME NEW s \in Seq(Lines), s # <<>>
  PROVE  /\ s[1] \in Lines /\ s[1].of \in Int /\ s[1].kind \in Kinds
         /\ s[1].i \in 0..N /\ s[1].v \in 0..N /\ Len(s) \in Nat \ {0}
<1>1. s[1] \in Lines /\ Len(s) \in Nat \ {0}
  OBVIOUS
<1>2. QED
  BY <1>1 DEF Lines

\* A table whose entries exist, of which the entry i is set, has no hole if i is
\* at most the next one.
LEMMA SetEntryFacts ==
  ASSUME NEW t \in Seq(Entries), NEW i \in Nat \ {0}, NEW e \in Entries
  PROVE  /\ SetEntry(t, i, e) \in Seq(Entries)
         /\ Len(SetEntry(t, i, e)) = IF Len(t) < i THEN i ELSE Len(t)
         /\ SetEntry(t, i, e)[i] = e
         /\ \A k \in 1..Len(t) : k # i => SetEntry(t, i, e)[k] = t[k]
<1> DEFINE n == IF Len(t) < i THEN i ELSE Len(t)
<1>1. n \in Nat /\ Hole \in Entries
  BY Pop3Assumption DEF Hole, Entries, Pop3Assumption
<1>2. \A k \in 1..n : (IF k = i THEN e ELSE IF k <= Len(t) THEN t[k] ELSE Hole) \in Entries
  BY <1>1
<1>3. QED
  BY <1>1, <1>2 DEF SetEntry

\* What the client does to the entries of its table.
LEMMA ReplaceFacts ==
  ASSUME NEW t \in Seq(Entries), NEW m \in 1..Len(t), NEW e \in Entries
  PROVE  /\ [t EXCEPT ![m] = e] \in Seq(Entries) /\ Len([t EXCEPT ![m] = e]) = Len(t)
         /\ \A k \in 1..Len(t) : [t EXCEPT ![m] = e][k] = IF k = m THEN e ELSE t[k]
  OBVIOUS

LEMMA UidFacts ==
  ASSUME NEW t \in Seq(Entries), NEW m \in 1..Len(t), NEW v \in 0..N, NEW u, u = [t EXCEPT ![m].uid = v]
  PROVE  /\ u \in Seq(Entries) /\ Len(u) = Len(t)
         /\ \A k \in 1..Len(t) : /\ u[k].here = t[k].here /\ u[k].deleted = t[k].deleted
                                 /\ u[k].uid = IF k = m THEN v ELSE t[k].uid
<1> DEFINE e == [t[m] EXCEPT !.uid = v]
<1>1. e \in Entries /\ e.here = t[m].here /\ e.deleted = t[m].deleted /\ e.uid = v
  <2>1. t[m] \in Entries
    OBVIOUS
  <2>2. QED
    BY <2>1 DEF Entries
<1>2. u = [t EXCEPT ![m] = e]
  OBVIOUS
<1> HIDE DEF e
<1>3. u \in Seq(Entries) /\ Len(u) = Len(t) /\ \A k \in 1..Len(t) : u[k] = IF k = m THEN e ELSE t[k]
  <2>1. /\ [t EXCEPT ![m] = e] \in Seq(Entries) /\ Len([t EXCEPT ![m] = e]) = Len(t)
        /\ \A k \in 1..Len(t) : [t EXCEPT ![m] = e][k] = IF k = m THEN e ELSE t[k]
    BY <1>1, ReplaceFacts
  <2>2. QED
    BY <1>2, <2>1, Zenon
<1>4. QED
  BY <1>1, <1>3

LEMMA ResetFacts ==
  ASSUME NEW t \in Seq(Entries)
  PROVE  LET u == [i \in DOMAIN t |-> [t[i] EXCEPT !.deleted = FALSE]]
         IN  /\ u \in Seq(Entries) /\ Len(u) = Len(t)
             /\ \A k \in 1..Len(t) : u[k].here = t[k].here /\ u[k].uid = t[k].uid /\ u[k].deleted = FALSE
<1> DEFINE e(k) == [t[k] EXCEPT !.deleted = FALSE]
           n == Len(t)
           u == [i \in 1..n |-> e(i)]
<1>1. ASSUME NEW k \in 1..Len(t)
      PROVE  e(k) \in Entries /\ e(k).here = t[k].here /\ e(k).uid = t[k].uid /\ e(k).deleted = FALSE
  <2>1. t[k] \in Entries
    OBVIOUS
  <2>2. QED
    BY <2>1 DEF Entries
<1>2. n \in Nat /\ [i \in DOMAIN t |-> e(i)] = u /\ \A k \in 1..n : e(k) \in Entries
  BY <1>1
<1> HIDE DEF e, n
<1>3. u \in Seq(Entries) /\ Len(u) = n /\ \A k \in 1..n : u[k] = e(k)
  BY <1>2
<1> HIDE DEF u
<1>4. \A k \in 1..n : u[k].here = t[k].here /\ u[k].uid = t[k].uid /\ u[k].deleted = FALSE
  BY <1>1, <1>3 DEF n
<1>5. QED
  BY <1>2, <1>3, <1>4, Zenon DEF n, e

-----------------------------------------------------------------------------
\* The server's answers.

LEMMA InitialListing ==
  ASSUME Typed, marks = {}, NEW of \in Int, NEW u \in BOOLEAN
  PROVE  /\ Listing(of, u) \in Seq(Lines) /\ Len(Listing(of, u)) = Len(box) + 1
         /\ \A p \in 1..Len(box) : Listing(of, u)[p] = Line(of, "item", p, IF u THEN box[p] ELSE 0)
         /\ Listing(of, u)[Len(box) + 1] = Line(of, "end", 0, 0)
<1> DEFINE n == Len(box)
           live == (1..n) \ marks
           Entry(i) == Line(of, "item", i, IF u THEN box[i] ELSE 0)
           items == [k \in 1..Cardinality(live) |-> Entry(Nth(live, k))]
           end == << Line(of, "end", 0, 0) >>
<1>1. n \in 0..N /\ N \in Nat /\ live = 1..n
  BY Pop3Assumption DEF Typed, Pop3Assumption
<1>2. \A i \in 0..n : Cardinality(1..i) = i
  <2> SUFFICES ASSUME NEW i \in 0..n PROVE Cardinality(1..i) = i
    OBVIOUS
  <2>1. i \in Int /\ 1 \in Int /\ i \in Nat
    BY <1>1
  <2>2. Cardinality(1..i) = IF 1 > i THEN 0 ELSE i - 1 + 1
    BY <2>1, FS_Interval
  <2>3. QED
    BY <2>1, <2>2
<1>3. ASSUME NEW k \in 1..n PROVE Nth(live, k) = k
  <2>1. ASSUME NEW i \in 1..n PROVE Cardinality({j \in live : j <= i}) = i
    <3>1. {j \in live : j <= i} = 1..i
      BY <1>1
    <3>2. i \in 0..n
      BY <1>1
    <3> HIDE DEF live, n
    <3>3. QED
      BY <1>2, <3>1, <3>2
  <2> HIDE DEF n
  <2>2. QED
    BY <1>1, <2>1 DEF Nth
<1>4. items = [k \in 1..n |-> Entry(k)]
  <2>1. Cardinality(live) = n
    BY <1>1, <1>2
  <2>2. QED
    BY <1>3, <2>1
<1>5. \A k \in 1..n : Entry(k) \in Lines
  BY <1>1 DEF Typed, Msgs, Line, Lines, Kinds
<1> HIDE DEF Entry, n
<1>6. items \in Seq(Lines) /\ Len(items) = n /\ \A k \in 1..n : items[k] = Entry(k)
  <2> DEFINE f == [k \in 1..n |-> Entry(k)]
  <2>1. f \in Seq(Lines) /\ Len(f) = n /\ \A k \in 1..n : f[k] = Entry(k)
    BY <1>1, <1>5
  <2>2. items = f
    BY <1>4
  <2> HIDE DEF f, items
  <2>3. QED
    BY <2>1, <2>2
<1>7. end \in Seq(Lines) /\ Len(end) = 1 /\ end[1] = Line(of, "end", 0, 0)
  BY <1>1 DEF Line, Lines, Kinds
<1>8. Listing(of, u) = items \o end
  BY DEF Listing, Entry, n
<1> HIDE DEF items, end
<1>9. /\ items \o end \in Seq(Lines) /\ Len(items \o end) = n + 1
      /\ \A p \in 1..n : (items \o end)[p] = Entry(p)
      /\ (items \o end)[n + 1] = Line(of, "end", 0, 0)
  <2> DEFINE w == items \o end
  <2>1. /\ w \in Seq(Lines) /\ Len(w) = Len(items) + Len(end)
        /\ \A p \in 1..Len(items) : w[p] = items[p]
        /\ \A p \in (Len(items) + 1)..(Len(items) + Len(end)) : w[p] = end[p - Len(items)]
    BY <1>6, <1>7, ConcatFacts, SMTT(60)
  <2> HIDE DEF w
  <2>2. w \in Seq(Lines) /\ Len(w) = n + 1 /\ (\A p \in 1..n : w[p] = Entry(p)) /\ w[n + 1] = end[1]
    BY <1>1, <1>6, <1>7, <2>1
  <2>3. QED
    BY <1>7, <2>2 DEF w
<1>10. QED
  BY <1>8, <1>9 DEF Entry, n

\* What the server may answer, and where that leaves it.
OutcomeCase(c, of, o) ==
  \/ server = "sasl" /\ o = Outcome(Err(of), "auth", {})
  \/ server = "sasl" /\ c.op = "RESPONSE" /\ o = Outcome(Ok(of), "trans", {})
  \/ /\ (server = "sasl" /\ c.op = "RESPONSE") \/ (server = "auth" /\ c.op = "AUTH")
     /\ o = Outcome(<< Line(of, "cont", 0, 0) >>, "sasl", {})
  \/ /\ server # "sasl" /\ c.op # "QUIT" /\ ~ (server = "trans" /\ c.op = "RSET")
     /\ o = Outcome(Err(of), server, marks)
  \/ /\ server # "sasl" /\ c.op = "QUIT"
     /\ o \in {Outcome(Ok(of), "closed", marks), Outcome(Err(of), "closed", marks)}
  \/ server = "auth" /\ c.op \in {"PASS", "APOP"} /\ o = Outcome(Ok(of), "trans", {})
  \/ server = "auth" /\ c.op \in {"USER", "STLS"} /\ o = Outcome(Ok(of), server, {})
  \/ server = "trans" /\ c.op \in {"NOOP", "STAT"} /\ o = Outcome(Ok(of), server, marks)
  \/ server = "trans" /\ c.op = "RSET" /\ o = Outcome(Ok(of), server, {})
  \/ /\ server = "trans" /\ c.op = "DELE" /\ c.msg \in (1..Len(box)) \ marks
     /\ o = Outcome(Ok(of), server, marks \cup {c.msg})
  \/ /\ server # "sasl" /\ c.op \in {"CAPA", "RETR", "TOP"}
     /\ \E kind \in {"word", "text"} :
          o = Outcome(<< Line(of, "ok", 0, 0), Line(of, kind, 0, 0), Line(of, "end", 0, 0) >>,
                      server, marks)
  \/ /\ server = "trans" /\ c.op \in {"LIST", "UIDL"}
     /\ o = Outcome(Ok(of) \o Listing(of, c.op = "UIDL"), server, marks)

LEMMA OutcomeCases ==
  ASSUME Typed, server # "closed", NEW c \in Commands, NEW of \in Int, NEW o \in Outcomes(c, of)
  PROVE  OutcomeCase(c, of, o)
<1> USE DEF OutcomeCase
<1>1. CASE server = "sasl"
  <2>1. o \in {Outcome(Err(of), "auth", {})}
             \cup (IF c.op = "RESPONSE" THEN {Outcome(Ok(of), "trans", {})} ELSE {})
             \cup (IF c.op = "RESPONSE" /\ sent < MaxCommands
                   THEN {Outcome(<< Line(of, "cont", 0, 0) >>, "sasl", {})} ELSE {})
    BY <1>1, Zenon DEF Outcomes
  <2>2. QED
    BY <1>1, <2>1
<1>2. CASE server # "sasl" /\ c.op \in {"PASS", "APOP"}
  BY <1>2 DEF Outcomes
<1>3. CASE server # "sasl" /\ c.op = "AUTH"
  BY <1>3 DEF Outcomes
<1>4. CASE server # "sasl" /\ c.op \in {"USER", "STLS"}
  BY <1>4 DEF Outcomes
<1>5. CASE server # "sasl" /\ c.op \in {"CAPA", "QUIT"}
  BY <1>5 DEF Outcomes
<1>6. CASE server # "sasl" /\ c.op \in {"LIST", "UIDL"}
  BY <1>6 DEF Outcomes
<1>7. CASE server # "sasl" /\ c.op \in {"RETR", "TOP"}
  BY <1>7 DEF Outcomes
<1>8. CASE server # "sasl" /\ c.op \in {"DELE", "RSET", "NOOP", "STAT"}
  BY <1>8 DEF Outcomes
<1>9. CASE server # "sasl" /\ c.op \in {"none", "CONNECT", "RESPONSE"}
  BY <1>9 DEF Outcomes
<1>10. c.op \in Ops \cup {"RESPONSE"}
  BY DEF Commands
<1>11. QED
  BY <1>1, <1>2, <1>3, <1>4, <1>5, <1>6, <1>7, <1>8, <1>9, <1>10 DEF Ops

\* Every answer is a whole one, of lines that say whose they are, in which the
\* entries of a listing are in order.
Answer(s, of, op) ==
  /\ s \in Seq(Lines) /\ \A p \in 1..Len(s) : s[p].of = of
  /\ Whole(s, IF op = "RESPONSE" THEN "AUTH" ELSE op)
  /\ \A p \in 1..Len(s) : s[p].kind = "item" => s[p].i > 0
  /\ Chained(s)

LEMMA AnswerFacts ==
  ASSUME Typed, server # "closed", NEW c \in Commands, NEW of \in Int, NEW o \in Outcomes(c, of),
         c.op \in {"LIST", "UIDL"} => marks = {}
  PROVE  Answer(o.answer, of, c.op)
<1> USE Pop3Assumption DEF Pop3Assumption
<1>1. ASSUME NEW kind \in {"ok", "err", "cont"}, kind = "cont" => c.op \in {"AUTH", "RESPONSE"},
             kind = "ok" => c.op \notin LongOps, o.answer = << Line(of, kind, 0, 0) >>
      PROVE  Answer(o.answer, of, c.op)
  BY <1>1 DEF Answer, Line, Lines, Kinds, Whole, Chained, LongOps
<1>2. ASSUME NEW kind \in {"word", "text"}, c.op \in LongOps,
             o.answer = << Line(of, "ok", 0, 0), Line(of, kind, 0, 0), Line(of, "end", 0, 0) >>
      PROVE  Answer(o.answer, of, c.op)
  <2> DEFINE s == << Line(of, "ok", 0, 0), Line(of, kind, 0, 0), Line(of, "end", 0, 0) >>
             u == Tail(s)
             n == 3
  <2>1. /\ s \in Seq(Lines) /\ Len(s) = n /\ \A p \in 1..n : s[p].of = of /\ s[p].kind # "item"
        /\ s[1].kind = "ok" /\ \A p \in 2..(n - 1) : s[p].kind # "end"
        /\ s[n].kind = "end" /\ n \in Nat /\ n > 1
    BY DEF Line, Lines, Kinds
  <2> HIDE DEF s, n
  <2>2. u \in Seq(Lines) /\ Len(u) = n - 1 /\ \A p \in 1..(n - 1) : u[p] = s[p + 1]
    BY <2>1, s # <<>>, TailFacts
  <2> HIDE DEF u
  <2>3. Body(u)
    BY <2>1, <2>2 DEF Body
  <2>4. Whole(s, IF c.op = "RESPONSE" THEN "AUTH" ELSE c.op)
    BY <2>1, <2>3, <1>2 DEF Whole, LongOps, u
  <2>5. Chained(s)
    BY <2>1 DEF Chained
  <2>6. Answer(s, of, c.op)
    BY <2>1, <2>4, <2>5 DEF Answer
  <2>7. QED
    BY <1>2, <2>6 DEF s
<1>3. ASSUME c.op \in {"LIST", "UIDL"}, o.answer = Ok(of) \o Listing(of, c.op = "UIDL")
      PROVE  Answer(o.answer, of, c.op)
  <2> DEFINE t == Listing(of, c.op = "UIDL")
             s == Ok(of) \o t
             u == Tail(s)
             n == Len(box)
  <2>1. /\ t \in Seq(Lines) /\ Len(t) = n + 1 /\ n \in 0..N
        /\ \A p \in 1..n : t[p].kind = "item" /\ t[p].i = p /\ t[p].of = of
        /\ t[n + 1].kind = "end" /\ t[n + 1].of = of
    <3>1. (c.op = "UIDL") \in BOOLEAN /\ marks = {}
      BY <1>3
    <3>2. /\ t \in Seq(Lines) /\ Len(t) = n + 1
          /\ \A p \in 1..n : t[p] = Line(of, "item", p, IF c.op = "UIDL" THEN box[p] ELSE 0)
          /\ t[n + 1] = Line(of, "end", 0, 0)
      BY <3>1, InitialListing
    <3>3. n \in 0..N
      BY DEF Typed
    <3> HIDE DEF t, n
    <3>4. \A p \in 1..n : t[p].kind = "item" /\ t[p].i = p /\ t[p].of = of
      <4> TAKE p \in 1..n
      <4> DEFINE v == IF c.op = "UIDL" THEN box[p] ELSE 0
      <4>1. t[p] = [of |-> of, kind |-> "item", i |-> p, v |-> v]
        BY <3>2 DEF Line
      <4> HIDE DEF v
      <4>2. QED
        BY <4>1
    <3>5. QED
      BY <3>2, <3>3, <3>4 DEF Line
  <2>2. Ok(of) \in Seq(Lines) /\ Len(Ok(of)) = 1 /\ Ok(of)[1].kind = "ok" /\ Ok(of)[1].of = of
    BY DEF Ok, Line, Lines, Kinds
  <2> HIDE DEF t, n
  <2>3. /\ s \in Seq(Lines) /\ Len(s) = n + 2 /\ s[1].kind = "ok" /\ s[1].of = of
        /\ \A p \in 2..(n + 2) : s[p] = t[p - 1]
    <3> DEFINE a == Ok(of)
    <3>1. a \in Seq(Lines) /\ Len(a) = 1 /\ a[1].kind = "ok" /\ a[1].of = of
      BY <2>2
    <3> HIDE DEF a
    <3>2. /\ a \o t \in Seq(Lines) /\ Len(a \o t) = n + 2
          /\ \A p \in 1..1 : (a \o t)[p] = a[p]
          /\ \A p \in 2..(n + 2) : (a \o t)[p] = t[p - 1]
      <4> DEFINE w == a \o t
      <4>1. /\ w \in Seq(Lines) /\ Len(w) = Len(a) + Len(t)
            /\ \A p \in 1..Len(a) : w[p] = a[p]
            /\ \A p \in (Len(a) + 1)..(Len(a) + Len(t)) : w[p] = t[p - Len(a)]
        <5>1. a \in Seq(Lines) /\ t \in Seq(Lines)
          BY <2>1, <3>1
        <5>2. QED
          BY <5>1, ConcatFacts
      <4> HIDE DEF w
      <4>2. /\ w \in Seq(Lines) /\ Len(w) = n + 2 /\ \A p \in 1..1 : w[p] = a[p]
            /\ \A p \in 2..(n + 2) : w[p] = t[p - 1]
        BY <2>1, <3>1, <4>1
      <4>3. QED
        BY <4>2 DEF w
    <3>3. s = a \o t
      BY DEF a
    <3> HIDE DEF s
    <3>4. QED
      BY <2>1, <3>1, <3>2, <3>3
  <2> HIDE DEF s
  <2>4. u \in Seq(Lines) /\ Len(u) = n + 1 /\ \A p \in 1..(n + 1) : u[p] = t[p]
    BY <2>1, <2>3, s # <<>>, TailFacts
  <2> HIDE DEF u
  <2>5. Body(u)
    BY <2>1, <2>4 DEF Body
  <2>6. Whole(s, IF c.op = "RESPONSE" THEN "AUTH" ELSE c.op)
    BY <2>1, <2>3, <2>5, <1>3 DEF Whole, LongOps, u
  <2>7. /\ \A p \in 2..(n + 1) : s[p].kind = "item" /\ s[p].i = p - 1 /\ s[p].of = of
        /\ s[n + 2].kind = "end" /\ s[n + 2].of = of
    BY <2>1, <2>3
  <2>8. Chained(s)
    BY <2>1, <2>3, <2>7 DEF Chained
  <2>9. Answer(s, of, c.op)
    BY <2>1, <2>3, <2>6, <2>7, <2>8 DEF Answer
  <2>10. QED
    BY <1>3, <2>9 DEF s, t
<1>4. QED
  BY OutcomeCases, <1>1, <1>2, <1>3 DEF OutcomeCase, Outcome, Ok, Err, LongOps

LEMMA MarksFacts ==
  ASSUME Typed, server # "closed", NEW c \in Commands, NEW of \in Int, NEW o \in Outcomes(c, of)
  PROVE  /\ o.st \in {"auth", "sasl", "trans", "closed"} /\ o.marks \subseteq 1..Len(box)
         /\ c.op # "DELE" /\ marks = {} => o.marks = {}
<1>1. server \in {"auth", "sasl", "trans"} /\ marks \subseteq 1..Len(box)
  BY DEF Typed, TypeOK
<1>2. QED
  <2>1. \/ o.st \in {"auth", "sasl", "trans", "closed", server} /\ o.marks \in {marks, {}}
        \/ /\ o.st = server /\ o.marks = marks \cup {c.msg}
           /\ c.op = "DELE" /\ c.msg \in (1..Len(box)) \ marks
    BY OutcomeCases DEF OutcomeCase, Outcome
  <2>2. QED
    BY <1>1, <2>1

-----------------------------------------------------------------------------
\* The steps of the client, in the groups the invariants tell apart.

LEMMA WaitingFacts ==
  ASSUME NEW op \in Ops, NEW m \in 0..N, NEW at \in {"none", "status", "list", "uidl", "lines"},
         NEW t \in Seq(Entries), NEW then \in Commands
  PROVE  /\ Waiting(op, m, at, t, then) \in Calls
         /\ Waiting(op, m, at, t, then).op = op /\ Waiting(op, m, at, t, then).msg = m
         /\ Waiting(op, m, at, t, then).at = at /\ Waiting(op, m, at, t, then).tab = t
         /\ Waiting(op, m, at, t, then).then = then
  BY DEF Waiting, Calls

LEMMA IdleFacts ==
  /\ None \in Commands /\ Idle \in Calls /\ None.op = "none" /\ 0 \in 0..N /\ N \in Nat
  /\ Idle.op = "none" /\ Idle.at = "none" /\ Idle.tab = <<>> /\ Idle.then = None /\ Idle.msg = 0
<1>1. None \in Commands /\ << >> \in Seq(Entries) /\ None.op = "none" /\ "none" \in Ops
      /\ 0 \in 0..N /\ N \in Nat
  BY Pop3Assumption DEF Pop3Assumption, None, Commands, Ops
<1>2. QED
  BY <1>1 DEF Idle, Waiting, Calls

\* A call begins with its command.
Issues(op, m, then) ==
  /\ call = Idle /\ stream
  /\ op \in Ops \ {"none", "CONNECT", "UIDL"} /\ m \in 0..N /\ then \in Commands
  /\ then # None => op = "LIST" /\ then.op \in MessageOps
  /\ op \in MessageOps \cup {"LIST", "RSET", "NOOP"} => state = "TRANSACTION"
  /\ op \in {"USER", "PASS", "APOP"} => state = "AUTHORIZATION"
  /\ op = "LIST" => ~listed
  /\ op \in MessageOps => listed /\ m \in 1..Len(tab)
  /\ Sends(op, m, then)
  /\ UNCHANGED <<state, stream, tabVars, toClient, serverVars, countVars, late>>

ClientStarts ==
  User \/ Pass \/ Auth \/ Capa \/ Stls \/ Stat \/ Noop \/ Rset \/ List
  \/ \E m \in Msgs : Retr(m) \/ Dele(m)

LEMMA StartsIssue ==
  ASSUME TableInv, ClientStarts
  PROVE  \E op \in Ops, m \in 0..N, then \in Commands : Issues(op, m, then)
<1>1. ~stream => state = "DISCONNECTED"
  BY DEF TableInv, Structured
<1>2. None \in Commands /\ 0 \in 0..N /\ N \in Nat
  BY IdleFacts
<1>3. ASSUME NEW op \in Ops \ {"none", "CONNECT", "UIDL"}, NEW m \in 0..N, Command(op, m), stream,
             op \in MessageOps \cup {"LIST", "RSET", "NOOP"} => state = "TRANSACTION",
             op \in {"USER", "PASS", "APOP"} => state = "AUTHORIZATION",
             op = "LIST" => ~listed,
             op \in MessageOps => listed /\ m \in 1..Len(tab)
      PROVE  Issues(op, m, None)
  BY <1>2, <1>3 DEF Issues, Command
<1>4. CASE User \/ Pass \/ Auth \/ Capa \/ Stls \/ Stat \/ Noop \/ Rset \/ List
  <2>1. \E op \in Ops \ {"none", "CONNECT", "UIDL"} : Issues(op, 0, None)
    BY <1>1, <1>2, <1>3, <1>4
       DEF User, Pass, Auth, Capa, Stls, Stat, Noop, Rset, List, Ops, MessageOps
  <2>2. QED
    BY <1>2, <2>1
<1>5. ASSUME NEW m \in Msgs, NEW op \in MessageOps, OnMessage(op, m)
      PROVE  \E o \in Ops, k \in 0..N, then \in Commands : Issues(o, k, then)
  <2>1. m \in 0..N /\ state = "TRANSACTION" /\ stream /\ op \in Ops \ {"none", "CONNECT", "UIDL"}
    BY <1>1, <1>2, <1>5 DEF Msgs, OnMessage, MessageOps, Ops
  <2>2. CASE listed /\ Found(listed, tab, m) /\ Command(op, m)
    <3>1. m \in 1..Len(tab) /\ op \notin {"LIST", "RSET", "NOOP", "USER", "PASS", "APOP"}
      BY <2>2, <1>5 DEF Found, MessageOps
    <3>2. Issues(op, m, None)
      BY <1>3, <2>1, <2>2, <3>1
    <3>3. QED
      BY <1>2, <2>1, <3>2
  <2>3. CASE /\ ~listed /\ call = Idle /\ sent < MaxCommands
             /\ Sends("LIST", 0, [op |-> op, msg |-> m])
             /\ UNCHANGED <<state, stream, tabVars, toClient, serverVars, countVars, late>>
    <3>1. [op |-> op, msg |-> m] \in Commands /\ [op |-> op, msg |-> m].op \in MessageOps
      BY <2>1, <1>5 DEF Commands
    <3>2. "LIST" \in Ops \ {"none", "CONNECT", "UIDL"} /\ "LIST" \notin MessageOps
      BY DEF Ops, MessageOps
    <3>3. Issues("LIST", 0, [op |-> op, msg |-> m])
      BY <1>2, <2>1, <2>3, <3>1, <3>2 DEF Issues
    <3>4. QED
      BY <1>2, <3>1, <3>2, <3>3
  <2>4. QED
    BY <1>5, <2>2, <2>3 DEF OnMessage
<1>6. CASE \E m \in Msgs : Retr(m) \/ Dele(m)
  BY <1>5, <1>6 DEF Retr, Dele, MessageOps
<1>7. QED
  BY <1>4, <1>6 DEF ClientStarts

-----------------------------------------------------------------------------
\* The table has no hole: what the steps have in common.

\* The commands under way stay in an order that lists first.
LEMMA FirstKept ==
  ASSUME TableInv, marks' = marks, server' \in {server, "closed"}, listed => listed',
         \/ toServer' \in {toServer, <<>>}
         \/ \E c \in Commands :
              /\ toServer' = Append(toServer, c)
              /\ c.op \in {"LIST", "UIDL"} => ~listed
              /\ c.op = "DELE" => listed'
  PROVE  ListsFirst'
<1>1. CASE toServer' \in {toServer, <<>>}
  BY <1>1 DEF TableInv, ListsFirst
<1>2. ASSUME NEW c \in Commands, toServer' = Append(toServer, c),
             c.op \in {"LIST", "UIDL"} => ~listed, c.op = "DELE" => listed'
      PROVE  ListsFirst'
  <2> DEFINE s == toServer
             t == toServer'
             n == Len(toServer)
  <2>1. t \in Seq(Commands) /\ Len(t) = n + 1 /\ n \in Nat
        /\ (\A p \in 1..n : t[p] = s[p]) /\ t[n + 1] = c
    BY <1>2, AppendFacts DEF TableInv, Typed
  <2>2. /\ ~listed => /\ server # "closed" => marks = {}
                      /\ \A p \in 1..n : s[p].op # "DELE"
        /\ \A p \in 1..n : s[p].op \in {"LIST", "UIDL"} =>
             /\ server # "closed" => marks = {}
             /\ \A q \in 1..p : s[q].op # "DELE"
    BY DEF TableInv, ListsFirst
  <2> HIDE DEF s, t, n
  <2>3. ~listed' => /\ server' # "closed" => marks' = {}
                    /\ \A p \in 1..Len(t) : t[p].op # "DELE"
    BY <1>2, <2>1, <2>2
  <2>4. ASSUME NEW p \in 1..Len(t), t[p].op \in {"LIST", "UIDL"}
        PROVE  /\ server' # "closed" => marks' = {}
               /\ \A q \in 1..p : t[q].op # "DELE"
    <3>1. CASE p = n + 1
      BY <1>2, <2>1, <2>2, <2>4, <3>1
    <3>2. CASE p \in 1..n
      BY <2>1, <2>2, <2>4, <3>2
    <3>3. QED
      BY <2>1, <3>1, <3>2
  <2>5. QED
    BY <2>3, <2>4 DEF ListsFirst, t
<1>3. QED
  BY <1>1, <1>2

LEMMA ReadsFacts ==
  ASSUME TableInv, NEW at, Reads(at)
  PROVE  /\ toClient' \in Seq(Lines) /\ Chained(toClient)'
         /\ \A p \in 1..Len(toClient') : toClient'[p].kind = "item" => toClient'[p].i > 0
         /\ \/ toClient = <<>> /\ toClient' = <<>> /\ NextLine = Line(sent, "empty", 0, 0)
            \/ /\ toClient # <<>> /\ NextLine \in Lines /\ NextLine = toClient[1]
               /\ Len(toClient') = Len(toClient) - 1
               /\ \A p \in 1..(Len(toClient) - 1) : toClient'[p] = toClient[p + 1]
         /\ toClient' # <<>> /\ toClient'[1].kind = "item" /\ toClient'[1].i > 1 =>
              NextLine.kind = "item" /\ NextLine.i = toClient'[1].i - 1
<1> DEFINE s == toClient
           t == toClient'
<1>1. s \in Seq(Lines) /\ Chained(s)
      /\ \A p \in 1..Len(s) : s[p].kind = "item" => s[p].i > 0
  BY DEF TableInv, Typed, Dense
<1>2. CASE toClient = <<>>
  BY <1>2 DEF Reads, Chained, NextLine
<1>3. CASE toClient # <<>>
  <2>1. /\ t \in Seq(Lines) /\ Len(t) = Len(s) - 1 /\ Len(s) \in Nat \ {0}
        /\ \A p \in 1..(Len(s) - 1) : t[p] = s[p + 1]
        /\ NextLine = s[1] /\ s[1] \in Lines
    BY <1>1, <1>3, TailFacts DEF Reads, NextLine
  <2> HIDE DEF s, t
  <2>2. Chained(t)
    <3> SUFFICES ASSUME NEW p \in 1..Len(t), t[p].kind = "item", t[p].i > 1, p > 1
                 PROVE  t[p - 1].kind = "item" /\ t[p - 1].i = t[p].i - 1
      BY DEF Chained
    <3>1. p + 1 \in 1..Len(s) /\ p - 1 \in 1..(Len(s) - 1) /\ t[p] = s[p + 1] /\ t[p - 1] = s[p]
      BY <2>1
    <3>2. QED
      BY <1>1, <2>1, <3>1 DEF Chained
  <2>3. \A p \in 1..Len(t) : t[p].kind = "item" => t[p].i > 0
    BY <1>1, <2>1
  <2>4. t # <<>> /\ t[1].kind = "item" /\ t[1].i > 1 => s[1].kind = "item" /\ s[1].i = t[1].i - 1
    <3> SUFFICES ASSUME t # <<>>, t[1].kind = "item", t[1].i > 1
                 PROVE  s[1].kind = "item" /\ s[1].i = t[1].i - 1
      OBVIOUS
    <3>1. Len(t) > 0
      BY <2>1
    <3>2. 2 \in 1..Len(s) /\ t[1] = s[2]
      BY <2>1, <3>1
    <3>3. QED
      BY <1>1, <3>2 DEF Chained
  <2>5. QED
    BY <1>3, <2>1, <2>2, <2>3, <2>4 DEF s, t
<1>4. QED
  BY <1>2, <1>3

\* Sending a command leaves the tables alone.
LEMMA SendsFacts ==
  ASSUME TableInv, NEW op \in Ops, NEW m \in 0..N, NEW then \in Commands, Sends(op, m, then)
  PROVE  /\ call' \in Calls /\ call'.op = op /\ call'.msg = m /\ call'.at = "status"
         /\ call'.tab = <<>> /\ call'.then = then
         /\ toServer' \in Seq(Commands) /\ sent' \in Nat
         /\ \E c \in Commands : c.op = op /\ c.msg = m /\ toServer' = Append(toServer, c)
<1>1. << >> \in Seq(Entries)
  OBVIOUS
<1>2. [op |-> op, msg |-> m] \in Commands
  BY DEF Commands
<1>3. toServer \in Seq(Commands) /\ sent \in Nat
  BY DEF TableInv, Typed, TypeOK
<1>4. call' = Waiting(op, m, "status", <<>>, then) /\ sent' = sent + 1
      /\ toServer' = Append(toServer, [op |-> op, msg |-> m])
  BY DEF Sends
<1>5. /\ call' \in Calls /\ call'.op = op /\ call'.msg = m /\ call'.at = "status"
      /\ call'.tab = <<>> /\ call'.then = then
  BY <1>1, <1>4 DEF Waiting, Calls
<1>6. toServer' \in Seq(Commands)
  BY <1>2, <1>3, <1>4
<1>7. QED
  BY <1>2, <1>3, <1>4, <1>5, <1>6

LEMMA IssuesTable ==
  ASSUME TableInv, NEW op \in Ops, NEW m \in 0..N, NEW then \in Commands, Issues(op, m, then)
  PROVE  TableInv'
<1> USE DEF Issues
<1>1. /\ call' \in Calls /\ call'.op = op /\ call'.msg = m /\ call'.at = "status"
      /\ call'.tab = <<>> /\ call'.then = then
      /\ toServer' \in Seq(Commands) /\ sent' \in Nat
  BY SendsFacts
<1>2. UNCHANGED <<state, stream, listed, tab, deleted_count, toClient, server, box, marks, late>>
  BY DEF tabVars, serverVars
<1>3. Typed'
  BY <1>1, <1>2, IdleFacts DEF TableInv, Typed, TypeOK
<1>4. Structured'
  BY <1>1, <1>2 DEF TableInv, Structured, MessageOps
<1>5. ListsFirst'
  BY <1>2, SendsFacts, FirstKept DEF MessageOps
<1>6. Dense'
  BY <1>1, <1>2 DEF TableInv, Dense, Chained
<1>7. QED
  BY <1>3, <1>4, <1>5, <1>6 DEF TableInv

LEMMA ConnectTable ==
  ASSUME TableInv, Connect
  PROVE  TableInv'
<1>1. PICK n \in 0..N, kind \in {"ok", "err"} :
        /\ box' \in [1..n -> Msgs] /\ toClient' = << Line(1, kind, 0, 0) >>
        /\ server' = IF kind = "ok" THEN "auth" ELSE "closed"
  BY DEF Connect
<1>2. "CONNECT" \in Ops /\ << >> \in Seq(Entries)
  BY DEF Ops
<1>3. /\ call' \in Calls /\ call'.op = "CONNECT" /\ call'.msg = 0 /\ call'.at = "status"
      /\ call'.tab = <<>> /\ call'.then = None
  BY <1>2, IdleFacts DEF Connect, Waiting, Calls
<1>4. /\ toServer' = <<>> /\ marks' = {} /\ stream' = TRUE /\ sent' = 1 /\ late' = FALSE
      /\ state = "DISCONNECTED" /\ call = Idle
      /\ UNCHANGED <<state, listed, tab, deleted_count>>
  BY DEF Connect, tabVars
<1>5. toClient' \in Seq(Lines) /\ Len(toClient') = 1 /\ toClient'[1].kind = kind
  BY <1>1, IdleFacts DEF Line, Lines, Kinds
<1>6. box' \in Seq(Msgs) /\ Len(box') <= N
  BY <1>1, IdleFacts
<1>7. Typed'
  <2>1. TypeOK'
    BY <1>1, <1>3, <1>4, <1>6 DEF TableInv, Typed, TypeOK, Calls
  <2>2. << >> \in Seq(Commands) /\ Len(<<>>) = 0
    OBVIOUS
  <2>3. Len(call'.tab) <= N
    BY <1>3, <2>2, IdleFacts
  <2>4. QED
    BY <1>3, <1>4, <1>5, <1>6, <2>1, <2>2, <2>3 DEF Typed
<1>8. Structured'
  BY <1>3, <1>4 DEF TableInv, Structured, MessageOps
<1>9. ListsFirst'
  BY <1>4 DEF ListsFirst
<1>10. Dense'
  BY <1>1, <1>3, <1>4, <1>5 DEF TableInv, Dense, Chained
<1>11. QED
  BY <1>7, <1>8, <1>9, <1>10 DEF TableInv

\* The client closes the stream: mailpop3_quit, at once or after its answer, and
\* when that does not come.
Closes ==
  /\ stream' = FALSE /\ state' = "DISCONNECTED" /\ listed' = FALSE /\ tab' = <<>>
  /\ call' = Idle /\ server' = "closed" /\ toServer' = <<>> /\ toClient' = <<>>
  /\ UNCHANGED <<deleted_count, box, marks, sent, late>>

LEMMA ClosesTable ==
  ASSUME TableInv, Closes
  PROVE  TableInv'
<1>1. Typed'
  <2>1. << >> \in Seq(Entries) /\ << >> \in Seq(Commands) /\ << >> \in Seq(Lines) /\ Len(<<>>) = 0
    OBVIOUS
  <2>2. call' \in Calls /\ Len(tab') <= N /\ Len(call'.tab) <= N
    BY <2>1, IdleFacts DEF Closes
  <2>3. TypeOK'
    BY <2>1, <2>2 DEF TableInv, Typed, TypeOK, Closes, Calls
  <2>4. QED
    BY <2>1, <2>2, <2>3 DEF TableInv, Typed, Closes
<1>2. Structured'
  BY IdleFacts DEF Structured, Closes, MessageOps
<1>3. ListsFirst'
  BY DEF ListsFirst, Closes
<1>4. Dense'
  BY IdleFacts DEF Dense, Closes, Chained
<1>5. QED
  BY <1>1, <1>2, <1>3, <1>4 DEF TableInv

\* A step that takes a line, or gives up waiting for one, and leaves a call that
\* fits the table.
Steps ==
  /\ stream' = stream /\ stream /\ box' = box /\ marks' = marks
  /\ server' \in {server, "closed"} /\ late' \in BOOLEAN
  /\ state' \in {"DISCONNECTED", "AUTHORIZATION", "TRANSACTION"}
  /\ state # "DISCONNECTED" => state' # "DISCONNECTED"
  /\ state = "TRANSACTION" => state' = "TRANSACTION"

SameTable == UNCHANGED <<listed, tab, deleted_count>>

\* The table keeps its shape.
SameShape ==
  /\ listed' = listed /\ deleted_count' \in Nat
  /\ tab' \in Seq(Entries) /\ Len(tab') = Len(tab)
  /\ \A k \in 1..Len(tab) : tab'[k].here = tab[k].here

Waits == UNCHANGED <<toServer, sent>>

\* What a time-out may do to the lines under way.
Cuts == toClient' \in {toClient, Beheaded(toClient)}

\* A line that lost its beginning is no entry and was none.
LEMMA CutsFacts ==
  ASSUME TableInv, Cuts
  PROVE  /\ toClient' \in Seq(Lines) /\ Chained(toClient)'
         /\ \A p \in 1..Len(toClient') : toClient'[p].kind = "item" => toClient'[p].i > 0
<1>1. /\ toClient \in Seq(Lines) /\ Chained(toClient)
      /\ \A p \in 1..Len(toClient) : toClient[p].kind = "item" => toClient[p].i > 0
  BY DEF TableInv, Typed, Dense
<1>2. CASE toClient' = toClient
  BY <1>1, <1>2 DEF Chained
<1>3. CASE /\ toClient # <<>> /\ toClient[1].kind \in {"ok", "cont"}
           /\ toClient' = [toClient EXCEPT ![1].kind = "err"]
  <2>1. 1 \in 1..Len(toClient) /\ toClient[1] \in Lines
    BY <1>1, <1>3
  <2>2. "err" \in Kinds
    BY DEF Kinds
  <2>3. [toClient[1] EXCEPT !.kind = "err"] \in Lines
    BY <2>1, <2>2 DEF Lines
  <2>4. /\ toClient' \in Seq(Lines) /\ Len(toClient') = Len(toClient)
        /\ toClient'[1].kind = "err"
        /\ \A p \in 2..Len(toClient) : toClient'[p] = toClient[p]
    BY <1>1, <1>3, <2>1, <2>3
  <2>5. Chained(toClient)'
    BY <1>1, <1>3, <2>1, <2>4 DEF Chained
  <2>6. QED
    BY <1>1, <2>4, <2>5
<1>4. QED
  BY <1>2, <1>3 DEF Cuts, Beheaded

\* The call goes on without a new command, or ends.
LEMMA WaitsTable ==
  ASSUME TableInv, Steps, SameShape, Waits, NEW at, Reads(at) \/ Cuts,
         \/ call' = Idle
         \/ /\ call' \in Calls /\ call'.op = call.op /\ call'.msg = call.msg /\ state' = state
            /\ call'.then = call.then /\ call'.tab = call.tab /\ call # Idle
            /\ call'.at = "list" => call.op = "LIST" /\ call.at = "status" /\ NextLine.kind # "item"
                                    /\ Reads(at)
            /\ call'.at = "uidl" => call.op = "UIDL"
            /\ call'.at = "lines" => call.op \in {"RETR", "TOP", "CAPA"}
            /\ call'.at = "status" => call.at = "status"
            /\ call'.at # "none"
  PROVE  TableInv'
<1>1. /\ toClient' \in Seq(Lines) /\ Chained(toClient)'
      /\ \A p \in 1..Len(toClient') : toClient'[p].kind = "item" => toClient'[p].i > 0
  BY ReadsFacts, CutsFacts
<1>2. call' \in Calls /\ Len(call'.tab) <= N /\ \A i \in 1..Len(call'.tab) : call'.tab[i].here
  BY IdleFacts DEF TableInv, Typed, Dense
<1>3. Typed'
  BY <1>1, <1>2 DEF TableInv, Typed, TypeOK, Steps, SameShape, Waits, Calls
<1>4. Structured'
  <2>1. ~listed' => tab' = <<>>
    <3>1. ~listed' => Len(tab') = 0 /\ tab' \in Seq(Entries)
      BY Len(<<>>) = 0 DEF TableInv, Structured, SameShape
    <3>2. QED
      BY <3>1
  <2>2. CASE call' = Idle
    BY <2>1, <2>2, IdleFacts DEF TableInv, Structured, Steps, SameShape, MessageOps
  <2>3. CASE call' # Idle
    BY <2>1, <2>3 DEF TableInv, Structured, Steps, SameShape, MessageOps, Typed, Calls
  <2>4. QED
    BY <2>2, <2>3
<1>5. ListsFirst'
  BY FirstKept DEF Steps, SameShape, Waits
<1>6. Dense'
  <2>1. \A i \in 1..Len(tab') : tab'[i].here
    BY DEF SameShape, TableInv, Dense
  <2>2. call'.at = "list" /\ toClient' # <<>> /\ toClient'[1].kind = "item" =>
          Len(call'.tab) >= toClient'[1].i - 1
    <3> SUFFICES ASSUME call'.at = "list", toClient' # <<>>, toClient'[1].kind = "item"
                 PROVE  Len(call'.tab) >= toClient'[1].i - 1
      OBVIOUS
    <3>1. call' # Idle /\ NextLine.kind # "item" /\ Reads(at)
      BY IdleFacts
    <3>2. ~ (toClient'[1].i > 1)
      BY <3>1, ReadsFacts
    <3>3. toClient'[1] \in Lines
      BY <1>1
    <3>4. toClient'[1].i \in 0..N /\ Len(call'.tab) \in Nat
      BY <1>2, <3>3 DEF Lines, Calls
    <3>5. QED
      BY <3>2, <3>4
  <2>3. QED
    BY <1>1, <1>2, <2>1, <2>2 DEF Dense
<1>7. QED
  BY <1>3, <1>4, <1>5, <1>6 DEF TableInv

\* The end of a listing: find_msg goes on, or the call ends.
LEMMA ListDoneTable ==
  ASSUME TableInv, Steps, SameTable, call.op \in {"LIST", "UIDL"}, ListDone(listed, tab),
         NEW at, Reads(at) \/ Cuts
  PROVE  TableInv'
<1>1. SameShape
  BY DEF SameShape, SameTable, TableInv, Typed, TypeOK
<1>2. CASE Return
  BY <1>1, <1>2, WaitsTable DEF Return, Waits
<1>3. CASE call.then # None /\ Found(listed, tab, call.then.msg)
           /\ Sends(call.then.op, call.then.msg, None)
  <2> DEFINE op == call.then.op
             m == call.then.msg
  <2>1. /\ op \in MessageOps /\ op \in Ops /\ m \in 0..N /\ listed /\ m \in 1..Len(tab)
        /\ call \in Calls /\ state = "TRANSACTION" /\ None \in Commands
    BY <1>3, IdleFacts DEF TableInv, Structured, Typed, Calls, Commands, MessageOps, Ops, Found
  <2> HIDE DEF op, m
  <2>2. Sends(op, m, None)
    BY <1>3 DEF op, m
  <2>3. /\ call' \in Calls /\ call'.op = op /\ call'.msg = m /\ call'.at = "status"
        /\ call'.tab = <<>> /\ call'.then = None
        /\ toServer' \in Seq(Commands) /\ sent' \in Nat
        /\ \E c \in Commands : c.op = op /\ c.msg = m /\ toServer' = Append(toServer, c)
    BY <2>1, <2>2, SendsFacts
  <2>4. /\ toClient' \in Seq(Lines) /\ Chained(toClient)'
        /\ \A p \in 1..Len(toClient') : toClient'[p].kind = "item" => toClient'[p].i > 0
    BY ReadsFacts, CutsFacts
  <2>5. Typed'
    BY <2>3, <2>4, IdleFacts DEF TableInv, Typed, TypeOK, Steps, SameTable, Calls
  <2>6. Structured'
    BY <2>1, <2>3 DEF TableInv, Structured, Steps, SameTable, MessageOps
  <2>7. ListsFirst'
    BY <2>1, <2>3, FirstKept DEF Steps, SameTable, MessageOps
  <2>8. Dense'
    BY <2>3, <2>4 DEF TableInv, Dense, SameTable
  <2>9. QED
    BY <2>5, <2>6, <2>7, <2>8 DEF TableInv
<1>4. QED
  BY <1>2, <1>3 DEF ListDone

\* Every entry that read_list sets is at most one beyond the end.
LEMMA ListLineTable ==
  ASSUME TableInv, ListLine
  PROVE  TableInv'
<1>1. /\ call.at = "list" /\ call.op = "LIST" /\ stream /\ ~listed /\ state = "TRANSACTION"
      /\ Reads("list") /\ call \in Calls /\ call # Idle
  BY IdleFacts DEF TableInv, Structured, Typed, ListLine, Reads
<1>2. Steps
  BY <1>1 DEF Steps, ListLine, serverVars, TableInv, Typed, TypeOK
<1>3. /\ toClient' \in Seq(Lines) /\ Chained(toClient)'
      /\ \A p \in 1..Len(toClient') : toClient'[p].kind = "item" => toClient'[p].i > 0
  BY <1>1, ReadsFacts
<1>4. CASE /\ NextLine.kind = "end" /\ listed' = TRUE /\ tab' = call.tab /\ deleted_count' = 0
           /\ Sends("UIDL", 0, call.then)
  <2>1. "UIDL" \in Ops /\ 0 \in 0..N /\ call.then \in Commands
    BY <1>1, IdleFacts DEF Ops, Calls
  <2>2. /\ call' \in Calls /\ call'.op = "UIDL" /\ call'.msg = 0 /\ call'.at = "status"
        /\ call'.tab = <<>> /\ call'.then = call.then
        /\ toServer' \in Seq(Commands) /\ sent' \in Nat
        /\ \E c \in Commands : c.op = "UIDL" /\ c.msg = 0 /\ toServer' = Append(toServer, c)
    BY <1>4, <2>1, SendsFacts
  <2>3. Typed'
    BY <1>1, <1>2, <1>3, <1>4, <2>2, IdleFacts DEF TableInv, Typed, TypeOK, Steps, Calls
  <2>4. Structured'
    BY <1>1, <1>2, <1>4, <2>2 DEF TableInv, Structured, Steps, MessageOps
  <2>5. ListsFirst'
    BY <1>1, <1>2, <1>4, <2>2, FirstKept DEF Steps
  <2>6. Dense'
    BY <1>3, <1>4, <2>2 DEF TableInv, Dense
  <2>7. QED
    BY <2>3, <2>4, <2>5, <2>6 DEF TableInv
<1>5. ASSUME NEW t \in Seq(Entries), call' = [call EXCEPT !.tab = t], Len(t) <= N,
             \A i \in 1..Len(t) : t[i].here, UNCHANGED <<tabVars, toServer, sent>>,
             toClient' # <<>> /\ toClient'[1].kind = "item" => Len(t) >= toClient'[1].i - 1
      PROVE  TableInv'
  <2>1. /\ call' \in Calls /\ call'.op = "LIST" /\ call'.msg = call.msg /\ call'.at = "list"
        /\ call'.tab = t /\ call'.then = call.then
    BY <1>1, <1>5 DEF Calls
  <2>2. SameTable
    BY <1>5 DEF SameTable, tabVars
  <2>3. Typed'
    BY <1>1, <1>2, <1>3, <1>5, <2>1, <2>2 DEF TableInv, Typed, TypeOK, Steps, SameTable, Calls
  <2>4. Structured'
    BY <1>1, <1>2, <1>5, <2>1, <2>2 DEF TableInv, Structured, Steps, SameTable, MessageOps
  <2>5. ListsFirst'
    BY <1>2, <1>5, <2>2, FirstKept DEF Steps, SameTable
  <2>6. Dense'
    BY <1>3, <1>5, <2>1, <2>2 DEF TableInv, Dense, SameTable
  <2>7. QED
    BY <2>3, <2>4, <2>5, <2>6 DEF TableInv
<1>6. CASE /\ NextLine.kind = "item"
           /\ call' = [call EXCEPT !.tab = SetEntry(@, NextLine.i, NewEntry)]
           /\ UNCHANGED <<tabVars, toServer, sent>>
  <2> DEFINE i == NextLine.i
             t == SetEntry(call.tab, i, NewEntry)
  <2>1. toClient # <<>> /\ NextLine \in Lines /\ NextLine = toClient[1]
    BY <1>1, <1>6, ReadsFacts DEF Line
  <2>2. Len(toClient) \in Nat \ {0}
    BY <2>1 DEF TableInv, Typed
  <2>3. /\ i \in 1..N /\ i \in Nat \ {0} /\ Len(call.tab) >= i - 1 /\ Len(call.tab) <= N
        /\ call.tab \in Seq(Entries) /\ NewEntry \in Entries /\ NewEntry.here
    <3>1. i \in 0..N
      BY <2>1 DEF Lines
    <3>2. i > 0 /\ Len(call.tab) >= i - 1 /\ Len(call.tab) <= N
      BY <1>1, <1>6, <2>1, <2>2 DEF TableInv, Dense, Typed
    <3>3. call.tab \in Seq(Entries)
      BY <1>1 DEF Calls
    <3>4. NewEntry \in Entries /\ NewEntry.here
      BY IdleFacts DEF NewEntry, Entries
    <3>5. QED
      BY <3>1, <3>2, <3>3, <3>4, IdleFacts
  <2>4. call' = [call EXCEPT !.tab = t]
    BY <1>6
  <2> HIDE DEF i
  <2>5. /\ t \in Seq(Entries) /\ Len(t) = (IF Len(call.tab) < i THEN i ELSE Len(call.tab))
        /\ t[i] = NewEntry /\ \A k \in 1..Len(call.tab) : k # i => t[k] = call.tab[k]
    BY <2>3, SetEntryFacts, ZenonT(30)
  <2> HIDE DEF t
  <2>6. Len(t) <= N /\ \A k \in 1..Len(t) : t[k].here
    BY <2>3, <2>5, IdleFacts DEF TableInv, Dense
  <2>7. toClient' # <<>> /\ toClient'[1].kind = "item" => Len(t) >= toClient'[1].i - 1
    <3> SUFFICES ASSUME toClient' # <<>>, toClient'[1].kind = "item"
                 PROVE  Len(t) >= toClient'[1].i - 1
      OBVIOUS
    <3>1. toClient'[1].i > 1 => i = toClient'[1].i - 1
      BY <1>1, ReadsFacts DEF i
    <3>2. toClient'[1].i \in 0..N
      BY <1>3, HeadFacts
    <3>3. QED
      BY <2>3, <2>5, <3>1, <3>2
  <2>8. QED
    BY <1>5, <1>6, <2>3, <2>4, <2>5, <2>6, <2>7
<1>7. CASE NextLine.kind # "item" /\ UNCHANGED <<call, tabVars, toServer, sent>>
  <2>1. call' = [call EXCEPT !.tab = call.tab] /\ call.tab \in Seq(Entries) /\ Len(call.tab) <= N
        /\ \A i \in 1..Len(call.tab) : call.tab[i].here
    BY <1>1, <1>7 DEF Calls, TableInv, Dense, Typed
  <2>2. toClient' # <<>> /\ toClient'[1].kind = "item" => Len(call.tab) >= toClient'[1].i - 1
    <3> SUFFICES ASSUME toClient' # <<>>, toClient'[1].kind = "item"
                 PROVE  Len(call.tab) >= toClient'[1].i - 1
      OBVIOUS
    <3>1. ~ (toClient'[1].i > 1)
      BY <1>1, <1>7, ReadsFacts
    <3>2. toClient'[1].i \in 0..N /\ Len(call.tab) \in Nat
      BY <1>3, <2>1, HeadFacts
    <3>3. QED
      BY <3>1, <3>2
  <2>3. QED
    BY <1>5, <1>7, <2>1, <2>2
<1>8. QED
  BY <1>4, <1>6, <1>7 DEF ListLine

LEMMA MarkFacts ==
  ASSUME TableInv, call.op = "DELE", DeleReply("ok")
  PROVE  /\ tab' \in Seq(Entries) /\ Len(tab') = Len(tab) /\ call.msg \in 1..Len(tab)
         /\ \A k \in 1..Len(tab) : /\ tab'[k].here = tab[k].here /\ tab'[k].uid = tab[k].uid
                                   /\ tab'[k].deleted = IF k = call.msg THEN TRUE ELSE tab[k].deleted
<1> DEFINE e == [tab[call.msg] EXCEPT !.deleted = TRUE]
<1>1. tab \in Seq(Entries) /\ call.msg \in 1..Len(tab)
  BY DEF TableInv, Typed, TypeOK, Structured, MessageOps
<1>2. /\ e \in Entries /\ e.here = tab[call.msg].here /\ e.uid = tab[call.msg].uid
      /\ e.deleted = TRUE
  <2>1. tab[call.msg] \in Entries
    BY <1>1
  <2>2. QED
    BY <2>1 DEF Entries
<1>3. tab' = [tab EXCEPT ![call.msg] = e]
  BY DEF DeleReply
<1> HIDE DEF e
<1>4. /\ tab' \in Seq(Entries) /\ Len(tab') = Len(tab)
      /\ \A k \in 1..Len(tab) : tab'[k] = IF k = call.msg THEN e ELSE tab[k]
  BY <1>1, <1>2, <1>3, ReplaceFacts
<1>5. QED
  BY <1>1, <1>2, <1>4

LEMMA StatusLineTable ==
  ASSUME TableInv, StatusLine
  PROVE  TableInv'
<1>1. /\ call.at = "status" /\ Reads("status") /\ call \in Calls /\ call # Idle /\ stream
  BY IdleFacts DEF StatusLine, Reads, TableInv, Typed, Structured
<1>2. UNCHANGED <<stream, box, marks, late>>
  BY DEF StatusLine
<1>3. /\ tab \in Seq(Entries) /\ deleted_count \in Nat /\ late \in BOOLEAN
      /\ state \in {"DISCONNECTED", "AUTHORIZATION", "TRANSACTION"}
  BY DEF TableInv, Typed, TypeOK
<1>4. SameTable => SameShape
  BY <1>3 DEF SameTable, SameShape
<1>5. ASSUME NEW r, call.op = "DELE", DeleReply(r)
      PROVE  TableInv'
  <2>1. call.msg \in 1..Len(tab)
    BY <1>5 DEF TableInv, Structured, MessageOps
  <2>2. SameShape
    <3>1. CASE r = "ok"
      <4>1. /\ tab' \in Seq(Entries) /\ Len(tab') = Len(tab)
            /\ \A k \in 1..Len(tab) : tab'[k].here = tab[k].here
        BY <1>5, <3>1, MarkFacts
      <4>2. QED
        BY <1>3, <1>5, <3>1, <4>1 DEF DeleReply, SameShape
    <3>2. CASE r # "ok"
      BY <1>3, <1>5, <3>2 DEF DeleReply, SameShape
    <3>3. QED
      BY <3>1, <3>2
  <2>3. Steps
    BY <1>1, <1>2, <1>3, <1>5 DEF DeleReply, Steps
  <2>4. QED
    BY <1>1, <1>5, <2>2, <2>3, WaitsTable DEF DeleReply, Return, Waits
<1>6. ASSUME NEW r, RsetReply(r)
      PROVE  TableInv'
  <2>1. SameShape
    BY <1>3, <1>6, ResetFacts DEF RsetReply, SameShape
  <2>2. Steps
    BY <1>1, <1>2, <1>3, <1>6 DEF RsetReply, Steps
  <2>3. QED
    BY <1>1, <1>6, <2>1, <2>2, WaitsTable DEF RsetReply, Return, Waits
<1>7. ASSUME NEW r, StlsReply(r)
      PROVE  TableInv'
  <2>1. Steps
    BY <1>1, <1>2, <1>3, <1>7 DEF StlsReply, Steps
  <2>2. SameTable
    BY <1>7 DEF StlsReply, SameTable, tabVars
  <2>3. QED
    BY <1>1, <1>4, <1>7, <2>1, <2>2, WaitsTable DEF StlsReply, Return, Waits
<1>8. ASSUME NEW r, call.op \in {"RETR", "TOP", "CAPA"}, LongReply(r)
      PROVE  TableInv'
  <2>1. Steps /\ SameShape /\ state' = state
    BY <1>1, <1>2, <1>3, <1>4, <1>8 DEF LongReply, Steps, SameTable, tabVars
  <2>2. CASE Return
    BY <1>1, <2>1, <2>2, WaitsTable DEF Return, Waits
  <2>3. CASE call' = [call EXCEPT !.at = "lines"] /\ UNCHANGED <<toServer, sent>>
    <3>1. /\ call' \in Calls /\ call'.op = call.op /\ call'.msg = call.msg /\ call'.at = "lines"
          /\ call'.then = call.then /\ call'.tab = call.tab
      BY <1>1, <2>3 DEF Calls
    <3>2. QED
      BY <1>1, <1>8, <2>1, <2>3, <3>1, WaitsTable DEF Waits
  <2>4. QED
    BY <1>8, <2>2, <2>3 DEF LongReply
<1>9. ASSUME NEW r \in parse_response(NextLine), call.op \in {"LIST", "UIDL"}, ListReply(call.op, r)
      PROVE  TableInv'
  <2>1. Steps /\ SameShape /\ SameTable /\ state' = state
    BY <1>1, <1>2, <1>3, <1>4, <1>9 DEF ListReply, Steps, SameTable, tabVars
  <2>2. CASE ListDone(listed, tab)
    BY <1>1, <1>9, <2>1, <2>2, ListDoneTable
  <2>3. CASE /\ r = "ok"
             /\ call' = [call EXCEPT !.at = IF call.op = "LIST" THEN "list" ELSE "uidl"]
             /\ UNCHANGED <<toServer, sent>>
    <3>1. /\ call' \in Calls /\ call'.op = call.op /\ call'.msg = call.msg
          /\ call'.at = (IF call.op = "LIST" THEN "list" ELSE "uidl")
          /\ call'.then = call.then /\ call'.tab = call.tab
      BY <1>1, <2>3 DEF Calls
    <3>2. NextLine.kind # "item"
      BY <1>9, <2>3 DEF parse_response
    <3>3. QED
      BY <1>1, <1>9, <2>1, <2>3, <3>1, <3>2, WaitsTable DEF Waits
  <2>4. QED
    BY <1>9, <2>2, <2>3 DEF ListReply
<1>10. ASSUME NEW r, ShortReply(call.op, r)
       PROVE  TableInv'
  <2>1. SameShape
    BY <1>4, <1>10 DEF ShortReply, SameTable, tabVars
  <2>2. call.op = "CONNECT" => state = "DISCONNECTED"
    BY DEF TableInv, Structured
  <2>3. Steps
    BY <1>1, <1>2, <1>3, <1>10, <2>2 DEF ShortReply, Steps
  <2>4. QED
    BY <1>1, <1>10, <2>1, <2>3, WaitsTable DEF ShortReply, Return, Waits
<1>11. QED
  BY <1>5, <1>6, <1>7, <1>8, <1>9, <1>10 DEF StatusLine

LEMMA AuthLineTable ==
  ASSUME TableInv, AuthLine
  PROVE  TableInv'
<1>1. /\ call.at = "status" /\ Reads("status") /\ call \in Calls /\ call # Idle /\ stream
      /\ call.op = "AUTH"
  BY IdleFacts DEF AuthLine, Reads, TableInv, Typed, Structured
<1>2. SameTable /\ SameShape /\ UNCHANGED <<stream, server, box, marks>>
  BY DEF AuthLine, tabVars, serverVars, SameTable, SameShape, TableInv, Typed, TypeOK
<1>3. Steps
  BY <1>1, <1>2 DEF AuthLine, Steps, TableInv, Typed, TypeOK
<1>4. CASE Return
  BY <1>1, <1>2, <1>3, <1>4, WaitsTable DEF Return, Waits
<1>5. CASE /\ toServer' = Append(toServer, [op |-> "RESPONSE", msg |-> 0])
           /\ sent' = sent + 1 /\ UNCHANGED <<state, call, late>>
  <2> DEFINE c == [op |-> "RESPONSE", msg |-> 0]
  <2>1. c \in Commands /\ c.op = "RESPONSE"
    BY IdleFacts DEF Commands
  <2> HIDE DEF c
  <2>2. toServer' = Append(toServer, c)
    BY <1>5 DEF c
  <2>3. toServer' \in Seq(Commands) /\ sent' \in Nat
    BY <1>5, <2>1, <2>2 DEF TableInv, Typed, TypeOK
  <2>4. /\ toClient' \in Seq(Lines) /\ Chained(toClient)'
        /\ \A p \in 1..Len(toClient') : toClient'[p].kind = "item" => toClient'[p].i > 0
    BY <1>1, ReadsFacts
  <2>5. Typed'
    BY <1>2, <1>5, <2>3, <2>4 DEF TableInv, Typed, TypeOK, SameTable
  <2>6. Structured'
    BY <1>1, <1>2, <1>5 DEF TableInv, Structured, SameTable
  <2>7. ListsFirst'
    BY <1>2, <2>1, <2>2, FirstKept DEF SameTable
  <2>8. Dense'
    BY <1>1, <1>2, <1>5, <2>4 DEF TableInv, Dense, SameTable
  <2>9. QED
    BY <2>5, <2>6, <2>7, <2>8 DEF TableInv
<1>6. QED
  BY <1>4, <1>5 DEF AuthLine

LEMMA ContentLineTable ==
  ASSUME TableInv, ContentLine
  PROVE  TableInv'
<1>1. /\ call.at = "lines" /\ Reads("lines") /\ call \in Calls /\ call # Idle /\ stream
      /\ call.op \in {"RETR", "TOP", "CAPA"}
  BY IdleFacts DEF ContentLine, Reads, TableInv, Typed, Structured
<1>2. SameTable /\ SameShape /\ Steps /\ Waits /\ state' = state
  BY <1>1 DEF ContentLine, tabVars, serverVars, SameTable, SameShape, TableInv, Typed, TypeOK,
              Steps, Return, Waits
<1>3. call' = Idle \/ call' = call
  BY DEF ContentLine, Return
<1>4. QED
  BY <1>1, <1>2, <1>3, WaitsTable

LEMMA UidlLineTable ==
  ASSUME TableInv, UidlLine
  PROVE  TableInv'
<1>1. /\ call.at = "uidl" /\ Reads("uidl") /\ call \in Calls /\ call # Idle /\ stream
      /\ call.op = "UIDL"
  BY IdleFacts DEF UidlLine, Reads, TableInv, Typed, Structured
<1>2. UNCHANGED <<state, listed, deleted_count>> /\ Steps
  BY <1>1 DEF UidlLine, serverVars, Steps, TableInv, Typed, TypeOK
<1>3. tab \in Seq(Entries) /\ deleted_count \in Nat
  BY DEF TableInv, Typed, TypeOK
<1>4. CASE ListDone(listed, tab) /\ UNCHANGED tab
  BY <1>1, <1>2, <1>4, ListDoneTable DEF SameTable
<1>5. CASE /\ NextLine.kind = "item" /\ Found(listed, tab, NextLine.i)
           /\ tab' = [tab EXCEPT ![NextLine.i].uid = NextLine.v]
           /\ UNCHANGED <<call, toServer, sent>>
  <2>1. NextLine.v \in 0..N /\ NextLine.i \in 1..Len(tab)
    BY <1>1, <1>5, ReadsFacts, HeadFacts DEF Line, TableInv, Typed, Found
  <2>2. SameShape
    BY <1>2, <1>3, <1>5, <2>1, UidFacts DEF SameShape
  <2>3. QED
    BY <1>1, <1>2, <1>5, <2>2, WaitsTable DEF Waits
<1>6. CASE UNCHANGED <<call, tab, toServer, sent>>
  <2>1. SameShape
    BY <1>2, <1>3, <1>6 DEF SameShape
  <2>2. QED
    BY <1>1, <1>2, <1>6, <2>1, WaitsTable DEF Waits
<1>7. QED
  BY <1>4, <1>5, <1>6 DEF UidlLine

LEMMA TimeoutTable ==
  ASSUME TableInv, Timeout
  PROVE  TableInv'
<1>1. CASE call.op = "QUIT"
  BY <1>1, ClosesTable DEF Timeout, Closes
<1>2. CASE call.op # "QUIT"
  <2>1. /\ call # Idle /\ late' = TRUE /\ Cuts /\ SameTable
        /\ UNCHANGED <<state, stream, server, box, marks>>
    BY <1>2 DEF Timeout, tabVars, serverVars, SameTable, Cuts
  <2>2. Steps /\ SameShape
    BY <2>1 DEF Steps, SameShape, SameTable, TableInv, Typed, TypeOK, Structured
  <2>3. CASE call.op \in {"LIST", "UIDL"} /\ ListDone(listed, tab)
    BY <2>1, <2>2, <2>3, ListDoneTable
  <2>4. CASE Return
    BY <2>1, <2>2, <2>4, WaitsTable DEF Return, Waits
  <2>5. QED
    BY <1>2, <2>3, <2>4 DEF Timeout
<1>3. QED
  BY <1>1, <1>2

\* The server answers the oldest command under way; the entries of a listing
\* come in order, because nothing was deleted before it.
LEMMA ServeFacts ==
  ASSUME TableInv, Serve
  PROVE  LET c == toServer[1]
             of == sent - Len(toServer) + 1
         IN  /\ toServer # <<>> /\ server # "closed" /\ c \in Commands
             /\ c.op \in {"LIST", "UIDL"} => marks = {}
             /\ toServer' \in Seq(Commands) /\ Len(toServer') = Len(toServer) - 1
             /\ \A p \in 1..(Len(toServer) - 1) : toServer'[p] = toServer[p + 1]
             /\ Len(toServer) \in Nat \ {0}
             /\ \E o \in Outcomes(c, of) : /\ toClient' = toClient \o o.answer
                                         /\ server' = o.st /\ marks' = o.marks
             /\ UNCHANGED <<state, stream, listed, tab, deleted_count, call, box, sent, late>>
<1> DEFINE c == toServer[1]
           of == sent - Len(toServer) + 1
<1>1. toServer # <<>> /\ server # "closed" /\ toServer \in Seq(Commands)
  BY DEF Serve, TableInv, Typed
<1>2. /\ toServer' = Tail(toServer) /\ Head(toServer) = c
      /\ Tail(toServer) \in Seq(Commands) /\ Len(Tail(toServer)) = Len(toServer) - 1
      /\ Len(toServer) \in Nat \ {0} /\ c \in Commands
      /\ \A p \in 1..(Len(toServer) - 1) : Tail(toServer)[p] = toServer[p + 1]
  BY <1>1, TailFacts DEF Serve
<1>3. c.op \in {"LIST", "UIDL"} => marks = {}
  BY <1>1, <1>2 DEF TableInv, ListsFirst
<1>4. \E o \in Outcomes(c, of) : /\ toClient' = toClient \o o.answer
                               /\ server' = o.st /\ marks' = o.marks
  BY <1>2 DEF Serve
<1>5. UNCHANGED <<state, stream, listed, tab, deleted_count, call, box, sent, late>>
  BY DEF Serve, tabVars
<1>6. QED
  BY <1>1, <1>2, <1>3, <1>4, <1>5, Zenon

LEMMA ServeTable ==
  ASSUME TableInv, Serve
  PROVE  TableInv'
<1> DEFINE c == toServer[1]
           of == sent - Len(toServer) + 1
           n == Len(toServer)
<1>1. /\ toServer # <<>> /\ server # "closed" /\ c \in Commands
      /\ c.op \in {"LIST", "UIDL"} => marks = {}
      /\ toServer' \in Seq(Commands) /\ Len(toServer') = n - 1
      /\ \A p \in 1..(n - 1) : toServer'[p] = toServer[p + 1]
      /\ n \in Nat \ {0}
      /\ UNCHANGED <<state, stream, listed, tab, deleted_count, call, box, sent, late>>
  BY ServeFacts
<1>2. PICK o \in Outcomes(c, of) : /\ toClient' = toClient \o o.answer
                                /\ server' = o.st /\ marks' = o.marks
  BY ServeFacts
<1>3. of \in Int
  BY <1>1 DEF TableInv, Typed, TypeOK
<1> DEFINE a == o.answer
           s == toClient
<1> HIDE DEF c, of
<1>4. /\ a \in Seq(Lines) /\ Chained(a) /\ Len(a) > 0 /\ a[1].kind # "item"
      /\ \A p \in 1..Len(a) : a[p].kind = "item" => a[p].i > 0
  BY <1>1, <1>3, AnswerFacts DEF Answer, Whole, TableInv
<1>5. /\ o.st \in {"auth", "sasl", "trans", "closed"} /\ o.marks \subseteq 1..Len(box)
      /\ c.op # "DELE" /\ marks = {} => o.marks = {}
  BY <1>1, <1>3, MarksFacts DEF TableInv
<1> HIDE DEF a
<1>6. /\ toClient' \in Seq(Lines) /\ Len(toClient') = Len(s) + Len(a)
      /\ Len(s) \in Nat /\ Len(a) \in Nat
      /\ \A p \in 1..Len(s) : toClient'[p] = s[p]
      /\ \A p \in (Len(s) + 1)..(Len(s) + Len(a)) : toClient'[p] = a[p - Len(s)]
  <2>1. toClient' = toClient \o a /\ toClient \in Seq(Lines)
    BY <1>2 DEF a, TableInv, Typed
  <2>2. QED
    BY <1>4, <2>1, ConcatFacts
<1>7. Typed'
  BY <1>1, <1>2, <1>5, <1>6 DEF TableInv, Typed, TypeOK
<1>8. Structured'
  BY <1>1 DEF TableInv, Structured
<1>9. ListsFirst'
  <2>1. /\ ~listed => marks = {} /\ \A p \in 1..n : toServer[p].op # "DELE"
        /\ \A p \in 1..n : toServer[p].op \in {"LIST", "UIDL"} =>
             marks = {} /\ \A q \in 1..p : toServer[q].op # "DELE"
    BY <1>1 DEF TableInv, ListsFirst
  <2> HIDE DEF n
  <2>2. ~listed' => /\ marks' = {}
                    /\ \A p \in 1..Len(toServer') : toServer'[p].op # "DELE"
    BY <1>1, <1>2, <1>5, <2>1 DEF c
  <2>3. ASSUME NEW p \in 1..Len(toServer'), toServer'[p].op \in {"LIST", "UIDL"}
        PROVE  marks' = {} /\ \A q \in 1..p : toServer'[q].op # "DELE"
    <3>1. /\ p + 1 \in 1..n /\ toServer[p + 1].op \in {"LIST", "UIDL"}
          /\ \A q \in 1..p : q + 1 \in 1..(p + 1) /\ toServer'[q] = toServer[q + 1]
      BY <1>1, <2>3
    <3>2. marks = {} /\ \A q \in 1..(p + 1) : toServer[q].op # "DELE"
      BY <2>1, <3>1
    <3>3. 1 \in 1..(p + 1)
      BY <3>1, <1>1
    <3>4. marks' = {}
      BY <1>2, <1>5, <3>2, <3>3 DEF c
    <3>5. QED
      BY <3>1, <3>2, <3>4
  <2>4. QED
    BY <2>2, <2>3 DEF ListsFirst
<1>10. Dense'
  <2>1. \A p \in 1..Len(toClient') : toClient'[p].kind = "item" => toClient'[p].i > 0
    <3>1. \A p \in 1..Len(s) : s[p].kind = "item" => s[p].i > 0
      BY DEF TableInv, Dense
    <3> HIDE DEF s
    <3>2. QED
      BY <1>4, <1>6, <3>1, SMTT(60)
  <2>2. Chained(toClient)'
    <3>1. Chained(s)
      BY DEF TableInv, Dense
    <3> HIDE DEF s
    <3> SUFFICES ASSUME NEW p \in 1..Len(toClient'), toClient'[p].kind = "item",
                        toClient'[p].i > 1, p > 1
                 PROVE  /\ toClient'[p - 1].kind = "item"
                        /\ toClient'[p - 1].i = toClient'[p].i - 1
      BY DEF Chained
    <3>2. CASE p \in 1..Len(s)
      BY <1>6, <3>1, <3>2 DEF Chained
    <3>3. CASE p = Len(s) + 1
      BY <1>4, <1>6, <3>3
    <3>4. CASE p \in (Len(s) + 2)..(Len(s) + Len(a))
      <4>1. /\ p - Len(s) \in 1..Len(a) /\ p - Len(s) > 1 /\ toClient'[p] = a[p - Len(s)]
            /\ toClient'[p - 1] = a[p - Len(s) - 1]
        BY <1>6, <3>4, SMTT(60)
      <4>2. QED
        BY <1>4, <4>1 DEF Chained
    <3>5. QED
      BY <1>6, <3>2, <3>3, <3>4
  <2>3. call.at = "list" /\ toClient' # <<>> /\ toClient'[1].kind = "item" =>
          Len(call.tab) >= toClient'[1].i - 1
    <3>1. CASE s = <<>>
      BY <1>4, <1>6, <3>1
    <3>2. CASE s # <<>>
      <4>1. toClient'[1] = s[1]
        BY <1>6, <3>2
      <4>2. QED
        BY <3>2, <4>1 DEF TableInv, Dense
    <3>3. QED
      BY <3>1, <3>2
  <2>4. QED
    BY <1>1, <2>1, <2>2, <2>3 DEF TableInv, Dense
<1>11. QED
  BY <1>7, <1>8, <1>9, <1>10 DEF TableInv

LEMMA DropTable ==
  ASSUME TableInv, Drop \/ DropRest
  PROVE  TableInv'
<1>1. /\ UNCHANGED <<state, stream, listed, tab, deleted_count, call, toClient, box, marks, sent, late>>
      /\ server' = "closed" /\ toServer' = <<>> /\ (stream \/ toServer # <<>>)
  BY DEF Drop, DropRest, tabVars, serverVars
<1>2. Typed'
  <2>1. << >> \in Seq(Commands)
    OBVIOUS
  <2>2. TypeOK'
    BY <1>1 DEF TableInv, Typed, TypeOK
  <2>3. QED
    BY <1>1, <2>1, <2>2 DEF TableInv, Typed
<1>3. Structured'
  BY <1>1 DEF TableInv, Structured
<1>4. ListsFirst'
  BY <1>1, FirstKept
<1>5. Dense'
  BY <1>1 DEF TableInv, Dense, Chained
<1>6. QED
  BY <1>2, <1>3, <1>4, <1>5 DEF TableInv

LEMMA TableInit == Init => TableInv
<1> SUFFICES ASSUME Init PROVE TableInv
  OBVIOUS
<1>1. /\ << >> \in Seq(Entries) /\ << >> \in Seq(Commands) /\ << >> \in Seq(Lines)
      /\ << >> \in Seq(Msgs) /\ Len(<<>>) = 0
  OBVIOUS
<1>2. /\ call = Idle /\ call \in Calls /\ call.tab = <<>> /\ Len(call.tab) <= N /\ N \in Nat
      /\ call.op = "none" /\ call.at = "none" /\ call.then = None
  BY <1>1, IdleFacts DEF Init
<1>3. Typed
  <2>1. TypeOK
    BY <1>1, <1>2 DEF Init, TypeOK, Ops
  <2>2. QED
    BY <1>1, <1>2, <2>1 DEF Init, Typed
<1>4. Structured
  BY <1>2 DEF Init, Structured, MessageOps
<1>5. ListsFirst /\ Dense
  BY <1>2 DEF Init, ListsFirst, Dense, Chained
<1>6. QED
  BY <1>3, <1>4, <1>5 DEF TableInv

LEMMA QuitFacts ==
  ASSUME TableInv, Quit
  PROVE  Closes \/ Issues("QUIT", 0, None)
<1>1. "QUIT" \in Ops /\ None \in Commands /\ 0 \in 0..N
  BY IdleFacts DEF Ops
<1>2. QED
  BY <1>1 DEF Quit, Close, Closes, Command, Issues, MessageOps, Ops, countVars

LEMMA TableStep ==
  ASSUME TableInv, [Next]_vars
  PROVE  TableInv'
<1>1. CASE ClientStarts
  BY <1>1, StartsIssue, IssuesTable
<1>2. CASE Connect
  BY <1>2, ConnectTable
<1>3. CASE Quit
  <2>1. "QUIT" \in Ops /\ None \in Commands /\ 0 \in 0..N
    BY IdleFacts DEF Ops
  <2>2. QED
    BY <1>3, <2>1, QuitFacts, ClosesTable, IssuesTable
<1>4. CASE StatusLine
  BY <1>4, StatusLineTable
<1>5. CASE QuitReply
  BY <1>5, ClosesTable DEF QuitReply, Close, Closes
<1>6. CASE AuthLine
  BY <1>6, AuthLineTable
<1>7. CASE ContentLine
  BY <1>7, ContentLineTable
<1>8. CASE ListLine
  BY <1>8, ListLineTable
<1>9. CASE UidlLine
  BY <1>9, UidlLineTable
<1>10. CASE Timeout
  BY <1>10, TimeoutTable
<1>11. CASE Serve
  BY <1>11, ServeTable
<1>12. CASE Drop \/ DropRest
  BY <1>12, DropTable
<1>13. CASE UNCHANGED vars
  <2>1. UNCHANGED <<state, stream, listed, tab, deleted_count, call, toServer, toClient,
                    server, box, marks, sent, late>>
    BY <1>13 DEF vars, tabVars, serverVars
  <2>2. Typed' /\ Structured'
    BY <2>1 DEF TableInv, Typed, TypeOK, Structured
  <2>3. ListsFirst' /\ Dense'
    BY <2>1 DEF TableInv, ListsFirst, Dense, Chained
  <2>4. QED
    BY <2>2, <2>3 DEF TableInv
<1>14. QED
  BY <1>1, <1>2, <1>3, <1>4, <1>5, <1>6, <1>7, <1>8, <1>9, <1>10, <1>11, <1>12, <1>13
     DEF Next, ClientStarts

\* However the reads time out and wherever the server drops the connection,
\* read_list leaves no NULL entry in pop3_msg_tab, so that the loop of
\* mailpop3_msg_info_tab_reset may look into every one.
THEOREM TableIsDense == Spec => []TableDense
<1>1. Spec => []TableInv
  BY TableInit, TableStep, PTL DEF Spec
<1>2. TableInv => TableDense
  BY DEF TableInv, Typed, TypeOK, Dense, TableDense
<1>3. QED
  BY <1>1, <1>2, PTL

-----------------------------------------------------------------------------
\* The client and the server stay in step.

LEMMA BodyTail ==
  ASSUME NEW s \in Seq(Lines), Body(s)
  PROVE  IF s[1].kind = "end" THEN Tail(s) = <<>> ELSE Body(Tail(s))
<1> DEFINE u == Tail(s)
<1>1. s # <<>> /\ s[Len(s)].kind = "end" /\ \A p \in 1..(Len(s) - 1) : s[p].kind # "end"
  BY DEF Body
<1>2. /\ u \in Seq(Lines) /\ Len(u) = Len(s) - 1 /\ Len(s) \in Nat \ {0}
      /\ \A p \in 1..(Len(s) - 1) : u[p] = s[p + 1]
  BY <1>1, TailFacts
<1> HIDE DEF u
<1>3. CASE s[1].kind = "end"
  <2>1. Len(s) = 1
    BY <1>1, <1>2, <1>3
  <2>2. u = <<>>
    BY <1>2, <2>1
  <2>3. QED
    BY <1>3, <2>2 DEF u
<1>4. CASE s[1].kind # "end"
  <2>1. Len(s) > 1
    BY <1>1, <1>2, <1>4
  <2>2. u # <<>> /\ u[Len(u)] = s[Len(s)] /\ \A p \in 1..(Len(u) - 1) : u[p] = s[p + 1]
    BY <1>2, <2>1
  <2>3. \A p \in 1..(Len(u) - 1) : p + 1 \in 1..(Len(s) - 1)
    BY <1>2
  <2>4. Body(u)
    BY <1>1, <2>2, <2>3 DEF Body
  <2>5. QED
    BY <1>4, <2>4 DEF u
<1>5. QED
  BY <1>3, <1>4

\* What a line read by a call in step is.
LEMMA ReadsInStep ==
  ASSUME PhaseInv, ~late, NEW at, Reads(at), at # "none"
  PROVE  /\ toServer = <<>> /\ \A p \in 1..Len(toClient') : toClient'[p].of = sent
         /\ call.at = "status" =>
              /\ \/ toClient # <<>> /\ NextLine = toClient[1] /\ NextLine.kind \in {"ok", "err", "cont"}
                 \/ toClient = <<>> /\ NextLine.kind = "empty" /\ server = "closed"
              /\ NextLine.kind = "cont" => call.op = "AUTH"
              /\ IF NextLine.kind = "ok" /\ call.op \in LongOps
                 THEN Body(toClient)' ELSE toClient' = <<>>
         /\ call.at # "status" =>
              /\ toClient # <<>> /\ NextLine = toClient[1] /\ NextLine \in Lines
              /\ IF NextLine.kind = "end" THEN toClient' = <<>> ELSE Body(toClient)'
<1>1. call.at = at /\ (toClient # <<>> \/ Eof) /\ call \in Calls /\ toClient \in Seq(Lines)
  BY DEF Reads, PhaseInv, TableInv, Typed
<1>2. \/ toClient = <<>> /\ toClient' = <<>> /\ NextLine = Line(sent, "empty", 0, 0)
      \/ /\ toClient # <<>> /\ NextLine \in Lines /\ NextLine = toClient[1]
         /\ toClient' = Tail(toClient) /\ Len(toClient') = Len(toClient) - 1
         /\ \A p \in 1..(Len(toClient) - 1) : toClient'[p] = toClient[p + 1]
         /\ toClient' \in Seq(Lines)
  BY ReadsFacts DEF PhaseInv, Reads
<1>3. \A p \in 1..Len(toClient') : toClient'[p].of = sent
  <2>1. \A p \in 1..Len(toClient) : toClient[p].of = sent
    BY DEF PhaseInv, Phase
  <2>2. Len(toClient) \in Nat
    BY <1>1
  <2>3. QED
    BY <1>2, <2>1, <2>2
<1>4. CASE call.at = "status"
  <2>1. ~Asked
    BY <1>1 DEF Asked, Eof
  <2>2. CASE toServer = <<>> /\ Whole(toClient, call.op)
    <3>1. /\ toClient # <<>> /\ NextLine = toClient[1] /\ toClient' = Tail(toClient)
          /\ toClient[1].kind \in {"ok", "err", "cont"}
          /\ toClient[1].kind = "cont" => call.op = "AUTH"
      BY <1>2, <2>2 DEF Whole
    <3>2. CASE NextLine.kind = "ok" /\ call.op \in LongOps
      BY <2>2, <3>1, <3>2, <1>3, <1>4 DEF Whole
    <3>3. CASE ~ (NextLine.kind = "ok" /\ call.op \in LongOps)
      <4>1. Len(toClient) = 1
        BY <2>2, <3>1, <3>3 DEF Whole
      <4>2. toClient' = <<>>
        BY <1>2, <3>1, <4>1
      <4>3. QED
        BY <2>2, <3>1, <3>3, <4>2, <1>3, <1>4
    <3>4. QED
      BY <3>2, <3>3
  <2>3. CASE Quiet /\ server = "closed"
    BY <1>2, <1>3, <1>4, <2>3 DEF Quiet, Line
  <2>4. QED
    BY <1>4, <2>1, <2>2, <2>3 DEF PhaseInv, Phase
<1>5. CASE call.at # "status"
  <2>1. call.at \in {"list", "uidl", "lines"}
    BY <1>1, <1>5 DEF Calls
  <2>2. toServer = <<>> /\ Body(toClient)
    BY <2>1 DEF PhaseInv, Phase
  <2>3. toClient # <<>>
    BY <2>2 DEF Body
  <2>4. IF NextLine.kind = "end" THEN toClient' = <<>> ELSE Body(toClient)'
    BY <1>1, <1>2, <2>2, <2>3, BodyTail
  <2>5. QED
    BY <1>2, <1>3, <1>5, <2>2, <2>3, <2>4
<1>6. QED
  BY <1>4, <1>5

\* A call that ends, or sends its next command, when all is read.
LEMMA RestsInStep ==
  ASSUME TableInv, TableInv', toServer = <<>>, toClient' = <<>>,
         \/ call' = Idle /\ UNCHANGED <<toServer, sent>>
         \/ \E op, m, then : Sends(op, m, then)
  PROVE  Phase'
<1>1. CASE call' = Idle /\ UNCHANGED <<toServer, sent>>
  BY <1>1, IdleFacts DEF Phase, Quiet
<1>2. ASSUME NEW op, NEW m, NEW then, Sends(op, m, then)
      PROVE  Phase'
  <2> DEFINE c == [op |-> op, msg |-> m]
  <2>1. toServer' = <<c>>
    BY <1>2 DEF Sends
  <2>2. Len(toServer') = 1 /\ toServer'[1] = c
    BY <2>1
  <2>3. call'.op = op /\ call'.msg = m /\ call'.at = "status"
    BY <1>2 DEF Sends, Waiting
  <2>4. c.op = op /\ c.msg = m
    OBVIOUS
  <2> HIDE DEF c
  <2>5. Asked'
    BY <2>2, <2>3, <2>4 DEF Asked
  <2>6. QED
    BY <2>3, <2>5, IdleFacts DEF Phase
<1>3. QED
  BY <1>1, <1>2

\* A call that reads on.
LEMMA ReadsOnInStep ==
  ASSUME TableInv', toServer = <<>>, Body(toClient)', UNCHANGED <<toServer, sent>>,
         \A p \in 1..Len(toClient') : toClient'[p].of = sent,
         call'.at \in {"list", "uidl", "lines"}
  PROVE  Phase'
  BY IdleFacts DEF Phase

LEMMA ListDoneInStep ==
  ASSUME TableInv, TableInv', toServer = <<>>, toClient' = <<>>, NEW t, NEW h, ListDone(h, t)
  PROVE  Phase'
  BY RestsInStep DEF ListDone, Return

LEMMA StatusLineInStep ==
  ASSUME PhaseInv, TableInv', ~late, StatusLine
  PROVE  Phase'
<1>1. /\ call.at = "status" /\ Reads("status") /\ TableInv /\ call \in Calls /\ call.op # "AUTH"
  BY DEF StatusLine, Reads, PhaseInv, TableInv, Typed
<1>2. PICK r \in parse_response(NextLine) :
        CASE call.op = "DELE"                     -> DeleReply(r)
          [] call.op = "RSET"                     -> RsetReply(r)
          [] call.op = "STLS"                     -> StlsReply(r)
          [] call.op \in {"RETR", "TOP", "CAPA"}  -> LongReply(r)
          [] call.op \in {"LIST", "UIDL"}         -> ListReply(call.op, r)
          [] OTHER                                -> ShortReply(call.op, r)
  BY DEF StatusLine
<1>3. /\ toServer = <<>> /\ \A p \in 1..Len(toClient') : toClient'[p].of = sent
      /\ NextLine.kind \in {"ok", "err", "empty"}
      /\ IF NextLine.kind = "ok" /\ call.op \in LongOps THEN Body(toClient)' ELSE toClient' = <<>>
  BY <1>1, ReadsInStep
<1>4. r = "ok" <=> NextLine.kind = "ok"
  BY <1>2, <1>3 DEF parse_response
<1>5. CASE Return
  <2>1. toClient' = <<>>
    BY <1>2, <1>3, <1>4, <1>5, IdleFacts DEF Return, LongReply, ListReply, LongOps, Calls
  <2>2. QED
    BY <1>1, <1>3, <1>5, <2>1, RestsInStep DEF Return
<1>6. CASE ~Return
  <2>1. CASE call.op \in {"RETR", "TOP", "CAPA"} /\ LongReply(r)
    <3>1. r = "ok" /\ call' = [call EXCEPT !.at = "lines"] /\ UNCHANGED <<toServer, sent>>
      BY <1>6, <2>1 DEF LongReply
    <3>2. call'.at = "lines"
      BY <1>1, <3>1 DEF Calls
    <3>3. QED
      BY <1>3, <1>4, <2>1, <3>1, <3>2, ReadsOnInStep DEF LongOps
  <2>2. CASE call.op \in {"LIST", "UIDL"} /\ ListReply(call.op, r)
    <3>1. CASE r = "ok"
      <4>1. /\ call' = [call EXCEPT !.at = IF call.op = "LIST" THEN "list" ELSE "uidl"]
            /\ UNCHANGED <<toServer, sent>>
        BY <2>2, <3>1 DEF ListReply
      <4>2. call'.at \in {"list", "uidl"}
        BY <1>1, <4>1 DEF Calls
      <4>3. QED
        BY <1>3, <1>4, <2>2, <3>1, <4>1, <4>2, ReadsOnInStep DEF LongOps
    <3>2. CASE r # "ok"
      BY <1>1, <1>3, <1>4, <2>2, <3>2, ListDoneInStep DEF ListReply
    <3>3. QED
      BY <3>1, <3>2
  <2>3. QED
    BY <1>2, <1>6, <2>1, <2>2 DEF DeleReply, RsetReply, StlsReply, ShortReply
<1>7. QED
  BY <1>5, <1>6

LEMMA AuthLineInStep ==
  ASSUME PhaseInv, TableInv', ~late, AuthLine
  PROVE  Phase'
<1>1. call.at = "status" /\ Reads("status") /\ TableInv /\ call.op = "AUTH"
  BY DEF AuthLine, Reads, PhaseInv
<1>2. toServer = <<>> /\ toClient' = <<>>
  BY <1>1, ReadsInStep DEF LongOps
<1>3. CASE Return
  BY <1>1, <1>2, <1>3, RestsInStep DEF Return
<1>4. CASE /\ toServer' = Append(toServer, [op |-> "RESPONSE", msg |-> 0])
           /\ UNCHANGED <<state, call, late>>
  <2>1. Len(toServer') = 1 /\ toServer'[1].op = "RESPONSE"
    BY <1>2, <1>4
  <2>2. Asked'
    BY <1>1, <1>2, <1>4, <2>1 DEF Asked
  <2>3. QED
    BY <1>1, <1>2, <1>4, <2>2, IdleFacts DEF Phase
<1>5. QED
  BY <1>3, <1>4 DEF AuthLine

LEMMA ContentInStep ==
  ASSUME PhaseInv, TableInv', ~late, ContentLine \/ ListLine \/ UidlLine
  PROVE  Phase'
<1>1. /\ call.at \in {"lines", "list", "uidl"} /\ Reads(call.at) /\ TableInv /\ call \in Calls
  BY DEF ContentLine, ListLine, UidlLine, Reads, PhaseInv, TableInv, Typed
<1>2. /\ toServer = <<>> /\ \A p \in 1..Len(toClient') : toClient'[p].of = sent
      /\ IF NextLine.kind = "end" THEN toClient' = <<>> ELSE Body(toClient)'
  BY <1>1, ReadsInStep
<1>3. CASE NextLine.kind = "end"
  <2>1. CASE ContentLine
    BY <1>1, <1>2, <1>3, <2>1, RestsInStep DEF ContentLine, Return
  <2>2. CASE ListLine
    BY <1>1, <1>2, <1>3, <2>2, RestsInStep DEF ListLine
  <2>3. CASE UidlLine
    BY <1>1, <1>2, <1>3, <2>3, ListDoneInStep DEF UidlLine
  <2>4. QED
    BY <2>1, <2>2, <2>3
<1>4. CASE NextLine.kind # "end"
  <2>1. UNCHANGED <<toServer, sent>>
    BY <1>4 DEF ContentLine, ListLine, UidlLine
  <2>2. call' = call \/ \E t : call' = [call EXCEPT !.tab = t]
    BY <1>4 DEF ContentLine, ListLine, UidlLine
  <2>3. call'.at = call.at
    BY <1>1, <2>2 DEF Calls
  <2>4. QED
    BY <1>1, <1>2, <1>4, <2>1, <2>3, ReadsOnInStep
<1>5. QED
  BY <1>3, <1>4

\* Only the call's own command can be under way, so that the answer is its.
LEMMA ServeInStep ==
  ASSUME PhaseInv, TableInv', ~late, Serve
  PROVE  /\ Phase' /\ toClient = <<>> /\ toServer' = <<>> /\ Len(toServer) = 1 /\ Asked
         /\ call.at = "status"
         /\ \E o \in Outcomes(toServer[1], sent) :
              /\ toClient' = o.answer /\ server' = o.st /\ marks' = o.marks
              /\ Answer(o.answer, sent, toServer[1].op)
<1> DEFINE c == toServer[1]
           of == sent - Len(toServer) + 1
           n == Len(toServer)
<1>1. /\ toServer # <<>> /\ server # "closed" /\ c \in Commands
      /\ c.op \in {"LIST", "UIDL"} => marks = {}
      /\ toServer' \in Seq(Commands) /\ Len(toServer') = n - 1 /\ n \in Nat \ {0}
      /\ UNCHANGED <<state, stream, listed, tab, deleted_count, call, box, sent, late>>
  BY ServeFacts DEF PhaseInv
<1>2. PICK o \in Outcomes(c, of) : /\ toClient' = toClient \o o.answer
                                /\ server' = o.st /\ marks' = o.marks
  BY ServeFacts DEF PhaseInv
<1>3. Asked /\ call.at = "status"
  <2>1. call # Idle /\ call \in Calls
    BY <1>1 DEF PhaseInv, Phase, Quiet, TableInv, Typed
  <2>2. call.at \in {"status", "list", "uidl", "lines"}
    BY <2>1 DEF PhaseInv, TableInv, Structured, Calls
  <2>3. QED
    BY <1>1, <2>2 DEF PhaseInv, Phase, Quiet
<1>4. n = 1 /\ toClient = <<>>
  BY <1>3 DEF Asked
<1>5. of = sent /\ sent \in Nat /\ Typed
  BY <1>4 DEF PhaseInv, TableInv, Typed, TypeOK
<1> HIDE DEF c, of, n
<1>6. Answer(o.answer, of, c.op)
  BY <1>1, <1>5, AnswerFacts
<1> DEFINE a == o.answer
<1>7. toClient' = a
  <2>1. a \in Seq(Lines)
    BY <1>6 DEF Answer
  <2> HIDE DEF a
  <2>2. toClient' = <<>> \o a
    BY <1>2, <1>4 DEF a
  <2>3. QED
    BY <2>1, <2>2
<1> HIDE DEF a
<1>8. toServer' = <<>>
  BY <1>1, <1>4
<1>9. (IF c.op = "RESPONSE" THEN "AUTH" ELSE c.op) = call.op
  <2>1. call.op # "RESPONSE"
    BY DEF PhaseInv, TableInv, Typed, Calls, Ops
  <2>2. QED
    BY <1>3, <2>1 DEF Asked, c
<1>10. Whole(a, call.op) /\ \A p \in 1..Len(a) : a[p].of = sent
  BY <1>5, <1>6, <1>9 DEF Answer, a
<1>11. Phase'
  BY <1>1, <1>3, <1>7, <1>8, <1>10, IdleFacts DEF Phase
<1>12. QED
  BY <1>2, <1>3, <1>4, <1>5, <1>6, <1>7, <1>8, <1>11 DEF a, c, n

LEMMA IssuesInStep ==
  ASSUME PhaseInv, TableInv', ~late, NEW op \in Ops, NEW m \in 0..N, NEW then \in Commands,
         Issues(op, m, then)
  PROVE  Phase'
<1>1. Quiet /\ toClient' = toClient /\ TableInv
  BY DEF PhaseInv, Phase, Issues
<1>2. QED
  BY <1>1, RestsInStep DEF Quiet, Issues

LEMMA PhaseStep ==
  ASSUME PhaseInv, [Next]_vars
  PROVE  PhaseInv'
<1>1. TableInv' /\ TableInv
  BY TableStep DEF PhaseInv
<1>2. CASE Connect
  <2>1. PICK kind \in {"ok", "err"} : toClient' = << Line(1, kind, 0, 0) >>
    BY <1>2 DEF Connect
  <2>2. /\ Len(toClient') = 1 /\ toClient'[1].kind = kind /\ toClient'[1].of = 1
    BY <2>1 DEF Line
  <2>3. /\ call'.op = "CONNECT" /\ call'.at = "status" /\ sent' = 1 /\ toServer' = <<>>
    BY <1>2 DEF Connect, Waiting
  <2>4. Whole(toClient', call'.op)
    BY <2>1, <2>2, <2>3 DEF Whole, LongOps
  <2>5. QED
    BY <1>1, <2>2, <2>3, <2>4, IdleFacts DEF PhaseInv, Phase
<1>3. ASSUME Closes PROVE PhaseInv'
  BY <1>1, <1>3, IdleFacts DEF Closes, PhaseInv, Phase, Quiet
<1>4. CASE ClientStarts
  <2>1. PICK op \in Ops, m \in 0..N, then \in Commands : Issues(op, m, then)
    BY <1>1, <1>4, StartsIssue
  <2>2. late' = late
    BY <2>1 DEF Issues
  <2>3. CASE ~late
    BY <1>1, <2>1, <2>3, IssuesInStep DEF PhaseInv
  <2>4. QED
    BY <1>1, <2>2, <2>3 DEF PhaseInv, Phase
<1>5. CASE Quit
  <2>1. "QUIT" \in Ops /\ None \in Commands /\ 0 \in 0..N
    BY IdleFacts DEF Ops
  <2>2. CASE Issues("QUIT", 0, None)
    <3>1. late' = late
      BY <2>2 DEF Issues
    <3>2. CASE ~late
      BY <1>1, <2>1, <2>2, <3>2, IssuesInStep DEF PhaseInv
    <3>3. QED
      BY <1>1, <3>1, <3>2 DEF PhaseInv, Phase
  <2>3. QED
    BY <1>1, <1>3, <1>5, <2>2, QuitFacts
<1>6. CASE StatusLine
  <2>1. late' = late
    BY <1>6 DEF StatusLine
  <2>2. QED
    BY <1>1, <1>6, <2>1, StatusLineInStep DEF PhaseInv, Phase
<1>7. CASE QuitReply
  BY <1>3, <1>7 DEF QuitReply, Close, Closes
<1>8. CASE AuthLine
  <2>1. late' = late \/ late' = TRUE
    BY <1>8 DEF AuthLine
  <2>2. QED
    BY <1>1, <1>8, <2>1, AuthLineInStep DEF PhaseInv, Phase
<1>9. CASE ContentLine \/ ListLine \/ UidlLine
  <2>1. late' = late
    BY <1>9 DEF ContentLine, ListLine, UidlLine
  <2>2. QED
    BY <1>1, <1>9, <2>1, ContentInStep DEF PhaseInv, Phase
<1>10. CASE Timeout
  <2>1. Closes \/ late' = TRUE
    BY <1>10 DEF Timeout, Closes
  <2>2. QED
    BY <1>1, <1>3, <2>1 DEF PhaseInv, Phase
<1>11. CASE Serve
  <2>1. late' = late
    BY <1>11 DEF Serve
  <2>2. QED
    BY <1>1, <1>11, <2>1, ServeInStep DEF PhaseInv, Phase
<1>12. CASE Drop \/ DropRest
  <2>1. UNCHANGED <<call, toClient, sent, late>> /\ server' = "closed" /\ toServer' = <<>>
    BY <1>12 DEF Drop, DropRest, serverVars
  <2>2. QED
    BY <1>1, <2>1 DEF PhaseInv, Phase, Asked, Quiet
<1>13. CASE UNCHANGED vars
  <2>1. UNCHANGED <<call, toServer, toClient, server, sent, late>>
    BY <1>13 DEF vars, serverVars
  <2>2. QED
    BY <1>1, <2>1 DEF PhaseInv, Phase, Asked, Quiet
<1>14. QED
  BY <1>2, <1>4, <1>5, <1>6, <1>7, <1>8, <1>9, <1>10, <1>11, <1>12, <1>13
     DEF Next, ClientStarts

LEMMA PhaseAlways == Spec => []PhaseInv
<1>1. Init => PhaseInv
  <2> SUFFICES ASSUME Init PROVE PhaseInv
    OBVIOUS
  <2>1. TableInv
    BY TableInit
  <2>2. Phase
    BY IdleFacts DEF Init, Phase, Quiet
  <2>3. QED
    BY <2>1, <2>2 DEF PhaseInv
<1>2. QED
  BY <1>1, PhaseStep, PTL DEF Spec

\* Until a read times out or a SASL exchange is given up, every call of
\* mailpop3.c reads the answer to its own command, to the last line: POP3
\* answers carry no tag, so nothing else would tell one from another.
THEOREM CallsStayInStep == Spec => []InStep
<1>1. PhaseInv => InStep
  <2> SUFFICES ASSUME PhaseInv, ~late PROVE InStep
    BY DEF InStep
  <2>1. (call.at = "status" /\ toClient # <<>>) => Head(toClient).of = sent
    <3> SUFFICES ASSUME toClient # <<>> PROVE Head(toClient).of = sent
      OBVIOUS
    <3>1. Head(toClient) = toClient[1] /\ Len(toClient) \in Nat \ {0}
      BY TailFacts DEF PhaseInv, TableInv, Typed
    <3>2. QED
      BY <3>1 DEF PhaseInv, Phase
  <2>2. QED
    BY <2>1 DEF PhaseInv, Phase, Quiet, InStep
<1>2. QED
  BY <1>1, PhaseAlways, PTL

-----------------------------------------------------------------------------
\* The client and the server agree.

Agree == LoginAgrees /\ TableAgrees /\ ListingAgrees

\* All is read: what is left to agree on.
LEMMA RestsAgree ==
  ASSUME server # "trans" => marks = {}, UNCHANGED <<server, marks>>, toClient' = <<>>,
         (state' = "TRANSACTION") = (server = "trans"), server # "sasl",
         Settled', call'.at # "list"
  PROVE  Agree'
<1>1. /\ \A op : ~ Accepted(op)' /\ ~ LoggingIn'
  BY DEF Accepted, LoggingIn
<1>2. LoginAgrees'
  BY <1>1 DEF LoginAgrees
<1>3. TableAgrees'
  BY <1>1 DEF TableAgrees, MarksAgree, Settled
<1>4. ListingAgrees'
  BY <1>1 DEF ListingAgrees
<1>5. QED
  BY <1>2, <1>3, <1>4 DEF Agree

\* What was agreed on when a call other than mailpop3_auth reads.
LEMMA AgreedBefore ==
  ASSUME SessionInv, ~late, server # "closed", call.op # "AUTH", NEW at, Reads(at), at # "none"
  PROVE  /\ server # "sasl" /\ (server # "trans" => marks = {})
         /\ toClient # <<>> /\ NextLine = toClient[1]
         /\ IF call.op \in {"PASS", "APOP"} /\ call.at = "status" /\ NextLine.kind = "ok"
            THEN server = "trans" ELSE (state = "TRANSACTION") = (server = "trans")
         /\ call.op \notin {"DELE", "RSET"} => Settled
<1>1. Agree /\ PhaseInv
  BY DEF SessionInv, Agreement, Agree
<1>2. toClient # <<>> /\ NextLine = toClient[1]
  BY <1>1, ReadsInStep
<1>3. server # "sasl" /\ (server # "trans" => marks = {})
  BY <1>1 DEF Agree, LoginAgrees
<1>4. LoggingIn <=> call.op \in {"PASS", "APOP"} /\ call.at = "status" /\ NextLine.kind = "ok"
  BY <1>2 DEF LoggingIn, Accepted
<1>5. call.op \notin {"DELE", "RSET"} => Settled
  BY <1>1 DEF Agree, TableAgrees, MarksAgree, Settled, Accepted
<1>6. QED
  BY <1>1, <1>2, <1>3, <1>4, <1>5 DEF Agree, LoginAgrees

LEMMA ListDoneAgrees ==
  ASSUME SessionInv, ~late, server # "closed", call.op \in {"LIST", "UIDL"}, ListDone(listed, tab),
         UNCHANGED <<state, server, box, marks>>, SameTable, toClient' = <<>>,
         NEW at, Reads(at), at # "none"
  PROVE  Agree'
<1>1. Settled /\ server # "sasl" /\ (server # "trans" => marks = {})
      /\ (state = "TRANSACTION") = (server = "trans")
  BY AgreedBefore
<1>2. Settled'
  BY <1>1 DEF Settled, Marked, SameTable
<1>3. call'.at # "list"
  BY IdleFacts DEF ListDone, Return, Sends, Waiting
<1>4. QED
  BY <1>1, <1>2, <1>3, RestsAgree

LEMMA DeleAgrees ==
  ASSUME SessionInv, ~late, server # "closed", StatusLine, call.op = "DELE", NEW r, DeleReply(r),
         r = "ok" <=> NextLine.kind = "ok", toClient' = <<>>
  PROVE  Agree'
<1>1. /\ Reads("status") /\ call.at = "status" /\ UNCHANGED <<box, marks, state, listed, server>>
      /\ call' = Idle /\ TableInv /\ Agree
  BY DEF StatusLine, Reads, DeleReply, Return, SessionInv, PhaseInv, Agreement, Agree
<1>2. /\ server # "sasl" /\ (server # "trans" => marks = {})
      /\ toClient # <<>> /\ NextLine = toClient[1] /\ (state = "TRANSACTION") = (server = "trans")
  BY <1>1, AgreedBefore
<1>3. listed /\ tab \in Seq(Entries) /\ deleted_count \in Nat
  BY <1>1 DEF TableInv, Typed, TypeOK, Structured, MessageOps
<1>4. /\ Len(tab) = Len(box) /\ deleted_count = Cardinality(Marked)
      /\ \A i \in 1..Len(tab) : tab[i].uid \in {0, box[i]}
  BY <1>1, <1>3 DEF Agree, TableAgrees
<1>5. IsFiniteSet(Marked) /\ Marked \subseteq 1..Len(tab)
  <2>1. Len(tab) \in Nat
    BY <1>3
  <2>2. IsFiniteSet(1..Len(tab))
    BY <2>1, FS_Interval
  <2>3. Marked \subseteq 1..Len(tab)
    BY DEF Marked
  <2>4. QED
    BY <2>2, <2>3, FS_Subset
<1>6. CASE r = "ok"
  <2>1. Accepted("DELE")
    BY <1>1, <1>2, <1>6 DEF Accepted
  <2>2. call.msg \notin Marked /\ marks = Marked \cup {call.msg}
    BY <1>1, <1>3, <2>1 DEF Agree, TableAgrees, MarksAgree
  <2>3. /\ Len(tab') = Len(tab) /\ call.msg \in 1..Len(tab)
        /\ \A k \in 1..Len(tab) : tab'[k].uid = tab[k].uid
        /\ \A k \in 1..Len(tab) : tab'[k].deleted = IF k = call.msg THEN TRUE ELSE tab[k].deleted
    BY <1>1, <1>6, MarkFacts
  <2>4. Marked' = Marked \cup {call.msg}
    BY <2>3 DEF Marked
  <2>5. Cardinality(Marked \cup {call.msg}) = Cardinality(Marked) + 1
    BY <1>5, <2>2, FS_AddElement
  <2>6. deleted_count' = deleted_count + 1
    BY <1>6 DEF DeleReply
  <2>7. Settled'
    BY <1>1, <1>4, <2>2, <2>3, <2>4, <2>5, <2>6 DEF Settled
  <2>8. QED
    BY <1>1, <1>2, <2>7, IdleFacts, RestsAgree
<1>7. CASE r # "ok"
  <2>1. ~Accepted("DELE")
    BY <1>2, <1>7 DEF Accepted
  <2>2. Settled /\ UNCHANGED <<tab, deleted_count>>
    BY <1>1, <1>7, <2>1 DEF Agree, TableAgrees, MarksAgree, Settled, DeleReply
  <2>3. Settled'
    BY <1>1, <2>2 DEF Settled, Marked
  <2>4. QED
    BY <1>1, <1>2, <2>3, IdleFacts, RestsAgree
<1>8. QED
  BY <1>6, <1>7

LEMMA RsetAgrees ==
  ASSUME SessionInv, ~late, server # "closed", StatusLine, call.op = "RSET", NEW r, RsetReply(r),
         toClient' = <<>>
  PROVE  Agree'
<1>1. /\ Reads("status") /\ UNCHANGED <<box, marks, state, listed, server>>
      /\ call' = Idle /\ TableInv /\ Agree /\ tab \in Seq(Entries)
  BY DEF StatusLine, Reads, RsetReply, Return, SessionInv, PhaseInv, Agreement, Agree, TableInv,
         Typed, TypeOK
<1>2. /\ server # "sasl" /\ (server # "trans" => marks = {})
      /\ toClient # <<>> /\ (state = "TRANSACTION") = (server = "trans")
  BY <1>1, AgreedBefore
<1>3. /\ Len(tab') = Len(tab)
      /\ \A k \in 1..Len(tab) : tab'[k].uid = tab[k].uid /\ tab'[k].deleted = FALSE
  BY <1>1, ResetFacts DEF RsetReply
<1>4. Marked' = {}
  BY <1>3 DEF Marked
<1>5. listed => marks = {} /\ deleted_count' = 0
  BY <1>1, <1>2 DEF Agree, TableAgrees, MarksAgree, Accepted, RsetReply
<1>6. Cardinality({}) = 0
  BY FS_EmptySet
<1>7. Settled'
  BY <1>1, <1>3, <1>4, <1>5, <1>6 DEF Settled, Agree, TableAgrees
<1>8. QED
  BY <1>1, <1>2, <1>7, IdleFacts, RestsAgree

\* A call that reads on, and what it has still to read.
LEMMA ReadsOnAgrees ==
  ASSUME server # "sasl", server # "trans" => marks = {}, UNCHANGED <<state, server, marks>>,
         (state = "TRANSACTION") = (server = "trans"), Settled', call'.at # "status",
         call'.op \notin {"AUTH", "RSET"},
         call'.at = "list" =>
           /\ \A i \in 1..Len(call'.tab) : call'.tab[i] = NewEntry
           /\ Len(call'.tab) + Len(toClient') = Len(box') + 1
           /\ \A p \in 1..(Len(toClient') - 1) :
                toClient'[p].kind = "item" /\ toClient'[p].i = Len(call'.tab) + p,
         call'.op = "UIDL" =>
           \A p \in 1..Len(toClient') : toClient'[p].kind = "item" =>
             toClient'[p].i \in 1..Len(box') /\ toClient'[p].v = box'[toClient'[p].i]
  PROVE  Agree'
<1>1. /\ \A op : ~ Accepted(op)' /\ ~ LoggingIn'
  BY DEF Accepted, LoggingIn
<1>2. LoginAgrees'
  BY <1>1 DEF LoginAgrees
<1>3. TableAgrees'
  BY <1>1 DEF TableAgrees, MarksAgree, Settled
<1>4. ListingAgrees'
  BY <1>1 DEF ListingAgrees
<1>5. QED
  BY <1>2, <1>3, <1>4 DEF Agree

LEMMA StatusLineAgrees ==
  ASSUME SessionInv, ~late, server # "closed", server' # "closed", StatusLine
  PROVE  Agree'
<1>1. /\ call.at = "status" /\ Reads("status") /\ TableInv /\ call \in Calls /\ call.op # "AUTH"
      /\ PhaseInv /\ UNCHANGED <<stream, box, marks, late>> /\ Agree
  BY DEF StatusLine, Reads, SessionInv, PhaseInv, TableInv, Typed, Agreement, Agree
<1>2. PICK r \in parse_response(NextLine) :
        CASE call.op = "DELE"                     -> DeleReply(r)
          [] call.op = "RSET"                     -> RsetReply(r)
          [] call.op = "STLS"                     -> StlsReply(r)
          [] call.op \in {"RETR", "TOP", "CAPA"}  -> LongReply(r)
          [] call.op \in {"LIST", "UIDL"}         -> ListReply(call.op, r)
          [] OTHER                                -> ShortReply(call.op, r)
  BY DEF StatusLine
<1>3. /\ toServer = <<>>
      /\ NextLine.kind \in {"ok", "err", "empty"}
      /\ IF NextLine.kind = "ok" /\ call.op \in LongOps THEN Body(toClient)' ELSE toClient' = <<>>
  BY <1>1, ReadsInStep
<1>4. r = "ok" <=> NextLine.kind = "ok"
  BY <1>2, <1>3 DEF parse_response
<1>5. /\ server # "sasl" /\ (server # "trans" => marks = {})
      /\ toClient # <<>> /\ NextLine = toClient[1]
      /\ IF call.op \in {"PASS", "APOP"} /\ r = "ok"
         THEN server = "trans" ELSE (state = "TRANSACTION") = (server = "trans")
      /\ call.op \notin {"DELE", "RSET"} => Settled
  BY <1>1, <1>4, AgreedBefore
<1>6. CASE call.op = "DELE"
  <2>1. toClient' = <<>> /\ DeleReply(r)
    BY <1>2, <1>3, <1>6 DEF LongOps
  <2>2. QED
    BY <1>4, <1>6, <2>1, DeleAgrees
<1>7. CASE call.op = "RSET"
  <2>1. toClient' = <<>> /\ RsetReply(r)
    BY <1>2, <1>3, <1>7 DEF LongOps
  <2>2. QED
    BY <1>7, <2>1, RsetAgrees
<1>8. CASE call.op \notin {"DELE", "RSET", "RETR", "TOP", "CAPA", "LIST", "UIDL"}
  <2>1. toClient' = <<>> /\ call' = Idle /\ SameTable
    BY <1>2, <1>3, <1>8 DEF LongOps, StlsReply, ShortReply, Return, SameTable, tabVars
  <2>2. server' = server
    BY <1>2, <1>8 DEF StlsReply, ShortReply
  <2>3. (state' = "TRANSACTION") = (server = "trans")
    <3>1. CASE call.op = "STLS"
      BY <1>2, <1>5, <3>1 DEF StlsReply
    <3>2. CASE call.op # "STLS"
      <4>1. ShortReply(call.op, r)
        BY <1>2, <1>8, <3>2
      <4>2. call.op = "CONNECT" => state = "DISCONNECTED"
        BY <1>1 DEF TableInv, Structured
      <4>3. QED
        BY <1>5, <4>1, <4>2 DEF ShortReply
    <3>3. QED
      BY <3>1, <3>2
  <2>4. Settled'
    BY <1>1, <1>5, <1>8, <2>1 DEF Settled, Marked, SameTable
  <2>5. QED
    BY <1>1, <1>5, <2>1, <2>2, <2>3, <2>4, IdleFacts, RestsAgree
<1>9. CASE call.op \in {"RETR", "TOP", "CAPA"}
  <2>1. LongReply(r) /\ SameTable /\ UNCHANGED <<state, server>>
    BY <1>2, <1>9 DEF LongReply, SameTable, tabVars
  <2>2. Settled'
    BY <1>1, <1>5, <1>9, <2>1 DEF Settled, Marked, SameTable
  <2>3. CASE r = "ok"
    <3>1. call' = [call EXCEPT !.at = "lines"]
      BY <2>1, <2>3 DEF LongReply
    <3>2. call'.at = "lines" /\ call'.op = call.op
      BY <1>1, <3>1 DEF Calls
    <3>3. QED
      BY <1>1, <1>5, <1>9, <2>1, <2>2, <3>2, ReadsOnAgrees
  <2>4. CASE r # "ok"
    <3>1. call' = Idle /\ toClient' = <<>>
      BY <1>3, <1>4, <2>1, <2>4 DEF LongReply, Return
    <3>2. QED
      BY <1>1, <1>5, <1>9, <2>1, <2>2, <3>1, IdleFacts, RestsAgree
  <2>5. QED
    BY <2>3, <2>4
<1>10. CASE call.op \in {"LIST", "UIDL"}
  <2>1. ListReply(call.op, r) /\ SameTable /\ UNCHANGED <<state, server>>
    BY <1>2, <1>10 DEF ListReply, SameTable, tabVars
  <2>2. CASE r # "ok"
    <3>1. ListDone(listed, tab) /\ toClient' = <<>>
      BY <1>3, <1>4, <2>1, <2>2 DEF ListReply
    <3>2. QED
      BY <1>1, <1>10, <2>1, <3>1, ListDoneAgrees
  <2>3. CASE r = "ok"
    <3>1. call' = [call EXCEPT !.at = IF call.op = "LIST" THEN "list" ELSE "uidl"]
      BY <2>1, <2>3 DEF ListReply
    <3>2. /\ call'.at = (IF call.op = "LIST" THEN "list" ELSE "uidl") /\ call'.op = call.op
          /\ call'.tab = call.tab
      BY <1>1, <3>1 DEF Calls
    <3>3. Settled'
      BY <1>1, <1>5, <1>10, <2>1 DEF Settled, Marked, SameTable
    <3>4. /\ Len(toClient') = Len(toClient) - 1 /\ Len(toClient) \in Nat
          /\ \A p \in 1..(Len(toClient) - 1) : toClient'[p] = toClient[p + 1]
      BY <1>1, <1>5, ReadsFacts DEF TableInv, Typed
    <3>5. Len(box) \in Nat
      BY <1>1 DEF TableInv, Typed
    <3>6. call'.at = "list" =>
            /\ Len(call'.tab) = 0
            /\ Len(toClient') = Len(box) + 1
            /\ \A p \in 1..(Len(toClient') - 1) :
                 toClient'[p].kind = "item" /\ toClient'[p].i = p
      <4> SUFFICES ASSUME call'.at = "list"
                   PROVE  /\ Len(call'.tab) = 0 /\ Len(toClient') = Len(box) + 1
                          /\ \A p \in 1..(Len(toClient') - 1) :
                               toClient'[p].kind = "item" /\ toClient'[p].i = p
        OBVIOUS
      <4>1. call.op = "LIST"
        BY <1>10, <3>2
      <4>2. Accepted("LIST")
        BY <1>1, <1>4, <1>5, <2>3, <4>1 DEF Accepted
      <4>3. /\ Len(toClient) = Len(box) + 2
            /\ \A p \in 2..(Len(box) + 1) : toClient[p].kind = "item" /\ toClient[p].i = p - 1
        BY <1>1, <4>2 DEF Agree, ListingAgrees
      <4>4. call.tab = <<>>
        BY <1>1, <4>1 DEF TableInv, Structured
      <4>5. Len(call'.tab) = 0
        BY <3>2, <4>4, Len(<<>>) = 0
      <4>6. QED
        BY <3>4, <3>5, <4>3, <4>5
    <3>7. call'.op = "UIDL" =>
            \A p \in 1..Len(toClient') : toClient'[p].kind = "item" =>
              toClient'[p].i \in 1..Len(box) /\ toClient'[p].v = box[toClient'[p].i]
      <4>1. call.op = "UIDL" =>
              \A p \in 1..Len(toClient) : toClient[p].kind = "item" =>
                toClient[p].i \in 1..Len(box) /\ toClient[p].v = box[toClient[p].i]
        BY <1>1 DEF Agree, ListingAgrees
      <4>2. QED
        BY <3>2, <3>4, <4>1
    <3>8. \A p \in 1..(Len(toClient') - 1) : call'.at = "list" =>
            toClient'[p].kind = "item" /\ toClient'[p].i = Len(call'.tab) + p
      BY <3>6
    <3>9. QED
      BY <1>1, <1>5, <1>10, <2>1, <3>2, <3>3, <3>5, <3>6, <3>7, <3>8, ReadsOnAgrees
  <2>4. QED
    BY <2>2, <2>3
<1>11. QED
  BY <1>6, <1>7, <1>8, <1>9, <1>10

LEMMA AuthLineAgrees ==
  ASSUME SessionInv, ~late, ~late', server # "closed", AuthLine
  PROVE  Agree'
<1>1. /\ call.at = "status" /\ Reads("status") /\ TableInv /\ call.op = "AUTH"
      /\ PhaseInv /\ UNCHANGED <<stream, server, box, marks>> /\ Agree /\ SameTable
  BY DEF AuthLine, Reads, SessionInv, PhaseInv, Agreement, Agree, serverVars, tabVars, SameTable
<1>2. /\ toServer = <<>> /\ toClient' = <<>> /\ toClient # <<>> /\ NextLine = toClient[1]
      /\ NextLine.kind \in {"ok", "err", "cont"}
  BY <1>1, ReadsInStep DEF LongOps
<1>3. Settled'
  BY <1>1 DEF Agree, TableAgrees, MarksAgree, Accepted, Settled, Marked, SameTable
<1>4. (server # "trans" => marks = {}) /\ (server = "sasl" <=> NextLine.kind = "cont")
  BY <1>1, <1>2 DEF Agree, LoginAgrees
<1>5. IF NextLine.kind = "ok" THEN server = "trans" ELSE (state = "TRANSACTION") = (server = "trans")
  <2>1. LoggingIn <=> NextLine.kind = "ok"
    BY <1>1, <1>2 DEF LoggingIn, Accepted
  <2>2. QED
    BY <1>1, <2>1 DEF Agree, LoginAgrees
<1>6. CASE "ok" \in parse_auth(NextLine) /\ state' = "TRANSACTION" /\ Return
  <2>1. NextLine.kind = "ok"
    BY <1>2, <1>6 DEF parse_auth, parse_response
  <2>2. QED
    BY <1>1, <1>2, <1>3, <1>4, <1>5, <1>6, <2>1, IdleFacts, RestsAgree DEF Return
<1>7. CASE "err" \in parse_auth(NextLine) /\ Return /\ UNCHANGED <<state, late>>
  <2>1. NextLine.kind = "err"
    BY <1>2, <1>7 DEF parse_auth, parse_response
  <2>2. QED
    BY <1>1, <1>2, <1>3, <1>4, <1>5, <1>7, <2>1, IdleFacts, RestsAgree DEF Return
<1>8. CASE /\ "cont" \in parse_auth(NextLine)
           /\ toServer' = Append(toServer, [op |-> "RESPONSE", msg |-> 0])
           /\ UNCHANGED <<state, call, late>>
  <2>1. NextLine.kind = "cont"
    BY <1>2, <1>8 DEF parse_auth, parse_response
  <2>2. toServer'[1].op = "RESPONSE"
    BY <1>2, <1>8
  <2>3. /\ \A op : ~ Accepted(op)' /\ ~ LoggingIn'
    BY <1>2 DEF Accepted, LoggingIn
  <2>4. LoginAgrees'
    BY <1>1, <1>2, <1>4, <1>5, <1>8, <2>1, <2>2, <2>3 DEF LoginAgrees
  <2>5. TableAgrees'
    BY <1>2, <1>3, <2>3 DEF TableAgrees, MarksAgree, Settled
  <2>6. ListingAgrees'
    BY <1>1, <1>2, <1>8, <2>3 DEF ListingAgrees
  <2>7. QED
    BY <2>4, <2>5, <2>6 DEF Agree
<1>9. QED
  BY <1>6, <1>7, <1>8 DEF AuthLine

LEMMA ContentLineAgrees ==
  ASSUME SessionInv, ~late, server # "closed", ContentLine
  PROVE  Agree'
<1>1. /\ call.at = "lines" /\ Reads("lines") /\ PhaseInv /\ SameTable
      /\ call.op \in {"RETR", "TOP", "CAPA"} /\ UNCHANGED <<state, server, box, marks>>
  BY DEF ContentLine, Reads, SessionInv, PhaseInv, TableInv, Structured, tabVars, serverVars, SameTable
<1>2. /\ server # "sasl" /\ (server # "trans" => marks = {}) /\ Settled
      /\ (state = "TRANSACTION") = (server = "trans")
  BY <1>1, AgreedBefore
<1>3. Settled'
  BY <1>1, <1>2 DEF Settled, Marked, SameTable
<1>4. CASE NextLine.kind = "end"
  <2>1. toClient' = <<>>
    BY <1>1, <1>4, ReadsInStep
  <2>2. QED
    BY <1>1, <1>2, <1>3, <1>4, <2>1, IdleFacts, RestsAgree DEF ContentLine, Return
<1>5. CASE NextLine.kind # "end"
  <2>1. call' = call
    BY <1>5 DEF ContentLine
  <2>2. QED
    BY <1>1, <1>2, <1>3, <2>1, ReadsOnAgrees
<1>6. QED
  BY <1>4, <1>5

LEMMA ListLineAgrees ==
  ASSUME SessionInv, ~late, server # "closed", ListLine
  PROVE  Agree'
<1>1. /\ call.at = "list" /\ Reads("list") /\ PhaseInv /\ TableInv /\ call.op = "LIST" /\ ~listed
      /\ UNCHANGED <<state, server, box, marks>> /\ Agree /\ call \in Calls
  BY DEF ListLine, Reads, SessionInv, PhaseInv, TableInv, Typed, Structured, serverVars, Agreement,
         Agree
<1>2. /\ server # "sasl" /\ (server # "trans" => marks = {})
      /\ (state = "TRANSACTION") = (server = "trans")
  BY <1>1, AgreedBefore
<1>3. /\ toClient # <<>> /\ NextLine = toClient[1] /\ NextLine \in Lines
      /\ IF NextLine.kind = "end" THEN toClient' = <<>> ELSE Body(toClient)'
  BY <1>1, ReadsInStep
<1>4. /\ Len(toClient') = Len(toClient) - 1 /\ Len(toClient) \in Nat \ {0}
      /\ \A p \in 1..(Len(toClient) - 1) : toClient'[p] = toClient[p + 1]
      /\ Len(box) \in Nat /\ call.tab \in Seq(Entries) /\ Len(call.tab) \in Nat
  BY <1>1, <1>3, ReadsFacts DEF TableInv, Typed, Calls
<1>5. /\ \A i \in 1..Len(call.tab) : call.tab[i] = NewEntry
      /\ Len(call.tab) + Len(toClient) = Len(box) + 1
      /\ \A p \in 1..(Len(toClient) - 1) :
           toClient[p].kind = "item" /\ toClient[p].i = Len(call.tab) + p
  BY <1>1 DEF Agree, ListingAgrees
<1>6. CASE NextLine.kind = "end"
  <2>1. /\ listed' = TRUE /\ tab' = call.tab /\ deleted_count' = 0 /\ toClient' = <<>>
        /\ Sends("UIDL", 0, call.then)
    BY <1>3, <1>6 DEF ListLine
  <2>2. Len(call.tab) = Len(box)
    <3> DEFINE n == Len(call.tab)
               k == Len(toClient)
               b == Len(box)
    <3>1. k - 1 = 0
      BY <1>4, <2>1
    <3>2. n + k = b + 1 /\ n \in Nat /\ k \in Nat /\ b \in Nat
      BY <1>4, <1>5
    <3> HIDE DEF n, k, b
    <3>3. n = b
      BY <3>1, <3>2
    <3>4. QED
      BY <3>3 DEF n, b
  <2>3. \A i \in 1..Len(tab') : tab'[i].uid = 0 /\ tab'[i].deleted = FALSE
    BY <1>5, <2>1 DEF NewEntry
  <2>4. Marked' = {}
    BY <2>3 DEF Marked
  <2>5. marks = {}
    BY <1>1 DEF TableInv, ListsFirst
  <2>6. Cardinality({}) = 0
    BY FS_EmptySet
  <2>7. Settled'
    BY <1>1, <2>1, <2>2, <2>3, <2>4, <2>5, <2>6 DEF Settled
  <2>8. call'.at # "list"
    BY <2>1 DEF Sends, Waiting
  <2>9. QED
    BY <1>1, <1>2, <2>1, <2>7, <2>8, RestsAgree
<1>7. CASE NextLine.kind # "end"
  <2>1. Len(toClient) > 1
    <3>1. toClient' # <<>> /\ toClient' \in Seq(Lines)
      BY <1>1, <1>3, <1>7, ReadsFacts DEF Body
    <3>2. QED
      BY <1>4, <3>1
  <2>2. NextLine.kind = "item" /\ NextLine.i = Len(call.tab) + 1
    BY <1>3, <1>4, <1>5, <2>1
  <2> DEFINE t == SetEntry(call.tab, NextLine.i, NewEntry)
  <2>3. call' = [call EXCEPT !.tab = t] /\ SameTable
    BY <2>2 DEF ListLine, SameTable, tabVars
  <2>4. NewEntry \in Entries
    BY IdleFacts DEF NewEntry, Entries
  <2>5. /\ Len(t) = Len(call.tab) + 1
        /\ \A k \in 1..Len(t) : t[k] = NewEntry
    <3> DEFINE i == NextLine.i
    <3>1. i = Len(call.tab) + 1 /\ i \in Nat \ {0}
      BY <1>4, <2>2
    <3> HIDE DEF i
    <3>2. /\ SetEntry(call.tab, i, NewEntry) \in Seq(Entries)
          /\ Len(SetEntry(call.tab, i, NewEntry)) = IF Len(call.tab) < i THEN i ELSE Len(call.tab)
          /\ SetEntry(call.tab, i, NewEntry)[i] = NewEntry
          /\ \A k \in 1..Len(call.tab) : k # i => SetEntry(call.tab, i, NewEntry)[k] = call.tab[k]
      BY <1>4, <2>4, <3>1, SetEntryFacts, ZenonT(60)
    <3>3. t = SetEntry(call.tab, i, NewEntry)
      BY DEF i
    <3> HIDE DEF t
    <3>4. QED
      BY <1>4, <1>5, <3>1, <3>2, <3>3, SMTT(60)
  <2> HIDE DEF t
  <2>6. call'.tab = t /\ call'.at = "list" /\ call'.op = "LIST"
    BY <1>1, <2>3 DEF Calls
  <2>7. /\ \A i \in 1..Len(call'.tab) : call'.tab[i] = NewEntry
        /\ Len(call'.tab) + Len(toClient') = Len(box') + 1
        /\ \A p \in 1..(Len(toClient') - 1) :
             toClient'[p].kind = "item" /\ toClient'[p].i = Len(call'.tab) + p
    <3> DEFINE n == Len(call.tab)
               k == Len(toClient)
               b == Len(box)
               s == toClient
               u == toClient'
    <3>1. /\ n + k = b + 1 /\ n \in Nat /\ k \in Nat /\ b \in Nat /\ k > 1
          /\ Len(u) = k - 1 /\ Len(t) = n + 1
      BY <1>4, <1>5, <2>1, <2>5
    <3>2. /\ \A p \in 1..(k - 1) : u[p] = s[p + 1]
          /\ \A p \in 1..(k - 1) : s[p].kind = "item" /\ s[p].i = n + p
      BY <1>4, <1>5
    <3> HIDE DEF n, k, b, s, u
    <3>3. Len(t) + Len(u) = b + 1
      BY <3>1
    <3>4. \A p \in 1..(Len(u) - 1) : u[p].kind = "item" /\ u[p].i = Len(t) + p
      <4> TAKE p \in 1..(Len(u) - 1)
      <4>1. p \in 1..(k - 1) /\ p + 1 \in 1..(k - 1) /\ u[p] = s[p + 1]
        BY <3>1, <3>2
      <4>2. u[p].kind = "item" /\ u[p].i = n + (p + 1)
        BY <3>2, <4>1
      <4>3. QED
        BY <3>1, <4>1, <4>2
    <3>5. QED
      BY <1>1, <2>5, <2>6, <3>3, <3>4 DEF b, u
  <2>8. Settled'
    BY <1>1, <2>3 DEF Settled, SameTable
  <2>9. QED
    BY <1>1, <1>2, <2>6, <2>7, <2>8, ReadsOnAgrees
<1>8. QED
  BY <1>6, <1>7

LEMMA UidlLineAgrees ==
  ASSUME SessionInv, ~late, server # "closed", UidlLine
  PROVE  Agree'
<1>1. /\ call.at = "uidl" /\ Reads("uidl") /\ PhaseInv /\ TableInv /\ call.op = "UIDL" /\ listed
      /\ UNCHANGED <<state, server, box, marks, listed, deleted_count>> /\ Agree
      /\ tab \in Seq(Entries)
  BY DEF UidlLine, Reads, SessionInv, PhaseInv, TableInv, Typed, TypeOK, Structured, serverVars,
         Agreement, Agree
<1>2. /\ server # "sasl" /\ (server # "trans" => marks = {}) /\ Settled
      /\ (state = "TRANSACTION") = (server = "trans")
  BY <1>1, AgreedBefore
<1>3. /\ toClient # <<>> /\ NextLine = toClient[1] /\ NextLine \in Lines
      /\ IF NextLine.kind = "end" THEN toClient' = <<>> ELSE Body(toClient)'
  BY <1>1, ReadsInStep
<1>4. /\ Len(toClient') = Len(toClient) - 1 /\ Len(toClient) \in Nat \ {0}
      /\ \A p \in 1..(Len(toClient) - 1) : toClient'[p] = toClient[p + 1]
  BY <1>1, <1>3, ReadsFacts DEF TableInv, Typed
<1>5. \A p \in 1..Len(toClient) : toClient[p].kind = "item" =>
        toClient[p].i \in 1..Len(box) /\ toClient[p].v = box[toClient[p].i]
  BY <1>1 DEF Agree, ListingAgrees
<1>6. \A p \in 1..Len(toClient') : toClient'[p].kind = "item" =>
        toClient'[p].i \in 1..Len(box') /\ toClient'[p].v = box'[toClient'[p].i]
  BY <1>1, <1>4, <1>5, SMTT(30)
<1>7. CASE NextLine.kind = "end"
  <2>1. toClient' = <<>> /\ ListDone(listed, tab) /\ SameTable
    BY <1>1, <1>3, <1>7 DEF UidlLine, SameTable
  <2>2. QED
    BY <1>1, <2>1, ListDoneAgrees
<1>8. CASE NextLine.kind = "item" /\ Found(listed, tab, NextLine.i)
  <2>1. tab' = [tab EXCEPT ![NextLine.i].uid = NextLine.v] /\ call' = call
    BY <1>8 DEF UidlLine
  <2>2. NextLine.i \in 1..Len(tab) /\ NextLine.v \in 0..N /\ NextLine.v = box[NextLine.i]
    BY <1>3, <1>4, <1>5, <1>8 DEF Found, Lines
  <2>3. /\ Len(tab') = Len(tab)
        /\ \A k \in 1..Len(tab) : /\ tab'[k].deleted = tab[k].deleted
                                  /\ tab'[k].uid = IF k = NextLine.i THEN NextLine.v ELSE tab[k].uid
    BY <1>1, <2>1, <2>2, UidFacts
  <2>4. Marked' = Marked
    BY <2>3 DEF Marked
  <2>5. Settled'
    BY <1>1, <1>2, <2>2, <2>3, <2>4 DEF Settled
  <2>6. QED
    BY <1>1, <1>2, <1>6, <2>1, <2>5, ReadsOnAgrees
<1>9. CASE UNCHANGED <<call, tab, toServer, sent>>
  <2>1. Settled'
    BY <1>1, <1>2, <1>9 DEF Settled, Marked
  <2>2. QED
    BY <1>1, <1>2, <1>6, <1>9, <2>1, ReadsOnAgrees
<1>10. QED
  BY <1>7, <1>8, <1>9 DEF UidlLine

LEMMA IssuesAgree ==
  ASSUME SessionInv, ~late, server # "closed", NEW op \in Ops, NEW m \in 0..N,
         NEW then \in Commands, Issues(op, m, then)
  PROVE  Agree'
<1>1. /\ call = Idle /\ Quiet /\ Agree /\ SameTable /\ toClient' = <<>>
      /\ UNCHANGED <<state, server, box, marks>> /\ Sends(op, m, then)
  BY DEF Issues, SessionInv, PhaseInv, Phase, Agreement, Agree, SameTable, tabVars, serverVars, Quiet
<1>2. Settled
  BY <1>1, IdleFacts DEF Agree, TableAgrees, MarksAgree, Accepted, Settled
<1>3. /\ server # "sasl" /\ (server # "trans" => marks = {})
      /\ (state = "TRANSACTION") = (server = "trans")
  BY <1>1, IdleFacts DEF Agree, LoginAgrees, LoggingIn, Accepted
<1>4. Settled'
  BY <1>1, <1>2 DEF Settled, Marked, SameTable
<1>5. call'.at # "list"
  BY <1>1 DEF Sends, Waiting
<1>6. QED
  BY <1>1, <1>3, <1>4, <1>5, RestsAgree

\* A listing made before the first deletion numbers the whole maildrop.
LEMMA ListingAnswer ==
  ASSUME Typed, marks = {}, NEW of \in Int, NEW u \in BOOLEAN
  PROVE  LET s == Ok(of) \o Listing(of, u)
         IN  /\ Len(s) = Len(box) + 2
             /\ \A p \in 2..(Len(box) + 1) :
                  /\ s[p].kind = "item" /\ s[p].i = p - 1
                  /\ s[p].v = IF u THEN box[p - 1] ELSE 0
             /\ s[1].kind = "ok" /\ s[Len(box) + 2].kind = "end"
<1> DEFINE a == Ok(of)
           t == Listing(of, u)
           n == Len(box)
           s == a \o t
<1>1. n \in Nat
  BY DEF Typed
<1>2. a \in Seq(Lines) /\ Len(a) = 1 /\ a[1].kind = "ok"
  BY IdleFacts DEF Ok, Line, Lines, Kinds
<1>3. /\ t \in Seq(Lines) /\ Len(t) = n + 1
      /\ \A p \in 1..n : t[p] = Line(of, "item", p, IF u THEN box[p] ELSE 0)
      /\ t[n + 1] = Line(of, "end", 0, 0)
  BY InitialListing
<1> HIDE DEF a, t, n
<1>4. /\ Len(s) = Len(a) + Len(t)
      /\ \A p \in 1..Len(a) : s[p] = a[p]
      /\ \A p \in (Len(a) + 1)..(Len(a) + Len(t)) : s[p] = t[p - Len(a)]
  <2>1. a \in Seq(Lines) /\ t \in Seq(Lines)
    BY <1>2, <1>3
  <2>2. QED
    BY <2>1, ConcatFacts
<1> HIDE DEF s
<1>5. Len(s) = n + 2 /\ s[1] = a[1] /\ \A p \in 2..(n + 2) : s[p] = t[p - 1]
  BY <1>1, <1>2, <1>3, <1>4
<1>6. ASSUME NEW p \in 2..(n + 1)
      PROVE  /\ s[p].kind = "item" /\ s[p].i = p - 1
             /\ s[p].v = IF u THEN box[p - 1] ELSE 0
  <2> DEFINE v == IF u THEN box[p - 1] ELSE 0
  <2>1. p - 1 \in 1..n /\ s[p] = t[p - 1]
    BY <1>1, <1>5
  <2>2. s[p] = Line(of, "item", p - 1, v)
    BY <1>3, <2>1
  <2> HIDE DEF v
  <2>3. s[p].kind = "item" /\ s[p].i = p - 1 /\ s[p].v = v
    BY <2>2 DEF Line
  <2>4. QED
    BY <2>3 DEF v
<1>7. s[n + 2].kind = "end"
  BY <1>1, <1>3, <1>5 DEF Line
<1>8. QED
  BY <1>2, <1>5, <1>6, <1>7 DEF s, a, t, n

\* The outcomes, as far as the agreement goes.
OutcomeKind(c, kind, st, ms) ==
  \/ kind = "ok" /\ c.op \in {"PASS", "APOP", "RESPONSE"} /\ st = "trans" /\ ms = {}
        /\ server # "trans"
  \/ kind = "cont" /\ c.op \in {"AUTH", "RESPONSE"} /\ st = "sasl" /\ ms = {}
        /\ server # "trans"
  \/ kind = "err" /\ server = "sasl" /\ st = "auth" /\ ms = {}
  \/ kind = "ok" /\ c.op = "DELE" /\ st = server /\ server = "trans"
        /\ c.msg \notin marks /\ ms = marks \cup {c.msg}
  \/ kind = "ok" /\ c.op = "RSET" /\ st = server /\ server = "trans" /\ ms = {}
  \/ /\ st = server /\ server # "sasl" /\ ms = marks /\ kind # "cont"
     /\ kind = "ok" => c.op \notin {"PASS", "APOP", "AUTH", "RESPONSE", "DELE", "RSET"}
     /\ ~ (server = "trans" /\ c.op = "RSET")

LEMMA OutcomeKinds ==
  ASSUME Typed, server # "closed", server # "trans" => marks = {}, NEW c \in Commands,
         c.op \in {"LIST", "UIDL"} => marks = {},
         NEW of \in Int, NEW o \in Outcomes(c, of), o.st # "closed"
  PROVE  OutcomeKind(c, o.answer[1].kind, o.st, o.marks)
<1> USE DEF OutcomeKind
<1>1. ASSUME NEW a, NEW st, NEW ms, o = Outcome(a, st, ms)
      PROVE  o.answer = a /\ o.st = st /\ o.marks = ms
  BY <1>1 DEF Outcome
<1>2. /\ Ok(of)[1].kind = "ok" /\ Err(of)[1].kind = "err"
      /\ << Line(of, "cont", 0, 0) >>[1].kind = "cont"
      /\ \A k : << Line(of, "ok", 0, 0), Line(of, k, 0, 0), Line(of, "end", 0, 0) >>[1].kind = "ok"
  BY DEF Ok, Err, Line
<1>3. c.op \in {"LIST", "UIDL"} => (Ok(of) \o Listing(of, c.op = "UIDL"))[1].kind = "ok"
  BY ListingAnswer
<1>4. CASE server = "sasl" /\ o = Outcome(Err(of), "auth", {})
  BY <1>1, <1>2, <1>4
<1>5. CASE server = "sasl" /\ c.op = "RESPONSE" /\ o = Outcome(Ok(of), "trans", {})
  BY <1>1, <1>2, <1>5
<1>6. CASE /\ (server = "sasl" /\ c.op = "RESPONSE") \/ (server = "auth" /\ c.op = "AUTH")
           /\ o = Outcome(<< Line(of, "cont", 0, 0) >>, "sasl", {})
  <2>1. o.answer = << Line(of, "cont", 0, 0) >> /\ o.st = "sasl" /\ o.marks = {}
    BY <1>1, <1>6
  <2>2. o.answer[1].kind = "cont"
    BY <1>2, <2>1
  <2>3. QED
    BY <1>6, <2>1, <2>2
<1>7. CASE /\ server # "sasl" /\ c.op # "QUIT" /\ ~ (server = "trans" /\ c.op = "RSET")
           /\ o = Outcome(Err(of), server, marks)
  BY <1>1, <1>2, <1>7
<1>8. CASE o \in {Outcome(Ok(of), "closed", marks), Outcome(Err(of), "closed", marks)}
  BY <1>1, <1>8
<1>9. CASE server = "auth" /\ c.op \in {"PASS", "APOP"} /\ o = Outcome(Ok(of), "trans", {})
  BY <1>1, <1>2, <1>9
<1>10. CASE server = "auth" /\ c.op \in {"USER", "STLS"} /\ o = Outcome(Ok(of), server, {})
  BY <1>1, <1>2, <1>10
<1>11. CASE server = "trans" /\ c.op \in {"NOOP", "STAT"} /\ o = Outcome(Ok(of), server, marks)
  BY <1>1, <1>2, <1>11
<1>12. CASE server = "trans" /\ c.op = "RSET" /\ o = Outcome(Ok(of), server, {})
  BY <1>1, <1>2, <1>12
<1>13. CASE /\ server = "trans" /\ c.op = "DELE" /\ c.msg \in (1..Len(box)) \ marks
            /\ o = Outcome(Ok(of), server, marks \cup {c.msg})
  BY <1>1, <1>2, <1>13, ZenonT(60)
<1>14. CASE /\ server # "sasl" /\ c.op \in {"CAPA", "RETR", "TOP"}
            /\ \E kind \in {"word", "text"} :
                 o = Outcome(<< Line(of, "ok", 0, 0), Line(of, kind, 0, 0), Line(of, "end", 0, 0) >>,
                             server, marks)
  <2>1. PICK kind \in {"word", "text"} :
          o = Outcome(<< Line(of, "ok", 0, 0), Line(of, kind, 0, 0), Line(of, "end", 0, 0) >>,
                      server, marks)
    BY <1>14
  <2> DEFINE a == << Line(of, "ok", 0, 0), Line(of, kind, 0, 0), Line(of, "end", 0, 0) >>
  <2>2. o.answer = a /\ o.st = server /\ o.marks = marks
    BY <1>1, <2>1
  <2>3. a[1].kind = "ok"
    BY <1>2
  <2> HIDE DEF a
  <2>4. QED
    BY <1>14, <2>2, <2>3
<1>15. CASE /\ server = "trans" /\ c.op \in {"LIST", "UIDL"}
            /\ o = Outcome(Ok(of) \o Listing(of, c.op = "UIDL"), server, marks)
  <2> DEFINE a == Ok(of) \o Listing(of, c.op = "UIDL")
  <2>1. o.answer = a /\ o.st = server /\ o.marks = marks
    BY <1>1, <1>15
  <2>2. a[1].kind = "ok"
    BY <1>3, <1>15
  <2> HIDE DEF a
  <2>3. QED
    BY <1>15, <2>1, <2>2
<1>16. QED
  BY <1>4, <1>5, <1>6, <1>7, <1>8, <1>9, <1>10, <1>11, <1>12, <1>13, <1>14, <1>15, OutcomeCases
     DEF OutcomeCase

\* An accepting answer to mailpop3_list or UIDL is a listing, and every entry
\* is one of the maildrop.
LEMMA ListingOutcome ==
  ASSUME Typed, server # "closed", NEW c \in Commands, c.op \in {"LIST", "UIDL"}, marks = {},
         NEW of \in Int, NEW o \in Outcomes(c, of)
  PROVE  /\ o.answer[1].kind = "ok" => o.answer = Ok(of) \o Listing(of, c.op = "UIDL")
         /\ o.answer[1].kind # "ok" => o.answer = Err(of)
<1>1. ASSUME NEW a, NEW st, NEW ms, o = Outcome(a, st, ms)
      PROVE  o.answer = a
  BY <1>1 DEF Outcome
<1>2. Err(of)[1].kind = "err"
  BY DEF Err, Line
<1>3. (Ok(of) \o Listing(of, c.op = "UIDL"))[1].kind = "ok"
  BY ListingAnswer
<1>4. \/ \E st : o = Outcome(Err(of), st, {})
      \/ o = Outcome(Ok(of) \o Listing(of, c.op = "UIDL"), server, marks)
  BY OutcomeCases DEF OutcomeCase
<1> DEFINE a == Ok(of) \o Listing(of, c.op = "UIDL")
           e == Err(of)
<1>5. o.answer = e \/ o.answer = a
  <2>1. CASE \E st : o = Outcome(Err(of), st, {})
    <3>1. PICK st : o = Outcome(Err(of), st, {})
      BY <2>1
    <3>2. QED
      BY <1>1, <3>1
  <2>2. CASE o = Outcome(Ok(of) \o Listing(of, c.op = "UIDL"), server, marks)
    BY <1>1, <2>2
  <2>3. QED
    BY <1>4, <2>1, <2>2
<1>6. a[1].kind = "ok" /\ e[1].kind = "err"
  BY <1>2, <1>3
<1> HIDE DEF a, e
<1>7. (o.answer[1].kind = "ok" => o.answer = a) /\ (o.answer[1].kind # "ok" => o.answer = e)
  BY <1>5, <1>6
<1>8. QED
  BY <1>7 DEF a, e

LEMMA ServeAgrees ==
  ASSUME SessionInv, ~late, server' # "closed", Serve
  PROVE  Agree'
<1> DEFINE c == toServer[1]
<1>1. /\ server # "closed" /\ c \in Commands /\ (c.op \in {"LIST", "UIDL"} => marks = {})
      /\ UNCHANGED <<state, stream, listed, tab, deleted_count, call, box, sent, late>>
      /\ PhaseInv /\ TableInv /\ Typed /\ Structured /\ sent \in Int
  BY ServeFacts DEF SessionInv, PhaseInv, TableInv, Typed, TypeOK
<1>2. Agree
  BY <1>1 DEF SessionInv, Agreement, Agree
<1>3. TableInv'
  BY <1>1, ServeTable
<1>4. /\ toClient = <<>> /\ toServer' = <<>> /\ Asked /\ call.at = "status" /\ toServer # <<>>
  BY <1>1, <1>3, ServeInStep DEF Serve
<1>5. PICK o \in Outcomes(c, sent) :
        /\ toClient' = o.answer /\ server' = o.st /\ marks' = o.marks
        /\ Answer(o.answer, sent, c.op)
  BY <1>1, <1>3, ServeInStep
<1>6. \/ c.op = call.op /\ c.msg = call.msg /\ c.op # "RESPONSE"
      \/ c.op = "RESPONSE" /\ call.op = "AUTH"
  BY <1>1, <1>4 DEF Asked, Typed, Calls, Ops
<1>7. /\ ~LoggingIn /\ \A op : ~Accepted(op)
  BY <1>4 DEF LoggingIn, Accepted
<1>8. /\ (state = "TRANSACTION") = (server = "trans")
      /\ server = "sasl" => c.op = "RESPONSE"
      /\ server # "trans" => marks = {}
      /\ listed => marks = Marked
  BY <1>2, <1>4, <1>7 DEF Agree, LoginAgrees, TableAgrees, MarksAgree
<1> DEFINE kind == o.answer[1].kind
<1>9. toClient' # <<>> /\ toClient'[1].kind = kind /\ kind \in {"ok", "err", "cont"}
  BY <1>5 DEF Answer, Whole
<1>10. OutcomeKind(c, kind, server', marks')
  BY <1>1, <1>5, <1>8, OutcomeKinds
<1>11. \A op : Accepted(op)' <=> call.op = op /\ kind = "ok"
  BY <1>1, <1>4, <1>9 DEF Accepted
<1> HIDE DEF c, kind
<1>12. LoginAgrees'
  <2>1. LoggingIn' <=> call.op \in {"PASS", "APOP", "AUTH"} /\ kind = "ok"
    BY <1>11 DEF LoggingIn
  <2>2. IF LoggingIn' THEN server' = "trans" ELSE (state' = "TRANSACTION") = (server' = "trans")
    BY <1>1, <1>6, <1>8, <1>10, <2>1 DEF OutcomeKind
  <2>3. server' = "sasl" => call'.op = "AUTH" /\ toClient'[1].kind = "cont"
    BY <1>1, <1>6, <1>9, <1>10 DEF OutcomeKind
  <2>4. toClient'[1].kind = "cont" => server' = "sasl"
    BY <1>9, <1>10 DEF OutcomeKind
  <2>5. server' # "trans" => marks' = {}
    BY <1>8, <1>10 DEF OutcomeKind
  <2>6. QED
    BY <1>4, <2>2, <2>3, <2>4, <2>5 DEF LoginAgrees
<1>13. TableAgrees'
  <2>1. Marked' = Marked
    BY <1>1 DEF Marked
  <2>2. ASSUME listed, call.op = "DELE", kind = "ok"
        PROVE  call.msg \in (1..Len(tab)) \ Marked /\ marks' = Marked \cup {call.msg}
    BY <1>1, <1>6, <1>8, <1>10, <2>2 DEF OutcomeKind, Structured, MessageOps
  <2>3. ASSUME call.op = "RSET"
        PROVE  marks' = {}
    BY <1>1, <1>6, <1>8, <1>10, <2>3 DEF OutcomeKind, Structured
  <2>4. ASSUME listed, call.op # "RSET", ~ (call.op = "DELE" /\ kind = "ok")
        PROVE  marks' = Marked
    BY <1>6, <1>8, <1>10, <2>4 DEF OutcomeKind
  <2>5. listed => MarksAgree'
    BY <1>1, <1>9, <1>11, <2>1, <2>2, <2>3, <2>4 DEF MarksAgree
  <2>6. QED
    BY <1>1, <1>2, <2>1, <2>5 DEF Agree, TableAgrees
<1>14. ListingAgrees'
  <2>1. call'.at # "list"
    BY <1>1, <1>4
  <2>2. CASE call.op \in {"LIST", "UIDL"} /\ kind = "ok"
    <3> DEFINE u == call.op = "UIDL"
               s == Ok(sent) \o Listing(sent, u)
               n == Len(box)
    <3>1. c.op = call.op /\ marks = {}
      BY <1>1, <1>6, <2>2
    <3>2. toClient' = s
      BY <1>1, <1>5, <2>2, <3>1, ListingOutcome DEF kind
    <3>3. /\ Len(s) = n + 2 /\ n \in Nat
          /\ \A p \in 2..(n + 1) : s[p].kind = "item" /\ s[p].i = p - 1
                                   /\ s[p].v = IF u THEN box[p - 1] ELSE 0
          /\ s[1].kind = "ok" /\ s[n + 2].kind = "end"
      <4>1. Typed /\ marks = {} /\ sent \in Int /\ u \in BOOLEAN
        BY <1>1, <3>1
      <4>2. n \in Nat
        BY <4>1 DEF Typed
      <4> HIDE DEF u
      <4>3. QED
        BY <4>1, <4>2, ListingAnswer
    <3>4. box' = box /\ call' = call
      BY <1>1
    <3> HIDE DEF s, n, u
    <3>5. \A p \in 1..(n + 2) : s[p].kind = "item" => p \in 2..(n + 1)
      BY <3>3
    <3>6. call.op = "UIDL" => \A p \in 1..(n + 2) : s[p].kind = "item" =>
                                s[p].i \in 1..n /\ s[p].v = box[s[p].i]
      BY <3>3, <3>5 DEF u
    <3>7. QED
      BY <2>1, <3>2, <3>3, <3>4, <3>6 DEF ListingAgrees, n
  <2>3. CASE call.op \in {"LIST", "UIDL"} /\ kind # "ok"
    <3>1. c.op = call.op /\ marks = {}
      BY <1>1, <1>6, <2>3
    <3>2. toClient' = Err(sent)
      BY <1>1, <1>5, <2>3, <3>1, ListingOutcome DEF kind
    <3>3. Len(toClient') = 1 /\ toClient'[1].kind = "err"
      BY <3>2 DEF Err, Line
    <3>4. \A p \in 1..Len(toClient') : toClient'[p].kind # "item"
      BY <3>3
    <3>5. QED
      BY <1>11, <2>1, <2>3, <3>4 DEF ListingAgrees
  <2>4. CASE call.op \notin {"LIST", "UIDL"}
    BY <1>1, <1>11, <2>1, <2>4 DEF ListingAgrees
  <2>5. QED
    BY <2>2, <2>3, <2>4
<1>15. QED
  BY <1>12, <1>13, <1>14 DEF Agree

\* The invariant of the agreement is inductive.
LEMMA SessionStep ==
  ASSUME SessionInv, [Next]_vars
  PROVE  SessionInv'
<1>1. PhaseInv /\ PhaseInv' /\ TableInv /\ TableInv'
  BY PhaseStep DEF SessionInv, PhaseInv
<1> SUFFICES ASSUME ~late', server' # "closed"
             PROVE  Agree'
  BY <1>1 DEF SessionInv, Agreement, Agree
<1>2. CASE Connect
  <2>1. /\ state = "DISCONNECTED" /\ UNCHANGED <<state, listed>> /\ server' \in {"auth", "closed"}
        /\ call'.op = "CONNECT" /\ call'.at = "status" /\ marks' = {}
    BY <1>2 DEF Connect, Waiting, tabVars
  <2>2. ~listed /\ server' = "auth"
    BY <1>1, <2>1 DEF TableInv, Structured
  <2>3. ~LoggingIn' /\ ~Accepted("LIST")'
    BY <2>1 DEF LoggingIn, Accepted
  <2>4. QED
    BY <2>1, <2>2, <2>3 DEF Agree, LoginAgrees, TableAgrees, ListingAgrees
<1>3. CASE ClientStarts
  <2>1. PICK op \in Ops, m \in 0..N, then \in Commands : Issues(op, m, then)
    BY <1>1, <1>3, StartsIssue
  <2>2. ~late /\ server # "closed"
    BY <2>1 DEF Issues, serverVars
  <2>3. QED
    BY <2>1, <2>2, IssuesAgree
<1>4. ~Closes
  BY DEF Closes
<1>5. CASE Quit
  <2>1. "QUIT" \in Ops /\ None \in Commands /\ 0 \in 0..N
    BY IdleFacts DEF Ops
  <2>2. Issues("QUIT", 0, None)
    BY <1>1, <1>4, <1>5, QuitFacts
  <2>3. ~late /\ server # "closed"
    BY <2>2 DEF Issues, serverVars
  <2>4. QED
    BY <2>1, <2>2, <2>3, IssuesAgree
<1>6. CASE StatusLine
  <2>1. ~late
    BY <1>6 DEF StatusLine
  <2>2. PICK r : server' = server \/ StlsReply(r)
    BY <1>6 DEF StatusLine, DeleReply, RsetReply, LongReply, ListReply, ShortReply
  <2>3. server # "closed"
    BY <2>2 DEF StlsReply
  <2>4. QED
    BY <1>6, <2>1, <2>3, StatusLineAgrees
<1>7. CASE QuitReply
  BY <1>4, <1>7 DEF QuitReply, Close, Closes
<1>8. CASE AuthLine
  <2>1. ~late /\ server # "closed"
    BY <1>8 DEF AuthLine, serverVars
  <2>2. QED
    BY <1>8, <2>1, AuthLineAgrees
<1>9. CASE ContentLine
  <2>1. ~late /\ server # "closed"
    BY <1>9 DEF ContentLine, serverVars
  <2>2. QED
    BY <1>9, <2>1, ContentLineAgrees
<1>10. CASE ListLine
  <2>1. ~late /\ server # "closed"
    BY <1>10 DEF ListLine, serverVars
  <2>2. QED
    BY <1>10, <2>1, ListLineAgrees
<1>11. CASE UidlLine
  <2>1. ~late /\ server # "closed"
    BY <1>11 DEF UidlLine, serverVars
  <2>2. QED
    BY <1>11, <2>1, UidlLineAgrees
<1>12. CASE Timeout
  BY <1>4, <1>12 DEF Timeout, Closes
<1>13. CASE Serve
  BY <1>13, ServeAgrees DEF Serve
<1>14. CASE Drop \/ DropRest
  BY <1>14 DEF Drop, DropRest, serverVars
<1>15. CASE UNCHANGED vars
  <2>1. UNCHANGED <<state, listed, tab, deleted_count, call, toServer, toClient, server, box, marks, late>>
    BY <1>15 DEF vars, serverVars, tabVars
  <2>2. Agree
    BY <2>1 DEF SessionInv, Agreement, Agree
  <2>3. QED
    BY <2>1, <2>2 DEF Agree, LoginAgrees, LoggingIn, Accepted, TableAgrees, MarksAgree, Marked,
                      ListingAgrees
<1>16. QED
  BY <1>2, <1>3, <1>5, <1>6, <1>7, <1>8, <1>9, <1>10, <1>11, <1>12, <1>13, <1>14, <1>15
     DEF Next, ClientStarts

\* Between two calls of a session of mailpop3.c in which every answer was
\* waited for, the client and the server agree on who is logged in, on the
\* messages that QUIT will delete, on their number, and on the uids.
THEOREM SessionsAgree == Spec => []SessionAgrees
<1>1. Init => SessionInv
  <2> SUFFICES ASSUME Init PROVE SessionInv
    OBVIOUS
  <2>1. TableInv
    BY TableInit
  <2>2. Phase
    BY IdleFacts DEF Init, Phase, Quiet
  <2>3. Agreement
    BY DEF Init, Agreement
  <2>4. QED
    BY <2>1, <2>2, <2>3 DEF PhaseInv, SessionInv
<1>2. SessionInv => SessionAgrees
  <2> SUFFICES ASSUME SessionInv, ~late, call = Idle, stream, server # "closed"
               PROVE  /\ (state = "TRANSACTION") = (server = "trans")
                      /\ listed => /\ Len(tab) = Len(box)
                                   /\ {i \in DOMAIN tab : tab[i].deleted} = marks
                                   /\ deleted_count = Cardinality(marks)
                                   /\ \A i \in DOMAIN tab : tab[i].uid \in {0, box[i]}
    BY DEF SessionAgrees
  <2>1. Agree /\ call.op = "none" /\ DOMAIN tab = 1..Len(tab)
    BY IdleFacts DEF SessionInv, Agreement, Agree, PhaseInv, TableInv, Typed, TypeOK
  <2>2. (state = "TRANSACTION") = (server = "trans")
    BY <2>1 DEF Agree, LoginAgrees, LoggingIn, Accepted
  <2>3. listed => marks = Marked
    BY <2>1 DEF Agree, TableAgrees, MarksAgree, Accepted
  <2>4. QED
    BY <2>1, <2>2, <2>3 DEF Agree, TableAgrees, Marked
<1>3. QED
  BY <1>1, <1>2, SessionStep, PTL DEF Spec
=============================================================================
