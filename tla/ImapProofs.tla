----------------------------- MODULE ImapProofs -----------------------------
(***************************************************************************)
(* The properties of an IMAP session, for any number of commands, messages,*)
(* timeouts and connections.                                               *)
(***************************************************************************)
EXTENDS Imap, TLAPS

Exchanges == {"APPEND", "AUTHENTICATE", "IDLE"}
Places == {"nonauth", "auth", "selected"}
Items == [kind : Kinds, n : 0..MaxHeld, tag : Nat,
          verdict : {"none", "OK", "NO", "BAD", "PREAUTH", "BYE"}]
Commands == [op : Ops \cup {"LITERAL"}, tag : Nat]
Reads == {"response", "early", "go", "once"}

\* The types, those of the lines under way included.
Typed ==
  /\ TypeOK /\ tag \in Nat /\ stag \in Nat /\ connects \in 0..MaxConnects /\ late \in BOOLEAN
  /\ toServer \in Seq(Commands) /\ toClient \in Seq(Items)
  /\ back \in Places \cup {"closed"}

\* A call and the session it belongs to.
Structured ==
  /\ call # Idle => /\ stream /\ ~idling
                    /\ (state = "SELECTED" \/ call.op = "SELECT") => call.sel.set
  /\ idling => stream
  /\ call.at = "greeting" <=> call.op = "CONNECT"
  /\ call.op = "CONNECT" => state = "DISCONNECTED"
  /\ call.at \in {"go", "once"} => call.op \in Exchanges /\ call.sel = sel
  /\ call.at = "once" => call.op = "AUTHENTICATE"
  /\ call.at = "early" => call.op \in {"APPEND", "AUTHENTICATE"}
  /\ server \in Places => back = server
  /\ server \in Exchanges => back \in Places

\* A connection is given up by its LOGOUT, the only command without a bound.
TagsBounded ==
  /\ stream => connects > 0
  /\ tag + (IF stream THEN 1 ELSE 0) <= MaxTags + connects + (IF call.op = "LOGOUT" THEN 1 ELSE 0)

\* The tags of s go up from lo to hi.
Rising(s, lo, hi) ==
  /\ lo <= hi
  /\ \A p \in 1..Len(s) : lo <= s[p].tag /\ s[p].tag <= hi
  /\ \A p, q \in 1..Len(s) : p <= q => s[p].tag <= s[q].tag

\* The server serves the commands in the order of their tags.
InOrder ==
  /\ Rising(toServer, granted, tag)
  /\ server \in Exchanges => granted <= stag /\ Rising(toServer, stag, tag)

\* What a client may take for success was granted, by the last granted tag g.
Grants(s, g) ==
  /\ \A p \in 1..Len(s) : s[p].kind = "tagged" =>
       s[p].verdict \in {"OK", "NO", "BAD"} /\ (s[p].verdict = "OK" => s[p].tag <= g)
  /\ \A p \in 1..Len(s) : s[p].kind = "fetch" =>
       p < Len(s) /\ s[p + 1].kind = "tagged" /\ s[p + 1].tag <= g

Granted ==
  /\ Grants(toClient, granted)
  /\ "fetch" \in call.seen => toClient # <<>> /\ toClient[1].kind = "tagged" /\ toClient[1].tag <= granted
  /\ call = Idle /\ ret = "OK" /\ ~idling => granted = tag \/ (~stream /\ state = "DISCONNECTED")

OwnInv == Typed /\ Structured /\ TagsBounded /\ InOrder /\ Granted

-----------------------------------------------------------------------------
Changes(s) == \A p \in 1..Len(s) : s[p].kind \in {"exists", "expunge", "vanished", "notice"}

\* The command, or the rest of the exchange, is under way.
Asked ==
  /\ Len(toServer) = 1 /\ toServer[1].tag = tag /\ Changes(toClient)
  /\ \/ /\ toServer[1].op = call.op /\ call.op # "DONE" /\ toClient = <<>>
        /\ server \notin Exchanges
        /\ call.op \in Exchanges => call.at \in {"go", "once"}
        /\ call.op = "SELECT" => call.sel = NewSelection
     \/ /\ toServer[1].op = "LITERAL" /\ call.op \in {"APPEND", "AUTHENTICATE"} /\ toClient = <<>>
        /\ server = call.op /\ call.at # "early" /\ (call.op = "APPEND" => call.at = "response")
     \/ /\ toServer[1].op = "DONE" /\ call.op = "DONE" /\ server = "IDLE"

\* The rest of the response is to be read.
Answered ==
  /\ toServer = <<>> /\ toClient # <<>> /\ server \notin Exchanges
  /\ toClient[Len(toClient)].kind = "tagged" /\ toClient[Len(toClient)].tag = tag
  /\ \A p \in 1..(Len(toClient) - 1) : toClient[p].kind \in {"exists", "expunge", "vanished", "notice", "fetch"}
  /\ call.at \in {"go", "once"} => Len(toClient) = 1

\* The continuation request is to be read.
Invited ==
  /\ toServer = <<>> /\ call.at \in {"go", "once"} /\ server = call.op
  /\ \E k \in 1..Len(toClient) :
       /\ toClient[k].kind = "cont" /\ (k < Len(toClient) => call.op = "IDLE")
       /\ \A p \in 1..Len(toClient) : p # k => toClient[p].kind \in {"exists", "expunge", "vanished", "notice"}

\* append or authenticate took data before the continuation request for the
\* response: both sides wait.
Stuck ==
  /\ toServer = <<>> /\ call.at = "early" /\ call.op \in {"APPEND", "AUTHENTICATE"}
  /\ server = call.op
  /\ \A p \in 1..Len(toClient) : toClient[p].kind \in {"exists", "expunge", "vanished", "notice", "cont"}

\* Nothing went unread, and the server is there.
Live == ~late /\ server # "closed"

Phase ==
  Live =>
    /\ call = Idle => /\ toServer = <<>> /\ Changes(toClient) /\ (~idling => toClient = <<>>)
                      /\ server \notin {"APPEND", "AUTHENTICATE"} /\ idling = (server = "IDLE")
    /\ call.at = "greeting" => /\ toServer = <<>> /\ Len(toClient) = 1
                               /\ server \in {"nonauth", "auth"}
                               /\ server = "nonauth" => toClient[1].verdict = "OK"
                               /\ server = "auth" => toClient[1].verdict = "PREAUTH"
    /\ call.at \in Reads => Asked \/ Answered \/ Invited \/ Stuck
    /\ "bye" \notin call.seen
    /\ server \in Exchanges => stag = tag

PhaseInv == OwnInv /\ Phase

-----------------------------------------------------------------------------
StateFor(place) ==
  CASE place = "nonauth"  -> "NON_AUTHENTICATED"
    [] place = "auth"     -> "AUTHENTICATED"
    [] place = "selected" -> "SELECTED"

Counts == 0..(Uint32 - 1)

\* What a client that has counted n messages makes of an item.
Counted(item, n) ==
  CASE item.kind = "exists"  -> item.n
    [] item.kind = "expunge" -> (n + Uint32 - 1) % Uint32
    [] OTHER                 -> n

\* The items of s lead the count from a to b.
Path(s, a, b) ==
  \E h \in [0..Len(s) -> Counts] :
    /\ h[0] = a /\ h[Len(s)] = b
    /\ \A p \in 1..Len(s) : h[p] = Counted(s[p], h[p - 1])

\* A client that has counted n will have the right count, or a stale one, when
\* it has read what is under way.
Follows(n) == \E c \in Counts : Path(toClient, n, c) /\ (stale \/ c = held)

\* So will one that has read it, and reads the data sent now with the answer to
\* op: a SELECT counts from nothing.
Leads(op, data, n) ==
  \A a \in Counts : (stale \/ a = held \/ op = "SELECT") =>
    \E b \in Counts : Path(data, a, b) /\ (stale' \/ b = n)

\* The same of the next state.
FollowsNext(n) == \E c \in Counts : Path(toClient', n, c) /\ (stale' \/ c = held')

Answering == call.at \in Reads /\ toServer = <<>> /\ server \notin Exchanges

Agree ==
  /\ call.at = "greeting" \/ state = StateFor(back) \/ Answering
  /\ Answering => StateAfter(call.op, parse_response(toClient[Len(toClient)])) = StateFor(back)
  /\ back = "selected" => /\ call = Idle => Follows(sel.exists)
                          /\ call # Idle /\ (call.op = "SELECT" => Answering) => Follows(call.sel.exists)

Agreement == Live => Agree

SessionInv == PhaseInv /\ Agreement

-----------------------------------------------------------------------------
\* Sequences.

LEMMA ElementFacts ==
  ASSUME NEW S, NEW s \in Seq(S)
  PROVE  Len(s) \in Nat /\ \A p \in 1..Len(s) : s[p] \in S
  OBVIOUS

LEMMA TailFacts ==
  ASSUME NEW S, NEW s \in Seq(S), s # <<>>
  PROVE  /\ Tail(s) \in Seq(S) /\ Len(Tail(s)) = Len(s) - 1 /\ Len(s) \in Nat \ {0}
         /\ Head(s) = s[1] /\ s[1] \in S
         /\ \A p \in 1..(Len(s) - 1) : Tail(s)[p] = s[p + 1]
  OBVIOUS

LEMMA AppendFacts ==
  ASSUME NEW S, NEW s \in Seq(S), NEW e \in S
  PROVE  /\ Append(s, e) \in Seq(S) /\ Len(Append(s, e)) = Len(s) + 1 /\ Len(s) \in Nat
         /\ \A p \in 1..Len(s) : Append(s, e)[p] = s[p]
         /\ Append(s, e)[Len(s) + 1] = e
  OBVIOUS

LEMMA ConcatFacts ==
  ASSUME NEW S, NEW s \in Seq(S), NEW t \in Seq(S)
  PROVE  /\ s \o t \in Seq(S) /\ Len(s \o t) = Len(s) + Len(t)
         /\ Len(s) \in Nat /\ Len(t) \in Nat
         /\ \A p \in 1..Len(s) : (s \o t)[p] = s[p]
         /\ \A p \in (Len(s) + 1)..(Len(s) + Len(t)) : (s \o t)[p] = t[p - Len(s)]
  OBVIOUS

LEMMA RisingTail ==
  ASSUME NEW s \in Seq(Commands), s # <<>>, NEW lo \in Nat, NEW hi \in Nat, Rising(s, lo, hi)
  PROVE  /\ Rising(Tail(s), lo, hi) /\ Rising(Tail(s), s[1].tag, hi)
         /\ s[1].tag \in Nat /\ lo <= s[1].tag /\ s[1].tag <= hi
<1> DEFINE t == Tail(s)
<1>1. /\ t \in Seq(Commands) /\ Len(t) = Len(s) - 1 /\ Len(s) \in Nat \ {0} /\ s[1] \in Commands
      /\ \A p \in 1..(Len(s) - 1) : t[p] = s[p + 1]
  BY TailFacts
<1> HIDE DEF t
<1>2. s[1].tag \in Nat /\ lo <= s[1].tag /\ s[1].tag <= hi
  BY <1>1 DEF Rising, Commands
<1>3. /\ \A p \in 1..Len(t) : s[1].tag <= t[p].tag /\ lo <= t[p].tag /\ t[p].tag <= hi
      /\ \A p, q \in 1..Len(t) : p <= q => t[p].tag <= t[q].tag
  <2>1. \A p \in 1..Len(t) : p + 1 \in 1..Len(s) /\ t[p] = s[p + 1]
    BY <1>1
  <2>2. 1 \in 1..Len(s) /\ \A p \in 1..Len(t) : 1 <= p + 1
    BY <1>1
  <2>3. \A p, q \in 1..Len(t) : p <= q => p + 1 <= q + 1
    BY <1>1
  <2>4. \A p \in 1..Len(t) : s[1].tag <= t[p].tag /\ lo <= t[p].tag /\ t[p].tag <= hi
    BY <2>1, <2>2 DEF Rising
  <2>5. \A p, q \in 1..Len(t) : p <= q => t[p].tag <= t[q].tag
    BY <2>1, <2>3 DEF Rising
  <2>6. QED
    BY <2>4, <2>5
<1>4. QED
  BY <1>2, <1>3 DEF Rising, t

LEMMA RisingAppend ==
  ASSUME NEW s \in Seq(Commands), NEW lo \in Nat, NEW hi \in Nat, Rising(s, lo, hi),
         NEW c \in Commands, hi <= c.tag
  PROVE  Rising(Append(s, c), lo, c.tag)
<1> DEFINE t == Append(s, c)
<1>1. /\ Len(t) = Len(s) + 1 /\ Len(s) \in Nat /\ t[Len(s) + 1] = c
      /\ \A p \in 1..Len(s) : t[p] = s[p]
  BY AppendFacts
<1>2. c.tag \in Nat /\ \A p \in 1..Len(s) : s[p].tag \in Nat
  <2>1. \A p \in 1..Len(s) : s[p] \in Commands
    BY ElementFacts
  <2>2. QED
    BY <2>1 DEF Commands
<1> HIDE DEF t
<1>3. \A p \in 1..Len(t) : lo <= t[p].tag /\ t[p].tag <= c.tag
  BY <1>1, <1>2 DEF Rising
<1>4. \A p, q \in 1..Len(t) : p <= q => t[p].tag <= t[q].tag
  <2> SUFFICES ASSUME NEW p \in 1..Len(t), NEW q \in 1..Len(t), p <= q
               PROVE  t[p].tag <= t[q].tag
    OBVIOUS
  <2>1. CASE q = Len(s) + 1
    BY <1>1, <1>3, <2>1
  <2>2. CASE q \in 1..Len(s)
    BY <1>1, <2>2 DEF Rising
  <2>3. QED
    BY <1>1, <2>1, <2>2
<1>5. QED
  BY <1>2, <1>3, <1>4 DEF Rising, t

LEMMA GrantsTail ==
  ASSUME NEW s \in Seq(Items), s # <<>>, NEW g \in Nat, Grants(s, g)
  PROVE  Grants(Tail(s), g)
<1> DEFINE t == Tail(s)
<1>1. /\ Len(t) = Len(s) - 1 /\ Len(s) \in Nat \ {0}
      /\ \A p \in 1..(Len(s) - 1) : t[p] = s[p + 1]
  BY TailFacts
<1> HIDE DEF t
<1>2. Grants(t, g)
  BY <1>1, SMTT(60) DEF Grants
<1>3. QED
  BY <1>2 DEF t

LEMMA GrantsConcat ==
  ASSUME NEW s \in Seq(Items), NEW t \in Seq(Items), NEW g \in Nat, NEW h \in Nat, g <= h,
         Grants(s, g), Grants(t, h)
  PROVE  Grants(s \o t, h)
<1> DEFINE u == s \o t
           m == Len(s)
           n == Len(t)
<1>1. /\ Len(u) = m + n /\ m \in Nat /\ n \in Nat
      /\ \A p \in 1..m : u[p] = s[p]
      /\ \A p \in (m + 1)..(m + n) : u[p] = t[p - m]
  BY ConcatFacts
<1>2. (\A p \in 1..m : s[p].tag \in Nat) /\ (\A p \in 1..n : t[p].tag \in Nat)
  <2>1. (\A p \in 1..m : s[p] \in Items) /\ (\A p \in 1..n : t[p] \in Items)
    BY ElementFacts
  <2>2. QED
    BY <2>1 DEF Items
<1>3. \A p \in 1..m : s[p].kind = "tagged" =>
        s[p].verdict \in {"OK", "NO", "BAD"} /\ (s[p].verdict = "OK" => s[p].tag <= h)
  BY <1>2 DEF Grants
<1>4. \A p \in 1..m : s[p].kind = "fetch" =>
        p + 1 \in 1..m /\ s[p + 1].kind = "tagged" /\ s[p + 1].tag <= h
  BY <1>1, <1>2 DEF Grants
<1>5. /\ \A p \in 1..n : t[p].kind = "tagged" =>
           t[p].verdict \in {"OK", "NO", "BAD"} /\ (t[p].verdict = "OK" => t[p].tag <= h)
      /\ \A p \in 1..n : t[p].kind = "fetch" =>
           p + 1 \in 1..n /\ t[p + 1].kind = "tagged" /\ t[p + 1].tag <= h
  BY <1>1 DEF Grants
<1> HIDE DEF u, m, n
<1>6. ASSUME NEW p \in 1..Len(u)
      PROVE  p \in 1..m \/ (p - m \in 1..n /\ p \in (m + 1)..(m + n))
  BY <1>1
<1>7. \A p \in 1..Len(u) : u[p].kind = "tagged" =>
        u[p].verdict \in {"OK", "NO", "BAD"} /\ (u[p].verdict = "OK" => u[p].tag <= h)
  BY <1>1, <1>3, <1>5, <1>6
<1>8. ASSUME NEW p \in 1..Len(u), u[p].kind = "fetch"
      PROVE  p < Len(u) /\ u[p + 1].kind = "tagged" /\ u[p + 1].tag <= h
  <2>1. CASE p \in 1..m
    BY <1>1, <1>4, <1>8, <2>1
  <2>2. CASE p - m \in 1..n /\ p \in (m + 1)..(m + n)
    <3>1. t[p - m].kind = "fetch"
      BY <1>1, <1>8, <2>2
    <3>2. (p - m) + 1 \in 1..n /\ t[(p - m) + 1].kind = "tagged" /\ t[(p - m) + 1].tag <= h
      BY <1>5, <2>2, <3>1
    <3>3. p + 1 \in (m + 1)..(m + n) /\ (p + 1) - m = (p - m) + 1
      BY <1>1, <2>2, <3>2, SMTT(60)
    <3>4. QED
      BY <1>1, <2>2, <3>2, <3>3
  <2>3. QED
    BY <1>6, <2>1, <2>2
<1>9. QED
  BY <1>7, <1>8 DEF Grants, u

-----------------------------------------------------------------------------
\* The count of messages along a sequence of items.

LEMMA PathFacts ==
  ASSUME NEW s \in Seq(Items), NEW a, NEW b, Path(s, a, b)
  PROVE  a \in Counts /\ b \in Counts /\ (s = <<>> => a = b)
<1>1. PICK h \in [0..Len(s) -> Counts] : h[0] = a /\ h[Len(s)] = b
  BY DEF Path
<1>2. 0 \in 0..Len(s) /\ Len(s) \in 0..Len(s)
  BY ElementFacts
<1>3. s = <<>> => Len(s) = 0
  OBVIOUS
<1>4. QED
  BY <1>1, <1>2, <1>3

LEMMA PathEmpty ==
  ASSUME NEW a \in Counts
  PROVE  Path(<<>>, a, a)
<1> DEFINE h == [p \in 0..0 |-> a]
<1>1. h \in [0..0 -> Counts] /\ h[0] = a
  OBVIOUS
<1>2. Len(<<>>) = 0 /\ 1..0 = {}
  OBVIOUS
<1> HIDE DEF h
<1>3. \E k \in [0..0 -> Counts] : k[0] = a /\ \A p \in {} : k[p] = Counted(<<>>[p], k[p - 1])
  BY <1>1
<1>4. QED
  BY <1>2, <1>3 DEF Path

LEMMA PathOne ==
  ASSUME NEW item, NEW a \in Counts, NEW b \in Counts, Counted(item, a) = b
  PROVE  Path(<<item>>, a, b)
<1> DEFINE h == [p \in 0..1 |-> IF p = 0 THEN a ELSE b]
           s == <<item>>
<1>1. h \in [0..1 -> Counts] /\ h[0] = a /\ h[1] = b
  OBVIOUS
<1>2. Len(s) = 1 /\ s[1] = item
  OBVIOUS
<1> HIDE DEF h, s
<1>3. \A p \in 1..1 : h[p] = Counted(s[p], h[p - 1])
  <2>1. \A p \in 1..1 : p = 1
    OBVIOUS
  <2>2. h[1] = Counted(s[1], h[1 - 1])
    BY <1>1, <1>2
  <2>3. QED
    BY <2>1, <2>2
<1>4. Path(s, a, b)
  BY <1>1, <1>2, <1>3 DEF Path
<1>5. QED
  BY <1>4 DEF s

LEMMA PathConcat ==
  ASSUME NEW s \in Seq(Items), NEW t \in Seq(Items), NEW a, NEW b, NEW c, Path(s, a, b), Path(t, b, c)
  PROVE  Path(s \o t, a, c)
<1> DEFINE u == s \o t
           m == Len(s)
           n == Len(t)
<1>1. /\ Len(u) = m + n /\ m \in Nat /\ n \in Nat
      /\ \A p \in 1..m : u[p] = s[p]
      /\ \A p \in (m + 1)..(m + n) : u[p] = t[p - m]
  BY ConcatFacts
<1>2. PICK g \in [0..m -> Counts] :
        g[0] = a /\ g[m] = b /\ \A p \in 1..m : g[p] = Counted(s[p], g[p - 1])
  BY DEF Path
<1>3. PICK k \in [0..n -> Counts] :
        k[0] = b /\ k[n] = c /\ \A p \in 1..n : k[p] = Counted(t[p], k[p - 1])
  BY DEF Path
<1> HIDE DEF u, m, n
<1> DEFINE h == [p \in 0..(m + n) |-> IF p <= m THEN g[p] ELSE k[p - m]]
<1>4. /\ \A p \in 0..m : h[p] = g[p]
      /\ \A p \in (m + 1)..(m + n) : h[p] = k[p - m]
      /\ h[m] = k[0]
  BY <1>1, <1>2, <1>3
<1>5. h \in [0..(m + n) -> Counts]
  BY <1>1, <1>2, <1>3
<1> HIDE DEF h
<1>6. h[0] = a
  BY <1>1, <1>2, <1>4
<1>7. h[m + n] = c
  <2>1. CASE n = 0
    BY <1>1, <1>3, <1>4, <2>1
  <2>2. CASE n # 0
    <3>1. m + n \in (m + 1)..(m + n) /\ (m + n) - m = n
      BY <1>1, <2>2
    <3>2. QED
      BY <1>3, <1>4, <3>1
  <2>3. QED
    BY <2>1, <2>2
<1>8. ASSUME NEW p \in 1..(m + n)
      PROVE  h[p] = Counted(u[p], h[p - 1])
  <2>1. CASE p \in 1..m
    <3>1. p \in 0..m /\ p - 1 \in 0..m
      BY <1>1, <2>1
    <3>2. QED
      BY <1>1, <1>2, <1>4, <2>1, <3>1
  <2>2. CASE p \in (m + 1)..(m + n)
    <3>1. p - m \in 1..n /\ k[p - m] = Counted(t[p - m], k[(p - m) - 1])
      BY <1>1, <1>3, <2>2
    <3>2. h[p - 1] = k[(p - m) - 1]
      <4>1. CASE p = m + 1
        BY <1>1, <1>4, <4>1
      <4>2. CASE p # m + 1
        <5>1. p - 1 \in (m + 1)..(m + n) /\ (p - 1) - m = (p - m) - 1
          BY <1>1, <2>2, <4>2
        <5>2. QED
          BY <1>4, <5>1
      <4>3. QED
        BY <4>1, <4>2
    <3>3. QED
      BY <1>1, <1>4, <2>2, <3>1, <3>2
  <2>3. QED
    BY <1>1, <2>1, <2>2
<1>9. Path(u, a, c)
  BY <1>1, <1>5, <1>6, <1>7, <1>8 DEF Path
<1>10. QED
  BY <1>9 DEF u

LEMMA PathTail ==
  ASSUME NEW s \in Seq(Items), s # <<>>, NEW a, NEW b, Path(s, a, b)
  PROVE  /\ Counted(s[1], a) \in Counts /\ a \in Counts
         /\ Path(Tail(s), Counted(s[1], a), b)
<1> DEFINE t == Tail(s)
           n == Len(s)
<1>1. /\ Len(t) = n - 1 /\ n \in Nat \ {0} /\ \A p \in 1..(n - 1) : t[p] = s[p + 1]
  BY TailFacts
<1>2. PICK g \in [0..n -> Counts] :
        g[0] = a /\ g[n] = b /\ \A p \in 1..n : g[p] = Counted(s[p], g[p - 1])
  BY DEF Path
<1> HIDE DEF t, n
<1> DEFINE h == [p \in 0..(n - 1) |-> g[p + 1]]
<1>3. h \in [0..(n - 1) -> Counts] /\ \A p \in 0..(n - 1) : h[p] = g[p + 1]
  BY <1>1, <1>2
<1> HIDE DEF h
<1>4. g[1] = Counted(s[1], a) /\ g[1] \in Counts /\ a \in Counts
  <2>1. g[1] = Counted(s[1], g[1 - 1])
    BY <1>1, <1>2
  <2>2. QED
    BY <1>1, <1>2, <2>1
<1>5. h[0] = g[1] /\ h[n - 1] = b
  <2>1. 0 \in 0..(n - 1) /\ n - 1 \in 0..(n - 1) /\ (n - 1) + 1 = n
    BY <1>1
  <2>2. QED
    BY <1>2, <1>3, <2>1
<1>6. ASSUME NEW p \in 1..(n - 1)
      PROVE  h[p] = Counted(t[p], h[p - 1])
  <2>1. p \in 0..(n - 1) /\ p - 1 \in 0..(n - 1) /\ p + 1 \in 1..n /\ (p - 1) + 1 = (p + 1) - 1
    BY <1>1
  <2>2. QED
    BY <1>1, <1>2, <1>3, <2>1
<1>7. Path(t, g[1], b)
  BY <1>1, <1>3, <1>5, <1>6 DEF Path
<1>8. QED
  BY <1>4, <1>7 DEF t

-----------------------------------------------------------------------------
\* Constants, calls, data.

LEMMA ConstFacts ==
  /\ MaxTags \in Nat /\ MaxTimeouts \in Nat /\ MaxConnects \in Nat /\ MaxHeld \in Nat
  /\ Uint32 \in Nat /\ Uint32 > MaxHeld + 1
  BY ImapAssumption DEF ImapAssumption

LEMMA SelectionFacts ==
  /\ NoSelection \in Selections /\ NewSelection \in Selections
  /\ NewSelection.set = TRUE /\ NoSelection.set = FALSE
  BY ConstFacts DEF Selections, NoSelection, NewSelection

LEMMA IdleFacts ==
  /\ Idle.op = "none" /\ Idle.at = "none" /\ Idle.sel = NoSelection /\ Idle.seen = {}
  BY DEF Idle, Waiting

Calls == [op : Ops, at : {"greeting", "response", "early", "go", "once"},
          sel : Selections, seen : SUBSET Kinds]

\* A call that has read nothing yet.
Waits(op, at, s) ==
  /\ call' \in Calls /\ call' # Idle /\ call'.op = op /\ call'.at = at /\ call'.sel = s
  /\ call'.seen = {}

LEMMA WaitingFacts ==
  ASSUME NEW op \in Ops, NEW at \in {"greeting", "response", "early", "go", "once"},
         NEW s \in Selections, call' = Waiting(op, at, s)
  PROVE  Waits(op, at, s)
<1>1. /\ call' \in Calls /\ call'.op = op /\ call'.at = at /\ call'.sel = s /\ call'.seen = {}
  BY DEF Waiting, Calls
<1>2. QED
  BY <1>1, IdleFacts DEF Waits

LEMMA CallFacts ==
  ASSUME TypeOK
  PROVE  /\ call = Idle \/ call \in Calls
         /\ call.sel \in Selections /\ call.seen \in SUBSET Kinds
         /\ call \in Calls => /\ call.op \in Ops /\ call.op # "none" /\ call.at # "none" /\ call # Idle
                              /\ call.at \in {"greeting", "response", "early", "go", "once"}
<1>1. call = Idle \/ call \in Calls
  BY DEF TypeOK, Calls
<1>2. call \in Calls => /\ call.op \in Ops /\ call.op # "none" /\ call.at # "none"
                        /\ call.at \in {"greeting", "response", "early", "go", "once"}
                        /\ call.sel \in Selections /\ call.seen \in SUBSET Kinds
  BY DEF Calls, Ops
<1>3. QED
  BY <1>1, <1>2, IdleFacts, SelectionFacts

LEMMA FreshFacts ==
  ASSUME sel \in Selections, NEW op
  PROVE  /\ Fresh(op) \in Selections /\ (op # "SELECT" => Fresh(op) = sel)
         /\ op = "SELECT" => Fresh(op).set
  BY SelectionFacts DEF Fresh

\* sel_exists is a uint32_t.
LEMMA CountedFacts ==
  ASSUME NEW item \in Items, NEW n \in Counts
  PROVE  Counted(item, n) \in Counts
<1>1. (n + Uint32 - 1) % Uint32 \in Counts
  BY ConstFacts DEF Counts
<1>2. item.n \in Counts
  BY ConstFacts DEF Items, Counts
<1>3. QED
  BY <1>1, <1>2 DEF Counted

LEMMA DataStoreFacts ==
  ASSUME NEW s \in Selections, NEW item \in Items
  PROVE  /\ data_store(s, item) \in Selections /\ data_store(s, item).set = s.set
         /\ s.exists \in Counts
         /\ s.set => data_store(s, item).exists = Counted(item, s.exists)
<1> DEFINE x == s.exists
           m == (x + Uint32 - 1) % Uint32
<1>1. x \in Counts /\ s.set \in BOOLEAN
  BY DEF Selections, Counts
<1>2. m \in Counts /\ item.n \in Counts
  BY <1>1, ConstFacts DEF Counts, Items
<1>3. CASE s.set /\ item.kind = "exists"
  <2>1. data_store(s, item) = [s EXCEPT !.exists = item.n]
    BY <1>3 DEF data_store
  <2>2. QED
    BY <1>1, <1>2, <1>3, <2>1 DEF Selections, Counted, Counts
<1>4. CASE s.set /\ item.kind = "expunge"
  <2>1. data_store(s, item) = [s EXCEPT !.exists = m]
    BY <1>4 DEF data_store
  <2>2. Counted(item, s.exists) = m
    BY <1>4 DEF Counted
  <2> HIDE DEF m
  <2>3. QED
    BY <1>1, <1>2, <1>4, <2>1, <2>2 DEF Selections, Counts
<1>5. CASE ~ (s.set /\ item.kind \in {"exists", "expunge"})
  BY <1>1, <1>5 DEF data_store, Counted
<1>6. QED
  BY <1>1, <1>3, <1>4, <1>5

-----------------------------------------------------------------------------
\* Success is one's own: what the steps have in common.

LEMMA OrderKept ==
  ASSUME OwnInv, UNCHANGED <<tag, granted, stag>>, toServer' \in {toServer, <<>>},
         server' \in {server} \cup Places \cup {"closed"}
  PROVE  InOrder'
<1>1. \A lo : Rising(toServer, lo, tag) => Rising(toServer', lo, tag)
  BY DEF Rising
<1>2. server' \in Exchanges => server \in Exchanges
  BY DEF Exchanges, Places
<1>3. QED
  BY <1>1, <1>2 DEF OwnInv, InOrder

LEMMA OrderAppends ==
  ASSUME OwnInv, tag' \in {tag, tag + 1}, UNCHANGED <<granted, stag>>, server' = server,
         NEW c \in Commands, c.tag = tag', toServer' = Append(toServer, c)
  PROVE  InOrder'
<1>1. /\ tag \in Nat /\ granted \in Nat /\ stag \in Nat /\ toServer \in Seq(Commands) /\ tag <= tag'
      /\ tag' \in Nat
  BY DEF OwnInv, Typed, TypeOK
<1>2. \A lo \in Nat : Rising(toServer, lo, tag) => Rising(toServer', lo, tag')
  BY <1>1, RisingAppend
<1>3. QED
  BY <1>1, <1>2 DEF OwnInv, InOrder

\* The client reads the first item, or leaves it.
LEMMA GrantsKept ==
  ASSUME OwnInv, granted' = granted,
         \/ toClient' \in {toClient, <<>>}
         \/ toClient # <<>> /\ toClient' = Tail(toClient)
  PROVE  Grants(toClient, granted)' /\ toClient' \in Seq(Items)
<1>1. toClient \in Seq(Items) /\ granted \in Nat /\ Grants(toClient, granted)
  BY DEF OwnInv, Typed, TypeOK, Granted
<1>2. CASE toClient' \in {toClient, <<>>}
  <2>1. Grants(<< >>, granted)
    BY DEF Grants
  <2>2. << >> \in Seq(Items)
    OBVIOUS
  <2>3. QED
    BY <1>1, <1>2, <2>1, <2>2, Zenon
<1>3. CASE toClient # <<>> /\ toClient' = Tail(toClient)
  <2>1. Grants(Tail(toClient), granted)
    BY <1>1, <1>3, GrantsTail
  <2>2. Tail(toClient) \in Seq(Items)
    BY <1>1, <1>3
  <2>3. QED
    BY <1>3, <2>1, <2>2
<1>4. QED
  BY <1>2, <1>3

\* The next item of the response.
LEMMA FirstItem ==
  ASSUME OwnInv, toClient # <<>>
  PROVE  /\ toClient[1] \in Items /\ Head(toClient) = toClient[1] /\ Len(toClient) \in Nat \ {0}
         /\ Tail(toClient) \in Seq(Items) /\ Len(Tail(toClient)) = Len(toClient) - 1
         /\ \A p \in 1..(Len(toClient) - 1) : Tail(toClient)[p] = toClient[p + 1]
  BY TailFacts DEF OwnInv, Typed

\* A command goes out.
Issues(op, at) ==
  /\ op \in Ops \ {"CONNECT", "DONE"}
  /\ \/ at = "response" /\ op \notin Exchanges
     \/ at = "go" /\ op \in Exchanges
     \/ at = "once" /\ op = "AUTHENTICATE"
  /\ op \in {"LOGIN", "AUTHENTICATE"} => state = "NON_AUTHENTICATED"
  /\ op \in {"MAILBOX", "ENABLE", "SELECT", "APPEND"} => InSession
  /\ op \in {"MESSAGE", "FETCH", "EXPUNGE", "CLOSE"} => state = "SELECTED"
  /\ Command(op, at)

ClientStarts ==
  \/ AnyStateCommand \/ MailboxCommand \/ MessageCommand
  \/ Login \/ Authenticate \/ Oauth2 \/ Select \/ Examine \/ SelectQresync
  \/ CloseMailbox \/ Logout \/ Append_ \/ StartIdle

LEMMA StartsIssue ==
  ASSUME ClientStarts
  PROVE  \E op, at : Issues(op, at)
<1> USE DEF Issues, Ops, Exchanges
<1>1. CASE AnyStateCommand
  <2>1. Command("NOOP", "response") \/ Command("STARTTLS", "response")
    BY <1>1 DEF AnyStateCommand, Noop, Capability, CustomCommand, Compress, Id, Starttls, ClientId
  <2>2. Issues("NOOP", "response") \/ Issues("STARTTLS", "response")
    BY <2>1
  <2>3. QED
    BY <2>2
<1>2. CASE MailboxCommand
  <2>1. InSession /\ (Command("MAILBOX", "response") \/ Command("ENABLE", "response"))
    BY <1>2 DEF MailboxCommand, Create, Delete, Rename, List, Lsub, Xlist, Status, Subscribe,
                Unsubscribe, Namespace, Getquotaroot, Setacl, Deleteacl, Getacl, Listrights, Myrights,
                Getannotation, Setannotation, Enable, InSession
  <2>2. Issues("MAILBOX", "response") \/ Issues("ENABLE", "response")
    BY <2>1
  <2>3. QED
    BY <2>2
<1>3. CASE MessageCommand
  <2>1. state = "SELECTED" /\ \E op \in {"MESSAGE", "FETCH", "EXPUNGE"} : Command(op, "response")
    BY <1>3 DEF MessageCommand, Check, Copy, UidCopy, Store, UidStore, StoreLabels, UidStoreLabels,
                Search, Sort, UidSort, Fetch, UidFetch, Expunge, UidExpunge, Move, UidMove
  <2>2. \E op \in {"MESSAGE", "FETCH", "EXPUNGE"} : Issues(op, "response")
    BY <2>1
  <2>3. QED
    BY <2>2
<1>4. CASE Login \/ Select \/ Examine \/ SelectQresync \/ CloseMailbox \/ Logout
  <2>1. \E op \in {"LOGIN", "SELECT", "CLOSE", "LOGOUT"} : Issues(op, "response")
    BY <1>4 DEF Login, Select, Examine, SelectQresync, CloseMailbox, Logout
  <2>2. QED
    BY <2>1
<1>5. CASE Authenticate \/ Oauth2 \/ Append_ \/ StartIdle
  <2>1. \E op \in {"AUTHENTICATE", "APPEND", "IDLE"}, at \in {"go", "once"} : Issues(op, at)
    BY <1>5 DEF Authenticate, Oauth2, Append_, StartIdle
  <2>2. QED
    BY <2>1
<1>6. QED
  BY <1>1, <1>2, <1>3, <1>4, <1>5 DEF ClientStarts

LEMMA IssuesOwn ==
  ASSUME OwnInv, NEW op, NEW at, Issues(op, at)
  PROVE  OwnInv'
<1> DEFINE c == [op |-> op, tag |-> tag + 1]
<1>1. /\ op \in Ops \ {"CONNECT", "DONE"} /\ at \in {"response", "go", "once"}
      /\ op \notin {"CONNECT", "none"}
  BY DEF Issues, Ops
<1>2. /\ call = Idle /\ stream /\ ~idling /\ (tag < MaxTags \/ op = "LOGOUT") /\ tag' = tag + 1
      /\ toServer' = Append(toServer, c) /\ call' = Waiting(op, at, Fresh(op))
      /\ UNCHANGED <<state, stream, sel, ret, idling, toClient, server, back, stag, held, qresync, granted, stale,
                     connects, late>>
  BY DEF Issues, Command, serverVars, countVars
<1>3. /\ tag \in Nat /\ sel \in Selections /\ toServer \in Seq(Commands) /\ granted \in 0..tag
      /\ connects \in 0..MaxConnects /\ TypeOK
  BY DEF OwnInv, Typed, TypeOK
<1>4. c \in Commands /\ c.tag = tag'
  BY <1>1, <1>2, <1>3 DEF Commands
<1>5. toServer' \in Seq(Commands)
  BY <1>2, <1>3, <1>4
<1>6. /\ call' \in Calls /\ call' # Idle /\ call'.op = op /\ call'.at = at /\ call'.sel = Fresh(op)
      /\ call'.seen = {}
  <2>1. Fresh(op) \in Selections /\ op \in Ops /\ at \in {"greeting", "response", "early", "go", "once"}
    BY <1>1, <1>3, FreshFacts
  <2>2. call' = Waiting(op, at, Fresh(op))
    BY <1>2
  <2>3. Waits(op, at, Fresh(op))
    BY <2>1, <2>2, WaitingFacts
  <2>4. QED
    BY <2>3 DEF Waits
<1>7. TagsBounded'
  <2>1. connects > 0 /\ tag + 1 <= MaxTags + connects
    <3>1. call.op # "LOGOUT" /\ TagsBounded /\ stream
      BY <1>2, IdleFacts DEF OwnInv
    <3>2. QED
      BY <1>3, <3>1, ConstFacts DEF TagsBounded
  <2>2. QED
    BY <1>2, <1>3, <1>6, <2>1, ConstFacts DEF TagsBounded
<1>8. tag' \in 0..(MaxTags + MaxConnects)
  BY <1>2, <1>3, <1>7, <1>6, ConstFacts DEF TagsBounded
<1>9. Typed'
  BY <1>2, <1>3, <1>5, <1>6, <1>8 DEF OwnInv, Typed, TypeOK, Calls
<1>10. Structured'
  <2>1. state = "SELECTED" => sel.set
    BY <1>3 DEF TypeOK
  <2>2. Fresh(op).set \/ ~ (state = "SELECTED" \/ op = "SELECT")
    BY <1>3, <2>1, FreshFacts
  <2>3. at \in {"go", "once"} => op \in Exchanges /\ Fresh(op) = sel
    BY <1>3, FreshFacts DEF Issues, Exchanges
  <2>4. QED
    BY <1>1, <1>2, <1>6, <2>2, <2>3 DEF OwnInv, Structured, Issues
<1>11. InOrder'
  BY <1>2, <1>4, OrderAppends
<1>12. Granted'
  BY <1>2, <1>6, GrantsKept DEF Granted
<1>13. QED
  BY <1>7, <1>9, <1>10, <1>11, <1>12 DEF OwnInv

LEMMA ConnectOwn ==
  ASSUME OwnInv, Connect
  PROVE  OwnInv'
<1>1. PICK greeting \in {"OK", "PREAUTH", "BYE"} :
        /\ toClient' = << Item("greeting", 0, 0, greeting) >>
        /\ server' = CASE greeting = "OK" -> "nonauth" [] greeting = "PREAUTH" -> "auth"
                       [] greeting = "BYE" -> "closed"
        /\ back' = server'
  BY DEF Connect
<1>2. /\ call = Idle /\ state = "DISCONNECTED" /\ connects < MaxConnects
      /\ toServer' = <<>> /\ stag' = 0 /\ held' = 0 /\ stream' = TRUE /\ idling' = FALSE /\ late' = FALSE
      /\ qresync' = FALSE /\ stale' = FALSE
      /\ call' = Waiting("CONNECT", "greeting", sel) /\ connects' = connects + 1
      /\ UNCHANGED <<state, tag, sel, ret, granted>>
  BY DEF Connect
<1>3. /\ TypeOK /\ sel \in Selections /\ tag \in Nat /\ connects \in 0..MaxConnects /\ granted \in 0..tag
  BY DEF OwnInv, Typed, TypeOK
<1>4. Waits("CONNECT", "greeting", sel)
  BY <1>2, <1>3, WaitingFacts DEF Ops
<1>5. server' \in {"nonauth", "auth", "closed"} /\ back' = server'
  BY <1>1
<1>6. /\ toClient' \in Seq(Items) /\ Len(toClient') = 1 /\ toClient'[1].kind = "greeting"
  BY <1>1, ConstFacts DEF Item, Items, Kinds
<1>7. TagsBounded'
  <2>1. tag <= MaxTags + connects
    BY <1>2, <1>3, IdleFacts, ConstFacts DEF OwnInv, TagsBounded
  <2>2. QED
    BY <1>2, <1>3, <1>4, <2>1, ConstFacts DEF TagsBounded, Waits
<1>8. Typed'
  <2>1. toServer' \in Seq(Commands) /\ held' \in 0..MaxHeld /\ connects' \in 0..MaxConnects
    BY <1>2, <1>3, ConstFacts
  <2>2. call' \in Calls
    BY <1>4 DEF Waits
  <2>3. TypeOK'
    BY <1>2, <1>3, <1>5, <2>1, <2>2 DEF TypeOK, Calls
  <2>4. QED
    BY <1>2, <1>3, <1>5, <1>6, <2>1, <2>3 DEF Typed, Places
<1>9. Structured'
  BY <1>2, <1>4, <1>5 DEF Structured, Waits, Places, Exchanges
<1>10. InOrder'
  BY <1>2, <1>3, <1>5 DEF InOrder, Rising, Exchanges
<1>11. Granted'
  BY <1>4, <1>6 DEF Granted, Grants, Waits
<1>12. QED
  BY <1>7, <1>8, <1>9, <1>10, <1>11 DEF OwnInv

LEMMA IdleDoneOwn ==
  ASSUME OwnInv, IdleDone
  PROVE  OwnInv'
<1> DEFINE c == [op |-> "DONE", tag |-> tag]
<1>1. /\ call = Idle /\ idling /\ toServer' = Append(toServer, c)
      /\ call' = Waiting("DONE", "response", sel) /\ idling' = FALSE
      /\ UNCHANGED <<state, stream, tag, sel, ret, toClient, server, back, stag, held, qresync, granted, stale,
                     connects, late>>
  BY DEF IdleDone, serverVars, countVars
<1>2. /\ TypeOK /\ sel \in Selections /\ tag \in Nat /\ toServer \in Seq(Commands)
  BY DEF OwnInv, Typed, TypeOK
<1>3. c \in Commands /\ c.tag = tag'
  BY <1>1, <1>2 DEF Commands, Ops
<1>4. toServer' \in Seq(Commands)
  BY <1>1, <1>2, <1>3
<1>5. Waits("DONE", "response", sel)
  BY <1>1, <1>2, WaitingFacts DEF Ops
<1>6. TagsBounded'
  BY <1>1, <1>5, IdleFacts DEF OwnInv, TagsBounded, Waits
<1>7. Typed'
  <2>1. call' \in Calls
    BY <1>5 DEF Waits
  <2>2. call' \in {Idle} \cup [op : Ops, at : {"greeting", "response", "early", "go", "once"},
                               sel : Selections, seen : SUBSET Kinds]
    BY <2>1, Zenon DEF Calls
  <2>3. idling' \in BOOLEAN
    BY <1>1
  <2>4. TypeOK'
    BY <1>1, <1>2, <2>2, <2>3, ZenonT(30) DEF TypeOK
  <2>5. QED
    BY <1>1, <1>4, <2>4 DEF OwnInv, Typed
<1>8. Structured'
  <2>1. (state = "SELECTED" => sel.set) /\ stream
    BY <1>1, <1>2 DEF OwnInv, Structured, TypeOK
  <2>2. QED
    BY <1>1, <1>2, <1>5, <2>1 DEF OwnInv, Structured, Waits, TypeOK
<1>9. InOrder'
  BY <1>1, <1>3, OrderAppends
<1>10. Granted'
  BY <1>1, <1>5, GrantsKept DEF Granted, Waits
<1>11. QED
  BY <1>6, <1>7, <1>8, <1>9, <1>10 DEF OwnInv

States == {"DISCONNECTED", "NON_AUTHENTICATED", "AUTHENTICATED", "SELECTED"}
Results == {"none", "OK", "NO", "error"}

\* The first item is read, or none, or what is left is thrown away.
ReadsOne ==
  \/ toClient' \in {toClient, <<>>}
  \/ toClient # <<>> /\ toClient' = Tail(toClient)

\* A call returns.
LEMMA ReturnsOwn ==
  ASSUME OwnInv, call # Idle, call.op # "LOGOUT", call' = Idle, ReadsOne,
         UNCHANGED <<stream, tag, toServer, back, stag, held, qresync, granted, stale, connects>>,
         server' \in {server, "closed"}, state' \in States, sel' \in Selections,
         state' = "SELECTED" => sel'.set, ret' \in Results, idling' \in BOOLEAN, late' \in BOOLEAN,
         ret' = "OK" /\ ~idling' => granted = tag
  PROVE  OwnInv'
<1>1. /\ TypeOK /\ stream /\ TagsBounded
  BY DEF OwnInv, Typed, Structured
<1>2. TagsBounded'
  BY <1>1, IdleFacts DEF TagsBounded
<1>3. Grants(toClient, granted)' /\ toClient' \in Seq(Items)
  BY GrantsKept DEF ReadsOne
<1>4. Typed'
  <2>1. server' \in {"closed", "nonauth", "auth", "selected", "APPEND", "AUTHENTICATE", "IDLE"}
    BY <1>1 DEF TypeOK
  <2>2. TypeOK'
    BY <1>1, <2>1 DEF TypeOK, States, Results
  <2>3. QED
    BY <1>3, <2>2 DEF OwnInv, Typed
<1>5. Structured'
  BY <1>1, IdleFacts DEF OwnInv, Structured, Places, Exchanges
<1>6. InOrder'
  BY OrderKept
<1>7. Granted'
  BY <1>3, IdleFacts DEF Granted
<1>8. QED
  BY <1>2, <1>4, <1>5, <1>6, <1>7 DEF OwnInv

\* mailimap_logout returns.
LEMMA ClosesOwn ==
  ASSUME OwnInv, call.op = "LOGOUT", call' = Idle, Closes, sel' \in Selections, ret' \in Results
  PROVE  OwnInv'
<1>1. /\ TypeOK /\ call # Idle
  BY IdleFacts DEF OwnInv, Typed
<1>2. stream /\ TagsBounded /\ tag \in Nat /\ connects \in 0..MaxConnects
  BY <1>1 DEF OwnInv, Typed, Structured
<1>3. /\ stream' = FALSE /\ state' = "DISCONNECTED" /\ server' = "closed"
      /\ toServer' = <<>> /\ toClient' = <<>>
      /\ UNCHANGED <<tag, idling, back, stag, held, qresync, granted, stale, connects, late>>
  BY DEF Closes
<1>4. TagsBounded'
  BY <1>2, <1>3, IdleFacts, ConstFacts DEF TagsBounded
<1>5. Typed'
  <2>1. toServer' \in Seq(Commands) /\ toClient' \in Seq(Items)
    BY <1>3
  <2>2. TypeOK'
    BY <1>1, <1>3 DEF TypeOK, Results
  <2>3. QED
    BY <1>3, <2>1, <2>2 DEF OwnInv, Typed
<1>6. Structured'
  BY <1>1, <1>3, IdleFacts DEF OwnInv, Structured, Places, Exchanges
<1>7. InOrder'
  BY <1>3, OrderKept
<1>8. Granted'
  BY <1>3, IdleFacts DEF Granted, Grants
<1>9. QED
  BY <1>4, <1>5, <1>6, <1>7, <1>8 DEF OwnInv

LEMMA GreetedOwn ==
  ASSUME OwnInv, Greeted
  PROVE  OwnInv'
<1>1. /\ call.at = "greeting" /\ toClient' = <<>> /\ call' = Idle /\ ret' = "none"
      /\ UNCHANGED <<stream, tag, sel, idling, toServer, server, back, stag, held, qresync, granted, stale, connects, late>>
  BY DEF Greeted, Returns, serverVars, countVars
<1>2. TypeOK /\ call # Idle /\ call.op = "CONNECT" /\ state = "DISCONNECTED" /\ late \in BOOLEAN
  BY <1>1, IdleFacts DEF OwnInv, Typed, Structured
<1>3. state' \in States \ {"SELECTED"}
  <2>1. CASE toClient # <<>>
    BY <1>2, <2>1 DEF Greeted, States
  <2>2. CASE toClient = <<>>
    BY <1>2, <2>2 DEF Greeted, States
  <2>3. QED
    BY <2>1, <2>2
<1>4. QED
  BY <1>1, <1>2, <1>3, ReturnsOwn DEF ReadsOne, Results, TypeOK

-----------------------------------------------------------------------------
\* Success is one's own: the responses.

\* An item other than the tagged response is read and stored.
LEMMA ReadItemOwn ==
  ASSUME OwnInv, ReadItem
  PROVE  OwnInv'
<1> DEFINE item == toClient[1]
           at == IF call.at \in {"go", "once"} THEN "early" ELSE call.at
<1>1. /\ call.at \in Reads /\ toClient # <<>> /\ Head(toClient).kind # "tagged"
      /\ call' = [response_store(Head(toClient)) EXCEPT
                    !.at = IF @ \in {"go", "once"} THEN "early" ELSE @]
      /\ call.at \in {"go", "once"} => call.op # "IDLE"
      /\ sel' = Fresh(call.op) /\ toClient' = Tail(toClient)
      /\ UNCHANGED <<state, stream, tag, ret, idling, toServer, server, back, stag, held, qresync, granted, stale,
                     connects, late>>
  BY DEF ReadItem, Reading, Reads, ReadsOn, serverVars, countVars
<1>2. /\ item \in Items /\ Head(toClient) = item /\ Len(toClient) \in Nat \ {0}
      /\ Tail(toClient) \in Seq(Items) /\ Len(Tail(toClient)) = Len(toClient) - 1
      /\ \A p \in 1..(Len(toClient) - 1) : Tail(toClient)[p] = toClient[p + 1]
  BY <1>1, FirstItem
<1>3. TypeOK /\ call \in Calls /\ call # Idle /\ sel \in Selections
  BY <1>1, CallFacts, IdleFacts DEF OwnInv, Typed, TypeOK, Reads
<1>4. /\ call' \in Calls /\ call'.op = call.op /\ call'.at = at /\ call'.sel = data_store(call.sel, item)
      /\ call'.seen = call.seen \cup {item.kind}
  <2>1. /\ call.sel \in Selections /\ call.seen \in SUBSET Kinds /\ call.op \in Ops
        /\ call.at \in {"greeting", "response", "early", "go", "once"}
    BY <1>3 DEF Calls
  <2>2. data_store(call.sel, item) \in Selections
    BY <1>2, <2>1, DataStoreFacts
  <2>3. call' = [op |-> call.op, at |-> at, sel |-> data_store(call.sel, item),
                 seen |-> call.seen \cup {item.kind}]
    BY <1>1, <1>2, <1>3 DEF response_store, Calls
  <2>4. item.kind \in Kinds /\ at \in {"greeting", "response", "early", "go", "once"}
    BY <1>2, <2>1 DEF Items
  <2> HIDE DEF item, at
  <2>5. QED
    BY <2>1, <2>2, <2>3, <2>4 DEF Calls
<1>5. call' # Idle /\ at \in {"response", "early"} /\ (at = "early" => call.op \in {"APPEND", "AUTHENTICATE"})
      /\ call.op # "CONNECT"
  BY <1>1, <1>3, <1>4, IdleFacts DEF OwnInv, Structured, Calls, Ops, Reads, Exchanges
<1>6. Fresh(call.op) \in Selections /\ (state = "SELECTED" => Fresh(call.op).set)
  BY <1>3, FreshFacts, SelectionFacts DEF TypeOK, Fresh
<1>7. Typed'
  BY <1>1, <1>2, <1>3, <1>4, <1>6 DEF OwnInv, Typed, TypeOK, Calls
<1>8. TagsBounded'
  BY <1>1, <1>4 DEF OwnInv, TagsBounded
<1>9. Structured'
  <2>1. data_store(call.sel, item).set = call.sel.set
    BY <1>2, <1>3, DataStoreFacts DEF Calls
  <2>2. /\ stream /\ ~idling /\ (idling => stream)
        /\ ((state = "SELECTED" \/ call.op = "SELECT") => call.sel.set)
        /\ server \in Places => back = server
        /\ server \in Exchanges => back \in Places
    BY <1>3 DEF OwnInv, Structured
  <2> HIDE DEF at, item
  <2>3. QED
    BY <1>1, <1>4, <1>5, <2>1, <2>2 DEF Structured
<1>10. InOrder'
  BY <1>1, OrderKept
<1>11. Granted'
  <2>1. Grants(toClient, granted) /\ "fetch" \notin call.seen
    BY <1>1, <1>2 DEF OwnInv, Granted
  <2>2. Grants(toClient, granted)'
    BY <1>1, GrantsKept
  <2>3. ASSUME item.kind = "fetch"
        PROVE  Len(toClient) > 1 /\ toClient[1 + 1].kind = "tagged" /\ toClient[1 + 1].tag <= granted
    BY <1>2, <2>1, <2>3 DEF Grants
  <2>4. ASSUME item.kind = "fetch"
        PROVE  toClient' # <<>> /\ toClient'[1].kind = "tagged" /\ toClient'[1].tag <= granted
    <3>1. toClient'[1] = toClient[1 + 1] /\ Len(toClient') > 0
      BY <1>1, <1>2, <2>3, <2>4
    <3>2. QED
      BY <2>3, <2>4, <3>1
  <2>5. QED
    BY <1>1, <1>4, <1>5, <2>1, <2>2, <2>4 DEF Granted
<1>12. QED
  BY <1>7, <1>8, <1>9, <1>10, <1>11 DEF OwnInv

\* What a tagged response is taken for, and what it was.
LEMMA ResultFacts ==
  ASSUME OwnInv, toClient # <<>>, toClient[1].kind = "tagged",
         NEW r, r = parse_response(toClient[1])
  PROVE  /\ r \in {"OK", "NO", "error"} /\ Result(r) \in Results
         /\ Result(r) = "OK" => granted = tag
<1>1. /\ toClient[1] \in Items /\ Len(toClient) \in Nat \ {0}
  BY FirstItem
<1>2. /\ toClient[1].tag \in Nat /\ granted \in 0..tag /\ tag \in Nat
  BY <1>1 DEF OwnInv, Typed, TypeOK, Items
<1>3. /\ toClient[1].verdict \in {"OK", "NO", "BAD"}
      /\ toClient[1].verdict = "OK" \/ "fetch" \in call.seen => toClient[1].tag <= granted
  BY <1>1 DEF OwnInv, Granted, Grants
<1>4. /\ r \in {"OK", "NO", "error"}
      /\ r # "error" => toClient[1].tag = tag /\ r = toClient[1].verdict
  BY <1>3 DEF parse_response
<1>5. Result(r) \in Results /\ (Result(r) = "OK" => r # "error" /\ (r = "OK" \/ "fetch" \in call.seen))
  BY <1>4 DEF Result, Results
<1>6. QED
  BY <1>2, <1>3, <1>4, <1>5

LEMMA StreamErrorFacts ==
  StreamError \in Results /\ (call.op # "LOGOUT" => StreamError = "error")
  BY DEF StreamError, Results

LEMMA RespondedOwn ==
  ASSUME OwnInv, Responded
  PROVE  OwnInv'
<1> DEFINE r == parse_response(Head(toClient))
<1>1. /\ call.at \in Reads /\ toClient # <<>> /\ Head(toClient).kind = "tagged"
      /\ call' = Idle /\ ret' = IF "bye" \in call.seen THEN StreamError ELSE Result(r)
      /\ IF call.op = "LOGOUT" THEN Closes /\ sel' = Stored
         ELSE /\ state' = StateAfter(call.op, r)
              /\ sel' = SelectionAfter(call.op, r, Stored)
              /\ toClient' = Tail(toClient)
              /\ server' \in IF call.op = "STARTTLS" /\ r = "OK" THEN {server, "closed"} ELSE {server}
              /\ UNCHANGED <<stream, tag, idling, toServer, back, stag, held, qresync, granted, stale, connects, late>>
  BY DEF Responded, Reading, Reads, Returns
<1>2. /\ TypeOK /\ call # Idle /\ call.sel \in Selections /\ sel \in Selections
      /\ late \in BOOLEAN /\ idling \in BOOLEAN /\ state \in States
  BY <1>1, IdleFacts, CallFacts DEF OwnInv, Typed, TypeOK, Reads, States
<1>3. /\ r \in {"OK", "NO", "error"} /\ Result(r) \in Results
      /\ Result(r) = "OK" => granted = tag
  BY <1>1, FirstItem, ResultFacts
<1>4. Stored \in Selections /\ ((state = "SELECTED" \/ call.op = "SELECT") => Stored.set)
  <2>1. /\ (state = "SELECTED" \/ call.op = "SELECT") => call.sel.set
        /\ state = "SELECTED" => sel.set
    BY <1>2 DEF OwnInv, Structured, TypeOK
  <2>2. Fresh(call.op) \in Selections /\ (call.op # "SELECT" => Fresh(call.op) = sel)
        /\ (call.op = "SELECT" => Fresh(call.op).set)
    BY <1>2, FreshFacts
  <2>3. QED
    BY <1>2, <2>1, <2>2 DEF Stored
<1>0. StreamError \in Results /\ (call.op # "LOGOUT" => StreamError = "error")
  BY StreamErrorFacts
<1> HIDE DEF r
<1>5. CASE call.op = "LOGOUT"
  BY <1>0, <1>1, <1>2, <1>3, <1>4, <1>5, ClosesOwn
<1>6. CASE call.op # "LOGOUT"
  <2>1. StateAfter(call.op, r) \in States /\ SelectionAfter(call.op, r, Stored) \in Selections
    BY <1>2, <1>4, SelectionFacts DEF StateAfter, SelectionAfter, States
  <2>2. StateAfter(call.op, r) = "SELECTED" => SelectionAfter(call.op, r, Stored).set
    BY <1>3, <1>4 DEF StateAfter, SelectionAfter
  <2>3. server' \in {server, "closed"} /\ ReadsOne
    BY <1>1, <1>6 DEF ReadsOne
  <2>4. ret' \in Results /\ (ret' = "OK" => granted = tag)
    BY <1>0, <1>1, <1>3, <1>6
  <2>5. QED
    BY <1>1, <1>2, <1>6, <2>1, <2>2, <2>3, <2>4, ReturnsOwn
<1>7. QED
  BY <1>5, <1>6

LEMMA EndOfStreamOwn ==
  ASSUME OwnInv, EndOfStream
  PROVE  OwnInv'
<1>1. /\ call.at \in Reads /\ call' = Idle /\ ret' = StreamError /\ sel' = sel
      /\ IF call.op = "LOGOUT" THEN Closes
         ELSE UNCHANGED <<state, stream, tag, idling, toServer, toClient, server, back, stag, held,
                          qresync, granted, stale, connects, late>>
  BY DEF EndOfStream, Reads, Returns, serverVars
<1>2. /\ TypeOK /\ call # Idle /\ sel \in Selections /\ late \in BOOLEAN /\ idling \in BOOLEAN
      /\ state \in States
  BY <1>1, IdleFacts DEF OwnInv, Typed, TypeOK, Reads, States
<1>3. state = "SELECTED" => sel.set
  BY <1>2 DEF TypeOK
<1>4. CASE call.op = "LOGOUT"
  BY <1>1, <1>2, <1>4, ClosesOwn, StreamErrorFacts
<1>5. CASE call.op # "LOGOUT"
  BY <1>1, <1>2, <1>3, <1>5, ReturnsOwn, StreamErrorFacts DEF Results, ReadsOne
<1>6. QED
  BY <1>4, <1>5

LEMMA TimeoutOwn ==
  ASSUME OwnInv, Timeout
  PROVE  OwnInv'
<1>1. /\ call # Idle /\ call' = Idle /\ ret' = StreamError /\ sel' = sel
      /\ IF call.op = "LOGOUT" THEN Closes
         ELSE /\ late' = TRUE
              /\ UNCHANGED <<state, stream, tag, idling, toServer, toClient, server, back, stag, held,
                             qresync, granted, stale, connects>>
  BY DEF Timeout, Returns, serverVars
<1>2. /\ TypeOK /\ sel \in Selections /\ idling \in BOOLEAN /\ state \in States
  BY DEF OwnInv, Typed, TypeOK, States
<1>3. state = "SELECTED" => sel.set
  BY <1>2 DEF TypeOK
<1>4. CASE call.op = "LOGOUT"
  BY <1>1, <1>2, <1>4, ClosesOwn, StreamErrorFacts
<1>5. CASE call.op # "LOGOUT"
  BY <1>1, <1>2, <1>3, <1>5, ReturnsOwn, StreamErrorFacts DEF Results, ReadsOne
<1>6. QED
  BY <1>4, <1>5

\* The client goes on within its call.
LEMMA StaysOwn ==
  ASSUME OwnInv, call \in Calls, "fetch" \notin call.seen, call' \in Calls, call'.op = call.op,
         call'.seen = call.seen,
         call'.at \in {call.at, "response"}, call.at # "greeting", call'.sel = call.sel,
         toClient # <<>>, toClient' = Tail(toClient),
         \/ toServer' = toServer
         \/ \E c \in Commands : c.tag = tag /\ toServer' = Append(toServer, c),
         UNCHANGED <<state, stream, tag, sel, ret, idling, server, back, stag, held, qresync, granted, stale, connects>>,
         late' \in BOOLEAN
  PROVE  OwnInv'
<1>1. TypeOK /\ toServer \in Seq(Commands) /\ call # Idle /\ call' # Idle /\ call.op # "CONNECT"
  BY IdleFacts DEF OwnInv, Typed, Structured, Calls, Ops
<1>2. toServer' \in Seq(Commands) /\ InOrder'
  <2>1. CASE toServer' = toServer
    BY <1>1, <2>1, OrderKept
  <2>2. CASE \E c \in Commands : c.tag = tag /\ toServer' = Append(toServer, c)
    <3>1. PICK c \in Commands : c.tag = tag' /\ toServer' = Append(toServer, c)
      BY <2>2
    <3>2. toServer' \in Seq(Commands)
      BY <1>1, <3>1
    <3>3. QED
      BY <3>1, <3>2, OrderAppends
  <2>3. QED
    BY <2>1, <2>2
<1>3. Grants(toClient, granted)' /\ toClient' \in Seq(Items)
  BY GrantsKept
<1>4. Typed'
  <2>1. TypeOK'
    BY <1>1 DEF TypeOK, Calls
  <2>2. QED
    BY <1>2, <1>3, <2>1 DEF OwnInv, Typed
<1>5. TagsBounded'
  BY DEF OwnInv, TagsBounded
<1>6. Structured'
  BY <1>1 DEF OwnInv, Structured
<1>7. Granted'
  BY <1>1, <1>3 DEF Granted
<1>8. QED
  BY <1>2, <1>4, <1>5, <1>6, <1>7 DEF OwnInv

\* An item that is not tagged is no sequel of FETCH data.
LEMMA NothingFetched ==
  ASSUME OwnInv, call.at \in Reads, toClient # <<>>, Head(toClient).kind # "tagged"
  PROVE  call \in Calls /\ "fetch" \notin call.seen /\ call # Idle
<1>1. TypeOK /\ call # Idle
  BY IdleFacts DEF OwnInv, Typed, Reads
<1>2. call \in Calls
  BY <1>1, CallFacts
<1>3. "fetch" \notin call.seen
  BY FirstItem DEF OwnInv, Granted
<1>4. QED
  BY <1>1, <1>2, <1>3

LEMMA GoesOnOwn ==
  ASSUME OwnInv, GoesOn
  PROVE  OwnInv'
<1>1. /\ call.at \in {"go", "once"} /\ toClient # <<>> /\ Head(toClient).kind = "cont"
      /\ toClient' = Tail(toClient)
      /\ UNCHANGED <<state, stream, tag, sel, server, back, stag, held, qresync, granted, stale, connects>>
  BY DEF GoesOn, serverVars, countVars
<1>2. call \in Calls /\ "fetch" \notin call.seen /\ call # Idle
  BY <1>1, NothingFetched DEF Reads
<1>3. /\ TypeOK /\ sel \in Selections /\ state \in States /\ late \in BOOLEAN /\ ret \in Results
      /\ idling = FALSE /\ (state = "SELECTED" => sel.set) /\ tag \in Nat /\ ReadsOne
  BY <1>1, <1>2 DEF OwnInv, Typed, TypeOK, Structured, States, Results, ReadsOne
<1>4. CASE call.op = "IDLE" /\ Returns("OK") /\ idling' = TRUE /\ UNCHANGED <<toServer, late>>
  BY <1>1, <1>2, <1>3, <1>4, ReturnsOwn DEF Returns, Results
<1>5. CASE /\ call.op \in {"APPEND", "AUTHENTICATE"}
           /\ toServer' = Append(toServer, [op |-> "LITERAL", tag |-> tag])
           /\ call' = IF call.op = "AUTHENTICATE" /\ call.at = "go" THEN call
                      ELSE [call EXCEPT !.at = "response"]
           /\ UNCHANGED <<ret, idling, late>>
  <2>1. [op |-> "LITERAL", tag |-> tag] \in Commands /\ [op |-> "LITERAL", tag |-> tag].tag = tag
    BY <1>3 DEF Commands
  <2>2. /\ call' \in Calls /\ call'.op = call.op /\ call'.at \in {call.at, "response"}
        /\ call'.sel = call.sel /\ call'.seen = call.seen
    BY <1>2, <1>5 DEF Calls
  <2>3. QED
    BY <1>1, <1>2, <1>3, <1>5, <2>1, <2>2, StaysOwn
<1>6. CASE /\ call.op = "AUTHENTICATE" /\ Returns("error") /\ late' = TRUE
           /\ UNCHANGED <<toServer, idling>>
  BY <1>1, <1>2, <1>3, <1>6, ReturnsOwn DEF Returns, Results
<1>7. QED
  BY <1>4, <1>5, <1>6 DEF GoesOn

LEMMA IdleSkipsOwn ==
  ASSUME OwnInv, IdleSkips
  PROVE  OwnInv'
<1>1. /\ call.at = "go" /\ toClient # <<>> /\ Head(toClient).kind # "tagged"
      /\ toClient' = Tail(toClient) /\ late' = TRUE
      /\ UNCHANGED <<state, stream, tag, sel, call, ret, idling, toServer, server, back, stag, held, qresync, granted,
                     stale, connects>>
  BY DEF IdleSkips, serverVars, countVars
<1>2. call \in Calls /\ "fetch" \notin call.seen
  BY <1>1, NothingFetched DEF Reads
<1>3. QED
  BY <1>1, <1>2, StaysOwn

-----------------------------------------------------------------------------
\* Success is one's own: the server.

LEMMA ItemFacts ==
  /\ \A n \in 0..MaxHeld : Exists(n) \in Items /\ Exists(n).kind = "exists" /\ Exists(n).n = n
  /\ Expunged \in Items /\ Expunged.kind = "expunge"
  /\ Vanished \in Items /\ Vanished.kind = "vanished"
  /\ Notice \in Items /\ Notice.kind = "notice"
  /\ Bye \in Items /\ Bye.kind = "bye"
  /\ Fetched \in Items /\ Fetched.kind = "fetch"
  /\ Continue \in Items /\ Continue.kind = "cont"
  /\ \A t \in Nat, v \in {"OK", "NO", "BAD"} :
       /\ Tagged(t, v) \in Items /\ Tagged(t, v).kind = "tagged" /\ Tagged(t, v).tag = t
       /\ Tagged(t, v).verdict = v
  BY ConstFacts DEF Item, Items, Kinds, Exists, Expunged, Vanished, Notice, Bye, Fetched, Continue, Tagged

LEMMA OneItem ==
  ASSUME NEW e \in Items
  PROVE  <<e>> \in Seq(Items) /\ Len(<<e>>) = 1 /\ <<e>>[1] = e /\ <<e>> # <<>>
  OBVIOUS

\* The count is stale after a sequence of one, or of none.
LEMMA StaleFacts ==
  /\ StaleAfter(<<>>) = stale
  /\ \A e \in Items : /\ e = Vanished => StaleAfter(<<e>>) = TRUE
                      /\ e.kind \notin {"exists", "vanished"} => StaleAfter(<<e>>) = stale
<1>1. StaleAfter(<<>>) = stale
  BY DEF StaleAfter
<1>2. ASSUME NEW e \in Items
      PROVE  /\ e = Vanished => StaleAfter(<<e>>) = TRUE
             /\ e.kind \notin {"exists", "vanished"} => StaleAfter(<<e>>) = stale
  <2> DEFINE s == <<e>>
  <2>1. DOMAIN s = {1} /\ s[1] = e
    OBVIOUS
  <2> HIDE DEF s
  <2>2. /\ (\E i \in DOMAIN s : s[i] = Vanished) <=> e = Vanished
        /\ (\E i \in DOMAIN s : s[i].kind = "exists") <=> e.kind = "exists"
    BY <2>1
  <2>3. e = Vanished => e.kind = "vanished"
    BY ItemFacts
  <2>4. /\ e = Vanished => StaleAfter(s) = TRUE
        /\ e.kind \notin {"exists", "vanished"} => StaleAfter(s) = stale
    BY <2>2, <2>3 DEF StaleAfter
  <2>5. QED
    BY <2>4 DEF s
<1>3. QED
  BY <1>1, <1>2

\* FETCH data after a report change nothing about it.
LEMMA StaleFetch ==
  ASSUME NEW s \in Seq(Items)
  PROVE  StaleAfter(s \o <<Fetched>>) = StaleAfter(s)
<1> DEFINE d == s \o <<Fetched>>
<1>1. Fetched \in Items /\ Fetched.kind = "fetch" /\ <<Fetched>> \in Seq(Items) /\ Len(<<Fetched>>) = 1
      /\ <<Fetched>>[1] = Fetched /\ Vanished.kind = "vanished"
  BY ItemFacts, OneItem
<1>2. /\ d \in Seq(Items) /\ Len(d) = Len(s) + Len(<<Fetched>>) /\ Len(s) \in Nat
      /\ \A p \in 1..Len(s) : d[p] = s[p]
      /\ \A p \in (Len(s) + 1)..(Len(s) + Len(<<Fetched>>)) : d[p] = <<Fetched>>[p - Len(s)]
  BY <1>1, ConcatFacts
<1> HIDE DEF d
<1>3. DOMAIN d = 1..(Len(s) + 1) /\ DOMAIN s = 1..Len(s)
  BY <1>1, <1>2
<1>4. d[Len(s) + 1] = Fetched
  BY <1>1, <1>2
<1>5. \A p \in DOMAIN d : p \in DOMAIN s \/ d[p] = Fetched
  BY <1>2, <1>3, <1>4
<1>6. \A p \in DOMAIN s : p \in DOMAIN d /\ d[p] = s[p]
  BY <1>2, <1>3
<1>7. /\ (\E i \in DOMAIN d : d[i] = Vanished) <=> (\E i \in DOMAIN s : s[i] = Vanished)
      /\ (\E i \in DOMAIN d : d[i].kind = "exists") <=> (\E i \in DOMAIN s : s[i].kind = "exists")
  BY <1>1, <1>5, <1>6
<1>8. StaleAfter(d) = StaleAfter(s)
  BY <1>7 DEF StaleAfter
<1>9. QED
  BY <1>8 DEF d

LEMMA HeldCounts ==
  ASSUME NEW n \in 0..MaxHeld
  PROVE  n \in Counts
  BY ConstFacts DEF Counts

\* What the server reports leads the client to the new count.
LEMMA ReportsFacts ==
  ASSUME held \in 0..MaxHeld, NEW op, NEW r \in Reports(op)
  PROVE  /\ r[1] \in Seq(Items) /\ r[2] \in 0..MaxHeld /\ Changes(r[1])
         /\ stale' = StaleAfter(r[1]) => \A k : k # "SELECT" => Leads(k, r[1], r[2])
<1> DEFINE Goal == /\ r[1] \in Seq(Items) /\ r[2] \in 0..MaxHeld /\ Changes(r[1])
                   /\ stale' = StaleAfter(r[1]) => \A k : k # "SELECT" => Leads(k, r[1], r[2])
<1>1. CASE r = <<<<>>, held>>
  <2>1. r[1] = <<>> /\ r[2] = held
    BY <1>1
  <2>2. <<>> \in Seq(Items) /\ Changes(<<>>) /\ StaleAfter(<<>>) = stale
    BY StaleFacts DEF Changes
  <2>3. \A a \in Counts : Path(<<>>, a, a)
    BY PathEmpty
  <2>4. QED
    BY <2>1, <2>2, <2>3 DEF Leads
<1>2. ASSUME NEW n \in (held + 1)..MaxHeld, r = <<<<Exists(n)>>, n>>
      PROVE  Goal
  <2>1. r[1] = <<Exists(n)>> /\ r[2] = n /\ n \in 0..MaxHeld /\ n \in Counts
    BY <1>2, ConstFacts DEF Counts
  <2>2. Exists(n) \in Items /\ Exists(n).kind = "exists" /\ \A a : Counted(Exists(n), a) = n
    BY <2>1, ItemFacts DEF Counted
  <2>3. \A a \in Counts : Path(<<Exists(n)>>, a, n)
    BY <2>1, <2>2, PathOne
  <2>4. <<Exists(n)>> \in Seq(Items) /\ Changes(<<Exists(n)>>)
    BY <2>2, OneItem DEF Changes
  <2>5. QED
    BY <2>1, <2>3, <2>4 DEF Leads
<1>3. ASSUME NEW e \in {Notice, Vanished, Expunged}, NEW n \in 0..MaxHeld, r = <<<<e>>, n>>,
             e = Notice => n = held, e = Expunged => held > 0 /\ n = held - 1
      PROVE  Goal
  <2>1. r[1] = <<e>> /\ r[2] = n
    BY <1>3
  <2>2. e \in Items /\ e.kind \in {"notice", "vanished", "expunge"}
        /\ (e.kind = "notice" <=> e = Notice) /\ (e.kind = "expunge" <=> e = Expunged)
        /\ (e.kind = "vanished" <=> e = Vanished)
    BY <1>3, ItemFacts
  <2>3. <<e>> \in Seq(Items) /\ Changes(<<e>>)
    BY <2>2, OneItem DEF Changes
  <2>4. StaleAfter(<<e>>) = IF e = Vanished THEN TRUE ELSE stale
    BY <2>2, StaleFacts
  <2>5. \A a \in Counts : Counted(e, a) \in Counts /\ Path(<<e>>, a, Counted(e, a))
    BY <2>2, CountedFacts, PathOne
  <2>6. e = Vanished \/ Counted(e, held) = n
    <3>1. CASE e = Notice
      BY <1>3, <2>2, <3>1 DEF Counted
    <3>2. CASE e = Expunged
      <4>1. Counted(e, held) = (held + Uint32 - 1) % Uint32
        BY <2>2, <3>2 DEF Counted
      <4>2. held \in Nat /\ held > 0 /\ held < Uint32 /\ n = held - 1
        BY <1>3, <3>2, ConstFacts
      <4>3. (held + Uint32 - 1) % Uint32 = held - 1
        BY <4>2, ConstFacts
      <4>4. QED
        BY <4>1, <4>2, <4>3
    <3>3. QED
      BY <1>3, <3>1, <3>2
  <2>7. stale' = StaleAfter(<<e>>) => \A k : k # "SELECT" => Leads(k, <<e>>, n)
    BY <2>4, <2>5, <2>6 DEF Leads
  <2>8. QED
    BY <2>1, <2>3, <2>7
<1>4. \/ r = <<<<>>, held>>
      \/ r = <<<<Notice>>, held>>
      \/ \E n \in (held + 1)..MaxHeld : r = <<<<Exists(n)>>, n>>
      \/ held > 0 /\ r \in {<<<<Vanished>>, held - 1>>, <<<<Expunged>>, held - 1>>}
  BY DEF Reports
<1>5. held > 0 => held - 1 \in 0..MaxHeld
  BY ConstFacts
<1>6. Notice.kind = "notice" /\ Vanished.kind = "vanished" /\ Expunged.kind = "expunge"
  BY ItemFacts
<1>7. Notice # Vanished /\ Notice # Expunged /\ Vanished # Expunged
  BY <1>6
<1>8. QED
  BY <1>1, <1>2, <1>3, <1>4, <1>5, <1>7

LEMMA StaleTyped ==
  ASSUME stale \in BOOLEAN, NEW data
  PROVE  StaleAfter(data) \in BOOLEAN
  BY DEF StaleAfter

\* The answer to the command with the tag t.
Answer(t, v, data, to, n) ==
  /\ toClient' = toClient \o (data \o << Tagged(t, v) >>)
  /\ granted' = IF v = "OK" \/ (\E i \in DOMAIN data : data[i] = Fetched) THEN t ELSE granted
  /\ server' = to /\ back' = to /\ held' = n /\ qresync' \in BOOLEAN /\ stale' \in BOOLEAN

PlaceAfter(op, v) ==
  CASE op \in {"LOGIN", "AUTHENTICATE"} /\ v = "OK" -> "auth"
    [] op = "SELECT" /\ v = "OK"                    -> "selected"
    [] op = "SELECT" /\ v = "NO"                    -> "auth"
    [] op = "CLOSE" /\ v = "OK"                     -> "auth"
    [] OTHER                                        -> back

\* What the server may answer to op.
Served(op, v, data, to, n) ==
  /\ v \in {"OK", "NO", "BAD"} /\ data \in Seq(Items) /\ n \in 0..MaxHeld
  /\ \A p \in 1..Len(data) : \/ data[p].kind \in {"exists", "expunge", "vanished", "notice"}
                             \/ p = Len(data) /\ data[p] = Fetched
                             \/ to = "closed" /\ data[p] = Bye
  /\ op = "AUTHENTICATE" \/ (op \in {"APPEND", "IDLE"} /\ server \in Places) => data = <<>>
  /\ to = "closed" \/ to = PlaceAfter(op, v)
  /\ to = "selected" => Leads(op, data, n)

\* What it may send before a continuation request.
Invites(op, t) ==
  \E data \in Seq(Items), n \in 0..MaxHeld :
    /\ op \in Exchanges /\ Changes(data) /\ Leads(op, data, n) /\ stale' \in BOOLEAN
    /\ toClient' = toClient \o (data \o <<Continue>>) /\ held' = n
    /\ server' = op /\ stag' = t /\ UNCHANGED <<back, qresync, granted>>

LEMMA ReportServed ==
  ASSUME held \in 0..MaxHeld, NEW op, NEW k, NEW r \in Reports(k), NEW v \in {"OK", "NO"}, back \in Places,
         op \in {"NOOP", "ENABLE", "MAILBOX", "MESSAGE", "EXPUNGE", "STARTTLS", "FETCH", "APPEND", "IDLE"},
         op \in {"APPEND", "IDLE"} => server \notin Places, stale' = StaleAfter(r[1])
  PROVE  Served(op, v, r[1], back, r[2])
<1>1. /\ r[1] \in Seq(Items) /\ r[2] \in 0..MaxHeld /\ Changes(r[1]) /\ Leads(op, r[1], r[2])
  BY ReportsFacts
<1>2. back = PlaceAfter(op, v)
  BY DEF PlaceAfter
<1>3. \A p \in 1..Len(r[1]) : r[1][p].kind \in {"exists", "expunge", "vanished", "notice"}
  BY <1>1 DEF Changes
<1>4. QED
  BY <1>1, <1>2, <1>3, Zenon DEF Served

LEMMA FetchServed ==
  ASSUME held \in 0..MaxHeld, NEW r \in Reports("FETCH"), NEW v \in {"OK", "NO"}, back \in Places,
         stale' = StaleAfter(r[1] \o <<Fetched>>)
  PROVE  Served("FETCH", v, r[1] \o <<Fetched>>, back, r[2])
<1> DEFINE s == r[1]
           d == s \o <<Fetched>>
<1>0. s \in Seq(Items)
  BY ReportsFacts
<1>1. /\ s \in Seq(Items) /\ r[2] \in 0..MaxHeld /\ Changes(s) /\ Leads("FETCH", s, r[2])
  <2>1. stale' = StaleAfter(s)
    BY <1>0, StaleFetch
  <2>2. QED
    BY <2>1, ReportsFacts
<1>2. Fetched \in Items /\ Fetched.kind = "fetch" /\ <<Fetched>> \in Seq(Items) /\ Len(<<Fetched>>) = 1
      /\ <<Fetched>>[1] = Fetched
  BY ItemFacts, OneItem
<1>3. \A b \in Counts : Path(<<Fetched>>, b, b)
  BY <1>2, PathOne DEF Counted
<1>4. Leads("FETCH", d, r[2])
  <2> SUFFICES ASSUME NEW a \in Counts, stale \/ a = held
               PROVE  \E b \in Counts : Path(d, a, b) /\ (stale' \/ b = r[2])
    BY DEF Leads
  <2>1. PICK b \in Counts : Path(s, a, b) /\ (stale' \/ b = r[2])
    BY <1>1 DEF Leads
  <2>2. Path(d, a, b)
    BY <1>1, <1>2, <1>3, <2>1, PathConcat
  <2>3. QED
    BY <2>1, <2>2
<1>5. /\ d \in Seq(Items) /\ Len(d) = Len(s) + Len(<<Fetched>>) /\ Len(s) \in Nat
      /\ \A p \in 1..Len(s) : d[p] = s[p]
      /\ \A p \in (Len(s) + 1)..(Len(s) + Len(<<Fetched>>)) : d[p] = <<Fetched>>[p - Len(s)]
  BY <1>1, <1>2, ConcatFacts
<1> HIDE DEF d, s
<1>6. Len(d) = Len(s) + 1 /\ d[Len(d)] = Fetched
  <2>1. Len(d) = Len(s) + 1
    BY <1>2, <1>5
  <2>2. Len(d) \in (Len(s) + 1)..(Len(s) + Len(<<Fetched>>)) /\ Len(d) - Len(s) = 1
    BY <1>2, <1>5, <2>1
  <2>3. QED
    BY <1>2, <1>5, <2>1, <2>2
<1>7. \A p \in 1..Len(d) : \/ d[p].kind \in {"exists", "expunge", "vanished", "notice"}
                           \/ p = Len(d) /\ d[p] = Fetched
  <2>1. \A p \in 1..Len(d) : p = Len(d) \/ p \in 1..Len(s)
    BY <1>5, <1>6
  <2>2. QED
    BY <1>1, <1>5, <1>6, <2>1 DEF Changes
<1>8. back = PlaceAfter("FETCH", v)
  BY DEF PlaceAfter
<1>9. Served("FETCH", v, d, back, r[2])
  BY <1>1, <1>4, <1>5, <1>7, <1>8 DEF Served
<1>10. QED
  BY <1>9 DEF d, s

\* No data: the count stays, or is known to be stale.
LEMMA PlainServed ==
  ASSUME held \in 0..MaxHeld, NEW op, NEW v \in {"OK", "NO", "BAD"}, NEW n \in 0..MaxHeld,
         NEW to, to = "closed" \/ to = PlaceAfter(op, v),
         to = "selected" => stale' \/ (stale' = stale /\ n = held /\ op # "SELECT")
  PROVE  Served(op, v, <<>>, to, n)
<1>1. <<>> \in Seq(Items) /\ Len(<<>>) = 0 /\ 1..0 = {}
  OBVIOUS
<1>2. \A a \in Counts : Path(<<>>, a, a)
  BY PathEmpty
<1>3. to = "selected" => Leads(op, <<>>, n)
  BY <1>2 DEF Leads
<1>4. QED
  BY <1>1, <1>3 DEF Served

LEMMA ServeCases ==
  ASSUME OwnInv, Serve
  PROVE  /\ toServer # <<>> /\ server \in Places /\ back = server /\ toServer' = Tail(toServer)
         /\ UNCHANGED <<state, stream, tag, sel, call, ret, idling, connects, late>>
         /\ \/ \E v, data, to, n : /\ Served(toServer[1].op, v, data, to, n)
                                   /\ Answer(toServer[1].tag, v, data, to, n) /\ stag' = stag
            \/ Invites(toServer[1].op, toServer[1].tag)
<1> DEFINE c == Head(toServer)
           Ends(verdict, data, to, n) ==
             /\ toClient' = toClient \o (data \o << Tagged(c.tag, verdict) >>)
             /\ granted' = IF verdict = "OK" \/ (\E i \in DOMAIN data : data[i] = Fetched)
                           THEN c.tag ELSE granted
             /\ server' = to /\ back' = to /\ held' = n /\ UNCHANGED stag
             /\ qresync' \in IF c.op = "ENABLE" /\ verdict = "OK" THEN {qresync, TRUE} ELSE {qresync}
             /\ stale' = ((c.op = "SELECT" /\ verdict = "BAD") \/ StaleAfter(data))
           Goal == \/ \E v, data, to, n : /\ Served(c.op, v, data, to, n)
                                          /\ Answer(c.tag, v, data, to, n) /\ stag' = stag
                   \/ Invites(c.op, c.tag)
<1>1. /\ toServer # <<>> /\ server \in Places /\ toServer' = Tail(toServer)
      /\ UNCHANGED <<state, stream, tag, sel, call, ret, idling, connects, late>>
  BY DEF Serve, Places, countVars
<1>2. /\ back = server /\ held \in 0..MaxHeld /\ c = toServer[1] /\ stale \in BOOLEAN /\ qresync \in BOOLEAN
  BY <1>1, TailFacts DEF OwnInv, Typed, TypeOK, Structured
<1>3. \/ ~Accepts(c.op) /\ Ends("BAD", <<>>, server, held)
      \/ \E v \in {"OK", "NO"}, r \in Reports(c.op) :
           /\ c.op \in {"NOOP", "ENABLE", "MAILBOX", "MESSAGE", "EXPUNGE", "STARTTLS"}
           /\ Ends(v, r[1], server, r[2])
      \/ \E v \in {"OK", "NO"}, r \in Reports(c.op), f \in {<<>>, <<Fetched>>} :
           c.op = "FETCH" /\ Ends(v, r[1] \o f, server, r[2])
      \/ c.op = "LOGIN" /\ (Ends("OK", <<>>, "auth", held) \/ Ends("NO", <<>>, server, held))
      \/ c.op = "CLOSE" /\ (Ends("OK", <<>>, "auth", 0) \/ Ends("NO", <<>>, server, held))
      \/ c.op = "LOGOUT" /\ Ends("OK", <<Bye>>, "closed", held)
      \/ c.op = "SELECT" /\ \E n \in 0..MaxHeld : Ends("OK", <<Exists(n)>>, "selected", n)
      \/ c.op = "SELECT" /\ Ends("NO", <<>>, "auth", 0)
      \/ c.op = "SELECT" /\ Ends("BAD", <<>>, server, held)
      \/ c.op \in {"APPEND", "AUTHENTICATE", "IDLE"} /\ Ends("NO", <<>>, server, held)
      \/ /\ c.op \in {"APPEND", "AUTHENTICATE", "IDLE"}
         /\ \E r \in Reports(c.op) :
              /\ toClient' = toClient \o (r[1] \o <<Continue>>) /\ held' = r[2]
              /\ stale' = StaleAfter(r[1])
         /\ server' = c.op /\ stag' = c.tag /\ UNCHANGED <<back, qresync, granted>>
  BY DEF Serve, Answers
<1> SUFFICES Goal
  BY <1>1, <1>2
<1> HIDE DEF c
<1>4. ASSUME NEW v, NEW data, NEW to, NEW n, Ends(v, data, to, n)
      PROVE  /\ c.op = "SELECT" /\ v = "BAD" => stale'
             /\ ~(c.op = "SELECT" /\ v = "BAD") => stale' = StaleAfter(data)
             /\ Served(c.op, v, data, to, n) => Goal
  <2>1. StaleAfter(data) \in BOOLEAN
    BY <1>2, StaleTyped
  <2>2. qresync' \in BOOLEAN
    BY <1>2, <1>4
  <2>3. /\ c.op = "SELECT" /\ v = "BAD" => stale'
        /\ ~(c.op = "SELECT" /\ v = "BAD") => stale' = StaleAfter(data)
        /\ stale' \in BOOLEAN
    BY <1>4, <2>1
  <2>4. Answer(c.tag, v, data, to, n) /\ stag' = stag
    BY <1>4, <2>2, <2>3, Zenon DEF Answer
  <2>5. QED
    BY <2>3, <2>4
<1> HIDE DEF Ends, Goal
<1>5. ASSUME NEW v \in {"OK", "NO"}, NEW r \in Reports(c.op),
             c.op \in {"NOOP", "ENABLE", "MAILBOX", "MESSAGE", "EXPUNGE", "STARTTLS"},
             Ends(v, r[1], server, r[2])
      PROVE  Goal
  <2>1. stale' = StaleAfter(r[1])
    BY <1>4, <1>5
  <2>2. Served(c.op, v, r[1], back, r[2])
    BY <1>1, <1>2, <1>5, <2>1, ReportServed
  <2>3. QED
    BY <1>2, <1>4, <1>5, <2>2
<1>6. ASSUME NEW v \in {"OK", "NO"}, NEW r \in Reports(c.op), NEW f \in {<<>>, <<Fetched>>},
             c.op = "FETCH", Ends(v, r[1] \o f, server, r[2])
      PROVE  Goal
  <2>0. stale' = StaleAfter(r[1] \o f)
    BY <1>4, <1>6
  <2>1. r[1] \in Seq(Items)
    BY <1>2, ReportsFacts
  <2>2. CASE f = <<>>
    <3>1. r[1] \o f = r[1]
      BY <2>1, <2>2
    <3>2. Served(c.op, v, r[1], back, r[2])
      BY <1>1, <1>2, <1>6, <2>0, <3>1, ReportServed
    <3>3. QED
      BY <1>2, <1>4, <1>6, <3>1, <3>2
  <2>3. CASE f = <<Fetched>>
    <3>1. Served("FETCH", v, r[1] \o <<Fetched>>, back, r[2])
      BY <1>1, <1>2, <1>6, <2>0, <2>3, FetchServed
    <3>2. QED
      BY <1>2, <1>4, <1>6, <2>3, <3>1
  <2>4. QED
    BY <2>2, <2>3
<1>7. ASSUME NEW v \in {"OK", "NO", "BAD"}, NEW n \in 0..MaxHeld, NEW to, to = PlaceAfter(c.op, v),
             to = "selected" => n = held /\ (c.op # "SELECT" \/ v = "BAD"), Ends(v, <<>>, to, n)
      PROVE  Goal
  <2>1. StaleAfter(<<>>) = stale
    BY StaleFacts
  <2>2. to = "selected" => stale' \/ (stale' = stale /\ n = held /\ c.op # "SELECT")
    BY <1>4, <1>7, <2>1
  <2>3. Served(c.op, v, <<>>, to, n)
    BY <1>2, <1>7, <2>2, PlainServed
  <2>4. QED
    BY <1>4, <1>7, <2>3
<1>8. 0 \in 0..MaxHeld
  BY ConstFacts
<1>9. CASE ~Accepts(c.op) /\ Ends("BAD", <<>>, server, held)
  BY <1>2, <1>7, <1>9 DEF PlaceAfter
<1>10. CASE c.op = "LOGIN" /\ (Ends("OK", <<>>, "auth", held) \/ Ends("NO", <<>>, server, held))
  BY <1>2, <1>7, <1>10 DEF PlaceAfter
<1>11. CASE c.op = "CLOSE" /\ (Ends("OK", <<>>, "auth", 0) \/ Ends("NO", <<>>, server, held))
  BY <1>2, <1>7, <1>8, <1>11 DEF PlaceAfter
<1>12. CASE c.op = "LOGOUT" /\ Ends("OK", <<Bye>>, "closed", held)
  <2>1. <<Bye>> \in Seq(Items) /\ \A p \in 1..Len(<<Bye>>) : <<Bye>>[p] = Bye
    BY ItemFacts, OneItem
  <2>2. Served(c.op, "OK", <<Bye>>, "closed", held)
    BY <1>2, <1>12, <2>1 DEF Served
  <2>3. QED
    BY <1>4, <1>12, <2>2
<1>13. ASSUME NEW n \in 0..MaxHeld, c.op = "SELECT", Ends("OK", <<Exists(n)>>, "selected", n)
       PROVE  Goal
  <2>1. Exists(n) \in Items /\ Exists(n).kind = "exists" /\ Exists(n).n = n /\ n \in Counts
    BY ItemFacts, HeldCounts
  <2>2. <<Exists(n)>> \in Seq(Items) /\ \A p \in 1..Len(<<Exists(n)>>) : <<Exists(n)>>[p] = Exists(n)
    BY <2>1, OneItem
  <2>3. \A a \in Counts : Counted(Exists(n), a) = n
    BY <2>1 DEF Counted
  <2>4. \A a \in Counts : Path(<<Exists(n)>>, a, n)
    BY <2>1, <2>3, PathOne
  <2>5. Leads(c.op, <<Exists(n)>>, n)
    BY <2>1, <2>4 DEF Leads
  <2>6. Served(c.op, "OK", <<Exists(n)>>, "selected", n)
    BY <1>13, <2>1, <2>2, <2>5 DEF Served, PlaceAfter
  <2>7. QED
    BY <1>4, <1>13, <2>6
<1>14. CASE c.op = "SELECT" /\ (Ends("NO", <<>>, "auth", 0) \/ Ends("BAD", <<>>, server, held))
  BY <1>2, <1>7, <1>8, <1>14 DEF PlaceAfter
<1>15. CASE c.op \in {"APPEND", "AUTHENTICATE", "IDLE"} /\ Ends("NO", <<>>, server, held)
  BY <1>2, <1>7, <1>15 DEF PlaceAfter
<1>16. ASSUME NEW r \in Reports(c.op), c.op \in {"APPEND", "AUTHENTICATE", "IDLE"},
              toClient' = toClient \o (r[1] \o <<Continue>>), held' = r[2], stale' = StaleAfter(r[1]),
              server' = c.op, stag' = c.tag, UNCHANGED <<back, qresync, granted>>
       PROVE  Goal
  <2>1. /\ r[1] \in Seq(Items) /\ r[2] \in 0..MaxHeld /\ Changes(r[1]) /\ Leads(c.op, r[1], r[2])
    BY <1>2, <1>16, ReportsFacts
  <2>2. stale' \in BOOLEAN
    BY <1>2, <1>16, StaleTyped
  <2>3. Invites(c.op, c.tag)
    BY <1>16, <2>1, <2>2 DEF Invites, Exchanges
  <2>4. QED
    BY <2>3 DEF Goal
<1>17. QED
  BY <1>3, <1>5, <1>6, <1>9, <1>10, <1>11, <1>12, <1>13, <1>14, <1>15, <1>16

LEMMA ServeExchangeCases ==
  ASSUME OwnInv, ServeExchange
  PROVE  /\ toServer # <<>> /\ server \in Exchanges /\ back \in Places /\ toServer' = Tail(toServer)
         /\ UNCHANGED <<state, stream, tag, sel, call, ret, idling, stag, connects, late>>
         /\ \E v, data, to, n :
              /\ Served(server, v, data, to, n) /\ Answer(stag, v, data, to, n)
              /\ \A p \in 1..Len(data) : data[p].kind \in {"exists", "expunge", "vanished", "notice"}
              /\ server = "IDLE" /\ toServer[1].op = "DONE" => v = "OK"
              /\ to \in Places
<1> DEFINE c == Head(toServer)
           Ends(verdict, data, to, n) ==
             /\ toClient' = toClient \o (data \o << Tagged(stag, verdict) >>)
             /\ granted' = IF verdict = "OK" THEN stag ELSE granted
             /\ server' = to /\ back' = to /\ held' = n /\ stale' = StaleAfter(data)
           Goal == \E v, data, to, n :
                     /\ Served(server, v, data, to, n) /\ Answer(stag, v, data, to, n)
                     /\ \A p \in 1..Len(data) : data[p].kind \in {"exists", "expunge", "vanished", "notice"}
                     /\ server = "IDLE" /\ c.op = "DONE" => v = "OK"
                     /\ to \in Places
<1>1. /\ toServer # <<>> /\ server \in Exchanges /\ toServer' = Tail(toServer)
      /\ UNCHANGED <<state, stream, tag, sel, call, ret, idling, stag, qresync, connects, late>>
  BY DEF ServeExchange, Exchanges, countVars
<1>2. /\ back \in Places /\ held \in 0..MaxHeld /\ c = toServer[1] /\ server \notin Places
      /\ stale \in BOOLEAN /\ qresync \in BOOLEAN
  BY <1>1, TailFacts DEF OwnInv, Typed, TypeOK, Structured, Exchanges, Places
<1>3. \/ server = "APPEND" /\ \E v \in {"OK", "NO"}, r \in Reports("APPEND") : Ends(v, r[1], back, r[2])
      \/ server = "AUTHENTICATE" /\ c.op = "LITERAL" /\ Ends("OK", <<>>, "auth", held)
      \/ server = "AUTHENTICATE" /\ Ends("NO", <<>>, back, held)
      \/ server = "IDLE" /\ c.op = "DONE" /\ \E r \in Reports("IDLE") : Ends("OK", r[1], back, r[2])
      \/ server = "IDLE" /\ c.op # "DONE" /\ Ends("BAD", <<>>, back, held)
  BY DEF ServeExchange, Answers
<1> SUFFICES Goal
  BY <1>1, <1>2
<1> HIDE DEF c
<1>4. ASSUME NEW v, NEW data, NEW to, NEW n, Ends(v, data, to, n)
      PROVE  /\ stale' = StaleAfter(data)
             /\ /\ Served(server, v, data, to, n) /\ to \in Places
                /\ \A p \in 1..Len(data) : data[p].kind \in {"exists", "expunge", "vanished", "notice"}
                /\ server = "IDLE" /\ c.op = "DONE" => v = "OK"
                => Goal
  <2>1. stale' = StaleAfter(data) /\ stale' \in BOOLEAN /\ qresync' \in BOOLEAN
    BY <1>1, <1>2, <1>4, StaleTyped
  <2>2. ASSUME Served(server, v, data, to, n), to \in Places,
               \A p \in 1..Len(data) : data[p].kind \in {"exists", "expunge", "vanished", "notice"},
               server = "IDLE" /\ c.op = "DONE" => v = "OK"
        PROVE  Goal
    <3>1. data \in Seq(Items)
      BY <2>2 DEF Served
    <3>2. DOMAIN data = 1..Len(data) /\ Fetched.kind = "fetch"
      BY <3>1, ItemFacts
    <3>3. ~ \E i \in DOMAIN data : data[i] = Fetched
      BY <2>2, <3>2
    <3>4. granted' = IF v = "OK" \/ (\E i \in DOMAIN data : data[i] = Fetched) THEN stag ELSE granted
      BY <1>4, <3>3
    <3>5. Answer(stag, v, data, to, n)
      BY <1>4, <2>1, <3>4, Zenon DEF Answer
    <3>6. QED
      BY <2>2, <3>5
  <2>3. QED
    BY <2>1, <2>2
<1> HIDE DEF Ends, Goal
<1>5. ASSUME NEW k, NEW v \in {"OK", "NO"}, NEW r \in Reports(k), server \in {"APPEND", "IDLE"},
             Ends(v, r[1], back, r[2]), server = "IDLE" => v = "OK"
      PROVE  Goal
  <2>1. stale' = StaleAfter(r[1])
    BY <1>4, <1>5
  <2>2. Changes(r[1]) /\ \A p \in 1..Len(r[1]) : r[1][p].kind \in {"exists", "expunge", "vanished", "notice"}
    BY <1>2, ReportsFacts DEF Changes
  <2>3. Served(server, v, r[1], back, r[2])
    BY <1>2, <1>5, <2>1, ReportServed
  <2>4. QED
    BY <1>2, <1>4, <1>5, <2>2, <2>3
<1>6. ASSUME NEW v \in {"OK", "NO", "BAD"}, NEW to, to = PlaceAfter(server, v), Ends(v, <<>>, to, held),
             server = "IDLE" /\ c.op = "DONE" => v = "OK"
      PROVE  Goal
  <2>1. stale' = stale /\ server # "SELECT"
    BY <1>1, <1>4, <1>6, StaleFacts DEF Exchanges
  <2>2. Served(server, v, <<>>, to, held)
    BY <1>2, <1>6, <2>1, PlainServed
  <2>3. \A p \in 1..Len(<<>>) : <<>>[p].kind \in {"exists", "expunge", "vanished", "notice"}
    OBVIOUS
  <2>4. to \in Places
    BY <1>2, <1>6 DEF PlaceAfter, Places
  <2>5. QED
    BY <1>4, <1>6, <2>2, <2>3, <2>4
<1>7. CASE server = "APPEND" /\ \E v \in {"OK", "NO"}, r \in Reports("APPEND") : Ends(v, r[1], back, r[2])
  BY <1>5, <1>7
<1>8. CASE server = "AUTHENTICATE" /\ c.op = "LITERAL" /\ Ends("OK", <<>>, "auth", held)
  BY <1>6, <1>8 DEF PlaceAfter
<1>9. CASE server = "AUTHENTICATE" /\ Ends("NO", <<>>, back, held)
  BY <1>6, <1>9 DEF PlaceAfter
<1>10. CASE server = "IDLE" /\ c.op = "DONE" /\ \E r \in Reports("IDLE") : Ends("OK", r[1], back, r[2])
  BY <1>5, <1>10
<1>11. CASE server = "IDLE" /\ c.op # "DONE" /\ Ends("BAD", <<>>, back, held)
  BY <1>6, <1>11 DEF PlaceAfter
<1>12. QED
  BY <1>3, <1>7, <1>8, <1>9, <1>10, <1>11

\* What an answer looks like, item by item.
EndsTagged(u, data, t, v) ==
  /\ u \in Seq(Items) /\ Len(u) = Len(data) + 1 /\ Len(data) \in Nat /\ u # <<>>
  /\ \A p \in 1..Len(data) : u[p] = data[p]
  /\ u[Len(u)].kind = "tagged" /\ u[Len(u)].tag = t /\ u[Len(u)].verdict = v

LEMMA AnswerShape ==
  ASSUME NEW op, NEW v, NEW data, NEW to, NEW n, Served(op, v, data, to, n), NEW t \in Nat,
         NEW u, u = data \o << Tagged(t, v) >>
  PROVE  EndsTagged(u, data, t, v)
<1> DEFINE e == Tagged(t, v)
<1>1. e \in Items /\ e.kind = "tagged" /\ e.tag = t /\ e.verdict = v /\ data \in Seq(Items)
  BY ItemFacts DEF Served
<1>2. <<e>> \in Seq(Items) /\ Len(<<e>>) = 1 /\ <<e>>[1] = e
  BY <1>1, OneItem
<1>3. /\ u \in Seq(Items) /\ Len(u) = Len(data) + Len(<<e>>) /\ Len(data) \in Nat
      /\ \A p \in 1..Len(data) : u[p] = data[p]
      /\ \A p \in (Len(data) + 1)..(Len(data) + Len(<<e>>)) : u[p] = <<e>>[p - Len(data)]
  BY <1>1, <1>2, ConcatFacts
<1> HIDE DEF e
<1>4. Len(u) = Len(data) + 1 /\ u # <<>>
  BY <1>2, <1>3
<1>5. u[Len(u)] = e
  <2>1. Len(u) \in (Len(data) + 1)..(Len(data) + Len(<<e>>)) /\ Len(u) - Len(data) = 1
    BY <1>2, <1>3, <1>4
  <2>2. QED
    BY <1>2, <1>3, <2>1
<1>6. QED
  BY <1>1, <1>3, <1>4, <1>5 DEF EndsTagged

LEMMA AnswerGrants ==
  ASSUME NEW op, NEW v, NEW data, NEW to, NEW n, Served(op, v, data, to, n), NEW t \in Nat, NEW g \in Nat,
         v = "OK" \/ (\E i \in DOMAIN data : data[i] = Fetched) => t <= g
  PROVE  Grants(data \o << Tagged(t, v) >>, g)
<1>0. PICK u : u = data \o << Tagged(t, v) >>
  OBVIOUS
<1>1. /\ Len(u) = Len(data) + 1 /\ Len(data) \in Nat
      /\ \A p \in 1..Len(data) : u[p] = data[p]
      /\ u[Len(u)].kind = "tagged" /\ u[Len(u)].tag = t /\ u[Len(u)].verdict = v
  <2>1. EndsTagged(u, data, t, v)
    BY <1>0, AnswerShape
  <2>2. QED
    BY <2>1 DEF EndsTagged
<1>2. /\ v \in {"OK", "NO", "BAD"} /\ DOMAIN data = 1..Len(data)
      /\ \A p \in 1..Len(data) : \/ data[p].kind \in {"exists", "expunge", "vanished", "notice"}
                                 \/ p = Len(data) /\ data[p] = Fetched
                                 \/ data[p] = Bye
  BY DEF Served
<1>3. \A p \in 1..Len(u) : p = Len(u) \/ p \in 1..Len(data)
  BY <1>1
<1>4. \A p \in 1..Len(u) : u[p].kind = "tagged" => p = Len(u)
  <2>1. Fetched.kind = "fetch" /\ Bye.kind = "bye"
    BY ItemFacts
  <2>2. QED
    BY <1>1, <1>2, <1>3, <2>1
<1>5. \A p \in 1..Len(u) : u[p].kind = "fetch" => p + 1 = Len(u) /\ p \in DOMAIN data /\ data[p] = Fetched
  <2>1. Bye.kind = "bye"
    BY ItemFacts
  <2>2. QED
    BY <1>1, <1>2, <1>3, <2>1
<1>6. \A p \in 1..Len(u) : u[p].kind = "fetch" => p + 1 = Len(u) /\ t <= g
  BY <1>5
<1>7. \A p \in 1..Len(u) : u[p].kind = "tagged" =>
        u[p].verdict \in {"OK", "NO", "BAD"} /\ (u[p].verdict = "OK" => u[p].tag <= g)
  BY <1>1, <1>2, <1>4
<1>8. \A p \in 1..Len(u) : u[p].kind = "fetch" =>
        p < Len(u) /\ u[p + 1].kind = "tagged" /\ u[p + 1].tag <= g
  BY <1>1, <1>6
<1>9. QED
  BY <1>0, <1>7, <1>8 DEF Grants

\* The server sends items.
LEMMA SendsOwn ==
  ASSUME OwnInv, NEW items \in Seq(Items), toClient' = toClient \o items,
         granted' \in Nat, granted <= granted', granted' <= tag, Grants(items, granted'),
         call' = call, ret' = ret, idling' = idling, tag' = tag, stream' = stream, state' = state
  PROVE  toClient' \in Seq(Items) /\ Granted'
<1>1. /\ toClient \in Seq(Items) /\ granted \in Nat /\ tag \in Nat /\ Grants(toClient, granted)
  BY DEF OwnInv, Typed, TypeOK, Granted
<1>2. /\ toClient' \in Seq(Items) /\ Len(toClient') = Len(toClient) + Len(items) /\ Len(toClient) \in Nat
      /\ Len(items) \in Nat
      /\ \A p \in 1..Len(toClient) : toClient'[p] = toClient[p]
  BY <1>1, ConcatFacts
<1>3. Grants(toClient, granted)'
  BY <1>1, GrantsConcat
<1>4. ASSUME "fetch" \in call.seen
      PROVE  toClient' # <<>> /\ toClient'[1].kind = "tagged" /\ toClient'[1].tag <= granted'
  <2>1. toClient # <<>> /\ toClient[1].kind = "tagged" /\ toClient[1].tag <= granted
    BY <1>4 DEF OwnInv, Granted
  <2>2. toClient[1] \in Items /\ Len(toClient) \in Nat \ {0}
    BY <2>1, FirstItem
  <2>3. toClient'[1] = toClient[1] /\ Len(toClient') > 0 /\ toClient[1].tag \in Nat
    BY <1>2, <2>2 DEF Items
  <2>4. QED
    BY <1>1, <2>1, <2>3
<1>5. call = Idle /\ ret = "OK" /\ ~idling => granted' = tag \/ (~stream /\ state = "DISCONNECTED")
  BY <1>1 DEF OwnInv, Granted
<1>6. QED
  BY <1>2, <1>3, <1>4, <1>5 DEF Granted

LEMMA ServedPlace ==
  ASSUME NEW op, NEW v, NEW data, NEW to, NEW n, Served(op, v, data, to, n), back \in Places
  PROVE  to \in Places \cup {"closed"}
<1>1. PlaceAfter(op, v) \in Places
  BY DEF PlaceAfter, Places
<1>2. QED
  BY <1>1 DEF Served

LEMMA AnswerOwn ==
  ASSUME OwnInv, back \in Places, NEW op, NEW v, NEW data, NEW to, NEW n, Served(op, v, data, to, n),
         NEW t \in Nat, Answer(t, v, data, to, n), granted <= t, t <= tag,
         toServer # <<>>, toServer' = Tail(toServer), Rising(toServer, t, tag), Rising(toServer, granted, tag),
         UNCHANGED <<state, stream, tag, sel, call, ret, idling, stag, connects, late>>
  PROVE  OwnInv'
<1> DEFINE u == data \o << Tagged(t, v) >>
<1>1. /\ toClient' = toClient \o u /\ server' = to /\ back' = to /\ held' = n
      /\ granted' = IF v = "OK" \/ (\E i \in DOMAIN data : data[i] = Fetched) THEN t ELSE granted
      /\ qresync' \in BOOLEAN /\ stale' \in BOOLEAN
  BY DEF Answer
<1>2. /\ TypeOK /\ granted \in Nat /\ tag \in Nat /\ toServer \in Seq(Commands) /\ granted <= tag
  BY DEF OwnInv, Typed, TypeOK
<1>3. to \in Places \cup {"closed"} /\ n \in 0..MaxHeld
  BY ServedPlace DEF Served
<1>4. granted' \in Nat /\ granted <= granted' /\ granted' <= tag
  BY <1>1, <1>2
<1>5. Grants(u, granted')
  BY <1>1, <1>2, <1>4, AnswerGrants
<1>6. u \in Seq(Items)
  <2>1. EndsTagged(u, data, t, v)
    BY AnswerShape
  <2>2. QED
    BY <2>1 DEF EndsTagged
<1> HIDE DEF u
<1>7. toClient' \in Seq(Items) /\ Granted'
  BY <1>1, <1>4, <1>5, <1>6, SendsOwn
<1>8. InOrder'
  <2>1. Rising(toServer', t, tag) /\ Rising(toServer', granted, tag)
    BY <1>2, RisingTail
  <2>2. Rising(toServer', granted', tag)
    BY <1>1, <2>1
  <2>3. server' \notin Exchanges
    BY <1>1, <1>3 DEF Places, Exchanges
  <2>4. QED
    BY <2>2, <2>3 DEF InOrder
<1>9. Typed'
  <2>1. toServer' \in Seq(Commands)
    BY <1>2
  <2>2. TypeOK'
    BY <1>1, <1>2, <1>3, <1>4 DEF TypeOK, Places
  <2>3. QED
    BY <1>1, <1>3, <1>7, <2>1, <2>2 DEF OwnInv, Typed
<1>10. TagsBounded'
  BY DEF OwnInv, TagsBounded
<1>11. Structured'
  BY <1>1, <1>3 DEF OwnInv, Structured, Places, Exchanges
<1>12. QED
  BY <1>7, <1>8, <1>9, <1>10, <1>11 DEF OwnInv

\* The items of a report, and of an invitation, grant nothing.
LEMMA PlainGrants ==
  ASSUME NEW s \in Seq(Items), NEW g \in Nat,
         \A p \in 1..Len(s) : s[p].kind \in {"exists", "expunge", "vanished", "notice", "cont", "bye"}
  PROVE  Grants(s, g)
  BY DEF Grants

LEMMA InviteShape ==
  ASSUME NEW data \in Seq(Items), Changes(data), NEW u, u = data \o <<Continue>>
  PROVE  /\ u \in Seq(Items) /\ Len(u) = Len(data) + 1 /\ Len(data) \in Nat
         /\ \A p \in 1..Len(data) : u[p] = data[p] /\ u[p].kind \in {"exists", "expunge", "vanished", "notice"}
         /\ u[Len(u)].kind = "cont"
         /\ \A p \in 1..Len(u) : u[p].kind \in {"exists", "expunge", "vanished", "notice", "cont"}
<1> DEFINE e == Continue
<1>1. e \in Items /\ e.kind = "cont" /\ <<e>> \in Seq(Items) /\ Len(<<e>>) = 1 /\ <<e>>[1] = e
  BY ItemFacts, OneItem
<1>2. /\ u \in Seq(Items) /\ Len(u) = Len(data) + Len(<<e>>) /\ Len(data) \in Nat
      /\ \A p \in 1..Len(data) : u[p] = data[p]
      /\ \A p \in (Len(data) + 1)..(Len(data) + Len(<<e>>)) : u[p] = <<e>>[p - Len(data)]
  BY <1>1, ConcatFacts
<1> HIDE DEF e
<1>3. Len(u) = Len(data) + 1
  BY <1>1, <1>2
<1>4. u[Len(u)] = e
  <2>1. Len(u) \in (Len(data) + 1)..(Len(data) + Len(<<e>>)) /\ Len(u) - Len(data) = 1
    BY <1>1, <1>2, <1>3
  <2>2. QED
    BY <1>1, <1>2, <2>1
<1>5. \A p \in 1..Len(data) : u[p].kind \in {"exists", "expunge", "vanished", "notice"}
  BY <1>2 DEF Changes
<1>6. \A p \in 1..Len(u) : p = Len(u) \/ p \in 1..Len(data)
  BY <1>2, <1>3
<1>7. QED
  BY <1>1, <1>2, <1>3, <1>4, <1>5, <1>6

LEMMA InvitesOwn ==
  ASSUME OwnInv, server \in Places, toServer # <<>>, toServer' = Tail(toServer),
         Invites(toServer[1].op, toServer[1].tag),
         UNCHANGED <<state, stream, tag, sel, call, ret, idling, connects, late>>
  PROVE  OwnInv'
<1> DEFINE c == toServer[1]
<1>1. PICK data \in Seq(Items), n \in 0..MaxHeld :
        /\ c.op \in Exchanges /\ Changes(data)
        /\ toClient' = toClient \o (data \o <<Continue>>) /\ held' = n
        /\ server' = c.op /\ stag' = c.tag /\ UNCHANGED <<back, qresync, granted>> /\ stale' \in BOOLEAN
  BY DEF Invites
<1>2. /\ TypeOK /\ granted \in Nat /\ tag \in Nat /\ toServer \in Seq(Commands) /\ granted <= tag
      /\ back = server /\ Rising(toServer, granted, tag)
  BY DEF OwnInv, Typed, TypeOK, Structured, InOrder
<1>3. PICK u : u = data \o <<Continue>>
  OBVIOUS
<1>4. u \in Seq(Items) /\ Grants(u, granted)
  <2>1. /\ u \in Seq(Items)
        /\ \A p \in 1..Len(u) : u[p].kind \in {"exists", "expunge", "vanished", "notice", "cont"}
    BY <1>1, <1>3, InviteShape
  <2>2. \A p \in 1..Len(u) : u[p].kind \in {"exists", "expunge", "vanished", "notice", "cont", "bye"}
    BY <2>1
  <2>3. QED
    BY <1>2, <2>1, <2>2, PlainGrants
<1>5. toClient' \in Seq(Items) /\ Granted'
  <2>1. toClient' = toClient \o u /\ granted' = granted
    BY <1>1, <1>3
  <2>2. granted' \in Nat /\ granted <= granted' /\ granted' <= tag /\ Grants(u, granted')
    BY <1>2, <1>4, <2>1
  <2>3. QED
    BY <1>4, <2>1, <2>2, SendsOwn
<1>6. /\ Rising(toServer', granted, tag) /\ Rising(toServer', c.tag, tag)
      /\ c.tag \in Nat /\ granted <= c.tag /\ c.tag <= tag
  BY <1>2, RisingTail
<1> HIDE DEF c
<1>7. InOrder'
  BY <1>1, <1>6 DEF InOrder
<1>8. Typed'
  <2>1. toServer' \in Seq(Commands)
    BY <1>2
  <2>2. TypeOK'
    BY <1>1, <1>2 DEF TypeOK, Exchanges
  <2>3. QED
    BY <1>1, <1>5, <1>6, <2>1, <2>2 DEF OwnInv, Typed
<1>9. TagsBounded'
  BY DEF OwnInv, TagsBounded
<1>10. Structured'
  BY <1>1, <1>2 DEF OwnInv, Structured, Places, Exchanges
<1>11. QED
  BY <1>5, <1>7, <1>8, <1>9, <1>10 DEF OwnInv

LEMMA ServeOwn ==
  ASSUME OwnInv, Serve
  PROVE  OwnInv'
<1>1. /\ toServer # <<>> /\ server \in Places /\ back = server /\ toServer' = Tail(toServer)
      /\ UNCHANGED <<state, stream, tag, sel, call, ret, idling, connects, late>>
  BY ServeCases
<1>2. ASSUME NEW v, NEW data, NEW to, NEW n, Served(toServer[1].op, v, data, to, n),
             Answer(toServer[1].tag, v, data, to, n), stag' = stag
      PROVE  OwnInv'
  <2> DEFINE t == toServer[1].tag
  <2>1. /\ granted \in Nat /\ tag \in Nat /\ toServer \in Seq(Commands) /\ Rising(toServer, granted, tag)
    BY DEF OwnInv, Typed, TypeOK, InOrder
  <2>2. t \in Nat /\ granted <= t /\ t <= tag
    BY <1>1, <2>1, RisingTail
  <2>3. Rising(toServer, t, tag)
    <3>1. 1 \in 1..Len(toServer) /\ \A p \in 1..Len(toServer) : 1 <= p
      BY <1>1, <2>1
    <3>2. QED
      BY <2>1, <2>2, <3>1 DEF Rising
  <2> HIDE DEF t
  <2>4. Answer(t, v, data, to, n)
    BY <1>2 DEF t
  <2>5. QED
    BY <1>1, <1>2, <2>1, <2>2, <2>3, <2>4, AnswerOwn
<1>3. CASE Invites(toServer[1].op, toServer[1].tag)
  BY <1>1, <1>3, InvitesOwn
<1>4. QED
  BY <1>2, <1>3, ServeCases

LEMMA ServeExchangeOwn ==
  ASSUME OwnInv, ServeExchange
  PROVE  OwnInv'
<1>1. /\ toServer # <<>> /\ server \in Exchanges /\ back \in Places /\ toServer' = Tail(toServer)
      /\ UNCHANGED <<state, stream, tag, sel, call, ret, idling, stag, connects, late>>
  BY ServeExchangeCases
<1>2. PICK v, data, to, n : Served(server, v, data, to, n) /\ Answer(stag, v, data, to, n)
  BY ServeExchangeCases
<1>3. /\ stag \in Nat /\ granted <= stag /\ Rising(toServer, stag, tag) /\ Rising(toServer, granted, tag)
  BY <1>1 DEF OwnInv, Typed, InOrder
<1>4. stag <= tag
  BY <1>3 DEF Rising
<1>5. QED
  BY <1>1, <1>2, <1>3, <1>4, AnswerOwn

LEMMA PushOwn ==
  ASSUME OwnInv, Push
  PROVE  OwnInv'
<1>1. PICK r \in Reports("IDLE") : toClient' = toClient \o r[1] /\ held' = r[2] /\ stale' = StaleAfter(r[1])
  BY DEF Push, Answers
<1>2. /\ server = "IDLE"
      /\ UNCHANGED <<state, stream, tag, sel, call, ret, idling, toServer, server, back, stag, qresync,
                     granted, connects, late>>
  BY DEF Push, countVars
<1>3. /\ TypeOK /\ held \in 0..MaxHeld /\ granted \in Nat /\ granted <= tag /\ tag \in Nat /\ stale \in BOOLEAN
  BY DEF OwnInv, Typed, TypeOK
<1>4. r[1] \in Seq(Items) /\ r[2] \in 0..MaxHeld /\ Changes(r[1])
  BY <1>3, ReportsFacts
<1>5. Grants(r[1], granted)
  BY <1>3, <1>4, PlainGrants DEF Changes
<1>6. toClient' \in Seq(Items) /\ Granted'
  <2>1. granted' \in Nat /\ granted <= granted' /\ granted' <= tag /\ Grants(r[1], granted')
    BY <1>2, <1>3, <1>5
  <2>2. QED
    BY <1>1, <1>2, <1>4, <2>1, SendsOwn
<1>7. InOrder'
  BY <1>2, OrderKept
<1>8. Typed'
  <2>0. stale' \in BOOLEAN
    BY <1>1, <1>3, StaleTyped
  <2>1. TypeOK'
    BY <1>1, <1>2, <1>3, <1>4, <2>0 DEF TypeOK
  <2>2. QED
    BY <1>2, <1>6, <2>1 DEF OwnInv, Typed
<1>9. TagsBounded' /\ Structured'
  BY <1>2 DEF OwnInv, TagsBounded, Structured
<1>10. QED
  BY <1>6, <1>7, <1>8, <1>9 DEF OwnInv

LEMMA DropOwn ==
  ASSUME OwnInv, Drop
  PROVE  OwnInv'
<1>1. /\ stream /\ server' = "closed" /\ toServer' = <<>>
      /\ UNCHANGED <<state, stream, tag, sel, call, ret, idling, back, stag, held, qresync, granted, stale,
                     connects, late>>
  BY DEF Drop, countVars
<1>2. TypeOK /\ granted \in Nat /\ granted <= tag /\ tag \in Nat
  BY DEF OwnInv, Typed, TypeOK
<1>3. PICK items \in {<<>>, <<Bye>>} : toClient' = toClient \o items
  BY DEF Drop, Answers
<1>4. items \in Seq(Items) /\ \A p \in 1..Len(items) : items[p].kind = "bye"
  <2>1. CASE items = <<>>
    BY <2>1
  <2>2. CASE items = <<Bye>>
    BY <2>2, ItemFacts, OneItem
  <2>3. QED
    BY <2>1, <2>2
<1>5. Grants(items, granted)
  BY <1>2, <1>4, PlainGrants
<1>6. toClient' \in Seq(Items) /\ Granted'
  <2>1. granted' \in Nat /\ granted <= granted' /\ granted' <= tag /\ Grants(items, granted')
    BY <1>1, <1>2, <1>5
  <2>2. QED
    BY <1>1, <1>3, <1>4, <2>1, SendsOwn
<1>7. InOrder'
  BY <1>1, OrderKept
<1>8. Typed'
  <2>1. toServer' \in Seq(Commands)
    BY <1>1
  <2>2. TypeOK'
    BY <1>1, <1>2 DEF TypeOK
  <2>3. QED
    BY <1>1, <1>6, <2>1, <2>2 DEF OwnInv, Typed
<1>9. TagsBounded' /\ Structured'
  BY <1>1 DEF OwnInv, TagsBounded, Structured, Places, Exchanges
<1>10. QED
  BY <1>6, <1>7, <1>8, <1>9 DEF OwnInv

LEMMA InitOwn == Init => OwnInv
<1> SUFFICES ASSUME Init PROVE OwnInv
  OBVIOUS
<1>1. /\ state = "DISCONNECTED" /\ stream = FALSE /\ tag = 0 /\ sel = NoSelection /\ call = Idle
      /\ ret = "none" /\ idling = FALSE /\ toServer = <<>> /\ toClient = <<>>
      /\ server = "closed" /\ back = "closed" /\ stag = 0 /\ held = 0 /\ granted = 0
      /\ qresync = FALSE /\ stale = FALSE
      /\ connects = 0 /\ late = FALSE
  BY DEF Init
<1>2. Typed
  <2>1. toServer \in Seq(Commands) /\ toClient \in Seq(Items)
    BY <1>1
  <2>2. TypeOK
    <3>1. tag \in 0..(MaxTags + MaxConnects) /\ held \in 0..MaxHeld /\ granted \in 0..tag
      BY <1>1, ConstFacts
    <3>2. QED
      BY <1>1, <3>1, SelectionFacts DEF TypeOK
  <2>3. connects \in 0..MaxConnects /\ tag \in Nat /\ stag \in Nat
    BY <1>1, ConstFacts
  <2>4. QED
    BY <1>1, <2>1, <2>2, <2>3 DEF Typed
<1>3. Structured
  BY <1>1, IdleFacts DEF Structured, Places, Exchanges
<1>4. TagsBounded
  BY <1>1, IdleFacts, ConstFacts DEF TagsBounded
<1>5. InOrder
  BY <1>1 DEF InOrder, Rising, Exchanges
<1>6. Granted
  BY <1>1, IdleFacts DEF Granted, Grants
<1>7. QED
  BY <1>2, <1>3, <1>4, <1>5, <1>6 DEF OwnInv

LEMMA OwnStep == OwnInv /\ [Next]_vars => OwnInv'
<1> SUFFICES ASSUME OwnInv, [Next]_vars PROVE OwnInv'
  OBVIOUS
<1>1. CASE ClientStarts
  BY <1>1, StartsIssue, IssuesOwn
<1>2. CASE Connect
  BY <1>2, ConnectOwn
<1>3. CASE IdleDone
  BY <1>3, IdleDoneOwn
<1>4. CASE Greeted
  BY <1>4, GreetedOwn
<1>5. CASE ReadItem
  BY <1>5, ReadItemOwn
<1>6. CASE Responded
  BY <1>6, RespondedOwn
<1>7. CASE EndOfStream
  BY <1>7, EndOfStreamOwn
<1>8. CASE GoesOn
  BY <1>8, GoesOnOwn
<1>9. CASE IdleSkips
  BY <1>9, IdleSkipsOwn
<1>10. CASE Timeout
  BY <1>10, TimeoutOwn
<1>11. CASE Serve
  BY <1>11, ServeOwn
<1>12. CASE ServeExchange
  BY <1>12, ServeExchangeOwn
<1>13. CASE Push
  BY <1>13, PushOwn
<1>14. CASE Drop
  BY <1>14, DropOwn
<1>15. CASE UNCHANGED vars
  BY <1>15 DEF vars, serverVars, countVars, OwnInv, Typed, TypeOK, Structured, TagsBounded, InOrder, Granted
<1>16. QED
  BY <1>1, <1>2, <1>3, <1>4, <1>5, <1>6, <1>7, <1>8, <1>9, <1>10, <1>11, <1>12, <1>13, <1>14, <1>15
     DEF Next, ClientStarts, SessionCommand

\* A call that reports success was told so by the server about this very
\* command, whatever was left unread before it; mailimap_logout, which takes the
\* end of the stream for success, leaves no session.
THEOREM SuccessOwned == Spec => []SuccessIsOwn
<1>1. OwnInv => SuccessIsOwn
  BY DEF OwnInv, Typed, Granted, SuccessIsOwn
<1>2. QED
  BY <1>1, InitOwn, OwnStep, PTL DEF Spec

-----------------------------------------------------------------------------
\* Nobody waits for the other: the client.

LEMMA ChangesFacts ==
  /\ Changes(<<>>)
  /\ \A s \in Seq(Items) : s # <<>> /\ Changes(s) => Changes(Tail(s)) /\ Head(s).kind \in {"exists", "expunge", "vanished", "notice"}
  /\ \A s, t \in Seq(Items) : Changes(s) /\ Changes(t) => Changes(s \o t)
<1>1. Changes(<<>>)
  BY DEF Changes
<1>2. ASSUME NEW s \in Seq(Items), s # <<>>, Changes(s)
      PROVE  Changes(Tail(s)) /\ Head(s).kind \in {"exists", "expunge", "vanished", "notice"}
  <2> DEFINE t == Tail(s)
  <2>1. /\ Len(t) = Len(s) - 1 /\ Len(s) \in Nat \ {0} /\ Head(s) = s[1]
        /\ \A p \in 1..(Len(s) - 1) : t[p] = s[p + 1]
    BY <1>2, TailFacts
  <2> HIDE DEF t
  <2>2. Changes(t) /\ s[1].kind \in {"exists", "expunge", "vanished", "notice"}
    BY <1>2, <2>1 DEF Changes
  <2>3. QED
    BY <2>1, <2>2 DEF t
<1>3. ASSUME NEW s \in Seq(Items), NEW t \in Seq(Items), Changes(s), Changes(t)
      PROVE  Changes(s \o t)
  <2> DEFINE u == s \o t
             m == Len(s)
             n == Len(t)
  <2>1. /\ Len(u) = m + n /\ m \in Nat /\ n \in Nat
        /\ \A p \in 1..m : u[p] = s[p]
        /\ \A p \in (m + 1)..(m + n) : u[p] = t[p - m]
    BY ConcatFacts
  <2>2. (\A p \in 1..m : s[p].kind \in {"exists", "expunge", "vanished", "notice"}) /\ (\A p \in 1..n : t[p].kind \in {"exists", "expunge", "vanished", "notice"})
    BY <1>3 DEF Changes
  <2> HIDE DEF u, m, n
  <2>3. \A p \in 1..Len(u) : p \in 1..m \/ (p - m \in 1..n /\ p \in (m + 1)..(m + n))
    BY <2>1
  <2>4. Changes(u)
    BY <2>1, <2>2, <2>3 DEF Changes
  <2>5. QED
    BY <2>4 DEF u
<1>4. QED
  BY <1>1, <1>2, <1>3

\* A sequence of one.
LEMMA OneCommand ==
  ASSUME NEW c
  PROVE  Len(Append(<<>>, c)) = 1 /\ Append(<<>>, c)[1] = c /\ Append(<<>>, c) # <<>>
  OBVIOUS

LEMMA IssuesPhase ==
  ASSUME PhaseInv, NEW op, NEW at, Issues(op, at)
  PROVE  Phase'
<1> DEFINE c == [op |-> op, tag |-> tag + 1]
<1>1. /\ call = Idle /\ ~idling /\ tag' = tag + 1
      /\ toServer' = Append(toServer, c) /\ call' = Waiting(op, at, Fresh(op))
      /\ UNCHANGED <<toClient, server, idling, late>>
  BY DEF Issues, Command, serverVars, countVars
<1>2. /\ op \in Ops \ {"CONNECT", "DONE"} /\ at \in {"response", "go", "once"}
      /\ op \in Exchanges => at \in {"go", "once"}
  BY DEF Issues, Ops, Exchanges
<1>3. sel \in Selections /\ idling \in BOOLEAN
  BY DEF PhaseInv, OwnInv, Typed, TypeOK
<1>4. /\ call' # Idle /\ call'.op = op /\ call'.at = at /\ call'.sel = Fresh(op)
      /\ call'.seen = {}
  <2>1. Fresh(op) \in Selections /\ op \in Ops /\ at \in {"greeting", "response", "early", "go", "once"}
    BY <1>2, <1>3, FreshFacts
  <2>2. Waits(op, at, Fresh(op))
    BY <1>1, <2>1, WaitingFacts
  <2>3. QED
    BY <2>2 DEF Waits
<1>5. op = "SELECT" => call'.sel = NewSelection
  BY <1>4 DEF Fresh
<1>6. SUFFICES ASSUME Live PROVE Asked' /\ call'.at # "greeting" /\ server' \notin Exchanges
  BY <1>1, <1>4, <1>6 DEF Phase, Live
<1>7. toServer = <<>> /\ toClient = <<>> /\ server \notin Exchanges
  BY <1>1, <1>3, <1>6 DEF PhaseInv, Phase, Exchanges
<1>8. Len(toServer') = 1 /\ toServer'[1] = c
  BY <1>1, <1>7, OneCommand
<1>9. toServer'[1].op = op /\ toServer'[1].tag = tag'
  BY <1>1, <1>8
<1> HIDE DEF c
<1>10. Changes(toClient)'
  BY <1>1, <1>7, ChangesFacts
<1>11. QED
  BY <1>1, <1>2, <1>4, <1>5, <1>7, <1>8, <1>9, <1>10 DEF Asked

LEMMA ConnectPhase ==
  ASSUME PhaseInv, Connect
  PROVE  Phase'
<1>1. PICK greeting \in {"OK", "PREAUTH", "BYE"} :
        /\ toClient' = << Item("greeting", 0, 0, greeting) >>
        /\ server' = CASE greeting = "OK" -> "nonauth" [] greeting = "PREAUTH" -> "auth"
                       [] greeting = "BYE" -> "closed"
  BY DEF Connect
<1>2. toServer' = <<>> /\ call' = Waiting("CONNECT", "greeting", sel)
  BY DEF Connect
<1>3. sel \in Selections
  BY DEF PhaseInv, OwnInv, Typed, TypeOK
<1>4. Waits("CONNECT", "greeting", sel)
  BY <1>2, <1>3, WaitingFacts DEF Ops
<1>5. /\ server' \in {"closed", "nonauth", "auth"} /\ (server' = "nonauth" => greeting = "OK")
      /\ server' = "auth" => greeting = "PREAUTH"
  BY <1>1
<1>6. Len(toClient') = 1 /\ toClient'[1].verdict = greeting
  BY <1>1 DEF Item
<1>7. QED
  BY <1>2, <1>4, <1>5, <1>6 DEF Phase, Live, Waits, Reads, Exchanges

LEMMA IdleDonePhase ==
  ASSUME PhaseInv, IdleDone
  PROVE  Phase'
<1> DEFINE c == [op |-> "DONE", tag |-> tag]
<1>1. /\ call = Idle /\ idling /\ toServer' = Append(toServer, c)
      /\ call' = Waiting("DONE", "response", sel)
      /\ UNCHANGED <<tag, toClient, server, stag, late>>
  BY DEF IdleDone, serverVars
<1>2. sel \in Selections
  BY DEF PhaseInv, OwnInv, Typed, TypeOK
<1>3. Waits("DONE", "response", sel)
  BY <1>1, <1>2, WaitingFacts DEF Ops
<1>4. SUFFICES ASSUME Live PROVE Asked' /\ (server' \in Exchanges => stag' = tag')
  BY <1>1, <1>3, <1>4 DEF Phase, Live, Waits
<1>5. /\ toServer = <<>> /\ Changes(toClient) /\ server = "IDLE"
      /\ server \in Exchanges => stag = tag
  BY <1>1, <1>4 DEF PhaseInv, Phase
<1>6. Len(toServer') = 1 /\ toServer'[1] = c
  BY <1>1, <1>5, OneCommand
<1>7. toServer'[1].op = "DONE" /\ toServer'[1].tag = tag'
  BY <1>1, <1>6
<1>8. QED
  BY <1>1, <1>3, <1>5, <1>6, <1>7 DEF Asked, Waits

\* A call returns and nothing of it is left.
LEMMA ReturnsPhase ==
  ASSUME PhaseInv, call' = Idle, toServer' = <<>>, toClient' = <<>>, idling' = FALSE,
         server' \notin Exchanges
  PROVE  Phase'
  BY IdleFacts, ChangesFacts DEF Phase, Reads, Exchanges

LEMMA GreetedPhase ==
  ASSUME PhaseInv, Greeted
  PROVE  Phase'
<1>1. /\ call.at = "greeting" /\ toClient' = <<>> /\ call' = Idle
      /\ UNCHANGED <<idling, toServer, server, late>>
  BY DEF Greeted, Returns, serverVars
<1>2. call # Idle /\ idling \in BOOLEAN /\ ~idling
  BY <1>1, IdleFacts DEF PhaseInv, OwnInv, Typed, TypeOK, Structured
<1>3. CASE ~Live
  BY <1>1, <1>3 DEF Phase, Live
<1>4. CASE Live
  BY <1>1, <1>2, <1>4, ReturnsPhase DEF PhaseInv, Phase, Exchanges
<1>5. QED
  BY <1>3, <1>4

\* The last item stays the last.
LEMMA LastKept ==
  ASSUME OwnInv, toClient # <<>>, toClient' = Tail(toClient), Len(toClient) > 1
  PROVE  toClient' # <<>> /\ toClient'[Len(toClient')] = toClient[Len(toClient)]
<1>1. /\ Len(toClient) \in Nat /\ Len(toClient') = Len(toClient) - 1
      /\ \A p \in 1..(Len(toClient) - 1) : toClient'[p] = toClient[p + 1]
  BY FirstItem
<1>2. Len(toClient') \in 1..(Len(toClient) - 1) /\ Len(toClient') + 1 = Len(toClient)
  BY <1>1
<1>3. toClient' # <<>>
  BY <1>2
<1>4. toClient'[Len(toClient')] = toClient[Len(toClient') + 1]
  BY <1>1, <1>2
<1>5. QED
  BY <1>2, <1>3, <1>4

LEMMA ReadItemPhase ==
  ASSUME PhaseInv, ReadItem, Live
  PROVE  /\ Phase' /\ Live' /\ call'.seen = call.seen \cup {toClient[1].kind} /\ "bye" \notin call'.seen
         /\ \/ Asked /\ Asked' /\ call.op = "DONE"
            \/ Answered /\ Answered' /\ Len(toClient) > 1
            \/ (Stuck \/ Invited) /\ Stuck'
<1> DEFINE n == Len(toClient)
<1>1. /\ call.at \in Reads /\ toClient # <<>> /\ Head(toClient).kind # "tagged"
      /\ call.at \in {"go", "once"} => Head(toClient).kind # "cont" /\ call.op # "IDLE"
      /\ toClient' = Tail(toClient)
      /\ UNCHANGED <<tag, toServer, server, stag, late>>
  BY DEF ReadItem, Reading, Reads, ReadsOn, serverVars
<1>2. /\ toClient[1] \in Items /\ Head(toClient) = toClient[1] /\ n \in Nat \ {0}
      /\ toClient' \in Seq(Items) /\ Len(toClient') = n - 1
      /\ \A p \in 1..(n - 1) : toClient'[p] = toClient[p + 1]
  BY <1>1, FirstItem DEF PhaseInv
<1>3. call \in Calls /\ OwnInv /\ toClient \in Seq(Items)
  BY <1>1, NothingFetched DEF PhaseInv, OwnInv, Typed
<1>4. /\ call'.op = call.op /\ call'.at = (IF call.at \in {"go", "once"} THEN "early" ELSE call.at)
      /\ call'.seen = call.seen \cup {toClient[1].kind}
  BY <1>2, <1>3 DEF ReadItem, response_store, Calls
<1>5. /\ server \in Exchanges => stag = tag
      /\ Asked \/ Answered \/ Invited \/ Stuck
      /\ "bye" \notin call.seen
  BY <1>1 DEF PhaseInv, Phase
<1> HIDE DEF n
<1>6. Changes(toClient) => Changes(toClient)' /\ toClient[1].kind # "bye"
  BY <1>1, <1>2, <1>3, ChangesFacts
<1>7. Asked => Asked' /\ call.op = "DONE" /\ toClient[1].kind # "bye"
  BY <1>1, <1>4, <1>6 DEF Asked
<1>8. 1 \in 1..Len(toClient)
  BY <1>2 DEF n
<1>9. ASSUME Stuck
      PROVE  Stuck' /\ toClient[1].kind # "bye"
  <2>1. \A p \in 1..Len(toClient') : toClient'[p].kind \in {"exists", "expunge", "vanished", "notice", "cont"}
    BY <1>2, <1>9 DEF Stuck, n
  <2>2. toClient[1].kind # "bye"
    BY <1>8, <1>9 DEF Stuck
  <2>3. QED
    BY <1>1, <1>4, <1>9, <2>1, <2>2 DEF Stuck
<1>10. ASSUME Invited
       PROVE  Stuck' /\ toClient[1].kind # "bye"
  <2>1. PICK k \in 1..Len(toClient) :
           /\ toClient[k].kind = "cont"
           /\ \A p \in 1..Len(toClient) : p # k => toClient[p].kind \in {"exists", "expunge", "vanished", "notice"}
    BY <1>10 DEF Invited
  <2>2. /\ toServer = <<>> /\ call.at \in {"go", "once"} /\ server = call.op
        /\ call.op \in {"APPEND", "AUTHENTICATE"}
    BY <1>1, <1>3, <1>10 DEF Invited, OwnInv, Structured, Exchanges
  <2>3. toClient[1].kind # "bye"
    BY <1>8, <2>1
  <2>4. \A p \in 1..Len(toClient') : toClient'[p].kind \in {"exists", "expunge", "vanished", "notice", "cont"}
    <3>1. \A p \in 1..Len(toClient') : p + 1 \in 1..Len(toClient) /\ toClient'[p] = toClient[p + 1]
      BY <1>2 DEF n
    <3>2. QED
      BY <2>1, <3>1
  <2>5. QED
    BY <1>1, <1>4, <2>2, <2>3, <2>4 DEF Stuck
<1>11. ASSUME Answered
       PROVE  Answered' /\ Len(toClient) > 1 /\ toClient[1].kind # "bye"
  <2>1. Len(toClient) > 1 /\ toClient[1].kind # "bye"
    BY <1>1, <1>2, <1>11 DEF Answered, n
  <2>2. toClient' # <<>> /\ toClient'[Len(toClient')] = toClient[Len(toClient)]
    BY <1>1, <1>3, <2>1, LastKept
  <2>3. \A p \in 1..(Len(toClient') - 1) : toClient'[p].kind \in {"exists", "expunge", "vanished", "notice", "fetch"}
    <3>1. \A p \in 1..(Len(toClient') - 1) : p \in 1..(n - 1) /\ p + 1 \in 1..(n - 1)
      BY <1>2
    <3>2. QED
      BY <1>2, <1>11, <3>1 DEF Answered, n
  <2>4. QED
    BY <1>1, <1>4, <1>11, <2>1, <2>2, <2>3 DEF Answered
<1>12. "bye" \notin call'.seen
  BY <1>4, <1>5, <1>7, <1>9, <1>10, <1>11
<1>13. Phase' /\ Live'
  <2>1. call'.at \in Reads /\ call'.at # "greeting" /\ call' # Idle
    BY <1>1, <1>4, IdleFacts DEF Reads
  <2>2. Asked' \/ Answered' \/ Stuck'
    BY <1>5, <1>7, <1>9, <1>10, <1>11
  <2>3. QED
    BY <1>1, <1>5, <1>12, <2>1, <2>2 DEF Phase, Live
<1>14. QED
  BY <1>4, <1>5, <1>7, <1>9, <1>10, <1>11, <1>12, <1>13

\* A tagged response comes alone.
LEMMA RespondedLast ==
  ASSUME PhaseInv, Responded, Live
  PROVE  "bye" \notin call.seen /\ Answered /\ Len(toClient) = 1 /\ Tail(toClient) = <<>>
<1>1. call.at \in Reads /\ toClient # <<>> /\ Head(toClient).kind = "tagged"
  BY DEF Responded, Reading, Reads
<1>2. /\ Head(toClient) = toClient[1] /\ Len(toClient) \in Nat \ {0} /\ toClient \in Seq(Items)
      /\ Tail(toClient) \in Seq(Items) /\ Len(Tail(toClient)) = Len(toClient) - 1
  BY <1>1, FirstItem DEF PhaseInv, OwnInv, Typed
<1>3. (Asked \/ Answered \/ Invited \/ Stuck) /\ "bye" \notin call.seen
  BY <1>1 DEF PhaseInv, Phase
<1>4. ~Changes(toClient)
  BY <1>1, <1>2 DEF Changes
<1>5. ~Asked
  BY <1>4 DEF Asked
<1>6. ~Invited /\ ~Stuck
  BY <1>1, <1>2 DEF Invited, Stuck
<1>7. Answered
  BY <1>3, <1>5, <1>6
<1>8. Len(toClient) = 1
  <2>1. Len(toClient) > 1 => toClient[1].kind \in {"exists", "expunge", "vanished", "notice", "fetch"}
    BY <1>2, <1>7 DEF Answered
  <2>2. QED
    BY <1>1, <1>2, <2>1
<1>9. Tail(toClient) = <<>>
  <2>1. Len(Tail(toClient)) = 0
    BY <1>2, <1>8
  <2>2. \A s \in Seq(Items) : Len(s) = 0 => s = <<>>
    OBVIOUS
  <2>3. QED
    BY <1>2, <2>1, <2>2
<1>10. QED
  BY <1>3, <1>7, <1>8, <1>9

LEMMA RespondedPhase ==
  ASSUME PhaseInv, Responded
  PROVE  Phase'
<1>1. call # Idle /\ idling = FALSE
  <2>1. call # Idle
    BY IdleFacts DEF Responded, Reading
  <2>2. QED
    BY <2>1 DEF PhaseInv, OwnInv, Typed, TypeOK, Structured
<1>2. CASE call.op = "LOGOUT"
  BY <1>1, <1>2, ReturnsPhase DEF Responded, Returns, Closes, Exchanges
<1>3. CASE call.op # "LOGOUT"
  <2>1. /\ call' = Idle /\ toClient' = Tail(toClient) /\ server' \in {server, "closed"}
        /\ UNCHANGED <<idling, toServer, late>>
    BY <1>3 DEF Responded, Returns
  <2>2. CASE ~Live
    BY <2>1, <2>2 DEF Phase, Live
  <2>3. CASE Live
    <3>1. Answered /\ Tail(toClient) = <<>>
      BY <2>3, RespondedLast
    <3>2. toServer = <<>> /\ server \notin Exchanges
      BY <3>1 DEF Answered
    <3>3. QED
      BY <1>1, <2>1, <3>1, <3>2, ReturnsPhase DEF Exchanges
  <2>4. QED
    BY <2>2, <2>3
<1>4. QED
  BY <1>2, <1>3

LEMMA EndOfStreamPhase ==
  ASSUME EndOfStream
  PROVE  Phase'
  BY DEF EndOfStream, Eof, Closes, serverVars, Phase, Live

LEMMA TimeoutPhase ==
  ASSUME Timeout
  PROVE  Phase'
  BY DEF Timeout, Closes, Phase, Live

\* The continuation request is the first item.
LEMMA InviteTaken ==
  ASSUME PhaseInv, GoesOn, Live
  PROVE  /\ toServer = <<>> /\ server = call.op /\ Changes(Tail(toClient))
         /\ call.op # "IDLE" => Tail(toClient) = <<>>
<1>1. call.at \in {"go", "once"} /\ toClient # <<>> /\ Head(toClient).kind = "cont"
  BY DEF GoesOn
<1>2. /\ Head(toClient) = toClient[1] /\ Len(toClient) \in Nat \ {0} /\ toClient \in Seq(Items)
      /\ Tail(toClient) \in Seq(Items) /\ Len(Tail(toClient)) = Len(toClient) - 1
      /\ \A p \in 1..(Len(toClient) - 1) : Tail(toClient)[p] = toClient[p + 1]
  BY <1>1, FirstItem DEF PhaseInv, OwnInv, Typed
<1>3. Asked \/ Answered \/ Invited \/ Stuck
  BY <1>1 DEF PhaseInv, Phase, Reads
<1>4. ~Changes(toClient)
  BY <1>1, <1>2 DEF Changes
<1>5. ~Asked /\ ~Stuck
  BY <1>1, <1>4 DEF Asked, Stuck
<1>6. ~Answered
  BY <1>1, <1>2 DEF Answered
<1>7. Invited
  BY <1>3, <1>5, <1>6
<1>8. PICK k \in 1..Len(toClient) :
         /\ toClient[k].kind = "cont" /\ (k < Len(toClient) => call.op = "IDLE")
         /\ \A p \in 1..Len(toClient) : p # k => toClient[p].kind \in {"exists", "expunge", "vanished", "notice"}
  BY <1>7 DEF Invited
<1>9. k = 1
  BY <1>1, <1>2, <1>8
<1>10. Changes(Tail(toClient))
  <2> DEFINE t == Tail(toClient)
  <2>1. \A p \in 1..Len(t) : p + 1 \in 1..Len(toClient) /\ p + 1 # 1 /\ t[p] = toClient[p + 1]
    BY <1>2
  <2> HIDE DEF t
  <2>2. Changes(t)
    BY <1>8, <1>9, <2>1 DEF Changes
  <2>3. QED
    BY <2>2 DEF t
<1>11. ASSUME call.op # "IDLE" PROVE Tail(toClient) = <<>>
  <2>1. Len(Tail(toClient)) = 0
    BY <1>2, <1>8, <1>9, <1>11
  <2>2. \A s \in Seq(Items) : Len(s) = 0 => s = <<>>
    OBVIOUS
  <2>3. QED
    BY <1>2, <2>1, <2>2
<1>12. QED
  BY <1>7, <1>10, <1>11 DEF Invited

LEMMA GoesOnPhase ==
  ASSUME PhaseInv, GoesOn
  PROVE  Phase'
<1>1. /\ call.at \in {"go", "once"} /\ toClient # <<>> /\ toClient' = Tail(toClient)
      /\ UNCHANGED <<tag, server, stag>> /\ (late => late')
  BY DEF GoesOn, serverVars
<1>2. SUFFICES ASSUME Live, ~late' PROVE Phase'
  BY <1>1 DEF Phase, Live
<1>3. /\ toServer = <<>> /\ server = call.op /\ Changes(Tail(toClient))
      /\ call.op # "IDLE" => Tail(toClient) = <<>>
  BY <1>2, InviteTaken
<1>4. call \in Calls /\ call # Idle /\ tag \in Nat /\ (server \in Exchanges => stag = tag)
      /\ "bye" \notin call.seen
  <2>1. TypeOK /\ call # Idle
    BY <1>1, IdleFacts DEF PhaseInv, OwnInv, Typed
  <2>2. QED
    BY <1>2, <2>1, CallFacts DEF PhaseInv, OwnInv, Typed, Phase
<1>5. CASE call.op = "IDLE" /\ Returns("OK") /\ idling' = TRUE /\ UNCHANGED <<toServer, late>>
  BY <1>1, <1>3, <1>4, <1>5, IdleFacts DEF Returns, Phase, Reads, Exchanges
<1>6. CASE /\ call.op \in {"APPEND", "AUTHENTICATE"}
           /\ toServer' = Append(toServer, [op |-> "LITERAL", tag |-> tag])
           /\ call' = IF call.op = "AUTHENTICATE" /\ call.at = "go" THEN call
                      ELSE [call EXCEPT !.at = "response"]
           /\ UNCHANGED <<ret, idling, late>>
  <2> DEFINE c == [op |-> "LITERAL", tag |-> tag]
  <2>1. Len(toServer') = 1 /\ toServer'[1] = c
    BY <1>3, <1>6, OneCommand
  <2>2. toServer'[1].op = "LITERAL" /\ toServer'[1].tag = tag'
    BY <1>1, <2>1
  <2>3. /\ call' # Idle /\ call'.op = call.op /\ call'.at \in {"go", "response"}
        /\ call'.seen = call.seen
        /\ call.op = "APPEND" => call'.at = "response"
    BY <1>1, <1>4, <1>6, IdleFacts DEF Calls, Ops
  <2>4. Asked'
    BY <1>1, <1>3, <1>6, <2>1, <2>2, <2>3, ChangesFacts DEF Asked
  <2>5. QED
    BY <1>1, <1>4, <2>3, <2>4 DEF Phase
<1>7. CASE call.op = "AUTHENTICATE" /\ Returns("error") /\ late' = TRUE
  BY <1>2, <1>7
<1>8. QED
  BY <1>5, <1>6, <1>7 DEF GoesOn

-----------------------------------------------------------------------------
\* Nobody waits for the other: the server.

\* A command under way is the only one, and this is where its call is.
LEMMA OneAsked ==
  ASSUME PhaseInv, Live, toServer # <<>>
  PROVE  /\ Asked /\ call # Idle /\ call.at \in Reads /\ Tail(toServer) = <<>> /\ toServer[1].tag = tag
         /\ call.op # "CONNECT" /\ "bye" \notin call.seen
<1>1. TypeOK /\ toServer \in Seq(Commands)
  BY DEF PhaseInv, OwnInv, Typed
<1>2. call # Idle /\ call.at # "greeting" /\ "bye" \notin call.seen
  BY DEF PhaseInv, Phase
<1>3. call.at \in Reads
  BY <1>1, <1>2, CallFacts DEF Reads
<1>4. Asked
  BY <1>3 DEF PhaseInv, Phase, Answered, Invited, Stuck
<1>5. Tail(toServer) = <<>>
  <2>1. Len(toServer) = 1
    BY <1>4 DEF Asked
  <2>2. Tail(toServer) \in Seq(Commands) /\ Len(Tail(toServer)) = 0
    BY <1>1, <2>1
  <2>3. \A s \in Seq(Commands) : Len(s) = 0 => s = <<>>
    OBVIOUS
  <2>4. QED
    BY <2>2, <2>3
<1>6. QED
  BY <1>2, <1>3, <1>4, <1>5 DEF Asked, PhaseInv, OwnInv, Structured

\* A complete response is on its way.
LEMMA AnswerPhase ==
  ASSUME PhaseInv, Live, back \in Places, NEW op, NEW v, NEW data, NEW to, NEW n, Served(op, v, data, to, n),
         to # "closed", Answer(tag, v, data, to, n), toServer # <<>>, toServer' = Tail(toServer),
         UNCHANGED <<tag, call, late>>, Changes(toClient),
         call.at \in {"go", "once"} => toClient = <<>> /\ data = <<>>
  PROVE  Phase' /\ Answered'
         /\ toClient'[Len(toClient')].verdict = v
<1>1. /\ call # Idle /\ call.at \in Reads /\ Tail(toServer) = <<>> /\ "bye" \notin call.seen
      /\ tag \in Nat /\ toClient \in Seq(Items)
  BY OneAsked DEF PhaseInv, OwnInv, Typed
<1>2. PICK u : u = data \o << Tagged(tag, v) >>
  OBVIOUS
<1>3. /\ u \in Seq(Items) /\ Len(u) = Len(data) + 1 /\ Len(data) \in Nat /\ u # <<>>
      /\ \A p \in 1..Len(data) : u[p] = data[p]
      /\ u[Len(u)].kind = "tagged" /\ u[Len(u)].tag = tag /\ u[Len(u)].verdict = v
  <2>1. tag \in Nat
    BY <1>1
  <2>2. PICK t \in Nat : t = tag
    BY <2>1
  <2>3. u = data \o << Tagged(t, v) >>
    BY <1>2, <2>2
  <2>4. EndsTagged(u, data, t, v)
    BY <2>3, AnswerShape
  <2>5. QED
    BY <2>2, <2>4 DEF EndsTagged
<1>4. toClient' = toClient \o u /\ server' = to
  BY <1>2 DEF Answer
<1> DEFINE m == Len(toClient)
           k == Len(u)
           w == toClient \o u
<1>5. /\ Len(w) = m + k /\ m \in Nat /\ k \in Nat
      /\ \A p \in 1..m : w[p] = toClient[p]
      /\ \A p \in (m + 1)..(m + k) : w[p] = u[p - m]
  <2>1. toClient \in Seq(Items) /\ u \in Seq(Items)
    BY <1>1, <1>3
  <2>2. QED
    BY <2>1, ConcatFacts
<1>6. \A p \in 1..Len(data) : data[p].kind \in {"exists", "expunge", "vanished", "notice", "fetch"}
  <2>1. Fetched.kind = "fetch"
    BY ItemFacts
  <2>2. QED
    BY <2>1 DEF Served
<1> HIDE DEF m, k, w
<1>7. w[Len(w)] = u[Len(u)] /\ Len(w) > 0
  <2>1. m + k \in (m + 1)..(m + k) /\ (m + k) - m = k /\ k > 0
    BY <1>3, <1>5 DEF k
  <2>2. QED
    BY <1>5, <2>1 DEF k
<1>8. ASSUME NEW p \in 1..(Len(w) - 1)
      PROVE  w[p].kind \in {"exists", "expunge", "vanished", "notice", "fetch"}
  <2>1. CASE p \in 1..m
    BY <1>5, <2>1 DEF Changes, m
  <2>2. CASE p \in (m + 1)..(m + k)
    <3>1. p - m \in 1..Len(data) /\ w[p] = u[p - m]
      BY <1>3, <1>5, <2>2 DEF k
    <3>2. QED
      BY <1>3, <1>6, <3>1
  <2>3. QED
    BY <1>5, <2>1, <2>2
<1>9. call.at \in {"go", "once"} => Len(w) = 1
  <2>1. ASSUME call.at \in {"go", "once"} PROVE m = 0 /\ k = 1
    <3>1. Len(toClient) = 0 /\ Len(data) = 0
      BY <2>1
    <3>2. QED
      BY <1>3, <3>1 DEF m, k
  <2>2. QED
    BY <1>5, <2>1
<1>10. w = toClient'
  BY <1>4 DEF w
<1>11. to \notin Exchanges
  BY ServedPlace DEF Places, Exchanges
<1>12. w # <<>>
  BY <1>7
<1>13. Answered'
  BY <1>1, <1>3, <1>4, <1>7, <1>8, <1>9, <1>10, <1>11, <1>12 DEF Answered
<1>14. Phase'
  BY <1>1, <1>4, <1>11, <1>13 DEF Phase, Live, Reads
<1>15. QED
  BY <1>3, <1>7, <1>10, <1>13, <1>14

LEMMA InvitesPhase ==
  ASSUME PhaseInv, Live, NEW op, op = call.op, call.at \in {"go", "once"}, toServer # <<>>,
         toServer' = Tail(toServer), toClient = <<>>, Invites(op, tag), UNCHANGED <<tag, call, late>>
  PROVE  Phase'
<1>1. PICK data \in Seq(Items), n \in 0..MaxHeld :
        /\ op \in Exchanges /\ Changes(data)
        /\ toClient' = toClient \o (data \o <<Continue>>)
        /\ server' = op /\ stag' = tag
  BY DEF Invites
<1>2. call # Idle /\ call.at \in Reads /\ Tail(toServer) = <<>> /\ "bye" \notin call.seen
  BY OneAsked
<1>3. PICK u : u = data \o <<Continue>>
  OBVIOUS
<1>4. /\ u \in Seq(Items) /\ Len(u) = Len(data) + 1 /\ Len(data) \in Nat
      /\ \A p \in 1..Len(data) : u[p].kind \in {"exists", "expunge", "vanished", "notice"}
      /\ u[Len(u)].kind = "cont"
  BY <1>1, <1>3, InviteShape
<1>5. toClient' = u
  BY <1>1, <1>3, <1>4
<1> DEFINE k == Len(u)
<1>6. /\ k \in 1..Len(u) /\ u[k].kind = "cont" /\ ~(k < Len(u))
      /\ \A p \in 1..Len(u) : p # k => u[p].kind \in {"exists", "expunge", "vanished", "notice"}
  BY <1>4
<1> HIDE DEF k
<1>7. Invited'
  BY <1>1, <1>2, <1>5, <1>6 DEF Invited
<1>8. QED
  BY <1>1, <1>2, <1>7 DEF Phase, Reads

LEMMA ServePhase ==
  ASSUME PhaseInv, Serve
  PROVE  /\ Phase'
         /\ Live => /\ toServer[1].op = call.op /\ toClient = <<>> /\ call # Idle /\ call.at \in Reads
                    /\ call.op = "SELECT" => call.sel = NewSelection
                    /\ toServer[1].tag = tag
                    /\ Tail(toServer) = <<>>
<1>1. /\ toServer # <<>> /\ server \in Places /\ back = server /\ toServer' = Tail(toServer)
      /\ UNCHANGED <<tag, call, late>>
  BY ServeCases DEF PhaseInv
<1>2. CASE ~Live
  BY <1>1, <1>2 DEF Phase, Live, Places
<1>3. CASE Live
  <2>1. /\ Asked /\ call # Idle /\ call.at \in Reads /\ Tail(toServer) = <<>> /\ toServer[1].tag = tag
    BY <1>1, <1>3, OneAsked
  <2>2. /\ toServer[1].op = call.op /\ toClient = <<>> /\ (call.op \in Exchanges => call.at \in {"go", "once"})
        /\ call.op = "SELECT" => call.sel = NewSelection
    BY <1>1, <2>1 DEF Asked, Places
  <2>3. call.at \in {"go", "once"} => call.op \in Exchanges
    BY DEF PhaseInv, OwnInv, Structured
  <2>4. CASE \E v, data, to, n : Served(toServer[1].op, v, data, to, n) /\ Answer(toServer[1].tag, v, data, to, n)
    <3>1. PICK v, data, to, n : Served(call.op, v, data, to, n) /\ Answer(tag, v, data, to, n)
      BY <2>1, <2>2, <2>4
    <3>2. call.at \in {"go", "once"} => data = <<>>
      BY <1>1, <2>3, <3>1 DEF Served, Exchanges
    <3>3. Changes(toClient)
      BY <2>2, ChangesFacts
    <3>4. Phase'
      <4>1. CASE to = "closed"
        BY <3>1, <4>1 DEF Answer, Phase, Live
      <4>2. CASE to # "closed"
        BY <1>1, <1>3, <2>1, <2>2, <3>1, <3>2, <3>3, <4>2, AnswerPhase
      <4>3. QED
        BY <4>1, <4>2
    <3>5. QED
      BY <2>1, <2>2, <3>4
  <2>5. CASE Invites(toServer[1].op, toServer[1].tag)
    <3>1. call.at \in {"go", "once"} /\ Invites(call.op, tag)
      BY <2>1, <2>2, <2>5 DEF Invites
    <3>2. Phase'
      BY <1>1, <1>3, <2>2, <3>1, InvitesPhase
    <3>3. QED
      BY <2>1, <2>2, <3>2
  <2>6. QED
    BY <2>4, <2>5, ServeCases DEF PhaseInv
<1>4. QED
  BY <1>2, <1>3

LEMMA ServeExchangePhase ==
  ASSUME PhaseInv, ServeExchange
  PROVE  /\ Phase'
         /\ Live => /\ call # Idle /\ call.at \in Reads /\ Tail(toServer) = <<>> /\ stag = tag
                     /\ \/ server = call.op /\ call.op \in {"APPEND", "AUTHENTICATE"}
                        \/ server = "IDLE" /\ call.op = "DONE"
<1>1. /\ toServer # <<>> /\ server \in Exchanges /\ back \in Places /\ toServer' = Tail(toServer)
      /\ UNCHANGED <<tag, call, late>>
  BY ServeExchangeCases DEF PhaseInv
<1>2. CASE ~Live
  BY <1>1, <1>2 DEF Phase, Live, Exchanges
<1>3. CASE Live
  <2>1. /\ Asked /\ call # Idle /\ call.at \in Reads /\ Tail(toServer) = <<>>
    BY <1>1, <1>3, OneAsked
  <2>2. /\ Changes(toClient) /\ stag = tag
        /\ \/ server = call.op /\ call.op \in {"APPEND", "AUTHENTICATE"} /\ toClient = <<>>
              /\ (call.op = "APPEND" => call.at = "response")
           \/ server = "IDLE" /\ call.op = "DONE"
    BY <1>1, <1>3, <2>1 DEF Asked, Exchanges, PhaseInv, Phase
  <2>3. call.at \in {"go", "once"} => call.op \in Exchanges
    BY DEF PhaseInv, OwnInv, Structured
  <2>4. PICK v, data, to, n : Served(server, v, data, to, n) /\ Answer(tag, v, data, to, n) /\ to # "closed"
    BY <2>2, ServeExchangeCases DEF PhaseInv, Places
  <2>5. call.at \in {"go", "once"} => toClient = <<>> /\ data = <<>>
    BY <2>2, <2>3, <2>4 DEF Served, Exchanges
  <2>6. Phase'
    BY <1>1, <1>3, <2>2, <2>4, <2>5, AnswerPhase
  <2>7. QED
    BY <2>1, <2>2, <2>6
<1>4. QED
  BY <1>2, <1>3

\* A report comes while the client idles: where the client may be.
LEMMA PushedTo ==
  ASSUME PhaseInv, Live, server = "IDLE"
  PROVE  \/ call = Idle /\ idling
         \/ call.op = "DONE" /\ Asked /\ call.at \in Reads
         \/ call.op = "IDLE" /\ Invited /\ call.at \in Reads
<1>1. CASE call = Idle
  BY <1>1 DEF PhaseInv, Phase
<1>2. CASE call # Idle
  <2>1. call.at # "greeting"
    BY DEF PhaseInv, Phase
  <2>2. call.at \in Reads
    BY <1>2, <2>1, CallFacts DEF Reads, PhaseInv, OwnInv, Typed
  <2>3. Asked \/ Answered \/ Invited \/ Stuck
    BY <2>2 DEF PhaseInv, Phase
  <2>4. ~Answered /\ ~Stuck
    BY DEF Answered, Stuck, Exchanges
  <2>5. (Asked => call.op = "DONE") /\ (Invited => call.op = "IDLE")
    BY DEF Asked, Invited, Exchanges
  <2>6. QED
    BY <2>2, <2>3, <2>4, <2>5
<1>3. QED
  BY <1>1, <1>2

LEMMA PushPhase ==
  ASSUME PhaseInv, Push
  PROVE  Phase'
<1>1. PICK r \in Reports("IDLE") : toClient' = toClient \o r[1]
  BY DEF Push, Answers
<1>2. server = "IDLE" /\ UNCHANGED <<tag, call, idling, toServer, server, stag, late>>
  BY DEF Push
<1>3. SUFFICES ASSUME Live PROVE Phase'
  BY <1>2 DEF Phase, Live
<1>4. r[1] \in Seq(Items) /\ Changes(r[1]) /\ toClient \in Seq(Items)
  BY ReportsFacts DEF PhaseInv, OwnInv, Typed, TypeOK
<1>5. Changes(toClient) => Changes(toClient)'
  BY <1>1, <1>4, ChangesFacts
<1>6. (server \in Exchanges => stag = tag) /\ "bye" \notin call.seen
  BY <1>3 DEF PhaseInv, Phase
<1>7. CASE call = Idle /\ idling
  <2>1. toServer = <<>> /\ Changes(toClient) /\ idling = (server = "IDLE")
    BY <1>2, <1>3, <1>7 DEF PhaseInv, Phase
  <2>2. QED
    BY <1>2, <1>5, <1>6, <1>7, <2>1, IdleFacts DEF Phase, Reads
<1>8. CASE call.op = "DONE" /\ Asked /\ call.at \in Reads
  <2>1. Asked'
    BY <1>2, <1>5, <1>8 DEF Asked, Exchanges
  <2>2. QED
    BY <1>2, <1>6, <1>8, <2>1, IdleFacts DEF Phase, Reads
<1>9. CASE call.op = "IDLE" /\ Invited /\ call.at \in Reads
  <2>1. PICK k \in 1..Len(toClient) :
           /\ toClient[k].kind = "cont"
           /\ \A p \in 1..Len(toClient) : p # k => toClient[p].kind \in {"exists", "expunge", "vanished", "notice"}
    BY <1>9 DEF Invited
  <2> DEFINE m == Len(toClient)
             j == Len(r[1])
  <2>2. /\ Len(toClient') = m + j /\ m \in Nat /\ j \in Nat
        /\ \A p \in 1..m : toClient'[p] = toClient[p]
        /\ \A p \in (m + 1)..(m + j) : toClient'[p] = r[1][p - m]
    BY <1>1, <1>4, ConcatFacts
  <2>3. \A p \in 1..j : r[1][p].kind \in {"exists", "expunge", "vanished", "notice"}
    BY <1>4 DEF Changes
  <2>4. k \in 1..m /\ \A p \in 1..m : p # k => toClient[p].kind \in {"exists", "expunge", "vanished", "notice"}
    BY <2>1
  <2> HIDE DEF m, j
  <2>5. k \in 1..Len(toClient') /\ toClient'[k].kind = "cont"
    BY <2>1, <2>2, <2>4
  <2>6. \A p \in 1..Len(toClient') : p # k => toClient'[p].kind \in {"exists", "expunge", "vanished", "notice"}
    <3>1. \A p \in 1..Len(toClient') : p \in 1..m \/ (p - m \in 1..j /\ p \in (m + 1)..(m + j))
      BY <2>2
    <3>2. QED
      BY <2>2, <2>3, <2>4, <3>1
  <2>7. Invited'
    BY <1>2, <1>9, <2>1, <2>5, <2>6 DEF Invited
  <2>8. QED
    BY <1>2, <1>6, <1>9, <2>7, IdleFacts DEF Phase, Reads
<1>10. QED
  BY <1>2, <1>3, <1>7, <1>8, <1>9, PushedTo

LEMMA DropPhase ==
  ASSUME Drop
  PROVE  Phase'
  BY DEF Drop, Phase, Live

LEMMA InitPhase == Init => PhaseInv
<1> SUFFICES ASSUME Init PROVE Phase
  BY InitOwn DEF PhaseInv
<1>1. call = Idle /\ toServer = <<>> /\ toClient = <<>> /\ server = "closed"
  BY DEF Init
<1>2. QED
  BY <1>1 DEF Phase, Live

LEMMA PhaseStep == PhaseInv /\ [Next]_vars => PhaseInv'
<1> SUFFICES ASSUME PhaseInv, [Next]_vars PROVE Phase'
  BY OwnStep DEF PhaseInv
<1>1. CASE ClientStarts
  BY <1>1, StartsIssue, IssuesPhase
<1>2. CASE Connect
  BY <1>2, ConnectPhase
<1>3. CASE IdleDone
  BY <1>3, IdleDonePhase
<1>4. CASE Greeted
  BY <1>4, GreetedPhase
<1>5. CASE ReadItem
  <2>1. Live' = Live
    BY <1>5 DEF ReadItem, Live, serverVars
  <2>2. CASE ~Live
    BY <2>1, <2>2 DEF Phase
  <2>3. CASE Live
    BY <1>5, <2>3, ReadItemPhase
  <2>4. QED
    BY <2>2, <2>3
<1>6. CASE Responded
  BY <1>6, RespondedPhase
<1>7. CASE EndOfStream
  BY <1>7, EndOfStreamPhase
<1>8. CASE GoesOn
  BY <1>8, GoesOnPhase
<1>9. CASE IdleSkips
  BY <1>9 DEF IdleSkips, Phase, Live
<1>10. CASE Timeout
  BY <1>10, TimeoutPhase
<1>11. CASE Serve
  BY <1>11, ServePhase
<1>12. CASE ServeExchange
  BY <1>12, ServeExchangePhase
<1>13. CASE Push
  BY <1>13, PushPhase
<1>14. CASE Drop
  BY <1>14, DropPhase
<1>15. CASE UNCHANGED vars
  BY <1>15 DEF vars, serverVars, countVars, PhaseInv, Phase, Live, Asked, Answered, Invited, Stuck, Changes
<1>16. QED
  BY <1>1, <1>2, <1>3, <1>4, <1>5, <1>6, <1>7, <1>8, <1>9, <1>10, <1>11, <1>12, <1>13, <1>14, <1>15
     DEF Next, ClientStarts, SessionCommand

\* As long as nothing was left unread, the client and the server wait for each
\* other only after append or an authentication took data before the
\* continuation request for its answer.
THEOREM NobodyWaits == Spec => []NoMutualWait
<1>1. PhaseInv => NoMutualWait
  <2> SUFFICES ASSUME PhaseInv, ~late, call # Idle, toServer = <<>>, server \in Exchanges
               PROVE  \/ call.at = "early" /\ call.op # "IDLE"
                      \/ /\ call.at \in {"go", "once"}
                         /\ \E i \in DOMAIN toClient : toClient[i].kind = "cont"
    BY DEF NoMutualWait, Exchanges
  <2>1. TypeOK /\ OwnInv /\ toClient \in Seq(Items) /\ Live
    BY DEF PhaseInv, OwnInv, Typed, Live, Exchanges
  <2>2. call.at \in Reads
    <3>1. call.at # "greeting"
      BY <2>1 DEF PhaseInv, Phase, Exchanges
    <3>2. QED
      BY <2>1, <3>1, CallFacts DEF Reads
  <2>3. ~Asked /\ ~Answered
    BY DEF Asked, Answered, Exchanges
  <2>4. Invited \/ Stuck
    BY <2>1, <2>2, <2>3 DEF PhaseInv, Phase
  <2>5. CASE Stuck
    BY <2>5 DEF Stuck
  <2>6. CASE Invited
    <3>1. DOMAIN toClient = 1..Len(toClient)
      BY <2>1
    <3>2. QED
      BY <2>6, <3>1 DEF Invited
  <2>7. QED
    BY <2>4, <2>5, <2>6
<1>2. QED
  BY <1>1, InitPhase, PhaseStep, PTL DEF Spec

-----------------------------------------------------------------------------
\* Client and server agree: the client.

\* Where the session stands, when client and server are not at odds.
LEMMA AgreeFacts ==
  ASSUME SessionInv, ~late, server # "closed"
  PROVE  /\ PhaseInv /\ OwnInv /\ Agree /\ back \in Places
         /\ call = Idle => state = StateFor(back)
         /\ call # Idle => call.at = "greeting" \/ call.at \in Reads
         /\ call.at = "greeting" => back # "selected" /\ server = back
<1>1. PhaseInv /\ OwnInv /\ Agree /\ TypeOK
  BY DEF SessionInv, PhaseInv, OwnInv, Typed, Agreement, Live
<1>2. server \in Places \/ server \in Exchanges
  BY <1>1 DEF TypeOK, Places, Exchanges
<1>3. back \in Places /\ (server \in Places => back = server)
  BY <1>1, <1>2 DEF OwnInv, Structured
<1>4. call = Idle => state = StateFor(back)
  BY <1>1, IdleFacts DEF Agree, Answering, Reads
<1>5. call # Idle => call.at = "greeting" \/ call.at \in Reads
  BY <1>1, CallFacts DEF Reads
<1>6. call.at = "greeting" => back # "selected" /\ server = back
  BY <1>1, <1>3 DEF PhaseInv, Phase, Live, Places
<1>7. QED
  BY <1>1, <1>3, <1>4, <1>5, <1>6

\* There is a selection to count in.
LEMMA SelectionThere ==
  ASSUME SessionInv, ~late, server # "closed", call # Idle, back = "selected",
         call.op = "SELECT" => Answering
  PROVE  /\ call.sel.set /\ call.sel \in Selections /\ Follows(call.sel.exists)
         /\ call.at # "greeting"
<1>1. OwnInv /\ Agree /\ call.at # "greeting" /\ TypeOK
  BY AgreeFacts DEF OwnInv, Typed
<1>2. state = "SELECTED" \/ call.op = "SELECT"
  <2>1. CASE state = StateFor(back)
    BY <2>1 DEF StateFor
  <2>2. CASE Answering
    BY <1>1, <2>2 DEF Agree, StateFor, StateAfter
  <2>3. QED
    BY <1>1, <2>1, <2>2 DEF Agree
<1>3. call.sel.set
  BY <1>1, <1>2 DEF OwnInv, Structured
<1>4. QED
  BY <1>1, <1>3, CallFacts DEF Agree

\* A call starts.
LEMMA StartsAgree ==
  ASSUME SessionInv, call = Idle, call' # Idle, call'.at # "greeting", toServer' # <<>>,
         call'.op # "SELECT" => call'.sel = sel,
         UNCHANGED <<state, toClient, server, back, held, stale, late>>
  PROVE  Agreement'
<1> SUFFICES ASSUME ~late, server # "closed" PROVE Agree'
  BY DEF Agreement, Live
<1>1. Agree /\ state = StateFor(back)
  BY AgreeFacts
<1>2. ~Answering'
  BY DEF Answering
<1>3. back = "selected" => Follows(sel.exists)
  BY <1>1 DEF Agree
<1>4. back' = "selected" /\ call'.op # "SELECT" => Follows(call.sel.exists)'
  BY <1>3 DEF Follows
<1>5. QED
  BY <1>1, <1>2, <1>4 DEF Agree

LEMMA IssuesAgree ==
  ASSUME SessionInv, NEW op, NEW at, Issues(op, at)
  PROVE  Agreement'
<1>1. /\ call = Idle /\ toServer' = Append(toServer, [op |-> op, tag |-> tag + 1])
      /\ call' = Waiting(op, at, Fresh(op))
      /\ UNCHANGED <<state, toClient, server, back, held, stale, late>>
  BY DEF Issues, Command, serverVars, countVars
<1>2. op \in Ops /\ at \in {"response", "go", "once"}
  BY DEF Issues
<1>3. sel \in Selections /\ toServer \in Seq(Commands)
  BY DEF SessionInv, PhaseInv, OwnInv, Typed, TypeOK
<1>4. Waits(op, at, Fresh(op))
  BY <1>1, <1>2, <1>3, FreshFacts, WaitingFacts
<1>5. toServer' # <<>>
  BY <1>1, <1>3
<1>6. op # "SELECT" => Fresh(op) = sel
  BY DEF Fresh
<1>7. QED
  BY <1>1, <1>2, <1>4, <1>5, <1>6, StartsAgree DEF Waits

LEMMA IdleDoneAgree ==
  ASSUME SessionInv, IdleDone
  PROVE  Agreement'
<1>1. /\ call = Idle /\ toServer' = Append(toServer, [op |-> "DONE", tag |-> tag])
      /\ call' = Waiting("DONE", "response", sel)
      /\ UNCHANGED <<state, toClient, server, back, held, stale, late>>
  BY DEF IdleDone, serverVars
<1>2. sel \in Selections /\ toServer \in Seq(Commands)
  BY DEF SessionInv, PhaseInv, OwnInv, Typed, TypeOK
<1>3. Waits("DONE", "response", sel)
  BY <1>1, <1>2, WaitingFacts DEF Ops
<1>4. toServer' # <<>>
  BY <1>1, <1>2
<1>5. QED
  BY <1>1, <1>3, <1>4, StartsAgree DEF Waits

LEMMA ConnectAgree ==
  ASSUME SessionInv, Connect
  PROVE  Agreement'
<1>1. back' \in {"closed", "nonauth", "auth"} /\ call' = Waiting("CONNECT", "greeting", sel)
  BY DEF Connect
<1>2. sel \in Selections
  BY DEF SessionInv, PhaseInv, OwnInv, Typed, TypeOK
<1>3. Waits("CONNECT", "greeting", sel)
  BY <1>1, <1>2, WaitingFacts DEF Ops
<1>4. QED
  BY <1>1, <1>3 DEF Waits, Agreement, Live, Agree, Answering, Reads

LEMMA GreetedAgree ==
  ASSUME SessionInv, Greeted
  PROVE  Agreement'
<1>1. call.at = "greeting" /\ call' = Idle /\ UNCHANGED <<server, back, late>>
  BY DEF Greeted, Returns, serverVars
<1> SUFFICES ASSUME ~late, server # "closed" PROVE Agree'
  BY <1>1 DEF Agreement, Live
<1>2. /\ back # "selected" /\ server = back /\ back \in Places /\ PhaseInv
  BY <1>1, AgreeFacts
<1>3. /\ Len(toClient) = 1 /\ (server = "nonauth" => toClient[1].verdict = "OK")
      /\ server = "auth" => toClient[1].verdict = "PREAUTH"
  BY <1>1, <1>2 DEF PhaseInv, Phase, Live
<1>4. toClient # <<>> /\ Head(toClient) = toClient[1]
  <2>1. toClient \in Seq(Items)
    BY <1>2 DEF PhaseInv, OwnInv, Typed
  <2>2. toClient # <<>>
    BY <1>3
  <2>3. QED
    BY <2>1, <2>2, TailFacts
<1>5. state' = StateFor(back)
  BY <1>2, <1>3, <1>4 DEF Greeted, StateFor, Places
<1>6. QED
  BY <1>1, <1>2, <1>5, IdleFacts DEF Agree, Answering, Reads

\* The count goes on over the item that is read.
LEMMA CountsOn ==
  ASSUME OwnInv, toClient # <<>>, toClient' = Tail(toClient), held' = held, stale' = stale, NEW x, Follows(x)
  PROVE  FollowsNext(Counted(toClient[1], x))
<1>1. toClient \in Seq(Items)
  BY DEF OwnInv, Typed
<1>2. PICK c \in Counts : Path(toClient, x, c) /\ (stale \/ c = held)
  BY DEF Follows
<1>3. Path(toClient', Counted(toClient[1], x), c)
  BY <1>1, <1>2, PathTail
<1>4. QED
  BY <1>2, <1>3 DEF FollowsNext

\* The count goes on over what is sent: data, and an item that counts nothing.
LEMMA SendsOn ==
  ASSUME toClient \in Seq(Items), NEW data \in Seq(Items), NEW e \in Items, NEW op, NEW x \in Counts,
         e.kind \notin {"exists", "expunge"}, toClient' = toClient \o (data \o <<e>>), Leads(op, data, held'),
         Follows(x) \/ (op = "SELECT" /\ toClient = <<>>)
  PROVE  FollowsNext(x)
<1>1. PICK c \in Counts : Path(toClient, x, c) /\ (stale \/ c = held \/ op = "SELECT")
  <2>1. CASE Follows(x)
    BY <2>1 DEF Follows
  <2>2. CASE op = "SELECT" /\ toClient = <<>>
    BY <2>2, PathEmpty
  <2>3. QED
    BY <2>1, <2>2
<1>2. PICK b \in Counts : Path(data, c, b) /\ (stale' \/ b = held')
  BY <1>1 DEF Leads
<1>3. <<e>> \in Seq(Items) /\ Counted(e, b) = b
  BY OneItem DEF Counted
<1>4. Path(<<e>>, b, b)
  BY <1>3, PathOne
<1>5. Path(data \o <<e>>, c, b) /\ data \o <<e>> \in Seq(Items)
  <2>1. Path(data \o <<e>>, c, b)
    BY <1>2, <1>3, <1>4, PathConcat
  <2>2. QED
    BY <1>3, <2>1, ConcatFacts
<1>6. Path(toClient \o (data \o <<e>>), x, b)
  BY <1>1, <1>5, PathConcat
<1>7. QED
  BY <1>2, <1>6 DEF FollowsNext

LEMMA ReadItemAgree ==
  ASSUME SessionInv, ReadItem
  PROVE  Agreement'
<1>1. /\ call.at \in Reads /\ toClient # <<>> /\ Head(toClient).kind # "tagged"
      /\ toClient' = Tail(toClient)
      /\ UNCHANGED <<state, tag, toServer, server, back, held, stale, late>>
  BY DEF ReadItem, Reading, Reads, serverVars
<1> SUFFICES ASSUME ~late, server # "closed" PROVE Agree'
  BY <1>1 DEF Agreement, Live
<1>2. /\ PhaseInv /\ OwnInv /\ Agree /\ back \in Places /\ Live
  BY AgreeFacts DEF Live
<1>3. call \in Calls /\ call # Idle /\ toClient[1] \in Items /\ Head(toClient) = toClient[1]
  BY <1>1, <1>2, NothingFetched, FirstItem
<1>4. /\ call'.op = call.op /\ call'.sel = data_store(call.sel, toClient[1])
      /\ call'.at \in {"response", "early"} /\ call' # Idle
  <2>1. /\ call'.op = call.op /\ call'.sel = data_store(call.sel, toClient[1])
        /\ call'.at \in {"response", "early"}
    BY <1>1, <1>3 DEF ReadItem, response_store, Calls, Reads
  <2>2. QED
    BY <2>1, IdleFacts
<1>5. Answering' = Answering
  BY <1>1, <1>4 DEF Answering, Reads
<1>6. ASSUME Answering
      PROVE  StateAfter(call.op, parse_response(toClient[Len(toClient)]))' = StateFor(back')
  <2>1. Len(toClient) > 1
    <3>1. ~Asked /\ ~Stuck /\ ~Invited
      BY <1>2, <1>6 DEF Answering, Asked, Stuck, Invited, OwnInv, Structured, Exchanges
    <3>2. QED
      BY <1>2, <3>1, ReadItemPhase
  <2>2. toClient'[Len(toClient')] = toClient[Len(toClient)]
    BY <1>1, <1>2, <2>1, LastKept
  <2>3. "bye" \notin call.seen /\ "bye" \notin call'.seen
    <3>1. "bye" \notin call'.seen /\ call'.seen = call.seen \cup {toClient[1].kind}
      BY <1>2, ReadItemPhase
    <3>2. QED
      BY <3>1
  <2>4. parse_response(toClient[Len(toClient)])' = parse_response(toClient[Len(toClient)])
    BY <1>1, <2>2, <2>3 DEF parse_response
  <2>5. QED
    BY <1>1, <1>2, <1>4, <1>6, <2>4 DEF Agree, StateAfter
<1>7. ASSUME back = "selected", call.op = "SELECT" => Answering
      PROVE  FollowsNext(call'.sel.exists)
  <2>1. call.sel.set /\ call.sel \in Selections /\ Follows(call.sel.exists)
    BY <1>3, <1>7, SelectionThere
  <2>2. FollowsNext(Counted(toClient[1], call.sel.exists))
    BY <1>1, <1>2, <2>1, CountsOn
  <2>3. call'.sel.exists = Counted(toClient[1], call.sel.exists)
    BY <1>3, <1>4, <2>1, <2>2, DataStoreFacts
  <2>4. QED
    BY <2>2, <2>3
<1>8. back' = "selected" /\ (call'.op = "SELECT" => Answering') => Follows(call.sel.exists)'
  BY <1>1, <1>4, <1>5, <1>7 DEF Follows, FollowsNext
<1>9. call.at # "greeting"
  BY <1>1 DEF Reads
<1>10. QED
  BY <1>1, <1>2, <1>4, <1>5, <1>6, <1>8, <1>9 DEF Agree

LEMMA RespondedAgree ==
  ASSUME SessionInv, Responded
  PROVE  Agreement'
<1> DEFINE r == parse_response(Head(toClient))
<1>1. /\ call.at \in Reads /\ toClient # <<>> /\ Head(toClient).kind = "tagged" /\ call' = Idle
      /\ call.op # "LOGOUT" => /\ state' = StateAfter(call.op, r)
                               /\ sel' = SelectionAfter(call.op, r, Stored)
                               /\ toClient' = Tail(toClient)
                               /\ server' \in {server, "closed"}
                               /\ UNCHANGED <<toServer, back, held, stale, late>>
      /\ call.op = "LOGOUT" => server' = "closed"
  BY DEF Responded, Reading, Reads, Returns, Closes
<1> SUFFICES ASSUME ~late, server # "closed", call.op # "LOGOUT", server' = server PROVE Agree'
  BY <1>1 DEF Agreement, Live
<1>2. /\ PhaseInv /\ OwnInv /\ Agree /\ back \in Places /\ Live
  BY AgreeFacts DEF Live
<1>3. Answered /\ Len(toClient) = 1 /\ toClient' = <<>> /\ Head(toClient) = toClient[1]
      /\ toClient[1].kind = "tagged" /\ "bye" \notin call.seen
  BY <1>1, <1>2, RespondedLast, FirstItem
<1>4. Answering
  BY <1>1, <1>3 DEF Answering, Answered
<1>5. r = parse_response(toClient[Len(toClient)])
  BY <1>3
<1> HIDE DEF r
<1>6. state' = StateFor(back)
  BY <1>1, <1>2, <1>4, <1>5 DEF Agree
<1>7. ASSUME back = "selected"
      PROVE  FollowsNext(sel'.exists)
  <2>1. call # Idle
    BY <1>1, IdleFacts DEF Reads
  <2>2. Follows(call.sel.exists)
    BY <1>4, <1>7, <2>1, SelectionThere
  <2>3. FollowsNext(Counted(toClient[1], call.sel.exists))
    BY <1>1, <1>2, <2>2, CountsOn
  <2>4. Counted(toClient[1], call.sel.exists) = call.sel.exists
    BY <1>3 DEF Counted
  <2>5. sel' = call.sel
    BY <1>1, <1>3, <1>6, <1>7 DEF SelectionAfter, StateAfter, StateFor, Stored
  <2>6. QED
    BY <2>3, <2>4, <2>5
<1>8. back' = "selected" => Follows(sel.exists)'
  BY <1>1, <1>7 DEF Follows, FollowsNext
<1>9. QED
  BY <1>1, <1>6, <1>8, IdleFacts DEF Agree, Answering, Reads

LEMMA GoesOnAgree ==
  ASSUME SessionInv, GoesOn
  PROVE  Agreement'
<1>1. /\ call.at \in {"go", "once"} /\ toClient # <<>> /\ Head(toClient).kind = "cont"
      /\ toClient' = Tail(toClient)
      /\ UNCHANGED <<state, tag, sel, server, back, held, stale>> /\ (late => late')
  BY DEF GoesOn, serverVars
<1> SUFFICES ASSUME ~late, ~late', server # "closed" PROVE Agree'
  BY <1>1 DEF Agreement, Live
<1>2. /\ PhaseInv /\ OwnInv /\ Agree /\ back \in Places /\ Live
  BY AgreeFacts DEF Live
<1>3. toServer = <<>> /\ server = call.op
  BY <1>2, InviteTaken
<1>4. call \in Calls /\ call # Idle /\ Head(toClient) = toClient[1]
  BY <1>1, <1>2, NothingFetched, FirstItem DEF Reads
<1>5. call.sel = sel /\ call.op \in Exchanges /\ call.op # "SELECT" /\ call.at # "greeting"
  BY <1>1, <1>2 DEF OwnInv, Structured, Exchanges
<1>6. ~Answering /\ state = StateFor(back)
  BY <1>2, <1>3, <1>5 DEF Answering, Agree
<1>7. back = "selected" => FollowsNext(sel.exists)
  <2>1. ASSUME back = "selected"
        PROVE  FollowsNext(sel.exists)
    <3>1. Follows(sel.exists)
      BY <1>4, <1>5, <2>1, SelectionThere
    <3>2. FollowsNext(Counted(toClient[1], sel.exists))
      BY <1>1, <1>2, <3>1, CountsOn
    <3>3. Counted(toClient[1], sel.exists) = sel.exists
      BY <1>1, <1>4 DEF Counted
    <3>4. QED
      BY <3>2, <3>3
  <2>2. QED
    BY <2>1
<1>8. CASE call.op = "IDLE" /\ Returns("OK")
  <2>1. call' = Idle
    BY <1>8 DEF Returns
  <2>2. back' = "selected" => Follows(sel.exists)'
    BY <1>1, <1>7 DEF Follows, FollowsNext
  <2>3. QED
    BY <1>1, <1>6, <2>1, <2>2, IdleFacts DEF Agree, Answering, Reads
<1>9. CASE /\ toServer' = Append(toServer, [op |-> "LITERAL", tag |-> tag])
           /\ call' = IF call.op = "AUTHENTICATE" /\ call.at = "go" THEN call
                      ELSE [call EXCEPT !.at = "response"]
  <2>1. call'.sel = sel /\ call'.op = call.op /\ call' # Idle
    BY <1>1, <1>4, <1>5, <1>9, IdleFacts DEF Calls
  <2>2. toServer' # <<>>
    BY <1>3, <1>9, OneCommand
  <2>3. ~Answering'
    BY <2>2 DEF Answering
  <2>4. back' = "selected" => Follows(call.sel.exists)'
    BY <1>1, <1>7, <2>1 DEF Follows, FollowsNext
  <2>5. QED
    BY <1>1, <1>6, <2>1, <2>3, <2>4 DEF Agree
<1>10. QED
  BY <1>8, <1>9 DEF GoesOn

-----------------------------------------------------------------------------
\* Client and server agree: the server.

\* The state that the response will make is the server's.
LEMMA AnswerState ==
  ASSUME NEW op, NEW v \in {"OK", "NO", "BAD"}, back \in Places, state = StateFor(back),
         NEW r, r = IF v = "BAD" THEN "error" ELSE v
  PROVE  StateAfter(op, r) = StateFor(PlaceAfter(op, v))
<1>1. CASE v = "BAD"
  <2>1. r = "error"
    BY <1>1
  <2>2. StateAfter(op, r) = state /\ PlaceAfter(op, v) = back
    BY <1>1, <2>1 DEF StateAfter, PlaceAfter
  <2>3. QED
    BY <2>2
<1>2. CASE v # "BAD"
  <2>1. r = v
    BY <1>2
  <2>2. CASE \/ op \in {"LOGIN", "AUTHENTICATE", "CLOSE"} /\ v = "OK"
             \/ op = "SELECT" /\ v = "NO"
    BY <2>1, <2>2 DEF StateAfter, PlaceAfter, StateFor
  <2>3. CASE op = "SELECT" /\ v = "OK"
    BY <2>1, <2>3 DEF StateAfter, PlaceAfter, StateFor
  <2>4. CASE ~ \/ op \in {"LOGIN", "AUTHENTICATE", "CLOSE"} /\ v = "OK"
               \/ op = "SELECT" /\ v \in {"OK", "NO"}
    <3>1. StateAfter(op, r) = state /\ PlaceAfter(op, v) = back
      BY <2>1, <2>4 DEF StateAfter, PlaceAfter
    <3>2. QED
      BY <3>1
  <2>5. QED
    BY <1>2, <2>2, <2>3, <2>4
<1>3. QED
  BY <1>1, <1>2

\* The response to the command op completes the call.
LEMMA AnswerAgree ==
  ASSUME SessionInv, ~late, server # "closed", NEW op, NEW v, NEW data, NEW to, NEW n,
         Served(op, v, data, to, n), Answer(tag, v, data, to, n), to # "closed",
         Answered', toClient'[Len(toClient')].verdict = v, toServer' = <<>>,
         ~Answering, call # Idle, "bye" \notin call.seen, call.at \in Reads, UNCHANGED <<state, tag, call>>,
         op = call.op \/ (op = "IDLE" /\ call.op = "DONE"),
         call.op = "SELECT" => toClient = <<>> /\ call.sel = NewSelection
  PROVE  Agree'
<1>1. /\ PhaseInv /\ OwnInv /\ Agree /\ back \in Places /\ call.at # "greeting"
  BY AgreeFacts DEF Reads
<1>2. state = StateFor(back) /\ tag \in Nat /\ toClient \in Seq(Items)
  BY <1>1 DEF Agree, OwnInv, Typed
<1>3. /\ toClient' = toClient \o (data \o << Tagged(tag, v) >>)
      /\ server' = to /\ back' = to /\ held' = n
  BY DEF Answer
<1>4. /\ v \in {"OK", "NO", "BAD"} /\ to = PlaceAfter(op, v) /\ data \in Seq(Items) /\ n \in 0..MaxHeld
      /\ to = "selected" => Leads(op, data, n)
  BY DEF Served
<1>5. Answering'
  BY <1>3 DEF Answered, Answering
<1>6. StateAfter(call.op, parse_response(toClient[Len(toClient)]))' = StateFor(to)
  <2>1. PICK r : r = IF v = "BAD" THEN "error" ELSE v
    OBVIOUS
  <2>2. parse_response(toClient[Len(toClient)])' = r
    BY <2>1 DEF Answered, parse_response
  <2>3. StateAfter(op, r) = StateFor(to)
    BY <1>1, <1>2, <1>4, <2>1, AnswerState
  <2>4. StateAfter(call.op, r) = StateAfter(op, r)
    BY DEF StateAfter
  <2>5. QED
    BY <2>2, <2>3, <2>4 DEF StateAfter
<1>7. ASSUME to = "selected"
      PROVE  FollowsNext(call.sel.exists)
  <2> DEFINE e == Tagged(tag, v)
             x == call.sel.exists
  <2>1. e \in Items /\ e.kind = "tagged"
    BY <1>2, <1>4, ItemFacts
  <2>2. x \in Counts
    <3>1. call.sel \in Selections
      BY <1>1, CallFacts DEF OwnInv, Typed
    <3>2. QED
      BY <3>1 DEF Selections, Counts
  <2>3. Follows(x) \/ (op = "SELECT" /\ toClient = <<>>)
    <3>1. CASE op = "SELECT"
      BY <3>1
    <3>2. CASE op # "SELECT"
      <4>1. back = "selected" /\ call.op # "SELECT"
        BY <1>2, <1>4, <1>7, <3>2 DEF PlaceAfter
      <4>2. QED
        BY <1>1, <4>1 DEF Agree
    <3>3. QED
      BY <3>1, <3>2
  <2>4. toClient' = toClient \o (data \o <<e>>) /\ Leads(op, data, held')
    BY <1>3, <1>4, <1>7
  <2> HIDE DEF e, x
  <2>5. FollowsNext(x)
    BY <1>2, <1>4, <2>1, <2>2, <2>3, <2>4, SendsOn
  <2>6. QED
    BY <2>5 DEF x
<1>8. back' = "selected" => Follows(call.sel.exists)'
  BY <1>3, <1>7 DEF Follows, FollowsNext
<1>9. QED
  BY <1>3, <1>5, <1>6, <1>8 DEF Agree

LEMMA ServeAgree ==
  ASSUME SessionInv, Serve
  PROVE  Agreement'
<1>1. /\ toServer # <<>> /\ server \in Places /\ back = server /\ toServer' = Tail(toServer)
      /\ UNCHANGED <<state, tag, call, late>>
  BY ServeCases DEF SessionInv, PhaseInv
<1> SUFFICES ASSUME ~late, server' # "closed" PROVE Agree'
  BY <1>1 DEF Agreement, Live
<1>2. server # "closed"
  BY <1>1 DEF Places
<1>3. /\ PhaseInv /\ OwnInv /\ Agree /\ toClient \in Seq(Items) /\ Live
  BY <1>2, AgreeFacts DEF OwnInv, Typed, Live
<1>4. /\ toServer[1].op = call.op /\ toClient = <<>> /\ call # Idle /\ call.at \in Reads
      /\ call.op = "SELECT" => call.sel = NewSelection
      /\ toServer[1].tag = tag /\ toServer' = <<>> /\ "bye" \notin call.seen
  <2>1. "bye" \notin call.seen
    BY <1>1, <1>3, OneAsked
  <2>2. /\ toServer[1].op = call.op /\ toClient = <<>> /\ call # Idle /\ call.at \in Reads
        /\ call.op = "SELECT" => call.sel = NewSelection
        /\ toServer[1].tag = tag /\ Tail(toServer) = <<>>
    BY <1>3, ServePhase, Zenon
  <2>3. toServer' = <<>>
    BY <1>1, <2>2, Zenon
  <2>4. QED
    BY <2>1, <2>2, <2>3, Zenon
<1>5. ~Answering /\ state = StateFor(back)
  BY <1>1, <1>3, <1>4 DEF Answering, Agree, Reads
<1>6. CASE \E v, data, to, n : Served(toServer[1].op, v, data, to, n) /\ Answer(toServer[1].tag, v, data, to, n)
  <2>1. PICK v, data, to, n : Served(call.op, v, data, to, n) /\ Answer(tag, v, data, to, n)
    BY <1>4, <1>6
  <2>2. to # "closed"
    BY <2>1 DEF Answer
  <2>3. call.at \in {"go", "once"} => data = <<>>
    BY <1>1, <1>3, <2>1 DEF OwnInv, Structured, Served, Exchanges
  <2>4. Changes(toClient)
    BY <1>4, ChangesFacts
  <2>5. Answered' /\ toClient'[Len(toClient')].verdict = v
    BY <1>1, <1>3, <1>4, <2>1, <2>2, <2>3, <2>4, AnswerPhase
  <2>6. QED
    BY <1>1, <1>2, <1>4, <1>5, <2>1, <2>2, <2>5, AnswerAgree
<1>7. CASE Invites(toServer[1].op, toServer[1].tag)
  <2>1. PICK data \in Seq(Items), n \in 0..MaxHeld :
          /\ call.op \in Exchanges /\ Leads(call.op, data, n)
          /\ toClient' = toClient \o (data \o <<Continue>>) /\ held' = n
          /\ server' = call.op /\ back' = back
    BY <1>4, <1>7 DEF Invites
  <2>2. ~Answering' /\ call.op # "SELECT"
    BY <2>1 DEF Answering, Exchanges
  <2>3. ASSUME back = "selected"
        PROVE  FollowsNext(call.sel.exists)
    <3> DEFINE x == call.sel.exists
    <3>1. Continue \in Items /\ Continue.kind = "cont"
      BY ItemFacts
    <3>2. x \in Counts
      <4>1. call.sel \in Selections
        BY <1>3, CallFacts DEF OwnInv, Typed
      <4>2. QED
        BY <4>1 DEF Selections, Counts
    <3>3. Follows(x)
      BY <1>3, <1>4, <2>2, <2>3 DEF Agree
    <3>4. toClient' = toClient \o (data \o <<Continue>>) /\ Leads(call.op, data, held')
      BY <2>1
    <3> HIDE DEF x
    <3>5. FollowsNext(x)
      BY <1>3, <2>1, <3>1, <3>2, <3>3, <3>4, SendsOn
    <3>6. QED
      BY <3>5 DEF x
  <2>4. back' = "selected" => Follows(call.sel.exists)'
    BY <1>1, <2>1, <2>3 DEF Follows, FollowsNext
  <2>5. QED
    BY <1>1, <1>4, <1>5, <2>1, <2>2, <2>4 DEF Agree
<1>8. QED
  BY <1>3, <1>6, <1>7, ServeCases

LEMMA ServeExchangeAgree ==
  ASSUME SessionInv, ServeExchange
  PROVE  Agreement'
<1>1. /\ toServer # <<>> /\ server \in Exchanges /\ back \in Places /\ toServer' = Tail(toServer)
      /\ UNCHANGED <<state, tag, call, late>>
  BY ServeExchangeCases DEF SessionInv, PhaseInv
<1> SUFFICES ASSUME ~late, server' # "closed" PROVE Agree'
  BY <1>1 DEF Agreement, Live
<1>2. server # "closed" /\ ~Answering
  BY <1>1 DEF Exchanges, Answering
<1>3. /\ PhaseInv /\ OwnInv /\ Live
  BY <1>2, AgreeFacts DEF Live
<1>4. /\ call # Idle /\ call.at \in Reads /\ toServer' = <<>> /\ stag = tag
      /\ \/ server = call.op /\ call.op \in {"APPEND", "AUTHENTICATE"}
         \/ server = "IDLE" /\ call.op = "DONE"
  BY <1>1, <1>3, ServeExchangePhase
<1>5. PICK v, data, to, n : Served(server, v, data, to, n) /\ Answer(tag, v, data, to, n)
  BY <1>3, <1>4, ServeExchangeCases
<1>6. to # "closed"
  BY <1>5 DEF Answer
<1>7. Asked /\ "bye" \notin call.seen
  BY <1>1, <1>3, OneAsked
<1>8. /\ Changes(toClient) /\ (call.at \in {"go", "once"} => toClient = <<>> /\ data = <<>>)
  <2>1. call.at \in {"go", "once"} => call.op = "AUTHENTICATE"
    BY <1>1, <1>3, <1>4, <1>7 DEF Asked, OwnInv, Structured, Exchanges
  <2>2. QED
    BY <1>1, <1>4, <1>5, <1>7, <2>1 DEF Asked, Served
<1>9. Answered' /\ toClient'[Len(toClient')].verdict = v
  BY <1>1, <1>3, <1>5, <1>6, <1>8, AnswerPhase
<1>10. call.op # "SELECT" /\ (server = call.op \/ (server = "IDLE" /\ call.op = "DONE"))
  BY <1>4
<1>11. QED
  BY <1>1, <1>2, <1>4, <1>5, <1>6, <1>7, <1>9, <1>10, AnswerAgree

LEMMA PushAgree ==
  ASSUME SessionInv, Push
  PROVE  Agreement'
<1>1. PICK r \in Reports("IDLE") : toClient' = toClient \o r[1] /\ held' = r[2] /\ stale' = StaleAfter(r[1])
  BY DEF Push, Answers
<1>2. server = "IDLE" /\ UNCHANGED <<state, tag, sel, call, toServer, server, back, late>>
  BY DEF Push
<1> SUFFICES ASSUME ~late PROVE Agree'
  BY <1>2 DEF Agreement, Live
<1>3. OwnInv /\ Agree
  BY <1>2, AgreeFacts
<1>4. /\ r[1] \in Seq(Items) /\ Leads("IDLE", r[1], held') /\ toClient \in Seq(Items)
  BY <1>1, <1>3, ReportsFacts DEF OwnInv, Typed, TypeOK
<1>5. ASSUME NEW x, Follows(x)
      PROVE  FollowsNext(x)
  <2>1. PICK c \in Counts : Path(toClient, x, c) /\ (stale \/ c = held)
    BY <1>5 DEF Follows
  <2>2. PICK b \in Counts : Path(r[1], c, b) /\ (stale' \/ b = held')
    BY <1>4, <2>1 DEF Leads
  <2>3. Path(toClient', x, b)
    BY <1>1, <1>4, <2>1, <2>2, PathConcat
  <2>4. QED
    BY <2>2, <2>3 DEF FollowsNext
<1>6. ~Answering /\ ~Answering'
  BY <1>2 DEF Answering, Exchanges
<1>7. back' = "selected" => /\ call' = Idle => FollowsNext(sel.exists)
                            /\ call' # Idle /\ call'.op # "SELECT" => FollowsNext(call.sel.exists)
  BY <1>2, <1>3, <1>5 DEF Agree
<1>8. back' = "selected" => /\ call' = Idle => Follows(sel.exists)'
                            /\ call' # Idle /\ call'.op # "SELECT" => Follows(call.sel.exists)'
  BY <1>2, <1>7 DEF Follows, FollowsNext
<1>9. QED
  BY <1>2, <1>3, <1>6, <1>8 DEF Agree

LEMMA InitAgree == Init => Agreement
  BY DEF Init, Agreement, Live

LEMMA AgreeStep == SessionInv /\ [Next]_vars => SessionInv'
<1> SUFFICES ASSUME SessionInv, [Next]_vars PROVE Agreement'
  BY PhaseStep DEF SessionInv
<1>1. CASE ClientStarts
  BY <1>1, StartsIssue, IssuesAgree
<1>2. CASE Connect
  BY <1>2, ConnectAgree
<1>3. CASE IdleDone
  BY <1>3, IdleDoneAgree
<1>4. CASE Greeted
  BY <1>4, GreetedAgree
<1>5. CASE ReadItem
  BY <1>5, ReadItemAgree
<1>6. CASE Responded
  BY <1>6, RespondedAgree
<1>7. CASE EndOfStream
  BY <1>7 DEF EndOfStream, Eof, Closes, serverVars, Agreement, Live
<1>8. CASE GoesOn
  BY <1>8, GoesOnAgree
<1>9. CASE IdleSkips
  BY <1>9 DEF IdleSkips, Agreement, Live
<1>10. CASE Timeout
  BY <1>10 DEF Timeout, Closes, Agreement, Live
<1>11. CASE Serve
  BY <1>11, ServeAgree
<1>12. CASE ServeExchange
  BY <1>12, ServeExchangeAgree
<1>13. CASE Push
  BY <1>13, PushAgree
<1>14. CASE Drop
  BY <1>14 DEF Drop, Agreement, Live
<1>15. CASE UNCHANGED vars
  BY <1>15 DEF vars, serverVars, countVars, SessionInv, Agreement, Live, Agree, Answering, Follows, StateAfter,
               parse_response
<1>16. QED
  BY <1>1, <1>2, <1>3, <1>4, <1>5, <1>6, <1>7, <1>8, <1>9, <1>10, <1>11, <1>12, <1>13, <1>14, <1>15
     DEF Next, ClientStarts, SessionCommand

\* As long as every response was read, client and server agree between two
\* calls on the state of the session, and on the number of messages unless the
\* server sent VANISHED or answered a SELECT by BAD since it last told it.
THEOREM SessionsAgree == Spec => []SessionAgrees
<1>1. SessionInv => SessionAgrees
  <2> SUFFICES ASSUME SessionInv, ~late, call = Idle, stream, server # "closed"
               PROVE  /\ (state = "NON_AUTHENTICATED") = (back = "nonauth")
                      /\ (state = "AUTHENTICATED") = (back = "auth")
                      /\ (state = "SELECTED") = (back = "selected")
                      /\ idling = (server = "IDLE")
                      /\ (state = "SELECTED" /\ ~idling /\ ~stale) => sel.exists = held
    BY DEF SessionAgrees
  <2>1. PhaseInv /\ Agree /\ back \in Places /\ state = StateFor(back)
    BY AgreeFacts
  <2>2. /\ (state = "NON_AUTHENTICATED") = (back = "nonauth")
        /\ (state = "AUTHENTICATED") = (back = "auth")
        /\ (state = "SELECTED") = (back = "selected")
    BY <2>1 DEF StateFor, Places
  <2>3. idling = (server = "IDLE") /\ (~idling => toClient = <<>>)
    BY <2>1 DEF PhaseInv, Phase, Live
  <2>4. ASSUME state = "SELECTED", ~idling, ~stale
        PROVE  sel.exists = held
    <3>1. toClient = <<>> /\ toClient \in Seq(Items) /\ Path(toClient, sel.exists, held)
      BY <2>1, <2>2, <2>3, <2>4 DEF Agree, Follows, PhaseInv, OwnInv, Typed
    <3>2. QED
      BY <3>1, PathFacts
  <2>5. QED
    BY <2>2, <2>3, <2>4
<1>2. Init => SessionInv
  BY InitPhase, InitAgree DEF SessionInv
<1>3. QED
  BY <1>1, <1>2, AgreeStep, PTL DEF Spec
=============================================================================
