-------------------------------- MODULE Pop3 --------------------------------
(***************************************************************************)
(* A POP3 session (low-level/pop3/mailpop3.c): the client's state, its     *)
(* table of the maildrop with the deletion marks, and the lines of text    *)
(* between it and the server.  POP3 answers carry no tag, so the client    *)
(* and the server agree only as long as every call reads its own answer to *)
(* the last line.  A read that times out returns and leaves the stream as  *)
(* it is: what the server still sends is there for the next call.          *)
(***************************************************************************)
EXTENDS Naturals, Sequences, FiniteSets

CONSTANTS N,            \* the most messages in a maildrop
          MaxCommands,  \* no call starts after so many commands of a connection
          MaxTimeouts,  \* how many reads time out
          MaxConnects   \* how often the client connects

ASSUME Pop3Assumption ==
  N \in Nat /\ MaxCommands \in Nat /\ MaxTimeouts \in Nat /\ MaxConnects \in Nat

VARIABLES
  state,          \* f->pop3_state
  stream,         \* f->pop3_stream != NULL
  listed,         \* f->pop3_msg_tab != NULL ...
  tab,            \* ... and its entries, which may be NULL pointers
  deleted_count,  \* f->pop3_deleted_count
  call,           \* the client's call in progress and where it reads
  toServer,       \* the command lines under way
  toClient,       \* the answer lines under way
  server,         \* the server: where it is in the protocol,
  box,            \* its maildrop, by uid,
  marks,          \* and what it will delete at QUIT
  sent,           \* the commands of this connection, the greeting included
  timeouts, connects,
  late            \* history: this connection has an answer nobody waited for

tabVars == <<listed, tab, deleted_count>>
serverVars == <<server, box, marks>>
countVars == <<timeouts, connects>>
vars == <<state, stream, tabVars, call, toServer, toClient, serverVars, sent, countVars, late>>

Msgs == 1..N
Hole == [here |-> FALSE, deleted |-> FALSE, uid |-> 0]
NewEntry == [here |-> TRUE, deleted |-> FALSE, uid |-> 0]
None == [op |-> "none", msg |-> 0]

\* A call: the command it sent last, what it reads now, the table that
\* read_list fills, and the command for which find_msg lists first.
Waiting(op, m, at, t, then) ==
  [op |-> op, msg |-> m, at |-> at, tab |-> t, then |-> then]
Idle == Waiting("none", 0, "none", <<>>, None)

\* Lines: a status, an entry of a listing (its number and, in a UIDL listing,
\* the uid), a capability, a line of a message, the final period.
Line(of, kind, i, v) == [of |-> of, kind |-> kind, i |-> i, v |-> v]

Init ==
  /\ state = "DISCONNECTED" /\ stream = FALSE
  /\ listed = FALSE /\ tab = <<>> /\ deleted_count = 0
  /\ call = Idle /\ toServer = <<>> /\ toClient = <<>>
  /\ server = "closed" /\ box = <<>> /\ marks = {}
  /\ sent = 0 /\ timeouts = 0 /\ connects = 0 /\ late = FALSE

-----------------------------------------------------------------------------
\* Calls.  A call in the wrong state returns without any effect.

\* send_command: the command goes out and its status line is awaited.  A write
\* that fails ends the call the way the end of the stream does.
Sends(op, m, then) ==
  /\ toServer' = Append(toServer, [op |-> op, msg |-> m])
  /\ sent' = sent + 1
  /\ call' = Waiting(op, m, "status", <<>>, then)

Command(op, m) ==
  /\ call = Idle /\ (sent < MaxCommands \/ op = "QUIT")
  /\ Sends(op, m, None)
  /\ UNCHANGED <<state, stream, tabVars, toClient, serverVars, countVars, late>>

\* mailpop3_connect: a new stream, on which the server greets or refuses.  The
\* maildrop is whatever other sessions left.
Connect ==
  /\ call = Idle /\ state = "DISCONNECTED" /\ connects < MaxConnects
  /\ \E n \in 0..N, kind \in {"ok", "err"} :
       /\ box' \in {b \in [1..n -> Msgs] : \A i, j \in 1..n : i < j => b[i] < b[j]}
       /\ toClient' = << Line(1, kind, 0, 0) >>
       /\ server' = IF kind = "ok" THEN "auth" ELSE "closed"
  /\ toServer' = <<>> /\ marks' = {}
  /\ stream' = TRUE /\ call' = Waiting("CONNECT", 0, "status", <<>>, None)
  /\ sent' = 1 /\ connects' = connects + 1 /\ late' = FALSE
  /\ UNCHANGED <<state, tabVars, timeouts>>

\* mailpop3_user, mailpop3_pass, mailpop3_apop (the server gave a timestamp).
User == state = "AUTHORIZATION" /\ Command("USER", 0)
Pass == state = "AUTHORIZATION" /\ \E op \in {"PASS", "APOP"} : Command(op, 0)

\* mailpop3_auth, mailpop3_capa, mailpop3_stls, mailpop3_stat do not test the
\* state; they need a stream.
Auth == stream /\ Command("AUTH", 0)
Capa == stream /\ Command("CAPA", 0)
Stls == stream /\ Command("STLS", 0)
Stat == stream /\ Command("STAT", 0)

Noop == state = "TRANSACTION" /\ Command("NOOP", 0)
Rset == state = "TRANSACTION" /\ Command("RSET", 0)

\* mailpop3_list, mailpop3_get_msg_info: the table is asked for once.
List_Always ==
  /\ state = "TRANSACTION"
  /\ Command("LIST", 0)

List ==
  /\ state = "TRANSACTION" /\ ~listed
  /\ Command("LIST", 0)

\* mailpop3_msg_info_tab_find_msg
Found(has, t, m) == has /\ m \in 1..Len(t) /\ t[m].here

\* mailpop3_retr, mailpop3_top, mailpop3_dele: find_msg lists first if there is
\* no table; a message that is not in the table ends the call at once.
OnMessage(op, m) ==
  /\ state = "TRANSACTION"
  /\ \/ /\ listed /\ Found(listed, tab, m)
        /\ Command(op, m)
     \/ /\ ~listed /\ call = Idle /\ sent < MaxCommands
        /\ Sends("LIST", 0, [op |-> op, msg |-> m])
        /\ UNCHANGED <<state, stream, tabVars, toClient, serverVars, countVars, late>>

Retr(m) == \E op \in {"RETR", "TOP"} : OnMessage(op, m)
Dele(m) == OnMessage("DELE", m)

\* mailpop3_quit, at "close": the stream, the table and the state go.
Close ==
  /\ stream' = FALSE /\ state' = "DISCONNECTED"
  /\ listed' = FALSE /\ tab' = <<>>
  /\ call' = Idle /\ server' = "closed"
  /\ toServer' = <<>> /\ toClient' = <<>>
  /\ UNCHANGED <<deleted_count, box, marks, sent, countVars, late>>

Quit ==
  /\ stream /\ call = Idle
  /\ IF state = "DISCONNECTED" THEN Close ELSE Command("QUIT", 0)

-----------------------------------------------------------------------------
\* Answers.

Eof == server = "closed" /\ toServer = <<>> /\ toClient = <<>>

\* read_line: the next line, or at the end of the stream an empty one.
NextLine == IF toClient = <<>> THEN Line(sent, "empty", 0, 0) ELSE Head(toClient)

Reads(at) ==
  /\ call.at = at /\ (toClient # <<>> \/ Eof)
  /\ toClient' = IF toClient = <<>> THEN <<>> ELSE Tail(toClient)

\* parse_response: what a line says when it is read as a status line.  The
\* text of a message can say anything.
parse_response(line) ==
  CASE line.kind = "ok"   -> {"ok"}
    [] line.kind = "text" -> {"ok", "err"}
    [] OTHER              -> {"err"}

\* parse_auth knows the continuation request as well.
parse_auth(line) == IF line.kind = "cont" THEN {"cont"} ELSE parse_response(line)

Return == call' = Idle /\ UNCHANGED <<toServer, sent>>

\* The end of do_list: find_msg, whatever do_list returned, looks the message
\* up and its caller sends the command.
ListDone(has, t) ==
  IF call.then # None /\ Found(has, t, call.then.msg)
  THEN Sends(call.then.op, call.then.msg, None)
  ELSE Return

\* The status line of a command with a one-line answer.
ShortReply(op, r) ==
  /\ state' = CASE op = "CONNECT" /\ r = "ok"        -> "AUTHORIZATION"
                [] op \in {"PASS", "APOP"} /\ r = "ok" -> "TRANSACTION"
                [] OTHER                               -> state
  /\ Return
  /\ UNCHANGED <<tabVars, server>>

\* mailpop3_dele counts and marks what the server agreed to delete.
DeleReply_Always(r) ==
  /\ tab' = [tab EXCEPT ![call.msg].deleted = TRUE]
  /\ deleted_count' = deleted_count + 1
  /\ Return
  /\ UNCHANGED <<state, listed, server>>

DeleReply(r) ==
  /\ IF r = "ok" THEN /\ tab' = [tab EXCEPT ![call.msg].deleted = TRUE]
                      /\ deleted_count' = deleted_count + 1
                 ELSE UNCHANGED <<tab, deleted_count>>
  /\ Return
  /\ UNCHANGED <<state, listed, server>>

\* mailpop3_rset: the marks go, whatever the answer.
RsetReply(r) ==
  /\ tab' = [i \in DOMAIN tab |-> [tab[i] EXCEPT !.deleted = FALSE]]
  /\ deleted_count' = IF listed THEN 0 ELSE deleted_count
  /\ Return
  /\ UNCHANGED <<state, listed, server>>

\* mailpop3_stls: nothing may follow the answer.  The TLS handshake may fail,
\* which leaves a stream that is good for nothing.
StlsReply(r) ==
  /\ server' \in IF r = "ok" THEN IF toClient' = <<>> THEN {server, "closed"} ELSE {"closed"}
                             ELSE {server}
  /\ Return
  /\ UNCHANGED <<state, tabVars>>

\* mailpop3_retr, mailpop3_top (mailpop3_get_content) and mailpop3_capa: the
\* lines follow an accepting status only.
LongReply_StatusOnly(r) ==
  /\ Return
  /\ UNCHANGED <<state, tabVars, server>>

LongReply(r) ==
  /\ IF r = "ok" THEN call' = [call EXCEPT !.at = "lines"] /\ UNCHANGED <<toServer, sent>>
                 ELSE Return
  /\ UNCHANGED <<state, tabVars, server>>

\* mailpop3_do_list, mailpop3_do_uidl
ListReply(op, r) ==
  /\ IF r = "ok"
     THEN /\ call' = [call EXCEPT !.at = IF op = "LIST" THEN "list" ELSE "uidl"]
          /\ UNCHANGED <<toServer, sent>>
     ELSE ListDone(listed, tab)
  /\ UNCHANGED <<state, tabVars, server>>

StatusLine ==
  /\ call.op \notin {"QUIT", "AUTH"}
  /\ Reads("status")
  /\ \E r \in parse_response(NextLine) :
       CASE call.op = "DELE"                     -> DeleReply(r)
         [] call.op = "RSET"                     -> RsetReply(r)
         [] call.op = "STLS"                     -> StlsReply(r)
         [] call.op \in {"RETR", "TOP", "CAPA"}  -> LongReply(r)
         [] call.op \in {"LIST", "UIDL"}         -> ListReply(call.op, r)
         [] OTHER                                -> ShortReply(call.op, r)
  /\ UNCHANGED <<stream, box, marks, countVars, late>>

\* mailpop3_quit: whatever the answer, the connection is closed.
QuitReply == call.op = "QUIT" /\ (toClient # <<>> \/ Eof) /\ Close

\* mailpop3_auth: at a continuation request the client answers, or gives the
\* exchange up without telling the server.
AuthLine ==
  /\ call.op = "AUTH"
  /\ Reads("status")
  /\ \/ "ok" \in parse_auth(NextLine) /\ state' = "TRANSACTION" /\ Return /\ UNCHANGED late
     \/ "err" \in parse_auth(NextLine) /\ Return /\ UNCHANGED <<state, late>>
     \/ /\ "cont" \in parse_auth(NextLine)
        /\ toServer' = Append(toServer, [op |-> "RESPONSE", msg |-> 0])
        /\ sent' = sent + 1
        /\ UNCHANGED <<state, call, late>>
     \/ "cont" \in parse_auth(NextLine) /\ Return /\ late' = TRUE /\ UNCHANGED state
  /\ UNCHANGED <<stream, tabVars, serverVars, countVars>>

\* read_multiline, read_capa_resp: up to the period.
ContentLine ==
  /\ Reads("lines")
  /\ IF NextLine.kind = "end" THEN Return ELSE UNCHANGED <<call, toServer, sent>>
  /\ UNCHANGED <<state, stream, tabVars, serverVars, countVars, late>>

\* carray_set_size, carray_set: the array grows with NULL pointers.
SetEntry(t, i, e) ==
  [k \in 1..(IF Len(t) < i THEN i ELSE Len(t)) |->
     IF k = i THEN e ELSE IF k <= Len(t) THEN t[k] ELSE Hole]

\* read_list, then mailpop3_do_uidl for the table that is now the session's.
ListLine ==
  /\ Reads("list")
  /\ CASE NextLine.kind = "end" ->
            /\ listed' = TRUE /\ tab' = call.tab /\ deleted_count' = 0
            /\ Sends("UIDL", 0, call.then)
       [] NextLine.kind = "item" ->
            /\ call' = [call EXCEPT !.tab = SetEntry(@, NextLine.i, NewEntry)]
            /\ UNCHANGED <<tabVars, toServer, sent>>
       [] OTHER -> UNCHANGED <<call, tabVars, toServer, sent>>
  /\ UNCHANGED <<state, stream, serverVars, countVars, late>>

\* read_uidl: a uid for an entry that exists.
UidlLine ==
  /\ Reads("uidl")
  /\ CASE NextLine.kind = "end" -> ListDone(listed, tab) /\ UNCHANGED tab
       [] NextLine.kind = "item" /\ Found(listed, tab, NextLine.i) ->
            /\ tab' = [tab EXCEPT ![NextLine.i].uid = NextLine.v]
            /\ UNCHANGED <<call, toServer, sent>>
       [] OTHER -> UNCHANGED <<call, tab, toServer, sent>>
  /\ UNCHANGED <<state, stream, listed, deleted_count, serverVars, countVars, late>>

\* read_line keeps nothing of a line of which it read a part before it failed.
\* The rest will be read as a status line, since every call reads one first, and
\* without its beginning a status line, or a continuation request, is none; what
\* is left of any other line says as a status what the whole line would.
Beheaded(lines) ==
  IF lines # <<>> /\ lines[1].kind \in {"ok", "cont"}
  THEN [lines EXCEPT ![1].kind = "err"]
  ELSE lines

\* A read times out: the call fails, the stream stays.  find_msg goes on after
\* a listing that failed, and a listing without uids is good enough.
Timeout ==
  /\ call # Idle /\ timeouts < MaxTimeouts /\ ~Eof
  /\ timeouts' = timeouts + 1
  /\ IF call.op = "QUIT"
     THEN /\ stream' = FALSE /\ state' = "DISCONNECTED"
          /\ listed' = FALSE /\ tab' = <<>> /\ UNCHANGED deleted_count
          /\ call' = Idle /\ server' = "closed"
          /\ toServer' = <<>> /\ toClient' = <<>> /\ UNCHANGED <<box, marks, sent, late>>
     ELSE /\ late' = TRUE
          /\ IF call.op \in {"LIST", "UIDL"} THEN ListDone(listed, tab) ELSE Return
          /\ toClient' \in {toClient, Beheaded(toClient)}
          /\ UNCHANGED <<state, stream, tabVars, serverVars>>
  /\ UNCHANGED connects

-----------------------------------------------------------------------------
\* The server, as the protocol has it: it takes the commands in order, answers
\* each one, and may close the connection.

\* The k-th of a set of numbers.
Nth(S, k) == CHOOSE i \in S : Cardinality({j \in S : j <= i}) = k

Listing(of, uidl) ==
  LET live == (1..Len(box)) \ marks
      Entry(i) == Line(of, "item", i, IF uidl THEN box[i] ELSE 0)
  IN  [k \in 1..Cardinality(live) |-> Entry(Nth(live, k))] \o << Line(of, "end", 0, 0) >>

Ok(of) == << Line(of, "ok", 0, 0) >>
Err(of) == << Line(of, "err", 0, 0) >>

Outcome(answer, st, ms) == [answer |-> answer, st |-> st, marks |-> ms]

\* What the server may do with a command: its answer, and where that leaves it.
Outcomes(c, of) ==
  LET Refused == {Outcome(Err(of), server, marks)}
      Long(kind) == << Line(of, "ok", 0, 0), Line(of, kind, 0, 0), Line(of, "end", 0, 0) >>
      Challenge == Outcome(<< Line(of, "cont", 0, 0) >>, "sasl", {})
      live == (1..Len(box)) \ marks
  IN IF server = "sasl"
     THEN {Outcome(Err(of), "auth", {})}
          \cup (IF c.op = "RESPONSE" THEN {Outcome(Ok(of), "trans", {})} ELSE {})
          \cup (IF c.op = "RESPONSE" /\ sent < MaxCommands THEN {Challenge} ELSE {})
     ELSE
     CASE server = "auth" /\ c.op \in {"PASS", "APOP"} ->
            Refused \cup {Outcome(Ok(of), "trans", {})}
       [] server = "auth" /\ c.op = "AUTH" -> Refused \cup {Challenge}
       [] server = "auth" /\ c.op \in {"USER", "STLS"} -> Refused \cup {Outcome(Ok(of), server, {})}
       [] c.op = "CAPA" -> Refused \cup {Outcome(Long("word"), server, marks)}
       [] c.op = "QUIT" -> {Outcome(Ok(of), "closed", marks), Outcome(Err(of), "closed", marks)}
       [] server = "trans" /\ c.op \in {"LIST", "UIDL"} ->
            Refused \cup {Outcome(Ok(of) \o Listing(of, c.op = "UIDL"), server, marks)}
       [] server = "trans" /\ c.op \in {"RETR", "TOP"} /\ c.msg \in live ->
            {Outcome(Long("text"), server, marks)}
       [] server = "trans" /\ c.op = "DELE" /\ c.msg \in live ->
            Refused \cup {Outcome(Ok(of), server, marks \cup {c.msg})}
       [] server = "trans" /\ c.op = "RSET" -> {Outcome(Ok(of), server, {})}
       [] server = "trans" /\ c.op \in {"NOOP", "STAT"} -> {Outcome(Ok(of), server, marks)}
       [] OTHER -> Refused

Serve ==
  /\ toServer # <<>> /\ server # "closed"
  /\ \E o \in Outcomes(Head(toServer), sent - Len(toServer) + 1) :
       /\ toClient' = toClient \o o.answer
       /\ server' = o.st /\ marks' = o.marks
  /\ toServer' = Tail(toServer)
  /\ UNCHANGED <<state, stream, tabVars, call, box, sent, countVars, late>>

\* The server goes away; what it did not serve is lost.
Drop ==
  /\ stream /\ server # "closed"
  /\ server' = "closed" /\ toServer' = <<>>
  /\ UNCHANGED <<state, stream, tabVars, call, toClient, box, marks, sent, countVars, late>>

DropRest ==
  /\ server = "closed" /\ toServer # <<>> /\ toServer' = <<>>
  /\ UNCHANGED <<state, stream, tabVars, call, toClient, serverVars, sent, countVars, late>>

Next ==
  \/ Connect \/ User \/ Pass \/ Auth \/ Capa \/ Stls \/ Stat \/ Noop \/ Rset \/ List \/ Quit
  \/ \E m \in Msgs : Retr(m) \/ Dele(m)
  \/ StatusLine \/ QuitReply \/ AuthLine \/ ContentLine \/ ListLine \/ UidlLine \/ Timeout
  \/ Serve \/ Drop \/ DropRest

Spec == Init /\ [][Next]_vars

-----------------------------------------------------------------------------
Entries == [here : BOOLEAN, deleted : BOOLEAN, uid : 0..N]
Ops == {"none", "CONNECT", "USER", "PASS", "APOP", "AUTH", "CAPA", "STLS", "STAT",
        "NOOP", "RSET", "LIST", "UIDL", "RETR", "TOP", "DELE", "QUIT"}

TypeOK ==
  /\ state \in {"DISCONNECTED", "AUTHORIZATION", "TRANSACTION"}
  /\ stream \in BOOLEAN /\ listed \in BOOLEAN
  /\ tab \in Seq(Entries) /\ Len(tab) <= N
  /\ deleted_count \in Nat
  /\ call.op \in Ops /\ call.at \in {"none", "status", "list", "uidl", "lines"}
  /\ server \in {"auth", "sasl", "trans", "closed"}
  /\ marks \subseteq 1..Len(box)
  /\ sent \in Nat

\* Whatever timed out before, the table of a session has no NULL entry: it was
\* read from a listing that was made before the first deletion.  This is what
\* mailpop3_msg_info_tab_reset (mailpop3_rset) relies on: it looks into every
\* entry.
TableDense == TypeOK /\ \A i \in DOMAIN tab : tab[i].here

\* As long as no read has timed out and no SASL exchange was given up, every
\* call reads its own answer, all of it and nothing else: the line that it
\* takes for the status of its command is the server's answer to that command,
\* and nothing is under way between two calls.
InStep ==
  ~late => /\ (call.at = "status" /\ toClient # <<>>) => Head(toClient).of = sent
           /\ (call = Idle /\ stream) => toClient = <<>> /\ toServer = <<>>

\* Between two calls of such a session the client and the server agree: on who
\* is logged in, on which messages will be deleted, and on which uid each
\* message has; pop3_deleted_count counts the marks, so that the number of
\* messages left, carray_count(msg_tab) - pop3_deleted_count, is right.
SessionAgrees ==
  ~late /\ call = Idle /\ stream /\ server # "closed" =>
    /\ (state = "TRANSACTION") = (server = "trans")
    /\ listed => /\ Len(tab) = Len(box)
                 /\ {i \in DOMAIN tab : tab[i].deleted} = marks
                 /\ deleted_count = Cardinality(marks)
                 /\ \A i \in DOMAIN tab : tab[i].uid \in {0, box[i]}
=============================================================================
