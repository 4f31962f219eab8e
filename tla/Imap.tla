-------------------------------- MODULE Imap --------------------------------
(***************************************************************************)
(* An IMAP session (low-level/imap: mailimap.c and the extensions' files): *)
(* the client's state, the numbered commands, the responses with their     *)
(* untagged data, and the exchanges in which the server first asks the     *)
(* client to go on (APPEND, AUTHENTICATE, IDLE).  A read that times out    *)
(* returns and leaves the stream as it is.                                 *)
(***************************************************************************)
EXTENDS Naturals, Sequences, FiniteSets

CONSTANTS MaxTags,      \* no call starts after so many commands
          MaxTimeouts,  \* how many reads time out
          MaxConnects,  \* how often the client connects
          MaxHeld,      \* the most messages in a mailbox
          Uint32        \* the number of values of a uint32_t

ASSUME ImapAssumption ==
  /\ {MaxTags, MaxTimeouts, MaxConnects, MaxHeld} \subseteq Nat
  /\ Uint32 \in Nat /\ Uint32 > MaxHeld + 1

VARIABLES
  state,     \* session->imap_state
  stream,    \* session->imap_stream != NULL
  tag,       \* session->imap_tag
  sel,       \* session->imap_selection_info: is it there, and sel_exists
  call,      \* the call in progress: the command, and what it waits for
  ret,       \* how the last call ended
  idling,    \* mailimap_idle succeeded, mailimap_idle_done comes next
  toServer,  \* the lines under way to the server
  toClient,  \* the lines under way to the client
  server,    \* the server: where it is in the protocol,
  back,      \* where it returns to after an exchange, the tag of which is
  stag,      \* this one,
  held,      \* the number of messages in the mailbox it has selected,
  qresync,   \* whether QRESYNC is enabled: messages go by VANISHED,
  granted,   \* and the last tag it answered by OK, or by FETCH data
  stale,     \* history: since the server last said how many messages there
             \* are it sent VANISHED, or answered a SELECT by BAD
  timeouts, connects,
  late       \* history: a response or a report of this connection goes unread

serverVars == <<server, back, stag, held, qresync, granted, stale>>
countVars == <<timeouts, connects>>
vars == <<state, stream, tag, sel, call, ret, idling, toServer, toClient, serverVars, countVars, late>>

Item(kind, n, t, verdict) == [kind |-> kind, n |-> n, tag |-> t, verdict |-> verdict]
Exists(n) == Item("exists", n, 0, "none")
Expunged == Item("expunge", 0, 0, "none")
Vanished == Item("vanished", 0, 0, "none")
Fetched == Item("fetch", 0, 0, "none")
Notice == Item("notice", 0, 0, "none")
Bye == Item("bye", 0, 0, "none")
Continue == Item("cont", 0, 0, "none")
Tagged(t, verdict) == Item("tagged", 0, t, verdict)

NoSelection == [set |-> FALSE, exists |-> 0]
NewSelection == [set |-> TRUE, exists |-> 0]

\* A call: its command, what it waits for, and what it has read of the
\* response: the selection with the data stored, and the kinds of data seen.
Waiting(op, at, s) == [op |-> op, at |-> at, sel |-> s, seen |-> {}]
Idle == Waiting("none", "none", NoSelection)

Init ==
  /\ state = "DISCONNECTED" /\ stream = FALSE /\ tag = 0
  /\ sel = NoSelection /\ call = Idle /\ ret = "none" /\ idling = FALSE
  /\ toServer = <<>> /\ toClient = <<>>
  /\ server = "closed" /\ back = "closed" /\ stag = 0 /\ held = 0 /\ granted = 0
  /\ qresync = FALSE /\ stale = FALSE
  /\ timeouts = 0 /\ connects = 0 /\ late = FALSE

-----------------------------------------------------------------------------
\* Calls.  A call in the wrong state returns BAD_STATE without any effect.

\* mailimap_select replaces the selection once it has read a line.
Fresh(op) == IF op = "SELECT" THEN NewSelection ELSE sel

\* mailimap_send_current_tag and the rest of the line.  A write that fails ends
\* the call like the end of the stream.
Command(op, at) ==
  /\ call = Idle /\ stream /\ ~idling /\ (tag < MaxTags \/ op = "LOGOUT")
  /\ tag' = tag + 1
  /\ toServer' = Append(toServer, [op |-> op, tag |-> tag + 1])
  /\ call' = Waiting(op, at, Fresh(op))
  /\ UNCHANGED <<state, stream, sel, ret, idling, toClient, serverVars, countVars, late>>

\* mailimap_connect: a new stream; the server's greeting is read.  The data of
\* an earlier selection stay.
Connect ==
  /\ call = Idle /\ state = "DISCONNECTED" /\ connects < MaxConnects
  /\ \E greeting \in {"OK", "PREAUTH", "BYE"} :
       /\ toClient' = << Item("greeting", 0, 0, greeting) >>
       /\ server' = CASE greeting = "OK" -> "nonauth" [] greeting = "PREAUTH" -> "auth"
                      [] greeting = "BYE" -> "closed"
       /\ back' = server'
  /\ toServer' = <<>> /\ stag' = 0 /\ held' = 0 /\ qresync' = FALSE /\ stale' = FALSE
  /\ stream' = TRUE /\ idling' = FALSE /\ late' = FALSE
  /\ call' = Waiting("CONNECT", "greeting", sel) /\ connects' = connects + 1
  /\ UNCHANGED <<state, tag, sel, ret, granted, timeouts>>

InSession == state \in {"AUTHENTICATED", "SELECTED"}

\* Commands without an effect on the session's state, by the states in which
\* the code lets them through.
Noop == Command("NOOP", "response")
Capability == Command("NOOP", "response")
CustomCommand == Command("NOOP", "response")
Compress == Command("NOOP", "response")
Id == state # "DISCONNECTED" /\ Command("NOOP", "response")
Starttls == Command("STARTTLS", "response")
ClientId == state = "NON_AUTHENTICATED" /\ Command("NOOP", "response")

Create == InSession /\ Command("MAILBOX", "response")
Delete == InSession /\ Command("MAILBOX", "response")
Rename == InSession /\ Command("MAILBOX", "response")
List == InSession /\ Command("MAILBOX", "response")
Lsub == InSession /\ Command("MAILBOX", "response")
Xlist == InSession /\ Command("MAILBOX", "response")
Status == InSession /\ Command("MAILBOX", "response")
Subscribe == InSession /\ Command("MAILBOX", "response")
Unsubscribe == InSession /\ Command("MAILBOX", "response")
Namespace == InSession /\ Command("MAILBOX", "response")
Getquotaroot == InSession /\ Command("MAILBOX", "response")
Setacl == state = "AUTHENTICATED" /\ Command("MAILBOX", "response")
Deleteacl == state = "AUTHENTICATED" /\ Command("MAILBOX", "response")
Getacl == state = "AUTHENTICATED" /\ Command("MAILBOX", "response")
Listrights == state = "AUTHENTICATED" /\ Command("MAILBOX", "response")
Myrights == state = "AUTHENTICATED" /\ Command("MAILBOX", "response")
Getannotation == state = "AUTHENTICATED" /\ Command("MAILBOX", "response")
Setannotation == state = "AUTHENTICATED" /\ Command("MAILBOX", "response")
Enable == state = "AUTHENTICATED" /\ Command("ENABLE", "response")

Check == state = "SELECTED" /\ Command("MESSAGE", "response")
Copy == state = "SELECTED" /\ Command("MESSAGE", "response")
UidCopy == state = "SELECTED" /\ Command("MESSAGE", "response")
Store == state = "SELECTED" /\ Command("MESSAGE", "response")
UidStore == state = "SELECTED" /\ Command("MESSAGE", "response")
StoreLabels == state = "SELECTED" /\ Command("MESSAGE", "response")
UidStoreLabels == state = "SELECTED" /\ Command("MESSAGE", "response")
Search == state = "SELECTED" /\ Command("MESSAGE", "response")
Sort == state = "SELECTED" /\ Command("MESSAGE", "response")
UidSort == state = "SELECTED" /\ Command("MESSAGE", "response")
Fetch == state = "SELECTED" /\ Command("FETCH", "response")
UidFetch == state = "SELECTED" /\ Command("FETCH", "response")
Expunge == state = "SELECTED" /\ Command("EXPUNGE", "response")
UidExpunge == state = "SELECTED" /\ Command("EXPUNGE", "response")
Move == state = "SELECTED" /\ Command("EXPUNGE", "response")
UidMove == state = "SELECTED" /\ Command("EXPUNGE", "response")

\* Commands that move the session from one state to another.
Login == state = "NON_AUTHENTICATED" /\ Command("LOGIN", "response")
Authenticate == state = "NON_AUTHENTICATED" /\ Command("AUTHENTICATE", "go")
Oauth2 == state = "NON_AUTHENTICATED" /\ Command("AUTHENTICATE", "once")
Select == InSession /\ Command("SELECT", "response")
Examine == InSession /\ Command("SELECT", "response")
SelectQresync == InSession /\ Command("SELECT", "response")
CloseMailbox == state = "SELECTED" /\ Command("CLOSE", "response")
Logout == Command("LOGOUT", "response")

\* mailimap_append waits for the continuation request; so does mailimap_idle,
\* which looks into the selection without a test.
Append_ == InSession /\ Command("APPEND", "go")
StartIdle == sel.set /\ Command("IDLE", "go")

\* mailimap_idle_done: DONE has no tag of its own.
IdleDone ==
  /\ call = Idle /\ idling
  /\ toServer' = Append(toServer, [op |-> "DONE", tag |-> tag])
  /\ call' = Waiting("DONE", "response", sel) /\ idling' = FALSE
  /\ UNCHANGED <<state, stream, tag, sel, ret, toClient, serverVars, countVars, late>>

-----------------------------------------------------------------------------
\* Responses.

Eof == server = "closed" /\ toServer = <<>>

\* mailbox_data_store, message_data_store: the untagged data that change the
\* selection, where there is one.  VANISHED does not.
data_store_OnlyExists(s, item) ==
  IF s.set /\ item.kind = "exists" THEN [s EXCEPT !.exists = item.n] ELSE s

data_store(s, item) ==
  CASE s.set /\ item.kind = "exists"  -> [s EXCEPT !.exists = item.n]
    [] s.set /\ item.kind = "expunge" -> [s EXCEPT !.exists = (@ + Uint32 - 1) % Uint32]
    [] OTHER                          -> s

\* response_store applies it to what was read, in order, when the response is
\* complete: until then the selection it makes is kept with the call.
response_store(item) ==
  [call EXCEPT !.sel = data_store(@, item), !.seen = @ \cup {item.kind}]

\* mailimap_parse_response, when everything up to a tagged response is read: a
\* BYE among it is ERROR_STREAM, and nothing is stored; the tag is compared;
\* BAD is an error.
parse_response_AnyTag(done) == done.verdict

parse_response(done) ==
  IF "bye" \in call.seen \/ done.tag # tag \/ done.verdict = "BAD" THEN "error" ELSE done.verdict

Stored == IF "bye" \in call.seen THEN Fresh(call.op) ELSE call.sel

Returns(result) == call' = Idle /\ ret' = result

\* mailimap_logout, at "close"
Closes ==
  /\ stream' = FALSE /\ state' = "DISCONNECTED" /\ server' = "closed"
  /\ toServer' = <<>> /\ toClient' = <<>>
  /\ UNCHANGED <<tag, idling, back, stag, held, qresync, granted, stale, connects, late>>

\* The effect of a complete response on the session: r is "OK" or "NO".
StateAfter(op, r) ==
  CASE op \in {"LOGIN", "AUTHENTICATE"} /\ r = "OK" -> "AUTHENTICATED"
    [] op = "SELECT" /\ r = "OK"                    -> "SELECTED"
    [] op = "SELECT" /\ r = "NO"                    -> "AUTHENTICATED"
    [] op = "CLOSE" /\ r = "OK"                     -> "AUTHENTICATED"
    [] OTHER                                        -> state

SelectionAfter(op, r, s) ==
  IF (op = "SELECT" /\ r = "NO") \/ (op = "CLOSE" /\ r = "OK") THEN NoSelection ELSE s

\* What the caller is told.  A FETCH that brought something has succeeded; an
\* APPEND or IDLE that is answered before it may go on has failed.
Result(r) ==
  IF r = "error" THEN "error"
  ELSE CASE call.op \in {"APPEND", "IDLE"} /\ call.at \in {"go", "early"} -> "NO"
         [] call.op = "FETCH" /\ "fetch" \in call.seen                    -> "OK"
         [] OTHER                                                        -> r

\* mailimap_logout takes ERROR_STREAM for success, once it has a first line:
\* that is what the server's BYE gives, and so do the end of the stream and a
\* read that times out.
StreamError == IF call.op = "LOGOUT" /\ call.seen # {} THEN "OK" ELSE "error"

\* The commands whose continuation request may come after untagged data:
\* mailimap_idle_wait_continuation reads on, append and the authentications
\* read one line.
ReadsOn_None(op) == FALSE

ReadsOn(op) == op = "IDLE"

\* The greeting.
Greeted ==
  /\ call.at = "greeting"
  /\ \/ toClient # <<>> /\ state' = CASE Head(toClient).verdict = "BYE"     -> state
                                      [] Head(toClient).verdict = "PREAUTH" -> "AUTHENTICATED"
                                      [] OTHER                              -> "NON_AUTHENTICATED"
     \/ toClient = <<>> /\ Eof /\ UNCHANGED state
  /\ toClient' = <<>> /\ Returns("none")
  /\ UNCHANGED <<stream, tag, sel, idling, toServer, serverVars, countVars, late>>

\* A response is read, item by item.  append and authenticate come here when
\* the line they read is no continuation request, whatever comes later; idle
\* has its own loop (see IdleSkips).
Reading == call.at \in {"response", "early", "go", "once"} /\ toClient # <<>>

ReadItem ==
  /\ Reading /\ Head(toClient).kind # "tagged"
  /\ call.at \in {"go", "once"} => Head(toClient).kind # "cont" /\ ~ReadsOn(call.op)
  /\ call' = [response_store(Head(toClient)) EXCEPT
                !.at = IF @ \in {"go", "once"} THEN "early" ELSE @]
  /\ sel' = Fresh(call.op) /\ toClient' = Tail(toClient)
  /\ UNCHANGED <<state, stream, tag, ret, idling, toServer, serverVars, countVars, late>>

Responded ==
  /\ Reading /\ Head(toClient).kind = "tagged"
  /\ LET r == parse_response(Head(toClient))
     IN  /\ Returns(IF "bye" \in call.seen THEN StreamError ELSE Result(r))
         /\ IF call.op = "LOGOUT" THEN Closes /\ sel' = Stored
            ELSE /\ state' = StateAfter(call.op, r)
                 /\ sel' = SelectionAfter(call.op, r, Stored)
                 /\ toClient' = Tail(toClient)
                 /\ server' \in IF call.op = "STARTTLS" /\ r = "OK" THEN {server, "closed"} ELSE {server}
                 /\ UNCHANGED <<stream, tag, idling, toServer, back, stag, held, qresync, granted,
                                stale, connects, late>>
  /\ UNCHANGED timeouts

\* The stream ends before the response does.
EndOfStream ==
  /\ call.at \in {"response", "early", "go", "once"} /\ toClient = <<>> /\ Eof
  /\ Returns(StreamError) /\ UNCHANGED sel
  /\ IF call.op = "LOGOUT" THEN Closes
     ELSE UNCHANGED <<state, stream, tag, idling, toServer, toClient, serverVars, connects, late>>
  /\ UNCHANGED timeouts

\* The continuation request arrives: mailimap_append sends the message, the
\* authentications answer (mailimap_authenticate may also give up without a
\* word to the server, mailimap_oauth2_authenticate answers once), and
\* mailimap_idle returns.
GoesOn ==
  /\ call.at \in {"go", "once"} /\ toClient # <<>> /\ Head(toClient).kind = "cont"
  /\ toClient' = Tail(toClient)
  /\ \/ /\ call.op = "IDLE" /\ Returns("OK") /\ idling' = TRUE
        /\ UNCHANGED <<toServer, late>>
     \/ /\ call.op \in {"APPEND", "AUTHENTICATE"}
        /\ toServer' = Append(toServer, [op |-> "LITERAL", tag |-> tag])
        /\ call' = IF call.op = "AUTHENTICATE" /\ call.at = "go" THEN call
                   ELSE [call EXCEPT !.at = "response"]
        /\ UNCHANGED <<ret, idling, late>>
     \/ /\ call.op = "AUTHENTICATE" /\ call.at = "go"
        /\ Returns("error") /\ late' = TRUE
        /\ UNCHANGED <<toServer, idling>>
  /\ UNCHANGED <<state, stream, tag, sel, serverVars, countVars>>

\* mailimap_idle_wait_continuation: untagged data before the continuation
\* request are read and freed.
IdleSkips ==
  /\ call.at = "go" /\ ReadsOn(call.op) /\ toClient # <<>>
  /\ Head(toClient).kind \notin {"cont", "tagged"}
  /\ toClient' = Tail(toClient) /\ late' = TRUE
  /\ UNCHANGED <<state, stream, tag, sel, call, ret, idling, toServer, serverVars, countVars>>

\* A read times out: what was read of the response is lost.
Timeout ==
  /\ call # Idle /\ timeouts < MaxTimeouts /\ ~Eof
  /\ timeouts' = timeouts + 1
  /\ Returns(StreamError) /\ UNCHANGED sel
  /\ IF call.op = "LOGOUT" THEN Closes
     ELSE /\ late' = TRUE
          /\ UNCHANGED <<state, stream, tag, idling, toServer, toClient, serverVars, connects>>

-----------------------------------------------------------------------------
\* The server, as the protocol has it.

Answers(items) == toClient' = toClient \o items

\* What it may report with an answer: a change of the selected mailbox, or, in
\* an exchange, something else.  Messages arrive, and while no command uses
\* their numbers they go.
Reports(op) ==
  {<<<<>>, held>>}
  \cup (IF op \in {"APPEND", "AUTHENTICATE", "IDLE"} THEN {<<<<Notice>>, held>>} ELSE {})
  \cup (IF back = "selected" THEN {<<<<Exists(n)>>, n>> : n \in (held + 1)..MaxHeld} ELSE {})
  \cup (IF back = "selected" /\ op \in {"NOOP", "EXPUNGE", "IDLE"} /\ held > 0
        THEN {<<<<IF qresync THEN Vanished ELSE Expunged>>, held - 1>>} ELSE {})

\* Do the data sent leave a client that follows them without the count?
StaleAfter(data) ==
  CASE \E i \in DOMAIN data : data[i] = Vanished       -> TRUE
    [] \E i \in DOMAIN data : data[i].kind = "exists"  -> FALSE
    [] OTHER                                           -> stale

\* The commands it accepts where it is; any other is answered BAD.
Accepts(op) ==
  \/ op \in {"NOOP", "LOGOUT"}
  \/ server = "nonauth" /\ op \in {"STARTTLS", "LOGIN", "AUTHENTICATE"}
  \/ server = "auth" /\ op = "ENABLE"
  \/ server \in {"auth", "selected"} /\ op \in {"MAILBOX", "SELECT", "APPEND", "IDLE"}
  \/ server = "selected" /\ op \in {"MESSAGE", "FETCH", "EXPUNGE", "CLOSE"}

Serve ==
  LET c == Head(toServer)
      Ends(verdict, data, to, n) ==
        /\ Answers(data \o << Tagged(c.tag, verdict) >>)
        /\ granted' = IF verdict = "OK" \/ (\E i \in DOMAIN data : data[i] = Fetched) THEN c.tag ELSE granted
        /\ server' = to /\ back' = to /\ held' = n /\ UNCHANGED stag
        /\ qresync' \in IF c.op = "ENABLE" /\ verdict = "OK" THEN {qresync, TRUE} ELSE {qresync}
        /\ stale' = ((c.op = "SELECT" /\ verdict = "BAD") \/ StaleAfter(data))
  IN
  /\ toServer # <<>> /\ server \in {"nonauth", "auth", "selected"}
  /\ toServer' = Tail(toServer)
  /\ \/ ~Accepts(c.op) /\ Ends("BAD", <<>>, server, held)
     \/ /\ Accepts(c.op)
        /\ \/ \E v \in {"OK", "NO"}, r \in Reports(c.op) :
                /\ c.op \in {"NOOP", "ENABLE", "MAILBOX", "MESSAGE", "EXPUNGE", "STARTTLS"}
                /\ Ends(v, r[1], server, r[2])
           \/ \E v \in {"OK", "NO"}, r \in Reports(c.op), f \in {<<>>, <<Fetched>>} :
                c.op = "FETCH" /\ Ends(v, r[1] \o f, server, r[2])
           \/ c.op = "LOGIN" /\ (Ends("OK", <<>>, "auth", held) \/ Ends("NO", <<>>, server, held))
           \/ c.op = "CLOSE" /\ (Ends("OK", <<>>, "auth", 0) \/ Ends("NO", <<>>, server, held))
           \/ c.op = "LOGOUT" /\ Ends("OK", <<Bye>>, "closed", held)
           \/ /\ c.op = "SELECT"
              /\ \/ \E n \in 0..MaxHeld : Ends("OK", <<Exists(n)>>, "selected", n)
                 \/ Ends("NO", <<>>, "auth", 0)
                 \/ Ends("BAD", <<>>, server, held)
           \/ c.op \in {"APPEND", "AUTHENTICATE", "IDLE"} /\ Ends("NO", <<>>, server, held)
           \/ /\ c.op \in {"APPEND", "AUTHENTICATE", "IDLE"}
              /\ \E r \in Reports(c.op) :
                   Answers(r[1] \o <<Continue>>) /\ held' = r[2] /\ stale' = StaleAfter(r[1])
              /\ server' = c.op /\ stag' = c.tag /\ UNCHANGED <<back, qresync, granted>>
  /\ UNCHANGED <<state, stream, tag, sel, call, ret, idling, countVars, late>>

\* In an exchange it takes whatever comes for the rest of the exchange.
ServeExchange ==
  LET c == Head(toServer)
      Ends(verdict, data, to, n) ==
        /\ Answers(data \o << Tagged(stag, verdict) >>)
        /\ granted' = IF verdict = "OK" THEN stag ELSE granted
        /\ server' = to /\ back' = to /\ held' = n /\ stale' = StaleAfter(data)
  IN
  /\ toServer # <<>> /\ server \in {"APPEND", "AUTHENTICATE", "IDLE"}
  /\ toServer' = Tail(toServer)
  /\ \/ server = "APPEND" /\ \E v \in {"OK", "NO"}, r \in Reports("APPEND") : Ends(v, r[1], back, r[2])
     \/ server = "AUTHENTICATE" /\ c.op = "LITERAL" /\ Ends("OK", <<>>, "auth", held)
     \/ server = "AUTHENTICATE" /\ Ends("NO", <<>>, back, held)
     \/ server = "IDLE" /\ c.op = "DONE" /\ \E r \in Reports("IDLE") : Ends("OK", r[1], back, r[2])
     \/ server = "IDLE" /\ c.op # "DONE" /\ Ends("BAD", <<>>, back, held)
  /\ UNCHANGED <<state, stream, tag, sel, call, ret, idling, stag, qresync, countVars, late>>

\* While the client idles the server reports changes as they come.
Push ==
  /\ server = "IDLE" /\ Len(toClient) < 2
  /\ \E r \in Reports("IDLE") \ {<<<<>>, held>>} :
       Answers(r[1]) /\ held' = r[2] /\ stale' = StaleAfter(r[1])
  /\ UNCHANGED <<state, stream, tag, sel, call, ret, idling, toServer, server, back, stag, qresync,
                 granted, countVars, late>>

\* The server goes away, with or without a word; what it did not serve is lost.
Drop ==
  /\ stream /\ server' = "closed" /\ toServer' = <<>>
  /\ <<server, toServer>> # <<"closed", <<>>>>
  /\ Answers(<<>>) \/ Answers(<<Bye>>)
  /\ UNCHANGED <<state, stream, tag, sel, call, ret, idling, back, stag, held, qresync, granted, stale,
                 countVars, late>>

AnyStateCommand == Noop \/ Capability \/ CustomCommand \/ Compress \/ Id \/ Starttls \/ ClientId
MailboxCommand ==
  \/ Create \/ Delete \/ Rename \/ List \/ Lsub \/ Xlist \/ Status \/ Subscribe \/ Unsubscribe
  \/ Namespace \/ Getquotaroot \/ Setacl \/ Deleteacl \/ Getacl \/ Listrights \/ Myrights
  \/ Getannotation \/ Setannotation \/ Enable
MessageCommand ==
  \/ Check \/ Copy \/ UidCopy \/ Store \/ UidStore \/ StoreLabels \/ UidStoreLabels
  \/ Search \/ Sort \/ UidSort \/ Fetch \/ UidFetch \/ Expunge \/ UidExpunge \/ Move \/ UidMove
SessionCommand ==
  \/ Connect \/ Login \/ Authenticate \/ Oauth2 \/ Select \/ Examine \/ SelectQresync
  \/ CloseMailbox \/ Logout \/ Append_ \/ StartIdle \/ IdleDone

Next ==
  \/ AnyStateCommand \/ MailboxCommand \/ MessageCommand \/ SessionCommand
  \/ Greeted \/ ReadItem \/ Responded \/ EndOfStream \/ GoesOn \/ IdleSkips \/ Timeout
  \/ Serve \/ ServeExchange \/ Push \/ Drop

Spec == Init /\ [][Next]_vars

-----------------------------------------------------------------------------
Ops == {"CONNECT", "NOOP", "STARTTLS", "ENABLE", "MAILBOX", "MESSAGE", "FETCH", "EXPUNGE", "LOGIN",
        "AUTHENTICATE", "SELECT", "CLOSE", "LOGOUT", "APPEND", "IDLE", "DONE"}

Selections == [set : BOOLEAN, exists : 0..(Uint32 - 1)]

Kinds == {"greeting", "exists", "expunge", "vanished", "fetch", "notice", "bye", "cont", "tagged"}

\* In the state SELECTED there always is a selection to look into.
TypeOK ==
  /\ state \in {"DISCONNECTED", "NON_AUTHENTICATED", "AUTHENTICATED", "SELECTED"}
  /\ stream \in BOOLEAN /\ tag \in 0..(MaxTags + MaxConnects)
  /\ sel \in Selections
  /\ state = "SELECTED" => sel.set
  /\ call \in {Idle} \cup [op : Ops, at : {"greeting", "response", "early", "go", "once"},
                           sel : Selections, seen : SUBSET Kinds]
  /\ ret \in {"none", "OK", "NO", "error"} /\ idling \in BOOLEAN
  /\ server \in {"closed", "nonauth", "auth", "selected", "APPEND", "AUTHENTICATE", "IDLE"}
  /\ held \in 0..MaxHeld /\ granted \in 0..tag /\ qresync \in BOOLEAN /\ stale \in BOOLEAN

\* A call that reports success was told so by the server about this very
\* command, whatever has timed out before: mailimap_parse_response compares the
\* tag.  Two calls do without: mailimap_idle, which succeeds with a request that
\* carries no tag, and mailimap_logout, which takes any end of the stream for
\* success and leaves no session behind that could be out of step.
SuccessIsOwn ==
  TypeOK /\ (call = Idle /\ ret = "OK" /\ ~idling => granted = tag \/ (~stream /\ state = "DISCONNECTED"))

\* As long as every response was read, the client and the server agree between
\* two calls on the state of the session, and the client knows how many
\* messages the selected mailbox has: sel_exists follows each EXISTS and each
\* EXPUNGE.  It does not follow VANISHED, and a SELECT answered by BAD leaves
\* the old mailbox selected and its count forgotten; the next EXISTS mends both.
SessionAgrees ==
  ~late /\ call = Idle /\ stream /\ server # "closed" =>
    /\ (state = "NON_AUTHENTICATED") = (back = "nonauth")
    /\ (state = "AUTHENTICATED") = (back = "auth")
    /\ (state = "SELECTED") = (back = "selected")
    /\ idling = (server = "IDLE")
    /\ (state = "SELECTED" /\ ~idling /\ ~stale) => sel.exists = held

\* The client and the server wait for each other in one case only: append or an
\* authentication, which look for the continuation request in one line, found
\* untagged data there and took them for the answer ("early").  Otherwise, when
\* the server waits for the rest of an exchange, the rest is under way or the
\* continuation request is still to be read by a client that looks for it;
\* mailimap_idle finds it behind any number of reports.
NoMutualWait ==
  ~late /\ call # Idle /\ toServer = <<>> /\ server \in {"APPEND", "AUTHENTICATE", "IDLE"} =>
    \/ call.at = "early" /\ call.op # "IDLE"
    \/ /\ call.at \in {"go", "once"}
       /\ \E i \in DOMAIN toClient : toClient[i].kind = "cont"
=============================================================================
