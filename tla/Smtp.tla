-------------------------------- MODULE Smtp --------------------------------
(***************************************************************************)
(* An SMTP or LMTP session (low-level/smtp/mailsmtp.c, mailsmtp_helper.c): *)
(* the calls of the library, the lines between the client and the server,  *)
(* and the mail transaction at the server.  The client keeps no state of   *)
(* the protocol but the answer to EHLO: whether a message was accepted,    *)
(* and for whom, is known only from answers that carry no tag.             *)
(*                                                                         *)
(* The library is built with SASL (USE_SASL).  The session's esmtp flags   *)
(* and its auth flags are set and cleared together, by EHLO, LHLO and      *)
(* HELO, and are one Boolean here; an extension that the server did not    *)
(* name makes the call that needs it return at once.                       *)
(***************************************************************************)
EXTENDS Naturals, Sequences, Functions

CONSTANTS Rcpts,        \* recipients, numbers
          Lists,        \* the lists of recipients that a program sends to
          MaxCommands,  \* no call starts after so many commands of a connection
          MaxTimeouts,  \* how many reads time out
          MaxConnects   \* how often the client connects

ASSUME SmtpAssumption ==
  /\ Rcpts \subseteq Nat \ {0} /\ Lists \subseteq Seq(Rcpts)
  /\ MaxCommands \in Nat /\ MaxTimeouts \in Nat /\ MaxConnects \in Nat

VARIABLES
  stream,     \* session->stream != NULL
  esmtp,      \* session->esmtp != 0 (and session->auth is CHECKED)
  call,       \* the call in progress
  result,     \* what the last call returned
  agreed,     \* the caller's list of the recipients that were accepted
  toServer,   \* the commands under way
  toClient,   \* the lines of answers under way
  server,     \* the server: where it is in the protocol,
  lmtp,       \* whether it speaks LMTP,
  to,         \* and the recipients of its transaction
  delivered,  \* history: what the server accepted since the call began
  sent,       \* the commands of this connection, the greeting included
  timeouts, connects,
  late        \* history: this connection has an answer nobody waits for

sessionVars == <<stream, esmtp, agreed>>
serverVars == <<server, lmtp, to>>
countVars == <<timeouts, connects>>
vars == <<sessionVars, call, result, toServer, toClient, serverVars, delivered, sent,
          countVars, late>>

Line(of, code, more) == [of |-> of, code |-> code, more |-> more]
Step(op) == [op |-> op, to |-> 0]

\* A call: the function, the commands it still has to do, the first of them
\* sent; the number of the answer awaited; the recipients; the codes read.
Doing(fn, steps, rcpts) ==
  [fn |-> fn, steps |-> steps, num |-> sent + 1, rcpts |-> rcpts, codes |-> <<>>]
Idle == [fn |-> "none", steps |-> <<>>, num |-> 0, rcpts |-> <<>>, codes |-> <<>>]
Returned(fn, ok, code, rcpts, codes) ==
  [fn |-> fn, ok |-> ok, code |-> code, rcpts |-> rcpts, codes |-> codes]
NoResult == Returned("none", FALSE, 0, <<>>, <<>>)

Init ==
  /\ stream = FALSE /\ esmtp = FALSE /\ agreed = <<>>
  /\ call = Idle /\ result = NoResult
  /\ toServer = <<>> /\ toClient = <<>>
  /\ server = "closed" /\ lmtp = FALSE /\ to = <<>> /\ delivered = <<>>
  /\ sent = 0 /\ timeouts = 0 /\ connects = 0 /\ late = FALSE

-----------------------------------------------------------------------------
\* Commands.

\* What a step puts on the wire: the text of a message, and in
\* mailsmtp_data_message_quit the QUIT right behind it.
Wire(s) ==
  CASE s.op \in {"BODY", "LBODY"}             -> << Step("BODY") >>
    [] s.op \in {"BODYQUIT", "BODYQUITKEEP"}  -> << Step("BODY"), Step("QUIT") >>
    [] OTHER                                  -> << s >>

\* send_command, send_data.  A write that fails ends the call the way the end
\* of the stream does.  A write that times out leaves its bytes in the write
\* buffer, and the next command sends them: to the server that is a command
\* that comes late, to the call a read that times out (NoAnswer).
Sends(s) ==
  /\ toServer' = toServer \o Wire(s)
  /\ sent' = sent + Len(Wire(s))

\* The codes with which a step succeeds; 0 is no answer.  AUTH takes whatever
\* is not an error for success (auth_map_errors); NOOP and RSET any answer.
Codes == {220, 221, 235, 250, 251, 334, 354, 451, 454, 500, 501, 503, 535, 550, 554}

Accepts_MailTwice(op) ==
  CASE op = "MAIL" -> {250, 503} [] op = "RCPT" -> {250, 251} [] op = "DATA" -> {354}
    [] op = "CONNECT" -> {220} [] OTHER -> {250}

Accepts(op) ==
  CASE op \in {"CONNECT", "STARTTLS"}  -> {220}
    [] op = "RCPT"                     -> {250, 251}
    [] op = "DATA"                     -> {354}
    [] op \in {"AUTH", "RESPONSE"}     -> {c \in Codes : c \div 100 \notin {4, 5}} \ {334}
    [] op \in {"XOAUTH2", "TOKEN"}     -> {220, 235}
    [] op \in {"NOOP", "RSET"}         -> Codes
    [] OTHER                           -> {250}

\* The caller does one call at a time, and after an accepted DATA sends the
\* text of the message.
Starts(fn, steps, rcpts) ==
  /\ stream /\ call = Idle /\ sent < MaxCommands
  /\ result.fn = "data" /\ result.ok => fn \in {"data_message", "lmtp_data_message"}
  /\ call' = Doing(fn, steps, rcpts)
  /\ Sends(Head(steps))
  /\ result' = NoResult /\ delivered' = <<>>
  /\ UNCHANGED <<sessionVars, toClient, serverVars, countVars, late>>

Simple(fn, op) == Starts(fn, << Step(op) >>, <<>>)

\* mailsmtp_connect: the server greets or refuses.
Connect ==
  /\ call = Idle /\ ~stream /\ connects < MaxConnects
  /\ stream' = TRUE
  /\ lmtp' \in BOOLEAN
  /\ \E code \in {220, 554} :
       /\ toClient' = << Line(1, code, FALSE) >>
       /\ server' = IF code = 220 THEN "new" ELSE "closed"
  /\ call' = [Idle EXCEPT !.fn = "connect", !.steps = << Step("CONNECT") >>, !.num = 1]
  /\ result' = NoResult /\ delivered' = <<>> /\ agreed' = <<>>
  /\ toServer' = <<>> /\ to' = <<>>
  /\ sent' = 1 /\ connects' = connects + 1 /\ late' = FALSE
  /\ UNCHANGED <<esmtp, timeouts>>

\* mailsmtp_init: EHLO, and HELO if that fails.  mailesmtp_ehlo and mailsmtp_helo
\* are its two halves.
Init_ == ~lmtp /\ Starts("init", << Step("EHLO"), Step("HELO") >>, <<>>)
Lhlo == lmtp /\ Simple("lhlo", "LHLO")

Mail == Simple("mail", "MAIL")
Rcpt(r) == Starts("rcpt", << [op |-> "RCPT", to |-> r] >>, <<>>)
Data == Simple("data", "DATA")

\* mailsmtp_data_message, maillmtp_data_message: the caller passes the list of
\* the recipients that mailsmtp_rcpt accepted.  With an empty list no answer is
\* read.
DataMessage ==
  /\ stream /\ call = Idle /\ result.fn = "data" /\ result.ok
  /\ \/ ~lmtp /\ Starts("data_message", << Step("BODY") >>, agreed)
     \/ lmtp /\ agreed # <<>> /\ Starts("lmtp_data_message", << Step("LBODY") >>, agreed)
     \/ /\ lmtp /\ agreed = <<>>
        /\ Sends(Step("BODY"))
        /\ result' = Returned("lmtp_data_message", TRUE, 0, <<>>, <<>>) /\ delivered' = <<>>
        /\ UNCHANGED <<sessionVars, call, toClient, serverVars, countVars, late>>

\* The transaction of the helpers up to the accepted DATA.
Envelope(rcpts) ==
  << Step("MAIL") >> \o [i \in DOMAIN rcpts |-> [op |-> "RCPT", to |-> rcpts[i]]]
                     \o << Step("DATA") >>

\* mailsmtp_send; mailesmtp_send, mailesmtp_send_quit and the variant that does
\* not disconnect.  On a session without ESMTP mailesmtp_send_mail does what
\* mailsmtp_send does, the text included, and its caller sends the text again.
SmtpSend(rcpts) == ~lmtp /\ Starts("send", Envelope(rcpts) \o << Step("BODY") >>, rcpts)

EsmtpSend(last, rcpts) ==
  /\ ~lmtp
  /\ IF esmtp THEN Starts("send", Envelope(rcpts) \o << Step(last) >>, rcpts)
     ELSE Starts("send_twice", Envelope(rcpts) \o << Step("BODY"), Step(last) >>, rcpts)

\* mailsmtp_auth and mailesmtp_auth_sasl; XOAUTH2; CLIENTID; STARTTLS.
Auth == esmtp /\ Simple("auth", "AUTH")
Oauth2 == Simple("auth", "XOAUTH2")
Clientid == esmtp /\ Simple("clientid", "CLIENTID")
Starttls == esmtp /\ Simple("starttls", "STARTTLS")

Noop == Simple("noop", "NOOP")
Reset == Simple("reset", "RSET")

\* mailsmtp_quit: the answer is not read, and it may be that the server has not
\* read the command.
Quit ==
  /\ stream /\ call = Idle
  /\ stream' = FALSE /\ server' = "closed"
  /\ toServer' = <<>> /\ toClient' = <<>> /\ result' = NoResult
  /\ UNCHANGED <<esmtp, agreed, call, lmtp, to, delivered, sent, countVars, late>>

-----------------------------------------------------------------------------
\* Answers.

\* A call ends; mailsmtp_connect closes a stream that did not greet,
\* mailsmtp_data_message_quit closes it always.
Returns(ok, code, codes) ==
  /\ result' = Returned(call.fn, ok, code, call.rcpts, codes)
  /\ call' = Idle
  /\ stream' = ~( \/ Head(call.steps).op = "BODYQUIT"
                  \/ Head(call.steps).op = "CONNECT" /\ ~ok )
  /\ toServer' = IF stream' THEN toServer ELSE <<>>
  /\ UNCHANGED sent

\* The next step of a call.
Continues(steps) ==
  /\ call' = [call EXCEPT !.steps = steps, !.num = sent + 1]
  /\ Sends(Head(steps))
  /\ UNCHANGED <<stream, result>>

\* maillmtp_data_message reads as many answers as its list is long.
AllRead_OneMore(codes) == Len(codes) > Len(call.rcpts)

AllRead(codes) == Len(codes) = Len(call.rcpts)

LmtpAnswered(code) ==
  LET codes == Append(call.codes, code)
  IN IF AllRead(codes)
     THEN Returns(\A i \in DOMAIN codes : codes[i] = 250, code, codes)
     ELSE /\ call' = [call EXCEPT !.codes = codes]
          /\ UNCHANGED <<stream, result, toServer, sent>>

\* A challenge: the SASL library answers, or the exchange is given up, without
\* a word to the server.  XOAUTH2 answers the first challenge only.
Challenged(op) ==
  \/ op \in {"AUTH", "RESPONSE"} /\ Continues(<< Step("RESPONSE") >>)
  \/ op = "XOAUTH2" /\ Continues(<< Step("TOKEN") >>)
  \/ op # "XOAUTH2" /\ Returns(FALSE, 334, <<>>)

\* The switch on the code after read_response, and what follows it.
Answered(code) ==
  LET op == Head(call.steps).op
      ok == code \in Accepts(op)
      rest == Tail(call.steps)
      challenge == code = 334 /\ op \in {"AUTH", "RESPONSE", "XOAUTH2", "TOKEN"}
  IN IF op = "LBODY"                           THEN LmtpAnswered(code)
     ELSE IF challenge                         THEN Challenged(op)
     ELSE IF (op = "EHLO") # ok /\ rest # <<>> THEN Continues(rest)
     ELSE Returns(ok, code, <<>>)

\* The session's flags, and the list that the caller keeps.
Noted(code) ==
  LET op == Head(call.steps).op
      ok == code \in Accepts(op)
  IN /\ esmtp' = CASE ok /\ op \in {"EHLO", "LHLO"} -> TRUE
                   [] ok /\ op = "HELO"             -> FALSE
                   [] OTHER                         -> esmtp
     /\ agreed' = CASE ok /\ op = "RCPT" -> Append(agreed, Head(call.steps).to)
                    [] ok /\ op \in {"EHLO", "HELO", "LHLO", "MAIL", "RSET", "STARTTLS"} -> <<>>
                    [] op \in {"BODY", "LBODY", "BODYQUIT", "BODYQUITKEEP"} /\ call' = Idle -> <<>>
                    [] OTHER -> agreed

\* Whether the step leaves something behind that no call will read: a QUIT
\* whose answer stays in the stream, the second text of a message, sent to a
\* server that waits for commands, a SASL exchange given up.
Leaves ==
  \/ Head(call.steps).op = "BODYQUITKEEP"
  \/ call.fn = "send_twice" /\ Tail(call.steps) = <<>>
  \/ call' = Idle /\ result'.fn = "auth" /\ result'.code = 334

\* read_response: the lines up to one without the continuation mark.
MoreLine_Not(line) == FALSE

MoreLine(line) == line.more

ReadMore ==
  /\ call # Idle
  /\ toClient # <<>> /\ MoreLine(Head(toClient))
  /\ toClient' = Tail(toClient)
  /\ UNCHANGED <<sessionVars, call, result, toServer, serverVars, delivered, sent, countVars, late>>

\* The code that the call goes by.  mailesmtp_starttls fails when there is more
\* in the read buffer than the answer; what is under way may be there or not.
Heard ==
  {Head(toClient).code} \cup
  (IF Head(call.steps).op = "STARTTLS" /\ Len(toClient) > 1 THEN {0} ELSE {})

ReadAnswer ==
  /\ call # Idle
  /\ toClient # <<>> /\ ~MoreLine(Head(toClient))
  /\ \E code \in Heard : Answered(code) /\ Noted(code)
  /\ toClient' = IF stream' THEN Tail(toClient) ELSE <<>>
  /\ server' = IF stream' THEN server ELSE "closed"
  /\ late' = (late \/ Leaves)
  /\ UNCHANGED <<lmtp, to, delivered, countVars>>

\* At the end of the stream, and when a read times out, the code is 0.  After
\* the time-out the stream stays, and the answer is still to come.
Eof == server = "closed" /\ toServer = <<>> /\ toClient = <<>>

NoAnswer ==
  /\ call # Idle /\ (Eof \/ timeouts < MaxTimeouts)
  /\ timeouts' = IF Eof THEN timeouts ELSE timeouts + 1
  /\ Answered(0) /\ Noted(0)
  /\ toClient' = IF stream' THEN toClient ELSE <<>>
  /\ server' = IF stream' THEN server ELSE "closed"
  /\ late' = (late \/ ~Eof)
  /\ UNCHANGED <<lmtp, to, delivered, connects>>

-----------------------------------------------------------------------------
\* The server, as the protocol has it: it takes the commands in order, answers
\* each one, and may close the connection.

One(of, code) == << Line(of, code, FALSE) >>

\* What the server may do with a command: its answer, where that leaves it, the
\* recipients of its transaction, and to whom it now delivers.
Does(answer, st, rs, gets) == [answer |-> answer, st |-> st, to |-> rs, gets |-> gets]
Refuses(of, codes) == {Does(One(of, code), server, to, {}) : code \in codes}
Greets(answer) == {Does(answer, "ready", <<>>, {})}
Two(of) == << Line(of, 250, TRUE), Line(of, 250, FALSE) >>

\* LMTP's answer to a text: a line for each recipient, those in gets accepted.
RcptLine(of, r, gets) == Line(of, IF r \in gets THEN 250 ELSE 550, FALSE)
Each(of, rs, gets) == [i \in DOMAIN rs |-> RcptLine(of, rs[i], gets)]

\* In a message: whatever comes is text, up to its end.
DataOutcomes(c, of) ==
  IF c.op # "BODY" THEN {Does(<<>>, server, to, {})}
  ELSE IF lmtp
  THEN {Does(Each(of, to, g), "ready", <<>>, g) : g \in SUBSET Range(to)}
  ELSE {Does(One(of, 250), "ready", <<>>, Range(to)), Does(One(of, 554), "ready", <<>>, {})}

\* In a SASL exchange: a response is accepted, refused or challenged again.
SaslOutcomes(c, of) ==
  {Does(One(of, 501), "ready", to, {})} \cup
  (IF c.op \in {"RESPONSE", "TOKEN"}
   THEN {Does(One(of, 235), "ready", to, {}), Does(One(of, 535), "ready", to, {})} \cup
        {Does(One(of, 334), "sasl", to, {}) : x \in 1..(MaxCommands - sent)}
   ELSE {})

CommandOutcomes(c, of) ==
  CASE c.op = "BODY" ->      \* every line of the text is a bad command
         {Does(One(of, 500) \o One(of, 500), server, to, {})}
    [] c.op = (IF lmtp THEN "LHLO" ELSE "EHLO") ->
         Refuses(of, {500}) \cup Greets(Two(of))
    [] c.op = "HELO" /\ ~lmtp -> Refuses(of, {550}) \cup Greets(One(of, 250))
    [] c.op = "MAIL" /\ server = "ready" ->
         Refuses(of, {451, 550}) \cup {Does(One(of, 250), "mail", <<>>, {})}
    [] c.op = "RCPT" /\ server = "mail" ->
         Refuses(of, {550}) \cup
         {Does(One(of, code), "mail", Append(to, c.to), {}) : code \in {250, 251}}
    [] c.op = "DATA" /\ server = "mail" ->
         IF to = <<>> THEN Refuses(of, {554})
         ELSE Refuses(of, {451}) \cup {Does(One(of, 354), "data", to, {})}
    [] c.op \in {"AUTH", "XOAUTH2"} /\ server = "ready" ->
         Refuses(of, {235, 535}) \cup {Does(One(of, 334), "sasl", to, {})}
    [] c.op = "STARTTLS" /\ server = "ready" ->
         Refuses(of, {454}) \cup {Does(One(of, 220), "new", <<>>, {})}
    [] c.op = "CLIENTID" /\ server = "ready" -> Refuses(of, {250, 501})
    [] c.op = "RSET" ->
         {Does(One(of, 250), IF server = "new" THEN "new" ELSE "ready", <<>>, {})}
    [] c.op = "NOOP" -> Refuses(of, {250})
    [] c.op = "QUIT" -> {Does(One(of, 221), "closed", <<>>, {})}
    [] OTHER -> Refuses(of, {503})

Outcomes(c, of) ==
  IF server = "data" THEN DataOutcomes(c, of)
  ELSE IF server = "sasl" THEN SaslOutcomes(c, of)
  ELSE CommandOutcomes(c, of)

Serve ==
  /\ toServer # <<>> /\ server # "closed"
  /\ \E o \in Outcomes(Head(toServer), sent - Len(toServer) + 1) :
       /\ toClient' = toClient \o o.answer
       /\ server' = o.st /\ to' = o.to
       /\ delivered' = IF o.gets = {} THEN delivered ELSE Append(delivered, o.gets)
  /\ toServer' = Tail(toServer)
  /\ UNCHANGED <<sessionVars, call, result, lmtp, sent, countVars, late>>

\* The server goes away; what it did not serve is lost.
Drop ==
  /\ stream /\ (server # "closed" \/ toServer # <<>>)
  /\ server' = "closed" /\ toServer' = <<>> /\ to' = <<>>
  /\ UNCHANGED <<sessionVars, call, result, toClient, lmtp, delivered, sent, countVars, late>>

Next ==
  \/ Connect \/ Init_ \/ Lhlo \/ Mail \/ Data \/ DataMessage
  \/ \E r \in Rcpts : Rcpt(r)
  \/ \E rcpts \in Lists : \/ SmtpSend(rcpts)
                          \/ EsmtpSend("BODY", rcpts)
                          \/ EsmtpSend("BODYQUIT", rcpts)
                          \/ EsmtpSend("BODYQUITKEEP", rcpts)
  \/ Auth \/ Oauth2 \/ Clientid \/ Starttls \/ Noop \/ Reset \/ Quit
  \/ ReadMore \/ ReadAnswer \/ NoAnswer
  \/ Serve \/ Drop

Spec == Init /\ [][Next]_vars

-----------------------------------------------------------------------------
Ops == {"CONNECT", "EHLO", "HELO", "LHLO", "MAIL", "RCPT", "DATA", "BODY", "LBODY", "BODYQUIT",
        "BODYQUITKEEP", "AUTH", "RESPONSE", "XOAUTH2", "TOKEN", "CLIENTID", "STARTTLS", "NOOP",
        "RSET", "QUIT"}

TypeOK ==
  /\ stream \in BOOLEAN /\ esmtp \in BOOLEAN /\ lmtp \in BOOLEAN /\ late \in BOOLEAN
  /\ agreed \in Seq(Rcpts) /\ to \in Seq(Rcpts)
  /\ call.steps \in Seq([op : Ops, to : Rcpts \cup {0}]) /\ (call = Idle) = (call.steps = <<>>)
  /\ toServer \in Seq([op : Ops, to : Rcpts \cup {0}])
  /\ toClient \in Seq([of : 1..sent, code : Codes, more : BOOLEAN])
  /\ server \in {"new", "ready", "mail", "data", "sasl", "closed"}
  /\ delivered \in Seq(SUBSET Rcpts)

\* As long as no read has timed out and no call has left an answer behind
\* (Leaves), every call reads the answer to its own command, all of its lines
\* and nothing else, and between two calls nothing is under way.
InStep ==
  /\ TypeOK
  /\ ~late => /\ (call # Idle /\ toClient # <<>>) => Head(toClient).of = call.num
              /\ (call = Idle /\ stream) => toClient = <<>> /\ toServer = <<>>

\* In such a session no call waits for an answer that nobody will send:
\* maillmtp_data_message, too, gets one for every recipient of its list.
NoMutualWait ==
  ~late /\ call # Idle => toServer # <<>> \/ toClient # <<>> \/ server = "closed"

Sending == {"send", "send_twice", "data_message", "lmtp_data_message"}

\* What the last call says of its message, and what became of it.
Reported ==
  LET all == << Range(result.rcpts) >>
  IN /\ UNION Range(delivered) \subseteq Range(result.rcpts)
     /\ result.fn \in {"send", "data_message"} /\ result.code # 0 =>
          delivered = IF result.ok THEN all ELSE <<>>
     /\ result.fn = "send_twice" => ~result.ok /\ delivered \in {<<>>, all}
     /\ result.fn = "lmtp_data_message" =>
          \A i \in DOMAIN result.rcpts : result.codes[i] # 0 =>
            (result.codes[i] = 250) = (result.rcpts[i] \in UNION Range(delivered))

\* In a session that was such up to its return, a call that sends a message
\* tells the truth.  If it got its answer, success means that the server took
\* the message once and for exactly the recipients of the call, also after a
\* send that failed half-way and left its transaction open; failure means that
\* it did not take it.  LMTP's code for a recipient says whether that recipient
\* gets it.  When the answer did not come, or not in time, nobody else gets it.
\* The exception is mailesmtp_send, and its variants, on a session without
\* ESMTP, where the text goes out twice (mailsmtp_helper.c:79): such a call
\* never succeeds, although the server may have taken the message, once and for
\* exactly its recipients.
SendReported ==
  [][~late /\ result' # result /\ result'.fn \in Sending => Reported']_vars
=============================================================================
