----------------------------- MODULE SmtpProofs -----------------------------
(***************************************************************************)
(* The properties of an SMTP or LMTP session, for any recipients, lists of *)
(* recipients, commands, timeouts and connections.                         *)
(***************************************************************************)
EXTENDS Smtp, SequenceTheorems, TLAPS

StepSet == {s \in [op : Ops, to : Rcpts \cup {0}] : s.op = "RCPT" => s.to \in Rcpts}
Results == Codes \cup {0}
Fns == {"none", "connect", "init", "lhlo", "mail", "rcpt", "data", "data_message",
        "lmtp_data_message", "send", "send_twice", "auth", "clientid", "starttls", "noop", "reset"}
Calls == [fn : Fns, steps : Seq(StepSet), num : Nat, rcpts : Seq(Rcpts), codes : Seq(Results)]
Returneds == [fn : Fns, ok : BOOLEAN, code : Results, rcpts : Seq(Rcpts), codes : Seq(Results)]
Lines == [of : Nat, code : Codes, more : BOOLEAN]
Places == {"new", "ready", "mail", "data", "sasl", "closed"}

\* The types, those of the call, of its result and of the lines included.
Typed ==
  /\ stream \in BOOLEAN /\ esmtp \in BOOLEAN /\ lmtp \in BOOLEAN /\ late \in BOOLEAN
  /\ agreed \in Seq(Rcpts) /\ to \in Seq(Rcpts)
  /\ call \in Calls /\ (call = Idle <=> call.steps = <<>>)
  /\ result \in Returneds
  /\ toServer \in Seq(StepSet) /\ toClient \in Seq(Lines)
  /\ server \in Places
  /\ delivered \in Seq(SUBSET Rcpts)
  /\ sent \in Nat

\* The lines under way answer commands of this connection.
Numbered ==
  /\ Len(toServer) <= sent
  /\ \A p \in 1..Len(toClient) : 1 <= toClient[p].of /\ toClient[p].of <= sent

-----------------------------------------------------------------------------
Quits == {"BODYQUIT", "BODYQUITKEEP"}
Texts == {"BODY"} \cup Quits
AuthOps == {"AUTH", "RESPONSE", "XOAUTH2", "TOKEN"}
ClearOps == {"EHLO", "HELO", "LHLO", "MAIL", "RSET", "STARTTLS"}

Op == call.steps[1].op
Single == Len(call.steps) = 1

\* What the sending helpers do in their q-th step.
OnPlan(s, rcpts, q) ==
  IF q = 1 THEN s.op = "MAIL"
  ELSE IF q <= Len(rcpts) + 1 THEN s.op = "RCPT" /\ s.to = rcpts[q - 1]
  ELSE IF q = Len(rcpts) + 2 THEN s.op = "DATA"
  ELSE s.op \in Texts

\* The steps of a helper that has done p of them: its last one is a text, and
\* another text before it does not close the connection.
Plan(steps, rcpts, p) ==
  /\ \A i \in 1..Len(steps) : OnPlan(steps[i], rcpts, p + i)
  /\ \A i \in 1..(Len(steps) - 1) : steps[i].op \notin Quits
  /\ p + Len(steps) > Len(rcpts) + 2

\* The recipients accepted when p steps are done.
Enlisted(list, rcpts, p) ==
  /\ p >= 1 /\ p <= Len(rcpts) + 1 =>
       Len(list) = p - 1 /\ \A i \in 1..(p - 1) : list[i] = rcpts[i]
  /\ p = Len(rcpts) + 2 => list = rcpts

\* The commands of a function.
SendShape ==
  /\ ~lmtp
  /\ \E p \in Nat : /\ Plan(call.steps, call.rcpts, p)
                    /\ Enlisted(agreed, call.rcpts, p)
                    /\ p + Len(call.steps) = Len(call.rcpts) + (IF call.fn = "send" THEN 3 ELSE 4)
InitShape == \/ Op = "EHLO" /\ Len(call.steps) = 2 /\ call.steps[2].op = "HELO"
             \/ Op = "HELO" /\ Single

\* The function that has just this command to do.
FnOf(op, fn) ==
  CASE op = "DATA"    -> fn = "data"
    [] op = "BODY"    -> fn = "data_message" /\ ~lmtp
    [] op = "LBODY"   -> fn = "lmtp_data_message" /\ lmtp
    [] op = "CONNECT" -> fn = "connect"
    [] op \in AuthOps -> fn = "auth"
    [] OTHER          -> /\ op \in {"LHLO", "MAIL", "RCPT", "CLIENTID", "STARTTLS", "NOOP", "RSET"}
                         /\ fn \in {"lhlo", "mail", "rcpt", "clientid", "starttls", "noop", "reset"}

Shape ==
  /\ call.fn \in {"send", "send_twice"} => SendShape
  /\ call.fn = "init" => InitShape
  /\ call.fn \notin {"send", "send_twice", "init"} => Single /\ FnOf(Op, call.fn)
  /\ Op # "LBODY" => call.codes = <<>>
  /\ Op = "LBODY" => Len(call.codes) < Len(call.rcpts)

Structured ==
  /\ ~stream => call = Idle /\ toServer = <<>> /\ toClient = <<>>
  /\ server = "data" => to # <<>>
  /\ call # Idle => Shape

-----------------------------------------------------------------------------
\* The server reads the command as it was meant.
Fits(op, st) ==
  CASE op \in Texts \cup {"LBODY"}  -> st = "data"
    [] op \in {"RESPONSE", "TOKEN"} -> st = "sasl"
    [] OTHER                        -> st \notin {"data", "sasl"}

\* The command is under way.
Asked ==
  /\ toServer = Wire(call.steps[1]) /\ toClient = <<>>
  /\ call.num + Len(toServer) = sent + 1
  /\ server # "closed" => Fits(Op, server) /\ agreed = to
  /\ Op \in Texts \cup {"LBODY"} => agreed = call.rcpts
  /\ Op # "CONNECT" /\ delivered = <<>> /\ call.codes = <<>>

\* The list the caller has when it has read the code.
NotedTo(s, code, list) ==
  IF s.op = "RCPT" /\ code \in Accepts("RCPT") THEN Append(list, s.to)
  ELSE IF (s.op \in ClearOps /\ code \in Accepts(s.op)) \/ s.op \in Texts THEN <<>>
  ELSE list

\* The server has answered the step with the code.
Verdict(code) ==
  /\ server = "data" => Op = "DATA" /\ code = 354
  /\ server = "sasl" => Op \in AuthOps /\ code = 334
  /\ Op = "DATA" /\ code = 354 => server \in {"data", "closed"} /\ agreed # <<>>
  /\ Op \in AuthOps /\ code = 334 => server \in {"sasl", "closed"}
  /\ server # "closed" => to = NotedTo(call.steps[1], code, agreed)
  /\ delivered = IF Op \in Texts /\ code = 250 THEN << Range(call.rcpts) >> ELSE <<>>

\* The answer is under way: its last line is the k-th, and nothing is behind it
\* but the QUIT or the answer to it.
LastLine(k) ==
  /\ k <= Len(toClient) /\ toClient[1].of = call.num /\ toClient[k].of = call.num
  /\ ~toClient[k].more /\ Verdict(toClient[k].code)
  /\ Op \notin Quits => toServer = <<>> /\ Len(toClient) = k

Served ==
  /\ Op # "LBODY" /\ toClient # <<>>
  /\ IF toClient[1].more THEN Op \notin Quits /\ LastLine(2) ELSE LastLine(1)
  /\ toServer # <<>> => toServer = << Step("QUIT") >>

Gets == UNION Range(delivered)

\* The answers to a text over LMTP are under way, some of them already read: one
\* for each recipient.
ServedEach ==
  /\ Op = "LBODY" /\ toServer = <<>> /\ toClient # <<>>
  /\ server \notin {"data", "sasl"} /\ (server # "closed" => to = <<>>)
  /\ Len(call.codes) + Len(toClient) = Len(call.rcpts)
  /\ \A i \in 1..Len(toClient) :
       /\ toClient[i].of = call.num /\ ~toClient[i].more
       /\ toClient[i].code = 250 <=> call.rcpts[Len(call.codes) + i] \in Gets
  /\ \A i \in 1..Len(call.codes) : call.codes[i] = 250 <=> call.rcpts[i] \in Gets
  /\ Gets \subseteq Range(call.rcpts)

\* The connection is gone, and the command or its answer with it.
Lost ==
  /\ server = "closed" /\ toServer = <<>> /\ toClient = <<>> /\ delivered = <<>>
  /\ \A i \in 1..Len(call.codes) : call.codes[i] = 0

\* A message was accepted, and its text is sent again: every line of it is a bad
\* command.
Again == call.fn = "send_twice" /\ Single
Repeated ==
  /\ delivered = << Range(call.rcpts) >> /\ server \notin {"data", "sasl"}
  /\ \/ toServer = Wire(call.steps[1]) /\ toClient = <<>> /\ call.num + Len(toServer) = sent + 1
     \/ /\ toClient # <<>> /\ toClient[1].of = call.num /\ toClient[1].code = 500
        /\ ~toClient[1].more /\ (toServer = <<>> \/ toServer = << Step("QUIT") >>)
     \/ toServer = <<>> /\ toClient = <<>> /\ server = "closed"

\* Between two calls nothing is under way, and the server waits for the text of
\* a message only after mailsmtp_data.
DataDone == result.fn = "data" /\ result.ok
Quiet ==
  /\ toServer = <<>> /\ toClient = <<>> /\ server # "sasl"
  /\ server = "data" => DataDone
  /\ DataDone => server \in {"data", "closed"} /\ agreed # <<>>
  /\ server # "closed" => agreed = to

Phase ==
  ~late => /\ call # Idle => IF Again THEN Repeated ELSE Asked \/ Served \/ ServedEach \/ Lost
           /\ call = Idle /\ stream => Quiet

SmtpInv == Typed /\ Numbered /\ Structured /\ Phase

-----------------------------------------------------------------------------
LEMMA TailFacts ==
  ASSUME NEW S, NEW s \in Seq(S), s # <<>>
  PROVE  /\ Tail(s) \in Seq(S) /\ Len(Tail(s)) = Len(s) - 1 /\ Len(s) \in Nat \ {0}
         /\ Head(s) = s[1] /\ s[1] \in S
         /\ \A p \in 1..(Len(s) - 1) : Tail(s)[p] = s[p + 1]
  OBVIOUS

LEMMA AppendFacts ==
  ASSUME NEW S, NEW s \in Seq(S), NEW e \in S
  PROVE  /\ Append(s, e) \in Seq(S) /\ Len(Append(s, e)) = Len(s) + 1 /\ Len(s) \in Nat
         /\ \A p \in 1..Len(s) : Append(s, e)[p] = s[p]
         /\ Append(s, e)[Len(s) + 1] = e
  OBVIOUS

LEMMA ConcatFacts ==
  ASSUME NEW S, NEW s \in Seq(S), NEW t \in Seq(S)
  PROVE  /\ s \o t \in Seq(S) /\ Len(s \o t) = Len(s) + Len(t)
         /\ Len(s) \in Nat /\ Len(t) \in Nat
         /\ \A p \in 1..Len(s) : (s \o t)[p] = s[p]
         /\ \A p \in 1..Len(t) : (s \o t)[Len(s) + p] = t[p]
         /\ \A p \in (Len(s) + 1)..(Len(s) + Len(t)) : (s \o t)[p] = t[p - Len(s)]
  OBVIOUS

\* A sequence is empty when its length is 0, and one that ends after its first
\* element has an empty tail.
LEMMA EmptyFacts ==
  ASSUME NEW S, NEW s \in Seq(S)
  PROVE  /\ s = <<>> <=> Len(s) = 0
         /\ s # <<>> => (Tail(s) = <<>> <=> Len(s) = 1)
         /\ Len(s) \in Nat
<1>1. Len(s) \in Nat /\ (s = <<>> <=> Len(s) = 0)
  BY EmptySeq, LenProperties
<1>2. ASSUME s # <<>>
      PROVE  Tail(s) = <<>> <=> Len(s) = 1
  <2>1. Tail(s) \in Seq(S) /\ Len(Tail(s)) = Len(s) - 1
    BY <1>2
  <2>2. Tail(s) = <<>> <=> Len(Tail(s)) = 0
    BY <2>1, EmptySeq
  <2>3. QED
    BY <1>1, <2>1, <2>2
<1>3. QED
  BY <1>1, <1>2

LEMMA StepFacts ==
  ASSUME NEW op \in Ops, op # "RCPT"
  PROVE  Step(op) \in StepSet /\ Step(op).op = op /\ << Step(op) >> \in Seq(StepSet)
BY DEF Step, StepSet

LEMMA WireFacts ==
  ASSUME NEW s \in StepSet
  PROVE  /\ Wire(s) \in Seq(StepSet) /\ Wire(s) # <<>> /\ Len(Wire(s)) \in {1, 2}
         /\ s.op \notin Texts \cup {"LBODY"} => Wire(s) = << s >>
         /\ s.op \in {"BODY", "LBODY"} => Wire(s) = << Step("BODY") >>
         /\ s.op \in Quits => Wire(s) = << Step("BODY"), Step("QUIT") >>
<1>1. Step("BODY") \in StepSet /\ Step("QUIT") \in StepSet
  BY StepFacts DEF Ops
<1>2. CASE s.op \in {"BODY", "LBODY"}
  <2>1. Wire(s) = << Step("BODY") >>
    BY <1>2 DEF Wire
  <2>2. QED
    BY <1>1, <1>2, <2>1 DEF Quits, Texts
<1>3. CASE s.op \in Quits
  <2>1. Wire(s) = << Step("BODY"), Step("QUIT") >>
    BY <1>3 DEF Wire, Quits
  <2>2. QED
    BY <1>1, <1>3, <2>1 DEF Quits, Texts
<1>4. CASE s.op \notin Texts \cup {"LBODY"}
  <2>1. Wire(s) = << s >>
    BY <1>4 DEF Wire, Quits, Texts
  <2>2. QED
    BY <1>4, <2>1 DEF Quits, Texts
<1>5. QED
  BY <1>2, <1>3, <1>4 DEF Quits, Texts

\* The codes that a step takes for success.
LEMMA AcceptFacts ==
  /\ Accepts("CONNECT") = {220} /\ Accepts("STARTTLS") = {220}
  /\ Accepts("RCPT") = {250, 251} /\ Accepts("DATA") = {354}
  /\ Accepts("NOOP") = Codes /\ Accepts("RSET") = Codes
  /\ \A op \in {"EHLO", "HELO", "LHLO", "MAIL", "CLIENTID", "LBODY"} \cup Texts : Accepts(op) = {250}
  /\ \A op \in Ops : 0 \notin Accepts(op)
<1>1. 0 \notin Codes
  BY DEF Codes
<1>2. \A op \in {"AUTH", "RESPONSE"} : 0 \notin Accepts(op)
  BY <1>1 DEF Accepts
<1>3. \A op \in {"XOAUTH2", "TOKEN"} : 0 \notin Accepts(op)
  BY DEF Accepts
<1>4. \A op \in {"EHLO", "HELO", "LHLO", "MAIL", "CLIENTID", "LBODY", "QUIT"} \cup Texts : Accepts(op) = {250}
  BY DEF Accepts, Texts, Quits
<1>5. /\ Accepts("CONNECT") = {220} /\ Accepts("STARTTLS") = {220}
      /\ Accepts("RCPT") = {250, 251} /\ Accepts("DATA") = {354}
      /\ Accepts("NOOP") = Codes /\ Accepts("RSET") = Codes
  BY DEF Accepts
<1>6. QED
  BY <1>1, <1>2, <1>3, <1>4, <1>5 DEF Ops, Texts, Quits

LEMMA IdleFacts ==
  /\ Idle \in Calls /\ Idle.steps = <<>> /\ Idle.fn = "none"
  /\ NoResult \in Returneds /\ NoResult.fn = "none"
BY DEF Idle, Calls, Fns, NoResult, Returned, Returneds, Results

LEMMA CallFacts ==
  ASSUME Typed, call # Idle
  PROVE  /\ call.steps \in Seq(StepSet) /\ call.steps # <<>> /\ call.steps[1] \in StepSet
         /\ Op \in Ops /\ call.steps[1].to \in Rcpts \cup {0} /\ Head(call.steps) = call.steps[1]
         /\ Len(call.steps) \in Nat \ {0} /\ call.rcpts \in Seq(Rcpts) /\ call.codes \in Seq(Results)
         /\ call.num \in Nat /\ call.fn \in Fns
<1>1. call \in Calls /\ call.steps # <<>>
  BY DEF Typed
<1>2. call.steps \in Seq(StepSet) /\ call.rcpts \in Seq(Rcpts) /\ call.codes \in Seq(Results)
        /\ call.num \in Nat /\ call.fn \in Fns
  BY <1>1 DEF Calls
<1>3. call.steps[1] \in StepSet /\ Head(call.steps) = call.steps[1] /\ Len(call.steps) \in Nat \ {0}
  BY <1>1, <1>2, TailFacts
<1>4. QED
  BY <1>1, <1>2, <1>3 DEF StepSet, Op

LEMMA DoingFacts ==
  ASSUME Typed, NEW fn \in Fns, NEW steps \in Seq(StepSet), NEW rcpts \in Seq(Rcpts), steps # <<>>,
         NEW c, c = Doing(fn, steps, rcpts)
  PROVE  /\ c \in Calls /\ c # Idle /\ c.fn = fn /\ c.steps = steps
         /\ c.rcpts = rcpts /\ c.codes = <<>> /\ c.num = sent + 1
BY IdleFacts DEF Doing, Calls, Typed

\* A step goes out behind what is under way.
LEMMA SendsFacts ==
  ASSUME Typed, Numbered, NEW s \in StepSet, Sends(s)
  PROVE  /\ toServer' \in Seq(StepSet) /\ sent' \in Nat /\ sent' >= sent
         /\ Len(toServer') <= sent'
         /\ toServer = <<>> => toServer' = Wire(s)
         /\ sent' = sent + Len(Wire(s))
<1>1. Wire(s) \in Seq(StepSet) /\ Len(Wire(s)) \in Nat
  BY WireFacts
<1>2. toServer \in Seq(StepSet) /\ sent \in Nat /\ Len(toServer) <= sent
  BY DEF Typed, Numbered
<1>3. toServer' = toServer \o Wire(s) /\ sent' = sent + Len(Wire(s))
  BY DEF Sends
<1>4. toServer' \in Seq(StepSet) /\ Len(toServer') = Len(toServer) + Len(Wire(s)) /\ Len(toServer) \in Nat
  BY <1>1, <1>2, <1>3, ConcatFacts
<1>5. toServer = <<>> => toServer' = Wire(s)
  BY <1>1, <1>3
<1>6. QED
  BY <1>1, <1>2, <1>3, <1>4, <1>5

LEMMA LineFacts ==
  ASSUME Typed
  PROVE  /\ Len(toClient) \in Nat
         /\ \A p \in 1..Len(toClient) : /\ toClient[p] \in Lines /\ toClient[p].of \in Nat
                                        /\ toClient[p].code \in Codes /\ toClient[p].more \in BOOLEAN
<1>1. toClient \in Seq(Lines)
  BY DEF Typed
<1>2. \A p \in 1..Len(toClient) : toClient[p] \in Lines
  BY <1>1
<1>3. QED
  BY <1>1, <1>2 DEF Lines

\* A call starts.
LEMMA StartsInv ==
  ASSUME SmtpInv, NEW fn \in Fns, NEW steps \in Seq(StepSet), NEW rcpts \in Seq(Rcpts),
         steps # <<>>, Starts(fn, steps, rcpts), Shape',
         steps[1].op \notin {"CONNECT", "RESPONSE", "TOKEN"},
         steps[1].op \in Texts \cup {"LBODY"} => DataDone /\ rcpts = agreed,
         fn \in {"data_message", "lmtp_data_message"} => steps[1].op \in Texts \cup {"LBODY"},
         fn = "send_twice" => Len(steps) # 1
  PROVE  SmtpInv'
<1> USE DEF SmtpInv
<1>1. stream /\ call = Idle /\ call' = Doing(fn, steps, rcpts) /\ Sends(steps[1]) /\ result' = NoResult
        /\ delivered' = <<>> /\ UNCHANGED <<sessionVars, toClient, serverVars, countVars, late>>
  BY DEF Starts
<1>2. /\ call' \in Calls /\ call' # Idle /\ call'.fn = fn /\ call'.steps = steps
      /\ call'.rcpts = rcpts /\ call'.codes = <<>> /\ call'.num = sent + 1
  BY <1>1, DoingFacts
<1>3. steps[1] \in StepSet
  BY TailFacts
<1>4. /\ toServer' \in Seq(StepSet) /\ sent' \in Nat /\ sent' >= sent /\ Len(toServer') <= sent'
      /\ (toServer = <<>> => toServer' = Wire(steps[1])) /\ sent' = sent + Len(Wire(steps[1]))
  BY <1>1, <1>3, SendsFacts
<1>5. Typed'
  <2>1. result' \in Returneds
    BY <1>1, IdleFacts
  <2>2. delivered' \in Seq(SUBSET Rcpts)
    BY <1>1
  <2>3. call' = Idle <=> call'.steps = <<>>
    BY <1>2
  <2>4. QED
    BY <1>1, <1>2, <1>4, <2>1, <2>2, <2>3 DEF Typed, sessionVars, serverVars
<1>6. Numbered'
  <2>1. sent \in Nat /\ \A p \in 1..Len(toClient) : toClient[p].of \in Nat
    BY LineFacts DEF Typed
  <2>2. QED
    BY <1>1, <1>4, <2>1 DEF Numbered
<1>7. Structured'
  BY <1>1, <1>2 DEF Structured, Typed, sessionVars, serverVars
<1>8. ASSUME ~late'
      PROVE  Asked'
  <2>1. Quiet /\ (DataDone => fn \in {"data_message", "lmtp_data_message"})
    BY <1>1, <1>8 DEF Phase, Starts, DataDone
  <2>2. toServer' = Wire(steps[1]) /\ toClient' = <<>>
    BY <1>1, <1>4, <2>1 DEF Quiet
  <2>3. call'.num + Len(toServer') = sent' + 1
    <3>1. Len(Wire(steps[1])) \in {1, 2} /\ sent \in Nat
      BY <1>3, WireFacts DEF Typed
    <3>2. QED
      BY <1>2, <1>4, <2>2, <3>1
  <2>4. server # "closed" => Fits(steps[1].op, server) /\ agreed = to
    <3>1. server # "closed" => (server = "data" <=> DataDone) /\ server # "sasl" /\ agreed = to
      BY <2>1 DEF Quiet
    <3>2. DataDone <=> steps[1].op \in Texts \cup {"LBODY"}
      BY <2>1
    <3>3. QED
      BY <3>1, <3>2 DEF Fits
  <2>5. QED
    BY <1>1, <1>2, <2>2, <2>3, <2>4 DEF Asked, Op, sessionVars, serverVars
<1>9. Phase'
  BY <1>2, <1>8 DEF Phase, Again, Single
<1>10. QED
  BY <1>5, <1>6, <1>7, <1>9

\* A call of a single command.
LEMMA SingleInv ==
  ASSUME SmtpInv, NEW fn \in Fns, NEW s \in StepSet, NEW rcpts \in Seq(Rcpts),
         Starts(fn, << s >>, rcpts), FnOf(s.op, fn), fn \notin {"send", "send_twice", "init"},
         s.op \notin {"CONNECT", "RESPONSE", "TOKEN"},
         s.op \in Texts \cup {"LBODY"} => DataDone /\ rcpts = agreed,
         s.op = "LBODY" => rcpts # <<>>
  PROVE  SmtpInv'
<1>1. << s >> \in Seq(StepSet) /\ << s >> # <<>> /\ << s >>[1] = s /\ Len(<< s >>) = 1
  OBVIOUS
<1>2. PICK steps \in Seq(StepSet) : steps = << s >>
  BY <1>1
<1>3. /\ call'.fn = fn /\ call'.steps = << s >> /\ call'.codes = <<>> /\ call'.rcpts = rcpts
      /\ lmtp' = lmtp
  <2>1. Typed /\ lmtp' = lmtp /\ call' = Doing(fn, steps, rcpts) /\ steps # <<>>
    BY <1>1, <1>2 DEF SmtpInv, Starts, serverVars
  <2>2. call'.fn = fn /\ call'.steps = steps /\ call'.codes = <<>> /\ call'.rcpts = rcpts
    BY <2>1, DoingFacts
  <2>3. QED
    BY <1>2, <2>1, <2>2
<1>4. s.op = "LBODY" => Len(call'.codes) < Len(call'.rcpts)
  BY <1>3, EmptyFacts
<1>5. FnOf(s.op, fn)'
  BY <1>3 DEF FnOf
<1>6. Shape'
  BY <1>1, <1>3, <1>4, <1>5 DEF Shape, Op, Single
<1>7. fn \in {"data_message", "lmtp_data_message"} => s.op \in Texts \cup {"LBODY"}
  BY DEF FnOf, Texts, Quits, AuthOps
<1>8. QED
  BY <1>1, <1>6, <1>7, StartsInv

LEMMA SimpleInv ==
  ASSUME SmtpInv, NEW fn \in Fns, NEW op \in Ops, Simple(fn, op), FnOf(op, fn),
         fn \notin {"send", "send_twice", "init"}, op # "RCPT",
         op \notin {"CONNECT", "RESPONSE", "TOKEN", "LBODY"} \cup Texts
  PROVE  SmtpInv'
<1>1. Step(op) \in StepSet /\ Step(op).op = op /\ <<>> \in Seq(Rcpts)
  BY StepFacts
<1>2. Starts(fn, << Step(op) >>, <<>>)
  BY DEF Simple
<1>3. QED
  BY <1>1, <1>2, SingleInv

LEMMA InitInv ==
  ASSUME SmtpInv, Init_
  PROVE  SmtpInv'
<1>1. PICK steps : steps = << Step("EHLO"), Step("HELO") >>
  OBVIOUS
<1>2. /\ steps \in Seq(StepSet) /\ steps # <<>> /\ Len(steps) = 2
      /\ steps[1].op = "EHLO" /\ steps[2].op = "HELO"
  <2>1. /\ Step("EHLO") \in StepSet /\ Step("HELO") \in StepSet
        /\ Step("EHLO").op = "EHLO" /\ Step("HELO").op = "HELO"
    BY StepFacts DEF Ops
  <2>2. QED
    BY <1>1, <2>1
<1>3. PICK rcpts : rcpts = <<>>
  OBVIOUS
<1>4. PICK fn : fn = "init"
  OBVIOUS
<1>5. fn \in Fns /\ rcpts \in Seq(Rcpts) /\ Starts(fn, steps, rcpts)
  BY <1>1, <1>3, <1>4 DEF Fns, Init_
<1>6. call'.fn = "init" /\ call'.steps = steps /\ call'.codes = <<>>
  <2>1. Typed /\ call' = Doing(fn, steps, rcpts)
    BY <1>5 DEF SmtpInv, Starts
  <2>2. call'.fn = fn /\ call'.steps = steps /\ call'.codes = <<>>
    BY <1>2, <1>5, <2>1, DoingFacts
  <2>3. QED
    BY <1>4, <2>2
<1>7. Shape'
  BY <1>2, <1>6 DEF Shape, Op, InitShape
<1>8. QED
  BY <1>2, <1>4, <1>5, <1>7, StartsInv DEF Texts, Quits

LEMMA DataMessageInv ==
  ASSUME SmtpInv, DataMessage
  PROVE  SmtpInv'
<1>1. agreed \in Seq(Rcpts) /\ DataDone /\ Typed /\ {"data_message", "lmtp_data_message"} \subseteq Fns
  BY DEF SmtpInv, Typed, DataMessage, DataDone, Fns
<1>2. CASE ~lmtp /\ Starts("data_message", << Step("BODY") >>, agreed)
  <2>1. Step("BODY") \in StepSet /\ Step("BODY").op = "BODY"
    BY StepFacts DEF Ops
  <2>2. FnOf("BODY", "data_message")
    BY <1>2 DEF FnOf, AuthOps
  <2>3. QED
    BY <1>1, <1>2, <2>1, <2>2, SingleInv
<1>3. CASE lmtp /\ agreed # <<>> /\ Starts("lmtp_data_message", << Step("LBODY") >>, agreed)
  <2>1. Step("LBODY") \in StepSet /\ Step("LBODY").op = "LBODY"
    BY StepFacts DEF Ops
  <2>2. FnOf("LBODY", "lmtp_data_message")
    BY <1>3 DEF FnOf, AuthOps
  <2>3. QED
    BY <1>1, <1>3, <2>1, <2>2, SingleInv
<1>4. CASE /\ lmtp /\ agreed = <<>> /\ Sends(Step("BODY"))
           /\ result' = Returned("lmtp_data_message", TRUE, 0, <<>>, <<>>) /\ delivered' = <<>>
           /\ UNCHANGED <<sessionVars, call, toClient, serverVars, countVars, late>>
  <2>1. Step("BODY") \in StepSet
    BY StepFacts DEF Ops
  <2>2. /\ toServer' \in Seq(StepSet) /\ sent' \in Nat /\ sent' >= sent /\ Len(toServer') <= sent'
    BY <1>1, <1>4, <2>1, SendsFacts DEF SmtpInv
  <2>3. Typed'
    <3>1. result' \in Returneds /\ delivered' \in Seq(SUBSET Rcpts)
      BY <1>4 DEF Returned, Returneds, Fns, Results
    <3>2. QED
      BY <1>1, <1>4, <2>2, <3>1 DEF Typed, sessionVars, serverVars
  <2>4. Numbered'
    <3>1. sent \in Nat /\ \A p \in 1..Len(toClient) : toClient[p].of \in Nat
      BY <1>1, LineFacts DEF Typed
    <3>2. QED
      BY <1>4, <2>2, <3>1 DEF SmtpInv, Numbered
  <2>5. call = Idle /\ stream
    BY DEF DataMessage
  <2>6. late
    BY <1>1, <1>4, <2>5 DEF SmtpInv, Phase, Quiet
  <2>7. Structured'
    BY <1>4, <2>5 DEF SmtpInv, Structured, sessionVars, serverVars
  <2>8. QED
    BY <1>4, <2>3, <2>4, <2>6, <2>7 DEF SmtpInv, Phase
<1>5. QED
  BY <1>2, <1>3, <1>4 DEF DataMessage

\* The plan of a sending helper: the envelope, and one or two texts.
LEMMA EnvelopeFacts ==
  ASSUME NEW rcpts \in Seq(Rcpts)
  PROVE  /\ Envelope(rcpts) \in Seq(StepSet) /\ Len(Envelope(rcpts)) = Len(rcpts) + 2
         /\ \A i \in 1..(Len(rcpts) + 2) : OnPlan(Envelope(rcpts)[i], rcpts, i)
<1>1. PICK mail : mail = << Step("MAIL") >>
  OBVIOUS
<1>2. PICK data : data = << Step("DATA") >>
  OBVIOUS
<1>3. PICK rs : rs = [i \in DOMAIN rcpts |-> [op |-> "RCPT", to |-> rcpts[i]]]
  OBVIOUS
<1>4. /\ mail \in Seq(StepSet) /\ Len(mail) = 1 /\ mail[1].op = "MAIL"
      /\ data \in Seq(StepSet) /\ Len(data) = 1 /\ data[1].op = "DATA"
  BY <1>1, <1>2, StepFacts DEF Ops
<1>5. /\ rs \in Seq(StepSet) /\ Len(rs) = Len(rcpts) /\ Len(rcpts) \in Nat
      /\ \A i \in 1..Len(rcpts) : rs[i].op = "RCPT" /\ rs[i].to = rcpts[i]
  <2>1. Len(rcpts) \in Nat /\ DOMAIN rcpts = 1..Len(rcpts) /\ \A i \in 1..Len(rcpts) : rcpts[i] \in Rcpts
    OBVIOUS
  <2>2. \A i \in 1..Len(rcpts) : [op |-> "RCPT", to |-> rcpts[i]] \in StepSet
    BY <2>1 DEF StepSet, Ops
  <2>3. rs \in [1..Len(rcpts) -> StepSet]
    BY <1>3, <2>1, <2>2
  <2>4. QED
    BY <1>3, <2>1, <2>3
<1>6. PICK n \in Nat : n = Len(rcpts)
  BY <1>5
<1>7. PICK front : front = mail \o rs
  OBVIOUS
<1>8. /\ front \in Seq(StepSet) /\ Len(front) = n + 1 /\ front[1].op = "MAIL"
      /\ \A i \in 2..(n + 1) : front[i].op = "RCPT" /\ front[i].to = rcpts[i - 1]
  <2>1. /\ front \in Seq(StepSet) /\ Len(front) = Len(mail) + Len(rs)
        /\ \A i \in 1..Len(mail) : front[i] = mail[i]
        /\ \A i \in (Len(mail) + 1)..(Len(mail) + Len(rs)) : front[i] = rs[i - Len(mail)]
    <3>1. mail \in Seq(StepSet) /\ rs \in Seq(StepSet)
      BY <1>4, <1>5
    <3>2. QED
      BY <1>7, <3>1, ConcatFacts
  <2>2. Len(mail) = 1 /\ Len(rs) = n
    BY <1>4, <1>5, <1>6
  <2>3. Len(front) = n + 1 /\ front[1] = mail[1] /\ \A i \in 2..(n + 1) : front[i] = rs[i - 1]
    <3>1. Len(front) = 1 + n
      BY <2>1, <2>2
    <3>2. front[1] = mail[1]
      BY <2>1, <2>2
    <3>3. \A i \in (1 + 1)..(1 + n) : front[i] = rs[i - 1]
      BY <2>1, <2>2
    <3>4. QED
      BY <3>1, <3>2, <3>3
  <2>4. \A i \in 2..(n + 1) : i - 1 \in 1..n
    OBVIOUS
  <2>5. \A i \in 1..n : rs[i].op = "RCPT" /\ rs[i].to = rcpts[i]
    BY <1>5, <1>6
  <2>6. QED
    BY <1>4, <2>1, <2>3, <2>4, <2>5
<1>9. PICK w : w = front \o data
  OBVIOUS
<1>10. /\ w \in Seq(StepSet) /\ Len(w) = n + 2 /\ w[n + 2] = data[1]
       /\ \A i \in 1..(n + 1) : w[i] = front[i]
  <2>1. /\ w \in Seq(StepSet) /\ Len(w) = Len(front) + Len(data)
        /\ \A i \in 1..Len(front) : w[i] = front[i]
        /\ \A i \in 1..Len(data) : w[Len(front) + i] = data[i]
    <3>1. front \in Seq(StepSet) /\ data \in Seq(StepSet)
      BY <1>4, <1>8
    <3>2. QED
      BY <1>9, <3>1, ConcatFacts
  <2>2. Len(front) = n + 1 /\ Len(data) = 1
    BY <1>4, <1>8
  <2>3. w[(n + 1) + 1] = data[1]
    BY <2>1, <2>2
  <2>4. QED
    BY <2>1, <2>2, <2>3
<1>11. \A i \in 1..(n + 2) : OnPlan(w[i], rcpts, i)
  BY <1>4, <1>6, <1>8, <1>10 DEF OnPlan
<1>12. w = Envelope(rcpts)
  BY <1>1, <1>2, <1>3, <1>7, <1>9 DEF Envelope
<1>13. QED
  BY <1>6, <1>10, <1>11, <1>12

LEMMA SendInv ==
  ASSUME SmtpInv, ~lmtp, NEW rcpts \in Lists, NEW texts \in Seq(StepSet), texts # <<>>,
         \A i \in 1..Len(texts) : texts[i].op \in Texts,
         \A i \in 1..(Len(texts) - 1) : texts[i].op \notin Quits,
         NEW fn \in {"send", "send_twice"}, Len(texts) = IF fn = "send" THEN 1 ELSE 2,
         Starts(fn, Envelope(rcpts) \o texts, rcpts)
  PROVE  SmtpInv'
<1>1. rcpts \in Seq(Rcpts) /\ Len(rcpts) \in Nat /\ Len(texts) \in Nat \ {0}
  BY SmtpAssumption, EmptySeq, LenProperties DEF SmtpAssumption
<1>2. PICK env : env = Envelope(rcpts)
  OBVIOUS
<1>3. /\ env \in Seq(StepSet) /\ Len(env) = Len(rcpts) + 2
      /\ \A i \in 1..(Len(rcpts) + 2) : OnPlan(env[i], rcpts, i)
  BY <1>1, <1>2, EnvelopeFacts
<1>4. PICK steps : steps = env \o texts
  OBVIOUS
<1>5. fn \in Fns /\ fn \in {"send", "send_twice"}
  BY DEF Fns
<1>6. /\ steps \in Seq(StepSet) /\ Len(steps) = Len(rcpts) + 2 + Len(texts)
      /\ \A i \in 1..(Len(rcpts) + 2) : steps[i] = env[i]
      /\ \A i \in (Len(rcpts) + 3)..(Len(rcpts) + 2 + Len(texts)) : steps[i] = texts[i - (Len(rcpts) + 2)]
  <2>1. /\ steps \in Seq(StepSet) /\ Len(steps) = Len(env) + Len(texts)
        /\ \A i \in 1..Len(env) : steps[i] = env[i]
        /\ \A i \in (Len(env) + 1)..(Len(env) + Len(texts)) : steps[i] = texts[i - Len(env)]
    BY <1>3, <1>4, ConcatFacts, ZenonT(60)
  <2>2. QED
    BY <1>1, <1>3, <2>1
<1>7. Plan(steps, rcpts, 0)
  <2>1. \A i \in (Len(rcpts) + 3)..(Len(rcpts) + 2 + Len(texts)) :
          i - (Len(rcpts) + 2) \in 1..Len(texts) /\ steps[i].op \in Texts
    BY <1>1, <1>6, SMTT(30)
  <2>2. ASSUME NEW i \in 1..Len(steps)
        PROVE  OnPlan(steps[i], rcpts, 0 + i)
    <3>1. CASE i <= Len(rcpts) + 2
      BY <1>1, <1>3, <1>6, <3>1
    <3>2. CASE i > Len(rcpts) + 2
      BY <1>1, <1>6, <2>1, <3>2 DEF OnPlan
    <3>3. QED
      BY <1>1, <1>6, <3>1, <3>2
  <2>3. ASSUME NEW i \in 1..(Len(steps) - 1)
        PROVE  steps[i].op \notin Quits
    <3>1. CASE i <= Len(rcpts) + 2
      BY <1>1, <1>6, <2>2, <3>1 DEF OnPlan, Quits
    <3>2. CASE i > Len(rcpts) + 2
      <4>1. i - (Len(rcpts) + 2) \in 1..(Len(texts) - 1) /\ steps[i] = texts[i - (Len(rcpts) + 2)]
        BY <1>1, <1>6, <3>2
      <4>2. QED
        BY <4>1
    <3>3. QED
      BY <1>1, <1>6, <3>1, <3>2
  <2>4. QED
    BY <1>1, <1>6, <2>2, <2>3 DEF Plan
<1>8. steps # <<>> /\ steps[1].op = "MAIL" /\ fn \in Fns /\ Starts(fn, steps, rcpts)
  <2>1. OnPlan(steps[1], rcpts, 1)
    BY <1>1, <1>3, <1>6, SMTT(60)
  <2>2. steps[1].op = "MAIL"
    BY <2>1 DEF OnPlan
  <2>3. steps # <<>>
    BY <1>1, <1>6, EmptySeq
  <2>4. QED
    BY <1>2, <1>4, <1>5, <2>2, <2>3 DEF Fns
<1>9. /\ call'.fn = fn /\ call'.steps = steps /\ call'.codes = <<>> /\ call'.rcpts = rcpts
      /\ UNCHANGED <<agreed, lmtp>>
  <2>1. Typed /\ call' = Doing(fn, steps, rcpts) /\ UNCHANGED <<agreed, lmtp>>
    BY <1>8 DEF SmtpInv, Starts, sessionVars, serverVars
  <2>2. call'.fn = fn /\ call'.steps = steps /\ call'.codes = <<>> /\ call'.rcpts = rcpts
    BY <1>1, <1>6, <1>8, <2>1, DoingFacts
  <2>3. QED
    BY <1>5, <2>1, <2>2
<1>10. SendShape'
  <2>1. Enlisted(agreed', rcpts, 0) /\ ~(0 > Len(rcpts) + 2)
    BY <1>1 DEF Enlisted
  <2>2. 0 + Len(steps) = Len(rcpts) + (IF fn = "send" THEN 3 ELSE 4) /\ 0 \in Nat
    BY <1>1, <1>5, <1>6
  <2>3. QED
    BY <1>7, <1>9, <2>1, <2>2 DEF SendShape
<1>11. Shape'
  BY <1>5, <1>8, <1>9, <1>10 DEF Shape, Op
<1>12. Len(steps) # 1
  BY <1>1, <1>6
<1>13. QED
  BY <1>1, <1>5, <1>6, <1>8, <1>11, <1>12, StartsInv DEF Texts, Quits

LEMMA HelpersInv ==
  ASSUME SmtpInv, NEW rcpts \in Lists,
         SmtpSend(rcpts) \/ \E last \in Texts : EsmtpSend(last, rcpts)
  PROVE  SmtpInv'
<1>1. \A last \in Texts : /\ Step(last) \in StepSet /\ Step(last).op = last /\ "BODY" \notin Quits
                          /\ Step("BODY") \in StepSet /\ Step("BODY").op = "BODY"
  BY StepFacts DEF Texts, Quits, Ops
<1>2. ASSUME NEW last \in Texts, ~lmtp, Starts("send", Envelope(rcpts) \o << Step(last) >>, rcpts)
      PROVE  SmtpInv'
  <2>1. PICK texts : texts = << Step(last) >>
    OBVIOUS
  <2>2. /\ texts \in Seq(StepSet) /\ texts # <<>> /\ Len(texts) = 1
        /\ \A i \in 1..Len(texts) : texts[i].op \in Texts
    BY <1>1, <2>1
  <2>3. \A i \in 1..(Len(texts) - 1) : texts[i].op \notin Quits
    BY <2>2
  <2>4. QED
    BY <1>2, <2>1, <2>2, <2>3, SendInv
<1>3. ASSUME NEW last \in Texts, ~lmtp,
             Starts("send_twice", Envelope(rcpts) \o << Step("BODY"), Step(last) >>, rcpts)
      PROVE  SmtpInv'
  <2>1. PICK texts : texts = << Step("BODY"), Step(last) >>
    OBVIOUS
  <2>2. /\ texts \in Seq(StepSet) /\ texts # <<>> /\ Len(texts) = 2
        /\ texts[1].op = "BODY" /\ texts[2].op = last
    BY <1>1, <2>1
  <2>3. \A i \in 1..Len(texts) : texts[i].op \in Texts
    BY <2>2 DEF Texts
  <2>4. \A i \in 1..(Len(texts) - 1) : texts[i].op \notin Quits
    BY <1>1, <2>2
  <2>5. QED
    BY <1>3, <2>1, <2>2, <2>3, <2>4, SendInv
<1>4. QED
  BY <1>2, <1>3 DEF SmtpSend, EsmtpSend, Texts

LEMMA ConnectInv ==
  ASSUME SmtpInv, Connect
  PROVE  SmtpInv'
<1>1. PICK code \in {220, 554} : /\ toClient' = << Line(1, code, FALSE) >>
                                 /\ server' = IF code = 220 THEN "new" ELSE "closed"
  BY DEF Connect
<1>2. /\ stream' /\ lmtp' \in BOOLEAN /\ late' = FALSE /\ UNCHANGED esmtp /\ result' = NoResult
      /\ delivered' = <<>> /\ agreed' = <<>> /\ to' = <<>> /\ toServer' = <<>> /\ sent' = 1
      /\ call' = [Idle EXCEPT !.fn = "connect", !.steps = << Step("CONNECT") >>, !.num = 1]
  BY DEF Connect
<1>3. PICK steps : steps = << Step("CONNECT") >>
  OBVIOUS
<1>4. steps \in Seq(StepSet) /\ steps # <<>> /\ Len(steps) = 1 /\ steps[1].op = "CONNECT"
  BY <1>3, StepFacts DEF Ops
<1>5. /\ call' \in Calls /\ call'.fn = "connect" /\ call'.steps = steps /\ call'.num = 1
      /\ call'.codes = <<>> /\ call' # Idle
  BY <1>2, <1>3, <1>4, IdleFacts, ZenonT(60) DEF Idle, Calls, Fns
<1>6. PICK line : line = Line(1, code, FALSE)
  OBVIOUS
<1>7. /\ line \in Lines /\ line.of = 1 /\ line.code = code /\ ~line.more
      /\ toClient' = << line >> /\ toClient' \in Seq(Lines) /\ Len(toClient') = 1 /\ toClient'[1] = line
      /\ toClient' # <<>>
  <2>1. line \in Lines /\ line.of = 1 /\ line.code = code /\ ~line.more
    BY <1>6 DEF Line, Lines, Codes
  <2>2. toClient' = << line >>
    BY <1>1, <1>6
  <2>3. << line >> \in Seq(Lines) /\ Len(<< line >>) = 1 /\ << line >>[1] = line /\ << line >> # <<>>
    BY <2>1
  <2>4. QED
    BY <2>1, <2>2, <2>3
<1>8. Typed'
  <2>1. result' \in Returneds /\ esmtp' \in BOOLEAN /\ stream' \in BOOLEAN
    BY <1>2, IdleFacts DEF SmtpInv, Typed
  <2>2. agreed' \in Seq(Rcpts) /\ to' \in Seq(Rcpts) /\ delivered' \in Seq(SUBSET Rcpts) /\ toServer' \in Seq(StepSet)
    BY <1>2
  <2>3. server' \in Places
    BY <1>1 DEF Places
  <2>4. QED
    BY <1>2, <1>4, <1>5, <1>7, <2>1, <2>2, <2>3 DEF Typed
<1>9. Numbered'
  <2>1. Len(toServer') = 0 /\ sent' = 1
    BY <1>2
  <2>2. QED
    BY <1>7, <2>1 DEF Numbered
<1>10. Shape'
  <2>1. FnOf("CONNECT", "connect")'
    BY DEF FnOf, AuthOps
  <2>2. QED
    BY <1>4, <1>5, <2>1 DEF Shape, Op, Single
<1>11. Structured'
  BY <1>1, <1>2, <1>10 DEF Structured
<1>12. Served'
  <2>1. Op' = "CONNECT"
    BY <1>4, <1>5 DEF Op
  <2>2. server' # "closed" => to' = NotedTo(call'.steps[1], code, agreed')
    BY <1>2, <1>4, <1>5 DEF NotedTo, ClearOps, Texts, Quits
  <2>3. Verdict(code)'
    BY <1>1, <1>2, <2>1, <2>2 DEF Verdict, AuthOps, Texts, Quits
  <2>4. LastLine(1)'
    BY <1>2, <1>5, <1>7, <2>3 DEF LastLine
  <2>5. QED
    BY <1>2, <1>7, <2>1, <2>4 DEF Served
<1>13. QED
  BY <1>5, <1>8, <1>9, <1>11, <1>12 DEF SmtpInv, Phase, Again

LEMMA QuitInv ==
  ASSUME SmtpInv, Quit
  PROVE  SmtpInv'
<1>1. /\ call = Idle /\ stream' = FALSE /\ server' = "closed" /\ toServer' = <<>> /\ toClient' = <<>>
      /\ result' = NoResult /\ UNCHANGED <<esmtp, agreed, call, lmtp, to, delivered, sent, countVars, late>>
  BY DEF Quit
<1>2. Typed'
  <2>1. toServer' \in Seq(StepSet) /\ toClient' \in Seq(Lines) /\ result' \in Returneds /\ server' \in Places
    BY <1>1, IdleFacts DEF Places
  <2>2. QED
    BY <1>1, <2>1 DEF SmtpInv, Typed
<1>3. Numbered'
  <2>1. Len(toServer') = 0 /\ Len(toClient') = 0 /\ sent' \in Nat
    BY <1>1 DEF SmtpInv, Typed
  <2>2. QED
    BY <2>1 DEF Numbered
<1>4. Structured' /\ Phase'
  BY <1>1 DEF Structured, Phase
<1>5. QED
  BY <1>2, <1>3, <1>4 DEF SmtpInv

LEMMA DropInv ==
  ASSUME SmtpInv, Drop
  PROVE  SmtpInv'
<1>1. /\ stream /\ server' = "closed" /\ toServer' = <<>> /\ to' = <<>>
      /\ UNCHANGED <<sessionVars, call, result, toClient, lmtp, delivered, sent, countVars, late>>
  BY DEF Drop
<1>2. Typed'
  <2>1. toServer' \in Seq(StepSet) /\ to' \in Seq(Rcpts) /\ server' \in Places
    BY <1>1 DEF Places
  <2>2. QED
    BY <1>1, <2>1 DEF SmtpInv, Typed, sessionVars
<1>3. Numbered'
  <2>1. Len(toServer') = 0 /\ sent' \in Nat
    BY <1>1 DEF SmtpInv, Typed
  <2>2. QED
    BY <1>1, <2>1 DEF SmtpInv, Numbered
<1>4. Structured'
  <2>1. Shape => Shape'
    BY <1>1 DEF Shape, Op, Single, InitShape, SendShape, FnOf, sessionVars
  <2>2. QED
    BY <1>1, <2>1 DEF SmtpInv, Structured, sessionVars
<1>5. ASSUME ~late, call # Idle, ~Again
      PROVE  (Served \/ ServedEach \/ Lost)'
  <2>1. Op' = Op
    BY <1>1 DEF Op
  <2>2. CASE Asked
    <3>1. toClient' = <<>> /\ delivered' = <<>> /\ call' = call /\ call.codes = <<>> /\ Len(call.codes) = 0
      BY <1>1, <2>2 DEF Asked
    <3>2. QED
      BY <1>1, <3>1 DEF Lost
  <2>3. CASE Served
    <3>1. ASSUME NEW code, Verdict(code)
          PROVE  Verdict(code)'
      BY <1>1, <2>1, <3>1 DEF Verdict, sessionVars
    <3>2. ASSUME NEW k \in {1, 2}, LastLine(k)
          PROVE  LastLine(k)'
      BY <1>1, <2>1, <3>1, <3>2 DEF LastLine
    <3>3. QED
      BY <1>1, <2>1, <2>3, <3>2 DEF Served
  <2>4. CASE ServedEach
    BY <1>1, <2>1, <2>4 DEF ServedEach, Gets
  <2>5. CASE Lost
    BY <1>1, <2>5 DEF Lost
  <2>6. QED
    BY <1>5, <2>2, <2>3, <2>4, <2>5 DEF SmtpInv, Phase
<1>6. ASSUME ~late, call # Idle, Again
      PROVE  Repeated'
  <2>1. Repeated
    BY <1>6 DEF SmtpInv, Phase
  <2>2. QED
    BY <1>1, <2>1 DEF Repeated
<1>7. Phase'
  BY <1>1, <1>5, <1>6 DEF SmtpInv, Phase, Again, Single, Quiet, DataDone, sessionVars
<1>8. QED
  BY <1>2, <1>3, <1>4, <1>7 DEF SmtpInv

-----------------------------------------------------------------------------
LEMMA DoesFacts ==
  ASSUME NEW answer, NEW st, NEW rs, NEW gets, NEW o, o = Does(answer, st, rs, gets)
  PROVE  o.answer = answer /\ o.st = st /\ o.to = rs /\ o.gets = gets
BY DEF Does

LEMMA OneFacts ==
  ASSUME NEW of \in Nat, NEW code \in Codes, NEW one, one = One(of, code)
  PROVE  /\ one \in Seq(Lines) /\ Len(one) = 1 /\ one # <<>>
         /\ one[1].of = of /\ one[1].code = code /\ ~one[1].more
<1>1. PICK line : line = Line(of, code, FALSE)
  OBVIOUS
<1>2. line \in Lines /\ line.of = of /\ line.code = code /\ ~line.more
  BY <1>1 DEF Line, Lines
<1>3. one = << line >>
  BY <1>1 DEF One
<1>4. QED
  BY <1>2, <1>3

\* The server answers a command other than the text of a message.
OutcomeOf(o, c, of, code) ==
  /\ \/ o.answer = One(of, code)
     \/ o.answer = Two(of) /\ code = 250 /\ c.op \in {"EHLO", "LHLO"}
  /\ o.gets = {} /\ o.st \in Places
  /\ o.st = "data" <=> c.op = "DATA" /\ code = 354
  /\ o.st = "sasl" <=> c.op \in AuthOps /\ code = 334
  /\ c.op = "DATA" /\ code = 354 => to # <<>>
  /\ o.to = IF c.op = "QUIT" THEN <<>> ELSE NotedTo(c, code, to)

LEMMA RefusesFacts ==
  ASSUME NEW c \in StepSet, NEW of \in Nat, NEW codes \in SUBSET Codes, NEW o \in Refuses(of, codes),
         server \in Places \ {"data", "sasl"}, c.op \notin Texts \cup {"QUIT"},
         \A code \in codes : /\ c.op \in ClearOps \cup {"RCPT"} => code \notin Accepts(c.op)
                             /\ ~(c.op = "DATA" /\ code = 354) /\ ~(c.op \in AuthOps /\ code = 334)
  PROVE  \E code \in Codes : OutcomeOf(o, c, of, code)
<1>1. PICK code \in codes : o = Does(One(of, code), server, to, {})
  BY DEF Refuses
<1>2. o.answer = One(of, code) /\ o.st = server /\ o.to = to /\ o.gets = {}
  BY <1>1, DoesFacts
<1>3. to = NotedTo(c, code, to)
  BY <1>1 DEF NotedTo
<1>4. OutcomeOf(o, c, of, code)
  <2>1. o.gets = {} /\ o.st \in Places
    BY <1>2
  <2>2. o.st = "data" <=> c.op = "DATA" /\ code = 354
    BY <1>1, <1>2
  <2>3. o.st = "sasl" <=> c.op \in AuthOps /\ code = 334
    BY <1>1, <1>2
  <2>4. c.op = "DATA" /\ code = 354 => to # <<>>
    BY <1>1
  <2>5. o.to = IF c.op = "QUIT" THEN <<>> ELSE NotedTo(c, code, to)
    BY <1>2, <1>3 DEF Texts
  <2>6. QED
    BY <1>2, <2>1, <2>2, <2>3, <2>4, <2>5 DEF OutcomeOf
<1>5. QED
  BY <1>1, <1>4

LEMMA CommandCases ==
  ASSUME NEW c \in StepSet, NEW of \in Nat, NEW o \in CommandOutcomes(c, of),
         server \in Places \ {"data", "sasl", "closed"}, c.op \notin Texts
  PROVE  \E code \in Codes : OutcomeOf(o, c, of, code)
<1> DEFINE Goal == \E code \in Codes : OutcomeOf(o, c, of, code)
<1> SUFFICES Goal
  OBVIOUS
<1>0. {220, 221, 235, 250, 251, 334, 354, 451, 454, 500, 501, 503, 535, 550, 554} \subseteq Codes
  BY DEF Codes
<1>a. ASSUME NEW codes \in SUBSET Codes, o \in Refuses(of, codes), c.op # "QUIT",
             \A code \in codes : /\ c.op \in ClearOps \cup {"RCPT"} => code \notin Accepts(c.op)
                                 /\ ~(c.op = "DATA" /\ code = 354) /\ ~(c.op \in AuthOps /\ code = 334)
      PROVE  Goal
  BY <1>a, RefusesFacts
<1>b. ASSUME NEW code \in Codes, NEW st \in Places, NEW rs, o = Does(One(of, code), st, rs, {}),
             st = "data" <=> c.op = "DATA" /\ code = 354,
             st = "sasl" <=> c.op \in AuthOps /\ code = 334,
             c.op = "DATA" /\ code = 354 => to # <<>>,
             rs = IF c.op = "QUIT" THEN <<>> ELSE NotedTo(c, code, to)
      PROVE  Goal
  <2>1. o.answer = One(of, code) /\ o.st = st /\ o.to = rs /\ o.gets = {}
    BY <1>b, DoesFacts
  <2>2. o.gets = {} /\ o.st \in Places
    BY <2>1
  <2>3. (o.st = "data" <=> c.op = "DATA" /\ code = 354) /\ (o.st = "sasl" <=> c.op \in AuthOps /\ code = 334)
    BY <1>b, <2>1
  <2>4. o.to = IF c.op = "QUIT" THEN <<>> ELSE NotedTo(c, code, to)
    BY <1>b, <2>1
  <2>5. OutcomeOf(o, c, of, code)
    BY <1>b, <2>1, <2>2, <2>3, <2>4 DEF OutcomeOf
  <2>6. QED
    BY <2>5
<1>1. CASE c.op = (IF lmtp THEN "LHLO" ELSE "EHLO")
  <2>1. o \in Refuses(of, {500}) \/ o = Does(Two(of), "ready", <<>>, {})
    BY <1>1 DEF CommandOutcomes, Greets
  <2>2. c.op \in {"LHLO", "EHLO"} /\ Accepts(c.op) = {250}
    BY <1>1, AcceptFacts
  <2>3. CASE o \in Refuses(of, {500})
    BY <1>0, <1>a, <2>2, <2>3 DEF AuthOps
  <2>4. CASE o = Does(Two(of), "ready", <<>>, {})
    <3>1. o.answer = Two(of) /\ o.st = "ready" /\ o.to = <<>> /\ o.gets = {}
      <4>1. PICK lines : lines = Two(of)
        OBVIOUS
      <4>2. o = Does(lines, "ready", <<>>, {})
        BY <2>4, <4>1
      <4>3. o.answer = lines /\ o.st = "ready" /\ o.to = <<>> /\ o.gets = {}
        BY <4>2, DoesFacts
      <4>4. QED
        BY <4>1, <4>3
    <3>2. NotedTo(c, 250, to) = <<>>
      BY <2>2 DEF NotedTo, ClearOps
    <3>3. OutcomeOf(o, c, of, 250)
      BY <2>2, <3>1, <3>2 DEF OutcomeOf, Places, AuthOps
    <3>4. QED
      BY <1>0, <3>3
  <2>5. QED
    BY <2>1, <2>3, <2>4
<1>2. CASE c.op = "HELO" /\ ~lmtp
  <2>1. o \in Refuses(of, {550}) \/ o = Does(One(of, 250), "ready", <<>>, {})
    BY <1>2 DEF CommandOutcomes, Greets
  <2>2. NotedTo(c, 250, to) = <<>> /\ Accepts(c.op) = {250}
    BY <1>2, AcceptFacts DEF NotedTo, ClearOps
  <2>3. CASE o \in Refuses(of, {550})
    BY <1>0, <1>2, <1>a, <2>2, <2>3 DEF AuthOps
  <2>4. CASE o = Does(One(of, 250), "ready", <<>>, {})
    BY <1>0, <1>2, <1>b, <2>2, <2>4 DEF AuthOps, Places
  <2>5. QED
    BY <2>1, <2>3, <2>4
<1>3. CASE c.op = "MAIL" /\ server = "ready"
  <2>1. o \in Refuses(of, {451, 550}) \/ o = Does(One(of, 250), "mail", <<>>, {})
    BY <1>3 DEF CommandOutcomes
  <2>2. NotedTo(c, 250, to) = <<>> /\ Accepts(c.op) = {250}
    BY <1>3, AcceptFacts DEF NotedTo, ClearOps
  <2>3. CASE o \in Refuses(of, {451, 550})
    BY <1>0, <1>3, <1>a, <2>2, <2>3 DEF AuthOps
  <2>4. CASE o = Does(One(of, 250), "mail", <<>>, {})
    BY <1>0, <1>3, <1>b, <2>2, <2>4 DEF AuthOps, Places
  <2>5. QED
    BY <2>1, <2>3, <2>4
<1>4. CASE c.op = "RCPT" /\ server = "mail"
  <2>1. o \in Refuses(of, {550}) \/ \E code \in {250, 251} : o = Does(One(of, code), "mail", Append(to, c.to), {})
    BY <1>4 DEF CommandOutcomes
  <2>2. (\A code \in {250, 251} : NotedTo(c, code, to) = Append(to, c.to)) /\ Accepts(c.op) = {250, 251}
    BY <1>4, AcceptFacts DEF NotedTo
  <2>3. CASE o \in Refuses(of, {550})
    BY <1>0, <1>4, <1>a, <2>2, <2>3, SMTT(60) DEF AuthOps
  <2>4. CASE \E code \in {250, 251} : o = Does(One(of, code), "mail", Append(to, c.to), {})
    <3>1. PICK code \in {250, 251} : o = Does(One(of, code), "mail", Append(to, c.to), {})
      BY <2>4
    <3>2. PICK rs : rs = Append(to, c.to)
      OBVIOUS
    <3>3. code \in Codes /\ "mail" \in Places /\ rs = NotedTo(c, code, to) /\ o = Does(One(of, code), "mail", rs, {})
      BY <1>0, <2>2, <3>1, <3>2, SMTT(60) DEF Places
    <3>4. QED
      BY <1>4, <1>b, <3>3 DEF AuthOps
  <2>5. QED
    BY <2>1, <2>3, <2>4
<1>5. CASE c.op = "DATA" /\ server = "mail"
  <2>1. \/ o \in Refuses(of, {554}) \/ o \in Refuses(of, {451})
        \/ to # <<>> /\ o = Does(One(of, 354), "data", to, {})
    BY <1>5 DEF CommandOutcomes
  <2>2. NotedTo(c, 354, to) = to
    BY <1>5 DEF NotedTo, ClearOps, Texts, Quits
  <2>3. CASE o \in Refuses(of, {554}) \/ o \in Refuses(of, {451})
    BY <1>0, <1>5, <1>a, <2>3 DEF AuthOps, ClearOps
  <2>4. CASE to # <<>> /\ o = Does(One(of, 354), "data", to, {})
    BY <1>0, <1>5, <1>b, <2>2, <2>4 DEF AuthOps, Places
  <2>5. QED
    BY <2>1, <2>3, <2>4
<1>6. CASE c.op \in {"AUTH", "XOAUTH2"} /\ server = "ready"
  <2>1. o \in Refuses(of, {235, 535}) \/ o = Does(One(of, 334), "sasl", to, {})
    BY <1>6 DEF CommandOutcomes
  <2>2. NotedTo(c, 334, to) = to
    BY <1>6 DEF NotedTo, ClearOps, Texts, Quits
  <2>3. CASE o \in Refuses(of, {235, 535})
    BY <1>0, <1>6, <1>a, <2>3 DEF AuthOps, ClearOps
  <2>4. CASE o = Does(One(of, 334), "sasl", to, {})
    BY <1>0, <1>6, <1>b, <2>2, <2>4 DEF AuthOps, Places
  <2>5. QED
    BY <2>1, <2>3, <2>4
<1>7. CASE c.op = "STARTTLS" /\ server = "ready"
  <2>1. o \in Refuses(of, {454}) \/ o = Does(One(of, 220), "new", <<>>, {})
    BY <1>7 DEF CommandOutcomes
  <2>2. NotedTo(c, 220, to) = <<>> /\ Accepts(c.op) = {220}
    BY <1>7, AcceptFacts DEF NotedTo, ClearOps
  <2>3. CASE o \in Refuses(of, {454})
    BY <1>0, <1>7, <1>a, <2>2, <2>3 DEF AuthOps
  <2>4. CASE o = Does(One(of, 220), "new", <<>>, {})
    BY <1>0, <1>7, <1>b, <2>2, <2>4 DEF AuthOps, Places
  <2>5. QED
    BY <2>1, <2>3, <2>4
<1>8. CASE c.op = "CLIENTID" /\ server = "ready"
  <2>1. o \in Refuses(of, {250, 501})
    BY <1>8 DEF CommandOutcomes
  <2>2. QED
    BY <1>0, <1>8, <1>a, <2>1 DEF AuthOps, ClearOps
<1>9. CASE c.op = "RSET"
  <2>1. \E st \in {"new", "ready"} : o = Does(One(of, 250), st, <<>>, {})
    BY <1>9 DEF CommandOutcomes
  <2>2. NotedTo(c, 250, to) = <<>>
    BY <1>0, <1>9, AcceptFacts DEF NotedTo, ClearOps
  <2>3. QED
    BY <1>0, <1>9, <1>b, <2>1, <2>2 DEF AuthOps, Places
<1>10. CASE c.op = "NOOP"
  <2>1. o \in Refuses(of, {250})
    BY <1>10 DEF CommandOutcomes
  <2>2. QED
    BY <1>0, <1>10, <1>a, <2>1 DEF AuthOps, ClearOps
<1>11. CASE c.op = "QUIT"
  <2>1. o = Does(One(of, 221), "closed", <<>>, {})
    BY <1>11 DEF CommandOutcomes
  <2>2. QED
    BY <1>0, <1>11, <1>b, <2>1 DEF AuthOps, Places
<1>12. CASE /\ c.op # (IF lmtp THEN "LHLO" ELSE "EHLO") /\ ~(c.op = "HELO" /\ ~lmtp)
            /\ ~(c.op = "MAIL" /\ server = "ready") /\ ~(c.op = "RCPT" /\ server = "mail")
            /\ ~(c.op = "DATA" /\ server = "mail") /\ ~(c.op \in {"AUTH", "XOAUTH2"} /\ server = "ready")
            /\ ~(c.op = "STARTTLS" /\ server = "ready") /\ ~(c.op = "CLIENTID" /\ server = "ready")
            /\ c.op # "RSET" /\ c.op # "NOOP" /\ c.op # "QUIT"
  <2>1. o \in Refuses(of, {503})
    BY <1>12 DEF CommandOutcomes, Texts
  <2>2. c.op \in ClearOps \cup {"RCPT"} => 503 \notin Accepts(c.op)
    BY <1>12, AcceptFacts DEF ClearOps
  <2>3. QED
    BY <1>0, <1>12, <1>a, <2>1, <2>2 DEF AuthOps
<1>13. QED
  BY <1>1, <1>2, <1>3, <1>4, <1>5, <1>6, <1>7, <1>8, <1>9, <1>10, <1>11, <1>12

LEMMA SaslCases ==
  ASSUME NEW c \in StepSet, NEW of \in Nat, NEW o \in SaslOutcomes(c, of)
  PROVE  \E code \in Codes : /\ o.answer = One(of, code) /\ o.gets = {} /\ o.to = to
                             /\ o.st = (IF code = 334 THEN "sasl" ELSE "ready") /\ code # 354
<1>1. {235, 334, 501, 535} \subseteq Codes
  BY DEF Codes
<1>2. \/ \E code \in {235, 501, 535} : o = Does(One(of, code), "ready", to, {})
      \/ o = Does(One(of, 334), "sasl", to, {})
  BY DEF SaslOutcomes
<1>3. CASE \E code \in {235, 501, 535} : o = Does(One(of, code), "ready", to, {})
  <2>1. PICK code \in {235, 501, 535} : o = Does(One(of, code), "ready", to, {})
    BY <1>3
  <2>2. o.answer = One(of, code) /\ o.st = "ready" /\ o.to = to /\ o.gets = {}
    BY <2>1, DoesFacts
  <2>3. QED
    BY <1>1, <2>2
<1>4. CASE o = Does(One(of, 334), "sasl", to, {})
  <2>1. o.answer = One(of, 334) /\ o.st = "sasl" /\ o.to = to /\ o.gets = {}
    BY <1>4, DoesFacts
  <2>2. QED
    BY <1>1, <2>1
<1>5. QED
  BY <1>2, <1>3, <1>4

\* The server has the text of the message and answers once, or for each of its
\* recipients, to some of which it delivers.
LEMMA DataCases ==
  ASSUME NEW c \in StepSet, NEW of \in Nat, c.op = "BODY", NEW o \in DataOutcomes(c, of)
  PROVE  /\ o.st = "ready" /\ o.to = <<>>
         /\ ~lmtp => \/ o.answer = One(of, 250) /\ o.gets = Range(to)
                     \/ o.answer = One(of, 554) /\ o.gets = {}
         /\ lmtp => /\ o.gets \in SUBSET Range(to)
                    /\ o.answer = Each(of, to, o.gets)
<1>1. CASE ~lmtp
  <2>1. PICK g : g = Range(to)
    OBVIOUS
  <2>2. o = Does(One(of, 250), "ready", <<>>, g) \/ o = Does(One(of, 554), "ready", <<>>, {})
    BY <1>1, <2>1 DEF DataOutcomes
  <2>3. QED
    BY <1>1, <2>1, <2>2, DoesFacts
<1>2. CASE lmtp
  <2>1. PICK g \in SUBSET Range(to) :
          o = Does(Each(of, to, g), "ready", <<>>, g)
    BY <1>2 DEF DataOutcomes
  <2>2. PICK lines : lines = Each(of, to, g)
    OBVIOUS
  <2>3. o = Does(lines, "ready", <<>>, g)
    BY <2>1, <2>2
  <2>4. o.answer = lines /\ o.st = "ready" /\ o.to = <<>> /\ o.gets = g
    BY <2>3, DoesFacts
  <2>5. QED
    BY <1>2, <2>2, <2>4
<1>3. QED
  BY <1>1, <1>2 DEF Typed

OutcomeTyped(o, of) ==
  /\ o.answer \in Seq(Lines) /\ \A p \in 1..Len(o.answer) : o.answer[p].of = of
  /\ o.st \in Places /\ o.to \in Seq(Rcpts) /\ o.gets \in SUBSET Rcpts
  /\ o.st = "data" => o.to # <<>>

LEMMA TwoLines ==
  ASSUME NEW of \in Nat, NEW lines, lines = Two(of)
  PROVE  /\ lines \in Seq(Lines) /\ Len(lines) = 2 /\ lines # <<>>
         /\ lines[1].of = of /\ lines[1].more
         /\ lines[2].of = of /\ ~lines[2].more /\ lines[2].code = 250
<1>1. PICK a, b : a = Line(of, 250, TRUE) /\ b = Line(of, 250, FALSE)
  OBVIOUS
<1>2. /\ a \in Lines /\ a.of = of /\ a.more
      /\ b \in Lines /\ b.of = of /\ ~b.more /\ b.code = 250
  BY <1>1 DEF Line, Lines, Codes
<1>3. lines = << a, b >>
  BY <1>1 DEF Two
<1>4. QED
  BY <1>2, <1>3

\* The answers of an LMTP server to a text.
LEMMA EachLine ==
  ASSUME NEW of \in Nat, NEW rs \in Seq(Rcpts), NEW g, NEW lines,
         lines = Each(of, rs, g)
  PROVE  /\ lines \in Seq(Lines) /\ Len(lines) = Len(rs)
         /\ \A i \in 1..Len(lines) : /\ lines[i].of = of /\ ~lines[i].more
                                     /\ lines[i].code = 250 <=> rs[i] \in g
<1>1. DOMAIN rs = 1..Len(rs) /\ Len(rs) \in Nat
  BY LenProperties
<1>2. ASSUME NEW r
      PROVE  /\ RcptLine(of, r, g) \in Lines /\ RcptLine(of, r, g).of = of /\ ~RcptLine(of, r, g).more
             /\ RcptLine(of, r, g).code = 250 <=> r \in g
  BY DEF RcptLine, Line, Lines, Codes
<1>3. lines = [i \in 1..Len(rs) |-> RcptLine(of, rs[i], g)]
  BY <1>1 DEF Each
<1>4. lines \in Seq(Lines) /\ Len(lines) = Len(rs)
  <2>1. lines \in [1..Len(rs) -> Lines]
    BY <1>2, <1>3
  <2>2. QED
    BY <1>1, <2>1
<1>5. \A i \in 1..Len(rs) : lines[i] = RcptLine(of, rs[i], g)
  BY <1>3
<1>6. QED
  BY <1>2, <1>4, <1>5

LEMMA OutcomesTyped ==
  ASSUME Typed, Structured, NEW c \in StepSet, NEW of \in Nat, NEW o \in Outcomes(c, of), server # "closed"
  PROVE  OutcomeTyped(o, of)
<1>0. to \in Seq(Rcpts) /\ server \in Places /\ <<>> \in Seq(Rcpts) /\ {} \in SUBSET Rcpts
        /\ Range(to) \in SUBSET Rcpts
  <2>1. to \in Seq(Rcpts) /\ server \in Places
    BY DEF Typed
  <2>2. DOMAIN to = 1..Len(to) /\ \A i \in 1..Len(to) : to[i] \in Rcpts
    BY <2>1
  <2>3. QED
    BY <2>1, <2>2 DEF Range
<1>1. ASSUME NEW code \in Codes, o.answer = One(of, code)
      PROVE  o.answer \in Seq(Lines) /\ \A p \in 1..Len(o.answer) : o.answer[p].of = of
  BY <1>1, OneFacts
<1>2. CASE server = "data"
  <2>1. o \in DataOutcomes(c, of)
    BY <1>2 DEF Outcomes
  <2>2. CASE c.op # "BODY"
    <3>1. o = Does(<<>>, "data", to, {})
      BY <1>2, <2>1, <2>2 DEF DataOutcomes
    <3>2. o.answer = <<>> /\ o.st = "data" /\ o.to = to /\ o.gets = {}
      BY <3>1, DoesFacts
    <3>3. o.answer \in Seq(Lines) /\ Len(o.answer) = 0 /\ to # <<>>
      BY <1>2, <3>2 DEF Structured
    <3>4. QED
      BY <1>0, <3>2, <3>3 DEF OutcomeTyped, Places
  <2>3. CASE c.op = "BODY" /\ ~lmtp
    <3>1. /\ o.st = "ready" /\ o.to = <<>> /\ o.gets \in SUBSET Rcpts
          /\ o.answer = One(of, 250) \/ o.answer = One(of, 554)
      BY <1>0, <2>1, <2>3, DataCases
    <3>2. 250 \in Codes /\ 554 \in Codes
      BY DEF Codes
    <3>3. QED
      BY <1>0, <1>1, <3>1, <3>2 DEF OutcomeTyped, Places
  <2>4. CASE c.op = "BODY" /\ lmtp
    <3>1. /\ o.st = "ready" /\ o.to = <<>> /\ o.gets \in SUBSET Rcpts
          /\ o.answer = Each(of, to, o.gets)
      BY <1>0, <2>1, <2>4, DataCases
    <3>2. PICK g, lines : g = o.gets /\ lines = o.answer
      OBVIOUS
    <3>3. lines \in Seq(Lines) /\ \A i \in 1..Len(lines) : lines[i].of = of
      <4>1. lines = Each(of, to, g) /\ of \in Nat /\ to \in Seq(Rcpts)
        BY <1>0, <3>1, <3>2 DEF Typed
      <4>2. lines \in Seq(Lines)
        BY <4>1, EachLine
      <4>3. \A i \in 1..Len(lines) : lines[i].of = of
        BY <4>1, EachLine
      <4>4. QED
        BY <4>2, <4>3
    <3>4. QED
      BY <1>0, <3>1, <3>2, <3>3 DEF OutcomeTyped, Places
  <2>5. QED
    BY <2>2, <2>3, <2>4 DEF Typed
<1>3. CASE server = "sasl"
  <2>1. o \in SaslOutcomes(c, of)
    BY <1>3 DEF Outcomes
  <2>2. PICK code \in Codes : /\ o.answer = One(of, code) /\ o.gets = {} /\ o.to = to
                              /\ o.st = (IF code = 334 THEN "sasl" ELSE "ready")
    BY <2>1, SaslCases
  <2>3. QED
    BY <1>0, <1>1, <2>2 DEF OutcomeTyped, Places
<1>4. CASE server \notin {"data", "sasl"} /\ c.op = "BODY"
  <2>1. o = Does(One(of, 500) \o One(of, 500), server, to, {})
    BY <1>4 DEF Outcomes, CommandOutcomes
  <2>2. PICK one, both : one = One(of, 500) /\ both = one \o one
    OBVIOUS
  <2>3. o.answer = both /\ o.st = server /\ o.to = to /\ o.gets = {}
    <3>1. o = Does(both, server, to, {})
      BY <2>1, <2>2
    <3>2. QED
      BY <3>1, DoesFacts
  <2>4. one \in Seq(Lines) /\ Len(one) = 1 /\ one[1].of = of
    <3>1. one = One(of, 500) /\ 500 \in Codes
      BY <2>2 DEF Codes
    <3>2. QED
      BY <3>1, OneFacts
  <2>5. both \in Seq(Lines) /\ Len(both) = 2 /\ both[1] = one[1] /\ both[2] = one[1]
    BY <2>2, <2>4
  <2>6. QED
    BY <1>0, <1>4, <2>3, <2>4, <2>5 DEF OutcomeTyped
<1>5. CASE server \notin {"data", "sasl"} /\ c.op # "BODY"
  <2>1. c.op \in Texts => Refuses(of, {503}) = CommandOutcomes(c, of)
    BY <1>5 DEF CommandOutcomes, Texts, Quits
  <2>2. CASE c.op \in Texts
    <3>1. o = Does(One(of, 503), server, to, {})
      BY <1>5, <2>1, <2>2 DEF Outcomes, Refuses
    <3>2. o.answer = One(of, 503) /\ o.st = server /\ o.to = to /\ o.gets = {} /\ 503 \in Codes
      BY <3>1, DoesFacts DEF Codes
    <3>3. QED
      BY <1>0, <1>1, <1>5, <3>2 DEF OutcomeTyped
  <2>3. CASE c.op \notin Texts
    <3>1. o \in CommandOutcomes(c, of) /\ server \in Places \ {"data", "sasl", "closed"}
      BY <1>0, <1>5 DEF Outcomes
    <3>2. PICK code \in Codes : OutcomeOf(o, c, of, code)
      BY <2>3, <3>1, CommandCases
    <3>3. o.answer \in Seq(Lines) /\ \A p \in 1..Len(o.answer) : o.answer[p].of = of
      <4>1. CASE o.answer = One(of, code)
        BY <1>1, <4>1
      <4>2. CASE o.answer = Two(of)
        BY <4>2, TwoLines
      <4>3. QED
        BY <3>2, <4>1, <4>2 DEF OutcomeOf
    <3>4. o.to \in Seq(Rcpts)
      <4>1. c.op = "RCPT" => Append(to, c.to) \in Seq(Rcpts)
        BY <1>0, AppendFacts DEF StepSet
      <4>2. QED
        BY <1>0, <3>2, <4>1 DEF OutcomeOf, NotedTo
    <3>5. o.st = "data" => o.to # <<>>
      BY <3>2 DEF OutcomeOf, NotedTo, ClearOps, Texts, Quits
    <3>6. QED
      BY <1>0, <3>2, <3>3, <3>4, <3>5 DEF OutcomeTyped, OutcomeOf
  <2>4. QED
    BY <2>2, <2>3
<1>6. QED
  BY <1>2, <1>3, <1>4, <1>5

\* SMTP texts go to SMTP servers, LMTP texts to LMTP servers; a text of which a
\* QUIT follows is that of a helper.
\* What the ends of a call are.
LEMMA ShapeFacts ==
  ASSUME Typed, Structured, call # Idle
  PROVE  /\ call.fn = "data" => Op = "DATA"
         /\ call.fn = "data_message" => Op = "BODY"
         /\ call.fn = "lmtp_data_message" <=> Op = "LBODY"
         /\ Op \in AuthOps => call.fn = "auth"
         /\ Op = "DATA" /\ Tail(call.steps) = <<>> => call.fn = "data"
         /\ call.fn \in {"send", "send_twice"} =>
              Op # "EHLO" /\ (Tail(call.steps) = <<>> => Op \in Texts)
         /\ Tail(call.steps) # <<>> => call.fn \in {"init", "send", "send_twice"}
         /\ Op = "EHLO" => call.fn = "init"
         /\ call.fn = "init" /\ Tail(call.steps) # <<>> => Op = "EHLO"
         /\ Op # "LBODY" => call.codes = <<>>
<1>1. Shape /\ stream
  BY DEF Structured, Typed
<1>2. call.steps \in Seq(StepSet) /\ call.steps # <<>> /\ Len(call.steps) \in Nat \ {0} /\ call.rcpts \in Seq(Rcpts)
  BY CallFacts
<1>3. Tail(call.steps) = <<>> <=> Len(call.steps) = 1
  BY <1>2, EmptyFacts
<1>4. CASE call.fn \in {"send", "send_twice"}
  <2>1. PICK p \in Nat : Plan(call.steps, call.rcpts, p)
    BY <1>1, <1>4 DEF Shape, SendShape
  <2>2. OnPlan(call.steps[1], call.rcpts, p + 1)
    BY <1>2, <2>1 DEF Plan
  <2>3. Op \in {"MAIL", "RCPT", "DATA"} \cup Texts
    BY <2>2 DEF OnPlan, Op
  <2>4. Len(call.steps) = 1 => Op \in Texts
    <3>1. ASSUME Len(call.steps) = 1
          PROVE  Op \in Texts
      <4>1. Len(call.rcpts) \in Nat /\ p + 1 > Len(call.rcpts) + 2
        BY <1>2, <2>1, <3>1, LenProperties DEF Plan
      <4>2. QED
        BY <2>2, <4>1 DEF OnPlan, Op
    <3>2. QED
      BY <3>1
  <2>5. QED
    BY <1>1, <1>3, <1>4, <2>3, <2>4 DEF Shape, AuthOps, Texts, Quits
<1>5. CASE call.fn = "init"
  BY <1>1, <1>3, <1>5 DEF Shape, InitShape, Single, AuthOps
<1>6. CASE call.fn \notin {"send", "send_twice", "init"}
  BY <1>1, <1>3, <1>6 DEF Shape, FnOf, Single, AuthOps
<1>7. QED
  BY <1>4, <1>5, <1>6

LEMMA TextFacts ==
  ASSUME Typed, Structured, call # Idle
  PROVE  (Op \in Texts => ~lmtp) /\ (Op = "LBODY" => lmtp)
<1>1. Shape
  BY DEF Structured
<1>2. CASE call.fn \in {"send", "send_twice"}
  <2>1. PICK p \in Nat : Plan(call.steps, call.rcpts, p)
    BY <1>1, <1>2 DEF Shape, SendShape
  <2>2. OnPlan(call.steps[1], call.rcpts, p + 1)
    BY <2>1, CallFacts DEF Plan
  <2>3. Op # "LBODY"
    BY <2>2 DEF OnPlan, Op, Texts, Quits
  <2>4. QED
    BY <1>1, <1>2, <2>3 DEF Shape, SendShape
<1>3. CASE call.fn = "init"
  BY <1>1, <1>3 DEF Shape, InitShape, Texts, Quits
<1>4. CASE call.fn \notin {"send", "send_twice", "init"}
  BY <1>1, <1>4 DEF Shape, FnOf, Texts, Quits, AuthOps
<1>5. QED
  BY <1>2, <1>3, <1>4

\* The answer to a text over SMTP.
LEMMA TextServed ==
  ASSUME SmtpInv, Serve, ~late, call # Idle, Asked, Op \in Texts, server # "closed"
  PROVE  Served'
<1>1. /\ server = "data" /\ agreed = to /\ to = call.rcpts /\ toClient = <<>> /\ delivered = <<>>
      /\ to # <<>> /\ toServer = Wire(call.steps[1]) /\ call.num + Len(toServer) = sent + 1 /\ ~lmtp
  BY TextFacts DEF Asked, SmtpInv, Structured, Fits, Texts, Quits
<1>2. /\ call.steps[1] \in StepSet /\ call.num \in Nat /\ sent \in Nat /\ Len(toServer) \in {1, 2}
      /\ to \in Seq(Rcpts) /\ toServer \in Seq(StepSet)
  BY <1>1, CallFacts, WireFacts DEF SmtpInv, Typed
<1>3. sent - Len(toServer) + 1 = call.num
  BY <1>1, <1>2
<1>4. /\ toServer[1] = Step("BODY") /\ Head(toServer) = toServer[1] /\ Step("BODY") \in StepSet
      /\ Tail(toServer) = IF Op \in Quits THEN << Step("QUIT") >> ELSE <<>>
      /\ Step("BODY").op = "BODY"
  <2>1. toServer = IF Op \in Quits THEN << Step("BODY"), Step("QUIT") >> ELSE << Step("BODY") >>
    BY <1>1, <1>2, WireFacts DEF Op, Texts
  <2>2. QED
    BY <2>1, StepFacts DEF Ops
<1>5. PICK o \in Outcomes(Step("BODY"), call.num) :
        /\ toClient' = toClient \o o.answer /\ server' = o.st /\ to' = o.to
        /\ delivered' = IF o.gets = {} THEN delivered ELSE Append(delivered, o.gets)
  BY <1>3, <1>4 DEF Serve
<1>6. o \in DataOutcomes(Step("BODY"), call.num)
  BY <1>1, <1>5 DEF Outcomes
<1>7. /\ o.st = "ready" /\ o.to = <<>>
      /\ \/ o.answer = One(call.num, 250) /\ o.gets = Range(to)
         \/ o.answer = One(call.num, 554) /\ o.gets = {}
  BY <1>1, <1>2, <1>4, <1>6, DataCases
<1>8. PICK code \in {250, 554} : o.answer = One(call.num, code) /\ o.gets = IF code = 250 THEN Range(to) ELSE {}
  BY <1>7
<1>9. PICK one : one = One(call.num, code)
  OBVIOUS
<1>10. /\ one \in Seq(Lines) /\ Len(one) = 1 /\ one # <<>>
       /\ one[1].of = call.num /\ one[1].code = code /\ ~one[1].more
  <2>1. code \in Codes
    BY DEF Codes
  <2>2. QED
    BY <1>2, <1>9, <2>1, OneFacts
<1>11. toClient' = one
  BY <1>1, <1>5, <1>8, <1>9, <1>10
<1>12. Range(to) # {}
  <2>1. Len(to) \in Nat \ {0} /\ DOMAIN to = 1..Len(to)
    BY <1>1, <1>2, EmptySeq, LenProperties
  <2>2. to[1] \in Range(to)
    BY <2>1 DEF Range
  <2>3. QED
    BY <2>2
<1>13. delivered' = IF code = 250 THEN << Range(call.rcpts) >> ELSE <<>>
  <2>1. PICK g : g = Range(to)
    OBVIOUS
  <2>2. delivered' = IF code = 250 THEN Append(<<>>, g) ELSE <<>>
    BY <1>1, <1>5, <1>8, <1>12, <2>1
  <2>3. QED
    BY <1>1, <2>1, <2>2
<1>14. /\ call' = call /\ agreed' = agreed /\ toServer' = Tail(toServer) /\ Op' = Op
       /\ server' = "ready" /\ to' = <<>>
  BY <1>5, <1>7 DEF Serve, sessionVars, Op
<1>15. Verdict(code)'
  <2>1. Op \notin AuthOps \cup {"DATA"}
    BY DEF Texts, Quits, AuthOps
  <2>2. <<>> = NotedTo(call.steps[1], code, agreed)
    BY DEF NotedTo, Op, Texts, Quits
  <2>3. QED
    BY <1>13, <1>14, <2>1, <2>2 DEF Verdict
<1>16. LastLine(1)'
  BY <1>4, <1>10, <1>11, <1>14, <1>15 DEF LastLine
<1>17. QED
  BY <1>4, <1>10, <1>11, <1>14, <1>16 DEF Served, Texts, Quits

\* The answers to a text over LMTP.
LEMMA EachServed ==
  ASSUME SmtpInv, Serve, ~late, call # Idle, Asked, Op = "LBODY", server # "closed"
  PROVE  ServedEach'
<1>1. /\ server = "data" /\ agreed = to /\ to = call.rcpts /\ toClient = <<>> /\ delivered = <<>>
      /\ to # <<>> /\ toServer = Wire(call.steps[1]) /\ call.num + Len(toServer) = sent + 1 /\ lmtp
      /\ call.codes = <<>>
  BY TextFacts DEF Asked, SmtpInv, Structured, Fits
<1>2. /\ call.steps[1] \in StepSet /\ call.num \in Nat /\ sent \in Nat
      /\ to \in Seq(Rcpts) /\ toServer \in Seq(StepSet)
  BY <1>1, CallFacts DEF SmtpInv, Typed
<1>3. /\ toServer = << Step("BODY") >> /\ toServer[1] = Step("BODY") /\ Head(toServer) = Step("BODY")
      /\ Step("BODY") \in StepSet
      /\ Tail(toServer) = <<>> /\ Step("BODY").op = "BODY" /\ Len(toServer) = 1
  <2>1. toServer = << Step("BODY") >>
    BY <1>1, <1>2, WireFacts DEF Op
  <2>2. QED
    BY <2>1, StepFacts DEF Ops
<1>4. sent - Len(toServer) + 1 = call.num
  BY <1>1, <1>2, <1>3
<1>5. PICK o \in Outcomes(Step("BODY"), call.num) :
        /\ toClient' = toClient \o o.answer /\ server' = o.st /\ to' = o.to
        /\ delivered' = IF o.gets = {} THEN delivered ELSE Append(delivered, o.gets)
  BY <1>3, <1>4 DEF Serve
<1>6. o \in DataOutcomes(Step("BODY"), call.num)
  BY <1>1, <1>5 DEF Outcomes
<1>7. o.st = "ready" /\ o.to = <<>> /\ o.gets \in SUBSET Range(to) /\ o.answer = Each(call.num, to, o.gets)
  BY <1>1, <1>2, <1>3, <1>6, DataCases
<1>8. PICK g : g = o.gets
  OBVIOUS
<1>9. PICK lines : lines = Each(call.num, to, g)
  OBVIOUS
<1>10. /\ lines \in Seq(Lines) /\ Len(lines) = Len(to)
       /\ \A i \in 1..Len(lines) : /\ lines[i].of = call.num /\ ~lines[i].more
                                   /\ lines[i].code = 250 <=> to[i] \in g
  BY <1>2, <1>9, EachLine
<1>11. toClient' = lines
  BY <1>1, <1>5, <1>7, <1>8, <1>9, <1>10
<1>12. Gets' = g
  <2>1. delivered' = IF g = {} THEN <<>> ELSE Append(<<>>, g)
    BY <1>1, <1>5, <1>8
  <2>2. CASE g = {}
    <3>1. delivered' = <<>>
      BY <2>1, <2>2
    <3>2. Range(<<>>) = {}
      BY DEF Range
    <3>3. QED
      BY <2>2, <3>1, <3>2 DEF Gets
  <2>3. CASE g # {}
    <3>1. delivered' = << g >>
      BY <2>1, <2>3
    <3>2. Range(<< g >>) = {g}
      BY DEF Range
    <3>3. QED
      BY <3>1, <3>2 DEF Gets
  <2>4. QED
    BY <2>2, <2>3
<1>13. lines # <<>> /\ Len(to) \in Nat
  BY <1>1, <1>2, <1>10, EmptySeq
<1>14. /\ call' = call /\ toServer' = <<>> /\ Op' = Op /\ server' = "ready" /\ to' = <<>>
  BY <1>3, <1>5, <1>7 DEF Serve, sessionVars, Op
<1>15. Len(call.codes) = 0 /\ \A i \in 1..Len(lines) : call.rcpts[Len(call.codes) + i] = to[i]
  BY <1>1
<1>16. g \subseteq Range(call.rcpts)
  BY <1>1, <1>7, <1>8
<1>17. ServedEach'
  BY <1>1, <1>10, <1>11, <1>12, <1>13, <1>14, <1>15, <1>16 DEF ServedEach
<1>18. QED
  BY <1>17

\* The answer to any other command.
LEMMA CommandServed ==
  ASSUME SmtpInv, Serve, ~late, call # Idle, Asked, Op \notin Texts \cup {"LBODY"}, server # "closed"
  PROVE  Served'
<1>1. /\ agreed = to /\ toClient = <<>> /\ delivered = <<>> /\ Fits(Op, server)
      /\ toServer = Wire(call.steps[1]) /\ call.num + Len(toServer) = sent + 1
  BY DEF Asked
<1>2. /\ call.steps[1] \in StepSet /\ call.num \in Nat /\ sent \in Nat
      /\ to \in Seq(Rcpts) /\ toServer \in Seq(StepSet) /\ Op \in Ops /\ server \in Places
  BY <1>1, CallFacts DEF SmtpInv, Typed
<1>3. PICK c : c = call.steps[1]
  OBVIOUS
<1>4. toServer = << c >> /\ Head(toServer) = c /\ Tail(toServer) = <<>> /\ c.op = Op /\ c \in StepSet /\ Len(toServer) = 1
  <2>1. toServer = << c >>
    BY <1>1, <1>2, <1>3, WireFacts DEF Op
  <2>2. QED
    BY <1>2, <1>3, <2>1 DEF Op
<1>5. sent - Len(toServer) + 1 = call.num
  BY <1>1, <1>2, <1>4
<1>6. PICK o \in Outcomes(c, call.num) :
        /\ toClient' = toClient \o o.answer /\ server' = o.st /\ to' = o.to
        /\ delivered' = IF o.gets = {} THEN delivered ELSE Append(delivered, o.gets)
  BY <1>4, <1>5 DEF Serve
<1>7. Op # "QUIT"
  <2>1. Shape
    BY DEF SmtpInv, Structured
  <2>2. CASE call.fn \in {"send", "send_twice"}
    <3>1. PICK p \in Nat : Plan(call.steps, call.rcpts, p)
      BY <2>1, <2>2 DEF Shape, SendShape
    <3>2. OnPlan(call.steps[1], call.rcpts, p + 1)
      BY <3>1, CallFacts DEF Plan, SmtpInv
    <3>3. QED
      BY <3>2 DEF OnPlan, Op, Texts, Quits
  <2>3. CASE call.fn = "init"
    BY <2>1, <2>3 DEF Shape, InitShape
  <2>4. CASE call.fn \notin {"send", "send_twice", "init"}
    BY <2>1, <2>4 DEF Shape, FnOf, AuthOps
  <2>5. QED
    BY <2>2, <2>3, <2>4
<1>8. PICK code \in Codes : OutcomeOf(o, c, call.num, code)
  <2>1. CASE Op \in {"RESPONSE", "TOKEN"}
    <3>1. server = "sasl"
      BY <1>1, <2>1 DEF Fits, Texts, Quits
    <3>2. o \in SaslOutcomes(c, call.num)
      BY <1>6, <3>1 DEF Outcomes
    <3>3. PICK code \in Codes : /\ o.answer = One(call.num, code) /\ o.gets = {} /\ o.to = to
                                /\ o.st = (IF code = 334 THEN "sasl" ELSE "ready")
      BY <1>2, <1>4, <3>2, SaslCases
    <3>4. NotedTo(c, code, to) = to /\ c.op # "DATA" /\ c.op \in AuthOps /\ c.op # "QUIT"
      BY <1>4, <2>1 DEF NotedTo, ClearOps, Texts, Quits, AuthOps
    <3>5. o.st \in Places
      BY <3>3 DEF Places
    <3>6. OutcomeOf(o, c, call.num, code)
      BY <3>3, <3>4, <3>5 DEF OutcomeOf
    <3>7. QED
      BY <3>6
  <2>2. CASE Op \notin {"RESPONSE", "TOKEN"}
    <3>1. server \in Places \ {"data", "sasl", "closed"}
      BY <1>1, <1>2, <2>2 DEF Fits
    <3>2. o \in CommandOutcomes(c, call.num)
      BY <1>6, <3>1 DEF Outcomes
    <3>3. QED
      BY <1>2, <1>4, <3>1, <3>2, CommandCases
  <2>3. QED
    BY <2>1, <2>2
<1>9. /\ call' = call /\ agreed' = agreed /\ toServer' = <<>> /\ Op' = Op
      /\ server' = o.st /\ to' = o.to /\ delivered' = <<>>
  BY <1>1, <1>4, <1>6, <1>8 DEF Serve, sessionVars, Op, OutcomeOf
<1>10. Verdict(code)'
  <2>1. o.to = NotedTo(c, code, to)
    BY <1>4, <1>7, <1>8 DEF OutcomeOf
  <2>2. QED
    BY <1>1, <1>3, <1>4, <1>8, <1>9, <2>1 DEF Verdict, OutcomeOf
<1>11. CASE o.answer = One(call.num, code)
  <2>1. PICK one : one = One(call.num, code)
    OBVIOUS
  <2>2. /\ one \in Seq(Lines) /\ Len(one) = 1 /\ one # <<>>
        /\ one[1].of = call.num /\ one[1].code = code /\ ~one[1].more
    BY <1>2, <2>1, OneFacts
  <2>3. toClient' = one
    BY <1>1, <1>6, <1>11, <2>1, <2>2
  <2>4. LastLine(1)'
    BY <1>9, <1>10, <2>2, <2>3 DEF LastLine
  <2>5. QED
    BY <1>9, <2>2, <2>3, <2>4 DEF Served
<1>12. CASE o.answer = Two(call.num) /\ code = 250
  <2>1. PICK lines : lines = Two(call.num)
    OBVIOUS
  <2>2. /\ lines \in Seq(Lines) /\ Len(lines) = 2 /\ lines # <<>>
        /\ lines[1].of = call.num /\ lines[1].more
        /\ lines[2].of = call.num /\ ~lines[2].more /\ lines[2].code = code
    BY <1>2, <1>12, <2>1, TwoLines
  <2>3. toClient' = lines
    BY <1>1, <1>6, <1>12, <2>1, <2>2
  <2>4. LastLine(2)'
    <3>1. 2 <= Len(lines) /\ Verdict(lines[2].code)'
      BY <1>10, <2>2
    <3>2. QED
      BY <1>9, <2>2, <2>3, <3>1 DEF LastLine
  <2>5. toClient' # <<>>
    BY <2>2, <2>3
  <2>6. QED
    BY <1>9, <2>2, <2>3, <2>4, <2>5 DEF Served, Texts
<1>13. QED
  BY <1>8, <1>11, <1>12 DEF OutcomeOf

\* The server takes the QUIT behind a text.
LEMMA QuitServed ==
  ASSUME SmtpInv, Serve, ~late, call # Idle, Served
  PROVE  Served'
<1>1. toServer # <<>> /\ server # "closed"
  BY DEF Serve
<1>2. toServer = << Step("QUIT") >> /\ toClient # <<>> /\ Op # "LBODY"
  BY <1>1 DEF Served
<1>3. Op \in Quits
  BY <1>1 DEF Served, LastLine
<1>4. LastLine(1) /\ ~toClient[1].more
  BY <1>3 DEF Served
<1>5. Verdict(toClient[1].code) /\ server \in Places
  BY <1>4 DEF LastLine, SmtpInv, Typed
<1>6. server \in Places \ {"data", "sasl", "closed"}
  BY <1>1, <1>3, <1>5 DEF Verdict, Quits, AuthOps
<1>7. /\ Head(toServer) = Step("QUIT") /\ Tail(toServer) = <<>> /\ Step("QUIT") \in StepSet
      /\ Step("QUIT").op = "QUIT" /\ Len(toServer) = 1
  BY <1>2, StepFacts DEF Ops
<1>8. sent - Len(toServer) + 1 \in Nat
  BY <1>7 DEF SmtpInv, Typed, Numbered
<1>9. PICK of \in Nat : of = sent - Len(toServer) + 1
  BY <1>8
<1>10. PICK o \in Outcomes(Step("QUIT"), of) :
        /\ toClient' = toClient \o o.answer /\ server' = o.st /\ to' = o.to
        /\ delivered' = IF o.gets = {} THEN delivered ELSE Append(delivered, o.gets)
  BY <1>7, <1>9 DEF Serve
<1>11. o = Does(One(of, 221), "closed", <<>>, {})
  BY <1>6, <1>7, <1>10 DEF Outcomes, CommandOutcomes
<1>12. o.answer = One(of, 221) /\ o.st = "closed" /\ o.gets = {}
  BY <1>11, DoesFacts
<1>13. PICK one : one = One(of, 221)
  OBVIOUS
<1>14. one \in Seq(Lines)
  <2>1. 221 \in Codes
    BY DEF Codes
  <2>2. QED
    BY <1>13, <2>1, OneFacts
<1>15. /\ call' = call /\ agreed' = agreed /\ Op' = Op /\ toServer' = <<>> /\ server' = "closed"
       /\ delivered' = delivered /\ toClient' = toClient \o one
  BY <1>7, <1>10, <1>12, <1>13 DEF Serve, sessionVars, Op
<1>16. /\ toClient'[1] = toClient[1] /\ 1 <= Len(toClient') /\ toClient' # <<>>
  <2>1. toClient \in Seq(Lines) /\ Len(toClient) \in Nat \ {0}
    BY <1>2, EmptySeq DEF SmtpInv, Typed
  <2>2. /\ toClient' \in Seq(Lines) /\ Len(toClient') = Len(toClient) + Len(one) /\ Len(one) \in Nat
        /\ \A p \in 1..Len(toClient) : toClient'[p] = toClient[p]
    BY <1>14, <1>15, <2>1, ConcatFacts
  <2>3. Len(toClient') >= 1 /\ toClient'[1] = toClient[1]
    BY <2>1, <2>2
  <2>4. QED
    BY <2>2, <2>3, EmptyFacts
<1>17. PICK code : code = toClient[1].code /\ Verdict(code)'
  <2>1. PICK code : code = toClient[1].code
    OBVIOUS
  <2>2. Verdict(code)
    BY <1>5, <2>1
  <2>3. Verdict(code)'
    BY <1>15, <2>2 DEF Verdict
  <2>4. QED
    BY <2>1, <2>3
<1>18. LastLine(1)'
  BY <1>3, <1>4, <1>15, <1>16, <1>17 DEF LastLine
<1>19. QED
  BY <1>2, <1>4, <1>15, <1>16, <1>18 DEF Served

\* The server takes a text sent again, or the QUIT behind it.
LEMMA RepeatServed ==
  ASSUME SmtpInv, Serve, ~late, call # Idle, Again
  PROVE  Repeated'
<1>1. toServer # <<>> /\ server # "closed" /\ Repeated
  BY DEF Serve, SmtpInv, Phase
<1>2. /\ call.steps[1] \in StepSet /\ call.num \in Nat /\ sent \in Nat /\ Op \in Texts
      /\ toClient \in Seq(Lines) /\ delivered = << Range(call.rcpts) >> /\ server \in Places
  <2>1. Op \in Texts
    BY ShapeFacts, CallFacts, EmptyFacts DEF SmtpInv, Again, Single
  <2>2. QED
    BY <1>1, <2>1, CallFacts DEF SmtpInv, Typed, Repeated
<1>3. UNCHANGED <<call, late>> /\ toServer' = Tail(toServer)
  BY DEF Serve
<1>4. /\ Step("BODY") \in StepSet /\ Step("BODY").op = "BODY"
      /\ Step("QUIT") \in StepSet /\ Step("QUIT").op = "QUIT"
  BY StepFacts DEF Ops
<1>5. CASE toServer = Wire(call.steps[1]) /\ toClient = <<>> /\ call.num + Len(toServer) = sent + 1
  <2>1. toServer = IF Op \in Quits THEN << Step("BODY"), Step("QUIT") >> ELSE << Step("BODY") >>
    BY <1>2, <1>5, WireFacts DEF Op, Texts
  <2>2. /\ Head(toServer) = Step("BODY") /\ Len(toServer) \in {1, 2}
        /\ Tail(toServer) = <<>> \/ Tail(toServer) = << Step("QUIT") >>
    BY <1>4, <2>1
  <2>3. sent - Len(toServer) + 1 = call.num
    BY <1>2, <1>5, <2>2
  <2>4. PICK o \in Outcomes(Step("BODY"), call.num) :
          /\ toClient' = toClient \o o.answer /\ server' = o.st
          /\ delivered' = IF o.gets = {} THEN delivered ELSE Append(delivered, o.gets)
    BY <2>2, <2>3 DEF Serve
  <2>5. PICK one : one = One(call.num, 500)
    OBVIOUS
  <2>6. /\ one \in Seq(Lines) /\ Len(one) = 1
        /\ one[1].of = call.num /\ one[1].code = 500 /\ ~one[1].more
    <3>1. 500 \in Codes
      BY DEF Codes
    <3>2. QED
      BY <1>2, <2>5, <3>1, OneFacts
  <2>7. PICK two : two = one \o one
    OBVIOUS
  <2>8. two \in Seq(Lines) /\ two[1] = one[1] /\ two # <<>>
    <3>1. /\ two \in Seq(Lines) /\ Len(two) = Len(one) + Len(one)
          /\ \A q \in 1..Len(one) : two[q] = one[q]
      BY <2>6, <2>7, ConcatFacts
    <3>2. Len(two) = 2 /\ two[1] = one[1]
      BY <2>6, <3>1
    <3>3. QED
      BY <3>1, <3>2, EmptyFacts
  <2>9. o = Does(two, server, to, {})
    <3>1. o \in CommandOutcomes(Step("BODY"), call.num)
      BY <1>1, <2>4 DEF Outcomes, Repeated
    <3>2. o = Does(One(call.num, 500) \o One(call.num, 500), server, to, {})
      BY <1>4, <3>1 DEF CommandOutcomes
    <3>3. QED
      BY <2>5, <2>7, <3>2
  <2>10. o.answer = two /\ o.st = server /\ o.gets = {}
    BY <2>9, DoesFacts
  <2>11. toClient' = two
    BY <1>5, <2>4, <2>8, <2>10
  <2>12. server' = server /\ delivered' = delivered
    BY <2>4, <2>10
  <2>13. QED
    BY <1>1, <1>3, <2>2, <2>6, <2>8, <2>11, <2>12 DEF Repeated
<1>6. CASE /\ toClient # <<>> /\ toClient[1].of = call.num /\ toClient[1].code = 500
           /\ ~toClient[1].more /\ toServer = << Step("QUIT") >>
  <2>1. Head(toServer) = Step("QUIT") /\ Tail(toServer) = <<>> /\ Len(toServer) = 1
    BY <1>6
  <2>2. sent - Len(toServer) + 1 \in Nat
    BY <1>2, <2>1
  <2>3. PICK of \in Nat : of = sent - Len(toServer) + 1
    BY <2>2
  <2>4. PICK o \in Outcomes(Step("QUIT"), of) :
          /\ toClient' = toClient \o o.answer /\ server' = o.st
          /\ delivered' = IF o.gets = {} THEN delivered ELSE Append(delivered, o.gets)
    BY <2>1, <2>3 DEF Serve
  <2>5. o = Does(One(of, 221), "closed", <<>>, {})
    <3>1. o \in CommandOutcomes(Step("QUIT"), of)
      BY <1>1, <2>4 DEF Outcomes, Repeated
    <3>2. QED
      BY <1>4, <3>1 DEF CommandOutcomes
  <2>6. o.answer = One(of, 221) /\ o.st = "closed" /\ o.gets = {}
    BY <2>5, DoesFacts
  <2>7. PICK one : one = One(of, 221)
    OBVIOUS
  <2>8. one \in Seq(Lines)
    <3>1. 221 \in Codes
      BY DEF Codes
    <3>2. QED
      BY <2>7, <3>1, OneFacts
  <2>9. /\ toClient' = toClient \o one /\ toServer' = <<>> /\ server' = "closed"
        /\ delivered' = delivered
    BY <1>3, <2>1, <2>4, <2>6, <2>7
  <2>10. toClient'[1] = toClient[1] /\ toClient' # <<>>
    BY <1>2, <1>6, <2>8, <2>9
  <2>11. QED
    BY <1>1, <1>3, <1>6, <2>9, <2>10 DEF Repeated
<1>7. QED
  BY <1>1, <1>5, <1>6 DEF Repeated

LEMMA ServeInv ==
  ASSUME SmtpInv, Serve
  PROVE  SmtpInv'
<1>1. toServer # <<>> /\ server # "closed" /\ toServer \in Seq(StepSet) /\ sent \in Nat /\ Len(toServer) <= sent
  BY DEF Serve, SmtpInv, Typed, Numbered
<1>2. /\ Head(toServer) = toServer[1] /\ toServer[1] \in StepSet /\ Tail(toServer) \in Seq(StepSet)
      /\ Len(Tail(toServer)) = Len(toServer) - 1 /\ Len(toServer) \in Nat \ {0}
  BY <1>1, TailFacts
<1>3. PICK of \in Nat : of = sent - Len(toServer) + 1
  <2>1. sent - Len(toServer) + 1 \in Nat
    BY <1>1, <1>2
  <2>2. QED
    BY <2>1
<1>4. PICK o \in Outcomes(toServer[1], of) :
        /\ toClient' = toClient \o o.answer /\ server' = o.st /\ to' = o.to
        /\ delivered' = IF o.gets = {} THEN delivered ELSE Append(delivered, o.gets)
  BY <1>2, <1>3 DEF Serve
<1>5. toServer' = Tail(toServer) /\ UNCHANGED <<sessionVars, call, result, lmtp, sent, countVars, late>>
  BY DEF Serve
<1>6. OutcomeTyped(o, of)
  BY <1>1, <1>2, <1>4, OutcomesTyped DEF SmtpInv
<1>7. PICK lines \in Seq(Lines) : lines = o.answer /\ \A p \in 1..Len(lines) : lines[p].of = of
  BY <1>6 DEF OutcomeTyped
<1>8. /\ toClient' \in Seq(Lines) /\ Len(toClient') = Len(toClient) + Len(lines)
      /\ Len(toClient) \in Nat /\ Len(lines) \in Nat
      /\ \A p \in 1..Len(toClient) : toClient'[p] = toClient[p]
      /\ \A p \in (Len(toClient) + 1)..(Len(toClient) + Len(lines)) : toClient'[p] = lines[p - Len(toClient)]
  <2>1. toClient \in Seq(Lines) /\ toClient' = toClient \o lines
    BY <1>4, <1>7 DEF SmtpInv, Typed
  <2>2. QED
    BY <2>1, ConcatFacts
<1>9. Typed'
  <2>1. delivered' \in Seq(SUBSET Rcpts)
    BY <1>4, <1>6, AppendFacts DEF SmtpInv, Typed, OutcomeTyped
  <2>2. server' \in Places /\ to' \in Seq(Rcpts)
    BY <1>4, <1>6 DEF OutcomeTyped
  <2>3. QED
    BY <1>2, <1>5, <1>8, <2>1, <2>2 DEF SmtpInv, Typed, sessionVars
<1>10. Numbered'
  <2>1. ASSUME NEW p \in 1..Len(toClient')
        PROVE  1 <= toClient'[p].of /\ toClient'[p].of <= sent
    <3>1. CASE p <= Len(toClient)
      <4>1. toClient'[p] = toClient[p] /\ p \in 1..Len(toClient)
        BY <1>8, <3>1
      <4>2. QED
        BY <4>1 DEF SmtpInv, Numbered
    <3>2. CASE p > Len(toClient)
      <4>1. toClient'[p] = lines[p - Len(toClient)] /\ p - Len(toClient) \in 1..Len(lines)
        BY <1>8, <3>2, SMTT(60)
      <4>2. toClient'[p].of = of
        BY <1>7, <4>1
      <4>3. QED
        BY <1>1, <1>2, <1>3, <4>2
    <3>3. QED
      BY <1>8, <3>1, <3>2
  <2>2. Len(toServer') <= sent' /\ sent' = sent
    BY <1>1, <1>2, <1>5
  <2>3. QED
    BY <2>1, <2>2 DEF Numbered
<1>11. stream
  BY <1>1 DEF SmtpInv, Structured, Typed
<1>12. Structured'
  <2>1. Shape => Shape'
    BY <1>5 DEF Shape, Op, Single, InitShape, SendShape, FnOf, sessionVars
  <2>2. server' = "data" => to' # <<>>
    BY <1>4, <1>6 DEF OutcomeTyped
  <2>3. QED
    BY <1>5, <1>11, <2>1, <2>2 DEF SmtpInv, Structured, sessionVars
<1>13. ASSUME ~late
       PROVE  call # Idle /\ (IF Again THEN Repeated' ELSE Served' \/ ServedEach')
  <2>1. call # Idle /\ (~Again => Asked \/ Served)
    BY <1>1, <1>11, <1>13 DEF SmtpInv, Phase, Quiet, ServedEach, Lost
  <2>2. CASE Again
    BY <1>13, <2>1, <2>2, RepeatServed
  <2>3. CASE ~Again
    BY <1>1, <1>13, <2>1, <2>3, TextServed, EachServed, CommandServed, QuitServed
  <2>4. QED
    BY <2>1, <2>2, <2>3
<1>14. Phase'
  BY <1>5, <1>13 DEF Phase, Again, Single
<1>15. QED
  BY <1>9, <1>10, <1>12, <1>14 DEF SmtpInv

-----------------------------------------------------------------------------
LEMMA ReturnsFacts ==
  ASSUME Typed, call # Idle, NEW ok \in BOOLEAN, NEW code \in Results, NEW codes \in Seq(Results),
         Returns(ok, code, codes)
  PROVE  /\ call' = Idle /\ result' \in Returneds /\ result'.fn = call.fn /\ result'.ok = ok
         /\ result'.code = code /\ result'.rcpts = call.rcpts /\ result'.codes = codes
         /\ stream' \in BOOLEAN /\ sent' = sent
         /\ ~stream' <=> (Op = "BODYQUIT" \/ (Op = "CONNECT" /\ ~ok))
         /\ toServer' = IF stream' THEN toServer ELSE <<>>
<1>1. call.fn \in Fns /\ call.rcpts \in Seq(Rcpts) /\ Head(call.steps) = call.steps[1]
  BY CallFacts
<1>2. result' = Returned(call.fn, ok, code, call.rcpts, codes)
  BY DEF Returns
<1>3. /\ result' \in Returneds /\ result'.fn = call.fn /\ result'.ok = ok
      /\ result'.code = code /\ result'.rcpts = call.rcpts /\ result'.codes = codes
  BY <1>1, <1>2 DEF Returned, Returneds
<1>4. stream' = ~(Op = "BODYQUIT" \/ (Op = "CONNECT" /\ ~ok))
  BY <1>1 DEF Returns, Op
<1>5. QED
  BY <1>3, <1>4 DEF Returns

LEMMA ContinuesFacts ==
  ASSUME Typed, Numbered, call # Idle, NEW steps \in Seq(StepSet), steps # <<>>, Continues(steps)
  PROVE  /\ call' \in Calls /\ call'.fn = call.fn /\ call'.steps = steps /\ call'.num = sent + 1
         /\ call'.rcpts = call.rcpts /\ call'.codes = call.codes /\ call' # Idle
         /\ stream' = stream /\ result' = result
         /\ toServer' \in Seq(StepSet) /\ sent' \in Nat /\ sent' >= sent /\ Len(toServer') <= sent'
         /\ toServer = <<>> => toServer' = Wire(steps[1])
         /\ sent' = sent + Len(Wire(steps[1]))
<1>1. steps[1] \in StepSet /\ Head(steps) = steps[1]
  BY TailFacts
<1>2. Sends(steps[1]) /\ call' = [call EXCEPT !.steps = steps, !.num = sent + 1]
  BY <1>1 DEF Continues
<1>3. call \in Calls /\ sent + 1 \in Nat
  BY DEF Typed
<1>4. /\ call' \in Calls /\ call'.fn = call.fn /\ call'.steps = steps /\ call'.num = sent + 1
      /\ call'.rcpts = call.rcpts /\ call'.codes = call.codes
  BY <1>2, <1>3 DEF Calls
<1>5. call' # Idle
  BY <1>4, IdleFacts
<1>6. QED
  BY <1>1, <1>2, <1>4, <1>5, SendsFacts DEF Continues

\* What an answer makes of a call.
Ok(code) == code \in Accepts(Op)
Challenge(code) == code = 334 /\ Op \in AuthOps

EachRead(code) ==
  Op = "LBODY" /\ Returns(\A i \in DOMAIN Append(call.codes, code) : Append(call.codes, code)[i] = 250,
                          code, Append(call.codes, code))
OneRead(code) == /\ Op = "LBODY" /\ Len(call.codes) + 1 # Len(call.rcpts)
                 /\ call' = [call EXCEPT !.codes = Append(call.codes, code)]
                 /\ UNCHANGED <<stream, result, toServer, sent>>
Responds(op) == Op \in AuthOps /\ op \in {"RESPONSE", "TOKEN"} /\ Continues(<< Step(op) >>)
GivesUp == Op \in AuthOps /\ Returns(FALSE, 334, <<>>)
Proceeds(code) == /\ Op # "LBODY" /\ ~Challenge(code) /\ (Op = "EHLO") # Ok(code)
                  /\ Tail(call.steps) # <<>> /\ Continues(Tail(call.steps))
Ends(code) == /\ Op # "LBODY" /\ ~Challenge(code)
              /\ (Op = "EHLO") # Ok(code) => Tail(call.steps) = <<>>
              /\ Returns(Ok(code), code, <<>>)

LEMMA AnsweredCases ==
  ASSUME Typed, call # Idle, NEW code \in Results, Answered(code)
  PROVE  \/ EachRead(code) /\ Len(call.codes) + 1 = Len(call.rcpts)
         \/ OneRead(code)
         \/ code = 334 /\ \E op \in {"RESPONSE", "TOKEN"} : Responds(op)
         \/ code = 334 /\ GivesUp
         \/ Proceeds(code)
         \/ Ends(code)
<1>1. Head(call.steps) = call.steps[1] /\ call.codes \in Seq(Results)
  BY CallFacts
<1>2. Len(Append(call.codes, code)) = Len(call.codes) + 1
  BY <1>1, AppendFacts
<1>3. CASE Op = "LBODY"
  <2>1. LmtpAnswered(code)
    BY <1>1, <1>3 DEF Answered, Op
  <2>2. QED
    BY <1>2, <1>3, <2>1 DEF LmtpAnswered, AllRead, EachRead, OneRead
<1>4. CASE Op # "LBODY" /\ Challenge(code)
  <2>1. Challenged(Op) /\ code = 334 /\ Op \in AuthOps
    BY <1>1, <1>4 DEF Answered, Op, Challenge, AuthOps
  <2>2. QED
    BY <2>1 DEF Challenged, Responds, GivesUp
<1>5. CASE Op # "LBODY" /\ ~Challenge(code)
  BY <1>1, <1>5 DEF Answered, Op, Challenge, AuthOps, Proceeds, Ends, Ok
<1>6. QED
  BY <1>3, <1>4, <1>5

\* The list of the caller after an answer.
LEMMA NotedFacts ==
  ASSUME Typed, call # Idle, NEW code \in Results, Noted(code)
  PROVE  /\ esmtp' \in BOOLEAN /\ agreed' \in Seq(Rcpts)
         /\ Op \notin Texts \cup {"LBODY"} => agreed' = NotedTo(call.steps[1], code, agreed)
         /\ Op \in Texts \cup {"LBODY"} => agreed' = IF call' = Idle THEN <<>> ELSE agreed
<1>1. /\ Head(call.steps) = call.steps[1] /\ call.steps[1] \in StepSet /\ Op = call.steps[1].op
      /\ agreed \in Seq(Rcpts) /\ esmtp \in BOOLEAN
  BY CallFacts DEF Op, Typed
<1>2. esmtp' \in BOOLEAN
  BY <1>1 DEF Noted
<1>3. agreed' = CASE Ok(code) /\ Op = "RCPT" -> Append(agreed, call.steps[1].to)
                  [] Ok(code) /\ Op \in ClearOps -> <<>>
                  [] Op \in Texts \cup {"LBODY"} /\ call' = Idle -> <<>>
                  [] OTHER -> agreed
  <2>1. Texts \cup {"LBODY"} = {"BODY", "LBODY", "BODYQUIT", "BODYQUITKEEP"}
    BY DEF Texts, Quits
  <2>2. QED
    BY <1>1, <2>1 DEF Noted, Ok, ClearOps
<1>4. CASE Op = "RCPT"
  <2>1. agreed' = NotedTo(call.steps[1], code, agreed)
    BY <1>1, <1>3, <1>4 DEF Ok, NotedTo, ClearOps, Texts, Quits
  <2>2. Append(agreed, call.steps[1].to) \in Seq(Rcpts)
    BY <1>1, <1>4, AppendFacts DEF StepSet
  <2>3. QED
    BY <1>1, <1>2, <1>4, <2>1, <2>2 DEF NotedTo, ClearOps, Texts, Quits
<1>5. CASE Op \in Texts \cup {"LBODY"}
  <2>1. agreed' = IF call' = Idle THEN <<>> ELSE agreed
    BY <1>3, <1>5 DEF ClearOps, Texts, Quits
  <2>2. QED
    BY <1>1, <1>2, <1>5, <2>1
<1>6. CASE Op \notin Texts \cup {"LBODY", "RCPT"}
  <2>1. agreed' = NotedTo(call.steps[1], code, agreed)
    BY <1>1, <1>3, <1>6 DEF Ok, NotedTo
  <2>2. QED
    BY <1>1, <1>2, <1>6, <2>1 DEF NotedTo
<1>7. QED
  BY <1>4, <1>5, <1>6

\* A helper goes one step further along its plan.
LEMMA PlanStep ==
  ASSUME NEW steps \in Seq(StepSet), NEW rcpts \in Seq(Rcpts), NEW p \in Nat, Plan(steps, rcpts, p),
         steps # <<>>, Tail(steps) # <<>>
  PROVE  /\ Plan(Tail(steps), rcpts, p + 1) /\ OnPlan(steps[1], rcpts, p + 1)
         /\ steps[1].op \notin Quits /\ Len(steps) > 1 /\ Tail(steps) \in Seq(StepSet)
         /\ OnPlan(Tail(steps)[1], rcpts, p + 2)
<1>1. /\ Len(rcpts) \in Nat /\ Len(steps) \in Nat \ {0} /\ Tail(steps) \in Seq(StepSet)
      /\ Len(Tail(steps)) = Len(steps) - 1
      /\ \A i \in 1..(Len(steps) - 1) : Tail(steps)[i] = steps[i + 1]
  BY TailFacts, LenProperties
<1>2. Len(steps) > 1
  BY <1>1, EmptyFacts
<1>3. PICK rest : rest = Tail(steps)
  OBVIOUS
<1>4. ASSUME NEW i \in 1..Len(rest)
      PROVE  OnPlan(rest[i], rcpts, (p + 1) + i)
  <2>1. i + 1 \in 1..Len(steps) /\ rest[i] = steps[i + 1] /\ p + (i + 1) = (p + 1) + i
    BY <1>1, <1>3
  <2>2. OnPlan(steps[i + 1], rcpts, p + (i + 1))
    BY <2>1 DEF Plan
  <2>3. QED
    BY <2>1, <2>2
<1>5. ASSUME NEW i \in 1..(Len(rest) - 1)
      PROVE  rest[i].op \notin Quits
  <2>1. i + 1 \in 1..(Len(steps) - 1) /\ rest[i] = steps[i + 1]
    BY <1>1, <1>3
  <2>2. QED
    BY <2>1 DEF Plan
<1>6. (p + 1) + Len(rest) > Len(rcpts) + 2
  BY <1>1, <1>3 DEF Plan
<1>7. Plan(rest, rcpts, p + 1)
  BY <1>4, <1>5, <1>6 DEF Plan
<1>8. OnPlan(steps[1], rcpts, p + 1) /\ steps[1].op \notin Quits
  BY <1>1, <1>2 DEF Plan
<1>9. OnPlan(rest[1], rcpts, p + 2)
  <2>1. 1 \in 1..Len(rest) /\ (p + 1) + 1 = p + 2
    BY <1>1, <1>2, <1>3
  <2>2. OnPlan(rest[1], rcpts, (p + 1) + 1)
    BY <1>4, <2>1
  <2>3. QED
    BY <2>1, <2>2
<1>10. QED
  BY <1>1, <1>2, <1>3, <1>7, <1>8, <1>9

\* The list grows with the recipients that are accepted.
LEMMA EnlistStep ==
  ASSUME NEW s \in StepSet, NEW rcpts \in Seq(Rcpts), NEW p \in Nat, NEW list \in Seq(Rcpts),
         NEW new \in Seq(Rcpts), NEW code, code \in Accepts(s.op), OnPlan(s, rcpts, p + 1),
         Enlisted(list, rcpts, p), s.op \notin Texts => new = NotedTo(s, code, list)
  PROVE  Enlisted(new, rcpts, p + 1)
<1>1. Len(rcpts) \in Nat /\ Len(list) \in Nat
  BY LenProperties
<1>2. CASE p = 0
  <2>1. s.op = "MAIL"
    BY <1>2 DEF OnPlan
  <2>2. new = <<>>
    BY <2>1 DEF NotedTo, ClearOps, Texts, Quits
  <2>3. Len(new) = 0
    BY <2>2
  <2>4. QED
    BY <1>1, <1>2, <2>3 DEF Enlisted
<1>3. CASE p >= 1 /\ p <= Len(rcpts)
  <2>1. s.op = "RCPT" /\ s.to = rcpts[p] /\ s.to \in Rcpts
    BY <1>1, <1>3 DEF OnPlan, StepSet
  <2>2. new = Append(list, s.to)
    BY <2>1 DEF NotedTo, Texts, Quits
  <2>3. Len(list) = p - 1 /\ \A i \in 1..(p - 1) : list[i] = rcpts[i]
    BY <1>1, <1>3 DEF Enlisted
  <2>4. /\ Len(new) = Len(list) + 1 /\ (\A i \in 1..Len(list) : new[i] = list[i]) /\ new[Len(list) + 1] = s.to
    BY <2>1, <2>2, AppendFacts
  <2>5. Len(new) = (p + 1) - 1 /\ \A i \in 1..((p + 1) - 1) : new[i] = rcpts[i]
    <3>1. Len(new) = p /\ new[p] = rcpts[p] /\ \A i \in 1..(p - 1) : new[i] = rcpts[i]
      BY <1>1, <2>1, <2>3, <2>4
    <3>2. QED
      BY <3>1
  <2>6. p + 1 # Len(rcpts) + 2
    BY <1>1, <1>3
  <2>7. QED
    BY <2>5, <2>6 DEF Enlisted
<1>4. CASE p = Len(rcpts) + 1
  <2>1. s.op = "DATA"
    BY <1>1, <1>4 DEF OnPlan
  <2>2. new = list
    BY <2>1 DEF NotedTo, ClearOps, Texts, Quits
  <2>3. Len(list) = Len(rcpts) /\ \A i \in 1..Len(list) : list[i] = rcpts[i]
    BY <1>1, <1>4 DEF Enlisted
  <2>4. list = rcpts
    BY <2>3, SeqEqual
  <2>5. ~(p + 1 <= Len(rcpts) + 1)
    BY <1>1, <1>4
  <2>6. QED
    BY <2>2, <2>4, <2>5 DEF Enlisted
<1>5. CASE p > Len(rcpts) + 1
  <2>1. ~(p + 1 <= Len(rcpts) + 1) /\ p + 1 # Len(rcpts) + 2
    BY <1>1, <1>5
  <2>2. QED
    BY <2>1 DEF Enlisted
<1>6. QED
  BY <1>1, <1>2, <1>3, <1>4, <1>5

\* An answer, or code 0 for none, is applied.  Whatever it leaves behind is late.
Moves(code) ==
  /\ Answered(code) /\ Noted(code) /\ lmtp' = lmtp /\ late' \in BOOLEAN
  /\ late => late'
  /\ code # 0 /\ Leaves => late'

CallKept ==
  /\ call' \in Calls /\ (call' = Idle <=> call'.steps = <<>>) /\ result' \in Returneds
  /\ stream' \in BOOLEAN /\ toServer' \in Seq(StepSet) /\ sent' \in Nat /\ sent' >= sent
  /\ Len(toServer') <= sent'
  /\ call' # Idle => stream' /\ Shape'
  /\ ~stream' => call' = Idle /\ toServer' = <<>>

LEMMA ReturnsKept ==
  ASSUME Typed, Numbered, call # Idle, NEW ok \in BOOLEAN, NEW code \in Results, NEW codes \in Seq(Results),
         Returns(ok, code, codes)
  PROVE  CallKept
<1>1. /\ call' = Idle /\ result' \in Returneds /\ stream' \in BOOLEAN /\ sent' = sent
      /\ toServer' = IF stream' THEN toServer ELSE <<>>
  BY ReturnsFacts
<1>2. toServer \in Seq(StepSet) /\ <<>> \in Seq(StepSet) /\ sent \in Nat /\ Len(toServer) <= sent
        /\ Len(<<>>) = 0
  BY DEF Typed, Numbered
<1>3. toServer' \in Seq(StepSet) /\ Len(toServer') <= sent'
  BY <1>1, <1>2
<1>4. call' \in Calls /\ call'.steps = <<>>
  BY <1>1, IdleFacts
<1>5. QED
  BY <1>1, <1>2, <1>3, <1>4 DEF CallKept

LEMMA OneReadKept ==
  ASSUME Typed, Numbered, Structured, call # Idle, NEW code \in Results, OneRead(code), lmtp' = lmtp
  PROVE  /\ CallKept /\ call' # Idle /\ call'.codes = Append(call.codes, code)
         /\ call'.rcpts = call.rcpts /\ call'.num = call.num /\ call'.steps = call.steps
         /\ stream' = stream /\ toServer' = toServer /\ sent' = sent
<1>1. /\ call \in Calls /\ call.steps # <<>> /\ call.codes \in Seq(Results) /\ call.rcpts \in Seq(Rcpts)
      /\ Op = "LBODY" /\ Shape /\ stream
  BY CallFacts DEF OneRead, Structured, Typed
<1>2. PICK codes : codes = Append(call.codes, code)
  OBVIOUS
<1>3. /\ codes \in Seq(Results) /\ Len(codes) = Len(call.codes) + 1
      /\ Len(call.codes) \in Nat /\ Len(call.rcpts) \in Nat
  BY <1>1, <1>2, AppendFacts, LenProperties
<1>4. call' = [call EXCEPT !.codes = codes]
  BY <1>2 DEF OneRead
<1>5. /\ call' \in Calls /\ call'.fn = call.fn /\ call'.steps = call.steps /\ call'.num = call.num
      /\ call'.rcpts = call.rcpts /\ call'.codes = codes
  BY <1>1, <1>3, <1>4 DEF Calls
<1>6. call' # Idle
  BY <1>1, <1>5, IdleFacts
<1>7. Len(codes) < Len(call.rcpts)
  <2>1. Len(call.codes) < Len(call.rcpts) /\ Len(call.codes) + 1 # Len(call.rcpts)
    BY <1>1 DEF Shape, OneRead
  <2>2. QED
    BY <1>3, <2>1
<1>8. Shape'
  <2>1. call.fn = "lmtp_data_message"
    BY <1>1, ShapeFacts
  <2>2. Single /\ FnOf("LBODY", call.fn)
    BY <1>1, <2>1 DEF Shape
  <2>3. Single' /\ FnOf("LBODY", call.fn)'
    BY <1>5, <2>2 DEF Single, FnOf
  <2>4. Op' = "LBODY"
    BY <1>1, <1>5 DEF Op
  <2>5. QED
    BY <1>5, <1>7, <2>1, <2>3, <2>4 DEF Shape
<1>9. UNCHANGED <<stream, result, toServer, sent>>
  BY DEF OneRead
<1>10. CallKept
  BY <1>1, <1>5, <1>6, <1>8, <1>9 DEF CallKept, Typed, Numbered
<1>11. QED
  BY <1>2, <1>5, <1>6, <1>9, <1>10

\* The client has answered a challenge.
Responded(op) ==
  /\ call' # Idle /\ call'.steps = << Step(op) >> /\ call'.num = sent + 1
  /\ call'.codes = <<>> /\ (toServer = <<>> => toServer' = << Step(op) >>)
  /\ sent' = sent + 1 /\ stream' = stream

LEMMA RespondsKept ==
  ASSUME Typed, Numbered, Structured, call # Idle, NEW op \in {"RESPONSE", "TOKEN"}, Responds(op), lmtp' = lmtp
  PROVE  CallKept /\ Responded(op)
<1>1. Step(op) \in StepSet /\ Step(op).op = op
  BY StepFacts DEF Ops
<1>2. PICK steps : steps = << Step(op) >>
  OBVIOUS
<1>3. steps \in Seq(StepSet) /\ steps # <<>> /\ steps[1] = Step(op) /\ Len(steps) = 1
  BY <1>1, <1>2
<1>4. Continues(steps) /\ Op \in AuthOps
  BY <1>2 DEF Responds
<1>5. Wire(Step(op)) = << Step(op) >>
  BY <1>1, WireFacts DEF Texts, Quits
<1>6. /\ call' \in Calls /\ call'.fn = call.fn /\ call'.steps = steps /\ call'.num = sent + 1
      /\ call'.codes = call.codes /\ call' # Idle
      /\ stream' = stream /\ result' = result
      /\ toServer' \in Seq(StepSet) /\ sent' \in Nat /\ sent' >= sent /\ Len(toServer') <= sent'
      /\ toServer = <<>> => toServer' = Wire(steps[1])
      /\ sent' = sent + Len(Wire(steps[1]))
  BY <1>3, <1>4, ContinuesFacts
<1>7. call.fn = "auth" /\ call.codes = <<>> /\ stream
  BY <1>4, ShapeFacts DEF AuthOps, Structured, Typed
<1>8. Shape'
  <2>1. Op' = op /\ Single'
    BY <1>1, <1>3, <1>6 DEF Op, Single
  <2>2. PICK fn : fn = "auth"
    OBVIOUS
  <2>3. FnOf(op, fn)'
    BY <2>2 DEF FnOf, AuthOps
  <2>4. QED
    BY <1>6, <1>7, <2>1, <2>2, <2>3 DEF Shape
<1>9. CallKept
  BY <1>3, <1>6, <1>7, <1>8 DEF CallKept, Typed
<1>10. QED
  BY <1>2, <1>3, <1>5, <1>6, <1>7, <1>9 DEF Responded

LEMMA ProceedsKept ==
  ASSUME Typed, Numbered, Structured, call # Idle, NEW code \in Results, Proceeds(code), Moves(code)
  PROVE  /\ CallKept /\ call' # Idle /\ call'.steps = Tail(call.steps) /\ call'.num = sent + 1
         /\ call'.rcpts = call.rcpts /\ call'.codes = <<>> /\ stream' = stream
         /\ toServer = <<>> => toServer' = Wire(call'.steps[1])
         /\ sent' = sent + Len(Wire(call'.steps[1]))
         /\ Op' \notin {"CONNECT", "LBODY", "RESPONSE", "TOKEN"}
         /\ Op' \in Texts => Op \in {"DATA"} \cup Texts
         /\ Op = "DATA" => Op' \in Texts /\ Ok(code)
         /\ Op' \in Texts /\ ~Again' => agreed' = call'.rcpts
         /\ Op \in Texts <=> Again'
<1>1. /\ call.steps \in Seq(StepSet) /\ call.steps # <<>> /\ call.rcpts \in Seq(Rcpts)
      /\ call.steps[1] \in StepSet /\ Head(call.steps) = call.steps[1]
  BY CallFacts
<1>2. PICK rest : rest = Tail(call.steps)
  OBVIOUS
<1>3. rest \in Seq(StepSet) /\ rest # <<>> /\ Continues(rest) /\ Op # "LBODY"
  BY <1>1, <1>2, TailFacts DEF Proceeds
<1>4. /\ call' \in Calls /\ call'.fn = call.fn /\ call'.steps = rest /\ call'.num = sent + 1
      /\ call'.rcpts = call.rcpts /\ call'.codes = call.codes /\ call' # Idle
      /\ stream' = stream /\ result' = result
      /\ toServer' \in Seq(StepSet) /\ sent' \in Nat /\ sent' >= sent /\ Len(toServer') <= sent'
      /\ toServer = <<>> => toServer' = Wire(rest[1])
      /\ sent' = sent + Len(Wire(rest[1]))
  BY <1>3, ContinuesFacts
<1>5. call.codes = <<>> /\ stream /\ Shape /\ call.fn \in {"init", "send", "send_twice"}
  BY <1>2, <1>3, ShapeFacts DEF Structured, Typed
<1>6. Op' = rest[1].op
  BY <1>4 DEF Op
<1>7. CASE call.fn = "init"
  <2>1. Op = "EHLO" /\ Len(call.steps) = 2 /\ call.steps[2].op = "HELO"
    BY <1>2, <1>3, <1>5, <1>7, ShapeFacts DEF Shape, InitShape
  <2>2. Len(rest) = 1 /\ rest[1] = call.steps[2]
    BY <1>1, <1>2, <2>1, TailFacts
  <2>3. Op' = "HELO" /\ Single'
    BY <1>4, <1>6, <2>1, <2>2 DEF Single
  <2>4. Shape'
    BY <1>4, <1>5, <1>7, <2>3 DEF Shape, InitShape
  <2>5. CallKept
    BY <1>3, <1>4, <1>5, <2>4 DEF CallKept, Typed
  <2>6. QED
    BY <1>2, <1>4, <1>5, <1>7, <2>1, <2>3, <2>5 DEF Texts, Quits, Again
<1>8. CASE call.fn \in {"send", "send_twice"}
  <2>1. PICK p \in Nat : /\ Plan(call.steps, call.rcpts, p) /\ Enlisted(agreed, call.rcpts, p)
                         /\ p + Len(call.steps) = Len(call.rcpts) + (IF call.fn = "send" THEN 3 ELSE 4)
    BY <1>5, <1>8 DEF Shape, SendShape
  <2>2. /\ Plan(rest, call.rcpts, p + 1) /\ OnPlan(call.steps[1], call.rcpts, p + 1)
        /\ Op \notin Quits /\ OnPlan(rest[1], call.rcpts, p + 2)
    BY <1>1, <1>2, <1>3, <2>1, PlanStep DEF Op
  <2>3. Op # "EHLO" /\ Ok(code)
    <3>1. Op # "EHLO"
      BY <1>8, ShapeFacts
    <3>2. QED
      BY <3>1 DEF Proceeds, Ok
  <2>4. Op \in Ops /\ code # 0
    BY <2>3, CallFacts, AcceptFacts DEF Ok
  <2>5. /\ agreed \in Seq(Rcpts) /\ agreed' \in Seq(Rcpts)
        /\ Op \notin Texts => agreed' = NotedTo(call.steps[1], code, agreed)
    BY <1>3, NotedFacts DEF Moves, Typed
  <2>6. Enlisted(agreed', call.rcpts, p + 1)
    <3>1. PICK new \in Seq(Rcpts) : new = agreed'
      BY <2>5
    <3>2. PICK s \in StepSet : s = call.steps[1] /\ Op = s.op
      BY <1>1 DEF Op
    <3>3. code \in Accepts(s.op) /\ (s.op \notin Texts => new = NotedTo(s, code, agreed))
            /\ OnPlan(s, call.rcpts, p + 1)
      BY <2>2, <2>3, <2>5, <3>1, <3>2 DEF Ok
    <3>4. Enlisted(new, call.rcpts, p + 1)
      BY <1>1, <2>1, <2>5, <3>3, EnlistStep
    <3>5. QED
      BY <3>1, <3>4
  <2>7. Len(call.rcpts) \in Nat /\ Len(call.steps) \in Nat /\ Len(rest) = Len(call.steps) - 1 /\ Len(rest) >= 1
    BY <1>1, <1>2, <1>3, TailFacts, LenProperties, EmptyFacts
  <2>8. Op \in Texts <=> p + 1 > Len(call.rcpts) + 2
    BY <2>2, <2>7 DEF OnPlan, Op, Texts, Quits
  <2>9. Op \in Texts <=> Again'
    <3>1. Again' <=> (call.fn = "send_twice" /\ Len(rest) = 1)
      BY <1>4 DEF Again, Single
    <3>2. PICK a \in Nat, b \in Nat : a = Len(call.rcpts) /\ b = Len(call.steps)
      BY <2>7
    <3>3. /\ Len(rest) = b - 1 /\ b - 1 >= 1 /\ (Op \in Texts <=> p + 1 > a + 2)
          /\ p + b = a + (IF call.fn = "send" THEN 3 ELSE 4)
      BY <2>1, <2>7, <2>8, <3>2
    <3>4. Op \in Texts <=> (call.fn = "send_twice" /\ b - 1 = 1)
      BY <1>8, <3>3
    <3>5. QED
      BY <3>1, <3>3, <3>4
  <2>10. SendShape'
    <3>1. ~lmtp'
      BY <1>5, <1>8 DEF Moves, Shape, SendShape
    <3>2. p + 1 \in Nat /\ (p + 1) + Len(rest) = Len(call.rcpts) + (IF call.fn = "send" THEN 3 ELSE 4)
      <4>1. PICK a \in Nat, b \in Nat : a = Len(call.rcpts) /\ b = Len(call.steps)
        BY <2>7
      <4>2. Len(rest) = b - 1 /\ p + b = a + (IF call.fn = "send" THEN 3 ELSE 4)
        BY <2>1, <2>7, <4>1
      <4>3. (p + 1) + (b - 1) = a + (IF call.fn = "send" THEN 3 ELSE 4) /\ p + 1 \in Nat
        BY <4>2
      <4>4. QED
        BY <4>1, <4>2, <4>3, Zenon
    <3>3. QED
      BY <1>4, <2>2, <2>6, <3>1, <3>2 DEF SendShape
  <2>11. Op' \in {"MAIL", "RCPT", "DATA"} \cup Texts
    BY <1>6, <2>2 DEF OnPlan
  <2>12. Shape'
    BY <1>4, <1>5, <1>8, <2>10, <2>11 DEF Shape, Texts, Quits
  <2>13. CallKept
    BY <1>3, <1>4, <1>5, <2>12 DEF CallKept, Typed
  <2>14. ASSUME Op' \in Texts
         PROVE  Op \in {"DATA"} \cup Texts /\ (~Again' => agreed' = call.rcpts)
    <3>1. p + 2 > Len(call.rcpts) + 2
      BY <1>6, <2>2, <2>7, <2>14 DEF OnPlan, Texts, Quits
    <3>2. Op \in {"DATA"} \cup Texts
      BY <2>2, <2>7, <3>1 DEF OnPlan, Op
    <3>3. ~Again' => p + 1 = Len(call.rcpts) + 2
      BY <2>7, <2>8, <2>9, <3>1
    <3>4. QED
      BY <2>6, <3>2, <3>3 DEF Enlisted
  <2>15. ASSUME Op = "DATA"
         PROVE  Op' \in Texts
    <3>1. p + 1 = Len(call.rcpts) + 2
      BY <2>2, <2>7, <2>15 DEF OnPlan, Op, Texts, Quits
    <3>2. QED
      BY <1>6, <2>2, <2>7, <3>1 DEF OnPlan
  <2>16. QED
    BY <1>2, <1>4, <1>5, <2>3, <2>9, <2>11, <2>13, <2>14, <2>15 DEF Texts, Quits
<1>9. QED
  BY <1>5, <1>7, <1>8

LEMMA MovesKept ==
  ASSUME Typed, Numbered, Structured, call # Idle, NEW code \in Results, Moves(code)
  PROVE  CallKept
<1>1. call.codes \in Seq(Results) /\ 334 \in Results /\ Answered(code) /\ lmtp' = lmtp /\ <<>> \in Seq(Results)
  BY CallFacts DEF Results, Codes, Moves
<1>2. CASE EachRead(code)
  <2>1. PICK codes : codes = Append(call.codes, code)
    OBVIOUS
  <2>2. PICK ok \in BOOLEAN : Returns(ok, code, codes)
    BY <1>2, <2>1 DEF EachRead
  <2>3. codes \in Seq(Results)
    BY <1>1, <2>1, AppendFacts
  <2>4. QED
    BY <2>2, <2>3, ReturnsKept
<1>3. CASE OneRead(code)
  BY <1>1, <1>3, OneReadKept
<1>4. CASE \E op \in {"RESPONSE", "TOKEN"} : Responds(op)
  BY <1>1, <1>4, RespondsKept
<1>5. CASE GivesUp
  BY <1>1, <1>5, ReturnsKept DEF GivesUp
<1>6. CASE Proceeds(code)
  BY <1>6, ProceedsKept
<1>7. CASE Ends(code)
  <2>1. Ok(code) \in BOOLEAN /\ Returns(Ok(code), code, <<>>)
    BY <1>7 DEF Ends, Ok
  <2>2. QED
    BY <1>1, <2>1, ReturnsKept
<1>8. QED
  BY <1>1, <1>2, <1>3, <1>4, <1>5, <1>6, <1>7, AnsweredCases

\* The client takes a line, and what is left is numbered as before.
LEMMA LineTaken ==
  ASSUME Typed, Numbered, toClient # <<>>
  PROVE  /\ Tail(toClient) \in Seq(Lines) /\ Len(Tail(toClient)) = Len(toClient) - 1
         /\ Len(toClient) \in Nat \ {0} /\ Head(toClient) = toClient[1]
         /\ \A p \in 1..(Len(toClient) - 1) : /\ Tail(toClient)[p] = toClient[p + 1]
                                              /\ 1 <= Tail(toClient)[p].of /\ Tail(toClient)[p].of <= sent
         /\ Tail(toClient) = <<>> <=> Len(toClient) = 1
         /\ toClient[1].code \in Codes /\ toClient[1].code # 0
<1>1. toClient \in Seq(Lines)
  BY DEF Typed
<1>2. /\ Tail(toClient) \in Seq(Lines) /\ Len(Tail(toClient)) = Len(toClient) - 1
      /\ Len(toClient) \in Nat \ {0} /\ Head(toClient) = toClient[1] /\ toClient[1] \in Lines
      /\ \A p \in 1..(Len(toClient) - 1) : Tail(toClient)[p] = toClient[p + 1]
  BY <1>1, TailFacts
<1>3. ASSUME NEW p \in 1..(Len(toClient) - 1)
      PROVE  1 <= Tail(toClient)[p].of /\ Tail(toClient)[p].of <= sent
  <2>1. p + 1 \in 1..Len(toClient) /\ Tail(toClient)[p] = toClient[p + 1]
    BY <1>2
  <2>2. QED
    BY <2>1 DEF Numbered
<1>4. Tail(toClient) = <<>> <=> Len(toClient) = 1
  BY <1>1, EmptyFacts
<1>5. toClient[1].code \in Codes /\ toClient[1].code # 0
  BY <1>2 DEF Lines, Codes
<1>6. QED
  BY <1>2, <1>3, <1>4, <1>5

LEMMA ReadMoreInv ==
  ASSUME SmtpInv, ReadMore
  PROVE  SmtpInv'
<1>1. /\ call # Idle /\ toClient # <<>> /\ toClient' = Tail(toClient)
      /\ UNCHANGED <<sessionVars, call, result, toServer, serverVars, delivered, sent, countVars, late>>
  BY DEF ReadMore
<1>2. Typed /\ Numbered /\ Structured
  BY DEF SmtpInv
<1>3. /\ Tail(toClient) \in Seq(Lines) /\ Len(Tail(toClient)) = Len(toClient) - 1
      /\ Len(toClient) \in Nat \ {0} /\ Head(toClient) = toClient[1]
      /\ \A p \in 1..(Len(toClient) - 1) : /\ Tail(toClient)[p] = toClient[p + 1]
                                           /\ 1 <= Tail(toClient)[p].of /\ Tail(toClient)[p].of <= sent
  BY <1>1, <1>2, LineTaken
<1>4. Typed' /\ Numbered'
  BY <1>1, <1>2, <1>3 DEF Typed, Numbered, sessionVars, serverVars
<1>5. Structured'
  <2>1. Shape => Shape'
    BY <1>1 DEF Shape, Op, Single, InitShape, SendShape, FnOf, sessionVars, serverVars
  <2>2. QED
    BY <1>1, <1>2, <2>1 DEF Structured, sessionVars, serverVars
<1>6. ASSUME ~late
      PROVE  Served' /\ ~Again
  <2>1. toClient[1].more
    BY <1>1, <1>3 DEF ReadMore, MoreLine
  <2>2. Served /\ ~Again
    <3>1. ~ServedEach /\ ~Repeated
      BY <1>1, <1>3, <2>1 DEF ServedEach, Repeated
    <3>2. QED
      BY <1>1, <1>6, <3>1 DEF SmtpInv, Phase, Asked, Lost
  <2>3. Op # "LBODY" /\ Op \notin Quits /\ LastLine(2)
    BY <2>1, <2>2 DEF Served
  <2>4. Len(toClient) = 2 /\ toServer = <<>> /\ toClient[2].of = call.num /\ ~toClient[2].more
    BY <2>3 DEF LastLine
  <2>5. PICK code : code = toClient[2].code
    OBVIOUS
  <2>6. Verdict(code)
    BY <2>3, <2>5 DEF LastLine
  <2>7. Verdict(code)'
    BY <1>1, <2>6 DEF Verdict, Op, sessionVars, serverVars
  <2>8. toClient'[1] = toClient[2] /\ Len(toClient') = 1 /\ toClient' # <<>>
    BY <1>1, <1>3, <2>4, EmptyFacts
  <2>9. call' = call /\ toServer' = <<>> /\ Op' = Op
    BY <1>1, <2>4 DEF Op
  <2>10. toClient'[1].code = code
    BY <2>5, <2>8
  <2>11. LastLine(1)'
    BY <2>4, <2>7, <2>8, <2>9, <2>10 DEF LastLine
  <2>12. QED
    BY <2>2, <2>3, <2>4, <2>8, <2>9, <2>11 DEF Served
<1>7. Phase'
  BY <1>1, <1>6 DEF Phase, Again, Single
<1>8. QED
  BY <1>4, <1>5, <1>7 DEF SmtpInv

\* The types and the shape of the call after an answer, or none.
LEMMA MovesStructured ==
  ASSUME Typed, Numbered, Structured, call # Idle, NEW code \in Results, Moves(code),
         UNCHANGED <<to, delivered>>,
         toClient' \in {toClient, <<>>} \/ (toClient # <<>> /\ toClient' = Tail(toClient)),
         stream' => server' = server,
         ~stream' => toClient' = <<>> /\ server' = "closed"
  PROVE  Typed' /\ Numbered' /\ Structured'
<1>1. CallKept /\ Noted(code) /\ lmtp' = lmtp /\ late' \in BOOLEAN
  BY MovesKept DEF Moves
<1>2. esmtp' \in BOOLEAN /\ agreed' \in Seq(Rcpts)
  BY <1>1, NotedFacts
<1>3. sent \in Nat /\ sent' \in Nat /\ sent' >= sent
  BY <1>1 DEF CallKept, Typed
<1>4. /\ toClient' \in Seq(Lines)
      /\ \A p \in 1..Len(toClient') : 1 <= toClient'[p].of /\ toClient'[p].of <= sent
  <2>1. CASE toClient' = toClient
    BY <2>1 DEF Typed, Numbered
  <2>2. CASE toClient # <<>> /\ toClient' = Tail(toClient)
    BY <2>2, LineTaken
  <2>3. CASE toClient' = <<>>
    BY <2>3
  <2>4. QED
    BY <2>1, <2>2, <2>3
<1>5. \A p \in 1..Len(toClient') : 1 <= toClient'[p].of /\ toClient'[p].of <= sent'
  <2>1. \A p \in 1..Len(toClient') : toClient'[p] \in Lines
    BY <1>4
  <2>2. \A p \in 1..Len(toClient') : toClient'[p].of \in Nat
    BY <2>1 DEF Lines
  <2>3. QED
    BY <1>3, <1>4, <2>2
<1>6. server' \in Places
  BY <1>1 DEF CallKept, Typed, Places
<1>7. Typed'
  BY <1>1, <1>2, <1>4, <1>6 DEF Typed, CallKept
<1>8. Numbered'
  BY <1>1, <1>5 DEF Numbered, CallKept
<1>9. Structured'
  BY <1>1 DEF Structured, CallKept
<1>10. QED
  BY <1>7, <1>8, <1>9

\* The answer is read.
Reads(code) ==
  /\ Moves(code) /\ late' = (late \/ Leaves)
  /\ toClient' = IF stream' THEN Tail(toClient) ELSE <<>>
  /\ server' = IF stream' THEN server ELSE "closed"
  /\ UNCHANGED <<to, delivered>>

LEMMA ServedFacts ==
  ASSUME Typed, Numbered, call # Idle, Served, ~toClient[1].more, NEW code, code = toClient[1].code
  PROVE  /\ Verdict(code) /\ Op # "LBODY" /\ code # 0
         /\ Op \notin Quits => toServer = <<>> /\ Tail(toClient) = <<>>
<1>1. LastLine(1) /\ Op # "LBODY" /\ toClient # <<>>
  BY DEF Served
<1>2. Verdict(code)
  BY <1>1 DEF LastLine
<1>3. Tail(toClient) = <<>> <=> Len(toClient) = 1
  BY <1>1, LineTaken
<1>4. code # 0
  BY <1>1, LineTaken
<1>5. QED
  BY <1>1, <1>2, <1>3, <1>4 DEF LastLine

LEMMA RespondsPhase ==
  ASSUME Typed, Numbered, Structured, call # Idle, Served, ~toClient[1].more,
         toClient[1].code = 334, Reads(334), NEW op \in {"RESPONSE", "TOKEN"}, Responds(op)
  PROVE  call' # Idle /\ Asked'
<1>1. Op \in AuthOps /\ Moves(334) /\ lmtp' = lmtp /\ stream
  BY DEF Responds, Reads, Moves, Structured, Typed
<1>2. /\ call' # Idle /\ call'.steps = << Step(op) >> /\ call'.num = sent + 1
      /\ call'.codes = <<>> /\ (toServer = <<>> => toServer' = << Step(op) >>)
      /\ sent' = sent + 1 /\ stream' = stream
  <2>1. Responded(op)
    BY <1>1, RespondsKept
  <2>2. QED
    BY <2>1 DEF Responded
<1>3. PICK code : code = 334
  OBVIOUS
<1>4. Verdict(code) /\ toServer = <<>> /\ Tail(toClient) = <<>>
  BY <1>1, <1>3, ServedFacts DEF AuthOps, Quits
<1>5. Step(op) \in StepSet /\ Step(op).op = op
  BY StepFacts DEF Ops
<1>6. Wire(Step(op)) = << Step(op) >>
  BY <1>5, WireFacts DEF Texts, Quits
<1>7. Op' = op
  BY <1>2, <1>5 DEF Op
<1>8. agreed' = agreed
  <2>1. Noted(code) /\ code \in Results
    BY <1>1, <1>3 DEF Moves, Results, Codes
  <2>2. agreed' = NotedTo(call.steps[1], code, agreed)
    BY <1>1, <2>1, NotedFacts DEF AuthOps, Texts, Quits
  <2>3. QED
    BY <1>1, <2>2 DEF NotedTo, Op, AuthOps, ClearOps, Texts, Quits
<1>9. server' # "closed" => server' = "sasl" /\ agreed' = to'
  <2>1. server' = server /\ to' = to
    BY <1>1, <1>2 DEF Reads
  <2>2. server # "closed" => server = "sasl"
    BY <1>1, <1>3, <1>4 DEF Verdict
  <2>3. server # "closed" => to = NotedTo(call.steps[1], code, agreed)
    BY <1>4 DEF Verdict
  <2>4. NotedTo(call.steps[1], code, agreed) = agreed
    BY <1>1 DEF NotedTo, Op, AuthOps, ClearOps, Texts, Quits
  <2>5. QED
    BY <1>8, <2>1, <2>2, <2>3, <2>4
<1>10. Fits(op, "sasl")
  BY DEF Fits, Texts, Quits
<1>11. delivered' = <<>>
  BY <1>1, <1>4 DEF Verdict, Reads, AuthOps, Texts, Quits
<1>12. toServer' = Wire(call'.steps[1]) /\ toClient' = <<>> /\ Len(toServer') = 1
  BY <1>1, <1>2, <1>4, <1>6 DEF Reads
<1>13. call'.num + Len(toServer') = sent' + 1
  BY <1>2, <1>12 DEF Typed
<1>14. QED
  BY <1>2, <1>7, <1>9, <1>10, <1>11, <1>12, <1>13 DEF Asked, Texts, Quits

\* The commands of the sending helpers.
LEMMA SendOps ==
  ASSUME Typed, Structured, call # Idle, call.fn \in {"send", "send_twice"}
  PROVE  Op \in {"MAIL", "RCPT", "DATA"} \cup Texts /\ Op # "STARTTLS"
<1>1. PICK p \in Nat : Plan(call.steps, call.rcpts, p)
  BY DEF Structured, Shape, SendShape
<1>2. OnPlan(call.steps[1], call.rcpts, p + 1)
  BY <1>1, CallFacts DEF Plan
<1>3. QED
  BY <1>2 DEF OnPlan, Op, Texts, Quits

\* A text with a QUIT behind it is the last step of a call.
LEMMA NotQuits ==
  ASSUME Typed, Structured, call # Idle, Tail(call.steps) # <<>>
  PROVE  Op \notin Quits
<1>1. call.steps \in Seq(StepSet) /\ call.steps # <<>> /\ call.rcpts \in Seq(Rcpts) /\ Shape
  BY CallFacts DEF Structured
<1>2. CASE call.fn \in {"send", "send_twice"}
  <2>1. PICK p \in Nat : Plan(call.steps, call.rcpts, p)
    BY <1>1, <1>2 DEF Shape, SendShape
  <2>2. QED
    BY <1>1, <2>1, PlanStep DEF Op
<1>3. CASE call.fn \notin {"send", "send_twice"}
  BY <1>3, ShapeFacts DEF Quits
<1>4. QED
  BY <1>2, <1>3

LEMMA ProceedsPhase ==
  ASSUME Typed, Numbered, Structured, call # Idle, Served, ~toClient[1].more,
         NEW code \in Results, code = toClient[1].code, Reads(code), Proceeds(code)
  PROVE  call' # Idle /\ IF Again' THEN Repeated' ELSE Asked'
<1>1. Moves(code) /\ stream
  BY DEF Reads, Structured, Typed
<1>2. /\ CallKept /\ call' # Idle /\ call'.steps = Tail(call.steps) /\ call'.num = sent + 1
      /\ call'.rcpts = call.rcpts /\ call'.codes = <<>> /\ stream' = stream
      /\ toServer = <<>> => toServer' = Wire(call'.steps[1])
      /\ sent' = sent + Len(Wire(call'.steps[1]))
      /\ Op' \notin {"CONNECT", "LBODY", "RESPONSE", "TOKEN"}
      /\ Op' \in Texts => Op \in {"DATA"} \cup Texts
      /\ Op = "DATA" => Op' \in Texts /\ Ok(code)
      /\ Op' \in Texts /\ ~Again' => agreed' = call'.rcpts
      /\ Op \in Texts <=> Again'
  BY <1>1, ProceedsKept
<1>3. Verdict(code) /\ Op # "LBODY" /\ toServer = <<>> /\ Tail(toClient) = <<>>
  <2>1. Op \notin Quits
    BY NotQuits DEF Proceeds
  <2>2. QED
    BY <2>1, ServedFacts
<1>4. ~Again' => agreed' = NotedTo(call.steps[1], code, agreed)
  BY <1>1, <1>2, <1>3, NotedFacts DEF Moves
<1>5. server' = server /\ to' = to /\ toClient' = <<>> /\ delivered' = delivered
  BY <1>1, <1>2, <1>3 DEF Reads
<1>6. ~Again' => (server # "closed" => to = agreed')
  BY <1>3, <1>4 DEF Verdict
<1>7. server # "sasl"
  <2>1. Op \notin AuthOps
    BY ShapeFacts DEF Proceeds
  <2>2. QED
    BY <1>3, <2>1 DEF Verdict
<1>8. ~Again' => (server # "closed" => (server = "data" <=> Op' \in Texts))
  <2>1. server = "data" => Op' \in Texts
    BY <1>2, <1>3 DEF Verdict
  <2>2. ASSUME ~Again', Op' \in Texts, server # "closed"
        PROVE  server = "data"
    <3>1. Op = "DATA" /\ code \in Accepts(Op)
      BY <1>2, <2>2 DEF Ok
    <3>2. code = 354
      BY <3>1, AcceptFacts
    <3>3. QED
      BY <1>3, <2>2, <3>1, <3>2 DEF Verdict
  <2>3. QED
    BY <2>1, <2>2
<1>9. ~Again' => (server' # "closed" => Fits(Op', server') /\ agreed' = to')
  <2>1. ~Again' => (server # "closed" => Fits(Op', server))
    BY <1>2, <1>7, <1>8 DEF Fits
  <2>2. QED
    BY <1>5, <1>6, <2>1
<1>10. ~Again' => delivered' = <<>>
  BY <1>2, <1>3, <1>5 DEF Verdict
<1>11. toServer' = Wire(call'.steps[1])
  BY <1>2, <1>3
<1>12. call'.num + Len(toServer') = sent' + 1
  <2>1. call'.steps \in Seq(StepSet) /\ call'.steps # <<>>
    BY <1>2 DEF CallKept, Calls
  <2>2. call'.steps[1] \in StepSet
    BY <2>1, TailFacts
  <2>3. PICK n \in {1, 2} : n = Len(Wire(call'.steps[1]))
    BY <2>2, WireFacts
  <2>4. sent \in Nat /\ call'.num = sent + 1 /\ sent' = sent + n /\ Len(toServer') = n
    BY <1>2, <1>11, <2>3 DEF Typed
  <2>5. QED
    BY <2>4
<1>13. ASSUME Again'
       PROVE  Repeated'
  <2>1. Op \in Texts /\ Op # "EHLO"
    BY <1>2, <1>13 DEF Texts, Quits
  <2>2. code \in Accepts(Op)
    BY <2>1 DEF Proceeds, Ok
  <2>3. code = 250
    BY <2>1, <2>2 DEF Accepts, Texts, Quits
  <2>4. delivered = << Range(call.rcpts) >>
    BY <1>3, <2>1, <2>3 DEF Verdict
  <2>5. server # "data"
    BY <1>3, <2>1 DEF Verdict, Texts, Quits
  <2>6. QED
    BY <1>2, <1>5, <1>7, <1>11, <1>12, <2>4, <2>5 DEF Repeated
<1>14. QED
  BY <1>2, <1>5, <1>9, <1>10, <1>11, <1>12, <1>13 DEF Asked

LEMMA RangeFacts ==
  /\ UNION Range(<<>>) = {}
  /\ \A S : UNION Range(<< S >>) = S
<1>1. Range(<<>>) = {}
  BY DEF Range
<1>2. ASSUME NEW S
      PROVE  UNION Range(<< S >>) = S
  <2>1. Range(<< S >>) = {S}
    BY DEF Range
  <2>2. QED
    BY <2>1
<1>3. QED
  BY <1>1, <1>2

\* A call returns, and what it says of the message is true.
LEMMA EndsReported ==
  ASSUME Typed, Numbered, Structured, call # Idle, ~Again, Served, ~toClient[1].more,
         NEW code \in Results, code = toClient[1].code, Reads(code), Ends(code),
         call.fn \in Sending
  PROVE  Reported'
<1>1. Ok(code) \in BOOLEAN /\ Returns(Ok(code), code, <<>>) /\ <<>> \in Seq(Results)
  BY DEF Ends, Ok
<1>2. /\ result'.fn = call.fn /\ result'.ok = Ok(code) /\ result'.code = code
      /\ result'.rcpts = call.rcpts
  BY <1>1, ReturnsFacts
<1>3. Verdict(code) /\ Op # "LBODY" /\ delivered' = delivered
  BY ServedFacts DEF Reads
<1>4. call.fn # "lmtp_data_message"
  BY <1>3, ShapeFacts
<1>5. PICK S : S = Range(call.rcpts)
  OBVIOUS
<1>6. delivered = IF Op \in Texts /\ code = 250 THEN << S >> ELSE <<>>
  BY <1>3, <1>5 DEF Verdict
<1>7. UNION Range(delivered) \subseteq S
  BY <1>6, RangeFacts
<1>8. Tail(call.steps) # <<>> => Op # "EHLO" /\ ~Ok(code)
  <2>1. Op # "EHLO"
    BY ShapeFacts DEF Sending
  <2>2. QED
    BY <2>1 DEF Ends, Ok
<1>9. Op \in Texts => (Ok(code) <=> code = 250)
  <2>1. Op \in Texts => Accepts(Op) = {250}
    BY DEF Accepts, Texts, Quits
  <2>2. QED
    BY <2>1 DEF Ok
<1>10. ASSUME call.fn # "send_twice"
       PROVE  delivered = IF Ok(code) THEN << S >> ELSE <<>>
  <2>1. Tail(call.steps) = <<>> => Op \in Texts
    BY <1>4, <1>10, ShapeFacts DEF Sending, Texts
  <2>2. CASE Tail(call.steps) = <<>>
    BY <1>6, <1>9, <2>1, <2>2
  <2>3. CASE Tail(call.steps) # <<>>
    BY <1>6, <1>8, <1>9, <2>3
  <2>4. QED
    BY <2>2, <2>3
<1>11. ASSUME call.fn = "send_twice"
       PROVE  ~Ok(code)
  <2>1. Tail(call.steps) # <<>>
    BY <1>11, CallFacts, EmptyFacts DEF Again, Single
  <2>2. QED
    BY <1>8, <2>1
<1>12. delivered = <<>> \/ delivered = << S >>
  BY <1>6
<1>13. QED
  BY <1>2, <1>3, <1>4, <1>5, <1>7, <1>10, <1>11, <1>12 DEF Reported, Sending

\* Then nothing is left under way.
LEMMA EndsQuiet ==
  ASSUME Typed, Numbered, Structured, call # Idle, Served, ~toClient[1].more, ~late', stream',
         NEW code \in Results, code = toClient[1].code, Reads(code), Ends(code)
  PROVE  Quiet'
<1>1. Ok(code) \in BOOLEAN /\ Returns(Ok(code), code, <<>>) /\ <<>> \in Seq(Results)
  BY DEF Ends, Ok
<1>2. /\ call' = Idle /\ result'.fn = call.fn /\ result'.ok = Ok(code)
      /\ Op # "BODYQUIT" /\ toServer' = toServer
  BY <1>1, ReturnsFacts
<1>3. Op # "BODYQUITKEEP"
  BY CallFacts DEF Reads, Leaves, Op
<1>4. /\ Verdict(code) /\ Op # "LBODY" /\ toServer = <<>> /\ Tail(toClient) = <<>>
  BY <1>2, <1>3, ServedFacts DEF Quits
<1>5. toServer' = <<>> /\ toClient' = <<>> /\ server' = server /\ to' = to /\ Noted(code)
  BY <1>2, <1>4 DEF Reads, Moves
<1>6. server # "sasl"
  BY <1>4 DEF Verdict, Ends, Challenge
<1>7. ASSUME server = "data"
      PROVE  DataDone'
  <2>1. Op = "DATA" /\ code = 354
    BY <1>4, <1>7 DEF Verdict
  <2>2. Ok(code)
    BY <2>1, AcceptFacts DEF Ok
  <2>3. Tail(call.steps) = <<>>
    BY <2>1, <2>2 DEF Ends
  <2>4. call.fn = "data"
    BY <2>1, <2>3, ShapeFacts
  <2>5. QED
    BY <1>2, <2>2, <2>4 DEF DataDone
<1>8. ASSUME DataDone'
      PROVE  server \in {"data", "closed"} /\ agreed' # <<>>
  <2>1. call.fn = "data" /\ code \in Accepts(Op)
    BY <1>2, <1>8 DEF DataDone, Ok
  <2>2. Op = "DATA"
    BY <2>1, ShapeFacts
  <2>3. code = 354
    BY <2>1, <2>2, AcceptFacts
  <2>4. server \in {"data", "closed"} /\ agreed # <<>>
    BY <1>4, <2>2, <2>3 DEF Verdict
  <2>5. agreed' = NotedTo(call.steps[1], code, agreed)
    BY <1>5, <2>2, NotedFacts DEF Texts, Quits
  <2>6. agreed' = agreed
    BY <2>2, <2>5 DEF NotedTo, Op, ClearOps, Texts, Quits
  <2>7. QED
    BY <2>4, <2>6
<1>9. server # "closed" => agreed' = to
  <2>1. server # "closed" => to = NotedTo(call.steps[1], code, agreed)
    BY <1>4 DEF Verdict
  <2>2. agreed' = NotedTo(call.steps[1], code, agreed)
    <3>1. CASE Op \in Texts
      <4>1. agreed' = <<>>
        BY <1>2, <1>5, <3>1, NotedFacts
      <4>2. QED
        BY <3>1, <4>1 DEF NotedTo, Op, Texts, Quits
    <3>2. CASE Op \notin Texts
      BY <1>4, <1>5, <3>2, NotedFacts
    <3>3. QED
      BY <3>1, <3>2
  <2>3. QED
    BY <2>1, <2>2
<1>10. QED
  BY <1>5, <1>6, <1>7, <1>8, <1>9 DEF Quiet

\* maillmtp_data_message has read all its answers.
LEMMA EachReadPhase ==
  ASSUME Typed, Numbered, Structured, call # Idle, ServedEach,
         NEW code \in Results, code = toClient[1].code, Reads(code), EachRead(code),
         Len(call.codes) + 1 = Len(call.rcpts)
  PROVE  call' = Idle /\ Quiet' /\ Reported'
<1>1. /\ Op = "LBODY" /\ toServer = <<>> /\ toClient # <<>> /\ server \notin {"data", "sasl"}
      /\ (server # "closed" => to = <<>>) /\ Gets \subseteq Range(call.rcpts)
      /\ Len(call.codes) + Len(toClient) = Len(call.rcpts)
  BY DEF ServedEach
<1>2. /\ call.codes \in Seq(Results) /\ call.rcpts \in Seq(Rcpts) /\ Len(call.codes) \in Nat
      /\ Len(call.rcpts) \in Nat /\ Len(toClient) \in Nat \ {0}
  BY <1>1, CallFacts, LineTaken, LenProperties
<1>3. Len(toClient) = 1 /\ Tail(toClient) = <<>>
  BY <1>1, <1>2, LineTaken
<1>4. PICK codes : codes = Append(call.codes, code)
  OBVIOUS
<1>5. /\ codes \in Seq(Results) /\ (\A i \in 1..Len(call.codes) : codes[i] = call.codes[i])
      /\ codes[Len(call.codes) + 1] = code
  BY <1>2, <1>4, AppendFacts
<1>6. PICK ok \in BOOLEAN : Returns(ok, code, codes)
  BY <1>4 DEF EachRead
<1>7. /\ call' = Idle /\ result'.fn = call.fn /\ result'.rcpts = call.rcpts /\ result'.codes = codes
      /\ stream' /\ toServer' = toServer
  BY <1>1, <1>5, <1>6, ReturnsFacts
<1>8. call.fn = "lmtp_data_message"
  BY <1>1, ShapeFacts
<1>9. agreed' = <<>>
  BY <1>1, <1>7, NotedFacts DEF Reads, Moves
<1>10. toClient' = <<>> /\ server' = server /\ to' = to /\ delivered' = delivered
  BY <1>3, <1>7 DEF Reads
<1>11. Quiet'
  BY <1>1, <1>7, <1>8, <1>9, <1>10 DEF Quiet, DataDone
<1>12. ASSUME NEW i \in 1..Len(call.rcpts)
       PROVE  codes[i] = 250 <=> call.rcpts[i] \in Gets
  <2>1. CASE i <= Len(call.codes)
    <3>1. i \in 1..Len(call.codes)
      BY <1>2, <2>1
    <3>2. codes[i] = call.codes[i]
      BY <1>5, <3>1
    <3>3. call.codes[i] = 250 <=> call.rcpts[i] \in Gets
      BY <3>1 DEF ServedEach
    <3>4. QED
      BY <3>2, <3>3
  <2>2. CASE i = Len(call.codes) + 1
    <3>1. 1 \in 1..Len(toClient)
      BY <1>3
    <3>2. toClient[1].code = 250 <=> call.rcpts[Len(call.codes) + 1] \in Gets
      BY <3>1 DEF ServedEach
    <3>3. QED
      BY <1>5, <2>2, <3>2
  <2>3. QED
    BY <1>2, <2>1, <2>2
<1>13. Reported'
  <2>1. DOMAIN call.rcpts = 1..Len(call.rcpts)
    BY <1>2, LenProperties
  <2>2. Gets' = Gets
    BY <1>10 DEF Gets
  <2>3. QED
    BY <1>1, <1>7, <1>8, <1>10, <1>12, <2>1, <2>2 DEF Reported, Gets
<1>14. QED
  BY <1>7, <1>11, <1>13

\* It has read one of them.
LEMMA OneReadPhase ==
  ASSUME Typed, Numbered, Structured, call # Idle, ServedEach,
         NEW code \in Results, code = toClient[1].code, Reads(code), OneRead(code)
  PROVE  call' # Idle /\ ServedEach'
<1>1. /\ Op = "LBODY" /\ toServer = <<>> /\ toClient # <<>> /\ server \notin {"data", "sasl"}
      /\ (server # "closed" => to = <<>>) /\ Gets \subseteq Range(call.rcpts) /\ stream
      /\ Len(call.codes) + Len(toClient) = Len(call.rcpts)
  BY DEF ServedEach, Structured, Typed
<1>2. /\ call' # Idle /\ call'.codes = Append(call.codes, code)
      /\ call'.rcpts = call.rcpts /\ call'.num = call.num /\ call'.steps = call.steps
      /\ stream' = stream /\ toServer' = toServer
  BY OneReadKept DEF Reads, Moves
<1>3. toClient' = Tail(toClient) /\ server' = server /\ to' = to /\ delivered' = delivered
  BY <1>1, <1>2 DEF Reads
<1>4. /\ call.codes \in Seq(Results) /\ call.rcpts \in Seq(Rcpts) /\ Len(call.codes) \in Nat
      /\ Len(call.rcpts) \in Nat /\ Len(toClient) \in Nat \ {0}
  BY <1>1, CallFacts, LineTaken, LenProperties
<1>5. PICK codes : codes = Append(call.codes, code)
  OBVIOUS
<1>6. /\ (\A i \in 1..Len(call.codes) : codes[i] = call.codes[i])
      /\ codes[Len(call.codes) + 1] = code /\ Len(codes) = Len(call.codes) + 1
  BY <1>4, <1>5, AppendFacts
<1>7. /\ Len(toClient') = Len(toClient) - 1 /\ (toClient' = <<>> <=> Len(toClient) = 1)
      /\ \A p \in 1..(Len(toClient) - 1) : toClient'[p] = toClient[p + 1]
  BY <1>1, <1>3, LineTaken
<1>8. toClient' # <<>>
  <2>1. Len(call.codes) + 1 # Len(call.rcpts)
    BY DEF OneRead
  <2>2. QED
    BY <1>1, <1>4, <1>7, <2>1
<1>9. Len(codes) + Len(toClient') = Len(call.rcpts)
  <2>1. PICK n \in Nat, m \in Nat \ {0} : n = Len(call.codes) /\ m = Len(toClient)
    BY <1>4
  <2>2. Len(codes) = n + 1 /\ Len(toClient') = m - 1 /\ Len(call.rcpts) = n + m
    BY <1>1, <1>6, <1>7, <2>1
  <2>3. QED
    BY <2>2
<1>10. Gets' = Gets
  BY <1>3 DEF Gets
<1>11. ASSUME NEW i \in 1..Len(toClient')
       PROVE  /\ toClient'[i].of = call.num /\ ~toClient'[i].more
              /\ toClient'[i].code = 250 <=> call.rcpts[Len(codes) + i] \in Gets
  <2>1. i + 1 \in 1..Len(toClient) /\ toClient'[i] = toClient[i + 1]
          /\ Len(codes) + i = Len(call.codes) + (i + 1)
    <3>1. PICK n \in Nat, m \in Nat \ {0} : n = Len(call.codes) /\ m = Len(toClient)
      BY <1>4
    <3>2. Len(codes) = n + 1 /\ i \in 1..(m - 1)
      BY <1>6, <1>7, <3>1
    <3>3. i + 1 \in 1..m /\ (n + 1) + i = n + (i + 1)
      BY <3>2
    <3>4. QED
      BY <1>7, <3>1, <3>2, <3>3
  <2>2. /\ toClient[i + 1].of = call.num /\ ~toClient[i + 1].more
        /\ toClient[i + 1].code = 250 <=> call.rcpts[Len(call.codes) + (i + 1)] \in Gets
    BY <2>1 DEF ServedEach
  <2>3. QED
    BY <2>1, <2>2
<1>12. ASSUME NEW i \in 1..Len(codes)
       PROVE  codes[i] = 250 <=> call.rcpts[i] \in Gets
  <2>1. CASE i <= Len(call.codes)
    <3>1. i \in 1..Len(call.codes)
      BY <1>4, <2>1
    <3>2. codes[i] = call.codes[i]
      BY <1>6, <3>1
    <3>3. call.codes[i] = 250 <=> call.rcpts[i] \in Gets
      BY <3>1 DEF ServedEach
    <3>4. QED
      BY <3>2, <3>3
  <2>2. CASE i = Len(call.codes) + 1
    <3>1. 1 \in 1..Len(toClient)
      BY <1>4
    <3>2. toClient[1].code = 250 <=> call.rcpts[Len(call.codes) + 1] \in Gets
      BY <3>1 DEF ServedEach
    <3>3. QED
      BY <1>6, <2>2, <3>2
  <2>3. QED
    BY <1>4, <1>6, <2>1, <2>2
<1>13. Op' = "LBODY"
  BY <1>1, <1>2 DEF Op
<1>14. call'.codes = codes
  BY <1>2, <1>5
<1>15. ServedEach'
  BY <1>1, <1>2, <1>3, <1>8, <1>9, <1>10, <1>11, <1>12, <1>13, <1>14 DEF ServedEach
<1>16. QED
  BY <1>2, <1>15

\* The client reads an answer, or it finds more than that.
LEMMA ReadAnswerFacts ==
  ASSUME SmtpInv, ReadAnswer
  PROVE  \E code \in Results :
           /\ Reads(code) /\ ~toClient[1].more /\ toClient # <<>>
           /\ \/ code = toClient[1].code /\ code # 0
              \/ code = 0 /\ Op = "STARTTLS" /\ Len(toClient) > 1
<1>1. call # Idle /\ toClient # <<>> /\ Typed /\ Numbered
  BY DEF ReadAnswer, SmtpInv
<1>2. Head(toClient) = toClient[1] /\ toClient[1].code \in Codes /\ toClient[1].code # 0
  BY <1>1, LineTaken
<1>3. Head(call.steps).op = Op
  BY <1>1, CallFacts DEF Op
<1>4. PICK code \in Heard : Answered(code) /\ Noted(code)
  BY DEF ReadAnswer
<1>5. \/ code = toClient[1].code /\ code # 0
      \/ code = 0 /\ Op = "STARTTLS" /\ Len(toClient) > 1
  BY <1>2, <1>3, <1>4 DEF Heard
<1>6. code \in Results
  BY <1>2, <1>5 DEF Results
<1>7. late' \in BOOLEAN
  BY DEF ReadAnswer
<1>8. Reads(code)
  BY <1>4, <1>7 DEF Reads, Moves, ReadAnswer
<1>9. ~toClient[1].more
  BY <1>2 DEF ReadAnswer, MoreLine
<1>10. QED
  BY <1>1, <1>5, <1>6, <1>8, <1>9

LEMMA ReadAnswerInv ==
  ASSUME SmtpInv, ReadAnswer
  PROVE  SmtpInv'
<1>1. /\ call # Idle /\ toClient # <<>> /\ Typed /\ Numbered /\ Structured
  BY DEF ReadAnswer, SmtpInv
<1>2. PICK code \in Results :
        /\ Reads(code) /\ ~toClient[1].more
        /\ \/ code = toClient[1].code /\ code # 0
           \/ code = 0 /\ Op = "STARTTLS" /\ Len(toClient) > 1
  BY ReadAnswerFacts
<1>3. late \/ Again \/ code = toClient[1].code
  <2>1. ASSUME ~late, ~Again, code = 0, Op = "STARTTLS", Len(toClient) > 1
        PROVE  FALSE
    <3>1. Served
      BY <1>1, <2>1 DEF SmtpInv, Phase, Asked, ServedEach, Lost
    <3>2. Len(toClient) = 1
      BY <1>2, <2>1, <3>1 DEF Served, LastLine, Quits
    <3>3. QED
      BY <2>1, <3>2
  <2>2. QED
    BY <1>2, <2>1
<1>4. ~toClient[1].more /\ Answered(code) /\ Noted(code)
  BY <1>2 DEF Reads, Moves
<1>5. Reads(code)
  BY <1>2
<1>6. Typed' /\ Numbered' /\ Structured'
  BY <1>1, <1>5, MovesStructured DEF Reads
<1>7. ASSUME ~late'
      PROVE  /\ call' # Idle => IF Again' THEN Repeated' ELSE Asked' \/ ServedEach'
             /\ call' = Idle => (stream' => Quiet')
  <2>1. ~late /\ ~Leaves
    BY <1>7 DEF ReadAnswer
  <2>10. ~Again
    BY <1>1, <2>1, CallFacts, EmptyFacts DEF Leaves, Again, Single
  <2>2. (Served \/ ServedEach) /\ code = toClient[1].code
    BY <1>1, <1>3, <2>1, <2>10 DEF SmtpInv, Phase, Asked, Lost
  <2>3. CASE EachRead(code) /\ Len(call.codes) + 1 = Len(call.rcpts)
    <3>1. ServedEach
      BY <2>2, <2>3 DEF Served, EachRead
    <3>2. QED
      BY <1>1, <1>5, <2>2, <2>3, <3>1, EachReadPhase
  <2>4. CASE OneRead(code)
    <3>1. ServedEach
      BY <2>2, <2>4 DEF Served, OneRead
    <3>2. call' # Idle /\ ServedEach'
      BY <1>1, <1>5, <2>2, <2>4, <3>1, OneReadPhase
    <3>3. ~Again'
      <4>1. call.fn = "lmtp_data_message"
        BY <1>1, <2>4, ShapeFacts DEF OneRead
      <4>2. call'.fn = "lmtp_data_message"
        BY <1>1, <2>4, <4>1 DEF OneRead, Typed, Calls
      <4>3. QED
        BY <4>2 DEF Again
    <3>4. QED
      BY <3>2, <3>3
  <2>5. CASE code = 334 /\ \E op \in {"RESPONSE", "TOKEN"} : Responds(op)
    <3>1. PICK op \in {"RESPONSE", "TOKEN"} : Responds(op)
      BY <2>5
    <3>2. Served
      BY <2>2, <3>1 DEF ServedEach, Responds, AuthOps
    <3>3. Reads(334) /\ toClient[1].code = 334
      BY <1>5, <2>2, <2>5
    <3>4. call' # Idle /\ Asked'
      BY <1>1, <1>4, <3>1, <3>2, <3>3, RespondsPhase
    <3>5. ~Again'
      <4>1. Continues(<< Step(op) >>) /\ Op \in AuthOps
        BY <3>1 DEF Responds
      <4>2. call'.fn = call.fn
        BY <1>1, <4>1 DEF Continues, Typed, Calls
      <4>3. call.fn = "auth"
        BY <1>1, <4>1, ShapeFacts
      <4>4. QED
        BY <4>2, <4>3 DEF Again
    <3>6. QED
      BY <3>4, <3>5
  <2>6. CASE code = 334 /\ GivesUp
    <3>1. GivesUp /\ Op \in AuthOps
      BY <2>6 DEF GivesUp
    <3>2. call' = Idle /\ result'.fn = call.fn /\ result'.code = 334
      <4>1. Returns(FALSE, 334, <<>>)
        BY <3>1 DEF GivesUp
      <4>2. 334 \in Results /\ <<>> \in Seq(Results) /\ FALSE \in BOOLEAN
        BY DEF Results, Codes
      <4>3. PICK c \in Results, ok \in BOOLEAN, codes \in Seq(Results) : Returns(ok, c, codes) /\ c = 334
        BY <4>1, <4>2, Zenon
      <4>4. call' = Idle /\ result'.fn = call.fn /\ result'.code = c
        BY <1>1, <4>3, ReturnsFacts
      <4>5. QED
        BY <4>3, <4>4
    <3>3. call.fn = "auth"
      BY <1>1, <3>1, ShapeFacts
    <3>4. QED
      BY <2>1, <3>2, <3>3 DEF Leaves
  <2>7. CASE Proceeds(code)
    <3>1. Served
      BY <2>2, <2>7 DEF ServedEach, Proceeds
    <3>2. QED
      BY <1>1, <1>4, <1>5, <2>2, <2>7, <3>1, ProceedsPhase
  <2>8. CASE Ends(code)
    <3>1. Served
      BY <2>2, <2>8 DEF ServedEach, Ends
    <3>2. call' = Idle
      BY <2>8 DEF Ends, Returns
    <3>3. QED
      BY <1>1, <1>4, <1>5, <1>7, <2>2, <2>8, <3>1, <3>2, EndsQuiet
  <2>9. QED
    BY <1>1, <1>4, <2>3, <2>4, <2>5, <2>6, <2>7, <2>8, AnsweredCases
<1>8. Phase'
  BY <1>7 DEF Phase
<1>9. QED
  BY <1>6, <1>8 DEF SmtpInv

\* Nobody answers: the connection is gone.
Misses ==
  /\ Moves(0) /\ toClient' = <<>> /\ server' = "closed"
  /\ UNCHANGED <<to, delivered>>

LEMMA LostProceeds ==
  ASSUME Typed, Numbered, Structured, call # Idle, Lost, Misses, Proceeds(0)
  PROVE  call' # Idle /\ Asked' /\ ~Again'
<1>1. Moves(0) /\ 0 \in Results
  BY DEF Misses, Results
<1>2. Op = "EHLO"
  <2>1. 0 \notin Accepts(Op)
    BY CallFacts, AcceptFacts
  <2>2. QED
    BY <2>1 DEF Proceeds, Ok
<1>3. /\ CallKept /\ call' # Idle /\ call'.num = sent + 1 /\ call'.codes = <<>>
      /\ toServer = <<>> => toServer' = Wire(call'.steps[1])
      /\ sent' = sent + Len(Wire(call'.steps[1]))
      /\ Op' \notin {"CONNECT", "LBODY", "RESPONSE", "TOKEN"}
      /\ Op' \in Texts => Op \in {"DATA"} \cup Texts
      /\ Op \in Texts <=> Again'
  BY <1>1, ProceedsKept
<1>4. Op' \notin Texts /\ ~Again'
  BY <1>2, <1>3 DEF Texts, Quits
<1>5. toServer' = Wire(call'.steps[1]) /\ toClient' = <<>> /\ server' = "closed" /\ delivered' = <<>>
  BY <1>3 DEF Lost, Misses
<1>6. call'.num + Len(toServer') = sent' + 1
  <2>1. call'.steps \in Seq(StepSet) /\ call'.steps # <<>>
    BY <1>3 DEF CallKept, Calls
  <2>2. call'.steps[1] \in StepSet
    BY <2>1, TailFacts
  <2>3. PICK n \in {1, 2} : n = Len(Wire(call'.steps[1]))
    BY <2>2, WireFacts
  <2>4. sent \in Nat /\ call'.num = sent + 1 /\ sent' = sent + n /\ Len(toServer') = n
    BY <1>3, <1>5, <2>3 DEF Typed
  <2>5. QED
    BY <2>4
<1>7. QED
  BY <1>3, <1>4, <1>5, <1>6 DEF Asked

LEMMA LostReturns ==
  ASSUME Typed, Numbered, Structured, call # Idle, Eof, Misses, NEW ok \in BOOLEAN,
         NEW codes \in Seq(Results), Returns(ok, 0, codes), ok => call.fn # "data"
  PROVE  call' = Idle /\ Quiet'
<1>1. PICK code \in Results : code = 0
  BY DEF Results
<1>2. /\ call' = Idle /\ result'.fn = call.fn /\ result'.ok = ok
      /\ toServer' = IF stream' THEN toServer ELSE <<>>
  <2>1. Returns(ok, code, codes)
    BY <1>1
  <2>2. QED
    BY <1>1, <2>1, ReturnsFacts
<1>3. toServer' = <<>> /\ toClient' = <<>> /\ server' = "closed"
  BY <1>2 DEF Eof, Misses
<1>4. Quiet'
  BY <1>2, <1>3 DEF Quiet, DataDone
<1>5. QED
  BY <1>2, <1>4

LEMMA NoAnswerInv ==
  ASSUME SmtpInv, NoAnswer
  PROVE  SmtpInv'
<1>1. /\ call # Idle /\ Typed /\ Numbered /\ Structured /\ UNCHANGED <<to, delivered>>
  BY DEF NoAnswer, SmtpInv
<1>2. PICK code \in Results : code = 0
  BY DEF Results
<1>3. Moves(code)
  <2>1. late' \in BOOLEAN
    BY DEF NoAnswer
  <2>2. QED
    BY <1>2, <2>1 DEF Moves, NoAnswer
<1>4. Typed' /\ Numbered' /\ Structured'
  <2>1. toClient' \in {toClient, <<>>} /\ (stream' => server' = server)
          /\ (~stream' => toClient' = <<>> /\ server' = "closed")
    BY DEF NoAnswer
  <2>2. QED
    BY <1>1, <1>3, <2>1, MovesStructured
<1>5. ASSUME ~late'
      PROVE  /\ call' # Idle => ~Again' /\ (Asked' \/ Lost')
             /\ call' = Idle => Quiet'
  <2>1. ~late /\ Eof
    BY <1>5 DEF NoAnswer
  <2>2. ~Again => Lost
    <3>1. ~Asked
      BY <1>1, <2>1, CallFacts, WireFacts DEF Asked, Eof
    <3>2. QED
      BY <1>1, <2>1, <3>1 DEF SmtpInv, Phase, Served, ServedEach, Eof
  <2>3. Misses
    BY <1>2, <1>3, <2>1 DEF Misses, NoAnswer, Eof
  <2>4. PICK codes : codes = Append(call.codes, code)
    OBVIOUS
  <2>5. /\ codes \in Seq(Results) /\ Len(codes) = Len(call.codes) + 1 /\ Len(call.codes) \in Nat
        /\ ~Again => \A i \in 1..(Len(call.codes) + 1) : codes[i] = 0
    <3>1. call.codes \in Seq(Results)
      BY <1>1, CallFacts
    <3>2. /\ codes \in Seq(Results) /\ Len(codes) = Len(call.codes) + 1 /\ Len(call.codes) \in Nat
          /\ (\A i \in 1..Len(call.codes) : codes[i] = call.codes[i])
          /\ codes[Len(call.codes) + 1] = code
      BY <2>4, <3>1, AppendFacts
    <3>3. ~Again => \A i \in 1..Len(call.codes) : call.codes[i] = 0
      BY <2>2 DEF Lost
    <3>4. QED
      BY <1>2, <3>2, <3>3
  <2>6. CASE EachRead(code) /\ Len(call.codes) + 1 = Len(call.rcpts)
    <3>1. PICK ok \in BOOLEAN : Returns(ok, code, codes)
      BY <2>4, <2>6 DEF EachRead
    <3>2. Returns(ok, 0, codes)
      BY <1>2, <3>1
    <3>3. call.fn # "data"
      BY <1>1, <2>6, ShapeFacts DEF EachRead
    <3>4. QED
      BY <1>1, <2>1, <2>3, <2>5, <3>2, <3>3, LostReturns
  <2>7. CASE OneRead(code)
    <3>1. call' # Idle /\ call'.codes = codes /\ toServer' = toServer /\ call'.steps = call.steps
      BY <1>1, <1>3, <2>4, <2>7, OneReadKept DEF Moves
    <3>2. call.fn = "lmtp_data_message" /\ call'.fn = call.fn
      <4>1. call.fn = "lmtp_data_message"
        BY <1>1, <2>7, ShapeFacts DEF OneRead
      <4>2. QED
        BY <1>1, <2>7, <4>1 DEF OneRead, Typed, Calls
    <3>3. ~Again /\ ~Again'
      BY <3>2 DEF Again
    <3>4. QED
      BY <2>2, <2>3, <2>5, <3>1, <3>3 DEF Lost, Misses
  <2>8. CASE Proceeds(code)
    <3>1. Proceeds(0) /\ ~Again
      <4>1. Tail(call.steps) # <<>>
        BY <2>8 DEF Proceeds
      <4>2. QED
        BY <1>1, <1>2, <2>8, <4>1, CallFacts, EmptyFacts DEF Again, Single
    <3>2. QED
      BY <1>1, <2>2, <2>3, <3>1, LostProceeds
  <2>9. CASE Ends(code)
    <3>1. ~Ok(code)
      <4>1. 0 \notin Accepts(Op)
        BY <1>1, CallFacts, AcceptFacts
      <4>2. QED
        BY <1>2, <4>1 DEF Ok
    <3>2. Ok(code) = FALSE
      BY <3>1 DEF Ok
    <3>3. Returns(FALSE, 0, <<>>) /\ Op # "LBODY"
      BY <1>2, <2>9, <3>2 DEF Ends
    <3>4. <<>> \in Seq(Results)
      OBVIOUS
    <3>5. QED
      BY <1>1, <2>1, <2>3, <3>3, <3>4, LostReturns
  <2>10. Answered(code) /\ code # 334
    BY <1>2, <1>3 DEF Moves
  <2>11. QED
    BY <1>1, <2>6, <2>7, <2>8, <2>9, <2>10, AnsweredCases
<1>6. Phase'
  BY <1>5 DEF Phase
<1>7. QED
  BY <1>4, <1>6 DEF SmtpInv

-----------------------------------------------------------------------------
LEMMA RcptInv ==
  ASSUME SmtpInv, NEW r \in Rcpts, Rcpt(r)
  PROVE  SmtpInv'
<1>1. PICK s : s = [op |-> "RCPT", to |-> r]
  OBVIOUS
<1>2. s \in StepSet /\ s.op = "RCPT"
  BY <1>1 DEF StepSet, Ops
<1>3. PICK fn : fn = "rcpt"
  OBVIOUS
<1>4. PICK rcpts : rcpts = <<>>
  OBVIOUS
<1>5. fn \in Fns /\ rcpts \in Seq(Rcpts) /\ Starts(fn, << s >>, rcpts) /\ fn \notin {"send", "send_twice", "init"}
  BY <1>1, <1>3, <1>4 DEF Rcpt, Fns
<1>6. FnOf(s.op, fn)
  BY <1>2, <1>3 DEF FnOf, AuthOps
<1>7. QED
  BY <1>2, <1>5, <1>6, SingleInv DEF Texts, Quits

\* The functions that send just one command.
Simples ==
  {<<"lhlo", "LHLO">>, <<"mail", "MAIL">>, <<"data", "DATA">>, <<"auth", "AUTH">>, <<"auth", "XOAUTH2">>,
   <<"clientid", "CLIENTID">>, <<"starttls", "STARTTLS">>, <<"noop", "NOOP">>, <<"reset", "RSET">>}

LEMMA SimplesInv ==
  ASSUME SmtpInv, NEW fn, NEW op, <<fn, op>> \in Simples, Simple(fn, op)
  PROVE  SmtpInv'
<1>1. fn \in Fns /\ op \in Ops /\ fn \notin {"send", "send_twice", "init"} /\ op # "RCPT"
  BY DEF Simples, Fns, Ops
<1>2. FnOf(op, fn)
  BY DEF Simples, FnOf, AuthOps
<1>3. op \notin {"CONNECT", "RESPONSE", "TOKEN", "LBODY"} \cup Texts
  BY DEF Simples, Texts, Quits
<1>4. QED
  BY <1>1, <1>2, <1>3, SimpleInv

LEMMA InitLemma ==
  ASSUME Init
  PROVE  SmtpInv
<1>1. Typed
  <2>1. call \in Calls /\ call.steps = <<>> /\ result \in Returneds
    BY IdleFacts DEF Init
  <2>2. /\ agreed \in Seq(Rcpts) /\ to \in Seq(Rcpts) /\ toServer \in Seq(StepSet)
        /\ toClient \in Seq(Lines) /\ delivered \in Seq(SUBSET Rcpts)
    BY DEF Init
  <2>3. /\ stream \in BOOLEAN /\ esmtp \in BOOLEAN /\ lmtp \in BOOLEAN /\ late \in BOOLEAN
        /\ sent \in Nat /\ server \in Places /\ call = Idle
    BY DEF Init, Places
  <2>4. QED
    BY <2>1, <2>2, <2>3 DEF Typed
<1>2. Numbered
  BY DEF Init, Numbered
<1>3. Structured
  BY DEF Init, Structured
<1>4. Phase
  BY DEF Init, Phase
<1>5. QED
  BY <1>1, <1>2, <1>3, <1>4 DEF SmtpInv

LEMMA StutterInv ==
  ASSUME SmtpInv, UNCHANGED vars
  PROVE  SmtpInv'
<1>1. /\ UNCHANGED <<stream, esmtp, agreed, call, result, toServer, toClient, server, lmtp, to>>
      /\ UNCHANGED <<delivered, sent, late>>
  BY DEF vars, sessionVars, serverVars, countVars
<1>2. Typed'
  BY <1>1 DEF SmtpInv, Typed
<1>3. Numbered'
  BY <1>1 DEF SmtpInv, Numbered
<1>4. Structured'
  <2>1. Shape => Shape'
    BY <1>1 DEF Shape, Op, Single, InitShape, SendShape, FnOf
  <2>2. QED
    BY <1>1, <2>1 DEF SmtpInv, Structured
<1>5. Phase'
  <2>1. Asked => Asked'
    BY <1>1 DEF Asked, Op
  <2>2. Served => Served'
    BY <1>1 DEF Served, LastLine, Verdict, Op
  <2>3. ServedEach => ServedEach'
    BY <1>1 DEF ServedEach, Gets, Op
  <2>4. (Lost => Lost') /\ (Quiet => Quiet')
    BY <1>1 DEF Lost, Quiet, DataDone
  <2>5. (Again' <=> Again) /\ (Repeated => Repeated')
    BY <1>1 DEF Again, Single, Repeated
  <2>6. QED
    BY <1>1, <2>1, <2>2, <2>3, <2>4, <2>5 DEF SmtpInv, Phase
<1>6. QED
  BY <1>2, <1>3, <1>4, <1>5 DEF SmtpInv

LEMMA NextLemma ==
  ASSUME SmtpInv, [Next]_vars
  PROVE  SmtpInv'
<1>1. CASE Connect
  BY <1>1, ConnectInv
<1>2. CASE Init_
  BY <1>2, InitInv
<1>3. CASE Lhlo
  <2>1. Simple("lhlo", "LHLO") /\ <<"lhlo", "LHLO">> \in Simples
    BY <1>3 DEF Lhlo, Simples
  <2>2. QED
    BY <2>1, SimplesInv
<1>4. CASE Mail
  <2>1. Simple("mail", "MAIL") /\ <<"mail", "MAIL">> \in Simples
    BY <1>4 DEF Mail, Simples
  <2>2. QED
    BY <2>1, SimplesInv
<1>5. CASE Data
  <2>1. Simple("data", "DATA") /\ <<"data", "DATA">> \in Simples
    BY <1>5 DEF Data, Simples
  <2>2. QED
    BY <2>1, SimplesInv
<1>6. CASE DataMessage
  BY <1>6, DataMessageInv
<1>7. CASE \E r \in Rcpts : Rcpt(r)
  BY <1>7, RcptInv
<1>8. CASE \E rcpts \in Lists : \/ SmtpSend(rcpts)
                                \/ EsmtpSend("BODY", rcpts)
                                \/ EsmtpSend("BODYQUIT", rcpts)
                                \/ EsmtpSend("BODYQUITKEEP", rcpts)
  <2>1. PICK rcpts \in Lists : SmtpSend(rcpts) \/ \E last \in Texts : EsmtpSend(last, rcpts)
    BY <1>8 DEF Texts, Quits
  <2>2. QED
    BY <2>1, HelpersInv
<1>9. CASE Auth
  <2>1. Simple("auth", "AUTH") /\ <<"auth", "AUTH">> \in Simples
    BY <1>9 DEF Auth, Simples
  <2>2. QED
    BY <2>1, SimplesInv
<1>10. CASE Oauth2
  <2>1. Simple("auth", "XOAUTH2") /\ <<"auth", "XOAUTH2">> \in Simples
    BY <1>10 DEF Oauth2, Simples
  <2>2. QED
    BY <2>1, SimplesInv
<1>11. CASE Clientid
  <2>1. Simple("clientid", "CLIENTID") /\ <<"clientid", "CLIENTID">> \in Simples
    BY <1>11 DEF Clientid, Simples
  <2>2. QED
    BY <2>1, SimplesInv
<1>12. CASE Starttls
  <2>1. Simple("starttls", "STARTTLS") /\ <<"starttls", "STARTTLS">> \in Simples
    BY <1>12 DEF Starttls, Simples
  <2>2. QED
    BY <2>1, SimplesInv
<1>13. CASE Noop
  <2>1. Simple("noop", "NOOP") /\ <<"noop", "NOOP">> \in Simples
    BY <1>13 DEF Noop, Simples
  <2>2. QED
    BY <2>1, SimplesInv
<1>14. CASE Reset
  <2>1. Simple("reset", "RSET") /\ <<"reset", "RSET">> \in Simples
    BY <1>14 DEF Reset, Simples
  <2>2. QED
    BY <2>1, SimplesInv
<1>15. CASE Quit
  BY <1>15, QuitInv
<1>16. CASE ReadMore
  BY <1>16, ReadMoreInv
<1>17. CASE ReadAnswer
  BY <1>17, ReadAnswerInv
<1>18. CASE NoAnswer
  BY <1>18, NoAnswerInv
<1>19. CASE Serve
  BY <1>19, ServeInv
<1>20. CASE Drop
  BY <1>20, DropInv
<1>21. CASE UNCHANGED vars
  BY <1>21, StutterInv
<1>22. QED
  BY <1>1, <1>2, <1>3, <1>4, <1>5, <1>6, <1>7, <1>8, <1>9, <1>10, <1>11, <1>12, <1>13, <1>14, <1>15,
     <1>16, <1>17, <1>18, <1>19, <1>20, <1>21 DEF Next

LEMMA SmtpInvariant == Spec => []SmtpInv
<1>1. Init => SmtpInv
  BY InitLemma
<1>2. SmtpInv /\ [Next]_vars => SmtpInv'
  BY NextLemma
<1>3. QED
  BY <1>1, <1>2, PTL DEF Spec

-----------------------------------------------------------------------------
LEMMA TypesHold ==
  ASSUME Typed, Numbered
  PROVE  TypeOK
<1>1. StepSet \subseteq [op : Ops, to : Rcpts \cup {0}]
  BY DEF StepSet
<1>2. call.steps \in Seq([op : Ops, to : Rcpts \cup {0}]) /\ toServer \in Seq([op : Ops, to : Rcpts \cup {0}])
  <2>1. PICK S : S = [op : Ops, to : Rcpts \cup {0}]
    OBVIOUS
  <2>2. call.steps \in Seq(StepSet) /\ toServer \in Seq(StepSet) /\ StepSet \subseteq S
    BY <1>1, <2>1 DEF Typed, Calls
  <2>3. call.steps \in Seq(S) /\ toServer \in Seq(S)
    BY <2>2
  <2>4. QED
    BY <2>1, <2>3
<1>3. toClient \in Seq([of : 1..sent, code : Codes, more : BOOLEAN])
  <2>1. toClient \in Seq(Lines) /\ sent \in Nat
    BY DEF Typed
  <2>2. PICK S : S = [of : 1..sent, code : Codes, more : BOOLEAN]
    OBVIOUS
  <2>3. ASSUME NEW p \in 1..Len(toClient)
        PROVE  toClient[p] \in S
    <3>1. PICK line \in Lines : line = toClient[p] /\ 1 <= line.of /\ line.of <= sent
      BY <2>1 DEF Numbered
    <3>2. line.of \in 1..sent /\ line.code \in Codes /\ line.more \in BOOLEAN
      BY <2>1, <3>1 DEF Lines
    <3>3. line = [of |-> line.of, code |-> line.code, more |-> line.more]
      BY DEF Lines
    <3>4. QED
      BY <2>2, <3>1, <3>2, <3>3
  <2>4. toClient \in Seq(S)
    BY <2>1, <2>3, IsASeq, LenProperties
  <2>5. QED
    BY <2>2, <2>4
<1>4. QED
  BY <1>2, <1>3 DEF Typed, TypeOK, Places

\* Every call of a session that has left no answer behind reads the answer to
\* its own command, all of its lines and nothing else.
THEOREM CallsStayInStep == Spec => []InStep
<1>1. SmtpInv => InStep
  <2>1. SUFFICES ASSUME SmtpInv
                 PROVE  InStep
    OBVIOUS
  <2>2. TypeOK
    BY <2>1, TypesHold DEF SmtpInv
  <2>3. ASSUME ~late, call # Idle, toClient # <<>>
        PROVE  Head(toClient).of = call.num
    <3>1. Head(toClient) = toClient[1] /\ Len(toClient) \in Nat \ {0}
      BY <2>1, <2>3, LineTaken DEF SmtpInv
    <3>2. Served \/ ServedEach \/ Repeated
      BY <2>1, <2>3 DEF SmtpInv, Phase, Asked, Lost
    <3>3. toClient[1].of = call.num
      BY <2>3, <3>1, <3>2 DEF Served, ServedEach, LastLine, Repeated
    <3>4. QED
      BY <3>1, <3>3
  <2>4. ~late /\ call = Idle /\ stream => toClient = <<>> /\ toServer = <<>>
    BY <2>1 DEF SmtpInv, Phase, Quiet
  <2>5. QED
    BY <2>2, <2>3, <2>4 DEF InStep
<1>2. QED
  BY <1>1, SmtpInvariant, PTL

\* No call of such a session waits for an answer that nobody will send, also
\* not maillmtp_data_message for one of its recipients.
THEOREM NobodyWaits == Spec => []NoMutualWait
<1>1. SmtpInv => NoMutualWait
  <2>1. SUFFICES ASSUME SmtpInv, ~late, call # Idle
                 PROVE  toServer # <<>> \/ toClient # <<>> \/ server = "closed"
    BY DEF NoMutualWait
  <2>2. Wire(call.steps[1]) # <<>>
    BY <2>1, CallFacts, WireFacts DEF SmtpInv
  <2>3. QED
    BY <2>1, <2>2 DEF SmtpInv, Phase, Asked, Served, ServedEach, Lost, Repeated
<1>2. QED
  BY <1>1, SmtpInvariant, PTL

-----------------------------------------------------------------------------
\* What is known of the message while the call waits for an answer.
Held ==
  /\ Gets \subseteq Range(call.rcpts)
  /\ call.fn = "send_twice" => delivered = <<>> \/ delivered = << Range(call.rcpts) >>
  /\ \A i \in 1..Len(call.codes) : call.codes[i] # 0 =>
       (call.codes[i] = 250 <=> call.rcpts[i] \in Gets)

LEMMA HeldInPhase ==
  ASSUME SmtpInv, ~late, call # Idle
  PROVE  Held
<1>1. Typed /\ Numbered /\ Structured
  BY DEF SmtpInv
<1>2. Op # "LBODY" => call.codes = <<>>
  BY <1>1, ShapeFacts
<1>3. call.fn = "lmtp_data_message" <=> Op = "LBODY"
  BY <1>1, ShapeFacts
<1>4. PICK S : S = Range(call.rcpts)
  OBVIOUS
<1>5. ASSUME delivered = <<>> \/ delivered = << S >>
      PROVE  Gets \subseteq S
  BY <1>5, RangeFacts DEF Gets
<1>6. CASE Again
  <2>1. delivered = << S >> /\ Op # "LBODY"
    BY <1>3, <1>4, <1>6 DEF SmtpInv, Phase, Repeated, Again
  <2>2. call.codes = <<>>
    BY <1>2, <2>1
  <2>3. 1..Len(call.codes) = {}
    BY <2>2
  <2>4. QED
    BY <1>4, <1>5, <2>1, <2>3 DEF Held
<1>7. CASE ~Again /\ Asked
  <2>1. delivered = <<>> /\ 1..Len(call.codes) = {}
    BY <1>7 DEF Asked
  <2>2. QED
    BY <1>4, <1>5, <2>1 DEF Held
<1>8. CASE ~Again /\ Served
  <2>1. PICK code : Verdict(code)
    BY <1>8 DEF Served, LastLine
  <2>2. delivered = <<>> \/ delivered = << S >>
    BY <1>4, <2>1 DEF Verdict
  <2>3. Op # "LBODY"
    BY <1>8 DEF Served
  <2>4. 1..Len(call.codes) = {}
    BY <1>2, <2>3
  <2>5. QED
    BY <1>4, <1>5, <2>2, <2>4 DEF Held
<1>9. CASE ~Again /\ ServedEach
  BY <1>3, <1>9 DEF ServedEach, Held
<1>10. CASE ~Again /\ Lost
  <2>1. delivered = <<>> /\ \A i \in 1..Len(call.codes) : call.codes[i] = 0
    BY <1>10 DEF Lost
  <2>2. QED
    BY <1>4, <1>5, <2>1 DEF Held
<1>11. QED
  BY <1>6, <1>7, <1>8, <1>9, <1>10 DEF SmtpInv, Phase

\* A call returns without its answer.
LEMMA MissedReported ==
  ASSUME SmtpInv, NoAnswer, ~late, result' # result, result'.fn \in Sending
  PROVE  Reported'
<1>1. /\ call # Idle /\ Typed /\ Numbered /\ Structured /\ delivered' = delivered
  BY DEF NoAnswer, SmtpInv
<1>2. PICK code \in Results : code = 0
  BY DEF Results
<1>3. Answered(code) /\ code # 334
  BY <1>2 DEF NoAnswer
<1>4. Held /\ call.codes \in Seq(Results) /\ call.rcpts \in Seq(Rcpts) /\ Gets' = Gets
  BY <1>1, HeldInPhase, CallFacts DEF Gets
<1>5. CASE EachRead(code) /\ Len(call.codes) + 1 = Len(call.rcpts)
  <2>1. PICK codes : codes = Append(call.codes, code)
    OBVIOUS
  <2>2. /\ codes \in Seq(Results) /\ Len(call.codes) \in Nat
        /\ (\A i \in 1..Len(call.codes) : codes[i] = call.codes[i])
        /\ codes[Len(call.codes) + 1] = code
    BY <1>4, <2>1, AppendFacts
  <2>3. PICK ok \in BOOLEAN : Returns(ok, code, codes)
    BY <1>5, <2>1 DEF EachRead
  <2>4. result'.fn = call.fn /\ result'.rcpts = call.rcpts /\ result'.codes = codes
    BY <1>1, <2>2, <2>3, ReturnsFacts
  <2>5. call.fn = "lmtp_data_message"
    BY <1>1, <1>5, ShapeFacts DEF EachRead
  <2>6. ASSUME NEW i \in 1..Len(call.rcpts), codes[i] # 0
        PROVE  codes[i] = 250 <=> call.rcpts[i] \in Gets
    <3>1. i # Len(call.codes) + 1
      BY <1>2, <2>2, <2>6
    <3>2. i \in 1..Len(call.codes)
      BY <1>5, <2>2, <3>1
    <3>3. codes[i] = call.codes[i]
      BY <2>2, <3>2
    <3>4. QED
      BY <1>4, <2>6, <3>2, <3>3 DEF Held
  <2>7. DOMAIN call.rcpts = 1..Len(call.rcpts)
    BY <1>4, LenProperties
  <2>8. UNION Range(delivered') = Gets /\ Gets \subseteq Range(call.rcpts)
    BY <1>1, <1>4 DEF Gets, Held
  <2>9. QED
    BY <2>4, <2>5, <2>6, <2>7, <2>8 DEF Reported
<1>6. CASE OneRead(code)
  BY <1>6 DEF OneRead
<1>7. CASE Proceeds(code)
  BY <1>7 DEF Proceeds, Continues
<1>8. CASE Ends(code)
  <2>1. ~Ok(code)
    BY <1>1, <1>2, CallFacts, AcceptFacts DEF Ok
  <2>2. Returns(FALSE, code, <<>>) /\ Op # "LBODY"
    <3>1. Ok(code) = FALSE
      BY <2>1 DEF Ok
    <3>2. QED
      BY <1>8, <3>1 DEF Ends
  <2>3. <<>> \in Seq(Results)
    OBVIOUS
  <2>4. /\ result'.fn = call.fn /\ result'.ok = FALSE /\ result'.code = 0
        /\ result'.rcpts = call.rcpts
    BY <1>1, <1>2, <2>2, <2>3, ReturnsFacts
  <2>5. call.fn # "lmtp_data_message"
    BY <1>1, <2>2, ShapeFacts
  <2>6. UNION Range(delivered') = Gets /\ Gets \subseteq Range(call.rcpts)
    BY <1>1, <1>4 DEF Gets, Held
  <2>7. QED
    BY <1>1, <1>4, <2>4, <2>5, <2>6 DEF Reported, Held
<1>9. QED
  BY <1>1, <1>3, <1>5, <1>6, <1>7, <1>8, AnsweredCases

\* A call returns with its answer.
LEMMA AnswerReported ==
  ASSUME SmtpInv, ReadAnswer, ~late, result' # result, result'.fn \in Sending
  PROVE  Reported'
<1>1. /\ call # Idle /\ Typed /\ Numbered /\ Structured /\ delivered' = delivered
  BY DEF ReadAnswer, SmtpInv
<1>2. PICK code \in Results :
        /\ Reads(code) /\ ~toClient[1].more /\ toClient # <<>>
        /\ \/ code = toClient[1].code /\ code # 0
           \/ code = 0 /\ Op = "STARTTLS" /\ Len(toClient) > 1
  BY ReadAnswerFacts
<1>3. Answered(code)
  BY <1>2 DEF Reads, Moves
<1>4. 334 \in Results /\ <<>> \in Seq(Results) /\ call.codes \in Seq(Results)
  BY <1>1, CallFacts DEF Results, Codes
<1>5. CASE EachRead(code) /\ Len(call.codes) + 1 = Len(call.rcpts)
  <2>1. Op = "LBODY" /\ code = toClient[1].code
    BY <1>2, <1>5 DEF EachRead
  <2>2. ~Again
    BY <1>1, <2>1, ShapeFacts DEF Again
  <2>3. ServedEach
    BY <1>1, <1>2, <2>1, <2>2 DEF SmtpInv, Phase, Asked, Served, Lost
  <2>4. QED
    BY <1>1, <1>2, <1>5, <2>1, <2>3, EachReadPhase
<1>6. CASE OneRead(code)
  BY <1>6 DEF OneRead
<1>7. CASE \E op \in {"RESPONSE", "TOKEN"} : Responds(op)
  BY <1>7 DEF Responds, Continues
<1>8. CASE GivesUp
  <2>1. result'.fn = call.fn /\ Op \in AuthOps
    BY <1>1, <1>4, <1>8, ReturnsFacts DEF GivesUp
  <2>2. call.fn = "auth"
    BY <1>1, <2>1, ShapeFacts
  <2>3. QED
    BY <2>1, <2>2 DEF Sending
<1>9. CASE Proceeds(code)
  BY <1>9 DEF Proceeds, Continues
<1>10. CASE Ends(code)
  <2>1. Ok(code) \in BOOLEAN /\ Returns(Ok(code), code, <<>>) /\ Op # "LBODY"
    BY <1>10 DEF Ends, Ok
  <2>2. result'.fn = call.fn /\ result'.ok = Ok(code) /\ result'.rcpts = call.rcpts
    BY <1>1, <1>4, <2>1, ReturnsFacts
  <2>3. Op # "STARTTLS"
    <3>1. call.fn \in {"send", "send_twice"} => Op # "STARTTLS"
      BY <1>1, SendOps
    <3>2. call.fn = "data_message" => Op = "BODY"
      BY <1>1, ShapeFacts
    <3>3. call.fn # "lmtp_data_message"
      BY <1>1, <2>1, ShapeFacts
    <3>4. QED
      BY <2>2, <3>1, <3>2, <3>3 DEF Sending
  <2>4. code = toClient[1].code
    BY <1>2, <2>3
  <2>5. CASE ~Again
    <3>1. Served
      BY <1>1, <1>2, <2>1, <2>5 DEF SmtpInv, Phase, Asked, ServedEach, Lost
    <3>2. QED
      BY <1>1, <1>2, <1>10, <2>2, <2>4, <2>5, <3>1, EndsReported
  <2>6. CASE Again
    <3>1. code = 500 /\ delivered = << Range(call.rcpts) >>
      BY <1>1, <1>2, <2>4, <2>6 DEF SmtpInv, Phase, Repeated
    <3>2. ~Ok(code)
      <4>1. Tail(call.steps) = <<>> /\ call.fn = "send_twice"
        BY <1>1, <2>6, CallFacts, EmptyFacts DEF Again, Single
      <4>2. Op \in Texts
        BY <1>1, <4>1, ShapeFacts
      <4>3. Accepts(Op) = {250}
        BY <4>2 DEF Accepts, Texts, Quits
      <4>4. QED
        BY <3>1, <4>3 DEF Ok
    <3>3. UNION Range(delivered') \subseteq Range(call.rcpts)
      <4>1. PICK S : S = Range(call.rcpts)
        OBVIOUS
      <4>2. QED
        BY <1>1, <3>1, <4>1, RangeFacts
    <3>4. QED
      BY <1>1, <2>2, <2>6, <3>1, <3>2, <3>3 DEF Reported, Again
  <2>7. QED
    BY <2>5, <2>6
<1>11. QED
  BY <1>1, <1>3, <1>5, <1>6, <1>7, <1>8, <1>9, <1>10, AnsweredCases

\* The calls that start, and the one that returns at once.
LEMMA StartReported ==
  ASSUME DataMessage, result' # result, result'.fn \in Sending
  PROVE  Reported'
<1>1. CASE result' = NoResult
  BY <1>1, IdleFacts DEF Sending
<1>2. CASE result' = Returned("lmtp_data_message", TRUE, 0, <<>>, <<>>) /\ delivered' = <<>>
  <2>1. result'.fn = "lmtp_data_message" /\ result'.rcpts = <<>>
    BY <1>2 DEF Returned
  <2>2. UNION Range(delivered') = {} /\ DOMAIN <<>> = {}
    BY <1>2, RangeFacts
  <2>3. QED
    BY <2>1, <2>2 DEF Reported
<1>3. QED
  BY <1>1, <1>2 DEF DataMessage, Starts

\* In a session that has left no answer behind, up to the return of a call that
\* sends a message, what the call returns is true of the message: with an
\* answer, success means that the server took it once and for just the
\* recipients of the call, and failure that it did not take it.  Only mailesmtp_send
\* and its variants on a session without ESMTP say less: they never succeed,
\* although the server may have taken the message, once and for just them.
THEOREM SendsReported == Spec => SendReported
<1>1. ASSUME SmtpInv, Next, ~late, result' # result, result'.fn \in Sending
      PROVE  Reported'
  <2>1. result' # NoResult
    BY <1>1, IdleFacts DEF Sending
  <2>2. CASE DataMessage
    BY <1>1, <2>2, StartReported
  <2>3. CASE ReadAnswer
    BY <1>1, <2>3, AnswerReported
  <2>4. CASE NoAnswer
    BY <1>1, <2>4, MissedReported
  <2>5. ~(Connect \/ Init_ \/ Lhlo \/ Mail \/ Data \/ Quit)
    BY <2>1 DEF Connect, Init_, Lhlo, Mail, Data, Quit, Simple, Starts
  <2>6. ~\E r \in Rcpts : Rcpt(r)
    BY <2>1 DEF Rcpt, Starts
  <2>7. ~\E rcpts \in Lists : \/ SmtpSend(rcpts)
                             \/ EsmtpSend("BODY", rcpts)
                             \/ EsmtpSend("BODYQUIT", rcpts)
                             \/ EsmtpSend("BODYQUITKEEP", rcpts)
    BY <2>1 DEF SmtpSend, EsmtpSend, Starts
  <2>8. ~(Auth \/ Oauth2 \/ Clientid \/ Starttls \/ Noop \/ Reset)
    BY <2>1 DEF Auth, Oauth2, Clientid, Starttls, Noop, Reset, Simple, Starts
  <2>9. ~(ReadMore \/ Serve \/ Drop)
    BY <1>1 DEF ReadMore, Serve, Drop
  <2>10. QED
    BY <1>1, <2>2, <2>3, <2>4, <2>5, <2>6, <2>7, <2>8, <2>9 DEF Next
<1>2. SmtpInv /\ [Next]_vars => [~late /\ result' # result /\ result'.fn \in Sending => Reported']_vars
  BY <1>1
<1>3. QED
  BY <1>2, SmtpInvariant, PTL DEF Spec, SendReported
=============================================================================
