----------------------------- MODULE StreamData -----------------------------
(***************************************************************************)
(* A text carried over a mailstream the two ways the protocols do it       *)
(* (data-types/mailstream_helper.c): as lines that end with a single       *)
(* period, sent with mailstream_send_data and read back with               *)
(* mailstream_read_multiline, or as a literal whose size is announced      *)
(* first, sent with mailstream_send_data_crlf and read back as the IMAP    *)
(* parser does.  The program that sends may close the connection once its  *)
(* call has returned, with success or not.                                 *)
(***************************************************************************)
EXTENDS MailStream, SequencesExt

CONSTANTS MaxText,    \* longest text
          MaxEnds,    \* lines that are read at the end of the stream
          MaxRead     \* MAX_READ_PROGRESS

CR == "CR"
LF == "LF"
Dot == "."
Nul == "NUL"
CRLF == <<CR, LF>>

ASSUME DataAssumption ==
  /\ {CR, LF, Dot} \subseteq Byte
  /\ {MaxText, MaxEnds} \subseteq Nat
  /\ MaxRead \in Nat \ {0}

VARIABLES
  text,              \* the message
  mode,              \* "data" or "literal"
  spc,               \* the sender: sending, ok, failed
  writes,            \* the calls of mailstream_write that are left
  rst,               \* the reader: reading, ok, failed
  line,              \* stream_buffer: the line that is being read
  multiline_buffer,  \* the text that was read
  needed,            \* bytes of the literal that are missing
  ends,              \* lines that were read at the end of the stream
  cut                \* history: a write was short and the sender went on

dataVars ==
  <<text, mode, spc, writes, rst, line, multiline_buffer, needed, ends, cut>>
textVars == <<streamVars, dataVars>>

-----------------------------------------------------------------------------
\* send_data_line: the end of the line that starts at i, and whether its line
\* break has to be fixed.

Eols(m, i) == {j \in i..Len(m) : m[j] \in {CR, LF}}

LineEnd(m, i) ==
  IF Eols(m, i) = {} THEN [last |-> Len(m), fix_eol |-> FALSE]
  ELSE LET e == Min(Eols(m, i)) IN
       IF m[e] = CR /\ e < Len(m) /\ m[e + 1] = LF
         THEN [last |-> e + 1, fix_eol |-> FALSE]
         ELSE [last |-> e, fix_eol |-> TRUE]

LineWrites(m, i) ==
  LET e == LineEnd(m, i) IN
  IF e.fix_eol THEN <<SubSeq(m, i, e.last - 1), CRLF>>
               ELSE <<SubSeq(m, i, e.last)>>

\* send_data_crlf_progress: the writes for all the lines; a quoted line that
\* starts with a period gets another one.
Quote_AtStart(m, i, quoted) == IF quoted /\ i = 1 /\ m[i] = Dot THEN <<<<Dot>>>> ELSE <<>>
Quote(m, i, quoted) == IF quoted /\ m[i] = Dot THEN <<<<Dot>>>> ELSE <<>>

TextWrites(m, quoted) ==
  LET From[i \in 1..(Len(m) + 1)] ==
        IF i > Len(m) THEN <<>>
        ELSE Quote(m, i, quoted) \o LineWrites(m, i) \o From[LineEnd(m, i).last + 1]
  IN From[1]

\* mailstream_send_data, mailstream_send_data_crlf
SendWrites(m, how) ==
  IF how = "data" THEN Append(TextWrites(m, TRUE), CRLF \o <<Dot>> \o CRLF)
                  ELSE TextWrites(m, FALSE)

\* get_data_size, mailstream_get_data_crlf_size
DataCrlfSize(m) ==
  LET From[i \in 1..(Len(m) + 1)] ==
        IF i > Len(m) THEN 0
        ELSE LET e == LineEnd(m, i) IN
             e.last - i + 1 + (IF e.fix_eol THEN 1 ELSE 0) + From[e.last + 1]
  IN From[1]

-----------------------------------------------------------------------------
DataInit ==
  /\ StreamInit
  /\ text \in BoundedSeq(Byte, MaxText)
  /\ mode \in {"data", "literal"}
  /\ spc = "sending" /\ writes = SendWrites(text, mode)
  /\ rst = "reading" /\ line = <<>> /\ multiline_buffer = <<>>
  /\ needed = DataCrlfSize(text)
  /\ ends = 0 /\ cut = FALSE

\* The next write, unless the last one returned -1; a short count is taken
\* for success.  mailstream_flush at the end.
SendWrite ==
  /\ spc = "sending" /\ wret # "failed" /\ writes # <<>>
  /\ WriteCall(Head(writes))
  /\ writes' = Tail(writes)
  /\ UNCHANGED <<text, mode, spc, rst, line, multiline_buffer, needed, ends, cut>>

SendFlush ==
  /\ spc = "sending" /\ wret \notin {"failed", "flushed"} /\ writes = <<>>
  /\ FlushCall
  /\ UNCHANGED dataVars

SendReturns ==
  /\ spc = "sending" /\ wpc = "idle"
  /\ \/ wret = "failed" /\ spc' = "failed"
     \/ wret = "flushed" /\ spc' = "ok"
  /\ UNCHANGED <<text, mode, writes, rst, line, multiline_buffer, needed, ends, cut>>
  /\ UNCHANGED streamVars

Sending ==
  /\ WriterStep
  /\ cut' = (cut \/ wret' = "short")
  /\ UNCHANGED <<text, mode, spc, writes, rst, line, multiline_buffer, needed, ends>>

SenderCloses ==
  /\ spc # "sending"
  /\ Close
  /\ UNCHANGED dataVars

-----------------------------------------------------------------------------
\* mailstream_read_multiline

\* remove_trailing_eol
WithoutLast(l, b) == IF l # <<>> /\ Last(l) = b THEN Front(l) ELSE l
RemoveTrailingEol(l) == WithoutLast(WithoutLast(l, LF), CR)

\* The line as a C string.
CString(l) == SubSeq(l, 1, Min({j \in 1..Len(l) : l[j] = Nul} \cup {Len(l) + 1}) - 1)

IsEndMultiline(l) == l = <<Dot>>

Unquote_Not(l) == l
Unquote(l) == IF l # <<>> /\ Head(l) = Dot THEN Tail(l) ELSE l

\* The line l is complete.
EndLine(l) ==
  LET str == CString(RemoveTrailingEol(l)) IN
  /\ line' = <<>>
  /\ IF IsEndMultiline(str)
       THEN /\ rst' = "ok"
            /\ UNCHANGED multiline_buffer
       ELSE /\ multiline_buffer' = multiline_buffer \o Unquote(str) \o CRLF
            /\ UNCHANGED rst

\* mailstream_read_line_append: the buffer up to the end of line, or all of it.
LineFromBuffer ==
  LET lfs == {i \in 1..Len(read_buffer) : read_buffer[i] = LF}
      n == IF lfs = {} THEN Len(read_buffer) ELSE Min(lfs)
      l == line \o Prefix(read_buffer, n)
  IN
  /\ rst = "reading" /\ mode = "data" /\ read_buffer # <<>>
  /\ ReadCall(n)
  /\ IF lfs = {} THEN line' = l /\ UNCHANGED <<rst, multiline_buffer>>
                 ELSE EndLine(l)
  /\ UNCHANGED <<text, mode, spc, writes, needed, ends, cut>>

LineFeeds ==
  /\ rst = "reading" /\ mode = "data"
  /\ \E n \in 1..Len(wire) : Feed(n)
  /\ UNCHANGED dataVars

\* The end of the stream ends the line, and not the loop over the lines.
LineAtEnd ==
  /\ rst = "reading" /\ mode = "data" /\ ends < MaxEnds
  /\ FeedAtEnd
  /\ EndLine(line)
  /\ ends' = ends + 1
  /\ UNCHANGED <<text, mode, spc, writes, needed, cut>>

LineFails_Retries ==
  /\ rst = "reading" /\ mode = "data"
  /\ FeedFails
  /\ UNCHANGED dataVars

LineFails ==
  /\ rst = "reading" /\ mode = "data"
  /\ FeedFails
  /\ rst' = "failed"
  /\ UNCHANGED <<text, mode, spc, writes, line, multiline_buffer, needed, ends, cut>>

-----------------------------------------------------------------------------
\* The line that announced the size was read with mailstream_read_line_append,
\* whose last low level read may have brought the beginning of the literal.
LiteralFeeds ==
  /\ rst = "reading" /\ mode = "literal" /\ got = <<>>
  /\ \E n \in 1..Len(wire) : Feed(n)
  /\ UNCHANGED dataVars

\* The loop of mailimap_literal_parse_progress.

LiteralRead ==
  /\ rst = "reading" /\ mode = "literal" /\ needed > 0
  /\ Len(read_buffer) < Min({needed, MaxRead})
  /\ ReadCall(Min({needed, MaxRead}))
  /\ UNCHANGED dataVars

\* mailstream_read has returned, in this step, the bytes that got' has more.
LiteralTake ==
  LET n == Len(got') - Len(multiline_buffer) IN
  /\ multiline_buffer' = got'
  /\ needed' = needed - n
  /\ rst' = IF rret' \in {"failed", "eof"} THEN "failed" ELSE "reading"

LiteralReading ==
  /\ rst = "reading" /\ mode = "literal"
  /\ ReaderStep
  /\ LiteralTake
  /\ UNCHANGED <<text, mode, spc, writes, line, ends, cut>>

LiteralFromBuffer ==
  /\ rst = "reading" /\ mode = "literal" /\ needed > 0
  /\ Len(read_buffer) >= Min({needed, MaxRead})
  /\ ReadCall(Min({needed, MaxRead}))
  /\ LiteralTake
  /\ UNCHANGED <<text, mode, spc, writes, line, ends, cut>>

LiteralEnds ==
  /\ rst = "reading" /\ mode = "literal" /\ needed = 0
  /\ rst' = "ok"
  /\ UNCHANGED <<text, mode, spc, writes, line, multiline_buffer, needed, ends, cut>>
  /\ UNCHANGED streamVars

-----------------------------------------------------------------------------
Sender == SendWrite \/ SendFlush \/ SendReturns \/ Sending
Reader ==
  \/ LineFromBuffer \/ LineFeeds \/ LineAtEnd \/ LineFails
  \/ LiteralFeeds \/ LiteralRead \/ LiteralReading \/ LiteralFromBuffer \/ LiteralEnds

DataNext == Sender \/ SenderCloses \/ Reader

\* The two programs go on with the calls they have begun: the low level
\* functions return, if only because of their timeout.
DataFairness == WF_textVars(Sender) /\ WF_textVars(Reader)

DataSpec == DataInit /\ [][DataNext]_textVars /\ DataFairness

-----------------------------------------------------------------------------
DataTypeOK ==
  /\ StreamTypeOK
  /\ spc \in {"sending", "ok", "failed"} /\ rst \in {"reading", "ok", "failed"}
  /\ writes \in Seq(Seq(Byte))
  /\ line \in Seq(Byte) /\ multiline_buffer \in Seq(Byte)
  /\ needed \in Nat /\ ends \in 0..MaxEnds /\ cut \in BOOLEAN

\* The reference, byte by byte: a line break of any kind becomes CR LF ...
Normal(m, i) ==
  IF \/ m[i] = LF /\ (i = 1 \/ m[i - 1] # CR)
     \/ m[i] = CR /\ (i = Len(m) \/ m[i + 1] # LF)
    THEN CRLF ELSE <<m[i]>>

NormalText(m) == FlattenSeq([i \in 1..Len(m) |-> Normal(m, i)])

\* ... and a period that starts a line is doubled.
LineStart(m, i) == i = 1 \/ m[i - 1] = LF \/ (m[i - 1] = CR /\ m[i] # LF)

Stuffed(m) ==
  FlattenSeq([i \in 1..Len(m) |->
    IF m[i] = Dot /\ LineStart(m, i) THEN <<Dot, Dot>> ELSE Normal(m, i)])

\* A call of mailstream_send_data that returns 0 has put on the connection the
\* quoted text with its line breaks fixed and the final period, one of
\* mailstream_send_data_crlf as many bytes as mailstream_get_data_crlf_size
\* announced, unless a write was cut short by an error that went away.
SendDelivers ==
  spc = "ok" /\ ~cut =>
    IF mode = "data" THEN Sent = Stuffed(text) \o CRLF \o <<Dot>> \o CRLF
                     ELSE Sent = NormalText(text) /\ Len(Sent) = DataCrlfSize(text)

\* What the reader has when its call succeeds is the text, with a line break
\* at the end of the last line, however the bytes were cut into pieces on the
\* way, unless the stream ended before the final period.
ReadDelivers ==
  /\ DataTypeOK
  /\ rst = "ok" /\ ends = 0 /\ ~cut =>
       IF mode = "data"
         THEN Nul \notin Range(text) => multiline_buffer = NormalText(text) \o CRLF
         ELSE multiline_buffer = NormalText(text)

\* "reads a multiline data (several lines, the data are ended with a single
\* period)": what mailstream_read_multiline returns is the whole text.
MultilineIsWhole ==
  rst = "ok" /\ mode = "data" /\ ~cut /\ Nul \notin Range(text) =>
    multiline_buffer = NormalText(text) \o CRLF

\* A call that sends returns: the writes that take no byte are counted.
SendEnds == spc = "sending" ~> spc # "sending"

\* A call that reads returns, unless the peer has closed: then
\* mailstream_read_multiline takes the end of the stream for an empty line,
\* again and again.
ReadEnds == rst = "reading" ~> (rst # "reading" \/ closed)
=============================================================================
