----------------------------- MODULE MailStream -----------------------------
(***************************************************************************)
(* The buffers of data-types/mailstream.c.  One program writes to its      *)
(* mailstream, another reads from its own, and a connection carries the    *)
(* bytes from the low level stream of the first to that of the second.     *)
(* A write may send what is in the buffer first and may bypass the buffer; *)
(* the low level stream may take a part of the bytes, take none, or fail,  *)
(* and later work again.                                                   *)
(***************************************************************************)
EXTENDS Naturals, Sequences

CONSTANTS Byte,
          BufferMax,     \* buffer_max_size
          MaxZeroWrites  \* MAILSTREAM_MAX_ZERO_WRITES

ASSUME StreamAssumption ==
  /\ BufferMax \in Nat \ {0}
  /\ MaxZeroWrites \in Nat \ {0}

VARIABLES
  write_buffer,  \* the writer's buffer, write_buffer_len bytes of it
  wpc,           \* the writer: idle, in flush, in write before write_direct or
                 \* write_to_internal_buffer, or in write_direct
  wdata,         \* the bytes of the write that is under way
  wdone,         \* how many of them write_direct has sent
  zero_writes,   \* writes in a row that took no byte
  wret,          \* how the last call of the writer ended
  accepted,      \* history: the bytes that mailstream_write reported as written
  wire,          \* bytes under way
  closed,        \* the writer closed its stream
  read_buffer,   \* the reader's buffer
  rpc,           \* the reader: idle, or in mailstream_read with a low level
                 \* read to the caller's memory or to the buffer
  rleft,         \* bytes that mailstream_read still has to get
  rcount,        \* bytes it has got
  rret,          \* how the last call of the reader ended
  got            \* history: the bytes the reader was given

writerVars == <<write_buffer, wpc, wdata, wdone, zero_writes, wret, accepted>>
readerVars == <<read_buffer, rpc, rleft, rcount, rret, got>>
streamVars == <<writerVars, wire, closed, readerVars>>

\* The bytes that went into the low level stream.
Sent == got \o read_buffer \o wire

\* mailstream_new, on both sides.
StreamInit ==
  /\ write_buffer = <<>> /\ wpc = "idle" /\ wdata = <<>> /\ wdone = 0
  /\ zero_writes = 0 /\ wret = "none" /\ accepted = <<>>
  /\ wire = <<>> /\ closed = FALSE
  /\ read_buffer = <<>> /\ rpc = "idle" /\ rleft = 0 /\ rcount = 0
  /\ rret = "none" /\ got = <<>>

Prefix(s, n) == SubSeq(s, 1, n)
Rest(s, n) == SubSeq(s, n + 1, Len(s))

-----------------------------------------------------------------------------
\* The writer.

WriteReturns(bytes, result) ==
  /\ wpc' = "idle" /\ wdata' = <<>> /\ wdone' = 0 /\ zero_writes' = 0
  /\ accepted' = accepted \o bytes
  /\ wret' = result

\* mailstream_write: the buffer takes the bytes if they fit, or is flushed.
WriteCall(bytes) ==
  /\ wpc = "idle" /\ ~closed
  /\ IF Len(bytes) + Len(write_buffer) > BufferMax
       THEN /\ wpc' = "write" /\ wdata' = bytes
            /\ UNCHANGED <<write_buffer, wdone, zero_writes, wret, accepted>>
       ELSE /\ write_buffer' = write_buffer \o bytes
            /\ WriteReturns(bytes, "ok")
  /\ UNCHANGED <<wire, closed, readerVars>>

\* mailstream_flush, called by the program.
FlushCall ==
  /\ wpc = "idle" /\ ~closed
  /\ wpc' = "flush"
  /\ UNCHANGED <<write_buffer, wdata, wdone, zero_writes, wret, accepted>>
  /\ UNCHANGED <<wire, closed, readerVars>>

Flushing == wpc \in {"flush", "write"}

\* The low level stream takes n bytes of the buffer.
FlushWrites(n) ==
  /\ Flushing /\ n \in 1..Len(write_buffer)
  /\ wire' = wire \o Prefix(write_buffer, n)
  /\ write_buffer' = Rest(write_buffer, n)
  /\ zero_writes' = 0
  /\ UNCHANGED <<wpc, wdata, wdone, wret, accepted, closed, readerVars>>

\* It takes none, and is asked again unless that happened too often.
ZeroWrite_Uncounted ==
  /\ \/ Flushing /\ write_buffer # <<>>
     \/ wpc = "direct" /\ wdone < Len(wdata)
  /\ zero_writes' = IF zero_writes + 1 < MaxZeroWrites THEN zero_writes + 1 ELSE 0
  /\ UNCHANGED <<write_buffer, wpc, wdata, wdone, wret, accepted>>
  /\ UNCHANGED <<wire, closed, readerVars>>

ZeroWrite ==
  /\ \/ Flushing /\ write_buffer # <<>>
     \/ wpc = "direct" /\ wdone < Len(wdata)
  /\ zero_writes + 1 < MaxZeroWrites
  /\ zero_writes' = zero_writes + 1
  /\ UNCHANGED <<write_buffer, wpc, wdata, wdone, wret, accepted>>
  /\ UNCHANGED <<wire, closed, readerVars>>

\* It fails, or has taken none too often: what was not sent is moved to the
\* start of the buffer, and the caller gets -1.
FlushFails ==
  /\ Flushing /\ write_buffer # <<>>
  /\ WriteReturns(<<>>, "failed")
  /\ UNCHANGED <<write_buffer, wire, closed, readerVars>>

\* The buffer is empty: mailstream_flush returns 0, and mailstream_write goes
\* on with the bytes that did not fit.
FlushEnds ==
  /\ wpc = "flush" /\ write_buffer = <<>>
  /\ WriteReturns(<<>>, "flushed")
  /\ UNCHANGED <<write_buffer, wire, closed, readerVars>>

WriteContinues ==
  /\ wpc = "write" /\ write_buffer = <<>>
  /\ IF Len(wdata) > BufferMax
       THEN /\ wpc' = "direct"
            /\ zero_writes' = 0
            /\ UNCHANGED <<write_buffer, wdata, wdone, wret, accepted>>
       ELSE /\ write_buffer' = wdata
            /\ WriteReturns(wdata, "ok")
  /\ UNCHANGED <<wire, closed, readerVars>>

\* write_direct
DirectWrites(n) ==
  /\ wpc = "direct" /\ n \in 1..(Len(wdata) - wdone)
  /\ wire' = wire \o SubSeq(wdata, wdone + 1, wdone + n)
  /\ wdone' = wdone + n
  /\ zero_writes' = 0
  /\ UNCHANGED <<write_buffer, wpc, wdata, wret, accepted, closed, readerVars>>

DirectEnds ==
  /\ wpc = "direct" /\ wdone = Len(wdata)
  /\ WriteReturns(wdata, "ok")
  /\ UNCHANGED <<write_buffer, wire, closed, readerVars>>

\* An error after some bytes is reported as a short count, not as -1.
DirectFails_All ==
  /\ wpc = "direct" /\ wdone < Len(wdata)
  /\ WriteReturns(wdata, "ok")
  /\ UNCHANGED <<write_buffer, wire, closed, readerVars>>

DirectFails ==
  /\ wpc = "direct" /\ wdone < Len(wdata)
  /\ WriteReturns(Prefix(wdata, wdone), IF wdone = 0 THEN "failed" ELSE "short")
  /\ UNCHANGED <<write_buffer, wire, closed, readerVars>>

\* mailstream_close: what is in the buffer is not sent.
Close ==
  /\ wpc = "idle" /\ ~closed
  /\ closed' = TRUE
  /\ UNCHANGED <<writerVars, wire, readerVars>>

WriterStep ==
  \/ \E n \in 1..Len(write_buffer) : FlushWrites(n)
  \/ ZeroWrite \/ FlushFails \/ FlushEnds \/ WriteContinues
  \/ \E n \in 1..(Len(wdata) - wdone) : DirectWrites(n)
  \/ DirectEnds \/ DirectFails

-----------------------------------------------------------------------------
\* The reader.

\* read_from_internal_buffer, asked for n bytes
Taken(buffer, n) == IF n >= Len(buffer) THEN Len(buffer) ELSE n

ReadReturns(result) ==
  /\ rpc' = "idle" /\ rleft' = 0 /\ rcount' = 0 /\ rret' = result

\* The end of mailstream_read after an error: -1 only if there is nothing.
ReadGivesUp == ReadReturns(IF rcount = 0 THEN "failed" ELSE "ok")

\* mailstream_read: the bytes of the buffer, then at most one low level read,
\* of many bytes to the caller's memory, of few to the buffer.
ReadCall(n) ==
  LET k == Taken(read_buffer, n) IN
  /\ rpc = "idle"
  /\ got' = got \o Prefix(read_buffer, k)
  /\ read_buffer' = Rest(read_buffer, k)
  /\ IF k = n THEN ReadReturns("ok")
              ELSE /\ rpc' = IF n - k > BufferMax THEN "direct" ELSE "fill"
                   /\ rleft' = n - k /\ rcount' = k
                   /\ UNCHANGED rret
  /\ UNCHANGED <<writerVars, wire, closed>>

ReadDirect(n) ==
  /\ rpc = "direct" /\ n \in 1..rleft /\ n <= Len(wire)
  /\ got' = got \o Prefix(wire, n)
  /\ wire' = Rest(wire, n)
  /\ ReadReturns("ok")
  /\ UNCHANGED <<read_buffer, writerVars, closed>>

ReadFill_KeepsAll(n) ==
  LET k == Taken(Prefix(wire, n), rleft) IN
  /\ rpc = "fill" /\ n \in 1..BufferMax /\ n <= Len(wire)
  /\ got' = got \o Prefix(wire, k)
  /\ read_buffer' = Prefix(wire, n)
  /\ wire' = Rest(wire, n)
  /\ ReadReturns("ok")
  /\ UNCHANGED <<writerVars, closed>>

ReadFill(n) ==
  LET k == Taken(Prefix(wire, n), rleft) IN
  /\ rpc = "fill" /\ n \in 1..BufferMax /\ n <= Len(wire)
  /\ got' = got \o Prefix(wire, k)
  /\ read_buffer' = Rest(Prefix(wire, n), k)
  /\ wire' = Rest(wire, n)
  /\ ReadReturns("ok")
  /\ UNCHANGED <<writerVars, closed>>

\* The peer has closed and everything was read: the low level read returns 0,
\* and so does mailstream_read if it has nothing.
ReadAtEnd ==
  /\ rpc # "idle" /\ closed /\ wire = <<>>
  /\ ReadReturns(IF rcount = 0 THEN "eof" ELSE "ok")
  /\ UNCHANGED <<read_buffer, got, writerVars, wire, closed>>

\* Nothing comes in time, the connection fails or the read is cancelled.
ReadFails ==
  /\ rpc # "idle"
  /\ ReadGivesUp
  /\ UNCHANGED <<read_buffer, got, writerVars, wire, closed>>

\* mailstream_feed_read_buffer: one low level read, if the buffer is empty.
Feed(n) ==
  /\ rpc = "idle" /\ read_buffer = <<>>
  /\ n \in 1..BufferMax /\ n <= Len(wire)
  /\ read_buffer' = Prefix(wire, n)
  /\ wire' = Rest(wire, n)
  /\ rret' = "ok"
  /\ UNCHANGED <<rpc, rleft, rcount, got, writerVars, closed>>

FeedAtEnd ==
  /\ rpc = "idle" /\ read_buffer = <<>> /\ closed /\ wire = <<>>
  /\ rret' = "eof"
  /\ UNCHANGED <<read_buffer, rpc, rleft, rcount, got, writerVars, wire, closed>>

FeedFails ==
  /\ rpc = "idle" /\ read_buffer = <<>>
  /\ rret' = "failed"
  /\ UNCHANGED <<read_buffer, rpc, rleft, rcount, got, writerVars, wire, closed>>

ReaderStep ==
  \/ \E n \in 1..Len(wire) : ReadDirect(n) \/ ReadFill(n)
  \/ ReadAtEnd \/ ReadFails

-----------------------------------------------------------------------------
\* Programs that call the operations in any order.
StreamNext ==
  \/ \E bytes \in Seq(Byte) : WriteCall(bytes)
  \/ FlushCall \/ WriterStep \/ Close
  \/ \E n \in Nat : ReadCall(n)
  \/ ReaderStep
  \/ \E n \in 1..Len(wire) : Feed(n)
  \/ FeedAtEnd \/ FeedFails

StreamSpec == StreamInit /\ [][StreamNext]_streamVars

-----------------------------------------------------------------------------
StreamTypeOK ==
  /\ write_buffer \in Seq(Byte) /\ Len(write_buffer) <= BufferMax
  /\ wpc \in {"idle", "flush", "write", "direct"}
  /\ wdata \in Seq(Byte) /\ wdone \in 0..Len(wdata)
  /\ zero_writes \in 0..(MaxZeroWrites - 1)
  /\ wret \in {"none", "ok", "short", "failed", "flushed"}
  /\ accepted \in Seq(Byte)
  /\ wire \in Seq(Byte)
  /\ closed \in BOOLEAN
  /\ read_buffer \in Seq(Byte) /\ Len(read_buffer) <= BufferMax
  /\ rpc \in {"idle", "direct", "fill"}
  /\ rleft \in Nat /\ rcount \in Nat
  /\ rret \in {"none", "ok", "failed", "eof"}
  /\ got \in Seq(Byte)

\* What mailstream_write reported as written is exactly what went out plus
\* what waits in the buffer, in order, whatever was refused, taken in parts or
\* failed, and while write_direct is under way, what it has sent comes on top.
\* After a flush that returned 0 everything has gone out.
AcceptedIsSent ==
  /\ wpc # "direct" => accepted = Sent \o write_buffer
  /\ wpc = "direct" => /\ write_buffer = <<>>
                       /\ Sent = accepted \o Prefix(wdata, wdone)
  /\ wpc = "idle" /\ wret = "flushed" => Sent = accepted

B == INSTANCE ByteStream WITH written <- Sent \o write_buffer

\* The buffers implement a stream of bytes without loss or reordering.
StreamIsFifo == B!Spec
=============================================================================
