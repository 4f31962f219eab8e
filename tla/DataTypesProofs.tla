--------------------------- MODULE DataTypesProofs --------------------------
(***************************************************************************)
(* Four modules of data-types.  The buffers of MailStream lose no byte,    *)
(* repeat none and keep the order, for any size of the buffers and any     *)
(* bytes, whatever the low level streams refuse, take in parts or fail.    *)
(* A text that StreamData sends arrives whole and is read back as it was,  *)
(* for any text and however its bytes are cut into pieces.  MailSem loses  *)
(* no wake-up and implements Semaphore's safety part, for any number of    *)
(* threads.  A stream that MailIdle cancels stays cancelled, for any       *)
(* number of threads that cancel and interrupt it.                         *)
(***************************************************************************)
EXTENDS StreamData, MailSem, MailIdle, WellFoundedInduction, SequenceTheorems,
        FiniteSetTheorems, TLAPS

-----------------------------------------------------------------------------
\* Facts about sequences of bytes.

LEMMA Concat ==
  ASSUME NEW s \in Seq(Byte), NEW t \in Seq(Byte)
  PROVE  s \o t \in Seq(Byte) /\ Len(s \o t) = Len(s) + Len(t)
BY ConcatProperties

LEMMA Assoc ==
  ASSUME NEW s \in Seq(Byte), NEW t \in Seq(Byte), NEW u \in Seq(Byte)
  PROVE  (s \o t) \o u = s \o (t \o u)
BY ConcatAssociative

LEMMA Empty ==
  /\ <<>> \in Seq(Byte) /\ Len(<<>>) = 0
  /\ \A s \in Seq(Byte) : s \o <<>> = s /\ <<>> \o s = s
<1>1. <<>> \in Seq(Byte) /\ Len(<<>>) = 0
  BY EmptySeq
<1>2. \A s \in Seq(Byte) : s \o <<>> = s /\ <<>> \o s = s
  BY ConcatEmptySeq
<1>3. QED
  BY <1>1, <1>2

LEMMA Split ==
  ASSUME NEW s \in Seq(Byte), NEW n \in 0..Len(s)
  PROVE  /\ Prefix(s, n) \in Seq(Byte) /\ Len(Prefix(s, n)) = n
         /\ Rest(s, n) \in Seq(Byte) /\ Len(Rest(s, n)) = Len(s) - n
         /\ Prefix(s, n) \o Rest(s, n) = s
<1>0. Len(s) \in Nat /\ \A i \in 1..Len(s) : s[i] \in Byte
  BY LenProperties, ElementOfSeq
<1>1. SubSeq(s, 1, n) \in Seq(Byte) /\ Len(SubSeq(s, 1, n)) = n
  <2>1. \A i \in 1..n : s[i] \in Byte
    BY <1>0
  <2>2. QED
    BY <1>0, <2>1, SubSeqProperties
<1>2. /\ SubSeq(s, n + 1, Len(s)) \in Seq(Byte)
      /\ Len(SubSeq(s, n + 1, Len(s))) = Len(s) - n
  <2>1. \A i \in (n + 1)..Len(s) : s[i] \in Byte
    BY <1>0
  <2>2. QED
    BY <1>0, <2>1, SubSeqProperties
<1>3. SubSeq(s, 1, n) \o SubSeq(s, n + 1, Len(s)) = SubSeq(s, 1, Len(s))
  <2>1. /\ 1 \in 1..(Len(s) + 1) /\ n \in (1 - 1)..Len(s) /\ Len(s) \in n..Len(s)
    BY <1>0
  <2>2. QED
    BY <2>1, ConcatAdjacentSubSeq
<1>4. QED
  BY <1>1, <1>2, <1>3, SubSeqFull DEF Prefix, Rest

\* The first n bytes and k more are the first n + k bytes.
LEMMA Longer ==
  ASSUME NEW s \in Seq(Byte), NEW n \in Nat, NEW k \in Nat, n + k <= Len(s)
  PROVE  /\ SubSeq(s, n + 1, n + k) \in Seq(Byte)
         /\ Prefix(s, n) \o SubSeq(s, n + 1, n + k) = Prefix(s, n + k)
<1>0. Len(s) \in Nat /\ \A i \in 1..Len(s) : s[i] \in Byte
  BY LenProperties, ElementOfSeq
<1>1. SubSeq(s, n + 1, n + k) \in Seq(Byte)
  <2>1. \A i \in (n + 1)..(n + k) : s[i] \in Byte
    BY <1>0
  <2>2. QED
    BY <1>0, <2>1, SubSeqProperties
<1>2. SubSeq(s, 1, n) \o SubSeq(s, n + 1, n + k) = SubSeq(s, 1, n + k)
  <2>1. /\ 1 \in 1..(Len(s) + 1) /\ n \in (1 - 1)..Len(s)
        /\ n + k \in n..Len(s)
    BY <1>0
  <2>2. QED
    BY <2>1, ConcatAdjacentSubSeq
<1>3. QED
  BY <1>1, <1>2 DEF Prefix

\* A prefix of a concatenation that reaches the end of its first part.
LEMMA PrefixOfConcat ==
  ASSUME NEW s \in Seq(Byte), NEW t \in Seq(Byte)
  PROVE  SubSeq(s \o t, 1, Len(s)) = s
<1>1. CASE s = <<>>
  BY <1>1, SubSeqEmpty, EmptySeq
<1>2. CASE s # <<>>
  <2>1. Len(s) \in Nat \ {0}
    BY <1>2, LenProperties, EmptySeq
  <2>2. 1 \in 1..Len(s) /\ Len(s) \in 1..Len(s)
    BY <2>1
  <2>3. SubSeq(s \o t, 1, Len(s)) = SubSeq(s, 1, Len(s))
    BY <2>2, SubSeqOfConcat1
  <2>4. QED
    BY <2>3, SubSeqFull
<1>3. QED
  BY <1>1, <1>2

-----------------------------------------------------------------------------
\* The inductive invariant: between two calls write_direct has sent nothing,
\* and a read that went to the low level stream has emptied the buffer.
StreamInv ==
  /\ StreamTypeOK
  /\ AcceptedIsSent
  /\ wpc # "direct" => wdone = 0
  /\ rpc # "idle" => read_buffer = <<>>

LEMMA SentType ==
  ASSUME StreamTypeOK
  PROVE  /\ Sent \in Seq(Byte)
         /\ Sent \o write_buffer \in Seq(Byte)
         /\ Sent = got \o (read_buffer \o wire)
<1>1. got \in Seq(Byte) /\ read_buffer \in Seq(Byte) /\ wire \in Seq(Byte)
      /\ write_buffer \in Seq(Byte)
  BY DEF StreamTypeOK
<1>2. Sent \in Seq(Byte)
  BY <1>1, Concat DEF Sent
<1>3. QED
  BY <1>1, <1>2, Concat, Assoc, SMTT(30) DEF Sent

\* What the writer's steps do to the bytes that were sent.
LEMMA Sends ==
  ASSUME StreamTypeOK, NEW bytes \in Seq(Byte), wire' = wire \o bytes,
         UNCHANGED <<got, read_buffer>>
  PROVE  Sent' = Sent \o bytes
<1>1. got \in Seq(Byte) /\ read_buffer \in Seq(Byte) /\ wire \in Seq(Byte)
      /\ got \o read_buffer \in Seq(Byte)
  BY Concat DEF StreamTypeOK
<1>2. (got \o read_buffer) \o (wire \o bytes) = ((got \o read_buffer) \o wire) \o bytes
  BY <1>1, Assoc
<1>3. QED
  BY <1>2 DEF Sent

\* Bytes that go from the buffer or from the connection to the reader.
LEMMA Reads ==
  ASSUME StreamInv,
         \/ \E n \in Nat : ReadCall(n)
         \/ ReaderStep
         \/ \E n \in 1..Len(wire) : Feed(n)
         \/ FeedAtEnd \/ FeedFails
  PROVE  Sent' = Sent
<1>0. /\ got \in Seq(Byte) /\ read_buffer \in Seq(Byte) /\ wire \in Seq(Byte)
      /\ Len(wire) \in Nat /\ Len(read_buffer) \in Nat /\ rleft \in Nat
      /\ rpc # "idle" => read_buffer = <<>>
  BY LenProperties DEF StreamInv, StreamTypeOK
<1>1. ASSUME NEW n \in Nat, ReadCall(n) PROVE Sent' = Sent
  <2> DEFINE k == Taken(read_buffer, n)
  <2>1. k \in 0..Len(read_buffer)
    BY <1>0 DEF Taken
  <2>2. /\ Prefix(read_buffer, k) \in Seq(Byte) /\ Rest(read_buffer, k) \in Seq(Byte)
        /\ Prefix(read_buffer, k) \o Rest(read_buffer, k) = read_buffer
    BY <1>0, <2>1, Split
  <2>3. got' = got \o Prefix(read_buffer, k) /\ read_buffer' = Rest(read_buffer, k)
        /\ wire' = wire
    BY <1>1 DEF ReadCall
  <2> HIDE DEF k
  <2>4. (got \o Prefix(read_buffer, k)) \o Rest(read_buffer, k) = got \o read_buffer
    <3>1. (got \o Prefix(read_buffer, k)) \o Rest(read_buffer, k)
            = got \o (Prefix(read_buffer, k) \o Rest(read_buffer, k))
      BY <1>0, <2>2, Assoc
    <3>2. QED
      BY <3>1, <2>2
  <2>5. QED
    BY <2>3, <2>4 DEF Sent
<1>2. ASSUME NEW n \in 1..Len(wire), ReadDirect(n) PROVE Sent' = Sent
  <2>1. /\ Prefix(wire, n) \in Seq(Byte) /\ Rest(wire, n) \in Seq(Byte)
        /\ Prefix(wire, n) \o Rest(wire, n) = wire
    <3>1. n \in 0..Len(wire)
      BY <1>0
    <3>2. QED
      BY <1>0, <3>1, Split
  <2>2. /\ got' = got \o Prefix(wire, n) /\ wire' = Rest(wire, n)
        /\ read_buffer = <<>> /\ read_buffer' = <<>>
    BY <1>0, <1>2 DEF ReadDirect
  <2>3. Sent' = (got \o Prefix(wire, n)) \o Rest(wire, n)
    <3>1. got \o Prefix(wire, n) \in Seq(Byte)
      BY <1>0, <2>1, Concat
    <3>2. QED
      BY <2>2, <3>1, Empty DEF Sent
  <2>4. Sent = got \o wire
    BY <1>0, <2>2, Empty DEF Sent
  <2>5. QED
    <3>1. (got \o Prefix(wire, n)) \o Rest(wire, n) = got \o (Prefix(wire, n) \o Rest(wire, n))
      BY <1>0, <2>1, Assoc
    <3>2. QED
      BY <3>1, <2>1, <2>3, <2>4
<1>3. ASSUME NEW n \in 1..Len(wire), ReadFill(n) PROVE Sent' = Sent
  <2> DEFINE p == Prefix(wire, n)
             r == Rest(wire, n)
             k == Taken(p, rleft)
  <2>1. p \in Seq(Byte) /\ Len(p) = n /\ r \in Seq(Byte) /\ p \o r = wire
    <3>1. n \in 0..Len(wire)
      BY <1>0
    <3>2. QED
      BY <1>0, <3>1, Split
  <2>2. k \in 0..Len(p)
    BY <2>1, <1>0 DEF Taken
  <2>3. /\ got' = got \o Prefix(wire, k) /\ wire' = r /\ read_buffer' = Rest(p, k)
        /\ read_buffer = <<>>
    BY <1>0, <1>3 DEF ReadFill
  <2>4. Prefix(wire, k) = Prefix(p, k)
    <3>1. CASE k = 0
      <4>1. Prefix(wire, k) = <<>> /\ Prefix(p, k) = <<>>
        BY <3>1, SubSeqEmpty DEF Prefix
      <4>2. QED
        BY <4>1
    <3>2. CASE k # 0
      <4>1. 1 \in 1..Len(p) /\ k \in 1..Len(p)
        BY <2>1, <2>2, <3>2
      <4>2. SubSeq(p \o r, 1, k) = SubSeq(p, 1, k)
        BY <2>1, <4>1, SubSeqOfConcat1
      <4>3. QED
        BY <2>1, <4>2 DEF Prefix
    <3>3. QED
      BY <3>1, <3>2
  <2> HIDE DEF p, r, k
  <2>5. /\ Prefix(p, k) \in Seq(Byte) /\ Rest(p, k) \in Seq(Byte)
        /\ Prefix(p, k) \o Rest(p, k) = p
    BY <2>1, <2>2, Split
  <2>6. Sent' = ((got \o Prefix(p, k)) \o Rest(p, k)) \o r
    BY <2>3, <2>4 DEF Sent
  <2>7. (got \o Prefix(p, k)) \o Rest(p, k) = got \o p
    <3>1. (got \o Prefix(p, k)) \o Rest(p, k) = got \o (Prefix(p, k) \o Rest(p, k))
      BY <1>0, <2>5, Assoc
    <3>2. QED
      BY <3>1, <2>5
  <2>8. (got \o p) \o r = got \o wire
    <3>1. (got \o p) \o r = got \o (p \o r)
      BY <1>0, <2>1, Assoc, ZenonT(60)
    <3>2. QED
      BY <3>1, <2>1
  <2>9. Sent = got \o wire
    BY <1>0, <2>3, Empty DEF Sent
  <2>10. QED
    BY <2>6, <2>7, <2>8, <2>9
<1>4. CASE ReadAtEnd \/ ReadFails \/ FeedAtEnd \/ FeedFails
  BY <1>4 DEF ReadAtEnd, ReadFails, FeedAtEnd, FeedFails, Sent
<1>5. ASSUME NEW n \in 1..Len(wire), Feed(n) PROVE Sent' = Sent
  <2>1. /\ Prefix(wire, n) \in Seq(Byte) /\ Rest(wire, n) \in Seq(Byte)
        /\ Prefix(wire, n) \o Rest(wire, n) = wire
    <3>1. n \in 0..Len(wire)
      BY <1>0
    <3>2. QED
      BY <1>0, <3>1, Split
  <2>2. /\ got' = got /\ wire' = Rest(wire, n) /\ read_buffer' = Prefix(wire, n)
        /\ read_buffer = <<>>
    BY <1>5 DEF Feed
  <2>3. Sent = got \o wire
    BY <1>0, <2>2, Empty DEF Sent
  <2>4. QED
    <3>1. (got \o Prefix(wire, n)) \o Rest(wire, n) = got \o (Prefix(wire, n) \o Rest(wire, n))
      BY <1>0, <2>1, Assoc
    <3>2. QED
      BY <3>1, <2>1, <2>2, <2>3 DEF Sent
<1>6. QED
  BY <1>1, <1>2, <1>3, <1>4, <1>5 DEF ReaderStep

\* A step of the reader, or of nobody, leaves the writer's part of the
\* invariant as it is.
LEMMA ReaderKeeps ==
  ASSUME StreamInv, UNCHANGED writerVars, Sent' = Sent
  PROVE  AcceptedIsSent' /\ (wpc # "direct" => wdone = 0)'
BY DEF StreamInv, AcceptedIsSent, writerVars, Prefix

LEMMA StreamStep ==
  ASSUME StreamInv, [StreamNext]_streamVars
  PROVE  StreamInv'
<1> USE StreamAssumption DEF StreamAssumption
<1>0. /\ StreamTypeOK
      /\ write_buffer \in Seq(Byte) /\ wdata \in Seq(Byte) /\ wire \in Seq(Byte)
      /\ read_buffer \in Seq(Byte) /\ got \in Seq(Byte) /\ accepted \in Seq(Byte)
      /\ Len(write_buffer) \in Nat /\ Len(wdata) \in Nat /\ Len(wire) \in Nat
      /\ Len(read_buffer) \in Nat /\ wdone \in 0..Len(wdata) /\ wdone \in Nat
      /\ Sent \in Seq(Byte)
  BY SentType, LenProperties DEF StreamInv, StreamTypeOK
<1>1. ASSUME NEW bytes \in Seq(Byte), WriteCall(bytes) PROVE StreamInv'
  <2>1. Sent' = Sent
    BY <1>1 DEF WriteCall, readerVars, Sent
  <2>2. CASE Len(bytes) + Len(write_buffer) > BufferMax
    BY <1>0, <1>1, <2>1, <2>2
       DEF WriteCall, StreamInv, StreamTypeOK, AcceptedIsSent, readerVars
  <2>3. CASE ~(Len(bytes) + Len(write_buffer) > BufferMax)
    <3>1. /\ write_buffer' = write_buffer \o bytes /\ accepted' = accepted \o bytes
          /\ wpc = "idle" /\ wpc' = "idle" /\ wret' = "ok"
          /\ wdata' = <<>> /\ wdone' = 0 /\ zero_writes' = 0
          /\ UNCHANGED <<wire, closed, readerVars>>
      BY <1>1, <2>3 DEF WriteCall, WriteReturns
    <3>2. accepted = Sent \o write_buffer
      BY <3>1 DEF StreamInv, AcceptedIsSent
    <3>3. /\ write_buffer \o bytes \in Seq(Byte) /\ accepted \o bytes \in Seq(Byte)
          /\ Len(write_buffer \o bytes) = Len(write_buffer) + Len(bytes)
          /\ Len(bytes) \in Nat
      BY <1>0, Concat, LenProperties
    <3>4. accepted \o bytes = Sent \o (write_buffer \o bytes)
      <4>1. (Sent \o write_buffer) \o bytes = Sent \o (write_buffer \o bytes)
        BY <1>0, Assoc, ZenonT(60)
      <4>2. QED
        BY <3>2, <4>1
    <3>5. AcceptedIsSent'
      BY <2>1, <3>1, <3>4 DEF AcceptedIsSent
    <3>6. StreamTypeOK'
      BY <1>0, <2>3, <3>1, <3>3, Empty DEF StreamTypeOK, readerVars
    <3>7. QED
      BY <3>1, <3>5, <3>6 DEF StreamInv, readerVars
  <2>4. QED
    BY <2>2, <2>3
<1>2. CASE FlushCall
  <2>1. Sent' = Sent
    BY <1>2 DEF FlushCall, readerVars, Sent
  <2>2. QED
    BY <1>0, <1>2, <2>1
       DEF FlushCall, StreamInv, StreamTypeOK, AcceptedIsSent, readerVars
<1>3. ASSUME NEW n \in 1..Len(write_buffer), FlushWrites(n) PROVE StreamInv'
  <2>1. n \in 0..Len(write_buffer)
    BY <1>0
  <2> DEFINE p == Prefix(write_buffer, n)
             r == Rest(write_buffer, n)
  <2>2. p \in Seq(Byte) /\ r \in Seq(Byte) /\ Len(r) = Len(write_buffer) - n
        /\ p \o r = write_buffer
    BY <1>0, <2>1, Split
  <2>3. /\ wpc \in {"flush", "write"} /\ wire' = wire \o p /\ write_buffer' = r
        /\ zero_writes' = 0
        /\ UNCHANGED <<wpc, wdata, wdone, wret, accepted, closed, readerVars>>
    BY <1>3 DEF FlushWrites, Flushing
  <2> HIDE DEF p, r
  <2>4. Sent' = Sent \o p
    BY <1>0, <2>2, <2>3, Sends DEF readerVars
  <2>5. (Sent \o p) \o r = Sent \o write_buffer
    <3>1. (Sent \o p) \o r = Sent \o (p \o r)
      BY <1>0, <2>2, Assoc, ZenonT(60)
    <3>2. QED
      BY <2>2, <3>1
  <2>6. AcceptedIsSent'
    BY <2>3, <2>4, <2>5 DEF StreamInv, AcceptedIsSent
  <2>7. wire \o p \in Seq(Byte)
    BY <1>0, <2>2, Concat
  <2>8. StreamTypeOK'
    BY <1>0, <2>2, <2>3, <2>7 DEF StreamTypeOK, readerVars
  <2>9. QED
    BY <2>3, <2>6, <2>8 DEF StreamInv, readerVars
<1>4. CASE ZeroWrite
  <2>1. Sent' = Sent
    BY <1>4 DEF ZeroWrite, readerVars, Sent
  <2>2. AcceptedIsSent'
    BY <1>4, <2>1 DEF ZeroWrite, StreamInv, AcceptedIsSent, Prefix
  <2>3. QED
    BY <1>0, <1>4, <2>2 DEF ZeroWrite, StreamInv, StreamTypeOK, readerVars
<1>5. CASE FlushFails \/ FlushEnds
  <2>1. Sent' = Sent
    BY <1>5 DEF FlushFails, FlushEnds, readerVars, Sent
  <2>2. /\ wpc \in {"flush", "write"} /\ wpc' = "idle" /\ write_buffer' = write_buffer
        /\ wdata' = <<>> /\ wdone' = 0 /\ zero_writes' = 0
        /\ accepted' = accepted \o <<>> /\ wret' \in {"failed", "flushed"}
        /\ wret' = "flushed" => write_buffer = <<>>
        /\ UNCHANGED <<wire, closed, readerVars>>
    BY <1>5 DEF FlushFails, FlushEnds, Flushing, WriteReturns
  <2>3. accepted' = accepted
    BY <1>0, <2>2, Empty
  <2>4. Sent \o <<>> = Sent
    BY <1>0, Empty
  <2>5. AcceptedIsSent'
    BY <2>1, <2>2, <2>3, <2>4 DEF StreamInv, AcceptedIsSent
  <2>6. StreamTypeOK'
    BY <1>0, <2>2, <2>3, Empty DEF StreamTypeOK, readerVars
  <2>7. QED
    BY <2>2, <2>5, <2>6 DEF StreamInv, readerVars
<1>6. CASE WriteContinues
  <2>1. Sent' = Sent /\ Sent \o <<>> = Sent
    BY <1>0, <1>6, Empty DEF WriteContinues, readerVars, Sent
  <2>2. accepted = Sent /\ wdone = 0 /\ write_buffer = <<>>
    BY <1>6, <2>1 DEF WriteContinues, StreamInv, AcceptedIsSent
  <2>3. CASE Len(wdata) > BufferMax
    <3>1. Prefix(wdata, 0) = <<>>
      BY SubSeqEmpty DEF Prefix
    <3>2. AcceptedIsSent'
      BY <1>6, <2>1, <2>2, <2>3, <3>1 DEF WriteContinues, AcceptedIsSent
    <3>3. QED
      BY <1>0, <1>6, <2>3, <3>2 DEF WriteContinues, StreamInv, StreamTypeOK, readerVars
  <2>4. CASE ~(Len(wdata) > BufferMax)
    <3>1. /\ wpc' = "idle" /\ write_buffer' = wdata /\ accepted' = accepted \o wdata
          /\ wret' = "ok" /\ wdata' = <<>> /\ wdone' = 0 /\ zero_writes' = 0
          /\ UNCHANGED <<wire, closed, readerVars>>
      BY <1>6, <2>4 DEF WriteContinues, WriteReturns
    <3>2. accepted \o wdata \in Seq(Byte)
      BY <1>0, Concat
    <3>3. AcceptedIsSent'
      BY <2>1, <2>2, <3>1 DEF AcceptedIsSent
    <3>4. StreamTypeOK'
      BY <1>0, <2>4, <3>1, <3>2, Empty DEF StreamTypeOK, readerVars
    <3>5. QED
      BY <3>1, <3>3, <3>4 DEF StreamInv, readerVars
  <2>5. QED
    BY <2>3, <2>4
<1>7. ASSUME NEW n \in 1..(Len(wdata) - wdone), DirectWrites(n) PROVE StreamInv'
  <2> DEFINE p == SubSeq(wdata, wdone + 1, wdone + n)
  <2>1. n \in Nat /\ wdone + n <= Len(wdata) /\ wdone + n \in 0..Len(wdata)
    BY <1>0
  <2>2. p \in Seq(Byte) /\ Prefix(wdata, wdone) \o p = Prefix(wdata, wdone + n)
    BY <1>0, <2>1, Longer
  <2>3. /\ wpc = "direct" /\ wire' = wire \o p /\ wdone' = wdone + n /\ zero_writes' = 0
        /\ UNCHANGED <<write_buffer, wpc, wdata, wret, accepted, closed, readerVars>>
    BY <1>7 DEF DirectWrites
  <2> HIDE DEF p
  <2>4. Sent' = Sent \o p
    BY <1>0, <2>2, <2>3, Sends DEF readerVars
  <2>5. Sent = accepted \o Prefix(wdata, wdone) /\ write_buffer = <<>>
    BY <2>3 DEF StreamInv, AcceptedIsSent
  <2>6. Prefix(wdata, wdone) \in Seq(Byte)
    BY <1>0, Split
  <2>7. (accepted \o Prefix(wdata, wdone)) \o p = accepted \o (Prefix(wdata, wdone) \o p)
    <3>1. p \in Seq(Byte) /\ accepted \in Seq(Byte)
      BY <1>0, <2>2
    <3>2. QED
      BY <2>6, <3>1, Assoc
  <2>8. Sent' = accepted \o Prefix(wdata, wdone + n)
    BY <2>2, <2>4, <2>5, <2>7
  <2>9. AcceptedIsSent'
    BY <2>3, <2>5, <2>8 DEF AcceptedIsSent, Prefix
  <2>10. wire \o p \in Seq(Byte)
    BY <1>0, <2>2, Concat
  <2>11. StreamTypeOK'
    BY <1>0, <2>1, <2>3, <2>10 DEF StreamTypeOK, readerVars
  <2>12. QED
    BY <2>3, <2>9, <2>11 DEF StreamInv, readerVars
<1>8. CASE DirectEnds \/ DirectFails
  <2>1. Sent' = Sent
    BY <1>8 DEF DirectEnds, DirectFails, readerVars, Sent
  <2>2. Prefix(wdata, Len(wdata)) = wdata
    BY <1>0, SubSeqFull DEF Prefix
  <2>3. /\ wpc = "direct" /\ wpc' = "idle" /\ write_buffer' = write_buffer
        /\ wdata' = <<>> /\ wdone' = 0 /\ zero_writes' = 0
        /\ accepted' = accepted \o Prefix(wdata, wdone)
        /\ wret' \in {"ok", "short", "failed"}
        /\ UNCHANGED <<wire, closed, readerVars>>
    BY <1>8, <2>2 DEF DirectEnds, DirectFails, WriteReturns
  <2>4. Sent = accepted \o Prefix(wdata, wdone) /\ write_buffer = <<>>
    BY <2>3 DEF StreamInv, AcceptedIsSent
  <2>5. Sent \o <<>> = Sent
    BY <1>0, Empty
  <2>6. AcceptedIsSent'
    BY <2>1, <2>3, <2>4, <2>5 DEF AcceptedIsSent
  <2>7. accepted' \in Seq(Byte)
    BY <1>0, <2>3, <2>4
  <2>8. StreamTypeOK'
    BY <1>0, <2>3, <2>7, Empty DEF StreamTypeOK, readerVars
  <2>9. QED
    BY <2>3, <2>6, <2>8 DEF StreamInv, readerVars
<1>9. CASE Close
  <2>1. Sent' = Sent
    BY <1>9 DEF Close, readerVars, Sent
  <2>2. QED
    BY <1>0, <1>9, <2>1, ReaderKeeps
       DEF Close, StreamInv, StreamTypeOK, readerVars, writerVars
<1>10. ASSUME NEW n \in Nat, ReadCall(n) PROVE StreamInv'
  <2> DEFINE k == Taken(read_buffer, n)
  <2>1. k \in 0..Len(read_buffer) /\ k <= n /\ k \in Nat
        /\ (k # n => k = Len(read_buffer))
    BY <1>0 DEF Taken
  <2>2. /\ Prefix(read_buffer, k) \in Seq(Byte) /\ Rest(read_buffer, k) \in Seq(Byte)
        /\ Len(Rest(read_buffer, k)) = Len(read_buffer) - k
    BY <1>0, <2>1, Split
  <2>3. /\ got' = got \o Prefix(read_buffer, k) /\ read_buffer' = Rest(read_buffer, k)
        /\ rpc' \in {"idle", "direct", "fill"}
        /\ rpc' # "idle" => k # n
        /\ rleft' \in Nat /\ rcount' \in Nat /\ rret' \in {rret, "ok"}
        /\ UNCHANGED <<writerVars, wire, closed>>
    BY <1>10, <2>1 DEF ReadCall, ReadReturns
  <2> HIDE DEF k
  <2>4. rpc' # "idle" => read_buffer' = <<>>
    <3>1. k # n => Len(read_buffer') = 0
      BY <2>1, <2>2, <2>3, <1>0
    <3>2. Len(read_buffer') = 0 => read_buffer' = <<>>
      BY <2>2, <2>3, EmptySeq
    <3>3. QED
      BY <2>3, <3>1, <3>2
  <2>5. Sent' = Sent
    BY <1>10, Reads
  <2>6. got' \in Seq(Byte)
    BY <1>0, <2>2, <2>3, Concat
  <2>7. Len(Rest(read_buffer, k)) <= BufferMax
    BY <1>0, <2>1, <2>2 DEF StreamTypeOK
  <2>8. StreamTypeOK'
    BY <1>0, <2>2, <2>3, <2>6, <2>7 DEF StreamTypeOK, writerVars
  <2>9. QED
    BY <2>3, <2>4, <2>5, <2>8, ReaderKeeps DEF StreamInv
<1>11. ASSUME NEW n \in 1..Len(wire), ReadDirect(n) \/ ReadFill(n) \/ Feed(n)
       PROVE  StreamInv'
  <2>1. n \in 0..Len(wire) /\ n \in Nat
    BY <1>0
  <2>2. /\ Prefix(wire, n) \in Seq(Byte) /\ Len(Prefix(wire, n)) = n
        /\ Rest(wire, n) \in Seq(Byte)
    BY <1>0, <2>1, Split
  <2>3. Sent' = Sent
    BY <1>11, Reads DEF ReaderStep
  <2>4. CASE ReadDirect(n)
    <3>1. got \o Prefix(wire, n) \in Seq(Byte)
      BY <1>0, <2>2, Concat
    <3>2. StreamTypeOK'
      BY <1>0, <2>2, <2>4, <3>1 DEF ReadDirect, ReadReturns, StreamTypeOK, writerVars
    <3>3. QED
      BY <2>3, <2>4, <3>2, ReaderKeeps DEF ReadDirect, ReadReturns, StreamInv
  <2>5. CASE ReadFill(n)
    <3> DEFINE p == Prefix(wire, n)
               k == Taken(p, rleft)
    <3>1. k \in 0..Len(p) /\ k \in 0..Len(wire)
      BY <1>0, <2>1, <2>2 DEF Taken, StreamTypeOK
    <3>2. /\ Rest(p, k) \in Seq(Byte) /\ Len(Rest(p, k)) = n - k
      BY <2>2, <3>1, Split, ZenonT(30)
    <3>3. Prefix(wire, k) \in Seq(Byte)
      BY <1>0, <3>1, Split
    <3>4. got \o Prefix(wire, k) \in Seq(Byte)
      BY <1>0, <3>3, Concat
    <3>5. /\ got' = got \o Prefix(wire, k) /\ read_buffer' = Rest(p, k)
          /\ wire' = Rest(wire, n) /\ n \in 1..BufferMax
          /\ rpc' = "idle" /\ rleft' = 0 /\ rcount' = 0 /\ rret' = "ok"
          /\ UNCHANGED <<writerVars, closed>>
      BY <2>5 DEF ReadFill, ReadReturns
    <3> HIDE DEF p, k
    <3>6. Len(Rest(p, k)) <= BufferMax
      BY <2>1, <2>2, <3>1, <3>2, <3>5
    <3>7. StreamTypeOK'
      BY <1>0, <2>2, <3>2, <3>4, <3>5, <3>6 DEF StreamTypeOK, writerVars
    <3>8. QED
      BY <2>3, <3>5, <3>7, ReaderKeeps DEF StreamInv
  <2>6. CASE Feed(n)
    <3>1. StreamTypeOK'
      BY <1>0, <2>1, <2>2, <2>6 DEF Feed, StreamTypeOK, writerVars
    <3>2. QED
      BY <2>3, <2>6, <3>1, ReaderKeeps DEF Feed, StreamInv
  <2>7. QED
    BY <1>11, <2>4, <2>5, <2>6
<1>12. CASE ReadAtEnd \/ ReadFails \/ FeedAtEnd \/ FeedFails
  <2>1. Sent' = Sent
    BY <1>12, Reads DEF ReaderStep
  <2>2. StreamTypeOK'
    BY <1>0, <1>12, SMTT(30) DEF ReadAtEnd, ReadFails, FeedAtEnd, FeedFails, ReadGivesUp,
         ReadReturns, StreamTypeOK, writerVars
  <2>3. UNCHANGED writerVars /\ (rpc # "idle" => read_buffer = <<>>)'
    BY <1>12 DEF ReadAtEnd, ReadFails, FeedAtEnd, FeedFails, ReadGivesUp,
         ReadReturns, StreamInv
  <2>4. QED
    BY <2>1, <2>2, <2>3, ReaderKeeps DEF StreamInv
<1>13. CASE UNCHANGED streamVars
  <2>1. Sent' = Sent
    BY <1>13 DEF streamVars, readerVars, Sent
  <2>2. QED
    BY <1>0, <1>13, <2>1, ReaderKeeps
       DEF StreamInv, StreamTypeOK, streamVars, readerVars, writerVars
<1>14. QED
  BY <1>1, <1>2, <1>3, <1>4, <1>5, <1>6, <1>7, <1>8, <1>9, <1>10, <1>11, <1>12, <1>13
     DEF StreamNext, WriterStep, ReaderStep

LEMMA StreamStart == StreamInit => StreamInv
<1> SUFFICES ASSUME StreamInit PROVE StreamInv
  OBVIOUS
<1>1. <<>> \in Seq(Byte) /\ Len(<<>>) = 0 /\ <<>> \o <<>> = <<>>
  BY Empty
<1>2. Sent = <<>>
  BY <1>1 DEF StreamInit, Sent
<1>3. /\ 0 \in 0..(MaxZeroWrites - 1) /\ 0 \in 0..Len(<<>>)
      /\ Len(<<>>) <= BufferMax
  BY <1>1, StreamAssumption DEF StreamAssumption
<1>4. StreamTypeOK
  BY <1>1, <1>3 DEF StreamInit, StreamTypeOK
<1>5. QED
  BY <1>1, <1>2, <1>4 DEF StreamInit, StreamInv, AcceptedIsSent

LEMMA StreamInvariant == StreamSpec => []StreamInv
<1>1. StreamInv /\ [StreamNext]_streamVars => StreamInv'
  BY StreamStep
<1>2. QED
  BY StreamStart, <1>1, PTL DEF StreamSpec

\* The buffers hold bytes and never more than buffer_max_size of them, and the
\* count of writes without effect stays below its limit.
THEOREM StreamTyped == StreamSpec => []StreamTypeOK
<1>1. StreamInv => StreamTypeOK
  BY DEF StreamInv
<1>2. QED
  BY StreamInvariant, <1>1, PTL

\* What mailstream_write reports as written is what was sent and what waits in
\* the buffer, in order; after a successful mailstream_flush all was sent.
THEOREM NothingDropped == StreamSpec => []AcceptedIsSent
<1>1. StreamInv => AcceptedIsSent
  BY DEF StreamInv
<1>2. QED
  BY StreamInvariant, <1>1, PTL

-----------------------------------------------------------------------------
\* Refinement: the writer's steps put bytes in or do nothing ...
LEMMA PutStep ==
  ASSUME StreamTypeOK, NEW bytes \in Seq(Byte), UNCHANGED got,
         (Sent \o write_buffer)' = (Sent \o write_buffer) \o bytes
  PROVE  B!Put
<1>1. Sent \o write_buffer \in Seq(Byte)
  BY SentType
<1>2. /\ (Sent \o write_buffer) \o bytes \in Seq(Byte)
      /\ Len((Sent \o write_buffer) \o bytes) = Len(Sent \o write_buffer) + Len(bytes)
  BY <1>1, Concat
<1>3. Len(Sent \o write_buffer) \in Nat /\ Len(bytes) \in Nat
  BY <1>1, LenProperties
<1>4. SubSeq((Sent \o write_buffer) \o bytes, 1, Len(Sent \o write_buffer))
        = Sent \o write_buffer
  BY <1>1, PrefixOfConcat
<1>5. QED
  BY <1>2, <1>3, <1>4 DEF B!Put

\* ... and the reader's steps take out the next ones.
LEMMA GetStep ==
  ASSUME StreamTypeOK, StreamTypeOK', Sent' = Sent, UNCHANGED write_buffer,
         NEW bytes \in Seq(Byte), got' = got \o bytes
  PROVE  \E n \in 0..Len(Sent \o write_buffer) : B!Get(n)
<1> DEFINE tail == (read_buffer \o wire)' \o write_buffer
<1>1. /\ got \in Seq(Byte) /\ got' \in Seq(Byte) /\ write_buffer \in Seq(Byte)
      /\ (read_buffer \o wire)' \in Seq(Byte)
  BY Concat DEF StreamTypeOK
<1>2. tail \in Seq(Byte)
  BY <1>1, Concat
<1>3. Sent' = got' \o (read_buffer \o wire)'
  <2>1. read_buffer' \in Seq(Byte) /\ wire' \in Seq(Byte)
    BY DEF StreamTypeOK
  <2>2. (got' \o read_buffer') \o wire' = got' \o (read_buffer' \o wire')
    BY <1>1, <2>1, Assoc, ZenonT(60)
  <2>3. QED
    BY <2>2 DEF Sent
<1>4. Sent \o write_buffer = got' \o tail
  <2>1. (got' \o (read_buffer \o wire)') \o write_buffer
          = got' \o ((read_buffer \o wire)' \o write_buffer)
    BY <1>1, Assoc, ZenonT(60)
  <2>2. QED
    BY <1>3, <2>1
<1> HIDE DEF tail
<1>5. SubSeq(Sent \o write_buffer, 1, Len(got')) = got'
  BY <1>1, <1>2, <1>4, PrefixOfConcat
<1>6. /\ Len(got') \in Nat /\ Len(tail) \in Nat /\ Len(got) \in Nat
      /\ Len(bytes) \in Nat /\ Len(got') = Len(got) + Len(bytes)
      /\ Len(Sent \o write_buffer) = Len(got') + Len(tail)
  BY <1>1, <1>2, <1>4, Concat, LenProperties
<1>7. Len(got') \in 0..Len(Sent \o write_buffer)
  BY <1>6
<1>8. B!Get(Len(got'))
  BY <1>5, <1>6 DEF B!Get
<1>9. QED
  BY <1>7, <1>8

LEMMA FifoStep ==
  ASSUME StreamInv, StreamInv', [StreamNext]_streamVars
  PROVE  [B!Next]_(B!vars)
<1>0. /\ StreamTypeOK /\ StreamTypeOK'
      /\ write_buffer \in Seq(Byte) /\ wdata \in Seq(Byte) /\ wire \in Seq(Byte)
      /\ read_buffer \in Seq(Byte) /\ got \in Seq(Byte)
      /\ Len(write_buffer) \in Nat /\ Len(wdata) \in Nat /\ Len(wire) \in Nat
      /\ Len(read_buffer) \in Nat /\ wdone \in 0..Len(wdata) /\ wdone \in Nat
      /\ rleft \in Nat
      /\ Sent \in Seq(Byte)
  BY SentType, LenProperties DEF StreamInv, StreamTypeOK
<1>1. CASE UNCHANGED <<Sent, write_buffer, got>>
  BY <1>1 DEF B!vars
<1>2. ASSUME NEW bytes \in Seq(Byte), WriteCall(bytes) PROVE [B!Next]_(B!vars)
  <2>1. CASE Len(bytes) + Len(write_buffer) > BufferMax
    BY <1>1, <1>2, <2>1 DEF WriteCall, readerVars, Sent
  <2>2. CASE ~(Len(bytes) + Len(write_buffer) > BufferMax)
    <3>1. write_buffer' = write_buffer \o bytes /\ got' = got /\ Sent' = Sent
      BY <1>2, <2>2 DEF WriteCall, readerVars, Sent
    <3>2. (Sent \o write_buffer) \o bytes = Sent \o (write_buffer \o bytes)
      BY <1>0, Assoc, ZenonT(60)
    <3>3. B!Put
      BY <1>0, <3>1, <3>2, PutStep
    <3>4. QED
      BY <3>3 DEF B!Next
  <2>3. QED
    BY <2>1, <2>2
<1>3. ASSUME NEW n \in 1..Len(write_buffer), FlushWrites(n) PROVE [B!Next]_(B!vars)
  <2> DEFINE p == Prefix(write_buffer, n)
             r == Rest(write_buffer, n)
  <2>1. n \in 0..Len(write_buffer)
    BY <1>0
  <2>2. p \in Seq(Byte) /\ r \in Seq(Byte) /\ p \o r = write_buffer
    BY <1>0, <2>1, Split
  <2>3. /\ wire' = wire \o p /\ write_buffer' = r
        /\ UNCHANGED <<got, read_buffer>>
    BY <1>3 DEF FlushWrites, readerVars
  <2> HIDE DEF p, r
  <2>4. Sent' = Sent \o p
    BY <1>0, <2>2, <2>3, Sends
  <2>5. (Sent \o p) \o r = Sent \o (p \o r)
    BY <1>0, <2>2, Assoc, ZenonT(60)
  <2>6. Sent' \o write_buffer' = Sent \o write_buffer
    BY <2>2, <2>3, <2>4, <2>5
  <2>7. QED
    BY <2>3, <2>6 DEF B!vars
<1>4. CASE FlushCall \/ ZeroWrite \/ FlushFails \/ FlushEnds \/ DirectEnds
           \/ DirectFails \/ Close \/ ReadAtEnd \/ ReadFails \/ FeedAtEnd
           \/ FeedFails \/ UNCHANGED streamVars
  BY <1>1, <1>4 DEF FlushCall, ZeroWrite, FlushFails, FlushEnds, DirectEnds,
       DirectFails, Close, ReadAtEnd, ReadFails, FeedAtEnd, FeedFails, streamVars,
       readerVars, writerVars, Sent
<1>5. CASE WriteContinues
  <2>1. CASE Len(wdata) > BufferMax
    BY <1>1, <1>5, <2>1 DEF WriteContinues, readerVars, Sent
  <2>2. CASE ~(Len(wdata) > BufferMax)
    <3>1. write_buffer = <<>> /\ write_buffer' = wdata /\ got' = got /\ Sent' = Sent
      BY <1>5, <2>2 DEF WriteContinues, readerVars, Sent
    <3>2. Sent \o <<>> = Sent
      BY <1>0, Empty
    <3>3. (Sent \o write_buffer)' = (Sent \o write_buffer) \o wdata
      BY <3>1, <3>2
    <3>4. B!Put
      BY <1>0, <3>1, <3>3, PutStep
    <3>5. QED
      BY <3>4 DEF B!Next
  <2>3. QED
    BY <2>1, <2>2
<1>6. ASSUME NEW n \in 1..(Len(wdata) - wdone), DirectWrites(n) PROVE [B!Next]_(B!vars)
  <2> DEFINE p == SubSeq(wdata, wdone + 1, wdone + n)
  <2>1. n \in Nat /\ wdone + n <= Len(wdata)
    BY <1>0
  <2>2. p \in Seq(Byte)
    BY <1>0, <2>1, Longer
  <2>3. /\ wpc = "direct" /\ wire' = wire \o p /\ write_buffer' = write_buffer
        /\ UNCHANGED <<got, read_buffer>>
    BY <1>6 DEF DirectWrites, readerVars
  <2> HIDE DEF p
  <2>4. Sent' = Sent \o p /\ write_buffer = <<>>
    BY <1>0, <2>2, <2>3, Sends DEF StreamInv, AcceptedIsSent
  <2>5. Sent \o p \in Seq(Byte)
    BY <1>0, <2>2, Concat
  <2>6. Sent \o <<>> = Sent /\ (Sent \o p) \o <<>> = Sent \o p
    BY <1>0, <2>5, Empty
  <2>7. (Sent \o write_buffer)' = (Sent \o write_buffer) \o p
    BY <2>3, <2>4, <2>6
  <2>8. B!Put
    BY <1>0, <2>2, <2>3, <2>7, PutStep
  <2>9. QED
    BY <2>8 DEF B!Next
<1>7. ASSUME NEW n \in Nat, ReadCall(n) PROVE [B!Next]_(B!vars)
  <2> DEFINE k == Taken(read_buffer, n)
  <2>1. k \in 0..Len(read_buffer)
    BY <1>0 DEF Taken
  <2>2. Prefix(read_buffer, k) \in Seq(Byte)
    BY <1>0, <2>1, Split
  <2>3. got' = got \o Prefix(read_buffer, k) /\ UNCHANGED write_buffer /\ Sent' = Sent
    BY <1>7, Reads DEF ReadCall, writerVars
  <2>4. QED
    BY <1>0, <2>2, <2>3, GetStep DEF B!Next
<1>8. ASSUME NEW n \in 1..Len(wire), ReadDirect(n) \/ ReadFill(n)
      PROVE  [B!Next]_(B!vars)
  <2>1. PICK k \in 0..Len(wire) : got' = got \o Prefix(wire, k)
    <3>1. n \in 0..Len(wire) /\ Len(Prefix(wire, n)) = n
      BY <1>0, Split
    <3>2. CASE ReadDirect(n)
      BY <3>1, <3>2 DEF ReadDirect
    <3>3. CASE ReadFill(n)
      <4>1. Taken(Prefix(wire, n), rleft) \in 0..Len(wire)
        BY <1>0, <3>1 DEF Taken
      <4>2. QED
        BY <3>3, <4>1 DEF ReadFill
    <3>4. QED
      BY <1>8, <3>2, <3>3
  <2>2. Prefix(wire, k) \in Seq(Byte)
    BY <1>0, Split
  <2>3. UNCHANGED write_buffer /\ Sent' = Sent
    BY <1>8, Reads DEF ReaderStep, ReadDirect, ReadFill, writerVars
  <2>4. QED
    BY <1>0, <2>1, <2>2, <2>3, GetStep DEF B!Next
<1>9. ASSUME NEW n \in 1..Len(wire), Feed(n) PROVE [B!Next]_(B!vars)
  <2>1. UNCHANGED <<write_buffer, got>> /\ Sent' = Sent
    BY <1>9, Reads DEF Feed, writerVars
  <2>2. QED
    BY <1>1, <2>1
<1>10. QED
  BY <1>2, <1>3, <1>4, <1>5, <1>6, <1>7, <1>8, <1>9 DEF StreamNext, WriterStep, ReaderStep

\* The buffers implement a stream of bytes: nothing is lost, repeated, invented
\* or reordered between the programs at the two ends.
THEOREM StreamImplementsFifo == StreamSpec => StreamIsFifo
<1>1. StreamInit => B!Init
  <2>1. <<>> \o <<>> = <<>>
    BY Empty
  <2>2. QED
    BY <2>1 DEF StreamInit, B!Init, Sent
<1>2. StreamInv /\ StreamInv' /\ [StreamNext]_streamVars => [B!Next]_(B!vars)
  BY FifoStep
<1>3. QED
  BY <1>1, <1>2, StreamInvariant, PTL DEF StreamSpec, StreamIsFifo, B!Spec

-----------------------------------------------------------------------------
\* Induction over the natural numbers, from the library's theorem on minimal
\* elements: the property is given as the set of numbers that have it.

\* A set of natural numbers that is not empty has a least element.
LEMMA Least ==
  ASSUME NEW T \in SUBSET Nat, T # {}
  PROVE  \E n \in T : \A m \in T : n <= m
<1>1. PICK R : R = OpToRel(<, Nat)
  OBVIOUS
<1>2. IsWellFoundedOn(R, Nat)
  BY <1>1, NatLessThanWellFounded
<1>3. R = {ss \in Nat \X Nat : ss[1] < ss[2]}
  BY <1>1 DEF OpToRel
<1>4. PICK n \in T : \A m \in T : ~ (<<m, n>> \in R)
  BY <1>2, WFMin
<1>5. ASSUME NEW m \in T PROVE n <= m
  <2>1. <<m, n>> \in Nat \X Nat
    OBVIOUS
  <2>2. ~(m < n)
    BY <1>3, <1>4, <2>1
  <2>3. QED
    BY <2>2
<1>6. QED
  BY <1>5

\* What holds of 0 and of n + 1 when it holds of n holds of every number.
LEMMA Induction ==
  ASSUME NEW T, 0 \in T, \A n \in Nat : n \in T => n + 1 \in T
  PROVE  \A n \in Nat : n \in T
<1>1. SUFFICES ASSUME NEW b \in Nat, b \notin T PROVE FALSE
  OBVIOUS
<1>2. PICK n \in Nat \ T : \A m \in Nat \ T : n <= m
  BY <1>1, Least
<1>3. n # 0 /\ n - 1 \in Nat /\ n - 1 \in T
  BY <1>2
<1>4. QED
  BY <1>2, <1>3

\* Min of FiniteSetsExt is the least element.
LEMMA MinIsLeast ==
  ASSUME NEW T \in SUBSET Nat, T # {}
  PROVE  Min(T) \in T /\ \A m \in T : Min(T) <= m
BY Least DEF Min

-----------------------------------------------------------------------------
\* FlattenSeq of SequencesExt, for pieces that are sequences of bytes.

Parts == Seq(Seq(Byte))

\* Concatenation, kept as a name where the provers need not look into it.
Glue(a, b) == a \o b

\* The loop that puts the pieces together.
Joins(s, g) ==
  /\ g[0] = <<>>
  /\ \A k \in 1..Len(s) : g[k] = Glue(g[k - 1], s[k])

LEMMA FlatLoop ==
  ASSUME NEW s \in Parts
  PROVE  \E g : /\ Joins(s, g)
                /\ \A k \in 0..Len(s) : g[k] \in Seq(Byte)
                /\ FlattenSeq(s) = g[Len(s)]
<1>0. /\ Len(s) \in Nat /\ \A k \in 1..Len(s) : s[k] \in Seq(Byte)
      /\ (Len(s) = 0 <=> s = <<>>)
  BY EmptySeq, LenProperties, ElementOfSeq DEF Parts
<1>1. CASE Len(s) = 0
  <2>1. PICK g : g = [k \in 0..0 |-> <<>>]
    OBVIOUS
  <2>2. FlattenSeq(s) = <<>>
    BY <1>0, <1>1 DEF FlattenSeq
  <2>3. g[0] = <<>> /\ g[0] \in Seq(Byte)
    BY <2>1
  <2>4. Joins(s, g) /\ (\A k \in 0..Len(s) : g[k] \in Seq(Byte))
    <3>1. (\A k \in 1..Len(s) : FALSE) /\ (\A k \in 0..Len(s) : k = 0)
      BY <1>1
    <3>2. QED
      BY <2>3, <3>1, Zenon DEF Joins
  <2>5. FlattenSeq(s) = g[Len(s)]
    BY <1>1, <2>2, <2>3
  <2>6. QED
    BY <2>4, <2>5
<1>2. CASE Len(s) # 0
  <2> DEFINE IsLoop(g, n) ==
               g = [i \in 1..n |-> IF i = 1 THEN s[i] ELSE Glue(g[i - 1], s[i])]
             T == {n \in Nat : \E g : IsLoop(g, n)}
  <2>1. 0 \in T
    <3>1. PICK g : g = [i \in 1..0 |-> <<>>]
      OBVIOUS
    <3>2. IsLoop(g, 0)
      BY <3>1
    <3>3. QED
      BY <3>2
  <2>2. ASSUME NEW n \in Nat, n \in T PROVE n + 1 \in T
    <3>1. PICK h : IsLoop(h, n)
      BY <2>2
    <3>2. PICK g : g = [i \in 1..(n + 1) |->
                          IF i = 1 THEN s[i]
                          ELSE IF i = n + 1 THEN Glue(h[n], s[n + 1]) ELSE h[i]]
      OBVIOUS
    <3>3. ASSUME NEW i \in 1..(n + 1)
          PROVE  g[i] = IF i = 1 THEN s[i] ELSE Glue(g[i - 1], s[i])
      <4>1. CASE i = 1
        BY <3>2, <4>1
      <4>2. CASE i # 1
        <5>1. i - 1 \in 1..n
          BY <4>2
        <5>2. h[1] = s[1] /\ \A j \in 1..n : j # 1 => h[j] = Glue(h[j - 1], s[j])
          BY <3>1, <5>1
        <5>3. g[i - 1] = h[i - 1]
          BY <3>2, <5>1, <5>2
        <5>4. CASE i = n + 1
          BY <3>2, <4>2, <5>1, <5>3, <5>4
        <5>5. CASE i # n + 1
          <6>1. i \in 1..n
            BY <5>5
          <6>2. g[i] = h[i]
            BY <3>2, <4>2, <5>5
          <6>3. QED
            BY <4>2, <5>2, <5>3, <6>1, <6>2
        <5>6. QED
          BY <5>4, <5>5
      <4>3. QED
        BY <4>1, <4>2
    <3>4. IsLoop(g, n + 1)
      <4>1. DOMAIN g = 1..(n + 1)
        BY <3>2
      <4>2. g = [i \in 1..(n + 1) |-> g[i]]
        BY <3>2
      <4>3. QED
        BY <3>3, <4>2
    <3>5. n + 1 \in Nat
      OBVIOUS
    <3>6. QED
      BY <3>4, <3>5
  <2>3. Len(s) \in T
    <3> HIDE DEF T
    <3>1. QED
      BY <1>0, <2>1, <2>2, Induction
  <2>4. PICK h : h = CHOOSE g : IsLoop(g, Len(s))
    OBVIOUS
  <2>5. IsLoop(h, Len(s))
    BY <2>3, <2>4
  <2>6. FlattenSeq(s) = h[Len(s)]
    BY <1>2, <2>4 DEF FlattenSeq, Glue
  <2>7. PICK g : g = [k \in 0..Len(s) |-> IF k = 0 THEN <<>> ELSE h[k]]
    OBVIOUS
  <2>8. g[0] = <<>> /\ g[Len(s)] = h[Len(s)]
    BY <1>0, <1>2, <2>7
  <2>9. ASSUME NEW k \in 1..Len(s) PROVE g[k] = Glue(g[k - 1], s[k])
    <3>1. CASE k = 1
      <4>1. g[k] = s[1] /\ g[k - 1] = <<>>
        BY <2>5, <2>7, <3>1
      <4>2. s[1] \in Seq(Byte)
        BY <1>0, <3>1
      <4>3. QED
        BY <3>1, <4>1, <4>2, Empty DEF Glue
    <3>2. CASE k # 1
      <4>1. h[k] = Glue(h[k - 1], s[k]) /\ g[k] = h[k] /\ g[k - 1] = h[k - 1]
        BY <2>5, <2>7, <3>2
      <4>2. QED
        BY <4>1
    <3>3. QED
      BY <3>1, <3>2
  <2>10. Joins(s, g)
    BY <2>8, <2>9 DEF Joins
  <2> DEFINE V == {k \in Nat : k <= Len(s) => g[k] \in Seq(Byte)}
  <2>11. 0 \in V
    BY <2>8, Empty
  <2>12. ASSUME NEW k \in Nat, k \in V PROVE k + 1 \in V
    <3>1. SUFFICES ASSUME k + 1 <= Len(s) PROVE g[k + 1] \in Seq(Byte)
      OBVIOUS
    <3>2. k + 1 \in 1..Len(s) /\ g[k] \in Seq(Byte) /\ (k + 1) - 1 = k
      BY <1>0, <2>12, <3>1
    <3>3. g[k + 1] = g[k] \o s[k + 1] /\ s[k + 1] \in Seq(Byte)
      BY <1>0, <2>9, <3>2 DEF Glue
    <3>4. QED
      BY <3>2, <3>3, Concat
  <2>13. \A k \in Nat : k \in V
    <3> HIDE DEF V
    <3>1. QED
      BY <2>11, <2>12, Induction
  <2>14. QED
    BY <2>6, <2>8, <2>10, <2>13
<1>3. QED
  BY <1>1, <1>2

LEMMA FlatType ==
  ASSUME NEW s \in Parts
  PROVE  FlattenSeq(s) \in Seq(Byte)
<1>1. PICK g : /\ \A k \in 0..Len(s) : g[k] \in Seq(Byte)
               /\ FlattenSeq(s) = g[Len(s)]
  BY FlatLoop
<1>2. Len(s) \in 0..Len(s)
  BY LenProperties DEF Parts
<1>3. QED
  BY <1>1, <1>2

LEMMA FlatEmpty == <<>> \in Parts /\ FlattenSeq(<<>>) = <<>>
BY EmptySeq DEF FlattenSeq, Parts

LEMMA FlatOne ==
  ASSUME NEW e \in Seq(Byte)
  PROVE  <<e>> \in Parts /\ FlattenSeq(<<e>>) = e
<1>1. <<e>> \in Parts /\ Len(<<e>>) = 1 /\ <<e>>[1] = e
  BY DEF Parts
<1>2. PICK g : Joins(<<e>>, g) /\ FlattenSeq(<<e>>) = g[1]
  BY <1>1, FlatLoop
<1>3. g[0] = <<>> /\ g[1] = Glue(g[0], e)
  BY <1>1, <1>2 DEF Joins
<1>4. <<>> \o e = e
  BY Empty
<1>5. QED
  BY <1>1, <1>2, <1>3, <1>4 DEF Glue

LEMMA FlatConcat ==
  ASSUME NEW s \in Parts, NEW t \in Parts
  PROVE  /\ s \o t \in Parts
         /\ FlattenSeq(s \o t) = FlattenSeq(s) \o FlattenSeq(t)
<1>1. /\ s \o t \in Parts /\ Len(s) \in Nat /\ Len(t) \in Nat
      /\ Len(s \o t) = Len(s) + Len(t)
      /\ \A i \in 1..(Len(s) + Len(t)) :
           (s \o t)[i] = IF i <= Len(s) THEN s[i] ELSE t[i - Len(s)]
  BY ConcatProperties, LenProperties DEF Parts
<1>2. PICK u : u = s \o t
  OBVIOUS
<1>3. PICK f : /\ Joins(s, f) /\ FlattenSeq(s) = f[Len(s)]
               /\ \A k \in 0..Len(s) : f[k] \in Seq(Byte)
  BY FlatLoop
<1>4. PICK g : /\ Joins(t, g) /\ FlattenSeq(t) = g[Len(t)]
               /\ \A k \in 0..Len(t) : g[k] \in Seq(Byte)
  BY FlatLoop
<1>5. PICK h : Joins(u, h) /\ FlattenSeq(u) = h[Len(u)]
  BY <1>1, <1>2, FlatLoop
<1>6. \A k \in 1..Len(t) : t[k] \in Seq(Byte)
  BY ElementOfSeq DEF Parts
<1> DEFINE A == {k \in Nat : k <= Len(s) => h[k] = f[k]}
           Z == {k \in Nat : k <= Len(t) => h[Len(s) + k] = Glue(f[Len(s)], g[k])}
<1>7. 0 \in A
  BY <1>3, <1>5 DEF Joins
<1>8. ASSUME NEW k \in Nat, k \in A PROVE k + 1 \in A
  <2>1. SUFFICES ASSUME k + 1 <= Len(s) PROVE h[k + 1] = f[k + 1]
    OBVIOUS
  <2>2. /\ k + 1 \in 1..Len(s) /\ k + 1 \in 1..Len(u) /\ (k + 1) - 1 = k
        /\ u[k + 1] = s[k + 1] /\ h[k] = f[k]
    BY <1>1, <1>2, <1>8, <2>1
  <2>3. h[k + 1] = Glue(h[k], u[k + 1])
    BY <1>5, <2>2, Zenon DEF Joins
  <2>4. f[k + 1] = Glue(f[k], s[k + 1])
    BY <1>3, <2>2, Zenon DEF Joins
  <2>5. QED
    BY <2>2, <2>3, <2>4
<1>9. Len(s) \in A
  <2> HIDE DEF A
  <2>1. QED
    BY <1>1, <1>7, <1>8, Induction
<1>10. h[Len(s)] = f[Len(s)] /\ f[Len(s)] \in Seq(Byte)
  BY <1>1, <1>3, <1>9
<1>11. 0 \in Z
  <2>1. g[0] = <<>> /\ f[Len(s)] \o <<>> = f[Len(s)] /\ Len(s) + 0 = Len(s)
    BY <1>1, <1>4, <1>10, Empty DEF Joins
  <2>2. QED
    BY <1>10, <2>1 DEF Glue
<1>12. ASSUME NEW k \in Nat, k \in Z PROVE k + 1 \in Z
  <2>1. SUFFICES ASSUME k + 1 <= Len(t)
                 PROVE  h[Len(s) + (k + 1)] = Glue(f[Len(s)], g[k + 1])
    OBVIOUS
  <2>2. PICK x : x = Len(s) + (k + 1)
    OBVIOUS
  <2>3. /\ x \in 1..Len(u) /\ x - 1 = Len(s) + k /\ x \in 1..(Len(s) + Len(t))
        /\ ~(x <= Len(s)) /\ x - Len(s) = k + 1
        /\ k + 1 \in 1..Len(t) /\ (k + 1) - 1 = k /\ k \in 0..Len(t)
    BY <1>1, <1>2, <2>1, <2>2
  <2>4. u[x] = t[k + 1]
    BY <1>1, <1>2, <2>3
  <2>5. h[Len(s) + k] = Glue(f[Len(s)], g[k])
    BY <1>1, <1>12, <2>1
  <2>6. h[x] = Glue(h[Len(s) + k], t[k + 1])
    BY <1>5, <2>3, <2>4, Zenon DEF Joins
  <2>7. g[k + 1] = Glue(g[k], t[k + 1])
    BY <1>4, <2>3, Zenon DEF Joins
  <2>8. g[k] \in Seq(Byte) /\ t[k + 1] \in Seq(Byte)
    BY <1>4, <1>6, <2>3
  <2>9. Glue(Glue(f[Len(s)], g[k]), t[k + 1]) = Glue(f[Len(s)], Glue(g[k], t[k + 1]))
    BY <1>10, <2>8, Assoc DEF Glue
  <2>10. QED
    BY <2>2, <2>5, <2>6, <2>7, <2>9
<1>13. Len(t) \in Z
  <2> HIDE DEF Z
  <2>1. QED
    BY <1>1, <1>11, <1>12, Induction
<1>14. h[Len(s) + Len(t)] = Glue(f[Len(s)], g[Len(t)])
  BY <1>1, <1>13
<1>15. QED
  BY <1>1, <1>2, <1>3, <1>4, <1>5, <1>14 DEF Glue

\* The first piece and the others.
LEMMA FlatHead ==
  ASSUME NEW s \in Parts, s # <<>>
  PROVE  /\ Head(s) \in Seq(Byte) /\ Tail(s) \in Parts
         /\ FlattenSeq(s) = Head(s) \o FlattenSeq(Tail(s))
<1>1. Head(s) \in Seq(Byte) /\ Tail(s) \in Parts
  BY HeadTailProperties DEF Parts
<1>2. s = <<Head(s)>> \o Tail(s)
  BY DEF Parts
<1>3. <<Head(s)>> \in Parts /\ FlattenSeq(<<Head(s)>>) = Head(s)
  BY <1>1, FlatOne
<1>4. FlattenSeq(<<Head(s)>> \o Tail(s)) = Head(s) \o FlattenSeq(Tail(s))
  BY <1>1, <1>3, FlatConcat
<1>5. QED
  BY <1>1, <1>2, <1>4

-----------------------------------------------------------------------------
\* What the bytes of a text become on the connection: the pieces that Stuffed
\* and NormalText put together.

Piece(m, q, i) ==
  IF q /\ m[i] = Dot /\ LineStart(m, i) THEN <<Dot, Dot>> ELSE Normal(m, i)

\* The first k bytes of m, quoted or not.
Upto(m, q, k) == FlattenSeq([i \in 1..k |-> Piece(m, q, i)])

LEMMA Marks ==
  /\ CR \in Byte /\ LF \in Byte /\ Dot \in Byte
  /\ CR # LF /\ CR # Dot /\ LF # Dot /\ Nul # CR /\ Nul # LF /\ Nul # Dot
  /\ CRLF = <<CR, LF>> /\ CRLF \in Seq(Byte) /\ Len(CRLF) = 2
  /\ <<CR>> \in Seq(Byte) /\ <<LF>> \in Seq(Byte) /\ <<Dot>> \in Seq(Byte)
  /\ <<Dot, Dot>> \in Seq(Byte)
  /\ CRLF = <<CR>> \o <<LF>> /\ <<Dot, Dot>> = <<Dot>> \o <<Dot>>
<1>1. CR \in Byte /\ LF \in Byte /\ Dot \in Byte
  BY DataAssumption DEF DataAssumption
<1>2. CR # LF /\ CR # Dot /\ LF # Dot /\ Nul # CR /\ Nul # LF /\ Nul # Dot
  BY DEF CR, LF, Dot, Nul
<1>3. CRLF = <<CR, LF>>
  BY DEF CRLF
<1>4. ASSUME NEW a \in Byte, NEW b \in Byte
      PROVE  /\ <<a>> \in Seq(Byte) /\ <<a, b>> \in Seq(Byte) /\ Len(<<a, b>>) = 2
             /\ <<a, b>> = <<a>> \o <<b>>
  <2>1. <<a>> \in Seq(Byte) /\ <<a, b>> \in Seq(Byte) /\ Len(<<a, b>>) = 2
    OBVIOUS
  <2>2. PICK c, s, t : c = <<a, b>> /\ s = <<a>> /\ t = <<b>>
    OBVIOUS
  <2>3. /\ c \in Seq(Byte) /\ Len(c) = 2 /\ c[1] = a /\ c[2] = b
        /\ s \in Seq(Byte) /\ Len(s) = 1 /\ s[1] = a
        /\ t \in Seq(Byte) /\ Len(t) = 1 /\ t[1] = b
    BY <2>1, <2>2
  <2>4. /\ s \o t \in Seq(Byte) /\ Len(s \o t) = 2
        /\ (s \o t)[1] = a /\ (s \o t)[2] = b
    <3>1. /\ s \o t \in Seq(Byte) /\ Len(s \o t) = Len(s) + Len(t)
          /\ \A i \in 1..(Len(s) + Len(t)) :
               (s \o t)[i] = IF i <= Len(s) THEN s[i] ELSE t[i - Len(s)]
      BY <2>3, ConcatProperties, Zenon
    <3>2. QED
      BY <2>3, <3>1
  <2>5. c = s \o t
    <3>1. \A i \in 1..Len(c) : i = 1 \/ i = 2
      BY <2>3
    <3>2. \A i \in 1..Len(c) : c[i] = (s \o t)[i]
      BY <2>3, <2>4, <3>1
    <3>3. QED
      BY <2>3, <2>4, <3>2, SeqEqual
  <2>6. QED
    BY <2>1, <2>2, <2>5
<1>5. QED
  BY <1>1, <1>2, <1>3, <1>4

LEMMA BreakIsTwo ==
  ASSUME NEW b
  PROVE  CRLF # <<b>>
<1>1. PICK c, e : c = CRLF /\ e = <<b>>
  OBVIOUS
<1>2. Len(c) = 2
  BY <1>1, Marks
<1>3. Len(e) = 1
  BY <1>1
<1>4. QED
  BY <1>1, <1>2, <1>3

LEMMA PieceType ==
  ASSUME NEW m \in Seq(Byte), NEW q, NEW i \in 1..Len(m)
  PROVE  Piece(m, q, i) \in Seq(Byte)
<1>1. m[i] \in Byte
  BY ElementOfSeq
<1>2. <<m[i]>> \in Seq(Byte)
  BY <1>1
<1>3. QED
  BY <1>2, Marks DEF Piece, Normal

LEMMA UptoIs ==
  ASSUME NEW m \in Seq(Byte), NEW q
  PROVE  /\ \A k \in 0..Len(m) : Upto(m, q, k) \in Seq(Byte)
         /\ Upto(m, q, 0) = <<>>
         /\ \A k \in 1..Len(m) : Upto(m, q, k) = Upto(m, q, k - 1) \o Piece(m, q, k)
<1> DEFINE P(k) == [i \in 1..k |-> Piece(m, q, i)]
<1>0. Len(m) \in Nat
  BY LenProperties
<1>1. \A i \in 1..Len(m) : Piece(m, q, i) \in Seq(Byte)
  BY PieceType
<1>2. ASSUME NEW k \in 0..Len(m)
      PROVE  P(k) \in Parts /\ Len(P(k)) = k
  BY <1>0, <1>1 DEF Parts
<1>3. ASSUME NEW k \in 0..Len(m) PROVE Upto(m, q, k) \in Seq(Byte)
  BY <1>2, FlatType DEF Upto
<1>4. Upto(m, q, 0) = <<>>
  <2>1. P(0) = <<>>
    OBVIOUS
  <2>2. QED
    BY <2>1, FlatEmpty DEF Upto
<1>5. ASSUME NEW k \in 1..Len(m)
      PROVE  Upto(m, q, k) = Upto(m, q, k - 1) \o Piece(m, q, k)
  <2>1. k - 1 \in 0..Len(m) /\ k \in 0..Len(m)
    BY <1>0
  <2>2. P(k - 1) \in Parts /\ Len(P(k - 1)) = k - 1 /\ P(k) \in Parts /\ Len(P(k)) = k
    BY <1>2, <2>1
  <2>3. Piece(m, q, k) \in Seq(Byte)
    BY <1>1
  <2>4. <<Piece(m, q, k)>> \in Parts /\ FlattenSeq(<<Piece(m, q, k)>>) = Piece(m, q, k)
    BY <2>3, FlatOne
  <2>5. P(k) = P(k - 1) \o <<Piece(m, q, k)>>
    <3>1. PICK a, b, c : a = P(k - 1) /\ b = <<Piece(m, q, k)>> /\ c = P(k)
      OBVIOUS
    <3>2. a \in Parts /\ b \in Parts /\ c \in Parts /\ Len(a) = k - 1 /\ Len(b) = 1 /\ Len(c) = k
      BY <2>2, <2>4, <3>1
    <3>3. /\ a \o b \in Parts /\ Len(a \o b) = k
          /\ \A i \in 1..k : (a \o b)[i] = IF i <= k - 1 THEN a[i] ELSE b[i - (k - 1)]
      <4>1. /\ a \o b \in Parts /\ Len(a \o b) = Len(a) + Len(b)
            /\ \A i \in 1..(Len(a) + Len(b)) :
                 (a \o b)[i] = IF i <= Len(a) THEN a[i] ELSE b[i - Len(a)]
        BY <3>2, ConcatProperties, Zenon DEF Parts
      <4>2. Len(a) + Len(b) = k
        BY <3>2
      <4>3. QED
        BY <3>2, <4>1, <4>2
    <3>4. ASSUME NEW i \in 1..k PROVE (a \o b)[i] = c[i]
      <4>1. CASE i <= k - 1
        BY <3>1, <3>3, <4>1
      <4>2. CASE ~(i <= k - 1)
        <5>1. i = k /\ i - (k - 1) = 1
          BY <4>2
        <5>2. c[i] = Piece(m, q, k) /\ b[1] = Piece(m, q, k)
          BY <3>1, <5>1
        <5>3. QED
          BY <3>3, <4>2, <5>1, <5>2
      <4>3. QED
        BY <4>1, <4>2
    <3>5. a \o b = c
      BY <3>2, <3>3, <3>4, SeqEqual DEF Parts
    <3>6. QED
      BY <3>1, <3>5
  <2>6. FlattenSeq(P(k)) = FlattenSeq(P(k - 1)) \o Piece(m, q, k)
    <3>1. PICK a, b, c : a = P(k - 1) /\ b = <<Piece(m, q, k)>> /\ c = P(k)
      OBVIOUS
    <3>2. a \in Parts /\ b \in Parts /\ c = a \o b /\ FlattenSeq(b) = Piece(m, q, k)
      BY <2>2, <2>4, <2>5, <3>1, Zenon
    <3>3. FlattenSeq(a \o b) = FlattenSeq(a) \o FlattenSeq(b)
      BY <3>2, FlatConcat, Zenon
    <3>4. QED
      BY <3>1, <3>2, <3>3, Zenon
  <2>7. QED
    BY <2>6 DEF Upto
<1>6. QED
  BY <1>3, <1>4, <1>5

LEMMA UptoAll ==
  ASSUME NEW m \in Seq(Byte)
  PROVE  Stuffed(m) = Upto(m, TRUE, Len(m)) /\ NormalText(m) = Upto(m, FALSE, Len(m))
BY DEF Stuffed, NormalText, Upto, Piece

\* Bytes that are sent as they are.
LEMMA UptoRun ==
  ASSUME NEW m \in Seq(Byte), NEW q, NEW a \in 0..Len(m), NEW b \in a..Len(m),
         \A i \in (a + 1)..b : Piece(m, q, i) = <<m[i]>>
  PROVE  /\ SubSeq(m, a + 1, b) \in Seq(Byte)
         /\ Upto(m, q, b) = Upto(m, q, a) \o SubSeq(m, a + 1, b)
<1> DEFINE T == {n \in Nat : a + n <= b =>
                   /\ SubSeq(m, a + 1, a + n) \in Seq(Byte)
                   /\ Upto(m, q, a + n) = Glue(Upto(m, q, a), SubSeq(m, a + 1, a + n))}
<1>0. Len(m) \in Nat /\ a \in Nat /\ b \in Nat /\ b - a \in Nat /\ a + (b - a) = b
  BY LenProperties
<1>1. 0 \in T
  <2>1. SubSeq(m, a + 1, a + 0) = <<>>
    BY <1>0, SubSeqEmpty
  <2>2. Upto(m, q, a) \in Seq(Byte)
    BY UptoIs
  <2>3. a + 0 = a
    BY <1>0
  <2>4. <<>> \in Seq(Byte) /\ Upto(m, q, a) = Glue(Upto(m, q, a), <<>>)
    BY <2>2, Empty DEF Glue
  <2>5. QED
    BY <2>1, <2>3, <2>4
<1>2. ASSUME NEW n \in Nat, n \in T PROVE n + 1 \in T
  <2>1. SUFFICES ASSUME a + (n + 1) <= b
                 PROVE  /\ SubSeq(m, a + 1, a + (n + 1)) \in Seq(Byte)
                        /\ Upto(m, q, a + (n + 1))
                             = Glue(Upto(m, q, a), SubSeq(m, a + 1, a + (n + 1)))
    OBVIOUS
  <2>2. PICK k : k = a + (n + 1)
    OBVIOUS
  <2>3. /\ k \in 1..Len(m) /\ k \in (a + 1)..b /\ k - 1 = a + n /\ a + n <= b
        /\ a + 1 \in 1..Len(m) /\ k \in (a + 1)..Len(m)
    BY <1>0, <2>1, <2>2
  <2>4. /\ SubSeq(m, a + 1, k - 1) \in Seq(Byte)
        /\ Upto(m, q, k - 1) = Upto(m, q, a) \o SubSeq(m, a + 1, k - 1)
    BY <1>2, <2>3 DEF Glue
  <2>5. Upto(m, q, k) = Upto(m, q, k - 1) \o <<m[k]>>
    BY <2>3, UptoIs
  <2>6. SubSeq(m, a + 1, k) = SubSeq(m, a + 1, k - 1) \o <<m[k]>>
    BY <2>3, SubSeqRecursiveSecond
  <2>7. m[k] \in Byte /\ Upto(m, q, a) \in Seq(Byte)
    BY <2>3, ElementOfSeq, UptoIs
  <2>8. <<m[k]>> \in Seq(Byte)
    BY <2>7
  <2>9. (Upto(m, q, a) \o SubSeq(m, a + 1, k - 1)) \o <<m[k]>>
          = Upto(m, q, a) \o (SubSeq(m, a + 1, k - 1) \o <<m[k]>>)
    BY <2>4, <2>7, <2>8, Assoc
  <2>10. SubSeq(m, a + 1, k) \in Seq(Byte)
    BY <2>4, <2>6, <2>8, Concat
  <2>11. QED
    BY <2>2, <2>4, <2>5, <2>6, <2>9, <2>10 DEF Glue
<1>3. b - a \in T
  <2> HIDE DEF T
  <2>1. QED
    BY <1>0, <1>1, <1>2, Induction
<1>4. /\ SubSeq(m, a + 1, a + (b - a)) \in Seq(Byte)
      /\ Upto(m, q, a + (b - a)) = Glue(Upto(m, q, a), SubSeq(m, a + 1, a + (b - a)))
  BY <1>0, <1>3
<1>5. QED
  BY <1>0, <1>4 DEF Glue

LEMMA FlatTwo ==
  ASSUME NEW a \in Seq(Byte), NEW b \in Seq(Byte)
  PROVE  <<a, b>> \in Parts /\ FlattenSeq(<<a, b>>) = a \o b
<1>1. <<a>> \in Parts /\ <<b>> \in Parts /\ <<a, b>> \in Parts
  BY DEF Parts
<1>2. PICK c, s, t : c = <<a, b>> /\ s = <<a>> /\ t = <<b>>
  OBVIOUS
<1>3. /\ c \in Parts /\ Len(c) = 2 /\ c[1] = a /\ c[2] = b
      /\ s \in Parts /\ Len(s) = 1 /\ s[1] = a
      /\ t \in Parts /\ Len(t) = 1 /\ t[1] = b
  BY <1>1, <1>2
<1>4. /\ s \o t \in Parts /\ Len(s \o t) = 2
      /\ (s \o t)[1] = a /\ (s \o t)[2] = b
  <2>1. /\ s \o t \in Parts /\ Len(s \o t) = Len(s) + Len(t)
        /\ \A i \in 1..(Len(s) + Len(t)) :
             (s \o t)[i] = IF i <= Len(s) THEN s[i] ELSE t[i - Len(s)]
    BY <1>3, ConcatProperties, Zenon DEF Parts
  <2>2. QED
    BY <1>3, <2>1
<1>5. c = s \o t
  <2>1. \A i \in 1..Len(c) : i = 1 \/ i = 2
    BY <1>3
  <2>2. \A i \in 1..Len(c) : c[i] = (s \o t)[i]
    BY <1>3, <1>4, <2>1
  <2>3. QED
    BY <1>3, <1>4, <2>2, SeqEqual DEF Parts
<1>6. FlattenSeq(s \o t) = FlattenSeq(s) \o FlattenSeq(t)
  BY <1>3, FlatConcat
<1>7. FlattenSeq(s) = a /\ FlattenSeq(t) = b
  BY <1>2, FlatOne
<1>8. QED
  BY <1>2, <1>3, <1>5, <1>6, <1>7

-----------------------------------------------------------------------------
\* One line of the text.

\* x is the first line break from i on, or the end of the text.
Break(m, i, x) ==
  /\ x \in i..(Len(m) + 1)
  /\ \A j \in i..(x - 1) : m[j] \notin {CR, LF}
  /\ x <= Len(m) => m[x] \in {CR, LF}

LEMMA LineEndIs ==
  ASSUME NEW m \in Seq(Byte), NEW i \in 1..Len(m)
  PROVE  \E x : /\ Break(m, i, x)
                /\ LineEnd(m, i) =
                     IF x > Len(m) THEN [last |-> Len(m), fix_eol |-> FALSE]
                     ELSE IF m[x] = CR /\ x < Len(m) /\ m[x + 1] = LF
                          THEN [last |-> x + 1, fix_eol |-> FALSE]
                          ELSE [last |-> x, fix_eol |-> TRUE]
<1>0. Len(m) \in Nat
  BY LenProperties
<1>1. CASE Eols(m, i) = {}
  <2>1. Break(m, i, Len(m) + 1)
    BY <1>0, <1>1 DEF Break, Eols
  <2>2. LineEnd(m, i) = [last |-> Len(m), fix_eol |-> FALSE]
    BY <1>1 DEF LineEnd
  <2>3. Len(m) + 1 > Len(m)
    BY <1>0
  <2>4. QED
    BY <2>1, <2>2, <2>3
<1>2. CASE Eols(m, i) # {}
  <2>1. PICK x : x = Min(Eols(m, i))
    OBVIOUS
  <2>2. Eols(m, i) \in SUBSET Nat
    BY <1>0 DEF Eols
  <2>3. x \in Eols(m, i) /\ \A j \in Eols(m, i) : x <= j
    BY <1>2, <2>1, <2>2, MinIsLeast
  <2>4. x \in i..Len(m) /\ m[x] \in {CR, LF}
    BY <2>3 DEF Eols
  <2>5. ASSUME NEW j \in i..(x - 1) PROVE m[j] \notin {CR, LF}
    BY <1>0, <2>3, <2>4 DEF Eols
  <2>6. Break(m, i, x)
    BY <1>0, <2>4, <2>5 DEF Break
  <2>7. ~(x > Len(m))
    BY <1>0, <2>4
  <2>8. QED
    BY <1>2, <2>1, <2>6, <2>7 DEF LineEnd
<1>3. QED
  BY <1>1, <1>2

\* The bytes of a line up to z are plain ones, except for a period at its
\* start; what follows z is the line break that has to be fixed.
PlainTo(m, i, e) == IF e.fix_eol THEN e.last - 1 ELSE e.last

LEMMA LinePieces ==
  ASSUME NEW m \in Seq(Byte), NEW q \in BOOLEAN, NEW i \in 1..Len(m), LineStart(m, i),
         NEW e, e = LineEnd(m, i)
  PROVE  /\ e.last \in i..Len(m) /\ e.fix_eol \in BOOLEAN
         /\ e.fix_eol => Piece(m, q, e.last) = CRLF /\ m[e.last] \in {CR, LF}
         /\ \A j \in (i + 1)..PlainTo(m, i, e) : Piece(m, q, j) = <<m[j]>>
         /\ i <= PlainTo(m, i, e) =>
              Piece(m, q, i) = IF q /\ m[i] = Dot THEN <<Dot, Dot>> ELSE <<m[i]>>
         /\ m[i] = Dot => i <= PlainTo(m, i, e)
         /\ e.last < Len(m) => LineStart(m, e.last + 1)
<1>0. Len(m) \in Nat
  BY LenProperties
<1>1. PICK x : /\ Break(m, i, x)
               /\ LineEnd(m, i) =
                    IF x > Len(m) THEN [last |-> Len(m), fix_eol |-> FALSE]
                    ELSE IF m[x] = CR /\ x < Len(m) /\ m[x + 1] = LF
                         THEN [last |-> x + 1, fix_eol |-> FALSE]
                         ELSE [last |-> x, fix_eol |-> TRUE]
  BY LineEndIs
<1>2. /\ x \in i..(Len(m) + 1) /\ x \in Nat
      /\ \A j \in i..(x - 1) : m[j] \notin {CR, LF}
      /\ x <= Len(m) => m[x] \in {CR, LF}
  BY <1>0, <1>1 DEF Break
<1>3. PICK z : z = PlainTo(m, i, e)
  OBVIOUS
<1>4. ASSUME NEW j \in i..(x - 1), j <= Len(m)
      PROVE  /\ Piece(m, q, j) = IF q /\ m[j] = Dot /\ j = i THEN <<Dot, Dot>> ELSE <<m[j]>>
  <2>1. m[j] # CR /\ m[j] # LF
    BY <1>2
  <2>2. Normal(m, j) = <<m[j]>>
    BY <2>1 DEF Normal
  <2>3. j # i => ~LineStart(m, j)
    <3>1. SUFFICES ASSUME j # i PROVE ~LineStart(m, j)
      OBVIOUS
    <3>2. j - 1 \in i..(x - 1) /\ j # 1
      BY <1>2, <3>1
    <3>3. QED
      BY <1>2, <3>2 DEF LineStart
  <2>4. QED
    BY <2>2, <2>3 DEF Piece
<1>5. CASE x > Len(m)
  <2>1. e.last = Len(m) /\ e.fix_eol = FALSE /\ z = Len(m) /\ x = Len(m) + 1
    BY <1>0, <1>1, <1>2, <1>3, <1>5 DEF PlainTo
  <2>2. e.last \in i..Len(m) /\ i <= z /\ ~(e.last < Len(m))
    BY <1>0, <2>1
  <2>3. ASSUME NEW j \in i..z PROVE j \in i..(x - 1) /\ j <= Len(m)
    BY <1>0, <1>2, <2>1
  <2>4. \A j \in (i + 1)..z : Piece(m, q, j) = <<m[j]>>
    BY <1>0, <1>4, <2>1, <2>3
  <2>5. Piece(m, q, i) = IF q /\ m[i] = Dot THEN <<Dot, Dot>> ELSE <<m[i]>>
    BY <1>0, <1>4, <2>1, <2>2, <2>3
  <2>6. QED
    BY <1>3, <2>1, <2>2, <2>4, <2>5
<1>6. CASE x <= Len(m) /\ m[x] = CR /\ x < Len(m) /\ m[x + 1] = LF
  <2>1. e.last = x + 1 /\ e.fix_eol = FALSE /\ z = x + 1
    BY <1>0, <1>1, <1>2, <1>3, <1>6 DEF PlainTo
  <2>2. Piece(m, q, x) = <<m[x]>>
    <3>1. Normal(m, x) = <<m[x]>> /\ m[x] # Dot
      BY <1>0, <1>2, <1>6, Marks DEF Normal
    <3>2. QED
      BY <3>1 DEF Piece
  <2>3. Piece(m, q, x + 1) = <<m[x + 1]>>
    <3>1. (x + 1) - 1 = x /\ x + 1 # 1
      BY <1>2
    <3>2. Normal(m, x + 1) = <<m[x + 1]>> /\ m[x + 1] # Dot
      BY <1>2, <1>6, <3>1, Marks DEF Normal
    <3>3. QED
      BY <3>2 DEF Piece
  <2>4. ASSUME NEW j \in (i + 1)..z PROVE Piece(m, q, j) = <<m[j]>>
    <3>1. CASE j <= x - 1
      BY <1>0, <1>2, <1>4, <2>1, <3>1
    <3>2. CASE j = x \/ j = x + 1
      BY <2>2, <2>3, <3>2
    <3>3. QED
      BY <1>2, <2>1, <3>1, <3>2
  <2>5. i <= z => Piece(m, q, i) = IF q /\ m[i] = Dot THEN <<Dot, Dot>> ELSE <<m[i]>>
    <3>1. CASE i = x
      BY <1>6, <2>2, <3>1, Marks
    <3>2. CASE i # x
      BY <1>0, <1>2, <1>4, <3>2
    <3>3. QED
      BY <3>1, <3>2
  <2>6. LineStart(m, e.last + 1)
    BY <1>2, <1>6, <2>1 DEF LineStart
  <2>7. e.last \in i..Len(m) /\ i <= z
    BY <1>0, <1>2, <1>6, <2>1
  <2>8. QED
    BY <1>3, <2>1, <2>4, <2>5, <2>6, <2>7
<1>7. CASE x <= Len(m) /\ ~(m[x] = CR /\ x < Len(m) /\ m[x + 1] = LF)
  <2>1. e.last = x /\ e.fix_eol = TRUE /\ z = x - 1
    BY <1>0, <1>1, <1>2, <1>3, <1>7 DEF PlainTo
  <2>2. Piece(m, q, x) = CRLF
    <3>1. m[x] # Dot
      BY <1>2, <1>7, Marks
    <3>2. CASE m[x] = CR
      <4>1. x = Len(m) \/ m[x + 1] # LF
        BY <1>0, <1>2, <1>7, <3>2
      <4>2. QED
        BY <3>1, <3>2, <4>1 DEF Piece, Normal
    <3>3. CASE m[x] = LF
      <4>1. x = 1 \/ m[x - 1] # CR
        <5>1. CASE x = i
          BY <3>3, <5>1, Marks DEF LineStart
        <5>2. CASE x # i
          <6>1. x - 1 \in i..(x - 1)
            BY <1>2, <5>2
          <6>2. QED
            BY <1>2, <6>1
        <5>3. QED
          BY <5>1, <5>2
      <4>2. QED
        BY <3>1, <3>3, <4>1 DEF Piece, Normal
    <3>4. QED
      BY <1>2, <1>7, <3>2, <3>3
  <2>3. ASSUME NEW j \in i..z PROVE j \in i..(x - 1) /\ j <= Len(m)
    BY <1>0, <1>2, <2>1
  <2>4. x < Len(m) => LineStart(m, x + 1)
    <3>1. SUFFICES ASSUME x < Len(m) PROVE LineStart(m, x + 1)
      OBVIOUS
    <3>2. (x + 1) - 1 = x
      BY <1>2
    <3>3. QED
      BY <1>2, <1>7, <3>1, <3>2 DEF LineStart
  <2>5. m[i] = Dot => i <= z
    <3>1. SUFFICES ASSUME m[i] = Dot PROVE i <= z
      OBVIOUS
    <3>2. i # x
      BY <1>2, <1>7, <3>1, Marks
    <3>3. QED
      BY <1>2, <2>1, <3>2
  <2>6. \A j \in (i + 1)..z : Piece(m, q, j) = <<m[j]>>
    BY <1>4, <2>3
  <2>7. i <= z => Piece(m, q, i) = IF q /\ m[i] = Dot THEN <<Dot, Dot>> ELSE <<m[i]>>
    <3>1. SUFFICES ASSUME i <= z
                   PROVE  Piece(m, q, i) = IF q /\ m[i] = Dot THEN <<Dot, Dot>> ELSE <<m[i]>>
      OBVIOUS
    <3>2. i \in i..(x - 1) /\ i <= Len(m)
      BY <1>2, <2>1, <2>3, <3>1
    <3>3. QED
      BY <1>4, <3>2
  <2>8. e.last \in i..Len(m) /\ m[e.last] \in {CR, LF}
    BY <1>2, <1>7, <2>1
  <2>9. QED
    BY <1>3, <2>1, <2>2, <2>4, <2>5, <2>6, <2>7, <2>8
<1>8. QED
  BY <1>0, <1>2, <1>5, <1>6, <1>7

LEMMA LineWritesAre ==
  ASSUME NEW m \in Seq(Byte), NEW i \in 1..Len(m), LineStart(m, i),
         NEW e, e = LineEnd(m, i), NEW z, z = PlainTo(m, i, e)
  PROVE  /\ z \in (i - 1)..Len(m) /\ SubSeq(m, i, z) \in Seq(Byte)
         /\ LineWrites(m, i) \in Parts
         /\ FlattenSeq(LineWrites(m, i)) =
              IF e.fix_eol THEN SubSeq(m, i, z) \o CRLF ELSE SubSeq(m, i, z)
         /\ Len(FlattenSeq(LineWrites(m, i)))
              = e.last - i + 1 + (IF e.fix_eol THEN 1 ELSE 0)
<1>0. Len(m) \in Nat /\ \A j \in 1..Len(m) : m[j] \in Byte
  BY LenProperties, ElementOfSeq
<1>1. e.last \in i..Len(m) /\ e.fix_eol \in BOOLEAN
  BY LinePieces
<1>2. z = IF e.fix_eol THEN e.last - 1 ELSE e.last
  BY DEF PlainTo
<1>3. z \in (i - 1)..Len(m) /\ z \in Int /\ i \in Int
  BY <1>0, <1>1, <1>2
<1>4. SubSeq(m, i, z) \in Seq(Byte) /\ Len(SubSeq(m, i, z)) = z - i + 1
  <2>1. \A j \in i..z : m[j] \in Byte
    BY <1>0, <1>3
  <2>2. /\ SubSeq(m, i, z) \in Seq(Byte)
        /\ Len(SubSeq(m, i, z)) = IF i <= z THEN z - i + 1 ELSE 0
    BY <1>3, <2>1, SubSeqProperties
  <2>3. (IF i <= z THEN z - i + 1 ELSE 0) = z - i + 1
    BY <1>0, <1>3
  <2>4. QED
    BY <2>2, <2>3
<1>5. CASE e.fix_eol
  <2>1. LineWrites(m, i) = <<SubSeq(m, i, z), CRLF>>
    BY <1>2, <1>5 DEF LineWrites
  <2>2. /\ LineWrites(m, i) \in Parts
        /\ FlattenSeq(LineWrites(m, i)) = SubSeq(m, i, z) \o CRLF
    BY <1>4, <2>1, FlatTwo, Marks
  <2>3. Len(SubSeq(m, i, z) \o CRLF) = (z - i + 1) + 2
    BY <1>4, Concat, Marks
  <2>4. (z - i + 1) + 2 = e.last - i + 1 + 1
    BY <1>0, <1>1, <1>2, <1>5
  <2>5. QED
    BY <1>3, <1>4, <1>5, <2>2, <2>3, <2>4
<1>6. CASE ~e.fix_eol
  <2>1. LineWrites(m, i) = <<SubSeq(m, i, z)>>
    BY <1>2, <1>6 DEF LineWrites
  <2>2. LineWrites(m, i) \in Parts /\ FlattenSeq(LineWrites(m, i)) = SubSeq(m, i, z)
    BY <1>4, <2>1, FlatOne
  <2>3. z - i + 1 = e.last - i + 1 + 0
    BY <1>0, <1>1, <1>2, <1>6
  <2>4. QED
    BY <1>3, <1>4, <1>6, <2>2, <2>3
<1>7. QED
  BY <1>5, <1>6

LEMMA LineSent ==
  ASSUME NEW m \in Seq(Byte), NEW q \in BOOLEAN, NEW i \in 1..Len(m), LineStart(m, i),
         NEW e, e = LineEnd(m, i)
  PROVE  /\ Quote(m, i, q) \in Parts /\ LineWrites(m, i) \in Parts
         /\ Upto(m, q, e.last)
              = Upto(m, q, i - 1)
                  \o (FlattenSeq(Quote(m, i, q)) \o FlattenSeq(LineWrites(m, i)))
<1>0. Len(m) \in Nat
  BY LenProperties
<1>1. PICK z : z = PlainTo(m, i, e)
  OBVIOUS
<1>2. /\ e.last \in i..Len(m) /\ e.fix_eol \in BOOLEAN
      /\ e.fix_eol => Piece(m, q, e.last) = CRLF
      /\ \A j \in (i + 1)..z : Piece(m, q, j) = <<m[j]>>
      /\ i <= z => Piece(m, q, i) = IF q /\ m[i] = Dot THEN <<Dot, Dot>> ELSE <<m[i]>>
      /\ m[i] = Dot => i <= z
  BY <1>1, LinePieces
<1>3. /\ z \in (i - 1)..Len(m) /\ SubSeq(m, i, z) \in Seq(Byte)
      /\ LineWrites(m, i) \in Parts
      /\ FlattenSeq(LineWrites(m, i)) =
           IF e.fix_eol THEN SubSeq(m, i, z) \o CRLF ELSE SubSeq(m, i, z)
  BY <1>1, LineWritesAre
<1>4. PICK w, u, d : /\ w = SubSeq(m, i, z) /\ u = Upto(m, q, i - 1)
                     /\ d = FlattenSeq(Quote(m, i, q))
  OBVIOUS
<1>5. w \in Seq(Byte) /\ u \in Seq(Byte)
  <2>1. i - 1 \in 0..Len(m)
    BY <1>0
  <2>2. QED
    BY <1>3, <1>4, <2>1, UptoIs
<1>6. Quote(m, i, q) \in Parts /\ d = IF q /\ m[i] = Dot THEN <<Dot>> ELSE <<>>
  <2>1. <<Dot>> \in Seq(Byte)
    BY Marks
  <2>2. /\ <<<<Dot>>>> \in Parts /\ FlattenSeq(<<<<Dot>>>>) = <<Dot>>
        /\ <<>> \in Parts /\ FlattenSeq(<<>>) = <<>>
    BY <2>1, FlatOne, FlatEmpty
  <2>3. QED
    BY <1>4, <2>2 DEF Quote
<1>7. d \in Seq(Byte)
  BY <1>6, Marks, Empty
<1>8. Upto(m, q, z) = u \o (d \o w)
  <2>1. CASE q /\ m[i] = Dot
    <3>1. d = <<Dot>> /\ <<Dot>> \in Seq(Byte) /\ <<Dot, Dot>> = <<Dot>> \o <<Dot>>
      BY <1>6, <2>1, Marks
    <3>2. /\ i <= z /\ i \in 0..Len(m) /\ z \in i..Len(m) /\ i \in 1..Len(m)
      BY <1>0, <1>2, <1>3, <2>1
    <3>3. Upto(m, q, i) = u \o (<<Dot>> \o <<Dot>>)
      <4>1. Upto(m, q, i) = Upto(m, q, i - 1) \o Piece(m, q, i)
        BY UptoIs
      <4>2. Piece(m, q, i) = <<Dot, Dot>>
        BY <1>2, <2>1, <3>2
      <4>3. QED
        BY <1>4, <3>1, <4>1, <4>2
    <3>4. PICK r : r = SubSeq(m, i + 1, z)
      OBVIOUS
    <3>5. r \in Seq(Byte) /\ Upto(m, q, z) = Upto(m, q, i) \o r
      BY <1>2, <3>2, <3>4, UptoRun
    <3>6. w = <<Dot>> \o r
      <4>1. SubSeq(m, i, z) = <<m[i]>> \o SubSeq(m, i + 1, z)
        BY <3>2, SubSeqRecursiveFirst
      <4>2. QED
        BY <1>4, <2>1, <3>4, <4>1
    <3>7. <<Dot>> \o <<Dot>> \in Seq(Byte) /\ <<Dot>> \o r \in Seq(Byte)
      BY <3>1, <3>5, Concat
    <3>8. (u \o (<<Dot>> \o <<Dot>>)) \o r = u \o ((<<Dot>> \o <<Dot>>) \o r)
      BY <1>5, <3>5, <3>7, Assoc
    <3>9. (<<Dot>> \o <<Dot>>) \o r = <<Dot>> \o (<<Dot>> \o r)
      BY <3>1, <3>5, Assoc
    <3>10. QED
      BY <3>1, <3>3, <3>5, <3>6, <3>8, <3>9
  <2>2. CASE ~(q /\ m[i] = Dot)
    <3>1. d = <<>> /\ d \o w = w
      BY <1>5, <1>6, <2>2, Empty
    <3>2. i - 1 \in 0..Len(m) /\ z \in (i - 1)..Len(m) /\ (i - 1) + 1 = i
      BY <1>0, <1>3
    <3>3. \A j \in ((i - 1) + 1)..z : Piece(m, q, j) = <<m[j]>>
      <4>1. SUFFICES ASSUME NEW j \in i..z PROVE Piece(m, q, j) = <<m[j]>>
        BY <3>2
      <4>2. CASE j = i
        <5>1. i <= z
          BY <1>0, <1>3, <4>2
        <5>2. QED
          BY <1>2, <2>2, <4>2, <5>1
      <4>3. CASE j # i
        <5>1. j \in (i + 1)..z
          BY <1>0, <1>3, <4>3
        <5>2. QED
          BY <1>2, <5>1
      <4>4. QED
        BY <4>2, <4>3
    <3>4. Upto(m, q, z) = Upto(m, q, i - 1) \o SubSeq(m, (i - 1) + 1, z)
      BY <3>2, <3>3, UptoRun
    <3>5. QED
      BY <1>4, <3>1, <3>2, <3>4
  <2>3. QED
    BY <2>1, <2>2
<1>9. Upto(m, q, e.last) = u \o (d \o FlattenSeq(LineWrites(m, i)))
  <2>1. CASE e.fix_eol
    <3>1. z = e.last - 1 /\ e.last \in 1..Len(m)
      BY <1>0, <1>1, <1>2, <2>1 DEF PlainTo
    <3>2. Upto(m, q, e.last) = Upto(m, q, z) \o CRLF
      BY <1>2, <2>1, <3>1, UptoIs
    <3>3. CRLF \in Seq(Byte) /\ d \o w \in Seq(Byte)
      BY <1>5, <1>7, Concat, Marks
    <3>4. (u \o (d \o w)) \o CRLF = u \o ((d \o w) \o CRLF)
      BY <1>5, <3>3, Assoc
    <3>5. (d \o w) \o CRLF = d \o (w \o CRLF)
      BY <1>5, <1>7, <3>3, Assoc
    <3>6. FlattenSeq(LineWrites(m, i)) = w \o CRLF
      BY <1>3, <1>4, <2>1
    <3>7. QED
      BY <1>8, <3>2, <3>4, <3>5, <3>6
  <2>2. CASE ~e.fix_eol
    <3>1. z = e.last
      BY <1>1, <2>2 DEF PlainTo
    <3>2. FlattenSeq(LineWrites(m, i)) = w
      BY <1>3, <1>4, <2>2
    <3>3. QED
      BY <1>8, <3>1, <3>2
  <2>3. QED
    BY <2>1, <2>2
<1>10. QED
  BY <1>3, <1>4, <1>6, <1>9

-----------------------------------------------------------------------------
\* All the lines.

LEMMA NextLine ==
  ASSUME NEW m \in Seq(Byte), NEW i \in 1..Len(m)
  PROVE  LineEnd(m, i).last + 1 \in (i + 1)..(Len(m) + 1)
<1>0. Len(m) \in Nat
  BY LenProperties
<1>1. PICK x : /\ Break(m, i, x)
               /\ LineEnd(m, i) =
                    IF x > Len(m) THEN [last |-> Len(m), fix_eol |-> FALSE]
                    ELSE IF m[x] = CR /\ x < Len(m) /\ m[x + 1] = LF
                         THEN [last |-> x + 1, fix_eol |-> FALSE]
                         ELSE [last |-> x, fix_eol |-> TRUE]
  BY LineEndIs
<1>2. LineEnd(m, i).last \in {Len(m), x + 1, x}
  BY <1>1
<1>3. QED
  BY <1>0, <1>1 DEF Break

\* A turn of the loop that sends the lines.
SendTurn(m, q, x, i) == Quote(m, i, q) \o LineWrites(m, i) \o x

\* A turn of the loop that counts the bytes.
SizeTurn(m, x, i) ==
  LET e == LineEnd(m, i) IN e.last - i + 1 + (IF e.fix_eol THEN 1 ELSE 0) + x

\* The recursion of TextWrites has a solution, which TextWrites evaluates.
LEMMA TextLoop ==
  ASSUME NEW m \in Seq(Byte), NEW q
  PROVE  \E g : /\ TextWrites(m, q) = g[1]
                /\ \A i \in 1..(Len(m) + 1) :
                     g[i] = IF i > Len(m) THEN <<>>
                            ELSE SendTurn(m, q, g[LineEnd(m, i).last + 1], i)
<1> DEFINE L == Len(m) + 1
           Turn(x, i) == SendTurn(m, q, x, i)
           IsLoop(g, n) ==
             g = [i \in n..L |-> IF i > Len(m) THEN <<>>
                                 ELSE Turn(g[LineEnd(m, i).last + 1], i)]
           T == {n \in Nat : n < L => \E g : IsLoop(g, L - n)}
<1> HIDE DEF Turn
<1>0. Len(m) \in Nat
  BY LenProperties
<1>1. 0 \in T
  <2>1. PICK g : g = [i \in L..L |-> <<>>]
    OBVIOUS
  <2>2. IsLoop(g, L - 0)
    BY <1>0, <2>1
  <2>3. QED
    BY <2>2
<1>2. ASSUME NEW n \in Nat, n \in T PROVE n + 1 \in T
  <2>1. SUFFICES ASSUME n + 1 < L PROVE \E g : IsLoop(g, L - (n + 1))
    OBVIOUS
  <2>2. PICK h : IsLoop(h, L - n)
    BY <1>0, <1>2, <2>1
  <2>3. PICK a : a = L - (n + 1)
    OBVIOUS
  <2>4. a \in 1..Len(m) /\ a + 1 = L - n
    BY <1>0, <2>1, <2>3
  <2>5. PICK g : g = [i \in a..L |-> IF i = a THEN Turn(h[LineEnd(m, a).last + 1], a)
                                              ELSE h[i]]
    OBVIOUS
  <2>6. ASSUME NEW i \in a..L
        PROVE  g[i] = IF i > Len(m) THEN <<>> ELSE Turn(g[LineEnd(m, i).last + 1], i)
    <3>1. CASE i = a
      <4>1. LineEnd(m, a).last + 1 \in (a + 1)..L
        BY <2>4, NextLine
      <4>2. ~(i > Len(m)) /\ LineEnd(m, a).last + 1 \in a..L /\ LineEnd(m, a).last + 1 # a
        BY <1>0, <2>4, <3>1, <4>1
      <4>3. QED
        BY <2>5, <3>1, <4>2
    <3>2. CASE i # a /\ i > Len(m)
      BY <1>0, <2>2, <2>4, <2>5, <3>2
    <3>3. CASE i # a /\ i <= Len(m)
      <4>1. i \in 1..Len(m) /\ i \in (L - n)..L /\ ~(i > Len(m))
        BY <1>0, <2>4, <3>3
      <4>2. LineEnd(m, i).last + 1 \in (i + 1)..L
        BY <4>1, NextLine
      <4>3. h[i] = Turn(h[LineEnd(m, i).last + 1], i)
        BY <2>2, <4>1
      <4>4. LineEnd(m, i).last + 1 \in a..L /\ LineEnd(m, i).last + 1 # a
        BY <1>0, <2>4, <4>1, <4>2
      <4>5. g[i] = h[i] /\ g[LineEnd(m, i).last + 1] = h[LineEnd(m, i).last + 1]
        BY <2>5, <3>3, <4>4
      <4>6. QED
        BY <4>1, <4>3, <4>5
    <3>4. QED
      BY <1>0, <2>4, <3>1, <3>2, <3>3
  <2>7. IsLoop(g, a)
    <3>1. g = [i \in a..L |-> g[i]]
      BY <2>5
    <3>2. QED
      BY <2>6, <3>1
  <2>8. QED
    BY <2>3, <2>7
<1>3. L - 1 \in Nat /\ L - 1 < L /\ L - (L - 1) = 1
  BY <1>0
<1>4. L - 1 \in T
  <2> HIDE DEF T
  <2>1. QED
    BY <1>1, <1>2, <1>3, Induction
<1>5. PICK g : g = CHOOSE h : IsLoop(h, 1)
  OBVIOUS
<1>6. IsLoop(g, 1)
  BY <1>3, <1>4, <1>5
<1>7. TextWrites(m, q) = g[1]
  BY <1>5 DEF TextWrites, SendTurn, Turn
<1>8. QED
  BY <1>6, <1>7 DEF Turn

\* The same for DataCrlfSize.
LEMMA SizeLoop ==
  ASSUME NEW m \in Seq(Byte)
  PROVE  \E g : /\ DataCrlfSize(m) = g[1]
                /\ \A i \in 1..(Len(m) + 1) :
                     g[i] = IF i > Len(m) THEN 0
                            ELSE SizeTurn(m, g[LineEnd(m, i).last + 1], i)
<1> DEFINE L == Len(m) + 1
           Turn(x, i) == SizeTurn(m, x, i)
           IsLoop(g, n) ==
             g = [i \in n..L |-> IF i > Len(m) THEN 0
                                 ELSE Turn(g[LineEnd(m, i).last + 1], i)]
           T == {n \in Nat : n < L => \E g : IsLoop(g, L - n)}
<1> HIDE DEF Turn
<1>0. Len(m) \in Nat
  BY LenProperties
<1>1. 0 \in T
  <2>1. PICK g : g = [i \in L..L |-> 0]
    OBVIOUS
  <2>2. IsLoop(g, L - 0)
    BY <1>0, <2>1
  <2>3. QED
    BY <2>2
<1>2. ASSUME NEW n \in Nat, n \in T PROVE n + 1 \in T
  <2>1. SUFFICES ASSUME n + 1 < L PROVE \E g : IsLoop(g, L - (n + 1))
    OBVIOUS
  <2>2. PICK h : IsLoop(h, L - n)
    BY <1>0, <1>2, <2>1
  <2>3. PICK a : a = L - (n + 1)
    OBVIOUS
  <2>4. a \in 1..Len(m) /\ a + 1 = L - n
    BY <1>0, <2>1, <2>3
  <2>5. PICK g : g = [i \in a..L |-> IF i = a THEN Turn(h[LineEnd(m, a).last + 1], a)
                                              ELSE h[i]]
    OBVIOUS
  <2>6. ASSUME NEW i \in a..L
        PROVE  g[i] = IF i > Len(m) THEN 0 ELSE Turn(g[LineEnd(m, i).last + 1], i)
    <3>1. CASE i = a
      <4>1. LineEnd(m, a).last + 1 \in (a + 1)..L
        BY <2>4, NextLine
      <4>2. ~(i > Len(m)) /\ LineEnd(m, a).last + 1 \in a..L /\ LineEnd(m, a).last + 1 # a
        BY <1>0, <2>4, <3>1, <4>1
      <4>3. QED
        BY <2>5, <3>1, <4>2
    <3>2. CASE i # a /\ i > Len(m)
      BY <1>0, <2>2, <2>4, <2>5, <3>2
    <3>3. CASE i # a /\ i <= Len(m)
      <4>1. i \in 1..Len(m) /\ i \in (L - n)..L /\ ~(i > Len(m))
        BY <1>0, <2>4, <3>3
      <4>2. LineEnd(m, i).last + 1 \in (i + 1)..L
        BY <4>1, NextLine
      <4>3. h[i] = Turn(h[LineEnd(m, i).last + 1], i)
        BY <2>2, <4>1
      <4>4. LineEnd(m, i).last + 1 \in a..L /\ LineEnd(m, i).last + 1 # a
        BY <1>0, <2>4, <4>1, <4>2
      <4>5. g[i] = h[i] /\ g[LineEnd(m, i).last + 1] = h[LineEnd(m, i).last + 1]
        BY <2>5, <3>3, <4>4
      <4>6. QED
        BY <4>1, <4>3, <4>5
    <3>4. QED
      BY <1>0, <2>4, <3>1, <3>2, <3>3
  <2>7. IsLoop(g, a)
    <3>1. g = [i \in a..L |-> g[i]]
      BY <2>5
    <3>2. QED
      BY <2>6, <3>1
  <2>8. QED
    BY <2>3, <2>7
<1>3. L - 1 \in Nat /\ L - 1 < L /\ L - (L - 1) = 1
  BY <1>0
<1>4. L - 1 \in T
  <2> HIDE DEF T
  <2>1. QED
    BY <1>1, <1>2, <1>3, Induction
<1>5. PICK g : g = CHOOSE h : IsLoop(h, 1)
  OBVIOUS
<1>6. IsLoop(g, 1)
  BY <1>3, <1>4, <1>5
<1>7. DataCrlfSize(m) = g[1]
  BY <1>5 DEF DataCrlfSize, SizeTurn, Turn
<1>8. QED
  BY <1>6, <1>7 DEF Turn

\* What the writes for the lines carry is the text, byte by byte.
LEMMA TextSent ==
  ASSUME NEW m \in Seq(Byte), NEW q \in BOOLEAN
  PROVE  /\ TextWrites(m, q) \in Parts
         /\ FlattenSeq(TextWrites(m, q)) = Upto(m, q, Len(m))
<1>0. Len(m) \in Nat
  BY LenProperties
<1>1. PICK g : /\ TextWrites(m, q) = g[1]
               /\ \A i \in 1..(Len(m) + 1) :
                    g[i] = IF i > Len(m) THEN <<>>
                           ELSE SendTurn(m, q, g[LineEnd(m, i).last + 1], i)
  BY TextLoop
<1> DEFINE L == Len(m) + 1
           Carries(i) == /\ g[i] \in Parts
                       /\ Upto(m, q, Len(m)) = Upto(m, q, i - 1) \o FlattenSeq(g[i])
           T == {n \in Nat : \A i \in 1..L :
                   L - i <= n /\ (i <= Len(m) => LineStart(m, i)) => Carries(i)}
<1>2. Carries(L)
  <2>1. L \in 1..L /\ L > Len(m) /\ L - 1 = Len(m) /\ Len(m) \in 0..Len(m)
    BY <1>0
  <2>2. g[L] = <<>>
    BY <1>1, <2>1
  <2>3. Upto(m, q, Len(m)) \in Seq(Byte)
    BY <2>1, UptoIs
  <2>4. Upto(m, q, Len(m)) = Upto(m, q, Len(m)) \o <<>>
    BY <2>3, Empty
  <2>5. QED
    BY <2>1, <2>2, <2>4, FlatEmpty
<1>3. 0 \in T
  <2>1. \A i \in 1..L : L - i <= 0 => i = L
    BY <1>0
  <2> HIDE DEF Carries
  <2>2. QED
    BY <1>2, <2>1
<1>4. ASSUME NEW n \in Nat, n \in T PROVE n + 1 \in T
  <2>1. SUFFICES ASSUME NEW i \in 1..L, L - i <= n + 1, i <= Len(m) => LineStart(m, i)
                 PROVE  Carries(i)
    <3> HIDE DEF Carries
    <3>1. QED
      OBVIOUS
  <2>2. CASE i = L
    BY <1>2, <2>2
  <2>3. CASE i # L
    <3>1. i \in 1..Len(m) /\ LineStart(m, i) /\ ~(i > Len(m)) /\ i - 1 \in 0..Len(m)
      BY <1>0, <2>1, <2>3
    <3>2. PICK e : e = LineEnd(m, i)
      OBVIOUS
    <3>3. PICK k : k = e.last + 1
      OBVIOUS
    <3>4. e.last \in i..Len(m) /\ (e.last < Len(m) => LineStart(m, e.last + 1))
      BY <3>1, <3>2, LinePieces
    <3>5. k \in 1..L /\ L - k <= n /\ (k <= Len(m) => LineStart(m, k)) /\ k - 1 = e.last
      BY <1>0, <2>1, <3>1, <3>3, <3>4
    <3>6. Carries(k)
      <4> HIDE DEF Carries
      <4>1. QED
        BY <1>4, <3>5
    <3>7. g[i] = Quote(m, i, q) \o LineWrites(m, i) \o g[k]
      BY <1>1, <3>1, <3>2, <3>3 DEF SendTurn
    <3>8. /\ Quote(m, i, q) \in Parts /\ LineWrites(m, i) \in Parts
          /\ Upto(m, q, e.last)
               = Upto(m, q, i - 1)
                   \o (FlattenSeq(Quote(m, i, q)) \o FlattenSeq(LineWrites(m, i)))
      BY <3>1, <3>2, LineSent
    <3>9. PICK a, b, u : /\ a = Quote(m, i, q) \o LineWrites(m, i) /\ b = g[k]
                         /\ u = Upto(m, q, i - 1)
      OBVIOUS
    <3>10. /\ a \in Parts /\ b \in Parts /\ u \in Seq(Byte)
           /\ Upto(m, q, e.last) = u \o FlattenSeq(a)
           /\ Upto(m, q, Len(m)) = Upto(m, q, e.last) \o FlattenSeq(b)
      <4>1. a \in Parts /\ FlattenSeq(a) = FlattenSeq(Quote(m, i, q)) \o FlattenSeq(LineWrites(m, i))
        BY <3>8, <3>9, FlatConcat
      <4>2. u \in Seq(Byte)
        BY <3>1, <3>9, UptoIs
      <4>3. QED
        BY <3>5, <3>6, <3>8, <3>9, <4>1, <4>2
    <3>11. a \o b \in Parts /\ FlattenSeq(a \o b) = FlattenSeq(a) \o FlattenSeq(b)
      BY <3>10, FlatConcat
    <3>12. FlattenSeq(a) \in Seq(Byte) /\ FlattenSeq(b) \in Seq(Byte)
      BY <3>10, FlatType
    <3>13. (u \o FlattenSeq(a)) \o FlattenSeq(b) = u \o (FlattenSeq(a) \o FlattenSeq(b))
      BY <3>10, <3>12, Assoc
    <3>14. g[i] = a \o b
      BY <3>7, <3>9
    <3>15. QED
      BY <3>9, <3>10, <3>11, <3>13, <3>14
  <2>4. QED
    BY <2>2, <2>3
<1>5. Len(m) \in T
  <2> HIDE DEF T
  <2>1. QED
    BY <1>0, <1>3, <1>4, Induction
<1>6. Carries(1)
  <2>1. LineStart(m, 1) /\ 1 \in 1..L /\ L - 1 <= Len(m)
    BY <1>0 DEF LineStart
  <2> HIDE DEF Carries
  <2>2. QED
    BY <1>5, <2>1
<1>7. Upto(m, q, 1 - 1) = <<>>
  BY UptoIs
<1>8. FlattenSeq(g[1]) \in Seq(Byte)
  BY <1>6, FlatType
<1>9. QED
  BY <1>1, <1>6, <1>7, <1>8, Empty

\* mailstream_get_data_crlf_size counts what mailstream_send_data_crlf sends.
LEMMA SizeIs ==
  ASSUME NEW m \in Seq(Byte)
  PROVE  DataCrlfSize(m) \in Nat /\ DataCrlfSize(m) = Len(NormalText(m))
<1>0. Len(m) \in Nat
  BY LenProperties
<1>1. PICK g : /\ DataCrlfSize(m) = g[1]
               /\ \A i \in 1..(Len(m) + 1) :
                    g[i] = IF i > Len(m) THEN 0
                           ELSE SizeTurn(m, g[LineEnd(m, i).last + 1], i)
  BY SizeLoop
<1> DEFINE L == Len(m) + 1
           N(k) == Len(Upto(m, FALSE, k))
           Counts(i) == g[i] \in Nat /\ N(Len(m)) = N(i - 1) + g[i]
           T == {n \in Nat : \A i \in 1..L :
                   L - i <= n /\ (i <= Len(m) => LineStart(m, i)) => Counts(i)}
<1>2. ASSUME NEW k \in 0..Len(m) PROVE N(k) \in Nat
  BY UptoIs, LenProperties
<1> HIDE DEF N
<1>3. Counts(L)
  <2>1. L \in 1..L /\ L > Len(m) /\ L - 1 = Len(m) /\ Len(m) \in 0..Len(m)
    BY <1>0
  <2>2. g[L] = 0 /\ N(Len(m)) \in Nat
    BY <1>1, <1>2, <2>1
  <2>3. QED
    BY <2>1, <2>2
<1>4. 0 \in T
  <2>1. \A i \in 1..L : L - i <= 0 => i = L
    BY <1>0
  <2> HIDE DEF Counts
  <2>2. QED
    BY <1>3, <2>1
<1>5. ASSUME NEW n \in Nat, n \in T PROVE n + 1 \in T
  <2>1. SUFFICES ASSUME NEW i \in 1..L, L - i <= n + 1, i <= Len(m) => LineStart(m, i)
                 PROVE  Counts(i)
    <3> HIDE DEF Counts
    <3>1. QED
      OBVIOUS
  <2>2. CASE i = L
    BY <1>3, <2>2
  <2>3. CASE i # L
    <3>1. i \in 1..Len(m) /\ LineStart(m, i) /\ ~(i > Len(m)) /\ i - 1 \in 0..Len(m)
      BY <1>0, <2>1, <2>3
    <3>2. PICK e : e = LineEnd(m, i)
      OBVIOUS
    <3>3. PICK k : k = e.last + 1
      OBVIOUS
    <3>4. /\ e.last \in i..Len(m) /\ (e.last < Len(m) => LineStart(m, e.last + 1))
          /\ e.fix_eol \in BOOLEAN
      BY <3>1, <3>2, LinePieces
    <3>5. /\ k \in 1..L /\ L - k <= n /\ (k <= Len(m) => LineStart(m, k))
          /\ k - 1 = e.last /\ e.last \in 0..Len(m)
      BY <1>0, <2>1, <3>1, <3>3, <3>4
    <3>6. Counts(k)
      <4> HIDE DEF Counts
      <4>1. QED
        BY <1>5, <3>5
    <3>7. PICK s : s = e.last - i + 1 + (IF e.fix_eol THEN 1 ELSE 0)
      OBVIOUS
    <3>8. g[i] = s + g[k] /\ s \in Nat
      BY <1>0, <1>1, <3>1, <3>2, <3>3, <3>4, <3>7 DEF SizeTurn
    <3>9. N(e.last) = N(i - 1) + s
      <4>1. PICK w, u : w = FlattenSeq(LineWrites(m, i)) /\ u = Upto(m, FALSE, i - 1)
        OBVIOUS
      <4>2. /\ LineWrites(m, i) \in Parts
            /\ Upto(m, FALSE, e.last)
                 = Upto(m, FALSE, i - 1)
                     \o (FlattenSeq(Quote(m, i, FALSE)) \o FlattenSeq(LineWrites(m, i)))
        BY <3>1, <3>2, LineSent
      <4>3. FlattenSeq(Quote(m, i, FALSE)) = <<>>
        BY FlatEmpty DEF Quote
      <4>4. w \in Seq(Byte) /\ u \in Seq(Byte)
        BY <3>1, <4>1, <4>2, FlatType, UptoIs
      <4>5. Len(w) = s
        BY <3>1, <3>2, <3>7, <4>1, LineWritesAre
      <4>6. Upto(m, FALSE, e.last) = u \o w
        BY <4>1, <4>2, <4>3, <4>4, Empty
      <4>7. Len(u \o w) = Len(u) + Len(w)
        BY <4>4, Concat
      <4>8. QED
        BY <4>1, <4>5, <4>6, <4>7 DEF N
    <3>10. N(i - 1) \in Nat /\ N(e.last) \in Nat
      BY <1>2, <3>1, <3>5
    <3>11. QED
      BY <3>5, <3>6, <3>8, <3>9, <3>10, SMTT(30)
  <2>4. QED
    BY <2>2, <2>3
<1>6. Len(m) \in T
  <2> HIDE DEF T
  <2>1. QED
    BY <1>0, <1>4, <1>5, Induction
<1>7. Counts(1)
  <2>1. LineStart(m, 1) /\ 1 \in 1..L /\ L - 1 <= Len(m)
    BY <1>0 DEF LineStart
  <2> HIDE DEF Counts
  <2>2. QED
    BY <1>6, <2>1
<1>8. N(1 - 1) = 0
  <2>1. Upto(m, FALSE, 0) = <<>>
    BY UptoIs
  <2>2. Len(<<>>) = 0
    BY Empty
  <2>3. 1 - 1 = 0
    OBVIOUS
  <2>4. QED
    BY <2>1, <2>2, <2>3 DEF N
<1>9. Len(NormalText(m)) = N(Len(m))
  BY UptoAll DEF N
<1>10. QED
  BY <1>1, <1>7, <1>8, <1>9

-----------------------------------------------------------------------------
\* mailstream_read_multiline, byte by byte.

State(r, l, t) == [rst |-> r, line |-> l, read |-> t]

\* The line l is complete, t is the text before it.
LineDone(t, l) ==
  LET str == CString(RemoveTrailingEol(l)) IN
  IF IsEndMultiline(str) THEN State("ok", <<>>, t)
                         ELSE State("reading", <<>>, t \o Unquote(str) \o CRLF)

Eaten(s, b) ==
  IF s.rst # "reading" THEN s
  ELSE IF b # LF THEN State("reading", s.line \o <<b>>, s.read)
  ELSE LineDone(s.read, s.line \o <<b>>)

\* d[k] is what the reader has after k bytes of w.
Decodes(w, d) ==
  /\ d[0] = State("reading", <<>>, <<>>)
  /\ \A k \in 1..Len(w) : d[k] = Eaten(d[k - 1], w[k])

LEMMA DecodingExists ==
  ASSUME NEW w \in Seq(Byte)
  PROVE  \E d : Decodes(w, d)
<1> DEFINE base == State("reading", <<>>, <<>>)
           Turn(s, b) == Eaten(s, b)
           T == {n \in Nat : \E d : /\ d[0] = base
                                    /\ \A k \in 1..n : d[k] = Turn(d[k - 1], w[k])}
<1> HIDE DEF base, Turn
<1>1. 0 \in T
  <2>1. PICK d : d = [k \in 0..0 |-> base]
    OBVIOUS
  <2>2. d[0] = base /\ \A k \in 1..0 : d[k] = Turn(d[k - 1], w[k])
    BY <2>1
  <2>3. QED
    BY <2>2
<1>2. ASSUME NEW n \in Nat, n \in T PROVE n + 1 \in T
  <2>1. PICK c : c[0] = base /\ \A k \in 1..n : c[k] = Turn(c[k - 1], w[k])
    BY <1>2
  <2>2. PICK d : d = [k \in 0..(n + 1) |->
                        IF k = n + 1 THEN Turn(c[n], w[n + 1]) ELSE c[k]]
    OBVIOUS
  <2>3. d[0] = base
    BY <2>1, <2>2
  <2>4. ASSUME NEW k \in 1..(n + 1) PROVE d[k] = Turn(d[k - 1], w[k])
    <3>1. k - 1 \in 0..(n + 1) /\ k - 1 # n + 1
      OBVIOUS
    <3>2. d[k - 1] = c[k - 1]
      BY <2>2, <3>1
    <3>3. CASE k = n + 1
      BY <2>2, <3>2, <3>3
    <3>4. CASE k # n + 1
      <4>1. k \in 1..n /\ k \in 0..(n + 1)
        BY <3>4
      <4>2. QED
        BY <2>1, <2>2, <3>2, <3>4, <4>1
    <3>5. QED
      BY <3>3, <3>4
  <2>5. QED
    BY <2>3, <2>4
<1>3. Len(w) \in T
  <2> HIDE DEF T
  <2>1. QED
    BY <1>1, <1>2, Induction, LenProperties
<1>4. QED
  BY <1>3 DEF Decodes, base, Turn

\* A sequence and one byte more.
LEMMA OneMore ==
  ASSUME NEW f \in Seq(Byte), NEW b \in Byte
  PROVE  /\ f \o <<b>> \in Seq(Byte) /\ f \o <<b>> # <<>>
         /\ Len(f) \in Nat /\ Len(f \o <<b>>) = Len(f) + 1
         /\ \A x \in 1..Len(f) : (f \o <<b>>)[x] = f[x]
         /\ (f \o <<b>>)[Len(f) + 1] = b
<1>0. <<b>> \in Seq(Byte) /\ Len(<<b>>) = 1 /\ <<b>>[1] = b /\ Len(f) \in Nat
  BY LenProperties
<1>1. PICK v : v = f \o <<b>>
  OBVIOUS
<1>2. /\ v \in Seq(Byte) /\ Len(v) = Len(f) + Len(<<b>>)
      /\ \A i \in 1..(Len(f) + Len(<<b>>)) :
          v[i] = IF i <= Len(f) THEN f[i] ELSE <<b>>[i - Len(f)]
  BY <1>0, <1>1, ConcatProperties, Zenon
<1>3. Len(v) = Len(f) + 1 /\ v[Len(f) + 1] = b
  BY <1>0, <1>2
<1>4. v # <<>>
  BY <1>0, <1>3, EmptySeq
<1>5. \A x \in 1..Len(f) : v[x] = f[x]
  BY <1>0, <1>2
<1>6. QED
  BY <1>0, <1>1, <1>2, <1>3, <1>4, <1>5

\* w begins with the bytes of v.
Begins(v, w) ==
  /\ v \in Seq(Byte) /\ w \in Seq(Byte) /\ Len(v) <= Len(w)
  /\ \A i \in 1..Len(v) : w[i] = v[i]

LEMMA BeginsSelf ==
  ASSUME NEW v \in Seq(Byte)
  PROVE  Begins(v, v)
BY LenProperties DEF Begins

LEMMA BeginsConcat ==
  ASSUME NEW v \in Seq(Byte), NEW r \in Seq(Byte)
  PROVE  Begins(v, v \o r)
<1>1. PICK w : w = v \o r
  OBVIOUS
<1>2. /\ w \in Seq(Byte) /\ Len(w) = Len(v) + Len(r)
      /\ \A i \in 1..(Len(v) + Len(r)) :
           w[i] = IF i <= Len(v) THEN v[i] ELSE r[i - Len(v)]
  BY <1>1, ConcatProperties, Zenon
<1>3. Len(v) \in Nat /\ Len(r) \in Nat
  BY LenProperties
<1>4. Begins(v, w)
  BY <1>2, <1>3 DEF Begins
<1>5. QED
  BY <1>1, <1>4

LEMMA BeginsTrans ==
  ASSUME NEW u, NEW v, NEW w, Begins(u, v), Begins(v, w)
  PROVE  Begins(u, w)
<1>1. Len(u) \in Nat /\ Len(v) \in Nat /\ Len(w) \in Nat
  BY LenProperties DEF Begins
<1>2. QED
  BY <1>1 DEF Begins

LEMMA BeginsShorter ==
  ASSUME NEW u, NEW v, NEW w, Begins(u, w), Begins(v, w), Len(u) <= Len(v)
  PROVE  Begins(u, v)
<1>1. Len(u) \in Nat /\ Len(v) \in Nat /\ Len(w) \in Nat
  BY LenProperties DEF Begins
<1>2. QED
  BY <1>1 DEF Begins

LEMMA BeginsSame ==
  ASSUME NEW u, NEW w, Begins(u, w), Len(u) = Len(w)
  PROVE  u = w
BY SeqEqual DEF Begins

\* v has the byte b after the bytes of u.
Adds(v, u, b) == u \in Seq(Byte) /\ b \in Byte /\ v = u \o <<b>>

LEMMA EatOne ==
  ASSUME NEW w, NEW d, Decodes(w, d),
         NEW u, NEW b, NEW v, Adds(v, u, b), Begins(v, w)
  PROVE  d[Len(v)] = Eaten(d[Len(u)], b)
<1>1. Len(u) \in Nat /\ Len(v) = Len(u) + 1 /\ v[Len(u) + 1] = b
  BY OneMore DEF Adds
<1>2. Len(w) \in Nat /\ Len(v) <= Len(w) /\ Len(v) \in 1..Len(v)
  BY <1>1, LenProperties DEF Begins
<1>3. Len(v) \in 1..Len(w) /\ Len(v) - 1 = Len(u)
  BY <1>1, <1>2
<1>4. w[Len(v)] = b
  BY <1>1, <1>2 DEF Begins
<1>5. QED
  BY <1>3, <1>4 DEF Decodes

LEMMA AddsBegins ==
  ASSUME NEW u, NEW b, NEW v, Adds(v, u, b)
  PROVE  u \in Seq(Byte) /\ v \in Seq(Byte) /\ Begins(u, v)
<1>1. <<b>> \in Seq(Byte)
  BY DEF Adds
<1>2. QED
  BY <1>1, BeginsConcat, OneMore DEF Adds

\* Two bytes more.
LEMMA AddsTwo ==
  ASSUME NEW u \in Seq(Byte), NEW a \in Byte, NEW b \in Byte,
         NEW p, p = <<a>> \o <<b>>, NEW v, v = u \o p
  PROVE  \E x : Adds(x, u, a) /\ Adds(v, x, b)
<1>1. <<a>> \in Seq(Byte) /\ <<b>> \in Seq(Byte)
  OBVIOUS
<1>2. PICK x : x = u \o <<a>>
  OBVIOUS
<1>3. x \in Seq(Byte)
  BY <1>1, <1>2, Concat
<1>4. v = x \o <<b>>
  <2>1. (u \o <<a>>) \o <<b>> = u \o (<<a>> \o <<b>>)
    BY <1>1, Assoc
  <2>2. QED
    BY <1>2, <2>1
<1>5. QED
  BY <1>2, <1>3, <1>4 DEF Adds

LEMMA EatTwo ==
  ASSUME NEW w, NEW d, Decodes(w, d), NEW u, NEW a, NEW x, NEW b, NEW v,
         Adds(x, u, a), Adds(v, x, b), Begins(v, w)
  PROVE  d[Len(v)] = Eaten(Eaten(d[Len(u)], a), b)
<1>1. Begins(x, w)
  BY AddsBegins, BeginsTrans
<1>2. d[Len(x)] = Eaten(d[Len(u)], a)
  BY <1>1, EatOne
<1>3. d[Len(v)] = Eaten(d[Len(x)], b)
  BY EatOne
<1>4. QED
  BY <1>2, <1>3

LEMMA EatPlain ==
  ASSUME NEW l, NEW t, NEW b, b # LF
  PROVE  Eaten(State("reading", l, t), b) = State("reading", l \o <<b>>, t)
BY DEF Eaten, State

-----------------------------------------------------------------------------
\* The strings of a line.

NoNul(l) == \A x \in 1..Len(l) : l[x] # Nul

LEMMA WithoutLastIs ==
  ASSUME NEW f \in Seq(Byte), NEW b \in Byte
  PROVE  WithoutLast(f \o <<b>>, b) = f
<1>1. PICK v : v = f \o <<b>>
  OBVIOUS
<1>2. /\ v \in Seq(Byte) /\ v # <<>> /\ Len(f) \in Nat /\ Len(v) = Len(f) + 1
      /\ (\A x \in 1..Len(f) : v[x] = f[x]) /\ v[Len(f) + 1] = b
  BY <1>1, OneMore
<1>3. Len(v) - 1 = Len(f)
  BY <1>2
<1>4. WithoutLast(v, b) = SubSeq(v, 1, Len(f))
  BY <1>2, <1>3 DEF WithoutLast, Last, Front
<1>5. <<b>> \in Seq(Byte)
  OBVIOUS
<1>6. SubSeq(v, 1, Len(f)) = f
  BY <1>1, <1>5, PrefixOfConcat
<1>7. QED
  BY <1>1, <1>4, <1>6

LEMMA WithoutLastType ==
  ASSUME NEW l \in Seq(Byte), NEW b
  PROVE  WithoutLast(l, b) \in Seq(Byte)
<1>1. CASE l # <<>>
  <2>1. Len(l) \in Nat \ {0} /\ \A j \in 1..Len(l) : l[j] \in Byte
    BY <1>1, EmptySeq, ElementOfSeq
  <2>2. 1 \in Int /\ Len(l) - 1 \in Int /\ \A j \in 1..(Len(l) - 1) : l[j] \in Byte
    BY <2>1
  <2>3. Front(l) \in Seq(Byte)
    BY <2>2, SubSeqProperties DEF Front
  <2>4. QED
    BY <2>3 DEF WithoutLast
<1>2. CASE l = <<>>
  BY <1>2 DEF WithoutLast
<1>3. QED
  BY <1>1, <1>2

LEMMA CStringIs ==
  ASSUME NEW l \in Seq(Byte)
  PROVE  CString(l) \in Seq(Byte) /\ (NoNul(l) => CString(l) = l)
<1> DEFINE Z == {j \in 1..Len(l) : l[j] = Nul} \cup {Len(l) + 1}
<1>0. Len(l) \in Nat /\ \A j \in 1..Len(l) : l[j] \in Byte
  BY LenProperties, ElementOfSeq
<1>1. Z \in SUBSET Nat /\ Z # {}
  BY <1>0
<1>2. Min(Z) \in Z
  BY <1>1, MinIsLeast
<1>3. CString(l) = SubSeq(l, 1, Min(Z) - 1)
  BY DEF CString
<1>4. Min(Z) - 1 \in 0..Len(l)
  BY <1>0, <1>2
<1>5. CString(l) \in Seq(Byte)
  <2>1. PICK n : n = Min(Z) - 1
    OBVIOUS
  <2>2. n \in 0..Len(l) /\ CString(l) = SubSeq(l, 1, n)
    BY <1>3, <1>4, <2>1
  <2>3. 1 \in Int /\ n \in Int /\ \A j \in 1..n : l[j] \in Byte
    BY <1>0, <2>2
  <2>4. QED
    BY <2>2, <2>3, SubSeqProperties
<1>6. ASSUME NoNul(l) PROVE CString(l) = l
  <2>1. Z = {Len(l) + 1}
    BY <1>6 DEF NoNul
  <2>2. Min(Z) - 1 = Len(l)
    BY <1>0, <1>2, <2>1
  <2>3. QED
    BY <1>3, <2>2, SubSeqFull
<1>7. QED
  BY <1>5, <1>6

LEMMA UnquoteType ==
  ASSUME NEW l \in Seq(Byte)
  PROVE  Unquote(l) \in Seq(Byte)
BY HeadTailProperties DEF Unquote

LEMMA UnquoteGrows ==
  ASSUME NEW f \in Seq(Byte), NEW b \in Byte, f # <<>> \/ b # Dot
  PROVE  Unquote(f \o <<b>>) = Unquote(f) \o <<b>>
<1>0. <<b>> \in Seq(Byte)
  OBVIOUS
<1>1. PICK v : v = f \o <<b>>
  OBVIOUS
<1>2. /\ v \in Seq(Byte) /\ v # <<>> /\ Len(f) \in Nat /\ Len(v) = Len(f) + 1
      /\ (\A x \in 1..Len(f) : v[x] = f[x]) /\ v[Len(f) + 1] = b
  BY <1>1, OneMore
<1>3. CASE f = <<>>
  <2>1. v = <<b>> /\ b # Dot
    BY <1>0, <1>1, <1>3, Empty
  <2>2. Head(v) = b
    BY <2>1
  <2>3. Unquote(v) = v /\ Unquote(f) = f
    BY <1>3, <2>1, <2>2 DEF Unquote
  <2>4. QED
    BY <1>1, <2>3
<1>4. CASE f # <<>>
  <2>1. Len(f) \in Nat \ {0}
    BY <1>4, EmptySeq
  <2>2. Head(v) = Head(f)
    <3>1. Head(v) = v[1] /\ Head(f) = f[1] /\ 1 \in 1..Len(f)
      BY <1>2, <1>4, <2>1
    <3>2. QED
      BY <1>2, <3>1
  <2>3. Tail(v) = Tail(f) \o <<b>>
    <3>1. PICK a, c, e : a = Tail(v) /\ c = Tail(f) /\ e = c \o <<b>>
      OBVIOUS
    <3>2. /\ a \in Seq(Byte) /\ Len(a) = Len(f)
          /\ \A i \in 1..Len(a) : a[i] = v[i + 1]
      <4>1. /\ a \in Seq(Byte) /\ Len(a) = Len(v) - 1
            /\ \A i \in 1..Len(a) : a[i] = v[i + 1]
        BY <1>2, <3>1, HeadTailProperties
      <4>2. Len(v) - 1 = Len(f)
        BY <1>2
      <4>3. QED
        BY <4>1, <4>2
    <3>3. /\ c \in Seq(Byte) /\ Len(c) = Len(f) - 1
          /\ \A i \in 1..Len(c) : c[i] = f[i + 1]
      BY <1>4, <3>1, HeadTailProperties
    <3>4. /\ e \in Seq(Byte) /\ Len(e) = Len(c) + 1
          /\ (\A x \in 1..Len(c) : e[x] = c[x]) /\ e[Len(c) + 1] = b
      BY <3>1, <3>3, OneMore
    <3>5. Len(e) = Len(a)
      BY <2>1, <3>2, <3>3, <3>4
    <3>6. ASSUME NEW i \in 1..Len(a) PROVE a[i] = e[i]
      <4>1. CASE i = Len(f)
        <5>1. a[i] = b
          BY <1>2, <3>2, <4>1
        <5>2. i = Len(c) + 1
          BY <2>1, <3>3, <4>1
        <5>3. QED
          BY <3>4, <5>1, <5>2
      <4>2. CASE i # Len(f)
        <5>1. i \in 1..Len(c) /\ i + 1 \in 1..Len(f)
          BY <2>1, <3>2, <3>3, <4>2
        <5>2. a[i] = f[i + 1]
          BY <1>2, <3>2, <5>1
        <5>3. e[i] = f[i + 1]
          BY <3>3, <3>4, <5>1
        <5>4. QED
          BY <5>2, <5>3
      <4>3. QED
        BY <4>1, <4>2
    <3>7. a = e
      BY <3>2, <3>4, <3>5, <3>6, SeqEqual
    <3>8. QED
      BY <3>1, <3>7
  <2>4. CASE Head(f) = Dot
    BY <1>1, <1>2, <1>4, <2>2, <2>3, <2>4 DEF Unquote
  <2>5. CASE Head(f) # Dot
    BY <1>1, <1>2, <1>4, <2>2, <2>5 DEF Unquote
  <2>6. QED
    BY <2>4, <2>5
<1>5. QED
  BY <1>3, <1>4

\* The end of a line whose line break is CR LF.
LEMMA EatBreak ==
  ASSUME NEW f \in Seq(Byte), NEW t, NoNul(f)
  PROVE  Eaten(State("reading", f \o <<CR>>, t), LF) =
           IF f = <<Dot>> THEN State("ok", <<>>, t)
                          ELSE State("reading", <<>>, t \o Unquote(f) \o CRLF)
<1>0. CR \in Byte /\ LF \in Byte
  BY Marks
<1>1. PICK v : v = f \o <<CR>>
  OBVIOUS
<1>2. v \in Seq(Byte)
  BY <1>0, <1>1, OneMore
<1>3. WithoutLast(v \o <<LF>>, LF) = v
  BY <1>0, <1>2, WithoutLastIs
<1>4. WithoutLast(v, CR) = f
  BY <1>0, <1>1, WithoutLastIs
<1>5. RemoveTrailingEol(v \o <<LF>>) = f
  BY <1>3, <1>4 DEF RemoveTrailingEol
<1>6. CString(f) = f
  BY CStringIs
<1>7. Eaten(State("reading", v, t), LF) = LineDone(t, v \o <<LF>>)
  BY DEF Eaten, State
<1>8. QED
  BY <1>1, <1>5, <1>6, <1>7 DEF LineDone, IsEndMultiline

-----------------------------------------------------------------------------
\* The reader gets back the text, whatever lines it has.

\* After the first i bytes of m, the reader has the lines before, in t, and
\* what there is of the current line, in l.
InLine(m, i, l, t) ==
  /\ l \in Seq(Byte) /\ t \in Seq(Byte) /\ NoNul(l)
  /\ Upto(m, FALSE, i) = t \o Unquote(l)
  /\ l # <<>> /\ l[1] = Dot => Len(l) >= 2 /\ l[2] = Dot
  /\ i < Len(m) => (l = <<>> <=> LineStart(m, i + 1))
  /\ i \in 1..(Len(m) - 1) /\ m[i] = CR /\ m[i + 1] = LF =>
       \E f \in Seq(Byte) : l = f \o <<CR>>

\* The line is not the single period that ends the text.
LEMMA NotTheEnd ==
  ASSUME NEW m, NEW i, NEW l, NEW t, InLine(m, i, l, t)
  PROVE  l # <<Dot>>
<1>1. SUFFICES ASSUME l = <<Dot>> PROVE FALSE
  OBVIOUS
<1>2. l # <<>> /\ l[1] = Dot /\ Len(l) = 1
  BY <1>1
<1>3. QED
  BY <1>2 DEF InLine

LEMMA NormalPiece ==
  ASSUME NEW m \in Seq(Byte), NEW k \in 1..Len(m)
  PROVE  /\ Piece(m, FALSE, k) = Normal(m, k)
         /\ Upto(m, FALSE, k) = Upto(m, FALSE, k - 1) \o Normal(m, k)
BY UptoIs DEF Piece

\* One byte more that goes to the line as it is.
LEMMA LineGrows ==
  ASSUME NEW m \in Seq(Byte), NEW i \in 0..Len(m), i < Len(m),
         NEW l, NEW t, InLine(m, i, l, t), NEW b, b = m[i + 1], b # LF, b # Nul,
         b = Dot => ~LineStart(m, i + 1),
         b = CR => i + 1 < Len(m) /\ m[i + 2] = LF,
         Normal(m, i + 1) = <<b>>
  PROVE  InLine(m, i + 1, l \o <<b>>, t)
<1>0. Len(m) \in Nat /\ i + 1 \in 1..Len(m) /\ (i + 1) - 1 = i
  BY LenProperties
<1>1. b \in Byte
  BY <1>0, ElementOfSeq
<1>2. l \in Seq(Byte) /\ t \in Seq(Byte) /\ NoNul(l)
  BY DEF InLine
<1>3. PICK v : v = l \o <<b>>
  OBVIOUS
<1>4. /\ v \in Seq(Byte) /\ v # <<>> /\ Len(l) \in Nat /\ Len(v) = Len(l) + 1
      /\ (\A x \in 1..Len(l) : v[x] = l[x]) /\ v[Len(l) + 1] = b
  BY <1>1, <1>2, <1>3, OneMore
<1>5. NoNul(v)
  <2>1. ASSUME NEW x \in 1..Len(v) PROVE v[x] # Nul
    <3>1. CASE x = Len(l) + 1
      BY <1>4, <3>1
    <3>2. CASE x # Len(l) + 1
      <4>1. x \in 1..Len(l)
        BY <1>4, <3>2
      <4>2. QED
        BY <1>2, <1>4, <4>1 DEF NoNul
    <3>3. QED
      BY <3>1, <3>2
  <2>2. QED
    BY <2>1 DEF NoNul
<1>6. l # <<>> \/ b # Dot
  BY DEF InLine
<1>7. Upto(m, FALSE, i + 1) = t \o Unquote(v)
  <2>1. Upto(m, FALSE, i + 1) = Upto(m, FALSE, i) \o <<b>>
    BY <1>0, NormalPiece
  <2>2. Upto(m, FALSE, i) = t \o Unquote(l)
    BY DEF InLine
  <2>3. Unquote(l) \in Seq(Byte) /\ <<b>> \in Seq(Byte)
    BY <1>1, <1>2, UnquoteType
  <2>4. (t \o Unquote(l)) \o <<b>> = t \o (Unquote(l) \o <<b>>)
    BY <1>2, <2>3, Assoc
  <2>5. Unquote(v) = Unquote(l) \o <<b>>
    BY <1>1, <1>2, <1>3, <1>6, UnquoteGrows
  <2>6. QED
    BY <2>1, <2>2, <2>4, <2>5
<1>8. v[1] = Dot => Len(v) >= 2 /\ v[2] = Dot
  <2>1. SUFFICES ASSUME v[1] = Dot PROVE Len(v) >= 2 /\ v[2] = Dot
    OBVIOUS
  <2>2. l # <<>>
    <3>1. SUFFICES ASSUME l = <<>> PROVE FALSE
      OBVIOUS
    <3>2. Len(l) = 0
      BY <3>1, Empty
    <3>3. v[1] = b
      BY <1>4, <3>2
    <3>4. QED
      BY <1>6, <2>1, <3>1, <3>3
  <2>3. Len(l) \in Nat \ {0}
    BY <1>2, <2>2, EmptySeq
  <2>4. l[1] = Dot
    BY <1>4, <2>1, <2>3
  <2>5. Len(l) >= 2 /\ l[2] = Dot
    BY <2>2, <2>4 DEF InLine
  <2>6. QED
    BY <1>4, <2>5
<1>9. i + 1 < Len(m) => ~LineStart(m, (i + 1) + 1)
  <2>1. (i + 1) + 1 = i + 2 /\ ((i + 1) + 1) - 1 = i + 1 /\ (i + 1) + 1 # 1
    BY <1>0
  <2>2. QED
    BY <2>1 DEF LineStart
<1>10. m[i + 1] = CR => \E f \in Seq(Byte) : v = f \o <<CR>>
  BY <1>2, <1>3
<1>11. InLine(m, i + 1, v, t)
  BY <1>2, <1>4, <1>5, <1>7, <1>8, <1>9, <1>10 DEF InLine
<1>12. QED
  BY <1>3, <1>11

\* A line break: the line is complete and not the last one.
LEMMA LineBreaks ==
  ASSUME NEW m \in Seq(Byte), NEW i \in 0..Len(m), NEW j, j \in 1..Len(m),
         NEW f \in Seq(Byte), NEW t \in Seq(Byte),
         Upto(m, FALSE, j) = (t \o Unquote(f)) \o CRLF,
         j < Len(m) => LineStart(m, j + 1),
         ~(j < Len(m) /\ m[j] = CR /\ m[j + 1] = LF)
  PROVE  InLine(m, j, <<>>, t \o Unquote(f) \o CRLF)
<1>0. Len(m) \in Nat
  BY LenProperties
<1>1. CRLF \in Seq(Byte) /\ Unquote(f) \in Seq(Byte)
  BY Marks, UnquoteType
<1>2. PICK u : u = t \o Unquote(f) \o CRLF
  OBVIOUS
<1>3. u \in Seq(Byte)
  BY <1>1, <1>2, Concat
<1>4. Unquote(<<>>) = <<>> /\ u \o <<>> = u /\ <<>> \in Seq(Byte)
  BY <1>3, Empty DEF Unquote
<1>5. NoNul(<<>>)
  BY Empty DEF NoNul
<1>6. Upto(m, FALSE, j) = u \o Unquote(<<>>)
  BY <1>2, <1>4
<1>7. ~(j \in 1..(Len(m) - 1) /\ m[j] = CR /\ m[j + 1] = LF)
  BY <1>0
<1>8. InLine(m, j, <<>>, u)
  BY <1>3, <1>4, <1>5, <1>6, <1>7 DEF InLine
<1>9. QED
  BY <1>2, <1>8

LEMMA ByteDecoded ==
  ASSUME NEW m \in Seq(Byte), NoNul(m), NEW i \in 0..Len(m), i < Len(m),
         NEW w, NEW d, Decodes(w, d), Begins(Upto(m, TRUE, i + 1), w),
         NEW l, NEW t, InLine(m, i, l, t),
         d[Len(Upto(m, TRUE, i))] = State("reading", l, t)
  PROVE  \E k, s : /\ d[Len(Upto(m, TRUE, i + 1))] = State("reading", k, s)
                   /\ InLine(m, i + 1, k, s)
<1>0. Len(m) \in Nat /\ i + 1 \in 1..Len(m) /\ (i + 1) - 1 = i
  BY LenProperties
<1>1. PICK u, b : u = Upto(m, TRUE, i) /\ b = m[i + 1]
  OBVIOUS
<1>2. u \in Seq(Byte) /\ b \in Byte /\ b # Nul
  BY <1>0, <1>1, UptoIs, ElementOfSeq DEF NoNul
<1>3. PICK v : v = Upto(m, TRUE, i + 1) /\ v = u \o Piece(m, TRUE, i + 1) /\ Begins(v, w)
  BY <1>0, <1>1, UptoIs
<1>4. l \in Seq(Byte) /\ t \in Seq(Byte) /\ NoNul(l) /\ Upto(m, FALSE, i) = t \o Unquote(l)
  BY DEF InLine
<1>5. Upto(m, FALSE, i + 1) = Upto(m, FALSE, i) \o Normal(m, i + 1)
  BY <1>0, NormalPiece
<1>6. CASE b = Dot /\ LineStart(m, i + 1)
  <2>1. Piece(m, TRUE, i + 1) = <<Dot>> \o <<Dot>> /\ Dot \in Byte /\ <<Dot>> \in Seq(Byte)
    BY <1>1, <1>6, Marks DEF Piece
  <2>2. l = <<>>
    BY <1>6 DEF InLine
  <2>3. PICK p : p = Piece(m, TRUE, i + 1)
    OBVIOUS
  <2>4. v = u \o p /\ p = <<Dot>> \o <<Dot>>
    BY <1>3, <2>1, <2>3
  <2>5. d[Len(v)] = Eaten(Eaten(d[Len(u)], Dot), Dot)
    <3>1. PICK x : Adds(x, u, Dot) /\ Adds(v, x, Dot)
      BY <1>2, <2>1, <2>4, AddsTwo
    <3>2. Begins(v, w)
      BY <1>3
    <3>3. QED
      BY <3>1, <3>2, EatTwo
  <2>6. d[Len(Upto(m, TRUE, i + 1))] = Eaten(Eaten(State("reading", l, t), Dot), Dot)
    BY <1>1, <1>3, <2>5
  <2>10. Dot # LF
    BY Marks
  <2>11. PICK k : k = <<Dot>> \o <<Dot>>
    OBVIOUS
  <2>12. d[Len(Upto(m, TRUE, i + 1))] = State("reading", k, t)
    <3>1. l \o <<Dot>> = <<Dot>>
      BY <2>1, <2>2, Empty
    <3>2. Eaten(State("reading", l, t), Dot) = State("reading", <<Dot>>, t)
      BY <2>10, <3>1, EatPlain
    <3>3. Eaten(State("reading", <<Dot>>, t), Dot) = State("reading", k, t)
      BY <2>10, <2>11, EatPlain
    <3>4. QED
      BY <2>6, <3>2, <3>3
  <2>13. /\ k \in Seq(Byte) /\ k # <<>> /\ Len(k) = 2 /\ k[1] = Dot /\ k[2] = Dot
    <3>1. Len(<<Dot>>) = 1 /\ <<Dot>>[1] = Dot
      OBVIOUS
    <3>2. /\ k \in Seq(Byte) /\ k # <<>> /\ Len(k) = Len(<<Dot>>) + 1
          /\ (\A x \in 1..Len(<<Dot>>) : k[x] = <<Dot>>[x]) /\ k[Len(<<Dot>>) + 1] = Dot
      BY <2>1, <2>11, OneMore
    <3>3. QED
      BY <3>1, <3>2
  <2>14. NoNul(k)
    <3>1. \A x \in 1..Len(k) : x = 1 \/ x = 2
      BY <2>13
    <3>2. QED
      BY <2>13, <3>1, Marks DEF NoNul
  <2>15. Normal(m, i + 1) = <<Dot>>
    BY <1>1, <1>6, Marks DEF Normal
  <2>16. Unquote(k) = <<Dot>> /\ Unquote(l) = <<>>
    <3>1. Head(k) = Dot
      BY <2>13
    <3>2. Tail(k) = <<Dot>>
      <4>1. <<Dot>> # <<>> /\ Unquote(<<Dot>>) = <<>>
        BY DEF Unquote
      <4>2. Unquote(k) = Unquote(<<Dot>>) \o <<Dot>>
        BY <2>1, <2>11, <4>1, UnquoteGrows
      <4>3. Unquote(k) = <<Dot>>
        BY <2>1, <4>1, <4>2, Empty
      <4>4. QED
        BY <2>13, <3>1, <4>3 DEF Unquote
    <3>3. QED
      BY <2>2, <2>13, <3>1, <3>2 DEF Unquote
  <2>17. Upto(m, FALSE, i + 1) = t \o Unquote(k)
    <3>1. t \o <<>> = t
      BY <1>4, Empty
    <3>2. QED
      BY <1>4, <1>5, <2>15, <2>16, <3>1
  <2>18. i + 1 < Len(m) => ~LineStart(m, (i + 1) + 1)
    <3>1. ((i + 1) + 1) - 1 = i + 1 /\ (i + 1) + 1 # 1
      BY <1>0
    <3>2. QED
      BY <1>1, <1>6, <3>1, Marks DEF LineStart
  <2>19. m[i + 1] # CR
    BY <1>1, <1>6, Marks
  <2>20. InLine(m, i + 1, k, t)
    <3>1. Len(k) >= 2
      BY <2>13
    <3>2. QED
      BY <1>4, <2>13, <2>14, <2>17, <2>18, <2>19, <3>1, Zenon DEF InLine
  <2>21. QED
    BY <2>12, <2>20
<1>7. CASE ~(b = Dot /\ LineStart(m, i + 1))
  <2>0. Piece(m, TRUE, i + 1) = Normal(m, i + 1)
    BY <1>1, <1>7 DEF Piece
  <2>1. CASE Normal(m, i + 1) # <<b>>
    <3>1. /\ Normal(m, i + 1) = CRLF
          /\ \/ b = LF
             \/ b = CR /\ (i + 1 = Len(m) \/ m[(i + 1) + 1] # LF)
      BY <1>1, <2>1 DEF Normal
    <3>2. /\ CR \in Byte /\ LF \in Byte /\ CR # LF /\ CRLF = <<CR>> \o <<LF>>
          /\ <<CR>> \in Seq(Byte) /\ <<LF>> \in Seq(Byte)
      BY Marks
    <3>3. PICK p : p = Piece(m, TRUE, i + 1)
      OBVIOUS
    <3>4. v = u \o p /\ p = <<CR>> \o <<LF>>
      BY <1>3, <2>0, <3>1, <3>2, <3>3
    <3>5. d[Len(v)] = Eaten(Eaten(d[Len(u)], CR), LF)
      <4>1. PICK x : Adds(x, u, CR) /\ Adds(v, x, LF)
        BY <1>2, <3>2, <3>4, AddsTwo
      <4>2. Begins(v, w)
        BY <1>3
      <4>3. QED
        BY <4>1, <4>2, EatTwo
    <3>6. d[Len(Upto(m, TRUE, i + 1))] = Eaten(Eaten(State("reading", l, t), CR), LF)
      BY <1>1, <1>3, <3>5
    <3>10. Eaten(State("reading", l, t), CR) = State("reading", l \o <<CR>>, t)
      BY <3>2, EatPlain
    <3>11. d[Len(Upto(m, TRUE, i + 1))] = State("reading", <<>>, t \o Unquote(l) \o CRLF)
      BY <1>4, <3>6, <3>10, EatBreak, NotTheEnd
    <3>12. i + 1 < Len(m) => LineStart(m, (i + 1) + 1)
      <4>1. ((i + 1) + 1) - 1 = i + 1
        BY <1>0
      <4>2. i + 1 < Len(m) => i + 1 # Len(m)
        BY <1>0
      <4>3. QED
        BY <1>1, <3>1, <4>1, <4>2 DEF LineStart
    <3>13. ~(i + 1 < Len(m) /\ m[i + 1] = CR /\ m[(i + 1) + 1] = LF)
      <4>1. i + 1 < Len(m) => i + 1 # Len(m)
        BY <1>0
      <4>2. QED
        BY <1>1, <3>1, <3>2, <4>1
    <3>14. Upto(m, FALSE, i + 1) = (t \o Unquote(l)) \o CRLF
      BY <1>4, <1>5, <3>1
    <3>15. InLine(m, i + 1, <<>>, t \o Unquote(l) \o CRLF)
      BY <1>0, <1>4, <3>12, <3>13, <3>14, LineBreaks
    <3>16. QED
      BY <3>11, <3>15
  <2>2. CASE Normal(m, i + 1) = <<b>> /\ b # LF
    <3>1. b = CR => i + 1 < Len(m) /\ m[i + 2] = LF
      <4>1. SUFFICES ASSUME b = CR PROVE i + 1 < Len(m) /\ m[i + 2] = LF
        OBVIOUS
      <4>2. CRLF # <<b>>
        BY BreakIsTwo
      <4>3. ~(i + 1 = Len(m) \/ m[(i + 1) + 1] # LF)
        BY <1>1, <2>2, <4>1, <4>2 DEF Normal
      <4>4. (i + 1) + 1 = i + 2
        BY <1>0
      <4>5. QED
        BY <1>0, <4>3, <4>4
    <3>2. InLine(m, i + 1, l \o <<b>>, t)
      BY <1>1, <1>2, <1>7, <2>2, <3>1, LineGrows
    <3>3. v = u \o <<b>>
      BY <1>3, <2>0, <2>2
    <3>4. d[Len(v)] = Eaten(d[Len(u)], b)
      <4>1. Adds(v, u, b)
        BY <1>2, <3>3 DEF Adds
      <4>2. Begins(v, w)
        BY <1>3
      <4>3. QED
        BY <4>1, <4>2, EatOne
    <3>5. Eaten(State("reading", l, t), b) = State("reading", l \o <<b>>, t)
      BY <2>2, EatPlain
    <3>6. QED
      BY <1>1, <1>3, <3>2, <3>4, <3>5
  <2>3. CASE Normal(m, i + 1) = <<b>> /\ b = LF
    <3>0. /\ CR \in Byte /\ LF \in Byte /\ CR # LF /\ CR # Dot /\ CRLF = <<CR>> \o <<LF>>
          /\ <<CR>> \in Seq(Byte) /\ <<LF>> \in Seq(Byte)
      BY Marks
    <3>1. i # 0 /\ m[i] = CR
      <4>1. CRLF # <<b>>
        BY BreakIsTwo
      <4>2. ~(i + 1 = 1 \/ m[(i + 1) - 1] # CR)
        BY <1>1, <2>3, <4>1 DEF Normal
      <4>3. QED
        BY <1>0, <4>2
    <3>2. PICK f \in Seq(Byte) : l = f \o <<CR>>
      <4>1. i \in 1..(Len(m) - 1) /\ m[i + 1] = LF
        BY <1>0, <1>1, <2>3, <3>1
      <4>2. QED
        BY <3>1, <4>1 DEF InLine
    <3>3. /\ Len(f) \in Nat /\ Len(l) = Len(f) + 1 /\ l # <<>>
          /\ (\A x \in 1..Len(f) : l[x] = f[x]) /\ l[Len(f) + 1] = CR
      BY <3>0, <3>2, OneMore
    <3>4. NoNul(f)
      <4>1. ASSUME NEW x \in 1..Len(f) PROVE f[x] # Nul
        <5>1. x \in 1..Len(l)
          BY <3>3
        <5>2. QED
          BY <1>4, <3>3, <5>1 DEF NoNul
      <4>2. QED
        BY <4>1 DEF NoNul
    <3>5. f # <<Dot>>
      <4>1. SUFFICES ASSUME f = <<Dot>> PROVE FALSE
        OBVIOUS
      <4>2. Len(f) = 1 /\ f[1] = Dot
        BY <4>1
      <4>3. l[1] = Dot /\ l[2] = CR
        BY <3>3, <4>2
      <4>4. QED
        BY <3>0, <3>3, <4>3 DEF InLine
    <3>6. d[Len(Upto(m, TRUE, i + 1))] = Eaten(State("reading", l, t), LF)
      <4>1. v = u \o <<LF>>
        BY <1>3, <2>0, <2>3
      <4>2. d[Len(v)] = Eaten(d[Len(u)], LF)
        <5>1. Adds(v, u, LF)
          BY <1>2, <3>0, <4>1 DEF Adds
        <5>2. Begins(v, w)
          BY <1>3
        <5>3. QED
          BY <5>1, <5>2, EatOne
      <4>3. QED
        BY <1>1, <1>3, <4>2
    <3>7. d[Len(Upto(m, TRUE, i + 1))] = State("reading", <<>>, t \o Unquote(f) \o CRLF)
      BY <3>2, <3>4, <3>5, <3>6, EatBreak
    <3>8. Upto(m, FALSE, i + 1) = (t \o Unquote(f)) \o CRLF
      <4>1. Unquote(l) = Unquote(f) \o <<CR>>
        BY <3>0, <3>2, UnquoteGrows
      <4>2. Unquote(f) \in Seq(Byte)
        BY UnquoteType
      <4>3. t \o Unquote(f) \in Seq(Byte)
        BY <1>4, <4>2, Concat
      <4>4. t \o (Unquote(f) \o <<CR>>) = (t \o Unquote(f)) \o <<CR>>
        BY <1>4, <3>0, <4>2, Assoc
      <4>5. ((t \o Unquote(f)) \o <<CR>>) \o <<LF>> = (t \o Unquote(f)) \o (<<CR>> \o <<LF>>)
        BY <3>0, <4>3, Assoc
      <4>6. QED
        BY <1>4, <1>5, <2>3, <3>0, <4>1, <4>4, <4>5
    <3>9. i + 1 < Len(m) => LineStart(m, (i + 1) + 1)
      <4>1. ((i + 1) + 1) - 1 = i + 1
        BY <1>0
      <4>2. QED
        BY <1>1, <2>3, <4>1 DEF LineStart
    <3>10. m[i + 1] # CR
      BY <1>1, <2>3, <3>0
    <3>11. InLine(m, i + 1, <<>>, t \o Unquote(f) \o CRLF)
      BY <1>0, <1>4, <3>8, <3>9, <3>10, LineBreaks
    <3>12. QED
      BY <3>7, <3>11
  <2>4. QED
    BY <2>1, <2>2, <2>3
<1>8. QED
  BY <1>6, <1>7

-----------------------------------------------------------------------------
\* The whole text, and its end.

LEMMA UptoBegins ==
  ASSUME NEW m \in Seq(Byte), NEW q, NEW i \in 0..Len(m)
  PROVE  Begins(Upto(m, q, i), Upto(m, q, Len(m)))
<1> DEFINE T == {n \in Nat : i + n <= Len(m) => Begins(Upto(m, q, i), Upto(m, q, i + n))}
<1>0. Len(m) \in Nat /\ i \in Nat /\ Len(m) - i \in Nat /\ i + (Len(m) - i) = Len(m)
  BY LenProperties
<1>1. 0 \in T
  <2>1. Upto(m, q, i) \in Seq(Byte)
    BY UptoIs
  <2>2. i + 0 = i
    BY <1>0
  <2>3. Begins(Upto(m, q, i), Upto(m, q, i))
    BY <2>1, BeginsSelf
  <2>4. QED
    BY <2>2, <2>3
<1>2. ASSUME NEW n \in Nat, n \in T PROVE n + 1 \in T
  <2>1. SUFFICES ASSUME i + (n + 1) <= Len(m)
                 PROVE  Begins(Upto(m, q, i), Upto(m, q, i + (n + 1)))
    OBVIOUS
  <2>2. PICK k : k = i + (n + 1)
    OBVIOUS
  <2>3. k \in 1..Len(m) /\ k - 1 = i + n /\ i + n <= Len(m) /\ k - 1 \in 0..Len(m)
    BY <1>0, <2>1, <2>2
  <2>4. Begins(Upto(m, q, i), Upto(m, q, k - 1))
    BY <1>2, <2>3
  <2>5. /\ Upto(m, q, k - 1) \in Seq(Byte) /\ Piece(m, q, k) \in Seq(Byte)
        /\ Upto(m, q, k) = Upto(m, q, k - 1) \o Piece(m, q, k)
    <3>1. /\ Upto(m, q, k - 1) \in Seq(Byte)
          /\ Upto(m, q, k) = Upto(m, q, k - 1) \o Piece(m, q, k)
      BY <2>3, UptoIs
    <3>2. Piece(m, q, k) \in Seq(Byte)
      BY <2>3, PieceType
    <3>3. QED
      BY <3>1, <3>2
  <2>6. Begins(Upto(m, q, k - 1), Upto(m, q, k))
    BY <2>5, BeginsConcat
  <2>7. Begins(Upto(m, q, i), Upto(m, q, k))
    BY <2>4, <2>6, BeginsTrans
  <2>8. QED
    BY <2>2, <2>7
<1>3. Len(m) - i \in T
  <2> HIDE DEF T
  <2>1. QED
    BY <1>0, <1>1, <1>2, Induction
<1>4. QED
  BY <1>0, <1>3

\* The reader has the text as it was before it was sent.
LEMMA TextDecoded ==
  ASSUME NEW m \in Seq(Byte), NoNul(m),
         NEW w, NEW d, Decodes(w, d), Begins(Upto(m, TRUE, Len(m)), w)
  PROVE  \E l, t : /\ d[Len(Upto(m, TRUE, Len(m)))] = State("reading", l, t)
                   /\ InLine(m, Len(m), l, t)
<1> DEFINE Good(n) == \E l, t : /\ d[Len(Upto(m, TRUE, n))] = State("reading", l, t)
                                /\ InLine(m, n, l, t)
           T == {n \in Nat : n <= Len(m) => Good(n)}
<1>0. Len(m) \in Nat
  BY LenProperties
<1>1. 0 \in T
  <2>1. /\ Upto(m, TRUE, 0) = <<>> /\ Upto(m, FALSE, 0) = <<>>
        /\ Len(<<>>) = 0 /\ <<>> \in Seq(Byte) /\ <<>> \o <<>> = <<>>
    BY UptoIs, Empty
  <2>2. d[Len(Upto(m, TRUE, 0))] = State("reading", <<>>, <<>>)
    BY <2>1 DEF Decodes
  <2>3. Unquote(<<>>) = <<>> /\ NoNul(<<>>)
    BY <2>1 DEF Unquote, NoNul
  <2>4. LineStart(m, 0 + 1) /\ ~(0 \in 1..(Len(m) - 1))
    BY <1>0 DEF LineStart
  <2>5. InLine(m, 0, <<>>, <<>>)
    BY <2>1, <2>3, <2>4 DEF InLine
  <2>6. QED
    BY <2>2, <2>5
<1>2. ASSUME NEW n \in Nat, n \in T PROVE n + 1 \in T
  <2> HIDE DEF Good
  <2>1. SUFFICES ASSUME n + 1 <= Len(m) PROVE Good(n + 1)
    OBVIOUS
  <2>2. n \in 0..Len(m) /\ n < Len(m) /\ n <= Len(m) /\ n + 1 \in 0..Len(m)
    BY <1>0, <2>1
  <2>0. Good(n)
    BY <1>2, <2>2
  <2>3. PICK l, t : d[Len(Upto(m, TRUE, n))] = State("reading", l, t) /\ InLine(m, n, l, t)
    BY <2>0 DEF Good
  <2>4. Begins(Upto(m, TRUE, n + 1), w)
    BY <2>2, UptoBegins, BeginsTrans
  <2>5. QED
    BY <2>2, <2>3, <2>4, ByteDecoded DEF Good
<1>3. Len(m) \in T
  <2> HIDE DEF T
  <2>1. QED
    BY <1>0, <1>1, <1>2, Induction
<1>4. Good(Len(m))
  <2> HIDE DEF Good
  <2>1. QED
    BY <1>0, <1>3
<1>5. QED
  BY <1>4

\* What mailstream_send_data sends.
Ended(s) == s \o (CRLF \o <<Dot>> \o CRLF)

LEMMA EndedIs ==
  ASSUME NEW s \in Seq(Byte)
  PROVE  /\ Ended(s) \in Seq(Byte)
         /\ Ended(s) = s \o CRLF \o <<Dot>> \o CRLF
<1>1. CRLF \in Seq(Byte) /\ <<Dot>> \in Seq(Byte)
  BY Marks
<1>2. PICK c, p : c = CRLF /\ p = <<Dot>>
  OBVIOUS
<1>3. c \in Seq(Byte) /\ p \in Seq(Byte)
  BY <1>1, <1>2
<1>4. c \o p \in Seq(Byte) /\ (c \o p) \o c \in Seq(Byte) /\ s \o ((c \o p) \o c) \in Seq(Byte)
  BY <1>3, Concat
<1>5. s \o ((c \o p) \o c) = (s \o (c \o p)) \o c
  BY <1>3, <1>4, Assoc
<1>6. s \o (c \o p) = (s \o c) \o p
  BY <1>3, Assoc
<1>7. QED
  BY <1>2, <1>4, <1>5, <1>6 DEF Ended

\* A call that has returned reads no further.
LEMMA EatStops ==
  ASSUME NEW w, w \in Seq(Byte), NEW d, Decodes(w, d),
         NEW k \in 0..Len(w), NEW j \in k..Len(w), d[k].rst # "reading"
  PROVE  d[j] = d[k]
<1> DEFINE T == {n \in Nat : k + n <= Len(w) => d[k + n] = d[k]}
<1>0. Len(w) \in Nat /\ k \in Nat /\ j \in Nat /\ j - k \in Nat /\ k + (j - k) = j /\ j <= Len(w)
  BY LenProperties
<1>1. 0 \in T
  BY <1>0
<1>2. ASSUME NEW n \in Nat, n \in T PROVE n + 1 \in T
  <2>1. SUFFICES ASSUME k + (n + 1) <= Len(w) PROVE d[k + (n + 1)] = d[k]
    OBVIOUS
  <2>2. PICK x : x = k + (n + 1)
    OBVIOUS
  <2>3. x \in 1..Len(w) /\ x - 1 = k + n /\ k + n <= Len(w)
    BY <1>0, <2>1, <2>2
  <2>4. d[x - 1] = d[k]
    BY <1>2, <2>3
  <2>5. d[x] = Eaten(d[x - 1], w[x])
    BY <2>3 DEF Decodes
  <2>6. d[x] = d[k]
    BY <2>4, <2>5 DEF Eaten
  <2>7. QED
    BY <2>2, <2>6
<1>3. j - k \in T
  <2> HIDE DEF T
  <2>1. QED
    BY <1>0, <1>1, <1>2, Induction
<1>4. QED
  BY <1>0, <1>3

\* The final period ends the call, and nothing before it does.
LEMMA EndDecoded ==
  ASSUME NEW m \in Seq(Byte), NoNul(m),
         NEW w, NEW d, Decodes(w, d), w = Ended(Stuffed(m)),
         NEW k \in 0..Len(w), d[k].rst = "ok"
  PROVE  k = Len(w) /\ d[k] = State("ok", <<>>, NormalText(m) \o CRLF)
<1>0. /\ CR \in Byte /\ LF \in Byte /\ Dot \in Byte /\ CR # LF /\ Dot # LF /\ Nul # Dot
      /\ CRLF = <<CR>> \o <<LF>> /\ CRLF \in Seq(Byte) /\ <<Dot>> \in Seq(Byte)
      /\ <<CR>> \in Seq(Byte)
  BY Marks
<1>1. PICK s : s = Upto(m, TRUE, Len(m))
  OBVIOUS
<1>2. Len(m) \in Nat /\ s \in Seq(Byte) /\ Stuffed(m) = s
  <2>1. Len(m) \in Nat
    BY LenProperties
  <2>2. Len(m) \in 0..Len(m)
    BY <2>1
  <2>3. QED
    BY <1>1, <2>1, <2>2, UptoIs, UptoAll
<1>3. w \in Seq(Byte) /\ w = ((s \o CRLF) \o <<Dot>>) \o CRLF
  BY <1>2, EndedIs
<1>4. PICK v, x, y : v = s \o CRLF /\ x = v \o <<Dot>> /\ y = x \o <<CR>>
  OBVIOUS
<1>5. v \in Seq(Byte) /\ x \in Seq(Byte) /\ y \in Seq(Byte)
  BY <1>0, <1>2, <1>4, Concat
<1>6. Adds(x, v, Dot) /\ Adds(y, x, CR) /\ Adds(w, y, LF)
  <2>1. (x \o <<CR>>) \o <<LF>> = x \o (<<CR>> \o <<LF>>)
    BY <1>0, <1>5, Marks, Assoc
  <2>2. w = y \o <<LF>>
    BY <1>0, <1>3, <1>4, <2>1
  <2>3. QED
    BY <1>0, <1>4, <1>5, <2>2 DEF Adds
<1>7. PICK z : Adds(z, s, CR) /\ Adds(v, z, LF)
  BY <1>0, <1>2, <1>4, AddsTwo
<1>8. Begins(w, w) /\ Begins(y, w) /\ Begins(x, w) /\ Begins(v, w) /\ Begins(s, w)
  <2>1. Begins(w, w)
    BY <1>3, BeginsSelf
  <2>2. Begins(y, w) /\ Begins(x, y) /\ Begins(v, x) /\ Begins(z, v) /\ Begins(s, z)
    BY <1>6, <1>7, AddsBegins
  <2>3. QED
    BY <2>1, <2>2, BeginsTrans
<1>9. PICK l, t : d[Len(s)] = State("reading", l, t) /\ InLine(m, Len(m), l, t)
  BY <1>1, <1>8, TextDecoded
<1>10. l \in Seq(Byte) /\ NoNul(l) /\ NormalText(m) = t \o Unquote(l) /\ l # <<Dot>>
  <2>1. l # <<Dot>>
    BY <1>9, NotTheEnd
  <2>2. QED
    BY <1>9, <2>1, UptoAll DEF InLine
<1>11. PICK n : n = NormalText(m) \o CRLF
  OBVIOUS
<1>12. d[Len(v)] = State("reading", <<>>, n)
  <2>1. d[Len(v)] = Eaten(Eaten(State("reading", l, t), CR), LF)
    <3>1. d[Len(v)] = Eaten(Eaten(d[Len(s)], CR), LF)
      BY <1>7, <1>8, EatTwo
    <3>2. QED
      BY <1>9, <3>1
  <2>2. Eaten(State("reading", l, t), CR) = State("reading", l \o <<CR>>, t)
    BY <1>0, EatPlain
  <2>3. Eaten(State("reading", l \o <<CR>>, t), LF)
          = State("reading", <<>>, (t \o Unquote(l)) \o CRLF)
    BY <1>10, EatBreak
  <2>4. QED
    BY <1>10, <1>11, <2>1, <2>2, <2>3
<1>13. d[Len(x)] = State("reading", <<Dot>>, n)
  <2>1. d[Len(x)] = Eaten(State("reading", <<>>, n), Dot)
    <3>1. d[Len(x)] = Eaten(d[Len(v)], Dot)
      BY <1>6, <1>8, EatOne
    <3>2. QED
      BY <1>12, <3>1
  <2>2. <<>> \o <<Dot>> = <<Dot>>
    BY <1>0, Empty
  <2>3. QED
    BY <1>0, <2>1, <2>2, EatPlain
<1>14. d[Len(y)] = State("reading", <<Dot>> \o <<CR>>, n)
  <2>1. d[Len(y)] = Eaten(State("reading", <<Dot>>, n), CR)
    <3>1. d[Len(y)] = Eaten(d[Len(x)], CR)
      BY <1>6, <1>8, EatOne
    <3>2. QED
      BY <1>13, <3>1
  <2>2. QED
    BY <1>0, <2>1, EatPlain
<1>15. d[Len(w)] = State("ok", <<>>, n)
  <2>1. d[Len(w)] = Eaten(State("reading", <<Dot>> \o <<CR>>, n), LF)
    <3>1. d[Len(w)] = Eaten(d[Len(y)], LF)
      BY <1>6, <1>8, EatOne
    <3>2. QED
      BY <1>14, <3>1
  <2>2. NoNul(<<Dot>>)
    <3>1. PICK e : e = <<Dot>>
      OBVIOUS
    <3>2. Len(e) = 1 /\ e[1] = Dot
      BY <3>1
    <3>3. \A a \in 1..Len(e) : e[a] # Nul
      BY <1>0, <3>2
    <3>4. QED
      BY <3>1, <3>3 DEF NoNul
  <2>3. QED
    BY <1>0, <2>1, <2>2, EatBreak
<1>16. Len(w) \in Nat /\ Len(y) \in Nat /\ Len(w) = Len(y) + 1
  BY <1>3, <1>5, <1>6, OneMore, LenProperties DEF Adds
<1>17. k = Len(w)
  <2>1. SUFFICES ASSUME k # Len(w) PROVE FALSE
    OBVIOUS
  <2>2. k \in 0..Len(w) /\ Len(y) \in k..Len(w)
    BY <1>16, <2>1
  <2>3. d[Len(y)] = d[k]
    BY <1>3, <2>2, EatStops
  <2>4. d[Len(y)].rst = "reading"
    BY <1>14 DEF State
  <2>5. QED
    BY <2>3, <2>4
<1>18. QED
  BY <1>11, <1>15, <1>17

\* The bytes of w after the first a ones are those of c, and no line ends.
Follows(w, a, c) ==
  /\ w \in Seq(Byte) /\ a \in Nat /\ c \in Seq(Byte) /\ a + Len(c) <= Len(w)
  /\ \A i \in 1..Len(c) : w[a + i] = c[i] /\ c[i] # LF

\* Bytes of a line that is not complete.
LEMMA EatRun ==
  ASSUME NEW w, NEW d, Decodes(w, d), NEW a, NEW c, Follows(w, a, c),
         NEW l \in Seq(Byte), NEW t, d[a] = State("reading", l, t)
  PROVE  d[a + Len(c)] = State("reading", Glue(l, c), t)
<1> DEFINE P(n) == l \o SubSeq(c, 1, n)
           T == {n \in Nat : n <= Len(c) => d[a + n] = State("reading", P(n), t)}
<1>0. /\ w \in Seq(Byte) /\ a \in Nat /\ c \in Seq(Byte) /\ a + Len(c) <= Len(w)
      /\ \A i \in 1..Len(c) : w[a + i] = c[i] /\ c[i] # LF
      /\ Len(w) \in Nat /\ Len(c) \in Nat
  BY LenProperties DEF Follows
<1>1. 0 \in T
  <2>1. SubSeq(c, 1, 0) = <<>>
    BY SubSeqEmpty
  <2>2. P(0) = l
    BY <2>1, Empty
  <2>3. a + 0 = a
    BY <1>0
  <2> HIDE DEF P
  <2>4. QED
    BY <2>2, <2>3
<1>2. ASSUME NEW n \in Nat, n \in T PROVE n + 1 \in T
  <2> HIDE DEF P
  <2>1. SUFFICES ASSUME n + 1 <= Len(c) PROVE d[a + (n + 1)] = State("reading", P(n + 1), t)
    OBVIOUS
  <2>2. PICK x : x = a + (n + 1)
    OBVIOUS
  <2>3. x \in 1..Len(w) /\ x - 1 = a + n /\ n + 1 \in 1..Len(c) /\ n <= Len(c)
    BY <1>0, <2>1, <2>2
  <2>4. d[x - 1] = State("reading", P(n), t)
    BY <1>2, <2>3
  <2>5. w[x] = c[n + 1] /\ c[n + 1] # LF /\ c[n + 1] \in Byte
    BY <1>0, <2>2, <2>3, ElementOfSeq
  <2>6. d[x] = Eaten(d[x - 1], w[x])
    BY <2>3 DEF Decodes
  <2>7. d[x] = State("reading", P(n) \o <<c[n + 1]>>, t)
    BY <2>4, <2>5, <2>6, EatPlain
  <2>8. P(n) \o <<c[n + 1]>> = P(n + 1)
    <3>1. SubSeq(c, 1, n) \in Seq(Byte) /\ <<c[n + 1]>> \in Seq(Byte)
      BY <1>0, <2>3, <2>5, Split DEF Prefix
    <3>2. SubSeq(c, 1, n + 1) = SubSeq(c, 1, (n + 1) - 1) \o <<c[n + 1]>>
      <4>1. 1 \in 1..Len(c) /\ n + 1 \in 1..Len(c)
        BY <1>0, <2>3
      <4>2. QED
        BY <1>0, <4>1, SubSeqRecursiveSecond
    <3>3. (n + 1) - 1 = n
      OBVIOUS
    <3>4. (l \o SubSeq(c, 1, n)) \o <<c[n + 1]>> = l \o (SubSeq(c, 1, n) \o <<c[n + 1]>>)
      BY <3>1, Assoc
    <3>5. QED
      BY <3>2, <3>3, <3>4 DEF P
  <2>9. QED
    BY <2>2, <2>7, <2>8
<1>3. Len(c) \in T
  <2> HIDE DEF T
  <2>1. QED
    BY <1>0, <1>1, <1>2, Induction
<1>4. P(Len(c)) = Glue(l, c)
  BY <1>0, SubSeqFull DEF Glue
<1>5. QED
  <2> HIDE DEF P
  <2>1. d[a + Len(c)] = State("reading", P(Len(c)), t)
    BY <1>0, <1>3
  <2>2. QED
    BY <1>4, <2>1

-----------------------------------------------------------------------------
\* The calls that send and read: what the sender has written and still has to
\* write is the text as it has to be on the connection, and the reader has
\* decoded what it has got of it.

All == FlattenSeq(SendWrites(text, mode))

LEMMA SendWritesAre ==
  ASSUME NEW m \in Seq(Byte), NEW how \in {"data", "literal"}
  PROVE  /\ SendWrites(m, how) \in Parts
         /\ FlattenSeq(SendWrites(m, how)) \in Seq(Byte)
         /\ how = "data" => FlattenSeq(SendWrites(m, how)) = Ended(Stuffed(m))
         /\ how = "literal" => FlattenSeq(SendWrites(m, how)) = NormalText(m)
<1>1. CASE how = "data"
  <2>1. PICK s, e : s = TextWrites(m, TRUE) /\ e = CRLF \o <<Dot>> \o CRLF
    OBVIOUS
  <2>2. s \in Parts /\ FlattenSeq(s) = Stuffed(m)
    BY <2>1, TextSent, UptoAll
  <2>3. e \in Seq(Byte)
    BY <2>1, Marks, Concat
  <2>4. <<e>> \in Parts /\ FlattenSeq(<<e>>) = e
    BY <2>3, FlatOne
  <2>5. s \o <<e>> \in Parts /\ FlattenSeq(s \o <<e>>) = FlattenSeq(s) \o e
    BY <2>2, <2>4, FlatConcat
  <2>6. Append(s, e) = s \o <<e>>
    <3>1. s \in Seq(Seq(Byte)) /\ e \in Seq(Byte)
      BY <2>2, <2>3 DEF Parts
    <3>2. QED
      BY <3>1, AppendIsConcat
  <2>7. SendWrites(m, how) = s \o <<e>>
    BY <1>1, <2>1, <2>6 DEF SendWrites
  <2>8. how # "literal"
    BY <1>1
  <2>9. FlattenSeq(s \o <<e>>) = Ended(Stuffed(m))
    BY <2>1, <2>2, <2>5 DEF Ended
  <2>10. QED
    BY <2>5, <2>7, <2>8, <2>9, FlatType
<1>2. CASE how = "literal"
  <2>1. SendWrites(m, how) = TextWrites(m, FALSE) /\ how # "data"
    BY <1>2 DEF SendWrites
  <2>2. TextWrites(m, FALSE) \in Parts /\ FlattenSeq(TextWrites(m, FALSE)) = NormalText(m)
    BY TextSent, UptoAll
  <2>3. QED
    BY <2>1, <2>2, FlatType
<1>3. QED
  BY <1>1, <1>2

SenderInv ==
  /\ wret = "short" => cut
  /\ wret = "flushed" => writes = <<>>
  /\ wpc = "flush" => writes = <<>>
  /\ spc = "ok" => wret = "flushed"
  /\ spc # "sending" => wpc = "idle"
  /\ ~cut =>
       /\ wpc \in {"idle", "flush"} /\ wret # "failed" =>
            Glue(accepted, FlattenSeq(writes)) = All
       /\ wpc \in {"write", "direct"} =>
            Glue(accepted, Glue(wdata, FlattenSeq(writes))) = All
       /\ Begins(accepted, All)
  /\ wpc # "idle" => wret # "failed"

DataDecoded ==
  \A d : Decodes(All, d) => d[Len(got)] = State(rst, line, multiline_buffer)

ReaderInv ==
  /\ mode = "data" => rpc = "idle"
  /\ mode = "data" /\ ends = 0 /\ ~cut /\ rst # "failed" => DataDecoded
  /\ mode = "literal" =>
       /\ needed + Len(multiline_buffer) = DataCrlfSize(text)
       /\ rpc = "idle" => multiline_buffer = got
       /\ rpc # "idle" => /\ rst = "reading" /\ rleft > 0
                          /\ Len(multiline_buffer) <= Len(got)
                          /\ (Len(got) - Len(multiline_buffer)) + rleft <= needed
       /\ rst = "ok" => needed = 0

DataInv ==
  /\ StreamInv
  /\ DataTypeOK
  /\ text \in Seq(Byte) /\ mode \in {"data", "literal"}
  /\ SenderInv
  /\ ReaderInv

LEMMA AllIs ==
  ASSUME text \in Seq(Byte), mode \in {"data", "literal"}
  PROVE  /\ All \in Seq(Byte)
         /\ mode = "data" => All = Ended(Stuffed(text))
         /\ mode = "literal" => /\ All = NormalText(text)
                                /\ Len(All) = DataCrlfSize(text)
BY SendWritesAre, SizeIs DEF All

LEMMA DataStart == DataInit => DataInv
<1> SUFFICES ASSUME DataInit PROVE DataInv
  OBVIOUS
<1>1. StreamInv
  BY StreamStart DEF DataInit
<1>2. text \in Seq(Byte) /\ mode \in {"data", "literal"}
  <2>1. text \in BoundedSeq(Byte, MaxText) /\ mode \in {"data", "literal"}
    BY DEF DataInit
  <2>2. PICK n \in 0..MaxText : text \in [1..n -> Byte]
    BY <2>1 DEF BoundedSeq, SeqOf
  <2>3. n \in Nat
    BY <2>2, DataAssumption DEF DataAssumption
  <2>4. text \in Seq(Byte)
    BY <2>2, <2>3
  <2>5. QED
    BY <2>1, <2>4
<1>3. /\ StreamInit
      /\ spc = "sending" /\ writes = SendWrites(text, mode)
      /\ rst = "reading" /\ line = <<>> /\ multiline_buffer = <<>>
      /\ needed = DataCrlfSize(text)
      /\ ends = 0 /\ cut = FALSE
  BY DEF DataInit
<1>4. writes \in Parts /\ needed \in Nat /\ FlattenSeq(writes) = All /\ All \in Seq(Byte)
  BY <1>2, <1>3, SendWritesAre, SizeIs, AllIs DEF All
<1>5. /\ wpc = "idle" /\ wret = "none" /\ accepted = <<>> /\ got = <<>> /\ rpc = "idle"
  BY <1>3 DEF StreamInit
<1>6. DataTypeOK
  <2>1. StreamTypeOK
    BY <1>1 DEF StreamInv
  <2>2. 0 \in 0..MaxEnds
    BY DataAssumption DEF DataAssumption
  <2>3. <<>> \in Seq(Byte)
    BY Empty
  <2>4. QED
    BY <1>3, <1>4, <2>1, <2>2, <2>3 DEF DataTypeOK, Parts
<1>7. SenderInv
  <2>1. Glue(<<>>, All) = All
    BY <1>4, Empty DEF Glue
  <2>2. Begins(<<>>, Glue(<<>>, All))
    BY <1>4, Empty, BeginsConcat DEF Glue
  <2>3. QED
    BY <1>3, <1>4, <1>5, <2>1, <2>2 DEF SenderInv
<1>8. ReaderInv
  <2>1. Len(<<>>) = 0
    BY Empty
  <2>2. DataDecoded
    BY <1>3, <1>5, <2>1 DEF DataDecoded, Decodes
  <2>3. QED
    BY <1>3, <1>4, <1>5, <2>1, <2>2 DEF ReaderInv
<1>9. QED
  BY <1>1, <1>2, <1>6, <1>7, <1>8 DEF DataInv

\* Every step of the two programs is one that the streams allow.
LEMMA DataStreams ==
  ASSUME DataInv, [DataNext]_textVars
  PROVE  [StreamNext]_streamVars /\ StreamInv'
<1>0. /\ StreamInv /\ writes \in Parts /\ needed \in Nat /\ MaxRead \in Nat
      /\ read_buffer \in Seq(Byte) /\ Len(read_buffer) \in Nat
  BY DataAssumption, LenProperties
     DEF DataInv, DataTypeOK, Parts, StreamTypeOK, DataAssumption
<1>1. Min({needed, MaxRead}) \in Nat
  <2>1. {needed, MaxRead} \in SUBSET Nat /\ {needed, MaxRead} # {}
    BY <1>0
  <2>2. QED
    BY <2>1, MinIsLeast
<1>2. CASE SendWrite
  <2>1. Head(writes) \in Seq(Byte)
    BY <1>0, <1>2, FlatHead DEF SendWrite
  <2>2. QED
    BY <1>0, <1>2, <2>1, StreamStep DEF SendWrite, StreamNext
<1>3. CASE SendFlush
  BY <1>0, <1>3, StreamStep DEF SendFlush, StreamNext
<1>4. CASE SendReturns
  BY <1>0, <1>4, StreamStep DEF SendReturns
<1>5. CASE Sending
  BY <1>0, <1>5, StreamStep DEF Sending, StreamNext
<1>6. CASE SenderCloses
  BY <1>0, <1>6, StreamStep DEF SenderCloses, StreamNext
<1>7. CASE LineFromBuffer
  <2> DEFINE lfs == {i \in 1..Len(read_buffer) : read_buffer[i] = LF}
             n == IF lfs = {} THEN Len(read_buffer) ELSE Min(lfs)
  <2>1. lfs \in SUBSET Nat
    BY <1>0
  <2>2. n \in Nat
    BY <1>0, <2>1, MinIsLeast
  <2>3. ReadCall(n)
    BY <1>7, Zenon DEF LineFromBuffer
  <2> HIDE DEF n, lfs
  <2>4. \E k \in Nat : ReadCall(k)
    BY <2>2, <2>3
  <2>5. QED
    BY <1>0, <2>4, StreamStep DEF StreamNext
<1>8. CASE LineFeeds \/ LiteralFeeds
  BY <1>0, <1>8, StreamStep DEF LineFeeds, LiteralFeeds, StreamNext
<1>9. CASE LineAtEnd
  BY <1>0, <1>9, StreamStep DEF LineAtEnd, StreamNext
<1>10. CASE LineFails
  BY <1>0, <1>10, StreamStep DEF LineFails, StreamNext
<1>11. CASE LiteralRead \/ LiteralFromBuffer
  <2>1. ReadCall(Min({needed, MaxRead}))
    BY <1>11 DEF LiteralRead, LiteralFromBuffer
  <2>2. QED
    BY <1>0, <1>1, <2>1, StreamStep DEF StreamNext
<1>12. CASE LiteralReading
  BY <1>0, <1>12, StreamStep DEF LiteralReading, StreamNext
<1>13. CASE LiteralEnds
  BY <1>0, <1>13, StreamStep DEF LiteralEnds
<1>14. CASE UNCHANGED textVars
  BY <1>0, <1>14, StreamStep DEF textVars
<1>15. QED
  BY <1>2, <1>3, <1>4, <1>5, <1>6, <1>7, <1>8, <1>9, <1>10, <1>11, <1>12, <1>13, <1>14
     DEF DataNext, Sender, Reader

\* What went into the connection is a part of the text, as long as no write
\* was short.
LEMMA SentIsPart ==
  ASSUME DataInv, ~cut
  PROVE  Begins(Sent, All)
<1>0. /\ accepted \in Seq(Byte) /\ wdata \in Seq(Byte) /\ wdone \in 0..Len(wdata)
      /\ write_buffer \in Seq(Byte) /\ writes \in Parts /\ AcceptedIsSent
      /\ wpc \in {"idle", "flush", "write", "direct"}
      /\ Sent \in Seq(Byte) /\ FlattenSeq(writes) \in Seq(Byte)
  BY SentType, FlatType DEF DataInv, DataTypeOK, Parts, StreamInv, StreamTypeOK
<1>1. CASE wpc # "direct"
  <2>1. accepted = Sent \o write_buffer
    BY <1>0, <1>1 DEF AcceptedIsSent
  <2>2. Begins(Sent, Sent \o write_buffer)
    BY <1>0, BeginsConcat
  <2>3. Begins(Sent, accepted)
    BY <2>1, <2>2
  <2>4. Begins(accepted, All)
    BY DEF DataInv, SenderInv
  <2>5. QED
    BY <2>3, <2>4, BeginsTrans
<1>2. CASE wpc = "direct"
  <2>1. PICK p, r, f : p = Prefix(wdata, wdone) /\ r = Rest(wdata, wdone) /\ f = FlattenSeq(writes)
    OBVIOUS
  <2>2. p \in Seq(Byte) /\ r \in Seq(Byte) /\ wdata = p \o r /\ f \in Seq(Byte)
    BY <1>0, <2>1, Split
  <2>3. Sent = accepted \o p
    BY <1>0, <1>2, <2>1 DEF AcceptedIsSent
  <2>4. All = accepted \o (wdata \o f)
    BY <1>2, <2>1 DEF DataInv, SenderInv, Glue
  <2>5. PICK g : g = r \o f
    OBVIOUS
  <2>6. g \in Seq(Byte)
    BY <2>2, <2>5, Concat
  <2>7. wdata \o f = p \o g
    <3>1. (p \o r) \o f = p \o (r \o f)
      BY <2>2, Assoc
    <3>2. QED
      BY <2>2, <2>5, <3>1
  <2>8. (accepted \o p) \o g = accepted \o (p \o g)
    <3>1. accepted \in Seq(Byte) /\ p \in Seq(Byte)
      BY <1>0, <2>2
    <3>2. QED
      BY <2>6, <3>1, Assoc
  <2>9. All = Sent \o g
    BY <2>3, <2>4, <2>7, <2>8
  <2>10. Begins(Sent, Sent \o g)
    BY <1>0, <2>6, BeginsConcat
  <2>11. QED
    BY <2>9, <2>10
<1>3. QED
  BY <1>1, <1>2

LEMMA SenderKeeps ==
  ASSUME SenderInv, UNCHANGED <<writerVars, text, mode, spc, writes, cut>>
  PROVE  SenderInv'
<1>1. All' = All
  BY DEF All
<1>2. QED
  BY <1>1 DEF SenderInv, writerVars

LEMMA ReaderWaits ==
  ASSUME ReaderInv, cut => cut',
         UNCHANGED <<readerVars, text, mode, rst, line, multiline_buffer, needed, ends>>
  PROVE  ReaderInv'
<1>1. All' = All
  BY DEF All
<1>2. DataDecoded => DataDecoded'
  BY <1>1 DEF DataDecoded, readerVars
<1>3. QED
  BY <1>2 DEF ReaderInv, readerVars

\* Some of the bytes that were left become accepted.
LEMMA Moves ==
  ASSUME accepted \in Seq(Byte), All \in Seq(Byte), NEW b \in Seq(Byte), NEW f \in Seq(Byte),
         Glue(accepted, Glue(b, f)) = All
  PROVE  /\ Glue(accepted \o b, f) = All
         /\ Begins(accepted \o b, All)
<1>1. PICK a : a = accepted \o b
  OBVIOUS
<1>2. a \in Seq(Byte)
  BY <1>1, Concat
<1>3. (accepted \o b) \o f = accepted \o (b \o f)
  BY Assoc
<1>4. a \o f = All
  BY <1>1, <1>3 DEF Glue
<1>5. Begins(a, a \o f)
  BY <1>2, BeginsConcat
<1>6. QED
  BY <1>1, <1>4, <1>5 DEF Glue

LEMMA WriterSteps ==
  ASSUME DataInv, Sending
  PROVE  SenderInv'
<1>0. /\ accepted \in Seq(Byte) /\ wdata \in Seq(Byte) /\ wdone \in 0..Len(wdata)
      /\ writes \in Parts /\ FlattenSeq(writes) \in Seq(Byte) /\ All \in Seq(Byte)
      /\ wpc \in {"idle", "flush", "write", "direct"} /\ cut \in BOOLEAN
      /\ accepted \o <<>> = accepted
  BY FlatType, AllIs, Empty DEF DataInv, DataTypeOK, Parts, StreamInv, StreamTypeOK
<1>1. /\ WriterStep /\ cut' = (cut \/ wret' = "short")
      /\ UNCHANGED <<text, mode, spc, writes>>
  BY DEF Sending
<1>2. All' = All
  BY <1>1 DEF All
<1>3. SenderInv
  BY DEF DataInv
<1>4. ASSUME UNCHANGED <<wpc, wdata, wret, accepted>> PROVE SenderInv'
  BY <1>1, <1>2, <1>3, <1>4 DEF SenderInv
<1>5. ASSUME NEW n \in 1..Len(write_buffer), FlushWrites(n) PROVE SenderInv'
  BY <1>4, <1>5 DEF FlushWrites
<1>6. CASE ZeroWrite
  BY <1>4, <1>6 DEF ZeroWrite
<1>7. ASSUME NEW n \in 1..(Len(wdata) - wdone), DirectWrites(n) PROVE SenderInv'
  BY <1>4, <1>7 DEF DirectWrites
<1>8. CASE FlushFails
  <2>1. wpc # "idle" /\ wpc' = "idle" /\ wret' = "failed" /\ accepted' = accepted
    BY <1>0, <1>8 DEF FlushFails, Flushing, WriteReturns
  <2>2. QED
    BY <1>1, <1>2, <1>3, <2>1 DEF SenderInv
<1>9. CASE FlushEnds
  <2>1. wpc = "flush" /\ wpc' = "idle" /\ wret' = "flushed" /\ accepted' = accepted
    BY <1>0, <1>9 DEF FlushEnds, WriteReturns
  <2>2. QED
    BY <1>1, <1>2, <1>3, <2>1 DEF SenderInv
<1>10. ASSUME wpc \in {"write", "direct"}, wpc' = "idle", wret' = "ok", accepted' = accepted \o wdata
       PROVE  SenderInv'
  <2>1. ~cut => /\ Glue(accepted \o wdata, FlattenSeq(writes)) = All
                /\ Begins(accepted \o wdata, All)
    BY <1>0, <1>3, <1>10, Moves DEF SenderInv
  <2>2. ~cut' => ~cut
    BY <1>1
  <2>3. ~cut => Glue(accepted', FlattenSeq(writes')) = All' /\ Begins(accepted', All')
    BY <1>1, <1>2, <1>10, <2>1
  <2>4. QED
    BY <1>1, <1>3, <1>10, <2>2, <2>3 DEF SenderInv
<1>11. CASE WriteContinues
  <2>1. CASE Len(wdata) > BufferMax
    <3>1. wpc = "write" /\ wpc' = "direct" /\ UNCHANGED <<wdata, wret, accepted>>
      BY <1>11, <2>1 DEF WriteContinues
    <3>2. QED
      BY <1>1, <1>2, <1>3, <3>1 DEF SenderInv
  <2>2. CASE ~(Len(wdata) > BufferMax)
    BY <1>10, <1>11, <2>2 DEF WriteContinues, WriteReturns
  <2>3. QED
    BY <2>1, <2>2
<1>12. CASE DirectEnds
  BY <1>10, <1>12 DEF DirectEnds, WriteReturns
<1>13. CASE DirectFails
  <2>1. /\ wpc = "direct" /\ wpc' = "idle"
        /\ accepted' = accepted \o Prefix(wdata, wdone)
        /\ wret' = IF wdone = 0 THEN "failed" ELSE "short"
    BY <1>13 DEF DirectFails, WriteReturns
  <2>2. CASE wdone = 0
    <3>1. Prefix(wdata, 0) = <<>>
      BY SubSeqEmpty DEF Prefix
    <3>2. accepted' = accepted /\ wret' = "failed"
      BY <1>0, <2>1, <2>2, <3>1
    <3>3. QED
      BY <1>1, <1>2, <1>3, <2>1, <3>2 DEF SenderInv
  <2>3. CASE wdone # 0
    <3>1. wret' = "short" /\ cut'
      BY <1>1, <2>1, <2>3
    <3>2. QED
      BY <1>1, <1>3, <2>1, <3>1 DEF SenderInv
  <2>4. QED
    BY <2>2, <2>3
<1>14. QED
  BY <1>1, <1>5, <1>6, <1>7, <1>8, <1>9, <1>11, <1>12, <1>13 DEF WriterStep

LEMMA WriteSteps ==
  ASSUME DataInv, SendWrite
  PROVE  SenderInv' /\ writes' \in Parts
<1>0. /\ accepted \in Seq(Byte) /\ writes \in Parts /\ All \in Seq(Byte)
      /\ SenderInv
  BY AllIs DEF DataInv, DataTypeOK, Parts, StreamInv, StreamTypeOK
<1>1. /\ spc = "sending" /\ wret # "failed" /\ writes # <<>>
      /\ WriteCall(Head(writes)) /\ writes' = Tail(writes) /\ wpc = "idle"
      /\ UNCHANGED <<text, mode, spc, cut>>
  BY DEF SendWrite, WriteCall
<1>2. PICK h, t, f : h = Head(writes) /\ t = Tail(writes) /\ f = FlattenSeq(t)
  OBVIOUS
<1>3. h \in Seq(Byte) /\ t \in Parts /\ f \in Seq(Byte) /\ FlattenSeq(writes) = Glue(h, f)
  BY <1>0, <1>1, <1>2, FlatHead, FlatType DEF Glue
<1>4. All' = All /\ FlattenSeq(writes') = f
  BY <1>1, <1>2 DEF All
<1>5. ~cut => Glue(accepted, Glue(h, f)) = All
  BY <1>0, <1>1, <1>3 DEF SenderInv
<1>6. wret # "flushed"
  BY <1>0, <1>1 DEF SenderInv
<1>7. CASE Len(h) + Len(write_buffer) > BufferMax
  <2>1. wpc' = "write" /\ wdata' = h /\ UNCHANGED <<wret, accepted>>
    BY <1>1, <1>2, <1>7 DEF WriteCall
  <2>2. SenderInv'
    BY <1>0, <1>1, <1>4, <1>5, <1>6, <2>1 DEF SenderInv
  <2>3. QED
    BY <1>1, <1>2, <1>3, <2>2
<1>8. CASE ~(Len(h) + Len(write_buffer) > BufferMax)
  <2>1. wpc' = "idle" /\ wret' = "ok" /\ accepted' = accepted \o h
    BY <1>1, <1>2, <1>8 DEF WriteCall, WriteReturns
  <2>2. ~cut => Glue(accepted \o h, f) = All /\ Begins(accepted \o h, All)
    BY <1>0, <1>3, <1>5, Moves
  <2>3. ~cut => Glue(accepted', FlattenSeq(writes')) = All' /\ Begins(accepted', All')
    BY <1>4, <2>1, <2>2
  <2>4. SenderInv'
    BY <1>0, <1>1, <2>1, <2>3 DEF SenderInv
  <2>5. QED
    BY <1>1, <1>2, <1>3, <2>4
<1>9. QED
  BY <1>7, <1>8

LEMMA SenderSteps ==
  ASSUME DataInv, StreamInv', Sender \/ SenderCloses
  PROVE  DataInv'
<1>0. SenderInv /\ ReaderInv /\ DataTypeOK /\ text \in Seq(Byte) /\ mode \in {"data", "literal"}
      /\ StreamTypeOK'
  BY DEF DataInv, StreamInv
<1>1. ASSUME SenderInv', writes' \in Parts, cut' \in BOOLEAN, cut => cut',
             spc' \in {"sending", "ok", "failed"},
             UNCHANGED <<readerVars, text, mode, rst, line, multiline_buffer, needed, ends>>
      PROVE  DataInv'
  <2>1. ReaderInv'
    BY <1>0, <1>1, ReaderWaits
  <2>2. DataTypeOK'
    BY <1>0, <1>1 DEF DataTypeOK, Parts
  <2>3. QED
    BY <1>0, <1>1, <2>1, <2>2 DEF DataInv
<1>2. /\ writes \in Parts /\ cut \in BOOLEAN /\ spc \in {"sending", "ok", "failed"}
  BY <1>0 DEF DataTypeOK, Parts
<1>3. CASE SendWrite
  <2>1. SenderInv' /\ writes' \in Parts
    BY <1>3, WriteSteps
  <2>2. UNCHANGED <<readerVars, text, mode, spc, rst, line, multiline_buffer, needed, ends, cut>>
    BY <1>3 DEF SendWrite, WriteCall
  <2>3. QED
    BY <1>1, <1>2, <2>1, <2>2
<1>4. CASE SendFlush
  <2>1. /\ wret \notin {"failed", "flushed"} /\ writes = <<>> /\ spc = "sending"
        /\ wpc = "idle" /\ wpc' = "flush" /\ UNCHANGED <<wdata, wret, accepted, readerVars, dataVars>>
    BY <1>4 DEF SendFlush, FlushCall
  <2>2. All' = All
    BY <2>1 DEF All, dataVars
  <2>3. SenderInv'
    BY <1>0, <2>1, <2>2 DEF SenderInv, dataVars
  <2>4. QED
    BY <1>1, <1>2, <2>1, <2>3 DEF dataVars
<1>5. CASE SendReturns
  <2>1. /\ wpc = "idle" /\ spc' \in {"ok", "failed"} /\ (spc' = "ok" => wret = "flushed")
        /\ UNCHANGED <<text, mode, writes, rst, line, multiline_buffer, needed, ends, cut>>
        /\ UNCHANGED <<wpc, wdata, wret, accepted, readerVars>>
    BY <1>5 DEF SendReturns, streamVars, writerVars
  <2>2. All' = All
    BY <2>1 DEF All
  <2>3. SenderInv'
    BY <1>0, <2>1, <2>2 DEF SenderInv
  <2>4. QED
    BY <1>1, <1>2, <2>1, <2>3
<1>6. CASE Sending
  <2>1. SenderInv'
    BY <1>6, WriterSteps
  <2>2. /\ cut' = (cut \/ wret' = "short")
        /\ UNCHANGED <<text, mode, spc, writes, rst, line, multiline_buffer, needed, ends>>
    BY <1>6 DEF Sending
  <2>3. UNCHANGED readerVars
    BY <1>6 DEF Sending, WriterStep, FlushWrites, ZeroWrite, FlushFails, FlushEnds,
         WriteContinues, DirectWrites, DirectEnds, DirectFails
  <2>4. QED
    BY <1>1, <1>2, <2>1, <2>2, <2>3
<1>7. CASE SenderCloses
  <2>1. UNCHANGED <<writerVars, readerVars, dataVars>>
    BY <1>7 DEF SenderCloses, Close
  <2>2. SenderInv'
    BY <1>0, <2>1, SenderKeeps DEF dataVars
  <2>3. QED
    BY <1>1, <1>2, <2>1, <2>2 DEF dataVars
<1>8. QED
  BY <1>3, <1>4, <1>5, <1>6, <1>7 DEF Sender

LEMMA EndLineType ==
  ASSUME NEW l \in Seq(Byte), multiline_buffer \in Seq(Byte), rst = "reading", EndLine(l)
  PROVE  /\ line' \in Seq(Byte) /\ multiline_buffer' \in Seq(Byte)
         /\ rst' \in {"reading", "ok"}
         /\ State(rst', line', multiline_buffer') = LineDone(multiline_buffer, l)
<1>1. PICK s, a : a = RemoveTrailingEol(l) /\ s = CString(a)
  OBVIOUS
<1>2. a \in Seq(Byte)
  BY <1>1, WithoutLastType DEF RemoveTrailingEol
<1>3. s \in Seq(Byte)
  BY <1>1, <1>2, CStringIs
<1>4. Unquote(s) \in Seq(Byte) /\ CRLF \in Seq(Byte) /\ <<>> \in Seq(Byte)
  BY <1>3, UnquoteType, Marks, Empty
<1>5. PICK r : r = multiline_buffer \o Unquote(s) \o CRLF
  OBVIOUS
<1>6. r \in Seq(Byte)
  BY <1>4, <1>5, Concat
<1>7. /\ line' = <<>>
      /\ IsEndMultiline(s) => rst' = "ok" /\ multiline_buffer' = multiline_buffer
      /\ ~IsEndMultiline(s) => multiline_buffer' = r /\ rst' = "reading"
  BY <1>1, <1>5 DEF EndLine
<1>8. LineDone(multiline_buffer, l) = IF IsEndMultiline(s) THEN State("ok", <<>>, multiline_buffer)
                                                          ELSE State("reading", <<>>, r)
  BY <1>1, <1>5 DEF LineDone
<1>9. QED
  BY <1>4, <1>6, <1>7, <1>8

\* The bytes of the buffer are the next ones of the text.
LEMMA NextBytes ==
  ASSUME DataInv, ~cut
  PROVE  /\ Len(got) \in Nat /\ Len(read_buffer) \in Nat /\ Len(All) \in Nat
         /\ Len(got) + Len(read_buffer) <= Len(All)
         /\ \A i \in 1..Len(read_buffer) : All[Len(got) + i] = read_buffer[i]
<1>0. /\ got \in Seq(Byte) /\ read_buffer \in Seq(Byte) /\ wire \in Seq(Byte)
      /\ All \in Seq(Byte)
  BY AllIs DEF DataInv, StreamInv, StreamTypeOK
<1>1. PICK v : v = got \o read_buffer
  OBVIOUS
<1>2. v \in Seq(Byte) /\ Len(v) = Len(got) + Len(read_buffer)
  BY <1>0, <1>1, Concat
<1>3. \A i \in 1..(Len(got) + Len(read_buffer)) :
        v[i] = IF i <= Len(got) THEN got[i] ELSE read_buffer[i - Len(got)]
  BY <1>0, <1>1, ConcatProperties, Zenon
<1>4. Len(got) \in Nat /\ Len(read_buffer) \in Nat /\ Len(All) \in Nat
  BY <1>0, LenProperties
<1>5. Begins(v, All)
  <2>1. Begins(v, v \o wire)
    BY <1>0, <1>2, BeginsConcat
  <2>2. Sent = v \o wire
    BY <1>1 DEF Sent
  <2>3. QED
    BY <2>1, <2>2, SentIsPart, BeginsTrans
<1>6. ASSUME NEW i \in 1..Len(read_buffer) PROVE All[Len(got) + i] = read_buffer[i]
  <2>1. PICK x : x = Len(got) + i
    OBVIOUS
  <2>2. /\ x \in 1..(Len(got) + Len(read_buffer)) /\ ~(x <= Len(got)) /\ x - Len(got) = i
        /\ x \in 1..Len(v)
    BY <1>2, <1>4, <2>1
  <2>3. v[x] = read_buffer[i]
    BY <1>3, <2>2
  <2>4. All[x] = v[x]
    BY <1>5, <2>2 DEF Begins
  <2>5. QED
    BY <2>1, <2>3, <2>4
<1>7. QED
  BY <1>2, <1>4, <1>5, <1>6 DEF Begins

\* What ReadCall takes from the buffer when it is asked for n bytes.
LEMMA ReadTakes ==
  ASSUME StreamTypeOK, NEW n \in Nat, ReadCall(n)
  PROVE  /\ rpc = "idle"
         /\ n <= Len(read_buffer) =>
              /\ got' = got \o Prefix(read_buffer, n) /\ Len(got') = Len(got) + n
              /\ rpc' = "idle"
         /\ n > Len(read_buffer) =>
              /\ Len(got') = Len(got) + Len(read_buffer)
              /\ rpc' # "idle" /\ rleft' = n - Len(read_buffer)
         /\ UNCHANGED <<writerVars, wire, closed>>
<1>0. /\ got \in Seq(Byte) /\ read_buffer \in Seq(Byte)
      /\ Len(got) \in Nat /\ Len(read_buffer) \in Nat
  BY LenProperties DEF StreamTypeOK
<1>1. PICK k : k = Taken(read_buffer, n)
  OBVIOUS
<1>2. /\ k \in 0..Len(read_buffer) /\ (n <= Len(read_buffer) => k = n)
      /\ (n > Len(read_buffer) => k = Len(read_buffer) /\ k # n)
  BY <1>0, <1>1 DEF Taken
<1>3. /\ rpc = "idle" /\ got' = got \o Prefix(read_buffer, k)
      /\ k = n => rpc' = "idle"
      /\ k # n => rpc' \in {"direct", "fill"} /\ rleft' = n - k
      /\ UNCHANGED <<writerVars, wire, closed>>
  BY <1>1 DEF ReadCall, ReadReturns
<1>4. Prefix(read_buffer, k) \in Seq(Byte) /\ Len(Prefix(read_buffer, k)) = k
  BY <1>0, <1>2, Split
<1>5. Len(got') = Len(got) + k
  <2>1. PICK p : p = Prefix(read_buffer, k)
    OBVIOUS
  <2>2. p \in Seq(Byte) /\ Len(p) = k /\ got \in Seq(Byte) /\ got' = got \o p
    BY <1>0, <1>3, <1>4, <2>1
  <2>3. Len(got \o p) = Len(got) + Len(p)
    BY <2>2, Concat
  <2>4. QED
    BY <2>2, <2>3
<1>6. QED
  BY <1>2, <1>3, <1>5

LEMMA LineSteps ==
  ASSUME DataInv, LineFromBuffer
  PROVE  /\ ReaderInv' /\ UNCHANGED writerVars
         /\ line' \in Seq(Byte) /\ multiline_buffer' \in Seq(Byte)
         /\ rst' \in {"reading", "ok"}
<1> DEFINE lfs == {i \in 1..Len(read_buffer) : read_buffer[i] = LF}
           n == IF lfs = {} THEN Len(read_buffer) ELSE Min(lfs)
           l == line \o Prefix(read_buffer, n)
<1>0. /\ StreamTypeOK /\ got \in Seq(Byte) /\ read_buffer \in Seq(Byte) /\ All \in Seq(Byte)
      /\ line \in Seq(Byte) /\ multiline_buffer \in Seq(Byte) /\ ReaderInv
      /\ Len(read_buffer) \in Nat /\ Len(got) \in Nat
  BY AllIs, LenProperties DEF DataInv, DataTypeOK, StreamInv, StreamTypeOK
<1>1. /\ rst = "reading" /\ mode = "data" /\ ReadCall(n)
      /\ lfs = {} => line' = l /\ UNCHANGED <<rst, multiline_buffer>>
      /\ lfs # {} => EndLine(l)
      /\ UNCHANGED <<text, mode, spc, writes, needed, ends, cut>>
  BY Zenon DEF LineFromBuffer
<1>2. All' = All
  BY <1>1 DEF All
<1>3. /\ n \in 0..Len(read_buffer)
      /\ lfs # {} => /\ n \in 1..Len(read_buffer) /\ read_buffer[n] = LF
                     /\ \A i \in 1..(n - 1) : read_buffer[i] # LF
  <2>1. lfs \in SUBSET Nat
    BY <1>0
  <2>2. CASE lfs = {}
    BY <1>0, <2>2
  <2>3. CASE lfs # {}
    <3>1. Min(lfs) \in lfs /\ \A i \in lfs : Min(lfs) <= i
      BY <2>1, <2>3, MinIsLeast
    <3>2. PICK e : e = Min(lfs)
      OBVIOUS
    <3>3. n = e /\ e \in 1..Len(read_buffer) /\ read_buffer[e] = LF
      BY <2>3, <3>1, <3>2
    <3>4. ASSUME NEW i \in 1..(e - 1) PROVE read_buffer[i] # LF
      <4>1. i \in 1..Len(read_buffer) /\ ~(e <= i)
        BY <1>0, <3>3
      <4>2. QED
        BY <3>1, <3>2, <4>1
    <3>5. e \in 0..Len(read_buffer)
      BY <1>0, <3>3
    <3> HIDE DEF lfs, n
    <3>6. QED
      BY <3>3, <3>4, <3>5
  <2>4. QED
    BY <2>2, <2>3
<1> HIDE DEF lfs, n
<1>4. Prefix(read_buffer, n) \in Seq(Byte) /\ Len(Prefix(read_buffer, n)) = n
  BY <1>0, <1>3, Split
<1>5. l \in Seq(Byte)
  BY <1>0, <1>4, Concat
<1> HIDE DEF l
<1>6. Len(got') = Len(got) + n /\ rpc' = "idle" /\ UNCHANGED writerVars
  <2>1. n \in Nat /\ n <= Len(read_buffer)
    BY <1>0, <1>3
  <2>2. QED
    BY <1>0, <1>1, <2>1, ReadTakes
<1>7. /\ line' \in Seq(Byte) /\ multiline_buffer' \in Seq(Byte)
      /\ rst' \in {"reading", "ok"}
  BY <1>0, <1>1, <1>5, EndLineType
<1>8. ASSUME ends = 0, ~cut, NEW d, Decodes(All, d)
      PROVE  d[Len(got) + n] = State(rst', line', multiline_buffer')
  <2>1. d[Len(got)] = State("reading", line, multiline_buffer)
    BY <1>0, <1>1, <1>8 DEF ReaderInv, DataDecoded
  <2>2. /\ Len(All) \in Nat
        /\ Len(got) + Len(read_buffer) <= Len(All)
        /\ \A i \in 1..Len(read_buffer) : All[Len(got) + i] = read_buffer[i]
    BY <1>8, NextBytes
  <2>3. CASE lfs = {}
    <3>1. n = Len(read_buffer) /\ \A i \in 1..Len(read_buffer) : read_buffer[i] # LF
      BY <2>3 DEF n, lfs
    <3>2. l = line \o read_buffer
      BY <1>0, <3>1, SubSeqFull DEF l, Prefix
    <3>3. Follows(All, Len(got), read_buffer)
      BY <1>0, <2>2, <3>1 DEF Follows
    <3>4. d[Len(got) + Len(read_buffer)]
            = State("reading", Glue(line, read_buffer), multiline_buffer)
      BY <1>0, <1>8, <2>1, <3>3, EatRun
    <3>5. QED
      BY <1>1, <2>3, <3>1, <3>2, <3>4 DEF Glue
  <2>4. CASE lfs # {}
    <3>1. PICK c : c = Prefix(read_buffer, n - 1)
      OBVIOUS
    <3>2. n \in 1..Len(read_buffer) /\ n - 1 \in 0..Len(read_buffer) /\ read_buffer[n] = LF
      BY <1>0, <1>3, <2>4
    <3>3. c \in Seq(Byte) /\ Len(c) = n - 1
      BY <1>0, <3>1, <3>2, Split
    <3>4. \A i \in 1..Len(c) : c[i] = read_buffer[i]
      <4>1. \A i \in 1..(n - 1) : read_buffer[i] \in Byte
        BY <1>0, <3>2, ElementOfSeq
      <4>2. \A i \in 1..((n - 1) - 1 + 1) : c[i] = read_buffer[1 + i - 1]
        BY <1>0, <3>1, <3>2, <4>1, SubSeqProperties DEF Prefix
      <4>3. QED
        BY <3>2, <3>3, <4>2
    <3>5. \A i \in 1..Len(c) : All[Len(got) + i] = c[i] /\ c[i] # LF
      <4>1. ASSUME NEW i \in 1..Len(c) PROVE All[Len(got) + i] = c[i] /\ c[i] # LF
        <5>1. i \in 1..Len(read_buffer) /\ i \in 1..(n - 1)
          BY <1>0, <3>2, <3>3
        <5>2. QED
          BY <1>3, <2>2, <2>4, <3>4, <5>1
      <4>2. QED
        BY <4>1
    <3>6. Len(got) + Len(c) <= Len(All)
      BY <1>0, <2>2, <3>2, <3>3
    <3>7. d[Len(got) + Len(c)] = State("reading", Glue(line, c), multiline_buffer)
      <4>1. Follows(All, Len(got), c)
        BY <1>0, <3>3, <3>5, <3>6 DEF Follows
      <4>2. QED
        BY <1>0, <1>8, <2>1, <4>1, EatRun
    <3>8. d[Len(got) + n] = Eaten(d[Len(got) + Len(c)], LF)
      <4>1. PICK x : x = Len(got) + n
        OBVIOUS
      <4>2. x \in 1..Len(All) /\ x - 1 = Len(got) + Len(c)
        BY <1>0, <2>2, <3>2, <3>3, <4>1
      <4>3. All[x] = LF
        BY <2>2, <3>2, <4>1
      <4>4. d[x] = Eaten(d[x - 1], All[x])
        BY <1>8, <4>2 DEF Decodes
      <4>5. QED
        BY <4>1, <4>2, <4>3, <4>4
    <3>9. PICK a : a = Glue(line, c)
      OBVIOUS
    <3>10. a \o <<LF>> = l
      <4>1. <<LF>> \in Seq(Byte)
        BY Marks
      <4>2. SubSeq(read_buffer, 1, n) = SubSeq(read_buffer, 1, n - 1) \o <<read_buffer[n]>>
        <5>1. 1 \in 1..Len(read_buffer) /\ n \in 1..Len(read_buffer)
          BY <1>0, <3>2
        <5>2. QED
          BY <1>0, <5>1, SubSeqRecursiveSecond
      <4>3. Prefix(read_buffer, n) = c \o <<LF>>
        BY <3>1, <3>2, <4>2 DEF Prefix
      <4>4. (line \o c) \o <<LF>> = line \o (c \o <<LF>>)
        <5>1. line \in Seq(Byte) /\ c \in Seq(Byte)
          BY <1>0, <3>3
        <5>2. QED
          BY <4>1, <5>1, Assoc
      <4>5. QED
        BY <3>9, <4>3, <4>4 DEF l, Glue
    <3>11. Eaten(State("reading", a, multiline_buffer), LF) = LineDone(multiline_buffer, a \o <<LF>>)
      BY DEF Eaten, State
    <3>12. State(rst', line', multiline_buffer') = LineDone(multiline_buffer, l)
      BY <1>0, <1>1, <1>5, <2>4, EndLineType
    <3>13. QED
      BY <3>7, <3>8, <3>9, <3>10, <3>11, <3>12
  <2>5. QED
    BY <2>3, <2>4
<1>9. ends' = 0 /\ ~cut' => DataDecoded'
  <2>1. SUFFICES ASSUME ends = 0, ~cut, NEW d, Decodes(All, d)
                 PROVE  d[Len(got')] = State(rst', line', multiline_buffer')
    BY <1>1, <1>2 DEF DataDecoded, State
  <2>2. QED
    BY <1>6, <1>8, <2>1
<1>10. ReaderInv'
  BY <1>1, <1>6, <1>9 DEF ReaderInv
<1>11. QED
  BY <1>6, <1>7, <1>10

\* The literal: a read brings no more than what is missing.
LEMMA LiteralSteps ==
  ASSUME DataInv, StreamInv', LiteralRead \/ LiteralFromBuffer \/ LiteralReading \/ LiteralEnds
  PROVE  /\ ReaderInv' /\ UNCHANGED writerVars
         /\ multiline_buffer' \in Seq(Byte) /\ needed' \in Nat
         /\ rst' \in {"reading", "ok", "failed"}
<1>0. /\ StreamTypeOK /\ got \in Seq(Byte) /\ read_buffer \in Seq(Byte) /\ wire \in Seq(Byte)
      /\ multiline_buffer \in Seq(Byte) /\ ReaderInv /\ needed \in Nat /\ rleft \in Nat
      /\ MaxRead \in Nat
      /\ Len(read_buffer) \in Nat /\ Len(got) \in Nat /\ Len(multiline_buffer) \in Nat
      /\ Len(wire) \in Nat
  BY LenProperties, DataAssumption
     DEF DataInv, DataTypeOK, StreamInv, StreamTypeOK, DataAssumption
<1>1. got' \in Seq(Byte) /\ Len(got') \in Nat
  BY LenProperties DEF StreamInv, StreamTypeOK
<1>2. mode = "literal" /\ mode' = mode /\ text' = text /\ rst = "reading"
  BY DEF LiteralRead, LiteralFromBuffer, LiteralReading, LiteralEnds, dataVars
<1>3. /\ needed + Len(multiline_buffer) = DataCrlfSize(text)
      /\ rpc = "idle" => multiline_buffer = got
      /\ rpc # "idle" => /\ rst = "reading" /\ rleft > 0
                         /\ Len(multiline_buffer) <= Len(got)
                         /\ (Len(got) - Len(multiline_buffer)) + rleft <= needed
  BY <1>0, <1>2 DEF ReaderInv
<1>4. PICK n : n = Min({needed, MaxRead})
  OBVIOUS
<1>5. n \in Nat /\ n <= needed
  <2>1. {needed, MaxRead} \in SUBSET Nat /\ {needed, MaxRead} # {}
    BY <1>0
  <2>2. n \in {needed, MaxRead} /\ \A x \in {needed, MaxRead} : n <= x
    BY <1>4, <2>1, MinIsLeast
  <2>3. QED
    BY <1>0, <2>2
<1>6. mode' # "data"
  BY <1>2
<1>7. CASE LiteralRead
  <2>1. Len(read_buffer) < n /\ ReadCall(n) /\ UNCHANGED dataVars
    BY <1>4, <1>7 DEF LiteralRead
  <2>2. /\ rpc = "idle" /\ Len(got') = Len(got) + Len(read_buffer)
        /\ rpc' # "idle" /\ rleft' = n - Len(read_buffer) /\ UNCHANGED writerVars
    BY <1>0, <1>5, <2>1, ReadTakes
  <2>3. multiline_buffer = got
    BY <1>3, <2>2
  <2>4. /\ rleft' > 0 /\ Len(multiline_buffer) <= Len(got')
        /\ (Len(got') - Len(multiline_buffer)) + rleft' <= needed
    BY <1>0, <1>5, <2>1, <2>2, <2>3
  <2>5. /\ UNCHANGED <<rst, multiline_buffer, needed>>
    BY <2>1 DEF dataVars
  <2>6. ReaderInv'
    BY <1>2, <1>3, <1>6, <2>2, <2>4, <2>5 DEF ReaderInv
  <2>7. QED
    BY <1>0, <1>2, <2>2, <2>5, <2>6
<1>8. ASSUME LiteralTake, rpc' = "idle", UNCHANGED writerVars,
             Len(got') - Len(multiline_buffer) \in 0..needed
      PROVE  /\ ReaderInv' /\ UNCHANGED writerVars
             /\ multiline_buffer' \in Seq(Byte) /\ needed' \in Nat
             /\ rst' \in {"reading", "ok", "failed"}
  <2>1. /\ multiline_buffer' = got' /\ needed' = needed - (Len(got') - Len(multiline_buffer))
        /\ rst' \in {"failed", "reading"}
    BY <1>8 DEF LiteralTake
  <2>2. needed' \in Nat /\ needed' + Len(multiline_buffer') = needed + Len(multiline_buffer)
    BY <1>0, <1>1, <1>8, <2>1
  <2>3. ReaderInv'
    BY <1>2, <1>3, <1>6, <1>8, <2>1, <2>2 DEF ReaderInv
  <2>4. QED
    BY <1>1, <1>8, <2>1, <2>2, <2>3
<1>9. CASE LiteralFromBuffer
  <2>1. Len(read_buffer) >= n /\ ReadCall(n) /\ LiteralTake
    BY <1>4, <1>9 DEF LiteralFromBuffer
  <2>2. /\ rpc = "idle" /\ Len(got') = Len(got) + n
        /\ rpc' = "idle" /\ UNCHANGED writerVars
    BY <1>0, <1>5, <2>1, ReadTakes
  <2>3. multiline_buffer = got
    BY <1>3, <2>2
  <2>4. Len(got') - Len(multiline_buffer) \in 0..needed
    BY <1>0, <1>5, <2>2, <2>3
  <2>5. QED
    BY <1>8, <2>1, <2>2, <2>4
<1>10. CASE LiteralReading
  <2>1. ReaderStep /\ LiteralTake
    BY <1>10 DEF LiteralReading
  <2>2. /\ rpc # "idle" /\ rpc' = "idle" /\ UNCHANGED writerVars
    BY <2>1 DEF ReaderStep, ReadDirect, ReadFill, ReadAtEnd, ReadFails, ReadGivesUp, ReadReturns
  <2>3. Len(got') - Len(got) \in 0..rleft
    <3>1. ASSUME NEW k \in 1..Len(wire), ReadDirect(k) PROVE Len(got') - Len(got) \in 0..rleft
      <4>1. got' = got \o Prefix(wire, k) /\ k \in 1..rleft /\ k \in 0..Len(wire)
        BY <1>0, <3>1 DEF ReadDirect
      <4>2. Prefix(wire, k) \in Seq(Byte) /\ Len(Prefix(wire, k)) = k
        BY <1>0, <4>1, Split
      <4>3. Len(got') = Len(got) + k
        <5>1. PICK p : p = Prefix(wire, k)
          OBVIOUS
        <5>2. p \in Seq(Byte) /\ Len(p) = k /\ got \in Seq(Byte) /\ got' = got \o p
          BY <1>0, <4>1, <4>2, <5>1
        <5>3. Len(got \o p) = Len(got) + Len(p)
          BY <5>2, Concat
        <5>4. QED
          BY <5>2, <5>3
      <4>4. QED
        BY <1>0, <4>1, <4>3
    <3>2. ASSUME NEW k \in 1..Len(wire), ReadFill(k) PROVE Len(got') - Len(got) \in 0..rleft
      <4>1. PICK j : j = Taken(Prefix(wire, k), rleft)
        OBVIOUS
      <4>2. k \in 0..Len(wire)
        BY <1>0
      <4>3. Len(Prefix(wire, k)) = k
        BY <1>0, <4>2, Split
      <4>4. j \in 0..Len(wire) /\ j <= rleft
        BY <1>0, <4>1, <4>3 DEF Taken
      <4>5. Prefix(wire, j) \in Seq(Byte) /\ Len(Prefix(wire, j)) = j
        BY <1>0, <4>4, Split
      <4>6. got' = got \o Prefix(wire, j)
        BY <3>2, <4>1 DEF ReadFill
      <4>7. Len(got') = Len(got) + j
        <5>1. PICK p : p = Prefix(wire, j)
          OBVIOUS
        <5>2. p \in Seq(Byte) /\ Len(p) = j /\ got \in Seq(Byte) /\ got' = got \o p
          BY <1>0, <4>5, <4>6, <5>1
        <5>3. Len(got \o p) = Len(got) + Len(p)
          BY <5>2, Concat
        <5>4. QED
          BY <5>2, <5>3
      <4>8. QED
        BY <1>0, <4>4, <4>7
    <3>3. ASSUME ReadAtEnd \/ ReadFails PROVE Len(got') - Len(got) \in 0..rleft
      <4>1. got' = got
        BY <3>3 DEF ReadAtEnd, ReadFails
      <4>2. QED
        BY <1>0, <4>1
    <3>4. QED
      BY <2>1, <3>1, <3>2, <3>3 DEF ReaderStep
  <2>4. Len(got') - Len(multiline_buffer) \in 0..needed
    BY <1>0, <1>1, <1>3, <2>2, <2>3
  <2>5. QED
    BY <1>8, <2>1, <2>2, <2>4
<1>11. CASE LiteralEnds
  <2>1. /\ needed = 0 /\ rst' = "ok" /\ UNCHANGED <<multiline_buffer, needed>>
        /\ UNCHANGED <<writerVars, got, rpc, rleft>>
    BY <1>11 DEF LiteralEnds, streamVars, readerVars
  <2>2. rpc = "idle"
    BY <1>0, <1>3, <2>1
  <2>3. ReaderInv'
    BY <1>2, <1>3, <1>6, <2>1, <2>2 DEF ReaderInv
  <2>4. QED
    BY <1>0, <2>1, <2>3
<1>12. QED
  BY <1>7, <1>9, <1>10, <1>11

LEMMA ReaderSteps ==
  ASSUME DataInv, StreamInv', Reader
  PROVE  DataInv'
<1>0. /\ SenderInv /\ ReaderInv /\ DataTypeOK /\ StreamTypeOK'
      /\ text \in Seq(Byte) /\ mode \in {"data", "literal"}
      /\ line \in Seq(Byte) /\ multiline_buffer \in Seq(Byte) /\ needed \in Nat
      /\ ends \in 0..MaxEnds /\ rst \in {"reading", "ok", "failed"}
  BY DEF DataInv, DataTypeOK, StreamInv
<1>1. ASSUME ReaderInv', UNCHANGED <<writerVars, text, mode, spc, writes, cut>>,
             line' \in Seq(Byte), multiline_buffer' \in Seq(Byte), needed' \in Nat,
             ends' \in 0..MaxEnds, rst' \in {"reading", "ok", "failed"}
      PROVE  DataInv'
  <2>1. SenderInv'
    BY <1>0, <1>1, SenderKeeps
  <2>2. DataTypeOK'
    BY <1>0, <1>1 DEF DataTypeOK
  <2>3. QED
    BY <1>0, <1>1, <2>1, <2>2 DEF DataInv
<1>2. CASE LineFromBuffer
  <2>1. /\ ReaderInv' /\ UNCHANGED writerVars
        /\ line' \in Seq(Byte) /\ multiline_buffer' \in Seq(Byte)
        /\ rst' \in {"reading", "ok"}
    BY <1>2, LineSteps
  <2>2. UNCHANGED <<text, mode, spc, writes, needed, ends, cut>>
    BY <1>2 DEF LineFromBuffer
  <2>3. QED
    BY <1>0, <1>1, <2>1, <2>2
<1>3. CASE LineFeeds \/ LiteralFeeds
  <2>1. UNCHANGED <<got, rpc, rleft, writerVars, dataVars>>
    BY <1>3 DEF LineFeeds, LiteralFeeds, Feed
  <2>2. All' = All
    BY <2>1 DEF All, dataVars
  <2>3. DataDecoded => DataDecoded'
    BY <2>1, <2>2 DEF DataDecoded, dataVars
  <2>4. ReaderInv'
    BY <1>0, <2>1, <2>3 DEF ReaderInv, dataVars
  <2>5. QED
    BY <1>0, <1>1, <2>1, <2>4 DEF dataVars
<1>4. CASE LineAtEnd
  <2>1. /\ rst = "reading" /\ mode = "data" /\ ends < MaxEnds /\ EndLine(line)
        /\ ends' = ends + 1 /\ UNCHANGED <<text, mode, spc, writes, needed, cut>>
        /\ UNCHANGED <<rpc, writerVars>>
    BY <1>4 DEF LineAtEnd, FeedAtEnd
  <2>2. /\ line' \in Seq(Byte) /\ multiline_buffer' \in Seq(Byte)
        /\ rst' \in {"reading", "ok"}
    BY <1>0, <2>1, EndLineType
  <2>3. MaxEnds \in Nat
    BY DataAssumption DEF DataAssumption
  <2>4. ends' \in 0..MaxEnds /\ ends' # 0
    BY <1>0, <2>1, <2>3
  <2>5. ReaderInv'
    BY <1>0, <2>1, <2>4 DEF ReaderInv
  <2>6. QED
    BY <1>0, <1>1, <2>1, <2>2, <2>4, <2>5
<1>5. CASE LineFails
  <2>1. /\ mode = "data" /\ rst' = "failed"
        /\ UNCHANGED <<text, mode, spc, writes, line, multiline_buffer, needed, ends, cut>>
        /\ UNCHANGED <<rpc, writerVars>>
    BY <1>5 DEF LineFails, FeedFails
  <2>2. ReaderInv'
    BY <1>0, <2>1 DEF ReaderInv
  <2>3. QED
    BY <1>0, <1>1, <2>1, <2>2
<1>6. CASE LiteralRead \/ LiteralReading \/ LiteralFromBuffer \/ LiteralEnds
  <2>1. /\ ReaderInv' /\ UNCHANGED writerVars
        /\ multiline_buffer' \in Seq(Byte) /\ needed' \in Nat
        /\ rst' \in {"reading", "ok", "failed"}
    BY <1>6, LiteralSteps
  <2>2. UNCHANGED <<text, mode, spc, writes, line, ends, cut>>
    BY <1>6 DEF LiteralRead, LiteralReading, LiteralFromBuffer, LiteralEnds, dataVars
  <2>3. QED
    BY <1>0, <1>1, <2>1, <2>2
<1>7. QED
  BY <1>2, <1>3, <1>4, <1>5, <1>6 DEF Reader

LEMMA DataInvariant == DataSpec => []DataInv
<1>1. ASSUME DataInv, [DataNext]_textVars PROVE DataInv'
  <2>1. StreamInv'
    BY <1>1, DataStreams
  <2>2. CASE Sender \/ SenderCloses
    BY <1>1, <2>1, <2>2, SenderSteps
  <2>3. CASE Reader
    BY <1>1, <2>1, <2>3, ReaderSteps
  <2>4. CASE UNCHANGED textVars
    <3>1. UNCHANGED <<streamVars, dataVars>>
      BY <2>4 DEF textVars
    <3>2. UNCHANGED <<writerVars, readerVars>>
      BY <3>1 DEF streamVars
    <3>3. SenderInv'
      BY <1>1, <3>1, <3>2, SenderKeeps DEF DataInv, dataVars
    <3>4. ReaderInv'
      BY <1>1, <3>1, <3>2, ReaderWaits DEF DataInv, dataVars
    <3>5. DataTypeOK'
      BY <1>1, <2>1, <3>1 DEF DataInv, DataTypeOK, StreamInv, dataVars
    <3>6. QED
      BY <1>1, <2>1, <3>1, <3>3, <3>4, <3>5 DEF DataInv, dataVars
  <2>5. QED
    BY <1>1, <2>2, <2>3, <2>4 DEF DataNext
<1>2. QED
  BY <1>1, DataStart, PTL DEF DataSpec

\* A call of mailstream_send_data or mailstream_send_data_crlf that returns 0
\* has put the whole text on the connection, quoted, ended and with its line
\* breaks fixed as the protocol wants it and of the size that was announced,
\* for any text, any sizes of the buffers and however the low level stream
\* takes the bytes, unless a write was short.
THEOREM TextIsSent == DataSpec => []SendDelivers
<1>1. ASSUME DataInv PROVE SendDelivers
  <2>1. SUFFICES ASSUME spc = "ok", ~cut
                 PROVE  IF mode = "data"
                          THEN Sent = Stuffed(text) \o CRLF \o <<Dot>> \o CRLF
                          ELSE Sent = NormalText(text) /\ Len(Sent) = DataCrlfSize(text)
    BY DEF SendDelivers
  <2>2. /\ wpc = "idle" /\ wret = "flushed" /\ writes = <<>>
        /\ Glue(accepted, FlattenSeq(writes)) = All
        /\ text \in Seq(Byte) /\ mode \in {"data", "literal"} /\ accepted \in Seq(Byte)
        /\ Sent = accepted
    BY <1>1, <2>1 DEF DataInv, SenderInv, StreamInv, StreamTypeOK, AcceptedIsSent
  <2>3. Sent = All
    <3>1. Glue(accepted, <<>>) = accepted
      BY <2>2, Empty DEF Glue
    <3>2. QED
      BY <2>2, <3>1, FlatEmpty
  <2>4. CASE mode = "data"
    <3>1. All = Ended(Stuffed(text))
      BY <2>2, <2>4, AllIs
    <3>2. Stuffed(text) \in Seq(Byte)
      <4>1. Len(text) \in 0..Len(text)
        BY <2>2, LenProperties
      <4>2. QED
        BY <2>2, <4>1, UptoIs, UptoAll
    <3>3. QED
      BY <2>3, <2>4, <3>1, <3>2, EndedIs
  <2>5. CASE mode = "literal"
    BY <2>2, <2>3, <2>5, AllIs
  <2>6. QED
    BY <2>2, <2>4, <2>5
<1>2. QED
  BY <1>1, DataInvariant, PTL

\* A call of mailstream_read_multiline that succeeds, or a literal that was
\* read, has the text that the peer sent, for any text and however the bytes
\* were cut into pieces by the writes, the connection, the buffers and the
\* reads, unless the stream ended before the final period or a write was short.
THEOREM TextIsRead == DataSpec => []ReadDelivers
<1>1. ASSUME DataInv PROVE ReadDelivers
  <2>1. DataTypeOK
    BY <1>1 DEF DataInv
  <2>2. SUFFICES ASSUME rst = "ok", ends = 0, ~cut
                 PROVE  IF mode = "data"
                          THEN Nul \notin Range(text) => multiline_buffer = NormalText(text) \o CRLF
                          ELSE multiline_buffer = NormalText(text)
    BY <2>1 DEF ReadDelivers
  <2>3. /\ text \in Seq(Byte) /\ mode \in {"data", "literal"} /\ ReaderInv
        /\ got \in Seq(Byte) /\ read_buffer \in Seq(Byte) /\ wire \in Seq(Byte)
        /\ StreamTypeOK
    BY <1>1 DEF DataInv, StreamInv, StreamTypeOK
  <2>4. Begins(got, All)
    <3>1. PICK r : r = read_buffer \o wire
      OBVIOUS
    <3>2. r \in Seq(Byte)
      BY <2>3, <3>1, Concat
    <3>3. Begins(got, got \o r)
      BY <2>3, <3>2, BeginsConcat
    <3>4. Sent = got \o r
      BY <2>3, <3>1, SentType
    <3>5. Begins(got, Sent)
      BY <3>3, <3>4
    <3>6. QED
      BY <1>1, <2>2, <3>5, SentIsPart, BeginsTrans
  <2>5. CASE mode = "data"
    <3>1. SUFFICES ASSUME Nul \notin Range(text)
                   PROVE  multiline_buffer = NormalText(text) \o CRLF
      BY <2>5
    <3>2. NoNul(text)
      <4>1. DOMAIN text = 1..Len(text)
        BY <2>3, LenProperties
      <4>2. QED
        BY <3>1, <4>1 DEF NoNul, Range
    <3>3. All = Ended(Stuffed(text)) /\ All \in Seq(Byte)
      BY <2>3, <2>5, AllIs
    <3>4. PICK d : Decodes(All, d)
      BY <3>3, DecodingExists
    <3>5. d[Len(got)] = State("ok", line, multiline_buffer)
      BY <2>2, <2>3, <2>5, <3>4 DEF ReaderInv, DataDecoded
    <3>6. Len(got) \in 0..Len(All)
      BY <2>3, <2>4, <3>3, LenProperties DEF Begins
    <3>7. d[Len(got)].rst = "ok"
      BY <3>5 DEF State
    <3>8. d[Len(got)] = State("ok", <<>>, NormalText(text) \o CRLF)
      BY <2>3, <3>2, <3>3, <3>4, <3>6, <3>7, EndDecoded
    <3>9. PICK n : n = NormalText(text) \o CRLF
      OBVIOUS
    <3>10. State("ok", line, multiline_buffer).read = State("ok", <<>>, n).read
      BY <3>5, <3>8, <3>9
    <3>11. QED
      BY <3>9, <3>10 DEF State
  <2>6. CASE mode = "literal"
    <3>1. /\ All = NormalText(text) /\ Len(All) = DataCrlfSize(text)
      BY <2>3, <2>6, AllIs
    <3>2. needed = 0 /\ needed + Len(multiline_buffer) = DataCrlfSize(text) /\ multiline_buffer = got
      BY <2>2, <2>3, <2>6 DEF ReaderInv, StreamTypeOK
    <3>3. Len(got) = Len(All)
      BY <2>3, <3>1, <3>2, LenProperties
    <3>4. got = All
      BY <2>4, <3>3, BeginsSame
    <3>5. QED
      BY <2>6, <3>1, <3>2, <3>4
  <2>7. QED
    BY <2>3, <2>5, <2>6
<1>2. QED
  BY <1>1, DataInvariant, PTL

\* The two programs use their streams as MailStream lets any program do, so
\* what is proved of the buffers holds of them.
THEOREM DataUsesStreams == DataSpec => StreamSpec
<1>1. DataInit => StreamInit
  BY DEF DataInit
<1>2. DataInv /\ [DataNext]_textVars => [StreamNext]_streamVars
  BY DataStreams
<1>3. QED
  BY <1>1, <1>2, DataInvariant, PTL DEF DataSpec, StreamSpec

-----------------------------------------------------------------------------
\* MailSem.

SemInv == TypeOK /\ WaitersCounted /\ NoLostWakeup

\* The sleeping and the woken threads are finite sets.
LEMMA FiniteWaiters ==
  /\ IsFiniteSet(Sleeping) /\ IsFiniteSet(Woken)
  /\ Cardinality(Sleeping) \in Nat /\ Cardinality(Woken) \in Nat
<1>1. Sleeping \subseteq Threads /\ Woken \subseteq Threads
  BY DEF Sleeping, Woken
<1>2. IsFiniteSet(Sleeping) /\ IsFiniteSet(Woken)
  BY <1>1, SemAssumption, FS_Subset DEF SemAssumption
<1>3. QED
  BY <1>2, FS_CardinalityType

\* A thread that goes from one of the two sets to the other changes both
\* cardinalities by one.
LEMMA Waking ==
  ASSUME pc \in [Threads -> {"run", "enter", "sleep", "woken"}],
         NEW t \in Threads, pc[t] = "sleep", Go(t, "woken")
  PROVE  /\ Cardinality(Sleeping') = Cardinality(Sleeping) - 1
         /\ Cardinality(Woken') = Cardinality(Woken) + 1
<1>1. Sleeping' = Sleeping \ {t} /\ t \in Sleeping
  BY DEF Sleeping, Go
<1>2. Woken' = Woken \cup {t} /\ t \notin Woken
  BY DEF Woken, Go
<1>3. QED
  BY <1>1, <1>2, FiniteWaiters, FS_AddElement, FS_RemoveElement

\* The same, for a woken thread that finds no permit and sleeps again.
LEMMA FallingAsleep ==
  ASSUME pc \in [Threads -> {"run", "enter", "sleep", "woken"}],
         NEW t \in Threads, pc[t] = "woken", Go(t, "sleep")
  PROVE  /\ Cardinality(Sleeping') = Cardinality(Sleeping) + 1
         /\ Cardinality(Woken') = Cardinality(Woken) - 1
<1>1. Sleeping' = Sleeping \cup {t} /\ t \notin Sleeping
  BY DEF Sleeping, Go
<1>2. Woken' = Woken \ {t} /\ t \in Woken
  BY DEF Woken, Go
<1>3. QED
  BY <1>1, <1>2, FiniteWaiters, FS_AddElement, FS_RemoveElement

\* SemInv is inductive: one step per action.
LEMMA SemStep ==
  ASSUME SemInv, [Next]_vars
  PROVE  SemInv'
<1> USE FiniteWaiters, SemAssumption DEF SemAssumption, SemInv, TypeOK
<1>1. ASSUME NEW t \in Threads, DownCall(t) \/ EnterAndTake(t) PROVE SemInv'
  <2>1. Sleeping' = Sleeping /\ Woken' = Woken
    BY <1>1 DEF DownCall, EnterAndTake, Go, Sleeping, Woken
  <2>2. QED
    BY <1>1, <2>1 DEF DownCall, EnterAndTake, Go, WaitersCounted, NoLostWakeup
<1>2. ASSUME NEW t \in Threads, EnterAndSleep(t) PROVE SemInv'
  <2>1. Sleeping' = Sleeping \cup {t} /\ t \notin Sleeping /\ Woken' = Woken
    BY <1>2 DEF EnterAndSleep, Go, Sleeping, Woken
  <2>2. Cardinality(Sleeping') = Cardinality(Sleeping) + 1
    BY <2>1, FS_AddElement
  <2>3. QED
    BY <1>2, <2>1, <2>2 DEF EnterAndSleep, Go, WaitersCounted, NoLostWakeup
<1>3. ASSUME NEW t \in Threads, SpuriousWakeup(t) PROVE SemInv'
  <2>1. /\ Cardinality(Sleeping') = Cardinality(Sleeping) - 1
        /\ Cardinality(Woken') = Cardinality(Woken) + 1
    BY <1>3, Waking DEF SpuriousWakeup
  <2>2. Sleeping # {}
    BY <1>3 DEF SpuriousWakeup, Sleeping
  <2>3. QED
    BY <1>3, <2>1, <2>2 DEF SpuriousWakeup, Go, WaitersCounted, NoLostWakeup
<1>4. ASSUME NEW t \in Threads, WakeAndTake(t) PROVE SemInv'
  <2>1. Woken' = Woken \ {t} /\ t \in Woken /\ Sleeping' = Sleeping
    BY <1>4 DEF WakeAndTake, Go, Sleeping, Woken
  <2>2. Cardinality(Woken') = Cardinality(Woken) - 1
    BY <2>1, FS_RemoveElement
  <2>3. Cardinality(Woken') \in Nat
    BY <2>1, FS_RemoveElement, FS_CardinalityType
  <2>4. waiters_count > 0
    BY <2>2, <2>3 DEF WaitersCounted
  <2>5. QED
    BY <1>4, <2>1, <2>2, <2>4 DEF WakeAndTake, Go, WaitersCounted, NoLostWakeup
<1>5. ASSUME NEW t \in Threads, WakeAndSleep(t) PROVE SemInv'
  <2>1. /\ Cardinality(Sleeping') = Cardinality(Sleeping) + 1
        /\ Cardinality(Woken') = Cardinality(Woken) - 1
    BY <1>5, FallingAsleep DEF WakeAndSleep
  <2>2. Cardinality(Woken') \in Nat
    <3>1. Woken' \subseteq Threads
      BY DEF Woken
    <3>2. QED
      BY <3>1, FS_Subset, FS_CardinalityType
  <2>3. QED
    BY <1>5, <2>1, <2>2 DEF WakeAndSleep, Go, WaitersCounted, NoLostWakeup
<1>6. ASSUME NEW t \in Threads, WaitFails(t) PROVE SemInv'
  <2>1. Sleeping' = Sleeping \ {t} /\ t \in Sleeping /\ Woken' = Woken
    BY <1>6 DEF WaitFails, Go, Sleeping, Woken
  <2>2. Cardinality(Sleeping') = Cardinality(Sleeping) - 1
    BY <2>1, FS_RemoveElement
  <2>3. QED
    BY <1>6, <2>1, <2>2 DEF WaitFails, Go, WaitersCounted, NoLostWakeup
<1>7. CASE Up
  <2>1. CASE Signal /\ Sleeping # {}
    <3>1. PICK u \in Sleeping : Go(u, "woken")
      BY <1>7, <2>1 DEF Up
    <3>2. /\ Cardinality(Sleeping') = Cardinality(Sleeping) - 1
          /\ Cardinality(Woken') = Cardinality(Woken) + 1
      BY <3>1, Waking DEF Sleeping
    <3>3. QED
      BY <1>7, <2>1, <3>1, <3>2
         DEF Up, Go, Sleeping, WaitersCounted, NoLostWakeup
  <2>2. CASE ~(Signal /\ Sleeping # {})
    \* Without a signal nobody sleeps: every sleeper is counted.
    <3>1. Sleeping = {}
      <4>1. CASE Sleeping # {}
        <5>1. Cardinality(Sleeping) # 0
          BY <4>1, FS_EmptySet
        <5>2. QED
          BY <5>1, <4>1, <2>2 DEF Signal, WaitersCounted
      <4>2. QED
        BY <4>1
    <3>2. UNCHANGED pc
      BY <1>7, <2>2 DEF Up
    <3>3. Sleeping' = {} /\ Woken' = Woken
      BY <3>1, <3>2 DEF Sleeping, Woken
    <3>4. QED
      BY <1>7, <3>1, <3>2, <3>3 DEF Up, WaitersCounted, NoLostWakeup
  <2>3. QED
    BY <2>1, <2>2
<1>8. CASE UNCHANGED vars
  <2>1. Sleeping' = Sleeping /\ Woken' = Woken
    BY <1>8 DEF vars, Sleeping, Woken
  <2>2. QED
    BY <1>8, <2>1 DEF vars, WaitersCounted, NoLostWakeup
<1>9. QED
  BY <1>1, <1>2, <1>3, <1>4, <1>5, <1>6, <1>7, <1>8 DEF Next, MutexStep

\* mailsem.c never loses a wake-up and its waiters are counted.
LEMMA SemInvariant == Spec => []SemInv
<1>1. Init => SemInv
  <2> SUFFICES ASSUME Init PROVE SemInv
    OBVIOUS
  <2>1. Sleeping = {} /\ Woken = {}
    BY DEF Init, Sleeping, Woken
  <2>2. QED
    BY <2>1, FS_EmptySet, SemAssumption
       DEF Init, SemInv, TypeOK, WaitersCounted, NoLostWakeup, SemAssumption
<1>2. SemInv /\ [Next]_vars => SemInv'
  BY SemStep
<1>3. QED
  BY <1>1, <1>2, PTL DEF Spec

\* mailsem_internal_wait counts every thread of the wait loop, those included
\* that were woken and have not run yet: waiters_count is never too small for
\* mailsem_internal_post to see that it has to signal.
THEOREM WaitersAreCounted == Spec => []WaitersCounted
<1>1. SemInv => WaitersCounted
  BY DEF SemInv
<1>2. QED
  BY <1>1, SemInvariant, PTL

\* mailsem_internal_post signals whenever there is somebody to signal to: as
\* long as threads sleep, at least as many are awake as there are permits.
THEOREM WakeupsKept == Spec => []NoLostWakeup
<1>1. SemInv => NoLostWakeup
  BY DEF SemInv
<1>2. QED
  BY <1>1, SemInvariant, PTL

\* Every step of mailsem.c is a step of the abstract semaphore or changes
\* nothing that its clients can see.
THEOREM ImplementsSafely == Spec => S!SafeSpec
<1>1. Init => S!Init
  BY DEF Init, S!Init
<1>2. SemInv /\ [Next]_vars => [S!Next]_(S!vars)
  <2> SUFFICES ASSUME SemInv, [Next]_vars PROVE [S!Next]_(S!vars)
    OBVIOUS
  <2> DEFINE W == {t \in Threads : pc[t] # "run"}
  <2> USE DEF SemInv, TypeOK
  <2>1. ASSUME NEW t \in Threads, DownCall(t) PROVE S!Ask(t)
    BY <2>1 DEF DownCall, Go, S!Ask
  <2>2. ASSUME NEW t \in Threads, EnterAndTake(t) \/ WakeAndTake(t) PROVE S!Grant(t)
    BY <2>2 DEF EnterAndTake, WakeAndTake, Go, S!Grant
  <2>3. ASSUME NEW t \in Threads, WaitFails(t) PROVE S!Refuse(t)
    BY <2>3 DEF WaitFails, Go, S!Refuse
  <2>4. ASSUME NEW t \in Threads, EnterAndSleep(t) \/ WakeAndSleep(t) \/ SpuriousWakeup(t)
        PROVE  UNCHANGED S!vars
    BY <2>4 DEF EnterAndSleep, WakeAndSleep, SpuriousWakeup, Go, S!vars
  <2>5. ASSUME Up PROVE S!Release
    BY <2>5 DEF Up, Go, Sleeping, S!Release
  <2>6. ASSUME UNCHANGED vars PROVE UNCHANGED S!vars
    BY <2>6 DEF vars, S!vars
  <2>7. QED
    BY <2>1, <2>2, <2>3, <2>4, <2>5, <2>6 DEF Next, MutexStep, S!Next
<1>3. QED
  BY <1>1, <1>2, SemInvariant, PTL DEF Spec, S!SafeSpec

-----------------------------------------------------------------------------
\* Cancellation.  The flag stops the calls that begin after it and the byte in
\* the pipe the one that was polling: nobody but the worker takes bytes out of
\* the pipe, and it does not poll for a read or a write again.  What it does
\* after poll() has let it through, nothing stops.

\* While a call polls on a cancelled stream its byte is still in the pipe.
IdleInv ==
  /\ IdleTypeOK
  /\ notified => ms_cancelled
  /\ \A c \in Controllers : cpc[c] = "cancel_write" => ms_cancelled
  /\ notified /\ worker \in Calls => cancel_pipe > 0

LEMMA IdleStart == IdleInit => IdleInv
<1> SUFFICES ASSUME IdleInit PROVE IdleInv
  OBVIOUS
<1>1. 0 \in 0..MaxArrivals /\ 0 \in 0..MaxNotify
  BY IdleAssumption DEF IdleAssumption
<1>2. IdleTypeOK
  BY <1>1 DEF IdleInit, IdleTypeOK, Calls, Transfers
<1>3. QED
  BY <1>2 DEF IdleInit, IdleInv, Calls

LEMMA IdleStep ==
  ASSUME IdleInv, [IdleNext]_workVars
  PROVE  IdleInv'
<1> USE IdleAssumption
    DEF IdleAssumption, IdleInv, IdleTypeOK, Calls, Transfers, socketVars, cancelVars, idleVars, controlVars
<1>1. ASSUME NEW e \in {"in", "out"}, SocketReady(e) PROVE IdleInv'
  BY <1>1 DEF SocketReady
<1>2. ASSUME NEW op \in Calls, SocketCall(op) PROVE IdleInv'
  BY <1>2 DEF SocketCall, WorkerReturns
<1>3. ASSUME NEW op \in Calls, SocketTimeout(op) PROVE IdleInv'
  BY <1>3 DEF SocketTimeout, WorkerReturns
<1>4. ASSUME NEW op \in Calls, SocketPoll(op) PROVE IdleInv'
  <2>1. CASE cancel_pipe > 0
    <3>1. cancel_pipe - 1 \in Nat
      BY <2>1
    <3>2. /\ cancel_pipe' = cancel_pipe - 1
          /\ worker' = "run" /\ result' = "failed" /\ pending' = pending \ {"cancel"}
          /\ UNCHANGED <<ready, arrivals, ms_cancelled, idling, idle, idle_pipe, cpc, notifies, notified>>
      BY <1>4, <2>1 DEF SocketPoll, WorkerReturns
    <3>3. QED
      BY <3>1, <3>2
  <2>2. CASE ~(cancel_pipe > 0)
    BY <1>4, <2>2 DEF SocketPoll, Transfer
  <2>3. QED
    BY <2>1, <2>2
<1>17. ASSUME NEW op \in Calls, SocketTransfer(op) PROVE IdleInv'
  BY <1>17 DEF SocketTransfer, WorkerReturns
<1>5. CASE WaitHasData \/ WaitTimeout
  <2>1. CASE WaitHasData
    BY <2>1 DEF WaitHasData, WorkerReturns
  <2>2. CASE WaitTimeout
    BY <2>2 DEF WaitTimeout, WorkerReturns
  <2>3. QED
    BY <1>5, <2>1, <2>2
<1>6. CASE WaitInterrupted
  BY <1>6 DEF WaitInterrupted, WorkerReturns
<1>7. CASE WaitCancelled
  BY <1>7 DEF WaitCancelled, WorkerReturns
<1>8. CASE SetupIdle
  <2>1. CASE idling
    BY <1>8, <2>1 DEF SetupIdle, WorkerReturns
  <2>2. CASE ~idling
    <3>1. /\ idle' = "object" /\ idle_pipe' = 0 /\ idling' = TRUE
          /\ worker' = "run" /\ result' = "ok" /\ pending' = pending \ {"interrupt"}
          /\ UNCHANGED <<ready, arrivals, ms_cancelled, cancel_pipe, cpc, notifies, notified>>
      BY <1>8, <2>2 DEF SetupIdle, WorkerReturns
    <3>2. QED
      BY <3>1
  <2>3. QED
    BY <2>1, <2>2
<1>9. CASE WaitIdle
  BY <1>9 DEF WaitIdle, WorkerReturns
<1>10. CASE UnsetupIdle
  BY <1>10 DEF UnsetupIdle, WorkerReturns
<1>11. ASSUME NEW c \in Controllers, CancelFlag(c) PROVE IdleInv'
  BY <1>11 DEF CancelFlag, Control
<1>12. ASSUME NEW c \in Controllers, CancelWrite(c) PROVE IdleInv'
  BY <1>12 DEF CancelWrite, Control
<1>13. ASSUME NEW c \in Controllers, InterruptTest(c) PROVE IdleInv'
  BY <1>13 DEF InterruptTest, Control
<1>14. ASSUME NEW c \in Controllers, InterruptWrite(c) PROVE IdleInv'
  BY <1>14 DEF InterruptWrite, Control
<1>15. CASE UNCHANGED workVars
  BY <1>15 DEF workVars
<1>16. QED
  BY <1>1, <1>2, <1>3, <1>4, <1>5, <1>6, <1>7, <1>8, <1>9, <1>10, <1>11, <1>12,
     <1>13, <1>14, <1>15, <1>17 DEF IdleNext, PollReturns

LEMMA IdleInvariant == IdleSpec => []IdleInv
<1>1. IdleInv /\ [IdleNext]_workVars => IdleInv'
  BY IdleStep
<1>2. QED
  BY IdleStart, <1>1, PTL DEF IdleSpec

\* The only step that lets a read or a write through is the return of poll()
\* with an empty cancel pipe.
LEMMA TransferNeedsEmptyPipe ==
  ASSUME IdleInv, [IdleNext]_workVars, worker' \in Transfers, worker' # worker
  PROVE  worker \in Calls /\ cancel_pipe = 0
<1> USE DEF Calls, Transfers
<1>1. ASSUME NEW o \in Calls, SocketPoll(o) PROVE worker \in Calls /\ cancel_pipe = 0
  BY <1>1 DEF SocketPoll, WorkerReturns, IdleInv, IdleTypeOK
<1>2. CASE \/ \E o \in Calls : SocketTimeout(o) \/ SocketTransfer(o)
           \/ WaitHasData \/ WaitInterrupted \/ WaitCancelled \/ WaitTimeout
           \/ SetupIdle \/ UnsetupIdle
  BY <1>2 DEF SocketTimeout, SocketTransfer, WaitHasData, WaitInterrupted, WaitCancelled,
       WaitTimeout, SetupIdle, UnsetupIdle, WorkerReturns
<1>3. CASE \/ \E e \in {"in", "out"} : SocketReady(e)
           \/ \E c \in Controllers : \/ CancelFlag(c) \/ CancelWrite(c)
                                     \/ InterruptTest(c) \/ InterruptWrite(c)
           \/ UNCHANGED workVars
  BY <1>3 DEF SocketReady, CancelFlag, CancelWrite, InterruptTest, InterruptWrite, workVars
<1>4. CASE (\E o \in Calls : SocketCall(o)) \/ WaitIdle
  BY <1>4 DEF SocketCall, WaitIdle, WorkerReturns
<1>5. QED
  BY <1>1, <1>2, <1>3, <1>4 DEF IdleNext, PollReturns

\* poll() never ends a call with success.
LEMMA SuccessNeedsTransfer ==
  ASSUME [IdleNext]_workVars, worker' = "run", result' = "ok"
  PROVE  worker \notin Calls
<1> USE DEF Calls
<1>1. CASE \E o \in Calls : SocketPoll(o) \/ SocketTimeout(o) \/ SocketTransfer(o)
  BY <1>1 DEF SocketPoll, SocketTimeout, SocketTransfer, Transfer, WorkerReturns
<1>2. CASE \/ \E e \in {"in", "out"} : SocketReady(e)
           \/ \E c \in Controllers : \/ CancelFlag(c) \/ CancelWrite(c)
                                     \/ InterruptTest(c) \/ InterruptWrite(c)
           \/ UNCHANGED workVars
  BY <1>2 DEF SocketReady, CancelFlag, CancelWrite, InterruptTest, InterruptWrite, workVars
<1>3. CASE \/ \E o \in Calls : SocketCall(o)
           \/ WaitHasData \/ WaitInterrupted \/ WaitCancelled \/ WaitTimeout
           \/ SetupIdle \/ WaitIdle \/ UnsetupIdle
  BY <1>3 DEF SocketCall, WaitHasData, WaitInterrupted, WaitCancelled, WaitTimeout,
       SetupIdle, WaitIdle, UnsetupIdle
<1>4. QED
  BY <1>1, <1>2, <1>3 DEF IdleNext, PollReturns

\* After a call of mailstream_cancel has returned, no read and no write of the
\* stream gets past its poll(): only a transfer let through before may succeed.
THEOREM CancelHolds == IdleSpec => CancelSticks
<1> DEFINE Stops == notified => /\ worker' \in Transfers => worker' = worker
                                /\ worker' = "run" /\ result' = "ok" => worker \notin Calls
<1>1. IdleInv /\ [IdleNext]_workVars => [Stops]_workVars
  <2> SUFFICES ASSUME IdleInv, [IdleNext]_workVars, notified PROVE Stops
    OBVIOUS
  <2>1. worker' \in Transfers => worker' = worker
    BY TransferNeedsEmptyPipe DEF IdleInv, IdleTypeOK
  <2>2. QED
    BY <2>1, SuccessNeedsTransfer
<1>2. QED
  BY <1>1, IdleInvariant, PTL DEF IdleSpec, CancelSticks

\* The types of the stream's cancellation state.
THEOREM IdleTyped == IdleSpec => []IdleTypeOK
<1>1. IdleInv => IdleTypeOK
  BY DEF IdleInv
<1>2. QED
  BY IdleInvariant, <1>1, PTL

=============================================================================
