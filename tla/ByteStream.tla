----------------------------- MODULE ByteStream -----------------------------
(***************************************************************************)
(* What a buffered connection promises the two programs that use it: the   *)
(* bytes come out in the order in which they went in, none is lost,        *)
(* repeated or invented, and a write that failed half-way has put in a     *)
(* beginning of its bytes.                                                 *)
(***************************************************************************)
EXTENDS Naturals, Sequences

CONSTANT Byte

VARIABLES written,  \* the bytes that went in
          got       \* the bytes that came out

vars == <<written, got>>

Init == written = <<>> /\ got = <<>>

\* The writer adds bytes to what was written.
Put ==
  /\ written' \in Seq(Byte)
  /\ Len(written') >= Len(written)
  /\ SubSeq(written', 1, Len(written)) = written
  /\ UNCHANGED got

\* The reader goes on to position n of what was written.
Get(n) ==
  /\ n >= Len(got)
  /\ got' = SubSeq(written, 1, n)
  /\ UNCHANGED written

Next == Put \/ \E n \in 0..Len(written) : Get(n)

Spec == Init /\ [][Next]_vars
=============================================================================
