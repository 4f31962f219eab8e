---------------------------- MODULE MCMboxFormat ----------------------------
(***************************************************************************)
(* MboxFormat on every mailbox of up to MaxMessages messages whose         *)
(* headers hold up to two X-LibEtPan-UID fields: numbers that are missing, *)
(* repeated, out of order, and a tail of zeros that a crash left.          *)
(***************************************************************************)
EXTENDS MboxFormat

CONSTANTS MaxMessages,  \* bound on the number of messages in the file
          FieldUids     \* the numbers that X-LibEtPan-UID fields carry

VARIABLES file,     \* the mailbox
          written   \* mb_written_uid of the folder before it is parsed

Symmetry == Permutations(Msgs)

Fields == UNION {[1..n -> {Uid(u) : u \in FieldUids}] : n \in 0..2}

FileInit == file = <<>> /\ written \in 0..1

AddMessage ==
  \E m \in Msgs \ Texts(file), fields \in Fields :
    /\ Cardinality(Texts(file)) < MaxMessages
    /\ Nul \notin ToSet(file)
    /\ file' = file \o <<From>> \o fields \o <<Body(m)>>
    /\ UNCHANGED written

AddZeros ==
  /\ file # <<>> /\ Nul \notin ToSet(file)
  /\ file' = Append(file, Nul)
  /\ UNCHANGED written

FileNext == AddMessage \/ AddZeros

FileSpec == FileInit /\ [][FileNext]_<<file, written>>

-----------------------------------------------------------------------------
First == Parse(file, written)
Expunged == ExpungeTo(file, First.tab, FALSE)
Second == Parse(Expunged, First.written_uid)

Numbers(tab) == [i \in DOMAIN tab |-> <<tab[i].uid, tab[i].texts>>]

\* mailmbox_parse_additionnal gives distinct numbers up to mb_max_uid, keeps
\* the number of the first message that carries it, and never hands out one
\* that was already written (mb_written_uid).
ParseNumbers ==
  LET tab == First.tab IN
  /\ \A i, j \in DOMAIN tab : tab[i].uid = tab[j].uid => i = j
  /\ \A i \in DOMAIN tab :
       LET u == UidField(file, tab[i].start) IN
       /\ tab[i].uid \in 1..First.max_uid
       /\ tab[i].written = (u # 0 /\ \A j \in 1..(i - 1) :
                                         UidField(file, tab[j].start) # u)
       /\ tab[i].written => tab[i].uid = u
       /\ ~tab[i].written => tab[i].uid > written

\* mailmbox_expunge_no_lock: parsing the rewritten file gives every message
\* the number it had, now a written one, and a second rewrite changes nothing.
ExpungePersistsNumbers ==
  /\ Numbers(Second.tab) = Numbers(First.tab)
  /\ \A i \in DOMAIN Second.tab : Second.tab[i].written
  /\ ExpungeTo(Expunged, Second.tab, FALSE) = Expunged

Same(r1, r2) == r1.tab = r2.tab /\ r1.max_uid = r2.max_uid

\* mailmbox_append_message_list parses only what it added: on a file that was
\* expunged first and ends with a blank line, the table is the one a parse of
\* the whole file gives.
IncrementalParse ==
  (Expunged = <<>> \/ BlankBefore(Expunged, 1, Len(Expunged) + 1)) =>
  \A m \in Msgs \ Texts(file) :
    LET new == NextUid(Second.max_uid)
        grown == Expunged \o NewCells(Expunged, m, new, FALSE)
    IN  Same(ParseAdditionnal(grown, Second.tab, Second.written_uid,
                              Len(Expunged) + 1),
             Parse(grown, Second.written_uid))
=============================================================================
