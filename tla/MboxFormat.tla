----------------------------- MODULE MboxFormat -----------------------------
(***************************************************************************)
(* The mbox file format as low-level/mbox reads and writes it: what        *)
(* mailmbox_parse_additionnal makes of the bytes, what an append adds to   *)
(* them and what an expunge leaves of them.                                *)
(*                                                                         *)
(* A file is a sequence of cells.  A message is a "from" cell (the From_   *)
(* line and the ordinary header fields), any number of "uid" cells         *)
(* (X-LibEtPan-UID fields, v is the number) and a "body" cell (the blank   *)
(* line after the headers and the text; v is the message).  The text of    *)
(* the messages in Unterminated does not end with a newline.  "nl" is one  *)
(* more newline and "nul" are the zeros of an extended file that was not   *)
(* written yet.  Cells are the unit of file sizes and offsets.             *)
(***************************************************************************)
EXTENDS Naturals, Sequences, SequencesExt

CONSTANTS Msgs,          \* the messages, as opaque texts
          Unterminated,  \* the ones that lack the final newline
          UidSpace       \* 2^32 in the code: uint32_t wraps there

ASSUME FormatAssumption ==
  /\ Unterminated \subseteq Msgs
  /\ UidSpace \in Nat \ {0}

From == [k |-> "from", v |-> 0]
Uid(n) == [k |-> "uid", v |-> n]
Body(m) == [k |-> "body", v |-> m]
Nl == [k |-> "nl", v |-> 0]
Nul == [k |-> "nul", v |-> 0]

Uids == 0..(UidSpace - 1)
Cells == {From, Nl, Nul} \cup {Uid(n) : n \in Uids} \cup {Body(m) : m \in Msgs}

\* The messages whose text is in a file, in one piece or not listed at all.
Texts(f) == {f[i].v : i \in {j \in DOMAIN f : f[j].k = "body"}}

-----------------------------------------------------------------------------
\* Line structure.

\* The text of a message whose last line is complete, plus the newline that
\* closes a message in the file: the file ends with a blank line.
BlankAfter(c) == c.k = "body" /\ c.v \notin Unterminated
EndsLine(c) == c.k # "nul"

\* Cells i-1 and before, back to b, end with a blank line.
BlankBefore(f, b, i) ==
  \/ i - 1 >= b /\ BlankAfter(f[i - 1])
  \/ i - 2 >= b /\ f[i - 1] = Nl /\ EndsLine(f[i - 2])

\* crlf_count of mailmbox_append_message_list_no_lock: how many newlines, two
\* at most, the file ends with.
CrlfCount_One(f) == IF f = <<>> \/ ~EndsLine(f[Len(f)]) THEN 0 ELSE 1

CrlfCount(f) ==
  IF f = <<>> \/ ~EndsLine(f[Len(f)]) THEN 0
  ELSE IF BlankBefore(f, 1, Len(f) + 1) THEN 2 ELSE 1

-----------------------------------------------------------------------------
\* mailmbox_single_parse

\* The first cell after the From_ line and the header fields of the message
\* that starts at s.  A message need not start with a From_ line.
FieldsStart(f, s) == IF f[s] = From THEN s + 1 ELSE s

FieldsEnd(f, s) ==
  CHOOSE i \in FieldsStart(f, s)..(Len(f) + 1) :
    /\ i <= Len(f) => f[i].k # "uid"
    /\ \A j \in FieldsStart(f, s)..(i - 1) : f[j].k = "uid"

\* mailmbox_fields_parse: the last X-LibEtPan-UID field counts; 0 is none.
UidField_First(f, s) ==
  IF FieldsEnd(f, s) = FieldsStart(f, s) THEN 0 ELSE f[FieldsStart(f, s)].v

UidField(f, s) ==
  IF FieldsEnd(f, s) = FieldsStart(f, s) THEN 0 ELSE f[FieldsEnd(f, s) - 1].v

\* A message ends at the next From_ line that follows a blank line.  The line
\* that ends the headers is consumed before the search for the blank line
\* starts, so a From_ line right after it is taken for text.
NextStart(f, s) ==
  LET b == FieldsEnd(f, s) IN
  Min({i \in b..Len(f) : i > s /\ f[i] = From /\ BlankBefore(f, b, i)}
        \cup {Len(f) + 1})

\* Where the messages from offset c on start.
Starts(f, c) ==
  LET starts[i \in c..(Len(f) + 1)] ==
        IF i > Len(f) THEN <<>> ELSE <<i>> \o starts[NextStart(f, i)]
  IN  starts[c]

-----------------------------------------------------------------------------
\* struct mailmbox_msg_info: start and body delimit From_ line and headers,
\* next is the end of the message with its padding.  texts is a ghost: the
\* messages whose text the entry covers.
MsgInfo(f, s, uid) ==
  [start |-> s, body |-> FieldsEnd(f, s), next |-> NextStart(f, s),
   uid |-> uid, written |-> uid # 0, deleted |-> FALSE,
   texts |-> Texts(SubSeq(f, s, NextStart(f, s) - 1))]

\* uint32_t increment.
NextUid(u) == (u + 1) % UidSpace

MaxOf(S) == IF S = {} THEN 0 ELSE Max(S)

\* One turn of the loop "parse content" of mailmbox_parse_additionnal.  A
\* number that a temporary entry holds is taken from it; a number that a
\* written entry holds is not given twice.
AddParsed_KeepDuplicate(f, acc, s) ==
  LET uid == UidField(f, s) IN
  [tab |-> Append(acc.tab, MsgInfo(f, s, uid)),
   max |-> Max({acc.max, uid})]

AddParsed(f, acc, s) ==
  LET found == UidField(f, s)
      holds(e, written) == found # 0 /\ e.uid = found /\ e.written = written
      uid == IF \E i \in DOMAIN acc.tab : holds(acc.tab[i], TRUE)
             THEN 0 ELSE found
      freed == [i \in DOMAIN acc.tab |->
                  IF holds(acc.tab[i], FALSE) THEN [acc.tab[i] EXCEPT !.uid = 0]
                                              ELSE acc.tab[i]]
  IN  [tab |-> Append(freed, MsgInfo(f, s, uid)),
       max |-> Max({acc.max, uid})]

\* The loop "attribute uid": an entry without a number gets the next one.
Attribute_SameNumber(acc, e) ==
  IF e.uid # 0 THEN [acc EXCEPT !.tab = Append(@, e)]
  ELSE [acc EXCEPT !.tab = Append(@, [e EXCEPT !.uid = NextUid(acc.max)])]

Attribute(acc, e) ==
  IF e.uid # 0 THEN [acc EXCEPT !.tab = Append(@, e)]
  ELSE [tab |-> Append(acc.tab, [e EXCEPT !.uid = NextUid(acc.max)]),
        max |-> NextUid(acc.max)]

\* The loops: "remove temporary UID that we will parse", "parse content",
\* "attribute uid".
Known(tab, c) ==
  LET loop[k \in 0..Len(tab)] ==
        IF k = 0 THEN <<>>
        ELSE IF tab[k].start < c \/ tab[k].written THEN Append(loop[k - 1], tab[k])
                                                  ELSE loop[k - 1]
  IN  loop[Len(tab)]

Parsed(f, starts, known) ==
  LET loop[k \in 0..Len(starts)] ==
        IF k = 0 THEN known ELSE AddParsed(f, loop[k - 1], starts[k])
  IN  loop[Len(starts)]

Attributed(parsed) ==
  LET loop[k \in 0..Len(parsed.tab)] ==
        IF k = 0 THEN [tab |-> <<>>, max |-> parsed.max]
                 ELSE Attribute(loop[k - 1], parsed.tab[k])
  IN  loop[Len(parsed.tab)]

\* mailmbox_parse_additionnal(folder, indx): tab and written are mb_tab and
\* mb_written_uid before the call, f is the mapping, c the offset.  The result
\* has the new mb_tab, mb_written_uid and mb_max_uid.
ParseAdditionnal(f, tab, written, c) ==
  LET known == Known(tab, c)
      highest == Max({written, MaxOf({known[i].uid : i \in DOMAIN known})})
      parsed == Parsed(f, Starts(f, c), [tab |-> known, max |-> highest])
      done == Attributed(parsed)
  IN  [tab |-> done.tab, written_uid |-> parsed.max, max_uid |-> done.max]

\* mailmbox_parse: flush_uid empties the table first.
Parse(f, written) == ParseAdditionnal(f, <<>>, written, 1)

-----------------------------------------------------------------------------
\* mailmbox_expunge_to_file_no_lock: the entries that are not deleted, each
\* with the number it lacks written after its headers.
Kept_Unwritten(f, e, no_uid) ==
  IF e.deleted THEN <<>> ELSE SubSeq(f, e.start, e.next - 1)

Kept(f, e, no_uid) ==
  IF e.deleted THEN <<>>
  ELSE SubSeq(f, e.start, e.body - 1)
         \o (IF no_uid \/ e.written THEN <<>> ELSE <<Uid(e.uid)>>)
         \o SubSeq(f, e.body, e.next - 1)

ExpungeTo(f, tab, no_uid) ==
  LET loop[k \in 0..Len(tab)] ==
        IF k = 0 THEN <<>> ELSE loop[k - 1] \o Kept(f, tab[k], no_uid)
  IN  loop[Len(tab)]

\* What mailmbox_append_message_list_no_lock writes after the content f for
\* one message: the missing newlines, the From_ line, the message with any
\* X-LibEtPan-UID field it had removed, and its number.
NewCells(f, m, uid, no_uid) ==
  (IF f = <<>> THEN <<>> ELSE [i \in 1..(2 - CrlfCount(f)) |-> Nl])
    \o <<From>> \o (IF no_uid THEN <<>> ELSE <<Uid(uid)>>) \o <<Body(m)>>

\* What mailmbox_fetch_msg returns for an entry: the text without From_ line,
\* numbers and the padding behind it.
Content(f, e) ==
  LET cells == SubSeq(f, e.body, e.next - 1)
      last == MaxOf({i \in DOMAIN cells : cells[i] # Nl})
  IN  SubSeq(cells, 1, last)

\* ftruncate to n cells: the tail is cut off, or zeros are added.
Resize(f, n) == [i \in 1..n |-> IF i <= Len(f) THEN f[i] ELSE Nul]

\* g written at offset c + 1 of f, as far as f reaches.
Overwrite(f, c, g) ==
  [i \in DOMAIN f |-> IF i - c \in DOMAIN g THEN g[i - c] ELSE f[i]]
=============================================================================
