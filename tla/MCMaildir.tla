------------------------------ MODULE MCMaildir -----------------------------
(***************************************************************************)
(* Two sessions and a mail transfer agent on a maildir, with processes of  *)
(* their own and, in the second instance, in one process.                  *)
(***************************************************************************)
EXTENDS Maildir, TLC

CONSTANTS s1, s2, a, b

MCSessions == {s1, s2}
MCMsgs == {a, b}
MCFlags == {"", "S"}
OwnPid == [s \in MCSessions |-> s]
SamePid == [s \in MCSessions |-> s1]

Symmetry == Permutations(MCSessions) \cup Permutations(MCMsgs)

\* mdir_msg_list is read by no step and, but for its type, by no property of
\* the first instance.
View ==
  <<now, files, mtime, hardlinks, pc, call, unsent, crashes, changes, accepted,
    removed, unlinked, [s \in Sessions |-> [md[s] EXCEPT !.mdir_msg_list = {}]]>>
=============================================================================
