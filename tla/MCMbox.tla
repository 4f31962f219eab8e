------------------------------- MODULE MCMbox -------------------------------
(***************************************************************************)
(* Two processes and a mail transfer agent on a mailbox of up to three     *)
(* messages.                                                               *)
(***************************************************************************)
EXTENDS Mbox

CONSTANTS p1, p2, msg1, msg2, msg3

MCProcs == {p1, p2}
MCMsgs == {msg1, msg2, msg3}
MCInodes == 1..4
Symmetry == Permutations(MCProcs) \cup Permutations({msg1, msg2})

\* Inode numbers are names: a state is given by the content of the path's
\* file, by what each descriptor's file holds and by which descriptors share
\* a file.  Nothing reads the modification time of a file but through the
\* path; marked is read by no step and, but for its type, by no property of
\* this run.
OpenFile(p) ==
  CASE mb[p].mb_fd = NoFd -> <<"none", <<>>>>
    [] mb[p].mb_fd = path -> <<"path", <<>>>>
    [] OTHER -> <<"old", data[mb[p].mb_fd]>>

View ==
  <<now, data[path], mtime[path], lock, pc, call, crashes, calls, unsent, kept, unsafe,
    [p \in Procs |->
       <<OpenFile(p), [mb[p] EXCEPT !.mb_fd = 0]>>],
    {p \in Procs : \E q \in Procs \ {p} : mb[q].mb_fd = mb[p].mb_fd}>>

\* Nothing is claimed of what follows once the lock did not protect the file.
StillSafe == ~unsafe
=============================================================================
