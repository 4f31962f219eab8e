# libEtPan! in TLA+

TLA+ models of libEtPan!, the mail library in this repository, with the TLC
configurations that check them and TLAPS proofs about twelve of them.  Paths
below are relative to the repository's root; line numbers are in
`PROJECT.json`, under `map`.

## 1. Inventory

libEtPan! is layered: data types, low-level protocol and storage modules,
drivers that give them one interface, and an engine that shares sessions
between threads.

| component | state | operations | hard behaviour | what makes it correct |
|---|---|---|---|---|
| `data-types/maillock.c` | record lock on a descriptor, `<mailbox>.lock` | read/write lock and unlock | several processes, programs that only know the lock file, stale locks, time-outs, crashes | mutual exclusion, no leaked lock, calls return |
| `data-types/mailsem.c` | count, waiters, mutex, condition | up, down | lost and spurious wake-ups, failing waits | is a counting semaphore |
| `low-level/mbox` | file, mapping, message table, numbers | init, append, fetch, delete, expunge, done | other writers, rename under open descriptors, stat before lock, crash in the middle of a write | no message lost, numbers unique and stable |
| `low-level/maildir` | `tmp/`, `new/`, `cur/`, list and hash of entries | update, add, remove, change flags | no lock at all, concurrent link/unlink, name collisions, one-second times | no message lost, uid names one message, updates see everything |
| `low-level/mh` | folder tree, numbered files | add, move, update | like maildir | numbers name one message |
| `data-types/mailstream.c`, `mailstream_helper.c` | read and write buffers | read, write, flush, send a text, read lines and multi-line answers | short reads and writes, errors in a flush, the end of the stream inside a text | bytes arrive once and in order, a text arrives as it was sent, calls end |
| `data-types/mailstream_cancel.c`, idling in `mailstream_low.c` | cancel flag, pipes, idle object | cancel, set up, wait, interrupt | flag and pipe are two steps; threads | a cancellation sticks, no notification is lost |
| `data-types/chash.c`, `carray.c`, `clist.c`, `mmapstring.c` | containers | set, get, delete, resize | iteration and resize | behave as map, sequence, string |
| `low-level/pop3` | session state, message table with marks | one function per command | answers without tags, multi-line answers, time-outs | a call reads its own answer; table and marks are the server's |
| `low-level/imap` | session state, tag, selection | one function per command, IDLE | untagged data, continuation requests, time-outs | success belongs to the command; state and message count are the server's; nobody waits for each other |
| `low-level/smtp` | ESMTP flags | one function per command, helpers that send a message | answers without tags, half-done transactions, LMTP's answer per recipient | what a send reports is what the server did |
| `low-level/nntp` | session state | one function per command | like POP3 | like POP3 |
| `low-level/imf`, `mime`, `feed` | none between calls | parse, write | grammar | round trip |
| `low-level/pgp`, `smime`, `jmap`, `gmail`, `activesync` | handles of libraries, tokens | requests | failures of the libraries | - |
| `driver/interface`, `driver/implementation` | storage, folder and message objects, caches | dispatch | caches keyed by message numbers that change | cache agrees with the mailbox |
| `driver/tools` | cache files, thread tree | threading, flag store | deep trees, duplicates | thread tree as defined by the JWZ algorithm |
| `engine` | sessions, tables of references, privacy handlers | connect, disconnect, list, ref, unref | sessions shared between folders and lost behind them, messages that vanish and come back while they are referenced | references balance, no stale session or pointer is used |

Interactions: the mbox module calls the lock module around each operation and
closes and reopens the locked descriptor meanwhile; mbox, maildir and the
engine use the hash table; the drivers call the low-level modules one to one;
the engine calls drivers under its locks; protocols use the stream.  mbox and
maildir share their files with programs that are not part of the library.

`PROJECT.json` lists the components with their status, and under `hazards`
what is hard to test, each at its line and with the properties that would
catch it.

## 2. Modules

| module | models | depends on |
|---|---|---|
| `MailLock` | `maillock.c` (POSIX branch), several processes and other programs | - |
| `MailLockProofs` | theorems about `MailLock` | `MailLock` |
| `MboxFormat` | the file format: parse, number, rewrite, append (pure operators) | - |
| `Mbox` | `mailmbox.c` on one file shared by processes and a mail transfer agent | `MboxFormat` |
| `MboxProofs` | theorems about `MboxFormat` and `Mbox` | these |
| `Maildir` | `maildir.c`, sessions and a mail transfer agent | - |
| `MaildirProofs` | theorems about `Maildir` | `Maildir` |
| `Semaphore` | what a client of `mailsem.h` relies on (abstract) | - |
| `MailSem` | `mailsem.c` (pthread branch), implements `Semaphore` | `Semaphore` |
| `ByteStream` | what a buffered connection promises (abstract) | - |
| `MailStream` | `mailstream.c`: a writer's and a reader's buffer and the connection between them, implements `ByteStream` | `ByteStream` |
| `StreamData` | `mailstream_helper.c` and the literals of IMAP on top of two streams | `MailStream` |
| `MailIdle` | `mailstream_cancel.c`, the socket's waits, idling | - |
| `DataTypesProofs` | theorems about `MailStream`, `StreamData`, `MailSem` and `MailIdle` | these |
| `MailEngine` | `mailengine.c` with `mailstorage.c` and `mailfolder.c` | - |
| `MailEngineProofs` | theorems about `MailEngine` | `MailEngine` |
| `Pop3`, `Imap`, `Smtp` | a session of `mailpop3.c`, `mailimap.c` (with its extensions), `mailsmtp.c` (with its helper) against a server | - |
| `Pop3Proofs`, `ImapProofs`, `SmtpProofs` | theorems about these | the module of that name |
| `MC*` | instances for TLC | the module of that name |

**MailLock.** A process goes through `fcntl` (waiting in `F_SETLKW`), `try`
(the open with `O_EXCL`), `sleep`, possibly `unlink` (it has decided to break
the lock file), `cs`, `unlock`.  Each system call is a step, so a lock file
may be replaced between `stat()` and `unlink()`, and `unlock_common` removes
a lock file without looking whose it is.  An expunge replaces or rewrites the
file and closes the descriptor while it holds the lock, which drops the
record lock (`bare`).  Time is relative and saturates, so behaviours are
infinite and liveness is meaningful.

**MboxFormat.** A file is a sequence of cells: From_ line and other headers,
number fields, the body with its text, single newlines, and zeros.  Cells
stand for bytes in sizes and offsets.  Kept are the things the numbering
depends on: where a message ends (blank line, then `From `), which number
field counts, duplicates, temporary and written numbers, the newlines at the
end of the file that an append counts.  `>From` quoting and the text of
headers are left out.

**Mbox.** The steps of an operation: `stat()` (`Enter`), reopen, lock with
map and parse, expunge (rewrite and reopen), `ftruncate`, write with
incremental parse, unlock.  The bytes a process sees are those of the inode
it has open, over the length of the file the path names, as
`mailmbox_map` has it.  The lock is `MailLock`'s lock file, reduced to its
holder; the mail transfer agent (`Agent`) takes it too.  A waiter's `stat()`
and `unlink()` of an old lock file are two steps (`StatLock`,
`BreakStaleLock`), and the second removes whatever lock file is there by then.
The record lock is left out: it keeps nobody out that has another inode open,
and no delivery agent.  An expunge replaces the file by `rename()` or in place,
and may fail before it, in the middle of the copy (`CopyFails`) or after it
(`ReopenFails`).  `unsafe` is a ghost with three causes, all of them steps of
the code: a writer got the lock with an outdated view, a waiter removed a live
holder's lock file, or a copy failed between `ftruncate()` and `memcpy()`.

**Maildir.** Steps are system calls.  A link in a directory is a record of
directory, uid, flags and message.  `link()` may fail for any reason, and
every error but `EXDEV` and `EPERM` is ignored where the code ignores it;
`unlinked` has the messages whose delivery was reported after such a failure,
so that their only file is in `tmp/`.  One `stat()` pair and the
reading of one directory are steps of their own.  `Hashes` is what a series of
`add_message` leaves in `mdir_msg_hash`, whichever of two names of a uid the
directory lists last.

**MailSem.** What a thread does with the mutex held is one step; sleeping in
the condition variable, being woken (also without a reason) and getting the
mutex again are separate.

**MailStream.** One program writes to its stream, another reads from its own.
Steps are calls of the low level functions, which may move a part of the
bytes, none, or fail and later work again.  `wpc` says where
`mailstream_write` or `mailstream_flush` is: flushing, flushing before a
write, or in `write_direct`.  `Sent` is what has left the writer.  `accepted`
and `got` are histories of what the two programs were told.  `StreamSpec`
lets the programs make any calls in any order; the theorems are about it.

**StreamData** fixes the programs to those of the protocols: one sends a text
with `mailstream_send_data` (periods doubled, line breaks made CR LF) and the
other reads it with `mailstream_read_multiline`, or one sends it with
`mailstream_send_data_crlf` behind its announced size and the other reads that
many bytes as the IMAP parser does.  `LineEnd`, `Quote` and `Unquote` are the
helpers' work on bytes; the properties compare with a definition that goes
byte by byte (`Stuffed`, `NormalText`).  `cut` records that the sender went on
after a short write (see Observations).

**MailIdle.** A worker reads, writes or waits idly; controllers cancel the
stream or interrupt the wait.  Each notification is two steps, flag and byte,
or test and byte.  A read or a write is three: the test of the flag, `poll()`,
and the transfer, which looks at neither flag nor pipe.  `pending` is a history of the notifications that came
during the worker's call.  `mailstream_unsetup_idle` does not overlap with
`mailstream_interrupt_idle`: it frees the object the other uses, and no lock
prevents it, so callers have to.

**MailEngine.** One storage of any of five kinds of driver, which differ in
what a folder shares with its storage, in whether a folder is selected and in
whether there is a no-op that notices a lost connection.  `con` holds the
sessions and the folders' `lost_session`; an operation is a set of outcomes,
each a result and the connections after it, combined by `Then` in the order of
the calls.  A message object has its two counts, the session it points to and
its place in the tables.  A list shows any set of uids, since other programs
may change a mailbox between any two calls.  The client holds lists, references and references
to the MIME structure, and frees its lists, the lost ones too, as
`mailengine.h:119` tells it to.  Following a pointer to something freed, or a
session that is NULL, is `fault`.  Three histories say what led to one:
`dropped` (a failed reconnection freed a folder's tables under the client),
`unearned` (references that freed lost lists gave back and nobody was given)
and `blind` (the client listed or fetched from a folder while its
`lost_session` was set).

**Pop3, Imap, Smtp.** Client, server and the lines between them.  A call sends
its command and then reads, a line at a time (`Pop3`, `Smtp`) or a response
at a time (`Imap`); between two of its reads the server may serve, refuse or
go away, and each read may time out, which ends the call and leaves the
stream as it is; in `Pop3` the read may have taken a part of the line, which
is gone (`Beheaded`).  In `Imap` and `Smtp` lines stay whole: there the rest of
a line could only be read by a call of a session that is out of step already.
A line carries the number of the command it answers, which
the client cannot see in POP3 and SMTP: the properties compare it with the
command the client reads it for.  The server is external and follows the RFC
of its protocol; where a server has a choice, so has the model.  `late`
becomes true when a call returns without having read everything the server
sends for it, because of a time-out or because the code does not read it
(`Leaves` in `Smtp`, a SASL exchange given up in `Pop3`).  `Imap` has one
action per command; the commands that only differ in their text are served
alike.  Its server sends untagged data, BYE among them, with any answer and
before any continuation request, VANISHED instead of EXPUNGE once QRESYNC is
enabled, and may answer a SELECT by BAD; `stale` says that by such data the
client cannot know the count of messages until the next EXISTS.  `seen` has the
kinds of data a call has read; after a BYE its tag is not looked at.  A call
that took data for its continuation request waits for an answer ("early").
`Smtp` keeps a call's remaining commands in `call.steps`, so the
helpers that send a message are sequences of the same steps; `Lists` are the
lists of recipients that callers pass, in which a recipient may occur twice.

## 3. Runs

| run | instance | checks |
|---|---|---|
| `lock` | 2 processes, 1 lock-file-only program, 2 inodes, RM 1, GLOB 2, RETRY 1 | `SafeLock`: at most one inside while nobody died holding the lock or kept it for LOCKTO_RM seconds; `WriterExclusion`: even then a writer with its record lock is alone on its inode; `NoLeakedFcntlLock`; `LockReturns` (liveness) |
| `mbox_format` | every file of up to 3 messages with up to 2 number fields each and a tail of zeros | `ParseNumbers`, `ExpungePersistsNumbers`, `IncrementalParse` |
| `mbox` | 2 processes and a mail transfer agent, 3 messages, one without final newline, 4 operations, 1 crash, 2 seconds | `NumbersDistinct`, `NoMessageLost`, `FileNumbersUnique`, `AppendReturnsName`, `NumbersStable` |
| `maildir` | 2 sessions in 2 processes, 2 messages, 2 flag changes, 1 crash, 2 seconds, with and without hard links | `NoMessageLost`, `UidNamesOneMessage` |
| `semaphore` | 3 threads, 3 permits, 1 failed wait | `WaitersCounted`, `NoLostWakeup`, `Implements` (refinement with liveness) |
| `stream` | every text of up to 3 bytes over {CR, LF, ".", x}, buffers of 2 bytes, 2 writes of nothing, 3 bytes of a literal at a time | `AcceptedIsSent`: what was reported as written is what went out plus the buffer; `SendDelivers`, `ReadDelivers`: the text arrives; `StreamIsFifo` (refinement); `SendEnds`, `ReadEnds` (liveness) |
| `idle` | 2 controllers with 2 notifications each, a socket that gets ready 3 times | `CancelSticks` (action property); `CancelEndsCall`, `InterruptEndsWait` (liveness) |
| `engine` | 5 drivers, 2 folders, 1 uid, 2 message objects, 2 lists, 1 reference each, 1 freed lost list for each message | `RefsCounted`: counts are the client's holds, less the references of freed lost lists; `SessionsCurrent`: the engine knows which sessions are gone; `NoFault`: stale pointers are followed in four cases only |
| `pop3` | maildrops of up to 2, 6 commands, 2 time-outs, 2 connections | `InStep`: a call reads its own answer, all of it; `SessionAgrees`: login, marks, uids; `TableDense`, also after time-outs |
| `imap` | 5 tags, 1 time-out, 2 connections, mailboxes of up to 2, counts modulo 10 | `SuccessIsOwn`, also after time-outs and BYE; `SessionAgrees`: state and `sel_exists`; `NoMutualWait` |
| `smtp` | 2 recipients, lists of them that are empty, in order or with a repetition, 9 commands, 1 time-out, 2 connections, SMTP and LMTP | `InStep`; `NoMutualWait`; `SendReported` (action property): what a send reports is what the server did |

The type invariant is checked in each; where a module's strongest property has
it as a conjunct it is not listed by itself.

One run expects a violation: `mbox_lost`.  A writer that waited for the lock
overwrites what was delivered meanwhile, since the file is looked at before
the lock is taken and never after.  The configurations of section 5 show
further disagreements in the same way.

**Bounds.** Two processes suffice for every race between a writer and one
other; the third actor is the mail transfer agent.  The instance keeps
`RETRY <= LOCKTO_RM < LOCKTO_GLOB`; the code compares a duration with one of
these constants, so their order matters to the control flow and their ratio
does not.  Three messages let one be deleted, one
kept and one delivered.  Four operations allow both processes to open and to
write once each, or one to write three times.  `MaxTime` 1 gives events in the
same second and in different ones, which is all that a comparison of times
can tell.  `MAX_TRY_ALLOC` is 2 instead of 32: a second try
is enough, because a third sees nothing new.  The views of `MCMbox` and `MCMaildir` drop inode
numbers and a variable no step reads.  `MCMbox` cuts behaviours at states
where the lock no longer protects the file (`StillSafe`): the passing run says
nothing of what follows, the run `mbox_lost` shows what does.  One text without
final newline is enough to have an append find the file in the middle of a
line.

A buffer of two bytes and texts of three make some writes fit, some flush
first and some bypass the buffer, and split lines, CR LF pairs and doubled
periods between buffers.  One uid that leaves and returns, with two message
objects, is what it takes for a table to confuse an old object with a new one.
`MCMailEngine` cuts behaviours at states where a folder's tables were freed
under the client, a call faulted or the lock stays held (`GoesOn`); these states
themselves are checked.  Its view drops what nobody can look at again of
messages that are gone and the numbering of the client's lists, and takes the
two histories that excuse a fault as one.  Two connections let a session carry over to
the next one what it should not; six POP3 commands allow login, listing,
deletion, reset and one more; nine SMTP commands allow a send that fails
half-way and a whole one after it.  `MaxTags` bounds the calls of IMAP and lets
LOGOUT through.  `Uint32` 10 makes a count below zero visible.

**Deadlock** is checked for the lock, the semaphore and the worker of `idle`.
The bounded runs of mbox and maildir stop when the operations are used up, the
text of `stream` ends, and clients of the engine and of the protocols may stop;
there `NoMutualWait` says what a deadlock check would.

**Fairness.** `MailLock`: time passes, and a process that is not blocked runs
(weak fairness of the loop's steps).  Nothing is assumed of how long a lock is
held or of who gets a record lock.  `MailSem`: a thread that asks for the
mutex gets it, since it is held for a few statements only.  Nothing is assumed
of posts, wake-ups without a signal or failures.  `StreamData`: sender and
reader go on with the call they have begun; a low level call returns, if only
by its time-out.  Nothing is assumed of success, so `SendEnds` rests on the
count of empty writes.  `MailIdle`: `poll()` returns when a descriptor is ready
and a controller finishes a notification it has begun; time-outs are not
assumed, so a call that ends was really ended by its notification.  The others
claim safety only.

## 4. Proofs

`MailLockProofs` proves for any sets of processes, programs and inodes and any
positive time constants:

* `TypeCorrect`;
* `NoLeak`: `NoLeakedFcntlLock`;
* `WriterExclusionHolds`: `WriterExclusion`.  It is not inductive by itself.
  `FcntlInv` adds the type invariant, that no lock leaks, that a process past
  the `fcntl()` call that is not `bare` holds the record lock it wanted
  (`HoldsWhatItWants`), and that a write lock stands alone on its inode
  (`RecordLocksCompatible`);
* `SafeLockHolds`: `SafeLock`.  `DotInv` adds that while nobody died or
  overstayed, a lock file exists exactly while its creator is inside, that it
  is younger than LOCKTO_RM, and that no process is about to break one.

`DataTypesProofs` proves of `MailSem`, for any finite set of threads:

* `WaitersAreCounted` (`WaitersCounted`) and `WakeupsKept` (`NoLostWakeup`),
  which together with the type invariant are inductive.  The reason for the
  signal's condition is visible in the step for `Up`: if nobody is counted
  nobody sleeps;
* `ImplementsSafely`: each step is a step of `Semaphore` or stutters.

and of `MailStream`, for any bytes, any buffer size, any number of empty
writes allowed and programs that make any calls in any order (`StreamSpec`):

* `StreamTyped` and `NothingDropped` (`AcceptedIsSent`).  Together they are the
  inductive invariant `StreamInv`: a flush before a direct write leaves the
  buffer empty, which is why the bytes of the direct write may follow what was
  sent.  The lemmas `Split`, `Sends` and `Reads` say that moving bytes from the
  front of one part to the end of the next changes no concatenation;
* `StreamImplementsFifo` (`StreamIsFifo`): a step of the writer that changes
  what was written appends to it, because the accepted bytes are exactly those,
  and a step of the reader goes on to a later position.

and of `StreamData`, for any text, any set of bytes that has CR, LF and the period,
any buffer size and any size of the pieces a literal is read in:

* `DataUsesStreams`: every step of the two programs is one that `StreamSpec` allows,
  so the theorems above hold here too;
* `TextIsSent` (`SendDelivers`) and `TextIsRead` (`ReadDelivers`, with the types).
  The argument has a part about texts and a part about steps.

  Texts.  `TextSent` and `SizeIs`: the loops of `send_data_crlf_progress` and
  `get_data_size`, which go line by line, make of any text what the byte by byte
  reference makes of it.  `LinePieces` is one line, `TextLoop` and `SizeLoop` say that
  the recursive functions exist, and the induction is over the length of what
  is left (`Induction`, about a set of numbers, as in `MboxProofs`).  On the other side
  `Decodes` is the reader as an automaton that takes one byte at a time, and
  `InLine` what it has after the first i bytes of a text: the lines before,
  unquoted, and the current one.  `ByteDecoded` is its step; a line that
  starts with a period has a second one, so it is not the end (`NotTheEnd`).
  `EndDecoded`: the automaton stops at the last byte of the final period's
  line and nowhere before it, and then has the text.

  Steps.  `DataInv` joins `StreamInv`, the sender and the reader.
  `SenderInv`: what was accepted, the write under way and the writes that are left
  are together the text on the connection, so what was sent is a
  beginning of it (`SentIsPart`), also after a write that failed.  `ReaderInv`:
  wherever the pieces were cut, the reader's line and text are the automaton's
  state after the bytes it was given; for a literal, what it has and what it
  needs are the announced size, and a read under way cannot bring more than it
  needs, so the bytes after the literal stay in the buffer.
  `EatRun` takes a chunk without a line end in one step.

and of `MailIdle`, for any set of controllers and any bounds:

* `CancelHolds` (`CancelSticks`): after a cancellation has returned no call gets
  past its `poll()`; a transfer that `poll()` let through before may still
  succeed.  `IdleInv` adds to the types that a
  cancellation that has returned has set the flag, and that its byte is still in
  the pipe while a read or a write polls: only the worker takes bytes out, and
  after it has taken one its calls do not poll again;
* `IdleTyped`: no byte is taken from an empty pipe.

`MboxProofs` proves of `MboxFormat`, for any messages, any file and any width of
the numbers:

* `NumbersOfAnyFile` (`ParseNumbers`), for a file whose numbers and length leave
  room below `UidSpace` (`FileRoom`); with no number left `max_uid ++` wraps and
  the claim is false.  The loops of the parser are recursive functions, and what
  they compute is shown by induction over the turns.  The library's
  induction theorems cannot be instantiated; the lemma `Induction` is about a set of
  numbers instead (0 is in it, with k also k + 1), from the existence of a least
  element, and each loop has the set of turns at which its invariant holds
  (`KnownInv`, `ParsedInv`, `FreshInv`, `AttributedInv`, `AttributedNums`,
  `ExpungeInv`).  `Chain` says how the starts of the messages partition a file.

and of `Mbox`, for any finite set of processes, any messages, Unterminated ones
included, processes that write numbers and ones that do not:

* `AcceptedMessagesStay` (`NoMessageLost`).  The invariant is `unsafe \/ MInv`,
  with `AgentInv`: until a process gets the lock for writing with an outdated
  view, a live holder's lock file is removed or a copy stops half-way,

  - who works on the file has the lock (`Control`), and sees it as it is up to
    ftruncate (`ViewInv`); between ftruncate and the write, what is to be kept lies
    in front of the new room (`WriteInv`);
  - accepted messages are in the file, an appended one already before it
    is accepted (`Stored`);
  - no entry that is marked deleted stands for one of them (`Spared`).  This is
    not obvious, since a table may be old: `mailmbox_delete_msg` does not look at the
    file.  It rests on `Fresh`: until it is written, the text of an append or a
    delivery is in no file and in no table, so no earlier mark can cover it.

  `ExpungeKeeps` does the rest: a table that fits its file covers every cell of
  it, so a rewrite leaves out only what is marked;
* `NumbersStayDistinct` (`NumbersDistinct`, with the types), until `unsafe` and
  while `Room` holds:
  counters, tables and files stay below a quarter of `UidSpace` (2^30 in the code).
  Each reload, expunge and append hands the table to the parser's
  lemmas (`ParseNums`).

`MaildirProofs` proves for any finite set of sessions, any messages, flags,
bounds and number of tries, with and without hard links:

* `MessagesKept` (`NoMessageLost`) and `UidsUnique` (`UidNamesOneMessage`, with
  the types).  Both assume `OwnPids`: every session is in a process of its own
  and none has the transfer agent's number.  The hypothesis is needed:
  `MCMaildir_samepid.cfg` loses a message without it.

  `MaildirInv` has two arguments in it.  A uid is `Issued` when its process is
  dead or its counter has passed it, and `Seen` when it has a name in `new/` or
  `cur/`, is in a session's hash or is being renamed.  Files and seen uids are
  issued (`Issue`), and `maildir_get_new_message_filename` gives out one that is
  not, so between naming a draft and `link()` nobody can have taken its name,
  and two files of one uid hold one message.  For the changes of flags,
  "some name is left" is not inductive, since several sessions may be between
  `link()` and `unlink()` of the same message.  `Spare` counts: a message that
  nobody removed has more names than there are sessions about to unlink one.
  `link()` adds one to both sides, `unlink()` takes one from both, and a crash
  only takes a session away.  `rename()` leaves nobody pending.  `StuckInv` is
  about deliveries whose `link()` failed: their draft stays in `tmp/`, since only
  its own session would remove it.

`Pop3Proofs` proves for any maildrops, commands, time-outs and connections:

* `TableIsDense` (`TableDense`).  `TableInv` adds where a call reads, that every
  listing is asked for before the first DELE, and that the listing's lines
  under way go on where the table ends (`Chained`): this is why the gap that
  `read_list` would fill with NULL does not arise, also after a time-out in
  the middle of a listing;
* `CallsStayInStep` (`InStep`).  `PhaseInv` adds that a call in step has either
  its command under way, or a whole answer to it (one status line, then lines
  up to a period), or a closed connection;
* `SessionsAgree` (`SessionAgrees`).  `SessionInv` says what the client will
  hold once it has read what is under way, so that each line read brings it
  closer to the server's state.

`ImapProofs` proves for any tags, time-outs, connections and sizes of
mailboxes:

* `SuccessOwned` (`SuccessIsOwn`), time-outs and BYE included.  `OwnInv` adds that the
  commands under way rise in their tags from the last one granted to the
  session's, and that an OK under way was granted: the answer to an earlier
  command has a smaller tag, which the comparison with `imap_tag` rejects;
* `NobodyWaits` (`NoMutualWait`), without an assumption on when the server sends
  data: both sides wait only where APPEND or AUTHENTICATE, which read one line
  for the continuation request, took data for it (section 5).  `PhaseInv` says
  which half of the exchange is under way;
* `SessionsAgree` (`SessionAgrees`).  `SessionInv` follows the state and, while
  it can be known (`stale`), the count of messages through the responses under
  way, modulo `Uint32`.

`SmtpProofs` proves for any recipients, lists of them, commands, time-outs and
connections, SMTP and LMTP:

* `CallsStayInStep` (`InStep`), `NobodyWaits` (`NoMutualWait`) and `SendsReported`
  (`SendReported`, about the step with which a send returns), all from
  `SmtpInv`.  It says that a call in step has its
  command under way (`Asked`), or all lines of the answer (`Served`; for LMTP's
  text one answer for each recipient whose code is still missing, `ServedEach`),
  or a closed connection (`Lost`); that the steps left of a sending helper are
  the end of MAIL, one RCPT for each recipient, DATA, text (`Plan`); and that
  client and server agree on the recipients enlisted so far (`Enlisted`).  That
  is why `maillmtp_data_message` may count the answers by its list, and why a
  reported success is about this message and these recipients.  The second text
  of a send without ESMTP has a phase of its own (`Again`, `Repeated`): the
  message was taken, the transaction is over and the server refuses the text.

`MailEngineProofs` proves for any folders, uids and numbers of messages, lists
and references, every kind of driver, and also where `GoesOn` cuts the run:

* `SessionsStayCurrent` (`SessionsCurrent`).  The property is not inductive: a call closes shared sessions in
  the middle and reopens them later.  `TablesInv` adds that `lost_session` is set
  for just the folders without a session (`Sessions`), that the two hash
  tables of a folder have the same messages (`Tables`), that lists have messages
  of their folder (`ListsBelong`), and that a storage lists no folder
  without a `folder_ref_info` (`Linked`).  Within a call `During` says
  what holds after each of its parts: the one folder being connected may have a
  session that its messages do not know of, no other may.  `Ended` is what
  is left of it when `Restore` or `RemoveRef` has run;
* `CountersAreHolds` (`RefsCounted`, with the types) and `NothingDangles`
  (`NoFault`), for a client that frees every list, as `mailengine.h` says.
  `CountsInv` adds to `TablesInv`
  that the counts of a live message are the client's holds less what freed lost
  lists took (`Counted`), that a freed message is held just as often, and that a message whose tables were freed is held only
  if its folder is in `dropped`.  Releasing through a list, a reference or the
  structure takes one from both sides; the last release frees a
  message that nobody else holds, so the next lookup by its uid cannot find
  it.  `NoFault` is part of the invariant: a call that
  finds what it holds and an open session does not fault, and one that does not
  was preceded by a drop, by a freed lost list or by a session closed behind it.  The number of lists that hold a message is a cardinality;
  `ListingAdded` and `ListingFreed` say how it changes.

The assumptions are `ConstantsAssumption`, `FormatAssumption`, `MboxAssumption`,
`SemAssumption`, `StreamAssumption`, `DataAssumption`, `IdleAssumption`,
`MaildirAssumption`, `Pop3Assumption`, `ImapAssumption`, `SmtpAssumption` and
`EngineAssumption`: bounds are natural numbers, CR, LF and the period are bytes,
`Sessions` and `Procs` are finite, there are more inodes than processes can have
open at once, so that a rename finds a free one, `Uint32` exceeds every count of
messages, "" is a set of flags, lists are lists of recipients, the inbox is a
folder and "none" is not one.  TLC evaluates them on the instances.

Only model-checked: `LockReturns`, `SendEnds`, `ReadEnds`, `CancelEndsCall`,
`InterruptEndsWait` and the fairness part of `Implements` (liveness is out of
the prover's reach); `ExpungePersistsNumbers` and `IncrementalParse`, and with them
`FileNumbersUnique`, `AppendReturnsName` and `NumbersStable`: they need to know how
the rewritten or extended file is divided into messages again, a second induction
over the file's structure that was not done.

## 5. Observations

What the models show of the code beyond the runs.  The first six have a
configuration; `tlc -config <cfg> <module>` prints the behaviour.

* `MCMbox_marked.cfg` (`MarkedAreExpunged`): `mailmbox_parse` rebuilds the table
  when the file looked changed and every entry starts unmarked, so a foreign
  change between delete and expunge wipes the marks and the expunge reports
  success.  `maildriver_types.h:387`: "expunge_folder() deletes all messages
  marked \Deleted".
* `MCMbox_unterminated.cfg` (`AppendReturnsText`): after a message without final
  newline an append writes a newline first, and the incremental parse starts
  there instead of at the From_ line.  The number returned still names the
  message (`AppendReturnsName`, in the run), but a fetch by it gives the From_
  line and the number field as part of the text.
* `MCMbox_reuse.cfg` (`NumberNamesOneMessage`): temporary numbers start after the
  highest number written in the file, so an open folder's number comes to mean
  another message after a foreign expunge and a delivery.
* `MCMaildir_samepid.cfg` (`NoMessageLost`): two sessions of one process in one
  second generate the same name; `link()` fails with `EEXIST`, which is ignored,
  and the message accepted second stays in `tmp/`.
* `MCMaildir_unseen.cfg` (`UpdateSeesAll`): a delivery in the second in which the
  directory was read is not seen until the next change.
* `MCStreamData_whole.cfg` (`MultilineIsWhole`): at the end of the stream
  `mailstream_read_line` returns an empty line, which
  `mailstream_read_multiline` adds to the text, again and again; with it a line
  that was cut to a single period ends the text with success.

Seen while modelling, without a configuration:

* `write_direct` reports an error after some bytes as a short count, and
  `mailstream_helper.c:316-322` tests for -1 only: if the stream works again the
  text has a hole.  The history variable `cut` excludes it from `SendDelivers`.
* `mailengine.c:1112` locks `storage_hash_lock` where it should unlock it: no
  call follows `StorageRemoves`.
* `mailengine.h:119` says of both lists of `libetpan_folder_get_msg_list` that
  they are freed by `libetpan_folder_free_msg_list`, which gives a reference back
  for each message; the messages of the lost list were never given one
  (`unearned`), so a message is freed while somebody still holds it.
* A folder whose session was closed behind it has `lost_session` set, and only
  `libetpan_folder_connect` looks at it: listing it, or fetching the structure of
  one of its messages, follows the closed or NULL session (`blind`).
* A reconnection that fails frees a folder's tables while the client holds its
  messages (`dropped`).  Listing a POP3 folder closes and reopens the session
  behind the engine (`mailfolder.c:91-126`), so `SessionsCurrent` and `NoFault`
  exclude that driver.  `storage_connect` takes a no-op that is not implemented
  for a failure.
* After a time-out a POP3 or SMTP session is out of step and the code has no way
  to notice; with IMAP commands that were executed report errors until the
  responses are used up, and data are stored before the tag is compared.
* `mailpop3_quit` overwrites a refusal with success (`mailpop3.c:453`);
  `mailpop3_rset` and `mailpop3_noop` do not look at the answer.
* SELECT replaces the selection before it knows the answer; LOGOUT leaves it.
  After BAD the old mailbox is still selected and `sel_exists` is 0.
* VANISHED does not lower `sel_exists` (`qresync.c:586`): with QRESYNC enabled the
  count is too high until the next EXISTS.
* `mailimap_logout` reports success for every end of the stream after a first
  line, a time-out included (`mailimap.c:759-764`).
* APPEND and AUTHENTICATE read one line for the continuation request.  A server
  may send untagged data there, and then both sides wait until the time-out;
  `NoMutualWait` names this case.
* A `link()` of a delivery that fails for want of space or rights is reported as
  success and leaves the message in `tmp/` (`maildir.c:558-572`, `unlinked`).
* A waiter may remove a fresh lock file between its `stat()` and its `unlink()`
  (`maillock.c:266-283`), and `copy_to_old_file` that fails after `ftruncate()`
  leaves the old bytes at the new length (`mailmbox.c:1289-1300`); both set
  `unsafe`.
* A cancellation that comes between `poll()` and `recv()` or `send()` does not
  stop that transfer (`mailstream_socket.c:334-347`, `461-471`).
* On a session without ESMTP `mailesmtp_send` sends the text twice: the helper
  it calls has already sent it (`mailsmtp_helper.c:79`).
  `mailsmtp_data_message_quit_no_disconnect` leaves the answer to QUIT in the
  stream.  A send that fails half-way leaves the transaction open and the next
  MAIL is refused until a reset.

## 6. Not modelled

In modelled parts: liblockfile and Windows branches of the lock, Windows
branches of semaphore and cancellation, failing mutex operations; read-only
mbox folders, `mailmbox_copy_msg_list`, a crash within the `memcpy` of an
append or of a copy, `open()` failing outside an expunge; in maildir unreadable
directories, failing `malloc`, `EXDEV`, and directory entries read while the
directory changes; in the stream progress callbacks and logging; in the engine
privacy handlers and several storages; in the protocols the text of commands
and answers, parsed items other than those the session keeps, TLS handshakes,
and a POP3 server that refuses RSET or NOOP, which RFC 1939 does not provide
for.  Failing allocations are modelled nowhere; one of them makes
`mailimap_append` send its literal without a continuation request
(`mailimap.c:629-641`).  A write that times out leaves its bytes in the write
buffer, and the next command sends them: in the protocols it is the end of the
call with the command under way, or the end of the stream.

Other parts: see the status and note of each component.  Most of the
repository's lines are parsers and printers of mail formats and of protocol
grammars (`imf`, `mime`, the IMAP parser and senders), types with constructors
and destructors, character tables, request builders for web services, wrappers
of cryptographic, TLS, HTTP and database libraries, and copies of headers.
They keep no state between calls, or the state of a library; a model of
them would repeat the grammar or the table.  They are not planned.

## 7. Plan

Modelled in this order: the lock, the mbox format, mbox, maildir, the
semaphore; then streams, cancellation, the engine, POP3, IMAP, SMTP.  Left:

1. Proofs: how a rewritten file parses (`ExpungePersistsNumbers`), from `Chain` and
   `KeptIs`; with it `NumbersStable` and `FileNumbersUnique`.
2. Two mailboxes: `mailmbox_copy_msg_list` over two `MailLock` instances.
3. `Nntp` on the pattern of `Pop3`; mh on the pattern of `Maildir`.
4. `Chash` against a map, `MailThread` against its definition, the cached
   drivers over `Mbox` numbers.
