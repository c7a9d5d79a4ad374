# svnup, modelled in TLA+

`mrksvnup` keeps a local copy of a Subversion tree up to date. It asks the
server for the difference between the revision on record and the one wanted,
lets the server drive an edit of the local tree, and records the new revision
when the edit is over. What can go wrong is mostly what the tests of the
repository do not reach: a run that stops in the middle, what it leaves and how
the next one takes it up, files that the user changed, two runs at once.

* [The system](#the-system): its parts, their state, what makes them correct
* [The modules](#the-modules): which module models what
* [The runs](#the-runs): what TLC checks, the bounds, the fairness
* [The proofs](#the-proofs): what holds for every value of the constants
* [Where the program does otherwise](#where-the-program-does-otherwise)
* [What is left out](#what-is-left-out) and the [plan](#plan)

`tlc -config MCSvnup_term.cfg MCSvnup.tla` runs a check, `tlapm
Svnup_proofs.tla` a proof. Line numbers below are those of `src/`.

## The system

### Components

| Part | Source | State it keeps | Operations |
| --- | --- | --- | --- |
| Command line and run | `main.c` | lock file `.svnup.lock`; `.svnup.rev`, `.svnup.repo`; options | option parsing, lock, `run`, `atexit_cb`, `sigterm_handler` |
| Client context | `svnc.c` | the checksum cache `.svnup.cache` (Berkeley DB), sockets, method table of the scheme | open, close, save, get, delete and scan checksums, shadow connection |
| Tree editor | `svnedit.c` | `doc`, the file under edit; the working copy and the cache | delete-entry, add-dir, open-dir, add-file, open-file, change-file-prop, close-file |
| Editor dispatch | `svnproto_editor.c` | none of its own | reads one command after the other, calls the tree editor |
| svndiff | `svndiff.c` | windows, parse state | parse a chunk, build a target view |
| svn session | `svnproto*.c` | requests and answers on one connection | greeting, authentication, reparent, get-latest-rev, check-path, get-dir, get-file, update, set-path, finish-report |
| Tokenizer | `svnproto_unpack.c`, `svnproto_pack.c` | parser position in the byte stream | unpack and pack of words, numbers, strings, lists |
| HTTP response parser | `http.c` | the state of the answer at hand, position in the stream | parse status line, header fields, body by length or in chunks |
| HTTP session | `httpproto*.c`, `dav.c` | addresses the server has told, XML editor | OPTIONS, PROPFIND, REPORT, GET |
| Repair stage | `svnc_util.c` | none of its own | `svnc_check_integrity`; URL parser, property entries |
| Directories | `svncdir.c` | none | `svncdir_mkdirs` |
| Path patterns, TLS | `xmatch.c`, `bytestream_ssl_helper.c` | none | |

The parts share one process and one thread. `run` opens the cache, sends the
report on the main connection and then sits in the editor loop, in which the
server's commands call the tree editor. The tree editor fetches whole files over
a second, "shadow" connection with `get-file` whenever the local file is not
what the server takes it for. Everything else is shared through files: the
working copy, the cache, the two dot files, the lock file. The only
asynchronous events are signals.

### What is hard, and what makes each part correct

* **A run that stops.** The order in which files are written is the only
  protection. Content goes in place, the checksum follows, the revision is saved
  last. Correct means: the revision on record names the tree on disk
  (`RecordedTree`) and the cache (`RecordedCache`), whatever was interrupted and
  repeated before.
* **A file that is not what the server believes.** The delta was made over a
  base the client may not have. Correct means: what a delta was sent for comes
  out right (`FixedUp`), also with missing, changed, torn files and with
  symlinks in their place; with `-t` it is left alone on purpose.
* **What an earlier run has left in the way** of the same command
  (`NeverRefused`, `CheckoutResumes`).
* **What is not tracked** must survive (`UntrackedKept`).
* **The repair stage** must find and restore every file of the target
  (`Repaired`).
* **A killed run** leaves the cache unusable; `-fC` is the way out and must
  produce everything the revision has (`TargetPresent`).
* **Two processes.** The lock file is no mutual exclusion by itself; the lock on
  the cache is (`OneEditor`). A lock file must not stay behind (`NoStaleLock`),
  and nobody may wait for ever but for a server that does not answer, or for the
  cache of one who does (`EndsUnlessHung`).
* **The session.** Requests and answers are only kept together by the order in
  which both ends read and write. Correct means: no answer is taken for that of
  another request, also after a request that failed or was repeated over a new
  connection (`InStep`); a revision is recorded only if the server has said that
  the edit is over (`RecordedMeansDone`); the two ends do not wait for each
  other (`NoMutualWait`), and every session ends (`SessionEnds`).
* **The tokenizer.** The answer is read in pieces of any length, and an optional
  item that is not there gives back what it has read. Correct means: what a call
  returns is what the server sent (`ValuesRight`), the next call begins right
  behind it (`InStep` of `Unpack`), nothing is looked for that the server sends
  only later (`NeverWaits`), and every answer sent as a whole is understood
  (`Understood`).
* **HTTP.** An answer ends by its length, by its last chunk or with its
  connection, and what one answer leaves in the stream is met by the next.
  Correct means: a body callback is given one body from its beginning, that of
  its own request unless an earlier one was refused (`TakenRight`), and the whole
  of it unless the connection has ended (`DoneMeansWhole`); while nothing fails nothing is lost (`NothingLost`); no
  request is made without an address (`MainAddressed`); the client does not wait
  for ever (`SessionEnds`).
* **svndiff.** However chunks end, between fields or within the version or a
  number, the parser must give the document that was sent or refuse it
  (`ParsedRight`; a chunk that ends within a block it reads
  [beyond the end](#where-the-program-does-otherwise)). The checks of the builder
  must refuse corrupt documents without ever refusing a good one (`NotRefused`,
  `BuiltRight`, and `InBounds` as long as numbers fit a `long`).

Above the first of these stands an abstract specification, `WorkingCopy`: what a
user may rely on, with nothing of how it is done. `Implements` says that the runs
of svnup are behaviours of it.

All hazards, each with its line, are listed in `PROJECT.json`.

## The modules

| Module | Models | Extends |
| --- | --- | --- |
| `SvnRepo` | trees, revisions and the edit between two trees | |
| `SvnEdit` | tree editor and editor dispatch | `SvnRepo` |
| `WorkingCopy` | what the program promises of a working copy (abstract) | `SvnRepo` |
| `Svnup` | runs one after another over one working copy, repair stage, stops, the user; implements `WorkingCopy` | `SvnEdit` |
| `Instances` | several processes on one directory | |
| `SvnDiff` | one svndiff document, parsed and built | |
| `Session` | the main and the shadow connection of one run, both ends | |
| `Unpack` | the tokenizer over arbitrary reads, with the specifications the client matches | |
| `HttpParse` | one HTTP answer, parsed from a stream that is read in pieces | |
| `HttpSession` | one run over HTTP, the main and the shadow connection, both ends | `HttpParse` |
| `MCSvnup`, `MCInstances`, `MCSvnDiff`, `MCSession`, `MCUnpack`, `MCHttpSession` | the instances TLC checks | |
| `Svnup_proofs` | theorems: types, the tree and the cache on record, the refinement, what a run does to single files | `Svnup` |
| `Instances_proofs` | theorems about several processes | `Instances` |
| `SvnDiff_proofs` | theorems: the parser and the builder of svndiff | `SvnDiff` |
| `Unpack_proofs` | theorems: the tokenizer and the specifications over any reads | `Unpack` |
| `Session_proofs` | theorem: types of the session | `Session` |
| `Dialog_proofs` | lemmas: what the client has still to do, and what its steps make of it | `Session_proofs` |
| `Link_proofs` | theorems: the two ends of a connection | `Dialog_proofs` |
| `Http_proofs` | theorems: types, bodies and addresses of the HTTP session | `HttpSession` |

### SvnRepo

A tree is a function from paths (sequences of names) to nodes; a node has a
kind (`none`, `dir`, `file`, `link`), a text and the executable bit. Equal texts
stand for texts of equal MD5 checksum, so comparing checksums is comparing
texts, and `Torn` is any content that is the text of nothing. A symlink's text
is the `link ` form Subversion sends for it. Of the server only the edit is
modelled: `Deleted(s, t)` is what it deletes to get from tree `s` to `t`
(topmost entries, also those that change their kind) and `Updated(s, t)` what it
adds or opens.

### SvnEdit

| State | Code |
| --- | --- |
| `local`, `db` | the working copy; the cache of checksums, by path |
| `doc` | the static `doc` of `svnedit.c`: path, base checksum, form of the delta, mode and `SD_FLAG_SYMLINK_SET` |
| `phase`, `run` | where `run()` is; source and target revision, `-t`, `-R` |
| `dels`, `upds`, `owed` | the server's side: entries still to delete, to add or open, and the commands it owes the open file |
| `mine` | history: paths the user changed and no run has put right since |

One action is one handler: `DeleteEntry`, `AddDir`, `OpenDir`, `AddFile`,
`OpenFile`, `ApplyTextdelta`, `TextdeltaChunk`, `ChangeFileProp`, `CloseFile`.
The server may interleave siblings in any order; a directory comes before what
is in it (`Reached`). `CloseFile` has a disjunct for each way through
`svnedit_close_file`: the file already is the target, `-t` leaves it, the base
does not match and the file is fetched, the delta cannot be applied, a symlink
is made or replaced, the windows are written. `BaseMismatch`, `AlreadyTarget`,
`Foreign`, `InTheWay` are its verdicts on the local file.

A handler that reports an error ends the run (`Error`): `update_cb` calls
`errx`. A stop inside a handler (`StopInCloseFile`, `StopInOpenFile`,
`StopInDeleteEntry`) leaves any of the intermediate states of the file system:
the file empty, torn or complete with the old or new mode, or unlinked and not
yet made, a symlink made whose checksum is not saved yet, a directory of which
some files and subdirectories are gone, or all of it while the cache still has its
key. The signal handler closes the cache, so a checksum is saved or not saved and
never torn.

A symlink in the place of a directory is not followed: what is behind it is not
part of the working copy.

### Svnup

Adds `.svnup.rev` (`revfile`: a revision, nothing, or a file of no bytes because
`O_TRUNC` came and the write did not), `cacheOK` (whether the last writer closed
the cache), `pending` (history: the target of a run that did not finish),
`checks` (cache keys the repair stage still has to visit), and two counters that
bound the environment. `Start` is `main` and `run` up to the update command;
`CloseEdit`, `CheckFile` and `Finish` are the rest of `run`; `Quit` is
`atexit_cb` after an error or a caught signal. `Stopped...` are the stops; one in
the repair stage finds the directories above a file made and the file not, or only
a part of it, or its checksum forgotten and the file not yet unlinked
(`StoppedInIntegrity`). `Modify` is the user between two runs.

The constant `Scenario` says what a model admits (the list is in the module): for
instance `"clear"` for `-C` on a working copy that has a revision. It makes the
premises of every property visible: a run that checks `RecordedTree` without
`"retarget"` says that the property needs it.

### WorkingCopy

A tree, the revision on record, the goal of the work under way and the paths the
user owns. `Work` may do anything to a path that the revision on record and the
goal do not agree on, in any order and left at any stage; where they agree it
touches nothing. `Record` and `Commit` need a complete tree. `Svnup` maps `tree`
to `local`, `rev` to `revfile` (an empty `.svnup.rev` is no revision), `goal` to
`pending` and `own` to `mine`; a stop and the next run are then steps of the same
work, a stop between `O_TRUNC` and `write` is `Record`, and `Finish` is `Commit`.

### Instances

A process is a program counter through `main` and `run` and its options. The
state it shares is the lock file, the holder of the cache (`O_EXLOCK`) and the
revision file. `Atexit`, `LockIsFree`, `ClearLock`, `LockIsTaken`, `CreateLock`
and `Sigaction` are the steps of `main` whose interleaving matters: `lstat` and
`open` are two steps, `atexit` comes before both and `sigaction` after. `Term`
is a caught signal and goes through `atexit_cb`; `TermTooEarly` and `Kill` end
the process on the spot, and the system closes its files.

### SvnDiff

The server's encoder (`EncDoc`, external) turns a document of windows into
fields; `ReceiveChunk` cuts them into chunks after any field and inside any:
the version, a number, a block. `split` remembers what a chunk has ended in the
middle of. A number or version that is cut off is refused where it is met. Of a
block the code takes as many bytes as it has, also beyond the chunk (`OverRead`):
it fails to unpack them, or the rest of the block is read as fields, to an error or
to windows nobody sent. What those are is not computed; the constant `Misread` is a
set of them, arbitrary in the proofs. `Parse` is one pass of the loop of `svndiff_parse_doc` per step, with
`parse_state` as `state`; the loop over the instructions of a block is
`DecodeWhile`. `Build` is `svndiff_build_tview`: one step per instruction, and for a
target copy one per byte, since the copy reads what it has just written. `Meant`
is the reference, what the instructions of a window mean, and `MeantBy` what there
is after each of them. What is recursive is a recursive function, so that it can
be proved about.
`Radix`, `MaxDigits` and `MaxShort` scale the coding down (in the code 128, 10
and 63): with them at 2, 5 and 1 two-byte and three-byte numbers occur in small
windows. `MaxLong` is the greatest `long`: numbers whose double is beyond it are not
in `Number`. A deflated block is one symbol that stands for its content.

`SvnEdit` takes of a delta only whether it has source copies and whether the
base is the one it was made for; `BuiltRight` is the ground for that.

### Session

The client is sequential: it sends, waits, and either goes on or fails. What is
left of its program is the sequence `todo` of steps, and each function of
`svnproto*.c` is an operator that yields its steps (`Setup`, `GetLatestRev`,
`CheckPath`, `GetFile`, `Update`, `Editor`, ...), so that a program reads as the
calls of `run` do. A step is taken by the action of its kind: `SendStep`,
`Receive`, `Auth`, `Contents`, `EditStep`, `RepairStep`, `Save`.

| State | Code |
| --- | --- |
| `todo`, `outcome` | where the client is in `run`, `svnproto_*`, `svnc_check_integrity` |
| `asked` | the request the client is at, on each connection |
| `bad` | files that the repair stage finds missing or changed |
| `conn`, `toC`, `toS` | the two sockets and what is under way on them |
| `torn` | `tokenizer_state` of the input stream: out of a token, in one, or in a string; it belongs to the context and not to the connection, so it survives a reconnection |
| `script`, `serves`, `edit` | the server (external): what it will say or wait for, for which request, and how far it is with the edit |

`Failed` says where an error leads: the authentication of a get-file request
that fails leads to one `TryReconnect`, the repair stage goes on with the next
file, and everything else ends in `errx`. The server may refuse anything
(`Refuse`), give the edit up (`AbortEdit`), speak another version, or offer
only mechanisms the client does not have. `Cut` breaks a connection at any
point: what was under way is lost from some point on, and the last answer that
arrives may end inside a token or inside the contents of a file (`ReadPart`,
`GarbledToken`, `GarbledString`). Each answer carries the request it is for,
as history; the client never looks at it.

What an edit does to the tree is `SvnEdit`'s. The two modules meet in two
places: an `"edit"` command of `Session` is any command of `SvnEdit`, and the
get-file that close-file makes may fail there (`"getfile"`) for the reasons
spelled out here.

### Unpack

A specification (the format string the C code gives to `svnproto_unpack`) is a
sequence of items, with the operators of the module named for the functions that
give them (`Setup`, `CheckAuth`, `GetFile`, `EditorLoop`, ...). `frames` is the
stack of the specifications at hand, since a callback unpacks with one of its
own, and `calls` what the client asks for next.

| State | Code |
| --- | --- |
| `data`, `pos` | the buffer up to SEOD, and SPOS |
| `st` | `tokenizer_state`: `ts`, `i`, the offsets `start` and `end`, and whether the token is given `back` |
| `phase` | in `vunpack` at an item, in `read_one_value`, or with a value to match |
| `frames`, `calls`, `word` | the call stack of the C code and the word the editor loop dispatches on |
| `got` | history: the values that were picked |

`ParseOne` is `parse_one_value` by the byte: a byte that is no part of a token in
the state at hand is an error. `Consume` reads any number of bytes, `EndOfData` is
the end of the connection. `Take`, `TakeContents`, `Miss` and `NoMatch` are the
cases of `vunpack`, `Enter` and `Leave` its callbacks. `Recycled` is
`bytestream_recycle`, which moves the offsets. An exchange is what the
client calls, the tokens the server sends for it, and the values and the outcome
this is to have; the exchanges are those the server can send with each optional
part there and not there, and malformed ones. `Bytes` is what the server makes of
the tokens.

What an exchange means is `Course`: the cases of `vunpack` and of
`svnproto_command_response` over tokens instead of bytes, one `Turn` for each item,
callback or return, without reads, offsets, a tokenizer or a token to give back.
`ExchangeAssumption` asks of every exchange that its course ends with the outcome and
the values written beside it and, unless it fails, with all tokens used. An exchange
for which the specifications ask for more than the server sends (`"waits"`) is
none, nor is one in which a string would be given back (`"garbled"`): the
code reads it again from behind its length (`svnproto_unpack.c:167`). None that the
program calls for does.

### HttpParse and HttpSession

`HttpParse` is `http_parse_response`: `buf` and `pos` are the stream from the
start of the line or chunk at hand and SPOS, `ctx` is `http_ctx_t`. SPOS may be
one beyond the data (`late`), because the CR LF after a chunk is skipped unseen.
Each of `Start`, `PartOfLine`, `StatusLine`, `HeaderField`, `EmptyLine`,
`ChunkSize`, `PartOfChunk`, `ChunkData` and `LengthBody` is a branch of its loop.
A byte carries the request its answer is for, as history that the parser does
not look at. What the status, header and body callbacks of each request accept
is in `StatusAccepted`, `HeaderAccepted`, `Given` and `BodyAccepted`. `stale` is
history too: the stream may hold something that is not the next answer, because
an answer was refused and its rest is still there, or because a connection was
made while SPOS was one beyond the data.

`HttpSession` is written as `Session` is: `todo` is what is left of the client's
program, with one operator for each function. While the answer to REPORT is
parsed, `EditCommand` may put the fetching of a file in front of it, over the
shadow connection, as the XML editor's callbacks do. `known` is which addresses
OPTIONS has told, `got` what came of the files. `Again` is the recursion of the
functions that repeat a request after `PARSE_EMPTY`. The server (external)
answers in order, with a length or in chunks, or refuses; `Cut` ends a connection
in an orderly way or by a reset at any byte of an answer, `Timeout` while it is
idle.

## The runs

Three paths (a file, a directory, a file in it) and four revisions are enough
for every transition between two entries: a file is changed, its mode changes,
a directory becomes a file and the reverse, both vanish (`FileTrees`). More paths
multiply interleavings that do not touch each other: handlers share nothing but
the directory above them. `MixedTrees` adds a fifth revision and symlinks, which
come, go, change and take the place of files, also of one whose content is
the symlink's text. `ConfTrees` has a directory that goes and comes back and a
file of the user in it.

| Run | Checks | Model and bounds |
| --- | --- | --- |
| `term` | `TypeOK`, `RecordedTree`, `RecordedCache`, `FixedUp`, `Implements` | `MixedTrees`, five revisions; up to 2 stops and 1 change of the user; SIGTERM, failing get-file, `-t` (not on what a stopped run left), a directory replaced by a symlink. Two stops, so that a run that takes up another one is stopped too |
| `repair` | `Repaired`, `NeverRefused` | `FileTrees` with `-R`; 2 stops, 1 change. `NeverRefused` is for runs the user has not touched: anything in the way was left by svnup itself |
| `kill` | `TargetPresent`, `UntrackedKept` | `ConfTrees`; SIGTERM, SIGKILL, `-C` and `-t`; 2 stops, 2 changes |
| `safe` | `TypeOK`, `OneEditor`, `NoStaleLock`, `EndsUnlessHung` | 3 processes, any of them with `-f`, SIGTERM and SIGKILL; three, because one may wait while another breaks the lock of a third. `-C` changes only the revision file and is left to the proof |
| `session` | `TypeOK`, `RecordedMeansDone`, `NoMutualWait`, `InStep`, `SessionEnds` | 2 files, an edit of at most one command, 2 broken connections. Two, because the repeated request may break as well; two files, so that the repair stage has a request to make after one that failed. A longer edit repeats the same exchange |
| `diff` | `ParsedRight`, `NotRefused`, `BuiltRight`, `InBounds` | a base of two letters; all windows of up to two instructions, some of three, windows whose length does not fit, two windows in a document; a chunk may end at any byte, blocks included; four misread documents (no window, too short for a copy, too short for a new piece, a right one); numbers up to 20 |
| `unpack` | `TypeOK`, `ValuesRight`, `InStep`, `NeverWaits`, `Understood` | exchanges with and without their optional parts (greeting, authentication, get-file, get-dir), an edit with each kind of argument, failures, and five malformed ones; the longest has a course of 60 turns; reads of any length, the end of the connection at any byte. Strings hold what looks like tokens. Offsets matter and lengths do not, so strings are of up to two bytes |
| `http` | `TypeOK`, `TakenRight`, `DoneMeansWhole`, `NothingLost`, `MainAddressed`, `SessionEnds` | 1 file, which the edit and the repair stage ask for or not; 1 connection that is not made or ends, 1 refused request; one of the two connections (`bitty`) is read in pieces of any length and the other by the answer, since their buffers are apart; a report in a chunk per element, a file in one, or either with a length |

The runs that refute a claim of the documentation are described
[below](#where-the-program-does-otherwise): `resume`, `emptied`, `lock`,
`truncated`.

**Fairness.** `Svnup` has none: that a run ends depends on a server that answers,
and the session is where that is looked at. `Instances!FairSpec` is weak fairness of
each process's own steps (`Local`); the update (`Update`), failures and signals are
not fair, because an update may wait for its server for ever
(`svnproto_editor.c:713`). `EndsUnlessHung` says that a process past the lock file
ends, or waits from some time on for the server or for the cache of one that does.
`OpenCache` is disabled while another process has the cache, and weak fairness
is enough because every process opens it once, so the contention ends or its
holder hangs.
`Session!FairSpec` is weak fairness of the client and of the server of each
connection, as each is one process that is not held up by anything but the
other's answers; broken connections are not fair. `Session!SessionEnds` allows
the three mutual waits `NoMutualWait` names, which are real.
`Unpack!FairSpec` is weak fairness of the client, the only process there;
`HttpSession!FairSpec` that of the client and of the server of each
connection. Deadlock is checked in every run; `Done` marks the states in which nothing is left to do.

**What holds by these runs** and is not obvious from the code:

* The empty `.svnup.rev` of a stop between `O_TRUNC` and `write` is harmless: it
  is read as no revision but does not flush the cache, and the following checkout
  overwrites every checksum.
* The early exits of `close-file` that go to `EDIT_COMPLETE` instead of `END` are
  what keeps the cache right (the mutant that goes to `END` breaks
  `RecordedCache`).
* A torn file is repaired by the next run because its text is neither base nor
  target, so the whole file is fetched. A file and a symlink of the same text are
  one to the checksum: `FixedUp` and `Same` let them stand for one another.
* The CR LF after a chunk is skipped whether it has been read or not, and SPOS
  may be beyond the data. On a connection that stays nothing is lost by it.
* The address for REPORT is never missing, although `dav.c` does not look:
  check-path before it asks for the one that the server tells last.
* The repetition of commands ends at close-edit and that of contents at the empty
  string, both without looking at a byte that comes only after the next request.

## The proofs

All theorems are proved with TLAPS for every value of the constants.

| Theorem | Says |
| --- | --- |
| `Svnup_proofs!TypeCorrect` | `Spec => []TypeOK` |
| `Svnup_proofs!RecordedTreeCorrect` | `Orderly`, `Spec => []RecordedTree` |
| `Svnup_proofs!TargetPresentCorrect` | `Repeated`, `Spec => []TargetPresent` |
| `Svnup_proofs!RecordedCacheCorrect` | `Repeated`, not both `"repair"` and `"getfile"`, `Spec => []RecordedCache` |
| `Svnup_proofs!SvnupImplementsWorkingCopy` | `Orderly`, `Spec => Implements` |
| `Svnup_proofs!FixedUpAlways` | `Spec => FixedUp` |
| `Svnup_proofs!UntrackedIsKept` | no `"repair"`, `Spec => UntrackedKept` |
| `Svnup_proofs!RepairedCorrect` | `Repeated`, no `"getfile"`, `Spec => []Repaired` |
| `Svnup_proofs!NeverRefusedCorrect` | `Orderly`, no `"getfile"`, no symlink in the repository, `Spec => []NeverRefused` |
| `Instances_proofs!TypeCorrect` | `Spec => []TypeOK` |
| `Instances_proofs!OneEditorAtATime` | `Spec => []OneEditor` |
| `Instances_proofs!StaleLockMeansDeath` | `Spec => []NoStaleLock` |
| `SvnDiff_proofs!ParsedRightCorrect` | `Spec => []ParsedRight` |
| `SvnDiff_proofs!NotRefusedCorrect` | `Spec => []NotRefused` |
| `SvnDiff_proofs!BuiltRightCorrect` | `Spec => []BuiltRight` |
| `SvnDiff_proofs!InBoundsCorrect` | `Spec => []InBounds` |
| `Unpack_proofs!TypeCorrect` | `Spec => []TypeOK` |
| `Unpack_proofs!ValuesRightCorrect` | `Spec => []ValuesRight` |
| `Unpack_proofs!InStepCorrect` | `Spec => []InStep` |
| `Unpack_proofs!NeverWaitsCorrect` | `Spec => []NeverWaits` |
| `Session_proofs!TypeCorrect` | `Spec => []TypeOK` |
| `Link_proofs!RecordedAfterEdit` | `Spec => []RecordedMeansDone` |
| `Link_proofs!AnswersInStep` | `Spec => InStep` |
| `Link_proofs!WaitsAreKnown` | `Spec => []NoMutualWait` |
| `Http_proofs!HttpTypeCorrect` | `Spec => []TypeOK` |
| `Http_proofs!TakenRightCorrect` | `Spec => []TakenRight` |
| `Http_proofs!DoneMeansWholeCorrect` | `Spec => []DoneMeansWhole` |
| `Http_proofs!NothingLostCorrect` | `Spec => []NothingLost` |
| `Http_proofs!MainAddressedCorrect` | `Spec => []MainAddressed` |

**Assumptions.** `PathAssumption`: the prefix order on paths is a strict partial
order, the root is no path below itself, and of the directories above a path
that have a property in common one is the topmost (true of finite sequences;
stated because it would need induction over data). `TextAssumption`,
`RevAssumption`: the special values differ from each other and revisions are
well-formed trees. `Orderly`: the scenario has neither `"retarget"`, `"clear"`
nor `"retolerant"`, that is, an unfinished run is repeated towards the same
revision, without `-t` and not after `-C`. The deviations below show
that each of the three is needed. `Repeated` is weaker: `-C` is admitted if no
file of the repository holds the text of a symlink (`LinksApart`). Such a file,
added over a symlink that `-C` made the program forget, is written as that
symlink, and the one checksum it has in common with it then hides the mistake
from every later run. Nothing bounds the
number of stops, failures, changes of the user or paths. `RecordedCacheCorrect` does
not hold where `-R` is used and a request may fail: a repair stage that cannot
fetch a file forgets its checksum. For the same reason `RepairedCorrect` and
`NeverRefusedCorrect` exclude requests that fail, and the latter symlinks, which
the finding of `resume` and a delta against the text of a symlink break.
`CodingAssumption` is what any coding of the kind of svndiff has: a radix of at
least two, and no byte of the version that could be a digit with the high bit (in
the code the radix is 128 and the version is ASCII and a 1). `DocAssumption` is what may
be sent: windows whose numbers take no more than `MaxDigits` digits and fit a `long`
with the sum of two of them (`2 * n <= MaxLong`), the lengths of their blocks included, and a new instruction has no offset, because the
format has no place for one. The instructions are arbitrary, also ones that no
valid document has; only `Valid` asks more of them. `MisreadAssumption` says of what a
chunk that ends within a block may be taken for only that its numbers are such numbers as
well. `ExchangeAssumption` ties the
values of an exchange to its tokens, as said [above](#unpack); it bounds neither the
tokens, their texts nor the calls.
The theorems about the two sessions have no premise and bound
neither the files, the commands of the edit, the broken connections nor the refusals.
`UntrackedIsKept` excludes `-R`, which makes the directories above a file it
restores and unlinks what it cannot fetch. It and `FixedUpAlways` do without
`Orderly`: they hold after `-C`, `SIGKILL` and a change of mind as well.

**The argument of `RecordedTreeCorrect`.** `RecordedTree` speaks of finished
runs only, so it says nothing about the state a stopped run leaves, and it is
not inductive. The invariant `IInv` adds a clause for each situation:

* `AtRest`: no run is unfinished; the tree is that of the recorded revision
  except where the user was, and the cache has its checksums.
* `Unfinished`: a run towards `pending` stopped; an entry that both trees agree
  on is untouched, and any other is gone or of one of the two kinds, with
  whatever content (the next run is sent it again). The cache has the checksums
  of the files both trees agree on.
* `EditInv`: during an edit, every path the server is done with is as in the
  target, and every path it is not done with is as in `Unfinished`. It also ties
  `doc` to the entry under edit, so that close-file's verdict on the local file
  is a verdict on one of these cases. `EditTolerant` says that a run with `-t`
  finds every file as the source has it, since it does not follow a stopped one.
* `IntegrityInv`: after close-edit the tree is the target, and the repair stage
  only restores.

The proof has one step per action. The core is `close-file`: for each of its
ways out, the file has the target's kind and text, or the run has failed and the
file is in one of the states `Unfinished` allows. Above it stand lemmas about
`Deleted` and `Updated`: an entry that differs between source and target is in
one of the two, and a deletion takes nothing away that the target has.

With `-C` the program takes nothing to be there, so what an earlier run has left
where neither tree has an entry can be anything, and stays. The same invariant
serves when it is read for the entries that count (`Counts`): with `"clear"` those
are the ones that exist in the tree at hand. An entry the edit adds is then met by
whatever lies in its place, and the proof has to show that each way through
`close-file` still ends with the target's text: the file is fetched or written
afresh, or what is there has that text already and, by `PlainInv`, is no symlink
that only looks like it. `TargetPresent` and, with the cache, `RecordedCache` and
`Repaired` follow.

**The refinement.** `Work` of `WorkingCopy` allows anything but one thing: to touch
what source and goal agree on and the user left alone. `Record` and `Commit` ask
for the complete tree. So each step of `Svnup` needs two facts. First, what both
revisions agree on is neither deleted nor below something that is, nor in `upds`,
nor the open file, and a handler touches nothing else (`Deleted`, `Updated` and
`EditInv`). Secondly, `IntegrityInv` has the complete tree at the time of
`Finish`. The repair stage restores only files that the user has touched, which
`IntegrityInv` and the right cache give.

**What a run does to a file.** `UntrackedIsKept` and `FixedUpAlways` need only that
the server speaks of entries of the target (`ServerInv`). A handler touches the
open file, what is in `upds` and what is below a deleted entry (`TouchesOnly`).
`FixedUpAlways` goes through the ways out of `close-file` that do not fail.
`RepairedCorrect` adds `RestoreInv` to `IInv`: a file of the target is still on the
list, or in order, or has a symlink or a directory in its place. The list has
every file at the start, since the cache has a checksum for each. For
`NeverRefusedCorrect`, `IInv` without changes of the user says that an entry the
server comes to is gone or of the kind it is to be, and `CalmInv` that source copies
are sent only for an entry that has a text, which then is a file on disk.

**The delta.** None of the four properties is inductive. While the document is parsed,
`Reached` says that the windows so far are the first of those sent (`Windows`), that the
parser is at the field its state names, and that chunk and rest are what is left of the fields
from there on (`Stream`); when a number has been torn, the chunk ends in its first
part (`Cut`): of the version fewer than four bytes, of a number digits that all have the
high bit (`Tears`). So a torn number is never `Complete` within its chunk: it is refused where
it is met, and a parser that comes to the end has met none. A torn block is longer than what
is left of its chunk; behind it there is no more to come, and the windows are any
(`OutOfStep`), for which only `Going` below is claimed. For a field that is
there as a whole the decoder is the inverse of the encoder, and says so whatever follows in
the chunk: for numbers (`Spells`), blocks packed or not, and the instructions of a
block, one turn of the loop for each (`InsnsFrom`). While a window is built,
`Going` counts, which needs nothing of the document and is `InBounds`, and `Follows`
says that view and bytes are what `MeantBy` has after as many instructions; within a
target copy, that the bytes copied are the beginning of its piece, which is periodic where
the copy runs into what it writes. Since the view of a valid window never is longer than
it is to be, no check fails, which is `NotRefused`. `Digits`, `NumberOf`, `DecodeWhile` and
`MeantBy` are recursive functions, and `FlattenSeq` is folded over one; what they
compute is proved by induction over the naturals, as the statement that a
set of naturals is all of them (`NatInduct`).

**The answers.** What the client has made of an exchange depends on where
the reads, the tokenizer and the token that was given back have left it, and none of
that is in `ValuesRight`. The invariant `Inv` of `Unpack_proofs` says that the client
is at some turn of the course, with as many tokens taken (`Follows`), and in one of
three situations (`Stands`): between two tokens (`Ready`), within the next token or
behind it (`Within`), or before it once more, because it was given back (`Given`). Each ties
the offsets to the place where that token begins in what the server sends (`Starts`),
counted with what `bytestream_recycle` has dropped; from there on buffer and rest
are what was sent (`Kept`), but for the delimiter of the token at hand, which the
tokenizer overwrites with NUL and must take for a space when it reads the token again
(`Alike`). `ReadOne`, `Consume` and `ParseOne` stay at their turn:
for each kind of token there is one lemma about the bytes in it. Every other
step is the next turn. A list may end where its parenthesis does or behind its
space, so a read may stop between the two; a parenthesis without a space (`Tight`) is the one
place where the tokenizer refuses what follows. `InStep` is `Ready` behind the
last token (`OnlySpace`). For `NeverWaits`, a client that has used up all bytes of the
exchange and wants a token has taken every token of it (`ReadyAtEnd`,
`WithinAtEnd`), and then its course would wait as well. `Number` and `Course` are
recursive functions, and `FlattenSeq` is folded over one; the induction is over the
naturals here too.

**The session.** `todo` is a sequence that branches and is put in front of, so
`Dialog_proofs` first says what it can look like, counted from its end: the run
itself, a file fetched in the middle of the edit, the repair stage (`Shape`). Of
that only two values per connection matter: the request that is under way
(`Topic`) and how many of its items the client has before it (`Left`). Every kind
of step, a challenge, a repeated request and a repair that goes on included,
moves them as the dialog of the request has it. None of the three properties is
inductive by itself: that the next answer is for the request at hand depends on
everything under way. `Inv` of `Link_proofs` says it for each connection the client
uses whose tokenizer is not within something torn. The messages under way to the
client are the next items it expects, in order, a failure or a torn one last
(`Coming`). The server is level with the client, ahead of it by what is under way,
or behind it by what is under way to the server (`Live`), or in one of four other
situations: the request has not arrived, was refused, the edit was given up, or
the client has turned away from a server of another version. A connection whose
tokenizer is torn has only what a new connection brings (`Sound`). `InStep` is
`Coming` at the first message; `NoMutualWait` is that `Live` leaves a client that
waits with something under way or a server that has something to say, but for the
three cases it names. For `RecordedMeansDone`, `OneEdit` says that the edit is asked
for once and is not begun again when it is over, and `Ending` that the client
only gets past the edit by what the server says when it is done.

**The HTTP session.** None of the five properties is inductive: that a body is
handed over from its beginning depends on where in an answer the parser is, and
that on every byte that is still to come. `HttpInv` of `Http_proofs` gives each byte
before the parser, in the buffer or under way, a label: the answer it belongs to and
its place there (`Labelled`, `Ahead`). Labels follow one another, so an answer once
begun is met to its end unless the connection ends. `Place` ties the state of
the parser to the label of the last byte it has consumed: within the head at the end
of a line (`InHead`), within a body with a length (`InLength`), or between or within
chunks (`InChunks`), with as much handed over as is before that place.
Each branch of the loop takes one place to another; for that the lemmas about the
encoding (`AnswerHead`, `AnswerChunks`) say what stands where in every answer the
server can give. A line break within a chunk is data because `InChunks` knows the
length of the chunk, and a chunk cannot be taken for another because `Stops` has the
places where chunks begin. `Fresh` says that a connection that is not stale has
nothing before the parser but the rest of the answer to the request at hand, and
`Filed` that on one that is stale there are whole answers one after the other behind
what a refused one has left. `Skewed` and `Soiled` are what a skipped byte leads to
(SPOS beyond the data when the connection ended) and what may follow a
status line found in a wrong place. `Drawn` is the part of `TakenRight` and
`DoneMeansWhole` that outlives the answer, when the verdict is passed and the
parser has left it. `MainAddressed` needs the plan of the client, `Planned`: what
`todo` can look like, counted from its end as in the session (`Shape`), and which
addresses OPTIONS has told by then (`KnownRight`), which follows from `Heard`, the
order in which the header fields come.
`NothingLost` is about runs in which nothing fails, and `Lossless` adds what those rely
on: no answer before a parser is a refusal and no verdict but that of check-path is
an error (`Calm`), and the steps that are left find their connection made and its
addresses told (`Equipped`). A refusal or a cut ends the promise for good
(`StaysRough`).

`OneEditor` rests on the invariant that a process between `dbopen` and its close
is the holder of the cache; `NoStaleLock` on counting as responsible every
process from `CreateLock` to `UnlinkLock`.

**Model-checked only.** Liveness (`EndsUnlessHung`, `SessionEnds`,
`Understood`), which is out of the prover's reach. All other properties of the
passing runs are proved. That the exchanges of `MCUnpack` satisfy `ExchangeAssumption` is
evaluated by TLC; that a server sends no others is not shown.

## Where the program does otherwise

Each of these runs checks what the documentation says and shows how the code
does otherwise.

| Run | Property | What happens |
| --- | --- | --- |
| `resume` | `CheckoutResumes` | An interrupted first checkout that has made a symlink cannot be completed: `symlink(2)` fails with `EEXIST` (`svnedit.c:811`) |
| `emptied` | `AlwaysFixedUp` | A file that is opened for a property change alone has no base checksum and is taken for an added one (`svnedit.c:694`): a locally changed file is unlinked and left empty with the new mode |
| `lock` | `LockRefuses` | The exit handler is installed before the lock is looked at and removes whatever lock file there is (`main.c:39`, `main.c:463`): an instance that is refused takes the lock of the one at work away, and the next gets in. `lstat` and `open` without `O_EXCL` are a second way |
| `truncated` | `SuccessMeansComplete` | Over HTTP, the end of a connection within an answer ends the answer well (`http.c:525`): a report that was cut is an edit that is over, a file that was cut is stored, and the revision is recorded |

More of the kind follow from the same lines. The models produce them when the
scenario admits them, and the properties are checked under scenarios that do
not:

* A first checkout of one revision is interrupted and one of another is run. There
  is no revision on record, so the report says start-empty and the server deletes
  nothing (`main.c:236`): files only the first revision has stay, and the second is
  recorded. `RecordedTree` with `"retarget"`.
* `-C` forgets the revision together with the cache (`main.c:188`), and the
  update that follows is a checkout over the old tree: what was deleted since
  stays. This is `RecordedTree` with `"clear"`; `TargetPresent` is what is left,
  and `TargetPresentCorrect` proves it.
* `-t` after an interrupted run takes a torn file for one the user changed
  (`svnedit.c:653`) and records its target checksum. `RecordedTree` with
  `"retolerant"`.
* `-t` does not keep the branch of `emptied` from emptying the file.
* A get-file request that fails in the repair stage makes it forget and unlink
  the file, and the run ends well (`svnc_util.c:237`). `Repaired` with
  `"getfile"`.
* Deleting a directory leaves the cache keys below it (`svnedit.c:238`). If the
  directory comes back, `-R` removes a file the user has made under such a name.
  `UntrackedKept` with `"repair"`.
* The revision is read before the wait for the cache (`main.c:197`), so a
  process that waits for another one starts from a revision that is no longer on
  record.
* Client and server wait for each other without a timeout after the server has
  given up the edit (the editor loop goes on, `svnproto_editor.c:713`), when it
  offers no mechanism the client has (`svnproto_auth.c:76`), and when a
  reconnection meets a tokenizer that is still within a string and swallows the
  greeting. `NoMutualWait` says that there is no fourth way.
* The tokenizer state of a broken answer is not reset by a reconnection
  (`svnc.c:291`). In the repair stage every file after the one whose answer was
  torn then fails, is forgotten and unlinked, and the run still records its
  revision. `RecordedMeansDone` holds: it is about the edit, not the repair.
* A get-file request is repeated only if its authentication fails. When it
  cannot be sent, or its answer breaks later, it is not
  (`svnproto_get_file.c:194`, `svnproto_get_file.c:207`).
* A SIGTERM between the creation of the lock file and `sigaction`
  (`main.c:484`) leaves the lock file behind; `NoStaleLock` counts it as a death.

* A failure whose list of errors is empty passes for success (`svnproto.c:79`).
  `Failed(<<>>)` of `MCUnpack` has that as its outcome.
* `get-dir` refuses every answer: the end of the list of properties is told as an
  end of data (`svnproto_get_dir.c:246`), which is not how a repeated item ends.
  `test/testfoo.c:663` expects it to succeed. No run of the program calls it; the two
  answers of `Directory` in `MCUnpack` have the refusal as their outcome.
* A chunk of a delta that ends within a block of instructions or of new data is not
  found out: `decode_bytes` copies or unpacks beyond its end (`svndiff.c:84`), and
  the next chunk is read from the middle of the block. `ParsedRight`,
  `NotRefused` and `BuiltRight` except it.
* A number of ten digits of seven bits is more than a `long` has (`svndiff.c:38`). A
  negative length passes the checks of the builder (`svndiff.c:499`,
  `svndiff.c:532`). `InBounds` claims nothing of such numbers.

Over HTTP there are more:

* A status that a callback refuses leaves the rest of the answer in the stream
  (`http.c:607`). The requests that follow over that connection fail, and in the
  repair stage each loses a file. They need not all fail: the rest of an answer ends in
  a line or two that are refused, the answer behind them is whole, and from
  there on the client is behind by one answer or more. If what is at hand is then
  of the kind that is expected, a file is given the contents of an earlier
  one. An instance with nine files and one refusal reaches this; `TakenRight`
  therefore speaks of the request at hand only while the stream is not `stale`.
* The XML handlers return nothing (`httpproto.c:613`): after a handler of the tree
  editor has failed the edit goes on, and the revision is recorded. After a failed
  delete-entry the path stack is off by one.
* A request that gets no answer at all is repeated without limit
  (`httpproto.c:133`); one that cannot be sent is not repeated.
* When a connection ends between a chunk and its CR LF, the first byte of the
  next connection is skipped: the reconnection does not reset the stream
  (`svnc.c:291`). The answer is then refused.
* The answer to check-path is not understood when it comes in chunks
  (`httpproto.c:204`), and "chunked" is compared with regard to case. `NothingLost`
  names the first.
* An answer to OPTIONS that is cut on the shadow connection leaves no address, and
  `dav.c:314` takes the length of a null pointer. On the main connection check-path
  comes first and stops the run, which is `MainAddressed`.
* A body with neither length nor chunks has a length of -1 (`http.c:461`).

## What is left out

* In `Session` an answer arrives whole or is torn once, when its connection breaks;
  that this is what the tokenizer makes of any reads is checked in `Unpack`.
* In `Unpack`: items that no call of the client uses; the buffer grows without a
  limit.
* In HTTP: XML within a body (an element of the report is one byte), the base64 of
  its deltas, what the requests say beyond their address; servers that do not keep
  a connection.
* In `Session`: `get-dir`, which `svncdir_walk` uses and no run calls; what the
  answers say beyond their kind; the port and the host.
* Memory safety of the signal handler that runs `atexit_cb` while `exit` does.
* `.svnup.repo` and the URL; ownership and times of files; case-insensitive file
  systems; hard links.
* What a symlink in the place of a directory leads to.
* A get-file answer is the text of the revision or an error. Nothing in the code
  compares it with a checksum.
* In `SvnDiff`: a block that does not unpack for another reason than the end of its
  chunk, a document that ends in the middle of a window (read in step or not), numbers
  that overflow a `long` alone or in sum, and the bytes that lie beyond a chunk.
* The modelled server never replaces an entry by another of the same kind, which is a
  deletion and an addition of one path within an edit.
* The handlers set the executable bit as the code does, but no property compares it:
  `Same` is about kinds and texts.
* TLS and path patterns: pure functions or pure input and output.

## Plan

1. Done: `SvnRepo`, `SvnEdit`, `Svnup`, `Instances`, `SvnDiff`, `Session`; type
   correctness of `Svnup` and `Instances`, `RecordedTree`, `RecordedCache`,
   `OneEditor`, `NoStaleLock` proved.
2. Done: `WorkingCopy` and the refinement, `Unpack`, `HttpParse`, `HttpSession`.
3. Done: proofs of `Implements`, `FixedUp`, `UntrackedKept`, `Repaired` and
   `NeverRefused`.
4. Done: `Session`: `TypeOK`, `RecordedMeansDone`, `InStep`, `NoMutualWait` proved
   from one invariant over both connections; `TargetPresent` proved, and
   `RecordedCache` and `Repaired` also with `-C`.
5. Done: `HttpSession`: `TypeOK`, `TakenRight`, `DoneMeansWhole`, `NothingLost` and `MainAddressed`
   proved from one invariant over the bytes of both connections.
6. Done: `SvnDiff`: `ParsedRight`, `NotRefused`, `BuiltRight` and `InBounds` proved
   from one invariant over the stream of fields and the view.
7. Done: `Unpack`: `TypeOK`, `ValuesRight`, `InStep` and `NeverWaits` proved from one
   invariant over the tokens of an exchange.
8. Left: `OneEditor` as the ground for running `Svnup` alone.
