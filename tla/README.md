# A TLA+ development of the C exercises

The repository holds a course project, a BitTorrent client that works as a UNIX
filter (`FINAL/`), and some twenty exercises beside it.  The modules here model
the parts with logic of their own: the torrent client from its start to its
output, the ring buffer device, the log parser, the web server, the file size
daemon and the game 2048.  TLC checks them on small instances, and TLAPS proves
nearly all of their safety for every value of the constants.

## 1. Inventory

Below, *hard* says what a test would hardly reach, *correct* what the properties
are about.

### Torrent client (`FINAL/src`)

`main` reads a torrent, asks the tracker once for peers, opens an output and
calls `download_pieces`; everything runs in one thread.

| Part | State | Operations | Talks to |
|---|---|---|---|
| download loop (`main.c:172-277`) | bitmap and number of missing pieces, loop indexes, buffer of one piece | try a peer, choose a piece, fetch its blocks, verify, hand over, return | peer session, output; `running` of `utils.c` |
| peer session (`peer.c`) | socket, choked, bitfield | handshake, interested, wait for unchoke, request, receive a block, close | sockets |
| sockets (`network.c`) | none | connect, send, receive with timeouts, all looking at `running` | the remote peer |
| signals (`utils.c:10-28`) | `running` | one handler for SIGINT, SIGTERM and SIGPIPE | every loop |
| layout (`torrent.c:260-268`) | none | size of a piece, overlap with files | storage and tar |
| tar output (`tar.c`) | current file, its bytes, bytes in all | open, write a piece, close | standard output |
| file output (`storage.c`) | open files with their offsets | open, write a piece, close | the disk |
| loader (`torrent.c`, `bencode.c`) | the torrent | decode, encode the info dictionary again for its hash, load | main |
| tracker (`tracker.c`) | none | one request | libcurl |

*Hard:* a peer may send anything, stop talking, talk for ever, close or abort the
connection; each turn of the peer loop has six ways out, each with a close of its own; a
signal may come between any two steps; answers to requests that timed out arrive later;
pieces complete in any order; writes fail. *Correct:* only verified pieces are written,
once each; bitmap, counter and output agree; no socket is lost; a signal ends the
program; one good peer is enough; the archive or the files hold the right bytes at the
right places.

### Ring buffer device (`HW_14-ringbuffer/ring_buffer_char.c`)

State: the bytes, `size`, `head`, `tail`, `count`, the blocking mode, a mutex, two
wait queues.  Operations: read, write, and by ioctl clear, resize, set the mode,
query.  Any number of processes call it at the same time.
*Hard:* the conditions of the waits are tested without the mutex, the wake-ups
come after the unlock, a resize overwrites the mutex and the queues.
*Correct:* what is read is what was written, in order; the indexes agree; no
sleeper is forgotten; every call comes back.

### The other parts

| Part | State and operations | Hard | Correct |
|---|---|---|---|
| log parser (`HW_10-Log-Parser`) | index of the next file, total, tables; threads take a file, parse it, merge; main joins and prints | two mutexes, threads that leave early, allocations that fail, some of them unnoticed | each file is counted exactly once, the report is what the files say |
| web server (`HW_12_WebServer`) | one epoll loop; per connection a socket, a registration, a request buffer; accept, receive, answer, close | edge-triggered events, partial sends, data freed while events for it are in hand | each request gets its own answer, nothing leaks, who stays is served |
| file size daemon (`HW_08-Daemon`) | a socket file, a flag cleared by signals, a select loop | signals between two tests, calls that fail, a socket file left behind, two daemons on one path | a signal ends the daemon, and nothing else does but what the code gives as a reason; each client is answered |
| 2048 (`HW_17-Game`) | board, score, flags, menu; table of scores and its file | merges in one pass over a row that shifts, an end of game that leaves the board in the same step, a file truncated before it is written | moves follow the rules, a game ends when and only when it is won or stuck, the table holds the best results |
| logger (`HW_07-Logging`) | level, file, mutex | a return that keeps the mutex (`logger.c:85`) | nobody waits for ever |
| telehack client (`HW_11_Telehack`) | one command, one answer read up to a prompt | a prompt cut in two | |
| CRC, archive finder, encodings, databases, weather, assembler, ftrace, OpenGL, GTK | sequential passes or demonstrations | | |

`HW_04-Unix` is the curl 8.16.0 source tree and `HW_05-Valgrind` the patch of
another project: vendored, not modelled.

## 2. Modules

| Module | What it is |
|---|---|
| `PieceStore` | abstract: pieces are delivered intact, each at most once, until the download stops |
| `DownloadPieces` | the download loop, the peer session, the remote peer, the signal |
| `MCDownload` | its instances |
| `DownloadProofs` | theorems about it |
| `Layout` | how a byte stream is cut into pieces and files |
| `TarWriter`, `Storage` | the two outputs |
| `OutputClient` | the download loop composed with both; `MCOutput` is its instance, `OutputProofs` theorems |
| `ByteFifo` | abstract: a bounded FIFO queue of bytes |
| `RingBufferDev` | the device; `MCRingBuffer` its instances, `RingBufferProofs` theorems |
| `Bencode` | the codec: encoder, decoder, and a reference relation between bytes and objects |
| `TorrentStart` | the client from reading the torrent to the call of the download loop; `MCTorrentStart` its inputs |
| `LogTally` | abstract: batches of files are added to a total, each file once, and one total is printed |
| `LogParser` | the threads of the log parser; `MCLogParser` its instance, `LogParserProofs` theorems |
| `WebServer` | the epoll loop and its clients; `MCWebServer` its instance, `WebServerProofs` theorems |
| `FsDaemon` | the daemon, killed and started again; `MCFsDaemon` its instance, `FsDaemonProofs` theorems |
| `Induction` | lemmas: induction and recursion over the natural numbers, with sets and functions |
| `Game2048` | board, event loop and table of scores; `MCGame` its instance, `GameProofs` theorems |

Operators named `Bug_...` are mistakes the code could have had.  Nothing uses
them; each stands before the operator it would replace and makes a property fail.

### `DownloadPieces`

The client is a program counter (`pc`) over the places where another party can come in
between: before a peer, in the wait for the connection, in the handshake, before
`interested`, in the wait for unchoke, at the head of the loop over pieces, at the head
of the loop over blocks, in the wait for a block.  `peer_idx`, `i`, `offset`, `choked`,
`bitfield`, `pieces_done` and `pieces_left` are the variables of the same names, except
that `offset` counts blocks, `peer_idx` starts at 1 and the bitmap is a set. The
contents of a block are `"good"` or `"bad"`; SHA1 is taken to tell good pieces from
others.  `buf` starts with any contents, as `malloc` leaves it.

The remote peer puts one message at a time on the `wire`, and only where the client
looks.  A peer outside `Honest` sends any message at any time; this also covers
what a correct peer's bytes look like after a timeout in the middle of a message,
when the client takes data for a length.  An honest peer answers what was asked,
perhaps after the client stopped waiting (`asked` keeps the requests it has not
answered).  `Seeds` are honest, reachable and prompt.  `line` is what TCP knows of
the connection: a peer that closed can still be sent to; the next call after an
abort reports it, and from then on, or once a closed connection was aborted in
answer to data, `send` raises SIGPIPE.  `at_signal` is a history variable.

`fds` are the descriptors of sockets the process has open and `sock` the local variable
of the turn.  `OpenSocket` takes the lowest free descriptor; every way out of a turn
(`ConnectFails`, `HandshakeFails`, `InterestedFails`, `UnchokeFails`, `EndOfPieces`, and
`OpenFails`, which has none yet) is an action that closes for itself what the code
closes there.  `NextPeer`, which they share, is only the end of the scope: it forgets the
local variables and leaves `fds` alone, so an exit that forgets its `close` leaks.
`MaxSockets` bounds the descriptors.

Left out: lengths and payloads of messages beyond what the handlers tell apart, the
memory of a bitfield that is sent again (`peer.c:219` leaks it), `peer_receive_piece`
(never called), the log, the `exit(1)` of `xmalloc` when a peer announces a length for
which there is no memory (`network.c:190`), and a write to standard output that blocks
(`SignalEnds` is about the sockets).
A message that arrives in part is either completed or ends in a failed receive.

### `Layout`, `TarWriter`, `Storage` and `OutputClient`

A byte is named by its position in the torrent.  An archive is a sequence of marked
cells (header of a file, data byte, padding, end), so that a header is `TarBlock` equal
cells; its fields are not modelled.

No `fwrite` of `tar.c` is looked at, and `total_written` goes on counting.  So the archive of the model is what was handed to
`fwrite`, and `lost` is the set of its positions that never reached the output: at each
call any of the cells just handed over or still in the buffer of stdio (`StdioBuffer`),
up to `MaxLost`.  `full_path` of 4096 bytes is overrun by the path of a file in
`LongPathSets`; the model ends there (`FullPathOverflows`).

`AfterPass`, a recursive
function over the files, is the loop of `tar_writer_write`.  Bytes of a piece that lie
behind the last file, in a torrent with more hashes than its length has room for, reach
no output.  `Storage` writes each fragment up to any length when `IoFaults` holds, for a
failed `fseek` or a short `fwrite`, and `storage_close` may lose, of each file, the end
of a fragment that stdio still held; `io_failed` records that bytes were lost.
`OutputClient` chooses one of the outputs at the start, as `setup_output_context` does,
and conjoins the step that accepts a piece with the call it makes, and the return with
the close.

### `RingBufferDev`

A call of a process moves through `wait` or `try`, `asleep`, `lock`, `body`,
`commit` and `wake`; the copy and the update of the indexes are separate steps.
The kernel is external: `wait_event_interruptible` tests and goes to sleep in one
step (it puts the process on the queue before it tests, so a wake-up in between is
not lost), `wake_up_interruptible` wakes everybody, a mutex lets one process in.
After a resize replaced the structure the mutex is free, the queues are empty and the
blocking mode is the one that was saved with the copy (`mode`);
whoever slept on them stays asleep, and any of the processes that waited for the
mutex may never get it (`hung`).  The unlock of the resize then frees a mutex that
may be another process's.  What a kernel does with a mutex corrupted beyond that is
not modelled, and the runs that check indexes with several processes make no resize.

Left out: the statistics, the queries and `poll` (they change nothing), calls that
are refused at once, open and close, loading and unloading.

### `Bencode` and `TorrentStart`

The parsers are translated as they are, with what they let through (a length with
anything before its colon, numbers with leading zeros or no digits, keys in any order)
and with what is undefined: the byte behind the buffer, an object whose type was never
set, after a string or a number that failed.  `bencode_decode` is the set of its
possible outcomes, a crash among them.  The mutual recursion of `parse_list` and
`parse_dict` is one recursive function of a position.  Two references share nothing with
encoder or decoder: `Denotes` relates an object to its one right spelling, and `Spells`
to every sequence of bytes that may be taken for it, lenient ones included: each string
as long as its digits say and from its own place, each number from its digits, nothing
left over.  `ReadAsSpelled` compares the decoder with both: whatever it accepts is
spelled, and what is rightly spelled it accepts.

`TorrentStart` has one action per call of `main`: read, load, request, one call of
`write_callback` per chunk, decode the peers, open the output, download.  A name of
a dictionary is one byte, a hash and a peer two bytes; the unsigned types wrap at
`U32 = 8` and `U64 = 64`, so that the instances reach every wrap the casts make, and
`full_path` of `tar.c` has `PathMax` bytes.
SHA-1 is the identity, so a hash shows which bytes were hashed.  libcurl is external.
Left out: the text of the URL, the random peer id, `parse_args`, fields that cannot
fail.  An accepted file in a lenient spelling gets an info_hash that is the hash of
no part of the file; `InfoHashOfFile` asks for a part of the file only when the
spelling is right.

### `LogParser` and `LogTally`

A thread loads shared data in one step and stores it in another, so it is the
mutexes that keep threads apart and not the grain of the model.  A line is one of
the shapes `parse_log_line` tells apart; a table is a function from its keys.  Every
allocation, `opendir`, `fopen` and `pthread_create` may fail (`FaultKinds`).  Three kinds of
failures may crash the program: `find_files` returns 1 for a directory it cannot open
(`parser.c:493`), which main takes for one file; a report array that could not be
allocated is printed from all the same (`parser.c:644`); and the copy of a key is not
looked at (`parser.c:85, 111`).  A node whose key could not be copied is `nameless`: it
stays in its bucket, and the next key of that bucket, in the same thread or in a merge, is
compared with a null pointer (`ComparedWith`, `CompareNull`); when none comes it is
skipped in the merge or printed as `(null)`.  A file name that could not be copied
(`parser.c:517`) is a file that cannot be opened, for `fopen` refuses the null pointer.

`LogTally` knows only the lines of each file and their bytes: a batch of files that
are not in the total yet adds some of its lines, each once, and one total is printed,
of all files or of none.  `ReportRight` compares what is printed with the accepted
lines of the files that could be opened, summed and counted as sets.

### `WebServer`

The kernel is external: connections to accept, bytes not received, bytes not taken by
the client, and epoll's ready list, which an event enters when it happens and leaves
when it is reported.  Clients connect, send in pieces, send more than a request, shut
down, abort and read at their own pace between any two system calls. What a request
means is abstracted to a file, a listing or a refusal.  `Stuck` names the two states the
code cannot leave: killed by SIGPIPE (`webserver.c:393`), and the sendfile loop of a
file that was truncated meanwhile (`:397`).  Of connections that arrive together the
server accepts one per event (`:540`); the others wait for the next newcomer, which is
why `PatientServed` speaks of a client that is registered or that found nobody waiting
(`alone`).  The answers 500 for want of memory or of a directory that can be read
(`:336-350`) are not modelled.

### `FsDaemon`

Each process goes through unlink, bind, listen, the loop and the ways out, with a
signal or a kill possible at each.  Every call may fail: `socket`, `bind` and `listen`
(`SetupFails`), `setgid` and `setuid` (`PrivilegesFail`), `select` other than by a signal
(`SelectFails`), `accept`, `send`, and `unlink`, whose result is not looked at.  `reason`
records who had a reason to end.  Two processes on one path also model a restart:
what a killed daemon leaves behind is the path the next one finds.  A signal that
comes while a line is logged may leave the daemon waiting for a lock its own thread
holds (`hung`); `SignalStops` makes an exception of it.  Left out: the configuration
file, the fork, the owner and rights of the socket file.

### `Game2048`

One action per key of the event loop, the look at the end of the game included, and
saving as two steps, truncation and writing, between which the program may be killed
or the disk be full.  A full disk cuts the text anywhere: between two entries or inside a
number, whose first digits the next load takes for the score (`PartsOf`, `Leading`).  The
look at the end of a game sees the board as `gameMoveUp` and `gameMoveDown` have it,
transposed (`Seen`).  Names and drawing are left out: an entry is its score.  What the
file holds before the first start was written by this program (`OldFilesAssumption`: in
order and not too long); a file edited by hand is outside the model.  Numbers do not
overflow: the tiles of a board of SIZE 4 end at 2^17, and `int` has room for their score.

`moveRowLeft` is modelled in its two loops: `TilesOf` collects what is not zero, and
`Merged` applies `MergeStep` at one index after the other to a row that gets shorter.
`SlideRef` says the same of runs of equal tiles and without an index.  `qsort` is any
arrangement of the entries that is in order.

## 3. Runs

| Run | Instance | Result |
|---|---|---|
| `download` | 3 pieces of 2, 1, 1 blocks; 4 peers, the second and fourth honest, the fourth a seed; 3 bitfields (empty, short, full) | `TypeOK`, `BookkeepingAgrees`, `NoSocketLeak`, `HonestBlocksGood`, `AtMostOneAfterSignal`, `ImplementsStore` hold; `SignalEnds` and `SeedCompletes` hold under fairness |
| `download_peer_stops` | 3 pieces, 1 peer | `PeerCannotStop` is violated |
| `output` | either output; 3 pieces of 2 bytes, files of 1, 0, 3 and 1 bytes, tar blocks of 2, writes and closes that fall short, up to 2 lost cells of an archive, a path that is too long | `TarMatchesReference`, `TarBytesOnce`, `DiskNeverWrong`, `DoneIsOnDisk` hold |
| `tar_aligned` | the same, no lost cell | `HeadersAligned` is violated |
| `torrent_start` | all sequences up to 5 over 8 characters, and all removals, cuts and changes of one byte in the bencodings of 11 objects; 5 answers of the tracker, cut anywhere | `ReadAsSpelled`, `InfoHashOfFile`, `PiecesCover`, `PeersRight`, `CrashExplained` hold |
| `rb_seq` | 1 process, every call, sizes 1 to 3, lengths 0 to 3, 2 byte values | `IndexesAgree`, `ImplementsFifo` hold |
| `rb_conc` | 2 readers and a writer that also clears, size 2, 2 byte values | `NoLostWakeup`, `ImplementsFifo` hold, `CallsReturn` under fairness |
| `rb_resize_wakes` | a reader and a resizer | `ResizeWakesAll` is violated |
| `log_parser` | 2 threads, 3 files with accepted and rejected lines, up to 2 faults of 15 kinds | `TakenOnce`, `ReportRight`, `ImplementsTally` hold, `MainEnds` under fairness |
| `web_server` | a patient and an unruly client, a buffer of 2 pieces, a send buffer of 1 unit, answers of 2, 1 failing call | `ClientsIntact`, `NoLostEdge`, `AnswersRight` hold, `PatientServed` under fairness |
| `fs_daemon` | 2 processes, each started once, 2 clients, a backlog of 1, a file that comes and goes, calls that fail at any time | `ReachedByPath`, `AnswerIsRecent`, `StopsForAReason` hold, `SignalStops` and `QueuedAnswered` under fairness |
| `game` | a 2 by 2 board up to the tile 8, 2 games over 2 starts, a table of 2 places that was empty or full, 1 fault in saving | `RowsSlide` (over all rows of four), `ScoreExplained`, `OverIsStuck`, `TableIsBest`, `NothingInvented` hold |

What the violated properties say of the code:

* **`PeerCannotStop`.** The comment of `main.c:261` means to try a failed piece with
  another peer.  The `break` of `main.c:244` leaves only the loop over blocks, so the
  client goes on sending to a peer that has dropped its connection; `send` without
  `MSG_NOSIGNAL` raises SIGPIPE, SIGPIPE has the handler of SIGINT (`utils.c:27`), and
  the program ends.
* **`HeadersAligned`.** `README.MD:326` and `:338` promise whole blocks for every file.
  That holds as long as pieces arrive in order (`TarMatchesReference`); when one is
  skipped, the next file's header is written inside a block.
* **`ResizeWakesAll`.** `ring_buffer_char.c:295` means to wake all who wait; lines
  290-291 have just emptied the queues they are on.

Other things the models show, for which no run of their own is kept:

* `README.MD:241` promises a wait until unchoke or timeout.  The timeout belongs to
  one message (`peer.c:187`): a peer that sends keep-alives is waited for without end.
  This is why `SeedCompletes` has the antecedent `QuietPeers`.
* `README.MD:270` says a failed block ends the loop over the peer; it does not, see
  `PeerCannotStop`.
* A blocking read of the device returns 0, which means end of file, when a second
  reader was faster (`ring_buffer_char.c:331`); a blocking write is refused likewise.
* A program that logs below the level once and then again waits for ever
  (`logger.c:85` returns with the mutex held).
* The exit status of the torrent client is 0 for an incomplete download
  (`main.c:61`); two instances of the game overwrite each other's table.

### Bounds

No action of the torrent client, the device or the log parser cuts behaviours beyond
the faults it counts; the loops are finite and the device is bounded by its size.

* *Download.* Four peers let a peer come before and after the ones a property is
  about.  A piece of two blocks lets a signal or a late answer fall inside it, three
  pieces let one be skipped, done or failed among others.  `BitsPerByte = 2` puts
  pieces on both sides of a byte of the bitfield.
* *Outputs.* Files that end inside a piece, an empty one, one over several pieces and a
  short last piece are the cases of the overlap.  Two cells lost (`MaxLost`) may be of
  one write or of two, in the same file or not; `StdioBuffer = 1` lets a write take a
  cell of the one before with it.
* *Start.* Five bytes hold every pair of nested constructs and every truncation of them,
  with the strings that end before, with and after the buffer; the edits of whole
  torrents put a mistake at each place of a longer file.
* *Device.* Size 2 with lengths 1 and 2 has full, empty, partly filled, wrapped and
  split copies; three processes let one overtake the wait of another.  `rb_seq`
  alone covers longer calls, resizes and changes of mode.
* *Log parser.* Three files for two threads make one of them take two; two faults
  let both threads leave, or one fault follow another.  Two buckets in a thread's
  table and four in the global one let keys meet in one and not in the other.  `MaxFaults`
  bounds the faults.
* *Web server.* A request of as many pieces as fit the buffer, of fewer and of one
  more; an answer longer than the send buffer, so that sending has to wait.
  `MaxFaults` bounds failing calls.
* *Daemon.* `MaxStarts = 1` for each of two processes: one before, after or beside
  the other.  One place in the backlog makes the second client wait or be refused.
* *Game.* A 2 by 2 board fills up, wins and loses in a few moves; rows of four are
  compared with the reference for all contents up to 8.  An old table of 12 and 4 has a
  number with two digits to be cut.  `MaxStarts`, `MaxGames` and
  `MaxFaults` bound sessions, games and faults.

### Fairness

*Download.* Weak fairness of the client: every system call it blocks in has a
timeout, and the step that gives up is always possible with a peer that may fail.
`SignalEnds` needs no more.  `SeedCompletes` has an antecedent, `QuietPeers`, that the
code does not enforce: a wait that can time out again and again does so in the end
(nobody talks for ever), and a seed answers.

*Device.* Weak fairness of each process inside the driver and strong fairness of
`mutex_lock`, since the kernel's mutex is handed over to waiters that get too old.
No process must ever make a call, and no signal must come.

*Log parser.* Weak fairness of main and of each thread: the scheduler runs them.  A
mutex is taken by few threads a bounded number of times, so strong fairness of the
lock is not needed.

*Web server.* Weak fairness of the server, of every client's reading while it is
connected (the sendfile loop spins until it does), and of a patient client's sending.

*Daemon.* Weak fairness of a daemon's steps, and strong fairness of accept: it fails
for want of descriptors, but not for ever.  All other failures may happen at any time.

## 4. Proofs

The eight modules with theorems (`Induction` and those that end in `Proofs`) are checked
by `tlapm` to the last leaf.  They assume only the named assumptions on the constants
(`ParametersAssumption`, `NoMsgAssumption`, `LayoutAssumption`, `SamePiecesAssumption`,
`TarBlockAssumption`, `DeviceAssumption`, `LogAssumption`, `WebAssumption`,
`DaemonAssumption`, `GameAssumption`, `OldFilesAssumption`), all of which TLC evaluates
in the runs, and two theorems about the device say in their statement for which
processes they hold.

The library's induction theorems take a predicate as a parameter, which no prover here
can instantiate.  `Induction` states them anew for sets: `NatInductionSet` says that a
set with 0 and all successors of its members holds every number, `RecursionExists` that
a function can be defined by recursion, `DescentExists` that one can that goes down to
smaller numbers.  With these three, recursive functions (`FileStart`, `AfterPass`,
`ReferenceUpTo`, the lines of `process_file`, the sums of `LogTally`, `Only` of the web
server, and the sums, tiles, merges and worths of the game) are shown to satisfy their
equations and are then reasoned about.

* **`NoSocketLeakHolds`**: inductive as it stands; one step for every way out of a turn,
  since each closes, or fails to, by itself.
* **`TypesHold`**: `TypeOK` is inductive because it says where the loop variables are
  used: inside a session `peer_idx` is a peer, and inside a piece `i` is a piece and
  `buf` covers it; `asked` holds only blocks that exist, which types what an honest
  peer sends (`PeerSendsMessage`).  `LeaveTyped` and `NextPieceTyped` serve all ways
  of leaving a peer and a piece.
* **`BookkeepingHolds`, `OutputVerifiedHolds`**: the invariant `BInv` adds to them
  `UnderWay`: while a piece is under way it is one that is missing.  The bitmap is
  tested only at the top of the loop, long before the piece is marked, so without
  it a piece might be handed over twice.  `StepKinds` sorts the steps into
  deliveries, the return and all others, so that only `FinishPiece`
  (`DeliveryKeepsBooks`) needs work.
* **`ImplementsStoreHolds`**: from `BInv`, a delivery is a `Deliver` of `PieceStore`,
  the return is its `Stop`, and every other step a stutter.
* **`AtMostOneHolds`**: `SInv` says that after the signal what is done is what was done
  then and at most one more piece, and that this one more is not yet there while a
  piece is under way.
* **`HonestBlocksHold`**: `HInv` adds that an honest peer has only good data on the
  wire; `WantedBlock` then puts it where it belongs.
* **`NoLostWakeupHolds`**: for any processes and sizes, if nobody is able to resize.
  The invariant adds that steps inside the critical section are the lock holder's
  (`LockHeld`), that a copy still fits when it is committed (`CountFits`), and that a
  sleeper is on its queue (`Queued`).
* **`IndexesAgreeHolds`, `ImplementsFifoHolds`**: for any processes, if nobody is able
  to resize, or for one process with every call (`Undisturbed`; with several, a resize
  frees a mutex that is not its own, and neither is true).  `FifoInv` adds that the
  three positions stay inside the buffer with head `count` bytes past tail, what each
  call carries (`Carried`), and that a copy under way is the next stretch of the queue
  (`Moving`): bytes are copied in one step and the indexes moved in another.  The
  linearization point of a call is its commit; `Invisible` disposes of the others.
* **`DiskNeverWrongHolds`**: for any layout, also one whose number of pieces does not
  fit its length, and any writes that fall short.  Inductive with `BInv`; the content is
  `ByteWritten`, which follows a byte through the two offsets of `storage_write`.
* **`DoneIsOnDiskHolds`**: `OnDisk` says of every byte that it is in place or belongs to
  no piece that is done.  That nothing is missing at the end needs that the pieces cover
  the stream (`PiecesCoverStream`): division of the total length, with `FileStartsInOrder`
  for the files.
* **`TarBytesOnceHolds`**: for any layout, block size, order of arrival and any lost
  cells.  `Streamed` says that what was handed over carries (`Carries`) the bytes of the
  accepted pieces that the files have, each once.  `FragmentCarries` adds to an archive
  the part of a piece in one file, `PassCarries` goes over the files, and pieces have no
  byte in common (`PiecesApart`).  What gets out is a part of that, so a byte that is
  missing is one at a lost position.
* **`TarMatchesReferenceHolds`**: `At` says where a writer is: between two files of the
  reference, or inside one (`Inside`), with the file and the count of bytes that fit.  A
  fragment that starts where the writer is takes it to the end of the fragment
  (`FragmentContinues`): a header only for a new file, padding only after the last byte;
  files without bytes are stepped over (`ReferenceGrows`).  `InStep` has the writer
  where the pieces end.  Together with the violated `HeadersAligned` this says exactly
  what the writer needs: the order of the pieces.
* **`TakenOnceHolds`**: for any number of threads, any files and any faults.  `TakenInv`
  adds to `TakenOnce` that a thread between its load and its store of the file index
  holds `file_mutex` and has the index as it still is (`IndexHeld`): without that a
  thread could take a file that another has taken meanwhile.  `IndexSteps` leaves two
  actions to look at, the load and the take.
* **`ImplementsTallyHolds`**: `WorkInv` adds that the thread that merges holds
  `stats_mutex` and still has the tables as they are (`StatsHeld`), that a thread gets as
  far as the merge only when no file is left (`Progress`), and that what it has counted
  are lines of its files, each once (`PartsCounted`).  A merge is then an `AddBatch`
  (`StoreIsAddBatch`); when main has joined all threads, they merged every file or, if all
  left early, none (`AllOrNothing`), so the report is the `PrintTotal`.
* **`ReportRightHolds`**: `Exact` says what every table holds at every moment, as long
  as no allocation lost a line, a key or a name, and that no node is nameless: the
  totals of a set of lines (`Totals`), those of the files read so far.  `CountsLine`
  adds a line, `FileIsCounted` a file, `MergeAddsUp` puts two disjoint sets together.
  It rests on sums over finite sets that may be taken apart in any order (`SumTakesOut`,
  `SumOfUnion`).  `TopIsRight` is the sorted head of a table.
* **`ClientsIntactHolds`**: `Owned` says that open sockets, registrations and client
  data are the same clients; `BatchShape`, that no two events in hand are of one socket,
  that the first is that of the client being served, and that those of clients are of
  open ones: so the close inside the receive loop frees nothing another event in hand
  refers to.
* **`NoLostEdgeHolds`**: `EdgeKept`: whoever is registered and has something to read is
  on the ready list, or its event is in the batch in hand (the one being handled
  included).
* **`AnswersRightHolds`**: `Phases` says for each place of the handler what has been
  sent and of which kind of request it can be; `Counted`, that what was received is part
  of what was sent.
* **`ReachedByPathHolds`, `StopsForAReasonHolds`**: `PathInv`: as long as no two were alive
  at once, the path is free while a daemon binds and its own from then on (`PathOwned`), and
  whoever has its flag down or is on its way out has a reason (`WayOut`); `StopStep` goes
  through the steps that end at `off`.
* **`AnswerIsRecentHolds`**: `RecentInv` follows a client from the queue to the answer:
  the sizes the file had since it connected include the one that is now, as long as it waits
  (`SinceCurrent`).
* **`RowSlides`, `RowsSlideHolds`**: rows of any length, of which `RowsSlide` checks the
  rows of four.  `Sliding` relates the loop to the reference: after the merges at the
  first `i` places, the row is the `i` tiles that are left of its first `c` and then the
  rest as it was, and the next tile is at an odd place of its run (`SlidingStep`).  The
  gain is a balance of worths: one merge adds to the worth of the row what it gains
  (`MergeStepMerges`).
* **`CanMoveIsRight`**: a row that is full and without a pair is a fixed point of the
  slide (`SlidRow`), one with a gap before a tile is not (`GapMoves`), and `transpose`
  and `Reverse` carry this to the four directions (`MovedBoards`).  There has to be a
  tile on the board: nothing moves on an empty one, where `gameCanMove` is true.
* **`ScoreExplainedHolds`, `OverIsStuckHolds`**: the invariant `IInv` says that the flag
  is what `gameCanMove` says, that there is a tile, and that a game that is played is
  won or can be moved (`WhilePlayed`); with `CanMoveIsRight` this is `OverIsStuck`,
  whose step part looks at the state a lost game is left in.  `SeenCanMove` has the
  transposed board.  The worth of a board is a sum of rows that does not change when the
  board is transposed (`TotalByColumns`, `Transposed`).
* **`TableIsBestHolds`, `NothingInventedHolds`**: `TableState` gives every entry of the
  table and of the file a game it is the result of or, for at most as many games as
  there were faults, a cut of (`WithCuts`), no game twice and none later than the last
  one that ended (`Genuine`, `LastGame`): a game that goes on after its end was looked
  at has not been entered.  As long as nothing went wrong the table is also `Full`: a
  result that is not in it is no better than the last entry of a table without room.
  `AddedFull` shows that replacing the last entry and sorting keeps this,
  `GenuinePrefix` that a file cut short is still genuine, `CutTable` the same for one
  cut inside a number, `FullIsBest` and `GenuineCounts` count the results.  Memory and
  file agree between two saves, so a reload loses nothing.

`OutputVerified`, that only contents that match the torrent are handed over, is proved
and has no run of its own: `ImplementsStore` implies it.  That a sleeper of the device
whose condition lasts is served follows from `NoLostWakeup` and `CallsReturn`.

Only model-checked:

* liveness and fairness, which the prover does not reach;
* all of `TorrentStart`: the codec uses RECURSIVE operators, in whose presence the
  prover has no arithmetic.

`TableState` was checked by TLC too, with games between -2 and `MaxGames` for its witnesses,
before it was proved; like the other inductive invariants it is not part of a run.

## 5. Not modelled

* *Logger*: one function under one mutex; the second message of any test shows its
  defect.
* *Telehack client, CRC, archive finder, encodings, database, weather, assembler*:
  one sequential pass each, without state that outlives it.
* *ftrace, OpenGL, GTK*: demonstrations of a tool or of rendering.
* *curl, clib, stb_image, cJSON*: third-party code.
* Inside the modelled parts: the fields of a tar header (`tar.c:13` cuts a size to 32
  bits), statistics and queries of the device, `parse_args`, the configuration of the
  daemon, drawing and sound of the game, the text of requests and log lines.

## 6. Plan

All parts with concurrency, failure or ordering of their own are modelled, and the safety
that the runs check is proved for all of them but the codec and the start of the torrent
client.  What is left:

1. `Bencode` with recursive functions over the length of the input in place of RECURSIVE
   operators, and then `ReadAsSpelled` and `InfoHashOfFile` for inputs of any length;
2. the fields of a tar header as number formatting with its width.
