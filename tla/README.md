# File-Share in TLA+

A verification development for the peer-to-peer file sharing node of this
repository: TLA+ modules translated from the C++ source, TLC configurations
that check them on small instances, and proofs that TLAPS checks for every
instance. Paths below are relative to `src/`, the root of the repository.

The code is the reference, at the state of this commit. Some of it is declared
and not there (the connection handlers of `HighPerformanceServer`,
`CLI::handleConnectCommand`, the logger), and some of it does not compile as it is
(`Peer::files_mutex` is locked in const methods, `Server.cpp:179` calls `serialize`
on a pointer with a dot); it is read as it is evidently meant. Every component modelled here is complete by itself, and the few outside
ends (the kernel's sockets and epoll, the C++ library, a peer that puts lengths
before its messages) are modelled from the way the code uses them and marked
`external` in `PROJECT.json`.

## 1. The system

A node (`src/main.cpp`) is a `CLI` that owns a server, a `PeerManager`, a
`FileManager` and a `Client`. Threads: the main thread with the command loop, the
server's event loop, the heartbeat, a detached bootstrap thread, and one detached
thread for every `get`.

| Component | State it keeps | Operations | Talks to |
|---|---|---|---|
| `Client` (`Client.cpp`) | socket, `connected`, `active_downloads` | connect, disconnect, request peers/files, ping, downloadFile, downloadFileFromPeer | a server, by TCP; the destination file |
| `Server` (`Server.cpp`) | listening socket, epoll set, `running`, a peer table, a file index | start, stop, event loop, three request handlers | clients by TCP, `PeerManager`, `FileManager` |
| `HighPerformanceServer` | the same, a table of connections, a pool of event loop threads | start, stop, event loop, accept; the rest is declared only | the same |
| `PeerManager` | map id → shared `Peer`, `running`, bootstrap nodes | start, stop, add/remove/find, heartbeat, sweep, bootstrap, updatePeerFileList | `Client` for pings and peer lists |
| `Peer` | address, `is_active`, `last_seen`, file list | setters, file list, serialize/deserialize | shared by all threads of the node |
| `FileManager` | shared directory, list of files with hashes | setSharedDirectory, refresh, getFileInfo, validate | the file system |
| `Protocol` | CRC table | create and parse messages | nobody in this repository |
| `ThreadPool` | queue, workers, `stop` | enqueue, worker loop, shutdown | its callers, the tests |
| `CLI` | the objects above, `running` | one handler per command, initialize, shutdown | everything |
| `main.cpp` | pointer to the CLI | signal handler | `CLI::shutdown` |

What is hard here, and what correctness means for each part:

* **Downloads** (get thread × peer × network × disk × `share`). A download that
  is reported complete should be the file. Threats: two gets with one
  destination, buffered and short writes, messages lost with the connection, the
  served file being overwritten in place, an end of file that is a read error, a
  peer that goes silent.
* **Client and server on the wire.** A request is a length and a message, the
  message may travel in pieces, the server takes what a read finds there, with an
  edge-triggered epoll set in one thread, and the two sides disagree about lengths.
  No input may be left without an event, nothing may be dispatched twice, out of order or
  before it was sent, everybody must get away from everybody.
* **PeerManager.** Works on snapshots of shared objects while other threads
  change the table, and its rounds take time. A live peer must not be forgotten, a
  dead one must be; `stop()` must return.
* **ThreadPool.** Lost wakeups, tasks lost or run twice around shutdown.
* **Lifecycle** (initialize, shutdown, destructors, signals). Threads must be gone
  before the objects they use, descriptors closed, and the node must end when it is
  told to: by `exit`, by a start that failed half way, by a signal anywhere.
* **File index** (two `FileManager`s, `share`). The index that answers requests
  may be older than the directory, and the directory changes while it is read.
* **Codec.** 32-bit lengths, parsers at the end of a payload, damaged frames.
* **Peer file lists.** A list that is replaced one element at a time by callers that
  share a lock, and texts whose separators may occur in names.

`PROJECT.json` lists each of these hazards at its line with the properties that
cover it; where a property only bounds a hazard, or none catches it because the code
simply behaves that way, the hazard has a note that says so.

## 2. The modules

| Module | Models | Checked by |
|---|---|---|
| `Delivery` | abstract: what a download promises | `ImplementsDelivery` in `DownloadShare.cfg` |
| `Download` | `CLI::handleGetCommand`, `handleShareCommand`, `Client::downloadFile…`, `Server::handleFileRequest` | `DownloadRace`, `DownloadShare`, `DownloadSize` |
| `MCDownload` | file versions and symmetry for TLC | |
| `DownloadProofs`, `DeliveryProofs` | theorems about `Download`, the second with the refinement of `Delivery` | TLAPS |
| `Wire` | `Client` calls × `Server` event loop on TCP segments | `WireServe`, `WireReply` |
| `WireProofs` | theorems about `Wire` | TLAPS |
| `FileIndex` | `FileManager` of the CLI and of the server × `share` × other programs | `FileIndexScan`, `FileIndexShare` |
| `MCFileIndex` | a directory with a subdirectory for TLC | |
| `FileIndexProofs` | theorems about `FileIndex` | TLAPS |
| `PeerManager` | the peer table with heartbeat, bootstrap, stop | `PeerManagerRounds` |
| `PeerManagerProofs` | theorems about `PeerManager` | TLAPS |
| `PeerText` | the file list of a `Peer` and the text of peer and file lists, as operators | through `PeerLists` |
| `PeerLists` | `updatePeerFileList`, `addPeer`, `removePeer` and the two list requests | `PeerListsMerge` |
| `MCPeerLists` | names and lists for TLC | |
| `PeerListsProofs` | theorems about `PeerText` and `PeerLists` | TLAPS |
| `Lifecycle` | `main`, `signalHandler`, `CLI::initialize/run/shutdown`, `HighPerformanceServer`, start, stop and destruction of the `PeerManager`s | `LifecycleNode` |
| `LifecycleProofs` | theorems about `Lifecycle` | TLAPS |
| `Codec` | `Protocol` | `CodecFrames` |
| `MCCodec` | widths, messages and foreign payloads for TLC | |
| `ThreadPool` | `ThreadPool` | `ThreadPoolDrain` |
| `ThreadPoolProofs` | theorems about `ThreadPool` | TLAPS |

Definitions marked "Mutant" are plausible mistakes in the code (a dropped check,
a forgotten reset). They are not part of any specification; each property is
shown to fail when one of them takes the place of the definition that follows.

### Download

One get is one thread with its own `Client`, hence its own connection; every
per-get variable is a function on `Gets`. `pc` follows `downloadFileFromPeer`:
`connect` → `request` (register progress, send the request) → `open` (truncate
the destination) → `receive` (the loop) → `close` (destroy the `ofstream`, the
`Client`) → `done`. The peer's side is `session`, with one step per message of
`handleFileRequest`. A connection carries `sent[g]`, the chunks so far, and
`last[g]`, the one terminating message; `rd[g]` counts the chunks received, so that
`SubSeq(sent[g], rd[g] + 1, Len(sent[g]))` is what is under way.

The destination is modelled with the stream's buffer, because that is where two
gets on one path meet: a chunk is buffered (`ReceiveBuffered`), or written out
with what was buffered before it (`ReceiveWritten`), or written short
(`ReceiveUnwritten`, which sets `bad`: from then on the stream drops everything,
and nobody looks). `flushed[g]` is how many chunks went out; each `ofstream`
writes at its own offset, so that a file truncated by another get shows zeros
(`Hole`) before it (`Write`).

`share` is three actions: `copy_file` truncates, appends block by block, and may
stop half way. `Framed` is the set of peers whose messages carry a length;
`Server.cpp` is not one of them, so that every download from it fails
(`ReceiveFails`). Chunks left in the kernel by a broken connection may be
received before the failure, as on TCP; a get may give up at any moment after its
link broke and, by its 10 s timeout, whenever nothing is under way.

Not in the model: unknown message types (ignored by the loop), `speed_mbps`, the
file's name and hash (nothing in the program compares the hash of a download), and
the default destination directory.

Ghosts: `sole[g]` (no other get had the destination open since g opened it),
`clean[g]` (the source was not shared while it was sent, and was sent to its end),
`snapshot[g]` (the source when the peer opened it). They are written along with
the actions and read by properties only.

### Wire

`Client::sendMessage` writes the length with one `send()` (`SendPrefix`) and the message
with as many as it takes: each piece but the last is a `SendPart`, the last one
`SendBody`. A segment is `prefix`, `head` (a piece that begins with the type byte) or
`rest` (one that begins inside a name). How many pieces there are, up to `MaxParts`, is
chosen step by step; a client may also fail or be killed between two of them. A `list`
goes in one piece: `PEER_LIST_REQUEST` is one byte, and the peer id that
`FILE_LIST_REQUEST` adds to it is used by no handler. `edge[c]` is epoll's ready list: set
by each arrival and by the FIN, cleared when `EpollWait` reports the connection.
`ReceiveBurst` takes everything that is there (`receiveMessage` ends at a short read or
at EAGAIN) as one message, whatever pieces that is; `ProcessRequest`/`IgnoreUnknown` is the switch of `processMessage`, and a reply
leaves in one step per message, blocked while the client's window is full (the
EAGAIN loop of `sendMessage` is a step that is not enabled). `Stop` and `Exit` are
the server being stopped and its process ending at any moment; a client may then
meet a reset, or the SIGPIPE of `SendKills`.

Because a prefix begins with a zero byte, only a read that begins with the head of
a message is dispatched (`Dispatched`), and what it holds may be a part of the message:
the pieces that follow are then a message of their own, which is ignored (a name is taken to
have no byte below 11, the greatest type). Because replies carry no length, a reply
that arrives is refused (`LengthSent`). All this is the code's behaviour and not a
simplification. `served` is a history of what was dispatched. What sockets hold is
forgotten where nobody can read it any more (a closed socket, a reset connection).

### FileIndex

The main thread scans twice in `initialize`, for the CLI's `FileManager` and for the
server's, and once in every `share`, for the CLI's only. `scanDirectory` is a step
for every system call whose result the code keeps: the type of the entry
(`ScanSkip`, `ScanVisit`), its size, the opening of the file, and every block that the loop
of `calculateFileHash` reads (`ScanOpen`, `ScanRead`). A content is a sequence of blocks, and a
hash stands for the blocks that went into it. The loop ends at the end of the file
(`ScanHash`) or, with nothing to tell the difference, before it (`ScanHashCut`): a read
error, or a file that grew after a short last block. Other programs come in between. `Overwrite`
writes into the file that is there, as `cp` and `copy_file` do, so that the open stream
reads on in the new content; `Replace` creates, removes or renames, and the open stream
keeps what it had (`orphan`, `Stream`). Hence size and hash of an entry may belong to
different contents, and the hash to none that ever was: `ListedAsSeen` says what
remains. Simplified: one overwriting is one step (truncating and filling are two of them), and a
file that has left the directory is not written any more. `share` writes in the thread that
scans afterwards, so that it does not overlap a scan (it does overlap a transfer: see
`Download`). A `filesystem_error` ends the list where it is (`ScanStops`), a
`runtime_error` leaves the command or the program (`ScanThrows`). A request changes
nothing here, so that `Sends` is an operator and not an action. The server is taken
with the `setSharedDirectory` and `handleFileRequest` of `Server`;
`HighPerformanceServer`, which `CLI` constructs, has a `file_manager` of its own as well
and declares neither where the repository could show more of it.

Ghosts: `held`, the versions that each place had since a manager's last scan began;
`complete`, that the last scan saw every place; and `whole` in an entry, that its file was
read to the end.

### PeerManager

`table` maps ids to objects, because the heartbeat works on `shared_ptr`s: an
object may be pinged after it has left the table or was replaced under its id.
Time is discrete. `Tick` ages every object and advances the wait of the heartbeat
thread, which is the only thread whose delays matter for the sweep; steps that do
not wait take no time. `age` stops at `Stale + 1`, which is as good as older.
The bootstrap thread may receive any set of ids from a node, with any activity
flag, and may fail at any point. `UpdatePeerFileList` is what `updatePeerFileList` does to
this state: it refreshes `last_seen` of the object that is in the table, active or not,
and does not activate it. Any caller may do so at any time. `last_seen` is written and read without a common
lock; it is one aligned machine word, so that the model reads and writes it whole.

### PeerText and PeerLists

A text is a sequence over `Symbols`, in which only the separators and `Digits` mean
something; a number is one digit, of which the instance has as many as it needs. `Read`
is a loop of `std::getline`, with the tokens that have ended and the one being read, and
`Split` what it returns (an empty last token is not returned); `IsNumber` is the
condition under which `stoi` and its kind do not throw, and `Picked` a loop that leaves
elements out. Each side is translated from its own function: `serialize`,
`handleFileListRequest` from the writer, `deserialize`, `FilesOf` from the reader. All
loops are recursive functions of the number of rounds, so that they can be proved about.

`PeerListsAssumption` says of the constants that ids have no separators (the peers of a
node come from `deserialize`, `PeerManager.cpp:96-98`, which has split at both), that
names and hashes are texts, and that there is a digit for each size and for the number
of names. Nothing is assumed about separators in names.

`updatePeerFileList` holds `peers_mutex` shared, so that updates overlap each other
and answers, but not `addPeer` and `removePeer` (`NoReaders`); each `removeFile` and
`addFile` is one step, as each takes `files_mutex`. An answer takes the objects of the
table in one step and writes them one by one; the list of one peer is written under
its `files_mutex`. `group` is a ghost: the lists of the calls that overlapped last on
an object. The `updateLastSeen` at the end of `updatePeerFileList` is the action
`UpdatePeerFileList` of `PeerManager`, since `last_seen` is a variable there. Nothing in the
repository calls `updatePeerFileList` yet; the model has two threads call it at will.
An object is a pair of its id and a generation, so that an id may get a new object.

### Lifecycle

The main thread is a stack, because a signal handler runs on top of whatever it
interrupts and the rest waits for it: `stack[1]` is `main()`, the others are handlers,
only the last one moves. `CLI::shutdown` is the same code in either, with a step for
every `load`, `store`, `join` and lock, so that a handler finds a `stop()` half done. A
location is a step and the object it is about; `Stop`, `StopClears` and `StopJoins` are
the common shape of `HighPerformanceServer::stop` and `PeerManager::stop`, `Return` the
place where the caller goes on. The node has two `PeerManager`s, the CLI's and the
server's own, and both are started. (Only the CLI's is read by commands, and only the
server's by requests.)

A start may fail before anything runs (`InitializeFails`) or when a thread cannot be
made (`SpawnFails`, with some objects running). A command is modelled by the mutex it
holds and by the thread that a `get` leaves behind. The event thread accepts,
enters the table and closes connections; `closeConnection` is declared only, and taken
as: leave the table and close, under `connections_mutex`. After the objects are
destroyed a handler still has `g_cli` and a detached thread still has `this`: what
they do then is undefined, that is, it goes on or crashes.

Simplified: making a thread and storing it in its member is one step; a signal comes
to the main thread (as Linux does if it can), while its own handler does not run; what
a handler may not call inside `malloc` or a stream is left out; the states begin when
`g_cli` is set; second calls of `stop()` by destructors find nothing to do.

### Codec

Creators and parsers are operators, each from its own function; `Base`, `WordBytes` and
`Poly` stand for 256, 4 and the polynomial whose table is in the source (its 256
entries are those of 16#EDB88320, and `crc32_table` here is computed in the same way). A
parser is a chain of readers that stop at the first failure, also in the middle of a
list. The loop of `calculateCRC32` is written as a composition of halves, with the same
table look-up for each byte. Around them is a small
state machine: a message is created, or a payload that no creator made is put in a
frame; at most one thing happens to a frame on its way; it is parsed. A header is kept as
its fields, since it is copied as it lies in memory on both sides (same byte order
assumed).

### ThreadPool

A critical section on `queue_mutex` is a step; notifications are steps of their
own, as in the code, where they follow the unlock. `wait` is left by a
notification, or spuriously. `accepted`, `started`, `refused` and `finished` are
histories, read by properties and by the choice of tasks that were not used yet.
The pool has at least one worker: with `hardware_concurrency() = 0` it would have
none, and accept tasks that never run.

## 3. The runs

All passing runs check the whole state space of their instance.

| Run | Instance | Shows |
|---|---|---|
| `download_race` | 2 gets, 1 framed peer, 2 destinations, file of 2 blocks | `TypeOK`; `IntactIfAlone`: completed, all writes succeeded and alone on the destination ⇒ the file is what was sent; `OnlyReceivedBlocks`: whatever races, a destination holds only blocks some get received at that place, or zeros |
| `download_share` | 1 get, a framed and an unframed peer, versions `<<a1,a2>>` and `<<b1>>`, 2 shares | `SnapshotIfClean`; `ImplementsDelivery`: blocks in order, complete only when all were taken and the source said so, one outcome; `GetEnds` |
| `peer_manager_rounds` | 2 ids, 3 objects, Timeout 1, Sleep 1, Stale 3 | `OnlyInactiveSwept`; `InactivePeerLeaves`: a peer that failed a ping leaves the table, unless it is announced again or its list of files is replaced again and again; `StopEnds` |
| `wire_serve` | 2 clients, messages in at most 2 pieces, files of at most 1 chunk, a window of 1 message | `NoStrandedInput`; `DispatchedIsSent`: at most one message of a connection is dispatched, a beginning of what was sent; `ClientReturns`, `ServerMovesOn`, `Attended` (a client is accepted, and one whose end is reported by itself is closed, however busy the others keep the one thread) |
| `file_index_scan` | 3 places, `doc` at the top and in a subdirectory, one name that is not shareable, versions `<<b1>>` and `<<b2,b3>>`, every initial directory, 2 writes or failed reads | `ListedAsSeen`: the size of an entry and each block of its hash were the file's since the scan began, no place twice; `QuietScanComplete`; `SentAsListed`: a request gets the file that was listed; `ScanEnds` |
| `lifecycle_node` | 2 signals, 2 descriptors | `JoinedBeforeFreed`; `DescriptorsAccounted`: a descriptor is in the table or about to be, and none is open when the server is stopped; `QuitEnds`; `SignalEnds`: one signal or two, anywhere, unless a command held a mutex |
| `codec` | 3-bit bytes, words of 2 bytes, a CRC of 6 bits; all 7 kinds of message with empty, short and too long texts and numbers around the limit; 4 parsers on all payloads of up to 10 bits or 6 small bytes, and on cut and extended encodings | `RoundTrip`, `ParsesExactly`, `DamageNoticed` |
| `peer_lists` | 2 ids with 2 objects each, 2 updates by 2 threads, 2 additions, lists with plain names, one with a bar, one with a newline | `UpdatesMerge`, `PeersSurvive`, `FilesSurvive` |
| `thread_pool_drain` | 2 workers, 2 callers, 3 tasks | `ShutdownDrains`, `NoLostWakeup`, `StartedInOrder`, `AcceptedRuns`, `ShutdownEnds` |

Why these bounds. Two gets are enough for every pairwise interference on a file,
and each step of a get touches one file; with two paths the gets may also stay
apart. Two blocks are the least for which buffering, a short write and a truncation
by the other get leave different files. Versions of different length and without
a common block make any mixture of two shares visible; two shares allow one during
and one before or after the serving. Two clients are enough to have one keep the
server's only thread from the other; a window of one message makes every reply of
two messages block, and two pieces are the least that make a cut message and one that
follows it (the invariants were checked with three as well, and are proved for any number). Two ids and a third object let an id be taken over by a new
object while the old one is pinged. Two writes to a directory let a
file be overwritten between its size and its hash, or between two blocks of it, and another
one vanish, or be shared and replaced; versions of one and of two blocks, all
different, show a hash that mixes contents and a file that shrinks under the reader; two places of one name make the order of the iterator visible.
Two signals are all that `main` installs, and a signal does not interrupt its own
handler, so that no deeper stack exists; two descriptors allow one in the table while
another is being entered. Two updates are the least that overlap; lists that share one
name and differ in another show what of each remains. In the codec a word of two
bytes has an order, 63 bytes are enough for two files in a list, and texts of 64
and 66 bytes are too long for a size field.
Three tasks on two workers leave a task queued
while both run. Deadlock is not checked: in each instance everything may really
come to an end (all gets done, the pool shut down, all clients gone).

`OnlyInactiveSwept` depends on durations. A round pings its peers one after the
other, a dead one takes up to the 10 s socket timeout, and a peer that was pinged
first in one round may be pinged last in the next (the table is an
`unordered_map`, so that its order may change with the table). The sweep comes
before the pings, so a live peer's age at a sweep is at most one round and one
pause: the property holds when `Cardinality(Ids) * Timeout + Sleep <= Stale` and
fails below (Stale = 2 in this instance). With the code's 10 s, 30 s and 300 s
that is 27 peers; README.md:157 speaks of 200. `PeerManagerProofs` proves the first
half of this for every number of ids and all durations.

### Disagreements between the code and what is said of it

Each is a run that ends with a counterexample.

| Run | What is said | What the code does |
|---|---|---|
| `download_size` / `SizeMatches` | `tests/test_performance.cpp:458`: when `downloadFile` returned true the sizes are equal | an unnoticed short write (`Client.cpp:234`) leaves a shorter file |
| `wire_reply` / `ReplyAccepted` | PhasewiseChecklist.md:58 "[X] Exchange file lists with connected peers." | `Server::sendMessage` writes no length, `Client::receiveMessage` expects one |
| `share_sent` / `SharedIsSent` | README.md:170 "Share file with network" | `share` refreshes the CLI's list (`CLI.cpp:301`), requests are answered from the server's |

Seen in the same code and not a run of their own: a ping has no case in
`processMessage`, so it is logged as unknown; a body sent to a server that has
just gone raises SIGPIPE, which nothing ignores, and ends the node (`SendKills`);
the progress object of a get belongs to a temporary `Client`, so that the
`downloads` command never lists it. Further:

* README.md:10 promises "Support for interrupted download recovery"; a second get
  truncates what the first one stored (`Client.cpp:215`), before the peer has answered.
* A FIN that arrives with the last bytes of a client is never read by `Server` (short
  read, edge-triggered epoll): the descriptor stays open while the server runs.
* A request that is read before all of it has arrived is dispatched as it is, with a cut
  name (`Server.cpp:257` calls the test for a complete message "simplified"); the rest
  is then ignored as a message of unknown type. With the name of another file, that one is sent.
* A peer that fails its pings stays in the table, inactive and never pinged again, as long
  as somebody replaces its list of files (`PeerManager.cpp:144`).
* A file that is overwritten while it is scanned is listed with a hash that may be no
  content's, and with the size of another; a read error gives the hash of a beginning.
* `share` writes to directory + name (`CLI.cpp:294`): a directory given without its
  last `/` gets the copy next to it (`Slash` in `FileIndex`).
* A signal while a command holds a mutex ends in a deadlock: with `connections_mutex`
  the handler waits for its own thread, with `peers_mutex` it joins a heartbeat that
  waits for that thread. This is the exception in `SignalEnds`.
* Nobody waits for the detached threads (`DetachedCrashes` in `Lifecycle`), and
  `g_cli` keeps pointing to a destroyed `CLI`.
* `CLI::initialize` adds bootstrap nodes after the thread that reads them was started.
* The checksum of `Protocol` does not cover the type, and is not looked at when the
  payload is empty; sizes from 4 GiB on are cut; bytes after a message are ignored.
  `tests/test_protocol.cpp:134-136` damages byte 10, which lies in the size field, and
  expects the CRC to notice.
* Overlapping updates of a file list merge instead of the last one winning, and in the
  middle of one a file that is in the old and in the new list is not found.
* A name with `|` or a newline is lost or misread by the node that asks.

### Fairness

`Download`: weak fairness of each get thread, no more. It is justified by the
socket timeouts (`Client.cpp:20-26`) and by a file system that answers; peers,
users and the network owe nothing. A get against a peer that keeps sending is
finite because a file is.
`Wire`: weak fairness of every client's call (again the timeouts) and of the
server's thread; not of `Connect`, `Stop` and `Exit`.
`FileIndex`: the main thread while it scans; other programs write finitely often in an
instance, and the scan visits a place once whatever they do.
`PeerManager`: the heartbeat thread, the return from `join` and time. A ping that
waits `Timeout` must end, since `Tick` stops there and the heartbeat is fair. Nobody
need call `updatePeerFileList`; who does so for ever is the exception in
`InactivePeerLeaves` (`[]<><<UpdatePeerFileList(i)>>_vars`: again and again, for that id).
`Lifecycle`: the main thread outside of commands' input, the event thread and the
heartbeats; users, signals, clients and detached threads owe nothing. One action has
strong fairness, the end of the accept loop (`HighPerformanceServer.cpp:156`): it ends
when `accept` finds nobody waiting, so that connections may come for ever, but there is
a moment, again and again, when none waits. With a queue that is never empty the loop,
and with it `stop()`, would never end; weak fairness does not exclude that.
`ThreadPool`: threads that can run do, and tasks end; spurious wakeups are
possible and nothing relies on them. Nobody must enqueue or shut down.

## 4. Proofs

A theorem `Spec => []Inv` is proved by an invariant that implies `Inv`, holds at the
start and is kept by every step; TLC checked each of these invariants on the instance of
the run first. What is assumed of the constants are the assumptions of the modules,
which TLC evaluates in every run; `SweptCorrect` has one hypothesis more, below.

`DownloadProofs` proves, for every number of gets, peers, paths, blocks, files and
shares:

* `TypeCorrect == Spec => []TypeOK`. The invariant is inductive. The chunk that
  is sent next is in `Blocks` because `content` is a sequence over `Blocks`, and a
  peer serves a session only for a get that has a source; these two facts are part
  of `TypeOK`.
* `CompletedIsIntact == Spec => []IntactIfAlone`. Not inductive as it stands: it
  says nothing while the get runs. The strengthening says that a get that has its
  destination open and to itself, with a healthy stream, has exactly the first
  `flushed` chunks in the file, that `flushed ≤ rd ≤ Len(sent)`, that a completed
  get has received everything the peer will ever send (`last = "complete"` and
  `rd = Len(sent)`), and that a peer sends nothing after its last message. The lemmas
  `WriteOn`, `WriteType` and `WriteBlocks` say what writing does to a file, `QuietStep`
  covers the actions that leave the file and its get alone, and the step of another
  get that truncates the destination falsifies `sole`.

`DeliveryProofs` goes on from there:

* `SnapshotCorrect == Spec => []SnapshotIfClean`. `SourceInv` says of a clean get that,
  while its peer sends, the source is still what it was when it was opened, no copy is
  going on, and the chunks are its beginning; and that they are all of it after
  "complete". `EarlyInv` (nothing is received before the destination is open, nothing
  sent before the peer has opened the file) makes the beginning hold, `CompletedInv` of
  `DownloadProofs` turns "all was sent" into "all was received".
* `ReceivedCorrect == Spec => []OnlyReceivedBlocks`. `ReceivedWrite` is the heart: a get
  that writes `flushed + 1 .. rd` at its own offset changes only places for which it has
  received those blocks, or leaves zeros before them, whatever the other gets have made
  of the file. `ReceivedQuiet` is for steps that leave the file alone.
* `DeliveryCorrect == Spec => ImplementsDelivery`. The mapping is that of `Download`;
  `DeliveryTake`, `DeliveryGiveUp` and `DeliveryStutter` say which step of `Delivery` a
  step with a given effect on the mapped variables is, and `RefinementStep` has one case
  for each of the 25 actions. A block taken is the next one of the source because
  `rd <= Len(sent)` and `sent` only grows.

`WireProofs`, for every set of clients, number of pieces, length of file and window
(`Listener` is a descriptor of its own and not a client):

* `TypeCorrect == Spec => []TypeOK`, with `SegmentsInv` (a client sends one prefix and then
  the pieces of one message, which bounds what can be on its way) and `BatchInv` (events are
  about open connections, and the connection being handled is not in the batch any more).
* `InputIsRead == Spec => []NoStrandedInput`. Inductive with `BatchInv`: a connection
  leaves the batch only to be read to the end, or to be closed.
* `DispatchCorrect == Spec => []DispatchedIsSent`, from `BodyInv`. The head of a message is
  at one place only: not sent yet, unread, in the segments being processed, or
  dispatched. And segments that are read together are consecutive (`Fits`): the
  prefix comes first or not at all, the head first or right behind it, and there are no more
  than were sent. `FitsMore` keeps that when a piece arrives, `FitsBody` turns it into
  "a beginning of the message" when the first segment is the head, and `QuietKeepsBody`
  is for the steps that send, read and dispatch nothing.

`FileIndexProofs`, for every directory tree, set of names, versions of any length and any
number of changes by other programs and of failed reads:

* `TypeCorrect == Spec => []TypeOK` and `ListCorrect == Spec => []ListedAsSeen`, with
  `HeldInv` (the ghost has what is in the directory now, what the open stream would read,
  the size read so far and each block at its position) and `OnceInv` (what is listed is neither
  where the scan is nor still to be visited, hence no place is listed twice). Nothing is
  assumed of the writers.
* `SentCorrect == Spec => []SentAsListed` follows from these two: the first match of a
  name that one entry has is that entry, and if the place had one content only and was read
  to the end, size and hash are that content's (`OneContent`).
* `QuietScanCorrect == Spec => []QuietScanComplete`, from `CoverInv`: a shareable place that
  had a file all the time is listed, or still to be visited.

`LifecycleProofs`, for every set of signals and descriptors:

* `TypeCorrect`, `JoinedCorrect == Spec => []JoinedBeforeFreed` and
  `DescriptorsCorrect == Spec => []DescriptorsAccounted`, all from `LifeInv`. A second
  `shutdown()` on top of a first one finds `running` cleared and skips that `stop()` with
  its join, so that "who is past the `stop()` of an object finds its thread gone" does not
  hold for every frame. What holds is that a handler ends in `exit()`: once interrupted,
  `main()` never goes on. `MainInv` therefore speaks of a stack of one frame only: the
  threads of objects that do not run have left or are being joined here, and nothing is
  destroyed before all are stopped. For descriptors it is different, since a
  handler does close them: `ServerInv` says of every frame that is inside the server's
  `stop()` and past its join that the event thread is gone, and with it the descriptor it was about to enter.
  `StackInv` (main at the bottom, handlers above it, in `shutdown()`) and `LockInv` (which
  frame holds a mutex) carry these.

`PeerManagerProofs`:

* `TypeCorrect == Spec => []TypeOK`, for every set of ids and objects and all durations.
* `SweptCorrect`: under `RoundFits`, that is finitely many ids and
  `Cardinality(Ids) * Timeout + Sleep <= Stale`, `Spec => []OnlyInactiveSwept`. The bound is
  the one below which TLC finds a counterexample, not a convenience of the proof; the
  instance of the run meets it with equality. `FreshInv` gives an active peer in the table
  an age that the pings of this round that have ended, the present one and the pause can
  have taken; a peer the round still waits for is covered by the count `Open` of the pings
  that have not ended, which is at most `Cardinality(Ids)` since the table has one object
  for an id (`FewObjects`).

`ThreadPoolProofs` proves, for every set of workers (not empty), callers and tasks:

* `TypeCorrect == Spec => []TypeOK` and `OrderCorrect == Spec => []StartedInOrder`,
  each inductive. The lemmas `TakeHead` and `JoinLast` say that the queue's head
  moves to the end of `started` without changing the whole, and that an accepted
  task is last in it.
* `WakeupCorrect == Spec => []NoLostWakeup` and
  `DrainCorrect == Spec => []ShutdownDrains`, both from `PoolInv`: `stop` is set
  exactly from shutdown() on; a worker leaves only a stopped pool with an empty
  queue, and such a queue stays empty because `enqueue` throws; every task taken is
  running or finished; shutdown() returns after the last worker. Neither property is
  inductive without the second of these facts: a notification sent to nobody is
  harmless only because workers that have left did so with the queue empty.

`PeerListsProofs`, for every set of ids, objects, threads and lists, texts over any
symbols, and any number of calls. It has three layers.

*Induction and loops.* What a loop does to a list of any length is an induction, which the
library states for a predicate. `SetInduction` and `BoundedInduction` state it for a set of
numbers instead, from the least element of a set of naturals (`WFMin`), and `Iterate` gives
the function that a loop of n rounds computes. With these, `AddFilesRuns`, `PickedRuns`,
`ReadRuns` and `FlattenRuns` unfold `addFiles`, `Picked`, `Read` and `FlattenSeq` round by
round, and the lemmas that follow say what they return (`AddFileList`, `AddFilesList`,
`RemoveFileList`, `PickedList`).

*The lists.*

* `TypeCorrect == Spec => []TypeOK`. `TypeInv` adds that a thread without an object has
  nothing to do.
* `MergeCorrect == Spec => []UpdatesMerge`. `UpdatesMerge` speaks of a list when no call works on
  it; `MergeInv` says what holds in between. `AddsOf`: what a call has still to add was
  brought, and is all of its list while it removes. `OldOf`: a file that none of the calls
  brought is still to be removed by one of them. `CommonOf`: a name that all of them brought
  is in the list, or some call has still to add it; a call that removes the name has its own
  list still to add (`AddsOf`), and the name is in that. `AloneOf`: while a call that has the
  list for itself removes, every name there is still to be removed; after that, adding the
  rest to the list gives what its own list gives. `OnceInv`, that no name is twice in a list,
  needs none of these.

*The texts.*

* `SplitJoined`: tokens without a bar, the last of them not empty, are what `Split` makes of
  their `Joined` text. It follows a token at a time from `ReadOn`, by which the state of
  `Read` behind a text is all that matters for what comes after it. `ReadEnded` and
  `LinesEnded`: a line that has no newline is among the lines that are read whatever lines
  surround it, and if no line has one, exactly these are read.
* `FilesCorrect == Spec => []FilesSurvive`, by `FileLine`: the line of a file without
  separators in its name is read as that file. (`FileIn` takes the hash as the rest of the
  line; `ThreeJoined` finds where that begins.)
* `PeersCorrect == Spec => []PeersSurvive`, by `PeerLine`: so is the line of a peer. Its tokens
  are five fields and three for each file (`PeerTokens`, `ColumnsOf`), so that as many
  files are read as were announced; their loop of `addFile` makes the same list again
  because no name is in it twice (`AddFilesOnce`), and for the same reason there is a digit for
  its length (`ListLength`). That every list that is written is like that, in the
  middle of updates too, is `SentInv`, which rests on `OnceInv` and on the table being finite.

Only model-checked:

* liveness, that is every `~>` property (`GetEnds`, `InactivePeerLeaves`, `StopEnds`,
  `ClientReturns`, `ServerMovesOn`, `Attended`, `ScanEnds`, `QuitEnds`, `SignalEnds`,
  `AcceptedRuns`, `ShutdownEnds`): proving one needs ENABLED, which TLAPS cannot do here;
* the invariants of `Codec`: bitwise operators, and parsers that are recursive in a count
  read from the payload.

## 5. Not modelled, and the plan

Order of work: downloads first (what the program is for), then the wire, the peer
table, the pool, the file index, the lifecycle, the codec and the lists; then the
proofs. Every invariant and the refinement of these modules are now theorems, but for
those of `Codec`. Its readers and creators without the CRC could be split off and proved
with the lemmas about sequences of `PeerListsProofs`; the CRC stays with TLC. When the
handlers of `HighPerformanceServer` that are only declared get written, they are the next to
model, with the composition of `Wire` and `Lifecycle`.

Not modelled: the data and write handlers of `HighPerformanceServer`, which the
repository does not contain; the race of `addBootstrapNode` with the bootstrap thread
(undefined behaviour of a vector, nothing after it can be said); the logger (wording, and
declared only), hashing (data), the speed display, commands that only print, the
command line, and the tests and scripts.

## 6. Running it

    tlc -config DownloadRace.cfg MCDownload        # likewise the other runs
    tlapm DownloadProofs.tla                       # likewise the other modules of proofs
