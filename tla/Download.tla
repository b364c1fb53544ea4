------------------------------ MODULE Download ------------------------------
(***************************************************************************)
(* The `get' command from end to end: the detached thread that             *)
(* CLI::handleGetCommand starts for every get, the connection that         *)
(* Client::downloadFileFromPeer opens for it, the peer that answers it     *)
(* (control flow of Server::handleFileRequest), the destination files, and *)
(* the peer's own `share' command, which may overwrite the file while it   *)
(* is being served (CLI::handleShareCommand).                              *)
(*                                                                         *)
(* A file is a sequence of blocks; one block is the payload of one         *)
(* FILE_CHUNK message.  A connection carries the chunks in order, then at  *)
(* most one terminating message.  Messages that the receive loop ignores   *)
(* (the `default' branch of downloadFile) are left out.                    *)
(*                                                                         *)
(* Client::receiveMessage expects every message behind a 4-byte length.    *)
(* Peers in Framed send it; the handlers of HighPerformanceServer, which   *)
(* would, are declared but not in the repository.  Server::sendMessage     *)
(* writes no length, so a peer outside Framed behaves as Server.cpp does.  *)
(***************************************************************************)
EXTENDS Naturals, Sequences, FiniteSets

CONSTANTS Gets,       \* the get commands the user types, one thread each
          Peers,      \* the peers that offer the file
          Framed,     \* those whose messages carry a length
          Paths,      \* destination paths
          Blocks,     \* file blocks
          Files,      \* the file versions that peers hold or share
          Hole,       \* the zeros the file system shows where nobody wrote
          NoOne,      \* "no peer", "no path": a get not typed yet
          MaxShares   \* bound: how often the file is re-shared in all

ASSUME DownloadAssumption ==
    /\ Framed \subseteq Peers
    /\ Files \subseteq Seq(Blocks)
    /\ Hole \notin Blocks
    /\ NoOne \notin Peers \cup Paths
    /\ MaxShares \in Nat

VARIABLES
    pc,        \* [Gets -> step of the get thread]
    src,       \* [Gets -> peer the get was given, NoOne before]
    dst,       \* [Gets -> destination path, NoOne before]
    up,        \* [Gets -> is the get's connection open at both ends]
    session,   \* [Gets -> state of the request at the peer]
    sent,      \* [Gets -> chunks the peer has put on the connection]
    last,      \* [Gets -> terminating message put on the connection]
    rd,        \* [Gets -> number of chunks received: downloaded_size]
    flushed,   \* [Gets -> number of chunks that left the ofstream's buffer]
    bad,       \* [Gets -> badbit of the ofstream: a write failed]
    progress,  \* [Gets -> flags of the get's DownloadProgress]
    disk,      \* [Paths -> content of the destination file]
    content,   \* [Peers -> content of the shared file]
    copying,   \* [Peers -> what a running copy_file has still to write]
    shares,    \* number of shares so far
    sole,      \* ghost: no other get has had the get's destination open
    clean,     \* ghost: the source did not change and was read to its end
    snapshot   \* ghost: the source when the peer opened it

threadVars == <<pc, src, dst, progress>>
linkVars   == <<up, session, sent, last>>
streamVars == <<rd, flushed, bad, disk>>
fileVars   == <<content, copying, shares>>
ghostVars  == <<sole, clean, snapshot>>
vars == <<threadVars, linkVars, streamVars, fileVars, ghostVars>>

Opened(g) == pc[g] \in {"receive", "close"}

\* Mutant: the destination is opened for appending.
WriteAtEnd(file, s, from, to) == file \o SubSeq(s, from, to)

\* The destination after the blocks s[from..to] are written at their place.
\* A file that another ofstream truncated meanwhile reads as zeros before it.
Write(file, s, from, to) ==
    IF to < from THEN file ELSE
    [i \in 1 .. (IF to > Len(file) THEN to ELSE Len(file)) |->
        IF i \in from .. to THEN s[i]
        ELSE IF i <= Len(file) THEN file[i]
        ELSE Hole]

-----------------------------------------------------------------------------

Init ==
    /\ pc = [g \in Gets |-> "idle"]
    /\ src = [g \in Gets |-> NoOne]
    /\ dst = [g \in Gets |-> NoOne]
    /\ up = [g \in Gets |-> FALSE]
    /\ session = [g \in Gets |-> "none"]
    /\ sent = [g \in Gets |-> <<>>]
    /\ last = [g \in Gets |-> "none"]
    /\ rd = [g \in Gets |-> 0]
    /\ flushed = [g \in Gets |-> 0]
    /\ bad = [g \in Gets |-> FALSE]
    /\ progress = [g \in Gets |-> "none"]
    /\ disk = [d \in Paths |-> <<>>]
    /\ content \in [Peers -> Files]
    /\ copying = [p \in Peers |-> <<>>]
    /\ shares = 0
    /\ sole = [g \in Gets |-> TRUE]
    /\ clean = [g \in Gets |-> TRUE]
    /\ snapshot = [g \in Gets |-> <<>>]

-----------------------------------------------------------------------------
(* The get thread *)

\* Mutant: the missing check for "no active peer has the file".
HandleGetUnchecked(g, p, d) ==
    /\ pc[g] = "idle"
    /\ pc' = [pc EXCEPT ![g] = "connect"]
    /\ src' = [src EXCEPT ![g] = NoOne]
    /\ dst' = [dst EXCEPT ![g] = d]
    /\ UNCHANGED <<progress, linkVars, streamVars, fileVars, ghostVars>>

\* The CLI thread found an active peer with the file and detaches a thread.
HandleGet(g, p, d) ==
    /\ pc[g] = "idle"
    /\ pc' = [pc EXCEPT ![g] = "connect"]
    /\ src' = [src EXCEPT ![g] = p]
    /\ dst' = [dst EXCEPT ![g] = d]
    /\ UNCHANGED <<progress, linkVars, streamVars, fileVars, ghostVars>>

Connect(g) ==
    /\ pc[g] = "connect"
    /\ pc' = [pc EXCEPT ![g] = "request"]
    /\ up' = [up EXCEPT ![g] = TRUE]
    /\ UNCHANGED <<src, dst, progress, session, sent, last,
                   streamVars, fileVars, ghostVars>>

ConnectFails(g) ==
    /\ pc[g] = "connect"
    /\ pc' = [pc EXCEPT ![g] = "done"]
    /\ UNCHANGED <<src, dst, progress, linkVars, streamVars, fileVars,
                   ghostVars>>

\* The progress object is registered, then the request is sent.  The kernel
\* also accepts a request that a broken connection will never deliver.
Request(g) ==
    /\ pc[g] = "request"
    /\ pc' = [pc EXCEPT ![g] = "open"]
    /\ progress' = [progress EXCEPT ![g] = "running"]
    /\ session' = [session EXCEPT ![g] = IF up[g] THEN "requested" ELSE @]
    /\ UNCHANGED <<src, dst, up, sent, last, streamVars, fileVars, ghostVars>>

RequestFails(g) ==
    /\ pc[g] = "request"
    /\ ~up[g]
    /\ pc' = [pc EXCEPT ![g] = "done"]
    /\ progress' = [progress EXCEPT ![g] = "failed"]
    /\ UNCHANGED <<src, dst, linkVars, streamVars, fileVars, ghostVars>>

\* The destination is opened with trunc once the request is out, whatever
\* the peer is going to answer and whoever else has the path open.
OpenDestination(g) ==
    /\ pc[g] = "open"
    /\ pc' = [pc EXCEPT ![g] = "receive"]
    /\ disk' = [disk EXCEPT ![dst[g]] = <<>>]
    /\ sole' = [h \in Gets |->
                  IF h = g THEN \A o \in Gets \ {g} : ~(Opened(o) /\ dst[o] = dst[g])
                  ELSE sole[h] /\ dst[h] # dst[g]]
    /\ UNCHANGED <<src, dst, progress, linkVars, rd, flushed, bad,
                   fileVars, clean, snapshot>>

OpenDestinationFails(g) ==
    /\ pc[g] = "open"
    /\ pc' = [pc EXCEPT ![g] = "done"]
    /\ progress' = [progress EXCEPT ![g] = "failed"]
    /\ up' = [up EXCEPT ![g] = FALSE]
    /\ UNCHANGED <<src, dst, session, sent, last, streamVars, fileVars,
                   ghostVars>>

\* A chunk is there to be read.
ChunkReady(g) ==
    /\ pc[g] = "receive"
    /\ src[g] \in Framed
    /\ rd[g] < Len(sent[g])

\* The ofstream keeps a chunk that fits into its buffer; after a failed write
\* it silently drops everything.
ReceiveBuffered(g) ==
    /\ ChunkReady(g)
    /\ rd' = [rd EXCEPT ![g] = @ + 1]
    /\ UNCHANGED <<threadVars, linkVars, flushed, bad, disk, fileVars, ghostVars>>

\* Mutant: the chunk overtakes the buffered ones, which are dropped.
ReceiveWrittenAlone(g) ==
    /\ ChunkReady(g)
    /\ ~bad[g]
    /\ rd' = [rd EXCEPT ![g] = @ + 1]
    /\ flushed' = [flushed EXCEPT ![g] = rd[g] + 1]
    /\ disk' = [disk EXCEPT ![dst[g]] = Write(@, sent[g], rd[g] + 1, rd[g] + 1)]
    /\ UNCHANGED <<threadVars, linkVars, bad, fileVars, ghostVars>>

\* The buffer and the chunk are written out.
ReceiveWritten(g) ==
    /\ ChunkReady(g)
    /\ ~bad[g]
    /\ rd' = [rd EXCEPT ![g] = @ + 1]
    /\ flushed' = [flushed EXCEPT ![g] = rd[g] + 1]
    /\ disk' = [disk EXCEPT ![dst[g]] = Write(@, sent[g], flushed[g] + 1, rd[g] + 1)]
    /\ UNCHANGED <<threadVars, linkVars, bad, fileVars, ghostVars>>

\* The write stops short (disk full) and nobody looks at the stream's state.
ReceiveUnwritten(g) ==
    /\ ChunkReady(g)
    /\ ~bad[g]
    /\ rd' = [rd EXCEPT ![g] = @ + 1]
    /\ bad' = [bad EXCEPT ![g] = TRUE]
    /\ \E n \in flushed[g] .. rd[g] :
         /\ flushed' = [flushed EXCEPT ![g] = n]
         /\ disk' = [disk EXCEPT ![dst[g]] = Write(@, sent[g], flushed[g] + 1, n)]
    /\ UNCHANGED <<threadVars, linkVars, fileVars, ghostVars>>

\* Mutant: the terminating message overtakes chunks.
LastReadyEarly(g, type) ==
    pc[g] = "receive" /\ src[g] \in Framed /\ last[g] = type

\* Every chunk was read and the terminating message is next.
LastReady(g, type) ==
    /\ pc[g] = "receive"
    /\ src[g] \in Framed
    /\ rd[g] = Len(sent[g])
    /\ last[g] = type

ReceiveComplete(g) ==
    /\ LastReady(g, "complete")
    /\ pc' = [pc EXCEPT ![g] = "close"]
    /\ progress' = [progress EXCEPT ![g] = "completed"]
    /\ UNCHANGED <<src, dst, linkVars, streamVars, fileVars, ghostVars>>

\* Mutant: an error message ends the loop like a completion.
ReceiveErrorAsEnd(g) ==
    /\ LastReady(g, "error")
    /\ pc' = [pc EXCEPT ![g] = "close"]
    /\ progress' = [progress EXCEPT ![g] = "completed"]
    /\ UNCHANGED <<src, dst, linkVars, streamVars, fileVars, ghostVars>>

ReceiveError(g) ==
    /\ LastReady(g, "error")
    /\ pc' = [pc EXCEPT ![g] = "close"]
    /\ progress' = [progress EXCEPT ![g] = "failed"]
    /\ UNCHANGED <<src, dst, linkVars, streamVars, fileVars, ghostVars>>

\* An empty message leaves the loop: false is returned and no flag is set.
ReceiveEmpty(g) ==
    /\ LastReady(g, "empty")
    /\ pc' = [pc EXCEPT ![g] = "close"]
    /\ UNCHANGED <<src, dst, progress, linkVars, streamVars, fileVars,
                   ghostVars>>

\* Mutant: the socket has no timeout.
ReceiveFailsUntimed(g) ==
    /\ pc[g] = "receive"
    /\ ~up[g]
    /\ pc' = [pc EXCEPT ![g] = "close"]
    /\ progress' = [progress EXCEPT ![g] = "failed"]
    /\ UNCHANGED <<src, dst, linkVars, streamVars, fileVars, ghostVars>>

\* receiveMessage throws: 10 s without a byte, the connection is gone, or the
\* first bytes of an unframed message are taken for an absurd length.  (The
\* catch block sets `failed' after the ofstream is destroyed; no other thread
\* sees the progress object of this get's own Client.)
ReceiveFails(g) ==
    /\ pc[g] = "receive"
    /\ \/ rd[g] = Len(sent[g]) /\ last[g] = "none"
       \/ ~up[g]
       \/ src[g] \notin Framed
    /\ pc' = [pc EXCEPT ![g] = "close"]
    /\ progress' = [progress EXCEPT ![g] = "failed"]
    /\ UNCHANGED <<src, dst, linkVars, streamVars, fileVars, ghostVars>>

\* The ofstream is destroyed, which writes its buffer; then the Client is.
CloseDestination(g) ==
    /\ pc[g] = "close"
    /\ pc' = [pc EXCEPT ![g] = "done"]
    /\ up' = [up EXCEPT ![g] = FALSE]
    /\ IF bad[g]
         THEN UNCHANGED <<flushed, bad, disk>>
         ELSE \E n \in flushed[g] .. rd[g] :
                /\ flushed' = [flushed EXCEPT ![g] = n]
                /\ bad' = [bad EXCEPT ![g] = n < rd[g]]
                /\ disk' = [disk EXCEPT ![dst[g]] =
                              Write(@, sent[g], flushed[g] + 1, n)]
    /\ UNCHANGED <<src, dst, progress, session, sent, last, rd,
                   fileVars, ghostVars>>

-----------------------------------------------------------------------------
(* The peer and the network *)

\* getFileInfo finds the file and the ifstream opens.
ServeFile(g) ==
    /\ session[g] = "requested"
    /\ session' = [session EXCEPT ![g] = "sending"]
    /\ snapshot' = [snapshot EXCEPT ![g] = content[src[g]]]
    /\ clean' = [clean EXCEPT ![g] = copying[src[g]] = <<>>]
    /\ UNCHANGED <<threadVars, up, sent, last, streamVars, fileVars, sole>>

\* The file is not in the index, or cannot be opened.
ServeError(g) ==
    /\ session[g] = "requested"
    /\ up[g]
    /\ session' = [session EXCEPT ![g] = "ended"]
    /\ last' = [last EXCEPT ![g] = "error"]
    /\ UNCHANGED <<threadVars, up, sent, streamVars, fileVars, ghostVars>>

SendChunk(g) ==
    /\ session[g] = "sending"
    /\ up[g]
    /\ Len(sent[g]) < Len(content[src[g]])
    /\ sent' = [sent EXCEPT ![g] = Append(@, content[src[g]][Len(@) + 1])]
    /\ UNCHANGED <<threadVars, up, session, last, streamVars, fileVars, ghostVars>>

\* file.read fails at the end of the file, and also on a read error: both end
\* the loop, and both are followed by FILE_COMPLETE.
SendComplete(g) ==
    /\ session[g] = "sending"
    /\ up[g]
    /\ session' = [session EXCEPT ![g] = "ended"]
    /\ last' = [last EXCEPT ![g] = "complete"]
    /\ clean' = [clean EXCEPT ![g] = @ /\ Len(sent[g]) >= Len(content[src[g]])]
    /\ UNCHANGED <<threadVars, up, sent, streamVars, fileVars, sole, snapshot>>

\* sendMessage throws, the handler's own ERROR_MESSAGE throws again.
SendFails(g) ==
    /\ session[g] \in {"requested", "sending"}
    /\ ~up[g]
    /\ session' = [session EXCEPT ![g] = "ended"]
    /\ UNCHANGED <<threadVars, up, sent, last, streamVars, fileVars, ghostVars>>

\* A frame of length 0.  No handler in the repository sends one.
SendEmpty(g) ==
    /\ session[g] = "requested"
    /\ src[g] \in Framed
    /\ up[g]
    /\ session' = [session EXCEPT ![g] = "ended"]
    /\ last' = [last EXCEPT ![g] = "empty"]
    /\ UNCHANGED <<threadVars, up, sent, streamVars, fileVars, ghostVars>>

\* The connection is reset, or the peer stops.
LinkBreaks(g) ==
    /\ up[g]
    /\ up' = [up EXCEPT ![g] = FALSE]
    /\ UNCHANGED <<threadVars, session, sent, last, streamVars, fileVars,
                   ghostVars>>

\* copy_file(overwrite_existing) truncates the shared file in place ...
ShareStart(p, f) ==
    /\ copying[p] = <<>>
    /\ shares < MaxShares
    /\ shares' = shares + 1
    /\ content' = [content EXCEPT ![p] = <<>>]
    /\ copying' = [copying EXCEPT ![p] = f]
    /\ clean' = [g \in Gets |-> clean[g] /\ ~(src[g] = p /\ session[g] = "sending")]
    /\ UNCHANGED <<threadVars, linkVars, streamVars, sole, snapshot>>

\* ... and then writes the new version.
ShareCopy(p) ==
    /\ copying[p] # <<>>
    /\ content' = [content EXCEPT ![p] = Append(@, Head(copying[p]))]
    /\ copying' = [copying EXCEPT ![p] = Tail(@)]
    /\ UNCHANGED <<threadVars, linkVars, streamVars, shares, ghostVars>>

\* copy_file throws half way; the command reports it and leaves the file so.
ShareFails(p) ==
    /\ copying[p] # <<>>
    /\ copying' = [copying EXCEPT ![p] = <<>>]
    /\ UNCHANGED <<threadVars, linkVars, streamVars, content, shares, ghostVars>>

-----------------------------------------------------------------------------

GetThread(g) ==
    \/ Connect(g)          \/ ConnectFails(g)
    \/ Request(g)          \/ RequestFails(g)
    \/ OpenDestination(g)  \/ OpenDestinationFails(g)
    \/ ReceiveBuffered(g)  \/ ReceiveWritten(g)  \/ ReceiveUnwritten(g)
    \/ ReceiveComplete(g)  \/ ReceiveError(g)    \/ ReceiveEmpty(g)
    \/ ReceiveFails(g)
    \/ CloseDestination(g)

PeerThread(g) ==
    \/ ServeFile(g) \/ ServeError(g)
    \/ SendChunk(g) \/ SendComplete(g) \/ SendFails(g) \/ SendEmpty(g)

Next ==
    \/ \E g \in Gets, p \in Peers, d \in Paths : HandleGet(g, p, d)
    \/ \E g \in Gets : GetThread(g) \/ PeerThread(g) \/ LinkBreaks(g)
    \/ \E p \in Peers : ShareCopy(p) \/ ShareFails(p)
    \/ \E p \in Peers, f \in Files : ShareStart(p, f)

\* Every call of the get thread returns: the socket has 10 s timeouts, and the
\* file system answers.  Nothing is assumed of peers, users and the network.
Fairness == \A g \in Gets : WF_vars(GetThread(g))

Spec == Init /\ [][Next]_vars
FairSpec == Spec /\ Fairness

-----------------------------------------------------------------------------
(* Safety *)

BlocksOrHoles == Blocks \cup {Hole}

\* Types of the variables, and how the counters of one get are ordered.
TypeOK ==
    /\ pc \in [Gets -> {"idle", "connect", "request", "open", "receive",
                        "close", "done"}]
    /\ src \in [Gets -> Peers \cup {NoOne}]
    /\ dst \in [Gets -> Paths \cup {NoOne}]
    /\ \A g \in Gets : pc[g] # "idle" => src[g] \in Peers /\ dst[g] \in Paths
    /\ up \in [Gets -> BOOLEAN]
    /\ session \in [Gets -> {"none", "requested", "sending", "ended"}]
    /\ \A g \in Gets : session[g] # "none" => src[g] \in Peers
    /\ sent \in [Gets -> Seq(Blocks)]
    /\ last \in [Gets -> {"none", "complete", "error", "empty"}]
    /\ rd \in [Gets -> Nat]
    /\ flushed \in [Gets -> Nat]
    /\ bad \in [Gets -> BOOLEAN]
    /\ progress \in [Gets -> {"none", "running", "completed", "failed"}]
    /\ disk \in [Paths -> Seq(BlocksOrHoles)]
    /\ content \in [Peers -> Seq(Blocks)]
    /\ copying \in [Peers -> Seq(Blocks)]
    /\ shares \in Nat
    /\ sole \in [Gets -> BOOLEAN]
    /\ clean \in [Gets -> BOOLEAN]
    /\ snapshot \in [Gets -> Seq(Blocks)]

\* A completed download whose writes all succeeded, and whose destination no
\* other get had open, is what the peer sent, block for block.
IntactIfAlone ==
    \A g \in Gets :
        pc[g] = "done" /\ progress[g] = "completed" /\ sole[g] /\ ~bad[g]
            => disk[dst[g]] = sent[g]

\* However many gets write one path, and whatever fails: a block of a
\* destination file was received, at that place, by a get of that file.
OnlyReceivedBlocks ==
    \A d \in Paths : \A i \in 1 .. Len(disk[d]) :
        \/ disk[d][i] = Hole
        \/ \E g \in Gets :
             dst[g] = d /\ i <= rd[g] /\ disk[d][i] = sent[g][i]

\* A completed download is the file as it was when the peer opened it, if it
\* was not shared again meanwhile and could be read to its end.
SnapshotIfClean ==
    \A g \in Gets :
        progress[g] = "completed" /\ clean[g]
            => SubSeq(sent[g], 1, rd[g]) = snapshot[g]

-----------------------------------------------------------------------------
(* Refinement *)

Outcome(g) ==
    IF progress[g] = "completed" THEN "completed"
    ELSE IF pc[g] \in {"close", "done"} THEN "failed"
    ELSE "none"

\* The get threads, peers and connections implement the abstract transfer.
Abstract == INSTANCE Delivery WITH
    sealed  <- [g \in Gets |-> last[g] = "complete"],
    got     <- [g \in Gets |-> SubSeq(sent[g], 1, rd[g])],
    outcome <- [g \in Gets |-> Outcome(g)]

\* Every get is delivered the source's blocks in order, completes only when it
\* has all of them and the source has said so, and ends only once.
ImplementsDelivery == Abstract!Spec

-----------------------------------------------------------------------------
(* Liveness *)

\* Every get that was typed ends, whatever the peer and the network do.
GetEnds == \A g \in Gets : pc[g] = "connect" ~> pc[g] = "done"

-----------------------------------------------------------------------------
(* What documentation and tests say of downloads *)

\* test_performance: when downloadFile has returned true, the downloaded file
\* is as long as the original.
SizeMatches ==
    \A g \in Gets :
        pc[g] = "done" /\ progress[g] = "completed" /\ clean[g] /\ sole[g]
            => Len(disk[dst[g]]) = Len(snapshot[g])
=============================================================================
