--------------------------- MODULE DownloadProofs ---------------------------
(***************************************************************************)
(* Proofs about Download, for every set of gets, peers, paths and files.   *)
(***************************************************************************)
EXTENDS Download, SequenceTheorems, TLAPS

-----------------------------------------------------------------------------
(* What the writes of an ofstream do to a file. *)

\* A write keeps a file a sequence of blocks and holes.
LEMMA WriteType ==
    ASSUME NEW file \in Seq(BlocksOrHoles), NEW s \in Seq(Blocks),
           NEW from \in Nat \ {0}, NEW to \in Nat, to <= Len(s)
    PROVE  Write(file, s, from, to) \in Seq(BlocksOrHoles)
<1> DEFINE n == IF to > Len(file) THEN to ELSE Len(file)
           w == [i \in 1 .. n |-> IF i \in from .. to THEN s[i]
                                  ELSE IF i <= Len(file) THEN file[i] ELSE Hole]
<1>1. n \in Nat
  BY LenProperties
<1>2. ASSUME NEW i \in 1 .. n
      PROVE  (IF i \in from .. to THEN s[i]
              ELSE IF i <= Len(file) THEN file[i] ELSE Hole) \in BlocksOrHoles
  <2>1. CASE i \in from .. to
    <3>1. i \in 1 .. Len(s)
      BY <2>1, LenProperties
    <3>2. s[i] \in Blocks
      BY <3>1, ElementOfSeq
    <3> QED
      BY <2>1, <3>2 DEF BlocksOrHoles
  <2>2. CASE i \notin from .. to /\ i <= Len(file)
    <3>1. file[i] \in BlocksOrHoles
      BY <2>2, <1>1, LenProperties, ElementOfSeq
    <3> QED
      BY <2>2, <3>1
  <2>3. CASE i \notin from .. to /\ ~(i <= Len(file))
    BY <2>3 DEF BlocksOrHoles
  <2> QED
    BY <2>1, <2>2, <2>3
<1>3. w \in [1 .. n -> BlocksOrHoles]
  BY <1>2
<1>4. w \in Seq(BlocksOrHoles)
  <2> HIDE DEF n, w
  <2> QED
    BY <1>1, <1>3, SeqDef
<1> QED
  BY <1>4 DEF Write

\* Every block of a written file was there before or was just written.
LEMMA WriteBlocks ==
    ASSUME NEW file \in Seq(BlocksOrHoles), NEW s \in Seq(Blocks),
           NEW from \in Nat \ {0}, NEW to \in Nat, to <= Len(s),
           NEW i \in 1 .. Len(Write(file, s, from, to))
    PROVE  \/ i \in from .. to /\ Write(file, s, from, to)[i] = s[i]
           \/ i \in 1 .. Len(file) /\ Write(file, s, from, to)[i] = file[i]
           \/ Write(file, s, from, to)[i] = Hole
<1>1. CASE to < from
  BY <1>1 DEF Write
<1>2. CASE ~(to < from)
  <2> DEFINE n == IF to > Len(file) THEN to ELSE Len(file)
  <2>1. n \in Nat
    BY LenProperties
  <2>2. Write(file, s, from, to) =
          [j \in 1 .. n |-> IF j \in from .. to THEN s[j]
                            ELSE IF j <= Len(file) THEN file[j] ELSE Hole]
    BY <1>2 DEF Write
  <2> HIDE DEF n
  <2>3. Len(Write(file, s, from, to)) = n
    <3>1. Write(file, s, from, to) \in Seq(BlocksOrHoles)
      BY WriteType
    <3>2. DOMAIN Write(file, s, from, to) = 1 .. n
      BY <2>2
    <3> QED
      BY <2>1, <3>1, <3>2, LenProperties
  <2>4. i \in 1 .. n
    BY <2>3
  <2> QED
    BY <2>1, <2>2, <2>4, LenProperties
<1> QED
  BY <1>1, <1>2

\* Writing on where the file ends appends the next blocks of s.
LEMMA WriteOn ==
    ASSUME NEW s \in Seq(Blocks), NEW from \in Nat, NEW to \in Nat,
           from <= to, to <= Len(s)
    PROVE  Write(SubSeq(s, 1, from), s, from + 1, to) = SubSeq(s, 1, to)
<1> DEFINE file == SubSeq(s, 1, from)
<1>1. /\ file \in Seq(Blocks)
      /\ Len(file) = from
      /\ \A i \in 1 .. from : file[i] = s[i]
  BY LenProperties, SubSeqProperties
<1>2. /\ SubSeq(s, 1, to) \in Seq(Blocks)
      /\ SubSeq(s, 1, to) = [i \in 1 .. to |-> s[i]]
  BY LenProperties, SubSeqProperties
<1>3. CASE to < from + 1
  BY <1>3, to = from DEF Write
<1>4. CASE ~(to < from + 1)
  <2>1. Write(file, s, from + 1, to) =
          [i \in 1 .. to |-> IF i \in (from + 1) .. to THEN s[i]
                             ELSE IF i <= Len(file) THEN file[i] ELSE Hole]
    BY <1>1, <1>4 DEF Write
  <2> HIDE DEF file
  <2>2. Write(file, s, from + 1, to) = [i \in 1 .. to |-> s[i]]
    BY <1>1, <2>1
  <2> QED
    BY <1>2, <2>2 DEF file
<1> QED
  BY <1>3, <1>4

\* Taking one more element of s appends it.
LEMMA SubSeqNext ==
    ASSUME NEW S, NEW s \in Seq(S), NEW n \in Nat, n < Len(s)
    PROVE  SubSeq(s, 1, n + 1) = Append(SubSeq(s, 1, n), s[n + 1])
<1>1. /\ SubSeq(s, 1, n) \in Seq(S)
      /\ Len(SubSeq(s, 1, n)) = n
      /\ \A i \in 1 .. n : SubSeq(s, 1, n)[i] = s[i]
  BY LenProperties, SubSeqProperties
<1>2. /\ SubSeq(s, 1, n + 1) \in Seq(S)
      /\ Len(SubSeq(s, 1, n + 1)) = n + 1
      /\ \A i \in 1 .. n + 1 : SubSeq(s, 1, n + 1)[i] = s[i]
  BY LenProperties, SubSeqProperties
<1>3. s[n + 1] \in S
  BY LenProperties, ElementOfSeq
<1>4. /\ Append(SubSeq(s, 1, n), s[n + 1]) \in Seq(S)
      /\ Len(Append(SubSeq(s, 1, n), s[n + 1])) = n + 1
      /\ \A i \in 1 .. n : Append(SubSeq(s, 1, n), s[n + 1])[i] = s[i]
      /\ Append(SubSeq(s, 1, n), s[n + 1])[n + 1] = s[n + 1]
  BY <1>1, <1>3, AppendProperties
<1> QED
  BY <1>2, <1>4, SeqEqual

\* A prefix does not notice that the sequence grows.
LEMMA PrefixOfAppend ==
    ASSUME NEW S, NEW s \in Seq(S), NEW b \in S, NEW n \in Nat, n <= Len(s)
    PROVE  SubSeq(Append(s, b), 1, n) = SubSeq(s, 1, n)
<1>1. /\ Append(s, b) \in Seq(S)
      /\ Len(Append(s, b)) = Len(s) + 1
      /\ \A i \in 1 .. Len(s) : Append(s, b)[i] = s[i]
  BY AppendProperties
<1>2. SubSeq(s, 1, n) = [i \in 1 .. n |-> s[i]]
  BY LenProperties, SubSeqProperties
<1>3. SubSeq(Append(s, b), 1, n) = [i \in 1 .. n |-> Append(s, b)[i]]
  BY <1>1, LenProperties, SubSeqProperties
<1> QED
  BY <1>1, <1>2, <1>3, LenProperties

-----------------------------------------------------------------------------
(* Type correctness *)

\* Chunks are flushed after they were received, and received after they were
\* sent.
Counters == \A g \in Gets : flushed[g] <= rd[g] /\ rd[g] <= Len(sent[g])

TypeInv == TypeOK /\ Counters

LEMMA TypeInit == Init => TypeInv
BY DownloadAssumption, EmptySeq
   DEF Init, TypeInv, TypeOK, Counters, BlocksOrHoles

\* What the two steps that append to a sequence of blocks keep.
LEMMA TypeAppend ==
    ASSUME NEW s \in Seq(Blocks), NEW b \in Blocks
    PROVE  Append(s, b) \in Seq(Blocks) /\ Len(Append(s, b)) = Len(s) + 1
BY AppendProperties

LEMMA TypeStep == TypeInv /\ [Next]_vars => TypeInv'
<1> SUFFICES ASSUME TypeInv, [Next]_vars
             PROVE  TypeInv'
  OBVIOUS
<1> USE DEF TypeInv, TypeOK, Counters, threadVars, linkVars, streamVars,
            fileVars, ghostVars
<1>1. ASSUME NEW g \in Gets, NEW p \in Peers, NEW d \in Paths, HandleGet(g, p, d)
      PROVE  TypeInv'
  BY <1>1 DEF HandleGet
<1>2. ASSUME NEW g \in Gets, Connect(g)
      PROVE  TypeInv'
  BY <1>2 DEF Connect
<1>3. ASSUME NEW g \in Gets, ConnectFails(g)
      PROVE  TypeInv'
  BY <1>3 DEF ConnectFails
<1>4. ASSUME NEW g \in Gets, Request(g)
      PROVE  TypeInv'
  BY <1>4 DEF Request
<1>5. ASSUME NEW g \in Gets, RequestFails(g)
      PROVE  TypeInv'
  BY <1>5 DEF RequestFails
<1>6. ASSUME NEW g \in Gets, OpenDestination(g)
      PROVE  TypeInv'
  <2>1. disk' \in [Paths -> Seq(BlocksOrHoles)]
    BY <1>6, EmptySeq DEF OpenDestination
  <2>2. sole' \in [Gets -> BOOLEAN]
    BY <1>6 DEF OpenDestination
  <2> QED
    BY <1>6, <2>1, <2>2 DEF OpenDestination
<1>7. ASSUME NEW g \in Gets, OpenDestinationFails(g)
      PROVE  TypeInv'
  BY <1>7 DEF OpenDestinationFails
<1>8. ASSUME NEW g \in Gets, ReceiveBuffered(g)
      PROVE  TypeInv'
  BY <1>8 DEF ReceiveBuffered, ChunkReady
<1>9. ASSUME NEW g \in Gets, ReceiveWritten(g)
      PROVE  TypeInv'
  <2>1. /\ dst[g] \in Paths
        /\ flushed[g] + 1 \in Nat \ {0}
        /\ rd[g] + 1 \in Nat
        /\ rd[g] + 1 <= Len(sent[g])
    BY <1>9, LenProperties DEF ReceiveWritten, ChunkReady
  <2>2. Write(disk[dst[g]], sent[g], flushed[g] + 1, rd[g] + 1) \in Seq(BlocksOrHoles)
    BY <2>1, WriteType
  <2>3. disk' \in [Paths -> Seq(BlocksOrHoles)]
    BY <1>9, <2>1, <2>2 DEF ReceiveWritten
  <2>4. flushed'[g] <= rd'[g] /\ rd'[g] <= Len(sent[g])
    BY <1>9, <2>1 DEF ReceiveWritten
  <2> QED
    BY <1>9, <2>1, <2>3, <2>4 DEF ReceiveWritten
<1>10. ASSUME NEW g \in Gets, ReceiveUnwritten(g)
      PROVE  TypeInv'
  <2>1. /\ dst[g] \in Paths
        /\ flushed[g] + 1 \in Nat \ {0}
        /\ rd[g] + 1 \in Nat
        /\ rd[g] + 1 <= Len(sent[g])
    BY <1>10, LenProperties DEF ReceiveUnwritten, ChunkReady
  <2>2. PICK n \in flushed[g] .. rd[g] :
          /\ flushed' = [flushed EXCEPT ![g] = n]
          /\ disk' = [disk EXCEPT ![dst[g]] = Write(@, sent[g], flushed[g] + 1, n)]
    BY <1>10 DEF ReceiveUnwritten
  <2>3. n \in Nat /\ n <= Len(sent[g])
    BY <2>1, <2>2
  <2>4. Write(disk[dst[g]], sent[g], flushed[g] + 1, n) \in Seq(BlocksOrHoles)
    BY <2>1, <2>3, WriteType
  <2>5. disk' \in [Paths -> Seq(BlocksOrHoles)]
    BY <2>1, <2>2, <2>4
  <2>6. flushed' \in [Gets -> Nat] /\ rd' \in [Gets -> Nat] /\ Counters'
    BY <1>10, <2>1, <2>2, <2>3 DEF ReceiveUnwritten
  <2> QED
    BY <1>10, <2>5, <2>6 DEF ReceiveUnwritten
<1>11. ASSUME NEW g \in Gets, ReceiveComplete(g)
      PROVE  TypeInv'
  BY <1>11 DEF ReceiveComplete, LastReady
<1>12. ASSUME NEW g \in Gets, ReceiveError(g)
      PROVE  TypeInv'
  BY <1>12 DEF ReceiveError, LastReady
<1>13. ASSUME NEW g \in Gets, ReceiveEmpty(g)
      PROVE  TypeInv'
  BY <1>13 DEF ReceiveEmpty, LastReady
<1>14. ASSUME NEW g \in Gets, ReceiveFails(g)
      PROVE  TypeInv'
  BY <1>14 DEF ReceiveFails
<1>15. ASSUME NEW g \in Gets, CloseDestination(g)
      PROVE  TypeInv'
  <2>1. CASE bad[g]
    BY <1>15, <2>1 DEF CloseDestination
  <2>2. CASE ~bad[g]
    <3>1. /\ dst[g] \in Paths
          /\ flushed[g] + 1 \in Nat \ {0}
          /\ rd[g] <= Len(sent[g])
      BY <1>15 DEF CloseDestination
    <3>2. PICK n \in flushed[g] .. rd[g] :
            /\ flushed' = [flushed EXCEPT ![g] = n]
            /\ bad' = [bad EXCEPT ![g] = n < rd[g]]
            /\ disk' = [disk EXCEPT ![dst[g]] = Write(@, sent[g], flushed[g] + 1, n)]
      BY <1>15, <2>2 DEF CloseDestination
    <3>3. n \in Nat /\ n <= Len(sent[g])
      BY <3>1, <3>2, LenProperties
    <3>4. Write(disk[dst[g]], sent[g], flushed[g] + 1, n) \in Seq(BlocksOrHoles)
      BY <3>1, <3>3, WriteType
    <3>5. disk' \in [Paths -> Seq(BlocksOrHoles)]
      BY <3>1, <3>2, <3>4
    <3>6. bad' \in [Gets -> BOOLEAN]
      BY <3>2
    <3>7. flushed' \in [Gets -> Nat] /\ rd' = rd /\ Counters'
      BY <1>15, <3>1, <3>2, <3>3 DEF CloseDestination
    <3> QED
      BY <1>15, <3>5, <3>6, <3>7 DEF CloseDestination
  <2> QED
    BY <2>1, <2>2
<1>16. ASSUME NEW g \in Gets, ServeFile(g)
      PROVE  TypeInv'
  BY <1>16 DEF ServeFile
<1>17. ASSUME NEW g \in Gets, ServeError(g)
      PROVE  TypeInv'
  BY <1>17 DEF ServeError
<1>18. ASSUME NEW g \in Gets, SendChunk(g)
      PROVE  TypeInv'
  BY <1>18 DEF SendChunk
<1>19. ASSUME NEW g \in Gets, SendComplete(g)
      PROVE  TypeInv'
  BY <1>19 DEF SendComplete
<1>20. ASSUME NEW g \in Gets, SendFails(g)
      PROVE  TypeInv'
  BY <1>20 DEF SendFails
<1>21. ASSUME NEW g \in Gets, SendEmpty(g)
      PROVE  TypeInv'
  BY <1>21 DEF SendEmpty
<1>22. ASSUME NEW g \in Gets, LinkBreaks(g)
      PROVE  TypeInv'
  BY <1>22 DEF LinkBreaks
<1>23. ASSUME NEW p \in Peers, NEW f \in Files, ShareStart(p, f)
      PROVE  TypeInv'
  BY <1>23, DownloadAssumption DEF ShareStart
<1>24. ASSUME NEW p \in Peers, ShareCopy(p)
      PROVE  TypeInv'
  BY <1>24, DownloadAssumption DEF ShareCopy
<1>25. ASSUME NEW p \in Peers, ShareFails(p)
      PROVE  TypeInv'
  BY <1>25, DownloadAssumption DEF ShareFails
<1>26. CASE UNCHANGED vars
  BY <1>26 DEF vars
<1> QED
  BY <1>1, <1>2, <1>3, <1>4, <1>5, <1>6, <1>7, <1>8, <1>9, <1>10, <1>11, <1>12, <1>13, <1>14, <1>15, <1>16, <1>17, <1>18, <1>19, <1>20, <1>21, <1>22, <1>23, <1>24, <1>25, <1>26 DEF Next, GetThread, PeerThread
\* Every variable keeps its type in every behaviour, and a get never counts
\* more chunks than the peer has sent, nor flushes more than it counted.
THEOREM TypeCorrect == Spec => []TypeOK
<1>1. Init => TypeInv
  BY TypeInit
<1>2. TypeInv /\ [Next]_vars => TypeInv'
  BY TypeStep
<1>3. TypeInv => TypeOK
  BY DEF TypeInv
<1> QED
  BY <1>1, <1>2, <1>3, PTL DEF Spec

-----------------------------------------------------------------------------
(* A completed download is what the peer sent *)

\* The get's stream is open, or it has become a completed download.
Held(g) ==
    \/ Opened(g)
    \/ pc[g] = "done" /\ progress[g] = "completed"

\* Nothing follows the terminating message, and only a get that has read that
\* message, and by then every chunk, is completed.
CompletedInv ==
    \A g \in Gets :
        /\ session[g] # "none" => pc[g] \notin {"idle", "connect", "request"}
        /\ last[g] # "none" => session[g] = "ended"
        /\ pc[g] \in {"idle", "connect", "request", "open"} => flushed[g] = 0
        /\ progress[g] = "completed" =>
             /\ pc[g] \in {"close", "done"}
             /\ rd[g] = Len(sent[g])
             /\ last[g] = "complete"
             /\ pc[g] = "done" /\ ~bad[g] => flushed[g] = rd[g]

\* Nobody can write the destination of a get that has it for itself.
IsolationInv ==
    \A g, h \in Gets :
        g # h /\ Held(g) /\ sole[g] /\ Opened(h) => dst[g] # dst[h]

\* Such a destination holds the chunks that the get has flushed.
PrefixInv ==
    \A g \in Gets :
        Held(g) /\ sole[g] /\ ~bad[g]
            => disk[dst[g]] = SubSeq(sent[g], 1, flushed[g])

IntactInv == TypeInv /\ CompletedInv /\ IsolationInv /\ PrefixInv

LEMMA CompletedStep == TypeInv /\ CompletedInv /\ [Next]_vars => CompletedInv'
<1> SUFFICES ASSUME TypeInv, CompletedInv, [Next]_vars
             PROVE  CompletedInv'
  OBVIOUS
<1> USE DEF TypeInv, TypeOK, Counters, CompletedInv, threadVars, linkVars,
            streamVars, fileVars, ghostVars
<1>1. ASSUME NEW g \in Gets, NEW p \in Peers, NEW d \in Paths, HandleGet(g, p, d)
      PROVE  CompletedInv'
  BY <1>1 DEF HandleGet
<1>2. ASSUME NEW g \in Gets, Connect(g)
      PROVE  CompletedInv'
  BY <1>2 DEF Connect
<1>3. ASSUME NEW g \in Gets, ConnectFails(g)
      PROVE  CompletedInv'
  BY <1>3 DEF ConnectFails
<1>4. ASSUME NEW g \in Gets, Request(g)
      PROVE  CompletedInv'
  BY <1>4 DEF Request
<1>5. ASSUME NEW g \in Gets, RequestFails(g)
      PROVE  CompletedInv'
  BY <1>5 DEF RequestFails
<1>6. ASSUME NEW g \in Gets, OpenDestination(g)
      PROVE  CompletedInv'
  BY <1>6 DEF OpenDestination
<1>7. ASSUME NEW g \in Gets, OpenDestinationFails(g)
      PROVE  CompletedInv'
  BY <1>7 DEF OpenDestinationFails
<1>8. ASSUME NEW g \in Gets, ReceiveBuffered(g)
      PROVE  CompletedInv'
  BY <1>8 DEF ReceiveBuffered, ChunkReady
<1>9. ASSUME NEW g \in Gets, ReceiveWritten(g)
      PROVE  CompletedInv'
  BY <1>9 DEF ReceiveWritten, ChunkReady
<1>10. ASSUME NEW g \in Gets, ReceiveUnwritten(g)
      PROVE  CompletedInv'
  BY <1>10 DEF ReceiveUnwritten, ChunkReady
<1>11. ASSUME NEW g \in Gets, ReceiveComplete(g)
      PROVE  CompletedInv'
  BY <1>11 DEF ReceiveComplete, LastReady
<1>12. ASSUME NEW g \in Gets, ReceiveError(g)
      PROVE  CompletedInv'
  BY <1>12 DEF ReceiveError, LastReady
<1>13. ASSUME NEW g \in Gets, ReceiveEmpty(g)
      PROVE  CompletedInv'
  BY <1>13 DEF ReceiveEmpty, LastReady
<1>14. ASSUME NEW g \in Gets, ReceiveFails(g)
      PROVE  CompletedInv'
  BY <1>14 DEF ReceiveFails
<1>15. ASSUME NEW g \in Gets, CloseDestination(g)
      PROVE  CompletedInv'
  <2>1. CASE bad[g]
    BY <1>15, <2>1 DEF CloseDestination
  <2>2. CASE ~bad[g]
    <3>1. PICK n \in flushed[g] .. rd[g] :
            /\ flushed' = [flushed EXCEPT ![g] = n]
            /\ bad' = [bad EXCEPT ![g] = n < rd[g]]
      BY <1>15, <2>2 DEF CloseDestination
    <3>2. n \in Nat /\ n <= rd[g] /\ (~bad'[g] => flushed'[g] = rd[g])
      <4>1. n \in Nat /\ n <= rd[g] /\ flushed'[g] = n
        BY <3>1
      <4>2. bad'[g] = (n < rd[g])
        BY <3>1, Zenon
      <4>3. ~bad'[g] => ~(n < rd[g])
        BY <4>2, Zenon
      <4> QED
        BY <4>1, <4>3
    <3>3. /\ UNCHANGED <<progress, session, sent, last, rd>>
          /\ pc' = [pc EXCEPT ![g] = "done"]
          /\ pc[g] = "close"
      BY <1>15 DEF CloseDestination
    <3>4. ASSUME NEW h \in Gets
          PROVE  /\ pc'[h] = "done" /\ ~bad'[h] /\ progress[h] = "completed"
                      => flushed'[h] = rd[h]
                 /\ pc'[h] \in {"idle", "connect", "request", "open"} => flushed'[h] = 0
      BY <3>1, <3>2, <3>3
    <3> QED
      BY <3>3, <3>4
  <2> QED
    BY <2>1, <2>2
<1>16. ASSUME NEW g \in Gets, ServeFile(g)
      PROVE  CompletedInv'
  BY <1>16 DEF ServeFile
<1>17. ASSUME NEW g \in Gets, ServeError(g)
      PROVE  CompletedInv'
  BY <1>17 DEF ServeError
<1>18. ASSUME NEW g \in Gets, SendChunk(g)
      PROVE  CompletedInv'
  BY <1>18 DEF SendChunk
<1>19. ASSUME NEW g \in Gets, SendComplete(g)
      PROVE  CompletedInv'
  BY <1>19 DEF SendComplete
<1>20. ASSUME NEW g \in Gets, SendFails(g)
      PROVE  CompletedInv'
  BY <1>20 DEF SendFails
<1>21. ASSUME NEW g \in Gets, SendEmpty(g)
      PROVE  CompletedInv'
  BY <1>21 DEF SendEmpty
<1>22. ASSUME NEW g \in Gets, LinkBreaks(g)
      PROVE  CompletedInv'
  BY <1>22 DEF LinkBreaks
<1>23. ASSUME NEW p \in Peers, NEW f \in Files, ShareStart(p, f)
      PROVE  CompletedInv'
  BY <1>23 DEF ShareStart
<1>24. ASSUME NEW p \in Peers, ShareCopy(p)
      PROVE  CompletedInv'
  BY <1>24 DEF ShareCopy
<1>25. ASSUME NEW p \in Peers, ShareFails(p)
      PROVE  CompletedInv'
  BY <1>25 DEF ShareFails
<1>26. CASE UNCHANGED vars
  BY <1>26 DEF vars
<1> QED
  BY <1>1, <1>2, <1>3, <1>4, <1>5, <1>6, <1>7, <1>8, <1>9, <1>10, <1>11, <1>12, <1>13, <1>14, <1>15, <1>16, <1>17, <1>18, <1>19, <1>20, <1>21, <1>22, <1>23, <1>24, <1>25, <1>26 DEF Next, GetThread, PeerThread

\* A step that opens no stream and leaves files and chunks alone.
LEMMA QuietStep ==
    ASSUME IsolationInv, PrefixInv,
           UNCHANGED <<dst, disk, sent, flushed, bad, sole>>,
           \A g \in Gets : Held(g)' => Held(g),
           \A g \in Gets : Opened(g)' => Opened(g)
    PROVE  IsolationInv' /\ PrefixInv'
BY DEF IsolationInv, PrefixInv

\* A step of g that writes g's destination on from where it had flushed.
LEMMA WriteStep ==
    ASSUME IntactInv, NEW g \in Gets, Opened(g),
           NEW n \in flushed[g] .. Len(sent[g]),
           UNCHANGED <<dst, sent, sole>>,
           flushed' = [flushed EXCEPT ![g] = n],
           disk' = [disk EXCEPT ![dst[g]] = Write(@, sent[g], flushed[g] + 1, n)],
           \A h \in Gets : ~bad'[h] => ~bad[h] ,
           \A h \in Gets : Held(h)' => Held(h),
           \A h \in Gets : Opened(h)' => Opened(h)
    PROVE  IsolationInv' /\ PrefixInv'
<1> USE DEF IntactInv, TypeInv, TypeOK, Counters
<1>1. IsolationInv'
  BY DEF IsolationInv
<1>2. dst[g] \in Paths
  BY DEF Opened
<1>3. ASSUME NEW h \in Gets, Held(h)', sole'[h], ~bad'[h]
      PROVE  disk'[dst'[h]] = SubSeq(sent'[h], 1, flushed'[h])
  <2>1. /\ Held(h) /\ sole[h] /\ ~bad[h]
        /\ disk[dst[h]] = SubSeq(sent[h], 1, flushed[h])
    BY <1>3 DEF PrefixInv
  <2>2. CASE h = g
    <3>1. Write(SubSeq(sent[g], 1, flushed[g]), sent[g], flushed[g] + 1, n)
            = SubSeq(sent[g], 1, n)
      <4>1. /\ flushed[g] \in Nat /\ sent[g] \in Seq(Blocks)
            /\ Len(sent[g]) \in Nat
        BY LenProperties
      <4>2. n \in Nat /\ flushed[g] <= n /\ n <= Len(sent[g])
        BY <4>1
      <4> QED
        BY <4>1, <4>2, WriteOn
    <3>2. disk'[dst[g]] = Write(disk[dst[g]], sent[g], flushed[g] + 1, n)
      BY <1>2
    <3> QED
      BY <2>1, <2>2, <3>1, <3>2
  <2>3. CASE h # g
    <3>1. dst[h] # dst[g]
      BY <2>1, <2>3 DEF IsolationInv
    <3>2. disk'[dst[h]] = disk[dst[h]]
      <4>1. dst[h] \in Paths
        BY <2>1 DEF Held, Opened
      <4> QED
        BY <3>1, <4>1
    <3>3. flushed'[h] = flushed[h]
      BY <2>3
    <3> QED
      BY <2>1, <3>2, <3>3
  <2> QED
    BY <2>2, <2>3
<1> QED
  BY <1>1, <1>3 DEF PrefixInv

LEMMA IsolationPrefixStep == IntactInv /\ [Next]_vars => IsolationInv' /\ PrefixInv'
<1> SUFFICES ASSUME IntactInv, [Next]_vars
             PROVE  IsolationInv' /\ PrefixInv'
  OBVIOUS
<1> USE DEF threadVars, linkVars, streamVars, fileVars, ghostVars
<1>0. TypeOK /\ Counters /\ CompletedInv /\ IsolationInv /\ PrefixInv
  BY DEF IntactInv, TypeInv
<1>1. ASSUME NEW g \in Gets, NEW p \in Peers, NEW d \in Paths, HandleGet(g, p, d)
      PROVE  IsolationInv' /\ PrefixInv'
  <2>1. \A h \in Gets : Held(h)' => Held(h) /\ h # g
    BY <1>0, <1>1 DEF HandleGet, Held, Opened, TypeOK, CompletedInv
  <2>2. \A h \in Gets : Opened(h)' => Opened(h) /\ h # g
    BY <1>0, <1>1 DEF HandleGet, Opened, TypeOK
  <2>3. \A h \in Gets : h # g => dst'[h] = dst[h]
    BY <1>0, <1>1 DEF HandleGet, TypeOK
  <2> QED
    BY <1>0, <1>1, <2>1, <2>2, <2>3 DEF HandleGet, IsolationInv, PrefixInv
<1>2. ASSUME NEW g \in Gets, Connect(g)
      PROVE  IsolationInv' /\ PrefixInv'
  <2>1. \A h \in Gets : (Held(h)' => Held(h)) /\ (Opened(h)' => Opened(h))
    BY <1>0, <1>2 DEF Connect, Held, Opened, TypeOK
  <2> QED
    BY <1>0, <1>2, <2>1, QuietStep DEF Connect
<1>3. ASSUME NEW g \in Gets, ConnectFails(g)
      PROVE  IsolationInv' /\ PrefixInv'
  <2>1. \A h \in Gets : (Held(h)' => Held(h)) /\ (Opened(h)' => Opened(h))
    BY <1>0, <1>3 DEF ConnectFails, Held, Opened, TypeOK, CompletedInv
  <2> QED
    BY <1>0, <1>3, <2>1, QuietStep DEF ConnectFails
<1>4. ASSUME NEW g \in Gets, Request(g)
      PROVE  IsolationInv' /\ PrefixInv'
  <2>1. \A h \in Gets : (Held(h)' => Held(h)) /\ (Opened(h)' => Opened(h))
    BY <1>0, <1>4 DEF Request, Held, Opened, TypeOK
  <2> QED
    BY <1>0, <1>4, <2>1, QuietStep DEF Request
<1>5. ASSUME NEW g \in Gets, RequestFails(g)
      PROVE  IsolationInv' /\ PrefixInv'
  <2>1. \A h \in Gets : (Held(h)' => Held(h)) /\ (Opened(h)' => Opened(h))
    BY <1>0, <1>5 DEF RequestFails, Held, Opened, TypeOK
  <2> QED
    BY <1>0, <1>5, <2>1, QuietStep DEF RequestFails
<1>6. ASSUME NEW g \in Gets, OpenDestination(g)
      PROVE  IsolationInv' /\ PrefixInv'
  <2>1. /\ pc[g] = "open"
        /\ pc' = [pc EXCEPT ![g] = "receive"]
        /\ disk' = [disk EXCEPT ![dst[g]] = <<>>]
        /\ UNCHANGED <<dst, progress, sent, flushed, bad>>
        /\ dst[g] \in Paths
        /\ flushed[g] = 0
    BY <1>0, <1>6 DEF OpenDestination, TypeOK, CompletedInv
  <2>2. /\ sole'[g] => \A o \in Gets \ {g} : ~(Opened(o) /\ dst[o] = dst[g])
        /\ \A h \in Gets \ {g} : sole'[h] => sole[h] /\ dst[h] # dst[g]
    BY <1>6 DEF OpenDestination
  <2>3. \A h \in Gets \ {g} : (Held(h)' => Held(h)) /\ (Opened(h)' => Opened(h))
    BY <1>0, <2>1 DEF Held, Opened, TypeOK
  <2>4. IsolationInv'
    <3> SUFFICES ASSUME NEW h \in Gets, NEW o \in Gets, h # o,
                        Held(h)', sole'[h], Opened(o)'
                 PROVE  dst[h] # dst[o]
      BY <2>1 DEF IsolationInv
    <3>1. CASE h = g
      BY <2>2, <2>3, <3>1
    <3>2. CASE o = g
      BY <2>2, <3>2
    <3>3. CASE h # g /\ o # g
      BY <1>0, <2>2, <2>3, <3>3 DEF IsolationInv
    <3> QED
      BY <3>1, <3>2, <3>3
  <2>5. PrefixInv'
    <3> SUFFICES ASSUME NEW h \in Gets, Held(h)', sole'[h], ~bad'[h]
                 PROVE  disk'[dst[h]] = SubSeq(sent[h], 1, flushed[h])
      BY <2>1 DEF PrefixInv
    <3>1. CASE h = g
      <4>1. disk'[dst[g]] = <<>>
        BY <1>0, <2>1 DEF TypeOK
      <4>2. SubSeq(sent[g], 1, 0) = <<>>
        BY SubSeqEmpty
      <4> QED
        BY <2>1, <3>1, <4>1, <4>2
    <3>2. CASE h # g
      <4>1. Held(h) /\ sole[h] /\ dst[h] # dst[g] /\ ~bad[h]
        BY <2>1, <2>2, <2>3, <3>2
      <4>2. dst[h] \in Paths
        BY <1>0, <4>1 DEF TypeOK, Held, Opened
      <4>3. disk'[dst[h]] = disk[dst[h]]
        BY <1>0, <2>1, <4>1, <4>2 DEF TypeOK
      <4> QED
        BY <1>0, <4>1, <4>3 DEF PrefixInv
    <3> QED
      BY <3>1, <3>2
  <2> QED
    BY <2>4, <2>5
<1>7. ASSUME NEW g \in Gets, OpenDestinationFails(g)
      PROVE  IsolationInv' /\ PrefixInv'
  <2>1. \A h \in Gets : (Held(h)' => Held(h)) /\ (Opened(h)' => Opened(h))
    BY <1>0, <1>7 DEF OpenDestinationFails, Held, Opened, TypeOK
  <2> QED
    BY <1>0, <1>7, <2>1, QuietStep DEF OpenDestinationFails
<1>8. ASSUME NEW g \in Gets, ReceiveBuffered(g)
      PROVE  IsolationInv' /\ PrefixInv'
  <2>1. \A h \in Gets : (Held(h)' => Held(h)) /\ (Opened(h)' => Opened(h))
    BY <1>0, <1>8 DEF ReceiveBuffered, ChunkReady, Held, Opened, TypeOK
  <2> QED
    BY <1>0, <1>8, <2>1, QuietStep DEF ReceiveBuffered, ChunkReady
<1>9. ASSUME NEW g \in Gets, ReceiveWritten(g)
      PROVE  IsolationInv' /\ PrefixInv'
  <2>1. rd[g] + 1 \in flushed[g] .. Len(sent[g])
    BY <1>0, <1>9, LenProperties DEF ReceiveWritten, ChunkReady, TypeOK, Counters
  <2>2. Opened(g) /\ \A h \in Gets : (Held(h)' => Held(h)) /\ (Opened(h)' => Opened(h))
    BY <1>9 DEF ReceiveWritten, ChunkReady, Held, Opened
  <2> QED
    BY <1>9, <2>1, <2>2, WriteStep DEF ReceiveWritten
<1>10. ASSUME NEW g \in Gets, ReceiveUnwritten(g)
      PROVE  IsolationInv' /\ PrefixInv'
  <2>1. PICK n \in flushed[g] .. rd[g] :
          /\ flushed' = [flushed EXCEPT ![g] = n]
          /\ disk' = [disk EXCEPT ![dst[g]] = Write(@, sent[g], flushed[g] + 1, n)]
    BY <1>10 DEF ReceiveUnwritten
  <2>2. n \in flushed[g] .. Len(sent[g])
    BY <1>0, <2>1, LenProperties DEF TypeOK, Counters
  <2>3. Opened(g) /\ \A h \in Gets : (Held(h)' => Held(h)) /\ (Opened(h)' => Opened(h))
    BY <1>10 DEF ReceiveUnwritten, ChunkReady, Held, Opened
  <2>4. \A h \in Gets : ~bad'[h] => ~bad[h]
    BY <1>0, <1>10 DEF ReceiveUnwritten, TypeOK
  <2> QED
    BY <1>10, <2>1, <2>2, <2>3, <2>4, WriteStep DEF ReceiveUnwritten
<1>11. ASSUME NEW g \in Gets, ReceiveComplete(g)
      PROVE  IsolationInv' /\ PrefixInv'
  <2>1. \A h \in Gets : (Held(h)' => Held(h)) /\ (Opened(h)' => Opened(h))
    <3> TAKE h \in Gets
    <3>1. CASE h = g
      <4>1. pc[g] = "receive"
        BY <1>11 DEF ReceiveComplete, LastReady
      <4> QED
        BY <3>1, <4>1 DEF Held, Opened
    <3>2. CASE h # g
      BY <1>0, <1>11, <3>2 DEF ReceiveComplete, LastReady, Held, Opened, TypeOK
    <3> QED
      BY <3>1, <3>2
  <2> QED
    BY <1>0, <1>11, <2>1, QuietStep DEF ReceiveComplete, LastReady
<1>12. ASSUME NEW g \in Gets, ReceiveError(g)
      PROVE  IsolationInv' /\ PrefixInv'
  <2>1. \A h \in Gets : (Held(h)' => Held(h)) /\ (Opened(h)' => Opened(h))
    BY <1>0, <1>12 DEF ReceiveError, LastReady, Held, Opened, TypeOK
  <2> QED
    BY <1>0, <1>12, <2>1, QuietStep DEF ReceiveError, LastReady
<1>13. ASSUME NEW g \in Gets, ReceiveEmpty(g)
      PROVE  IsolationInv' /\ PrefixInv'
  <2>1. \A h \in Gets : (Held(h)' => Held(h)) /\ (Opened(h)' => Opened(h))
    BY <1>0, <1>13 DEF ReceiveEmpty, LastReady, Held, Opened, TypeOK
  <2> QED
    BY <1>0, <1>13, <2>1, QuietStep DEF ReceiveEmpty, LastReady
<1>14. ASSUME NEW g \in Gets, ReceiveFails(g)
      PROVE  IsolationInv' /\ PrefixInv'
  <2>1. \A h \in Gets : (Held(h)' => Held(h)) /\ (Opened(h)' => Opened(h))
    BY <1>0, <1>14 DEF ReceiveFails, Held, Opened, TypeOK
  <2> QED
    BY <1>0, <1>14, <2>1, QuietStep DEF ReceiveFails
<1>15. ASSUME NEW g \in Gets, CloseDestination(g)
      PROVE  IsolationInv' /\ PrefixInv'
  <2>1. Opened(g) /\ \A h \in Gets : (Held(h)' => Held(h)) /\ (Opened(h)' => Opened(h))
    BY <1>0, <1>15 DEF CloseDestination, Held, Opened, TypeOK
  <2>2. CASE bad[g]
    BY <1>0, <1>15, <2>1, <2>2, QuietStep DEF CloseDestination
  <2>3. CASE ~bad[g]
    <3>1. PICK n \in flushed[g] .. rd[g] :
            /\ flushed' = [flushed EXCEPT ![g] = n]
            /\ bad' = [bad EXCEPT ![g] = n < rd[g]]
            /\ disk' = [disk EXCEPT ![dst[g]] = Write(@, sent[g], flushed[g] + 1, n)]
      BY <1>15, <2>3 DEF CloseDestination
    <3>2. n \in flushed[g] .. Len(sent[g])
      BY <1>0, <3>1, LenProperties DEF TypeOK, Counters
    <3>3. \A h \in Gets : ~bad'[h] => ~bad[h]
      BY <1>0, <2>3, <3>1 DEF TypeOK
    <3> QED
      BY <1>15, <2>1, <3>1, <3>2, <3>3, WriteStep DEF CloseDestination
  <2> QED
    BY <2>2, <2>3
<1>16. ASSUME NEW g \in Gets, ServeFile(g)
      PROVE  IsolationInv' /\ PrefixInv'
  <2>1. \A h \in Gets : (Held(h)' => Held(h)) /\ (Opened(h)' => Opened(h))
    BY <1>0, <1>16 DEF ServeFile, Held, Opened, TypeOK
  <2> QED
    BY <1>0, <1>16, <2>1, QuietStep DEF ServeFile
<1>17. ASSUME NEW g \in Gets, ServeError(g)
      PROVE  IsolationInv' /\ PrefixInv'
  <2>1. \A h \in Gets : (Held(h)' => Held(h)) /\ (Opened(h)' => Opened(h))
    BY <1>0, <1>17 DEF ServeError, Held, Opened, TypeOK
  <2> QED
    BY <1>0, <1>17, <2>1, QuietStep DEF ServeError
<1>18. ASSUME NEW g \in Gets, SendChunk(g)
      PROVE  IsolationInv' /\ PrefixInv'
  <2>1. PICK b \in Blocks : sent' = [sent EXCEPT ![g] = Append(@, b)]
    <3>1. Len(sent[g]) + 1 \in 1 .. Len(content[src[g]])
      BY <1>0, <1>18, LenProperties DEF SendChunk, TypeOK
    <3>2. content[src[g]][Len(sent[g]) + 1] \in Blocks
      BY <1>0, <1>18, <3>1, ElementOfSeq DEF SendChunk, TypeOK
    <3> QED
      BY <1>18, <3>2 DEF SendChunk
  <2>2. UNCHANGED <<pc, dst, progress, disk, flushed, bad, sole>>
    BY <1>18 DEF SendChunk
  <2>3. \A h \in Gets : SubSeq(sent'[h], 1, flushed[h]) = SubSeq(sent[h], 1, flushed[h])
    <3> TAKE h \in Gets
    <3>1. flushed[h] \in Nat /\ flushed[h] <= Len(sent[h])
      BY <1>0, LenProperties DEF TypeOK, Counters
    <3>2. CASE h = g
      <4>1. sent'[h] = Append(sent[h], b)
        BY <1>0, <2>1, <3>2 DEF TypeOK
      <4> QED
        BY <1>0, <3>1, <4>1, PrefixOfAppend DEF TypeOK
    <3>3. CASE h # g
      BY <1>0, <2>1, <3>3 DEF TypeOK
    <3> QED
      BY <3>2, <3>3
  <2> QED
    BY <1>0, <2>2, <2>3 DEF IsolationInv, PrefixInv, Held, Opened
<1>19. ASSUME NEW g \in Gets, SendComplete(g)
      PROVE  IsolationInv' /\ PrefixInv'
  <2>1. \A h \in Gets : (Held(h)' => Held(h)) /\ (Opened(h)' => Opened(h))
    BY <1>0, <1>19 DEF SendComplete, Held, Opened, TypeOK
  <2> QED
    BY <1>0, <1>19, <2>1, QuietStep DEF SendComplete
<1>20. ASSUME NEW g \in Gets, SendFails(g)
      PROVE  IsolationInv' /\ PrefixInv'
  <2>1. \A h \in Gets : (Held(h)' => Held(h)) /\ (Opened(h)' => Opened(h))
    BY <1>0, <1>20 DEF SendFails, Held, Opened, TypeOK
  <2> QED
    BY <1>0, <1>20, <2>1, QuietStep DEF SendFails
<1>21. ASSUME NEW g \in Gets, SendEmpty(g)
      PROVE  IsolationInv' /\ PrefixInv'
  <2>1. \A h \in Gets : (Held(h)' => Held(h)) /\ (Opened(h)' => Opened(h))
    BY <1>0, <1>21 DEF SendEmpty, Held, Opened, TypeOK
  <2> QED
    BY <1>0, <1>21, <2>1, QuietStep DEF SendEmpty
<1>22. ASSUME NEW g \in Gets, LinkBreaks(g)
      PROVE  IsolationInv' /\ PrefixInv'
  <2>1. \A h \in Gets : (Held(h)' => Held(h)) /\ (Opened(h)' => Opened(h))
    BY <1>0, <1>22 DEF LinkBreaks, Held, Opened, TypeOK
  <2> QED
    BY <1>0, <1>22, <2>1, QuietStep DEF LinkBreaks
<1>23. ASSUME NEW p \in Peers, NEW f \in Files, ShareStart(p, f)
      PROVE  IsolationInv' /\ PrefixInv'
  <2>1. \A h \in Gets : (Held(h)' => Held(h)) /\ (Opened(h)' => Opened(h))
    BY <1>0, <1>23 DEF ShareStart, Held, Opened, TypeOK
  <2> QED
    BY <1>0, <1>23, <2>1, QuietStep DEF ShareStart
<1>24. ASSUME NEW p \in Peers, ShareCopy(p)
      PROVE  IsolationInv' /\ PrefixInv'
  <2>1. \A h \in Gets : (Held(h)' => Held(h)) /\ (Opened(h)' => Opened(h))
    BY <1>0, <1>24 DEF ShareCopy, Held, Opened, TypeOK
  <2> QED
    BY <1>0, <1>24, <2>1, QuietStep DEF ShareCopy
<1>25. ASSUME NEW p \in Peers, ShareFails(p)
      PROVE  IsolationInv' /\ PrefixInv'
  <2>1. \A h \in Gets : (Held(h)' => Held(h)) /\ (Opened(h)' => Opened(h))
    BY <1>0, <1>25 DEF ShareFails, Held, Opened, TypeOK
  <2> QED
    BY <1>0, <1>25, <2>1, QuietStep DEF ShareFails
<1>26. CASE UNCHANGED vars
  BY <1>0, <1>26, QuietStep DEF vars, Held, Opened
<1> QED
  BY <1>1, <1>2, <1>3, <1>4, <1>5, <1>6, <1>7, <1>8, <1>9, <1>10, <1>11, <1>12, <1>13, <1>14, <1>15, <1>16, <1>17, <1>18, <1>19, <1>20, <1>21, <1>22, <1>23, <1>24, <1>25, <1>26 DEF Next, GetThread, PeerThread

\* Whatever other gets, peers and the network do, a completed download whose
\* writes succeeded and whose path nobody else opened is what was sent.
THEOREM CompletedIsIntact == Spec => []IntactIfAlone
<1>1. Init => IntactInv
  <2>1. Init => TypeInv
    BY TypeInit
  <2>2. Init => CompletedInv /\ IsolationInv /\ PrefixInv
    BY DEF Init, CompletedInv, IsolationInv, PrefixInv, Held, Opened
  <2> QED
    BY <2>1, <2>2 DEF IntactInv
<1>2. IntactInv /\ [Next]_vars => IntactInv'
  BY TypeStep, CompletedStep, IsolationPrefixStep DEF IntactInv
<1>3. IntactInv => IntactIfAlone
  <2> SUFFICES ASSUME IntactInv, NEW g \in Gets, pc[g] = "done",
                      progress[g] = "completed", sole[g], ~bad[g]
               PROVE  disk[dst[g]] = sent[g]
    BY DEF IntactIfAlone
  <2>1. flushed[g] = Len(sent[g])
    BY DEF IntactInv, CompletedInv
  <2>2. disk[dst[g]] = SubSeq(sent[g], 1, flushed[g])
    BY DEF IntactInv, PrefixInv, Held
  <2>3. sent[g] \in Seq(Blocks)
    BY DEF IntactInv, TypeInv, TypeOK
  <2> QED
    BY <2>1, <2>2, <2>3, SubSeqFull
<1> QED
  BY <1>1, <1>2, <1>3, PTL DEF Spec
=============================================================================
