--------------------------- MODULE DeliveryProofs ---------------------------
(***************************************************************************)
(* More proofs about Download: whose blocks a destination holds when gets  *)
(* share it, what a completed download is a copy of, and that Download     *)
(* implements Delivery.                                                    *)
(***************************************************************************)
EXTENDS DownloadProofs

-----------------------------------------------------------------------------
(* Inductive invariants *)

\* Nothing is received before the destination is open, and nothing is sent
\* before the peer has the file open.
EarlyInv ==
    \A g \in Gets :
        /\ pc[g] \in {"idle", "connect", "request", "open"} => rd[g] = 0
        /\ session[g] \in {"none", "requested"} => sent[g] = <<>>

\* While the peer sends and nobody shared the file again, the file is what it
\* was when the peer opened it, and the chunks are its beginning; when the peer
\* has said that this is all, they are all of it.
SourceOf(g) ==
    /\ session[g] = "sending" =>
         /\ content[src[g]] = snapshot[g] /\ copying[src[g]] = <<>>
         /\ Len(sent[g]) <= Len(snapshot[g])
         /\ \A i \in 1 .. Len(sent[g]) : sent[g][i] = snapshot[g][i]
    /\ session[g] = "ended" /\ last[g] = "complete" => sent[g] = snapshot[g]

SourceInv == \A g \in Gets : clean[g] => SourceOf(g)

CopyInv == TypeInv /\ CompletedInv /\ EarlyInv

LEMMA EarlyStep == TypeInv /\ CompletedInv /\ EarlyInv /\ [Next]_vars => EarlyInv'
<1> SUFFICES ASSUME TypeInv, CompletedInv, EarlyInv, [Next]_vars
             PROVE  EarlyInv'
  OBVIOUS
<1> USE DEF TypeInv, TypeOK, CompletedInv, EarlyInv, threadVars, linkVars, streamVars,
            fileVars, ghostVars
<1>1. ASSUME NEW g \in Gets, NEW p \in Peers, NEW d \in Paths, HandleGet(g, p, d)
      PROVE  EarlyInv'
  BY <1>1 DEF HandleGet
<1>2. ASSUME NEW g \in Gets, Connect(g)
      PROVE  EarlyInv'
  BY <1>2 DEF Connect
<1>3. ASSUME NEW g \in Gets, ConnectFails(g)
      PROVE  EarlyInv'
  BY <1>3 DEF ConnectFails
<1>4. ASSUME NEW g \in Gets, Request(g)
      PROVE  EarlyInv'
  BY <1>4 DEF Request
<1>5. ASSUME NEW g \in Gets, RequestFails(g)
      PROVE  EarlyInv'
  BY <1>5 DEF RequestFails
<1>6. ASSUME NEW g \in Gets, OpenDestination(g)
      PROVE  EarlyInv'
  BY <1>6 DEF OpenDestination
<1>7. ASSUME NEW g \in Gets, OpenDestinationFails(g)
      PROVE  EarlyInv'
  BY <1>7 DEF OpenDestinationFails
<1>8. ASSUME NEW g \in Gets, ReceiveBuffered(g)
      PROVE  EarlyInv'
  BY <1>8 DEF ReceiveBuffered, ChunkReady
<1>9. ASSUME NEW g \in Gets, ReceiveWritten(g)
      PROVE  EarlyInv'
  BY <1>9 DEF ReceiveWritten, ChunkReady
<1>10. ASSUME NEW g \in Gets, ReceiveUnwritten(g)
      PROVE  EarlyInv'
  BY <1>10 DEF ReceiveUnwritten, ChunkReady
<1>11. ASSUME NEW g \in Gets, ReceiveComplete(g)
      PROVE  EarlyInv'
  BY <1>11 DEF ReceiveComplete, LastReady
<1>12. ASSUME NEW g \in Gets, ReceiveError(g)
      PROVE  EarlyInv'
  BY <1>12 DEF ReceiveError, LastReady
<1>13. ASSUME NEW g \in Gets, ReceiveEmpty(g)
      PROVE  EarlyInv'
  BY <1>13 DEF ReceiveEmpty, LastReady
<1>14. ASSUME NEW g \in Gets, ReceiveFails(g)
      PROVE  EarlyInv'
  BY <1>14 DEF ReceiveFails
<1>15. ASSUME NEW g \in Gets, CloseDestination(g)
      PROVE  EarlyInv'
  BY <1>15 DEF CloseDestination
<1>16. ASSUME NEW g \in Gets, ServeFile(g)
      PROVE  EarlyInv'
  BY <1>16 DEF ServeFile
<1>17. ASSUME NEW g \in Gets, ServeError(g)
      PROVE  EarlyInv'
  BY <1>17 DEF ServeError
<1>18. ASSUME NEW g \in Gets, SendChunk(g)
      PROVE  EarlyInv'
  BY <1>18 DEF SendChunk
<1>19. ASSUME NEW g \in Gets, SendComplete(g)
      PROVE  EarlyInv'
  BY <1>19 DEF SendComplete
<1>20. ASSUME NEW g \in Gets, SendFails(g)
      PROVE  EarlyInv'
  BY <1>20 DEF SendFails
<1>21. ASSUME NEW g \in Gets, SendEmpty(g)
      PROVE  EarlyInv'
  BY <1>21 DEF SendEmpty
<1>22. ASSUME NEW g \in Gets, LinkBreaks(g)
      PROVE  EarlyInv'
  BY <1>22 DEF LinkBreaks
<1>23. ASSUME NEW p \in Peers, NEW f \in Files, ShareStart(p, f)
      PROVE  EarlyInv'
  BY <1>23 DEF ShareStart
<1>24. ASSUME NEW p \in Peers, ShareCopy(p)
      PROVE  EarlyInv'
  BY <1>24 DEF ShareCopy
<1>25. ASSUME NEW p \in Peers, ShareFails(p)
      PROVE  EarlyInv'
  BY <1>25 DEF ShareFails
<1>26. CASE UNCHANGED vars
  BY <1>26 DEF vars
<1> QED
  BY <1>1, <1>2, <1>3, <1>4, <1>5, <1>6, <1>7, <1>8, <1>9, <1>10, <1>11,
     <1>12, <1>13, <1>14, <1>15, <1>16, <1>17, <1>18, <1>19, <1>20, <1>21,
     <1>22, <1>23, <1>24, <1>25, <1>26 DEF Next, GetThread, PeerThread

LEMMA CopyInit == Init => CopyInv
BY TypeInit DEF Init, CopyInv, CompletedInv, EarlyInv

LEMMA CopyStep == CopyInv /\ [Next]_vars => CopyInv'
BY TypeStep, CompletedStep, EarlyStep DEF CopyInv

-----------------------------------------------------------------------------
(* What a completed download is a copy of *)

LEMMA SourceStep == CopyInv /\ SourceInv /\ [Next]_vars => SourceInv'
<1> SUFFICES ASSUME CopyInv, SourceInv, [Next]_vars
             PROVE  SourceInv'
  OBVIOUS
<1> USE DEF CopyInv, TypeInv, TypeOK, CompletedInv, EarlyInv, SourceInv, SourceOf,
            threadVars, linkVars, streamVars,
            fileVars, ghostVars
<1>1. ASSUME NEW g \in Gets, NEW p \in Peers, NEW d \in Paths, HandleGet(g, p, d)
      PROVE  SourceInv'
  BY <1>1 DEF HandleGet
<1>2. ASSUME NEW g \in Gets, Connect(g)
      PROVE  SourceInv'
  BY <1>2 DEF Connect
<1>3. ASSUME NEW g \in Gets, ConnectFails(g)
      PROVE  SourceInv'
  BY <1>3 DEF ConnectFails
<1>4. ASSUME NEW g \in Gets, Request(g)
      PROVE  SourceInv'
  BY <1>4 DEF Request
<1>5. ASSUME NEW g \in Gets, RequestFails(g)
      PROVE  SourceInv'
  BY <1>5 DEF RequestFails
<1>6. ASSUME NEW g \in Gets, OpenDestination(g)
      PROVE  SourceInv'
  BY <1>6 DEF OpenDestination
<1>7. ASSUME NEW g \in Gets, OpenDestinationFails(g)
      PROVE  SourceInv'
  BY <1>7 DEF OpenDestinationFails
<1>8. ASSUME NEW g \in Gets, ReceiveBuffered(g)
      PROVE  SourceInv'
  BY <1>8 DEF ReceiveBuffered, ChunkReady
<1>9. ASSUME NEW g \in Gets, ReceiveWritten(g)
      PROVE  SourceInv'
  BY <1>9 DEF ReceiveWritten, ChunkReady
<1>10. ASSUME NEW g \in Gets, ReceiveUnwritten(g)
      PROVE  SourceInv'
  BY <1>10 DEF ReceiveUnwritten, ChunkReady
<1>11. ASSUME NEW g \in Gets, ReceiveComplete(g)
      PROVE  SourceInv'
  BY <1>11 DEF ReceiveComplete, LastReady
<1>12. ASSUME NEW g \in Gets, ReceiveError(g)
      PROVE  SourceInv'
  BY <1>12 DEF ReceiveError, LastReady
<1>13. ASSUME NEW g \in Gets, ReceiveEmpty(g)
      PROVE  SourceInv'
  BY <1>13 DEF ReceiveEmpty, LastReady
<1>14. ASSUME NEW g \in Gets, ReceiveFails(g)
      PROVE  SourceInv'
  BY <1>14 DEF ReceiveFails
<1>15. ASSUME NEW g \in Gets, CloseDestination(g)
      PROVE  SourceInv'
  BY <1>15 DEF CloseDestination
<1>16. ASSUME NEW g \in Gets, ServeFile(g)
      PROVE  SourceInv'
  <2>1. /\ UNCHANGED <<src, sent, last, content, copying>>
        /\ session[g] = "requested" /\ sent[g] = <<>>
        /\ \A h \in Gets \ {g} : /\ clean'[h] = clean[h] /\ snapshot'[h] = snapshot[h]
                                /\ session'[h] = session[h]
    <3>1. UNCHANGED <<src, sent, last, content, copying>> /\ session[g] = "requested"
      BY <1>16 DEF ServeFile
    <3>2. sent[g] = <<>>
      BY <3>1
    <3>3. ASSUME NEW h \in Gets \ {g}
          PROVE  /\ clean'[h] = clean[h] /\ snapshot'[h] = snapshot[h]
                 /\ session'[h] = session[h]
      BY <1>16 DEF ServeFile
    <3> QED
      BY <3>1, <3>2, <3>3
  <2>2. /\ session'[g] = "sending" /\ snapshot'[g] = content[src[g]]
        /\ clean'[g] => copying[src[g]] = <<>>
    <3>1. session'[g] = "sending"
      BY <1>16 DEF ServeFile
    <3>2. snapshot'[g] = content[src[g]]
      BY <1>16 DEF ServeFile
    <3>3. clean'[g] => copying[src[g]] = <<>>
      <4>1. g \in DOMAIN clean /\ clean' = [clean EXCEPT ![g] = copying[src[g]] = <<>>]
        BY <1>16 DEF ServeFile
      <4> QED
        BY <4>1, Zenon
    <3> QED
      BY <3>1, <3>2, <3>3
  <2>3. Len(sent[g]) = 0 /\ Len(snapshot'[g]) \in Nat
    BY <1>16, <2>1, <2>2, EmptySeq, LenProperties DEF ServeFile
  <2>4. last[g] # "complete"
    BY <2>1
  <2>5. \A i : i \notin 1 .. Len(sent[g])
    BY <2>3
  <2> SUFFICES ASSUME NEW h \in Gets, clean'[h]
               PROVE  SourceOf(h)'
    OBVIOUS
  <2>6. CASE h = g
    <3>1. /\ content'[src'[g]] = snapshot'[g] /\ copying'[src'[g]] = <<>>
      BY <2>1, <2>2, <2>6
    <3>2. Len(sent'[g]) <= Len(snapshot'[g]) /\ \A i : i \notin 1 .. Len(sent'[g])
      BY <2>1, <2>3, <2>5
    <3> QED
      BY <2>1, <2>2, <2>4, <2>6, <3>1, <3>2 DEF SourceOf
  <2>7. CASE h # g
    <3>1. /\ clean[h] /\ snapshot'[h] = snapshot[h] /\ session'[h] = session[h]
      BY <2>1, <2>7
    <3>2. SourceOf(h)
      BY <3>1 DEF SourceOf
    <3> QED
      BY <2>1, <3>1, <3>2 DEF SourceOf
  <2> QED
    BY <2>6, <2>7
<1>17. ASSUME NEW g \in Gets, ServeError(g)
      PROVE  SourceInv'
  BY <1>17 DEF ServeError
<1>18. ASSUME NEW g \in Gets, SendChunk(g)
      PROVE  SourceInv'
  BY <1>18 DEF SendChunk
<1>19. ASSUME NEW g \in Gets, SendComplete(g)
      PROVE  SourceInv'
  <2>1. /\ UNCHANGED <<src, sent, content, copying, snapshot>>
        /\ \A h \in Gets \ {g} : /\ clean'[h] = clean[h] /\ last'[h] = last[h]
                                /\ session'[h] = session[h]
    <3>1. UNCHANGED <<src, sent, content, copying, snapshot>>
      BY <1>19 DEF SendComplete
    <3>2. ASSUME NEW h \in Gets \ {g}
          PROVE  clean'[h] = clean[h] /\ last'[h] = last[h] /\ session'[h] = session[h]
      BY <1>19 DEF SendComplete
    <3> QED
      BY <3>1, <3>2
  <2>2. /\ session[g] = "sending" /\ session'[g] = "ended"
        /\ clean'[g] => clean[g] /\ Len(sent[g]) >= Len(content[src[g]])
    <3>1. session[g] = "sending" /\ session'[g] = "ended"
      BY <1>19 DEF SendComplete
    <3>2. clean'[g] => clean[g] /\ Len(sent[g]) >= Len(content[src[g]])
      <4>1. /\ g \in DOMAIN clean
            /\ clean' = [clean EXCEPT ![g] = @ /\ Len(sent[g]) >= Len(content[src[g]])]
        BY <1>19 DEF SendComplete
      <4> QED
        BY <4>1, Zenon
    <3> QED
      BY <3>1, <3>2
  <2>3. ASSUME clean'[g]
        PROVE  sent[g] = snapshot[g]
    <3>1. /\ Len(sent[g]) <= Len(snapshot[g]) /\ Len(sent[g]) >= Len(snapshot[g])
          /\ \A i \in 1 .. Len(sent[g]) : sent[g][i] = snapshot[g][i]
      BY <2>2, <2>3
    <3>2. /\ sent[g] \in Seq(Blocks) /\ snapshot[g] \in Seq(Blocks)
          /\ Len(sent[g]) \in Nat /\ Len(snapshot[g]) \in Nat
      BY LenProperties
    <3> QED
      BY <3>1, <3>2, SeqEqual
  <2> SUFFICES ASSUME NEW h \in Gets, clean'[h]
               PROVE  SourceOf(h)'
    OBVIOUS
  <2>4. CASE h = g
    BY <2>1, <2>2, <2>3, <2>4 DEF SourceOf
  <2>5. CASE h # g
    <3>1. clean[h] /\ last'[h] = last[h] /\ session'[h] = session[h]
      BY <2>1, <2>5
    <3>2. SourceOf(h)
      BY <3>1 DEF SourceOf
    <3> QED
      BY <2>1, <3>1, <3>2 DEF SourceOf
  <2> QED
    BY <2>4, <2>5
<1>20. ASSUME NEW g \in Gets, SendFails(g)
      PROVE  SourceInv'
  BY <1>20 DEF SendFails
<1>21. ASSUME NEW g \in Gets, SendEmpty(g)
      PROVE  SourceInv'
  BY <1>21 DEF SendEmpty
<1>22. ASSUME NEW g \in Gets, LinkBreaks(g)
      PROVE  SourceInv'
  BY <1>22 DEF LinkBreaks
<1>23. ASSUME NEW p \in Peers, NEW f \in Files, ShareStart(p, f)
      PROVE  SourceInv'
  <2>1. /\ UNCHANGED <<src, sent, last, session, snapshot>>
        /\ \A q \in Peers \ {p} : content'[q] = content[q] /\ copying'[q] = copying[q]
    BY <1>23 DEF ShareStart
  <2>2. \A h \in Gets : clean'[h] => clean[h] /\ ~(src[h] = p /\ session[h] = "sending")
    BY <1>23 DEF ShareStart
  <2> QED
    BY <2>1, <2>2
<1>24. ASSUME NEW p \in Peers, ShareCopy(p)
      PROVE  SourceInv'
  BY <1>24 DEF ShareCopy
<1>25. ASSUME NEW p \in Peers, ShareFails(p)
      PROVE  SourceInv'
  BY <1>25 DEF ShareFails
<1>26. CASE UNCHANGED vars
  BY <1>26 DEF vars
<1> QED
  BY <1>1, <1>2, <1>3, <1>4, <1>5, <1>6, <1>7, <1>8, <1>9, <1>10, <1>11,
     <1>12, <1>13, <1>14, <1>15, <1>16, <1>17, <1>18, <1>19, <1>20, <1>21,
     <1>22, <1>23, <1>24, <1>25, <1>26 DEF Next, GetThread, PeerThread

\* A completed download holds the file as it was when the peer opened it,
\* unless the file was shared again meanwhile or could not be read to its end.
THEOREM SnapshotCorrect == Spec => []SnapshotIfClean
<1>1. Init => CopyInv /\ SourceInv
  BY CopyInit DEF Init, SourceInv, SourceOf
<1>2. CopyInv /\ SourceInv /\ [Next]_vars => (CopyInv /\ SourceInv)'
  BY CopyStep, SourceStep
<1>3. CopyInv /\ SourceInv => SnapshotIfClean
  <2> SUFFICES ASSUME CopyInv, SourceInv, NEW g \in Gets,
                      progress[g] = "completed", clean[g]
               PROVE  SubSeq(sent[g], 1, rd[g]) = snapshot[g]
    BY DEF SnapshotIfClean
  <2>1. rd[g] = Len(sent[g]) /\ last[g] = "complete" /\ session[g] = "ended"
    BY DEF CopyInv, CompletedInv
  <2>2. sent[g] = snapshot[g]
    BY <2>1 DEF SourceInv, SourceOf
  <2>3. sent[g] \in Seq(Blocks)
    BY DEF CopyInv, TypeInv, TypeOK
  <2> QED
    BY <2>1, <2>2, <2>3, SubSeqFull
<1> QED
  BY <1>1, <1>2, <1>3, PTL DEF Spec

-----------------------------------------------------------------------------
(* Whose blocks a destination holds *)

\* A step that writes nothing, and takes nothing back of what was received.
LEMMA ReceivedQuiet ==
    ASSUME OnlyReceivedBlocks, disk' = disk, dst' = dst, sent' = sent,
           \A h \in Gets : \A i \in Nat : i <= rd[h] => i <= rd'[h],
           disk \in [Paths -> Seq(BlocksOrHoles)]
    PROVE  OnlyReceivedBlocks'
<1> SUFFICES ASSUME NEW d \in Paths, NEW i \in 1 .. Len(disk[d]), disk[d][i] # Hole
             PROVE  \E g \in Gets :
                      dst[g] = d /\ i <= rd'[g] /\ disk[d][i] = sent[g][i]
  BY DEF OnlyReceivedBlocks
<1>1. i \in Nat
  BY LenProperties
<1>2. PICK g \in Gets : dst[g] = d /\ i <= rd[g] /\ disk[d][i] = sent[g][i]
  BY DEF OnlyReceivedBlocks
<1> QED
  BY <1>1, <1>2

\* A write of received blocks.
LEMMA ReceivedWrite ==
    ASSUME CopyInv, OnlyReceivedBlocks, NEW g \in Gets, dst[g] \in Paths,
           NEW n \in Nat, n <= Len(sent[g]), rd'[g] \in Nat, n <= rd'[g],
           disk' = [disk EXCEPT ![dst[g]] = Write(@, sent[g], flushed[g] + 1, n)],
           dst' = dst, sent' = sent,
           \A h \in Gets : \A i \in Nat : i <= rd[h] => i <= rd'[h]
    PROVE  OnlyReceivedBlocks'
<1> DEFINE d0 == dst[g]
           w  == Write(disk[d0], sent[g], flushed[g] + 1, n)
<1>1. /\ disk[d0] \in Seq(BlocksOrHoles)
      /\ disk \in [Paths -> Seq(BlocksOrHoles)]
      /\ sent[g] \in Seq(Blocks)
      /\ flushed[g] + 1 \in Nat \ {0}
  BY DEF CopyInv, TypeInv, TypeOK
<1>2. w \in Seq(BlocksOrHoles)
  BY <1>1, WriteType
<1>3. /\ disk'[d0] = w
      /\ \A d \in Paths : d # d0 => disk'[d] = disk[d]
  BY <1>1
<1>4. SUFFICES ASSUME NEW d \in Paths, NEW i \in 1 .. Len(disk'[d]), disk'[d][i] # Hole
               PROVE  \E h \in Gets :
                        dst[h] = d /\ i <= rd'[h] /\ disk'[d][i] = sent[h][i]
  BY DEF OnlyReceivedBlocks
<1>5. ASSUME i \in 1 .. Len(disk[d]), disk'[d][i] = disk[d][i]
      PROVE  \E h \in Gets : dst[h] = d /\ i <= rd'[h] /\ disk'[d][i] = sent[h][i]
  <2>1. PICK h \in Gets : dst[h] = d /\ i <= rd[h] /\ disk[d][i] = sent[h][i]
    BY <1>4, <1>5 DEF OnlyReceivedBlocks
  <2>2. i \in Nat
    BY <1>1, <1>5, LenProperties
  <2> QED
    BY <1>5, <2>1, <2>2
<1>6. CASE d # d0
  BY <1>3, <1>4, <1>5, <1>6
<1>7. CASE d = d0
  <2>1. i \in 1 .. Len(w) /\ w[i] # Hole
    BY <1>3, <1>4, <1>7
  <2>2. \/ i \in flushed[g] + 1 .. n /\ w[i] = sent[g][i]
        \/ i \in 1 .. Len(disk[d0]) /\ w[i] = disk[d0][i]
    BY <1>1, <2>1, WriteBlocks
  <2>3. CASE i \in flushed[g] + 1 .. n /\ w[i] = sent[g][i]
    <3>1. i <= rd'[g]
      BY <1>1, <2>3
    <3> QED
      BY <1>3, <1>7, <2>3, <3>1
  <2>4. CASE i \in 1 .. Len(disk[d0]) /\ w[i] = disk[d0][i]
    BY <1>3, <1>5, <1>7, <2>4
  <2> QED
    BY <2>2, <2>3, <2>4
<1> QED
  BY <1>6, <1>7

LEMMA ReceivedStep == CopyInv /\ OnlyReceivedBlocks /\ [Next]_vars => OnlyReceivedBlocks'
<1> SUFFICES ASSUME CopyInv, OnlyReceivedBlocks, [Next]_vars
             PROVE  OnlyReceivedBlocks'
  OBVIOUS
<1> USE DEF CopyInv, threadVars, linkVars, streamVars,
            fileVars, ghostVars
<1>1. ASSUME NEW g \in Gets, NEW p \in Peers, NEW d \in Paths, HandleGet(g, p, d)
      PROVE  OnlyReceivedBlocks'
  <2>1. /\ disk' = disk /\ sent' = sent /\ rd' = rd
        /\ dst' = [dst EXCEPT ![g] = d]
    BY <1>1 DEF HandleGet
  <2>2. rd[g] = 0
    BY <1>1 DEF HandleGet, EarlyInv
  <2>3. SUFFICES ASSUME NEW e \in Paths, NEW i \in 1 .. Len(disk[e]), disk[e][i] # Hole
                 PROVE  \E h \in Gets :
                          dst'[h] = e /\ i <= rd[h] /\ disk[e][i] = sent[h][i]
    BY <2>1 DEF OnlyReceivedBlocks
  <2>4. PICK h \in Gets : dst[h] = e /\ i <= rd[h] /\ disk[e][i] = sent[h][i]
    BY <2>3 DEF OnlyReceivedBlocks
  <2>5. h # g
    BY <2>2, <2>4, LenProperties DEF TypeInv, TypeOK
  <2>6. dst'[h] = e
    BY <2>1, <2>4, <2>5 DEF TypeInv, TypeOK
  <2> QED
    BY <2>4, <2>6
<1>2. ASSUME NEW g \in Gets, Connect(g)
      PROVE  OnlyReceivedBlocks'
  <2>1. disk' = disk /\ dst' = dst /\ sent' = sent /\ rd' = rd
    BY <1>2 DEF Connect
  <2> QED
    BY <2>1, ReceivedQuiet DEF TypeInv, TypeOK
<1>3. ASSUME NEW g \in Gets, ConnectFails(g)
      PROVE  OnlyReceivedBlocks'
  <2>1. disk' = disk /\ dst' = dst /\ sent' = sent /\ rd' = rd
    BY <1>3 DEF ConnectFails
  <2> QED
    BY <2>1, ReceivedQuiet DEF TypeInv, TypeOK
<1>4. ASSUME NEW g \in Gets, Request(g)
      PROVE  OnlyReceivedBlocks'
  <2>1. disk' = disk /\ dst' = dst /\ sent' = sent /\ rd' = rd
    BY <1>4 DEF Request
  <2> QED
    BY <2>1, ReceivedQuiet DEF TypeInv, TypeOK
<1>5. ASSUME NEW g \in Gets, RequestFails(g)
      PROVE  OnlyReceivedBlocks'
  <2>1. disk' = disk /\ dst' = dst /\ sent' = sent /\ rd' = rd
    BY <1>5 DEF RequestFails
  <2> QED
    BY <2>1, ReceivedQuiet DEF TypeInv, TypeOK
<1>6. ASSUME NEW g \in Gets, OpenDestination(g)
      PROVE  OnlyReceivedBlocks'
  <2>1. /\ dst' = dst /\ sent' = sent /\ rd' = rd
        /\ disk' = [disk EXCEPT ![dst[g]] = <<>>]
    BY <1>6 DEF OpenDestination
  <2>2. \A d \in Paths : disk'[d] = disk[d] \/ disk'[d] = <<>>
    BY <2>1 DEF TypeInv, TypeOK
  <2>3. \A i : i \notin 1 .. Len(<<>>)
    OBVIOUS
  <2> QED
    BY <2>1, <2>2, <2>3 DEF OnlyReceivedBlocks
<1>7. ASSUME NEW g \in Gets, OpenDestinationFails(g)
      PROVE  OnlyReceivedBlocks'
  <2>1. disk' = disk /\ dst' = dst /\ sent' = sent /\ rd' = rd
    BY <1>7 DEF OpenDestinationFails
  <2> QED
    BY <2>1, ReceivedQuiet DEF TypeInv, TypeOK
<1>8. ASSUME NEW g \in Gets, ReceiveBuffered(g)
      PROVE  OnlyReceivedBlocks'
  <2>1. disk' = disk /\ dst' = dst /\ sent' = sent
    BY <1>8 DEF ReceiveBuffered
  <2>2. \A h \in Gets : \A i \in Nat : i <= rd[h] => i <= rd'[h]
    BY <1>8 DEF ReceiveBuffered, TypeInv, TypeOK
  <2> QED
    BY <2>1, <2>2, ReceivedQuiet DEF TypeInv, TypeOK
<1>9. ASSUME NEW g \in Gets, ReceiveWritten(g)
      PROVE  OnlyReceivedBlocks'
  <2>1. /\ dst[g] \in Paths
        /\ rd[g] + 1 \in Nat
        /\ rd[g] + 1 <= Len(sent[g])
        /\ rd'[g] = rd[g] + 1 /\ rd'[g] \in Nat /\ rd[g] + 1 <= rd'[g]
    BY <1>9, LenProperties DEF ReceiveWritten, ChunkReady, TypeInv, TypeOK
  <2>2. \A h \in Gets : \A i \in Nat : i <= rd[h] => i <= rd'[h]
    BY <1>9 DEF ReceiveWritten, TypeInv, TypeOK
  <2>3. /\ disk' = [disk EXCEPT ![dst[g]] = Write(disk[dst[g]], sent[g], flushed[g] + 1, rd[g] + 1)]
        /\ dst' = dst /\ sent' = sent
    BY <1>9 DEF ReceiveWritten
  <2> QED
    BY <2>1, <2>2, <2>3, ReceivedWrite
<1>10. ASSUME NEW g \in Gets, ReceiveUnwritten(g)
      PROVE  OnlyReceivedBlocks'
  <2>1. /\ dst[g] \in Paths
        /\ rd[g] \in Nat /\ rd'[g] = rd[g] + 1 /\ rd'[g] \in Nat
        /\ rd[g] <= Len(sent[g])
    BY <1>10, LenProperties DEF ReceiveUnwritten, ChunkReady, TypeInv, TypeOK, Counters
  <2>2. \A h \in Gets : \A i \in Nat : i <= rd[h] => i <= rd'[h]
    BY <1>10 DEF ReceiveUnwritten, TypeInv, TypeOK
  <2>3. PICK n \in flushed[g] .. rd[g] :
          disk' = [disk EXCEPT ![dst[g]] = Write(disk[dst[g]], sent[g], flushed[g] + 1, n)]
    BY <1>10 DEF ReceiveUnwritten
  <2>4. dst' = dst /\ sent' = sent
    BY <1>10 DEF ReceiveUnwritten
  <2>5. n \in Nat /\ n <= Len(sent[g]) /\ n <= rd'[g]
    <3>1. flushed[g] \in Nat /\ Len(sent[g]) \in Nat
      BY LenProperties DEF TypeInv, TypeOK
    <3> QED
      BY <2>1, <2>3, <3>1
  <2> QED
    BY <2>1, <2>2, <2>3, <2>4, <2>5, ReceivedWrite
<1>11. ASSUME NEW g \in Gets, ReceiveComplete(g)
      PROVE  OnlyReceivedBlocks'
  <2>1. disk' = disk /\ dst' = dst /\ sent' = sent /\ rd' = rd
    BY <1>11 DEF ReceiveComplete
  <2> QED
    BY <2>1, ReceivedQuiet DEF TypeInv, TypeOK
<1>12. ASSUME NEW g \in Gets, ReceiveError(g)
      PROVE  OnlyReceivedBlocks'
  <2>1. disk' = disk /\ dst' = dst /\ sent' = sent /\ rd' = rd
    BY <1>12 DEF ReceiveError
  <2> QED
    BY <2>1, ReceivedQuiet DEF TypeInv, TypeOK
<1>13. ASSUME NEW g \in Gets, ReceiveEmpty(g)
      PROVE  OnlyReceivedBlocks'
  <2>1. disk' = disk /\ dst' = dst /\ sent' = sent /\ rd' = rd
    BY <1>13 DEF ReceiveEmpty
  <2> QED
    BY <2>1, ReceivedQuiet DEF TypeInv, TypeOK
<1>14. ASSUME NEW g \in Gets, ReceiveFails(g)
      PROVE  OnlyReceivedBlocks'
  <2>1. disk' = disk /\ dst' = dst /\ sent' = sent /\ rd' = rd
    BY <1>14 DEF ReceiveFails
  <2> QED
    BY <2>1, ReceivedQuiet DEF TypeInv, TypeOK
<1>15. ASSUME NEW g \in Gets, CloseDestination(g)
      PROVE  OnlyReceivedBlocks'
  <2>1. dst' = dst /\ sent' = sent /\ rd' = rd
    BY <1>15 DEF CloseDestination
  <2>2. CASE bad[g]
    BY <1>15, <2>1, <2>2, ReceivedQuiet DEF CloseDestination, TypeInv, TypeOK
  <2>3. CASE ~bad[g]
    <3>1. PICK n \in flushed[g] .. rd[g] :
            disk' = [disk EXCEPT ![dst[g]] = Write(disk[dst[g]], sent[g], flushed[g] + 1, n)]
      BY <1>15, <2>3 DEF CloseDestination
    <3>2. /\ dst[g] \in Paths /\ rd[g] \in Nat /\ flushed[g] \in Nat
          /\ Len(sent[g]) \in Nat /\ rd[g] <= Len(sent[g])
      BY <1>15, LenProperties DEF CloseDestination, TypeInv, TypeOK, Counters
    <3>3. n \in Nat /\ n <= Len(sent[g]) /\ n <= rd'[g] /\ rd'[g] \in Nat
      BY <2>1, <3>1, <3>2
    <3> QED
      BY <2>1, <3>1, <3>2, <3>3, ReceivedWrite
  <2> QED
    BY <2>2, <2>3
<1>16. ASSUME NEW g \in Gets, ServeFile(g)
      PROVE  OnlyReceivedBlocks'
  <2>1. disk' = disk /\ dst' = dst /\ sent' = sent /\ rd' = rd
    BY <1>16 DEF ServeFile
  <2> QED
    BY <2>1, ReceivedQuiet DEF TypeInv, TypeOK
<1>17. ASSUME NEW g \in Gets, ServeError(g)
      PROVE  OnlyReceivedBlocks'
  <2>1. disk' = disk /\ dst' = dst /\ sent' = sent /\ rd' = rd
    BY <1>17 DEF ServeError
  <2> QED
    BY <2>1, ReceivedQuiet DEF TypeInv, TypeOK
<1>18. ASSUME NEW g \in Gets, SendChunk(g)
      PROVE  OnlyReceivedBlocks'
  <2>1. disk' = disk /\ dst' = dst /\ rd' = rd
    BY <1>18 DEF SendChunk
  <2>2. SUFFICES ASSUME NEW d \in Paths, NEW i \in 1 .. Len(disk[d]), disk[d][i] # Hole
                 PROVE  \E h \in Gets :
                          dst[h] = d /\ i <= rd[h] /\ disk[d][i] = sent'[h][i]
    BY <2>1 DEF OnlyReceivedBlocks
  <2>3. PICK h \in Gets : dst[h] = d /\ i <= rd[h] /\ disk[d][i] = sent[h][i]
    BY <2>2 DEF OnlyReceivedBlocks
  <2>4. i \in 1 .. Len(sent[h])
    BY <2>3, LenProperties DEF TypeInv, TypeOK, Counters
  <2>5. sent'[h][i] = sent[h][i]
    <3>1. CASE h = g
      <4> DEFINE b == content[src[g]][Len(sent[g]) + 1]
      <4>1. Len(sent[g]) + 1 \in 1 .. Len(content[src[g]])
        BY <1>18, LenProperties DEF SendChunk, TypeInv, TypeOK
      <4>2. b \in Blocks
        BY <1>18, <4>1, ElementOfSeq DEF SendChunk, TypeInv, TypeOK
      <4>3. sent'[h] = Append(sent[h], b) /\ sent[h] \in Seq(Blocks)
        BY <1>18, <3>1 DEF SendChunk, TypeInv, TypeOK
      <4> HIDE DEF b
      <4> QED
        BY <2>4, <4>2, <4>3, AppendProperties
    <3>2. CASE h # g
      BY <1>18, <3>2 DEF SendChunk, TypeInv, TypeOK
    <3> QED
      BY <3>1, <3>2
  <2> QED
    BY <2>3, <2>5
<1>19. ASSUME NEW g \in Gets, SendComplete(g)
      PROVE  OnlyReceivedBlocks'
  <2>1. disk' = disk /\ dst' = dst /\ sent' = sent /\ rd' = rd
    BY <1>19 DEF SendComplete
  <2> QED
    BY <2>1, ReceivedQuiet DEF TypeInv, TypeOK
<1>20. ASSUME NEW g \in Gets, SendFails(g)
      PROVE  OnlyReceivedBlocks'
  <2>1. disk' = disk /\ dst' = dst /\ sent' = sent /\ rd' = rd
    BY <1>20 DEF SendFails
  <2> QED
    BY <2>1, ReceivedQuiet DEF TypeInv, TypeOK
<1>21. ASSUME NEW g \in Gets, SendEmpty(g)
      PROVE  OnlyReceivedBlocks'
  <2>1. disk' = disk /\ dst' = dst /\ sent' = sent /\ rd' = rd
    BY <1>21 DEF SendEmpty
  <2> QED
    BY <2>1, ReceivedQuiet DEF TypeInv, TypeOK
<1>22. ASSUME NEW g \in Gets, LinkBreaks(g)
      PROVE  OnlyReceivedBlocks'
  <2>1. disk' = disk /\ dst' = dst /\ sent' = sent /\ rd' = rd
    BY <1>22 DEF LinkBreaks
  <2> QED
    BY <2>1, ReceivedQuiet DEF TypeInv, TypeOK
<1>23. ASSUME NEW p \in Peers, NEW f \in Files, ShareStart(p, f)
      PROVE  OnlyReceivedBlocks'
  <2>1. disk' = disk /\ dst' = dst /\ sent' = sent /\ rd' = rd
    BY <1>23 DEF ShareStart
  <2> QED
    BY <2>1, ReceivedQuiet DEF TypeInv, TypeOK
<1>24. ASSUME NEW p \in Peers, ShareCopy(p)
      PROVE  OnlyReceivedBlocks'
  <2>1. disk' = disk /\ dst' = dst /\ sent' = sent /\ rd' = rd
    BY <1>24 DEF ShareCopy
  <2> QED
    BY <2>1, ReceivedQuiet DEF TypeInv, TypeOK
<1>25. ASSUME NEW p \in Peers, ShareFails(p)
      PROVE  OnlyReceivedBlocks'
  <2>1. disk' = disk /\ dst' = dst /\ sent' = sent /\ rd' = rd
    BY <1>25 DEF ShareFails
  <2> QED
    BY <2>1, ReceivedQuiet DEF TypeInv, TypeOK
<1>26. CASE UNCHANGED vars
  <2>1. disk' = disk /\ dst' = dst /\ sent' = sent /\ rd' = rd
    BY <1>26 DEF vars
  <2> QED
    BY <2>1, ReceivedQuiet DEF TypeInv, TypeOK
<1> QED
  BY <1>1, <1>2, <1>3, <1>4, <1>5, <1>6, <1>7, <1>8, <1>9, <1>10, <1>11,
     <1>12, <1>13, <1>14, <1>15, <1>16, <1>17, <1>18, <1>19, <1>20, <1>21,
     <1>22, <1>23, <1>24, <1>25, <1>26 DEF Next, GetThread, PeerThread

\* However many gets write one path, and whatever writes fail: every block in
\* a destination file was received, at that place, by a get of that file.
THEOREM ReceivedCorrect == Spec => []OnlyReceivedBlocks
<1>1. Init => CopyInv /\ OnlyReceivedBlocks
  BY CopyInit DEF Init, OnlyReceivedBlocks
<1>2. CopyInv /\ OnlyReceivedBlocks /\ [Next]_vars => (CopyInv /\ OnlyReceivedBlocks)'
  BY CopyStep, ReceivedStep
<1> QED
  BY <1>1, <1>2, PTL DEF Spec

-----------------------------------------------------------------------------
(* Download implements Delivery *)

\* A step that no variable of Delivery notices.
LEMMA DeliveryStutter ==
    ASSUME sent' = sent, last' = last, rd' = rd,
           \A h \in Gets : Outcome(h)' = Outcome(h)
    PROVE  UNCHANGED Abstract!vars
BY DEF Abstract!vars

\* A get that ends without being completed.
LEMMA DeliveryGiveUp ==
    ASSUME NEW g \in Gets, sent' = sent, last' = last, rd' = rd,
           Outcome(g) = "none", Outcome(g)' = "failed",
           \A h \in Gets : h # g => Outcome(h)' = Outcome(h)
    PROVE  Abstract!Next
<1>1. Abstract!GiveUp(g)
  BY DEF Abstract!GiveUp
<1> QED
  BY <1>1 DEF Abstract!Next

\* A get that receives a chunk.
LEMMA DeliveryTake ==
    ASSUME CopyInv, NEW g \in Gets, ChunkReady(g),
           rd' = [rd EXCEPT ![g] = @ + 1], sent' = sent, last' = last,
           pc' = pc, progress' = progress
    PROVE  Abstract!Next
<1>1. /\ sent[g] \in Seq(Blocks) /\ rd[g] \in Nat /\ rd[g] < Len(sent[g])
      /\ rd \in [Gets -> Nat]
  BY DEF CopyInv, TypeInv, TypeOK, ChunkReady
<1>2. Len(SubSeq(sent[g], 1, rd[g])) = rd[g]
  BY <1>1, LenProperties, SubSeqProperties
<1>3. SubSeq(sent[g], 1, rd[g] + 1) = Append(SubSeq(sent[g], 1, rd[g]), sent[g][rd[g] + 1])
  BY <1>1, SubSeqNext
<1>4. Outcome(g) = "none"
  BY DEF CopyInv, CompletedInv, ChunkReady, Outcome
<1>5. \A h \in Gets : Outcome(h)' = Outcome(h)
  BY DEF Outcome
<1>6. \A h \in Gets : h # g => rd'[h] = rd[h]
  BY <1>1
<1>7. [h \in Gets |-> SubSeq(sent[h], 1, rd[h])]'
        = [[h \in Gets |-> SubSeq(sent[h], 1, rd[h])] EXCEPT
             ![g] = Append(@, sent[g][Len(@) + 1])]
  BY <1>1, <1>2, <1>3, <1>6
<1>8. Abstract!Take(g)
  BY <1>1, <1>2, <1>4, <1>5, <1>7 DEF Abstract!Take
<1> QED
  BY <1>8 DEF Abstract!Next

\* Every step of Download is a step of Delivery or leaves its variables alone.
LEMMA RefinementStep == CopyInv /\ [Next]_vars => [Abstract!Next]_(Abstract!vars)
<1> SUFFICES ASSUME CopyInv, [Next]_vars
             PROVE  [Abstract!Next]_(Abstract!vars)
  OBVIOUS
<1> USE DEF threadVars, linkVars, streamVars,
            fileVars, ghostVars
<1>1. ASSUME NEW g \in Gets, NEW p \in Peers, NEW d \in Paths, HandleGet(g, p, d)
      PROVE  [Abstract!Next]_(Abstract!vars)
  <2>1. sent' = sent /\ last' = last /\ rd' = rd
    BY <1>1 DEF HandleGet
  <2>2. \A h \in Gets : Outcome(h)' = Outcome(h)
    BY <1>1 DEF HandleGet, Outcome, CopyInv, TypeInv, TypeOK, CompletedInv
  <2> QED
    BY <2>1, <2>2, DeliveryStutter
<1>2. ASSUME NEW g \in Gets, Connect(g)
      PROVE  [Abstract!Next]_(Abstract!vars)
  <2>1. sent' = sent /\ last' = last /\ rd' = rd
    BY <1>2 DEF Connect
  <2>2. \A h \in Gets : Outcome(h)' = Outcome(h)
    BY <1>2 DEF Connect, Outcome, CopyInv, TypeInv, TypeOK, CompletedInv
  <2> QED
    BY <2>1, <2>2, DeliveryStutter
<1>3. ASSUME NEW g \in Gets, ConnectFails(g)
      PROVE  [Abstract!Next]_(Abstract!vars)
  <2>1. sent' = sent /\ last' = last /\ rd' = rd
    BY <1>3 DEF ConnectFails
  <2>2. /\ Outcome(g) = "none" /\ Outcome(g)' = "failed"
        /\ \A h \in Gets : h # g => Outcome(h)' = Outcome(h)
    BY <1>3 DEF ConnectFails, Outcome, CopyInv, TypeInv, TypeOK, CompletedInv
  <2> QED
    BY <2>1, <2>2, DeliveryGiveUp
<1>4. ASSUME NEW g \in Gets, Request(g)
      PROVE  [Abstract!Next]_(Abstract!vars)
  <2>1. sent' = sent /\ last' = last /\ rd' = rd
    BY <1>4 DEF Request
  <2>2. \A h \in Gets : Outcome(h)' = Outcome(h)
    BY <1>4 DEF Request, Outcome, CopyInv, TypeInv, TypeOK, CompletedInv
  <2> QED
    BY <2>1, <2>2, DeliveryStutter
<1>5. ASSUME NEW g \in Gets, RequestFails(g)
      PROVE  [Abstract!Next]_(Abstract!vars)
  <2>1. sent' = sent /\ last' = last /\ rd' = rd
    BY <1>5 DEF RequestFails
  <2>2. /\ Outcome(g) = "none" /\ Outcome(g)' = "failed"
        /\ \A h \in Gets : h # g => Outcome(h)' = Outcome(h)
    BY <1>5 DEF RequestFails, Outcome, CopyInv, TypeInv, TypeOK, CompletedInv
  <2> QED
    BY <2>1, <2>2, DeliveryGiveUp
<1>6. ASSUME NEW g \in Gets, OpenDestination(g)
      PROVE  [Abstract!Next]_(Abstract!vars)
  <2>1. sent' = sent /\ last' = last /\ rd' = rd
    BY <1>6 DEF OpenDestination
  <2>2. \A h \in Gets : Outcome(h)' = Outcome(h)
    BY <1>6 DEF OpenDestination, Outcome, CopyInv, TypeInv, TypeOK, CompletedInv
  <2> QED
    BY <2>1, <2>2, DeliveryStutter
<1>7. ASSUME NEW g \in Gets, OpenDestinationFails(g)
      PROVE  [Abstract!Next]_(Abstract!vars)
  <2>1. sent' = sent /\ last' = last /\ rd' = rd
    BY <1>7 DEF OpenDestinationFails
  <2>2. /\ Outcome(g) = "none" /\ Outcome(g)' = "failed"
        /\ \A h \in Gets : h # g => Outcome(h)' = Outcome(h)
    BY <1>7 DEF OpenDestinationFails, Outcome, CopyInv, TypeInv, TypeOK, CompletedInv
  <2> QED
    BY <2>1, <2>2, DeliveryGiveUp
<1>8. ASSUME NEW g \in Gets, ReceiveBuffered(g)
      PROVE  [Abstract!Next]_(Abstract!vars)
  BY <1>8, DeliveryTake DEF ReceiveBuffered
<1>9. ASSUME NEW g \in Gets, ReceiveWritten(g)
      PROVE  [Abstract!Next]_(Abstract!vars)
  BY <1>9, DeliveryTake DEF ReceiveWritten
<1>10. ASSUME NEW g \in Gets, ReceiveUnwritten(g)
      PROVE  [Abstract!Next]_(Abstract!vars)
  BY <1>10, DeliveryTake DEF ReceiveUnwritten
<1>11. ASSUME NEW g \in Gets, ReceiveComplete(g)
      PROVE  [Abstract!Next]_(Abstract!vars)
  <2>1. /\ sent' = sent /\ rd' = rd /\ last' = last
        /\ last[g] = "complete" /\ rd[g] = Len(sent[g])
    BY <1>11 DEF ReceiveComplete, LastReady
  <2>2. /\ Outcome(g) = "none" /\ Outcome(g)' = "completed"
        /\ \A h \in Gets : h # g => Outcome(h)' = Outcome(h)
    BY <1>11 DEF ReceiveComplete, LastReady, Outcome, CopyInv, TypeInv, TypeOK,
                 CompletedInv
  <2>3. SubSeq(sent[g], 1, rd[g]) = sent[g]
    BY <2>1, SubSeqFull DEF CopyInv, TypeInv, TypeOK
  <2>4. Abstract!Complete(g)
    BY <2>1, <2>2, <2>3 DEF Abstract!Complete
  <2> QED
    BY <2>4 DEF Abstract!Next
<1>12. ASSUME NEW g \in Gets, ReceiveError(g)
      PROVE  [Abstract!Next]_(Abstract!vars)
  <2>1. sent' = sent /\ last' = last /\ rd' = rd
    BY <1>12 DEF ReceiveError, LastReady
  <2>2. /\ Outcome(g) = "none" /\ Outcome(g)' = "failed"
        /\ \A h \in Gets : h # g => Outcome(h)' = Outcome(h)
    BY <1>12 DEF ReceiveError, LastReady, Outcome, CopyInv, TypeInv, TypeOK, CompletedInv
  <2> QED
    BY <2>1, <2>2, DeliveryGiveUp
<1>13. ASSUME NEW g \in Gets, ReceiveEmpty(g)
      PROVE  [Abstract!Next]_(Abstract!vars)
  <2>1. sent' = sent /\ last' = last /\ rd' = rd
    BY <1>13 DEF ReceiveEmpty, LastReady
  <2>2. /\ Outcome(g) = "none" /\ Outcome(g)' = "failed"
        /\ \A h \in Gets : h # g => Outcome(h)' = Outcome(h)
    BY <1>13 DEF ReceiveEmpty, LastReady, Outcome, CopyInv, TypeInv, TypeOK, CompletedInv
  <2> QED
    BY <2>1, <2>2, DeliveryGiveUp
<1>14. ASSUME NEW g \in Gets, ReceiveFails(g)
      PROVE  [Abstract!Next]_(Abstract!vars)
  <2>1. sent' = sent /\ last' = last /\ rd' = rd
    BY <1>14 DEF ReceiveFails
  <2>2. /\ Outcome(g) = "none" /\ Outcome(g)' = "failed"
        /\ \A h \in Gets : h # g => Outcome(h)' = Outcome(h)
    BY <1>14 DEF ReceiveFails, Outcome, CopyInv, TypeInv, TypeOK, CompletedInv
  <2> QED
    BY <2>1, <2>2, DeliveryGiveUp
<1>15. ASSUME NEW g \in Gets, CloseDestination(g)
      PROVE  [Abstract!Next]_(Abstract!vars)
  <2>1. sent' = sent /\ last' = last /\ rd' = rd
    BY <1>15 DEF CloseDestination
  <2>2. \A h \in Gets : Outcome(h)' = Outcome(h)
    BY <1>15 DEF CloseDestination, Outcome, CopyInv, TypeInv, TypeOK, CompletedInv
  <2> QED
    BY <2>1, <2>2, DeliveryStutter
<1>16. ASSUME NEW g \in Gets, ServeFile(g)
      PROVE  [Abstract!Next]_(Abstract!vars)
  <2>1. sent' = sent /\ last' = last /\ rd' = rd
    BY <1>16 DEF ServeFile
  <2>2. \A h \in Gets : Outcome(h)' = Outcome(h)
    BY <1>16 DEF ServeFile, Outcome, CopyInv, TypeInv, TypeOK, CompletedInv
  <2> QED
    BY <2>1, <2>2, DeliveryStutter
<1>17. ASSUME NEW g \in Gets, ServeError(g)
      PROVE  [Abstract!Next]_(Abstract!vars)
  <2>1. sent' = sent /\ rd' = rd
    BY <1>17 DEF ServeError
  <2>2. last[g] = "none" /\ \A h \in Gets : (last'[h] = "complete") = (last[h] = "complete")
    BY <1>17 DEF ServeError, CopyInv, CompletedInv, TypeInv, TypeOK
  <2>3. \A h \in Gets : Outcome(h)' = Outcome(h)
    BY <1>17 DEF ServeError, Outcome
  <2> QED
    BY <2>1, <2>2, <2>3 DEF Abstract!vars
<1>18. ASSUME NEW g \in Gets, SendChunk(g)
      PROVE  [Abstract!Next]_(Abstract!vars)
  <2> DEFINE b == content[src[g]][Len(sent[g]) + 1]
  <2>1. /\ last' = last /\ rd' = rd
        /\ sent' = [sent EXCEPT ![g] = Append(sent[g], b)]
    BY <1>18 DEF SendChunk
  <2>2. last[g] # "complete"
    BY <1>18 DEF SendChunk, CopyInv, CompletedInv
  <2>3. \A h \in Gets : Outcome(h)' = Outcome(h)
    BY <1>18 DEF SendChunk, Outcome
  <2>4. b \in Blocks
    <3>1. Len(sent[g]) + 1 \in 1 .. Len(content[src[g]])
      BY <1>18, LenProperties DEF SendChunk, CopyInv, TypeInv, TypeOK
    <3> QED
      BY <1>18, <3>1, ElementOfSeq DEF SendChunk, CopyInv, TypeInv, TypeOK
  <2> HIDE DEF b
  <2>5. \A h \in Gets : SubSeq(sent'[h], 1, rd[h]) = SubSeq(sent[h], 1, rd[h])
    <3> TAKE h \in Gets
    <3>1. CASE h = g
      <4>1. /\ sent'[h] = Append(sent[h], b) /\ sent[h] \in Seq(Blocks)
            /\ rd[h] \in Nat /\ rd[h] <= Len(sent[h])
        BY <2>1, <3>1 DEF CopyInv, TypeInv, TypeOK, Counters
      <4> QED
        BY <2>4, <4>1, PrefixOfAppend
    <3>2. CASE h # g
      BY <2>1, <3>2 DEF CopyInv, TypeInv, TypeOK
    <3> QED
      BY <3>1, <3>2
  <2>6. Abstract!Produce(g, b)
    BY <2>1, <2>2, <2>3, <2>5 DEF Abstract!Produce
  <2> QED
    BY <2>4, <2>6 DEF Abstract!Next
<1>19. ASSUME NEW g \in Gets, SendComplete(g)
      PROVE  [Abstract!Next]_(Abstract!vars)
  <2>1. /\ sent' = sent /\ rd' = rd
        /\ last' = [last EXCEPT ![g] = "complete"]
    BY <1>19 DEF SendComplete
  <2>2. last[g] # "complete"
    BY <1>19 DEF SendComplete, CopyInv, CompletedInv
  <2>3. \A h \in Gets : Outcome(h)' = Outcome(h)
    BY <1>19 DEF SendComplete, Outcome
  <2>4. [h \in Gets |-> last[h] = "complete"]'
          = [[h \in Gets |-> last[h] = "complete"] EXCEPT ![g] = TRUE]
    BY <2>1 DEF CopyInv, TypeInv, TypeOK
  <2>5. Abstract!Seal(g)
    BY <2>1, <2>2, <2>3, <2>4 DEF Abstract!Seal
  <2> QED
    BY <2>5 DEF Abstract!Next
<1>20. ASSUME NEW g \in Gets, SendFails(g)
      PROVE  [Abstract!Next]_(Abstract!vars)
  <2>1. sent' = sent /\ last' = last /\ rd' = rd
    BY <1>20 DEF SendFails
  <2>2. \A h \in Gets : Outcome(h)' = Outcome(h)
    BY <1>20 DEF SendFails, Outcome, CopyInv, TypeInv, TypeOK, CompletedInv
  <2> QED
    BY <2>1, <2>2, DeliveryStutter
<1>21. ASSUME NEW g \in Gets, SendEmpty(g)
      PROVE  [Abstract!Next]_(Abstract!vars)
  <2>1. sent' = sent /\ rd' = rd
    BY <1>21 DEF SendEmpty
  <2>2. last[g] = "none" /\ \A h \in Gets : (last'[h] = "complete") = (last[h] = "complete")
    BY <1>21 DEF SendEmpty, CopyInv, CompletedInv, TypeInv, TypeOK
  <2>3. \A h \in Gets : Outcome(h)' = Outcome(h)
    BY <1>21 DEF SendEmpty, Outcome
  <2> QED
    BY <2>1, <2>2, <2>3 DEF Abstract!vars
<1>22. ASSUME NEW g \in Gets, LinkBreaks(g)
      PROVE  [Abstract!Next]_(Abstract!vars)
  <2>1. sent' = sent /\ last' = last /\ rd' = rd
    BY <1>22 DEF LinkBreaks
  <2>2. \A h \in Gets : Outcome(h)' = Outcome(h)
    BY <1>22 DEF LinkBreaks, Outcome, CopyInv, TypeInv, TypeOK, CompletedInv
  <2> QED
    BY <2>1, <2>2, DeliveryStutter
<1>23. ASSUME NEW p \in Peers, NEW f \in Files, ShareStart(p, f)
      PROVE  [Abstract!Next]_(Abstract!vars)
  <2>1. sent' = sent /\ last' = last /\ rd' = rd
    BY <1>23 DEF ShareStart
  <2>2. \A h \in Gets : Outcome(h)' = Outcome(h)
    BY <1>23 DEF ShareStart, Outcome, CopyInv, TypeInv, TypeOK, CompletedInv
  <2> QED
    BY <2>1, <2>2, DeliveryStutter
<1>24. ASSUME NEW p \in Peers, ShareCopy(p)
      PROVE  [Abstract!Next]_(Abstract!vars)
  <2>1. sent' = sent /\ last' = last /\ rd' = rd
    BY <1>24 DEF ShareCopy
  <2>2. \A h \in Gets : Outcome(h)' = Outcome(h)
    BY <1>24 DEF ShareCopy, Outcome, CopyInv, TypeInv, TypeOK, CompletedInv
  <2> QED
    BY <2>1, <2>2, DeliveryStutter
<1>25. ASSUME NEW p \in Peers, ShareFails(p)
      PROVE  [Abstract!Next]_(Abstract!vars)
  <2>1. sent' = sent /\ last' = last /\ rd' = rd
    BY <1>25 DEF ShareFails
  <2>2. \A h \in Gets : Outcome(h)' = Outcome(h)
    BY <1>25 DEF ShareFails, Outcome, CopyInv, TypeInv, TypeOK, CompletedInv
  <2> QED
    BY <2>1, <2>2, DeliveryStutter
<1>26. CASE UNCHANGED vars
  <2>1. sent' = sent /\ last' = last /\ rd' = rd
    BY <1>26 DEF vars
  <2>2. \A h \in Gets : Outcome(h)' = Outcome(h)
    BY <1>26 DEF vars, Outcome, CopyInv, TypeInv, TypeOK, CompletedInv
  <2> QED
    BY <2>1, <2>2, DeliveryStutter
<1> QED
  BY <1>1, <1>2, <1>3, <1>4, <1>5, <1>6, <1>7, <1>8, <1>9, <1>10, <1>11,
     <1>12, <1>13, <1>14, <1>15, <1>16, <1>17, <1>18, <1>19, <1>20, <1>21,
     <1>22, <1>23, <1>24, <1>25, <1>26 DEF Next, GetThread, PeerThread

\* For every set of gets, peers, paths and files: the get threads, peers and
\* connections implement the abstract transfer.  Each get takes its source's
\* blocks in order, is completed only when it has all of them and the source
\* has said so, and ends only once.
THEOREM DeliveryCorrect == Spec => ImplementsDelivery
<1>1. Init => CopyInv /\ Abstract!Init
  <2>1. Init => Abstract!Init
    <3> SUFFICES ASSUME Init
                 PROVE  Abstract!Init
      OBVIOUS
    <3>1. SubSeq(<<>>, 1, 0) = <<>>
      BY EmptySeq, SubSeqProperties
    <3>2. [g \in Gets |-> SubSeq(sent[g], 1, rd[g])] = [g \in Gets |-> <<>>]
      BY <3>1 DEF Init
    <3>3. [g \in Gets |-> Outcome(g)] = [g \in Gets |-> "none"]
      BY DEF Init, Outcome
    <3>4. [g \in Gets |-> last[g] = "complete"] = [g \in Gets |-> FALSE]
      BY DEF Init
    <3> QED
      BY <3>2, <3>3, <3>4 DEF Init, Abstract!Init
  <2> QED
    BY <2>1, CopyInit
<1>2. CopyInv /\ [Next]_vars => CopyInv'
  BY CopyStep
<1>3. CopyInv /\ [Next]_vars => [Abstract!Next]_(Abstract!vars)
  BY RefinementStep
<1> QED
  BY <1>1, <1>2, <1>3, PTL DEF Spec, ImplementsDelivery, Abstract!Spec
=============================================================================
