----------------------------- MODULE WireProofs -----------------------------
(***************************************************************************)
(* Proofs about Wire, for every set of clients, every number of pieces a   *)
(* message is sent in, every length of file and every window.              *)
(***************************************************************************)
EXTENDS Wire, SequenceTheorems, TLAPS

-----------------------------------------------------------------------------
(* Inductive invariants *)

Busy == sv \in {"process", "send"}

\* A client sends one prefix and then its message, piece by piece: what can be
\* on its way.
SegmentsInv ==
    \A c \in Clients :
        /\ cl[c] \in {"idle", "prefix"} => in[c] = <<>> /\ sent[c] = 0
        /\ cl[c] = "body" => sent[c] < MaxParts
        /\ cl[c] = "body" \/ in[c] # <<>> => kind[c] # "none"
        /\ Len(in[c]) <= sent[c] + 1

\* Events are about open connections, and the one that is being handled is no
\* event any more: the server closes none that it will look at again.
BatchInv ==
    /\ sv = "wait" => batch = {}
    /\ \A c \in Clients : c \in batch => srv[c] = "open"
    /\ Busy => cur \in Clients /\ cur \notin batch
    /\ sv = "process" => msg # <<>> /\ kind[cur] # "none"

TypeInv == TypeOK /\ SegmentsInv /\ BatchInv

\* Segments that were read together, or can be, after n pieces of a message: the
\* prefix or the head can only come first, or the head right after the prefix.
Fits(s, n) ==
    /\ \A j \in 2 .. Len(s) :
         s[j] = "rest" \/ (j = 2 /\ s[1] = "prefix" /\ s[2] = "head")
    /\ s = <<>> \/ s[1] = "prefix" \/ Len(s) <= n

HasHead(s) == \E i \in 1 .. Len(s) : s[i] = "head"
Processing(c) == sv = "process" /\ cur = c /\ HasHead(msg)

\* The head of a message is at one place: not sent yet, unread, in the segments
\* being processed, or dispatched.
BodyInv ==
    /\ \A c \in Clients :
        /\ Fits(in[c], sent[c])
        /\ sent[c] = 0 => /\ in[c] \in {<<>>, <<"prefix">>}
                          /\ served[c] = <<>> /\ ~Processing(c)
        /\ served[c] # <<>> => ~HasHead(in[c]) /\ ~Processing(c)
        /\ HasHead(in[c]) => ~Processing(c)
    /\ sv = "process" => Fits(msg, sent[cur])
    /\ DispatchedIsSent

-----------------------------------------------------------------------------
(* Type correctness *)

LEMMA TypeInit == Init => TypeInv
BY WireAssumption, EmptySeq
   DEF Init, TypeInv, TypeOK, SegmentsInv, BatchInv, Busy, Kinds, Segments, Messages

\* What a request is answered with: one message, or the chunks of a file and the
\* message that says it is complete.
LEMMA RepliesType ==
    ASSUME NEW k \in Kinds, k # "ping", NEW r \in Replies(k)
    PROVE  r \in Seq(Messages) /\ Len(r) <= MaxChunks + 1
<1>1. CASE k = "list"
  <2>1. r \in {<<"list">>, <<"empty_list">>}
    BY <1>1 DEF Replies
  <2>2. /\ <<"list">> \in Seq(Messages) /\ Len(<<"list">>) = 1
        /\ <<"empty_list">> \in Seq(Messages) /\ Len(<<"empty_list">>) = 1
    BY DEF Messages
  <2>3. 1 <= MaxChunks + 1
    BY WireAssumption
  <2>4. CASE r = <<"list">>
    BY <2>2, <2>3, <2>4
  <2>5. CASE r = <<"empty_list">>
    BY <2>2, <2>3, <2>5
  <2> QED
    BY <2>1, <2>4, <2>5
<1>2. CASE k = "file"
  <2>1. CASE r = <<"error">>
    BY <2>1, WireAssumption DEF Messages
  <2>2. CASE r # <<"error">>
    <3>1. PICK n \in 0 .. MaxChunks :
            r = [i \in 1 .. n + 1 |-> IF i <= n THEN "chunk" ELSE "complete"]
      BY <1>2, <2>2 DEF Replies
    <3>2. n + 1 \in Nat /\ r \in [1 .. n + 1 -> Messages]
      BY <3>1, WireAssumption DEF Messages
    <3>3. r \in Seq(Messages) /\ Len(r) = n + 1
      BY <3>2, IsASeq, LenProperties
    <3> QED
      BY <3>3, WireAssumption
  <2> QED
    BY <2>1, <2>2
<1> QED
  BY <1>1, <1>2 DEF Kinds

\* Every step keeps the types, the order of a client's segments, and the batch.
LEMMA TypeStep == TypeInv /\ [Next]_vars => TypeInv'
<1> SUFFICES ASSUME TypeInv, [Next]_vars
             PROVE  TypeInv'
  OBVIOUS
<1> USE DEF TypeInv, TypeOK, SegmentsInv, BatchInv, Busy, clientVars, threadVars,
       serverVars, Segments, Messages
<1>1. ASSUME NEW c \in Clients, SendPrefix(c)
      PROVE  TypeInv'
  <2>1. /\ in[c] = <<>> /\ sent[c] = 0
        /\ Append(<<>>, "prefix") \in Seq(Segments) /\ Len(Append(<<>>, "prefix")) = 1
    BY <1>1 DEF SendPrefix
  <2>2. in' \in [Clients -> Seq(Segments)] /\ Len(in'[c]) <= 1
    <3>1. \/ in' = [in EXCEPT ![c] = Append(<<>>, "prefix")]
          \/ in' = in
      BY <1>1, <2>1 DEF SendPrefix, Arrive
    <3>2. CASE in' = [in EXCEPT ![c] = Append(<<>>, "prefix")]
      BY <2>1, <3>2
    <3>3. CASE in' = in
      BY <2>1, <3>3, EmptySeq
    <3> QED
      BY <3>1, <3>2, <3>3
  <2>3. /\ kind' \in [Clients -> Kinds \cup {"none"}] /\ kind'[c] # "none"
        /\ cl' \in [Clients -> {"idle", "prefix", "body", "receive", "leave", "closed", "killed"}]
        /\ cl'[c] = "body"
        /\ \A d \in Clients \ {c} :
             cl'[d] = cl[d] /\ kind'[d] = kind[d] /\ in'[d] = in[d]
    BY <1>1 DEF SendPrefix, Arrive, Kinds
  <2>4. edge' \in [Clients -> BOOLEAN]
    BY <1>1 DEF SendPrefix, Arrive
  <2>5. /\ srv' \in [Clients -> {"none", "open", "closed", "reset", "refused"}]
        /\ \A d \in Clients : srv[d] = "open" => srv'[d] = "open"
    BY <1>1 DEF SendPrefix, Arrive
  <2>6. UNCHANGED <<result, sent, fin, out, threadVars>>
    BY <1>1 DEF SendPrefix
  <2>7. cur \in Clients /\ kind[cur] # "none" => kind'[cur] # "none"
    BY <2>3
  <2>8. TypeOK'
    <3>1. \A d \in Clients : Len(in'[d]) <= MaxParts + 1
      <4>1. Len(in'[c]) \in Nat /\ 1 <= MaxParts + 1
        BY <2>2, LenProperties, WireAssumption
      <4>2. Len(in'[c]) <= MaxParts + 1
        BY <2>2, <4>1, WireAssumption
      <4> QED
        BY <2>3, <4>2
    <3> QED
      BY <2>2, <2>3, <2>4, <2>5, <2>6, <3>1
  <2>9. SegmentsInv'
    <3> SUFFICES ASSUME NEW d \in Clients
                 PROVE  /\ cl'[d] \in {"idle", "prefix"} => in'[d] = <<>> /\ sent'[d] = 0
                        /\ cl'[d] = "body" => sent'[d] < MaxParts
                        /\ cl'[d] = "body" \/ in'[d] # <<>> => kind'[d] # "none"
                        /\ Len(in'[d]) <= sent'[d] + 1
      OBVIOUS
    <3>1. CASE d = c
      BY <2>1, <2>2, <2>3, <2>6, <3>1, WireAssumption
    <3>2. CASE d # c
      BY <2>3, <2>6, <3>2, SMTT(30)
    <3> QED
      BY <3>1, <3>2
  <2>10. BatchInv'
    BY <2>5, <2>6, <2>7
  <2> QED
    BY <2>8, <2>9, <2>10
<1>piece. ASSUME NEW c \in Clients, SendPiece(c), UNCHANGED <<kind, fin, out, threadVars>>,
                 cl' \in [Clients -> {"idle", "prefix", "body", "receive", "leave",
                                     "closed", "killed"}],
                 result' \in [Clients -> {"none", "pinged", "answered", "failed"}],
                 \A d \in Clients \ {c} : cl'[d] = cl[d],
                 cl'[c] \notin {"idle", "prefix"},
                 cl'[c] = "body" => sent[c] + 1 < MaxParts
          PROVE  TypeInv'
  <2> DEFINE segment == IF sent[c] = 0 THEN "head" ELSE "rest"
  <2>1. /\ cl[c] = "body" /\ sent[c] \in Nat /\ sent[c] < MaxParts
        /\ in[c] \in Seq(Segments) /\ Len(in[c]) <= sent[c] + 1
        /\ kind[c] # "none"
    BY <1>piece, WireAssumption DEF SendPiece
  <2>2. /\ Append(in[c], segment) \in Seq(Segments)
        /\ Len(Append(in[c], segment)) <= sent[c] + 2
    BY <2>1, AppendProperties
  <2>3. /\ in' \in [Clients -> Seq(Segments)] /\ Len(in'[c]) <= sent[c] + 2
        /\ \A d \in Clients \ {c} : in'[d] = in[d]
    BY <1>piece, <2>1, <2>2, SMTT(30) DEF SendPiece, Arrive
  <2>4. /\ sent' \in [Clients -> 0 .. MaxParts] /\ sent'[c] = sent[c] + 1
        /\ \A d \in Clients \ {c} : sent'[d] = sent[d]
    BY <1>piece, <2>1, WireAssumption, SMTT(30) DEF SendPiece
  <2>5. edge' \in [Clients -> BOOLEAN]
    BY <1>piece DEF SendPiece, Arrive
  <2>6. /\ srv' \in [Clients -> {"none", "open", "closed", "reset", "refused"}]
        /\ \A d \in Clients : srv[d] = "open" => srv'[d] = "open"
    BY <1>piece DEF SendPiece, Arrive
  <2>7. \A d \in Clients : Len(in'[d]) <= MaxParts + 1
    <3>1. Len(in'[c]) <= MaxParts + 1
      BY <2>1, <2>3, WireAssumption
    <3> QED
      BY <2>3, <3>1
  <2>8. TypeOK'
    BY <1>piece, <2>3, <2>4, <2>5, <2>6, <2>7
  <2>9. SegmentsInv'
    <3> SUFFICES ASSUME NEW d \in Clients
                 PROVE  /\ cl'[d] \in {"idle", "prefix"} => in'[d] = <<>> /\ sent'[d] = 0
                        /\ cl'[d] = "body" => sent'[d] < MaxParts
                        /\ cl'[d] = "body" \/ in'[d] # <<>> => kind'[d] # "none"
                        /\ Len(in'[d]) <= sent'[d] + 1
      OBVIOUS
    <3>1. CASE d = c
      BY <1>piece, <2>1, <2>3, <2>4, <3>1, WireAssumption
    <3>2. CASE d # c
      BY <1>piece, <2>3, <2>4, <3>2
    <3> QED
      BY <3>1, <3>2
  <2>10. BatchInv'
    BY <1>piece, <2>6
  <2> QED
    BY <2>8, <2>9, <2>10
<1>2a. ASSUME NEW c \in Clients, SendPart(c)
      PROVE  TypeInv'
  <2>1. /\ SendPiece(c) /\ sent[c] + 1 < MaxParts
        /\ UNCHANGED <<cl, kind, result, fin, out, threadVars>>
    BY <1>2a DEF SendPart
  <2>2. cl[c] = "body"
    BY <2>1 DEF SendPiece
  <2> QED
    BY <1>piece, <2>1, <2>2
<1>2b. ASSUME NEW c \in Clients, SendBody(c)
       PROVE  TypeInv'
  <2>1. SendPiece(c) /\ UNCHANGED <<kind, fin, out, threadVars>>
    BY <1>2b DEF SendBody
  <2>2. /\ cl' \in [Clients -> {"idle", "prefix", "body", "receive", "leave", "closed", "killed"}]
        /\ result' \in [Clients -> {"none", "pinged", "answered", "failed"}]
        /\ cl'[c] \in {"receive", "leave"}
        /\ \A d \in Clients \ {c} : cl'[d] = cl[d]
    <3>1. CASE kind[c] = "ping"
      <4>1. /\ cl' = [cl EXCEPT ![c] = "leave"]
            /\ result' = [result EXCEPT ![c] = "pinged"]
        BY <1>2b, <3>1 DEF SendBody
      <4> QED
        BY <4>1
    <3>2. CASE kind[c] # "ping"
      <4>1. cl' = [cl EXCEPT ![c] = "receive"] /\ result' = result
        BY <1>2b, <3>2 DEF SendBody
      <4> QED
        BY <4>1
    <3> QED
      BY <3>1, <3>2
  <2> QED
    BY <1>piece, <2>1, <2>2
<1>3. ASSUME NEW c \in Clients, Connect(c)
      PROVE  TypeInv'
  BY <1>3, WireAssumption DEF Connect
<1>4. ASSUME NEW c \in Clients, SendThrows(c)
      PROVE  TypeInv'
  BY <1>4, WireAssumption DEF SendThrows
<1>5. ASSUME NEW c \in Clients, SendKills(c)
      PROVE  TypeInv'
  BY <1>5, WireAssumption DEF SendKills
<1>6. ASSUME NEW c \in Clients, ReceiveLength(c)
      PROVE  TypeInv'
  BY <1>6, WireAssumption DEF ReceiveLength
<1>7. ASSUME NEW c \in Clients, ReceiveTimesOut(c)
      PROVE  TypeInv'
  BY <1>7, WireAssumption DEF ReceiveTimesOut
<1>8. ASSUME NEW c \in Clients, Disconnect(c)
      PROVE  TypeInv'
  BY <1>8, WireAssumption, SMTT(30) DEF Disconnect
<1>9. ASSUME NEW c \in Clients, Accept(c)
      PROVE  TypeInv'
  BY <1>9, WireAssumption DEF Accept, Backlog
<1>10. ASSUME NEW c \in Clients, ReceiveBurst(c)
      PROVE  TypeInv'
  BY <1>10, WireAssumption, SMTT(30) DEF ReceiveBurst
<1>11. ASSUME NEW c \in Clients, ReceiveEnd(c)
      PROVE  TypeInv'
  BY <1>11, WireAssumption DEF ReceiveEnd
<1>12. ASSUME NEW c \in Clients, ReceiveNothing(c)
      PROVE  TypeInv'
  BY <1>12, WireAssumption DEF ReceiveNothing
<1>13. ASSUME EpollWait
      PROVE  TypeInv'
  BY <1>13, WireAssumption DEF EpollWait, Ready, Backlog
<1>14. ASSUME BatchEnds
      PROVE  TypeInv'
  BY <1>14, WireAssumption DEF BatchEnds
<1>15. ASSUME ProcessRequest
      PROVE  TypeInv'
  <2>1. cur \in Clients /\ kind[cur] \in Kinds /\ kind[cur] # "ping"
    BY <1>15 DEF ProcessRequest, Dispatched
  <2>2. reply' \in Seq(Messages) /\ Len(reply') <= MaxChunks + 1
    BY <1>15, <2>1, RepliesType DEF ProcessRequest
  <2>3. msg' = <<>> /\ msg' \in Seq(Segments) /\ Len(msg') = 0
    BY <1>15, EmptySeq DEF ProcessRequest
  <2>4. served' \in [Clients -> Seq(Seq(Segments))]
    <3>1. Append(served[cur], msg) \in Seq(Seq(Segments))
      BY <2>1, AppendProperties
    <3> QED
      BY <1>15, <2>1, <3>1 DEF ProcessRequest
  <2>5. /\ sv = "process" /\ sv' = "send"
        /\ UNCHANGED <<clientVars, in, out, edge, srv, batch, cur, running>>
    BY <1>15 DEF ProcessRequest
  <2>6. TypeOK'
    BY <2>1, <2>2, <2>3, <2>4, <2>5, WireAssumption
  <2>7. SegmentsInv' /\ BatchInv'
    BY <2>1, <2>5
  <2> QED
    BY <2>6, <2>7
<1>16. ASSUME IgnoreUnknown
      PROVE  TypeInv'
  BY <1>16, WireAssumption DEF IgnoreUnknown, Dispatched
<1>17. ASSUME SendReply
      PROVE  TypeInv'
  BY <1>17, WireAssumption, SMTT(30) DEF SendReply
<1>18. ASSUME SendReplyFails
      PROVE  TypeInv'
  BY <1>18, WireAssumption, SMTT(30) DEF SendReplyFails
<1>19. ASSUME ReplyEnds
      PROVE  TypeInv'
  BY <1>19, WireAssumption DEF ReplyEnds
<1>20. ASSUME LoopEnds
      PROVE  TypeInv'
  BY <1>20, WireAssumption, SMTT(30) DEF LoopEnds, Backlog
<1>21. ASSUME Stop
      PROVE  TypeInv'
  BY <1>21, WireAssumption DEF Stop, Gone
<1>22. ASSUME Exit
      PROVE  TypeInv'
  <2>1. srv' \in [Clients -> {"none", "open", "closed", "reset", "refused"}]
    BY <1>22 DEF Exit
  <2>2. /\ msg' \in Seq(Segments) /\ Len(msg') = 0
        /\ reply' \in Seq(Messages) /\ Len(reply') = 0
    BY <1>22, EmptySeq DEF Exit
  <2>3. sv' = "gone" /\ batch' = {} /\ cur' = Listener /\ running' = FALSE
    BY <1>22 DEF Exit
  <2>4. UNCHANGED <<clientVars, out, served>>
    BY <1>22 DEF Exit
  <2>5. /\ in' \in [Clients -> Seq(Segments)]
        /\ \A c \in Clients : in'[c] = <<>> /\ Len(in'[c]) = 0
        /\ edge' \in [Clients -> BOOLEAN]
    BY <1>22, EmptySeq DEF Exit
  <2>6. TypeOK'
    <3>1. Len(msg') <= MaxParts + 1 /\ Len(reply') <= MaxChunks + 1
      BY <2>2, WireAssumption
    <3>2. \A c \in Clients : Len(in'[c]) <= MaxParts + 1 /\ Len(out'[c]) <= Window
      BY <2>4, <2>5, WireAssumption
    <3> QED
      BY <2>1, <2>2, <2>3, <2>4, <2>5, <3>1, <3>2
  <2>7. SegmentsInv'
    BY <2>4, <2>5, WireAssumption, SMTT(30)
  <2>8. BatchInv'
    BY <2>3
  <2> QED
    BY <2>6, <2>7, <2>8
<1>23. CASE UNCHANGED vars
  BY <1>23, WireAssumption DEF vars
<1> QED
  BY <1>1, <1>2a, <1>3, <1>4, <1>5, <1>6, <1>7, <1>8, <1>9, <1>10, <1>11,
     <1>12, <1>13, <1>14, <1>15, <1>16, <1>17, <1>18, <1>19, <1>20, <1>21,
     <1>22, <1>23, <1>2b DEF Next, Client, Server

\* Every variable keeps its type: at most the prefix and the pieces of one
\* request are unread, the socket's window and the longest reply bound what is on
\* its way back, and the server only serves a connection that it has open.
THEOREM TypeCorrect == Spec => []TypeOK
<1>1. TypeInv => TypeOK
  BY DEF TypeInv
<1> QED
  BY <1>1, TypeInit, TypeStep, PTL DEF Spec

-----------------------------------------------------------------------------
(* No byte is left unread *)

\* No step strands bytes: those that arrive put the connection on the ready
\* list, and what epoll_wait takes off the list it puts in the batch.
LEMMA StrandedStep == TypeInv /\ NoStrandedInput /\ [Next]_vars => NoStrandedInput'
<1> SUFFICES ASSUME TypeInv, NoStrandedInput, [Next]_vars
             PROVE  NoStrandedInput'
  OBVIOUS
<1> USE DEF TypeInv, TypeOK, SegmentsInv, BatchInv, Busy, clientVars, threadVars,
       serverVars, NoStrandedInput
<1>1. ASSUME NEW c \in Clients, SendPrefix(c)
      PROVE  NoStrandedInput'
  BY <1>1, WireAssumption DEF SendPrefix, Arrive
<1>2. ASSUME NEW c \in Clients, SendPart(c) \/ SendBody(c)
      PROVE  NoStrandedInput'
  <2>1. SendPiece(c) /\ UNCHANGED threadVars
    BY <1>2 DEF SendPart, SendBody
  <2>2. /\ UNCHANGED <<sv, batch>>
        /\ edge' = [edge EXCEPT ![c] = edge[c] \/ srv[c] = "open"]
        /\ srv' = [srv EXCEPT ![c] = IF srv[c] = "closed" THEN "refused" ELSE srv[c]]
        /\ \A d \in Clients \ {c} : in'[d] = in[d]
    BY <2>1 DEF SendPiece, Arrive
  <2>3. srv'[c] = "open" => edge'[c]
    BY <2>2
  <2>4. \A d \in Clients \ {c} : srv'[d] = srv[d] /\ edge'[d] = edge[d]
    BY <2>2
  <2> QED
    BY <2>2, <2>3, <2>4
<1>3. ASSUME NEW c \in Clients, Connect(c)
      PROVE  NoStrandedInput'
  BY <1>3, WireAssumption DEF Connect
<1>4. ASSUME NEW c \in Clients, SendThrows(c)
      PROVE  NoStrandedInput'
  BY <1>4, WireAssumption DEF SendThrows
<1>5. ASSUME NEW c \in Clients, SendKills(c)
      PROVE  NoStrandedInput'
  BY <1>5, WireAssumption DEF SendKills
<1>6. ASSUME NEW c \in Clients, ReceiveLength(c)
      PROVE  NoStrandedInput'
  BY <1>6, WireAssumption DEF ReceiveLength
<1>7. ASSUME NEW c \in Clients, ReceiveTimesOut(c)
      PROVE  NoStrandedInput'
  BY <1>7, WireAssumption DEF ReceiveTimesOut
<1>8. ASSUME NEW c \in Clients, Disconnect(c)
      PROVE  NoStrandedInput'
  BY <1>8, WireAssumption DEF Disconnect
<1>9. ASSUME NEW c \in Clients, Accept(c)
      PROVE  NoStrandedInput'
  BY <1>9, WireAssumption DEF Accept, Backlog
<1>10. ASSUME NEW c \in Clients, ReceiveBurst(c)
      PROVE  NoStrandedInput'
  BY <1>10, WireAssumption DEF ReceiveBurst
<1>11. ASSUME NEW c \in Clients, ReceiveEnd(c)
      PROVE  NoStrandedInput'
  BY <1>11, WireAssumption DEF ReceiveEnd
<1>12. ASSUME NEW c \in Clients, ReceiveNothing(c)
      PROVE  NoStrandedInput'
  BY <1>12, WireAssumption DEF ReceiveNothing
<1>13. ASSUME EpollWait
      PROVE  NoStrandedInput'
  BY <1>13, WireAssumption DEF EpollWait, Ready, Backlog
<1>14. ASSUME BatchEnds
      PROVE  NoStrandedInput'
  BY <1>14, WireAssumption DEF BatchEnds
<1>15. ASSUME ProcessRequest
      PROVE  NoStrandedInput'
  BY <1>15, WireAssumption DEF ProcessRequest, Dispatched
<1>16. ASSUME IgnoreUnknown
      PROVE  NoStrandedInput'
  BY <1>16, WireAssumption DEF IgnoreUnknown, Dispatched
<1>17. ASSUME SendReply
      PROVE  NoStrandedInput'
  BY <1>17, WireAssumption DEF SendReply
<1>18. ASSUME SendReplyFails
      PROVE  NoStrandedInput'
  BY <1>18, WireAssumption DEF SendReplyFails
<1>19. ASSUME ReplyEnds
      PROVE  NoStrandedInput'
  BY <1>19, WireAssumption DEF ReplyEnds
<1>20. ASSUME LoopEnds
      PROVE  NoStrandedInput'
  BY <1>20, WireAssumption DEF LoopEnds, Backlog
<1>21. ASSUME Stop
      PROVE  NoStrandedInput'
  BY <1>21, WireAssumption DEF Stop, Gone
<1>22. ASSUME Exit
      PROVE  NoStrandedInput'
  BY <1>22, WireAssumption DEF Exit, Backlog, Gone
<1>23. CASE UNCHANGED vars
  BY <1>23, WireAssumption DEF vars
<1> QED
  BY <1>1, <1>2, <1>3, <1>4, <1>5, <1>6, <1>7, <1>8, <1>9, <1>10, <1>11,
     <1>12, <1>13, <1>14, <1>15, <1>16, <1>17, <1>18, <1>19, <1>20, <1>21,
     <1>22, <1>23 DEF Next, Client, Server

\* Whatever clients send and when, and however events and reads interleave: no
\* byte waits at the server without an event that makes the server read it.
THEOREM InputIsRead == Spec => []NoStrandedInput
<1>1. Init => NoStrandedInput
  BY DEF Init, NoStrandedInput
<1> QED
  BY <1>1, TypeInit, TypeStep, StrandedStep, PTL DEF Spec

-----------------------------------------------------------------------------
(* A request is dispatched once *)

\* Segments that fit still do when the next piece arrives.
LEMMA FitsMore ==
    ASSUME NEW s \in Seq(Segments), NEW n \in Nat, Fits(s, n), NEW segment \in Segments,
           \/ segment = "rest"
           \/ segment = "head" /\ s \in {<<>>, <<"prefix">>}
    PROVE  Fits(Append(s, segment), n + 1)
<1> DEFINE t == Append(s, segment)
<1>1. /\ Len(s) \in Nat /\ Len(t) = Len(s) + 1
      /\ t[Len(s) + 1] = segment
      /\ \A j \in 1 .. Len(s) : t[j] = s[j]
  BY AppendProperties
<1>2. ASSUME NEW j \in 2 .. Len(t)
      PROVE  t[j] = "rest" \/ (j = 2 /\ t[1] = "prefix" /\ t[2] = "head")
  <2>1. CASE j <= Len(s)
    BY <1>1, <2>1 DEF Fits
  <2>2. CASE j = Len(s) + 1
    <3>1. CASE segment = "rest"
      BY <1>1, <2>2, <3>1
    <3>2. CASE s = <<"prefix">>
      BY <1>1, <1>2, <2>2, <3>2
    <3>3. s # <<>>
      BY <1>2, <2>2
    <3> QED
      BY <3>1, <3>2, <3>3
  <2> QED
    BY <1>1, <2>1, <2>2
<1>3. t = <<>> \/ t[1] = "prefix" \/ Len(t) <= n + 1
  <2>1. CASE s = <<>>
    BY <1>1, <2>1
  <2>2. CASE s # <<>>
    <3>1. t[1] = s[1]
      BY <1>1, <2>2
    <3> QED
      BY <1>1, <2>2, <3>1 DEF Fits
  <2> QED
    BY <2>1, <2>2
<1> QED
  BY <1>2, <1>3 DEF Fits

\* A piece other than the head brings no head.
LEMMA RestHasNoHead ==
    ASSUME NEW s \in Seq(Segments), HasHead(Append(s, "rest"))
    PROVE  HasHead(s)
<1>1. /\ Len(s) \in Nat /\ Len(Append(s, "rest")) = Len(s) + 1
      /\ Append(s, "rest")[Len(s) + 1] = "rest"
      /\ \A j \in 1 .. Len(s) : Append(s, "rest")[j] = s[j]
  BY AppendProperties DEF Segments
<1>2. PICK i \in 1 .. Len(Append(s, "rest")) : Append(s, "rest")[i] = "head"
  BY DEF HasHead
<1>3. i \in 1 .. Len(s)
  BY <1>1, <1>2
<1> QED
  BY <1>1, <1>2, <1>3 DEF HasHead

\* What begins with the head is a beginning of the message.
LEMMA FitsBody ==
    ASSUME NEW s \in Seq(Segments), NEW n \in Nat, Fits(s, n), s # <<>>, s[1] = "head"
    PROVE  Len(s) \in 1 .. n /\ s = Body(Len(s))
<1>1. Len(s) \in 1 .. n
  BY DEF Fits
<1>2. \A j \in 2 .. Len(s) : s[j] = "rest"
  BY DEF Fits
<1>3. s = [j \in 1 .. Len(s) |-> s[j]]
  OBVIOUS
<1>4. \A j \in 1 .. Len(s) : s[j] = IF j = 1 THEN "head" ELSE "rest"
  BY <1>1, <1>2
<1> QED
  BY <1>1, <1>3, <1>4 DEF Body

\* A step that sends, reads and dispatches nothing; it may throw input away.
Quiet ==
    /\ UNCHANGED <<sent, served>>
    /\ in' \in [Clients -> Seq(Segments)] /\ \A c \in Clients : in'[c] \in {in[c], <<>>}
    /\ sv' # "process" \/ UNCHANGED <<sv, cur, msg>>

LEMMA QuietKeepsBody == TypeInv /\ BodyInv /\ Quiet => BodyInv'
<1> SUFFICES ASSUME TypeInv, BodyInv, Quiet
             PROVE  BodyInv'
  OBVIOUS
<1>1. ~HasHead(<<>>) /\ \A n \in Nat : Fits(<<>>, n)
  BY EmptySeq DEF HasHead, Fits
<1>2. \A c \in Clients : sent[c] \in Nat
  <2>1. sent \in [Clients -> 0 .. MaxParts]
    BY DEF TypeInv, TypeOK
  <2> QED
    BY <2>1, WireAssumption
<1>3. \A c \in Clients : Processing(c)' => Processing(c)
  BY DEF Quiet, Processing
<1>4. sv' = "process" => Fits(msg, sent[cur])'
  BY DEF Quiet, BodyInv
<1>5. DispatchedIsSent'
  BY DEF Quiet, BodyInv, DispatchedIsSent
<1>6. ASSUME NEW c \in Clients
      PROVE  /\ Fits(in[c], sent[c])'
             /\ sent'[c] = 0 => /\ in'[c] \in {<<>>, <<"prefix">>}
                                /\ served'[c] = <<>> /\ ~Processing(c)'
             /\ served'[c] # <<>> => ~HasHead(in[c])' /\ ~Processing(c)'
             /\ HasHead(in[c])' => ~Processing(c)'
  <2>1. /\ in'[c] = in[c] \/ in'[c] = <<>>
        /\ sent'[c] = sent[c] /\ served'[c] = served[c]
    BY DEF Quiet
  <2>2. HasHead(in'[c]) => HasHead(in[c])
    BY <1>1, <2>1
  <2>3. Fits(in'[c], sent[c])
    BY <1>1, <1>2, <2>1 DEF BodyInv
  <2> QED
    BY <1>3, <2>1, <2>2, <2>3 DEF BodyInv
<1> QED
  BY <1>4, <1>5, <1>6 DEF BodyInv

\* A piece that arrives is the head only when nothing of the message was read.
LEMMA PieceKeepsBody ==
    ASSUME TypeInv, BodyInv, NEW c \in Clients, SendPiece(c), UNCHANGED threadVars
    PROVE  BodyInv'
<1> DEFINE segment == IF sent[c] = 0 THEN "head" ELSE "rest"
<1>1. /\ sent[c] \in Nat /\ sent' = [sent EXCEPT ![c] = sent[c] + 1]
      /\ sent'[c] = sent[c] + 1 /\ \A d \in Clients \ {c} : sent'[d] = sent[d]
      /\ \A d \in Clients : sent[d] \in Nat /\ sent'[d] \in Nat /\ sent[d] <= sent'[d]
  BY WireAssumption DEF TypeInv, TypeOK, SendPiece
<1>2. /\ in'[c] = in[c] \/ in'[c] = Append(in[c], segment)
      /\ \A d \in Clients \ {c} : in'[d] = in[d]
      /\ in[c] \in Seq(Segments)
  BY DEF TypeInv, TypeOK, SendPiece, Arrive
<1>3. UNCHANGED <<sv, cur, msg, served>>
  BY DEF threadVars
<1>4. \A d \in Clients : Processing(d)' <=> Processing(d)
  BY <1>3 DEF Processing
<1>5. Fits(in[c], sent[c])
  BY DEF BodyInv
<1>6. Fits(in'[c], sent'[c])
  <2>1. CASE in'[c] = in[c]
    BY <1>1, <1>2, <1>5, <2>1 DEF Fits
  <2>2. CASE in'[c] = Append(in[c], segment)
    <3>1. segment \in Segments
      BY DEF Segments
    <3>2. segment = "rest" \/ (segment = "head" /\ in[c] \in {<<>>, <<"prefix">>})
      BY DEF BodyInv
    <3>3. Fits(Append(in[c], segment), sent[c] + 1)
      BY <1>1, <1>2, <1>5, <3>1, <3>2, FitsMore
    <3> QED
      BY <1>1, <2>2, <3>3
  <2> QED
    BY <1>2, <2>1, <2>2
<1>7. HasHead(in'[c]) => HasHead(in[c]) \/ sent[c] = 0
  BY <1>2, RestHasNoHead
<1>8. ASSUME NEW d \in Clients
      PROVE  /\ Fits(in[d], sent[d])'
             /\ sent'[d] = 0 => /\ in'[d] \in {<<>>, <<"prefix">>}
                                /\ served'[d] = <<>> /\ ~Processing(d)'
             /\ served'[d] # <<>> => ~HasHead(in[d])' /\ ~Processing(d)'
             /\ HasHead(in[d])' => ~Processing(d)'
  <2>1. CASE d = c
    <3>1. served'[c] # <<>> => ~HasHead(in'[c]) /\ ~Processing(c)'
      BY <1>3, <1>4, <1>7 DEF BodyInv
    <3>2. HasHead(in'[c]) => ~Processing(c)'
      BY <1>4, <1>7 DEF BodyInv
    <3> QED
      BY <1>1, <1>6, <2>1, <3>1, <3>2
  <2>2. CASE d # c
    BY <1>1, <1>2, <1>3, <1>4, <2>2 DEF BodyInv
  <2> QED
    BY <2>1, <2>2
<1>9. sv' = "process" => Fits(msg, sent[cur])'
  <2> SUFFICES ASSUME sv = "process"
               PROVE  Fits(msg, sent'[cur])
    BY <1>3
  <2>1. cur \in Clients /\ Fits(msg, sent[cur]) /\ Len(msg) \in Nat
    BY DEF TypeInv, TypeOK, BatchInv, Busy, BodyInv
  <2> QED
    BY <1>1, <2>1 DEF Fits
<1>10. DispatchedIsSent'
  <2> SUFFICES ASSUME NEW d \in Clients
               PROVE  /\ Len(served'[d]) <= 1
                      /\ \A i \in DOMAIN served'[d] :
                           \E n \in 1 .. sent'[d] : served'[d][i] = Body(n)
    BY DEF DispatchedIsSent
  <2>1. 1 .. sent[d] \subseteq 1 .. sent'[d]
    BY <1>1
  <2> QED
    BY <1>3, <2>1 DEF BodyInv, DispatchedIsSent
<1> QED
  BY <1>8, <1>9, <1>10 DEF BodyInv

\* No step makes a second head of one, or reads pieces out of order.
LEMMA BodyStep == TypeInv /\ BodyInv /\ [Next]_vars => BodyInv'
<1> SUFFICES ASSUME TypeInv, BodyInv, [Next]_vars
             PROVE  BodyInv'
  OBVIOUS
<1> USE DEF TypeInv, TypeOK, clientVars, threadVars, serverVars, Quiet
<1>1. ASSUME NEW c \in Clients, SendPrefix(c)
      PROVE  BodyInv'
  <2>1. /\ in[c] = <<>> /\ sent[c] = 0
        /\ in'[c] \in {<<>>, <<"prefix">>}
        /\ \A d \in Clients \ {c} : in'[d] = in[d]
        /\ UNCHANGED <<sent, sv, cur, msg, served>>
    <3>1. /\ cl[c] = "prefix" /\ in' = [in EXCEPT ![c] =
                 IF srv[c] \in {"none", "open"} THEN Append(in[c], "prefix") ELSE in[c]]
          /\ UNCHANGED <<sent, sv, cur, msg, served>>
      BY <1>1 DEF SendPrefix, Arrive
    <3>2. in[c] = <<>> /\ sent[c] = 0
      BY <3>1 DEF SegmentsInv
    <3>3. in'[c] \in {<<>>, <<"prefix">>}
      BY <3>1, <3>2
    <3> QED
      BY <3>1, <3>2, <3>3
  <2>2. /\ ~HasHead(<<>>) /\ ~HasHead(<<"prefix">>)
        /\ Fits(<<>>, 0) /\ Fits(<<"prefix">>, 0)
    BY DEF HasHead, Fits
  <2>3. \A d \in Clients : Processing(d)' <=> Processing(d)
    BY <2>1 DEF Processing
  <2>4. sv' = "process" => Fits(msg, sent[cur])'
    BY <2>1 DEF BodyInv
  <2>5. DispatchedIsSent'
    BY <2>1 DEF BodyInv, DispatchedIsSent
  <2>6. ASSUME NEW d \in Clients
        PROVE  /\ Fits(in[d], sent[d])'
               /\ sent'[d] = 0 => /\ in'[d] \in {<<>>, <<"prefix">>}
                                  /\ served'[d] = <<>> /\ ~Processing(d)'
               /\ served'[d] # <<>> => ~HasHead(in[d])' /\ ~Processing(d)'
               /\ HasHead(in[d])' => ~Processing(d)'
    <3>1. CASE d = c
      BY <2>1, <2>2, <2>3, <3>1 DEF BodyInv
    <3>2. CASE d # c
      BY <2>1, <2>3, <3>2 DEF BodyInv
    <3> QED
      BY <3>1, <3>2
  <2> QED
    BY <2>4, <2>5, <2>6 DEF BodyInv
<1>2. ASSUME NEW c \in Clients, SendPart(c) \/ SendBody(c)
      PROVE  BodyInv'
  <2>1. SendPiece(c) /\ UNCHANGED threadVars
    BY <1>2 DEF SendPart, SendBody
  <2> QED
    BY <2>1, PieceKeepsBody
<1>10. ASSUME NEW c \in Clients, ReceiveBurst(c)
      PROVE  BodyInv'
  <2>1. /\ sv = "batch" /\ sv' = "process" /\ cur' = c /\ msg' = in[c]
        /\ in'[c] = <<>> /\ \A d \in Clients \ {c} : in'[d] = in[d]
        /\ UNCHANGED <<sent, served>>
    BY <1>10 DEF ReceiveBurst
  <2>2. /\ ~HasHead(<<>>) /\ ~HasHead(<<"prefix">>)
        /\ sent[c] \in Nat /\ Fits(<<>>, sent[c])
    BY WireAssumption DEF HasHead, Fits
  <2>3. /\ Processing(c)' => HasHead(in[c])
        /\ \A d \in Clients \ {c} : ~Processing(d)'
    BY <2>1 DEF Processing
  <2>4. sv' = "process" => Fits(msg, sent[cur])'
    BY <2>1 DEF BodyInv
  <2>5. DispatchedIsSent'
    BY <2>1 DEF BodyInv, DispatchedIsSent
  <2>6. ASSUME NEW d \in Clients
        PROVE  /\ Fits(in[d], sent[d])'
               /\ sent'[d] = 0 => /\ in'[d] \in {<<>>, <<"prefix">>}
                                  /\ served'[d] = <<>> /\ ~Processing(d)'
               /\ served'[d] # <<>> => ~HasHead(in[d])' /\ ~Processing(d)'
               /\ HasHead(in[d])' => ~Processing(d)'
    <3>1. CASE d = c
      BY <2>1, <2>2, <2>3, <3>1 DEF BodyInv
    <3>2. CASE d # c
      BY <2>1, <2>3, <3>2 DEF BodyInv
    <3> QED
      BY <3>1, <3>2
  <2> QED
    BY <2>4, <2>5, <2>6 DEF BodyInv
<1>15. ASSUME ProcessRequest
      PROVE  BodyInv'
  <2>1. /\ sv = "process" /\ sv' = "send" /\ msg[1] = "head"
        /\ cur \in Clients /\ msg \in Seq(Segments) /\ msg # <<>>
        /\ served'[cur] = Append(served[cur], msg)
        /\ \A d \in Clients \ {cur} : served'[d] = served[d]
        /\ UNCHANGED <<sent, in>>
    BY <1>15 DEF ProcessRequest, Dispatched, BatchInv, Busy
  <2>2. Processing(cur)
    BY <2>1 DEF Processing, HasHead
  <2>3. /\ served[cur] = <<>> /\ ~HasHead(in[cur]) /\ sent[cur] # 0
        /\ Fits(msg, sent[cur]) /\ sent[cur] \in Nat
    BY <2>1, <2>2, WireAssumption DEF BodyInv
  <2>4. Len(msg) \in 1 .. sent[cur] /\ msg = Body(Len(msg))
    BY <2>1, <2>3, FitsBody
  <2>5. \A d \in Clients : ~Processing(d)'
    BY <2>1 DEF Processing
  <2>6. DispatchedIsSent'
    <3> SUFFICES ASSUME NEW d \in Clients
                 PROVE  /\ Len(served'[d]) <= 1
                        /\ \A i \in DOMAIN served'[d] :
                             \E n \in 1 .. sent'[d] : served'[d][i] = Body(n)
      BY DEF DispatchedIsSent
    <3>1. CASE d = cur
      <4>1. served'[d] = <<msg>>
        BY <2>1, <2>3, <3>1
      <4>2. Len(served'[d]) = 1 /\ DOMAIN served'[d] = {1} /\ served'[d][1] = msg
        BY <4>1
      <4>3. sent'[d] = sent[cur]
        BY <2>1, <3>1
      <4> QED
        BY <2>4, <4>2, <4>3
    <3>2. CASE d # cur
      BY <2>1, <3>2 DEF BodyInv, DispatchedIsSent
    <3> QED
      BY <3>1, <3>2
  <2>7. ASSUME NEW d \in Clients
        PROVE  /\ Fits(in[d], sent[d])'
               /\ sent'[d] = 0 => /\ in'[d] \in {<<>>, <<"prefix">>}
                                  /\ served'[d] = <<>> /\ ~Processing(d)'
               /\ served'[d] # <<>> => ~HasHead(in[d])' /\ ~Processing(d)'
               /\ HasHead(in[d])' => ~Processing(d)'
    <3>1. CASE d = cur
      BY <2>1, <2>3, <2>5, <3>1 DEF BodyInv
    <3>2. CASE d # cur
      BY <2>1, <2>5, <3>2 DEF BodyInv
    <3> QED
      BY <3>1, <3>2
  <2> QED
    BY <2>1, <2>6, <2>7 DEF BodyInv
<1>3. ASSUME NEW c \in Clients, Connect(c)
      PROVE  Quiet
  BY <1>3 DEF Connect
<1>4. ASSUME NEW c \in Clients, SendThrows(c)
      PROVE  Quiet
  BY <1>4 DEF SendThrows
<1>5. ASSUME NEW c \in Clients, SendKills(c)
      PROVE  Quiet
  BY <1>5 DEF SendKills
<1>6. ASSUME NEW c \in Clients, ReceiveLength(c)
      PROVE  Quiet
  BY <1>6 DEF ReceiveLength
<1>7. ASSUME NEW c \in Clients, ReceiveTimesOut(c)
      PROVE  Quiet
  BY <1>7 DEF ReceiveTimesOut
<1>8. ASSUME NEW c \in Clients, Disconnect(c)
      PROVE  Quiet
  BY <1>8 DEF Disconnect
<1>9. ASSUME NEW c \in Clients, Accept(c)
      PROVE  Quiet
  BY <1>9 DEF Accept
<1>11. ASSUME NEW c \in Clients, ReceiveEnd(c)
      PROVE  Quiet
  BY <1>11 DEF ReceiveEnd
<1>12. ASSUME NEW c \in Clients, ReceiveNothing(c)
      PROVE  Quiet
  BY <1>12 DEF ReceiveNothing
<1>13. ASSUME EpollWait
      PROVE  Quiet
  BY <1>13 DEF EpollWait
<1>14. ASSUME BatchEnds
      PROVE  Quiet
  BY <1>14 DEF BatchEnds
<1>16. ASSUME IgnoreUnknown
      PROVE  Quiet
  BY <1>16 DEF IgnoreUnknown
<1>17. ASSUME SendReply
      PROVE  Quiet
  BY <1>17 DEF SendReply
<1>18. ASSUME SendReplyFails
      PROVE  Quiet
  BY <1>18, EmptySeq DEF SendReplyFails, BatchInv, Busy
<1>19. ASSUME ReplyEnds
      PROVE  Quiet
  BY <1>19 DEF ReplyEnds
<1>20. ASSUME LoopEnds
      PROVE  Quiet
  BY <1>20 DEF LoopEnds
<1>21. ASSUME Stop
      PROVE  Quiet
  BY <1>21 DEF Stop
<1>22. ASSUME Exit
      PROVE  Quiet
  BY <1>22 DEF Exit
<1>23. CASE UNCHANGED vars
  <2>1. Quiet
    BY <1>23 DEF vars
  <2> QED
    BY <2>1, QuietKeepsBody
<1> QED
  BY <1>1, <1>2, <1>3, <1>4, <1>5, <1>6, <1>7, <1>8, <1>9, <1>10, <1>11,
     <1>12, <1>13, <1>14, <1>15, <1>16, <1>17, <1>18, <1>19, <1>20, <1>21,
     <1>22, <1>23, QuietKeepsBody DEF Next, Client, Server

\* However a request is cut into pieces and the server's reads fall between them:
\* at most one message of a connection is dispatched, and that is a beginning of
\* what its client has sent so far.  That it may be cut is part of the statement:
\* receiveMessage passes on what a short read returned.
THEOREM DispatchCorrect == Spec => []DispatchedIsSent
<1>1. Init => BodyInv
  <2> SUFFICES ASSUME Init
               PROVE  BodyInv
    OBVIOUS
  <2>1. ~HasHead(<<>>) /\ Fits(<<>>, 0)
    BY EmptySeq DEF HasHead, Fits
  <2>2. /\ sv = "wait"
        /\ \A c \in Clients : in[c] = <<>> /\ sent[c] = 0 /\ served[c] = <<>>
    BY DEF Init
  <2>3. DispatchedIsSent
    <3> SUFFICES ASSUME NEW c \in Clients
                 PROVE  /\ Len(served[c]) <= 1
                        /\ \A i \in DOMAIN served[c] :
                             \E n \in 1 .. sent[c] : served[c][i] = Body(n)
      BY DEF DispatchedIsSent
    <3>1. served[c] = <<>> /\ Len(<<>>) = 0 /\ DOMAIN <<>> = {}
      BY <2>2
    <3> QED
      BY <3>1
  <2> QED
    BY <2>1, <2>2, <2>3 DEF BodyInv, Processing
<1>2. BodyInv => DispatchedIsSent
  BY DEF BodyInv
<1> QED
  BY <1>1, <1>2, TypeInit, TypeStep, BodyStep, PTL DEF Spec
=============================================================================
