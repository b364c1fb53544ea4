-------------------------------- MODULE Wire --------------------------------
(***************************************************************************)
(* Client.cpp and Server.cpp on one another's bytes: clients that connect, *)
(* send one request, wait for the answer and disconnect, and the single    *)
(* thread of Server with its edge-triggered epoll set.                     *)
(*                                                                         *)
(* Client::sendMessage writes a 4-byte length with one send(), "prefix",   *)
(* and the message with as many as it takes: "head", the piece that begins *)
(* with the message's type, and "rest", a piece that begins somewhere in   *)
(* a name.  Server::receiveMessage takes what is there;                    *)
(* Server::sendMessage writes the message without a length.                *)
(***************************************************************************)
EXTENDS Naturals, Sequences

CONSTANTS Clients,    \* one Client object with one connection each
          MaxParts,   \* bound: pieces in which a message is sent
          MaxChunks,  \* bound: chunks of the longest file
          Window      \* bound: reply messages the socket buffers hold

Listener == "listener"   \* the listening socket, as an epoll event

ASSUME WireAssumption ==
    /\ MaxParts \in Nat \ {0} /\ MaxChunks \in Nat /\ Window \in Nat \ {0}
    /\ Listener \notin Clients

VARIABLES
    cl,       \* [Clients -> step of the client]
    kind,     \* [Clients -> request it makes, "none" before it does]
    result,   \* [Clients -> how its call ended]
    sent,     \* [Clients -> pieces of the message that were sent]
    fin,      \* [Clients -> has the client closed its socket]
    in,       \* [Clients -> segments the server has not read]
    out,      \* [Clients -> reply messages the client has not read]
    srv,      \* [Clients -> the server's side of the connection]
    edge,     \* [Clients -> is the connection on epoll's ready list]
    sv,       \* step of the server thread
    batch,    \* events of the last epoll_wait not handled yet
    cur,      \* the connection being handled
    msg,      \* the segments it was read from
    reply,    \* reply messages still to be sent to it
    running,  \* the server's flag
    served    \* history: [Clients -> messages dispatched]

clientVars == <<cl, kind, result, sent, fin>>
threadVars == <<sv, batch, cur, msg, reply, running, served>>
serverVars == <<srv, threadVars>>
vars == <<clientVars, in, out, edge, serverVars>>

Kinds == {"ping", "list", "file"}

\* Messages of four bytes and more: an empty list and FILE_COMPLETE are one
\* byte, and the client waits for four.
Long == {"list", "chunk", "error"}

Replies(k) ==
    CASE k = "list" -> {<<"list">>, <<"empty_list">>}
      [] k = "file" -> {<<"error">>} \cup
                       {[i \in 1 .. n + 1 |-> IF i <= n THEN "chunk" ELSE "complete"] :
                          n \in 0 .. MaxChunks}

\* Mutant: the first byte of a message is not looked at.
DispatchedAny(m, k) == k # "ping"

\* Only the head has a type byte: a length begins with zero, names with more than
\* any type.  PING has no case in the switch.
Dispatched(m, k) == Head(m) = "head" /\ k # "ping"

\* Server::sendMessage writes no length, so that the client takes the type
\* byte for the top byte of one: 2^24 at least, over the limit of 10 MB.
LengthSent == FALSE

Backlog == {c \in Clients : cl[c] # "idle" /\ srv[c] = "none"}

Gone == sv = "gone"

Init ==
    /\ cl = [c \in Clients |-> "idle"]
    /\ kind = [c \in Clients |-> "none"]
    /\ result = [c \in Clients |-> "none"]
    /\ sent = [c \in Clients |-> 0]
    /\ fin = [c \in Clients |-> FALSE]
    /\ in = [c \in Clients |-> <<>>]
    /\ out = [c \in Clients |-> <<>>]
    /\ srv = [c \in Clients |-> "none"]
    /\ edge = [c \in Clients |-> FALSE]
    /\ sv = "wait"
    /\ batch = {}
    /\ cur = Listener
    /\ msg = <<>>
    /\ reply = <<>>
    /\ running = TRUE
    /\ served = [c \in Clients |-> <<>>]

-----------------------------------------------------------------------------
(* The clients *)

\* The kernel completes the handshake; accept comes later.
Connect(c) ==
    /\ cl[c] = "idle"
    /\ sv \notin {"stopped", "gone"}
    /\ cl' = [cl EXCEPT ![c] = "prefix"]
    /\ UNCHANGED <<kind, result, sent, fin, in, out, edge, serverVars>>

\* A segment arrives: an accepted connection goes on epoll's ready list.  A
\* server side that is closed answers it with a reset.
Arrive(c, segment) ==
    /\ in' = [in EXCEPT ![c] = IF srv[c] \in {"none", "open"} THEN Append(@, segment)
                              ELSE @]
    /\ edge' = [edge EXCEPT ![c] = @ \/ srv[c] = "open"]
    /\ srv' = [srv EXCEPT ![c] = IF @ = "closed" THEN "refused" ELSE @]

\* A call on the connection: ping(), a request for a list, or for a file.
SendPrefix(c) ==
    /\ cl[c] = "prefix"
    /\ cl' = [cl EXCEPT ![c] = "body"]
    /\ \E k \in Kinds : kind' = [kind EXCEPT ![c] = k]
    /\ Arrive(c, "prefix")
    /\ UNCHANGED <<result, sent, fin, out, threadVars>>

SendPiece(c) ==
    /\ cl[c] = "body"
    /\ Arrive(c, IF sent[c] = 0 THEN "head" ELSE "rest")
    /\ sent' = [sent EXCEPT ![c] = @ + 1]

\* send() takes less than all of it, and the loop goes on.  PING and
\* PEER_LIST_REQUEST are one byte, and the id that FILE_LIST_REQUEST adds to that
\* is used by no handler: a "list" is sent in one piece.
SendPart(c) ==
    /\ SendPiece(c)
    /\ kind[c] = "file"
    /\ sent[c] + 1 < MaxParts
    /\ UNCHANGED <<cl, kind, result, fin, out, threadVars>>

SendBody(c) ==
    /\ SendPiece(c)
    /\ IF kind[c] = "ping"
         THEN /\ cl' = [cl EXCEPT ![c] = "leave"]
              /\ result' = [result EXCEPT ![c] = "pinged"]
         ELSE /\ cl' = [cl EXCEPT ![c] = "receive"]
              /\ UNCHANGED result
    /\ UNCHANGED <<kind, fin, out, threadVars>>

\* The connection was reset: send() returns an error and the call throws.
SendThrows(c) ==
    /\ cl[c] \in {"prefix", "body"}
    /\ srv[c] = "reset"
    /\ cl' = [cl EXCEPT ![c] = "leave"]
    /\ result' = [result EXCEPT ![c] = "failed"]
    /\ UNCHANGED <<kind, sent, fin, in, out, edge, serverVars>>

\* The peer had closed when a segment was sent, and has answered it with a
\* reset: the next one is sent without MSG_NOSIGNAL and raises SIGPIPE, which is
\* neither caught nor ignored.
SendKills(c) ==
    /\ cl[c] = "body"
    /\ srv[c] = "refused"
    /\ cl' = [cl EXCEPT ![c] = "killed"]
    /\ result' = [result EXCEPT ![c] = "failed"]
    /\ fin' = [fin EXCEPT ![c] = TRUE]
    /\ UNCHANGED <<kind, sent, in, out, edge, serverVars>>

\* recv(MSG_WAITALL) has its four bytes.
ReceiveLength(c) ==
    /\ cl[c] = "receive"
    /\ \E i \in DOMAIN out[c] : out[c][i] \in Long
    /\ cl' = [cl EXCEPT ![c] = "leave"]
    /\ result' = [result EXCEPT ![c] = IF LengthSent THEN "answered" ELSE "failed"]
    /\ UNCHANGED <<kind, sent, fin, in, out, edge, serverVars>>

\* Mutant: the socket has no timeout, and only a closed connection ends recv.
ReceiveTimesOutNever(c) ==
    /\ cl[c] = "receive"
    /\ srv[c] \in {"closed", "reset"}
    /\ cl' = [cl EXCEPT ![c] = "leave"]
    /\ result' = [result EXCEPT ![c] = "failed"]
    /\ UNCHANGED <<kind, sent, fin, in, out, edge, serverVars>>

\* 10 s without four bytes, or the connection is gone.
ReceiveTimesOut(c) ==
    /\ cl[c] = "receive"
    /\ \A i \in DOMAIN out[c] : out[c][i] \notin Long
    /\ cl' = [cl EXCEPT ![c] = "leave"]
    /\ result' = [result EXCEPT ![c] = "failed"]
    /\ UNCHANGED <<kind, sent, fin, in, out, edge, serverVars>>

\* Mutant: the client object goes without closing its socket.
DisconnectLeak(c) ==
    /\ cl[c] = "leave"
    /\ cl' = [cl EXCEPT ![c] = "closed"]
    /\ UNCHANGED <<kind, result, sent, fin, in, out, edge, serverVars>>

\* The Client is disconnected or destroyed, whatever the call returned.
Disconnect(c) ==
    /\ cl[c] = "leave"
    /\ cl' = [cl EXCEPT ![c] = "closed"]
    /\ fin' = [fin EXCEPT ![c] = TRUE]
    /\ out' = [out EXCEPT ![c] = <<>>]
    /\ edge' = [edge EXCEPT ![c] = @ \/ srv[c] = "open"]
    /\ UNCHANGED <<kind, result, sent, in, serverVars>>

Client(c) ==
    \/ SendPrefix(c) \/ SendPart(c) \/ SendBody(c) \/ SendThrows(c) \/ SendKills(c)
    \/ ReceiveLength(c) \/ ReceiveTimesOut(c)
    \/ Disconnect(c)

-----------------------------------------------------------------------------
(* The server thread *)

Ready == {c \in Clients : srv[c] = "open" /\ edge[c]}
           \cup (IF Backlog = {} THEN {} ELSE {Listener})

\* Connections are edge-triggered: being reported takes them off the list.
EpollWait ==
    /\ sv = "wait" /\ running /\ Ready # {}
    /\ sv' = "batch"
    /\ batch' = Ready
    /\ edge' = [c \in Clients |-> edge[c] /\ c \notin Ready]
    /\ UNCHANGED <<clientVars, in, out, srv, cur, msg, reply, running, served>>

BatchEnds ==
    /\ sv = "batch" /\ batch = {}
    /\ sv' = "wait"
    /\ UNCHANGED <<clientVars, in, out, edge, srv, batch, cur, msg, reply,
                   running, served>>

\* One accept per event.  What had arrived before EPOLL_CTL_ADD is reported.
Accept(c) ==
    /\ sv = "batch" /\ Listener \in batch
    /\ c \in Backlog
    /\ batch' = batch \ {Listener}
    /\ srv' = [srv EXCEPT ![c] = "open"]
    /\ edge' = [edge EXCEPT ![c] = in[c] # <<>> \/ fin[c]]
    /\ UNCHANGED <<clientVars, in, out, sv, cur, msg, reply, running, served>>

\* Mutant: one event, one segment.
ReceiveSegment(c) ==
    /\ sv = "batch" /\ c \in batch
    /\ in[c] # <<>>
    /\ batch' = batch \ {c}
    /\ cur' = c
    /\ msg' = <<Head(in[c])>>
    /\ in' = [in EXCEPT ![c] = Tail(@)]
    /\ sv' = "process"
    /\ UNCHANGED <<clientVars, out, edge, srv, reply, running, served>>

\* A short read ends receiveMessage: what was there is the message, be it all of
\* the client's, or a part, or the length and a part.
ReceiveBurst(c) ==
    /\ sv = "batch" /\ c \in batch
    /\ in[c] # <<>>
    /\ batch' = batch \ {c}
    /\ cur' = c
    /\ msg' = in[c]
    /\ in' = [in EXCEPT ![c] = <<>>]
    /\ sv' = "process"
    /\ UNCHANGED <<clientVars, out, edge, srv, reply, running, served>>

\* recv returns 0: "Connection closed by peer" is thrown and the socket closed.
ReceiveEnd(c) ==
    /\ sv = "batch" /\ c \in batch
    /\ in[c] = <<>> /\ fin[c]
    /\ batch' = batch \ {c}
    /\ srv' = [srv EXCEPT ![c] = "closed"]
    /\ edge' = [edge EXCEPT ![c] = FALSE]
    /\ UNCHANGED <<clientVars, in, out, sv, cur, msg, reply, running, served>>

\* EAGAIN: an earlier burst took what this event was about.
ReceiveNothing(c) ==
    /\ sv = "batch" /\ c \in batch
    /\ in[c] = <<>> /\ ~fin[c]
    /\ batch' = batch \ {c}
    /\ UNCHANGED <<clientVars, in, out, edge, srv, sv, cur, msg, reply,
                   running, served>>

ProcessRequest ==
    /\ sv = "process"
    /\ Dispatched(msg, kind[cur])
    /\ sv' = "send"
    /\ reply' \in Replies(kind[cur])
    /\ served' = [served EXCEPT ![cur] = Append(@, msg)]
    /\ msg' = <<>>
    /\ UNCHANGED <<clientVars, in, out, edge, srv, batch, cur, running>>

\* "Unknown message type" is logged and the bytes are lost.
IgnoreUnknown ==
    /\ sv = "process"
    /\ ~Dispatched(msg, kind[cur])
    /\ sv' = "batch" /\ cur' = Listener
    /\ msg' = <<>>
    /\ UNCHANGED <<clientVars, in, out, edge, srv, batch, reply, running, served>>

\* With a full window send() says EAGAIN and the loop spins: no step.
SendReply ==
    /\ sv = "send" /\ reply # <<>>
    /\ fin[cur] \/ Len(out[cur]) < Window
    /\ out' = [out EXCEPT ![cur] = IF fin[cur] THEN @ ELSE Append(@, Head(reply))]
    /\ reply' = Tail(reply)
    /\ UNCHANGED <<clientVars, in, edge, srv, sv, batch, cur, msg, running, served>>

\* Mutant: the socket is closed and the loop goes on sending to it.
SendReplyFailsOn ==
    /\ sv = "send" /\ reply # <<>>
    /\ fin[cur]
    /\ srv' = [srv EXCEPT ![cur] = "closed"]
    /\ reply' = Tail(reply)
    /\ UNCHANGED <<clientVars, in, out, edge, sv, batch, cur, msg, running, served>>

\* The client is gone: sendMessage throws up to handleClientConnection.
SendReplyFails ==
    /\ sv = "send" /\ reply # <<>>
    /\ fin[cur]
    /\ srv' = [srv EXCEPT ![cur] = "closed"]
    /\ in' = [in EXCEPT ![cur] = <<>>]
    /\ edge' = [edge EXCEPT ![cur] = FALSE]
    /\ reply' = <<>>
    /\ sv' = "batch" /\ cur' = Listener
    /\ UNCHANGED <<clientVars, out, batch, msg, running, served>>

ReplyEnds ==
    /\ sv = "send" /\ reply = <<>>
    /\ sv' = "batch" /\ cur' = Listener
    /\ UNCHANGED <<clientVars, in, out, edge, srv, batch, msg, reply, running,
                   served>>

\* The loop ends and stop() closes the epoll and the listening socket, but no
\* connection.
LoopEnds ==
    /\ sv = "wait" /\ ~running
    /\ sv' = "stopped"
    /\ srv' = [c \in Clients |-> IF c \in Backlog THEN "reset" ELSE srv[c]]
    /\ in' = [c \in Clients |-> IF c \in Backlog THEN <<>> ELSE in[c]]
    /\ UNCHANGED <<clientVars, out, edge, batch, cur, msg, reply, running, served>>

Server ==
    \/ EpollWait \/ BatchEnds
    \/ \E c \in Clients : \/ Accept(c)
                          \/ ReceiveBurst(c) \/ ReceiveEnd(c) \/ ReceiveNothing(c)
    \/ ProcessRequest \/ IgnoreUnknown
    \/ SendReply \/ SendReplyFails \/ ReplyEnds
    \/ LoopEnds

Stop ==
    /\ running /\ ~Gone
    /\ running' = FALSE
    /\ UNCHANGED <<clientVars, in, out, edge, srv, sv, batch, cur, msg, reply,
                   served>>

\* The server's process ends, at any moment.  The kernel closes its sockets; it
\* resets those that hold unread bytes, or were not accepted.
Exit ==
    /\ ~Gone
    /\ sv' = "gone"
    /\ running' = FALSE
    /\ batch' = {} /\ cur' = Listener /\ msg' = <<>> /\ reply' = <<>>
    /\ in' = [c \in Clients |-> <<>>] /\ edge' = [c \in Clients |-> FALSE]
    /\ srv' = [c \in Clients |->
                 IF c \in Backlog \/ (srv[c] = "open" /\ in[c] # <<>>) THEN "reset"
                 ELSE IF srv[c] = "open" THEN "closed"
                 ELSE srv[c]]
    /\ UNCHANGED <<clientVars, out, served>>

-----------------------------------------------------------------------------

Next ==
    \/ \E c \in Clients : Connect(c) \/ Client(c)
    \/ Server
    \/ Stop \/ Exit

\* Client calls return within their timeouts; the server thread is scheduled.
Fairness == (\A c \in Clients : WF_vars(Client(c))) /\ WF_vars(Server)

Spec == Init /\ [][Next]_vars
FairSpec == Spec /\ Fairness

-----------------------------------------------------------------------------
(* Properties that hold *)

Segments == {"prefix", "head", "rest"}
Messages == {"list", "empty_list", "chunk", "complete", "error"}

TypeOK ==
    /\ cl \in [Clients -> {"idle", "prefix", "body", "receive", "leave",
                           "closed", "killed"}]
    /\ kind \in [Clients -> Kinds \cup {"none"}]
    /\ result \in [Clients -> {"none", "pinged", "answered", "failed"}]
    /\ sent \in [Clients -> 0 .. MaxParts]
    /\ fin \in [Clients -> BOOLEAN]
    /\ in \in [Clients -> Seq(Segments)]
    /\ out \in [Clients -> Seq(Messages)]
    /\ \A c \in Clients : Len(in[c]) <= MaxParts + 1 /\ Len(out[c]) <= Window
    /\ srv \in [Clients -> {"none", "open", "closed", "reset", "refused"}]
    /\ edge \in [Clients -> BOOLEAN]
    /\ sv \in {"wait", "batch", "process", "send", "stopped", "gone"}
    /\ batch \subseteq Clients \cup {Listener}
    /\ cur \in Clients \cup {Listener}
    /\ sv \in {"process", "send"} => srv[cur] = "open"
    /\ msg \in Seq(Segments) /\ Len(msg) <= MaxParts + 1
    /\ reply \in Seq(Messages) /\ Len(reply) <= MaxChunks + 1
    /\ running \in BOOLEAN
    /\ served \in [Clients -> Seq(Seq(Segments))]

\* Edge-triggered or not, no byte waits at the server without an event that
\* will make the server read it.
NoStrandedInput ==
    sv \notin {"stopped", "gone"} =>
        \A c \in Clients :
            srv[c] = "open" /\ in[c] # <<>> => edge[c] \/ c \in batch

\* The first n pieces of a message.
Body(n) == [i \in 1 .. n |-> IF i = 1 THEN "head" ELSE "rest"]

\* However a request is cut into pieces and the server's reads fall between them:
\* at most one message of a connection is dispatched, and that is a beginning of
\* what the client has sent, without the length before it.  It may be less than
\* the client goes on to send: receiveMessage calls its test for a complete
\* message `simplified'.
DispatchedIsSent ==
    \A c \in Clients :
        /\ Len(served[c]) <= 1
        /\ \A i \in DOMAIN served[c] : \E n \in 1 .. sent[c] : served[c][i] = Body(n)

\* Whatever the server does, the client's call returns and the socket closes.
ClientReturns == \A c \in Clients : cl[c] = "prefix" ~> cl[c] \in {"closed", "killed"}

\* The one server thread gets away from a client that reads nothing.
ServerMovesOn == sv = "send" ~> sv # "send"

\* However many others keep the one thread busy, while the server runs: a client
\* that has connected is accepted, and one whose end is reported by itself, with
\* nothing left to read, is closed.
Attended ==
    \A c \in Clients :
      /\ cl[c] = "prefix" ~> srv[c] # "none" \/ ~running
      /\ fin[c] /\ in[c] = <<>> /\ edge[c] /\ srv[c] = "open" ~> srv[c] = "closed" \/ ~running

-----------------------------------------------------------------------------
(* What documents and comments say, and the code does not do *)

\* PhasewiseChecklist: "[X] Exchange file lists with connected peers".  A
\* reply that has arrived is accepted.
ReplyAccepted ==
    [][\A c \in Clients : ReceiveLength(c) => result'[c] = "answered"]_vars
=============================================================================
