----------------------------- MODULE PeerManager -----------------------------
(***************************************************************************)
(* The peer table of a node: the heartbeat thread that pings the active    *)
(* peers and sweeps the stale ones, the detached thread that fills the     *)
(* table from the bootstrap nodes, stop() and the callers that remove      *)
(* peers.                                                                  *)
(*                                                                         *)
(* The table maps ids to shared Peer objects.  The heartbeat works on the  *)
(* objects of a snapshot, outside the lock, so an object may have left the *)
(* table, or been replaced under the same id, when its ping ends.          *)
(*                                                                         *)
(* Time passes in units.  What the heartbeat does without waiting takes no *)
(* time; a connect takes up to Timeout (the socket's SO_SNDTIMEO) and the  *)
(* pause between two rounds is Sleep.                                      *)
(***************************************************************************)
EXTENDS Naturals, FiniteSets

CONSTANTS Ids,       \* peer ids
          Objs,      \* Peer objects
          NoObj,     \* no object under an id
          Timeout,   \* longest connect: 10 s in the code
          Sleep,     \* pause between two rounds: 30 s in the code
          Stale,     \* oldest last_seen that is kept: 5 min in the code
          Nodes      \* number of bootstrap nodes: 2 in the code

ASSUME PeerManagerAssumption ==
    /\ NoObj \notin Objs
    /\ Timeout \in Nat /\ Sleep \in Nat /\ Stale \in Nat /\ Nodes \in Nat

VARIABLES
    table,     \* [Ids -> Objs or NoObj]: the map `peers'
    active,    \* [Objs -> BOOLEAN]: is_active
    age,       \* [Objs -> time since last_seen, up to Stale + 1]
    running,   \* the flag `running'
    hb,        \* where the heartbeat thread is
    pending,   \* objects of the snapshot that were not pinged yet
    target,    \* the object being pinged
    timer,     \* how long the heartbeat thread has been waiting
    stopper,   \* the caller of stop(): "none", "joining" or "returned"
    boot,      \* where the detached bootstrap thread is
    nodesLeft, \* bootstrap nodes it has still to ask
    idsLeft    \* peers of the list it received, still to be added

heartbeatVars == <<hb, pending, target, timer>>
bootVars == <<boot, nodesLeft, idsLeft>>
vars == <<table, active, age, running, heartbeatVars, stopper, bootVars>>

InTable == {table[i] : i \in Ids} \ {NoObj}

\* Objects nobody holds a pointer to: make_shared may return any of them.
Unused == Objs \ (InTable \cup pending \cup {target})

Init ==
    /\ table = [i \in Ids |-> NoObj]
    /\ active = [o \in Objs |-> FALSE]
    /\ age = [o \in Objs |-> 0]
    /\ running = FALSE
    /\ hb = "none"
    /\ pending = {}
    /\ target = NoObj
    /\ timer = 0
    /\ stopper = "none"
    /\ boot = "none"
    /\ nodesLeft = Nodes
    /\ idsLeft = {}

-----------------------------------------------------------------------------
(* Start and stop *)

Start ==
    /\ ~running /\ stopper = "none"
    /\ running' = TRUE
    /\ hb' = "check"
    /\ boot' = "delay"
    /\ UNCHANGED <<table, active, age, pending, target, timer, stopper,
                   nodesLeft, idsLeft>>

Stop ==
    /\ running
    /\ running' = FALSE
    /\ stopper' = "joining"
    /\ UNCHANGED <<table, active, age, heartbeatVars, bootVars>>

StopReturns ==
    /\ stopper = "joining"
    /\ hb = "exited"
    /\ stopper' = "returned"
    /\ UNCHANGED <<table, active, age, running, heartbeatVars, bootVars>>

-----------------------------------------------------------------------------
(* The heartbeat thread *)

\* Mutant: the loop does not look at `running'.
HeartbeatCheckForever ==
    /\ hb = "check"
    /\ hb' = "sweep"
    /\ UNCHANGED <<table, active, age, running, pending, target, timer, stopper,
                   bootVars>>

HeartbeatCheck ==
    /\ hb = "check"
    /\ hb' = IF running THEN "sweep" ELSE "exited"
    /\ UNCHANGED <<table, active, age, running, pending, target, timer, stopper,
                   bootVars>>

\* Under the exclusive lock, every entry not seen for too long is erased.
RemoveStalePeers ==
    /\ hb = "sweep"
    /\ hb' = "snapshot"
    /\ table' = [i \in Ids |->
                   IF table[i] # NoObj /\ age[table[i]] > Stale THEN NoObj
                   ELSE table[i]]
    /\ UNCHANGED <<active, age, running, pending, target, timer, stopper, bootVars>>

\* Mutant: every peer is copied, not only the active ones.
GetAllPeers ==
    /\ hb = "snapshot"
    /\ hb' = "next"
    /\ pending' = InTable
    /\ UNCHANGED <<table, active, age, running, target, timer, stopper, bootVars>>

\* Under the shared lock, the active peers are copied.
GetActivePeers ==
    /\ hb = "snapshot"
    /\ hb' = "next"
    /\ pending' = {o \in InTable : active[o]}
    /\ UNCHANGED <<table, active, age, running, target, timer, stopper, bootVars>>

\* The map's order is arbitrary.
PingStart(o) ==
    /\ hb = "next"
    /\ o \in pending
    /\ hb' = "connect"
    /\ pending' = pending \ {o}
    /\ target' = o
    /\ timer' = 0
    /\ UNCHANGED <<table, active, age, running, stopper, bootVars>>

\* Mutant: the thread keeps its pointer to the pinged object.
PingEndKept ==
    /\ hb = "connect"
    /\ hb' = "next"
    /\ timer' = 0
    /\ UNCHANGED <<table, running, pending, target, stopper, bootVars>>

PingEnd ==
    /\ hb = "connect"
    /\ hb' = "next"
    /\ target' = NoObj
    /\ timer' = 0
    /\ UNCHANGED <<table, running, pending, stopper, bootVars>>

\* Mutant: updateLastSeen is forgotten after the ping.
PingSucceedsUnseen ==
    /\ PingEnd
    /\ UNCHANGED <<active, age>>

PingSucceeds ==
    /\ PingEnd
    /\ age' = [age EXCEPT ![target] = 0]
    /\ UNCHANGED active

\* connect() returns false, or sending the ping throws.
PingFails ==
    /\ PingEnd
    /\ active' = [active EXCEPT ![target] = FALSE]
    /\ UNCHANGED age

RoundEnds ==
    /\ hb = "next"
    /\ pending = {}
    /\ hb' = "sleep"
    /\ timer' = 0
    /\ UNCHANGED <<table, active, age, running, pending, target, stopper, bootVars>>

Wake ==
    /\ hb = "sleep"
    /\ timer = Sleep
    /\ hb' = "check"
    /\ timer' = 0
    /\ UNCHANGED <<table, active, age, running, pending, target, stopper, bootVars>>

Heartbeat ==
    \/ HeartbeatCheck \/ RemoveStalePeers \/ GetActivePeers
    \/ \E o \in Objs : PingStart(o)
    \/ PingSucceeds \/ PingFails
    \/ RoundEnds \/ Wake

-----------------------------------------------------------------------------
(* The bootstrap thread and other callers *)

\* addPeer: an object under an id that is taken replaces the older one.
AddPeer(i, o, isActive) ==
    /\ table' = [table EXCEPT ![i] = o]
    /\ active' = [active EXCEPT ![o] = isActive]
    /\ age' = [age EXCEPT ![o] = 0]

\* A node cannot be reached or its answer is refused: the next one is tried.
BootstrapFails ==
    /\ boot = "delay" /\ nodesLeft > 0
    /\ nodesLeft' = nodesLeft - 1
    /\ UNCHANGED <<table, active, age, running, heartbeatVars, stopper, boot,
                   idsLeft>>

BootstrapList(ids) ==
    /\ boot = "delay" /\ nodesLeft > 0
    /\ nodesLeft' = nodesLeft - 1
    /\ boot' = "adding"
    /\ idsLeft' = ids
    /\ UNCHANGED <<table, active, age, running, heartbeatVars, stopper>>

BootstrapAdd(i, o, isActive) ==
    /\ boot = "adding"
    /\ i \in idsLeft
    /\ idsLeft' = idsLeft \ {i}
    /\ AddPeer(i, o, isActive)
    /\ UNCHANGED <<running, heartbeatVars, stopper, boot, nodesLeft>>

\* A line of the list that cannot be parsed is skipped.
BootstrapSkip(i) ==
    /\ boot = "adding"
    /\ i \in idsLeft
    /\ idsLeft' = idsLeft \ {i}
    /\ UNCHANGED <<table, active, age, running, heartbeatVars, stopper, boot,
                   nodesLeft>>

BootstrapListEnds ==
    /\ boot = "adding" /\ idsLeft = {}
    /\ boot' = "delay"
    /\ UNCHANGED <<table, active, age, running, heartbeatVars, stopper,
                   nodesLeft, idsLeft>>

Bootstrap ==
    \/ BootstrapFails
    \/ \E ids \in SUBSET Ids : BootstrapList(ids)
    \/ \E i \in Ids, o \in Unused, isActive \in BOOLEAN : BootstrapAdd(i, o, isActive)
    \/ \E i \in Ids : BootstrapSkip(i)
    \/ BootstrapListEnds

RemovePeer(i) ==
    /\ table[i] # NoObj
    /\ table' = [table EXCEPT ![i] = NoObj]
    /\ UNCHANGED <<active, age, running, heartbeatVars, stopper, bootVars>>

\* updatePeerFileList: the lock it holds keeps the object in the table up to its
\* last statement, updateLastSeen.  The peer is not made active by it.  (What it
\* does to the list of files is in PeerLists.)
UpdatePeerFileList(i) ==
    /\ table[i] # NoObj
    /\ age' = [age EXCEPT ![table[i]] = 0]
    /\ UNCHANGED <<table, active, running, heartbeatVars, stopper, bootVars>>

-----------------------------------------------------------------------------

\* Time passes while the heartbeat thread waits, or is not there.
Tick ==
    /\ \/ hb \in {"none", "exited"}
       \/ hb = "connect" /\ timer < Timeout
       \/ hb = "sleep" /\ timer < Sleep
    /\ timer' = IF hb \in {"connect", "sleep"} THEN timer + 1 ELSE 0
    /\ age' = [o \in Objs |-> IF age[o] > Stale THEN age[o] ELSE age[o] + 1]
    /\ UNCHANGED <<table, active, running, hb, pending, target, stopper, bootVars>>

Next ==
    \/ Start \/ Stop \/ StopReturns
    \/ Heartbeat
    \/ Bootstrap
    \/ \E i \in Ids : RemovePeer(i) \/ UpdatePeerFileList(i)
    \/ Tick

\* The heartbeat thread is scheduled, its waits are bounded, the joining
\* caller wakes up and time passes.
Fairness == WF_vars(Heartbeat) /\ WF_vars(StopReturns) /\ WF_vars(Tick)

Spec == Init /\ [][Next]_vars
FairSpec == Spec /\ Fairness

-----------------------------------------------------------------------------
(* Properties *)

TypeOK ==
    /\ table \in [Ids -> Objs \cup {NoObj}]
    /\ active \in [Objs -> BOOLEAN]
    /\ age \in [Objs -> 0 .. Stale + 1]
    /\ running \in BOOLEAN
    /\ hb \in {"none", "check", "sweep", "snapshot", "next", "connect", "sleep",
               "exited"}
    /\ pending \in SUBSET Objs
    /\ target \in Objs \cup {NoObj}
    /\ hb = "connect" <=> target # NoObj
    /\ timer \in 0 .. (IF Timeout > Sleep THEN Timeout ELSE Sleep)
    /\ stopper \in {"none", "joining", "returned"}
    /\ boot \in {"none", "delay", "adding"}
    /\ nodesLeft \in 0 .. Nodes
    /\ idsLeft \in SUBSET Ids

\* The sweep only forgets peers that have failed a ping (or were announced as
\* inactive).  It depends on how long a round takes: a peer pinged first in
\* one round may be pinged last in the next.
OnlyInactiveSwept ==
    hb = "sweep" =>
        \A i \in Ids :
            table[i] # NoObj /\ active[table[i]] => age[table[i]] <= Stale

\* A peer that failed a ping is not pinged again: unless it is announced again,
\* or somebody goes on for ever replacing its list of files, which makes it
\* look alive, the table forgets it.
InactivePeerLeaves ==
    \A i \in Ids, o \in Objs :
        \/ table[i] = o /\ ~active[o] ~> ~running \/ table[i] # o \/ active[o]
        \/ []<><<UpdatePeerFileList(i)>>_vars

\* stop() returns: the thread it joins ends its round, its pause and its loop.
StopEnds == stopper = "joining" ~> stopper = "returned"
=============================================================================
