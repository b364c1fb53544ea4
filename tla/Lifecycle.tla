------------------------------ MODULE Lifecycle ------------------------------
(***************************************************************************)
(* A node from CLI::initialize to the end of its process: the threads that *)
(* are started, the connections the server accepts, the `exit' command and *)
(* the end of the input, a start that fails half way, and the signal       *)
(* handler, which calls CLI::shutdown wherever it interrupts the main      *)
(* thread, and then exit().                                                *)
(*                                                                         *)
(* Three objects have a flag `running' and a thread that looks at it: the  *)
(* server, the PeerManager inside the server, and the PeerManager of the   *)
(* CLI.  The main thread is a stack: main() at the bottom, above it the    *)
(* handlers that interrupted what is below them; only the top runs.  A     *)
(* location is a pair of a step and the object it is about.                *)
(***************************************************************************)
EXTENDS Naturals, Sequences, FiniteSets

CONSTANTS Signals,   \* those that main() installs the handler for
          Sockets    \* descriptors of accepted connections

ASSUME LifecycleAssumption == "main" \notin Signals /\ "none" \notin Sockets

VARIABLES
    stack,      \* the main thread: sequence of [by, at], the top is last
    holds,      \* mutexes that the main thread holds
    flag,       \* CLI::running
    running,    \* [Runnable -> BOOLEAN]
    thread,     \* [Runnable -> where its thread is]
    detached,   \* detached threads that run
    listening,  \* are the listening socket and the epoll set open
    accepted,   \* the descriptor that is not in the table yet, or "none"
    conns,      \* descriptors in the table `connections'
    open,       \* open descriptors of connections
    freed,      \* objects that were destroyed
    process     \* "alive", "exited" or "crashed"

serverVars == <<listening, accepted, conns, open>>
vars == <<stack, holds, flag, running, thread, detached, serverVars, freed, process>>

Runnable == {"server", "serverPeers", "cliPeers"}
Managers == {"serverPeers", "cliPeers"}

\* The object that a detached thread uses: the bootstrap thread of a manager,
\* and the thread of a `get' command.
Uses == [bootServer |-> "serverPeers", bootCli |-> "cliPeers", get |-> "client"]
Boot == [serverPeers |-> "bootServer", cliPeers |-> "bootCli"]

Init ==
    /\ stack = <<[by |-> "main", at |-> <<"initialize", "cli">>]>>
    /\ holds = {}
    /\ flag = FALSE
    /\ running = [o \in Runnable |-> FALSE]
    /\ thread = [o \in Runnable |-> "none"]
    /\ detached = {}
    /\ listening = FALSE
    /\ accepted = "none"
    /\ conns = {}
    /\ open = {}
    /\ freed = {}
    /\ process = "alive"

Top == stack[Len(stack)]
At(step, o) == process = "alive" /\ Top.at = <<step, o>>
Goto(step, o) == stack' = [stack EXCEPT ![Len(stack)].at = <<step, o>>]

-----------------------------------------------------------------------------
(* CLI::initialize and the start of the objects, in the main thread *)

\* The server's sockets are opened and its flag is set.
Initialize ==
    /\ At("initialize", "cli")
    /\ listening' = TRUE
    /\ running' = [running EXCEPT !["server"] = TRUE]
    /\ Goto("spawn", "server")
    /\ UNCHANGED <<holds, flag, thread, detached, accepted, conns, open, freed, process>>

\* A scan throws or a socket cannot be had: start() has closed what it opened.
InitializeFails ==
    /\ At("initialize", "cli")
    /\ Goto("shutdown", "cli")
    /\ UNCHANGED <<holds, flag, running, thread, detached, serverVars, freed, process>>

StartPeers(m) ==
    /\ At("start", m)
    /\ running' = [running EXCEPT ![m] = TRUE]
    /\ Goto("spawn", m)
    /\ UNCHANGED <<holds, flag, thread, detached, serverVars, freed, process>>

SpawnThread(o) ==
    /\ At("spawn", o)
    /\ thread' = [thread EXCEPT ![o] = "check"]
    /\ IF o = "server" THEN Goto("start", "serverPeers") ELSE Goto("detach", o)
    /\ UNCHANGED <<holds, flag, running, detached, serverVars, freed, process>>

DetachBootstrap(m) ==
    /\ At("detach", m)
    /\ detached' = detached \cup {Boot[m]}
    /\ IF m = "serverPeers" THEN Goto("start", "cliPeers") ELSE Goto("ready", "cli")
    /\ UNCHANGED <<holds, flag, running, thread, serverVars, freed, process>>

\* A std::thread cannot be created: the exception unwinds to main(), which
\* destroys the CLI.
SpawnFails ==
    /\ process = "alive"
    /\ Top.at[1] \in {"spawn", "detach"}
    /\ Goto("shutdown", "cli")
    /\ UNCHANGED <<holds, flag, running, thread, detached, serverVars, freed, process>>

Ready ==
    /\ At("ready", "cli")
    /\ flag' = TRUE
    /\ Goto("loop", "cli")
    /\ UNCHANGED <<holds, running, thread, detached, serverVars, freed, process>>

Start ==
    \/ Initialize \/ InitializeFails \/ SpawnFails \/ Ready
    \/ \E o \in Runnable : SpawnThread(o)
    \/ \E m \in Managers : StartPeers(m) \/ DetachBootstrap(m)

-----------------------------------------------------------------------------
(* CLI::run *)

\* A command that takes the server's connections_mutex (status) or, shared, the
\* CLI's peers_mutex (peers, files, get, status).
CommandStarts(lock) ==
    /\ At("loop", "cli") /\ flag
    /\ holds' = {lock}
    /\ Goto("command", "cli")
    /\ UNCHANGED <<flag, running, thread, detached, serverVars, freed, process>>

\* Mutant: a return without the unlock.
CommandEndsLocked ==
    /\ At("command", "cli")
    /\ Goto("loop", "cli")
    /\ UNCHANGED <<holds, flag, running, thread, detached, serverVars, freed, process>>

\* get, having found a peer, leaves a thread behind.
CommandEnds ==
    /\ At("command", "cli")
    /\ holds' = {}
    /\ \/ UNCHANGED detached
       \/ holds = {"peers"} /\ detached' = detached \cup {"get"}
    /\ Goto("loop", "cli")
    /\ UNCHANGED <<flag, running, thread, serverVars, freed, process>>

ExitCommand ==
    /\ At("loop", "cli") /\ flag
    /\ flag' = FALSE
    /\ UNCHANGED <<stack, holds, running, thread, detached, serverVars, freed, process>>

\* Mutant: a destructor that does not shut down.
LeaveLoopAtOnce ==
    /\ At("loop", "cli") /\ ~flag
    /\ Goto("free", "cliPeers")
    /\ UNCHANGED <<holds, flag, running, thread, detached, serverVars, freed, process>>

\* run() returns, and the destructor of the CLI calls shutdown().
LeaveLoop ==
    /\ At("loop", "cli") /\ ~flag
    /\ Goto("shutdown", "cli")
    /\ UNCHANGED <<holds, flag, running, thread, detached, serverVars, freed, process>>

EndOfInput ==
    /\ At("loop", "cli") /\ flag
    /\ Goto("shutdown", "cli")
    /\ UNCHANGED <<holds, flag, running, thread, detached, serverVars, freed, process>>

User ==
    \/ \E lock \in {"connections", "peers"} : CommandStarts(lock)
    \/ ExitCommand \/ EndOfInput

-----------------------------------------------------------------------------
(* CLI::shutdown and the stop() of the three objects, in main() or a handler *)

Shutdown ==
    /\ At("shutdown", "cli")
    /\ flag' = FALSE
    /\ Goto("stop", "server")
    /\ UNCHANGED <<holds, running, thread, detached, serverVars, freed, process>>

\* Where the caller of stop() goes on.
Return(o) ==
    CASE o = "server"      -> Goto("stop", "cliPeers")
      [] o = "serverPeers" -> Goto("close", "server")
      [] o = "cliPeers"    -> Goto("done", "cli")

\* Mutant: stop() does not ask whether the object runs.
StopAgain(o) ==
    /\ At("stop", o)
    /\ Goto("clear", o)
    /\ UNCHANGED <<holds, flag, running, thread, detached, serverVars, freed, process>>

\* A handler may find the object destroyed: what it reads is anything.
Stop(o) ==
    /\ At("stop", o)
    /\ IF o \in freed
         THEN \/ Return(o) /\ UNCHANGED process
              \/ process' = "crashed" /\ UNCHANGED stack
         ELSE /\ IF running[o] THEN Goto("clear", o) ELSE Return(o)
              /\ UNCHANGED process
    /\ UNCHANGED <<holds, flag, running, thread, detached, serverVars, freed>>

StopClears(o) ==
    /\ At("clear", o)
    /\ running' = [running EXCEPT ![o] = FALSE]
    /\ Goto("join", o)
    /\ UNCHANGED <<holds, flag, thread, detached, serverVars, freed, process>>

AfterJoin(o) == IF o = "server" THEN Goto("stop", "serverPeers") ELSE Return(o)

\* Mutant: the thread is not waited for.
StopLeaves(o) ==
    /\ At("join", o)
    /\ AfterJoin(o)
    /\ UNCHANGED <<holds, flag, running, thread, detached, serverVars, freed, process>>

\* A thread that was never started is not joinable.
StopJoins(o) ==
    /\ At("join", o)
    /\ thread[o] \in {"none", "exited"}
    /\ AfterJoin(o)
    /\ UNCHANGED <<holds, flag, running, thread, detached, serverVars, freed, process>>

LockConnections ==
    /\ At("close", "server")
    /\ "connections" \notin holds
    /\ holds' = holds \cup {"connections"}
    /\ Goto("closing", "server")
    /\ UNCHANGED <<flag, running, thread, detached, serverVars, freed, process>>

CloseConnections ==
    /\ At("closing", "server")
    /\ open' = open \ conns
    /\ conns' = {}
    /\ holds' = holds \ {"connections"}
    /\ Goto("sockets", "server")
    /\ UNCHANGED <<flag, running, thread, detached, listening, accepted, freed, process>>

CloseSockets ==
    /\ At("sockets", "server")
    /\ listening' = FALSE
    /\ Return("server")
    /\ UNCHANGED <<holds, flag, running, thread, detached, accepted, conns, open, freed,
                   process>>

\* The handler calls exit(); the destructor goes on with the CLI's members.
ShutdownEnds ==
    /\ At("done", "cli")
    /\ IF Top.by = "main" THEN Goto("free", "cliPeers") /\ UNCHANGED process
                          ELSE process' = "exited" /\ UNCHANGED stack
    /\ UNCHANGED <<holds, flag, running, thread, detached, serverVars, freed>>

\* In the reverse order of their declaration.  Their destructors call stop(),
\* which shutdown() has left with nothing to do.
Free(o) ==
    /\ At("free", o)
    /\ freed' = freed \cup (IF o = "server" THEN {"server", "serverPeers"} ELSE {o})
    /\ CASE o = "cliPeers" -> Goto("free", "client")
         [] o = "client"   -> Goto("free", "server")
         [] o = "server"   -> Goto("return", "main")
    /\ UNCHANGED <<holds, flag, running, thread, detached, serverVars, process>>

MainReturns ==
    /\ At("return", "main")
    /\ process' = "exited"
    /\ UNCHANGED <<stack, holds, flag, running, thread, detached, serverVars, freed>>

End ==
    \/ CommandEnds \/ LeaveLoop \/ Shutdown \/ ShutdownEnds \/ MainReturns
    \/ \E o \in Runnable : Stop(o) \/ StopClears(o) \/ StopJoins(o)
    \/ LockConnections \/ CloseConnections \/ CloseSockets
    \/ \E o \in {"cliPeers", "client", "server"} : Free(o)

-----------------------------------------------------------------------------
(* The signal handler *)

\* A signal is blocked while its own handler runs.
Signal(s) ==
    /\ process = "alive"
    /\ \A i \in DOMAIN stack : stack[i].by # s
    /\ stack' = Append(stack, [by |-> s, at |-> <<"shutdown", "cli">>])
    /\ UNCHANGED <<holds, flag, running, thread, detached, serverVars, freed, process>>

-----------------------------------------------------------------------------
(* The server's event thread *)

Move(o, from, to) ==
    /\ process = "alive"
    /\ thread[o] = from
    /\ thread' = [thread EXCEPT ![o] = to]

\* Mutant: a loop without end.
CheckForever(o) ==
    /\ Move(o, "check", "round")
    /\ UNCHANGED <<stack, holds, flag, running, detached, serverVars, freed, process>>

\* The head of the loop of the event thread and of the heartbeats.
Check(o) ==
    /\ Move(o, "check", IF running[o] THEN "round" ELSE "exited")
    /\ UNCHANGED <<stack, holds, flag, running, detached, serverVars, freed, process>>

\* epoll_wait reports nothing (more) within its 100 ms.
PollEnds ==
    /\ Move("server", "round", "check")
    /\ UNCHANGED <<stack, holds, flag, running, detached, serverVars, freed, process>>

Accept(c) ==
    /\ Move("server", "round", "add")
    /\ c \notin open
    /\ open' = open \cup {c}
    /\ accepted' = c
    /\ UNCHANGED <<stack, holds, flag, running, detached, listening, conns, freed, process>>

\* epoll_ctl fails: the descriptor is closed again.
AcceptFails ==
    /\ Move("server", "add", "round")
    /\ open' = open \ {accepted}
    /\ accepted' = "none"
    /\ UNCHANGED <<stack, holds, flag, running, detached, listening, conns, freed, process>>

AddConnection ==
    /\ Move("server", "add", "round")
    /\ "connections" \notin holds
    /\ conns' = conns \cup {accepted}
    /\ accepted' = "none"
    /\ UNCHANGED <<stack, holds, flag, running, detached, listening, open, freed, process>>

\* closeConnection, when the peer has gone or was idle for long.
CloseConnection(c) ==
    /\ process = "alive"
    /\ thread["server"] = "round"
    /\ c \in conns
    /\ "connections" \notin holds
    /\ conns' = conns \ {c}
    /\ open' = open \ {c}
    /\ UNCHANGED <<stack, holds, flag, running, thread, detached, listening, accepted, freed,
                   process>>

EventThread ==
    \/ Check("server") \/ PollEnds \/ AcceptFails \/ AddConnection
    \/ \E c \in Sockets : Accept(c) \/ CloseConnection(c)

-----------------------------------------------------------------------------
(* The heartbeats, and the detached threads *)

\* removeStalePeers, under the exclusive lock, the pings, and the pause.
Round(m) ==
    /\ Move(m, "round", "check")
    /\ m = "cliPeers" => "peers" \notin holds
    /\ UNCHANGED <<stack, holds, flag, running, detached, serverVars, freed, process>>

Heartbeat(m) == Check(m) \/ Round(m)

DetachedEnds(d) ==
    /\ process = "alive"
    /\ d \in detached
    /\ detached' = detached \ {d}
    /\ UNCHANGED <<stack, holds, flag, running, thread, serverVars, freed, process>>

\* Nobody waits for them: they may find their object destroyed.
DetachedCrashes(d) ==
    /\ process = "alive"
    /\ d \in detached
    /\ Uses[d] \in freed
    /\ process' = "crashed"
    /\ UNCHANGED <<stack, holds, flag, running, thread, detached, serverVars, freed>>

Next ==
    \/ Start \/ User \/ End
    \/ \E s \in Signals : Signal(s)
    \/ EventThread
    \/ \E m \in Managers : Heartbeat(m)
    \/ \E d \in DOMAIN Uses : DetachedEnds(d) \/ DetachedCrashes(d)

Spec == Init /\ [][Next]_vars

\* Threads run; users, signals, peers and detached threads owe nothing.  The
\* accept loop ends when no connection waits: connections may come for ever,
\* but not always one before the last is accepted.
FairSpec ==
    /\ Spec
    /\ WF_vars(Start) /\ WF_vars(End)
    /\ WF_vars(Check("server")) /\ SF_vars(PollEnds) /\ WF_vars(AddConnection)
    /\ \A m \in Managers : WF_vars(Heartbeat(m))

-----------------------------------------------------------------------------
(* Properties *)

Interrupted == Len(stack) > 1

TypeOK ==
    /\ \A i \in DOMAIN stack :
         /\ stack[i].by \in Signals \cup {"main"}
         /\ stack[i].by = "main" <=> i = 1
    /\ holds \subseteq {"connections", "peers"}
    /\ holds = {} <=>
         \A i \in DOMAIN stack : stack[i].at[1] \notin {"command", "closing"}
    /\ flag \in BOOLEAN
    /\ running \in [Runnable -> BOOLEAN]
    /\ thread \in [Runnable -> {"none", "check", "round", "add", "exited"}]
    /\ detached \subseteq DOMAIN Uses
    /\ listening \in BOOLEAN
    /\ accepted \in Sockets \cup {"none"}
    /\ conns \subseteq Sockets /\ open \subseteq Sockets
    /\ freed \subseteq Runnable \cup {"client"}
    /\ process \in {"alive", "exited", "crashed"}

\* However the node ends, also when its start failed half way: an object is
\* destroyed only when the thread that works on it has left.
JoinedBeforeFreed ==
    \A o \in Runnable \cap freed : thread[o] \in {"none", "exited"}

\* An open descriptor is in the table or about to be put there, and when stop()
\* has closed the listening socket no connection is open.
DescriptorsAccounted ==
    /\ open = conns \cup ({accepted} \ {"none"})
    /\ ~listening => open = {}

\* exit, the end of the input and a failed start end the process, unless a
\* signal comes in between.
QuitEnds ==
    Top.at = <<"shutdown", "cli">> ~> process # "alive" \/ Interrupted

\* A signal ends the process, also a second one on top of the first, unless it
\* interrupted a command while that held a mutex.
SignalEnds ==
    Interrupted /\ stack[1].at # <<"command", "cli">> ~> process # "alive"
=============================================================================
