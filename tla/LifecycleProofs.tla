-------------------------- MODULE LifecycleProofs --------------------------
(***************************************************************************)
(* Proofs about Lifecycle, for every set of signals and every number of    *)
(* connections.                                                            *)
(*                                                                         *)
(* What makes them work is that a handler ends with exit(): main() never   *)
(* goes on once it was interrupted.  So all that main() relies on is said  *)
(* of a stack of one frame, and all that is said of the other frames is    *)
(* kept by the threads, which only ever leave.                             *)
(***************************************************************************)
EXTENDS Lifecycle, SequenceTheorems, TLAPS

-----------------------------------------------------------------------------
(* Inductive invariants *)

\* The steps of CLI::shutdown, which are all that a handler takes.
StopSteps == {"shutdown", "stop", "clear", "join", "close", "closing", "sockets", "done"}

\* The steps of main() besides these, and what steps are about.
MainSteps == {"initialize", "spawn", "start", "detach", "ready", "loop", "command",
              "free", "return"}
Things == {"cli", "server", "serverPeers", "cliPeers", "client", "main"}

Frames == [by : Signals \cup {"main"}, at : (StopSteps \cup MainSteps) \X Things]

\* main() is at the bottom, and above it are handlers.
StackInv ==
    /\ stack \in Seq(Frames)
    /\ Len(stack) \in Nat \ {0}
    /\ \A i \in 1 .. Len(stack) : stack[i].by = "main" <=> i = 1
    /\ \A i \in 2 .. Len(stack) : stack[i].at[1] \in StopSteps

\* The other variables have their types.
VarsInv ==
    /\ flag \in BOOLEAN
    /\ running \in [Runnable -> BOOLEAN]
    /\ thread \in [Runnable -> {"none", "check", "round", "add", "exited"}]
    /\ detached \subseteq DOMAIN Uses
    /\ listening \in BOOLEAN
    /\ accepted \in Sockets \cup {"none"}
    /\ conns \subseteq Sockets /\ open \subseteq Sockets
    /\ freed \subseteq Runnable \cup {"client"}
    /\ process \in {"alive", "exited", "crashed"}

\* Which frame holds a mutex: a command of main(), and at most one frame that
\* closes connections.
LockInv ==
    /\ holds \subseteq {"connections", "peers"}
    /\ holds # {} =>
         \E i \in 1 .. Len(stack) : stack[i].at[1] \in {"command", "closing"}
    /\ stack[1].at[1] = "command" => holds # {}
    /\ "peers" \in holds => stack[1].at[1] = "command"
    /\ \A i \in 1 .. Len(stack) :
         stack[i].at[1] = "closing" =>
           /\ "connections" \in holds
           /\ stack[1].at[1] = "command" => "peers" \in holds
           /\ \A j \in 1 .. Len(stack) : stack[j].at[1] = "closing" => i = j

\* The thread of o was never started or has left.
Settled(o) == thread[o] \in {"none", "exited"}

\* While nothing has interrupted main(): the threads of objects that do not run
\* have left, or main() is waiting for that; what it has stopped has no thread;
\* and nothing is destroyed before all are stopped.
MainInv ==
    Len(stack) = 1 =>
      LET step == stack[1].at[1]
          o    == stack[1].at[2]
      IN  /\ \A r \in Runnable : ~running[r] => Settled(r) \/ (step = "join" /\ o = r)
          /\ step \in {"start", "spawn", "detach"} => running["server"]
          /\ step = "spawn" => running[o]
          /\ step = "initialize" \/ (step = "spawn" /\ o = "server") => Settled("server")
          /\ \/ running["server"] \/ Settled("serverPeers")
             \/ step = "join" /\ o = "server"
             \/ step \in {"stop", "clear", "join"} /\ o = "serverPeers"
          /\ \/ step \in {"stop", "clear", "join"} /\ o = "cliPeers"
             \/ step \in {"close", "closing", "sockets", "done", "free", "return"}
             => Settled("server") /\ Settled("serverPeers")
          /\ step \in {"done", "free", "return"} => Settled("cliPeers")
          /\ step \notin {"free", "return"} => freed = {}

\* Whoever has joined the event thread finds it gone, and with it the descriptor
\* it was about to put in the table.
ServerInv ==
    /\ thread["server"] = "add" <=> accepted # "none"
    /\ accepted \notin conns
    /\ \A i \in 1 .. Len(stack) :
         /\ \/ stack[i].at[1] \in {"stop", "clear", "join"} /\ stack[i].at[2] = "serverPeers"
            \/ stack[i].at[1] \in {"close", "closing", "sockets"}
            => Settled("server")
         /\ stack[i].at[1] = "sockets" => conns = {}
    /\ Len(stack) = 1 /\ stack[1].at = <<"spawn", "server">> => listening
    /\ ~listening => Settled("server")

LifeInv ==
    /\ StackInv /\ VarsInv /\ LockInv
    /\ MainInv /\ JoinedBeforeFreed
    /\ ServerInv /\ DescriptorsAccounted

-----------------------------------------------------------------------------
(* What a step does to the stack *)

\* The top frame goes on to <<step, o>>; the frames below stay.
Moved(step, o) ==
    /\ stack' \in Seq(Frames)
    /\ Len(stack') = Len(stack)
    /\ stack'[Len(stack)].by = stack[Len(stack)].by
    /\ stack'[Len(stack)].at = <<step, o>>
    /\ stack'[Len(stack)].at[1] = step /\ stack'[Len(stack)].at[2] = o
    /\ \A i \in 1 .. Len(stack) : i # Len(stack) => stack'[i] = stack[i]

\* A handler is put on top.
Pushed(s) ==
    /\ stack' \in Seq(Frames)
    /\ Len(stack') = Len(stack) + 1
    /\ stack'[Len(stack) + 1] = [by |-> s, at |-> <<"shutdown", "cli">>]
    /\ \A i \in 1 .. Len(stack) : stack'[i] = stack[i]

LEMMA GotoMoves ==
    ASSUME StackInv, NEW step \in StopSteps \cup MainSteps, NEW o \in Things,
           Goto(step, o)
    PROVE  Moved(step, o)
<1> DEFINE n == Len(stack)
           frame == [by |-> stack[n].by, at |-> <<step, o>>]
<1>1. /\ n \in Nat \ {0} /\ n \in 1 .. Len(stack) /\ stack \in Seq(Frames)
      /\ DOMAIN stack = 1 .. Len(stack)
  BY LenProperties DEF StackInv
<1>2. stack[n] \in Frames
  BY <1>1, ElementOfSeq
<1>3. frame \in Frames
  BY <1>2 DEF Frames
<1>4. stack' = [stack EXCEPT ![n] = frame]
  <2>1. [stack[n] EXCEPT !.at = <<step, o>>] = frame
    BY <1>2 DEF Frames
  <2> QED
    BY <1>1, <2>1 DEF Goto
<1>5. stack' \in Seq(Frames) /\ Len(stack') = Len(stack)
  BY <1>1, <1>3, <1>4, ExceptSeq
<1>6. stack'[n] = frame
  BY <1>1, <1>4
<1>7. \A i \in 1 .. Len(stack) : i # n => stack'[i] = stack[i]
  BY <1>1, <1>4
<1> QED
  BY <1>5, <1>6, <1>7 DEF Moved

LEMMA SignalPushes ==
    ASSUME StackInv, NEW s \in Signals,
           stack' = Append(stack, [by |-> s, at |-> <<"shutdown", "cli">>])
    PROVE  Pushed(s)
<1> DEFINE frame == [by |-> s, at |-> <<"shutdown", "cli">>]
<1>1. frame \in Frames
  BY DEF Frames, StopSteps, Things
<1> HIDE DEF frame
<1>2. stack \in Seq(Frames)
  BY DEF StackInv
<1>3. stack' = Append(stack, frame)
  BY DEF frame
<1> QED
  BY <1>1, <1>2, <1>3, AppendProperties DEF Pushed, frame

\* Only main() takes steps that are not part of a shutdown.
LEMMA MainOnTop ==
    ASSUME StackInv, Top.at[1] \notin StopSteps
    PROVE  Len(stack) = 1
<1> SUFFICES ASSUME Len(stack) # 1
             PROVE  FALSE
  OBVIOUS
<1>1. PICK n \in Nat : n = Len(stack) /\ n > 0
  BY DEF StackInv
<1>2. Len(stack) \in 2 .. Len(stack)
  <2>1. n > 1
    BY <1>1
  <2>2. n \in 2 .. n
    BY <2>1
  <2> QED
    BY <1>1, <2>2
<1>3. \A i \in 2 .. Len(stack) : stack[i].at[1] \in StopSteps
  BY DEF StackInv
<1> QED
  BY <1>2, <1>3 DEF Top

LEMMA MainAt ==
    ASSUME StackInv, NEW step \in MainSteps, NEW o, At(step, o)
    PROVE  /\ Len(stack) = 1 /\ stack[1].at = <<step, o>>
           /\ stack[1].at[1] = step /\ stack[1].at[2] = o
<1>1. Top.at = <<step, o>> /\ Top.at[1] = step /\ Top.at[2] = o
  BY DEF At
<1>2. step \notin StopSteps
  BY DEF MainSteps, StopSteps
<1> QED
  BY <1>1, <1>2, MainOnTop DEF Top

LEMMA LifeInit == Init => LifeInv
<1> SUFFICES ASSUME Init
             PROVE  LifeInv
  OBVIOUS
<1> DEFINE frame == [by |-> "main", at |-> <<"initialize", "cli">>]
<1>1. stack = <<frame>> /\ frame.at[1] = "initialize" /\ frame.at[2] = "cli"
  BY DEF Init
<1>2. frame \in Frames
  BY DEF Frames, MainSteps, Things
<1>3. frame.at # <<"spawn", "server">>
  BY <1>1
<1> HIDE DEF frame
<1>4. stack \in Seq(Frames) /\ Len(stack) = 1 /\ stack[1] = frame
  BY <1>1, <1>2
<1>5. StackInv
  BY <1>4 DEF StackInv, frame
<1>6. VarsInv
  BY DEF Init, VarsInv, Runnable
<1>7. LockInv
  BY <1>1, <1>4 DEF Init, LockInv
<1>8. MainInv /\ JoinedBeforeFreed
  BY <1>1, <1>4 DEF Init, MainInv, JoinedBeforeFreed, Settled, Runnable
<1>9. ServerInv /\ DescriptorsAccounted
  BY <1>1, <1>3, <1>4 DEF Init, ServerInv, DescriptorsAccounted, Settled, Runnable
<1> QED
  BY <1>5, <1>6, <1>7, <1>8, <1>9 DEF LifeInv

\* Every step of a node keeps the invariants.
LEMMA LifeStep == LifeInv /\ [Next]_vars => LifeInv'
<1> SUFFICES ASSUME LifeInv, [Next]_vars
             PROVE  LifeInv'
  OBVIOUS
<1>0. /\ StackInv /\ VarsInv /\ LockInv /\ MainInv
      /\ JoinedBeforeFreed /\ ServerInv /\ DescriptorsAccounted
  BY DEF LifeInv
<1> USE <1>0 DEF serverVars
<1>1. ASSUME Initialize
      PROVE  LifeInv'
  <2>1. /\ Len(stack) = 1 /\ stack[1].at = <<"initialize", "cli">>
        /\ stack[1].at[1] = "initialize" /\ stack[1].at[2] = "cli"
    BY <1>1, MainAt DEF Initialize, MainSteps
  <2>2. Moved("spawn", "server")
    BY <1>1, GotoMoves DEF Initialize, StopSteps, MainSteps, Things
  <2>3. StackInv'
    BY <1>1, <2>1, <2>2 DEF Initialize, Moved, StackInv, StopSteps
  <2>4. VarsInv'
    BY <1>1, <2>1, <2>2 DEF Initialize, Moved, VarsInv
  <2>5. LockInv'
    BY <1>1, <2>1, <2>2 DEF Initialize, Moved, LockInv, StackInv
  <2>6. MainInv'
    BY <1>1, <2>1, <2>2 DEF Initialize, Moved, MainInv, VarsInv, Settled,
       StackInv, Runnable
  <2>7. JoinedBeforeFreed'
    BY <1>1, <2>1, <2>2 DEF Initialize, Moved, JoinedBeforeFreed, MainInv,
       VarsInv, Settled
  <2>8. ServerInv'
    BY <1>1, <2>1, <2>2 DEF Initialize, Moved, ServerInv, VarsInv, Settled,
       StackInv
  <2>9. DescriptorsAccounted'
    BY <1>1, <2>1, <2>2 DEF Initialize, Moved, DescriptorsAccounted, ServerInv,
       VarsInv, Settled
  <2> QED
    BY <2>3, <2>4, <2>5, <2>6, <2>7, <2>8, <2>9 DEF LifeInv
<1>2. ASSUME InitializeFails
      PROVE  LifeInv'
  <2>1. /\ Len(stack) = 1 /\ stack[1].at = <<"initialize", "cli">>
        /\ stack[1].at[1] = "initialize" /\ stack[1].at[2] = "cli"
    BY <1>2, MainAt DEF InitializeFails, MainSteps
  <2>2. Moved("shutdown", "cli")
    BY <1>2, GotoMoves DEF InitializeFails, StopSteps, MainSteps, Things
  <2>3. StackInv'
    BY <1>2, <2>1, <2>2 DEF InitializeFails, Moved, StackInv, StopSteps
  <2>4. VarsInv'
    BY <1>2, <2>1, <2>2 DEF InitializeFails, Moved, VarsInv
  <2>5. LockInv'
    BY <1>2, <2>1, <2>2 DEF InitializeFails, Moved, LockInv, StackInv
  <2>6. MainInv'
    BY <1>2, <2>1, <2>2 DEF InitializeFails, Moved, MainInv, VarsInv, Settled,
       StackInv
  <2>7. JoinedBeforeFreed'
    BY <1>2, <2>1, <2>2 DEF InitializeFails, Moved, JoinedBeforeFreed, MainInv,
       VarsInv, Settled
  <2>8. ServerInv'
    BY <1>2, <2>1, <2>2 DEF InitializeFails, Moved, ServerInv, VarsInv,
       Settled, StackInv
  <2>9. DescriptorsAccounted'
    BY <1>2, <2>1, <2>2 DEF InitializeFails, Moved, DescriptorsAccounted,
       ServerInv, VarsInv, Settled
  <2> QED
    BY <2>3, <2>4, <2>5, <2>6, <2>7, <2>8, <2>9 DEF LifeInv
<1>3. ASSUME SpawnFails
      PROVE  LifeInv'
  <2>1. Len(stack) = 1 /\ stack[1].at[1] \in {"spawn", "detach"}
    BY <1>3, MainOnTop DEF SpawnFails, MainSteps, StopSteps, Top
  <2>2. Moved("shutdown", "cli")
    BY <1>3, GotoMoves DEF SpawnFails, StopSteps, MainSteps, Things
  <2>3. StackInv'
    BY <1>3, <2>1, <2>2 DEF SpawnFails, Moved, StackInv, StopSteps
  <2>4. VarsInv'
    BY <1>3, <2>1, <2>2 DEF SpawnFails, Moved, VarsInv
  <2>5. LockInv'
    BY <1>3, <2>1, <2>2 DEF SpawnFails, Moved, LockInv, StackInv
  <2>6. MainInv'
    BY <1>3, <2>1, <2>2 DEF SpawnFails, Moved, MainInv, VarsInv, Settled,
       StackInv
  <2>7. JoinedBeforeFreed'
    BY <1>3, <2>1, <2>2 DEF SpawnFails, Moved, JoinedBeforeFreed, MainInv,
       VarsInv, Settled
  <2>8. ServerInv'
    BY <1>3, <2>1, <2>2 DEF SpawnFails, Moved, ServerInv, VarsInv, Settled,
       StackInv
  <2>9. DescriptorsAccounted'
    BY <1>3, <2>1, <2>2 DEF SpawnFails, Moved, DescriptorsAccounted, ServerInv,
       VarsInv, Settled
  <2> QED
    BY <2>3, <2>4, <2>5, <2>6, <2>7, <2>8, <2>9 DEF LifeInv
<1>4. ASSUME Ready
      PROVE  LifeInv'
  <2>1. /\ Len(stack) = 1 /\ stack[1].at = <<"ready", "cli">>
        /\ stack[1].at[1] = "ready" /\ stack[1].at[2] = "cli"
    BY <1>4, MainAt DEF Ready, MainSteps
  <2>2. Moved("loop", "cli")
    BY <1>4, GotoMoves DEF Ready, StopSteps, MainSteps, Things
  <2>3. StackInv'
    BY <1>4, <2>1, <2>2 DEF Ready, Moved, StackInv, StopSteps
  <2>4. VarsInv'
    BY <1>4, <2>1, <2>2 DEF Ready, Moved, VarsInv
  <2>5. LockInv'
    BY <1>4, <2>1, <2>2 DEF Ready, Moved, LockInv, StackInv
  <2>6. MainInv'
    BY <1>4, <2>1, <2>2 DEF Ready, Moved, MainInv, VarsInv, Settled, StackInv
  <2>7. JoinedBeforeFreed'
    BY <1>4, <2>1, <2>2 DEF Ready, Moved, JoinedBeforeFreed, MainInv, VarsInv,
       Settled
  <2>8. ServerInv'
    BY <1>4, <2>1, <2>2 DEF Ready, Moved, ServerInv, VarsInv, Settled, StackInv
  <2>9. DescriptorsAccounted'
    BY <1>4, <2>1, <2>2 DEF Ready, Moved, DescriptorsAccounted, ServerInv,
       VarsInv, Settled
  <2> QED
    BY <2>3, <2>4, <2>5, <2>6, <2>7, <2>8, <2>9 DEF LifeInv
<1>5. ASSUME NEW o \in Runnable, SpawnThread(o)
      PROVE  LifeInv'
  <2>1. /\ Len(stack) = 1 /\ stack[1].at = <<"spawn", o>>
        /\ stack[1].at[1] = "spawn" /\ stack[1].at[2] = o
    BY <1>5, MainAt DEF SpawnThread, MainSteps
  <2>2. CASE o = "server"
    <3>1. Moved("start", "serverPeers")
      BY <1>5, <2>2, GotoMoves DEF SpawnThread, MainSteps, Runnable, StopSteps,
         Things
    <3>2. StackInv'
      BY <1>5, <2>1, <2>2, <3>1 DEF SpawnThread, Moved, StackInv, StopSteps
    <3>3. VarsInv'
      BY <1>5, <2>1, <2>2, <3>1 DEF SpawnThread, Moved, VarsInv
    <3>4. LockInv'
      BY <1>5, <2>1, <2>2, <3>1 DEF SpawnThread, Moved, LockInv, StackInv
    <3>5. MainInv'
      BY <1>5, <2>1, <2>2, <3>1 DEF SpawnThread, Moved, MainInv, VarsInv,
         Settled, StackInv
    <3>6. JoinedBeforeFreed'
      BY <1>5, <2>1, <2>2, <3>1 DEF SpawnThread, Moved, JoinedBeforeFreed,
         MainInv, VarsInv, Settled
    <3>7. ServerInv'
      BY <1>5, <2>1, <2>2, <3>1 DEF SpawnThread, Moved, ServerInv, VarsInv,
         Settled, StackInv, Runnable, MainInv
    <3>8. DescriptorsAccounted'
      BY <1>5, <2>1, <2>2, <3>1 DEF SpawnThread, Moved, DescriptorsAccounted,
         ServerInv, VarsInv, Settled
    <3> QED
      BY <3>2, <3>3, <3>4, <3>5, <3>6, <3>7, <3>8 DEF LifeInv
  <2>3. CASE o # "server"
    <3>1. Moved("detach", o)
      BY <1>5, <2>3, GotoMoves DEF SpawnThread, MainSteps, Runnable, StopSteps,
         Things
    <3>2. StackInv'
      BY <1>5, <2>1, <2>3, <3>1 DEF SpawnThread, Moved, StackInv, StopSteps
    <3>3. VarsInv'
      BY <1>5, <2>1, <2>3, <3>1 DEF SpawnThread, Moved, VarsInv
    <3>4. LockInv'
      BY <1>5, <2>1, <2>3, <3>1 DEF SpawnThread, Moved, LockInv, StackInv
    <3>5. MainInv'
      BY <1>5, <2>1, <2>3, <3>1 DEF SpawnThread, Moved, MainInv, VarsInv,
         Settled, StackInv
    <3>6. JoinedBeforeFreed'
      BY <1>5, <2>1, <2>3, <3>1 DEF SpawnThread, Moved, JoinedBeforeFreed,
         MainInv, VarsInv, Settled
    <3>7. ServerInv'
      BY <1>5, <2>1, <2>3, <3>1 DEF SpawnThread, Moved, ServerInv, VarsInv,
         Settled, StackInv
    <3>8. DescriptorsAccounted'
      BY <1>5, <2>1, <2>3, <3>1 DEF SpawnThread, Moved, DescriptorsAccounted,
         ServerInv, VarsInv, Settled
    <3> QED
      BY <3>2, <3>3, <3>4, <3>5, <3>6, <3>7, <3>8 DEF LifeInv
  <2> QED
    BY <1>5, <2>2, <2>3 DEF SpawnThread, Runnable
<1>6. ASSUME NEW m \in Managers, StartPeers(m)
      PROVE  LifeInv'
  <2>1. /\ Len(stack) = 1 /\ stack[1].at = <<"start", m>>
        /\ stack[1].at[1] = "start" /\ stack[1].at[2] = m
    BY <1>6, MainAt DEF StartPeers, MainSteps
  <2>2. Moved("spawn", m)
    BY <1>6, GotoMoves DEF StartPeers, StopSteps, MainSteps, Things, Managers
  <2>3. StackInv'
    BY <1>6, <2>1, <2>2 DEF StartPeers, Moved, StackInv, StopSteps
  <2>4. VarsInv'
    BY <1>6, <2>1, <2>2 DEF StartPeers, Moved, VarsInv
  <2>5. LockInv'
    BY <1>6, <2>1, <2>2 DEF StartPeers, Moved, LockInv, StackInv
  <2>6. MainInv'
    BY <1>6, <2>1, <2>2 DEF StartPeers, Moved, MainInv, VarsInv, Settled,
       StackInv, Runnable, Managers
  <2>7. JoinedBeforeFreed'
    BY <1>6, <2>1, <2>2 DEF StartPeers, Moved, JoinedBeforeFreed, MainInv,
       VarsInv, Settled
  <2>8. ServerInv'
    BY <1>6, <2>1, <2>2 DEF StartPeers, Moved, ServerInv, VarsInv, Settled,
       StackInv, Runnable, Managers
  <2>9. DescriptorsAccounted'
    BY <1>6, <2>1, <2>2 DEF StartPeers, Moved, DescriptorsAccounted, ServerInv,
       VarsInv, Settled
  <2> QED
    BY <2>3, <2>4, <2>5, <2>6, <2>7, <2>8, <2>9 DEF LifeInv
<1>7. ASSUME NEW m \in Managers, DetachBootstrap(m)
      PROVE  LifeInv'
  <2>1. /\ Len(stack) = 1 /\ stack[1].at = <<"detach", m>>
        /\ stack[1].at[1] = "detach" /\ stack[1].at[2] = m
    BY <1>7, MainAt DEF DetachBootstrap, MainSteps
  <2>2. CASE m = "serverPeers"
    <3>1. Moved("start", "cliPeers")
      BY <1>7, <2>2, GotoMoves DEF DetachBootstrap, MainSteps, Managers,
         StopSteps, Things
    <3>2. StackInv'
      BY <1>7, <2>1, <2>2, <3>1 DEF DetachBootstrap, Moved, StackInv, StopSteps
    <3>3. VarsInv'
      BY <1>7, <2>1, <2>2, <3>1 DEF DetachBootstrap, Moved, VarsInv, Uses,
         Boot, Managers
    <3>4. LockInv'
      BY <1>7, <2>1, <2>2, <3>1 DEF DetachBootstrap, Moved, LockInv, StackInv
    <3>5. MainInv'
      BY <1>7, <2>1, <2>2, <3>1 DEF DetachBootstrap, Moved, MainInv, VarsInv,
         Settled, StackInv
    <3>6. JoinedBeforeFreed'
      BY <1>7, <2>1, <2>2, <3>1 DEF DetachBootstrap, Moved, JoinedBeforeFreed,
         MainInv, VarsInv, Settled
    <3>7. ServerInv'
      BY <1>7, <2>1, <2>2, <3>1 DEF DetachBootstrap, Moved, ServerInv, VarsInv,
         Settled, StackInv
    <3>8. DescriptorsAccounted'
      BY <1>7, <2>1, <2>2, <3>1 DEF DetachBootstrap, Moved,
         DescriptorsAccounted, ServerInv, VarsInv, Settled
    <3> QED
      BY <3>2, <3>3, <3>4, <3>5, <3>6, <3>7, <3>8 DEF LifeInv
  <2>3. CASE m # "serverPeers"
    <3>1. Moved("ready", "cli")
      BY <1>7, <2>3, GotoMoves DEF DetachBootstrap, MainSteps, Managers,
         StopSteps, Things
    <3>2. StackInv'
      BY <1>7, <2>1, <2>3, <3>1 DEF DetachBootstrap, Moved, StackInv, StopSteps
    <3>3. VarsInv'
      BY <1>7, <2>1, <2>3, <3>1 DEF DetachBootstrap, Moved, VarsInv, Uses,
         Boot, Managers
    <3>4. LockInv'
      BY <1>7, <2>1, <2>3, <3>1 DEF DetachBootstrap, Moved, LockInv, StackInv
    <3>5. MainInv'
      BY <1>7, <2>1, <2>3, <3>1 DEF DetachBootstrap, Moved, MainInv, VarsInv,
         Settled, StackInv
    <3>6. JoinedBeforeFreed'
      BY <1>7, <2>1, <2>3, <3>1 DEF DetachBootstrap, Moved, JoinedBeforeFreed,
         MainInv, VarsInv, Settled
    <3>7. ServerInv'
      BY <1>7, <2>1, <2>3, <3>1 DEF DetachBootstrap, Moved, ServerInv, VarsInv,
         Settled, StackInv
    <3>8. DescriptorsAccounted'
      BY <1>7, <2>1, <2>3, <3>1 DEF DetachBootstrap, Moved,
         DescriptorsAccounted, ServerInv, VarsInv, Settled
    <3> QED
      BY <3>2, <3>3, <3>4, <3>5, <3>6, <3>7, <3>8 DEF LifeInv
  <2> QED
    BY <1>7, <2>2, <2>3 DEF DetachBootstrap, Managers
<1>8. ASSUME NEW lock \in {"connections", "peers"}, CommandStarts(lock)
      PROVE  LifeInv'
  <2>1. /\ Len(stack) = 1 /\ stack[1].at = <<"loop", "cli">>
        /\ stack[1].at[1] = "loop" /\ stack[1].at[2] = "cli"
    BY <1>8, MainAt DEF CommandStarts, MainSteps
  <2>2. Moved("command", "cli")
    BY <1>8, GotoMoves DEF CommandStarts, StopSteps, MainSteps, Things
  <2>3. StackInv'
    BY <1>8, <2>1, <2>2 DEF CommandStarts, Moved, StackInv, StopSteps
  <2>4. VarsInv'
    BY <1>8, <2>1, <2>2 DEF CommandStarts, Moved, VarsInv
  <2>5. LockInv'
    BY <1>8, <2>1, <2>2 DEF CommandStarts, Moved, LockInv, StackInv
  <2>6. MainInv'
    BY <1>8, <2>1, <2>2 DEF CommandStarts, Moved, MainInv, VarsInv, Settled,
       StackInv
  <2>7. JoinedBeforeFreed'
    BY <1>8, <2>1, <2>2 DEF CommandStarts, Moved, JoinedBeforeFreed, MainInv,
       VarsInv, Settled
  <2>8. ServerInv'
    BY <1>8, <2>1, <2>2 DEF CommandStarts, Moved, ServerInv, VarsInv, Settled,
       StackInv
  <2>9. DescriptorsAccounted'
    BY <1>8, <2>1, <2>2 DEF CommandStarts, Moved, DescriptorsAccounted,
       ServerInv, VarsInv, Settled
  <2> QED
    BY <2>3, <2>4, <2>5, <2>6, <2>7, <2>8, <2>9 DEF LifeInv
<1>9. ASSUME ExitCommand
      PROVE  LifeInv'
  <2>1. StackInv'
    BY <1>9 DEF ExitCommand, StackInv, StopSteps
  <2>2. VarsInv'
    BY <1>9 DEF ExitCommand, VarsInv
  <2>3. LockInv'
    BY <1>9 DEF ExitCommand, LockInv, StackInv
  <2>4. MainInv'
    BY <1>9 DEF ExitCommand, MainInv, VarsInv, Settled, StackInv
  <2>5. JoinedBeforeFreed'
    BY <1>9 DEF ExitCommand, JoinedBeforeFreed, MainInv, VarsInv, Settled
  <2>6. ServerInv'
    BY <1>9 DEF ExitCommand, ServerInv, VarsInv, Settled, StackInv
  <2>7. DescriptorsAccounted'
    BY <1>9 DEF ExitCommand, DescriptorsAccounted, ServerInv, VarsInv, Settled
  <2> QED
    BY <2>1, <2>2, <2>3, <2>4, <2>5, <2>6, <2>7 DEF LifeInv
<1>10. ASSUME EndOfInput
      PROVE  LifeInv'
  <2>1. /\ Len(stack) = 1 /\ stack[1].at = <<"loop", "cli">>
        /\ stack[1].at[1] = "loop" /\ stack[1].at[2] = "cli"
    BY <1>10, MainAt DEF EndOfInput, MainSteps
  <2>2. Moved("shutdown", "cli")
    BY <1>10, GotoMoves DEF EndOfInput, StopSteps, MainSteps, Things
  <2>3. StackInv'
    BY <1>10, <2>1, <2>2 DEF EndOfInput, Moved, StackInv, StopSteps
  <2>4. VarsInv'
    BY <1>10, <2>1, <2>2 DEF EndOfInput, Moved, VarsInv
  <2>5. LockInv'
    BY <1>10, <2>1, <2>2 DEF EndOfInput, Moved, LockInv, StackInv
  <2>6. MainInv'
    BY <1>10, <2>1, <2>2 DEF EndOfInput, Moved, MainInv, VarsInv, Settled,
       StackInv
  <2>7. JoinedBeforeFreed'
    BY <1>10, <2>1, <2>2 DEF EndOfInput, Moved, JoinedBeforeFreed, MainInv,
       VarsInv, Settled
  <2>8. ServerInv'
    BY <1>10, <2>1, <2>2 DEF EndOfInput, Moved, ServerInv, VarsInv, Settled,
       StackInv
  <2>9. DescriptorsAccounted'
    BY <1>10, <2>1, <2>2 DEF EndOfInput, Moved, DescriptorsAccounted, ServerInv,
       VarsInv, Settled
  <2> QED
    BY <2>3, <2>4, <2>5, <2>6, <2>7, <2>8, <2>9 DEF LifeInv
<1>11. ASSUME CommandEnds
      PROVE  LifeInv'
  <2>1. /\ Len(stack) = 1 /\ stack[1].at = <<"command", "cli">>
        /\ stack[1].at[1] = "command" /\ stack[1].at[2] = "cli"
    BY <1>11, MainAt DEF CommandEnds, MainSteps
  <2>2. Moved("loop", "cli")
    BY <1>11, GotoMoves DEF CommandEnds, StopSteps, MainSteps, Things
  <2>3. StackInv'
    BY <1>11, <2>1, <2>2 DEF CommandEnds, Moved, StackInv, StopSteps
  <2>4. VarsInv'
    BY <1>11, <2>1, <2>2 DEF CommandEnds, Moved, VarsInv, Uses, Boot
  <2>5. LockInv'
    BY <1>11, <2>1, <2>2 DEF CommandEnds, Moved, LockInv, StackInv
  <2>6. MainInv'
    BY <1>11, <2>1, <2>2 DEF CommandEnds, Moved, MainInv, VarsInv, Settled,
       StackInv
  <2>7. JoinedBeforeFreed'
    BY <1>11, <2>1, <2>2 DEF CommandEnds, Moved, JoinedBeforeFreed, MainInv,
       VarsInv, Settled
  <2>8. ServerInv'
    BY <1>11, <2>1, <2>2 DEF CommandEnds, Moved, ServerInv, VarsInv, Settled,
       StackInv
  <2>9. DescriptorsAccounted'
    BY <1>11, <2>1, <2>2 DEF CommandEnds, Moved, DescriptorsAccounted,
       ServerInv, VarsInv, Settled
  <2> QED
    BY <2>3, <2>4, <2>5, <2>6, <2>7, <2>8, <2>9 DEF LifeInv
<1>12. ASSUME LeaveLoop
      PROVE  LifeInv'
  <2>1. /\ Len(stack) = 1 /\ stack[1].at = <<"loop", "cli">>
        /\ stack[1].at[1] = "loop" /\ stack[1].at[2] = "cli"
    BY <1>12, MainAt DEF LeaveLoop, MainSteps
  <2>2. Moved("shutdown", "cli")
    BY <1>12, GotoMoves DEF LeaveLoop, StopSteps, MainSteps, Things
  <2>3. StackInv'
    BY <1>12, <2>1, <2>2 DEF LeaveLoop, Moved, StackInv, StopSteps
  <2>4. VarsInv'
    BY <1>12, <2>1, <2>2 DEF LeaveLoop, Moved, VarsInv
  <2>5. LockInv'
    BY <1>12, <2>1, <2>2 DEF LeaveLoop, Moved, LockInv, StackInv
  <2>6. MainInv'
    BY <1>12, <2>1, <2>2 DEF LeaveLoop, Moved, MainInv, VarsInv, Settled,
       StackInv
  <2>7. JoinedBeforeFreed'
    BY <1>12, <2>1, <2>2 DEF LeaveLoop, Moved, JoinedBeforeFreed, MainInv,
       VarsInv, Settled
  <2>8. ServerInv'
    BY <1>12, <2>1, <2>2 DEF LeaveLoop, Moved, ServerInv, VarsInv, Settled,
       StackInv
  <2>9. DescriptorsAccounted'
    BY <1>12, <2>1, <2>2 DEF LeaveLoop, Moved, DescriptorsAccounted, ServerInv,
       VarsInv, Settled
  <2> QED
    BY <2>3, <2>4, <2>5, <2>6, <2>7, <2>8, <2>9 DEF LifeInv
<1>13. ASSUME Shutdown
      PROVE  LifeInv'
  <2>1. stack[Len(stack)].at[1] = "shutdown" /\ stack[Len(stack)].at[2] = "cli"
    BY <1>13 DEF Shutdown, At, Top, StackInv, StopSteps
  <2>2. Moved("stop", "server")
    BY <1>13, GotoMoves DEF Shutdown, StopSteps, MainSteps, Things
  <2>3. StackInv'
    BY <1>13, <2>1, <2>2 DEF Shutdown, Moved, StackInv, StopSteps
  <2>4. VarsInv'
    BY <1>13, <2>1, <2>2 DEF Shutdown, Moved, VarsInv
  <2>5. LockInv'
    BY <1>13, <2>1, <2>2 DEF Shutdown, Moved, LockInv, StackInv
  <2>6. MainInv'
    BY <1>13, <2>1, <2>2 DEF Shutdown, Moved, MainInv, VarsInv, Settled,
       StackInv
  <2>7. JoinedBeforeFreed'
    BY <1>13, <2>1, <2>2 DEF Shutdown, Moved, JoinedBeforeFreed, MainInv,
       VarsInv, Settled
  <2>8. ServerInv'
    BY <1>13, <2>1, <2>2 DEF Shutdown, Moved, ServerInv, VarsInv, Settled,
       StackInv
  <2>9. DescriptorsAccounted'
    BY <1>13, <2>1, <2>2 DEF Shutdown, Moved, DescriptorsAccounted, ServerInv,
       VarsInv, Settled
  <2> QED
    BY <2>3, <2>4, <2>5, <2>6, <2>7, <2>8, <2>9 DEF LifeInv
<1>14. ASSUME ShutdownEnds
      PROVE  LifeInv'
  <2>1. stack[Len(stack)].at[1] = "done" /\ stack[Len(stack)].at[2] = "cli"
    BY <1>14 DEF ShutdownEnds, At, Top, StackInv, StopSteps
  <2>2. CASE Top.by = "main"
    <3>1. Moved("free", "cliPeers")
      BY <1>14, <2>2, GotoMoves DEF ShutdownEnds, MainSteps, StopSteps, Things
    <3>2. StackInv'
      BY <1>14, <2>1, <2>2, <3>1 DEF ShutdownEnds, Moved, StackInv, StopSteps,
         Top
    <3>3. VarsInv'
      BY <1>14, <2>1, <2>2, <3>1 DEF ShutdownEnds, Moved, VarsInv
    <3>4. LockInv'
      BY <1>14, <2>1, <2>2, <3>1 DEF ShutdownEnds, Moved, LockInv, StackInv
    <3>5. MainInv'
      BY <1>14, <2>1, <2>2, <3>1 DEF ShutdownEnds, Moved, MainInv, VarsInv,
         Settled, StackInv
    <3>6. JoinedBeforeFreed'
      BY <1>14, <2>1, <2>2, <3>1 DEF ShutdownEnds, Moved, JoinedBeforeFreed,
         MainInv, VarsInv, Settled
    <3>7. ServerInv'
      BY <1>14, <2>1, <2>2, <3>1 DEF ShutdownEnds, Moved, ServerInv, VarsInv,
         Settled, StackInv
    <3>8. DescriptorsAccounted'
      BY <1>14, <2>1, <2>2, <3>1 DEF ShutdownEnds, Moved, DescriptorsAccounted,
         ServerInv, VarsInv, Settled
    <3> QED
      BY <3>2, <3>3, <3>4, <3>5, <3>6, <3>7, <3>8 DEF LifeInv
  <2>3. CASE Top.by # "main"
    <3>1. StackInv'
      BY <1>14, <2>1, <2>3 DEF ShutdownEnds, StackInv, StopSteps
    <3>2. VarsInv'
      BY <1>14, <2>1, <2>3 DEF ShutdownEnds, VarsInv
    <3>3. LockInv'
      BY <1>14, <2>1, <2>3 DEF ShutdownEnds, LockInv, StackInv
    <3>4. MainInv'
      BY <1>14, <2>1, <2>3 DEF ShutdownEnds, MainInv, VarsInv, Settled, StackInv
    <3>5. JoinedBeforeFreed'
      BY <1>14, <2>1, <2>3 DEF ShutdownEnds, JoinedBeforeFreed, MainInv,
         VarsInv, Settled
    <3>6. ServerInv'
      BY <1>14, <2>1, <2>3 DEF ShutdownEnds, ServerInv, VarsInv, Settled,
         StackInv
    <3>7. DescriptorsAccounted'
      BY <1>14, <2>1, <2>3 DEF ShutdownEnds, DescriptorsAccounted, ServerInv,
         VarsInv, Settled
    <3> QED
      BY <3>1, <3>2, <3>3, <3>4, <3>5, <3>6, <3>7 DEF LifeInv
  <2> QED
    BY <1>14, <2>2, <2>3 DEF ShutdownEnds
<1>15. ASSUME MainReturns
      PROVE  LifeInv'
  <2>1. /\ Len(stack) = 1 /\ stack[1].at = <<"return", "main">>
        /\ stack[1].at[1] = "return" /\ stack[1].at[2] = "main"
    BY <1>15, MainAt DEF MainReturns, MainSteps
  <2>2. StackInv'
    BY <1>15, <2>1 DEF MainReturns, StackInv, StopSteps
  <2>3. VarsInv'
    BY <1>15, <2>1 DEF MainReturns, VarsInv
  <2>4. LockInv'
    BY <1>15, <2>1 DEF MainReturns, LockInv, StackInv
  <2>5. MainInv'
    BY <1>15, <2>1 DEF MainReturns, MainInv, VarsInv, Settled, StackInv
  <2>6. JoinedBeforeFreed'
    BY <1>15, <2>1 DEF MainReturns, JoinedBeforeFreed, MainInv, VarsInv, Settled
  <2>7. ServerInv'
    BY <1>15, <2>1 DEF MainReturns, ServerInv, VarsInv, Settled, StackInv
  <2>8. DescriptorsAccounted'
    BY <1>15, <2>1 DEF MainReturns, DescriptorsAccounted, ServerInv, VarsInv,
       Settled
  <2> QED
    BY <2>2, <2>3, <2>4, <2>5, <2>6, <2>7, <2>8 DEF LifeInv
<1>16. ASSUME NEW o \in Runnable, Stop(o)
      PROVE  LifeInv'
  <2>1. stack[Len(stack)].at[1] = "stop" /\ stack[Len(stack)].at[2] = o
    BY <1>16 DEF Stop, At, Top, StackInv, StopSteps
  <2>2. CASE process' # process
    <3>1. StackInv'
      BY <1>16, <2>1, <2>2 DEF Stop, At, Return, StackInv, StopSteps
    <3>2. VarsInv'
      BY <1>16, <2>1, <2>2 DEF Stop, At, Return, VarsInv
    <3>3. LockInv'
      BY <1>16, <2>1, <2>2 DEF Stop, At, Return, LockInv, StackInv
    <3>4. MainInv'
      BY <1>16, <2>1, <2>2 DEF Stop, At, Return, MainInv, VarsInv, Settled,
         StackInv
    <3>5. JoinedBeforeFreed'
      BY <1>16, <2>1, <2>2 DEF Stop, At, Return, JoinedBeforeFreed, MainInv,
         VarsInv, Settled
    <3>6. ServerInv'
      BY <1>16, <2>1, <2>2 DEF Stop, At, Return, ServerInv, VarsInv, Settled,
         StackInv
    <3>7. DescriptorsAccounted'
      BY <1>16, <2>1, <2>2 DEF Stop, At, Return, DescriptorsAccounted,
         ServerInv, VarsInv, Settled
    <3> QED
      BY <3>1, <3>2, <3>3, <3>4, <3>5, <3>6, <3>7 DEF LifeInv
  <2>3. CASE process' = process /\ o \notin freed /\ running[o]
    <3>1. Moved("clear", o)
      BY <1>16, <2>3, GotoMoves DEF Stop, At, MainSteps, Return, Runnable,
         StopSteps, Things
    <3>2. StackInv'
      BY <1>16, <2>1, <2>3, <3>1 DEF Stop, Moved, StackInv, StopSteps
    <3>3. VarsInv'
      BY <1>16, <2>1, <2>3, <3>1 DEF Stop, Moved, VarsInv
    <3>4. LockInv'
      BY <1>16, <2>1, <2>3, <3>1 DEF Stop, Moved, LockInv, StackInv
    <3>5. MainInv'
      BY <1>16, <2>1, <2>3, <3>1 DEF Stop, Moved, MainInv, VarsInv, Settled,
         StackInv
    <3>6. JoinedBeforeFreed'
      BY <1>16, <2>1, <2>3, <3>1 DEF Stop, Moved, JoinedBeforeFreed, MainInv,
         VarsInv, Settled
    <3>7. ServerInv'
      BY <1>16, <2>1, <2>3, <3>1 DEF Stop, Moved, ServerInv, VarsInv, Settled,
         StackInv
    <3>8. DescriptorsAccounted'
      BY <1>16, <2>1, <2>3, <3>1 DEF Stop, Moved, DescriptorsAccounted,
         ServerInv, VarsInv, Settled
    <3> QED
      BY <3>2, <3>3, <3>4, <3>5, <3>6, <3>7, <3>8 DEF LifeInv
  <2>4. CASE process' = process /\ ~(o \notin freed /\ running[o]) /\ o = "server"
    <3>1. Moved("stop", "cliPeers")
      BY <1>16, <2>4, GotoMoves DEF Stop, At, MainSteps, Return, Runnable,
         StopSteps, Things
    <3>2. StackInv'
      BY <1>16, <2>1, <2>4, <3>1 DEF Stop, Moved, StackInv, StopSteps
    <3>3. VarsInv'
      BY <1>16, <2>1, <2>4, <3>1 DEF Stop, Moved, VarsInv
    <3>4. LockInv'
      BY <1>16, <2>1, <2>4, <3>1 DEF Stop, Moved, LockInv, StackInv
    <3>5. MainInv'
      BY <1>16, <2>1, <2>4, <3>1 DEF Stop, Moved, MainInv, VarsInv, Settled,
         StackInv
    <3>6. JoinedBeforeFreed'
      BY <1>16, <2>1, <2>4, <3>1 DEF Stop, Moved, JoinedBeforeFreed, MainInv,
         VarsInv, Settled
    <3>7. ServerInv'
      BY <1>16, <2>1, <2>4, <3>1 DEF Stop, Moved, ServerInv, VarsInv, Settled,
         StackInv
    <3>8. DescriptorsAccounted'
      BY <1>16, <2>1, <2>4, <3>1 DEF Stop, Moved, DescriptorsAccounted,
         ServerInv, VarsInv, Settled
    <3> QED
      BY <3>2, <3>3, <3>4, <3>5, <3>6, <3>7, <3>8 DEF LifeInv
  <2>5. CASE process' = process /\ ~(o \notin freed /\ running[o]) /\ o = "serverPeers"
    <3>1. Moved("close", "server")
      BY <1>16, <2>5, GotoMoves DEF Stop, At, MainSteps, Return, Runnable,
         StopSteps, Things
    <3>2. StackInv'
      BY <1>16, <2>1, <2>5, <3>1 DEF Stop, Moved, StackInv, StopSteps
    <3>3. VarsInv'
      BY <1>16, <2>1, <2>5, <3>1 DEF Stop, Moved, VarsInv
    <3>4. LockInv'
      BY <1>16, <2>1, <2>5, <3>1 DEF Stop, Moved, LockInv, StackInv
    <3>5. MainInv'
      BY <1>16, <2>1, <2>5, <3>1 DEF Stop, Moved, MainInv, VarsInv, Settled,
         StackInv, Runnable, ServerInv
    <3>6. JoinedBeforeFreed'
      BY <1>16, <2>1, <2>5, <3>1 DEF Stop, Moved, JoinedBeforeFreed, MainInv,
         VarsInv, Settled
    <3>7. ServerInv'
      BY <1>16, <2>1, <2>5, <3>1 DEF Stop, Moved, ServerInv, VarsInv, Settled,
         StackInv
    <3>8. DescriptorsAccounted'
      BY <1>16, <2>1, <2>5, <3>1 DEF Stop, Moved, DescriptorsAccounted,
         ServerInv, VarsInv, Settled
    <3> QED
      BY <3>2, <3>3, <3>4, <3>5, <3>6, <3>7, <3>8 DEF LifeInv
  <2>6. CASE process' = process /\ ~(o \notin freed /\ running[o]) /\ o = "cliPeers"
    <3>1. Moved("done", "cli")
      BY <1>16, <2>6, GotoMoves DEF Stop, At, MainSteps, Return, Runnable,
         StopSteps, Things
    <3>2. StackInv'
      BY <1>16, <2>1, <2>6, <3>1 DEF Stop, Moved, StackInv, StopSteps
    <3>3. VarsInv'
      BY <1>16, <2>1, <2>6, <3>1 DEF Stop, Moved, VarsInv
    <3>4. LockInv'
      BY <1>16, <2>1, <2>6, <3>1 DEF Stop, Moved, LockInv, StackInv
    <3>5. MainInv'
      BY <1>16, <2>1, <2>6, <3>1 DEF Stop, Moved, MainInv, VarsInv, Settled,
         StackInv
    <3>6. JoinedBeforeFreed'
      BY <1>16, <2>1, <2>6, <3>1 DEF Stop, Moved, JoinedBeforeFreed, MainInv,
         VarsInv, Settled
    <3>7. ServerInv'
      BY <1>16, <2>1, <2>6, <3>1 DEF Stop, Moved, ServerInv, VarsInv, Settled,
         StackInv
    <3>8. DescriptorsAccounted'
      BY <1>16, <2>1, <2>6, <3>1 DEF Stop, Moved, DescriptorsAccounted,
         ServerInv, VarsInv, Settled
    <3> QED
      BY <3>2, <3>3, <3>4, <3>5, <3>6, <3>7, <3>8 DEF LifeInv
  <2> QED
    BY <1>16, <2>2, <2>3, <2>4, <2>5, <2>6 DEF Stop, At, Return, Runnable
<1>17. ASSUME NEW o \in Runnable, StopClears(o)
      PROVE  LifeInv'
  <2>1. stack[Len(stack)].at[1] = "clear" /\ stack[Len(stack)].at[2] = o
    BY <1>17 DEF StopClears, At, Top, StackInv, StopSteps
  <2>2. Moved("join", o)
    BY <1>17, GotoMoves DEF StopClears, StopSteps, MainSteps, Things, Runnable
  <2>3. StackInv'
    BY <1>17, <2>1, <2>2 DEF StopClears, Moved, StackInv, StopSteps
  <2>4. VarsInv'
    BY <1>17, <2>1, <2>2 DEF StopClears, Moved, VarsInv
  <2>5. LockInv'
    BY <1>17, <2>1, <2>2 DEF StopClears, Moved, LockInv, StackInv
  <2>6. MainInv'
    BY <1>17, <2>1, <2>2 DEF StopClears, Moved, MainInv, VarsInv, Settled,
       StackInv
  <2>7. JoinedBeforeFreed'
    BY <1>17, <2>1, <2>2 DEF StopClears, Moved, JoinedBeforeFreed, MainInv,
       VarsInv, Settled
  <2>8. ServerInv'
    BY <1>17, <2>1, <2>2 DEF StopClears, Moved, ServerInv, VarsInv, Settled,
       StackInv
  <2>9. DescriptorsAccounted'
    BY <1>17, <2>1, <2>2 DEF StopClears, Moved, DescriptorsAccounted, ServerInv,
       VarsInv, Settled
  <2> QED
    BY <2>3, <2>4, <2>5, <2>6, <2>7, <2>8, <2>9 DEF LifeInv
<1>18. ASSUME NEW o \in Runnable, StopJoins(o)
      PROVE  LifeInv'
  <2>1. stack[Len(stack)].at[1] = "join" /\ stack[Len(stack)].at[2] = o
    BY <1>18 DEF StopJoins, At, Top, StackInv, StopSteps
  <2>2. CASE o = "server"
    <3>1. Moved("stop", "serverPeers")
      BY <1>18, <2>2, GotoMoves DEF StopJoins, AfterJoin, MainSteps, Return,
         Runnable, StopSteps, Things
    <3>2. StackInv'
      BY <1>18, <2>1, <2>2, <3>1 DEF StopJoins, Moved, StackInv, StopSteps
    <3>3. VarsInv'
      BY <1>18, <2>1, <2>2, <3>1 DEF StopJoins, Moved, VarsInv
    <3>4. LockInv'
      BY <1>18, <2>1, <2>2, <3>1 DEF StopJoins, Moved, LockInv, StackInv
    <3>5. MainInv'
      BY <1>18, <2>1, <2>2, <3>1 DEF StopJoins, Moved, MainInv, VarsInv,
         Settled, StackInv
    <3>6. JoinedBeforeFreed'
      BY <1>18, <2>1, <2>2, <3>1 DEF StopJoins, Moved, JoinedBeforeFreed,
         MainInv, VarsInv, Settled
    <3>7. ServerInv'
      BY <1>18, <2>1, <2>2, <3>1 DEF StopJoins, Moved, ServerInv, VarsInv,
         Settled, StackInv
    <3>8. DescriptorsAccounted'
      BY <1>18, <2>1, <2>2, <3>1 DEF StopJoins, Moved, DescriptorsAccounted,
         ServerInv, VarsInv, Settled
    <3> QED
      BY <3>2, <3>3, <3>4, <3>5, <3>6, <3>7, <3>8 DEF LifeInv
  <2>3. CASE o = "serverPeers"
    <3>1. Moved("close", "server")
      BY <1>18, <2>3, GotoMoves DEF StopJoins, AfterJoin, MainSteps, Return,
         Runnable, StopSteps, Things
    <3>2. StackInv'
      BY <1>18, <2>1, <2>3, <3>1 DEF StopJoins, Moved, StackInv, StopSteps
    <3>3. VarsInv'
      BY <1>18, <2>1, <2>3, <3>1 DEF StopJoins, Moved, VarsInv
    <3>4. LockInv'
      BY <1>18, <2>1, <2>3, <3>1 DEF StopJoins, Moved, LockInv, StackInv
    <3>5. MainInv'
      BY <1>18, <2>1, <2>3, <3>1 DEF StopJoins, Moved, MainInv, VarsInv,
         Settled, StackInv, Runnable, ServerInv
    <3>6. JoinedBeforeFreed'
      BY <1>18, <2>1, <2>3, <3>1 DEF StopJoins, Moved, JoinedBeforeFreed,
         MainInv, VarsInv, Settled
    <3>7. ServerInv'
      BY <1>18, <2>1, <2>3, <3>1 DEF StopJoins, Moved, ServerInv, VarsInv,
         Settled, StackInv
    <3>8. DescriptorsAccounted'
      BY <1>18, <2>1, <2>3, <3>1 DEF StopJoins, Moved, DescriptorsAccounted,
         ServerInv, VarsInv, Settled
    <3> QED
      BY <3>2, <3>3, <3>4, <3>5, <3>6, <3>7, <3>8 DEF LifeInv
  <2>4. CASE o = "cliPeers"
    <3>1. Moved("done", "cli")
      BY <1>18, <2>4, GotoMoves DEF StopJoins, AfterJoin, MainSteps, Return,
         Runnable, StopSteps, Things
    <3>2. StackInv'
      BY <1>18, <2>1, <2>4, <3>1 DEF StopJoins, Moved, StackInv, StopSteps
    <3>3. VarsInv'
      BY <1>18, <2>1, <2>4, <3>1 DEF StopJoins, Moved, VarsInv
    <3>4. LockInv'
      BY <1>18, <2>1, <2>4, <3>1 DEF StopJoins, Moved, LockInv, StackInv
    <3>5. MainInv'
      BY <1>18, <2>1, <2>4, <3>1 DEF StopJoins, Moved, MainInv, VarsInv,
         Settled, StackInv
    <3>6. JoinedBeforeFreed'
      BY <1>18, <2>1, <2>4, <3>1 DEF StopJoins, Moved, JoinedBeforeFreed,
         MainInv, VarsInv, Settled
    <3>7. ServerInv'
      BY <1>18, <2>1, <2>4, <3>1 DEF StopJoins, Moved, ServerInv, VarsInv,
         Settled, StackInv
    <3>8. DescriptorsAccounted'
      BY <1>18, <2>1, <2>4, <3>1 DEF StopJoins, Moved, DescriptorsAccounted,
         ServerInv, VarsInv, Settled
    <3> QED
      BY <3>2, <3>3, <3>4, <3>5, <3>6, <3>7, <3>8 DEF LifeInv
  <2> QED
    BY <1>18, <2>2, <2>3, <2>4 DEF StopJoins, AfterJoin, Return, Runnable
<1>19. ASSUME LockConnections
      PROVE  LifeInv'
  <2>1. stack[Len(stack)].at[1] = "close" /\ stack[Len(stack)].at[2] = "server"
    BY <1>19 DEF LockConnections, At, Top, StackInv, StopSteps
  <2>2. Moved("closing", "server")
    BY <1>19, GotoMoves DEF LockConnections, StopSteps, MainSteps, Things
  <2>3. StackInv'
    BY <1>19, <2>1, <2>2 DEF LockConnections, Moved, StackInv, StopSteps
  <2>4. VarsInv'
    BY <1>19, <2>1, <2>2 DEF LockConnections, Moved, VarsInv
  <2>5. LockInv'
    <3>1. holds' = holds \cup {"connections"} /\ "connections" \notin holds
      BY <1>19 DEF LockConnections
    <3>2. \A i \in 1 .. Len(stack) : stack[i].at[1] # "closing"
      BY <3>1 DEF LockInv
    <3>3. stack[1].at[1] = "command" => "peers" \in holds
      BY <3>1 DEF LockInv
    <3>4. Len(stack) \in 1 .. Len(stack) /\ 1 \in 1 .. Len(stack)
      BY DEF StackInv
    <3>5. stack'[1].at[1] = "command" => stack[1].at[1] = "command"
      BY <2>2, <3>4 DEF Moved
    <3>6. stack[1].at[1] = "command" => stack'[1].at[1] = "command"
      BY <2>1, <2>2, <3>4 DEF Moved
    <3>7. \A i \in 1 .. Len(stack) : stack'[i].at[1] = "closing" => i = Len(stack)
      BY <2>2, <3>2 DEF Moved
    <3>8. holds' \subseteq {"connections", "peers"} /\ "connections" \in holds'
      BY <3>1 DEF LockInv
    <3>9. "peers" \in holds' => "peers" \in holds
      BY <3>1
    <3> QED
      BY <2>2, <3>1, <3>3, <3>4, <3>5, <3>6, <3>7, <3>8, <3>9 DEF LockInv, Moved
  <2>6. MainInv'
    BY <1>19, <2>1, <2>2 DEF LockConnections, Moved, MainInv, VarsInv, Settled,
       StackInv
  <2>7. JoinedBeforeFreed'
    BY <1>19, <2>1, <2>2 DEF LockConnections, Moved, JoinedBeforeFreed, MainInv,
       VarsInv, Settled
  <2>8. ServerInv'
    BY <1>19, <2>1, <2>2 DEF LockConnections, Moved, ServerInv, VarsInv,
       Settled, StackInv
  <2>9. DescriptorsAccounted'
    BY <1>19, <2>1, <2>2 DEF LockConnections, Moved, DescriptorsAccounted,
       ServerInv, VarsInv, Settled
  <2> QED
    BY <2>3, <2>4, <2>5, <2>6, <2>7, <2>8, <2>9 DEF LifeInv
<1>20. ASSUME CloseConnections
      PROVE  LifeInv'
  <2>1. stack[Len(stack)].at[1] = "closing" /\ stack[Len(stack)].at[2] = "server"
    BY <1>20 DEF CloseConnections, At, Top, StackInv, StopSteps
  <2>2. Moved("sockets", "server")
    BY <1>20, GotoMoves DEF CloseConnections, StopSteps, MainSteps, Things
  <2>3. StackInv'
    BY <1>20, <2>1, <2>2 DEF CloseConnections, Moved, StackInv, StopSteps
  <2>4. VarsInv'
    BY <1>20, <2>1, <2>2 DEF CloseConnections, Moved, VarsInv
  <2>5. LockInv'
    <3>1. holds' = holds \ {"connections"}
      BY <1>20 DEF CloseConnections
    <3>2. Len(stack) \in 1 .. Len(stack) /\ 1 \in 1 .. Len(stack)
      BY DEF StackInv
    <3>3. \A i \in 1 .. Len(stack) : stack'[i].at[1] # "closing"
      BY <2>1, <2>2, <3>2 DEF Moved, LockInv
    <3>4. /\ stack'[1].at[1] = "command" => stack[1].at[1] = "command"
          /\ stack[1].at[1] = "command" => stack'[1].at[1] = "command"
      BY <2>1, <2>2, <3>2 DEF Moved
    <3>5. stack[1].at[1] = "command" => "peers" \in holds
      BY <2>1, <3>2 DEF LockInv
    <3>6. /\ holds' \subseteq {"connections", "peers"}
          /\ holds' # {} => "peers" \in holds
          /\ "peers" \in holds <=> "peers" \in holds'
      BY <3>1 DEF LockInv
    <3> QED
      BY <2>2, <3>2, <3>3, <3>4, <3>5, <3>6 DEF LockInv, Moved
  <2>6. MainInv'
    BY <1>20, <2>1, <2>2 DEF CloseConnections, Moved, MainInv, VarsInv, Settled,
       StackInv
  <2>7. JoinedBeforeFreed'
    BY <1>20, <2>1, <2>2 DEF CloseConnections, Moved, JoinedBeforeFreed,
       MainInv, VarsInv, Settled
  <2>8. ServerInv'
    BY <1>20, <2>1, <2>2 DEF CloseConnections, Moved, ServerInv, VarsInv,
       Settled, StackInv
  <2>9. DescriptorsAccounted'
    BY <1>20, <2>1, <2>2 DEF CloseConnections, Moved, DescriptorsAccounted,
       ServerInv, VarsInv, Settled
  <2> QED
    BY <2>3, <2>4, <2>5, <2>6, <2>7, <2>8, <2>9 DEF LifeInv
<1>21. ASSUME CloseSockets
      PROVE  LifeInv'
  <2>1. stack[Len(stack)].at[1] = "sockets" /\ stack[Len(stack)].at[2] = "server"
    BY <1>21 DEF CloseSockets, At, Top, StackInv, StopSteps
  <2>2. Moved("stop", "cliPeers")
    BY <1>21, GotoMoves DEF CloseSockets, Return, StopSteps, MainSteps, Things
  <2>3. StackInv'
    BY <1>21, <2>1, <2>2 DEF CloseSockets, Return, Moved, StackInv, StopSteps
  <2>4. VarsInv'
    BY <1>21, <2>1, <2>2 DEF CloseSockets, Return, Moved, VarsInv
  <2>5. LockInv'
    BY <1>21, <2>1, <2>2 DEF CloseSockets, Return, Moved, LockInv, StackInv
  <2>6. MainInv'
    BY <1>21, <2>1, <2>2 DEF CloseSockets, Return, Moved, MainInv, VarsInv,
       Settled, StackInv
  <2>7. JoinedBeforeFreed'
    BY <1>21, <2>1, <2>2 DEF CloseSockets, Return, Moved, JoinedBeforeFreed,
       MainInv, VarsInv, Settled
  <2>8. ServerInv'
    BY <1>21, <2>1, <2>2 DEF CloseSockets, Return, Moved, ServerInv, VarsInv,
       Settled, StackInv
  <2>9. DescriptorsAccounted'
    BY <1>21, <2>1, <2>2 DEF CloseSockets, Return, Moved, DescriptorsAccounted,
       ServerInv, VarsInv, Settled, StackInv, Runnable
  <2> QED
    BY <2>3, <2>4, <2>5, <2>6, <2>7, <2>8, <2>9 DEF LifeInv
<1>22. ASSUME NEW o \in {"cliPeers", "client", "server"}, Free(o)
      PROVE  LifeInv'
  <2>1. /\ Len(stack) = 1 /\ stack[1].at = <<"free", o>>
        /\ stack[1].at[1] = "free" /\ stack[1].at[2] = o
    BY <1>22, MainAt DEF Free, MainSteps
  <2>2. CASE o = "cliPeers"
    <3>1. Moved("free", "client")
      BY <1>22, <2>2, GotoMoves DEF Free, MainSteps, StopSteps, Things
    <3>2. StackInv'
      BY <1>22, <2>1, <2>2, <3>1 DEF Free, Moved, StackInv, StopSteps
    <3>3. VarsInv'
      BY <1>22, <2>1, <2>2, <3>1 DEF Free, Moved, VarsInv, Runnable
    <3>4. LockInv'
      BY <1>22, <2>1, <2>2, <3>1 DEF Free, Moved, LockInv, StackInv
    <3>5. MainInv'
      BY <1>22, <2>1, <2>2, <3>1 DEF Free, Moved, MainInv, VarsInv, Settled,
         StackInv
    <3>6. JoinedBeforeFreed'
      BY <1>22, <2>1, <2>2, <3>1 DEF Free, Moved, JoinedBeforeFreed, MainInv,
         VarsInv, Settled
    <3>7. ServerInv'
      BY <1>22, <2>1, <2>2, <3>1 DEF Free, Moved, ServerInv, VarsInv, Settled,
         StackInv
    <3>8. DescriptorsAccounted'
      BY <1>22, <2>1, <2>2, <3>1 DEF Free, Moved, DescriptorsAccounted,
         ServerInv, VarsInv, Settled
    <3> QED
      BY <3>2, <3>3, <3>4, <3>5, <3>6, <3>7, <3>8 DEF LifeInv
  <2>3. CASE o = "client"
    <3>1. Moved("free", "server")
      BY <1>22, <2>3, GotoMoves DEF Free, MainSteps, StopSteps, Things
    <3>2. StackInv'
      BY <1>22, <2>1, <2>3, <3>1 DEF Free, Moved, StackInv, StopSteps
    <3>3. VarsInv'
      BY <1>22, <2>1, <2>3, <3>1 DEF Free, Moved, VarsInv
    <3>4. LockInv'
      BY <1>22, <2>1, <2>3, <3>1 DEF Free, Moved, LockInv, StackInv
    <3>5. MainInv'
      BY <1>22, <2>1, <2>3, <3>1 DEF Free, Moved, MainInv, VarsInv, Settled,
         StackInv
    <3>6. JoinedBeforeFreed'
      BY <1>22, <2>1, <2>3, <3>1 DEF Free, Moved, JoinedBeforeFreed, MainInv,
         VarsInv, Settled, Runnable
    <3>7. ServerInv'
      BY <1>22, <2>1, <2>3, <3>1 DEF Free, Moved, ServerInv, VarsInv, Settled,
         StackInv
    <3>8. DescriptorsAccounted'
      BY <1>22, <2>1, <2>3, <3>1 DEF Free, Moved, DescriptorsAccounted,
         ServerInv, VarsInv, Settled
    <3> QED
      BY <3>2, <3>3, <3>4, <3>5, <3>6, <3>7, <3>8 DEF LifeInv
  <2>4. CASE o = "server"
    <3>1. Moved("return", "main")
      BY <1>22, <2>4, GotoMoves DEF Free, MainSteps, StopSteps, Things
    <3>2. StackInv'
      BY <1>22, <2>1, <2>4, <3>1 DEF Free, Moved, StackInv, StopSteps
    <3>3. VarsInv'
      BY <1>22, <2>1, <2>4, <3>1 DEF Free, Moved, VarsInv, Runnable
    <3>4. LockInv'
      BY <1>22, <2>1, <2>4, <3>1 DEF Free, Moved, LockInv, StackInv
    <3>5. MainInv'
      BY <1>22, <2>1, <2>4, <3>1 DEF Free, Moved, MainInv, VarsInv, Settled,
         StackInv
    <3>6. JoinedBeforeFreed'
      BY <1>22, <2>1, <2>4, <3>1 DEF Free, Moved, JoinedBeforeFreed, MainInv,
         VarsInv, Settled, Runnable
    <3>7. ServerInv'
      BY <1>22, <2>1, <2>4, <3>1 DEF Free, Moved, ServerInv, VarsInv, Settled,
         StackInv
    <3>8. DescriptorsAccounted'
      BY <1>22, <2>1, <2>4, <3>1 DEF Free, Moved, DescriptorsAccounted,
         ServerInv, VarsInv, Settled
    <3> QED
      BY <3>2, <3>3, <3>4, <3>5, <3>6, <3>7, <3>8 DEF LifeInv
  <2> QED
    BY <1>22, <2>2, <2>3, <2>4 DEF Free
<1>23. ASSUME NEW s \in Signals, Signal(s)
      PROVE  LifeInv'
  <2>1. Pushed(s)
    BY <1>23, SignalPushes DEF Signal
  <2>2. StackInv'
    BY <1>23, <2>1 DEF Signal, Pushed, StackInv, StopSteps
  <2>3. VarsInv'
    BY <1>23, <2>1 DEF Signal, Pushed, VarsInv
  <2>4. LockInv'
    BY <1>23, <2>1 DEF Signal, Pushed, LockInv, StackInv
  <2>5. MainInv'
    BY <1>23, <2>1 DEF Signal, Pushed, MainInv, VarsInv, Settled, StackInv
  <2>6. JoinedBeforeFreed'
    BY <1>23, <2>1 DEF Signal, Pushed, JoinedBeforeFreed, MainInv, VarsInv,
       Settled
  <2>7. ServerInv'
    BY <1>23, <2>1 DEF Signal, Pushed, ServerInv, VarsInv, Settled, StackInv
  <2>8. DescriptorsAccounted'
    BY <1>23, <2>1 DEF Signal, Pushed, DescriptorsAccounted, ServerInv, VarsInv,
       Settled
  <2> QED
    BY <2>2, <2>3, <2>4, <2>5, <2>6, <2>7, <2>8 DEF LifeInv
<1>24. ASSUME NEW o \in Runnable, Check(o)
      PROVE  LifeInv'
  <2>1. StackInv'
    BY <1>24 DEF Check, Move, StackInv, StopSteps
  <2>2. VarsInv'
    BY <1>24 DEF Check, Move, VarsInv
  <2>3. LockInv'
    BY <1>24 DEF Check, Move, LockInv, StackInv
  <2>4. MainInv'
    BY <1>24 DEF Check, Move, MainInv, VarsInv, Settled, StackInv
  <2>5. JoinedBeforeFreed'
    BY <1>24 DEF Check, Move, JoinedBeforeFreed, MainInv, VarsInv, Settled
  <2>6. ServerInv'
    BY <1>24 DEF Check, Move, ServerInv, VarsInv, Settled, StackInv
  <2>7. DescriptorsAccounted'
    BY <1>24 DEF Check, Move, DescriptorsAccounted, ServerInv, VarsInv, Settled
  <2> QED
    BY <2>1, <2>2, <2>3, <2>4, <2>5, <2>6, <2>7 DEF LifeInv
<1>25. ASSUME PollEnds
      PROVE  LifeInv'
  <2>1. StackInv'
    BY <1>25 DEF PollEnds, Move, StackInv, StopSteps
  <2>2. VarsInv'
    BY <1>25 DEF PollEnds, Move, VarsInv
  <2>3. LockInv'
    BY <1>25 DEF PollEnds, Move, LockInv, StackInv
  <2>4. MainInv'
    BY <1>25 DEF PollEnds, Move, MainInv, VarsInv, Settled, StackInv
  <2>5. JoinedBeforeFreed'
    BY <1>25 DEF PollEnds, Move, JoinedBeforeFreed, MainInv, VarsInv, Settled
  <2>6. ServerInv'
    BY <1>25 DEF PollEnds, Move, ServerInv, VarsInv, Settled, StackInv
  <2>7. DescriptorsAccounted'
    BY <1>25 DEF PollEnds, Move, DescriptorsAccounted, ServerInv, VarsInv,
       Settled
  <2> QED
    BY <2>1, <2>2, <2>3, <2>4, <2>5, <2>6, <2>7 DEF LifeInv
<1>26. ASSUME NEW c \in Sockets, Accept(c)
      PROVE  LifeInv'
  <2>1. StackInv'
    BY <1>26 DEF Accept, Move, StackInv, StopSteps
  <2>2. VarsInv'
    BY <1>26 DEF Accept, Move, VarsInv
  <2>3. LockInv'
    BY <1>26 DEF Accept, Move, LockInv, StackInv
  <2>4. MainInv'
    BY <1>26 DEF Accept, Move, MainInv, VarsInv, Settled, StackInv
  <2>5. JoinedBeforeFreed'
    BY <1>26 DEF Accept, Move, JoinedBeforeFreed, MainInv, VarsInv, Settled
  <2>6. ServerInv'
    BY <1>26, LifecycleAssumption DEF Accept, Move, ServerInv, DescriptorsAccounted,
       VarsInv, Settled, StackInv, Runnable
  <2>7. DescriptorsAccounted'
    BY <1>26, LifecycleAssumption DEF Accept, Move, DescriptorsAccounted, ServerInv,
       VarsInv, Settled, Runnable
  <2> QED
    BY <2>1, <2>2, <2>3, <2>4, <2>5, <2>6, <2>7 DEF LifeInv
<1>27. ASSUME AcceptFails
      PROVE  LifeInv'
  <2>1. StackInv'
    BY <1>27 DEF AcceptFails, Move, StackInv, StopSteps
  <2>2. VarsInv'
    BY <1>27 DEF AcceptFails, Move, VarsInv
  <2>3. LockInv'
    BY <1>27 DEF AcceptFails, Move, LockInv, StackInv
  <2>4. MainInv'
    BY <1>27 DEF AcceptFails, Move, MainInv, VarsInv, Settled, StackInv
  <2>5. JoinedBeforeFreed'
    BY <1>27 DEF AcceptFails, Move, JoinedBeforeFreed, MainInv, VarsInv, Settled
  <2>6. ServerInv'
    BY <1>27, LifecycleAssumption DEF AcceptFails, Move, ServerInv, VarsInv, Settled,
       StackInv, Runnable
  <2>7. DescriptorsAccounted'
    BY <1>27 DEF AcceptFails, Move, DescriptorsAccounted, ServerInv, VarsInv,
       Settled, Runnable
  <2> QED
    BY <2>1, <2>2, <2>3, <2>4, <2>5, <2>6, <2>7 DEF LifeInv
<1>28. ASSUME AddConnection
      PROVE  LifeInv'
  <2>1. StackInv'
    BY <1>28 DEF AddConnection, Move, StackInv, StopSteps
  <2>2. VarsInv'
    BY <1>28 DEF AddConnection, Move, VarsInv, Runnable, ServerInv
  <2>3. LockInv'
    BY <1>28 DEF AddConnection, Move, LockInv, StackInv
  <2>4. MainInv'
    BY <1>28 DEF AddConnection, Move, MainInv, VarsInv, Settled, StackInv
  <2>5. JoinedBeforeFreed'
    BY <1>28 DEF AddConnection, Move, JoinedBeforeFreed, MainInv, VarsInv,
       Settled
  <2>6. ServerInv'
    BY <1>28, LifecycleAssumption DEF AddConnection, Move, ServerInv, VarsInv, Settled,
       StackInv, Runnable
  <2>7. DescriptorsAccounted'
    BY <1>28 DEF AddConnection, Move, DescriptorsAccounted, ServerInv, VarsInv,
       Settled, Runnable
  <2> QED
    BY <2>1, <2>2, <2>3, <2>4, <2>5, <2>6, <2>7 DEF LifeInv
<1>29. ASSUME NEW c \in Sockets, CloseConnection(c)
      PROVE  LifeInv'
  <2>1. StackInv'
    BY <1>29 DEF CloseConnection, StackInv, StopSteps
  <2>2. VarsInv'
    BY <1>29 DEF CloseConnection, VarsInv
  <2>3. LockInv'
    BY <1>29 DEF CloseConnection, LockInv, StackInv
  <2>4. MainInv'
    BY <1>29 DEF CloseConnection, MainInv, VarsInv, Settled, StackInv
  <2>5. JoinedBeforeFreed'
    BY <1>29 DEF CloseConnection, JoinedBeforeFreed, MainInv, VarsInv, Settled
  <2>6. ServerInv'
    BY <1>29 DEF CloseConnection, ServerInv, VarsInv, Settled, StackInv
  <2>7. DescriptorsAccounted'
    BY <1>29 DEF CloseConnection, DescriptorsAccounted, ServerInv, VarsInv,
       Settled
  <2> QED
    BY <2>1, <2>2, <2>3, <2>4, <2>5, <2>6, <2>7 DEF LifeInv
<1>30. ASSUME NEW m \in Managers, Round(m)
      PROVE  LifeInv'
  <2>1. StackInv'
    BY <1>30 DEF Round, Move, StackInv, StopSteps
  <2>2. VarsInv'
    BY <1>30 DEF Round, Move, VarsInv
  <2>3. LockInv'
    BY <1>30 DEF Round, Move, LockInv, StackInv
  <2>4. MainInv'
    BY <1>30 DEF Round, Move, MainInv, VarsInv, Settled, StackInv
  <2>5. JoinedBeforeFreed'
    BY <1>30 DEF Round, Move, JoinedBeforeFreed, MainInv, VarsInv, Settled
  <2>6. ServerInv'
    BY <1>30 DEF Round, Move, ServerInv, VarsInv, Settled, StackInv
  <2>7. DescriptorsAccounted'
    BY <1>30 DEF Round, Move, DescriptorsAccounted, ServerInv, VarsInv, Settled
  <2> QED
    BY <2>1, <2>2, <2>3, <2>4, <2>5, <2>6, <2>7 DEF LifeInv
<1>31. ASSUME NEW d \in DOMAIN Uses, DetachedEnds(d)
      PROVE  LifeInv'
  <2>1. StackInv'
    BY <1>31 DEF DetachedEnds, StackInv, StopSteps
  <2>2. VarsInv'
    BY <1>31 DEF DetachedEnds, VarsInv
  <2>3. LockInv'
    BY <1>31 DEF DetachedEnds, LockInv, StackInv
  <2>4. MainInv'
    BY <1>31 DEF DetachedEnds, MainInv, VarsInv, Settled, StackInv
  <2>5. JoinedBeforeFreed'
    BY <1>31 DEF DetachedEnds, JoinedBeforeFreed, MainInv, VarsInv, Settled
  <2>6. ServerInv'
    BY <1>31 DEF DetachedEnds, ServerInv, VarsInv, Settled, StackInv
  <2>7. DescriptorsAccounted'
    BY <1>31 DEF DetachedEnds, DescriptorsAccounted, ServerInv, VarsInv, Settled
  <2> QED
    BY <2>1, <2>2, <2>3, <2>4, <2>5, <2>6, <2>7 DEF LifeInv
<1>32. ASSUME NEW d \in DOMAIN Uses, DetachedCrashes(d)
      PROVE  LifeInv'
  <2>1. StackInv'
    BY <1>32 DEF DetachedCrashes, StackInv, StopSteps
  <2>2. VarsInv'
    BY <1>32 DEF DetachedCrashes, VarsInv
  <2>3. LockInv'
    BY <1>32 DEF DetachedCrashes, LockInv, StackInv
  <2>4. MainInv'
    BY <1>32 DEF DetachedCrashes, MainInv, VarsInv, Settled, StackInv
  <2>5. JoinedBeforeFreed'
    BY <1>32 DEF DetachedCrashes, JoinedBeforeFreed, MainInv, VarsInv, Settled
  <2>6. ServerInv'
    BY <1>32 DEF DetachedCrashes, ServerInv, VarsInv, Settled, StackInv
  <2>7. DescriptorsAccounted'
    BY <1>32 DEF DetachedCrashes, DescriptorsAccounted, ServerInv, VarsInv,
       Settled
  <2> QED
    BY <2>1, <2>2, <2>3, <2>4, <2>5, <2>6, <2>7 DEF LifeInv
<1>33. CASE UNCHANGED vars
  <2>1. StackInv'
    BY <1>33 DEF vars, StackInv, StopSteps
  <2>2. VarsInv'
    BY <1>33 DEF vars, VarsInv
  <2>3. LockInv'
    BY <1>33 DEF vars, LockInv, StackInv
  <2>4. MainInv'
    BY <1>33 DEF vars, MainInv, VarsInv, Settled, StackInv
  <2>5. JoinedBeforeFreed'
    BY <1>33 DEF vars, JoinedBeforeFreed, MainInv, VarsInv, Settled
  <2>6. ServerInv'
    BY <1>33 DEF vars, ServerInv, VarsInv, Settled, StackInv
  <2>7. DescriptorsAccounted'
    BY <1>33 DEF vars, DescriptorsAccounted, ServerInv, VarsInv, Settled
  <2> QED
    BY <2>1, <2>2, <2>3, <2>4, <2>5, <2>6, <2>7 DEF LifeInv
<1> QED
  BY <1>1, <1>2, <1>3, <1>4, <1>5, <1>6, <1>7, <1>8, <1>9, <1>10, <1>11,
     <1>12, <1>13, <1>14, <1>15, <1>16, <1>17, <1>18, <1>19, <1>20, <1>21,
     <1>22, <1>23, <1>24, <1>25, <1>26, <1>27, <1>28, <1>29, <1>30, <1>31,
     <1>32, <1>33 DEF Next, Start, User, End, EventThread, Heartbeat,
     Managers, Runnable

\* Every variable keeps its type in every behaviour, a mutex is held exactly
\* while a command or a stop() needs it, and main() is below every handler.
THEOREM TypeCorrect == Spec => []TypeOK
<1>1. Init => LifeInv
  BY LifeInit
<1>2. LifeInv /\ [Next]_vars => LifeInv'
  BY LifeStep
<1>3. LifeInv => TypeOK
  <2> SUFFICES ASSUME StackInv, VarsInv, LockInv
               PROVE  TypeOK
    BY DEF LifeInv
  <2>1. DOMAIN stack = 1 .. Len(stack)
    BY LenProperties DEF StackInv
  <2>2. \A i \in 1 .. Len(stack) : stack[i].by \in Signals \cup {"main"}
    <3> TAKE i \in 1 .. Len(stack)
    <3>1. stack[i] \in Frames
      BY ElementOfSeq DEF StackInv
    <3> QED
      BY <3>1 DEF Frames
  <2>3. \A i \in 1 .. Len(stack) : stack[i].by = "main" <=> i = 1
    BY DEF StackInv
  <2>4. holds = {} <=>
          \A i \in 1 .. Len(stack) : stack[i].at[1] \notin {"command", "closing"}
    <3>1. ASSUME NEW i \in 1 .. Len(stack), stack[i].at[1] = "command"
          PROVE  holds # {}
      BY <3>1 DEF LockInv, StackInv, StopSteps
    <3>2. ASSUME NEW i \in 1 .. Len(stack), stack[i].at[1] = "closing"
          PROVE  holds # {}
      BY <3>2 DEF LockInv
    <3> QED
      BY <3>1, <3>2 DEF LockInv
  <2>5. holds \subseteq {"connections", "peers"}
    BY DEF LockInv
  <2> QED
    BY <2>1, <2>2, <2>3, <2>4, <2>5 DEF TypeOK, VarsInv
<1> QED
  BY <1>1, <1>2, <1>3, PTL DEF Spec

\* However a node ends, by a command, the end of the input, signals in any
\* number or a start that failed half way: no object is destroyed under the
\* thread that works on it.
THEOREM JoinedCorrect == Spec => []JoinedBeforeFreed
<1>1. Init => LifeInv
  BY LifeInit
<1>2. LifeInv /\ [Next]_vars => LifeInv'
  BY LifeStep
<1>3. LifeInv => JoinedBeforeFreed
  BY DEF LifeInv
<1> QED
  BY <1>1, <1>2, <1>3, PTL DEF Spec

\* No descriptor of a connection is ever lost, and none is open when stop() has
\* closed the listening socket, whichever frame of the main thread did that.
THEOREM DescriptorsCorrect == Spec => []DescriptorsAccounted
<1>1. Init => LifeInv
  BY LifeInit
<1>2. LifeInv /\ [Next]_vars => LifeInv'
  BY LifeStep
<1>3. LifeInv => DescriptorsAccounted
  BY DEF LifeInv
<1> QED
  BY <1>1, <1>2, <1>3, PTL DEF Spec
=============================================================================
