-------------------------- MODULE ThreadPoolProofs --------------------------
(***************************************************************************)
(* Proofs about ThreadPool, for every set of workers, callers and tasks.   *)
(***************************************************************************)
EXTENDS ThreadPool, SequenceTheorems, TLAPS

-----------------------------------------------------------------------------
(* The queue moves tasks from one history to the other. *)

\* A task that leaves the queue's head for the end of s keeps its place.
LEMMA TakeHead ==
    ASSUME NEW s \in Seq(Tasks), NEW q \in Seq(Tasks), q # <<>>
    PROVE  Append(s, Head(q)) \o Tail(q) = s \o q
<1>1. Head(q) \in Tasks /\ Tail(q) \in Seq(Tasks)
  BY HeadTailProperties
<1>2. Append(s, Head(q)) \in Seq(Tasks) /\ s \o q \in Seq(Tasks)
  BY <1>1, AppendProperties, ConcatProperties
<1>3. Append(s, Head(q)) \o Tail(q) \in Seq(Tasks)
  BY <1>1, <1>2, ConcatProperties
<1> DEFINE u == Append(s, Head(q)) \o Tail(q)
<1>4. /\ Len(Append(s, Head(q))) = Len(s) + 1
      /\ Len(Tail(q)) = Len(q) - 1
      /\ Len(s) \in Nat /\ Len(q) \in Nat \ {0}
  BY <1>1, AppendProperties, HeadTailProperties, LenProperties, EmptySeq
<1>5. Len(u) = Len(s \o q)
  BY <1>1, <1>2, <1>4, ConcatProperties
<1>6. ASSUME NEW i \in 1 .. Len(u)
      PROVE  u[i] = (s \o q)[i]
  <2>1. u[i] = IF i <= Len(s) + 1 THEN Append(s, Head(q))[i]
               ELSE Tail(q)[i - (Len(s) + 1)]
    BY <1>1, <1>2, <1>4, ConcatProperties
  <2>2. (s \o q)[i] = IF i <= Len(s) THEN s[i] ELSE q[i - Len(s)]
    BY <1>5, <1>2, ConcatProperties
  <2>3. CASE i <= Len(s)
    BY <2>1, <2>2, <2>3, <1>1, <1>4, AppendProperties
  <2>4. CASE i = Len(s) + 1
    BY <2>1, <2>2, <2>4, <1>1, <1>4, AppendProperties
  <2>5. CASE i > Len(s) + 1
    <3>1. i - (Len(s) + 1) \in 1 .. Len(Tail(q))
      BY <2>5, <1>4, <1>5, ConcatProperties
    <3> QED
      BY <2>1, <2>2, <2>5, <3>1, <1>4, HeadTailProperties
  <2>6. i \in Int /\ Len(s) \in Int
    BY <1>4, <1>3, LenProperties
  <2> QED
    BY <2>3, <2>4, <2>5, <2>6
<1> HIDE DEF u
<1>7. u = s \o q
  BY <1>2, <1>3, <1>5, <1>6, SeqEqual DEF u
<1> QED
  BY <1>7 DEF u

\* A task that joins the queue is last in the whole.
LEMMA JoinLast ==
    ASSUME NEW s \in Seq(Tasks), NEW q \in Seq(Tasks), NEW t \in Tasks
    PROVE  Append(s \o q, t) = s \o Append(q, t)
<1>1. s \o q \in Seq(Tasks) /\ <<t>> \in Seq(Tasks)
  BY ConcatProperties
<1>2. Append(s \o q, t) = (s \o q) \o <<t>>
  BY <1>1, AppendIsConcat
<1>3. Append(q, t) = q \o <<t>>
  BY AppendIsConcat
<1> QED
  BY <1>1, <1>2, <1>3, ConcatAssociative

\* One more element.
LEMMA ElementsAppend ==
    ASSUME NEW s \in Seq(Tasks), NEW t \in Tasks
    PROVE  Elements(Append(s, t)) = Elements(s) \cup {t}
<1>1. /\ Len(Append(s, t)) = Len(s) + 1
      /\ \A i \in 1 .. Len(s) : Append(s, t)[i] = s[i]
      /\ Append(s, t)[Len(s) + 1] = t
      /\ Len(s) \in Nat
  BY AppendProperties, LenProperties
<1>2. 1 .. Len(Append(s, t)) = (1 .. Len(s)) \cup {Len(s) + 1}
  BY <1>1
<1> QED
  BY <1>1, <1>2 DEF Elements

-----------------------------------------------------------------------------
(* Types *)

LEMMA TypeInit == Init => TypeOK
BY EmptySeq DEF Init, TypeOK

LEMMA TypeStep == TypeOK /\ [Next]_vars => TypeOK'
<1> SUFFICES ASSUME TypeOK, [Next]_vars
             PROVE  TypeOK'
  OBVIOUS
<1> USE DEF TypeOK
<1>1. ASSUME NEW c \in Callers, NEW t \in Tasks, Enqueue(c, t)
      PROVE  TypeOK'
  <2>1. tasks' \in Seq(Tasks) /\ accepted' \in Seq(Tasks)
    BY <1>1, AppendProperties DEF Enqueue
  <2> QED
    BY <1>1, <2>1 DEF Enqueue
<1>2. ASSUME NEW c \in Callers, NEW t \in Tasks, EnqueueThrows(c, t)
      PROVE  TypeOK'
  BY <1>2 DEF EnqueueThrows
<1>3. ASSUME NEW c \in Callers, NotifyOne(c)
      PROVE  TypeOK'
  BY <1>3 DEF NotifyOne
<1>4. ASSUME NEW w \in Workers, Wait(w)
      PROVE  TypeOK'
  BY <1>4 DEF Wait
<1>5. ASSUME NEW w \in Workers, Take(w)
      PROVE  TypeOK'
  <2>1. Head(tasks) \in Tasks /\ Tail(tasks) \in Seq(Tasks)
    BY <1>5, HeadTailProperties DEF Take
  <2>2. tasks' \in Seq(Tasks) /\ started' \in Seq(Tasks)
    BY <1>5, <2>1, AppendProperties DEF Take
  <2>3. \A v \in Workers : worker'[v] = "run" <=> task'[v] # NoTask
    BY <1>5, <2>1, ThreadPoolAssumption DEF Take
  <2> QED
    BY <1>5, <2>1, <2>2, <2>3 DEF Take
<1>6. ASSUME NEW w \in Workers, Finish(w)
      PROVE  TypeOK'
  BY <1>6 DEF Finish
<1>7. ASSUME NEW w \in Workers, ExitWorker(w)
      PROVE  TypeOK'
  BY <1>7 DEF ExitWorker
<1>8. ASSUME NEW w \in Workers, SpuriousWakeup(w)
      PROVE  TypeOK'
  BY <1>8 DEF SpuriousWakeup
<1>9. CASE ShutdownStop
  BY <1>9 DEF ShutdownStop
<1>10. CASE ShutdownNotify
  BY <1>10 DEF ShutdownNotify
<1>11. CASE ShutdownJoined
  BY <1>11 DEF ShutdownJoined
<1>12. CASE UNCHANGED vars
  BY <1>12 DEF vars
<1> QED
  BY <1>1, <1>2, <1>3, <1>4, <1>5, <1>6, <1>7, <1>8, <1>9, <1>10, <1>11, <1>12
  DEF Next, Worker, Shutdown

\* The variables of the pool keep their types, and a worker holds a task
\* exactly while it runs one.
THEOREM TypeCorrect == Spec => []TypeOK
<1> QED
  BY TypeInit, TypeStep, PTL DEF Spec

-----------------------------------------------------------------------------
(* The order of the tasks *)

LEMMA OrderStep == TypeOK /\ StartedInOrder /\ [Next]_vars => StartedInOrder'
<1> SUFFICES ASSUME TypeOK, StartedInOrder, [Next]_vars
             PROVE  StartedInOrder'
  OBVIOUS
<1> USE DEF StartedInOrder
<1>1. ASSUME NEW c \in Callers, NEW t \in Tasks, Enqueue(c, t)
      PROVE  StartedInOrder'
  BY <1>1, JoinLast DEF Enqueue, TypeOK
<1>2. ASSUME NEW w \in Workers, Take(w)
      PROVE  StartedInOrder'
  BY <1>2, TakeHead DEF Take, TypeOK
<1>3. CASE UNCHANGED <<accepted, started, tasks>>
  BY <1>3
<1> QED
  BY <1>1, <1>2, <1>3
  DEF Next, Worker, Shutdown, vars, EnqueueThrows, NotifyOne, Wait, Finish,
      ExitWorker, SpuriousWakeup, ShutdownStop, ShutdownNotify, ShutdownJoined

\* Workers take the tasks in the order in which they were accepted, each once.
THEOREM OrderCorrect == Spec => []StartedInOrder
<1>1. Init => StartedInOrder
  BY ConcatEmptySeq, EmptySeq DEF Init, StartedInOrder
<1> QED
  BY <1>1, OrderStep, TypeCorrect, PTL DEF Spec

-----------------------------------------------------------------------------
(* Shutdown and wakeups *)

Running == {w \in Workers : worker[w] = "run"}

\* The flag is set by shutdown() and stays set.
StopInv == stop <=> stopper # "none"

\* A worker has left only a stopped pool with an empty queue.
ExitInv == \A w \in Workers : worker[w] = "exited" => stop /\ tasks = <<>>

\* A task that was taken is running or has ended.
TakenInv == Elements(started) = finished \cup {task[w] : w \in Running}

\* shutdown() has joined every worker when it returns.
JoinInv == stopper = "returned" => \A w \in Workers : worker[w] = "exited"

PoolInv ==
    TypeOK /\ StartedInOrder /\ StopInv /\ ExitInv /\ TakenInv /\ JoinInv
           /\ NoLostWakeup

LEMMA PoolInit == Init => PoolInv
<1> SUFFICES ASSUME Init
             PROVE  PoolInv
  OBVIOUS
<1>1. TypeOK
  BY TypeInit
<1>2. StartedInOrder
  BY ConcatEmptySeq, EmptySeq DEF Init, StartedInOrder
<1>3. TakenInv
  BY EmptySeq DEF Init, TakenInv, Elements, Running
<1>4. StopInv /\ ExitInv /\ JoinInv /\ NoLostWakeup
  BY DEF Init, StopInv, ExitInv, JoinInv, NoLostWakeup
<1> QED
  BY <1>1, <1>2, <1>3, <1>4 DEF PoolInv

LEMMA TakenStep == PoolInv /\ [Next]_vars => TakenInv'
<1> SUFFICES ASSUME PoolInv, [Next]_vars
             PROVE  TakenInv'
  OBVIOUS
<1> USE DEF PoolInv, TypeOK, Running
<1>1. ASSUME NEW w \in Workers, Take(w)
      PROVE  TakenInv'
  <2>1. Head(tasks) \in Tasks
    BY <1>1, HeadTailProperties DEF Take
  <2>2. Elements(started') = Elements(started) \cup {Head(tasks)}
    BY <1>1, <2>1, ElementsAppend DEF Take
  <2>3. w \notin Running /\ Running' = Running \cup {w}
    BY <1>1 DEF Take
  <2>4. {task'[v] : v \in Running'} = {task[v] : v \in Running} \cup {Head(tasks)}
    <3>1. task'[w] = Head(tasks)
      BY <1>1 DEF Take
    <3>2. \A v \in Running : task'[v] = task[v]
      BY <1>1, <2>3 DEF Take
    <3> QED
      BY <2>3, <3>1, <3>2
  <2>5. finished' = finished
    BY <1>1 DEF Take
  <2> QED
    BY <2>2, <2>4, <2>5 DEF TakenInv
<1>2. ASSUME NEW w \in Workers, Finish(w)
      PROVE  TakenInv'
  <2>1. w \in Running /\ Running' = Running \ {w}
    BY <1>2 DEF Finish
  <2>2. \A v \in Running' : task'[v] = task[v]
    BY <1>2, <2>1 DEF Finish
  <2>3. finished' = finished \cup {task[w]} /\ started' = started
    BY <1>2 DEF Finish
  <2>4. finished' \cup {task'[v] : v \in Running'}
          = finished \cup {task[v] : v \in Running}
    BY <2>1, <2>2, <2>3
  <2> QED
    BY <2>3, <2>4 DEF TakenInv
<1>3. ASSUME Running' = Running, UNCHANGED <<started, finished, task>>
      PROVE  TakenInv'
  BY <1>3 DEF TakenInv
<1>4. ASSUME NEW c \in Callers, NEW t \in Tasks,
             Enqueue(c, t) \/ EnqueueThrows(c, t)
      PROVE  TakenInv'
  BY <1>4, <1>3 DEF Enqueue, EnqueueThrows
<1>5. ASSUME NEW c \in Callers, NotifyOne(c)
      PROVE  TakenInv'
  <2>1. \A v \in Workers : worker'[v] = "run" <=> worker[v] = "run"
    BY <1>5 DEF NotifyOne
  <2> QED
    BY <1>5, <2>1, <1>3 DEF NotifyOne
<1>6. ASSUME NEW w \in Workers, Wait(w) \/ ExitWorker(w) \/ SpuriousWakeup(w)
      PROVE  TakenInv'
  <2>1. \A v \in Workers : worker'[v] = "run" <=> worker[v] = "run"
    BY <1>6 DEF Wait, ExitWorker, SpuriousWakeup
  <2> QED
    BY <1>6, <2>1, <1>3 DEF Wait, ExitWorker, SpuriousWakeup
<1>7. CASE Shutdown
  <2>1. \A v \in Workers : worker'[v] = "run" <=> worker[v] = "run"
    BY <1>7 DEF Shutdown, ShutdownStop, ShutdownNotify, ShutdownJoined
  <2> QED
    BY <1>7, <2>1, <1>3 DEF Shutdown, ShutdownStop, ShutdownNotify, ShutdownJoined
<1>8. CASE UNCHANGED vars
  BY <1>8, <1>3 DEF vars
<1> QED
  BY <1>1, <1>2, <1>4, <1>5, <1>6, <1>7, <1>8 DEF Next, Worker

LEMMA ShutdownStep ==
    PoolInv /\ [Next]_vars => StopInv' /\ ExitInv' /\ JoinInv' /\ NoLostWakeup'
<1> SUFFICES ASSUME PoolInv, [Next]_vars
             PROVE  StopInv' /\ ExitInv' /\ JoinInv' /\ NoLostWakeup'
  OBVIOUS
<1> USE DEF PoolInv, TypeOK, StopInv, ExitInv, JoinInv, NoLostWakeup
<1>1. ASSUME NEW c \in Callers, NEW t \in Tasks, Enqueue(c, t)
      PROVE  StopInv' /\ ExitInv' /\ JoinInv' /\ NoLostWakeup'
  BY <1>1 DEF Enqueue
<1>2. ASSUME NEW c \in Callers, NEW t \in Tasks, EnqueueThrows(c, t)
      PROVE  StopInv' /\ ExitInv' /\ JoinInv' /\ NoLostWakeup'
  BY <1>2 DEF EnqueueThrows
<1>3. ASSUME NEW c \in Callers, NotifyOne(c)
      PROVE  StopInv' /\ ExitInv' /\ JoinInv' /\ NoLostWakeup'
  <2>1. StopInv' /\ ExitInv' /\ JoinInv'
    BY <1>3 DEF NotifyOne
  <2>2. CASE \E w \in Workers : worker[w] = "wait"
    BY <1>3, <2>2 DEF NotifyOne
  <2>3. CASE \A w \in Workers : worker[w] # "wait"
    \* Nobody waits: all sleeping workers have left, and the queue is empty.
    <3>1. worker' = worker /\ tasks' = tasks
      BY <1>3, <2>3 DEF NotifyOne
    <3>2. (\A w \in Workers : worker[w] = "exited") => tasks = <<>>
      BY ThreadPoolAssumption
    <3> QED
      BY <2>1, <2>3, <3>1, <3>2
  <2> QED
    BY <2>1, <2>2, <2>3
<1>4. ASSUME NEW w \in Workers, Wait(w)
      PROVE  StopInv' /\ ExitInv' /\ JoinInv' /\ NoLostWakeup'
  BY <1>4 DEF Wait
<1>5. ASSUME NEW w \in Workers, Take(w)
      PROVE  StopInv' /\ ExitInv' /\ JoinInv' /\ NoLostWakeup'
  BY <1>5 DEF Take
<1>6. ASSUME NEW w \in Workers, Finish(w)
      PROVE  StopInv' /\ ExitInv' /\ JoinInv' /\ NoLostWakeup'
  BY <1>6 DEF Finish
<1>7. ASSUME NEW w \in Workers, ExitWorker(w)
      PROVE  StopInv' /\ ExitInv' /\ JoinInv' /\ NoLostWakeup'
  BY <1>7 DEF ExitWorker
<1>8. ASSUME NEW w \in Workers, SpuriousWakeup(w)
      PROVE  StopInv' /\ ExitInv' /\ JoinInv' /\ NoLostWakeup'
  BY <1>8 DEF SpuriousWakeup
<1>9. CASE ShutdownStop
  BY <1>9 DEF ShutdownStop
<1>10. CASE ShutdownNotify
  BY <1>10, ThreadPoolAssumption DEF ShutdownNotify
<1>11. CASE ShutdownJoined
  BY <1>11 DEF ShutdownJoined
<1>12. CASE UNCHANGED vars
  BY <1>12 DEF vars
<1> QED
  BY <1>1, <1>2, <1>3, <1>4, <1>5, <1>6, <1>7, <1>8, <1>9, <1>10, <1>11, <1>12
  DEF Next, Worker, Shutdown

LEMMA PoolCorrect == Spec => []PoolInv
<1>1. PoolInv /\ [Next]_vars => PoolInv'
  BY TypeStep, OrderStep, TakenStep, ShutdownStep DEF PoolInv
<1> QED
  BY <1>1, PoolInit, PTL DEF Spec

\* While a task waits and every worker sleeps, a notification is on its way.
THEOREM WakeupCorrect == Spec => []NoLostWakeup
<1>1. PoolInv => NoLostWakeup
  BY DEF PoolInv
<1> QED
  BY <1>1, PoolCorrect, PTL

\* When shutdown() has returned, exactly the accepted tasks have run to their
\* end: the workers have left, so that the queue is empty and nothing runs.
THEOREM DrainCorrect == Spec => []ShutdownDrains
<1>1. PoolInv => ShutdownDrains
  <2> SUFFICES ASSUME PoolInv, stopper = "returned"
               PROVE  finished = Elements(accepted)
    BY DEF ShutdownDrains
  <2>1. \A w \in Workers : worker[w] = "exited"
    BY DEF PoolInv, JoinInv
  <2>2. tasks = <<>>
    BY <2>1, ThreadPoolAssumption DEF PoolInv, ExitInv
  <2>3. accepted = started
    BY <2>2, ConcatEmptySeq DEF PoolInv, StartedInOrder, TypeOK
  <2>4. Running = {}
    BY <2>1 DEF Running
  <2> QED
    BY <2>3, <2>4 DEF PoolInv, TakenInv
<1> QED
  BY <1>1, PoolCorrect, PTL
=============================================================================
