----------------------------- MODULE ThreadPool -----------------------------
(***************************************************************************)
(* ThreadPool: workers that sleep on a condition variable, callers that    *)
(* enqueue tasks, and one thread that shuts the pool down while tasks are  *)
(* queued, running or still being enqueued.                                *)
(*                                                                         *)
(* A critical section on queue_mutex is one step.  The notifications are   *)
(* steps of their own: the code sends them after it has released the lock. *)
(***************************************************************************)
EXTENDS Naturals, Sequences

CONSTANTS Workers,    \* the worker threads
          Callers,    \* the threads that enqueue
          Tasks,      \* the tasks they enqueue, each once
          NoTask

\* hardware_concurrency(), the default size, may be 0: then nothing runs.
ASSUME ThreadPoolAssumption == Workers # {} /\ NoTask \notin Tasks

VARIABLES
    tasks,     \* the queue
    stop,      \* the flag
    worker,    \* [Workers -> {"lock", "wait", "run", "exited"}]
    task,      \* [Workers -> the task it runs]
    caller,    \* [Callers -> {"idle", "notify"}]
    stopper,   \* the thread in shutdown(): "none", "notify", "join", "returned"
    accepted,  \* history: tasks in the order they were accepted
    started,   \* history: tasks in the order the workers took them
    refused,   \* history: tasks whose enqueue threw
    finished   \* history: tasks that have ended

vars == <<tasks, stop, worker, task, caller, stopper, accepted, started,
          refused, finished>>

Elements(s) == {s[i] : i \in 1 .. Len(s)}

Init ==
    /\ tasks = <<>>
    /\ stop = FALSE
    /\ worker = [w \in Workers |-> "lock"]
    /\ task = [w \in Workers |-> NoTask]
    /\ caller = [c \in Callers |-> "idle"]
    /\ stopper = "none"
    /\ accepted = <<>>
    /\ started = <<>>
    /\ refused = {}
    /\ finished = {}

-----------------------------------------------------------------------------
(* Callers *)

\* Mutant: nobody is notified.
EnqueueSilently(c, t) ==
    /\ caller[c] = "idle"
    /\ t \notin Elements(accepted) \cup refused
    /\ ~stop
    /\ tasks' = Append(tasks, t)
    /\ accepted' = Append(accepted, t)
    /\ UNCHANGED <<stop, worker, task, caller, stopper, started, refused, finished>>

Enqueue(c, t) ==
    /\ caller[c] = "idle"
    /\ t \notin Elements(accepted) \cup refused
    /\ ~stop
    /\ tasks' = Append(tasks, t)
    /\ accepted' = Append(accepted, t)
    /\ caller' = [caller EXCEPT ![c] = "notify"]
    /\ UNCHANGED <<stop, worker, task, stopper, started, refused, finished>>

\* "enqueue on stopped ThreadPool" is thrown to the caller.
EnqueueThrows(c, t) ==
    /\ caller[c] = "idle"
    /\ t \notin Elements(accepted) \cup refused
    /\ stop
    /\ refused' = refused \cup {t}
    /\ UNCHANGED <<tasks, stop, worker, task, caller, stopper, accepted, started,
                   finished>>

\* notify_one wakes one waiting worker, or nobody.
NotifyOne(c) ==
    /\ caller[c] = "notify"
    /\ caller' = [caller EXCEPT ![c] = "idle"]
    /\ \/ /\ \A w \in Workers : worker[w] # "wait"
          /\ UNCHANGED worker
       \/ \E w \in Workers :
            /\ worker[w] = "wait"
            /\ worker' = [worker EXCEPT ![w] = "lock"]
    /\ UNCHANGED <<tasks, stop, task, stopper, accepted, started, refused, finished>>

-----------------------------------------------------------------------------
(* Workers *)

\* The predicate of condition.wait is false: the worker releases and sleeps.
Wait(w) ==
    /\ worker[w] = "lock"
    /\ ~stop /\ tasks = <<>>
    /\ worker' = [worker EXCEPT ![w] = "wait"]
    /\ UNCHANGED <<tasks, stop, task, caller, stopper, accepted, started, refused,
                   finished>>

SpuriousWakeup(w) ==
    /\ worker[w] = "wait"
    /\ worker' = [worker EXCEPT ![w] = "lock"]
    /\ UNCHANGED <<tasks, stop, task, caller, stopper, accepted, started, refused,
                   finished>>

\* Mutant: front() without pop().
TakeUnpopped(w) ==
    /\ worker[w] = "lock"
    /\ tasks # <<>>
    /\ worker' = [worker EXCEPT ![w] = "run"]
    /\ task' = [task EXCEPT ![w] = Head(tasks)]
    /\ started' = Append(started, Head(tasks))
    /\ UNCHANGED <<tasks, stop, caller, stopper, accepted, refused, finished>>

Take(w) ==
    /\ worker[w] = "lock"
    /\ tasks # <<>>
    /\ worker' = [worker EXCEPT ![w] = "run"]
    /\ task' = [task EXCEPT ![w] = Head(tasks)]
    /\ tasks' = Tail(tasks)
    /\ started' = Append(started, Head(tasks))
    /\ UNCHANGED <<stop, caller, stopper, accepted, refused, finished>>

\* Mutant: the worker keeps the task it has run.
FinishKept(w) ==
    /\ worker[w] = "run"
    /\ worker' = [worker EXCEPT ![w] = "lock"]
    /\ finished' = finished \cup {task[w]}
    /\ UNCHANGED <<tasks, stop, task, caller, stopper, accepted, started, refused>>

\* The task returns or throws; an exception ends in the future or the log.
Finish(w) ==
    /\ worker[w] = "run"
    /\ worker' = [worker EXCEPT ![w] = "lock"]
    /\ finished' = finished \cup {task[w]}
    /\ task' = [task EXCEPT ![w] = NoTask]
    /\ UNCHANGED <<tasks, stop, caller, stopper, accepted, started, refused>>

\* Mutant: a stopped worker leaves the queue as it is.
ExitWorkerAtOnce(w) ==
    /\ worker[w] = "lock"
    /\ stop
    /\ worker' = [worker EXCEPT ![w] = "exited"]
    /\ UNCHANGED <<tasks, stop, task, caller, stopper, accepted, started, refused,
                   finished>>

ExitWorker(w) ==
    /\ worker[w] = "lock"
    /\ stop /\ tasks = <<>>
    /\ worker' = [worker EXCEPT ![w] = "exited"]
    /\ UNCHANGED <<tasks, stop, task, caller, stopper, accepted, started, refused,
                   finished>>

-----------------------------------------------------------------------------
(* Shutdown *)

ShutdownStop ==
    /\ stopper = "none"
    /\ stop' = TRUE
    /\ stopper' = "notify"
    /\ UNCHANGED <<tasks, worker, task, caller, accepted, started, refused, finished>>

\* Mutant: notify_one.
ShutdownNotifyOne ==
    /\ stopper = "notify"
    /\ stopper' = "join"
    /\ \E v \in Workers :
         worker' = [worker EXCEPT ![v] = IF @ = "wait" THEN "lock" ELSE @]
    /\ UNCHANGED <<tasks, stop, task, caller, accepted, started, refused, finished>>

ShutdownNotify ==
    /\ stopper = "notify"
    /\ stopper' = "join"
    /\ worker' = [w \in Workers |-> IF worker[w] = "wait" THEN "lock" ELSE worker[w]]
    /\ UNCHANGED <<tasks, stop, task, caller, accepted, started, refused, finished>>

\* The last join() returns.
ShutdownJoined ==
    /\ stopper = "join"
    /\ \A w \in Workers : worker[w] = "exited"
    /\ stopper' = "returned"
    /\ UNCHANGED <<tasks, stop, worker, task, caller, accepted, started, refused,
                   finished>>

-----------------------------------------------------------------------------

Worker(w) == Wait(w) \/ Take(w) \/ Finish(w) \/ ExitWorker(w)

Shutdown == ShutdownStop \/ ShutdownNotify \/ ShutdownJoined

Next ==
    \/ \E c \in Callers, t \in Tasks : Enqueue(c, t) \/ EnqueueThrows(c, t)
    \/ \E c \in Callers : NotifyOne(c)
    \/ \E w \in Workers : Worker(w) \/ SpuriousWakeup(w)
    \/ Shutdown

\* Threads that can run do, and tasks end.  Nobody has to enqueue or to shut
\* the pool down, and nothing relies on spurious wakeups.
Fairness ==
    /\ \A w \in Workers : WF_vars(Worker(w))
    /\ \A c \in Callers : WF_vars(NotifyOne(c))
    /\ WF_vars(ShutdownNotify) /\ WF_vars(ShutdownJoined)

Spec == Init /\ [][Next]_vars
FairSpec == Spec /\ Fairness

-----------------------------------------------------------------------------
(* Properties *)

TypeOK ==
    /\ tasks \in Seq(Tasks)
    /\ stop \in BOOLEAN
    /\ worker \in [Workers -> {"lock", "wait", "run", "exited"}]
    /\ task \in [Workers -> Tasks \cup {NoTask}]
    /\ \A w \in Workers : worker[w] = "run" <=> task[w] # NoTask
    /\ caller \in [Callers -> {"idle", "notify"}]
    /\ stopper \in {"none", "notify", "join", "returned"}
    /\ accepted \in Seq(Tasks)
    /\ started \in Seq(Tasks)
    /\ refused \subseteq Tasks
    /\ finished \subseteq Tasks

\* When shutdown() has returned, every task that enqueue accepted, even one
\* that raced with the shutdown, has run to its end, and nobody will touch
\* the queue again.
ShutdownDrains ==
    stopper = "returned" => finished = Elements(accepted)

\* While a task waits and every worker sleeps, a notification is on its way.
NoLostWakeup ==
    tasks # <<>> /\ (\A w \in Workers : worker[w] \in {"wait", "exited"}) =>
        \/ \E c \in Callers : caller[c] = "notify"
        \/ stopper = "notify"

\* Tasks start in the order in which they were accepted, and none twice.
StartedInOrder == accepted = started \o tasks

\* Every accepted task ends, whether or not the pool is shut down.
AcceptedRuns == \A t \in Tasks : t \in Elements(accepted) ~> t \in finished

\* shutdown() returns.
ShutdownEnds == stopper = "notify" ~> stopper = "returned"
=============================================================================
