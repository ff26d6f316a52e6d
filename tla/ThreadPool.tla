----------------------------- MODULE ThreadPool -----------------------------
(***************************************************************************)
(* ThreadPool (include/ThreadPool.h, src/ThreadPool.cpp): a fixed set of   *)
(* workers, one mutex-guarded FIFO queue with a cap, and one condition     *)
(* variable.                                                               *)
(*                                                                         *)
(* A step is one critical section of mutex_, or one act outside it: a      *)
(* notification, the body of a task, the return of join.  The submitter    *)
(* notifies after it has released the mutex, so between the push and the   *)
(* notification every other thread may move.                               *)
(***************************************************************************)
EXTENDS Naturals, Sequences, FiniteSets, Functions

CONSTANTS
    Workers,      \* the threads the constructor starts
    Submitters,   \* threads that call trySubmit
    Tasks,        \* the closures handed to trySubmit, each at most once
    NoTask,       \* the empty std::function a worker holds between tasks
    MaxQueued     \* maxQueuedTasks_; kUnboundedQueue is 0

ASSUME WorkersAssumption == Workers # {} /\ IsFiniteSet(Workers)
ASSUME SubmittersAssumption == IsFiniteSet(Submitters)
ASSUME TasksAssumption == NoTask \notin Tasks
ASSUME MaxQueuedAssumption == MaxQueued \in Nat

VARIABLES
    tasks,        \* tasks_
    stopping,     \* stopping_
    worker,       \* where each worker is in workerLoop
    job,          \* the task a running worker has popped
    submitter,    \* "idle", or "notify": pushed, has yet to call notify_one
    closer,       \* where the thread that calls shutdown is
    exceptions,   \* taskExceptions_
    accepted,     \* history: tasks trySubmit returned true for, in order
    started,      \* history: tasks popped, in order
    finished      \* history: tasks whose body has returned or thrown

vars == <<tasks, stopping, worker, job, submitter, closer, exceptions,
          accepted, started, finished>>

Asleep == {w \in Workers : worker[w] = "asleep"}
Ready == {w \in Workers : worker[w] = "ready"}
Running == {w \in Workers : worker[w] = "running"}
Notifying == {s \in Submitters : submitter[s] = "notify"}

\* The refusal of trySubmit when the queue is at its cap.
Full == MaxQueued # 0 /\ Len(tasks) >= MaxQueued

-----------------------------------------------------------------------------
\* A pool asked for no threads gets one: Workers is not empty.
Init ==
    /\ tasks = <<>>
    /\ stopping = FALSE
    /\ worker = [w \in Workers |-> "ready"]
    /\ job = [w \in Workers |-> NoTask]
    /\ submitter = [s \in Submitters |-> "idle"]
    /\ closer = "open"
    /\ exceptions = 0
    /\ accepted = <<>>
    /\ started = <<>>
    /\ finished = {}

\* Mutant of TrySubmit: notify only when the queue was empty before the push.
TrySubmitNotifyFirst(s, t) ==
    /\ submitter[s] = "idle" /\ t \notin Range(accepted) /\ ~stopping /\ ~Full
    /\ tasks' = Append(tasks, t)
    /\ accepted' = Append(accepted, t)
    /\ submitter' = [submitter EXCEPT ![s] = IF tasks = <<>> THEN "notify" ELSE "idle"]
    /\ UNCHANGED <<stopping, worker, job, closer, exceptions, started, finished>>

\* trySubmit returns true: the push, under the mutex.
TrySubmit(s, t) ==
    /\ submitter[s] = "idle"
    /\ t \notin Range(accepted)
    /\ ~stopping
    /\ ~Full
    /\ tasks' = Append(tasks, t)
    /\ accepted' = Append(accepted, t)
    /\ submitter' = [submitter EXCEPT ![s] = "notify"]
    /\ UNCHANGED <<stopping, worker, job, closer, exceptions, started, finished>>

\* trySubmit returns false and changes nothing.
Refuse(s) ==
    /\ submitter[s] = "idle"
    /\ stopping \/ Full
    /\ UNCHANGED vars

\* notify_one, after the mutex is released: some sleeper wakes, if there is one.
NotifyOne(s) ==
    /\ submitter[s] = "notify"
    /\ submitter' = [submitter EXCEPT ![s] = "idle"]
    /\ \/ \E w \in Asleep : worker' = [worker EXCEPT ![w] = "ready"]
       \/ Asleep = {} /\ UNCHANGED worker
    /\ UNCHANGED <<tasks, stopping, job, closer, exceptions, accepted, started, finished>>

\* A condition variable may wake a thread that nobody notified.
SpuriousWakeup(w) ==
    /\ worker[w] = "asleep"
    /\ worker' = [worker EXCEPT ![w] = "ready"]
    /\ UNCHANGED <<tasks, stopping, job, submitter, closer, exceptions,
                   accepted, started, finished>>

\* The wait predicate is false: the worker releases the mutex and sleeps.
Sleep(w) ==
    /\ worker[w] = "ready"
    /\ ~stopping /\ tasks = <<>>
    /\ worker' = [worker EXCEPT ![w] = "asleep"]
    /\ UNCHANGED <<tasks, stopping, job, submitter, closer, exceptions,
                   accepted, started, finished>>

\* The predicate holds and there is a task: pop it, stopping or not.
Take(w) ==
    /\ worker[w] = "ready"
    /\ tasks # <<>>
    /\ job' = [job EXCEPT ![w] = Head(tasks)]
    /\ tasks' = Tail(tasks)
    /\ started' = Append(started, Head(tasks))
    /\ worker' = [worker EXCEPT ![w] = "running"]
    /\ UNCHANGED <<stopping, submitter, closer, exceptions, accepted, finished>>

\* Mutant of Exit: the worker returns as soon as the pool is stopping.
ExitUndrained(w) ==
    /\ worker[w] = "ready" /\ stopping
    /\ worker' = [worker EXCEPT ![w] = "exited"]
    /\ UNCHANGED <<tasks, stopping, job, submitter, closer, exceptions,
                   accepted, started, finished>>

\* Stopping and drained: workerLoop returns.
Exit(w) ==
    /\ worker[w] = "ready"
    /\ stopping /\ tasks = <<>>
    /\ worker' = [worker EXCEPT ![w] = "exited"]
    /\ UNCHANGED <<tasks, stopping, job, submitter, closer, exceptions,
                   accepted, started, finished>>

\* Mutant of Finish: an exception ends the worker too.
FinishThrowKills(w) ==
    /\ worker[w] = "running"
    /\ finished' = finished \cup {job[w]}
    /\ job' = [job EXCEPT ![w] = NoTask]
    /\ \/ /\ worker' = [worker EXCEPT ![w] = "ready"]
          /\ UNCHANGED exceptions
       \/ /\ worker' = [worker EXCEPT ![w] = "exited"]
          /\ exceptions' = exceptions + 1
    /\ UNCHANGED <<tasks, stopping, submitter, closer, accepted, started>>

\* The task ends, normally or by an exception that the worker counts.
Finish(w) ==
    /\ worker[w] = "running"
    /\ worker' = [worker EXCEPT ![w] = "ready"]
    /\ finished' = finished \cup {job[w]}
    /\ job' = [job EXCEPT ![w] = NoTask]
    /\ exceptions' \in {exceptions, exceptions + 1}
    /\ UNCHANGED <<tasks, stopping, submitter, closer, accepted, started>>

\* shutdown, again by the destructor after a first call has returned.
Shutdown ==
    /\ closer \in {"open", "done"}
    /\ stopping' = TRUE
    /\ closer' = "notify"
    /\ UNCHANGED <<tasks, worker, job, submitter, exceptions, accepted, started, finished>>

\* Mutant of NotifyAll: shutdown wakes one worker.
NotifyAllOnlyOne ==
    /\ closer = "notify"
    /\ \/ \E w \in Asleep : worker' = [worker EXCEPT ![w] = "ready"]
       \/ Asleep = {} /\ UNCHANGED worker
    /\ closer' = "join"
    /\ UNCHANGED <<tasks, stopping, job, submitter, exceptions, accepted, started, finished>>

NotifyAll ==
    /\ closer = "notify"
    /\ worker' = [w \in Workers |-> IF worker[w] = "asleep" THEN "ready" ELSE worker[w]]
    /\ closer' = "join"
    /\ UNCHANGED <<tasks, stopping, job, submitter, exceptions, accepted, started, finished>>

\* join has returned for every worker.
JoinAll ==
    /\ closer = "join"
    /\ \A w \in Workers : worker[w] = "exited"
    /\ closer' = "done"
    /\ UNCHANGED <<tasks, stopping, worker, job, submitter, exceptions,
                   accepted, started, finished>>

WorkerStep(w) == Sleep(w) \/ Take(w) \/ Exit(w)

Next ==
    \/ \E s \in Submitters : \E t \in Tasks : TrySubmit(s, t)
    \/ \E s \in Submitters : Refuse(s) \/ NotifyOne(s)
    \/ \E w \in Workers : SpuriousWakeup(w) \/ WorkerStep(w) \/ Finish(w)
    \/ Shutdown \/ NotifyAll \/ JoinAll

Spec == Init /\ [][Next]_vars

(***************************************************************************)
(* Threads are scheduled: a worker that could take the mutex does, a       *)
(* submitter and the closer go on.  WF of Finish is the caller's promise   *)
(* that every task ends, which the server keeps by shutting down every     *)
(* socket before it calls shutdown.                                        *)
(***************************************************************************)
Fairness ==
    /\ \A w \in Workers : WF_vars(WorkerStep(w)) /\ WF_vars(Finish(w))
    /\ \A s \in Submitters : WF_vars(NotifyOne(s))
    /\ WF_vars(NotifyAll) /\ WF_vars(JoinAll)

FairSpec == Spec /\ Fairness

-----------------------------------------------------------------------------
\* Every variable has its type, and a worker holds a task just while it runs one:
\* the std::function workerLoop declares per turn.
TypeOK ==
    /\ tasks \in Seq(Tasks)
    /\ stopping \in BOOLEAN
    /\ worker \in [Workers -> {"ready", "asleep", "running", "exited"}]
    /\ job \in [Workers -> Tasks \cup {NoTask}]
    /\ submitter \in [Submitters -> {"idle", "notify"}]
    /\ closer \in {"open", "notify", "join", "done"}
    /\ exceptions \in Nat
    /\ accepted \in Seq(Tasks)
    /\ started \in Seq(Tasks)
    /\ finished \in SUBSET Tasks
    /\ \A w \in Workers : worker[w] = "running" <=> job[w] \in Tasks

\* The queue (trySubmit's push, workerLoop's pop) starts every accepted task in
\* the order of acceptance: what was accepted is what was started, then what
\* still waits, so none is lost, repeated or overtaken.
StartedInOrder == accepted = started \o tasks

\* trySubmit refuses at the cap: the queue never grows past it, whichever
\* submitters race.
QueueBounded == MaxQueued # 0 => Len(tasks) <= MaxQueued

\* A started task is finished or is being run by exactly one worker: the pop
\* under the mutex hands each task to one worker, and a task that throws is
\* neither dropped nor run again.
RunExactlyOnce ==
    /\ \A t \in Tasks : t \in Range(started) <=>
          t \in finished \/ \E w \in Running : job[w] = t
    /\ \A w \in Running : job[w] \in Tasks \ finished
    /\ \A v, w \in Running : job[v] = job[w] => v = w

\* No lost wakeup although notify_one is called outside the mutex: while a
\* worker sleeps, there are at least as many threads on their way to the queue
\* (ready workers, and submitters about to notify) as tasks in it, and once the
\* pool is stopping the notify_all that will wake it is still to come.
SleepersMissNothing ==
    Asleep # {} =>
        /\ Len(tasks) <= Cardinality(Notifying) + Cardinality(Ready)
        /\ stopping => closer = "notify"

\* shutdown "lets already-queued ones run, and joins every worker": when it
\* returns every accepted task has finished and no worker is left.
DrainedWhenJoined ==
    closer = "done" =>
        /\ tasks = <<>>
        /\ Range(accepted) = finished
        /\ \A w \in Workers : worker[w] = "exited"

\* Every accepted task is eventually run to its end, whether or not others throw
\* and whether or not the pool is being shut down.
AcceptedEventuallyRuns ==
    \A t \in Tasks : t \in Range(accepted) ~> t \in finished

\* shutdown returns: notify_all and the drain let every worker reach its exit.
ShutdownReturns == closer = "notify" ~> closer = "done"
=============================================================================
