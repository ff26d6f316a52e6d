--------------------------- MODULE BackgroundLoop ---------------------------
(***************************************************************************)
(* The timer thread that ExpirationSweeper and SnapshotScheduler share in  *)
(* shape (src/ExpirationSweeper.cpp, src/SnapshotScheduler.cpp): start,    *)
(* stop and the loop that waits on a condition variable with a timeout,    *)
(* then does its job: removeExpired, or save.                              *)
(*                                                                         *)
(* Each has one owner that calls start and stop in any order and any       *)
(* number of times: Server, and the destructor last of all.  A step is one *)
(* critical section of mutex_ or one act outside it.                       *)
(***************************************************************************)

CONSTANTS
    Loops,          \* the background threads: the sweeper, the scheduler
    Disabled        \* the schedulers whose interval is zero

ASSUME DisabledAssumption == Disabled \subseteq Loops

VARIABLES
    running,        \* running_
    stopRequested,  \* stopRequested_
    owner,          \* where the owner is in start or stop
    thread          \* "none": not joinable; else where the loop is

loopVars == <<running, stopRequested, owner, thread>>

LoopInit ==
    /\ running = [l \in Loops |-> FALSE]
    /\ stopRequested = [l \in Loops |-> FALSE]
    /\ owner = [l \in Loops |-> "idle"]
    /\ thread = [l \in Loops |-> "none"]

-----------------------------------------------------------------------------
\* running_.exchange(true): a second start returns at once, and so does
\* one that is disabled.
StartLoop(l) ==
    /\ owner[l] = "idle" /\ l \notin Disabled
    /\ running' = [running EXCEPT ![l] = TRUE]
    /\ owner' = [owner EXCEPT ![l] = IF running[l] THEN "idle" ELSE "reset"]
    /\ UNCHANGED <<stopRequested, thread>>

\* Mutant of Reset: the request of an earlier stop stays.
ResetNothing(l) ==
    /\ owner[l] = "reset"
    /\ owner' = [owner EXCEPT ![l] = "spawn"]
    /\ UNCHANGED <<running, stopRequested, thread>>

Reset(l) ==
    /\ owner[l] = "reset"
    /\ stopRequested' = [stopRequested EXCEPT ![l] = FALSE]
    /\ owner' = [owner EXCEPT ![l] = "spawn"]
    /\ UNCHANGED <<running, thread>>

Spawn(l) ==
    /\ owner[l] = "spawn"
    /\ thread' = [thread EXCEPT ![l] = "check"]
    /\ owner' = [owner EXCEPT ![l] = "idle"]
    /\ UNCHANGED <<running, stopRequested>>

Stop(l) ==
    /\ owner[l] = "idle"
    /\ stopRequested' = [stopRequested EXCEPT ![l] = TRUE]
    /\ owner' = [owner EXCEPT ![l] = "notify"]
    /\ UNCHANGED <<running, thread>>

\* Mutant of NotifyAll: the sleeping thread is left to its timeout.
NotifyNobody(l) ==
    /\ owner[l] = "notify"
    /\ owner' = [owner EXCEPT ![l] = "join"]
    /\ UNCHANGED <<running, stopRequested, thread>>

NotifyAll(l) ==
    /\ owner[l] = "notify"
    /\ thread' = [thread EXCEPT ![l] = IF thread[l] = "waiting" THEN "check" ELSE thread[l]]
    /\ owner' = [owner EXCEPT ![l] = "join"]
    /\ UNCHANGED <<running, stopRequested>>

\* join returns once the loop has, and at once if there is no thread.
Join(l) ==
    /\ owner[l] = "join"
    /\ thread[l] \in {"none", "exited"}
    /\ thread' = [thread EXCEPT ![l] = "none"]
    /\ running' = [running EXCEPT ![l] = FALSE]
    /\ owner' = [owner EXCEPT ![l] = "idle"]
    /\ UNCHANGED stopRequested

-----------------------------------------------------------------------------
\* The predicate of wait_for, tested under the mutex before sleeping and after
\* every wakeup.
Check(l) ==
    /\ thread[l] = "check"
    /\ thread' = [thread EXCEPT ![l] = IF stopRequested[l] THEN "exited" ELSE "waiting"]
    /\ UNCHANGED <<running, stopRequested, owner>>

SpuriousWakeup(l) ==
    /\ thread[l] = "waiting"
    /\ thread' = [thread EXCEPT ![l] = "check"]
    /\ UNCHANGED <<running, stopRequested, owner>>

\* The interval is over; a request that came meanwhile still ends the loop.
Timeout(l) ==
    /\ thread[l] = "waiting"
    /\ thread' = [thread EXCEPT ![l] = IF stopRequested[l] THEN "exited" ELSE "job"]
    /\ UNCHANGED <<running, stopRequested, owner>>

\* removeExpired or save, without the mutex, whether or not it succeeds.
Job(l) ==
    /\ thread[l] = "job"
    /\ thread' = [thread EXCEPT ![l] = "check"]
    /\ UNCHANGED <<running, stopRequested, owner>>

OwnerStep(l) == Reset(l) \/ Spawn(l) \/ NotifyAll(l) \/ Join(l)

LoopNext ==
    \E l \in Loops :
        \/ StartLoop(l) \/ Stop(l) \/ OwnerStep(l)
        \/ Check(l) \/ SpuriousWakeup(l) \/ Timeout(l) \/ Job(l)

LoopSpec == LoopInit /\ [][LoopNext]_loopVars

\* No fairness of Timeout: the interval may be as long as one likes.
FairLoopSpec ==
    /\ LoopSpec
    /\ \A l \in Loops : WF_loopVars(OwnerStep(l)) /\ WF_loopVars(Check(l)) /\ WF_loopVars(Job(l))

-----------------------------------------------------------------------------
\* Every variable has its type.
LoopTypeOK ==
    /\ running \in [Loops -> BOOLEAN]
    /\ stopRequested \in [Loops -> BOOLEAN]
    /\ owner \in [Loops -> {"idle", "reset", "spawn", "notify", "join"}]
    /\ thread \in [Loops -> {"none", "check", "waiting", "job", "exited"}]

\* start creates a thread only where none is: assigning to a joinable std::thread
\* would terminate the process.
OneThread == \A l \in Loops : owner[l] \in {"reset", "spawn"} => thread[l] = "none"

\* Between calls running_ tells the truth: after start the loop is alive and stays
\* so, also when stop was called before; after stop no thread is left to touch the
\* database.
RunningIsAlive ==
    \A l \in Loops : owner[l] = "idle" =>
        IF running[l] THEN thread[l] \in {"check", "waiting", "job"} ELSE thread[l] = "none"

\* stop "returns immediately instead of after up to a full interval": it returns
\* even if the timeout never comes, so the notification is never lost.
StopReturns == \A l \in Loops : owner[l] = "notify" ~> owner[l] = "idle"
=============================================================================
