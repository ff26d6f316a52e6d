------------------------------- MODULE Server -------------------------------
(***************************************************************************)
(* Server (include/Server.h, src/Server.cpp) composed with the thread pool *)
(* it hands its connections to: the accept loop with its self-pipe, the    *)
(* workers that serve one connection each, stop() from another thread or a *)
(* signal handler, and the teardown at the end of run().                   *)
(*                                                                         *)
(* A task of the pool is the connection of one client.  Descriptors are    *)
(* reused: a closed one may be given to the next connection accepted, so   *)
(* using a descriptor after its close would reach another client.  Each    *)
(* critical section of connectionsMutex_ is one step.  The peers and the   *)
(* kernel's socket calls are external.                                     *)
(***************************************************************************)
EXTENDS Naturals, Sequences, FiniteSets

CONSTANTS
    Workers, MaxQueued, NoTask,   \* the pool's
    Clients,      \* each connects at most once
    Descriptors,  \* what accept may return
    Nobody,       \* the connection of a descriptor that is not open
    MaxLines      \* bound on the commands that one recv completes

ASSUME ServerAssumption ==
    /\ Workers # {} /\ IsFiniteSet(Workers) /\ MaxQueued \in Nat
    /\ Clients \subseteq Nat /\ NoTask \notin Clients
    /\ Nobody \notin Clients \cup Descriptors
    /\ MaxLines \in Nat

VARIABLES
    tasks, stopping, worker, job, submitter, closer, exceptions,
    accepted, started, finished,          \* the pool's
    running,      \* running_
    pipe,         \* a byte waits in the self-pipe
    stopper,      \* where the caller of stop() is
    loop,         \* where run() is
    clientFd,     \* the connection run() has accepted and not yet handed on
    background,   \* the sweeper and the scheduler run
    owner,        \* the connection each descriptor names
    fd,           \* the descriptor each task has captured
    active,       \* activeConnections_
    shut,         \* descriptors shutdown() was called on
    serve,        \* where each worker is in serveConnection
    lines,        \* complete commands in each worker's `pending`
    peer,         \* "away", "up", "down"
    backlog       \* connections accept can return

poolVars == <<tasks, stopping, worker, job, submitter, closer, exceptions,
              accepted, started, finished>>
loopVars == <<running, pipe, stopper, loop, clientFd, background>>
fdVars == <<owner, fd, active, shut>>
serveVars == <<serve, lines>>
peerVars == <<peer, backlog>>
vars == <<poolVars, loopVars, fdVars, serveVars, peerVars>>

Pool == INSTANCE ThreadPool WITH Tasks <- Clients, Submitters <- {"acceptor"}

Free == {d \in Descriptors : owner[d] = Nobody}

\* close(d): the number is free for the next accept.
Close(d) ==
    /\ owner' = [owner EXCEPT ![d] = Nobody]
    /\ shut' = shut \ {d}
    /\ UNCHANGED fd

\* After start(): listening, the pool and the background threads are up.
Init ==
    /\ Pool!Init
    /\ running = FALSE /\ pipe = FALSE /\ stopper = "idle"
    /\ loop = "started" /\ clientFd = Nobody /\ background = TRUE
    /\ owner = [d \in Descriptors |-> Nobody]
    /\ fd = [c \in Clients |-> Nobody]
    /\ active = {} /\ shut = {}
    /\ serve = [w \in Workers |-> "idle"]
    /\ lines = [w \in Workers |-> 0]
    /\ peer = [c \in Clients |-> "away"]
    /\ backlog = {}

-----------------------------------------------------------------------------
(* The peers.                                                              *)

\* Clients are numbered in the order in which they connect.
Connect(c) ==
    /\ peer[c] = "away" /\ loop # "returned"
    /\ \A b \in Clients : b < c => peer[b] # "away"
    /\ peer' = [peer EXCEPT ![c] = "up"]
    /\ backlog' = backlog \cup {c}
    /\ UNCHANGED <<poolVars, loopVars, fdVars, serveVars>>

\* A peer that leaves the backlog early is still returned by accept, or reported
\* as ECONNABORTED.
HangUp(c) ==
    /\ peer[c] = "up"
    /\ peer' = [peer EXCEPT ![c] = "down"]
    /\ UNCHANGED <<poolVars, loopVars, fdVars, serveVars, backlog>>

-----------------------------------------------------------------------------
(* stop(), callable at any time, before run() too.                         *)

StopStores ==
    /\ stopper = "idle"
    /\ running' = FALSE
    /\ stopper' = "write"
    /\ UNCHANGED <<poolVars, pipe, loop, clientFd, background, fdVars, serveVars, peerVars>>

StopWrites ==
    /\ stopper = "write"
    /\ pipe' = TRUE
    /\ stopper' = "done"
    /\ UNCHANGED <<poolVars, running, loop, clientFd, background, fdVars, serveVars, peerVars>>

-----------------------------------------------------------------------------
(* run().                                                                  *)

GoTo(l) ==
    /\ loop' = l
    /\ UNCHANGED <<pipe, stopper, background>>

Run ==
    /\ loop = "started"
    /\ running' = TRUE
    /\ GoTo("while")
    /\ UNCHANGED <<poolVars, clientFd, fdVars, serveVars, peerVars>>

While ==
    /\ loop = "while"
    /\ GoTo(IF running THEN "poll" ELSE "break")
    /\ UNCHANGED <<poolVars, running, clientFd, fdVars, serveVars, peerVars>>

\* The pipe is looked at first: with a byte in it nothing more is accepted.
Poll ==
    /\ loop = "poll"
    /\ pipe \/ backlog # {}
    /\ GoTo(IF pipe THEN "break" ELSE "accept")
    /\ UNCHANGED <<poolVars, running, clientFd, fdVars, serveVars, peerVars>>

\* EINTR polls again, any other error ends the loop.
PollFails ==
    /\ loop = "poll"
    /\ GoTo("while") \/ GoTo("break")
    /\ UNCHANGED <<poolVars, running, clientFd, fdVars, serveVars, peerVars>>

\* The connection at the head of the kernel's accept queue.
Oldest == {c \in backlog : \A b \in backlog : c <= b}

Accept ==
    /\ loop = "accept"
    /\ \E c \in Oldest, d \in Free :
          /\ backlog' = backlog \ {c}
          /\ owner' = [owner EXCEPT ![d] = c]
          /\ fd' = [fd EXCEPT ![c] = d]
          /\ clientFd' = c
    /\ GoTo("submit")
    /\ UNCHANGED <<poolVars, running, active, shut, serveVars, peer>>

\* ECONNABORTED loses the connection, EMFILE leaves it; both go on, as EINTR
\* does.  Any other error ends the loop, and with it run().
AcceptFails ==
    /\ loop = "accept"
    /\ \/ GoTo("while") /\ \E c \in Oldest : peer[c] = "down" /\ backlog' = backlog \ {c}
       \/ GoTo("while") /\ UNCHANGED backlog
       \/ GoTo("break") /\ UNCHANGED backlog
    /\ UNCHANGED <<poolVars, running, clientFd, fdVars, serveVars, peer>>

Submit ==
    /\ loop = "submit"
    /\ Pool!TrySubmit("acceptor", clientFd)
    /\ GoTo("notify")
    /\ clientFd' = Nobody
    /\ UNCHANGED <<running, fdVars, serveVars, peerVars>>

Notify ==
    /\ loop = "notify"
    /\ Pool!NotifyOne("acceptor")
    /\ GoTo("while")
    /\ UNCHANGED <<running, clientFd, fdVars, serveVars, peerVars>>

\* Mutant of Busy: the refused connection is not closed.
BusyKeepsOpen ==
    /\ loop = "submit"
    /\ Pool!Refuse("acceptor")
    /\ clientFd' = Nobody
    /\ GoTo("while")
    /\ UNCHANGED <<running, fdVars, serveVars, peerVars>>

\* trySubmit refuses: the client is told and its descriptor closed.
Busy ==
    /\ loop = "submit"
    /\ Pool!Refuse("acceptor")
    /\ Close(fd[clientFd])
    /\ clientFd' = Nobody
    /\ GoTo("while")
    /\ UNCHANGED <<running, active, serveVars, peerVars>>

\* Mutant of StopServing: running_ is left as it was.
StopServingKeepsRunning ==
    /\ loop = "break"
    /\ GoTo("interrupt")
    /\ UNCHANGED <<poolVars, running, clientFd, fdVars, serveVars, peerVars>>

StopServing ==
    /\ loop = "break"
    /\ running' = FALSE
    /\ GoTo("interrupt")
    /\ UNCHANGED <<poolVars, clientFd, fdVars, serveVars, peerVars>>

\* Mutant of ShutdownActiveConnections: close() instead of shutdown().
ShutdownByClosing ==
    /\ loop = "interrupt"
    /\ owner' = [d \in Descriptors |-> IF d \in active THEN Nobody ELSE owner[d]]
    /\ GoTo("shutdown")
    /\ UNCHANGED <<poolVars, running, clientFd, fd, active, shut, serveVars, peerVars>>

ShutdownActiveConnections ==
    /\ loop = "interrupt"
    /\ shut' = shut \cup active
    /\ GoTo("shutdown")
    /\ UNCHANGED <<poolVars, running, clientFd, owner, fd, active, serveVars, peerVars>>

\* pool_->shutdown(), with the pool's own steps.
ShutdownPool ==
    /\ loop = "shutdown"
    /\ \/ closer = "open" /\ Pool!Shutdown /\ UNCHANGED loop
       \/ Pool!NotifyAll /\ UNCHANGED loop
       \/ Pool!JoinAll /\ loop' = "loops"
    /\ UNCHANGED <<running, pipe, stopper, clientFd, background, fdVars, serveVars, peerVars>>

\* sweeper_->stop() and scheduler_->stop(), after the workers.
StopBackground ==
    /\ loop = "loops"
    /\ background' = FALSE
    /\ loop' = "returned"
    /\ UNCHANGED <<poolVars, running, pipe, stopper, clientFd, fdVars, serveVars, peerVars>>

-----------------------------------------------------------------------------
(* A worker in serveConnection and handleConnection.                       *)

At(w, here) == worker[w] = "running" /\ serve[w] = here
Move(w, next) == serve' = [serve EXCEPT ![w] = next]
Broken(w) == fd[job[w]] \in shut \/ peer[job[w]] = "down"

Wait(w) ==
    /\ Pool!Sleep(w) \/ Pool!Exit(w)
    /\ UNCHANGED <<loopVars, fdVars, serveVars, peerVars>>

SpuriousWakeup(w) ==
    /\ Pool!SpuriousWakeup(w)
    /\ UNCHANGED <<loopVars, fdVars, serveVars, peerVars>>

Take(w) ==
    /\ Pool!Take(w)
    /\ Move(w, "register")
    /\ UNCHANGED <<loopVars, fdVars, lines, peerVars>>

Register(w) ==
    /\ At(w, "register")
    /\ active' = active \cup {fd[job[w]]}
    /\ Move(w, "if")
    /\ UNCHANGED <<poolVars, loopVars, owner, fd, shut, lines, peerVars>>

\* The test of running_ after registering, and the one of every turn.
TestRunning(w) ==
    /\ \/ At(w, "if") /\ Move(w, IF running THEN "while" ELSE "leave")
       \/ At(w, "while") /\ Move(w, IF running THEN "recv" ELSE "leave")
    /\ UNCHANGED <<poolVars, loopVars, fdVars, lines, peerVars>>

\* recv returns bytes that complete some commands, or none; bytes that arrived
\* before a shutdown can still be read.
RecvData(w) ==
    /\ At(w, "recv")
    /\ \E n \in 0..MaxLines : lines' = [lines EXCEPT ![w] = n]
    /\ Move(w, "execute")
    /\ UNCHANGED <<poolVars, loopVars, fdVars, peerVars>>

\* recv returns 0 or an error.
RecvEnds(w) ==
    /\ At(w, "recv")
    /\ Broken(w)
    /\ Move(w, "leave")
    /\ UNCHANGED <<poolVars, loopVars, fdVars, lines, peerVars>>

\* executor.execute of the next line; a blank line has no reply.
Execute(w) ==
    /\ At(w, "execute")
    /\ lines[w] > 0
    /\ lines' = [lines EXCEPT ![w] = @ - 1]
    /\ Move(w, "send") \/ Move(w, "execute")
    /\ UNCHANGED <<poolVars, loopVars, fdVars, peerVars>>

\* No line is left: on to the next recv, unless the unfinished one is too long.
EndOfLines(w) ==
    /\ At(w, "execute")
    /\ lines[w] = 0
    /\ Move(w, "while") \/ Move(w, "refuse")
    /\ UNCHANGED <<poolVars, loopVars, fdVars, lines, peerVars>>

\* sendLine succeeds once the peer takes the bytes.
SendDone(w) ==
    /\ \/ At(w, "send") /\ Move(w, "execute")
       \/ At(w, "refuse") /\ Move(w, "leave")
    /\ ~Broken(w)
    /\ UNCHANGED <<poolVars, loopVars, fdVars, lines, peerVars>>

\* sendLine fails, in handleConnection's early return or before its break.
SendFails(w) ==
    /\ At(w, "send") \/ At(w, "refuse")
    /\ Broken(w)
    /\ Move(w, "leave")
    /\ UNCHANGED <<poolVars, loopVars, fdVars, lines, peerVars>>

\* Unregister and close in one critical section; the task returns.
Leave(w) ==
    /\ At(w, "leave")
    /\ active' = active \ {fd[job[w]]}
    /\ Close(fd[job[w]])
    /\ Pool!Finish(w) /\ UNCHANGED exceptions
    /\ Move(w, "idle")
    /\ lines' = [lines EXCEPT ![w] = 0]
    /\ UNCHANGED <<loopVars, peerVars>>

\* An exception (std::bad_alloc) leaves serveConnection at once, from the set's insert,
\* from pending.append or from a command; the pool catches and counts it.
Throw(w) ==
    /\ At(w, "register") \/ At(w, "execute")
    /\ Pool!Finish(w) /\ exceptions' = exceptions + 1
    /\ Move(w, "idle")
    /\ lines' = [lines EXCEPT ![w] = 0]
    /\ UNCHANGED <<loopVars, fdVars, peerVars>>

-----------------------------------------------------------------------------
AcceptLoop ==
    \/ Run \/ While \/ Poll \/ PollFails \/ Accept \/ AcceptFails
    \/ Submit \/ Notify \/ Busy
    \/ StopServing \/ ShutdownActiveConnections \/ ShutdownPool \/ StopBackground

\* What a worker does of its own accord, whatever the peer does.
ServeStep(w) ==
    \/ Wait(w) \/ Take(w) \/ Register(w) \/ TestRunning(w)
    \/ Execute(w) \/ EndOfLines(w) \/ Throw(w)
    \/ RecvEnds(w) \/ SendFails(w) \/ Leave(w)

Next ==
    \/ \E c \in Clients : Connect(c) \/ HangUp(c)
    \/ StopStores \/ StopWrites
    \/ AcceptLoop
    \/ \E w \in Workers : SpuriousWakeup(w) \/ ServeStep(w) \/ RecvData(w) \/ SendDone(w)

Spec == Init /\ [][Next]_vars

(***************************************************************************)
(* Threads are scheduled, and a socket call returns once its connection is *)
(* broken.  Nothing is asked of the peers: a client may stay silent in     *)
(* recv, or stop reading in send, for ever.  SF of Poll: signals do not    *)
(* interrupt poll every single time it has something to report.            *)
(***************************************************************************)
FairSpec ==
    /\ Spec
    /\ WF_vars(StopWrites) /\ WF_vars(AcceptLoop) /\ SF_vars(Poll)
    /\ \A w \in Workers : WF_vars(ServeStep(w))

-----------------------------------------------------------------------------
Served == {job[w] : w \in {v \in Workers : worker[v] = "running"}}
Queued == {tasks[i] : i \in 1..Len(tasks)}

\* A descriptor held by run(), by a queued task or by a worker still names that
\* holder's connection: none is closed twice or used after another connection was
\* given its number ("the descriptor ends up closed exactly once").  And what
\* shutdownActiveConnections reads out of the set is open and belongs to a connection
\* some worker took: it never shuts down a number that was reused.
UsesOwnDescriptor ==
    /\ \A c \in Served \cup Queued \cup ({clientFd} \ {Nobody}) : owner[fd[c]] = c
    /\ \A d \in active : \E c \in Clients \ Queued : owner[d] = c /\ fd[c] = d

\* run() "tears down every live connection and joins the pool": when it returns, no
\* worker or background thread is left and, unless a task threw, every descriptor is
\* closed and the set empty.
QuiescentWhenReturned ==
    loop = "returned" =>
        /\ exceptions = 0 => Free = Descriptors /\ active = {}
        /\ \A w \in Workers : worker[w] = "exited"
        /\ ~background

\* stop() makes run() return, called at any time and however silent the clients:
\* a worker that registers after shutdownActiveConnections sees running_ false,
\* one that registered before is interrupted.
RunReturns == stopper = "done" ~> loop = "returned"

\* "A failed accept must never kill the server": no step of the accept loop leaves it
\* because accept() failed.
AcceptFailureSurvived == [][loop = "accept" => loop' # "break"]_vars
=============================================================================
