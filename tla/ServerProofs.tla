---------------------------- MODULE ServerProofs ----------------------------
(***************************************************************************)
(* Proofs about Server, for any workers, clients and descriptors: every    *)
(* descriptor in use still names the connection of its user, run() returns *)
(* with nothing left, and what the server does to its pool are the steps   *)
(* of ThreadPool.                                                          *)
(***************************************************************************)
EXTENDS Server, TLAPS

Pending == {"started", "while", "poll", "accept", "submit", "notify", "break",
            "interrupt", "shutdown"}

TypeOK ==
    /\ tasks \in Seq(Clients) /\ stopping \in BOOLEAN
    /\ worker \in [Workers -> {"ready", "asleep", "running", "exited"}]
    /\ job \in [Workers -> Clients \cup {NoTask}]
    /\ submitter \in [{"acceptor"} -> {"idle", "notify"}]
    /\ closer \in {"open", "notify", "join", "done"}
    /\ exceptions \in Nat
    /\ loop \in Pending \cup {"loops", "returned"}
    /\ clientFd \in Clients \cup {Nobody}
    /\ owner \in [Descriptors -> Clients \cup {Nobody}]
    /\ fd \in [Clients -> Descriptors \cup {Nobody}]
    /\ active \in SUBSET Descriptors
    /\ serve \in [Workers -> {"idle", "register", "if", "while", "recv", "execute",
                              "send", "refuse", "leave"}]
    /\ lines \in [Workers -> 0..MaxLines]
    /\ peer \in [Clients -> {"away", "up", "down"}]
    /\ backlog \in SUBSET Clients

\* The connections run(), the queue or a worker holds, and those not accepted yet.
Held == Served \cup Queued \cup ({clientFd} \ {Nobody})
Outside == backlog \cup {c \in Clients : peer[c] = "away"}

\* The elements of a queue, and that none occurs twice.
Elems(q) == {q[i] : i \in 1..Len(q)}
Distinct(q) == \A i, j \in 1..Len(q) : q[i] = q[j] => i = j

\* A connection is in one place: outside, with run(), once in the queue, or with
\* one worker.
OnePlace ==
    /\ Distinct(tasks)
    /\ \A w \in Workers :
          worker[w] = "running" =>
              /\ job[w] \in Clients \ (Queued \cup {clientFd})
              /\ \A v \in Workers : worker[v] = "running" /\ job[v] = job[w] => v = w
    /\ clientFd \notin Queued
    /\ Outside \cap Held = {}
    /\ \A c \in backlog : peer[c] # "away"

\* An open descriptor belongs to an accepted connection, which has captured it.
OwnersTrue ==
    \A d \in Descriptors :
        owner[d] # Nobody => fd[owner[d]] = d /\ owner[d] \notin Outside

\* A held connection has a descriptor of its own.
HoldersOpen == \A c \in Held : fd[c] \in Descriptors /\ owner[fd[c]] = c

\* A registered descriptor is open and its connection has been taken by a worker.
ActiveOpen ==
    \A d \in active : owner[d] # Nobody /\ owner[d] \notin Queued \cup {clientFd}

\* Unless a task threw, an open descriptor belongs to a held connection.
NoneLeaked ==
    exceptions = 0 => \A d \in Descriptors : owner[d] # Nobody => owner[d] \in Held

\* Where run() is and what that says of the pool.
LoopAgrees ==
    /\ clientFd # Nobody <=> loop = "submit"
    /\ loop \in {"loops", "returned"} => \A w \in Workers : worker[w] = "exited"
    /\ \A w \in Workers : worker[w] = "exited" => stopping /\ tasks = <<>>
    /\ loop = "returned" => ~background

Inv ==
    TypeOK /\ OnePlace /\ OwnersTrue /\ HoldersOpen /\ ActiveOpen /\ NoneLeaked /\ LoopAgrees

-----------------------------------------------------------------------------
(* The queue.                                                              *)

\* trySubmit's push.
LEMMA Pushed ==
    ASSUME NEW S, NEW q \in Seq(S), NEW e \in S
    PROVE  /\ Append(q, e) \in Seq(S)
           /\ Elems(Append(q, e)) = Elems(q) \cup {e}
           /\ Distinct(q) /\ e \notin Elems(q) => Distinct(Append(q, e))
<1> DEFINE a == Append(q, e)
<1>1. a \in Seq(S) /\ Len(a) = Len(q) + 1 /\ Len(q) \in Nat
  OBVIOUS
<1>2. a[Len(q) + 1] = e /\ \A i \in 1..Len(q) : a[i] = q[i]
  OBVIOUS
<1> HIDE DEF a
<1>3. 1..Len(a) = (1..Len(q)) \cup {Len(q) + 1}
  BY <1>1
<1>4. Elems(a) = Elems(q) \cup {e}
  BY <1>2, <1>3 DEF Elems
<1>5. ASSUME Distinct(q), e \notin Elems(q), NEW i \in 1..Len(a), NEW j \in 1..Len(a), a[i] = a[j]
      PROVE  i = j
  BY <1>2, <1>3, <1>5, Zenon DEF Distinct, Elems
<1>6. Distinct(q) /\ e \notin Elems(q) => Distinct(a)
  BY <1>5, Zenon DEF Distinct
<1> QED
  BY <1>1, <1>4, <1>6, Zenon DEF a

\* workerLoop's pop.
LEMMA Popped ==
    ASSUME NEW S, NEW q \in Seq(S), q # <<>>
    PROVE  /\ Head(q) \in S /\ Tail(q) \in Seq(S)
           /\ Head(q) \in Elems(q)
           /\ Distinct(q) => Elems(Tail(q)) = Elems(q) \ {Head(q)} /\ Distinct(Tail(q))
<1> DEFINE t == Tail(q)
           h == Head(q)
<1>1. /\ t \in Seq(S) /\ h \in S /\ Len(q) \in Nat /\ Len(q) # 0
      /\ Len(t) = Len(q) - 1 /\ h = q[1]
  OBVIOUS
<1>2. \A i \in 1..Len(t) : t[i] = q[i + 1]
  OBVIOUS
<1> HIDE DEF t, h
<1>3. h \in Elems(q)
  BY <1>1 DEF Elems
<1>4. \A i \in 1..Len(t) : i + 1 \in 1..Len(q) /\ i + 1 # 1
  BY <1>1
<1>5. ASSUME Distinct(q) PROVE Distinct(t)
  <2> SUFFICES ASSUME NEW i \in 1..Len(t), NEW j \in 1..Len(t), t[i] = t[j] PROVE i = j
    BY Zenon DEF Distinct
  <2>1. q[i + 1] = q[j + 1]
    BY <1>2, Zenon
  <2>2. i + 1 = j + 1
    BY <1>4, <1>5, <2>1, Zenon DEF Distinct
  <2> QED BY <2>2
<1>6. ASSUME Distinct(q) PROVE Elems(t) = Elems(q) \ {h}
  <2>1. ASSUME NEW x \in Elems(t) PROVE x \in Elems(q) /\ x # h
    <3>1. PICK i \in 1..Len(t) : x = q[i + 1]
      BY <1>2, <2>1, Zenon DEF Elems
    <3>2. 1 \in 1..Len(q) /\ i + 1 \in 1..Len(q) /\ i + 1 # 1
      BY <1>1, <1>4
    <3> QED BY <1>1, <1>6, <3>1, <3>2, Zenon DEF Elems, Distinct
  <2>2. ASSUME NEW x \in Elems(q), x # h PROVE x \in Elems(t)
    <3>1. PICK i \in 1..Len(q) : x = q[i]
      BY <2>2, Zenon DEF Elems
    <3>2. i # 1
      BY <1>1, <2>2, <3>1, Zenon
    <3>3. i - 1 \in 1..Len(t) /\ (i - 1) + 1 = i
      BY <1>1, <3>2
    <3>4. t[i - 1] = x
      BY <1>2, <3>1, <3>3, Zenon
    <3> QED BY <3>3, <3>4, Zenon DEF Elems
  <2> QED BY <2>1, <2>2, Zenon
<1> QED
  BY <1>1, <1>3, <1>5, <1>6, Zenon DEF t, h

-----------------------------------------------------------------------------
(* Types.                                                                  *)

\* Every step leaves every variable its type.
LEMMA TypeStep ==
    ASSUME Inv, [Next]_vars
    PROVE  TypeOK'
<1> USE ServerAssumption DEF Inv, TypeOK, Pending
<1>1. CASE UNCHANGED vars
  BY <1>1, Zenon DEF vars, poolVars, loopVars, fdVars, serveVars, peerVars
<1>2. ASSUME NEW c \in Clients, Connect(c) \/ HangUp(c) PROVE TypeOK'
  <2>1. CASE Connect(c)
    BY <2>1, Zenon DEF Connect, poolVars, loopVars, fdVars, serveVars
  <2>2. CASE HangUp(c)
    BY <2>2, Zenon DEF HangUp, poolVars, loopVars, fdVars, serveVars
  <2> QED BY <1>2, <2>1, <2>2, Zenon
<1>3. CASE StopStores \/ StopWrites
  BY <1>3, ZenonT(40) DEF StopStores, StopWrites, poolVars, fdVars, serveVars, peerVars
<1>4. CASE Run \/ While \/ Poll \/ PollFails \/ StopServing
  BY <1>4, ZenonT(40) DEF Run, While, Poll, PollFails, StopServing, GoTo, poolVars, fdVars, serveVars, peerVars
<1>5. CASE Accept
  BY <1>5 DEF Accept, Oldest, Free, GoTo, poolVars, serveVars
<1>6. CASE AcceptFails
  BY <1>6, ZenonT(40) DEF AcceptFails, GoTo, poolVars, fdVars, serveVars
<1>7. CASE Submit
  <2>1. clientFd \in Clients
    BY <1>7, Zenon DEF Submit, LoopAgrees
  <2>2. Append(tasks, clientFd) \in Seq(Clients)
    BY <2>1, Pushed, Zenon
  <2> QED BY <1>7, <2>2, Zenon DEF Submit, Pool!TrySubmit, GoTo, fdVars, serveVars, peerVars
<1>8. CASE Notify
  BY <1>8, ZenonT(40) DEF Notify, Pool!NotifyOne, Pool!Asleep, GoTo, fdVars, serveVars, peerVars
<1>9. CASE Busy
  BY <1>9, ZenonT(40) DEF Busy, Pool!Refuse, Pool!vars, Close, GoTo, serveVars, peerVars
<1>10. CASE ShutdownActiveConnections
  BY <1>10, Zenon DEF ShutdownActiveConnections, GoTo, poolVars, serveVars, peerVars
<1>11. CASE ShutdownPool
  <2>1. CASE Pool!Shutdown
    BY <1>11, <2>1, Zenon DEF ShutdownPool, Pool!Shutdown, fdVars, serveVars, peerVars
  <2>2. CASE Pool!NotifyAll
    BY <1>11, <2>2, Zenon DEF ShutdownPool, Pool!NotifyAll, fdVars, serveVars, peerVars
  <2>3. CASE Pool!JoinAll
    BY <1>11, <2>3, Zenon DEF ShutdownPool, Pool!JoinAll, fdVars, serveVars, peerVars
  <2> QED BY <1>11, <2>1, <2>2, <2>3, Zenon DEF ShutdownPool
<1>12. CASE StopBackground
  BY <1>12, Zenon DEF StopBackground, poolVars, fdVars, serveVars, peerVars
<1>13. ASSUME NEW w \in Workers, Wait(w) \/ SpuriousWakeup(w) PROVE TypeOK'
  BY <1>13, ZenonT(40) DEF Wait, SpuriousWakeup, Pool!Sleep, Pool!Exit, Pool!SpuriousWakeup, loopVars,
               fdVars, serveVars, peerVars
<1>14. ASSUME NEW w \in Workers, Take(w) PROVE TypeOK'
  <2>1. Head(tasks) \in Clients /\ Tail(tasks) \in Seq(Clients)
    BY <1>14, Popped, Zenon DEF Take, Pool!Take
  <2> QED BY <1>14, <2>1, Zenon DEF Take, Pool!Take, Move, loopVars, fdVars, peerVars
<1>15. ASSUME NEW w \in Workers, Register(w) PROVE TypeOK'
  <2>1. fd[job[w]] \in Descriptors
    BY <1>15, ZenonT(40) DEF Register, At, HoldersOpen, Held, Served
  <2> QED BY <1>15, <2>1, ZenonT(40) DEF Register, At, Move, poolVars, loopVars, peerVars
<1>16. ASSUME NEW w \in Workers,
              TestRunning(w) \/ RecvEnds(w) \/ EndOfLines(w) \/ SendDone(w) \/ SendFails(w)
       PROVE  TypeOK'
  <2>1. \E x \in {"while", "recv", "execute", "refuse", "leave"} :
            serve' = [serve EXCEPT ![w] = x]
    BY <1>16, Zenon DEF TestRunning, RecvEnds, EndOfLines, SendDone, SendFails, Move
  <2>2. UNCHANGED <<poolVars, loopVars, fdVars, lines, peerVars>>
    BY <1>16, Zenon DEF TestRunning, RecvEnds, EndOfLines, SendDone, SendFails
  <2> QED BY <2>1, <2>2 DEF poolVars, loopVars, fdVars, peerVars
<1>17. ASSUME NEW w \in Workers, RecvData(w) \/ Execute(w) PROVE TypeOK'
  <2>1. \E x \in {"execute", "send"} : serve' = [serve EXCEPT ![w] = x]
    BY <1>17, Zenon DEF RecvData, Execute, Move
  <2>2. \E n \in 0..MaxLines : lines' = [lines EXCEPT ![w] = n]
    <3>1. lines[w] \in 0..MaxLines /\ (lines[w] > 0 => lines[w] - 1 \in 0..MaxLines)
      OBVIOUS
    <3> QED BY <1>17, <3>1, Zenon DEF RecvData, Execute
  <2>3. UNCHANGED <<poolVars, loopVars, fdVars, peerVars>>
    BY <1>17, Zenon DEF RecvData, Execute
  <2> QED BY <2>1, <2>2, <2>3 DEF poolVars, loopVars, fdVars, peerVars
<1>18. ASSUME NEW w \in Workers, Leave(w) PROVE TypeOK'
  <2>1. 0 \in 0..MaxLines /\ exceptions' = exceptions
    BY <1>18 DEF Leave
  <2>2. /\ lines' \in [Workers -> 0..MaxLines] /\ owner' \in [Descriptors -> Clients \cup {Nobody}]
        /\ active' \in SUBSET Descriptors /\ fd' = fd
    BY <1>18, <2>1, ZenonT(40) DEF Leave, Close
  <2> QED BY <1>18, <2>1, <2>2, Zenon DEF Leave, Pool!Finish, Move, loopVars, peerVars
<1>19. ASSUME NEW w \in Workers, Throw(w) PROVE TypeOK'
  BY <1>19 DEF Throw, Pool!Finish, Move, loopVars, fdVars, peerVars
<1> QED
  BY <1>1, <1>2, <1>3, <1>4, <1>5, <1>6, <1>7, <1>8, <1>9, <1>10, <1>11, <1>12, <1>13,
     <1>14, <1>15, <1>16, <1>17, <1>18, <1>19, Zenon DEF Next, AcceptLoop, ServeStep

-----------------------------------------------------------------------------
(* Connections and descriptors.                                            *)

Places == OnePlace /\ OwnersTrue /\ HoldersOpen /\ ActiveOpen /\ NoneLeaked

RunsOn(w) == worker[w] = "running"

\* A step that moves no connection, closes no descriptor and opens none.
LEMMA QuietStep ==
    ASSUME Inv, UNCHANGED <<tasks, job, clientFd, owner, fd, active, exceptions>>,
           \A w \in Workers : RunsOn(w)' <=> RunsOn(w), Outside' \subseteq Outside,
           \A c \in backlog' : peer'[c] # "away"
    PROVE  Places'
<1>1. Queued' = Queued
  BY Zenon DEF Queued
<1>2. Served' = Served
  BY Zenon DEF Served, RunsOn
<1>3. Held' = Held
  BY <1>1, <1>2, Zenon DEF Held
<1>4. OnePlace'
  BY <1>1, <1>3, Zenon DEF Inv, OnePlace, RunsOn, Distinct
<1>5. OwnersTrue' /\ HoldersOpen' /\ ActiveOpen' /\ NoneLeaked'
  BY <1>1, <1>3, Zenon DEF Inv, OwnersTrue, HoldersOpen, ActiveOpen, NoneLeaked
<1> QED
  BY <1>4, <1>5, Zenon DEF Places

\* accept gives a connection from the backlog a free descriptor.
LEMMA AcceptStep ==
    ASSUME Inv, Accept
    PROVE  Places'
<1> USE ServerAssumption
<1>1. PICK c \in backlog, d \in Free :
          /\ backlog' = backlog \ {c} /\ owner' = [owner EXCEPT ![d] = c]
          /\ fd' = [fd EXCEPT ![c] = d] /\ clientFd' = c
  BY ZenonT(40) DEF Accept, Oldest
<1>2. UNCHANGED <<tasks, worker, job, exceptions, active, peer>>
  BY Zenon DEF Accept, poolVars
<1>3. /\ c \in Clients /\ d \in Descriptors /\ owner[d] = Nobody /\ clientFd = Nobody
      /\ c # Nobody /\ peer[c] # "away"
  BY <1>1, <1>2 DEF Inv, TypeOK, Free, Accept, LoopAgrees, OnePlace
<1>4. Queued' = Queued /\ Served' = Served /\ Held = Served \cup Queued /\ Held' = Held \cup {c}
  BY <1>1, <1>2, <1>3, Zenon DEF Queued, Served, Held
<1>5. Outside' \subseteq Outside \ {c} /\ c \in Outside
  BY <1>1, <1>2, <1>3, Zenon DEF Outside
<1>6. c \notin Held /\ Held \in SUBSET Clients
  <2>1. c \notin Held
    BY <1>5, Zenon DEF Inv, OnePlace
  <2>2. Queued \in SUBSET Clients
    BY DEF Inv, TypeOK, Queued
  <2>3. Served \in SUBSET Clients
    BY Zenon DEF Inv, OnePlace, Served
  <2> QED BY <1>4, <2>1, <2>2, <2>3, Zenon
<1>7. OnePlace'
  <2>1. ASSUME NEW w \in Workers, worker[w] = "running"
        PROVE  job[w] \in Clients \ (Queued \cup {c})
    <3>1. job[w] \in Served
      BY <2>1, Zenon DEF Served
    <3> QED BY <1>4, <1>6, <2>1, <3>1, Zenon DEF Inv, OnePlace
  <2>2. Outside' \cap Held' = {}
    BY <1>4, <1>5, Zenon DEF Inv, OnePlace
  <2>3. c \notin Queued
    BY <1>4, <1>6, Zenon
  <2> QED BY <1>1, <1>2, <1>4, <2>1, <2>2, <2>3, Zenon DEF Inv, OnePlace, Distinct
<1>8. /\ fd'[c] = d /\ \A x \in Clients \ {c} : fd'[x] = fd[x]
      /\ owner'[d] = c /\ \A x \in Descriptors \ {d} : owner'[x] = owner[x]
  BY <1>1, <1>3, ZenonT(40) DEF Inv, TypeOK
<1>9. OwnersTrue'
  <2> SUFFICES ASSUME NEW x \in Descriptors, owner'[x] # Nobody
               PROVE  fd'[owner'[x]] = x /\ owner'[x] \notin Outside'
    BY Zenon DEF OwnersTrue
  <2>1. CASE x = d
    BY <1>5, <1>8, <2>1, Zenon
  <2>2. CASE x # d
    <3>1. owner'[x] = owner[x] /\ owner[x] \in Clients /\ fd[owner[x]] = x /\ owner[x] \notin Outside
      BY <1>8, <2>2 DEF Inv, TypeOK, OwnersTrue
    <3> QED BY <1>5, <1>8, <3>1, ZenonT(40)
  <2> QED BY <2>1, <2>2, Zenon
<1>10. HoldersOpen'
  <2> SUFFICES ASSUME NEW y \in Held' PROVE fd'[y] \in Descriptors /\ owner'[fd'[y]] = y
    BY Zenon DEF HoldersOpen
  <2>1. CASE y = c
    BY <1>3, <1>8, <2>1, Zenon
  <2>2. CASE y # c
    <3>1. y \in Held /\ y \in Clients
      BY <1>4, <1>6, <2>2, Zenon
    <3>2. fd[y] \in Descriptors /\ owner[fd[y]] = y /\ fd'[y] = fd[y]
      BY <1>8, <2>2, <3>1, Zenon DEF Inv, HoldersOpen
    <3> QED BY <1>3, <1>8, <3>1, <3>2, Zenon
  <2> QED BY <2>1, <2>2, Zenon
<1>11. ActiveOpen'
  <2> SUFFICES ASSUME NEW x \in active PROVE owner'[x] # Nobody /\ owner'[x] \notin Queued' \cup {clientFd'}
    BY <1>2, Zenon DEF ActiveOpen
  <2>1. x \in Descriptors /\ owner[x] # Nobody /\ owner[x] \notin Queued /\ owner[x] \notin Outside
    BY Zenon DEF Inv, TypeOK, ActiveOpen, OwnersTrue
  <2> QED BY <1>1, <1>3, <1>4, <1>5, <1>8, <2>1
<1>12. NoneLeaked'
  <2> SUFFICES ASSUME exceptions = 0, NEW x \in Descriptors, owner'[x] # Nobody PROVE owner'[x] \in Held'
    BY <1>2, Zenon DEF NoneLeaked
  <2> QED BY <1>4, <1>8, Zenon DEF Inv, NoneLeaked
<1> QED
  BY <1>7, <1>9, <1>10, <1>11, <1>12, Zenon DEF Places

\* Held connections are connections.
LEMMA HeldTyped ==
    ASSUME Inv
    PROVE  Held \in SUBSET Clients /\ Queued \in SUBSET Held /\ Served \in SUBSET Held
<1>1. Queued \in SUBSET Clients
  BY DEF Inv, TypeOK, Queued
<1>2. Served \in SUBSET Clients
  BY Zenon DEF Inv, OnePlace, Served
<1> QED
  BY <1>1, <1>2, Zenon DEF Held, Inv, TypeOK

\* trySubmit moves the accepted connection into the queue.
LEMMA SubmitStep ==
    ASSUME Inv, Submit
    PROVE  Places'
<1> USE ServerAssumption
<1> DEFINE c == clientFd
<1>1. /\ c \in Clients /\ c # Nobody /\ tasks' = Append(tasks, c) /\ clientFd' = Nobody
      /\ UNCHANGED <<worker, job, exceptions, owner, fd, active, peer, backlog>>
  BY Zenon DEF Submit, Pool!TrySubmit, Inv, TypeOK, LoopAgrees, fdVars, peerVars
<1>2. Queued = Elems(tasks) /\ Queued' = Elems(tasks')
  BY Zenon DEF Queued, Elems
<1>3. c \notin Queued /\ Distinct(tasks)
  BY Zenon DEF Inv, OnePlace
<1>4. Queued' = Queued \cup {c} /\ Distinct(tasks')
  BY <1>1, <1>2, <1>3, Pushed DEF Inv, TypeOK
<1>5. Served' = Served
  BY <1>1, Zenon DEF Served
<1>6. Held' = Held
  BY <1>1, <1>4, <1>5, Zenon DEF Held
<1>7. Outside' = Outside
  BY <1>1, Zenon DEF Outside
<1>8. OnePlace'
  <2>1. Nobody \notin Queued'
    BY <1>1, <1>4, HeldTyped, Zenon
  <2>2. ASSUME NEW w \in Workers, worker[w] = "running"
        PROVE  job[w] \in Clients \ (Queued' \cup {Nobody})
    BY <1>4, <2>2, Zenon DEF Inv, OnePlace
  <2> QED BY <1>1, <1>4, <1>6, <1>7, <2>1, <2>2, Zenon DEF Inv, OnePlace
<1>9. OwnersTrue' /\ HoldersOpen' /\ NoneLeaked'
  BY <1>1, <1>6, <1>7, Zenon DEF Inv, OwnersTrue, HoldersOpen, NoneLeaked
<1>10. ActiveOpen'
  BY <1>1, <1>4, Zenon DEF Inv, ActiveOpen
<1> QED
  BY <1>8, <1>9, <1>10, Zenon DEF Places

\* A refused connection is closed.
LEMMA BusyStep ==
    ASSUME Inv, Busy
    PROVE  Places'
<1> USE ServerAssumption
<1> DEFINE c == clientFd
<1>1. /\ c \in Clients /\ c # Nobody /\ clientFd' = Nobody
      /\ owner' = [owner EXCEPT ![fd[c]] = Nobody]
      /\ UNCHANGED <<tasks, worker, job, exceptions, fd, active, peer, backlog>>
  BY Zenon DEF Busy, Pool!Refuse, Pool!vars, Close, Inv, TypeOK, LoopAgrees, peerVars
<1>2. c \in Held /\ fd[c] \in Descriptors /\ owner[fd[c]] = c
  BY <1>1, Zenon DEF Inv, HoldersOpen, Held
<1>3. owner'[fd[c]] = Nobody /\ \A x \in Descriptors \ {fd[c]} : owner'[x] = owner[x]
  BY <1>1, <1>2, Zenon DEF Inv, TypeOK
<1>4. Queued' = Queued /\ Served' = Served /\ Outside' = Outside
  BY <1>1, Zenon DEF Queued, Served, Outside
<1>5. c \notin Queued /\ c \notin Served
  BY Zenon DEF Inv, OnePlace, Served
<1>6. Held' = Held \ {c}
  BY <1>1, <1>4, <1>5, Zenon DEF Held
<1>7. OnePlace'
  <2>1. Nobody \notin Queued' /\ Nobody \notin Served'
    BY <1>4, HeldTyped, Zenon
  <2>2. ASSUME NEW w \in Workers, worker[w] = "running"
        PROVE  job[w] \in Clients \ (Queued' \cup {Nobody})
    BY <1>4, <2>2, Zenon DEF Inv, OnePlace
  <2> QED BY <1>1, <1>4, <1>6, <2>1, <2>2, Zenon DEF Inv, OnePlace, Distinct
<1>8. OwnersTrue' /\ NoneLeaked'
  BY <1>1, <1>2, <1>3, <1>4, <1>6 DEF Inv, OwnersTrue, NoneLeaked
<1>9. HoldersOpen'
  <2> SUFFICES ASSUME NEW y \in Held, y # c PROVE fd[y] \in Descriptors /\ owner'[fd[y]] = y
    BY <1>1, <1>6, Zenon DEF HoldersOpen
  <2>1. fd[y] \in Descriptors /\ owner[fd[y]] = y
    BY Zenon DEF Inv, HoldersOpen
  <2> QED BY <1>2, <1>3, <2>1, Zenon
<1>10. ActiveOpen'
  <2> SUFFICES ASSUME NEW x \in active
               PROVE  owner'[x] # Nobody /\ owner'[x] \notin Queued \cup {Nobody}
    BY <1>1, <1>4, Zenon DEF ActiveOpen
  <2>1. x \in Descriptors /\ owner[x] # Nobody /\ owner[x] \notin Queued \cup {c}
    BY Zenon DEF Inv, TypeOK, ActiveOpen
  <2> QED BY <1>2, <1>3, <2>1, Zenon
<1> QED
  BY <1>7, <1>8, <1>9, <1>10, Zenon DEF Places

\* A worker takes the connection at the head of the queue.
LEMMA TakeStep ==
    ASSUME Inv, NEW w \in Workers, Take(w)
    PROVE  Places'
<1> USE ServerAssumption
<1> DEFINE c == Head(tasks)
<1>1. /\ tasks # <<>> /\ tasks' = Tail(tasks) /\ worker[w] = "ready"
      /\ worker' = [worker EXCEPT ![w] = "running"] /\ job' = [job EXCEPT ![w] = c]
      /\ UNCHANGED <<clientFd, exceptions, owner, fd, active, peer, backlog>>
  BY Zenon DEF Take, Pool!Take, loopVars, fdVars, peerVars
<1>2. Queued = Elems(tasks) /\ Queued' = Elems(tasks')
  BY Zenon DEF Queued, Elems
<1>3. Distinct(tasks) /\ tasks \in Seq(Clients)
  BY Zenon DEF Inv, OnePlace, TypeOK
<1>4. /\ c \in Clients /\ c \in Queued /\ Queued' = Queued \ {c} /\ Distinct(tasks')
  BY <1>1, <1>2, <1>3, Popped, Zenon
<1> HIDE DEF c
<1>5. /\ job'[w] = c /\ worker'[w] = "running"
      /\ \A v \in Workers \ {w} : job'[v] = job[v] /\ worker'[v] = worker[v]
  BY <1>1, Zenon DEF Inv, TypeOK
<1>6. Served' = Served \cup {c}
  BY <1>1, <1>5 DEF Served
<1>7. Held' = Held
  BY <1>1, <1>4, <1>6, Zenon DEF Held
<1>8. Outside' = Outside
  BY <1>1, Zenon DEF Outside
<1>9. OnePlace'
  <2>1. ASSUME NEW v \in Workers, worker'[v] = "running"
        PROVE  /\ job'[v] \in Clients \ (Queued' \cup {clientFd})
               /\ \A u \in Workers : worker'[u] = "running" /\ job'[u] = job'[v] => u = v
    <3>1. clientFd \notin Queued
      BY Zenon DEF Inv, OnePlace
    <3>2. \A u \in Workers \ {w} : worker[u] = "running" => job[u] \notin Queued
      BY Zenon DEF Inv, OnePlace
    <3>3. CASE v = w
      BY <1>4, <1>5, <3>1, <3>2, <3>3, Zenon
    <3>4. CASE v # w
      BY <1>4, <1>5, <2>1, <3>2, <3>4, ZenonT(40) DEF Inv, OnePlace
    <3> QED BY <3>3, <3>4, Zenon
  <2> QED BY <1>1, <1>4, <1>7, <1>8, <2>1, Zenon DEF Inv, OnePlace
<1>10. OwnersTrue' /\ HoldersOpen' /\ NoneLeaked'
  BY <1>1, <1>7, <1>8, Zenon DEF Inv, OwnersTrue, HoldersOpen, NoneLeaked
<1>11. ActiveOpen'
  BY <1>1, <1>4, Zenon DEF Inv, ActiveOpen
<1> QED
  BY <1>9, <1>10, <1>11, Zenon DEF Places

\* The connection a worker serves.
LEMMA ServedFacts ==
    ASSUME Inv, NEW w \in Workers, worker[w] = "running"
    PROVE  /\ job[w] \in Clients \ (Queued \cup {clientFd}) /\ job[w] \in Held
           /\ job[w] \in Served
           /\ fd[job[w]] \in Descriptors /\ owner[fd[job[w]]] = job[w]
<1>1. job[w] \in Clients \ (Queued \cup {clientFd}) /\ job[w] \in Served
  BY Zenon DEF Inv, OnePlace, Served
<1> QED
  BY <1>1, HeldTyped, Zenon DEF Inv, HoldersOpen

\* serveConnection registers the descriptor of the connection it serves.
LEMMA RegisterStep ==
    ASSUME Inv, NEW w \in Workers, Register(w)
    PROVE  Places'
<1> USE ServerAssumption
<1>1. /\ worker[w] = "running" /\ active' = active \cup {fd[job[w]]}
      /\ UNCHANGED <<tasks, worker, job, clientFd, exceptions, owner, fd, peer, backlog>>
  BY Zenon DEF Register, At, poolVars, loopVars, peerVars
<1>2. Queued' = Queued /\ Served' = Served /\ Outside' = Outside /\ Held' = Held
  BY <1>1, Zenon DEF Queued, Served, Outside, Held
<1>3. OnePlace' /\ OwnersTrue' /\ HoldersOpen' /\ NoneLeaked'
  BY <1>1, <1>2, ZenonT(40) DEF Inv, OnePlace, Distinct, OwnersTrue, HoldersOpen, NoneLeaked
<1>4. ActiveOpen'
  BY <1>1, <1>2, ServedFacts DEF Inv, ActiveOpen
<1> QED
  BY <1>3, <1>4, Zenon DEF Places

\* A worker whose task ends no longer serves its connection, and nobody else does.
LEMMA EndsServing ==
    ASSUME Inv, NEW w \in Workers, worker[w] = "running",
           worker' = [worker EXCEPT ![w] = "ready"], job' = [job EXCEPT ![w] = NoTask],
           UNCHANGED <<tasks, clientFd, peer, backlog>>
    PROVE  /\ Queued' = Queued /\ Outside' = Outside /\ Held' = Held \ {job[w]} /\ OnePlace'
<1> USE ServerAssumption
<1> DEFINE c == job[w]
<1>1. c \in Clients \ (Queued \cup {clientFd}) /\ c \in Held
  BY ServedFacts, Zenon
<1>2. /\ worker'[w] = "ready"
      /\ \A v \in Workers \ {w} : job'[v] = job[v] /\ worker'[v] = worker[v]
  BY Zenon DEF Inv, TypeOK
<1>3. Queued' = Queued /\ Outside' = Outside
  BY Zenon DEF Queued, Outside
<1>4. Served' = Served \ {c}
  <2>1. \A v \in Workers : worker'[v] = "running" => v # w /\ worker[v] = "running" /\ job'[v] = job[v]
    BY <1>2, Zenon
  <2>2. \A v \in Workers \ {w} : worker[v] = "running" => job[v] # c
    BY Zenon DEF Inv, OnePlace
  <2> QED BY <1>2, <2>1, <2>2 DEF Served
<1>5. Held' = Held \ {c}
  BY <1>1, <1>3, <1>4, Zenon DEF Held
<1>6. \A v \in Workers : worker'[v] = "running" =>
          v # w /\ worker[v] = "running" /\ job'[v] = job[v]
  BY <1>2, Zenon
<1>7. OnePlace'
  BY <1>3, <1>5, <1>6 DEF Inv, OnePlace, Distinct
<1> QED
  BY <1>3, <1>5, <1>7, Zenon

\* serveConnection unregisters and closes its descriptor.
LEMMA LeaveStep ==
    ASSUME Inv, NEW w \in Workers, Leave(w)
    PROVE  Places'
<1> USE ServerAssumption
<1> DEFINE c == job[w]
<1>1. /\ worker[w] = "running" /\ active' = active \ {fd[c]}
      /\ owner' = [owner EXCEPT ![fd[c]] = Nobody]
      /\ worker' = [worker EXCEPT ![w] = "ready"] /\ job' = [job EXCEPT ![w] = NoTask]
      /\ UNCHANGED <<tasks, clientFd, exceptions, fd, peer, backlog>>
  BY Zenon DEF Leave, Pool!Finish, Close, At, loopVars, peerVars
<1>2. Queued' = Queued /\ Outside' = Outside /\ Held' = Held \ {c} /\ OnePlace'
  BY <1>1, EndsServing, ZenonT(40)
<1>3. c \in Clients /\ fd[c] \in Descriptors /\ owner[fd[c]] = c
  BY <1>1, ServedFacts, Zenon
<1> HIDE DEF c
<1>4. owner'[fd[c]] = Nobody /\ \A x \in Descriptors \ {fd[c]} : owner'[x] = owner[x]
  BY <1>1, <1>3, Zenon DEF Inv, TypeOK
<1>5. OwnersTrue' /\ NoneLeaked'
  BY <1>1, <1>2, <1>3, <1>4 DEF Inv, OwnersTrue, NoneLeaked
<1>6. HoldersOpen'
  <2> SUFFICES ASSUME NEW y \in Held, y # c PROVE fd[y] \in Descriptors /\ owner'[fd[y]] = y
    BY <1>1, <1>2, Zenon DEF HoldersOpen
  <2>1. fd[y] \in Descriptors /\ owner[fd[y]] = y
    BY Zenon DEF Inv, HoldersOpen
  <2> QED BY <1>3, <1>4, <2>1, Zenon
<1>7. ActiveOpen'
  <2> SUFFICES ASSUME NEW x \in active, x # fd[c]
               PROVE  owner'[x] # Nobody /\ owner'[x] \notin Queued \cup {clientFd}
    BY <1>1, <1>2, Zenon DEF ActiveOpen
  <2>1. x \in Descriptors /\ owner[x] # Nobody /\ owner[x] \notin Queued \cup {clientFd}
    BY Zenon DEF Inv, TypeOK, ActiveOpen
  <2> QED BY <1>4, <2>1, Zenon
<1> QED
  BY <1>2, <1>5, <1>6, <1>7, Zenon DEF Places

\* An exception leaves the descriptor open, and registered if it was.
LEMMA ThrowStep ==
    ASSUME Inv, NEW w \in Workers, Throw(w)
    PROVE  Places'
<1> DEFINE c == job[w]
<1>1. /\ worker[w] = "running" /\ exceptions' = exceptions + 1
      /\ worker' = [worker EXCEPT ![w] = "ready"] /\ job' = [job EXCEPT ![w] = NoTask]
      /\ UNCHANGED <<tasks, clientFd, owner, fd, active, peer, backlog>>
  BY Zenon DEF Throw, Pool!Finish, At, loopVars, fdVars, peerVars
<1>2. Queued' = Queued /\ Outside' = Outside /\ Held' = Held \ {c} /\ OnePlace'
  BY <1>1, EndsServing, ZenonT(40)
<1>3. exceptions' # 0
  BY <1>1 DEF Inv, TypeOK
<1>4. OwnersTrue' /\ HoldersOpen' /\ ActiveOpen' /\ NoneLeaked'
  BY <1>1, <1>2, <1>3, Zenon DEF Inv, OwnersTrue, HoldersOpen, ActiveOpen, NoneLeaked
<1> QED
  BY <1>2, <1>4, Zenon DEF Places

\* Every step keeps every descriptor with its connection.
LEMMA PlacesStep ==
    ASSUME Inv, [Next]_vars
    PROVE  Places'
<1>1. ASSUME UNCHANGED <<tasks, job, worker, clientFd, owner, fd, active, exceptions, peer, backlog>>
      PROVE  Places'
  BY <1>1, QuietStep, Zenon DEF RunsOn, Outside, Inv, OnePlace
<1>2. ASSUME UNCHANGED <<poolVars, fdVars, clientFd, peerVars>> PROVE Places'
  BY <1>1, <1>2, Zenon DEF poolVars, fdVars, peerVars
<1>3. CASE UNCHANGED vars
  BY <1>2, <1>3, Zenon DEF vars, loopVars
<1>4. ASSUME NEW c \in Clients, Connect(c) \/ HangUp(c) PROVE Places'
  <2>1. UNCHANGED <<tasks, job, worker, clientFd, owner, fd, active, exceptions>>
    BY <1>4, Zenon DEF Connect, HangUp, poolVars, fdVars, loopVars
  <2>2. /\ peer'[c] # "away" /\ \A x \in Clients \ {c} : peer'[x] = peer[x]
        /\ \/ backlog' = backlog
           \/ peer[c] = "away" /\ backlog' = backlog \cup {c}
    <3>1. \E x \in {"up", "down"} : peer' = [peer EXCEPT ![c] = x]
      BY <1>4, Zenon DEF Connect, HangUp
    <3> QED BY <1>4, <3>1, Zenon DEF Connect, HangUp, Inv, TypeOK
  <2>3. Outside' \subseteq Outside /\ \A x \in backlog' : peer'[x] # "away"
    BY <2>2, ZenonT(40) DEF Outside, Inv, OnePlace, TypeOK
  <2> QED BY <2>1, <2>3, QuietStep, Zenon DEF RunsOn
<1>5. CASE StopStores \/ StopWrites \/ Run \/ While \/ Poll \/ PollFails \/ StopServing
  BY <1>2, <1>5, Zenon DEF StopStores, StopWrites, Run, While, Poll, PollFails, StopServing
<1>6. CASE ShutdownActiveConnections \/ StopBackground
  BY <1>1, <1>6, Zenon DEF ShutdownActiveConnections, StopBackground, poolVars, fdVars, peerVars
<1>7. CASE AcceptFails
  <2>1. UNCHANGED <<tasks, job, worker, clientFd, owner, fd, active, exceptions, peer>>
    BY <1>7, Zenon DEF AcceptFails, poolVars, fdVars
  <2>2. backlog' \subseteq backlog
    BY <1>7, Zenon DEF AcceptFails
  <2>3. Outside' \subseteq Outside /\ \A x \in backlog' : peer'[x] # "away"
    BY <2>1, <2>2, Zenon DEF Outside, Inv, OnePlace
  <2> QED BY <2>1, <2>3, QuietStep, Zenon DEF RunsOn
<1>8. ASSUME UNCHANGED <<tasks, job, exceptions, clientFd, fdVars, peerVars>>,
             \A w \in Workers : worker'[w] = "running" <=> worker[w] = "running"
      PROVE  Places'
  <2>1. Outside' = Outside /\ \A x \in backlog' : peer'[x] # "away"
    BY <1>8, Zenon DEF Outside, Inv, OnePlace, peerVars
  <2> QED BY <1>8, <2>1, QuietStep, Zenon DEF RunsOn, fdVars
<1>9. CASE Notify
  <2>1. UNCHANGED <<tasks, job, exceptions, clientFd, fdVars, peerVars>>
    BY <1>9, Zenon DEF Notify, Pool!NotifyOne
  <2>2. \A w \in Workers : worker'[w] = "running" <=> worker[w] = "running"
    BY <1>9, Zenon DEF Notify, Pool!NotifyOne, Pool!Asleep, Inv, TypeOK
  <2> QED BY <1>8, <2>1, <2>2, Zenon
<1>10. CASE ShutdownPool
  <2>1. UNCHANGED <<tasks, job, exceptions, clientFd, fdVars, peerVars>>
    BY <1>10, Zenon DEF ShutdownPool, Pool!Shutdown, Pool!NotifyAll, Pool!JoinAll
  <2>2. \A w \in Workers : worker'[w] = "running" <=> worker[w] = "running"
    BY <1>10, ZenonT(40) DEF ShutdownPool, Pool!Shutdown, Pool!NotifyAll, Pool!JoinAll, Inv, TypeOK
  <2> QED BY <1>8, <2>1, <2>2, Zenon
<1>11. ASSUME NEW w \in Workers, Wait(w) \/ SpuriousWakeup(w) PROVE Places'
  <2>1. UNCHANGED <<tasks, job, exceptions, clientFd, fdVars, peerVars>>
    BY <1>11, Zenon DEF Wait, SpuriousWakeup, Pool!Sleep, Pool!Exit, Pool!SpuriousWakeup, loopVars
  <2>2. \A v \in Workers : worker'[v] = "running" <=> worker[v] = "running"
    BY <1>11, Zenon DEF Wait, SpuriousWakeup, Pool!Sleep, Pool!Exit, Pool!SpuriousWakeup, Inv, TypeOK
  <2> QED BY <1>8, <2>1, <2>2, Zenon
<1>12. ASSUME NEW w \in Workers,
              \/ TestRunning(w) \/ RecvEnds(w) \/ EndOfLines(w) \/ SendDone(w) \/ SendFails(w)
              \/ RecvData(w) \/ Execute(w)
       PROVE  Places'
  <2>1. UNCHANGED <<poolVars, fdVars, clientFd, peerVars>>
    BY <1>12, Zenon DEF TestRunning, RecvEnds, EndOfLines, SendDone, SendFails, RecvData, Execute, loopVars
  <2> QED BY <1>2, <2>1, Zenon
<1> QED
  BY <1>3, <1>4, <1>5, <1>6, <1>7, <1>9, <1>10, <1>11, <1>12, AcceptStep, SubmitStep,
     BusyStep, TakeStep, RegisterStep, LeaveStep, ThrowStep, Zenon DEF Next, AcceptLoop, ServeStep

-----------------------------------------------------------------------------
(* run() and the pool.                                                     *)

\* Every step keeps run(), the queue and the workers in agreement.
LEMMA LoopStep ==
    ASSUME Inv, [Next]_vars
    PROVE  LoopAgrees'
<1> USE ServerAssumption DEF LoopAgrees
<1>1. LoopAgrees /\ TypeOK
  BY Zenon DEF Inv
<1>2. ASSUME UNCHANGED <<clientFd, loop, worker, stopping, tasks, background>> PROVE LoopAgrees'
  BY <1>1, <1>2, Zenon
<1>3. CASE UNCHANGED vars \/ StopStores \/ StopWrites \/ \E c \in Clients : Connect(c) \/ HangUp(c)
  BY <1>2, <1>3, Zenon DEF vars, StopStores, StopWrites, Connect, HangUp, poolVars, loopVars
<1>4. CASE Run \/ While \/ Poll \/ PollFails \/ StopServing \/ AcceptFails \/ ShutdownActiveConnections
  <2>1. /\ loop' \in {"while", "poll", "accept", "break", "interrupt", "shutdown"}
        /\ loop # "submit" /\ UNCHANGED <<clientFd, worker, stopping, tasks>>
    BY <1>4, Zenon DEF Run, While, Poll, PollFails, StopServing, AcceptFails,
                ShutdownActiveConnections, GoTo, poolVars
  <2> QED BY <1>1, <2>1, Zenon
<1>5. CASE Accept
  <2>1. clientFd' \in Clients /\ loop' = "submit" /\ UNCHANGED <<worker, stopping, tasks>>
    BY <1>1, <1>5, Zenon DEF Accept, Oldest, GoTo, poolVars, TypeOK
  <2> QED BY <1>1, <2>1, Zenon
<1>6. CASE Submit
  <2>1. clientFd' = Nobody /\ loop' = "notify" /\ ~stopping /\ UNCHANGED <<worker, stopping>>
    BY <1>6, Zenon DEF Submit, Pool!TrySubmit, GoTo
  <2> QED BY <1>1, <2>1, Zenon
<1>7. CASE Notify
  <2>1. loop = "notify" /\ loop' = "while" /\ UNCHANGED <<clientFd, stopping, tasks>>
    BY <1>7, Zenon DEF Notify, Pool!NotifyOne, GoTo
  <2>2. \A w \in Workers : worker'[w] = "exited" => worker[w] = "exited"
    BY <1>1, <1>7, Zenon DEF Notify, Pool!NotifyOne, Pool!Asleep, TypeOK
  <2> QED BY <1>1, <2>1, <2>2, Zenon
<1>8. CASE Busy
  <2>1. clientFd' = Nobody /\ loop' = "while" /\ UNCHANGED <<worker, stopping, tasks>>
    BY <1>8, Zenon DEF Busy, Pool!Refuse, Pool!vars, GoTo
  <2> QED BY <1>1, <2>1, Zenon
<1>9. CASE ShutdownPool
  <2>1. /\ loop = "shutdown" /\ UNCHANGED <<clientFd, tasks>>
    BY <1>9, Zenon DEF ShutdownPool, Pool!Shutdown, Pool!NotifyAll, Pool!JoinAll
  <2>2. CASE Pool!Shutdown \/ Pool!NotifyAll
    <3>1. loop' = "shutdown" /\ (stopping' = stopping \/ stopping')
      BY <1>9, <2>1, <2>2, Zenon DEF ShutdownPool, Pool!Shutdown, Pool!NotifyAll, Pool!JoinAll
    <3>2. \A w \in Workers : worker'[w] = "exited" => worker[w] = "exited"
      BY <1>1, <2>2 DEF Pool!Shutdown, Pool!NotifyAll, TypeOK
    <3> QED BY <1>1, <2>1, <3>1, <3>2
  <2>3. CASE Pool!JoinAll
    <3>1. /\ loop' \in {"shutdown", "loops"} /\ UNCHANGED <<worker, stopping>>
          /\ \A w \in Workers : worker[w] = "exited"
      BY <1>9, <2>1, <2>3, Zenon DEF ShutdownPool, Pool!JoinAll
    <3> QED BY <1>1, <2>1, <3>1, Zenon
  <2> QED BY <1>9, <2>2, <2>3, Zenon DEF ShutdownPool
<1>10. CASE StopBackground
  BY <1>1, <1>10, Zenon DEF StopBackground, poolVars
<1>11. ASSUME NEW w \in Workers, UNCHANGED <<loopVars, stopping>>, worker[w] # "exited",
              \E x \in {"ready", "asleep", "running"} : worker' = [worker EXCEPT ![w] = x],
              tasks = <<>> => tasks' = <<>>
       PROVE  LoopAgrees'
  <2>1. loop \notin {"loops", "returned"}
    BY <1>1, <1>11, Zenon
  <2>2. \A v \in Workers : worker'[v] = "exited" => worker[v] = "exited"
    BY <1>1, <1>11, Zenon DEF TypeOK
  <2> QED BY <1>1, <1>11, <2>1, <2>2, Zenon DEF loopVars
<1>12. ASSUME NEW w \in Workers, Wait(w) PROVE LoopAgrees'
  <2>1. CASE Pool!Sleep(w)
    BY <1>11, <1>12, <2>1, ZenonT(40) DEF Wait, Pool!Sleep
  <2>2. CASE Pool!Exit(w)
    <3>1. /\ stopping /\ tasks = <<>> /\ UNCHANGED <<loopVars, stopping, tasks>>
          /\ worker' = [worker EXCEPT ![w] = "exited"] /\ worker[w] = "ready"
      BY <1>12, <2>2, Zenon DEF Wait, Pool!Exit
    <3>2. loop \notin {"loops", "returned"}
      BY <1>1, <3>1, Zenon
    <3> QED BY <1>1, <3>1, <3>2, Zenon DEF loopVars
  <2> QED BY <1>12, <2>1, <2>2, Zenon DEF Wait
<1>13. ASSUME NEW w \in Workers, SpuriousWakeup(w) PROVE LoopAgrees'
  BY <1>11, <1>13, ZenonT(40) DEF SpuriousWakeup, Pool!SpuriousWakeup
<1>14. ASSUME NEW w \in Workers, Take(w) PROVE LoopAgrees'
  BY <1>11, <1>14, ZenonT(40) DEF Take, Pool!Take
<1>15. ASSUME NEW w \in Workers, Leave(w) \/ Throw(w) PROVE LoopAgrees'
  BY <1>11, <1>15, Zenon DEF Leave, Throw, Pool!Finish
<1>16. ASSUME NEW w \in Workers,
              \/ TestRunning(w) \/ RecvEnds(w) \/ EndOfLines(w) \/ SendDone(w) \/ SendFails(w)
              \/ RecvData(w) \/ Execute(w) \/ Register(w)
       PROVE  LoopAgrees'
  <2>1. UNCHANGED <<poolVars, loopVars>>
    BY <1>16, Zenon DEF TestRunning, RecvEnds, EndOfLines, SendDone, SendFails, RecvData, Execute, Register
  <2> QED BY <1>2, <2>1, Zenon DEF poolVars, loopVars
<1> QED
  BY <1>3, <1>4, <1>5, <1>6, <1>7, <1>8, <1>9, <1>10, <1>12, <1>13, <1>14, <1>15, <1>16, Zenon
     DEF Next, AcceptLoop, ServeStep

\* A server that has been started holds nothing yet.
LEMMA InitInv ==
    Init => Inv
<1> SUFFICES ASSUME Init PROVE Inv
  BY Zenon
<1> USE ServerAssumption DEF Init, Pool!Init
<1>1. TypeOK
  <2>1. <<>> \in Seq(Clients) /\ 0 \in 0..MaxLines
    OBVIOUS
  <2>2. /\ stopping \in BOOLEAN /\ exceptions \in Nat
        /\ closer \in {"open", "notify", "join", "done"}
        /\ loop \in Pending \cup {"loops", "returned"}
    BY ZenonT(40) DEF Pending
  <2> QED BY <2>1, <2>2, Zenon DEF TypeOK
<1>2. Queued = {} /\ Served = {} /\ Held = {}
  BY DEF Queued, Served, Held
<1>3. OnePlace
  BY <1>2 DEF OnePlace, Distinct, Outside
<1>4. OwnersTrue /\ HoldersOpen /\ ActiveOpen /\ NoneLeaked /\ LoopAgrees
  BY <1>2, Zenon DEF OwnersTrue, HoldersOpen, ActiveOpen, NoneLeaked, LoopAgrees
<1> QED
  BY <1>1, <1>3, <1>4, Zenon DEF Inv

\* Inv holds in every state.
LEMMA Invariance ==
    Spec => []Inv
<1>1. Inv /\ [Next]_vars => Inv'
  BY TypeStep, PlacesStep, LoopStep, Zenon DEF Inv, Places
<1> QED
  BY <1>1, InitInv, PTL DEF Spec

\* Nobody uses or closes a descriptor that was closed and reused: what run(), a queued
\* task and a worker hold is still their own connection's, and shutdownActiveConnections
\* reads only open descriptors of connections a worker took.
THEOREM DescriptorsSafe ==
    Spec => []UsesOwnDescriptor
<1>1. ASSUME Inv PROVE UsesOwnDescriptor
  <2>1. \A c \in Served \cup Queued \cup ({clientFd} \ {Nobody}) : owner[fd[c]] = c
    BY <1>1, Zenon DEF Inv, HoldersOpen, Held
  <2>2. ASSUME NEW d \in active PROVE \E c \in Clients \ Queued : owner[d] = c /\ fd[c] = d
    BY <1>1, Zenon DEF Inv, TypeOK, ActiveOpen, OwnersTrue
  <2> QED BY <2>1, <2>2, Zenon DEF UsesOwnDescriptor
<1> QED
  BY <1>1, Invariance, PTL

\* run() returns only when the workers and the background threads are gone and, if no
\* task threw, every descriptor is closed and none is registered.
THEOREM TeardownComplete ==
    Spec => []QuiescentWhenReturned
<1>1. ASSUME Inv, loop = "returned"
      PROVE  /\ exceptions = 0 => Free = Descriptors /\ active = {}
             /\ \A w \in Workers : worker[w] = "exited"
             /\ ~background
  <2>1. (\A w \in Workers : worker[w] = "exited") /\ ~background /\ clientFd = Nobody
    BY <1>1, Zenon DEF Inv, LoopAgrees
  <2>2. tasks = <<>>
    BY <1>1, <2>1, ServerAssumption, Zenon DEF Inv, LoopAgrees
  <2>3. Held = {}
    BY <2>1, <2>2 DEF Held, Served, Queued
  <2>4. ASSUME exceptions = 0 PROVE Free = Descriptors /\ active = {}
    BY <1>1, <2>3, <2>4, ZenonT(40) DEF Inv, TypeOK, NoneLeaked, ActiveOpen, Free
  <2> QED BY <2>1, <2>4, Zenon
<1>2. Inv => QuiescentWhenReturned
  BY <1>1, Zenon DEF QuiescentWhenReturned
<1> QED
  BY <1>2, Invariance, PTL

-----------------------------------------------------------------------------
(* The server as a user of its pool.                                       *)

\* Every step of the server is a step of the pool or leaves the pool alone.
LEMMA PoolStep ==
    ASSUME Inv, [Next]_vars
    PROVE  [Pool!Next]_(Pool!vars)
<1>1. ASSUME UNCHANGED poolVars PROVE UNCHANGED Pool!vars
  BY <1>1, Zenon DEF poolVars, Pool!vars
<1>2. CASE \/ UNCHANGED vars \/ StopStores \/ StopWrites
           \/ \E c \in Clients : Connect(c) \/ HangUp(c)
  BY <1>1, <1>2, Zenon DEF vars, StopStores, StopWrites, Connect, HangUp
<1>3. CASE \/ Run \/ While \/ Poll \/ PollFails \/ StopServing \/ Accept \/ AcceptFails
           \/ ShutdownActiveConnections \/ StopBackground
  BY <1>1, <1>3, Zenon DEF Run, While, Poll, PollFails, StopServing, Accept, AcceptFails,
                    ShutdownActiveConnections, StopBackground
<1>4. CASE Submit
  <2>1. clientFd \in Clients /\ Pool!TrySubmit("acceptor", clientFd)
    BY <1>4, ServerAssumption, Zenon DEF Submit, Inv, TypeOK, LoopAgrees
  <2> QED BY <2>1, Zenon DEF Pool!Next
<1>5. CASE Notify \/ Busy
  <2>1. Pool!NotifyOne("acceptor") \/ Pool!Refuse("acceptor")
    BY <1>5, Zenon DEF Notify, Busy
  <2> QED BY <2>1, Zenon DEF Pool!Next
<1>6. CASE ShutdownPool
  <2>1. Pool!Shutdown \/ Pool!NotifyAll \/ Pool!JoinAll
    BY <1>6, Zenon DEF ShutdownPool
  <2> QED BY <2>1, Zenon DEF Pool!Next
<1>7. ASSUME NEW w \in Workers,
             \/ Wait(w) \/ SpuriousWakeup(w) \/ Take(w) \/ Leave(w) \/ Throw(w)
      PROVE  Pool!Next
  <2>1. \/ Pool!Sleep(w) \/ Pool!Exit(w) \/ Pool!SpuriousWakeup(w) \/ Pool!Take(w)
        \/ Pool!Finish(w)
    BY <1>7, Zenon DEF Wait, SpuriousWakeup, Take, Leave, Throw
  <2> QED BY <2>1, Zenon DEF Pool!Next, Pool!WorkerStep
<1>8. ASSUME NEW w \in Workers,
             \/ TestRunning(w) \/ RecvEnds(w) \/ EndOfLines(w) \/ SendDone(w) \/ SendFails(w)
             \/ RecvData(w) \/ Execute(w) \/ Register(w)
      PROVE  UNCHANGED Pool!vars
  BY <1>1, <1>8, Zenon DEF TestRunning, RecvEnds, EndOfLines, SendDone, SendFails, RecvData,
                    Execute, Register
<1> QED
  BY <1>2, <1>3, <1>4, <1>5, <1>6, <1>7, <1>8, Zenon DEF Next, AcceptLoop, ServeStep

\* The server uses its pool as ThreadPool allows, so what is proved of the pool (tasks
\* start in order and run once, the cap holds, no wakeup is lost, shutdown drains)
\* holds of the connections the server hands to it.
THEOREM DrivesThePool ==
    Spec => Pool!Spec
<1>1. Init => Pool!Init
  BY Zenon DEF Init
<1>2. Inv /\ [Next]_vars => [Pool!Next]_(Pool!vars)
  BY PoolStep, Zenon
<1> QED
  BY <1>1, <1>2, Invariance, PTL DEF Spec, Pool!Spec

Proved == INSTANCE ThreadPoolProofs WITH Tasks <- Clients, Submitters <- {"acceptor"}

\* What is proved of the pool holds of the connections the server hands to it: they are
\* started in the order run() accepted them, each is served by one worker once, the
\* queue keeps to its cap, no worker sleeps through a connection, and the shutdown at
\* the end of run() leaves none of the accepted connections unserved.
THEOREM ConnectionsServed ==
    Spec => [](/\ Pool!StartedInOrder /\ Pool!QueueBounded /\ Pool!RunExactlyOnce
               /\ Pool!SleepersMissNothing /\ Pool!DrainedWhenJoined)
<1>1. /\ Workers # {} /\ Proved!IsFiniteSet(Workers) /\ Proved!IsFiniteSet({"acceptor"})
      /\ NoTask \notin Clients /\ MaxQueued \in Nat
  <2>1. IsFiniteSet({"acceptor"})
    <3> DEFINE one == <<"acceptor">>
    <3>1. one \in Seq({"acceptor"}) /\ one[1] = "acceptor" /\ 1 \in 1..Len(one)
      OBVIOUS
    <3> HIDE DEF one
    <3> QED
      BY <3>1, ZenonT(40) DEF IsFiniteSet
  <2> QED
    BY <2>1, ServerAssumption, ZenonT(40) DEF IsFiniteSet, Proved!IsFiniteSet
<1>2. /\ Proved!Spec => []Proved!StartedInOrder
      /\ Proved!Spec => []Proved!QueueBounded
      /\ Proved!Spec => []Proved!RunExactlyOnce
      /\ Proved!Spec => []Proved!SleepersMissNothing
      /\ Proved!Spec => []Proved!DrainedWhenJoined
  BY <1>1, Proved!FirstInFirstOut, Proved!CapRespected, Proved!OneWorkerPerTask,
     Proved!NoLostWakeup, Proved!ShutdownDrains, ZenonT(40)
<1>3. Pool!Init => Proved!Init
  BY Zenon DEF Pool!Init, Proved!Init
<1>4. [Pool!Next]_(Pool!vars) => [Proved!Next]_(Proved!vars)
  <2>1. \A s, t : Pool!TrySubmit(s, t) => Proved!TrySubmit(s, t)
    BY Zenon DEF Pool!TrySubmit, Proved!TrySubmit, Pool!Full, Proved!Full,
           Pool!Range, Proved!Range
  <2>2. \A s : (Pool!Refuse(s) => Proved!Refuse(s)) /\ (Pool!NotifyOne(s) => Proved!NotifyOne(s))
    BY Zenon DEF Pool!Refuse, Proved!Refuse, Pool!NotifyOne, Proved!NotifyOne, Pool!Full,
           Proved!Full, Pool!Asleep, Proved!Asleep, Pool!vars, Proved!vars
  <2>3. \A w : Pool!SpuriousWakeup(w) \/ Pool!WorkerStep(w) \/ Pool!Finish(w)
                  => Proved!SpuriousWakeup(w) \/ Proved!WorkerStep(w) \/ Proved!Finish(w)
    BY Zenon DEF Pool!SpuriousWakeup, Proved!SpuriousWakeup, Pool!WorkerStep,
           Proved!WorkerStep, Pool!Sleep, Proved!Sleep, Pool!Take, Proved!Take,
           Pool!Exit, Proved!Exit, Pool!Finish, Proved!Finish
  <2>4. Pool!Shutdown \/ Pool!NotifyAll \/ Pool!JoinAll
           => Proved!Shutdown \/ Proved!NotifyAll \/ Proved!JoinAll
    BY Zenon DEF Pool!Shutdown, Proved!Shutdown, Pool!NotifyAll, Proved!NotifyAll,
           Pool!JoinAll, Proved!JoinAll
  <2> QED
    BY <2>1, <2>2, <2>3, <2>4, ZenonT(40) DEF Pool!Next, Proved!Next, Pool!vars, Proved!vars
<1>5. /\ Proved!StartedInOrder => Pool!StartedInOrder
      /\ Proved!QueueBounded => Pool!QueueBounded
      /\ Proved!RunExactlyOnce => Pool!RunExactlyOnce
      /\ Proved!DrainedWhenJoined => Pool!DrainedWhenJoined
  BY ZenonT(40) DEF Pool!StartedInOrder, Proved!StartedInOrder, Pool!QueueBounded,
         Proved!QueueBounded, Pool!RunExactlyOnce, Proved!RunExactlyOnce,
         Pool!DrainedWhenJoined, Proved!DrainedWhenJoined, Pool!Range, Proved!Range,
         Pool!Running, Proved!Running
<1>6. Proved!SleepersMissNothing => Pool!SleepersMissNothing
  BY Zenon DEF Pool!SleepersMissNothing, Proved!SleepersMissNothing, Pool!Cardinality,
         Proved!Cardinality, Pool!Notifying, Proved!Notifying, Pool!Ready,
         Proved!Ready, Pool!Asleep, Proved!Asleep
<1> QED
  BY <1>2, <1>3, <1>4, <1>5, <1>6, DrivesThePool, PTL, ZenonT(40) DEF Proved!Spec, Pool!Spec
=============================================================================
