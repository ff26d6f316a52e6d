-------------------------- MODULE ThreadPoolProofs --------------------------
(***************************************************************************)
(* The safety properties of ThreadPool for any number of workers,          *)
(* submitters and tasks and any queue cap.                                 *)
(***************************************************************************)
EXTENDS ThreadPool, SequenceTheorems, FiniteSetTheorems, TLAPS

\* trySubmit is called once per closure: no task is accepted twice.
AcceptedOnce ==
    \A i, j \in 1..Len(accepted) : accepted[i] = accepted[j] => i = j

\* stopping_ is set by shutdown alone, a worker returns only from a drained and
\* stopping pool, and join returns only once all have.
ExitsDrained ==
    /\ stopping <=> closer # "open"
    /\ \A w \in Workers : worker[w] = "exited" => stopping /\ tasks = <<>>
    /\ closer = "done" => \A w \in Workers : worker[w] = "exited"

\* The inductive invariant.
Inv ==
    /\ TypeOK
    /\ StartedInOrder
    /\ QueueBounded
    /\ AcceptedOnce
    /\ RunExactlyOnce
    /\ ExitsDrained
    /\ SleepersMissNothing

-----------------------------------------------------------------------------
\* What push and pop do to the set of tasks in a sequence.
LEMMA RangeAppend ==
    ASSUME NEW S, NEW s \in Seq(S), NEW e \in S
    PROVE  Range(Append(s, e)) = Range(s) \cup {e}
<1> DEFINE u == <<e>>
<1>1. u \in Seq(S) /\ DOMAIN u = {1} /\ u[1] = e
  OBVIOUS
<1>2. Append(s, e) = s \o u
  BY AppendIsConcat, Zenon
<1> HIDE DEF u
<1>3. Range(u) = {e}
  BY <1>1, Zenon DEF Range
<1>4. Range(s \o u) = Range(s) \cup Range(u)
  BY <1>1, RangeConcatenation
<1> QED
  BY <1>2, <1>3, <1>4, Zenon

\* trySubmit appends to both histories at once, so their relation is kept.
LEMMA PushKeepsOrder ==
    ASSUME NEW s \in Seq(Tasks), NEW q \in Seq(Tasks), NEW e \in Tasks
    PROVE  Append(s \o q, e) = s \o Append(q, e)
<1>1. Append(s \o q, e) = (s \o q) \o <<e>> /\ Append(q, e) = q \o <<e>>
  BY AppendIsConcat, ConcatProperties, Zenon
<1>2. <<e>> \in Seq(Tasks)
  OBVIOUS
<1> QED
  BY <1>1, <1>2, ConcatAssociative

\* workerLoop moves the head of the queue to the end of what was started.
LEMMA PopKeepsOrder ==
    ASSUME NEW S, NEW s \in Seq(S), NEW q \in Seq(S), q # <<>>
    PROVE  s \o q = Append(s, Head(q)) \o Tail(q)
<1>1. /\ Head(q) \in S /\ Tail(q) \in Seq(S) /\ Len(Tail(q)) = Len(q) - 1
      /\ Len(q) \in Nat \ {0}
      /\ \A i \in 1..Len(Tail(q)) : Tail(q)[i] = q[i + 1]
      /\ Head(q) = q[1]
  BY HeadTailProperties, EmptySeq
<1>2. /\ Append(s, Head(q)) \in Seq(S)
      /\ Len(Append(s, Head(q))) = Len(s) + 1
      /\ \A i \in 1..Len(s) : Append(s, Head(q))[i] = s[i]
      /\ Append(s, Head(q))[Len(s) + 1] = Head(q)
  BY <1>1, AppendProperties
<1>3. /\ s \o q \in Seq(S) /\ Len(s \o q) = Len(s) + Len(q)
      /\ \A i \in 1..(Len(s) + Len(q)) :
            (s \o q)[i] = IF i <= Len(s) THEN s[i] ELSE q[i - Len(s)]
  BY ConcatProperties, Zenon
<1> DEFINE a == Append(s, Head(q))
           r == a \o Tail(q)
<1>4. /\ r \in Seq(S) /\ Len(r) = Len(a) + Len(Tail(q))
      /\ \A i \in 1..(Len(a) + Len(Tail(q))) :
            r[i] = IF i <= Len(a) THEN a[i] ELSE Tail(q)[i - Len(a)]
  BY <1>1, <1>2, ConcatProperties, ZenonT(40)
<1>5. Len(s) \in Nat /\ Len(q) \in Nat
  OBVIOUS
<1>6. Len(r) = Len(s \o q)
  BY <1>1, <1>2, <1>3, <1>4, <1>5
<1>7. \A i \in 1..Len(s \o q) : (s \o q)[i] = r[i]
  <2> SUFFICES ASSUME NEW i \in 1..(Len(s) + Len(q))
               PROVE  (s \o q)[i] = r[i]
    BY <1>3, Zenon
  <2>1. CASE i <= Len(s)
    BY <2>1, <1>1, <1>2, <1>3, <1>4, <1>5
  <2>2. CASE i = Len(s) + 1
    BY <2>2, <1>1, <1>2, <1>3, <1>4, <1>5
  <2>3. CASE i > Len(s) + 1
    <3>1. r[i] = Tail(q)[i - (Len(s) + 1)]
      BY <2>3, <1>1, <1>2, <1>4, <1>5
    <3>2. i - (Len(s) + 1) \in 1..Len(Tail(q))
      BY <2>3, <1>1, <1>5
    <3>3. Tail(q)[i - (Len(s) + 1)] = q[i - Len(s)]
      BY <3>2, <1>1, <1>5
    <3> QED
      BY <3>1, <3>3, <2>3, <1>3, <1>5
  <2> QED
    BY <2>1, <2>2, <2>3, <1>5
<1> HIDE DEF r
<1>8. s \o q = r
  BY <1>3, <1>4, <1>6, <1>7, SeqEqual, Zenon
<1> QED
  BY <1>8, Zenon DEF r

\* The task a worker is about to pop has not been started before.
LEMMA HeadIsFresh ==
    ASSUME TypeOK, StartedInOrder, AcceptedOnce, tasks # <<>>
    PROVE  Head(tasks) \in Tasks /\ Head(tasks) \notin Range(started)
<1> USE DEF TypeOK
<1>1. /\ Head(tasks) \in Tasks /\ Head(tasks) = tasks[1]
      /\ Len(tasks) \in Nat \ {0} /\ Len(started) \in Nat
  BY HeadTailProperties, EmptySeq
<1>2. /\ Len(accepted) = Len(started) + Len(tasks)
      /\ \A i \in 1..(Len(started) + Len(tasks)) :
           accepted[i] = IF i <= Len(started) THEN started[i] ELSE tasks[i - Len(started)]
  BY ConcatProperties DEF StartedInOrder
<1>3. accepted[Len(started) + 1] = Head(tasks)
  <2>1. Len(started) + 1 \in 1..(Len(started) + Len(tasks))
    BY <1>1
  <2>2. ~(Len(started) + 1 <= Len(started)) /\ (Len(started) + 1) - Len(started) = 1
    BY <1>1
  <2>3. accepted[Len(started) + 1] = tasks[(Len(started) + 1) - Len(started)]
    BY <2>1, <2>2, <1>2, Zenon
  <2> QED
    BY <2>2, <2>3, <1>1, Zenon
<1>4. \A i \in 1..Len(started) : started[i] # Head(tasks)
  BY <1>1, <1>2, <1>3 DEF AcceptedOnce
<1> QED
  BY <1>1, <1>4 DEF Range

\* The threads on their way to the queue can be counted.
LEMMA Countable ==
    /\ IsFiniteSet(Ready) /\ Cardinality(Ready) \in Nat
    /\ IsFiniteSet(Notifying) /\ Cardinality(Notifying) \in Nat
<1>1. Ready \in SUBSET Workers /\ Notifying \in SUBSET Submitters
  BY Zenon DEF Ready, Notifying
<1>2. IsFiniteSet(Ready) /\ IsFiniteSet(Notifying)
  BY <1>1, FS_Subset, WorkersAssumption, SubmittersAssumption, Zenon
<1> QED
  BY <1>2, FS_CardinalityType, Zenon

-----------------------------------------------------------------------------
\* The constructor's state: nothing queued, nothing run, every worker ready.
LEMMA InitInv == Init => Inv
<1> SUFFICES ASSUME Init PROVE Inv
  BY Zenon
<1> USE DEF Init
<1>1. TypeOK
  <2>1. <<>> \in Seq(Tasks)
    BY EmptySeq, Zenon
  <2>2. \A w \in Workers : worker[w] # "running" /\ job[w] \notin Tasks
    BY TasksAssumption, Zenon
  <2> QED
    BY <2>1, <2>2, Zenon DEF TypeOK
<1>2. StartedInOrder
  BY DEF StartedInOrder
<1>3. QueueBounded
  BY MaxQueuedAssumption DEF QueueBounded
<1>4. AcceptedOnce
  BY DEF AcceptedOnce
<1>5. RunExactlyOnce
  <2>1. Range(started) = {}
    <3>1. started \in Seq(Tasks) /\ Len(started) = 0
      BY EmptySeq, Zenon
    <3> QED
      BY <3>1 DEF Range
  <2>2. Running = {}
    BY Zenon DEF Running
  <2> QED
    BY <2>1, <2>2, Zenon DEF RunExactlyOnce
<1>6. ExitsDrained
  BY Zenon DEF ExitsDrained
<1>7. SleepersMissNothing
  BY Zenon DEF SleepersMissNothing, Asleep
<1> QED
  BY <1>1, <1>2, <1>3, <1>4, <1>5, <1>6, <1>7, Zenon DEF Inv

\* Every operation keeps the types; the end of a task needs to know that the task
\* was one.
LEMMA TypeStep == TypeOK /\ RunExactlyOnce /\ [Next]_vars => TypeOK'
<1> SUFFICES ASSUME TypeOK, RunExactlyOnce, [Next]_vars PROVE TypeOK'
  BY Zenon
<1> USE DEF TypeOK
<1>1. ASSUME NEW s \in Submitters, NEW t \in Tasks, TrySubmit(s, t) PROVE TypeOK'
  BY <1>1, AppendProperties, Zenon DEF TrySubmit
<1>2. ASSUME NEW s \in Submitters, Refuse(s) PROVE TypeOK'
  BY <1>2, Zenon DEF Refuse, vars
<1>3. ASSUME NEW s \in Submitters, NotifyOne(s) PROVE TypeOK'
  BY <1>3, Zenon DEF NotifyOne, Asleep
<1>4. ASSUME NEW w \in Workers, SpuriousWakeup(w) PROVE TypeOK'
  BY <1>4, Zenon DEF SpuriousWakeup
<1>5. ASSUME NEW w \in Workers, Sleep(w) PROVE TypeOK'
  BY <1>5, Zenon DEF Sleep
<1>6. ASSUME NEW w \in Workers, Take(w) PROVE TypeOK'
  BY <1>6, HeadTailProperties, AppendProperties, Zenon DEF Take
<1>7. ASSUME NEW w \in Workers, Exit(w) PROVE TypeOK'
  BY <1>7, Zenon DEF Exit
<1>8. ASSUME NEW w \in Workers, Finish(w) PROVE TypeOK'
  BY <1>8, TasksAssumption DEF Finish, RunExactlyOnce, Running
<1>9. CASE Shutdown
  BY <1>9, Zenon DEF Shutdown
<1>10. CASE NotifyAll
  BY <1>10, Zenon DEF NotifyAll
<1>11. CASE JoinAll
  BY <1>11, Zenon DEF JoinAll
<1>12. CASE UNCHANGED vars
  BY <1>12, Zenon DEF vars
<1> QED
  BY <1>1, <1>2, <1>3, <1>4, <1>5, <1>6, <1>7, <1>8, <1>9, <1>10, <1>11, <1>12, ZenonT(40)
     DEF Next, WorkerStep

\* Only trySubmit and the pop touch the three sequences.
LEMMA QueueStep ==
    TypeOK /\ StartedInOrder /\ QueueBounded /\ AcceptedOnce /\ [Next]_vars
        => StartedInOrder' /\ QueueBounded' /\ AcceptedOnce'
<1> SUFFICES ASSUME TypeOK, StartedInOrder, QueueBounded, AcceptedOnce, [Next]_vars
             PROVE  StartedInOrder' /\ QueueBounded' /\ AcceptedOnce'
  BY Zenon
<1>0. /\ tasks \in Seq(Tasks) /\ accepted \in Seq(Tasks) /\ started \in Seq(Tasks)
      /\ Len(tasks) \in Nat /\ Len(accepted) \in Nat
  BY DEF TypeOK
<1>1. ASSUME NEW s \in Submitters, NEW t \in Tasks, TrySubmit(s, t)
      PROVE  StartedInOrder' /\ QueueBounded' /\ AcceptedOnce'
  <2>1. /\ tasks' = Append(tasks, t) /\ accepted' = Append(accepted, t)
        /\ started' = started /\ t \notin Range(accepted) /\ ~Full
    BY <1>1, Zenon DEF TrySubmit
  <2>2. StartedInOrder'
    <3>1. Append(started \o tasks, t) = started \o Append(tasks, t)
      BY <1>0, PushKeepsOrder, Zenon
    <3> QED
      BY <3>1, <2>1, Zenon DEF StartedInOrder
  <2>3. QueueBounded'
    <3>1. Len(tasks') = Len(tasks) + 1
      BY <2>1, <1>0, AppendProperties, Zenon
    <3> QED
      BY <3>1, <2>1, <1>0, MaxQueuedAssumption DEF QueueBounded, Full
  <2>4. \A i \in 1..Len(accepted) : accepted[i] # t
    BY <2>1, <1>0 DEF Range
  <2>5. /\ Len(accepted') = Len(accepted) + 1
        /\ \A i \in 1..Len(accepted) : accepted'[i] = accepted[i]
        /\ accepted'[Len(accepted) + 1] = t
    BY <2>1, <1>0, AppendProperties
  <2>6. AcceptedOnce'
    <3> SUFFICES ASSUME NEW i \in 1..(Len(accepted) + 1), NEW j \in 1..(Len(accepted) + 1),
                        accepted'[i] = accepted'[j]
                 PROVE  i = j
      BY <2>5, Zenon DEF AcceptedOnce
    <3>1. CASE i \in 1..Len(accepted) /\ j \in 1..Len(accepted)
      BY <3>1, <2>5, Zenon DEF AcceptedOnce
    <3>2. CASE i = Len(accepted) + 1 /\ j = Len(accepted) + 1
      BY <3>2, Zenon
    <3>3. CASE i = Len(accepted) + 1 /\ j \in 1..Len(accepted)
      BY <3>3, <2>4, <2>5, Zenon
    <3>4. CASE i \in 1..Len(accepted) /\ j = Len(accepted) + 1
      BY <3>4, <2>4, <2>5, Zenon
    <3> QED
      BY <3>1, <3>2, <3>3, <3>4, <1>0
  <2> QED
    BY <2>2, <2>3, <2>6, Zenon
<1>2. ASSUME NEW w \in Workers, Take(w)
      PROVE  StartedInOrder' /\ QueueBounded' /\ AcceptedOnce'
  <2>1. /\ tasks # <<>> /\ tasks' = Tail(tasks) /\ accepted' = accepted
        /\ started' = Append(started, Head(tasks))
    BY <1>2, Zenon DEF Take
  <2>2. StartedInOrder'
    BY <2>1, <1>0, PopKeepsOrder, Zenon DEF StartedInOrder
  <2>3. QueueBounded'
    <3>1. Len(tasks') = Len(tasks) - 1
      BY <2>1, <1>0, HeadTailProperties, Zenon
    <3> QED
      BY <3>1, <1>0, MaxQueuedAssumption DEF QueueBounded
  <2>4. AcceptedOnce'
    BY <2>1, Zenon DEF AcceptedOnce
  <2> QED
    BY <2>2, <2>3, <2>4, Zenon
<1>3. CASE UNCHANGED <<tasks, accepted, started>>
  BY <1>3 DEF StartedInOrder, QueueBounded, AcceptedOnce
<1> QED
  BY <1>1, <1>2, <1>3, Zenon DEF Next, WorkerStep, Refuse, NotifyOne, SpuriousWakeup, Sleep,
                          Exit, Finish, Shutdown, NotifyAll, JoinAll, vars

\* Only the pop and the end of a task touch what is running.
LEMMA RunStep ==
    TypeOK /\ StartedInOrder /\ AcceptedOnce /\ RunExactlyOnce /\ [Next]_vars
        => RunExactlyOnce'
<1> SUFFICES ASSUME TypeOK, StartedInOrder, AcceptedOnce, RunExactlyOnce, [Next]_vars
             PROVE  RunExactlyOnce'
  BY Zenon
<1>1. ASSUME NEW w \in Workers, Take(w) PROVE RunExactlyOnce'
  <2> DEFINE h == Head(tasks)
  <2>1. h \in Tasks /\ h \notin Range(started)
    BY <1>1, HeadIsFresh, Zenon DEF Take
  <2>2. Range(started') = Range(started) \cup {h}
    BY <1>1, <2>1, RangeAppend DEF Take, TypeOK
  <2>3. /\ finished' = finished
        /\ job' = [job EXCEPT ![w] = h]
        /\ Running' = Running \cup {w} /\ w \notin Running
    BY <1>1, Zenon DEF Take, Running, TypeOK
  <2>4. \A v \in Running : job'[v] = job[v]
    BY <2>3, Zenon DEF Running, TypeOK
  <2>5. job'[w] = h
    BY <2>3, Zenon DEF TypeOK
  <2> HIDE DEF h
  <2> QED
    BY <2>1, <2>2, <2>3, <2>4, <2>5 DEF RunExactlyOnce
<1>2. ASSUME NEW w \in Workers, Finish(w) PROVE RunExactlyOnce'
  <2>1. /\ w \in Running /\ Running' = Running \ {w}
        /\ \A v \in Running' : job'[v] = job[v]
        /\ finished' = finished \cup {job[w]} /\ started' = started
    BY <1>2, Zenon DEF Finish, Running, TypeOK
  <2> QED
    BY <2>1 DEF RunExactlyOnce
<1>3. CASE Running' = Running /\ UNCHANGED <<job, started, finished>>
  BY <1>3, Zenon DEF RunExactlyOnce
<1>4. ASSUME NEW s \in Submitters, NEW t \in Tasks, TrySubmit(s, t) PROVE RunExactlyOnce'
  BY <1>4, <1>3, Zenon DEF TrySubmit, Running
<1>5. ASSUME NEW s \in Submitters, NotifyOne(s) PROVE RunExactlyOnce'
  BY <1>5, <1>3, Zenon DEF NotifyOne, Running, Asleep, TypeOK
<1>6. ASSUME NEW w \in Workers, SpuriousWakeup(w) \/ Sleep(w) \/ Exit(w)
      PROVE  RunExactlyOnce'
  BY <1>6, <1>3, Zenon DEF SpuriousWakeup, Sleep, Exit, Running, TypeOK
<1>7. CASE NotifyAll
  BY <1>7, <1>3, Zenon DEF NotifyAll, Running, TypeOK
<1>8. CASE Shutdown \/ JoinAll \/ UNCHANGED vars
  BY <1>8, <1>3, Zenon DEF Shutdown, JoinAll, Running, vars
<1> QED
  BY <1>1, <1>2, <1>4, <1>5, <1>6, <1>7, <1>8, Zenon DEF Next, WorkerStep, Refuse

\* A worker leaves workerLoop only when stopping_ is set and the queue is empty,
\* and after that trySubmit refuses.
LEMMA ExitStep == TypeOK /\ ExitsDrained /\ [Next]_vars => ExitsDrained'
<1> SUFFICES ASSUME TypeOK, ExitsDrained, [Next]_vars PROVE ExitsDrained'
  BY Zenon
<1> USE DEF ExitsDrained, TypeOK
<1>1. ASSUME NEW s \in Submitters, NEW t \in Tasks, TrySubmit(s, t) PROVE ExitsDrained'
  BY <1>1, Zenon DEF TrySubmit
<1>2. ASSUME NEW s \in Submitters, NotifyOne(s) PROVE ExitsDrained'
  BY <1>2, Zenon DEF NotifyOne, Asleep
<1>3. ASSUME NEW w \in Workers, SpuriousWakeup(w) \/ Sleep(w) \/ Exit(w) \/ Finish(w)
      PROVE  ExitsDrained'
  BY <1>3 DEF SpuriousWakeup, Sleep, Exit, Finish
<1>4. ASSUME NEW w \in Workers, Take(w) PROVE ExitsDrained'
  BY <1>4, Zenon DEF Take
<1>5. CASE Shutdown
  BY <1>5, Zenon DEF Shutdown
<1>6. CASE NotifyAll
  BY <1>6, Zenon DEF NotifyAll
<1>7. CASE JoinAll
  BY <1>7, Zenon DEF JoinAll
<1>8. CASE UNCHANGED vars
  BY <1>8, Zenon DEF vars
<1> QED
  BY <1>1, <1>2, <1>3, <1>4, <1>5, <1>6, <1>7, <1>8, Zenon DEF Next, WorkerStep, Refuse

\* The count of threads on their way to the queue, action by action.
LEMMA SleepStep ==
    TypeOK /\ ExitsDrained /\ SleepersMissNothing /\ [Next]_vars => SleepersMissNothing'
<1> SUFFICES ASSUME TypeOK, ExitsDrained, SleepersMissNothing, [Next]_vars, (Asleep # {})'
             PROVE  /\ Len(tasks') <= Cardinality(Notifying') + Cardinality(Ready')
                    /\ stopping' => closer' = "notify"
  BY Zenon DEF SleepersMissNothing
<1> DEFINE Goal == /\ Len(tasks') <= Cardinality(Notifying') + Cardinality(Ready')
                   /\ stopping' => closer' = "notify"
<1> USE Countable
<1>0. tasks \in Seq(Tasks) /\ Len(tasks) \in Nat
  BY DEF TypeOK
<1>1. ASSUME NEW s \in Submitters, NEW t \in Tasks, TrySubmit(s, t) PROVE Goal
  <2>1. Asleep' = Asleep /\ Ready' = Ready /\ UNCHANGED <<stopping, closer>>
    BY <1>1, Zenon DEF TrySubmit, Asleep, Ready
  <2>2. Notifying' = Notifying \cup {s} /\ s \notin Notifying
    BY <1>1, Zenon DEF TrySubmit, Notifying, TypeOK
  <2>3. Cardinality(Notifying') = Cardinality(Notifying) + 1
    BY <2>2, FS_AddElement, Zenon
  <2>4. Len(tasks') = Len(tasks) + 1
    BY <1>0, <1>1, AppendProperties, Zenon DEF TrySubmit
  <2> QED
    BY <1>0, <2>1, <2>3, <2>4 DEF SleepersMissNothing
<1>2. ASSUME NEW s \in Submitters, NotifyOne(s) PROVE Goal
  <2>1. Notifying' = Notifying \ {s} /\ s \in Notifying
    BY <1>2, Zenon DEF NotifyOne, Notifying, TypeOK
  <2>2. Cardinality(Notifying') = Cardinality(Notifying) - 1
    BY <2>1, FS_RemoveElement, Zenon
  <2>3. UNCHANGED <<tasks, stopping, closer>>
    BY <1>2, Zenon DEF NotifyOne
  <2>4. PICK w \in Asleep : worker' = [worker EXCEPT ![w] = "ready"]
    BY <1>2, Zenon DEF NotifyOne, Asleep
  <2>5. Ready' = Ready \cup {w} /\ w \notin Ready /\ Asleep # {}
    BY <2>4, Zenon DEF Ready, Asleep, TypeOK
  <2>6. Cardinality(Ready') = Cardinality(Ready) + 1
    BY <2>5, FS_AddElement, Zenon
  <2> QED
    BY <1>0, <2>2, <2>3, <2>5, <2>6 DEF SleepersMissNothing
<1>3. ASSUME NEW w \in Workers, SpuriousWakeup(w) \/ Finish(w) PROVE Goal
  <2>1. Ready' = Ready \cup {w} /\ w \notin Ready /\ Asleep # {} /\ Notifying' = Notifying
    BY <1>3 DEF SpuriousWakeup, Finish, Ready, Asleep, Notifying, TypeOK
  <2>2. Cardinality(Ready') = Cardinality(Ready) + 1
    BY <2>1, FS_AddElement, Zenon
  <2>3. UNCHANGED <<tasks, stopping, closer>>
    BY <1>3, Zenon DEF SpuriousWakeup, Finish
  <2> QED
    BY <1>0, <2>1, <2>2, <2>3 DEF SleepersMissNothing
<1>4. ASSUME NEW w \in Workers, Sleep(w) PROVE Goal
  <2>1. tasks' = <<>> /\ ~stopping'
    BY <1>4, Zenon DEF Sleep
  <2>2. Len(tasks') = 0
    BY <2>1, Zenon
  <2>3. Cardinality(Notifying') \in Nat /\ Cardinality(Ready') \in Nat
    <3>1. Ready' \in SUBSET Workers /\ Notifying' \in SUBSET Submitters
      BY Zenon DEF Ready, Notifying
    <3> QED
      BY <3>1, FS_Subset, FS_CardinalityType, WorkersAssumption, SubmittersAssumption, Zenon
  <2> QED
    BY <2>1, <2>2, <2>3
<1>5. ASSUME NEW w \in Workers, Take(w) PROVE Goal
  <2>1. Ready' = Ready \ {w} /\ w \in Ready /\ Asleep' = Asleep /\ Notifying' = Notifying
    BY <1>5, Zenon DEF Take, Ready, Asleep, Notifying, TypeOK
  <2>2. Cardinality(Ready') = Cardinality(Ready) - 1
    BY <2>1, FS_RemoveElement, Zenon
  <2>3. Len(tasks') = Len(tasks) - 1 /\ UNCHANGED <<stopping, closer>>
    BY <1>0, <1>5, HeadTailProperties, Zenon DEF Take
  <2> QED
    BY <1>0, <2>1, <2>2, <2>3 DEF SleepersMissNothing
<1>6. ASSUME NEW w \in Workers, Exit(w) PROVE Goal
  <2>1. tasks' = <<>> /\ UNCHANGED <<stopping, closer>> /\ Asleep # {}
    BY <1>6, Zenon DEF Exit, Asleep, TypeOK
  <2>2. Len(tasks') = 0
    BY <2>1, Zenon
  <2>3. Cardinality(Notifying') \in Nat /\ Cardinality(Ready') \in Nat
    <3>1. Ready' \in SUBSET Workers /\ Notifying' \in SUBSET Submitters
      BY Zenon DEF Ready, Notifying
    <3> QED
      BY <3>1, FS_Subset, FS_CardinalityType, WorkersAssumption, SubmittersAssumption, Zenon
  <2> QED
    BY <2>1, <2>2, <2>3 DEF SleepersMissNothing
<1>7. CASE Shutdown
  <2>1. /\ Asleep' = Asleep /\ Ready' = Ready /\ Notifying' = Notifying
        /\ tasks' = tasks /\ closer' = "notify"
    BY <1>7, Zenon DEF Shutdown, Asleep, Ready, Notifying
  <2> QED
    BY <2>1, Zenon DEF SleepersMissNothing
<1>8. CASE NotifyAll
  <2>1. Asleep' = {}
    BY <1>8, Zenon DEF NotifyAll, Asleep, TypeOK
  <2> QED
    BY <2>1, Zenon
<1>9. CASE JoinAll
  <2>1. Asleep' = {}
    BY <1>9, Zenon DEF JoinAll, Asleep, TypeOK
  <2> QED
    BY <2>1, Zenon
<1>10. CASE UNCHANGED vars
  BY <1>10, Zenon DEF vars, SleepersMissNothing, Asleep, Ready, Notifying
<1> QED
  BY <1>1, <1>2, <1>3, <1>4, <1>5, <1>6, <1>7, <1>8, <1>9, <1>10, ZenonT(40)
     DEF Next, WorkerStep, Refuse

-----------------------------------------------------------------------------
\* The inductive invariant, from the step lemmas.
LEMMA Invariance == Spec => []Inv
<1>1. Inv /\ [Next]_vars => Inv'
  BY TypeStep, QueueStep, RunStep, ExitStep, SleepStep, Zenon DEF Inv
<1> QED
  BY InitInv, <1>1, PTL DEF Spec

\* Every variable of the pool keeps its type (ThreadPool.cpp, all operations).
THEOREM TypeCorrect == Spec => []TypeOK
<1>1. Inv => TypeOK
  BY Zenon DEF Inv
<1> QED
  BY Invariance, <1>1, PTL

\* The queue is first in, first out, and loses or repeats no accepted task.
THEOREM FirstInFirstOut == Spec => []StartedInOrder
<1>1. Inv => StartedInOrder
  BY Zenon DEF Inv
<1> QED
  BY Invariance, <1>1, PTL

\* trySubmit keeps the queue within its cap, whatever the cap.
THEOREM CapRespected == Spec => []QueueBounded
<1>1. Inv => QueueBounded
  BY Zenon DEF Inv
<1> QED
  BY Invariance, <1>1, PTL

\* Each task that workerLoop pops is run by one worker, once.
THEOREM OneWorkerPerTask == Spec => []RunExactlyOnce
<1>1. Inv => RunExactlyOnce
  BY Zenon DEF Inv
<1> QED
  BY Invariance, <1>1, PTL

\* notify_one outside the mutex loses no wakeup, for any number of workers.
THEOREM NoLostWakeup == Spec => []SleepersMissNothing
<1>1. Inv => SleepersMissNothing
  BY Zenon DEF Inv
<1> QED
  BY Invariance, <1>1, PTL

\* When shutdown has returned, every accepted task has been run to its end.
THEOREM ShutdownDrains == Spec => []DrainedWhenJoined
<1>1. Inv => DrainedWhenJoined
  <2> SUFFICES ASSUME Inv, closer = "done"
               PROVE  /\ tasks = <<>>
                      /\ Range(accepted) = finished
                      /\ \A w \in Workers : worker[w] = "exited"
    BY Zenon DEF DrainedWhenJoined
  <2>1. \A w \in Workers : worker[w] = "exited"
    BY Zenon DEF Inv, ExitsDrained
  <2>2. tasks = <<>>
    BY <2>1, WorkersAssumption, Zenon DEF Inv, ExitsDrained
  <2>3. accepted = started
    BY <2>2, ConcatEmptySeq, Zenon DEF Inv, StartedInOrder, TypeOK
  <2>4. Running = {}
    BY <2>1, Zenon DEF Running
  <2>5. \A t \in Tasks : t \in Range(started) <=> t \in finished
    BY <2>4, Zenon DEF Inv, RunExactlyOnce
  <2>6. Range(accepted) \subseteq Tasks /\ finished \subseteq Tasks
    BY DEF Inv, TypeOK, Range
  <2> QED
    BY <2>1, <2>2, <2>3, <2>5, <2>6, Zenon
<1> QED
  BY Invariance, <1>1, PTL
=============================================================================
