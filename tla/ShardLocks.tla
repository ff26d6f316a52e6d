----------------------------- MODULE ShardLocks -----------------------------
(***************************************************************************)
(* One shard of Database under its two locks: the shared mutex that guards *)
(* the bucket chains, and HashTable's lruMutex_, which alone guards the    *)
(* recency list when get promotes an entry under a shared lock.            *)
(*                                                                         *)
(* Threads run get, set, del, removeExpired and clear one memory access at *)
(* a time: each step is a lock operation, an access to the chains, or one  *)
(* of the pointer writes of lruUnlink and lruPushFront.  A node is named   *)
(* by its key.  Sizes are counted in entries; the tables themselves are    *)
(* HashTable.tla's subject.                                                *)
(***************************************************************************)
EXTENDS Naturals, FiniteSets

CONSTANTS
    Threads,    \* workers of the pool and the sweeper
    Keys,       \* the keys of this shard
    Null,       \* nullptr, and the owner of a free mutex
    Jobs,       \* the operations each thread calls
    Room        \* the entries that fit the shard's slice; 0 when there is no limit

Ops == {"get", "set", "del", "sweep", "clear"}

ASSUME JobsAssumption == Jobs \in [Threads -> SUBSET Ops]
ASSUME NullAssumption == Null \notin Threads \cup Keys
ASSUME RoomAssumption == Room \in Nat /\ IsFiniteSet(Keys)

VARIABLES
    readers,    \* holders of the shard's mutex in shared mode
    writer,     \* its exclusive holder
    lru,        \* the holder of lruMutex_
    chain,      \* the nodes on the bucket chains
    heap,       \* the nodes that are allocated
    head, tail, next, prev,     \* the recency list
    pc,         \* where each thread is
    op,         \* the operation it runs
    key,        \* the key it was called with, Null for a whole-shard operation
    node,       \* the node it works on
    task,       \* what it does, or has just done, under lruMutex_
    dead,       \* the expired entries a sweep has still to remove
    listed,     \* history: the keys that were used and not removed, and for each
    older       \* of them the listed keys whose last use was before its own

locks == <<readers, writer, lru>>
order == <<listed, older>>
list == <<head, tail, next, prev>>
vars == <<locks, chain, heap, list, pc, op, key, node, task, dead, order>>

Pointers == Keys \cup {Null}

Tasks == {"touch", "promote", "insert", "peek", "drop", "wipe"}

\* Inside lruMutex_: the pointer writes, in program order.
Linking == {"list", "unlinkNext", "unlinkSelf", "pushSelf", "pushHead", "pushEnd", "unlock"}
Labels == Linking \cup
    {"idle", "body", "lock", "evict", "remove", "free", "release"}

Init ==
    /\ readers = {} /\ writer = Null /\ lru = Null
    /\ chain = {} /\ heap = {}
    /\ head = Null /\ tail = Null
    /\ next = [k \in Keys |-> Null] /\ prev = [k \in Keys |-> Null]
    /\ pc = [t \in Threads |-> "idle"]
    /\ op = [t \in Threads |-> "none"] /\ task = [t \in Threads |-> "none"]
    /\ key = [t \in Threads |-> Null] /\ node = [t \in Threads |-> Null]
    /\ dead = [t \in Threads |-> {}]
    /\ listed = {} /\ older = [k \in Keys |-> {}]

Goto(t, label) == pc' = [pc EXCEPT ![t] = label]

\* t goes for lruMutex_ to do job to node n.
Enlist(t, job, n) ==
    /\ task' = [task EXCEPT ![t] = job]
    /\ node' = [node EXCEPT ![t] = n]
    /\ Goto(t, "lock")

Begin(t, o) ==
    /\ pc[t] = "idle"
    /\ op' = [op EXCEPT ![t] = o]
    /\ \E k \in (IF o \in {"get", "set", "del"} THEN Keys ELSE {Null}) :
          key' = [key EXCEPT ![t] = k]
    /\ Goto(t, "body")
    /\ UNCHANGED <<lru, chain, heap, list, node, task, dead, order>>

\* Mutant of Start: set settles for a ReadLock.
StartShared(t) ==
    /\ writer = Null
    /\ \E o \in Jobs[t] :
          /\ \/ o \in {"get", "set"} /\ readers' = readers \cup {t} /\ writer' = writer
             \/ o \notin {"get", "set"} /\ readers = {} /\ writer' = t /\ readers' = readers
          /\ Begin(t, o)

\* An operation begins with its lock: ReadLock for get, WriteLock for all the
\* others.  A thread that waits for it holds nothing.
Start(t) ==
    /\ writer = Null
    /\ \E o \in Jobs[t] :
          /\ \/ o = "get" /\ readers' = readers \cup {t} /\ writer' = writer
             \/ o # "get" /\ readers = {} /\ writer' = t /\ readers' = readers
          /\ Begin(t, o)

\* get: a key that is absent, or has expired, is not promoted, and none is when
\* there is no limit.
Get(t) ==
    /\ pc[t] = "body" /\ op[t] = "get"
    /\ \/ /\ key[t] \in chain /\ Room # 0
          /\ Enlist(t, "touch", key[t])
       \/ Goto(t, "release") /\ UNCHANGED <<node, task>>
    /\ UNCHANGED <<locks, chain, heap, list, op, key, dead, order>>

\* set, up to the section of put that links the node; a value that cannot fit any
\* slice is Rejected.
Set(t) ==
    /\ pc[t] = "body" /\ op[t] = "set"
    /\ \/ /\ Room # 0
          /\ Goto(t, "release") /\ UNCHANGED <<chain, heap, node, task>>
       \/ /\ key[t] \in chain
          /\ Enlist(t, "promote", key[t])
          /\ UNCHANGED <<chain, heap>>
       \/ /\ key[t] \notin chain
          /\ chain' = chain \cup {key[t]} /\ heap' = heap \cup {key[t]}
          /\ Enlist(t, "insert", key[t])
    /\ UNCHANGED <<locks, list, op, key, dead, order>>

\* del finds the node or gives up; remove does the rest.
Del(t) ==
    /\ pc[t] = "body" /\ op[t] = "del"
    /\ \/ key[t] \in chain /\ Goto(t, "remove") /\ node' = [node EXCEPT ![t] = key[t]]
       \/ key[t] \notin chain /\ Goto(t, "release") /\ node' = node
    /\ UNCHANGED <<locks, chain, heap, list, op, key, task, dead, order>>

\* removeExpired: which entries of the slice have expired is settled by one
\* reading of the clock.
Sweep(t) ==
    /\ pc[t] = "body" /\ op[t] = "sweep"
    /\ \E found \in SUBSET chain : dead' = [dead EXCEPT ![t] = found]
    /\ Goto(t, "evict")
    /\ UNCHANGED <<locks, chain, heap, list, op, key, node, task, order>>

Clear(t) ==
    /\ pc[t] = "body" /\ op[t] = "clear"
    /\ Enlist(t, "wipe", Null)
    /\ UNCHANGED <<locks, chain, heap, list, op, key, dead, order>>

\* The head of two loops: evictToFit's, and removeIf's with the next match.
Evict(t) ==
    /\ pc[t] = "evict"
    /\ \/ /\ op[t] = "set" /\ Room # 0
          /\ Cardinality(chain) > Room /\ Cardinality(chain) > 1
          /\ Enlist(t, "peek", Null) /\ dead' = dead
       \/ /\ op[t] = "set"
          /\ Room = 0 \/ Cardinality(chain) <= Room \/ Cardinality(chain) <= 1
          /\ Goto(t, "release") /\ UNCHANGED <<node, task, dead>>
       \/ /\ op[t] = "sweep"
          /\ \E k \in dead[t] :
                /\ dead' = [dead EXCEPT ![t] = @ \ {k}]
                /\ node' = [node EXCEPT ![t] = k]
          /\ Goto(t, "remove") /\ task' = task
       \/ /\ op[t] = "sweep" /\ dead[t] = {}
          /\ Goto(t, "release") /\ UNCHANGED <<node, task, dead>>
    /\ UNCHANGED <<locks, chain, heap, list, op, key, order>>

\* Mutant of Remove: the node is freed as soon as it is off its chain.
RemoveFrees(t) ==
    /\ pc[t] = "remove"
    /\ chain' = chain \ {node[t]}
    /\ heap' = heap \ {node[t]}
    /\ Enlist(t, "drop", node[t])
    /\ UNCHANGED <<locks, list, op, key, dead, order>>

\* The chain is spliced shut; the list is next.
Remove(t) ==
    /\ pc[t] = "remove"
    /\ chain' = chain \ {node[t]}
    /\ Enlist(t, "drop", node[t])
    /\ UNCHANGED <<locks, heap, list, op, key, dead, order>>

\* The victim, or every node, is destroyed, outside lruMutex_.
Free(t) ==
    /\ pc[t] = "free"
    /\ \/ /\ task[t] = "drop"
          /\ heap' = heap \ {node[t]} /\ UNCHANGED <<chain, next, prev>>
          /\ Goto(t, IF op[t] = "del" THEN "release" ELSE "evict")
       \/ /\ task[t] = "wipe"
          /\ heap' = {} /\ chain' = {}
          /\ next' = [k \in Keys |-> Null] /\ prev' = [k \in Keys |-> Null]
          /\ Goto(t, "release")
    /\ node' = [node EXCEPT ![t] = Null]
    /\ UNCHANGED <<locks, head, tail, op, key, task, dead, order>>

Release(t) ==
    /\ pc[t] = "release"
    /\ readers' = readers \ {t}
    /\ writer' = IF writer = t THEN Null ELSE writer
    /\ op' = [op EXCEPT ![t] = "none"] /\ task' = [task EXCEPT ![t] = "none"]
    /\ key' = [key EXCEPT ![t] = Null] /\ node' = [node EXCEPT ![t] = Null]
    /\ Goto(t, "idle")
    /\ UNCHANGED <<lru, chain, heap, list, dead, order>>

-----------------------------------------------------------------------------
\* The order of use changes as a whole when t enters its section.
Use(t) ==
    LET n == node[t]
        Now(k, last) == IF k = n THEN last ELSE older[k] \ {n}
    IN  \/ /\ task[t] \in {"touch", "promote", "insert"}
           /\ listed' = listed \cup {n}
           /\ older' = [k \in Keys |-> Now(k, listed \ {n})]
        \/ /\ task[t] = "drop"
           /\ listed' = listed \ {n}
           /\ older' = [k \in Keys |-> Now(k, {})]
        \/ task[t] = "wipe" /\ listed' = {} /\ older' = [k \in Keys |-> {}]
        \/ task[t] = "peek" /\ UNCHANGED order

Lock(t) ==
    /\ pc[t] = "lock"
    /\ lru = Null
    /\ lru' = t
    /\ Use(t)
    /\ Goto(t, "list")
    /\ UNCHANGED <<readers, writer, chain, heap, list, op, key, node, task, dead>>

\* The first access under the lock: touch's test of the head, evictOldest's
\* reading of the tail, lruClear, the first write of lruPushFront or of lruUnlink.
List(t) ==
    /\ pc[t] = "list"
    /\ \/ /\ task[t] = "touch" /\ head = node[t]
          /\ Goto(t, "unlock") /\ UNCHANGED <<list, node>>
       \/ /\ task[t] = "peek"
          /\ node' = [node EXCEPT ![t] = tail]
          /\ Goto(t, "unlock") /\ UNCHANGED list
       \/ /\ task[t] = "wipe"
          /\ head' = Null /\ tail' = Null
          /\ Goto(t, "unlock") /\ UNCHANGED <<next, prev, node>>
       \/ /\ task[t] = "insert"
          /\ Goto(t, "pushSelf") /\ UNCHANGED <<list, node>>
       \/ /\ task[t] \in {"touch", "promote", "drop"}
          /\ task[t] = "touch" => head # node[t]
          /\ \/ /\ prev[node[t]] # Null
                /\ next' = [next EXCEPT ![prev[node[t]]] = next[node[t]]] /\ head' = head
             \/ /\ prev[node[t]] = Null
                /\ head' = (IF head = node[t] THEN next[node[t]] ELSE head) /\ next' = next
          /\ Goto(t, "unlinkNext") /\ UNCHANGED <<tail, prev, node>>
    /\ UNCHANGED <<locks, chain, heap, op, key, task, dead, order>>

UnlinkNext(t) ==
    /\ pc[t] = "unlinkNext"
    /\ \/ /\ next[node[t]] # Null
          /\ prev' = [prev EXCEPT ![next[node[t]]] = prev[node[t]]] /\ tail' = tail
       \/ /\ next[node[t]] = Null
          /\ tail' = (IF tail = node[t] THEN prev[node[t]] ELSE tail) /\ prev' = prev
    /\ Goto(t, "unlinkSelf")
    /\ UNCHANGED <<locks, chain, heap, head, next, op, key, node, task, dead, order>>

UnlinkSelf(t) ==
    /\ pc[t] = "unlinkSelf"
    /\ prev' = [prev EXCEPT ![node[t]] = Null]
    /\ next' = [next EXCEPT ![node[t]] = Null]
    /\ Goto(t, IF task[t] = "drop" THEN "unlock" ELSE "pushSelf")
    /\ UNCHANGED <<locks, chain, heap, head, tail, op, key, node, task, dead, order>>

PushSelf(t) ==
    /\ pc[t] = "pushSelf"
    /\ prev' = [prev EXCEPT ![node[t]] = Null]
    /\ next' = [next EXCEPT ![node[t]] = head]
    /\ Goto(t, "pushHead")
    /\ UNCHANGED <<locks, chain, heap, head, tail, op, key, node, task, dead, order>>

\* Mutant of PushHead: the old head does not learn of its new neighbour.
PushHeadOneWay(t) ==
    /\ pc[t] = "pushHead"
    /\ head' = node[t]
    /\ Goto(t, "pushEnd")
    /\ UNCHANGED <<locks, chain, heap, tail, next, prev, op, key, node, task, dead, order>>

PushHead(t) ==
    /\ pc[t] = "pushHead"
    /\ prev' = IF head = Null THEN prev ELSE [prev EXCEPT ![head] = node[t]]
    /\ head' = node[t]
    /\ Goto(t, "pushEnd")
    /\ UNCHANGED <<locks, chain, heap, tail, next, op, key, node, task, dead, order>>

\* Mutant of PushEnd: the tail follows every push.
PushEndAlways(t) ==
    /\ pc[t] = "pushEnd"
    /\ tail' = node[t]
    /\ Goto(t, "unlock")
    /\ UNCHANGED <<locks, chain, heap, head, next, prev, op, key, node, task, dead, order>>

PushEnd(t) ==
    /\ pc[t] = "pushEnd"
    /\ tail' = IF tail = Null THEN node[t] ELSE tail
    /\ Goto(t, "unlock")
    /\ UNCHANGED <<locks, chain, heap, head, next, prev, op, key, node, task, dead, order>>

\* Mutant of Unlock: evictOldest reports the victim and does not remove it.
UnlockKeepsVictim(t) ==
    /\ pc[t] = "unlock"
    /\ lru' = Null
    /\ \/ task[t] = "touch" /\ Goto(t, "release")
       \/ task[t] \in {"promote", "insert", "peek"} /\ Goto(t, "evict")
       \/ task[t] \in {"drop", "wipe"} /\ Goto(t, "free")
    /\ UNCHANGED <<readers, writer, chain, heap, list, op, key, node, task, dead, order>>

\* Where each caller goes on.  evictOldest leaves the section before remove, which
\* takes lruMutex_ again.
Unlock(t) ==
    /\ pc[t] = "unlock"
    /\ lru' = Null
    /\ \/ task[t] = "touch" /\ Goto(t, "release")
       \/ task[t] \in {"promote", "insert"} /\ Goto(t, "evict")
       \/ task[t] = "peek" /\ Goto(t, IF node[t] = Null THEN "release" ELSE "remove")
       \/ task[t] \in {"drop", "wipe"} /\ Goto(t, "free")
    /\ UNCHANGED <<readers, writer, chain, heap, list, op, key, node, task, dead, order>>

Step(t) ==
    \/ Get(t) \/ Set(t) \/ Del(t) \/ Sweep(t) \/ Clear(t)
    \/ Evict(t) \/ Remove(t) \/ Free(t) \/ Release(t)
    \/ Lock(t) \/ List(t) \/ UnlinkNext(t) \/ UnlinkSelf(t)
    \/ PushSelf(t) \/ PushHead(t) \/ PushEnd(t) \/ Unlock(t)

Next == \E t \in Threads : Start(t) \/ Step(t)

Spec == Init /\ [][Next]_vars

\* A thread inside an operation is scheduled; nobody has to call one.
FairSpec == Spec /\ \A t \in Threads : WF_vars(Step(t))

-----------------------------------------------------------------------------
TypeOK ==
    /\ readers \subseteq Threads /\ writer \in Threads \cup {Null} /\ lru \in Threads \cup {Null}
    /\ chain \subseteq Keys /\ heap \subseteq Keys
    /\ head \in Pointers /\ tail \in Pointers
    /\ next \in [Keys -> Pointers] /\ prev \in [Keys -> Pointers]
    /\ pc \in [Threads -> Labels] /\ op \in [Threads -> Ops \cup {"none"}]
    /\ key \in [Threads -> Pointers]
    /\ node \in [Threads -> Pointers] /\ task \in [Threads -> Tasks \cup {"none"}]
    /\ dead \in [Threads -> SUBSET Keys]
    /\ listed \subseteq Keys /\ older \in [Keys -> SUBSET Keys]

\* Among the keys L ordered by O: b comes right after a, on the way from the latest
\* use to the oldest; and the two ends.
Follows(L, O, a, b) == b \in O[a] /\ \A c \in L : ~(c \in O[a] /\ b \in O[c])
Latest(L, O, a) == \A c \in L : a \notin O[c]
Oldest(L, O, a) == \A c \in L : c \notin O[a]

\* Head h, tail e and links nx and pv run through L in the order O, both ways.
HeadOf(h, L, O) == h \in L \cup {Null} /\ (h = Null <=> L = {}) /\ \A a \in L : h = a <=> Latest(L, O, a)
TailOf(e, L, O) == e \in L \cup {Null} /\ (e = Null <=> L = {}) /\ \A a \in L : e = a <=> Oldest(L, O, a)
NextIs(x, L, O, a) ==
    /\ x \in L \cup {Null} /\ (x = Null <=> Oldest(L, O, a))
    /\ \A b \in L : x = b <=> Follows(L, O, a, b)
PrevIs(x, L, O, b) ==
    /\ x \in L \cup {Null} /\ (x = Null <=> Latest(L, O, b))
    /\ \A a \in L : x = a <=> Follows(L, O, a, b)
Whole(h, e, nx, pv, L, O) ==
    /\ HeadOf(h, L, O) /\ TailOf(e, L, O)
    /\ \A a \in L : NextIs(nx[a], L, O, a) /\ PrevIs(pv[a], L, O, a)

\* The recency list under concurrent readers (touch, under a shared lock): whenever
\* lruMutex_ is free the list holds the keys in the order of their last use, and
\* can be walked both ways.
ListFollowsUse == lru = Null => Whole(head, tail, next, prev, listed, older)

\* Once no writer is inside, the list, the chains and the heap agree: put, remove,
\* removeIf and clear neither leak a node nor leave one on the list alone.
ListsWhatIsStored == writer = Null => listed = chain /\ chain = heap

\* No thread works on a node another one has freed, and no freed node is on the
\* list: the pointer get finds under its shared lock is still good in touch.
NoUseAfterFree ==
    /\ \A t \in Threads : node[t] # Null => node[t] \in heap
    /\ listed \subseteq heap

\* evictOldest copies the tail's key, lets go of lruMutex_ and then removes that
\* key: it is still the least recently used one.
EvictionTakesTheOldest ==
    \A t \in Threads :
        pc[t] = "remove" /\ op[t] = "set" =>
            node[t] \in listed /\ Oldest(listed, older, node[t])

\* Growing the array and storing an expiration are part of a SET's body.
ReadsChains(t) == pc[t] = "body" \/ pc[t] = "evict"
WritesChains(t) ==
    \/ pc[t] \in {"remove", "free"}
    \/ pc[t] = "body" /\ op[t] = "set"

\* No two threads are about to make conflicting accesses: a thread that writes the
\* chains is alone on them, and one thread at a time is on the list, writers
\* included.
RaceFree ==
    \A s, t \in Threads : s # t =>
        /\ ~(WritesChains(s) /\ (WritesChains(t) \/ ReadsChains(t)))
        /\ ~(pc[s] \in Linking /\ pc[t] \in Linking)

\* A writer's critical section ends: inside it lruMutex_ can be held by nobody
\* else, and evictOldest does not hold it when remove takes it.
WriterLeaves == \A t \in Threads : writer = t ~> writer # t
=============================================================================
