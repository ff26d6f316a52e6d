------------------------------ MODULE Database ------------------------------
(***************************************************************************)
(* Database (include/Database.h, src/Database.cpp): the keyspace split     *)
(* into shards, each a HashTable behind its own shared_mutex.              *)
(*                                                                         *)
(* A step is one critical section of one shard's mutex.  set, get and del  *)
(* are one step each: they take the lock of one shard and read the clock   *)
(* and the global limit under it.  An operation over all shards is a walk  *)
(* that locks them one after the other; between two of its steps anything  *)
(* may happen to any shard.  exists and ttl, which only read one entry     *)
(* under one lock, and the counters size, empty, bucketCount, memoryUsage  *)
(* and evictedCount change nothing and have no action.  keys() is the walk *)
(* of snapshot() and returns the keys of what it has gathered.             *)
(***************************************************************************)
EXTENDS LruMap, Sequences

CONSTANTS
    ShardCount,       \* a power of two
    InitialBuckets,   \* bucketsPerShard
    Ttls,             \* the lifetimes given to set
    Limits,           \* the arguments of setMaxMemory
    MaxBuckets,       \* the argument of removeExpired
    Backups,          \* the arguments of restore: sequences of [key, entry]
    Walkers,          \* the threads that walk all shards
    Jobs,             \* which walks each of them may start
    MaxNow            \* bound on the clock

ASSUME ShardsAssumption ==
    /\ ShardCount \in Nat \ {0} /\ 2^HashBits % ShardCount = 0
    /\ InitialBuckets \in Nat \ {0} /\ InitialBuckets <= 2^HashBits
ASSUME InputsAssumption ==
    /\ Ttls \subseteq Nat \ {0} /\ Limits \subseteq Nat /\ MaxBuckets \in Nat
    /\ Backups \subseteq Seq([key : Keys, entry : Entries])
ASSUME JobsAssumption ==
    Jobs \in [Walkers -> SUBSET {"snapshot", "sweep", "limit", "clear", "restore"}]

VARIABLES
    shard,        \* [table, sweepCursor, maxMemoryBytes] of each shard
    maxMemory,    \* maxMemoryBytes_, the global limit
    now,          \* the steady clock
    walk,         \* where each walker is: its operation, the next shard, its locals
    seen,         \* history: what each reading walk could have met
    untrimmed     \* history: shards that restore filled since they last evicted

vars == <<shard, maxMemory, now, walk, seen, untrimmed>>

Shards == 0..(ShardCount - 1)

\* The high bits of the hash.
ShardIndexFor(k) == Hash[k] \div (2^HashBits \div ShardCount)

-----------------------------------------------------------------------------
\* fitsWithinLimit.
FitsWithinLimit(k, v) == maxMemory = 0 \/ FootprintEstimate(k, v) <= maxMemory

\* The keys of m used at least as recently as k.
UpTo(m, k) == {k} \cup {x \in Stored(m) : <<x, k>> \in m.newer}

\* evictToFit's loop would stop with exactly the keys S left.
Settled(m, S, limit) == MemoryUsage(Only(m, S)) <= limit \/ Cardinality(S) <= 1

\* Mutant of EvictToFit: the loop runs while anything is left.
EvictToFitToNone(m, limit) ==
    IF limit = 0 THEN m
    ELSE Only(m, UNION {UpTo(m, k) :
                    k \in {x \in Stored(m) : MemoryUsage(Only(m, UpTo(m, x))) <= limit}})

\* Mutant of EvictToFit: a limit of zero is not taken for "no limit".
EvictToFitZeroIsALimit(m, limit) ==
    Only(m, UNION {UpTo(m, k) :
                k \in {x \in Stored(m) : Settled(m, UpTo(m, x), limit)}})

\* evictToFit drops the oldest entry until the rest fits or is one entry: what is
\* left is the largest run of recent keys at which the loop would stop.
EvictToFit(m, limit) ==
    IF limit = 0 THEN m
    ELSE Only(m, UNION {UpTo(m, k) :
                    k \in {x \in Stored(m) : Settled(m, UpTo(m, x), limit)}})

-----------------------------------------------------------------------------
Idle == [op |-> "idle", at |-> 0, limit |-> 0, todo |-> <<>>, clock |-> 0, got |-> {}]
NothingSeen == [always |-> {}, ever |-> {}]

Init ==
    /\ shard = [s \in Shards |-> [table |-> EmptyMap(ResizeTarget(InitialBuckets, 0)),
                                  sweepCursor |-> 0, maxMemoryBytes |-> 0]]
    /\ maxMemory = 0
    /\ now = 0
    /\ walk = [w \in Walkers |-> Idle]
    /\ seen = [w \in Walkers |-> NothingSeen]
    /\ untrimmed = {}

\* The entry of k is written in m, with a lifetime if there is one.
Written(m, k, v, ttl) ==
    IF ttl = 0 THEN Put(m, k, v) ELSE Expire(Put(m, k, v), k, now + ttl)

\* Mutant of SetEntry: eviction before the insertion.
SetEntryEvictFirst(k, v, ttl) ==
    LET s == ShardIndexFor(k)
        room == EvictToFit(shard[s].table, shard[s].maxMemoryBytes)
    IN  /\ FitsWithinLimit(k, v)
        /\ shard' = [shard EXCEPT ![s].table = Written(room, k, v, ttl)]
        /\ untrimmed' = untrimmed \ {s}
        /\ UNCHANGED <<maxMemory, now, walk>>

\* Both overloads of set, when they do not return Rejected: the put, the
\* expiration and the eviction, under the shard's write lock.
SetEntry(k, v, ttl) ==
    LET s == ShardIndexFor(k)
        m == Written(shard[s].table, k, v, ttl)
    IN  /\ FitsWithinLimit(k, v)
        /\ shard' = [shard EXCEPT ![s].table = EvictToFit(m, shard[s].maxMemoryBytes)]
        /\ untrimmed' = untrimmed \ {s}
        /\ UNCHANGED <<maxMemory, now, walk>>

Set(k, v) == SetEntry(k, v, 0)
SetEx(k, v, ttl) == SetEntry(k, v, ttl)

\* A get that hits promotes the key if the shard has a limit; no other get
\* changes anything.
Get(k) ==
    LET s == ShardIndexFor(k)
        m == shard[s].table
    IN  /\ k \in Stored(m) /\ ~IsExpiredAt(m.data[k], now)
        /\ shard[s].maxMemoryBytes # 0
        /\ shard' = [shard EXCEPT ![s].table = Touch(@, k)]
        /\ UNCHANGED <<maxMemory, now, walk, untrimmed>>

Del(k) ==
    LET s == ShardIndexFor(k)
    IN  /\ k \in Stored(shard[s].table)
        /\ shard' = [shard EXCEPT ![s].table = Erase(@, k)]
        /\ UNCHANGED <<maxMemory, now, walk, untrimmed>>

Tick ==
    /\ now < MaxNow
    /\ now' = now + 1
    /\ UNCHANGED <<shard, maxMemory, walk, untrimmed>>

-----------------------------------------------------------------------------
\* A walker calls op, with a limit or a backup if op takes one.
Begin(w, op, limit, todo) ==
    /\ walk[w] = Idle
    /\ op \in Jobs[w]
    /\ walk' = [walk EXCEPT ![w].op = op, ![w].limit = limit, ![w].todo = todo]
    /\ UNCHANGED <<shard, maxMemory, now, untrimmed>>

Start(w) ==
    \/ \E op \in {"snapshot", "clear"} : Begin(w, op, 0, <<>>)
    \/ MaxBuckets # 0 /\ Begin(w, "sweep", 0, <<>>)
    \/ \E bytes \in Limits : Begin(w, "limit", bytes, <<>>)
    \/ \E backup \in Backups : Begin(w, "restore", 0, backup)

AtShard(w, op) == walk[w].op = op /\ walk[w].at \in Shards
PastShards(w, op) == walk[w].op = op /\ walk[w].at = ShardCount

\* The predicate of keysWhere and entriesWhere: one clock read per shard.
LiveIn(m) == {k \in Stored(m) : ~IsExpiredAt(m.data[k], now)}

\* Mutant of Collect: the shard's share replaces what was gathered before.
CollectReplaces(w) ==
    LET m == shard[walk[w].at].table
    IN  /\ AtShard(w, "snapshot")
        /\ walk' = [walk EXCEPT ![w].at = @ + 1,
                                ![w].got = {<<k, m.data[k]>> : k \in LiveIn(m)}]
        /\ UNCHANGED <<shard, maxMemory, now, untrimmed>>

\* One shard's share of snapshot() or keys(), copied under a read lock.
Collect(w) ==
    LET m == shard[walk[w].at].table
    IN  /\ AtShard(w, "snapshot")
        /\ walk' = [walk EXCEPT ![w].at = @ + 1,
                                ![w].got = @ \cup {<<k, m.data[k]>> : k \in LiveIn(m)}]
        /\ UNCHANGED <<shard, maxMemory, now, untrimmed>>

PerShardBuckets == Max({MaxBuckets \div ShardCount, 1})

\* Mutant of SweepShard: the cursor starts over after every pass.
SweepShardFromZero(w) ==
    LET s == walk[w].at
        m == shard[s].table
        count == Min({PerShardBuckets, m.buckets})
    IN  /\ AtShard(w, "sweep")
        /\ walk' = [walk EXCEPT ![w].at = @ + 1]
        /\ shard' = [shard EXCEPT ![s].table = RemoveIf(m, 0, count, Stored(m) \ LiveIn(m))]
        /\ UNCHANGED <<maxMemory, now, untrimmed>>

\* One shard's share of removeExpired: the next slice of its buckets.
SweepShard(w) ==
    LET s == walk[w].at
        m == shard[s].table
        first == IF shard[s].sweepCursor >= m.buckets THEN 0 ELSE shard[s].sweepCursor
        count == Min({PerShardBuckets, m.buckets})
    IN  /\ AtShard(w, "sweep")
        /\ walk' = [walk EXCEPT ![w].at = @ + 1]
        /\ shard' = IF m.buckets = 0 THEN shard
                    ELSE [shard EXCEPT
                            ![s].table = RemoveIf(m, first, count, Stored(m) \ LiveIn(m)),
                            ![s].sweepCursor = (first + count) % m.buckets]
        /\ UNCHANGED <<maxMemory, now, untrimmed>>

SliceOf(bytes) == IF bytes = 0 THEN 0 ELSE Max({bytes \div ShardCount, 1})

\* One shard's share of setMaxMemory: its slice, and the eviction that follows.
LimitShard(w) ==
    LET s == walk[w].at
        slice == SliceOf(walk[w].limit)
    IN  /\ AtShard(w, "limit")
        /\ walk' = [walk EXCEPT ![w].at = @ + 1]
        /\ shard' = [shard EXCEPT ![s].maxMemoryBytes = slice,
                                  ![s].table = EvictToFit(@, slice)]
        /\ untrimmed' = untrimmed \ {s}
        /\ UNCHANGED <<maxMemory, now>>

\* setMaxMemory stores the global limit last, with no lock held.
LimitStore(w) ==
    /\ PastShards(w, "limit")
    /\ maxMemory' = walk[w].limit
    /\ walk' = [walk EXCEPT ![w] = Idle]
    /\ UNCHANGED <<shard, now, untrimmed>>

\* Mutant of Emptied: only the expired part of the shard goes.
EmptiedOfExpired(s) ==
    [shard EXCEPT ![s].table = Only(@, LiveIn(@)), ![s].sweepCursor = 0]

Emptied(s) == [shard EXCEPT ![s].table = Clear(@), ![s].sweepCursor = 0]

\* One shard's share of clear(), or of the clearing restore starts with.
ClearShard(w) ==
    /\ AtShard(w, "clear") \/ AtShard(w, "restore")
    /\ walk' = [walk EXCEPT ![w].at = @ + 1]
    /\ shard' = Emptied(walk[w].at)
    /\ untrimmed' = untrimmed \ {walk[w].at}
    /\ UNCHANGED <<maxMemory, now>>

\* restore reads the clock once, for all entries.
RestoreClock(w) ==
    /\ PastShards(w, "restore")
    /\ walk' = [walk EXCEPT ![w].op = "load", ![w].clock = now]
    /\ UNCHANGED <<shard, maxMemory, now, untrimmed>>

\* The next entry of the backup, unless it has expired; nothing is evicted.
RestoreEntry(w) ==
    LET e == Head(walk[w].todo)
        s == ShardIndexFor(e.key)
        skip == IsExpiredAt(e.entry, walk[w].clock)
        put == Put(shard[s].table, e.key, e.entry.value)
    IN  /\ walk[w].op = "load" /\ walk[w].todo # <<>>
        /\ walk' = [walk EXCEPT ![w].todo = Tail(@)]
        /\ shard' = IF skip THEN shard
                    ELSE [shard EXCEPT ![s].table =
                            IF e.entry.expiration = NoExpiration THEN put
                            ELSE Expire(put, e.key, e.entry.expiration)]
        /\ untrimmed' = IF skip THEN untrimmed ELSE untrimmed \cup {s}
        /\ UNCHANGED <<maxMemory, now>>

\* The walk returns to its caller.
Return(w) ==
    /\ \/ \E op \in {"snapshot", "sweep", "clear"} : PastShards(w, op)
       \/ walk[w].op = "load" /\ walk[w].todo = <<>>
    /\ walk' = [walk EXCEPT ![w] = Idle]
    /\ UNCHANGED <<shard, maxMemory, now, untrimmed>>

-----------------------------------------------------------------------------
LiveEntries ==
    UNION {{<<k, shard[s].table.data[k]>> : k \in LiveIn(shard[s].table)} : s \in Shards}

\* What keys() returns of the entries it has visited.
KeysOf(entries) == {e[1] : e \in entries}

\* Kept with every step: for a walk that reads or clears, the keys that have been
\* live ever since it was called, and for one that reads, the entries live at some
\* time since.
Observe ==
    LET live == LiveEntries'
    IN  seen' = [w \in Walkers |->
            LET called == walk[w].op = "idle"
            IN  CASE walk'[w].op = "snapshot" ->
                       [always |-> IF called THEN KeysOf(live)
                                   ELSE seen[w].always \cap KeysOf(live),
                        ever |-> seen[w].ever \cup live]
                  [] walk'[w].op \in {"clear", "restore"} ->
                       [always |-> IF called THEN KeysOf(live)
                                   ELSE seen[w].always \cap KeysOf(live),
                        ever |-> {}]
                  [] OTHER -> NothingSeen]

Continue(w) ==
    \/ Collect(w) \/ SweepShard(w) \/ LimitShard(w) \/ LimitStore(w)
    \/ ClearShard(w) \/ RestoreClock(w) \/ RestoreEntry(w) \/ Return(w)

Next ==
    /\ \/ \E k \in Keys, v \in Values : Set(k, v)
       \/ \E k \in Keys, v \in Values, ttl \in Ttls : SetEx(k, v, ttl)
       \/ \E k \in Keys : Get(k) \/ Del(k)
       \/ Tick
       \/ \E w \in Walkers : Start(w) \/ Continue(w)
    /\ Observe

Spec == Init /\ [][Next]_vars

(***************************************************************************)
(* A walk in progress goes on: shard locks are held for bounded work only. *)
(* The sweeper's loop starts a new removeExpired after every interval.     *)
(***************************************************************************)
Fairness ==
    \A w \in Walkers :
        /\ WF_vars(Continue(w) /\ Observe)
        /\ WF_vars(Begin(w, "sweep", 0, <<>>) /\ Observe)

FairSpec == Spec /\ Fairness

-----------------------------------------------------------------------------
\* evictToFit after set and inside setMaxMemory keeps every shard within its
\* slice, whatever interleaves, down to one entry; a shard that restore has
\* filled is the exception until its next set or setMaxMemory.
SliceRespected ==
    \A s \in Shards \ untrimmed :
        LET m == shard[s].table
        IN  shard[s].maxMemoryBytes # 0 =>
                MemoryUsage(m) <= shard[s].maxMemoryBytes \/ Size(m) <= 1

\* A set that is not Rejected leaves its own key stored with its value: the
\* eviction that follows never takes the entry just written ("storing it and then
\* immediately evicting it would report success while losing the data").
SetKeepsItsKey ==
    [][\A k \in Keys, v \in Values :
          (Set(k, v) \/ \E ttl \in Ttls : SetEx(k, v, ttl)) =>
              LET m == shard'[ShardIndexFor(k)].table
              IN  k \in Stored(m) /\ m.data[k].value = v]_vars

\* keys() and snapshot() visit the shards one at a time while clients write: what
\* they return holds every key that was live throughout the call, and only entries
\* that were live, with that value, at some moment of it.
ReadsAreBracketed ==
    \A w \in Walkers :
        walk[w].op = "snapshot" =>
            /\ walk[w].got \subseteq seen[w].ever
            /\ walk[w].at = ShardCount => seen[w].always \subseteq KeysOf(walk[w].got)

\* clear(), and restore, which "replaces rather than merges": once every shard has
\* been visited no key has been live since before the call.
ClearLeavesNothingOld ==
    \A w \in Walkers :
        walk[w].op \in {"clear", "restore"} /\ walk[w].at = ShardCount
            => seen[w].always = {}

\* removeExpired resumes where it stopped, although inserts grow the array under
\* its cursor: every expired entry is eventually reclaimed, overwritten or deleted.
ExpiredIsReclaimed ==
    \A k \in Keys :
        LET m == shard[ShardIndexFor(k)].table
            stale == k \in Stored(m) /\ IsExpiredAt(m.data[k], now)
        IN  stale ~> ~stale

\* The entries of all shards as one map: a key is stored in one shard only.
AllEntries ==
    [k \in UNION {Stored(shard[s].table) : s \in Shards} |->
        shard[ShardIndexFor(k)].table.data[k]]

Promise == INSTANCE Keyspace WITH
    store <- AllEntries,
    bounded <- \E s \in Shards : shard[s].maxMemoryBytes # 0,
    wiping <- \E w \in Walkers : walk[w].op \in {"clear", "restore", "load"}

\* The sharded database behaves as one map: concurrent operations, sweeps, walks
\* and limit changes never lose, revive or alter an entry on their own account.
IsKeyspace == Promise!Spec

-----------------------------------------------------------------------------
(* A statement of the repository's comments that the code does not meet.   *)

\* Server::start applies the limit first "so a snapshot larger than the limit is
\* trimmed on load": when a restore returns and no limit is being set, every
\* limited shard is within its slice or down to one entry.
TrimmedOnLoad ==
    \A w \in Walkers :
        /\ walk[w].op = "load" /\ walk[w].todo = <<>>
        /\ \A x \in Walkers : walk[x].op # "limit"
        => \A s \in Shards :
                LET m == shard[s].table
                IN  shard[s].maxMemoryBytes # 0 =>
                        MemoryUsage(m) <= shard[s].maxMemoryBytes \/ Size(m) <= 1
=============================================================================
