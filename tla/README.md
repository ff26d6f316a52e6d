# VCache in TLA+

A verification project for VCache, the in-memory key-value server in `src/`. The
modules model its components from the source, TLC checks them on small instances,
and TLAPS proves the central invariants for every instance.

## The system

| Part | State | Operations | Works with |
|---|---|---|---|
| `Entry` | key, value, optional expiration | `isExpiredAt` | everything |
| `HashTable` | bucket array of chains, intrusive recency list under `lruMutex_`, `size_`, `entryBytes_` | put, find, remove, touch, evictOldest, removeIf, resize, clear, move | `Database`, which locks it |
| `Database` | shards: lock, table, slice of the limit, sweep cursor; the global limit | set, get, del, exists, ttl, keys, removeExpired, snapshot, restore, setMaxMemory, clear | called by every worker, the sweeper and the savers |
| `ThreadPool` | FIFO queue, `stopping_`, workers, one condition variable | trySubmit, shutdown, workerLoop | `Server` submits connections |
| `Server` | `running_`, self-pipe, `activeConnections_`, sockets | start, run, stop, serveConnection, handleConnection | owns all of the above |
| `ExpirationSweeper`, `SnapshotScheduler` | a thread, `stopRequested_`, `running_` | start, stop, the timed loop | `Database`, `SnapshotStore` |
| `SnapshotStore` | a file and its temporary, a mutex | save, load | `Database::snapshot`, `restore` |
| `CommandParser`, `CommandExecutor`, `Protocol` | none | a line to a call, a call to a reply | one executor per connection |
| `VCacheClient` | a socket and a buffer | connect, disconnect, command | the server |
| `vcache-server`, `vcache-cli` | arguments | start, serve, save at the end; send lines, print replies | `Server`, `VCacheClient` |

What makes it hard: readers reorder the recency list under a shared lock; whole
database operations (KEYS, snapshot, sweep, restore, limit, clear) lock one shard
at a time; the pool notifies outside its mutex; descriptors are reused while
shutdown walks the set of them; `stop()` runs in a signal handler, before `run()`
if it likes; saves crash between write, fsync and rename; a stream cuts commands and
replies anywhere, and a reply can come after the client has given up on it; an
expiration changes clocks twice on its way through a file; and all of the memory
accounting is done by differences. `PROJECT.json` lists the hazards line by line
with the properties that watch them.

## Modules

| Module | Models | Abstracts |
|---|---|---|
| `LruMap` | what a table is to its users: a map with a recency order, byte accounting and a growing bucket array, as pure operators | order as the relation "used more recently than" |
| `LruMapSpec` | the abstract state machine over `LruMap` | |
| `HashTable` | chains, list pointers and counters of the table | addresses of nodes as model values |
| `HashTableMap` | the mapping of a table to the abstract one of `LruMapSpec` | |
| `Keyspace` | what the database promises: one map that only forgets what expired, was evicted or wiped | shards, order, bytes |
| `Database` | shards of `LruMap`s, one step per critical section, multi-shard walks as processes | |
| `ShardLocks` | one shard's operations under its two locks, one memory access at a time | buckets; sizes counted in entries |
| `ThreadPool` | queue, workers, notifications, shutdown | the tasks' bodies |
| `Server` | accept loop, workers serving, stop, teardown; composed with `ThreadPool` by `INSTANCE` | bytes of requests and replies |
| `Session` | `VCacheClient` and the connection handler over streams that split anywhere | what commands do to the data |
| `BackgroundLoop` | the timer threads' start, stop and loop | their jobs |
| `SnapshotStore` | save, load and the last save of `main` against a file system that loses what was not synced | the keyspace as a version number |
| `SnapshotFormat` | encode and decode of the snapshot file | narrower bytes, integers and checksum |
| `SnapshotClock` | expirations between the steady clock and the wall clock | |
| `CommandText` | tokenizer, parser, wire escaping, the CLI's joining of arguments | an alphabet of the characters that are told apart |
| `Options` | the two command lines and `parseByteSize` | words; a small `size_t` |
| `Codecs` | the pure functions of the last four against reference definitions | |
| `MC*` | the instances TLC checks | |
| `*Proofs` | the theorems; `LruMapProofs` has the lemmas about tables, `DatabaseProofs` and the others what their names say | |

Definitions carry the source's names; the map in `PROJECT.json` gives the lines of
each. Operators commented "Mutant of ..." are faulty variants: each
replaces the definition it names to show that a property can fail.

**HashTable.** `table` is one record per table: the chains, the list's `prev`
and `next`, its two ends, the counters. `PutKey`, `RemoveKey`, `TouchKey`, `Evict`,
`RemoveMatching`, `ClearAll`, `ResizeTo` and `Move` are the methods; `SetExpiration`
is the write through the pointer `find` returns. `result` holds what a call
returns, `call` which it was, so the refinement of `LruMapSpec` also compares results.

**Database.** A shard is a `LruMap` with its slice, cursor and lock; a step holds
one lock from start to end, so locks need no variable (`ShardLocks` opens the steps
up). A walker is a thread in an operation that visits every shard; `walk` says which
and how far. `seen` is a history: what was live throughout a walk, and at some moment
of it. `untrimmed` is the set of shards a restore has filled since their last
eviction. Time is `now`; `Tick` advances it.

**ShardLocks.** `readers`, `writer` and `lru` are the holders of the shard's
`shared_mutex` and of `lruMutex_`; `chain`, `heap` and the pointers `head`, `tail`,
`next`, `prev` are memory. A thread's `pc` walks through `get`, `set`, `del`, the
sweep or `clear`; `task` says for whom it is inside `lruMutex_` and where it goes on
afterwards. `listed` and `older` are a history of use, against which the pointers are
compared.

**ThreadPool.** `worker` and `closer` are program counters; a submitter that has
pushed is in `notify` until it has called `notify_one`. `accepted`, `started` and
`finished` are histories.

**Server.** `loop`, `serve` and `stopper` are the program counters of `run`, of each
worker in `serveConnection`, and of `stop`. `owner` is the descriptor table, so that a
closed number can come back for another client. The backlog is a queue: clients are
numbers, in the order in which they connect. Its steps on the pool's queue are the
actions of `ThreadPool`. What a client sends is not
kept: a `recv` completes any number of commands up to `MaxLines`.

**Session.** Each direction of a connection is a sequence of units, a unit being a
piece of a line or its newline, labelled with the command it belongs to. `recv`
delivers any prefix and `send` takes any prefix. `at` is where the server is with a
connection (`queued`, reading, cutting lines out of `pending`, sending, closed), `pc`
where `command()` is. A behaviour has either a `VCacheClient`, which connects, calls
and reconnects, or a peer that sends the lines of `Pipeline` one after the other without
waiting for replies. A timeout is a step of the side that waits; the reply then still
arrives later.

**SnapshotStore.** An image has the version it was encoded from, the blocks written
and whether it is synced; `onDisk` is the set of files that the name may refer to after
a power cut, since the directory is never synced. `ProcessDies` loses memory only;
`PowerCut` also loses unsynced blocks and may undo the last renames. `exit` follows
`main` from the return of `run` through the last save to its exit code.

**BackgroundLoop.** `owner` and `thread` are the program counters of the caller and
of the loop.

**Codecs.** A behaviour picks a kind of input (a line, a value, arguments, words, a
size, a command line, entries, a file) and grows one piece by piece, so the
invariants are about all inputs up to a length. The references are written
differently from the code: a byte-at-a-time automaton for the tokenizer, the list of
accepted shapes for the parser, plain arithmetic for sizes, the inverse for each encoder.

## Runs

| Run | Checks | Instance |
|---|---|---|
| `hash_table` | list and totals after any sequence of calls, moves included; refines `LruMapSpec`, results and growth included | 2 tables, 3 colliding keys, 2 sizes, growth from the smallest array |
| `thread_pool` | no lost wakeup, drained; accepted tasks run, shutdown returns | 2 workers, 2 submitters, 3 tasks, cap 2 |
| `database_keyspace` | slices and SET under changing limits; KEYS, snapshot, clear and restore against writers and expiry; refines `Keyspace` | 2 shards with 2 keys and 1, limits 4 and 14, one entry larger than both, time 0..1 |
| `database_sweep` | the sweep reclaims everything expired; refines `Keyspace` with time | 2 keys in one shard of 2, growth and clear under the cursor |
| `shard_locks` | the list is the order of use; no freed node is reached; eviction takes the oldest; no races; writers leave | 3 threads, 3 keys, room for 2 |
| `server` | nobody touches another connection's descriptor; stop makes run return, nothing left open | 2 workers, 2 clients, 2 descriptors, queue of 1 |
| `session` | a delivered reply answers its own command; no torn command is executed; every command returns; pipelines are served | 2 calls, 2 connections, replies of up to 2 keys, a limit of 1 unit, 1 fault |
| `snapshot_store` | crash safety, order of saves, the mutex, nothing lost by a clean exit | SAVE, the scheduler and `main`, 2 blocks, 3 versions |
| `background_loop` | start and stop in any order: `running_` tells whether a loop is alive, stop returns | sweeper, scheduler, a disabled one |
| `codecs` | the pure functions against their references | inputs of up to 9 pieces, see `MCCodecs` |
| `restore_not_trimmed` | a statement of a comment that the code does not meet | 3 keys in one shard of 2, 2 sizes, limits 4 and 20 |
| `accept_ends_run` | another one | as `server` |

Why the bounds are enough to meet the cases: a queue of one place fills with two
clients; two descriptors are reused by the second connection; a bucket array
grows and its chains part with three keys; two shards are the least in which a walk
can be overtaken; three keys and room for two make eviction race with readers that
promote the victim; a second call on the same or a new connection is what could be
given a late reply, and a limit of one unit is exceeded by a line of two; two savers
are the least that can race, and two blocks the least that can be torn.

`hash_table` uses symmetry in the addresses and the tables, which no definition tells
apart, and a view without `call` and `result`, which no action reads; it checks no
liveness. Only one key is overwritten by another size and only one gets an expiration.
In the sweep a shard's share of `MaxBuckets` is one bucket, so the cursor matters.
In `database_keyspace` only restored entries expire, and `database_sweep` has no limits:
together they have every operation but not every combination. The safety properties of
both are proved for every instance. `Keyspace` does not record which
SET was called: that a plain SET drops the previous expiration is seen in
`hash_table`, with the call in the mapped state.

### Statements the code does not meet

`Server::start` says a snapshot larger than the limit "is trimmed on load"; `restore`
never evicts, so a shard stays above its slice until its next SET. `restore_not_trimmed`
finds it, and `SliceRespected` in `database_keyspace` says how far it goes.

"A failed accept must never kill the server", says the accept loop; it goes on after
`EINTR`, `ECONNABORTED`, `EMFILE` and `ENFILE`, and any other error (`ENOBUFS`, `ENOMEM`,
`EPROTO`, ...) ends the loop and `run()`. `accept_ends_run` finds it. `RunReturns` is
about `stop()` only.

`parseArguments` "returns false on a bad argument"; an empty `--save-interval` is taken
for 0, because nothing of it was consumed and that is its length, while the other
numeric options refuse it. `Options` models it and `OptionsAreHonoured` excepts it by name.

Other behaviour worth knowing. An exception out of `serveConnection`
skips its close, so that descriptor stays open, and registered if it was;
`QuiescentWhenReturned` promises closed descriptors only without exceptions.
`VCacheClient` sends without `MSG_NOSIGNAL`, so a connection the server has closed can
end the client's process with SIGPIPE (`SendKills`); `CommandReturns` allows it. The
first send after a plain close is accepted by TCP, so the test of a server going away
sees the failure reported; it takes a later send on the same connection, or bytes the
server had left unread, to raise the signal. The model lets any send on a closed
connection raise it. `PipelineServed` holds while the handler's sends find room: a peer
that writes for ever and never reads blocks its worker, which is in `Server`.

## Fairness

Threads that can move do (weak fairness of each thread's steps). Not assumed: that
anybody calls an operation, that a client ever sends, reads or leaves; that a timeout
of a background loop ever fires; that clients write or the clock ticks.

* `ThreadPool`: `Finish` is weakly fair, the promise that a task ends. In `Server` that
  promise is what is checked: `RunReturns` assumes only that a socket call on a broken
  connection returns. `Poll` is strongly fair: signals do not interrupt every single call.
* `ShardLocks`: a thread inside an operation is scheduled. `shared_mutex` and
  `std::mutex` are not fair, so no thread is promised a lock, only that a writer
  leaves its critical section.
* `Database`: a walker goes on, and the sweeper sweeps again, as its timed loop does.
* `Session`: the client's thread, and a worker that has a connection, get on, and their
  timeouts fire. That a worker becomes free is not assumed, nor that `stop()` is called.
* `SnapshotStore`: file calls return. No individual save is promised the mutex, only
  that it is always released.

## Proofs

All for every value of the constants, from the named assumptions of the modules.

* `ThreadPoolProofs`. The inductive invariant adds to the properties that each task is
  accepted once (without it a popped task might be one already running) and that workers
  exit only when stopping and drained (without it a task could be accepted after the
  last worker left). Why no wakeup is lost: while a worker sleeps, the queue is no longer
  than the number of ready workers plus submitters yet to notify; each action changes
  both sides alike.
* `ShardLocksProofs`. For any threads, jobs, keys and room. `IInv` has five parts.
  `Errands` ties each place to the operations and tasks that can be there; `Holders`
  says who holds which lock where; `Stored` says by how much list, chains and heap may
  differ at each place of the writer, the one thread that can make them differ; `Linked`
  says that the list is whole when `lruMutex_` is free and, for the one thread inside it,
  which pointers are still to be written (`Midway`). The properties are not inductive
  without `Midway`: a whole list after the last write follows only from what the earlier
  ones left. Eviction is safe between its two sections because the writer excludes the
  readers that could promote the victim.
* `LruMapProofs`. What each operation of a table keeps: a finite map whose keys are in a
  strict total order of use, in an array they do not overload; which keys it stores and
  which it loses; and that no removal makes it heavier. The weight is a sum over the
  stored keys, a fold, so its laws (taking one key out, equal weights give equal sums,
  a subset weighs no more) come first. They are proved from the fold's definition by
  least counterexample: among the sets that break the law there is one of least size.
* `DatabaseProofs`. For any shards, keys, hash, sizes, walkers, limits and backups.
  `TablesWellFormed` says that every table is a well-formed map and holds only keys of its
  own shard; all else rests on it. `LimitsHonoured`: a slice is exceeded only by one last
  entry, or by what a restore loaded. `SetIsKept`: the key just written is the newest and
  the eviction loop keeps the newest. `WalksReadTrue` and `ClearIsComplete` speak of a
  walk that has visited every shard, so the invariants say where a walk stands in the
  middle: it has gathered every key live since the call whose shard it has passed
  (`Gathers`), and a key that survives a clear lives in a shard still to come (`Clears`).
  That a key keeps its shard is what makes both inductive. `ImplementsKeyspace` is the
  refinement: the union of the shards' maps takes a step of `Keyspace` or stutters,
  shown action by action. A step touches one shard, so it is enough to know which keys
  that shard lost and which it wrote, and that keys are lost to eviction only under a
  limit.
* `ServerProofs`. For any workers, clients, descriptors and queue. The inductive
  invariant says that a connection is in one place only (not accepted yet, with `run()`,
  once in the queue, with one worker), that a descriptor and its connection name each
  other, that what is registered in `activeConnections_` was taken by a worker, and that
  without exceptions every open descriptor is held by somebody. `DescriptorsSafe` needs
  the first two together: a number is free for reuse only once no holder is left.
  `TeardownComplete` adds where `run()` stands: workers exit only when the pool is
  stopping and drained. `DrivesThePool` shows that what the server does to its pool are
  steps of `ThreadPool`, and `ConnectionsServed` carries the pool's theorems over to
  the server's connections.
* `SnapshotStoreProofs`. The saver in the critical section is alone, so the temporary
  file is its own; it is whole and synced before the rename, so whatever the name can
  refer to is intact. For the order of saves: snapshot <= copied <= database. For a clean
  exit: after `run` nobody writes and only `main` saves, so its copy is the database.
  The same module has the theorem about `SnapshotClock`: an expiration written and read
  back is off by less than a millisecond and two microseconds to the early side and by
  less than two microseconds, plus the time between the paired readings, to the late
  side, whatever the start of the two steady clocks; the wall clock is assumed not to be
  set in between. Each cast is off by less than its unit, and the bounds add up.
* `SessionProofs`. For any command lines, calls, connections, limits and faults. The
  stream of a connection is what the handler holds, what is under way to it and what
  `sendAll` has still to send, as one sequence (`Streams`). However `send` and `recv` cut
  up the bytes, a step leaves a stream alone, takes its first line away, shortens it at
  the end or appends a command. `Orderly` is what the four keep: a stream has whole
  commands in the order of their numbers, the last one perhaps cut off (`WellFramed`), no
  command is on two connections, and what was executed was whole, once and earlier.
  `NoTornCommand` follows. For the replies, `InStep` says where a waiting client stands:
  its command is still unanswered and all of it is in the stream, or it was executed and
  what the client has read, with what is in its buffer and under way, is the beginning of
  one reply to it, or the server has said why it closes. Between commands nothing is under
  way. That is what makes `DeliveredAnswersTheCall` inductive: after an error the client
  hangs up, so no connection has two commands under way.
* The loops of `ExpirationSweeper` and `SnapshotScheduler` are in `SnapshotStoreProofs` too.
  A loop ends only on a request and a live loop between calls has none pending.

These modules also prove what no run lists: type correctness, the order and the cap of
the queue, that a task is run by one worker only, that a saver's temporary file is its
own, that `start` never assigns to a joinable thread, and that list, chains and heap hold
the same nodes between operations.

What the proofs assume of the constants is what the code fixes. The shard count divides
the range of the hash (both are powers of two), and the hash is wide enough that an
array of 2^`HashBits` slots, the largest there is, holds all keys twice over, so that
doubling always ends: 64 bits do. Arguments of the constructor and of `resize` are no larger
than that array. There is at least one worker and one connection, a command line is
blank exactly if it has no text, and `Nobody`, `NoTask` and `Null` are no client, task or
node. The runs evaluate all of these on their instances.

Only model-checked: everything about `HashTable`, with its refinement of `LruMapSpec`, whose
walks along chains and list call for induction over the nodes; that a sweep reclaims what has expired; what the recursive operators
of `CommandText`, `Options` and `SnapshotFormat` compute, which the six properties of
`codecs` are about; and all liveness. Fairness and recursive operators are out of the
prover's reach.

## Not modelled

`PROJECT.json` lists every part with its status. Left out, and why:

* The benchmarks, `printReply`, usage texts, log lines and counters kept for
  diagnostics: they only measure or print.
* Binding and listening in `Server::start`: each failure ends in an error message.
* Failing allocations inside a shard's critical section.
* `exists`, `ttl` and the sums over shards: they change no state.
* The quality of the hash, which is a constant here.
* The text of a count on the wire (`parseCount` and its limit), which is the number.
* A newline inside a command given to `VCacheClient`, which makes two lines of it: a
  one-shot argument of the CLI can have one, a line of its prompt cannot.
* A `--save-interval` so large that it overflows in milliseconds, which is undefined.
* A wall clock that is set while a snapshot is on disk: expirations move with it.
* A power cut after a clean exit: the directory is never synced, so the last rename may
  be undone. `RestartLosesNothing` is about restarts of the process.
