--------------------------- MODULE SnapshotStore ----------------------------
(***************************************************************************)
(* SnapshotStore (include/Persistence.h, src/Persistence.cpp) and the      *)
(* restart path of Server::start: saving the keyspace to a file, and       *)
(* loading it, with crashes of the process and of the machine in between.  *)
(*                                                                         *)
(* The keyspace is a version number that every client write increases; an  *)
(* image on disk carries the version it was encoded from and how many of   *)
(* its Size blocks have been written.  Only a whole image passes decode's  *)
(* checksum.  The file system is the external part: write fills a file,    *)
(* fsync makes its content survive a power cut, rename moves a name at     *)
(* once but reaches the disk at some later time, since the directory is    *)
(* never synced.                                                           *)
(***************************************************************************)
EXTENDS Naturals

CONSTANTS
    Savers,       \* threads that call save: SAVE commands, the scheduler, and
    Main,         \* main, for the last time before it returns
    Nobody,       \* the mutex is free
    Absent,       \* no file under a name
    Size,         \* blocks of an encoded snapshot
    MaxVersion    \* bound on client writes

ASSUME SaversAssumption == Nobody \notin Savers /\ Main \in Savers
ASSUME SizeAssumption == Size \in Nat \ {0}
ASSUME MaxVersionAssumption == MaxVersion \in Nat

VARIABLES
    up,           \* the server has started
    db,           \* version of the keyspace in memory
    mutex,        \* holder of mutex_
    pc,           \* where each saver is in save
    entries,      \* the version each saver has copied out of the database
    tmp,          \* the file path_.tmp
    path,         \* the file path_
    onDisk,       \* the files path_ may name after a power cut
    asked,        \* history: the version when each saver called save
    exit,         \* how far main is after run has returned
    left          \* history: the version a process that ended well had in memory

leaving == <<exit, left>>
vars == <<up, db, mutex, pc, entries, tmp, path, onDisk, asked, leaving>>

\* A file as save leaves it on the way: opened, written in part or whole, synced.
Images == [version : Nat, blocks : 0..Size, synced : BOOLEAN]
Whole(file) == file # Absent /\ file.blocks = Size

ASSUME AbsentAssumption == Absent \notin Images

Init ==
    /\ up = FALSE
    /\ db = 0
    /\ mutex = Nobody
    /\ pc = [s \in Savers |-> "idle"]
    /\ entries = [s \in Savers |-> 0]
    /\ tmp = Absent
    /\ path = Absent
    /\ onDisk = {Absent}
    /\ asked = [s \in Savers |-> 0]
    /\ exit = "no"
    /\ left = Absent

\* Mutant of ClientWrite: workers still serve after run has returned.
ClientWriteLate ==
    /\ up
    /\ db < MaxVersion
    /\ db' = db + 1
    /\ UNCHANGED <<up, mutex, pc, entries, tmp, path, onDisk, asked, leaving>>

ClientWrite ==
    /\ up /\ exit = "no"
    /\ db < MaxVersion
    /\ db' = db + 1
    /\ UNCHANGED <<up, mutex, pc, entries, tmp, path, onDisk, asked, leaving>>

-----------------------------------------------------------------------------
\* run returns once the workers and the scheduler have finished; after that only
\* main saves.
RunReturns ==
    /\ up /\ exit = "no"
    /\ \A s \in Savers : pc[s] = "idle"
    /\ exit' = "saving"
    /\ UNCHANGED <<up, db, mutex, pc, entries, tmp, path, onDisk, asked, left>>

Call(s) ==
    /\ up /\ exit = IF s = Main THEN "saving" ELSE "no"
    /\ pc[s] = "idle"
    /\ pc' = [pc EXCEPT ![s] = "lock"]
    /\ asked' = [asked EXCEPT ![s] = db]
    /\ UNCHANGED <<up, db, mutex, entries, tmp, path, onDisk, leaving>>

\* Mutant of Lock: the database is copied before save waits for the mutex.
LockAfterCopy(s) ==
    /\ pc[s] = "lock" /\ mutex = Nobody
    /\ mutex' = s
    /\ entries' = [entries EXCEPT ![s] = asked[s]]
    /\ pc' = [pc EXCEPT ![s] = "open"]
    /\ UNCHANGED <<up, db, tmp, path, onDisk, asked, leaving>>

Lock(s) ==
    /\ pc[s] = "lock"
    /\ mutex = Nobody
    /\ mutex' = s
    /\ pc' = [pc EXCEPT ![s] = "copy"]
    /\ UNCHANGED <<up, db, entries, tmp, path, onDisk, asked, leaving>>

\* Mutant of Copy: the entries of the saver's last save are used again.
CopyCached(s) ==
    /\ pc[s] = "copy"
    /\ entries' = [entries EXCEPT ![s] = IF @ = 0 THEN db ELSE @]
    /\ pc' = [pc EXCEPT ![s] = "open"]
    /\ UNCHANGED <<up, db, mutex, tmp, path, onDisk, asked, leaving>>

\* database.snapshot() and encode, with the mutex held.  The copy is of one version: how
\* it reads shard by shard is in Database.
Copy(s) ==
    /\ pc[s] = "copy"
    /\ entries' = [entries EXCEPT ![s] = db]
    /\ pc' = [pc EXCEPT ![s] = "open"]
    /\ UNCHANGED <<up, db, mutex, tmp, path, onDisk, asked, leaving>>

\* save returns, and the lock guard releases the mutex; main's exit code depends on
\* the outcome.
Leave(s, outcome) ==
    /\ pc' = [pc EXCEPT ![s] = "idle"]
    /\ mutex' = Nobody
    /\ exit' = IF s = Main THEN outcome ELSE exit

\* O_TRUNC: whatever an earlier crash left under the name is gone.
Open(s) ==
    /\ pc[s] = "open"
    /\ tmp' = [version |-> entries[s], blocks |-> 0, synced |-> FALSE]
    /\ pc' = [pc EXCEPT ![s] = "write"]
    /\ UNCHANGED <<up, db, mutex, entries, path, onDisk, asked, leaving>>

OpenFails(s) ==
    /\ pc[s] = "open"
    /\ Leave(s, "failed")
    /\ UNCHANGED <<up, db, entries, tmp, path, onDisk, asked, left>>

\* One turn of writeAll's loop.
Write(s) ==
    /\ pc[s] = "write"
    /\ ~Whole(tmp)
    /\ tmp' = [tmp EXCEPT !.blocks = @ + 1]
    /\ pc' = IF Whole(tmp') THEN [pc EXCEPT ![s] = "fsync"] ELSE pc
    /\ UNCHANGED <<up, db, mutex, entries, path, onDisk, asked, leaving>>

\* Mutant of Fsync: the flush is skipped.
FsyncSkipped(s) ==
    /\ pc[s] = "fsync"
    /\ pc' = [pc EXCEPT ![s] = "rename"]
    /\ UNCHANGED <<up, db, mutex, entries, tmp, path, onDisk, asked, leaving>>

Fsync(s) ==
    /\ pc[s] = "fsync"
    /\ tmp' = [tmp EXCEPT !.synced = TRUE]
    /\ pc' = [pc EXCEPT ![s] = "rename"]
    /\ UNCHANGED <<up, db, mutex, entries, path, onDisk, asked, leaving>>

\* Mutant of Fail: a failure returns without giving the mutex back.
FailHoldsMutex(s) ==
    /\ pc[s] \in {"write", "fsync", "rename"}
    /\ tmp' = Absent
    /\ pc' = [pc EXCEPT ![s] = "idle"]
    /\ UNCHANGED <<up, db, mutex, entries, path, onDisk, asked, leaving>>

\* write, fsync or rename fails: the temporary file is unlinked.
Fail(s) ==
    /\ pc[s] \in {"write", "fsync", "rename"}
    /\ tmp' = Absent
    /\ Leave(s, "failed")
    /\ UNCHANGED <<up, db, entries, path, onDisk, asked, left>>

Rename(s) ==
    /\ pc[s] = "rename"
    /\ path' = tmp
    /\ onDisk' = onDisk \cup {tmp}
    /\ tmp' = Absent
    /\ Leave(s, "ok")
    /\ UNCHANGED <<up, db, entries, asked, left>>

\* The file system writes its directory back in its own time.
DirectoryWriteback ==
    /\ onDisk # {path}
    /\ onDisk' = {path}
    /\ UNCHANGED <<up, db, mutex, pc, entries, tmp, path, asked, leaving>>

-----------------------------------------------------------------------------
\* Memory is gone: no thread, no lock, no keyspace.
Stopped ==
    /\ up' = FALSE
    /\ db' = 0
    /\ mutex' = Nobody
    /\ pc' = [s \in Savers |-> "idle"]
    /\ entries' = [s \in Savers |-> 0]
    /\ asked' = [s \in Savers |-> 0]
    /\ exit' = "no"

\* main returns, 0 if the last save succeeded and 1 if not.
MainReturns ==
    /\ exit \in {"ok", "failed"}
    /\ left' = IF exit = "ok" THEN db ELSE Absent
    /\ Stopped
    /\ UNCHANGED <<tmp, path, onDisk>>

\* The process dies; the files stay as the kernel has them.
ProcessDies ==
    /\ up
    /\ Stopped
    /\ UNCHANGED <<tmp, path, onDisk, left>>

\* What a power cut can leave of a file: all of it if it was synced, else a part.
Remnants(file) ==
    IF file = Absent \/ file.synced THEN {file}
    ELSE {[file EXCEPT !.blocks = b] : b \in 0..file.blocks}

PowerCut ==
    /\ up
    /\ Stopped
    /\ path' \in UNION {Remnants(file) : file \in onDisk}
    /\ tmp' \in {Absent} \cup UNION {Remnants(file) : file \in onDisk \cup {tmp}}
    /\ onDisk' = {path'}
    /\ left' = left

\* Server::start: no file is a first run, a whole one is restored, and with any
\* other the server refuses to start.
Start ==
    /\ ~up
    /\ path = Absent \/ Whole(path)
    /\ db' = IF path = Absent THEN 0 ELSE path.version
    /\ up' = TRUE
    /\ left' = Absent
    /\ UNCHANGED <<mutex, pc, entries, tmp, path, onDisk, asked, exit>>

SaveStep(s) ==
    \/ Lock(s) \/ Copy(s) \/ Open(s) \/ OpenFails(s)
    \/ Write(s) \/ Fsync(s) \/ Rename(s) \/ Fail(s)

Next ==
    \/ ClientWrite \/ DirectoryWriteback
    \/ \E s \in Savers : Call(s) \/ SaveStep(s)
    \/ RunReturns \/ MainReturns \/ ProcessDies \/ PowerCut \/ Start

Spec == Init /\ [][Next]_vars

\* The file calls return: the holder of the mutex gets on.
FairSpec == Spec /\ \A s \in Savers : WF_vars(SaveStep(s))

-----------------------------------------------------------------------------
Saving == {"open", "write", "fsync", "rename"}

\* Every variable has its type; no image is longer than its data.
TypeOK ==
    /\ up \in BOOLEAN
    /\ db \in Nat
    /\ mutex \in Savers \cup {Nobody}
    /\ pc \in [Savers -> {"idle", "lock", "copy"} \cup Saving]
    /\ entries \in [Savers -> Nat]
    /\ {tmp, path} \cup onDisk \subseteq Images \cup {Absent}
    /\ asked \in [Savers -> Nat]
    /\ exit \in {"no", "saving", "ok", "failed"}
    /\ left \in Nat \cup {Absent}

\* "a crash leaves either the complete old snapshot or the complete new one --
\* never a half-written file": whatever path_ names now, or could name after a
\* power cut, is absent or a whole image whose content is on disk.
SnapshotIntact ==
    \A file \in onDisk \cup {path} : file = Absent \/ (Whole(file) /\ file.synced)

\* "a SAVE command and a scheduled snapshot cannot fight over the temporary file":
\* from open to rename the file is the one saver's own, with its version and, once
\* written, all of its blocks.
TemporaryIsOwn ==
    \A s \in Savers :
        /\ pc[s] \in {"write", "fsync", "rename"} =>
              tmp # Absent /\ tmp.version = entries[s]
        /\ pc[s] \in {"fsync", "rename"} => Whole(tmp)

\* While the machine stays up no step replaces the snapshot by an older one: the
\* database is copied under the mutex, so saves publish in the order of copying,
\* and a restart begins from the file.
NeverPublishesOlder ==
    [][path' # path /\ path # Absent /\ up' =>
          path' # Absent /\ path'.version >= path.version]_vars

\* A save that succeeds has published every write made before it was called.
SaveCoversTheCall ==
    [][\A s \in Savers : Rename(s) => path'.version >= asked[s]]_vars

\* "A clean shutdown always takes a final snapshot, so a deliberate restart loses
\* nothing": after an exit with code 0 the next start finds every write.
RestartLosesNothing == [][Start /\ left # Absent => db' = left]_vars

\* Every way out of save, the failing ones included, releases the mutex.
MutexIsReleased == mutex # Nobody ~> mutex = Nobody
=============================================================================
