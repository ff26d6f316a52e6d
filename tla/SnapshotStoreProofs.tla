------------------------ MODULE SnapshotStoreProofs -------------------------
(***************************************************************************)
(* SnapshotStore for every set of savers, image size and version bound.    *)
(* That path_ is always intact rests on three facts about the saver in the *)
(* critical section: it is alone, the temporary file is its own, and the   *)
(* file is synced before the rename.  After them come the clocks an        *)
(* expiration goes through and the thread that saves at intervals.         *)
(***************************************************************************)
EXTENDS SnapshotStore, SnapshotClock, BackgroundLoop, TLAPS

\* The guard of mutex_ covers everything from the copy to the return.
Exclusive == \A s \in Savers : pc[s] \notin {"idle", "lock"} => mutex = s

\* fsync comes before rename.
SyncedFirst == \A s \in Savers : pc[s] = "rename" => tmp.synced

\* The snapshot is no newer than what is being saved, nor that than the database.
VersionsInOrder ==
    /\ path # Absent /\ up => path.version <= db
    /\ \A s \in Savers :
          /\ pc[s] # "idle" => up /\ asked[s] <= db
          /\ pc[s] \in Saving =>
                /\ asked[s] <= entries[s] /\ entries[s] <= db
                /\ path # Absent => path.version <= entries[s]

\* main saves alone, when nothing changes any more; what it has saved when it returns
\* is what was in memory, and stays until the next start.
ExitSaves ==
    /\ exit # "no" => up /\ \A s \in Savers \ {Main} : pc[s] = "idle"
    /\ pc[Main] # "idle" => exit = "saving"
    /\ pc[Main] \in Saving => entries[Main] = db
    /\ exit = "ok" => path # Absent /\ path.version = db
    /\ left # Absent => ~up /\ path # Absent /\ path.version = left

Inv ==
    /\ ExitSaves
    /\ TypeOK /\ Exclusive /\ TemporaryIsOwn /\ SyncedFirst
    /\ SnapshotIntact /\ VersionsInOrder
-----------------------------------------------------------------------------
\* What open leaves under the temporary name is an empty image.
LEMMA EmptyImage ==
    ASSUME NEW v \in Nat
    PROVE  /\ [version |-> v, blocks |-> 0, synced |-> FALSE] \in Images
           /\ [version |-> v, blocks |-> 0, synced |-> FALSE] # Absent
<1>1. 0 \in 0..Size
  BY SizeAssumption
<1>2. [version |-> v, blocks |-> 0, synced |-> FALSE] \in Images
  BY <1>1, Zenon DEF Images
<1> QED
  BY <1>2, AbsentAssumption, Zenon

\* What a power cut leaves of an image is an image.
LEMMA RemnantsAreImages ==
    ASSUME NEW file \in Images \cup {Absent}
    PROVE  Remnants(file) \subseteq Images \cup {Absent}
<1>1. CASE file = Absent \/ file.synced
  BY <1>1, Zenon DEF Remnants
<1>2. CASE file # Absent /\ ~file.synced
  <2>1. \A b \in 0..file.blocks : [file EXCEPT !.blocks = b] \in Images
    BY <1>2, SizeAssumption DEF Images
  <2> QED
    BY <1>2, <2>1, Zenon DEF Remnants
<1> QED
  BY <1>1, <1>2, Zenon

\* The first start: no files, nobody saving.
LEMMA InitInv == Init => Inv
<1> SUFFICES ASSUME Init PROVE Inv
  BY Zenon
<1> QED
  BY SaversAssumption, Zenon DEF Init, Inv, TypeOK, Exclusive, TemporaryIsOwn, SyncedFirst, SnapshotIntact,
         VersionsInOrder, ExitSaves, Saving, Whole

\* Every step keeps the types; the file a saver writes is an image.
LEMMA TypeStep == TypeOK /\ TemporaryIsOwn /\ [Next]_vars => TypeOK'
<1> SUFFICES ASSUME TypeOK, TemporaryIsOwn, [Next]_vars PROVE TypeOK'
  BY Zenon
<1> USE SizeAssumption, SaversAssumption, AbsentAssumption DEF TypeOK, TemporaryIsOwn, Saving, Images, Whole
<1>1. CASE ClientWrite
  BY <1>1 DEF ClientWrite, leaving
<1>2. CASE DirectoryWriteback
  BY <1>2, Zenon DEF DirectoryWriteback, leaving
<1>3. CASE ProcessDies
  BY <1>3, Zenon DEF ProcessDies, Stopped
<1>4. CASE PowerCut
  <2>1. {tmp', path'} \cup onDisk' \subseteq Images \cup {Absent}
    BY <1>4, RemnantsAreImages DEF PowerCut
  <2> QED
    BY <1>4, <2>1, Zenon DEF PowerCut, Stopped
<1>5. CASE Start
  BY <1>5, Zenon DEF Start
<1>6. ASSUME NEW s \in Savers, Call(s) PROVE TypeOK'
  BY <1>6, Zenon DEF Call, leaving
<1>7. ASSUME NEW s \in Savers, Lock(s) PROVE TypeOK'
  BY <1>7, Zenon DEF Lock, leaving
<1>8. ASSUME NEW s \in Savers, Copy(s) PROVE TypeOK'
  BY <1>8, Zenon DEF Copy, leaving
<1>9. ASSUME NEW s \in Savers, Open(s) PROVE TypeOK'
  <2>1. tmp' \in Images
    BY <1>9, EmptyImage, Zenon DEF Open, leaving
  <2> QED
    BY <1>9, <2>1, ZenonT(40) DEF Open, leaving
<1>10. ASSUME NEW s \in Savers, OpenFails(s) PROVE TypeOK'
  BY <1>10, Zenon DEF OpenFails, Leave
<1>11. ASSUME NEW s \in Savers, Write(s) PROVE TypeOK'
  BY <1>11 DEF Write, leaving
<1>12. ASSUME NEW s \in Savers, Fsync(s) PROVE TypeOK'
  BY <1>12, ZenonT(40) DEF Fsync, leaving
<1>13. ASSUME NEW s \in Savers, Rename(s) PROVE TypeOK'
  BY <1>13, Zenon DEF Rename, Leave
<1>14. ASSUME NEW s \in Savers, Fail(s) PROVE TypeOK'
  BY <1>14, Zenon DEF Fail, Leave
<1>15. CASE RunReturns
  BY <1>15, Zenon DEF RunReturns
<1>16. CASE MainReturns
  BY <1>16, Zenon DEF MainReturns, Stopped
<1>17. CASE UNCHANGED vars
  BY <1>17, Zenon DEF vars, leaving
<1> QED
  BY <1>1, <1>2, <1>3, <1>4, <1>5, <1>6, <1>7, <1>8, <1>9, <1>10, <1>11, <1>12, <1>13, <1>14, <1>15, <1>16, <1>17, Zenon DEF Next, SaveStep

\* Only the holder of mutex_ leaves the critical section, and only one enters.
LEMMA MutexStep == TypeOK /\ Exclusive /\ [Next]_vars => Exclusive'
<1> SUFFICES ASSUME TypeOK, Exclusive, [Next]_vars PROVE Exclusive'
  BY Zenon
<1> USE SizeAssumption, SaversAssumption, AbsentAssumption DEF TypeOK, Exclusive, Saving
<1>1. CASE ClientWrite
  BY <1>1, Zenon DEF ClientWrite, leaving
<1>2. CASE DirectoryWriteback
  BY <1>2, Zenon DEF DirectoryWriteback, leaving
<1>3. CASE ProcessDies
  BY <1>3, Zenon DEF ProcessDies, Stopped
<1>4. CASE PowerCut
  BY <1>4, Zenon DEF PowerCut, Stopped, Remnants
<1>5. CASE Start
  BY <1>5, Zenon DEF Start
<1>6. ASSUME NEW s \in Savers, Call(s) PROVE Exclusive'
  BY <1>6, Zenon DEF Call, leaving
<1>7. ASSUME NEW s \in Savers, Lock(s) PROVE Exclusive'
  BY <1>7, Zenon DEF Lock, leaving
<1>8. ASSUME NEW s \in Savers, Copy(s) PROVE Exclusive'
  BY <1>8, Zenon DEF Copy, leaving
<1>9. ASSUME NEW s \in Savers, Open(s) PROVE Exclusive'
  BY <1>9, Zenon DEF Open, leaving
<1>10. ASSUME NEW s \in Savers, OpenFails(s) PROVE Exclusive'
  BY <1>10, Zenon DEF OpenFails, Leave
<1>11. ASSUME NEW s \in Savers, Write(s) PROVE Exclusive'
  BY <1>11, Zenon DEF Write, leaving
<1>12. ASSUME NEW s \in Savers, Fsync(s) PROVE Exclusive'
  BY <1>12, Zenon DEF Fsync, leaving
<1>13. ASSUME NEW s \in Savers, Rename(s) PROVE Exclusive'
  BY <1>13, Zenon DEF Rename, Leave
<1>14. ASSUME NEW s \in Savers, Fail(s) PROVE Exclusive'
  BY <1>14, Zenon DEF Fail, Leave
<1>15. CASE RunReturns
  BY <1>15, Zenon DEF RunReturns
<1>16. CASE MainReturns
  BY <1>16, Zenon DEF MainReturns, Stopped
<1>17. CASE UNCHANGED vars
  BY <1>17, Zenon DEF vars, leaving
<1> QED
  BY <1>1, <1>2, <1>3, <1>4, <1>5, <1>6, <1>7, <1>8, <1>9, <1>10, <1>11, <1>12, <1>13, <1>14, <1>15, <1>16, <1>17, Zenon DEF Next, SaveStep

\* With the mutex held nobody else opens, writes or unlinks the temporary file.
LEMMA TemporaryStep == TypeOK /\ Exclusive /\ TemporaryIsOwn /\ SyncedFirst /\ [Next]_vars => (TemporaryIsOwn /\ SyncedFirst)'
<1> SUFFICES ASSUME TypeOK, Exclusive, TemporaryIsOwn, SyncedFirst, [Next]_vars PROVE (TemporaryIsOwn /\ SyncedFirst)'
  BY Zenon
<1> USE SizeAssumption, SaversAssumption, AbsentAssumption DEF TypeOK, Exclusive, TemporaryIsOwn, SyncedFirst, Saving, Images, Whole
<1>1. CASE ClientWrite
  BY <1>1, Zenon DEF ClientWrite, leaving
<1>2. CASE DirectoryWriteback
  BY <1>2, Zenon DEF DirectoryWriteback, leaving
<1>3. CASE ProcessDies
  BY <1>3, Zenon DEF ProcessDies, Stopped
<1>4. CASE PowerCut
  BY <1>4, Zenon DEF PowerCut, Stopped, Remnants
<1>5. CASE Start
  BY <1>5, Zenon DEF Start
<1>6. ASSUME NEW s \in Savers, Call(s) PROVE (TemporaryIsOwn /\ SyncedFirst)'
  BY <1>6, Zenon DEF Call, leaving
<1>7. ASSUME NEW s \in Savers, Lock(s) PROVE (TemporaryIsOwn /\ SyncedFirst)'
  BY <1>7, Zenon DEF Lock, leaving
<1>8. ASSUME NEW s \in Savers, Copy(s) PROVE (TemporaryIsOwn /\ SyncedFirst)'
  BY <1>8, Zenon DEF Copy, leaving
<1>9. ASSUME NEW s \in Savers, Open(s) PROVE (TemporaryIsOwn /\ SyncedFirst)'
  <2>1. tmp' # Absent /\ tmp'.version = entries[s]
    BY <1>9, EmptyImage, Zenon DEF Open, leaving
  <2> QED
    BY <1>9, <2>1, Zenon DEF Open, leaving
<1>10. ASSUME NEW s \in Savers, OpenFails(s) PROVE (TemporaryIsOwn /\ SyncedFirst)'
  BY <1>10, Zenon DEF OpenFails, Leave
<1>11. ASSUME NEW s \in Savers, Write(s) PROVE (TemporaryIsOwn /\ SyncedFirst)'
  BY <1>11 DEF Write, leaving
<1>12. ASSUME NEW s \in Savers, Fsync(s) PROVE (TemporaryIsOwn /\ SyncedFirst)'
  BY <1>12, ZenonT(40) DEF Fsync, leaving
<1>13. ASSUME NEW s \in Savers, Rename(s) PROVE (TemporaryIsOwn /\ SyncedFirst)'
  BY <1>13, Zenon DEF Rename, Leave
<1>14. ASSUME NEW s \in Savers, Fail(s) PROVE (TemporaryIsOwn /\ SyncedFirst)'
  BY <1>14, Zenon DEF Fail, Leave
<1>15. CASE RunReturns
  BY <1>15, Zenon DEF RunReturns
<1>16. CASE MainReturns
  BY <1>16, Zenon DEF MainReturns, Stopped
<1>17. CASE UNCHANGED vars
  BY <1>17, Zenon DEF vars, leaving
<1> QED
  BY <1>1, <1>2, <1>3, <1>4, <1>5, <1>6, <1>7, <1>8, <1>9, <1>10, <1>11, <1>12, <1>13, <1>14, <1>15, <1>16, <1>17, Zenon DEF Next, SaveStep

\* Only a whole and synced file is renamed, and a power cut leaves those alone.
LEMMA IntactStep == TypeOK /\ TemporaryIsOwn /\ SyncedFirst /\ SnapshotIntact /\ [Next]_vars => SnapshotIntact'
<1> SUFFICES ASSUME TypeOK, TemporaryIsOwn, SyncedFirst, SnapshotIntact, [Next]_vars PROVE SnapshotIntact'
  BY Zenon
<1> USE SizeAssumption, SaversAssumption, AbsentAssumption DEF TypeOK, TemporaryIsOwn, SyncedFirst, SnapshotIntact, Saving, Images, Whole
<1>1. CASE ClientWrite
  BY <1>1, Zenon DEF ClientWrite, leaving
<1>2. CASE DirectoryWriteback
  BY <1>2, Zenon DEF DirectoryWriteback, leaving
<1>3. CASE ProcessDies
  BY <1>3, Zenon DEF ProcessDies, Stopped
<1>4. CASE PowerCut
  BY <1>4 DEF PowerCut, Stopped, Remnants
<1>5. CASE Start
  BY <1>5, Zenon DEF Start
<1>6. ASSUME NEW s \in Savers, Call(s) PROVE SnapshotIntact'
  BY <1>6, Zenon DEF Call, leaving
<1>7. ASSUME NEW s \in Savers, Lock(s) PROVE SnapshotIntact'
  BY <1>7, Zenon DEF Lock, leaving
<1>8. ASSUME NEW s \in Savers, Copy(s) PROVE SnapshotIntact'
  BY <1>8, Zenon DEF Copy, leaving
<1>9. ASSUME NEW s \in Savers, Open(s) PROVE SnapshotIntact'
  BY <1>9, Zenon DEF Open, leaving
<1>10. ASSUME NEW s \in Savers, OpenFails(s) PROVE SnapshotIntact'
  BY <1>10, Zenon DEF OpenFails, Leave
<1>11. ASSUME NEW s \in Savers, Write(s) PROVE SnapshotIntact'
  BY <1>11, Zenon DEF Write, leaving
<1>12. ASSUME NEW s \in Savers, Fsync(s) PROVE SnapshotIntact'
  BY <1>12, Zenon DEF Fsync, leaving
<1>13. ASSUME NEW s \in Savers, Rename(s) PROVE SnapshotIntact'
  BY <1>13, Zenon DEF Rename, Leave
<1>14. ASSUME NEW s \in Savers, Fail(s) PROVE SnapshotIntact'
  BY <1>14, Zenon DEF Fail, Leave
<1>15. CASE RunReturns
  BY <1>15, Zenon DEF RunReturns
<1>16. CASE MainReturns
  BY <1>16, Zenon DEF MainReturns, Stopped
<1>17. CASE UNCHANGED vars
  BY <1>17, Zenon DEF vars, leaving
<1> QED
  BY <1>1, <1>2, <1>3, <1>4, <1>5, <1>6, <1>7, <1>8, <1>9, <1>10, <1>11, <1>12, <1>13, <1>14, <1>15, <1>16, <1>17, Zenon DEF Next, SaveStep

\* Saves publish in the order in which they copied the database.
LEMMA VersionStep == TypeOK /\ Exclusive /\ TemporaryIsOwn /\ SnapshotIntact /\ VersionsInOrder /\ [Next]_vars => VersionsInOrder'
<1> SUFFICES ASSUME TypeOK, Exclusive, TemporaryIsOwn, SnapshotIntact, VersionsInOrder, [Next]_vars PROVE VersionsInOrder'
  BY Zenon
<1> USE SizeAssumption, SaversAssumption, AbsentAssumption DEF TypeOK, Exclusive, TemporaryIsOwn, VersionsInOrder, Saving, Images, Whole
<1>1. CASE ClientWrite
  BY <1>1 DEF ClientWrite, leaving
<1>2. CASE DirectoryWriteback
  BY <1>2, Zenon DEF DirectoryWriteback, leaving
<1>3. CASE ProcessDies
  BY <1>3, Zenon DEF ProcessDies, Stopped
<1>4. CASE PowerCut
  BY <1>4, Zenon DEF PowerCut, Stopped, Remnants
<1>5. CASE Start
  BY <1>5 DEF Start
<1>6. ASSUME NEW s \in Savers, Call(s) PROVE VersionsInOrder'
  BY <1>6 DEF Call, leaving
<1>7. ASSUME NEW s \in Savers, Lock(s) PROVE VersionsInOrder'
  BY <1>7, Zenon DEF Lock, leaving
<1>8. ASSUME NEW s \in Savers, Copy(s) PROVE VersionsInOrder'
  BY <1>8 DEF Copy, leaving
<1>9. ASSUME NEW s \in Savers, Open(s) PROVE VersionsInOrder'
  BY <1>9, Zenon DEF Open, leaving
<1>10. ASSUME NEW s \in Savers, OpenFails(s) PROVE VersionsInOrder'
  BY <1>10, Zenon DEF OpenFails, Leave
<1>11. ASSUME NEW s \in Savers, Write(s) PROVE VersionsInOrder'
  BY <1>11, Zenon DEF Write, leaving
<1>12. ASSUME NEW s \in Savers, Fsync(s) PROVE VersionsInOrder'
  BY <1>12, Zenon DEF Fsync, leaving
<1>13. ASSUME NEW s \in Savers, Rename(s) PROVE VersionsInOrder'
  BY <1>13, Zenon DEF Rename, Leave
<1>14. ASSUME NEW s \in Savers, Fail(s) PROVE VersionsInOrder'
  BY <1>14, Zenon DEF Fail, Leave
<1>15. CASE RunReturns
  BY <1>15, Zenon DEF RunReturns
<1>16. CASE MainReturns
  BY <1>16, Zenon DEF MainReturns, Stopped
<1>17. CASE UNCHANGED vars
  BY <1>17, Zenon DEF vars, leaving
<1> QED
  BY <1>1, <1>2, <1>3, <1>4, <1>5, <1>6, <1>7, <1>8, <1>9, <1>10, <1>11, <1>12, <1>13, <1>14, <1>15, <1>16, <1>17, Zenon DEF Next, SaveStep

\* After run has returned only main changes anything, and only by saving.
LEMMA ExitStep == TypeOK /\ TemporaryIsOwn /\ VersionsInOrder /\ ExitSaves /\ [Next]_vars => ExitSaves'
<1> SUFFICES ASSUME TypeOK, TemporaryIsOwn, VersionsInOrder, ExitSaves, [Next]_vars PROVE ExitSaves'
  BY Zenon
<1> USE SaversAssumption DEF TypeOK, TemporaryIsOwn, ExitSaves, Saving, leaving
<1>1. CASE ClientWrite
  BY <1>1, Zenon DEF ClientWrite
<1>2. CASE DirectoryWriteback
  BY <1>2, Zenon DEF DirectoryWriteback
<1>3. CASE ProcessDies
  BY <1>3, Zenon DEF ProcessDies, Stopped
<1>4. CASE PowerCut
  BY <1>4, Zenon DEF PowerCut, Stopped
<1>5. CASE Start
  BY <1>5, Zenon DEF Start
<1>6. ASSUME NEW s \in Savers, Call(s) PROVE ExitSaves'
  BY <1>6, Zenon DEF Call
<1>7. ASSUME NEW s \in Savers, Lock(s) PROVE ExitSaves'
  BY <1>7, Zenon DEF Lock
<1>8. ASSUME NEW s \in Savers, Copy(s) PROVE ExitSaves'
  BY <1>8, Zenon DEF Copy
<1>9. ASSUME NEW s \in Savers, Open(s) PROVE ExitSaves'
  BY <1>9, Zenon DEF Open
<1>10. ASSUME NEW s \in Savers, OpenFails(s) PROVE ExitSaves'
  BY <1>10, Zenon DEF OpenFails, Leave
<1>11. ASSUME NEW s \in Savers, Write(s) PROVE ExitSaves'
  BY <1>11, Zenon DEF Write
<1>12. ASSUME NEW s \in Savers, Fsync(s) PROVE ExitSaves'
  BY <1>12, Zenon DEF Fsync
<1>13. ASSUME NEW s \in Savers, Rename(s) PROVE ExitSaves'
  <2>1. path' = tmp /\ tmp # Absent /\ tmp.version = entries[s]
    BY <1>13, Zenon DEF Rename
  <2>2. CASE s = Main
    <3>1. entries[Main] = db /\ pc[Main] # "idle"
      BY <1>13, <2>2, Zenon DEF Rename
    <3> QED
      BY <1>13, <2>1, <2>2, <3>1, Zenon DEF Rename, Leave
  <2>3. CASE s # Main
    <3>1. exit = "no" /\ up /\ left = Absent
      BY <1>13, <2>3, Zenon DEF Rename, VersionsInOrder
    <3> QED
      BY <1>13, <2>3, <3>1, Zenon DEF Rename, Leave
  <2> QED
    BY <2>2, <2>3, Zenon
<1>14. ASSUME NEW s \in Savers, Fail(s) PROVE ExitSaves'
  BY <1>14, Zenon DEF Fail, Leave
<1>15. CASE RunReturns
  BY <1>15, Zenon DEF RunReturns
<1>16. CASE MainReturns
  BY <1>16, Zenon DEF MainReturns, Stopped
<1>17. CASE UNCHANGED vars
  BY <1>17, Zenon DEF vars
<1> QED
  BY <1>1, <1>2, <1>3, <1>4, <1>5, <1>6, <1>7, <1>8, <1>9, <1>10, <1>11, <1>12, <1>13, <1>14, <1>15, <1>16, <1>17, Zenon DEF Next, SaveStep

-----------------------------------------------------------------------------
\* The inductive invariant, from the step lemmas.
LEMMA Invariance == Spec => []Inv
<1>1. Inv /\ [Next]_vars => Inv'
  BY TypeStep, MutexStep, TemporaryStep, IntactStep, VersionStep, ExitStep, Zenon DEF Inv
<1> QED
  BY InitInv, <1>1, PTL DEF Spec

\* Every variable of the store keeps its type (Persistence.cpp, save and load).
THEOREM TypeCorrect == Spec => []TypeOK
<1>1. Inv => TypeOK
  BY Zenon DEF Inv
<1> QED
  BY Invariance, <1>1, PTL

\* Whenever the process dies or the power goes, path_ is absent or a complete
\* snapshot whose content is on disk.
THEOREM CrashSafe == Spec => []SnapshotIntact
<1>1. Inv => SnapshotIntact
  BY Zenon DEF Inv
<1> QED
  BY Invariance, <1>1, PTL

\* Any number of SAVE commands and the scheduler share one temporary file without
\* ever writing into each other's.
THEOREM OneWriter == Spec => []TemporaryIsOwn
<1>1. Inv => TemporaryIsOwn
  BY Zenon DEF Inv
<1> QED
  BY Invariance, <1>1, PTL

\* No save replaces the snapshot by an older one.
THEOREM Monotone == Spec => NeverPublishesOlder
<1>1. Inv /\ [Next]_vars =>
        [path' # path /\ path # Absent /\ up' =>
            path' # Absent /\ path'.version >= path.version]_vars
  <2> SUFFICES ASSUME Inv, [Next]_vars, path' # path, path # Absent, up'
               PROVE  path' # Absent /\ path'.version >= path.version
    BY Zenon
  <2>1. PICK s \in Savers : Rename(s)
    BY Zenon DEF Next, SaveStep, ClientWrite, DirectoryWriteback, Call, Lock, Copy, Open,
           OpenFails, Write, Fsync, Fail, ProcessDies, PowerCut, Stopped, Start, RunReturns, MainReturns, leaving, vars
  <2> QED
    BY <2>1, Zenon DEF Inv, TypeOK, Images, TemporaryIsOwn, VersionsInOrder, Saving, Rename
<1> QED
  BY Invariance, <1>1, PTL DEF Spec, NeverPublishesOlder

\* A save that reports success has written every change made before the call.
THEOREM SaveIsComplete == Spec => SaveCoversTheCall
<1>1. Inv /\ [Next]_vars =>
        [\A s \in Savers : Rename(s) => path'.version >= asked[s]]_vars
  BY Zenon DEF Inv, TypeOK, TemporaryIsOwn, VersionsInOrder, Saving, Rename
<1> QED
  BY Invariance, <1>1, PTL DEF Spec, SaveCoversTheCall

\* A process that ends with code 0 has saved everything it had, and the next start
\* finds it.
THEOREM CleanRestart == Spec => RestartLosesNothing
<1>1. Inv /\ [Next]_vars => [Start /\ left # Absent => db' = left]_vars
  BY Zenon DEF Inv, ExitSaves, Start
<1> QED
  BY Invariance, <1>1, PTL DEF Spec, RestartLosesNothing

-----------------------------------------------------------------------------
\* A cast (duration_cast) is off by less than a unit.
LEMMA CastBounds ==
    ASSUME NEW d \in Int
    PROVE  /\ Cast(d, Micro) \in Int
           /\ Cast(d, Micro) * Micro < d + Micro
           /\ Cast(d, Micro) * Micro > d - Micro
           /\ d >= 0 => Cast(d, Micro) * Micro <= d
  BY SMTT(60) DEF Cast, Micro

\* An expiry that is written at t1, t2 by a process whose steady clock started at
\* s1 and read back at t3, t4 by one whose steady clock started at s2.  The code
\* (toWallClockMillis, fromWallClockMillis) has no lock on time: it may pass between
\* any two of the four readings.
\*
\* The restored key expires no more than a millisecond and two microseconds early,
\* and late by less than two microseconds and the time between the paired readings.
\* One that is dropped had no more than that millisecond to live.  And no expiry
\* becomes 0, which the file format takes for none, unless it is in the first two
\* milliseconds of 1970.
THEOREM ExpiryKept ==
    ASSUME NEW expiry \in Int, NEW s1 \in Int, NEW s2 \in Int,
           NEW t1 \in Nat, NEW t2 \in Nat, NEW t3 \in Nat, NEW t4 \in Nat,
           t1 <= t2, t2 <= t3, t3 <= t4,
           expiry + s1 >= 2 * Milli
    PROVE  LET millis == toWallClockMillis(expiry, s1, t1, t2)
               restored == fromWallClockMillis(millis, s2, t3, t4) + s2
               passed == (t2 - t1) + (t4 - t3)
           IN  /\ restored > expiry + s1 + passed - Milli - 2 * Micro
               /\ restored < expiry + s1 + passed + 2 * Micro
               /\ Lapsed(millis, t3) => expiry + s1 < t3 + Milli + 2 * Micro
               /\ millis # 0
  <1> DEFINE remains == Cast(expiry - steady(t1, s1), Micro)
             due == wall(t2) + remains
             millis == Cast(due, Micro)
             restored == fromWallClockMillis(millis, s2, t3, t4) + s2
  <1>1. /\ remains \in Int
        /\ remains * Micro < expiry + s1 - t1 + Micro
        /\ remains * Micro > expiry + s1 - t1 - Micro
    <2>1. expiry - steady(t1, s1) \in Int /\ expiry - steady(t1, s1) = expiry + s1 - t1
      BY DEF steady
    <2>2. QED
      BY <2>1, CastBounds, SMTT(60) DEF Micro
  <1>2. \A t \in Nat : wall(t) \in Int /\ wall(t) * Micro <= t /\ wall(t) * Micro > t - Micro
    BY SMTT(60) DEF wall, Micro
  <1> HIDE DEF remains
  <1>3. /\ due \in Int /\ due > 1000
        /\ due * Micro < expiry + s1 + (t2 - t1) + Micro
        /\ due * Micro > expiry + s1 + (t2 - t1) - 2 * Micro
    BY <1>1, <1>2, SMTT(60) DEF Micro, Milli
  <1> HIDE DEF due
  <1>4. millis \in Int /\ millis * Micro <= due /\ millis * Micro > due - Micro
    <2>1. due >= 0
      BY <1>3, SMTT(60)
    <2>2. QED
      BY <1>3, <2>1, CastBounds, SMTT(60)
  <1> HIDE DEF millis
  <1>5. millis # 0
    BY <1>3, <1>4, SMTT(60) DEF Micro
  <1>6. /\ restored = t4 + (millis * Micro - wall(t3)) * Micro
        /\ Lapsed(millis, t3) <=> millis * Micro <= wall(t3)
    BY <1>2, <1>4, SMTT(60) DEF fromWallClockMillis, Lapsed, Remaining, steady, Micro
  <1>7. /\ restored > expiry + s1 + ((t2 - t1) + (t4 - t3)) - Milli - 2 * Micro
        /\ restored < expiry + s1 + ((t2 - t1) + (t4 - t3)) + 2 * Micro
        /\ Lapsed(millis, t3) => expiry + s1 < t3 + Milli + 2 * Micro
    BY <1>2, <1>3, <1>4, <1>6, SMTT(60) DEF Micro, Milli
  <1>8. QED
    BY <1>5, <1>7, Zenon DEF toWallClockMillis, millis, due, remains

-----------------------------------------------------------------------------
(* The threads that save and sweep by the clock, for every set of loops.  A *)
(* loop ends only on a request, and between calls a live loop has none      *)
(* pending: that is what makes running_ truthful after any sequence of      *)
(* starts and stops.                                                        *)

\* stopRequested_ is up from stop to the next start, and never else.
RequestIsCurrent ==
    \A l \in Loops :
        /\ owner[l] = "spawn" => ~stopRequested[l]
        /\ owner[l] = "idle" /\ running[l] => ~stopRequested[l]
        /\ thread[l] = "exited" => owner[l] \in {"notify", "join"}
        /\ owner[l] \in {"reset", "spawn"} => running[l]

LoopInv == LoopTypeOK /\ OneThread /\ RunningIsAlive /\ RequestIsCurrent

\* A loop that was never started.
LEMMA LoopInitInv == LoopInit => LoopInv
<1> QED
  BY SMTT(30) DEF LoopInit, LoopInv, LoopTypeOK, OneThread, RunningIsAlive, RequestIsCurrent

\* Each step of an owner or of a loop keeps the invariant.
LEMMA LoopStep == LoopInv /\ [LoopNext]_loopVars => LoopInv'
<1> SUFFICES ASSUME LoopInv, [LoopNext]_loopVars PROVE LoopInv'
  OBVIOUS
<1> USE DEF LoopInv, LoopTypeOK, OneThread, RunningIsAlive, RequestIsCurrent
<1>1. ASSUME NEW l \in Loops, StartLoop(l) PROVE LoopInv'
  BY <1>1 DEF StartLoop
<1>2. ASSUME NEW l \in Loops, Reset(l) PROVE LoopInv'
  BY <1>2 DEF Reset
<1>3. ASSUME NEW l \in Loops, Spawn(l) PROVE LoopInv'
  BY <1>3 DEF Spawn
<1>4. ASSUME NEW l \in Loops, Stop(l) PROVE LoopInv'
  BY <1>4 DEF Stop
<1>5. ASSUME NEW l \in Loops, NotifyAll(l) PROVE LoopInv'
  BY <1>5 DEF NotifyAll
<1>6. ASSUME NEW l \in Loops, Join(l) PROVE LoopInv'
  BY <1>6 DEF Join
<1>7. ASSUME NEW l \in Loops, Check(l) PROVE LoopInv'
  BY <1>7 DEF Check
<1>8. ASSUME NEW l \in Loops, SpuriousWakeup(l) PROVE LoopInv'
  BY <1>8 DEF SpuriousWakeup
<1>9. ASSUME NEW l \in Loops, Timeout(l) PROVE LoopInv'
  BY <1>9 DEF Timeout
<1>10. ASSUME NEW l \in Loops, Job(l) PROVE LoopInv'
  BY <1>10 DEF Job
<1>11. CASE UNCHANGED loopVars
  BY <1>11 DEF loopVars
<1> QED
  BY <1>1, <1>2, <1>3, <1>4, <1>5, <1>6, <1>7, <1>8, <1>9, <1>10, <1>11
     DEF LoopNext, OwnerStep

\* The inductive invariant.
LEMMA LoopInvariance == LoopSpec => []LoopInv
<1> QED
  BY LoopInitInv, LoopStep, PTL DEF LoopSpec

\* Every variable keeps its type (ExpirationSweeper.cpp, SnapshotScheduler.cpp).
THEOREM LoopTypeCorrect == LoopSpec => []LoopTypeOK
<1>1. LoopInv => LoopTypeOK
  BY DEF LoopInv
<1> QED
  BY LoopInvariance, <1>1, PTL

\* start never assigns to a std::thread that is still joinable.
THEOREM NeverTwoThreads == LoopSpec => []OneThread
<1>1. LoopInv => OneThread
  BY DEF LoopInv
<1> QED
  BY LoopInvariance, <1>1, PTL

\* After start the loop lives until stop; after stop no thread is left.
THEOREM RunningIsTruthful == LoopSpec => []RunningIsAlive
<1>1. LoopInv => RunningIsAlive
  BY DEF LoopInv
<1> QED
  BY LoopInvariance, <1>1, PTL
=============================================================================
