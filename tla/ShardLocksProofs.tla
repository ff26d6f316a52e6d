-------------------------- MODULE ShardLocksProofs --------------------------
(***************************************************************************)
(* Proofs about ShardLocks, for any number of threads and keys, any jobs   *)
(* and any limit: the inductive invariant, who holds which lock, why each  *)
(* pointer write under lruMutex_ keeps the recency list linked, what is on *)
(* the chains, on the list and on the heap, and the safety properties that *)
(* follow.                                                                 *)
(***************************************************************************)
EXTENDS ShardLocks, TLAPS

\* Which operation can be where, and on what errand and for which node it goes for
\* lruMutex_.
Errands ==
    \A t \in Threads :
        /\ pc[t] = "idle" => node[t] = Null
        /\ pc[t] # "idle" => op[t] \in Ops
        /\ op[t] \in {"get", "set", "del"} => key[t] \in Keys
        /\ op[t] = "get" => pc[t] \in {"idle", "body", "lock", "release"} \cup Linking
        /\ pc[t] = "evict" => op[t] \in {"set", "sweep"}
        /\ pc[t] \in {"lock"} \cup Linking =>
              /\ task[t] \in Tasks
              /\ task[t] = "touch" <=> op[t] = "get"
              /\ task[t] \in {"promote", "insert", "peek"} => op[t] = "set"
              /\ task[t] \in {"touch", "promote", "insert", "drop"} => node[t] \in Keys
        /\ pc[t] \in {"unlinkNext", "unlinkSelf"} => task[t] \in {"touch", "promote", "drop"}
        /\ pc[t] \in {"pushSelf", "pushHead", "pushEnd"} => task[t] \in {"touch", "promote", "insert"}
        /\ pc[t] = "remove" => node[t] \in Keys /\ op[t] \in {"set", "del", "sweep"}
        /\ pc[t] \in {"lock", "free"} \cup Linking =>
              /\ task[t] = "drop" => op[t] \in {"set", "del", "sweep"}
              /\ task[t] = "wipe" => op[t] = "clear"
        /\ pc[t] = "free" => task[t] = "wipe" \/ (task[t] = "drop" /\ node[t] \in Keys)

\* Who holds which lock, and where.
Holders ==
    /\ \A t \in Threads : lru = t <=> pc[t] \in Linking
    /\ writer # Null => readers = {}
    /\ \A t \in Threads :
          /\ t \in readers <=> pc[t] # "idle" /\ op[t] = "get"
          /\ writer = t <=> pc[t] # "idle" /\ op[t] # "get"

\* What is stored, on the list and allocated, at each place of a writer, and that
\* the node of a reader is stored.
StoredBy(t) ==
    /\ node[t] # Null => node[t] \in heap
    /\ pc[t] \in {"lock"} \cup Linking /\ op[t] = "get" => node[t] \in chain
    /\ op[t] = "sweep" => dead[t] \subseteq chain /\ (pc[t] = "remove" => node[t] \notin dead[t])
    /\ op[t] # "sweep" \/ pc[t] \in {"idle", "body", "release"} => dead[t] = {}
    /\ writer = t =>
          /\ pc[t] \in {"body", "evict", "remove", "release"} => listed = chain /\ chain = heap
          /\ pc[t] = "remove" => node[t] \in chain
          /\ pc[t] = "lock" =>
                /\ task[t] \in {"promote", "peek", "wipe"} => listed = chain /\ chain = heap
                /\ task[t] = "insert" => node[t] \notin listed /\ chain = listed \cup {node[t]} /\ chain = heap
                /\ task[t] = "drop" => listed = heap /\ chain = heap \ {node[t]}
          /\ pc[t] \in Linking \cup {"free"} =>
                /\ task[t] \in {"promote", "insert", "peek"} => listed = chain /\ chain = heap
                /\ task[t] = "drop" => listed = chain /\ chain = heap \ {node[t]}
                /\ task[t] = "wipe" => listed = {} /\ chain = heap
          /\ pc[t] \in {"lock"} \cup Linking /\ task[t] \in {"promote", "insert", "drop"} => node[t] # Null

Stored ==
    /\ writer = Null => listed = chain /\ chain = heap
    /\ \A t \in Threads : StoredBy(t)

\* O orders L, strictly and totally.
Order(L, O) ==
    /\ \A a \in L : O[a] \subseteq L /\ a \notin O[a]
    /\ \A a, b \in L : a # b => (b \in O[a] \/ a \in O[b])
    /\ \A a, b, c \in L : b \in O[a] /\ c \in O[b] => c \in O[a]

\* The order without n.
But(O, n) == [k \in Keys |-> IF k = n THEN {} ELSE O[k] \ {n}]

\* p and s are neighbours in L, or an end of it and nothing.
Adjacent(L, O, p, s) ==
    /\ p \in L \cup {Null} /\ s \in L \cup {Null}
    /\ p # Null /\ s # Null => Follows(L, O, p, s)
    /\ p = Null /\ s # Null => Latest(L, O, s)
    /\ p # Null /\ s = Null => Oldest(L, O, p)
    /\ p = Null /\ s = Null => L = {}

\* The same with n linked in behind p, and before s.
NextVia(h, nx, L, O, n, p) ==
    /\ p = Null => h = n
    /\ p # Null => HeadOf(h, L, O) /\ nx[p] = n
    /\ \A a \in L \ {p} : NextIs(nx[a], L, O, a)
PrevVia(e, pv, L, O, n, s) ==
    /\ s = Null => e = n
    /\ s # Null => TailOf(e, L, O) /\ pv[s] = n
    /\ \A a \in L \ {s} : PrevIs(pv[a], L, O, a)

\* How far a thread at label has come with job and node n; L and O are the order
\* without n.
Midway(label, job, n, L, O) ==
    /\ label = "list" =>
          /\ job = "peek" => Whole(head, tail, next, prev, listed, older)
          /\ job = "insert" => Whole(head, tail, next, prev, L, O)
          /\ job \in {"touch", "promote", "drop"} =>
                /\ Adjacent(L, O, prev[n], next[n])
                /\ NextVia(head, next, L, O, n, prev[n]) /\ PrevVia(tail, prev, L, O, n, next[n])
    /\ label = "unlinkNext" =>
          /\ Adjacent(L, O, prev[n], next[n])
          /\ HeadOf(head, L, O) /\ \A a \in L : NextIs(next[a], L, O, a)
          /\ PrevVia(tail, prev, L, O, n, next[n])
    /\ label \in {"unlinkSelf", "pushSelf", "pushHead"} => Whole(head, tail, next, prev, L, O)
    /\ label = "pushHead" => next[n] = head /\ prev[n] = Null
    /\ label = "pushEnd" =>
          /\ HeadOf(head, listed, older) /\ TailOf(tail, L, O)
          /\ \A a \in listed : NextIs(next[a], listed, older, a) /\ PrevIs(prev[a], listed, older, a)
    /\ label = "unlock" =>
          /\ Whole(head, tail, next, prev, listed, older)
          /\ job = "peek" => n = tail

Linked ==
    /\ Order(listed, older) /\ \A k \in Keys \ listed : older[k] = {}
    /\ lru = Null => Whole(head, tail, next, prev, listed, older)
    /\ \A t \in Threads :
          /\ pc[t] \in Linking =>
                Midway(pc[t], task[t], node[t], listed \ {node[t]}, But(older, node[t]))
          /\ pc[t] \in Linking /\ task[t] \in {"touch", "promote", "insert"} =>
                node[t] \in listed /\ older[node[t]] = listed \ {node[t]}
          /\ pc[t] \in Linking /\ task[t] = "drop" => node[t] \notin listed

\* At the start every thread is idle and no errand is under way.
LEMMA ErrandsInit == Init => TypeOK /\ Errands
BY NullAssumption, SMTT(40) DEF Init, TypeOK, Errands, Pointers, Labels, Linking

\* Types are kept, given what each thread can be doing.
LEMMA TypeStep == TypeOK /\ Errands /\ [Next]_vars => TypeOK'
<1> SUFFICES ASSUME TypeOK /\ Errands, [Next]_vars PROVE TypeOK'
  BY Zenon
<1> USE NullAssumption, JobsAssumption DEF TypeOK, Errands, Pointers, Labels, Linking, Tasks, Ops,
             locks, list, order, Goto, Enlist
<1>1. CASE UNCHANGED vars
  BY <1>1, Zenon DEF vars
<1> SUFFICES ASSUME NEW t \in Threads, Start(t) \/ Step(t) PROVE TypeOK'
  BY <1>1, Zenon DEF Next
<1>2. CASE Start(t)
  BY <1>2 DEF Start, Begin
<1>3. CASE Get(t)
  BY <1>3 DEF Get
<1>4. CASE Set(t)
  BY <1>4, SMTT(40) DEF Set
<1>5. CASE Del(t)
  BY <1>5 DEF Del
<1>6. CASE Sweep(t)
  BY <1>6 DEF Sweep
<1>7. CASE Clear(t)
  BY <1>7, Zenon DEF Clear
<1>8. CASE Evict(t)
  BY <1>8 DEF Evict
<1>9. CASE Remove(t)
  BY <1>9, Zenon DEF Remove
<1>10. CASE Free(t)
  BY <1>10 DEF Free
<1>11. CASE Release(t)
  BY <1>11, Zenon DEF Release
<1>12. CASE Lock(t)
  BY <1>12, SMTT(40) DEF Lock, Use
<1>13. CASE List(t)
  BY <1>13, SMTT(40) DEF List
<1>14. CASE UnlinkNext(t)
  BY <1>14 DEF UnlinkNext
<1>15. CASE UnlinkSelf(t)
  BY <1>15, Zenon DEF UnlinkSelf
<1>16. CASE PushSelf(t)
  BY <1>16, Zenon DEF PushSelf
<1>17. CASE PushHead(t)
  BY <1>17, Zenon DEF PushHead
<1>18. CASE PushEnd(t)
  BY <1>18, Zenon DEF PushEnd
<1>19. CASE Unlock(t)
  BY <1>19, SMTT(40) DEF Unlock
<1> QED
  BY <1>2, <1>3, <1>4, <1>5, <1>6, <1>7, <1>8, <1>9, <1>10, <1>11, <1>12, <1>13, ZenonT(40),
     <1>14, <1>15, <1>16, <1>17, <1>18, <1>19 DEF Step

\* Threads stay on their errands.
LEMMA ErrandsStep == TypeOK /\ Errands /\ [Next]_vars => Errands'
<1> SUFFICES ASSUME TypeOK /\ Errands, [Next]_vars PROVE Errands'
  BY Zenon
<1> USE NullAssumption, JobsAssumption DEF TypeOK, Errands, Pointers, Labels, Linking, Tasks, Ops,
             locks, list, order, Goto, Enlist
<1>1. CASE UNCHANGED vars
  BY <1>1, ZenonT(40) DEF vars
<1> SUFFICES ASSUME NEW t \in Threads, Start(t) \/ Step(t) PROVE Errands'
  BY <1>1, Zenon DEF Next
<1>2. CASE Start(t)
  BY <1>2 DEF Start, Begin
<1>3. CASE Get(t)
  BY <1>3 DEF Get
<1>4. CASE Set(t)
  BY <1>4 DEF Set
<1>5. CASE Del(t)
  BY <1>5 DEF Del
<1>6. CASE Sweep(t)
  BY <1>6 DEF Sweep
<1>7. CASE Clear(t)
  BY <1>7 DEF Clear
<1>8. CASE Evict(t)
  BY <1>8 DEF Evict
<1>9. CASE Remove(t)
  BY <1>9 DEF Remove
<1>10. CASE Free(t)
  BY <1>10 DEF Free
<1>11. CASE Release(t)
  BY <1>11 DEF Release
<1>12. CASE Lock(t)
  BY <1>12 DEF Lock, Use
<1>13. CASE List(t)
  BY <1>13 DEF List
<1>14. CASE UnlinkNext(t)
  BY <1>14 DEF UnlinkNext
<1>15. CASE UnlinkSelf(t)
  BY <1>15 DEF UnlinkSelf
<1>16. CASE PushSelf(t)
  BY <1>16 DEF PushSelf
<1>17. CASE PushHead(t)
  BY <1>17 DEF PushHead
<1>18. CASE PushEnd(t)
  BY <1>18 DEF PushEnd
<1>19. CASE Unlock(t)
  BY <1>19, SMTT(40) DEF Unlock
<1> QED
  BY <1>2, <1>3, <1>4, <1>5, <1>6, <1>7, <1>8, <1>9, <1>10, <1>11, <1>12, <1>13, ZenonT(40),
     <1>14, <1>15, <1>16, <1>17, <1>18, <1>19 DEF Step

\* The locks are held where Holders says.
LEMMA HoldersStep == TypeOK /\ Errands /\ Holders /\ [Next]_vars => Holders'
<1> SUFFICES ASSUME TypeOK /\ Errands /\ Holders, [Next]_vars PROVE Holders'
  BY Zenon
<1> USE NullAssumption, JobsAssumption DEF TypeOK, Errands, Holders, Linking, Ops,
             locks, Goto, Enlist
<1>1. CASE UNCHANGED vars
  BY <1>1, Zenon DEF vars
<1> SUFFICES ASSUME NEW t \in Threads, Start(t) \/ Step(t) PROVE Holders'
  BY <1>1, Zenon DEF Next
<1>2. CASE Start(t)
  BY <1>2 DEF Start, Begin
<1>3. CASE Get(t)
  BY <1>3 DEF Get
<1>4. CASE Set(t)
  BY <1>4 DEF Set
<1>5. CASE Del(t)
  BY <1>5 DEF Del
<1>6. CASE Sweep(t)
  BY <1>6 DEF Sweep
<1>7. CASE Clear(t)
  BY <1>7 DEF Clear
<1>8. CASE Evict(t)
  BY <1>8 DEF Evict
<1>9. CASE Remove(t)
  BY <1>9, ZenonT(40) DEF Remove
<1>10. CASE Free(t)
  BY <1>10 DEF Free
<1>11. CASE Release(t)
  BY <1>11 DEF Release
<1>12. CASE Lock(t)
  BY <1>12, SMTT(40) DEF Lock, Use
<1>13. CASE List(t)
  BY <1>13 DEF List
<1>14. CASE UnlinkNext(t)
  BY <1>14 DEF UnlinkNext
<1>15. CASE UnlinkSelf(t)
  BY <1>15 DEF UnlinkSelf
<1>16. CASE PushSelf(t)
  BY <1>16 DEF PushSelf
<1>17. CASE PushHead(t)
  BY <1>17 DEF PushHead
<1>18. CASE PushEnd(t)
  BY <1>18 DEF PushEnd
<1>19. CASE Unlock(t)
  BY <1>19 DEF Unlock
<1> QED
  BY <1>2, <1>3, <1>4, <1>5, <1>6, <1>7, <1>8, <1>9, <1>10, <1>11, <1>12, <1>13, ZenonT(40),
     <1>14, <1>15, <1>16, <1>17, <1>18, <1>19 DEF Step

\* The order without one key is an order.
LEMMA ButOrder ==
  ASSUME NEW L \in SUBSET Keys, NEW O \in [Keys -> SUBSET Keys], NEW n \in Keys, Order(L, O)
  PROVE  Order(L \ {n}, But(O, n))
BY Zenon DEF Order, But

\* Two keys are neighbours without n if they were with it, or had only n between.
LEMMA ButFollows ==
  ASSUME NEW L \in SUBSET Keys, NEW O \in [Keys -> SUBSET Keys], NEW n \in L, Order(L, O),
         NEW a \in L \ {n}, NEW b \in L \ {n}
  PROVE  Follows(L \ {n}, But(O, n), a, b) <=>
           Follows(L, O, a, b) \/ (Follows(L, O, a, n) /\ Follows(L, O, n, b))
BY Zenon DEF Order, But, Follows

\* The ends of the order without n.
LEMMA ButEnds ==
  ASSUME NEW L \in SUBSET Keys, NEW O \in [Keys -> SUBSET Keys], NEW n \in L, Order(L, O),
         NEW a \in L \ {n}
  PROVE  /\ Latest(L \ {n}, But(O, n), a) <=> Latest(L, O, a) \/ (Latest(L, O, n) /\ Follows(L, O, n, a))
         /\ Oldest(L \ {n}, But(O, n), a) <=> Oldest(L, O, a) \/ (Oldest(L, O, n) /\ Follows(L, O, a, n))
BY Zenon DEF Order, But, Follows, Latest, Oldest

\* A key used after all others is the latest and changes no other neighbours.
LEMMA Top ==
  ASSUME NEW L \in SUBSET Keys, NEW O \in [Keys -> SUBSET Keys], NEW n \in L, Order(L, O),
         O[n] = L \ {n}
  PROVE  /\ Latest(L, O, n)
         /\ Oldest(L, O, n) <=> L \ {n} = {}
         /\ \A a \in L \ {n} :
               /\ ~Latest(L, O, a) /\ ~Follows(L, O, a, n)
               /\ Follows(L, O, n, a) <=> Latest(L \ {n}, But(O, n), a)
               /\ Oldest(L, O, a) <=> Oldest(L \ {n}, But(O, n), a)
               /\ \A b \in L \ {n} : Follows(L, O, a, b) <=> Follows(L \ {n}, But(O, n), a, b)
BY ZenonT(40) DEF Order, But, Follows, Latest, Oldest

\* Adjacent says what each of the two needs to know of the other.
LEMMA Neighbours ==
  ASSUME NEW L \in SUBSET Keys, NEW O \in [Keys -> SUBSET Keys], Order(L, O),
         NEW p, NEW s, Adjacent(L, O, p, s)
  PROVE  /\ p # Null => NextIs(s, L, O, p)
         /\ p = Null => HeadOf(s, L, O)
         /\ s # Null => PrevIs(p, L, O, s)
         /\ s = Null => TailOf(p, L, O)
<1> USE NullAssumption
<1>1. ASSUME p # Null PROVE NextIs(s, L, O, p)
  BY <1>1, Zenon DEF Adjacent, NextIs, Order, Follows, Latest, Oldest
<1>2. ASSUME p = Null PROVE HeadOf(s, L, O)
  BY <1>2, Zenon DEF Adjacent, HeadOf, Order, Follows, Latest, Oldest
<1>3. ASSUME s # Null PROVE PrevIs(p, L, O, s)
  BY <1>3 DEF Adjacent, PrevIs, Order, Follows, Latest, Oldest
<1>4. ASSUME s = Null PROVE TailOf(p, L, O)
  BY <1>4, Zenon DEF Adjacent, TailOf, Order, Follows, Latest, Oldest
<1> QED
  BY <1>1, <1>2, <1>3, <1>4, Zenon

\* A list for L without n becomes one for L when n, the latest of L, is put before
\* its head h: the forward links, the backward links and the tail.
LEMMA OnTopNext ==
  ASSUME NEW L \in SUBSET Keys, NEW O \in [Keys -> SUBSET Keys], NEW n \in L, Order(L, O),
         O[n] = L \ {n}, NEW nx, HeadOf(nx[n], L \ {n}, But(O, n)),
         \A a \in L \ {n} : NextIs(nx[a], L \ {n}, But(O, n), a)
  PROVE  HeadOf(n, L, O) /\ \A a \in L : NextIs(nx[a], L, O, a)
<1> DEFINE M == L \ {n}
           P == But(O, n)
<1>1. n # Null /\ (\A a \in L : a # Null) /\ ~Follows(L, O, n, n)
  BY NullAssumption, Zenon DEF Follows, Order
<1>2. /\ Latest(L, O, n)
      /\ Oldest(L, O, n) <=> M = {}
      /\ \A a \in M :
            /\ ~Latest(L, O, a) /\ ~Follows(L, O, a, n)
            /\ Follows(L, O, n, a) <=> Latest(M, P, a)
            /\ Oldest(L, O, a) <=> Oldest(M, P, a)
            /\ \A b \in M : Follows(L, O, a, b) <=> Follows(M, P, a, b)
  BY Top, Zenon
<1>3. HeadOf(n, L, O)
  BY <1>1, <1>2, Zenon DEF HeadOf
<1>4. ASSUME NEW a \in L PROVE NextIs(nx[a], L, O, a)
  <2>1. CASE a = n
    BY <2>1, <1>1, <1>2, Zenon DEF HeadOf, NextIs
  <2>2. CASE a # n
    <3>1. a \in M /\ NextIs(nx[a], M, P, a)
      BY <2>2, Zenon
    <3> QED
      BY <3>1, <1>1, <1>2, Zenon DEF NextIs
  <2> QED
    BY <2>1, <2>2, Zenon
<1> QED
  BY <1>3, <1>4, Zenon

\* Backward links, when n has been put before the old head.
LEMMA OnTopPrev ==
  ASSUME NEW L \in SUBSET Keys, NEW O \in [Keys -> SUBSET Keys], NEW n \in L, Order(L, O),
         O[n] = L \ {n}, NEW h, HeadOf(h, L \ {n}, But(O, n)), NEW pv, pv[n] = Null,
         \A a \in L \ {n} : a # h => PrevIs(pv[a], L \ {n}, But(O, n), a),
         h # Null => pv[h] = n
  PROVE  \A a \in L : PrevIs(pv[a], L, O, a)
<1> DEFINE M == L \ {n}
           P == But(O, n)
<1>1. n # Null /\ (\A a \in L : a # Null)
  BY NullAssumption, Zenon
<1>2. /\ Latest(L, O, n) /\ ~Follows(L, O, n, n)
      /\ \A a \in M :
            /\ ~Latest(L, O, a) /\ ~Follows(L, O, a, n)
            /\ Follows(L, O, n, a) <=> Latest(M, P, a)
            /\ \A b \in M : Follows(L, O, a, b) <=> Follows(M, P, a, b)
  <2>1. ~Follows(L, O, n, n)
    BY Zenon DEF Follows, Order
  <2> QED
    BY <2>1, Top, ZenonT(40)
<1> SUFFICES ASSUME NEW a \in L PROVE PrevIs(pv[a], L, O, a)
  BY Zenon
<1>3. CASE a = n
  BY <1>3, <1>1, <1>2, Zenon DEF PrevIs
<1>4. CASE a # n /\ a = h
  <2>1. Latest(M, P, a) /\ pv[a] = n
    BY <1>4, <1>1, Zenon DEF HeadOf
  <2>2. \A b \in M : ~Follows(M, P, b, a)
    BY <2>1, Zenon DEF Latest, Follows
  <2>3. a \in M /\ Follows(L, O, n, a) /\ ~Latest(L, O, a) /\ \A b \in M : ~Follows(L, O, b, a)
    BY <1>4, <2>1, <2>2, <1>2, ZenonT(40)
  <2> QED
    BY <2>1, <2>3, <1>1, Zenon DEF PrevIs
<1>5. CASE a # n /\ a # h
  <2>1. a \in M /\ PrevIs(pv[a], M, P, a)
    BY <1>5, Zenon
  <2>2. ~Latest(M, P, a)
    BY <2>1, <1>5, Zenon DEF HeadOf
  <2>3. ~Latest(L, O, a) /\ ~Follows(L, O, n, a) /\ \A b \in M : Follows(L, O, b, a) <=> Follows(M, P, b, a)
    BY <2>1, <2>2, <1>2, Zenon
  <2> QED
    BY <2>1, <2>2, <2>3, <1>1, Zenon DEF PrevIs
<1> QED
  BY <1>3, <1>4, <1>5, Zenon

\* The tail changes only when the list was empty.
LEMMA OnTopTail ==
  ASSUME NEW L \in SUBSET Keys, NEW O \in [Keys -> SUBSET Keys], NEW n \in L, Order(L, O),
         O[n] = L \ {n}, NEW e, TailOf(e, L \ {n}, But(O, n))
  PROVE  TailOf(IF e = Null THEN n ELSE e, L, O)
<1>1. n # Null /\ (\A a \in L : a # Null)
  BY NullAssumption, Zenon
<1>2. /\ Oldest(L, O, n) <=> L \ {n} = {}
      /\ \A a \in L \ {n} : Oldest(L, O, a) <=> Oldest(L \ {n}, But(O, n), a)
  BY Top, Zenon
<1> QED
  BY <1>1, <1>2, Zenon DEF TailOf

\* A whole list, seen from the neighbours of n: where lruUnlink begins.
LEMMA Opening ==
  ASSUME TypeOK, Order(listed, older), Whole(head, tail, next, prev, listed, older),
         NEW n \in listed
  PROVE  /\ Adjacent(listed \ {n}, But(older, n), prev[n], next[n])
         /\ NextVia(head, next, listed \ {n}, But(older, n), n, prev[n])
         /\ PrevVia(tail, prev, listed \ {n}, But(older, n), n, next[n])
<1> DEFINE M == listed \ {n}
           P == But(older, n)
<1>1. listed \in SUBSET Keys /\ older \in [Keys -> SUBSET Keys] /\ n \in Keys /\ n # Null
  BY NullAssumption, Zenon DEF TypeOK
<1>2. \A a, b \in M : Follows(M, P, a, b) <=>
          Follows(listed, older, a, b) \/ (Follows(listed, older, a, n) /\ Follows(listed, older, n, b))
  BY <1>1, ButFollows, Zenon
<1>3. \A a \in M :
        /\ Latest(M, P, a) <=> Latest(listed, older, a) \/ (Latest(listed, older, n) /\ Follows(listed, older, n, a))
        /\ Oldest(M, P, a) <=> Oldest(listed, older, a) \/ (Oldest(listed, older, n) /\ Follows(listed, older, a, n))
  BY <1>1, ButEnds, Zenon
<1>4. ~Follows(listed, older, n, n)
  BY Zenon DEF Order, Follows
<1>5. \A a \in listed : Null # a
  BY <1>1, NullAssumption, Zenon
<1> USE <1>1, <1>2, <1>3, <1>4, <1>5 DEF Whole, HeadOf, TailOf, NextIs, PrevIs
<1>6. Adjacent(M, P, prev[n], next[n])
  <2>1. Latest(listed, older, n) /\ Oldest(listed, older, n) => M = {}
    BY DEF Latest, Oldest, Order
  <2> QED
    BY <2>1, ZenonT(40) DEF Adjacent
<1>7. NextVia(head, next, M, P, n, prev[n])
  <2>1. \A a \in M \ {prev[n]} : NextIs(next[a], M, P, a)
    BY ZenonT(40)
  <2>2. ASSUME prev[n] # Null PROVE HeadOf(head, M, P)
    <3>1. ~Latest(listed, older, n) /\ head # n /\ head \in M
      BY <2>2, Zenon
    <3> QED
      BY <3>1, ZenonT(40)
  <2> QED
    BY <2>1, <2>2, Zenon DEF NextVia
<1>8. PrevVia(tail, prev, M, P, n, next[n])
  <2>1. \A a \in M \ {next[n]} : PrevIs(prev[a], M, P, a)
    BY ZenonT(40)
  <2>2. ASSUME next[n] # Null PROVE TailOf(tail, M, P)
    <3>1. ~Oldest(listed, older, n) /\ tail # n /\ tail \in M
      BY <2>2, Zenon
    <3> QED
      BY <3>1, Zenon
  <2> QED
    BY <2>1, <2>2, ZenonT(40) DEF PrevVia
<1> QED
  BY <1>6, <1>7, <1>8, Zenon


-----------------------------------------------------------------------------
(* Every step under lruMutex_ keeps the recency list linked.               *)

\* The inductive invariant.
IInv == TypeOK /\ Errands /\ Holders /\ Stored /\ Linked

\* A step outside lruMutex_ leaves the list as it is.
LEMMA LinkedElsewhere ==
  ASSUME IInv, NEW t \in Threads, pc[t] \notin Linking, (pc[t] \notin Linking)',
         UNCHANGED <<lru, list, order>>,
         \A s \in Threads \ {t} : pc'[s] = pc[s] /\ task'[s] = task[s] /\ node'[s] = node[s]
  PROVE  Linked'
BY ZenonT(40) DEF IInv, Linked, list, order, Midway

\* While t is inside lruMutex_ nobody else is.
LEMMA Alone ==
  ASSUME IInv, NEW t \in Threads, pc[t] \in Linking \/ lru = Null \/ writer = t
  PROVE  \A s \in Threads \ {t} : pc[s] \notin Linking
<1>1. CASE pc[t] \in Linking \/ lru = Null
  BY <1>1, NullAssumption, Zenon DEF IInv, Holders
<1>2. CASE writer = t
  BY <1>2, NullAssumption, Zenon DEF IInv, Holders, Linking
<1> QED
  BY <1>1, <1>2, Zenon

\* What a thread that wants lruMutex_, or has it, holds and finds stored.
LEMMA Granted ==
  ASSUME IInv, NEW t \in Threads, pc[t] \in {"lock"} \cup Linking
  PROVE  /\ task[t] # "touch" => writer = t
         /\ task[t] = "touch" => node[t] \in listed
         /\ task[t] \in {"touch", "promote", "insert", "drop"} => node[t] \in Keys
         /\ pc[t] = "lock" /\ task[t] \in {"promote", "wipe"} => listed = chain /\ chain = heap
         /\ pc[t] = "lock" /\ task[t] = "insert" => node[t] \notin listed
         /\ pc[t] = "lock" /\ task[t] = "drop" => listed = heap
         /\ pc[t] # "lock" /\ task[t] = "wipe" => listed = {}
         /\ task[t] \in {"promote", "insert", "drop"} => node[t] # Null
         /\ node[t] # Null => node[t] \in heap
<1>1. Errands /\ Holders /\ Stored /\ StoredBy(t)
  BY Zenon DEF IInv, Stored
<1>2. /\ task[t] = "touch" <=> op[t] = "get"
      /\ writer = t <=> op[t] # "get"
      /\ op[t] = "get" => t \in readers
      /\ task[t] \in Tasks /\ pc[t] # "idle"
      /\ task[t] \in {"touch", "promote", "insert", "drop"} => node[t] \in Keys
  BY <1>1, Zenon DEF Errands, Holders, Linking
<1>3. task[t] = "touch" => node[t] \in listed
  <2>1. ASSUME task[t] = "touch" PROVE writer = Null /\ node[t] \in chain
    BY <1>1, <1>2, <2>1, Zenon DEF Holders, StoredBy
  <2> QED
    BY <1>1, <2>1, Zenon DEF Stored
<1>4. ASSUME task[t] # "touch"
      PROVE  /\ pc[t] = "lock" /\ task[t] \in {"promote", "wipe"} => listed = chain /\ chain = heap
             /\ pc[t] = "lock" /\ task[t] = "insert" => node[t] \notin listed
             /\ pc[t] = "lock" /\ task[t] = "drop" => listed = heap
             /\ pc[t] # "lock" /\ task[t] = "wipe" => listed = {}
             /\ task[t] \in {"promote", "insert", "drop"} => node[t] # Null
  BY <1>1, <1>2, <1>4, Zenon DEF StoredBy
<1> QED
  BY <1>1, <1>2, <1>3, <1>4, Zenon DEF StoredBy

\* What a step of t inside lruMutex_ has to establish.
LEMMA LinkedFrom ==
  ASSUME IInv, NEW t \in Threads,
         \A s \in Threads \ {t} : pc[s] \notin Linking /\ pc'[s] = pc[s],
         UNCHANGED order,
         lru' = Null => Whole(head, tail, next, prev, listed, older)',
         (pc[t] \in Linking => Midway(pc[t], task[t], node[t], listed \ {node[t]}, But(older, node[t])))',
         (pc[t] \in Linking)' => /\ pc[t] \in Linking /\ task'[t] = task[t]
                                 /\ task[t] # "peek" => node'[t] = node[t]
  PROVE  Linked'
<1>1. Order(listed, older)' /\ \A k \in Keys \ listed' : older'[k] = {}
  BY Zenon DEF IInv, Linked, order, Order
<1> QED
  BY <1>1, ZenonT(40) DEF IInv, Linked, order

\* lruPushFront's writes to the node itself.
LEMMA LinkedPushSelf == ASSUME IInv, NEW t \in Threads, PushSelf(t) PROVE Linked'
<1> DEFINE n == node[t]
           M == listed \ {n}
           P == But(older, n)
<1>1. /\ pc[t] = "pushSelf" /\ pc \in [Threads -> Labels]
      /\ pc' = [pc EXCEPT ![t] = "pushHead"] /\ UNCHANGED <<lru, head, tail, listed, older, node, task>>
      /\ prev' = [prev EXCEPT ![n] = Null] /\ next' = [next EXCEPT ![n] = head]
      /\ prev \in [Keys -> Pointers] /\ next \in [Keys -> Pointers] /\ n \in Keys /\ n # Null
      /\ listed \in SUBSET Keys /\ older \in [Keys -> SUBSET Keys] /\ M \in SUBSET Keys /\ P \in [Keys -> SUBSET Keys]
      /\ \A k \in Keys : k # Null
  BY NullAssumption, Zenon DEF PushSelf, IInv, TypeOK, Errands, locks, order, Linking, Pointers, Goto, But
<1>2. Whole(head, tail, next, prev, M, P)
  BY <1>1, Zenon DEF IInv, Linked, Midway, Linking
<1>3. Whole(head, tail, next, prev, M, P)'
  BY <1>1, <1>2, Zenon DEF Whole
<1>4. (next[n] = head /\ prev[n] = Null)'
  BY <1>1, Zenon
<1>8. Midway("pushHead", task[t], n, M, P)'
  BY <1>1, <1>3, <1>4, ZenonT(40) DEF Midway
<1>9. lru' # Null
  BY <1>1, NullAssumption, Zenon DEF IInv, Holders, Linking
<1>10. \A s \in Threads \ {t} : pc[s] \notin Linking /\ pc'[s] = pc[s]
  BY <1>1, Alone, ZenonT(40) DEF Linking
<1> QED
  BY <1>1, <1>8, <1>9, <1>10, LinkedFrom, ZenonT(40) DEF Linking, order

\* lruPushFront moves the head and tells the old one.
LEMMA LinkedPushHead == ASSUME IInv, NEW t \in Threads, PushHead(t) PROVE Linked'
<1> DEFINE n == node[t]
           M == listed \ {n}
           P == But(older, n)
<1>1. /\ pc[t] = "pushHead" /\ pc \in [Threads -> Labels]
      /\ pc' = [pc EXCEPT ![t] = "pushEnd"] /\ UNCHANGED <<lru, tail, next, listed, older, node, task>>
      /\ prev' = (IF head = Null THEN prev ELSE [prev EXCEPT ![head] = n]) /\ head' = n
      /\ prev \in [Keys -> Pointers] /\ next \in [Keys -> Pointers] /\ n \in Keys /\ n # Null
      /\ listed \in SUBSET Keys /\ older \in [Keys -> SUBSET Keys] /\ M \in SUBSET Keys /\ P \in [Keys -> SUBSET Keys]
      /\ \A k \in Keys : k # Null
  BY NullAssumption, Zenon DEF PushHead, IInv, TypeOK, Errands, locks, order, Linking, Pointers, Goto, But
<1>2. /\ Whole(head, tail, next, prev, M, P) /\ next[n] = head /\ prev[n] = Null
      /\ n \in listed /\ older[n] = M /\ Order(listed, older)
  BY <1>1, Zenon DEF IInv, Linked, Midway, Linking, Errands
<1>3. /\ HeadOf(head, M, P) /\ TailOf(tail, M, P)
      /\ \A a \in M : NextIs(next[a], M, P, a)
      /\ prev'[n] = Null /\ (head # Null => prev'[head] = n)
      /\ \A a \in M : a # head => PrevIs(prev'[a], M, P, a)
  <2>1. head \in M \cup {Null}
    BY <1>2, ZenonT(40) DEF Whole, HeadOf
  <2> QED
    BY <2>1, <1>1, <1>2, Zenon DEF Whole
<1>4. HeadOf(n, listed, older) /\ \A a \in listed : NextIs(next[a], listed, older, a)
  BY <1>1, <1>2, <1>3, OnTopNext, Zenon
<1>5. \A a \in listed : PrevIs(prev'[a], listed, older, a)
  <2> DEFINE pv == prev'
  <2>1. /\ listed \in SUBSET Keys /\ older \in [Keys -> SUBSET Keys] /\ n \in listed
        /\ Order(listed, older) /\ older[n] = listed \ {n} /\ HeadOf(head, listed \ {n}, But(older, n))
        /\ pv[n] = Null /\ (head # Null => pv[head] = n)
        /\ \A a \in listed \ {n} : a # head => PrevIs(pv[a], listed \ {n}, But(older, n), a)
    BY <1>1, <1>2, <1>3, Zenon
  <2> HIDE DEF pv
  <2>2. \A a \in listed : PrevIs(pv[a], listed, older, a)
    BY <2>1, OnTopPrev, ZenonT(40)
  <2> QED
    BY <2>2, Zenon DEF pv
<1>8. Midway("pushEnd", task[t], n, M, P)'
  BY <1>1, <1>3, <1>4, <1>5, ZenonT(40) DEF Midway
<1>9. lru' # Null
  BY <1>1, NullAssumption, Zenon DEF IInv, Holders, Linking
<1>10. \A s \in Threads \ {t} : pc[s] \notin Linking /\ pc'[s] = pc[s]
  BY <1>1, Alone, ZenonT(40) DEF Linking
<1> QED
  BY <1>1, <1>8, <1>9, <1>10, LinkedFrom, ZenonT(40) DEF Linking, order

\* lruPushFront sets the tail of a list that was empty.
LEMMA LinkedPushEnd == ASSUME IInv, NEW t \in Threads, PushEnd(t) PROVE Linked'
<1> DEFINE n == node[t]
           M == listed \ {n}
           P == But(older, n)
<1>1. /\ pc[t] = "pushEnd" /\ pc \in [Threads -> Labels]
      /\ pc' = [pc EXCEPT ![t] = "unlock"] /\ UNCHANGED <<lru, head, next, prev, listed, older, node, task>>
      /\ tail' = (IF tail = Null THEN n ELSE tail)
      /\ task[t] # "peek"
      /\ prev \in [Keys -> Pointers] /\ next \in [Keys -> Pointers] /\ n \in Keys /\ n # Null
      /\ listed \in SUBSET Keys /\ older \in [Keys -> SUBSET Keys] /\ M \in SUBSET Keys /\ P \in [Keys -> SUBSET Keys]
      /\ \A k \in Keys : k # Null
  BY NullAssumption, Zenon DEF PushEnd, IInv, TypeOK, Errands, locks, order, Linking, Pointers, Goto, But
<1>2. /\ HeadOf(head, listed, older) /\ TailOf(tail, M, P)
      /\ \A a \in listed : NextIs(next[a], listed, older, a) /\ PrevIs(prev[a], listed, older, a)
      /\ n \in listed /\ older[n] = M /\ Order(listed, older)
  BY <1>1, ZenonT(40) DEF IInv, Linked, Midway, Linking, Errands
<1>4. TailOf(tail', listed, older)
  BY <1>1, <1>2, OnTopTail, Zenon
<1>5. Whole(head, tail, next, prev, listed, older)'
  BY <1>1, <1>2, <1>4, Zenon DEF Whole
<1>8. Midway("unlock", task[t], n, M, P)'
  BY <1>1, <1>5, ZenonT(40) DEF Midway
<1>9. lru' # Null
  BY <1>1, NullAssumption, Zenon DEF IInv, Holders, Linking
<1>10. \A s \in Threads \ {t} : pc[s] \notin Linking /\ pc'[s] = pc[s]
  BY <1>1, Alone, ZenonT(40) DEF Linking
<1> QED
  BY <1>1, <1>8, <1>9, <1>10, LinkedFrom, ZenonT(40) DEF Linking, order

\* A key that is not listed is not in the order either.
LEMMA NotListed ==
  ASSUME TypeOK, Linked, NEW n, n \notin listed
  PROVE  listed \ {n} = listed /\ But(older, n) = older
BY DEF TypeOK, Linked, Order, But

\* lruUnlink clears the links of the node it has taken out.
LEMMA LinkedUnlinkSelf == ASSUME IInv, NEW t \in Threads, UnlinkSelf(t) PROVE Linked'
<1> DEFINE n == node[t]
           M == listed \ {n}
           P == But(older, n)
<1>1. /\ pc[t] = "unlinkSelf" /\ pc \in [Threads -> Labels]
      /\ pc' = [pc EXCEPT ![t] = IF task[t] = "drop" THEN "unlock" ELSE "pushSelf"]
      /\ UNCHANGED <<lru, head, tail, listed, older, node, task>>
      /\ prev' = [prev EXCEPT ![n] = Null] /\ next' = [next EXCEPT ![n] = Null]
      /\ task[t] \in {"touch", "promote", "drop"}
      /\ prev \in [Keys -> Pointers] /\ next \in [Keys -> Pointers] /\ n \in Keys /\ n # Null
      /\ listed \in SUBSET Keys /\ older \in [Keys -> SUBSET Keys] /\ M \in SUBSET Keys /\ P \in [Keys -> SUBSET Keys]
      /\ \A k \in Keys : k # Null
  BY NullAssumption, Zenon DEF UnlinkSelf, IInv, TypeOK, Errands, locks, order, Linking, Pointers, Goto, But
<1>2. Whole(head, tail, next, prev, M, P)
  BY <1>1, Zenon DEF IInv, Linked, Midway, Linking
<1>3. Whole(head, tail, next, prev, M, P)'
  BY <1>1, <1>2, Zenon DEF Whole
<1>4. CASE task[t] # "drop"
  <2>1. Midway("pushSelf", task[t], n, M, P)'
    BY <1>3, ZenonT(40) DEF Midway
  <2> QED
    BY <1>1, <1>4, <2>1, Alone, LinkedFrom, NullAssumption, ZenonT(40) DEF Linking, order, IInv, Holders
<1>5. CASE task[t] = "drop"
  <2>1. M = listed /\ P = older
    BY <1>1, <1>5, NotListed, Zenon DEF IInv, Linked, Linking
  <2>2. Whole(head, tail, next, prev, listed, older)' /\ task'[t] # "peek"
    BY <1>1, <1>3, <1>5, <2>1, ZenonT(40)
  <2>3. Midway("unlock", task[t], n, M, P)'
    BY <2>2, ZenonT(40) DEF Midway
  <2> QED
    <3>1. /\ pc'[t] = "unlock" /\ lru' = lru /\ lru # Null /\ UNCHANGED order
          /\ \A s \in Threads \ {t} : pc[s] \notin Linking /\ pc'[s] = pc[s]
      BY <1>1, <1>5, Alone, NullAssumption, Zenon DEF Linking, order, IInv, Holders
    <3> QED
      BY <1>1, <2>3, <3>1, LinkedFrom, Zenon DEF Linking
<1> QED
  BY <1>4, <1>5, Zenon

\* lruUnlink's write to the neighbour behind, or to the tail.
LEMMA LinkedUnlinkNext == ASSUME IInv, NEW t \in Threads, UnlinkNext(t) PROVE Linked'
<1> DEFINE n == node[t]
           M == listed \ {n}
           P == But(older, n)
<1>1. /\ pc[t] = "unlinkNext" /\ pc \in [Threads -> Labels]
      /\ pc' = [pc EXCEPT ![t] = "unlinkSelf"] /\ UNCHANGED <<lru, head, next, listed, older, node, task>>
      /\ \/ /\ next[n] # Null /\ tail' = tail
            /\ prev' = [prev EXCEPT ![next[n]] = prev[n]]
         \/ next[n] = Null /\ tail' = (IF tail = n THEN prev[n] ELSE tail) /\ prev' = prev
      /\ prev \in [Keys -> Pointers] /\ next \in [Keys -> Pointers] /\ n \in Keys /\ n # Null
      /\ listed \in SUBSET Keys /\ older \in [Keys -> SUBSET Keys] /\ M \in SUBSET Keys /\ P \in [Keys -> SUBSET Keys]
      /\ \A k \in Keys : k # Null
  BY NullAssumption, Zenon DEF UnlinkNext, IInv, TypeOK, Errands, locks, order, Linking, Pointers, Goto, But
<1>2. /\ Adjacent(M, P, prev[n], next[n]) /\ PrevVia(tail, prev, M, P, n, next[n])
      /\ HeadOf(head, M, P) /\ \A a \in M : NextIs(next[a], M, P, a)
  BY <1>1, ZenonT(40) DEF IInv, Linked, Midway, Linking
<1>3. Order(M, P)
  BY <1>1, ButOrder, ZenonT(40) DEF IInv, Linked
<1>4. /\ next[n] # Null => PrevIs(prev[n], M, P, next[n]) /\ next[n] \in M
      /\ next[n] = Null => TailOf(prev[n], M, P)
  BY <1>1, <1>2, <1>3, Neighbours, Zenon DEF Adjacent
<1>5. TailOf(tail', M, P) /\ \A a \in M : PrevIs(prev'[a], M, P, a)
  <2>1. CASE next[n] # Null
    BY <2>1, <1>1, <1>2, <1>4, Zenon DEF PrevVia
  <2>2. CASE next[n] = Null
    BY <2>2, <1>1, <1>2, <1>4, Zenon DEF PrevVia
  <2> QED
    BY <2>1, <2>2, Zenon
<1>6. Whole(head, tail, next, prev, M, P)'
  BY <1>1, <1>2, <1>5, ZenonT(40) DEF Whole
<1>8. Midway("unlinkSelf", task[t], n, M, P)'
  BY <1>1, <1>6, ZenonT(40) DEF Midway
<1>9. lru' # Null
  BY <1>1, NullAssumption, Zenon DEF IInv, Holders, Linking
<1>10. \A s \in Threads \ {t} : pc[s] \notin Linking /\ pc'[s] = pc[s]
  BY <1>1, Alone, ZenonT(40) DEF Linking
<1> QED
  BY <1>1, <1>8, <1>9, <1>10, LinkedFrom, ZenonT(40) DEF Linking, order

\* The first access under lruMutex_, in each of its callers.
LEMMA LinkedList == ASSUME IInv, NEW t \in Threads, List(t) PROVE Linked'
<1> DEFINE n == node[t]
           M == listed \ {n}
           P == But(older, n)
<1>1. /\ pc[t] = "list" /\ pc \in [Threads -> Labels] /\ UNCHANGED <<lru, listed, older, task>>
      /\ prev \in [Keys -> Pointers] /\ next \in [Keys -> Pointers]
      /\ listed \in SUBSET Keys /\ older \in [Keys -> SUBSET Keys] /\ M \in SUBSET Keys
      /\ node \in [Threads -> Pointers]
      /\ \A k \in Keys : k # Null
  BY NullAssumption, Zenon DEF List, IInv, TypeOK, locks, order
<1>2. /\ lru' = lru /\ lru # Null /\ UNCHANGED order
      /\ \A s \in Threads \ {t} : pc[s] \notin Linking
  BY <1>1, Alone, NullAssumption, Zenon DEF Linking, order, IInv, Holders
\* The end of each branch.
<1>3. ASSUME NEW label, pc' = [pc EXCEPT ![t] = label],
             Midway(label, task[t], node[t], listed \ {node[t]}, But(older, node[t]))',
             task[t] # "peek" => node' = node
      PROVE  Linked'
  BY <1>1, <1>2, <1>3, LinkedFrom, Zenon DEF Linking
<1>4. CASE task[t] = "touch" /\ head = n /\ Goto(t, "unlock") /\ UNCHANGED <<list, node>>
  <2>1. /\ Adjacent(M, P, prev[n], next[n]) /\ NextVia(head, next, M, P, n, prev[n])
        /\ PrevVia(tail, prev, M, P, n, next[n])
        /\ n \in listed /\ older[n] = M /\ Order(listed, older) /\ n \in Keys
    BY <1>1, <1>4, ZenonT(40) DEF IInv, Linked, Midway, Linking
  <2>2. P \in [Keys -> SUBSET Keys] /\ Order(M, P)
    BY <1>1, <2>1, ButOrder DEF But
  <2>3. prev[n] = Null
    BY <1>1, <1>4, <2>1, Zenon DEF NextVia, HeadOf
  <2>4. HeadOf(next[n], M, P) /\ (next[n] = Null => M = {})
    <3>1. HeadOf(next[n], M, P)
      BY <1>1, <2>1, <2>2, <2>3, Neighbours, Zenon
    <3> QED
      BY <3>1, Zenon DEF HeadOf
  <2>5. HeadOf(n, listed, older) /\ \A a \in listed : NextIs(next[a], listed, older, a)
    <3>1. \A a \in M : NextIs(next[a], M, P, a)
      BY <1>1, <2>1, <2>3, ZenonT(40) DEF NextVia
    <3> QED
      BY <1>1, <2>1, <2>4, <3>1, OnTopNext, Zenon
  <2>6. \A a \in listed : PrevIs(prev[a], listed, older, a)
    <3>1. /\ next[n] # Null => prev[next[n]] = n
          /\ \A a \in M : a # next[n] => PrevIs(prev[a], M, P, a)
      BY <2>1, ZenonT(40) DEF PrevVia
    <3> QED
      BY <1>1, <2>1, <2>3, <2>4, <3>1, OnTopPrev, ZenonT(40)
  <2>7. TailOf(tail, listed, older)
    <3>1. CASE next[n] # Null
      <4>1. TailOf(tail, M, P) /\ M # {}
        BY <3>1, <2>1, <2>3, ZenonT(40) DEF PrevVia, Adjacent
      <4>2. TailOf(IF tail = Null THEN n ELSE tail, listed, older)
        BY <1>1, <2>1, <4>1, OnTopTail, Zenon
      <4>3. tail # Null
        BY <4>1, Zenon DEF TailOf
      <4> QED
        BY <4>2, <4>3, Zenon
    <3>2. CASE next[n] = Null
      <4>1. tail = n /\ M = {} /\ TailOf(Null, M, P)
        BY <3>2, <2>1, <2>4, ZenonT(40) DEF PrevVia, TailOf
      <4> QED
        BY <1>1, <2>1, <4>1, OnTopTail, Zenon
    <3> QED
      BY <3>1, <3>2, Zenon
  <2>8. Midway("unlock", task[t], node[t], listed \ {node[t]}, But(older, node[t]))'
    BY <1>1, <1>4, <2>5, <2>6, <2>7, Zenon DEF Midway, Whole, list
  <2> QED
    BY <1>3, <1>4, <2>8, Zenon DEF Goto
<1>5. CASE task[t] = "peek" /\ node' = [node EXCEPT ![t] = tail] /\ Goto(t, "unlock") /\ UNCHANGED list
  <2>1. Whole(head, tail, next, prev, listed, older)
    BY <1>1, <1>5, ZenonT(40) DEF IInv, Linked, Midway, Linking
  <2>2. Midway("unlock", task[t], node[t], listed \ {node[t]}, But(older, node[t]))'
    BY <1>1, <1>5, <2>1, Zenon DEF Midway, list
  <2> QED
    BY <1>3, <1>5, <2>2, Zenon DEF Goto
<1>6. CASE /\ task[t] = "wipe" /\ head' = Null /\ tail' = Null
           /\ Goto(t, "unlock") /\ UNCHANGED <<next, prev, node>>
  <2>1. writer = t
    BY <1>1, <1>6, Granted, Zenon DEF Linking
  <2>2. listed = {}
    BY <1>1, <1>6, Granted, Zenon DEF Linking
  <2>3. Midway("unlock", task[t], node[t], listed \ {node[t]}, But(older, node[t]))'
    BY <1>1, <1>6, <2>2, Zenon DEF Midway, Whole, HeadOf, TailOf
  <2> QED
    BY <1>3, <1>6, <2>3, ZenonT(40) DEF Goto
<1>7. CASE task[t] = "insert" /\ Goto(t, "pushSelf") /\ UNCHANGED <<list, node>>
  <2>1. Whole(head, tail, next, prev, M, P)
    BY <1>1, <1>7, ZenonT(40) DEF IInv, Linked, Midway, Linking
  <2>2. Midway("pushSelf", task[t], node[t], listed \ {node[t]}, But(older, node[t]))'
    BY <1>1, <1>7, <2>1, Zenon DEF Midway, list
  <2> QED
    BY <1>3, <1>7, <2>2, ZenonT(40) DEF Goto
<1>8. CASE /\ task[t] \in {"touch", "promote", "drop"}
           /\ \/ /\ prev[n] # Null
                 /\ next' = [next EXCEPT ![prev[n]] = next[n]] /\ head' = head
              \/ /\ prev[n] = Null
                 /\ head' = (IF head = n THEN next[n] ELSE head) /\ next' = next
           /\ Goto(t, "unlinkNext") /\ UNCHANGED <<tail, prev, node>>
  <2>1. /\ Adjacent(M, P, prev[n], next[n]) /\ NextVia(head, next, M, P, n, prev[n])
        /\ PrevVia(tail, prev, M, P, n, next[n]) /\ Order(listed, older) /\ n \in Keys
    BY <1>1, <1>8, ZenonT(40) DEF IInv, Linked, Midway, Linking, Errands
  <2>2. P \in [Keys -> SUBSET Keys] /\ Order(M, P)
    BY <1>1, <2>1, ButOrder, Zenon DEF But
  <2>3. /\ prev[n] # Null => NextIs(next[n], M, P, prev[n]) /\ prev[n] \in M /\ prev[n] # n
        /\ prev[n] = Null => HeadOf(next[n], M, P)
    BY <1>1, <2>1, <2>2, Neighbours, ZenonT(40) DEF Adjacent
  <2>4. HeadOf(head', M, P) /\ \A a \in M : NextIs(next'[a], M, P, a)
    <3>1. CASE prev[n] # Null
      BY <3>1, <1>1, <1>8, <2>1, <2>3, Zenon DEF NextVia
    <3>2. CASE prev[n] = Null
      BY <3>2, <1>1, <1>8, <2>1, <2>3, ZenonT(40) DEF NextVia
    <3> QED
      BY <3>1, <3>2, Zenon
  <2>5. next'[n] = next[n]
    BY <1>1, <1>8, <2>1, <2>3, Zenon
  <2>6. Midway("unlinkNext", task[t], node[t], listed \ {node[t]}, But(older, node[t]))'
    BY <1>1, <1>8, <2>1, <2>4, <2>5, ZenonT(40) DEF Midway
  <2> QED
    BY <1>3, <1>8, <2>6, Zenon DEF Goto
<1> QED
  BY <1>4, <1>5, <1>6, <1>7, <1>8, Zenon DEF List

-----------------------------------------------------------------------------
(* The invariant is inductive: entering and leaving lruMutex_, the chains, *)
(* the list and the heap.                                                  *)

\* The order changes when lruMutex_ is taken; the list is about to follow.
LEMMA LinkedLock == ASSUME IInv, NEW t \in Threads, Lock(t) PROVE Linked'
<1> DEFINE n == node[t]
           M == listed \ {n}
           P == But(older, n)
<1>1. /\ pc[t] = "lock" /\ lru = Null /\ lru' = t /\ pc' = [pc EXCEPT ![t] = "list"]
      /\ UNCHANGED <<list, node, task>> /\ t # Null
      /\ pc \in [Threads -> Labels] /\ node \in [Threads -> Pointers]
      /\ listed \in SUBSET Keys /\ older \in [Keys -> SUBSET Keys]
      /\ Order(listed, older) /\ (\A k \in Keys \ listed : older[k] = {})
      /\ Whole(head, tail, next, prev, listed, older)
  BY NullAssumption, Zenon DEF Lock, IInv, TypeOK, Linked, Goto
<1>2. \A s \in Threads \ {t} : pc'[s] \notin Linking
  BY <1>1, Alone, Zenon
<1>3. pc'[t] = "list" /\ task[t] \in Tasks
  BY <1>1, ZenonT(40) DEF IInv, Errands
<1>4. SUFFICES /\ Order(listed', older') /\ (\A k \in Keys \ listed' : older'[k] = {})
               /\ Midway("list", task[t], n, listed \ {n}, But(older, n))'
               /\ task[t] \in {"touch", "promote", "insert"} => n \in listed' /\ older'[n] = listed' \ {n}
               /\ task[t] = "drop" => n \notin listed'
  BY <1>1, <1>2, <1>3, ZenonT(40) DEF Linked
\* A key that is used goes on top of the order of the others.
<1>5. CASE task[t] \in {"touch", "promote", "insert", "drop"}
  <2>1. /\ n \in Keys
        /\ task[t] \in {"touch", "promote", "drop"} => n \in listed
        /\ task[t] = "insert" => n \notin listed
    BY <1>1, <1>5, Granted, Zenon
  <2>2. P \in [Keys -> SUBSET Keys] /\ Order(M, P) /\ M \in SUBSET Keys
    BY <1>1, <2>1, ButOrder, Zenon DEF But
  <2>3. /\ listed' = IF task[t] = "drop" THEN M ELSE M \cup {n}
        /\ older' = [k \in Keys |-> IF k # n THEN older[k] \ {n} ELSE IF task[t] = "drop" THEN {} ELSE M]
    BY <1>5, <2>1, Zenon DEF Lock, Use
  <2>4. listed' \ {n} = M /\ But(older', n) = P
    BY <1>1, <2>1, <2>3, ZenonT(40) DEF But
  <2>5. Order(listed', older') /\ \A k \in Keys \ listed' : older'[k] = {}
    <3>1. \A k \in Keys \ listed' : older'[k] = {}
      BY <1>1, <2>1, <2>3, Zenon
    <3>2. Order(listed', older')
      BY <1>1, <2>1, <2>2, <2>3, SMTT(40) DEF Order, But
    <3> QED
      BY <3>1, <3>2, Zenon
  <2>6. Midway("list", task[t], n, M, P)'
    <3>1. CASE task[t] = "insert"
      <4>1. listed = M /\ older = P
        BY <1>1, <2>1, <3>1, NotListed, Zenon DEF IInv
      <4> QED
        BY <1>1, <2>4, <3>1, <4>1, ZenonT(40) DEF Midway, list
    <3>2. CASE task[t] # "insert"
      <4>1. /\ Adjacent(M, P, prev[n], next[n]) /\ NextVia(head, next, M, P, n, prev[n])
            /\ PrevVia(tail, prev, M, P, n, next[n])
        BY <1>1, <1>5, <2>1, <3>2, Opening, ZenonT(40) DEF IInv
      <4> QED
        BY <1>1, <1>5, <2>4, <3>2, <4>1, ZenonT(40) DEF Midway, list
    <3> QED
      BY <3>1, <3>2, ZenonT(40)
  <2>7. /\ task[t] \in {"touch", "promote", "insert"} => n \in listed' /\ older'[n] = listed' \ {n}
        /\ task[t] = "drop" => n \notin listed'
    BY <2>1, <2>3, Zenon
  <2> QED
    BY <2>5, <2>6, <2>7, Zenon
<1>6. CASE task[t] = "wipe"
  <2>1. listed' = {} /\ older' = [k \in Keys |-> {}]
    BY <1>6, Zenon DEF Lock, Use
  <2> QED
    BY <1>1, <1>6, <2>1, ZenonT(40) DEF Midway, Order
<1>7. CASE task[t] = "peek"
  <2>1. UNCHANGED order
    BY <1>7, ZenonT(40) DEF Lock, Use
  <2> QED
    BY <1>1, <1>7, <2>1, ZenonT(40) DEF Midway, list, order
<1> QED
  BY <1>3, <1>5, <1>6, <1>7, ZenonT(40) DEF Tasks

\* lruMutex_ is given back only when the list is whole.
LEMMA LinkedUnlock == ASSUME IInv, NEW t \in Threads, Unlock(t) PROVE Linked'
<1>1. /\ pc[t] = "unlock" /\ UNCHANGED <<list, node, task, order>>
      /\ pc \in [Threads -> Labels]
  BY Zenon DEF Unlock, IInv, TypeOK
<1>2. pc'[t] \notin Linking /\ \A s \in Threads \ {t} : pc'[s] = pc[s]
  BY <1>1, Zenon DEF Unlock, Goto, Linking
<1>3. \A s \in Threads \ {t} : pc[s] \notin Linking
  BY <1>1, Alone, Zenon DEF Linking
<1>4. Whole(head, tail, next, prev, listed, older)
  BY <1>1, Zenon DEF IInv, Linked, Midway, Linking
<1>5. Whole(head, tail, next, prev, listed, older)'
  BY <1>1, <1>4, Zenon DEF list, order
<1> QED
  BY <1>1, <1>2, <1>3, <1>5, LinkedFrom, Zenon

\* Nodes are destroyed once nothing on the list leads to them.
LEMMA LinkedFree == ASSUME IInv, NEW t \in Threads, Free(t) PROVE Linked'
<1>1. /\ pc[t] = "free" /\ UNCHANGED <<lru, head, tail, task, order>>
      /\ node' = [node EXCEPT ![t] = Null]
      /\ pc \in [Threads -> Labels] /\ node \in [Threads -> Pointers]
      /\ \A s \in Threads \ {t} : pc'[s] = pc[s]
      /\ pc[t] \notin Linking /\ pc'[t] \notin Linking
  BY Zenon DEF Free, IInv, TypeOK, locks, Goto, Linking
<1>2. CASE task[t] = "drop"
  BY <1>1, <1>2, LinkedElsewhere, Zenon DEF Free, list
<1>3. CASE task[t] = "wipe"
  <2>1. writer = t /\ lru \in Threads \cup {Null}
    BY <1>1, <1>3, Zenon DEF IInv, TypeOK, Holders, Errands
  <2>2. \A s \in Threads \ {t} : pc[s] \notin Linking
    BY <2>1, Alone, Zenon
  <2>3. lru = Null
    BY <1>1, <2>1, <2>2 DEF IInv, Holders
  <2>4. listed = {} /\ Whole(head, tail, next, prev, listed, older)
    BY <1>1, <1>3, <2>1, <2>3, ZenonT(40) DEF IInv, Stored, StoredBy, Linked
  <2>5. Whole(head, tail, next, prev, listed, older)'
    BY <1>1, <2>4, ZenonT(40) DEF Whole, order, HeadOf, TailOf
  <2> QED
    BY <1>1, <2>2, <2>5, LinkedFrom, ZenonT(40)
<1> QED
  BY <1>2, <1>3, ZenonT(40) DEF Free

\* Every step of every operation keeps the list linked.
LEMMA LinkedStep == ASSUME IInv, NEW t \in Threads, Start(t) \/ Step(t) PROVE Linked'
<1> DEFINE Outside == /\ pc[t] \notin Linking /\ (pc[t] \notin Linking)' /\ UNCHANGED <<lru, list, order>>
                      /\ \A s \in Threads \ {t} : pc'[s] = pc[s] /\ task'[s] = task[s] /\ node'[s] = node[s]
<1>0. /\ pc \in [Threads -> Labels] /\ task \in [Threads -> Tasks \cup {"none"}]
      /\ node \in [Threads -> Pointers]
  BY Zenon DEF IInv, TypeOK
<1>1. CASE Start(t)
  <2>1. Outside
    BY <1>0, <1>1, Zenon DEF Start, Begin, Goto, Linking
  <2> QED
    BY <2>1, LinkedElsewhere, Zenon
<1>2. CASE Get(t) \/ Set(t) \/ Del(t) \/ Sweep(t) \/ Clear(t)
  <2>1. Outside
    BY <1>0, <1>2, ZenonT(40) DEF Get, Set, Del, Sweep, Clear, Enlist, Goto, Linking, locks
  <2> QED
    BY <2>1, LinkedElsewhere, Zenon
<1>3. CASE Evict(t) \/ Remove(t) \/ Release(t)
  <2>1. Outside
    BY <1>0, <1>3, Zenon DEF Evict, Remove, Release, Enlist, Goto, Linking, locks
  <2> QED
    BY <2>1, LinkedElsewhere, ZenonT(40)
<1> QED
  BY <1>1, <1>2, <1>3, LinkedFree, LinkedLock, LinkedList, LinkedUnlinkNext, LinkedUnlinkSelf, Zenon,
     LinkedPushSelf, LinkedPushHead, LinkedPushEnd, LinkedUnlock DEF Step

-----------------------------------------------------------------------------
(* What is stored, listed and allocated.                                   *)

\* While t holds the shard's mutex exclusively nobody else is in it.
LEMMA Sole ==
  ASSUME IInv, NEW t \in Threads, writer = t
  PROVE  \A s \in Threads \ {t} : pc[s] = "idle" /\ node[s] = Null /\ dead[s] = {}
<1>1. \A s \in Threads \ {t} : pc[s] = "idle"
  BY NullAssumption, Zenon DEF IInv, Holders
<1> QED
  BY <1>1, Zenon DEF IInv, Errands, Stored, StoredBy

\* What a step of a writer has to establish.
LEMMA StoredFrom ==
  ASSUME IInv, NEW t \in Threads, writer = t, writer' = t,
         \A s \in Threads \ {t} : /\ pc'[s] = pc[s] /\ node'[s] = node[s]
                                 /\ dead'[s] = dead[s] /\ op'[s] = op[s],
         StoredBy(t)'
  PROVE  Stored'
<1>1. \A s \in Threads \ {t} : pc'[s] = "idle" /\ node'[s] = Null /\ dead'[s] = {}
  BY Sole, ZenonT(40)
<1>2. \A s \in Threads \ {t} : op'[s] = "sweep" => dead'[s] \subseteq chain'
  BY <1>1, Zenon
<1>3. \A s \in Threads \ {t} : StoredBy(s)'
  BY <1>1, <1>2, ZenonT(40) DEF StoredBy, Linking
<1> QED
  BY <1>3, NullAssumption, ZenonT(40) DEF Stored

\* What a step that stores and frees nothing has to establish.
LEMMA StoredAlone ==
  ASSUME Stored, NEW t \in Threads, UNCHANGED <<writer, chain, heap, listed>>,
         \A s \in Threads \ {t} : /\ pc'[s] = pc[s] /\ node'[s] = node[s] /\ task'[s] = task[s]
                                 /\ dead'[s] = dead[s] /\ op'[s] = op[s],
         StoredBy(t)'
  PROVE  Stored'
<1>1. ASSUME NEW s \in Threads \ {t} PROVE StoredBy(s)'
  <2>1. StoredBy(s)
    BY Zenon DEF Stored
  <2>2. /\ pc'[s] = pc[s] /\ node'[s] = node[s] /\ task'[s] = task[s]
        /\ dead'[s] = dead[s] /\ op'[s] = op[s]
    OBVIOUS
  <2> QED
    BY <2>1, <2>2, ZenonT(40) DEF StoredBy
<1> QED
  BY <1>1, Zenon DEF Stored

\* Inside the list's lock, a step from one pointer to the next stores nothing.
LEMMA StoredOnward ==
  ASSUME NEW t \in Threads, StoredBy(t), pc[t] \in Linking, pc'[t] \in Linking,
         UNCHANGED <<writer, chain, heap, listed, node, task, op, dead>>
  PROVE  StoredBy(t)'
<1>1. pc'[t] \notin {"lock", "remove", "idle", "body", "evict", "release"}
  BY Zenon DEF Linking
<1> QED
  BY <1>1, ZenonT(40) DEF StoredBy

\* Every step keeps list, chains and heap in the agreement its place asks for.
LEMMA StoredStep == ASSUME IInv, NEW t \in Threads, Start(t) \/ Step(t) PROVE Stored'
<1> USE NullAssumption
<1>0. TypeOK /\ Errands /\ Holders /\ Stored
  BY Zenon DEF IInv
<1>00. pc \in [Threads -> Labels] /\ node \in [Threads -> Pointers] /\ StoredBy(t)
  BY <1>0, ZenonT(40) DEF TypeOK, Stored
<1>1. CASE Start(t)
  <2>1. /\ writer = Null /\ pc[t] = "idle" /\ pc'[t] = "body"
        /\ UNCHANGED <<chain, heap, listed, node, dead, task>>
        /\ writer' = Null \/ writer' = t
    BY <1>0, <1>1, Zenon DEF TypeOK, Start, Begin, Goto, order
  <2>2. \A s \in Threads \ {t} : pc'[s] = pc[s] /\ op'[s] = op[s] /\ writer' # s
    <3> SUFFICES ASSUME NEW s \in Threads \ {t} PROVE pc'[s] = pc[s] /\ op'[s] = op[s] /\ writer' # s
      BY Zenon
    <3>1. pc'[s] = pc[s] /\ op'[s] = op[s]
      BY <1>0, <1>1, Zenon DEF TypeOK, Start, Begin, Goto
    <3>2. writer' # s
      BY <2>1, Zenon
    <3> QED BY <3>1, <3>2, Zenon
  <2>3. listed = chain /\ chain = heap /\ node[t] = Null /\ dead[t] = {}
    BY <1>0, <2>1, Zenon DEF Errands, Stored, StoredBy
  <2>4. StoredBy(t)'
    BY <2>1, <2>3, Zenon DEF StoredBy, Linking
  <2>5. \A s \in Threads \ {t} : StoredBy(s)'
    BY <1>0, <2>1, <2>2, ZenonT(40) DEF Stored, StoredBy
  <2> QED
    BY <2>1, <2>3, <2>4, <2>5, ZenonT(40) DEF Stored
<1>2. CASE Get(t)
  <2>1. /\ UNCHANGED <<writer, chain, heap, listed, dead, op>> /\ op[t] = "get" /\ pc[t] = "body"
        /\ \/ pc'[t] = "lock" /\ node'[t] = key[t] /\ key[t] \in chain
           \/ pc'[t] = "release" /\ node' = node
    BY <1>0, <1>2, Zenon DEF TypeOK, Get, Enlist, Goto, locks, order
  <2>2. \A s \in Threads \ {t} : /\ pc'[s] = pc[s] /\ node'[s] = node[s] /\ task'[s] = task[s]
                                 /\ dead'[s] = dead[s] /\ op'[s] = op[s]
    BY <1>0, <1>2, Zenon DEF TypeOK, Get, Enlist, Goto
  <2>3. StoredBy(t)'
    <3>1. writer # t /\ dead[t] = {} /\ (node[t] # Null => node[t] \in heap)
      BY <1>0, <2>1, Zenon DEF Holders, Stored, StoredBy
    <3>2. chain \subseteq heap
      BY <1>0, <2>1, <3>1, Zenon DEF Holders, Stored
    <3> QED
      BY <2>1, <3>1, <3>2, Zenon DEF StoredBy, Linking
  <2> QED
    BY <1>0, <2>1, <2>2, <2>3, StoredAlone, ZenonT(40)
<1>3. CASE Set(t)
  <2>1. /\ writer = t /\ writer' = t /\ pc[t] = "body" /\ op[t] = "set" /\ key[t] \in Keys
        /\ listed = chain /\ chain = heap /\ dead[t] = {}
    BY <1>0, <1>3, ZenonT(40) DEF Errands, Holders, Stored, StoredBy, Set, locks
  <2>2. /\ \A s \in Threads \ {t} : /\ pc'[s] = pc[s] /\ node'[s] = node[s]
                                    /\ dead'[s] = dead[s] /\ op'[s] = op[s]
    BY <1>0, <1>3, Zenon DEF TypeOK, Set, Enlist, Goto
  <2>3. StoredBy(t)'
    <3>1. CASE pc'[t] = "release"
      <4>1. node[t] # Null => node[t] \in heap
        BY <1>0, ZenonT(40) DEF Stored, StoredBy
      <4>2. UNCHANGED <<chain, heap, node, op, dead, listed>>
        BY <1>0, <1>3, <3>1, Zenon DEF TypeOK, Set, Enlist, Goto, order
      <4> QED
        BY <2>1, <3>1, <4>1, <4>2, Zenon DEF StoredBy, Linking
    <3>2. CASE pc'[t] # "release"
      BY <1>0, <1>3, <2>1, <3>2, ZenonT(40) DEF TypeOK, StoredBy, Set, Enlist, Goto, Linking, order
    <3> QED
      BY <3>1, <3>2, Zenon
  <2> QED
    BY <2>1, <2>2, <2>3, StoredFrom, ZenonT(40)
<1>4. CASE Del(t)
  <2>1. /\ writer = t /\ op[t] = "del" /\ pc[t] = "body"
        /\ UNCHANGED <<writer, chain, heap, listed, dead, op>>
        /\ listed = chain /\ chain = heap /\ dead[t] = {} /\ (node[t] # Null => node[t] \in heap)
    BY <1>0, <1>4, Zenon DEF Holders, Stored, StoredBy, Del, locks, order
  <2>2. \A s \in Threads \ {t} : /\ pc'[s] = pc[s] /\ node'[s] = node[s] /\ task'[s] = task[s]
                                 /\ dead'[s] = dead[s] /\ op'[s] = op[s]
    BY <1>0, <1>4, Zenon DEF TypeOK, Del, Goto
  <2>3. StoredBy(t)'
    <3>1. \/ pc'[t] = "remove" /\ node'[t] = key[t] /\ key[t] \in chain
          \/ pc'[t] = "release" /\ node' = node
      BY <1>0, <1>4, Zenon DEF TypeOK, Del, Goto
    <3> QED
      BY <2>1, <3>1, Zenon DEF StoredBy, Linking
  <2> QED
    BY <1>0, <2>1, <2>2, <2>3, StoredAlone, ZenonT(40)
<1>5. CASE Sweep(t)
  <2>1. /\ writer = t /\ op[t] = "sweep" /\ pc[t] = "body"
        /\ UNCHANGED <<writer, chain, heap, listed, node, op>>
        /\ listed = chain /\ chain = heap /\ dead[t] = {} /\ (node[t] # Null => node[t] \in heap)
    BY <1>0, <1>5, Zenon DEF Holders, Stored, StoredBy, Sweep, locks, order
  <2>2. \A s \in Threads \ {t} : /\ pc'[s] = pc[s] /\ node'[s] = node[s] /\ task'[s] = task[s]
                                 /\ dead'[s] = dead[s] /\ op'[s] = op[s]
    BY <1>0, <1>5, Zenon DEF TypeOK, Sweep, Goto
  <2>3. StoredBy(t)'
    <3>1. pc'[t] = "evict" /\ dead'[t] \subseteq chain
      BY <1>0, <1>5, Zenon DEF TypeOK, Sweep, Goto
    <3> QED
      BY <2>1, <3>1, Zenon DEF StoredBy, Linking
  <2> QED
    BY <1>0, <2>1, <2>2, <2>3, StoredAlone, ZenonT(40)
<1>6. CASE Clear(t)
  <2>1. /\ writer = t /\ op[t] = "clear" /\ pc[t] = "body"
        /\ UNCHANGED <<writer, chain, heap, listed, dead, op>>
        /\ listed = chain /\ chain = heap /\ dead[t] = {} /\ (node[t] # Null => node[t] \in heap)
    BY <1>0, <1>6, Zenon DEF Holders, Stored, StoredBy, Clear, locks, order
  <2>2. \A s \in Threads \ {t} : /\ pc'[s] = pc[s] /\ node'[s] = node[s] /\ task'[s] = task[s]
                                 /\ dead'[s] = dead[s] /\ op'[s] = op[s]
    BY <1>0, <1>6, Zenon DEF TypeOK, Clear, Enlist, Goto
  <2>3. StoredBy(t)'
    <3>1. pc'[t] = "lock" /\ node'[t] = Null /\ task'[t] = "wipe"
      BY <1>0, <1>6, Zenon DEF TypeOK, Clear, Enlist, Goto
    <3> QED
      BY <2>1, <3>1, Zenon DEF StoredBy, Linking
  <2> QED
    BY <1>0, <2>1, <2>2, <2>3, StoredAlone, ZenonT(40)
<1>7. CASE Evict(t)
  <2>1. /\ writer = t /\ op[t] \in {"set", "sweep"} /\ pc[t] = "evict"
        /\ UNCHANGED <<writer, chain, heap, listed, op>>
        /\ listed = chain /\ chain = heap /\ (node[t] # Null => node[t] \in heap)
        /\ (op[t] = "sweep" => dead[t] \subseteq chain) /\ (op[t] = "set" => dead[t] = {})
    BY <1>0, <1>7, ZenonT(40) DEF Errands, Holders, Stored, StoredBy, Evict, locks, order
  <2>2. \A s \in Threads \ {t} : /\ pc'[s] = pc[s] /\ node'[s] = node[s] /\ task'[s] = task[s]
                                 /\ dead'[s] = dead[s] /\ op'[s] = op[s]
    BY <1>0, <1>7, Zenon DEF TypeOK, Evict, Enlist, Goto
  <2>3. StoredBy(t)'
    <3>1. \/ /\ op[t] = "set" /\ pc'[t] = "lock" /\ node'[t] = Null /\ task'[t] = "peek" /\ dead' = dead
          \/ pc'[t] = "release" /\ UNCHANGED <<node, dead>> /\ (op[t] = "sweep" => dead[t] = {})
          \/ /\ op[t] = "sweep" /\ pc'[t] = "remove" /\ node'[t] \in dead[t]
             /\ dead'[t] = dead[t] \ {node'[t]}
      <4> DEFINE P == \/ /\ op[t] = "set" /\ pc'[t] = "lock" /\ node'[t] = Null
                         /\ task'[t] = "peek" /\ dead' = dead
                      \/ /\ pc'[t] = "release" /\ UNCHANGED <<node, dead>>
                         /\ (op[t] = "sweep" => dead[t] = {})
                      \/ /\ op[t] = "sweep" /\ pc'[t] = "remove" /\ node'[t] \in dead[t]
                         /\ dead'[t] = dead[t] \ {node'[t]}
      <4>1. ASSUME Enlist(t, "peek", Null), dead' = dead, op[t] = "set" PROVE P
        <5>1. pc'[t] = "lock" /\ node'[t] = Null /\ task'[t] = "peek"
          BY <1>0, <4>1, Zenon DEF TypeOK, Enlist, Goto
        <5> QED BY <4>1, <5>1, Zenon
      <4>2. ASSUME Goto(t, "release"), UNCHANGED <<node, dead>>, op[t] = "sweep" => dead[t] = {} PROVE P
        <5>1. pc'[t] = "release"
          BY <1>0, <4>2, Zenon DEF TypeOK, Goto
        <5> QED BY <4>2, <5>1, Zenon
      <4>3. ASSUME op[t] = "sweep", Goto(t, "remove"), NEW k \in dead[t],
                   dead' = [dead EXCEPT ![t] = @ \ {k}], node' = [node EXCEPT ![t] = k]
            PROVE  P
        <5>1. pc'[t] = "remove" /\ node'[t] = k
          BY <1>0, <4>3, Zenon DEF TypeOK, Goto
        <5>2. dead'[t] = dead[t] \ {k}
          BY <1>0, <4>3, Zenon DEF TypeOK
        <5> QED BY <4>3, <5>1, <5>2, Zenon
      <4>4. op[t] = "set" => op[t] # "sweep"
        BY Zenon
      <4> HIDE DEF P
      <4>5. P
        BY <1>7, <4>1, <4>2, <4>3, <4>4, Zenon DEF Evict
      <4> QED BY <4>5, Zenon DEF P
    <3> QED
      BY <2>1, <3>1, Zenon DEF StoredBy, Linking
  <2> QED
    BY <1>0, <2>1, <2>2, <2>3, StoredAlone, ZenonT(40)
<1>8. CASE Remove(t)
  <2>1. /\ writer = t /\ writer' = t /\ pc[t] = "remove" /\ node[t] \in Keys /\ node[t] \in chain
        /\ listed = chain /\ chain = heap
        /\ (op[t] = "sweep" => dead[t] \subseteq chain /\ node[t] \notin dead[t])
        /\ (op[t] # "sweep" => dead[t] = {})
        /\ op[t] \in {"set", "del", "sweep"}
    BY <1>0, <1>8, Zenon DEF Errands, Holders, Stored, StoredBy, Remove, locks
  <2>2. /\ \A s \in Threads \ {t} : /\ pc'[s] = pc[s] /\ node'[s] = node[s]
                                    /\ dead'[s] = dead[s] /\ op'[s] = op[s]
    BY <1>0, <1>8, Zenon DEF TypeOK, Remove, Enlist, Goto
  <2>3. StoredBy(t)'
    <3>1. /\ UNCHANGED <<heap, listed, dead, op>> /\ chain' = chain \ {node[t]}
          /\ pc'[t] = "lock" /\ node'[t] = node[t] /\ task'[t] = "drop"
      BY <1>0, <1>8, Zenon DEF TypeOK, Remove, Enlist, Goto, order
    <3> QED
      BY <2>1, <3>1, NullAssumption, ZenonT(40) DEF StoredBy, Linking
  <2> QED
    BY <2>1, <2>2, <2>3, StoredFrom, ZenonT(40)
<1>9. CASE Free(t)
  <2>1. /\ writer = t /\ writer' = t /\ pc[t] = "free" /\ task[t] \in {"drop", "wipe"}
        /\ op[t] # "get" /\ (task[t] = "wipe" => op[t] = "clear")
    BY <1>0, <1>9, ZenonT(40) DEF Errands, Holders, Free, locks
  <2>2. /\ \A s \in Threads \ {t} : /\ pc'[s] = pc[s] /\ node'[s] = node[s]
                                    /\ dead'[s] = dead[s] /\ op'[s] = op[s]
    BY <1>0, <1>9, Zenon DEF TypeOK, Free, Goto
  <2>3. StoredBy(t)'
    <3>1. CASE task[t] = "drop"
      <4>1. /\ listed = chain /\ chain = heap \ {node[t]} /\ heap' = heap \ {node[t]}
            /\ UNCHANGED <<chain, listed, op, dead, task>> /\ node'[t] = Null
            /\ pc'[t] = IF op[t] = "del" THEN "release" ELSE "evict"
        BY <1>0, <1>9, <2>1, <3>1, Zenon DEF TypeOK, Stored, StoredBy, Free, Goto, order
      <4> QED
        BY <1>0, <2>1, <3>1, <4>1, ZenonT(40) DEF Stored, StoredBy, Linking
    <3>2. CASE task[t] = "wipe"
      <4>1. /\ listed = {} /\ heap' = {} /\ chain' = {}
            /\ UNCHANGED <<listed, op, dead, task>> /\ node'[t] = Null /\ pc'[t] = "release"
        BY <1>0, <1>9, <2>1, <3>2, ZenonT(40) DEF TypeOK, Stored, StoredBy, Free, Goto, order
      <4> QED
        BY <1>0, <2>1, <3>2, <4>1, ZenonT(40) DEF Stored, StoredBy, Linking
    <3> QED
      BY <2>1, <3>1, <3>2, Zenon
  <2> QED
    BY <2>1, <2>2, <2>3, StoredFrom, ZenonT(40)
<1>10. CASE Release(t)
  <2>1. /\ pc[t] = "release" /\ pc'[t] = "idle" /\ node'[t] = Null /\ op'[t] = "none"
        /\ UNCHANGED <<chain, heap, listed, dead>> /\ writer' # t
        /\ dead[t] = {}
    BY <1>0, <1>10, Zenon DEF TypeOK, Stored, StoredBy, Release, Goto, order
  <2>2. \A s \in Threads \ {t} : /\ pc'[s] = pc[s] /\ node'[s] = node[s] /\ task'[s] = task[s]
                                 /\ op'[s] = op[s] /\ (writer' = s => writer = s)
    BY <1>0, <1>10, Zenon DEF TypeOK, Release, Goto
  <2>3. writer' = Null => listed = chain /\ chain = heap
    BY <1>0, <1>10, Zenon DEF TypeOK, Stored, StoredBy, Release
  <2>4. StoredBy(t)'
    BY <2>1, Zenon DEF StoredBy, Linking
  <2>5. \A s \in Threads \ {t} : StoredBy(s)'
    BY <1>0, <2>1, <2>2, ZenonT(40) DEF Stored, StoredBy
  <2> QED
    BY <2>1, <2>3, <2>4, <2>5, ZenonT(40) DEF Stored
<1>11. CASE Lock(t)
  <2>1. /\ pc[t] = "lock" /\ pc'[t] = "list" /\ UNCHANGED <<writer, chain, heap, node, task, op, dead>>
        /\ (\A s \in Threads \ {t} : pc'[s] = pc[s])
    BY <1>00, <1>11, Zenon DEF Lock, Goto
  <2>2. /\ listed \subseteq Keys
        /\ task[t] \in Tasks /\ (task[t] = "touch" <=> op[t] = "get")
    BY <1>0, <2>1, Zenon DEF TypeOK, Errands
  <2>3. CASE task[t] = "touch"
    <3>1. writer = Null /\ writer # t
      BY <1>0, <2>1, <2>2, <2>3, Zenon DEF Holders
    <3>2. listed = chain /\ node[t] \in chain
      BY <1>0, <1>00, <2>1, <2>2, <2>3, <3>1, Zenon DEF Stored, StoredBy
    <3>3. listed' = listed
      BY <1>11, <2>3, <3>2, ZenonT(40) DEF Lock, Use
    <3>4. StoredBy(t)'
      BY <1>00, <2>1, <3>1, <3>3, Zenon DEF StoredBy, Linking
    <3> QED
      BY <1>0, <2>1, <3>3, <3>4, StoredAlone, ZenonT(40)
  <2>4. CASE task[t] # "touch"
    <3>1. writer = t
      BY <1>0, <2>1, <2>2, <2>4, Zenon DEF Holders
    <3>2. /\ task[t] \in {"promote", "insert"} => listed' = listed \cup {node[t]}
          /\ task[t] = "drop" => listed' = listed \ {node[t]}
          /\ task[t] = "wipe" => listed' = {}
          /\ task[t] = "peek" => listed' = listed
      BY <1>11, Zenon DEF Lock, Use, order
    <3>3. StoredBy(t)'
      <4>1. /\ task[t] \in {"promote", "insert", "drop"} => node[t] # Null
            /\ node[t] # Null => node[t] \in heap
            /\ task[t] \in {"promote", "peek", "wipe"} => listed = chain /\ chain = heap
            /\ task[t] = "insert" => chain = listed \cup {node[t]} /\ chain = heap
            /\ task[t] = "drop" => listed = heap /\ chain = heap \ {node[t]}
        BY <1>00, <2>1, <3>1, ZenonT(40) DEF StoredBy
      <4>2. /\ task[t] \in {"promote", "insert", "peek"} => listed' = chain /\ chain = heap
            /\ task[t] = "drop" => listed' = chain /\ chain = heap \ {node[t]}
            /\ task[t] = "wipe" => listed' = {} /\ chain = heap
        BY <3>2, <4>1, Zenon
      <4> QED
        BY <1>00, <2>1, <2>2, <2>4, <3>1, <4>1, <4>2, ZenonT(40) DEF StoredBy, Linking
    <3> QED
      BY <2>1, <3>1, <3>3, StoredFrom, ZenonT(40)
  <2> QED
    BY <2>3, <2>4, Zenon
<1>12. CASE List(t)
  <2>1. /\ pc[t] = "list" /\ UNCHANGED <<writer, chain, heap, task, op, dead, listed>>
        /\ \A s \in Threads \ {t} : pc'[s] = pc[s] /\ node'[s] = node[s]
    BY <1>00, <1>12, Zenon DEF List, Goto, locks, order
  <2>2. CASE task[t] = "peek"
    <3>0. Whole(head, tail, next, prev, listed, older)
      BY <2>1, <2>2, ZenonT(40) DEF IInv, Linked, Midway, Linking
    <3>1. pc'[t] = "unlock" /\ node'[t] = tail /\ tail \in listed \cup {Null}
      <4>1. pc'[t] = "unlock" /\ node'[t] = tail
        BY <1>00, <1>12, <2>2, Zenon DEF List, Goto
      <4>2. tail \in listed \cup {Null}
        BY <3>0, Zenon DEF Whole, TailOf
      <4> QED
        BY <4>1, <4>2, Zenon
    <3>2. op[t] = "set" /\ writer = t
      BY <1>0, <2>1, <2>2, Zenon DEF Errands, Holders, Linking
    <3>3. StoredBy(t)'
      BY <1>0, <2>1, <2>2, <3>1, <3>2, ZenonT(40) DEF Stored, StoredBy, Linking
    <3> QED
      BY <2>1, <3>2, <3>3, StoredFrom, ZenonT(40)
  <2>3. CASE task[t] # "peek"
    <3>1. node' = node /\ pc'[t] \in Linking
      BY <1>00, <1>12, <2>3, Zenon DEF List, Goto, Linking
    <3>2. pc[t] \in Linking
      BY <2>1, Zenon DEF Linking
    <3>3. StoredBy(t)'
      BY <1>00, <2>1, <3>1, <3>2, StoredOnward, Zenon
    <3> QED
      BY <1>0, <2>1, <3>1, <3>3, StoredAlone, ZenonT(40)
  <2> QED
    BY <2>2, <2>3, Zenon
<1>13. CASE UnlinkNext(t) \/ UnlinkSelf(t) \/ PushSelf(t) \/ PushHead(t) \/ PushEnd(t)
  <2>1. UNCHANGED <<writer, chain, heap, listed, node, task, op, dead>>
    BY <1>13, ZenonT(40) DEF UnlinkNext, UnlinkSelf, PushSelf, PushHead, PushEnd, locks, order
  <2>2. pc[t] \in Linking /\ pc'[t] \in Linking /\ \A s \in Threads \ {t} : pc'[s] = pc[s]
    BY <1>00, <1>13, Zenon DEF UnlinkNext, UnlinkSelf, PushSelf, PushHead, PushEnd, Goto, Linking
  <2>3. StoredBy(t)'
    BY <1>00, <2>1, <2>2, StoredOnward, Zenon
  <2> QED
    BY <1>0, <2>1, <2>2, <2>3, StoredAlone, ZenonT(40)
<1>14. CASE Unlock(t)
  <2>1. /\ pc[t] = "unlock" /\ UNCHANGED <<writer, chain, heap, node, task, op, dead, listed>>
        /\ \A s \in Threads \ {t} : pc'[s] = pc[s]
    BY <1>0, <1>14, Zenon DEF TypeOK, Unlock, Goto, order
  <2>2. /\ task[t] = "touch" => pc'[t] = "release"
        /\ task[t] \in {"promote", "insert"} => pc'[t] = "evict"
        /\ task[t] = "peek" => pc'[t] = (IF node[t] = Null THEN "release" ELSE "remove")
        /\ task[t] \in {"drop", "wipe"} => pc'[t] = "free"
    BY <1>0, <1>14, Zenon DEF TypeOK, Unlock, Goto
  <2>3. /\ task[t] \in Tasks /\ (task[t] = "touch" <=> op[t] = "get")
        /\ task[t] \in {"promote", "insert", "peek"} => op[t] = "set"
        /\ task[t] = "drop" => op[t] \in {"set", "del", "sweep"}
        /\ task[t] = "wipe" => op[t] = "clear"
        /\ writer = t <=> op[t] # "get"
    BY <1>0, <2>1, Zenon DEF Errands, Holders, Linking
  <2>4. StoredBy(t)
    BY <1>0, Zenon DEF Stored
  <2>5. StoredBy(t)'
    BY <2>1, <2>2, <2>3, <2>4, Zenon DEF StoredBy, Linking, Tasks
  <2>6. \A s \in Threads \ {t} : StoredBy(s)'
    BY <1>0, <2>1, ZenonT(40) DEF Stored, StoredBy, Linking
  <2> QED
    BY <1>0, <2>1, <2>5, <2>6, ZenonT(40) DEF Stored
<1> QED
  BY <1>1, <1>2, <1>3, <1>4, <1>5, <1>6, <1>7, <1>8, <1>9, <1>10, <1>11, <1>12, <1>13, <1>14, Zenon DEF Step

-----------------------------------------------------------------------------
\* An empty shard satisfies the invariant.
LEMMA Start0 == Init => IInv
<1> SUFFICES ASSUME Init PROVE IInv
  BY Zenon
<1>1. TypeOK /\ Errands
  BY ErrandsInit, Zenon
<1>2. Holders /\ Stored
  BY NullAssumption, Zenon DEF Init, Holders, Stored, StoredBy, Linking
<1>3. Linked
  BY NullAssumption, Zenon DEF Init, Linked, Order, Whole, HeadOf, TailOf, Linking
<1> QED
  BY <1>1, <1>2, <1>3, Zenon DEF IInv

\* Every step keeps the invariant.
LEMMA Onward == IInv /\ [Next]_vars => IInv'
<1> SUFFICES ASSUME IInv, [Next]_vars PROVE IInv'
  BY Zenon
<1>1. TypeOK' /\ Errands' /\ Holders'
  BY TypeStep, ErrandsStep, HoldersStep, Zenon DEF IInv
<1>2. CASE UNCHANGED vars
  <2>1. Stored'
    BY <1>2, ZenonT(40) DEF vars, locks, order, IInv, Stored, StoredBy
  <2>2. Linked'
    BY <1>2, ZenonT(40) DEF vars, locks, order, list, IInv, Linked, Midway
  <2> QED
    BY <1>1, <2>1, <2>2, Zenon DEF IInv
<1>3. CASE Next
  <2>1. PICK t \in Threads : Start(t) \/ Step(t)
    BY <1>3, Zenon DEF Next
  <2>2. Stored' /\ Linked'
    BY <2>1, StoredStep, LinkedStep, Zenon
  <2> QED
    BY <1>1, <2>2, Zenon DEF IInv
<1> QED
  BY <1>2, <1>3, Zenon

\* The recency list and the locks, for any number of threads: the inductive
\* invariant holds in every reachable state of the shard.
THEOREM Invariance == Spec => []IInv
BY Start0, Onward, PTL DEF Spec

\* touch under a shared lock: whenever lruMutex_ is free the list is in the order of
\* use and can be walked both ways.
THEOREM ListSafe == Spec => []ListFollowsUse
<1>1. IInv => ListFollowsUse
  BY Zenon DEF IInv, Linked, ListFollowsUse
<1> QED
  BY <1>1, Invariance, PTL

\* put, remove, removeIf and clear leave list, chains and heap in agreement.
THEOREM StoreSafe == Spec => []ListsWhatIsStored
<1>1. IInv => ListsWhatIsStored
  BY Zenon DEF IInv, Stored, ListsWhatIsStored
<1> QED
  BY <1>1, Invariance, PTL

\* No thread works on a node that another thread has freed.
THEOREM MemorySafe == Spec => []NoUseAfterFree
<1> USE NullAssumption
<1>1. IInv => NoUseAfterFree
  <2> SUFFICES ASSUME IInv PROVE NoUseAfterFree
    BY Zenon
  <2>1. \A t \in Threads : node[t] # Null => node[t] \in heap
    BY Zenon DEF IInv, Stored, StoredBy
  <2>2. listed \subseteq heap
    <3>1. CASE writer = Null
      BY <3>1, Zenon DEF IInv, Stored
    <3>2. CASE writer # Null
      <4>1. writer \in Threads /\ pc[writer] \in Labels \ {"idle"} /\ op[writer] # "get"
        BY <3>2, Zenon DEF IInv, TypeOK, Holders
      <4>2. StoredBy(writer)
        BY <4>1, ZenonT(40) DEF IInv, Stored
      <4>3. pc[writer] \in {"lock", "free"} \cup Linking =>
              task[writer] \in {"promote", "insert", "peek", "drop", "wipe"}
        BY <4>1, ZenonT(40) DEF IInv, Errands, Tasks
      <4> QED
        BY <4>1, <4>2, <4>3, Zenon DEF StoredBy, Labels
    <3> QED
      BY <3>1, <3>2, Zenon
  <2> QED
    BY <2>1, <2>2, Zenon DEF NoUseAfterFree
<1> QED
  BY <1>1, Invariance, PTL

\* The two locks are enough: no two threads are about to make conflicting accesses
\* to the chains or to the list.
THEOREM LocksSuffice == Spec => []RaceFree
<1>1. IInv => RaceFree
  <2> SUFFICES ASSUME IInv, NEW s \in Threads, NEW t \in Threads, s # t
               PROVE  /\ ~(WritesChains(s) /\ (WritesChains(t) \/ ReadsChains(t)))
                      /\ ~(pc[s] \in Linking /\ pc[t] \in Linking)
    BY Zenon DEF RaceFree
  <2>1. \A u \in Threads : WritesChains(u) => writer = u
    BY Zenon DEF IInv, Holders, Errands, WritesChains
  <2>2. WritesChains(s) => pc[t] = "idle"
    BY <2>1, Sole, Zenon
  <2>3. ~(pc[s] \in Linking /\ pc[t] \in Linking)
    BY Alone, Zenon
  <2> QED
    BY <2>2, <2>3, ZenonT(40) DEF WritesChains, ReadsChains
<1> QED
  BY <1>1, Invariance, PTL

\* evictOldest lets go of lruMutex_ between reading the tail and removing it; the
\* victim is still the least recently used entry, since its caller is alone.
THEOREM EvictionSafe == Spec => []EvictionTakesTheOldest
<1>1. Init => EvictionTakesTheOldest
  BY Zenon DEF Init, EvictionTakesTheOldest
<1>2. IInv /\ EvictionTakesTheOldest /\ [Next]_vars => EvictionTakesTheOldest'
  <2> SUFFICES ASSUME IInv, EvictionTakesTheOldest, [Next]_vars, NEW t \in Threads,
                      pc'[t] = "remove", op'[t] = "set"
               PROVE  node'[t] \in listed' /\ Oldest(listed', older', node'[t])
    BY Zenon DEF EvictionTakesTheOldest
  <2>1. CASE UNCHANGED vars
    BY <2>1, Zenon DEF vars, order, EvictionTakesTheOldest
  <2>2. CASE Next
    <3>1. PICK s \in Threads : Start(s) \/ Step(s)
      BY <2>2, Zenon DEF Next
    <3>2. s = t
      <4>1. SUFFICES ASSUME s # t PROVE FALSE
        BY Zenon
      <4>2. pc[t] = "remove"
        BY <3>1, <4>1, ZenonT(40) DEF IInv, TypeOK, Start, Begin, Step, Get, Set, Del, Sweep, Clear, Evict, Remove, Free,
           Release, Lock, List, UnlinkNext, UnlinkSelf, PushSelf, PushHead, PushEnd, Unlock, Enlist, Goto
      <4>3. writer = t
        BY <4>2, Zenon DEF IInv, Holders, Errands
      <4>4. pc[s] = "idle" /\ writer # Null
        BY <4>1, <4>3, Sole, NullAssumption, Zenon
      <4> QED
        BY <3>1, <4>4, ZenonT(40) DEF Start, Step, Get, Set, Del, Sweep, Clear, Evict, Remove, Free,
           Release, Lock, List, UnlinkNext, UnlinkSelf, PushSelf, PushHead, PushEnd, Unlock
    <3>3. pc[t] = "unlock" /\ task[t] = "peek" /\ node[t] # Null /\ UNCHANGED <<node, listed, older>>
      <4>1. Unlock(t)
        BY <3>1, <3>2, ZenonT(40) DEF IInv, TypeOK, Start, Begin, Step, Get, Set, Del, Sweep, Clear, Evict, Remove, Free,
           Release, Lock, List, UnlinkNext, UnlinkSelf, PushSelf, PushHead, PushEnd, Enlist, Goto
      <4> QED
        BY <4>1, Zenon DEF Unlock, Goto, IInv, TypeOK, order
    <3>4. Whole(head, tail, next, prev, listed, older) /\ node[t] = tail
      BY <3>3, Zenon DEF IInv, Linked, Midway, Linking
    <3> QED
      BY <3>3, <3>4, Zenon DEF Whole, TailOf
  <2> QED
    BY <2>1, <2>2, Zenon
<1> QED
  BY <1>1, <1>2, Invariance, PTL DEF Spec

=============================================================================
