---------------------------- MODULE LruMapProofs ----------------------------
(***************************************************************************)
(* Lemmas about the operators of LruMap: what each does to the keys, the   *)
(* order and the bytes of a map, and that it yields a well-formed map.     *)
(*                                                                         *)
(* The bytes are a sum over a set.  The facts about such sums are proved   *)
(* from the definition of the fold, each by taking a counterexample of     *)
(* the least cardinality (LeastNat).                                       *)
(***************************************************************************)
EXTENDS LruMap, FiniteSetTheorems, WellFoundedInduction, TLAPS

\* A set of naturals that is not empty has a least element.
LEMMA LeastNat ==
    ASSUME NEW B \in SUBSET Nat, B # {}
    PROVE  \E n \in B : \A m \in B : n <= m
<1>1. PICK n \in B : \A m \in B : ~(<<m, n>> \in OpToRel(<, Nat))
  BY WFMin, NatLessThanWellFounded, Zenon
<1>2. \A m \in B : ~(m < n)
  BY <1>1, Zenon DEF OpToRel
<1> QED
  BY <1>2

-----------------------------------------------------------------------------
(* Sums: SumFunctionOnSet(f, S), f applied to the elements of S.           *)

Pick(S) == CHOOSE x \in S : TRUE

\* g gives the sum of f over each subset of S, as the fold computes it.
IsFold(g, f, S) ==
    g = [T \in SUBSET S |->
            IF T = {} THEN 0 ELSE f[Pick(T)] + g[T \ {Pick(T)}]]

\* The sum is the value at S of a function that satisfies the fold's equation.
LEMMA SumIsAFold ==
    ASSUME NEW f, NEW S
    PROVE  SumFunctionOnSet(f, S) = (CHOOSE g : IsFold(g, f, S))[S]
BY Zenon DEF SumFunctionOnSet, FoldFunctionOnSet, MapThenFoldSet, IsFold, Pick

\* The element a fold takes out of a set is one of its elements.
LEMMA PickIsElement ==
    ASSUME NEW S, S # {}
    PROVE  Pick(S) \in S
BY Zenon DEF Pick

\* Such a function exists for every finite set.
LEMMA FoldExists ==
    ASSUME NEW f, NEW S, IsFiniteSet(S)
    PROVE  \E g : IsFold(g, f, S)
<1> DEFINE Small(n) == {T \in SUBSET S : Cardinality(T) <= n}
           FoldsTo(g, n) ==
               g = [T \in Small(n) |->
                       IF T = {} THEN 0 ELSE f[Pick(T)] + g[T \ {Pick(T)}]]
           Bad == {n \in Nat : ~ \E g : FoldsTo(g, n)}
<1>1. \A T \in SUBSET S : /\ IsFiniteSet(T) /\ Cardinality(T) \in Nat
                          /\ Cardinality(T) <= Cardinality(S)
  BY FS_Subset, FS_CardinalityType, Zenon
<1>2. \A T \in SUBSET S : T # {} =>
          /\ T \ {Pick(T)} \in SUBSET S
          /\ Cardinality(T \ {Pick(T)}) = Cardinality(T) - 1
  BY <1>1, FS_RemoveElement, PickIsElement, Zenon
<1>3. Bad = {}
  <2> SUFFICES ASSUME Bad # {} PROVE FALSE
    BY Zenon
  <2>1. PICK n \in Bad : \A m \in Bad : n <= m
    BY LeastNat, Zenon
  <2>2. CASE n = 0
    <3> DEFINE z == [T \in Small(0) |-> 0]
    <3>1. \A T \in Small(0) : T = {}
      BY <1>1, FS_EmptySet
    <3>2. z = [T \in Small(0) |->
                  IF T = {} THEN 0 ELSE f[Pick(T)] + z[T \ {Pick(T)}]]
      BY <3>1, Zenon
    <3> QED BY <2>1, <2>2, <3>2, Zenon
  <2>3. CASE n # 0
    <3>1. n \in Nat /\ n - 1 \in Nat /\ n - 1 \notin Bad
      <4>1. n \in Nat
        BY Zenon
      <4> HIDE DEF Bad
      <4> QED BY <2>1, <2>3, <4>1
    <3>2. PICK g : FoldsTo(g, n - 1)
      BY <3>1, Zenon
    <3> DEFINE h == [T \in Small(n) |->
                        IF T = {} THEN 0 ELSE f[Pick(T)] + g[T \ {Pick(T)}]]
    <3>3. ASSUME NEW T \in Small(n), T # {}
          PROVE  h[T \ {Pick(T)}] = g[T \ {Pick(T)}]
      <4>1. T \ {Pick(T)} \in Small(n - 1) /\ T \ {Pick(T)} \in Small(n)
        BY <1>1, <1>2, <3>1, <3>3
      <4> DEFINE U == T \ {Pick(T)}
      <4>2. g[U] = IF U = {} THEN 0 ELSE f[Pick(U)] + g[U \ {Pick(U)}]
        BY <3>2, <4>1, Zenon
      <4> QED BY <4>1, <4>2, Zenon
    <3>4. FoldsTo(h, n)
      <4>1. h = [T \in Small(n) |->
                    IF T = {} THEN 0 ELSE f[Pick(T)] + h[T \ {Pick(T)}]]
        BY <3>3, Zenon
      <4> QED BY <4>1, Zenon
    <3> QED BY <2>1, <3>4, Zenon
  <2> QED BY <2>2, <2>3, Zenon
<1>4. Cardinality(S) \in Nat /\ Small(Cardinality(S)) = SUBSET S
  BY <1>1, Zenon
<1>5. PICK g : FoldsTo(g, Cardinality(S))
  BY <1>3, <1>4, Zenon
<1> QED
  BY <1>4, <1>5, Zenon DEF IsFold

\* Two such functions agree wherever both are defined.
LEMMA FoldUnique ==
    ASSUME NEW f, NEW S, NEW U, NEW g, NEW h, IsFold(g, f, S), IsFold(h, f, U),
           NEW T \in SUBSET (S \cap U), IsFiniteSet(T)
    PROVE  g[T] = h[T]
<1> DEFINE Bad == {n \in Nat : \E V \in SUBSET T : Cardinality(V) = n /\ g[V] # h[V]}
<1>1. \A V \in SUBSET T : IsFiniteSet(V) /\ Cardinality(V) \in Nat
  BY FS_Subset, FS_CardinalityType, Zenon
<1>2. Bad = {}
  <2> SUFFICES ASSUME Bad # {} PROVE FALSE
    BY Zenon
  <2>1. PICK n \in Bad : \A m \in Bad : n <= m
    BY LeastNat, Zenon
  <2>2. PICK V \in SUBSET T : Cardinality(V) = n /\ g[V] # h[V]
    BY <2>1, Zenon
  <2>3. /\ g[V] = IF V = {} THEN 0 ELSE f[Pick(V)] + g[V \ {Pick(V)}]
        /\ h[V] = IF V = {} THEN 0 ELSE f[Pick(V)] + h[V \ {Pick(V)}]
    BY Zenon DEF IsFold
  <2>4. V # {}
    BY <2>2, <2>3, Zenon
  <2>5. V \ {Pick(V)} \in SUBSET T /\ Cardinality(V \ {Pick(V)}) = n - 1
    BY <1>1, <2>2, <2>4, FS_RemoveElement, PickIsElement, Zenon
  <2>6. n - 1 \in Nat /\ n - 1 \notin Bad
    BY <1>1, <2>1, <2>5
  <2>7. g[V \ {Pick(V)}] = h[V \ {Pick(V)}]
    BY <2>5, <2>6, Zenon
  <2> QED BY <2>2, <2>3, <2>7, Zenon
<1> QED
  BY <1>1, <1>2, Zenon

\* The equation of the fold, for the sum itself.
LEMMA SumEquation ==
    ASSUME NEW f, NEW S, IsFiniteSet(S)
    PROVE  SumFunctionOnSet(f, S) =
               IF S = {} THEN 0
               ELSE f[Pick(S)] + SumFunctionOnSet(f, S \ {Pick(S)})
<1> DEFINE g == CHOOSE g : IsFold(g, f, S)
           R == S \ {Pick(S)}
           h == CHOOSE h : IsFold(h, f, R)
<1>1. IsFiniteSet(R)
  BY FS_Subset, Zenon
<1>2. IsFold(g, f, S) /\ IsFold(h, f, R)
  BY <1>1, FoldExists, Zenon
<1>3. g[R] = h[R]
  BY <1>1, <1>2, FoldUnique
<1>4. SumFunctionOnSet(f, S) = g[S] /\ SumFunctionOnSet(f, R) = h[R]
  BY SumIsAFold, Zenon
<1>5. g[S] = IF S = {} THEN 0 ELSE f[Pick(S)] + g[R]
  BY <1>2, Zenon DEF IsFold
<1> QED
  BY <1>3, <1>4, <1>5, Zenon

\* A sum of naturals is one.
LEMMA SumType ==
    ASSUME NEW f, NEW S, IsFiniteSet(S), \A x \in S : f[x] \in Nat
    PROVE  SumFunctionOnSet(f, S) \in Nat
<1> DEFINE Bad == {n \in Nat : \E V \in SUBSET S : /\ Cardinality(V) = n
                                                    /\ SumFunctionOnSet(f, V) \notin Nat}
<1>1. \A V \in SUBSET S : IsFiniteSet(V) /\ Cardinality(V) \in Nat
  BY FS_Subset, FS_CardinalityType, Zenon
<1>2. Bad = {}
  <2> SUFFICES ASSUME Bad # {} PROVE FALSE
    BY Zenon
  <2>1. PICK n \in Bad : \A m \in Bad : n <= m
    BY LeastNat, Zenon
  <2>2. PICK V \in SUBSET S : Cardinality(V) = n /\ SumFunctionOnSet(f, V) \notin Nat
    BY <2>1, Zenon
  <2>3. SumFunctionOnSet(f, V) =
            IF V = {} THEN 0 ELSE f[Pick(V)] + SumFunctionOnSet(f, V \ {Pick(V)})
    BY <1>1, SumEquation, Zenon
  <2>4. V # {}
    BY <2>2, <2>3
  <2>5. Pick(V) \in V /\ V \ {Pick(V)} \in SUBSET S /\ Cardinality(V \ {Pick(V)}) = n - 1
    BY <1>1, <2>2, <2>4, FS_RemoveElement, PickIsElement, Zenon
  <2>6. n - 1 \in Nat /\ n - 1 \notin Bad
    BY <1>1, <2>1, <2>5
  <2>7. SumFunctionOnSet(f, V \ {Pick(V)}) \in Nat
    BY <2>5, <2>6, Zenon
  <2> QED BY <2>2, <2>3, <2>4, <2>5, <2>7
<1> QED
  BY <1>1, <1>2, Zenon

\* Any element can be taken out of a sum first.
LEMMA SumRemove ==
    ASSUME NEW f, NEW S, IsFiniteSet(S), \A x \in S : f[x] \in Nat, NEW a \in S
    PROVE  SumFunctionOnSet(f, S) = f[a] + SumFunctionOnSet(f, S \ {a})
<1> DEFINE Sum(V) == SumFunctionOnSet(f, V)
           Bad == {n \in Nat : \E V \in SUBSET S : /\ Cardinality(V) = n
                                                    /\ \E x \in V : Sum(V) # f[x] + Sum(V \ {x})}
<1>1. \A V \in SUBSET S : IsFiniteSet(V) /\ Cardinality(V) \in Nat /\ Sum(V) \in Nat
  BY FS_Subset, FS_CardinalityType, SumType, Zenon
<1>2. \A V \in SUBSET S : V # {} => Pick(V) \in V /\ Sum(V) = f[Pick(V)] + Sum(V \ {Pick(V)})
  BY <1>1, SumEquation, PickIsElement, Zenon
<1> HIDE DEF Sum
<1>3. Bad = {}
  <2> SUFFICES ASSUME Bad # {} PROVE FALSE
    BY Zenon
  <2>1. PICK n \in Bad : \A m \in Bad : n <= m
    BY LeastNat, Zenon
  <2>2. PICK V \in SUBSET S : /\ Cardinality(V) = n
                              /\ \E x \in V : Sum(V) # f[x] + Sum(V \ {x})
    BY <2>1, Zenon
  <2> PICK x \in V : Sum(V) # f[x] + Sum(V \ {x})
    BY <2>2, Zenon
  <2> DEFINE p == Pick(V)
  <2>3. p \in V /\ Sum(V) = f[p] + Sum(V \ {p}) /\ p # x
    BY <1>2, <2>2, Zenon
  <2>4. /\ Cardinality(V \ {p}) = n - 1 /\ Cardinality(V \ {x}) = n - 1
        /\ V \ {p} \in SUBSET S /\ V \ {x} \in SUBSET S
    BY <1>1, <2>2, <2>3, FS_RemoveElement, Zenon
  <2>5. n - 1 \in Nat /\ n - 1 \notin Bad
    BY <1>1, <2>1, <2>4
  <2>6. /\ Sum(V \ {p}) = f[x] + Sum((V \ {p}) \ {x})
        /\ Sum(V \ {x}) = f[p] + Sum((V \ {x}) \ {p})
    BY <2>3, <2>4, <2>5, Zenon
  <2>7. (V \ {p}) \ {x} = (V \ {x}) \ {p} /\ (V \ {x}) \ {p} \in SUBSET S
    BY Zenon
  <2> QED BY <1>1, <2>2, <2>3, <2>6, <2>7
<1> QED
  BY <1>1, <1>3, Zenon DEF Sum

\* Functions that agree on a set have the same sum over it.
LEMMA SumAgree ==
    ASSUME NEW f, NEW g, NEW S, IsFiniteSet(S), \A x \in S : f[x] = g[x]
    PROVE  SumFunctionOnSet(f, S) = SumFunctionOnSet(g, S)
<1> DEFINE Differs(V) == SumFunctionOnSet(f, V) # SumFunctionOnSet(g, V)
           Bad == {n \in Nat : \E V \in SUBSET S : Cardinality(V) = n /\ Differs(V)}
<1>1. \A V \in SUBSET S : IsFiniteSet(V) /\ Cardinality(V) \in Nat
  BY FS_Subset, FS_CardinalityType, Zenon
<1>2. Bad = {}
  <2> SUFFICES ASSUME Bad # {} PROVE FALSE
    BY Zenon
  <2>1. PICK n \in Bad : \A m \in Bad : n <= m
    BY LeastNat, Zenon
  <2>2. PICK V \in SUBSET S : Cardinality(V) = n /\ Differs(V)
    BY <2>1, Zenon
  <2> DEFINE R == V \ {Pick(V)}
  <2>3. /\ SumFunctionOnSet(f, V) = IF V = {} THEN 0 ELSE f[Pick(V)] + SumFunctionOnSet(f, R)
        /\ SumFunctionOnSet(g, V) = IF V = {} THEN 0 ELSE g[Pick(V)] + SumFunctionOnSet(g, R)
    BY <1>1, SumEquation, Zenon
  <2>4. V # {}
    BY <2>2, <2>3, Zenon
  <2>5. Pick(V) \in V /\ R \in SUBSET S /\ Cardinality(R) = n - 1
    BY <1>1, <2>2, <2>4, FS_RemoveElement, PickIsElement, Zenon
  <2>6. n - 1 \in Nat /\ n - 1 \notin Bad
    BY <1>1, <2>1, <2>5
  <2>7. ~Differs(R)
    BY <2>5, <2>6, Zenon
  <2> QED BY <2>2, <2>3, <2>5, <2>7, Zenon
<1> QED
  BY <1>1, <1>2, Zenon

\* A part of a sum of naturals is no more than the whole.
LEMMA SumSubset ==
    ASSUME NEW f, NEW S, IsFiniteSet(S), \A x \in S : f[x] \in Nat, NEW T \in SUBSET S
    PROVE  SumFunctionOnSet(f, T) <= SumFunctionOnSet(f, S)
<1> DEFINE Sum(V) == SumFunctionOnSet(f, V)
           Bad == {n \in Nat : \E V \in SUBSET S : /\ T \subseteq V /\ Cardinality(V) = n
                                                    /\ ~(Sum(T) <= Sum(V))}
<1>1. \A V \in SUBSET S : IsFiniteSet(V) /\ Cardinality(V) \in Nat /\ Sum(V) \in Nat
  BY FS_Subset, FS_CardinalityType, SumType, Zenon
<1>2. \A V \in SUBSET S : \A x \in V : Sum(V) = f[x] + Sum(V \ {x})
  BY <1>1, SumRemove, ZenonT(40)
<1> HIDE DEF Sum
<1>3. Bad = {}
  <2> SUFFICES ASSUME Bad # {} PROVE FALSE
    BY Zenon
  <2>1. PICK n \in Bad : \A m \in Bad : n <= m
    BY LeastNat, Zenon
  <2>2. PICK V \in SUBSET S : T \subseteq V /\ Cardinality(V) = n /\ ~(Sum(T) <= Sum(V))
    BY <2>1, Zenon
  <2>3. PICK x \in V : x \notin T
    BY <1>1, <2>2
  <2>4. V \ {x} \in SUBSET S /\ T \subseteq V \ {x} /\ Cardinality(V \ {x}) = n - 1
    BY <1>1, <2>2, <2>3, FS_RemoveElement, Zenon
  <2>5. n - 1 \in Nat /\ n - 1 \notin Bad
    BY <1>1, <2>1, <2>4
  <2>6. Sum(T) <= Sum(V \ {x})
    BY <2>4, <2>5, Zenon
  <2>7. Sum(V) = f[x] + Sum(V \ {x}) /\ f[x] \in Nat
    BY <1>2, Zenon
  <2> QED BY <1>1, <2>2, <2>4, <2>6, <2>7
<1> QED
  BY <1>1, <1>3, Zenon DEF Sum

-----------------------------------------------------------------------------
(* Well-formed maps.                                                       *)

\* r is a strict total order on S.
Orders(r, S) ==
    /\ r \subseteq S \X S
    /\ \A a, b \in S : a # b => (<<a, b>> \in r <=> <<b, a>> \notin r)
    /\ \A a \in S : <<a, a>> \notin r
    /\ \A a, b, c \in S : <<a, b>> \in r /\ <<b, c>> \in r => <<a, c>> \in r

\* What a well-formed table has.
LEMMA MapFacts ==
    ASSUME NEW m \in Maps
    PROVE  /\ m = [data |-> m.data, newer |-> m.newer, buckets |-> m.buckets]
           /\ Stored(m) \in SUBSET Keys
           /\ m.data \in [Stored(m) -> Entries]
           /\ Orders(m.newer, Stored(m))
           /\ m.buckets \in Nat
           /\ ~Overloaded(Size(m), m.buckets)
           /\ IsFiniteSet(Stored(m))
           /\ Size(m) \in Nat /\ Size(m) <= Cardinality(Keys)
<1>1. /\ m \in [data : UNION {[S -> Entries] : S \in SUBSET Keys},
                newer : SUBSET (Keys \X Keys), buckets : Nat]
      /\ Orders(m.newer, Stored(m))
      /\ ~Overloaded(Size(m), m.buckets)
  BY Zenon DEF Maps, Orders
<1>2. PICK S \in SUBSET Keys : m.data \in [S -> Entries]
  BY <1>1, Zenon
<1>3. Stored(m) = S
  BY <1>2, Zenon DEF Stored
<1>4. /\ IsFiniteSet(S) /\ Cardinality(S) \in Nat /\ Cardinality(S) <= Cardinality(Keys)
  BY KeysAssumption, FS_Subset, FS_CardinalityType, Zenon
<1> QED
  BY <1>1, <1>2, <1>3, <1>4, Zenon DEF Size

\* What makes a table well formed.
LEMMA MapIntro ==
    ASSUME NEW S \in SUBSET Keys, NEW d \in [S -> Entries], NEW r, Orders(r, S),
           NEW b \in Nat, ~Overloaded(Cardinality(S), b)
    PROVE  [data |-> d, newer |-> r, buckets |-> b] \in Maps
<1> DEFINE m == [data |-> d, newer |-> r, buckets |-> b]
<1>1. Stored(m) = S
  BY Zenon DEF Stored
<1>2. d \in UNION {[T -> Entries] : T \in SUBSET Keys}
  BY Zenon
<1>3. r \in SUBSET (Keys \X Keys)
  BY Zenon DEF Orders
<1>4. m \in [data : UNION {[T -> Entries] : T \in SUBSET Keys},
             newer : SUBSET (Keys \X Keys), buckets : Nat]
  BY <1>2, <1>3, Zenon
<1>5. /\ m.newer \subseteq Stored(m) \X Stored(m)
      /\ \A a, c \in Stored(m) : a # c => (<<a, c>> \in m.newer <=> <<c, a>> \notin m.newer)
      /\ \A a \in Stored(m) : <<a, a>> \notin m.newer
      /\ \A a, c, e \in Stored(m) :
            <<a, c>> \in m.newer /\ <<c, e>> \in m.newer => <<a, e>> \in m.newer
  BY <1>1, Zenon DEF Orders
<1>6. ~Overloaded(Size(m), m.buckets)
  BY <1>1, Zenon DEF Size
<1> QED
  BY <1>4, <1>5, <1>6, Zenon DEF Maps

\* A map restricted to some keys: erase, evictOldest, evictToFit and removeIf.
LEMMA OnlyKeys ==
    ASSUME NEW m \in Maps, NEW S
    PROVE  /\ Only(m, S) \in Maps
           /\ Stored(Only(m, S)) = Stored(m) \cap S
           /\ \A k \in Stored(m) \cap S : Only(m, S).data[k] = m.data[k]
           /\ Only(m, S).buckets = m.buckets
<1> DEFINE T == Stored(m) \cap S
           d == Restrict(m.data, T)
           r == m.newer \cap (S \X S)
<1>1. Only(m, S) = [data |-> d, newer |-> r, buckets |-> m.buckets]
  BY Zenon DEF Only
<1>2. T \in SUBSET Keys /\ d \in [T -> Entries] /\ \A k \in T : d[k] = m.data[k]
  BY MapFacts, Zenon DEF Restrict
<1>3. Orders(r, T)
  BY MapFacts DEF Orders
<1>4. ~Overloaded(Cardinality(T), m.buckets)
  <2>1. /\ Cardinality(T) \in Nat /\ Cardinality(T) <= Size(m) /\ Size(m) \in Nat
        /\ m.buckets \in Nat /\ ~Overloaded(Size(m), m.buckets)
    BY MapFacts, FS_Subset, FS_CardinalityType, Zenon DEF Size
  <2> QED BY <2>1 DEF Overloaded
<1>5. Only(m, S) \in Maps
  <2>1. m.buckets \in Nat
    BY MapFacts, Zenon
  <2> HIDE DEF T, d, r
  <2>2. [data |-> d, newer |-> r, buckets |-> m.buckets] \in Maps
    BY <1>2, <1>3, <1>4, <2>1, MapIntro, Zenon
  <2> QED BY <1>1, <2>2, Zenon
<1>6. Stored(Only(m, S)) = T /\ \A k \in T : Only(m, S).data[k] = m.data[k]
  <2> HIDE DEF d, r
  <2> QED BY <1>1, <1>2 DEF Stored
<1>7. Only(m, S).buckets = m.buckets
  BY Zenon DEF Only
<1> QED
  BY <1>5, <1>6, <1>7, Zenon

\* Putting k before all other keys of S keeps a total order.
LEMMA FrontOrder ==
    ASSUME NEW S, NEW k \in S, NEW r, Orders(r, S) \/ Orders(r, S \ {k}),
           NEW q, q = {p \in r : p[1] # k /\ p[2] # k} \cup ({k} \X (S \ {k}))
    PROVE  Orders(q, S) /\ \A x : <<x, k>> \notin q
<1>1. \A a, b : <<a, b>> \in q <=>
          \/ <<a, b>> \in r /\ a # k /\ b # k
          \/ a = k /\ b \in S /\ b # k
  BY Zenon
<1>2. q \subseteq S \X S
  BY ZenonT(40) DEF Orders
<1>3. /\ \A a, b \in S : a # b => (<<a, b>> \in q <=> <<b, a>> \notin q)
      /\ \A a \in S : <<a, a>> \notin q
      /\ \A a, b, c \in S : <<a, b>> \in q /\ <<b, c>> \in q => <<a, c>> \in q
  <2> DEFINE R == S \ {k}
  <2>1. /\ \A a, b \in R : a # b => (<<a, b>> \in r <=> <<b, a>> \notin r)
        /\ \A a \in R : <<a, a>> \notin r
        /\ \A a, b, c \in R : <<a, b>> \in r /\ <<b, c>> \in r => <<a, c>> \in r
    BY Zenon DEF Orders
  <2> QED BY <1>1, <2>1, Zenon
<1> QED
  BY <1>1, <1>2, <1>3, Zenon DEF Orders

\* touch: k becomes the newest, all else stays.
LEMMA FrontKeys ==
    ASSUME NEW m \in Maps, NEW k \in Stored(m)
    PROVE  /\ ToFront(m, k) \in Maps
           /\ ToFront(m, k).data = m.data
           /\ ToFront(m, k).buckets = m.buckets
           /\ \A x : <<x, k>> \notin ToFront(m, k).newer
<1> DEFINE S == Stored(m)
           q == {p \in m.newer : p[1] # k /\ p[2] # k} \cup ({k} \X (S \ {k}))
<1>1. ToFront(m, k) = [data |-> m.data, newer |-> q, buckets |-> m.buckets]
  BY Zenon DEF ToFront
<1>2. Orders(q, S) /\ \A x : <<x, k>> \notin q
  BY MapFacts, FrontOrder, Zenon
<1>3. ToFront(m, k) \in Maps
  <2>1. /\ S \in SUBSET Keys /\ m.data \in [S -> Entries] /\ m.buckets \in Nat
        /\ ~Overloaded(Cardinality(S), m.buckets)
    BY MapFacts, Zenon DEF Size
  <2> HIDE DEF S, q
  <2>2. [data |-> m.data, newer |-> q, buckets |-> m.buckets] \in Maps
    BY <1>2, <2>1, MapIntro, Zenon
  <2> QED BY <1>1, <2>2, Zenon
<1> QED
  BY <1>1, <1>2, <1>3

\* resize finds an array that is large enough and not overloaded.
LEMMA ResizeFits ==
    ASSUME NEW n \in Nat, n <= 2^HashBits, NEW size \in Nat, 4 * size <= 3 * 2^HashBits
    PROVE  ResizeTarget(n, size) \in Nat /\ ~Overloaded(size, ResizeTarget(n, size))
<1> DEFINE B == {p \in PowersOfTwo : p >= n /\ ~Overloaded(size, p)}
<1>1. B \in SUBSET Nat
  BY HashAssumption DEF PowersOfTwo
<1>2. 2^HashBits \in B
  BY HashAssumption DEF PowersOfTwo, Overloaded
<1>3. \E p \in B : \A q \in B : p <= q
  BY <1>1, <1>2, LeastNat, Zenon
<1>4. Min(B) \in B
  BY <1>3, Zenon DEF Min
<1> QED
  BY <1>1, <1>4, Zenon DEF ResizeTarget

\* put: k is stored with its new value and is the newest; the rest stays.
LEMMA PutKeys ==
    ASSUME NEW m \in Maps, NEW k \in Keys, NEW v \in Values
    PROVE  /\ Put(m, k, v) \in Maps
           /\ Stored(Put(m, k, v)) = Stored(m) \cup {k}
           /\ Put(m, k, v).data[k] = [value |-> v, expiration |-> NoExpiration]
           /\ \A x \in Stored(m) \ {k} : Put(m, k, v).data[x] = m.data[x]
           /\ \A x : <<x, k>> \notin Put(m, k, v).newer
<1> DEFINE n == IF m.buckets = 0 THEN DefaultBuckets ELSE m.buckets
           e == [value |-> v, expiration |-> NoExpiration]
           S == Stored(m) \cup {k}
           d == [x \in S |-> IF x = k THEN e ELSE m.data[x]]
           q == {p \in m.newer : p[1] # k /\ p[2] # k} \cup ({k} \X (S \ {k}))
           F(b) == [data |-> d, newer |-> q, buckets |-> b]
<1>1. /\ Stored(m) \in SUBSET Keys /\ m.data \in [Stored(m) -> Entries]
      /\ Orders(m.newer, Stored(m)) /\ m.buckets \in Nat /\ Size(m) \in Nat
      /\ IsFiniteSet(Stored(m))
      /\ ~Overloaded(Size(m), m.buckets)
  BY MapFacts, Zenon
<1>2. S \in SUBSET Keys /\ d \in [S -> Entries] /\ n \in Nat
  BY <1>1, BucketsAssumption DEF Entries, NoExpiration
<1>3. Orders(q, S) /\ \A x : <<x, k>> \notin q
  <2>1. Orders(m.newer, S) \/ Orders(m.newer, S \ {k})
    <3>1. S = Stored(m) \/ S \ {k} = Stored(m)
      BY Zenon
    <3> QED BY <1>1, <3>1, Zenon
  <2> QED BY <2>1, FrontOrder, Zenon
<1>4. Cardinality(S) \in Nat /\ Cardinality(S) <= Cardinality(Keys) /\ Cardinality(Keys) \in Nat
  BY <1>2, KeysAssumption, FS_Subset, FS_CardinalityType, Zenon
<1>5. \A b \in Nat : ~Overloaded(Cardinality(S), b) => F(b) \in Maps
  <2> HIDE DEF S, d, q
  <2> QED BY <1>2, <1>3, MapIntro, Zenon
<1>6. \E b \in Nat : Put(m, k, v) = F(b) /\ ~Overloaded(Cardinality(S), b)
  <2> DEFINE stored == [data |-> d, newer |-> m.newer, buckets |-> n]
  <2>1. Stored(stored) = S
    BY Zenon DEF Stored
  <2>2. ToFront(stored, k) = F(n)
    BY <2>1, Zenon DEF ToFront
  <2>3. Put(m, k, v) = IF k \in Stored(m) THEN F(n) ELSE Grown(F(n))
    BY <2>2, Zenon DEF Put
  <2>4. CASE k \in Stored(m)
    <3>1. S = Stored(m) /\ Cardinality(S) = Size(m)
      BY <2>4, Zenon DEF Size
    <3>2. Cardinality(S) # 0
      BY <1>1, <3>1, FS_EmptySet, Zenon
    <3>3. n = m.buckets
      BY <1>1, <1>4, <3>1, <3>2 DEF Overloaded
    <3> QED BY <1>1, <1>2, <2>3, <2>4, <3>1, <3>3, Zenon
  <2>5. CASE k \notin Stored(m)
    <3>1. Size(F(n)) = Cardinality(S)
      BY Zenon DEF Size, Stored
    <3>2. CASE ~Overloaded(Cardinality(S), n)
      BY <1>2, <2>3, <2>5, <3>1, <3>2, Zenon DEF Grown
    <3>3. CASE Overloaded(Cardinality(S), n)
      <4> DEFINE b == ResizeTarget(2 * n, Cardinality(S))
      <4>1. /\ 8 * Cardinality(S) <= 3 * 2^HashBits /\ 4 * Cardinality(S) > 3 * n
            /\ 2^HashBits \in Int
        BY <1>4, <3>3, KeysAssumption, HashAssumption DEF Overloaded
      <4>2. b \in Nat /\ ~Overloaded(Cardinality(S), b)
        <5>1. 2 * n \in Nat /\ 2 * n <= 2^HashBits /\ 4 * Cardinality(S) <= 3 * 2^HashBits
          BY <1>2, <1>4, <4>1
        <5> QED BY <1>4, <5>1, ResizeFits, Zenon
      <4>3. Grown(F(n)) = F(b)
        BY <3>1, <3>3, Zenon DEF Grown
      <4> QED BY <2>3, <2>5, <4>2, <4>3, Zenon
    <3> QED BY <3>2, <3>3, Zenon
  <2> QED BY <2>4, <2>5, Zenon
<1>7. PICK b \in Nat : Put(m, k, v) = F(b) /\ ~Overloaded(Cardinality(S), b)
  BY <1>6, Zenon
<1>8. Put(m, k, v) \in Maps
  BY <1>5, <1>7, Zenon
<1> QED
  BY <1>3, <1>7, <1>8 DEF Stored

\* The write of an expiration changes nothing else.
LEMMA ExpireKeys ==
    ASSUME NEW m \in Maps, NEW k \in Stored(m), NEW at \in Int
    PROVE  /\ Expire(m, k, at) \in Maps
           /\ Stored(Expire(m, k, at)) = Stored(m)
           /\ Expire(m, k, at).data[k] = [value |-> m.data[k].value, expiration |-> at]
           /\ \A x \in Stored(m) \ {k} : Expire(m, k, at).data[x] = m.data[x]
           /\ Expire(m, k, at).newer = m.newer
<1> DEFINE d == [m.data EXCEPT ![k].expiration = at]
<1>1. /\ Stored(m) \in SUBSET Keys /\ m.data \in [Stored(m) -> Entries]
      /\ Orders(m.newer, Stored(m)) /\ m.buckets \in Nat
      /\ ~Overloaded(Cardinality(Stored(m)), m.buckets)
      /\ m = [data |-> m.data, newer |-> m.newer, buckets |-> m.buckets]
  BY MapFacts, Zenon DEF Size
<1>2. /\ d \in [Stored(m) -> Entries]
      /\ d[k] = [value |-> m.data[k].value, expiration |-> at]
      /\ \A x \in Stored(m) \ {k} : d[x] = m.data[x]
  BY <1>1, Zenon DEF Entries
<1>3. Expire(m, k, at) = [data |-> d, newer |-> m.newer, buckets |-> m.buckets]
  BY <1>1 DEF Expire
<1>4. [data |-> d, newer |-> m.newer, buckets |-> m.buckets] \in Maps
  <2> HIDE DEF d
  <2> QED BY <1>1, <1>2, MapIntro, Zenon
<1> QED
  BY <1>2, <1>3, <1>4 DEF Stored

\* A map without entries.
LEMMA EmptyKeys ==
    ASSUME NEW b \in Nat
    PROVE  EmptyMap(b) \in Maps /\ Stored(EmptyMap(b)) = {}
<1>1. Stored(EmptyMap(b)) = {} /\ <<>> \in [{} -> Entries]
  BY DEF EmptyMap, Stored
<1>2. Orders({}, {})
  BY Zenon DEF Orders
<1>3. ~Overloaded(Cardinality({}), b)
  BY FS_EmptySet DEF Overloaded
<1>4. [data |-> <<>>, newer |-> {}, buckets |-> b] \in Maps
  BY <1>1, <1>2, <1>3, MapIntro, Zenon
<1> QED
  BY <1>1, <1>4, Zenon DEF EmptyMap

\* Nothing is dropped when all keys are kept.
LEMMA OnlyAll ==
    ASSUME NEW m \in Maps
    PROVE  Only(m, Stored(m)) = m
<1>1. m = [data |-> m.data, newer |-> m.newer, buckets |-> m.buckets]
  BY MapFacts, Zenon
<1>2. Restrict(m.data, Stored(m) \cap Stored(m)) = m.data
  BY MapFacts, Zenon DEF Restrict
<1>3. m.newer \cap (Stored(m) \X Stored(m)) = m.newer
  BY MapFacts, Zenon DEF Orders
<1> QED
  BY <1>1, <1>2, <1>3, Zenon DEF Only

\* removeIf takes some of the entries its predicate accepts and no other.
LEMMA RemoveIfKeys ==
    ASSUME NEW m \in Maps, NEW first, NEW count, NEW dead
    PROVE  \E S \in SUBSET Stored(m) :
              RemoveIf(m, first, count, dead) = Only(m, S) /\ Stored(m) \ dead \subseteq S
<1>1. Only(m, Stored(m)) = m
  BY OnlyAll, Zenon
<1> QED
  BY <1>1, Zenon DEF RemoveIf

-----------------------------------------------------------------------------
(* Bytes.                                                                  *)

\* A footprint is a number of bytes.
LEMMA FootprintsType ==
    ASSUME NEW m \in Maps
    PROVE  \A k \in Stored(m) : Footprints(m)[k] \in Nat
BY MapFacts, BytesAssumption DEF Footprints, FootprintEstimate, Entries

\* memoryUsage is a number of bytes.
LEMMA UsageType ==
    ASSUME NEW m \in Maps
    PROVE  EntryBytes(m) \in Nat /\ MemoryUsage(m) \in Nat
<1>1. DOMAIN Footprints(m) = Stored(m)
  BY Zenon DEF Footprints
<1>2. EntryBytes(m) \in Nat
  BY <1>1, MapFacts, FootprintsType, SumType, Zenon DEF EntryBytes, SumFunction
<1> QED
  BY <1>2, MapFacts, BytesAssumption DEF MemoryUsage

\* Fewer entries, fewer bytes: the total never grows when entries go.
LEMMA OnlyIsLighter ==
    ASSUME NEW m \in Maps, NEW S
    PROVE  MemoryUsage(Only(m, S)) <= MemoryUsage(m)
<1> DEFINE n == Only(m, S)
           T == Stored(m) \cap S
<1>1. /\ n \in Maps /\ Stored(n) = T /\ n.buckets = m.buckets
      /\ \A k \in T : n.data[k] = m.data[k]
  BY OnlyKeys, Zenon
<1>2. DOMAIN Footprints(n) = T /\ DOMAIN Footprints(m) = Stored(m)
  BY <1>1, Zenon DEF Footprints
<1>3. \A k \in T : Footprints(n)[k] = Footprints(m)[k]
  BY <1>1, Zenon DEF Footprints
<1>4. IsFiniteSet(Stored(m)) /\ IsFiniteSet(T)
  BY MapFacts, FS_Subset, Zenon
<1>5. SumFunctionOnSet(Footprints(n), T) = SumFunctionOnSet(Footprints(m), T)
  BY <1>3, <1>4, SumAgree
<1>6. SumFunctionOnSet(Footprints(m), T) <= SumFunctionOnSet(Footprints(m), Stored(m))
  BY <1>4, FootprintsType, SumSubset, Zenon
<1>7. EntryBytes(n) <= EntryBytes(m)
  BY <1>2, <1>5, <1>6, Zenon DEF EntryBytes, SumFunction
<1>8. EntryBytes(n) \in Nat /\ EntryBytes(m) \in Nat /\ m.buckets * SlotBytes \in Nat
  BY <1>1, UsageType, MapFacts, BytesAssumption
<1> HIDE DEF n
<1>9. MemoryUsage(n) <= MemoryUsage(m)
  BY <1>1, <1>7, <1>8 DEF MemoryUsage
<1> QED
  BY <1>9, Zenon DEF n

\* Moving a key to the front costs nothing.
LEMMA FrontWeighsTheSame ==
    ASSUME NEW m \in Maps, NEW k \in Stored(m)
    PROVE  MemoryUsage(ToFront(m, k)) = MemoryUsage(m)
<1>1. ToFront(m, k).data = m.data /\ ToFront(m, k).buckets = m.buckets
  BY FrontKeys, Zenon
<1>2. Footprints(ToFront(m, k)) = Footprints(m)
  BY <1>1, Zenon DEF Footprints, Stored
<1> QED
  BY <1>1, <1>2, Zenon DEF MemoryUsage, EntryBytes

\* clear() keeps the bucket array and so weighs no more than what it cleared.
LEMMA EmptyIsLighter ==
    ASSUME NEW m \in Maps
    PROVE  MemoryUsage(EmptyMap(m.buckets)) <= MemoryUsage(m)
<1> DEFINE n == EmptyMap(m.buckets)
<1>1. Stored(n) = {} /\ n.buckets = m.buckets
  BY MapFacts, EmptyKeys, Zenon DEF EmptyMap
<1>2. EntryBytes(n) = SumFunctionOnSet(Footprints(n), {})
  BY <1>1, Zenon DEF EntryBytes, SumFunction, Footprints
<1>3. EntryBytes(n) = 0
  BY <1>2, SumEquation, FS_EmptySet, Zenon
<1>4. EntryBytes(m) \in Nat /\ m.buckets * SlotBytes \in Nat
  BY UsageType, MapFacts, BytesAssumption
<1> HIDE DEF n
<1>5. MemoryUsage(n) <= MemoryUsage(m)
  BY <1>1, <1>3, <1>4 DEF MemoryUsage
<1> QED
  BY <1>5, Zenon DEF n
=============================================================================
