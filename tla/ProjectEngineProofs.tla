------------------------- MODULE ProjectEngineProofs -------------------------
(***************************************************************************)
(* The engine handle of the server and the rows of the project stay one    *)
(* project, for any inventory and any sequence of commands.                *)
(***************************************************************************)
EXTENDS ProjectEngine, FiniteSetTheorems, WellFoundedInduction, TLAPS

-----------------------------------------------------------------------------
(* Induction *)

(* A set of natural numbers has a least one.                               *)
LEMMA LeastNumber ==
  ASSUME NEW T \in SUBSET Nat, T # {}
  PROVE  \E m \in T : \A k \in T : m <= k
<1> DEFINE R == OpToRel(<, Nat)
<1>1. IsWellFoundedOn(R, Nat)
  BY NatLessThanWellFounded
<1>2. \A x, y \in Nat : y < x => <<y, x>> \in R
  BY DEF OpToRel
<1> HIDE DEF R
<1>3. PICK m \in T : \A y \in T : ~ (<<y, m>> \in R)
  BY <1>1, WFMin
<1>4. m \in Nat /\ \A k \in T : k \in Nat
  OBVIOUS
<1>5. \A k \in T : ~(k < m)
  BY <1>2, <1>3, <1>4, Zenon
<1>6. \A k \in T : m <= k
  BY <1>4, <1>5
<1> QED BY <1>6

(* A set of natural numbers with 0 and every successor has them all.       *)
LEMMA Induction ==
  ASSUME NEW N \in SUBSET Nat, 0 \in N, \A n \in N : n + 1 \in N
  PROVE  N = Nat
<1> SUFFICES ASSUME N # Nat PROVE FALSE
  OBVIOUS
<1>1. Nat \ N # {}
  OBVIOUS
<1>2. PICK m \in Nat \ N : \A k \in Nat \ N : m <= k
  BY <1>1, LeastNumber
<1>3. m - 1 \in Nat \ N
  BY <1>2
<1> QED BY <1>2, <1>3

-----------------------------------------------------------------------------
(* Folds over a patch *)

(* applyProjectPatch of the store: the rows after each part of the patch.  *)
Store(d, patch) == FoldLeft(LAMBDA ds, p : UNION {StorePatch(y, p) : y \in ds}, {d}, patch)

(* FoldLeft folds over sets of indices, the greatest first.                *)
IsFold(f, d, s, n) ==
  f = [S \in SUBSET (1..n) |->
         IF S = {} THEN {d}
         ELSE UNION {StorePatch(y, s[Max(S)]) : y \in f[S \ {Max(S)}]}]

(* The recursive function in FoldLeft exists.                              *)
LEMMA StoreFoldExists ==
  ASSUME NEW d, NEW s
  PROVE  \A n \in Nat : \E f : IsFold(f, d, s, n)
<1> DEFINE N == {n \in Nat : \E f : IsFold(f, d, s, n)}
<1>1. 0 \in N
  <2> DEFINE g == [S \in SUBSET (1..0) |-> {d}]
  <2>1. \A S \in SUBSET (1..0) : S = {}
    OBVIOUS
  <2>2. IsFold(g, d, s, 0)
    BY <2>1 DEF IsFold
  <2> QED BY <2>2
<1>2. ASSUME NEW n \in N PROVE n + 1 \in N
  <2>1. n \in Nat /\ 1..(n + 1) = (1..n) \cup {n + 1} /\ n + 1 \notin 1..n
    OBVIOUS
  <2>2. PICK f : IsFold(f, d, s, n)
    OBVIOUS
  <2> DEFINE g == [S \in SUBSET (1..(n + 1)) |->
               IF n + 1 \in S THEN UNION {StorePatch(y, s[n + 1]) : y \in f[S \ {n + 1}]}
               ELSE f[S]]
  <2>3. \A S \in SUBSET (1..(n + 1)) : n + 1 \in S => Max(S) = n + 1 /\ S \ {n + 1} \in SUBSET (1..n)
    <3> TAKE S \in SUBSET (1..(n + 1))
    <3> HAVE n + 1 \in S
    <3>1. \A x \in S : n + 1 >= x /\ (x >= n + 1 => x = n + 1)
      BY <2>1
    <3> QED BY <2>1, <3>1 DEF Max
  <2>4. \A S \in SUBSET (1..(n + 1)) : n + 1 \notin S => S \in SUBSET (1..n)
    BY <2>1
  <2>5. \A S \in SUBSET (1..n) : g[S] = f[S] /\ S \in SUBSET (1..(n + 1)) /\ S \ {Max(S)} \in SUBSET (1..n)
    BY <2>1
  <2>6. IsFold(g, d, s, n + 1)
    <3> SUFFICES ASSUME NEW S \in SUBSET (1..(n + 1))
                 PROVE  g[S] = IF S = {} THEN {d}
                               ELSE UNION {StorePatch(y, s[Max(S)]) : y \in g[S \ {Max(S)}]}
      BY DEF IsFold
    <3>1. CASE n + 1 \in S
      <4>1. Max(S) = n + 1 /\ S \ {n + 1} \in SUBSET (1..n)
        BY <2>3, <3>1
      <4>2. g[S \ {n + 1}] = f[S \ {n + 1}]
        BY <4>1, <2>5
      <4>3. g[S] = UNION {StorePatch(y, s[n + 1]) : y \in f[S \ {n + 1}]}
        BY <3>1
      <4> HIDE DEF g
      <4>4. g[S] = UNION {StorePatch(y, s[Max(S)]) : y \in g[S \ {Max(S)}]}
        BY <4>1, <4>2, <4>3, Zenon
      <4> QED BY <3>1, <4>4, Zenon
    <3>2. CASE n + 1 \notin S
      <4>1. S \in SUBSET (1..n)
        BY <2>4, <3>2
      <4>2. g[S] = f[S] /\ g[S \ {Max(S)}] = f[S \ {Max(S)}]
        BY <4>1, <2>5
      <4>3. f[S] = IF S = {} THEN {d}
                   ELSE UNION {StorePatch(y, s[Max(S)]) : y \in f[S \ {Max(S)}]}
        BY <2>2, <4>1 DEF IsFold
      <4> QED BY <4>2, <4>3
    <3> QED BY <3>1, <3>2
  <2> HIDE DEF g
  <2>7. \E h : IsFold(h, d, s, n + 1)
    BY <2>6
  <2> QED BY <2>1, <2>7
<1>3. N \in SUBSET Nat
  OBVIOUS
<1>4. N = Nat
  <2> HIDE DEF N
  <2> QED BY <1>1, <1>2, <1>3, Induction
<1> QED BY <1>4

(* The rows after the parts of a patch, one after the other.               *)
IsRun(run, d, s, n) ==
  /\ run[0] = {d}
  /\ \A k \in 1..n : run[k] = UNION {StorePatch(y, s[k]) : y \in run[k - 1]}

(* The rows after a patch are those after the last of its parts.           *)
LEMMA StoreSteps ==
  ASSUME NEW d, NEW s, NEW n \in Nat, DOMAIN s = 1..n
  PROVE  \E run : IsRun(run, d, s, n) /\ Store(d, s) = run[n]
<1>1. \E f : IsFold(f, d, s, n)
  BY StoreFoldExists
<1>2. PICK f : /\ f = [S \in SUBSET (DOMAIN s) |->
                       IF S = {} THEN {d}
                       ELSE UNION {StorePatch(y, s[Max(S)]) : y \in f[S \ {Max(S)}]}]
               /\ Store(d, s) = f[DOMAIN s]
  BY <1>1, Zenon DEF Store, FoldLeft, MapThenFoldSet, IsFold
<1> DEFINE run == [k \in 0..n |-> f[1..k]]
<1>3. 1..0 = {} /\ run[0] = f[1..0] /\ run[n] = f[1..n]
  OBVIOUS
<1>4. run[0] = {d}
  BY <1>2, <1>3
<1>5. ASSUME NEW k \in 1..n
      PROVE  run[k] = UNION {StorePatch(y, s[k]) : y \in run[k - 1]}
  <2>1. 1..k \in SUBSET (1..n) /\ 1..k # {} /\ (1..k) \ {k} = 1..(k - 1)
    OBVIOUS
  <2>2. Max(1..k) = k
    <3>1. \A x \in 1..k : k >= x /\ (x >= k => x = k)
      OBVIOUS
    <3>2. k \in 1..k
      OBVIOUS
    <3> QED BY <3>1, <3>2 DEF Max
  <2>3. f[1..k] = UNION {StorePatch(y, s[Max(1..k)]) : y \in f[(1..k) \ {Max(1..k)}]}
    BY <1>2, <2>1
  <2>4. run[k] = f[1..k] /\ run[k - 1] = f[1..(k - 1)]
    OBVIOUS
  <2> HIDE DEF run
  <2> QED BY <2>1, <2>2, <2>3, <2>4, Zenon
<1> HIDE DEF run
<1> QED BY <1>2, <1>3, <1>4, <1>5 DEF IsRun

(* A patch of one part.                                                    *)
LEMMA StoreOne ==
  ASSUME NEW d, NEW p
  PROVE  Store(d, <<p>>) = StorePatch(d, p)
<1> PICK s : s = <<p>>  OBVIOUS
<1>1. DOMAIN s = 1..1 /\ s[1] = p
  OBVIOUS
<1>2. PICK run : IsRun(run, d, s, 1) /\ Store(d, s) = run[1]
  <2> PICK n \in Nat : n = 1  OBVIOUS
  <2>1. DOMAIN s = 1..n
    BY <1>1
  <2>2. \E run : IsRun(run, d, s, n) /\ Store(d, s) = run[n]
    BY <2>1, StoreSteps
  <2> QED BY <2>2
<1>3. run[0] = {d} /\ run[1] = UNION {StorePatch(y, s[1]) : y \in run[0]}
  BY <1>2 DEF IsRun
<1> QED BY <1>1, <1>2, <1>3

(* A patch of two parts.                                                   *)
LEMMA StoreTwo ==
  ASSUME NEW d, NEW p, NEW q
  PROVE  Store(d, <<p, q>>) = UNION {StorePatch(y, q) : y \in StorePatch(d, p)}
<1> PICK s : s = <<p, q>>  OBVIOUS
<1>1. DOMAIN s = 1..2 /\ s[1] = p /\ s[2] = q
  OBVIOUS
<1>2. PICK run : IsRun(run, d, s, 2) /\ Store(d, s) = run[2]
  <2> PICK n \in Nat : n = 2  OBVIOUS
  <2>1. DOMAIN s = 1..n
    BY <1>1
  <2>2. \E run : IsRun(run, d, s, n) /\ Store(d, s) = run[n]
    BY <2>1, StoreSteps
  <2> QED BY <2>2
<1>3. run[0] = {d} /\ run[1] = UNION {StorePatch(y, s[1]) : y \in run[0]}
  BY <1>2 DEF IsRun
<1>4. run[2] = UNION {StorePatch(y, s[2]) : y \in run[1]}
  BY <1>2 DEF IsRun
<1> QED BY <1>1, <1>2, <1>3, <1>4

-----------------------------------------------------------------------------
(* Sets in the order of their ids *)

UniqueIds(S) == \A c, d \in S : c.id = d.id => c = d

Sorted(s, S) ==
  /\ s \in [1..Cardinality(S) -> S]
  /\ \A i, j \in 1..Cardinality(S) : i < j => s[i].id < s[j].id

(* The members of a set with different ids, all bounded, can be sorted.    *)
LEMMA SortedExists ==
  ASSUME NEW U
  PROVE  \A b \in Nat : \A S \in SUBSET U :
           UniqueIds(S) /\ (\A c \in S : c.id \in 1..b) =>
             IsFiniteSet(S) /\ \E s : Sorted(s, S)
<1> DEFINE Ok(b) == \A S \in SUBSET U :
             UniqueIds(S) /\ (\A c \in S : c.id \in 1..b) =>
               IsFiniteSet(S) /\ \E s : Sorted(s, S)
           N == {b \in Nat : Ok(b)}
<1>1. 0 \in N
  <2>1. ASSUME NEW S \in SUBSET U, \A c \in S : c.id \in 1..0
        PROVE  IsFiniteSet(S) /\ \E s : Sorted(s, S)
    <3>1. S = {}
      BY <2>1
    <3>2. IsFiniteSet(S) /\ Cardinality(S) = 0
      BY <3>1, FS_EmptySet
    <3>3. <<>> \in [1..0 -> S] /\ 1..0 = {}
      OBVIOUS
    <3>4. Sorted(<<>>, S)
      BY <3>2, <3>3 DEF Sorted
    <3> QED BY <3>2, <3>4
  <2> QED BY <2>1
<1>2. ASSUME NEW b \in N PROVE b + 1 \in N
  <2>1. b \in Nat /\ Ok(b)
    OBVIOUS
  <2>2. ASSUME NEW S \in SUBSET U, UniqueIds(S), \A c \in S : c.id \in 1..(b + 1)
        PROVE  IsFiniteSet(S) /\ \E s : Sorted(s, S)
    <3>1. CASE \A c \in S : c.id # b + 1
      <4>1. \A c \in S : c.id \in 1..b
        BY <2>1, <2>2, <3>1
      <4> QED BY <2>1, <2>2, <4>1
    <3>2. ASSUME NEW m \in S, m.id = b + 1
          PROVE  IsFiniteSet(S) /\ \E s : Sorted(s, S)
      <4> DEFINE T == S \ {m}
      <4>1. \A c \in T : c.id \in 1..b
        BY <2>1, <2>2, <3>2 DEF UniqueIds
      <4>2. T \in SUBSET U /\ UniqueIds(T)
        BY <2>2 DEF UniqueIds
      <4>3. IsFiniteSet(T) /\ \E s : Sorted(s, T)
        BY <2>1, <4>1, <4>2
      <4>4. S = T \cup {m} /\ m \notin T
        OBVIOUS
      <4> HIDE DEF T
      <4>5. IsFiniteSet(S) /\ Cardinality(S) = Cardinality(T) + 1 /\ Cardinality(T) \in Nat
        BY <4>3, <4>4, FS_AddElement, FS_CardinalityType
      <4>6. PICK s : Sorted(s, T)
        BY <4>3
      <4> PICK n \in Nat : n = Cardinality(T)
        BY <4>5
      <4> DEFINE u == [i \in 1..(n + 1) |-> IF i = n + 1 THEN m ELSE s[i]]
      <4>7. \A i \in 1..n : s[i] \in T /\ s[i].id \in 1..b /\ u[i] = s[i]
        BY <4>1, <4>6 DEF Sorted
      <4>8. u \in [1..(n + 1) -> S] /\ u[n + 1] = m
        BY <4>4, <4>7
      <4>9. \A i, j \in 1..(n + 1) : i < j => u[i].id < u[j].id
        <5> TAKE i, j \in 1..(n + 1)
        <5> HAVE i < j
        <5>1. i \in 1..n /\ u[i] = s[i]
          BY <4>7
        <5>2. CASE j = n + 1
          <6>1. u[j].id = b + 1 /\ u[i].id \in 1..b
            BY <3>2, <4>7, <4>8, <5>1, <5>2
          <6> HIDE DEF u
          <6> QED BY <2>1, <6>1
        <5>3. CASE j # n + 1
          <6>1. j \in 1..n /\ u[j] = s[j]
            BY <4>7, <5>3
          <6> HIDE DEF u
          <6> QED BY <4>6, <5>1, <6>1 DEF Sorted
        <5> QED BY <5>2, <5>3
      <4> HIDE DEF u
      <4>10. Sorted(u, S)
        BY <4>5, <4>8, <4>9 DEF Sorted
      <4> QED BY <4>5, <4>10
    <3> QED BY <3>1, <3>2
  <2>3. Ok(b + 1)
    BY <2>2
  <2> HIDE DEF Ok
  <2> QED BY <2>1, <2>3
<1>3. N \in SUBSET Nat
  OBVIOUS
<1>4. N = Nat
  <2> HIDE DEF N, Ok
  <2> QED BY <1>1, <1>2, <1>3, Induction
<1> QED BY <1>4

(* InIdOrder has every member of the set, once.                            *)
LEMMA InIdOrderFacts ==
  ASSUME NEW S, NEW b \in Nat, UniqueIds(S), \A c \in S : c.id \in 1..b
  PROVE  /\ IsFiniteSet(S) /\ Cardinality(S) \in Nat
         /\ InIdOrder(S) \in [1..Cardinality(S) -> S]
         /\ \A i, j \in 1..Cardinality(S) : i # j => InIdOrder(S)[i].id # InIdOrder(S)[j].id
         /\ \A c \in S : \E i \in 1..Cardinality(S) : InIdOrder(S)[i] = c
<1>1. IsFiniteSet(S) /\ \E s : Sorted(s, S)
  BY SortedExists
<1>2. Cardinality(S) \in Nat
  BY <1>1, FS_CardinalityType
<1> PICK n \in Nat : n = Cardinality(S)
  BY <1>2
<1> PICK o : o = InIdOrder(S)  OBVIOUS
<1>3. PICK s \in [1..n -> S] : \A i, j \in DOMAIN s : i < j => s[i].id < s[j].id
  BY <1>1 DEF Sorted
<1>4. o \in [1..n -> S] /\ \A i, j \in DOMAIN o : i < j => o[i].id < o[j].id
  BY <1>3, Zenon DEF InIdOrder
<1>5. \A i \in 1..n : o[i] \in S /\ o[i].id \in Nat
  BY <1>4
<1>6. \A i, j \in 1..n : i # j => o[i].id # o[j].id
  <2> SUFFICES ASSUME NEW i \in 1..n, NEW j \in 1..n, i # j PROVE o[i].id # o[j].id
    OBVIOUS
  <2>1. i < j \/ j < i
    OBVIOUS
  <2>2. o[i].id < o[j].id \/ o[j].id < o[i].id
    BY <1>4, <2>1
  <2> QED BY <1>5, <2>2
<1>7. o \in Injection(1..n, S)
  BY <1>4, <1>6 DEF Injection, IsInjective
<1>8. Cardinality(1..n) = n /\ IsFiniteSet(1..n)
  <2>1. 1 \in Int /\ n \in Int
    OBVIOUS
  <2>2. IsFiniteSet(1..n) /\ Cardinality(1..n) = IF 1 > n THEN 0 ELSE n - 1 + 1
    BY <2>1, FS_Interval
  <2> QED BY <2>2
<1>9. o \in Surjection(1..n, S)
  BY <1>1, <1>7, <1>8, FS_Injection
<1>10. \A c \in S : \E i \in 1..n : o[i] = c
  BY <1>9 DEF Surjection
<1> QED BY <1>1, <1>2, <1>4, <1>6, <1>10

-----------------------------------------------------------------------------
(* Networks *)

IsReach(f, t, r, n) ==
  f = [k \in 0..n |->
         IF k = 0 THEN {r} ELSE f[k - 1] \cup UNION {Neighbours(t, s) : s \in f[k - 1]}]

(* The recursive function in Segment exists.                               *)
LEMMA ReachExists ==
  ASSUME NEW t, NEW r
  PROVE  \A n \in Nat : \E f : IsReach(f, t, r, n)
<1> DEFINE N == {n \in Nat : \E f : IsReach(f, t, r, n)}
<1>1. 0 \in N
  <2> DEFINE g == [k \in 0..0 |-> {r}]
  <2>1. IsReach(g, t, r, 0)
    BY DEF IsReach
  <2> HIDE DEF g
  <2> QED BY <2>1
<1>2. ASSUME NEW n \in N PROVE n + 1 \in N
  <2>1. n \in Nat
    OBVIOUS
  <2>2. PICK f : IsReach(f, t, r, n)
    OBVIOUS
  <2> DEFINE g == [k \in 0..(n + 1) |->
               IF k = n + 1 THEN f[n] \cup UNION {Neighbours(t, s) : s \in f[n]} ELSE f[k]]
  <2>3. \A k \in 0..n : g[k] = f[k]
    BY <2>1
  <2>4. g[n + 1] = f[n] \cup UNION {Neighbours(t, s) : s \in f[n]}
    BY <2>1
  <2>5. g = [k \in 0..(n + 1) |-> g[k]]
    OBVIOUS
  <2> HIDE DEF g
  <2>6. \A k \in 0..(n + 1) :
          g[k] = IF k = 0 THEN {r} ELSE g[k - 1] \cup UNION {Neighbours(t, s) : s \in g[k - 1]}
    <3> TAKE k \in 0..(n + 1)
    <3>1. CASE k = n + 1
      <4>1. k # 0 /\ k - 1 = n /\ n \in 0..n
        BY <2>1, <3>1
      <4>2. g[k - 1] = f[n]
        BY <2>3, <4>1
      <4> QED BY <2>4, <3>1, <4>1, <4>2, Zenon
    <3>2. CASE k # n + 1
      <4>1. k \in 0..n /\ (k # 0 => k - 1 \in 0..n)
        BY <2>1, <3>2
      <4>2. f[k] = IF k = 0 THEN {r} ELSE f[k - 1] \cup UNION {Neighbours(t, s) : s \in f[k - 1]}
        BY <2>2, <4>1 DEF IsReach
      <4>3. g[k] = f[k] /\ (k # 0 => g[k - 1] = f[k - 1])
        BY <2>3, <4>1
      <4> QED BY <4>2, <4>3, Zenon
    <3> QED BY <3>1, <3>2
  <2>7. IsReach(g, t, r, n + 1)
    BY <2>5, <2>6, Zenon DEF IsReach
  <2> QED BY <2>1, <2>7
<1>3. N \in SUBSET Nat
  OBVIOUS
<1>4. N = Nat
  <2> HIDE DEF N
  <2> QED BY <1>1, <1>2, <1>3, Induction
<1> QED BY <1>4

(* What Segment reaches in so many steps.                                  *)
LEMMA SegmentReach ==
  ASSUME NEW t, NEW r
  PROVE  /\ Cardinality(Ports) \in Nat
         /\ \E f : IsReach(f, t, r, Cardinality(Ports)) /\ Segment(t, r) = f[Cardinality(Ports)]
<1>1. Cardinality(Ports) \in Nat
  BY InventoryAssumption, FS_CardinalityType
<1>2. \E f : IsReach(f, t, r, Cardinality(Ports))
  BY <1>1, ReachExists
<1>3. \E f : IsReach(f, t, r, Cardinality(Ports)) /\ Segment(t, r) = f[Cardinality(Ports)]
  BY <1>2, Zenon DEF Segment, IsReach
<1> QED BY <1>1, <1>3

Wired(t) == \A c \in t.conns : c.from \in Refs /\ c.to \in Refs

(* The neighbours of an endpoint are endpoints.                            *)
LEMMA NeighboursAreRefs ==
  ASSUME NEW t, Wired(t), NEW r \in Refs
  PROVE  Neighbours(t, r) \subseteq Refs
<1>1. [r EXCEPT !.port = Face[@]] \in Refs
  BY InventoryAssumption DEF Refs
<1> QED BY <1>1 DEF Neighbours, Wired

(* So is all of a network.                                                 *)
LEMMA SegmentIsRefs ==
  ASSUME NEW t, Wired(t), NEW r \in Refs
  PROVE  Segment(t, r) \subseteq Refs
<1> PICK n : n = Cardinality(Ports)  OBVIOUS
<1>1. n \in Nat
  BY SegmentReach
<1>2. PICK f : IsReach(f, t, r, n) /\ Segment(t, r) = f[n]
  BY SegmentReach
<1> DEFINE N == {k \in Nat : k <= n => f[k] \subseteq Refs}
<1>3. 0 \in N
  <2>1. f[0] = {r}
    BY <1>1, <1>2 DEF IsReach
  <2> QED BY <2>1
<1>4. ASSUME NEW k \in N PROVE k + 1 \in N
  <2> SUFFICES ASSUME k + 1 <= n PROVE f[k + 1] \subseteq Refs
    OBVIOUS
  <2>1. k \in Nat /\ f[k] \subseteq Refs /\ k + 1 \in 0..n /\ k + 1 # 0 /\ (k + 1) - 1 = k
    BY <1>1
  <2>2. f[k + 1] = f[k] \cup UNION {Neighbours(t, s) : s \in f[k]}
    BY <1>2, <2>1 DEF IsReach
  <2> QED BY <2>1, <2>2, NeighboursAreRefs
<1>5. N \in SUBSET Nat
  OBVIOUS
<1>6. N = Nat
  <2> HIDE DEF N
  <2> QED BY <1>3, <1>4, <1>5, Induction
<1> QED BY <1>1, <1>2, <1>6

(* A negotiated speed is a number.                                         *)
LEMMA NegotiatedIsNumber ==
  ASSUME NEW t, Wired(t), NEW c, c.from \in Refs
  PROVE  Negotiated(t, c) \in Nat
<1> DEFINE speeds == {Speed[r.port] : r \in {s \in Segment(t, c.from) : Advertises(t, s)}}
<1>1. speeds \in SUBSET Nat
  <2>1. \A s \in Segment(t, c.from) : s.port \in Ports
    BY SegmentIsRefs DEF Refs
  <2> QED BY <2>1, InventoryAssumption
<1> HIDE DEF speeds
<1>2. speeds # {} => Min(speeds) \in Nat
  <2> SUFFICES ASSUME speeds # {} PROVE Min(speeds) \in speeds
    BY <1>1
  <2>1. \E m \in speeds : \A k \in speeds : m =< k
    BY <1>1, LeastNumber
  <2> QED BY <2>1, Zenon DEF Min
<1> QED BY <1>2 DEF Negotiated, speeds

-----------------------------------------------------------------------------
(* Cables and rows *)

Engines ==
  [rev : Nat, next : Nat \ {0}, name : Labels \cup {0}, conns : SUBSET Cable,
   assigned : SUBSET Assignments, placed : SUBSET Items]
Rows ==
  [rev : Nat, seq : Nat, name : Labels \cup {0}, conns : SUBSET Cable,
   assigned : SUBSET Assignments, places : [Items -> Positions \cup {0}]]

(* Two copies of a cable, field by field; a side the engine names is the   *)
(* stored one.                                                             *)
Copies(c, r) ==
  /\ c.id = r.id /\ c.type = r.type /\ c.speed = r.speed /\ c.label = r.label
  /\ c.from = r.from /\ c.to = r.to
  /\ c.route.bends = r.route.bends /\ c.route.avoid = r.route.avoid
  /\ c.route.src \in {"none", "null", r.route.src}
  /\ c.route.tgt \in {"none", "null", r.route.tgt}

Matches(conns, rows) ==
  /\ UniqueIds(conns) /\ UniqueIds(rows)
  /\ \A c \in conns : \E r \in rows : r.id = c.id
  /\ \A r \in rows : \E c \in conns : c.id = r.id
  /\ \A c \in conns, r \in rows : c.id = r.id => Copies(c, r)

(* A cable added to both sides.                                            *)
LEMMA MatchesAdded ==
  ASSUME NEW conns, NEW rows, Matches(conns, rows), NEW c, NEW r, Copies(c, r),
         \A d \in conns : d.id # c.id
  PROVE  Matches(conns \cup {c}, rows \cup {r})
<1>1. \A d \in rows : d.id # r.id
  BY DEF Matches, Copies
<1> QED BY <1>1 DEF Matches, Copies, UniqueIds

(* A cable removed from both sides.                                        *)
LEMMA MatchesRemoved ==
  ASSUME NEW conns, NEW rows, Matches(conns, rows), NEW c \in conns, NEW r \in rows, c.id = r.id
  PROVE  Matches(conns \ {c}, rows \ {r})
  BY DEF Matches, UniqueIds

(* Cables changed on both sides, under the same id.                        *)
LEMMA MatchesMapped ==
  ASSUME NEW conns, NEW rows, Matches(conns, rows), NEW f, NEW g,
         \A c \in conns : f[c].id = c.id, \A r \in rows : g[r].id = r.id,
         \A c \in conns, r \in rows : c.id = r.id => Copies(f[c], g[r])
  PROVE  Matches({f[c] : c \in conns}, {g[r] : r \in rows})
  BY DEF Matches, UniqueIds

(* A project read from its rows matches them.                              *)
LEMMA MatchesItself ==
  ASSUME NEW rows \in SUBSET Cable, UniqueIds(rows)
  PROVE  Matches(rows, rows)
<1>1. \A r \in rows : Copies(r, r)
  BY DEF Copies
<1> QED BY <1>1 DEF Matches, UniqueIds

(* A connection is of one of four types.                                   *)
LEMMA ClassifyIsType ==
  ASSUME NEW t, NEW c
  PROVE  Classify(t, c) \in {"network", "display", "power", "other"}
  BY DEF Classify

(* A derived state recomputed is that of a cable, the rest of which stays. *)
LEMMA Normalized ==
  ASSUME NEW t \in Engines
  PROVE  /\ NormalizeDerived(t) \in Engines
         /\ NormalizeDerived(t) = [t EXCEPT !.conns = NormalizeDerived(t).conns]
         /\ \E f : /\ NormalizeDerived(t).conns = {f[c] : c \in t.conns}
                   /\ \A c \in t.conns :
                        /\ f[c] \in Cable /\ f[c].id = c.id /\ f[c].label = c.label
                        /\ f[c].from = c.from /\ f[c].to = c.to /\ f[c].route = c.route
<1>1. t.conns \in SUBSET Cable
  BY DEF Engines
<1>2. Wired(t)
  BY <1>1 DEF Wired, Cable
<1>3. \A c \in t.conns : Classify(t, c) \in {"network", "display", "power", "other"}
                         /\ Negotiated(t, c) \in Nat
  BY <1>2, ClassifyIsType, NegotiatedIsNumber DEF Wired
<1>4. ASSUME NEW c \in t.conns, NEW d, d = [c EXCEPT !.type = Classify(t, c), !.speed = Negotiated(t, c)]
      PROVE  /\ d \in Cable /\ d.id = c.id /\ d.label = c.label
             /\ d.from = c.from /\ d.to = c.to /\ d.route = c.route
  <2> PICK ty \in {"network", "display", "power", "other"}, sp \in Nat :
           ty = Classify(t, c) /\ sp = Negotiated(t, c)
    BY <1>3
  <2>1. d = [c EXCEPT !.type = ty, !.speed = sp]
    BY <1>4
  <2>2. c \in Cable
    BY <1>1
  <2> QED BY <2>1, <2>2 DEF Cable
<1> DEFINE F(c) == [c EXCEPT !.type = Classify(t, c), !.speed = Negotiated(t, c)]
           f == [c \in t.conns |-> F(c)]
           cs == {f[c] : c \in t.conns}
<1>5. \A c \in t.conns : f[c] = F(c)
  OBVIOUS
<1>6. NormalizeDerived(t) = [t EXCEPT !.conns = cs]
  <2>1. cs = {F(c) : c \in t.conns}
    BY <1>5, Zenon
  <2> HIDE DEF cs
  <2> QED BY <2>1 DEF NormalizeDerived
<1>7. \A c \in t.conns :
        /\ f[c] \in Cable /\ f[c].id = c.id /\ f[c].label = c.label
        /\ f[c].from = c.from /\ f[c].to = c.to /\ f[c].route = c.route
  BY <1>4, <1>5
<1> HIDE DEF f, F
<1>8. cs \in SUBSET Cable
  BY <1>7
<1>9. NormalizeDerived(t) \in Engines /\ NormalizeDerived(t).conns = cs
  BY <1>6, <1>8 DEF Engines
<1>10. \E h : /\ NormalizeDerived(t).conns = {h[c] : c \in t.conns}
               /\ \A c \in t.conns :
                    /\ h[c] \in Cable /\ h[c].id = c.id /\ h[c].label = c.label
                    /\ h[c].from = c.from /\ h[c].to = c.to /\ h[c].route = c.route
  BY <1>7, <1>9
<1> QED BY <1>6, <1>9, <1>10

(* Rows whose type and speed may have changed.                             *)
Rederived(rows, new) ==
  /\ new \in SUBSET Cable
  /\ \E h : /\ new = {h[r] : r \in rows}
            /\ \A r \in rows : /\ h[r].id = r.id /\ h[r].from = r.from /\ h[r].to = r.to
                               /\ h[r].route = r.route

(* The values of g on a set.                                               *)
Mapped(g, S) == {g[c] : c \in S}

(* g[c] is the connection c with another type and speed; a connection that *)
(* was not there before has them already.                                  *)
Derives(g, conns, before) ==
  /\ \A c \in conns : /\ g[c] \in Cable /\ g[c].id = c.id /\ g[c].label = c.label
                      /\ g[c].from = c.from /\ g[c].to = c.to /\ g[c].route = c.route
  /\ \A c \in conns : c \in before.conns \/ (g[c] = c /\ \A b \in before.conns : b.id # c.id)

(* The states that a derived patch sets are those the engine has after the *)
(* command, for every cable whose state it changes.                        *)
LEMMA DerivedMatches ==
  ASSUME NEW before, UniqueIds(before.conns),
         NEW conns, NEW rows \in SUBSET Cable, Matches(conns, rows),
         NEW g, Derives(g, conns, before), NEW after, after.conns = Mapped(g, conns)
  PROVE  \E new : /\ Matches(after.conns, new) /\ Rederived(rows, new)
                  /\ \/ DerivedPatch(before, after) = <<>> /\ new = rows
                     \/ \E p : /\ DerivedPatch(before, after) = <<p>>
                               /\ p.kind = "derived" /\ new = PatchDerived(rows, p)
<1>0. /\ \A c \in conns : /\ g[c] \in Cable /\ g[c].id = c.id /\ g[c].label = c.label
                         /\ g[c].from = c.from /\ g[c].to = c.to /\ g[c].route = c.route
      /\ \A c \in conns : c \in before.conns \/ (g[c] = c /\ \A b \in before.conns : b.id # c.id)
      /\ after.conns = {g[c] : c \in conns}
  BY DEF Derives, Mapped
<1> USE <1>0
<1> DEFINE changed == {x \in after.conns :
                         \E d \in before.conns : /\ d.id = x.id
                                                 /\ <<d.type, d.speed>> # <<x.type, x.speed>>}
<1>1. \A c \in conns : g[c] \in changed <=>
        c \in before.conns /\ <<c.type, c.speed>> # <<g[c].type, g[c].speed>>
  <2> TAKE c \in conns
  <2>1. g[c] \in after.conns /\ g[c].id = c.id
    OBVIOUS
  <2>2. ASSUME NEW d \in before.conns, d.id = g[c].id, <<d.type, d.speed>> # <<g[c].type, g[c].speed>>
        PROVE  c \in before.conns /\ <<c.type, c.speed>> # <<g[c].type, g[c].speed>>
    <3>1. c \in before.conns
      BY <2>1, <2>2
    <3>2. c = d
      BY <2>1, <2>2, <3>1 DEF UniqueIds
    <3> QED BY <2>2, <3>1, <3>2
  <2> QED BY <2>1, <2>2
<1>2. \A x \in changed, c \in conns : x.id = c.id => x = g[c]
  BY DEF Matches, UniqueIds
<1>3. \A r \in rows : \E c \in conns : c.id = r.id /\ Copies(c, r)
  BY DEF Matches
<1>4. CASE changed = {}
  <2>1. DerivedPatch(before, after) = <<>>
    BY <1>4 DEF DerivedPatch
  <2>2. \A c \in conns : c.type = g[c].type /\ c.speed = g[c].speed
    BY <1>1, <1>4
  <2> PICK id : id = [r \in rows |-> r]  OBVIOUS
  <2>3. \A r \in rows : id[r] = r
    OBVIOUS
  <2>4. rows = {id[r] : r \in rows}
    BY <2>3
  <2>5. \A c \in conns, r \in rows : c.id = r.id => Copies(g[c], r)
    BY <2>2 DEF Matches, Copies
  <2> HIDE DEF changed
  <2>6. Matches({g[c] : c \in conns}, {id[r] : r \in rows})
    BY <2>3, <2>5, MatchesMapped
  <2>7. Rederived(rows, rows)
    BY <2>3, <2>4 DEF Rederived
  <2> QED BY <2>1, <2>4, <2>6, <2>7
<1>5. CASE changed # {}
  <2> DEFINE St(x) == [id |-> x.id, type |-> x.type, speed |-> x.speed]
             states == {St(x) : x \in changed}
             p == [kind |-> "derived", states |-> states]
  <2>1. DerivedPatch(before, after) = <<p>>
    BY <1>5 DEF DerivedPatch
  <2> DEFINE H(r) == IF \E st \in p.states : st.id = r.id
                       THEN LET st == CHOOSE x \in p.states : x.id = r.id
                            IN [r EXCEPT !.type = st.type, !.speed = st.speed]
                       ELSE r
             h == [r \in rows |-> H(r)]
  <2>2. p.states = states /\ p.kind = "derived"
    OBVIOUS
  <2>3. PatchDerived(rows, p) = {H(r) : r \in rows}
    BY DEF PatchDerived
  <2>4. \A r \in rows : h[r] = H(r)
    OBVIOUS
  <2>5. ASSUME NEW c \in conns, NEW r \in rows, c.id = r.id
        PROVE  Copies(g[c], H(r)) /\ H(r) \in Cable /\ H(r).route = r.route
    <3>0. Copies(c, r) /\ r \in Cable /\ g[c] \in Cable
      BY <2>5 DEF Matches
    <3>1. CASE g[c] \in changed
      <4>1. St(g[c]) \in states /\ St(g[c]).id = r.id
        BY <2>5, <3>1
      <4>2. \A st \in states : st.id = r.id => st = St(g[c])
        BY <1>2, <2>5
      <4> DEFINE st == CHOOSE x \in p.states : x.id = r.id
      <4>3. st = St(g[c]) /\ \E x \in p.states : x.id = r.id
        <5> HIDE DEF p, St, states, changed
        <5> QED BY <2>2, <4>1, <4>2
      <4>4. H(r) = [r EXCEPT !.type = g[c].type, !.speed = g[c].speed]
        <5>1. St(g[c]).type = g[c].type /\ St(g[c]).speed = g[c].speed
          OBVIOUS
        <5>2. H(r) = [r EXCEPT !.type = st.type, !.speed = st.speed]
          <6> HIDE DEF p
          <6> QED BY <4>3, Zenon
        <5> HIDE DEF St, st, H
        <5> QED BY <4>3, <5>1, <5>2
      <4> HIDE DEF H
      <4>5. /\ H(r) \in Cable /\ H(r).type = g[c].type /\ H(r).speed = g[c].speed
            /\ H(r).id = r.id /\ H(r).label = r.label /\ H(r).from = r.from /\ H(r).to = r.to
            /\ H(r).route = r.route
        BY <3>0, <4>4 DEF Cable
      <4> QED BY <3>0, <4>5 DEF Copies
    <3>2. CASE g[c] \notin changed
      <4>1. \A st \in states : st.id # r.id
        BY <1>2, <2>5, <3>2
      <4>2. H(r) = r
        <5> HIDE DEF states
        <5> QED BY <4>1
      <4>3. c.type = g[c].type /\ c.speed = g[c].speed
        BY <1>1, <3>2
      <4> HIDE DEF H
      <4> QED BY <3>0, <4>2, <4>3 DEF Copies
    <3> QED BY <3>1, <3>2
  <2> HIDE DEF H
  <2>6. \A c \in conns, r \in rows : c.id = r.id => Copies(g[c], h[r])
    BY <2>4, <2>5
  <2>7. \A r \in rows : /\ h[r] \in Cable /\ h[r].id = r.id /\ h[r].from = r.from /\ h[r].to = r.to
                        /\ h[r].route = r.route
    BY <1>3, <2>4, <2>5 DEF Copies
  <2>8. PatchDerived(rows, p) = {h[r] : r \in rows}
    BY <2>3, <2>4
  <2> HIDE DEF h, p
  <2>9. Matches({g[c] : c \in conns}, {h[r] : r \in rows})
    BY <2>6, <2>7, MatchesMapped
  <2>10. Rederived(rows, PatchDerived(rows, p))
    BY <2>7, <2>8 DEF Rederived
  <2> QED BY <2>1, <2>2, <2>8, <2>9, <2>10
<1> QED BY <1>4, <1>5

-----------------------------------------------------------------------------
(* The parts of a patch in the store *)

(* No port has two cables: what the unique indexes keep.                   *)
Apart(rows) ==
  \A c \in rows : \A d \in rows \ {c} : {c.from.port, c.to.port} \cap {d.from.port, d.to.port} = {}

SidesStored(rows) == \A c \in rows : c.route.src \in Sides /\ c.route.tgt \in Sides

RowsOK(d) ==
  /\ d \in Rows
  /\ UniqueIds(d.conns)
  /\ \A c \in d.conns : c.id <= d.seq
  /\ Apart(d.conns)
  /\ SidesStored(d.conns)

(* The rows d and e differ in connections only.                            *)
SameButConns(d, y) ==
  /\ y \in Rows
  /\ y.name = d.name /\ y.assigned = d.assigned /\ y.places = d.places

(* insertConnection adds a copy of the connection with both sides, under a *)
(* new id and at free ports.                                               *)
LEMMA StoreAdd ==
  ASSUME NEW d, RowsOK(d), NEW c \in Cable, NEW p, p.kind = "add", p.conn = c,
         NEW y \in StorePatch(d, p)
  PROVE  /\ RowsOK(y) /\ SameButConns(d, y) /\ y.seq >= d.seq
         /\ (c.id = d.seq + 1 => y.seq = c.id)
         /\ \A r \in d.conns : r.id # c.id
         /\ \E row \in Cable : y.conns = d.conns \cup {row} /\ Copies(c, row)
<1>1. y \in InsertConnection(d, c)
  BY DEF StorePatch
<1> DEFINE side(s, default) == IF s \in Sides THEN s ELSE default
           src == side(c.route.src, "right")
           tgt == side(c.route.tgt, "left")
           row == [c EXCEPT !.route.src = src, !.route.tgt = tgt]
           seq == IF c.id > d.seq THEN c.id ELSE d.seq
<1>2. /\ c.id \notin taken \cup Ids(d)
      /\ \A other \in d.conns : {other.from.port, other.to.port} \cap {c.from.port, c.to.port} = {}
      /\ y = [d EXCEPT !.conns = d.conns \cup {row}, !.seq = seq]
  BY <1>1 DEF InsertConnection
<1>3. src \in Sides /\ tgt \in Sides
  BY DEF Sides
<1> HIDE DEF side, src, tgt
<1>4. c.route \in RouteValues
  BY DEF Cable
<1>5. row = [c EXCEPT !.route = [c.route EXCEPT !.src = src, !.tgt = tgt]]
  BY DEF Cable, RouteValues
<1> DEFINE w == [c.route EXCEPT !.src = src, !.tgt = tgt]
<1>6. w \in RouteValues /\ w.src = src /\ w.tgt = tgt /\ w.bends = c.route.bends /\ w.avoid = c.route.avoid
  BY <1>3, <1>4 DEF RouteValues
<1> HIDE DEF w, row
<1>7. /\ row \in Cable /\ row.route = w
      /\ row.id = c.id /\ row.type = c.type /\ row.speed = c.speed /\ row.from = c.from
      /\ row.to = c.to /\ row.label = c.label
  BY <1>5, <1>6 DEF Cable, w
<1>8. Copies(c, row)
  <2>1. c.route.src \in {"none", "null", src} /\ c.route.tgt \in {"none", "null", tgt}
    BY <1>4 DEF RouteValues, src, tgt, side
  <2> QED BY <1>6, <1>7, <2>1 DEF Copies
<1>9. d \in Rows /\ c.id \in Nat /\ d.seq \in Nat
  BY DEF RowsOK, Rows, Cable
<1>10. seq \in Nat /\ seq >= d.seq /\ seq >= c.id /\ (c.id = d.seq + 1 => seq = c.id)
  BY <1>9
<1> HIDE DEF seq
<1>11. /\ y \in Rows /\ y.conns = d.conns \cup {row} /\ y.seq = seq
       /\ y.name = d.name /\ y.assigned = d.assigned /\ y.places = d.places
  BY <1>2, <1>7, <1>9, <1>10 DEF Rows
<1>12. \A r \in d.conns : r.id # c.id
  BY <1>2 DEF Ids
<1>13. UniqueIds(y.conns)
  BY <1>7, <1>11, <1>12 DEF UniqueIds, RowsOK
<1>14. \A r \in y.conns : r.id <= y.seq
  <2>1. \A r \in d.conns : r.id \in Nat /\ r.id <= d.seq
    BY <1>9 DEF RowsOK, Rows, Cable
  <2>2. \A r \in d.conns : r.id <= seq
    BY <1>9, <1>10, <2>1
  <2> QED BY <1>7, <1>10, <1>11, <2>2
<1>15. Apart(y.conns)
  <2>1. Apart(d.conns)
    BY DEF RowsOK
  <2> QED BY <1>2, <1>7, <1>11, <2>1 DEF Apart
<1>16. SidesStored(y.conns)
  BY <1>3, <1>6, <1>7, <1>11 DEF SidesStored, RowsOK
<1> QED BY <1>7, <1>8, <1>10, <1>11, <1>12, <1>13, <1>14, <1>15, <1>16 DEF RowsOK, SameButConns

(* A removal takes the row of the connection away.                         *)
LEMMA StoreRemove ==
  ASSUME NEW d, RowsOK(d), NEW p, p.kind = "remove", NEW y \in StorePatch(d, p)
  PROVE  /\ RowsOK(y) /\ SameButConns(d, y) /\ y.seq = d.seq
         /\ \E r \in d.conns : r.id = p.conn.id /\ y.conns = d.conns \ {r}
<1>1. PICK r \in d.conns : r.id = p.conn.id /\ y = [d EXCEPT !.conns = d.conns \ {r}]
  BY DEF StorePatch
<1>2. d \in Rows
  BY DEF RowsOK
<1>3. /\ y \in Rows /\ y.conns = d.conns \ {r} /\ y.seq = d.seq
      /\ y.name = d.name /\ y.assigned = d.assigned /\ y.places = d.places
  BY <1>1, <1>2 DEF Rows
<1>4. RowsOK(y)
  BY <1>3 DEF RowsOK, UniqueIds, Apart, SidesStored
<1> QED BY <1>1, <1>3, <1>4 DEF SameButConns

(* Rows changed under their id, at the same ports.                         *)
LEMMA RowsMapped ==
  ASSUME NEW d, RowsOK(d), NEW h,
         \A r \in d.conns : /\ h[r] \in Cable /\ h[r].id = r.id /\ h[r].from = r.from
                            /\ h[r].to = r.to /\ h[r].route.src \in Sides /\ h[r].route.tgt \in Sides,
         NEW y, y = [d EXCEPT !.conns = {h[r] : r \in d.conns}]
  PROVE  /\ RowsOK(y) /\ SameButConns(d, y) /\ y.seq = d.seq
         /\ y.conns = {h[r] : r \in d.conns}
<1>1. d \in Rows
  BY DEF RowsOK
<1> DEFINE cs == {h[r] : r \in d.conns}
<1>2. cs \in SUBSET Cable
  OBVIOUS
<1> HIDE DEF cs
<1>3. /\ y \in Rows /\ y.conns = cs /\ y.seq = d.seq
      /\ y.name = d.name /\ y.assigned = d.assigned /\ y.places = d.places
  BY <1>1, <1>2 DEF Rows, cs
<1>4. UniqueIds(cs)
  BY DEF cs, UniqueIds, RowsOK
<1>5. \A c \in cs : c.id <= d.seq
  BY DEF cs, RowsOK
<1>6. Apart(cs)
  <2> SUFFICES ASSUME NEW r \in d.conns, NEW s \in d.conns, h[r] # h[s]
               PROVE  {h[r].from.port, h[r].to.port} \cap {h[s].from.port, h[s].to.port} = {}
    BY DEF Apart, cs
  <2>1. r # s
    OBVIOUS
  <2> QED BY <2>1 DEF RowsOK, Apart
<1>7. SidesStored(cs)
  BY DEF cs, SidesStored
<1> QED BY <1>3, <1>4, <1>5, <1>6, <1>7 DEF RowsOK, SameButConns, cs

(* A derived patch sets types and speeds.                                  *)
LEMMA StoreDerived ==
  ASSUME NEW d, RowsOK(d), NEW p, p.kind = "derived", Rederived(d.conns, PatchDerived(d.conns, p)),
         NEW y \in StorePatch(d, p)
  PROVE  RowsOK(y) /\ SameButConns(d, y) /\ y.seq = d.seq /\ y.conns = PatchDerived(d.conns, p)
<1>1. y = [d EXCEPT !.conns = PatchDerived(d.conns, p)]
  BY DEF StorePatch
<1>2. PICK h : /\ PatchDerived(d.conns, p) = {h[r] : r \in d.conns}
               /\ \A r \in d.conns : /\ h[r].id = r.id /\ h[r].from = r.from /\ h[r].to = r.to
                                     /\ h[r].route = r.route
  BY DEF Rederived
<1>3. \A r \in d.conns : h[r] \in Cable
  BY <1>2 DEF Rederived
<1>4. \A r \in d.conns : h[r].route.src \in Sides /\ h[r].route.tgt \in Sides
  BY <1>2 DEF RowsOK, SidesStored
<1>5. y = [d EXCEPT !.conns = {h[r] : r \in d.conns}]
  BY <1>1, <1>2
<1> QED BY <1>2, <1>3, <1>4, <1>5, RowsMapped

(* g[c] is the connection c after the patch p of a label.                    *)
Labelled(g, conns, p) ==
  \A c \in conns : g[c] = IF c.id = p.id THEN [c EXCEPT !.label = p.label] ELSE c

(* The row of a connection gets the label of the patch.                    *)
LEMMA StoreLabel ==
  ASSUME NEW d, RowsOK(d), NEW p, p.kind = "label", p.label \in Labels \cup {0},
         NEW conns \in SUBSET Cable, Matches(conns, d.conns), NEW g,
         Labelled(g, conns, p),
         NEW y \in StorePatch(d, p)
  PROVE  /\ RowsOK(y) /\ SameButConns(d, y) /\ y.seq = d.seq
         /\ Matches(Mapped(g, conns), y.conns)
<1>1. Has(d, p.id) /\ y = PatchRow(d, p)
  BY DEF StorePatch
<1>2. PICK o \in d.conns : o = Only(d, p.id) /\ o.id = p.id
  BY <1>1, Zenon DEF Has, Only
<1>3. y = WithConnection(d, p.id, [o EXCEPT !.label = p.label])
  BY <1>1, <1>2 DEF PatchRow
<1> DEFINE h == [r \in d.conns |-> IF r.id = p.id THEN [r EXCEPT !.label = p.label] ELSE r]
<1>4. \A r \in d.conns : r.id = p.id => r = o
  BY <1>2 DEF RowsOK, UniqueIds
<1>5. {IF r.id = p.id THEN [o EXCEPT !.label = p.label] ELSE r : r \in d.conns} = {h[r] : r \in d.conns}
  <2> DEFINE k(r) == IF r.id = p.id THEN [o EXCEPT !.label = p.label] ELSE r
  <2>1. \A r \in d.conns : h[r] = k(r)
    BY <1>4
  <2>2. {k(r) : r \in d.conns} = {h[r] : r \in d.conns}
    <3> HIDE DEF h, k
    <3> QED BY <2>1
  <2> QED BY <2>2
<1>6. y = [d EXCEPT !.conns = {h[r] : r \in d.conns}]
  <2> HIDE DEF h
  <2> QED BY <1>3, <1>5 DEF WithConnection
<1>7. d.conns \in SUBSET Cable
  BY DEF RowsOK, Rows
<1>8. ASSUME NEW r \in d.conns
      PROVE  /\ h[r] \in Cable /\ h[r].id = r.id /\ h[r].from = r.from /\ h[r].to = r.to
             /\ h[r].type = r.type /\ h[r].speed = r.speed /\ h[r].route = r.route
             /\ h[r].label = IF r.id = p.id THEN p.label ELSE r.label
  BY <1>7 DEF Cable
<1>9. ASSUME NEW c \in conns
      PROVE  /\ g[c] \in Cable /\ g[c].id = c.id /\ g[c].from = c.from /\ g[c].to = c.to
             /\ g[c].type = c.type /\ g[c].speed = c.speed /\ g[c].route = c.route
             /\ g[c].label = IF c.id = p.id THEN p.label ELSE c.label
  <2>1. c \in Cable
    OBVIOUS
  <2>2. CASE c.id = p.id
    <3>1. g[c] = [c EXCEPT !.label = p.label]
      BY <2>2 DEF Labelled
    <3> QED BY <2>1, <2>2, <3>1 DEF Cable
  <2>3. CASE c.id # p.id
    BY <2>1, <2>3 DEF Labelled
  <2> QED BY <2>2, <2>3
<1> HIDE DEF h
<1>10. \A r \in d.conns : h[r].route.src \in Sides /\ h[r].route.tgt \in Sides
  BY <1>8 DEF RowsOK, SidesStored
<1>11. /\ RowsOK(y) /\ SameButConns(d, y) /\ y.seq = d.seq
       /\ y.conns = {h[r] : r \in d.conns}
  BY <1>6, <1>8, <1>10, RowsMapped
<1>12. \A c \in conns, r \in d.conns : c.id = r.id => Copies(g[c], h[r])
  <2> SUFFICES ASSUME NEW c \in conns, NEW r \in d.conns, c.id = r.id PROVE Copies(g[c], h[r])
    OBVIOUS
  <2>1. Copies(c, r)
    BY DEF Matches
  <2> QED BY <1>8, <1>9, <2>1 DEF Copies
<1>13. Matches({g[c] : c \in conns}, {h[r] : r \in d.conns})
  <2>1. (\A c \in conns : g[c].id = c.id) /\ \A r \in d.conns : h[r].id = r.id
    BY <1>8, <1>9
  <2> QED BY <1>12, <2>1, MatchesMapped
<1> QED BY <1>11, <1>13 DEF Mapped

(* g[c] is the connection c after the patch p of a route.                    *)
Routed(g, conns, p) ==
  \A c \in conns : g[c] = IF c.id = p.id THEN [c EXCEPT !.route = p.route] ELSE c

(* The row of a connection gets the route of the patch, and keeps a side   *)
(* that the route does not name.                                           *)
LEMMA StoreRoute ==
  ASSUME NEW d, RowsOK(d), NEW p, p.kind = "route", p.route \in RouteValues,
         NEW conns \in SUBSET Cable, Matches(conns, d.conns), NEW g,
         Routed(g, conns, p),
         NEW y \in StorePatch(d, p)
  PROVE  /\ RowsOK(y) /\ SameButConns(d, y) /\ y.seq = d.seq
         /\ Matches(Mapped(g, conns), y.conns)
<1>1. Has(d, p.id) /\ y = PatchRow(d, p)
  BY DEF StorePatch
<1>2. PICK o \in d.conns : o = Only(d, p.id) /\ o.id = p.id
  BY <1>1, Zenon DEF Has, Only
<1> DEFINE kept(new, old) == IF new \in Sides THEN new ELSE old
           route == [p.route EXCEPT !.src = kept(p.route.src, o.route.src),
                                    !.tgt = kept(p.route.tgt, o.route.tgt)]
<1>3. y = WithConnection(d, p.id, [o EXCEPT !.route = route])
  BY <1>1, <1>2 DEF PatchRow, RouteValues
<1>4. o.route.src \in Sides /\ o.route.tgt \in Sides /\ o \in Cable
  BY DEF RowsOK, SidesStored, Rows
<1>5. /\ route \in RouteValues /\ route.src \in Sides /\ route.tgt \in Sides
      /\ p.route.src \in {"none", "null", route.src} /\ p.route.tgt \in {"none", "null", route.tgt}
      /\ route.bends = p.route.bends /\ route.avoid = p.route.avoid
  BY <1>4 DEF RouteValues
<1> HIDE DEF route, kept
<1> DEFINE h == [r \in d.conns |-> IF r.id = p.id THEN [r EXCEPT !.route = route] ELSE r]
<1>6. \A r \in d.conns : r.id = p.id => r = o
  BY <1>2 DEF RowsOK, UniqueIds
<1>7. {IF r.id = p.id THEN [o EXCEPT !.route = route] ELSE r : r \in d.conns} = {h[r] : r \in d.conns}
  <2> DEFINE k(r) == IF r.id = p.id THEN [o EXCEPT !.route = route] ELSE r
  <2>1. \A r \in d.conns : h[r] = k(r)
    BY <1>6
  <2>2. {k(r) : r \in d.conns} = {h[r] : r \in d.conns}
    <3> HIDE DEF h, k
    <3> QED BY <2>1
  <2> QED BY <2>2
<1>8. y = [d EXCEPT !.conns = {h[r] : r \in d.conns}]
  <2> HIDE DEF h
  <2> QED BY <1>3, <1>7 DEF WithConnection
<1>9. d.conns \in SUBSET Cable
  BY DEF RowsOK, Rows
<1>10. ASSUME NEW r \in d.conns
       PROVE  /\ h[r] \in Cable /\ h[r].id = r.id /\ h[r].from = r.from /\ h[r].to = r.to
              /\ h[r].type = r.type /\ h[r].speed = r.speed /\ h[r].label = r.label
              /\ h[r].route = IF r.id = p.id THEN route ELSE r.route
  BY <1>5, <1>9 DEF Cable
<1>11. ASSUME NEW c \in conns
       PROVE  /\ g[c] \in Cable /\ g[c].id = c.id /\ g[c].from = c.from /\ g[c].to = c.to
              /\ g[c].type = c.type /\ g[c].speed = c.speed /\ g[c].label = c.label
              /\ g[c].route = IF c.id = p.id THEN p.route ELSE c.route
  <2>1. c \in Cable
    OBVIOUS
  <2>2. CASE c.id = p.id
    <3>1. g[c] = [c EXCEPT !.route = p.route]
      BY <2>2 DEF Routed
    <3> QED BY <2>1, <2>2, <3>1 DEF Cable
  <2>3. CASE c.id # p.id
    BY <2>1, <2>3 DEF Routed
  <2> QED BY <2>2, <2>3
<1> HIDE DEF h
<1>12. \A r \in d.conns : h[r].route.src \in Sides /\ h[r].route.tgt \in Sides
  BY <1>5, <1>10 DEF RowsOK, SidesStored
<1>13. /\ RowsOK(y) /\ SameButConns(d, y) /\ y.seq = d.seq
       /\ y.conns = {h[r] : r \in d.conns}
  BY <1>8, <1>10, <1>12, RowsMapped
<1>14. \A c \in conns, r \in d.conns : c.id = r.id => Copies(g[c], h[r])
  <2> SUFFICES ASSUME NEW c \in conns, NEW r \in d.conns, c.id = r.id PROVE Copies(g[c], h[r])
    OBVIOUS
  <2>1. Copies(c, r)
    BY DEF Matches
  <2>2. CASE c.id = p.id
    <3>1. g[c].route = p.route /\ h[r].route = route
      BY <1>10, <1>11, <2>2
    <3> QED BY <1>5, <1>10, <1>11, <2>1, <3>1 DEF Copies
  <2>3. CASE c.id # p.id
    <3>1. g[c].route = c.route /\ h[r].route = r.route
      BY <1>10, <1>11, <2>3
    <3> QED BY <1>10, <1>11, <2>1, <3>1 DEF Copies
  <2> QED BY <2>2, <2>3
<1>15. Matches({g[c] : c \in conns}, {h[r] : r \in d.conns})
  BY <1>10, <1>11, <1>14, MatchesMapped
<1> QED BY <1>13, <1>15 DEF Mapped

-----------------------------------------------------------------------------
(* The engine and the rows of the project *)

(* What ValidateConnection asks of the ends of a cable for good.           *)
EndsOK(c) ==
  /\ PortType[c.from.port] # "barrel" /\ PortType[c.to.port] # "barrel"
  /\ c.from.item # c.to.item
  /\ \/ Power(c.from) = "output" /\ Power(c.to) = "input"
     \/ Power(c.from) = "none" /\ Power(c.to) = "none" /\ PortsCompatible(c.from, c.to)

(* The engine e and the rows d are one project, revisions apart.           *)
Agree(e, d) ==
  /\ e \in Engines /\ RowsOK(d)
  /\ Matches(e.conns, d.conns)
  /\ e.name = d.name /\ e.assigned = d.assigned /\ e.placed = Placed(d.places)
  /\ \A c \in e.conns : c.id < e.next
  /\ \A c \in e.conns : EndsOK(c)
  /\ Builds(e)

(* No other project has taken an id: the next one the engine would give is *)
(* the next of the sequence.                                               *)
InStep(e, d) == e.next = d.seq + 1

(* A command of e, stored in the rows d, keeps them one project: x are the *)
(* rows then.  A connection that was not there has an id from next on.     *)
Stores(e, d, reply, x) ==
  /\ Agree(reply.engine, x)
  /\ reply.engine.rev = e.rev + 1
  /\ reply.engine.next >= e.next
  /\ x.seq >= d.seq
  /\ InStep(e, d) => InStep(reply.engine, x)
  /\ \A r \in x.conns : r.id \in Ids(d) \/ r.id >= e.next

(* commit_topology advances the revision of an index that builds.          *)
LEMMA Committed ==
  ASSUME NEW e, NEW d, Agree(e, d),
         NEW t \in Engines, NEW fw, NEW inv, NEW reply \in CommitTopology(e, t, fw, inv),
         NEW x, RowsOK(x), Matches(t.conns, x.conns),
         t.name = x.name, t.assigned = x.assigned, t.placed = Placed(x.places),
         \A c \in t.conns : c.id < t.next, \A c \in t.conns : EndsOK(c),
         t.next >= e.next, x.seq >= d.seq, InStep(e, d) => InStep(t, x),
         \A c \in t.conns : (\E b \in e.conns : b.id = c.id) \/ c.id >= e.next
  PROVE  Stores(e, d, reply, x)
<1>1. Builds(t) /\ reply.engine = [t EXCEPT !.rev = e.rev + 1]
  BY DEF CommitTopology
<1>2. e.rev \in Nat
  BY DEF Agree, Engines
<1> PICK n \in Nat : n = e.rev + 1
  BY <1>2
<1> PICK u : u = reply.engine  OBVIOUS
<1>3. /\ u \in Engines /\ u.rev = n /\ u.next = t.next /\ u.name = t.name /\ u.conns = t.conns
      /\ u.assigned = t.assigned /\ u.placed = t.placed
  BY <1>1 DEF Engines
<1>4. Builds(u)
  BY <1>1, <1>3 DEF Builds, AssignedTo
<1>5. Agree(u, x)
  BY <1>3, <1>4 DEF Agree
<1>6. \A r \in x.conns : r.id \in Ids(d) \/ r.id >= e.next
  <2> TAKE r \in x.conns
  <2>1. PICK c \in t.conns : c.id = r.id
    BY DEF Matches
  <2>2. (\E b \in e.conns : b.id = c.id) => \E b \in d.conns : b.id = r.id
    BY <2>1 DEF Agree, Matches
  <2> QED BY <2>1, <2>2 DEF Ids
<1>7. InStep(e, d) => InStep(u, x)
  BY <1>3 DEF InStep
<1> QED BY <1>3, <1>5, <1>6, <1>7 DEF Stores

(* Cables that keep their ids and their ends.                              *)
LEMMA SameEnds ==
  ASSUME NEW e, NEW d, Agree(e, d), NEW g,
         \A c \in e.conns : g[c] \in Cable /\ g[c].id = c.id /\ g[c].from = c.from /\ g[c].to = c.to,
         NEW t, t = [e EXCEPT !.conns = Mapped(g, e.conns)]
  PROVE  /\ t \in Engines /\ t.conns = Mapped(g, e.conns)
         /\ t.name = e.name /\ t.assigned = e.assigned /\ t.placed = e.placed /\ t.next = e.next
         /\ \A c \in t.conns : c.id < t.next
         /\ \A c \in t.conns : EndsOK(c)
         /\ t.next >= e.next
         /\ \A c \in t.conns : \E b \in e.conns : b.id = c.id
<1>1. e \in Engines
  BY DEF Agree
<1> DEFINE cs == {g[c] : c \in e.conns}
<1>2. cs \in SUBSET Cable
  OBVIOUS
<1> HIDE DEF cs
<1>3. /\ t \in Engines /\ t.conns = cs
      /\ t.name = e.name /\ t.assigned = e.assigned /\ t.placed = e.placed /\ t.next = e.next
  BY <1>1, <1>2 DEF Engines, cs, Mapped
<1>4. e.next \in Nat
  BY <1>1 DEF Engines
<1>5. \A c \in cs : c.id < e.next
  BY DEF cs, Agree
<1>6. \A c \in cs : EndsOK(c)
  <2> SUFFICES ASSUME NEW b \in e.conns PROVE EndsOK(g[b])
    BY DEF cs
  <2> PICK c : c = g[b]  OBVIOUS
  <2>1. EndsOK(b) /\ c.from = b.from /\ c.to = b.to
    BY DEF Agree
  <2>2. EndsOK(c)
    BY <2>1 DEF EndsOK
  <2> QED BY <2>2
<1>7. \A c \in cs : \E b \in e.conns : b.id = c.id
  BY DEF cs
<1> QED BY <1>3, <1>4, <1>5, <1>6, <1>7 DEF cs, Mapped

(* update_connection_label                                                 *)
LEMMA LabelStores ==
  ASSUME NEW e, NEW d, Agree(e, d), NEW op, op.label \in Labels \cup {0},
         NEW reply \in UpdateConnectionLabel(e, op), NEW x \in Store(d, reply.forward)
  PROVE  Stores(e, d, reply, x)
<1> PICK p : p = [kind |-> "label", id |-> op.id, label |-> op.label]  OBVIOUS
<1>1. PICK c \in e.conns :
         /\ c.id = op.id
         /\ \E inv : reply \in CommitTopology(e, WithConnection(e, op.id, [c EXCEPT !.label = op.label]), <<p>>, inv)
  BY DEF UpdateConnectionLabel
<1> PICK inv : reply \in CommitTopology(e, WithConnection(e, op.id, [c EXCEPT !.label = op.label]), <<p>>, inv)
  BY <1>1
<1> PICK t : t = WithConnection(e, op.id, [c EXCEPT !.label = op.label])  OBVIOUS
<1>2. reply \in CommitTopology(e, t, <<p>>, inv) /\ reply.forward = <<p>>
  BY <1>1 DEF CommitTopology
<1>3. x \in StorePatch(d, p)
  BY <1>2, StoreOne
<1>4. p.kind = "label" /\ p.id = op.id /\ p.label = op.label /\ p.label \in Labels \cup {0}
  OBVIOUS
<1> DEFINE g == [b \in e.conns |-> IF b.id = p.id THEN [b EXCEPT !.label = p.label] ELSE b]
<1>5. \A b \in e.conns : b.id = p.id => b = c
  BY <1>1, <1>4 DEF Agree, Matches, UniqueIds
<1>6. t = [e EXCEPT !.conns = Mapped(g, e.conns)]
  <2> DEFINE k(b) == IF b.id = op.id THEN [c EXCEPT !.label = op.label] ELSE b
  <2>1. \A b \in e.conns : g[b] = k(b)
    BY <1>4, <1>5
  <2>2. {k(b) : b \in e.conns} = {g[b] : b \in e.conns}
    <3> HIDE DEF g, k
    <3> QED BY <2>1
  <2> HIDE DEF g
  <2> QED BY <2>2 DEF WithConnection, Mapped
<1>7. e.conns \in SUBSET Cable
  BY DEF Agree, Engines
<1>8. \A b \in e.conns : g[b] = IF b.id = p.id THEN [b EXCEPT !.label = p.label] ELSE b
  OBVIOUS
<1>9. \A b \in e.conns : g[b] \in Cable /\ g[b].id = b.id /\ g[b].from = b.from /\ g[b].to = b.to
  BY <1>4, <1>7 DEF Cable
<1> HIDE DEF g
<1>10. /\ RowsOK(x) /\ SameButConns(d, x) /\ x.seq = d.seq
       /\ Matches(Mapped(g, e.conns), x.conns)
  <2> PICK cs : cs = e.conns  OBVIOUS
  <2>1. RowsOK(d) /\ Matches(cs, d.conns) /\ cs \in SUBSET Cable
    BY <1>7 DEF Agree
  <2>2. Labelled(g, cs, p)
    BY <1>8 DEF Labelled
  <2>3. /\ RowsOK(x) /\ SameButConns(d, x) /\ x.seq = d.seq
        /\ Matches(Mapped(g, cs), x.conns)
    BY <1>3, <1>4, <2>1, <2>2, StoreLabel
  <2> QED BY <2>3
<1>11. /\ t \in Engines /\ t.conns = Mapped(g, e.conns)
       /\ t.name = e.name /\ t.assigned = e.assigned /\ t.placed = e.placed /\ t.next = e.next
       /\ \A b \in t.conns : b.id < t.next
       /\ \A b \in t.conns : EndsOK(b)
       /\ t.next >= e.next
       /\ \A b \in t.conns : \E a \in e.conns : a.id = b.id
  BY <1>6, <1>9, SameEnds
<1>12. t.name = x.name /\ t.assigned = x.assigned /\ t.placed = Placed(x.places)
  BY <1>10, <1>11 DEF SameButConns, Agree
<1>13. x.seq >= d.seq /\ (InStep(e, d) => InStep(t, x))
  BY <1>10, <1>11 DEF RowsOK, Rows, InStep
<1> QED BY <1>2, <1>10, <1>11, <1>12, <1>13, Committed

(* update_connection_route                                                 *)
LEMMA RouteStores ==
  ASSUME NEW e, NEW d, Agree(e, d), NEW op, op.route \in RouteValues,
         NEW reply \in UpdateConnectionRoute(e, op), NEW x \in Store(d, reply.forward)
  PROVE  Stores(e, d, reply, x)
<1> PICK p : p = RoutePatch(op.id, op.route)  OBVIOUS
<1>1. PICK c \in e.conns :
         /\ c.id = op.id
         /\ \E inv : reply \in CommitTopology(e, WithConnection(e, op.id, [c EXCEPT !.route = op.route]), <<p>>, inv)
  BY DEF UpdateConnectionRoute
<1> PICK inv : reply \in CommitTopology(e, WithConnection(e, op.id, [c EXCEPT !.route = op.route]), <<p>>, inv)
  BY <1>1
<1> PICK t : t = WithConnection(e, op.id, [c EXCEPT !.route = op.route])  OBVIOUS
<1>2. reply \in CommitTopology(e, t, <<p>>, inv) /\ reply.forward = <<p>>
  BY <1>1 DEF CommitTopology
<1>3. x \in StorePatch(d, p)
  BY <1>2, StoreOne
<1>4. p.kind = "route" /\ p.id = op.id /\ p.route = op.route /\ p.route \in RouteValues
  BY DEF RoutePatch
<1> DEFINE g == [b \in e.conns |-> IF b.id = p.id THEN [b EXCEPT !.route = p.route] ELSE b]
<1>5. \A b \in e.conns : b.id = p.id => b = c
  BY <1>1, <1>4 DEF Agree, Matches, UniqueIds
<1>6. t = [e EXCEPT !.conns = Mapped(g, e.conns)]
  <2> DEFINE k(b) == IF b.id = op.id THEN [c EXCEPT !.route = op.route] ELSE b
  <2>1. \A b \in e.conns : g[b] = k(b)
    BY <1>4, <1>5
  <2>2. {k(b) : b \in e.conns} = {g[b] : b \in e.conns}
    <3> HIDE DEF g, k
    <3> QED BY <2>1
  <2> HIDE DEF g
  <2> QED BY <2>2 DEF WithConnection, Mapped
<1>7. e.conns \in SUBSET Cable
  BY DEF Agree, Engines
<1>8. \A b \in e.conns : g[b] = IF b.id = p.id THEN [b EXCEPT !.route = p.route] ELSE b
  OBVIOUS
<1>9. \A b \in e.conns : g[b] \in Cable /\ g[b].id = b.id /\ g[b].from = b.from /\ g[b].to = b.to
  BY <1>4, <1>7 DEF Cable
<1> HIDE DEF g
<1>10. /\ RowsOK(x) /\ SameButConns(d, x) /\ x.seq = d.seq
       /\ Matches(Mapped(g, e.conns), x.conns)
  <2> PICK cs : cs = e.conns  OBVIOUS
  <2>1. RowsOK(d) /\ Matches(cs, d.conns) /\ cs \in SUBSET Cable
    BY <1>7 DEF Agree
  <2>2. Routed(g, cs, p)
    BY <1>8 DEF Routed
  <2>3. /\ RowsOK(x) /\ SameButConns(d, x) /\ x.seq = d.seq
        /\ Matches(Mapped(g, cs), x.conns)
    BY <1>3, <1>4, <2>1, <2>2, StoreRoute
  <2> QED BY <2>3
<1>11. /\ t \in Engines /\ t.conns = Mapped(g, e.conns)
       /\ t.name = e.name /\ t.assigned = e.assigned /\ t.placed = e.placed /\ t.next = e.next
       /\ \A b \in t.conns : b.id < t.next
       /\ \A b \in t.conns : EndsOK(b)
       /\ t.next >= e.next
       /\ \A b \in t.conns : \E a \in e.conns : a.id = b.id
  BY <1>6, <1>9, SameEnds
<1>12. t.name = x.name /\ t.assigned = x.assigned /\ t.placed = Placed(x.places)
  BY <1>10, <1>11 DEF SameButConns, Agree
<1>13. x.seq >= d.seq /\ (InStep(e, d) => InStep(t, x))
  BY <1>10, <1>11 DEF RowsOK, Rows, InStep
<1> QED BY <1>2, <1>10, <1>11, <1>12, <1>13, Committed

(* update_project_metadata                                                 *)
LEMMA NameStores ==
  ASSUME NEW e, NEW d, Agree(e, d), NEW op, op.name \in Labels \cup {0},
         NEW reply \in UpdateProjectMetadata(e, op), NEW x \in Store(d, reply.forward)
  PROVE  Stores(e, d, reply, x)
<1> PICK p : p = [kind |-> "name", name |-> op.name]  OBVIOUS
<1> PICK inv : inv = <<[kind |-> "name", name |-> e.name]>>  OBVIOUS
<1> PICK t : t = [e EXCEPT !.name = op.name]  OBVIOUS
<1>1. reply \in CommitTopology(e, t, <<p>>, inv)
  BY DEF UpdateProjectMetadata
<1>2. reply.forward = <<p>>
  BY <1>1 DEF CommitTopology
<1>3. x \in StorePatch(d, p)
  BY <1>2, StoreOne
<1>4. x = [d EXCEPT !.name = op.name]
  BY <1>3 DEF StorePatch
<1>5. e \in Engines /\ d \in Rows
  BY DEF Agree, RowsOK
<1>6. /\ t \in Engines /\ t.name = op.name /\ t.conns = e.conns /\ t.next = e.next
      /\ t.assigned = e.assigned /\ t.placed = e.placed
  BY <1>5 DEF Engines
<1>7. /\ x \in Rows /\ x.name = op.name /\ x.conns = d.conns /\ x.seq = d.seq
      /\ x.assigned = d.assigned /\ x.places = d.places
  BY <1>4, <1>5 DEF Rows
<1>8. RowsOK(x)
  BY <1>7 DEF RowsOK, Agree
<1>9. /\ Matches(t.conns, x.conns) /\ t.name = x.name /\ t.assigned = x.assigned
      /\ t.placed = Placed(x.places)
      /\ \A c \in t.conns : c.id < t.next
      /\ \A c \in t.conns : EndsOK(c)
      /\ \A c \in t.conns : \E b \in e.conns : b.id = c.id
  BY <1>6, <1>7 DEF Agree
<1>10. t.next >= e.next /\ x.seq >= d.seq /\ (InStep(e, d) => InStep(t, x))
  BY <1>5, <1>6, <1>7 DEF Engines, Rows, InStep
<1> QED BY <1>1, <1>6, <1>8, <1>9, <1>10, Committed

(* update_placements: the engine keeps which items are placed, the rows    *)
(* where they are.                                                         *)
LEMMA PlaceStores ==
  ASSUME NEW e, NEW d, Agree(e, d), NEW op,
         \A ch \in op.changes : ch.item \in Items /\ ch.next \in Positions \cup {0},
         NEW reply \in UpdatePlacements(e, op), NEW x \in Store(d, reply.forward)
  PROVE  Stores(e, d, reply, x)
<1> PICK changes : changes = {ch \in op.changes : ch.prev # ch.next}  OBVIOUS
<1> PICK p : p = PlacementPatch(changes)  OBVIOUS
<1> PICK t : t = [e EXCEPT !.placed = (e.placed \cup {u.item : u \in p.upsert}) \ p.remove]  OBVIOUS
<1>1. PICK inv : reply \in CommitTopology(e, t, <<p>>, inv)
  BY DEF UpdatePlacements
<1>2. reply.forward = <<p>>
  BY <1>1 DEF CommitTopology
<1>3. x \in StorePatch(d, p)
  BY <1>2, StoreOne
<1>4. /\ p.kind = "placements"
      /\ p.upsert = {[item |-> ch.item, x |-> ch.next] : ch \in {c \in changes : c.next # 0}}
      /\ p.remove = {ch.item : ch \in {c \in changes : c.next = 0}}
  BY DEF PlacementPatch
<1>5. x = [d EXCEPT !.places = PatchPlacements(d.places, p)]
  BY <1>3, <1>4 DEF StorePatch
<1>6. e \in Engines /\ d \in Rows
  BY DEF Agree, RowsOK
<1>7. \A u \in p.upsert : u.item \in Items /\ u.x \in Positions \cup {0} /\ u.x # 0
  BY <1>4
<1>8. p.remove \subseteq Items
  BY <1>4
<1> PICK new : new = PatchPlacements(d.places, p)  OBVIOUS
<1>9. ASSUME NEW i \in Items
      PROVE  /\ new[i] \in Positions \cup {0}
             /\ i \in p.remove => new[i] = 0
             /\ i \notin p.remove /\ (\E u \in p.upsert : u.item = i) => new[i] # 0
             /\ i \notin p.remove /\ (~\E u \in p.upsert : u.item = i) => new[i] = d.places[i]
  <2>1. new[i] = IF i \in p.remove THEN 0
                 ELSE IF \E u \in p.upsert : u.item = i
                   THEN (CHOOSE u \in p.upsert : u.item = i).x
                 ELSE d.places[i]
    BY DEF PatchPlacements
  <2>2. (\E u \in p.upsert : u.item = i) => (CHOOSE u \in p.upsert : u.item = i) \in p.upsert
    BY Zenon
  <2>3. d.places[i] \in Positions \cup {0}
    BY <1>6 DEF Rows
  <2> QED BY <1>7, <2>1, <2>2, <2>3
<1>10. new \in [Items -> Positions \cup {0}]
  <2>1. new = [i \in Items |-> new[i]]
    BY DEF PatchPlacements
  <2> QED BY <1>9, <2>1
<1>11. Placed(new) = (e.placed \cup {u.item : u \in p.upsert}) \ p.remove
  <2>1. e.placed = Placed(d.places)
    BY DEF Agree
  <2> QED BY <1>7, <1>9, <2>1 DEF Placed
<1>12. (e.placed \cup {u.item : u \in p.upsert}) \ p.remove \in SUBSET Items
  BY <1>11 DEF Placed
<1> PICK pl : pl = (e.placed \cup {u.item : u \in p.upsert}) \ p.remove  OBVIOUS
<1>13. /\ t \in Engines /\ t.name = e.name /\ t.conns = e.conns /\ t.next = e.next
       /\ t.assigned = e.assigned /\ t.placed = pl
  BY <1>6, <1>12 DEF Engines
<1>14. /\ x \in Rows /\ x.name = d.name /\ x.conns = d.conns /\ x.seq = d.seq
       /\ x.assigned = d.assigned /\ x.places = new
  BY <1>5, <1>6, <1>10 DEF Rows
<1>15. RowsOK(x)
  BY <1>14 DEF RowsOK, Agree
<1>16. /\ Matches(t.conns, x.conns) /\ t.name = x.name /\ t.assigned = x.assigned
       /\ t.placed = Placed(x.places)
       /\ \A c \in t.conns : c.id < t.next
       /\ \A c \in t.conns : EndsOK(c)
       /\ \A c \in t.conns : \E b \in e.conns : b.id = c.id
  BY <1>11, <1>13, <1>14 DEF Agree
<1>17. t.next >= e.next /\ x.seq >= d.seq /\ (InStep(e, d) => InStep(t, x))
  BY <1>6, <1>13, <1>14 DEF Engines, Rows, InStep
<1> QED BY <1>1, <1>13, <1>15, <1>16, <1>17, Committed

(* rr[c] is c with another route.                                          *)
Rerouted(rr, conns) ==
  \A c \in conns : rr[c] \in Cable /\ rr[c] = [c EXCEPT !.route = rr[c].route]

(* The routes of the first k connections in the order are set.             *)
FirstRoutes(rr, conns, order, k) ==
  [c \in conns |-> IF \E i \in 1..k : order[i] = c THEN rr[c] ELSE c]

(* A connection keeps all but its route.                                   *)
LEMMA ReroutedFacts ==
  ASSUME NEW conns \in SUBSET Cable, NEW rr, Rerouted(rr, conns), NEW c \in conns
  PROVE  /\ c \in Cable /\ rr[c] \in Cable /\ rr[c].route \in RouteValues
         /\ rr[c].id = c.id /\ rr[c].from = c.from /\ rr[c].to = c.to
<1>1. c \in Cable /\ rr[c] \in Cable
  BY DEF Rerouted
<1> PICK w : w = rr[c].route  OBVIOUS
<1>2. rr[c] = [c EXCEPT !.route = w]
  BY DEF Rerouted
<1> QED BY <1>1, <1>2 DEF Cable

(* The next route of a batch.                                              *)
LEMMA NextRoute ==
  ASSUME NEW z, RowsOK(z), NEW conns \in SUBSET Cable, UniqueIds(conns),
         NEW n \in Nat, NEW order \in [1..n -> conns],
         NEW rr, Rerouted(rr, conns), NEW k \in Nat, k + 1 <= n,
         NEW p, p.kind = "route", p.id = order[k + 1].id, p.route = rr[order[k + 1]].route,
         Matches(Mapped(FirstRoutes(rr, conns, order, k), conns), z.conns),
         NEW y \in StorePatch(z, p)
  PROVE  /\ RowsOK(y) /\ SameButConns(z, y) /\ y.seq = z.seq
         /\ Matches(Mapped(FirstRoutes(rr, conns, order, k + 1), conns), y.conns)
<1> PICK m \in conns : m = order[k + 1]
  OBVIOUS
<1> PICK f : f = FirstRoutes(rr, conns, order, k)  OBVIOUS
<1> PICK h : h = FirstRoutes(rr, conns, order, k + 1)  OBVIOUS
<1>1. \A c \in conns : f[c] = IF \E i \in 1..k : order[i] = c THEN rr[c] ELSE c
  BY DEF FirstRoutes
<1>2. \A c \in conns : h[c] = IF c = m THEN rr[c] ELSE f[c]
  <2> TAKE c \in conns
  <2>1. (\E i \in 1..(k + 1) : order[i] = c) <=> (c = m \/ \E i \in 1..k : order[i] = c)
    OBVIOUS
  <2>2. h[c] = IF \E i \in 1..(k + 1) : order[i] = c THEN rr[c] ELSE c
    BY DEF FirstRoutes
  <2> QED BY <1>1, <2>1, <2>2
<1>3. ASSUME NEW c \in conns PROVE f[c] \in Cable /\ f[c].id = c.id
  BY <1>1, ReroutedFacts
<1> PICK cs : cs = Mapped(f, conns)  OBVIOUS
<1>4. \A c \in conns : f[c] \in cs
  BY DEF Mapped
<1>5. cs \in SUBSET Cable
  BY <1>3 DEF Mapped
<1> DEFINE g == [c \in cs |-> IF c.id = p.id THEN [c EXCEPT !.route = p.route] ELSE c]
<1>6. Routed(g, cs, p)
  BY DEF Routed
<1>7. p.route \in RouteValues
  BY ReroutedFacts
<1>8. ASSUME NEW c \in conns PROVE g[f[c]] = h[c]
  <2>1. CASE c = m
    <3> PICK w : w = rr[c].route  OBVIOUS
    <3>1. rr[c] = [c EXCEPT !.route = w] /\ c \in Cable
      BY DEF Rerouted
    <3>2. f[c] = rr[c] \/ f[c] = c
      BY <1>1
    <3>3. [f[c] EXCEPT !.route = w] = rr[c]
      BY <3>1, <3>2 DEF Cable
    <3>4. p.route = w /\ p.id = c.id
      BY <2>1
    <3>5. g[f[c]] = [f[c] EXCEPT !.route = p.route]
      BY <1>3, <1>4, <3>4
    <3>6. g[f[c]] = [f[c] EXCEPT !.route = w]
      BY <3>4, <3>5
    <3> HIDE DEF g
    <3> QED BY <1>2, <2>1, <3>3, <3>6
  <2>2. CASE c # m
    <3>1. c.id # p.id
      BY <2>2 DEF UniqueIds
    <3>2. g[f[c]] = f[c]
      BY <1>3, <1>4, <3>1
    <3> HIDE DEF g
    <3> QED BY <1>2, <2>2, <3>2
  <2> QED BY <2>1, <2>2
<1> HIDE DEF g
<1>9. Mapped(g, cs) = Mapped(h, conns)
  BY <1>4, <1>8 DEF Mapped
<1>10. /\ RowsOK(y) /\ SameButConns(z, y) /\ y.seq = z.seq
       /\ Matches(Mapped(g, cs), y.conns)
  BY <1>5, <1>6, <1>7, StoreRoute
<1> QED BY <1>9, <1>10

(* The rows after one more part of a patch.                                *)
LEMMA RunStep ==
  ASSUME NEW run, NEW d, NEW s, NEW n \in Nat, IsRun(run, d, s, n),
         NEW k \in Nat, k + 1 <= n, NEW y \in run[k + 1]
  PROVE  \E z \in run[k] : y \in StorePatch(z, s[k + 1])
<1> PICK j \in 1..n : j = k + 1
  OBVIOUS
<1>1. run[j] = UNION {StorePatch(z, s[j]) : z \in run[j - 1]}
  BY DEF IsRun
<1>2. \E z \in run[j - 1] : y \in StorePatch(z, s[j])
  BY <1>1
<1>3. j - 1 = k
  OBVIOUS
<1> QED BY <1>2, <1>3

(* The patch fw sets the new routes, in the order, of all that have one.   *)
IsBatch(fw, order, n, rr, conns) ==
  /\ order \in [1..n -> conns]
  /\ Rerouted(rr, conns)
  /\ \A c \in conns : rr[c] = c \/ \E i \in 1..n : order[i] = c
  /\ DOMAIN fw = 1..n
  /\ \A i \in 1..n : fw[i] = RoutePatch(order[i].id, rr[order[i]].route)

(* The routes of a batch are stored one after the other.                   *)
LEMMA RoutesStored ==
  ASSUME NEW d, RowsOK(d), NEW conns \in SUBSET Cable, Matches(conns, d.conns),
         NEW n \in Nat, NEW order, NEW rr, NEW fw, IsBatch(fw, order, n, rr, conns),
         NEW x \in Store(d, fw)
  PROVE  /\ RowsOK(x) /\ SameButConns(d, x) /\ x.seq = d.seq
         /\ Matches(Mapped(rr, conns), x.conns)
<1>0. /\ order \in [1..n -> conns] /\ Rerouted(rr, conns) /\ DOMAIN fw = 1..n
      /\ \A c \in conns : rr[c] = c \/ \E i \in 1..n : order[i] = c
      /\ \A i \in 1..n : fw[i] = RoutePatch(order[i].id, rr[order[i]].route)
  BY DEF IsBatch
<1>1. PICK run : IsRun(run, d, fw, n) /\ Store(d, fw) = run[n]
  BY <1>0, StoreSteps
<1> DEFINE G(k) == FirstRoutes(rr, conns, order, k)
           Ok(k, y) == /\ RowsOK(y) /\ SameButConns(d, y) /\ y.seq = d.seq
                       /\ Matches(Mapped(G(k), conns), y.conns)
           N == {k \in Nat : k <= n => \A y \in run[k] : Ok(k, y)}
<1>2. UniqueIds(conns)
  BY DEF Matches
<1>3. 0 \in N
  <2>1. run[0] = {d}
    BY <1>1 DEF IsRun
  <2>2. \A c \in conns : G(0)[c] = c
    BY DEF FirstRoutes
  <2>3. Mapped(G(0), conns) = conns
    <3> HIDE DEF G
    <3> QED BY <2>2 DEF Mapped
  <2>4. SameButConns(d, d)
    BY DEF SameButConns, RowsOK
  <2>5. Ok(0, d)
    BY <2>3, <2>4
  <2> HIDE DEF Ok
  <2> QED BY <2>1, <2>5
<1>4. ASSUME NEW k \in N PROVE k + 1 \in N
  <2> SUFFICES ASSUME k + 1 <= n, NEW y \in run[k + 1] PROVE Ok(k + 1, y)
    OBVIOUS
  <2>1. k \in Nat /\ k <= n /\ k + 1 \in 1..n /\ (k + 1) - 1 = k
    OBVIOUS
  <2> PICK p : p = fw[k + 1]  OBVIOUS
  <2>3. PICK z \in run[k] : y \in StorePatch(z, p)
    BY <1>1, <2>1, RunStep
  <2>4. Ok(k, z)
    <3> HIDE DEF Ok
    <3> QED BY <2>1
  <2>5. p = RoutePatch(order[k + 1].id, rr[order[k + 1]].route)
    BY <1>0, <2>1
  <2>6. p.kind = "route" /\ p.id = order[k + 1].id /\ p.route = rr[order[k + 1]].route
    BY <2>5 DEF RoutePatch
  <2>7. /\ RowsOK(y) /\ SameButConns(z, y) /\ y.seq = z.seq
        /\ Matches(Mapped(G(k + 1), conns), y.conns)
    <3>1. RowsOK(z) /\ Matches(Mapped(FirstRoutes(rr, conns, order, k), conns), z.conns)
      BY <2>4
    <3> HIDE DEF Ok, N
    <3> QED BY <1>0, <1>2, <2>1, <2>3, <2>6, <3>1, NextRoute
  <2>8. SameButConns(d, y) /\ y.seq = d.seq
    BY <2>4, <2>7 DEF SameButConns
  <2> QED BY <2>7, <2>8
<1>5. N \in SUBSET Nat
  OBVIOUS
<1>6. N = Nat
  <2> HIDE DEF N
  <2> QED BY <1>3, <1>4, <1>5, Induction
<1>7. Ok(n, x)
  <2> HIDE DEF Ok
  <2> QED BY <1>1, <1>6
<1>8. Mapped(G(n), conns) = Mapped(rr, conns)
  <2>1. \A c \in conns : G(n)[c] = rr[c]
    BY <1>0 DEF FirstRoutes
  <2> HIDE DEF G
  <2> QED BY <2>1 DEF Mapped
<1> QED BY <1>7, <1>8

(* The end of the commands on several routes.                              *)
LEMMA BatchStores ==
  ASSUME NEW e, NEW d, Agree(e, d), NEW new, \A c \in e.conns : new[c] \in RouteValues,
         NEW reply \in RouteBatch(e, new), NEW x \in Store(d, reply.forward)
  PROVE  Stores(e, d, reply, x)
<1> DEFINE S == {c \in e.conns : new[c] # c.route}
           order == InIdOrder(S)
           fw == [i \in DOMAIN order |-> RoutePatch(order[i].id, new[order[i]])]
           R(c) == [c EXCEPT !.route = new[c]]
           rr == [c \in e.conns |-> R(c)]
           t == [e EXCEPT !.conns = Mapped(rr, e.conns)]
<1>1. PICK inv : reply \in CommitTopology(e, t, fw, inv)
  <2>1. \A c \in e.conns : rr[c] = R(c)
    OBVIOUS
  <2>2. {R(c) : c \in e.conns} = Mapped(rr, e.conns)
    <3> HIDE DEF R, rr
    <3> QED BY <2>1 DEF Mapped
  <2>3. PICK inv : reply \in CommitTopology(e, [e EXCEPT !.conns = {R(c) : c \in e.conns}], fw, inv)
    BY DEF RouteBatch
  <2> HIDE DEF R, rr, fw
  <2> QED BY <2>2, <2>3
<1>2. reply.forward = fw
  BY <1>1 DEF CommitTopology
<1> PICK cs : cs = e.conns  OBVIOUS
<1>3. /\ e \in Engines /\ RowsOK(d) /\ Matches(cs, d.conns) /\ UniqueIds(cs)
      /\ cs \in SUBSET Cable
  BY DEF Agree, Engines, Matches
<1>4. ASSUME NEW c \in cs
      PROVE  /\ rr[c] = R(c) /\ rr[c] \in Cable /\ rr[c].id = c.id /\ rr[c].from = c.from
             /\ rr[c].to = c.to /\ rr[c].route = new[c]
             /\ new[c] = c.route => rr[c] = c
  <2>1. c \in Cable /\ rr[c] = R(c) /\ new[c] \in RouteValues
    BY <1>3
  <2> QED BY <2>1 DEF Cable
<1>5. Rerouted(rr, cs)
  <2> SUFFICES ASSUME NEW c \in cs PROVE rr[c] \in Cable /\ rr[c] = [c EXCEPT !.route = rr[c].route]
    BY DEF Rerouted
  <2>1. rr[c] \in Cable /\ rr[c] = R(c) /\ rr[c].route = new[c]
    BY <1>4
  <2> HIDE DEF rr
  <2> QED BY <2>1
<1>6. S \subseteq cs /\ \A c \in cs : c \in S \/ new[c] = c.route
  OBVIOUS
<1> HIDE DEF S
<1>7. UniqueIds(S) /\ e.next \in Nat /\ \A c \in S : c.id \in 1..e.next
  <2>1. e.next \in Nat
    BY <1>3 DEF Engines
  <2>2. \A c \in cs : c.id \in Nat \ {0} /\ c.id < e.next
    BY <1>3 DEF Cable, Agree
  <2>3. \A c \in S : c.id \in 1..e.next
    BY <1>6, <2>1, <2>2
  <2> QED BY <1>3, <1>6, <2>1, <2>3 DEF UniqueIds
<1>8. /\ Cardinality(S) \in Nat
      /\ order \in [1..Cardinality(S) -> S]
      /\ \A c \in S : \E i \in 1..Cardinality(S) : order[i] = c
  <2> PICK b \in Nat : b = e.next
    BY <1>7
  <2>1. \A c \in S : c.id \in 1..b
    BY <1>7
  <2> QED BY <1>7, <2>1, InIdOrderFacts
<1> PICK n \in Nat : n = Cardinality(S)
  BY <1>8
<1>9. order \in [1..n -> cs]
  BY <1>6, <1>8
<1>10. DOMAIN fw = 1..n /\ \A i \in 1..n : fw[i] = RoutePatch(order[i].id, rr[order[i]].route)
  <2> HIDE DEF order
  <2>1. DOMAIN order = 1..n
    BY <1>9
  <2>2. ASSUME NEW i \in 1..n PROVE fw[i] = RoutePatch(order[i].id, rr[order[i]].route)
    <3>1. order[i] \in cs
      BY <1>9
    <3>2. rr[order[i]].route = new[order[i]]
      BY <1>4, <3>1
    <3>3. fw[i] = RoutePatch(order[i].id, new[order[i]])
      BY <2>1
    <3> QED BY <3>2, <3>3
  <2> QED BY <2>1, <2>2
<1>11. \A c \in cs : rr[c] = c \/ \E i \in 1..n : order[i] = c
  BY <1>4, <1>6, <1>8
<1>12. /\ t \in Engines /\ t.conns = Mapped(rr, e.conns)
       /\ t.name = e.name /\ t.assigned = e.assigned /\ t.placed = e.placed /\ t.next = e.next
       /\ \A b \in t.conns : b.id < t.next
       /\ \A b \in t.conns : EndsOK(b)
       /\ t.next >= e.next
       /\ \A b \in t.conns : \E a \in e.conns : a.id = b.id
  <2>1. \A c \in e.conns : rr[c] \in Cable /\ rr[c].id = c.id /\ rr[c].from = c.from /\ rr[c].to = c.to
    BY <1>4
  <2> HIDE DEF rr
  <2> QED BY <2>1, SameEnds
<1> HIDE DEF rr, R, fw, order, t
<1>13. /\ RowsOK(x) /\ SameButConns(d, x) /\ x.seq = d.seq
       /\ Matches(Mapped(rr, cs), x.conns)
  <2>1. x \in Store(d, fw)
    BY <1>2
  <2>2. IsBatch(fw, order, n, rr, cs)
    BY <1>5, <1>9, <1>10, <1>11 DEF IsBatch
  <2> QED BY <1>3, <2>1, <2>2, RoutesStored
<1>14. t.name = x.name /\ t.assigned = x.assigned /\ t.placed = Placed(x.places)
  BY <1>12, <1>13 DEF SameButConns, Agree
<1>15. x.seq >= d.seq /\ (InStep(e, d) => InStep(t, x))
  BY <1>3, <1>12, <1>13 DEF RowsOK, Rows, InStep
<1> QED BY <1>1, <1>12, <1>13, <1>14, <1>15, Committed

(* A command on the routes of several cables.                              *)
RouteReply(e, reply) ==
  \E new : /\ \A c \in e.conns : new[c] \in RouteValues
           /\ reply \in RouteBatch(e, new)

(* resolve_connection_route_sides                                          *)
LEMMA SidesRoutes ==
  ASSUME NEW e \in Engines, NEW op, op.src \in Sides, op.tgt \in Sides,
         NEW reply \in ResolveConnectionRouteSides(e, op)
  PROVE  RouteReply(e, reply)
<1> DEFINE new == [c \in e.conns |->
        IF c.id \notin op.ids THEN c.route
        ELSE [OrEmpty(c.route) EXCEPT !.src = IF @ = "none" THEN op.src ELSE @,
                                      !.tgt = IF @ = "none" THEN op.tgt ELSE @]]
<1>1. reply \in RouteBatch(e, new)
  BY DEF ResolveConnectionRouteSides
<1>2. ASSUME NEW c \in e.conns PROVE new[c] \in RouteValues
  <2>1. c.route \in RouteValues
    BY DEF Engines, Cable
  <2>2. OrEmpty(c.route) \in RouteValues
    BY <2>1 DEF OrEmpty, EmptyRoute, RouteValues
  <2> PICK w \in RouteValues : w = OrEmpty(c.route)
    BY <2>2
  <2>3. [w EXCEPT !.src = IF @ = "none" THEN op.src ELSE @,
                  !.tgt = IF @ = "none" THEN op.tgt ELSE @] \in RouteValues
    BY DEF RouteValues
  <2> QED BY <2>1, <2>3
<1> HIDE DEF new
<1> QED BY <1>1, <1>2 DEF RouteReply

(* canonicalize_connection_routes                                          *)
LEMMA CanonicalRoutes ==
  ASSUME NEW e \in Engines, NEW op, \A ch \in op.changes : ch.bends \in Bends \cup {0},
         NEW reply \in CanonicalizeConnectionRoutes(e, op)
  PROVE  RouteReply(e, reply)
<1> DEFINE new == [c \in e.conns |->
        IF \E ch \in op.changes : ch.id = c.id
          THEN [OrEmpty(c.route) EXCEPT !.bends =
                 (CHOOSE ch \in op.changes : ch.id = c.id).bends]
          ELSE c.route]
<1>1. reply \in RouteBatch(e, new)
  BY DEF CanonicalizeConnectionRoutes
<1>2. ASSUME NEW c \in e.conns PROVE new[c] \in RouteValues
  <2>1. c.route \in RouteValues
    BY DEF Engines, Cable
  <2>2. OrEmpty(c.route) \in RouteValues
    BY <2>1 DEF OrEmpty, EmptyRoute, RouteValues
  <2> DEFINE ch == CHOOSE ch \in op.changes : ch.id = c.id
  <2>3. CASE \E b \in op.changes : b.id = c.id
    <3>1. ch \in op.changes
      BY <2>3, Zenon
    <3> HIDE DEF ch
    <3> PICK b \in Bends \cup {0} : b = ch.bends
      BY <3>1
    <3>2. [OrEmpty(c.route) EXCEPT !.bends = b] \in RouteValues
      BY <2>2 DEF RouteValues
    <3> QED BY <2>3, <3>2 DEF ch
  <2>4. CASE ~\E b \in op.changes : b.id = c.id
    BY <2>1, <2>4
  <2> QED BY <2>3, <2>4
<1> HIDE DEF new
<1> QED BY <1>1, <1>2 DEF RouteReply

(* reset_all_connection_bends                                              *)
LEMMA ResetRoutes ==
  ASSUME NEW e \in Engines, NEW op,
         NEW reply \in ResetAllConnectionBends(e, op)
  PROVE  RouteReply(e, reply)
<1> DEFINE new == [c \in e.conns |->
        IF c.route.bends = 0 THEN c.route
        ELSE IF [c.route EXCEPT !.bends = 0] = EmptyRoute THEN NoRoute
        ELSE [c.route EXCEPT !.bends = 0]]
<1>1. reply \in RouteBatch(e, new)
  BY DEF ResetAllConnectionBends
<1>2. ASSUME NEW c \in e.conns PROVE new[c] \in RouteValues
  <2>1. c.route \in RouteValues
    BY DEF Engines, Cable
  <2>2. [c.route EXCEPT !.bends = 0] \in RouteValues /\ NoRoute \in RouteValues
    BY <2>1 DEF RouteValues, NoRoute
  <2> QED BY <2>1, <2>2
<1> HIDE DEF new
<1> QED BY <1>1, <1>2 DEF RouteReply

(* restore_automatic_connection_routes                                     *)
LEMMA AutomaticRoutes ==
  ASSUME NEW e \in Engines, NEW op,
         NEW reply \in RestoreAutomaticConnectionRoutes(e, op)
  PROVE  RouteReply(e, reply)
<1> DEFINE new == [c \in e.conns |->
        IF {c.route.src, c.route.tgt} \cap Sides = {} /\ c.route.bends = 0 THEN c.route
        ELSE IF c.route.avoid THEN [EmptyRoute EXCEPT !.avoid = TRUE]
        ELSE NoRoute]
<1>1. reply \in RouteBatch(e, new)
  BY DEF RestoreAutomaticConnectionRoutes
<1>2. ASSUME NEW c \in e.conns PROVE new[c] \in RouteValues
  <2>1. c.route \in RouteValues
    BY DEF Engines, Cable
  <2>2. [EmptyRoute EXCEPT !.avoid = TRUE] \in RouteValues /\ NoRoute \in RouteValues
    BY DEF RouteValues, NoRoute, EmptyRoute
  <2> QED BY <2>1, <2>2
<1> HIDE DEF new
<1> QED BY <1>1, <1>2 DEF RouteReply

-----------------------------------------------------------------------------
(* Assignments *)

(* The same for the rows of the assignments of a patch.                    *)
Upserts(d, s) == FoldLeft(LAMBDA ds, a : UNION {UpsertAssignment(x, a) : x \in ds}, {d}, s)

IsUpsertFold(f, d, s, n) ==
  f = [S \in SUBSET (1..n) |->
         IF S = {} THEN {d}
         ELSE UNION {UpsertAssignment(y, s[Max(S)]) : y \in f[S \ {Max(S)}]}]

(* The recursive function in this FoldLeft exists.                         *)
LEMMA UpsertFoldExists ==
  ASSUME NEW d, NEW s
  PROVE  \A n \in Nat : \E f : IsUpsertFold(f, d, s, n)
<1> DEFINE N == {n \in Nat : \E f : IsUpsertFold(f, d, s, n)}
<1>1. 0 \in N
  <2> DEFINE g == [S \in SUBSET (1..0) |-> {d}]
  <2>1. \A S \in SUBSET (1..0) : S = {}
    OBVIOUS
  <2>2. IsUpsertFold(g, d, s, 0)
    BY <2>1 DEF IsUpsertFold
  <2> QED BY <2>2
<1>2. ASSUME NEW n \in N PROVE n + 1 \in N
  <2>1. n \in Nat /\ 1..(n + 1) = (1..n) \cup {n + 1} /\ n + 1 \notin 1..n
    OBVIOUS
  <2>2. PICK f : IsUpsertFold(f, d, s, n)
    OBVIOUS
  <2> DEFINE g == [S \in SUBSET (1..(n + 1)) |->
               IF n + 1 \in S THEN UNION {UpsertAssignment(y, s[n + 1]) : y \in f[S \ {n + 1}]}
               ELSE f[S]]
  <2>3. \A S \in SUBSET (1..(n + 1)) : n + 1 \in S => Max(S) = n + 1 /\ S \ {n + 1} \in SUBSET (1..n)
    <3> TAKE S \in SUBSET (1..(n + 1))
    <3> HAVE n + 1 \in S
    <3>1. \A x \in S : n + 1 >= x /\ (x >= n + 1 => x = n + 1)
      BY <2>1
    <3> QED BY <2>1, <3>1 DEF Max
  <2>4. \A S \in SUBSET (1..(n + 1)) : n + 1 \notin S => S \in SUBSET (1..n)
    BY <2>1
  <2>5. \A S \in SUBSET (1..n) : g[S] = f[S] /\ S \in SUBSET (1..(n + 1)) /\ S \ {Max(S)} \in SUBSET (1..n)
    BY <2>1
  <2>6. IsUpsertFold(g, d, s, n + 1)
    <3> SUFFICES ASSUME NEW S \in SUBSET (1..(n + 1))
                 PROVE  g[S] = IF S = {} THEN {d}
                               ELSE UNION {UpsertAssignment(y, s[Max(S)]) : y \in g[S \ {Max(S)}]}
      BY DEF IsUpsertFold
    <3>1. CASE n + 1 \in S
      <4>1. Max(S) = n + 1 /\ S \ {n + 1} \in SUBSET (1..n)
        BY <2>3, <3>1
      <4>2. g[S \ {n + 1}] = f[S \ {n + 1}]
        BY <4>1, <2>5
      <4>3. g[S] = UNION {UpsertAssignment(y, s[n + 1]) : y \in f[S \ {n + 1}]}
        BY <3>1
      <4> HIDE DEF g
      <4>4. g[S] = UNION {UpsertAssignment(y, s[Max(S)]) : y \in g[S \ {Max(S)}]}
        BY <4>1, <4>2, <4>3, Zenon
      <4> QED BY <3>1, <4>4, Zenon
    <3>2. CASE n + 1 \notin S
      <4>1. S \in SUBSET (1..n)
        BY <2>4, <3>2
      <4>2. g[S] = f[S] /\ g[S \ {Max(S)}] = f[S \ {Max(S)}]
        BY <4>1, <2>5
      <4>3. f[S] = IF S = {} THEN {d}
                   ELSE UNION {UpsertAssignment(y, s[Max(S)]) : y \in f[S \ {Max(S)}]}
        BY <2>2, <4>1 DEF IsUpsertFold
      <4> QED BY <4>2, <4>3
    <3> QED BY <3>1, <3>2
  <2> HIDE DEF g
  <2>7. \E h : IsUpsertFold(h, d, s, n + 1)
    BY <2>6
  <2> QED BY <2>1, <2>7
<1>3. N \in SUBSET Nat
  OBVIOUS
<1>4. N = Nat
  <2> HIDE DEF N
  <2> QED BY <1>1, <1>2, <1>3, Induction
<1> QED BY <1>4

(* The rows after one assignment after the other.                          *)
IsUpserts(run, d, s, n) ==
  /\ run[0] = {d}
  /\ \A k \in 1..n : run[k] = UNION {UpsertAssignment(y, s[k]) : y \in run[k - 1]}

(* The rows after a list of assignments are those after its last one.      *)
LEMMA UpsertSteps ==
  ASSUME NEW d, NEW s, NEW n \in Nat, DOMAIN s = 1..n
  PROVE  \E run : IsUpserts(run, d, s, n) /\ Upserts(d, s) = run[n]
<1>1. \E f : IsUpsertFold(f, d, s, n)
  BY UpsertFoldExists
<1>2. PICK f : /\ f = [S \in SUBSET (DOMAIN s) |->
                       IF S = {} THEN {d}
                       ELSE UNION {UpsertAssignment(y, s[Max(S)]) : y \in f[S \ {Max(S)}]}]
               /\ Upserts(d, s) = f[DOMAIN s]
  BY <1>1, Zenon DEF Upserts, FoldLeft, MapThenFoldSet, IsUpsertFold
<1> DEFINE run == [k \in 0..n |-> f[1..k]]
<1>3. 1..0 = {} /\ run[0] = f[1..0] /\ run[n] = f[1..n]
  OBVIOUS
<1>4. run[0] = {d}
  BY <1>2, <1>3
<1>5. ASSUME NEW k \in 1..n
      PROVE  run[k] = UNION {UpsertAssignment(y, s[k]) : y \in run[k - 1]}
  <2>1. 1..k \in SUBSET (1..n) /\ 1..k # {} /\ (1..k) \ {k} = 1..(k - 1)
    OBVIOUS
  <2>2. Max(1..k) = k
    <3>1. \A x \in 1..k : k >= x /\ (x >= k => x = k)
      OBVIOUS
    <3>2. k \in 1..k
      OBVIOUS
    <3> QED BY <3>1, <3>2 DEF Max
  <2>3. f[1..k] = UNION {UpsertAssignment(y, s[Max(1..k)]) : y \in f[(1..k) \ {Max(1..k)}]}
    BY <1>2, <2>1
  <2>4. run[k] = f[1..k] /\ run[k - 1] = f[1..(k - 1)]
    OBVIOUS
  <2> HIDE DEF run
  <2> QED BY <2>1, <2>2, <2>3, <2>4, Zenon
<1> HIDE DEF run
<1> QED BY <1>2, <1>3, <1>4, <1>5 DEF IsUpserts

(* The rows after one more assignment.                                     *)
LEMMA UpsertStep ==
  ASSUME NEW run, NEW d, NEW s, NEW n \in Nat, IsUpserts(run, d, s, n),
         NEW k \in Nat, k + 1 <= n, NEW y \in run[k + 1]
  PROVE  \E z \in run[k] : y \in UpsertAssignment(z, s[k + 1])
<1> PICK j \in 1..n : j = k + 1
  OBVIOUS
<1>1. run[j] = UNION {UpsertAssignment(z, s[j]) : z \in run[j - 1]}
  BY DEF IsUpserts
<1>2. \E z \in run[j - 1] : y \in UpsertAssignment(z, s[j])
  BY <1>1
<1>3. j - 1 = k
  OBVIOUS
<1> QED BY <1>2, <1>3

(* The rows d with the assignments S.                                      *)
WithAssigned(d, S) == [d EXCEPT !.assigned = S]

(* The assignments after the first k of a list were put in.                *)
AfterUpserts(S, o, k) ==
  {a \in S : \A i \in 1..k : a.id # o[i].id} \cup {o[i] : i \in 1..k}

(* upsertAssignment, one row after the other: each replaces the row of its *)
(* id.                                                                     *)
LEMMA UpsertsStored ==
  ASSUME NEW d \in Rows, NEW n \in Nat, NEW o, DOMAIN o = 1..n,
         \A i, j \in 1..n : i # j => o[i].id # o[j].id,
         NEW x \in Upserts(d, o)
  PROVE  x = WithAssigned(d, AfterUpserts(d.assigned, o, n))
<1>1. PICK run : IsUpserts(run, d, o, n) /\ Upserts(d, o) = run[n]
  BY UpsertSteps
<1> DEFINE A(k) == AfterUpserts(d.assigned, o, k)
           N == {k \in Nat : k <= n => \A y \in run[k] : y = WithAssigned(d, A(k))}
<1>2. 0 \in N
  <2>1. run[0] = {d}
    BY <1>1 DEF IsUpserts
  <2>2. A(0) = d.assigned
    BY DEF AfterUpserts
  <2>3. d = WithAssigned(d, A(0))
    BY <2>2 DEF WithAssigned, Rows
  <2> QED BY <2>1, <2>3
<1>3. ASSUME NEW k \in N PROVE k + 1 \in N
  <2> SUFFICES ASSUME k + 1 <= n, NEW y \in run[k + 1] PROVE y = WithAssigned(d, A(k + 1))
    OBVIOUS
  <2>1. k \in Nat /\ k <= n /\ k + 1 \in 1..n
    OBVIOUS
  <2>2. PICK z \in run[k] : y \in UpsertAssignment(z, o[k + 1])
    BY <1>1, <2>1, UpsertStep
  <2> PICK a, B : a = o[k + 1] /\ B = A(k)  OBVIOUS
  <2>3. z = WithAssigned(d, B)
    BY <2>1
  <2>4. z.assigned = B
    BY <2>3 DEF WithAssigned, Rows
  <2>5. y = [z EXCEPT !.assigned = {b \in B : b.id # a.id} \cup {a}]
    BY <2>2, <2>4 DEF UpsertAssignment
  <2>6. {b \in B : b.id # a.id} \cup {a} = A(k + 1)
    <3>1. 1..(k + 1) = (1..k) \cup {k + 1} /\ \A i \in 1..k : i \in 1..n /\ i # k + 1
      BY <2>1
    <3>2. \A i \in 1..k : o[i].id # a.id
      BY <2>1, <3>1
    <3> QED BY <3>1, <3>2 DEF AfterUpserts
  <2> HIDE DEF A
  <2>7. y = [z EXCEPT !.assigned = A(k + 1)]
    BY <2>5, <2>6
  <2> QED BY <2>3, <2>7 DEF WithAssigned, Rows
<1>4. N \in SUBSET Nat
  OBVIOUS
<1>5. N = Nat
  <2> HIDE DEF N
  <2> QED BY <1>2, <1>3, <1>4, Induction
<1> QED BY <1>1, <1>5

(* The changes a browser asks for: each is of one assignment, no two are   *)
(* of the same.                                                            *)
ChangesOK(changes) ==
  /\ \A ch \in changes : /\ ch.next \in Assignments \cup {NoAssignment}
                         /\ ch.prev # NoAssignment /\ ch.next # NoAssignment =>
                              ch.prev.id = ch.next.id
  /\ \A a, b \in changes : a.prev # a.next /\ b.prev # b.next
                           /\ AssignmentId(a) = AssignmentId(b) => a = b
  /\ \E m \in Nat : \A ch \in changes : AssignmentId(ch) \in 0..m

(* The assignments of a project have ids, and a component is in one host.  *)
LEMMA AssignedIds ==
  ASSUME NEW a \in Assignments
  PROVE  a.id \in Nat \ {0} /\ a # NoAssignment
<1>1. a.id \in Nat \ {0}
  BY ValueAssumption DEF Assignments
<1>2. NoAssignment.id = 0
  BY DEF NoAssignment
<1> QED BY <1>1, <1>2

(* The assignments S, those with the id of a member of U replaced by it.   *)
Replaced(S, U) == {a \in S : \A u \in U : a.id # u.id} \cup U

(* The assignments of a patch are put in whatever the order of their ids.  *)
LEMMA SetStored ==
  ASSUME NEW d \in Rows, NEW U, UniqueIds(U), NEW m \in Nat, \A a \in U : a.id \in 1..m,
         NEW x \in Upserts(d, InIdOrder(U))
  PROVE  x = WithAssigned(d, Replaced(d.assigned, U))
<1> PICK o : o = InIdOrder(U)  OBVIOUS
<1>1. /\ Cardinality(U) \in Nat
      /\ o \in [1..Cardinality(U) -> U]
      /\ \A i, j \in 1..Cardinality(U) : i # j => o[i].id # o[j].id
      /\ \A a \in U : \E i \in 1..Cardinality(U) : o[i] = a
  BY InIdOrderFacts
<1> PICK n \in Nat : n = Cardinality(U)
  BY <1>1
<1>2. DOMAIN o = 1..n /\ \A i, j \in 1..n : i # j => o[i].id # o[j].id
  BY <1>1
<1>3. x = WithAssigned(d, AfterUpserts(d.assigned, o, n))
  BY <1>2, UpsertsStored
<1>4. {o[i] : i \in 1..n} = U
  BY <1>1
<1>5. AfterUpserts(d.assigned, o, n) = Replaced(d.assigned, U)
  BY <1>1, <1>4 DEF AfterUpserts, Replaced
<1> QED BY <1>3, <1>5

(* update_assignments: the store takes away and puts in what the engine    *)
(* replaces.                                                               *)
LEMMA AssignStores ==
  ASSUME NEW e, NEW d, Agree(e, d), NEW op, ChangesOK(op.changes),
         NEW reply \in UpdateAssignments(e, op), NEW x \in Store(d, reply.forward)
  PROVE  Stores(e, d, reply, x) /\ x.places = d.places
<1> PICK C : C = {ch \in op.changes : ch.prev # ch.next}  OBVIOUS
<1> PICK old, new : old = {ch.prev : ch \in C} /\ new = {ch.next : ch \in C}  OBVIOUS
<1> PICK p : p = AssignmentPatch(old, new)  OBVIOUS
<1> PICK S : S = (e.assigned \ old) \cup (new \ {NoAssignment})  OBVIOUS
<1> PICK t : t = [e EXCEPT !.assigned = S]  OBVIOUS
<1>1. /\ \A ch \in op.changes : CurrentAssignment(e, AssignmentId(ch)) = ch.prev
      /\ \E inv : reply \in CommitTopology(e, t, <<p>>, inv)
  BY DEF UpdateAssignments
<1> PICK inv : reply \in CommitTopology(e, t, <<p>>, inv)
  BY <1>1
<1>2. reply.forward = <<p>>
  BY DEF CommitTopology
<1>3. x \in StorePatch(d, p)
  BY <1>2, StoreOne
<1> PICK U, D : U = new \ {NoAssignment} /\ D = {a.id : a \in old} \ {a.id : a \in new \cup {NoAssignment}}
  OBVIOUS
<1>4. p.kind = "assignments" /\ p.upsert = U /\ p.remove = D
  BY DEF AssignmentPatch
<1> PICK d1 : d1 = [d EXCEPT !.assigned = {a \in d.assigned : a.id \notin D}]  OBVIOUS
<1>5. x \in Upserts(d1, InIdOrder(U))
  BY <1>3, <1>4 DEF StorePatch, PatchAssignments, Upserts
<1>6. /\ e \in Engines /\ d \in Rows /\ e.assigned = d.assigned /\ d.assigned \in SUBSET Assignments
      /\ UniqueIds(d.assigned)
  BY DEF Agree, RowsOK, Rows, Builds, UniqueIds
<1>7. \A ch \in C : /\ ch \in op.changes /\ ch.prev # ch.next
                    /\ ch.next \in Assignments \cup {NoAssignment}
                    /\ ch.prev \in d.assigned \cup {NoAssignment}
  <2> TAKE ch \in C
  <2>1. CurrentAssignment(e, AssignmentId(ch)) = ch.prev
    BY <1>1
  <2>2. \A id : CurrentAssignment(e, id) \in d.assigned \cup {NoAssignment}
    <3> TAKE id
    <3>1. CASE \E a \in e.assigned : a.id = id
      <4>1. (CHOOSE a \in e.assigned : a.id = id) \in e.assigned
        BY <3>1, Zenon
      <4> QED BY <1>6, <3>1, <4>1 DEF CurrentAssignment
    <3>2. CASE ~\E a \in e.assigned : a.id = id
      BY <3>2 DEF CurrentAssignment
    <3> QED BY <3>1, <3>2
  <2> QED BY <2>1, <2>2 DEF ChangesOK
<1>8. U \subseteq Assignments
  BY <1>7
<1>9. \A ch \in C : ch.next # NoAssignment => AssignmentId(ch) = ch.next.id
  BY <1>7 DEF ChangesOK, AssignmentId
<1>10. UniqueIds(U)
  <2> SUFFICES ASSUME NEW a \in C, NEW b \in C, a.next # NoAssignment, b.next # NoAssignment,
                      a.next.id = b.next.id
               PROVE  a.next = b.next
    BY DEF UniqueIds
  <2>1. AssignmentId(a) = AssignmentId(b)
    BY <1>9
  <2> QED BY <1>7, <2>1 DEF ChangesOK
<1>11. PICK m \in Nat : \A ch \in C : AssignmentId(ch) \in 0..m
  BY <1>7 DEF ChangesOK
<1>12. \A a \in U : a.id \in 1..m
  <2> SUFFICES ASSUME NEW ch \in C, ch.next # NoAssignment PROVE ch.next.id \in 1..m
    OBVIOUS
  <2>1. ch.next \in Assignments
    BY <1>7
  <2>2. ch.next.id \in 0..m
    BY <1>9, <1>11
  <2>3. ch.next.id # 0
    BY <2>1, AssignedIds
  <2> QED BY <2>2, <2>3
<1>14. d1 \in Rows /\ d1.assigned = {a \in d.assigned : a.id \notin D}
  BY <1>6 DEF Rows
<1>15. x = WithAssigned(d1, Replaced(d1.assigned, U))
  <2>1. d1 \in Rows
    BY <1>14
  <2> QED BY <1>5, <1>10, <1>12, <2>1, SetStored
<1>17. Replaced(d1.assigned, U) = {a \in d.assigned : a.id \notin D /\ \A u \in U : a.id # u.id} \cup U
  BY <1>14 DEF Replaced
<1>18. \A a \in d.assigned : a \in old <=> ~(a.id \notin D /\ \A u \in U : a.id # u.id)
  <2> TAKE a \in d.assigned
  <2>0. a.id # 0 /\ NoAssignment.id = 0
    BY <1>6, AssignedIds DEF NoAssignment
  <2>1. ASSUME a \in old, a.id \notin D PROVE \E u \in U : a.id = u.id
    BY <2>0, <2>1
  <2>2. ASSUME a.id \in D PROVE a \in old
    <3>1. PICK ch \in C : ch.prev.id = a.id
      BY <2>2
    <3>2. ch.prev \in d.assigned
      BY <1>7, <2>0, <3>1
    <3> QED BY <1>6, <3>1, <3>2 DEF UniqueIds
  <2>3. ASSUME NEW u \in U, a.id = u.id PROVE a \in old
    <3>1. PICK ch \in C : ch.next = u /\ u # NoAssignment
      OBVIOUS
    <3>2. CurrentAssignment(e, a.id) = ch.prev
      BY <1>1, <1>7, <1>9, <2>3, <3>1
    <3>3. CurrentAssignment(e, a.id) = CHOOSE b \in e.assigned : b.id = a.id
      BY <1>6 DEF CurrentAssignment
    <3>4. (CHOOSE b \in e.assigned : b.id = a.id) \in d.assigned
          /\ (CHOOSE b \in e.assigned : b.id = a.id).id = a.id
      BY <1>6, Zenon
    <3>5. ch.prev = a
      BY <1>6, <3>2, <3>3, <3>4 DEF UniqueIds
    <3> QED BY <3>5
  <2> QED BY <2>1, <2>2, <2>3
<1>19. Replaced(d1.assigned, U) = S
  BY <1>6, <1>17, <1>18
<1>20. S \in SUBSET Assignments
  BY <1>6, <1>8
<1>21. /\ t \in Engines /\ t.name = e.name /\ t.conns = e.conns /\ t.next = e.next
       /\ t.assigned = S /\ t.placed = e.placed
  BY <1>6, <1>20 DEF Engines
<1>22. /\ x \in Rows /\ x.name = d.name /\ x.conns = d.conns /\ x.seq = d.seq
       /\ x.assigned = S /\ x.places = d.places
  <2>1. d1 \in Rows /\ d1.name = d.name /\ d1.conns = d.conns /\ d1.seq = d.seq /\ d1.places = d.places
    BY <1>6 DEF Rows
  <2>2. x = [d1 EXCEPT !.assigned = S]
    BY <1>15, <1>19 DEF WithAssigned
  <2> QED BY <1>20, <2>1, <2>2 DEF Rows
<1>23. RowsOK(x)
  BY <1>22 DEF RowsOK, Agree
<1>24. /\ Matches(t.conns, x.conns) /\ t.name = x.name /\ t.assigned = x.assigned
       /\ t.placed = Placed(x.places)
       /\ \A c \in t.conns : c.id < t.next
       /\ \A c \in t.conns : EndsOK(c)
       /\ \A c \in t.conns : \E b \in e.conns : b.id = c.id
  BY <1>21, <1>22 DEF Agree
<1>25. t.next >= e.next /\ x.seq >= d.seq /\ (InStep(e, d) => InStep(t, x))
  BY <1>6, <1>21, <1>22 DEF Engines, Rows, InStep
<1>26. Stores(e, d, reply, x)
  BY <1>21, <1>23, <1>24, <1>25, Committed
<1> QED BY <1>22, <1>26

-----------------------------------------------------------------------------
(* Connections made and removed *)

(* A batch of one part and a derived patch, which may be left out.         *)
Batch(a, before, after) == <<a>> \o DerivedPatch(before, after)

(* What the derived patch makes of the rows y.                             *)
Rederives(before, after, y, x) ==
  \/ DerivedPatch(before, after) = <<>> /\ x = y
  \/ \E p : DerivedPatch(before, after) = <<p>> /\ x \in StorePatch(y, p)

(* The two parts of such a batch.                                          *)
LEMMA BatchSplit ==
  ASSUME NEW d, NEW a, NEW before, NEW after, NEW x \in Store(d, Batch(a, before, after))
  PROVE  \E y \in StorePatch(d, a) : Rederives(before, after, y, x)
<1> PICK dp : dp = DerivedPatch(before, after)  OBVIOUS
<1>1. CASE dp = <<>>
  <2>1. <<a>> \o dp = <<a>>
    BY <1>1
  <2>2. x \in StorePatch(d, a)
    BY <2>1, StoreOne DEF Batch
  <2> QED BY <1>1, <2>2 DEF Rederives
<1>2. ASSUME NEW p, dp = <<p>> PROVE \E y \in StorePatch(d, a) : x \in StorePatch(y, p)
  <2>1. <<a>> \o dp = <<a, p>>
    <3>1. <<a>> \o <<p>> = <<a, p>>
      <4> PICK S : S = {a, p}  OBVIOUS
      <4>1. <<a>> \in Seq(S) /\ <<p>> \in Seq(S) /\ Len(<<a>>) = 1 /\ Len(<<p>>) = 1
        OBVIOUS
      <4> PICK s, q, r : q = <<a>> /\ r = <<p>> /\ s = q \o r  OBVIOUS
      <4>2. s \in Seq(S) /\ Len(s) = 2 /\ s[1] = q[1] /\ s[2] = r[1]
        BY <4>1
      <4> PICK w : w = <<a, p>>  OBVIOUS
      <4>3. w \in Seq(S) /\ Len(w) = 2 /\ w[1] = a /\ w[2] = p
        OBVIOUS
      <4>4. s = [i \in 1..2 |-> s[i]] /\ w = [i \in 1..2 |-> w[i]]
        BY <4>2, <4>3
      <4>5. \A i \in 1..2 : s[i] = w[i]
        BY <4>2, <4>3
      <4> QED BY <4>4, <4>5
    <3> QED BY <1>2, <3>1
  <2>2. x \in UNION {StorePatch(y, p) : y \in StorePatch(d, a)}
    BY <2>1, StoreTwo DEF Batch
  <2> QED BY <2>2
<1>3. dp = <<>> \/ \E p : dp = <<p>>
  BY DEF DerivedPatch
<1> QED BY <1>1, <1>2, <1>3 DEF Rederives

(* The end of a batch sets the derived states that the command changed.    *)
LEMMA DerivedStored ==
  ASSUME NEW before, UniqueIds(before.conns),
         NEW y, RowsOK(y), NEW conns, Matches(conns, y.conns),
         NEW g, Derives(g, conns, before), NEW after, after.conns = Mapped(g, conns),
         NEW x, Rederives(before, after, y, x)
  PROVE  RowsOK(x) /\ SameButConns(y, x) /\ x.seq = y.seq /\ Matches(after.conns, x.conns)
<1> PICK rows : rows = y.conns  OBVIOUS
<1>1. rows \in SUBSET Cable /\ y \in Rows
  BY DEF RowsOK, Rows
<1>2. PICK new : /\ Matches(after.conns, new) /\ Rederived(rows, new)
                 /\ \/ DerivedPatch(before, after) = <<>> /\ new = rows
                    \/ \E p : /\ DerivedPatch(before, after) = <<p>>
                              /\ p.kind = "derived" /\ new = PatchDerived(rows, p)
  <2>1. Matches(conns, rows)
    OBVIOUS
  <2> QED BY <1>1, <2>1, DerivedMatches
<1>3. CASE DerivedPatch(before, after) = <<>>
  <2>1. x = y /\ new = rows
    BY <1>2, <1>3 DEF Rederives
  <2> QED BY <1>1, <1>2, <2>1 DEF SameButConns
<1>4. CASE \E p : DerivedPatch(before, after) = <<p>>
  <2>1. PICK p : DerivedPatch(before, after) = <<p>>
    BY <1>4
  <2>2. \A q : <<q>> = <<p>> => q = p
    OBVIOUS
  <2>3. x \in StorePatch(y, p) /\ p.kind = "derived" /\ new = PatchDerived(rows, p)
    BY <1>2, <2>1, <2>2 DEF Rederives
  <2>4. Rederived(y.conns, PatchDerived(y.conns, p))
    BY <1>2, <2>3
  <2>5. RowsOK(x) /\ SameButConns(y, x) /\ x.seq = y.seq /\ x.conns = PatchDerived(y.conns, p)
    BY <2>3, <2>4, StoreDerived
  <2> QED BY <1>2, <2>3, <2>5
<1> QED BY <1>3, <1>4 DEF Rederives

(* f[c] is the connection c with the derived states it has in t.           *)
Redraws(f, conns, t) ==
  /\ t.conns = Mapped(f, conns)
  /\ \A c \in conns : /\ f[c] \in Cable /\ f[c].id = c.id /\ f[c].label = c.label
                      /\ f[c].from = c.from /\ f[c].to = c.to /\ f[c].route = c.route

(* Only the derived states of connections are recomputed.                  *)
LEMMA Redrawn ==
  ASSUME NEW u \in Engines, NEW t, t = NormalizeDerived(u)
  PROVE  /\ t \in Engines /\ t.next = u.next /\ t.name = u.name
         /\ t.assigned = u.assigned /\ t.placed = u.placed
         /\ \E f : Redraws(f, u.conns, t)
<1>1. t \in Engines /\ t = [u EXCEPT !.conns = t.conns]
  BY Normalized
<1>2. \E f : Redraws(f, u.conns, t)
  BY Normalized DEF Redraws, Mapped
<1> PICK cs : cs = t.conns  OBVIOUS
<1>3. t = [u EXCEPT !.conns = cs]
  BY <1>1
<1>4. t.next = u.next /\ t.name = u.name /\ t.assigned = u.assigned /\ t.placed = u.placed
  BY <1>3 DEF Engines
<1> QED BY <1>1, <1>2, <1>4

(* The id of a new connection is the next one the engine keeps.            *)
LEMMA NextId ==
  ASSUME NEW e \in Engines, \A c \in e.conns : c.id < e.next
  PROVE  ConnectionId(e) = e.next
<1> DEFINE ids == {1, e.next} \cup {c.id + 1 : c \in e.conns}
<1>1. e.next \in Nat \ {0} /\ \A c \in e.conns : c.id \in Nat
  BY DEF Engines, Cable
<1>2. \A i \in ids : i \in Nat /\ e.next >= i
  BY <1>1
<1>3. e.next \in ids
  OBVIOUS
<1> HIDE DEF ids
<1>4. \A m \in ids : (\A i \in ids : m >= i) => m = e.next
  BY <1>1, <1>2, <1>3
<1>5. Max(ids) = e.next
  BY <1>2, <1>3, <1>4 DEF Max
<1> QED BY <1>5 DEF ConnectionId, ids

(* A connection that ValidateConnection accepts has good ends.             *)
LEMMA NewEnds ==
  ASSUME NEW e, NEW op, ValidateConnection(e, op.from, op.to), NEW c, c = NewConnection(e, op)
  PROVE  EndsOK(c)
<1>1. /\ Exposes(e, op.from) /\ Exposes(e, op.to) /\ op.from.item # op.to.item
      /\ IF Power(op.from) = "none" /\ Power(op.to) = "none" THEN PortsCompatible(op.from, op.to)
         ELSE {Power(op.from), Power(op.to)} = {"input", "output"}
  BY DEF ValidateConnection
<1>2. PortType[op.from.port] # "barrel" /\ PortType[op.to.port] # "barrel"
  BY <1>1 DEF Exposes
<1>3. CASE Power(op.from) = "input"
  <2>1. c.from = op.to /\ c.to = op.from
    BY <1>3 DEF NewConnection
  <2>2. Power(op.to) = "output"
    BY <1>1, <1>3
  <2> QED BY <1>1, <1>2, <1>3, <2>1, <2>2 DEF EndsOK
<1>4. CASE Power(op.from) # "input"
  <2>1. c.from = op.from /\ c.to = op.to
    BY <1>4 DEF NewConnection
  <2>2. \/ Power(op.from) = "output" /\ Power(op.to) = "input"
        \/ Power(op.from) = "none" /\ Power(op.to) = "none" /\ PortsCompatible(op.from, op.to)
    BY <1>1, <1>4
  <2> QED BY <1>1, <1>2, <2>1, <2>2 DEF EndsOK
<1> QED BY <1>3, <1>4

(* A connection added to the engine and to the rows.                       *)
LEMMA AddedStored ==
  ASSUME NEW e, NEW d, Agree(e, d), NEW c \in Cable, c.id = e.next, EndsOK(c),
         NEW conns, conns = e.conns \cup {c}, NEW t \in Engines, NEW f, Redraws(f, conns, t),
         t.next = e.next + 1, t.name = e.name, t.assigned = e.assigned, t.placed = e.placed,
         NEW a, a.kind = "add", a.conn = f[c],
         NEW inv, NEW reply \in CommitTopology(e, t, Batch(a, e, t), inv),
         NEW x \in Store(d, Batch(a, e, t))
  PROVE  Stores(e, d, reply, x)
<1>1. /\ e \in Engines /\ RowsOK(d) /\ Matches(e.conns, d.conns) /\ UniqueIds(e.conns)
      /\ \A b \in e.conns : b.id < e.next
  BY DEF Agree, Matches
<1>2. e.next \in Nat \ {0} /\ e.conns \in SUBSET Cable /\ \A b \in e.conns : b.id \in Nat
  BY <1>1 DEF Engines, Cable
<1>3. /\ t.conns = Mapped(f, conns)
      /\ \A b \in conns : /\ f[b] \in Cable /\ f[b].id = b.id /\ f[b].label = b.label
                          /\ f[b].from = b.from /\ f[b].to = b.to /\ f[b].route = b.route
  BY DEF Redraws
<1> PICK k : k = f[c]  OBVIOUS
<1>4. k \in Cable /\ k.id = e.next /\ \A b \in e.conns : b.id # k.id
  BY <1>1, <1>2, <1>3
<1> PICK y \in StorePatch(d, a) : Rederives(e, t, y, x)
  BY BatchSplit
<1>5. /\ RowsOK(y) /\ SameButConns(d, y) /\ y.seq >= d.seq
      /\ (k.id = d.seq + 1 => y.seq = k.id)
      /\ \E row \in Cable : y.conns = d.conns \cup {row} /\ Copies(k, row)
  BY <1>1, <1>4, StoreAdd
<1>6. PICK row \in Cable : y.conns = d.conns \cup {row} /\ Copies(k, row)
  BY <1>5
<1> PICK cs : cs = e.conns \cup {k}  OBVIOUS
<1>7. Matches(cs, y.conns)
  <2> PICK es, ds : es = e.conns /\ ds = d.conns  OBVIOUS
  <2>1. Matches(es, ds) /\ \A b \in es : b.id # k.id
    BY <1>1, <1>4
  <2>2. Matches(es \cup {k}, ds \cup {row})
    BY <1>6, <2>1, MatchesAdded
  <2> QED BY <1>6, <2>2
<1> PICK g : g = [b \in cs |-> IF b = k THEN k ELSE f[b]]  OBVIOUS
<1>8. (\A b \in e.conns : b # k /\ b \in cs /\ g[b] = f[b]) /\ g[k] = k /\ k \in cs
  BY <1>4
<1>9. Derives(g, cs, e)
  BY <1>3, <1>4, <1>8 DEF Derives
<1>10. t.conns = Mapped(g, cs)
  <2>1. \A b \in conns : \E z \in cs : g[z] = f[b]
    BY <1>8
  <2>2. \A z \in cs : \E b \in conns : g[z] = f[b]
    BY <1>8
  <2>3. Mapped(f, conns) \subseteq Mapped(g, cs) /\ Mapped(g, cs) \subseteq Mapped(f, conns)
    BY <2>1, <2>2 DEF Mapped
  <2> QED BY <1>3, <2>3
<1>11. RowsOK(x) /\ SameButConns(y, x) /\ x.seq = y.seq /\ Matches(t.conns, x.conns)
  BY <1>1, <1>5, <1>7, <1>9, <1>10, DerivedStored
<1>12. t.name = x.name /\ t.assigned = x.assigned /\ t.placed = Placed(x.places)
  BY <1>5, <1>11 DEF SameButConns, Agree
<1>13. \A b \in t.conns : b.id < t.next
  <2>1. \A b \in conns : b.id < t.next
    BY <1>1, <1>2
  <2> QED BY <1>3, <2>1 DEF Mapped
<1>14. \A b \in t.conns : EndsOK(b)
  <2> SUFFICES ASSUME NEW b \in conns PROVE EndsOK(f[b])
    BY <1>3 DEF Mapped
  <2>1. EndsOK(b)
    BY DEF Agree
  <2> PICK h : h = f[b]  OBVIOUS
  <2>2. h.from = b.from /\ h.to = b.to
    BY <1>3
  <2>3. EndsOK(h)
    BY <2>1, <2>2 DEF EndsOK
  <2> QED BY <2>3
<1>15. \A b \in t.conns : (\E z \in e.conns : z.id = b.id) \/ b.id >= e.next
  <2>1. \A b \in conns : b \in e.conns \/ b.id >= e.next
    BY <1>2
  <2> QED BY <1>3, <2>1 DEF Mapped
<1>16. t.next >= e.next /\ x.seq >= d.seq /\ (InStep(e, d) => InStep(t, x))
  BY <1>2, <1>4, <1>5, <1>11 DEF InStep
<1> QED BY <1>11, <1>12, <1>13, <1>14, <1>15, <1>16, Committed

(* create_connection                                                       *)
LEMMA CreateStores ==
  ASSUME NEW e, NEW d, Agree(e, d), NEW op, op.from \in Refs, op.to \in Refs,
         NEW reply \in CreateConnection(e, op), NEW x \in Store(d, reply.forward)
  PROVE  Stores(e, d, reply, x)
<1> DEFINE c == NewConnection(e, op)
           u == [e EXCEPT !.conns = e.conns \cup {c}, !.next = c.id + 1]
           t == NormalizeDerived(u)
           a == [kind |-> "add", conn |-> Only(t, t.next - 1)]
<1>1. ValidateConnection(e, op.from, op.to)
  BY DEF CreateConnection
<1>2. PICK inv : reply \in CommitTopology(e, t, Batch(a, e, t), inv)
  BY <1>1 DEF CreateConnection, Batch
<1>3. /\ e \in Engines /\ UniqueIds(e.conns) /\ \A b \in e.conns : b.id < e.next
  BY DEF Agree, Matches
<1>4. e.next \in Nat \ {0} /\ e.conns \in SUBSET Cable /\ \A b \in e.conns : b.id \in Nat
  BY <1>3 DEF Engines, Cable
<1>5. c.id = e.next
  BY <1>3, NextId DEF NewConnection
<1>6. c \in Cable
  <2>1. NoRoute \in RouteValues
    BY DEF NoRoute, RouteValues
  <2>2. ConnectionId(e) \in Nat \ {0}
    BY <1>3, <1>4, NextId
  <2> PICK w \in RouteValues, i \in Nat \ {0} : w = NoRoute /\ i = ConnectionId(e)
    BY <2>1, <2>2
  <2> QED BY DEF NewConnection, Cable
<1>7. EndsOK(c)
  BY <1>1, NewEnds
<1> HIDE DEF c
<1>8. /\ u \in Engines /\ u.conns = e.conns \cup {c} /\ u.next = e.next + 1
      /\ u.name = e.name /\ u.assigned = e.assigned /\ u.placed = e.placed
  <2> PICK cs, n : cs = e.conns \cup {c} /\ n = c.id + 1  OBVIOUS
  <2>1. cs \in SUBSET Cable /\ n \in Nat \ {0} /\ n = e.next + 1
    BY <1>4, <1>5, <1>6
  <2>2. u = [e EXCEPT !.conns = cs, !.next = n]
    OBVIOUS
  <2> HIDE DEF u
  <2> QED BY <1>3, <2>1, <2>2 DEF Engines
<1>9. t = NormalizeDerived(u)
  OBVIOUS
<1>10. a.kind = "add" /\ a.conn = Only(t, t.next - 1)
  OBVIOUS
<1> HIDE DEF u, t, a
<1>11. x \in Store(d, Batch(a, e, t))
  BY <1>2 DEF CommitTopology
<1>12. /\ t \in Engines /\ t.next = u.next /\ t.name = u.name
       /\ t.assigned = u.assigned /\ t.placed = u.placed
       /\ \E f : Redraws(f, u.conns, t)
  BY <1>8, <1>9, Redrawn
<1> PICK conns : conns = e.conns \cup {c}  OBVIOUS
<1> PICK f : Redraws(f, conns, t)
  BY <1>8, <1>12
<1>13. a.conn = f[c]
  <2>1. f[c] \in t.conns /\ f[c].id = e.next
    BY <1>5 DEF Redraws, Mapped
  <2>2. \A b \in conns : b.id = e.next => b = c
    BY <1>3, <1>4, <1>5
  <2>3. \A b \in t.conns : b.id = e.next => b = f[c]
    BY <2>2 DEF Redraws, Mapped
  <2>4. t.next - 1 = e.next
    BY <1>4, <1>8, <1>12
  <2>5. Only(t, e.next) = f[c]
    BY <2>1, <2>3 DEF Only
  <2> QED BY <1>10, <2>4, <2>5
<1> QED BY <1>2, <1>5, <1>6, <1>7, <1>8, <1>10, <1>11, <1>12, <1>13, AddedStored

(* A connection removed from the engine and from the rows.                 *)
LEMMA RemovedStored ==
  ASSUME NEW e, NEW d, Agree(e, d), NEW c \in e.conns,
         NEW conns, conns = e.conns \ {c}, NEW t \in Engines, NEW f, Redraws(f, conns, t),
         t.next = e.next, t.name = e.name, t.assigned = e.assigned, t.placed = e.placed,
         NEW a, a.kind = "remove", a.conn.id = c.id,
         NEW inv, NEW reply \in CommitTopology(e, t, Batch(a, e, t), inv),
         NEW x \in Store(d, Batch(a, e, t))
  PROVE  Stores(e, d, reply, x)
<1>1. /\ e \in Engines /\ RowsOK(d) /\ Matches(e.conns, d.conns) /\ UniqueIds(e.conns)
      /\ \A b \in e.conns : b.id < e.next
  BY DEF Agree, Matches
<1>2. /\ t.conns = Mapped(f, conns)
      /\ \A b \in conns : /\ f[b] \in Cable /\ f[b].id = b.id /\ f[b].label = b.label
                          /\ f[b].from = b.from /\ f[b].to = b.to /\ f[b].route = b.route
  BY DEF Redraws
<1> PICK y \in StorePatch(d, a) : Rederives(e, t, y, x)
  BY BatchSplit
<1>3. /\ RowsOK(y) /\ SameButConns(d, y) /\ y.seq = d.seq
      /\ \E r \in d.conns : r.id = a.conn.id /\ y.conns = d.conns \ {r}
  BY <1>1, StoreRemove
<1>4. Matches(conns, y.conns)
  <2> PICK r \in d.conns : r.id = c.id /\ y.conns = d.conns \ {r}
    BY <1>3
  <2> PICK es, ds : es = e.conns /\ ds = d.conns  OBVIOUS
  <2>1. Matches(es \ {c}, ds \ {r})
    BY <1>1, MatchesRemoved
  <2> QED BY <2>1
<1>5. Derives(f, conns, e)
  BY <1>2 DEF Derives
<1>6. RowsOK(x) /\ SameButConns(y, x) /\ x.seq = y.seq /\ Matches(t.conns, x.conns)
  <2>1. UniqueIds(e.conns) /\ RowsOK(y) /\ t.conns = Mapped(f, conns)
    BY <1>1, <1>2, <1>3
  <2> QED BY <1>4, <1>5, <2>1, DerivedStored
<1>7. t.name = x.name /\ t.assigned = x.assigned /\ t.placed = Placed(x.places)
  BY <1>3, <1>6 DEF SameButConns, Agree
<1>8. \A b \in t.conns : b.id < t.next
  BY <1>1, <1>2 DEF Mapped
<1>9. \A b \in t.conns : EndsOK(b)
  <2> SUFFICES ASSUME NEW b \in conns PROVE EndsOK(f[b])
    BY <1>2 DEF Mapped
  <2>1. EndsOK(b)
    BY DEF Agree
  <2> PICK h : h = f[b]  OBVIOUS
  <2>2. h.from = b.from /\ h.to = b.to
    BY <1>2
  <2>3. EndsOK(h)
    BY <2>1, <2>2 DEF EndsOK
  <2> QED BY <2>3
<1>10. \A b \in t.conns : \E z \in e.conns : z.id = b.id
  BY <1>2 DEF Mapped
<1>11. t.next >= e.next /\ x.seq >= d.seq /\ (InStep(e, d) => InStep(t, x))
  BY <1>1, <1>3, <1>6 DEF Engines, RowsOK, Rows, InStep
<1> QED BY <1>6, <1>7, <1>8, <1>9, <1>10, <1>11, Committed

(* remove_connection                                                       *)
LEMMA RemoveStores ==
  ASSUME NEW e, NEW d, Agree(e, d), NEW op,
         NEW reply \in RemoveConnection(e, op), NEW x \in Store(d, reply.forward)
  PROVE  Stores(e, d, reply, x)
<1> DEFINE U(c) == [e EXCEPT !.conns = e.conns \ {c}]
           a == [kind |-> "remove", conn |-> Only(e, op.id)]
<1>1. PICK c \in e.conns :
        /\ c.id = op.id
        /\ \E inv : reply \in CommitTopology(e, NormalizeDerived(U(c)), Batch(a, e, NormalizeDerived(U(c))), inv)
  BY DEF RemoveConnection, Batch
<1> PICK inv : reply \in CommitTopology(e, NormalizeDerived(U(c)), Batch(a, e, NormalizeDerived(U(c))), inv)
  BY <1>1
<1> DEFINE u == U(c)
           t == NormalizeDerived(u)
<1>2. reply \in CommitTopology(e, t, Batch(a, e, t), inv)
  BY <1>1
<1>3. a.kind = "remove" /\ a.conn.id = c.id
  <2>1. Only(e, op.id).id = op.id
    BY <1>1, Zenon DEF Only
  <2> QED BY <1>1, <2>1
<1>4. e \in Engines
  BY DEF Agree
<1> PICK conns : conns = e.conns \ {c}  OBVIOUS
<1>5. /\ u \in Engines /\ u.conns = conns /\ u.next = e.next
      /\ u.name = e.name /\ u.assigned = e.assigned /\ u.placed = e.placed
  <2>1. conns \in SUBSET Cable /\ u = [e EXCEPT !.conns = conns]
    BY <1>4 DEF Engines
  <2> HIDE DEF u
  <2> QED BY <1>4, <2>1 DEF Engines
<1>6. t = NormalizeDerived(u)
  OBVIOUS
<1> HIDE DEF u, t, a, U
<1>7. x \in Store(d, Batch(a, e, t))
  BY <1>2 DEF CommitTopology
<1>8. /\ t \in Engines /\ t.next = u.next /\ t.name = u.name
      /\ t.assigned = u.assigned /\ t.placed = u.placed
      /\ \E f : Redraws(f, u.conns, t)
  BY <1>5, <1>6, Redrawn
<1> PICK f : Redraws(f, conns, t)
  BY <1>5, <1>8
<1> QED BY <1>2, <1>3, <1>5, <1>7, <1>8, RemovedStored

-----------------------------------------------------------------------------
(* Every command *)

(* snap_placements_to_grid                                                 *)
LEMMA SnapStores ==
  ASSUME NEW e, NEW d, Agree(e, d), NEW op, op.planned \in Positions,
         NEW reply \in SnapPlacementsToGrid(e, op), NEW x \in Store(d, reply.forward)
  PROVE  Stores(e, d, reply, x)
<1> DEFINE nodes == {i \in Items : op.nodes[i] # 0}
           changes == {[item |-> i, prev |-> op.nodes[i], next |-> op.planned] : i \in nodes}
           all == [changes |-> changes]
<1>1. reply \in UpdatePlacements(e, all)
  BY DEF SnapPlacementsToGrid
<1>2. \A ch \in changes : ch.item \in Items /\ ch.next \in Positions \cup {0}
  OBVIOUS
<1>3. all.changes = changes
  OBVIOUS
<1> HIDE DEF changes, all
<1>4. \A ch \in all.changes : ch.item \in Items /\ ch.next \in Positions \cup {0}
  BY <1>2, <1>3
<1> QED BY <1>1, <1>4, PlaceStores

Kinds == {"create", "remove", "label", "route", "sides", "canonical", "reset", "automatic",
          "name", "assign", "place", "snap"}

(* What the commands of a browser carry.                                   *)
OperationOK(op) ==
  /\ op.kind \in Kinds
  /\ op.kind = "create" => op.from \in Refs /\ op.to \in Refs
  /\ op.kind = "label" => op.label \in Labels \cup {0}
  /\ op.kind = "route" => op.route \in RouteValues
  /\ op.kind = "sides" => op.src \in Sides /\ op.tgt \in Sides
  /\ op.kind = "canonical" => \A ch \in op.changes : ch.bends \in Bends \cup {0}
  /\ op.kind = "name" => op.name \in Labels \cup {0}
  /\ op.kind = "assign" => ChangesOK(op.changes)
  /\ op.kind = "place" => \A ch \in op.changes : ch.item \in Items /\ ch.next \in Positions \cup {0}
  /\ op.kind = "snap" => op.planned \in Positions

(* Engine::dispatch: whatever the command, storing its patch keeps the     *)
(* engine and the rows one project.                                        *)
LEMMA DispatchStores ==
  ASSUME NEW e, NEW d, Agree(e, d), NEW op, OperationOK(op),
         NEW reply \in Dispatch(e, op), NEW x \in Store(d, reply.forward)
  PROVE  Stores(e, d, reply, x) /\ e.rev # MaxRevision
<1>0. e \in Engines
  BY DEF Agree
<1>1. e.rev # MaxRevision
  BY DEF Dispatch
<1>2. CASE op.kind = "create"
  <2>1. reply \in CreateConnection(e, op)
    BY <1>1, <1>2 DEF Dispatch
  <2> QED BY <1>1, <1>2, <2>1, CreateStores DEF OperationOK
<1>3. CASE op.kind = "remove"
  <2>1. reply \in RemoveConnection(e, op)
    BY <1>1, <1>3 DEF Dispatch
  <2> QED BY <1>1, <2>1, RemoveStores
<1>4. CASE op.kind = "label"
  <2>1. reply \in UpdateConnectionLabel(e, op)
    BY <1>1, <1>4 DEF Dispatch
  <2> QED BY <1>1, <1>4, <2>1, LabelStores DEF OperationOK
<1>5. CASE op.kind = "route"
  <2>1. reply \in UpdateConnectionRoute(e, op)
    BY <1>1, <1>5 DEF Dispatch
  <2> QED BY <1>1, <1>5, <2>1, RouteStores DEF OperationOK
<1>6. CASE op.kind = "sides"
  <2>1. reply \in ResolveConnectionRouteSides(e, op)
    BY <1>1, <1>6 DEF Dispatch
  <2>2. RouteReply(e, reply)
    BY <1>0, <1>6, <2>1, SidesRoutes DEF OperationOK
  <2> QED BY <1>1, <2>2, BatchStores DEF RouteReply
<1>7. CASE op.kind = "canonical"
  <2>1. reply \in CanonicalizeConnectionRoutes(e, op)
    BY <1>1, <1>7 DEF Dispatch
  <2>2. RouteReply(e, reply)
    BY <1>0, <1>7, <2>1, CanonicalRoutes DEF OperationOK
  <2> QED BY <1>1, <2>2, BatchStores DEF RouteReply
<1>8. CASE op.kind = "reset"
  <2>1. reply \in ResetAllConnectionBends(e, op)
    BY <1>1, <1>8 DEF Dispatch
  <2>2. RouteReply(e, reply)
    BY <1>0, <2>1, ResetRoutes
  <2> QED BY <1>1, <2>2, BatchStores DEF RouteReply
<1>9. CASE op.kind = "automatic"
  <2>1. reply \in RestoreAutomaticConnectionRoutes(e, op)
    BY <1>1, <1>9 DEF Dispatch
  <2>2. RouteReply(e, reply)
    BY <1>0, <2>1, AutomaticRoutes
  <2> QED BY <1>1, <2>2, BatchStores DEF RouteReply
<1>10. CASE op.kind = "name"
  <2>1. reply \in UpdateProjectMetadata(e, op)
    BY <1>1, <1>10 DEF Dispatch
  <2> QED BY <1>1, <1>10, <2>1, NameStores DEF OperationOK
<1>11. CASE op.kind = "assign"
  <2>1. reply \in UpdateAssignments(e, op)
    BY <1>1, <1>11 DEF Dispatch
  <2> QED BY <1>1, <1>11, <2>1, AssignStores DEF OperationOK
<1>12. CASE op.kind = "place"
  <2>1. reply \in UpdatePlacements(e, op)
    BY <1>1, <1>12 DEF Dispatch
  <2> QED BY <1>1, <1>12, <2>1, PlaceStores DEF OperationOK
<1>13. CASE op.kind = "snap"
  <2>1. reply \in SnapPlacementsToGrid(e, op)
    BY <1>1, <1>13 DEF Dispatch
  <2> QED BY <1>1, <1>13, <2>1, SnapStores DEF OperationOK
<1> QED BY <1>2, <1>3, <1>4, <1>5, <1>6, <1>7, <1>8, <1>9, <1>10, <1>11, <1>12, <1>13
           DEF OperationOK, Kinds

(* The changes of AssignmentChange and SwapOf.                             *)
LEMMA AssignmentOperationsOK ==
  ASSUME Agree(engine, db), NEW op \in AssignmentOperations
  PROVE  op.kind = "assign" /\ ChangesOK(op.changes)
<1>1. engine.assigned \in SUBSET Assignments
  BY DEF Agree, Engines
<1>2. ASSUME NEW id \in Nat, NEW a \in Assignments \cup {NoAssignment},
             a # NoAssignment => a.id = id, op = AssignmentChange(id, a)
      PROVE  op.kind = "assign" /\ ChangesOK(op.changes)
  <2> PICK b : b = CurrentAssignment(engine, id)  OBVIOUS
  <2>1. op.kind = "assign" /\ op.changes = {[prev |-> b, next |-> a]}
    BY <1>2 DEF AssignmentChange
  <2>2. b = NoAssignment \/ b.id = id
    <3>1. CASE \E c \in engine.assigned : c.id = id
      <4>1. (CHOOSE c \in engine.assigned : c.id = id).id = id
        BY <3>1, Zenon
      <4> QED BY <3>1, <4>1 DEF CurrentAssignment
    <3>2. CASE ~\E c \in engine.assigned : c.id = id
      BY <3>2 DEF CurrentAssignment
    <3> QED BY <3>1, <3>2
  <2> PICK ch : ch = [prev |-> b, next |-> a]  OBVIOUS
  <2>3. ch.prev = b /\ ch.next = a /\ op.changes = {ch}
    BY <2>1
  <2>4. AssignmentId(ch) \in 0..id
    BY <1>2, <2>2, <2>3 DEF AssignmentId, NoAssignment
  <2>5. \A c \in op.changes : /\ c.next \in Assignments \cup {NoAssignment}
                              /\ c.prev # NoAssignment /\ c.next # NoAssignment =>
                                   c.prev.id = c.next.id
    BY <1>2, <2>2, <2>3
  <2>6. \A c, e \in op.changes : c = e
    BY <2>3
  <2>7. \E m \in Nat : \A c \in op.changes : AssignmentId(c) \in 0..m
    BY <2>3, <2>4
  <2> QED BY <2>1, <2>5, <2>6, <2>7 DEF ChangesOK
<1>3. ASSUME NEW a \in engine.assigned, NEW b \in engine.assigned, op = SwapOf(a, b)
      PROVE  op.kind = "assign" /\ ChangesOK(op.changes)
  <2> PICK a2, b2 : /\ a2 = [a EXCEPT !.host = b.host, !.slot = b.slot]
                    /\ b2 = [b EXCEPT !.host = a.host, !.slot = a.slot]
    OBVIOUS
  <2>1. /\ a \in Assignments /\ b \in Assignments
        /\ a2 \in Assignments /\ b2 \in Assignments /\ a2.id = a.id /\ b2.id = b.id
    BY <1>1 DEF Assignments
  <2> PICK p, q : p = [prev |-> a, next |-> a2] /\ q = [prev |-> b, next |-> b2]  OBVIOUS
  <2>2. op.kind = "assign" /\ op.changes = {p, q}
    BY <1>3 DEF SwapOf
  <2>3. p.prev = a /\ p.next = a2 /\ q.prev = b /\ q.next = b2
    OBVIOUS
  <2>4. /\ a.id \in Nat \ {0} /\ b.id \in Nat \ {0}
        /\ a # NoAssignment /\ b # NoAssignment /\ a2 # NoAssignment /\ b2 # NoAssignment
    BY <2>1, AssignedIds
  <2>5. AssignmentId(p) = a.id /\ AssignmentId(q) = b.id
    BY <2>3, <2>4 DEF AssignmentId
  <2>6. a.id = b.id => a = b /\ p = q
    <3>1. UniqueIds(engine.assigned)
      BY DEF Agree, Builds, UniqueIds
    <3> QED BY <3>1 DEF UniqueIds
  <2> PICK m \in Nat : m = a.id + b.id
    BY <2>4
  <2>7. AssignmentId(p) \in 0..m /\ AssignmentId(q) \in 0..m
    BY <2>4, <2>5
  <2>8. \A c \in op.changes : /\ c.next \in Assignments \cup {NoAssignment}
                              /\ c.prev # NoAssignment /\ c.next # NoAssignment =>
                                   c.prev.id = c.next.id
    BY <2>1, <2>2, <2>3
  <2>9. \A c, e \in op.changes : AssignmentId(c) = AssignmentId(e) => c = e
    BY <2>2, <2>5, <2>6
  <2>10. \A c \in op.changes : AssignmentId(c) \in 0..m
    BY <2>2, <2>7
  <2> QED BY <2>2, <2>8, <2>9, <2>10 DEF ChangesOK
<1>4. CASE \E a \in Assignments : op = AssignmentChange(a.id, a)
  <2> PICK a \in Assignments : op = AssignmentChange(a.id, a)
    BY <1>4
  <2> PICK id \in Nat : id = a.id
    BY AssignedIds
  <2> QED BY <1>2
<1>5. CASE \E id \in AssignmentIds : op = AssignmentChange(id, NoAssignment)
  <2> PICK id \in Nat : op = AssignmentChange(id, NoAssignment)
    BY <1>5, ValueAssumption
  <2> QED BY <1>2
<1>6. CASE \E a, b \in engine.assigned : op = SwapOf(a, b)
  BY <1>3, <1>6
<1> QED BY <1>4, <1>5, <1>6 DEF AssignmentOperations, Swaps

(* What the operations of a browser carry.                                 *)
LEMMA OperationsOK ==
  ASSUME Agree(engine, db), NEW op \in Operations
  PROVE  OperationOK(op)
<1>1. CASE op \in ConnectionOperations
  <2>1. Offered \subseteq Refs
    BY DEF Offered
  <2> QED BY <1>1, <2>1 DEF ConnectionOperations, OperationOK, Kinds
<1>2. CASE op \in RouteOperations
  <2>1. CASE op \in [kind : {"route"}, id : issued, route : Routes]
    BY <2>1, ValueAssumption DEF OperationOK, Kinds
  <2>2. CASE op.kind = "sides" /\ op.src = "top" /\ op.tgt = "left"
    BY <2>2 DEF OperationOK, Kinds, Sides
  <2>3. CASE op.kind = "canonical" /\ \A ch \in op.changes : ch.bends \in Bends \cup {0}
    BY <2>3 DEF OperationOK, Kinds
  <2>4. CASE op.kind \in {"reset", "automatic"}
    BY <2>4 DEF OperationOK, Kinds
  <2>5. ASSUME NEW ids, NEW old, NEW new \in Bends \cup {0},
               op = [kind |-> "canonical",
                     changes |-> {[id |-> id, expected |-> old, bends |-> new] : id \in ids}]
        PROVE  op.kind = "canonical" /\ \A ch \in op.changes : ch.bends \in Bends \cup {0}
    BY <2>5
  <2> QED BY <1>2, <2>1, <2>2, <2>3, <2>4, <2>5 DEF RouteOperations
<1>3. CASE op \in AssignmentOperations
  <2>1. op.kind = "assign" /\ ChangesOK(op.changes)
    BY <1>3, AssignmentOperationsOK
  <2> QED BY <2>1 DEF OperationOK, Kinds
<1>4. CASE op \in CanvasOperations
  <2>1. ASSUME NEW i \in Movable, NEW x \in Positions \cup {0},
               op = [kind |-> "place", changes |-> {[item |-> i, prev |-> db.places[i], next |-> x]}]
        PROVE  OperationOK(op)
    <3>1. op.kind = "place" /\ \A ch \in op.changes : ch.item = i /\ ch.next = x
      BY <2>1
    <3> QED BY <3>1, InventoryAssumption DEF OperationOK, Kinds
  <2>2. CASE op \in [kind : {"snap"}, nodes : {view.places}, planned : Positions]
    BY <2>2 DEF OperationOK, Kinds
  <2>3. CASE op \in [kind : {"name"}, name : Labels]
    BY <2>3 DEF OperationOK, Kinds
  <2> QED BY <1>4, <2>1, <2>2, <2>3 DEF CanvasOperations
<1> QED BY <1>1, <1>2, <1>3, <1>4 DEF Operations

(* An engine loaded from the rows is the project of the rows.              *)
LEMMA Reloaded ==
  ASSUME NEW e, NEW d, Agree(e, d)
  PROVE  Agree(EngineOf(d), d)
<1>1. RowsOK(d) /\ d \in Rows /\ UniqueIds(d.conns) /\ Matches(e.conns, d.conns) /\ e.assigned = d.assigned
  BY DEF Agree, RowsOK
<1> PICK u : u = EngineOf(d)  OBVIOUS
<1>2. /\ u.rev = d.rev /\ u.next = d.seq + 1 /\ u.name = d.name /\ u.conns = d.conns
      /\ u.assigned = d.assigned /\ u.placed = Placed(d.places)
  BY DEF EngineOf
<1>3. d.seq \in Nat /\ d.conns \in SUBSET Cable /\ Placed(d.places) \subseteq Items
  BY <1>1 DEF Rows, Placed
<1>4. u \in Engines
  <2> PICK n \in Nat \ {0}, pl \in SUBSET Items : n = d.seq + 1 /\ pl = Placed(d.places)
    BY <1>3
  <2> QED BY <1>1 DEF Rows, Engines, EngineOf
<1>5. Matches(u.conns, d.conns)
  <2> PICK rows : rows = d.conns  OBVIOUS
  <2>1. Matches(rows, rows)
    BY <1>1, <1>3, MatchesItself
  <2> QED BY <1>2, <2>1
<1>6. \A c \in u.conns : c.id < u.next
  <2>1. \A c \in d.conns : c.id \in Nat /\ c.id <= d.seq
    BY <1>1, <1>3 DEF RowsOK, Cable
  <2> QED BY <1>2, <1>3, <2>1
<1>7. \A r \in d.conns : \E c \in e.conns : c.from = r.from /\ c.to = r.to
  BY <1>1 DEF Matches, Copies
<1>8. \A c \in u.conns : EndsOK(c)
  <2> SUFFICES ASSUME NEW r \in d.conns PROVE EndsOK(r)
    BY <1>2
  <2>1. PICK c \in e.conns : c.from = r.from /\ c.to = r.to
    BY <1>7
  <2>2. EndsOK(c)
    BY DEF Agree
  <2> QED BY <2>1, <2>2 DEF EndsOK
<1>9. Builds(u)
  <2>1. Builds(e)
    BY DEF Agree
  <2>2. \A c, k \in d.conns : c.id = k.id => c = k
    BY <1>1 DEF UniqueIds
  <2>3. \A c \in d.conns : \A r \in {c.from, c.to} :
          IF Hosted(r) THEN AssignedTo(e, r) ELSE ItemType[r.item] \in Direct
    BY <1>7, <2>1 DEF Builds
  <2>4. \A r : AssignedTo(e, r) => AssignedTo(u, r)
    BY <1>1, <1>2 DEF AssignedTo
  <2> QED BY <1>1, <1>2, <2>1, <2>2, <2>3, <2>4 DEF Builds
<1> QED BY <1>1, <1>2, <1>4, <1>5, <1>6, <1>8, <1>9 DEF Agree

-----------------------------------------------------------------------------
(* The invariant *)

(* The handle and the rows are one project at one revision, and every id a *)
(* connection ever had is behind the sequence of the table and the next id *)
(* of the handle.                                                          *)
OneProject ==
  /\ Agree(engine, db)
  /\ engine.rev = db.rev /\ db.rev \in 1..MaxRevision
  /\ issued \subseteq 1..db.seq
  /\ \A i \in issued : i < engine.next

(* What a step of the server keeps.                                        *)
Kept == OneProject' /\ (Ids(db') \ Ids(db)) \cap issued = {}

(* A step that leaves the server alone keeps it.                           *)
LEMMA SameServer ==
  ASSUME OneProject, UNCHANGED <<engine, db, issued>>
  PROVE  Kept
  BY DEF OneProject, Kept, Agree, RowsOK, Rows, Engines

(* A project starts with its assignments and without connections.          *)
LEMMA OneProjectInit == Init => OneProject
<1> SUFFICES ASSUME Init PROVE OneProject
  OBVIOUS
<1>1. PICK start \in Starts :
        db = [rev |-> 1, seq |-> 0, name |-> 0, conns |-> {}, assigned |-> start,
              places |-> [i \in Items |-> 0]]
  BY DEF Init
<1>2. engine = EngineOf(db) /\ issued = {}
  BY DEF Init
<1>3. /\ start \in SUBSET Assignments
      /\ \A a, b \in start : a.id = b.id \/ a.item = b.item => a = b
  BY InventoryAssumption
<1> PICK d : d = db  OBVIOUS
<1> PICK e : e = engine  OBVIOUS
<1>4. /\ d.rev = 1 /\ d.seq = 0 /\ d.name = 0 /\ d.conns = {} /\ d.assigned = start
      /\ d.places = [i \in Items |-> 0] /\ d \in Rows
  BY <1>1, <1>3 DEF Rows
<1>5. Placed(d.places) = {}
  BY <1>4 DEF Placed
<1>6. /\ e.rev = 1 /\ e.next = 1 /\ e.name = 0 /\ e.conns = {} /\ e.assigned = start
      /\ e.placed = {} /\ e \in Engines
  BY <1>2, <1>3, <1>4, <1>5 DEF EngineOf, Engines
<1>7. RowsOK(d)
  BY <1>4 DEF RowsOK, UniqueIds, Apart, SidesStored
<1>8. Matches(e.conns, d.conns)
  BY <1>4, <1>6 DEF Matches, UniqueIds
<1>9. Builds(e)
  BY <1>3, <1>6 DEF Builds, Assignments
<1>10. Agree(e, d)
  BY <1>4, <1>5, <1>6, <1>7, <1>8, <1>9 DEF Agree
<1>11. 1 \in 1..MaxRevision
  BY InventoryAssumption
<1> QED BY <1>2, <1>4, <1>6, <1>10, <1>11 DEF OneProject

(* execute of command-service.mjs: a committed command.                    *)
LEMMA CommitKeeps ==
  ASSUME OneProject, NEW op \in Operations, NEW reply \in Dispatch(engine, op),
         NEW saved \in ApplyEnginePatch(db, reply), Commits(reply, saved)
  PROVE  Kept
<1>1. Agree(engine, db) /\ OperationOK(op)
  BY OperationsOK DEF OneProject
<1>2. PICK x \in Store(db, reply.forward) : saved = [x EXCEPT !.rev = reply.engine.rev]
  BY DEF ApplyEnginePatch, Store
<1> PICK e, d : e = engine /\ d = db  OBVIOUS
<1>3. Stores(e, d, reply, x) /\ e.rev # MaxRevision
  BY <1>1, <1>2, DispatchStores
<1> PICK u : u = reply.engine  OBVIOUS
<1>4. Agree(u, x) /\ u.rev = e.rev + 1 /\ u.next >= e.next /\ x.seq >= d.seq
  BY <1>3 DEF Stores
<1>5. u \in Engines /\ x \in Rows /\ e \in Engines /\ d \in Rows
  BY <1>1, <1>4 DEF Agree, RowsOK
<1>6. /\ saved \in Rows /\ saved.rev = u.rev /\ saved.seq = x.seq /\ saved.name = x.name
      /\ saved.conns = x.conns /\ saved.assigned = x.assigned /\ saved.places = x.places
  <2>1. u.rev \in Nat
    BY <1>5 DEF Engines
  <2> QED BY <1>2, <1>5, <2>1 DEF Rows
<1>7. Agree(u, saved)
  <2>1. RowsOK(saved)
    BY <1>4, <1>6 DEF Agree, RowsOK
  <2> QED BY <1>4, <1>6, <2>1 DEF Agree
<1>8. u.rev \in 1..MaxRevision
  <2>1. e.rev \in 1..MaxRevision /\ MaxRevision \in Nat
    BY InventoryAssumption DEF OneProject
  <2> QED BY <1>3, <1>4, <2>1
<1>9. \A i \in Ids(saved) : i \in 1..saved.seq /\ i < u.next
  <2> SUFFICES ASSUME NEW r \in saved.conns PROVE r.id \in 1..saved.seq /\ r.id < u.next
    BY DEF Ids
  <2>1. r.id \in Nat \ {0} /\ r.id <= saved.seq /\ saved.seq \in Nat
    BY <1>6, <1>7 DEF Agree, RowsOK, Rows, Cable
  <2>2. PICK c \in u.conns : c.id = r.id
    BY <1>7 DEF Agree, Matches
  <2>3. c.id < u.next
    BY <1>7 DEF Agree
  <2> QED BY <2>1, <2>2, <2>3
<1>10. \A i \in issued : i \in 1..saved.seq /\ i < u.next
  <2> TAKE i \in issued
  <2>1. i \in 1..d.seq /\ i < e.next
    BY DEF OneProject
  <2>2. d.seq \in Nat /\ x.seq \in Nat /\ e.next \in Nat /\ u.next \in Nat
    BY <1>5 DEF Rows, Engines
  <2> QED BY <1>4, <1>6, <2>1, <2>2
<1>11. engine' = u /\ db' = saved /\ issued' = issued \cup Ids(saved)
  BY DEF Commits
<1>12. issued' \subseteq 1..saved.seq /\ \A i \in issued' : i < u.next
  BY <1>9, <1>10, <1>11
<1>13. OneProject'
  BY <1>6, <1>7, <1>8, <1>11, <1>12 DEF OneProject
<1>14. (Ids(db') \ Ids(db)) \cap issued = {}
  <2> SUFFICES ASSUME NEW r \in x.conns, r.id \notin Ids(d), r.id \in issued PROVE FALSE
    BY <1>6, <1>11 DEF Ids
  <2>1. r.id >= e.next
    BY <1>3 DEF Stores
  <2>2. r.id < e.next /\ e.next \in Nat /\ r.id \in 1..d.seq
    BY <1>5 DEF OneProject, Engines
  <2> QED BY <2>1, <2>2
<1> QED BY <1>13, <1>14 DEF Kept

(* The handle is loaded from the store.                                    *)
LEMMA ReloadKeeps ==
  ASSUME OneProject, engine' = EngineOf(db), UNCHANGED <<db, issued>>
  PROVE  Kept
<1> PICK d, u : d = db /\ u = EngineOf(db)  OBVIOUS
<1>1. Agree(u, d)
  BY Reloaded DEF OneProject
<1>2. u.rev = d.rev /\ u.next = d.seq + 1
  BY DEF EngineOf
<1>3. d.seq \in Nat /\ issued \subseteq 1..d.seq /\ d.rev \in 1..MaxRevision
  BY DEF OneProject, Agree, RowsOK, Rows
<1>4. \A i \in issued : i < u.next
  BY <1>2, <1>3
<1>5. engine' = u /\ db' = d /\ issued' = issued
  OBVIOUS
<1>6. OneProject'
  BY <1>1, <1>2, <1>3, <1>4, <1>5 DEF OneProject
<1> QED BY <1>5, <1>6 DEF Kept

(* A refused command, and one that could not be saved.                     *)
LEMMA FailureKeeps ==
  ASSUME OneProject, NEW op, Refuses(op) \/ CannotSave(op)
  PROVE  Kept
<1>1. CASE Refuses(op)
  BY <1>1, SameServer DEF Refuses
<1>2. CASE CannotSave(op)
  BY <1>2, ReloadKeeps DEF CannotSave
<1> QED BY <1>1, <1>2

(* Another project takes an id of the shared sequence.                     *)
LEMMA OtherKeeps ==
  ASSUME OneProject, OtherProject
  PROVE  Kept
<1> PICK e, d, x : e = engine /\ d = db /\ x = [db EXCEPT !.seq = db.seq + 1]  OBVIOUS
<1>1. engine' = e /\ db' = x /\ issued' = issued
  BY DEF OtherProject
<1>2. Agree(e, d) /\ RowsOK(d) /\ d \in Rows /\ d.seq \in Nat
  BY DEF OneProject, Agree, RowsOK, Rows
<1> PICK n \in Nat : n = d.seq + 1
  BY <1>2
<1>3. /\ x \in Rows /\ x.rev = d.rev /\ x.seq = n /\ x.name = d.name
      /\ x.conns = d.conns /\ x.assigned = d.assigned /\ x.places = d.places
  BY <1>2 DEF Rows
<1>4. \A c \in x.conns : c.id <= x.seq
  <2>1. \A c \in d.conns : c.id \in Nat /\ c.id <= d.seq
    BY <1>2 DEF RowsOK, Rows, Cable
  <2> QED BY <1>2, <1>3, <2>1
<1>5. RowsOK(x)
  BY <1>2, <1>3, <1>4 DEF RowsOK
<1>6. Agree(e, x)
  BY <1>2, <1>3, <1>5 DEF Agree
<1>7. issued \subseteq 1..x.seq
  BY <1>2, <1>3 DEF OneProject
<1>8. OneProject'
  BY <1>1, <1>3, <1>6, <1>7 DEF OneProject
<1>9. Ids(db') = Ids(db)
  BY <1>1, <1>3 DEF Ids
<1> QED BY <1>8, <1>9 DEF Kept

(* Every step keeps the server's two copies one project.                   *)
LEMMA OneProjectNext == OneProject /\ [Next]_vars => Kept
<1> SUFFICES ASSUME OneProject, [Next]_vars PROVE Kept
  OBVIOUS
<1>1. ASSUME NEW op \in Operations, OwnCommand(op) PROVE Kept
  <2>1. CASE \E reply \in Dispatch(engine, op) : \E saved \in ApplyEnginePatch(db, reply) :
               Commits(reply, saved)
    BY <2>1, CommitKeeps
  <2>2. CASE Refuses(op) \/ CannotSave(op)
    BY <2>2, FailureKeeps
  <2> QED BY <1>1, <2>1, <2>2 DEF OwnCommand
<1>2. ASSUME NEW op \in Operations, ForeignCommand(op) PROVE Kept
  <2>1. CASE \E reply \in Dispatch(engine, op) : \E saved \in ApplyEnginePatch(db, reply) :
               Commits(reply, saved)
    BY <2>1, CommitKeeps
  <2>2. CASE CannotSave(op)
    BY <2>2, FailureKeeps
  <2> QED BY <1>2, <2>1, <2>2 DEF ForeignCommand
<1>3. CASE RebuildHandle
  BY <1>3, ReloadKeeps DEF RebuildHandle
<1>4. CASE Reload
  BY <1>4, SameServer DEF Reload
<1>5. CASE OtherProject
  BY <1>5, OtherKeeps
<1>6. CASE UNCHANGED vars
  BY <1>6, SameServer DEF vars
<1> QED BY <1>1, <1>2, <1>3, <1>4, <1>5, <1>6 DEF Next, Mutate, Follow

-----------------------------------------------------------------------------
(* Derived states *)

(* Every cable of t ends in ports that exist.                              *)
Exposed(t) == \A c \in t.conns : Exposes(t, c.from) /\ Exposes(t, c.to)

(* Every cable of t has the type and speed that its network gives it.      *)
Current(t) == \A c \in t.conns : c.type = Classify(t, c) /\ c.speed = Negotiated(t, c)

SameWire(c, d) == c.from = d.from /\ c.to = d.to

(* Two projects with the same wires.                                       *)
Alike(t, u) ==
  /\ Exposed(t) /\ Exposed(u) /\ Wired(t) /\ Wired(u)
  /\ \A c \in t.conns : \E d \in u.conns : SameWire(c, d)
  /\ \A d \in u.conns : \E c \in t.conns : SameWire(c, d)

(* Cables of one project with its rows end in ports that exist.            *)
LEMMA AgreeExposed ==
  ASSUME NEW e, NEW d, Agree(e, d)
  PROVE  Exposed(e) /\ Wired(e)
<1>1. Builds(e) /\ e.assigned \in SUBSET Assignments /\ e.conns \in SUBSET Cable
  BY DEF Agree, Engines
<1>2. ASSUME NEW c \in e.conns, NEW r \in {c.from, c.to} PROVE Exposes(e, r)
  <2>1. IF Hosted(r) THEN AssignedTo(e, r) ELSE ItemType[r.item] \in Direct
    BY <1>1 DEF Builds
  <2>2. AssignedTo(e, r) => ItemType[r.item] \in HostTypes
    BY <1>1 DEF AssignedTo, Assignments
  <2>3. EndsOK(c)
    BY DEF Agree
  <2>4. PortType[r.port] # "barrel"
    BY <2>3 DEF EndsOK
  <2> QED BY <2>1, <2>2, <2>4 DEF Exposes
<1> QED BY <1>1, <1>2 DEF Exposed, Wired, Cable

(* The type of a cable is decided by its ends.                             *)
LEMMA ClassifyAlike ==
  ASSUME NEW t, NEW u, Alike(t, u), NEW c \in t.conns, NEW d \in u.conns, SameWire(c, d)
  PROVE  Classify(t, c) = Classify(u, d)
<1>1. Exposes(t, c.from) /\ Exposes(t, c.to) /\ Exposes(u, d.from) /\ Exposes(u, d.to)
  BY DEF Alike, Exposed
<1> QED BY <1>1 DEF SameWire, Classify

(* The cables at an endpoint lead to the same endpoints.                   *)
LEMMA NeighboursAlike ==
  ASSUME NEW t, NEW u, Alike(t, u), NEW r
  PROVE  Neighbours(t, r) = Neighbours(u, r)
<1> DEFINE To(v) == {c.to : c \in {d \in v.conns : d.from = r /\ Classify(v, d) = "network"}}
           From(v) == {c.from : c \in {d \in v.conns : d.to = r /\ Classify(v, d) = "network"}}
<1>1. \A c \in t.conns : \E d \in u.conns : SameWire(c, d) /\ Classify(t, c) = Classify(u, d)
  BY ClassifyAlike DEF Alike
<1>2. \A d \in u.conns : \E c \in t.conns : SameWire(c, d) /\ Classify(t, c) = Classify(u, d)
  BY ClassifyAlike DEF Alike
<1>3. To(t) = To(u)
  BY <1>1, <1>2 DEF SameWire
<1>4. From(t) = From(u)
  BY <1>1, <1>2 DEF SameWire
<1> HIDE DEF To, From
<1>5. \A v : Neighbours(v, r) = To(v) \cup From(v)
          \cup IF ItemType[r.item] = "patchPanel" /\ PortType[r.port] \in Network
                 THEN {[r EXCEPT !.port = Face[@]]} ELSE {}
  BY DEF Neighbours, To, From
<1> QED BY <1>3, <1>4, <1>5

(* So the networks are the same.                                           *)
LEMMA SegmentAlike ==
  ASSUME NEW t, NEW u, Alike(t, u), NEW r
  PROVE  Segment(t, r) = Segment(u, r)
<1> PICK n : n = Cardinality(Ports)  OBVIOUS
<1>1. n \in Nat
  BY SegmentReach
<1>2. PICK f : IsReach(f, t, r, n) /\ Segment(t, r) = f[n]
  BY SegmentReach
<1>3. PICK g : IsReach(g, u, r, n) /\ Segment(u, r) = g[n]
  BY SegmentReach
<1> DEFINE N == {k \in Nat : k <= n => f[k] = g[k]}
<1>4. 0 \in N
  <2>1. f[0] = {r} /\ g[0] = {r}
    BY <1>1, <1>2, <1>3 DEF IsReach
  <2> QED BY <2>1
<1>5. ASSUME NEW k \in N PROVE k + 1 \in N
  <2> SUFFICES ASSUME k + 1 <= n PROVE f[k + 1] = g[k + 1]
    OBVIOUS
  <2>1. k \in Nat /\ f[k] = g[k] /\ k + 1 \in 0..n /\ k + 1 # 0 /\ (k + 1) - 1 = k
    BY <1>1
  <2>2. f[k + 1] = f[k] \cup UNION {Neighbours(t, s) : s \in f[k]}
    BY <1>2, <2>1 DEF IsReach
  <2>3. g[k + 1] = g[k] \cup UNION {Neighbours(u, s) : s \in g[k]}
    BY <1>3, <2>1 DEF IsReach
  <2>4. \A s : Neighbours(t, s) = Neighbours(u, s)
    BY NeighboursAlike
  <2>5. UNION {Neighbours(t, s) : s \in f[k]} = UNION {Neighbours(u, s) : s \in f[k]}
    BY <2>4, Zenon
  <2> QED BY <2>1, <2>2, <2>3, <2>5
<1>6. N \in SUBSET Nat
  OBVIOUS
<1>7. N = Nat
  <2> HIDE DEF N
  <2> QED BY <1>4, <1>5, <1>6, Induction
<1> QED BY <1>1, <1>2, <1>3, <1>7

(* Where a network gets to: ends of cables and faces of patch panel ports. *)
Reached(t) ==
  {s \in Refs : \/ ItemType[s.item] = "patchPanel"
                \/ \E c \in t.conns : s \in {c.from, c.to}}

(* A network from the end of a cable gets nowhere else.                    *)
LEMMA SegmentReached ==
  ASSUME NEW t, Wired(t), NEW r \in Reached(t)
  PROVE  Segment(t, r) \subseteq Reached(t)
<1> PICK n : n = Cardinality(Ports)  OBVIOUS
<1>1. n \in Nat
  BY SegmentReach
<1>2. PICK f : IsReach(f, t, r, n) /\ Segment(t, r) = f[n]
  BY SegmentReach
<1>3. ASSUME NEW s \in Reached(t) PROVE Neighbours(t, s) \subseteq Reached(t)
  <2>1. s \in Refs
    BY DEF Reached
  <2> PICK w : w = [s EXCEPT !.port = Face[@]]  OBVIOUS
  <2>2. w \in Refs /\ w.item = s.item
    BY <2>1, InventoryAssumption DEF Refs
  <2>3. ItemType[s.item] = "patchPanel" => w \in Reached(t)
    BY <2>2 DEF Reached
  <2>4. \A c \in t.conns : c.from \in Reached(t) /\ c.to \in Reached(t)
    BY DEF Reached, Wired
  <2> QED BY <2>3, <2>4 DEF Neighbours
<1> DEFINE N == {k \in Nat : k <= n => f[k] \subseteq Reached(t)}
<1>4. 0 \in N
  <2>1. f[0] = {r}
    BY <1>1, <1>2 DEF IsReach
  <2> QED BY <2>1
<1>5. ASSUME NEW k \in N PROVE k + 1 \in N
  <2> SUFFICES ASSUME k + 1 <= n PROVE f[k + 1] \subseteq Reached(t)
    OBVIOUS
  <2>1. k \in Nat /\ f[k] \subseteq Reached(t) /\ k + 1 \in 0..n /\ k + 1 # 0 /\ (k + 1) - 1 = k
    BY <1>1
  <2>2. f[k + 1] = f[k] \cup UNION {Neighbours(t, s) : s \in f[k]}
    BY <1>2, <2>1 DEF IsReach
  <2> QED BY <1>3, <2>1, <2>2
<1>6. N \in SUBSET Nat
  OBVIOUS
<1>7. N = Nat
  <2> HIDE DEF N
  <2> QED BY <1>4, <1>5, <1>6, Induction
<1> QED BY <1>1, <1>2, <1>7

(* And a cable has the same speed.                                         *)
LEMMA NegotiatedAlike ==
  ASSUME NEW t, NEW u, Alike(t, u), NEW c \in t.conns, NEW d \in u.conns, SameWire(c, d)
  PROVE  Negotiated(t, c) = Negotiated(u, d)
<1> PICK r : r = c.from  OBVIOUS
<1>1. c.from = r /\ d.from = r /\ r \in Reached(t)
  BY DEF SameWire, Reached, Alike, Wired
<1> PICK S : S = Segment(t, r)  OBVIOUS
<1>2. Segment(u, r) = S
  BY SegmentAlike
<1>3. S \subseteq Reached(t)
  BY <1>1, SegmentReached DEF Alike
<1>4. ASSUME NEW s \in S PROVE Advertises(t, s) <=> Advertises(u, s)
  <2>1. CASE ItemType[s.item] = "patchPanel"
    BY <2>1 DEF Advertises, HostTypes
  <2>2. CASE \E k \in t.conns : s \in {k.from, k.to}
    <3>1. Exposes(t, s) /\ Exposes(u, s)
      BY <2>2 DEF Alike, Exposed, SameWire
    <3> QED BY <3>1 DEF Advertises
  <2> QED BY <1>3, <2>1, <2>2 DEF Reached
<1>5. {s \in S : Advertises(t, s)} = {s \in S : Advertises(u, s)}
  BY <1>4
<1> PICK A : A = {s \in S : Advertises(t, s)}  OBVIOUS
<1>6. {s \in Segment(t, c.from) : Advertises(t, s)} = A /\ {s \in Segment(u, d.from) : Advertises(u, s)} = A
  BY <1>1, <1>2, <1>5
<1>7. Classify(t, c) = Classify(u, d)
  BY ClassifyAlike
<1> QED BY <1>6, <1>7, Zenon DEF Negotiated

(* A cable in two projects with the same derived states.                   *)
Twin(c, d) == SameWire(c, d) /\ c.type = d.type /\ c.speed = d.speed

(* A command that changes no wire and no derived state.                    *)
LEMMA TwinsCurrent ==
  ASSUME NEW t, NEW u, Exposed(t), Exposed(u), Wired(t), Wired(u), Current(t),
         \A c \in t.conns : \E d \in u.conns : Twin(c, d),
         \A d \in u.conns : \E c \in t.conns : Twin(c, d)
  PROVE  Current(u)
<1>1. Alike(t, u)
  BY DEF Alike, Twin
<1> SUFFICES ASSUME NEW d \in u.conns PROVE d.type = Classify(u, d) /\ d.speed = Negotiated(u, d)
  BY DEF Current
<1>2. PICK c \in t.conns : Twin(c, d)
  OBVIOUS
<1>3. Classify(t, c) = Classify(u, d) /\ Negotiated(t, c) = Negotiated(u, d)
  BY <1>1, <1>2, ClassifyAlike, NegotiatedAlike DEF Twin
<1> QED BY <1>2, <1>3 DEF Twin, Current

(* Projects with the same wires and the same derived states.               *)
Twins(t, u) ==
  /\ \A c \in t.conns : \E d \in u.conns : Twin(c, d)
  /\ \A d \in u.conns : \E c \in t.conns : Twin(c, d)

(* What commit_topology leaves alone.                                      *)
LEMMA CommittedCables ==
  ASSUME NEW e, NEW t \in Engines, NEW fw, NEW inv, NEW reply \in CommitTopology(e, t, fw, inv)
  PROVE  reply.engine.conns = t.conns /\ reply.engine.assigned = t.assigned
  BY DEF CommitTopology, Engines

(* Commands that change no cable.                                          *)
LEMMA SameCablesTwins ==
  ASSUME NEW t, NEW u, u.conns = t.conns
  PROVE  Twins(t, u)
  BY DEF Twins, Twin, SameWire

(* Commands that change the label or the route of cables.                  *)
LEMMA MappedTwins ==
  ASSUME NEW e, NEW g, \A c \in e.conns : Twin(c, g[c]),
         NEW t \in Engines, t.conns = Mapped(g, e.conns),
         NEW fw, NEW inv, NEW reply \in CommitTopology(e, t, fw, inv)
  PROVE  Twins(e, reply.engine)
<1>1. reply.engine.conns = Mapped(g, e.conns)
  BY CommittedCables
<1>2. /\ \A c \in e.conns : \E d \in Mapped(g, e.conns) : Twin(c, d)
      /\ \A d \in Mapped(g, e.conns) : \E c \in e.conns : Twin(c, d)
  BY DEF Mapped
<1> QED BY <1>1, <1>2 DEF Twins

(* An engine with other cables.                                            *)
LEMMA OtherCables ==
  ASSUME NEW e \in Engines, NEW g, \A c \in e.conns : g[c] \in Cable,
         NEW t, t = [e EXCEPT !.conns = Mapped(g, e.conns)]
  PROVE  t \in Engines /\ t.conns = Mapped(g, e.conns)
<1> PICK cs : cs = Mapped(g, e.conns)  OBVIOUS
<1>1. cs \in SUBSET Cable
  BY DEF Mapped
<1> QED BY <1>1 DEF Engines

(* One cable replaced by its twin.                                         *)
LEMMA ReplacedTwins ==
  ASSUME NEW e \in Engines, UniqueIds(e.conns), NEW c \in e.conns, NEW n \in Cable, Twin(c, n),
         NEW fw, NEW inv, NEW reply \in CommitTopology(e, WithConnection(e, c.id, n), fw, inv)
  PROVE  Twins(e, reply.engine)
<1> DEFINE k(b) == IF b.id = c.id THEN n ELSE b
           g == [b \in e.conns |-> k(b)]
<1>1. \A b \in e.conns : g[b] = k(b)
  OBVIOUS
<1>2. \A b \in e.conns : g[b] \in Cable /\ Twin(b, g[b])
  BY DEF UniqueIds, Engines, Twin, SameWire
<1>3. {k(b) : b \in e.conns} = Mapped(g, e.conns)
  <2> HIDE DEF g, k
  <2> QED BY <1>1 DEF Mapped
<1>4. WithConnection(e, c.id, n) = [e EXCEPT !.conns = Mapped(g, e.conns)]
  <2> HIDE DEF g
  <2> QED BY <1>3 DEF WithConnection
<1> HIDE DEF g, k
<1> PICK t : t = WithConnection(e, c.id, n)  OBVIOUS
<1>5. t \in Engines /\ t.conns = Mapped(g, e.conns)
  BY <1>2, <1>4, OtherCables
<1> QED BY <1>2, <1>5, MappedTwins

(* normalize_connection_derived_states leaves a project that is current.   *)
LEMMA NormalizedCurrent ==
  ASSUME NEW t \in Engines, NEW u, u.conns = NormalizeDerived(t).conns, u.assigned = t.assigned,
         Exposed(u), Wired(u)
  PROVE  Current(u)
<1> DEFINE F(c) == [c EXCEPT !.type = Classify(t, c), !.speed = Negotiated(t, c)]
<1>1. \A c \in t.conns : c \in Cable
  BY DEF Engines
<1>2. ASSUME NEW c \in t.conns
      PROVE  /\ SameWire(c, F(c)) /\ F(c).type = Classify(t, c) /\ F(c).speed = Negotiated(t, c)
  <2> PICK ty, sp : ty = Classify(t, c) /\ sp = Negotiated(t, c)  OBVIOUS
  <2>1. F(c) = [c EXCEPT !.type = ty, !.speed = sp]
    OBVIOUS
  <2> HIDE DEF F
  <2> QED BY <1>1, <2>1 DEF Cable, SameWire
<1>3. u.conns = {F(c) : c \in t.conns}
  BY DEF NormalizeDerived, Engines
<1> HIDE DEF F
<1>4. \A c \in t.conns : F(c) \in u.conns
  BY <1>3
<1>5. \A d \in u.conns : \E c \in t.conns : d = F(c)
  BY <1>3
<1>6. Wired(t)
  BY <1>1 DEF Wired, Cable
<1>7. \A r : Exposes(u, r) <=> Exposes(t, r)
  BY DEF Exposes, AssignedTo
<1>8. Exposed(t)
  BY <1>2, <1>4, <1>7 DEF Exposed, SameWire
<1>9. Alike(t, u)
  BY <1>2, <1>4, <1>5, <1>6, <1>8 DEF Alike
<1> SUFFICES ASSUME NEW d \in u.conns PROVE d.type = Classify(u, d) /\ d.speed = Negotiated(u, d)
  BY DEF Current
<1>10. PICK c \in t.conns : d = F(c)
  BY <1>5
<1>11. SameWire(c, d) /\ d.type = Classify(t, c) /\ d.speed = Negotiated(t, c)
  BY <1>2, <1>10
<1>12. Classify(t, c) = Classify(u, d) /\ Negotiated(t, c) = Negotiated(u, d)
  BY <1>9, <1>11, ClassifyAlike, NegotiatedAlike
<1> QED BY <1>11, <1>12

(* create_connection                                                       *)
LEMMA CreateCurrent ==
  ASSUME NEW e, NEW d, Agree(e, d), NEW op, op.from \in Refs, op.to \in Refs,
         NEW reply \in CreateConnection(e, op), Exposed(reply.engine), Wired(reply.engine)
  PROVE  Current(reply.engine)
<1> DEFINE c == NewConnection(e, op)
           u == [e EXCEPT !.conns = e.conns \cup {c}, !.next = c.id + 1]
           a == [kind |-> "add", conn |-> Only(NormalizeDerived(u), NormalizeDerived(u).next - 1)]
<1>1. PICK fw, inv : reply \in CommitTopology(e, NormalizeDerived(u), fw, inv)
  <2>1. ValidateConnection(e, op.from, op.to)
    BY DEF CreateConnection
  <2>2. PICK inv : reply \in CommitTopology(e, NormalizeDerived(u), Batch(a, e, NormalizeDerived(u)), inv)
    BY <2>1 DEF CreateConnection, Batch
  <2> QED BY <2>2
<1>2. e \in Engines /\ e.conns \in SUBSET Cable /\ \A b \in e.conns : b.id < e.next
  BY DEF Agree, Engines
<1>3. ConnectionId(e) \in Nat \ {0}
  <2>1. e.next \in Nat \ {0}
    BY <1>2 DEF Engines
  <2> QED BY <1>2, <2>1, NextId
<1>4. c \in Cable
  <2>1. NoRoute \in RouteValues
    BY DEF NoRoute, RouteValues
  <2> PICK w \in RouteValues, i \in Nat \ {0} : w = NoRoute /\ i = ConnectionId(e)
    BY <1>3, <2>1
  <2> QED BY DEF NewConnection, Cable
<1> HIDE DEF c
<1>5. u \in Engines
  <2> PICK cs, n : cs = e.conns \cup {c} /\ n = c.id + 1  OBVIOUS
  <2>1. cs \in SUBSET Cable /\ n \in Nat \ {0}
    BY <1>2, <1>4 DEF Cable
  <2>2. u = [e EXCEPT !.conns = cs, !.next = n]
    OBVIOUS
  <2> HIDE DEF u
  <2> QED BY <1>2, <2>1, <2>2 DEF Engines
<1> HIDE DEF u
<1> PICK t : t = NormalizeDerived(u)  OBVIOUS
<1>6. t \in Engines /\ t.assigned = u.assigned
  BY <1>5, Redrawn
<1>7. reply.engine.conns = t.conns /\ reply.engine.assigned = t.assigned
  BY <1>1, <1>6, CommittedCables
<1> QED BY <1>5, <1>6, <1>7, NormalizedCurrent

(* remove_connection                                                       *)
LEMMA RemoveCurrent ==
  ASSUME NEW e \in Engines, NEW op,
         NEW reply \in RemoveConnection(e, op), Exposed(reply.engine), Wired(reply.engine)
  PROVE  Current(reply.engine)
<1> DEFINE U(c) == [e EXCEPT !.conns = e.conns \ {c}]
<1>1. PICK c \in e.conns : \E fw, inv : reply \in CommitTopology(e, NormalizeDerived(U(c)), fw, inv)
  BY DEF RemoveConnection
<1> PICK fw, inv : reply \in CommitTopology(e, NormalizeDerived(U(c)), fw, inv)
  BY <1>1
<1> PICK cs : cs = e.conns \ {c}  OBVIOUS
<1> PICK u : u = U(c)  OBVIOUS
<1>2. u \in Engines
  <2>1. cs \in SUBSET Cable /\ u = [e EXCEPT !.conns = cs]
    BY DEF Engines
  <2> QED BY <2>1 DEF Engines
<1> PICK t : t = NormalizeDerived(u)  OBVIOUS
<1>3. t \in Engines /\ t.assigned = u.assigned
  BY <1>2, Redrawn
<1>4. reply.engine.conns = t.conns /\ reply.engine.assigned = t.assigned
  BY <1>3, CommittedCables
<1> QED BY <1>2, <1>3, <1>4, NormalizedCurrent

(* update_connection_label                                                 *)
LEMMA LabelTwins ==
  ASSUME NEW e, NEW d, Agree(e, d), NEW op, op.label \in Labels \cup {0},
         NEW reply \in UpdateConnectionLabel(e, op)
  PROVE  Twins(e, reply.engine)
<1>1. e \in Engines /\ UniqueIds(e.conns) /\ \A b \in e.conns : b \in Cable
  BY DEF Agree, Matches, Engines
<1> PICK p : p = [kind |-> "label", id |-> op.id, label |-> op.label]  OBVIOUS
<1>2. PICK c \in e.conns :
         /\ c.id = op.id
         /\ \E inv : reply \in CommitTopology(e, WithConnection(e, op.id, [c EXCEPT !.label = op.label]), <<p>>, inv)
  BY DEF UpdateConnectionLabel
<1> PICK inv : reply \in CommitTopology(e, WithConnection(e, op.id, [c EXCEPT !.label = op.label]), <<p>>, inv)
  BY <1>2
<1> PICK n : n = [c EXCEPT !.label = op.label]  OBVIOUS
<1>3. n \in Cable /\ Twin(c, n)
  BY <1>1 DEF Cable, Twin, SameWire
<1>4. reply \in CommitTopology(e, WithConnection(e, op.id, n), <<p>>, inv)
  OBVIOUS
<1> QED BY <1>1, <1>2, <1>3, <1>4, ReplacedTwins

(* update_connection_route                                                 *)
LEMMA RouteTwins ==
  ASSUME NEW e, NEW d, Agree(e, d), NEW op, op.route \in RouteValues,
         NEW reply \in UpdateConnectionRoute(e, op)
  PROVE  Twins(e, reply.engine)
<1>1. e \in Engines /\ UniqueIds(e.conns) /\ \A b \in e.conns : b \in Cable
  BY DEF Agree, Matches, Engines
<1> PICK p : p = RoutePatch(op.id, op.route)  OBVIOUS
<1>2. PICK c \in e.conns :
         /\ c.id = op.id
         /\ \E inv : reply \in CommitTopology(e, WithConnection(e, op.id, [c EXCEPT !.route = op.route]), <<p>>, inv)
  BY DEF UpdateConnectionRoute
<1> PICK inv : reply \in CommitTopology(e, WithConnection(e, op.id, [c EXCEPT !.route = op.route]), <<p>>, inv)
  BY <1>2
<1> PICK n : n = [c EXCEPT !.route = op.route]  OBVIOUS
<1>3. n \in Cable /\ Twin(c, n)
  BY <1>1 DEF Cable, Twin, SameWire
<1>4. reply \in CommitTopology(e, WithConnection(e, op.id, n), <<p>>, inv)
  OBVIOUS
<1> QED BY <1>1, <1>2, <1>3, <1>4, ReplacedTwins

(* The commands on several routes.                                         *)
LEMMA BatchTwins ==
  ASSUME NEW e \in Engines, NEW new, \A c \in e.conns : new[c] \in RouteValues,
         NEW reply \in RouteBatch(e, new)
  PROVE  Twins(e, reply.engine)
<1> DEFINE R(c) == [c EXCEPT !.route = new[c]]
           rr == [c \in e.conns |-> R(c)]
<1>1. \A c \in e.conns : rr[c] = R(c)
  OBVIOUS
<1>2. {R(c) : c \in e.conns} = Mapped(rr, e.conns)
  <2> HIDE DEF R, rr
  <2> QED BY <1>1 DEF Mapped
<1>3. PICK fw, inv : reply \in CommitTopology(e, [e EXCEPT !.conns = {R(c) : c \in e.conns}], fw, inv)
  BY DEF RouteBatch
<1>4. ASSUME NEW c \in e.conns PROVE rr[c] \in Cable /\ Twin(c, rr[c])
  <2>1. c \in Cable /\ rr[c] = R(c) /\ new[c] \in RouteValues
    BY DEF Engines
  <2> QED BY <2>1 DEF Cable, Twin, SameWire
<1> HIDE DEF R, rr
<1> PICK t : t = [e EXCEPT !.conns = {R(c) : c \in e.conns}]  OBVIOUS
<1>5. t = [e EXCEPT !.conns = Mapped(rr, e.conns)]
  BY <1>2
<1>6. t \in Engines /\ t.conns = Mapped(rr, e.conns)
  BY <1>4, <1>5, OtherCables
<1>7. reply \in CommitTopology(e, t, fw, inv)
  BY <1>3
<1> QED BY <1>4, <1>6, <1>7, MappedTwins

(* Other fields of an engine.                                              *)
LEMMA TwoFields ==
  ASSUME NEW e \in Engines, NEW v, NEW n
  PROVE  /\ [[e EXCEPT !.placed = v] EXCEPT !.rev = n].conns = e.conns
         /\ [[e EXCEPT !.assigned = v] EXCEPT !.rev = n].conns = e.conns
         /\ [[e EXCEPT !.name = v] EXCEPT !.rev = n].conns = e.conns
  BY DEF Engines

(* update_placements                                                       *)
LEMMA PlaceTwins ==
  ASSUME NEW e \in Engines, NEW op, NEW reply \in UpdatePlacements(e, op)
  PROVE  Twins(e, reply.engine)
<1> PICK p : p = PlacementPatch({ch \in op.changes : ch.prev # ch.next})  OBVIOUS
<1> PICK pl : pl = (e.placed \cup {u.item : u \in p.upsert}) \ p.remove  OBVIOUS
<1>1. PICK inv : reply \in CommitTopology(e, [e EXCEPT !.placed = pl], <<p>>, inv)
  BY DEF UpdatePlacements
<1>2. reply.engine = [[e EXCEPT !.placed = pl] EXCEPT !.rev = e.rev + 1]
  BY <1>1 DEF CommitTopology
<1>3. reply.engine.conns = e.conns
  BY <1>2, TwoFields
<1> QED BY <1>3, SameCablesTwins

(* update_assignments                                                      *)
LEMMA AssignTwins ==
  ASSUME NEW e \in Engines, NEW op, NEW reply \in UpdateAssignments(e, op)
  PROVE  Twins(e, reply.engine)
<1> PICK C : C = {ch \in op.changes : ch.prev # ch.next}  OBVIOUS
<1> PICK old, new : old = {ch.prev : ch \in C} /\ new = {ch.next : ch \in C}  OBVIOUS
<1> PICK S : S = (e.assigned \ old) \cup (new \ {NoAssignment})  OBVIOUS
<1>1. PICK inv : reply \in CommitTopology(e, [e EXCEPT !.assigned = S], <<AssignmentPatch(old, new)>>, inv)
  BY DEF UpdateAssignments
<1>2. reply.engine = [[e EXCEPT !.assigned = S] EXCEPT !.rev = e.rev + 1]
  BY <1>1 DEF CommitTopology
<1>3. reply.engine.conns = e.conns
  BY <1>2, TwoFields
<1> QED BY <1>3, SameCablesTwins

(* update_project_metadata                                                 *)
LEMMA NameTwins ==
  ASSUME NEW e \in Engines, NEW op, NEW reply \in UpdateProjectMetadata(e, op)
  PROVE  Twins(e, reply.engine)
<1>1. reply.engine = [[e EXCEPT !.name = op.name] EXCEPT !.rev = e.rev + 1]
  BY DEF UpdateProjectMetadata, CommitTopology
<1>2. reply.engine.conns = e.conns
  BY <1>1, TwoFields
<1> QED BY <1>2, SameCablesTwins

(* Engine::dispatch: after a command every cable has the type and speed of *)
(* its network, those the command did not name too.                        *)
LEMMA DispatchCurrent ==
  ASSUME NEW e, NEW d, Agree(e, d), Current(e), NEW op, OperationOK(op),
         NEW reply \in Dispatch(e, op), Exposed(reply.engine), Wired(reply.engine)
  PROVE  Current(reply.engine)
<1>1. e \in Engines /\ e.rev # MaxRevision /\ Exposed(e) /\ Wired(e)
  BY AgreeExposed DEF Dispatch, Agree
<1>2. CASE op.kind = "create"
  <2>1. reply \in CreateConnection(e, op)
    BY <1>1, <1>2 DEF Dispatch
  <2> QED BY <1>2, <2>1, CreateCurrent DEF OperationOK
<1>3. CASE op.kind = "remove"
  <2>1. reply \in RemoveConnection(e, op)
    BY <1>1, <1>3 DEF Dispatch
  <2> QED BY <1>1, <2>1, RemoveCurrent
<1>4. CASE op.kind \notin {"create", "remove"}
  <2> SUFFICES Twins(e, reply.engine)
    BY <1>1, TwinsCurrent DEF Twins
  <2>1. CASE op.kind = "label"
    <3>1. reply \in UpdateConnectionLabel(e, op)
      BY <1>1, <2>1 DEF Dispatch
    <3> QED BY <2>1, <3>1, LabelTwins DEF OperationOK
  <2>2. CASE op.kind = "route"
    <3>1. reply \in UpdateConnectionRoute(e, op)
      BY <1>1, <2>2 DEF Dispatch
    <3> QED BY <2>2, <3>1, RouteTwins DEF OperationOK
  <2>3. CASE op.kind \in {"sides", "canonical", "reset", "automatic"}
    <3>1. RouteReply(e, reply)
      <4>1. CASE op.kind = "sides"
        <5>1. reply \in ResolveConnectionRouteSides(e, op)
          BY <1>1, <4>1 DEF Dispatch
        <5> QED BY <1>1, <4>1, <5>1, SidesRoutes DEF OperationOK
      <4>2. CASE op.kind = "canonical"
        <5>1. reply \in CanonicalizeConnectionRoutes(e, op)
          BY <1>1, <4>2 DEF Dispatch
        <5> QED BY <1>1, <4>2, <5>1, CanonicalRoutes DEF OperationOK
      <4>3. CASE op.kind = "reset"
        <5>1. reply \in ResetAllConnectionBends(e, op)
          BY <1>1, <4>3 DEF Dispatch
        <5> QED BY <1>1, <5>1, ResetRoutes
      <4>4. CASE op.kind = "automatic"
        <5>1. reply \in RestoreAutomaticConnectionRoutes(e, op)
          BY <1>1, <4>4 DEF Dispatch
        <5> QED BY <1>1, <5>1, AutomaticRoutes
      <4> QED BY <2>3, <4>1, <4>2, <4>3, <4>4
    <3> QED BY <1>1, <3>1, BatchTwins DEF RouteReply
  <2>4. CASE op.kind = "name"
    <3>1. reply \in UpdateProjectMetadata(e, op)
      BY <1>1, <2>4 DEF Dispatch
    <3> QED BY <1>1, <3>1, NameTwins
  <2>5. CASE op.kind = "assign"
    <3>1. reply \in UpdateAssignments(e, op)
      BY <1>1, <2>5 DEF Dispatch
    <3> QED BY <1>1, <3>1, AssignTwins
  <2>6. CASE op.kind = "place"
    <3>1. reply \in UpdatePlacements(e, op)
      BY <1>1, <2>6 DEF Dispatch
    <3> QED BY <1>1, <3>1, PlaceTwins
  <2>7. CASE op.kind = "snap"
    <3>1. reply \in SnapPlacementsToGrid(e, op)
      BY <1>1, <2>7 DEF Dispatch
    <3>2. \E all : reply \in UpdatePlacements(e, all)
      BY <3>1 DEF SnapPlacementsToGrid
    <3> QED BY <1>1, <3>2, PlaceTwins
  <2> QED BY <1>4, <2>1, <2>2, <2>3, <2>4, <2>5, <2>6, <2>7 DEF OperationOK, Kinds
<1> QED BY <1>2, <1>3, <1>4

(* An engine loaded from the rows is as current as the one it replaces.    *)
LEMMA ReloadedCurrent ==
  ASSUME NEW e, NEW d, Agree(e, d), Current(e)
  PROVE  Current(EngineOf(d))
<1> PICK u : u = EngineOf(d)  OBVIOUS
<1>1. Agree(u, d) /\ u.conns = d.conns
  BY Reloaded DEF EngineOf
<1>2. Exposed(e) /\ Wired(e) /\ Exposed(u) /\ Wired(u)
  BY <1>1, AgreeExposed
<1>3. /\ \A c \in e.conns : \E r \in u.conns : Twin(c, r)
      /\ \A r \in u.conns : \E c \in e.conns : Twin(c, r)
  BY <1>1 DEF Agree, Matches, Copies, Twin, SameWire
<1> QED BY <1>2, <1>3, TwinsCurrent

(* The handle is current besides.                                          *)
OneCurrentProject == OneProject /\ Current(engine)

(* Every step keeps it so.                                                 *)
LEMMA CurrentNext == OneCurrentProject /\ [Next]_vars => OneCurrentProject'
<1> SUFFICES ASSUME OneCurrentProject, [Next]_vars PROVE OneCurrentProject'
  OBVIOUS
<1>1. OneProject /\ Current(engine) /\ Agree(engine, db) /\ OneProject'
  BY OneProjectNext DEF OneCurrentProject, OneProject, Kept
<1>2. ASSUME NEW op \in Operations, NEW reply \in Dispatch(engine, op), engine' = reply.engine
      PROVE  Current(engine')
  <2> PICK e, d, u : e = engine /\ d = db /\ u = reply.engine  OBVIOUS
  <2>1. OperationOK(op)
    BY <1>1, OperationsOK
  <2>2. \E x : Agree(u, x)
    BY <1>1, <1>2 DEF OneProject
  <2>3. Exposed(u) /\ Wired(u)
    BY <2>2, AgreeExposed
  <2>4. Agree(e, d) /\ Current(e) /\ reply \in Dispatch(e, op)
    BY <1>1
  <2>5. Current(u)
    BY <2>1, <2>3, <2>4, DispatchCurrent
  <2> QED BY <1>2, <2>5
<1>3. ASSUME engine' = EngineOf(db) PROVE Current(engine')
  BY <1>1, <1>3, ReloadedCurrent
<1>4. ASSUME engine' = engine PROVE Current(engine')
  BY <1>1, <1>4
<1>5. \/ engine' = EngineOf(db) \/ engine' = engine
      \/ \E op \in Operations : \E reply \in Dispatch(engine, op) : engine' = reply.engine
  BY DEF Next, Mutate, Follow, OwnCommand, ForeignCommand, Commits, Refuses, CannotSave,
         RebuildHandle, Reload, OtherProject, vars
<1>6. Current(engine')
  BY <1>2, <1>3, <1>4, <1>5
<1>7. Current(engine)'
  BY <1>6 DEF Current, Classify, Negotiated
<1> QED BY <1>1, <1>7 DEF OneCurrentProject

-----------------------------------------------------------------------------
(* The theorems *)

(* Two copies of a cable agree as SameCable says.                          *)
LEMMA CopiesAreSame ==
  ASSUME NEW c \in Cable, NEW r \in Cable, Copies(c, r)
  PROVE  SameCable(c, r)
<1> PICK w : w = NoRoute  OBVIOUS
<1>1. [c EXCEPT !.route = w] = [r EXCEPT !.route = w]
  BY DEF Cable, Copies
<1>2. <<c.route.bends, c.route.avoid>> = <<r.route.bends, r.route.avoid>>
  BY DEF Copies
<1> QED BY <1>1, <1>2 DEF SameCable

(* As many cables as rows.                                                 *)
LEMMA MatchingCardinality ==
  ASSUME NEW conns, NEW rows, Matches(conns, rows), IsFiniteSet(conns)
  PROVE  Cardinality(conns) = Cardinality(rows)
<1> DEFINE h == [c \in conns |-> CHOOSE r \in rows : r.id = c.id]
<1>1. \A c \in conns : h[c] \in rows /\ h[c].id = c.id
  <2> TAKE c \in conns
  <2>1. \E r \in rows : r.id = c.id
    BY DEF Matches
  <2>2. (CHOOSE r \in rows : r.id = c.id) \in rows /\ (CHOOSE r \in rows : r.id = c.id).id = c.id
    BY <2>1, Zenon
  <2> QED BY <2>2
<1>2. h \in [conns -> rows]
  BY <1>1
<1> HIDE DEF h
<1>3. \A a, b \in conns : h[a] = h[b] => a = b
  BY <1>1 DEF Matches, UniqueIds
<1>4. \A r \in rows : \E c \in conns : h[c] = r
  BY <1>1 DEF Matches, UniqueIds
<1>5. h \in Bijection(conns, rows)
  BY <1>2, <1>3, <1>4 DEF Bijection, Injection, IsInjective, Surjection
<1> QED BY <1>5, FS_Bijection DEF ExistsBijection

(* The engine handle of the server is the project in the tables, after any *)
(* commands, failed writes and reloads: the patch of a command says all of *)
(* what the command changed (execute, applyEnginePatch).                   *)
THEOREM HandleIsTheProject == Spec => []StoreMatchesEngine
<1>1. OneProject => StoreMatchesEngine
  <2> SUFFICES ASSUME OneProject PROVE StoreMatchesEngine
    OBVIOUS
  <2> PICK e, d, cs, rows : e = engine /\ d = db /\ cs = e.conns /\ rows = d.conns  OBVIOUS
  <2>1. /\ e \in Engines /\ d \in Rows /\ Matches(cs, rows) /\ cs \in SUBSET Cable
        /\ rows \in SUBSET Cable /\ \A c \in cs : c.id < e.next
    BY DEF OneProject, Agree, RowsOK, Engines, Rows
  <2>2. IsFiniteSet(cs)
    <3>1. e.next \in Nat /\ \A c \in cs : c.id \in Nat \ {0}
      BY <2>1 DEF Engines, Cable
    <3> PICK b \in Nat : b = e.next
      BY <3>1
    <3>2. \A c \in cs : c.id \in 1..b
      BY <2>1, <3>1
    <3>3. UniqueIds(cs)
      BY <2>1 DEF Matches
    <3> QED BY <3>2, <3>3, InIdOrderFacts
  <2>3. Cardinality(cs) = Cardinality(rows)
    BY <2>1, <2>2, MatchingCardinality
  <2>4. \A c \in cs : \E row \in rows : SameCable(c, row)
    BY <2>1, CopiesAreSame DEF Matches
  <2>5. ASSUME NEW c \in cs
        PROVE  LET row == Only(db, c.id).route IN
                 c.route.src \in {"none", "null", row.src} /\ c.route.tgt \in {"none", "null", row.tgt}
    <3>1. PICK r \in rows : r.id = c.id
      BY <2>1 DEF Matches
    <3>2. Only(db, c.id) \in rows /\ Only(db, c.id).id = c.id
      BY <3>1, Zenon DEF Only
    <3>3. Copies(c, Only(db, c.id))
      BY <2>1, <3>2 DEF Matches
    <3> QED BY <3>3 DEF Copies
  <2>6. <<engine.rev, engine.name, engine.assigned, engine.placed>> =
          <<db.rev, db.name, db.assigned, Placed(db.places)>>
    BY DEF OneProject, Agree
  <2>7. SameCables(engine.conns, db.conns)
    BY <2>3, <2>4 DEF SameCables
  <2> QED BY <2>5, <2>6, <2>7 DEF StoreMatchesEngine
<1>2. OneProject /\ [Next]_vars => OneProject'
  BY OneProjectNext DEF Kept
<1> QED BY <1>1, <1>2, OneProjectInit, PTL DEF Spec

(* A stored cable always ends in two ports that exist for the stored       *)
(* assignments and go together, and no port has two cables                 *)
(* (validate_connection, TopologySnapshot::validate, insertConnection).    *)
THEOREM CablesAreSound == Spec => []CablesSound
<1>1. OneProject => CablesSound
  <2> SUFFICES ASSUME OneProject PROVE CablesSound
    OBVIOUS
  <2> PICK d, t : d = db /\ t = EngineOf(db)  OBVIOUS
  <2>1. Agree(t, d)
    BY Reloaded DEF OneProject
  <2>2. t.conns = d.conns
    BY DEF EngineOf
  <2> SUFFICES ASSUME NEW c \in d.conns
               PROVE  /\ Exposes(t, c.from) /\ Exposes(t, c.to) /\ c.from.item # c.to.item
                      /\ \/ <<Power(c.from), Power(c.to)>> = <<"output", "input">>
                         \/ Power(c.from) = "none" /\ Power(c.to) = "none" /\ PortsCompatible(c.from, c.to)
                      /\ \A b \in d.conns \ {c} : {c.from.port, c.to.port} \cap {b.from.port, b.to.port} = {}
    BY DEF CablesSound
  <2>3. EndsOK(c)
    BY <2>1, <2>2 DEF Agree
  <2>4. Exposes(t, c.from) /\ Exposes(t, c.to)
    BY <2>1, <2>2, AgreeExposed DEF Exposed
  <2>5. \A b \in d.conns \ {c} : {c.from.port, c.to.port} \cap {b.from.port, b.to.port} = {}
    BY <2>1 DEF Agree, RowsOK, Apart
  <2> QED BY <2>3, <2>4, <2>5 DEF EndsOK
<1>2. OneProject /\ [Next]_vars => OneProject'
  BY OneProjectNext DEF Kept
<1> QED BY <1>1, <1>2, OneProjectInit, PTL DEF Spec

(* The type and the speed every stored connection has are those of its     *)
(* network now, whatever was plugged, unplugged or moved since             *)
(* (connection_derived_changes, normalize_connection_derived_states).      *)
THEOREM DerivedIsCurrent == Spec => []DerivedCurrent
<1>1. Init => OneCurrentProject
  <2>1. Init => engine.conns = {}
    BY DEF Init, EngineOf
  <2> QED BY <2>1, OneProjectInit DEF OneCurrentProject, Current
<1>2. OneCurrentProject => DerivedCurrent
  <2> SUFFICES ASSUME OneCurrentProject PROVE DerivedCurrent
    OBVIOUS
  <2> PICK t : t = EngineOf(db)  OBVIOUS
  <2>1. Current(t) /\ t.conns = db.conns /\ t \in Engines
    BY Reloaded, ReloadedCurrent DEF OneCurrentProject, OneProject, EngineOf, Agree
  <2> DEFINE F(c) == [c EXCEPT !.type = Classify(t, c), !.speed = Negotiated(t, c)]
  <2>2. ASSUME NEW c \in t.conns PROVE F(c) = c
    <3>1. c \in Cable /\ c.type = Classify(t, c) /\ c.speed = Negotiated(t, c)
      BY <2>1 DEF Current, Engines
    <3> PICK ty, sp : ty = Classify(t, c) /\ sp = Negotiated(t, c)  OBVIOUS
    <3> QED BY <3>1 DEF Cable
  <2>3. {F(c) : c \in t.conns} = t.conns
    <3> HIDE DEF F
    <3> QED BY <2>2
  <2>4. NormalizeDerived(t).conns = {F(c) : c \in t.conns}
    BY <2>1 DEF NormalizeDerived, Engines
  <2> QED BY <2>1, <2>3, <2>4 DEF DerivedCurrent
<1> QED BY <1>1, <1>2, CurrentNext, PTL DEF Spec

(* A new connection never gets an id that a connection of the project had  *)
(* before, after a removal, a reload or a failed write (create_connection, *)
(* insertConnection).                                                      *)
THEOREM IdsAreNew == Spec => IdsNeverReused
<1>1. OneProject /\ [Next]_vars => [(Ids(db') \ Ids(db)) \cap issued = {}]_vars
  BY OneProjectNext DEF Kept
<1>2. OneProject /\ [Next]_vars => OneProject'
  BY OneProjectNext DEF Kept
<1> QED BY <1>1, <1>2, OneProjectInit, PTL DEF Spec, IdsNeverReused

=============================================================================
