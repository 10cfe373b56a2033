--------------------------- MODULE StorageLemmas ----------------------------
(***************************************************************************)
(* The operators of Storage keep the types of the blocks and their         *)
(* agreement with the backend, and the invariant that follows from it;     *)
(* what they do to the two counts of a block, and to the sets of blocks    *)
(* that these count.                                                       *)
(***************************************************************************)
EXTENDS StorageInvariants, TLAPS

\* The empty set is the finite set of size zero.
LEMMA CountEmpty ==
  ASSUME Counting
  PROVE  /\ IsFiniteSet({}) /\ Cardinality({}) = 0
         /\ \A S : IsFiniteSet(S) => (Cardinality(S) = 0 <=> S = {})
BY Zenon DEF Counting

\* The size of a finite set is a natural number.
LEMMA CountType ==
  ASSUME Counting, NEW S, IsFiniteSet(S)
  PROVE  Cardinality(S) \in Nat
BY Zenon DEF Counting

\* A set of one element has size one.
LEMMA CountSingleton ==
  ASSUME Counting, NEW x
  PROVE  IsFiniteSet({x}) /\ Cardinality({x}) = 1
BY Zenon DEF Counting

\* Intervals are finite.
LEMMA CountInterval ==
  ASSUME Counting, NEW a \in Int, NEW b \in Int
  PROVE  IsFiniteSet(a..b)
BY Zenon DEF Counting

\* So are the subsets of a finite set.
LEMMA CountSubset ==
  ASSUME Counting, NEW S, IsFiniteSet(S), NEW T \in SUBSET S
  PROVE  IsFiniteSet(T)
BY Zenon DEF Counting

\* The size of a set with one element more.
LEMMA CountAdd ==
  ASSUME Counting, NEW S, NEW x, IsFiniteSet(S)
  PROVE  /\ IsFiniteSet(S \cup {x})
         /\ Cardinality(S \cup {x}) = IF x \in S THEN Cardinality(S) ELSE Cardinality(S) + 1
BY Zenon DEF Counting

\* The size of a set with one element less.
LEMMA CountRemove ==
  ASSUME Counting, NEW S, NEW x, IsFiniteSet(S)
  PROVE  /\ IsFiniteSet(S \ {x})
         /\ Cardinality(S \ {x}) = IF x \in S THEN Cardinality(S) - 1 ELSE Cardinality(S)
BY Zenon DEF Counting

\* The size of a union.
LEMMA CountUnion ==
  ASSUME Counting, NEW S, NEW T, IsFiniteSet(S), IsFiniteSet(T)
  PROVE  Cardinality(S \cup T) = Cardinality(S) + Cardinality(T) - Cardinality(S \cap T)
<1>1. \A A, B : IsFiniteSet(A) /\ IsFiniteSet(B) =>
        Cardinality(A \cup B) = Cardinality(A) + Cardinality(B) - Cardinality(A \cap B)
  BY Zenon DEF Counting
<1> QED
  BY Zenon, <1>1

\* A bijection keeps the size.
LEMMA CountBijection ==
  ASSUME Counting, NEW S, NEW T, NEW f \in [S -> T], IsFiniteSet(S),
         \A x, y \in S : f[x] = f[y] => x = y,
         \A z \in T : \E x \in S : f[x] = z
  PROVE  Cardinality(T) = Cardinality(S)
<1>1. \A A, B : \A g \in [A -> B] :
        IsFiniteSet(A) /\ (\A x, y \in A : g[x] = g[y] => x = y) /\ (\A z \in B : \E x \in A : g[x] = z)
        => Cardinality(B) = Cardinality(A)
  BY Zenon DEF Counting
<1> QED
  BY Zenon, <1>1

\* Unions of finite sets are finite.
LEMMA CountFinite ==
  ASSUME Counting, NEW S, NEW T, IsFiniteSet(S), IsFiniteSet(T)
  PROVE  IsFiniteSet(S \cup T)
<1>1. \A A, B : IsFiniteSet(A) /\ IsFiniteSet(B) => IsFiniteSet(A \cup B)
  BY Zenon DEF Counting
<1> QED
  BY Zenon, <1>1

\* The references of one block to another are numbered.
LEMMA CountNumbers ==
  ASSUME Counting, NEW x, NEW n \in Nat
  PROVE  IsFiniteSet({x} \X (1..n)) /\ Cardinality({x} \X (1..n)) = n
<1>1. \A y : \A k \in Nat : IsFiniteSet({y} \X (1..k)) /\ Cardinality({y} \X (1..k)) = k
  BY Zenon DEF Counting
<1> QED
  BY Zenon, <1>1

\* How often a block refers to another.
LEMMA TimesType ==
  ASSUME NEW p \in Ids, NEW i \in Ids
  PROVE  Times[p][i] \in Nat /\ Times[p][i] \in Int /\ -Times[p][i] \in Int
         /\ (i \in Deps[p] <=> Times[p][i] # 0)
<1>1. Times[p][i] \in Nat
  BY Zenon, StorageAssumption
<1>2. i \in Deps[p] <=> Times[p][i] # 0
  BY Zenon DEF Deps
<1> QED
  BY <1>1, <1>2

\* The references to a block are finitely many.
LEMMA ReferencesFinite ==
  ASSUME Counting, NEW P \in SUBSET Ids, NEW i \in Ids
  PROVE  /\ IsFiniteSet(References(P, i))
         /\ Cardinality(References(P, i)) \in Nat /\ Cardinality(References(P, i)) \in Int
<1> DEFINE of(p) == {p} \X (1..Times[p][i])
           f == [p \in P |-> of(p)]
           T == {of(p) : p \in P}
<1>1. IsFiniteSet(P)
  BY Zenon, StorageAssumption, CountSubset
<1>2. \A p \in P : IsFiniteSet(of(p))
  BY Zenon, TimesType, CountNumbers
<1>3. References(P, i) = UNION T
  BY Zenon DEF References
<1>4. \A t \in T : IsFiniteSet(t)
  BY Zenon, <1>2
<1> HIDE DEF of
<1>5. f \in [P -> T] /\ \A z \in T : \E x \in P : f[x] = z
  BY Zenon
<1> HIDE DEF f, T
<1>6. IsFiniteSet(T)
  <2>1. \A A, B : \A g \in [A -> B] :
          IsFiniteSet(A) /\ (\A z \in B : \E x \in A : g[x] = z) => IsFiniteSet(B)
    BY Zenon DEF Counting
  <2> QED
    BY Zenon, <1>1, <1>5, <2>1
<1>7. IsFiniteSet(UNION T)
  <2>1. \A A : IsFiniteSet(A) /\ (\A B \in A : IsFiniteSet(B)) => IsFiniteSet(UNION A)
    BY Zenon DEF Counting
  <2> QED
    BY Zenon, <1>4, <1>6, <2>1
<1>8. Cardinality(References(P, i)) \in Nat
  BY Zenon, <1>3, <1>7, CountType
<1> QED
  BY <1>3, <1>7, <1>8

\* The same amount for each block of a set.
LEMMA EachAmounts ==
  ASSUME NEW D \in SUBSET Ids, NEW c \in Int
  PROVE  /\ Amounts(Each(D, c)) /\ DOMAIN Each(D, c) = D
         /\ \A i \in D : Each(D, c)[i] = c
BY Zenon DEF Amounts, Each

LEMMA DepsType ==
  ASSUME NEW b \in Ids
  PROVE  /\ Deps[b] \subseteq Ids
         /\ b \notin Deps[b]
         /\ \A d \in Deps[b] : d \in Ids /\ b \notin Deps[d]
<1>1. Deps[b] \subseteq Ids
  BY Zenon DEF Deps
<1>2. b \notin Deps[b]
  <2>1. {b} \in SUBSET Ids /\ {b} # {}
    BY Zenon
  <2> QED
    BY Zenon, <2>1, AcyclicAssumption
<1>3. ASSUME NEW d \in Deps[b]
      PROVE  d \in Ids /\ b \notin Deps[d]
  <2>1. {b, d} \in SUBSET Ids /\ {b, d} # {}
    BY Zenon, <1>1
  <2>2. d \in Ids /\ d \in Deps[b]
    BY Zenon, <1>1
  <2> QED
    BY Zenon, <2>1, <2>2, AcyclicAssumption
<1> QED
  BY Zenon, <1>1, <1>2, <1>3

\* addStorageRefCount touches nothing the backend knows of.
LEMMA OneStorageRef ==
  ASSUME NEW b \in MidBlock, NEW v \in Int
  PROVE  LET c == addStorageRefCount(b, v) IN
         /\ c \in MidBlock
         /\ c.cached = b.cached /\ c.Backend = b.Backend /\ c.dirty = b.dirty
         /\ c.RefCount = b.RefCount /\ c.Status = b.Status /\ c.Stored = b.Stored
         /\ c.storageRefCount = b.storageRefCount + v
         /\ c.externalStorageRefCount = b.externalStorageRefCount
<1> DEFINE n == b.storageRefCount + v
           r == b.dirtyRef \/ n = 0 \/ (b.RefCount = 0) # b.haveStorageRefs
<1>1. addStorageRefCount(b, v) = [b EXCEPT !.storageRefCount = n, !.dirtyRef = r]
  BY Zenon DEF addStorageRefCount
<1>2. b \in IntBlock /\ (b.dirty \/ b.RefCount \in Nat) /\ n \in Int
  BY DEF MidBlock, IntBlock
<1>3. r \in BOOLEAN
  BY Zenon
<1> HIDE DEF n, r
<1> QED
  BY Zenon, <1>1, <1>2, <1>3 DEF MidBlock, IntBlock, n

LEMMA OneMarked ==
  ASSUME NEW b \in MidBlock
  PROVE  LET n == markDirty(b) IN
         /\ n \in MidBlock
         /\ n.dirty /\ n.cached = b.cached /\ n.Backend = b.Backend
         /\ n.Status = b.Status /\ n.RefCount = b.RefCount
         /\ n.Stored = IF b.dirty THEN b.Stored ELSE MetaOf(b)
         /\ n.storageRefCount = b.storageRefCount + (IF b.dirty THEN 0 ELSE 1)
         /\ n.externalStorageRefCount = b.externalStorageRefCount
<1>1. CASE b.dirty
  BY <1>1 DEF markDirty, MidBlock, IntBlock
<1>2. CASE ~b.dirty
  <2> DEFINE a == addStorageRefCount(b, 1)
             s == MetaOf(b)
  <2>1. /\ a \in IntBlock /\ a.cached = b.cached /\ a.Backend = b.Backend
        /\ a.RefCount = b.RefCount /\ a.Status = b.Status
        /\ a.storageRefCount = b.storageRefCount + 1
        /\ a.externalStorageRefCount = b.externalStorageRefCount
    BY OneStorageRef DEF MidBlock
  <2>2. s \in Meta
    BY Zenon, <1>2 DEF MetaOf, Meta, MidBlock, IntBlock
  <2>3. markDirty(b) = [a EXCEPT !.dirty = TRUE, !.Stored = s]
    BY Zenon, <1>2 DEF markDirty
  <2> HIDE DEF a, s
  <2>4. /\ markDirty(b) \in IntBlock
        /\ markDirty(b).dirty /\ markDirty(b).Stored = s
        /\ markDirty(b).cached = a.cached /\ markDirty(b).Backend = a.Backend
        /\ markDirty(b).RefCount = a.RefCount /\ markDirty(b).Status = a.Status
        /\ markDirty(b).storageRefCount = a.storageRefCount
        /\ markDirty(b).externalStorageRefCount = a.externalStorageRefCount
    BY Zenon, <2>1, <2>2, <2>3 DEF IntBlock
  <2> QED
    BY Zenon, <1>2, <2>1, <2>4 DEF MidBlock, s
<1> QED
  BY Zenon, <1>1, <1>2 DEF MidBlock, IntBlock

LEMMA OneRef ==
  ASSUME NEW b \in MidBlock, NEW c \in Int
  PROVE  LET n == countRef(b, c) IN
         /\ n \in MidBlock
         /\ n.dirty /\ n.cached = b.cached /\ n.Backend = b.Backend
         /\ n.Status = b.Status
         /\ n.Stored = IF b.dirty THEN b.Stored ELSE MetaOf(b)
         /\ n.RefCount = b.RefCount + c
         /\ n.storageRefCount = b.storageRefCount + (IF b.dirty THEN 0 ELSE 1)
         /\ n.externalStorageRefCount = b.externalStorageRefCount
<1> DEFINE k == markDirty(b)
<1>1. /\ k \in IntBlock /\ k.dirty /\ k.cached = b.cached /\ k.Backend = b.Backend
      /\ k.Status = b.Status /\ k.RefCount = b.RefCount
      /\ k.Stored = IF b.dirty THEN b.Stored ELSE MetaOf(b)
      /\ k.storageRefCount = b.storageRefCount + (IF b.dirty THEN 0 ELSE 1)
      /\ k.externalStorageRefCount = b.externalStorageRefCount
  BY Zenon, OneMarked DEF MidBlock
<1>2. countRef(b, c) = [k EXCEPT !.RefCount = k.RefCount + c]
  BY Zenon DEF countRef
<1> HIDE DEF k
<1> QED
  BY <1>1, <1>2 DEF MidBlock, IntBlock

LEMMA NoBlockType ==
  /\ NoBlock \in Block /\ NoBlock \in MidBlock
  /\ NoBlock.cached = FALSE /\ NoBlock.dirty = FALSE
BY DEF NoBlock, Block, MidBlock, IntBlock, Absent, Meta, Status

LEMMA BackendBlock ==
  ASSUME disk \in [Ids -> Meta], NEW i \in Ids
  PROVE  /\ FromBackend(i) \in MidBlock
         /\ FromBackend(i).cached /\ FromBackend(i).Backend
         /\ ~FromBackend(i).dirty
         /\ FromBackend(i).RefCount = disk[i].RefCount
         /\ FromBackend(i).Status = disk[i].Status
<1> DEFINE k == disk[i].RefCount
           t == disk[i].Status
<1>1. k \in Nat /\ k \in Int /\ t \in Status
  BY DEF Meta
<1>2. NoBlock \in IntBlock /\ NoBlock.dirty = FALSE
  BY Zenon, NoBlockType DEF MidBlock
<1>3. FromBackend(i) =
        [NoBlock EXCEPT !.cached = TRUE, !.RefCount = k, !.Status = t,
                        !.Backend = TRUE, !.haveDiskRefs = TRUE]
  BY Zenon DEF FromBackend
<1> HIDE DEF k, t
<1>4. FromBackend(i) \in IntBlock
  BY Zenon, <1>1, <1>2, <1>3 DEF IntBlock
<1>5. /\ FromBackend(i).cached /\ FromBackend(i).Backend
      /\ FromBackend(i).dirty = FALSE
      /\ FromBackend(i).RefCount = k /\ FromBackend(i).Status = t
  BY Zenon, <1>1, <1>2, <1>3 DEF IntBlock
<1> QED
  BY Zenon, <1>1, <1>4, <1>5 DEF MidBlock, k, t

\* getBlockById
LEMMA GetKeeps ==
  ASSUME disk \in [Ids -> Meta], NEW m \in Blocks, NEW D \in SUBSET Ids, NEW S \in SUBSET Ids
  PROVE  LET n == getBlockById(m, D) IN
         /\ n \in Blocks
         /\ \A i \in Ids : i \notin D \/ m[i].cached => n[i] = m[i]
         /\ \A i \in Ids : m[i].cached \/ i \in D => n[i].cached
         /\ Agree(m, S) => Agree(n, S)
<1> DEFINE n == getBlockById(m, D)
<1>1. \A i \in Ids : n[i] = IF i \in D /\ ~m[i].cached THEN FromBackend(i) ELSE m[i]
  BY Zenon DEF getBlockById
<1>2. n \in Blocks
  BY Zenon, BackendBlock DEF getBlockById, Blocks
<1>3. ASSUME Agree(m, S), NEW i \in S
      PROVE  /\ mem[i].cached => n[i].cached
             /\ n[i].cached /\ Known(i) => Agrees(n[i], disk[i])
  <2>1. CASE i \in D /\ ~m[i].cached
    <3>1. ~mem[i].cached
      BY Zenon, <1>3, <2>1 DEF Agree
    <3>2. n[i] = FromBackend(i)
      BY Zenon, <1>1, <2>1
    <3> QED
      BY Zenon, <3>1, <3>2, BackendBlock DEF Known, OnDisk, Agrees
  <2>2. CASE ~(i \in D /\ ~m[i].cached)
    BY Zenon, <1>1, <1>3, <2>2 DEF Agree
  <2> QED
    BY Zenon, <2>1, <2>2
<1> QED
  BY Zenon, <1>1, <1>2, <1>3, BackendBlock DEF Agree

\* addStorageRefCount on several blocks
LEMMA StorageAmountsKeep ==
  ASSUME NEW m \in Blocks, NEW v, Amounts(v), NEW S \in SUBSET Ids
  PROVE  LET n == addStorageRefCounts(m, v) IN
         /\ n \in Blocks
         /\ \A i \in Ids : i \notin DOMAIN v => n[i] = m[i]
         /\ Agree(m, S) => Agree(n, S)
<1> DEFINE n == addStorageRefCounts(m, v)
<1>1. \A i \in Ids : n[i] = IF i \in DOMAIN v THEN addStorageRefCount(m[i], v[i]) ELSE m[i]
  BY Zenon DEF addStorageRefCounts
<1>2. \A i \in Ids : m[i] \in MidBlock /\ (i \in DOMAIN v => v[i] \in Int)
  BY Zenon DEF Blocks, Amounts
<1>3. n \in Blocks
  BY Zenon, <1>2, OneStorageRef DEF addStorageRefCounts, Blocks
<1>4. ASSUME Agree(m, S), NEW i \in S
      PROVE  /\ mem[i].cached => n[i].cached
             /\ n[i].cached /\ Known(i) => Agrees(n[i], disk[i])
  BY <1>1, <1>2, <1>4, OneStorageRef DEF Agree, Agrees
<1> QED
  BY Zenon, <1>1, <1>3, <1>4 DEF Agree

LEMMA StorageRefsKeep ==
  ASSUME NEW m \in Blocks, NEW D \in SUBSET Ids, NEW v \in Int, NEW S \in SUBSET Ids
  PROVE  LET n == addStorageRefCounts(m, Each(D, v)) IN
         /\ n \in Blocks
         /\ \A i \in Ids : i \notin D => n[i] = m[i]
         /\ Agree(m, S) => Agree(n, S)
<1>1. Amounts(Each(D, v)) /\ DOMAIN Each(D, v) = D
  BY Zenon, EachAmounts
<1> QED
  BY Zenon, <1>1, StorageAmountsKeep

\* What addRefCount does to the block itself: whatever the backend has stays
\* in Stored.
LEMMA OneRefAgrees ==
  ASSUME NEW b \in MidBlock, NEW c \in Int, NEW r \in BOOLEAN
  PROVE  LET k == [countRef(b, c) EXCEPT !.haveStorageRefs = r] IN
         /\ k \in MidBlock
         /\ k.cached = b.cached
         /\ k.RefCount = b.RefCount + c
         /\ k.storageRefCount = b.storageRefCount + (IF b.dirty THEN 0 ELSE 1)
         /\ k.externalStorageRefCount = b.externalStorageRefCount
         /\ \A d \in Meta : Agrees(b, d) => Agrees(k, d)
<1> DEFINE a == countRef(b, c)
           k == [a EXCEPT !.haveStorageRefs = r]
<1>1. /\ a \in IntBlock /\ a.dirty /\ a.cached = b.cached /\ a.Backend = b.Backend
      /\ a.Stored = IF b.dirty THEN b.Stored ELSE MetaOf(b)
      /\ a.RefCount = b.RefCount + c
      /\ a.storageRefCount = b.storageRefCount + (IF b.dirty THEN 0 ELSE 1)
      /\ a.externalStorageRefCount = b.externalStorageRefCount
  BY OneRef DEF MidBlock
<1> HIDE DEF a
<1>2. /\ k \in IntBlock
      /\ k.dirty = a.dirty /\ k.cached = a.cached /\ k.Backend = a.Backend
      /\ k.Stored = a.Stored /\ k.RefCount = a.RefCount
      /\ k.storageRefCount = a.storageRefCount
      /\ k.externalStorageRefCount = a.externalStorageRefCount
  BY Zenon, <1>1 DEF IntBlock
<1> HIDE DEF k
<1>3. \A d \in Meta : Agrees(b, d) => Agrees(k, d)
  BY <1>1, <1>2 DEF Agrees, MetaOf
<1> QED
  BY Zenon, <1>1, <1>2, <1>3 DEF MidBlock, a, k

\* addRefCount on several blocks
LEMMA AmountsKeep ==
  ASSUME Counting, disk \in [Ids -> Meta], NEW m \in Blocks, NEW v, Amounts(v),
         NEW S \in SUBSET Ids
  PROVE  LET n == addRefCounts(m, v) IN
         /\ n \in Blocks
         /\ \A i \in Ids : i \notin DOMAIN v /\ (\A d \in DOMAIN v : i \notin Deps[d]) => n[i] = m[i]
         /\ Agree(m, S) => Agree(n, S)
<1> DEFINE D == DOMAIN v
           reaches0(i) == m[i].RefCount + v[i] = 0
           flag(i) == countRef(m[i], v[i]).haveStorageRefs \/ reaches0(i)
           one(i) == [countRef(m[i], v[i]) EXCEPT !.haveStorageRefs = flag(i)]
           n == [i \in Ids |-> IF i \notin D THEN m[i] ELSE one(i)]
           takers == {i \in D : /\ reaches0(i) /\ ~m[i].haveStorageRefs
                                /\ HasDeps(m[i].Status)}
           taken == UNION {Deps[i] : i \in takers}
           times(i) == Cardinality(References(takers, i))
           loaded == getBlockById(n, taken)
           res == [i \in Ids |-> IF i \in taken
                                 THEN addStorageRefCount(loaded[i], times(i))
                                 ELSE loaded[i]]
<1>1. addRefCounts(m, v) = res
  <2> DEFINE u == [i \in taken |-> times(i)]
  <2>1. DOMAIN u = taken /\ \A i \in taken : u[i] = times(i)
    BY Zenon
  <2>2. addRefCounts(m, v) = addStorageRefCounts(loaded, u)
    BY Zenon DEF addRefCounts
  <2> HIDE DEF u, taken, times, loaded
  <2> QED
    BY Zenon, <2>1, <2>2 DEF addStorageRefCounts
<1>dom. D \in SUBSET Ids /\ takers \in SUBSET Ids /\ \A i \in D : v[i] \in Int
  BY Zenon DEF Amounts
<1>2. \A i \in Ids : m[i] \in MidBlock
  BY Zenon DEF Blocks
<1>3. \A i \in Ids : times(i) \in Int
  BY Zenon, <1>dom, ReferencesFinite
<1>4. \A i \in Ids : flag(i) \in BOOLEAN
  BY Zenon
<1>5. \A i \in Ids : i \notin D /\ (\A d \in D : i \notin Deps[d]) => i \notin taken
  BY Zenon
<1>ids. taken \in SUBSET Ids
  BY Zenon, <1>dom, DepsType
<1> HIDE DEF flag, taken, times, D
<1>6. \A i \in D : /\ one(i) \in MidBlock /\ one(i).cached = m[i].cached
                     /\ \A d \in Meta : Agrees(m[i], d) => Agrees(one(i), d)
  BY <1>2, <1>4, <1>dom, OneRefAgrees
<1> HIDE DEF one
<1>7. /\ n \in Blocks
      /\ \A i \in Ids : n[i] = IF i \notin D THEN m[i] ELSE one(i)
  BY Zenon, <1>2, <1>6 DEF Blocks
<1>8. Agree(m, S) => Agree(n, S)
  BY Zenon, <1>6, <1>7 DEF Agree
<1> HIDE DEF n
<1>9. /\ loaded \in Blocks
      /\ \A i \in Ids : i \notin taken => loaded[i] = n[i]
      /\ Agree(n, S) => Agree(loaded, S)
  BY Zenon, <1>ids, <1>7, GetKeeps
<1> HIDE DEF loaded
<1>10. \A i \in Ids : loaded[i] \in MidBlock
  BY Zenon, <1>9 DEF Blocks
<1>11. /\ res \in Blocks
       /\ \A i \in Ids : res[i] = IF i \in taken
                                  THEN addStorageRefCount(loaded[i], times(i))
                                  ELSE loaded[i]
  BY Zenon, <1>3, <1>10, OneStorageRef DEF Blocks
<1>12. ASSUME Agree(loaded, S), NEW i \in S
       PROVE  /\ mem[i].cached => res[i].cached
              /\ res[i].cached /\ Known(i) => Agrees(res[i], disk[i])
  <2>1. CASE i \in taken
    <3>1. res[i] = addStorageRefCount(loaded[i], times(i))
      BY Zenon, <1>11, <2>1
    <3> QED
      BY <1>3, <1>10, <1>12, <3>1, OneStorageRef DEF Agree, Agrees
  <2>2. CASE i \notin taken
    BY Zenon, <1>11, <1>12, <2>2 DEF Agree
  <2> QED
    BY Zenon, <2>1, <2>2
<1> HIDE DEF res
<1>13. Agree(m, S) => Agree(res, S)
  BY Zenon, <1>8, <1>9, <1>12 DEF Agree
<1>14. \A i \in Ids : i \notin D /\ (\A d \in D : i \notin Deps[d]) => res[i] = m[i]
  BY Zenon, <1>5, <1>7, <1>9, <1>11
<1> QED
  BY Zenon, <1>1, <1>11, <1>13, <1>14 DEF D

LEMMA RefsKeep ==
  ASSUME Counting, disk \in [Ids -> Meta], NEW m \in Blocks, NEW D \in SUBSET Ids,
         NEW c \in Int, NEW S \in SUBSET Ids
  PROVE  LET n == addRefCounts(m, Each(D, c)) IN
         /\ n \in Blocks
         /\ \A i \in Ids : i \notin D /\ (\A d \in D : i \notin Deps[d]) => n[i] = m[i]
         /\ Agree(m, S) => Agree(n, S)
<1>1. Amounts(Each(D, c)) /\ DOMAIN Each(D, c) = D
  BY Zenon, EachAmounts
<1> QED
  BY Zenon, <1>1, AmountsKeep

LEMMA SetDependenciesKeeps ==
  ASSUME Counting, disk \in [Ids -> Meta], NEW m \in Blocks, NEW b \in Ids,
         NEW add \in BOOLEAN, NEW storage \in BOOLEAN, NEW st, NEW S \in SUBSET Ids
  PROVE  LET n == setDependencies(m, b, add, storage, st) IN
         /\ n \in Blocks
         /\ n[b] = m[b]
         /\ Agree(m, S) => Agree(n, S)
<1> DEFINE v == [i \in Deps[b] |-> IF add THEN Times[b][i] ELSE -Times[b][i]]
           g == getBlockById(m, Deps[b])
           s == addStorageRefCounts(g, v)
           r == addRefCounts(g, v)
<1>1. setDependencies(m, b, add, storage, st) =
        IF ~HasDeps(st) THEN m ELSE IF storage THEN s ELSE r
  BY Zenon DEF setDependencies
<1>2. Amounts(v) /\ DOMAIN v = Deps[b]
  BY Zenon, DepsType, TimesType DEF Amounts
<1> HIDE DEF v
<1>3. g \in Blocks /\ g[b] = m[b] /\ (Agree(m, S) => Agree(g, S))
  BY Zenon, GetKeeps, DepsType
<1> HIDE DEF g
<1>4. s \in Blocks /\ s[b] = g[b] /\ (Agree(g, S) => Agree(s, S))
  <2>1. /\ s \in Blocks /\ (Agree(g, S) => Agree(s, S))
        /\ \A i \in Ids : i \notin Deps[b] => s[i] = g[i]
    BY Zenon, <1>2, <1>3, StorageAmountsKeep
  <2> QED
    BY Zenon, <2>1, DepsType
<1>5. r \in Blocks /\ r[b] = g[b] /\ (Agree(g, S) => Agree(r, S))
  <2>1. /\ r \in Blocks /\ (Agree(g, S) => Agree(r, S))
        /\ \A i \in Ids : i \notin Deps[b] /\ (\A d \in Deps[b] : i \notin Deps[d])
             => r[i] = g[i]
    BY Zenon, <1>2, <1>3, AmountsKeep
  <2> QED
    BY Zenon, <2>1, DepsType
<1> HIDE DEF s, r
<1> QED
  BY Zenon, <1>1, <1>3, <1>4, <1>5

LEMMA StorageFlagKeeps ==
  ASSUME NEW m \in Blocks, NEW b \in Ids, NEW v \in BOOLEAN, NEW S \in SUBSET Ids
  PROVE  LET n == [m EXCEPT ![b].haveStorageRefs = v] IN
         /\ n \in Blocks
         /\ SameButFlags(m[b], n[b])
         /\ Agree(m, S) => Agree(n, S)
<1> DEFINE k == [m[b] EXCEPT !.haveStorageRefs = v]
           n == [m EXCEPT ![b] = k]
<1>1. m[b] \in IntBlock /\ (m[b].dirty \/ m[b].RefCount \in Nat)
  BY Zenon DEF Blocks, MidBlock
<1>2. k \in IntBlock /\ SameButFlags(m[b], k)
  BY Zenon, <1>1 DEF IntBlock, SameButFlags
<1>3. [m EXCEPT ![b].haveStorageRefs = v] = n
  BY Zenon
<1> HIDE DEF k
<1>4. k \in MidBlock
  BY Zenon, <1>1, <1>2 DEF MidBlock, SameButFlags
<1>5. n \in Blocks /\ n[b] = k /\ \A i \in Ids : i # b => n[i] = m[i]
  BY Zenon, <1>4 DEF Blocks
<1> HIDE DEF n
<1>6. Agree(m, S) => Agree(n, S)
  BY <1>2, <1>5 DEF Agree, Agrees, SameButFlags
<1> QED
  BY Zenon, <1>2, <1>3, <1>5, <1>6

LEMMA DiskFlagKeeps ==
  ASSUME NEW m \in Blocks, NEW b \in Ids, NEW v \in BOOLEAN, NEW S \in SUBSET Ids
  PROVE  LET n == [m EXCEPT ![b].haveDiskRefs = v] IN
         /\ n \in Blocks
         /\ SameButFlags(m[b], n[b])
         /\ Agree(m, S) => Agree(n, S)
<1> DEFINE k == [m[b] EXCEPT !.haveDiskRefs = v]
           n == [m EXCEPT ![b] = k]
<1>1. m[b] \in IntBlock /\ (m[b].dirty \/ m[b].RefCount \in Nat)
  BY DEF Blocks, MidBlock
<1>2. k \in IntBlock /\ SameButFlags(m[b], k)
  BY Zenon, <1>1 DEF IntBlock, SameButFlags
<1>3. [m EXCEPT ![b].haveDiskRefs = v] = n
  BY Zenon
<1> HIDE DEF k
<1>4. k \in MidBlock
  BY <1>1, <1>2 DEF MidBlock, SameButFlags
<1>5. n \in Blocks /\ n[b] = k /\ \A i \in Ids : i # b => n[i] = m[i]
  BY <1>4 DEF Blocks
<1> HIDE DEF n
<1>6. Agree(m, S) => Agree(n, S)
  BY <1>2, <1>5 DEF Agree, Agrees, SameButFlags
<1> QED
  BY Zenon, <1>2, <1>3, <1>5, <1>6

LEMMA StorageDependenciesKeep ==
  ASSUME Counting, disk \in [Ids -> Meta], NEW m \in Blocks, NEW b \in Ids,
         NEW add \in BOOLEAN, NEW S \in SUBSET Ids
  PROVE  LET n == shouldHaveStorageDependencies(m, b, add) IN
         /\ n \in Blocks
         /\ SameButFlags(m[b], n[b])
         /\ Agree(m, S) => Agree(n, S)
<1> DEFINE f == [m EXCEPT ![b].haveStorageRefs = add]
           storage == TRUE
           st == m[b].Status
           n == setDependencies(f, b, add, storage, st)
<1>1. shouldHaveStorageDependencies(m, b, add) =
        IF m[b].haveStorageRefs = add THEN m ELSE n
  BY Zenon DEF shouldHaveStorageDependencies
<1>2. /\ f \in Blocks /\ SameButFlags(m[b], f[b])
      /\ Agree(m, S) => Agree(f, S)
  BY Zenon, StorageFlagKeeps
<1>3. storage \in BOOLEAN
  BY Zenon
<1> HIDE DEF f, storage, st
<1>4. n \in Blocks /\ n[b] = f[b] /\ (Agree(f, S) => Agree(n, S))
  BY <1>2, <1>3, SetDependenciesKeeps
<1> HIDE DEF n
<1> QED
  BY Zenon, <1>1, <1>2, <1>4 DEF SameButFlags

LEMMA DiskDependenciesKeep ==
  ASSUME Counting, disk \in [Ids -> Meta], NEW m \in Blocks, NEW b \in Ids,
         NEW add \in BOOLEAN, NEW S \in SUBSET Ids
  PROVE  LET n == shouldHaveDiskDependencies(m, b, add) IN
         /\ n \in Blocks
         /\ SameButFlags(m[b], n[b])
         /\ Agree(m, S) => Agree(n, S)
<1> DEFINE f == [m EXCEPT ![b].haveDiskRefs = add]
           storage == FALSE
           st == m[b].Status
           n == setDependencies(f, b, add, storage, st)
<1>1. shouldHaveDiskDependencies(m, b, add) =
        IF m[b].haveDiskRefs = add THEN m ELSE n
  BY Zenon DEF shouldHaveDiskDependencies
<1>2. /\ f \in Blocks /\ SameButFlags(m[b], f[b])
      /\ Agree(m, S) => Agree(f, S)
  BY Zenon, DiskFlagKeeps
<1>3. storage \in BOOLEAN
  BY Zenon
<1> HIDE DEF f, storage, st
<1>4. n \in Blocks /\ n[b] = f[b] /\ (Agree(f, S) => Agree(n, S))
  BY <1>2, <1>3, SetDependenciesKeeps
<1> HIDE DEF n
<1> QED
  BY Zenon, <1>1, <1>2, <1>4 DEF SameButFlags

LEMMA MarkedKeeps ==
  ASSUME disk \in [Ids -> Meta], NEW m \in Blocks, NEW b \in Ids, NEW S \in SUBSET Ids
  PROVE  LET n == [m EXCEPT ![b] = markDirty(m[b])] IN
         /\ n \in Blocks /\ n[b].dirty
         /\ Agree(m, S) => Agree(n, S)
<1> DEFINE k == markDirty(m[b])
           n == [m EXCEPT ![b] = k]
<1>1. m[b] \in MidBlock
  BY Zenon DEF Blocks
<1>2. /\ k \in MidBlock
      /\ k.dirty /\ k.cached = m[b].cached /\ k.Backend = m[b].Backend
      /\ k.Stored = IF m[b].dirty THEN m[b].Stored ELSE MetaOf(m[b])
  BY Zenon, <1>1, OneMarked
<1> HIDE DEF k
<1>3. n \in Blocks /\ n[b] = k /\ \A i \in Ids : i # b => n[i] = m[i]
  BY Zenon, <1>2 DEF Blocks
<1>4. \A d \in Meta : Agrees(m[b], d) => Agrees(k, d)
  BY <1>2 DEF Agrees, MetaOf
<1> HIDE DEF n
<1>5. Agree(m, S) => Agree(n, S)
  BY Zenon, <1>2, <1>3, <1>4 DEF Agree
<1> QED
  BY Zenon, <1>2, <1>3, <1>5 DEF k, n

LEMMA StatusKeeps ==
  ASSUME NEW m \in Blocks, NEW b \in Ids, m[b].dirty, NEW st \in Status,
         NEW S \in SUBSET Ids
  PROVE  LET n == [m EXCEPT ![b].Status = st] IN
         /\ n \in Blocks
         /\ Agree(m, S) => Agree(n, S)
<1> DEFINE k == [m[b] EXCEPT !.Status = st]
           n == [m EXCEPT ![b] = k]
<1>1. m[b] \in IntBlock
  BY Zenon DEF Blocks, MidBlock
<1>2. /\ k \in IntBlock
      /\ k.dirty = m[b].dirty /\ k.cached = m[b].cached
      /\ k.Backend = m[b].Backend /\ k.Stored = m[b].Stored
  BY Zenon, <1>1 DEF IntBlock
<1>3. [m EXCEPT ![b].Status = st] = n
  BY Zenon
<1> HIDE DEF k
<1>4. k \in MidBlock
  BY Zenon, <1>2 DEF MidBlock
<1>5. n \in Blocks /\ n[b] = k /\ \A i \in Ids : i # b => n[i] = m[i]
  BY Zenon, <1>4 DEF Blocks
<1> HIDE DEF n
<1>6. \A d : Agrees(m[b], d) => Agrees(k, d)
  BY Zenon, <1>2 DEF Agrees
<1>7. Agree(m, S) => Agree(n, S)
  BY Zenon, <1>2, <1>5, <1>6 DEF Agree
<1> QED
  BY Zenon, <1>3, <1>5, <1>7

LEMMA ExternalKeeps ==
  ASSUME NEW m \in Blocks, NEW b \in Ids, NEW v \in Int, NEW S \in SUBSET Ids
  PROVE  LET n == [m EXCEPT ![b].externalStorageRefCount = v] IN
         /\ n \in Blocks
         /\ SameButFlags(m[b], n[b]) /\ n[b].externalStorageRefCount = v
         /\ \A i \in Ids : i # b => n[i] = m[i]
         /\ Agree(m, S) => Agree(n, S)
<1> DEFINE k == [m[b] EXCEPT !.externalStorageRefCount = v]
           n == [m EXCEPT ![b] = k]
<1>1. m[b] \in IntBlock /\ (m[b].dirty \/ m[b].RefCount \in Nat)
  BY Zenon DEF Blocks, MidBlock
<1>2. k \in IntBlock /\ SameButFlags(m[b], k) /\ k.externalStorageRefCount = v
  BY Zenon, <1>1 DEF IntBlock, SameButFlags
<1>3. [m EXCEPT ![b].externalStorageRefCount = v] = n
  BY Zenon
<1> HIDE DEF k
<1>4. k \in MidBlock
  BY Zenon, <1>1, <1>2 DEF MidBlock, SameButFlags
<1>5. n \in Blocks /\ n[b] = k /\ \A i \in Ids : i # b => n[i] = m[i]
  BY Zenon, <1>4 DEF Blocks
<1> HIDE DEF n
<1>6. Agree(m, S) => Agree(n, S)
  BY <1>2, <1>5 DEF Agree, Agrees, SameButFlags
<1> QED
  BY Zenon, <1>2, <1>3, <1>5, <1>6

LEMMA BlockMid ==
  /\ \A b \in Block : /\ b \in MidBlock /\ b.RefCount \in Nat /\ b.storageRefCount \in Nat
                       /\ b.externalStorageRefCount \in Nat
  /\ \A b \in MidBlock : /\ b.RefCount \in Nat /\ b.storageRefCount \in Nat
                          /\ b.externalStorageRefCount \in Nat
                          => b \in Block
BY DEF Block, MidBlock, IntBlock

LEMMA MemMid ==
  ASSUME NEW m \in [Ids -> Block]
  PROVE  m \in Blocks
BY Zenon, BlockMid DEF Blocks

\* Block.flush: the block itself is as the backend is told it is, and the
\* others still agree with what the backend had.
LEMMA FlushBlockKeeps ==
  ASSUME Counting, disk \in [Ids -> Meta], NEW m \in [Ids -> Block], NEW b \in Ids
  PROVE  LET n == flushBlock(m, b) IN
         /\ n \in Blocks
         /\ n[b].cached = m[b].cached /\ n[b].RefCount = m[b].RefCount
         /\ n[b].Status = m[b].Status /\ n[b].dirty = FALSE
         /\ n[b].Backend = (m[b].RefCount # 0)
         /\ Agree(m, Ids \ {b}) => Agree(n, Ids \ {b})
<1> DEFINE S == Ids \ {b}
           hadRefs == m[b].Backend /\ m[b].Stored.RefCount # 0
           haveRefs == m[b].RefCount # 0
           k == [m[b] EXCEPT !.Backend = haveRefs]
           stored == [m EXCEPT ![b] = k]
           onDisk == shouldHaveDiskDependencies(stored, b, haveRefs)
           no == FALSE
           moved == IF haveRefs THEN shouldHaveStorageDependencies(onDisk, b, no)
                    ELSE onDisk
           changed == IF hadRefs # haveRefs THEN moved ELSE stored
           c == [[changed[b] EXCEPT !.dirty = FALSE] EXCEPT !.Stored = Absent]
           clean == [changed EXCEPT ![b] = c]
           less == -1
           res == addStorageRefCounts(clean, Each({b}, less))
<1>1. flushBlock(m, b) =
        addStorageRefCounts([changed EXCEPT ![b].dirty = FALSE, ![b].Stored = Absent],
                            Each({b}, less))
  <2>1. stored = [m EXCEPT ![b].Backend = haveRefs]
    BY Zenon
  <2> QED
    BY Zenon, <2>1 DEF flushBlock
<1>2. m \in Blocks /\ m[b] \in MidBlock /\ m[b] \in IntBlock /\ m[b].RefCount \in Nat
  BY Zenon, MemMid, BlockMid DEF MidBlock
<1>3. haveRefs \in BOOLEAN /\ no \in BOOLEAN
  BY Zenon
<1>less. less \in Int
  OBVIOUS
<1> HIDE DEF haveRefs, hadRefs, no, less
<1>4. /\ k \in IntBlock /\ k.Backend = haveRefs /\ k.cached = m[b].cached
      /\ k.RefCount = m[b].RefCount /\ k.Status = m[b].Status
  BY Zenon, <1>2, <1>3 DEF IntBlock
<1> HIDE DEF k
<1>5. k \in MidBlock
  BY Zenon, <1>2, <1>4 DEF MidBlock
<1>6. /\ stored \in Blocks /\ stored[b] = k
      /\ Agree(m, S) => Agree(stored, S)
  BY Zenon, <1>2, <1>5 DEF Blocks, Agree
<1> HIDE DEF stored
<1>7. /\ onDisk \in Blocks /\ SameButFlags(stored[b], onDisk[b])
      /\ Agree(stored, S) => Agree(onDisk, S)
  BY Zenon, <1>3, <1>6, DiskDependenciesKeep
<1> HIDE DEF onDisk
<1>8. /\ moved \in Blocks /\ SameButFlags(stored[b], moved[b])
      /\ Agree(stored, S) => Agree(moved, S)
  <2>1. LET w == shouldHaveStorageDependencies(onDisk, b, no) IN
        /\ w \in Blocks /\ SameButFlags(onDisk[b], w[b])
        /\ Agree(onDisk, S) => Agree(w, S)
    BY Zenon, <1>3, <1>7, StorageDependenciesKeep
  <2> QED
    BY Zenon, <1>7, <2>1 DEF SameButFlags
<1> HIDE DEF moved
<1>9. /\ changed \in Blocks /\ SameButFlags(k, changed[b])
      /\ Agree(stored, S) => Agree(changed, S)
  BY Zenon, <1>6, <1>8 DEF SameButFlags
<1> HIDE DEF changed
<1>10. changed[b] \in IntBlock /\ Absent \in Meta
  BY Zenon, <1>9 DEF Blocks, MidBlock, Absent, Meta, Status
<1>clean. clean = [changed EXCEPT ![b].dirty = FALSE, ![b].Stored = Absent]
  BY Zenon, <1>9 DEF Blocks
<1>11. /\ c \in IntBlock /\ c.dirty = FALSE /\ c.cached = changed[b].cached
       /\ c.RefCount = changed[b].RefCount /\ c.Status = changed[b].Status
       /\ c.Backend = changed[b].Backend
  BY Zenon, <1>10 DEF IntBlock
<1> HIDE DEF c
<1>12. c \in MidBlock
  BY Zenon, <1>2, <1>4, <1>9, <1>11 DEF MidBlock, SameButFlags
<1>13. /\ clean \in Blocks /\ clean[b] = c
       /\ Agree(changed, S) => Agree(clean, S)
  BY Zenon, <1>9, <1>12 DEF Blocks, Agree
<1> HIDE DEF clean
<1>14. res \in Blocks /\ (Agree(clean, S) => Agree(res, S))
  BY Zenon, <1>less, <1>13, StorageRefsKeep
<1>15. res[b] = addStorageRefCount(c, less)
  BY Zenon, <1>13 DEF addStorageRefCounts, Each
<1>16. /\ res[b].cached = c.cached /\ res[b].RefCount = c.RefCount
       /\ res[b].Status = c.Status /\ res[b].dirty = c.dirty
       /\ res[b].Backend = c.Backend
  BY <1>less, <1>12, <1>15, OneStorageRef
<1> HIDE DEF res
<1>17. /\ res[b].cached = m[b].cached /\ res[b].RefCount = m[b].RefCount
       /\ res[b].Status = m[b].Status /\ res[b].dirty = FALSE
       /\ res[b].Backend = haveRefs
  BY Zenon, <1>4, <1>9, <1>11, <1>16 DEF SameButFlags
<1>18. Agree(m, S) => Agree(res, S)
  BY Zenon, <1>6, <1>9, <1>13, <1>14
<1> QED
  BY Zenon, <1>1, <1>clean, <1>14, <1>17, <1>18 DEF haveRefs, res

\* jobReferOrStoreBlock: it only adds, so it cannot panic.
LEMMA FirstRefKeeps ==
  ASSUME disk \in [Ids -> Meta], NEW m \in [Ids -> Block], NEW b \in Ids
  PROVE  LET n == addRefCounts(m, Each({b}, 1)) IN
         /\ n \in [Ids -> Block]
         /\ \A i \in Ids : i # b => n[i] = m[i]
         /\ Contract(m, disk) => Contract(n, disk)
<1> DEFINE flag == countRef(m[b], 1).haveStorageRefs \/ m[b].RefCount + 1 = 0
           k == [countRef(m[b], 1) EXCEPT !.haveStorageRefs = flag]
           n == [m EXCEPT ![b] = k]
<1>1. /\ m[b] \in MidBlock /\ m[b].RefCount \in Nat /\ m[b].storageRefCount \in Nat
      /\ m[b].externalStorageRefCount \in Nat
  BY Zenon, BlockMid
<1>2. addRefCounts(m, Each({b}, 1)) = n
  <2> DEFINE one(i) == [countRef(m[i], 1) EXCEPT
                          !.haveStorageRefs = @ \/ m[i].RefCount + 1 = 0]
             n0 == [i \in Ids |-> IF i \notin {b} THEN m[i] ELSE one(i)]
             takers == {i \in {b} : /\ m[i].RefCount + 1 = 0 /\ ~m[i].haveStorageRefs
                                    /\ HasDeps(m[i].Status)}
             taken == UNION {Deps[i] : i \in takers}
             times(i) == Cardinality(References(takers, i))
             u == [i \in taken |-> times(i)]
             v == Each({b}, 1)
             loaded == getBlockById(n0, taken)
  <2>1. addRefCounts(m, Each({b}, 1)) =
          [i \in Ids |-> IF i \in taken THEN addStorageRefCount(loaded[i], times(i))
                         ELSE loaded[i]]
    <3>1. DOMAIN u = taken /\ \A i \in taken : u[i] = times(i)
      BY Zenon
    <3>2. DOMAIN v = {b} /\ \A i \in {b} : v[i] = 1
      BY Zenon DEF Each
    <3>3. /\ n0 = [i \in Ids |-> IF i \notin DOMAIN v THEN m[i]
                                ELSE [countRef(m[i], v[i]) EXCEPT
                                        !.haveStorageRefs = @ \/ m[i].RefCount + v[i] = 0]]
          /\ takers = {i \in DOMAIN v : /\ m[i].RefCount + v[i] = 0 /\ ~m[i].haveStorageRefs
                                        /\ HasDeps(m[i].Status)}
      BY Zenon, <3>2
    <3> HIDE DEF n0, takers, v
    <3>4. addRefCounts(m, v) = addStorageRefCounts(loaded, u)
      BY Zenon, <3>3 DEF addRefCounts
    <3> HIDE DEF u, taken, times, loaded
    <3> QED
      BY Zenon, <3>1, <3>4 DEF addStorageRefCounts, v
  <2>2. m[b].RefCount + 1 # 0
    BY <1>1
  <2>3. takers = {}
    BY Zenon, <2>2
  <2>4. taken = {}
    BY Zenon, <2>3
  <2>5. one(b) = k
    BY Zenon
  <2> HIDE DEF takers, taken, times, one, k, u, v
  <2>6. loaded = n0
    BY Zenon, <2>4 DEF getBlockById
  <2>7. n0 = n
    BY Zenon, <2>5
  <2> HIDE DEF loaded, n0, n
  <2>8. addRefCounts(m, Each({b}, 1)) = [i \in Ids |-> n[i]]
    BY Zenon, <2>1, <2>4, <2>6, <2>7
  <2>9. n = [i \in Ids |-> n[i]]
    BY Zenon DEF n
  <2> QED
    BY Zenon, <2>8, <2>9
<1>3. flag \in BOOLEAN
  BY Zenon
<1> HIDE DEF flag
<1>4. /\ k \in MidBlock /\ k.cached = m[b].cached
      /\ k.RefCount = m[b].RefCount + 1
      /\ k.storageRefCount = m[b].storageRefCount + (IF m[b].dirty THEN 0 ELSE 1)
      /\ k.externalStorageRefCount = m[b].externalStorageRefCount
      /\ \A d \in Meta : Agrees(m[b], d) => Agrees(k, d)
  BY <1>1, <1>3, OneRefAgrees
<1> HIDE DEF k
<1>5. k \in Block
  BY <1>1, <1>4, BlockMid
<1>6. n \in [Ids -> Block] /\ n[b] = k /\ \A i \in Ids : i # b => n[i] = m[i]
  BY Zenon, <1>5
<1> HIDE DEF n
<1>7. Contract(m, disk) => Contract(n, disk)
  BY Zenon, <1>4, <1>6 DEF Contract
<1> QED
  BY Zenon, <1>2, <1>6, <1>7

-----------------------------------------------------------------------------
(***************************************************************************)
(* Jobs, handles and names: their types.                                   *)
(***************************************************************************)
LEMMA IdSets ==
  /\ Ids \in SUBSET Ids /\ {} \in SUBSET Ids
  /\ \A i \in Ids : {i} \in SUBSET Ids /\ Deps[i] \in SUBSET Ids
BY Zenon, DepsType

LEMMA JobFields ==
  ASSUME NEW j \in Jobs
  PROVE  /\ j.op \in {"get", "store", "releaseStorage", "setStatus"}
              => j.h \in Handles /\ j.id \in Ids
         /\ j.op = "store" => j.status \in Status /\ j.count \in {0, 1}
         /\ j.op = "setStatus" => j.status \in Status
         /\ j.op = "updateRefCount" => j.id \in Ids /\ j.count \in {-1, 1}
         /\ j.op = "setName" => /\ j.name \in Names /\ j.id \in Ids \cup {None}
                                 /\ j.kept \in BOOLEAN
         /\ j.op = "getName" => j.name \in Names
BY Zenon DEF Jobs

LEMMA TakeType ==
  ASSUME TypeOK, NEW op, Take(op)
  PROVE  current \in Jobs /\ current.op = op /\ queue' \in Seq(Jobs) /\ pc = "idle"
BY DEF TypeOK, Take, current

LEMMA HandleTypes ==
  ASSUME TypeOK, NEW h \in Handles
  PROVE  /\ [handle EXCEPT ![h] = Free] \in [Handles -> Handle]
         /\ \A st \in HandleStates, i \in Ids :
              [handle EXCEPT ![h] = [st |-> st, id |-> i]] \in [Handles -> Handle]
         /\ handle[h].st # "free" => handle[h].st \in HandleStates /\ handle[h].id \in Ids
BY DEF TypeOK, Handle, Free

LEMMA NameTypes ==
  ASSUME TypeOK, NEW n \in Names
  PROVE  /\ getName(n) \in Name
         /\ names[n].oldValue \in Ids \cup {None}
         /\ names[n].newValue \in Ids \cup {None}
BY Zenon DEF TypeOK, getName, Name

LEMMA FlushedMetaType ==
  ASSUME TypeOK, NEW b \in Ids
  PROVE  /\ flushedMeta(b) \in Meta
         /\ KeepsMetadata /\ Agrees(mem[b], disk[b]) =>
              /\ flushedMeta(b).RefCount = mem[b].RefCount
              /\ mem[b].RefCount # 0 => flushedMeta(b).Status = mem[b].Status
<1>1. /\ mem[b].RefCount \in Nat /\ mem[b].Status \in Status /\ disk[b] \in Meta
      /\ Absent \in Meta /\ Absent.RefCount = 0
  BY Zenon DEF TypeOK, Block, Absent, Meta, Status
<1>2. /\ MetaOf(mem[b]) \in Meta /\ MetaOf(mem[b]).RefCount = mem[b].RefCount
      /\ MetaOf(mem[b]).Status = mem[b].Status
  BY Zenon, <1>1 DEF MetaOf, Meta
<1>3. Agrees(mem[b], disk[b]) /\ ~mem[b].Backend => disk[b].RefCount = 0
  BY Zenon DEF Agrees
<1> QED
  BY Zenon, <1>1, <1>2, <1>3 DEF flushedMeta

-----------------------------------------------------------------------------
LEMMA InitIInv == Init => IInv
<1> SUFFICES ASSUME Init
             PROVE  IInv
  BY Zenon
<1>1. Absent \in Meta
  BY Zenon DEF Absent, Meta, Status
<1>2. mem \in [Ids -> Block] /\ \A i \in Ids : mem[i].cached = FALSE
  BY Zenon, NoBlockType DEF Init
<1>3. /\ names \in [Names -> Name] /\ handle \in [Handles -> Handle]
      /\ queue \in Seq(Jobs)
  BY DEF Init, NoName, Name, Handle
<1>4. /\ api \in [Ids -> Int] /\ disk \in [Ids -> Meta]
      /\ diskNames \in [Names -> Ids \cup {None}]
  BY <1>1 DEF Init
<1>5. durable \in Durable
  BY Zenon, <1>4 DEF Init, Snapshot, Durable
<1>6. Contract(mem, disk)
  BY Zenon, <1>2 DEF Contract
<1> QED
  BY Zenon, <1>2, <1>3, <1>4, <1>5, <1>6 DEF Init, IInv, TypeOK

LEMMA NextIInv ==
  ASSUME Counting
  PROVE  IInv /\ [Next]_vars => IInv'
\* setStatus: Status changes only on a block that is dirty by then.
<1>ChangeStatusKeeps.
  ASSUME disk \in [Ids -> Meta], NEW m \in Blocks, NEW b \in Ids,
         NEW st \in Status, NEW S \in SUBSET Ids
  PROVE  LET n == changeStatus(m, b, st) IN
         /\ n \in Blocks
         /\ Agree(m, S) => Agree(n, S)
  <2> USE <1>ChangeStatusKeeps
  <2> DEFINE marked == [m EXCEPT ![b] = markDirty(m[b])]
             onDisk == marked[b].Stored.RefCount > 0
             inMem == ~onDisk
             add == TRUE
             added == setDependencies(marked, b, add, inMem, st)
             released == shouldHaveStorageDependencies(added, b, FALSE)
             cleared == shouldHaveDiskDependencies(released, b, FALSE)
             d == [cleared EXCEPT ![b].haveDiskRefs = onDisk]
             s == [d EXCEPT ![b].haveStorageRefs = inMem]
  <2>1. changeStatus(m, b, st) = [s EXCEPT ![b].Status = st]
    BY Zenon DEF changeStatus
  <2>2. marked \in Blocks /\ marked[b].dirty /\ (Agree(m, S) => Agree(marked, S))
    BY Zenon, MarkedKeeps
  <2>3. onDisk \in BOOLEAN /\ add \in BOOLEAN
    OBVIOUS
  <2>bool. inMem \in BOOLEAN
    BY Zenon
  <2> HIDE DEF onDisk, inMem, add, marked
  <2>4. added \in Blocks /\ added[b].dirty /\ (Agree(marked, S) => Agree(added, S))
    <3>1. added \in Blocks /\ added[b] = marked[b] /\ (Agree(marked, S) => Agree(added, S))
      BY <2>2, <2>3, <2>bool, SetDependenciesKeeps
    <3> QED
      BY Zenon, <2>2, <3>1
  <2> HIDE DEF added
  <2>5. released \in Blocks /\ released[b].dirty /\ (Agree(added, S) => Agree(released, S))
    BY Zenon, <2>4, StorageDependenciesKeep DEF SameButFlags
  <2> HIDE DEF released
  <2>6. cleared \in Blocks /\ cleared[b].dirty /\ (Agree(released, S) => Agree(cleared, S))
    BY Zenon, <2>5, DiskDependenciesKeep DEF SameButFlags
  <2> HIDE DEF cleared
  <2>7. d \in Blocks /\ d[b].dirty /\ (Agree(cleared, S) => Agree(d, S))
    BY <2>3, <2>6, DiskFlagKeeps DEF SameButFlags
  <2> HIDE DEF d
  <2>8. s \in Blocks /\ s[b].dirty /\ (Agree(d, S) => Agree(s, S))
    <3>1. s \in Blocks /\ SameButFlags(d[b], s[b]) /\ (Agree(d, S) => Agree(s, S))
      BY Zenon, <2>bool, <2>7, StorageFlagKeeps
    <3> QED
      BY Zenon, <2>7, <3>1 DEF SameButFlags
  <2> HIDE DEF s
  <2>9. LET n == [s EXCEPT ![b].Status = st] IN
          n \in Blocks /\ (Agree(s, S) => Agree(n, S))
    BY Zenon, <2>8, StatusKeeps
  <2> QED
    BY Zenon, <2>1, <2>2, <2>4, <2>5, <2>6, <2>7, <2>8, <2>9

\* An operation that does not panic leaves counts in Nat, and blocks that
\* agree with the backend.
<1>NoPanicKeeps.
  ASSUME NEW m \in Blocks, ~Panics(m), NEW S \in SUBSET Ids
  PROVE  /\ m \in [Ids -> Block]
         /\ Agree(m, S) => \A i \in S : m[i].cached => Agrees(m[i], disk[i])
  <2> USE <1>NoPanicKeeps
  <2>1. \A i \in Ids : /\ m[i] \in MidBlock /\ ~(m[i].RefCount < 0)
                       /\ ~(m[i].storageRefCount < 0) /\ ~(m[i].externalStorageRefCount < 0)
                       /\ m[i].cached => Known(i)
    BY Zenon DEF Panics, Blocks
  <2>2. \A i \in Ids : /\ m[i].RefCount \in Int /\ m[i].storageRefCount \in Int
                       /\ m[i].externalStorageRefCount \in Int
    BY Zenon, <2>1 DEF MidBlock, IntBlock
  <2>3. \A i \in Ids : m[i] \in Block
    BY <2>1, <2>2, BlockMid
  <2> QED
    BY Zenon, <2>1, <2>3 DEF Agree, Blocks

\* StorageBlock.setBlock
<1>SetBlockKeeps.
  ASSUME NEW m \in Blocks, NEW b \in Ids, NEW S \in SUBSET Ids
  PROVE  LET n == setBlock(m, b) IN
         /\ n \in Blocks
         /\ Agree(m, S) => Agree(n, S)
  <2> USE <1>SetBlockKeeps
  <2> DEFINE v == m[b].externalStorageRefCount + 1
             x == [m EXCEPT ![b].externalStorageRefCount = v]
             s == addStorageRefCounts(x, Each({b}, 1))
  <2>1. setBlock(m, b) = IF x[b].externalStorageRefCount = 1 THEN s ELSE x
    BY Zenon DEF setBlock
  <2>2. v \in Int
    BY DEF Blocks, MidBlock, IntBlock
  <2> HIDE DEF v
  <2>3. x \in Blocks /\ (Agree(m, S) => Agree(x, S))
    BY Zenon, <2>2, ExternalKeeps
  <2> HIDE DEF x
  <2>4. s \in Blocks /\ (Agree(x, S) => Agree(s, S))
    BY <2>3, StorageRefsKeep
  <2> QED
    BY Zenon, <2>1, <2>3, <2>4

\* Block.flushStorageRef, which may drop the block.
<1>FlushStorageRefKeeps.
  ASSUME disk \in [Ids -> Meta], NEW m \in [Ids -> Block], NEW b \in Ids
  PROVE  LET n == flushStorageRef(m, b) IN
         /\ n \in Blocks
         /\ Agree(m, Ids) => Agree(n, Ids \ {b})
         /\ Agree(m, Ids) => \/ n[b].cached = FALSE
                             \/ Agree(n, Ids)
  <2> USE <1>FlushStorageRefKeeps
  <2> DEFINE k == [m[b] EXCEPT !.dirtyRef = FALSE]
             clean == [m EXCEPT ![b] = k]
             no == FALSE
             zero == m[b].RefCount = 0
             released == shouldHaveStorageDependencies(clean, b, no)
             dropped == [released EXCEPT ![b] = NoBlock]
             updated == shouldHaveStorageDependencies(clean, b, zero)
  <2>1. flushStorageRef(m, b) = IF m[b].storageRefCount = 0 THEN dropped ELSE updated
    <3>1. clean = [m EXCEPT ![b].dirtyRef = FALSE]
      BY Zenon
    <3> QED
      BY Zenon, <3>1 DEF flushStorageRef
  <2>2. m \in Blocks /\ m[b] \in IntBlock /\ m[b].RefCount \in Nat
    BY Zenon, MemMid, BlockMid DEF MidBlock
  <2>3. no \in BOOLEAN /\ zero \in BOOLEAN
    BY Zenon
  <2> HIDE DEF no, zero
  <2>4. k \in IntBlock /\ SameButFlags(m[b], k)
    BY Zenon, <2>2 DEF IntBlock, SameButFlags
  <2> HIDE DEF k
  <2>5. k \in MidBlock
    BY Zenon, <2>2, <2>4 DEF MidBlock, SameButFlags
  <2>6. /\ clean \in Blocks /\ clean[b] = k
        /\ \A i \in Ids : i # b => clean[i] = m[i]
    BY Zenon, <2>2, <2>5 DEF Blocks
  <2> HIDE DEF clean
  <2>7. Agree(m, Ids) => Agree(clean, Ids)
    BY <2>4, <2>6 DEF Agree, Agrees, SameButFlags
  <2>8. released \in Blocks /\ (Agree(clean, Ids) => Agree(released, Ids))
    BY Zenon, <2>3, <2>6, StorageDependenciesKeep
  <2>9. updated \in Blocks /\ (Agree(clean, Ids) => Agree(updated, Ids))
    BY Zenon, <2>3, <2>6, StorageDependenciesKeep
  <2> HIDE DEF released, updated
  <2>10. /\ dropped \in Blocks /\ dropped[b] = NoBlock
         /\ \A i \in Ids : i # b => dropped[i] = released[i]
    BY Zenon, <2>8, NoBlockType DEF Blocks
  <2> HIDE DEF dropped
  <2>11. Agree(released, Ids) => Agree(dropped, Ids \ {b})
    BY Zenon, <2>10 DEF Agree
  <2>12. Agree(updated, Ids) => Agree(updated, Ids \ {b})
    BY Zenon DEF Agree
  <2>13. dropped[b].cached = FALSE
    BY Zenon, <2>10, NoBlockType
  <2>14. CASE m[b].storageRefCount = 0
    BY Zenon, <2>1, <2>7, <2>8, <2>10, <2>11, <2>13, <2>14
  <2>15. CASE m[b].storageRefCount # 0
    BY Zenon, <2>1, <2>7, <2>9, <2>12, <2>15
  <2> QED
    BY Zenon, <2>14, <2>15

<1>SetBlockStores.
  ASSUME NEW m \in [Ids -> Block], NEW b \in Ids
  PROVE  LET n == setBlock(m, b) IN
         /\ n \in [Ids -> Block]
         /\ Contract(m, disk) => Contract(n, disk)
  <2> USE <1>SetBlockStores
  <2> DEFINE v == m[b].externalStorageRefCount + 1
             x == [m EXCEPT ![b].externalStorageRefCount = v]
             s == addStorageRefCounts(x, Each({b}, 1))
  <2>1. setBlock(m, b) = IF x[b].externalStorageRefCount = 1 THEN s ELSE x
    BY Zenon DEF setBlock
  <2>2. v \in Int /\ v \in Nat
    BY DEF Block
  <2>3. \A i \in Ids : /\ m[i] \in MidBlock
                       /\ m[i].RefCount \in Nat /\ m[i].storageRefCount \in Nat
                       /\ m[i].externalStorageRefCount \in Nat
    BY Zenon, BlockMid
  <2> HIDE DEF v
  <2>4. /\ x \in Blocks /\ SameButFlags(m[b], x[b]) /\ x[b].externalStorageRefCount = v
        /\ \A i \in Ids : i # b => x[i] = m[i]
    BY Zenon, <2>2, MemMid, ExternalKeeps
  <2> HIDE DEF x
  <2>5. \A i \in Ids : /\ x[i] \in MidBlock
                       /\ x[i].RefCount \in Nat /\ x[i].storageRefCount \in Nat
                       /\ x[i].externalStorageRefCount \in Nat
    BY Zenon, <2>2, <2>3, <2>4 DEF SameButFlags, Blocks
  <2>6. x \in [Ids -> Block] /\ (Contract(m, disk) => Contract(x, disk))
    <3>1. \A i \in Ids : x[i] \in Block
      BY Zenon, <2>5, BlockMid
    <3>2. \A d : Agrees(m[b], d) => Agrees(x[b], d)
      BY Zenon, <2>4 DEF Agrees, SameButFlags
    <3>3. x[b].cached = m[b].cached
      BY Zenon, <2>4 DEF SameButFlags
    <3> QED
      BY Zenon, <2>4, <3>1, <3>2, <3>3 DEF Contract, Blocks
  <2>7. s \in [Ids -> Block] /\ (Contract(x, disk) => Contract(s, disk))
    <3> DEFINE k == addStorageRefCount(x[b], 1)
    <3>1. s = [i \in Ids |-> IF i \in {b} THEN addStorageRefCount(x[i], 1) ELSE x[i]]
      BY Zenon DEF addStorageRefCounts, Each
    <3>2. s[b] = k /\ \A i \in Ids : i # b => s[i] = x[i]
      BY Zenon, <3>1
    <3>3. /\ k \in MidBlock
          /\ k.cached = x[b].cached /\ k.Backend = x[b].Backend /\ k.dirty = x[b].dirty
          /\ k.RefCount = x[b].RefCount /\ k.Status = x[b].Status
          /\ k.Stored = x[b].Stored
          /\ k.storageRefCount = x[b].storageRefCount + 1
          /\ k.externalStorageRefCount = x[b].externalStorageRefCount
      <4>1. x[b] \in MidBlock /\ 1 \in Int
        BY <2>5
      <4> QED
        BY <4>1, OneStorageRef, Zenon
    <3> HIDE DEF k
    <3>4. k \in Block
      BY <2>5, <3>3, BlockMid
    <3>5. \A d : Agrees(x[b], d) => Agrees(k, d)
      BY Zenon, <3>3 DEF Agrees
    <3>6. s \in [Ids -> Block]
      <4>1. \A i \in Ids : s[i] \in Block
        BY Zenon, <2>6, <3>2, <3>4
      <4> QED
        BY Zenon, <3>1, <4>1
    <3> QED
      BY Zenon, <3>2, <3>3, <3>5, <3>6 DEF Contract
  <2> QED
    BY Zenon, <2>1, <2>6, <2>7

<1>ReferOrStoreKeeps.
  ASSUME mem \in [Ids -> Block], disk \in [Ids -> Meta],
         NEW i \in Ids, NEW status \in Status, NEW count \in {0, 1}
  PROVE  LET n == setBlock(referOrStore(i, status, count), i) IN
         /\ n \in [Ids -> Block]
         /\ Contract(mem, disk) => Contract(n, disk)
  <2> USE <1>ReferOrStoreKeeps
  <2> DEFINE g == getBlockById(mem, {i})
             k == [NoBlock EXCEPT !.cached = TRUE, !.Status = status]
             w == [mem EXCEPT ![i] = k]
             m == IF Known(i) THEN g ELSE w
             r == IF count = 0 THEN m ELSE addRefCounts(m, Each({i}, 1))
  <2>1. referOrStore(i, status, count) = r
    BY Zenon DEF referOrStore, newBlock
  <2>2. FromBackend(i) \in Block
    <3>1. FromBackend(i).storageRefCount = 0 /\ FromBackend(i).externalStorageRefCount = 0
      BY Zenon DEF FromBackend, NoBlock
    <3>2. FromBackend(i).RefCount \in Nat
      BY Zenon, BackendBlock DEF Meta
    <3> QED
      BY <3>1, <3>2, BackendBlock, BlockMid
  <2>3. /\ g \in [Ids -> Block]
        /\ Known(i) /\ Contract(mem, disk) => Contract(g, disk)
    <3>1. \A j \in Ids : g[j] = IF j \in {i} /\ ~mem[j].cached THEN FromBackend(j) ELSE mem[j]
      BY Zenon DEF getBlockById
    <3>2. g \in [Ids -> Block]
      BY Zenon, <2>2 DEF getBlockById
    <3>3. ASSUME Known(i), Contract(mem, disk), NEW j \in Ids, g[j].cached
          PROVE  Agrees(g[j], disk[j])
      <4>1. CASE j = i /\ ~mem[i].cached
        <5>1. OnDisk(i)
          BY Zenon, <3>3, <4>1 DEF Known
        <5>2. g[i] = FromBackend(i)
          BY Zenon, <3>1, <4>1
        <5> QED
          BY Zenon, <4>1, <5>1, <5>2, BackendBlock DEF Agrees, OnDisk
      <4>2. CASE ~(j = i /\ ~mem[i].cached)
        BY Zenon, <3>1, <3>3, <4>2 DEF Contract
      <4> QED
        BY Zenon, <4>1, <4>2
    <3> QED
      BY Zenon, <3>2, <3>3 DEF Contract
  <2>4. NoBlock \in Block /\ NoBlock.dirty = FALSE
    BY Zenon, NoBlockType
  <2>5. NoBlock.RefCount = 0 /\ NoBlock.Backend = FALSE
    BY Zenon DEF NoBlock
  <2>6. /\ k \in Block /\ k.dirty = FALSE /\ k.RefCount = 0 /\ k.Backend = FALSE
        /\ k.cached = TRUE
    BY Zenon, <2>4, <2>5 DEF Block
  <2> HIDE DEF g, k
  <2>7. /\ w \in [Ids -> Block]
        /\ ~Known(i) /\ Contract(mem, disk) => Contract(w, disk)
    <3>1. w \in [Ids -> Block] /\ w[i] = k /\ \A j \in Ids : j # i => w[j] = mem[j]
      BY Zenon, <2>6
    <3>2. ~Known(i) => Agrees(k, disk[i])
      BY Zenon, <2>6 DEF Known, OnDisk, Agrees
    <3> QED
      BY Zenon, <3>1, <3>2 DEF Contract
  <2> HIDE DEF w
  <2>8. m \in [Ids -> Block] /\ (Contract(mem, disk) => Contract(m, disk))
    BY Zenon, <2>3, <2>7
  <2> HIDE DEF m
  <2>9. r \in [Ids -> Block] /\ (Contract(m, disk) => Contract(r, disk))
    BY Zenon, <2>8, FirstRefKeeps
  <2> HIDE DEF r
  <2> QED
    BY Zenon, <2>1, <2>8, <2>9, <1>SetBlockStores

<1>ContractAgree.
  ASSUME Contract(mem, disk)
  PROVE  Agree(mem, Ids)
  BY Zenon, <1>ContractAgree DEF Contract, Agree

\* A step of the goroutine that only changes blocks and names.
<1>BecomeKeeps.
  ASSUME IInv, pc # "panic", NEW m \in Blocks, Agree(mem, Ids) => Agree(m, Ids),
         NEW next \in PCs, Become(m, next), disk' = disk
  PROVE  /\ mem' \in [Ids -> Block] /\ pc' \in PCs
         /\ KeepsMetadata /\ pc' # "panic" => Contract(mem', disk')
  <2> USE <1>BecomeKeeps
  <2>1. CASE Panics(m)
    BY Zenon, <2>1 DEF Become, IInv, TypeOK, PCs, Stopped
  <2>2. CASE ~Panics(m)
    <3>1. mem' = m /\ pc' = next
      BY Zenon, <2>2 DEF Become
    <3>2. m \in [Ids -> Block] /\ (Agree(m, Ids) => Contract(m, disk))
      BY Zenon, <2>2, <1>NoPanicKeeps DEF Contract
    <3>3. KeepsMetadata => Agree(mem, Ids)
      BY Zenon, <1>ContractAgree DEF IInv
    <3> QED
      BY Zenon, <3>1, <3>2, <3>3
  <2> QED
    BY Zenon, <2>1, <2>2

\* The goroutine's blocks and pc stay as they are.
<1>MemUnchanged.
  ASSUME IInv, UNCHANGED <<mem, disk>>, pc # "panic"
  PROVE  /\ mem' \in [Ids -> Block]
         /\ KeepsMetadata /\ pc' # "panic" => Contract(mem', disk')
  BY Zenon, <1>MemUnchanged DEF IInv, TypeOK

<1>SendKeeps.
  ASSUME IInv, NEW job \in Jobs, Send(job), handle' \in [Handles -> Handle]
  PROVE  IInv'
  <2> USE <1>SendKeeps
  <2>1. queue' \in Seq(Jobs)
    BY DEF Send, IInv, TypeOK
  <2> QED
    BY Zenon, <2>1 DEF Send, IInv, TypeOK, backendVars, Contract, Agrees

\* Open adds an external reference.
<1>ExternalStep.
  ASSUME IInv, NEW i \in Ids, NEW v \in Nat,
         mem' = [mem EXCEPT ![i].externalStorageRefCount = v],
         handle' \in [Handles -> Handle],
         UNCHANGED <<names, queue, api, pc, ops, backendVars, durable>>
  PROVE  IInv'
  <2> USE <1>ExternalStep
  <2>int. v \in Int
    OBVIOUS
  <2>1. mem \in [Ids -> Block]
    BY Zenon DEF IInv, TypeOK
  <2>2. mem \in Blocks
    BY Zenon, <2>1, MemMid
  <2>3. /\ mem' \in Blocks /\ SameButFlags(mem[i], mem'[i])
        /\ mem'[i].externalStorageRefCount = v
        /\ \A j \in Ids : j # i => mem'[j] = mem[j]
    <3>1. ASSUME NEW m \in Blocks
          PROVE  LET n == [m EXCEPT ![i].externalStorageRefCount = v] IN
                 /\ n \in Blocks /\ SameButFlags(m[i], n[i])
                 /\ n[i].externalStorageRefCount = v
                 /\ \A j \in Ids : j # i => n[j] = m[j]
      BY <2>int, ExternalKeeps
    <3> QED
      BY Zenon, <2>2, <3>1
  <2>4. /\ mem[i].RefCount \in Nat /\ mem[i].storageRefCount \in Nat
        /\ mem'[i] \in MidBlock
    BY Zenon, <2>1, <2>3, BlockMid DEF Blocks
  <2>5. mem'[i] \in Block
    BY Zenon, <2>3, <2>4, BlockMid DEF SameButFlags
  <2>6. mem' \in [Ids -> Block]
    BY Zenon, <2>1, <2>3, <2>5 DEF Blocks
  <2>7. Contract(mem, disk) => Contract(mem', disk)
    BY <2>3 DEF Contract, Agrees, SameButFlags
  <2> QED
    BY Zenon, <2>6, <2>7 DEF IInv, TypeOK, backendVars

<1>ClientKeeps.
  ASSUME IInv, Client
  PROVE  IInv'
  <2> USE <1>ClientKeeps
  <2>1. TypeOK
    BY Zenon DEF IInv
  <2>2. ASSUME NEW h \in Handles, Close(h)
        PROVE  IInv'
    <3> DEFINE i == handle[h].id
               v == mem[i].externalStorageRefCount - 1
    <3>1. i \in Ids
      BY Zenon, <2>1, <2>2, HandleTypes DEF Close
    <3>2. v \in Int
      BY <2>1, <3>1 DEF TypeOK, Block
    <3>3. handle' \in [Handles -> Handle]
      <4>1. "closing" \in HandleStates
        BY Zenon DEF HandleStates
      <4>2. \/ handle' = [handle EXCEPT ![h] = Free]
            \/ handle' = [handle EXCEPT ![h] = [st |-> "closing", id |-> i]]
        BY Zenon, <2>2 DEF Close
      <4> QED
        BY <2>1, <3>1, <4>1, <4>2, HandleTypes
    <3>4. LET n == [mem EXCEPT ![i].externalStorageRefCount = v] IN
          n \in Blocks /\ (Agree(mem, Ids) => Agree(n, Ids)) /\ Become(n, pc)
      <4>1. mem \in Blocks
        BY Zenon, <2>1, MemMid DEF TypeOK
      <4>2. Become([mem EXCEPT ![i].externalStorageRefCount = v], pc)
        BY Zenon, <2>2 DEF Close
      <4> HIDE DEF i, v
      <4> QED
        BY Zenon, <3>1, <3>2, <4>1, <4>2, ExternalKeeps, IdSets
    <3>5. UNCHANGED <<names, queue, api, ops, backendVars, durable>>
      BY Zenon, <2>2 DEF Close
    <3> DEFINE n == [mem EXCEPT ![i].externalStorageRefCount = v]
    <3> HIDE DEF i, v
    <3>6. /\ mem' \in [Ids -> Block] /\ pc' \in PCs
          /\ KeepsMetadata /\ pc' # "panic" => Contract(mem', disk')
      <4>1. n \in Blocks /\ (Agree(mem, Ids) => Agree(n, Ids)) /\ Become(n, pc)
        BY Zenon, <3>4
      <4>2. pc # "panic" /\ pc \in PCs /\ disk' = disk
        BY Zenon, <2>1, <3>5 DEF Client, Stopped, TypeOK, PCs, backendVars
      <4> HIDE DEF n
      <4> QED
        BY Zenon, <4>1, <4>2, <1>BecomeKeeps
    <3> QED
      BY Zenon, <2>1, <3>3, <3>5, <3>6 DEF IInv, TypeOK, PCs, backendVars
  <2>3. ASSUME NEW h \in Handles, NEW g \in Handles, Open(h, g)
        PROVE  IInv'
    <3> DEFINE i == handle[h].id
               v == mem[i].externalStorageRefCount + 1
    <3>1. i \in Ids
      BY Zenon, <2>1, <2>3, HandleTypes DEF Open
    <3>2. v \in Nat
      BY <2>1, <3>1 DEF TypeOK, Block
    <3>3. handle' \in [Handles -> Handle]
      BY Zenon, <2>1, <2>3 DEF Open, TypeOK
    <3>4. mem' = [mem EXCEPT ![i].externalStorageRefCount = v]
      BY Zenon, <2>3 DEF Open
    <3>5. UNCHANGED <<names, queue, api, pc, ops, backendVars, durable>>
      BY Zenon, <2>3 DEF Open
    <3> HIDE DEF i, v
    <3> QED
      BY Zenon, <3>1, <3>2, <3>3, <3>4, <3>5, <1>ExternalStep
  <2>4. ASSUME NEW h \in Handles, ReleaseStorageBlockId(h)
        PROVE  IInv'
    <3> DEFINE job == [op |-> "releaseStorage", h |-> h, id |-> handle[h].id]
    <3>1. handle[h].id \in Ids
      BY Zenon, <2>1, <2>4, HandleTypes DEF ReleaseStorageBlockId
    <3>2. job \in Jobs
      BY Zenon, <3>1 DEF Jobs
    <3>3. handle' \in [Handles -> Handle]
      BY Zenon, <2>1, <2>4, <3>1, HandleTypes DEF ReleaseStorageBlockId, HandleStates
    <3>4. Send(job)
      BY Zenon, <2>4 DEF ReleaseStorageBlockId
    <3> QED
      BY Zenon, <3>2, <3>3, <3>4, <1>SendKeeps
  <2>5. ASSUME NEW h \in Handles, SetStatus(h)
        PROVE  IInv'
    <3> DEFINE job == [op |-> "setStatus", h |-> h, id |-> handle[h].id, status |-> "normal"]
    <3>1. handle[h].id \in Ids
      BY Zenon, <2>1, <2>5, HandleTypes DEF SetStatus
    <3>2. job \in Jobs
      BY Zenon, <3>1 DEF Jobs, Status
    <3>3. handle' \in [Handles -> Handle]
      BY Zenon, <2>1, <2>5, <3>1, HandleTypes DEF SetStatus, HandleStates
    <3>4. Send(job)
      BY Zenon, <2>5 DEF SetStatus
    <3> QED
      BY Zenon, <3>2, <3>3, <3>4, <1>SendKeeps
  <2>6. ASSUME NEW h \in Handles, NEW i \in Ids, GetBlockById(h, i)
        PROVE  IInv'
    <3> DEFINE job == [op |-> "get", h |-> h, id |-> i]
    <3>1. job \in Jobs
      BY Zenon DEF Jobs
    <3>2. handle' \in [Handles -> Handle]
      BY Zenon, <2>1, <2>6, HandleTypes DEF GetBlockById, HandleStates
    <3>3. Send(job)
      BY Zenon, <2>6 DEF GetBlockById
    <3> QED
      BY Zenon, <3>1, <3>2, <3>3, <1>SendKeeps
  <2>7. ASSUME NEW h \in Handles, NEW i \in Ids, NEW status \in StoreStatuses,
               NEW count \in {0, 1}, ReferOrStoreBlock(h, i, status, count)
        PROVE  IInv'
    <3> DEFINE job == [op |-> "store", h |-> h, id |-> i, status |-> status, count |-> count]
    <3>1. job \in Jobs
      BY Zenon, StorageAssumption DEF Jobs, Status
    <3>2. handle' \in [Handles -> Handle]
      BY Zenon, <2>1, <2>7, HandleTypes DEF ReferOrStoreBlock, HandleStates
    <3>3. Send(job)
      BY Zenon, <2>7 DEF ReferOrStoreBlock
    <3> QED
      BY Zenon, <3>1, <3>2, <3>3, <1>SendKeeps
  <2>8. ASSUME NEW i \in Ids, ReferBlockId(i) \/ ReleaseBlockId(i)
        PROVE  IInv'
    <3>1. PICK c \in {-1, 1} : Send([op |-> "updateRefCount", id |-> i, count |-> c])
      BY Zenon, <2>8 DEF ReferBlockId, ReleaseBlockId, Release
    <3>2. [op |-> "updateRefCount", id |-> i, count |-> c] \in Jobs
      BY Zenon DEF Jobs
    <3>3. handle' \in [Handles -> Handle]
      BY Zenon, <2>1, <2>8 DEF ReferBlockId, ReleaseBlockId, TypeOK
    <3> QED
      BY Zenon, <3>1, <3>2, <3>3, <1>SendKeeps
  <2>9. ASSUME NEW n \in Names, GetBlockIdByName(n)
        PROVE  IInv'
    <3>1. [op |-> "getName", name |-> n] \in Jobs
      BY Zenon DEF Jobs
    <3>2. handle' \in [Handles -> Handle]
      BY Zenon, <2>1, <2>9 DEF GetBlockIdByName, TypeOK
    <3> QED
      BY Zenon, <2>9, <3>1, <3>2, <1>SendKeeps DEF GetBlockIdByName
  <2>10. ASSUME NEW n \in Names, NEW i \in Ids \cup {None}, SetNameToBlockId(n, i)
         PROVE  IInv'
    <3> DEFINE kept == i \in Protected
    <3>0. kept \in BOOLEAN
      OBVIOUS
    <3>1. [op |-> "setName", name |-> n, id |-> i, kept |-> kept] \in Jobs
      <4> HIDE DEF kept
      <4> QED
        BY Zenon, <3>0 DEF Jobs
    <3>2. handle' \in [Handles -> Handle]
      BY Zenon, <2>1, <2>10 DEF SetNameToBlockId, TypeOK
    <3> QED
      BY Zenon, <2>10, <3>1, <3>2, <1>SendKeeps DEF SetNameToBlockId
  <2>11. ASSUME Flush
         PROVE  IInv'
    <3>1. [op |-> "flush"] \in Jobs
      BY Zenon DEF Jobs
    <3>2. handle' \in [Handles -> Handle]
      BY Zenon, <2>1, <2>11 DEF Flush, TypeOK
    <3> QED
      BY Zenon, <2>11, <3>1, <3>2, <1>SendKeeps DEF Flush
  <2> QED
    BY Zenon, <2>2, <2>3, <2>4, <2>5, <2>6, <2>7, <2>8, <2>9, <2>10, <2>11 DEF Client

<1>GetSetKeeps.
  ASSUME disk \in [Ids -> Meta], NEW m \in Blocks, NEW i \in Ids
  PROVE  LET n == setBlock(getBlockById(m, {i}), i) IN
         n \in Blocks /\ (Agree(m, Ids) => Agree(n, Ids))
  <2> USE <1>GetSetKeeps
  <2> DEFINE g == getBlockById(m, {i})
  <2>1. g \in Blocks /\ (Agree(m, Ids) => Agree(g, Ids))
    BY Zenon, GetKeeps, IdSets
  <2> HIDE DEF g
  <2>2. setBlock(g, i) \in Blocks /\ (Agree(g, Ids) => Agree(setBlock(g, i), Ids))
    BY Zenon, <2>1, <1>SetBlockKeeps, IdSets
  <2> QED
    BY Zenon, <2>1, <2>2 DEF g

<1>GetRefsKeep.
  ASSUME disk \in [Ids -> Meta], NEW m \in Blocks, NEW D \in SUBSET Ids, NEW c \in Int
  PROVE  LET n == addRefCounts(getBlockById(m, D), Each(D, c)) IN
         n \in Blocks /\ (Agree(m, Ids) => Agree(n, Ids))
  <2> USE <1>GetRefsKeep
  <2> DEFINE g == getBlockById(m, D)
  <2>1. g \in Blocks /\ (Agree(m, Ids) => Agree(g, Ids))
    BY Zenon, GetKeeps, IdSets
  <2> HIDE DEF g
  <2>2. LET n == addRefCounts(g, Each(D, c)) IN n \in Blocks /\ (Agree(g, Ids) => Agree(n, Ids))
    BY Zenon, <2>1, RefsKeep, IdSets
  <2> QED
    BY Zenon, <2>1, <2>2 DEF g

<1>GetStorageRefsKeep.
  ASSUME disk \in [Ids -> Meta], NEW m \in Blocks, NEW D \in SUBSET Ids, NEW v \in Int
  PROVE  LET n == addStorageRefCounts(getBlockById(m, D), Each(D, v)) IN
         n \in Blocks /\ (Agree(m, Ids) => Agree(n, Ids))
  <2> USE <1>GetStorageRefsKeep
  <2> DEFINE g == getBlockById(m, D)
  <2>1. g \in Blocks /\ (Agree(m, Ids) => Agree(g, Ids))
    BY GetKeeps, IdSets
  <2> HIDE DEF g
  <2>2. LET n == addStorageRefCounts(g, Each(D, v))
        IN n \in Blocks /\ (Agree(g, Ids) => Agree(n, Ids))
    BY Zenon, <2>1, StorageRefsKeep, IdSets
  <2> QED
    BY Zenon, <2>1, <2>2 DEF g

<1>GetChangeKeeps.
  ASSUME disk \in [Ids -> Meta], NEW m \in Blocks, NEW D \in SUBSET Ids,
         NEW b \in Ids, NEW st \in Status
  PROVE  LET n == changeStatus(getBlockById(m, D), b, st) IN
         n \in Blocks /\ (Agree(m, Ids) => Agree(n, Ids))
  <2> USE <1>GetChangeKeeps
  <2> DEFINE g == getBlockById(m, D)
  <2>1. g \in Blocks /\ (Agree(m, Ids) => Agree(g, Ids))
    BY Zenon, GetKeeps, IdSets
  <2> HIDE DEF g
  <2>2. LET n == changeStatus(g, b, st) IN n \in Blocks /\ (Agree(g, Ids) => Agree(n, Ids))
    BY Zenon, <2>1, <1>ChangeStatusKeeps, IdSets
  <2> QED
    BY Zenon, <2>1, <2>2 DEF g

<1>JobGetBlockByIdKeeps.
  ASSUME IInv, JobGetBlockById
  PROVE  IInv'
  <2> USE <1>JobGetBlockByIdKeeps
  <2> DEFINE i == current.id
             h == current.h
             m == setBlock(getBlockById(mem, {i}), i)
  <2>1. /\ i \in Ids /\ h \in Handles /\ queue' \in Seq(Jobs)
        /\ pc = "idle" /\ pc # "panic"
    <3>1. Take("get") /\ TypeOK
      BY Zenon DEF JobGetBlockById, IInv
    <3> QED
      BY Zenon, <3>1, TakeType, JobFields
  <2>2. handle' \in [Handles -> Handle]
    <3>1. TypeOK /\ "open" \in HandleStates
      BY Zenon DEF IInv, HandleStates
    <3>2. \/ handle' = [handle EXCEPT ![h] = Free]
          \/ handle' = [handle EXCEPT ![h] = [st |-> "open", id |-> i]]
      BY Zenon DEF JobGetBlockById
    <3> QED
      BY <2>1, <3>1, <3>2, HandleTypes
  <2>3. /\ mem' \in [Ids -> Block] /\ pc' \in PCs
        /\ KeepsMetadata /\ pc' # "panic" => Contract(mem', disk')
    <3>1. disk' = disk /\ disk \in [Ids -> Meta] /\ mem \in Blocks
      BY Zenon, MemMid DEF JobGetBlockById, backendVars, IInv, TypeOK
    <3>2. CASE Known(i)
      <4>1. m \in Blocks /\ (Agree(mem, Ids) => Agree(m, Ids))
        BY Zenon, <2>1, <3>1, <1>GetSetKeeps
      <4>2. Become(m, "idle") /\ "idle" \in PCs
        BY Zenon, <3>2 DEF JobGetBlockById, PCs
      <4> HIDE DEF m
      <4> QED
        BY Zenon, <2>1, <3>1, <4>1, <4>2, <1>BecomeKeeps
    <3>3. CASE ~Known(i)
      <4>1. UNCHANGED <<mem, pc, disk>>
        BY Zenon, <3>1, <3>3 DEF JobGetBlockById
      <4> QED
        BY Zenon, <2>1, <4>1, <1>MemUnchanged DEF PCs
    <3> QED
      BY Zenon, <3>2, <3>3
  <2> QED
    BY Zenon, <2>1, <2>2, <2>3 DEF JobGetBlockById, IInv, TypeOK, backendVars, PCs

<1>JobReferOrStoreBlockKeeps.
  ASSUME IInv, JobReferOrStoreBlock
  PROVE  IInv'
  <2> USE <1>JobReferOrStoreBlockKeeps
  <2> DEFINE i == current.id
             h == current.h
             c == current.count
             st == current.status
             m == setBlock(referOrStore(i, st, c), i)
  <2>1. /\ i \in Ids /\ h \in Handles /\ st \in Status /\ c \in {0, 1}
        /\ queue' \in Seq(Jobs) /\ pc = "idle"
    <3>1. Take("store") /\ TypeOK
      BY Zenon DEF JobReferOrStoreBlock, IInv
    <3> QED
      BY Zenon, <3>1, TakeType, JobFields
  <2>2. handle' \in [Handles -> Handle]
    <3>1. TypeOK /\ "open" \in HandleStates
      BY DEF IInv, HandleStates
    <3>2. handle' = [handle EXCEPT ![h] = [st |-> "open", id |-> i]]
      BY Zenon DEF JobReferOrStoreBlock
    <3> QED
      BY Zenon, <2>1, <3>1, <3>2, HandleTypes
  <2>3. m \in [Ids -> Block] /\ (Contract(mem, disk) => Contract(m, disk))
    <3>1. mem \in [Ids -> Block] /\ disk \in [Ids -> Meta]
      BY Zenon DEF IInv, TypeOK
    <3> HIDE DEF i, st, c
    <3> QED
      BY Zenon, <2>1, <3>1, <1>ReferOrStoreKeeps
  <2>4. mem' = m /\ UNCHANGED <<disk, pc>>
    BY Zenon DEF JobReferOrStoreBlock, backendVars
  <2>5. api' \in [Ids -> Int]
    BY <2>1 DEF JobReferOrStoreBlock, IInv, TypeOK
  <2> HIDE DEF m
  <2> QED
    BY Zenon, <2>1, <2>2, <2>3, <2>4, <2>5
       DEF JobReferOrStoreBlock, IInv, TypeOK, backendVars

<1>JobUpdateBlockIdRefCountKeeps.
  ASSUME IInv, JobUpdateBlockIdRefCount
  PROVE  IInv'
  <2> USE <1>JobUpdateBlockIdRefCountKeeps
  <2> DEFINE i == current.id
             c == current.count
             m == addRefCounts(getBlockById(mem, {i}), Each({i}, c))
  <2>1. /\ i \in Ids /\ c \in {-1, 1} /\ queue' \in Seq(Jobs)
        /\ pc = "idle" /\ pc # "panic"
    <3>1. Take("updateRefCount") /\ TypeOK
      BY Zenon DEF JobUpdateBlockIdRefCount, IInv
    <3> QED
      BY Zenon, <3>1, TakeType, JobFields
  <2>2. disk' = disk /\ disk \in [Ids -> Meta] /\ mem \in Blocks /\ {i} \in SUBSET Ids
    BY Zenon, <2>1, MemMid DEF JobUpdateBlockIdRefCount, backendVars, IInv, TypeOK
  <2>3. c \in Int /\ api' \in [Ids -> Int]
    BY <2>1 DEF JobUpdateBlockIdRefCount, IInv, TypeOK
  <2>4. Become(m, "idle") /\ "idle" \in PCs
    BY Zenon DEF JobUpdateBlockIdRefCount, PCs
  <2> HIDE DEF c, i
  <2>5. m \in Blocks /\ (Agree(mem, Ids) => Agree(m, Ids))
    BY Zenon, <2>2, <2>3, <1>GetRefsKeep
  <2> HIDE DEF m
  <2>6. /\ mem' \in [Ids -> Block] /\ pc' \in PCs
        /\ KeepsMetadata /\ pc' # "panic" => Contract(mem', disk')
    BY Zenon, <2>1, <2>2, <2>4, <2>5, <1>BecomeKeeps
  <2> QED
    BY Zenon, <2>1, <2>3, <2>6 DEF JobUpdateBlockIdRefCount, IInv, TypeOK, backendVars, PCs

<1>JobUpdateBlockIdStorageRefCountKeeps.
  ASSUME IInv, JobUpdateBlockIdStorageRefCount
  PROVE  IInv'
  <2> USE <1>JobUpdateBlockIdStorageRefCountKeeps
  <2> DEFINE i == current.id
             h == current.h
             less == -1
             m == addStorageRefCounts(getBlockById(mem, {i}), Each({i}, less))
  <2>1. /\ i \in Ids /\ h \in Handles /\ queue' \in Seq(Jobs)
        /\ pc = "idle" /\ pc # "panic"
    <3>1. Take("releaseStorage") /\ TypeOK
      BY Zenon DEF JobUpdateBlockIdStorageRefCount, IInv
    <3> QED
      BY Zenon, <3>1, TakeType, JobFields
  <2>2. disk' = disk /\ disk \in [Ids -> Meta] /\ mem \in Blocks /\ {i} \in SUBSET Ids
    BY Zenon, <2>1, MemMid DEF JobUpdateBlockIdStorageRefCount, backendVars, IInv, TypeOK
  <2>3. handle' \in [Handles -> Handle]
    BY Zenon, <2>1, HandleTypes DEF JobUpdateBlockIdStorageRefCount, IInv
  <2>4. Become(m, "idle") /\ "idle" \in PCs /\ less \in Int
    BY DEF JobUpdateBlockIdStorageRefCount, PCs
  <2> HIDE DEF less, i
  <2>5. m \in Blocks /\ (Agree(mem, Ids) => Agree(m, Ids))
    BY Zenon, <2>2, <2>4, <1>GetStorageRefsKeep
  <2> HIDE DEF m
  <2>6. /\ mem' \in [Ids -> Block] /\ pc' \in PCs
        /\ KeepsMetadata /\ pc' # "panic" => Contract(mem', disk')
    BY Zenon, <2>1, <2>2, <2>4, <2>5, <1>BecomeKeeps
  <2> QED
    BY Zenon, <2>1, <2>3, <2>6
       DEF JobUpdateBlockIdStorageRefCount, IInv, TypeOK, backendVars, PCs

<1>JobGetBlockIdByNameKeeps.
  ASSUME IInv, JobGetBlockIdByName
  PROVE  IInv'
  <2> USE <1>JobGetBlockIdByNameKeeps
  <2>1. /\ current.name \in Names /\ queue' \in Seq(Jobs) /\ pc = "idle" /\ TypeOK
    <3>1. Take("getName") /\ TypeOK
      BY Zenon DEF JobGetBlockIdByName, IInv
    <3> QED
      BY Zenon, <3>1, TakeType, JobFields
  <2>2. names' \in [Names -> Name]
    BY Zenon, <2>1, NameTypes DEF JobGetBlockIdByName, TypeOK
  <2> QED
    BY Zenon, <2>1, <2>2 DEF JobGetBlockIdByName, IInv, TypeOK, backendVars

<1>JobFlushKeeps.
  ASSUME IInv, JobFlush
  PROVE  IInv'
  <2> USE <1>JobFlushKeeps
  <2>1. queue' \in Seq(Jobs) /\ pc = "idle"
    <3>1. Take("flush") /\ TypeOK
      BY Zenon DEF JobFlush, IInv
    <3> QED
      BY Zenon, <3>1, TakeType
  <2> QED
    BY Zenon, <2>1 DEF JobFlush, IInv, TypeOK, backendVars, FlushSteps

<1>JobSetNameToBlockIdKeeps.
  ASSUME IInv, JobSetNameToBlockId
  PROVE  IInv'
  <2> USE <1>JobSetNameToBlockIdKeeps
  <2> DEFINE nm == current.name
             v == current.id
             n == getName(nm)
             new == {v} \ {None}
             one == 1
             taken == addStorageRefCounts(getBlockById(mem, new), Each(new, one))
             old == IF n.gotStorageRef THEN {n.newValue} ELSE {}
             less == -1
             m == addStorageRefCounts(getBlockById(taken, old), Each(old, less))
             set == [n EXCEPT !.newValue = v, !.gotStorageRef = TRUE]
  <2>1. /\ nm \in Names /\ v \in Ids \cup {None} /\ queue' \in Seq(Jobs)
        /\ pc = "idle" /\ pc # "panic" /\ TypeOK
    <3>1. Take("setName") /\ TypeOK
      BY Zenon DEF JobSetNameToBlockId, IInv
    <3> QED
      BY Zenon, <3>1, TakeType, JobFields
  <2>2. disk' = disk /\ disk \in [Ids -> Meta] /\ mem \in Blocks
    BY Zenon, MemMid DEF JobSetNameToBlockId, backendVars, IInv, TypeOK
  <2>3. n \in Name
    BY Zenon, <2>1, NameTypes
  <2>4. names' \in [Names -> Name]
    <3>1. names' = [names EXCEPT ![nm] = set] \/ names' = [names EXCEPT ![nm] = n]
      BY Zenon DEF JobSetNameToBlockId
    <3> HIDE DEF n
    <3>2. set \in Name
      BY Zenon, <2>1, <2>3 DEF Name
    <3> QED
      BY Zenon, <2>1, <2>3, <3>1, <3>2 DEF TypeOK
  <2>5. \/ pc' \in Stopped /\ UNCHANGED mem
        \/ None \notin old /\ Become(m, "idle")
    BY Zenon DEF JobSetNameToBlockId, takeNewValue, Stopped
  <2>6. new \in SUBSET Ids /\ one \in Int /\ less \in Int /\ "idle" \in PCs
    BY <2>1 DEF PCs
  <2>7. None \notin old => old \in SUBSET Ids
    BY Zenon, <2>3 DEF Name
  <2> HIDE DEF old, new, one, less
  <2>8. taken \in Blocks /\ (Agree(mem, Ids) => Agree(taken, Ids))
    BY Zenon, <2>2, <2>6, <1>GetStorageRefsKeep
  <2> HIDE DEF taken
  <2>9. /\ mem' \in [Ids -> Block] /\ pc' \in PCs
        /\ KeepsMetadata /\ pc' # "panic" => Contract(mem', disk')
    <3>1. CASE pc' \in Stopped /\ UNCHANGED mem
      BY Zenon, <2>1, <2>2, <3>1 DEF IInv, TypeOK, PCs
    <3>2. CASE None \notin old /\ Become(m, "idle")
      <4>1. m \in Blocks /\ (Agree(taken, Ids) => Agree(m, Ids))
        BY Zenon, <2>2, <2>6, <2>7, <2>8, <3>2, <1>GetStorageRefsKeep
      <4>2. Become(m, "idle")
        BY Zenon, <3>2
      <4> HIDE DEF m
      <4> QED
        BY Zenon, <2>1, <2>2, <2>6, <2>8, <4>1, <4>2, <1>BecomeKeeps
    <3> QED
      BY Zenon, <2>5, <3>1, <3>2
  <2> QED
    BY Zenon, <2>1, <2>4, <2>9 DEF JobSetNameToBlockId, IInv, TypeOK, backendVars, PCs

<1>JobSetStorageBlockStatusKeeps.
  ASSUME IInv, JobSetStorageBlockStatus
  PROVE  IInv'
  <2> USE <1>JobSetStorageBlockStatusKeeps
  <2> DEFINE i == current.id
             h == current.h
             st == current.status
             wants == HasDeps(st)
             D == IF wants THEN Deps[i] ELSE {}
             zero == 0
             m == changeStatus(getBlockById(mem, D), i, st)
             r == addStorageRefCounts(m, Each(Deps[i], zero))
             x == IF wants THEN r ELSE m
  <2>1. /\ i \in Ids /\ h \in Handles /\ st \in Status /\ queue' \in Seq(Jobs)
        /\ pc = "idle" /\ pc # "panic"
    <3>1. Take("setStatus") /\ TypeOK
      BY Zenon DEF JobSetStorageBlockStatus, IInv
    <3> QED
      BY Zenon, <3>1, TakeType, JobFields
  <2>2. disk' = disk /\ disk \in [Ids -> Meta] /\ mem \in Blocks
    BY Zenon, MemMid DEF JobSetStorageBlockStatus, backendVars, IInv, TypeOK
  <2>3. handle' \in [Handles -> Handle]
    <3>1. TypeOK /\ "open" \in HandleStates
      BY DEF IInv, HandleStates
    <3>2. handle' = [handle EXCEPT ![h] = [st |-> "open", id |-> i]]
      BY Zenon DEF JobSetStorageBlockStatus
    <3> QED
      BY Zenon, <2>1, <3>1, <3>2, HandleTypes
  <2>4. \/ UNCHANGED <<mem, pc>>
        \/ Become(x, "idle")
        \/ \E seen \in SUBSET (Deps[i] \ missing(i)) :
             Become(addStorageRefCounts(getBlockById(mem, seen), Each(seen, zero)), "idle")
    BY Zenon DEF JobSetStorageBlockStatus
  <2>5. D \in SUBSET Ids /\ Deps[i] \in SUBSET Ids /\ zero \in Int /\ "idle" \in PCs
    BY <2>1, IdSets DEF PCs
  <2> HIDE DEF D, zero, i, st, wants
  <2>6. m \in Blocks /\ (Agree(mem, Ids) => Agree(m, Ids))
    BY Zenon, <2>1, <2>2, <2>5, <1>GetChangeKeeps
  <2> HIDE DEF m
  <2>7. r \in Blocks /\ (Agree(m, Ids) => Agree(r, Ids))
    BY Zenon, <2>5, <2>6, StorageRefsKeep, IdSets
  <2> HIDE DEF r
  <2>8. x \in Blocks /\ (Agree(mem, Ids) => Agree(x, Ids))
    BY Zenon, <2>6, <2>7
  <2> HIDE DEF x
  <2>9. /\ mem' \in [Ids -> Block] /\ pc' \in PCs
        /\ KeepsMetadata /\ pc' # "panic" => Contract(mem', disk')
    <3>1. CASE UNCHANGED <<mem, pc>>
      BY Zenon, <2>1, <2>2, <3>1, <1>MemUnchanged DEF PCs
    <3>2. CASE Become(x, "idle")
      BY Zenon, <2>1, <2>2, <2>5, <2>8, <3>2, <1>BecomeKeeps
    <3>3. ASSUME NEW seen \in SUBSET (Deps[i] \ missing(i)),
                 Become(addStorageRefCounts(getBlockById(mem, seen), Each(seen, zero)), "idle")
          PROVE  /\ mem' \in [Ids -> Block] /\ pc' \in PCs
                 /\ KeepsMetadata /\ pc' # "panic" => Contract(mem', disk')
      <4> DEFINE y == addStorageRefCounts(getBlockById(mem, seen), Each(seen, zero))
      <4>1. seen \in SUBSET Ids
        BY Zenon, <2>5
      <4>2. y \in Blocks /\ (Agree(mem, Ids) => Agree(y, Ids))
        BY Zenon, <2>2, <2>5, <4>1, <1>GetStorageRefsKeep
      <4>3. Become(y, "idle")
        BY Zenon, <3>3
      <4> HIDE DEF y
      <4> QED
        BY Zenon, <2>1, <2>2, <2>5, <4>2, <4>3, <1>BecomeKeeps
    <3> QED
      BY Zenon, <2>4, <3>1, <3>2, <3>3
  <2> QED
    BY Zenon, <2>1, <2>3, <2>9 DEF JobSetStorageBlockStatus, IInv, TypeOK, backendVars, PCs

\* flush()
<1>RenamedKeeps.
  ASSUME disk \in [Ids -> Meta], mem \in Blocks,
         NEW new \in SUBSET Ids, NEW old \in SUBSET Ids
  PROVE  LET n == renamed(new, old) IN
         n \in Blocks /\ (Agree(mem, Ids) => Agree(n, Ids))
  <2> USE <1>RenamedKeeps
  <2> DEFINE one == 1
             less == -1
             referred == addRefCounts(getBlockById(mem, new), Each(new, one))
             moved == addStorageRefCounts(referred, Each(new, less))
             res == addRefCounts(getBlockById(moved, old), Each(old, less))
  <2>1. renamed(new, old) = res
    BY Zenon DEF renamed
  <2>2. one \in Int /\ less \in Int
    OBVIOUS
  <2> HIDE DEF one, less
  <2>3. referred \in Blocks /\ (Agree(mem, Ids) => Agree(referred, Ids))
    BY Zenon, <2>2, <1>GetRefsKeep
  <2> HIDE DEF referred
  <2>4. moved \in Blocks /\ (Agree(referred, Ids) => Agree(moved, Ids))
    BY Zenon, <2>2, <2>3, StorageRefsKeep, IdSets
  <2> HIDE DEF moved
  <2>5. res \in Blocks /\ (Agree(moved, Ids) => Agree(res, Ids))
    BY Zenon, <2>2, <2>4, <1>GetRefsKeep
  <2> QED
    BY Zenon, <2>1, <2>3, <2>4, <2>5

<1>FlushBlockNameKeeps.
  ASSUME IInv, NEW n \in Names, FlushBlockName(n)
  PROVE  IInv'
  <2> USE <1>FlushBlockNameKeeps
  <2> DEFINE new == {names[n].newValue} \ {None}
             old == {names[n].oldValue} \ {None}
             m == renamed(new, old)
             got == names[n].gotStorageRef /\ new = {}
             done == [names[n] EXCEPT !.oldValue = names[n].newValue, !.gotStorageRef = got]
  <2>1. /\ TypeOK /\ pc # "panic" /\ disk' = disk /\ disk \in [Ids -> Meta]
        /\ mem \in Blocks /\ "names" \in PCs
    BY Zenon, MemMid DEF FlushBlockName, IInv, TypeOK, PCs, FlushSteps
  <2>2. /\ names[n] \in Name
        /\ names[n].oldValue \in Ids \cup {None} /\ names[n].newValue \in Ids \cup {None}
    BY Zenon, <2>1, NameTypes DEF TypeOK
  <2>3. new \in SUBSET Ids /\ old \in SUBSET Ids /\ got \in BOOLEAN
    BY Zenon, <2>2
  <2>4. /\ Become(m, "names") /\ names' = [names EXCEPT ![n] = done]
        /\ diskNames' = [diskNames EXCEPT ![n] = names[n].newValue]
        /\ ops' = TRUE /\ UNCHANGED flushVars
    BY Zenon, <2>1, <2>2 DEF FlushBlockName, TypeOK
  <2> HIDE DEF new, old, got
  <2>5. done \in Name
    BY Zenon, <2>2, <2>3 DEF Name
  <2> HIDE DEF done
  <2>6. m \in Blocks /\ (Agree(mem, Ids) => Agree(m, Ids))
    BY Zenon, <2>1, <2>3, <1>RenamedKeeps
  <2> HIDE DEF m
  <2>7. /\ mem' \in [Ids -> Block] /\ pc' \in PCs
        /\ KeepsMetadata /\ pc' # "panic" => Contract(mem', disk')
    BY Zenon, <2>1, <2>4, <2>6, <1>BecomeKeeps
  <2>8. names' \in [Names -> Name] /\ diskNames' \in [Names -> Ids \cup {None}]
    BY Zenon, <2>1, <2>2, <2>4, <2>5 DEF TypeOK
  <2> QED
    BY Zenon, <2>1, <2>4, <2>7, <2>8 DEF IInv, TypeOK, flushVars, PCs

<1>FlushBlockStep.
  ASSUME IInv, NEW b \in Ids, FlushBlock(b)
  PROVE  IInv'
  <2> USE <1>FlushBlockStep
  <2> DEFINE m == flushBlock(mem, b)
             S == Ids \ {b}
             f == flushedMeta(b)
  <2>1. /\ TypeOK /\ pc # "panic" /\ pc \in PCs /\ disk \in [Ids -> Meta]
        /\ mem \in [Ids -> Block] /\ S \in SUBSET Ids
    BY Zenon DEF FlushBlock, IInv, TypeOK, PCs
  <2>2. /\ Become(m, pc) /\ disk' = [disk EXCEPT ![b] = f] /\ ops' = TRUE
        /\ UNCHANGED <<names, diskNames, flushVars>>
    BY Zenon DEF FlushBlock, opsAfter
  <2>3. /\ m \in Blocks
        /\ m[b].cached = mem[b].cached /\ m[b].RefCount = mem[b].RefCount
        /\ m[b].Status = mem[b].Status /\ m[b].dirty = FALSE
        /\ m[b].Backend = (mem[b].RefCount # 0)
        /\ Agree(mem, S) => Agree(m, S)
    BY Zenon, <2>1, FlushBlockKeeps
  <2>4. f \in Meta
    BY Zenon, <2>1, FlushedMetaType
  <2>5. KeepsMetadata /\ Agrees(mem[b], disk[b]) =>
          f.RefCount = mem[b].RefCount /\ (mem[b].RefCount # 0 => f.Status = mem[b].Status)
    BY Zenon, <2>1, FlushedMetaType
  <2> HIDE DEF m, f
  <2>6. disk' \in [Ids -> Meta] /\ disk'[b] = f /\ \A i \in S : disk'[i] = disk[i]
    BY Zenon, <2>1, <2>2, <2>4
  <2>7. /\ mem' \in [Ids -> Block] /\ pc' \in PCs
        /\ KeepsMetadata /\ pc' # "panic" => Contract(mem', disk')
    <3>1. CASE Panics(m)
      BY Zenon, <2>1, <2>2, <3>1 DEF Become, PCs, Stopped
    <3>2. CASE ~Panics(m)
      <4>1. mem' = m /\ pc' = pc
        BY Zenon, <2>2, <3>2 DEF Become
      <4>2. /\ m \in [Ids -> Block]
            /\ Agree(m, S) => \A i \in S : m[i].cached => Agrees(m[i], disk[i])
        BY Zenon, <2>1, <2>3, <3>2, <1>NoPanicKeeps
      <4>3. ASSUME KeepsMetadata
            PROVE  Contract(m, disk')
        <5>1. Contract(mem, disk)
          BY Zenon, <2>1, <4>3 DEF IInv
        <5>2. Agree(mem, S)
          BY Zenon, <5>1 DEF Contract, Agree
        <5>3. \A i \in S : m[i].cached => Agrees(m[i], disk'[i])
          BY Zenon, <2>3, <2>6, <4>2, <5>2
        <5>4. m[b].cached => Agrees(m[b], disk'[b])
          BY Zenon, <2>3, <2>5, <2>6, <4>3, <5>1 DEF Contract, Agrees
        <5> QED
          BY Zenon, <5>3, <5>4 DEF Contract
      <4> QED
        BY Zenon, <2>1, <4>1, <4>2, <4>3
    <3> QED
      BY Zenon, <3>1, <3>2
  <2> QED
    BY Zenon, <2>1, <2>2, <2>6, <2>7 DEF IInv, TypeOK, flushVars, PCs

<1>FlushStorageRefStep.
  ASSUME IInv, NEW b \in Ids, FlushStorageRef(b)
  PROVE  IInv'
  <2> USE <1>FlushStorageRefStep
  <2> DEFINE m == flushStorageRef(mem, b)
             S == Ids \ {b}
  <2>1. /\ TypeOK /\ pc # "panic" /\ pc \in PCs /\ disk \in [Ids -> Meta]
        /\ mem \in [Ids -> Block] /\ S \in SUBSET Ids
    BY Zenon DEF FlushStorageRef, IInv, TypeOK, PCs
  <2>2. Become(m, pc) /\ UNCHANGED <<names, backendVars, flushVars>>
    BY Zenon DEF FlushStorageRef
  <2>3. ops' \in BOOLEAN
    BY Zenon, <2>1 DEF FlushStorageRef, TypeOK
  <2>4. /\ m \in Blocks
        /\ Agree(mem, Ids) => Agree(m, S)
        /\ Agree(mem, Ids) => m[b].cached = FALSE \/ Agree(m, Ids)
    BY Zenon, <2>1, <1>FlushStorageRefKeeps
  <2> HIDE DEF m
  <2>5. /\ mem' \in [Ids -> Block] /\ pc' \in PCs
        /\ KeepsMetadata /\ pc' # "panic" => Contract(mem', disk')
    <3>1. CASE Panics(m)
      BY Zenon, <2>1, <2>2, <3>1 DEF Become, PCs, Stopped
    <3>2. CASE ~Panics(m)
      <4>1. mem' = m /\ pc' = pc /\ disk' = disk
        BY Zenon, <2>2, <3>2 DEF Become, backendVars
      <4>2. /\ m \in [Ids -> Block]
            /\ Agree(m, S) => \A i \in S : m[i].cached => Agrees(m[i], disk[i])
        BY Zenon, <2>1, <2>4, <3>2, <1>NoPanicKeeps
      <4>3. Agree(m, Ids) => Contract(m, disk)
        BY Zenon, <2>4, <3>2, <1>NoPanicKeeps, IdSets DEF Contract
      <4>4. KeepsMetadata => Agree(mem, Ids)
        BY Zenon, <2>1, <1>ContractAgree DEF IInv
      <4>5. KeepsMetadata => Contract(m, disk)
        BY Zenon, <2>4, <4>2, <4>3, <4>4 DEF Contract
      <4> QED
        BY Zenon, <2>1, <4>1, <4>2, <4>5
    <3> QED
      BY <3>1, <3>2
  <2> QED
    BY Zenon, <2>1, <2>2, <2>3, <2>5 DEF IInv, TypeOK, flushVars, backendVars, PCs

\* The steps of flush() that change no block.
<1>FlushControlKeeps.
  ASSUME IInv, FlushNamesDone \/ FlushPassDone \/ FlushStoragePassDone \/ BackendFlush
  PROVE  IInv'
  <2> USE <1>FlushControlKeeps
  <2>1. /\ pc # "panic" /\ pc' \in PCs /\ UNCHANGED <<mem, names, backendVars, api, queue, handle>>
        /\ ops' \in BOOLEAN
    BY Zenon DEF FlushNamesDone, FlushPassDone, FlushStoragePassDone, BackendFlush, flushVars,
           PCs, FlushSteps, IInv, TypeOK
  <2>2. durable' = durable \/ durable' = Snapshot
    BY Zenon DEF FlushNamesDone, FlushPassDone, FlushStoragePassDone, BackendFlush, flushVars
  <2>3. Snapshot \in Durable
    BY Zenon DEF Snapshot, Durable, IInv, TypeOK
  <2> QED
    BY Zenon, <2>1, <2>2, <2>3 DEF IInv, TypeOK, backendVars, PCs

<1>CrashKeeps.
  ASSUME IInv, Crash
  PROVE  IInv'
  <2> USE <1>CrashKeeps
  <2>1. mem' \in [Ids -> Block] /\ \A i \in Ids : mem'[i].cached = FALSE
    BY Zenon, NoBlockType DEF Crash
  <2>2. /\ names' \in [Names -> Name] /\ handle' \in [Handles -> Handle]
        /\ queue' \in Seq(Jobs)
    BY DEF Crash, NoName, Name, Handle
  <2>3. /\ api' \in [Ids -> Int] /\ disk' \in [Ids -> Meta]
        /\ diskNames' \in [Names -> Ids \cup {None}] /\ durable' \in Durable
    BY Zenon DEF Crash, IInv, TypeOK, Durable
  <2>4. Contract(mem', disk')
    BY Zenon, <2>1 DEF Contract
  <2> QED
    BY Zenon, <2>1, <2>2, <2>3, <2>4 DEF Crash, IInv, TypeOK

<1> SUFFICES ASSUME IInv, [Next]_vars
             PROVE  IInv'
  BY Zenon
<1>1. CASE Client
  BY Zenon, <1>1, <1>ClientKeeps
<1>2. CASE Job
  BY Zenon, <1>2, <1>JobGetBlockByIdKeeps, <1>JobReferOrStoreBlockKeeps,
     <1>JobUpdateBlockIdRefCountKeeps, <1>JobUpdateBlockIdStorageRefCountKeeps,
     <1>JobGetBlockIdByNameKeeps, <1>JobSetNameToBlockIdKeeps,
     <1>JobSetStorageBlockStatusKeeps, <1>JobFlushKeeps DEF Job
<1>3. CASE FlushStep
  BY Zenon, <1>3, <1>FlushBlockNameKeeps, <1>FlushBlockStep, <1>FlushStorageRefStep, <1>FlushControlKeeps
     DEF FlushStep
<1>4. CASE Crash
  BY <1>4, <1>CrashKeeps
<1>5. CASE UNCHANGED vars \/ Died
  BY Zenon, <1>5 DEF vars, Died, IInv, TypeOK, Contract, Agrees
<1> QED
  BY Zenon, <1>1, <1>2, <1>3, <1>4, <1>5 DEF Next, Goroutine

\* The flags of a cached block say what the backend holds: BackendContract from the
\* inductive invariant.
LEMMA BackendAgrees ==
  ASSUME IInv, KeepsMetadata
  PROVE  BackendContract
<1> SUFFICES ASSUME pc # "panic", NEW i \in Ids, mem[i].cached
             PROVE  /\ mem[i].Backend = OnDisk(i)
                    /\ mem[i].dirty /\ mem[i].Backend => mem[i].Stored = disk[i]
                    /\ ~mem[i].dirty /\ mem[i].Backend => disk[i] = MetaOf(mem[i])
  BY Zenon DEF BackendContract
<1>1. Agrees(mem[i], disk[i])
  BY Zenon DEF IInv, Contract
<1>2. mem[i].Stored \in Meta /\ disk[i] \in Meta
  BY Zenon DEF IInv, TypeOK, Block
<1>3. \A d, e \in Meta : d.RefCount = e.RefCount /\ d.Status = e.Status => d = e
  BY DEF Meta
<1>4. mem[i].RefCount \in Nat /\ mem[i].Status \in Status
  BY Zenon DEF IInv, TypeOK, Block
<1>5. /\ MetaOf(mem[i]) \in Meta /\ MetaOf(mem[i]).RefCount = mem[i].RefCount
      /\ MetaOf(mem[i]).Status = mem[i].Status
  BY Zenon, <1>4 DEF MetaOf, Meta
<1> QED
  BY Zenon, <1>1, <1>2, <1>3, <1>5 DEF Agrees, OnDisk

\* Every step keeps OpsInv.
LEMMA NextOps ==
  ASSUME TypeOK, OpsInv, [Next]_vars
  PROVE  OpsInv'
<1>JobOps.
  ASSUME OpsInv, Job
  PROVE  OpsInv'
  <2> USE <1>JobOps
  <2>1. ops' = ops /\ ops = FALSE /\ durable' = durable /\ disk' = disk /\ diskNames' = diskNames
    BY Zenon DEF Job, JobGetBlockById, JobReferOrStoreBlock, JobUpdateBlockIdRefCount,
       JobUpdateBlockIdStorageRefCount, JobGetBlockIdByName, JobSetNameToBlockId,
       JobSetStorageBlockStatus, JobFlush, Take, backendVars, OpsInv
  <2> QED
    BY Zenon, <2>1 DEF OpsInv

<1>ClientOps.
  ASSUME OpsInv, Client
  PROVE  OpsInv'
  <2> USE <1>ClientOps
  <2>1. UNCHANGED <<ops, durable, disk, diskNames>> /\ (pc' = pc \/ pc' = "panic")
    BY Zenon DEF Client, Become, ReferOrStoreBlock, GetBlockById, ReferBlockId, ReleaseBlockId,
       SetNameToBlockId, GetBlockIdByName, SetStatus, Flush, Open, Close,
       ReleaseStorageBlockId, Send, backendVars
  <2> QED
    BY Zenon, <2>1 DEF OpsInv

<1>FlushOps.
  ASSUME TypeOK, OpsInv, FlushStep
  PROVE  OpsInv'
  <2> USE <1>FlushOps
  <2>1. CASE \E n \in Names : FlushBlockName(n)
    <3>1. ops' = TRUE /\ pc' # "idle"
      BY Zenon, <2>1 DEF FlushBlockName, Become
    <3> QED
      BY Zenon, <3>1 DEF OpsInv
  <2>2. CASE \E b \in Ids : FlushBlock(b)
    <3>1. ops' = TRUE /\ pc' # "idle"
      BY Zenon, <2>2 DEF FlushBlock, Become, opsAfter
    <3> QED
      BY <3>1 DEF OpsInv
  <2>3. CASE \E b \in Ids : FlushStorageRef(b)
    <3>1. PICK b \in Ids : FlushStorageRef(b)
      BY Zenon, <2>3
    <3>2. /\ pc' # "idle" /\ (ops' = FALSE => ops = FALSE)
          /\ UNCHANGED <<disk, diskNames, durable>>
      BY Zenon, <3>1 DEF FlushStorageRef, Become, backendVars, flushVars, TypeOK
    <3> QED
      BY Zenon, <3>2 DEF OpsInv
  <2>4. CASE FlushNamesDone \/ FlushPassDone \/ FlushStoragePassDone
    <3>1. pc' # "idle" /\ UNCHANGED <<ops, disk, diskNames, durable>>
      BY Zenon, <2>4 DEF FlushNamesDone, FlushPassDone, FlushStoragePassDone, backendVars, flushVars
    <3> QED
      BY Zenon, <3>1 DEF OpsInv
  <2>5. CASE BackendFlush
    BY Zenon, <2>5 DEF BackendFlush, Snapshot, backendVars, OpsInv, TypeOK
  <2> QED
    BY Zenon, <2>1, <2>2, <2>3, <2>4, <2>5 DEF FlushStep

<1>1. CASE Crash
  BY Zenon, <1>1 DEF Crash, OpsInv
<1>2. CASE UNCHANGED vars \/ Died
  BY Zenon, <1>2 DEF vars, Died, OpsInv
<1> QED
  BY Zenon, <1>1, <1>2, <1>JobOps, <1>ClientOps, <1>FlushOps DEF Next, Goroutine
=============================================================================
