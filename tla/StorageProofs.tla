--------------------------- MODULE StorageProofs ----------------------------
(***************************************************************************)
(* The theorems about Storage, for every set of blocks, names and handles, *)
(* every graph of references and every length of the queue.                *)
(***************************************************************************)
EXTENDS StorageLemmas

LOCAL INSTANCE FiniteSetTheorems

\* What the proofs use of finite sets is so.
LEMMA CountingHolds == Counting
<1>1. \A S, T : \A f \in [S -> T] :
        IsFiniteSet(S) /\ (\A x, y \in S : f[x] = f[y] => x = y) /\ (\A z \in T : \E x \in S : f[x] = z)
        => Cardinality(T) = Cardinality(S)
  <2> SUFFICES ASSUME NEW S, NEW T, NEW f \in [S -> T], IsFiniteSet(S),
                      \A x, y \in S : f[x] = f[y] => x = y,
                      \A z \in T : \E x \in S : f[x] = z
               PROVE  Cardinality(T) = Cardinality(S)
    BY Zenon
  <2>1. f \in Bijection(S, T)
    BY Zenon DEF Bijection, Injection, Surjection, IsInjective
  <2> QED
    BY Zenon, <2>1, FS_Bijection DEF ExistsBijection
<1>2. \A S, x : IsFiniteSet(S) =>
        /\ IsFiniteSet(S \cup {x}) /\ IsFiniteSet(S \ {x})
        /\ Cardinality(S \cup {x}) = IF x \in S THEN Cardinality(S) ELSE Cardinality(S) + 1
        /\ Cardinality(S \ {x}) = IF x \in S THEN Cardinality(S) - 1 ELSE Cardinality(S)
  BY Zenon, FS_AddElement, FS_RemoveElement
<1>3. \A S, T : IsFiniteSet(S) /\ IsFiniteSet(T) =>
        Cardinality(S \cup T) = Cardinality(S) + Cardinality(T) - Cardinality(S \cap T)
  BY Zenon, FS_Union
<1>4. \A S, T : IsFiniteSet(S) /\ T \subseteq S => IsFiniteSet(T)
  BY Zenon, FS_Subset
<1>5. \A S : IsFiniteSet(S) => Cardinality(S) \in Nat /\ (Cardinality(S) = 0 <=> S = {})
  BY Zenon, FS_CardinalityType, FS_EmptySet
<1>6. IsFiniteSet({}) /\ Cardinality({}) = 0
  BY Zenon, FS_EmptySet
<1>7. \A x : IsFiniteSet({x}) /\ Cardinality({x}) = 1
  BY Zenon, FS_Singleton
<1>8. \A a, b \in Int : IsFiniteSet(a..b)
  BY Zenon, FS_Interval
<1>9. \A S, T : \A f \in [S -> T] :
        IsFiniteSet(S) /\ (\A z \in T : \E x \in S : f[x] = z) => IsFiniteSet(T)
  <2> SUFFICES ASSUME NEW S, NEW T, NEW f \in [S -> T], IsFiniteSet(S),
                      \A z \in T : \E x \in S : f[x] = z
               PROVE  IsFiniteSet(T)
    BY Zenon
  <2>1. f \in Surjection(S, T)
    BY Zenon DEF Surjection
  <2> QED
    BY Zenon, <2>1, FS_Surjection
<1>10. \A S : IsFiniteSet(S) /\ (\A T \in S : IsFiniteSet(T)) => IsFiniteSet(UNION S)
  BY Zenon, FS_UNION
<1>11. \A S, T : IsFiniteSet(S) /\ IsFiniteSet(T) => IsFiniteSet(S \cup T)
  BY Zenon, FS_Union
<1>12. \A x : \A n \in Nat : IsFiniteSet({x} \X (1..n)) /\ Cardinality({x} \X (1..n)) = n
  <2> TAKE x
  <2> TAKE n \in Nat
  <2>1. IsFiniteSet(1..n) /\ Cardinality(1..n) = n
    BY FS_Interval
  <2>2. IsFiniteSet({x}) /\ Cardinality({x}) = 1
    BY Zenon, FS_Singleton
  <2>3. /\ IsFiniteSet({x} \X (1..n))
        /\ Cardinality({x} \X (1..n)) = Cardinality({x}) * Cardinality(1..n)
    BY Zenon, <2>1, <2>2, FS_Product
  <2> QED
    BY <2>1, <2>2, <2>3
<1> QED
  BY <1>1, <1>2, <1>3, <1>4, <1>5, <1>6, <1>7, <1>8, <1>9, <1>10, <1>11, <1>12, PTL DEF Counting

-----------------------------------------------------------------------------
\* The variables keep their types; in particular no count goes below zero
\* without a panic, whatever the clients and flush() do.
THEOREM TypeCorrect == Spec => []TypeOK
<1>1. IInv => TypeOK
  BY Zenon DEF IInv
<1>2. IInv /\ [Next]_vars => IInv'
  BY Zenon, CountingHolds, NextIInv
<1> QED
  BY InitIInv, <1>1, <1>2, PTL DEF Spec

\* What the goroutine believes of the backend is so, with a backend that
\* keeps the metadata it is given: Block.flush calls StoreBlock only for an
\* id that is not stored, UpdateBlock and DeleteBlock only for one that is,
\* with the metadata it is stored with.
THEOREM BackendContractHolds ==
  ASSUME KeepsMetadata
  PROVE  Spec => []BackendContract
<1>1. IInv => BackendContract
  BY Zenon, BackendAgrees
<1>2. IInv /\ [Next]_vars => IInv'
  BY Zenon, CountingHolds, NextIInv
<1> QED
  BY InitIInv, <1>1, <1>2, PTL DEF Spec

\* When flush() skips Backend.Flush because it counted no operation, it
\* loses nothing: between flushes the backend has snapshotted every block
\* and every name it was told, with any backend.
THEOREM SkippedFlushLosesNothing == Spec => []NothingUnsnapshotted
<1>1. Init => OpsInv
  BY DEF Init, Snapshot, OpsInv
<1>2. TypeOK /\ OpsInv /\ [Next]_vars => OpsInv'
  BY Zenon, NextOps
<1>3. OpsInv => NothingUnsnapshotted
  BY Zenon DEF OpsInv, NothingUnsnapshotted
<1> QED
  BY TypeCorrect, <1>1, <1>2, <1>3, PTL DEF Spec
=============================================================================
