------------------------- MODULE StorageInvariants --------------------------
(***************************************************************************)
(* The inductive invariants of Storage, and the notions that the proofs    *)
(* about it are in terms of.                                               *)
(***************************************************************************)
EXTENDS Storage

-----------------------------------------------------------------------------
(***************************************************************************)
(* Finite sets                                                             *)
(***************************************************************************)

\* What the proofs use of finite sets. The lemmas take it as a hypothesis;
\* StorageProofs proves it (CountingHolds), so no theorem depends on it.
Counting ==
  /\ IsFiniteSet({}) /\ Cardinality({}) = 0
  /\ \A S : IsFiniteSet(S) => Cardinality(S) \in Nat /\ (Cardinality(S) = 0 <=> S = {})
  /\ \A x : IsFiniteSet({x}) /\ Cardinality({x}) = 1
  /\ \A a, b \in Int : IsFiniteSet(a..b)
  /\ \A S, T : IsFiniteSet(S) /\ T \subseteq S => IsFiniteSet(T)
  /\ \A S, x : IsFiniteSet(S) =>
       /\ IsFiniteSet(S \cup {x}) /\ IsFiniteSet(S \ {x})
       /\ Cardinality(S \cup {x}) = IF x \in S THEN Cardinality(S) ELSE Cardinality(S) + 1
       /\ Cardinality(S \ {x}) = IF x \in S THEN Cardinality(S) - 1 ELSE Cardinality(S)
  /\ \A S, T : IsFiniteSet(S) /\ IsFiniteSet(T) =>
       Cardinality(S \cup T) = Cardinality(S) + Cardinality(T) - Cardinality(S \cap T)
  /\ \A S, T : \A f \in [S -> T] :
       IsFiniteSet(S) /\ (\A x, y \in S : f[x] = f[y] => x = y) /\ (\A z \in T : \E x \in S : f[x] = z)
       => Cardinality(T) = Cardinality(S)
  /\ \A S, T : \A f \in [S -> T] :
       IsFiniteSet(S) /\ (\A z \in T : \E x \in S : f[x] = z) => IsFiniteSet(T)
  /\ \A S : IsFiniteSet(S) /\ (\A T \in S : IsFiniteSet(T)) => IsFiniteSet(UNION S)
  /\ \A S, T : IsFiniteSet(S) /\ IsFiniteSet(T) => IsFiniteSet(S \cup T)
  /\ \A x : \A n \in Nat : IsFiniteSet({x} \X (1..n)) /\ Cardinality({x} \X (1..n)) = n

(***************************************************************************)
(* A block in the middle of an operation: a count may have gone below zero *)
(* (the operation then panics), but RefCount only on a dirty block.        *)
(***************************************************************************)
IntBlock ==
  [cached : BOOLEAN, RefCount : Int, Status : Status, dirty : BOOLEAN,
   Stored : Meta, Backend : BOOLEAN,
   storageRefCount : Int, externalStorageRefCount : Int,
   haveDiskRefs : BOOLEAN, haveStorageRefs : BOOLEAN, dirtyRef : BOOLEAN]

MidBlock == {b \in IntBlock : b.dirty \/ b.RefCount \in Nat}

\* What block b knows of the metadata d the backend has for it.
Agrees(b, d) ==
  /\ b.Backend = (d.RefCount # 0)
  /\ b.dirty => /\ b.Stored.RefCount = d.RefCount
                /\ b.Backend => b.Stored.Status = d.Status
  /\ ~b.dirty => /\ b.RefCount = d.RefCount
                 /\ b.Backend => b.Status = d.Status

\* The blocks m of an operation agree with the backend on S, except for those
\* looked up in vain.
Agree(m, S) ==
  \A i \in S : /\ mem[i].cached => m[i].cached
               /\ m[i].cached /\ Known(i) => Agrees(m[i], disk[i])

(***************************************************************************)
(* The operations on all blocks keep their types and the agreement with    *)
(* the backend.                                                            *)
(***************************************************************************)
Blocks == [Ids -> MidBlock]

\* y is x up to the flags that say which dependencies are held.
SameButFlags(x, y) ==
  /\ y.cached = x.cached /\ y.RefCount = x.RefCount /\ y.Status = x.Status
  /\ y.dirty = x.dirty /\ y.Stored = x.Stored /\ y.Backend = x.Backend
  /\ y.storageRefCount = x.storageRefCount

\* Every block that is cached agrees with what the backend, d, has.
Contract(m, d) == \A i \in Ids : m[i].cached => Agrees(m[i], d[i])

\* v says what an operation adds to some of the blocks.
Amounts(v) == DOMAIN v \subseteq Ids /\ \A i \in DOMAIN v : v[i] \in Int

(***************************************************************************)
(* The inductive invariant.  The contract alone is not inductive: that a   *)
(* step does what it should to a block rests on the block's type.          *)
(***************************************************************************)
PCs == {"idle"} \cup Stopped \cup FlushSteps

IInv == TypeOK /\ (KeepsMetadata /\ pc # "panic" => Contract(mem, disk))

-----------------------------------------------------------------------------
(***************************************************************************)
(* flush() skips Backend.Flush when it counted no operation.               *)
(***************************************************************************)
OpsInv ==
  /\ pc = "idle" => ops = FALSE
  /\ ops = FALSE => durable.disk = disk /\ durable.names = diskNames
=============================================================================
