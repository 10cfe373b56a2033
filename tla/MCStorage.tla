------------------------------ MODULE MCStorage ------------------------------
(* Small instances of Storage.                                              *)
EXTENDS Storage, TLC

CONSTANTS leaf, left, right, mid, top

\* The list of a block that has i f[i] times.
Lists(f) == [i \in Ids |-> IF i \in DOMAIN f THEN f[i] ELSE 0]
Empty == Lists(<<>>)

\* Two parents that share a dependency: the new and the old version of a
\* copy-on-write node over an unchanged child.
SharedTimes == leaf :> Empty @@ left :> Lists(leaf :> 1) @@ right :> Lists(leaf :> 1)

\* A tree of depth two in which the leaf is also referred to from the top.
ChainTimes ==
  leaf :> Empty @@ mid :> Lists(leaf :> 1) @@ top :> Lists(mid :> 1 @@ leaf :> 1)

\* A leaf of the file system's tree with two extents of the same content.
PairTimes == leaf :> Empty @@ left :> Lists(leaf :> 2)

\* left and right have the same dependencies.
SharedSymmetry == Permutations(Handles) \cup Permutations({left, right})
HandleSymmetry == Permutations(Handles)
=============================================================================
