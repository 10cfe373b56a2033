----------------------------- MODULE TreeBackend -----------------------------
(***************************************************************************)
(* The tree backend (storage/tree/tree.go, persist.go, locationentry.go,   *)
(* locationslice.go) with its names (storage/nameinblock.go): blocks, free *)
(* areas and the nodes of a tree of both, in one file, under superblocks   *)
(* that Flush writes.                                                      *)
(*                                                                         *)
(* The ibtree is a root over two leaves, "b" with the blocks and "f" with  *)
(* the free areas; a leaf that did not change keeps its place on disk.     *)
(* disk.data gives each block-sized unit of the file what was written      *)
(* there last; reading an area whose units differ gives None.  An area is  *)
(* [off, size] in bytes.  A slice of areas has always one member: grow     *)
(* never refuses, so allocateSlice never goes on to fragments or failure.  *)
(*                                                                         *)
(* Flush is cut at every write, as the process may die between any two.    *)
(***************************************************************************)
EXTENDS Integers, Sequences, FiniteSets, FiniteSetsExt, Functions, SequencesExt

CONSTANTS blockSize, superBlockSize,
          FirstSuperblock,    \* where the second superblock is (1 MiB in the code)
          NodeSize,           \* what a tree node takes
          PendingSize,        \* what a pending list of its own takes
          MaxInline,          \* the longest pending list a superblock has room for
          Ids, Sizes,         \* blocks, and the sizes of their data
          MaxTotal,           \* bound: BytesTotal beyond which nothing is stored
          MaxOps,             \* bound: changes of blocks and names
          MaxCrashes,         \* bound: crashes
          MaxGeneration,      \* bound: flushes
          None

VARIABLES mem, disk, fl, ghost

vars == <<mem, disk, fl, ghost>>

NameBlock == "names"

Area(o, s) == [off |-> o, size |-> s]
Content(kind, val) == [kind |-> kind, val |-> val]

BlockSize(le) == ((le.size + blockSize - 1) \div blockSize) * blockSize

(* ToKeySO and back: sizes come back rounded.                              *)
ToKey(le) == [le EXCEPT !.size = BlockSize(le)]

-----------------------------------------------------------------------------
(* persist.go                                                              *)
Units(le) == (le.off \div blockSize)..((le.off + le.size - 1) \div blockSize)

WriteData(d, le, c) ==
  [data |-> [u \in DOMAIN d.data \cup Units(le) |-> IF u \in Units(le) THEN c ELSE d.data[u]],
   size |-> IF le.off + le.size > d.size THEN le.off + le.size ELSE d.size]

ReadData(d, le) ==
  IF Units(le) \subseteq DOMAIN d.data
  THEN LET got == {d.data[u] : u \in Units(le)}
       IN  IF Cardinality(got) = 1 THEN CHOOSE c \in got : TRUE ELSE None
  ELSE None

-----------------------------------------------------------------------------
(* Superblocks and free space, over the backend's state m.                 *)
superBlockOffset(i) == IF i = 0 THEN 0 ELSE FirstSuperblock * 16^(i - 1)

calculateNumberOfSuperBlocks(s) ==
  IF s = 0 THEN 0 ELSE Cardinality({i \in 0..2 : superBlockOffset(i) <= s})

numberOfSuperBlocks(m) == calculateNumberOfSuperBlocks(m.total)

Op(le, free) == [loc |-> ToKey(le), free |-> free]

addFreeTree(m, le) == [m EXCEPT !.free = @ \cup {ToKey(le)}, !.dirty = @ \cup {"f"}]

(* Delete of a missing key panics.                                         *)
removeFreeTree(m, le) ==
  [m EXCEPT !.free = @ \ {ToKey(le)}, !.dirty = @ \cup {"f"},
            !.panic = @ \/ ToKey(le) \notin m.free]

addFree(m, le) ==
  LET m1 == addFreeTree(m, le)
  IN  [m1 EXCEPT !.used = @ - BlockSize(le),
                 !.pending = IF m.flushing THEN Append(@, Op(le, TRUE)) ELSE @]

removeFree(m, le) ==
  LET m1 == removeFreeTree(m, le)
  IN  [m1 EXCEPT !.used = @ + BlockSize(le),
                 !.pending = IF m.flushing THEN Append(@, Op(le, FALSE)) ELSE @]

RECURSIVE grow(_, _)
grow(m, asize) ==
  LET n     == numberOfSuperBlocks(m)
      ofs   == superBlockOffset(n)
      small == [addFree(m, Area(m.total, ofs - m.total)) EXCEPT
                  !.used = @ + ofs - m.total, !.total = ofs]
      upto  == IF ofs > m.total THEN small ELSE m
  IN  IF n = calculateNumberOfSuperBlocks(m.total + asize)
      THEN [addFree([m EXCEPT !.used = @ + asize], Area(m.total, asize)) EXCEPT !.total = @ + asize]
      ELSE grow([upto EXCEPT !.total = @ + superBlockSize, !.used = @ + superBlockSize], asize)

Before(a, b) == a.size < b.size \/ (a.size = b.size /\ a.off < b.off)

allocateSliceMut(m, size) ==
  LET bsize   == BlockSize(Area(0, size))
      fits(x) == {e \in x.free : e.size >= bsize}
      m1 == IF fits(m) = {} THEN grow(m, bsize) ELSE m
      le == CHOOSE e \in fits(m1) : \A o \in fits(m1) : o = e \/ Before(e, o)
      m2 == removeFree(m1, le)
  IN  [loc |-> Area(le.off, size),
       m   |-> IF le.size > size THEN addFree(m2, Area(le.off + size, le.size - size)) ELSE m2]

allocateSlice(m, size) ==
  LET bsize   == BlockSize(Area(0, size))
      fits(x) == {e \in x.free : e.size >= bsize}
      m1 == IF fits(m) = {} THEN grow(m, bsize) ELSE m
      le == CHOOSE e \in fits(m1) : \A o \in fits(m1) : o = e \/ Before(e, o)
      m2 == removeFree(m1, le)
  IN  [loc |-> Area(le.off, size),
       m   |-> IF le.size > bsize THEN addFree(m2, Area(le.off + bsize, le.size - bsize)) ELSE m2]

flushPending(m) ==
  LET m1 == FoldLeft(LAMBDA x, op : IF op.free THEN addFreeTree(x, op.loc) ELSE removeFreeTree(x, op.loc),
                     m, m.pending)
  IN  [m1 EXCEPT !.pending = <<>>]

-----------------------------------------------------------------------------
(* Init: the superblock of the highest generation whose parts can be read. *)
(* What the loop does for a pending list of its own (free its area, count  *)
(* it as unused) is overwritten by the superblock chosen.                  *)
Fresh ==
  [gen |-> 0, used |-> 0, total |-> 0, pending |-> <<>>, free |-> {}, blocks |-> <<>>,
   nodes |-> [b |-> None, f |-> None, root |-> None], dirty |-> {}, unchanged |-> TRUE,
   superIndex |-> 0, flushing |-> FALSE, panic |-> FALSE, names |-> None, nameBlock |-> FALSE,
   orphaned |-> 0]

Superblocks(d) ==
  LET sb(i) == ReadData(d, Area(superBlockOffset(i), blockSize))
      valid(c) == IF c = None THEN FALSE
                  ELSE IF c.kind # "super" THEN FALSE
                  ELSE IF c.val.pendingLoc = None THEN TRUE
                  ELSE ReadData(d, c.val.pendingLoc) = Content("pending", c.val.list)
  IN  {sb(i).val : i \in {j \in 0..(calculateNumberOfSuperBlocks(d.size) - 1) : valid(sb(j))}}

LoadNode(d, le, kind) ==
  LET c == ReadData(d, le)
  IN  IF c = None THEN None ELSE IF c.kind = kind THEN c.val ELSE None

Load(d) ==
  LET best == CHOOSE s \in Superblocks(d) : \A o \in Superblocks(d) : o.gen <= s.gen
      root == LoadNode(d, best.root, "root")
      b == LoadNode(d, root.b, "b")
      f == LoadNode(d, root.f, "f")
  IN  IF Superblocks(d) = {} THEN Fresh
      ELSE IF root = None THEN [Fresh EXCEPT !.panic = TRUE]
      ELSE IF b = None \/ f = None THEN [Fresh EXCEPT !.panic = TRUE]
      ELSE flushPending([Fresh EXCEPT !.gen = best.gen, !.used = best.used, !.total = best.total,
                           !.pending = best.list, !.free = f, !.blocks = b, !.unchanged = best.list = <<>>,
                           !.orphaned = best.orphaned + IF best.pendingLoc = None THEN 0
                                                        ELSE BlockSize(best.pendingLoc),
                           !.nodes = [b |-> root.b, f |-> root.f, root |-> best.root]])

Init ==
  /\ mem = Fresh
  /\ disk = [data |-> <<>>, size |-> 0]
  /\ fl = None
  /\ ghost = [flushed |-> <<>>, damaged |-> {}, crashes |-> 0, ops |-> 0]

-----------------------------------------------------------------------------
(* Blocks.  One call at a time: all hold the lock.                         *)
Data(id, meta) == IF id = NameBlock THEN Content("names", meta) ELSE Content("data", id)

setBlockData(m, id, bd) ==
  [m EXCEPT !.blocks = [x \in DOMAIN @ \cup {id} |-> IF x = id THEN bd ELSE @[x]],
            !.dirty = @ \cup {"b"}, !.unchanged = FALSE]


DeleteIn(m, id) ==
  LET m1 == addFree(m, m.blocks[id].loc)
  IN  [m1 EXCEPT !.blocks = [x \in DOMAIN @ \ {id} |-> @[x]],
                 !.dirty = @ \cup {"b"}, !.unchanged = FALSE]

(* A call: not during a flush, which holds the lock.                       *)
Call == fl = None /\ ghost.ops < MaxOps

Called == [ghost EXCEPT !.ops = @ + 1]

Put(m, id, size, meta) ==
  LET a == allocateSlice(m, size)
  IN  /\ mem' = setBlockData(a.m, id, [loc |-> a.loc, meta |-> meta])
      /\ disk' = WriteData(disk, a.loc, Data(id, meta))
      /\ ghost' = [Called EXCEPT !.damaged = @ \ {id}]
      /\ UNCHANGED fl

StoreBlock(id, size) ==
  /\ Call /\ id \notin DOMAIN mem.blocks /\ mem.total <= MaxTotal
  /\ Put(mem, id, size, 0)

DeleteBlock(id) ==
  /\ Call /\ id \in DOMAIN mem.blocks \ {NameBlock}
  /\ mem' = DeleteIn(mem, id)
  /\ ghost' = Called
  /\ UNCHANGED <<disk, fl>>

UpdateBlock(id) ==
  /\ Call /\ id \in DOMAIN mem.blocks \ {NameBlock}
  /\ mem' = setBlockData(mem, id, [mem.blocks[id] EXCEPT !.meta = 1 - @])
  /\ ghost' = Called
  /\ UNCHANGED <<disk, fl>>

(* The names are one block, read by getBlock the first time, and deleted   *)
(* and stored again whenever a name is set.                                *)
getBlock(m) ==
  IF m.names # None \/ NameBlock \notin DOMAIN m.blocks THEN m
  ELSE [m EXCEPT !.names = m.blocks[NameBlock].meta, !.nameBlock = TRUE]

SetNameToBlockId(id) ==
  LET m  == getBlock(mem)
      m1 == IF m.nameBlock THEN DeleteIn(m, NameBlock) ELSE m
  IN  /\ Call /\ mem.total <= MaxTotal
      /\ Put([m1 EXCEPT !.names = id, !.nameBlock = TRUE], NameBlock, 1, id)

-----------------------------------------------------------------------------
(* Flush.  fl.free is the tree's free list as committed; allocation goes   *)
(* on in a temporary one, and into the pending list.                       *)
FlushBegin ==
  /\ fl = None /\ ~mem.unchanged /\ mem.total <= MaxTotal /\ mem.gen < MaxGeneration
  /\ mem' = [mem EXCEPT !.flushing = TRUE]
  /\ fl' = [free |-> mem.free,
            nodes |-> [p \in {"b", "f", "root"} |->
                         IF p = "root" \/ p \in mem.dirty THEN None ELSE mem.nodes[p]],
            superIndex |-> None, pendingLoc |-> None, list |-> <<>>]
  /\ UNCHANGED <<disk, ghost>>

(* SaveNode of the next leaf that changed.                                 *)
SaveNodeMut(p) ==
  /\ fl # None
  /\ fl.nodes[p] = None
  /\ p = "f" => fl.nodes["b"] # None
  /\ LET a == allocateSlice(mem, NodeSize)
         loc == IF mem.nodes[p] # None THEN mem.nodes[p] ELSE a.loc
     IN  /\ mem' = IF loc = a.loc THEN a.m ELSE mem
         /\ disk' = WriteData(disk, loc, Content(p, IF p = "b" THEN mem.blocks ELSE fl.free))
         /\ fl' = [fl EXCEPT !.nodes[p] = loc]
         /\ UNCHANGED ghost

SaveNode(p) ==
  /\ fl # None
  /\ fl.nodes[p] = None
  /\ p = "f" => fl.nodes["b"] # None
  /\ LET a == allocateSlice(mem, NodeSize)
     IN  /\ mem' = a.m
         /\ disk' = WriteData(disk, a.loc, Content(p, IF p = "b" THEN mem.blocks ELSE fl.free))
         /\ fl' = [fl EXCEPT !.nodes[p] = a.loc]
         /\ UNCHANGED ghost

(* What of the old tree the new one does not share is freed.               *)
purgeNonCurrentMut(m, new) ==
  LET old == <<m.nodes.b, m.nodes.f, m.nodes.root>>
  IN  IF m.nodes.root = None THEN m ELSE FoldLeft(addFree, m, old)

purgeNonCurrent(m, new) ==
  LET old == SelectSeq(<<m.nodes.b, m.nodes.f, m.nodes.root>>, LAMBDA le : le \notin Range(new))
  IN  IF m.nodes.root = None THEN m ELSE FoldLeft(addFree, m, old)

(* SaveNode of the root, and the purge of the old tree.                    *)
FlushRoot ==
  /\ fl # None
  /\ \A p \in {"b", "f"} : fl.nodes[p] # None
  /\ fl.nodes["root"] = None
  /\ LET a == allocateSlice(mem, NodeSize)
         new == [fl.nodes EXCEPT !["root"] = a.loc]
         m == purgeNonCurrent(a.m, new)
     IN  /\ disk' = WriteData(disk, a.loc, Content("root", [b |-> new["b"], f |-> new["f"]]))
         /\ mem' = [m EXCEPT !.superIndex = @ + 1]
         /\ fl' = [fl EXCEPT !.nodes = new,
                             !.superIndex = (m.superIndex + 1) % numberOfSuperBlocks(m)]
         /\ UNCHANGED ghost

(* A pending list too long for the superblock gets an area of its own.     *)
FlushPendingList ==
  /\ fl # None
  /\ fl.superIndex # None /\ fl.pendingLoc = None /\ Len(mem.pending) > MaxInline
  /\ LET a == allocateSlice(mem, PendingSize)
     IN  /\ mem' = a.m
         /\ disk' = WriteData(disk, a.loc, Content("pending", a.m.pending))
         /\ fl' = [fl EXCEPT !.pendingLoc = a.loc, !.list = a.m.pending]
         /\ UNCHANGED ghost

(* The superblock, and then the state goes on from the committed tree with *)
(* the pending operations applied to it.                                   *)
FlushSuper ==
  /\ fl # None
  /\ fl.superIndex # None
  /\ fl.pendingLoc # None \/ Len(mem.pending) <= MaxInline
  /\ LET sb == [gen |-> mem.gen + 1, used |-> mem.used, total |-> mem.total, root |-> fl.nodes["root"],
                orphaned |-> mem.orphaned, list |-> mem.pending, pendingLoc |-> fl.pendingLoc]
         m1 == [mem EXCEPT !.gen = @ + 1, !.free = fl.free, !.dirty = {}, !.flushing = FALSE,
                           !.nodes = [p \in {"b", "f", "root"} |-> fl.nodes[p]]]
         m2 == IF fl.pendingLoc = None THEN m1 ELSE addFree(m1, fl.pendingLoc)
     IN  /\ disk' = WriteData(disk, Area(superBlockOffset(fl.superIndex), superBlockSize - 1),
                              Content("super", sb))
         /\ mem' = [flushPending(m2) EXCEPT !.unchanged = TRUE]
         /\ fl' = None
         /\ ghost' = [ghost EXCEPT !.flushed = mem.blocks]

Readable(d, id, bd) == ReadData(d, bd.loc) = Data(id, bd.meta)

(* The process dies and the backend is opened again.                       *)
Crash ==
  LET m == Load(disk)
  IN  /\ ghost.crashes < MaxCrashes
      /\ mem' = m
      /\ fl' = None
      /\ ghost' = [ghost EXCEPT !.crashes = @ + 1,
                     !.damaged = {id \in DOMAIN m.blocks : ~Readable(disk, id, m.blocks[id])}]
      /\ UNCHANGED disk

Next ==
  \/ \E id \in Ids : (\E s \in Sizes : StoreBlock(id, s)) \/ DeleteBlock(id) \/ UpdateBlock(id)
  \/ \E id \in Ids : SetNameToBlockId(id)
  \/ FlushBegin \/ SaveNode("b") \/ SaveNode("f") \/ FlushRoot \/ FlushPendingList \/ FlushSuper
  \/ Crash

Spec == Init /\ [][Next]_vars

-----------------------------------------------------------------------------
Parts ==
  <<{Area(superBlockOffset(i), superBlockSize) : i \in 0..(numberOfSuperBlocks(mem) - 1)},
    {mem.blocks[id].loc : id \in DOMAIN mem.blocks},
    Range(mem.nodes) \ {None}>>

(* Outside a flush no byte has two uses: superblocks, the data of blocks,  *)
(* the nodes of the saved tree and the free areas are disjoint and within  *)
(* BytesTotal, and no free area was removed that was not there.            *)
SpaceDisjoint ==
  fl = None =>
    LET areas == Parts[1] \cup Parts[2] \cup Parts[3] \cup mem.free
    IN  /\ ~mem.panic
        /\ \A id1, id2 \in DOMAIN mem.blocks : id1 # id2 => mem.blocks[id1].loc # mem.blocks[id2].loc
        /\ \A a, b \in areas : a = b \/ Units(a) \cap Units(b) = {}
        /\ \A a \in areas : a.off + BlockSize(a) <= mem.total
        /\ (Parts[1] \cup Parts[2] \cup Parts[3]) \cap mem.free = {}


(* Every block that is there reads as what was stored, whatever was stored *)
(* and deleted, flushed and restarted since; only a block that came back   *)
(* with a crash, after its space had been given away, may be damaged.      *)
BlocksReadable ==
  \A id \in DOMAIN mem.blocks \ ghost.damaged : Readable(disk, id, mem.blocks[id])

(* Whenever the process dies, between any two writes of a flush too, what  *)
(* is on disk opens as the state of the last flush: its superblock leads   *)
(* to a whole tree with its blocks, and every block that has not been      *)
(* deleted since has its data.                                             *)
CrashSafe ==
  LET m == Load(disk)
      kept == {id \in DOMAIN m.blocks \cap DOMAIN mem.blocks :
                 /\ m.blocks[id].loc = mem.blocks[id].loc
                 /\ Data(id, m.blocks[id].meta) = Data(id, mem.blocks[id].meta)}
  IN  /\ ~m.panic
      /\ m.gen = mem.gen
      /\ m.blocks = ghost.flushed
      /\ \A id \in kept \ ghost.damaged : Readable(disk, id, m.blocks[id])
=============================================================================
