------------------------------- MODULE IBTree -------------------------------
(***************************************************************************)
(* The immutable B+ tree (ibtree/ibtree.go, ibstack.go, delta.go and       *)
(* ibtransaction.go).  A node is [leafy, kids, bid]; a kid is              *)
(* [key, val, node].  In a leaf val is <<value>>.  In an inner node a kid  *)
(* that has changed carries its node, and one that has been saved carries  *)
(* only its block id; blocks are content addressed, so val is then         *)
(* <<node data>>.  bid says whether the node itself has a block id.        *)
(*                                                                         *)
(* A stack is the path of one transaction: nodes and indexes per level,    *)
(* the level it is at (top), the deepest level with a remembered node      *)
(* (maxtop), whether a leaf got small, and whether the code panicked.      *)
(* Levels and indexes count from 0 as in the code, kids from 1.            *)
(*                                                                         *)
(* Msgsize is the sum of the entries' sizes: a value's own number in a     *)
(* leaf, InnerSize for a reference to a node.                              *)
(***************************************************************************)
EXTENDS Integers, Sequences, SequencesExt, FiniteSets

CONSTANTS NodeMaximumSize, InnerSize,
          MaximumTreeDepth,   \* maximumTreeDepth
          PrefixSpan,         \* how many keys share a prefix
          None

halfSize == NodeMaximumSize \div 2
smallSize == halfSize \div 2

Kid(k, v, n) == [key |-> k, val |-> v, node |-> n]
NewNode(leafy, kids) == [leafy |-> leafy, kids |-> kids, bid |-> FALSE]
NewRoot == NewNode(TRUE, <<>>)

Msgsize(n) ==
  IF n.leafy THEN FoldLeft(LAMBDA s, c : s + c.val[1], 0, n.kids) ELSE InnerSize * Len(n.kids)

NewTransaction(root) ==
  [nodes |-> [i \in 0..MaximumTreeDepth |-> IF i = 0 THEN root ELSE None],
   indexes |-> [i \in 0..MaximumTreeDepth |-> 0],
   top |-> 0, maxtop |-> 0, small |-> FALSE, panic |-> FALSE]

Node(st) == st.nodes[st.top]
Index(st) == st.indexes[st.top]
Root(st) == st.nodes[0]

child(st) ==
  IF Index(st) \in 0..(Len(Node(st).kids) - 1) THEN Node(st).kids[Index(st) + 1] ELSE None

(* CheckNodeStructure: keys ascend.                                        *)
CheckNodeStructure(kids) == \A i \in 2..Len(kids) : kids[i - 1].key < kids[i].key

invalidateSubNodes(st) ==
  [st EXCEPT !.nodes = [i \in DOMAIN @ |-> IF i > st.top /\ i <= st.maxtop THEN None ELSE @[i]],
             !.maxtop = st.top]

setIndexMut(st, i) == [st EXCEPT !.indexes[st.top] = i]

setIndex(st, i) ==
  IF i = Index(st) THEN st ELSE invalidateSubNodes([st EXCEPT !.indexes[st.top] = i])

nextIndex(st) == setIndex(st, Index(st) + 1)

(* Node.childNode: the node in memory, or the one loaded from its block.   *)
NodeChildNode(n, i) ==
  LET c == n.kids[i + 1]
  IN  IF c.node # None THEN c.node ELSE [c.val[1] EXCEPT !.bid = TRUE]

(* Stack.childNode: the remembered node of the next level, if it is that.  *)
childNode(st, i) ==
  IF i \notin 0..(Len(Node(st).kids) - 1) THEN None
  ELSE IF Index(st) = i /\ st.nodes[st.top + 1] # None THEN st.nodes[st.top + 1]
  ELSE NodeChildNode(Node(st), i)

rewriteNodeChildren(st, kids) ==
  LET n == [Node(st) EXCEPT !.bid = FALSE, !.kids = kids]
  IN  invalidateSubNodes(
        [st EXCEPT !.nodes[st.top] = n,
                   !.small = @ \/ (n.leafy /\ Msgsize(n) <= smallSize),
                   !.panic = @ \/ ~CheckNodeStructure(kids)])

(* rewriteAtIndex: insert, replace or (replace with nothing) delete.       *)
rewriteAtIndex(st, replace, c) ==
  LET kids == Node(st).kids
      i == Index(st) + 1
  IN  rewriteNodeChildren(st, IF ~replace THEN InsertAt(kids, i, c)
                              ELSE IF c = None THEN RemoveAt(kids, i)
                              ELSE ReplaceAt(kids, i, c))

popNode(st) == [st EXCEPT !.top = @ - 1]

(* A changed node hung into its parent under the first of its keys.        *)
Dirty(n) == Kid(n.kids[1].key, <<>>, n)

pop(st) ==
  LET n == Node(st)
  IN  rewriteAtIndex(popNode(st), TRUE, IF n.kids = <<>> THEN None ELSE Dirty(n))

push(st, i, n) ==
  LET st1 == setIndex(st, i)
      t   == st1.top + 1
  IN  setIndex([st1 EXCEPT !.top = t, !.maxtop = IF @ < t THEN t ELSE @, !.nodes[t] = n], 0)

pushIndex(st, i) == push(st, i, childNode(st, i))

RECURSIVE popTo(_, _)
popTo(st, level) == IF st.top > level THEN popTo(pop(st), level) ELSE st

-----------------------------------------------------------------------------
(* Moving about.                                                           *)

(* search: in a leaf the first key that is not below; in an inner node the *)
(* last one that is not above.                                             *)
RECURSIVE searchFrom(_, _)
searchFrom(st, key) ==
  LET kids  == Node(st).kids
      below == Cardinality({i \in DOMAIN kids : kids[i].key < key})
      upto  == Cardinality({i \in DOMAIN kids : kids[i].key <= key})
      i     == IF upto = 0 THEN 0 ELSE upto - 1
  IN  IF Node(st).leafy THEN setIndex(st, below)
      ELSE IF kids = <<>> THEN [st EXCEPT !.panic = TRUE]
      ELSE searchFrom(push(st, i, childNode(st, i)), key)

search(st, key) == searchFrom([st EXCEPT !.top = 0], key)

RECURSIVE lastLeaf(_, _)
lastLeaf(st, i) ==
  IF Node(st).leafy THEN setIndex(st, i)
  ELSE LET st1 == pushIndex(st, i) IN lastLeaf(st1, Len(Node(st1).kids) - 1)

RECURSIVE goPreviousLeaf(_)
goPreviousLeaf(st) ==
  IF Index(st) > 0 THEN lastLeaf(st, Index(st) - 1)
  ELSE IF st.top > 0 THEN goPreviousLeaf(popNode(st))
  ELSE IF Index(st) = 0 THEN setIndex(st, -1) ELSE st

RECURSIVE firstLeaf(_, _)
firstLeaf(st, i) == IF Node(st).leafy THEN st ELSE firstLeaf(pushIndex(st, i), 0)

RECURSIVE goNextLeaf(_)
goNextLeaf(st) ==
  LET i == Index(st) + 1
  IN  IF i < Len(Node(st).kids)
      THEN invalidateSubNodes(IF Node(st).leafy THEN setIndex(st, i) ELSE firstLeaf(st, i))
      ELSE IF st.top > 0 THEN goNextLeaf(popNode(st))
      ELSE setIndex(st, Len(Node(st).kids))

searchLesser(st, key) ==
  LET st1 == search(st, key)
      c == child(st1)
  IN  IF c = None THEN goPreviousLeaf(st1)
      ELSE IF c.key >= key THEN goPreviousLeaf(st1) ELSE st1

searchGreaterMut(st, key) ==
  LET st1 == search(st, key)
      c == child(st1)
  IN  IF c = None THEN st1 ELSE IF c.key = key THEN goNextLeaf(st1) ELSE st1

searchGreater(st, key) ==
  LET st1 == search(st, key)
      c == child(st1)
  IN  IF c = None THEN goNextLeaf(st1)
      ELSE IF c.key = key THEN goNextLeaf(st1) ELSE st1

-----------------------------------------------------------------------------
(* commit: hang the path into the root, and then see to small nodes, which *)
(* borrow from a sibling or are merged with it.                            *)
moveFromMut(st, ofs, sib) ==
  LET n    == child(st).node
      oi   == Index(st)
      rest == IF ofs = -1 THEN Front(sib.kids) ELSE Tail(sib.kids)
      c    == IF ofs = -1 THEN Last(sib.kids) ELSE Head(sib.kids)
      st1  == pop(rewriteNodeChildren(push(st, oi + ofs, sib), rest))
      st2  == setIndex(push(st1, oi, n), IF ofs = -1 THEN 0 ELSE Len(n.kids))
      st3  == rewriteAtIndex(st2, FALSE, c)
  IN  rewriteAtIndex(popNode(st3), TRUE, Kid(child(st).key, <<>>, Node(st3)))

moveFrom(st, ofs, sib) ==
  LET n    == child(st).node
      oi   == Index(st)
      rest == IF ofs = -1 THEN Front(sib.kids) ELSE Tail(sib.kids)
      c    == IF ofs = -1 THEN Last(sib.kids) ELSE Head(sib.kids)
      st1  == pop(rewriteNodeChildren(push(st, oi + ofs, sib), rest))
      st2  == setIndex(push(st1, oi, n), IF ofs = -1 THEN 0 ELSE Len(n.kids))
  IN  pop(rewriteAtIndex(st2, FALSE, c))

mergeTo(st, ofs, sib) ==
  LET mine == child(st).node.kids
      si   == IF ofs > 0 THEN Index(st) + ofs - 1 ELSE Index(st) + ofs
      st1  == push(rewriteAtIndex(st, TRUE, None), si, sib)
  IN  pop(rewriteNodeChildren(st1, IF ofs = -1 THEN sib.kids \o mine ELSE mine \o sib.kids))

Rebalance(st) ==
  LET n1  == childNode(st, Index(st) - 1)
      n2  == childNode(st, Index(st) + 1)
      right == IF n1 # None /\ n2 # None THEN Msgsize(n1) < Msgsize(n2) ELSE n1 = None
      sib == IF right THEN n2 ELSE n1
      ofs == IF right THEN 1 ELSE -1
  IN  IF Msgsize(child(st).node) >= smallSize \/ sib = None THEN st
      ELSE IF Msgsize(sib) < halfSize THEN mergeTo(st, ofs, sib) ELSE moveFrom(st, ofs, sib)

(* The kids of a node, from position i on, that are inner and have changed.*)
RECURSIVE goDownLeft(_)
goDownLeft(st) ==
  LET kids == Node(st).kids
      inner == {i \in DOMAIN kids : kids[i].node # None /\ ~kids[i].node.leafy}
      i == CHOOSE x \in inner : \A y \in inner : x <= y
  IN  IF inner = {} THEN st ELSE goDownLeft(push(st, i - 1, kids[i].node))

(* moveRight, or None at the end.                                          *)
moveRight(st) ==
  LET kids == Node(st).kids
      dirty == {i \in DOMAIN kids : i > Index(st) + 1 /\ kids[i].node # None}
      i == CHOOSE x \in dirty : \A y \in dirty : x <= y
  IN  IF dirty # {}
      THEN IF kids[i].node.leafy THEN setIndex(st, i - 1) ELSE goDownLeft(pushIndex(st, i - 1))
      ELSE IF st.top = 0 THEN None ELSE pop(st)

RECURSIVE RebalanceAll(_)
RebalanceAll(st) ==
  LET on  == child(st)
      st1 == IF on.node # None THEN Rebalance(st) ELSE st
      st2 == moveRight(st1)
  IN  IF on = None THEN [st EXCEPT !.panic = TRUE]
      ELSE IF child(st1) # on THEN RebalanceAll(st1)
      ELSE IF st2 = None THEN st1 ELSE RebalanceAll(st2)

iterateMutatingChildLeafFirst(st) ==
  LET st1 == setIndex(st, 0)
  IN  IF Node(st1).leafy THEN st1 ELSE popTo(RebalanceAll(goDownLeft(st1)), 0)

(* A small root takes in its children when they fit.                       *)
checkRoot(st) ==
  LET n    == Node(st)
      subs == [i \in DOMAIN n.kids |-> childNode(st, i - 1)]
      size == FoldLeft(LAMBDA s, c : s + Msgsize(c), 0, subs)
      st1  == rewriteNodeChildren(st, FlattenSeq([i \in DOMAIN subs |-> subs[i].kids]))
  IN  IF n.leafy \/ Msgsize(n) >= smallSize \/ size > NodeMaximumSize THEN st
      ELSE [st1 EXCEPT !.nodes[0].leafy = \E i \in DOMAIN subs : subs[i].leafy]

commit(st) ==
  LET st1 == popTo(st, 0)
  IN  IF ~st1.small THEN st1
      ELSE [checkRoot(iterateMutatingChildLeafFirst(st1)) EXCEPT !.small = FALSE]

-----------------------------------------------------------------------------
(* The operations of a transaction: each gives the stack afterwards.       *)

(* addChildAt: insert, and split what got too large, up to a new root.     *)
RECURSIVE addChildAt(_, _)
addChildAt(st, c) ==
  LET st1  == rewriteAtIndex(st, FALSE, c)
      n    == Node(st1)
      half == Len(n.kids) \div 2
      st2  == rewriteNodeChildren(st1, SubSeq(n.kids, 1, half))
      next == NewNode(n.leafy, SubSeq(n.kids, half + 1, Len(n.kids)))
  IN  IF Msgsize(n) <= NodeMaximumSize THEN st1
      ELSE IF st2.top > 0 THEN addChildAt(nextIndex(pop(st2)), Dirty(next))
      ELSE invalidateSubNodes(
             [st2 EXCEPT !.nodes[0] = NewNode(FALSE, <<Dirty(Node(st2)), Dirty(next)>>)])

Set(st, key, value) ==
  LET st1 == search(st, key)
      c == child(st1)
      new == Kid(key, <<value>>, None)
      found == IF c = None THEN FALSE ELSE c.key = key
  IN  commit(IF ~found THEN addChildAt(st1, new)
             ELSE IF c.val = <<value>> THEN st1 ELSE rewriteAtIndex(st1, TRUE, new))

(* Delete of a key that must be there.                                     *)
Delete(st, key) ==
  LET st1 == search(st, key)
      c == child(st1)
      found == IF c = None THEN FALSE ELSE c.key = key
  IN  IF found THEN commit(rewriteAtIndex(st1, TRUE, None)) ELSE [st1 EXCEPT !.panic = TRUE]

(* DeleteRange: trim the right-hand path and the left-hand path down to    *)
(* where they part, and drop what lies between.                            *)
RECURSIVE trimLeft(_, _)
trimLeft(st, level) ==
  IF st.top <= level THEN st
  ELSE trimLeft(pop(IF Index(st) > 0
                    THEN rewriteNodeChildren(st, SubSeq(Node(st).kids, Index(st) + 1, Len(Node(st).kids)))
                    ELSE st), level)

RECURSIVE trimRight(_, _)
trimRight(st, level) ==
  IF st.top <= level THEN st
  ELSE trimRight(pop(IF Index(st) < Len(Node(st).kids) - 1
                     THEN rewriteNodeChildren(st, SubSeq(Node(st).kids, 1, Index(st) + 1))
                     ELSE st), level)

DeleteRange(st0, key1, key2) ==
  LET l0 == searchLesser(st0, key1)
      r0 == searchGreater(st0, key2)
      same == {i \in 0..l0.top : \A j \in 0..(i - 1) : l0.indexes[j] = r0.indexes[j]}
      level == CHOOSE i \in same : \A j \in same : j <= i
      l  == trimRight(l0, level)
      r  == trimLeft(r0, level)
      i1 == l.indexes[l.top]
      i2 == r.indexes[l.top]
      kids == Node(r).kids
      right == SubSeq(kids, i2 + 1, Len(kids))
  IN  IF l0 = r0 \/ l0.indexes = r0.indexes THEN commit(r0)
      ELSE commit(rewriteNodeChildren(
             [r EXCEPT !.panic = @ \/ l.panic],
             IF i1 < 0 THEN right ELSE SubSeq(kids, 1, i1) \o <<child(l)>> \o right))

(* Get, NextKey and PrevKey: the stack stays where the search ended, at    *)
(* level 0; 0 stands for nil.                                              *)
Get(st, key) ==
  LET st1 == search(st, key)
      c == child(st1)
  IN  [st |-> [st1 EXCEPT !.top = 0],
       res |-> IF c = None THEN 0 ELSE IF c.key = key THEN c.val[1] ELSE 0]

Found(st) == [st |-> [st EXCEPT !.top = 0], res |-> IF child(st) = None THEN 0 ELSE child(st).key]

NextKey(st, key) == Found(searchGreater(st, key))

PrevKey(st, key) == Found(searchLesser(st, key))

(* SubTree: the keys under one prefix, as a tree of their own.  A key with *)
(* prefix p is p * PrefixSpan plus the key it has in the subtree; -1 is    *)
(* nil there.                                                              *)
addTreePrefix(p, key) == p * PrefixSpan + key

stripTreePrefix(p, key) ==
  IF key = 0 \/ key \div PrefixSpan # p THEN -1 ELSE key % PrefixSpan

SubNextKey(st, p, key) ==
  LET r == NextKey(st, addTreePrefix(p, key)) IN [r EXCEPT !.res = stripTreePrefix(p, @)]

SubPrevKey(st, p, key) ==
  LET r == PrevKey(st, addTreePrefix(p, key)) IN [r EXCEPT !.res = stripTreePrefix(p, @)]

(* CommitTo: everything that has changed is saved, children first.         *)
RECURSIVE CommitTo(_)
CommitTo(n) ==
  IF n.bid THEN n
  ELSE [n EXCEPT !.bid = TRUE,
                 !.kids = IF n.leafy THEN @
                          ELSE [i \in DOMAIN @ |->
                                  IF @[i].node = None THEN @[i]
                                  ELSE Kid(@[i].key, <<[CommitTo(@[i].node) EXCEPT !.bid = FALSE]>>, None)]]

-----------------------------------------------------------------------------
(* IterateDelta: the callbacks for what differs between two trees, walking *)
(* both at once and stepping over kids that are the same.  acc holds the   *)
(* callbacks so far, <<old, new>>, None for a nil.                         *)
SameChildMut(st0, st) ==
  /\ child(st) # None /\ child(st0) # None
  /\ Node(st).leafy = Node(st0).leafy
  /\ child(st).key = child(st0).key /\ child(st).val = child(st0).val

SameChild(st0, st) ==
  /\ child(st) # None /\ child(st0) # None
  /\ Node(st).leafy = Node(st0).leafy
  /\ child(st) = child(st0)

RECURSIVE DeltaFrom(_, _, _)
DeltaFrom(st0, st, acc) ==
  LET c0 == child(st0)
      c  == child(st)
      l0 == Node(st0).leafy
      l  == Node(st).leafy
      apart == IF c = None \/ c0 = None THEN TRUE ELSE c.key # c0.key
      older == IF c = None THEN TRUE ELSE IF c0 = None THEN FALSE ELSE c.key > c0.key
  IN  IF c0 = None /\ st0.top > 0 THEN DeltaFrom(nextIndex(popNode(st0)), st, acc)
      ELSE IF c = None /\ st.top > 0 THEN DeltaFrom(st0, nextIndex(popNode(st)), acc)
      ELSE IF c = None /\ c0 = None THEN acc
      ELSE IF SameChild(st0, st) THEN DeltaFrom(nextIndex(st0), nextIndex(st), acc)
      ELSE IF apart /\ older
      THEN IF l0 THEN DeltaFrom(nextIndex(st0), st, Append(acc, <<c0, None>>))
           ELSE DeltaFrom(pushIndex(st0, Index(st0)), st, acc)
      ELSE IF apart
      THEN IF l THEN DeltaFrom(st0, nextIndex(st), Append(acc, <<None, c>>))
           ELSE DeltaFrom(st0, pushIndex(st, Index(st)), acc)
      ELSE IF l /\ l0 THEN DeltaFrom(nextIndex(st0), nextIndex(st), Append(acc, <<c0, c>>))
      ELSE DeltaFrom(IF l0 THEN st0 ELSE pushIndex(st0, Index(st0)),
                     IF l THEN st ELSE pushIndex(st, Index(st)), acc)

IterateDelta(n, original) == DeltaFrom(NewTransaction(original), NewTransaction(n), <<>>)

-----------------------------------------------------------------------------
(* A tree in use: transaction after transaction on it, and between two of  *)
(* them sometimes a save, which leaves only the root in memory.  entries   *)
(* is the map the tree stands for; base and baseEntries are the tree and   *)
(* the map as the transaction found them; answer is what the last read     *)
(* returned and what it should have.  A run starts from a tree that one of *)
(* Builds, a sequence of <<key, value>> to set, made, and goes on for      *)
(* MaxOps operations.                                                      *)
CONSTANTS Keys, Values, Builds, MaxOps

VARIABLES stack, entries, base, baseEntries, answer, ops

vars == <<stack, entries, base, baseEntries, answer, ops>>

Asked(got, want) == [got |-> got, want |-> want]
Nothing == Asked(0, 0)

With(map, k, v) == [x \in DOMAIN map \cup {k} |-> IF x = k THEN v ELSE map[x]]

Init ==
  \E b \in Builds :
    /\ stack = FoldLeft(LAMBDA st, kv : Set(st, kv[1], kv[2]), NewTransaction(NewRoot), b)
    /\ entries = FoldLeft(LAMBDA map, kv : With(map, kv[1], kv[2]), [k \in {} |-> 0], b)
    /\ base = Root(stack)
    /\ baseEntries = entries
    /\ answer = Nothing
    /\ ops = 0

Write(st, map) ==
  /\ stack' = st
  /\ entries' = map
  /\ answer' = Nothing
  /\ UNCHANGED <<base, baseEntries>>

Without(map, S) == [k \in DOMAIN map \ S |-> map[k]]

DoSet ==
  \E k \in Keys, v \in Values :
    Write(Set(stack, k, v), With(entries, k, v))

(* A file system's tree always keeps the entry of its root directory:      *)
(* nothing deletes the last entry (an inner root that loses its last child *)
(* would stay behind, and the next search in it panic).                    *)
KeepsOne(S) == ~(DOMAIN entries \subseteq S)

DoDelete ==
  \E k \in DOMAIN entries :
    /\ KeepsOne({k})
    /\ Write(Delete(stack, k), Without(entries, {k}))

DoDeleteRange ==
  \E k1, k2 \in Keys :
    /\ k1 <= k2
    /\ KeepsOne(k1..k2)
    /\ Write(DeleteRange(stack, k1, k2), Without(entries, k1..k2))

Read(r, want) ==
  /\ stack' = r.st
  /\ answer' = Asked(r.res, want)
  /\ UNCHANGED <<entries, base, baseEntries>>

Least(S) == IF S = {} THEN 0 ELSE CHOOSE x \in S : \A y \in S : x <= y
Greatest(S) == IF S = {} THEN 0 ELSE CHOOSE x \in S : \A y \in S : y <= x

DoGet == \E k \in Keys : Read(Get(stack, k), IF k \in DOMAIN entries THEN entries[k] ELSE 0)

DoNextKey == \E k \in Keys : Read(NextKey(stack, k), Least({x \in DOMAIN entries : x > k}))

DoPrevKey == \E k \in Keys : Read(PrevKey(stack, k), Greatest({x \in DOMAIN entries : x < k}))

Under(p) == {k \in DOMAIN entries : k \div PrefixSpan = p}
InSub(p, k) == IF k = 0 THEN -1 ELSE k - p * PrefixSpan

DoSubNextKey ==
  \E key \in Keys :
    LET p == key \div PrefixSpan
    IN  Read(SubNextKey(stack, p, key % PrefixSpan), InSub(p, Least({x \in Under(p) : x > key})))

DoSubPrevKey ==
  \E key \in Keys :
    LET p == key \div PrefixSpan
    IN  Read(SubPrevKey(stack, p, key % PrefixSpan), InSub(p, Greatest({x \in Under(p) : x < key})))

Begin(root) ==
  /\ stack' = NewTransaction(root)
  /\ base' = root
  /\ baseEntries' = entries
  /\ answer' = Nothing
  /\ UNCHANGED entries

DoNewTransaction == Begin(Root(stack))

DoCommitTo == Begin(CommitTo(Root(stack)))

Next ==
  /\ ops < MaxOps
  /\ ops' = ops + 1
  /\ \/ DoSet \/ DoDelete \/ DoDeleteRange
     \/ DoGet \/ DoNextKey \/ DoPrevKey \/ DoSubNextKey \/ DoSubPrevKey
     \/ DoNewTransaction \/ DoCommitTo

Spec == Init /\ [][Next]_vars

-----------------------------------------------------------------------------
RECURSIVE Leaves(_)
Leaves(n) ==
  IF n.leafy THEN n.kids
  ELSE FlattenSeq([i \in DOMAIN n.kids |-> Leaves(NodeChildNode(n, i - 1))])

RECURSIVE Shaped(_, _)
Shaped(n, depth) ==
  IF n.leafy THEN depth = 0
  ELSE \A i \in DOMAIN n.kids :
         LET c == NodeChildNode(n, i - 1)
         IN  c.kids # <<>> /\ n.kids[i].key = c.kids[1].key /\ Shaped(c, depth - 1)

(* Whatever sequence of Set, Delete, DeleteRange and reads a transaction   *)
(* makes over its one remembered path, its tree holds exactly the entries  *)
(* of the map, in order, and nothing panicked.                             *)
HoldsEntries ==
  LET kids == Leaves(Root(stack))
  IN  /\ ~stack.panic
      /\ CheckNodeStructure(kids)
      /\ {<<kids[i].key, kids[i].val[1]>> : i \in DOMAIN kids}
         = {<<k, entries[k]>> : k \in DOMAIN entries}

(* Splits, merges, borrowing and range deletion keep the shape: leaves at  *)
(* one depth, no empty node below the root, and every inner key the first  *)
(* key of its subtree, without which search goes astray.                   *)
ShapeKept == \E depth \in 0..MaximumTreeDepth : Shaped(Root(stack), depth)

(* Get, NextKey and PrevKey, of the tree and of a SubTree, answer as the   *)
(* map does, from whatever position and remembered nodes earlier           *)
(* operations left.                                                        *)
ReadsRight == answer.got = answer.want

(* IterateDelta from the transaction's base to its tree reports every      *)
(* entry that was added, removed or changed, once and in key order, and    *)
(* nothing else: what Merge applies when the commit lost the race.         *)
DeltaExact ==
  LET ds == IterateDelta(Root(stack), base)
      old(d) == IF d[1] = None THEN 0 ELSE d[1].val[1]
      new(d) == IF d[2] = None THEN 0 ELSE d[2].val[1]
      key(d) == IF d[1] = None THEN d[2].key ELSE d[1].key
      in(map, k) == IF k \in DOMAIN map THEN map[k] ELSE 0
  IN  /\ \A i \in 2..Len(ds) : key(ds[i - 1]) < key(ds[i])
      /\ {<<key(ds[i]), old(ds[i]), new(ds[i])>> : i \in DOMAIN ds}
         = {<<k, in(baseEntries, k), in(entries, k)>> :
              k \in {x \in Keys : in(baseEntries, x) # in(entries, x)}}
=============================================================================
