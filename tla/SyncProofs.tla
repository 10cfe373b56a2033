----------------------------- MODULE SyncProofs -----------------------------
(***************************************************************************)
(* Synchronization never breaks the references storage relies on: for      *)
(* every set of files, every budget of changes, runs and faults.           *)
(***************************************************************************)
EXTENDS Sync, FiniteSetTheorems, TLAPS

Kinds == {"node", "leaf", "extent"}

(* Every normal block has all it refers to beside it.                      *)
Closed(bs) ==
  \A id \in DOMAIN bs :
    /\ id[1] \in Kinds
    /\ bs[id] = "normal" => References(id) \subseteq DOMAIN bs

(* What setStatus promises when it calls a block normal, on either server  *)
(* at any time: the blocks it refers to are there.                         *)
NormalClosed ==
  \A s \in Servers : \A id \in DOMAIN blocks[s] :
    blocks[s][id] = "normal" => References(id) \subseteq DOMAIN blocks[s]

IInv ==
  /\ DOMAIN blocks = Servers
  /\ \A s \in Servers : Closed(blocks[s])

LEMMA OtherServer == ASSUME NEW s \in Servers PROVE Other(s) \in Servers
  <1>1. \E o \in Servers : o # s
    <2> SUFFICES ASSUME \A o \in Servers : o = s PROVE FALSE
      BY Zenon
    <2>1. Servers = {s}
      BY Zenon
    <2> QED
      BY <2>1, SyncAssumption, FS_Singleton
  <1> QED
    BY Zenon, <1>1 DEF Other

LEMMA ExtentRefs == ASSUME NEW v PROVE References(<<"extent", v>>) = {}
  BY Zenon DEF References

LEMMA LeafRefs == ASSUME NEW v PROVE References(<<"leaf", v>>) = Extents(v)
  BY Zenon DEF References

LEMMA NodeRefs ==
  ASSUME NEW v
  PROVE  References(<<"node", v>>) =
           {<<"leaf", Leaf(v, ino)>> : ino \in {k.ino : k \in DOMAIN v} \ {1}}
  BY Zenon DEF References

LEMMA RefsOfKind ==
  ASSUME NEW id, id[1] \in Kinds, NEW r \in References(id)
  PROVE  /\ r[1] \in Kinds
         /\ \A x \in References(r) : x[1] \in Kinds /\ References(x) = {}
  <1>1. CASE id[1] = "node"
    <2>1. PICK v : r = <<"leaf", v>>
      BY Zenon, <1>1 DEF References
    <2>2. References(r) = Extents(v)
      BY Zenon, <2>1, LeafRefs
    <2> QED
      BY <2>1, <2>2, ExtentRefs DEF Extents, Kinds
  <1>2. CASE id[1] = "leaf"
    <2>1. PICK v : r = <<"extent", v>>
      BY Zenon, <1>2 DEF References, Extents
    <2> QED
      BY Zenon, <2>1, ExtentRefs DEF Kinds
  <1>3. CASE id[1] = "extent"
    BY Zenon, <1>3 DEF References
  <1> QED
    BY Zenon, <1>1, <1>2, <1>3 DEF Kinds

(* The blocks of a tree lead to no block outside.                          *)
LEMMA ClosureClosed ==
  ASSUME NEW tree, NEW id \in Closure(tree)
  PROVE  id[1] \in Kinds /\ References(id) \subseteq Closure(tree)
  <1>1. CASE id = RootId(tree)
    BY Zenon, <1>1 DEF RootId, Closure, Nodes, Kinds
  <1>2. CASE id \in References(RootId(tree))
    <2>1. PICK ino : id = <<"leaf", Leaf(tree, ino)>>
      BY Zenon, <1>2, NodeRefs DEF RootId
    <2>2. References(id) = Extents(Leaf(tree, ino))
      BY Zenon, <2>1, LeafRefs
    <2>3. Extents(Leaf(tree, ino)) \subseteq Extents(tree)
      BY Zenon DEF Extents, Leaf
    <2> QED
      BY Zenon, <2>1, <2>2, <2>3 DEF Closure, Kinds
  <1>3. CASE id \in Extents(tree)
    BY <1>3, ExtentRefs DEF Extents, Kinds
  <1> QED
    BY Zenon, <1>1, <1>2, <1>3 DEF Closure, Nodes

LEMMA ReferOrStoreClosed ==
  ASSUME NEW bs, Closed(bs), NEW ids, NEW status,
         \A id \in ids : id[1] \in Kinds,
         status = "normal" => \A id \in ids : References(id) \subseteq DOMAIN bs \cup ids
  PROVE  Closed(ReferOrStore(bs, ids, status))
  BY Zenon DEF Closed, ReferOrStore

LEMMA SetStatusClosed ==
  ASSUME NEW bs, Closed(bs), NEW id
  PROVE  Closed(SetStatusNormal(bs, id))
  BY Zenon DEF Closed, SetStatusNormal

(* A flush keeps, with a normal block, what it refers to: trees are three  *)
(* blocks deep.                                                            *)
LEMMA KeptClosed ==
  ASSUME NEW bs, Closed(bs), NEW named, NEW handles
  PROVE  Closed([id \in Kept(bs, named, handles) |-> bs[id]])
  <1> DEFINE normal(ids) == {id \in ids : bs[id] = "normal"}
             tops  == (handles \cup {RootId(t) : t \in UNION {named[n] : n \in DOMAIN named}})
                         \cap DOMAIN bs
             below == AllReferences(normal(tops))
             last  == AllReferences(normal(below))
  <1>1. Kept(bs, named, handles) = tops \cup below \cup last
    BY Zenon DEF Kept
  <1>2. \A id \in tops : id \in DOMAIN bs
    BY Zenon
  <1>3. \A id \in below : \E top \in tops : bs[top] = "normal" /\ id \in References(top)
    BY Zenon DEF AllReferences
  <1>4. \A id \in last : \E b \in below : bs[b] = "normal" /\ id \in References(b)
    BY Zenon DEF AllReferences
  <1>5. \A id \in tops : bs[id] = "normal" => References(id) \subseteq below
    BY Zenon DEF AllReferences
  <1>6. \A id \in below : bs[id] = "normal" => References(id) \subseteq last
    BY Zenon DEF AllReferences
  <1>7. \A id \in below : id \in DOMAIN bs
    BY Zenon, <1>2, <1>3 DEF Closed
  <1>8. \A id \in last : id \in DOMAIN bs
    BY Zenon, <1>4, <1>7 DEF Closed
  <1>9. \A id \in last : References(id) = {}
    <2> SUFFICES ASSUME NEW id \in last PROVE References(id) = {}
      BY Zenon
    <2>1. PICK b \in below : id \in References(b)
      BY Zenon, <1>4
    <2>2. PICK top \in tops : b \in References(top)
      BY Zenon, <1>3
    <2>3. top[1] \in Kinds
      BY Zenon, <1>2 DEF Closed
    <2> QED
      BY Zenon, <2>1, <2>2, <2>3, RefsOfKind
  <1> HIDE DEF tops, below, last
  <1> QED
    BY Zenon, <1>1, <1>2, <1>5, <1>6, <1>7, <1>8, <1>9 DEF Closed

LEMMA SavedClosed ==
  ASSUME IInv, NEW s \in Servers
  PROVE  Closed(Saved(s))
  <1>1. Closed(blocks[s])
    BY Zenon DEF IInv
  <1>2. \A id \in Closure(fs[s]) : id[1] \in Kinds /\ References(id) \subseteq Closure(fs[s])
    BY Zenon, ClosureClosed
  <1>3. \A id \in Closure(fs[s]) : References(id) \subseteq DOMAIN blocks[s] \cup Closure(fs[s])
    BY Zenon, <1>2
  <1> QED
    BY Zenon, <1>1, <1>2, <1>3, ReferOrStoreClosed DEF Saved

(* A step that puts a closed set of blocks on one server.                  *)
LEMMA OneServer ==
  ASSUME IInv, NEW s \in Servers, NEW bs, Closed(bs), blocks' = [blocks EXCEPT ![s] = bs]
  PROVE  IInv'
  BY Zenon DEF IInv

LEMMA ChangeInv ==
  ASSUME IInv, NEW s \in Servers, NEW tree, NEW extents, NEW created, NEW removed, NEW conflict,
         Change(s, tree, extents, created, removed, conflict),
         \A id \in extents : id[1] \in Kinds /\ References(id) = {}
  PROVE  IInv'
  <1>1. Closed(blocks[s])
    BY Zenon DEF IInv
  <1>2. Closed(ReferOrStore(blocks[s], extents, "normal"))
    BY Zenon, <1>1, ReferOrStoreClosed
  <1>3. blocks' = [blocks EXCEPT ![s] = ReferOrStore(blocks[s], extents, "normal")]
    BY Zenon DEF Change
  <1> QED
    BY Zenon, <1>2, <1>3, OneServer

LEMMA FlushInv ==
  ASSUME IInv, NEW s \in Servers, NEW handles, FlushWith(s, handles)
  PROVE  IInv'
  <1> DEFINE named == [names[s] EXCEPT !.root = {fs[s]}]
             kept  == [id \in Kept(Saved(s), named, handles) |-> Saved(s)[id]]
  <1>1. Closed(kept)
    BY Zenon, SavedClosed, KeptClosed
  <1>2. blocks' = [blocks EXCEPT ![s] = kept]
    BY Zenon DEF FlushWith
  <1> HIDE DEF kept
  <1> QED
    BY Zenon, <1>1, <1>2, OneServer

LEMMA UserInv == ASSUME IInv, User PROVE IInv'
  <1>1. PICK s \in Servers, ino \in Inodes :
          AddChild(s, ino) \/ WriteFile(s, ino) \/ RemoveChild(s, ino)
    BY Zenon DEF User
  <1>2. \A v : /\ <<"extent", v>>[1] \in Kinds
               /\ References(<<"extent", v>>) = {}
    BY Zenon, ExtentRefs DEF Kinds
  <1>3. CASE AddChild(s, ino)
    <2>1. PICK tree : Change(s, tree, {<<"extent", "data">>}, {ino}, {}, FALSE)
      BY Zenon, <1>3 DEF AddChild
    <2> QED
      BY Zenon, <1>2, <2>1, ChangeInv
  <1>4. CASE WriteFile(s, ino)
    <2>1. PICK tree, conflict : Change(s, tree, {<<"extent", "more">>}, {}, {}, conflict)
      BY Zenon, <1>4 DEF WriteFile
    <2> QED
      BY Zenon, <1>2, <2>1, ChangeInv
  <1>5. CASE RemoveChild(s, ino)
    <2>1. PICK tree, conflict : Change(s, tree, {}, {}, {ino}, conflict)
      BY Zenon, <1>5 DEF RemoveChild
    <2> QED
      BY <2>1, ChangeInv
  <1> QED
    BY Zenon, <1>1, <1>3, <1>4, <1>5

LEMMA CopyInv ==
  ASSUME IInv, NEW t \in Servers, NEW p, CopyBlockTo(t, p)
  PROVE  IInv'
  <1> DEFINE id == Task(t, p)
             bs == ReferOrStore(blocks[t], {id}, "weak")
  <1>1. CASE id \in DOMAIN blocks[t]
    BY Zenon, <1>1 DEF CopyBlockTo, IInv
  <1>2. CASE id \notin DOMAIN blocks[t] /\ id \in DOMAIN blocks[Other(t)]
    <2>1. id[1] \in Kinds
      BY Zenon, <1>2, OtherServer DEF IInv, Closed
    <2>2. Closed(blocks[t])
      BY Zenon DEF IInv
    <2>3. Closed(bs)
      BY Zenon, <2>1, <2>2, ReferOrStoreClosed
    <2>4. blocks' = [blocks EXCEPT ![t] = bs]
      BY Zenon, <1>2 DEF CopyBlockTo, StoreBlock
    <2> HIDE DEF bs
    <2> QED
      BY Zenon, <2>3, <2>4, OneServer
  <1>3. CASE ~(id \in DOMAIN blocks[t] \/ id \in DOMAIN blocks[Other(t)])
    BY Zenon, <1>3 DEF CopyBlockTo, IInv
  <1> QED
    BY Zenon, <1>1, <1>2, <1>3

LEMMA UpgradeInv ==
  ASSUME IInv, NEW t \in Servers, NEW p, UpgradeBlock(t, p)
  PROVE  IInv'
  <1>1. CASE UNCHANGED blocks
    BY Zenon, <1>1 DEF IInv
  <1>2. CASE blocks' = [blocks EXCEPT ![t] = SetStatusNormal(blocks[t], Task(t, p))]
    <2>1. Closed(blocks[t])
      BY DEF IInv
    <2>2. Closed(SetStatusNormal(blocks[t], Task(t, p)))
      BY Zenon, <2>1, SetStatusClosed
    <2> QED
      BY Zenon, <1>2, <2>2, OneServer
  <1> QED
    BY Zenon, <1>1, <1>2 DEF UpgradeBlock, UpgradeBlockNonWeak

LEMMA SyncInv == ASSUME IInv, NEW t \in Servers, Sync(t) PROVE IInv'
  <1>1. CASE SyncRoot(t)
    <2>1. /\ Other(t) \in Servers
          /\ blocks' = [blocks EXCEPT ![Other(t)] = Saved(Other(t))]
      BY Zenon, <1>1, OtherServer DEF SyncRoot, GetBlockIdByName, RootBlock
    <2> QED
      BY Zenon, <2>1, SavedClosed, OneServer
  <1>2. CASE SyncName(t) \/ SyncMerge(t)
    BY Zenon, <1>2 DEF SyncName, SyncMerge, IInv
  <1>3. CASE SyncBase(t)
    <2>1. blocks' = [blocks EXCEPT ![t] = Saved(t)]
      BY Zenon, <1>3 DEF SyncBase
    <2> QED
      BY Zenon, <2>1, SavedClosed, OneServer
  <1>4. CASE \E p \in DOMAIN tasks[t] : CopyBlockTo(t, p) \/ UpgradeBlock(t, p)
    BY Zenon, <1>4, CopyInv, UpgradeInv
  <1> QED
    BY Zenon, <1>1, <1>2, <1>3, <1>4 DEF Sync

(* On both servers every normal block has all it refers to, whatever the   *)
(* two directions of the connector, users, flushes, crashes and restarts   *)
(* do: a weak block becomes normal only when what it needs is there, and   *)
(* no flush drops what a normal block leads to.                            *)
THEOREM NormalBlocksClosed == Spec => []NormalClosed
  <1>1. Init => IInv
    BY DEF Init, IInv, Closed
  <1>2. IInv /\ [Next]_vars => IInv'
    <2> SUFFICES ASSUME IInv, [Next]_vars PROVE IInv'
      BY Zenon
    <2>1. CASE User
      BY Zenon, <2>1, UserInv
    <2>2. CASE \E s \in Servers : Flush(s) \/ RestartServer(s)
      BY Zenon, <2>2, FlushInv DEF Flush, RestartServer
    <2>3. CASE \E s \in Servers : SaveNodePanics(s)
      BY Zenon, <2>3 DEF SaveNodePanics, IInv
    <2>4. CASE \E s \in Servers : Sync(s)
      BY Zenon, <2>4, SyncInv
    <2>5. CASE Run \/ RunEnds \/ ConnectorCrash
      BY Zenon, <2>5 DEF Run, RunEnds, ConnectorCrash, IInv
    <2>6. CASE UNCHANGED vars
      BY Zenon, <2>6 DEF vars, IInv
    <2> QED
      BY Zenon, <2>1, <2>2, <2>3, <2>4, <2>5, <2>6 DEF Next
  <1>3. IInv => NormalClosed
    BY Zenon DEF IInv, Closed, NormalClosed
  <1> QED
    BY <1>1, <1>2, <1>3, PTL DEF Spec
=============================================================================
