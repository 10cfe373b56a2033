-------------------------------- MODULE Sync --------------------------------
(***************************************************************************)
(* Two file systems kept in step: the server of each (server/server.go)    *)
(* and the connector between them (connector/connector.go,                 *)
(* cmd/tfhfs-connector).  A run of the connector synchronizes both ways at *)
(* once.  One way: read the root of the source, copy to the target the     *)
(* blocks it lacks, every block by a goroutine of its own and as a weak    *)
(* one until the blocks it refers to are there, name the copy, and let the *)
(* target merge what changed in it since the last time.                    *)
(*                                                                         *)
(* An identifier stands for the content of its block: a tree has a root    *)
(* node, with the keys of the root directory, one leaf node per file under *)
(* it, and the data extents of the file under its leaf.  Block storage is  *)
(* reduced to what the servers use of it: which blocks exist and which of  *)
(* them are weak, names, and handles.                                      *)
(***************************************************************************)
EXTENDS Merge, Sequences, SequencesExt, FiniteSets

CONSTANTS Servers,     \* the two servers
          Inodes,      \* numbers of the files users create
          Faults,      \* whether connectors crash and servers restart
          MaxCost      \* bound: what changes, runs and faults cost together

ASSUME SyncAssumption ==
  /\ Cardinality(Servers) = 2
  /\ Inodes \subseteq Nat \ {0, 1}
  /\ Faults \in BOOLEAN
  /\ MaxCost \in Nat

VARIABLES fs,      \* per server: the tree of its file system
          names,   \* per server: what storage names root, other and base
          blocks,  \* per server: its blocks, with their status
          held,    \* per server: blocks with a handle nobody closes
          listed,  \* per server: the blocks its "sync" tree lists
          at,      \* per target: how far the synchronization into it is
          fid,     \* per target: the root that is copied
          tasks,   \* per target: the goroutines of copyBlockTo
          clock,   \* the time, one tick per change
          ghost    \* what users did and what went wrong

vars == <<fs, names, blocks, held, listed, at, fid, tasks, clock, ghost>>

Other(s) == CHOOSE o \in Servers : o # s

(* Blocks and their references (iterateNodeReferences).                    *)
Leaf(tree, ino) == [k \in {x \in DOMAIN tree : x.ino = ino} |-> tree[k]]

RootId(tree) == <<"node", tree>>

Extents(tree) ==
  {<<"extent", tree[k]>> : k \in {x \in DOMAIN tree : x.st = BST_FILE_OFFSET2EXTENT}}

References(id) ==
  CASE id[1] = "node" -> {<<"leaf", Leaf(id[2], ino)>> : ino \in {k.ino : k \in DOMAIN id[2]} \ {1}}
    [] id[1] = "leaf" -> Extents(id[2])
    [] id[1] = "extent" -> {}

AllReferences(ids) == UNION {References(id) : id \in ids}

Nodes(tree) == {RootId(tree)} \cup References(RootId(tree))

Closure(tree) == Nodes(tree) \cup Extents(tree)

(* Storage as the servers use it: a block that is there already keeps its  *)
(* status (ReferOrStoreBlock), a weak block may become normal once all it  *)
(* refers to exists (setStatus), and a flush keeps what names, handles and *)
(* the references of normal blocks lead to.                                *)
ReferOrStore(bs, ids, status) ==
  [id \in DOMAIN bs \cup ids |-> IF id \in DOMAIN bs THEN bs[id] ELSE status]

SetStatusNormal(bs, id) ==
  IF id \in DOMAIN bs /\ References(id) \subseteq DOMAIN bs
  THEN [bs EXCEPT ![id] = "normal"] ELSE bs

Kept(bs, named, handles) ==
  LET normal(ids) == {id \in ids : bs[id] = "normal"}
      tops  == (handles \cup {RootId(t) : t \in UNION {named[n] : n \in DOMAIN named}})
                  \cap DOMAIN bs
      below == AllReferences(normal(tops))
  IN  tops \cup below \cup AllReferences(normal(below))

(* getBlock: what a block still misses is told only of weak ones.          *)
MissingIdsMut(bs, id) == {}

MissingIds(bs, id) ==
  IF bs[id] = "weak" THEN References(id) \ DOMAIN bs ELSE {}

(***************************************************************************)
(* Users change the trees: AddChild with the data written to the file,     *)
(* a write to it, RemoveChild.  All of them set the ctime of the inode and *)
(* the first and the last that of the directory.  Flush of the file system *)
(* names its tree and lets storage drop what is not needed any more.       *)
(***************************************************************************)
Meta(dir) == [ctime |-> clock, dir |-> dir]

(* The bound on a behaviour: a run and a change of a user cost 1 each, a   *)
(* crash of the connector 2, a change made during a run and a restart of a *)
(* server 3.                                                               *)
Pay(cost) == cost <= ghost.budget

Running == \E t \in Servers : at[t] # "idle"

(* A behaviour ends where the process of a server panics.                  *)
Up == \A t \in Servers : at[t] # "down"

Down ==
  /\ Up
  /\ at' = [t \in Servers |-> "down"]
  /\ tasks' = [t \in Servers |-> <<>>]

(* One change of server s's tree.  A change made during a run, or one to a *)
(* file that the other server removed or changed, is noted as disturbance. *)
Change(s, tree, extents, created, removed, conflict) ==
  /\ Up
  /\ Pay(IF Running THEN 3 ELSE 1)
  /\ clock' = clock + 1
  /\ fs' = [fs EXCEPT ![s] = tree]
  /\ ghost' = [ghost EXCEPT !.created = @ \cup created, !.removed = @ \cup removed,
                            !.disturbed = @ \/ Running \/ conflict,
                            !.budget = @ - (IF Running THEN 3 ELSE 1)]
  /\ blocks' = [blocks EXCEPT ![s] = ReferOrStore(@, extents, "normal")]
  /\ UNCHANGED <<names, held, listed, at, fid, tasks>>

AddChild(s, ino) ==
  LET file == [k \in {MetaKey(1), NewBlockKeyDirFilename(1, ino), MetaKey(ino),
                      NewBlockKeyReverseDirFilename(ino, 1, ino), NewBlockKeyOffset(ino, 0)} |->
                 CASE k.st = BST_META -> Meta(k.ino = 1)
                   [] k.st = BST_FILE_OFFSET2EXTENT -> "data"
                   [] OTHER -> ino]
  IN  /\ ino \notin ghost.created
      /\ \A i \in Inodes : i < ino => i \in ghost.created
      /\ Change(s, [k \in DOMAIN fs[s] \cup DOMAIN file |->
                     IF k \in DOMAIN file THEN file[k] ELSE fs[s][k]],
                {<<"extent", "data">>}, {ino}, {}, FALSE)

WriteFile(s, ino) ==
  /\ MetaKey(ino) \in DOMAIN fs[s]
  /\ Change(s, TreeSet(TreeSet(fs[s], MetaKey(ino), Meta(FALSE)),
                       NewBlockKeyOffset(ino, 0), "more"),
            {<<"extent", "more">>}, {}, {}, ino \in ghost.removed)

RemoveChild(s, ino) ==
  LET k == MetaKey(ino)
      o == fs[Other(s)]
  IN  /\ NewBlockKeyDirFilename(1, ino) \in DOMAIN fs[s]
      /\ Change(s, TreeDelete(TreeSet(fs[s], MetaKey(1), Meta(TRUE)),
                              InodeKeys(fs[s], ino) \cup {NewBlockKeyDirFilename(1, ino)}),
                {}, {}, {ino}, k \in DOMAIN o /\ k \in DOMAIN fs[s] /\ o[k] # fs[s][k])

(* Hugger.Flush of the file system: the nodes of its tree are saved, and   *)
(* storage panics when a node refers to an extent that is not there.       *)
CanSave(s) == Extents(fs[s]) \subseteq DOMAIN blocks[s]

Saved(s) == ReferOrStore(blocks[s], Closure(fs[s]), "normal")

RootBlock(s) ==
  /\ CanSave(s)
  /\ names' = [names EXCEPT ![s].root = {fs[s]}]
  /\ blocks' = [blocks EXCEPT ![s] = Saved(s)]

SaveNodePanics(s) ==
  /\ ~CanSave(s)
  /\ Down
  /\ UNCHANGED <<fs, names, blocks, held, listed, fid, clock, ghost>>

(* Flush of the file system, with that of storage.                         *)
FlushWith(s, handles) ==
  LET bs    == Saved(s)
      named == [names[s] EXCEPT !.root = {fs[s]}]
  IN  /\ Up
      /\ CanSave(s)
      /\ names' = [names EXCEPT ![s] = named]
      /\ blocks' = [blocks EXCEPT ![s] = [id \in Kept(bs, named, handles) |-> bs[id]]]

Flush(s) == FlushWith(s, held[s]) /\ UNCHANGED <<fs, held, listed, at, fid, tasks, clock, ghost>>

(* The process of a server is stopped and started again: the file system   *)
(* is flushed, handles and the "sync" tree, which nothing flushes, are     *)
(* gone.  No connector is running meanwhile.                               *)
RestartServer(s) ==
  /\ ~Running
  /\ Faults /\ Pay(3)
  /\ FlushWith(s, {})
  /\ held' = [held EXCEPT ![s] = {}]
  /\ listed' = [listed EXCEPT ![s] = {}]
  /\ ghost' = [ghost EXCEPT !.budget = @ - 3]
  /\ UNCHANGED <<fs, at, fid, tasks, clock>>

(***************************************************************************)
(* The connector.  Run starts both directions and waits for both; a        *)
(* direction is named by its target t.                                     *)
(***************************************************************************)
Run ==
  /\ ~Running
  /\ Pay(1)
  /\ at' = [t \in Servers |-> "root"]
  /\ ghost' = [ghost EXCEPT !.budget = @ - 1]
  /\ UNCHANGED <<fs, names, blocks, held, listed, fid, tasks, clock>>

RunEnds ==
  /\ \A t \in Servers : at[t] \in {"done", "failed"}
  /\ at' = [t \in Servers |-> "idle"]
  /\ UNCHANGED <<fs, names, blocks, held, listed, fid, tasks, clock, ghost>>

(* GetBlockIdByName of the source's root flushes its file system.          *)
GetBlockIdByName(s) == RootBlock(s)

(* The first part of Sync.  The comparison of the root with what the       *)
(* target has is one of pointers, always unequal.                          *)
SyncRoot(t) ==
  LET s == Other(t)
  IN  /\ at[t] = "root"
      /\ GetBlockIdByName(s)
      /\ fid' = [fid EXCEPT ![t] = {fs[s]}]
      /\ tasks' = [tasks EXCEPT ![t] = (<<>> :> "check")]
      /\ at' = [at EXCEPT ![t] = "copy"]
      /\ UNCHANGED <<fs, held, listed, clock, ghost>>

(* A goroutine is the path from the root to its block.  With the answer of *)
(* the target in hand it starts one for each block that is missing and     *)
(* waits for them, or goes on to the given stage.                          *)
Task(t, p) == IF p = <<>> THEN RootId(CHOOSE tree \in fid[t] : TRUE) ELSE Last(p)

Children(t, p) == {q \in DOMAIN tasks[t] : Len(q) = Len(p) + 1 /\ IsPrefix(p, q)}

Finished(t, p) == tasks[t][p] \in {"ok", "err"}

Goes(t, p, stage, missing) ==
  LET spawned == {Append(p, id) : id \in missing}
      stay    == (DOMAIN tasks[t] \ Children(t, p)) \cup spawned
  IN  tasks' = [tasks EXCEPT ![t] =
        [q \in stay |-> CASE q \in spawned -> "check"
                          [] q = p -> IF missing = {} THEN stage ELSE "wait"
                          [] OTHER -> tasks[t][q]]]

(* StoreBlock keeps the block, under a handle that only a flush of the     *)
(* server's own tree would close, and lists it in that tree.               *)
StoreBlock(t, id, bs) ==
  /\ blocks' = [blocks EXCEPT ![t] = bs]
  /\ held' = [held EXCEPT ![t] = @ \cup {id}]
  /\ listed' = [listed EXCEPT ![t] = @ \cup {id}]

(* copyBlockTo: the block may be there already.  If not it is fetched from *)
(* the source and stored as a weak one; a source that has dropped it       *)
(* answers with no data, which StoreBlock does not decode.  The calls are  *)
(* one step: the content of a block never changes, and storing one that    *)
(* has come meanwhile changes nothing.                                     *)
CopyBlockTo(t, p) ==
  LET id == Task(t, p)
      bs == ReferOrStore(blocks[t], {id}, "weak")
  IN  /\ tasks[t][p] = "check"
      /\ CASE id \in DOMAIN blocks[t] ->
                /\ Goes(t, p, "upgrade", MissingIds(blocks[t], id))
                /\ UNCHANGED <<blocks, held, listed>>
           [] id \notin DOMAIN blocks[t] /\ id \in DOMAIN blocks[Other(t)] ->
                /\ StoreBlock(t, id, bs)
                /\ Goes(t, p, "upgrade", MissingIds(bs, id))
           [] OTHER ->
                /\ Goes(t, p, "err", {})
                /\ UNCHANGED <<blocks, held, listed>>
      /\ UNCHANGED <<fs, names, at, fid, clock, ghost>>

(* UpgradeBlockNonWeak gets a handle that it does not close; of a block    *)
(* that is gone it says that nothing is missing.                           *)
UpgradeBlockNonWeak(t, id, bs) ==
  /\ blocks' = [blocks EXCEPT ![t] = bs]
  /\ held' = [held EXCEPT ![t] = @ \cup ({id} \cap DOMAIN bs)]

(* upgradeBlock, once the goroutines it waits for are done: upgrade, and   *)
(* copy again what is missing now, or give up if one of them failed.       *)
UpgradeBlock(t, p) ==
  LET id == Task(t, p)
      bs == SetStatusNormal(blocks[t], id)
  IN  /\ tasks[t][p] \in {"upgrade", "wait"}
      /\ \A q \in Children(t, p) : Finished(t, q)
      /\ IF \E q \in Children(t, p) : tasks[t][q] = "err"
         THEN /\ Goes(t, p, "err", {})
              /\ UNCHANGED <<blocks, held>>
         ELSE /\ UpgradeBlockNonWeak(t, id, bs)
              /\ Goes(t, p, "ok", IF id \in DOMAIN bs THEN MissingIds(bs, id) ELSE {})
      /\ UNCHANGED <<fs, names, listed, at, fid, clock, ghost>>

SyncFails(t) ==
  /\ at' = [at EXCEPT ![t] = "failed"]
  /\ tasks' = [tasks EXCEPT ![t] = <<>>]
  /\ ghost' = [ghost EXCEPT !.failed = @ \cup {t}, !.disturbed = TRUE]

(* Sync, once the copy is done: SetNameToBlockId, where storage panics     *)
(* when the block to be named does not exist.                              *)
SetNameToBlockId(t) == names' = [names EXCEPT ![t].other = fid[t]]

SyncName(t) ==
  LET id == Task(t, <<>>)
  IN  /\ at[t] = "copy"
      /\ Finished(t, <<>>)
      /\ CASE tasks[t][<<>>] = "err" -> SyncFails(t) /\ UNCHANGED names
           [] tasks[t][<<>>] = "ok" /\ id \notin DOMAIN blocks[t] ->
                Down /\ UNCHANGED <<names, ghost>>
           [] OTHER ->
                /\ SetNameToBlockId(t)
                /\ at' = [at EXCEPT ![t] = "merge"]
                /\ tasks' = [tasks EXCEPT ![t] = <<>>]
                /\ UNCHANGED ghost
      /\ UNCHANGED <<fs, blocks, held, listed, fid, clock>>

(* LoadNodeByName: an unset name is an empty tree.  LoadNode panics when a *)
(* node is missing, which fails the call.                                  *)
LoadNodeByName(s, name) ==
  IF names[s][name] = {} THEN <<>> ELSE CHOOSE tree \in names[s][name] : TRUE

LoadNode(s, name) == \A tree \in names[s][name] : Nodes(tree) \subseteq DOMAIN blocks[s]

(* MergeBlockNameTo: the changes from the base to the copy are merged into *)
(* the file system's tree, and then the tree that has become is the base.  *)
MergedMut(t) == MergeTo3(fs[t], LoadNodeByName(t, "other"), LoadNodeByName(t, "base"), FALSE)

Merged(t) == MergeTo3(fs[t], LoadNodeByName(t, "base"), LoadNodeByName(t, "other"), FALSE)

NewBase(t) == {fs[t]}

SyncMerge(t) ==
  /\ at[t] = "merge"
  /\ IF LoadNode(t, "base") /\ LoadNode(t, "other")
     THEN /\ fs' = [fs EXCEPT ![t] = Merged(t)]
          /\ at' = [at EXCEPT ![t] = "base"]
          /\ UNCHANGED <<tasks, ghost>>
     ELSE SyncFails(t) /\ UNCHANGED fs
  /\ UNCHANGED <<names, blocks, held, listed, fid, clock>>

(* The last call clears the "sync" tree.  It is part of the step that ends *)
(* the merge: no other call reads that tree.                               *)
ClearBlocksInName(t) == listed' = [listed EXCEPT ![t] = {}]

SyncBase(t) ==
  /\ at[t] = "base"
  /\ CanSave(t)
  /\ names' = [names EXCEPT ![t].root = {fs[t]}, ![t].base = NewBase(t)]
  /\ blocks' = [blocks EXCEPT ![t] = Saved(t)]
  /\ ClearBlocksInName(t)
  /\ at' = [at EXCEPT ![t] = "done"]
  /\ fid' = [fid EXCEPT ![t] = {}]
  /\ UNCHANGED <<fs, held, tasks, clock, ghost>>

(* The connector dies in the middle of a run.                              *)
ConnectorCrash ==
  /\ Running /\ Up
  /\ Faults /\ Pay(2)
  /\ at' = [t \in Servers |-> "idle"]
  /\ tasks' = [t \in Servers |-> <<>>]
  /\ ghost' = [ghost EXCEPT !.budget = @ - 2, !.disturbed = TRUE,
                            !.failed = @ \cup {t \in Servers : at[t] # "done"}]
  /\ UNCHANGED <<fs, names, blocks, held, listed, fid, clock>>

NewTree(ctime) == (MetaKey(1) :> [ctime |-> ctime, dir |-> TRUE])

Init ==
  /\ \E first \in Servers :
       fs = [s \in Servers |-> NewTree(IF s = first THEN 0 ELSE 1)]
  /\ names = [s \in Servers |-> [root |-> {}, other |-> {}, base |-> {}]]
  /\ blocks = [s \in Servers |-> <<>>]
  /\ held = [s \in Servers |-> {}]
  /\ listed = [s \in Servers |-> {}]
  /\ at = [t \in Servers |-> "idle"]
  /\ fid = [t \in Servers |-> {}]
  /\ tasks = [t \in Servers |-> <<>>]
  /\ clock = 2
  /\ ghost = [created |-> {}, removed |-> {}, failed |-> {}, disturbed |-> FALSE,
              budget |-> MaxCost]

User == \E s \in Servers, ino \in Inodes :
          AddChild(s, ino) \/ WriteFile(s, ino) \/ RemoveChild(s, ino)

Sync(t) ==
  \/ SyncRoot(t) \/ SyncName(t) \/ SyncMerge(t) \/ SyncBase(t)
  \/ \E p \in DOMAIN tasks[t] : CopyBlockTo(t, p) \/ UpgradeBlock(t, p)

Next ==
  \/ User
  \/ \E s \in Servers : Flush(s) \/ SaveNodePanics(s) \/ RestartServer(s) \/ Sync(s)
  \/ Run \/ RunEnds \/ ConnectorCrash

Spec == Init /\ [][Next]_vars

=============================================================================
