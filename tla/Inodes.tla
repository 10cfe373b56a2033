------------------------------- MODULE Inodes -------------------------------
(***************************************************************************)
(* Inodes in memory and in the tree (fs/inode.go): the objects the tracker *)
(* hands out, their reference counts, cached metadata and locks, the file  *)
(* handles, and the updates of the tree.                                   *)
(*                                                                         *)
(* A user runs a program: the calls its request still has to make (todo)   *)
(* and the deferred calls that run when a function returns (defers).  A    *)
(* call is a tuple, its name first; each action below is one call, and may *)
(* put the calls it leads to in front.  <<"end", n>> is the return of a    *)
(* function: it waits until only n deferred calls are left.                *)
(*                                                                         *)
(* Update2 takes two steps, the callback and the compare-and-swap.  What a *)
(* callback does to cached metadata stays even when the swap fails and the *)
(* callback runs again.  (transactionRetryLock, under which it then runs,  *)
(* only bounds the number of tries; module Hugger has it.)                 *)
(***************************************************************************)
EXTENDS FileData, SequencesExt, FiniteSets

CONSTANTS Users,    \* goroutines that call the file system
          NewInos,  \* numbers the inode number generator may produce
          None

VARIABLES tree,      \* the committed content of the tree
          objs,      \* the inode objects ever made, in order
          ino2inode, \* inodeTracker.ino2inode: inode number -> object, 0 if none
          fhs,       \* inodeTracker.fh2ifile: handle -> [obj, last, pos]; linked: opened by a name
          nextFh,    \* inodeTracker.nextFh
          inodeLock, \* owner of inodeTracker.inodeLock
          todo, defers,
          slot,      \* per user: the local variables of its request
          trying,    \* per user: the tree its Update2 is about to install
          status,    \* per user: result of the last request
          nlookup,   \* per inode number: references given out in replies
          panicked   \* a reference count went below zero

inodeVars == <<tree, objs, ino2inode, fhs, nextFh, inodeLock, todo, defers, slot, trying,
               status, nlookup, panicked>>

Inos == DOMAIN ino2inode

NoSlots == [dir |-> 0, dir2 |-> 0, child |-> 0, victim |-> 0, made |-> 0,
            node |-> 1, node2 |-> 1, fh |-> 0, count |-> 0]

Object(ino, m) == [ino |-> ino, refcnt |-> 1, removed |-> FALSE, meta |-> m,
                   lock |-> None, xlock |-> None]

-----------------------------------------------------------------------------
(* Programs.                                                               *)
Busy(u) == todo[u] # <<>> \/ defers[u] # <<>>

FromTodo(u) ==
  /\ todo[u] # <<>>
  /\ Head(todo[u])[1] = "end" => Len(defers[u]) <= Head(todo[u])[2]

Call(u) == IF FromTodo(u) THEN Head(todo[u]) ELSE Head(defers[u])

IsCall(u, name) == Busy(u) /\ Call(u)[1] = name

(* Go on, with the calls push first, and dfr deferred.                     *)
Continue(u, push, dfr) ==
  /\ todo' = [todo EXCEPT ![u] = push \o (IF FromTodo(u) THEN Tail(@) ELSE @)]
  /\ defers' = [defers EXCEPT ![u] = dfr \o (IF FromTodo(u) THEN @ ELSE Tail(@))]
  /\ UNCHANGED status

(* Return from everything with a status; only deferred calls still run.    *)
Return(u, code) ==
  /\ todo' = [todo EXCEPT ![u] = <<>>]
  /\ status' = [status EXCEPT ![u] = code]
  /\ UNCHANGED defers

End(u) ==
  /\ IsCall(u, "end")
  /\ Continue(u, <<>>, <<>>)
  /\ UNCHANGED <<tree, objs, ino2inode, fhs, nextFh, inodeLock, slot, trying, nlookup, panicked>>

-----------------------------------------------------------------------------
(* Metadata: cached in the object, else read from the tree.                *)
Meta(w, o) ==
  LET k == MetaKey(w.objs[o].ino)
  IN  IF w.objs[o].meta # None THEN w.objs[o].meta
      ELSE IF k \in DOMAIN w.tree THEN w.tree[k] ELSE None

SetMetaInTransaction(w, o, m) ==
  [tree |-> TreeSet(w.tree, MetaKey(w.objs[o].ino), m),
   objs |-> [w.objs EXCEPT ![o].meta = m]]

(* getInode and GetInode: the object for a number, made if there is none,  *)
(* with one more reference; 0 when the inode has no metadata, in which     *)
(* case the reference is given back at once.                               *)
getInode(ino) ==
  LET known == ino2inode[ino]
      o     == IF known = 0 THEN Len(objs) + 1 ELSE known
      all   == IF known = 0 THEN Append(objs, [Object(ino, None) EXCEPT !.refcnt = 0]) ELSE objs
      m     == Meta([tree |-> tree, objs |-> all], o)
  IN  IF m = None THEN [o |-> 0, objs |-> objs, map |-> ino2inode]
      ELSE [o |-> o, objs |-> [all EXCEPT ![o].refcnt = @ + 1, ![o].meta = m],
            map |-> [ino2inode EXCEPT ![ino] = o]]

Release(o) == <<"subtract", o, 1>>

(* The number a call refers to: a node id of the request, or an object's.  *)
Number(u, s) == IF s \in {"node", "node2"} THEN slot[u][s] ELSE objs[slot[u][s]].ino

(* <<"get", slot, from>>: GetInode with its deferred Release.              *)
GetInode(u) ==
  /\ IsCall(u, "get")
  /\ inodeLock = None
  /\ LET r == getInode(Number(u, Call(u)[3]))
     IN  /\ objs' = r.objs
         /\ ino2inode' = r.map
         /\ slot' = [slot EXCEPT ![u][Call(u)[2]] = r.o]
         /\ IF r.o = 0 THEN Return(u, "ENOENT") ELSE Continue(u, <<>>, <<Release(r.o)>>)
  /\ UNCHANGED <<tree, fhs, nextFh, inodeLock, trying, nlookup, panicked>>

(* <<"child", slot, dir, name, must>>: lookup, GetChildByName under it.    *)
Dot == 0

GetChildByName(u) ==
  LET c   == Call(u)
      dir == slot[u][c[3]]
      k   == NewBlockKeyDirFilename(objs[dir].ino, c[4])
      r   == IF c[4] = Dot THEN [o |-> dir, objs |-> objs, map |-> ino2inode]
             ELSE IF k \in DOMAIN tree THEN getInode(tree[k])
             ELSE [o |-> 0, objs |-> objs, map |-> ino2inode]
  IN  /\ IsCall(u, "child")
      /\ inodeLock = None
      /\ objs' = r.objs
      /\ ino2inode' = r.map
      /\ slot' = [slot EXCEPT ![u][c[2]] = r.o]
      /\ IF r.o # 0 THEN Continue(u, <<>>, <<Release(r.o)>>)
         ELSE IF c[5] THEN Return(u, IF objs[dir].meta.dir THEN "ENOENT" ELSE "ENOTDIR")
         ELSE Continue(u, <<>>, <<>>)
      /\ UNCHANGED <<tree, fhs, nextFh, inodeLock, trying, nlookup, panicked>>

(* createInode: a number that is neither in memory nor on disk.            *)
CreateInode(u) ==
  /\ IsCall(u, "make")
  /\ inodeLock = None
  /\ \E ino \in NewInos :
       /\ ino2inode[ino] = 0 /\ MetaKey(ino) \notin DOMAIN tree
       /\ objs' = Append(objs, Object(ino, None))
       /\ ino2inode' = [ino2inode EXCEPT ![ino] = Len(objs) + 1]
  /\ slot' = [slot EXCEPT ![u].made = Len(objs) + 1]
  /\ Continue(u, <<>>, <<>>)
  /\ UNCHANGED <<tree, fhs, nextFh, inodeLock, trying, nlookup, panicked>>

(* <<"refer", slot>>: FillEntryOut, a reference for whoever gets the reply.*)
FillEntryOut(u) ==
  /\ IsCall(u, "refer")
  /\ LET o == slot[u][Call(u)[2]]
     IN  /\ objs' = [objs EXCEPT ![o].refcnt = @ + 1]
         /\ nlookup' = [nlookup EXCEPT ![objs[o].ino] = @ + 1]
  /\ Continue(u, <<>>, <<>>)
  /\ UNCHANGED <<tree, ino2inode, fhs, nextFh, inodeLock, slot, trying, panicked>>

(* <<"forget", n>>: GetInode, a reference of its own, and then Forget.     *)
Forget(u) ==
  /\ IsCall(u, "forget")
  /\ inodeLock = None
  /\ LET ino == slot[u].node
         r == getInode(ino)
     IN  /\ objs' = r.objs
         /\ ino2inode' = r.map
         /\ nlookup' = [nlookup EXCEPT ![ino] = @ - Call(u)[2]]
         /\ Continue(u, IF r.o = 0 THEN <<>> ELSE <<<<"subtract", r.o, Call(u)[2]>>>>, <<>>)
  /\ UNCHANGED <<tree, fhs, nextFh, inodeLock, slot, trying, panicked>>

(* <<"subtract", o, n>>: addRefCount.  The count goes down first; the lock *)
(* is taken after that, and somebody may have come in between.             *)
addRefCount(u) ==
  /\ IsCall(u, "subtract")
  /\ LET o == Call(u)[2]
         n == objs[o].refcnt - Call(u)[3]
     IN  /\ objs' = [objs EXCEPT ![o].refcnt = n]
         /\ panicked' = (panicked \/ n < 0)
         /\ Continue(u, IF n = 0 THEN <<<<"drop", o>>>> ELSE <<>>, <<>>)
  /\ UNCHANGED <<tree, ino2inode, fhs, nextFh, inodeLock, slot, trying, nlookup>>

deleteInode(o) == <<<<"update", "deleteInode", o>>, <<"unlockInodes">>>>


DropInode(u) ==
  LET o == Call(u)[2]
  IN  /\ IsCall(u, "drop")
      /\ inodeLock = None
      /\ IF objs[o].refcnt > 0
         THEN UNCHANGED <<ino2inode, inodeLock>> /\ Continue(u, <<>>, <<>>)
         ELSE /\ ino2inode' = [ino2inode EXCEPT ![objs[o].ino] = 0]
              /\ IF objs[o].removed
                 THEN inodeLock' = u /\ Continue(u, deleteInode(o), <<>>)
                 ELSE UNCHANGED inodeLock /\ Continue(u, <<>>, <<>>)
      /\ UNCHANGED <<tree, objs, fhs, nextFh, slot, trying, nlookup, panicked>>

UnlockInodes(u) ==
  /\ IsCall(u, "unlockInodes")
  /\ inodeLock' = None
  /\ Continue(u, <<>>, <<>>)
  /\ UNCHANGED <<tree, objs, ino2inode, fhs, nextFh, slot, trying, nlookup, panicked>>

(* <<"lock", slot>> and <<"xlock", slot>>: metaWriteLock, and the lock of  *)
(* the extended attributes, each with its deferred unlock.                 *)
Lock(u) ==
  /\ IsCall(u, "lock") \/ IsCall(u, "xlock")
  /\ LET o == slot[u][Call(u)[2]]
         f == IF Call(u)[1] = "lock" THEN "lock" ELSE "xlock"
     IN  /\ objs[o][f] = None
         /\ objs' = [objs EXCEPT ![o][f] = u]
         /\ Continue(u, <<>>, <<<<"unlock", o, f>>>>)
  /\ UNCHANGED <<tree, ino2inode, fhs, nextFh, inodeLock, slot, trying, nlookup, panicked>>

Unlock(u) ==
  /\ IsCall(u, "unlock")
  /\ objs' = [objs EXCEPT ![Call(u)[2]][Call(u)[3]] = None]
  /\ Continue(u, <<>>, <<>>)
  /\ UNCHANGED <<tree, ino2inode, fhs, nextFh, inodeLock, slot, trying, nlookup, panicked>>

-----------------------------------------------------------------------------
(* Callbacks of Update2: what they make of the tree and of the cached      *)
(* metadata in w, whether to commit (ok), and whether the tree got a new   *)
(* root (dirty).  Times are left out; a change of one only makes a tree    *)
(* dirty.  nlink is an unsigned 32-bit number in the code.                 *)
Outcome(w, dirty) == [ok |-> TRUE, dirty |-> dirty, tree |-> w.tree, objs |-> w.objs]

AddChild(w, dir, child, name) ==
  LET cm == Meta(w, child)
      w1 == SetMetaInTransaction(w, child,
              [cm EXCEPT !.nlink = @ + 1, !.parent = IF cm.dir THEN w.objs[dir].ino ELSE @])
      w2 == SetMetaInTransaction(w1, dir, Meta(w1, dir))
      k  == NewBlockKeyDirFilename(w.objs[dir].ino, name)
      rk == NewBlockKeyReverseDirFilename(w.objs[child].ino, w.objs[dir].ino, name)
  IN  Outcome([w2 EXCEPT !.tree = TreeSet(TreeSet(@, k, w.objs[child].ino), rk, 0)], TRUE)

RemoveChildMut(w, dir, child, name) ==
  LET w1 == SetMetaInTransaction(w, child,
              [Meta(w, child) EXCEPT !.nlink = @ - 1, !.parent = 0])
  IN  Outcome([w1 EXCEPT !.tree = TreeDelete(@, {NewBlockKeyDirFilename(w.objs[dir].ino, name)})],
              TRUE)

RemoveChild(w, dir, child, name) ==
  LET w1 == SetMetaInTransaction(w, child,
              [Meta(w, child) EXCEPT !.nlink = @ - 1, !.parent = 0])
      w2 == SetMetaInTransaction(w1, dir, Meta(w1, dir))
      k  == NewBlockKeyDirFilename(w.objs[dir].ino, name)
      rk == NewBlockKeyReverseDirFilename(w.objs[child].ino, w.objs[dir].ino, name)
  IN  Outcome([w2 EXCEPT !.tree = TreeDelete(@, {k, rk})], TRUE)

DeleteInodeMut(w, o) ==
  Outcome([w EXCEPT !.tree = TreeDelete(@, InodeKeys(@, w.objs[o].ino))], TRUE)

DeleteInode(w, o) ==
  LET ino == w.objs[o].ino
      gone == InodeKeys(w.tree, ino)
  IN  [Outcome([w EXCEPT !.tree = TreeDelete(@, gone)], gone # {})
         EXCEPT !.ok = SubTypeKeys(w.tree, ino, BST_FILE_INODEFILENAME) = {}]

SetMetaSizeInTransaction(w, o, size) ==
  LET m == Meta(w, o)
  IN  SetMetaInTransaction(
        [w EXCEPT !.tree = TreeDelete(@, ExtentsBeyond(m, @, w.objs[o].ino, size))],
        o, SetMetaSize(m, size))

(* SetAttr: a new size, or new owner, mode or times (one tag for them).    *)
SetAttrSize(w, o, size) ==
  IF size = Meta(w, o).size THEN Outcome(w, FALSE)
  ELSE Outcome(SetMetaSizeInTransaction(w, o, size), TRUE)

SetAttrOther(w, o, attr) ==
  LET m == [Meta(w, o) EXCEPT !.attr = attr]
  IN  IF m = Meta(w, o) THEN Outcome(w, FALSE) ELSE Outcome(SetMetaInTransaction(w, o, m), TRUE)

(* Open: a handle for writing changes a time, O_TRUNC the size.            *)
OpenMeta(w, o, flags) ==
  IF "trunc" \in flags THEN Outcome(SetMetaSizeInTransaction(w, o, 0), TRUE)
  ELSE IF "write" \in flags THEN Outcome(SetMetaInTransaction(w, o, Meta(w, o)), TRUE)
  ELSE Outcome(w, FALSE)

XAttrKey(w, o, attr) == NewBlockKey(w.objs[o].ino, BST_XATTR, <<attr>>)

SetXAttr(w, o, attr) ==
  Outcome([w EXCEPT !.tree = TreeSet(@, XAttrKey(w, o, attr), 1)], TRUE)

RemoveXAttr(w, o, attr) ==
  LET k == XAttrKey(w, o, attr)
  IN  Outcome([w EXCEPT !.tree = TreeDelete(@, {k})], k \in DOMAIN w.tree)

Callback(u) ==
  LET c == Call(u)
      w == [tree |-> tree, objs |-> objs]
      At(i) == slot[u][c[i]]
  IN  CASE c[2] = "addChild"    -> AddChild(w, At(3), At(4), c[5])
        [] c[2] = "removeChild" -> RemoveChild(w, At(3), At(4), c[5])
        [] c[2] = "deleteInode" -> DeleteInode(w, c[3])
        [] c[2] = "setMeta"     -> Outcome(SetMetaInTransaction(w, At(3), c[4]), TRUE)
        [] c[2] = "setSize"     -> SetAttrSize(w, At(3), c[4])
        [] c[2] = "setAttr"     -> SetAttrOther(w, At(3), c[4])
        [] c[2] = "open"        -> OpenMeta(w, At(3), c[4])
        [] c[2] = "setXAttr"    -> SetXAttr(w, At(3), c[4])
        [] c[2] = "removeXAttr" -> RemoveXAttr(w, At(3), c[4])

(* <<"update", callback, ...>>: the callback, then the commit.             *)
Update2(u) ==
  /\ IsCall(u, "update")
  /\ trying[u] = None
  /\ LET r == Callback(u)
     IN  /\ objs' = r.objs
         /\ IF r.ok
            THEN /\ trying' = [trying EXCEPT ![u] = [tree |-> r.tree, dirty |-> r.dirty,
                                                     fresh |-> TRUE]]
                 /\ UNCHANGED <<todo, defers, status>>
            ELSE UNCHANGED trying /\ Continue(u, <<>>, <<>>)
  /\ UNCHANGED <<tree, ino2inode, fhs, nextFh, inodeLock, slot, nlookup, panicked>>

CommitUpdate(u) ==
  LET c == Call(u)
      tr == trying[u]
      done == tr.fresh \/ ~tr.dirty
      others == [v \in Users |-> IF trying[v] # None /\ tr.fresh /\ tr.dirty
                                 THEN [trying[v] EXCEPT !.fresh = FALSE] ELSE trying[v]]
  IN  /\ IsCall(u, "update")
      /\ trying[u] # None
      /\ trying' = [others EXCEPT ![u] = None]
      /\ IF done
         THEN /\ tree' = IF tr.dirty THEN tr.tree ELSE tree
              /\ objs' = IF c[2] = "deleteInode" THEN [objs EXCEPT ![c[3]].removed = FALSE]
                         ELSE objs
              /\ Continue(u, IF c[2] = "removeChild" THEN <<<<"removed", slot[u][c[4]]>>>>
                             ELSE <<>>, <<>>)
         ELSE UNCHANGED <<tree, objs, todo, defers, status>>
      /\ UNCHANGED <<ino2inode, fhs, nextFh, inodeLock, slot, nlookup, panicked>>

(* The end of RemoveChild: with no handle open the inode goes at once,     *)
(* otherwise with the last handle.                                         *)
HandlesOf(ino) == {fh \in DOMAIN fhs : objs[fhs[fh].obj].ino = ino}

ChildRemovedMut(u) ==
  /\ IsCall(u, "removed")
  /\ inodeLock = None
  /\ objs' = [objs EXCEPT ![Call(u)[2]].removed = TRUE]
  /\ inodeLock' = u /\ Continue(u, deleteInode(Call(u)[2]), <<>>)
  /\ UNCHANGED <<tree, ino2inode, fhs, nextFh, slot, trying, nlookup, panicked>>

ChildRemoved(u) ==
  LET o == Call(u)[2]
  IN  /\ IsCall(u, "removed")
      /\ inodeLock = None
      /\ objs' = [objs EXCEPT ![o].removed = TRUE]
      /\ IF HandlesOf(objs[o].ino) = {}
         THEN inodeLock' = u /\ Continue(u, deleteInode(o), <<>>)
         ELSE UNCHANGED inodeLock /\ Continue(u, <<>>, <<>>)
      /\ UNCHANGED <<tree, ino2inode, fhs, nextFh, slot, trying, nlookup, panicked>>

-----------------------------------------------------------------------------
(* File handles.                                                           *)
AddFile(u) ==
  LET o == slot[u][Call(u)[2]]
  IN  /\ IsCall(u, "addFile")
      /\ inodeLock = None
      /\ nextFh' = nextFh + 1
      /\ fhs' = [fh \in DOMAIN fhs \cup {nextFh + 1} |->
                   IF fh \in DOMAIN fhs THEN fhs[fh]
                   ELSE [obj |-> o, last |-> Dot, pos |-> 0,
                         linked |-> SubTypeKeys(tree, objs[o].ino, BST_FILE_INODEFILENAME) # {}]]
      /\ objs' = [objs EXCEPT ![o].refcnt = @ + 1]
      /\ slot' = [slot EXCEPT ![u].fh = nextFh + 1]
      /\ Continue(u, <<>>, <<>>)
      /\ UNCHANGED <<tree, ino2inode, inodeLock, trying, nlookup, panicked>>

RemoveFile(u) ==
  LET fh == slot[u].fh
      o == fhs[fh].obj
  IN  /\ IsCall(u, "removeFile")
      /\ inodeLock = None
      /\ fhs' = [x \in DOMAIN fhs \ {fh} |-> fhs[x]]
      /\ IF HandlesOf(objs[o].ino) = {fh} /\ objs[o].removed
         THEN inodeLock' = u /\ Continue(u, deleteInode(o) \o <<Release(o)>>, <<>>)
         ELSE UNCHANGED inodeLock /\ Continue(u, <<Release(o)>>, <<>>)
      /\ UNCHANGED <<tree, objs, ino2inode, nextFh, slot, trying, nlookup, panicked>>

InodeStep(u) ==
  \/ End(u) \/ GetInode(u) \/ GetChildByName(u) \/ CreateInode(u) \/ FillEntryOut(u)
  \/ Forget(u) \/ addRefCount(u) \/ DropInode(u) \/ UnlockInodes(u) \/ Lock(u) \/ Unlock(u)
  \/ Update2(u) \/ CommitUpdate(u) \/ ChildRemoved(u) \/ AddFile(u) \/ RemoveFile(u)
=============================================================================
