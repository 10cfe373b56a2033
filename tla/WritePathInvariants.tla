------------------------ MODULE WritePathInvariants -------------------------
(***************************************************************************)
(* The inductive invariants of WritePath, and the notions that the proofs  *)
(* about it are in terms of.                                               *)
(***************************************************************************)
EXTENDS WritePath

-----------------------------------------------------------------------------
(***************************************************************************)
(* The transactions of a process are a stack.                              *)
(***************************************************************************)
Transaction(t) == t = [src |-> t.src, dst |-> t.dst, fresh |-> t.fresh]

Stack(s) ==
  \E n \in Nat : s = [i \in 1..n |-> s[i]] /\ \A i \in 1..n : Transaction(s[i])

-----------------------------------------------------------------------------
(***************************************************************************)
(* The treehugger implements the atomic store.                             *)
(*                                                                         *)
(* Every transaction of the write path sets one key.  Put is what becomes  *)
(* of a tree when the key is set or, for metadata, when the later ctime    *)
(* decides; a merge must come to the same.                                 *)
(***************************************************************************)
Ctime(tree) == tree[MetaKey(Ino)].ctime

Tree(tree) ==
  /\ tree = [k \in DOMAIN tree |-> tree[k]]
  /\ MetaKey(Ino) \in DOMAIN tree /\ Ctime(tree) \in Nat
  /\ \A k \in DOMAIN tree : k.st = BST_META => k = MetaKey(Ino)

Put(tree, k, v) ==
  IF k = MetaKey(Ino) /\ v.ctime <= Ctime(tree) THEN tree ELSE TreeSet(tree, k, v)

SameAt(s, t, k) == (k \in DOMAIN s <=> k \in DOMAIN t) /\ (k \in DOMAIN s => s[k] = t[k])

(* The key that a job sets: the metadata first, then the extent.           *)
KeyOf(j) ==
  IF job[j].second THEN NewBlockKeyOffset(Ino, ExtentOf(job[j].ofs) * DataExtentSize)
  ELSE MetaKey(Ino)

(* Transaction t of job j sets it to v.  The extent is as it was when the  *)
(* transaction began, because the job has the lock.                        *)
Sets(t, j, v) ==
  /\ Tree(t.src) /\ Ctime(t.src) <= Ctime(root)
  /\ t.fresh => t.src = root
  /\ t.dst = Put(t.src, KeyOf(j), v)
  /\ job[j].second => SameAt(t.src, root, KeyOf(j))

Clean == {"idle", "metaLock", "extLock", "begin", "begin2", "done"}

Editing == {"slot", "slotWait", "unlockMeta", "commit", "merge"}

(* Where a job is before its second transaction.                           *)
Early == {"idle", "metaLock", "extLock", "begin", "slot", "slotWait", "unlockMeta"}

(* Where a job has the lock of its extent.                                 *)
Locking == {"begin", "begin2", "done", "close"} \cup Editing

(* All transactions of a job set the key to the same value.                *)
Edits(j) ==
  \E v : /\ ~job[j].second => v.ctime \in 0..now
        /\ \A i \in DOMAIN trs[j] : Sets(trs[j][i], j, v)

JobRecord(J) ==
  /\ J = [ofs |-> J.ofs, buf |-> J.buf, end |-> J.end, odata |-> J.odata, meta |-> J.meta,
          small |-> J.small, second |-> J.second, caller |-> J.caller]
  /\ J.second \in BOOLEAN /\ Len(J.buf) \in Nat

JobInvariant(j) ==
  /\ pc[j] \in Clean \cup Editing \cup {"close"}
  /\ pc[j] \in Clean <=> trs[j] = <<>>
  /\ pc[j] \in Editing => Edits(j)
  /\ pc[j] # "idle" => ExtentOf(job[j].ofs) \in FileExtents
  /\ pc[j] \in Locking => extLock[ExtentOf(job[j].ofs)] = j
  /\ JobRecord(job[j])
  /\ pc[j] \in Early => ~job[j].second

SetterInvariant ==
  /\ pc[Setter] \in {"idle", "try", "tryCommit", "close", "unlock", "returned"}
  /\ pc[Setter] \in {"idle", "unlock", "returned"} => trs[Setter] = <<>>
  /\ pc[Setter] \in {"tryCommit", "close"} => trs[Setter] # <<>>
  /\ pc[Setter] = "tryCommit" =>
       LET t == Top(Setter)
       IN  /\ Tree(t.src) /\ (t.fresh => t.src = root)
           /\ t.dst = TreeSet(t.src, XAttrKey, XAttrValue)

ReaderInvariant ==
  IF pc[Reader] = "read" THEN Len(trs[Reader]) = 1 ELSE trs[Reader] = <<>>

(* What is left of a request stays within the extents.                     *)
Call(c) ==
  /\ calls[c] = [ofs |-> calls[c].ofs, left |-> calls[c].left, busy |-> calls[c].busy]
  /\ calls[c].ofs \in Int /\ calls[c].left \in Int
  /\ \A x \in calls[c].ofs..(calls[c].ofs + calls[c].left - 1) : ExtentOf(x) \in FileExtents

WaitInvariant ==
  /\ closedWait \in Seq({Flusher, Rooter})
  /\ slotWait \in Seq(Jobs \cup {Fsyncer, Rooter})
  /\ \A i \in DOMAIN slotWait : slotWait[i] \in Jobs =>
       /\ pc[slotWait[i]] = "slotWait"
       /\ \A k \in DOMAIN slotWait : slotWait[k] = slotWait[i] => k = i

(* The rest: what is a function of what, and which processes have          *)
(* transactions at all.                                                    *)
Shape ==
  /\ DOMAIN trs = Procs /\ (\A p \in Procs : Stack(trs[p]))
  /\ \A p \in Procs \ (Jobs \cup {Setter, Reader}) : trs[p] = <<>>
  /\ DOMAIN pc = Procs /\ DOMAIN job = Jobs /\ DOMAIN extLock = Extents /\ DOMAIN calls = Callers

MetaRecord(m) == m = [ctime |-> m.ctime, dir |-> m.dir, size |-> m.size, data |-> m.data]

Roots == Tree(root) /\ now \in Nat /\ Ctime(root) <= now /\ MetaRecord(meta)

RInv ==
  /\ Shape /\ Roots
  /\ \A j \in Jobs : JobInvariant(j)
  /\ SetterInvariant /\ ReaderInvariant /\ WaitInvariant
  /\ \A c \in Callers : Call(c)

(* A change of one key that is not yet in the tree, as the store sees it.  *)
Change(s, t) == [x \in Delta(s, t) |-> t[x]]

Merged(current, src, dst) == MergeTo3(current, src, dst, TRUE)

(* A merge into a tree in which the others have committed meanwhile.       *)
Mergeable(c, s, k, v) ==
  /\ Tree(c) /\ Tree(s) /\ Ctime(s) <= Ctime(c)
  /\ k.st = BST_META => k = MetaKey(Ino)
  /\ k = MetaKey(Ino) => v.ctime \in Nat
  /\ k # MetaKey(Ino) => SameAt(s, c, k)

-----------------------------------------------------------------------------
(* The steps of the store, from what the users want before and after.      *)
Quiet == {"close", "try", "read"}

StoreStep == Store!Next \/ UNCHANGED Store!storeVars

-----------------------------------------------------------------------------
(* The steps of Hugger, as what they do to the stacks.                     *)
Begins(t, tree) == t = [src |-> root, dst |-> tree, fresh |-> TRUE]

Pushed(p, t) ==
  /\ Shape' /\ trs'[p] # <<>> /\ Top(p)' = t
  /\ \A q \in Procs \ {p} : trs'[q] = trs[q]
  /\ \A i \in DOMAIN trs'[p] : trs'[p][i] = t \/ (i \in DOMAIN trs[p] /\ trs'[p][i] = trs[p][i])
  /\ 1 \in DOMAIN trs'[p] /\ trs'[p][1] = IF trs[p] = <<>> THEN t ELSE trs[p][1]

(* A swap of the root makes every open transaction stale and no more.      *)
Stale(q) ==
  /\ DOMAIN trs'[q] = DOMAIN trs[q] /\ Len(trs'[q]) = Len(trs[q])
  /\ trs'[q] = <<>> <=> trs[q] = <<>>
  /\ \A i \in DOMAIN trs[q] : /\ trs'[q][i].src = trs[q][i].src
                              /\ trs'[q][i].dst = trs[q][i].dst
                              /\ trs'[q][i].fresh = FALSE

-----------------------------------------------------------------------------
(* A step of job j that leaves the root and the other processes alone.     *)
Moves(j) ==
  /\ UNCHANGED root /\ now' \in Nat /\ now <= now'
  /\ \A q \in Procs \ {j} : trs'[q] = trs[q]
  /\ \A k \in Jobs \ {j} : /\ job'[k] = job[k]
                           /\ pc'[k] = pc[k] \/ (pc[k] = "slotWait" /\ pc'[k] = "slot")
                           /\ \A e \in FileExtents : extLock[e] = k => extLock'[e] = k
  /\ pc'[Setter] = pc[Setter] /\ pc'[Reader] = pc[Reader]

(* The record of a job, when some of its fields are set.                   *)
FreshJob(J, c, o, n, b) == J = [NoJob EXCEPT !.caller = c, !.ofs = o, !.end = n, !.buf = b]

BegunMeta(m, s, d, t) == m = [s EXCEPT !.data = d, !.ctime = t]

BegunJob(K, J, m, o, s) == K = [J EXCEPT !.meta = m, !.odata = o, !.small = s]

-----------------------------------------------------------------------------
(* A commit that swaps the root, by process u, which sets key k.           *)
Swaps(u, k, v, next) ==
  /\ root' = Put(root, k, v)
  /\ trs' = [q \in Procs |-> [i \in DOMAIN trs[q] |-> [trs[q][i] EXCEPT !.fresh = FALSE]]]
  /\ Goto(u, next)
  /\ UNCHANGED <<job, now, meta, extLock, calls, closedWait, slotWait>>

(* What a step of the setter or the reader leaves alone.                   *)
Settled ==
  /\ UNCHANGED <<root, job, calls, meta, now>> /\ UNCHANGED <<closedWait, slotWait>>
  /\ UNCHANGED <<root, named, durable>>

(* A user closes its last transaction, and goes on when it was the only one.*)
Closed(p, next) ==
  /\ pc'[p] = IF Len(trs[p]) = 1 THEN next ELSE pc[p]
  /\ trs'[p] = <<>> <=> Len(trs[p]) = 1

-----------------------------------------------------------------------------
(* The flush, Fsync and RootBlock: processes without transactions.         *)
Other == {Flusher, Fsyncer, Rooter}

Untouched == UNCHANGED <<root, trs, job, calls, meta, extLock, now>>

(* Keys are built by blockkey.go: an inode has one metadata key.           *)
WellKeyed(tree) == \A k \in DOMAIN tree : k.st = BST_META => k = MetaKey(k.ino)

-----------------------------------------------------------------------------
(***************************************************************************)
(* No block of file data that is still needed is let go.                   *)
(***************************************************************************)

(* The blocks that Hugger keeps alive.                                     *)
Held == blocks \cup ExtentBlocks(oldRoot)

(* What is inductive: the extents of the root and of every open            *)
(* transaction are held, and the transactions of a process are a stack.    *)
IInv ==
  /\ DOMAIN trs = Procs
  /\ \A p \in Procs : Stack(trs[p])
  /\ ExtentBlocks(root) \subseteq Held
  /\ \A p \in Procs : \A i \in DOMAIN trs[p] : ExtentBlocks(trs[p][i].dst) \subseteq Held
=============================================================================
