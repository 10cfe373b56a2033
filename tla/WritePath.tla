----------------------------- MODULE WritePath -----------------------------
(***************************************************************************)
(* Writing, reading and flushing one file (fs/fh.go, fs/fs.go,             *)
(* util/limiter.go, util/lockedmap.go) on top of the treehugger.           *)
(*                                                                         *)
(* A caller's Write is cut at extent boundaries into calls of write.  Each *)
(* takes the inode's metadata lock and the extent's lock, opens a          *)
(* transaction, updates the inode's metadata, and then waits for a slot of *)
(* the write limiter; a goroutine commits the metadata and, for a file     *)
(* that has extents, the data in a second transaction.  A call of write    *)
(* and its goroutine are one job here.  Next to the jobs run the periodic  *)
(* flush, Fsync, a server that asks for the root block with writes kept    *)
(* out, SetXAttr as the user of Update2, and Read.                         *)
(***************************************************************************)
EXTENDS Hugger

CONSTANTS Callers,    \* callers of Write; caller n writes the byte n
          Jobs,       \* calls of write that may be in progress at once
          Flusher, Fsyncer, Rooter, Setter, Reader,  \* the other goroutines
          LimitTotal, \* slots of the write limiter
          LastExtent, \* bound: the last extent that a request may reach
          Scenarios   \* [active, size, writes]: who runs, on which file

ASSUME LimitAssumption == LimitTotal \in Nat \ {0}

ASSUME ProcsAssumption ==
  /\ Jobs \cup {Flusher, Fsyncer, Rooter, Setter, Reader} \subseteq Procs
  /\ None \notin Procs
  /\ Jobs \cap {Flusher, Fsyncer, Rooter, Setter, Reader} = {}
  /\ Flusher \notin {Fsyncer, Rooter, Setter, Reader}
  /\ Fsyncer \notin {Rooter, Setter, Reader}
  /\ Rooter \notin {Setter, Reader} /\ Setter # Reader

Ino == 2
XAttrExtent == -1          \* the name under which attributes are locked
FileExtents == 0..LastExtent
Extents == {XAttrExtent} \cup FileExtents
XAttrKey == NewBlockKey(Ino, BST_XATTR, <<1>>)
InitialByte == 9

VARIABLES active,    \* the processes of this behaviour
          metaLock,  \* owner of inode.metaWriteLock
          extLock,   \* owner of each lock of inode.offsetMap
          meta,      \* inode.meta: the cached metadata
          calls,     \* per caller: what is left of its Write
          job,       \* per job: the arguments and locals of write
          limit,     \* ParallelLimiter.LimitTotal, 0 until it is initialised
          running,   \* ParallelLimiter.running
          slots,     \* slots each process holds or asks for
          slotWait,  \* processes waiting for a slot, in order
          now,       \* the clock
          expect,    \* the content the file should have
          got,       \* what Read has read
          promised   \* the content when Fsync was called, if no Write was running

localVars == <<active, metaLock, extLock, meta, calls, job, limit, running, slots,
               slotWait, now, expect, got, promised>>
vars == <<huggerVars, pc, localVars>>

NoJob == [ofs |-> 0, buf |-> <<>>, end |-> 0, odata |-> <<>>, meta |-> <<>>,
          small |-> FALSE, second |-> FALSE, caller |-> None]

ExtentOf(offset) == offset \div DataExtentSize

ASSUME ScenarioAssumption ==
  /\ LastExtent \in Nat
  /\ \A s \in Scenarios :
       /\ s.size \in Nat
       /\ \A w \in s.writes : w \in [ofs : Nat, left : Nat, busy : {FALSE}]
            /\ \A x \in w.ofs..(w.ofs + w.left - 1) : ExtentOf(x) \in FileExtents

InitTree(size) ==
  LET content == [i \in 1..size |-> InitialByte]
      m == [ctime |-> 0, dir |-> FALSE, size |-> size,
            data |-> IF size <= EmbeddedSize THEN content ELSE <<>>]
      exts == IF size <= EmbeddedSize THEN {}
              ELSE {e \in FileExtents : e * DataExtentSize < size}
      keys == {MetaKey(Ino)} \cup {NewBlockKeyOffset(Ino, e * DataExtentSize) : e \in exts}
  IN  [k \in keys |-> IF k = MetaKey(Ino) THEN m
         ELSE SubSeq(content, k.data[1] * DataExtentSize + 1,
                     Least(size, (k.data[1] + 1) * DataExtentSize))]

Init ==
  \E s \in Scenarios :
    /\ HuggerInit(InitTree(s.size))
    /\ active = s.active
    /\ pc = [p \in Procs |-> "idle"]
    /\ metaLock = None
    /\ extLock = [e \in Extents |-> None]
    /\ meta = InitTree(s.size)[MetaKey(Ino)]
    /\ calls \in [Callers -> s.writes \cup {[ofs |-> 0, left |-> 0, busy |-> FALSE]}]
    /\ \A c \in Callers : (calls[c].left > 0) <=> (c \in s.active)
    /\ job = [j \in Jobs |-> NoJob]
    /\ limit = 0 /\ running = 0 /\ slotWait = <<>>
    /\ slots = [p \in Procs |-> 0]
    /\ now = 0
    /\ expect = [i \in 1..s.size |-> InitialByte]
    /\ got = <<>>
    /\ promised = <<>>

Goto(p, next) == pc' = [pc EXCEPT ![p] = next]

-----------------------------------------------------------------------------
(* ParallelLimiter.  A process that does not get its slots waits; one that *)
(* gives slots back wakes the one that has waited longest, which tries     *)
(* again.                                                                  *)

Limited2Mut(p, next) ==
  /\ limit' = LimitTotal
  /\ IF running > LimitTotal
     THEN /\ slotWait' = Append(slotWait, p)
          /\ Goto(p, "slotWait")
          /\ UNCHANGED running
     ELSE /\ running' = running + slots[p]
          /\ Goto(p, next)
          /\ UNCHANGED slotWait

Limited2(p, next) ==
  /\ limit' = LimitTotal
  /\ IF running + slots[p] > LimitTotal
     THEN /\ slotWait' = Append(slotWait, p)
          /\ Goto(p, "slotWait")
          /\ UNCHANGED running
     ELSE /\ running' = running + slots[p]
          /\ Goto(p, next)
          /\ UNCHANGED slotWait

ReleaseSlots(p, next) ==
  /\ running' = running - slots[p]
  /\ slots' = [slots EXCEPT ![p] = 0]
  /\ slotWait' = IF slotWait = <<>> THEN <<>> ELSE Tail(slotWait)
  /\ pc' = IF slotWait = <<>> THEN [pc EXCEPT ![p] = next]
           ELSE [pc EXCEPT ![p] = next, ![Head(slotWait)] = "slot"]

-----------------------------------------------------------------------------
(* Write and write.                                                        *)

(* The loop of Write: the part of the request that lies in one extent      *)
(* becomes a call of write, on a job that is free (which one is no matter).*)
Write(c, j) ==
  /\ calls[c].left > 0 /\ ~calls[c].busy
  /\ pc[j] = "idle"
  /\ j = CHOOSE free \in Jobs : pc[free] = "idle"
  /\ LET ofs == calls[c].ofs
         w   == Least(calls[c].left, DataExtentSize - (ofs % DataExtentSize))
     IN  job' = [job EXCEPT ![j] =
                   [NoJob EXCEPT !.caller = c, !.ofs = ofs, !.end = ofs + calls[c].left,
                                 !.buf = [i \in 1..w |-> c]]]
  /\ calls' = [calls EXCEPT ![c].busy = TRUE]
  /\ Goto(j, "metaLock")
  /\ UNCHANGED <<huggerVars, active, metaLock, extLock, meta, limit, running, slots,
                 slotWait, now, expect, got, promised>>

LockMeta(j) ==
  /\ pc[j] = "metaLock"
  /\ metaLock = None
  /\ metaLock' = j
  /\ Goto(j, "extLock")
  /\ UNCHANGED <<huggerVars, active, extLock, meta, calls, job, limit, running, slots,
                 slotWait, now, expect, got, promised>>

(* MutexLockedMap.Locked: the lock of one extent; its entry in the map     *)
(* goes with its last user.                                                *)
LockedMut(p, e) == extLock' = [extLock EXCEPT ![e] = p]

Locked(p, e) ==
  /\ extLock[e] = None
  /\ extLock' = [extLock EXCEPT ![e] = p]

LockExtent(j) ==
  /\ pc[j] = "extLock"
  /\ Locked(j, ExtentOf(job[j].ofs))
  /\ Goto(j, "begin")
  /\ UNCHANGED <<huggerVars, active, metaLock, meta, calls, job, limit, running, slots,
                 slotWait, now, expect, got, promised>>

(* The reference content after the bytes of a job are in place.            *)
Overlay(content, j) ==
  LET b == job[j].buf
      n == IF job[j].end > Len(content) THEN job[j].end ELSE Len(content)
  IN  [i \in 1..n |->
         IF i > job[j].ofs /\ i <= job[j].ofs + Len(b) THEN b[i - job[j].ofs]
         ELSE IF i <= Len(content) THEN content[i] ELSE 0]

(* write up to the limiter: the transaction, the new size and times, and   *)
(* for a file that stays small the data itself.                            *)
BeginWrite(j) ==
  LET J      == job[j]
      e      == ExtentOf(J.ofs)
      offset == e * DataExtentSize
      odata  == IF meta.size <= EmbeddedSize /\ e = 0 THEN meta.data ELSE <<>>
      sized  == IF J.end > meta.size THEN SetMetaSize(meta, J.end) ELSE meta
      small  == sized.size <= EmbeddedSize /\ J.end <= EmbeddedSize
      data   == IF small
                THEN ExtentAfterWrite(sized, meta, root, Ino, odata, J.buf,
                                      J.ofs - offset, offset, J.end)
                ELSE sized.data
      m      == [sized EXCEPT !.data = data, !.ctime = now + 1]
  IN  /\ pc[j] = "begin"
      /\ GetTransaction(j, TreeSet(root, MetaKey(Ino), m))
      /\ now' = now + 1
      /\ meta' = m
      /\ job' = [job EXCEPT ![j].meta = m, ![j].odata = odata, ![j].small = small]
      /\ slots' = [slots EXCEPT ![j] = 1]
      /\ expect' = Overlay(expect, j)
      /\ Goto(j, "slot")
      /\ UNCHANGED <<root, oldRoot, named, durable, flushing, retryLock, closedWait, blocks,
                     active, metaLock, extLock, calls, limit, running, slotWait, got, promised>>

(* writeLimiter.Go: once the slot is there the call returns to Write and a *)
(* goroutine goes on.                                                      *)
GoWrite(j) ==
  /\ pc[j] = "slot"
  /\ Limited2(j, IF job[j].small THEN "commit" ELSE "unlockMeta")
  /\ calls' = IF running + 1 > LimitTotal THEN calls
              ELSE [calls EXCEPT ![job[j].caller] =
                      [ofs |-> @.ofs + Len(job[j].buf), left |-> @.left - Len(job[j].buf),
                       busy |-> FALSE]]
  /\ UNCHANGED <<huggerVars, active, metaLock, extLock, meta, job, slots, now, expect,
                 got, promised>>

(* A file with extents gives the metadata lock back before it commits.     *)
UnlockMeta(j) ==
  /\ pc[j] = "unlockMeta"
  /\ metaLock' = None
  /\ Goto(j, "commit")
  /\ UNCHANGED <<huggerVars, active, extLock, meta, calls, job, limit, running, slots,
                 slotWait, now, expect, got, promised>>

CommitWrite(j) ==
  /\ pc[j] = "commit"
  /\ CommitUntilSucceeds(j, "close")
  /\ UNCHANGED localVars

RetryWrite(j) == MergeAndRetry(j) /\ UNCHANGED localVars

CloseWrite(j) ==
  /\ pc[j] = "close"
  /\ Close(j, IF job[j].small \/ job[j].second THEN "done" ELSE "begin2")
  /\ UNCHANGED localVars

(* The second transaction of a goroutine: read what surrounds the bytes    *)
(* and write the extent.                                                   *)
WriteExtent(j) ==
  LET J       == job[j]
      offset  == ExtentOf(J.ofs) * DataExtentSize
      content == ExtentAfterWrite(J.meta, meta, root, Ino, J.odata, J.buf,
                                  J.ofs - offset, offset, J.end)
  IN  /\ pc[j] = "begin2"
      /\ GetTransaction(j, TreeSet(root, NewBlockKeyOffset(Ino, offset), content))
      /\ GetStorageBlock(content)
      /\ job' = [job EXCEPT ![j].second = TRUE]
      /\ Goto(j, "commit")
      /\ UNCHANGED <<root, oldRoot, named, durable, flushing, retryLock, closedWait,
                     active, metaLock, extLock, meta, calls, limit, running, slots, slotWait,
                     now, expect, got, promised>>

(* The end of a goroutine: the locks, then the slot.                       *)
EndWrite(j) ==
  /\ pc[j] = "done"
  /\ metaLock' = IF job[j].small THEN None ELSE metaLock
  /\ extLock' = [extLock EXCEPT ![ExtentOf(job[j].ofs)] = None]
  /\ ReleaseSlots(j, "idle")
  /\ job' = [job EXCEPT ![j] = NoJob]
  /\ UNCHANGED <<huggerVars, active, meta, calls, limit, now, expect, got, promised>>

JobStep(j) ==
  \/ LockMeta(j) \/ LockExtent(j) \/ BeginWrite(j) \/ GoWrite(j) \/ UnlockMeta(j)
  \/ CommitWrite(j) \/ RetryWrite(j) \/ CloseWrite(j) \/ WriteExtent(j) \/ EndWrite(j)

-----------------------------------------------------------------------------
(* The goroutine of NewFs that flushes every second, and once more when    *)
(* the file system closes.                                                 *)
FsFlush ==
  /\ Flusher \in active
  /\ \/ pc[Flusher] = "idle" /\ Flush(Flusher, "storageFlush")
     \/ FlushWoken(Flusher, "storageFlush")
  /\ UNCHANGED localVars

FsFlushStorage(p, next) ==
  /\ pc[p] = "storageFlush"
  /\ StorageFlush
  /\ Goto(p, next)
  /\ UNCHANGED <<root, oldRoot, named, trs, flushing, retryLock, closedWait, blocks, localVars>>

(* Exclusive asks for as many slots as the limiter has.  Before its first  *)
(* use that number is not computed yet and reads as 0.                     *)
Exclusive(p) ==
  /\ p \in active
  /\ pc[p] = "idle"
  /\ slots' = [slots EXCEPT ![p] = limit]
  /\ Goto(p, "slot")

WaitExclusive(p) ==
  /\ pc[p] = "slot"
  /\ Limited2(p, "exclusive")
  /\ UNCHANGED <<huggerVars, active, metaLock, extLock, meta, calls, job, slots, now,
                 expect, got, promised>>

EndExclusive(p, from, next) ==
  /\ pc[p] = from
  /\ ReleaseSlots(p, next)
  /\ UNCHANGED <<huggerVars, active, metaLock, extLock, meta, calls, job, limit, now,
                 expect, got, promised>>

(* Fsync: wait for the writes in progress, then flush storage.             *)
Fsync ==
  \/ /\ Exclusive(Fsyncer)
     /\ promised' = IF \E c \in Callers : calls[c].busy THEN <<>> ELSE expect
     /\ UNCHANGED <<huggerVars, active, metaLock, extLock, meta, calls, job, limit, running,
                    slotWait, now, expect, got>>
  \/ WaitExclusive(Fsyncer)
  \/ EndExclusive(Fsyncer, "exclusive", "storageFlush")
  \/ FsFlushStorage(Fsyncer, "returned")

(* WithoutParallelWrites around RootBlock, as the server calls it.         *)
RootBlock ==
  \/ /\ Exclusive(Rooter)
     /\ UNCHANGED <<huggerVars, active, metaLock, extLock, meta, calls, job, limit, running,
                    slotWait, now, expect, got, promised>>
  \/ WaitExclusive(Rooter)
  \/ pc[Rooter] = "exclusive" /\ Flush(Rooter, "rooted") /\ UNCHANGED localVars
  \/ FlushWoken(Rooter, "rooted") /\ UNCHANGED localVars
  \/ EndExclusive(Rooter, "rooted", "returned")

(* SetXAttr: Update2 under the lock of the inode's attributes.             *)
XAttrValue == <<7>>

SetXAttr ==
  /\ Setter \in active
  /\ \/ /\ pc[Setter] = "idle"
        /\ Locked(Setter, XAttrExtent)
        /\ Goto(Setter, "try")
        /\ UNCHANGED huggerVars
     \/ /\ pc[Setter] = "try"
        /\ Update2Try(Setter, TreeSet(root, XAttrKey, XAttrValue))
        /\ Goto(Setter, "tryCommit")
        /\ UNCHANGED extLock
     \/ /\ pc[Setter] = "tryCommit"
        /\ TryCommit(Setter, "close", "try")
        /\ UNCHANGED extLock
     \/ /\ pc[Setter] = "close"
        /\ Close(Setter, "unlock")
        /\ UNCHANGED extLock
     \/ /\ pc[Setter] = "unlock"
        /\ extLock' = [extLock EXCEPT ![XAttrExtent] = None]
        /\ Goto(Setter, "returned")
        /\ UNCHANGED huggerVars
  /\ UNCHANGED <<active, metaLock, meta, calls, job, limit, running, slots, slotWait, now,
                 expect, got, promised>>

(* Read of the whole file, one transaction per extent, each under the      *)
(* extent's lock; the locks go when the call returns.                      *)
ReadLength == (LastExtent + 1) * DataExtentSize

Read ==
  /\ Reader \in active
  /\ \/ /\ pc[Reader] \in {"idle", "readNext"}
        /\ Locked(Reader, ExtentOf(Len(got)))
        /\ Goto(Reader, "readBegin")
        /\ UNCHANGED <<huggerVars, got>>
     \/ /\ pc[Reader] = "readBegin"
        /\ GetTransaction(Reader, root)
        /\ Goto(Reader, "read")
        /\ UNCHANGED <<root, oldRoot, named, durable, flushing, retryLock, closedWait, blocks,
                       extLock, got>>
     \/ /\ pc[Reader] = "read"
        /\ LET r == readInTransaction(meta, Top(Reader).src, Ino, Len(got),
                                      ReadLength - Len(got))
               n == Len(got) + Len(r)
           IN  /\ got' = got \o r
               /\ Close(Reader, IF n < ReadLength /\ ExtentOf(n) # ExtentOf(Len(got))
                                THEN "readNext" ELSE "readDone")
        /\ UNCHANGED extLock
     \/ /\ pc[Reader] = "readDone"
        /\ extLock' = [e \in Extents |-> IF extLock[e] = Reader THEN None ELSE extLock[e]]
        /\ Goto(Reader, "returned")
        /\ UNCHANGED <<huggerVars, got>>
  /\ UNCHANGED <<active, metaLock, meta, calls, job, limit, running, slots, slotWait, now,
                 expect, promised>>

-----------------------------------------------------------------------------
Next ==
  \/ \E c \in Callers, j \in Jobs : Write(c, j)
  \/ \E j \in Jobs : JobStep(j)
  \/ FsFlush
  \/ FsFlushStorage(Flusher, "idle")
  \/ Fsync
  \/ RootBlock
  \/ SetXAttr
  \/ Read

Spec == Init /\ [][Next]_vars

(* Every goroutine runs on; a mutex and the broadcast at the end of a      *)
(* flush serve whoever keeps waiting, and a flush comes every second, so   *)
(* that a step which is possible again and again is taken.                 *)
Fairness ==
  /\ \A j \in Jobs : SF_vars(JobStep(j))
  /\ \A c \in Callers : WF_vars(\E j \in Jobs : Write(c, j))
  /\ WF_vars(FsFlush) /\ WF_vars(FsFlushStorage(Flusher, "idle"))
  /\ SF_vars(SetXAttr) /\ SF_vars(Read) /\ WF_vars(Fsync) /\ WF_vars(RootBlock)

FairSpec == Spec /\ Fairness

-----------------------------------------------------------------------------
(* Types.                                                                  *)
TypeOK ==
  /\ retryLock \in Procs \cup {None} /\ metaLock \in Jobs \cup {None}
  /\ extLock \in [Extents -> Procs \cup {None}]
  /\ running \in 0..LimitTotal /\ limit \in {0, LimitTotal}
  /\ flushing \in BOOLEAN

(* The content of extent e as a reader finds it, and as it should be.      *)
Found(m, tree, e) ==
  readInTransaction(m, tree, Ino, e * DataExtentSize, DataExtentSize)

Part(content, e) ==
  SubSeq(content, e * DataExtentSize + 1, Least(Len(content), (e + 1) * DataExtentSize))

(* An extent nobody is writing holds, in the current root, every byte that *)
(* was written to it: no commit of another write, merged or not, and no    *)
(* size change made in between loses or revives bytes (inodeFH.write).     *)
UnlockedExtentsCommitted ==
  \A e \in FileExtents :
    (extLock[e] \notin Jobs /\ e * DataExtentSize < Len(expect))
      => Found(meta, root, e) = Part(expect, e)

(* When no write is in progress the tree holds the metadata the inode      *)
(* caches and the whole content: what is flushed then is the file.         *)
QuiescentContents ==
  (\A j \in Jobs : pc[j] = "idle")
    => /\ root[MetaKey(Ino)] = meta
       /\ \A e \in FileExtents : e * DataExtentSize < Len(expect)
            => Found(root[MetaKey(Ino)], root, e) = Part(expect, e)

(* Every extent block that the root or an open transaction refers to is    *)
(* kept alive, by the root last flushed or by Hugger.blocks: a flush       *)
(* never lets go of a block that the tree still needs.                     *)
ExtentBlocks(tree) == {tree[k] : k \in SubTypeKeys(tree, Ino, BST_FILE_OFFSET2EXTENT)}

NoDanglingExtent ==
  LET held == blocks \cup ExtentBlocks(oldRoot)
  IN  /\ ExtentBlocks(root) \subseteq held
      /\ \A p \in Procs : \A i \in DOMAIN trs[p] : ExtentBlocks(trs[p][i].dst) \subseteq held

(* Read returns the bytes of the writes that had updated the inode when it *)
(* locked the extent, although these writes may not have committed when    *)
(* the read was called.                                                    *)
ReadYourWrites ==
  pc[Reader] = "readDone" => Len(got) <= Len(expect) /\ got = SubSeq(expect, 1, Len(got))

(* The treehugger implements the atomic store: a commit that lost the race *)
(* and merged its change applies exactly that change, and a flush saves a  *)
(* tree on which no transaction is open.                                   *)
Pending(p) ==
  LET t == IF p = Setter THEN Top(p) ELSE trs[p][1]
  IN  IF trs[p] = <<>> \/ pc[p] \in {"close", "try", "read"} THEN <<>>
      ELSE [k \in Delta(t.src, t.dst) |-> t.dst[k]]

Store == INSTANCE TreeStore WITH
  tree <- root, saved <- named, want <- [p \in Procs |-> Pending(p)],
  Users <- Procs, IsMeta <- LAMBDA k : k.st = BST_META

ImplementsStore == Store!Spec


(* Whatever was written reaches the backend, by the flush every second.    *)
EventuallyDurable == Flusher \in active => <>[](durable = root)

(* What the comment in Fsync says: once it has returned, all that was      *)
(* written before the call is on disk.                                     *)
FsyncDurable ==
  pc[Fsyncer] = "returned"
    => \A e \in FileExtents : e * DataExtentSize < Len(promised)
         => Found(durable[MetaKey(Ino)], durable, e)
              = Part(promised, e)
=============================================================================
