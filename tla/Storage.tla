------------------------------- MODULE Storage -------------------------------
(***************************************************************************)
(* storage.Storage: the write-back cache of reference counted blocks that  *)
(* sits between the trees and a Backend (storage/storage.go,               *)
(* storagejob.go, block.go, storageblock.go).                              *)
(*                                                                         *)
(* One goroutine owns every Block.  Clients talk to it through a FIFO      *)
(* channel of jobs and through StorageBlock handles, whose external        *)
(* reference count they change directly.  A block carries two counts:      *)
(* RefCount, persisted by the backend, counts references from stored       *)
(* blocks, from flushed names and from ReferBlockId; storageRefCount,      *)
(* never persisted, keeps the Block object in memory.                      *)
(*                                                                         *)
(* A flush is a loop over Go maps, so it is a sequence of steps, each of   *)
(* which flushes one block chosen by the (random) iteration order.         *)
(***************************************************************************)
EXTENDS Integers, Sequences, FiniteSets

CONSTANTS
  Ids,            \* block ids
  Names,          \* names of roots
  Handles,        \* StorageBlock objects
  None,           \* the empty block id, ""
  Times,          \* Times[p][i]: how often i is in the list deps of block p
  QueueLength,    \* capacity of jobChannel
  MaxApiRefs,     \* bound: no further ReferBlockId beyond these
  KeepsMetadata,  \* Backend.UpdateBlock persists the new metadata
  ClearsNames,    \* clients also set names to ""
  StoreStatuses,  \* statuses clients store blocks with
  Crashes         \* whether the process may crash

ASSUME StorageAssumption ==
  /\ IsFiniteSet(Ids) /\ IsFiniteSet(Names) /\ IsFiniteSet(Handles)
  /\ None \notin Ids
  /\ Times \in [Ids -> [Ids -> Nat]]
  /\ QueueLength \in Nat \ {0}
  /\ MaxApiRefs \in Nat
  /\ StoreStatuses \subseteq {"normal", "weak"}
  /\ KeepsMetadata \in BOOLEAN /\ ClearsNames \in BOOLEAN /\ Crashes \in BOOLEAN

\* The ids IterateReferencesCallback finds in a block's data.
Deps == [p \in Ids |-> {i \in Ids : Times[p][i] # 0}]

\* The references to i in the blocks P: a list may have an id several times.
References(P, i) == UNION {{p} \X (1..Times[p][i]) : p \in P}

\* Ids are hashes of the content, so references are never circular: among any
\* blocks there is one that none of them refers to.
ASSUME AcyclicAssumption ==
  \A S \in SUBSET Ids : S # {} => \E i \in S : \A p \in S : i \notin Deps[p]

VARIABLES
  mem,        \* Storage.blocks: the Block of each id
  names,      \* Storage.names
  queue,      \* Storage.jobChannel
  handle,     \* StorageBlock objects held by clients
  api,        \* references taken with ReferBlockId and not yet given back
  pc,         \* where the storage goroutine is: "idle", or inside flush()
  ops,        \* this flush() has counted an operation
  disk,       \* the backend's blocks
  diskNames,  \* the backend's names
  durable     \* what the backend would come up with after a crash

clientVars == <<queue, handle>>
backendVars == <<disk, diskNames>>
vars == <<mem, names, queue, handle, api, pc, ops, disk, diskNames, durable>>

(***************************************************************************)
(* BS_NORMAL stands for the statuses below BS_WANT_NORMAL, whose blocks    *)
(* refer to their dependencies, BS_WEAK for the others.                    *)
(***************************************************************************)
Status == {"normal", "weak"}

Meta == [RefCount : Nat, Status : Status]

Block ==
  [cached : BOOLEAN,            \* the id is a key of Storage.blocks
   RefCount : Nat, Status : Status,
   dirty : BOOLEAN,             \* Stored # nil, member of dirtyBlocks
   Stored : Meta,
   Backend : BOOLEAN,           \* Backend # nil
   storageRefCount : Nat, externalStorageRefCount : Nat,
   haveDiskRefs : BOOLEAN, haveStorageRefs : BOOLEAN,
   dirtyRef : BOOLEAN]          \* member of dirtyStorageRefBlocks

\* flush() stores and updates only blocks with RefCount # 0.
Absent == [RefCount |-> 0, Status |-> "normal"]
OnDisk(i) == disk[i].RefCount # 0

NoBlock ==
  [cached |-> FALSE, RefCount |-> 0, Status |-> "normal", dirty |-> FALSE,
   Stored |-> Absent, Backend |-> FALSE,
   storageRefCount |-> 0, externalStorageRefCount |-> 0,
   haveDiskRefs |-> FALSE, haveStorageRefs |-> FALSE, dirtyRef |-> FALSE]

Name ==
  [cached : BOOLEAN, oldValue : Ids \cup {None}, newValue : Ids \cup {None},
   gotStorageRef : BOOLEAN]

NoName ==
  [cached |-> FALSE, oldValue |-> None, newValue |-> None,
   gotStorageRef |-> FALSE]

(***************************************************************************)
(* A handle is free, waits for its job, is open, is the argument of a      *)
(* SetStatus in progress, or has dropped the last external reference and   *)
(* is about to send ("closing") or has sent ("released") the release job.  *)
(***************************************************************************)
HandleStates ==
  {"getting", "storing", "open", "setting", "closing", "released"}
Free == [st |-> "free", id |-> None]
Handle == [st : HandleStates, id : Ids] \cup {Free}

\* A panic ends the process; "nil" is that of a name set to a block that
\* storage does not have.
Stopped == {"panic", "nil"}

FlushSteps == {"names", "dirty", "dirty0", "srefs", "srefs0", "backend"}

Jobs ==
  [op : {"flush"}]
    \cup [op : {"get"}, h : Handles, id : Ids]
    \cup [op : {"store"}, h : Handles, id : Ids, status : Status, count : {0, 1}]
    \cup [op : {"updateRefCount"}, id : Ids, count : {-1, 1}]
    \cup [op : {"releaseStorage"}, h : Handles, id : Ids]
    \cup [op : {"setName"}, name : Names, id : Ids \cup {None}, kept : BOOLEAN]
    \cup [op : {"getName"}, name : Names]
    \cup [op : {"setStatus"}, h : Handles, id : Ids, status : Status]

-----------------------------------------------------------------------------
(***************************************************************************)
(* Operations on one Block, b.                                             *)
(***************************************************************************)
addStorageRefCount(b, v) ==
  LET n == b.storageRefCount + v IN
  [b EXCEPT !.storageRefCount = n,
            !.dirtyRef = @ \/ n = 0 \/ (b.RefCount = 0) # b.haveStorageRefs]

MetaOf(b) == [RefCount |-> b.RefCount, Status |-> b.Status]

\* Mutant: Stored is taken again from a block that is already dirty.
markDirtyAgain(b) ==
  [(IF b.dirty THEN b ELSE addStorageRefCount(b, 1)) EXCEPT
     !.dirty = TRUE, !.Stored = MetaOf(b)]

markDirty(b) ==
  IF b.dirty THEN b
  ELSE [addStorageRefCount(b, 1) EXCEPT !.dirty = TRUE, !.Stored = MetaOf(b)]

\* addRefCount(c), c # 0, up to the references a block that reached zero
\* takes on its dependencies.
countRef(b, c) == [markDirty(b) EXCEPT !.RefCount = @ + c]

HasDeps(st) == st = "normal"

(***************************************************************************)
(* Operations on the blocks, as functions from the blocks before, m, to    *)
(* the blocks after.  D is the set of ids an operation is applied to; v is *)
(* what it adds, a function on the ids it is applied to.                   *)
(***************************************************************************)

\* getBlockById on each of D: what is not cached comes from the backend.
FromBackend(i) ==
  [NoBlock EXCEPT !.cached = TRUE, !.RefCount = disk[i].RefCount,
                  !.Status = disk[i].Status, !.Backend = TRUE,
                  !.haveDiskRefs = TRUE]

getBlockById(m, D) ==
  [i \in Ids |-> IF i \in D /\ ~m[i].cached THEN FromBackend(i) ELSE m[i]]

Known(i) == mem[i].cached \/ OnDisk(i)

\* The same amount for each of D.
Each(D, c) == [i \in D |-> c]

\* addStorageRefCount(v[i]) on each i.
addStorageRefCounts(m, v) ==
  [i \in Ids |-> IF i \in DOMAIN v THEN addStorageRefCount(m[i], v[i]) ELSE m[i]]

\* addRefCount(v[i]), v[i] # 0, on each i.  Blocks that reach zero take storage
\* references on their dependencies.
addRefCounts(m, v) ==
  LET reaches0(i) == m[i].RefCount + v[i] = 0
      n == [i \in Ids |->
             IF i \notin DOMAIN v THEN m[i]
             ELSE [countRef(m[i], v[i]) EXCEPT !.haveStorageRefs = @ \/ reaches0(i)]]
      takers == {i \in DOMAIN v : /\ reaches0(i) /\ ~m[i].haveStorageRefs
                                  /\ HasDeps(m[i].Status)}
      taken == UNION {Deps[i] : i \in takers}
  IN addStorageRefCounts(getBlockById(n, taken),
                         [i \in taken |-> Cardinality(References(takers, i))])

\* setDependencies(add, storage, st): one reference per entry of the list deps.
setDependencies(m, b, add, storage, st) ==
  LET v == [i \in Deps[b] |-> IF add THEN Times[b][i] ELSE -Times[b][i]]
      n == getBlockById(m, Deps[b])
  IN IF ~HasDeps(st) THEN m
     ELSE IF storage THEN addStorageRefCounts(n, v)
     ELSE addRefCounts(n, v)

shouldHaveStorageDependencies(m, b, add) ==
  IF m[b].haveStorageRefs = add THEN m
  ELSE setDependencies([m EXCEPT ![b].haveStorageRefs = add],
                       b, add, TRUE, m[b].Status)

shouldHaveDiskDependencies(m, b, add) ==
  IF m[b].haveDiskRefs = add THEN m
  ELSE setDependencies([m EXCEPT ![b].haveDiskRefs = add],
                       b, add, FALSE, m[b].Status)

\* Mutants of changeStatus: the dependencies are left as they were; the flags
\* do not say which ones were set.
changeStatusOnly(m, b, st) ==
  [m EXCEPT ![b] = [markDirty(@) EXCEPT !.Status = st]]

changeStatusUnflagged(m, b, st) ==
  LET marked == [m EXCEPT ![b] = markDirty(@)]
      onDisk == marked[b].Stored.RefCount > 0
      added == setDependencies(marked, b, TRUE, ~onDisk, st)
      cleared == shouldHaveDiskDependencies(
                   shouldHaveStorageDependencies(added, b, FALSE), b, FALSE)
  IN [cleared EXCEPT ![b].Status = st]

\* The tail of setStatus, once the change is known to be possible.  Two
\* different statuses of the model always differ in whether they have
\* dependencies (changingDeps).
changeStatus(m, b, st) ==
  LET marked == [m EXCEPT ![b] = markDirty(@)]
      onDisk == marked[b].Stored.RefCount > 0
      added == setDependencies(marked, b, TRUE, ~onDisk, st)
      cleared == shouldHaveDiskDependencies(
                   shouldHaveStorageDependencies(added, b, FALSE), b, FALSE)
  IN [cleared EXCEPT ![b].haveDiskRefs = onDisk,
                     ![b].haveStorageRefs = ~onDisk, ![b].Status = st]

(***************************************************************************)
(* log.Panic: a count below zero, or a block used that neither the cache   *)
(* nor the backend has.                                                    *)
(***************************************************************************)
Panics(m) ==
  \E i \in Ids : \/ m[i].RefCount < 0 \/ m[i].storageRefCount < 0
                 \/ m[i].externalStorageRefCount < 0
                 \/ m[i].cached /\ ~Known(i)

\* The goroutine's blocks become m and it goes on to next, or it panics.
Become(m, next) ==
  IF Panics(m) THEN pc' = "panic" /\ UNCHANGED mem
               ELSE pc' = next /\ mem' = m

-----------------------------------------------------------------------------
Durable ==
  [disk : [Ids -> Meta], names : [Names -> Ids \cup {None}], api : [Ids -> Int]]

Snapshot == [disk |-> disk, names |-> diskNames, api |-> api]

Init ==
  /\ mem = [i \in Ids |-> NoBlock]
  /\ names = [n \in Names |-> NoName]
  /\ queue = <<>>
  /\ handle = [h \in Handles |-> Free]
  /\ api = [i \in Ids |-> 0]
  /\ pc = "idle"
  /\ ops = FALSE
  /\ disk = [i \in Ids |-> Absent]
  /\ diskNames = [n \in Names |-> None]
  /\ durable = Snapshot

(***************************************************************************)
(* Clients: goroutines that send jobs and open and close handles.          *)
(***************************************************************************)
Send(job) ==
  /\ Len(queue) < QueueLength
  /\ queue' = Append(queue, job)
  /\ UNCHANGED <<mem, names, api, pc, ops, backendVars, durable>>

EffectiveStatus(i) == IF mem[i].cached THEN mem[i].Status ELSE disk[i].Status

DepsOf(i) == IF Known(i) /\ HasDeps(EffectiveStatus(i)) THEN Deps[i] ELSE {}

HandlesOn(i, states) == {h \in Handles : handle[h].id = i /\ handle[h].st \in states}

Release(i) == [op |-> "updateRefCount", id |-> i, count |-> -1]

Queued(job) == Cardinality({k \in 1..Len(queue) : queue[k] = job})

Held == {i \in Ids : HandlesOn(i, {"open", "setting"}) # {}}

\* References from ReferBlockId that no job in the queue gives back.
Referred == {i \in Ids : api[i] > 0 /\ api[i] > Queued(Release(i))}

\* Blocks with a name that no job in the queue changes.
NameOf(n) == IF names[n].cached THEN names[n].newValue ELSE diskNames[n]

Renames(job, n) == job.op = "setName" /\ job.name = n

NamedIds ==
  {i \in Ids : \E n \in Names : /\ NameOf(n) = i
                                /\ \A k \in 1..Len(queue) : ~Renames(queue[k], n)}

\* Blocks that a job in the queue stores.
Storing == {i \in Ids : HandlesOn(i, {"storing"}) # {}}

(***************************************************************************)
(* What clients keep alive by their handles, references and names, and by  *)
(* the dependencies of these, until jobs that are sent now are handled.    *)
(***************************************************************************)
Protected ==
  LET kept == Held \cup Referred \cup NamedIds
      deps == [j \in Ids |-> DepsOf(j)]
  IN Storing \cup
     {i \in Ids : \A S \in SUBSET Ids :
        (kept \subseteq S /\ \A j \in S : deps[j] \subseteq S) => i \in S}

\* ReferOrStoreBlock (count 1) and ReferOrStoreBlock0.  Clients store a block
\* as normal only when they keep what it refers to; else its flush() panics.
ReferOrStoreBlock(h, i, status, count) ==
  /\ handle[h] = Free
  /\ count = 1 => api[i] < MaxApiRefs
  /\ Send([op |-> "store", h |-> h, id |-> i, status |-> status, count |-> count])
  /\ HasDeps(status) => Deps[i] \subseteq Protected
  /\ handle' = [handle EXCEPT ![h] = [st |-> "storing", id |-> i]]

GetBlockById(h, i) ==
  /\ handle[h] = Free
  /\ Send([op |-> "get", h |-> h, id |-> i])
  /\ handle' = [handle EXCEPT ![h] = [st |-> "getting", id |-> i]]

\* ReferBlockId
ReferBlockId(i) ==
  /\ api[i] < MaxApiRefs /\ i \in Protected
  /\ Send([op |-> "updateRefCount", id |-> i, count |-> 1])
  /\ UNCHANGED handle

\* ReleaseBlockId, of a reference the client has.
ReleaseBlockId(i) ==
  /\ i \in Referred
  /\ Send(Release(i))
  /\ UNCHANGED handle

\* Any id can be given a name.  kept, which the code does not have, records
\* whether the clients keep the block.
SetNameToBlockId(n, i) ==
  /\ i \in Ids \/ ClearsNames
  /\ Send([op |-> "setName", name |-> n, id |-> i, kept |-> i \in Protected])
  /\ UNCHANGED handle

GetBlockIdByName(n) ==
  /\ Send([op |-> "getName", name |-> n])
  /\ UNCHANGED handle

\* StorageBlock.SetStatus, with the one status the server upgrades to.
SetStatus(h) ==
  /\ handle[h].st = "open"
  /\ Send([op |-> "setStatus", h |-> h, id |-> handle[h].id, status |-> "normal"])
  /\ handle' = [handle EXCEPT ![h] = [st |-> "setting", id |-> @.id]]

Flush ==
  /\ Send([op |-> "flush"])
  /\ UNCHANGED handle

\* StorageBlock.Open
Open(h, g) ==
  /\ handle[h].st = "open" /\ handle[g] = Free
  /\ mem' = [mem EXCEPT ![handle[h].id].externalStorageRefCount = @ + 1]
  /\ handle' = [handle EXCEPT ![g] = handle[h]]
  /\ UNCHANGED <<names, queue, api, pc, ops, backendVars, durable>>

\* StorageBlock.Close, up to the atomic decrement and its check.
Close(h) ==
  LET i == handle[h].id
      last == mem[i].externalStorageRefCount = 1
  IN /\ handle[h].st = "open"
     /\ Become([mem EXCEPT ![i].externalStorageRefCount = @ - 1], pc)
     /\ handle' = [handle EXCEPT ![h] =
                     IF last THEN [st |-> "closing", id |-> i] ELSE Free]
     /\ UNCHANGED <<names, queue, api, ops, backendVars, durable>>

\* StorageBlock.Close, the ReleaseStorageBlockId of the last reference.
ReleaseStorageBlockId(h) ==
  /\ handle[h].st = "closing"
  /\ Send([op |-> "releaseStorage", h |-> h, id |-> handle[h].id])
  /\ handle' = [handle EXCEPT ![h] = [st |-> "released", id |-> @.id]]

Client ==
  /\ pc \notin Stopped
  /\ \/ \E h \in Handles : Close(h) \/ ReleaseStorageBlockId(h) \/ SetStatus(h)
     \/ \E h, g \in Handles : Open(h, g)
     \/ \E h \in Handles, i \in Ids :
          \/ GetBlockById(h, i)
          \/ \E status \in StoreStatuses, count \in {0, 1} :
               ReferOrStoreBlock(h, i, status, count)
     \/ \E i \in Ids : ReferBlockId(i) \/ ReleaseBlockId(i)
     \/ \E n \in Names :
          \/ GetBlockIdByName(n)
          \/ \E i \in Ids \cup {None} : SetNameToBlockId(n, i)
     \/ Flush

-----------------------------------------------------------------------------
(***************************************************************************)
(* The storage goroutine, run(): one job at a time.                        *)
(***************************************************************************)
Take(op) ==
  /\ pc = "idle" /\ queue # <<>> /\ Head(queue).op = op
  /\ queue' = Tail(queue)

current == Head(queue)

\* Mutants: every external reference adds a storage reference; the first one
\* takes one away, as the last one does.
setBlockEach(m, i) ==
  addStorageRefCounts([m EXCEPT ![i].externalStorageRefCount = @ + 1], Each({i}, 1))

setBlockReleases(m, i) ==
  LET n == [m EXCEPT ![i].externalStorageRefCount = @ + 1] IN
  IF n[i].externalStorageRefCount = 1 THEN addStorageRefCounts(n, Each({i}, -1)) ELSE n

\* StorageBlock.setBlock
setBlock(m, i) ==
  LET n == [m EXCEPT ![i].externalStorageRefCount = @ + 1] IN
  IF n[i].externalStorageRefCount = 1 THEN addStorageRefCounts(n, Each({i}, 1)) ELSE n

JobGetBlockById ==
  /\ Take("get")
  /\ LET i == current.id IN
     IF Known(i)
     THEN /\ Become(setBlock(getBlockById(mem, {i}), i), "idle")
          /\ handle' = [handle EXCEPT ![current.h] = [st |-> "open", id |-> current.id]]
     ELSE /\ handle' = [handle EXCEPT ![current.h] = Free]
          /\ UNCHANGED <<mem, pc>>
  /\ UNCHANGED <<names, api, ops, backendVars, durable>>

\* jobStoreBlock, as far as its addRefCount
newBlock(i, status) ==
  [mem EXCEPT ![i] = [NoBlock EXCEPT !.cached = TRUE, !.Status = status]]

\* Mutant: a block that was found is not counted.
referUncounted(i, status, count) ==
  IF Known(i) THEN getBlockById(mem, {i})
  ELSE IF count = 0 THEN newBlock(i, status)
  ELSE addRefCounts(newBlock(i, status), Each({i}, count))

\* jobReferOrStoreBlock and, by fallthrough, jobStoreBlock, before setBlock
referOrStore(i, status, count) ==
  LET m == IF Known(i) THEN getBlockById(mem, {i}) ELSE newBlock(i, status)
  IN IF count = 0 THEN m ELSE addRefCounts(m, Each({i}, count))

\* Every count grows here and no dependency is looked up, so no panic is
\* possible; Panics would take the new block for one looked up in vain.
JobReferOrStoreBlock ==
  /\ Take("store")
  /\ mem' = setBlock(referOrStore(current.id, current.status, current.count), current.id)
  /\ api' = [api EXCEPT ![current.id] = @ + current.count]
  /\ handle' = [handle EXCEPT ![current.h] = [st |-> "open", id |-> current.id]]
  /\ UNCHANGED <<names, pc, ops, backendVars, durable>>

\* Mutant: the dependencies follow the count at once, not when it is flushed.
JobUpdateDepsAtOnce ==
  /\ Take("updateRefCount")
  /\ LET i == current.id
         m == addRefCounts(getBlockById(mem, {i}), Each({i}, current.count))
     IN Become(shouldHaveDiskDependencies(m, i, m[i].RefCount # 0), "idle")
  /\ api' = [api EXCEPT ![current.id] = @ + current.count]
  /\ UNCHANGED <<names, handle, ops, backendVars, durable>>

JobUpdateBlockIdRefCount ==
  /\ Take("updateRefCount")
  /\ Become(addRefCounts(getBlockById(mem, {current.id}), Each({current.id}, current.count)),
            "idle")
  /\ api' = [api EXCEPT ![current.id] = @ + current.count]
  /\ UNCHANGED <<names, handle, ops, backendVars, durable>>

\* jobUpdateBlockIdStorageRefCount, sent by Close only
JobUpdateBlockIdStorageRefCount ==
  /\ Take("releaseStorage")
  /\ Become(addStorageRefCounts(getBlockById(mem, {current.id}), Each({current.id}, -1)), "idle")
  /\ handle' = [handle EXCEPT ![current.h] = Free]
  /\ UNCHANGED <<names, api, ops, backendVars, durable>>

getName(n) ==
  IF names[n].cached THEN names[n]
  ELSE [cached |-> TRUE, oldValue |-> diskNames[n], newValue |-> diskNames[n],
        gotStorageRef |-> FALSE]

JobGetBlockIdByName ==
  /\ Take("getName")
  /\ names' = [names EXCEPT ![current.name] = getName(current.name)]
  /\ UNCHANGED <<mem, handle, api, pc, ops, backendVars, durable>>

\* Mutant: no storage reference is taken on the new block.
takeNewValueFree(new) == getBlockById(mem, new)

takeNewValue(new) == addStorageRefCounts(getBlockById(mem, new), Each(new, 1))

\* setNameToBlockId.  getBlockById of "" or of an id that storage does not
\* have is nil, and is dereferenced.
JobSetNameToBlockId ==
  /\ Take("setName")
  /\ LET n == getName(current.name)
         i == current.id
         old == IF n.gotStorageRef THEN {n.newValue} ELSE {}
         m == getBlockById(takeNewValue({i} \ {None}), old)
     IN \/ /\ i \in Ids /\ ~Known(i)
           /\ pc' = IF current.kept THEN "panic" ELSE "nil"
           /\ names' = [names EXCEPT ![current.name] = n]
           /\ UNCHANGED mem
        \/ /\ i \in Ids => Known(i)
           /\ IF None \in old THEN pc' = "panic" /\ UNCHANGED mem
              ELSE Become(addStorageRefCounts(m, Each(old, -1)), "idle")
           /\ names' = [names EXCEPT ![current.name] =
                          [n EXCEPT !.newValue = i, !.gotStorageRef = TRUE]]
  /\ UNCHANGED <<handle, api, ops, backendVars, durable>>

\* Mutant: setStatus does not check that the transition is possible.
missingUnchecked(i) == {}

missing(i) == {d \in Deps[i] : ~Known(d)}

\* setStatus.  The check stops at the first missing dependency, and the
\* ones it looked up before that stay cached.
JobSetStorageBlockStatus ==
  /\ Take("setStatus")
  /\ LET i == current.id
         wants == HasDeps(current.status)
     IN \/ /\ mem[i].Status = current.status
           /\ UNCHANGED <<mem, pc>>
        \/ /\ mem[i].Status # current.status /\ (wants => missing(i) = {})
           /\ LET m == changeStatus(getBlockById(mem, IF wants THEN Deps[i] ELSE {}),
                                    i, current.status)
              IN Become(IF wants THEN addStorageRefCounts(m, Each(Deps[i], 0)) ELSE m, "idle")
        \/ /\ mem[i].Status # current.status /\ wants /\ missing(i) # {}
           /\ \E seen \in SUBSET (Deps[i] \ missing(i)) :
                Become(addStorageRefCounts(getBlockById(mem, seen), Each(seen, 0)), "idle")
  /\ handle' = [handle EXCEPT ![current.h] = [st |-> "open", id |-> current.id]]
  /\ UNCHANGED <<names, api, ops, backendVars, durable>>

JobFlush ==
  /\ Take("flush")
  /\ pc' = "names"
  /\ UNCHANGED <<mem, names, handle, api, ops, backendVars, durable>>

(***************************************************************************)
(* flush().  A pass over a map visits what the map held when it began and  *)
(* may visit what is added meanwhile.  A pass that did something is        *)
(* repeated, so the pass over blocks with references ends when none is     *)
(* left, and the pass over the others may be cut short by one.             *)
(***************************************************************************)
flushVars == <<api, queue, handle, durable>>

\* flushBlockName, what it does to the blocks; the mutant forgets the old one.
renamedNewOnly(new, old) ==
  addStorageRefCounts(addRefCounts(getBlockById(mem, new), Each(new, 1)), Each(new, -1))

renamed(new, old) ==
  LET referred == addRefCounts(getBlockById(mem, new), Each(new, 1))
      moved == addStorageRefCounts(referred, Each(new, -1))
  IN addRefCounts(getBlockById(moved, old), Each(old, -1))

FlushBlockName(n) ==
  /\ pc = "names"
  /\ names[n].cached /\ names[n].oldValue # names[n].newValue
  /\ LET new == {names[n].newValue} \ {None}
         old == {names[n].oldValue} \ {None}
     IN /\ Become(renamed(new, old), "names")
        /\ names' = [names EXCEPT ![n].oldValue = names[n].newValue,
                                  ![n].gotStorageRef = @ /\ new = {}]
  /\ diskNames' = [diskNames EXCEPT ![n] = names[n].newValue]
  /\ ops' = TRUE
  /\ UNCHANGED <<disk, flushVars>>

FlushNamesDone ==
  /\ pc = "names"
  /\ \A n \in Names : names[n].cached => names[n].oldValue = names[n].newValue
  /\ pc' = "dirty"
  /\ UNCHANGED <<mem, names, ops, backendVars, flushVars>>

DirtyBlocks == {i \in Ids : mem[i].dirty}
DirtyReferred == {i \in DirtyBlocks : mem[i].RefCount # 0}

\* Block.flush, what it does to the blocks.
flushBlock(m, b) ==
  LET hadRefs == m[b].Backend /\ m[b].Stored.RefCount # 0
      haveRefs == m[b].RefCount # 0
      stored == [m EXCEPT ![b].Backend = haveRefs]
      onDisk == shouldHaveDiskDependencies(stored, b, haveRefs)
      moved == IF haveRefs THEN shouldHaveStorageDependencies(onDisk, b, FALSE)
               ELSE onDisk
      changed == IF hadRefs # haveRefs THEN moved ELSE stored
  IN addStorageRefCounts([changed EXCEPT ![b].dirty = FALSE, ![b].Stored = Absent],
                        Each({b}, -1))

\* DeleteBlock, StoreBlock or UpdateBlock
flushedMeta(b) ==
  IF mem[b].RefCount # 0 /\ mem[b].Backend /\ ~KeepsMetadata THEN disk[b]
  ELSE IF mem[b].RefCount # 0
       THEN MetaOf(mem[b])
  ELSE IF mem[b].Backend THEN Absent
  ELSE disk[b]

\* Mutant: a deletion is not counted as an operation.
opsWithoutDeletes(b) == ops \/ mem[b].RefCount # 0

opsAfter(b) == TRUE

FlushBlock(b) ==
  /\ \/ pc = "dirty" /\ b \in DirtyReferred
     \/ pc = "dirty0" /\ b \in DirtyBlocks \ DirtyReferred
  /\ Become(flushBlock(mem, b), pc)
  /\ disk' = [disk EXCEPT ![b] = flushedMeta(b)]
  /\ ops' = opsAfter(b)
  /\ UNCHANGED <<names, diskNames, flushVars>>

\* Mutant: the pass over the blocks without references is left out.
FlushPassDoneEarly ==
  /\ pc = "dirty" /\ DirtyReferred = {}
  /\ pc' = "srefs"
  /\ UNCHANGED <<mem, names, ops, backendVars, flushVars>>

FlushPassDone ==
  /\ \/ /\ pc = "dirty" /\ DirtyReferred = {}
        /\ pc' = IF DirtyBlocks = {} THEN "srefs" ELSE "dirty0"
     \/ /\ pc = "dirty0" /\ (DirtyReferred # {} \/ DirtyBlocks = {})
        /\ pc' = "dirty"
  /\ UNCHANGED <<mem, names, ops, backendVars, flushVars>>

DirtyStorageRefBlocks == {i \in Ids : mem[i].dirtyRef}
DirtyStorageReferred == {i \in DirtyStorageRefBlocks : mem[i].storageRefCount # 0}

\* Mutants of flushStorageRef: b is not taken off dirtyStorageRefBlocks; b is
\* not dropped; b releases its dependencies.
flushStorageRefStays(m, b) ==
  IF m[b].storageRefCount = 0
  THEN [shouldHaveStorageDependencies(m, b, FALSE) EXCEPT ![b] = NoBlock]
  ELSE shouldHaveStorageDependencies(m, b, m[b].RefCount = 0)

flushStorageRefKeeps(m, b) ==
  shouldHaveStorageDependencies([m EXCEPT ![b].dirtyRef = FALSE], b,
                                m[b].storageRefCount # 0 /\ m[b].RefCount = 0)

flushStorageRefReleases(m, b) ==
  LET clean == [m EXCEPT ![b].dirtyRef = FALSE] IN
  IF m[b].storageRefCount = 0
  THEN [shouldHaveStorageDependencies(clean, b, FALSE) EXCEPT ![b] = NoBlock]
  ELSE shouldHaveStorageDependencies(clean, b, FALSE)

flushStorageRef(m, b) ==
  LET clean == [m EXCEPT ![b].dirtyRef = FALSE] IN
  IF m[b].storageRefCount = 0
  THEN [shouldHaveStorageDependencies(clean, b, FALSE) EXCEPT ![b] = NoBlock]
  ELSE shouldHaveStorageDependencies(clean, b, m[b].RefCount = 0)

FlushStorageRef(b) ==
  /\ \/ pc = "srefs" /\ b \in DirtyStorageReferred
     \/ pc = "srefs0" /\ b \in DirtyStorageRefBlocks \ DirtyStorageReferred
  /\ Become(flushStorageRef(mem, b), pc)
  /\ ops' = \/ ops \/ mem[b].storageRefCount = 0
            \/ mem[b].haveStorageRefs # (mem[b].RefCount = 0)
  /\ UNCHANGED <<names, backendVars, flushVars>>

FlushStoragePassDone ==
  /\ \/ /\ pc = "srefs" /\ DirtyStorageReferred = {}
        /\ pc' = IF DirtyStorageRefBlocks = {} THEN "backend" ELSE "srefs0"
     \/ /\ pc = "srefs0" /\ (DirtyStorageReferred # {} \/ DirtyStorageRefBlocks = {})
        /\ pc' = "srefs"
  /\ UNCHANGED <<mem, names, ops, backendVars, flushVars>>

\* Backend.Flush.  The write and delete counters that also ask for it come
\* from a flush that had counted an operation and called it itself.
BackendFlush ==
  /\ pc = "backend"
  /\ durable' = IF ops THEN Snapshot ELSE durable
  /\ ops' = FALSE
  /\ pc' = "idle"
  /\ UNCHANGED <<mem, names, backendVars, api, queue, handle>>

FlushStep ==
  \/ \E n \in Names : FlushBlockName(n)
  \/ FlushNamesDone
  \/ \E b \in Ids : FlushBlock(b) \/ FlushStorageRef(b)
  \/ FlushPassDone
  \/ FlushStoragePassDone
  \/ BackendFlush

Job ==
  \/ JobGetBlockById \/ JobReferOrStoreBlock
  \/ JobUpdateBlockIdRefCount \/ JobUpdateBlockIdStorageRefCount
  \/ JobGetBlockIdByName \/ JobSetNameToBlockId
  \/ JobSetStorageBlockStatus \/ JobFlush

Goroutine == Job \/ FlushStep

\* The process dies and a new one begins with Init; a backend that persists at
\* Backend.Flush (tree) comes back with what it had then.
Crash ==
  /\ Crashes /\ pc # "panic"
  /\ mem' = [i \in Ids |-> NoBlock]
  /\ names' = [n \in Names |-> NoName]
  /\ queue' = <<>>
  /\ handle' = [h \in Handles |-> Free]
  /\ api' = durable.api
  /\ pc' = "idle"
  /\ ops' = FALSE
  /\ disk' = durable.disk
  /\ diskNames' = durable.names
  /\ UNCHANGED durable

\* A process that died of a name does nothing more by itself.
Died == pc = "nil" /\ UNCHANGED vars

Next == Client \/ Goroutine \/ Crash \/ Died

Spec == Init /\ [][Next]_vars

\* The goroutine is never blocked: Go's scheduler runs it.
FairSpec == Spec /\ WF_vars(FlushStep)

-----------------------------------------------------------------------------
\* What the fields hold; in memory and on the backend, no count is below zero.
TypeOK ==
  /\ mem \in [Ids -> Block]
  /\ names \in [Names -> Name]
  /\ queue \in Seq(Jobs)
  /\ handle \in [Handles -> Handle]
  /\ api \in [Ids -> Int]
  /\ pc \in {"idle"} \cup Stopped \cup FlushSteps
  /\ ops \in BOOLEAN
  /\ disk \in [Ids -> Meta]
  /\ diskNames \in [Names -> Ids \cup {None}]
  /\ durable \in Durable

\* No job, no flush step and no Close runs into one of block.go's panics (a
\* count below zero, a dependency "awol"), storagejob.go's "disappeared", or a
\* nil block.  This includes a name set to a block that the clients kept when
\* they sent the job.  A name can be set to any id: for a block that storage
\* does not have and nobody kept, setNameToBlockId does dereference nil.
NoPanic == pc # "panic"

HoldsDisk(p) ==
  IF mem[p].cached THEN mem[p].haveDiskRefs /\ HasDeps(mem[p].Status)
  ELSE OnDisk(p) /\ HasDeps(disk[p].Status)

RefCountOf(i) == IF mem[i].cached THEN mem[i].RefCount ELSE disk[i].RefCount
OldValueOf(n) == IF names[n].cached THEN names[n].oldValue ELSE diskNames[n]

DiskHolders(i) == {p \in Ids : i \in Deps[p] /\ HoldsDisk(p)}
NameHolders(i) == {n \in Names : OldValueOf(n) = i}

\* Block.RefCount is exactly the number of references to the block in stored
\* blocks, plus the flushed names on it, plus the ReferBlockIds not given back.
RefCountExact ==
  pc # "panic" => \A i \in Ids :
    RefCountOf(i) = Cardinality(References(DiskHolders(i), i))
                    + Cardinality(NameHolders(i)) + api[i]

StorageHolders(i) ==
  {p \in Ids : i \in Deps[p] /\ mem[p].haveStorageRefs /\ HasDeps(mem[p].Status)}
NewNameHolders(i) == {n \in Names : names[n].gotStorageRef /\ names[n].newValue = i}
One(b) == IF b THEN 1 ELSE 0

\* Block.storageRefCount is exactly: one if dirty, one per reference in a block
\* that keeps it in memory, one per unflushed name, one while any handle is open, and
\* one per release job not yet handled.
StorageRefCountExact ==
  pc # "panic" => \A i \in Ids :
    /\ mem[i].externalStorageRefCount = Cardinality(HandlesOn(i, {"open", "setting"}))
    /\ mem[i].storageRefCount =
         One(mem[i].dirty) + Cardinality(References(StorageHolders(i), i))
         + Cardinality(NewNameHolders(i))
         + One(mem[i].externalStorageRefCount # 0)
         + Cardinality(HandlesOn(i, {"closing", "released"}))

\* Backend's contract: StoreBlock only of an id the backend does not have,
\* DeleteBlock and UpdateBlock only of one it has, with the metadata (Stored)
\* under which the file backend named it.
BackendContract ==
  pc # "panic" => \A i \in Ids : mem[i].cached =>
    /\ mem[i].Backend = OnDisk(i)
    /\ mem[i].dirty /\ mem[i].Backend => mem[i].Stored = disk[i]
    /\ ~mem[i].dirty /\ mem[i].Backend => disk[i] = MetaOf(mem[i])

\* The dependencies of a normal block that anything refers to exist: it can
\* be read back completely, whichever handles were closed and flushes ran
\* meanwhile.
DependenciesExist ==
  \A p \in Ids : RefCountOf(p) # 0 \/ mem[p].storageRefCount # 0 =>
    \A i \in DepsOf(p) : Known(i)

\* When Backend.Flush is called, names and block hierarchies are consistent
\* (backend.go): names lead to stored blocks, stored blocks to stored
\* dependencies, counts are exact, and nothing unreferenced is stored.
ConsistentAtFlush ==
  LET d == durable
      holders(i) == {p \in Ids : i \in Deps[p] /\ d.disk[p].RefCount # 0
                                 /\ HasDeps(d.disk[p].Status)}
  IN /\ \A n \in Names : d.names[n] # None => d.disk[d.names[n]].RefCount # 0
     /\ \A i \in Ids :
          d.disk[i].RefCount = Cardinality(References(holders(i), i)) + d.api[i]
                               + Cardinality({n \in Names : d.names[n] = i})

\* After flush() with no handle open or being closed, no block is cached
\* that is not stored (TransientCount is zero) and every cached block is
\* kept by a name.
NoTransients ==
  pc = "backend" /\ (\A h \in Handles : handle[h].st \in {"free", "getting", "storing"})
    => \A i \in Ids : mem[i].cached => /\ mem[i].RefCount # 0
                                       /\ NewNameHolders(i) # {}

\* A block is deleted from the backend only when no block stored there
\* refers to it any more, whatever order flush() visits the blocks in.
DeletedUnreferenced ==
  [][\A i \in Ids : (OnDisk(i) /\ ~OnDisk(i)' /\ pc' # "idle") =>
       \A p \in Ids : i \in Deps[p] /\ HasDeps(disk[p].Status) => ~OnDisk(p)]_vars

\* A skipped Backend.Flush loses nothing: between flushes the backend has
\* snapshotted all it was told.
NothingUnsnapshotted ==
  pc = "idle" => durable.disk = disk /\ durable.names = diskNames

\* flush() ends: its passes, each of which may dirty more blocks, do not go
\* on for ever, and the client waiting for the job is answered.
FlushTerminates == pc \in FlushSteps ~> pc = "idle"
=============================================================================
