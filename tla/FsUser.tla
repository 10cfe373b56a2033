------------------------------- MODULE FsUser -------------------------------
(***************************************************************************)
(* FSUser (fs/fsuser.go), the path-based client of the file system, and    *)
(* several of them at work at once.  A path is a sequence of names; every  *)
(* name is looked up and its reference forgotten at once.  Each user works *)
(* off a script of calls; FSUser.lock makes the calls of one user          *)
(* sequential.                                                             *)
(***************************************************************************)
EXTENDS Ops

CONSTANT Scripts,   \* what the users may do: [calls, known], calls a function from users
                    \* to sequences of calls, and 1..known the inodes that have been made
                    \* or looked up since the mount
         FirstTree  \* the tree the users find

VARIABLE script    \* per user: the calls still to make

vars == <<inodeVars, listing, script>>

Dirname(path) == SubSeq(path, 1, Len(path) - 1)
Basename(path) == path[Len(path)]

(* lookup.                                                                 *)
lookup(path) ==
  LET step(name) == Lookup(name) \o <<<<"enter">>, <<"forget", 1>>, <<"end", 0>>>>
  IN  <<<<"root">>>> \o
      (IF path = <<>> THEN Lookup(Dot) \o <<<<"forget", 1>>, <<"end", 0>>>>
       ELSE FlattenSeq([i \in DOMAIN path |-> step(path[i])]))

(* The calls; each is a record with the name of the call and its paths.    *)
UserListDir(c) ==
  lookup(c.path) \o ListDirBackdoor \o <<<<"count">>>> \o OpenDir
    \o ReadDir("dir") \o <<<<"compare">>>> \o ReadDir("plus") \o <<<<"compare">>>> \o ReleaseFh

UserMkdir(c) == lookup(Dirname(c.path)) \o Mkdir(Basename(c.path))

Stat(c) == lookup(c.path) \o GetAttr

(* Remove: Stat, and then Rmdir or Unlink as it says.                      *)
UserRemove(c) == Stat(c) \o <<<<"kind", Basename(c.path), Dirname(c.path)>>>>

Chattr(c) == lookup(c.path) \o SetAttr("setAttr", 1)

UserTruncate(c) == lookup(c.path) \o SetAttr("setSize", c.size)

UserLink(c) == lookup(c.path) \o <<<<"save">>>> \o lookup(Dirname(c.new)) \o Link(Basename(c.new))

UserRename(c) ==
  lookup(Dirname(c.new)) \o <<<<"save">>>> \o lookup(Dirname(c.path))
    \o Rename(Basename(c.path), Basename(c.new))

UserSymlink(c) == lookup(Dirname(c.path)) \o Symlink(Basename(c.path), <<1>>)

UserReadlink(c) == lookup(c.path) \o Readlink

UserGetXAttr(c) == lookup(c.path) \o ReadXAttr \o ReadXAttr

UserListXAttr(c) == lookup(c.path) \o ReadXAttr

UserRemoveXAttr(c) == lookup(c.path) \o ChangeXAttr("removeXAttr", 1)

UserSetXAttr(c) == lookup(c.path) \o ChangeXAttr("setXAttr", 1)

(* OpenFile and, later, Close.                                             *)
OpenFile(c) ==
  IF "create" \in c.flags
  THEN lookup(Dirname(c.path)) \o Create(Basename(c.path), c.flags)
  ELSE lookup(c.path) \o Open("node", c.flags, 0)

Program(c) ==
  CASE c.call = "ListDir"     -> UserListDir(c)
    [] c.call = "Mkdir"       -> UserMkdir(c)
    [] c.call = "Mknod"       -> lookup(Dirname(c.path)) \o Mknod(Basename(c.path))
    [] c.call = "Stat"        -> Stat(c)
    [] c.call = "Remove"      -> UserRemove(c)
    [] c.call = "Chmod"       -> Chattr(c)
    [] c.call = "Truncate"    -> UserTruncate(c)
    [] c.call = "Link"        -> UserLink(c)
    [] c.call = "Rename"      -> UserRename(c)
    [] c.call = "Symlink"     -> UserSymlink(c)
    [] c.call = "Readlink"    -> UserReadlink(c)
    [] c.call = "GetXAttr"    -> UserGetXAttr(c)
    [] c.call = "ListXAttr"   -> UserListXAttr(c)
    [] c.call = "RemoveXAttr" -> UserRemoveXAttr(c)
    [] c.call = "SetXAttr"    -> UserSetXAttr(c)
    [] c.call = "OpenFile"    -> OpenFile(c)
    [] c.call = "Close"       -> ReleaseFh

-----------------------------------------------------------------------------
Idle(u) == ~Busy(u)

(* The next call of a user's script.  Close needs a file to close.         *)
Begin(u) ==
  /\ Idle(u)
  /\ script[u] # <<>>
  /\ LET c == Head(script[u])
     IN  todo' = [todo EXCEPT ![u] = IF c.call = "Close" /\ slot[u].fh \notin DOMAIN fhs
                                     THEN <<>> ELSE Program(c)]
  /\ script' = [script EXCEPT ![u] = Tail(@)]
  /\ slot' = [slot EXCEPT ![u] = [NoSlots EXCEPT !.fh = slot[u].fh]]
  /\ status' = [status EXCEPT ![u] = "OK"]
  /\ UNCHANGED <<tree, objs, ino2inode, fhs, nextFh, inodeLock, defers, trying, nlookup,
                 panicked, listing>>

(* Steps of FSUser between operations: NodeId becomes the root, the inode  *)
(* just looked up, or is kept as Newdir or Oldnodeid.                      *)
Walk(u) ==
  /\ IsCall(u, "root") \/ IsCall(u, "enter") \/ IsCall(u, "save")
  /\ slot' = [slot EXCEPT ![u] =
                CASE Call(u)[1] = "root"  -> [@ EXCEPT !.node = 1]
                  [] Call(u)[1] = "enter" -> [@ EXCEPT !.node = objs[slot[u].child].ino]
                  [] Call(u)[1] = "save"  -> [@ EXCEPT !.node2 = slot[u].node]]
  /\ Continue(u, <<>>, <<>>)
  /\ UNCHANGED <<tree, objs, ino2inode, fhs, nextFh, inodeLock, trying, nlookup, panicked,
                 listing, script>>

(* ListDir compares the length of its three listings, and returns early    *)
(* when two of them differ.                                                *)
CompareListings(u) ==
  /\ IsCall(u, "count") \/ IsCall(u, "compare")
  /\ slot' = IF Call(u)[1] = "count"
             THEN [slot EXCEPT ![u].count = Len(listing[u].seen)] ELSE slot
  /\ IF Call(u)[1] = "compare" /\ fhs[slot[u].fh].pos # slot[u].count
     THEN Return(u, "wrong final pos") ELSE Continue(u, <<>>, <<>>)
  /\ UNCHANGED <<tree, objs, ino2inode, fhs, nextFh, inodeLock, trying, nlookup, panicked,
                 listing, script>>

RemoveKind(u) ==
  /\ IsCall(u, "kind")
  /\ LET kind == IF objs[slot[u].child].meta.dir THEN "dir" ELSE "file"
     IN  Continue(u, lookup(Call(u)[3]) \o unlink(Call(u)[2], kind), <<>>)
  /\ UNCHANGED <<opsVars, listing, script>>

(* Calls that read and write nothing another user could tell: the user's   *)
(* own variables, an unlock, and a further reference to an inode it holds. *)
(* They commute with what the others do, and run at once.                  *)
LocalCalls == {"end", "root", "enter", "save", "kind", "count", "compare", "seek", "own",
               "replace", "same", "lockDirs", "override", "absent", "refer", "unlock",
               "unlockInodes"}

Local(u) == Busy(u) /\ Call(u)[1] \in LocalCalls

MayRun(u) == \A v \in Users : Local(v) => u = CHOOSE w \in Users : Local(w)

Step(u) ==
  /\ MayRun(u)
  /\ \/ Begin(u) \/ Walk(u) \/ CompareListings(u) \/ RemoveKind(u)
     \/ OpsStep(u) /\ UNCHANGED script

Init ==
  /\ tree = FirstTree
  /\ \E s \in Scripts :
       /\ script = s.calls
       /\ objs = [i \in 1..s.known |-> Object(i, FirstTree[MetaKey(i)])]
  /\ ino2inode = [i \in {k.ino : k \in DOMAIN FirstTree} \cup NewInos |->
                    IF i \in DOMAIN objs THEN i ELSE 0]
  /\ fhs = <<>>
  /\ nextFh = 1
  /\ inodeLock = None
  /\ todo = [u \in Users |-> <<>>]
  /\ defers = [u \in Users |-> <<>>]
  /\ slot = [u \in Users |-> NoSlots]
  /\ trying = [u \in Users |-> None]
  /\ status = [u \in Users |-> "OK"]
  /\ nlookup = [i \in DOMAIN ino2inode |-> IF i \in DOMAIN objs \ {1} THEN 1 ELSE 0]
  /\ panicked = FALSE
  /\ listing = [u \in Users |-> [seen |-> <<>>, due |-> {}, open |-> FALSE]]

Next == \E u \in Users : Step(u)

Spec == Init /\ [][Next]_vars

(* A goroutine that can run is run, and a mutex that is free is given to   *)
(* somebody who waits for it.                                              *)
Fairness == \A u \in Users : WF_vars(Step(u))

FairSpec == Spec /\ Fairness

-----------------------------------------------------------------------------
(* A directory's entry for a child and the child's record of the name come *)
(* and go together (AddChild and RemoveChild, whatever runs beside them,   *)
(* and deleteInode, which takes away all keys of an inode).                *)
NamesPaired ==
  /\ \A k \in DOMAIN tree : k.st = BST_DIR_NAME2INODE =>
       NewBlockKeyReverseDirFilename(tree[k], k.ino, k.data[1]) \in DOMAIN tree
  /\ \A k \in DOMAIN tree : k.st = BST_FILE_INODEFILENAME =>
       /\ NewBlockKeyDirFilename(k.data[1], k.data[2]) \in DOMAIN tree
       /\ tree[NewBlockKeyDirFilename(k.data[1], k.data[2])] = k.ino

(* No name leads to an inode that is gone: directory and child have their  *)
(* metadata, whichever deletion raced the creation of the name.            *)
NoDanglingName ==
  \A k \in DOMAIN tree : k.st = BST_DIR_NAME2INODE =>
    MetaKey(k.ino) \in DOMAIN tree /\ MetaKey(tree[k]) \in DOMAIN tree

(* A file opened while it had a name keeps its metadata until the handle   *)
(* is released, though its last name may be removed before (RemoveChild    *)
(* counts handles under inodeLock, RemoveFile deletes with the last one).  *)
OpenFilesKept ==
  \A fh \in DOMAIN fhs : fhs[fh].linked => MetaKey(objs[fhs[fh].obj].ino) \in DOMAIN tree


(* A directory listing has every name that was there all the time, once.   *)
ListingComplete ==
  \A u \in Users :
    /\ IsInjective(listing[u].seen)
    /\ listing[u].due # {} /\ ~listing[u].open => listing[u].due \subseteq ToSet(listing[u].seen)

(* Between calls, the link count of an inode is the number of its names.   *)
LinkCountExact ==
  (\A u \in Users : Idle(u)) =>
    \A k \in DOMAIN tree : k.st = BST_META /\ k.ino # 1 =>
      tree[k].nlink = Cardinality(SubTypeKeys(tree, k.ino, BST_FILE_INODEFILENAME))

=============================================================================
