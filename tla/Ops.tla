-------------------------------- MODULE Ops ---------------------------------
(***************************************************************************)
(* The file system's operations (fs/ops.go) and directory reading          *)
(* (fs/fh.go) as programs of module Inodes.  useKernelPermissions is true, *)
(* so access and stickyMutateCheck come down to whether the inode exists,  *)
(* which getInode decides.  A program ends with <<"end", 0>>.              *)
(***************************************************************************)
EXTENDS Inodes, TLC

VARIABLE listing   \* per user: a directory listing, and what it must contain

opsVars == <<tree, objs, ino2inode, fhs, nextFh, inodeLock, slot, trying, nlookup, panicked>>

NewMeta(dir, size, data) ==
  [dir |-> dir, nlink |-> 0, parent |-> 0, size |-> size, data |-> data, attr |-> 0]

Lookup(name) ==
  <<<<"get", "dir", "node">>, <<"child", "child", "dir", name, TRUE>>, <<"refer", "child">>,
    <<"end", 0>>>>

GetAttr == <<<<"get", "child", "node">>, <<"end", 0>>>>

(* kind: "setSize" or "setAttr".                                           *)
SetAttr(kind, v) ==
  <<<<"get", "child", "node">>, <<"lock", "child">>, <<"update", kind, "child", v>>,
    <<"end", 0>>>>

OpenDir == <<<<"get", "child", "node">>, <<"addFile", "child">>, <<"end", 0>>>>

(* Open of the node a slot names, returning with n deferred calls left.    *)
Open(from, flags, n) ==
  <<<<"get", "child", from>>, <<"lock", "child">>, <<"update", "open", "child", flags>>,
    <<"addFile", "child">>, <<"end", n>>>>

ReleaseFh == <<<<"removeFile">>, <<"end", 0>>>>

Readlink == <<<<"get", "child", "node">>, <<"islink", "child">>, <<"end", 0>>>>

(* create leaves its caller with the reference of the new inode.           *)
create(name, meta, allowReplace) ==
  <<<<"get", "dir", "node">>, <<"lock", "dir">>, <<"child", "child", "dir", name, FALSE>>,
    <<"replace", name, allowReplace>>, <<"make">>, <<"lock", "made">>,
    <<"update", "setMeta", "made", meta>>, <<"update", "addChild", "dir", "made", name>>,
    <<"end", 0>>, <<"own", "made">>>>

Mkdir(name) ==
  create(name, NewMeta(TRUE, 0, <<>>), FALSE) \o <<<<"refer", "made">>, <<"end", 0>>>>

Symlink(name, target) ==
  create(name, NewMeta(FALSE, Len(target), target), FALSE)
    \o <<<<"refer", "made">>, <<"end", 0>>>>

Mknod(name) ==
  create(name, NewMeta(FALSE, 0, <<>>), FALSE) \o <<<<"refer", "made">>, <<"end", 0>>>>

Create(name, flags) ==
  create(name, NewMeta(FALSE, 0, <<>>), "excl" \notin flags)
    \o Open("made", flags, 1) \o <<<<"refer", "made">>, <<"end", 0>>>>

(* unlinkInInode; kind: "dir" for Rmdir, "file" for Unlink.                *)
unlinkInInode(s, name, kind) ==
  <<<<"child", s, "dir", name, TRUE>>, <<"lock", s>>, <<"unlink", "dir", s, name, kind>>>>

unlink(name, kind) ==
  <<<<"get", "dir", "node">>, <<"lock", "dir">>>> \o unlinkInInode("child", name, kind)
    \o <<<<"end", 0>>>>

Rename(old, new) ==
  <<<<"same", old, new>>, <<"get", "dir", "node">>, <<"child", "child", "dir", old, TRUE>>,
    <<"get", "dir2", "node2">>, <<"lockDirs">>, <<"lock", "child">>,
    <<"child", "victim", "dir2", new, FALSE>>, <<"override", new>>,
    <<"unlink", "dir", "child", old, "any">>, <<"end", 0>>>>

Link(name) ==
  <<<<"get", "dir", "node">>, <<"lock", "dir">>, <<"get", "child", "node2">>,
    <<"lock", "child">>, <<"child", "victim", "dir", name, FALSE>>, <<"absent">>,
    <<"update", "addChild", "dir", "child", name>>, <<"refer", "child">>, <<"end", 0>>>>

(* kind: "setXAttr" or "removeXAttr"; the readers take the same lock.      *)
ChangeXAttr(kind, attr) ==
  <<<<"get", "child", "node">>, <<"xlock", "child">>, <<"update", kind, "child", attr>>,
    <<"end", 0>>>>

ReadXAttr == <<<<"get", "child", "node">>, <<"xlock", "child">>, <<"end", 0>>>>

(* Fs.ListDir: it keeps every inode it meets until it returns.             *)
ListDirBackdoor ==
  <<<<"get", "child", "node">>, <<"addFile", "child">>, <<"list">>, <<"read", "hold", 0>>,
    <<"removeFile">>, <<"end", 0>>>>

(* ReadDir from the start: repeated calls, until one returns no entry.     *)
ReadDir(mode) ==
  <<<<"seek">>, <<"list">>, <<"read", mode, 0>>, <<"end", 0>>>>

-----------------------------------------------------------------------------
(* The conditional steps of the programs.                                  *)

(* create: what to do with an existing child.                              *)
Replace(u) ==
  /\ IsCall(u, "replace")
  /\ IF slot[u].child = 0 THEN Continue(u, <<>>, <<>>)
     ELSE IF ~Call(u)[3] THEN Return(u, "EEXIST")
     ELSE Continue(u, Append(unlinkInInode("victim", Call(u)[2], "file"),
                             <<"end", Len(defers[u])>>), <<>>)
  /\ UNCHANGED <<opsVars, listing>>

(* The new inode's reference, which create's caller releases.              *)
Own(u) ==
  /\ IsCall(u, "own")
  /\ Continue(u, <<>>, <<Release(slot[u].made)>>)
  /\ UNCHANGED <<opsVars, listing>>

(* unlinkInodeInInode: a directory must be empty when isdir says so.       *)
UnlinkInode(u) ==
  LET c == Call(u)
      ino == objs[slot[u][c[3]]].ino
  IN  /\ IsCall(u, "unlink")
      /\ IF c[5] = "dir" /\ SubTypeKeys(tree, ino, BST_DIR_NAME2INODE) # {}
         THEN Return(u, "ENOTEMPTY")
         ELSE Continue(u, <<<<"update", "removeChild", c[2], c[3], c[4]>>>>, <<>>)
      /\ UNCHANGED <<opsVars, listing>>

(* Rename onto itself; the directories' locks in the order of their        *)
(* numbers; an existing target.                                            *)
RenameSame(u) ==
  /\ IsCall(u, "same")
  /\ IF slot[u].node = slot[u].node2 /\ Call(u)[2] = Call(u)[3] THEN Return(u, "OK")
     ELSE Continue(u, <<>>, <<>>)
  /\ UNCHANGED <<opsVars, listing>>


RenameLocks(u) ==
  LET n == slot[u].node
      m == slot[u].node2
  IN  /\ IsCall(u, "lockDirs")
      /\ Continue(u, IF n < m THEN <<<<"lock", "dir">>, <<"lock", "dir2">>>>
                     ELSE IF n > m THEN <<<<"lock", "dir2">>, <<"lock", "dir">>>>
                     ELSE <<<<"lock", "dir">>>>, <<>>)
      /\ UNCHANGED <<opsVars, listing>>

LinkOverride(u) ==
  LET o == slot[u].victim
      name == Call(u)[2]
      add == <<"update", "addChild", "dir2", "child", name>>
      kind == IF objs[o].meta.dir THEN "dir" ELSE "file"
  IN  /\ IsCall(u, "override")
      /\ Continue(u, IF o = 0 THEN <<add>>
                     ELSE <<<<"lock", "victim">>, <<"unlink", "dir2", "victim", name, kind>>,
                            add, <<"end", Len(defers[u]) - 1>>>>, <<>>)
      /\ UNCHANGED <<opsVars, listing>>

(* Link: the new name must be free.                                        *)
LinkAbsent(u) ==
  /\ IsCall(u, "absent")
  /\ IF slot[u].victim # 0 THEN Return(u, "EEXIST") ELSE Continue(u, <<>>, <<>>)
  /\ UNCHANGED <<opsVars, listing>>

(* Readlink: only a link has content in its metadata and a name in it; the *)
(* model's links are the files with embedded data.                         *)
ReadlinkCheck(u) ==
  /\ IsCall(u, "islink")
  /\ IF objs[slot[u].child].meta.data = <<>> THEN Return(u, "EINVAL")
     ELSE Continue(u, <<>>, <<>>)
  /\ UNCHANGED <<opsVars, listing>>

-----------------------------------------------------------------------------
SetPosMut(u) ==
  /\ IsCall(u, "seek")
  /\ fhs' = [fhs EXCEPT ![slot[u].fh].pos = 0]
  /\ Continue(u, <<>>, <<>>)
  /\ UNCHANGED <<tree, objs, ino2inode, nextFh, inodeLock, slot, trying, nlookup, panicked,
                 listing>>

(* Directory reading.                                                      *)
SetPos(u) ==
  /\ IsCall(u, "seek")
  /\ LET fh == slot[u].fh
     IN  fhs' = IF fhs[fh].pos = 0 THEN fhs
                ELSE [fhs EXCEPT ![fh].pos = 0, ![fh].last = Dot]
  /\ Continue(u, <<>>, <<>>)
  /\ UNCHANGED <<tree, objs, ino2inode, nextFh, inodeLock, slot, trying, nlookup, panicked,
                 listing>>

NamesIn(t, ino) == {k.data[1] : k \in SubTypeKeys(t, ino, BST_DIR_NAME2INODE)}

(* A listing starts: nothing seen, and everything in the directory due.    *)
StartListing(u) ==
  /\ IsCall(u, "list")
  /\ listing' = [listing EXCEPT ![u] =
                   [seen |-> <<>>, due |-> NamesIn(tree, objs[fhs[slot[u].fh].obj].ino),
                    open |-> TRUE]]
  /\ Continue(u, <<>>, <<>>)
  /\ UNCHANGED opsVars

(* ReadNextinode: the entry after the last one, or the first; its inode is *)
(* referred to while the entry is written.  The client calls ReadDir again *)
(* as long as a call returned entries.                                     *)
NextName(names, last) ==
  IF \E n \in names : n > last
  THEN CHOOSE n \in names : n > last /\ \A m \in names : m > last => n <= m
  ELSE Dot

ReadNextinode(u) ==
  LET fh   == slot[u].fh
      mode == Call(u)[2]
      dir  == objs[fhs[fh].obj].ino
      name == NextName(NamesIn(tree, dir), fhs[fh].last)
      r    == getInode(tree[NewBlockKeyDirFilename(dir, name)])
      again == mode # "hold" /\ fhs[fh].pos > Call(u)[3]
      given == IF mode = "plus" THEN 1 ELSE 0
  IN  /\ IsCall(u, "read")
      /\ inodeLock = None
      /\ IF name # Dot /\ r.o # 0
         THEN /\ objs' = [r.objs EXCEPT ![r.o].refcnt = @ + given]
              /\ ino2inode' = r.map
              /\ nlookup' = [nlookup EXCEPT ![objs'[r.o].ino] = @ + given]
              /\ fhs' = [fhs EXCEPT ![fh].last = name, ![fh].pos = @ + 1]
              /\ listing' = [listing EXCEPT ![u].seen = Append(@, name)]
              /\ IF mode = "hold" THEN Continue(u, <<Call(u)>>, <<Release(r.o)>>)
                 ELSE Continue(u, <<Release(r.o), Call(u)>>, <<>>)
         ELSE /\ listing' = [listing EXCEPT ![u].open = again]
              /\ Continue(u, IF again THEN <<<<"read", mode, fhs[fh].pos>>>> ELSE <<>>, <<>>)
              /\ UNCHANGED <<objs, ino2inode, nlookup, fhs>>
      /\ UNCHANGED <<tree, nextFh, inodeLock, slot, trying, panicked>>

(* While a listing is open, a name that goes away is no longer due.        *)
Due(u) ==
  IF listing[u].open
  THEN [listing[u] EXCEPT !.due = @ \cap NamesIn(tree', objs[fhs[slot[u].fh].obj].ino)]
  ELSE listing[u]

OpsStep(u) ==
  \/ InodeStep(u) /\ listing' = [v \in Users |-> Due(v)]
  \/ Replace(u) \/ Own(u) \/ UnlinkInode(u) \/ RenameSame(u) \/ RenameLocks(u)
  \/ LinkOverride(u) \/ LinkAbsent(u) \/ ReadlinkCheck(u)
  \/ SetPos(u) \/ StartListing(u) \/ ReadNextinode(u)
=============================================================================
