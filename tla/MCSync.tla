------------------------------- MODULE MCSync -------------------------------
(***************************************************************************)
(* The synchronization of two servers (Sync) for TLC: the properties of    *)
(* connector/connector.go and server/server.go.  Left and right are        *)
(* interchangeable.                                                        *)
(***************************************************************************)
EXTENDS Sync

Symmetry == Permutations(Servers)

(* A copy that has been named is whole: every block of the other server's  *)
(* tree is on this one, whatever goroutine of copyBlockTo brought it,      *)
(* found it there or left it weak, and whatever flushes dropped meanwhile. *)
(* It holds as long as no synchronization into the server broke off; after *)
(* that a weak block may be there whose missing blocks nobody asks for.    *)
OtherComplete ==
  \A s \in Servers \ ghost.failed :
    \A tree \in names[s].other : Closure(tree) \subseteq DOMAIN blocks[s]

(* The tree a server has flushed is whole.  It fails when a run was broken *)
(* off and the server restarts after the next one: a leaf that is there    *)
(* and weak is neither descended into (copyBlockTo) nor made normal when   *)
(* the merged tree is saved (jobReferOrStoreBlock), so once the handles of *)
(* the process are gone a flush drops the extents below it.                *)
RootComplete ==
  \A s \in Servers : \A tree \in names[s].root : Closure(tree) \subseteq DOMAIN blocks[s]

(* A file that a user created and no user removed is on a server, with its *)
(* name.  README.md says of old roots that "typically merge routine should *)
(* simply ignore this"; MergeBlockNameTo takes its own tree as the next    *)
(* base, so a root older than that base undoes what only this side has.    *)
FilesKept ==
  \A ino \in ghost.created \ ghost.removed :
    \E s \in Servers : {MetaKey(ino), NewBlockKeyDirFilename(1, ino)} \subseteq DOMAIN fs[s]

(* No file is lost by the merges of both directions if users change files  *)
(* only between runs, not one file on both servers with a removal among    *)
(* the changes, and no synchronization broke off.                          *)
QuietFilesKept == ~ghost.disturbed => FilesKept

(* Under the same condition, at the end of every run, both servers have    *)
(* the same tree and nothing is in it of a file a user removed: what the   *)
(* two concurrent merges of MergeBlockNameTo decide agrees, also for a     *)
(* file written on both sides, and a removal is carried over, not undone.  *)
QuietConverges ==
  (~ghost.disturbed /\ \A t \in Servers : at[t] = "done") =>
     /\ \A s, t \in Servers : fs[s] = fs[t]
     /\ \A s \in Servers, ino \in ghost.removed :
          {MetaKey(ino), NewBlockKeyDirFilename(1, ino)} \cap DOMAIN fs[s] = {}
=============================================================================
