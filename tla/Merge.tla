------------------------------- MODULE Merge -------------------------------
(***************************************************************************)
(* MergeTo3 of fs/merge.go: the changes from tree src to tree dst applied  *)
(* to a third tree, current.  In local mode, which the retry of a failed   *)
(* commit uses, every changed key is judged by itself.  Otherwise, which   *)
(* is how a tree received from another server is merged, the metadata of   *)
(* an inode decides for all its keys.  A value of a metadata key is a      *)
(* record with at least the fields ctime and dir.                          *)
(***************************************************************************)
EXTENDS BlockKey

Delta(src, dst) ==
  {k \in DOMAIN src \cup DOMAIN dst :
     \/ k \notin DOMAIN src
     \/ k \notin DOMAIN dst
     \/ src[k] # dst[k]}

(* The verdict on a changed metadata key: MV_NEW prefers the change,       *)
(* MV_EXISTING the current tree, MV_NONE drops the inode.                  *)
MetaVerdictMut(current, src, dst, k) ==
  IF k \in DOMAIN dst THEN "MV_NEW" ELSE "MV_NONE"

MetaVerdict(current, src, dst, k) ==
  IF k \notin DOMAIN dst
  THEN IF k \notin DOMAIN current \/ src[k].ctime >= current[k].ctime
       THEN "MV_NONE" ELSE "MV_EXISTING"
  ELSE IF k \notin DOMAIN current \/ dst[k].ctime > current[k].ctime
       THEN "MV_NEW" ELSE "MV_EXISTING"

Verdict(current, src, dst, local, k) ==
  IF local /\ k.st # BST_META
  THEN "MV_NEW"
  ELSE MetaVerdict(current, src, dst, MetaKey(k.ino))

(* The directories a non-local merge treats key by key: the root, and the  *)
(* ones both sides still know.                                             *)
MergeIsDir(current, src, dst, ino) ==
  LET k == MetaKey(ino)
  IN  \/ ino = 1
      \/ /\ k \in DOMAIN current
         /\ IF k \in DOMAIN dst THEN dst[k].dir ELSE src[k].dir

(* Whether the change of key k is carried over to the current tree.        *)
Applies(current, src, dst, local, k) ==
  LET v == Verdict(current, src, dst, local, k)
      unchanged == k \in DOMAIN current /\ k \in DOMAIN src /\ current[k] = src[k]
  IN  /\ v # "MV_NONE"
      /\ local \/ v = "MV_NEW" \/ MergeIsDir(current, src, dst, k.ino)
      /\ v = "MV_NEW" \/ unchanged \/ (k \notin DOMAIN src /\ k \notin DOMAIN current)

MergeTo3(current, src, dst, local) ==
  LET delta   == Delta(src, dst)
      judged  == IF local THEN delta
                 ELSE {k \in delta : MetaKey(k.ino) \in delta}
      changes == {k \in judged : Applies(current, src, dst, local, k)}
      dropped == IF local THEN {}
                 ELSE UNION {InodeKeys(current, k.ino) :
                        k \in {m \in judged : m.st = BST_META /\
                               MetaVerdict(current, src, dst, m) = "MV_NONE"}}
      keep    == ((DOMAIN current \ changes) \cup (changes \cap DOMAIN dst)) \ dropped
  IN  [k \in keep |-> IF k \in changes THEN dst[k] ELSE current[k]]
=============================================================================
