------------------------------ MODULE BlockKey ------------------------------
(***************************************************************************)
(* Keys of the file system tree (fs/blockkey.go, fs/fs_greenpack.go).  The *)
(* code packs a key into a byte string: eight bytes of inode number, one   *)
(* byte of subtype, and data that depends on the subtype.  The model keeps *)
(* the three parts as a record; the order of the byte strings is the       *)
(* lexicographic order of the parts.  A tree is a function from the keys   *)
(* it holds to their values.                                               *)
(***************************************************************************)
EXTENDS Naturals

CONSTANT DataExtentSize   \* dataExtentSize: bytes of file data per extent

ASSUME DataExtentSizeAssumption == DataExtentSize \in Nat \ {0}

(* Subtypes, numbered as in the code: metadata sorts first of an inode.    *)
BST_META == 1
BST_XATTR == 2
BST_DIR_NAME2INODE == 16
BST_FILE_INODEFILENAME == 32
BST_FILE_OFFSET2EXTENT == 33
BST_LAST == 47
BST_NAMEHASH_NAME_BLOCK == 48

NewBlockKey(ino, st, data) == [ino |-> ino, st |-> st, data |-> data]

MetaKey(ino) == NewBlockKey(ino, BST_META, <<>>)

NewBlockKeyDirFilename(ino, name) ==
  NewBlockKey(ino, BST_DIR_NAME2INODE, <<name>>)

NewBlockKeyReverseDirFilename(ino, dirIno, name) ==
  NewBlockKey(ino, BST_FILE_INODEFILENAME, <<dirIno, name>>)

NewBlockKeyOffset(ino, offset) ==
  NewBlockKey(ino, BST_FILE_OFFSET2EXTENT, <<offset \div DataExtentSize>>)

NewBlockKeyNameBlock(name, id) ==
  NewBlockKey(0, BST_NAMEHASH_NAME_BLOCK, <<name, id>>)

(* The keys of an inode from (ino, BST_NONE) to (ino, BST_LAST): what      *)
(* DeleteRange removes when an inode goes away.                            *)
InodeKeys(tree, ino) == {k \in DOMAIN tree : k.ino = ino /\ k.st < BST_LAST}

SubTypeKeys(tree, ino, bst) == {k \in DOMAIN tree : k.ino = ino /\ k.st = bst}

(* Transaction.Set, Delete and DeleteRange on the content of the tree.     *)
TreeSet(tree, k, v) ==
  [x \in DOMAIN tree \cup {k} |-> IF x = k THEN v ELSE tree[x]]

TreeDelete(tree, ks) == [x \in DOMAIN tree \ ks |-> tree[x]]
=============================================================================
