------------------------------ MODULE FileData ------------------------------
(***************************************************************************)
(* How file content lies in the tree (fs/fh.go, fs/inode.go).  A file of   *)
(* at most EmbeddedSize bytes keeps them in its metadata; a larger one     *)
(* keeps DataExtentSize bytes per extent, in a block whose id is the value *)
(* of the extent's key.  Blocks are content addressed, so the model writes *)
(* the content itself (a sequence of bytes) where the code writes the id.  *)
(* Offsets count from 0, sequences from 1.                                 *)
(***************************************************************************)
EXTENDS BlockKey, Integers, Sequences

CONSTANT EmbeddedSize     \* EmbeddedSize: bytes kept in the metadata

ASSUME EmbeddedSizeAssumption == EmbeddedSize \in Nat \ {0}

Least(a, b) == IF a < b THEN a ELSE b

Zeros(n) == [i \in 1..n |-> 0]

(* Bytes offset+1 .. offset+n of b, zeros where b has ended.               *)
Slice(b, offset, n) ==
  [i \in 1..n |-> IF offset + i <= Len(b) THEN b[offset + i] ELSE 0]

(* The bytes one call of readInTransaction copies for len bytes at offset: *)
(* at most the rest of one extent.  The subtraction that makes end         *)
(* relative to the extent is unsigned; below zero it wraps round and is    *)
(* then cut to the size of an extent.                                      *)
readInTransaction(meta, tree, ino, offset, len) ==
  LET fileEnd == Least(offset + len, meta.size)
      base    == (offset \div DataExtentSize) * DataExtentSize
      small   == meta.size <= EmbeddedSize
      k       == NewBlockKeyOffset(ino, offset)
      b       == IF small THEN meta.data
                 ELSE IF k \in DOMAIN tree THEN tree[k] ELSE <<>>
      start   == IF small THEN offset ELSE offset - base
      end     == IF small THEN fileEnd
                 ELSE IF fileEnd < base THEN DataExtentSize
                 ELSE Least(fileEnd - base, DataExtentSize)
  IN  IF end <= start THEN <<>> ELSE Slice(b, start, end - start)

(* Read: extent after extent, until a call returns nothing or stays in the *)
(* same extent.                                                            *)
ReadExtents(meta, tree, ino, offset, len) ==
  LET first == offset \div DataExtentSize
      last  == (offset + len - 1) \div DataExtentSize
      From(e) == IF e = first THEN offset ELSE e * DataExtentSize
      part  == [e \in first..last |->
                  readInTransaction(meta, tree, ino, From(e), offset + len - From(e))]
      read  == {e \in first..last :
                  \A x \in first..(e - 1) : From(x) + Len(part[x]) = (x + 1) * DataExtentSize}
      final == CHOOSE e \in read : \A x \in read : x <= e
      n     == From(final) + Len(part[final]) - offset
      At(i) == Least((offset + i - 1) \div DataExtentSize, final)
  IN  IF len = 0 THEN <<>> ELSE [i \in 1..n |-> part[At(i)][offset + i - From(At(i))]]

(* The extent (or the embedded data) after a write of buf at bofs bytes    *)
(* into the extent that starts at offset: what was before it, buf, and the *)
(* rest of the old content.  meta is the writer's own metadata, current    *)
(* what the inode shows when the rest is read.  The file's end is that of  *)
(* the whole request, which may lie in a later extent.                     *)
ExtentAfterWrite(meta, current, tree, ino, odata, buf, bofs, offset, end) ==
  LET before   == IF odata # <<>>
                  THEN Slice(SubSeq(odata, 1, Least(Len(odata), bofs)), 0, bofs)
                  ELSE Slice(readInTransaction(current, tree, ino, offset, bofs), 0, bofs)
      blockend == Least(offset + DataExtentSize, meta.size)
      after    == IF blockend > end
                  THEN readInTransaction(current, tree, ino, end, blockend - end)
                  ELSE <<>>
  IN  before \o buf \o after

(* SetMetaSizeInTransaction: the new metadata and the extents it removes.  *)
SetMetaSize(meta, size) ==
  IF size = meta.size THEN meta
  ELSE [meta EXCEPT !.size = size,
                    !.data = IF size > EmbeddedSize THEN <<>> ELSE @]

ExtentsBeyond(meta, tree, ino, size) ==
  IF size < meta.size /\ meta.size > DataExtentSize
  THEN {k \in SubTypeKeys(tree, ino, BST_FILE_OFFSET2EXTENT) :
          k.data[1] >= (size + DataExtentSize) \div DataExtentSize}
  ELSE {}
=============================================================================
