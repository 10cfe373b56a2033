---------------------------- MODULE MCWritePath ----------------------------
(***************************************************************************)
(* Instances of WritePath for TLC.                                         *)
(***************************************************************************)
EXTENDS WritePath

CONSTANTS j1, j2, flusher, fsyncer, rooter, setter, reader

Request(ofs, len) == [ofs |-> ofs, left |-> len, busy |-> FALSE]

AllProcs == {j1, j2, flusher, fsyncer, rooter, setter, reader}

WriteScenarios ==
  {[active |-> {1, 2, flusher}, size |-> 0, writes |-> {Request(0, 1), Request(0, 2)}],
   [active |-> {1, 2, flusher}, size |-> 2, writes |-> {Request(0, 1), Request(2, 1)}],
   [active |-> {1, flusher, setter}, size |-> 2, writes |-> {Request(1, 2)}],
   [active |-> {1, flusher, reader}, size |-> 2, writes |-> {Request(1, 2)}],
   [active |-> {1, flusher, fsyncer}, size |-> 2, writes |-> {Request(1, 2)}],
   [active |-> {rooter, setter}, size |-> 2, writes |-> {}]}

(* An fsync next to a write, and no other flush.                           *)
FsyncScenarios ==
  {[active |-> {1, fsyncer}, size |-> 2, writes |-> {Request(0, 1)}]}

(* A small file that is then written behind its first extent.              *)
SparseScenarios ==
  {[active |-> {1, 2}, size |-> 0, writes |-> {Request(0, 1), Request(2, 1)}]}
=============================================================================
