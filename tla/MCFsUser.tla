------------------------------ MODULE MCFsUser ------------------------------
(***************************************************************************)
(* Instances of FsUser: two users, and a tree with a file /f of two        *)
(* extents and two empty directories, /d and /e.                           *)
(***************************************************************************)
EXTENDS FsUser

D == 1
E == 2
F == 3
G == 4
H == 5

File(n) == [NewMeta(FALSE, 3, <<>>) EXCEPT !.nlink = n]
Dir == [NewMeta(TRUE, 0, <<>>) EXCEPT !.nlink = 1, !.parent = 1]

Names(dir, name, ino) ==
  (NewBlockKeyDirFilename(dir, name) :> ino) @@ (NewBlockKeyReverseDirFilename(ino, dir, name) :> 0)

MCTree ==
  (MetaKey(1) :> [Dir EXCEPT !.parent = 0]) @@ (MetaKey(2) :> Dir) @@ (MetaKey(3) :> Dir)
    @@ (MetaKey(4) :> File(1)) @@ Names(1, D, 2) @@ Names(1, E, 3) @@ Names(1, F, 4)
    @@ (NewBlockKeyOffset(4, 0) :> 1) @@ (NewBlockKeyOffset(4, 2) :> 2)

P(c, path) == [call |-> c, path |-> path]
P2(c, path, new) == [call |-> c, path |-> path, new |-> new]
O(path, flags) == [call |-> "OpenFile", path |-> path, flags |-> flags]

Together(a, b, known) ==
  LET first == CHOOSE u \in Users : TRUE
  IN  [calls |-> [u \in Users |-> IF u = first THEN a ELSE b], known |-> known]

Pairs(a, bs) == {Together(a, b, 4) : b \in bs}

list == <<P("ListDir", <<>>)>>
rmF == <<P("Remove", <<F>>)>>
rmD == <<P("Remove", <<D>>)>>
mkdir == <<P("Mkdir", <<D, G>>)>>
truncate == <<[call |-> "Truncate", path |-> <<F>>, size |-> 1]>>
link == <<P2("Link", <<F>>, <<D, G>>)>>
moveF == <<P2("Rename", <<F>>, <<E, G>>)>>
moveE == <<P2("Rename", <<E>>, <<D>>)>>
symlink == <<P("Symlink", <<E, G>>)>>
edit == <<O(<<F>>, {"write", "trunc"}), P("Close", <<>>)>>
replace == <<O(<<F>>, {"create", "write"})>>

(* Calls that meet in the file, in a directory, in its parent or in a      *)
(* name.  Rename finds its source before it locks the directory: a kernel  *)
(* holds a lock of its own on the directory meanwhile, so no pair renames  *)
(* or replaces the source of another one's Rename.                         *)
MCScripts ==
  Pairs(rmF, {rmF, link, moveF, truncate, edit, replace, list})
    \cup Pairs(link, {moveF, edit, rmD}) \cup Pairs(moveF, {symlink, moveE, truncate, edit})
    \cup Pairs(moveE, {mkdir, rmD, symlink}) \cup Pairs(mkdir, {rmD, symlink, list})
    \cup Pairs(replace, {replace, edit})
    \cup Pairs(moveF, {<<P("Symlink", <<E, H>>), P2("Rename", <<E, H>>, <<H>>)>>})
    \cup Pairs(rmF, {<<P("SetXAttr", <<F>>), P("RemoveXAttr", <<F>>)>>})
    \cup Pairs(<<P("Chmod", <<F>>)>>, {<<P("Symlink", <<G>>), P("Readlink", <<G>>)>>})
    \cup {Together(<<P("GetXAttr", <<F>>)>>, <<P("Mknod", <<F>>), P("ListXAttr", <<F>>)>>, 1),
          Together(list, <<P("Stat", <<F>>), P("Readlink", <<F>>)>>, 1)}

(* One user adds a name while the other changes the mode of something else.*)
MCLinkScripts == {Together(link, <<P("Chmod", <<E>>)>>, 4)}
=============================================================================
