-------------------------------- MODULE MCFs --------------------------------
(* Fs on small instances: the calls that programs make. *)
EXTENDS Fs, TLC

Symmetry == Permutations(Procs)

NoCall == [op |-> "open", type |-> "file", path |-> <<"a">>, new |-> <<>>, rel |-> FALSE]
Absolute(op, type, path) == [NoCall EXCEPT !.op = op, !.type = type, !.path = path]

\* A file or a directory "a", and "b" in it or beside it.
TreeCalls ==
  {Absolute("create", "dir", <<"a">>), Absolute("create", "file", <<"a", "b">>),
   Absolute("open", "file", <<"a">>), Absolute("chdir", "file", <<"a">>),
   Absolute("unlink", "file", <<"a">>), Absolute("unlink", "file", <<"b">>),
   Absolute("unlink", "file", <<"a", "b">>),
   [Absolute("link", "file", <<"a">>) EXCEPT !.new = <<"b">>],
   [Absolute("create", "file", <<"b">>) EXCEPT !.rel = TRUE],
   [Absolute("unlink", "file", <<"..">>) EXCEPT !.rel = TRUE],
   [Absolute("chdir", "file", <<"..">>) EXCEPT !.rel = TRUE]}

\* Two blocks, and the indirect one.
Full == [FreeInode EXCEPT !.type = "file", !.size = 2, !.addrs = <<1, 2>>]
OneBlock == [FreeInode EXCEPT !.type = "file", !.size = 1, !.addrs = <<1, 0>>]

\* A directory "a" with a file "b" of one block, where block 2 has been an
\* indirect block; a file "a" that is "b" as well and fills the disk.
DirTree ==
  [NewFs EXCEPT !.dinode[1].nlink = 2,
                !.dinode[2] = [FreeInode EXCEPT !.type = "dir", !.nlink = 1],
                !.dinode[3] = [OneBlock EXCEPT !.nlink = 1],
                !.dir[1]["a"] = 2, !.dir[2][".."] = 1, !.dir[2]["b"] = 3,
                !.used = {1}, !.indirect[2][1] = 1]
LinkTree ==
  [NewFs EXCEPT !.dinode[2] = [Full EXCEPT !.nlink = 2],
                !.dir[1]["a"] = 2, !.dir[1]["b"] = 2,
                !.used = {1, 2, 3}, !.indirect[2][1] = 3]

\* Directories all the way down to "a/b", where the processes are.
NestedTree ==
  [NewFs EXCEPT !.dinode[1].nlink = 2,
                !.dinode[2] = [FreeInode EXCEPT !.type = "dir", !.nlink = 2],
                !.dinode[3] = [FreeInode EXCEPT !.type = "dir", !.nlink = 1],
                !.dir[1]["a"] = 2, !.dir[2][".."] = 1, !.dir[2]["b"] = 3, !.dir[3][".."] = 2]
SomeTrees ==
  {[fs |-> t, cwd |-> Root] : t \in {NewFs, DirTree, LinkTree}} \cup {[fs |-> NestedTree, cwd |-> 3]}
=============================================================================
