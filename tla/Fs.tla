--------------------------------- MODULE Fs ---------------------------------
(***************************************************************************)
(* Inodes, directories and pathnames: fs.c, and the system calls of        *)
(* sysfile.c that change the tree, between begin_op() and end_op().        *)
(*                                                                         *)
(* One action is what a process does from one acquisition of a sleep lock  *)
(* to the next, or one critical section of icache.lock.  fs is the file    *)
(* system as the buffer cache holds it; what is committed is stable, and   *)
(* the log makes it fs when the last outstanding operation ends.  A crash, *)
(* at any step, leaves stable.  Directory contents are functions from      *)
(* names to inode numbers, file contents are the blocks that hold them.    *)
(***************************************************************************)
EXTENDS Integers, Sequences, FiniteSets, FiniteSetsExt

CONSTANTS
  Procs,
  NINODE,
  ninodes,            \* inodes on the disk; number 1 is the root
  Names,
  NDIRECT, NINDIRECT,
  nblocks,            \* data blocks on the disk
  Calls, MaxCalls,    \* the system calls that programs make, and how many
  Trees,              \* what is on the disk at the start, and where the processes are
  Crashes,            \* the machine may crash
  None

ASSUME FsAssumption ==
  /\ NINODE \in Nat \ {0} /\ ninodes \in Nat \ {0} /\ nblocks \in Nat
  /\ NDIRECT \in Nat /\ NINDIRECT \in Nat
  /\ Crashes \in BOOLEAN /\ ".." \notin Names

Root == 1
Inums == 1 .. ninodes
Blocks == 1 .. nblocks
Slots == 1 .. NINODE
MAXFILE == NDIRECT + NINDIRECT
Free == "free"
NoSlot == 0

VARIABLES
  fs,       \* dinode, directory contents, block bitmap, indirect blocks
  stable,   \* the same, as the last commit left it
  inode,    \* icache: inum, ref, valid and the copy of the disk inode
  lock,     \* who holds each entry's sleep lock
  cwd, fd,  \* per process: current directory, and an open file
  prog,     \* per process: what is left of its system call
  r,        \* per process: the variables of its system call; up is history
  ncalls,   \* system calls so far
  lost      \* history: inodes that got a name in a removed directory

vars == <<fs, stable, inode, lock, cwd, fd, prog, r, ncalls, lost>>

NoAddrs == [i \in 1 .. NDIRECT + 1 |-> 0]
FreeInode == [type |-> Free, nlink |-> 0, size |-> 0, addrs |-> NoAddrs]
EmptyDir == [e \in Names \cup {".."} |-> 0]
EmptySlot == [inum |-> 0, ref |-> 0, valid |-> FALSE, d |-> FreeInode]
NoReg == [op |-> "none", type |-> Free, path |-> <<>>, new |-> <<>>, rel |-> FALSE,
          ip |-> NoSlot, dp |-> NoSlot, old |-> NoSlot, up |-> FALSE]

\* What mkfs leaves: an empty root directory, whose ".." is itself.
NewFs ==
  [dinode |-> [n \in Inums |-> IF n = Root THEN [FreeInode EXCEPT !.type = "dir", !.nlink = 1]
                               ELSE FreeInode],
   dir |-> [n \in Inums |-> IF n = Root THEN [EmptyDir EXCEPT ![".."] = Root] ELSE EmptyDir],
   used |-> {},
   indirect |-> [b \in Blocks |-> [i \in 1 .. NINDIRECT |-> 0]]]

\* The cache when every process is in directory n and has nothing else.
AllIn(n) ==
  [s \in Slots |-> IF s = 1 THEN [EmptySlot EXCEPT !.inum = n, !.ref = Cardinality(Procs)] ELSE EmptySlot]

\* Every process starts in the root directory.
Boot ==
  /\ inode' = AllIn(Root)
  /\ lock' = [s \in Slots |-> None]
  /\ cwd' = [p \in Procs |-> 1] /\ fd' = [p \in Procs |-> NoSlot]
  /\ prog' = [p \in Procs |-> <<>>] /\ r' = [p \in Procs |-> NoReg]

\* No system call is under way; the processes may have changed directory.
Init ==
  /\ \E t \in Trees : fs = t.fs /\ inode = AllIn(t.cwd)
  /\ stable = fs /\ ncalls = 0
  /\ lock = [s \in Slots |-> None]
  /\ cwd = [p \in Procs |-> 1] /\ fd = [p \in Procs |-> NoSlot]
  /\ prog = [p \in Procs |-> <<>>] /\ r = [p \in Procs |-> NoReg]
  /\ lost = {}

-----------------------------------------------------------------------------
(* The inode cache *)

\* iget() on a cache tab: the entry that has inode n, or the first free one.
Cached(tab, n) == {s \in Slots : tab[s].ref > 0 /\ tab[s].inum = n}
Empty(tab) == {s \in Slots : tab[s].ref = 0}
SlotFor(tab, n) == IF Cached(tab, n) # {} THEN Min(Cached(tab, n)) ELSE Min(Empty(tab))
CanGet(tab, n) == Cached(tab, n) \cup Empty(tab) # {}
iget(tab, n) ==
  IF Cached(tab, n) # {} THEN [tab EXCEPT ![SlotFor(tab, n)].ref = @ + 1]
  ELSE [tab EXCEPT ![SlotFor(tab, n)] = [EmptySlot EXCEPT !.inum = n, !.ref = 1]]

\* Mutant: a relative path starts without a reference of its own.
idupNot(tab, s) == tab

idup(tab, s) == [tab EXCEPT ![s].ref = @ + 1]

\* ilock(): the sleep lock is free, and the copy is read if it is not valid.
Unlocked(s) == lock[s] = None
Loaded(s) ==
  IF inode[s].valid THEN inode[s]
  ELSE [inode[s] EXCEPT !.valid = TRUE, !.d = fs.dinode[inode[s].inum]]
Load(s) == [inode EXCEPT ![s] = Loaded(s)]
NoType(s) == Loaded(s).d.type = Free

\* A change to the copy of a locked inode, and iupdate().
SetCopy(tab, s, d) == [tab EXCEPT ![s].valid = TRUE, ![s].d = d]
iupdate(f, s, d) == [f EXCEPT !.dinode[inode[s].inum] = d]

-----------------------------------------------------------------------------
(* The rest of a system call is a sequence of steps, some with a cache entry. *)

Step(name) == <<name, NoSlot>>
Put(s) == <<"put", s>>
AtOneOf(p, names) == prog[p] # <<>> /\ Head(prog[p])[1] \in names
At(p, name) == AtOneOf(p, {name})
Arg(p) == Head(prog[p])[2]
Then(p, steps) == prog' = [prog EXCEPT ![p] = steps \o Tail(@)]
Instead(p, steps) == prog' = [prog EXCEPT ![p] = steps]

\* Where namex() starts.
Start(tab, p, rel) == IF rel THEN cwd[p] ELSE SlotFor(tab, Root)
StartTab(tab, p, rel) == IF rel THEN idup(tab, cwd[p]) ELSE iget(tab, Root)

Program(op) ==
  CASE op = "open" -> <<Step("namei"), Step("open"), Step("end")>>
    [] op = "create" -> <<Step("nameiparent"), Step("create"), Step("end")>>
    [] op = "unlink" -> <<Step("nameiparent"), Step("unlink"), Step("end")>>
    [] op = "link" -> <<Step("namei"), Step("link"), Step("nameiparent"), Step("dirlink"), Step("end")>>
    [] op = "chdir" -> <<Step("namei"), Step("chdir"), Step("end")>>

\* begin_op(), and namex() up to its loop.  A process here has one open file.
Call(p, c) ==
  /\ prog[p] = <<>> /\ ncalls < MaxCalls
  /\ c.rel \/ CanGet(inode, Root)
  /\ c.op = "open" \/ (c.op = "create" /\ c.type = "file") => fd[p] = NoSlot
  /\ r' = [r EXCEPT ![p] = [NoReg EXCEPT !.op = c.op, !.type = c.type, !.path = c.path,
                              !.new = c.new, !.rel = c.rel, !.ip = Start(inode, p, c.rel)]]
  /\ inode' = StartTab(inode, p, c.rel)
  /\ prog' = [prog EXCEPT ![p] = Program(c.op)]
  /\ ncalls' = ncalls + 1
  /\ UNCHANGED <<fs, stable, lock, cwd, fd, lost>>

\* close(), and the iput() of fileclose().
Close(p) ==
  /\ prog[p] = <<>> /\ ncalls < MaxCalls /\ fd[p] # NoSlot
  /\ prog' = [prog EXCEPT ![p] = <<Put(fd[p]), Step("end")>>]
  /\ fd' = [fd EXCEPT ![p] = NoSlot]
  /\ ncalls' = ncalls + 1
  /\ UNCHANGED <<fs, stable, inode, lock, cwd, r, lost>>

\* end_op() commits when no operation is outstanding.
Commits(p) == \A q \in Procs \ {p} : prog[q] = <<>>

EndOp(p) ==
  /\ At(p, "end")
  /\ stable' = IF Commits(p) THEN fs ELSE stable
  /\ prog' = [prog EXCEPT ![p] = <<>>]
  /\ r' = [r EXCEPT ![p] = NoReg]
  /\ UNCHANGED <<fs, inode, lock, cwd, fd, lost, ncalls>>

-----------------------------------------------------------------------------
(* iput() *)

\* Mutant: the other references are not looked at.
LastRefAny(s) == TRUE

LastRef(s) == inode[s].ref = 1

\* Under the sleep lock: the test.  Whoever frees keeps the lock.
iput(p) ==
  LET s == Arg(p)
  IN /\ At(p, "put") /\ Unlocked(s)
     /\ IF inode[s].valid /\ inode[s].d.nlink = 0 /\ LastRef(s)
          THEN lock' = [lock EXCEPT ![s] = p] /\ Then(p, <<<<"free", s>>>>)
          ELSE Then(p, <<<<"drop", s>>>>) /\ UNCHANGED lock
     /\ UNCHANGED <<fs, stable, inode, cwd, fd, r, lost, ncalls>>

\* The blocks of a disk inode, its indirect block included.
Direct(d) == {d.addrs[i] : i \in 1 .. NDIRECT} \ {0}
Indirect(f, d) ==
  IF d.addrs[NDIRECT + 1] = 0 THEN {}
  ELSE {d.addrs[NDIRECT + 1]} \cup (Range(f.indirect[d.addrs[NDIRECT + 1]]) \ {0})
BlocksOf(f, d) == Direct(d) \cup Indirect(f, d)

\* Mutant: only the direct blocks are freed.
itruncDirect(f, d) == [f EXCEPT !.used = @ \ Direct(d)]

\* itrunc(): bfree() for every block.
itrunc(f, d) == [f EXCEPT !.used = @ \ BlocksOf(f, d)]

\* itrunc(), type = 0, iupdate(): the inode is free on disk, and a directory's
\* contents with its blocks.
FreeInodeStep(p) ==
  LET s == Arg(p)
      n == inode[s].inum
      d == inode[s].d
  IN /\ At(p, "free")
     /\ fs' = [iupdate(itrunc(fs, d), s, FreeInode) EXCEPT !.dir[n] = EmptyDir]
     /\ inode' = SetCopy(inode, s, FreeInode)
     /\ lost' = lost \ {n}
     /\ Then(p, <<<<"invalidate", s>>>>)
     /\ UNCHANGED <<stable, lock, cwd, fd, r, ncalls>>

Invalidate(tab, s) == [tab EXCEPT ![s].valid = FALSE]

\* valid = 0, releasesleep().
InvalidateStep(p) ==
  /\ At(p, "invalidate")
  /\ inode' = Invalidate(inode, Arg(p))
  /\ lock' = [lock EXCEPT ![Arg(p)] = None]
  /\ Then(p, <<<<"drop", Arg(p)>>>>)
  /\ UNCHANGED <<fs, stable, cwd, fd, r, lost, ncalls>>

\* ref--; the other fields of an entry without references are dead.
DropRef(p) ==
  LET s == Arg(p)
  IN /\ At(p, "drop")
     /\ inode' = [inode EXCEPT ![s] = IF @.ref = 1 THEN EmptySlot ELSE [@ EXCEPT !.ref = @ - 1]]
     /\ Then(p, <<>>)
     /\ UNCHANGED <<fs, stable, lock, cwd, fd, r, lost, ncalls>>

-----------------------------------------------------------------------------
(* ilock(), and the panics that stop the machine in what follows it *)

FreeInums == {n \in Inums : fs.dinode[n].type = Free}
Name(p) == r[p].path[1]
FreeBlocks(f) == Blocks \ f.used

\* The blocks bmap() will ask for.
Wants(d) == IF d.size < NDIRECT THEN 1 ELSE IF d.addrs[NDIRECT + 1] = 0 THEN 2 ELSE 1
Fits(d) == Cardinality(FreeBlocks(fs)) >= Wants(d)

\* There is an element to look up.
InPath(p) ==
  \/ At(p, "namei") /\ r[p].path # <<>>
  \/ At(p, "nameiparent") /\ Len(r[p].path) > 1

\* The entry whose sleep lock p takes next.
LocksNext(p) ==
  CASE At(p, "put") -> Arg(p)
    [] At(p, "bad") -> r[p].old
    [] At(p, "write") -> fd[p]
    [] InPath(p) \/ AtOneOf(p, {"nameiparent", "open", "chdir", "create", "exists", "created",
                                "unlink", "unlink2", "link", "dirlink"}) -> r[p].ip
    [] OTHER -> NoSlot

\* p is about to go on from ilock().
Ilocks(p) == ~At(p, "put") /\ LocksNext(p) # NoSlot /\ Unlocked(LocksNext(p))

\* panic("ilock: no type").
IlockNoType(p) == Ilocks(p) /\ NoType(LocksNext(p))

\* The inode that the step of p after ilock() asks iget() for; 0 is none.
GetsNext(p) ==
  LET ip == r[p].ip
      Entry(name) == fs.dir[inode[ip].inum][name]
  IN CASE InPath(p) -> IF Loaded(ip).d.type = "dir" THEN Entry(Head(r[p].path)) ELSE 0
       [] At(p, "create") -> IF Entry(Name(p)) = 0 THEN Min(FreeInums \cup {ninodes + 1}) ELSE Entry(Name(p))
       [] At(p, "unlink") -> IF Name(p) = ".." THEN 0 ELSE Entry(Name(p))
       [] At(p, "link") -> IF r[p].rel \/ Loaded(ip).d.type = "dir" THEN 0 ELSE Root
       [] At(p, "dirlink") -> Entry(Name(p))
       [] OTHER -> 0

\* panic("iget: no inodes"): in the middle of a call, or where one begins at the root.
IgetNoInodes(p) ==
  \/ Ilocks(p) /\ GetsNext(p) \in Inums /\ ~CanGet(inode, GetsNext(p))
  \/ /\ prog[p] = <<>> /\ ncalls < MaxCalls /\ ~CanGet(inode, Root)
     /\ \E c \in Calls : ~c.rel

\* panic("ialloc: no inodes"), panic("balloc: out of blocks").
DiskFull(p) ==
  \/ At(p, "create") /\ Ilocks(p) /\ GetsNext(p) = ninodes + 1
  \/ /\ At(p, "write") /\ Ilocks(p) /\ Loaded(fd[p]).d.type = "file"
     /\ Loaded(fd[p]).d.size < MAXFILE /\ ~Fits(Loaded(fd[p]).d)

Stops(p) == IlockNoType(p) \/ IgetNoInodes(p) \/ DiskFull(p)

\* p goes on from ilock() to what follows it.
Ilock(p) == Ilocks(p) /\ ~Stops(p)

-----------------------------------------------------------------------------
(* namex() *)

\* Where a failed lookup goes: link() has a link count to take back.
Failed(p, steps) ==
  Instead(p, steps \o (IF r[p].old = NoSlot THEN <<>> ELSE <<Step("bad")>>) \o <<Step("end")>>)

\* History: ".." of a directory that has been removed is looked up.
LeavesRemoved(n, name) ==
  name = ".." /\ n # Root /\ \A d \in Inums, e \in Names : fs.dir[d][e] # n

\* One turn of the loop, from ilock(ip) to iunlock(ip); iput(ip) follows.
Namex(p) ==
  LET ip == r[p].ip
      path == r[p].path
      n == fs.dir[inode[ip].inum][Head(path)]
      found == Loaded(ip).d.type = "dir" /\ n # 0
      tab == iget(Load(ip), n)
  IN /\ InPath(p) /\ Ilock(p)
     /\ IF found
          THEN /\ inode' = tab
               /\ r' = [r EXCEPT ![p].ip = SlotFor(Load(ip), n), ![p].path = Tail(path),
                                 ![p].up = LeavesRemoved(inode[ip].inum, Head(path))]
               /\ prog' = [prog EXCEPT ![p] = <<Put(ip)>> \o @]
          ELSE /\ inode' = Load(ip)
               /\ r' = [r EXCEPT ![p].ip = NoSlot, ![p].up = FALSE]
               /\ Failed(p, <<Put(ip)>>)
     /\ UNCHANGED <<fs, stable, lock, cwd, fd, lost, ncalls>>

\* The path is used up.
NameiReturn(p) ==
  /\ At(p, "namei") /\ r[p].path = <<>>
  /\ Then(p, <<>>)
  /\ UNCHANGED <<fs, stable, inode, lock, cwd, fd, r, lost, ncalls>>

\* One element is left, for the caller.
NameiparentReturn(p) ==
  LET ip == r[p].ip
  IN /\ At(p, "nameiparent") /\ Len(r[p].path) = 1
     /\ Ilock(p)
     /\ inode' = Load(ip)
     /\ IF Loaded(ip).d.type = "dir"
          THEN Then(p, <<>>) /\ r' = [r EXCEPT ![p].up = FALSE]
          ELSE Failed(p, <<Put(ip)>>) /\ r' = [r EXCEPT ![p].ip = NoSlot, ![p].up = FALSE]
     /\ UNCHANGED <<fs, stable, lock, cwd, fd, lost, ncalls>>

-----------------------------------------------------------------------------
(* open(), chdir() *)

\* filealloc() and fdalloc(), which may fail: an open file, or iunlockput().
OpenFile(p, s, steps) ==
  \/ fd' = [fd EXCEPT ![p] = s] /\ Then(p, steps)
  \/ UNCHANGED fd /\ Then(p, steps \o <<Put(s)>>)

\* open() without O_CREATE; a directory can only be read.
Open(p) ==
  LET ip == r[p].ip
  IN /\ At(p, "open") /\ Ilock(p)
     /\ inode' = Load(ip)
     /\ OpenFile(p, ip, <<>>)
     /\ r' = [r EXCEPT ![p].ip = NoSlot]
     /\ UNCHANGED <<fs, stable, lock, cwd, lost, ncalls>>

\* chdir(): the old directory is put, unless the new one is none.
Chdir(p) ==
  LET ip == r[p].ip
      isdir == Loaded(ip).d.type = "dir"
  IN /\ At(p, "chdir") /\ Ilock(p)
     /\ inode' = Load(ip)
     /\ cwd' = IF isdir THEN [cwd EXCEPT ![p] = ip] ELSE cwd
     /\ Then(p, <<Put(IF isdir THEN cwd[p] ELSE ip)>>)
     /\ r' = [r EXCEPT ![p].ip = NoSlot]
     /\ UNCHANGED <<fs, stable, lock, fd, lost, ncalls>>

-----------------------------------------------------------------------------
(* create(): open() with O_CREATE, mkdir(), mknod() *)

\* ilock(dp), dirlookup(): the name exists.
CreateExists(p) ==
  LET dp == r[p].ip
      n == fs.dir[inode[dp].inum][Name(p)]
  IN /\ At(p, "create") /\ Ilock(p) /\ n # 0
     /\ inode' = iget(Load(dp), n)
     /\ r' = [r EXCEPT ![p].ip = SlotFor(Load(dp), n)]
     /\ Then(p, <<Put(dp), Step("exists")>>)
     /\ UNCHANGED <<fs, stable, lock, cwd, fd, lost, ncalls>>

\* iunlockput(dp), then ilock(ip): a file is opened, anything else is an error.
CreateReturnsOld(p) ==
  LET ip == r[p].ip
  IN /\ At(p, "exists") /\ Ilock(p)
     /\ inode' = Load(ip)
     /\ IF r[p].type = "file" /\ Loaded(ip).d.type = "file"
          THEN OpenFile(p, ip, <<>>)
          ELSE Then(p, <<Put(ip)>>) /\ UNCHANGED fd
     /\ r' = [r EXCEPT ![p].ip = NoSlot]
     /\ UNCHANGED <<fs, stable, lock, cwd, lost, ncalls>>

\* dp stays locked; ialloc() marks the first free inode and gets it.
CreateAlloc(p) ==
  LET dp == r[p].ip
      n == Min(FreeInums)
      tab == Load(dp)
  IN /\ At(p, "create") /\ Ilock(p)
     /\ fs.dir[inode[dp].inum][Name(p)] = 0
     /\ fs' = [fs EXCEPT !.dinode[n] = [FreeInode EXCEPT !.type = r[p].type]]
     /\ inode' = iget(tab, n)
     /\ lock' = [lock EXCEPT ![dp] = p]
     /\ r' = [r EXCEPT ![p].ip = SlotFor(tab, n), ![p].dp = dp]
     /\ Then(p, <<Step("created")>>)
     /\ UNCHANGED <<stable, cwd, fd, lost, ncalls>>

\* dp->nlink++ for "..".
ParentLink(type) == IF type = "dir" THEN 1 ELSE 0

\* ilock(ip): link count 1, "..", the entry in dp; iunlock(dp).  ip stays locked
\* while iput(dp) waits for dp's lock.
CreateLink(p) ==
  LET ip == r[p].ip
      dp == r[p].dp
      n == inode[ip].inum
      d == [Loaded(ip).d EXCEPT !.nlink = 1]
      dd == [inode[dp].d EXCEPT !.nlink = @ + ParentLink(r[p].type)]
      f == iupdate(iupdate(fs, ip, d), dp, dd)
  IN /\ At(p, "created") /\ Ilock(p)
     /\ fs' = [f EXCEPT !.dir[inode[dp].inum][Name(p)] = n,
                        !.dir[n][".."] = IF r[p].type = "dir" THEN inode[dp].inum ELSE 0]
     /\ inode' = SetCopy(SetCopy(inode, ip, d), dp, dd)
     /\ lock' = [lock EXCEPT ![dp] = None, ![ip] = p]
     /\ lost' = IF dd.nlink = 0 THEN lost \cup {n} ELSE lost
     /\ r' = [r EXCEPT ![p].dp = NoSlot]
     /\ Then(p, <<Put(dp), Step("createend")>>)
     /\ UNCHANGED <<stable, cwd, fd, ncalls>>

\* open() opens the new file; mkdir() and mknod() put it.
CreateEnd(p) ==
  LET ip == r[p].ip
  IN /\ At(p, "createend")
     /\ lock' = [lock EXCEPT ![ip] = None]
     /\ IF r[p].type = "file" THEN OpenFile(p, ip, <<>>) ELSE Then(p, <<Put(ip)>>) /\ UNCHANGED fd
     /\ r' = [r EXCEPT ![p].ip = NoSlot]
     /\ UNCHANGED <<fs, stable, inode, cwd, lost, ncalls>>

-----------------------------------------------------------------------------
(* unlink() *)

\* ilock(dp), dirlookup(): the name is ".." or none, or its inode, with dp locked.
Unlink(p) ==
  LET dp == r[p].ip
      tab == Load(dp)
      n == IF Name(p) = ".." THEN 0 ELSE fs.dir[inode[dp].inum][Name(p)]
  IN /\ At(p, "unlink") /\ Ilock(p)
     /\ IF n = 0
          THEN /\ inode' = tab
               /\ r' = [r EXCEPT ![p].ip = NoSlot]
               /\ Then(p, <<Put(dp)>>)
               /\ UNCHANGED lock
          ELSE /\ inode' = iget(tab, n)
               /\ lock' = [lock EXCEPT ![dp] = p]
               /\ r' = [r EXCEPT ![p].ip = SlotFor(tab, n), ![p].dp = dp]
               /\ Then(p, <<Step("unlink2")>>)
     /\ UNCHANGED <<fs, stable, cwd, fd, lost, ncalls>>

isdirempty(n) == \A e \in Names : fs.dir[n][e] = 0

\* ilock(ip): erase the entry, iunlockput(dp); or a directory is in use.
UnlinkErase(p) ==
  LET ip == r[p].ip
      dp == r[p].dp
      n == inode[ip].inum
      isdir == Loaded(ip).d.type = "dir"
      dd == [inode[dp].d EXCEPT !.nlink = @ - ParentLink(Loaded(ip).d.type)]
  IN /\ At(p, "unlink2") /\ Ilock(p)
     /\ IF isdir /\ ~isdirempty(n)
          THEN /\ inode' = Load(ip)
               /\ Then(p, <<Put(ip), Step("unlockdp")>>)
               /\ r' = [r EXCEPT ![p].ip = NoSlot]
               /\ UNCHANGED <<fs, lock>>
          ELSE /\ fs' = [iupdate(fs, dp, dd) EXCEPT !.dir[inode[dp].inum][Name(p)] = 0]
               /\ inode' = SetCopy(Load(ip), dp, dd)
               /\ lock' = [lock EXCEPT ![dp] = None, ![ip] = p]
               /\ r' = [r EXCEPT ![p].dp = NoSlot]
               /\ Then(p, <<Put(dp), Step("unlink3")>>)
     /\ UNCHANGED <<stable, cwd, fd, lost, ncalls>>

\* iunlockput(dp) on the error path.
UnlockDp(p) ==
  LET dp == r[p].dp
  IN /\ At(p, "unlockdp")
     /\ lock' = [lock EXCEPT ![dp] = None]
     /\ r' = [r EXCEPT ![p].dp = NoSlot]
     /\ Then(p, <<Put(dp)>>)
     /\ UNCHANGED <<fs, stable, inode, cwd, fd, lost, ncalls>>

\* nlink--, iupdate(), iunlockput(ip).
UnlinkEnd(p) ==
  LET ip == r[p].ip
      d == [inode[ip].d EXCEPT !.nlink = @ - 1]
  IN /\ At(p, "unlink3")
     /\ fs' = iupdate(fs, ip, d)
     /\ inode' = SetCopy(inode, ip, d)
     /\ lock' = [lock EXCEPT ![ip] = None]
     /\ r' = [r EXCEPT ![p].ip = NoSlot]
     /\ Then(p, <<Put(ip)>>)
     /\ UNCHANGED <<stable, cwd, fd, lost, ncalls>>

-----------------------------------------------------------------------------
(* link() *)

\* Mutant: link() does not count the new name.
LinkCountNot(d) == d

LinkCount(d) == [d EXCEPT !.nlink = @ + 1]

\* Mutant: link() keeps the file locked while it looks up the new path.
LinkKeepsLock(p, ip) == [lock EXCEPT ![ip] = p]

\* iunlock(ip) before nameiparent().
LinkUnlocks(p, ip) == lock

\* ilock(ip): nlink++ before there is a name for it; nameiparent(new) starts.
Link(p) ==
  LET ip == r[p].ip
      d == LinkCount(Loaded(ip).d)
      tab == SetCopy(inode, ip, d)
  IN /\ At(p, "link") /\ Ilock(p)
     /\ IF Loaded(ip).d.type = "dir"
          THEN /\ inode' = Load(ip)
               /\ r' = [r EXCEPT ![p].ip = NoSlot]
               /\ Instead(p, <<Put(ip), Step("end")>>)
               /\ UNCHANGED <<fs, lock>>
          ELSE /\ fs' = iupdate(fs, ip, d)
               /\ inode' = StartTab(tab, p, r[p].rel)
               /\ r' = [r EXCEPT ![p].old = ip, ![p].path = r[p].new,
                                 ![p].ip = Start(tab, p, r[p].rel), ![p].up = FALSE]
               /\ lock' = LinkUnlocks(p, ip)
               /\ Then(p, <<>>)
     /\ UNCHANGED <<stable, cwd, fd, lost, ncalls>>

\* ilock(dp), dirlink(): the name is there already, and is put with dp locked.
LinkExists(p) ==
  LET dp == r[p].ip
      n == fs.dir[inode[dp].inum][Name(p)]
  IN /\ At(p, "dirlink") /\ Ilock(p) /\ n # 0
     /\ inode' = iget(Load(dp), n)
     /\ lock' = [lock EXCEPT ![dp] = p]
     /\ r' = [r EXCEPT ![p].ip = NoSlot, ![p].dp = dp]
     /\ Then(p, <<Put(SlotFor(Load(dp), n)), Step("unlockdp"), Step("bad")>>)
     /\ UNCHANGED <<fs, stable, cwd, fd, lost, ncalls>>

\* dirlink() writes the entry.
Dirlink(p) ==
  LET dp == r[p].ip
      n == inode[r[p].old].inum
  IN /\ At(p, "dirlink") /\ Ilock(p)
     /\ fs.dir[inode[dp].inum][Name(p)] = 0
     /\ fs' = [fs EXCEPT !.dir[inode[dp].inum][Name(p)] = n]
     /\ inode' = Load(dp)
     /\ lost' = IF Loaded(dp).d.nlink = 0 THEN lost \cup {n} ELSE lost
     /\ r' = [r EXCEPT ![p].ip = NoSlot, ![p].old = NoSlot]
     /\ Then(p, <<Put(dp), Put(r[p].old)>>)
     /\ UNCHANGED <<stable, lock, cwd, fd, ncalls>>

BadLink(d) == [d EXCEPT !.nlink = @ - 1]

\* bad: ilock(ip), nlink--, iunlockput(ip).
LinkBad(p) ==
  LET ip == r[p].old
      d == BadLink(Loaded(ip).d)
  IN /\ At(p, "bad") /\ Ilock(p)
     /\ fs' = iupdate(fs, ip, d)
     /\ inode' = SetCopy(inode, ip, d)
     /\ r' = [r EXCEPT ![p].old = NoSlot]
     /\ Then(p, <<Put(ip)>>)
     /\ UNCHANGED <<stable, lock, cwd, fd, lost, ncalls>>

-----------------------------------------------------------------------------
(* write() *)

bzero(f, b) == [f EXCEPT !.indirect[b] = [i \in 1 .. NINDIRECT |-> 0]]

\* balloc(): the first free block, zeroed.
balloc(f) == bzero([f EXCEPT !.used = @ \cup {Min(FreeBlocks(f))}], Min(FreeBlocks(f)))

\* bmap(ip, bn) for the block after the last: the file system and the addresses.
BmapDirect(f, d) ==
  <<balloc(f), [d EXCEPT !.addrs[d.size + 1] = Min(FreeBlocks(f))]>>
BmapIndirect(f, d) ==
  LET ind == d.addrs[NDIRECT + 1]
      f1 == IF ind = 0 THEN balloc(f) ELSE f
      a == IF ind = 0 THEN Min(FreeBlocks(f)) ELSE ind
      bn == d.size - NDIRECT + 1
      b == Min(FreeBlocks(f1))
  IN IF f1.indirect[a][bn] = 0
       THEN <<[balloc(f1) EXCEPT !.indirect[a][bn] = b], [d EXCEPT !.addrs[NDIRECT + 1] = a]>>
       ELSE <<f1, [d EXCEPT !.addrs[NDIRECT + 1] = a]>>
bmap(f, d) == IF d.size < NDIRECT THEN BmapDirect(f, d) ELSE BmapIndirect(f, d)

\* begin_op() of filewrite().
CallWrite(p) ==
  /\ prog[p] = <<>> /\ ncalls < MaxCalls /\ fd[p] # NoSlot
  /\ prog' = [prog EXCEPT ![p] = <<Step("write"), Step("end")>>]
  /\ ncalls' = ncalls + 1
  /\ UNCHANGED <<fs, stable, inode, lock, cwd, fd, r, lost>>

\* ilock(), writei() of one block at the end of the file, iunlock().
Write(p) ==
  LET s == fd[p]
      d == Loaded(s).d
      m == bmap(fs, d)
      dd == [m[2] EXCEPT !.size = @ + 1]
  IN /\ At(p, "write") /\ Ilock(p)
     /\ IF d.type = "file" /\ d.size < MAXFILE
          THEN /\ fs' = iupdate(m[1], s, dd)
               /\ inode' = SetCopy(inode, s, dd)
          ELSE inode' = Load(s) /\ UNCHANGED fs
     /\ Then(p, <<>>)
     /\ UNCHANGED <<stable, lock, cwd, fd, r, lost, ncalls>>

-----------------------------------------------------------------------------
(* Crashes *)

\* Recovery installs what was committed.
Restart ==
  /\ fs' = stable /\ lost' = lost \cap {n \in Inums : stable.dinode[n].type # Free}
  /\ Boot /\ UNCHANGED <<stable, ncalls>>

Crash == Crashes /\ (\E p \in Procs : prog[p] # <<>>) /\ Restart

Panic(p) == Stops(p) /\ Restart

UserCall(p) == (\E c \in Calls : Call(p, c)) \/ Close(p) \/ CallWrite(p)

KernelStep(p) ==
  \/ EndOp(p)
  \/ iput(p) \/ FreeInodeStep(p) \/ InvalidateStep(p) \/ DropRef(p)
  \/ Namex(p) \/ NameiReturn(p) \/ NameiparentReturn(p)
  \/ Open(p) \/ Chdir(p)
  \/ CreateExists(p) \/ CreateReturnsOld(p) \/ CreateAlloc(p) \/ CreateLink(p) \/ CreateEnd(p)
  \/ Unlink(p) \/ UnlinkErase(p) \/ UnlockDp(p) \/ UnlinkEnd(p)
  \/ Link(p) \/ LinkExists(p) \/ Dirlink(p) \/ LinkBad(p)
  \/ Write(p) \/ Panic(p)

Next ==
  \/ \E p \in Procs : UserCall(p) \/ KernelStep(p)
  \/ Crash

Spec == Init /\ [][Next]_vars

-----------------------------------------------------------------------------
(* What the file system promises *)

Allocated(f) == {n \in Inums : f.dinode[n].type # Free}

\* The names of n, and the ".." that count as links of a directory.
NamesOf(f, n) == {e \in Inums \X Names : f.dir[e[1]][e[2]] = n}
ParentOf(f, n) == {c \in Inums \ {n} : f.dir[c][".."] = n /\ f.dinode[c].nlink > 0}

DinodeOK(d) ==
  /\ d.type \in {Free, "file", "dir", "dev"} /\ d.nlink \in Nat /\ d.size \in 0 .. MAXFILE
  /\ \A i \in 1 .. NDIRECT + 1 : d.addrs[i] \in 0 .. nblocks

\* Types: no link count below zero, no file above MAXFILE; who holds a lock is in
\* the middle of a system call.
TypeOK ==
  /\ \A n \in Inums : DinodeOK(fs.dinode[n]) /\ DinodeOK(stable.dinode[n])
  /\ \A n \in Inums, e \in Names \cup {".."} : fs.dir[n][e] \in 0 .. ninodes
  /\ \A s \in Slots : inode[s].inum \in 0 .. ninodes /\ inode[s].ref \in Nat /\ DinodeOK(inode[s].d)
  /\ \A s \in Slots : lock[s] # None => prog[lock[s]] # <<>>
  /\ cwd \in [Procs -> Slots] /\ fd \in [Procs -> Slots \cup {NoSlot}]
  /\ lost \subseteq Inums /\ ncalls \in 0 .. MaxCalls

\* A name always leads to an allocated inode that counts it.
EntriesNameInodes ==
  \A n \in Inums : NamesOf(fs, n) # {} =>
    fs.dinode[n].type # Free /\ fs.dinode[n].nlink >= Cardinality(NamesOf(fs, n))

\* What a crash leaves: the link count of every inode is the number of its names
\* and of the directories in it (the root counts itself).  Inodes that got their name in a directory
\* removed meanwhile are the exception.
StableLinks ==
  \A n \in Allocated(stable) \ lost :
    stable.dinode[n].nlink = Cardinality(NamesOf(stable, n)) + Cardinality(ParentOf(stable, n))
                               + (IF n = Root THEN 1 ELSE 0)

\* Names and link counts agree, while a call is half-way as far as they must, and
\* exactly on what a crash leaves.
LinksCounted == EntriesNameInodes /\ StableLinks

\* Every block in use belongs to one inode, at one place; in memory and after a
\* crash.
Owned(f) ==
  /\ f.used = UNION {BlocksOf(f, f.dinode[n]) : n \in Inums}
  /\ \A n \in Inums : \A m \in n + 1 .. ninodes :
       BlocksOf(f, f.dinode[n]) \cap BlocksOf(f, f.dinode[m]) = {}
BlocksOwned == Owned(fs) /\ Owned(stable)

\* No hole: whatever is below the size has a block, so that read(), which is
\* outside of transactions, never allocates.
NoHoles ==
  \A n \in Inums : fs.dinode[n].type = "file" =>
    Cardinality(BlocksOf(fs, fs.dinode[n])) =
      fs.dinode[n].size + (IF fs.dinode[n].size > NDIRECT THEN 1 ELSE 0)

\* The cache is write-through and has one entry per inode: whoever locks a valid
\* entry finds what the disk says, also when iput() and ialloc() have given the
\* inode a new life meanwhile.
CacheCoherent ==
  \A s \in Slots : inode[s].ref > 0 =>
    /\ Cached(inode, inode[s].inum) = {s}
    /\ inode[s].valid /\ lock[s] = None => inode[s].d = fs.dinode[inode[s].inum]

\* Pointers to entry s: directories, files, variables, and references that
\* iput() is about to drop.
Pointers(s) ==
       {<<p, "cwd">> : p \in {q \in Procs : cwd[q] = s}}
  \cup {<<p, "fd">> : p \in {q \in Procs : fd[q] = s}}
  \cup {<<p, "ip">> : p \in {q \in Procs : r[q].ip = s}}
  \cup {<<p, "dp">> : p \in {q \in Procs : r[q].dp = s}}
  \cup {<<p, "old">> : p \in {q \in Procs : r[q].old = s}}
PutSteps(p, s) == {i \in DOMAIN prog[p] : prog[p][i][2] = s}
Puts(s) == UNION {{<<p, i>> : i \in PutSteps(p, s)} : p \in Procs}

\* ip->ref counts the pointers to the entry: nothing is recycled in use.
RefsExact == \A s \in Slots : inode[s].ref = Cardinality(Pointers(s)) + Cardinality(Puts(s))

\* The test ref == 1 in iput() is made under icache.lock and used without it:
\* still, an inode is freed when nothing names it and nothing points to it, but a
\* process that comes by ".." from a removed directory.
FreedIsUnused ==
  \A p \in Procs : At(p, "free") =>
    LET s == Arg(p)
    IN /\ Pointers(s) \subseteq {<<q, "ip">> : q \in {x \in Procs : r[x].up}}
       /\ Cardinality(Puts(s)) = 1 /\ NamesOf(fs, inode[s].inum) = {}

\* panic("unlink: nlink < 1"), panic("freeing free block").
UnlinkNoLink(p) == At(p, "unlink2") /\ Ilocks(p) /\ Loaded(r[p].ip).d.nlink < 1
FreesFree(p) == At(p, "free") /\ ~(BlocksOf(fs, inode[Arg(p)].d) \subseteq fs.used)

\* Whoever names or counts an inode finds it alive: unlink() never meets a file
\* without links, bfree() no block that is free, and ilock() a free inode only when
\* the process has just left a removed directory by its "..", the parent of which
\* may be gone.  (The other panics are those of a table or a disk that is full.)
OnlyDotDotPanics ==
  \A p \in Procs : ~UnlinkNoLink(p) /\ ~FreesFree(p) /\ (IlockNoType(p) => r[p].up)

\* The process that p waits for, if any.
WaitsOn(p) == IF LocksNext(p) = NoSlot THEN None ELSE lock[LocksNext(p)]

\* Directories are locked before what is in them: a circle of processes that wait
\* for each other's inode goes through an iput(), which takes the lock of a
\* parent while a child is locked.
OnlyIputDeadlocks ==
  ~ \E p, q \in Procs : WaitsOn(p) = q /\ WaitsOn(q) = p /\ ~At(p, "put") /\ ~At(q, "put")

\* "If that was the last reference and the inode has no links to it, free the
\* inode (and its content) on disk": a file without names is in use.
UnnamedIsInUse ==
  \A n \in Allocated(fs) : fs.dinode[n].nlink = 0 => Cached(inode, n) # {}
=============================================================================
