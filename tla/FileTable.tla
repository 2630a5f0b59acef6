----------------------------- MODULE FileTable ------------------------------
(***************************************************************************)
(* Open files: the table of file.c, the descriptors that sysfile.c hands   *)
(* out, pipealloc() and pipeclose() of pipe.c, and how fork() and exit()   *)
(* share and drop them.  One action is one critical section of ftable.lock *)
(* with the process-local work around it, of a pipe's lock or of an        *)
(* inode's.  Pathnames are resolved and inodes are numbers: an open file   *)
(* holds one reference to its inode, which has a size and no contents.     *)
(***************************************************************************)
EXTENDS Integers, Sequences, FiniteSets, FiniteSetsExt

CONSTANTS
  Procs, initproc,
  NOFILE, NFILE,
  Inodes,
  Pages,        \* what kalloc() can give to pipes
  MAXFILE, MaxWrite, \* largest file, and largest write of one transaction, in blocks
  Modes,        \* how programs open files: pairs of readable and writable
  Counts,       \* what programs ask read() and write() for
  None

ASSUME FileTableAssumption ==
  /\ initproc \in Procs
  /\ NOFILE \in Nat \ {0} /\ NFILE \in Nat \ {0}
  /\ MAXFILE \in Nat /\ MaxWrite \in Nat \ {0} /\ Counts \subseteq Nat \ {0}
  /\ None \notin Procs \cup Inodes \cup Pages

Fds == 0 .. NOFILE - 1
Files == 1 .. NFILE
NoFile == 0

VARIABLES
  file,   \* ftable.file: ref, type, the pipe or inode, readable, writable, off
  ofile,  \* proc->ofile of each process
  pipe,   \* per page: allocated, readopen, writeopen
  iref,   \* references to each inode that files and system calls hold
  size,   \* ip->size
  pc,     \* per process: "unused", "user", or the step of its system call
  reg,    \* per process: the variables of its system call
  panicked

vars == <<file, ofile, pipe, iref, size, pc, reg, panicked>>

FileRec == [ref : Nat, type : {"none", "pipe", "inode"}, obj : Pages \cup Inodes \cup {None},
            readable : BOOLEAN, writable : BOOLEAN, off : Nat]

\* f0, f1: files; obj: inode or page; ff: fileclose()'s copy; todo: files still
\* to close; fd: the descriptor exit() is at; n: blocks still to write.
NoReg == [f0 |-> NoFile, f1 |-> NoFile, obj |-> None, ff |-> None, todo |-> <<>>,
          fd |-> 0, n |-> 0, exiting |-> FALSE,
          readable |-> FALSE, writable |-> FALSE]

Steps == {"unused", "user", "openset", "pipe0", "pipe1", "pipe2",
          "write", "inpipe", "close", "drop", "exit"}

\* Every table entry, descriptor and counter in range.
TypeOK ==
  /\ file \in [Files -> FileRec]
  /\ ofile \in [Procs -> [Fds -> Files \cup {NoFile}]]
  /\ pipe \in [Pages -> [used : BOOLEAN, readopen : BOOLEAN, writeopen : BOOLEAN]]
  /\ iref \in [Inodes -> Nat] /\ size \in [Inodes -> 0 .. MAXFILE]
  /\ pc \in [Procs -> Steps]
  /\ DOMAIN reg = Procs /\ \A p \in Procs : reg[p].todo \in Seq(Files)
  /\ panicked \in BOOLEAN

NewFile == [ref |-> 0, type |-> "none", obj |-> None,
            readable |-> FALSE, writable |-> FALSE, off |-> 0]

Init ==
  /\ file = [f \in Files |-> NewFile]
  /\ ofile = [p \in Procs |-> [d \in Fds |-> NoFile]]
  /\ pipe = [x \in Pages |-> [used |-> FALSE, readopen |-> FALSE, writeopen |-> FALSE]]
  /\ iref = [i \in Inodes |-> 0] /\ size = [i \in Inodes |-> 0]
  /\ pc = [p \in Procs |-> IF p = initproc THEN "user" ELSE "unused"]
  /\ reg = [p \in Procs |-> NoReg]
  /\ panicked = FALSE

Goto(p, s, r) == pc' = [pc EXCEPT ![p] = s] /\ reg' = [reg EXCEPT ![p] = r]
Return(p) == Goto(p, "user", NoReg)

\* filealloc() and fdalloc() take the first free entry.
FreeFiles == {f \in Files : file[f].ref = 0}
filealloc == Min(FreeFiles)
FreeFds(p) == {d \in Fds : ofile[p][d] = NoFile}
fdalloc(p) == Min(FreeFds(p))
argfd(p) == {d \in Fds : ofile[p][d] # NoFile}

-----------------------------------------------------------------------------
(* open() *)

\* namei() or create() has found inode i: a reference of its own.  filealloc()
\* and fdalloc() succeed.
OpenAlloc(p, i, r, w) ==
  /\ pc[p] = "user"
  /\ FreeFiles # {} /\ FreeFds(p) # {}
  /\ iref' = [iref EXCEPT ![i] = @ + 1]
  /\ file' = [file EXCEPT ![filealloc].ref = 1]
  /\ ofile' = [ofile EXCEPT ![p][fdalloc(p)] = filealloc]
  /\ Goto(p, "openset", [NoReg EXCEPT !.f0 = filealloc, !.obj = i, !.readable = r, !.writable = w])
  /\ UNCHANGED <<pipe, size, panicked>>

\* After end_op() the fields of the file are set, off to 0.
OpenSet(p) ==
  /\ pc[p] = "openset"
  /\ file' = [file EXCEPT ![reg[p].f0] =
                [@ EXCEPT !.type = "inode", !.obj = reg[p].obj, !.off = 0,
                          !.readable = reg[p].readable, !.writable = reg[p].writable]]
  /\ Return(p)
  /\ UNCHANGED <<ofile, pipe, iref, size, panicked>>

\* No file, or a file and no descriptor: fileclose() the file, iunlockput().
OpenFail(p, i) ==
  /\ pc[p] = "user"
  /\ FreeFiles = {} \/ FreeFds(p) = {}
  /\ iref' = [iref EXCEPT ![i] = @ + 1]
  /\ IF FreeFiles = {}
       THEN Goto(p, "close", [NoReg EXCEPT !.obj = i]) /\ UNCHANGED file
       ELSE /\ file' = [file EXCEPT ![filealloc].ref = 1]
            /\ Goto(p, "close", [NoReg EXCEPT !.obj = i, !.todo = <<filealloc>>])
  /\ UNCHANGED <<ofile, pipe, size, panicked>>

-----------------------------------------------------------------------------
(* fileclose(), for every file of reg[p].todo *)

\* Mutant: a file that is free again keeps its type.
FreedKeepsType(r) == [r EXCEPT !.ref = 0]

\* The other fields of a free entry are dead: they are set before they are used.
Freed(r) == NewFile

\* What is used of ff = *f.
Copy(r) == [type |-> r.type, obj |-> r.obj, writable |-> r.writable]

\* Under ftable.lock: drop a reference; the last one copies and frees the entry.
FileClose(p) ==
  LET f == Head(reg[p].todo)
      rest == [reg[p] EXCEPT !.todo = Tail(@)]
  IN /\ pc[p] = "close" /\ reg[p].todo # <<>>
     /\ CASE file[f].ref > 1 ->
               file' = [file EXCEPT ![f].ref = @ - 1] /\ Goto(p, "close", rest) /\ UNCHANGED panicked
          [] file[f].ref = 1 ->
               /\ file' = [file EXCEPT ![f] = Freed(@)]
               /\ Goto(p, "drop", [rest EXCEPT !.ff = Copy(file[f])])
               /\ UNCHANGED panicked
          [] file[f].ref < 1 -> panicked' = TRUE /\ UNCHANGED <<file, pc, reg>>
     /\ UNCHANGED <<ofile, pipe, iref, size>>

\* pipeclose(): the end is shut; the page goes when both are.
pipeclose(x, writable) ==
  LET r == pipe[x].readopen /\ writable
      w == pipe[x].writeopen /\ ~writable
  IN pipe' = [pipe EXCEPT ![x] = [used |-> r \/ w, readopen |-> r, writeopen |-> w]]

\* pipeclose() or iput() for the copy ff, without ftable.lock.
DropCopy(ff) ==
  CASE ff.type = "pipe" -> pipeclose(ff.obj, ff.writable) /\ UNCHANGED iref
    [] ff.type = "inode" -> iref' = [iref EXCEPT ![ff.obj] = @ - 1] /\ UNCHANGED pipe
    [] ff.type = "none" -> UNCHANGED <<pipe, iref>>

Drop(p) ==
  /\ pc[p] = "drop"
  /\ DropCopy(reg[p].ff)
  /\ Goto(p, "close", [reg[p] EXCEPT !.ff = None])
  /\ UNCHANGED <<file, ofile, size, panicked>>

\* Mutant: open() unlocks its inode and does not put it.
PutInodeNever(i) == UNCHANGED iref

\* iunlockput() at the end of an open() that failed.
PutInode(i) == iref' = IF i \in Inodes THEN [iref EXCEPT ![i] = @ - 1] ELSE iref

\* All closed: exit() clears the descriptor and goes on, any other call returns.
CloseEnd(p) ==
  /\ pc[p] = "close" /\ reg[p].todo = <<>>
  /\ PutInode(reg[p].obj)
  /\ IF reg[p].exiting
       THEN /\ ofile' = [ofile EXCEPT ![p][reg[p].fd] = NoFile]
            /\ Goto(p, "exit", NoReg)
       ELSE Return(p) /\ UNCHANGED ofile
  /\ UNCHANGED <<file, pipe, size, panicked>>

\* close(): the descriptor goes first.
Close(p, d) ==
  /\ pc[p] = "user" /\ d \in argfd(p)
  /\ ofile' = [ofile EXCEPT ![p][d] = NoFile]
  /\ Goto(p, "close", [NoReg EXCEPT !.todo = <<ofile[p][d]>>])
  /\ UNCHANGED <<file, pipe, iref, size, panicked>>

\* dup(): fdalloc(), which only this process sees, then filedup().
Dup(p, d) ==
  LET f == ofile[p][d]
  IN /\ pc[p] = "user" /\ d \in argfd(p) /\ FreeFds(p) # {}
     /\ ofile' = [ofile EXCEPT ![p][fdalloc(p)] = f]
     /\ file' = [file EXCEPT ![f].ref = @ + 1]
     /\ panicked' = (panicked \/ file[f].ref < 1)
     /\ UNCHANGED <<pipe, iref, size, pc, reg>>

-----------------------------------------------------------------------------
(* pipe() *)

\* The two filealloc() of pipealloc(); without a file, goto bad.
PipeFile0(p) ==
  /\ pc[p] = "user" /\ FreeFiles # {}
  /\ file' = [file EXCEPT ![filealloc].ref = 1]
  /\ Goto(p, "pipe0", [NoReg EXCEPT !.f0 = filealloc])
  /\ UNCHANGED <<ofile, pipe, iref, size, panicked>>

PipeFile1(p) ==
  /\ pc[p] = "pipe0"
  /\ IF FreeFiles # {}
       THEN /\ file' = [file EXCEPT ![filealloc].ref = 1]
            /\ Goto(p, "pipe1", [reg[p] EXCEPT !.f1 = filealloc])
       ELSE Goto(p, "close", [NoReg EXCEPT !.todo = <<reg[p].f0>>]) /\ UNCHANGED file
  /\ UNCHANGED <<ofile, pipe, iref, size, panicked>>

PipeFileRec(r, x, writable) ==
  [r EXCEPT !.type = "pipe", !.obj = x, !.readable = ~writable, !.writable = writable]

\* kalloc(), then both files get their ends.
PipeAlloc(p, x) ==
  /\ pc[p] = "pipe1" /\ ~pipe[x].used
  /\ pipe' = [pipe EXCEPT ![x] = [used |-> TRUE, readopen |-> TRUE, writeopen |-> TRUE]]
  /\ file' = [file EXCEPT ![reg[p].f0] = PipeFileRec(@, x, FALSE),
                          ![reg[p].f1] = PipeFileRec(@, x, TRUE)]
  /\ Goto(p, "pipe2", reg[p])
  /\ UNCHANGED <<ofile, iref, size, panicked>>

\* kalloc() fails, or one of the two descriptors is missing: undo.
PipeFail(p) ==
  /\ \/ pc[p] = "pipe1" /\ \A x \in Pages : pipe[x].used
     \/ pc[p] = "pipe2" /\ Cardinality(FreeFds(p)) < 2
  /\ Goto(p, "close", [NoReg EXCEPT !.todo = <<reg[p].f0, reg[p].f1>>])
  /\ UNCHANGED <<file, ofile, pipe, iref, size, panicked>>

\* Both descriptors, in ascending order.
PipeFds(p) ==
  LET fd0 == fdalloc(p)
      fd1 == Min(FreeFds(p) \ {fd0})
  IN /\ pc[p] = "pipe2" /\ Cardinality(FreeFds(p)) >= 2
     /\ ofile' = [ofile EXCEPT ![p][fd0] = reg[p].f0, ![p][fd1] = reg[p].f1]
     /\ Return(p)
     /\ UNCHANGED <<file, pipe, iref, size, panicked>>

-----------------------------------------------------------------------------
(* read() and write() *)

\* What readi() returns at f->off: no more than there is.
ReadAdvance(f, n) == Min({n, size[file[f].obj] - file[f].off})

\* fileread() of an inode, under its lock.
Read(p, d, n) ==
  LET f == ofile[p][d]
  IN /\ pc[p] = "user" /\ d \in argfd(p)
     /\ file[f].type = "inode" /\ file[f].readable
     /\ file' = [file EXCEPT ![f].off = @ + ReadAdvance(f, n)]
     /\ UNCHANGED <<ofile, pipe, iref, size, pc, reg, panicked>>

\* filewrite() of an inode starts its loop.
Write(p, d, n) ==
  LET f == ofile[p][d]
  IN /\ pc[p] = "user" /\ d \in argfd(p)
     /\ file[f].type = "inode" /\ file[f].writable
     /\ Goto(p, "write", [NoReg EXCEPT !.f0 = f, !.n = n])
     /\ UNCHANGED <<file, ofile, pipe, iref, size, panicked>>

\* if(off + n > MAXFILE*BSIZE) return -1 in writei().
TooLarge(end) == end > MAXFILE

\* One turn of the loop, a transaction of its own: writei() writes the whole
\* chunk, or nothing when the file would become too large.
WriteChunk(p) ==
  LET f == reg[p].f0
      n1 == Min({reg[p].n, MaxWrite})
      end == file[f].off + n1
      i == file[f].obj
  IN /\ pc[p] = "write"
     /\ IF TooLarge(end)
          THEN Return(p) /\ UNCHANGED <<file, size>>
          ELSE /\ file' = [file EXCEPT ![f].off = end]
               /\ size' = [size EXCEPT ![i] = IF end > @ THEN end ELSE @]
               /\ IF n1 = reg[p].n THEN Return(p)
                  ELSE Goto(p, "write", [reg[p] EXCEPT !.n = @ - n1])
     /\ UNCHANGED <<ofile, pipe, iref, panicked>>

\* piperead() or pipewrite(): the process may sleep there.  A file without a type
\* is panic("fileread") or panic("filewrite").
PipeCall(p, d) ==
  LET f == ofile[p][d]
  IN /\ pc[p] = "user" /\ d \in argfd(p)
     /\ file[f].type # "inode"
     /\ panicked' = (panicked \/ file[f].type = "none")
     /\ Goto(p, "inpipe", [NoReg EXCEPT !.f0 = f])
     /\ UNCHANGED <<file, ofile, pipe, iref, size>>

PipeReturn(p) ==
  /\ pc[p] = "inpipe"
  /\ Return(p)
  /\ UNCHANGED <<file, ofile, pipe, iref, size, panicked>>

-----------------------------------------------------------------------------
(* fork() and exit() *)

\* Mutant: the child's descriptors are copied without filedup().
ForkUncounted(p, q) ==
  /\ pc[p] = "user" /\ pc[q] = "unused"
  /\ ofile' = [ofile EXCEPT ![q] = ofile[p]]
  /\ pc' = [pc EXCEPT ![q] = "user"]
  /\ UNCHANGED <<file, pipe, iref, size, reg, panicked>>

\* filedup() for each of the parent's descriptors.  The parent is in fork() and
\* keeps its own references meanwhile, so the loop is one step.
Fork(p, q) ==
  LET dups(f) == Cardinality({d \in Fds : ofile[p][d] = f})
  IN /\ pc[p] = "user" /\ pc[q] = "unused"
     /\ ofile' = [ofile EXCEPT ![q] = ofile[p]]
     /\ file' = [f \in Files |-> [file[f] EXCEPT !.ref = @ + dups(f)]]
     /\ panicked' = (panicked \/ \E d \in argfd(p) : file[ofile[p][d]].ref < 1)
     /\ pc' = [pc EXCEPT ![q] = "user"]
     /\ UNCHANGED <<pipe, iref, size, reg>>

Exit(p) ==
  /\ pc[p] = "user" /\ p # initproc
  /\ Goto(p, "exit", NoReg)
  /\ UNCHANGED <<file, ofile, pipe, iref, size, panicked>>

\* The loop of exit(): fileclose() with the descriptor still in place; at the end
\* the parent's wait() frees the slot.
ExitNext(p) ==
  /\ pc[p] = "exit"
  /\ IF argfd(p) = {}
       THEN Goto(p, "unused", NoReg)
       ELSE LET d == Min(argfd(p))
            IN Goto(p, "close", [NoReg EXCEPT !.exiting = TRUE, !.fd = d, !.todo = <<ofile[p][d]>>])
  /\ UNCHANGED <<file, ofile, pipe, iref, size, panicked>>

-----------------------------------------------------------------------------
Call(p) ==
  \/ \E i \in Inodes, m \in Modes : OpenAlloc(p, i, m[1], m[2]) \/ OpenFail(p, i)
  \/ \E d \in Fds :
       \/ Close(p, d) \/ Dup(p, d) \/ PipeCall(p, d)
       \/ \E n \in Counts : Read(p, d, n) \/ Write(p, d, n)
  \/ PipeFile0(p)
  \/ \E q \in Procs : Fork(p, q)
  \/ Exit(p)

KernelStep(p) ==
  \/ OpenSet(p)
  \/ FileClose(p) \/ Drop(p) \/ CloseEnd(p)
  \/ PipeFile1(p) \/ (\E x \in Pages : PipeAlloc(p, x)) \/ PipeFail(p) \/ PipeFds(p)
  \/ WriteChunk(p)
  \/ ExitNext(p)

Next == \E p \in Procs : Call(p) \/ KernelStep(p) \/ PipeReturn(p)

Spec == Init /\ [][Next]_vars

-----------------------------------------------------------------------------
(* What the file table promises *)

\* The descriptors of f, without the one that exit() is closing, and the
\* references that running system calls hold.
Descriptors(f) ==
  {h \in Procs \X Fds : /\ ofile[h[1]][h[2]] = f
                        /\ ~(reg[h[1]].exiting /\ reg[h[1]].fd = h[2])}
Pending(f) ==
  {h \in Procs \X (1 .. 2) : h[2] \in DOMAIN reg[h[1]].todo /\ reg[h[1]].todo[h[2]] = f}
    \cup {h \in Procs \X {"f0", "f1"} : /\ pc[h[1]] \in {"pipe0", "pipe1", "pipe2"}
                                        /\ reg[h[1]][h[2]] = f}

\* f->ref counts the descriptors of all processes and the calls under way: no
\* entry is reused while somebody has it, none is lost.
RefsCounted == \A f \in Files : file[f].ref = Cardinality(Descriptors(f)) + Cardinality(Pending(f))

InUseFor(type, x) == {f \in Files : file[f].ref > 0 /\ file[f].type = type /\ file[f].obj = x}
Dropping(type, x) == {p \in Procs : pc[p] = "drop" /\ reg[p].ff.type = type /\ reg[p].ff.obj = x}

\* Every inode has one reference per open file and per call that has found it.
InodeRefsCounted ==
  \A i \in Inodes :
    iref[i] = Cardinality(InUseFor("inode", i)) + Cardinality(Dropping("inode", i))
                + Cardinality({p \in Procs : pc[p] # "user" /\ reg[p].obj = i})

\* An end of a pipe is open exactly while a file refers to it, and the page is
\* allocated exactly while an end is open.
PipeEndsHeld ==
  \A x \in Pages :
    LET held(w) == \/ \E f \in InUseFor("pipe", x) : file[f].writable = w
                   \/ \E p \in Dropping("pipe", x) : reg[p].ff.writable = w
    IN /\ pipe[x].readopen <=> held(FALSE)
       /\ pipe[x].writeopen <=> held(TRUE)
       /\ pipe[x].used <=> (pipe[x].readopen \/ pipe[x].writeopen)

\* A process that sleeps in a pipe keeps its page: its own end stays open.
PipeOutlivesCaller ==
  \A p \in Procs : pc[p] = "inpipe" =>
    LET f == file[reg[p].f0]
    IN f.ref > 0 /\ (IF f.writable THEN pipe[f.obj].writeopen ELSE pipe[f.obj].readopen)

\* No shared offset runs past the end of its file.
OffsetInFile ==
  \A f \in Files : file[f].ref > 0 /\ file[f].type = "inode" => file[f].off <= size[file[f].obj]

\* filedup(), fileclose(), fileread() and filewrite() find a file that is open.
NoPanic == ~panicked
=============================================================================
