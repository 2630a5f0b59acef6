--------------------------------- MODULE Vm ---------------------------------
(***************************************************************************)
(* Address spaces: kalloc.c, the user half of vm.c, exec() and growproc(), *)
(* with mprotect() and munprotect().  A page directory is known by the     *)
(* page frame it lives in.  One action is one turn of a loop that          *)
(* allocates, so that processes compete for the last frames; a step that   *)
(* only touches the caller's own table is atomic.  An address is counted   *)
(* in units, PG of them to a page, so that sizes need not be aligned.      *)
(***************************************************************************)
EXTENDS Integers, FiniteSets, Sequences

CONSTANTS
  NFrames,    \* physical pages that kinit1() and kinit2() free
  Procs, initproc,
  PG,         \* PGSIZE in units
  NPages,     \* KERNBASE in pages: user pages are 0 .. NPages - 1
  Image,      \* pages of a program, stack and guard page included, at boot
  Loads       \* what user programs pass to the kernel; a behaviour keeps to one

ASSUME VmAssumption ==
  /\ initproc \in Procs
  /\ PG \in Nat \ {0} /\ NPages \in Nat /\ Image \in 4 .. NPages
  /\ NFrames \in Nat /\ NFrames >= Image + 4
  /\ Loads # {}
  /\ \A l \in Loads :
       /\ l.sbrk \subseteq Int                           \* arguments of sbrk()
       /\ l.prot \subseteq Int                           \* lengths of mprotect(), munprotect()
       /\ l.progs \subseteq Seq([vaddr : Nat, memsz : Nat])  \* the segments of executables
       /\ l.strs \subseteq Nat                           \* strings, the stack pointer
       /\ l.bufs \subseteq Nat                           \* buffers that the kernel fills
       /\ l.pipes \in Nat                               \* how many pipes are open at once

VARIABLES
  free,               \* kmem.freelist
  pipes,              \* the frames of struct pipe
  pc,                 \* what each process does; "none" when the slot is UNUSED
  kstack, pgdir, sz,  \* struct proc
  pt, tab,            \* by directory: its user PTEs, the frame of its page table
  ktab,               \* by directory: the page tables of its kernel half, as one frame
  new, next, lim,     \* a directory being built, its next page, its next size
  seg, child,         \* the segments exec() has still to load, np of fork()
  stale,              \* pages restricted since %cr3 was last loaded
  prot,               \* history: pages the process has protected
  panic,              \* what the kernel died of
  load                \* the member of Loads in use; no step changes it

build == <<new, next, lim, seg, child>>
vars == <<free, pipes, pc, kstack, pgdir, sz, pt, tab, ktab, build, stale, prot, panic, load>>

Frames == 1 .. NFrames
Pages == 0 .. NPages - 1
KERNBASE == NPages * PG
NoFrame == 0
NoPte == [f |-> NoFrame, w |-> FALSE, u |-> FALSE]
Empty == [v \in Pages |-> NoPte]
PGROUNDUP(x) == (x + PG - 1) \div PG  \* as a page number
Page(x) == x \div PG

\* Page numbers, frames, sizes and program counters in range.
TypeOK ==
  /\ free \subseteq Frames /\ pipes \subseteq Frames
  /\ pc \in [Procs -> {"none", "embryo", "user", "grow", "forkkvm", "fork", "execkvm", "exec",
                     "zombie"}]
  /\ kstack \in [Procs -> Frames \cup {NoFrame}] /\ pgdir \in [Procs -> Frames \cup {NoFrame}]
  /\ sz \in [Procs -> Nat]
  /\ pt \in [Frames -> [Pages -> [f : Frames \cup {NoFrame}, w : BOOLEAN, u : BOOLEAN]]]
  /\ tab \in [Frames -> Frames \cup {NoFrame}] /\ ktab \in [Frames -> Frames \cup {NoFrame}]
  /\ new \in [Procs -> Frames \cup {NoFrame}] /\ next \in [Procs -> Nat]
  /\ lim \in [Procs -> Nat] /\ seg \in [Procs -> Seq([vaddr : Nat, memsz : Nat])] /\ child \in [Procs -> Procs]
  /\ stale \in [Procs -> SUBSET Pages] /\ prot \in [Procs -> SUBSET Pages]
  /\ load \in Loads
  /\ panic \in {"no", "trap", "protected", "copyuvm", "loaduvm", "init exiting"}

\* init has replaced initcode by /init: text from page 1 on, a guard page
\* without PTE_U, a stack page.  Page 0 is not mapped.
Init ==
  /\ free = Image + 4 .. NFrames /\ pipes = {}
  /\ pc = [p \in Procs |-> IF p = initproc THEN "user" ELSE "none"]
  /\ kstack = [p \in Procs |-> IF p = initproc THEN 1 ELSE NoFrame]
  /\ pgdir = [p \in Procs |-> IF p = initproc THEN 2 ELSE NoFrame]
  /\ sz = [p \in Procs |-> IF p = initproc THEN Image * PG ELSE 0]
  /\ pt = [d \in Frames |-> [v \in Pages |->
             IF d = 2 /\ v \in 1 .. Image - 1
               THEN [f |-> v + 4, w |-> TRUE, u |-> v # Image - 2] ELSE NoPte]]
  /\ tab = [d \in Frames |-> IF d = 2 THEN 3 ELSE NoFrame]
  /\ ktab = [d \in Frames |-> IF d = 2 THEN 4 ELSE NoFrame]
  /\ new = [p \in Procs |-> NoFrame] /\ next = [p \in Procs |-> 0]
  /\ lim = [p \in Procs |-> 0] /\ seg = [p \in Procs |-> <<>>]
  /\ child = [p \in Procs |-> initproc]
  /\ stale = [p \in Procs |-> {}] /\ prot = [p \in Procs |-> {}]
  /\ panic = "no" /\ load \in Loads

-----------------------------------------------------------------------------
(* kalloc.c and the loops of vm.c *)

\* Any free page: nothing depends on the order of the free list.
kalloc == CHOOSE f \in free : TRUE

kfree(fs) == free' = free \cup fs

\* kalloc() fails, or mappages() needs a page table and cannot have it, and the
\* page goes back.
Short(d) == free = {} \/ (tab[d] = NoFrame /\ Cardinality(free) = 1)

\* kalloc() and mappages() of page v in directory d.
MapPage(d, v, w, u) ==
  LET f == kalloc
      t == CHOOSE g \in free \ {f} : TRUE
  IN  /\ ~Short(d)
      /\ pt' = [pt EXCEPT ![d][v] = [f |-> f, w |-> w, u |-> u]]
      /\ IF tab[d] = NoFrame
           THEN tab' = [tab EXCEPT ![d] = t] /\ free' = free \ {f, t}
           ELSE UNCHANGED tab /\ free' = free \ {f}

\* The pages that deallocuvm(d, oldsz, newsz) finds present, and their frames.
Present(d, newsz, oldsz) ==
  {v \in PGROUNDUP(newsz) .. NPages - 1 : v < PGROUNDUP(oldsz) /\ pt[d][v].f # NoFrame}

FramesOf(d, vs) == {pt[d][v].f : v \in vs}

deallocuvm(d, vs) ==
  /\ kfree(FramesOf(d, vs))
  /\ pt' = [pt EXCEPT ![d] = [v \in Pages |-> IF v \in vs THEN NoPte ELSE @[v]]]
  /\ UNCHANGED tab

\* The frames that freevm(d) gives back.
Dir(d) == {d} \cup FramesOf(d, Present(d, 0, KERNBASE)) \cup ({tab[d], ktab[d]} \ {NoFrame})

\* freevm(d), with other frames that are freed in the same step.
freevm(d, others) ==
  /\ kfree(Dir(d) \cup others)
  /\ pt' = [pt EXCEPT ![d] = Empty]
  /\ tab' = [tab EXCEPT ![d] = NoFrame]
  /\ ktab' = [ktab EXCEPT ![d] = NoFrame]

\* The system call returns; its locals go out of scope.
Return(p) ==
  /\ new' = [new EXCEPT ![p] = NoFrame] /\ next' = [next EXCEPT ![p] = 0]
  /\ lim' = [lim EXCEPT ![p] = 0] /\ seg' = [seg EXCEPT ![p] = <<>>]
  /\ child' = [child EXCEPT ![p] = initproc]

\* p executes user code: its text is mapped, or still cached.
Running(p) ==
  /\ pc[p] = "user"
  /\ 1 \in stale[p] \/ (pt[pgdir[p]][1].f # NoFrame /\ pt[pgdir[p]][1].u)

-----------------------------------------------------------------------------
(* growproc() *)

\* sbrk(n), n > 0; allocuvm() refuses to reach KERNBASE.
Grow(p) ==
  \E n \in load.sbrk :
    /\ Running(p) /\ n > 0 /\ sz[p] + n < KERNBASE
    /\ lim' = [lim EXCEPT ![p] = sz[p] + n]
    /\ next' = [next EXCEPT ![p] = PGROUNDUP(sz[p])]
    /\ pc' = [pc EXCEPT ![p] = "grow"]
    /\ UNCHANGED <<free, kstack, pgdir, sz, pt, tab, ktab, new, seg, child, stale, prot, panic>>

\* One turn of the loop of allocuvm().
GrowPage(p) ==
  /\ pc[p] = "grow" /\ next[p] < PGROUNDUP(lim[p])
  /\ MapPage(pgdir[p], next[p], TRUE, TRUE)
  /\ next' = [next EXCEPT ![p] = @ + 1]
  /\ UNCHANGED <<ktab, pc, kstack, pgdir, sz, new, lim, seg, child, stale, prot, panic>>

\* Mutant: the pages that were already mapped stay.
GrowFailKeeps(p) ==
  /\ pc[p] = "grow" /\ next[p] < PGROUNDUP(lim[p]) /\ Short(pgdir[p])
  /\ pc' = [pc EXCEPT ![p] = "user"]
  /\ Return(p)
  /\ UNCHANGED <<free, pt, tab, ktab, kstack, pgdir, sz, stale, prot, panic>>

\* allocuvm() is out of memory: back to the old size, and sbrk() returns -1.
GrowFail(p) ==
  /\ pc[p] = "grow" /\ next[p] < PGROUNDUP(lim[p]) /\ Short(pgdir[p])
  /\ deallocuvm(pgdir[p], Present(pgdir[p], sz[p], lim[p]))
  /\ pc' = [pc EXCEPT ![p] = "user"]
  /\ Return(p)
  /\ UNCHANGED <<ktab, kstack, pgdir, sz, stale, prot, panic>>

GrowDone(p) ==
  /\ pc[p] = "grow" /\ next[p] = PGROUNDUP(lim[p])
  /\ sz' = [sz EXCEPT ![p] = lim[p]]
  /\ stale' = [stale EXCEPT ![p] = {}]
  /\ pc' = [pc EXCEPT ![p] = "user"]
  /\ Return(p)
  /\ UNCHANGED <<free, kstack, pgdir, pt, tab, ktab, prot, panic>>

\* sbrk(n), n <= 0: deallocuvm(), and switchuvm() unless the new size is 0, which
\* growproc() takes for an error.  sz + n < 0 wraps round to a larger size.
Shrink(p) ==
  \E n \in load.sbrk :
    LET newsz == sz[p] + n
        vs == IF newsz < 0 THEN {} ELSE Present(pgdir[p], newsz, sz[p])
    IN /\ Running(p) /\ n <= 0
       /\ deallocuvm(pgdir[p], vs)
       /\ sz' = [sz EXCEPT ![p] = IF newsz <= 0 THEN @ ELSE newsz]
       /\ stale' = [stale EXCEPT ![p] = IF newsz = 0 THEN @ \cup vs ELSE {}]
       /\ prot' = [prot EXCEPT ![p] = @ \ vs]
       /\ UNCHANGED <<ktab, pc, kstack, pgdir, build, panic>>

-----------------------------------------------------------------------------
(* mprotect() and munprotect() *)

\* The pages from v on that the loop changes: it stops at the first one that
\* is not mapped for the user.  No address is refused for its alignment.
Prefix(p, v, len) ==
  {x \in v .. v + len - 1 :
     \A y \in v .. x : y \in Pages /\ pt[pgdir[p]][y].f # NoFrame /\ pt[pgdir[p]][y].u}

SetW(p, vs, w) ==
  pt' = [pt EXCEPT ![pgdir[p]] = [v \in Pages |-> IF v \in vs THEN [@[v] EXCEPT !.w = w] ELSE @[v]]]

\* Mutant: the test against PGSIZE is left out.
ArgptrNull(p, x) == x < sz[p]

\* argptr() admits the address.
Argptr(p, x) == x >= PG /\ x < sz[p]

\* A short prefix is an error, returned without lcr3().
mprotect(p) ==
  \E v \in Pages, len \in load.prot :
    LET vs == Prefix(p, v, len)
        all == vs = v .. v + len - 1
    IN /\ Running(p) /\ len >= 1 /\ Argptr(p, v * PG)
       /\ SetW(p, vs, FALSE)
       /\ stale' = [stale EXCEPT ![p] = IF all THEN {} ELSE @ \cup {x \in vs : pt[pgdir[p]][x].w}]
       /\ prot' = [prot EXCEPT ![p] = IF all THEN @ \cup vs ELSE @]
       /\ UNCHANGED <<free, pc, kstack, pgdir, sz, tab, ktab, build, panic>>

munprotect(p) ==
  \E v \in Pages, len \in load.prot :
    LET vs == Prefix(p, v, len)
        all == vs = v .. v + len - 1
    IN /\ Running(p) /\ len >= 1 /\ Argptr(p, v * PG)
       /\ SetW(p, vs, TRUE)
       /\ stale' = [stale EXCEPT ![p] = IF all THEN {} ELSE @]
       /\ prot' = [prot EXCEPT ![p] = @ \ vs]
       /\ UNCHANGED <<free, pc, kstack, pgdir, sz, tab, ktab, build, panic>>

-----------------------------------------------------------------------------
(* setupkvm(), for fork() and exec() *)

\* The directory.
KvmDir(p) ==
  /\ pc[p] \in {"forkkvm", "execkvm"} /\ new[p] = NoFrame /\ free # {}
  /\ free' = free \ {kalloc}
  /\ new' = [new EXCEPT ![p] = kalloc]
  /\ UNCHANGED <<pc, kstack, pgdir, sz, pt, tab, ktab, next, lim, seg, child, stale, prot, panic>>

\* mappages() of the kernel half.  The user half starts at page 1.
KvmTables(p) ==
  /\ pc[p] \in {"forkkvm", "execkvm"} /\ new[p] # NoFrame /\ free # {}
  /\ free' = free \ {kalloc}
  /\ ktab' = [ktab EXCEPT ![new[p]] = kalloc]
  /\ next' = [next EXCEPT ![p] = 1]
  /\ pc' = [pc EXCEPT ![p] = IF @ = "forkkvm" THEN "fork" ELSE "exec"]
  /\ UNCHANGED <<kstack, pgdir, sz, pt, tab, new, lim, seg, child, stale, prot, panic>>

-----------------------------------------------------------------------------
(* fork() *)

\* allocproc() has found slot q and its kernel stack; without one the slot is
\* UNUSED again and fork() returns -1.
ForkStart(p, q) ==
  /\ Running(p) /\ pc[q] = "none" /\ free # {}
  /\ free' = free \ {kalloc}
  /\ kstack' = [kstack EXCEPT ![q] = kalloc]
  /\ child' = [child EXCEPT ![p] = q]
  /\ pc' = [pc EXCEPT ![p] = "forkkvm", ![q] = "embryo"]
  /\ UNCHANGED <<pgdir, sz, pt, tab, ktab, new, next, lim, seg, stale, prot, panic>>

\* Mutant: the copy is mapped PTE_W|PTE_U, whatever the parent's flags.
ForkPageWritable(p) ==
  LET pte == pt[pgdir[p]][next[p]]
  IN /\ pc[p] = "fork" /\ next[p] < PGROUNDUP(sz[p])
     /\ IF pte.f = NoFrame
          THEN panic' = "copyuvm" /\ UNCHANGED <<free, pt, tab, next>>
          ELSE /\ MapPage(new[p], next[p], TRUE, TRUE)
               /\ next' = [next EXCEPT ![p] = @ + 1]
               /\ UNCHANGED panic
     /\ UNCHANGED <<ktab, pc, kstack, pgdir, sz, new, lim, seg, child, stale, prot>>

\* One turn of the loop of copyuvm(), which starts at PGSIZE and panics at a
\* hole.
ForkPage(p) ==
  LET pte == pt[pgdir[p]][next[p]]
  IN /\ pc[p] = "fork" /\ next[p] < PGROUNDUP(sz[p])
     /\ IF pte.f = NoFrame
          THEN panic' = "copyuvm" /\ UNCHANGED <<free, pt, tab, next>>
          ELSE /\ MapPage(new[p], next[p], pte.w, pte.u)
               /\ next' = [next EXCEPT ![p] = @ + 1]
               /\ UNCHANGED panic
     /\ UNCHANGED <<ktab, pc, kstack, pgdir, sz, new, lim, seg, child, stale, prot>>

\* fork() gives slot and kernel stack back and returns -1.
NoChild(p) ==
  /\ kstack' = [kstack EXCEPT ![child[p]] = NoFrame]
  /\ pgdir' = [pgdir EXCEPT ![child[p]] = NoFrame]
  /\ pc' = [pc EXCEPT ![p] = "user", ![child[p]] = "none"]
  /\ Return(p)
  /\ UNCHANGED <<sz, stale, prot, panic>>

\* copyuvm() has no directory to copy to.
ForkNoDir(p) ==
  /\ pc[p] = "forkkvm" /\ new[p] = NoFrame /\ free = {}
  /\ kfree({kstack[child[p]]})
  /\ NoChild(p)
  /\ UNCHANGED <<pt, tab, ktab>>

\* setupkvm() or the loop of copyuvm() is out of memory, with a directory to free.
OutOfMemory(p) ==
  \/ pc[p] = "forkkvm" /\ new[p] # NoFrame /\ free = {}
  \/ pc[p] = "fork" /\ next[p] < PGROUNDUP(sz[p]) /\ Short(new[p])
     /\ pt[pgdir[p]][next[p]].f # NoFrame

\* Mutant: the kernel stack is not freed.
ForkFailLeaks(p) ==
  /\ OutOfMemory(p)
  /\ freevm(new[p], {})
  /\ NoChild(p)

\* freevm(), and fork() frees the kernel stack.
ForkFail(p) ==
  /\ OutOfMemory(p)
  /\ freevm(new[p], {kstack[child[p]]})
  /\ NoChild(p)

ForkDone(p) ==
  LET q == child[p]
  IN /\ pc[p] = "fork" /\ next[p] >= PGROUNDUP(sz[p])
     /\ pgdir' = [pgdir EXCEPT ![q] = new[p]]
     /\ sz' = [sz EXCEPT ![q] = sz[p]]
     /\ stale' = [stale EXCEPT ![q] = {}]
     /\ prot' = [prot EXCEPT ![q] = prot[p]]
     /\ pc' = [pc EXCEPT ![p] = "user", ![q] = "user"]
     /\ Return(p)
     /\ UNCHANGED <<free, kstack, pt, tab, ktab, panic>>

-----------------------------------------------------------------------------
(* exec() *)

\* The size that exec() asks allocuvm() for after size n: the end of the next
\* segment, unless that is smaller, or two pages more for the stack.
Wanted(n, segs) ==
  IF segs = <<>> THEN (PGROUNDUP(n) + 2) * PG
  ELSE LET end == Head(segs).vaddr + Head(segs).memsz IN IF end < n THEN n ELSE end

\* The ELF header is read; sz starts at PGSIZE.
ExecStart(p) ==
  \E prog \in load.progs :
    /\ Running(p)
    /\ seg' = [seg EXCEPT ![p] = prog]
    /\ lim' = [lim EXCEPT ![p] = Wanted(PG, prog)]
    /\ pc' = [pc EXCEPT ![p] = "execkvm"]
    /\ UNCHANGED <<free, kstack, pgdir, sz, pt, tab, ktab, new, next, child, stale, prot, panic>>

\* One turn of the loop of allocuvm(), for a segment or for the stack.
ExecPage(p) ==
  /\ pc[p] = "exec" /\ lim[p] < KERNBASE /\ next[p] < PGROUNDUP(lim[p])
  /\ MapPage(new[p], next[p], TRUE, TRUE)
  /\ next' = [next EXCEPT ![p] = @ + 1]
  /\ UNCHANGED <<ktab, pc, kstack, pgdir, sz, new, lim, seg, child, stale, prot, panic>>

\* loaduvm() finds every page of the segment, as if all of it came from the file.
\* It panics if there is no page table, and would write to physical page 0 if
\* there is no page.
loaduvm(d, ph) ==
  \A v \in Page(ph.vaddr) .. PGROUNDUP(ph.vaddr + ph.memsz) - 1 : pt[d][v].f # NoFrame

\* The segment is allocated and is loaded; the next one, or the stack.
ExecLoad(p) ==
  LET ph == Head(seg[p])
  IN /\ pc[p] = "exec" /\ seg[p] # <<>>
     /\ lim[p] < KERNBASE /\ next[p] >= PGROUNDUP(lim[p]) /\ ph.vaddr % PG = 0
     /\ panic' = IF loaduvm(new[p], ph) THEN panic ELSE "loaduvm"
     /\ seg' = [seg EXCEPT ![p] = Tail(@)]
     /\ lim' = [lim EXCEPT ![p] = Wanted(@, Tail(seg[p]))]
     /\ UNCHANGED <<free, pc, kstack, pgdir, sz, pt, tab, ktab, new, next, child, stale, prot>>

\* goto bad before there is a directory.
ExecNoDir(p) ==
  /\ pc[p] = "execkvm" /\ new[p] = NoFrame
  /\ pc' = [pc EXCEPT ![p] = "user"]
  /\ Return(p)
  /\ UNCHANGED <<free, kstack, pgdir, sz, pt, tab, ktab, stale, prot, panic>>

\* setupkvm() cannot be completed; or goto bad: allocuvm(), readi(), loaduvm() or
\* copyout() has failed, or the segment is not one that exec() loads.
ExecBad(p) ==
  /\ \/ pc[p] = "execkvm" /\ new[p] # NoFrame /\ free = {}
     \/ pc[p] = "exec"
  /\ freevm(new[p], {})
  /\ pc' = [pc EXCEPT ![p] = "user"]
  /\ Return(p)
  /\ UNCHANGED <<kstack, pgdir, sz, stale, prot, panic>>

\* clearpteu() below the stack; commit to the image; freevm() of the old one.
ExecCommit(p) ==
  LET guard == PGROUNDUP(lim[p]) - 2
      old == pgdir[p]
  IN /\ pc[p] = "exec" /\ seg[p] = <<>> /\ lim[p] < KERNBASE /\ next[p] = PGROUNDUP(lim[p])
     /\ pgdir' = [pgdir EXCEPT ![p] = new[p]]
     /\ sz' = [sz EXCEPT ![p] = lim[p]]
     /\ kfree(Dir(old))
     /\ pt' = [pt EXCEPT ![old] = Empty, ![new[p]][guard].u = FALSE]
     /\ tab' = [tab EXCEPT ![old] = NoFrame] /\ ktab' = [ktab EXCEPT ![old] = NoFrame]
     /\ stale' = [stale EXCEPT ![p] = {}]
     /\ prot' = [prot EXCEPT ![p] = {}]
     /\ pc' = [pc EXCEPT ![p] = "user"]
     /\ Return(p)
     /\ UNCHANGED <<kstack, panic>>

-----------------------------------------------------------------------------
(* The end of a process, and the kernel's use of user addresses *)

\* exit(), or a fault in user mode.
Exit(p) ==
  /\ pc[p] = "user"
  /\ IF p = initproc
       THEN panic' = "init exiting" /\ UNCHANGED pc
       ELSE pc' = [pc EXCEPT ![p] = "zombie"] /\ UNCHANGED panic
  /\ UNCHANGED <<free, kstack, pgdir, sz, pt, tab, ktab, build, stale, prot>>

\* wait() in the parent; p->pgdir keeps its value.
Reap(p) ==
  /\ pc[p] = "zombie"
  /\ freevm(pgdir[p], {kstack[p]})
  /\ kstack' = [kstack EXCEPT ![p] = NoFrame]
  /\ pc' = [pc EXCEPT ![p] = "none"]
  /\ UNCHANGED <<pgdir, sz, build, stale, prot, panic>>

\* The scheduler runs something else for a while: switchuvm() loads %cr3.
Preempt(p) ==
  /\ stale[p] # {}
  /\ stale' = [stale EXCEPT ![p] = {}]
  /\ UNCHANGED <<free, pc, kstack, pgdir, sz, pt, tab, ktab, build, prot, panic>>

\* fetchint() and fetchstr() read at x if it is below sz; a fault in the kernel
\* panics.
FetchArg(p) ==
  \E x \in load.strs :
    /\ Running(p) /\ x < sz[p]
    /\ panic' = IF pt[pgdir[p]][Page(x)].f = NoFrame THEN "trap" ELSE panic
    /\ UNCHANGED <<free, pc, kstack, pgdir, sz, pt, tab, ktab, build, stale, prot>>

\* A buffer that argptr() admits is filled by the kernel; CR0_WP is set, so
\* PTE_W counts.
FillBuffer(p) ==
  \E x \in load.bufs :
    /\ Running(p) /\ Argptr(p, x)
    /\ panic' = IF pt[pgdir[p]][Page(x)].f = NoFrame THEN "trap"
                ELSE IF ~pt[pgdir[p]][Page(x)].w THEN "protected" ELSE panic
    /\ UNCHANGED <<free, pc, kstack, pgdir, sz, pt, tab, ktab, build, stale, prot>>

\* pipealloc(): the pipe is a page of its own.
PipeAlloc(p) ==
  /\ Running(p) /\ free # {} /\ Cardinality(pipes) < load.pipes
  /\ pipes' = pipes \cup {kalloc}
  /\ free' = free \ {kalloc}
  /\ UNCHANGED <<pc, kstack, pgdir, sz, pt, tab, ktab, build, stale, prot, panic>>

\* pipeclose() of the second end.
PipeFree(p) ==
  /\ Running(p)
  /\ \E f \in pipes : pipes' = pipes \ {f} /\ kfree({f})
  /\ UNCHANGED <<pc, kstack, pgdir, sz, pt, tab, ktab, build, stale, prot, panic>>

Halted == panic # "no" /\ UNCHANGED vars

MemoryStep(p) ==
  \/ Grow(p) \/ GrowPage(p) \/ GrowFail(p) \/ GrowDone(p) \/ Shrink(p)
  \/ mprotect(p) \/ munprotect(p)

ProcessStep(p) ==
  \/ \E q \in Procs : ForkStart(p, q)
  \/ KvmDir(p) \/ KvmTables(p)
  \/ ForkPage(p) \/ ForkNoDir(p) \/ ForkFail(p) \/ ForkDone(p)
  \/ ExecStart(p) \/ ExecPage(p) \/ ExecLoad(p) \/ ExecNoDir(p) \/ ExecBad(p) \/ ExecCommit(p)
  \/ Exit(p) \/ Reap(p) \/ Preempt(p)

Next ==
  \/ /\ panic = "no" /\ UNCHANGED <<load, pipes>>
     /\ \E p \in Procs : MemoryStep(p) \/ ProcessStep(p) \/ FetchArg(p) \/ FillBuffer(p)
  \/ /\ panic = "no" /\ UNCHANGED load
     /\ \E p \in Procs : PipeAlloc(p) \/ PipeFree(p)
  \/ Halted

Spec == Init /\ [][Next]_vars

-----------------------------------------------------------------------------
(* Safety *)

Building == {p \in Procs : new[p] # NoFrame}
HasDir == {p \in Procs : pc[p] \notin {"none", "embryo"}}
Dirs == {pgdir[p] : p \in HasDir} \cup {new[p] : p \in Building}

\* What the frames are in use for.
Uses ==
       {<<"free", f, f>> : f \in free} \cup {<<"pipe", f, f>> : f \in pipes}
  \cup {<<"kstack", p, kstack[p]>> : p \in {q \in Procs : pc[q] # "none"}}
  \cup {<<"pgdir", p, pgdir[p]>> : p \in HasDir}
  \cup {<<"new", p, new[p]>> : p \in Building}
  \cup {<<"table", d, tab[d]>> : d \in {e \in Dirs : tab[e] # NoFrame}}
  \cup {<<"kernel half", d, ktab[d]>> : d \in {e \in Dirs : ktab[e] # NoFrame}}
  \cup {<<"page", m, pt[m[1]][m[2]].f>> : m \in {n \in Dirs \X Pages : pt[n[1]][n[2]].f # NoFrame}}

\* Every frame is free or has one use, through every error path of allocuvm(),
\* copyuvm(), fork() and exec(): no page leaks, none is freed twice, and no
\* two address spaces share one.
OneHolder == Cardinality(Uses) = NFrames /\ {u[3] : u \in Uses} = Frames

\* The pages from PGSIZE up to sz are mapped and no others: copyuvm() finds
\* no hole, allocuvm() no page to remap.
SizeIsMapped ==
  \A p \in HasDir : pc[p] # "grow" =>
    \A v \in Pages : pt[pgdir[p]][v].f # NoFrame <=> v \in 1 .. PGROUNDUP(sz[p]) - 1

\* A page stays read-only from a successful mprotect() to munprotect(), sbrk()
\* or exec(), in the children forked meanwhile too, and no cached translation
\* says otherwise.
ProtectionHolds ==
  \A p \in HasDir : \A v \in prot[p] :
    pt[pgdir[p]][v].f # NoFrame /\ ~pt[pgdir[p]][v].w /\ v \notin stale[p]

\* "In kernel, it must be our mistake": no fault and no panic of copyuvm() or
\* loaduvm() while the kernel works on user addresses it has checked, unless
\* the process has itself made the page of its buffer read-only.
NoKernelFault == panic \in {"no", "init exiting", "protected"}
=============================================================================
