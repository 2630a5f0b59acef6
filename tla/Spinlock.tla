------------------------------ MODULE Spinlock ------------------------------
(***************************************************************************)
(* Spin locks and interrupts: spinlock.c, and what sched(), scheduler(),   *)
(* forkret() and trap() do to the interrupt flag of a CPU.                 *)
(*                                                                         *)
(* A context is a process's kernel thread, or the scheduler of a CPU (named *)
(* by the CPU).  Kernel code is any sequence of acquire() and release() that *)
(* keeps to the order of the locks (another one, ptable.lock, kmem.lock),   *)
(* sched() with ptable.lock alone, and interrupts wherever the flag allows  *)
(* them.  An interrupt handler is such code too.                           *)
(***************************************************************************)
EXTENDS Integers, FiniteSets

CONSTANTS
  CPUs,
  Threads,    \* slots of the process table
  Others,     \* the spin locks other than ptable.lock
  Inner,      \* those of them that are taken under ptable.lock: kmem.lock
  ptable,
  None

Locks == Others \cup {ptable}
Ctx == CPUs \cup Threads

ASSUME SpinAssumption ==
  /\ CPUs \cap Threads = {} /\ ptable \notin Others /\ Inner \subseteq Others
  /\ None \notin CPUs \cup Threads \cup Others \cup {ptable} /\ None \notin BOOLEAN

VARIABLES
  locked, cpu,        \* struct spinlock
  iflag,              \* FL_IF of the CPU
  ncli, intena, on,   \* struct cpu; on is the context that runs
  pc, lk, eflags,     \* per context: step, and the variables of acquire(), release()
  held,               \* per context: the locks it has
  saved,              \* per context: the intena of sched(); New before forkret()
  irq,                \* per context: what the interrupt it handles has interrupted
  panicked, nested

vars == <<locked, cpu, iflag, ncli, intena, on, pc, lk, eflags, held, saved, irq, panicked, nested>>

New == None
NoFrame == [pc |-> "none", lk |-> None, eflags |-> FALSE]
Frames == [pc : {"run", "loop", "idle", "cli"}, lk : Locks \cup {None}, eflags : BOOLEAN]

\* mpmain() calls scheduler() with interrupts off; no process has run.
Init ==
  /\ locked = [l \in Locks |-> FALSE] /\ cpu = [l \in Locks |-> None]
  /\ iflag = [c \in CPUs |-> FALSE] /\ ncli = [c \in CPUs |-> 0]
  /\ intena = [c \in CPUs |-> FALSE] /\ on = [c \in CPUs |-> c]
  /\ pc = [x \in Ctx |-> IF x \in CPUs THEN "loop" ELSE "out"]
  /\ lk = [x \in Ctx |-> None] /\ eflags = [x \in Ctx |-> FALSE]
  /\ held = [x \in Ctx |-> {}]
  /\ saved = [x \in Ctx |-> IF x \in CPUs THEN FALSE ELSE New]
  /\ irq = [x \in Ctx |-> NoFrame]
  /\ panicked = FALSE /\ nested = FALSE

Goto(x, l) == pc' = [pc EXCEPT ![x] = l]
Handling(x) == irq[x] # NoFrame
Holding(l, c) == locked[l] /\ cpu[l] = c

\* Neither in the loop of scheduler() nor in forkret().
InKernelCode(x) == Handling(x) \/ (x \in Threads /\ saved[x] # New)

\* ptable.lock is taken under any other lock but kmem.lock, by sleep() and wakeup();
\* wait() frees memory under ptable.lock.
MayNest(x, l) ==
  \/ held[x] = {}
  \/ l = ptable /\ ptable \notin held[x] /\ held[x] \cap Inner = {}
  \/ l \in Inner /\ held[x] = {ptable}

-----------------------------------------------------------------------------
(* acquire() *)

\* pushcli(): readeflags().  The scheduler takes only ptable.lock.
Acquire(c, l) ==
  LET x == on[c]
  IN /\ \/ pc[x] = "run" /\ InKernelCode(x) /\ MayNest(x, l)
        \/ pc[x] = "idle" /\ l = ptable
     /\ Goto(x, "cli")
     /\ lk' = [lk EXCEPT ![x] = l]
     /\ eflags' = [eflags EXCEPT ![x] = iflag[c]]
     /\ UNCHANGED <<locked, cpu, iflag, ncli, intena, on, held, saved, irq, panicked, nested>>

\* The flag at the outermost pushcli() is kept.
Pushed(c, flag) == IF ncli[c] = 0 THEN flag ELSE intena[c]

\* cli(), the rest of pushcli(), and holding(), whose pushcli() and popcli()
\* undo each other.
Cli(c) ==
  LET x == on[c]
  IN /\ pc[x] = "cli"
     /\ iflag' = [iflag EXCEPT ![c] = FALSE]
     /\ intena' = [intena EXCEPT ![c] = Pushed(c, eflags[x])]
     /\ ncli' = [ncli EXCEPT ![c] = @ + 1]
     /\ panicked' = (panicked \/ Holding(lk[x], c))
     /\ Goto(x, "spin")
     /\ eflags' = [eflags EXCEPT ![x] = FALSE]
     /\ UNCHANGED <<locked, cpu, on, lk, held, saved, irq, nested>>

\* Mutant: the lock is tested and set in two steps.
FreeUntested(l) == TRUE

\* xchg(&lk->locked, 1) was 0.
FreeLock(l) == ~locked[l]

Xchg(c) ==
  LET x == on[c]
  IN /\ pc[x] = "spin" /\ FreeLock(lk[x])
     /\ locked' = [locked EXCEPT ![lk[x]] = TRUE]
     /\ held' = [held EXCEPT ![x] = @ \cup {lk[x]}]
     /\ Goto(x, "own")
     /\ UNCHANGED <<cpu, iflag, ncli, intena, on, lk, eflags, saved, irq, panicked, nested>>

\* lk->cpu = mycpu(); acquire() returns.
Own(c) ==
  LET x == on[c]
  IN /\ pc[x] = "own"
     /\ cpu' = [cpu EXCEPT ![lk[x]] = c]
     /\ lk' = [lk EXCEPT ![x] = None]
     /\ Goto(x, "run")
     /\ UNCHANGED <<locked, iflag, ncli, intena, on, eflags, held, saved, irq, panicked, nested>>

-----------------------------------------------------------------------------
(* release() *)

\* holding(), lk->cpu = 0.  sleep() releases its lock after it has ptable.lock,
\* other code the last one first.
Release(c, l) ==
  LET x == on[c]
  IN /\ pc[x] = "run" /\ l \in held[x]
     /\ panicked' = (panicked \/ ~Holding(l, c))
     /\ cpu' = [cpu EXCEPT ![l] = None]
     /\ lk' = [lk EXCEPT ![x] = l]
     /\ Goto(x, "rel")
     /\ UNCHANGED <<locked, iflag, ncli, intena, on, eflags, held, saved, irq, nested>>

\* lk->locked = 0.
Unlock(c) ==
  LET x == on[c]
  IN /\ pc[x] = "rel"
     /\ locked' = [locked EXCEPT ![lk[x]] = FALSE]
     /\ held' = [held EXCEPT ![x] = @ \ {lk[x]}]
     /\ lk' = [lk EXCEPT ![x] = None]
     /\ Goto(x, "pop")
     /\ UNCHANGED <<cpu, iflag, ncli, intena, on, eflags, saved, irq, panicked, nested>>

\* Mutant: every popcli() gives interrupts back.
PoppedAlways(c) == intena[c]

\* The last popcli() gives interrupts back, if they were on.
Popped(c) == ncli[c] = 1 /\ intena[c]

\* popcli(); the scheduler starts its loop again.
Popcli(c) ==
  LET x == on[c]
  IN /\ pc[x] = "pop"
     /\ panicked' = (panicked \/ iflag[c] \/ ncli[c] < 1)
     /\ ncli' = [ncli EXCEPT ![c] = @ - 1]
     /\ iflag' = [iflag EXCEPT ![c] = @ \/ Popped(c)]
     /\ Goto(x, IF x \in CPUs /\ ~Handling(x) THEN "loop" ELSE "run")
     /\ UNCHANGED <<locked, cpu, intena, on, lk, eflags, held, saved, irq, nested>>

-----------------------------------------------------------------------------
(* Interrupts *)

\* An interrupt gate clears the flag.  One handler interrupted by another is not
\* followed any further.
Interrupt(c) ==
  LET x == on[c]
  IN /\ iflag[c]
     /\ IF Handling(x)
          THEN nested' = TRUE /\ UNCHANGED <<iflag, pc, lk, eflags, irq>>
          ELSE /\ iflag' = [iflag EXCEPT ![c] = FALSE]
               /\ irq' = [irq EXCEPT ![x] = [pc |-> pc[x], lk |-> lk[x], eflags |-> eflags[x]]]
               /\ lk' = [lk EXCEPT ![x] = None] /\ eflags' = [eflags EXCEPT ![x] = FALSE]
               /\ Goto(x, "run")
               /\ UNCHANGED nested
     /\ UNCHANGED <<locked, cpu, ncli, intena, on, held, saved, panicked>>

\* trapret: iret brings the flag back, perhaps on another CPU.
Iret(c) ==
  LET x == on[c]
  IN /\ pc[x] = "run" /\ Handling(x) /\ held[x] = {}
     /\ iflag' = [iflag EXCEPT ![c] = TRUE]
     /\ Goto(x, irq[x].pc)
     /\ lk' = [lk EXCEPT ![x] = irq[x].lk]
     /\ eflags' = [eflags EXCEPT ![x] = irq[x].eflags]
     /\ irq' = [irq EXCEPT ![x] = NoFrame]
     /\ UNCHANGED <<locked, cpu, ncli, intena, on, held, saved, panicked, nested>>

-----------------------------------------------------------------------------
(* sched() and scheduler() *)

\* sti(), at the top of the loop of scheduler().
SchedLoop(c) ==
  /\ on[c] = c /\ pc[c] = "loop"
  /\ iflag' = [iflag EXCEPT ![c] = TRUE]
  /\ Goto(c, "idle")
  /\ UNCHANGED <<locked, cpu, ncli, intena, on, lk, eflags, held, saved, irq, panicked, nested>>

\* The callers of sched() have released everything else.
OnlyPtable(x) == held[x] = {ptable}

\* sched(): yield(), sleep() and exit() call it with ptable.lock only; the lock
\* stays locked, now in the hands of the scheduler.  After exit() the slot is
\* a new process's, one day.
SchedOut(c) ==
  LET x == on[c]
  IN /\ x \in Threads /\ pc[x] = "run" /\ InKernelCode(x) /\ OnlyPtable(x)
     /\ panicked' = (panicked \/ ~Holding(ptable, c) \/ ncli[c] # 1 \/ iflag[c])
     /\ \/ saved' = [saved EXCEPT ![x] = intena[c]] /\ UNCHANGED irq
        \/ saved' = [saved EXCEPT ![x] = New] /\ irq' = [irq EXCEPT ![x] = NoFrame]
     /\ on' = [on EXCEPT ![c] = c]
     /\ held' = [held EXCEPT ![x] = @ \ {ptable}, ![c] = {ptable}]
     /\ Goto(x, "out")
     /\ UNCHANGED <<locked, cpu, iflag, ncli, intena, lk, eflags, nested>>

\* Mutant: intena is left as the CPU has it.
ResumedNot(c, x) == intena

\* mycpu()->intena = intena, after swtch(); forkret() does nothing of the kind.
Resumed(c, x) == IF saved[x] = New THEN intena ELSE [intena EXCEPT ![c] = saved[x]]

\* swtch() to a process that runs nowhere; a new one begins in forkret(), on its
\* way to user mode through trapret.
Dispatch(c, x) ==
  /\ on[c] = c /\ pc[c] = "run" /\ held[c] = {ptable} /\ ~Handling(c)
  /\ pc[x] = "out"
  /\ on' = [on EXCEPT ![c] = x]
  /\ held' = [held EXCEPT ![c] = {}, ![x] = {ptable}]
  /\ intena' = Resumed(c, x)
  /\ saved' = [saved EXCEPT ![x] = IF @ = New THEN New ELSE FALSE]
  /\ Goto(x, "run")
  /\ UNCHANGED <<locked, cpu, iflag, ncli, lk, eflags, irq, panicked, nested>>

\* forkret() has released ptable.lock; user mode begins with interrupts on,
\* whatever intena was.  What the first process does in forkret() is kernel code
\* like any other.
ForkReturn(c) ==
  LET x == on[c]
  IN /\ saved[x] = New /\ pc[x] = "run" /\ held[x] = {} /\ ~Handling(x)
     /\ iflag' = [iflag EXCEPT ![c] = TRUE]
     /\ saved' = [saved EXCEPT ![x] = FALSE]
     /\ UNCHANGED <<locked, cpu, ncli, intena, on, pc, lk, eflags, held, irq, panicked, nested>>

Next ==
  \E c \in CPUs :
    \/ \E l \in Locks : Acquire(c, l) \/ Release(c, l)
    \/ Cli(c) \/ Xchg(c) \/ Own(c) \/ Unlock(c) \/ Popcli(c)
    \/ Interrupt(c) \/ Iret(c)
    \/ SchedLoop(c) \/ SchedOut(c) \/ ForkReturn(c)
    \/ \E x \in Threads : Dispatch(c, x)

Spec == Init /\ [][Next]_vars

-----------------------------------------------------------------------------
(* What holds *)

TypeOK ==
  /\ locked \in [Locks -> BOOLEAN] /\ cpu \in [Locks -> CPUs \cup {None}]
  /\ iflag \in [CPUs -> BOOLEAN] /\ ncli \in [CPUs -> Nat] /\ intena \in [CPUs -> BOOLEAN]
  /\ on \in [CPUs -> Ctx]
  /\ pc \in [Ctx -> {"loop", "idle", "run", "out", "cli", "spin", "own", "rel", "pop"}]
  /\ lk \in [Ctx -> Locks \cup {None}] /\ eflags \in [Ctx -> BOOLEAN]
  /\ held \in [Ctx -> SUBSET Locks]
  /\ saved \in [Ctx -> BOOLEAN \cup {New}]
  /\ irq \in [Ctx -> Frames \cup {NoFrame}]
  /\ panicked \in BOOLEAN /\ nested \in BOOLEAN

\* Mutual exclusion.
Exclusive == \A x, y \in Ctx : x # y => held[x] \cap held[y] = {}

\* A locked lock is in the hands of code that runs, on the CPU that lk->cpu names
\* (between xchg and its assignment, none): whoever spins waits for somebody who
\* runs with interrupts off.
HolderRuns ==
  \A l \in Locks : locked[l] =>
    \E c \in CPUs :
      /\ l \in held[on[c]] /\ ~iflag[c]
      /\ cpu[l] = c \/ (lk[on[c]] = l /\ pc[on[c]] \in {"own", "rel"} /\ cpu[l] = None)

\* Nothing interrupts a critical section, so that no handler spins on a lock of
\* the code it has interrupted.
NoInterruptInside == \A c \in CPUs : iflag[c] => ncli[c] = 0 /\ held[on[c]] = {}

\* "intena is a property of this kernel thread, not this CPU": outside of critical
\* sections a process has interrupts on, and a handler has them off, whatever CPU
\* it is on and whatever ran there before.
FlagRestored ==
  \A c \in CPUs :
    LET x == on[c]
    IN pc[x] = "run" /\ held[x] = {} /\ InKernelCode(x) => (iflag[c] <=> ~Handling(x))

\* None of the panics of acquire(), release(), popcli() and sched(); no handler is
\* interrupted.
NoPanic == ~panicked /\ ~nested
=============================================================================
