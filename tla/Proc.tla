-------------------------------- MODULE Proc --------------------------------
(***************************************************************************)
(* The process table and the two-priority scheduler of proc.c, with the    *)
(* parts of trap.c that enter it.  One action is one critical section of   *)
(* ptable.lock, or one step of a process between two of them.  The lock is *)
(* handed over at swtch: the scheduler of CPU c takes it, the process it   *)
(* dispatches releases it, and a process that calls sched() takes it for   *)
(* the scheduler it returns to.  Calls that return -1 and change nothing   *)
(* (a full table, an unknown pid, a bad ticket) are stuttering steps.      *)
(***************************************************************************)
EXTENDS Integers

CONSTANTS
  NPROC,        \* slots of ptable.proc
  CPUs, NoCPU,  \* the processors, and "no holder" of ptable.lock
  Chans,        \* sleep channels other than a struct proc
  MaxPid,       \* bound: fork is only tried while nextpid <= MaxPid
  RunMod,       \* modulus of the int run_ticks (2^32 in the kernel)
  Tickets,      \* arguments user programs pass to settickets
  KillArgs      \* arguments user programs pass to kill

Slots == 1 .. NPROC
NoProc == 0
initproc == 1

ASSUME ProcAssumption ==
  /\ NPROC \in Nat \ {0}
  /\ MaxPid \in Nat \ {0}
  /\ RunMod \in Nat \ {0}
  /\ NoCPU \notin CPUs
  /\ Chans \cap (0 .. NPROC) = {}
  /\ Tickets \subseteq Int

VARIABLES
  state, pid, parent, chan, killed, priority, run_ticks, kstack, pgdir,
  nextpid,
  lock,         \* holder of ptable.lock
  cproc,        \* c->proc
  cpc,          \* where scheduler() is on each CPU
  hasHP, idx,   \* its locals: hasHP, and the slot p of the scan
  kpc,          \* what each process is doing in (or out of) the kernel
  ctx,          \* where p->context resumes; "none" while p has the CPU
  child         \* the local np of fork()

table == <<state, pid, parent, chan, killed, priority, run_ticks, kstack, pgdir, nextpid>>
sched == <<lock, cproc, cpc, hasHP, idx>>
thread == <<kpc, ctx, child>>
vars == <<table, sched, thread>>

procstate == {"UNUSED", "EMBRYO", "SLEEPING", "RUNNABLE", "RUNNING", "ZOMBIE"}

\* The struct proc fields, the locals of scheduler() and of fork() in range.
TypeOK ==
  /\ state \in [Slots -> procstate]
  /\ pid \in [Slots -> Nat]
  /\ parent \in [Slots -> 0 .. NPROC]
  /\ chan \in [Slots -> (0 .. NPROC) \cup Chans]
  /\ killed \in [Slots -> BOOLEAN]
  /\ priority \in [Slots -> 0 .. 1]
  /\ run_ticks \in [Slots -> 0 .. RunMod - 1]
  /\ kstack \in [Slots -> BOOLEAN]
  /\ pgdir \in [Slots -> {"null", "live", "freed"}]
  /\ nextpid \in Nat
  /\ lock \in CPUs \cup {NoCPU}
  /\ cproc \in [CPUs -> 0 .. NPROC]
  /\ cpc \in [CPUs -> {"idle", "hp", "lp", "run", "rel"}]
  /\ hasHP \in [CPUs -> BOOLEAN]
  /\ idx \in [CPUs -> 1 .. NPROC + 1]
  /\ kpc \in [Slots -> {"user", "fork1", "fork2", "exit", "wait", "slp", "blk", "panic"}]
  /\ ctx \in [Slots -> {"none", "forkret", "yield", "wait", "sleep"}]
  /\ child \in [Slots -> 0 .. NPROC]

\* After userinit(): initproc is RUNNABLE in the first slot, every CPU is at
\* the top of scheduler().
Init ==
  /\ state = [p \in Slots |-> IF p = initproc THEN "RUNNABLE" ELSE "UNUSED"]
  /\ pid = [p \in Slots |-> IF p = initproc THEN 1 ELSE 0]
  /\ parent = [p \in Slots |-> NoProc]
  /\ chan = [p \in Slots |-> NoProc]
  /\ killed = [p \in Slots |-> FALSE]
  /\ priority = [p \in Slots |-> IF p = initproc THEN 1 ELSE 0]
  /\ run_ticks = [p \in Slots |-> 0]
  /\ kstack = [p \in Slots |-> p = initproc]
  /\ pgdir = [p \in Slots |-> IF p = initproc THEN "live" ELSE "null"]
  /\ nextpid = 2
  /\ lock = NoCPU
  /\ cproc = [c \in CPUs |-> NoProc]
  /\ cpc = [c \in CPUs |-> "idle"]
  /\ hasHP = [c \in CPUs |-> FALSE]
  /\ idx = [c \in CPUs |-> 1]
  /\ kpc = [p \in Slots |-> "user"]
  /\ ctx = [p \in Slots |-> IF p = initproc THEN "forkret" ELSE "none"]
  /\ child = [p \in Slots |-> NoProc]

First(p, S) == p \in S /\ \A q \in S : p <= q

-----------------------------------------------------------------------------
(* scheduler() *)

Runnable == {p \in Slots : state[p] = "RUNNABLE"}
HighPriority == {p \in Runnable : priority[p] = 1}

\* Mutant: p->state = RUNNING is forgotten.
DispatchStillRunnable(c, p) ==
  /\ cproc' = [cproc EXCEPT ![c] = p]
  /\ run_ticks' = [run_ticks EXCEPT ![p] = (@ + 1) % RunMod]
  /\ cpc' = [cpc EXCEPT ![c] = "run"]
  /\ UNCHANGED <<state, pid, parent, chan, killed, priority, kstack, pgdir, nextpid, lock, thread>>

\* Run p on c: p resumes where its context was saved, holding ptable.lock.
Dispatch(c, p) ==
  /\ cproc' = [cproc EXCEPT ![c] = p]
  /\ state' = [state EXCEPT ![p] = "RUNNING"]
  /\ run_ticks' = [run_ticks EXCEPT ![p] = (@ + 1) % RunMod]
  /\ cpc' = [cpc EXCEPT ![c] = "run"]
  /\ UNCHANGED <<pid, parent, chan, killed, priority, kstack, pgdir, nextpid, lock, thread>>

\* Mutant: the first getHighPriority() is left out.
SchedAcquireNoCount(c) ==
  /\ cpc[c] = "idle" /\ lock = NoCPU
  /\ lock' = c
  /\ cpc' = [cpc EXCEPT ![c] = "lp"]
  /\ UNCHANGED <<table, thread, cproc, hasHP, idx>>

\* acquire(&ptable.lock) and the first getHighPriority().
SchedAcquire(c) ==
  /\ cpc[c] = "idle" /\ lock = NoCPU
  /\ lock' = c
  /\ cpc' = [cpc EXCEPT ![c] = IF HighPriority # {} THEN "hp" ELSE "lp"]
  /\ UNCHANGED <<table, thread, cproc, hasHP, idx>>

\* Mutant: the scan starts again at the first slot after each dispatch.
HpDispatchRestart(c, p) ==
  /\ cpc[c] = "hp"
  /\ First(p, HighPriority \cap (idx[c] .. NPROC))
  /\ Dispatch(c, p)
  /\ idx' = [idx EXCEPT ![c] = 1]
  /\ hasHP' = [hasHP EXCEPT ![c] = TRUE]

\* The scan of the high-priority loop reaches its next RUNNABLE process.
HpDispatch(c, p) ==
  /\ cpc[c] = "hp"
  /\ First(p, HighPriority \cap (idx[c] .. NPROC))
  /\ Dispatch(c, p)
  /\ idx' = [idx EXCEPT ![c] = p + 1]
  /\ hasHP' = [hasHP EXCEPT ![c] = TRUE]

\* The scan ends: count again, and leave the while loop when none is left.
HpScanEnd(c) ==
  /\ cpc[c] = "hp"
  /\ HighPriority \cap (idx[c] .. NPROC) = {}
  /\ idx' = [idx EXCEPT ![c] = 1]
  /\ cpc' = [cpc EXCEPT ![c] = IF HighPriority # {} THEN "hp" ELSE "lp"]
  /\ UNCHANGED <<table, thread, lock, cproc, hasHP>>

\* Mutant: the scan does not break, so the last RUNNABLE slot is taken.
LpDispatchLast(c, p) ==
  /\ cpc[c] = "lp" /\ ~hasHP[c]
  /\ p \in Runnable /\ \A q \in Runnable : q <= p
  /\ Dispatch(c, p)
  /\ UNCHANGED <<idx, hasHP>>

\* if(hasHP == 0): run the first RUNNABLE slot, whatever its priority.
LpDispatch(c, p) ==
  /\ cpc[c] = "lp" /\ ~hasHP[c]
  /\ First(p, Runnable)
  /\ Dispatch(c, p)
  /\ UNCHANGED <<idx, hasHP>>

\* release(&ptable.lock); the locals go out of scope.
SchedRelease(c) ==
  /\ \/ cpc[c] = "rel"
     \/ cpc[c] = "lp" /\ (hasHP[c] \/ Runnable = {})
  /\ lock' = NoCPU
  /\ cpc' = [cpc EXCEPT ![c] = "idle"]
  /\ hasHP' = [hasHP EXCEPT ![c] = FALSE]
  /\ idx' = [idx EXCEPT ![c] = 1]
  /\ UNCHANGED <<table, thread, cproc>>

-----------------------------------------------------------------------------
(* Processes *)

\* p runs on c outside the critical section it was resumed in.
On(c, p) == cpc[c] = "run" /\ cproc[c] = p /\ ctx[p] = "none"

\* p executes kernel or user code on c and does k.
At(c, p, k) == On(c, p) /\ kpc[p] = k

\* sched(): swtch to the scheduler of c, which sets c->proc = 0 and goes on
\* with the loop that dispatched p.  The caller has taken ptable.lock.
Sched(c, p, how) ==
  /\ lock' = c
  /\ cproc' = [cproc EXCEPT ![c] = NoProc]
  /\ cpc' = [cpc EXCEPT ![c] = IF hasHP[c] THEN "hp" ELSE "rel"]
  /\ ctx' = [ctx EXCEPT ![p] = how]
  /\ UNCHANGED <<hasHP, idx>>

\* p is back from swtch in forkret(), yield() or sleep(): release the lock.
Resume(c, p) ==
  /\ lock = c /\ cpc[c] = "run"
  /\ cproc[c] = p /\ ctx[p] \in {"forkret", "yield", "sleep"}
  /\ ctx' = [ctx EXCEPT ![p] = "none"]
  /\ chan' = [chan EXCEPT ![p] = IF ctx[p] = "sleep" THEN NoProc ELSE @]
  /\ kpc' = [kpc EXCEPT ![p] = IF ctx[p] = "sleep" THEN "blk" ELSE @]
  /\ lock' = NoCPU
  /\ UNCHANGED <<state, pid, parent, killed, priority, run_ticks, kstack, pgdir, nextpid,
                 cproc, cpc, hasHP, idx, child>>

\* Places where p holds no spinlock, so that an interrupt can come in.
Interruptible == {"user", "fork1", "fork2", "exit", "wait"}

\* The timer interrupt in trap(): a killed process in user mode exits,
\* any other one yields.
TimerYield(c, p) ==
  /\ On(c, p) /\ kpc[p] \in Interruptible
  /\ ~(kpc[p] = "user" /\ killed[p])
  /\ lock = NoCPU
  /\ state' = [state EXCEPT ![p] = "RUNNABLE"]
  /\ Sched(c, p, "yield")
  /\ UNCHANGED <<pid, parent, chan, killed, priority, run_ticks, kstack, pgdir, nextpid,
                 kpc, child>>

\* trap(): a killed process leaves user mode through exit().
KilledExit(c, p) ==
  /\ At(c, p, "user") /\ killed[p]
  /\ kpc' = [kpc EXCEPT ![p] = "exit"]
  /\ UNCHANGED <<table, sched, ctx, child>>

\* trap(): an exception in user mode sets killed, without ptable.lock.
UserFault(c, p) ==
  /\ At(c, p, "user")
  /\ killed' = [killed EXCEPT ![p] = TRUE]
  /\ kpc' = [kpc EXCEPT ![p] = "exit"]
  /\ UNCHANGED <<state, pid, parent, chan, priority, run_ticks, kstack, pgdir, nextpid,
                 sched, ctx, child>>

\* A system call is entered only if killed was 0 when trap() read it.  That
\* read is a step of its own for the calls that look at killed again, and one
\* with the call's critical section for the others, which commute with kill().
SyscallFrom(c, p) == At(c, p, "user") /\ ~killed[p]

\* System calls that go on to exit(), to wait() or to a loop that may sleep.
SysEnter(c, p) ==
  \E k \in {"exit", "wait", "blk"} :
    /\ SyscallFrom(c, p)
    /\ kpc' = [kpc EXCEPT ![p] = k]
    /\ UNCHANGED <<table, sched, ctx, child>>

\* Mutant: allocproc() makes the slot RUNNABLE at once.
ForkAllocRunnable(c, p, np) ==
  /\ SyscallFrom(c, p) /\ lock = NoCPU /\ nextpid <= MaxPid
  /\ First(np, {q \in Slots : state[q] = "UNUSED"})
  /\ state' = [state EXCEPT ![np] = "RUNNABLE"]
  /\ pid' = [pid EXCEPT ![np] = nextpid]
  /\ nextpid' = nextpid + 1
  /\ priority' = [priority EXCEPT ![np] = 1]
  /\ run_ticks' = [run_ticks EXCEPT ![np] = 0]
  /\ kpc' = [kpc EXCEPT ![p] = "fork1"]
  /\ child' = [child EXCEPT ![p] = np]
  /\ UNCHANGED <<parent, chan, killed, kstack, pgdir, sched, ctx>>

\* fork(): the locked part of allocproc().
ForkAlloc(c, p, np) ==
  /\ SyscallFrom(c, p) /\ lock = NoCPU /\ nextpid <= MaxPid
  /\ First(np, {q \in Slots : state[q] = "UNUSED"})
  /\ state' = [state EXCEPT ![np] = "EMBRYO"]
  /\ pid' = [pid EXCEPT ![np] = nextpid]
  /\ nextpid' = nextpid + 1
  /\ priority' = [priority EXCEPT ![np] = 1]
  /\ run_ticks' = [run_ticks EXCEPT ![np] = 0]
  /\ kpc' = [kpc EXCEPT ![p] = "fork1"]
  /\ child' = [child EXCEPT ![p] = np]
  /\ UNCHANGED <<parent, chan, killed, kstack, pgdir, sched, ctx>>

\* kalloc() or copyuvm() fails: state = UNUSED, without ptable.lock, and
\* the pid stays behind in the slot.
ForkFail(c, p, np) ==
  \E pg \in {"null", "same"} :
    /\ At(c, p, "fork1") /\ np = child[p]
    /\ state' = [state EXCEPT ![np] = "UNUSED"]
    /\ kstack' = [kstack EXCEPT ![np] = FALSE]
    /\ pgdir' = [pgdir EXCEPT ![np] = IF pg = "same" THEN @ ELSE pg]
    /\ kpc' = [kpc EXCEPT ![p] = "user"]
    /\ child' = [child EXCEPT ![p] = NoProc]
    /\ UNCHANGED <<pid, parent, chan, killed, priority, run_ticks, nextpid, sched, ctx>>

\* fork() fills in the child, without ptable.lock.
ForkCopy(c, p, np) ==
  /\ At(c, p, "fork1") /\ np = child[p]
  /\ kstack' = [kstack EXCEPT ![np] = TRUE]
  /\ pgdir' = [pgdir EXCEPT ![np] = "live"]
  /\ run_ticks' = [run_ticks EXCEPT ![np] = 0]
  /\ priority' = [priority EXCEPT ![np] = priority[p]]
  /\ parent' = [parent EXCEPT ![np] = p]
  /\ ctx' = [ctx EXCEPT ![np] = "forkret"]
  /\ kpc' = [kpc EXCEPT ![p] = "fork2", ![np] = "user"]
  /\ UNCHANGED <<state, pid, chan, killed, nextpid, sched, child>>

\* np->state = RUNNABLE, under ptable.lock.
ForkRunnable(c, p, np) ==
  /\ At(c, p, "fork2") /\ np = child[p] /\ lock = NoCPU
  /\ state' = [state EXCEPT ![np] = "RUNNABLE"]
  /\ kpc' = [kpc EXCEPT ![p] = "user"]
  /\ child' = [child EXCEPT ![p] = NoProc]
  /\ UNCHANGED <<pid, parent, chan, killed, priority, run_ticks, kstack, pgdir, nextpid,
                 sched, ctx>>

Children(p) == {q \in Slots : parent[q] = p}

\* wakeup1(ch) for every ch of chs.
wakeup1(chs) ==
  [q \in Slots |-> IF state[q] = "SLEEPING" /\ chan[q] \in chs THEN "RUNNABLE" ELSE state[q]]

\* Mutant: children keep the exited process as their parent.
ExitNoReparent(c, p) ==
  /\ At(c, p, "exit") /\ p # initproc /\ lock = NoCPU
  /\ state' = [wakeup1({parent[p]}) EXCEPT ![p] = "ZOMBIE"]
  /\ Sched(c, p, "none")
  /\ kpc' = [kpc EXCEPT ![p] = "user"]
  /\ UNCHANGED <<pid, parent, chan, killed, priority, run_ticks, kstack, pgdir, nextpid, child>>

\* Mutant: the parent is not woken.
ExitWakesInit(p) == IF \E q \in Children(p) : state[q] = "ZOMBIE" THEN {initproc} ELSE {}

\* The channels exit() wakes: the parent, and init if it inherits a zombie.
ExitWakes(p) ==
  {parent[p]} \cup (IF \E q \in Children(p) : state[q] = "ZOMBIE" THEN {initproc} ELSE {})

\* The critical section of exit(), up to swtch.
Exit(c, p) ==
  /\ At(c, p, "exit") /\ p # initproc /\ lock = NoCPU
  /\ state' = [wakeup1(ExitWakes(p)) EXCEPT ![p] = "ZOMBIE"]
  /\ parent' = [q \in Slots |-> IF parent[q] = p THEN initproc ELSE parent[q]]
  /\ Sched(c, p, "none")
  /\ kpc' = [kpc EXCEPT ![p] = "user"]
  /\ UNCHANGED <<pid, chan, killed, priority, run_ticks, kstack, pgdir, nextpid, child>>

\* exit() of initproc: panic("init exiting"), and the CPU spins for ever.
ExitInit(c, p) ==
  /\ At(c, p, "exit") /\ p = initproc
  /\ kpc' = [kpc EXCEPT ![p] = "panic"]
  /\ UNCHANGED <<table, sched, ctx, child>>

Panicked(c, p) == At(c, p, "panic") /\ UNCHANGED vars

\* p is at the top of the loop of wait(), with ptable.lock: it has just
\* taken it, or is back from sleep().
InWait(c, p) ==
  \/ At(c, p, "wait") /\ lock = NoCPU
  \/ cpc[c] = "run" /\ cproc[c] = p /\ ctx[p] = "wait" /\ lock = c

\* The return of wait(): release the lock, back to user mode.
WaitReturn(c, p) ==
  /\ chan' = [chan EXCEPT ![p] = NoProc]
  /\ ctx' = [ctx EXCEPT ![p] = "none"]
  /\ kpc' = [kpc EXCEPT ![p] = "user"]
  /\ lock' = NoCPU
  /\ UNCHANGED <<priority, run_ticks, nextpid, cproc, cpc, hasHP, idx, child>>

ZombieChildren(p) == {q \in Children(p) : state[q] = "ZOMBIE"}

\* wait() frees the first ZOMBIE child; p->pgdir keeps its value.
WaitReap(c, p, z) ==
  /\ InWait(c, p) /\ First(z, ZombieChildren(p))
  /\ kstack' = [kstack EXCEPT ![z] = FALSE]
  /\ pgdir' = [pgdir EXCEPT ![z] = "freed"]
  /\ pid' = [pid EXCEPT ![z] = 0]
  /\ parent' = [parent EXCEPT ![z] = NoProc]
  /\ killed' = [killed EXCEPT ![z] = FALSE]
  /\ state' = [state EXCEPT ![z] = "UNUSED"]
  /\ WaitReturn(c, p)

\* wait() returns -1: no children, or killed.
WaitNone(c, p) ==
  /\ InWait(c, p) /\ ZombieChildren(p) = {}
  /\ Children(p) = {} \/ killed[p]
  /\ WaitReturn(c, p)
  /\ UNCHANGED <<state, pid, parent, killed, kstack, pgdir>>

\* sleep(curproc, &ptable.lock) in wait().
WaitSleep(c, p) ==
  /\ InWait(c, p) /\ ZombieChildren(p) = {}
  /\ Children(p) # {} /\ ~killed[p]
  /\ chan' = [chan EXCEPT ![p] = p]
  /\ state' = [state EXCEPT ![p] = "SLEEPING"]
  /\ Sched(c, p, "wait")
  /\ UNCHANGED <<pid, parent, killed, priority, run_ticks, kstack, pgdir, nextpid,
                 kpc, child>>

\* The loop of sys_sleep(), piperead(), pipewrite() or consoleread(): under
\* its own lock it finds nothing to do, reads killed, and calls sleep().
BlockCheck(c, p) ==
  /\ At(c, p, "blk") /\ ~killed[p]
  /\ kpc' = [kpc EXCEPT ![p] = "slp"]
  /\ UNCHANGED <<table, sched, ctx, child>>

\* The loop ends: the condition holds, or killed is set.
BlockDone(c, p) ==
  /\ At(c, p, "blk")
  /\ kpc' = [kpc EXCEPT ![p] = "user"]
  /\ UNCHANGED <<table, sched, ctx, child>>

\* sleep(ch, lk) with lk # &ptable.lock.
Sleep(c, p) ==
  \E ch \in Chans :
    /\ At(c, p, "slp") /\ lock = NoCPU
    /\ chan' = [chan EXCEPT ![p] = ch]
    /\ state' = [state EXCEPT ![p] = "SLEEPING"]
    /\ Sched(c, p, "sleep")
    /\ UNCHANGED <<pid, parent, killed, priority, run_ticks, kstack, pgdir, nextpid,
                   kpc, child>>

\* wakeup(ch), from a system call or from an interrupt on c.
Wakeup(c) ==
  /\ lock = NoCPU
  /\ cpc[c] = "idle" \/ \E p \in Slots : On(c, p) /\ kpc[p] \in Interruptible
  /\ \E ch \in Chans : state' = wakeup1({ch})
  /\ UNCHANGED <<pid, parent, chan, killed, priority, run_ticks, kstack, pgdir, nextpid,
                 sched, thread>>

\* kill(k): the first slot that holds k, whatever its state.
Kill(c, p) ==
  \E q \in Slots, k \in KillArgs :
    /\ SyscallFrom(c, p) /\ lock = NoCPU
    /\ First(q, {r \in Slots : pid[r] = k})
    /\ killed' = [killed EXCEPT ![q] = TRUE]
    /\ state' = [state EXCEPT ![q] = IF @ = "SLEEPING" THEN "RUNNABLE" ELSE @]
    /\ UNCHANGED <<pid, parent, chan, priority, run_ticks, kstack, pgdir, nextpid,
                   sched, thread>>

\* settickets(t): rejects everything but 0 and 1.
Settickets(c, p) ==
  \E t \in Tickets :
    /\ SyscallFrom(c, p) /\ lock = NoCPU
    /\ t >= 0 /\ t <= 1
    /\ priority' = [priority EXCEPT ![p] = t]
    /\ UNCHANGED <<state, pid, parent, chan, killed, run_ticks, kstack, pgdir, nextpid,
                   sched, thread>>

\* What getpinfo() copies out, in one critical section.
getpinfo ==
  [p \in Slots |-> [inuse |-> state[p] # "UNUSED", tickets |-> priority[p],
                    pid |-> pid[p], ticks |-> run_ticks[p]]]

SchedulerStep(c) ==
  \/ SchedAcquire(c) \/ HpScanEnd(c) \/ SchedRelease(c)
  \/ \E p \in Slots : HpDispatch(c, p) \/ LpDispatch(c, p)

KernelStep(c, p) ==
  \/ KilledExit(c, p)
  \/ \E np \in Slots : ForkFail(c, p, np) \/ ForkCopy(c, p, np) \/ ForkRunnable(c, p, np)
  \/ Exit(c, p) \/ ExitInit(c, p) \/ Panicked(c, p)
  \/ WaitNone(c, p) \/ WaitSleep(c, p) \/ \E z \in Slots : WaitReap(c, p, z)
  \/ BlockCheck(c, p) \/ BlockDone(c, p) \/ Sleep(c, p)

UserStep(c, p) ==
  \/ UserFault(c, p) \/ SysEnter(c, p)
  \/ \E np \in Slots : ForkAlloc(c, p, np)
  \/ Kill(c, p) \/ Settickets(c, p)

Next ==
  \E c \in CPUs :
    \/ SchedulerStep(c) \/ Wakeup(c)
    \/ \E p \in Slots : Resume(c, p) \/ KernelStep(c, p) \/ UserStep(c, p) \/ TimerYield(c, p)

Spec == Init /\ [][Next]_vars

-----------------------------------------------------------------------------
(* Safety *)

\* A process is RUNNING exactly when one CPU has it as c->proc, and never on
\* two: swtch hands ptable.lock over, so no other scheduler sees a process
\* RUNNABLE or SLEEPING while it still uses its kernel stack.
OneCpuPerProcess ==
  /\ \A p \in Slots : state[p] = "RUNNING" <=> \E c \in CPUs : cproc[c] = p
  /\ \A c, d \in CPUs : cproc[c] # NoProc /\ cproc[c] = cproc[d] => c = d
  /\ \A c \in CPUs : cpc[c] = "run" <=> cproc[c] # NoProc

\* ptable.lock is held by a CPU exactly while its scheduler scans or while
\* the process it has just dispatched is still to release it.
LockHandover ==
  \A c \in CPUs :
    lock = c <=> \/ cpc[c] \in {"hp", "lp", "rel"}
                 \/ cpc[c] = "run" /\ ctx[cproc[c]] # "none"

\* switchuvm(p) panics without a kernel stack or a page directory; a
\* process that can be dispatched, or reaped, has both, and a free slot
\* never keeps a kernel stack.
ResourcesOwned ==
  \A p \in Slots :
    /\ state[p] \in {"SLEEPING", "RUNNABLE", "RUNNING", "ZOMBIE"}
         => kstack[p] /\ pgdir[p] = "live"
    /\ state[p] = "UNUSED" => ~kstack[p]

Alive == {p \in Slots : state[p] \in {"SLEEPING", "RUNNABLE", "RUNNING"}}

\* Every process but init has a parent that can still call wait(): exit()
\* passes abandoned children to init, so no zombie is left without a reaper.
EveryProcessHasAReaper ==
  \A p \in Alive \cup {q \in Slots : state[q] = "ZOMBIE"} :
    p # initproc => parent[p] \in Alive

\* A parent never sleeps in wait() while a child is a ZOMBIE: exit() wakes
\* the parent, and init for the zombies it passes on.
NoLostExit ==
  \A p \in Slots : state[p] = "SLEEPING" /\ chan[p] = p => ZombieChildren(p) = {}

\* kill() is not lost on a process in wait(): killed is tested under
\* ptable.lock there.
KilledNotStuckInWait ==
  \A p \in Slots : state[p] = "SLEEPING" /\ chan[p] = p => ~killed[p]

\* A process asleep in wait() has missed neither the exit of a child nor a kill(),
\* whoever did it on another CPU and whoever inherited the child.
WaitSleepsForAReason == NoLostExit /\ KilledNotStuckInWait

\* The processes that getpinfo() reports in use have distinct pids, all
\* handed out by allocproc().
PinfoPidsDistinct ==
  \A p, q \in Slots :
    getpinfo[p].inuse =>
      /\ getpinfo[p].pid \in 1 .. nextpid - 1
      /\ p # q /\ getpinfo[q].inuse => getpinfo[p].pid # getpinfo[q].pid

\* A process of priority 0 is dispatched only when no process of priority 1
\* is RUNNABLE, although the second loop of scheduler() has no test of
\* p->priority.
StrictPriority ==
  [][\A p \in Slots :
       state[p] = "RUNNABLE" /\ state'[p] = "RUNNING" /\ priority[p] = 0
         => HighPriority = {}]_vars

\* A killed process is not asleep: kill() wakes it ("Wake process from sleep
\* if necessary"), and the loops that sleep test killed first.  The sleeps that
\* do not test killed (log, disk, sleep locks, closing files in exit()) are
\* outside this module.
KilledNeverAsleep ==
  \A p \in Slots : state[p] = "SLEEPING" => ~killed[p]

\* "Kill the process with the given pid": a process created later is not
\* marked by it.  allocproc() hands out slots whose killed is 0.
NewbornNotKilled ==
  [][\A p \in Slots : state[p] = "UNUSED" /\ state'[p] = "EMBRYO" => ~killed'[p]]_vars
=============================================================================
