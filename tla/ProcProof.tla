----------------------------- MODULE ProcProof ------------------------------
(***************************************************************************)
(* Proofs about Proc, for every number of slots and every set of CPUs.     *)
(***************************************************************************)
EXTENDS Proc, TLAPS

-----------------------------------------------------------------------------
(* Arithmetic of slots and of run_ticks *)

\* Slots are 1 .. NPROC, NoProc (the null pointer) is none of them.
LEMMA SlotFacts ==
  /\ NoProc \in 0 .. NPROC /\ initproc \in Slots /\ NoProc \notin Slots
  /\ \A p \in Slots : p \in 0 .. NPROC /\ p + 1 \in 1 .. NPROC + 1
  /\ \A p \in 0 .. NPROC : p # NoProc => p \in Slots
  BY ProcAssumption DEF NoProc, initproc, Slots

\* "No holder" is not a CPU.
LEMMA NoHolder == NoCPU \notin CPUs
  BY ProcAssumption

\* No other sleep channel is a struct proc.
LEMMA ChanFacts == \A ch \in Chans, p \in 0 .. NPROC : ch # p
  BY ProcAssumption

\* run_ticks stays below its modulus.
LEMMA TickFacts ==
  /\ 0 \in 0 .. RunMod - 1
  /\ \A t \in 0 .. RunMod - 1 : (t + 1) % RunMod \in 0 .. RunMod - 1
<1>1. \A a \in Nat, m \in Nat \ {0} : a % m \in 0 .. m - 1
  BY SMT
<1>. QED
  BY <1>1, ProcAssumption

-----------------------------------------------------------------------------
(* Types *)

\* userinit() establishes the ranges.
LEMMA TypeInit == Init => TypeOK
  BY ProcAssumption DEF Init, TypeOK, Slots, NoProc, initproc, procstate

\* Every step keeps them.
LEMMA TypeStep ==
  TypeOK /\ [Next]_vars => TypeOK'
<1> SUFFICES ASSUME TypeOK, [Next]_vars PROVE TypeOK'
  OBVIOUS
<1> USE DEF TypeOK, table, sched, thread
<1>0. CASE UNCHANGED vars
  BY <1>0 DEF vars
<1>1. ASSUME NEW c \in CPUs, SchedAcquire(c) PROVE TypeOK'
  BY <1>1 DEF SchedAcquire
<1>2. ASSUME NEW c \in CPUs, HpScanEnd(c) PROVE TypeOK'
  BY <1>2, ProcAssumption DEF HpScanEnd
<1>3. ASSUME NEW c \in CPUs, SchedRelease(c) PROVE TypeOK'
  BY <1>3, ProcAssumption DEF SchedRelease
<1>4. ASSUME NEW c \in CPUs, Wakeup(c) PROVE TypeOK'
  BY <1>4 DEF Wakeup, wakeup1, procstate
<1>5. ASSUME NEW c \in CPUs, NEW p \in Slots, HpDispatch(c, p) PROVE TypeOK'
  BY <1>5, SlotFacts, TickFacts DEF HpDispatch, Dispatch, procstate
<1>6. ASSUME NEW c \in CPUs, NEW p \in Slots, LpDispatch(c, p) PROVE TypeOK'
  BY <1>6, SlotFacts, TickFacts DEF LpDispatch, Dispatch, procstate
<1>7. ASSUME NEW c \in CPUs, NEW p \in Slots, Resume(c, p) PROVE TypeOK'
  BY <1>7, SlotFacts DEF Resume
<1>8. ASSUME NEW c \in CPUs, NEW p \in Slots, TimerYield(c, p) PROVE TypeOK'
  BY <1>8, SlotFacts DEF TimerYield, Sched, procstate
<1>9. ASSUME NEW c \in CPUs, NEW p \in Slots, KilledExit(c, p) PROVE TypeOK'
  BY <1>9 DEF KilledExit
<1>10. ASSUME NEW c \in CPUs, NEW p \in Slots, UserFault(c, p) PROVE TypeOK'
  BY <1>10 DEF UserFault
<1>11. ASSUME NEW c \in CPUs, NEW p \in Slots, SysEnter(c, p) PROVE TypeOK'
  BY <1>11 DEF SysEnter
<1>12. ASSUME NEW c \in CPUs, NEW p \in Slots, NEW np \in Slots, ForkAlloc(c, p, np)
      PROVE  TypeOK'
  BY <1>12, SlotFacts, TickFacts DEF ForkAlloc, procstate
<1>13. ASSUME NEW c \in CPUs, NEW p \in Slots, NEW np \in Slots, ForkFail(c, p, np)
      PROVE  TypeOK'
  BY <1>13, SlotFacts DEF ForkFail, procstate
<1>14. ASSUME NEW c \in CPUs, NEW p \in Slots, NEW np \in Slots, ForkCopy(c, p, np)
      PROVE  TypeOK'
  BY <1>14, SlotFacts, TickFacts DEF ForkCopy
<1>15. ASSUME NEW c \in CPUs, NEW p \in Slots, NEW np \in Slots, ForkRunnable(c, p, np)
      PROVE  TypeOK'
  BY <1>15, SlotFacts DEF ForkRunnable, procstate
<1>16. ASSUME NEW c \in CPUs, NEW p \in Slots, Exit(c, p) PROVE TypeOK'
  BY <1>16, SlotFacts DEF Exit, Sched, wakeup1, procstate
<1>17. ASSUME NEW c \in CPUs, NEW p \in Slots, ExitInit(c, p) PROVE TypeOK'
  BY <1>17 DEF ExitInit
<1>18. ASSUME NEW c \in CPUs, NEW p \in Slots, Panicked(c, p) PROVE TypeOK'
  BY <1>18 DEF Panicked, vars
<1>19. ASSUME NEW c \in CPUs, NEW p \in Slots, NEW z \in Slots, WaitReap(c, p, z) PROVE TypeOK'
  BY <1>19, SlotFacts DEF WaitReap, WaitReturn, procstate
<1>20. ASSUME NEW c \in CPUs, NEW p \in Slots, WaitNone(c, p) PROVE TypeOK'
  BY <1>20, SlotFacts DEF WaitNone, WaitReturn
<1>21. ASSUME NEW c \in CPUs, NEW p \in Slots, WaitSleep(c, p) PROVE TypeOK'
  BY <1>21, SlotFacts DEF WaitSleep, Sched, procstate
<1>22. ASSUME NEW c \in CPUs, NEW p \in Slots, BlockCheck(c, p) PROVE TypeOK'
  BY <1>22 DEF BlockCheck
<1>23. ASSUME NEW c \in CPUs, NEW p \in Slots, BlockDone(c, p) PROVE TypeOK'
  BY <1>23 DEF BlockDone
<1>24. ASSUME NEW c \in CPUs, NEW p \in Slots, Sleep(c, p) PROVE TypeOK'
  BY <1>24, SlotFacts DEF Sleep, Sched, procstate
<1>25. ASSUME NEW c \in CPUs, NEW p \in Slots, Kill(c, p) PROVE TypeOK'
  BY <1>25 DEF Kill, procstate
<1>26. ASSUME NEW c \in CPUs, NEW p \in Slots, Settickets(c, p) PROVE TypeOK'
  BY <1>26, ProcAssumption DEF Settickets
<1> HIDE DEF TypeOK, table, sched, thread
<1>. QED
  BY <1>0, <1>1, <1>2, <1>3, <1>4, <1>5, <1>6, <1>7, <1>8, <1>9, <1>10, <1>11, <1>12, <1>13,
      <1>14, <1>15, <1>16, <1>17, <1>18, <1>19, <1>20, <1>21, <1>22, <1>23, <1>24, <1>25,
      <1>26 DEF Next, SchedulerStep, KernelStep, UserStep

\* Every field of every struct proc and every local of scheduler() and fork()
\* keeps its range, whatever the interleaving.
THEOREM TypeCorrect == Spec => []TypeOK
  BY TypeInit, TypeStep, PTL DEF Spec

-----------------------------------------------------------------------------
(* The inductive invariant *)

\* A process that waits for a CPU has saved the place where it goes on, and
\* only wait() saves a place in wait().
CtxSaved ==
  \A p \in Slots :
    /\ state[p] \in {"RUNNABLE", "SLEEPING"} => ctx[p] # "none"
    /\ ctx[p] = "wait" => kpc[p] = "wait"

\* fork() owns the slot it fills in: no other process changes it while it
\* is an EMBRYO, although fork() writes it without ptable.lock.
ForkOwnsChild ==
  \A p \in Slots : kpc[p] \in {"fork1", "fork2"} =>
    /\ state[p] \in {"RUNNING", "RUNNABLE"}
    /\ child[p] \in Slots /\ state[child[p]] = "EMBRYO"
    /\ kpc[p] = "fork2" =>
         /\ ctx[child[p]] # "none" /\ kstack[child[p]] /\ pgdir[child[p]] = "live"
         /\ parent[child[p]] = p
    /\ \A q \in Slots : kpc[q] \in {"fork1", "fork2"} /\ child[q] = child[p] => q = p

\* Who runs where, who holds ptable.lock, who owns which EMBRYO.
Core == OneCpuPerProcess /\ LockHandover /\ CtxSaved /\ ForkOwnsChild

\* init stays, and no process is its own parent.
Family ==
  /\ initproc \in Alive /\ parent[initproc] = NoProc
  /\ \A p \in Slots : parent[p] # p

\* The second loop of scheduler() is only reached with no process of
\* priority 1 RUNNABLE, and ptable.lock keeps it so.
LowLoop ==
  \A c \in CPUs : cpc[c] = "lp" => HighPriority = {}

\* The pids of the slots in use.
PidsDistinct ==
  \A p \in Slots : state[p] # "UNUSED" =>
    /\ pid[p] \in 1 .. nextpid - 1
    /\ \A q \in Slots : state[q] # "UNUSED" /\ pid[q] = pid[p] => q = p

\* What exit() and wait() promise each other.
Reaping ==
  Family /\ EveryProcessHasAReaper /\ NoLostExit /\ KilledNotStuckInWait

Inv == TypeOK /\ Core /\ ResourcesOwned /\ Reaping /\ PidsDistinct /\ LowLoop

\* No step breaks the hand-over of ptable.lock or fork()'s ownership.
LEMMA CoreStep ==
  TypeOK /\ Core /\ [Next]_vars => Core'
<1> SUFFICES ASSUME TypeOK, Core, [Next]_vars PROVE Core'
  OBVIOUS
<1> USE DEF TypeOK, Core, OneCpuPerProcess, LockHandover, CtxSaved, ForkOwnsChild, table,
    sched, thread
<1>0. CASE UNCHANGED vars
  BY <1>0 DEF vars
<1>1. ASSUME NEW c \in CPUs, SchedAcquire(c) PROVE Core'
  BY <1>1, SlotFacts, NoHolder DEF SchedAcquire
<1>2. ASSUME NEW c \in CPUs, HpScanEnd(c) PROVE Core'
  BY <1>2, SlotFacts, NoHolder DEF HpScanEnd
<1>3. ASSUME NEW c \in CPUs, SchedRelease(c) PROVE Core'
  BY <1>3, SlotFacts, NoHolder DEF SchedRelease
<1>4. ASSUME NEW c \in CPUs, Wakeup(c) PROVE Core'
  BY <1>4, SlotFacts, NoHolder DEF Wakeup, On, Interruptible, wakeup1
<1>5. ASSUME NEW c \in CPUs, NEW p \in Slots, HpDispatch(c, p) PROVE Core'
  BY <1>5, SlotFacts, NoHolder DEF HpDispatch, First, HighPriority, Runnable, Dispatch
<1>6. ASSUME NEW c \in CPUs, NEW p \in Slots, LpDispatch(c, p) PROVE Core'
  BY <1>6, SlotFacts, NoHolder DEF LpDispatch, First, Runnable, Dispatch
<1>7. ASSUME NEW c \in CPUs, NEW p \in Slots, Resume(c, p) PROVE Core'
  BY <1>7, SlotFacts, NoHolder DEF Resume
<1>8. ASSUME NEW c \in CPUs, NEW p \in Slots, TimerYield(c, p) PROVE Core'
  BY <1>8, SlotFacts, NoHolder DEF TimerYield, On, Sched
<1>9. ASSUME NEW c \in CPUs, NEW p \in Slots, KilledExit(c, p) PROVE Core'
  BY <1>9, SlotFacts, NoHolder DEF KilledExit, At, On
<1>10. ASSUME NEW c \in CPUs, NEW p \in Slots, UserFault(c, p) PROVE Core'
  BY <1>10, SlotFacts, NoHolder DEF UserFault, At, On
<1>11. ASSUME NEW c \in CPUs, NEW p \in Slots, SysEnter(c, p) PROVE Core'
  BY <1>11, SlotFacts, NoHolder DEF SysEnter, SyscallFrom, At, On
<1>12. ASSUME NEW c \in CPUs, NEW p \in Slots, NEW np \in Slots, ForkAlloc(c, p, np) PROVE Core'
  BY <1>12, SlotFacts, NoHolder DEF ForkAlloc, SyscallFrom, At, On, First
<1>13. ASSUME NEW c \in CPUs, NEW p \in Slots, NEW np \in Slots, ForkFail(c, p, np) PROVE Core'
  BY <1>13, SlotFacts, NoHolder DEF ForkFail, At, On
<1>14. ASSUME NEW c \in CPUs, NEW p \in Slots, NEW np \in Slots, ForkCopy(c, p, np) PROVE Core'
  BY <1>14, SlotFacts, NoHolder DEF ForkCopy, At, On
<1>15. ASSUME NEW c \in CPUs, NEW p \in Slots, NEW np \in Slots, ForkRunnable(c, p, np)
      PROVE  Core'
  BY <1>15, SlotFacts, NoHolder DEF ForkRunnable, At, On
<1>16. ASSUME NEW c \in CPUs, NEW p \in Slots, Exit(c, p) PROVE Core'
  BY <1>16, SlotFacts, NoHolder DEF Exit, At, On, Sched, wakeup1
<1>17. ASSUME NEW c \in CPUs, NEW p \in Slots, ExitInit(c, p) PROVE Core'
  BY <1>17, SlotFacts, NoHolder DEF ExitInit, At, On
<1>18. ASSUME NEW c \in CPUs, NEW p \in Slots, Panicked(c, p) PROVE Core'
  BY <1>18, SlotFacts, NoHolder DEF Panicked, At, On, vars
<1>19. ASSUME NEW c \in CPUs, NEW p \in Slots, NEW z \in Slots, WaitReap(c, p, z) PROVE Core'
  BY <1>19, SlotFacts, NoHolder DEF WaitReap, InWait, At, On, First, ZombieChildren, Children,
      WaitReturn
<1>20. ASSUME NEW c \in CPUs, NEW p \in Slots, WaitNone(c, p) PROVE Core'
  BY <1>20, SlotFacts, NoHolder DEF WaitNone, InWait, At, On, WaitReturn
<1>21. ASSUME NEW c \in CPUs, NEW p \in Slots, WaitSleep(c, p) PROVE Core'
  BY <1>21, SlotFacts, NoHolder DEF WaitSleep, InWait, At, On, Sched
<1>22. ASSUME NEW c \in CPUs, NEW p \in Slots, BlockCheck(c, p) PROVE Core'
  BY <1>22, SlotFacts, NoHolder DEF BlockCheck, At, On
<1>23. ASSUME NEW c \in CPUs, NEW p \in Slots, BlockDone(c, p) PROVE Core'
  BY <1>23, SlotFacts, NoHolder DEF BlockDone, At, On
<1>24. ASSUME NEW c \in CPUs, NEW p \in Slots, Sleep(c, p) PROVE Core'
  BY <1>24, SlotFacts, NoHolder DEF Sleep, At, On, Sched
<1>25. ASSUME NEW c \in CPUs, NEW p \in Slots, Kill(c, p) PROVE Core'
  BY <1>25, SlotFacts, NoHolder DEF Kill, SyscallFrom, At, On, First
<1>26. ASSUME NEW c \in CPUs, NEW p \in Slots, Settickets(c, p) PROVE Core'
  BY <1>26, SlotFacts, NoHolder DEF Settickets, SyscallFrom, At, On
<1> HIDE DEF TypeOK, Core, OneCpuPerProcess, LockHandover, CtxSaved, ForkOwnsChild, table,
    sched, thread
<1>. QED
  BY <1>0, <1>1, <1>2, <1>3, <1>4, <1>5, <1>6, <1>7, <1>8, <1>9, <1>10, <1>11, <1>12, <1>13,
      <1>14, <1>15, <1>16, <1>17, <1>18, <1>19, <1>20, <1>21, <1>22, <1>23, <1>24, <1>25,
      <1>26 DEF Next, SchedulerStep, KernelStep, UserStep

\* Nothing runs and nothing forks at first.
LEMMA CoreInit == Init => Core
  BY SlotFacts, NoHolder
  DEF Init, Core, OneCpuPerProcess, LockHandover, CtxSaved, ForkOwnsChild

\* The table that userinit() leaves.
LEMMA LifeInit == Init => ResourcesOwned /\ Reaping /\ PidsDistinct /\ LowLoop
<1> SUFFICES ASSUME Init PROVE ResourcesOwned /\ Reaping /\ PidsDistinct /\ LowLoop
  OBVIOUS
<1> USE SlotFacts DEF Init
<1>1. ResourcesOwned
  BY DEF ResourcesOwned
<1>2. Family /\ EveryProcessHasAReaper
  BY DEF Family, EveryProcessHasAReaper, Alive
<1>3. NoLostExit /\ KilledNotStuckInWait
  BY DEF NoLostExit, KilledNotStuckInWait
<1>4. PidsDistinct
  BY DEF PidsDistinct
<1>5. LowLoop
  BY DEF LowLoop
<1>. QED
  BY <1>1, <1>2, <1>3, <1>4, <1>5 DEF Reaping

\* The actions that change a slot in more than its priority and run_ticks.
TableStep(c, p, q) ==
  \/ Wakeup(c) \/ HpDispatch(c, p) \/ LpDispatch(c, p) \/ TimerYield(c, p)
  \/ ForkAlloc(c, p, q) \/ ForkFail(c, p, q) \/ ForkCopy(c, p, q) \/ ForkRunnable(c, p, q)
  \/ Exit(c, p) \/ WaitReap(c, p, q) \/ WaitSleep(c, p) \/ Sleep(c, p) \/ Kill(c, p)
  \/ Resume(c, p) \/ WaitNone(c, p) \/ UserFault(c, p)

quiet == <<state, pid, parent, chan, killed, kstack, pgdir, nextpid>>

\* The rest of scheduler() and the steps inside one process leave them alone.
LEMMA QuietSteps ==
  [Next]_vars => UNCHANGED quiet \/ \E c \in CPUs, p, q \in Slots : TableStep(c, p, q)
<1> SUFFICES ASSUME [Next]_vars, \A c \in CPUs, p, q \in Slots : ~TableStep(c, p, q)
             PROVE  UNCHANGED quiet
  OBVIOUS
<1>1. CASE UNCHANGED vars
  BY <1>1 DEF vars, table, quiet
<1>2. ASSUME NEW c \in CPUs, SchedAcquire(c) \/ HpScanEnd(c) \/ SchedRelease(c)
      PROVE  UNCHANGED quiet
  BY <1>2 DEF SchedAcquire, HpScanEnd, SchedRelease, table, quiet
<1>3. ASSUME NEW c \in CPUs, NEW p \in Slots,
             \/ KilledExit(c, p) \/ SysEnter(c, p) \/ ExitInit(c, p) \/ Panicked(c, p)
             \/ BlockCheck(c, p) \/ BlockDone(c, p) \/ Settickets(c, p)
      PROVE  UNCHANGED quiet
  BY <1>3 DEF KilledExit, SysEnter, ExitInit, Panicked, BlockCheck, BlockDone, Settickets,
     vars, table, quiet
<1>. QED
  BY <1>1, <1>2, <1>3, SlotFacts DEF Next, SchedulerStep, KernelStep, UserStep, TableStep

\* c->proc is RUNNING.
LEMMA OnIsRunning ==
  ASSUME Core, NEW c \in CPUs, NEW p \in Slots, cproc[c] = p
  PROVE  state[p] = "RUNNING"
  BY DEF Core, OneCpuPerProcess

\* fork() works on an EMBRYO.
LEMMA ForkOnEmbryo ==
  ASSUME Core, NEW p \in Slots, kpc[p] \in {"fork1", "fork2"}
  PROVE  state[child[p]] = "EMBRYO" /\ child[p] \in Slots
  BY DEF Core, ForkOwnsChild

\* Kernel stacks and page directories follow the state of the slot.
LEMMA ResourcesStep ==
  TypeOK /\ Core /\ ResourcesOwned /\ [Next]_vars => ResourcesOwned'
<1> SUFFICES ASSUME TypeOK, Core, ResourcesOwned, [Next]_vars PROVE ResourcesOwned'
  OBVIOUS
<1>1. /\ state \in [Slots -> procstate] /\ kstack \in [Slots -> BOOLEAN]
      /\ pgdir \in [Slots -> {"null", "live", "freed"}]
  BY DEF TypeOK
<1> USE DEF ResourcesOwned
<1>2. CASE UNCHANGED quiet
  BY <1>2 DEF quiet
<1>3. ASSUME NEW c \in CPUs, NEW p \in Slots, Resume(c, p) \/ WaitNone(c, p) \/ UserFault(c, p)
      PROVE  ResourcesOwned'
  BY <1>3 DEF Resume, WaitNone, WaitReturn, UserFault, At, On
<1>4. ASSUME NEW c \in CPUs, Wakeup(c) PROVE ResourcesOwned'
  BY <1>1, <1>4 DEF Wakeup, wakeup1
<1>5. ASSUME NEW c \in CPUs, NEW p \in Slots, HpDispatch(c, p) PROVE ResourcesOwned'
  BY <1>1, <1>5 DEF HpDispatch, Dispatch, First, HighPriority, Runnable
<1>6. ASSUME NEW c \in CPUs, NEW p \in Slots, LpDispatch(c, p) PROVE ResourcesOwned'
  BY <1>1, <1>6 DEF LpDispatch, Dispatch, First, Runnable
<1>7. ASSUME NEW c \in CPUs, NEW p \in Slots, TimerYield(c, p) PROVE ResourcesOwned'
  BY <1>1, <1>7, OnIsRunning DEF TimerYield, On
<1>8. ASSUME NEW c \in CPUs, NEW p \in Slots, NEW q \in Slots, ForkAlloc(c, p, q) PROVE ResourcesOwned'
  BY <1>1, <1>8 DEF ForkAlloc, First
<1>9. ASSUME NEW c \in CPUs, NEW p \in Slots, NEW q \in Slots, ForkFail(c, p, q) PROVE ResourcesOwned'
  BY <1>1, <1>9, ForkOnEmbryo DEF ForkFail, At, On
<1>10. ASSUME NEW c \in CPUs, NEW p \in Slots, NEW q \in Slots, ForkCopy(c, p, q) PROVE ResourcesOwned'
  BY <1>1, <1>10, ForkOnEmbryo DEF ForkCopy, At, On
<1>11. ASSUME NEW c \in CPUs, NEW p \in Slots, NEW q \in Slots, ForkRunnable(c, p, q) PROVE ResourcesOwned'
  BY <1>1, <1>11, ForkOnEmbryo DEF ForkRunnable, At, On, Core, ForkOwnsChild
<1>12. ASSUME NEW c \in CPUs, NEW p \in Slots, Exit(c, p) PROVE ResourcesOwned'
  BY <1>1, <1>12, OnIsRunning DEF Exit, At, On, wakeup1
<1>13. ASSUME NEW c \in CPUs, NEW p \in Slots, NEW q \in Slots, WaitReap(c, p, q) PROVE ResourcesOwned'
  BY <1>1, <1>13 DEF WaitReap, WaitReturn, InWait, At, On, First, ZombieChildren, Children
<1>14. ASSUME NEW c \in CPUs, NEW p \in Slots, WaitSleep(c, p) PROVE ResourcesOwned'
  BY <1>1, <1>14, OnIsRunning DEF WaitSleep, InWait, At, On
<1>15. ASSUME NEW c \in CPUs, NEW p \in Slots, Sleep(c, p) PROVE ResourcesOwned'
  BY <1>1, <1>15, OnIsRunning DEF Sleep, At, On
<1>16. ASSUME NEW c \in CPUs, NEW p \in Slots, Kill(c, p) PROVE ResourcesOwned'
  BY <1>1, <1>16 DEF Kill, First
<1> HIDE DEF ResourcesOwned
<1>. QED
  BY <1>2, <1>3, <1>4, <1>5, <1>6, <1>7, <1>8, <1>9, <1>10, <1>11, <1>12, <1>13, <1>14, <1>15, <1>16, QuietSteps DEF TableStep

\* exit(), wait(), kill() and fork() keep the family tree reapable.
LEMMA ReapingStep ==
  TypeOK /\ Core /\ Reaping /\ [Next]_vars => Reaping'
<1> SUFFICES ASSUME TypeOK, Core, Reaping, [Next]_vars PROVE Reaping'
  OBVIOUS
<1>1. /\ state \in [Slots -> procstate] /\ parent \in [Slots -> 0 .. NPROC]
      /\ chan \in [Slots -> (0 .. NPROC) \cup Chans] /\ killed \in [Slots -> BOOLEAN]
  BY DEF TypeOK
<1> USE DEF Reaping, Family, EveryProcessHasAReaper, NoLostExit, KilledNotStuckInWait, Alive, ZombieChildren, Children
<1>2. CASE UNCHANGED quiet
  BY <1>2 DEF quiet
<1>3. ASSUME NEW c \in CPUs, Wakeup(c) PROVE Reaping'
  BY <1>1, <1>3, SlotFacts, ChanFacts DEF Wakeup, wakeup1
<1>4. ASSUME NEW c \in CPUs, NEW p \in Slots, HpDispatch(c, p) PROVE Reaping'
  BY <1>1, <1>4, SlotFacts, ChanFacts DEF HpDispatch, Dispatch, First, HighPriority, Runnable
<1>5. ASSUME NEW c \in CPUs, NEW p \in Slots, LpDispatch(c, p) PROVE Reaping'
  BY <1>1, <1>5, SlotFacts, ChanFacts DEF LpDispatch, Dispatch, First, Runnable
<1>6. ASSUME NEW c \in CPUs, NEW p \in Slots, TimerYield(c, p) PROVE Reaping'
  BY <1>1, <1>6, SlotFacts, ChanFacts, OnIsRunning DEF TimerYield, On
<1>7. ASSUME NEW c \in CPUs, NEW p \in Slots, NEW q \in Slots, ForkAlloc(c, p, q) PROVE Reaping'
  BY <1>1, <1>7, SlotFacts, ChanFacts DEF ForkAlloc, First
<1>8. ASSUME NEW c \in CPUs, NEW p \in Slots, NEW q \in Slots, ForkFail(c, p, q) PROVE Reaping'
  BY <1>1, <1>8, SlotFacts, ChanFacts, ForkOnEmbryo DEF ForkFail, At, On
<1>9. ASSUME NEW c \in CPUs, NEW p \in Slots, NEW q \in Slots, ForkCopy(c, p, q) PROVE Reaping'
  BY <1>1, <1>9, SlotFacts, ChanFacts, ForkOnEmbryo, OnIsRunning DEF ForkCopy, At, On
<1>10. ASSUME NEW c \in CPUs, NEW p \in Slots, NEW q \in Slots, ForkRunnable(c, p, q) PROVE Reaping'
  BY <1>1, <1>10, SlotFacts, ChanFacts, ForkOnEmbryo, OnIsRunning DEF ForkRunnable, At, On, Core, ForkOwnsChild
<1>11. ASSUME NEW c \in CPUs, NEW p \in Slots, Exit(c, p) PROVE Reaping'
  <2> USE <1>1, <1>11, SlotFacts DEF Exit, At, On, wakeup1, ExitWakes
  <2>1. state[p] = "RUNNING"
    BY OnIsRunning
  <2>2. Family'
    BY <2>1
  <2>3. EveryProcessHasAReaper'
    BY <2>1
  <2>4. NoLostExit'
    BY <2>1
  <2>5. KilledNotStuckInWait'
    BY <2>1
  <2>. QED
    BY <2>2, <2>3, <2>4, <2>5
<1>12. ASSUME NEW c \in CPUs, NEW p \in Slots, NEW q \in Slots, WaitReap(c, p, q) PROVE Reaping'
  <2> USE <1>1, <1>12, SlotFacts, ChanFacts DEF WaitReap, WaitReturn, First
  <2>1. state[p] = "RUNNING" /\ state[q] = "ZOMBIE" /\ p # q
    BY OnIsRunning DEF InWait, At, On
  <2>2. Family'
    BY <2>1
  <2>3. EveryProcessHasAReaper'
    BY <2>1
  <2>4. NoLostExit'
    BY <2>1
  <2>5. KilledNotStuckInWait'
    BY <2>1
  <2>. QED
    BY <2>2, <2>3, <2>4, <2>5
<1>13. ASSUME NEW c \in CPUs, NEW p \in Slots, WaitSleep(c, p) PROVE Reaping'
  BY <1>1, <1>13, SlotFacts, ChanFacts, OnIsRunning DEF WaitSleep, InWait, At, On
<1>14. ASSUME NEW c \in CPUs, NEW p \in Slots, Sleep(c, p) PROVE Reaping'
  BY <1>1, <1>14, SlotFacts, ChanFacts, OnIsRunning DEF Sleep, At, On
<1>15. ASSUME NEW c \in CPUs, NEW p \in Slots, Kill(c, p) PROVE Reaping'
  BY <1>1, <1>15, SlotFacts, ChanFacts DEF Kill, First
<1>16. ASSUME NEW c \in CPUs, NEW p \in Slots, Resume(c, p) PROVE Reaping'
  BY <1>1, <1>16, SlotFacts, ChanFacts DEF Resume
<1>17. ASSUME NEW c \in CPUs, NEW p \in Slots, WaitNone(c, p) PROVE Reaping'
  BY <1>1, <1>17, SlotFacts, ChanFacts DEF WaitNone, WaitReturn
<1>18. ASSUME NEW c \in CPUs, NEW p \in Slots, UserFault(c, p) PROVE Reaping'
  BY <1>1, <1>18, SlotFacts, ChanFacts, OnIsRunning DEF UserFault, At, On
<1> HIDE DEF Reaping, Family, EveryProcessHasAReaper, NoLostExit, KilledNotStuckInWait, Alive, ZombieChildren, Children
<1>. QED
  BY <1>2, <1>3, <1>4, <1>5, <1>6, <1>7, <1>8, <1>9, <1>10, <1>11, <1>12, <1>13, <1>14, <1>15, <1>16, <1>17, <1>18, QuietSteps DEF TableStep

\* nextpid is fresh for every slot in use.
LEMMA PidsStep ==
  TypeOK /\ Core /\ PidsDistinct /\ [Next]_vars => PidsDistinct'
<1> SUFFICES ASSUME TypeOK, Core, PidsDistinct, [Next]_vars PROVE PidsDistinct'
  OBVIOUS
<1>1. state \in [Slots -> procstate] /\ pid \in [Slots -> Nat] /\ nextpid \in Nat
  BY DEF TypeOK
<1> USE DEF PidsDistinct
<1>2. CASE UNCHANGED quiet
  BY <1>2 DEF quiet
<1>3. ASSUME NEW c \in CPUs, NEW p \in Slots, Resume(c, p) \/ WaitNone(c, p) \/ UserFault(c, p)
      PROVE  PidsDistinct'
  BY <1>3 DEF Resume, WaitNone, WaitReturn, UserFault, At, On
<1>4. ASSUME NEW c \in CPUs, Wakeup(c) PROVE PidsDistinct'
  BY <1>1, <1>4 DEF Wakeup, wakeup1
<1>5. ASSUME NEW c \in CPUs, NEW p \in Slots, HpDispatch(c, p) PROVE PidsDistinct'
  BY <1>1, <1>5 DEF HpDispatch, Dispatch, First, HighPriority, Runnable
<1>6. ASSUME NEW c \in CPUs, NEW p \in Slots, LpDispatch(c, p) PROVE PidsDistinct'
  BY <1>1, <1>6 DEF LpDispatch, Dispatch, First, Runnable
<1>7. ASSUME NEW c \in CPUs, NEW p \in Slots, TimerYield(c, p) PROVE PidsDistinct'
  BY <1>1, <1>7, OnIsRunning DEF TimerYield, On
<1>8. ASSUME NEW c \in CPUs, NEW p \in Slots, NEW q \in Slots, ForkAlloc(c, p, q) PROVE PidsDistinct'
  <2>1. state[q] = "UNUSED"
    BY <1>8 DEF ForkAlloc, First
  <2>2. state[p] = "RUNNING"
    BY <1>8, OnIsRunning DEF ForkAlloc, SyscallFrom, At, On
  <2>3. nextpid > 1
    BY <1>1, <2>2
  <2>4. \A r \in Slots : state'[r] # "UNUSED" =>
          IF r = q THEN pid'[r] = nextpid
          ELSE state[r] # "UNUSED" /\ pid'[r] = pid[r] /\ pid[r] \in 1 .. nextpid - 1
    BY <1>1, <1>8 DEF ForkAlloc
  <2>5. nextpid' = nextpid + 1
    BY <1>8 DEF ForkAlloc
  <2>. QED
    BY <1>1, <2>3, <2>4, <2>5
<1>9. ASSUME NEW c \in CPUs, NEW p \in Slots, NEW q \in Slots, ForkFail(c, p, q) PROVE PidsDistinct'
  BY <1>1, <1>9, ForkOnEmbryo DEF ForkFail, At, On
<1>10. ASSUME NEW c \in CPUs, NEW p \in Slots, NEW q \in Slots, ForkCopy(c, p, q) PROVE PidsDistinct'
  BY <1>1, <1>10, ForkOnEmbryo DEF ForkCopy, At, On
<1>11. ASSUME NEW c \in CPUs, NEW p \in Slots, NEW q \in Slots, ForkRunnable(c, p, q) PROVE PidsDistinct'
  BY <1>1, <1>11, ForkOnEmbryo DEF ForkRunnable, At, On
<1>12. ASSUME NEW c \in CPUs, NEW p \in Slots, Exit(c, p) PROVE PidsDistinct'
  BY <1>1, <1>12, OnIsRunning DEF Exit, At, On, wakeup1
<1>13. ASSUME NEW c \in CPUs, NEW p \in Slots, NEW q \in Slots, WaitReap(c, p, q) PROVE PidsDistinct'
  BY <1>1, <1>13 DEF WaitReap, WaitReturn, InWait, At, On, First, ZombieChildren, Children
<1>14. ASSUME NEW c \in CPUs, NEW p \in Slots, WaitSleep(c, p) PROVE PidsDistinct'
  BY <1>1, <1>14, OnIsRunning DEF WaitSleep, InWait, At, On
<1>15. ASSUME NEW c \in CPUs, NEW p \in Slots, Sleep(c, p) PROVE PidsDistinct'
  BY <1>1, <1>15, OnIsRunning DEF Sleep, At, On
<1>16. ASSUME NEW c \in CPUs, NEW p \in Slots, Kill(c, p) PROVE PidsDistinct'
  BY <1>1, <1>16 DEF Kill, First
<1> HIDE DEF PidsDistinct
<1>. QED
  BY <1>2, <1>3, <1>4, <1>5, <1>6, <1>7, <1>8, <1>9, <1>10, <1>11, <1>12, <1>13, <1>14, <1>15, <1>16, QuietSteps DEF TableStep

\* With ptable.lock held by the second loop, nobody adds a RUNNABLE
\* process of priority 1.
LEMMA LowLoopStep ==
  TypeOK /\ Core /\ LowLoop /\ [Next]_vars => LowLoop'
<1> SUFFICES ASSUME TypeOK, Core, LowLoop, [Next]_vars PROVE LowLoop'
  OBVIOUS
<1> USE DEF LowLoop, HighPriority, Runnable
<1>t. /\ state \in [Slots -> procstate] /\ priority \in [Slots -> 0 .. 1]
      /\ cpc \in [CPUs -> {"idle", "hp", "lp", "run", "rel"}]
  BY DEF TypeOK
<1>l. /\ \A c \in CPUs : cpc[c] = "lp" => lock = c
      /\ NoCPU \notin CPUs
  BY NoHolder DEF Core, LockHandover
<1>0. CASE UNCHANGED vars
  BY <1>0 DEF vars, table, sched
<1>1. ASSUME NEW c \in CPUs, SchedAcquire(c) PROVE LowLoop'
  BY <1>1, <1>t, <1>l DEF SchedAcquire, table, sched, thread
<1>2. ASSUME NEW c \in CPUs, HpScanEnd(c) PROVE LowLoop'
  BY <1>2, <1>t, <1>l DEF HpScanEnd, table, sched, thread
<1>3. ASSUME NEW c \in CPUs, SchedRelease(c) PROVE LowLoop'
  BY <1>3, <1>t, <1>l DEF SchedRelease, table, sched, thread
<1>4. ASSUME NEW c \in CPUs, Wakeup(c) PROVE LowLoop'
  BY <1>4, <1>t, <1>l DEF Wakeup, table, sched, thread, On, Interruptible, wakeup1
<1>5. ASSUME NEW c \in CPUs, NEW p \in Slots, HpDispatch(c, p) PROVE LowLoop'
  BY <1>5, <1>t, <1>l DEF HpDispatch, First, HighPriority, Runnable, Dispatch
<1>6. ASSUME NEW c \in CPUs, NEW p \in Slots, LpDispatch(c, p) PROVE LowLoop'
  BY <1>6, <1>t, <1>l DEF LpDispatch, First, Runnable, Dispatch
<1>7. ASSUME NEW c \in CPUs, NEW p \in Slots, Resume(c, p) PROVE LowLoop'
  BY <1>7, <1>t, <1>l DEF Resume
<1>8. ASSUME NEW c \in CPUs, NEW p \in Slots, TimerYield(c, p) PROVE LowLoop'
  BY <1>8, <1>t, <1>l DEF TimerYield, On, Sched
<1>9. ASSUME NEW c \in CPUs, NEW p \in Slots, KilledExit(c, p) PROVE LowLoop'
  BY <1>9, <1>t, <1>l DEF KilledExit, table, sched, thread, At, On
<1>10. ASSUME NEW c \in CPUs, NEW p \in Slots, UserFault(c, p) PROVE LowLoop'
  BY <1>10, <1>t, <1>l DEF UserFault, table, sched, thread, At, On
<1>11. ASSUME NEW c \in CPUs, NEW p \in Slots, SysEnter(c, p) PROVE LowLoop'
  BY <1>11, <1>t, <1>l DEF SysEnter, table, sched, thread, SyscallFrom, At, On
<1>12. ASSUME NEW c \in CPUs, NEW p \in Slots, NEW np \in Slots, ForkAlloc(c, p, np)
      PROVE  LowLoop'
  BY <1>12, <1>t, <1>l DEF ForkAlloc, table, sched, thread, SyscallFrom, At, On, First
<1>13. ASSUME NEW c \in CPUs, NEW p \in Slots, NEW np \in Slots, ForkFail(c, p, np)
      PROVE  LowLoop'
  BY <1>13, <1>t, <1>l DEF ForkFail, table, sched, thread, At, On
<1>14. ASSUME NEW c \in CPUs, NEW p \in Slots, NEW np \in Slots, ForkCopy(c, p, np)
      PROVE  LowLoop'
  BY <1>14, <1>t, <1>l, ForkOnEmbryo DEF ForkCopy, table, sched, thread, At, On
<1>15. ASSUME NEW c \in CPUs, NEW p \in Slots, NEW np \in Slots, ForkRunnable(c, p, np)
      PROVE  LowLoop'
  BY <1>15, <1>t, <1>l DEF ForkRunnable, table, sched, thread, At, On
<1>16. ASSUME NEW c \in CPUs, NEW p \in Slots, Exit(c, p) PROVE LowLoop'
  BY <1>16, <1>t, <1>l DEF Exit, At, On, Sched, wakeup1, ExitWakes
<1>17. ASSUME NEW c \in CPUs, NEW p \in Slots, ExitInit(c, p) PROVE LowLoop'
  BY <1>17, <1>t, <1>l DEF ExitInit, table, sched, thread, At, On
<1>18. ASSUME NEW c \in CPUs, NEW p \in Slots, Panicked(c, p) PROVE LowLoop'
  BY <1>18, <1>t, <1>l DEF Panicked, table, sched, thread, At, On, vars
<1>19. ASSUME NEW c \in CPUs, NEW p \in Slots, NEW z \in Slots, WaitReap(c, p, z) PROVE LowLoop'
  BY <1>19, <1>t, <1>l DEF WaitReap, InWait, At, On, First, ZombieChildren, Children,
      WaitReturn
<1>20. ASSUME NEW c \in CPUs, NEW p \in Slots, WaitNone(c, p) PROVE LowLoop'
  BY <1>20, <1>t, <1>l DEF WaitNone, InWait, At, On, WaitReturn
<1>21. ASSUME NEW c \in CPUs, NEW p \in Slots, WaitSleep(c, p) PROVE LowLoop'
  BY <1>21, <1>t, <1>l DEF WaitSleep, InWait, At, On, Sched
<1>22. ASSUME NEW c \in CPUs, NEW p \in Slots, BlockCheck(c, p) PROVE LowLoop'
  BY <1>22, <1>t, <1>l DEF BlockCheck, table, sched, thread, At, On
<1>23. ASSUME NEW c \in CPUs, NEW p \in Slots, BlockDone(c, p) PROVE LowLoop'
  BY <1>23, <1>t, <1>l DEF BlockDone, table, sched, thread, At, On
<1>24. ASSUME NEW c \in CPUs, NEW p \in Slots, Sleep(c, p) PROVE LowLoop'
  BY <1>24, <1>t, <1>l DEF Sleep, At, On, Sched
<1>25. ASSUME NEW c \in CPUs, NEW p \in Slots, Kill(c, p) PROVE LowLoop'
  BY <1>25, <1>t, <1>l DEF Kill, table, sched, thread, SyscallFrom, At, On
<1>26. ASSUME NEW c \in CPUs, NEW p \in Slots, Settickets(c, p) PROVE LowLoop'
  BY <1>26, <1>t, <1>l DEF Settickets, table, sched, thread, SyscallFrom, At, On
<1> HIDE DEF LowLoop, HighPriority, Runnable
<1>. QED
  BY <1>0, <1>1, <1>2, <1>3, <1>4, <1>5, <1>6, <1>7, <1>8, <1>9, <1>10, <1>11, <1>12, <1>13,
      <1>14, <1>15, <1>16, <1>17, <1>18, <1>19, <1>20, <1>21, <1>22, <1>23, <1>24, <1>25,
      <1>26 DEF Next, SchedulerStep, KernelStep, UserStep

-----------------------------------------------------------------------------
(* The theorems *)

\* The inductive step, from its parts.
LEMMA InvStep == Inv /\ [Next]_vars => Inv'
  BY TypeStep, CoreStep, ResourcesStep, ReapingStep, PidsStep, LowLoopStep DEF Inv

\* The inductive invariant holds in every reachable state of the process
\* table, for every NPROC and every set of CPUs.
THEOREM Invariance == Spec => []Inv
<1>1. Init => Inv
  BY TypeInit, CoreInit, LifeInit DEF Inv
<1>. QED
  BY <1>1, InvStep, PTL DEF Spec

\* swtch never leaves a process on two CPUs, nor a RUNNING one on none.
THEOREM RunsOnOneCpu == Spec => []OneCpuPerProcess
<1>1. Inv => OneCpuPerProcess
  BY DEF Inv, Core
<1>. QED
  BY <1>1, Invariance, PTL

\* ptable.lock passes through swtch from scheduler() to the process and back.
THEOREM LockIsHandedOver == Spec => []LockHandover
<1>1. Inv => LockHandover
  BY DEF Inv, Core
<1>. QED
  BY <1>1, Invariance, PTL

\* switchuvm() finds a kernel stack and a page directory.
THEOREM DispatchableOwnsResources == Spec => []ResourcesOwned
<1>1. Inv => ResourcesOwned
  BY DEF Inv
<1>. QED
  BY <1>1, Invariance, PTL

\* exit() leaves no process without a parent that can reap it.
THEOREM ReaperExists == Spec => []EveryProcessHasAReaper
<1>1. Inv => EveryProcessHasAReaper
  BY DEF Inv, Reaping
<1>. QED
  BY <1>1, Invariance, PTL

\* wait() and exit() lose no wakeup, wait() and kill() neither.
THEOREM WaitNeverStuck == Spec => []WaitSleepsForAReason
<1>1. Inv => WaitSleepsForAReason
  BY DEF Inv, Reaping, WaitSleepsForAReason
<1>. QED
  BY <1>1, Invariance, PTL

\* getpinfo() never reports two processes under one pid.
THEOREM PinfoReportsDistinctPids == Spec => []PinfoPidsDistinct
<1>1. Inv => PinfoPidsDistinct
  BY DEF Inv, PidsDistinct, PinfoPidsDistinct, getpinfo
<1>. QED
  BY <1>1, Invariance, PTL

\* Nothing but the two loops of scheduler() makes a RUNNABLE process RUNNING.
LEMMA OnlySchedulerRuns ==
  ASSUME TypeOK, Next, NEW q \in Slots, state[q] = "RUNNABLE", state'[q] = "RUNNING"
  PROVE  \E c \in CPUs, p \in Slots : HpDispatch(c, p) \/ LpDispatch(c, p)
<1> SUFFICES ASSUME \A c \in CPUs, p \in Slots : ~HpDispatch(c, p) /\ ~LpDispatch(c, p)
             PROVE  FALSE
  OBVIOUS
<1>1. PICK c \in CPUs : SchedulerStep(c) \/ Wakeup(c)
        \/ \E p \in Slots : Resume(c, p) \/ KernelStep(c, p) \/ UserStep(c, p) \/
            TimerYield(c, p)
  BY DEF Next
<1>2. ~SchedulerStep(c) /\ ~Wakeup(c)
  BY DEF SchedulerStep, SchedAcquire, HpScanEnd, SchedRelease, Wakeup, wakeup1, TypeOK, table
<1>3. PICK p \in Slots :
        Resume(c, p) \/ KernelStep(c, p) \/ UserStep(c, p) \/ TimerYield(c, p)
  BY <1>1, <1>2
<1>4. ~Resume(c, p) /\ ~TimerYield(c, p)
  BY DEF Resume, TimerYield, TypeOK
<1>5. ~KernelStep(c, p)
  <2>1. ASSUME NEW np \in Slots PROVE ~(ForkFail(c, p, np) \/ ForkCopy(c, p, np))
    BY DEF ForkFail, ForkCopy, TypeOK
  <2>2. ASSUME NEW np \in Slots PROVE ~ForkRunnable(c, p, np)
    BY DEF ForkRunnable, TypeOK
  <2>3. ~(KilledExit(c, p) \/ ExitInit(c, p) \/ Panicked(c, p))
    BY DEF KilledExit, ExitInit, Panicked, vars, table
  <2>4. ~Exit(c, p)
    BY DEF Exit, wakeup1, TypeOK
  <2>5. ASSUME NEW z \in Slots PROVE ~WaitReap(c, p, z)
    BY DEF WaitReap, TypeOK
  <2>6. ~(WaitNone(c, p) \/ WaitSleep(c, p))
    BY DEF WaitNone, WaitSleep, TypeOK, table
  <2>7. ~(BlockCheck(c, p) \/ BlockDone(c, p) \/ Sleep(c, p))
    BY DEF BlockCheck, BlockDone, Sleep, TypeOK, table
  <2>. QED
    BY <2>1, <2>2, <2>3, <2>4, <2>5, <2>6, <2>7 DEF KernelStep
<1>6. ~UserStep(c, p)
  <2>1. ASSUME NEW np \in Slots PROVE ~ForkAlloc(c, p, np)
    BY DEF ForkAlloc, TypeOK
  <2>2. ~(UserFault(c, p) \/ SysEnter(c, p) \/ Settickets(c, p))
    BY DEF UserFault, SysEnter, Settickets, table
  <2>3. ~Kill(c, p)
    <3>1. state \in [Slots -> procstate]
      BY DEF TypeOK
    <3>. QED
      BY <3>1 DEF Kill
  <2>. QED
    BY <2>1, <2>2, <2>3 DEF UserStep
<1>. QED
  BY <1>3, <1>4, <1>5, <1>6

\* A process of priority 0 is dispatched only past an empty set of RUNNABLE
\* processes of priority 1, on any number of CPUs.
THEOREM PriorityIsStrict == Spec => StrictPriority
<1> DEFINE Step ==
      \A p \in Slots :
        state[p] = "RUNNABLE" /\ state'[p] = "RUNNING" /\ priority[p] = 0
          => HighPriority = {}
<1>1. Inv /\ [Next]_vars => [Step]_vars
  <2> SUFFICES ASSUME Inv, Next, NEW q \in Slots, state[q] = "RUNNABLE",
                      state'[q] = "RUNNING", priority[q] = 0
               PROVE  HighPriority = {}
    OBVIOUS
  <2>1. \E c \in CPUs, p \in Slots : HpDispatch(c, p) \/ LpDispatch(c, p)
    BY OnlySchedulerRuns DEF Inv
  <2>2. PICK c \in CPUs, p \in Slots : HpDispatch(c, p) \/ LpDispatch(c, p)
    BY <2>1
  <2>3. q = p
    BY <2>2 DEF Inv, TypeOK, HpDispatch, LpDispatch, Dispatch
  <2>4. CASE HpDispatch(c, p)
    <3>1. priority[p] = 1
      BY <2>4 DEF HpDispatch, First, HighPriority
    <3>. QED
      BY <2>3, <3>1
  <2>5. CASE LpDispatch(c, p)
    BY <2>5 DEF LpDispatch, Inv, LowLoop
  <2>. QED
    BY <2>2, <2>4, <2>5
<1>. QED
  BY <1>1, Invariance, PTL DEF Spec, StrictPriority
=============================================================================
