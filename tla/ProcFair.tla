------------------------------ MODULE ProcFair ------------------------------
(***************************************************************************)
(* What the scheduler of proc.c gives each process in the end, under the   *)
(* fairness of hardware and of straight-line code, with init.c as the      *)
(* program of the first process.                                           *)
(***************************************************************************)
EXTENDS ProcRobin

\* The main loop of init.c: it forks and waits, and does not change its
\* priority.  It exits only if fork() fails, which is assumed not to happen.
InitProgram ==
  /\ kpc[initproc] = "user" => kpc'[initproc] \in {"user", "fork1", "wait"}
  /\ kpc[initproc] = "fork1" => kpc'[initproc] # "user"
  /\ priority'[initproc] = priority[initproc]

InitWaits(c) == SysEnter(c, initproc) /\ kpc'[initproc] = "wait"

\* A CPU does not stop (weak fairness).  A timer interrupt stays pending in
\* the local APIC until the CPU can take it, and a process that gets the CPU
\* again and again executes its next kernel step some time, a time slice being
\* longer than one step (strong fairness).  User programs other than init owe
\* nothing.
Fairness ==
  \A c \in CPUs :
    /\ WF_vars(SchedulerStep(c))
    /\ \A p \in Slots : /\ SF_vars(TimerYield(c, p)) /\ WF_vars(Resume(c, p))
                        /\ SF_vars(KernelStep(c, p))
    /\ SF_vars(InitWaits(c))

FairSpec == HInit /\ [][HNext /\ InitProgram]_<<vars, seen>> /\ Fairness

-----------------------------------------------------------------------------
\* A RUNNABLE process of priority 1 is dispatched some time, whatever the
\* others do.
HighPriorityRuns ==
  \A p \in Slots : (state[p] = "RUNNABLE" /\ priority[p] = 1) ~> (state[p] = "RUNNING")

\* A RUNNABLE process is not passed over for ever while it is the one the
\* second loop of scheduler() would take: it can only starve behind
\* priority 1 or behind a lower slot.
LowPriorityRuns ==
  \A p \in Slots :
    []<>(\/ state[p] # "RUNNABLE"
         \/ HighPriority # {}
         \/ \E q \in Runnable : q < p)

\* A child that exits while its parent is init, or is passed to init by
\* exit(), is reaped: its slot, stack and page directory come back.
OrphansReaped ==
  \A p \in Slots \ {initproc} :
    (state[p] = "ZOMBIE" /\ parent[p] = initproc) ~> (state[p] = "UNUSED")
=============================================================================
