-------------------------------- MODULE Clock -------------------------------
(***************************************************************************)
(* The timer interrupt of trap() on CPU 0, and sys_sleep().  ticks is an   *)
(* unsigned int that wraps around, and so is the difference that the loop  *)
(* compares with n, which the comparison makes unsigned too.               *)
(***************************************************************************)
EXTENDS Integers

CONSTANTS
  Procs,
  TickMod,   \* 2^32
  Sleeps     \* what programs ask for

VARIABLES
  ticks,
  pc, killed,
  t0, want,   \* ticks0 and n of sys_sleep()
  elapsed     \* history: ticks since then, at most TickMod

clock == <<ticks, t0, want, elapsed>>

ClockInit ==
  /\ ticks = TickMod - 1   \* about to wrap around
  /\ t0 = [p \in Procs |-> 0] /\ want = t0 /\ elapsed = t0

\* tickslock is free: nobody is in the loop of sys_sleep().
Unlocked == \A p \in Procs : pc[p] \notin {"tickloop", "tickslp"}

\* acquire(&tickslock), ticks0 = ticks.
CallSleep(p, n) ==
  /\ pc[p] = "out" /\ ~killed[p] /\ Unlocked
  /\ pc' = [pc EXCEPT ![p] = "tickloop"]
  /\ t0' = [t0 EXCEPT ![p] = ticks]
  /\ want' = [want EXCEPT ![p] = n % TickMod]
  /\ UNCHANGED <<ticks, killed, elapsed>>

\* Mutant: the end is computed first, and compared.
DueAt(p) == ticks >= (t0[p] + want[p]) % TickMod

\* !(ticks - ticks0 < n)
Due(p) == (ticks + TickMod - t0[p]) % TickMod >= want[p]

\* The loop of sys_sleep(): it returns, or is on its way to sleep().
SleepLoop(p) ==
  /\ pc[p] = "tickloop"
  /\ IF Due(p) \/ killed[p]
       THEN /\ pc' = [pc EXCEPT ![p] = "out"]
            /\ t0' = [t0 EXCEPT ![p] = 0] /\ want' = [want EXCEPT ![p] = 0]
            /\ elapsed' = [elapsed EXCEPT ![p] = 0]
       ELSE pc' = [pc EXCEPT ![p] = "tickslp"] /\ UNCHANGED <<t0, want, elapsed>>
  /\ UNCHANGED <<ticks, killed>>

\* sleep(&ticks, &tickslock)
SleepOnTicks(p) ==
  /\ pc[p] = "tickslp"
  /\ pc' = [pc EXCEPT ![p] = "tickasleep"]
  /\ UNCHANGED <<clock, killed>>

\* The end of sleep(): acquire(&tickslock).
SleepReturns(p) ==
  /\ pc[p] = "ticking" /\ Unlocked
  /\ pc' = [pc EXCEPT ![p] = "tickloop"]
  /\ UNCHANGED <<clock, killed>>

TickWakes == [p \in Procs |-> IF pc[p] = "tickasleep" THEN "ticking" ELSE pc[p]]

InSleep(p) == pc[p] \in {"tickloop", "tickslp", "tickasleep", "ticking"}

\* IRQ_TIMER.
Tick ==
  /\ Unlocked
  /\ ticks' = (ticks + 1) % TickMod
  /\ pc' = TickWakes
  /\ elapsed' = [p \in Procs |-> IF InSleep(p) /\ elapsed[p] < TickMod THEN elapsed[p] + 1 ELSE elapsed[p]]
  /\ UNCHANGED <<killed, t0, want>>

\* No tick is missed: who sleeps in sys_sleep() has to.
SleeperNotDue == \A p \in Procs : pc[p] = "tickasleep" => ~Due(p)
=============================================================================
