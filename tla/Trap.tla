-------------------------------- MODULE Trap --------------------------------
(***************************************************************************)
(* The device interrupts that trap() dispatches, and the processes that    *)
(* wait for them and may be killed: the console's lines and the timer.     *)
(* The two share no data, only what kill() does to a sleeper; a behaviour  *)
(* has the interrupts of one or several devices.                           *)
(***************************************************************************)
EXTENDS Console

CONSTANTS
  TickMod, Sleeps,
  Devices   \* the sets of devices to look at together

VARIABLES
  busy,     \* the devices of this behaviour
  ticks, t0, want, elapsed

C == INSTANCE Clock

clock == <<ticks, t0, want, elapsed>>
all == <<vars, busy, clock>>

TrapInit == Init /\ C!ClockInit /\ busy \in Devices

ConsoleCall(p) == CallRead(p) \/ CallWrite(p) \/ CallCprintf(p)

\* IRQ_KBD, IRQ_COM1 and the calls of console.c.
ConsoleStep ==
  /\ "console" \in busy
  /\ Interrupts \/ \E p \in Procs : ConsoleCall(p) \/ ProcStep(p) \/ Panic(p)
  /\ UNCHANGED <<busy, clock>>

\* IRQ_TIMER and sys_sleep().
ClockStep ==
  /\ "timer" \in busy
  /\ \/ C!Tick
     \/ \E p \in Procs : \/ \E k \in Sleeps : C!CallSleep(p, k)
                         \/ C!SleepLoop(p) \/ C!SleepOnTicks(p) \/ C!SleepReturns(p)
  /\ UNCHANGED <<busy, cons, locking, halted, input, pos, keyboard, dump, calls, owed>>

Killing == (\E p \in Procs : Kill(p) \/ Exit(p)) /\ UNCHANGED <<busy, clock>>

TrapNext == ConsoleStep \/ ClockStep \/ Killing

TrapSpec ==
  /\ TrapInit /\ [][TrapNext]_all
  /\ \A p \in Procs : WF_all(ProcStep(p) /\ UNCHANGED <<busy, clock>>)

\* No lost wakeup in sys_sleep(): whoever is asleep on ticks is not due, whatever
\* came between its test and sleep(), and also after ticks has wrapped around.
TickSleepersNotDue == C!SleeperNotDue

\* sys_sleep(n) returns 0 after at least n ticks, also when ticks wraps around
\* meanwhile.
SleepsEnough ==
  [][\A p \in Procs : C!InSleep(p) /\ pc'[p] = "out" /\ ~killed[p] => elapsed[p] >= want[p]]_all
=============================================================================
