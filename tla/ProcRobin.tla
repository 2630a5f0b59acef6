------------------------------ MODULE ProcRobin -----------------------------
(***************************************************************************)
(* Proc with a history variable: who was dispatched while a high-priority  *)
(* process waited for the CPU.                                             *)
(***************************************************************************)
EXTENDS Proc

VARIABLE seen   \* seen[p]: processes dispatched since p began to wait at priority 1

Waiting(p) == state[p] = "RUNNABLE" /\ priority[p] = 1
Dispatched == {q \in Slots : state[q] # "RUNNING" /\ state'[q] = "RUNNING"}

HInit == Init /\ seen = [p \in Slots |-> {}]

HNext ==
  /\ Next
  /\ seen' = [p \in Slots |-> IF Waiting(p) /\ Waiting(p)' THEN seen[p] \cup Dispatched ELSE {}]

HSpec == HInit /\ [][HNext]_<<vars, seen>>

\* On one CPU the high-priority loop is a round robin: while p waits at
\* priority 1, no process is dispatched twice.
RoundRobin ==
  [][\A p \in Slots : Waiting(p) => Dispatched \cap seen[p] = {}]_<<vars, seen>>
=============================================================================
