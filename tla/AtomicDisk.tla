----------------------------- MODULE AtomicDisk -----------------------------
(***************************************************************************)
(* What log.c promises the file system: block writes made between          *)
(* begin_op() and end_op() reach the disk all together or not at all.      *)
(***************************************************************************)
CONSTANTS Procs, Blocks, Vals

VARIABLES
  stable,   \* what a reboot would find, block by block
  mem,      \* what system calls read now
  active    \* processes inside an operation

Begin(p) ==
  /\ p \notin active
  /\ active' = active \cup {p}
  /\ UNCHANGED <<stable, mem>>

Write(p, b, v) ==
  /\ p \in active
  /\ mem' = [mem EXCEPT ![b] = v]
  /\ UNCHANGED <<stable, active>>

End(p) ==
  /\ p \in active
  /\ active' = active \ {p}
  /\ UNCHANGED <<stable, mem>>

\* Everything written so far becomes durable, and no operation is half done.
Commit ==
  /\ active = {}
  /\ stable' = mem
  /\ UNCHANGED <<mem, active>>

Crash ==
  /\ mem' = stable
  /\ active' = {}
  /\ UNCHANGED stable

Init ==
  /\ stable \in [Blocks -> Vals]
  /\ mem = stable
  /\ active = {}

Next ==
  \/ \E p \in Procs : Begin(p) \/ End(p) \/ \E b \in Blocks, v \in Vals : Write(p, b, v)
  \/ Commit
  \/ Crash

Spec == Init /\ [][Next]_<<stable, mem, active>>
=============================================================================
