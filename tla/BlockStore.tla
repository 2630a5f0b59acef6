----------------------------- MODULE BlockStore -----------------------------
(***************************************************************************)
(* What the buffer cache and the disk driver promise to the rest of the    *)
(* kernel: a block has one value, one process at a time has it, and only   *)
(* that process changes it.                                                *)
(***************************************************************************)
CONSTANTS Procs, Blocks, Vals, None

VARIABLES
  val,    \* the value of each block
  owner   \* the process between its bread() and its brelse() of the block

Init ==
  /\ val \in [Blocks -> Vals]
  /\ owner = [b \in Blocks |-> None]

Get(p, b) ==
  /\ owner[b] = None
  /\ owner' = [owner EXCEPT ![b] = p]
  /\ UNCHANGED val

Put(p, b, v) ==
  /\ owner[b] = p
  /\ val' = [val EXCEPT ![b] = v]
  /\ UNCHANGED owner

\* The owner gives the block back, with a last value.
Release(p, b, v) ==
  /\ owner[b] = p
  /\ val' = [val EXCEPT ![b] = v]
  /\ owner' = [owner EXCEPT ![b] = None]

Next ==
  \E p \in Procs, b \in Blocks :
    \/ Get(p, b)
    \/ \E v \in Vals : Put(p, b, v) \/ Release(p, b, v)

Spec == Init /\ [][Next]_<<val, owner>>
=============================================================================
