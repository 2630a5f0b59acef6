------------------------------ MODULE MCTrap -----------------------------
(* Console and clock on a small instance. *)
EXTENDS Trap

CONSTANTS p1, p2

\* Ctl is prefixed on the right side of the keyboard.
SomeKeys == {[key |-> "ctl", ext |-> TRUE], [key |-> "d", ext |-> FALSE]}
SomeCalls == [p \in Procs |-> IF p = p1 THEN {"read", "cprintf"} ELSE {"read", "write", "panic"}]
\* One at a time: together they have too many states, and share nothing.
EachDevice == {{"console"}, {"timer"}}
\* -1 becomes the largest unsigned number.
SomeSleeps == {-1, 1, 2}
=============================================================================
