----------------------------- MODULE ByteStream -----------------------------
(***************************************************************************)
(* What a pipe promises: a bounded queue of bytes.  A writer appends, a    *)
(* reader takes the oldest bytes, and the end of the stream is seen only   *)
(* when nothing is left and no writer is.                                  *)
(***************************************************************************)
EXTENDS Integers, Sequences

CONSTANTS Readers, Vals, PIPESIZE

VARIABLES
  queue,
  open,  \* some process can still write
  got    \* what each reader's last read returned

Init ==
  /\ queue = <<>> /\ open = TRUE
  /\ got = [r \in Readers |-> <<>>]

Put ==
  /\ open = TRUE
  /\ \E n \in 1 .. PIPESIZE - Len(queue) : \E s \in [1 .. n -> Vals] : queue' = queue \o s
  /\ UNCHANGED <<open, got>>

\* A read returns nothing only at the end of the stream.
Get(r) ==
  \E n \in 0 .. Len(queue) :
    /\ n = 0 => queue = <<>> /\ open = FALSE
    /\ got' = [got EXCEPT ![r] = SubSeq(queue, 1, n)]
    /\ queue' = SubSeq(queue, n + 1, Len(queue))
    /\ UNCHANGED open

Close == open' = FALSE /\ UNCHANGED <<queue, got>>

Next == Put \/ Close \/ \E r \in Readers : Get(r)

Spec == Init /\ [][Next]_<<queue, open, got>>
=============================================================================
