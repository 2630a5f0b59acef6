--------------------------- MODULE LineDiscipline ---------------------------
(***************************************************************************)
(* What the console promises its readers: the characters that were typed,  *)
(* without those taken back before the line was finished, each once and in *)
(* order.  A line is finished by a newline, by ^D, or because no more fits. *)
(***************************************************************************)
EXTENDS Integers, Sequences

CONSTANTS INPUT_BUF, Text   \* Text: the characters that can be read

VARIABLES
  ready,   \* finished lines that nobody has read
  line     \* the line that is being typed

Init == ready = <<>> /\ line = <<>>

Finishes(c) == c \in {"nl", "D"} \/ Len(ready) + Len(line) + 1 = INPUT_BUF

Type(c) ==
  /\ Len(ready) + Len(line) < INPUT_BUF
  /\ IF Finishes(c)
       THEN ready' = ready \o Append(line, c) /\ line' = <<>>
       ELSE line' = Append(line, c) /\ UNCHANGED ready

Erase ==
  /\ line # <<>>
  /\ line' = SubSeq(line, 1, Len(line) - 1) /\ UNCHANGED ready

KillLine == line' = <<>> /\ UNCHANGED ready

Read == ready # <<>> /\ ready' = Tail(ready) /\ UNCHANGED line

Next == (\E c \in Text : Type(c)) \/ Erase \/ KillLine \/ Read

Spec == Init /\ [][Next]_<<ready, line>>
=============================================================================
