------------------------------ MODULE Console -------------------------------
(***************************************************************************)
(* console.c, uart.c and kbd.c: input through a ring that interrupts fill  *)
(* and readers empty, output to a screen with a cursor, and panic().       *)
(*                                                                         *)
(* cons.lock is a variable: a reader or a writer keeps it from one step to *)
(* the next, one character of consoleintr() is one step.  Characters are   *)
(* classes: "x" is any letter, "U" and so on are control characters.       *)
(***************************************************************************)
EXTENDS Integers, Sequences, FiniteSets

CONSTANTS
  Procs,
  INPUT_BUF,
  IdxMod,          \* modulus of input.r, input.w, input.e (2^32)
  Chars,           \* what the serial line brings
  Keys,            \* keys of the keyboard, prefixed or not
  ROWS, COLS,      \* the screen: 25 and 80
  ReadSizes,       \* what programs ask for
  May,             \* per process: which calls it makes
  None

ASSUME ConsoleAssumption ==
  /\ INPUT_BUF \in Nat \ {0} /\ IdxMod > INPUT_BUF /\ IdxMod % INPUT_BUF = 0
  /\ ROWS > 1 /\ COLS > 0 /\ ReadSizes \subseteq Nat

VARIABLES
  cons, locking,       \* who has cons.lock; cons.locking
  halted,              \* the variable panicked
  r, w, e, buf,        \* input
  pos,                 \* cursor
  shift, pending,      \* kbdgetc()'s shift; the byte that follows an E0
  down,                \* history: modifier keys that are held down
  dump,                \* procdump() is still to be called
  pc, killed,
  n, target,           \* per process: variables of its call
  owed                 \* history: ^D that have not been read as a 0-byte result

input == <<r, w, e, buf>>
keyboard == <<shift, pending, down>>
calls == <<n, target>>
vars == <<cons, locking, halted, input, pos, keyboard, dump, pc, killed, calls, owed>>

Frozen == "frozen"   \* held cons.lock when the machine stopped

\* Enter and the key of a letter, with and without Ctl.
charcode(mods, key) ==
  CASE key = "enter" -> "cr"
    [] key = "d" -> IF "CTL" \in mods THEN "D" ELSE "x"
    [] OTHER -> "nul"

K == INSTANCE Kbd

Init ==
  /\ cons = None /\ locking = TRUE /\ halted = FALSE
  /\ r = 0 /\ w = 0 /\ e = 0 /\ buf = [i \in 0 .. INPUT_BUF - 1 |-> "nul"]
  /\ pos \in {0, ROWS * COLS - 1}   \* wherever the boot messages end
  /\ shift = {} /\ pending = <<>> /\ down = {}
  /\ dump = FALSE
  /\ pc = [p \in Procs |-> "out"] /\ killed = [p \in Procs |-> FALSE]
  /\ n = [p \in Procs |-> 0] /\ target = [p \in Procs |-> 0]
  /\ owed = 0

Inc(i) == (i + 1) % IdxMod
Dec(i) == (i + IdxMod - 1) % IdxMod
Minus(i, j) == (i + IdxMod - j) % IdxMod
Goto(p, l) == pc' = [pc EXCEPT ![p] = l]

-----------------------------------------------------------------------------
(* Output *)

Scrolls(q) == q \div COLS >= ROWS - 1

\* cgaputc(): the cursor after c, before and after scrolling.
Moved(q, c) ==
  CASE c = "nl" -> q + COLS - (q % COLS)
    [] c = "backspace" -> IF q > 0 THEN q - 1 ELSE q
    [] OTHER -> q + 1
cgaputc(q, c) == IF Scrolls(Moved(q, c)) THEN Moved(q, c) - COLS ELSE Moved(q, c)

\* consputc() of one character, or of k backspaces.
Echo(c) == pos' = cgaputc(pos, c)
Backspaced[k \in 0 .. INPUT_BUF] == IF k = 0 THEN pos ELSE cgaputc(Backspaced[k - 1], "backspace")

-----------------------------------------------------------------------------
(* consoleintr() *)

\* Mutant: wakeup(&input.r) is left out.
WokenNobody == pc

\* wakeup(&input.r)
Woken == [p \in Procs |-> IF pc[p] = "asleep" THEN "woken" ELSE pc[p]]

\* A line is finished, or the ring is full with c in it.
Commits(c) == c \in {"nl", "D"} \/ Inc(e) = (r + INPUT_BUF) % IdxMod

Room == Minus(e, r) < INPUT_BUF

\* Mutant: backspace goes back into finished lines.
ErasableRead == e # r

Erasable == e # w

Newline(c) == IF c = "cr" THEN "nl" ELSE c

\* The default case: store, echo, commit.
Store(c) ==
  LET d == Newline(c)
  IN IF c # "nul" /\ Room
       THEN /\ buf' = [buf EXCEPT ![e % INPUT_BUF] = d]
            /\ e' = Inc(e)
            /\ Echo(d)
            /\ IF Commits(d) THEN w' = Inc(e) /\ pc' = Woken ELSE UNCHANGED <<w, pc>>
            /\ owed' = IF d = "D" THEN owed + 1 ELSE owed
            /\ UNCHANGED <<r, dump>>
       ELSE UNCHANGED <<input, pos, pc, dump, owed>>

\* The cells of the ring between two indices.  One that has been read or erased is
\* never looked at again before it is written: the model clears it.
Cells(i, j) == {(i + k) % INPUT_BUF : k \in 0 .. Minus(j, i) - 1}

\* The switch of consoleintr().  An uncommitted line has no newline in it and
\* no ^D, so ^U goes back to input.w.
Char(c) ==
  CASE c = "P" -> dump' = TRUE /\ UNCHANGED <<input, pos, pc, owed>>
    [] c = "U" -> /\ e' = w /\ pos' = Backspaced[Minus(e, w)]
                  /\ buf' = [i \in DOMAIN buf |-> IF i \in Cells(r, w) THEN buf[i] ELSE "nul"]
                  /\ UNCHANGED <<r, w, pc, dump, owed>>
    [] c = "H" -> IF Erasable
                    THEN /\ e' = Dec(e) /\ Echo("backspace")
                         /\ buf' = [buf EXCEPT ![Dec(e) % INPUT_BUF] = "nul"]
                         /\ UNCHANGED <<r, w, pc, dump, owed>>
                    ELSE UNCHANGED <<input, pos, pc, dump, owed>>
    [] OTHER -> Store(c)

\* Whether the character is echoed: a CPU that calls consputc() after a panic
\* stops there, with cons.lock.
Prints(c) ==
  CASE c = "P" -> FALSE [] c = "U" -> e # w [] c = "H" -> Erasable [] OTHER -> c # "nul" /\ Room

Consoleintr(c) ==
  /\ cons = None
  /\ IF halted /\ Prints(c)
       THEN cons' = Frozen /\ UNCHANGED <<input, pos, pc, dump, owed>>
       ELSE Char(c) /\ UNCHANGED cons
  /\ UNCHANGED <<locking, halted, killed, calls>>

\* uartintr()
Uart(c) == Consoleintr(c) /\ UNCHANGED keyboard

\* kbdintr(): a byte of the keyboard, which sends the prefix before the key.
Modifies(code) == K!shiftcode(code) # {}
DownAfter(code, up) == IF up THEN down \ {code} ELSE IF Modifies(code) THEN down \cup {code} ELSE down

Key(code, up) ==
  LET b == K!Byte(code.key, up)
  IN /\ Consoleintr(K!kbdchar(shift, b))
     /\ shift' = K!kbdshift(shift, b)
     /\ down' = DownAfter(code, up)
     /\ pending' = <<>>

\* A key goes up only if it is down; the keys that matter are the modifiers.
KbdByte(code, up) ==
  /\ pending = <<>>
  /\ up => code \in down
  /\ IF code.ext
       THEN /\ Consoleintr("nul")
            /\ shift' = K!kbdshift(shift, K!E0)
            /\ pending' = <<code, up>> /\ UNCHANGED down
       ELSE Key(code, up)

KbdSecond == pending # <<>> /\ Key(pending[1], pending[2])

\* procdump(), after cons.lock is released: a cprintf().
Procdump ==
  /\ dump /\ cons = None
  /\ dump' = FALSE
  /\ IF halted THEN cons' = (IF locking THEN Frozen ELSE cons) /\ UNCHANGED pos
     ELSE Echo("nl") /\ UNCHANGED cons
  /\ UNCHANGED <<locking, halted, input, keyboard, pc, killed, calls, owed>>

-----------------------------------------------------------------------------
(* consoleread(), consolewrite(), cprintf() *)

Call(p, what, k) ==
  /\ pc[p] = "out" /\ ~killed[p] /\ what \in May[p]
  /\ Goto(p, what)
  /\ n' = [n EXCEPT ![p] = k] /\ target' = [target EXCEPT ![p] = k]
  /\ UNCHANGED <<cons, locking, halted, input, pos, keyboard, dump, killed, owed>>

CallRead(p) == \E k \in ReadSizes : Call(p, "read", k)
CallWrite(p) == Call(p, "write", 2)
CallCprintf(p) == Call(p, "cprintf", 1)

\* acquire(&cons.lock); cprintf() looks at cons.locking first.
Acquire(p) ==
  /\ pc[p] \in {"read", "woken", "write", "cprintf"}
  /\ IF pc[p] = "cprintf" /\ ~locking
       THEN Goto(p, "bare") /\ UNCHANGED cons
       ELSE /\ cons = None /\ cons' = p
            /\ Goto(p, IF pc[p] \in {"read", "woken"} THEN "reading" ELSE "writing")
  /\ UNCHANGED <<locking, halted, input, pos, keyboard, dump, killed, calls, owed>>

\* release(&cons.lock), and the end of the call, whose variables are gone.
Return(p) ==
  /\ cons' = None /\ Goto(p, "out")
  /\ n' = [n EXCEPT ![p] = 0] /\ target' = [target EXCEPT ![p] = 0]

\* "Save ^D for next time, to make sure caller gets a 0-byte result."
EofStays(p) == n[p] < target[p]

\* One character for the reader.
ReadChar(p) ==
  LET c == buf[r % INPUT_BUF]
      keep == c = "D" /\ EofStays(p)
  IN /\ pc[p] = "reading" /\ n[p] > 0 /\ r # w
     /\ r' = IF keep THEN r ELSE Inc(r)
     /\ buf' = IF keep THEN buf ELSE [buf EXCEPT ![r % INPUT_BUF] = "nul"]
     /\ owed' = IF c = "D" /\ n[p] = target[p] THEN owed - 1 ELSE owed
     /\ IF c \in {"D", "nl"} \/ n[p] = 1 THEN Return(p)
        ELSE n' = [n EXCEPT ![p] = @ - 1] /\ UNCHANGED <<cons, pc, target>>
     /\ UNCHANGED <<locking, halted, w, e, pos, keyboard, dump, killed>>

\* Nothing to read: -1 for a killed process, or on the way to sleep().
ReadEmpty(p) ==
  /\ pc[p] = "reading" /\ n[p] > 0 /\ r = w
  /\ IF killed[p] THEN Return(p) ELSE Goto(p, "slp") /\ UNCHANGED <<cons, calls>>
  /\ UNCHANGED <<locking, halted, input, pos, keyboard, dump, killed, owed>>

\* sleep(&input.r, &cons.lock)
Sleep(p) ==
  /\ pc[p] = "slp"
  /\ cons' = None /\ Goto(p, "asleep")
  /\ UNCHANGED <<locking, halted, input, pos, keyboard, dump, killed, calls, owed>>

\* consputc() for consolewrite() and cprintf(): a line of text.
WriteChar(p) ==
  /\ pc[p] \in {"writing", "bare"} /\ ~halted
  /\ Echo(IF n[p] = 1 THEN "nl" ELSE "x")
  /\ IF n[p] > 1
       THEN n' = [n EXCEPT ![p] = @ - 1] /\ UNCHANGED <<cons, pc, target>>
       ELSE IF pc[p] = "writing" THEN Return(p)
       ELSE Goto(p, "out") /\ n' = [n EXCEPT ![p] = 0] /\ target' = [target EXCEPT ![p] = 0] /\ UNCHANGED cons
  /\ UNCHANGED <<locking, halted, input, keyboard, dump, killed, owed>>

\* kill(): wakes a sleeper, on the console or on the clock.  A process
\* that is killed does not call again; its slot becomes another process's.
Kill(p) ==
  /\ ~killed[p] /\ pc[p] # "out"
  /\ killed' = [killed EXCEPT ![p] = TRUE]
  /\ Goto(p, CASE pc[p] = "asleep" -> "woken" [] pc[p] = "tickasleep" -> "ticking" [] OTHER -> pc[p])
  /\ UNCHANGED <<cons, locking, halted, input, pos, keyboard, dump, calls, owed>>

Exit(p) ==
  /\ pc[p] = "out" /\ killed[p]
  /\ killed' = [killed EXCEPT ![p] = FALSE]
  /\ UNCHANGED <<cons, locking, halted, input, pos, keyboard, dump, pc, calls, owed>>

-----------------------------------------------------------------------------
(* panic() *)

\* cons.locking = 0
PanicUnlocks == FALSE

\* Anywhere in the kernel, cons.lock in hand or not.
Panic(p) ==
  /\ "panic" \in May[p] /\ pc[p] \in {"out", "reading", "writing"}
  /\ locking' = PanicUnlocks
  /\ Goto(p, "panic")
  /\ UNCHANGED <<cons, halted, input, pos, keyboard, dump, killed, calls, owed>>

\* The message, through cprintf(); then every other CPU stops at its next
\* character, and this one for good.
PanicPrint(p) ==
  /\ pc[p] = "panic" /\ (locking => cons = None)
  /\ IF halted THEN UNCHANGED pos ELSE Echo("nl")
  /\ halted' = TRUE
  /\ Goto(p, "stopped")
  /\ UNCHANGED <<cons, locking, input, keyboard, dump, killed, calls, owed>>

Interrupts ==
  \/ \E c \in Chars : Uart(c)
  \/ \E code \in Keys, up \in BOOLEAN : KbdByte(code, up)
  \/ KbdSecond \/ Procdump

ProcStep(p) ==
  \/ Acquire(p) \/ ReadChar(p) \/ ReadEmpty(p) \/ Sleep(p) \/ WriteChar(p) \/ PanicPrint(p)

Next ==
  \/ Interrupts
  \/ \E p \in Procs :
       \/ CallRead(p) \/ CallWrite(p) \/ CallCprintf(p)
       \/ ProcStep(p) \/ Kill(p) \/ Exit(p) \/ Panic(p)

Spec == Init /\ [][Next]_vars /\ \A p \in Procs : WF_vars(ProcStep(p))

-----------------------------------------------------------------------------
(* What the console promises *)

\* The ring between two indices.
Between(i, j) == [k \in 1 .. Minus(j, i) |-> buf[(i + k - 1) % INPUT_BUF]]

\* Indices, ring, modifiers and the cursor, which stays on the screen: crt[pos] is
\* CGA memory and panic("pos under/overflow") does not happen.
TypeOK ==
  /\ cons \in Procs \cup {None, Frozen} /\ locking \in BOOLEAN /\ halted \in BOOLEAN
  /\ {r, w, e} \subseteq 0 .. IdxMod - 1
  /\ buf \in [0 .. INPUT_BUF - 1 -> {"x", "nl", "D", "nul"}]
  /\ pos \in 0 .. ROWS * COLS - 1
  /\ shift \subseteq {"CTL", "SHIFT", "ALT", "CAPSLOCK", "E0ESC"}
  /\ n \in [Procs -> Nat] /\ owed \in Nat

Lines == INSTANCE LineDiscipline WITH
  Text <- {"x", "nl", "D"}, ready <- Between(r, w), line <- Between(w, e)

\* The ring and its three indices, which wrap around, are a line discipline: every
\* character is read once, in order, and nothing that is finished changes.
IsLineDiscipline == Lines!Spec

\* A full ring is one that can be read: otherwise readers would sleep for a
\* newline that the ring does not accept.
FullIsReadable == Minus(e, r) = INPUT_BUF => w = e

\* Every ^D ends exactly one read with 0 bytes, also if it came at the end of a line
\* or if readers share the console.
EofDelivered == owed = Cardinality({k \in 1 .. Minus(w, r) : Between(r, w)[k] = "D"})

\* No lost wakeup: who sleeps in consoleread() has nothing to read.
ReaderSleepsForAReason == \A p \in Procs : pc[p] = "asleep" => r = w

\* When no modifier key is down, kbdgetc() has none in shift: the bytes of a
\* prefixed key may be interrupted by the serial line, but not lost.
NoStuckModifier == down = {} /\ pending = <<>> => shift \cap {"CTL", "SHIFT", "ALT", "E0ESC"} = {}

\* panic() gets its message out, even if it or another CPU has cons.lock for good.
PanicPrints == \A p \in Procs : pc[p] = "panic" ~> halted
=============================================================================
