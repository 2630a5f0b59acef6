-------------------------------- MODULE Pipe --------------------------------
(***************************************************************************)
(* pipe.c: a ring of PIPESIZE bytes with free-running counters, shared by  *)
(* processes that read, write, sleep, are killed and close.  One action is *)
(* what a process does under p->lock, up to its release or to sleep().     *)
(***************************************************************************)
EXTENDS Integers, Sequences

CONSTANTS
  Readers, Writers,  \* processes that hold the read or the write end
  PIPESIZE,
  CtrMod,            \* modulus of the counters (2^32 in the kernel)
  Vals,              \* bytes
  Writes, Reads      \* what user programs write, and how much they ask for

ASSUME PipeAssumption ==
  /\ Readers \cap Writers = {}
  /\ PIPESIZE \in Nat \ {0}
  /\ CtrMod \in Nat /\ CtrMod % PIPESIZE = 0 /\ CtrMod > PIPESIZE
  /\ Writes \subseteq Seq(Vals) \ {<<>>} /\ Reads \subseteq Nat \ {0}

Procs == Readers \cup Writers

VARIABLES
  data, nread, nwrite, readopen, writeopen,
  freed,   \* kfree((char*)p) has been called
  pc,      \* per process: "idle", "call", "slp" (on its way to sleep), "asleep", "closed"
  todo,    \* addr[i .. n-1] of a writer in pipewrite()
  n,       \* how much a reader in piperead() asks for
  got,     \* what piperead() has returned last
  killed

pipe == <<data, nread, nwrite, readopen, writeopen, freed>>
vars == <<pipe, pc, todo, n, got, killed>>

\* Between two actions p->lock is held only by a process on its way to sleep.
Unlocked == \A p \in Procs : pc[p] # "slp"

\* Counters, ring and program counters in range.
TypeOK ==
  /\ data \in [0 .. PIPESIZE - 1 -> Vals]
  /\ nread \in 0 .. CtrMod - 1 /\ nwrite \in 0 .. CtrMod - 1
  /\ readopen \in BOOLEAN /\ writeopen \in BOOLEAN /\ freed \in BOOLEAN
  /\ pc \in [Procs -> {"idle", "call", "slp", "asleep", "closed"}]
  /\ todo \in [Writers -> Seq(Vals)] /\ n \in [Readers -> Nat]
  /\ got \in [Readers -> Seq(Vals)] /\ \A r \in Readers : Len(got[r]) <= PIPESIZE
  /\ killed \in [Procs -> BOOLEAN]

\* pipealloc(), in a page that kfree() has filled with one value; both ends
\* have been passed on by fork().
Init ==
  /\ \E v \in Vals : data = [j \in 0 .. PIPESIZE - 1 |-> v]
  /\ nread = 0 /\ nwrite = 0
  /\ readopen = TRUE /\ writeopen = TRUE /\ freed = FALSE
  /\ pc = [p \in Procs |-> "idle"]
  /\ todo = [w \in Writers |-> <<>>]
  /\ n = [r \in Readers |-> 0]
  /\ got = [r \in Readers |-> <<>>]
  /\ killed = [p \in Procs |-> FALSE]

\* Bytes in the ring: nwrite - nread as unsigned numbers.
Count == (nwrite - nread) % CtrMod

Smaller(i, j) == IF i < j THEN i ELSE j

\* Mutant: the wakeup is on a channel nobody sleeps on.
WakeNobody(f) == f

\* wakeup(&p->nread) and wakeup(&p->nwrite), on a map of program counters.
WakeReaders(f) == [p \in Procs |-> IF p \in Readers /\ f[p] = "asleep" THEN "call" ELSE f[p]]
WakeWriters(f) == [p \in Procs |-> IF p \in Writers /\ f[p] = "asleep" THEN "call" ELSE f[p]]

\* A process that is not killed calls pipewrite() or piperead(), for a byte or more.
CallWrite(w, s) ==
  /\ pc[w] = "idle" /\ ~killed[w]
  /\ pc' = [pc EXCEPT ![w] = "call"]
  /\ todo' = [todo EXCEPT ![w] = s]
  /\ UNCHANGED <<pipe, n, got, killed>>

CallRead(r, k) ==
  /\ pc[r] = "idle" /\ ~killed[r]
  /\ pc' = [pc EXCEPT ![r] = "call"]
  /\ n' = [n EXCEPT ![r] = k]
  /\ UNCHANGED <<pipe, todo, got, killed>>

\* The bytes that the loop of pipewrite() stores before the ring is full.
Room == PIPESIZE - Count

\* data[nwrite++ % PIPESIZE] = addr[i], k times.
Store(s, k) ==
  /\ data' = [j \in 0 .. PIPESIZE - 1 |->
                LET i == ((j - nwrite) % PIPESIZE) + 1 IN IF i <= k THEN s[i] ELSE data[j]]
  /\ nwrite' = (nwrite + k) % CtrMod

\* pipewrite(), from acquire() or the return of sleep(): store what fits; then
\* return n and wake the readers, or give up on a ring that nobody reads or
\* in a killed process (no wakeup), or wake the readers and sleep.
Write(w) ==
  LET k == Smaller(Len(todo[w]), Room)
      rest == SubSeq(todo[w], k + 1, Len(todo[w]))
  IN /\ pc[w] = "call" /\ Unlocked
     /\ Store(todo[w], k)
     /\ IF rest # <<>> /\ readopen /\ ~killed[w]
          THEN /\ pc' = [WakeReaders(pc) EXCEPT ![w] = "slp"]
               /\ todo' = [todo EXCEPT ![w] = rest]
          ELSE /\ pc' = [(IF rest = <<>> THEN WakeReaders(pc) ELSE pc) EXCEPT ![w] = "idle"]
               /\ todo' = [todo EXCEPT ![w] = <<>>]
     /\ UNCHANGED <<nread, readopen, writeopen, freed, n, got, killed>>

\* The ring from nread on.
Contents == [i \in 1 .. Count |-> data[(nread + i - 1) % PIPESIZE]]

\* Mutant: piperead() does not wait.
CanReadAlways == TRUE

\* The exit of piperead()'s waiting loop.
CanRead == nread # nwrite \/ ~writeopen

\* piperead(): the ring is empty, and somebody may still write.
ReadWait(r) ==
  /\ pc[r] = "call" /\ Unlocked
  /\ ~CanRead /\ ~killed[r]
  /\ pc' = [pc EXCEPT ![r] = "slp"]
  /\ UNCHANGED <<pipe, todo, n, got, killed>>

\* piperead(): copy out what there is, wake the writers.
Read(r) ==
  LET k == Smaller(n[r], Count)
  IN /\ pc[r] = "call" /\ Unlocked
     /\ CanRead
     /\ got' = [got EXCEPT ![r] = SubSeq(Contents, 1, k)]
     /\ nread' = (nread + k) % CtrMod
     /\ pc' = [WakeWriters(pc) EXCEPT ![r] = "idle"]
     /\ n' = [n EXCEPT ![r] = 0]
     /\ UNCHANGED <<data, nwrite, readopen, writeopen, freed, todo, killed>>

\* piperead() returns -1: killed while there was nothing to read.
ReadKilled(r) ==
  /\ pc[r] = "call" /\ Unlocked
  /\ ~CanRead /\ killed[r]
  /\ pc' = [pc EXCEPT ![r] = "idle"]
  /\ n' = [n EXCEPT ![r] = 0]
  /\ UNCHANGED <<pipe, todo, got, killed>>

\* sleep(chan, &p->lock): asleep and the lock released in one step, because
\* wakeup() needs ptable.lock, which sleep() has taken first.
Sleep(p) ==
  /\ pc[p] = "slp"
  /\ pc' = [pc EXCEPT ![p] = "asleep"]
  /\ UNCHANGED <<pipe, todo, n, got, killed>>

\* kill() wakes a sleeper; it needs no p->lock.
Kill(p) ==
  /\ pc[p] # "closed" /\ ~killed[p]
  /\ killed' = [killed EXCEPT ![p] = TRUE]
  /\ pc' = [pc EXCEPT ![p] = IF @ = "asleep" THEN "call" ELSE @]
  /\ UNCHANGED <<pipe, todo, n, got>>

\* Mutant: every close() of an end is taken for the last.
AnyHolder(p) == TRUE

\* --f->ref == 0 in fileclose(): no other process has p's end open.
LastHolder(p) == \A q \in Procs \ {p} : (q \in Readers <=> p \in Readers) => pc[q] = "closed"

\* close(), or exit(): fileclose() calls pipeclose() for the last holder of an
\* end, which wakes the other side, and frees the pipe when both ends are gone.
Close(p) ==
  LET last == LastHolder(p)
      woken == CASE ~last -> pc
                 [] last /\ p \in Writers -> WakeReaders(pc)
                 [] last /\ p \in Readers -> WakeWriters(pc)
  IN /\ pc[p] = "idle" /\ (last => Unlocked)
     /\ readopen' = (readopen /\ ~(last /\ p \in Readers))
     /\ writeopen' = (writeopen /\ ~(last /\ p \in Writers))
     /\ freed' = (freed \/ (last /\ ~readopen' /\ ~writeopen'))
     /\ pc' = [woken EXCEPT ![p] = "closed"]
     /\ UNCHANGED <<data, nread, nwrite, todo, n, got, killed>>

WriterStep(w) == Write(w) \/ Sleep(w)
ReaderStep(r) == ReadWait(r) \/ Read(r) \/ ReadKilled(r) \/ Sleep(r)

Finished == (\A p \in Procs : pc[p] = "closed") /\ UNCHANGED vars

Next ==
  \/ \E w \in Writers : WriterStep(w) \/ \E s \in Writes : CallWrite(w, s)
  \/ \E r \in Readers : ReaderStep(r) \/ \E k \in Reads : CallRead(r, k)
  \/ \E p \in Procs : Kill(p) \/ Close(p)
  \/ Finished

Spec == Init /\ [][Next]_vars

-----------------------------------------------------------------------------
(* What a pipe promises *)

Stream == INSTANCE ByteStream WITH queue <- Contents, open <- writeopen

\* Bytes come out once, in the order they went in, at most PIPESIZE of them
\* wait, across the wrap of the ring and of the counters, and a reader sees
\* the end of the stream only after the last byte.
IsByteStream == Stream!Spec

\* The counters are never further apart than the ring is long.
NeverOverfull == Count <= PIPESIZE

\* Nobody uses the page after kfree(): it is freed when every process has
\* closed its end.
FreedIsUnused == freed => \A p \in Procs : pc[p] = "closed"

\* A reader sleeps on an empty pipe that can still be written.  The exception is
\* a pipe that a killed writer has filled: it returns without a wakeup, and
\* the sleeper waits for the next write() or close().
ReaderSleepsForAReason ==
  \A r \in Readers : pc[r] = "asleep" =>
    /\ writeopen
    /\ nread = nwrite \/ \E w \in Writers : killed[w]

\* A writer sleeps on a full pipe that can still be read.
WriterSleepsForAReason ==
  \A w \in Writers : pc[w] = "asleep" => readopen /\ Count = PIPESIZE

\* Nobody sleeps for something that has happened: the tests and the wakeups of
\* pipewrite(), piperead() and pipeclose() fit together, but for the killed writer.
SleepsForAReason == ReaderSleepsForAReason /\ WriterSleepsForAReason

-----------------------------------------------------------------------------
(* Liveness *)

\* A process in the kernel goes on, and user programs go on with the pipe: they
\* call again or close it.
Fairness ==
  /\ \A w \in Writers : SF_vars(WriterStep(w))
  /\ \A r \in Readers :
       /\ SF_vars(ReaderStep(r))
       /\ WF_vars(Close(r) \/ \E k \in Reads : CallRead(r, k))

FairSpec == Spec /\ Fairness

\* A writer that sleeps is woken: by a reader, by the last reader's close().
WritersWake == \A w \in Writers : pc[w] = "asleep" ~> pc[w] # "asleep"
=============================================================================
