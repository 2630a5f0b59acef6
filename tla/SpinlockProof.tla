---------------------------- MODULE SpinlockProof ---------------------------
(***************************************************************************)
(* Spinlock keeps its invariants for any number of CPUs, processes and     *)
(* locks.  The invariant that carries the induction says where the count   *)
(* of pushcli() and the interrupt flag of a CPU come from: from the        *)
(* context that runs there, its locks and whether it is a handler.         *)
(***************************************************************************)
EXTENDS Spinlock, TLAPS

\* The contexts that run are different ones; the others are threads that are out
\* and schedulers that wait in swtch().
Places ==
  /\ \A c \in CPUs : on[c] = c \/ on[c] \in Threads
  /\ \A c, d \in CPUs : on[c] = on[d] => c = d
  /\ \A x \in Threads : pc[x] = "out" <=> \A c \in CPUs : on[c] # x
  /\ \A x \in Threads : pc[x] = "out" => held[x] = {}
  /\ \A c \in CPUs : pc[c] # "out"
  /\ \A c \in CPUs : on[c] # c => pc[c] = "run" /\ held[c] = {} /\ ~Handling(c)

\* Who has a lock has it alone, and lk->cpu names the CPU it runs on.
HeldIsLocked == \A x \in Ctx : \A l \in held[x] : locked[l]
LockedIsHeld == \A l \in Locks : locked[l] => \E c \in CPUs : l \in held[on[c]]
FreeHasNoCpu == \A l \in Locks : ~locked[l] => cpu[l] = None
CpuNamed ==
  \A c \in CPUs : \A l \in held[on[c]] :
    cpu[l] = IF lk[on[c]] = l /\ pc[on[c]] \in {"own", "rel"} THEN None ELSE c
Owners == HeldIsLocked /\ Exclusive /\ LockedIsHeld /\ FreeHasNoCpu /\ CpuNamed

\* The lock that acquire() or release() is about.
Subject(x) ==
  /\ pc[x] \in {"cli", "spin"} => /\ lk[x] \in Locks /\ lk[x] \notin held[x]
                                  /\ held[x] \subseteq {ptable} \/ lk[x] = ptable
  /\ pc[x] \in {"own", "rel"} => lk[x] \in held[x]
  /\ \A l, m \in held[x] \ {ptable} : l = m
Subjects == \A x \in Ctx : Subject(x)

\* The scheduler outside of handlers, and what a handler has interrupted.
Loop(x) ==
  /\ x \in CPUs => saved[x] = FALSE
  /\ x \in CPUs /\ on[x] = x /\ ~Handling(x) =>
       /\ pc[x] \in {"run", "own", "rel"} => held[x] = {ptable}
       /\ pc[x] \in {"loop", "idle", "cli", "spin", "pop"} => held[x] = {}
       /\ pc[x] \in {"cli", "spin"} => lk[x] = ptable
  /\ pc[x] \in {"loop", "idle"} => x \in CPUs /\ ~Handling(x)
  /\ Handling(x) =>
       /\ irq[x].pc \in (IF x \in CPUs THEN {"loop", "idle", "cli"} ELSE {"run", "cli"})
       /\ irq[x].pc = "cli" => irq[x].eflags /\ irq[x].lk \in Locks
       /\ irq[x].pc = "cli" /\ x \in CPUs => irq[x].lk = ptable
Loops == \A x \in Ctx : Loop(x)

\* The critical sections of a context that holds the locks in H (ptable.lock and at
\* most one other); pushcli() done and the lock not yet taken, or the lock given back
\* and popcli() still to come.
Depth(H) == (IF ptable \in H THEN 1 ELSE 0) + (IF H \ {ptable} # {} THEN 1 ELSE 0)
Between(x) == IF pc[x] \in {"spin", "pop"} THEN 1 ELSE 0

\* ncli, FL_IF, the flag that pushcli() reads and intena of a CPU, from the context
\* that runs there.
Counted(c) == ncli[c] = Depth(held[on[c]]) + Between(on[c])
Masked(c) ==
  iflag[c] => held[on[c]] = {} /\ ~Handling(on[c]) /\ pc[on[c]] \in {"run", "loop", "idle", "cli"}
Noted(c) == pc[on[c]] = "cli" => (eflags[on[c]] <=> iflag[c])
Restored(c) ==
  InKernelCode(on[c]) =>
    /\ pc[on[c]] \in {"run", "cli"} /\ held[on[c]] = {} => (iflag[c] <=> ~Handling(on[c]))
    /\ ncli[c] > 0 => (intena[c] <=> ~Handling(on[c]))
FlagsOf(c) == Counted(c) /\ Masked(c) /\ Noted(c) /\ Restored(c)
Flags == \A c \in CPUs : FlagsOf(c)

\* What sched() keeps for a thread that is out.
Kept ==
  \A x \in Threads : pc[x] = "out" =>
    IF saved[x] = New THEN ~Handling(x) ELSE saved[x] <=> ~Handling(x)

IInv == TypeOK /\ Places /\ Owners /\ Subjects /\ Loops /\ Flags /\ Kept /\ NoPanic

-----------------------------------------------------------------------------
(* What a step leaves alone *)

SameContext(y) ==
  /\ pc'[y] = pc[y] /\ lk'[y] = lk[y] /\ eflags'[y] = eflags[y]
  /\ held'[y] = held[y] /\ saved'[y] = saved[y] /\ irq'[y] = irq[y]
SameCpu(d) == iflag'[d] = iflag[d] /\ ncli'[d] = ncli[d] /\ intena'[d] = intena[d]

\* Only the contexts in S and the CPU c may change.
Elsewhere(c, S) ==
  /\ \A y \in Ctx \ S : SameContext(y)
  /\ \A y \in CPUs \ S : on'[y] = on[y]
  /\ \A d \in CPUs \ {c} : SameCpu(d) /\ on'[d] = on[d]

\* Who holds no lock is in no critical section.
LEMMA DepthFacts ==
  ASSUME NEW H
  PROVE  /\ Depth(H) \in Nat
         /\ Depth(H) = 0 <=> H = {}
         /\ H = {ptable} => Depth(H) = 1
BY DEF Depth

\* Taking a lock enters a critical section, giving it back leaves one.
LEMMA DepthSteps ==
  ASSUME NEW H, NEW l
  PROVE  /\ l \notin H /\ (H \subseteq {ptable} \/ l = ptable) => Depth(H \cup {l}) = Depth(H) + 1
         /\ l \in H /\ (\A m, n \in H \ {ptable} : m = n) => Depth(H) = Depth(H \ {l}) + 1
BY DEF Depth

\* What ncli is, from the context that runs.
LEMMA CountFacts ==
  ASSUME NEW c, NEW x, x = on[c], Counted(c)
  PROVE  /\ pc[x] \in {"spin", "pop"} => ncli[c] = Depth(held[x]) + 1
         /\ pc[x] \notin {"spin", "pop"} => ncli[c] = Depth(held[x])
         /\ pc[x] \notin {"spin", "pop"} /\ held[x] = {} => ncli[c] = 0
         /\ pc[x] \notin {"spin", "pop"} /\ held[x] = {ptable} => ncli[c] = 1
<1>1. ncli[c] = Depth(held[x]) + Between(x)
  BY Zenon DEF Counted
<1>2. Depth(held[x]) \in Nat /\ (held[x] = {} => Depth(held[x]) = 0)
      /\ (held[x] = {ptable} => Depth(held[x]) = 1)
  BY DepthFacts, Zenon
<1> QED
  BY <1>1, <1>2 DEF Between

LEMMA CountedNext ==
  ASSUME NEW c, NEW x, x = on'[c],
         ncli'[c] = IF pc'[x] \in {"spin", "pop"} THEN Depth(held'[x]) + 1 ELSE Depth(held'[x])
  PROVE  Counted(c)'
<1>1. ncli'[c] = Depth(held'[x]) + Between(x)'
  BY DepthFacts DEF Between
<1> QED
  BY <1>1, Zenon DEF Counted

\* A frame is not NoFrame.
LEMMA FrameFacts ==
  \A f \in Frames : /\ f # NoFrame /\ f.pc \in {"run", "loop", "idle", "cli"}
                    /\ f.lk \in Locks \cup {None} /\ f.eflags \in BOOLEAN
BY DEF Frames, NoFrame

\* The context that runs on c, and what the invariant says of it.
LEMMA Here ==
  ASSUME IInv, NEW c \in CPUs
  PROVE  /\ on[c] \in Ctx /\ c \in Ctx
         /\ on[c] \in CPUs => on[c] = c
         /\ pc[on[c]] # "out"
         /\ \A d \in CPUs \ {c} : on[d] \in Ctx \ {on[c]}
         /\ Subject(on[c]) /\ Loop(on[c])
         /\ Counted(c) /\ Masked(c) /\ Noted(c) /\ Restored(c)
<1>1. on[c] \in Ctx /\ c \in Ctx /\ \A d \in CPUs \ {c} : on[d] \in Ctx \ {on[c]}
  BY DEF IInv, TypeOK, Places, Ctx
<1>2. (on[c] \in CPUs => on[c] = c) /\ pc[on[c]] # "out"
  BY SpinAssumption DEF IInv, Places
<1>3. Subject(on[c]) /\ Loop(on[c])
  BY <1>1 DEF IInv, Subjects, Loops
<1> QED
  BY <1>1, <1>2, <1>3 DEF IInv, Flags, FlagsOf

\* The values that the code on c works with have their types.
LEMMA HereTypes ==
  ASSUME TypeOK, NEW c \in CPUs, NEW x \in Ctx
  PROVE  /\ iflag[c] \in BOOLEAN /\ intena[c] \in BOOLEAN /\ ncli[c] \in Nat
         /\ lk[x] \in Locks \cup {None} /\ eflags[x] \in BOOLEAN /\ held[x] \subseteq Locks
         /\ saved[x] \in BOOLEAN \cup {New} /\ irq[x] \in Frames \cup {NoFrame}
BY DEF TypeOK

\* The part of the invariant that is about single contexts and CPUs has to be shown
\* only where something changes.
LEMMA Frame ==
  ASSUME IInv, NEW c \in CPUs, NEW S, Elsewhere(c, S),
         \A d \in CPUs \ {c} : on[d] \in Ctx \ S,
         \A y \in S : Subject(y)' /\ Loop(y)', FlagsOf(c)'
  PROVE  Subjects' /\ Loops' /\ Flags'
<1>1. ASSUME NEW y \in Ctx \ S PROVE Subject(y)'
  BY DEF Elsewhere, SameContext, IInv, Subjects, Subject
<1>2. ASSUME NEW y \in Ctx \ S PROVE Loop(y)'
  BY DEF Elsewhere, SameContext, IInv, Loops, Loop, Handling
<1>3. ASSUME NEW d \in CPUs \ {c} PROVE FlagsOf(d)'
  <2>1. FlagsOf(d) /\ on'[d] = on[d] /\ SameCpu(d) /\ SameContext(on[d])
    BY DEF Elsewhere, IInv, Flags
  <2>2. Counted(d)'
    BY <2>1 DEF FlagsOf, Counted, Depth, Between, SameCpu, SameContext
  <2>3. Masked(d)'
    BY <2>1 DEF FlagsOf, Masked, Handling, SameCpu, SameContext
  <2>4. Noted(d)'
    BY <2>1 DEF FlagsOf, Noted, SameCpu, SameContext
  <2>5. Restored(d)'
    BY <2>1 DEF FlagsOf, Restored, Handling, InKernelCode, SameCpu, SameContext
  <2> QED
    BY <2>2, <2>3, <2>4, <2>5 DEF FlagsOf
<1>4. Subjects'
  BY <1>1 DEF Subjects
<1>5. Loops'
  BY <1>2 DEF Loops
<1> QED
  BY <1>3, <1>4, <1>5 DEF Flags

\* A step of the code that runs on c, which stays there.
LEMMA Stays ==
  ASSUME IInv, NEW c \in CPUs, NEW x, x = on[c], on' = on, Elsewhere(c, {x}), pc'[x] # "out",
         Subject(x)', Loop(x)', Counted(c)', Masked(c)', Noted(c)', Restored(c)'
  PROVE  Places' /\ Subjects' /\ Loops' /\ Flags' /\ Kept'
<1>1. /\ x \in Ctx /\ (x \in CPUs => x = c) /\ pc[x] # "out"
      /\ \A d \in CPUs \ {c} : on[d] \in Ctx \ {x}
  BY Here
<1>2. \A y \in Ctx \ {x} : SameContext(y)
  BY DEF Elsewhere
<1>3. Places'
  BY <1>1, <1>2 DEF IInv, Places, SameContext, Handling, Ctx
<1>4. Kept'
  BY <1>1, <1>2 DEF IInv, Kept, SameContext, Handling, Ctx
<1>5. FlagsOf(c)'
  BY DEF FlagsOf
<1>6. Subjects' /\ Loops' /\ Flags'
  BY <1>1, <1>5, Frame
<1> QED
  BY <1>3, <1>4, <1>6

\* The owners stay if no lock changes and acquire() and release() are not at a
\* lock that is being taken or given back.
LEMMA OwnersStay ==
  ASSUME IInv, NEW c \in CPUs, NEW x, x = on[c], on' = on, Elsewhere(c, {x}),
         UNCHANGED <<locked, cpu, held>>,
         pc[x] \notin {"own", "rel"}, pc'[x] \notin {"own", "rel"}
  PROVE  Owners'
<1>1. \A d \in CPUs \ {c} : on[d] \in Ctx \ {x} /\ SameContext(on[d])
  BY Here DEF Elsewhere
<1>2. CpuNamed'
  BY <1>1 DEF IInv, Owners, CpuNamed, SameContext
<1>3. (HeldIsLocked /\ Exclusive /\ LockedIsHeld /\ FreeHasNoCpu)'
  BY DEF IInv, Owners, HeldIsLocked, Exclusive, LockedIsHeld, FreeHasNoCpu
<1> QED
  BY <1>2, <1>3 DEF Owners

\* swtch() on c: a, which has only ptable.lock, goes, and b comes and has it.
Switch(c, a, b) ==
  /\ a # b /\ on[c] = a /\ on'[c] = b
  /\ held[a] = {ptable} /\ held[b] = {} /\ held'[a] = {} /\ held'[b] = {ptable}
  /\ pc[a] = "run" /\ pc'[b] = "run" /\ UNCHANGED <<locked, cpu>>
  /\ Elsewhere(c, {a, b})
  /\ \A d \in CPUs \ {c} : on[d] \in Ctx \ {a, b}

\* The lock is still locked and cpu names c: nothing tells that another context has it.
LEMMA OwnersSwitch ==
  ASSUME IInv, NEW c \in CPUs, NEW a \in Ctx, NEW b \in Ctx, Switch(c, a, b)
  PROVE  Owners'
<1>1. /\ \A y \in Ctx \ {a} : ptable \notin held[y]
      /\ \A y \in Ctx \ {a, b} : held'[y] = held[y]
  BY Zenon DEF Switch, IInv, Owners, Exclusive, Elsewhere, SameContext
<1>2. \A d \in CPUs \ {c} : on'[d] = on[d] /\ SameContext(on[d])
  BY Zenon DEF Switch, Elsewhere
<1>3. locked[ptable] /\ cpu[ptable] = c
  BY Zenon DEF Switch, IInv, Owners, HeldIsLocked, CpuNamed
<1>4. HeldIsLocked'
  <2>1. ASSUME NEW y \in Ctx, NEW l \in held'[y] PROVE locked'[l]
    BY <1>1, <1>3, <2>1, Zenon DEF Switch, IInv, Owners, HeldIsLocked
  <2> QED
    BY <2>1, Zenon DEF HeldIsLocked
<1>5. Exclusive'
  <2> SUFFICES ASSUME NEW y \in Ctx, NEW z \in Ctx, y # z, NEW l, l \in held'[y], l \in held'[z]
               PROVE  FALSE
    BY Zenon DEF Exclusive
  <2>0. ASSUME NEW v \in Ctx, v # b PROVE ptable \notin held'[v]
    BY <1>1, <2>0, Zenon DEF Switch
  <2>1. CASE y = b \/ z = b
    BY <2>0, <2>1, Zenon DEF Switch
  <2>2. CASE y # b /\ z # b
    <3>1. l \in held[y] /\ l \in held[z]
      BY <1>1, <2>2, Zenon DEF Switch
    <3> QED
      BY <3>1 DEF IInv, Owners, Exclusive
  <2> QED
    BY <2>1, <2>2, Zenon
<1>6. LockedIsHeld'
  <2> SUFFICES ASSUME NEW l \in Locks, locked'[l] PROVE \E d \in CPUs : l \in held'[on'[d]]
    BY Zenon DEF LockedIsHeld
  <2>1. PICK d \in CPUs : l \in held[on[d]]
    BY DEF Switch, IInv, Owners, LockedIsHeld
  <2>2. CASE d = c
    BY <2>1, <2>2, Zenon DEF Switch
  <2>3. CASE d # c
    BY <1>2, <2>1, <2>3, Zenon DEF SameContext
  <2> QED
    BY <2>2, <2>3, Zenon
<1>7. FreeHasNoCpu'
  BY Zenon DEF Switch, IInv, Owners, FreeHasNoCpu
<1>8. CpuNamed'
  <2> SUFFICES ASSUME NEW d \in CPUs, NEW l \in held'[on'[d]]
               PROVE  cpu'[l] = IF lk'[on'[d]] = l /\ pc'[on'[d]] \in {"own", "rel"}
                                THEN None ELSE d
    BY Zenon DEF CpuNamed
  <2>1. CASE d = c
    <3>1. l = ptable /\ cpu'[l] = c /\ pc'[on'[d]] = "run"
      BY <1>3, <2>1, Zenon DEF Switch
    <3> QED
      BY <2>1, <3>1
  <2>2. CASE d # c
    <3>1. on'[d] = on[d] /\ SameContext(on[d]) /\ l \in held[on[d]]
      BY <1>2, <2>2, Zenon DEF SameContext
    <3>2. cpu[l] = IF lk[on[d]] = l /\ pc[on[d]] \in {"own", "rel"} THEN None ELSE d
      BY <3>1, Zenon DEF IInv, Owners, CpuNamed
    <3> QED
      BY <3>1, <3>2, Zenon DEF Switch, SameContext
  <2> QED
    BY <2>1, <2>2, Zenon
<1> QED
  BY <1>4, <1>5, <1>6, <1>7, <1>8, Zenon DEF Owners

\* Of a thread and the scheduler of c, one runs on c before and the other one after.
LEMMA PlacesSwitch ==
  ASSUME IInv, NEW c \in CPUs, NEW x \in Threads, NEW a, NEW b, Switch(c, a, b),
         (a = x /\ b = c) \/ (a = c /\ b = x),
         pc'[a] = IF a = c THEN "run" ELSE "out", ~Handling(c)'
  PROVE  Places'
<1>0. c # x /\ c \notin Threads /\ x \notin CPUs
  BY SpinAssumption
<1>a. \A d \in CPUs : on[d] = d \/ on[d] \in Threads
  BY DEF IInv, Places
<1>b. \A d, e \in CPUs : on[d] = on[e] => d = e
  BY DEF IInv, Places
<1>c. \A y \in Threads : pc[y] = "out" <=> \A d \in CPUs : on[d] # y
  BY DEF IInv, Places
<1>d. \A y \in Threads : pc[y] = "out" => held[y] = {}
  BY DEF IInv, Places
<1>e. \A d \in CPUs : pc[d] # "out"
  BY DEF IInv, Places
<1>f. \A d \in CPUs : on[d] # d => pc[d] = "run" /\ held[d] = {} /\ ~Handling(d)
  BY DEF IInv, Places
<1>1. ASSUME NEW d \in CPUs \ {c}
      PROVE  on'[d] = on[d] /\ on[d] # x /\ on[d] # c /\ SameContext(d)
  BY <1>0, <1>1, Zenon DEF Switch, Elsewhere, Ctx
<1>2. ASSUME NEW y \in Threads, y # x PROVE SameContext(y) /\ y # c
  BY <1>0, <1>2, Zenon DEF Switch, Elsewhere, Ctx
<1>3. \A d \in CPUs : on'[d] = d \/ on'[d] \in Threads
  BY <1>1, <1>a, Zenon DEF Switch
<1>4. \A d, e \in CPUs : on'[d] = on'[e] => d = e
  <2> SUFFICES ASSUME NEW d \in CPUs, NEW e \in CPUs, on'[d] = on'[e], d # e PROVE FALSE
    BY Zenon
  <2>1. d # c /\ e # c
    BY <1>1, Zenon DEF Switch
  <2> QED
    BY <1>1, <1>b, <2>1, Zenon
<1>5. ASSUME NEW y \in Threads PROVE pc'[y] = "out" <=> \A d \in CPUs : on'[d] # y
  <2>1. CASE y = x
    <3>1. CASE a = c
      BY <1>0, <2>1, <3>1, Zenon DEF Switch
    <3>2. CASE a = x
      BY <1>0, <1>1, <2>1, <3>2, Zenon DEF Switch
    <3> QED
      BY <3>1, <3>2, Zenon
  <2>2. CASE y # x
    <3>1. pc'[y] = pc[y] /\ y # c
      BY <1>2, <2>2, Zenon DEF SameContext
    <3>2. ASSUME NEW d \in CPUs PROVE on'[d] = y <=> on[d] = y
      BY <1>1, <2>2, <3>1, Zenon DEF Switch
    <3> QED
      BY <1>c, <3>1, <3>2, Zenon
  <2> QED
    BY <2>1, <2>2, Zenon
<1>6. ASSUME NEW y \in Threads, pc'[y] = "out" PROVE held'[y] = {}
  <2>1. CASE y = x
    BY <1>0, <1>6, <2>1 DEF Switch
  <2>2. CASE y # x
    BY <1>2, <1>6, <1>d, <2>2, Zenon DEF SameContext
  <2> QED
    BY <2>1, <2>2, Zenon
<1>7. ASSUME NEW d \in CPUs PROVE pc'[d] # "out"
  <2>1. CASE d = c
    BY <1>0, <2>1 DEF Switch
  <2>2. CASE d # c
    BY <1>1, <1>e, <2>2, Zenon DEF SameContext
  <2> QED
    BY <2>1, <2>2, Zenon
<1>8. ASSUME NEW d \in CPUs, on'[d] # d PROVE pc'[d] = "run" /\ held'[d] = {} /\ ~Handling(d)'
  <2>1. CASE d = c
    BY <1>0, <1>8, <2>1 DEF Switch
  <2>2. CASE d # c
    BY <1>1, <1>8, <1>f, <2>2, Zenon DEF SameContext, Handling
  <2> QED
    BY <2>1, <2>2, Zenon
<1> QED
  BY <1>3, <1>4, <1>5, <1>6, <1>7, <1>8, Zenon DEF Places

\* The initial state.
LEMMA InitIInv == Init => IInv
<1> SUFFICES ASSUME Init PROVE IInv
  OBVIOUS
<1> USE SpinAssumption
<1>1. TypeOK
  BY Zenon DEF Init, TypeOK, Locks, Ctx, New
<1>2. Places
  BY DEF Init, Places, Ctx, New, Handling
<1>3. Owners
  BY DEF Init, Owners, HeldIsLocked, Exclusive, LockedIsHeld, FreeHasNoCpu, CpuNamed, Locks, Ctx
<1>4. Subjects
  BY DEF Init, Subjects, Subject, Ctx
<1>5. Loops
  BY DEF Init, Loops, Loop, Ctx, Handling
<1>6. Flags
  BY DEF Init, Flags, FlagsOf, Counted, Masked, Noted, Restored, Ctx, Handling, InKernelCode,
         Depth, Between
<1>7. Kept
  BY Zenon DEF Init, Kept, Ctx, Handling, New
<1>8. NoPanic
  BY DEF Init, NoPanic
<1> QED
  BY <1>1, <1>2, <1>3, <1>4, <1>5, <1>6, <1>7, <1>8 DEF IInv

-----------------------------------------------------------------------------
(* One lemma per action *)

\* acquire() begins: pushcli() has read the flag.
LEMMA AcquireIInv ==
  ASSUME IInv, NEW c \in CPUs, NEW l \in Locks, Acquire(c, l)
  PROVE  IInv'
<1>0. PICK x \in Ctx : x = on[c]
  BY Here
<1>1. /\ x \in CPUs => x = c
      /\ Subject(x) /\ Loop(x) /\ Counted(c) /\ Masked(c) /\ Noted(c) /\ Restored(c)
      /\ iflag[c] \in BOOLEAN
  BY <1>0, Here, HereTypes DEF IInv
<1>2. TypeOK'
  BY <1>0 DEF Acquire, Goto, IInv, TypeOK
<1>3. /\ pc'[x] = "cli" /\ lk'[x] = l /\ eflags'[x] = iflag[c]
      /\ (pc[x] = "run" /\ InKernelCode(x) /\ MayNest(x, l)) \/ (pc[x] = "idle" /\ l = ptable)
      /\ UNCHANGED <<locked, cpu, iflag, ncli, intena, on, held, saved, irq, panicked, nested>>
  BY <1>0 DEF Acquire, Goto, IInv, TypeOK
<1>4. Elsewhere(c, {x})
  BY <1>0 DEF Acquire, Goto, IInv, TypeOK, Elsewhere, SameContext, SameCpu
<1>5. pc[x] = "idle" => x = c /\ on[x] = x /\ ~Handling(x) /\ held[x] = {} /\ ~InKernelCode(x)
  BY <1>0, <1>1, SpinAssumption, Zenon DEF Loop, InKernelCode
<1>6. Subject(x)'
  <2>1. MayNest(x, l) => l \notin held[x] /\ (held[x] \subseteq {ptable} \/ l = ptable)
    BY SpinAssumption, Zenon DEF MayNest
  <2> QED
    BY <1>1, <1>3, <1>5, <2>1, Zenon DEF Subject
<1>7. Loop(x)'
  BY <1>0, <1>1, <1>3, <1>5, SpinAssumption, Zenon DEF Loop, Handling, InKernelCode, MayNest
<1>8. Counted(c)' /\ Masked(c)' /\ Noted(c)'
  BY <1>0, <1>1, <1>3, <1>5, Zenon DEF Counted, Masked, Noted, Depth, Between, Handling
<1>9. Restored(c)'
  BY <1>0, <1>1, <1>3, <1>5, Zenon DEF Restored, Handling, InKernelCode
<1>10. Owners'
  BY <1>0, <1>3, <1>4, OwnersStay, Zenon
<1>11. Places' /\ Subjects' /\ Loops' /\ Flags' /\ Kept'
  BY <1>0, <1>3, <1>4, <1>6, <1>7, <1>8, <1>9, Stays, Zenon
<1> QED
  BY <1>2, <1>3, <1>10, <1>11 DEF IInv, NoPanic

\* The rest of pushcli(), and holding() in acquire().
LEMMA CliIInv ==
  ASSUME IInv, NEW c \in CPUs, Cli(c)
  PROVE  IInv'
<1>0. PICK x \in Ctx : x = on[c]
  BY Here
<1>1. /\ pc[x] = "cli" /\ (x \in CPUs => x = c)
      /\ Subject(x) /\ Loop(x) /\ Counted(c) /\ Masked(c) /\ Noted(c) /\ Restored(c)
      /\ iflag[c] \in BOOLEAN /\ intena[c] \in BOOLEAN /\ ncli[c] \in Nat /\ held[x] \subseteq Locks
  BY <1>0, Here, HereTypes, Zenon DEF IInv, Cli
<1>2. TypeOK'
  BY <1>0 DEF Cli, Goto, Pushed, IInv, TypeOK
<1>3. /\ pc'[x] = "spin" /\ ncli'[c] = ncli[c] + 1 /\ iflag'[c] = FALSE
      /\ intena'[c] = Pushed(c, eflags[x])
      /\ panicked' = (panicked \/ Holding(lk[x], c))
      /\ UNCHANGED <<locked, cpu, on, lk, held, saved, irq, nested>>
  BY <1>0 DEF Cli, Goto, IInv, TypeOK
<1>4. Elsewhere(c, {x})
  BY <1>0 DEF Cli, Goto, IInv, TypeOK, Elsewhere, SameContext, SameCpu
<1>5. Subject(x)' /\ Loop(x)'
  BY <1>1, <1>3, Zenon DEF Subject, Loop, Handling
<1>6. Counted(c)' /\ Masked(c)' /\ Noted(c)'
  <2>1. ncli'[c] = Depth(held'[x]) + 1
    BY <1>0, <1>1, <1>3, CountFacts, Zenon
  <2>2. Counted(c)'
    BY <1>0, <1>3, <2>1, CountedNext, Zenon
  <2> QED
    BY <1>0, <1>3, <2>2, Zenon DEF Masked, Noted
<1>7. Restored(c)'
  <2>1. CASE ncli[c] = 0
    <3>1. held[x] = {}
      BY <1>0, <1>1, <2>1, CountFacts, DepthFacts
    <3>2. intena'[c] = eflags[x]
      BY <1>3, <2>1 DEF Pushed
    <3> QED
      BY <1>0, <1>1, <1>3, <3>1, <3>2, Zenon DEF Noted, Restored, Handling, InKernelCode
  <2>2. CASE ncli[c] # 0
    <3>1. ncli[c] > 0
      BY <1>1, <2>2
    <3>2. intena'[c] = intena[c]
      BY <1>3, <2>2, Zenon DEF Pushed
    <3> QED
      BY <1>0, <1>1, <1>3, <3>1, <3>2, Zenon DEF Restored, Handling, InKernelCode
  <2> QED
    BY <2>1, <2>2
<1>8. Owners'
  BY <1>0, <1>1, <1>3, <1>4, OwnersStay, Zenon
<1>9. NoPanic'
  <2> SUFFICES ASSUME locked[lk[x]], cpu[lk[x]] = c PROVE FALSE
    BY <1>3, Zenon DEF Holding, IInv, NoPanic
  <2>1. lk[x] \in Locks /\ lk[x] \notin held[x]
    BY <1>1 DEF Subject
  <2>2. PICK d \in CPUs : lk[x] \in held[on[d]]
    BY <2>1 DEF IInv, Owners, LockedIsHeld
  <2>3. cpu[lk[x]] \in {None, d}
    BY <2>2 DEF IInv, Owners, CpuNamed
  <2> QED
    BY <1>0, <2>1, <2>2, <2>3, SpinAssumption
<1>10. Places' /\ Subjects' /\ Loops' /\ Flags' /\ Kept'
  BY <1>0, <1>3, <1>4, <1>5, <1>6, <1>7, Stays
<1> QED
  BY <1>2, <1>8, <1>9, <1>10 DEF IInv

\* The lock is taken.
LEMMA XchgIInv ==
  ASSUME IInv, NEW c \in CPUs, Xchg(c)
  PROVE  IInv'
<1>0. PICK x \in Ctx : x = on[c]
  BY Here
<1>1. /\ pc[x] = "spin" /\ (x \in CPUs => x = c)
      /\ Subject(x) /\ Loop(x) /\ Counted(c) /\ Masked(c) /\ Noted(c) /\ Restored(c)
      /\ iflag[c] \in BOOLEAN /\ held[x] \subseteq Locks
      /\ \A d \in CPUs \ {c} : on[d] \in Ctx \ {x}
  BY <1>0, Here, HereTypes, Zenon DEF IInv, Xchg
<1>2. PICK l \in Locks : l = lk[x] /\ ~locked[l] /\ l \notin held[x] /\ (held[x] \subseteq {ptable} \/ l = ptable)
  BY <1>0, <1>1, Zenon DEF Xchg, FreeLock, Subject
<1>3. TypeOK'
  BY <1>0, <1>2 DEF Xchg, Goto, IInv, TypeOK
<1>4. /\ pc'[x] = "own" /\ held'[x] = held[x] \cup {l} /\ locked' = [locked EXCEPT ![l] = TRUE]
      /\ UNCHANGED <<cpu, iflag, ncli, intena, on, lk, eflags, saved, irq, panicked, nested>>
  BY <1>0, <1>2 DEF Xchg, Goto, IInv, TypeOK
<1>5. Elsewhere(c, {x})
  BY <1>0 DEF Xchg, Goto, IInv, TypeOK, Elsewhere, SameContext, SameCpu
<1>6. Subject(x)' /\ Loop(x)'
  BY <1>1, <1>2, <1>4, Zenon DEF Subject, Loop, Handling
<1>7. Counted(c)' /\ Masked(c)' /\ Noted(c)'
  <2>1. ncli[c] = Depth(held[x]) + 1
    BY <1>0, <1>1, CountFacts, Zenon
  <2>2. ncli'[c] = Depth(held'[x])
    <3>1. Depth(held[x] \cup {l}) = Depth(held[x]) + 1
      BY <1>2, DepthSteps, Zenon
    <3>2. ncli'[c] = ncli[c] /\ held'[x] = held[x] \cup {l}
      BY <1>4, Zenon
    <3> QED
      BY <2>1, <3>1, <3>2, Zenon
  <2>3. Counted(c)'
    BY <1>0, <1>4, <2>2, CountedNext, Zenon
  <2> QED
    BY <1>0, <1>1, <1>4, <2>3, Zenon DEF Masked, Noted
<1>8. Restored(c)'
  BY <1>0, <1>1, <1>4, Zenon DEF Restored, Handling, InKernelCode
<1>9. Owners'
  <2>1. /\ \A y \in Ctx : l \notin held[y]
        /\ \A y \in Ctx \ {x} : held'[y] = held[y] /\ SameContext(y)
        /\ \A m \in Locks : locked'[m] <=> locked[m] \/ m = l
    BY <1>2, <1>4, <1>5 DEF IInv, TypeOK, Owners, HeldIsLocked, Elsewhere, SameContext
  <2>2. (HeldIsLocked /\ Exclusive)'
    BY <1>2, <1>4, <2>1 DEF IInv, TypeOK, Owners, HeldIsLocked, Exclusive
  <2>3. LockedIsHeld'
    BY <1>0, <1>1, <1>2, <1>4, <2>1 DEF IInv, Owners, LockedIsHeld
  <2>4. FreeHasNoCpu'
    BY <1>4, <2>1, Zenon DEF IInv, Owners, FreeHasNoCpu
  <2>5. CpuNamed'
    <3> SUFFICES ASSUME NEW d \in CPUs, NEW m \in held'[on'[d]]
                 PROVE  cpu'[m] = IF lk'[on'[d]] = m /\ pc'[on'[d]] \in {"own", "rel"}
                                  THEN None ELSE d
      BY Zenon DEF CpuNamed
    <3>1. CASE d = c /\ m = l
      <4>1. cpu[l] = None
        BY <1>2, Zenon DEF IInv, Owners, FreeHasNoCpu
      <4> QED
        BY <1>0, <1>2, <1>4, <3>1, <4>1
    <3>2. CASE d = c /\ m # l
      <4>1. m \in held[x]
        BY <1>0, <1>4, <3>2
      <4>2. cpu[m] = c
        BY <1>0, <1>1, <4>1, Zenon DEF IInv, Owners, CpuNamed
      <4> QED
        BY <1>0, <1>2, <1>4, <3>2, <4>2
    <3>3. CASE d # c
      <4>1. SameContext(on[d]) /\ on'[d] = on[d] /\ m \in held[on[d]]
        BY <1>1, <1>4, <2>1, <3>3, Zenon
      <4>2. cpu[m] = IF lk[on[d]] = m /\ pc[on[d]] \in {"own", "rel"} THEN None ELSE d
        BY <4>1, Zenon DEF IInv, Owners, CpuNamed
      <4> QED
        BY <1>4, <4>1, <4>2, Zenon DEF SameContext
    <3> QED
      BY <3>1, <3>2, <3>3, Zenon
  <2> QED
    BY <2>2, <2>3, <2>4, <2>5 DEF Owners
<1>10. Places' /\ Subjects' /\ Loops' /\ Flags' /\ Kept'
  BY <1>0, <1>4, <1>5, <1>6, <1>7, <1>8, Stays, Zenon
<1> QED
  BY <1>3, <1>4, <1>9, <1>10 DEF IInv, NoPanic

\* acquire() returns.
LEMMA OwnIInv ==
  ASSUME IInv, NEW c \in CPUs, Own(c)
  PROVE  IInv'
<1>0. PICK x \in Ctx : x = on[c]
  BY Here
<1>1. /\ pc[x] = "own" /\ (x \in CPUs => x = c)
      /\ Subject(x) /\ Loop(x) /\ Counted(c) /\ Masked(c) /\ Restored(c)
      /\ iflag[c] \in BOOLEAN /\ held[x] \subseteq Locks
      /\ \A d \in CPUs \ {c} : on[d] \in Ctx \ {x}
  BY <1>0, Here, HereTypes, Zenon DEF IInv, Own
<1>a. lk[x] \in held[x]
  BY <1>1, Zenon DEF Subject
<1>2. TypeOK'
  BY <1>0, Zenon DEF Own, Goto, IInv, TypeOK
<1>3. /\ pc'[x] = "run" /\ lk'[x] = None /\ cpu' = [cpu EXCEPT ![lk[x]] = c]
      /\ UNCHANGED <<locked, iflag, ncli, intena, on, eflags, held, saved, irq, panicked, nested>>
  BY <1>0 DEF Own, Goto, IInv, TypeOK
<1>4. Elsewhere(c, {x})
  BY <1>0 DEF Own, Goto, IInv, TypeOK, Elsewhere, SameContext, SameCpu
<1>5. Subject(x)' /\ Loop(x)'
  BY <1>1, <1>a, <1>3, Zenon DEF Subject, Loop, Handling
<1>6. Counted(c)' /\ Masked(c)' /\ Noted(c)'
  BY <1>0, <1>1, <1>a, <1>3, Zenon DEF Counted, Masked, Noted, Depth, Between, Handling
<1>7. Restored(c)'
  BY <1>0, <1>1, <1>a, <1>3, Zenon DEF Restored, Handling, InKernelCode
<1>8. Owners'
  <2>1. \A m \in Locks : cpu'[m] = IF m = lk[x] THEN c ELSE cpu[m]
    BY <1>1, <1>a, <1>3, Zenon DEF IInv, TypeOK
  <2>2. (HeldIsLocked /\ Exclusive /\ LockedIsHeld)'
    BY <1>3, Zenon DEF IInv, Owners, HeldIsLocked, Exclusive, LockedIsHeld
  <2>3. FreeHasNoCpu'
    BY <1>a, <1>1, <1>3, <2>1, Zenon DEF IInv, Owners, FreeHasNoCpu, HeldIsLocked
  <2>4. \A d \in CPUs \ {c} : lk[x] \notin held[on[d]] /\ held[on[d]] \subseteq Locks
    BY <1>0, <1>1, <1>a DEF IInv, TypeOK, Owners, Exclusive
  <2>5. CpuNamed'
    <3>1. ASSUME NEW m \in held[x] PROVE cpu'[m] = c
      BY <1>0, <1>1, <2>1, <3>1 DEF IInv, Owners, CpuNamed
    <3>2. ASSUME NEW d \in CPUs \ {c}, NEW m \in held[on[d]]
          PROVE  cpu'[m] = IF lk'[on[d]] = m /\ pc'[on[d]] \in {"own", "rel"} THEN None ELSE d
      <4>1. SameContext(on[d])
        BY <1>1, <1>4, Zenon DEF Elsewhere
      <4>2. cpu[m] = IF lk[on[d]] = m /\ pc[on[d]] \in {"own", "rel"} THEN None ELSE d
        BY <3>2, Zenon DEF IInv, Owners, CpuNamed
      <4>3. cpu'[m] = cpu[m]
        BY <2>1, <2>4, <3>2, Zenon
      <4> QED
        BY <4>1, <4>2, <4>3, Zenon DEF SameContext
    <3>3. ASSUME NEW d \in CPUs, NEW m \in held'[on'[d]]
          PROVE  cpu'[m] = IF lk'[on'[d]] = m /\ pc'[on'[d]] \in {"own", "rel"} THEN None ELSE d
      <4>0. on'[d] = on[d] /\ m \in held[on[d]]
        BY <1>3, <3>3, Zenon
      <4>1. CASE d = c
        BY <1>0, <1>3, <3>1, <4>0, <4>1
      <4>2. CASE d # c
        <5>1. d \in CPUs \ {c}
          BY <4>2
        <5>2. cpu'[m] = IF lk'[on[d]] = m /\ pc'[on[d]] \in {"own", "rel"} THEN None ELSE d
          BY <3>2, <4>0, <5>1
        <5> QED
          BY <4>0, <5>2
      <4> QED
        BY <4>1, <4>2
    <3> QED
      BY <3>3, Zenon DEF CpuNamed
  <2> QED
    BY <2>2, <2>3, <2>5 DEF Owners
<1>9. Places' /\ Subjects' /\ Loops' /\ Flags' /\ Kept'
  BY <1>0, <1>3, <1>4, <1>5, <1>6, <1>7, Stays, Zenon
<1> QED
  BY <1>2, <1>3, <1>8, <1>9, Zenon DEF IInv, NoPanic

\* release() begins: holding(), and lk->cpu = 0.
LEMMA ReleaseIInv ==
  ASSUME IInv, NEW c \in CPUs, NEW l \in Locks, Release(c, l)
  PROVE  IInv'
<1>0. PICK x \in Ctx : x = on[c]
  BY Here
<1>1. /\ pc[x] = "run" /\ l \in held[x] /\ (x \in CPUs => x = c)
      /\ Subject(x) /\ Loop(x) /\ Counted(c) /\ Masked(c) /\ Restored(c)
      /\ iflag[c] \in BOOLEAN /\ held[x] \subseteq Locks
      /\ \A d \in CPUs \ {c} : on[d] \in Ctx \ {x}
  BY <1>0, Here, HereTypes, Zenon DEF IInv, Release
<1>2. TypeOK'
  BY <1>0 DEF Release, Goto, IInv, TypeOK
<1>3. /\ pc'[x] = "rel" /\ lk'[x] = l /\ cpu' = [cpu EXCEPT ![l] = None]
      /\ panicked' = (panicked \/ ~Holding(l, c))
      /\ UNCHANGED <<locked, iflag, ncli, intena, on, eflags, held, saved, irq, nested>>
  BY <1>0 DEF Release, Goto, IInv, TypeOK
<1>4. Elsewhere(c, {x})
  BY <1>0 DEF Release, Goto, IInv, TypeOK, Elsewhere, SameContext, SameCpu
<1>5. Subject(x)' /\ Loop(x)'
  BY <1>1, <1>3, Zenon DEF Subject, Loop, Handling
<1>6. Counted(c)' /\ Masked(c)' /\ Noted(c)'
  BY <1>0, <1>1, <1>3, Zenon DEF Counted, Masked, Noted, Depth, Between, Handling
<1>7. Restored(c)'
  BY <1>0, <1>1, <1>3, Zenon DEF Restored, Handling, InKernelCode
<1>8. Owners'
  <2>1. \A m \in Locks : cpu'[m] = IF m = l THEN None ELSE cpu[m]
    BY <1>3, Zenon DEF IInv, TypeOK
  <2>2. (HeldIsLocked /\ Exclusive /\ LockedIsHeld /\ FreeHasNoCpu)'
    BY <1>3, <2>1, Zenon DEF IInv, Owners, HeldIsLocked, Exclusive, LockedIsHeld, FreeHasNoCpu
  <2>3. \A d \in CPUs \ {c} : l \notin held[on[d]] /\ held[on[d]] \subseteq Locks
    BY <1>0, <1>1 DEF IInv, TypeOK, Owners, Exclusive
  <2>4. CpuNamed'
    <3>1. ASSUME NEW m \in held[x] PROVE cpu'[m] = IF m = l THEN None ELSE c
      <4>1. m \in Locks /\ cpu[m] = c
        BY <1>0, <1>1, <3>1, Zenon DEF IInv, Owners, CpuNamed
      <4> QED
        BY <2>1, <4>1
    <3>2. ASSUME NEW d \in CPUs \ {c}, NEW m \in held[on[d]]
          PROVE  cpu'[m] = IF lk'[on[d]] = m /\ pc'[on[d]] \in {"own", "rel"} THEN None ELSE d
      <4>1. SameContext(on[d])
        BY <1>1, <1>4, Zenon DEF Elsewhere
      <4>2. cpu[m] = IF lk[on[d]] = m /\ pc[on[d]] \in {"own", "rel"} THEN None ELSE d
        BY <3>2, Zenon DEF IInv, Owners, CpuNamed
      <4>3. cpu'[m] = cpu[m]
        BY <2>1, <2>3, <3>2
      <4> QED
        BY <4>1, <4>2, <4>3, Zenon DEF SameContext
    <3>3. ASSUME NEW d \in CPUs, NEW m \in held'[on'[d]]
          PROVE  cpu'[m] = IF lk'[on'[d]] = m /\ pc'[on'[d]] \in {"own", "rel"} THEN None ELSE d
      <4>0. on'[d] = on[d] /\ m \in held[on[d]]
        BY <1>3, <3>3, Zenon
      <4>1. CASE d = c
        BY <1>0, <1>3, <3>1, <4>0, <4>1, Zenon
      <4>2. CASE d # c
        <5>1. d \in CPUs \ {c}
          BY <4>2
        <5>2. cpu'[m] = IF lk'[on[d]] = m /\ pc'[on[d]] \in {"own", "rel"} THEN None ELSE d
          BY <3>2, <4>0, <5>1
        <5> QED
          BY <4>0, <5>2
      <4> QED
        BY <4>1, <4>2
    <3> QED
      BY <3>3, Zenon DEF CpuNamed
  <2> QED
    BY <2>2, <2>4 DEF Owners
<1>9. NoPanic'
  BY <1>0, <1>1, <1>3, Zenon DEF Holding, IInv, NoPanic, Owners, HeldIsLocked, CpuNamed
<1>10. Places' /\ Subjects' /\ Loops' /\ Flags' /\ Kept'
  BY <1>0, <1>3, <1>4, <1>5, <1>6, <1>7, Stays, Zenon
<1> QED
  BY <1>2, <1>8, <1>9, <1>10 DEF IInv

\* The lock is given back.
LEMMA UnlockIInv ==
  ASSUME IInv, NEW c \in CPUs, Unlock(c)
  PROVE  IInv'
<1>0. PICK x \in Ctx : x = on[c]
  BY Here
<1>1. /\ pc[x] = "rel" /\ (x \in CPUs => x = c)
      /\ Subject(x) /\ Loop(x) /\ Counted(c) /\ Masked(c) /\ Restored(c)
      /\ iflag[c] \in BOOLEAN /\ held[x] \subseteq Locks /\ ncli[c] \in Nat
      /\ \A d \in CPUs \ {c} : on[d] \in Ctx \ {x}
  BY <1>0, Here, HereTypes, Zenon DEF IInv, Unlock
<1>2. PICK l \in Locks : l = lk[x] /\ l \in held[x] /\ cpu[l] = None
  <2>1. lk[x] \in held[x]
    BY <1>1, Zenon DEF Subject
  <2>2. cpu[lk[x]] = None
    BY <1>0, <1>1, <2>1, Zenon DEF IInv, Owners, CpuNamed
  <2> QED
    BY <1>1, <2>1, <2>2, Zenon
<1>3. TypeOK'
  BY <1>0, Zenon DEF Unlock, Goto, IInv, TypeOK
<1>4. /\ pc'[x] = "pop" /\ lk'[x] = None /\ held'[x] = held[x] \ {l}
      /\ locked' = [locked EXCEPT ![l] = FALSE]
      /\ UNCHANGED <<cpu, iflag, ncli, intena, on, eflags, saved, irq, panicked, nested>>
  BY <1>0, <1>2 DEF Unlock, Goto, IInv, TypeOK
<1>5. Elsewhere(c, {x})
  BY <1>0 DEF Unlock, Goto, IInv, TypeOK, Elsewhere, SameContext, SameCpu
<1>6. Subject(x)' /\ Loop(x)'
  BY <1>1, <1>2, <1>4, Zenon DEF Subject, Loop, Handling
<1>7. Counted(c)'
  <2>1. ncli[c] = Depth(held[x])
    BY <1>0, <1>1, CountFacts, Zenon
  <2>2. ncli'[c] = Depth(held'[x]) + 1
    <3>1. \A m, n \in held[x] \ {ptable} : m = n
      BY <1>1, Zenon DEF Subject
    <3>2. Depth(held[x]) = Depth(held[x] \ {l}) + 1
      BY <1>2, <3>1, DepthSteps, Zenon
    <3>3. ncli'[c] = ncli[c] /\ held'[x] = held[x] \ {l}
      BY <1>4, Zenon
    <3> QED
      BY <2>1, <3>2, <3>3, Zenon
  <2> QED
    BY <1>0, <1>4, <2>2, CountedNext, Zenon
<1>8. Masked(c)' /\ Noted(c)'
  BY <1>0, <1>1, <1>2, <1>4, Zenon DEF Masked, Noted
<1>9. Restored(c)'
  BY <1>0, <1>1, <1>4, Zenon DEF Restored, Handling, InKernelCode
<1>10. Owners'
  <2>1. /\ \A y \in Ctx \ {x} : l \notin held[y] /\ held[y] \subseteq Locks /\ SameContext(y)
        /\ \A y \in Ctx \ {x} : held'[y] = held[y]
        /\ \A m \in Locks : locked'[m] <=> locked[m] /\ m # l
    BY <1>2, <1>4, <1>5 DEF IInv, TypeOK, Owners, Exclusive, Elsewhere, SameContext
  <2>2. HeldIsLocked'
    BY <1>1, <1>4, <2>1, Zenon DEF IInv, Owners, HeldIsLocked
  <2>3. Exclusive'
    BY <1>4, <2>1, Zenon DEF IInv, Owners, Exclusive
  <2>4. LockedIsHeld'
    <3> SUFFICES ASSUME NEW m \in Locks, locked'[m] PROVE \E d \in CPUs : m \in held'[on'[d]]
      BY Zenon DEF LockedIsHeld
    <3>1. PICK d \in CPUs : m \in held[on[d]]
      BY <2>1, Zenon DEF IInv, Owners, LockedIsHeld
    <3>2. m # l
      BY <2>1
    <3>3. CASE d = c
      BY <1>0, <1>4, <3>1, <3>2, <3>3, Zenon
    <3>4. CASE d # c
      BY <1>1, <1>4, <2>1, <3>1, <3>4, Zenon
    <3> QED
      BY <3>3, <3>4
  <2>5. FreeHasNoCpu'
    BY <1>2, <1>4, <2>1, Zenon DEF IInv, Owners, FreeHasNoCpu
  <2>6. CpuNamed'
    <3> SUFFICES ASSUME NEW d \in CPUs, NEW m \in held'[on'[d]]
                 PROVE  cpu'[m] = IF lk'[on'[d]] = m /\ pc'[on'[d]] \in {"own", "rel"}
                                  THEN None ELSE d
      BY Zenon DEF CpuNamed
    <3>1. CASE d = c
      <4>1. m \in held[x] /\ m # l
        BY <1>0, <1>4, <3>1
      <4>2. cpu[m] = c
        BY <1>0, <1>1, <1>2, <4>1, Zenon DEF IInv, Owners, CpuNamed
      <4> QED
        BY <1>0, <1>4, <3>1, <4>2
    <3>2. CASE d # c
      <4>1. SameContext(on[d]) /\ m \in held[on[d]]
        BY <1>1, <1>4, <2>1, <3>2, Zenon
      <4>2. cpu[m] = IF lk[on[d]] = m /\ pc[on[d]] \in {"own", "rel"} THEN None ELSE d
        BY <4>1, Zenon DEF IInv, Owners, CpuNamed
      <4> QED
        BY <1>4, <4>1, <4>2 DEF SameContext
    <3> QED
      BY <3>1, <3>2
  <2> QED
    BY <2>2, <2>3, <2>4, <2>5, <2>6 DEF Owners
<1>11. Places' /\ Subjects' /\ Loops' /\ Flags' /\ Kept'
  BY <1>0, <1>4, <1>5, <1>6, <1>7, <1>8, <1>9, Stays, Zenon
<1> QED
  BY <1>3, <1>4, <1>10, <1>11, Zenon DEF IInv, NoPanic

\* popcli() at the end of release().
LEMMA PopcliIInv ==
  ASSUME IInv, NEW c \in CPUs, Popcli(c)
  PROVE  IInv'
<1>0. PICK x \in Ctx : x = on[c]
  BY Here
<1>1. /\ pc[x] = "pop" /\ (x \in CPUs => x = c)
      /\ Subject(x) /\ Loop(x) /\ Counted(c) /\ Masked(c) /\ Restored(c)
      /\ iflag[c] \in BOOLEAN /\ intena[c] \in BOOLEAN /\ ncli[c] \in Nat
  BY <1>0, Here, HereTypes, Zenon DEF IInv, Popcli
<1>2. ncli[c] = Depth(held[x]) + 1 /\ ncli[c] > 0 /\ (ncli[c] = 1 <=> held[x] = {})
  <2>1. ncli[c] = Depth(held[x]) + 1
    BY <1>0, <1>1, CountFacts, Zenon
  <2>2. Depth(held[x]) \in Nat /\ (Depth(held[x]) = 0 <=> held[x] = {})
    BY DepthFacts, Zenon
  <2> QED
    BY <2>1, <2>2
<1>3. ~iflag[c]
  BY <1>0, <1>1, Zenon DEF Masked
<1>4. TypeOK'
  BY <1>0, <1>1, <1>2 DEF Popcli, Goto, Popped, IInv, TypeOK
<1>5. /\ pc'[x] = (IF x \in CPUs /\ ~Handling(x) THEN "loop" ELSE "run")
      /\ ncli'[c] = ncli[c] - 1 /\ iflag'[c] = (iflag[c] \/ Popped(c))
      /\ panicked' = (panicked \/ iflag[c] \/ ncli[c] < 1)
      /\ UNCHANGED <<locked, cpu, intena, on, lk, eflags, held, saved, irq, nested>>
  BY <1>0 DEF Popcli, Goto, IInv, TypeOK
<1>6. Elsewhere(c, {x})
  BY <1>0 DEF Popcli, Goto, IInv, TypeOK, Elsewhere, SameContext, SameCpu
<1>7. iflag'[c] <=> held[x] = {} /\ intena[c]
  BY <1>2, <1>3, <1>5, Zenon DEF Popped
<1>8. InKernelCode(x) => (intena[c] <=> ~Handling(x))
  BY <1>0, <1>1, <1>2, Zenon DEF Restored
<1>9. Subject(x)'
  BY <1>1, <1>5, Zenon DEF Subject
<1>10. Loop(x)'
  BY <1>0, <1>1, <1>5, Zenon DEF Loop, Handling
<1>11. Counted(c)' /\ Noted(c)'
  <2>1. pc'[x] \in {"loop", "run"}
    BY <1>5, Zenon
  <2>2. ncli'[c] = Depth(held'[x])
    <3>1. ncli'[c] = (Depth(held[x]) + 1) - 1 /\ held'[x] = held[x] /\ Depth(held[x]) \in Nat
      BY <1>2, <1>5, DepthFacts, Zenon
    <3> QED
      BY <3>1
  <2>3. Counted(c)'
    BY <1>0, <1>5, <2>1, <2>2, CountedNext, Zenon
  <2> QED
    BY <1>0, <1>5, <2>1, <2>3, Zenon DEF Noted
<1>12. Masked(c)'
  BY <1>0, <1>5, <1>7, <1>8, Zenon DEF Masked, Handling, InKernelCode
<1>13. Restored(c)'
  BY <1>0, <1>5, <1>7, <1>8, Zenon DEF Restored, Handling, InKernelCode
<1>14. Owners'
  BY <1>0, <1>1, <1>5, <1>6, OwnersStay
<1>15. NoPanic'
  <2>1. ~(ncli[c] < 1)
    BY <1>1, <1>2
  <2> QED
    BY <1>3, <1>5, <2>1, Zenon DEF IInv, NoPanic
<1>16. Places' /\ Subjects' /\ Loops' /\ Flags' /\ Kept'
  BY <1>0, <1>5, <1>6, <1>9, <1>10, <1>11, <1>12, <1>13, Stays, Zenon
<1> QED
  BY <1>4, <1>14, <1>15, <1>16 DEF IInv

\* An interrupt comes.
LEMMA InterruptIInv ==
  ASSUME IInv, NEW c \in CPUs, Interrupt(c)
  PROVE  IInv'
<1>0. PICK x \in Ctx : x = on[c]
  BY Here
<1>1. /\ iflag[c] /\ (x \in CPUs => x = c)
      /\ Subject(x) /\ Loop(x) /\ Counted(c) /\ Masked(c) /\ Noted(c)
      /\ lk[x] \in Locks \cup {None} /\ eflags[x] \in BOOLEAN
  BY <1>0, Here, HereTypes, Zenon DEF IInv, Interrupt
<1>2. ~Handling(x) /\ held[x] = {} /\ pc[x] \in {"run", "loop", "idle", "cli"}
  BY <1>0, <1>1, Zenon DEF Masked
<1>3. PICK f \in Frames : /\ f = [pc |-> pc[x], lk |-> lk[x], eflags |-> eflags[x]]
                          /\ f # NoFrame /\ f.pc = pc[x] /\ f.lk = lk[x] /\ f.eflags = eflags[x]
  <2> DEFINE g == [pc |-> pc[x], lk |-> lk[x], eflags |-> eflags[x]]
  <2>1. g \in Frames
    BY <1>1, <1>2, Zenon DEF Frames
  <2>2. g # NoFrame
    BY <2>1, FrameFacts, Zenon
  <2> QED
    BY <2>1, <2>2
<1>4. /\ irq' = [irq EXCEPT ![x] = f] /\ pc' = [pc EXCEPT ![x] = "run"]
      /\ lk' = [lk EXCEPT ![x] = None] /\ eflags' = [eflags EXCEPT ![x] = FALSE]
      /\ iflag' = [iflag EXCEPT ![c] = FALSE]
      /\ UNCHANGED <<locked, cpu, ncli, intena, on, held, saved, panicked, nested>>
  BY <1>0, <1>2, <1>3, Zenon DEF Interrupt, Goto
<1>5. TypeOK'
  BY <1>4 DEF IInv, TypeOK
<1>6. irq'[x] = f /\ pc'[x] = "run" /\ lk'[x] = None /\ ~iflag'[c]
  BY <1>4 DEF IInv, TypeOK
<1>7. Elsewhere(c, {x})
  BY <1>4 DEF IInv, TypeOK, Elsewhere, SameContext, SameCpu
<1>8. Subject(x)'
  BY <1>1, <1>4, <1>6, Zenon DEF Subject
<1>9. Loop(x)'
  <2>1. x \in CPUs => pc[x] # "run"
    BY <1>0, <1>1, <1>2, Zenon DEF Loop
  <2>2. x \notin CPUs => pc[x] \notin {"loop", "idle"}
    BY <1>1, Zenon DEF Loop
  <2>3. pc[x] = "cli" => eflags[x] /\ lk[x] \in Locks
    BY <1>0, <1>1, Zenon DEF Noted, Subject
  <2>4. pc[x] = "cli" /\ x \in CPUs => lk[x] = ptable
    BY <1>0, <1>1, <1>2, Zenon DEF Loop
  <2>5. x \in CPUs => saved'[x] = FALSE
    BY <1>1, <1>4, Zenon DEF Loop
  <2> QED
    BY <1>2, <1>3, <1>6, <2>1, <2>2, <2>3, <2>4, <2>5, Zenon DEF Loop, Handling
<1>10. ncli[c] = 0
  BY <1>0, <1>1, <1>2, CountFacts, Zenon
<1>11. Counted(c)' /\ Masked(c)' /\ Noted(c)'
  <2>1. ncli'[c] = Depth(held'[x])
    BY <1>2, <1>4, <1>10, DepthFacts, Zenon
  <2>2. Counted(c)'
    BY <1>0, <1>4, <1>6, <2>1, CountedNext, Zenon
  <2> QED
    BY <1>0, <1>4, <1>6, <2>2, Zenon DEF Masked, Noted
<1>12. Restored(c)'
  <2>0. ncli'[c] = 0
    BY <1>4, <1>10, Zenon
  <2>1. ~(ncli'[c] > 0)
    BY <2>0
  <2> QED
    BY <1>0, <1>3, <1>4, <1>6, <2>1, Zenon DEF Restored, Handling
<1>13. Owners'
  BY <1>0, <1>2, <1>4, <1>6, <1>7, OwnersStay, Zenon
<1>14. Places' /\ Subjects' /\ Loops' /\ Flags' /\ Kept'
  BY <1>0, <1>4, <1>6, <1>7, <1>8, <1>9, <1>11, <1>12, Stays
<1> QED
  BY <1>4, <1>5, <1>13, <1>14 DEF IInv, NoPanic

\* A handler returns.
LEMMA IretIInv ==
  ASSUME IInv, NEW c \in CPUs, Iret(c)
  PROVE  IInv'
<1>0. PICK x \in Ctx : x = on[c]
  BY Here
<1>1. /\ pc[x] = "run" /\ Handling(x) /\ held[x] = {} /\ (x \in CPUs => x = c)
      /\ Loop(x) /\ Counted(c)
      /\ irq[x] \in Frames \cup {NoFrame}
  BY <1>0, Here, HereTypes, Zenon DEF IInv, Iret
<1>2. PICK f \in Frames : /\ f = irq[x] /\ f.pc \in {"run", "loop", "idle", "cli"}
                          /\ f.lk \in Locks \cup {None} /\ f.eflags \in BOOLEAN
  BY <1>1, FrameFacts DEF Handling
<1>3. /\ irq' = [irq EXCEPT ![x] = NoFrame] /\ pc' = [pc EXCEPT ![x] = f.pc]
      /\ lk' = [lk EXCEPT ![x] = f.lk] /\ eflags' = [eflags EXCEPT ![x] = f.eflags]
      /\ iflag' = [iflag EXCEPT ![c] = TRUE]
      /\ UNCHANGED <<locked, cpu, ncli, intena, on, held, saved, panicked, nested>>
  BY <1>0, <1>2, Zenon DEF Iret, Goto
<1>4. TypeOK'
  BY <1>2, <1>3 DEF IInv, TypeOK
<1>5. /\ irq'[x] = NoFrame /\ pc'[x] = f.pc /\ lk'[x] = f.lk /\ eflags'[x] = f.eflags
      /\ iflag'[c] = TRUE
  BY <1>3 DEF IInv, TypeOK
<1>6. Elsewhere(c, {x})
  BY <1>3 DEF IInv, TypeOK, Elsewhere, SameContext, SameCpu
<1>7. /\ f.pc \in (IF x \in CPUs THEN {"loop", "idle", "cli"} ELSE {"run", "cli"})
      /\ f.pc = "cli" => f.eflags /\ f.lk \in Locks
      /\ f.pc = "cli" /\ x \in CPUs => f.lk = ptable
      /\ x \in CPUs => saved[x] = FALSE
  BY <1>1, <1>2, Zenon DEF Loop
<1>8. Subject(x)'
  BY <1>1, <1>2, <1>3, <1>5, <1>7, Zenon DEF Subject
<1>9. Loop(x)'
  BY <1>1, <1>3, <1>5, <1>7, Zenon DEF Loop, Handling
<1>10. ncli[c] = 0
  BY <1>0, <1>1, CountFacts, Zenon
<1>11. Counted(c)'
  <2>1. ncli'[c] = Depth(held'[x])
    BY <1>1, <1>3, <1>10, DepthFacts, Zenon
  <2> QED
    BY <1>0, <1>2, <1>3, <1>5, <2>1, CountedNext
<1>12. Masked(c)' /\ Noted(c)'
  BY <1>0, <1>1, <1>2, <1>3, <1>5, <1>7, Zenon DEF Masked, Noted, Handling
<1>13. Restored(c)'
  <2>0. ncli'[c] = 0
    BY <1>3, <1>10, Zenon
  <2>1. ~(ncli'[c] > 0)
    BY <2>0
  <2> QED
    BY <1>0, <1>3, <1>5, <2>1, Zenon DEF Restored, Handling
<1>14. Owners'
  BY <1>0, <1>1, <1>2, <1>3, <1>5, <1>6, OwnersStay, Zenon
<1>15. Places' /\ Subjects' /\ Loops' /\ Flags' /\ Kept'
  BY <1>0, <1>2, <1>3, <1>5, <1>6, <1>8, <1>9, <1>11, <1>12, <1>13, Stays
<1> QED
  BY <1>3, <1>4, <1>14, <1>15 DEF IInv, NoPanic

\* The scheduler lets interrupts in.
LEMMA SchedLoopIInv ==
  ASSUME IInv, NEW c \in CPUs, SchedLoop(c)
  PROVE  IInv'
<1>0. c \in Ctx /\ on[c] = c
  BY Here, Zenon DEF SchedLoop
<1>1. /\ pc[c] = "loop" /\ Subject(c) /\ Loop(c) /\ Counted(c)
  <2>1. Subject(on[c]) /\ Loop(on[c]) /\ Counted(c)
    BY Here, Zenon
  <2> QED
    BY <1>0, <2>1, Zenon DEF SchedLoop
<1>2. ~Handling(c) /\ held[c] = {} /\ saved[c] = FALSE
  BY <1>0, <1>1, Zenon DEF Loop
<1>3. TypeOK'
  BY <1>0 DEF SchedLoop, Goto, IInv, TypeOK
<1>4. /\ pc'[c] = "idle" /\ iflag'[c] = TRUE
      /\ UNCHANGED <<locked, cpu, ncli, intena, on, lk, eflags, held, saved, irq, panicked, nested>>
  BY <1>0 DEF SchedLoop, Goto, IInv, TypeOK
<1>5. Elsewhere(c, {c})
  BY <1>0 DEF SchedLoop, Goto, IInv, TypeOK, Elsewhere, SameContext, SameCpu
<1>6. Subject(c)'
  BY <1>1, <1>4 DEF Subject
<1>7. Loop(c)'
  BY <1>2, <1>4, Zenon DEF Loop, Handling
<1>8. Counted(c)' /\ Masked(c)' /\ Noted(c)'
  BY <1>0, <1>1, <1>2, <1>4 DEF Counted, Masked, Noted, Depth, Between, Handling
<1>9. Restored(c)'
  BY <1>0, <1>2, <1>4, SpinAssumption, Zenon DEF Restored, Handling, InKernelCode
<1>10. Owners'
  BY <1>0, <1>1, <1>4, <1>5, OwnersStay
<1>11. Places' /\ Subjects' /\ Loops' /\ Flags' /\ Kept'
  BY <1>0, <1>4, <1>5, <1>6, <1>7, <1>8, <1>9, Stays, Zenon
<1> QED
  BY <1>3, <1>4, <1>10, <1>11, Zenon DEF IInv, NoPanic

\* forkret() returns to user mode.
LEMMA ForkReturnIInv ==
  ASSUME IInv, NEW c \in CPUs, ForkReturn(c)
  PROVE  IInv'
<1>0. PICK x \in Ctx : x = on[c]
  BY Here
<1>1. /\ pc[x] = "run" /\ held[x] = {} /\ ~Handling(x) /\ saved[x] = New
      /\ Subject(x) /\ Loop(x) /\ Counted(c)
  BY <1>0, Here, Zenon DEF ForkReturn
<1>2. x \notin CPUs
  BY <1>1, SpinAssumption, Zenon DEF Loop, New
<1>3. TypeOK'
  BY <1>0 DEF ForkReturn, IInv, TypeOK
<1>4. /\ iflag'[c] = TRUE /\ saved'[x] = FALSE
      /\ UNCHANGED <<locked, cpu, ncli, intena, on, pc, lk, eflags, held, irq, panicked, nested>>
  BY <1>0 DEF ForkReturn, IInv, TypeOK
<1>5. Elsewhere(c, {x})
  BY <1>0 DEF ForkReturn, IInv, TypeOK, Elsewhere, SameContext, SameCpu
<1>6. Subject(x)'
  BY <1>1, <1>4, Zenon DEF Subject
<1>7. Loop(x)'
  BY <1>1, <1>2, <1>4, Zenon DEF Loop, Handling
<1>8. ncli[c] = 0
  BY <1>0, <1>1, CountFacts, Zenon
<1>9. Counted(c)' /\ Masked(c)' /\ Noted(c)'
  BY <1>0, <1>1, <1>4, Zenon DEF Counted, Masked, Noted, Depth, Between, Handling
<1>10. Restored(c)'
  <2>0. ncli'[c] = 0
    BY <1>4, <1>8, Zenon
  <2>1. ~(ncli'[c] > 0)
    BY <2>0
  <2> QED
    BY <1>0, <1>1, <1>4, <2>1, Zenon DEF Restored, Handling
<1>11. Owners'
  BY <1>0, <1>1, <1>4, <1>5, OwnersStay, Zenon
<1>12. Places' /\ Subjects' /\ Loops' /\ Flags' /\ Kept'
  BY <1>0, <1>1, <1>4, <1>5, <1>6, <1>7, <1>9, <1>10, Stays, Zenon
<1> QED
  BY <1>3, <1>4, <1>11, <1>12 DEF IInv, NoPanic

\* A thread gives up its CPU: ptable.lock passes to the scheduler.
LEMMA SchedOutIInv ==
  ASSUME IInv, NEW c \in CPUs, SchedOut(c)
  PROVE  IInv'
<1>0. PICK x \in Ctx : x = on[c]
  BY Here
<1>1. /\ x \in Threads /\ pc[x] = "run" /\ InKernelCode(x) /\ held[x] = {ptable}
      /\ Subject(x) /\ Loop(x) /\ Counted(c) /\ Masked(c) /\ Restored(c)
      /\ intena[c] \in BOOLEAN /\ c \in Ctx
      /\ \A d \in CPUs \ {c} : on[d] \in Ctx \ {x}
  BY <1>0, Here, HereTypes, Zenon DEF IInv, SchedOut, OnlyPtable
<1>2. ncli[c] = 1 /\ ~iflag[c] /\ cpu[ptable] = c /\ locked[ptable]
  <2>1. ncli[c] = 1
    BY <1>0, <1>1, CountFacts
  <2>2. ~iflag[c]
    BY <1>0, <1>1, Zenon DEF Masked
  <2>3. locked[ptable] /\ cpu[ptable] = c
    BY <1>0, <1>1, Zenon DEF IInv, Owners, HeldIsLocked, CpuNamed
  <2> QED
    BY <2>1, <2>2, <2>3
<1>3. intena[c] <=> ~Handling(x)
  <2>1. ncli[c] > 0
    BY <1>2
  <2> QED
    BY <1>0, <1>1, <2>1, Zenon DEF Restored
<1>4. c # x /\ on[c] # c /\ pc[c] = "run" /\ held[c] = {} /\ ~Handling(c) /\ saved[c] = FALSE
  <2>1. c # x
    BY <1>1, SpinAssumption
  <2>2. Loop(c)
    BY <1>1 DEF IInv, Loops
  <2> QED
    BY <1>0, <2>1, <2>2, Zenon DEF IInv, Places, Loop
<1>5. /\ on' = [on EXCEPT ![c] = c] /\ pc' = [pc EXCEPT ![x] = "out"]
      /\ held' = [held EXCEPT ![x] = {}, ![c] = {ptable}]
      /\ \/ saved' = [saved EXCEPT ![x] = intena[c]] /\ irq' = irq
         \/ saved' = [saved EXCEPT ![x] = New] /\ irq' = [irq EXCEPT ![x] = NoFrame]
      /\ UNCHANGED <<locked, cpu, iflag, ncli, intena, lk, eflags, nested>>
  <2>1. held' = [held EXCEPT ![x] = held[x] \ {ptable}, ![c] = {ptable}]
    BY <1>0, Zenon DEF SchedOut
  <2>2. held[x] \ {ptable} = {}
    BY <1>1
  <2> QED
    BY <1>0, <2>1, <2>2, Zenon DEF SchedOut, Goto
<1>a. panicked' = FALSE
  <2>1. panicked' = (panicked \/ ~Holding(ptable, c) \/ ncli[c] # 1 \/ iflag[c])
    BY Zenon DEF SchedOut
  <2>2. ~panicked /\ Holding(ptable, c)
    BY <1>2 DEF IInv, NoPanic, Holding
  <2> QED
    BY <1>2, <2>1, <2>2, Zenon
<1>6. TypeOK'
  BY <1>0, <1>1, <1>5, <1>a, Zenon DEF IInv, TypeOK, Locks
<1>7. /\ on'[c] = c /\ pc'[x] = "out" /\ pc'[c] = "run" /\ held'[x] = {} /\ held'[c] = {ptable}
      /\ saved'[c] = FALSE /\ irq'[c] = irq[c]
      /\ \/ saved'[x] = intena[c] /\ irq'[x] = irq[x]
         \/ saved'[x] = New /\ irq'[x] = NoFrame
  BY <1>0, <1>1, <1>4, <1>5, Zenon DEF IInv, TypeOK
<1>8. Elsewhere(c, {x, c})
  <2>1. ASSUME NEW y \in Ctx \ {x, c} PROVE SameContext(y)
    BY <1>5 DEF IInv, TypeOK, SameContext
  <2>2. ASSUME NEW d \in CPUs \ {c} PROVE SameCpu(d) /\ on'[d] = on[d]
    BY <1>5 DEF IInv, TypeOK, SameCpu
  <2> QED
    BY <2>1, <2>2, Zenon DEF Elsewhere
<1>9. ASSUME NEW d \in CPUs \ {c}
      PROVE  on[d] \in Ctx \ {x, c} /\ on'[d] = on[d] /\ SameContext(on[d])
  <2>0. on[d] = d \/ on[d] \in Threads
    BY Zenon DEF IInv, Places
  <2>1. on[d] \in Ctx \ {x, c}
    BY <1>1, <2>0, SpinAssumption, Zenon
  <2> QED
    BY <2>1, <1>8, Zenon DEF Elsewhere
<1>10. Subject(x)' /\ Subject(c)'
  BY <1>7, Zenon DEF Subject
<1>11. Loop(x)' /\ Loop(c)'
  <2>1. irq'[x] # NoFrame => irq'[x] = irq[x] /\ Handling(x)
    BY <1>7, Zenon DEF Handling
  <2>2. Loop(x)'
    BY <1>1, <1>7, <2>1, SpinAssumption, Zenon DEF Loop, Handling
  <2>3. Loop(c)'
    BY <1>4, <1>7, Zenon DEF Loop, Handling
  <2> QED
    BY <2>2, <2>3
<1>12. FlagsOf(c)'
  <2>0. ncli'[c] = 1 /\ ~iflag'[c]
    BY <1>2, <1>5, Zenon
  <2>1. Counted(c)' /\ Masked(c)' /\ Noted(c)'
    <3>1. ncli'[c] = Depth(held'[c])
      BY <1>7, <2>0, DepthFacts, Zenon
    <3>2. Counted(c)'
      BY <1>7, <2>0, <3>1, CountedNext, Zenon
    <3> QED
      BY <1>7, <2>0, <3>2, Zenon DEF Masked, Noted
  <2>2. Restored(c)'
    BY <1>4, <1>7, SpinAssumption, Zenon DEF Restored, Handling, InKernelCode
  <2> QED
    BY <2>1, <2>2 DEF FlagsOf
<1>13. Subjects' /\ Loops' /\ Flags'
  BY <1>8, <1>9, <1>10, <1>11, <1>12, Frame, Zenon
<1>14. Switch(c, x, c)
  BY <1>0, <1>1, <1>4, <1>5, <1>7, <1>8, <1>9, Zenon DEF Switch
<1>b. Places'
  <2>1. ~Handling(c)'
    BY <1>4, <1>7, Zenon DEF Handling
  <2> QED
    BY <1>1, <1>4, <1>7, <1>14, <2>1, PlacesSwitch, Zenon
<1>15. Kept'
  <2>1. ASSUME NEW y \in Threads, y # x PROVE SameContext(y)
    BY <1>8, <2>1, SpinAssumption DEF Elsewhere, Ctx
  <2>2. IF saved'[x] = New THEN irq'[x] = NoFrame ELSE saved'[x] <=> irq'[x] = NoFrame
    BY <1>1, <1>3, <1>7, SpinAssumption, Zenon DEF Handling, New
  <2>3. ASSUME NEW y \in Threads, pc'[y] = "out"
        PROVE  IF saved'[y] = New THEN irq'[y] = NoFrame ELSE saved'[y] <=> irq'[y] = NoFrame
    BY <2>1, <2>2, <2>3, Zenon DEF IInv, Kept, Handling, SameContext
  <2> QED
    BY <2>3 DEF Kept, Handling, New
<1>16. Owners'
  BY <1>1, <1>14, OwnersSwitch, Zenon
<1>17. NoPanic'
  BY <1>5, <1>a DEF IInv, NoPanic
<1> QED
  BY <1>6, <1>13, <1>b, <1>15, <1>16, <1>17 DEF IInv

\* A thread gets a CPU: the scheduler passes ptable.lock on.
LEMMA DispatchIInv ==
  ASSUME IInv, NEW c \in CPUs, NEW x \in Threads, Dispatch(c, x)
  PROVE  IInv'
<1>1. /\ on[c] = c /\ pc[c] = "run" /\ held[c] = {ptable} /\ ~Handling(c) /\ pc[x] = "out"
      /\ c \in Ctx /\ x \in Ctx /\ c # x
  BY SpinAssumption DEF Dispatch, Ctx
<1>2. /\ held[x] = {} /\ \A d \in CPUs : on[d] # x
      /\ Loop(c) /\ Loop(x) /\ Counted(c) /\ Masked(c) /\ saved[c] = FALSE
      /\ intena[c] \in BOOLEAN /\ saved[x] \in BOOLEAN \cup {New}
  BY <1>1, HereTypes, Zenon DEF IInv, Places, Loops, Loop, Flags, FlagsOf
<1>3. ncli[c] = 1 /\ ~iflag[c] /\ cpu[ptable] = c /\ locked[ptable]
  <2>1. ncli[c] = 1
    BY <1>1, <1>2, CountFacts, Zenon
  <2>2. ~iflag[c]
    BY <1>1, <1>2, Zenon DEF Masked
  <2>3. locked[ptable] /\ cpu[ptable] = c
    BY <1>1, Zenon DEF IInv, Owners, HeldIsLocked, CpuNamed
  <2> QED
    BY <2>1, <2>2, <2>3
<1>4. /\ on' = [on EXCEPT ![c] = x] /\ pc' = [pc EXCEPT ![x] = "run"]
      /\ held' = [held EXCEPT ![c] = {}, ![x] = {ptable}]
      /\ intena' = Resumed(c, x)
      /\ saved' = [saved EXCEPT ![x] = IF @ = New THEN New ELSE FALSE]
      /\ UNCHANGED <<locked, cpu, iflag, ncli, lk, eflags, irq, panicked, nested>>
  BY DEF Dispatch, Goto
<1>5. /\ intena' \in [CPUs -> BOOLEAN] /\ \A d \in CPUs \ {c} : intena'[d] = intena[d]
      /\ saved[x] # New => intena'[c] = saved[x]
  BY <1>2, <1>4 DEF Resumed, IInv, TypeOK
<1>6. TypeOK'
  BY <1>1, <1>4, <1>5, Zenon DEF IInv, TypeOK, Locks
<1>7. /\ on'[c] = x /\ pc'[x] = "run" /\ pc'[c] = "run" /\ held'[c] = {} /\ held'[x] = {ptable}
      /\ saved'[c] = saved[c] /\ (saved'[x] = New <=> saved[x] = New)
  BY <1>1, <1>4, SpinAssumption, Zenon DEF IInv, TypeOK, New
<1>8. Elsewhere(c, {c, x})
  BY <1>1, <1>4, <1>5, Zenon DEF IInv, TypeOK, Elsewhere, SameContext, SameCpu
<1>9. ASSUME NEW d \in CPUs \ {c}
      PROVE  on[d] \in Ctx \ {c, x} /\ on'[d] = on[d] /\ SameContext(on[d])
  <2>1. on[d] \in Ctx \ {c, x}
    BY <1>1, <1>2 DEF IInv, TypeOK, Places
  <2> QED
    BY <2>1, <1>8, Zenon DEF Elsewhere
<1>10. Subject(x)' /\ Subject(c)'
  BY <1>7, Zenon DEF Subject
<1>11. Loop(x)' /\ Loop(c)'
  <2>1. Loop(x)'
    BY <1>2, <1>4, <1>7, SpinAssumption, Zenon DEF Loop, Handling
  <2>2. Loop(c)'
    BY <1>1, <1>2, <1>4, <1>7, Zenon DEF Loop, Handling
  <2> QED
    BY <2>1, <2>2
<1>12. FlagsOf(c)'
  <2>0. ncli'[c] = 1 /\ ~iflag'[c] /\ irq'[x] = irq[x]
    BY <1>3, <1>4, Zenon
  <2>1. Counted(c)' /\ Masked(c)' /\ Noted(c)'
    <3>1. ncli'[c] = Depth(held'[x])
      BY <1>7, <2>0, DepthFacts, Zenon
    <3>2. Counted(c)'
      BY <1>7, <2>0, <3>1, CountedNext, Zenon
    <3> QED
      BY <1>7, <2>0, <3>2, Zenon DEF Masked, Noted
  <2>2. IF saved[x] = New THEN ~Handling(x) ELSE saved[x] <=> ~Handling(x)
    BY <1>1 DEF IInv, Kept
  <2>3. InKernelCode(x)' => (intena'[c] <=> ~Handling(x))
    BY <1>5, <1>7, <2>0, <2>2, Zenon DEF InKernelCode, Handling, New
  <2>4. Restored(c)'
    BY <1>7, <2>0, <2>3 DEF Restored, Handling
  <2> QED
    BY <2>1, <2>4 DEF FlagsOf
<1>13. Subjects' /\ Loops' /\ Flags'
  BY <1>8, <1>9, <1>10, <1>11, <1>12, Frame, Zenon
<1>14. Switch(c, c, x)
  BY <1>1, <1>2, <1>4, <1>7, <1>8, <1>9, Zenon DEF Switch
<1>b. Places'
  <2>1. ~Handling(c)'
    BY <1>1, <1>4, Zenon DEF Handling
  <2> QED
    BY <1>7, <1>14, <2>1, PlacesSwitch
<1>15. Kept'
  <2>1. ASSUME NEW y \in Threads, pc'[y] = "out"
        PROVE  SameContext(y)
    BY <1>7, <1>8, <2>1, SpinAssumption, Zenon DEF Elsewhere, Ctx
  <2> QED
    BY <2>1, Zenon DEF IInv, Kept, Handling, SameContext
<1>16. Owners'
  BY <1>1, <1>14, OwnersSwitch, Zenon
<1>17. NoPanic'
  BY <1>4 DEF IInv, NoPanic
<1> QED
  BY <1>6, <1>13, <1>b, <1>15, <1>16, <1>17 DEF IInv

-----------------------------------------------------------------------------

\* Every step of Spinlock keeps the invariant.
LEMMA NextIInv == IInv /\ [Next]_vars => IInv'
<1> SUFFICES ASSUME IInv, [Next]_vars PROVE IInv'
  OBVIOUS
<1>1. ASSUME NEW c \in CPUs, NEW l \in Locks, Acquire(c, l) \/ Release(c, l)
      PROVE  IInv'
  BY <1>1, AcquireIInv, ReleaseIInv
<1>2. ASSUME NEW c \in CPUs, Cli(c) \/ Xchg(c) \/ Own(c) \/ Unlock(c) \/ Popcli(c)
      PROVE  IInv'
  BY <1>2, CliIInv, XchgIInv, OwnIInv, UnlockIInv, PopcliIInv
<1>3. ASSUME NEW c \in CPUs, Interrupt(c) \/ Iret(c)
      PROVE  IInv'
  BY <1>3, InterruptIInv, IretIInv
<1>4. ASSUME NEW c \in CPUs, SchedLoop(c) \/ SchedOut(c) \/ ForkReturn(c)
      PROVE  IInv'
  BY <1>4, SchedLoopIInv, SchedOutIInv, ForkReturnIInv
<1>5. ASSUME NEW c \in CPUs, NEW x \in Threads, Dispatch(c, x)
      PROVE  IInv'
  BY <1>5, DispatchIInv
<1>6. CASE UNCHANGED vars
  <2>1. TypeOK'
    BY <1>6 DEF vars, IInv, TypeOK
  <2>2. Places'
    BY <1>6, Zenon DEF vars, IInv, Places, Handling
  <2>3. Owners'
    <3>1. (HeldIsLocked /\ Exclusive /\ LockedIsHeld /\ FreeHasNoCpu)'
      BY <1>6, Zenon DEF vars, IInv, Owners, HeldIsLocked, Exclusive, LockedIsHeld, FreeHasNoCpu
    <3>2. CpuNamed'
      BY <1>6, Zenon DEF vars, IInv, Owners, CpuNamed
    <3> QED
      BY <3>1, <3>2 DEF Owners
  <2>4. Subjects'
    BY <1>6, Zenon DEF vars, IInv, Subjects, Subject
  <2>5. Loops'
    BY <1>6, Zenon DEF vars, IInv, Loops, Loop, Handling
  <2>6. Flags'
    BY <1>6, Zenon DEF vars, IInv, Flags, FlagsOf, Counted, Masked, Noted, Restored, Depth, Between,
                Handling, InKernelCode
  <2>7. Kept'
    BY <1>6, Zenon DEF vars, IInv, Kept, Handling
  <2>8. NoPanic'
    BY <1>6 DEF vars, IInv, NoPanic
  <2> QED
    BY <2>1, <2>2, <2>3, <2>4, <2>5, <2>6, <2>7, <2>8 DEF IInv
<1> QED
  BY <1>1, <1>2, <1>3, <1>4, <1>5, <1>6 DEF Next

\* The inductive invariant holds, and with it the types.
THEOREM SpinInvariant == Spec => []IInv
<1>1. Init => IInv
  BY InitIInv
<1>2. IInv /\ [Next]_vars => IInv'
  BY NextIInv
<1> QED
  BY <1>1, <1>2, PTL DEF Spec

\* Every variable of the lock and interrupt code keeps its type: ncli never goes below 0.
THEOREM SpinTypes == Spec => []TypeOK
<1>1. IInv => TypeOK
  BY DEF IInv
<1> QED
  BY <1>1, SpinInvariant, PTL

\* acquire() excludes: no two contexts have the same lock, on any CPUs.
THEOREM MutualExclusion == Spec => []Exclusive
<1>1. IInv => Exclusive
  BY DEF IInv, Owners
<1> QED
  BY <1>1, SpinInvariant, PTL

\* A locked lock is held by code that runs with interrupts off, on the CPU that
\* lk->cpu names: also ptable.lock while sched() and scheduler() pass it on.
THEOREM HoldersRun == Spec => []HolderRuns
<1>1. IInv => HolderRuns
  <2> SUFFICES ASSUME IInv, NEW l \in Locks, locked[l]
               PROVE  \E c \in CPUs :
                        /\ l \in held[on[c]] /\ ~iflag[c]
                        /\ \/ cpu[l] = c
                           \/ lk[on[c]] = l /\ pc[on[c]] \in {"own", "rel"} /\ cpu[l] = None
    BY DEF HolderRuns
  <2>1. PICK c \in CPUs : l \in held[on[c]]
    BY DEF IInv, Owners, LockedIsHeld
  <2>2. ~iflag[c]
    BY <2>1, Zenon DEF IInv, Flags, FlagsOf, Masked
  <2>3. cpu[l] = c \/ (lk[on[c]] = l /\ pc[on[c]] \in {"own", "rel"} /\ cpu[l] = None)
    BY <2>1, Zenon DEF IInv, Owners, CpuNamed
  <2> QED
    BY <2>1, <2>2, <2>3
<1> QED
  BY <1>1, SpinInvariant, PTL

\* Interrupts are off inside every critical section, nested or not.
THEOREM CriticalSectionsUninterrupted == Spec => []NoInterruptInside
<1>1. IInv => NoInterruptInside
  BY DEF IInv, Flags, FlagsOf, Masked, Counted, Depth, Between, NoInterruptInside
<1> QED
  BY <1>1, SpinInvariant, PTL

\* Outside of critical sections a thread's interrupt flag is its own, whatever
\* CPU sched() has brought it to.
THEOREM InterruptFlagKept == Spec => []FlagRestored
<1>1. IInv => FlagRestored
  BY Zenon DEF IInv, Flags, FlagsOf, Restored, FlagRestored
<1> QED
  BY <1>1, SpinInvariant, PTL

\* None of the panics of acquire(), release(), popcli() and sched() happens.
THEOREM NoLockPanic == Spec => []NoPanic
<1>1. IInv => NoPanic
  BY DEF IInv
<1> QED
  BY <1>1, SpinInvariant, PTL
=============================================================================
