-------------------------------- MODULE Bio ---------------------------------
(***************************************************************************)
(* The buffer cache of bio.c, its sleep locks (sleeplock.c) and the disk   *)
(* driver under it (ide.c).  One action is one critical section of         *)
(* bcache.lock, of a sleep lock's lk or of idelock, or a step of the drive.*)
(* sleep() gives up the lock and sleeps in one step: wakeup() needs the    *)
(* same lock.                                                              *)
(***************************************************************************)
EXTENDS Integers, Sequences, SequencesExt

CONSTANTS
  Procs,
  Writers,       \* processes in an operation of the log; the others only read
  NBUF,
  Blocks, Vals,  \* block numbers and what a block can hold
  Written,       \* the blocks that writers write
  MaxHold,       \* buffers that a writer holds at a time; a reader holds one
  MaxInUse,      \* buffers held, asked for or pinned by the log together
  ReadFails,     \* the drive may report an error
  None

ASSUME BioAssumption ==
  /\ NBUF \in Nat \ {0} /\ MaxHold \in Nat /\ MaxInUse \in Nat
  /\ Writers \subseteq Procs /\ Blocks \subseteq Nat /\ Written \subseteq Blocks
  /\ ReadFails \in BOOLEAN

Bufs == 1 .. NBUF
NoBlock == -1  \* the blockno of a buffer that binit() has left alone

VARIABLES
  disk,
  order,    \* bcache.head: the buffers, most recently used first
  buf,      \* blockno, refcnt, flags and data of each buffer
  lock,     \* the process that holds the buffer's sleep lock
  idequeue,
  drive,    \* the command the drive has, "idle", "busy" or "irq"
  pc,       \* per process: its step, see TypeOK
  cur,      \* per process: the buffer that bread(), bwrite() or brelse() is at
  held,     \* per process: the buffers between its bread() and its brelse()
  panicked

cache == <<order, buf, lock>>
ide == <<idequeue, drive, disk>>
vars == <<cache, ide, pc, cur, held, panicked>>

\* Every field in range; "lock" and "locksleep" are acquiresleep(), "io",
\* "wait" and "iosleep" are iderw(), "rel" is brelse() after releasesleep().
TypeOK ==
  /\ disk \in [Blocks -> Vals]
  /\ order \in [Bufs -> Bufs] /\ ToSet(order) = Bufs
  /\ buf \in [Bufs -> [blockno : Blocks \cup {NoBlock}, refcnt : Nat,
                       valid : BOOLEAN, dirty : BOOLEAN, data : Vals]]
  /\ lock \in [Bufs -> Procs \cup {None}]
  /\ idequeue \in Seq(Bufs)
  /\ drive.st \in {"idle", "busy", "irq"}
  /\ pc \in [Procs -> {"out", "lock", "locksleep", "locked", "io", "wait", "iosleep", "rel"}]
  /\ cur \in [Procs -> Bufs \cup {None}]
  /\ held \in [Procs -> SUBSET Bufs]
  /\ panicked \in BOOLEAN

Idle == [st |-> "idle"]

Init ==
  /\ disk = [n \in Blocks |-> CHOOSE v \in Vals : TRUE]
  /\ order = [i \in Bufs |-> NBUF + 1 - i]
  /\ buf = [b \in Bufs |-> [blockno |-> NoBlock, refcnt |-> 0, valid |-> FALSE,
                            dirty |-> FALSE, data |-> CHOOSE v \in Vals : TRUE]]
  /\ lock = [b \in Bufs |-> None]
  /\ idequeue = <<>> /\ drive = Idle
  /\ pc = [p \in Procs |-> "out"]
  /\ cur = [p \in Procs |-> None]
  /\ held = [p \in Procs |-> {}]
  /\ panicked = FALSE

-----------------------------------------------------------------------------
(* bget() *)

Cached(n) == {b \in Bufs : buf[b].blockno = n}

\* Mutant: a buffer that the log has pinned is recycled.
UnusedDirty(b) == buf[b].refcnt = 0

Unused(b) == buf[b].refcnt = 0 /\ ~buf[b].dirty

\* Buffers that cannot be recycled: the callers have them, or the log.
InUse == {b \in Bufs : buf[b].dirty \/ \E p \in Procs : b \in held[p] \cup {cur[p]}}

\* The callers ask for blocks in one order (a log block before its home
\* block, an indirect block before the bitmap), and for no more than fit.
MayAsk(p, n) ==
  /\ pc[p] = "out"
  /\ Cardinality(held[p]) < IF p \in Writers THEN MaxHold ELSE 1
  /\ \A h \in held[p] : buf[h].blockno < n
  /\ Cardinality(InUse) < MaxInUse \/ InUse \cap Cached(n) # {}

\* The scan from the head of the list: the block is cached.
BgetHit(p, n) ==
  /\ MayAsk(p, n)
  /\ Cached(n) # {}
  /\ LET b == order[SelectInSeq(order, LAMBDA c : c \in Cached(n))]
     IN /\ buf' = [buf EXCEPT ![b].refcnt = @ + 1]
        /\ cur' = [cur EXCEPT ![p] = b]
  /\ pc' = [pc EXCEPT ![p] = "lock"]
  /\ UNCHANGED <<order, lock, ide, held, panicked>>

\* The scan from the tail: recycle the least recently used buffer that nobody
\* needs, or panic("bget: no buffers").
BgetRecycle(p, n) ==
  /\ MayAsk(p, n)
  /\ Cached(n) = {}
  /\ IF \E b \in Bufs : Unused(b)
       THEN LET b == order[SelectLastInSeq(order, Unused)]
            IN /\ buf' = [buf EXCEPT ![b].blockno = n, ![b].valid = FALSE,
                                     ![b].dirty = FALSE, ![b].refcnt = 1]
               /\ cur' = [cur EXCEPT ![p] = b]
               /\ pc' = [pc EXCEPT ![p] = "lock"]
               /\ UNCHANGED panicked
       ELSE panicked' = TRUE /\ UNCHANGED <<buf, cur, pc>>
  /\ UNCHANGED <<order, lock, ide, held>>

-----------------------------------------------------------------------------
(* Sleep locks *)

\* acquiresleep(): the loop's test, at the call and after every wakeup.
AcquireSleep(p) ==
  /\ pc[p] = "lock"
  /\ IF lock[cur[p]] = None
       THEN /\ lock' = [lock EXCEPT ![cur[p]] = p]
            /\ pc' = [pc EXCEPT ![p] = "locked"]
       ELSE /\ pc' = [pc EXCEPT ![p] = "locksleep"]
            /\ UNCHANGED lock
  /\ UNCHANGED <<order, buf, ide, cur, held, panicked>>

\* Mutant: wakeup() is not called.
WakeNobody(f, b, asleep, awake) == f

\* wakeup(chan): every process asleep on b, in the loop that uses this channel.
Wake(f, b, asleep, awake) ==
  [q \in Procs |-> IF f[q] = asleep /\ cur[q] = b THEN awake ELSE f[q]]

\* kill() makes any sleeper runnable; both loops test again.
KillWakes(p) ==
  /\ pc[p] \in {"locksleep", "iosleep"}
  /\ pc' = [pc EXCEPT ![p] = IF @ = "locksleep" THEN "lock" ELSE "wait"]
  /\ UNCHANGED <<cache, ide, cur, held, panicked>>

-----------------------------------------------------------------------------
(* The disk driver *)

\* idestart(): the command for the first request of queue q.
Start(q, f) ==
  IF q = <<>> THEN Idle
  ELSE [st |-> "busy", write |-> f[Head(q)].dirty,
        block |-> f[Head(q)].blockno, data |-> f[Head(q)].data]

Clean(b) == buf[b].valid /\ ~buf[b].dirty

\* iderw(): append the request, start the drive if it is the only one, sleep.
\* The two assertions are panic("iderw: buf not locked") and ("nothing to do").
Iderw(p) ==
  LET b == cur[p]
      q == Append(idequeue, b)
  IN /\ pc[p] = "io"
     /\ IF lock[b] = p /\ ~Clean(b)
          THEN /\ idequeue' = q
               /\ drive' = IF Head(q) = b THEN Start(q, buf) ELSE drive
               /\ pc' = [pc EXCEPT ![p] = "iosleep"]
               /\ UNCHANGED panicked
          ELSE panicked' = TRUE /\ UNCHANGED <<idequeue, drive, pc>>
     /\ UNCHANGED <<cache, disk, cur, held>>

\* iderw(), after a wakeup: the request is done, and bread() or bwrite()
\* returns, or the process sleeps again.
IderwTest(p) ==
  /\ pc[p] = "wait"
  /\ IF Clean(cur[p])
       THEN /\ pc' = [pc EXCEPT ![p] = "out"]
            /\ held' = [held EXCEPT ![p] = @ \cup {cur[p]}]
            /\ cur' = [cur EXCEPT ![p] = None]
       ELSE pc' = [pc EXCEPT ![p] = "iosleep"] /\ UNCHANGED <<held, cur>>
  /\ UNCHANGED <<cache, ide, panicked>>

\* The drive carries out its command and raises IRQ_IDE.
DriveDone ==
  /\ drive.st = "busy"
  /\ drive' = [drive EXCEPT !.st = "irq"]
  /\ disk' = IF drive.write THEN [disk EXCEPT ![drive.block] = drive.data] ELSE disk
  /\ UNCHANGED <<cache, idequeue, pc, cur, held, panicked>>

\* ideintr(): the first request is the active one; read its data (a failed read
\* leaves the buffer as it was), wake its process, start the next request.
ideintr ==
  LET b == Head(idequeue)
  IN /\ drive.st = "irq"
     /\ \E d \in (IF buf[b].dirty THEN {buf[b].data} ELSE {disk[drive.block]})
                   \cup (IF ReadFails THEN {buf[b].data} ELSE {}) :
          buf' = [buf EXCEPT ![b].data = d, ![b].valid = TRUE, ![b].dirty = FALSE]
     /\ pc' = Wake(pc, b, "iosleep", "wait")
     /\ idequeue' = Tail(idequeue)
     /\ drive' = Start(Tail(idequeue), buf')
     /\ UNCHANGED <<order, lock, disk, cur, held, panicked>>

-----------------------------------------------------------------------------
(* bread(), bwrite(), log_write(), brelse() *)

\* bread(), with the buffer locked: return it, or read the block first.
Bread(p) ==
  /\ pc[p] = "locked"
  /\ IF buf[cur[p]].valid
       THEN /\ pc' = [pc EXCEPT ![p] = "out"]
            /\ held' = [held EXCEPT ![p] = @ \cup {cur[p]}]
            /\ cur' = [cur EXCEPT ![p] = None]
       ELSE pc' = [pc EXCEPT ![p] = "io"] /\ UNCHANGED <<held, cur>>
  /\ UNCHANGED <<cache, ide, panicked>>

\* The caller changes b->data and calls bwrite().
Bwrite(p, b, v) ==
  /\ pc[p] = "out" /\ b \in held[p]
  /\ buf' = [buf EXCEPT ![b].data = v, ![b].dirty = TRUE]
  /\ cur' = [cur EXCEPT ![p] = b]
  /\ pc' = [pc EXCEPT ![p] = "io"]
  /\ UNCHANGED <<order, lock, ide, held, panicked>>

\* brelse(), its assertion and releasesleep().
releasesleep(p, b) ==
  /\ pc[p] = "out" /\ b \in held[p]
  /\ panicked' = (panicked \/ lock[b] # p)
  /\ lock' = [lock EXCEPT ![b] = None]
  /\ pc' = [Wake(pc, b, "locksleep", "lock") EXCEPT ![p] = "rel"]
  /\ cur' = [cur EXCEPT ![p] = b]
  /\ held' = [held EXCEPT ![p] = @ \ {b}]

Brelse(p, b) == releasesleep(p, b) /\ UNCHANGED <<order, buf, ide>>

\* The caller changes b->data, calls log_write(), which pins the buffer, and
\* brelse(): every caller does the two together.
LogWrite(p, b, v) ==
  /\ releasesleep(p, b)
  /\ buf' = [buf EXCEPT ![b].data = v, ![b].dirty = TRUE]
  /\ UNCHANGED <<order, ide>>

\* Mutant: the reference is not given back.
BrelseKeeps(p) ==
  /\ pc[p] = "rel"
  /\ pc' = [pc EXCEPT ![p] = "out"]
  /\ cur' = [cur EXCEPT ![p] = None]
  /\ UNCHANGED <<cache, ide, held, panicked>>

\* brelse(), under bcache.lock: the last user moves the buffer to the head.
BrelsePut(p) ==
  LET b == cur[p]
  IN /\ pc[p] = "rel"
     /\ buf' = [buf EXCEPT ![b].refcnt = @ - 1]
     /\ order' = IF buf[b].refcnt = 1 THEN <<b>> \o Remove(order, b) ELSE order
     /\ pc' = [pc EXCEPT ![p] = "out"]
     /\ cur' = [cur EXCEPT ![p] = None]
     /\ UNCHANGED <<lock, ide, held, panicked>>

-----------------------------------------------------------------------------
KernelStep(p) == AcquireSleep(p) \/ Bread(p) \/ Iderw(p) \/ IderwTest(p) \/ BrelsePut(p)

Next ==
  \/ \E p \in Procs, n \in Blocks : BgetHit(p, n) \/ BgetRecycle(p, n)
  \/ \E p \in Procs : KernelStep(p) \/ KillWakes(p)
  \/ \E p \in Procs, b \in Bufs :
       \/ Brelse(p, b)
       \/ /\ p \in Writers /\ buf[b].blockno \in Written
          /\ \E v \in Vals : LogWrite(p, b, v) \/ Bwrite(p, b, v)
  \/ DriveDone \/ ideintr

Spec == Init /\ [][Next]_vars

-----------------------------------------------------------------------------
(* What the cache promises *)

\* A block is what its valid buffer holds, or what the disk holds; its owner is
\* the process that bread() has returned it to.
BlockVal(n) ==
  IF \E b \in Cached(n) : buf[b].valid
    THEN buf[CHOOSE b \in Cached(n) : buf[b].valid].data ELSE disk[n]
BlockOwner(n) ==
  IF \E p \in Procs : held[p] \cap Cached(n) # {}
    THEN CHOOSE p \in Procs : held[p] \cap Cached(n) # {} ELSE None

Store == INSTANCE BlockStore WITH
  val <- [n \in Blocks |-> BlockVal(n)], owner <- [n \in Blocks |-> BlockOwner(n)]

\* Through eviction, pinning, queued requests and spurious wakeups, a block keeps
\* the value its last owner gave it, and has one owner at a time.
IsBlockStore == Store!Spec

\* bread() returns a buffer with the block in it, locked by the caller, and
\* nobody else is let in: what the caller sees is the block.
HeldIsCurrent ==
  \A p \in Procs : \A b \in held[p] :
    /\ lock[b] = p /\ buf[b].valid
    /\ buf[b].data = BlockVal(buf[b].blockno)

\* A buffer that bget() may recycle is one the disk agrees with: whatever is only
\* in memory is B_DIRTY.
CleanIsOnDisk == \A b \in Bufs : Clean(b) => buf[b].data = disk[buf[b].blockno]

\* b->refcnt counts the processes from their bget() to the end of their brelse().
RefcntExact ==
  \A b \in Bufs : buf[b].refcnt = Cardinality({p \in Procs : b \in held[p] \cup {cur[p]}})

\* While callers and log together ask for no more than NBUF buffers bget() finds
\* one, and the driver is never called without the lock or with nothing to do.
NoPanic == ~panicked

-----------------------------------------------------------------------------
(* Liveness *)

\* Processes go on in the kernel, the drive finishes its commands.  A sleep
\* lock's waiters race for it, and a caller may use other buffers before it gives
\* one back, but it does: strong fairness.
Fairness ==
  /\ \A p \in Procs :
       /\ SF_vars(AcquireSleep(p) /\ pc'[p] = "locked")
       /\ WF_vars(KernelStep(p))
       /\ \A b \in Bufs : SF_vars(Brelse(p, b) \/ \E v \in Vals : LogWrite(p, b, v))
  /\ WF_vars(DriveDone) /\ WF_vars(ideintr)

FairSpec == Spec /\ Fairness

\* bread() returns: no wakeup is lost between a sleep lock, the queue and the
\* drive, whoever else waits for the same buffer.
BreadReturns == \A p \in Procs : pc[p] \in {"lock", "locksleep"} ~> pc[p] = "out"
=============================================================================
