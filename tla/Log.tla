-------------------------------- MODULE Log ---------------------------------
(***************************************************************************)
(* The write-ahead log of log.c, with crashes and recovery.  A disk write  *)
(* of one block is atomic (BSIZE is one sector), a critical section of     *)
(* log.lock is one action, and a crash may come between any two of them.   *)
(* The buffer cache is seen as its contents: a buffer that is neither      *)
(* locked nor B_DIRTY may be evicted and read again at any time.           *)
(***************************************************************************)
EXTENDS Integers, Sequences, FiniteSets

CONSTANTS
  Procs,
  Blocks, Vals,   \* home blocks, and what a block can hold
  InitVal,
  MAXOPBLOCKS, LOGSIZE,
  nlog,           \* sb.nlog: blocks of the on-disk log, its header included
  OpBlocks        \* distinct blocks an operation really writes, at most

ASSUME LogAssumption ==
  /\ LOGSIZE \in Nat /\ MAXOPBLOCKS \in Nat /\ nlog \in Nat /\ OpBlocks \in Nat
  /\ OpBlocks <= MAXOPBLOCKS /\ MAXOPBLOCKS <= LOGSIZE
  /\ InitVal \in Vals

VARIABLES
  disk,         \* home locations
  logdata,      \* data blocks of the on-disk log
  hdr,          \* header block on disk: the block numbers
  cache, dirty, \* buffer contents and B_DIRTY
  lh,           \* log.lh
  outstanding, committing,
  pc, held, ops, \* per process: step, buffer it has locked, blocks of its operation
  tail,         \* loop variable of write_log() and install_trans()
  boot,         \* "run", or the step of recover_from_log()
  panicked

store == <<disk, logdata, hdr>>
log == <<lh, outstanding, committing>>
vars == <<store, cache, dirty, log, pc, held, ops, tail, boot, panicked>>

Slots == 1 .. LOGSIZE
Committing == {"wlog", "whead", "install", "clear", "done"}
InOp == {"op", "mod"}

\* log.lh fits logheader.block[], every field is in range.
TypeOK ==
  /\ disk \in [Blocks -> Vals] /\ cache \in [Blocks -> Vals]
  /\ dirty \in [Blocks -> BOOLEAN]
  /\ logdata \in [Slots -> Vals]
  /\ hdr \in Seq(Blocks) /\ Len(hdr) <= LOGSIZE
  /\ lh \in Seq(Blocks) /\ Len(lh) <= LOGSIZE
  /\ outstanding \in Nat /\ committing \in BOOLEAN
  /\ pc \in [Procs -> {"out", "begin", "sleep"} \cup InOp \cup Committing]
  /\ held \in [Procs -> SUBSET Blocks] /\ ops \in [Procs -> SUBSET Blocks]
  /\ tail \in 1 .. LOGSIZE + 1
  /\ boot \in {"run", "read", "install", "clear"}
  /\ panicked \in BOOLEAN

\* A file system as mkfs leaves it, recovered.
Init ==
  /\ disk = [b \in Blocks |-> InitVal] /\ cache = disk
  /\ dirty = [b \in Blocks |-> FALSE]
  /\ logdata = [i \in Slots |-> InitVal]
  /\ hdr = <<>> /\ lh = <<>>
  /\ outstanding = 0 /\ committing = FALSE
  /\ pc = [p \in Procs |-> "out"]
  /\ held = [p \in Procs |-> {}]
  /\ ops = [p \in Procs |-> {}]
  /\ tail = 1
  /\ boot = "run"
  /\ panicked = FALSE

Listed(s, b) == \E i \in DOMAIN s : s[i] = b

-----------------------------------------------------------------------------
(* begin_op(), log_write(), end_op() *)

CallBegin(p) ==
  /\ pc[p] = "out"
  /\ pc' = [pc EXCEPT ![p] = "begin"]
  /\ UNCHANGED <<store, cache, dirty, log, held, ops, tail, boot, panicked>>

\* Mutant: the blocks already in the log are not counted.
NoSpaceForgetful == (outstanding + 1) * MAXOPBLOCKS > LOGSIZE

NoSpace == Len(lh) + (outstanding + 1) * MAXOPBLOCKS > LOGSIZE

\* One turn of the loop of begin_op(), under log.lock.
BeginOp(p) ==
  /\ pc[p] = "begin"
  /\ IF committing \/ NoSpace
       THEN pc' = [pc EXCEPT ![p] = "sleep"] /\ UNCHANGED outstanding
       ELSE /\ outstanding' = outstanding + 1
            /\ pc' = [pc EXCEPT ![p] = "op"]
  /\ UNCHANGED <<store, cache, dirty, lh, committing, held, ops, tail, boot, panicked>>

Locked(b) == \E q \in Procs : b \in held[q]

\* The caller changes b->data under the buffer's lock and calls log_write(),
\* whose two panics are tested before log.lock is taken.
Modify(p, b, v) ==
  /\ pc[p] = "op" /\ ~Locked(b)
  /\ b \in ops[p] \/ Cardinality(ops[p]) < OpBlocks
  /\ cache' = [cache EXCEPT ![b] = v]
  /\ held' = [held EXCEPT ![p] = {b}]
  /\ ops' = [ops EXCEPT ![p] = @ \cup {b}]
  /\ panicked' = (Len(lh) >= LOGSIZE \/ Len(lh) >= nlog - 1 \/ outstanding < 1)
  /\ pc' = [pc EXCEPT ![p] = "mod"]
  /\ UNCHANGED <<store, dirty, log, tail, boot>>

\* Mutant: the buffer is not pinned with B_DIRTY.
log_writeUnpinned(p) ==
  /\ pc[p] = "mod"
  /\ \E b \in held[p] : lh' = IF Listed(lh, b) THEN lh ELSE Append(lh, b)
  /\ held' = [held EXCEPT ![p] = {}]
  /\ pc' = [pc EXCEPT ![p] = "op"]
  /\ UNCHANGED <<store, cache, dirty, outstanding, committing, ops, tail, boot, panicked>>

\* log_write(), under log.lock: append unless the block is already listed; then
\* brelse().
log_write(p) ==
  /\ pc[p] = "mod"
  /\ \E b \in held[p] :
       /\ lh' = IF Listed(lh, b) THEN lh ELSE Append(lh, b)
       /\ dirty' = [dirty EXCEPT ![b] = TRUE]
  /\ held' = [held EXCEPT ![p] = {}]
  /\ pc' = [pc EXCEPT ![p] = "op"]
  /\ UNCHANGED <<store, cache, outstanding, committing, ops, tail, boot, panicked>>

\* wakeup(&log): sleepers go round the loop of begin_op() again.
Woken == [q \in Procs |-> IF pc[q] = "sleep" THEN "begin" ELSE pc[q]]

\* The first critical section of end_op(); commit() follows if this was the
\* last operation, and does nothing if the transaction is empty.
EndOp(p) ==
  /\ pc[p] = "op"
  /\ outstanding' = outstanding - 1
  /\ panicked' = committing
  /\ IF outstanding = 1
       THEN /\ committing' = TRUE
            /\ pc' = [pc EXCEPT ![p] = IF lh = <<>> THEN "done" ELSE "wlog"]
       ELSE /\ pc' = [Woken EXCEPT ![p] = "out"]
            /\ UNCHANGED committing
  /\ ops' = [ops EXCEPT ![p] = {}]
  /\ tail' = 1
  /\ UNCHANGED <<store, cache, dirty, lh, held, boot>>

-----------------------------------------------------------------------------
(* commit() *)

\* write_log(): copy one block from the cache to the log.
WriteLog(p) ==
  /\ pc[p] = "wlog"
  /\ logdata' = [logdata EXCEPT ![tail] = cache[lh[tail]]]
  /\ tail' = IF tail = Len(lh) THEN 1 ELSE tail + 1
  /\ pc' = [pc EXCEPT ![p] = IF tail = Len(lh) THEN "whead" ELSE @]
  /\ UNCHANGED <<disk, hdr, cache, dirty, log, held, ops, boot, panicked>>

\* write_head(): "the true point at which the current transaction commits".
WriteHead(p) ==
  /\ pc[p] = "whead"
  /\ hdr' = lh
  /\ pc' = [pc EXCEPT ![p] = "install"]
  /\ UNCHANGED <<disk, logdata, cache, dirty, log, held, ops, tail, boot, panicked>>

\* One turn of install_trans(): log block to home block, through the cache;
\* iderw() clears B_DIRTY.
InstallBlock ==
  /\ disk' = [disk EXCEPT ![lh[tail]] = logdata[tail]]
  /\ cache' = [cache EXCEPT ![lh[tail]] = logdata[tail]]
  /\ dirty' = [dirty EXCEPT ![lh[tail]] = FALSE]
  /\ tail' = IF tail = Len(lh) THEN 1 ELSE tail + 1

Install(p) ==
  /\ pc[p] = "install"
  /\ InstallBlock
  /\ pc' = [pc EXCEPT ![p] = IF tail = Len(lh) THEN "clear" ELSE @]
  /\ UNCHANGED <<logdata, hdr, log, held, ops, boot, panicked>>

\* log.lh.n = 0 and write_head().
Clear(p) ==
  /\ pc[p] = "clear"
  /\ lh' = <<>> /\ hdr' = <<>>
  /\ pc' = [pc EXCEPT ![p] = "done"]
  /\ UNCHANGED <<disk, logdata, cache, dirty, outstanding, committing, held, ops, tail, boot, panicked>>

\* Mutant: wakeup(&log) is left out.
CommittedSilent(p) ==
  /\ pc[p] = "done"
  /\ committing' = FALSE
  /\ pc' = [pc EXCEPT ![p] = "out"]
  /\ UNCHANGED <<store, cache, dirty, lh, outstanding, held, ops, tail, boot, panicked>>

\* The second critical section of end_op().
Committed(p) ==
  /\ pc[p] = "done"
  /\ committing' = FALSE
  /\ pc' = [Woken EXCEPT ![p] = "out"]
  /\ UNCHANGED <<store, cache, dirty, lh, outstanding, held, ops, tail, boot, panicked>>

-----------------------------------------------------------------------------
(* The buffer cache, crashes and recover_from_log() *)

\* bget() recycles the buffer of b; the next bread() reads the disk.
Evict(b) ==
  /\ ~dirty[b] /\ ~Locked(b)
  /\ cache' = [cache EXCEPT ![b] = disk[b]]
  /\ UNCHANGED <<store, dirty, log, pc, held, ops, tail, boot, panicked>>

\* Power fails, or the kernel panics: only the disk is left.
Crash ==
  /\ cache' = disk /\ dirty' = [b \in Blocks |-> FALSE]
  /\ lh' = <<>> /\ outstanding' = 0 /\ committing' = FALSE
  /\ pc' = [p \in Procs |-> "out"]
  /\ held' = [p \in Procs |-> {}] /\ ops' = [p \in Procs |-> {}]
  /\ tail' = 1
  /\ boot' = "read"
  /\ panicked' = FALSE
  /\ UNCHANGED store

\* read_head()
ReadHead ==
  /\ boot = "read"
  /\ lh' = hdr
  /\ boot' = IF hdr = <<>> THEN "clear" ELSE "install"
  /\ UNCHANGED <<store, cache, dirty, outstanding, committing, pc, held, ops, tail, panicked>>

Reinstall ==
  /\ boot = "install"
  /\ InstallBlock
  /\ boot' = IF tail = Len(lh) THEN "clear" ELSE boot
  /\ UNCHANGED <<logdata, hdr, log, pc, held, ops, panicked>>

ReClear ==
  /\ boot = "clear"
  /\ lh' = <<>> /\ hdr' = <<>>
  /\ boot' = "run"
  /\ UNCHANGED <<disk, logdata, cache, dirty, outstanding, committing, pc, held, ops, tail, panicked>>

Recover == ReadHead \/ Reinstall \/ ReClear

CommitStep(p) == WriteLog(p) \/ WriteHead(p) \/ Install(p) \/ Clear(p) \/ Committed(p)

OpStep(p) ==
  \/ BeginOp(p) \/ log_write(p) \/ EndOp(p)
  \/ \E b \in Blocks, v \in Vals : Modify(p, b, v)

Next ==
  \/ /\ boot = "run" /\ ~panicked
     /\ \/ \E p \in Procs : CallBegin(p) \/ OpStep(p) \/ CommitStep(p)
        \/ \E b \in Blocks : Evict(b)
  \/ Recover
  \/ Crash

Spec == Init /\ [][Next]_vars

-----------------------------------------------------------------------------
(* What the log promises *)

\* What recover_from_log() would leave at b, now.
Recovered(b) ==
  IF Listed(hdr, b) THEN logdata[CHOOSE i \in DOMAIN hdr : hdr[i] = b] ELSE disk[b]

stable == [b \in Blocks |-> Recovered(b)]

AtomicDisk == INSTANCE AtomicDisk WITH
  mem <- IF boot = "run" THEN cache ELSE stable,
  active <- {p \in Procs : pc[p] \in InOp}

\* "The logging system only commits when there are no FS system calls
\* active": at every moment a crash leaves the blocks as they were after
\* some set of whole operations, and recovery, crashed and repeated at will,
\* brings back exactly that.
CrashAtomic == AtomicDisk!Spec

\* log_write() finds room and end_op() finds no commit under way: the space
\* reserved in begin_op() is enough for what the operations write.
NoPanic == ~panicked

\* When end_op() returns from commit(), every block of the cache is home.
CommittedIsHome ==
  \A p \in Procs : pc[p] = "done" => disk = cache /\ hdr = <<>> /\ lh = <<>>

\* No lost wakeup in begin_op(): somebody who will call wakeup(&log) is still
\* inside an operation or a commit.
SleeperHasWaker ==
  \A p \in Procs : pc[p] = "sleep" =>
    \/ \E q \in Procs : pc[q] \in InOp
    \/ committing /\ \E q \in Procs : pc[q] \in Committing

\* Log absorption: a block has one place in the transaction.
Absorbed == \A i, j \in DOMAIN lh : lh[i] = lh[j] => i = j

\* Processes inside an operation run on and reach end_op(), commit() runs to
\* its end, a rebooted kernel recovers.
Fairness ==
  /\ WF_vars(Recover)
  /\ \A p \in Procs : WF_vars(boot = "run" /\ ~panicked /\ (BeginOp(p) \/ log_write(p) \/ CommitStep(p)))
  /\ \A p \in Procs : SF_vars(boot = "run" /\ ~panicked /\ EndOp(p))

FairSpec == Spec /\ Fairness

\* A process asleep in begin_op() is woken, or the machine goes down.
SleepersWake ==
  \A p \in Procs : (pc[p] = "sleep") ~> (pc[p] # "sleep")
=============================================================================
