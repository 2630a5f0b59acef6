# A TLA+ model of the p2b xv6 kernel

The repository is xv6 for x86 with three changes: a scheduler with two priorities
(`settickets`, `getpinfo`), an unmapped page 0, and `mprotect` / `munprotect`. This
directory holds TLA+ modules of the kernel in `src/xv6-public/`, the TLC models that check
them, and proofs that TLAPS checks. `PROJECT.json` lists the parts, the runs, the source
lines of each definition, the hazards and the theorems.

## 1. The system

| part | state | operations | touches |
|---|---|---|---|
| process table (`proc.c`) | `ptable.proc[]`, `nextpid`, `ptable.lock` | `allocproc fork exit wait kill sleep wakeup yield settickets getpinfo` | scheduler, every sleeper, memory |
| scheduler (`proc.c`) | per-CPU `c->proc`, the scan, `hasHP` | two loops over the table, `swtch`, `sched` | holds `ptable.lock` across `swtch` |
| traps, system calls (`trap.c syscall.c sysproc.c`) | trap frame, `ticks` | tests of `killed`, timer yield, argument fetching, page faults | all of the above |
| log (`log.c`) | header and blocks on disk, `log.lh`, `outstanding`, `committing` | `begin_op log_write end_op commit recover_from_log` | buffer cache, every file system call |
| buffer cache, disk (`bio.c ide.c`) | LRU list, `refcnt`, `B_VALID`/`B_DIRTY`, request queue | `bread bwrite brelse`, `iderw`, `ideintr` | log, inodes, sleep locks |
| locks (`spinlock.c sleeplock.c`) | `locked`, `ncli`, holder | `acquire release pushcli popcli`, `acquiresleep` | everything |
| memory (`vm.c kalloc.c exec.c`) | free frames, page tables, `sz`, TLB | `sbrk`, `copyuvm`, `exec`, `freevm`, `mprotect munprotect` | fork, exit, system call arguments |
| pipes (`pipe.c`) | ring, `nread`, `nwrite`, open ends | `pipewrite piperead pipeclose` | sleep/wakeup, kill, file table |
| files, descriptors (`file.c sysfile.c`) | `ftable`, `ofile[]` | `open dup close pipe`, sharing by `fork` | pipes, inodes |
| inodes, directories (`fs.c sysfile.c`) | inode cache, `nlink`, bitmap | `iget iput ilock`, `link unlink create` | log, buffer cache |
| console, keyboard (`console.c kbd.c uart.c`) | input ring `r w e`, cursor, `shift`, `cons.lock` | `consoleintr consoleread consolewrite kbdgetc panic` | interrupts, sleep/wakeup |
| clock (`trap.c sysproc.c`) | `ticks` | timer interrupt, `sys_sleep` | sleep/wakeup, kill |
| shell (`sh.c`) | command tree, descriptors, children | parser, `runcmd` | `fork exec wait pipe dup close` |
| boot, hardware, other user programs | | | not modelled, section 8 |

What makes this code hard: a lock that one thread takes and another releases (`swtch`);
state that `fork` and `kill` touch without the lock that protects it; `killed` tested before
the lock that would make the test final; crashes between any two disk writes; frames that run
out half-way through `fork`, `sbrk` or `exec`; TLB entries that outlive a page table change;
counters that wrap; and return values that mean two things. The `hazards` of `PROJECT.json`
name each of these at its line.

## 2. Modules

| module | models | extends |
|---|---|---|
| `Proc` | process table and scheduler on several CPUs | |
| `ProcRobin` | `Proc` with a history of who was dispatched | `Proc` |
| `ProcFair` | `ProcRobin` with fairness, and `init.c` as the first program | `ProcRobin` |
| `ProcProof` | theorems about `Proc` | `Proc`, `TLAPS` |
| `Spinlock` | `acquire`, `release`, `pushcli`, `popcli`, interrupts, the flag across `swtch` | |
| `SpinlockProof` | theorems about `Spinlock` | `Spinlock`, `TLAPS` |
| `Console`, `Kbd` | input ring, screen, keyboard, serial line, `panic` | `Console` instantiates `Kbd` |
| `LineDiscipline` | what the console promises to a reader | |
| `Clock` | timer interrupt and `sys_sleep` | |
| `Trap` | the devices together, with `kill` | `Console`, instantiates `Clock` |
| `Log` | the write-ahead log with crashes and recovery | |
| `AtomicDisk` | what the log promises: operations that happen whole or not at all | |
| `LogProof` | theorems about `Log` | `Log`, `TLAPS` |
| `Bio` | buffer cache, sleep locks, disk driver | |
| `BlockStore` | what the buffer cache promises: one current value per block, one owner at a time | |
| `Fs` | inodes, directories, paths, block allocation, in transactions with crashes | |
| `FileTable` | open files, descriptors, pipe ends | |
| `Pipe` | pipe ring with sleeping, killed and closing processes | |
| `ByteStream` | what a pipe promises: a bounded queue of bytes | |
| `PipeProof` | theorems about `Pipe` | `Pipe`, `TLAPS` |
| `Vm` | frames, page tables, TLB, `sbrk`, `fork`, `exec`, `mprotect` | |
| `ShParse`, `Sh` | the shell's parser; its processes, descriptors and pipes | `Sh` extends `ShParse` |
| `MC...` | small instances of the above | |

Each component assumes of the others what those show: `Log` sees the buffer cache as contents that may be
evicted, which `Bio` implements; `Fs` sees the log as a commit of everything when the last operation
ends, which is `AtomicDisk`; `FileTable` sees inodes as counted references and pipes as their two open
flags, which `Fs` and `Pipe` model; the sleeping and waking of all of them is that of `Proc`, whose
critical sections are atomic because of `Spinlock`.

Mutants, definitions whose comment starts with "Mutant:", are plausible mistakes in the code. They
are used by no specification; each shows that a property can fail.

### Proc

`state`, `pid`, `parent`, `chan`, `killed`, `priority`, `run_ticks`, `kstack`, `pgdir` are the
fields of `struct proc`. `lock` is the holder of `ptable.lock`; `cproc`, `cpc`, `hasHP`, `idx`
are where `scheduler()` stands on each CPU; `kpc` is what a process is doing in the kernel and
`ctx` where its saved context resumes. One action is one critical section of the lock, or a step
between two.

* Scheduler: `SchedAcquire`, `HpDispatch`/`HpScanEnd` (first loop), `LpDispatch` (second loop),
  `SchedRelease`. `Dispatch` leaves the lock with the process; `Resume` is the process
  releasing it; `Sched` is `sched()` on the way back.
* `fork()` is four steps (`ForkAlloc`, `ForkFail`, `ForkCopy`, `ForkRunnable`), because only the
  first and the last hold the lock. `Exit`, `WaitReap`, `WaitNone`, `WaitSleep`, `Kill`,
  `Settickets` are one section each.
* `BlockCheck`, `Sleep`, `Wakeup` stand for every loop of the form "test `killed`, then
  `sleep()`": `sys_sleep`, pipes, console. The sleeps that do not test `killed` (log, disk, sleep
  locks, the closing of files in `exit`) are outside `Proc`.

A page directory is "null", "live" or "freed"; what is in it belongs to `Vm`.

### Spinlock

A context is the kernel thread of a process or the scheduler of a CPU. `acquire` is `Acquire` (`pushcli`),
`Cli` (the test of `holding`), `Xchg`, `Own`; `release` is `Release`, `Unlock`, `Popcli`: an interrupt or another
CPU may come between any two. `Interrupt` puts a frame of the interrupted code in `irq`, and the handler is kernel
code like any other. `SchedOut` and `Dispatch` switch contexts; `saved` is the local `intena` of `sched()`. `MayNest` says
which locks the kernel takes under which: `ptable.lock` under any lock (`wakeup`), and those of `Inner` under `ptable.lock`, as
`wait` does with `kmem.lock` when it frees the child's memory.

### Console, Kbd, Clock, Trap

One character of `consoleintr` is one step, under `cons.lock`. `r`, `w`, `e` are numbers modulo `IdxMod`. Readers and
writers keep the lock from step to step and release it in `sleep`. `Kbd` is `kbdgetc` with its modifier and escape
state. `Clock` has `ticks` modulo `TickMod` and the loop of `sys_sleep`. `IsLineDiscipline` is a refinement: the ring is
a queue of finished lines and a line being edited.

### Log and AtomicDisk

`disk`, `logdata` and `hdr` survive a crash; everything else is lost. One disk write of a block
is one step (a block is one sector), and `Crash` may come between any two steps, also during
recovery. A buffer that is neither locked nor `B_DIRTY` may be evicted at any time, which is what
makes the pinning in `log_write` matter. `CrashAtomic` is a refinement: with
`stable` mapped to what recovery would produce now, every step of `Log` is a step of
`AtomicDisk`, whose stable contents change only by whole groups of finished operations.

### Bio and BlockStore

`bget` walks the LRU list under `bcache.lock` and then takes the buffer's sleep lock, two steps. `iderw` queues, sleeps
and tests its flags again; `ideintr` completes the head of the queue and starts the next. `IsBlockStore` is a
refinement: the owner of a buffer owns its block, and sees what was last written to it, whether the buffer
has been recycled, read again or pinned by the log meanwhile.

### Fs

One action is what a system call does from one sleep lock to the next, or a critical section of `icache.lock`. `fs` is what
the cache holds and `stable` what a crash leaves; `prog` is the rest of a call as a sequence of steps (look up a
name, lock, link, put...), `r` its local variables. Directory contents are functions from names to inode numbers, and a
file is its blocks, direct and indirect.

A panic stops the machine: `Panic` is the reboot with what `stable` holds. `Stops` says where one is due, after an
`ilock()`: the inode has no type, the inode cache is full, or the disk is. Every other action is taken only where none is. The
history `r[p].up` is set while a process comes by `..` from a directory that has been removed.

### FileTable

`file` is `ftable`, `ofile` the descriptors, `pipe` the two flags of each pipe page, `iref` the references held to an
inode. `fileclose` is two steps, because the pipe is closed or the inode put after the table's lock is released, from a
copy of the entry.

### Sh and ShParse

`ShParse` has one operator per function of the parser, on sequences of tokens; the grammar is stated beside it as sets of
command trees. `Sh` has a process per `fork1()`, its descriptors and the two descriptors `p[]` of `runcmd`. Every
`fork`, `exec`, `open` and `pipe` may fail, the shell's `open("console")` too, so that a shell may go on with less than
three descriptors. Programs copy their input to their output, as `cat.c` does, or quit.

### Vm

Frames are numbers, a page table a function from present pages to a frame and the two bits `W` and
`U`. The loops that allocate one page at a time (`allocuvm`, `copyuvm`, `exec`) are one action per
page, so that two processes compete for frames and each fails at any page. `setupkvm` is two steps, `KvmDir` and
`KvmTables`: the page tables of the kernel half are one frame here. An executable is a sequence of segments, which `exec`
allocates and loads one after the other. Pipes take pages as well (`PipeAlloc`, `PipeFree`). `stale` is what the
TLB may still hold: it grows when an entry is lowered and is emptied by `lcr3`. `prot` is the
history of the pages that a successful `mprotect` has covered. `panic` records a
kernel fault or a call of `panic()`.

### Pipe and ByteStream

One action is what a process does under `p->lock` until it releases it or enters `sleep()`. A
process on its way to sleep still holds the lock, and a `kill` may come just then. Counters
are numbers modulo `CtrMod`. `IsByteStream` is a refinement: the ring read from `nread` on is the
queue of `ByteStream`.

## 3. Runs that pass

| run | instance | shows |
|---|---|---|
| `proc` | 3 slots, 2 CPUs, 3 pids | one CPU per process; whatever can be dispatched or reaped owns its stack and page directory; parents are alive; nobody sleeps in `wait` after the event it waits for; priority is strict |
| `proc_one_cpu` | 3 slots, 1 CPU, fair | high-priority processes take turns; priority 0 starves only behind priority 1 or a lower slot; orphans are reaped |
| `spinlock` | 2 CPUs, 2 threads, `ptable.lock` and two other locks, one of them taken under it | mutual exclusion; no interrupt inside a section; every thread gets its interrupt flag back |
| `trap` | 2 processes, a ring of 2, counters modulo 4, a 2 by 2 screen | what `read` returns is what the line discipline promises; no reader is forgotten; `sleep(n)` lasts n ticks across the wrap |
| `log` | 2 processes, 3 blocks, crashes anywhere, fair | the log implements `AtomicDisk`; reserved space is enough for operations below `MAXOPBLOCKS`; sleepers for space are woken |
| `bio` | 2 processes, 2 buffers, 3 blocks, fair | the cache implements `BlockStore`; `refcnt` is exact; every `bread` returns |
| `fs` | 2 processes, 4 inodes, 3 of them in the cache, 3 blocks, 3 calls, 4 trees, crashes anywhere | names and link counts agree, also after a crash; every block in use has one place; inode references are exact; a free inode is locked only by way of `..` from a removed directory, and none is freed twice; the only deadlocks go through `iput` |
| `file_table` | 2 processes, 2 descriptors, 3 files, 1 pipe page | every reference to a file, to an inode and to a pipe end is counted once, through all failure paths |
| `pipe` | 1 reader, 2 writers, ring of 2, counters modulo 4, fair | the ring implements `ByteStream`; the page is freed when nobody uses it; nobody sleeps without a reason; writers are woken |
| `vm` | 2 processes, 13 frames, 6 pages, up to 4 pipes | every error path gives back exactly what it took; `sz` is backed by pages; protected pages stay read-only; checked addresses do not fault |
| `sh` | 6 processes, every line of up to 3 tokens and longer ones, every set of descriptors at the start | the parser computes its grammar; foreground commands are waited for; every command ends |

Each module also has a `TypeOK` and some invariants that no run lists: `LockHandover`, `PinfoPidsDistinct` (proved),
`CommittedIsHome`, `Absorbed`, `SleeperHasWaker` (`Log`), `HeldIsCurrent`, `CleanIsOnDisk` (`Bio`), `NoHoles`,
`CacheCoherent`, `FreedIsUnused` (`Fs`), `PipeOutlivesCaller`, `OffsetInFile` (`FileTable`), `FullIsReadable`, `EofDelivered`,
`NoStuckModifier`, `PanicPrints`, `TickSleepersNotDue` (`Trap`), `StandardDescriptors` (`Sh`). They hold on the same instances:
add them to the `.cfg` to see it.

Bounds. Three slots give init, a parent and a child that is orphaned, or two children in
competition; two CPUs give every pairwise race on the lock. `MaxPid` allows two forks: two
children at a time, or a second one in the slot of the first. With three slots the parent of a process that
has children is init itself, so the extra wakeup of init for inherited zombies decides nothing there;
the proof of `WaitSleepsForAReason` covers it for every number of slots. `RunMod = 1` makes `run_ticks`
constant: nothing reads it but `getpinfo`. In `log` two operations overlap, absorb and fill the log. In `bio`
two buffers for three blocks force recycling, and `MaxInUse` is the number of buffers: the callers of the kernel do not
promise this bound, see section 5. In `fs` three calls are enough for a race of two and what a third sees afterwards; one
direct and one indirect block put every allocation of `bmap` in reach. Three places in the inode cache for four inodes make
`iget` run out, as `NINODE = 50` does when `NFILE = 100` files are open or `NPROC = 64` processes have a current directory
each. One of the trees has two directories, one in the other, with both processes in the inner one: removing it and going up
reaches "ilock: no type" within three calls. In `vm` memory ends while an image is being copied or loaded, and pipes make it
end at every other place, the two steps of `setupkvm` included. Programs have one segment or two, in either order. Rings are shorter than the longest write or line, so writers sleep half-way, and the counters wrap every
four bytes. In `sh` six processes are a pipe of three with its shells; `fork` fails at every place as well.

Symmetry is used for CPUs (`proc`, `spinlock`) and processes (`fs`), only in runs without liveness properties. `MCVm` uses a
view that forgets the names of frames: no action of `Vm` looks at a frame's name except through
equality, `kalloc` returns any free frame, and every property is invariant under renaming.

Deadlock is checked except in `fs`, where the code can deadlock (section 5), and in `trap`, where `panic` stops the machine.

## 4. Fairness

* `ProcFair`: a CPU does not stop (weak fairness of the scheduler's steps and of `Resume`). A timer
  interrupt stays pending until it can be taken, and a time slice is longer than one kernel step
  (strong fairness of `TimerYield` and of each process's kernel steps). `init` follows its
  program: it forks and waits. Other user programs owe nothing.
* `Log`: a process inside an operation reaches `end_op`, a commit goes on, a booting kernel recovers. A
  process outside owes nothing.
* `Bio`: a process in the kernel goes on and gives its buffers back, the drive answers.
* `Pipe`: a process in the kernel goes on; the lock `p->lock` is contended, hence strong fairness. A
  reader that is not in the kernel calls `read` again or closes.
* `Trap`: a process in the kernel goes on. Devices owe nothing.
* `Sh`: every process goes on, a program reads its input to the end. It may quit before, and need not.

## 5. Disagreements between code and comments

Run `vm_null_argument` ends with a counterexample: an integer or string argument in page 0 passes the test against `sz` and faults
in the kernel. `findings` quotes the lines.

The following were met while modelling. The first four have a formula in the modules; the passing runs leave them out by constants.

* On two CPUs a `kill` between the test of `killed` and `sleep()` leaves a killed process asleep, although `proc.c:583` says "Wake
  process from sleep if necessary." See it with `KilledNeverAsleep` as an invariant in `MCProc.cfg`; it holds with one CPU.
* `kill` matches a pid left in an `UNUSED` slot (`proc.c:581`), and `allocproc` does not clear `killed`: the next process there is
  born killed. See it with `NewbornNotKilled` and `KillArgs = {0, 1, 2, 3}`.
* `growproc` reads the new size 0 as a failure (`proc.c:173`): pages gone, `sz` kept, the next `fork` panics. See it with
  `Loads <- ZeroLoads` in `MCVm.cfg`.
* `iput` says "If that was the last reference and the inode has no links to it, free the inode" (`fs.c:327`). Two processes
  in `iput` may each see `ref` 2, and nobody frees it. See it with `UnnamedIsInUse` and `Crashes = FALSE` in `MCFs.cfg`. A
  crash leaves such inodes as well.
* `iput` takes a sleep lock while its caller holds another, against the order of `fs.c:149`; `OnlyIputDeadlocks` says that
  every deadlock goes through it or through a link to a directory's own entry.
* A process whose current directory has been removed and that looks up `..` reaches the panic "ilock: no type", or an inode that
  `iput` is just freeing: the parent may be removed as well, and nothing counts the `..`. `fs` reaches the panic, and
  `OnlyDotDotPanics` says that there is no other way to it.
* Files can be created in a removed directory, and lose their names with it (history `lost`); `LinksCounted` excepts them.
* The panics "iget: no inodes", "ialloc: no inodes" and "balloc: out of blocks" are reached by user programs that open too much or
  fill the disk; `fs` takes them as crashes.
* `settickets(0)` succeeds (`proc.c:324`), and the comment at `sysproc.c:102` promises -1 for "a number
  less than one".
* `begin_op` reserves against `LOGSIZE` while `log_write` panics at `log.size - 1` (`log.c:218`) and
  `mkfs` counts the header in `log.size`: operations of exactly `MAXOPBLOCKS` blocks are admitted and
  panic. `log` therefore has `OpBlocks < MAXOPBLOCKS`.
* `NBUF` equals `LOGSIZE`: a full transaction pins every buffer and `bget` panics. `bio` bounds the buffers in use by `MaxInUse`.
* `ideintr` marks a buffer valid after a read error (`ide.c:122`); `bio` has `ReadFails = FALSE`.
* A buffer in a page that `mprotect` has made read-only passes `argptr` (`syscall.c:69`) and faults in
  the kernel; `NoKernelFault` sets this panic apart.
* A program linked at 0, as `forktest` is, is loaded where `exec` allocated nothing (`exec.c:42`).
  `vm` has programs linked at `PGSIZE`.
* A killed writer that has filled a pipe wakes no reader (`pipe.c:86`), and `consoleread` drops what it has read when it is killed.

## 6. Proofs

`ProcProof` proves, for every number of slots, CPUs and channels, every set of arguments and
every bound on pids, from `ProcAssumption` alone:

| theorem | says |
|---|---|
| `TypeCorrect` | `Spec => []TypeOK` |
| `Invariance` | `Spec => []Inv` |
| `RunsOnOneCpu` | `Spec => []OneCpuPerProcess` |
| `LockIsHandedOver` | `Spec => []LockHandover` |
| `DispatchableOwnsResources` | `Spec => []ResourcesOwned` |
| `ReaperExists` | `Spec => []EveryProcessHasAReaper` |
| `WaitNeverStuck` | `Spec => []WaitSleepsForAReason` |
| `PinfoReportsDistinctPids` | `Spec => []PinfoPidsDistinct` |
| `PriorityIsStrict` | `Spec => StrictPriority` |

None of the properties is inductive alone. `Inv` is the conjunction of

* `TypeOK` and `Core`: who holds the lock, that `c->proc` and RUNNING agree, that a process off the CPU
  has a saved context that says where it will go on (`CtxSaved`), and that an EMBRYO belongs to
  exactly one `fork()` under way (`ForkOwnsChild`). The last one carries `ResourcesOwned` and the race of
  `fork` with the table scans: nobody but the owner touches an EMBRYO;
* `ResourcesOwned`, `Family` and `Reaping`: parents are alive, and a process asleep in `wait` has
  a child, no zombie child, and is not killed;
* `PidsDistinct`: pids in use are distinct and below `nextpid`;
* `LowLoop`: while a scheduler is in its second loop no process of priority 1 is RUNNABLE. It holds because
  the loop keeps the lock from the count to the dispatch.

`TypeStep`, `CoreStep`, `ResourcesStep`, `ReapingStep`, `PidsStep` and `LowLoopStep` show that each is
kept. `QuietSteps` says once which actions leave the slots alone; the others (`TableStep`) have one
step each. `OnlySchedulerRuns` turns `LowLoop` into the action property.

`SpinlockProof` proves, for every set of CPUs, threads and locks, from `SpinAssumption` alone:

| theorem | says |
|---|---|
| `SpinInvariant` | `Spec => []IInv` |
| `SpinTypes` | `Spec => []TypeOK` |
| `MutualExclusion` | `Spec => []Exclusive` |
| `HoldersRun` | `Spec => []HolderRuns` |
| `CriticalSectionsUninterrupted` | `Spec => []NoInterruptInside` |
| `InterruptFlagKept` | `Spec => []FlagRestored` |
| `NoLockPanic` | `Spec => []NoPanic` |

`IInv` says where a context can be (`Places`), that a lock word is set by exactly one context, which runs on the CPU that `cpu` names
as soon as it is written (`Owners`, `Subjects`), that the scheduler's loop holds nothing (`Loops`), that `ncli` counts the locks held
and the `pushcli` under way and that a positive `ncli` means interrupts off (`Flags`), and that `intena` or `saved` is the flag
the context had outside (`Kept`). Exclusion needs `Owners`, and the panics need all of it.

`PipeProof` proves, for every number of readers and writers, every ring size and every modulus of the counters that is a larger
multiple of it (`PipeAssumption`):

| theorem | says |
|---|---|
| `PipeInvariant` | `Spec => []IInv` |
| `RingNeverOverfull` | `Spec => []NeverOverfull` |
| `FreedPipeIsUnused` | `Spec => []FreedIsUnused` |
| `PipeSleepersHaveReason` | `Spec => []SleepsForAReason` |
| `PipeIsByteStream` | `Spec => IsByteStream` |

`IInv` adds to the properties that the flags say which ends are open (`Ends`), that one process at most is on its way to sleep
(`OneLocker`), and that the reason for a sleep holds from the test on, before the process is asleep (`ReadersWait`,
`WritersWait`): a wakeup can come only after. The refinement rests on lemmas about remainders. `Distance` is the number of bytes
in the ring across the wrap, and `WrapSlot` finds a byte in the same slot after `nread` has wrapped, for which the modulus
must be a multiple of the ring.

`LogProof` proves, for any number of processes and blocks and any size of the log, from `LogAssumption` (an operation writes no
more than `MAXOPBLOCKS` blocks, and `MAXOPBLOCKS <= LOGSIZE`):

| theorem | says |
|---|---|
| `LogInvariant` | `Spec => []IInv` |
| `LogIsAtomicDisk` | `Spec => CrashAtomic` |
| `LogNeverPanics` | `Spec => []NoPanic`, if `Room < LOGSIZE` and `Room < nlog - 1` |
| `CommitLeavesDisk` | `Spec => []CommittedIsHome` |
| `LogSleepersHaveWaker` | `Spec => []SleeperHasWaker` |

`IInv` says where a commit and a recovery are and what of the log is in place then (`Phase`, `BootPhase`, `HeaderEmpty`), that
a buffer that may be evicted has the contents of the disk (`Pinned`), that a block is listed once (`Distinct`), that
`outstanding` counts the operations and no operation runs during a commit (`Operations`, `Commits`), and that the blocks in the
log leave room for those the operations may still write (`Space`). `Room` is what `begin_op` lets into the log: with the sizes of
`param.h` (30, and 10 per operation) operations of nine blocks fill at most 28, and the condition holds; with ten it is 30, and
fails (section 5).

Model-checked only: liveness, which needs fairness and `ENABLED`; `RoundRobin`, which speaks of a history; the shell, whose parser is
recursive; the properties of `Fs`, `Bio`, `FileTable`, `Vm`, `Console` and `Clock`.

## 7. Plan

Proofs: the refinement of `Bio`; reference counts of `FileTable`; `OneHolder` and `SizeIsMapped` of `Vm`; the clock of `Trap`.

## 8. Not modelled

Boot code, interrupt controllers, `swtch.S` and the trap assembly beyond the frames (what `swtch` does is part of
`Proc` and `Spinlock`), number formatting, user programs other than the shell and their libraries, `mkfs`,
`usertests`. User programs appear as arbitrary callers of the modelled operations. Memory
ordering between CPUs is taken to be sequentially consistent inside the locks. The bytes of directories and files, device
nodes and the contents of the kernel half of the address space are left out.
