------------------------------ MODULE LogProof ------------------------------
(***************************************************************************)
(* Log implements AtomicDisk, and never panics when operations are small   *)
(* enough, for any number of processes and blocks and any size of the log. *)
(***************************************************************************)
EXTENDS Log, FiniteSetTheorems, TLAPS

-----------------------------------------------------------------------------
(* The inductive invariant *)

Active == {p \in Procs : pc[p] \in InOp}

\* A block is listed once.
Distinct(s) == \A i, j \in DOMAIN s : s[i] = s[j] => i = j

\* outstanding counts the operations, which hold at most one buffer, of their own.
Operations ==
  /\ IsFiniteSet(Active) /\ Cardinality(Active) = outstanding
  /\ \A p \in Procs : /\ pc[p] = "mod" => \E b \in ops[p] : held[p] = {b}
                      /\ pc[p] # "mod" => held[p] = {}
                      /\ IsFiniteSet(ops[p]) /\ Cardinality(ops[p]) <= OpBlocks

\* One process commits, and no operation is under way.
Commits ==
  /\ committing <=> \E p \in Procs : pc[p] \in Committing
  /\ \A p, q \in Procs : pc[p] \in Committing /\ pc[q] \in Committing => p = q
  /\ committing => Active = {}

\* Before recovery is done nothing runs, and the cache is the disk.
Booting ==
  boot # "run" => /\ \A p \in Procs : pc[p] = "out"
                  /\ ~panicked /\ cache = disk /\ dirty = [b \in Blocks |-> FALSE]

\* A buffer that can be evicted is what the disk has; one that cannot is in the log.
Pinned ==
  \A b \in Blocks : /\ ~dirty[b] => cache[b] = disk[b] \/ Locked(b)
                    /\ dirty[b] => Listed(lh, b)

\* The first k blocks of the log are in place, and on their way home.
Logged(k) == \A i \in 1 .. k : logdata[i] = cache[lh[i]]
Home(k) == \A i \in 1 .. k : disk[lh[i]] = logdata[i] /\ ~dirty[lh[i]]

\* Where a commit is.
Phase(p) ==
  /\ pc[p] = "wlog" => tail \in 1 .. Len(lh) /\ Logged(tail - 1)
  /\ pc[p] = "whead" => tail = 1 /\ lh # <<>> /\ Logged(Len(lh))
  /\ pc[p] = "install" => hdr = lh /\ tail \in 1 .. Len(lh) /\ Logged(Len(lh)) /\ Home(tail - 1)
  /\ pc[p] = "clear" => hdr = lh /\ Logged(Len(lh)) /\ Home(Len(lh))
  /\ pc[p] = "done" => lh = <<>>
Phases == \A p \in Procs : Phase(p)

\* Where recovery is.
BootPhase ==
  /\ boot = "read" => lh = <<>> /\ tail = 1
  /\ boot = "install" => hdr = lh /\ tail \in 1 .. Len(lh) /\ Home(tail - 1)
  /\ boot = "clear" => hdr = lh /\ Home(Len(lh))

\* The header on disk is empty but between the two write_head() of a commit.
HeaderEmpty ==
  boot = "run" /\ (\A p \in Procs : pc[p] \notin {"install", "clear"}) => hdr = <<>>

\* Between transactions the log is empty.
Idle == boot = "run" /\ ~committing /\ Active = {} => lh = <<>>

\* What begin_op() lets into the log when no operation writes more than OpBlocks:
\* one operation into an empty log, or two or more that left MAXOPBLOCKS each.
Room ==
  LET several == LOGSIZE - 2 * (MAXOPBLOCKS - OpBlocks)
  IN  IF OpBlocks > several THEN OpBlocks ELSE several

\* The blocks in the log are those of the operations under way and at most so
\* many others that the operations' remaining blocks have room.
Written == UNION {ops[p] : p \in Active}
Space ==
  /\ \E B \in SUBSET Blocks :
       /\ IsFiniteSet(B) /\ Cardinality(B) + outstanding * OpBlocks <= Room
       /\ \A i \in DOMAIN lh : lh[i] \in B \cup Written
  /\ Len(hdr) <= Room

IInv ==
  /\ TypeOK /\ Distinct(lh) /\ Distinct(hdr) /\ Operations /\ Commits /\ Booting /\ Pinned
  /\ Phases /\ BootPhase /\ HeaderEmpty /\ Idle /\ Space

-----------------------------------------------------------------------------
(* Sequences and finite sets *)

LEMMA LenProperties ==
  ASSUME NEW S, NEW s \in Seq(S)
  PROVE  Len(s) \in Nat /\ s \in [1 .. Len(s) -> S] /\ DOMAIN s = 1 .. Len(s)
OBVIOUS

LEMMA EmptySeq ==
  ASSUME NEW S
  PROVE  /\ <<>> \in Seq(S) /\ Len(<<>>) = 0
         /\ \A s \in Seq(S) : s = <<>> <=> Len(s) = 0
OBVIOUS


\* As many sets as A has members, of at most m elements each.
LEMMA UnionBound ==
  ASSUME NEW A, IsFiniteSet(A), NEW f, NEW m \in Nat,
         \A p \in A : IsFiniteSet(f[p]) /\ Cardinality(f[p]) <= m
  PROVE  LET U == UNION {f[p] : p \in A}
         IN  IsFiniteSet(U) /\ Cardinality(U) <= Cardinality(A) * m
<1> DEFINE U == UNION {f[p] : p \in A}
           Who(x) == CHOOSE p \in A : x \in f[p]
           g == [p \in A |-> CHOOSE h : h \in Bijection(1 .. Cardinality(f[p]), f[p])]
           Where(x) == CHOOSE i \in 1 .. Cardinality(f[Who(x)]) : g[Who(x)][i] = x
           place == [x \in U |-> <<Who(x), Where(x)>>]
<1>1. ASSUME NEW p \in A
      PROVE  Cardinality(f[p]) \in Nat /\ g[p] \in Bijection(1 .. Cardinality(f[p]), f[p])
  <2>1. Cardinality(f[p]) \in Nat /\ ExistsBijection(1 .. Cardinality(f[p]), f[p])
    BY FS_CardinalityType
  <2> QED BY <2>1 DEF ExistsBijection
<1>2. ASSUME NEW x \in U
      PROVE  /\ Who(x) \in A /\ x \in f[Who(x)]
             /\ Where(x) \in 1 .. m /\ g[Who(x)][Where(x)] = x
  <2>1. Who(x) \in A /\ x \in f[Who(x)] OBVIOUS
  <2> DEFINE p == Who(x)
  <2> HIDE DEF Who, g
  <2>2. \E i \in 1 .. Cardinality(f[p]) : g[p][i] = x
    BY <1>1, <2>1 DEF Bijection, Surjection
  <2>3. Where(x) \in 1 .. Cardinality(f[p]) /\ g[p][Where(x)] = x BY <2>2
  <2>4. Cardinality(f[p]) \in Nat /\ Cardinality(f[p]) <= m BY <1>1, <2>1
  <2> HIDE DEF Where
  <2> QED BY <2>1, <2>3, <2>4
<1> HIDE DEF Who, Where, g
<1>3. place \in Injection(U, A \X (1 .. m))
  <2>1. place \in [U -> A \X (1 .. m)] BY <1>2
  <2>2. ASSUME NEW x \in U, NEW y \in U, place[x] = place[y] PROVE x = y
    <3>1. Who(x) = Who(y) /\ Where(x) = Where(y) BY <2>2
    <3> QED BY <1>2, <3>1
  <2> QED BY <2>1, <2>2 DEF Injection, IsInjective
<1>4. IsFiniteSet(A \X (1 .. m)) /\ Cardinality(A \X (1 .. m)) = Cardinality(A) * m
  <2>1. IsFiniteSet(1 .. m) /\ Cardinality(1 .. m) = m
    <3>1. 1 \in Int /\ m \in Int OBVIOUS
    <3>2. /\ IsFiniteSet(1 .. m) /\ Cardinality(1 .. m) = IF 1 > m THEN 0 ELSE m - 1 + 1
      BY <3>1, FS_Interval
    <3> QED BY <3>2
  <2> QED BY <2>1, FS_Product
<1> HIDE DEF place, U
<1>5. IsFiniteSet(U) /\ Cardinality(U) <= Cardinality(A) * m BY <1>3, <1>4, FS_Injection
<1> QED BY <1>5 DEF U

\* A sequence without repetitions is as long as its range is large.
LEMMA DistinctLength ==
  ASSUME NEW S, NEW s \in Seq(S), Distinct(s), NEW T, IsFiniteSet(T),
         \A i \in DOMAIN s : s[i] \in T
  PROVE  Len(s) <= Cardinality(T)
<1>1. Len(s) \in Nat /\ DOMAIN s = 1 .. Len(s) /\ s \in [1 .. Len(s) -> S] BY LenProperties
<1>2. s \in [1 .. Len(s) -> T] BY <1>1
<1>3. s \in Injection(1 .. Len(s), T) BY <1>1, <1>2 DEF Distinct, Injection, IsInjective
<1>4. Cardinality(1 .. Len(s)) <= Cardinality(T) BY <1>3, FS_Injection
<1>5. Cardinality(1 .. Len(s)) = Len(s)
  <2>1. 1 \in Int /\ Len(s) \in Int BY <1>1
  <2>2. Cardinality(1 .. Len(s)) = IF 1 > Len(s) THEN 0 ELSE Len(s) - 1 + 1 BY <2>1, FS_Interval
  <2> QED BY <1>1, <2>2
<1> QED BY <1>4, <1>5

\* The union is no larger than the two sets together.
LEMMA CupBound ==
  ASSUME NEW S, IsFiniteSet(S), NEW T, IsFiniteSet(T)
  PROVE  /\ IsFiniteSet(S \cup T)
         /\ Cardinality(S \cup T) <= Cardinality(S) + Cardinality(T)
<1>1. /\ IsFiniteSet(S \cup T)
      /\ Cardinality(S \cup T) = Cardinality(S) + Cardinality(T) - Cardinality(S \cap T)
  BY FS_Union
<1>2. IsFiniteSet(S \cap T) BY FS_Intersection
<1>3. Cardinality(S) \in Nat /\ Cardinality(T) \in Nat /\ Cardinality(S \cap T) \in Nat
  BY <1>2, FS_CardinalityType
<1> QED BY <1>1, <1>3

-----------------------------------------------------------------------------
(* Every step keeps the invariant *)

\* The sets that pc ranges over.
LEMMA Places ==
  ASSUME IInv
  PROVE  /\ pc \in [Procs -> {"out", "begin", "sleep", "op", "mod", "wlog", "whead", "install",
                              "clear", "done"}]
         /\ held \in [Procs -> SUBSET Blocks] /\ ops \in [Procs -> SUBSET Blocks]
         /\ lh \in Seq(Blocks) /\ hdr \in Seq(Blocks) /\ outstanding \in Nat
BY DEF IInv, TypeOK, InOp, Committing

\* While an operation is under way nobody commits.
LEMMA NoCommitInside ==
  ASSUME IInv, NEW p \in Procs, pc[p] \in InOp
  PROVE  ~committing /\ \A q \in Procs : pc[q] \notin Committing
BY DEF IInv, Commits, Active

\* outstanding and the operations' blocks.
LEMMA OperationsStep ==
  ASSUME IInv, Next
  PROVE  Operations'
<1> USE DEF InOp
<1>1. /\ pc \in [Procs -> {"out", "begin", "sleep", "op", "mod", "wlog", "whead", "install",
                           "clear", "done"}]
      /\ held \in [Procs -> SUBSET Blocks] /\ ops \in [Procs -> SUBSET Blocks]
      /\ outstanding \in Nat /\ OpBlocks \in Nat
      /\ Operations
  BY Places, LogAssumption DEF IInv
<1>2. IsFiniteSet({}) /\ Cardinality({}) = 0 BY FS_EmptySet
<1>3. ASSUME UNCHANGED <<outstanding, held, ops>>, Active' = Active,
             \A p \in Procs : pc'[p] = "mod" <=> pc[p] = "mod"
      PROVE  Operations'
  BY <1>1, <1>3 DEF Operations
<1>4. ASSUME NEW p \in Procs, CallBegin(p) PROVE Operations'
  BY <1>1, <1>3, <1>4 DEF CallBegin, Active, log
<1>5. ASSUME NEW p \in Procs, BeginOp(p) PROVE Operations'
  <2>1. CASE UNCHANGED outstanding /\ pc' = [pc EXCEPT ![p] = "sleep"]
    BY <1>1, <1>3, <1>5, <2>1 DEF BeginOp, Active
  <2>2. CASE outstanding' = outstanding + 1 /\ pc' = [pc EXCEPT ![p] = "op"]
    <3>1. p \notin Active /\ Active' = Active \cup {p} BY <1>1, <1>5, <2>2 DEF BeginOp, Active
    <3>2. IsFiniteSet(Active') /\ Cardinality(Active') = outstanding'
      BY <1>1, <2>2, <3>1, FS_AddElement DEF Operations
    <3>3. UNCHANGED <<held, ops>> /\ \A q \in Procs : pc'[q] = "mod" <=> pc[q] = "mod"
      BY <1>1, <1>5, <2>2 DEF BeginOp
    <3> QED BY <1>1, <3>2, <3>3 DEF Operations
  <2> QED BY <1>5, <2>1, <2>2 DEF BeginOp
<1>6. ASSUME NEW p \in Procs, NEW b \in Blocks, NEW v \in Vals, Modify(p, b, v) PROVE Operations'
  <2>1. /\ pc[p] = "op" /\ pc' = [pc EXCEPT ![p] = "mod"]
        /\ held' = [held EXCEPT ![p] = {b}] /\ ops' = [ops EXCEPT ![p] = ops[p] \cup {b}]
        /\ UNCHANGED outstanding
    BY <1>6 DEF Modify, log
  <2>2. Active' = Active BY <1>1, <2>1 DEF Active
  <2>3. IsFiniteSet(ops[p] \cup {b}) /\ Cardinality(ops[p] \cup {b}) <= OpBlocks
    <3>1. IsFiniteSet(ops[p]) /\ Cardinality(ops[p]) <= OpBlocks BY <1>1 DEF Operations
    <3>2. Cardinality(ops[p]) \in Nat BY <3>1, FS_CardinalityType
    <3>3. /\ IsFiniteSet(ops[p] \cup {b})
          /\ Cardinality(ops[p] \cup {b}) =
               IF b \in ops[p] THEN Cardinality(ops[p]) ELSE Cardinality(ops[p]) + 1
      BY <3>1, FS_AddElement
    <3>4. b \in ops[p] \/ Cardinality(ops[p]) < OpBlocks BY <1>6 DEF Modify
    <3> QED BY <1>1, <3>1, <3>2, <3>3, <3>4
  <2>4. IsFiniteSet(Active') /\ Cardinality(Active') = outstanding'
    BY <1>1, <2>1, <2>2 DEF Operations
  <2>5. ASSUME NEW q \in Procs
        PROVE  /\ pc'[q] = "mod" => \E c \in ops'[q] : held'[q] = {c}
               /\ pc'[q] # "mod" => held'[q] = {}
               /\ IsFiniteSet(ops'[q]) /\ Cardinality(ops'[q]) <= OpBlocks
    <3>1. CASE q = p BY <1>1, <2>1, <2>3, <3>1
    <3>2. CASE q # p
      <4>1. pc'[q] = pc[q] /\ held'[q] = held[q] /\ ops'[q] = ops[q] BY <1>1, <2>1, <3>2
      <4> QED BY <1>1, <4>1 DEF Operations
    <3> QED BY <3>1, <3>2
  <2> QED BY <2>4, <2>5 DEF Operations
<1>7. ASSUME NEW p \in Procs, log_write(p) PROVE Operations'
  <2>1. /\ pc[p] = "mod" /\ pc' = [pc EXCEPT ![p] = "op"]
        /\ held' = [held EXCEPT ![p] = {}]
        /\ UNCHANGED <<outstanding, ops>>
    BY <1>7 DEF log_write
  <2>2. Active' = Active BY <1>1, <2>1 DEF Active
  <2> QED BY <1>1, <2>1, <2>2 DEF Operations
<1>8. ASSUME NEW p \in Procs, EndOp(p) PROVE Operations'
  <2>1. /\ pc[p] = "op" /\ outstanding' = outstanding - 1
        /\ ops' = [ops EXCEPT ![p] = {}] /\ UNCHANGED held
    BY <1>8 DEF EndOp
  <2>2. Active' = Active \ {p} /\ \A q \in Procs : pc'[q] = "mod" <=> pc[q] = "mod"
    BY <1>1, <1>8 DEF EndOp, Woken, Active
  <2>3. p \in Active BY <2>1 DEF Active
  <2>4. IsFiniteSet(Active') /\ Cardinality(Active') = outstanding'
    BY <1>1, <2>1, <2>2, <2>3, FS_RemoveElement DEF Operations
  <2>5. \A q \in Procs : ops'[q] = ops[q] \/ ops'[q] = {} BY <1>1, <2>1
  <2>6. \A q \in Procs : IsFiniteSet(ops'[q]) /\ Cardinality(ops'[q]) <= OpBlocks
    <3> TAKE q \in Procs
    <3>1. CASE ops'[q] = ops[q] BY <1>1, <3>1 DEF Operations
    <3>2. CASE ops'[q] = {} BY <1>1, <1>2, <3>2
    <3> QED BY <2>5, <3>1, <3>2
  <2>7. \A q \in Procs : pc'[q] = "mod" => ops'[q] = ops[q] BY <1>1, <2>1, <2>2
  <2> QED BY <1>1, <2>1, <2>2, <2>4, <2>6, <2>7 DEF Operations
<1>9. ASSUME NEW p \in Procs, CommitStep(p) PROVE Operations'
  BY <1>1, <1>3, <1>9 DEF CommitStep, WriteLog, WriteHead, Install, Clear, Committed, Woken,
                          Active, log
<1>10. CASE Recover \/ \E b \in Blocks : Evict(b)
  BY <1>1, <1>3, <1>10 DEF Recover, ReadHead, Reinstall, ReClear, Evict, Active, log
<1>11. CASE Crash
  <2>1. Active' = {} BY <1>11 DEF Crash, Active
  <2> QED BY <1>1, <1>2, <1>11, <2>1 DEF Crash, Operations
<1> QED BY <1>4, <1>5, <1>6, <1>7, <1>8, <1>9, <1>10, <1>11 DEF Next, OpStep

\* One committer, and no operation beside it.
LEMMA CommitsStep ==
  ASSUME IInv, Next
  PROVE  Commits'
<1> USE DEF InOp, Committing, Active
<1>1. /\ pc \in [Procs -> {"out", "begin", "sleep", "op", "mod", "wlog", "whead", "install",
                           "clear", "done"}]
      /\ Commits
  BY Places DEF IInv
<1>2. ASSUME UNCHANGED committing,
             \A p \in Procs : /\ pc'[p] \in Committing <=> pc[p] \in Committing
                              /\ pc'[p] \in InOp => pc[p] \in InOp
      PROVE  Commits'
  BY <1>1, <1>2 DEF Commits
<1>3. ASSUME NEW p \in Procs, CallBegin(p) PROVE Commits'
  BY <1>1, <1>2, <1>3 DEF CallBegin, log
<1>4. ASSUME NEW p \in Procs, BeginOp(p) PROVE Commits'
  <2>1. CASE pc' = [pc EXCEPT ![p] = "sleep"] BY <1>1, <1>2, <1>4, <2>1 DEF BeginOp
  <2>2. CASE pc' = [pc EXCEPT ![p] = "op"] /\ ~committing
    BY <1>1, <1>4, <2>2 DEF BeginOp, Commits
  <2> QED BY <1>4, <2>1, <2>2 DEF BeginOp
<1>5. ASSUME NEW p \in Procs, NEW b \in Blocks, NEW v \in Vals, Modify(p, b, v) PROVE Commits'
  BY <1>1, <1>2, <1>5 DEF Modify, log
<1>6. ASSUME NEW p \in Procs, log_write(p) PROVE Commits'
  BY <1>1, <1>2, <1>6 DEF log_write
<1>7. ASSUME NEW p \in Procs, EndOp(p) PROVE Commits'
  <2>1. /\ pc[p] = "op" /\ p \in Active BY <1>7 DEF EndOp
  <2>2. ~committing /\ \A q \in Procs : pc[q] \notin Committing BY <2>1, NoCommitInside
  <2>3. CASE outstanding # 1
    <3>1. pc' = [Woken EXCEPT ![p] = "out"] /\ UNCHANGED committing BY <1>7, <2>3 DEF EndOp
    <3> QED BY <1>1, <1>2, <2>1, <3>1 DEF Woken
  <2>4. CASE outstanding = 1
    <3>1. Active = {p}
      <4>1. PICK x : Active = {x}
        <5>1. IsFiniteSet(Active) /\ Cardinality(Active) = 1 BY <2>4 DEF IInv, Operations
        <5> HIDE DEF Active
        <5> QED BY <5>1, FS_Singleton
      <4> QED BY <2>1, <4>1
    <3>2. pc' = [pc EXCEPT ![p] = IF lh = <<>> THEN "done" ELSE "wlog"] /\ committing' = TRUE
      BY <1>7, <2>4 DEF EndOp
    <3>3. \A q \in Procs : q # p => pc[q] \notin InOp BY <3>1
    <3> QED BY <1>1, <2>2, <3>2, <3>3 DEF Commits
  <2> QED BY <2>3, <2>4
<1>8. ASSUME NEW p \in Procs, WriteLog(p) \/ WriteHead(p) \/ Install(p) \/ Clear(p) PROVE Commits'
  BY <1>1, <1>2, <1>8 DEF WriteLog, WriteHead, Install, Clear, log
<1>9. ASSUME NEW p \in Procs, Committed(p) PROVE Commits'
  <2>1. pc[p] = "done" /\ committing' = FALSE /\ pc' = [Woken EXCEPT ![p] = "out"]
    BY <1>9 DEF Committed
  <2>2. \A q \in Procs : q # p => pc[q] \notin Committing BY <1>1, <2>1 DEF Commits
  <2> QED BY <1>1, <2>1, <2>2 DEF Commits, Woken
<1>10. CASE Recover \/ \E b \in Blocks : Evict(b)
  BY <1>2, <1>10 DEF Recover, ReadHead, Reinstall, ReClear, Evict, log
<1>11. CASE Crash BY <1>11 DEF Crash, Commits
<1> QED BY <1>3, <1>4, <1>5, <1>6, <1>7, <1>8, <1>9, <1>10, <1>11 DEF Next, OpStep, CommitStep

\* Recovery: nothing else runs, and disk and cache change together.
LEMMA BootingStep ==
  ASSUME IInv, Next
  PROVE  Booting'
<1>1. CASE boot = "run" /\ ~Crash
  <2>1. boot' = "run"
    BY <1>1 DEF Next, CallBegin, OpStep, BeginOp, Modify, log_write, EndOp, CommitStep, WriteLog,
                WriteHead, Install, Clear, Committed, Evict, Recover, ReadHead, Reinstall, ReClear
  <2> QED BY <2>1 DEF Booting
<1>2. CASE Crash BY <1>2 DEF Crash, Booting, store
<1>3. CASE boot # "run" /\ Recover
  <2>1. Booting /\ TypeOK BY DEF IInv
  <2>2. CASE ReadHead BY <1>3, <2>1, <2>2 DEF Booting, ReadHead, store
  <2>3. CASE Reinstall
    <3>1. /\ disk' = [disk EXCEPT ![lh[tail]] = logdata[tail]]
          /\ cache' = [cache EXCEPT ![lh[tail]] = logdata[tail]]
          /\ dirty' = [dirty EXCEPT ![lh[tail]] = FALSE]
          /\ UNCHANGED <<pc, panicked>>
      BY <2>3 DEF Reinstall, InstallBlock
    <3> QED BY <1>3, <2>1, <3>1 DEF Booting
  <2>4. CASE ReClear BY <2>4 DEF Booting, ReClear
  <2> QED BY <1>3, <2>2, <2>3, <2>4 DEF Recover
<1> QED BY <1>1, <1>2, <1>3 DEF Next

\* How log.lh and the header on disk change.
LEMMA LogChanges ==
  ASSUME IInv, Next
  PROVE  /\ \/ lh' = lh
            \/ lh' = <<>>
            \/ ReadHead /\ lh' = hdr
            \/ \E p \in Procs : \E b \in held[p] :
                 log_write(p) /\ ~Listed(lh, b) /\ lh' = Append(lh, b)
         /\ hdr' = hdr \/ hdr' = lh \/ hdr' = <<>>
<1>1. ASSUME NEW p \in Procs, CallBegin(p) PROVE UNCHANGED <<lh, hdr>>
  BY <1>1 DEF CallBegin, log, store
<1>2. ASSUME NEW p \in Procs, BeginOp(p) \/ EndOp(p) PROVE UNCHANGED <<lh, hdr>>
  BY <1>2 DEF BeginOp, EndOp, store
<1>3. ASSUME NEW p \in Procs, NEW b \in Blocks, NEW v \in Vals, Modify(p, b, v)
      PROVE  UNCHANGED <<lh, hdr>>
  BY <1>3 DEF Modify, log, store
<1>4. ASSUME NEW p \in Procs, log_write(p)
      PROVE  /\ UNCHANGED hdr
             /\ lh' = lh \/ \E b \in held[p] : ~Listed(lh, b) /\ lh' = Append(lh, b)
  BY <1>4 DEF log_write, store
<1>5. ASSUME NEW p \in Procs, CommitStep(p)
      PROVE  (lh' = lh \/ lh' = <<>>) /\ (hdr' = hdr \/ hdr' = lh \/ hdr' = <<>>)
  BY <1>5 DEF CommitStep, WriteLog, WriteHead, Install, Clear, Committed, log, store
<1>6. ASSUME NEW b \in Blocks, Evict(b) PROVE UNCHANGED <<lh, hdr>>
  BY <1>6 DEF Evict, log, store
<1>7. ASSUME Recover \/ Crash
      PROVE  /\ lh' = lh \/ lh' = <<>> \/ (ReadHead /\ lh' = hdr)
             /\ hdr' = hdr \/ hdr' = <<>>
  BY <1>7 DEF Recover, ReadHead, Reinstall, ReClear, Crash, log, store
<1> QED BY <1>1, <1>2, <1>3, <1>4, <1>5, <1>6, <1>7 DEF Next, OpStep

\* Absorption: log_write() lists a block once.
LEMMA DistinctStep ==
  ASSUME IInv, Next
  PROVE  /\ Distinct(lh') /\ Distinct(hdr')
         /\ lh' \in Seq(Blocks) /\ hdr' \in Seq(Blocks)
<1>1. /\ lh \in Seq(Blocks) /\ hdr \in Seq(Blocks) /\ Distinct(lh) /\ Distinct(hdr)
      /\ held \in [Procs -> SUBSET Blocks]
  BY Places DEF IInv
<1>2. Distinct(<<>>) /\ <<>> \in Seq(Blocks)
  <2>1. <<>> \in Seq(Blocks) /\ Len(<<>>) = 0 BY EmptySeq
  <2>2. DOMAIN <<>> = 1 .. 0 BY <2>1, LenProperties
  <2> QED BY <2>1, <2>2 DEF Distinct
<1>3. ASSUME NEW b \in Blocks, ~Listed(lh, b)
      PROVE  Distinct(Append(lh, b)) /\ Append(lh, b) \in Seq(Blocks)
  <2> DEFINE s == Append(lh, b)
  <2>1. Len(lh) \in Nat /\ DOMAIN lh = 1 .. Len(lh) BY <1>1, LenProperties
  <2>2. s \in Seq(Blocks) /\ Len(s) = Len(lh) + 1 BY <1>1
  <2>3. DOMAIN s = 1 .. Len(lh) + 1 BY <2>2, LenProperties
  <2>4. \A i \in 1 .. Len(lh) : s[i] = lh[i] BY <1>1
  <2>5. s[Len(lh) + 1] = b BY <1>1
  <2> HIDE DEF s
  <2>6. ASSUME NEW i \in DOMAIN s, NEW j \in DOMAIN s, s[i] = s[j] PROVE i = j
    <3>1. i \in 1 .. Len(lh) \/ i = Len(lh) + 1 BY <2>1, <2>3
    <3>2. j \in 1 .. Len(lh) \/ j = Len(lh) + 1 BY <2>1, <2>3
    <3>3. \A k \in 1 .. Len(lh) : s[k] # b BY <1>3, <2>1, <2>4 DEF Listed
    <3>4. CASE i \in 1 .. Len(lh) /\ j \in 1 .. Len(lh)
      BY <1>1, <2>1, <2>4, <2>6, <3>4 DEF Distinct
    <3> QED BY <2>5, <2>6, <3>1, <3>2, <3>3, <3>4
  <2> QED BY <2>2, <2>6 DEF Distinct, s
<1> QED BY <1>1, <1>2, <1>3, LogChanges

\* As many blocks are listed as there are places, or fewer.
LEMMA RangeBound ==
  ASSUME NEW s \in Seq(Blocks)
  PROVE  LET B == {s[i] : i \in DOMAIN s}
         IN  B \in SUBSET Blocks /\ IsFiniteSet(B) /\ Cardinality(B) <= Len(s)
<1> DEFINE B == {s[i] : i \in DOMAIN s}
<1>1. Len(s) \in Nat /\ DOMAIN s = 1 .. Len(s) /\ s \in [1 .. Len(s) -> Blocks] BY LenProperties
<1>2. s \in Surjection(1 .. Len(s), B) BY <1>1 DEF Surjection
<1>3. IsFiniteSet(1 .. Len(s)) /\ Cardinality(1 .. Len(s)) = Len(s)
  <2>1. 1 \in Int /\ Len(s) \in Int BY <1>1
  <2>2. /\ IsFiniteSet(1 .. Len(s))
        /\ Cardinality(1 .. Len(s)) = IF 1 > Len(s) THEN 0 ELSE Len(s) - 1 + 1
    BY <2>1, FS_Interval
  <2> QED BY <1>1, <2>2
<1>4. B \in SUBSET Blocks BY <1>1
<1> HIDE DEF B
<1>5. IsFiniteSet(B) /\ Cardinality(B) <= Len(s) BY <1>2, <1>3, FS_Surjection
<1> QED BY <1>4, <1>5 DEF B

\* Room is a size, between that of one operation and that of the log.
LEMMA RoomBounds ==
  /\ Room \in Nat /\ OpBlocks <= Room /\ Room <= LOGSIZE
  /\ LOGSIZE - 2 * (MAXOPBLOCKS - OpBlocks) <= Room
BY LogAssumption DEF Room

\* The room that begin_op() has reserved is enough.
LEMMA LogFits == Space /\ Operations /\ Distinct(lh) /\ lh \in Seq(Blocks) => Len(lh) <= Room
<1> SUFFICES ASSUME Space, Operations, Distinct(lh), lh \in Seq(Blocks) PROVE Len(lh) <= Room
  OBVIOUS
<1>1. PICK B \in SUBSET Blocks :
        /\ IsFiniteSet(B) /\ Cardinality(B) + outstanding * OpBlocks <= Room
        /\ \A i \in DOMAIN lh : lh[i] \in B \cup Written
  BY DEF Space
<1>2. OpBlocks \in Nat /\ Room \in Nat BY LogAssumption, RoomBounds
<1>3. outstanding \in Nat /\ IsFiniteSet(Written) /\ Cardinality(Written) <= outstanding * OpBlocks
  <2>1. IsFiniteSet(Active) /\ Cardinality(Active) = outstanding BY DEF Operations
  <2>2. \A p \in Active : IsFiniteSet(ops[p]) /\ Cardinality(ops[p]) <= OpBlocks
    BY DEF Operations, Active
  <2> QED BY <1>2, <2>1, <2>2, UnionBound, FS_CardinalityType DEF Written
<1>4. /\ IsFiniteSet(B \cup Written)
      /\ Cardinality(B \cup Written) <= Cardinality(B) + Cardinality(Written)
  BY <1>1, <1>3, CupBound
<1>5. Len(lh) <= Cardinality(B \cup Written) BY <1>1, <1>4, DistinctLength
<1>6. /\ Len(lh) \in Nat /\ Cardinality(B) \in Nat /\ Cardinality(Written) \in Nat
      /\ Cardinality(B \cup Written) \in Nat
  BY <1>1, <1>3, <1>4, FS_CardinalityType, LenProperties
<1>7. PICK k \in Int : k = outstanding * OpBlocks BY <1>2, <1>3
<1> QED BY <1>1, <1>2, <1>3, <1>4, <1>5, <1>6, <1>7

\* begin_op() leaves MAXOPBLOCKS for each operation, which writes at most OpBlocks.
LEMMA SpaceStep ==
  ASSUME IInv, Next
  PROVE  Space'
<1> USE DEF InOp
<1>1. /\ pc \in [Procs -> {"out", "begin", "sleep", "op", "mod", "wlog", "whead", "install",
                           "clear", "done"}]
      /\ held \in [Procs -> SUBSET Blocks] /\ ops \in [Procs -> SUBSET Blocks]
      /\ lh \in Seq(Blocks) /\ hdr \in Seq(Blocks) /\ outstanding \in Nat
      /\ Operations
  BY Places DEF IInv
<1>2. PICK B \in SUBSET Blocks :
        /\ IsFiniteSet(B) /\ Cardinality(B) + outstanding * OpBlocks <= Room
        /\ \A i \in DOMAIN lh : lh[i] \in B \cup Written
  BY DEF IInv, Space
<1>0. Len(hdr') <= Room
  <2>1. hdr' = hdr \/ hdr' = lh \/ hdr' = <<>> BY LogChanges
  <2>2. Len(hdr) <= Room /\ Len(lh) <= Room BY <1>1, LogFits DEF IInv, Space
  <2>3. Len(<<>>) = 0 /\ Room \in Nat BY EmptySeq, RoomBounds
  <2> QED BY <2>1, <2>2, <2>3
<1>3. ASSUME UNCHANGED outstanding, Written \subseteq Written', lh' = lh \/ lh' = <<>>
      PROVE  Space'
  <2>1. \A i \in DOMAIN lh' : lh'[i] \in B \cup Written' BY <1>2, <1>3
  <2> QED BY <1>0, <1>2, <1>3, <2>1 DEF Space
<1>4. ASSUME NEW p \in Procs, CallBegin(p) PROVE Space'
  <2>1. ops' = ops /\ Active' = Active BY <1>1, <1>4 DEF CallBegin, Active
  <2>2. UNCHANGED <<outstanding, lh>> BY <1>4 DEF CallBegin, log
  <2> QED BY <1>3, <2>1, <2>2 DEF Written
<1>5. ASSUME NEW p \in Procs, BeginOp(p) PROVE Space'
  <2>1. UNCHANGED <<lh, ops>> BY <1>5 DEF BeginOp
  <2>2. CASE committing \/ NoSpace
    <3>1. Active' = Active /\ UNCHANGED outstanding BY <1>1, <1>5, <2>2 DEF BeginOp, Active
    <3> QED BY <1>3, <2>1, <3>1 DEF Written
  <2>3. CASE ~(committing \/ NoSpace)
    <3> DEFINE R == {lh[i] : i \in DOMAIN lh}
    <3>1. R \in SUBSET Blocks /\ IsFiniteSet(R) /\ Cardinality(R) <= Len(lh) BY <1>1, RangeBound
    <3>2. outstanding' = outstanding + 1 BY <1>5, <2>3 DEF BeginOp
    <3>3. ~(Len(lh) + (outstanding + 1) * MAXOPBLOCKS > LOGSIZE) BY <2>3 DEF NoSpace
    <3>4. Cardinality(R) \in Nat /\ Len(lh) \in Nat BY <1>1, <3>1, FS_CardinalityType, LenProperties
    <3>5. \A i \in DOMAIN lh' : lh'[i] \in R \cup Written' BY <2>1
    <3> HIDE DEF R
    <3>6. Cardinality(R) + outstanding' * OpBlocks <= Room
      <4>1. CASE outstanding = 0
        <5>1. Active = {} BY <1>1, <4>1, FS_EmptySet DEF Operations
        <5>2. boot = "run" BY <1>5 DEF BeginOp, IInv, Booting
        <5>3. lh = <<>> BY <2>3, <5>1, <5>2 DEF IInv, Idle
        <5>4. Len(lh) = 0 BY <5>3, EmptySeq
        <5>5. outstanding' * OpBlocks = OpBlocks BY <3>2, <4>1, LogAssumption
        <5> QED BY <3>1, <3>4, <5>4, <5>5, LogAssumption, RoomBounds
      <4>2. CASE outstanding # 0
        <5>1. PICK d \in Nat : d = MAXOPBLOCKS - OpBlocks BY LogAssumption
        <5>2. PICK j \in Nat : outstanding = j + 1 BY <1>1, <4>2
        <5>3. j * d \in Nat BY <5>1
        <5>4. (j + 2) * MAXOPBLOCKS = (j + 2) * OpBlocks + (j * d) + 2 * d
          BY <5>1, <5>2, LogAssumption
        <5>5. PICK x \in Int : x = (j + 2) * OpBlocks BY <5>2, LogAssumption
        <5>6. PICK y \in Nat : y = j * d BY <5>3
        <5>7. outstanding + 1 = j + 2 BY <5>2
        <5>8. Len(lh) + (x + y + 2 * d) <= LOGSIZE
          <6>1. ~(Len(lh) + (j + 2) * MAXOPBLOCKS > LOGSIZE) BY <3>3, <5>7
          <6> QED BY <3>4, <5>1, <5>4, <5>5, <5>6, <6>1, LogAssumption
        <5>9. LOGSIZE - 2 * d <= Room /\ Room \in Nat /\ LOGSIZE \in Nat
          BY <5>1, RoomBounds, LogAssumption
        <5>10. Cardinality(R) + x <= Room
          <6>1. PICK z \in Nat : z = 2 * d BY <5>1
          <6>2. Len(lh) + (x + y + z) <= LOGSIZE /\ LOGSIZE - z <= Room BY <5>8, <5>9, <6>1
          <6> QED BY <3>1, <3>4, <5>9, <6>2
        <5> QED BY <3>2, <5>5, <5>7, <5>10
      <4> QED BY <4>1, <4>2
    <3> QED BY <1>0, <3>1, <3>5, <3>6 DEF Space
  <2> QED BY <2>2, <2>3
<1>6. ASSUME NEW p \in Procs, NEW b \in Blocks, NEW v \in Vals, Modify(p, b, v) PROVE Space'
  <2>1. /\ UNCHANGED <<outstanding, lh>> /\ pc[p] = "op" /\ pc' = [pc EXCEPT ![p] = "mod"]
        /\ ops' = [ops EXCEPT ![p] = @ \cup {b}]
    BY <1>6 DEF Modify, log
  <2>2. Active' = Active /\ \A q \in Active : ops[q] \subseteq ops'[q] BY <1>1, <2>1 DEF Active
  <2>3. Written \subseteq Written' BY <2>2 DEF Written
  <2> QED BY <1>3, <2>1, <2>3
<1>7. ASSUME NEW p \in Procs, log_write(p) PROVE Space'
  <2>1. /\ UNCHANGED <<outstanding, ops>> /\ pc[p] = "mod" /\ pc' = [pc EXCEPT ![p] = "op"]
    BY <1>7 DEF log_write
  <2>2. Active' = Active /\ p \in Active BY <1>1, <2>1 DEF Active
  <2>3. Written' = Written BY <2>1, <2>2 DEF Written
  <2>4. PICK b \in held[p] : lh' = IF Listed(lh, b) THEN lh ELSE Append(lh, b)
    BY <1>7 DEF log_write
  <2>5. b \in ops[p] /\ b \in Blocks BY <1>1, <2>1 DEF Operations
  <2>6. b \in Written BY <2>2, <2>5 DEF Written
  <2>7. CASE lh' = lh BY <1>3, <2>1, <2>3, <2>7
  <2>8. CASE lh' = Append(lh, b)
    <3>1. Len(lh) \in Nat /\ DOMAIN lh = 1 .. Len(lh) BY <1>1, LenProperties
    <3>2. lh' \in Seq(Blocks) /\ Len(lh') = Len(lh) + 1 BY <1>1, <2>5, <2>8
    <3>3. DOMAIN lh' = 1 .. Len(lh) + 1 BY <3>2, LenProperties
    <3>4. ASSUME NEW i \in DOMAIN lh' PROVE lh'[i] \in B \cup Written'
      <4>1. CASE i \in DOMAIN lh
        <5>1. lh'[i] = lh[i] BY <1>1, <2>5, <2>8, <3>1, <4>1
        <5> QED BY <1>2, <2>3, <4>1, <5>1
      <4>2. CASE i = Len(lh) + 1
        <5>1. lh'[i] = b BY <1>1, <2>5, <2>8, <4>2
        <5> QED BY <2>3, <2>6, <5>1
      <4> QED BY <3>1, <3>3, <4>1, <4>2
    <3> QED BY <1>0, <1>2, <2>1, <3>4 DEF Space
  <2> QED BY <2>4, <2>7, <2>8
<1>8. ASSUME NEW p \in Procs, EndOp(p) PROVE Space'
  <2> DEFINE C == B \cup ops[p]
  <2>1. /\ pc[p] = "op" /\ outstanding' = outstanding - 1 /\ UNCHANGED lh
        /\ ops' = [ops EXCEPT ![p] = {}]
    BY <1>8 DEF EndOp
  <2>2. Active' = Active \ {p} BY <1>1, <1>8 DEF EndOp, Woken, Active
  <2>3. \A q \in Active' : ops'[q] = ops[q] BY <1>1, <2>1, <2>2 DEF Active
  <2>4. Written \subseteq ops[p] \cup Written' BY <2>2, <2>3 DEF Written
  <2>5. \A i \in DOMAIN lh' : lh'[i] \in C \cup Written' BY <1>2, <2>1, <2>4
  <2>6. IsFiniteSet(ops[p]) /\ Cardinality(ops[p]) <= OpBlocks BY <1>1 DEF Operations
  <2>7. /\ C \in SUBSET Blocks /\ IsFiniteSet(C)
        /\ Cardinality(C) <= Cardinality(B) + Cardinality(ops[p])
    BY <1>1, <1>2, <2>6, CupBound
  <2>8. Cardinality(C) \in Nat /\ Cardinality(B) \in Nat /\ Cardinality(ops[p]) \in Nat
    BY <1>2, <2>6, <2>7, FS_CardinalityType
  <2> HIDE DEF C
  <2>9. outstanding' * OpBlocks = outstanding * OpBlocks - OpBlocks
    BY <1>1, <2>1, LogAssumption
  <2>10. PICK k \in Int : k = outstanding * OpBlocks BY <1>1, LogAssumption
  <2>11. Cardinality(C) + outstanding' * OpBlocks <= Room
    <3>1. OpBlocks \in Nat /\ Room \in Nat BY LogAssumption, RoomBounds
    <3>2. Cardinality(B) + k <= Room BY <1>2, <2>10
    <3> QED BY <2>6, <2>7, <2>8, <2>9, <2>10, <3>1, <3>2
  <2> QED BY <1>0, <2>5, <2>7, <2>11 DEF Space
<1>9. ASSUME NEW p \in Procs, CommitStep(p) PROVE Space'
  <2>1. UNCHANGED <<outstanding, ops>> /\ (lh' = lh \/ lh' = <<>>)
    BY <1>9 DEF CommitStep, WriteLog, WriteHead, Install, Clear, Committed, log
  <2>2. Active' = Active
    BY <1>1, <1>9 DEF CommitStep, WriteLog, WriteHead, Install, Clear, Committed, Woken, Active
  <2> QED BY <1>3, <2>1, <2>2 DEF Written
<1>10. CASE Reinstall \/ ReClear \/ \E b \in Blocks : Evict(b)
  <2>1. UNCHANGED <<outstanding, ops, pc>> /\ (lh' = lh \/ lh' = <<>>)
    BY <1>10 DEF Reinstall, ReClear, Evict, log
  <2>2. Active' = Active BY <2>1 DEF Active
  <2> QED BY <1>3, <2>1, <2>2 DEF Written
<1>11. CASE ReadHead
  <2> DEFINE R == {hdr[i] : i \in DOMAIN hdr}
  <2>1. R \in SUBSET Blocks /\ IsFiniteSet(R) /\ Cardinality(R) <= Len(hdr) BY <1>1, RangeBound
  <2>2. \A p \in Procs : pc[p] = "out" BY <1>11 DEF ReadHead, IInv, Booting
  <2>3. Active = {} BY <2>2 DEF Active
  <2>4. outstanding = 0 BY <1>1, <2>3, FS_EmptySet DEF Operations
  <2>5. lh' = hdr /\ outstanding' = 0 BY <1>11, <2>4 DEF ReadHead
  <2>6. \A i \in DOMAIN lh' : lh'[i] \in R \cup Written' BY <2>5
  <2> HIDE DEF R
  <2>7. Len(hdr) <= Room /\ Len(hdr) \in Nat /\ Cardinality(R) \in Nat
    BY <1>1, <2>1, FS_CardinalityType, LenProperties DEF IInv, Space
  <2>8. 0 * OpBlocks = 0 /\ Room \in Nat BY LogAssumption, RoomBounds
  <2>9. Cardinality(R) + outstanding' * OpBlocks <= Room BY <2>1, <2>5, <2>7, <2>8
  <2> QED BY <1>0, <2>1, <2>6, <2>9 DEF Space
<1>12. CASE Crash
  <2>1. lh' = <<>> /\ outstanding' = 0 BY <1>12 DEF Crash
  <2>2. IsFiniteSet({}) /\ Cardinality({}) = 0 BY FS_EmptySet
  <2>3. 0 * OpBlocks = 0 /\ Room \in Nat BY LogAssumption, RoomBounds
  <2>4. Cardinality({}) + outstanding' * OpBlocks <= Room BY <2>1, <2>2, <2>3
  <2>5. \A i \in DOMAIN lh' : lh'[i] \in {} \cup Written' BY <2>1
  <2>6. {} \in SUBSET Blocks OBVIOUS
  <2> QED BY <1>0, <2>2, <2>4, <2>5, <2>6 DEF Space
<1> QED BY <1>4, <1>5, <1>6, <1>7, <1>8, <1>9, <1>10, <1>11, <1>12 DEF Next, OpStep, Recover

\* tail is a place of the log while blocks are copied.
LEMMA TailPlace ==
  ASSUME IInv, boot = "install" \/ \E p \in Procs : pc[p] \in {"wlog", "install"}
  PROVE  /\ tail \in 1 .. Len(lh) /\ tail \in Slots /\ lh[tail] \in Blocks
         /\ logdata[tail] \in Vals /\ Len(lh) \in Nat /\ Len(lh) <= LOGSIZE /\ LOGSIZE \in Nat
<1>1. tail \in 1 .. Len(lh) BY DEF IInv, Phases, Phase, BootPhase
<1>2. lh \in Seq(Blocks) /\ Len(lh) <= LOGSIZE /\ logdata \in [Slots -> Vals] BY DEF IInv, TypeOK
<1>3. Len(lh) \in Nat /\ LOGSIZE \in Nat /\ lh \in [1 .. Len(lh) -> Blocks]
  BY <1>2, LogAssumption, LenProperties
<1>4. tail \in Slots BY <1>1, <1>2, <1>3 DEF Slots
<1> QED BY <1>1, <1>2, <1>3, <1>4

LEMMA TypeStep ==
  ASSUME IInv, Next, Operations', Distinct(lh'), lh' \in Seq(Blocks), hdr' \in Seq(Blocks), Space'
  PROVE  TypeOK'
<1> USE DEF InOp, Committing
<1>1. TypeOK BY DEF IInv
<1>2. Len(lh') <= LOGSIZE
  <2>1. Space' /\ Operations' /\ Distinct(lh)' /\ (lh \in Seq(Blocks))' => (Len(lh) <= Room)'
    BY LogFits, PTL
  <2>2. Len(lh') <= Room BY <2>1
  <2>3. Len(lh') \in Nat /\ LOGSIZE \in Nat BY LogAssumption, LenProperties
  <2> QED BY <2>2, <2>3, RoomBounds
<1>3. Len(hdr') <= LOGSIZE
  <2>1. Len(<<>>) = 0 /\ LOGSIZE \in Nat BY EmptySeq, LogAssumption
  <2>2. hdr' = hdr \/ hdr' = lh \/ hdr' = <<>> BY LogChanges
  <2> QED BY <1>1, <2>1, <2>2 DEF TypeOK
<1>4. outstanding' \in Nat BY FS_CardinalityType DEF Operations
<1>5. ASSUME /\ disk' \in [Blocks -> Vals] /\ cache' \in [Blocks -> Vals]
             /\ dirty' \in [Blocks -> BOOLEAN] /\ logdata' \in [Slots -> Vals]
             /\ committing' \in BOOLEAN
             /\ pc' \in [Procs -> {"out", "begin", "sleep"} \cup InOp \cup Committing]
             /\ held' \in [Procs -> SUBSET Blocks] /\ ops' \in [Procs -> SUBSET Blocks]
             /\ tail' \in 1 .. LOGSIZE + 1
             /\ boot' \in {"run", "read", "install", "clear"}
             /\ panicked' \in BOOLEAN
      PROVE  TypeOK'
  BY <1>2, <1>3, <1>4, <1>5 DEF TypeOK
<1>6. 1 \in 1 .. LOGSIZE + 1 BY LogAssumption
<1>7. ASSUME NEW p \in Procs, CallBegin(p) \/ BeginOp(p) PROVE TypeOK'
  BY <1>1, <1>5, <1>7 DEF CallBegin, BeginOp, TypeOK, log, store
<1>8. ASSUME NEW p \in Procs, NEW b \in Blocks, NEW v \in Vals, Modify(p, b, v) PROVE TypeOK'
  BY <1>1, <1>5, <1>8 DEF Modify, TypeOK, log, store
<1>9. ASSUME NEW p \in Procs, log_write(p) PROVE TypeOK'
  BY <1>1, <1>5, <1>9 DEF log_write, TypeOK, store
<1>10. ASSUME NEW p \in Procs, EndOp(p) PROVE TypeOK'
  BY <1>1, <1>5, <1>6, <1>10 DEF EndOp, Woken, TypeOK, store
<1>11. ASSUME NEW p \in Procs, WriteLog(p) PROVE TypeOK'
  <2>1. /\ tail \in 1 .. Len(lh) /\ lh[tail] \in Blocks /\ Len(lh) \in Nat
        /\ Len(lh) <= LOGSIZE /\ LOGSIZE \in Nat
    BY <1>11, TailPlace DEF WriteLog
  <2>2. tail' \in 1 .. LOGSIZE + 1 BY <1>6, <1>11, <2>1 DEF WriteLog
  <2>3. logdata' \in [Slots -> Vals] BY <1>1, <1>11, <2>1 DEF WriteLog, TypeOK
  <2>4. UNCHANGED <<disk, hdr, cache, dirty, log, held, ops, boot, panicked>> BY <1>11 DEF WriteLog
  <2>5. pc' \in [Procs -> {"out", "begin", "sleep"} \cup InOp \cup Committing]
    BY <1>1, <1>11 DEF WriteLog, TypeOK
  <2> QED BY <1>1, <1>5, <2>2, <2>3, <2>4, <2>5 DEF TypeOK, log
<1>12. ASSUME NEW p \in Procs, WriteHead(p) PROVE TypeOK'
  BY <1>1, <1>5, <1>12 DEF WriteHead, TypeOK, log
<1>13. ASSUME InstallBlock, boot = "install" \/ \E p \in Procs : pc[p] \in {"wlog", "install"}
       PROVE  /\ disk' \in [Blocks -> Vals] /\ cache' \in [Blocks -> Vals]
              /\ dirty' \in [Blocks -> BOOLEAN] /\ tail' \in 1 .. LOGSIZE + 1
  <2>1. /\ tail \in 1 .. Len(lh) /\ lh[tail] \in Blocks /\ logdata[tail] \in Vals
        /\ Len(lh) \in Nat /\ Len(lh) <= LOGSIZE /\ LOGSIZE \in Nat
    BY <1>13, TailPlace
  <2>2. tail' \in 1 .. LOGSIZE + 1 BY <1>6, <1>13, <2>1 DEF InstallBlock
  <2> QED BY <1>1, <1>13, <2>1, <2>2 DEF InstallBlock, TypeOK
<1>14. ASSUME NEW p \in Procs, Install(p) PROVE TypeOK'
  <2>1. /\ disk' \in [Blocks -> Vals] /\ cache' \in [Blocks -> Vals]
        /\ dirty' \in [Blocks -> BOOLEAN] /\ tail' \in 1 .. LOGSIZE + 1
    BY <1>13, <1>14 DEF Install
  <2> QED BY <1>1, <1>5, <1>14, <2>1 DEF Install, TypeOK, log
<1>15. ASSUME NEW p \in Procs, Clear(p) PROVE TypeOK'
  BY <1>1, <1>5, <1>15 DEF Clear, TypeOK
<1>16. ASSUME NEW p \in Procs, Committed(p) PROVE TypeOK'
  BY <1>1, <1>5, <1>16 DEF Committed, Woken, TypeOK, store
<1>17. ASSUME NEW b \in Blocks, Evict(b) PROVE TypeOK'
  BY <1>1, <1>5, <1>17 DEF Evict, TypeOK, log, store
<1>18. CASE ReadHead BY <1>1, <1>5, <1>18 DEF ReadHead, TypeOK, store
<1>19. CASE ReClear BY <1>1, <1>5, <1>19 DEF ReClear, TypeOK
<1>20. CASE Reinstall
  <2>1. /\ disk' \in [Blocks -> Vals] /\ cache' \in [Blocks -> Vals]
        /\ dirty' \in [Blocks -> BOOLEAN] /\ tail' \in 1 .. LOGSIZE + 1
    BY <1>13, <1>20 DEF Reinstall
  <2> QED BY <1>1, <1>5, <1>20, <2>1 DEF Reinstall, TypeOK, log
<1>21. CASE Crash BY <1>1, <1>5, <1>6, <1>21 DEF Crash, TypeOK, store
<1> QED BY <1>7, <1>8, <1>9, <1>10, <1>11, <1>12, <1>14, <1>15, <1>16, <1>17, <1>18, <1>19, <1>20,
           <1>21
        DEF Next, OpStep, CommitStep, Recover

\* Outside recovery bget() recycles only what the disk has too.
LEMMA EvictIsQuiet ==
  ASSUME IInv, NEW b \in Blocks, Evict(b)
  PROVE  cache' = cache
<1>1. cache[b] = disk[b] BY DEF Evict, IInv, Pinned
<1>2. cache \in [Blocks -> Vals] BY DEF IInv, TypeOK
<1> QED BY <1>1, <1>2 DEF Evict

\* One turn of install_trans().
LEMMA InstallHome ==
  ASSUME IInv, InstallBlock, UNCHANGED <<lh, logdata>>, Home(tail - 1),
         boot = "install" \/ \E p \in Procs : pc[p] \in {"wlog", "install"}
  PROVE  /\ \A i \in 1 .. tail : disk'[lh[i]] = logdata[i] /\ ~dirty'[lh[i]]
         /\ Logged(Len(lh)) => \A i \in 1 .. Len(lh) : logdata[i] = cache'[lh[i]]
         /\ \A b \in Blocks : \/ disk'[b] = cache'[b] /\ ~dirty'[b]
                              \/ disk'[b] = disk[b] /\ cache'[b] = cache[b] /\ dirty'[b] = dirty[b]
<1>1. /\ tail \in 1 .. Len(lh) /\ lh[tail] \in Blocks /\ Len(lh) \in Nat BY TailPlace
<1>2. /\ disk \in [Blocks -> Vals] /\ cache \in [Blocks -> Vals] /\ dirty \in [Blocks -> BOOLEAN]
      /\ lh \in Seq(Blocks)
  BY DEF IInv, TypeOK
<1>3. DOMAIN lh = 1 .. Len(lh) /\ \A i \in 1 .. Len(lh) : lh[i] \in Blocks BY <1>2, LenProperties
<1>4. \A b \in Blocks :
        /\ b = lh[tail] => disk'[b] = logdata[tail] /\ cache'[b] = logdata[tail] /\ ~dirty'[b]
        /\ b # lh[tail] => disk'[b] = disk[b] /\ cache'[b] = cache[b] /\ dirty'[b] = dirty[b]
  BY <1>1, <1>2 DEF InstallBlock
<1>5. \A i, j \in 1 .. Len(lh) : lh[i] = lh[j] => i = j BY <1>3 DEF IInv, Distinct
<1>6. ASSUME NEW i \in 1 .. tail PROVE disk'[lh[i]] = logdata[i] /\ ~dirty'[lh[i]]
  <2>1. i \in 1 .. Len(lh) /\ lh[i] \in Blocks BY <1>1, <1>3
  <2>2. CASE i = tail BY <1>4, <2>1, <2>2
  <2>3. CASE i # tail
    <3>1. i \in 1 .. tail - 1 BY <1>1, <2>3
    <3>2. disk[lh[i]] = logdata[i] /\ ~dirty[lh[i]] BY <3>1 DEF Home
    <3>3. lh[i] # lh[tail] BY <1>1, <1>5, <2>1, <2>3
    <3> QED BY <1>4, <2>1, <3>2, <3>3
  <2> QED BY <2>2, <2>3
<1>7. ASSUME Logged(Len(lh)), NEW i \in 1 .. Len(lh) PROVE logdata[i] = cache'[lh[i]]
  <2>1. lh[i] \in Blocks /\ logdata[i] = cache[lh[i]] BY <1>3, <1>7 DEF Logged
  <2>2. CASE lh[i] = lh[tail]
    <3>1. i = tail BY <1>1, <1>5, <2>2
    <3> QED BY <1>4, <2>1, <3>1
  <2>3. CASE lh[i] # lh[tail] BY <1>4, <2>1, <2>3
  <2> QED BY <2>2, <2>3
<1> QED BY <1>4, <1>6, <1>7

LEMMA PinnedStep ==
  ASSUME IInv, Next, Booting'
  PROVE  Pinned'
<1>1. /\ disk \in [Blocks -> Vals] /\ cache \in [Blocks -> Vals] /\ dirty \in [Blocks -> BOOLEAN]
      /\ lh \in Seq(Blocks) /\ held \in [Procs -> SUBSET Blocks]
      /\ pc \in [Procs -> {"out", "begin", "sleep", "op", "mod", "wlog", "whead", "install",
                           "clear", "done"}]
      /\ Pinned
  BY Places DEF IInv, TypeOK
<1>2. ASSUME UNCHANGED <<disk, cache, dirty, lh, held>> PROVE Pinned'
  BY <1>1, <1>2 DEF Pinned, Locked
<1>3. ASSUME NEW p \in Procs, CallBegin(p) \/ BeginOp(p) \/ EndOp(p) PROVE Pinned'
  BY <1>2, <1>3 DEF CallBegin, BeginOp, EndOp, store, log
<1>4. ASSUME NEW p \in Procs, NEW b \in Blocks, NEW v \in Vals, Modify(p, b, v) PROVE Pinned'
  <2>1. /\ pc[p] = "op" /\ cache' = [cache EXCEPT ![b] = v] /\ held' = [held EXCEPT ![p] = {b}]
        /\ UNCHANGED <<disk, dirty, lh>>
    BY <1>4 DEF Modify, store, log
  <2>2. held[p] = {} BY <2>1 DEF IInv, Operations
  <2>3. Locked(b)' BY <1>1, <2>1 DEF Locked
  <2>4. \A c \in Blocks : Locked(c) => Locked(c)' BY <1>1, <2>1, <2>2 DEF Locked
  <2>5. \A c \in Blocks : c # b => cache'[c] = cache[c] BY <1>1, <2>1
  <2> QED BY <1>1, <2>1, <2>3, <2>4, <2>5 DEF Pinned
<1>5. ASSUME NEW p \in Procs, log_write(p) PROVE Pinned'
  <2>1. PICK b \in held[p] :
          /\ lh' = IF Listed(lh, b) THEN lh ELSE Append(lh, b)
          /\ dirty' = [dirty EXCEPT ![b] = TRUE]
    BY <1>5 DEF log_write
  <2>2. /\ pc[p] = "mod" /\ held' = [held EXCEPT ![p] = {}] /\ UNCHANGED <<disk, cache>>
    BY <1>5 DEF log_write, store
  <2>3. b \in Blocks /\ held[p] = {b} BY <1>1, <2>1, <2>2 DEF IInv, Operations
  <2>4. \A c \in Blocks : c # b /\ Locked(c) => Locked(c)' BY <1>1, <2>2, <2>3 DEF Locked
  <2>5. Listed(lh', b) /\ \A c \in Blocks : Listed(lh, c) => Listed(lh', c)
    <3>1. CASE lh' = lh BY <2>1, <3>1
    <3>2. CASE lh' = Append(lh, b)
      <4>1. Len(lh) \in Nat /\ DOMAIN lh = 1 .. Len(lh) BY <1>1, LenProperties
      <4>2. lh' \in Seq(Blocks) /\ Len(lh') = Len(lh) + 1 BY <1>1, <2>3, <3>2
      <4>3. DOMAIN lh' = 1 .. Len(lh) + 1 BY <4>2, LenProperties
      <4>4. \A i \in 1 .. Len(lh) : lh'[i] = lh[i] BY <1>1, <2>3, <3>2
      <4>5. lh'[Len(lh) + 1] = b BY <1>1, <2>3, <3>2
      <4>6. Len(lh) + 1 \in DOMAIN lh' BY <4>1, <4>3
      <4>7. Listed(lh', b) BY <4>5, <4>6 DEF Listed
      <4>8. DOMAIN lh \subseteq DOMAIN lh' BY <4>1, <4>3
      <4> QED BY <4>1, <4>4, <4>7, <4>8 DEF Listed
    <3> QED BY <2>1, <3>1, <3>2
  <2>6. \A c \in Blocks : (c = b /\ dirty'[c]) \/ (c # b /\ dirty'[c] = dirty[c])
    BY <1>1, <2>1, <2>3
  <2> QED BY <1>1, <2>2, <2>4, <2>5, <2>6 DEF Pinned
<1>6. ASSUME NEW p \in Procs, WriteLog(p) \/ WriteHead(p) \/ Committed(p) PROVE Pinned'
  BY <1>2, <1>6 DEF WriteLog, WriteHead, Committed, store, log
<1>7. ASSUME NEW p \in Procs, Install(p) PROVE Pinned'
  <2>1. /\ pc[p] = "install" /\ InstallBlock /\ UNCHANGED <<lh, logdata, held>>
    BY <1>7 DEF Install, log
  <2>2. Home(tail - 1) BY <2>1 DEF IInv, Phases, Phase
  <2>3. \A b \in Blocks : \/ disk'[b] = cache'[b] /\ ~dirty'[b]
                          \/ disk'[b] = disk[b] /\ cache'[b] = cache[b] /\ dirty'[b] = dirty[b]
    BY <2>1, <2>2, InstallHome
  <2> QED BY <1>1, <2>1, <2>3 DEF Pinned, Locked
<1>8. ASSUME NEW p \in Procs, Clear(p) PROVE Pinned'
  <2>1. pc[p] = "clear" /\ UNCHANGED <<disk, cache, dirty, held>> BY <1>8 DEF Clear
  <2>2. Home(Len(lh)) BY <2>1 DEF IInv, Phases, Phase
  <2>3. DOMAIN lh = 1 .. Len(lh) BY <1>1, LenProperties
  <2>4. \A b \in Blocks : ~dirty[b] BY <1>1, <2>2, <2>3 DEF Pinned, Listed, Home
  <2> QED BY <1>1, <2>1, <2>4 DEF Pinned, Locked
<1>9. ASSUME NEW b \in Blocks, Evict(b) PROVE Pinned'
  BY <1>2, <1>9, EvictIsQuiet DEF Evict, store, log
<1>10. ASSUME cache' = disk', dirty' = [b \in Blocks |-> FALSE] PROVE Pinned'
  BY <1>10 DEF Pinned
<1>11. CASE ReadHead \/ Reinstall
  <2>1. boot' # "run" BY <1>11 DEF ReadHead, Reinstall
  <2> QED BY <1>10, <2>1 DEF Booting
<1>12. CASE ReClear
  <2>1. boot = "clear" /\ UNCHANGED <<disk, cache, dirty>> BY <1>12 DEF ReClear
  <2> QED BY <1>10, <2>1 DEF IInv, Booting
<1>13. CASE Crash BY <1>10, <1>13 DEF Crash, store
<1> QED BY <1>3, <1>4, <1>5, <1>6, <1>7, <1>8, <1>9, <1>11, <1>12, <1>13
        DEF Next, OpStep, CommitStep, Recover

\* commit(): what is in the log, and what is home, at each of its steps.
LEMMA PhasesStep ==
  ASSUME IInv, Next
  PROVE  Phases'
<1> USE DEF Committing
<1>1. /\ pc \in [Procs -> {"out", "begin", "sleep", "op", "mod", "wlog", "whead", "install",
                           "clear", "done"}]
      /\ lh \in Seq(Blocks) /\ logdata \in [Slots -> Vals] /\ tail \in 1 .. LOGSIZE + 1
      /\ Phases
  BY Places DEF IInv, TypeOK
<1>2. Len(lh) \in Nat /\ (lh # <<>> => Len(lh) >= 1) BY <1>1, LenProperties, EmptySeq
<1>3. ASSUME UNCHANGED <<disk, cache, dirty, lh, hdr, logdata, tail>>,
             \A p \in Procs : pc'[p] \in Committing => pc'[p] = pc[p]
      PROVE  Phases'
  BY <1>1, <1>3 DEF Phases, Phase, Logged, Home
<1>4. ASSUME \A p \in Procs : pc'[p] \notin Committing PROVE Phases'
  BY <1>4 DEF Phases, Phase
<1>5. ASSUME NEW p \in Procs, Phase(p)', \A q \in Procs : q # p => pc'[q] \notin Committing
      PROVE  Phases'
  BY <1>5 DEF Phases, Phase
<1>6. ASSUME NEW p \in Procs, CallBegin(p) \/ BeginOp(p) PROVE Phases'
  BY <1>1, <1>3, <1>6 DEF CallBegin, BeginOp, store, log
<1>7. ASSUME NEW p \in Procs, log_write(p) \/ \E b \in Blocks, v \in Vals : Modify(p, b, v)
      PROVE  Phases'
  <2>1. pc[p] \in InOp BY <1>7 DEF log_write, Modify, InOp
  <2>2. \A q \in Procs : pc[q] \notin Committing BY <2>1, NoCommitInside
  <2> QED BY <1>1, <1>4, <1>7, <2>2 DEF log_write, Modify
<1>8. ASSUME NEW p \in Procs, EndOp(p) PROVE Phases'
  <2>1. pc[p] \in InOp BY <1>8 DEF EndOp, InOp
  <2>2. \A q \in Procs : pc[q] \notin Committing BY <2>1, NoCommitInside
  <2>3. CASE outstanding # 1 BY <1>1, <1>4, <1>8, <2>2, <2>3 DEF EndOp, Woken
  <2>4. CASE outstanding = 1
    <3>1. /\ pc' = [pc EXCEPT ![p] = IF lh = <<>> THEN "done" ELSE "wlog"]
          /\ tail' = 1 /\ lh' = lh
      BY <1>8, <2>4 DEF EndOp
    <3>2. Phase(p)' BY <1>1, <1>2, <3>1 DEF Phase, Logged
    <3> QED BY <1>1, <1>5, <2>2, <3>1, <3>2
  <2> QED BY <2>3, <2>4
<1>9. ASSUME NEW p \in Procs, pc[p] \in Committing
      PROVE  \A q \in Procs : q # p => pc[q] \notin Committing
  BY <1>9 DEF IInv, Commits
<1>10. ASSUME NEW p \in Procs, WriteLog(p) PROVE Phases'
  <2>1. /\ pc[p] = "wlog" /\ logdata' = [logdata EXCEPT ![tail] = cache[lh[tail]]]
        /\ tail' = IF tail = Len(lh) THEN 1 ELSE tail + 1
        /\ pc' = [pc EXCEPT ![p] = IF tail = Len(lh) THEN "whead" ELSE @]
        /\ UNCHANGED <<lh, cache>>
    BY <1>10 DEF WriteLog, log
  <2>2. tail \in 1 .. Len(lh) /\ tail \in Slots /\ Len(lh) <= LOGSIZE /\ LOGSIZE \in Nat
    BY <2>1, TailPlace
  <2>3. \A i \in 1 .. tail - 1 : logdata[i] = cache[lh[i]]
    BY <1>1, <2>1 DEF Phases, Phase, Logged
  <2>4. \A i \in 1 .. tail : logdata'[i] = cache'[lh'[i]]
    <3> TAKE i \in 1 .. tail
    <3>1. CASE i = tail BY <1>1, <2>1, <2>2, <3>1
    <3>2. CASE i # tail
      <4>1. i \in 1 .. tail - 1 /\ i \in Slots BY <1>2, <2>2, <3>2 DEF Slots
      <4>2. logdata'[i] = logdata[i] BY <1>1, <2>1, <3>2, <4>1
      <4> QED BY <2>1, <2>3, <4>1, <4>2
    <3> QED BY <3>1, <3>2
  <2>5. CASE tail = Len(lh)
    <3>1. pc'[p] = "whead" /\ tail' = 1 /\ lh' = lh BY <1>1, <2>1, <2>5
    <3>2. lh # <<>> BY <1>2, <2>2, <2>5, EmptySeq
    <3>3. Logged(Len(lh))' BY <2>1, <2>4, <2>5 DEF Logged
    <3>4. Phase(p)' BY <3>1, <3>2, <3>3 DEF Phase
    <3> QED BY <1>1, <1>5, <1>9, <2>1, <3>4
  <2>6. CASE tail # Len(lh)
    <3>1. pc'[p] = "wlog" /\ tail' = tail + 1 /\ lh' = lh BY <1>1, <2>1, <2>6
    <3>2. tail' \in 1 .. Len(lh') /\ tail' - 1 = tail BY <1>2, <2>2, <2>6, <3>1
    <3>3. \A i \in 1 .. tail' - 1 : logdata'[i] = cache'[lh'[i]] BY <2>4, <3>2
    <3>4. Phase(p)' BY <3>1, <3>2, <3>3 DEF Phase, Logged
    <3> QED BY <1>1, <1>5, <1>9, <2>1, <3>4
  <2> QED BY <2>5, <2>6
<1>11. ASSUME NEW p \in Procs, WriteHead(p) PROVE Phases'
  <2>1. /\ pc[p] = "whead" /\ hdr' = lh /\ pc' = [pc EXCEPT ![p] = "install"]
        /\ UNCHANGED <<disk, logdata, cache, dirty, lh, tail>>
    BY <1>11 DEF WriteHead, log
  <2>2. tail = 1 /\ lh # <<>> /\ Logged(Len(lh)) BY <1>1, <2>1 DEF Phases, Phase
  <2>3. tail' \in 1 .. Len(lh') /\ hdr' = lh' BY <1>2, <2>1, <2>2
  <2>4. Logged(Len(lh))' BY <2>1, <2>2 DEF Logged
  <2>5. Home(tail - 1)'
    <3>1. \A i \in 1 .. tail' - 1 : FALSE BY <2>1, <2>2
    <3> QED BY <3>1 DEF Home
  <2>6. Phase(p)' BY <1>1, <2>1, <2>3, <2>4, <2>5 DEF Phase
  <2> QED BY <1>1, <1>5, <1>9, <2>1, <2>6
<1>12. ASSUME NEW p \in Procs, Install(p) PROVE Phases'
  <2>1. /\ pc[p] = "install" /\ InstallBlock /\ UNCHANGED <<lh, logdata, hdr>>
        /\ pc' = [pc EXCEPT ![p] = IF tail = Len(lh) THEN "clear" ELSE @]
    BY <1>12 DEF Install, log
  <2>2. hdr = lh /\ tail \in 1 .. Len(lh) /\ Logged(Len(lh)) /\ Home(tail - 1)
    BY <1>1, <2>1 DEF Phases, Phase
  <2>3. /\ \A i \in 1 .. tail : disk'[lh[i]] = logdata[i] /\ ~dirty'[lh[i]]
        /\ \A i \in 1 .. Len(lh) : logdata[i] = cache'[lh[i]]
    BY <2>1, <2>2, InstallHome
  <2>4. Logged(Len(lh))' BY <2>1, <2>3 DEF Logged
  <2>5. tail' = IF tail = Len(lh) THEN 1 ELSE tail + 1 BY <2>1 DEF InstallBlock
  <2>6. CASE tail = Len(lh)
    <3>1. Home(Len(lh))' BY <2>1, <2>3, <2>6 DEF Home
    <3>2. pc'[p] = "clear" BY <1>1, <2>1, <2>6
    <3>3. Phase(p)' BY <2>1, <2>2, <2>4, <3>1, <3>2 DEF Phase
    <3> QED BY <1>1, <1>5, <1>9, <2>1, <3>3
  <2>7. CASE tail # Len(lh)
    <3>1. pc'[p] = "install" BY <1>1, <2>1, <2>7
    <3>2. tail' \in 1 .. Len(lh') /\ tail' - 1 = tail BY <1>2, <2>1, <2>2, <2>5, <2>7
    <3>3. Home(tail - 1)' BY <2>1, <2>3, <3>2 DEF Home
    <3>4. Phase(p)' BY <2>1, <2>2, <2>4, <3>1, <3>2, <3>3 DEF Phase
    <3> QED BY <1>1, <1>5, <1>9, <2>1, <3>4
  <2> QED BY <2>6, <2>7
<1>13. ASSUME NEW p \in Procs, Clear(p) PROVE Phases'
  <2>1. pc[p] = "clear" /\ lh' = <<>> /\ pc' = [pc EXCEPT ![p] = "done"] BY <1>13 DEF Clear
  <2>2. Phase(p)' BY <1>1, <2>1 DEF Phase
  <2> QED BY <1>1, <1>5, <1>9, <2>1, <2>2
<1>14. ASSUME NEW p \in Procs, Committed(p) PROVE Phases'
  <2>1. pc[p] = "done" /\ pc' = [Woken EXCEPT ![p] = "out"] BY <1>14 DEF Committed
  <2> QED BY <1>1, <1>4, <1>9, <2>1 DEF Woken
<1>15. ASSUME NEW b \in Blocks, Evict(b) PROVE Phases'
  BY <1>3, <1>15, EvictIsQuiet DEF Evict, store, log
<1>16. CASE Recover
  <2>1. \A p \in Procs : pc[p] = "out"
    BY <1>16 DEF Recover, ReadHead, Reinstall, ReClear, IInv, Booting
  <2>2. UNCHANGED pc BY <1>16 DEF Recover, ReadHead, Reinstall, ReClear
  <2> QED BY <1>4, <2>1, <2>2
<1>17. CASE Crash BY <1>4, <1>17 DEF Crash
<1> QED BY <1>6, <1>7, <1>8, <1>10, <1>11, <1>12, <1>13, <1>14, <1>15, <1>16, <1>17
        DEF Next, OpStep, CommitStep

\* recover_from_log(): the same for a reboot.
LEMMA BootPhaseStep ==
  ASSUME IInv, Next
  PROVE  BootPhase'
<1>1. lh \in Seq(Blocks) /\ hdr \in Seq(Blocks) /\ BootPhase BY Places DEF IInv
<1>2. CASE boot = "run" /\ ~Crash
  <2>1. boot' = "run"
    BY <1>2 DEF Next, CallBegin, OpStep, BeginOp, Modify, log_write, EndOp, CommitStep, WriteLog,
                WriteHead, Install, Clear, Committed, Evict, Recover, ReadHead, Reinstall, ReClear
  <2> QED BY <2>1 DEF BootPhase
<1>3. CASE Crash BY <1>3 DEF Crash, BootPhase
<1>4. CASE ReadHead
  <2>1. /\ tail = 1 /\ lh' = hdr /\ boot' = (IF hdr = <<>> THEN "clear" ELSE "install")
        /\ UNCHANGED <<hdr, tail>>
    BY <1>1, <1>4 DEF ReadHead, BootPhase, store
  <2>2. CASE hdr = <<>>
    <3>1. Len(hdr) = 0 BY <2>2, EmptySeq
    <3>2. \A i \in 1 .. Len(lh') : FALSE BY <2>1, <3>1
    <3> QED BY <2>1, <2>2, <3>2 DEF BootPhase, Home
  <2>3. CASE hdr # <<>>
    <3>1. Len(hdr) \in Nat /\ Len(hdr) # 0 BY <1>1, <2>3, EmptySeq, LenProperties
    <3>2. tail' \in 1 .. Len(lh') BY <2>1, <3>1
    <3>3. \A i \in 1 .. tail' - 1 : FALSE BY <2>1
    <3> QED BY <2>1, <2>3, <3>2, <3>3 DEF BootPhase, Home
  <2> QED BY <2>2, <2>3
<1>5. CASE Reinstall
  <2>1. /\ boot = "install" /\ InstallBlock /\ UNCHANGED <<lh, logdata, hdr>>
        /\ boot' = (IF tail = Len(lh) THEN "clear" ELSE boot)
    BY <1>5 DEF Reinstall, log
  <2>2. hdr = lh /\ tail \in 1 .. Len(lh) /\ Home(tail - 1) BY <1>1, <2>1 DEF BootPhase
  <2>3. \A i \in 1 .. tail : disk'[lh[i]] = logdata[i] /\ ~dirty'[lh[i]]
    BY <2>1, <2>2, InstallHome
  <2>4. tail' = IF tail = Len(lh) THEN 1 ELSE tail + 1 BY <2>1 DEF InstallBlock
  <2>5. CASE tail = Len(lh)
    <3>1. Home(Len(lh))' BY <2>1, <2>3, <2>5 DEF Home
    <3> QED BY <2>1, <2>2, <2>5, <3>1 DEF BootPhase
  <2>6. CASE tail # Len(lh)
    <3>1. Len(lh) \in Nat BY <1>1, LenProperties
    <3>2. tail' \in 1 .. Len(lh') /\ tail' - 1 = tail BY <2>1, <2>2, <2>4, <2>6, <3>1
    <3>3. Home(tail - 1)' BY <2>1, <2>3, <3>2 DEF Home
    <3> QED BY <2>1, <2>2, <2>6, <3>2, <3>3 DEF BootPhase
  <2> QED BY <2>5, <2>6
<1>6. CASE ReClear BY <1>6 DEF ReClear, BootPhase
<1> QED BY <1>2, <1>3, <1>4, <1>5, <1>6 DEF Next, Recover

\* The header is written twice, at the commit and when all is home.
LEMMA HeaderStep ==
  ASSUME IInv, Next
  PROVE  HeaderEmpty'
<1>1. /\ pc \in [Procs -> {"out", "begin", "sleep", "op", "mod", "wlog", "whead", "install",
                           "clear", "done"}]
      /\ HeaderEmpty
  BY Places DEF IInv
<1>2. ASSUME UNCHANGED hdr, boot = "run",
             \A p \in Procs : pc[p] \in {"install", "clear"} => pc'[p] \in {"install", "clear"}
      PROVE  HeaderEmpty'
  BY <1>1, <1>2 DEF HeaderEmpty
<1>3. CASE boot = "run" /\ \E p \in Procs : CallBegin(p) \/ OpStep(p)
  BY <1>1, <1>2, <1>3 DEF CallBegin, OpStep, BeginOp, Modify, log_write, EndOp, Woken, store
<1>4. CASE boot = "run" /\ \E p \in Procs : WriteLog(p) \/ Install(p) \/ Committed(p)
  BY <1>1, <1>2, <1>4 DEF WriteLog, Install, Committed, Woken, store
<1>5. ASSUME NEW p \in Procs, WriteHead(p) PROVE HeaderEmpty'
  <2>1. pc'[p] = "install" BY <1>1, <1>5 DEF WriteHead
  <2> QED BY <2>1 DEF HeaderEmpty
<1>6. ASSUME NEW p \in Procs, Clear(p) PROVE HeaderEmpty'
  BY <1>6 DEF Clear, HeaderEmpty
<1>7. CASE boot = "run" /\ \E b \in Blocks : Evict(b)
  BY <1>2, <1>7 DEF Evict, store
<1>8. CASE Recover BY <1>8 DEF Recover, ReadHead, Reinstall, ReClear, HeaderEmpty
<1>9. CASE Crash BY <1>9 DEF Crash, HeaderEmpty
<1> QED BY <1>3, <1>4, <1>5, <1>6, <1>7, <1>8, <1>9 DEF Next, CommitStep

\* The last operation of a transaction leaves it to commit(), which clears the log.
LEMMA IdleStep ==
  ASSUME IInv, Next
  PROVE  Idle'
<1> USE DEF InOp, Committing, Active
<1>1. /\ pc \in [Procs -> {"out", "begin", "sleep", "op", "mod", "wlog", "whead", "install",
                           "clear", "done"}]
      /\ Idle
  BY Places DEF IInv
<1>2. ASSUME UNCHANGED <<lh, boot, committing>>, Active \subseteq Active' PROVE Idle'
  BY <1>1, <1>2 DEF Idle
<1>3. ASSUME NEW p \in Procs, CallBegin(p) PROVE Idle'
  BY <1>1, <1>2, <1>3 DEF CallBegin, log
<1>4. ASSUME NEW p \in Procs, BeginOp(p) PROVE Idle'
  BY <1>1, <1>2, <1>4 DEF BeginOp
<1>5. ASSUME NEW p \in Procs, log_write(p) \/ \E b \in Blocks, v \in Vals : Modify(p, b, v)
      PROVE  Idle'
  <2>1. pc'[p] \in InOp BY <1>1, <1>5 DEF log_write, Modify
  <2> QED BY <2>1 DEF Idle
<1>6. ASSUME NEW p \in Procs, EndOp(p) PROVE Idle'
  <2>1. CASE outstanding = 1 BY <1>6, <2>1 DEF EndOp, Idle
  <2>2. CASE outstanding # 1
    <3>1. Active' = Active \ {p} /\ p \in Active BY <1>1, <1>6, <2>2 DEF EndOp, Woken
    <3>2. IsFiniteSet(Active) /\ Cardinality(Active) = outstanding BY DEF IInv, Operations
    <3> HIDE DEF Active
    <3>3. Active' # {}
      <4>1. SUFFICES ASSUME Active' = {} PROVE FALSE OBVIOUS
      <4>2. Active = {p} BY <3>1, <4>1
      <4> QED BY <2>2, <3>2, <4>2, FS_Singleton
    <3> QED BY <3>3 DEF Idle
  <2> QED BY <2>1, <2>2
<1>7. ASSUME NEW p \in Procs, WriteLog(p) \/ WriteHead(p) \/ Install(p) PROVE Idle'
  BY <1>1, <1>2, <1>7 DEF WriteLog, WriteHead, Install, log
<1>8. ASSUME NEW p \in Procs, Clear(p) PROVE Idle'
  BY <1>8 DEF Clear, Idle
<1>9. ASSUME NEW p \in Procs, Committed(p) PROVE Idle'
  <2>1. lh = <<>> BY <1>9 DEF Committed, IInv, Phases, Phase
  <2> QED BY <1>9, <2>1 DEF Committed, Idle
<1>10. ASSUME NEW b \in Blocks, Evict(b) PROVE Idle'
  BY <1>2, <1>10 DEF Evict, log
<1>11. CASE Recover \/ Crash
  BY <1>11 DEF Recover, ReadHead, Reinstall, ReClear, Crash, Idle
<1> QED BY <1>3, <1>4, <1>5, <1>6, <1>7, <1>8, <1>9, <1>10, <1>11 DEF Next, OpStep, CommitStep

LEMMA InitHolds == Init => IInv
<1> SUFFICES ASSUME Init PROVE IInv OBVIOUS
<1> USE DEF Init
<1>1. <<>> \in Seq(Blocks) /\ Len(<<>>) = 0 BY EmptySeq
<1>2. DOMAIN <<>> = 1 .. 0 BY <1>1, LenProperties
<1>3. TypeOK
  <2>1. 1 \in 1 .. LOGSIZE + 1 /\ 0 <= LOGSIZE BY LogAssumption
  <2> QED BY <1>1, <2>1, LogAssumption DEF TypeOK, InOp, Committing
<1>4. Distinct(lh) /\ Distinct(hdr) BY <1>2 DEF Distinct
<1>5. IsFiniteSet({}) /\ Cardinality({}) = 0 BY FS_EmptySet
<1>6. Active = {} BY DEF Active, InOp
<1>7. Operations BY <1>5, <1>6, LogAssumption DEF Operations
<1>8. Commits BY <1>6 DEF Commits, Committing
<1>9. Booting /\ BootPhase /\ HeaderEmpty /\ Idle BY DEF Booting, BootPhase, HeaderEmpty, Idle
<1>10. Pinned BY DEF Pinned
<1>11. Phases BY DEF Phases, Phase
<1>12. Space
  <2>1. Cardinality({}) + outstanding * OpBlocks <= Room /\ Len(hdr) <= Room
    BY <1>1, <1>5, LogAssumption, RoomBounds
  <2>2. \A i \in DOMAIN lh : lh[i] \in {} \cup Written BY <1>2
  <2>3. {} \in SUBSET Blocks OBVIOUS
  <2> QED BY <1>5, <2>1, <2>2, <2>3 DEF Space
<1> QED BY <1>3, <1>4, <1>7, <1>8, <1>9, <1>10, <1>11, <1>12 DEF IInv

LEMMA NextKeeps == IInv /\ [Next]_vars => IInv'
<1> SUFFICES ASSUME IInv, [Next]_vars PROVE IInv' OBVIOUS
<1>1. CASE Next
  <2>1. Operations' /\ Commits' /\ Booting' BY <1>1, OperationsStep, CommitsStep, BootingStep
  <2>2. /\ Distinct(lh') /\ Distinct(hdr') /\ lh' \in Seq(Blocks) /\ hdr' \in Seq(Blocks)
    BY <1>1, DistinctStep
  <2>3. Space' BY <1>1, SpaceStep
  <2>4. TypeOK' BY <1>1, <2>1, <2>2, <2>3, TypeStep
  <2>5. Pinned' BY <1>1, <2>1, PinnedStep
  <2>6. Phases' /\ BootPhase' /\ HeaderEmpty' /\ Idle'
    BY <1>1, PhasesStep, BootPhaseStep, HeaderStep, IdleStep
  <2> QED BY <2>1, <2>2, <2>3, <2>4, <2>5, <2>6 DEF IInv
<1>2. CASE UNCHANGED vars
  <2>1. /\ UNCHANGED <<disk, logdata, hdr, cache, dirty, lh, outstanding, committing>>
        /\ UNCHANGED <<pc, held, ops, tail, boot, panicked>>
    BY <1>2 DEF vars, store, log
  <2>2. TypeOK' BY <2>1 DEF IInv, TypeOK
  <2>3. Distinct(lh') /\ Distinct(hdr') BY <2>1 DEF IInv
  <2>4. Active' = Active /\ Written' = Written BY <2>1 DEF Active, Written
  <2>5. Operations' BY <2>1, <2>4 DEF IInv, Operations
  <2>6. Commits' /\ Booting' /\ Idle' BY <2>1, <2>4 DEF IInv, Commits, Booting, Idle
  <2>7. Pinned' BY <2>1 DEF IInv, Pinned, Locked, Listed
  <2>8. Phases' BY <2>1 DEF IInv, Phases, Phase, Logged, Home
  <2>9. BootPhase' /\ HeaderEmpty' BY <2>1 DEF IInv, BootPhase, Home, HeaderEmpty
  <2>10. Space' BY <2>1, <2>4 DEF IInv, Space
  <2> QED BY <2>2, <2>3, <2>5, <2>6, <2>7, <2>8, <2>9, <2>10 DEF IInv
<1> QED BY <1>1, <1>2

-----------------------------------------------------------------------------
(* The theorems *)

\* Types, log absorption and the room in the log, the pinning of dirty buffers,
\* and how far each commit and each recovery has come, at every moment of every
\* run of log.c, crashes included.
THEOREM LogInvariant == Spec => []IInv
<1>1. Init => IInv BY InitHolds
<1>2. IInv /\ [Next]_vars => IInv' BY NextKeeps
<1> QED BY <1>1, <1>2, PTL DEF Spec

\* log_write() panics neither with "too big a transaction" nor with "log_write
\* outside of trans", and end_op() never with "log.committing", if the log has a
\* block more than begin_op() lets in; with the sizes of param.h that is, if no
\* operation writes all of MAXOPBLOCKS blocks.
THEOREM LogNeverPanics ==
  ASSUME Room < LOGSIZE, Room < nlog - 1
  PROVE  Spec => []NoPanic
<1>1. Init => NoPanic BY DEF Init, NoPanic
<1>2. IInv /\ NoPanic /\ [Next]_vars => NoPanic'
  <2> SUFFICES ASSUME IInv, ~panicked, [Next]_vars PROVE ~panicked' BY DEF NoPanic
  <2>1. ASSUME NEW p \in Procs, NEW b \in Blocks, NEW v \in Vals, Modify(p, b, v) PROVE ~panicked'
    <3>1. Len(lh) \in Nat /\ Len(lh) <= Room
      BY LogFits, LenProperties DEF IInv, TypeOK
    <3>2. p \in Active BY <2>1 DEF Modify, Active, InOp
    <3>3. IsFiniteSet(Active) /\ Cardinality(Active) = outstanding BY DEF IInv, Operations
    <3>4. outstanding # 0 BY <3>2, <3>3, FS_EmptySet
    <3>5. outstanding \in Nat BY <3>3, FS_CardinalityType
    <3>6. ~(Len(lh) >= LOGSIZE \/ Len(lh) >= nlog - 1 \/ outstanding < 1)
      BY <3>1, <3>4, <3>5, RoomBounds, LogAssumption
    <3> QED BY <2>1, <3>6 DEF Modify
  <2>2. ASSUME NEW p \in Procs, EndOp(p) PROVE ~panicked'
    <3>1. pc[p] \in InOp BY <2>2 DEF EndOp, InOp
    <3>2. ~committing BY <3>1, NoCommitInside
    <3> QED BY <2>2, <3>2 DEF EndOp
  <2>3. ASSUME NEW p \in Procs, CallBegin(p) \/ BeginOp(p) \/ log_write(p) \/ CommitStep(p)
        PROVE  ~panicked'
    BY <2>3 DEF CallBegin, BeginOp, log_write, CommitStep, WriteLog, WriteHead, Install,
                Clear, Committed
  <2>4. CASE Recover \/ Crash \/ \E b \in Blocks : Evict(b)
    BY <2>4 DEF Recover, ReadHead, Reinstall, ReClear, Crash, Evict
  <2>5. CASE UNCHANGED vars BY <2>5 DEF vars
  <2> QED BY <2>1, <2>2, <2>3, <2>4, <2>5 DEF Next, OpStep
<1> QED BY <1>1, <1>2, LogInvariant, PTL DEF Spec

\* A transaction is home when end_op() returns from commit().
THEOREM CommitLeavesDisk == Spec => []CommittedIsHome
<1>1. IInv => CommittedIsHome
  <2> SUFFICES ASSUME IInv, NEW p \in Procs, pc[p] = "done"
               PROVE  disk = cache /\ hdr = <<>> /\ lh = <<>>
    BY DEF CommittedIsHome
  <2>1. lh = <<>> BY DEF IInv, Phases, Phase
  <2>2. committing /\ Active = {} /\ \A q \in Procs : pc[q] \in Committing => q = p
    BY DEF IInv, Commits, Committing
  <2>3. boot = "run" BY DEF IInv, Booting
  <2>4. hdr = <<>> BY <2>2, <2>3 DEF IInv, HeaderEmpty, Committing
  <2>5. \A b \in Blocks : ~Locked(b)
    <3>1. \A q \in Procs : pc[q] # "mod" BY <2>2 DEF Active, InOp
    <3>2. \A q \in Procs : held[q] = {} BY <3>1 DEF IInv, Operations
    <3> QED BY <3>2 DEF Locked
  <2>6. \A b \in Blocks : ~dirty[b]
    <3>1. DOMAIN <<>> = 1 .. 0
      <4>1. <<>> \in Seq(Blocks) /\ Len(<<>>) = 0 BY EmptySeq
      <4> QED BY <4>1, LenProperties
    <3>2. \A b \in Blocks : ~Listed(lh, b) BY <2>1, <3>1 DEF Listed
    <3> QED BY <3>2 DEF IInv, Pinned
  <2>7. \A b \in Blocks : cache[b] = disk[b] BY <2>5, <2>6 DEF IInv, Pinned
  <2>8. disk = cache BY <2>7 DEF IInv, TypeOK
  <2> QED BY <2>1, <2>4, <2>8
<1> QED BY <1>1, LogInvariant, PTL

\* No lost wakeup: whoever sleeps in begin_op() has a process inside an operation
\* or a commit that will call wakeup(&log).
THEOREM LogSleepersHaveWaker == Spec => []SleeperHasWaker
<1> USE DEF InOp, Committing, Active
<1>1. Init => SleeperHasWaker BY DEF Init, SleeperHasWaker
<1>2. IInv /\ SleeperHasWaker /\ [Next]_vars => SleeperHasWaker'
  <2> SUFFICES ASSUME IInv, SleeperHasWaker, [Next]_vars PROVE SleeperHasWaker' OBVIOUS
  <2>1. /\ pc \in [Procs -> {"out", "begin", "sleep", "op", "mod", "wlog", "whead", "install",
                             "clear", "done"}]
        /\ outstanding \in Nat
    BY Places
  <2>2. ASSUME UNCHANGED committing,
               \A q \in Procs : /\ pc'[q] = "sleep" => pc[q] = "sleep"
                                /\ pc[q] \in InOp => pc'[q] \in InOp
                                /\ pc[q] \in Committing => pc'[q] \in Committing
        PROVE  SleeperHasWaker'
    BY <2>2 DEF SleeperHasWaker
  <2>3. ASSUME \A q \in Procs : pc'[q] # "sleep" PROVE SleeperHasWaker'
    BY <2>3 DEF SleeperHasWaker
  <2>4. ASSUME NEW p \in Procs, CallBegin(p) PROVE SleeperHasWaker'
    BY <2>1, <2>2, <2>4 DEF CallBegin, log
  <2>5. ASSUME NEW p \in Procs, BeginOp(p) PROVE SleeperHasWaker'
    <3>1. CASE ~(committing \/ NoSpace) BY <2>1, <2>2, <2>5, <3>1 DEF BeginOp
    <3>2. CASE committing \/ NoSpace
      <4>1. pc' = [pc EXCEPT ![p] = "sleep"] /\ pc[p] = "begin" /\ UNCHANGED committing
        BY <2>5, <3>2 DEF BeginOp
      <4>2. CASE committing
        <5>1. PICK q \in Procs : pc[q] \in Committing BY <4>2 DEF IInv, Commits
        <5>2. pc'[q] \in Committing BY <2>1, <4>1, <5>1
        <5> QED BY <4>1, <4>2, <5>2 DEF SleeperHasWaker
      <4>3. CASE NoSpace /\ ~committing
        <5>1. Active # {}
          <6>1. SUFFICES ASSUME Active = {} PROVE FALSE OBVIOUS
          <6>2. outstanding = 0
            <7>1. Cardinality(Active) = outstanding BY DEF IInv, Operations
            <7> HIDE DEF Active
            <7> QED BY <6>1, <7>1, FS_EmptySet
          <6>3. boot = "run" BY <4>1 DEF IInv, Booting
          <6>4. lh = <<>> BY <4>3, <6>1, <6>3 DEF IInv, Idle
          <6>5. Len(lh) = 0 BY <6>4, EmptySeq
          <6>6. (0 + 1) * MAXOPBLOCKS = MAXOPBLOCKS BY LogAssumption
          <6> QED BY <4>3, <6>2, <6>5, <6>6, LogAssumption DEF NoSpace
        <5>2. PICK q \in Procs : pc[q] \in InOp BY <5>1
        <5>3. pc'[q] \in InOp BY <2>1, <4>1, <5>2
        <5> QED BY <5>3 DEF SleeperHasWaker
      <4> QED BY <3>2, <4>2, <4>3
    <3> QED BY <3>1, <3>2
  <2>6. ASSUME NEW p \in Procs, log_write(p) \/ \E b \in Blocks, v \in Vals : Modify(p, b, v)
        PROVE  SleeperHasWaker'
    BY <2>1, <2>2, <2>6 DEF log_write, Modify, log
  <2>7. ASSUME NEW p \in Procs, EndOp(p) PROVE SleeperHasWaker'
    <3>1. CASE outstanding = 1
      <4>1. committing' = TRUE /\ pc'[p] \in Committing BY <2>1, <2>7, <3>1 DEF EndOp
      <4> QED BY <4>1 DEF SleeperHasWaker
    <3>2. CASE outstanding # 1 BY <2>1, <2>3, <2>7, <3>2 DEF EndOp, Woken
    <3> QED BY <3>1, <3>2
  <2>8. ASSUME NEW p \in Procs, WriteLog(p) \/ WriteHead(p) \/ Install(p) \/ Clear(p)
        PROVE  SleeperHasWaker'
    BY <2>1, <2>2, <2>8 DEF WriteLog, WriteHead, Install, Clear, log
  <2>9. ASSUME NEW p \in Procs, Committed(p) PROVE SleeperHasWaker'
    BY <2>1, <2>3, <2>9 DEF Committed, Woken
  <2>10. CASE Recover \/ \E b \in Blocks : Evict(b)
    BY <2>2, <2>10 DEF Recover, ReadHead, Reinstall, ReClear, Evict, log
  <2>11. CASE Crash BY <2>3, <2>11 DEF Crash
  <2>12. CASE UNCHANGED vars BY <2>2, <2>12 DEF vars, log
  <2> QED BY <2>4, <2>5, <2>6, <2>7, <2>8, <2>9, <2>10, <2>11, <2>12 DEF Next, OpStep, CommitStep
<1> QED BY <1>1, <1>2, LogInvariant, PTL DEF Spec

-----------------------------------------------------------------------------
(* Log implements AtomicDisk *)

\* What the system calls see.
Mem == IF boot = "run" THEN cache ELSE stable

\* Recovery takes a listed block from its place in the log ...
LEMMA RecoveredListed == IInv => \A i \in DOMAIN hdr : stable[hdr[i]] = logdata[i]
<1> SUFFICES ASSUME IInv, NEW i \in DOMAIN hdr PROVE stable[hdr[i]] = logdata[i] OBVIOUS
<1>1. hdr \in Seq(Blocks) /\ Distinct(hdr) BY Places DEF IInv
<1>2. hdr[i] \in Blocks BY <1>1
<1>3. Listed(hdr, hdr[i]) BY DEF Listed
<1> DEFINE j == CHOOSE k \in DOMAIN hdr : hdr[k] = hdr[i]
<1>4. j \in DOMAIN hdr /\ hdr[j] = hdr[i] OBVIOUS
<1>5. j = i
  <2> HIDE DEF j
  <2> QED BY <1>1, <1>4 DEF Distinct
<1>6. Recovered(hdr[i]) = logdata[j] BY <1>3 DEF Recovered
<1> HIDE DEF j
<1> QED BY <1>2, <1>5, <1>6 DEF stable

\* ... and leaves every other where it is.
LEMMA RecoveredOther == \A b \in Blocks : ~Listed(hdr, b) => stable[b] = disk[b]
BY DEF stable, Recovered

\* An empty header: the disk is what it is.
LEMMA RecoveredNothing == IInv /\ hdr = <<>> => stable = disk
<1> SUFFICES ASSUME IInv, hdr = <<>> PROVE stable = disk OBVIOUS
<1>1. DOMAIN hdr = 1 .. 0
  <2>1. <<>> \in Seq(Blocks) /\ Len(<<>>) = 0 BY EmptySeq
  <2> QED BY <2>1, LenProperties
<1>2. \A b \in Blocks : stable[b] = disk[b] BY <1>1, RecoveredOther DEF Listed
<1>3. disk \in [Blocks -> Vals] BY DEF IInv, TypeOK
<1>4. stable = [b \in Blocks |-> stable[b]] BY DEF stable
<1> QED BY <1>2, <1>3, <1>4

\* All is home: clearing the header changes nothing.
LEMMA RecoveredHome == IInv /\ hdr = lh /\ Home(Len(lh)) => stable = disk
<1> SUFFICES ASSUME IInv, hdr = lh, Home(Len(lh)) PROVE stable = disk OBVIOUS
<1>1. lh \in Seq(Blocks) /\ disk \in [Blocks -> Vals] BY DEF IInv, TypeOK
<1>2. DOMAIN lh = 1 .. Len(lh) BY <1>1, LenProperties
<1>3. ASSUME NEW b \in Blocks PROVE stable[b] = disk[b]
  <2>1. CASE ~Listed(hdr, b) BY <2>1, RecoveredOther
  <2>2. CASE Listed(hdr, b)
    <3>1. PICK i \in DOMAIN hdr : hdr[i] = b BY <2>2 DEF Listed
    <3>2. stable[b] = logdata[i] BY <3>1, RecoveredListed
    <3> QED BY <1>2, <3>1, <3>2 DEF Home
  <2> QED BY <2>1, <2>2
<1>4. stable = [b \in Blocks |-> stable[b]] BY DEF stable
<1> QED BY <1>1, <1>3, <1>4

\* install_trans() repeats what recovery would do.
LEMMA InstallKeepsStable ==
  ASSUME IInv, InstallBlock, hdr = lh, UNCHANGED <<hdr, logdata>>,
         boot = "install" \/ \E p \in Procs : pc[p] \in {"wlog", "install"}
  PROVE  stable' = stable
<1>1. tail \in 1 .. Len(lh) /\ lh \in Seq(Blocks) /\ disk \in [Blocks -> Vals]
  BY TailPlace DEF IInv, TypeOK
<1>2. tail \in DOMAIN hdr BY <1>1, LenProperties
<1>3. \A b \in Blocks : ~Listed(hdr, b) => disk'[b] = disk[b]
  BY <1>1, <1>2 DEF InstallBlock, Listed
<1>4. \A b \in Blocks : Recovered(b)' = Recovered(b) BY <1>3 DEF Recovered, Listed
<1> QED BY <1>4 DEF stable

\* The disk's header and log are what they were.
LEMMA SameStore == UNCHANGED store => stable' = stable
BY DEF store, stable, Recovered, Listed

\* write_head() in commit(): a reboot now finds the cache.
LEMMA HeadCommits ==
  ASSUME IInv, IInv', NEW p \in Procs, WriteHead(p), boot = "run"
  PROVE  stable' = cache /\ Active = {}
<1>1. /\ pc[p] = "whead" /\ hdr' = lh /\ UNCHANGED <<disk, logdata, cache, lh>>
  BY DEF WriteHead, log
<1>2. committing /\ Active = {} BY <1>1 DEF IInv, Commits, Committing
<1>3. Logged(Len(lh)) BY <1>1 DEF IInv, Phases, Phase
<1>4. lh \in Seq(Blocks) /\ cache \in [Blocks -> Vals] BY DEF IInv, TypeOK
<1>5. DOMAIN lh = 1 .. Len(lh) BY <1>4, LenProperties
<1>6. IInv' => (\A i \in DOMAIN hdr : stable[hdr[i]] = logdata[i])' BY RecoveredListed, PTL
<1>7. \A b \in Blocks : ~Listed(hdr', b) => stable'[b] = disk'[b]
  BY DEF stable, Recovered, Listed
<1>8. \A b \in Blocks : ~Locked(b)
  <2>1. \A q \in Procs : pc[q] # "mod" BY <1>2 DEF Active, InOp
  <2>2. \A q \in Procs : held[q] = {} BY <2>1 DEF IInv, Operations
  <2> QED BY <2>2 DEF Locked
<1>9. ASSUME NEW b \in Blocks PROVE stable'[b] = cache[b]
  <2>1. CASE Listed(lh, b)
    <3>1. PICK i \in DOMAIN lh : lh[i] = b BY <2>1 DEF Listed
    <3>2. stable'[b] = logdata[i] BY <1>1, <1>6, <3>1
    <3>3. logdata[i] = cache[b] BY <1>3, <1>5, <3>1 DEF Logged
    <3> QED BY <3>2, <3>3
  <2>2. CASE ~Listed(lh, b)
    <3>1. ~dirty[b] BY <2>2 DEF IInv, Pinned
    <3>2. cache[b] = disk[b] BY <1>8, <3>1 DEF IInv, Pinned
    <3> QED BY <1>1, <1>7, <2>2, <3>2
  <2> QED BY <2>1, <2>2
<1>10. stable' = [b \in Blocks |-> stable'[b]] BY DEF stable
<1>11. stable' = cache BY <1>4, <1>9, <1>10
<1> QED BY <1>2, <1>11

\* Every step of log.c is a step of AtomicDisk, or changes nothing of it.
LEMMA NextRefines ==
  ASSUME IInv, IInv', Next
  PROVE  AtomicDisk!Next \/ UNCHANGED <<stable, Mem, Active>>
<1> USE DEF InOp
<1>1. /\ pc \in [Procs -> {"out", "begin", "sleep", "op", "mod", "wlog", "whead", "install",
                           "clear", "done"}]
      /\ cache \in [Blocks -> Vals]
  BY Places DEF IInv, TypeOK
<1>2. ASSUME NEW p \in Procs, boot = "run", CallBegin(p) PROVE UNCHANGED <<stable, Mem, Active>>
  <2>1. Active' = Active BY <1>1, <1>2 DEF CallBegin, Active
  <2> QED BY <1>2, <2>1, SameStore DEF CallBegin, Mem
<1>3. ASSUME NEW p \in Procs, boot = "run", BeginOp(p)
      PROVE  AtomicDisk!Next \/ UNCHANGED <<stable, Mem, Active>>
  <2>1. stable' = stable /\ Mem' = Mem BY <1>3, SameStore DEF BeginOp, Mem
  <2>2. CASE pc' = [pc EXCEPT ![p] = "sleep"]
    <3>1. Active' = Active BY <1>1, <1>3, <2>2 DEF BeginOp, Active
    <3> QED BY <2>1, <3>1
  <2>3. CASE pc' = [pc EXCEPT ![p] = "op"]
    <3>1. p \notin Active /\ Active' = Active \cup {p} BY <1>1, <1>3, <2>3 DEF BeginOp, Active
    <3>2. AtomicDisk!Begin(p) BY <2>1, <3>1 DEF AtomicDisk!Begin, Mem, Active
    <3> QED BY <3>2 DEF AtomicDisk!Next
  <2> QED BY <1>3, <2>2, <2>3 DEF BeginOp
<1>4. ASSUME NEW p \in Procs, NEW b \in Blocks, NEW v \in Vals, boot = "run", Modify(p, b, v)
      PROVE  AtomicDisk!Next
  <2>1. stable' = stable BY <1>4, SameStore DEF Modify
  <2>2. p \in Active /\ Active' = Active BY <1>1, <1>4 DEF Modify, Active
  <2>3. Mem' = [Mem EXCEPT ![b] = v] BY <1>4 DEF Modify, Mem
  <2>4. AtomicDisk!Write(p, b, v) BY <2>1, <2>2, <2>3 DEF AtomicDisk!Write, Mem, Active
  <2> QED BY <2>4 DEF AtomicDisk!Next
<1>5. ASSUME NEW p \in Procs, boot = "run", log_write(p) PROVE UNCHANGED <<stable, Mem, Active>>
  <2>1. Active' = Active BY <1>1, <1>5 DEF log_write, Active
  <2> QED BY <1>5, <2>1, SameStore DEF log_write, Mem
<1>6. ASSUME NEW p \in Procs, boot = "run", EndOp(p) PROVE AtomicDisk!Next
  <2>1. stable' = stable /\ Mem' = Mem BY <1>6, SameStore DEF EndOp, Mem
  <2>2. p \in Active /\ Active' = Active \ {p} BY <1>1, <1>6 DEF EndOp, Woken, Active
  <2>3. AtomicDisk!End(p) BY <2>1, <2>2 DEF AtomicDisk!End, Mem, Active
  <2> QED BY <2>3 DEF AtomicDisk!Next
<1>7. ASSUME NEW p \in Procs, boot = "run", WriteLog(p) PROVE UNCHANGED <<stable, Mem, Active>>
  <2>1. hdr = <<>>
    <3>1. \A q \in Procs : pc[q] \in Committing => q = p
      BY <1>7 DEF WriteLog, IInv, Commits, Committing
    <3> QED BY <1>7, <3>1 DEF WriteLog, IInv, HeaderEmpty, Committing
  <2>2. stable = disk BY <2>1, RecoveredNothing
  <2>3. stable' = disk'
    <3>1. IInv' /\ (hdr = <<>>)' => (stable = disk)' BY RecoveredNothing, PTL
    <3>2. hdr' = <<>> BY <1>7, <2>1 DEF WriteLog
    <3> QED BY <3>1, <3>2
  <2>4. Active' = Active BY <1>1, <1>7 DEF WriteLog, Active
  <2> QED BY <1>7, <2>2, <2>3, <2>4 DEF WriteLog, Mem
<1>8. ASSUME NEW p \in Procs, boot = "run", WriteHead(p) PROVE AtomicDisk!Next
  <2>1. stable' = cache /\ Active = {} BY <1>8, HeadCommits
  <2>2. Active' = Active BY <1>1, <1>8 DEF WriteHead, Active
  <2>3. Mem' = Mem /\ Mem = cache BY <1>8 DEF WriteHead, Mem
  <2>4. AtomicDisk!Commit BY <2>1, <2>2, <2>3 DEF AtomicDisk!Commit, Mem, Active
  <2> QED BY <2>4 DEF AtomicDisk!Next
<1>9. ASSUME NEW p \in Procs, boot = "run", Install(p) PROVE UNCHANGED <<stable, Mem, Active>>
  <2>1. pc[p] = "install" /\ InstallBlock /\ UNCHANGED <<hdr, logdata, boot>> BY <1>9 DEF Install
  <2>2. hdr = lh /\ tail \in 1 .. Len(lh) /\ Logged(Len(lh))
    BY <2>1 DEF IInv, Phases, Phase
  <2>3. stable' = stable BY <2>1, <2>2, InstallKeepsStable
  <2>4. cache' = cache
    <3>1. cache[lh[tail]] = logdata[tail] BY <2>2 DEF Logged
    <3> QED BY <1>1, <2>1, <3>1 DEF InstallBlock
  <2>5. Active' = Active BY <1>1, <1>9 DEF Install, Active
  <2> QED BY <1>9, <2>1, <2>3, <2>4, <2>5 DEF Mem
<1>10. ASSUME NEW p \in Procs, boot = "run", Clear(p) PROVE UNCHANGED <<stable, Mem, Active>>
  <2>1. pc[p] = "clear" /\ hdr' = <<>> /\ UNCHANGED <<disk, cache, boot>> BY <1>10 DEF Clear
  <2>2. stable = disk BY <2>1, RecoveredHome DEF IInv, Phases, Phase
  <2>3. IInv' /\ (hdr = <<>>)' => (stable = disk)' BY RecoveredNothing, PTL
  <2>4. Active' = Active BY <1>1, <1>10 DEF Clear, Active
  <2> QED BY <1>10, <2>1, <2>2, <2>3, <2>4 DEF Mem
<1>11. ASSUME NEW p \in Procs, boot = "run", Committed(p) PROVE UNCHANGED <<stable, Mem, Active>>
  <2>1. Active' = Active BY <1>1, <1>11 DEF Committed, Woken, Active
  <2> QED BY <1>11, <2>1, SameStore DEF Committed, Mem
<1>12. ASSUME NEW b \in Blocks, boot = "run", Evict(b) PROVE UNCHANGED <<stable, Mem, Active>>
  <2>1. cache' = cache BY <1>12, EvictIsQuiet
  <2> QED BY <1>12, <2>1, SameStore DEF Evict, Mem, Active
<1>13. CASE ReadHead
  <2>1. boot # "run" /\ boot' # "run" BY <1>13 DEF ReadHead
  <2> QED BY <1>13, <2>1, SameStore DEF ReadHead, Mem, Active
<1>14. CASE Reinstall
  <2>1. boot = "install" /\ boot' # "run" /\ InstallBlock /\ UNCHANGED <<hdr, logdata, pc>>
    BY <1>14 DEF Reinstall
  <2>2. stable' = stable BY <2>1, InstallKeepsStable DEF IInv, BootPhase
  <2> QED BY <2>1, <2>2 DEF Mem, Active
<1>15. CASE ReClear
  <2>1. /\ boot = "clear" /\ boot' = "run" /\ hdr' = <<>> /\ UNCHANGED <<disk, cache, pc>>
    BY <1>15 DEF ReClear
  <2>2. stable = disk BY <2>1, RecoveredHome DEF IInv, BootPhase
  <2>3. IInv' /\ (hdr = <<>>)' => (stable = disk)' BY RecoveredNothing, PTL
  <2>4. cache = disk BY <2>1 DEF IInv, Booting
  <2> QED BY <2>1, <2>2, <2>3, <2>4 DEF Mem, Active
<1>16. CASE Crash
  <2>1. stable' = stable /\ Mem' = stable' BY <1>16, SameStore DEF Crash, Mem
  <2>2. Active' = {} BY <1>16 DEF Crash, Active
  <2>3. AtomicDisk!Crash BY <2>1, <2>2 DEF AtomicDisk!Crash, Mem, Active
  <2> QED BY <2>3 DEF AtomicDisk!Next
<1> QED BY <1>2, <1>3, <1>4, <1>5, <1>6, <1>7, <1>8, <1>9, <1>10, <1>11, <1>12, <1>13, <1>14, <1>15,
           <1>16
        DEF Next, OpStep, CommitStep, Recover

\* "The logging system only commits when there are no FS system calls active":
\* log.c with its cache, log, header and recovery implements AtomicDisk.  A crash
\* between any two disk writes leaves, after recovery, crashed and repeated at
\* will, what some set of whole operations wrote.
THEOREM LogIsAtomicDisk == Spec => CrashAtomic
<1>1. Init => AtomicDisk!Init
  <2> SUFFICES ASSUME Init PROVE AtomicDisk!Init OBVIOUS
  <2>1. stable = disk BY InitHolds, RecoveredNothing DEF Init
  <2>2. stable \in [Blocks -> Vals] BY <2>1, LogAssumption DEF Init
  <2>3. Mem = stable BY <2>1 DEF Init, Mem
  <2>4. Active = {} BY DEF Init, Active, InOp
  <2> QED BY <2>2, <2>3, <2>4 DEF AtomicDisk!Init, Mem, Active
<1>2. IInv /\ IInv' /\ [Next]_vars => [AtomicDisk!Next]_<<stable, Mem, Active>>
  <2> SUFFICES ASSUME IInv, IInv', [Next]_vars
               PROVE  AtomicDisk!Next \/ UNCHANGED <<stable, Mem, Active>>
    OBVIOUS
  <2>1. CASE Next BY <2>1, NextRefines
  <2>2. CASE UNCHANGED vars
    <3>1. stable' = stable BY <2>2, SameStore DEF vars
    <3> QED BY <2>2, <3>1 DEF vars, Mem, Active
  <2> QED BY <2>1, <2>2
<1>3. IInv /\ IInv' /\ [Next]_vars
        => [AtomicDisk!Next]_<<stable, IF boot = "run" THEN cache ELSE stable,
                               {p \in Procs : pc[p] \in InOp}>>
  BY <1>2 DEF Mem, Active
<1> QED BY <1>1, <1>3, LogInvariant, PTL DEF Spec, CrashAtomic, AtomicDisk!Spec
=============================================================================
