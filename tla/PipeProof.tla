----------------------------- MODULE PipeProof ------------------------------
(***************************************************************************)
(* Pipe keeps its invariants and implements ByteStream, for any number of  *)
(* readers and writers, any size of the ring and any modulus of the        *)
(* counters that is a multiple of it.                                      *)
(***************************************************************************)
EXTENDS Pipe, SequenceTheorems, TLAPS

-----------------------------------------------------------------------------
(* Remainders *)

\* What the remainder is.
LEMMA DivMod ==
  ASSUME NEW a \in Int, NEW N \in Nat \ {0}
  PROVE  /\ a % N \in 0 .. N - 1 /\ a \div N \in Int
         /\ a = N * (a \div N) + (a % N)
OBVIOUS

\* The only multiple of N within N of zero is zero.
LEMMA NoMultiple ==
  ASSUME NEW e \in Int, NEW N \in Nat \ {0}, N * e < N, -N < N * e
  PROVE  e = 0
<1>1. CASE e >= 1
  <2>1. N * e >= N * 1 BY <1>1
  <2> QED BY <2>1
<1>2. CASE e <= -1
  <2>1. N * e <= N * (-1) BY <1>2
  <2> QED BY <2>1
<1> QED BY <1>1, <1>2

\* A remainder is the only number of its kind.
LEMMA ModUnique ==
  ASSUME NEW a \in Int, NEW q \in Int, NEW N \in Nat \ {0}, NEW r \in 0 .. N - 1,
         a = N * q + r
  PROVE  a % N = r
<1> DEFINE d == a \div N  m == a % N
<1>1. d \in Int /\ m \in 0 .. N - 1 /\ a = N * d + m BY DivMod
<1> HIDE DEF d, m
<1>2. N * (q - d) = m - r
  <2>1. N * (q - d) = N * q - N * d BY <1>1
  <2> QED BY <1>1, <2>1
<1>3. q - d = 0
  <2>1. N * (q - d) < N /\ -N < N * (q - d) BY <1>1, <1>2
  <2>2. q - d \in Int BY <1>1
  <2> QED BY NoMultiple, <2>1, <2>2
<1>4. m = r BY <1>1, <1>2, <1>3
<1> QED BY <1>4 DEF m

\* Multiples of N do not count.
LEMMA ModShift ==
  ASSUME NEW a \in Int, NEW q \in Int, NEW N \in Nat \ {0}
  PROVE  (a + N * q) % N = a % N
<1> DEFINE d == a \div N  m == a % N
<1>1. d \in Int /\ m \in 0 .. N - 1 /\ a = N * d + m BY DivMod
<1> HIDE DEF d, m
<1>2. a + N * q = N * (d + q) + m
  <2>1. N * (d + q) = N * d + N * q BY <1>1
  <2> QED BY <1>1, <2>1
<1>3. a + N * q \in Int /\ d + q \in Int BY <1>1
<1>4. (a + N * q) % N = m BY <1>1, <1>2, <1>3, ModUnique
<1> QED BY <1>4 DEF m

\* The remainder of a number near the range.
LEMMA ModNear ==
  ASSUME NEW N \in Nat \ {0}, NEW a \in -N .. N + N - 1
  PROVE  a % N = IF a < 0 THEN a + N ELSE IF a < N THEN a ELSE a - N
<1>1. CASE a < 0
  <2>1. a = N * (-1) + (a + N) /\ a + N \in 0 .. N - 1 BY <1>1
  <2> QED BY <1>1, <2>1, ModUnique
<1>2. CASE 0 <= a /\ a < N
  <2>1. a = N * 0 + a /\ a \in 0 .. N - 1 BY <1>2
  <2> QED BY <1>2, <2>1, ModUnique
<1>3. CASE N <= a
  <2>1. a = N * 1 + (a - N) /\ a - N \in 0 .. N - 1 BY <1>3
  <2> QED BY <1>3, <2>1, ModUnique
<1> QED BY <1>1, <1>2, <1>3

-----------------------------------------------------------------------------
(* The counters and the ring *)

\* nwrite - nread is how far nwrite is ahead, across the wrap.
LEMMA Distance ==
  ASSUME NEW C \in Nat \ {0}, NEW r \in 0 .. C - 1, NEW w \in 0 .. C - 1
  PROVE  /\ (w - r) % C \in 0 .. C - 1
         /\ (w - r) % C = IF w < r THEN w - r + C ELSE w - r
<1>1. PICK a \in -C .. C + C - 1 : a = w - r OBVIOUS
<1>2. a % C = IF a < 0 THEN a + C ELSE IF a < C THEN a ELSE a - C BY ModNear
<1> QED BY <1>1, <1>2

\* The counters wrap at a multiple of the ring.
LEMMA WholeRings == \E d \in Int : CtrMod = PIPESIZE * d
<1>1. PICK a \in Int : a = CtrMod BY PipeAssumption
<1>2. a \div PIPESIZE \in Int /\ a = PIPESIZE * (a \div PIPESIZE) + (a % PIPESIZE)
  BY PipeAssumption, DivMod
<1>3. a % PIPESIZE = 0 BY <1>1, PipeAssumption
<1>4. CtrMod = PIPESIZE * (a \div PIPESIZE) BY <1>1, <1>2, <1>3, PipeAssumption
<1> QED BY <1>2, <1>4

\* piperead() finds the next byte in the same slot when nread has wrapped.
LEMMA WrapSlot ==
  ASSUME NEW r \in Int, NEW x \in Int, x = r \/ x = r - CtrMod, NEW i \in Nat
  PROVE  (x + i - 1) % PIPESIZE = (r + i - 1) % PIPESIZE
<1>1. PICK d \in Int : CtrMod = PIPESIZE * d BY WholeRings
<1>2. CASE x = r - CtrMod
  <2>1. PICK a \in Int, q \in Int : a = r + i - 1 /\ q = -d BY <1>1
  <2>2. PIPESIZE \in Nat \ {0} BY PipeAssumption
  <2>3. PIPESIZE * q = 0 - PIPESIZE * d BY <1>1, <2>1, <2>2
  <2>4. (a + PIPESIZE * q) % PIPESIZE = a % PIPESIZE BY <2>2, ModShift
  <2>5. x + i - 1 = a + PIPESIZE * q BY <1>1, <1>2, <2>1, <2>2, <2>3
  <2> QED BY <2>1, <2>4, <2>5
<1> QED BY <1>2

-----------------------------------------------------------------------------
(* The inductive invariant *)

Waiting == {"slp", "asleep"}

\* The flags say which ends are open, and the page outlives both.
Ends ==
  /\ ~readopen => \A r \in Readers : pc[r] = "closed"
  /\ ~writeopen => \A w \in Writers : pc[w] = "closed"
  /\ freed => ~readopen /\ ~writeopen

\* Only one process has p->lock on its way to sleep.
OneLocker == \A p, q \in Procs : pc[p] = "slp" /\ pc[q] = "slp" => p = q

\* What SleepsForAReason says of a sleeper holds from its test on.
ReadersWait ==
  \A r \in Readers : pc[r] \in Waiting =>
    /\ writeopen
    /\ nread = nwrite \/ \E w \in Writers : killed[w]
WritersWait ==
  \A w \in Writers : pc[w] \in Waiting => readopen /\ Count = PIPESIZE

\* A reader in piperead() has asked for a byte or more.
Asked == \A r \in Readers : pc[r] \in {"call", "slp", "asleep"} => n[r] >= 1

IInv == TypeOK /\ NeverOverfull /\ Ends /\ OneLocker /\ ReadersWait /\ WritersWait /\ Asked

\* The counters in range and the distance between them.
LEMMA Counts ==
  ASSUME TypeOK
  PROVE  /\ CtrMod \in Nat \ {0} /\ PIPESIZE \in Nat \ {0} /\ CtrMod > PIPESIZE
         /\ nread \in 0 .. CtrMod - 1 /\ nwrite \in 0 .. CtrMod - 1
         /\ Count \in 0 .. CtrMod - 1
         /\ nwrite = nread + Count \/ nwrite = nread + Count - CtrMod
<1>1. CtrMod \in Nat \ {0} /\ PIPESIZE \in Nat \ {0} /\ CtrMod > PIPESIZE BY PipeAssumption
<1>2. nread \in 0 .. CtrMod - 1 /\ nwrite \in 0 .. CtrMod - 1 BY DEF TypeOK
<1>3. /\ Count \in 0 .. CtrMod - 1
      /\ nwrite = nread + Count \/ nwrite = nread + Count - CtrMod
  <2>1. /\ (nwrite - nread) % CtrMod \in 0 .. CtrMod - 1
        /\ (nwrite - nread) % CtrMod =
             IF nwrite < nread THEN nwrite - nread + CtrMod ELSE nwrite - nread
    BY <1>1, <1>2, Distance
  <2> QED BY <1>1, <1>2, <2>1 DEF Count
<1> QED BY <1>1, <1>2, <1>3

\* pipewrite() overwrites no byte that waits, and puts the others behind them: the
\* slot of the i-th byte from nread on, counted from nwrite.
LEMMA RingSlot ==
  ASSUME TypeOK, NeverOverfull, NEW i \in 1 .. PIPESIZE
  PROVE  (((nread + i - 1) % PIPESIZE) - nwrite) % PIPESIZE =
           IF i <= Count THEN i - 1 - Count + PIPESIZE ELSE i - 1 - Count
<1>1. /\ CtrMod \in Nat \ {0} /\ PIPESIZE \in Nat \ {0}
      /\ nread \in Nat /\ nwrite \in Nat
      /\ Count \in 0 .. PIPESIZE
      /\ nwrite = nread + Count \/ nwrite = nread + Count - CtrMod
  BY Counts DEF NeverOverfull
<1>2. PICK d \in Int : CtrMod = PIPESIZE * d BY WholeRings
<1>3. PICK j \in 0 .. PIPESIZE - 1, q \in Int :
        j = (nread + i - 1) % PIPESIZE /\ nread + i - 1 = PIPESIZE * q + j
  <2>1. PICK a \in Int : a = nread + i - 1 BY <1>1
  <2>2. /\ a % PIPESIZE \in 0 .. PIPESIZE - 1 /\ a \div PIPESIZE \in Int
        /\ a = PIPESIZE * (a \div PIPESIZE) + (a % PIPESIZE)
    BY <1>1, DivMod
  <2> QED BY <2>1, <2>2
<1>4. PICK a \in -PIPESIZE .. PIPESIZE + PIPESIZE - 1 : a = i - 1 - Count BY <1>1
<1>5. PICK e \in Int : j - nwrite = a + PIPESIZE * e
  <2>1. CASE nwrite = nread + Count
    <3>1. PICK e \in Int : e = 0 - q OBVIOUS
    <3>2. PICK x \in Int : x = PIPESIZE * q BY <1>1
    <3>3. PIPESIZE * e = 0 - x BY <1>1, <3>1, <3>2
    <3>4. j - nwrite = a + (0 - x) BY <1>1, <1>3, <1>4, <2>1, <3>2
    <3>5. j - nwrite = a + PIPESIZE * e BY <3>3, <3>4
    <3> QED BY <3>5
  <2>2. CASE nwrite = nread + Count - CtrMod
    <3>1. PICK e \in Int : e = d - q OBVIOUS
    <3>2. PIPESIZE * e = PIPESIZE * d - PIPESIZE * q BY <1>1, <3>1
    <3>3. j - nwrite = a + PIPESIZE * e BY <1>1, <1>2, <1>3, <1>4, <2>2, <3>2
    <3> QED BY <3>3
  <2> QED BY <1>1, <2>1, <2>2
<1>6. (a + PIPESIZE * e) % PIPESIZE = a % PIPESIZE
  <2>1. a \in Int BY <1>1
  <2> QED BY <1>1, <2>1, ModShift
<1>7. a % PIPESIZE = IF a < 0 THEN a + PIPESIZE ELSE IF a < PIPESIZE THEN a ELSE a - PIPESIZE
  BY <1>1, ModNear
<1>8. (j - nwrite) % PIPESIZE = IF i <= Count THEN i - 1 - Count + PIPESIZE ELSE i - 1 - Count
  BY <1>1, <1>4, <1>5, <1>6, <1>7
<1> QED BY <1>3, <1>8

\* Every slot of a ring holds a byte.
LEMMA RingByte ==
  ASSUME NEW d \in [0 .. PIPESIZE - 1 -> Vals], NEW r \in Nat, NEW i \in Nat
  PROVE  d[(r + i - 1) % PIPESIZE] \in Vals
<1>1. PICK a \in Int : a = r + i - 1 OBVIOUS
<1>2. a % PIPESIZE \in 0 .. PIPESIZE - 1 BY PipeAssumption, DivMod
<1> QED BY <1>1, <1>2

\* c bytes are a sequence.
LEMMA BytesAreSeq ==
  ASSUME NEW c \in Nat, NEW q \in [1 .. c -> Vals]
  PROVE  q \in Seq(Vals) /\ Len(q) = c
<1>1. q \in Seq(Vals) BY SeqDef
<1> QED BY <1>1, LenProperties

\* The ring from nread on is a sequence of Count bytes.
LEMMA ContentsIsSeq ==
  ASSUME TypeOK
  PROVE  /\ Contents \in Seq(Vals) /\ Len(Contents) = Count
         /\ \A i \in 1 .. Count : Contents[i] = data[(nread + i - 1) % PIPESIZE]
<1>1. Count \in Nat /\ nread \in Nat BY Counts
<1>2. data \in [0 .. PIPESIZE - 1 -> Vals] BY DEF TypeOK
<1>3. ASSUME NEW i \in 1 .. Count PROVE data[(nread + i - 1) % PIPESIZE] \in Vals
  <2>1. i \in Nat BY <1>1
  <2> QED BY <1>1, <1>2, <2>1, RingByte
<1>4. Contents \in [1 .. Count -> Vals] BY <1>3 DEF Contents
<1>5. Contents \in Seq(Vals) /\ Len(Contents) = Count BY <1>1, <1>4, BytesAreSeq
<1> QED BY <1>5 DEF Contents

\* What pipewrite() stores comes after what waits.
LEMMA StoreAppends ==
  ASSUME TypeOK, NeverOverfull, NEW s \in Seq(Vals), NEW k \in 0 .. Room, k <= Len(s),
         Store(s, k), UNCHANGED nread
  PROVE  /\ data' \in [0 .. PIPESIZE - 1 -> Vals]
         /\ nwrite' \in 0 .. CtrMod - 1
         /\ Count' = Count + k
         /\ Contents' = Contents \o SubSeq(s, 1, k)
<1>1. /\ CtrMod \in Nat \ {0} /\ PIPESIZE \in Nat \ {0} /\ CtrMod > PIPESIZE
      /\ nread \in 0 .. CtrMod - 1 /\ nwrite \in 0 .. CtrMod - 1
      /\ Count \in 0 .. CtrMod - 1
      /\ nwrite = nread + Count \/ nwrite = nread + Count - CtrMod
  BY Counts
<1>2. Count \in 0 .. PIPESIZE /\ k \in Nat /\ Count + k <= PIPESIZE
  BY <1>1 DEF NeverOverfull, Room
<1>3. nwrite' \in 0 .. CtrMod - 1 /\ (nwrite' - nread) % CtrMod = Count + k
  <2>1. (nwrite - nread) % CtrMod =
          IF nwrite < nread THEN nwrite - nread + CtrMod ELSE nwrite - nread
    BY <1>1, Distance
  <2>2. ((nwrite - nread) % CtrMod) + k < CtrMod BY <1>1, <1>2 DEF Count
  <2>3. PICK a \in -CtrMod .. CtrMod + CtrMod - 1 : a = nwrite + k BY <1>1, <1>2, <2>1, <2>2
  <2>4. a % CtrMod = IF a < 0 THEN a + CtrMod ELSE IF a < CtrMod THEN a ELSE a - CtrMod
    BY <1>1, ModNear
  <2>5. nwrite' = (nwrite + k) % CtrMod BY DEF Store
  <2>6. nwrite' = IF nwrite + k < CtrMod THEN nwrite + k ELSE nwrite + k - CtrMod
    BY <1>1, <1>2, <2>3, <2>4, <2>5
  <2>7. PICK x \in 0 .. CtrMod - 1 : x = nwrite' BY <1>1, <1>2, <2>3, <2>6
  <2>8. (x - nread) % CtrMod = IF x < nread THEN x - nread + CtrMod ELSE x - nread
    BY <1>1, Distance
  <2>9. (x - nread) % CtrMod = ((nwrite - nread) % CtrMod) + k
    BY <1>1, <1>2, <2>1, <2>2, <2>6, <2>7, <2>8
  <2> QED BY <2>7, <2>9 DEF Count
<1>4. nwrite' \in 0 .. CtrMod - 1 /\ Count' = Count + k BY <1>3 DEF Count
<1>5. data' \in [0 .. PIPESIZE - 1 -> Vals]
  <2>1. ASSUME NEW j \in 0 .. PIPESIZE - 1,
               ((j - nwrite) % PIPESIZE) + 1 <= k
        PROVE  s[((j - nwrite) % PIPESIZE) + 1] \in Vals
    <3>1. PICK a \in Int : a = j - nwrite BY <1>1
    <3>2. a % PIPESIZE \in 0 .. PIPESIZE - 1 BY <1>1, DivMod
    <3>3. (a % PIPESIZE) + 1 \in 1 .. Len(s) BY <1>2, <2>1, <3>1, <3>2
    <3> QED BY <3>1, <3>3, ElementOfSeq
  <2> QED BY <2>1 DEF Store, TypeOK
<1>6. Contents' = Contents \o SubSeq(s, 1, k)
  <2> DEFINE t == SubSeq(s, 1, k)
  <2>1. /\ Contents \in Seq(Vals) /\ Len(Contents) = Count
        /\ \A i \in 1 .. Count : Contents[i] = data[(nread + i - 1) % PIPESIZE]
    BY ContentsIsSeq
  <2>2. /\ Contents' \in Seq(Vals) /\ Len(Contents') = Count + k
        /\ \A i \in 1 .. Count + k : Contents'[i] = data'[(nread + i - 1) % PIPESIZE]
    <3>1. Contents' = [i \in 1 .. Count + k |-> data'[(nread + i - 1) % PIPESIZE]]
      BY <1>4 DEF Contents
    <3>2. PICK c \in Nat : c = Count + k BY <1>1, <1>2
    <3>3. Contents' \in [1 .. c -> Vals] BY <1>1, <1>5, <3>1, <3>2, RingByte
    <3>4. Contents' \in Seq(Vals) /\ Len(Contents') = c BY <3>3, BytesAreSeq
    <3> QED BY <3>1, <3>2, <3>4
  <2>3. t \in Seq(Vals) /\ Len(t) = k /\ \A i \in 1 .. k : t[i] = s[i]
    <3>1. \A i \in 1 .. k : s[i] \in Vals BY <1>2, ElementOfSeq
    <3> QED BY <1>2, <3>1, SubSeqProperties
  <2>4. /\ Contents \o t \in Seq(Vals) /\ Len(Contents \o t) = Count + k
        /\ \A i \in 1 .. Count + k :
             (Contents \o t)[i] = IF i <= Count THEN Contents[i] ELSE t[i - Count]
    <3> HIDE DEF t
    <3>1. /\ Contents \o t \in Seq(Vals)
          /\ Len(Contents \o t) = Len(Contents) + Len(t)
          /\ \A i \in 1 .. Len(Contents) + Len(t) : (Contents \o t)[i] =
               IF i <= Len(Contents) THEN Contents[i] ELSE t[i - Len(Contents)]
      BY <2>1, <2>3, ConcatProperties
    <3> QED BY <2>1, <2>3, <3>1
  <2> HIDE DEF t
  <2>5. ASSUME NEW i \in 1 .. Count + k PROVE Contents'[i] = (Contents \o t)[i]
    <3> DEFINE j == (nread + i - 1) % PIPESIZE
    <3>1. i \in 1 .. PIPESIZE BY <1>1, <1>2
    <3>2. j \in 0 .. PIPESIZE - 1
      <4>1. PICK a \in Int : a = nread + i - 1 BY <1>1
      <4> QED BY <1>1, <4>1, DivMod
    <3>3. (j - nwrite) % PIPESIZE = IF i <= Count THEN i - 1 - Count + PIPESIZE ELSE i - 1 - Count
      BY <3>1, RingSlot
    <3> HIDE DEF j
    <3>4. data'[j] = IF ((j - nwrite) % PIPESIZE) + 1 <= k
                       THEN s[((j - nwrite) % PIPESIZE) + 1] ELSE data[j]
      BY <3>2 DEF Store
    <3>5. CASE i <= Count
      <4>1. ~(((j - nwrite) % PIPESIZE) + 1 <= k) BY <1>1, <1>2, <3>3, <3>5
      <4>2. data'[j] = data[j] BY <3>4, <4>1
      <4>3. (Contents \o t)[i] = Contents[i] BY <2>4, <3>5
      <4>4. i \in 1 .. Count BY <1>1, <3>1, <3>5
      <4>5. Contents[i] = data[j] BY <2>1, <4>4 DEF j
      <4>6. Contents'[i] = data'[j] BY <2>2 DEF j
      <4> QED BY <4>2, <4>3, <4>5, <4>6
    <3>6. CASE i > Count
      <4>1. ((j - nwrite) % PIPESIZE) + 1 = i - Count BY <1>1, <1>2, <3>3, <3>6
      <4>2. i - Count \in 1 .. k BY <1>2, <3>6
      <4>3. data'[j] = s[i - Count] BY <1>2, <3>4, <4>1, <4>2
      <4>4. (Contents \o t)[i] = t[i - Count] BY <1>1, <2>4, <3>6
      <4>5. t[i - Count] = s[i - Count] BY <2>3, <4>2
      <4>6. Contents'[i] = data'[j] BY <2>2 DEF j
      <4> QED BY <4>3, <4>4, <4>5, <4>6
    <3>7. i <= Count \/ i > Count BY <1>1
    <3> QED BY <3>5, <3>6, <3>7, Zenon
  <2>6. Contents' = Contents \o t BY <1>2, <2>2, <2>4, <2>5, SeqEqual
  <2> QED BY <2>6 DEF t
<1> QED BY <1>4, <1>5, <1>6

\* What piperead() returns are the oldest bytes, and the others wait on.
LEMMA ReadTakes ==
  ASSUME TypeOK, NeverOverfull, NEW k \in 0 .. Count,
         nread' = (nread + k) % CtrMod, UNCHANGED <<data, nwrite>>
  PROVE  /\ nread' \in 0 .. CtrMod - 1
         /\ Count' = Count - k
         /\ SubSeq(Contents, 1, k) \in Seq(Vals) /\ Len(SubSeq(Contents, 1, k)) = k
         /\ Len(Contents) = Count
         /\ Contents' = SubSeq(Contents, k + 1, Len(Contents))
<1>1. /\ CtrMod \in Nat \ {0} /\ PIPESIZE \in Nat \ {0}
      /\ nread \in 0 .. CtrMod - 1 /\ nwrite \in 0 .. CtrMod - 1
      /\ Count \in 0 .. CtrMod - 1
  BY Counts
<1>2. k \in Nat /\ k <= Count BY <1>1
<1>3. /\ nread' \in 0 .. CtrMod - 1
      /\ nread' = nread + k \/ nread' = nread + k - CtrMod
      /\ (nwrite - nread') % CtrMod = Count - k
  <2>1. (nwrite - nread) % CtrMod =
          IF nwrite < nread THEN nwrite - nread + CtrMod ELSE nwrite - nread
    BY <1>1, Distance
  <2>2. k <= (nwrite - nread) % CtrMod BY <1>2 DEF Count
  <2>3. PICK a \in -CtrMod .. CtrMod + CtrMod - 1 : a = nread + k BY <1>1, <1>2, <2>1, <2>2
  <2>4. a % CtrMod = IF a < 0 THEN a + CtrMod ELSE IF a < CtrMod THEN a ELSE a - CtrMod
    BY <1>1, ModNear
  <2>5. nread' = IF nread + k < CtrMod THEN nread + k ELSE nread + k - CtrMod
    BY <1>1, <1>2, <2>3, <2>4
  <2>6. PICK x \in 0 .. CtrMod - 1 : x = nread' BY <1>1, <1>2, <2>3, <2>5
  <2>7. (nwrite - x) % CtrMod = IF nwrite < x THEN nwrite - x + CtrMod ELSE nwrite - x
    BY <1>1, Distance
  <2>8. (nwrite - x) % CtrMod = ((nwrite - nread) % CtrMod) - k
    BY <1>1, <1>2, <2>1, <2>2, <2>5, <2>6, <2>7
  <2> QED BY <1>1, <2>5, <2>6, <2>8 DEF Count
<1>4. nread' \in 0 .. CtrMod - 1 /\ Count' = Count - k BY <1>3 DEF Count
<1>5. /\ Contents \in Seq(Vals) /\ Len(Contents) = Count
      /\ \A i \in 1 .. Count : Contents[i] = data[(nread + i - 1) % PIPESIZE]
  BY ContentsIsSeq
<1>6. \A i \in 1 .. Count : Contents[i] \in Vals BY <1>5, ElementOfSeq
<1>7. SubSeq(Contents, 1, k) \in Seq(Vals) /\ Len(SubSeq(Contents, 1, k)) = k
  <2>1. \A i \in 1 .. k : Contents[i] \in Vals BY <1>1, <1>6
  <2> QED BY <1>2, <2>1, SubSeqProperties
<1> DEFINE t == SubSeq(Contents, k + 1, Count)
<1>8. /\ t \in Seq(Vals) /\ Len(t) = Count - k
      /\ \A i \in 1 .. Count - k : t[i] = Contents[k + i]
  <2>1. PICK m \in Int : m = k + 1 BY <1>2
  <2>2. \A i \in m .. Count : Contents[i] \in Vals BY <1>1, <1>2, <1>6, <2>1
  <2>3. /\ SubSeq(Contents, m, Count) \in Seq(Vals)
        /\ Len(SubSeq(Contents, m, Count)) = IF m <= Count THEN Count - m + 1 ELSE 0
        /\ \A i \in 1 .. Count - m + 1 : SubSeq(Contents, m, Count)[i] = Contents[m + i - 1]
    <3>1. Count \in Int BY <1>1
    <3> QED BY <2>2, <3>1, SubSeqProperties
  <2>4. Count - m + 1 = Count - k /\ (~(m <= Count) => Count - k = 0) BY <1>1, <1>2, <2>1
  <2>5. \A i \in 1 .. Count - k : m + i - 1 = k + i BY <1>1, <1>2, <2>1
  <2> QED BY <2>1, <2>3, <2>4, <2>5
<1> HIDE DEF t
<1>9. /\ Contents' \in Seq(Vals) /\ Len(Contents') = Count - k
      /\ \A i \in 1 .. Count - k : Contents'[i] = data[(nread' + i - 1) % PIPESIZE]
  <2>1. PICK c \in Nat : c = Count - k BY <1>1, <1>2
  <2>2. PICK r \in Nat : r = nread' BY <1>1, <1>4
  <2>3. Contents' = [i \in 1 .. c |-> data[(r + i - 1) % PIPESIZE]]
    BY <1>4, <2>1, <2>2 DEF Contents
  <2>4. data \in [0 .. PIPESIZE - 1 -> Vals] BY DEF TypeOK
  <2>5. Contents' \in [1 .. c -> Vals]
    <3>1. ASSUME NEW i \in 1 .. c PROVE data[(r + i - 1) % PIPESIZE] \in Vals
      <4>1. i \in Nat OBVIOUS
      <4> QED BY <2>4, <4>1, RingByte
    <3> QED BY <2>3, <3>1
  <2>6. Contents' \in Seq(Vals) /\ Len(Contents') = c BY <2>5, BytesAreSeq
  <2> QED BY <2>1, <2>2, <2>3, <2>6
<1>10. ASSUME NEW i \in 1 .. Count - k PROVE Contents'[i] = t[i]
  <2>1. k + i \in 1 .. Count BY <1>1, <1>2
  <2>2. PICK r \in Int : r = nread + k BY <1>1, <1>2
  <2>3. PICK x \in Int : x = nread' BY <1>1, <1>4
  <2>4. x = r \/ x = r - CtrMod BY <1>1, <1>2, <1>3, <2>2, <2>3
  <2>5. (x + i - 1) % PIPESIZE = (r + i - 1) % PIPESIZE BY <2>4, WrapSlot
  <2>6. r + i - 1 = nread + (k + i) - 1 BY <1>1, <1>2, <2>2
  <2>7. Contents[k + i] = data[(nread + (k + i) - 1) % PIPESIZE] BY <1>5, <2>1
  <2> QED BY <1>8, <1>9, <2>3, <2>5, <2>6, <2>7
<1>11. Contents' = t BY <1>1, <1>2, <1>8, <1>9, <1>10, SeqEqual
<1> QED BY <1>4, <1>5, <1>7, <1>11 DEF t

-----------------------------------------------------------------------------
(* Every step keeps it *)

\* A new pipe is empty.
LEMMA NewIsEmpty ==
  ASSUME nread = 0, nwrite = 0
  PROVE  Count = 0
<1>1. CtrMod \in Nat \ {0} BY PipeAssumption
<1>2. PICK z \in 0 .. CtrMod - 1 : z = 0 BY <1>1
<1>3. (z - z) % CtrMod = IF z < z THEN z - z + CtrMod ELSE z - z BY <1>1, Distance
<1> QED BY <1>1, <1>2, <1>3 DEF Count

\* pipealloc() establishes the invariant.
LEMMA InitHolds == Init => IInv
<1> SUFFICES ASSUME Init PROVE IInv OBVIOUS
<1>1. nread = 0 /\ nwrite = 0 /\ pc = [p \in Procs |-> "idle"] BY DEF Init
<1>2. Count = 0 BY <1>1, NewIsEmpty
<1>3. TypeOK
  <2>1. <<>> \in Seq(Vals) /\ Len(<<>>) = 0 BY EmptySeq
  <2>2. data \in [0 .. PIPESIZE - 1 -> Vals] BY DEF Init
  <2>3. nread \in 0 .. CtrMod - 1 /\ nwrite \in 0 .. CtrMod - 1 BY <1>1, PipeAssumption
  <2>4. PIPESIZE \in Nat BY PipeAssumption
  <2>5. /\ todo \in [Writers -> Seq(Vals)] /\ got \in [Readers -> Seq(Vals)]
        /\ \A r \in Readers : Len(got[r]) <= PIPESIZE
    BY <2>1, <2>4 DEF Init
  <2> QED BY <1>1, <2>2, <2>3, <2>5 DEF TypeOK, Init
<1>4. NeverOverfull BY <1>2, PipeAssumption DEF NeverOverfull
<1>5. Ends BY DEF Init, Ends
<1>6. OneLocker /\ ReadersWait /\ WritersWait /\ Asked
  BY <1>1 DEF OneLocker, ReadersWait, WritersWait, Asked, Waiting, Procs
<1> QED BY <1>3, <1>4, <1>5, <1>6 DEF IInv

\* pipewrite() stores k bytes: all it has, or all that fit.  It sleeps in the second case
\* only, and leaves readers asleep only when its process is killed or nobody reads.
LEMMA WriteEffect ==
  ASSUME IInv, NEW w \in Writers, Write(w)
  PROVE  /\ \E k \in 0 .. Room : /\ k <= Len(todo[w]) /\ Store(todo[w], k)
                                 /\ pc'[w] = "slp" => k = Room /\ readopen
         /\ pc' \in [Procs -> {"idle", "call", "slp", "asleep", "closed"}]
         /\ todo' \in [Writers -> Seq(Vals)]
         /\ pc'[w] \in {"slp", "idle"}
         /\ \A p \in Procs \ {w} :
              pc'[p] = pc[p] \/ (p \in Readers /\ pc[p] = "asleep" /\ pc'[p] = "call")
         /\ killed[w] \/ ~readopen \/ \A r \in Readers : pc'[r] # "asleep"
<1> DEFINE t == todo[w]
           k == Smaller(Len(t), Room)
           rest == SubSeq(t, k + 1, Len(t))
<1>1. /\ TypeOK /\ pc \in [Procs -> {"idle", "call", "slp", "asleep", "closed"}]
      /\ w \in Procs /\ w \notin Readers
  BY PipeAssumption DEF IInv, TypeOK, Procs
<1>2. t \in Seq(Vals) /\ Len(t) \in Nat BY DEF IInv, TypeOK
<1>3. Room \in Nat BY <1>1, Counts DEF Room, IInv, NeverOverfull
<1>4. k \in 0 .. Room /\ k <= Len(t) /\ (k < Len(t) => k = Room) BY <1>2, <1>3 DEF Smaller
<1>5. rest \in Seq(Vals) /\ (rest # <<>> => k < Len(t))
  <2> HIDE DEF k
  <2>1. PICK m \in Int, l \in Int : m = k + 1 /\ l = Len(t) BY <1>2, <1>4
  <2>2. \A i \in m .. l : t[i] \in Vals
    <3>1. m \in Nat \ {0} BY <1>3, <1>4, <2>1
    <3> QED BY <1>2, <2>1, <3>1, ElementOfSeq
  <2>3. SubSeq(t, m, l) \in Seq(Vals) BY <2>2, SubSeqProperties
  <2>4. l < m => SubSeq(t, m, l) = <<>> BY SubSeqEmpty
  <2> QED BY <1>2, <1>3, <1>4, <2>1, <2>3, <2>4
<1>6. Store(t, k) BY DEF Write
<1>7. \/ /\ rest # <<>> /\ readopen /\ ~killed[w]
         /\ pc' = [WakeReaders(pc) EXCEPT ![w] = "slp"]
         /\ todo' = [todo EXCEPT ![w] = rest]
      \/ /\ rest = <<>>
         /\ pc' = [WakeReaders(pc) EXCEPT ![w] = "idle"]
         /\ todo' = [todo EXCEPT ![w] = <<>>]
      \/ /\ ~readopen \/ killed[w]
         /\ pc' = [pc EXCEPT ![w] = "idle"]
         /\ todo' = [todo EXCEPT ![w] = <<>>]
  BY DEF Write
<1> HIDE DEF k, rest, t
<1>8. pc' \in [Procs -> {"idle", "call", "slp", "asleep", "closed"}]
  BY <1>1, <1>7 DEF WakeReaders
<1>9. todo' \in [Writers -> Seq(Vals)]
  <2>1. <<>> \in Seq(Vals) BY EmptySeq
  <2> QED BY <1>1, <1>5, <1>7, <2>1 DEF TypeOK
<1>10. pc'[w] \in {"slp", "idle"} /\ (pc'[w] = "slp" => rest # <<>> /\ readopen)
  BY <1>1, <1>7 DEF WakeReaders
<1>11. \A p \in Procs \ {w} :
         pc'[p] = pc[p] \/ (p \in Readers /\ pc[p] = "asleep" /\ pc'[p] = "call")
  BY <1>1, <1>7 DEF WakeReaders
<1>12. killed[w] \/ ~readopen \/ \A r \in Readers : pc'[r] # "asleep"
  BY <1>1, <1>7 DEF WakeReaders, Procs
<1> QED BY <1>4, <1>5, <1>6, <1>8, <1>9, <1>10, <1>11, <1>12 DEF t

\* A process sets out to sleep only when nobody has the lock, and then has it alone.
LEMMA LockerStep ==
  ASSUME IInv, Next
  PROVE  OneLocker'
<1> USE DEF IInv, TypeOK, OneLocker, Procs
<1>1. ASSUME NEW w \in Writers, Write(w) PROVE OneLocker'
  <2>1. \A p \in Procs : pc[p] # "slp" BY <1>1 DEF Write, Unlocked
  <2>2. \A p \in Procs \ {w} : pc'[p] = pc[p] \/ pc'[p] = "call" BY <1>1, WriteEffect
  <2> QED BY <2>1, <2>2
<1>2. ASSUME NEW r \in Readers, ReaderStep(r) PROVE OneLocker'
  BY <1>2 DEF ReaderStep, ReadWait, Read, ReadKilled, Sleep, Unlocked, WakeWriters
<1>3. ASSUME NEW p \in Procs, Sleep(p) \/ Kill(p) \/ Close(p) PROVE OneLocker'
  BY <1>3 DEF Sleep, Kill, Close, WakeReaders, WakeWriters
<1>4. ASSUME NEW w \in Writers, NEW s \in Writes, CallWrite(w, s) PROVE OneLocker'
  BY <1>4 DEF CallWrite
<1>5. ASSUME NEW r \in Readers, NEW k \in Reads, CallRead(r, k) PROVE OneLocker'
  BY <1>5 DEF CallRead
<1>6. CASE Finished BY <1>6 DEF Finished, vars
<1> QED BY <1>1, <1>2, <1>3, <1>4, <1>5, <1>6 DEF Next, WriterStep

\* The processes whose end is closed have closed it.
LEMMA EndsStep ==
  ASSUME IInv, Next
  PROVE  Ends'
<1> USE DEF IInv, TypeOK, Ends, Procs
<1>1. ASSUME NEW w \in Writers, Write(w) PROVE Ends'
  BY <1>1 DEF Write, WakeReaders
<1>2. ASSUME NEW r \in Readers, ReaderStep(r) PROVE Ends'
  <2>1. CASE Read(r) BY <2>1 DEF Read, WakeWriters
  <2>2. CASE ReadWait(r) \/ ReadKilled(r) \/ Sleep(r)
    BY <2>2 DEF ReadWait, ReadKilled, Sleep, pipe
  <2> QED BY <1>2, <2>1, <2>2 DEF ReaderStep
<1>3. ASSUME NEW p \in Procs, Sleep(p) \/ Kill(p) PROVE Ends'
  BY <1>3 DEF Sleep, Kill, pipe
<1>4. ASSUME NEW p \in Procs, Close(p) PROVE Ends'
  BY <1>4, PipeAssumption DEF Close, LastHolder, WakeReaders, WakeWriters
<1>5. ASSUME NEW w \in Writers, NEW s \in Writes, CallWrite(w, s) PROVE Ends'
  BY <1>5 DEF CallWrite, pipe
<1>6. ASSUME NEW r \in Readers, NEW k \in Reads, CallRead(r, k) PROVE Ends'
  BY <1>6 DEF CallRead, pipe
<1>7. CASE Finished BY <1>7 DEF Finished, vars, pipe
<1> QED BY <1>1, <1>2, <1>3, <1>4, <1>5, <1>6, <1>7 DEF Next, WriterStep

\* Steps other than pipewrite(), piperead() and close() leave the pipe alone.
LEMMA QuietSteps ==
  ASSUME IInv, Next
  PROVE  \/ \E w \in Writers : Write(w)
         \/ \E r \in Readers : Read(r)
         \/ \E p \in Procs : Close(p)
         \/ UNCHANGED <<pipe, got>>
BY DEF Next, WriterStep, ReaderStep, CallWrite, CallRead, ReadWait, ReadKilled, Sleep, Kill,
       Finished, vars

\* What piperead() does, with the number of bytes it takes.
LEMMA ReadEffect ==
  ASSUME IInv, NEW r \in Readers, Read(r)
  PROVE  \E k \in 0 .. Count :
           /\ nread' = (nread + k) % CtrMod
           /\ got' = [got EXCEPT ![r] = SubSeq(Contents, 1, k)]
           /\ k = 0 => Count = 0
           /\ k <= PIPESIZE
<1> DEFINE k == Smaller(n[r], Count)
<1>1. Count \in Nat /\ PIPESIZE \in Nat /\ Count <= PIPESIZE BY Counts DEF IInv, NeverOverfull
<1>2. n[r] \in Nat BY DEF IInv, TypeOK
<1>3. n[r] >= 1 BY DEF IInv, Asked, Read
<1>4. k \in 0 .. Count /\ (k = 0 => Count = 0) /\ k <= PIPESIZE BY <1>1, <1>2, <1>3 DEF Smaller
<1>5. nread' = (nread + k) % CtrMod /\ got' = [got EXCEPT ![r] = SubSeq(Contents, 1, k)]
  BY DEF Read
<1> QED BY <1>4, <1>5

\* Types, and that the ring is not overfull.
LEMMA TypeStep ==
  ASSUME IInv, Next
  PROVE  TypeOK' /\ NeverOverfull'
<1>1. /\ TypeOK /\ NeverOverfull /\ PIPESIZE \in Nat BY PipeAssumption DEF IInv
<1>2. ASSUME NEW w \in Writers, Write(w) PROVE TypeOK' /\ NeverOverfull'
  <2>1. PICK k \in 0 .. Room : k <= Len(todo[w]) /\ Store(todo[w], k) BY <1>2, WriteEffect
  <2>2. todo[w] \in Seq(Vals) BY <1>1 DEF TypeOK
  <2>3. /\ data' \in [0 .. PIPESIZE - 1 -> Vals]
        /\ nwrite' \in 0 .. CtrMod - 1
        /\ Count' = Count + k
    <3>1. UNCHANGED nread BY <1>2 DEF Write
    <3> QED BY <1>1, <2>1, <2>2, <3>1, StoreAppends
  <2>4. /\ pc' \in [Procs -> {"idle", "call", "slp", "asleep", "closed"}]
        /\ todo' \in [Writers -> Seq(Vals)]
    BY <1>2, WriteEffect
  <2>5. UNCHANGED <<nread, readopen, writeopen, freed, n, got, killed>> BY <1>2 DEF Write
  <2>6. TypeOK' BY <1>1, <2>3, <2>4, <2>5 DEF TypeOK
  <2>7. NeverOverfull'
    <3>1. Count \in Nat BY <1>1, Counts
    <3> QED BY <1>1, <2>1, <2>3, <3>1 DEF NeverOverfull, Room
  <2> QED BY <2>6, <2>7
<1>3. ASSUME NEW r \in Readers, Read(r) PROVE TypeOK' /\ NeverOverfull'
  <2>1. PICK k \in 0 .. Count :
          /\ nread' = (nread + k) % CtrMod
          /\ got' = [got EXCEPT ![r] = SubSeq(Contents, 1, k)]
          /\ k <= PIPESIZE
    BY <1>3, ReadEffect
  <2>2. UNCHANGED <<data, nwrite, readopen, writeopen, freed, todo, killed>> BY <1>3 DEF Read
  <2>3. /\ nread' \in 0 .. CtrMod - 1
        /\ Count' = Count - k
        /\ SubSeq(Contents, 1, k) \in Seq(Vals) /\ Len(SubSeq(Contents, 1, k)) = k
    BY <1>1, <2>1, <2>2, ReadTakes
  <2>4. got' \in [Readers -> Seq(Vals)] /\ \A q \in Readers : Len(got'[q]) <= PIPESIZE
    BY <1>1, <2>1, <2>3 DEF TypeOK
  <2>5. pc' \in [Procs -> {"idle", "call", "slp", "asleep", "closed"}] /\ n' \in [Readers -> Nat]
    BY <1>1, <1>3 DEF TypeOK, Read, WakeWriters, Procs
  <2>6. TypeOK' BY <1>1, <2>2, <2>3, <2>4, <2>5 DEF TypeOK
  <2>7. NeverOverfull'
    <3>1. Count \in Nat BY <1>1, Counts
    <3> QED BY <1>1, <2>1, <2>3, <3>1 DEF NeverOverfull
  <2> QED BY <2>6, <2>7
<1>4. ASSUME NEW p \in Procs, Close(p) PROVE TypeOK' /\ NeverOverfull'
  <2>1. UNCHANGED <<data, nread, nwrite, todo, n, got, killed>> BY <1>4 DEF Close
  <2>2. readopen' \in BOOLEAN /\ writeopen' \in BOOLEAN /\ freed' \in BOOLEAN BY <1>4 DEF Close
  <2>3. pc' \in [Procs -> {"idle", "call", "slp", "asleep", "closed"}]
    BY <1>1, <1>4 DEF TypeOK, Close, WakeReaders, WakeWriters, Procs
  <2> QED BY <1>1, <2>1, <2>2, <2>3 DEF TypeOK, NeverOverfull, Count
<1>5. ASSUME NEW w \in Writers, NEW s \in Writes, CallWrite(w, s) PROVE TypeOK' /\ NeverOverfull'
  BY <1>1, <1>5, PipeAssumption DEF TypeOK, NeverOverfull, Count, CallWrite, pipe, Procs
<1>6. ASSUME NEW r \in Readers, NEW k \in Reads, CallRead(r, k) PROVE TypeOK' /\ NeverOverfull'
  BY <1>1, <1>6, PipeAssumption DEF TypeOK, NeverOverfull, Count, CallRead, pipe, Procs
<1>7. ASSUME NEW r \in Readers, ReadWait(r) \/ ReadKilled(r) PROVE TypeOK' /\ NeverOverfull'
  <2>1. CASE ReadWait(r)
    BY <1>1, <2>1 DEF TypeOK, NeverOverfull, Count, ReadWait, pipe, Procs
  <2>2. CASE ReadKilled(r)
    BY <1>1, <2>2 DEF TypeOK, NeverOverfull, Count, ReadKilled, pipe, Procs
  <2> QED BY <1>7, <2>1, <2>2
<1>8. ASSUME NEW p \in Procs, Sleep(p) \/ Kill(p) PROVE TypeOK' /\ NeverOverfull'
  BY <1>1, <1>8 DEF TypeOK, NeverOverfull, Count, Sleep, Kill, pipe
<1>9. CASE Finished BY <1>1, <1>9 DEF TypeOK, NeverOverfull, Count, Finished, vars, pipe
<1> QED BY <1>2, <1>3, <1>4, <1>5, <1>6, <1>7, <1>8, <1>9 DEF Next, WriterStep, ReaderStep, Procs

\* Whoever waits has still a reason to: each step that takes it away wakes the sleepers,
\* and there is no step while a process on its way to sleep has the lock.
LEMMA WaitStep ==
  ASSUME IInv, Next
  PROVE  ReadersWait' /\ WritersWait'
<1>1. /\ TypeOK /\ NeverOverfull /\ Ends /\ ReadersWait /\ WritersWait
      /\ pc \in [Procs -> {"idle", "call", "slp", "asleep", "closed"}]
      /\ killed \in [Procs -> BOOLEAN]
      /\ Readers \cap Writers = {} /\ Readers \subseteq Procs /\ Writers \subseteq Procs
  BY PipeAssumption DEF IInv, TypeOK, Procs
<1>2. ASSUME NEW w \in Writers, Write(w) PROVE ReadersWait' /\ WritersWait'
  <2>1. PICK k \in 0 .. Room : /\ k <= Len(todo[w]) /\ Store(todo[w], k)
                               /\ pc'[w] = "slp" => k = Room /\ readopen
    BY <1>2, WriteEffect
  <2>2. /\ UNCHANGED <<nread, readopen, writeopen, killed>>
        /\ \A p \in Procs : pc[p] # "slp"
    BY <1>2 DEF Write, Unlocked
  <2>3. /\ pc'[w] \in {"slp", "idle"}
        /\ \A p \in Procs \ {w} :
             pc'[p] = pc[p] \/ (p \in Readers /\ pc[p] = "asleep" /\ pc'[p] = "call")
        /\ killed[w] \/ ~readopen \/ \A r \in Readers : pc'[r] # "asleep"
    BY <1>2, WriteEffect
  <2>4. Count' = Count + k
    <3>1. todo[w] \in Seq(Vals) BY <1>1 DEF TypeOK
    <3> QED BY <1>1, <2>1, <2>2, <3>1, StoreAppends
  <2>5. Count \in Nat /\ PIPESIZE \in Nat BY <1>1, Counts
  <2>6. ReadersWait'
    <3> SUFFICES ASSUME NEW r \in Readers, pc'[r] \in Waiting
                 PROVE  writeopen' /\ \E v \in Writers : killed'[v]
      BY DEF ReadersWait
    <3>1. pc'[r] = pc[r] /\ pc[r] = "asleep" BY <1>1, <2>2, <2>3 DEF Waiting
    <3>2. writeopen BY <1>1, <3>1 DEF ReadersWait, Waiting
    <3>3. killed[w] BY <1>1, <2>3, <3>1 DEF Ends
    <3> QED BY <2>2, <3>2, <3>3
  <2>7. WritersWait'
    <3> SUFFICES ASSUME NEW v \in Writers, pc'[v] \in Waiting
                 PROVE  readopen' /\ Count' = PIPESIZE
      BY DEF WritersWait
    <3>1. CASE v = w BY <2>1, <2>2, <2>3, <2>4, <2>5, <3>1 DEF Waiting, Room
    <3>2. CASE v # w
      <4>1. pc[v] \in Waiting BY <1>1, <2>3, <3>2 DEF Waiting
      <4>2. readopen /\ Count = PIPESIZE BY <1>1, <4>1 DEF WritersWait
      <4>3. k = 0 BY <2>1, <2>5, <4>2 DEF Room
      <4> QED BY <2>2, <2>4, <2>5, <4>2, <4>3
    <3> QED BY <3>1, <3>2
  <2> QED BY <2>6, <2>7
<1>3. ASSUME NEW r \in Readers, Read(r) PROVE ReadersWait' /\ WritersWait'
  <2>1. /\ \A p \in Procs : pc[p] # "slp"
        /\ pc' = [WakeWriters(pc) EXCEPT ![r] = "idle"]
        /\ UNCHANGED <<nwrite, writeopen, killed>>
    BY <1>3 DEF Read, Unlocked
  <2>2. WritersWait'
    <3>1. \A v \in Writers : pc'[v] \notin Waiting BY <1>1, <2>1 DEF WakeWriters, Waiting, Procs
    <3> QED BY <3>1 DEF WritersWait
  <2>3. ReadersWait'
    <3> SUFFICES ASSUME NEW q \in Readers, pc'[q] \in Waiting
                 PROVE  writeopen' /\ (nread' = nwrite' \/ \E v \in Writers : killed'[v])
      BY DEF ReadersWait
    <3>1. pc[q] \in Waiting BY <1>1, <2>1 DEF WakeWriters, Waiting
    <3>2. writeopen /\ (nread = nwrite \/ \E v \in Writers : killed[v])
      BY <1>1, <3>1 DEF ReadersWait
    <3>3. nread # nwrite BY <1>3, <3>2 DEF Read, CanRead
    <3> QED BY <2>1, <3>2, <3>3
  <2> QED BY <2>2, <2>3
<1>4. ASSUME NEW p \in Procs, Close(p) PROVE ReadersWait' /\ WritersWait'
  <2>1. UNCHANGED <<nread, nwrite, killed>> /\ Count' = Count BY <1>4 DEF Close, Count
  <2>2. CASE ~LastHolder(p)
    <3>1. UNCHANGED <<readopen, writeopen>> /\ pc' = [pc EXCEPT ![p] = "closed"]
      BY <1>1, <1>4, <2>2 DEF Close, TypeOK
    <3> QED BY <1>1, <2>1, <3>1 DEF ReadersWait, WritersWait, Waiting
  <2>3. CASE LastHolder(p) /\ p \in Writers
    <3>1. /\ \A q \in Procs : pc[q] # "slp"
          /\ pc' = [WakeReaders(pc) EXCEPT ![p] = "closed"]
          /\ UNCHANGED readopen
      BY <1>1, <1>4, <2>3 DEF Close, Unlocked, TypeOK
    <3>2. \A q \in Readers : pc'[q] \notin Waiting BY <1>1, <3>1 DEF WakeReaders, Waiting
    <3>3. \A v \in Writers : pc'[v] \in Waiting => pc[v] \in Waiting
      BY <1>1, <3>1 DEF WakeReaders, Waiting
    <3> QED BY <1>1, <2>1, <3>1, <3>2, <3>3 DEF ReadersWait, WritersWait
  <2>4. CASE LastHolder(p) /\ p \in Readers
    <3>1. /\ \A q \in Procs : pc[q] # "slp"
          /\ pc' = [WakeWriters(pc) EXCEPT ![p] = "closed"]
          /\ UNCHANGED writeopen
      BY <1>1, <1>4, <2>4 DEF Close, Unlocked, TypeOK
    <3>2. \A v \in Writers : pc'[v] \notin Waiting BY <1>1, <3>1 DEF WakeWriters, Waiting
    <3>3. \A q \in Readers : pc'[q] \in Waiting => pc[q] \in Waiting
      BY <1>1, <3>1 DEF WakeWriters, Waiting
    <3> QED BY <1>1, <2>1, <3>1, <3>2, <3>3 DEF ReadersWait, WritersWait
  <2> QED BY <2>2, <2>3, <2>4 DEF Procs
<1>5. ASSUME NEW r \in Readers, ReadWait(r) PROVE ReadersWait' /\ WritersWait'
  <2>1. UNCHANGED <<nread, nwrite, readopen, writeopen, killed>> /\ Count' = Count
    BY <1>5 DEF ReadWait, pipe, Count
  <2>2. nread = nwrite /\ writeopen BY <1>1, <1>5 DEF ReadWait, CanRead, TypeOK
  <2>3. \A v \in Writers : pc'[v] = pc[v] BY <1>1, <1>5 DEF ReadWait
  <2> QED BY <1>1, <2>1, <2>2, <2>3 DEF ReadersWait, WritersWait
<1>6. ASSUME UNCHANGED <<pipe, killed>>, \A p \in Procs : pc'[p] \in Waiting => pc[p] \in Waiting
      PROVE  ReadersWait' /\ WritersWait'
  BY <1>1, <1>6 DEF ReadersWait, WritersWait, pipe, Count
<1>7. ASSUME NEW w \in Writers, NEW s \in Writes, CallWrite(w, s) PROVE ReadersWait' /\ WritersWait'
  BY <1>1, <1>6, <1>7 DEF CallWrite, Waiting
<1>8. ASSUME NEW r \in Readers, NEW k \in Reads, CallRead(r, k) PROVE ReadersWait' /\ WritersWait'
  BY <1>1, <1>6, <1>8 DEF CallRead, Waiting
<1>9. ASSUME NEW r \in Readers, ReadKilled(r) PROVE ReadersWait' /\ WritersWait'
  BY <1>1, <1>6, <1>9 DEF ReadKilled, Waiting
<1>10. ASSUME NEW p \in Procs, Sleep(p) PROVE ReadersWait' /\ WritersWait'
  BY <1>1, <1>6, <1>10 DEF Sleep, Waiting
<1>11. ASSUME NEW p \in Procs, Kill(p) PROVE ReadersWait' /\ WritersWait'
  <2>1. UNCHANGED pipe /\ \A q \in Procs : pc'[q] \in Waiting => pc[q] \in Waiting
    BY <1>1, <1>11 DEF Kill, Waiting
  <2>2. \A q \in Procs : killed[q] => killed'[q] BY <1>1, <1>11 DEF Kill
  <2> QED BY <1>1, <2>1, <2>2 DEF ReadersWait, WritersWait, pipe, Count
<1>12. CASE Finished BY <1>6, <1>12 DEF Finished, vars, Waiting
<1> QED
  BY <1>1, <1>2, <1>3, <1>4, <1>5, <1>7, <1>8, <1>9, <1>10, <1>11, <1>12
  DEF Next, WriterStep, ReaderStep

\* n is set by the call and reset by the return.
LEMMA AskedStep ==
  ASSUME IInv, Next
  PROVE  Asked'
<1>1. /\ TypeOK /\ Asked /\ Readers \cap Writers = {}
      /\ Readers \subseteq Procs /\ Writers \subseteq Procs
  BY PipeAssumption DEF IInv, Procs
<1>2. ASSUME NEW w \in Writers, Write(w) PROVE Asked'
  <2>1. \A r \in Readers : pc'[r] = pc[r] \/ pc[r] = "asleep" BY <1>1, <1>2, WriteEffect
  <2>2. UNCHANGED n BY <1>2 DEF Write
  <2> QED BY <1>1, <2>1, <2>2 DEF Asked
<1>3. ASSUME NEW r \in Readers, Read(r) PROVE Asked'
  BY <1>1, <1>3 DEF Asked, TypeOK, Read, WakeWriters
<1>4. ASSUME NEW p \in Procs, Close(p) PROVE Asked'
  <2>1. UNCHANGED n BY <1>4 DEF Close
  <2>2. \A r \in Readers : pc'[r] = pc[r] \/ pc[r] = "asleep" \/ pc'[r] = "closed"
    <3>1. \/ pc' = [pc EXCEPT ![p] = "closed"]
          \/ pc' = [WakeReaders(pc) EXCEPT ![p] = "closed"]
          \/ pc' = [WakeWriters(pc) EXCEPT ![p] = "closed"]
      BY <1>4 DEF Close, Procs
    <3> QED BY <1>1, <3>1 DEF TypeOK, WakeReaders, WakeWriters
  <2> QED BY <1>1, <2>1, <2>2 DEF Asked
<1>5. ASSUME NEW r \in Readers, ReadWait(r) \/ ReadKilled(r) PROVE Asked'
  BY <1>1, <1>5 DEF Asked, TypeOK, ReadWait, ReadKilled
<1>6. ASSUME NEW p \in Procs, Sleep(p) \/ Kill(p) PROVE Asked'
  BY <1>1, <1>6 DEF Asked, TypeOK, Sleep, Kill
<1>7. ASSUME NEW w \in Writers, NEW s \in Writes, CallWrite(w, s) PROVE Asked'
  BY <1>1, <1>7 DEF Asked, TypeOK, CallWrite
<1>8. ASSUME NEW r \in Readers, NEW k \in Reads, CallRead(r, k) PROVE Asked'
  BY <1>1, <1>8, PipeAssumption DEF Asked, TypeOK, CallRead
<1>9. CASE Finished BY <1>1, <1>9 DEF Asked, Finished, vars
<1> QED
  BY <1>1, <1>2, <1>3, <1>4, <1>5, <1>6, <1>7, <1>8, <1>9 DEF Next, WriterStep, ReaderStep

\* The invariant holds in every reachable state.
THEOREM PipeInvariant == Spec => []IInv
<1>1. IInv /\ [Next]_vars => IInv'
  <2> SUFFICES ASSUME IInv, [Next]_vars PROVE IInv' OBVIOUS
  <2>1. CASE Next
    BY <2>1, TypeStep, EndsStep, LockerStep, WaitStep, AskedStep DEF IInv
  <2>2. CASE UNCHANGED vars
    BY <2>2 DEF vars, pipe, IInv, TypeOK, NeverOverfull, Count, Ends, OneLocker, ReadersWait,
                WritersWait, Asked
  <2> QED BY <2>1, <2>2
<1> QED BY <1>1, InitHolds, PTL DEF Spec

\* The counters stay within PIPESIZE of each other: pipewrite() never overwrites.
THEOREM RingNeverOverfull == Spec => []NeverOverfull
<1>1. IInv => NeverOverfull BY DEF IInv
<1> QED BY <1>1, PipeInvariant, PTL

\* pipeclose() frees the page when no process has an end open.
THEOREM FreedPipeIsUnused == Spec => []FreedIsUnused
<1>1. IInv => FreedIsUnused BY DEF IInv, Ends, FreedIsUnused, Procs
<1> QED BY <1>1, PipeInvariant, PTL

\* No wakeup of pipe.c is lost, but for the killed writer's.
THEOREM PipeSleepersHaveReason == Spec => []SleepsForAReason
<1>1. IInv => SleepsForAReason
  BY DEF IInv, ReadersWait, WritersWait, Waiting, SleepsForAReason, ReaderSleepsForAReason,
         WriterSleepsForAReason
<1> QED BY <1>1, PipeInvariant, PTL

-----------------------------------------------------------------------------
(* The ring implements the queue *)

\* A new pipe is an empty queue.
LEMMA InitIsEmpty == Init => Stream!Init
<1> SUFFICES ASSUME Init PROVE Stream!Init OBVIOUS
<1>1. Count = 0 BY NewIsEmpty DEF Init
<1>2. Contents = <<>>
  <2>1. Contents = [i \in 1 .. 0 |-> data[(nread + i - 1) % PIPESIZE]] BY <1>1 DEF Contents
  <2> QED BY <2>1
<1> QED BY <1>2 DEF Init, Stream!Init

\* pipewrite() appends; when nothing fits, nothing happens.
LEMMA WriteIsPut ==
  ASSUME IInv, NEW w \in Writers, Write(w)
  PROVE  Stream!Put \/ UNCHANGED <<Contents, writeopen, got>>
<1>1. TypeOK /\ NeverOverfull BY DEF IInv
<1>2. PICK k \in 0 .. Room : k <= Len(todo[w]) /\ Store(todo[w], k) BY WriteEffect
<1>3. todo[w] \in Seq(Vals) BY <1>1 DEF TypeOK
<1>4. UNCHANGED <<nread, writeopen, got>> BY DEF Write
<1>5. Contents' = Contents \o SubSeq(todo[w], 1, k) BY <1>1, <1>2, <1>3, <1>4, StoreAppends
<1>6. Count \in 0 .. PIPESIZE /\ PIPESIZE \in Nat BY <1>1, Counts DEF NeverOverfull
<1>7. Contents \in Seq(Vals) /\ Len(Contents) = Count
  BY <1>1, ContentsIsSeq
<1>8. CASE k = 0
  <2>1. SubSeq(todo[w], 1, k) = <<>> BY <1>8, SubSeqEmpty
  <2> QED BY <1>4, <1>5, <1>7, <2>1, ConcatEmptySeq
<1>9. CASE k # 0
  <2> DEFINE t == SubSeq(todo[w], 1, k)
  <2>1. k \in 1 .. PIPESIZE - Len(Contents) BY <1>2, <1>6, <1>7, <1>9 DEF Room
  <2>2. t \in [1 .. k -> Vals]
    <3>1. \A i \in 1 .. k : todo[w][i] \in Vals BY <1>2, <1>3, <1>6, ElementOfSeq DEF Room
    <3>2. t \in Seq(Vals) /\ Len(t) = k BY <1>6, <2>1, <3>1, SubSeqProperties
    <3> QED BY <3>2, LenProperties
  <2>3. writeopen = TRUE BY <1>1 DEF IInv, Ends, Write, TypeOK
  <2> HIDE DEF t
  <2>4. Contents' = Contents \o t BY <1>5 DEF t
  <2> QED BY <1>4, <2>1, <2>2, <2>3, <2>4 DEF Stream!Put
<1> QED BY <1>8, <1>9

\* piperead() takes the oldest bytes, and none only at the end of the stream.
LEMMA ReadIsGet ==
  ASSUME IInv, NEW r \in Readers, Read(r)
  PROVE  Stream!Get(r)
<1>1. TypeOK /\ NeverOverfull BY DEF IInv
<1>2. PICK k \in 0 .. Count : /\ nread' = (nread + k) % CtrMod
                              /\ got' = [got EXCEPT ![r] = SubSeq(Contents, 1, k)]
                              /\ k = 0 => Count = 0
  BY ReadEffect
<1>3. UNCHANGED <<data, nwrite, writeopen>> BY DEF Read
<1>4. Len(Contents) = Count /\ Contents' = SubSeq(Contents, k + 1, Len(Contents))
  BY <1>1, <1>2, <1>3, ReadTakes
<1>5. ASSUME k = 0 PROVE Contents = <<>> /\ writeopen = FALSE
  <2>1. Count = 0 BY <1>2, <1>5
  <2>2. nread = nwrite BY <1>1, <2>1, Counts
  <2>3. writeopen = FALSE BY <1>1, <2>2 DEF Read, CanRead, TypeOK
  <2>4. Contents = [i \in 1 .. 0 |-> data[(nread + i - 1) % PIPESIZE]] BY <2>1 DEF Contents
  <2> QED BY <2>3, <2>4
<1> QED BY <1>2, <1>3, <1>4, <1>5 DEF Stream!Get

\* The last writer's close() ends the stream.
LEMMA CloseIsClose ==
  ASSUME IInv, NEW p \in Procs, Close(p)
  PROVE  Stream!Close \/ UNCHANGED <<Contents, writeopen, got>>
<1>1. UNCHANGED <<data, nread, nwrite, got>> BY DEF Close
<1>2. UNCHANGED Contents BY <1>1 DEF Contents, Count
<1>3. writeopen' = FALSE \/ UNCHANGED writeopen BY DEF Close, IInv, TypeOK
<1> QED BY <1>1, <1>2, <1>3 DEF Stream!Close

\* A pipe is a bounded queue of bytes: what is read is what was written, in order, once,
\* whatever the interleaving, the kills and the closes, across the wraps of the ring
\* and of the counters.
THEOREM PipeIsByteStream == Spec => IsByteStream
<1>1. IInv /\ [Next]_vars => [Stream!Next]_<<Contents, writeopen, got>>
  <2> SUFFICES ASSUME IInv, [Next]_vars
               PROVE  Stream!Next \/ UNCHANGED <<Contents, writeopen, got>>
    OBVIOUS
  <2>1. ASSUME UNCHANGED <<pipe, got>> PROVE UNCHANGED <<Contents, writeopen, got>>
    BY <2>1 DEF pipe, Contents, Count
  <2>2. CASE UNCHANGED vars BY <2>1, <2>2 DEF vars
  <2>3. CASE Next
    BY <2>1, <2>3, QuietSteps, WriteIsPut, ReadIsGet, CloseIsClose DEF Stream!Next
  <2> QED BY <2>2, <2>3
<1> QED BY <1>1, InitIsEmpty, PipeInvariant, PTL DEF Spec, IsByteStream, Stream!Spec
=============================================================================
