---------------------------- MODULE StoreProofs ----------------------------
(***************************************************************************)
(* The store keeps what it acknowledged.  First what the proofs rest on:   *)
(* the replay of a log that grows or loses its end, the members each       *)
(* operation changes, the inductive invariant, and what open finds.        *)
(* replayable chooses the number of whole records before the first broken  *)
(* one; that there is one follows from the least element of a set of       *)
(* numbers, without an induction over the log.                             *)
(*                                                                         *)
(* Then every step keeps the invariant, the safety properties follow from  *)
(* it, and so does the refinement of DurableLog.  All of it is said of     *)
(* stores in which no process checkpoints after one of its appends failed  *)
(* (~CheckpointTorn): such a checkpoint records a position inside a torn   *)
(* log.                                                                    *)
(***************************************************************************)
EXTENDS Store, TLAPS, SequenceTheorems, WellFoundedInduction

-----------------------------------------------------------------------------
(* Least and largest numbers, in place of an induction.                    *)

\* A non-empty set of natural numbers has a least element.
LEMMA Least ==
  ASSUME NEW T \in SUBSET Nat, T # {}
  PROVE  \E x \in T : \A y \in T : x <= y
<1> DEFINE R == OpToRel(<, Nat)
<1>1. IsWellFoundedOn(R, Nat)
  BY NatLessThanWellFounded, Zenon
<1>2. \A y, x \in Nat : <<y, x>> \in R <=> y < x
  BY DEF OpToRel
<1> HIDE DEF R
<1>3. PICK x \in T : \A y \in T : <<y, x>> \notin R
  BY <1>1, WFMin, Zenon
<1>4. \A y \in T : ~(y < x)
  BY <1>2, <1>3, Zenon
<1> QED
  BY <1>4

\* One that is bounded has a largest, which Max finds.
LEMMA Largest ==
  ASSUME NEW T \in SUBSET Nat, T # {}, NEW b \in Nat, \A x \in T : x <= b
  PROVE  Max(T) \in T /\ \A y \in T : Max(T) >= y
<1> DEFINE U == {i \in Nat : b - i \in T}
<1>1. U # {}
  <2>1. PICK x \in T : TRUE
    OBVIOUS
  <2>2. b - x \in Nat /\ b - (b - x) = x
    BY <2>1
  <2>3. b - x \in U
    BY <2>1, <2>2
  <2> QED
    BY <2>3
<1>2. PICK i \in U : \A j \in U : i <= j
  BY <1>1, Least, Zenon
<1>3. b - i \in T /\ \A y \in T : b - i >= y
  <2>1. \A y \in T : b - y \in U
    OBVIOUS
  <2> QED
    BY <1>2, <2>1
<1> QED
  BY <1>3, Zenon DEF Max

-----------------------------------------------------------------------------
(* The records of a log.                                                   *)

Cell == [part : {"head", "body"}, of : Record]

\* The first k records of the log, read without looking at their frames.
log(wal, k) == [i \in 1..k |-> wal[2 * i].of]

\* The log starts with k whole records, and another one does not follow.
Replays(wal, k) ==
  /\ k \in Nat /\ 2 * k <= Len(wal)
  /\ \A i \in 0..(k - 1) : record_at(wal, 2 * i)
  /\ ~record_at(wal, 2 * k)

\* A record is recognised by the cells it consists of.
LEMMA SameRecord ==
  ASSUME NEW wal \in Seq(Cell), NEW w \in Seq(Cell), NEW p \in Nat,
         p + 2 <= Len(wal), p + 2 <= Len(w),
         w[p + 1] = wal[p + 1], w[p + 2] = wal[p + 2]
  PROVE  record_at(w, p) <=> record_at(wal, p)
BY DEF record_at

\* Every log replays some number of records.
LEMMA SomeReplay ==
  ASSUME NEW wal \in Seq(Cell)
  PROVE  \E k \in Nat : Replays(wal, k)
<1> DEFINE T == {k \in Nat : ~record_at(wal, 2 * k)}
<1>1. Len(wal) \in T
  BY LenProperties DEF record_at
<1>2. PICK k \in T : \A j \in T : k <= j
  BY <1>1, Least, Zenon
<1>3. \A i \in 0..(k - 1) : record_at(wal, 2 * i)
  <2> SUFFICES ASSUME NEW i \in 0..(k - 1), ~record_at(wal, 2 * i) PROVE FALSE
    OBVIOUS
  <2>1. i \in T
    OBVIOUS
  <2> QED
    BY <1>2, <2>1
<1>4. 2 * k <= Len(wal)
  <2>1. CASE k = 0
    BY <2>1, LenProperties
  <2>2. CASE k # 0
    <3>1. k - 1 \in 0..(k - 1) /\ 2 * (k - 1) + 2 = 2 * k
      BY <2>2
    <3>2. record_at(wal, 2 * (k - 1))
      BY <1>3, <3>1
    <3>3. 2 * (k - 1) + 2 <= Len(wal)
      BY <3>2, Zenon DEF record_at
    <3> QED
      BY <3>1, <3>3
  <2> QED
    BY <2>1, <2>2
<1> QED
  BY <1>2, <1>3, <1>4, Zenon DEF Replays

\* replayable counts the whole records after a position that m of them precede.
LEMMA ReplayCount ==
  ASSUME NEW wal \in Seq(Cell), NEW k, Replays(wal, k), NEW m \in 0..k
  PROVE  replayable(wal, 2 * m) = k - m
<1> DEFINE P(j) == /\ ~record_at(wal, 2 * m + 2 * j)
                   /\ \A i \in 0..(j - 1) : record_at(wal, 2 * m + 2 * i)
           bound == (Len(wal) - 2 * m) \div 2
<1>1. /\ k \in Nat /\ 2 * k <= Len(wal) /\ Len(wal) \in Nat
      /\ \A i \in 0..(k - 1) : record_at(wal, 2 * i)
      /\ ~record_at(wal, 2 * k)
  BY LenProperties DEF Replays
<1>2. k - m \in 0..bound
  BY <1>1
<1>3. P(k - m)
  <2>1. 2 * m + 2 * (k - m) = 2 * k
    BY <1>1
  <2>2. ASSUME NEW i \in 0..((k - m) - 1) PROVE record_at(wal, 2 * m + 2 * i)
    <3>1. m + i \in 0..(k - 1) /\ 2 * (m + i) = 2 * m + 2 * i
      BY <1>1
    <3> QED
      BY <1>1, <3>1
  <2> QED
    BY <1>1, <2>1, <2>2
<1>4. ASSUME NEW j \in 0..bound, P(j) PROVE j = k - m
  <2>1. CASE j < k - m
    <3>1. j \in 0..((k - m) - 1)
      BY <1>1, <2>1
    <3> QED
      BY <1>3, <1>4, <3>1
  <2>2. CASE j > k - m
    <3>1. k - m \in 0..(j - 1)
      BY <1>1, <2>2
    <3> QED
      BY <1>3, <1>4, <3>1
  <2> QED
    BY <1>1, <2>1, <2>2
<1>5. replayable(wal, 2 * m) = CHOOSE j \in 0..bound : P(j)
  BY DEF replayable
<1> HIDE DEF P, bound
<1> QED
  BY <1>2, <1>3, <1>4, <1>5

\* replayable counts exactly the records a replay of the whole log finds.
LEMMA ReplayAll ==
  ASSUME NEW wal \in Seq(Cell)
  PROVE  /\ Replays(wal, replayable(wal, 0))
         /\ \A k : Replays(wal, k) => k = replayable(wal, 0)
<1>1. ASSUME NEW k, Replays(wal, k) PROVE k = replayable(wal, 0)
  <2>1. k \in Nat
    BY <1>1 DEF Replays
  <2>2. 0 \in 0..k /\ 2 * 0 = 0 /\ k - 0 = k
    BY <2>1
  <2>3. replayable(wal, 2 * 0) = k - 0
    BY <1>1, <2>2, ReplayCount, Zenon
  <2> QED
    BY <2>2, <2>3
<1> QED
  BY <1>1, SomeReplay, Zenon

\* What reads the log after a checkpoint of its first m records completes
\* them to the whole log.
LEMMA CheckpointAndRest ==
  ASSUME NEW wal \in Seq(Cell), NEW k, Replays(wal, k), NEW m \in 0..k
  PROVE  log(wal, m) \o records_from(wal, 2 * m) = log(wal, k)
<1> DEFINE s == log(wal, m)
           t == records_from(wal, 2 * m)
<1>1. k \in Nat /\ 2 * k <= Len(wal)
  BY DEF Replays
<1>2. t = [i \in 1..(k - m) |-> wal[2 * m + 2 * i].of]
  BY ReplayCount DEF records_from
<1>3. \A i \in 1..k : wal[2 * i] \in Cell /\ wal[2 * i].of \in Record
  <2> SUFFICES ASSUME NEW i \in 1..k PROVE wal[2 * i] \in Cell
    BY DEF Cell
  <2>1. 2 * i \in 1..Len(wal)
    BY <1>1, LenProperties
  <2> QED
    BY <2>1, ElementOfSeq
<1>4. s \in Seq(Record) /\ Len(s) = m /\ \A i \in 1..m : s[i] = wal[2 * i].of
  <2>1. \A i \in 1..m : i \in 1..k
    BY <1>1
  <2> QED
    BY <1>1, <1>3, <2>1 DEF log
<1>5. t \in Seq(Record) /\ Len(t) = k - m
  <2>1. \A i \in 1..(k - m) : m + i \in 1..k /\ 2 * (m + i) = 2 * m + 2 * i
    BY <1>1
  <2>2. \A i \in 1..(k - m) : wal[2 * m + 2 * i].of \in Record
    <3> TAKE i \in 1..(k - m)
    <3> QED
      BY <1>3, <2>1
  <2>3. k - m \in Nat
    BY <1>1
  <2> QED
    BY <1>2, <2>2, <2>3
<1>6. log(wal, k) \in Seq(Record) /\ Len(log(wal, k)) = k
  BY <1>1, <1>3 DEF log
<1>7. /\ s \o t \in Seq(Record) /\ Len(s \o t) = k
      /\ \A i \in 1..k : (s \o t)[i] = IF i <= m THEN s[i] ELSE t[i - m]
  <2> HIDE DEF s, t
  <2>1. Len(s) + Len(t) = k
    BY <1>1, <1>4, <1>5
  <2> QED
    BY <1>4, <1>5, <2>1, ConcatProperties
<1>8. \A i \in 1..k : (s \o t)[i] = log(wal, k)[i]
  <2> TAKE i \in 1..k
  <2>1. log(wal, k)[i] = wal[2 * i].of
    BY DEF log
  <2>2. CASE i <= m
    <3>1. i \in 1..m
      BY <2>2
    <3> HIDE DEF s, t
    <3> QED
      BY <1>4, <1>7, <2>1, <2>2, <3>1
  <2>3. CASE ~(i <= m)
    <3>1. i - m \in 1..(k - m) /\ 2 * m + 2 * (i - m) = 2 * i
      BY <1>1, <2>3
    <3>2. t[i - m] = wal[2 * i].of
      BY <1>2, <3>1
    <3> HIDE DEF s, t
    <3> QED
      BY <1>7, <2>1, <2>3, <3>2
  <2> QED
    BY <2>2, <2>3
<1> DEFINE u == s \o t
           v == log(wal, k)
<1>9. /\ u \in Seq(Record) /\ v \in Seq(Record) /\ Len(u) = Len(v)
      /\ \A i \in 1..Len(u) : u[i] = v[i]
  <2> HIDE DEF s, t
  <2> QED
    BY <1>6, <1>7, <1>8
<1> HIDE DEF u, v
<1>10. u = v
  BY <1>9, SeqEqual
<1> QED
  BY <1>10 DEF u, v

\* The log with the first `left` cells of a record behind it, and the log
\* cut to its first n cells.
longer(wal, r, left) == wal \o SubSeq(cells(r), 1, left)
cut(wal, n) == SubSeq(wal, 1, n)

\* Those cells are a whole record, behind a log of k whole records.
completes(wal, k, left) == left = 2 /\ Len(wal) = 2 * k

\* w is the log followed by those cells, seen cell by cell.
Follows(w, wal, r, left) ==
  /\ w \in Seq(Cell) /\ Len(w) = Len(wal) + left
  /\ \A i \in 1..Len(wal) : w[i] = wal[i]
  /\ left >= 1 => w[Len(wal) + 1] = [part |-> "head", of |-> r]
  /\ left = 2  => w[Len(wal) + 2] = [part |-> "body", of |-> r]

\* A longer log is the old one followed by those cells.
LEMMA LogGrows ==
  ASSUME NEW wal \in Seq(Cell), NEW r \in Record, NEW left \in 0..2
  PROVE  Follows(longer(wal, r, left), wal, r, left)
<1> DEFINE c == cells(r)
           d == SubSeq(c, 1, left)
           h == [part |-> "head", of |-> r]
           b == [part |-> "body", of |-> r]
<1>1. h \in Cell /\ b \in Cell
  BY DEF Cell
<1>2. c = <<h, b>>
  BY DEF cells
<1> HIDE DEF h, b, c
<1>3. c \in Seq(Cell) /\ Len(c) = 2 /\ c[1] = h /\ c[2] = b
  BY <1>1, <1>2
<1>4. d \in Seq(Cell) /\ Len(d) = left /\ \A i \in 1..left : d[i] = c[i]
  <2>1. 1 \in Int /\ left \in Int /\ \A i \in 1..left : c[i] \in Cell
    BY <1>1, <1>3
  <2>2. /\ d \in Seq(Cell) /\ Len(d) = (IF 1 <= left THEN left - 1 + 1 ELSE 0)
        /\ \A i \in 1..(left - 1 + 1) : d[i] = c[1 + i - 1]
    BY <2>1, SubSeqProperties
  <2> HIDE DEF d
  <2> QED
    BY <2>2
<1> HIDE DEF d
<1>5. /\ wal \o d \in Seq(Cell) /\ Len(wal \o d) = Len(wal) + Len(d)
      /\ \A i \in 1..(Len(wal) + Len(d)) :
           (wal \o d)[i] = IF i <= Len(wal) THEN wal[i] ELSE d[i - Len(wal)]
  BY <1>4, ConcatProperties
<1>6. Len(wal) \in Nat
  BY LenProperties
<1>7. ASSUME left >= 1 PROVE (wal \o d)[Len(wal) + 1] = h
  BY <1>3, <1>4, <1>5, <1>6, <1>7
<1>8. ASSUME left = 2 PROVE (wal \o d)[Len(wal) + 2] = b
  BY <1>3, <1>4, <1>5, <1>6, <1>8
<1>9. \A i \in 1..Len(wal) : (wal \o d)[i] = wal[i]
  BY <1>4, <1>5, <1>6
<1> QED
  BY <1>4, <1>5, <1>7, <1>8, <1>9 DEF d, c, h, b, longer, Follows

\* What a record behind the log adds to the replay: itself, when it is whole
\* and the log ends with a whole record, and nothing otherwise.
LEMMA ReplayGrows ==
  ASSUME NEW wal \in Seq(Cell), NEW k, Replays(wal, k), NEW r \in Record, NEW left \in 0..2
  PROVE  LET w == longer(wal, r, left) IN
         /\ \A i \in 1..k : w[2 * i] = wal[2 * i]
         /\ completes(wal, k, left) => Replays(w, k + 1) /\ w[2 * (k + 1)].of = r
         /\ ~completes(wal, k, left) => Replays(w, k)
<1> DEFINE w == longer(wal, r, left)
<1>0. Follows(w, wal, r, left)
  BY LogGrows
<1> HIDE DEF w
<1>1. /\ w \in Seq(Cell) /\ Len(w) = Len(wal) + left /\ Len(wal) \in Nat
      /\ \A i \in 1..Len(wal) : w[i] = wal[i]
      /\ left >= 1 => w[Len(wal) + 1] = [part |-> "head", of |-> r]
      /\ left = 2  => w[Len(wal) + 2] = [part |-> "body", of |-> r]
  BY <1>0, LenProperties, Zenon DEF Follows
<1>2. /\ k \in Nat /\ 2 * k <= Len(wal)
      /\ \A i \in 0..(k - 1) : record_at(wal, 2 * i)
      /\ ~record_at(wal, 2 * k)
  BY DEF Replays
<1>3. \A i \in 0..(k - 1) : record_at(w, 2 * i)
  <2> TAKE i \in 0..(k - 1)
  <2>0. k \in Nat /\ 2 * k <= Len(wal) /\ Len(wal) \in Nat /\ Len(w) = Len(wal) + left
    BY <1>1, <1>2, Zenon
  <2>1. /\ 2 * i \in Nat /\ 2 * i + 2 <= Len(wal) /\ 2 * i + 2 <= Len(w)
        /\ 2 * i + 1 \in 1..Len(wal) /\ 2 * i + 2 \in 1..Len(wal)
    BY <2>0
  <2>2. w[2 * i + 1] = wal[2 * i + 1] /\ w[2 * i + 2] = wal[2 * i + 2]
    BY <1>1, <2>1, Zenon
  <2> QED
    BY <1>1, <1>2, <2>1, <2>2, SameRecord
<1>4. \A i \in 1..k : w[2 * i] = wal[2 * i]
  <2> TAKE i \in 1..k
  <2>1. 2 * i \in 1..Len(wal)
    BY <1>1, <1>2
  <2> QED
    BY <1>1, <2>1, Zenon
<1>5. CASE left = 2 /\ Len(wal) = 2 * k
  <2>1. record_at(w, 2 * k) /\ w[2 * k + 2].of = r
    BY <1>1, <1>2, <1>5 DEF record_at
  <2>2. ~record_at(w, 2 * (k + 1))
    BY <1>1, <1>2, <1>5 DEF record_at
  <2>3. \A i \in 0..k : record_at(w, 2 * i)
    <3> TAKE i \in 0..k
    <3>1. CASE i = k
      BY <2>1, <3>1
    <3>2. CASE i # k
      BY <1>2, <1>3, <3>2
    <3> QED
      BY <3>1, <3>2
  <2>4. /\ k + 1 \in Nat /\ 2 * (k + 1) <= Len(w) /\ (k + 1) - 1 = k
        /\ 2 * (k + 1) = 2 * k + 2
    BY <1>1, <1>2, <1>5
  <2>5. Replays(w, k + 1)
    BY <2>2, <2>3, <2>4 DEF Replays
  <2>6. w[2 * (k + 1)].of = r
    BY <2>1, <2>4
  <2> QED
    BY <1>4, <1>5, <2>5, <2>6, Zenon DEF w, completes
<1>6. CASE ~(left = 2 /\ Len(wal) = 2 * k)
  <2>2. ~record_at(w, 2 * k)
    <3>1. CASE 2 * k + 2 <= Len(wal)
      <4>1. /\ 2 * k \in Nat /\ 2 * k + 2 <= Len(w)
            /\ 2 * k + 1 \in 1..Len(wal) /\ 2 * k + 2 \in 1..Len(wal)
        BY <1>1, <1>2, <3>1
      <4>2. w[2 * k + 1] = wal[2 * k + 1] /\ w[2 * k + 2] = wal[2 * k + 2]
        BY <1>1, <4>1, Zenon
      <4> QED
        BY <1>1, <1>2, <3>1, <4>1, <4>2, SameRecord
    <3>2. CASE 2 * k + 2 > Len(w)
      BY <1>1, <1>2, <3>2 DEF record_at
    <3>3. CASE 2 * k + 2 > Len(wal) /\ 2 * k + 2 <= Len(w)
      <4>1. Len(wal) = 2 * k + 1 /\ left >= 1
        BY <1>1, <1>2, <1>6, <3>3
      <4>2. w[2 * k + 2] = [part |-> "head", of |-> r]
        BY <1>1, <1>2, <4>1
      <4>3. w[2 * k + 2].part # "body"
        BY <4>2
      <4> QED
        BY <4>3 DEF record_at
    <3> QED
      BY <1>1, <1>2, <3>1, <3>2, <3>3
  <2>3. Replays(w, k)
    BY <1>1, <1>2, <1>3, <2>2 DEF Replays
  <2> QED
    BY <1>4, <1>6, <2>3, Zenon DEF w, completes
<1> QED
  BY <1>5, <1>6

\* What is left to replay when the end of the log is lost.
LEMMA ReplayCut ==
  ASSUME NEW wal \in Seq(Cell), NEW k, Replays(wal, k), NEW n \in 0..Len(wal)
  PROVE  LET w == SubSeq(wal, 1, n)
             j == IF 2 * k <= n THEN k ELSE n \div 2
         IN  /\ w \in Seq(Cell) /\ Len(w) = n /\ Replays(w, j)
             /\ \A i \in 1..n : w[i] = wal[i]
<1> DEFINE w == SubSeq(wal, 1, n)
           j == IF 2 * k <= n THEN k ELSE n \div 2
<1>1. /\ w \in Seq(Cell) /\ Len(w) = n /\ \A i \in 1..n : w[i] = wal[i]
      /\ Len(wal) \in Nat
  BY SubSeqProperties, LenProperties
<1> HIDE DEF w
<1>2. /\ k \in Nat /\ 2 * k <= Len(wal)
      /\ \A i \in 0..(k - 1) : record_at(wal, 2 * i)
      /\ ~record_at(wal, 2 * k)
  BY DEF Replays
<1>3. j \in Nat /\ j <= k /\ 2 * j <= n
  BY <1>1, <1>2
<1>4. j = k \/ 2 * j + 2 > n
  BY <1>1, <1>2
<1> HIDE DEF j
<1>5. ASSUME NEW p \in Nat, p + 2 <= n
      PROVE  record_at(w, p) <=> record_at(wal, p)
  <2>1. p + 1 \in 1..n /\ p + 2 \in 1..n /\ p + 2 <= Len(w) /\ p + 2 <= Len(wal)
    BY <1>1, <1>5
  <2> QED
    BY <1>1, <2>1, SameRecord
<1>6. \A i \in 0..(j - 1) : record_at(w, 2 * i)
  <2> TAKE i \in 0..(j - 1)
  <2>1. 2 * i \in Nat /\ 2 * i + 2 <= n /\ i \in 0..(k - 1)
    BY <1>2, <1>3
  <2> QED
    BY <1>2, <1>5, <2>1
<1>7. ~record_at(w, 2 * j)
  <2>1. CASE 2 * j + 2 > n
    BY <1>1, <1>3, <2>1 DEF record_at
  <2>2. CASE ~(2 * j + 2 > n)
    <3>1. j = k /\ 2 * j \in Nat /\ 2 * j + 2 <= n
      BY <1>2, <1>3, <1>4, <2>2
    <3> QED
      BY <1>2, <1>5, <3>1
  <2> QED
    BY <2>1, <2>2
<1>8. Replays(w, j)
  BY <1>1, <1>3, <1>6, <1>7 DEF Replays
<1> QED
  BY <1>1, <1>8 DEF w, j

-----------------------------------------------------------------------------
(* Histories that the log holds.                                           *)

\* The log starts with the records of s, and a crash leaves them there.
OnDisk(wal, synced, s) ==
  /\ s \in Seq(Record) /\ s = log(wal, Len(s))
  /\ Len(s) <= replayable(wal, 0) /\ 2 * Len(s) <= synced

\* Two logs that agree on their first k records.
LEMMA SameLog ==
  ASSUME NEW wal, NEW w, NEW k \in Nat, \A i \in 1..k : w[2 * i] = wal[2 * i]
  PROVE  log(w, k) = log(wal, k)
BY DEF log

\* The records of a log are records.
LEMMA LogTyped ==
  ASSUME NEW wal \in Seq(Cell), NEW k \in Nat, 2 * k <= Len(wal)
  PROVE  /\ log(wal, k) \in Seq(Record) /\ Len(log(wal, k)) = k
         /\ \A i \in 1..k : log(wal, k)[i] = wal[2 * i].of /\ wal[2 * i] \in Cell
<1>1. \A i \in 1..k : wal[2 * i] \in Cell /\ wal[2 * i].of \in Record
  <2> SUFFICES ASSUME NEW i \in 1..k PROVE wal[2 * i] \in Cell
    BY DEF Cell
  <2>1. 2 * i \in 1..Len(wal)
    BY LenProperties
  <2> QED
    BY <2>1, ElementOfSeq
<1> QED
  BY <1>1 DEF log

\* A history on disk stays there when cells are added behind it.
LEMMA OnDiskGrows ==
  ASSUME NEW wal \in Seq(Cell), NEW r \in Record, NEW left \in 0..2,
         NEW synced \in Nat, NEW s, OnDisk(wal, synced, s),
         NEW later \in Nat, synced <= later
  PROVE  OnDisk(longer(wal, r, left), later, s)
<1> DEFINE w == longer(wal, r, left)
           k == replayable(wal, 0)
           n == Len(s)
<1>1. Replays(wal, k) /\ k \in Nat
  BY ReplayAll DEF Replays
<1> HIDE DEF k
<1>2. /\ \A i \in 1..k : w[2 * i] = wal[2 * i]
      /\ completes(wal, k, left) => Replays(w, k + 1) /\ w[2 * (k + 1)].of = r
      /\ ~completes(wal, k, left) => Replays(w, k)
  BY <1>1, ReplayGrows, Zenon
<1>3. w \in Seq(Cell)
  BY LogGrows, Zenon DEF Follows
<1> HIDE DEF w
<1>4. replayable(w, 0) \in {k, k + 1}
  BY <1>2, <1>3, ReplayAll, Zenon
<1>5. s \in Seq(Record) /\ s = log(wal, n) /\ n \in Nat /\ n <= k /\ 2 * n <= synced
  BY LenProperties DEF OnDisk, k
<1> HIDE DEF n
<1>6. \A i \in 1..n : w[2 * i] = wal[2 * i]
  BY <1>1, <1>2, <1>5
<1>7. s = log(w, n)
  BY <1>5, <1>6, SameLog
<1>8. n <= replayable(w, 0) /\ 2 * n <= later
  BY <1>1, <1>4, <1>5
<1> QED
  BY <1>5, <1>7, <1>8 DEF OnDisk, w, n

\* It stays there when the log is cut behind it.
LEMMA OnDiskCut ==
  ASSUME NEW wal \in Seq(Cell), NEW synced \in Nat, NEW s, OnDisk(wal, synced, s),
         NEW n \in 0..Len(wal), 2 * Len(s) <= n
  PROVE  OnDisk(SubSeq(wal, 1, n), n, s)
<1> DEFINE w == SubSeq(wal, 1, n)
           k == replayable(wal, 0)
           j == IF 2 * k <= n THEN k ELSE n \div 2
           l == Len(s)
<1>1. Replays(wal, k) /\ k \in Nat
  BY ReplayAll DEF Replays
<1>2. Len(wal) \in Nat
  BY LenProperties
<1> HIDE DEF k
<1>3. w \in Seq(Cell) /\ Len(w) = n /\ Replays(w, j) /\ \A i \in 1..n : w[i] = wal[i]
  BY <1>1, ReplayCut
<1> HIDE DEF w
<1>4. s \in Seq(Record) /\ s = log(wal, l) /\ l \in Nat /\ l <= k /\ 2 * l <= n
  BY LenProperties DEF OnDisk, k
<1> HIDE DEF l
<1>5. l <= j
  BY <1>1, <1>2, <1>4
<1> HIDE DEF j
<1>6. j = replayable(w, 0)
  BY <1>3, ReplayAll
<1>7. \A i \in 1..l : w[2 * i] = wal[2 * i]
  <2> TAKE i \in 1..l
  <2>1. 2 * i \in 1..n
    BY <1>2, <1>4
  <2> QED
    BY <1>3, <2>1, Zenon
<1>8. s = log(w, l)
  BY <1>4, <1>7, SameLog
<1> QED
  BY <1>4, <1>5, <1>6, <1>8 DEF OnDisk, w, l

\* Everything replayed is on disk once the log is cut there and flushed.
LEMMA OnDiskAll ==
  ASSUME NEW wal \in Seq(Cell)
  PROVE  LET k == replayable(wal, 0)
             w == SubSeq(wal, 1, 2 * k)
         IN  /\ k \in Nat /\ 2 * k <= Len(wal) /\ Len(wal) \in Nat
             /\ w \in Seq(Cell) /\ Len(w) = 2 * k /\ replayable(w, 0) = k
             /\ OnDisk(w, 2 * k, log(wal, k)) /\ Len(log(wal, k)) = k
             /\ \A i \in 1..(2 * k) : w[i] = wal[i]
<1> DEFINE k == replayable(wal, 0)
           w == SubSeq(wal, 1, 2 * k)
<1>1. Replays(wal, k) /\ k \in Nat /\ 2 * k <= Len(wal) /\ Len(wal) \in Nat
  BY ReplayAll, LenProperties DEF Replays
<1>2. /\ log(wal, k) \in Seq(Record) /\ Len(log(wal, k)) = k
  BY <1>1, LogTyped
<1>3. OnDisk(wal, 2 * k, log(wal, k))
  BY <1>1, <1>2 DEF OnDisk
<1>4. 2 * k \in 0..Len(wal) /\ 2 * k \in Nat
  BY <1>1
<1>5. OnDisk(w, 2 * k, log(wal, k))
  BY <1>2, <1>3, <1>4, OnDiskCut
<1>6. w \in Seq(Cell) /\ Len(w) = 2 * k /\ Replays(w, k) /\ \A i \in 1..(2 * k) : w[i] = wal[i]
  <2>1. (IF 2 * k <= 2 * k THEN k ELSE (2 * k) \div 2) = k
    BY <1>1
  <2> HIDE DEF k
  <2> QED
    BY <1>1, <1>4, <2>1, ReplayCut
<1>7. replayable(w, 0) = k
  BY <1>6, ReplayAll, Zenon
<1> QED
  BY <1>1, <1>2, <1>5, <1>6, <1>7

\* The lemmas on a longer log together.
LEMMA Longer ==
  ASSUME NEW wal \in Seq(Cell), NEW k, Replays(wal, k), NEW r \in Record, NEW left \in 0..2,
         NEW w, w = longer(wal, r, left)
  PROVE  /\ w \in Seq(Cell) /\ Len(w) = Len(wal) + left
         /\ \A i \in 1..k : w[2 * i] = wal[2 * i]
         /\ left = 2 /\ Len(wal) = 2 * k => replayable(w, 0) = k + 1 /\ w[2 * (k + 1)].of = r
         /\ ~(left = 2 /\ Len(wal) = 2 * k) => replayable(w, 0) = k
         /\ \A synced, later \in Nat : \A s :
              OnDisk(wal, synced, s) /\ synced <= later => OnDisk(w, later, s)
<1> DEFINE v == longer(wal, r, left)
<1>1. v \in Seq(Cell) /\ Len(v) = Len(wal) + left
  BY LogGrows, Zenon DEF Follows
<1>2. /\ \A i \in 1..k : v[2 * i] = wal[2 * i]
      /\ completes(wal, k, left) => Replays(v, k + 1) /\ v[2 * (k + 1)].of = r
      /\ ~completes(wal, k, left) => Replays(v, k)
  BY ReplayGrows, Zenon
<1>3. \A synced, later \in Nat : \A s :
        OnDisk(wal, synced, s) /\ synced <= later => OnDisk(v, later, s)
  BY OnDiskGrows, Zenon
<1>4. v = w
  OBVIOUS
<1> HIDE DEF v
<1>5. \A i : Replays(v, i) => replayable(v, 0) = i
  BY <1>1, ReplayAll, Zenon
<1>6. /\ completes(wal, k, left) => replayable(v, 0) = k + 1 /\ v[2 * (k + 1)].of = r
      /\ ~completes(wal, k, left) => replayable(v, 0) = k
  BY <1>2, <1>5, Zenon
<1> QED
  BY <1>1, <1>2, <1>3, <1>4, <1>6 DEF completes

-----------------------------------------------------------------------------
(* The members of the store, and what each operation does to them.         *)

Members ==
  {"wal", "wal_exists", "synced", "checkpoint_file", "meta", "log_bytes", "appends",
   "incarnation_counter", "checkpoint_length", "checkpoint", "records", "fresh", "clean"}
Shape(s) == DOMAIN s = Members

\* append writes the record behind the log and syncs it.
LEMMA AppendMembers ==
  ASSUME NEW s, Shape(s), NEW r
  PROVE  LET t == append(s, r) IN
         /\ Shape(t) /\ t.wal = s.wal \o cells(r) /\ t.synced = Len(t.wal)
         /\ t.log_bytes = s.log_bytes + 2
         /\ t.checkpoint_file = s.checkpoint_file /\ t.meta = s.meta
         /\ t.incarnation_counter = s.incarnation_counter
<1>1. Len(cells(r)) = 2
  BY DEF cells
<1> QED
  BY <1>1 DEF append, Shape, Members

\* next_incarnation advances the counter and persists it in the manifest.
LEMMA IncarnationMembers ==
  ASSUME NEW s, Shape(s)
  PROVE  LET t == next_incarnation(s) IN
         /\ Shape(t) /\ t.wal = s.wal /\ t.synced = s.synced /\ t.log_bytes = s.log_bytes
         /\ t.checkpoint_file = s.checkpoint_file
         /\ t.incarnation_counter = s.incarnation_counter + 1
         /\ t.meta.present = TRUE /\ t.meta.clean_shutdown = FALSE
         /\ t.meta.incarnation_counter = s.incarnation_counter + 1
BY DEF next_incarnation, persist_meta, Shape, Members

\* mark_clean_shutdown syncs the log and persists the manifest.
LEMMA CloseMembers ==
  ASSUME NEW s, Shape(s)
  PROVE  LET t == mark_clean_shutdown(s) IN
         /\ Shape(t) /\ t.wal = s.wal /\ t.synced = Len(s.wal) /\ t.log_bytes = s.log_bytes
         /\ t.checkpoint_file = s.checkpoint_file
         /\ t.incarnation_counter = s.incarnation_counter
         /\ t.meta.present = TRUE
         /\ t.meta.incarnation_counter = s.incarnation_counter
BY DEF mark_clean_shutdown, persist_meta, Shape, Members

\* The first half of a checkpoint takes the current one out of its place.
LEMMA RotateMembers ==
  ASSUME NEW s, Shape(s)
  PROVE  LET t == rotate_checkpoint(s) IN
         /\ Shape(t) /\ t.wal = s.wal /\ t.synced = s.synced /\ t.log_bytes = s.log_bytes
         /\ t.meta = s.meta /\ t.incarnation_counter = s.incarnation_counter
         /\ t.checkpoint_file.present = FALSE
BY DEF rotate_checkpoint, absent, Shape, Members

\* The second half puts the new one there, with the length of the log.
LEMMA PlaceMembers ==
  ASSUME NEW s, NEW content, NEW t, Shape(s), t = place_checkpoint(s, content)
  PROVE  /\ Shape(t) /\ t.wal = s.wal /\ t.synced = s.synced /\ t.log_bytes = s.log_bytes
         /\ t.meta = s.meta /\ t.incarnation_counter = s.incarnation_counter
         /\ t.checkpoint_file.wal_offset = s.log_bytes
         /\ t.checkpoint_file.content = content
BY DEF place_checkpoint, Shape, Members

\* The last step of a checkpoint persists the manifest.
LEMMA PublishMembers ==
  ASSUME NEW s, Shape(s)
  PROVE  LET t == publish_checkpoint(s) IN
         /\ Shape(t) /\ t.wal = s.wal /\ t.synced = s.synced /\ t.log_bytes = s.log_bytes
         /\ t.checkpoint_file = s.checkpoint_file
         /\ t.incarnation_counter = s.incarnation_counter
         /\ t.meta.present = TRUE /\ t.meta.clean_shutdown = FALSE
         /\ t.meta.incarnation_counter = s.incarnation_counter
BY DEF publish_checkpoint, persist_meta, Shape, Members

\* A crash keeps the synced cells and perhaps some of the others.
LEMMA CrashMembers ==
  ASSUME NEW s, NEW kept, NEW t, Shape(s), t = crash(s, kept)
  PROVE  /\ Shape(t) /\ t.wal = cut(s.wal, kept) /\ t.synced = kept
         /\ t.checkpoint_file = s.checkpoint_file /\ t.meta = s.meta
         /\ t.incarnation_counter = s.incarnation_counter
BY DEF crash, cut, Shape, Members

-----------------------------------------------------------------------------
(* The inductive invariant.                                                *)

replays == replayable(st.wal, 0)

\* The log holds every record up to the checkpoint, everything a process
\* held before an append of its own failed and, while none failed, all it
\* holds; nothing else is in the log of a living process.
Recoverable ==
  /\ Shape(st) /\ st.wal \in Seq(Cell) /\ failed \in BOOLEAN
  /\ st.synced \in 0..Len(st.wal)
  /\ st.checkpoint_file.present =>
       /\ OnDisk(st.wal, st.synced, st.checkpoint_file.content)
       /\ st.checkpoint_file.wal_offset = 2 * Len(st.checkpoint_file.content)
  /\ accepted \in Seq(Record) /\ OnDisk(st.wal, st.synced, sound)
  /\ ~failed => OnDisk(st.wal, st.synced, accepted) /\ replays <= Len(accepted) + 1
  /\ ~failed /\ pc # "down" => /\ Len(st.wal) = 2 * Len(accepted)
                               /\ st.synced = Len(st.wal) /\ st.log_bytes = Len(st.wal)
  /\ pc # "down" => st.log_bytes \in 0..st.synced

\* The phases a process passes through with a torn log, and with the
\* manifest saying that the last one closed the store.
Closed ==
  /\ pc \in Phases
  /\ pc \in {"rotated", "placed"} => ~failed
  /\ st.meta.clean_shutdown => /\ pc \in {"down", "opened", "closed"}
                               /\ ~failed => replays = Len(accepted)

\* The incarnations in use do not pass the number of processes that took one.
taken == IF pc = "opened" THEN opens - 1 ELSE opens
Numbered ==
  /\ opens \in 0..MaxOpens /\ taken \in Nat /\ issued \in 0..taken
  /\ st.meta.incarnation_counter \in issued..taken
  /\ issued > 0 => st.meta.present
  /\ st.incarnation_counter \in issued..taken
  /\ \A i \in 1..Len(st.wal) : st.wal[i].of.incarnation <= taken

IInv == Recoverable /\ Closed /\ Numbered

\* A recovery rebuilds the records of the log, whether or not it starts from
\* the checkpoint.
LEMMA View ==
  ASSUME Recoverable
  PROVE  /\ replays \in Nat /\ 2 * replays <= Len(st.wal) /\ Len(st.wal) \in Nat
         /\ recovery_view = log(st.wal, replays)
         /\ recovery_view \in Seq(Record) /\ Len(recovery_view) = replays
<1> DEFINE k == replays
           c == st.checkpoint_file.content
<1>1. st.wal \in Seq(Cell)
  BY DEF Recoverable
<1>2. Replays(st.wal, k) /\ k \in Nat /\ 2 * k <= Len(st.wal) /\ Len(st.wal) \in Nat
  BY <1>1, ReplayAll, LenProperties DEF replays, Replays
<1>3. recovery_view = log(st.wal, k)
  <2>1. CASE checkpoint_usable(st)
    <3>1. /\ OnDisk(st.wal, st.synced, c)
          /\ st.checkpoint_file.wal_offset = 2 * Len(c)
      BY <2>1 DEF checkpoint_usable, Recoverable
    <3> DEFINE m == Len(c)
    <3>2. m \in 0..k /\ c = log(st.wal, m)
      BY <1>2, <3>1, LenProperties DEF OnDisk, replays
    <3>3. log(st.wal, m) \o records_from(st.wal, 2 * m) = log(st.wal, k)
      BY <1>1, <1>2, <3>2, CheckpointAndRest
    <3> QED
      BY <2>1, <3>1, <3>2, <3>3, Zenon DEF recovery_view
  <2>2. CASE ~checkpoint_usable(st)
    <3>1. \A i \in 1..k : 0 + 2 * i = 2 * i
      BY <1>2
    <3> QED
      BY <2>2, <3>1, Zenon DEF recovery_view, records_from, replays, log
  <2> QED
    BY <2>1, <2>2
<1> QED
  BY <1>1, <1>2, <1>3, LogTyped

\* The log of a process none of whose appends failed is what it holds.
LEMMA Running ==
  ASSUME Recoverable, ~failed, pc # "down"
  PROVE  replays = Len(accepted) /\ Len(st.wal) = 2 * replays
<1>1. Len(accepted) <= replays /\ Len(st.wal) = 2 * Len(accepted) /\ Len(accepted) \in Nat
  BY LenProperties DEF Recoverable, OnDisk, replays
<1> QED
  BY <1>1, View

\* A history that a recovery rebuilds from its start.
LEMMA Rebuilt ==
  ASSUME Recoverable, NEW s, OnDisk(st.wal, st.synced, s)
  PROVE  Continues(recovery_view, s)
<1> DEFINE v == recovery_view
           n == Len(s)
<1>1. /\ s \in Seq(Record) /\ n \in Nat /\ s = log(st.wal, n) /\ n <= replays
  BY LenProperties DEF OnDisk, replays
<1>2. v \in Seq(Record) /\ Len(v) = replays /\ v = log(st.wal, replays) /\ replays \in Nat
  BY View, Zenon
<1>3. \A i \in 1..n : s[i] = v[i]
  BY <1>1, <1>2 DEF log
<1> HIDE DEF v, n
<1>4. SubSeq(v, 1, n) = s
  <2> DEFINE b == SubSeq(v, 1, n)
  <2>1. \A i \in 1..n : s[i] \in Record /\ v[i] \in Record
    BY <1>1, <1>2, <1>3, ElementOfSeq DEF n
  <2>2. 1 \in Int /\ n \in Int /\ n - 1 + 1 = n
    BY <1>1
  <2>3. /\ b \in Seq(Record) /\ Len(b) = (IF 1 <= n THEN n - 1 + 1 ELSE 0)
        /\ \A i \in 1..(n - 1 + 1) : b[i] = v[1 + i - 1]
    BY <2>1, <2>2, SubSeqProperties
  <2> HIDE DEF b
  <2>4. Len(b) = n /\ \A i \in 1..n : b[i] = s[i]
    BY <1>1, <1>3, <2>3
  <2>5. b = s
    BY <1>1, <2>3, <2>4, SeqEqual DEF n
  <2> QED
    BY <2>5 DEF b
<1> QED
  BY <1>1, <1>2, <1>4 DEF Continues, v, n

\* A whole record behind the records of a log.
LEMMA LogAppend ==
  ASSUME NEW wal \in Seq(Cell), NEW w \in Seq(Cell), NEW k \in Nat, NEW r \in Record,
         2 * k <= Len(wal), 2 * (k + 1) <= Len(w),
         \A i \in 1..k : w[2 * i] = wal[2 * i], w[2 * (k + 1)].of = r
  PROVE  log(w, k + 1) = Append(log(wal, k), r)
<1> DEFINE a == log(w, k + 1)
           s == log(wal, k)
           b == Append(s, r)
<1>1. s \in Seq(Record) /\ Len(s) = k /\ \A i \in 1..k : s[i] = wal[2 * i].of
  BY LogTyped
<1>2. a \in Seq(Record) /\ Len(a) = k + 1 /\ \A i \in 1..(k + 1) : a[i] = w[2 * i].of
  BY LogTyped
<1> HIDE DEF s, a
<1>3. /\ b \in Seq(Record) /\ Len(b) = k + 1 /\ b[k + 1] = r
      /\ \A i \in 1..k : b[i] = s[i]
  BY <1>1, AppendProperties
<1> HIDE DEF b
<1>4. \A i \in 1..(k + 1) : a[i] = b[i]
  <2> TAKE i \in 1..(k + 1)
  <2>1. CASE i = k + 1
    BY <1>2, <1>3, <2>1
  <2>2. CASE i # k + 1
    <3>1. i \in 1..k
      BY <2>2
    <3> QED
      BY <1>1, <1>2, <1>3, <3>1
  <2> QED
    BY <2>1, <2>2
<1>5. a = b
  BY <1>2, <1>3, <1>4, SeqEqual
<1> QED
  BY <1>5 DEF a, b, s

\* append writes both cells of a record.
LEMMA CellsWhole ==
  ASSUME NEW r
  PROVE  cells(r) = SubSeq(cells(r), 1, 2)
BY DEF cells

-----------------------------------------------------------------------------
(* What open finds.                                                        *)

\* The largest incarnation among some records does not pass a bound that
\* holds for all of them.
LEMMA MaxIncarnation ==
  ASSUME NEW b \in Nat, NEW n \in Nat, NEW found, DOMAIN found = 1..n,
         \A i \in 1..n : found[i] \in Record /\ found[i].incarnation <= b
  PROVE  max_incarnation(found) \in 0..b
<1> DEFINE named == {found[i].incarnation : i \in {j \in DOMAIN found : found[j].type = "commit"}}
           T == named \union {0}
<1>1. T \in SUBSET Nat /\ T # {} /\ \A x \in T : x <= b
  <2>1. \A i \in 1..n : found[i].incarnation \in Nat
    BY StoreBounds DEF Record
  <2> QED
    BY <2>1
<1> HIDE DEF T
<1>2. Max(T) \in T
  BY <1>1, Largest
<1>3. Max(T) \in 0..b
  <2>1. Max(T) \in Nat /\ Max(T) <= b
    BY <1>1, <1>2, Zenon
  <2> QED
    BY <2>1
<1> QED
  BY <1>3 DEF max_incarnation, T

\* The counter a new process starts from.
LEMMA OpenCounter ==
  ASSUME NEW b \in Nat, NEW x \in 0..b, NEW y \in 0..b
  PROVE  Max({x, y}) \in x..b
<1>1. {x, y} \in SUBSET Nat /\ {x, y} # {} /\ \A z \in {x, y} : z <= b
  OBVIOUS
<1>2. Max({x, y}) \in {x, y} /\ \A z \in {x, y} : Max({x, y}) >= z
  BY <1>1, Largest
<1> QED
  BY <1>2

\* open finds every record of the log, cuts what follows them, and goes on
\* from the largest incarnation it can know of.
LEMMA OpenMembers ==
  ASSUME IInv, pc = "down", st' = open(st)
  PROVE  /\ Shape(st') /\ st'.wal = cut(st.wal, 2 * replays)
         /\ st'.synced = 2 * replays /\ st'.log_bytes = 2 * replays
         /\ st'.checkpoint_file = st.checkpoint_file /\ st'.meta = st.meta
         /\ st'.incarnation_counter \in issued..opens
<1> DEFINE used   == checkpoint_usable(st)
           offset == IF used THEN st.checkpoint_file.wal_offset ELSE 0
           found  == records_from(st.wal, offset)
           cursor == offset + 2 * Len(found)
           known  == IF st.meta.present THEN st.meta.incarnation_counter ELSE 0
           counter == Max({known, max_incarnation(found)})
<1>1. Recoverable /\ Numbered
  BY DEF IInv
<1>2. /\ Shape(st) /\ st.wal \in Seq(Cell) /\ Len(st.wal) \in Nat
  BY <1>1, LenProperties DEF Recoverable
<1>3. Replays(st.wal, replays) /\ replays \in Nat /\ 2 * replays <= Len(st.wal)
  BY <1>2, ReplayAll, Zenon DEF replays, Replays
<1>4. PICK m \in 0..replays : offset = 2 * m
  <2>1. CASE used
    <3>1. /\ OnDisk(st.wal, st.synced, st.checkpoint_file.content)
          /\ st.checkpoint_file.wal_offset = 2 * Len(st.checkpoint_file.content)
      BY <1>1, <2>1 DEF Recoverable, checkpoint_usable
    <3>2. Len(st.checkpoint_file.content) \in 0..replays
      BY <1>3, <3>1, LenProperties DEF OnDisk, replays
    <3> QED
      BY <2>1, <3>1, <3>2
  <2>2. CASE ~used
    <3>1. 0 \in 0..replays /\ 2 * 0 = 0
      BY <1>3
    <3> QED
      BY <2>2, <3>1
  <2> QED
    BY <2>1, <2>2
<1> HIDE DEF offset
<1> DEFINE n == replays - m
<1>5. replayable(st.wal, offset) = n
  <2>1. st.wal \in Seq(Cell) /\ Replays(st.wal, replays) /\ m \in 0..replays
    BY <1>2, <1>3, Zenon
  <2> QED
    BY <1>4, <2>1, ReplayCount
<1>6. found = [i \in 1..n |-> st.wal[offset + 2 * i].of] /\ n \in Nat
  BY <1>3, <1>5 DEF records_from
<1>7. \A i \in 1..n : /\ st.wal[offset + 2 * i].of \in Record
                      /\ st.wal[offset + 2 * i].of.incarnation <= opens
  <2> TAKE i \in 1..n
  <2>1. offset + 2 * i \in 1..Len(st.wal)
    BY <1>2, <1>3, <1>4
  <2>2. st.wal[offset + 2 * i] \in Cell
    BY <1>2, <2>1, ElementOfSeq
  <2>3. taken = opens
    BY DEF taken
  <2> QED
    BY <1>1, <2>1, <2>2, <2>3 DEF Numbered, Cell
<1> HIDE DEF found, n
<1>8. DOMAIN found = 1..n /\ \A i \in 1..n : found[i] \in Record /\ found[i].incarnation <= opens
  BY <1>6, <1>7
<1>9. Len(found) = n /\ cursor = 2 * replays
  <2>1. Len(found) = n
    BY <1>6, <1>8
  <2> QED
    BY <1>3, <1>4, <2>1 DEF n
<1>10. counter \in issued..opens
  <2>1. /\ opens \in Nat /\ issued \in 0..opens
        /\ st.meta.incarnation_counter \in issued..opens
        /\ issued > 0 => st.meta.present
    BY <1>1, StoreBounds DEF Numbered, taken
  <2>2. max_incarnation(found) \in 0..opens
    BY <1>6, <1>8, <2>1, MaxIncarnation
  <2>3. known \in issued..opens
    BY <2>1
  <2> HIDE DEF known
  <2>4. counter \in known..opens
    BY <2>1, <2>2, <2>3, OpenCounter
  <2> HIDE DEF counter
  <2> QED
    BY <2>1, <2>3, <2>4
<1> HIDE DEF cursor, counter
<1>11. /\ Shape(open(st)) /\ open(st).wal = SubSeq(st.wal, 1, cursor)
       /\ open(st).synced = cursor /\ open(st).log_bytes = cursor
       /\ open(st).checkpoint_file = st.checkpoint_file /\ open(st).meta = st.meta
       /\ open(st).incarnation_counter = counter
  BY <1>2 DEF open, Shape, Members, cursor, counter, found, offset
<1> QED
  BY <1>9, <1>10, <1>11, Zenon DEF cut

-----------------------------------------------------------------------------
(* The invariant is kept by every action.                                  *)

\* A store that was never opened has the invariant.
LEMMA InitIInv ==
  ASSUME Init
  PROVE  IInv
<1> USE DEF Init
<1>1. Shape(st) /\ st.wal = <<>> /\ st.synced = 0 /\ st.checkpoint_file.present = FALSE
      /\ st.meta.incarnation_counter = 0 /\ st.meta.clean_shutdown = FALSE
      /\ st.incarnation_counter = 0
  BY DEF empty_store, Shape, Members, absent
<1>2. st.wal \in Seq(Cell) /\ Len(st.wal) = 0 /\ Len(<<>>) = 0 /\ <<>> \in Seq(Record)
  BY <1>1
<1>3. replays = 0
  <2>1. ~record_at(st.wal, 2 * 0)
    BY <1>2 DEF record_at
  <2>2. Replays(st.wal, 0)
    BY <1>2, <2>1 DEF Replays
  <2> QED
    BY <1>2, <2>2, ReplayAll, Zenon DEF replays
<1>4. <<>> = log(st.wal, Len(<<>>))
  BY <1>2 DEF log
<1>5. OnDisk(st.wal, st.synced, <<>>)
  BY <1>1, <1>2, <1>3, <1>4 DEF OnDisk, replays
<1>6. Recoverable
  <2>1. replays <= Len(<<>>) + 1 /\ st.synced \in 0..Len(st.wal)
    BY <1>1, <1>2, <1>3
  <2> QED
    BY <1>1, <1>2, <1>5, <2>1, Zenon DEF Recoverable
<1>7. Closed
  BY <1>1 DEF Closed, Phases
<1>8. Numbered
  BY <1>1, <1>2, StoreBounds DEF Numbered, taken
<1> QED
  BY <1>6, <1>7, <1>8 DEF IInv

\* The record a serving process appends.
LEMMA RecordTyped ==
  ASSUME IInv, pc = "serving", NEW kind \in Kinds
  PROVE  record_of(kind) \in Record /\ record_of(kind).incarnation <= taken
<1>1. st.incarnation_counter \in 0..MaxOpens /\ st.incarnation_counter <= taken
  BY StoreBounds DEF IInv, Numbered, taken
<1> QED
  BY <1>1 DEF record_of, Record

\* Cells of a new record name the process that wrote them.
LEMMA GrowthNumbered ==
  ASSUME NEW wal \in Seq(Cell), NEW r \in Record, NEW left \in 0..2, NEW b \in Nat
  PROVE  LET w == longer(wal, r, left) IN
         r.incarnation <= b /\ (\A i \in 1..Len(wal) : wal[i].of.incarnation <= b)
           => \A i \in 1..Len(w) : w[i].of.incarnation <= b
<1> DEFINE w == longer(wal, r, left)
<1>0. Follows(w, wal, r, left)
  BY LogGrows
<1> HIDE DEF w
<1>1. /\ Len(w) = Len(wal) + left /\ Len(wal) \in Nat
      /\ \A i \in 1..Len(wal) : w[i] = wal[i]
      /\ left >= 1 => w[Len(wal) + 1] = [part |-> "head", of |-> r]
      /\ left = 2  => w[Len(wal) + 2] = [part |-> "body", of |-> r]
  BY <1>0, LenProperties, Zenon DEF Follows
<1>2. /\ left >= 1 => w[Len(wal) + 1].of = r
      /\ left = 2  => w[Len(wal) + 2].of = r
  BY <1>1
<1>3. ASSUME r.incarnation <= b, \A i \in 1..Len(wal) : wal[i].of.incarnation <= b,
             NEW i \in 1..Len(w)
      PROVE  w[i].of.incarnation <= b
  <2>1. CASE i \in 1..Len(wal)
    BY <1>1, <1>3, <2>1
  <2>2. CASE i = Len(wal) + 1 /\ left >= 1
    BY <1>2, <1>3, <2>2
  <2>3. CASE i = Len(wal) + 2 /\ left = 2
    BY <1>2, <1>3, <2>3
  <2> QED
    BY <1>1, <2>1, <2>2, <2>3
<1> QED
  BY <1>3 DEF w

\* append extends the log by the record it acknowledges.
LEMMA AppendIInv ==
  ASSUME IInv, NEW kind \in Kinds, AppendRecord(kind)
  PROVE  IInv' /\ (~failed => replays' = replays + 1)
<1> DEFINE r == record_of(kind)
           w == longer(st.wal, r, 2)
<1>1. /\ pc = "serving" /\ pc' = pc /\ failed' = failed /\ issued' = issued /\ opens' = opens
      /\ accepted' = Append(accepted, r)
      /\ sound' = IF failed THEN sound ELSE accepted'
      /\ st' = append(st, r)
  BY DEF AppendRecord
<1>2. /\ Shape(st) /\ st.wal \in Seq(Cell) /\ st.synced \in 0..Len(st.wal)
      /\ accepted \in Seq(Record) /\ Len(st.wal) \in Nat /\ failed \in BOOLEAN
  BY LenProperties DEF IInv, Recoverable
<1>3. r \in Record /\ r.incarnation <= taken
  BY <1>1, RecordTyped
<1> HIDE DEF r
<1>4. /\ Shape(st') /\ st'.wal = w /\ st'.synced = Len(w)
      /\ st'.log_bytes = st.log_bytes + 2
      /\ st'.checkpoint_file = st.checkpoint_file /\ st'.meta = st.meta
      /\ st'.incarnation_counter = st.incarnation_counter
  BY <1>1, <1>2, AppendMembers, CellsWhole, Zenon DEF longer
<1>0. 2 \in 0..2 /\ w = longer(st.wal, r, 2)
  OBVIOUS
<1> HIDE DEF w
<1>5. Replays(st.wal, replays) /\ replays \in Nat /\ 2 * replays <= Len(st.wal)
  BY <1>2, ReplayAll, Zenon DEF replays, Replays
<1>6. /\ w \in Seq(Cell) /\ Len(w) = Len(st.wal) + 2
      /\ \A i \in 1..replays : w[2 * i] = st.wal[2 * i]
      /\ Len(st.wal) = 2 * replays => replayable(w, 0) = replays + 1 /\ w[2 * (replays + 1)].of = r
      /\ \A synced, later \in Nat : \A s :
           OnDisk(st.wal, synced, s) /\ synced <= later => OnDisk(w, later, s)
  <2>1. /\ st.wal \in Seq(Cell) /\ Replays(st.wal, replays) /\ r \in Record
        /\ 2 \in 0..2 /\ w = longer(st.wal, r, 2)
    BY <1>0, <1>2, <1>3, <1>5, Zenon
  <2> QED
    BY <2>1, Longer
<1>7. replays' = replayable(w, 0)
  BY <1>4 DEF replays
<1>8. \A s : OnDisk(st.wal, st.synced, s) => OnDisk(w, Len(w), s)
  <2>1. st.synced \in Nat /\ Len(w) \in Nat /\ st.synced <= Len(w)
    BY <1>2, <1>6
  <2> QED
    BY <1>6, <2>1, Zenon
<1>10. accepted' \in Seq(Record) /\ Len(accepted') = Len(accepted) + 1 /\ Len(accepted) \in Nat
  BY <1>1, <1>2, <1>3, AppendProperties, LenProperties
<1>11. ASSUME ~failed
       PROVE  /\ replayable(w, 0) = replays + 1 /\ replays = Len(accepted) /\ Len(st.wal) = 2 * replays
              /\ OnDisk(w, Len(w), accepted')
  <2>1. replays = Len(accepted) /\ Len(st.wal) = 2 * replays
    BY <1>1, <1>11, Running DEF IInv
  <2>2. accepted = log(st.wal, replays)
    BY <1>11, <2>1 DEF IInv, Recoverable, OnDisk
  <2>3. 2 * (replays + 1) <= Len(w) /\ w[2 * (replays + 1)].of = r /\ replayable(w, 0) = replays + 1
    BY <1>5, <1>6, <2>1
  <2>4. log(w, replays + 1) = Append(log(st.wal, replays), r)
    BY <1>2, <1>3, <1>5, <1>6, <2>3, LogAppend, Zenon
  <2>5. Len(accepted') = replays + 1 /\ replays + 1 <= replays + 1
    BY <1>5, <1>10, <2>1
  <2>6. accepted' = log(w, Len(accepted'))
    BY <1>1, <2>2, <2>4, <2>5, Zenon
  <2>7. OnDisk(w, Len(w), accepted')
    BY <1>10, <2>3, <2>5, <2>6, Zenon DEF OnDisk
  <2> QED
    BY <2>1, <2>3, <2>7
<1>12. Recoverable'
  <2>1. OnDisk(w, Len(w), sound')
    <3>1. OnDisk(st.wal, st.synced, sound)
      BY DEF IInv, Recoverable
    <3> QED
      BY <1>1, <1>8, <1>11, <3>1, Zenon
  <2>2. /\ ~failed' => OnDisk(w, Len(w), accepted') /\ replays' <= Len(accepted') + 1
        /\ ~failed' => Len(w) = 2 * Len(accepted') /\ st'.log_bytes = Len(w)
    <3> SUFFICES ASSUME ~failed
                 PROVE  /\ OnDisk(w, Len(w), accepted') /\ replays' <= Len(accepted') + 1
                        /\ Len(w) = 2 * Len(accepted') /\ st'.log_bytes = Len(w)
      BY <1>1
    <3>1. st.log_bytes = Len(st.wal)
      BY <1>1 DEF IInv, Recoverable
    <3>2. /\ replays' = replays + 1 /\ replays = Len(accepted) /\ Len(st.wal) = 2 * replays
          /\ OnDisk(w, Len(w), accepted')
      BY <1>7, <1>11, Zenon
    <3>3. replays' <= Len(accepted') + 1
      BY <1>5, <1>10, <3>2
    <3>4. Len(w) = 2 * Len(accepted') /\ st'.log_bytes = Len(w)
      BY <1>4, <1>5, <1>6, <1>10, <3>1, <3>2
    <3> QED
      BY <3>2, <3>3, <3>4
  <2>3. st'.log_bytes \in 0..Len(w) /\ Len(w) \in 0..Len(w)
    <3>1. st.log_bytes \in 0..st.synced
      BY <1>1 DEF IInv, Recoverable
    <3> QED
      BY <1>2, <1>4, <1>6, <3>1
  <2>4. st'.checkpoint_file.present =>
          /\ OnDisk(w, Len(w), st'.checkpoint_file.content)
          /\ st'.checkpoint_file.wal_offset = 2 * Len(st'.checkpoint_file.content)
    BY <1>4, <1>8 DEF IInv, Recoverable
  <2> QED
    BY <1>1, <1>2, <1>4, <1>6, <1>10, <2>1, <2>2, <2>3, <2>4, Zenon DEF Recoverable, replays
<1>13. Closed'
  <2>1. Closed
    BY DEF IInv
  <2>2. pc' = "serving" /\ st'.meta.clean_shutdown = FALSE
    BY <1>1, <1>4, <2>1 DEF Closed
  <2> QED
    BY <2>2 DEF Closed, Phases
<1>14. Numbered'
  <2>1. Numbered
    BY DEF IInv
  <2>2. taken' = taken
    BY <1>1 DEF taken
  <2>3. \A i \in 1..Len(w) : w[i].of.incarnation <= taken
    BY <1>0, <1>2, <1>3, <2>1, GrowthNumbered, Zenon DEF Numbered
  <2> QED
    BY <1>1, <1>4, <2>1, <2>2, <2>3 DEF Numbered
<1> QED
  BY <1>7, <1>11, <1>12, <1>13, <1>14 DEF IInv

\* What an append that broke off leaves in the files.
LEMMA BrokenAppend ==
  ASSUME IInv, NEW r \in Record, r.incarnation <= taken, NEW left \in 0..2,
         st' = append_failed(st, r, left)
  PROVE  /\ Shape(st') /\ st'.wal \in Seq(Cell) /\ st'.synced \in 0..Len(st'.wal)
         /\ st'.synced = st.synced /\ st'.log_bytes = st.log_bytes
         /\ st'.checkpoint_file = st.checkpoint_file /\ st'.meta = st.meta
         /\ st'.incarnation_counter = st.incarnation_counter
         /\ \A s : OnDisk(st.wal, st.synced, s) => OnDisk(st'.wal, st'.synced, s)
         /\ replays' \in {replays, replays + 1} /\ replays \in Nat
         /\ ~(left = 2 /\ Len(st.wal) = 2 * replays) => replays' = replays
         /\ left = 2 /\ Len(st.wal) = 2 * replays =>
              replays' = replays + 1 /\ st'.wal[2 * (replays + 1)].of \in Record
         /\ \A i \in 1..replays : st'.wal[2 * i] = st.wal[2 * i]
         /\ \A i \in 1..Len(st'.wal) : st'.wal[i].of.incarnation <= taken
<1> DEFINE w == longer(st.wal, r, left)
<1>2. /\ Shape(st) /\ st.wal \in Seq(Cell) /\ st.synced \in 0..Len(st.wal)
      /\ Len(st.wal) \in Nat
  BY LenProperties DEF IInv, Recoverable
<1>3. /\ Shape(st') /\ st'.wal = w /\ st'.synced = st.synced
      /\ st'.log_bytes = st.log_bytes
      /\ st'.checkpoint_file = st.checkpoint_file /\ st'.meta = st.meta
      /\ st'.incarnation_counter = st.incarnation_counter
  <2>1. Shape(st)
    BY <1>2
  <2>2. /\ Shape(st') /\ st'.wal = st.wal \o SubSeq(cells(r), 1, left)
        /\ st'.synced = st.synced /\ st'.log_bytes = st.log_bytes
        /\ st'.checkpoint_file = st.checkpoint_file /\ st'.meta = st.meta
        /\ st'.incarnation_counter = st.incarnation_counter
    BY <2>1, Zenon DEF append_failed, Shape, Members
  <2> QED
    BY <2>2 DEF longer
<1>4. Replays(st.wal, replays) /\ replays \in Nat /\ 2 * replays <= Len(st.wal)
  BY <1>2, ReplayAll, Zenon DEF replays, Replays
<1>5. w = longer(st.wal, r, left)
  OBVIOUS
<1> HIDE DEF w
<1>6. /\ w \in Seq(Cell) /\ Len(w) = Len(st.wal) + left
      /\ \A i \in 1..replays : w[2 * i] = st.wal[2 * i]
      /\ left = 2 /\ Len(st.wal) = 2 * replays =>
           replayable(w, 0) = replays + 1 /\ w[2 * (replays + 1)].of = r
      /\ ~(left = 2 /\ Len(st.wal) = 2 * replays) => replayable(w, 0) = replays
      /\ \A synced, later \in Nat : \A s :
           OnDisk(st.wal, synced, s) /\ synced <= later => OnDisk(w, later, s)
  <2>1. /\ st.wal \in Seq(Cell) /\ Replays(st.wal, replays) /\ w = longer(st.wal, r, left)
    BY <1>2, <1>4, <1>5, Zenon
  <2> QED
    BY <2>1, Longer
<1>7. replays' = replayable(w, 0)
  BY <1>3 DEF replays
<1>8. \A s : OnDisk(st.wal, st.synced, s) => OnDisk(w, st.synced, s)
  <2>1. st.synced \in Nat /\ st.synced <= st.synced
    BY <1>2
  <2> QED
    BY <1>6, <2>1, Zenon
<1>9. \A i \in 1..Len(w) : w[i].of.incarnation <= taken
  <2>1. /\ st.wal \in Seq(Cell) /\ taken \in Nat
        /\ \A i \in 1..Len(st.wal) : st.wal[i].of.incarnation <= taken
    BY <1>2 DEF IInv, Numbered
  <2> QED
    BY <1>5, <2>1, GrowthNumbered
<1>10. st.synced \in 0..Len(w)
  BY <1>2, <1>6
<1> QED
  BY <1>3, <1>4, <1>6, <1>7, <1>8, <1>9, <1>10, Zenon

\* An append that returned an error.
LEMMA AppendFailsIInv ==
  ASSUME IInv, NEW kind \in Kinds, NEW left \in 0..2, AppendFails(kind, left)
  PROVE  IInv'
<1>1. /\ pc = "serving" /\ pc' = pc /\ failed' = TRUE /\ issued' = issued /\ opens' = opens
      /\ accepted' = accepted /\ sound' = sound
      /\ st' = append_failed(st, record_of(kind), left)
  BY DEF AppendFails
<1>2. /\ Shape(st') /\ st'.wal \in Seq(Cell) /\ st'.synced \in 0..Len(st'.wal)
      /\ st'.synced = st.synced /\ st'.log_bytes = st.log_bytes
      /\ st'.checkpoint_file = st.checkpoint_file /\ st'.meta = st.meta
      /\ st'.incarnation_counter = st.incarnation_counter
      /\ \A s : OnDisk(st.wal, st.synced, s) => OnDisk(st'.wal, st'.synced, s)
      /\ \A i \in 1..Len(st'.wal) : st'.wal[i].of.incarnation <= taken
  BY <1>1, RecordTyped, BrokenAppend, Zenon
<1>3. Recoverable /\ Closed /\ Numbered
  BY DEF IInv
<1>4. Recoverable'
  BY <1>1, <1>2, <1>3, Zenon DEF Recoverable
<1>5. Closed'
  <2>1. st'.meta.clean_shutdown = FALSE
    BY <1>1, <1>2, <1>3 DEF Closed
  <2> QED
    BY <1>1, <2>1 DEF Closed, Phases
<1>6. Numbered'
  <2>1. taken' = taken
    BY <1>1 DEF taken
  <2> QED
    BY <1>1, <1>2, <1>3, <2>1, Zenon DEF Numbered
<1> QED
  BY <1>4, <1>5, <1>6 DEF IInv

\* A process that died inside append.
LEMMA CrashInAppendIInv ==
  ASSUME IInv, NEW kind \in Kinds, NEW left \in 0..2, CrashInAppend(kind, left)
  PROVE  IInv'
<1>1. /\ pc = "serving" /\ pc' = "down" /\ failed' = failed /\ issued' = issued
      /\ opens' = opens /\ accepted' = accepted /\ sound' = sound
      /\ st' = append_failed(st, record_of(kind), left)
  BY DEF CrashInAppend, held
<1>2. /\ Shape(st') /\ st'.wal \in Seq(Cell) /\ st'.synced \in 0..Len(st'.wal)
      /\ st'.synced = st.synced
      /\ st'.checkpoint_file = st.checkpoint_file /\ st'.meta = st.meta
      /\ st'.incarnation_counter = st.incarnation_counter
      /\ \A s : OnDisk(st.wal, st.synced, s) => OnDisk(st'.wal, st'.synced, s)
      /\ replays' \in {replays, replays + 1} /\ replays \in Nat
      /\ \A i \in 1..Len(st'.wal) : st'.wal[i].of.incarnation <= taken
  BY <1>1, RecordTyped, BrokenAppend, Zenon
<1>3. Recoverable /\ Closed /\ Numbered
  BY DEF IInv
<1>4. ~failed => replays' <= Len(accepted) + 1
  <2> SUFFICES ASSUME ~failed PROVE replays' <= Len(accepted) + 1
    OBVIOUS
  <2>1. replays = Len(accepted)
    BY <1>1, <1>3, Running
  <2> QED
    BY <1>2, <2>1
<1>5. Recoverable'
  BY <1>1, <1>2, <1>3, <1>4, Zenon DEF Recoverable
<1>6. Closed'
  <2>1. st'.meta.clean_shutdown = FALSE
    BY <1>1, <1>2, <1>3 DEF Closed
  <2> QED
    BY <1>1, <2>1 DEF Closed, Phases
<1>7. Numbered'
  <2>1. taken' = taken
    BY <1>1 DEF taken
  <2> QED
    BY <1>1, <1>2, <1>3, <2>1, Zenon DEF Numbered
<1> QED
  BY <1>5, <1>6, <1>7 DEF IInv

\* Steps that leave the log alone and flush no less of it.
LEMMA SameLogRecoverable ==
  ASSUME Recoverable, Shape(st'), st'.wal = st.wal,
         st'.synced \in {st.synced, Len(st.wal)},
         st'.log_bytes = st.log_bytes, st'.checkpoint_file = st.checkpoint_file,
         UNCHANGED held, pc # "down"
  PROVE  Recoverable' /\ replays' = replays
<1>1. replays' = replays
  BY DEF replays
<1>2. st.synced \in Nat /\ Len(st.wal) \in Nat /\ st.synced <= Len(st.wal)
  BY LenProperties DEF Recoverable
<1>3. st'.synced \in Nat /\ st.synced <= st'.synced /\ st'.synced <= Len(st.wal)
  BY <1>2
<1>4. \A s : OnDisk(st.wal, st.synced, s) => OnDisk(st'.wal, st'.synced, s)
  <2> SUFFICES ASSUME NEW s, OnDisk(st.wal, st.synced, s)
               PROVE  OnDisk(st'.wal, st'.synced, s)
    OBVIOUS
  <2>1. 2 * Len(s) <= st'.synced
    BY <1>2, <1>3, LenProperties DEF OnDisk
  <2> QED
    BY <2>1 DEF OnDisk
<1>5. accepted' = accepted /\ sound' = sound /\ failed' = failed
  BY DEF held
<1>6. /\ st'.synced \in 0..Len(st'.wal)
      /\ ~failed => st'.synced = Len(st'.wal)
      /\ st.log_bytes \in 0..st'.synced
  BY <1>2, <1>3 DEF Recoverable
<1> QED
  BY <1>1, <1>4, <1>5, <1>6, Zenon DEF Recoverable

\* A process takes an incarnation no process before it was given.
LEMMA NextIncarnationIInv ==
  ASSUME IInv, NextIncarnation
  PROVE  IInv' /\ replays' = replays /\ issued' > issued
<1>1. /\ pc = "opened" /\ pc' = "serving" /\ UNCHANGED held /\ opens' = opens
      /\ st' = next_incarnation(st) /\ issued' = st'.incarnation_counter
  BY DEF NextIncarnation, counts
<1>2. Recoverable /\ Closed /\ Numbered
  BY DEF IInv
<1>3. /\ Shape(st') /\ st'.wal = st.wal /\ st'.synced = st.synced
      /\ st'.log_bytes = st.log_bytes /\ st'.checkpoint_file = st.checkpoint_file
      /\ st'.incarnation_counter = st.incarnation_counter + 1
      /\ st'.meta.present = TRUE /\ st'.meta.clean_shutdown = FALSE
      /\ st'.meta.incarnation_counter = st.incarnation_counter + 1
  BY <1>1, <1>2, IncarnationMembers, Zenon DEF Recoverable
<1>4. Recoverable' /\ replays' = replays
  BY <1>1, <1>2, <1>3, SameLogRecoverable
<1>5. Closed'
  BY <1>1, <1>3 DEF Closed, Phases
<1>6. taken' = opens /\ taken = opens - 1 /\ opens \in 0..MaxOpens /\ taken \in Nat
  BY <1>1, <1>2 DEF taken, Numbered
<1>7. st.incarnation_counter \in issued..taken /\ issued \in 0..taken /\ MaxOpens \in Nat
  BY <1>1, <1>2, StoreBounds DEF Numbered
<1>8. issued' > issued /\ issued' \in 0..opens
  BY <1>1, <1>3, <1>6, <1>7
<1>9. \A i \in 1..Len(st'.wal) : st'.wal[i].of.incarnation <= opens
  <2> SUFFICES ASSUME NEW i \in 1..Len(st.wal) PROVE st.wal[i].of.incarnation <= opens
    BY <1>3
  <2>1. st.wal[i].of.incarnation <= taken
    BY <1>2 DEF Numbered
  <2>2. st.wal[i].of.incarnation \in Nat
    <3>1. st.wal[i] \in Cell
      BY <1>2, ElementOfSeq DEF Recoverable
    <3> QED
      BY <3>1, StoreBounds DEF Cell, Record
  <2> QED
    BY <1>6, <2>1, <2>2, StoreBounds
<1>10. Numbered'
  <2>1. st'.meta.incarnation_counter \in issued'..opens /\ opens \in Nat
    BY <1>1, <1>3, <1>6, <1>7
  <2>2. st'.incarnation_counter \in issued'..opens
    BY <1>1, <1>3, <1>6, <1>7
  <2> QED
    BY <1>1, <1>3, <1>6, <1>8, <1>9, <2>1, <2>2, Zenon DEF Numbered
<1> QED
  BY <1>4, <1>5, <1>8, <1>10 DEF IInv

\* The old checkpoint goes away: everything it covers is in the log.
LEMMA RotateIInv ==
  ASSUME ~CheckpointTorn, IInv, RotateCheckpoint
  PROVE  IInv' /\ replays' = replays
<1>1. /\ pc = "serving" /\ pc' = "rotated" /\ UNCHANGED held /\ opens' = opens /\ ~failed
      /\ st' = rotate_checkpoint(st) /\ issued' = issued
  BY DEF RotateCheckpoint
<1>2. Recoverable /\ Closed /\ Numbered
  BY DEF IInv
<1>3. /\ Shape(st') /\ st'.wal = st.wal /\ st'.synced = st.synced
      /\ st'.log_bytes = st.log_bytes /\ st'.meta = st.meta
      /\ st'.incarnation_counter = st.incarnation_counter
      /\ st'.checkpoint_file.present = FALSE
  BY <1>1, <1>2, RotateMembers, Zenon DEF Recoverable
<1>4. accepted' = accepted /\ sound' = sound /\ failed' = failed
  BY <1>1 DEF held
<1>5. replays' = replays
  BY <1>3 DEF replays
<1>6. Recoverable'
  BY <1>1, <1>2, <1>3, <1>4, <1>5, Zenon DEF Recoverable
<1>7. Closed'
  <2>1. st'.meta.clean_shutdown = FALSE
    BY <1>1, <1>2, <1>3 DEF Closed
  <2> QED
    BY <1>1, <1>4, <2>1 DEF Closed, Phases
<1>8. Numbered'
  <2>1. taken' = taken
    BY <1>1 DEF taken
  <2> QED
    BY <1>1, <1>2, <1>3, <2>1, Zenon DEF Numbered
<1> QED
  BY <1>5, <1>6, <1>7, <1>8 DEF IInv

\* The new one holds what the process holds, up to the end of the log.
LEMMA PlaceIInv ==
  ASSUME IInv, PlaceCheckpoint
  PROVE  IInv' /\ replays' = replays
<1>1. /\ pc = "rotated" /\ pc' = "placed" /\ UNCHANGED held /\ opens' = opens
      /\ st' = place_checkpoint(st, accepted) /\ issued' = issued
  BY DEF PlaceCheckpoint, counts
<1>2. Recoverable /\ Closed /\ Numbered /\ ~failed
  BY <1>1 DEF IInv, Closed
<1>3. /\ Shape(st') /\ st'.wal = st.wal /\ st'.synced = st.synced
      /\ st'.log_bytes = st.log_bytes /\ st'.meta = st.meta
      /\ st'.incarnation_counter = st.incarnation_counter
      /\ st'.checkpoint_file.wal_offset = st.log_bytes
      /\ st'.checkpoint_file.content = accepted
  <2>1. Shape(st)
    BY <1>2 DEF Recoverable
  <2>2. st' = place_checkpoint(st, accepted)
    BY <1>1
  <2> QED
    BY <2>1, <2>2, PlaceMembers
<1>4. accepted' = accepted /\ sound' = sound /\ failed' = failed
  BY <1>1 DEF held
<1>5. replays' = replays
  BY <1>3 DEF replays
<1>6. OnDisk(st.wal, st.synced, accepted) /\ st.log_bytes = 2 * Len(accepted)
  BY <1>1, <1>2 DEF Recoverable
<1>7. Recoverable'
  BY <1>1, <1>2, <1>3, <1>4, <1>5, <1>6, Zenon DEF Recoverable
<1>8. Closed'
  <2>1. st'.meta.clean_shutdown = FALSE
    BY <1>1, <1>2, <1>3 DEF Closed
  <2> QED
    BY <1>1, <1>2, <1>4, <2>1 DEF Closed, Phases
<1>9. Numbered'
  <2>1. taken' = taken
    BY <1>1 DEF taken
  <2> QED
    BY <1>1, <1>2, <1>3, <2>1, Zenon DEF Numbered
<1> QED
  BY <1>5, <1>7, <1>8, <1>9 DEF IInv

\* Publishing a checkpoint changes neither the log nor the checkpoint.
LEMMA PublishIInv ==
  ASSUME IInv, PublishCheckpoint
  PROVE  IInv' /\ replays' = replays
<1>1. /\ pc = "placed" /\ pc' = "serving" /\ UNCHANGED held /\ opens' = opens
      /\ st' = publish_checkpoint(st) /\ issued' = issued
  BY DEF PublishCheckpoint, counts
<1>2. Recoverable /\ Closed /\ Numbered
  BY DEF IInv
<1>3. /\ Shape(st') /\ st'.wal = st.wal /\ st'.synced = st.synced
      /\ st'.log_bytes = st.log_bytes /\ st'.checkpoint_file = st.checkpoint_file
      /\ st'.incarnation_counter = st.incarnation_counter
      /\ st'.meta.present = TRUE /\ st'.meta.clean_shutdown = FALSE
      /\ st'.meta.incarnation_counter = st.incarnation_counter
  BY <1>1, <1>2, PublishMembers, Zenon DEF Recoverable
<1>4. Recoverable' /\ replays' = replays
  BY <1>1, <1>2, <1>3, SameLogRecoverable
<1>5. Closed'
  BY <1>1, <1>3 DEF Closed, Phases
<1>6. Numbered'
  <2>1. taken' = taken /\ st.incarnation_counter \in issued..taken
    BY <1>1, <1>2 DEF taken, Numbered
  <2> QED
    BY <1>1, <1>2, <1>3, <2>1, Zenon DEF Numbered
<1> QED
  BY <1>4, <1>5, <1>6 DEF IInv

\* write_checkpoint that could not place or publish the file.
LEMMA AbandonIInv ==
  ASSUME IInv, AbandonCheckpoint
  PROVE  IInv' /\ replays' = replays
<1>1. /\ pc \in {"rotated", "placed"} /\ pc' = "serving" /\ UNCHANGED held /\ opens' = opens
      /\ st' = st /\ issued' = issued
  BY DEF AbandonCheckpoint, counts
<1>2. Recoverable /\ Closed /\ Numbered
  BY DEF IInv
<1>3. Shape(st') /\ st'.synced \in {st.synced, Len(st.wal)}
  BY <1>1, <1>2 DEF Recoverable
<1>4. Recoverable' /\ replays' = replays
  BY <1>1, <1>2, <1>3, SameLogRecoverable
<1>5. Closed'
  <2>1. st'.meta.clean_shutdown = FALSE \/ ~st'.meta.clean_shutdown
    BY <1>1, <1>2 DEF Closed
  <2> QED
    BY <1>1, <2>1 DEF Closed, Phases
<1>6. Numbered'
  <2>1. taken' = taken
    BY <1>1 DEF taken
  <2> QED
    BY <1>1, <1>2, <2>1, Zenon DEF Numbered
<1> QED
  BY <1>4, <1>5, <1>6 DEF IInv

\* A clean shutdown finds the log whole unless an append failed.
LEMMA CloseIInv ==
  ASSUME IInv, MarkCleanShutdown
  PROVE  IInv' /\ replays' = replays
<1>1. /\ pc = "serving" /\ pc' = "closed" /\ UNCHANGED held /\ opens' = opens
      /\ st' = mark_clean_shutdown(st) /\ issued' = issued
  BY DEF MarkCleanShutdown, counts
<1>2. Recoverable /\ Closed /\ Numbered
  BY DEF IInv
<1>3. /\ Shape(st') /\ st'.wal = st.wal /\ st'.synced = Len(st.wal)
      /\ st'.log_bytes = st.log_bytes /\ st'.checkpoint_file = st.checkpoint_file
      /\ st'.incarnation_counter = st.incarnation_counter
      /\ st'.meta.present = TRUE
      /\ st'.meta.incarnation_counter = st.incarnation_counter
  BY <1>1, <1>2, CloseMembers, Zenon DEF Recoverable
<1>4. Recoverable' /\ replays' = replays
  BY <1>1, <1>2, <1>3, SameLogRecoverable
<1>5. Closed'
  <2>1. ~failed => replays = Len(accepted)
    BY <1>1, <1>2, Running
  <2>2. accepted' = accepted /\ failed' = failed
    BY <1>1 DEF held
  <2> QED
    BY <1>1, <1>4, <2>1, <2>2 DEF Closed, Phases
<1>6. Numbered'
  <2>1. taken' = taken /\ st.incarnation_counter \in issued..taken
    BY <1>1, <1>2 DEF taken, Numbered
  <2> QED
    BY <1>1, <1>2, <1>3, <2>1, Zenon DEF Numbered
<1> QED
  BY <1>4, <1>5, <1>6 DEF IInv

\* A process that ended: what no flush had covered may be gone.
LEMMA CrashIInv ==
  ASSUME IInv, Crash
  PROVE  IInv' /\ (~failed => replays' = replays)
<1>1. PICK kept \in st.synced..Len(st.wal) : st' = crash(st, kept)
  BY DEF Crash
<1>2. /\ pc # "down" /\ pc' = "down" /\ UNCHANGED held /\ opens' = opens /\ issued' = issued
  BY DEF Crash, counts
<1>3. Recoverable /\ Closed /\ Numbered
  BY DEF IInv
<1>4. /\ Shape(st) /\ st.wal \in Seq(Cell) /\ Len(st.wal) \in Nat
      /\ st.synced \in 0..Len(st.wal)
  BY <1>3, LenProperties DEF Recoverable
<1> DEFINE w == cut(st.wal, kept)
           j == IF 2 * replays <= kept THEN replays ELSE kept \div 2
<1>5. /\ Shape(st') /\ st'.wal = w /\ st'.synced = kept
      /\ st'.checkpoint_file = st.checkpoint_file /\ st'.meta = st.meta
      /\ st'.incarnation_counter = st.incarnation_counter
  <2>1. Shape(st)
    BY <1>4
  <2> QED
    BY <1>1, <2>1, CrashMembers
<1>6. Replays(st.wal, replays) /\ replays \in Nat /\ 2 * replays <= Len(st.wal)
  BY <1>4, ReplayAll, Zenon DEF replays, Replays
<1>7. kept \in 0..Len(st.wal) /\ kept \in Nat /\ st.synced \in Nat /\ st.synced <= kept
  BY <1>4
<1>8. w \in Seq(Cell) /\ Len(w) = kept /\ Replays(w, j) /\ \A i \in 1..kept : w[i] = st.wal[i]
  <2>1. st.wal \in Seq(Cell) /\ Replays(st.wal, replays) /\ kept \in 0..Len(st.wal)
    BY <1>4, <1>6, <1>7, Zenon
  <2> QED
    BY <2>1, ReplayCut DEF cut
<1>9. \A s : OnDisk(st.wal, st.synced, s) => OnDisk(w, kept, s)
  <2> SUFFICES ASSUME NEW s, OnDisk(st.wal, st.synced, s) PROVE OnDisk(w, kept, s)
    OBVIOUS
  <2>1. 2 * Len(s) <= kept
    BY <1>7, LenProperties DEF OnDisk
  <2>2. st.wal \in Seq(Cell) /\ st.synced \in Nat /\ kept \in 0..Len(st.wal)
    BY <1>4, <1>7, Zenon
  <2> QED
    BY <2>1, <2>2, OnDiskCut DEF cut
<1> HIDE DEF w
<1>10. replays' = j
  <2> HIDE DEF j
  <2> QED
    BY <1>5, <1>8, ReplayAll, Zenon DEF replays
<1>11. accepted' = accepted /\ sound' = sound /\ failed' = failed
  BY <1>2 DEF held
<1>12. ~failed => replays' = replays /\ replays = Len(accepted) /\ Len(accepted) \in Nat
  <2> SUFFICES ASSUME ~failed
               PROVE  replays' = replays /\ replays = Len(accepted) /\ Len(accepted) \in Nat
    OBVIOUS
  <2>1. replays = Len(accepted) /\ st.synced = Len(st.wal)
    BY <1>2, <1>3, Running DEF Recoverable
  <2>2. 2 * replays <= kept
    BY <1>4, <1>6, <1>7, <2>1
  <2> QED
    BY <1>6, <1>10, <2>1, <2>2
<1>13. Recoverable'
  <2>1. kept \in 0..Len(w)
    BY <1>7, <1>8
  <2>2. ~failed => replays' <= Len(accepted) + 1
    BY <1>12
  <2> QED
    BY <1>2, <1>3, <1>5, <1>8, <1>9, <1>11, <2>1, <2>2, Zenon DEF Recoverable
<1>14. Closed'
  <2>1. st'.meta.clean_shutdown => (~failed => replays' = Len(accepted))
    BY <1>12
  <2> QED
    BY <1>2, <1>11, <2>1 DEF Closed, Phases
<1>15. Numbered'
  <2>1. taken' = opens /\ opens \in Nat /\ taken \in Nat /\ taken <= opens
    BY <1>2, <1>3, StoreBounds DEF Numbered, taken
  <2>2. /\ issued \in 0..opens /\ st.meta.incarnation_counter \in issued..opens
        /\ st.incarnation_counter \in issued..opens
    BY <1>3, <2>1 DEF Numbered
  <2>3. \A i \in 1..Len(w) : w[i].of.incarnation <= opens
    <3> SUFFICES ASSUME NEW i \in 1..kept PROVE st.wal[i].of.incarnation <= opens
      BY <1>8
    <3>1. i \in 1..Len(st.wal)
      BY <1>4, <1>7
    <3>2. st.wal[i].of.incarnation <= taken
      BY <1>3, <3>1 DEF Numbered
    <3>3. st.wal[i].of.incarnation \in Nat
      <4>1. st.wal[i] \in Cell
        BY <1>4, <3>1, ElementOfSeq
      <4> QED
        BY <4>1, StoreBounds DEF Cell, Record
    <3> QED
      BY <2>1, <3>2, <3>3
  <2> QED
    BY <1>2, <1>3, <1>5, <2>1, <2>2, <2>3, Zenon DEF Numbered
<1> QED
  BY <1>12, <1>13, <1>14, <1>15 DEF IInv

\* open keeps what a replay finds, and the process holds all of it.
LEMMA OpenIInv ==
  ASSUME IInv, Open
  PROVE  IInv' /\ replays' = replays
<1>1. /\ pc = "down" /\ pc' = "opened" /\ opens < MaxOpens /\ opens' = opens + 1
      /\ issued' = issued /\ failed' = FALSE
      /\ accepted' = recovery_view /\ sound' = recovery_view /\ st' = open(st)
  BY DEF Open
<1>2. Recoverable /\ Numbered
  BY DEF IInv
<1>3. /\ Shape(st') /\ st'.wal = cut(st.wal, 2 * replays)
      /\ st'.synced = 2 * replays /\ st'.log_bytes = 2 * replays
      /\ st'.checkpoint_file = st.checkpoint_file /\ st'.meta = st.meta
      /\ st'.incarnation_counter \in issued..opens
  BY <1>1, OpenMembers, Zenon
<1> DEFINE w == cut(st.wal, 2 * replays)
<1>4. st.wal \in Seq(Cell) /\ st.synced \in Nat /\ Len(st.wal) \in Nat
  BY <1>2, LenProperties DEF Recoverable
<1>5. /\ replays \in Nat /\ 2 * replays <= Len(st.wal)
      /\ w \in Seq(Cell) /\ Len(w) = 2 * replays /\ replayable(w, 0) = replays
      /\ OnDisk(w, 2 * replays, log(st.wal, replays)) /\ Len(log(st.wal, replays)) = replays
      /\ \A i \in 1..(2 * replays) : w[i] = st.wal[i]
  BY <1>4, OnDiskAll DEF replays, cut
<1>6. accepted' = log(st.wal, replays) /\ accepted' \in Seq(Record) /\ Len(accepted') = replays
  BY <1>1, <1>2, View
<1>7. st.checkpoint_file.present => OnDisk(w, 2 * replays, st.checkpoint_file.content)
  <2> DEFINE c == st.checkpoint_file.content
  <2> SUFFICES ASSUME st.checkpoint_file.present PROVE OnDisk(w, 2 * replays, c)
    OBVIOUS
  <2>1. OnDisk(st.wal, st.synced, c)
    BY <1>2 DEF Recoverable
  <2>2. 2 * Len(c) <= 2 * replays
    BY <1>5, <2>1, LenProperties DEF OnDisk, replays
  <2> HIDE DEF c
  <2>3. 2 * replays \in 0..Len(st.wal)
    BY <1>4, <1>5
  <2>4. st.wal \in Seq(Cell) /\ st.synced \in Nat
    BY <1>4
  <2> QED
    BY <2>1, <2>2, <2>3, <2>4, OnDiskCut DEF cut
<1> HIDE DEF w
<1>8. replays' = replays
  BY <1>3, <1>5, Zenon DEF replays, w
<1>9. Recoverable'
  <2>1. 2 * replays \in 0..Len(w) /\ 2 * replays \in 0..(2 * replays) /\ replays <= replays + 1
    BY <1>5
  <2>2. /\ st'.wal = w /\ failed' \in BOOLEAN /\ OnDisk(w, 2 * replays, accepted')
        /\ sound' = accepted'
    BY <1>1, <1>3, <1>5, <1>6 DEF w
  <2> QED
    BY <1>2, <1>3, <1>5, <1>6, <1>7, <1>8, <2>1, <2>2, Zenon DEF Recoverable
<1>10. Closed'
  BY <1>1, <1>6, <1>8 DEF Closed, Phases
<1>11. Numbered'
  <2>1. taken' = opens /\ taken = opens /\ opens \in Nat /\ opens' \in 0..MaxOpens
    BY <1>1, <1>2, StoreBounds DEF Numbered, taken
  <2>2. \A i \in 1..Len(w) : w[i].of.incarnation <= opens
    <3> SUFFICES ASSUME NEW i \in 1..(2 * replays) PROVE st.wal[i].of.incarnation <= opens
      BY <1>5
    <3>1. i \in 1..Len(st.wal)
      BY <1>4, <1>5
    <3> QED
      BY <1>2, <2>1, <3>1 DEF Numbered
  <2>3. st'.wal = w
    BY <1>3 DEF w
  <2> QED
    BY <1>1, <1>2, <1>3, <2>1, <2>2, <2>3, Zenon DEF Numbered
<1> QED
  BY <1>8, <1>9, <1>10, <1>11 DEF IInv

\* Every step keeps the invariant, as long as no process checkpoints a torn
\* log.
LEMMA StepIInv ==
  ASSUME ~CheckpointTorn, IInv, [Next]_vars
  PROVE  IInv'
<1>1. CASE Next
  <2>1. CASE Open
    BY <2>1, OpenIInv
  <2>2. CASE NextIncarnation
    BY <2>2, NextIncarnationIInv
  <2>3. CASE \E kind \in Kinds : AppendRecord(kind)
    BY <2>3, AppendIInv
  <2>4. CASE \E kind \in Kinds, left \in 0..2 : AppendFails(kind, left) \/ CrashInAppend(kind, left)
    BY <2>4, AppendFailsIInv, CrashInAppendIInv
  <2>5. CASE RotateCheckpoint
    BY <2>5, RotateIInv
  <2>6. CASE PlaceCheckpoint
    BY <2>6, PlaceIInv
  <2>7. CASE PublishCheckpoint
    BY <2>7, PublishIInv
  <2>8. CASE AbandonCheckpoint
    BY <2>8, AbandonIInv
  <2>9. CASE MarkCleanShutdown
    BY <2>9, CloseIInv
  <2>10. CASE Crash
    BY <2>10, CrashIInv
  <2> QED
    BY <1>1, <2>1, <2>2, <2>3, <2>4, <2>5, <2>6, <2>7, <2>8, <2>9, <2>10 DEF Next
<1>2. CASE UNCHANGED vars
  <2>1. /\ UNCHANGED <<st, pc, accepted, sound, failed, issued, opens>>
    BY <1>2 DEF vars, held, counts
  <2>2. replays' = replays /\ taken' = taken
    BY <2>1 DEF replays, taken
  <2> QED
    BY <2>1, <2>2 DEF IInv, Recoverable, Closed, Numbered
<1> QED
  BY <1>1, <1>2

-----------------------------------------------------------------------------
(* What the invariant says of a recovery.                                  *)

\* A recovery rebuilds what a process holds exactly when it replays as many
\* records, and extends it otherwise.
Rebuilds ==
  /\ recovery_view \in Seq(Record) /\ Len(recovery_view) = replays
  /\ Continues(recovery_view, sound)
  /\ ~failed => Continues(recovery_view, accepted) /\ replays <= Len(accepted) + 1
  /\ ~failed /\ replays = Len(accepted) => recovery_view = accepted

\* The invariant is what the theorems need of a recovery.
LEMMA InvariantRebuilds ==
  IInv => Rebuilds
<1> SUFFICES ASSUME IInv PROVE Rebuilds
  OBVIOUS
<1>1. Recoverable
  BY DEF IInv
<1>2. recovery_view \in Seq(Record) /\ Len(recovery_view) = replays
  BY <1>1, View, Zenon
<1>3. Continues(recovery_view, sound)
  BY <1>1, Rebuilt, Zenon DEF Recoverable
<1>4. ~failed => Continues(recovery_view, accepted) /\ replays <= Len(accepted) + 1
  BY <1>1, Rebuilt, Zenon DEF Recoverable
<1>5. ~failed /\ replays = Len(accepted) => recovery_view = accepted
  <2>1. recovery_view = log(st.wal, replays)
    BY <1>1, View, Zenon
  <2> QED
    BY <1>1, <2>1, Zenon DEF Recoverable, OnDisk
<1> QED
  BY <1>2, <1>3, <1>4, <1>5 DEF Rebuilds

\* The invariant of every behaviour in which no process checkpoints a torn
\* log.
LEMMA Invariance ==
  ASSUME ~CheckpointTorn
  PROVE  Spec => []IInv
<1>1. Init => IInv
  BY InitIInv
<1>2. IInv /\ [Next]_vars => IInv'
  BY StepIInv
<1> QED
  BY <1>1, <1>2, PTL DEF Spec

\* Type correctness of the store for any number of processes and appends.
THEOREM TypeCorrect ==
  ASSUME ~CheckpointTorn
  PROVE  Spec => []TypeOK
<1>1. IInv => TypeOK
  <2> SUFFICES ASSUME IInv PROVE TypeOK
    OBVIOUS
  <2>1. Recoverable /\ Closed /\ Numbered
    BY DEF IInv
  <2>2. taken \in 0..MaxOpens /\ issued \in 0..MaxOpens
    BY <2>1, StoreBounds DEF Numbered, taken
  <2>3. st.meta.incarnation_counter \in 0..MaxOpens /\ st.incarnation_counter \in 0..MaxOpens
    BY <2>1, <2>2, StoreBounds DEF Numbered
  <2>4. st.log_bytes \in 0..Len(st.wal) \/ pc = "down"
    BY <2>1, LenProperties DEF Recoverable
  <2> QED
    BY <2>1, <2>2, <2>3, <2>4 DEF TypeOK, Recoverable, Closed
<1> QED
  BY <1>1, Invariance, PTL

\* Store::append's promise: what it acknowledged is rebuilt by the recovery
\* after any crash, and at most the one record it was writing comes on top.
THEOREM AcceptedDurable ==
  ASSUME ~CheckpointTorn
  PROVE  Spec => []AcceptedIsDurable
<1>1. Rebuilds => AcceptedIsDurable
  BY DEF Rebuilds, AcceptedIsDurable
<1> QED
  BY <1>1, Invariance, InvariantRebuilds, PTL

\* A failed append takes nothing that was there before it with it, through
\* every later append, crash and restart.
THEOREM EarlierSurvive ==
  ASSUME ~CheckpointTorn
  PROVE  Spec => []EarlierRecordsSurvive
<1>1. Rebuilds => EarlierRecordsSurvive
  BY DEF Rebuilds, EarlierRecordsSurvive
<1> QED
  BY <1>1, Invariance, InvariantRebuilds, PTL

\* A manifest that says clean_shutdown is telling the truth about the log.
THEOREM CleanExact ==
  ASSUME ~CheckpointTorn
  PROVE  Spec => []CleanMeansExact
<1>1. IInv /\ Rebuilds => CleanMeansExact
  BY DEF IInv, Closed, Rebuilds, CleanMeansExact
<1> QED
  BY <1>1, Invariance, InvariantRebuilds, PTL

-----------------------------------------------------------------------------
(* The store implements DurableLog.                                        *)

\* Failures are counted.
Counted == failures \in Nat /\ (failures = 0 => ~failed)

\* A process in which an append failed has been counted.
LEMMA CountedInvariance ==
  Spec => []Counted
<1>1. Init => Counted
  BY DEF Init, Counted
<1>2. Counted /\ [Next]_vars => Counted'
  <2> SUFFICES ASSUME Counted, [Next]_vars PROVE Counted'
    OBVIOUS
  <2>1. CASE Open
    BY <2>1 DEF Open, Counted
  <2>2. CASE \E kind \in Kinds, left \in 0..2 : AppendFails(kind, left)
    <3>1. failures' = failures + 1
      BY <2>2 DEF AppendFails
    <3> QED
      BY <3>1 DEF Counted
  <2>3. CASE UNCHANGED <<failures, failed>>
    BY <2>3 DEF Counted
  <2> QED
    BY <2>1, <2>2, <2>3 DEF Next, NextIncarnation, AppendRecord, CrashInAppend,
       RotateCheckpoint, PlaceCheckpoint, PublishCheckpoint, AbandonCheckpoint,
       MarkCleanShutdown, Crash, vars, held, counts
<1> QED
  BY <1>1, <1>2, PTL DEF Spec

\* A history that grew by one record.
LEMMA GrownByOne ==
  ASSUME NEW s \in Seq(Record), NEW t \in Seq(Record), Continues(t, s), Len(t) = Len(s) + 1
  PROVE  SubSeq(t, 1, Len(s)) = s /\ t[Len(t)] \in Record
<1>1. Len(t) \in 1..Len(t)
  BY LenProperties
<1> QED
  BY <1>1, ElementOfSeq DEF Continues

\* append extends a sequence by its last element.
LEMMA AppendPrefix ==
  ASSUME NEW s \in Seq(Record), NEW r \in Record
  PROVE  /\ Len(Append(s, r)) = Len(s) + 1
         /\ SubSeq(Append(s, r), 1, Len(s)) = s
         /\ Append(s, r)[Len(Append(s, r))] = r
OBVIOUS

\* What every step of the store is to a reader of its promise.
Promised == IF failures' = 0 THEN Abstract!Next ELSE issued' >= issued

\* Every step is a step of the promise, or invisible in it.
LEMMA StepPromised ==
  ASSUME ~CheckpointTorn, IInv, Rebuilds, Rebuilds', Counted, Counted', [Next]_vars
  PROVE  [Promised]_(Abstract!vars)
<1> USE DEF Abstract!vars
<1>0. issued \in Nat
  <2>1. Numbered
    BY DEF IInv
  <2> QED
    BY <2>1 DEF Numbered
<1>1. ASSUME UNCHANGED issued, failures' # 0 PROVE [Promised]_(Abstract!vars)
  BY <1>0, <1>1 DEF Promised
<1>2. ASSUME UNCHANGED <<recovery_view, issued>> PROVE [Promised]_(Abstract!vars)
  BY <1>2
<1>3. ASSUME pc # "down", ~failed, UNCHANGED <<accepted, failed, replays>>
      PROVE  recovery_view' = recovery_view
  <2>1. replays = Len(accepted)
    BY <1>3, Running DEF IInv
  <2>2. recovery_view = accepted
    BY <1>3, <2>1, Zenon DEF Rebuilds
  <2>3. recovery_view' = accepted'
    BY <1>3, <2>1, Zenon DEF Rebuilds
  <2> QED
    BY <1>3, <2>2, <2>3
<1>4. ASSUME pc # "down", UNCHANGED <<accepted, failed, failures, issued>>,
             ~failed => replays' = replays
      PROVE  [Promised]_(Abstract!vars)
  <2>1. CASE failed
    <3>1. failures' # 0
      BY <1>4, <2>1 DEF Counted
    <3> QED
      BY <1>1, <1>4, <3>1
  <2>2. CASE ~failed
    <3>1. recovery_view' = recovery_view
      BY <1>3, <1>4, <2>2
    <3> QED
      BY <1>2, <1>4, <3>1
  <2> QED
    BY <2>1, <2>2
<1>5. CASE Open
  <2>1. replays' = replays /\ accepted' = recovery_view /\ failed' = FALSE /\ issued' = issued
    BY <1>5, OpenIInv DEF Open
  <2>2. replays' = Len(accepted')
    BY <2>1 DEF Rebuilds
  <2>3. recovery_view' = accepted'
    BY <2>1, <2>2, Zenon DEF Rebuilds
  <2> QED
    BY <1>2, <2>1, <2>3
<1>6. CASE NextIncarnation
  <2>1. /\ issued' > issued /\ replays' = replays /\ pc # "down"
        /\ UNCHANGED <<accepted, failed, failures>>
    BY <1>6, NextIncarnationIInv DEF NextIncarnation, held, counts
  <2>2. CASE failed
    <3>1. failures' # 0
      BY <2>1, <2>2 DEF Counted
    <3>2. issued' >= issued
      <4>1. issued' \in Nat
        <5>1. Numbered'
          BY <1>6, NextIncarnationIInv DEF IInv
        <5> QED
          BY <5>1 DEF Numbered
      <4> QED
        BY <1>0, <2>1, <4>1
    <3> QED
      BY <3>1, <3>2 DEF Promised
  <2>3. CASE ~failed
    <3>1. recovery_view' = recovery_view
      BY <1>3, <2>1, <2>3
    <3>2. Abstract!Next /\ issued' >= issued
      <4>1. issued' \in Nat
        <5>1. Numbered'
          BY <1>6, NextIncarnationIInv DEF IInv
        <5> QED
          BY <5>1 DEF Numbered
      <4> QED
        BY <1>0, <2>1, <3>1, <4>1 DEF Abstract!Next, Abstract!Issue
    <3> QED
      BY <3>2 DEF Promised
  <2> QED
    BY <2>2, <2>3
<1>7. ASSUME NEW kind \in Kinds, AppendRecord(kind) PROVE [Promised]_(Abstract!vars)
  <2> DEFINE r == record_of(kind)
  <2>1. /\ pc # "down" /\ pc = "serving" /\ accepted' = Append(accepted, r)
        /\ UNCHANGED <<failed, failures, issued>>
    BY <1>7 DEF AppendRecord
  <2>2. CASE failed
    <3>1. failures' # 0
      BY <2>1, <2>2 DEF Counted
    <3> QED
      BY <1>1, <2>1, <3>1
  <2>3. CASE ~failed
    <3>1. r \in Record /\ accepted \in Seq(Record)
      BY <2>1, RecordTyped DEF IInv, Recoverable
    <3> HIDE DEF r
    <3>2. replays' = replays + 1 /\ replays = Len(accepted)
      BY <1>7, <2>1, <2>3, AppendIInv, Running DEF IInv
    <3>3. /\ Len(Append(accepted, r)) = Len(accepted) + 1
          /\ SubSeq(Append(accepted, r), 1, Len(accepted)) = accepted
          /\ Append(accepted, r)[Len(Append(accepted, r))] = r
      BY <3>1, AppendPrefix
    <3>4. recovery_view = accepted
      BY <2>3, <3>2, Zenon DEF Rebuilds
    <3>5. recovery_view' = accepted'
      BY <2>1, <2>3, <3>2, <3>3, Zenon DEF Rebuilds
    <3>6. Abstract!Grow
      BY <2>1, <3>1, <3>3, <3>4, <3>5 DEF Abstract!Grow
    <3>7. issued' >= issued
      BY <1>0, <2>1
    <3> QED
      BY <3>6, <3>7 DEF Promised, Abstract!Next
  <2> QED
    BY <2>2, <2>3
<1>8. ASSUME NEW kind \in Kinds, NEW left \in 0..2, AppendFails(kind, left)
      PROVE  [Promised]_(Abstract!vars)
  <2>1. failures' = failures + 1 /\ issued' = issued
    BY <1>8 DEF AppendFails
  <2>2. failures' # 0
    BY <2>1 DEF Counted
  <2> QED
    BY <1>1, <2>1, <2>2
<1>9. ASSUME NEW kind \in Kinds, NEW left \in 0..2, CrashInAppend(kind, left)
      PROVE  [Promised]_(Abstract!vars)
  <2>1. /\ pc # "down" /\ pc = "serving"
        /\ st' = append_failed(st, record_of(kind), left)
        /\ UNCHANGED <<accepted, failed, failures, issued>>
    BY <1>9 DEF CrashInAppend, held
  <2>2. replays' \in {replays, replays + 1} /\ replays \in Nat
    BY <2>1, RecordTyped, BrokenAppend, Zenon
  <2>3. CASE failed
    <3>1. failures' # 0
      BY <2>1, <2>3 DEF Counted
    <3> QED
      BY <1>1, <2>1, <3>1
  <2>4. CASE ~failed /\ replays' = replays
    BY <1>4, <2>1, <2>4
  <2>5. CASE ~failed /\ replays' = replays + 1
    <3>1. recovery_view = accepted /\ replays = Len(accepted) /\ accepted \in Seq(Record)
      <4>1. replays = Len(accepted) /\ accepted \in Seq(Record)
        BY <2>1, <2>5, Running DEF IInv, Recoverable
      <4> QED
        BY <2>5, <4>1, Zenon DEF Rebuilds
    <3>2. /\ recovery_view' \in Seq(Record) /\ Len(recovery_view') = replays'
          /\ Continues(recovery_view', accepted)
      BY <2>1, <2>5, Zenon DEF Rebuilds
    <3>3. Len(recovery_view') = Len(accepted) + 1
      BY <2>5, <3>1, <3>2
    <3>4. /\ SubSeq(recovery_view', 1, Len(accepted)) = accepted
          /\ recovery_view'[Len(recovery_view')] \in Record
      BY <3>1, <3>2, <3>3, GrownByOne, Zenon
    <3>5. Abstract!Grow
      BY <2>1, <3>1, <3>3, <3>4, Zenon DEF Abstract!Grow
    <3>6. issued' >= issued
      BY <1>0, <2>1
    <3> QED
      BY <3>5, <3>6 DEF Promised, Abstract!Next
  <2> QED
    BY <2>2, <2>3, <2>4, <2>5
<1>10. CASE RotateCheckpoint
  BY <1>4, <1>10, RotateIInv DEF RotateCheckpoint, held
<1>11. CASE PlaceCheckpoint
  BY <1>4, <1>11, PlaceIInv DEF PlaceCheckpoint, held, counts
<1>12. CASE PublishCheckpoint
  BY <1>4, <1>12, PublishIInv DEF PublishCheckpoint, held, counts
<1>13. CASE AbandonCheckpoint
  BY <1>4, <1>13, AbandonIInv DEF AbandonCheckpoint, held, counts
<1>14. CASE MarkCleanShutdown
  BY <1>4, <1>14, CloseIInv DEF MarkCleanShutdown, held, counts
<1>15. CASE Crash
  BY <1>4, <1>15, CrashIInv DEF Crash, held, counts
<1>16. CASE UNCHANGED vars
  <2>1. UNCHANGED <<st, issued>>
    BY <1>16 DEF vars
  <2>2. recovery_view' = recovery_view
    BY <2>1 DEF recovery_view
  <2> QED
    BY <1>2, <2>1, <2>2
<1> QED
  BY <1>5, <1>6, <1>7, <1>8, <1>9, <1>10, <1>11, <1>12, <1>13, <1>14, <1>15, <1>16 DEF Next

\* The store implements DurableLog: until an append fails, crashes, restarts
\* and checkpoints are invisible in the history a recovery rebuilds, and the
\* incarnations it hands out increase for ever.
THEOREM Refinement ==
  ASSUME ~CheckpointTorn
  PROVE  Spec => ImplementsDurableLog
<1>1. Init /\ IInv /\ Rebuilds => Abstract!Init
  <2> SUFFICES ASSUME Init, Rebuilds, IInv PROVE Abstract!Init
    OBVIOUS
  <2>1. failed = FALSE /\ accepted = <<>> /\ issued = 0
    BY DEF Init
  <2>2. replays = 0
    <3>1. st.wal = <<>> /\ 2 * replays <= Len(st.wal) /\ replays \in Nat
      BY View DEF IInv, Init, empty_store
    <3> QED
      BY <3>1
  <2>3. Len(<<>>) = 0
    OBVIOUS
  <2> QED
    BY <2>1, <2>2, <2>3, Zenon DEF Rebuilds, Abstract!Init
<1>2. IInv /\ Rebuilds /\ Rebuilds' /\ Counted /\ Counted' /\ [Next]_vars
        => [Promised]_(Abstract!vars)
  BY StepPromised
<1> QED
  BY <1>1, <1>2, Invariance, InvariantRebuilds, CountedInvariance, PTL
  DEF Spec, ImplementsDurableLog, Promised

=============================================================================
