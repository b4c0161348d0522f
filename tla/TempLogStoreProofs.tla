------------------------- MODULE TempLogStoreProofs --------------------------
(***************************************************************************)
(* Theorems about TempLogStore, for any logs, values, batch sizes and length *)
(* of the journal.                                                          *)
(***************************************************************************)
EXTENDS TempLogStore, FiniteSetTheorems, TLAPS

-----------------------------------------------------------------------------
(* Finite sets of seqs *)

LEMMA Least ==
  ASSUME NEW S \in SUBSET Nat, S # {}
  PROVE  \E n \in S : \A m \in S : n <= m
<1>1. IsWellFoundedOn(OpToRel(<, Nat), Nat)
  BY NatLessThanWellFounded
<1>2. PICK n \in S : \A m \in S : ~(<<m, n>> \in OpToRel(<, Nat))
  BY <1>1, WFMin
<1>3. \A m \in S : ~(m < n)
  BY <1>2 DEF OpToRel
<1> QED  BY <1>3

LEMMA MinIs ==
  ASSUME NEW S \in SUBSET Nat, S # {}
  PROVE  Min(S) \in S /\ \A n \in S : Min(S) <= n
BY Least DEF Min

LEMMA Greatest ==
  ASSUME NEW n \in Nat, NEW S \in SUBSET (0..n), S # {}
  PROVE  \E m \in S : \A k \in S : k <= m
<1> DEFINE D == {n - k : k \in S}
<1>1. D \in SUBSET Nat /\ D # {}
  <2>1. \A k \in S : n - k \in Nat
    OBVIOUS
  <2> QED  BY <2>1
<1>2. PICK d \in D : \A e \in D : d <= e
  BY <1>1, Least
<1>3. PICK m \in S : d = n - m
  BY <1>2
<1>4. \A k \in S : n - m <= n - k
  BY <1>2, <1>3
<1>5. \A k \in S : k <= m
  BY <1>4
<1> QED  BY <1>5

LEMMA MaxIs ==
  ASSUME NEW n \in Nat, NEW S \in SUBSET (0..n), S # {}
  PROVE  Max(S) \in S /\ \A k \in S : k <= Max(S)
<1>1. \E m \in S : \A k \in S : k <= m
  BY Greatest
<1>2. \E m \in S : \A k \in S : m >= k
  BY <1>1
<1>3. Max(S) \in S /\ \A k \in S : Max(S) >= k
  BY <1>2 DEF Max
<1> QED  BY <1>3

LEMMA Max2 ==
  ASSUME NEW a \in Int, NEW b \in Int
  PROVE  Max({a, b}) = IF a >= b THEN a ELSE b
<1>1. \E x \in {a, b} : \A y \in {a, b} : x >= y
  OBVIOUS
<1>2. Max({a, b}) \in {a, b} /\ \A y \in {a, b} : Max({a, b}) >= y
  BY <1>1 DEF Max
<1> QED  BY <1>2

LEMMA CountIs ==
  ASSUME NEW n \in Nat
  PROVE  IsFiniteSet(1..n) /\ Cardinality(1..n) = n
BY FS_Interval

LEMMA SeqsAreFinite ==
  ASSUME NEW n \in Nat, NEW S \in SUBSET (0..n)
  PROVE  IsFiniteSet(S) /\ Cardinality(S) \in Nat
<1>1. IsFiniteSet(0..n)
  BY FS_Interval
<1> QED  BY <1>1, FS_Subset, FS_CardinalityType

-----------------------------------------------------------------------------
(* through, which advances over what is held *)

\* m is where `through` comes to from t.
Reaches(seen, t, m) == m \in Nat /\ m >= t /\ m + 1 \notin seen /\ (t + 1)..m \subseteq seen

LEMMA ReachesOne ==
  ASSUME NEW S, NEW t \in Nat, NEW m, NEW k, Reaches(S, t, m), Reaches(S, t, k)
  PROVE  m = k
<1>1. m \in Nat /\ k \in Nat /\ m >= t /\ k >= t
  BY DEF Reaches
<1>2. m < k => m + 1 \in (t + 1)..k
  BY <1>1
<1>3. k < m => k + 1 \in (t + 1)..m
  BY <1>1
<1> QED  BY <1>1, <1>2, <1>3 DEF Reaches

\* The code's loop ends, and where is determined.
LEMMA AdvanceIs ==
  ASSUME NEW n \in Nat, NEW S \in SUBSET (0..n), NEW t \in Nat
  PROVE  Reaches(S, t, Advance(S, t))
<1> DEFINE free == {m \in Nat : m >= t /\ m + 1 \notin S}
<1>1. t + n \in free
  OBVIOUS
<1>2. PICK m \in free : \A k \in free : m <= k
  BY <1>1, Least
<1>3. (t + 1)..m \subseteq S
  <2> SUFFICES ASSUME NEW s \in (t + 1)..m PROVE s \in S
    OBVIOUS
  <2>1. s - 1 \in Nat /\ s - 1 >= t /\ s - 1 < m /\ (s - 1) + 1 = s
    OBVIOUS
  <2>2. s - 1 \notin free
    BY <2>1, <1>2
  <2> QED  BY <2>1, <2>2
<1>4. m \in t..(t + Cardinality(S))
  <2>1. IsFiniteSet(S) /\ Cardinality(S) \in Nat
    BY SeqsAreFinite
  <2>2. Cardinality((t + 1)..m) = m - t
    <3>1. t + 1 \in Int /\ m \in Int /\ m >= t
      OBVIOUS
    <3>2. Cardinality((t + 1)..m) = IF t + 1 > m THEN 0 ELSE m - (t + 1) + 1
      BY <3>1, FS_Interval
    <3> QED  BY <3>1, <3>2
  <2>3. Cardinality((t + 1)..m) <= Cardinality(S)
    BY <1>3, <2>1, FS_Subset
  <2> QED  BY <2>1, <2>2, <2>3
<1>5. \E k \in t..(t + Cardinality(S)) : k + 1 \notin S /\ (t + 1)..k \subseteq S
  BY <1>3, <1>4
<1>6. /\ Advance(S, t) \in t..(t + Cardinality(S))
      /\ Advance(S, t) + 1 \notin S /\ (t + 1)..Advance(S, t) \subseteq S
  BY <1>5 DEF Advance
<1>7. Cardinality(S) \in Nat
  BY SeqsAreFinite
<1> QED  BY <1>6, <1>7 DEF Reaches

\* More seqs, or a higher start, never bring it less far.
LEMMA AdvanceGrows ==
  ASSUME NEW S, NEW T, S \subseteq T, NEW t \in Nat, NEW u \in Nat, t <= u,
         NEW m, NEW k, Reaches(S, t, m), Reaches(T, u, k)
  PROVE  m <= k
<1>1. m \in Nat /\ k \in Nat /\ m >= t /\ k >= u
  BY DEF Reaches
<1>2. k < m => k + 1 \in (t + 1)..m
  BY <1>1
<1> QED  BY <1>1, <1>2 DEF Reaches

\* It goes on from where it was as from where it began.
LEMMA AdvanceGoesOn ==
  ASSUME NEW S, NEW T, S \subseteq T, NEW t \in Nat,
         NEW m, NEW k, Reaches(S, t, m), Reaches(T, m, k)
  PROVE  Reaches(T, t, k)
<1>1. m \in Nat /\ k \in Nat /\ m >= t /\ k >= m
  BY DEF Reaches
<1>2. \A s \in (t + 1)..k : s \in (t + 1)..m \/ s \in (m + 1)..k
  BY <1>1
<1> QED  BY <1>1, <1>2 DEF Reaches

-----------------------------------------------------------------------------
(* Seqs in order *)

Below(S, s) == {r \in S : r < s}

LEMMA BelowIs ==
  ASSUME NEW n \in Nat, NEW S \in SUBSET (0..n), NEW s \in S
  PROVE  /\ Cardinality(Below(S, s)) \in Nat /\ Cardinality(S) \in Nat
         /\ Cardinality(Below(S, s)) + 1 <= Cardinality(S)
         /\ \A t \in S : s < t => Cardinality(Below(S, s)) < Cardinality(Below(S, t))
<1>f. \A T \in SUBSET S : IsFiniteSet(T) /\ Cardinality(T) \in Nat
  BY SeqsAreFinite
<1>1. Below(S, s) \in SUBSET S /\ s \notin Below(S, s)
  BY DEF Below
<1>2. Cardinality(Below(S, s) \cup {s}) = Cardinality(Below(S, s)) + 1
  BY <1>1, <1>f, FS_AddElement
<1>3. Below(S, s) \cup {s} \in SUBSET S
  BY <1>1
<1>4. Cardinality(Below(S, s) \cup {s}) <= Cardinality(S)
  BY <1>3, <1>f, FS_Subset
<1>5. ASSUME NEW t \in S, s < t
      PROVE  Cardinality(Below(S, s)) < Cardinality(Below(S, t))
  <2>1. Below(S, s) \cup {s} \in SUBSET Below(S, t) /\ Below(S, t) \in SUBSET S
    <3>1. s \in Nat /\ t \in Nat /\ \A r \in S : r \in Nat
      OBVIOUS
    <3>2. \A r \in S : r < s => r < t
      BY <1>5, <3>1
    <3> QED  BY <1>5, <3>2 DEF Below
  <2>2. Cardinality(Below(S, s) \cup {s}) <= Cardinality(Below(S, t))
    BY <2>1, <1>f, FS_Subset
  <2> QED  BY <1>1, <1>2, <2>1, <2>2, <1>f
<1> QED  BY <1>1, <1>2, <1>4, <1>5, <1>f

\* Each is listed, and once.
LEMMA InOrderIs ==
  ASSUME NEW n \in Nat, NEW S \in SUBSET (0..n)
  PROVE  /\ Cardinality(S) \in Nat
         /\ InOrder(S) \in [1..Cardinality(S) -> S]
         /\ \A s \in S : \E i \in 1..Cardinality(S) : InOrder(S)[i] = s
         /\ \A i, j \in 1..Cardinality(S) : InOrder(S)[i] = InOrder(S)[j] => i = j
<1> DEFINE c == Cardinality(S)
           f == [s \in S |-> Cardinality(Below(S, s)) + 1]
<1>c. IsFiniteSet(S) /\ c \in Nat
  BY SeqsAreFinite
<1>d. IsFiniteSet(1..c) /\ Cardinality(1..c) = c
  BY <1>c, CountIs
<1>b. \A s \in S :
        /\ s \in Nat
        /\ Cardinality(Below(S, s)) \in Nat /\ Cardinality(Below(S, s)) + 1 <= c
        /\ \A t \in S : s < t => Cardinality(Below(S, s)) < Cardinality(Below(S, t))
  <2> SUFFICES ASSUME NEW s \in S
               PROVE  /\ s \in Nat
                      /\ Cardinality(Below(S, s)) \in Nat /\ Cardinality(Below(S, s)) + 1 <= c
                      /\ \A t \in S : s < t => Cardinality(Below(S, s)) < Cardinality(Below(S, t))
    OBVIOUS
  <2>1. s \in Nat
    OBVIOUS
  <2> HIDE DEF f
  <2> QED  BY <2>1, BelowIs
<1>1. f \in [S -> 1..c]
  <2>1. \A s \in S : Cardinality(Below(S, s)) + 1 \in 1..c
    BY <1>b, <1>c
  <2> QED  BY <2>1
<1>2. \A s, t \in S : f[s] = f[t] => s = t
  <2> SUFFICES ASSUME NEW s \in S, NEW t \in S, f[s] = f[t] PROVE s = t
    OBVIOUS
  <2>1. Cardinality(Below(S, s)) = Cardinality(Below(S, t))
    <3>1. Cardinality(Below(S, s)) \in Nat /\ Cardinality(Below(S, t)) \in Nat
      BY <1>b
    <3> QED  BY <3>1
  <2>2. ~(s < t) /\ ~(t < s)
    BY <2>1, <1>b
  <2>3. s \in Nat /\ t \in Nat
    BY <1>b
  <2> QED  BY <2>2, <2>3
<1>3. \A i \in 1..c : \E s \in S : f[s] = i
  <2>1. f \in Injection(S, 1..c)
    BY <1>1, <1>2 DEF Injection, IsInjective
  <2>2. f \in Surjection(S, 1..c)
    BY <2>1, <1>d, FS_Injection
  <2> QED  BY <2>2 DEF Surjection
<1>4. \A i \in 1..c : \E s \in S : Cardinality(Below(S, s)) = i - 1
  <2> SUFFICES ASSUME NEW i \in 1..c PROVE \E s \in S : Cardinality(Below(S, s)) = i - 1
    OBVIOUS
  <2>1. PICK s \in S : f[s] = i
    BY <1>3
  <2>2. Cardinality(Below(S, s)) \in Nat
    BY <1>b
  <2>3. Cardinality(Below(S, s)) = i - 1
    BY <2>1, <2>2
  <2> QED  BY <2>3
<1>5. \A i \in 1..c : InOrder(S)[i] \in S /\ Cardinality(Below(S, InOrder(S)[i])) = i - 1
  BY <1>4 DEF InOrder, Below
<1>6. InOrder(S) \in [1..c -> S]
  BY <1>5 DEF InOrder
<1>7. \A s \in S : \E i \in 1..c : InOrder(S)[i] = s
  <2> SUFFICES ASSUME NEW s \in S PROVE \E i \in 1..c : InOrder(S)[i] = s
    OBVIOUS
  <2>i. PICK i : i = Cardinality(Below(S, s)) + 1
    OBVIOUS
  <2>1. i \in 1..c /\ Cardinality(Below(S, s)) = i - 1
    BY <1>b, <1>c, <2>i
  <2>2. Cardinality(Below(S, InOrder(S)[i])) = i - 1 /\ InOrder(S)[i] \in S
    BY <1>5, <2>1
  <2>o. PICK t \in S : t = InOrder(S)[i]
    BY <2>2
  <2>3. ~(s < t) /\ ~(t < s)
    <3>1. Cardinality(Below(S, s)) = Cardinality(Below(S, t))
      BY <2>1, <2>2, <2>o
    <3> QED  BY <3>1, <1>b
  <2>4. s \in Nat /\ t \in Nat
    BY <1>b
  <2> QED  BY <2>1, <2>o, <2>3, <2>4
<1>8. \A i, j \in 1..c : InOrder(S)[i] = InOrder(S)[j] => i = j
  BY <1>5
<1> QED  BY <1>c, <1>6, <1>7, <1>8

-----------------------------------------------------------------------------
(* Journals *)

Record ==
  [kind : {"start"}, log : Logs, seq : 1..MaxSeq]
    \cup [kind : {"loss"}, log : Logs, seq : 1..MaxSeq, from : 0..MaxSeq]
    \cup [kind : {"sample"}, log : Logs, seq : 1..MaxSeq, value : Values]

LogsOn(j) == {j[i].log : i \in DOMAIN j}

\* What rebuild makes of a log.
Base(j, l) == Max({StartOf(j, l), LossMax(j, l)})
Through(j, l) == Advance(SeqsOf(j, "sample", l), Base(j, l))

\* Every log on the journal has a start line.
Begun(j) == \A i \in DOMAIN j : Of(j, "start", j[i].log) # {}

LEMMA RecordIs ==
  ASSUME NEW r \in Record
  PROVE  /\ r.log \in Logs /\ r.seq \in 1..MaxSeq /\ IsRecord(r)
         /\ r.kind = "loss" => r.from \in 0..MaxSeq
         /\ r # NoTail /\ r # Fragment
<1>1. r.kind \in {"start", "loss", "sample"}
  BY DEF Record
<1>2. NoTail.kind = "none" /\ Fragment.kind = "fragment"
  BY DEF NoTail, Fragment
<1> QED  BY <1>1, <1>2 DEF Record, IsRecord

LEMMA SeqsOfIs ==
  ASSUME StoreAssumption, NEW j \in Seq(Record), NEW k, NEW l
  PROVE  /\ SeqsOf(j, k, l) \in SUBSET (1..MaxSeq)
         /\ SeqsOf(j, k, l) \in SUBSET (0..MaxSeq)
<1>1. \A i \in DOMAIN j : j[i] \in Record
  OBVIOUS
<1>2. \A i \in DOMAIN j : j[i].seq \in 1..MaxSeq
  BY <1>1, RecordIs
<1> QED  BY <1>2 DEF SeqsOf, Of

LEMMA LossMaxIs ==
  ASSUME StoreAssumption, NEW j \in Seq(Record), NEW l
  PROVE  /\ LossMax(j, l) \in 0..MaxSeq
         /\ LossMax(j, l) = 0 \/ LossMax(j, l) \in SeqsOf(j, "loss", l)
         /\ \A s \in SeqsOf(j, "loss", l) : s <= LossMax(j, l)
<1> DEFINE S == {0} \union SeqsOf(j, "loss", l)
<1>0. MaxSeq \in Nat
  BY DEF StoreAssumption
<1>1. S \in SUBSET (0..MaxSeq) /\ S # {}
  BY <1>0, SeqsOfIs
<1>2. Max(S) \in S /\ \A k \in S : k <= Max(S)
  BY <1>0, <1>1, MaxIs
<1>3. LossMax(j, l) = Max(S)
  BY DEF LossMax
<1> HIDE DEF S
<1>4. LossMax(j, l) \in 0..MaxSeq
  BY <1>1, <1>2, <1>3
<1> QED  BY <1>2, <1>3, <1>4 DEF S

\* Where a log with a start line starts.
LEMMA StartOfIs ==
  ASSUME StoreAssumption, NEW j \in Seq(Record), NEW l, Of(j, "start", l) # {}
  PROVE  /\ Min(Of(j, "start", l)) \in Of(j, "start", l)
         /\ \A i \in Of(j, "start", l) : Min(Of(j, "start", l)) <= i
         /\ StartOf(j, l) = j[Min(Of(j, "start", l))].seq - 1
         /\ StartOf(j, l) \in 0..MaxSeq
<1> DEFINE m == Min(Of(j, "start", l))
<1>1. Of(j, "start", l) \in SUBSET Nat
  BY DEF Of
<1>2. m \in Of(j, "start", l) /\ \A i \in Of(j, "start", l) : m <= i
  BY <1>1, MinIs
<1>3. m \in DOMAIN j
  BY <1>2 DEF Of
<1> HIDE DEF m
<1>4. j[m] \in Record
  BY <1>3
<1>5. j[m].seq \in 1..MaxSeq
  BY <1>4, RecordIs
<1>0. MaxSeq \in Nat
  BY DEF StoreAssumption
<1>6. Max({j[m].seq - 1, 0}) = j[m].seq - 1
  BY <1>0, <1>5, Max2
<1>7. StartOf(j, l) = j[m].seq - 1
  BY <1>6 DEF StartOf, m
<1> QED  BY <1>0, <1>2, <1>5, <1>7 DEF m

LEMMA BaseIs ==
  ASSUME StoreAssumption, NEW j \in Seq(Record), NEW l, Of(j, "start", l) # {}
  PROVE  /\ Base(j, l) \in 0..MaxSeq /\ Base(j, l) \in Nat
         /\ Base(j, l) = IF StartOf(j, l) >= LossMax(j, l) THEN StartOf(j, l) ELSE LossMax(j, l)
         /\ Reaches(SeqsOf(j, "sample", l), Base(j, l), Through(j, l))
         /\ Through(j, l) \in 0..MaxSeq
<1>0. MaxSeq \in Nat
  BY DEF StoreAssumption
<1>1. StartOf(j, l) \in 0..MaxSeq /\ LossMax(j, l) \in 0..MaxSeq
  BY StartOfIs, LossMaxIs
<1>2. Base(j, l) = IF StartOf(j, l) >= LossMax(j, l) THEN StartOf(j, l) ELSE LossMax(j, l)
  BY <1>1, Max2 DEF Base
<1>3. Base(j, l) \in 0..MaxSeq /\ Base(j, l) \in Nat
  BY <1>0, <1>1, <1>2
<1>4. SeqsOf(j, "sample", l) \in SUBSET (0..MaxSeq)
  BY SeqsOfIs
<1>5. Reaches(SeqsOf(j, "sample", l), Base(j, l), Through(j, l))
  BY <1>0, <1>3, <1>4, AdvanceIs DEF Through
<1>6. Through(j, l) \in 0..MaxSeq
  <2> DEFINE t == Base(j, l)  m == Through(j, l)  S == SeqsOf(j, "sample", l)
  <2>1. m \in Nat /\ m >= t /\ (t + 1)..m \subseteq S
    BY <1>5 DEF Reaches
  <2> HIDE DEF t, m, S
  <2>2. t \in 0..MaxSeq /\ S \in SUBSET (0..MaxSeq)
    BY <1>3, <1>4 DEF t, S
  <2>3. m > t => m \in (t + 1)..m
    BY <2>1, <2>2
  <2>4. m \in 0..MaxSeq
    BY <2>1, <2>2, <2>3, <1>0
  <2> QED  BY <2>4 DEF m
<1> QED  BY <1>2, <1>3, <1>5, <1>6

LEMMA RebuildIs ==
  ASSUME NEW j
  PROVE  /\ DOMAIN Rebuild(j) = LogsOn(j)
         /\ \A l \in LogsOn(j) : Rebuild(j)[l] = [through |-> Through(j, l), seen |-> SeqsOf(j, "sample", l)]
BY DEF Rebuild, LogsOn, Through, Base

LEMMA RebuiltIs ==
  ASSUME NEW j, NEW l \in LogsOn(j)
  PROVE  Rebuild(j)[l].through = Through(j, l) /\ Rebuild(j)[l].seen = SeqsOf(j, "sample", l)
<1>1. PICK r : r = [through |-> Through(j, l), seen |-> SeqsOf(j, "sample", l)]
  OBVIOUS
<1>2. r.through = Through(j, l) /\ r.seen = SeqsOf(j, "sample", l)
  BY <1>1
<1>3. Rebuild(j)[l] = r
  BY <1>1, RebuildIs
<1> QED  BY <1>2, <1>3

-----------------------------------------------------------------------------
(* A journal that is written on *)

LEMMA OfExtended ==
  ASSUME NEW j \in Seq(Record), NEW d \in Seq(Record), NEW k, NEW l
  PROVE  /\ j \o d \in Seq(Record)
         /\ \A i \in DOMAIN j : i \in DOMAIN (j \o d) /\ (j \o d)[i] = j[i]
         /\ \A i \in DOMAIN d : Len(j) + i \in DOMAIN (j \o d) /\ (j \o d)[Len(j) + i] = d[i]
         /\ \A i \in DOMAIN (j \o d) :
              \/ i \in DOMAIN j
              \/ i > Len(j) /\ i - Len(j) \in DOMAIN d /\ (j \o d)[i] = d[i - Len(j)]
OBVIOUS

LEMMA SeqsExtended ==
  ASSUME NEW j \in Seq(Record), NEW d \in Seq(Record), NEW k, NEW l
  PROVE  SeqsOf(j \o d, k, l) = SeqsOf(j, k, l) \cup SeqsOf(d, k, l)
<1> DEFINE e == j \o d
<1>1. /\ \A i \in DOMAIN j : i \in DOMAIN e /\ e[i] = j[i]
      /\ \A i \in DOMAIN d : Len(j) + i \in DOMAIN e /\ e[Len(j) + i] = d[i]
      /\ \A i \in DOMAIN e : i \in DOMAIN j \/ (i - Len(j) \in DOMAIN d /\ e[i] = d[i - Len(j)])
  BY OfExtended
<1> HIDE DEF e
<1>2. SeqsOf(j, k, l) \subseteq SeqsOf(e, k, l)
  BY <1>1 DEF SeqsOf, Of
<1>3. SeqsOf(d, k, l) \subseteq SeqsOf(e, k, l)
  BY <1>1 DEF SeqsOf, Of
<1>4. SeqsOf(e, k, l) \subseteq SeqsOf(j, k, l) \cup SeqsOf(d, k, l)
  BY <1>1 DEF SeqsOf, Of
<1> QED  BY <1>2, <1>3, <1>4 DEF e

LEMMA LogsExtended ==
  ASSUME NEW j \in Seq(Record), NEW d \in Seq(Record)
  PROVE  LogsOn(j \o d) = LogsOn(j) \cup LogsOn(d)
<1> DEFINE e == j \o d
<1>1. /\ \A i \in DOMAIN j : i \in DOMAIN e /\ e[i] = j[i]
      /\ \A i \in DOMAIN d : Len(j) + i \in DOMAIN e /\ e[Len(j) + i] = d[i]
      /\ \A i \in DOMAIN e : i \in DOMAIN j \/ (i - Len(j) \in DOMAIN d /\ e[i] = d[i - Len(j)])
  BY OfExtended
<1> HIDE DEF e
<1>2. LogsOn(j) \subseteq LogsOn(e) /\ LogsOn(d) \subseteq LogsOn(e)
  BY <1>1 DEF LogsOn
<1>3. LogsOn(e) \subseteq LogsOn(j) \cup LogsOn(d)
  BY <1>1 DEF LogsOn
<1> QED  BY <1>2, <1>3 DEF e

\* The first start line stays the first.
LEMMA StartExtended ==
  ASSUME StoreAssumption, NEW j \in Seq(Record), NEW d \in Seq(Record), NEW l, Of(j, "start", l) # {}
  PROVE  Of(j \o d, "start", l) # {} /\ StartOf(j \o d, l) = StartOf(j, l)
<1> DEFINE e == j \o d
           m == Min(Of(j, "start", l))
           n == Min(Of(e, "start", l))
<1>1. /\ e \in Seq(Record)
      /\ \A i \in DOMAIN j : i \in DOMAIN e /\ e[i] = j[i]
      /\ \A i \in DOMAIN e : i \in DOMAIN j \/ i > Len(j)
      /\ DOMAIN j = 1..Len(j) /\ Len(j) \in Nat /\ DOMAIN e \subseteq Nat
  BY OfExtended
<1>2. m \in Of(j, "start", l) /\ (\A i \in Of(j, "start", l) : m <= i) /\ StartOf(j, l) = j[m].seq - 1
  BY StartOfIs
<1> HIDE DEF e
<1>3. m \in Of(e, "start", l)
  BY <1>1, <1>2 DEF Of
<1>4. n \in Of(e, "start", l) /\ (\A i \in Of(e, "start", l) : n <= i) /\ StartOf(e, l) = e[n].seq - 1
  BY <1>1, <1>3, StartOfIs
<1> HIDE DEF m, n
<1>5. m \in DOMAIN j /\ m \in Nat /\ m <= Len(j) /\ n \in Nat /\ n \in DOMAIN e
  BY <1>1, <1>2, <1>4 DEF Of
<1>6. n <= m
  BY <1>3, <1>4
<1>7. n \in DOMAIN j
  BY <1>1, <1>5, <1>6
<1>8. n \in Of(j, "start", l)
  BY <1>1, <1>4, <1>7 DEF Of
<1>9. n = m
  BY <1>2, <1>5, <1>6, <1>8
<1> QED  BY <1>1, <1>2, <1>3, <1>4, <1>5, <1>9 DEF e

\* What follows never takes `through` back.
LEMMA ThroughGrows ==
  ASSUME StoreAssumption, NEW j \in Seq(Record), NEW d \in Seq(Record), NEW l, Of(j, "start", l) # {}
  PROVE  Base(j, l) <= Base(j \o d, l) /\ Through(j, l) <= Through(j \o d, l)
<1> DEFINE e == j \o d
<1>1. e \in Seq(Record)
  BY OfExtended
<1>2. Of(e, "start", l) # {} /\ StartOf(e, l) = StartOf(j, l)
  BY StartExtended
<1>3. SeqsOf(j, "loss", l) \subseteq SeqsOf(e, "loss", l) /\ SeqsOf(j, "sample", l) \subseteq SeqsOf(e, "sample", l)
  BY SeqsExtended
<1> HIDE DEF e
<1>4. LossMax(j, l) <= LossMax(e, l) /\ LossMax(j, l) \in Nat /\ LossMax(e, l) \in Nat
  <2>1. LossMax(j, l) \in 0..MaxSeq /\ LossMax(e, l) \in 0..MaxSeq /\ MaxSeq \in Nat
    BY <1>1, LossMaxIs DEF StoreAssumption
  <2>2. LossMax(j, l) = 0 \/ LossMax(j, l) \in SeqsOf(e, "loss", l)
    BY <1>3, LossMaxIs
  <2>3. \A s \in SeqsOf(e, "loss", l) : s <= LossMax(e, l)
    BY <1>1, LossMaxIs
  <2> QED  BY <2>1, <2>2, <2>3
<1>5. StartOf(j, l) \in Nat
  BY StartOfIs DEF StoreAssumption
<1>6. Base(j, l) <= Base(e, l) /\ Base(j, l) \in Nat /\ Base(e, l) \in Nat
  <2>1. Base(j, l) = IF StartOf(j, l) >= LossMax(j, l) THEN StartOf(j, l) ELSE LossMax(j, l)
    BY BaseIs
  <2>2. Base(e, l) = IF StartOf(j, l) >= LossMax(e, l) THEN StartOf(j, l) ELSE LossMax(e, l)
    BY <1>1, <1>2, BaseIs
  <2> QED  BY <2>1, <2>2, <1>4, <1>5
<1>7. /\ Reaches(SeqsOf(j, "sample", l), Base(j, l), Through(j, l))
      /\ Reaches(SeqsOf(e, "sample", l), Base(e, l), Through(e, l))
  BY <1>1, <1>2, BaseIs
<1>8. Through(j, l) <= Through(e, l)
  BY <1>3, <1>6, <1>7, AdvanceGrows
<1> QED  BY <1>6, <1>8 DEF e

\* What `through` has passed is accounted for.
EarnedOn(j) == \A l \in LogsOn(j) : \A s \in 1..Through(j, l) : Accounted(j, l, s)

LEMMA AccountedStays ==
  ASSUME StoreAssumption, NEW j \in Seq(Record), NEW d \in Seq(Record), NEW l, Of(j, "start", l) # {},
         NEW s, Accounted(j, l, s)
  PROVE  Accounted(j \o d, l, s)
<1> DEFINE e == j \o d
<1>1. StartOf(e, l) = StartOf(j, l)
  BY StartExtended
<1>2. SeqsOf(j, "sample", l) \subseteq SeqsOf(e, "sample", l)
  BY SeqsExtended
<1>3. \A i \in Of(j, "loss", l) : i \in Of(e, "loss", l) /\ e[i] = j[i]
  BY OfExtended DEF Of
<1> HIDE DEF e
<1>4. Accounted(e, l, s)
  BY <1>1, <1>2, <1>3 DEF Accounted
<1> QED  BY <1>4 DEF e

LEMMA BegunExtended ==
  ASSUME StoreAssumption, NEW j \in Seq(Record), NEW d \in Seq(Record), Begun(j),
         \A i \in DOMAIN d : Of(j, "start", d[i].log) # {} \/ Of(d, "start", d[i].log) # {}
  PROVE  Begun(j \o d)
<1> DEFINE e == j \o d
<1>1. /\ \A i \in DOMAIN j : i \in DOMAIN e /\ e[i] = j[i]
      /\ \A i \in DOMAIN d : Len(j) + i \in DOMAIN e /\ e[Len(j) + i] = d[i]
      /\ \A i \in DOMAIN e : i \in DOMAIN j \/ (i - Len(j) \in DOMAIN d /\ e[i] = d[i - Len(j)])
  BY OfExtended
<1>2. \A l : Of(j, "start", l) # {} \/ Of(d, "start", l) # {} => Of(e, "start", l) # {}
  <2> HIDE DEF e
  <2> SUFFICES ASSUME NEW l, Of(j, "start", l) # {} \/ Of(d, "start", l) # {}
               PROVE  Of(e, "start", l) # {}
    OBVIOUS
  <2>1. CASE Of(j, "start", l) # {}
    BY <2>1, <1>1 DEF Of
  <2>2. CASE Of(d, "start", l) # {}
    BY <2>2, <1>1 DEF Of
  <2> QED  BY <2>1, <2>2
<1> HIDE DEF e
<1>3. Begun(e)
  BY <1>1, <1>2 DEF Begun
<1> QED  BY <1>3 DEF e

\* A loss that begins where `through` stands leaves nothing unaccounted.
LEMMA EarnedExtended ==
  ASSUME StoreAssumption, NEW j \in Seq(Record), NEW d \in Seq(Record), Begun(j), Begun(j \o d), EarnedOn(j),
         \A i \in DOMAIN d : d[i].kind = "loss" =>
           IF d[i].log \in LogsOn(j) THEN d[i].from <= Through(j, d[i].log) + 1 ELSE d[i].from <= 1
  PROVE  EarnedOn(j \o d)
<1> DEFINE e == j \o d
<1>1. e \in Seq(Record)
  BY OfExtended
<1> SUFFICES ASSUME NEW l \in LogsOn(e), NEW s \in 1..Through(e, l) PROVE Accounted(e, l, s)
  BY DEF EarnedOn
<1>2. Of(e, "start", l) # {}
  BY DEF LogsOn, Begun
<1>j. ASSUME l \in LogsOn(j), s <= Through(j, l) PROVE Accounted(e, l, s)
  <2>1. Of(j, "start", l) # {}
    BY <1>j DEF LogsOn, Begun
  <2>2. Through(j, l) \in Nat
    BY <2>1, BaseIs DEF StoreAssumption
  <2>3. Accounted(j, l, s)
    BY <1>j, <2>2 DEF EarnedOn
  <2> QED  BY <2>1, <2>3, AccountedStays
<1>3. /\ \A i \in DOMAIN j : i \in DOMAIN e /\ e[i] = j[i]
      /\ \A i \in DOMAIN e : i \in DOMAIN j \/ (i - Len(j) \in DOMAIN d /\ e[i] = d[i - Len(j)])
  BY OfExtended
<1>4. ASSUME l \in LogsOn(j)
      PROVE  /\ LossMax(j, l) \in Nat /\ Through(j, l) \in Nat /\ LossMax(j, l) <= Through(j, l)
             /\ \A i \in Of(j, "loss", l) : j[i].seq <= LossMax(j, l)
  <2>1. Of(j, "start", l) # {}
    BY <1>4 DEF LogsOn, Begun
  <2>2. LossMax(j, l) \in 0..MaxSeq /\ StartOf(j, l) \in 0..MaxSeq /\ MaxSeq \in Nat
    BY <2>1, LossMaxIs, StartOfIs DEF StoreAssumption
  <2>3. /\ Base(j, l) = IF StartOf(j, l) >= LossMax(j, l) THEN StartOf(j, l) ELSE LossMax(j, l)
        /\ Through(j, l) \in 0..MaxSeq
        /\ Reaches(SeqsOf(j, "sample", l), Base(j, l), Through(j, l))
    BY <2>1, BaseIs
  <2>4. Through(j, l) >= Base(j, l)
    BY <2>3 DEF Reaches
  <2>5. \A q \in SeqsOf(j, "loss", l) : q <= LossMax(j, l)
    BY LossMaxIs
  <2>6. \A i \in Of(j, "loss", l) : j[i].seq <= LossMax(j, l)
    BY <2>5 DEF SeqsOf
  <2> QED  BY <2>2, <2>3, <2>4, <2>6
<1>5. /\ Base(e, l) \in 0..MaxSeq
      /\ Base(e, l) = IF StartOf(e, l) >= LossMax(e, l) THEN StartOf(e, l) ELSE LossMax(e, l)
      /\ Reaches(SeqsOf(e, "sample", l), Base(e, l), Through(e, l))
  BY <1>1, <1>2, BaseIs
<1>6. LossMax(e, l) \in 0..MaxSeq /\ (LossMax(e, l) = 0 \/ LossMax(e, l) \in SeqsOf(e, "loss", l))
  BY <1>1, LossMaxIs
<1> HIDE DEF e
<1>7. CASE s > Base(e, l)
  <2>1. s \in (Base(e, l) + 1)..Through(e, l)
    BY <1>5, <1>7
  <2> QED  BY <2>1, <1>5 DEF Reaches, Accounted
<1>8. CASE s <= StartOf(e, l)
  BY <1>8 DEF Accounted
<1>9. CASE ~(s > Base(e, l)) /\ ~(s <= StartOf(e, l))
  <2>0. s \in Nat /\ s >= 1 /\ StartOf(e, l) \in Nat /\ Base(e, l) \in Nat
    BY <1>1, <1>2, <1>5, StartOfIs DEF StoreAssumption
  <2>1. s <= LossMax(e, l)
    BY <1>9, <1>5, <2>0
  <2>2. LossMax(e, l) \in SeqsOf(e, "loss", l)
    <3>1. LossMax(e, l) # 0
      BY <2>0, <2>1
    <3> QED  BY <3>1, <1>1, LossMaxIs
  <2>3. PICK i \in Of(e, "loss", l) : e[i].seq = LossMax(e, l)
    BY <2>2 DEF SeqsOf
  <2>4. i \in DOMAIN e /\ e[i].kind = "loss" /\ e[i].log = l
    BY DEF Of
  <2>5. CASE i \in DOMAIN j
    <3>1. i \in Of(j, "loss", l) /\ l \in LogsOn(j) /\ e[i] = j[i]
      BY <2>4, <2>5, <1>3 DEF Of, LogsOn
    <3>2. s <= Through(j, l)
      <4>1. LossMax(e, l) <= LossMax(j, l) /\ LossMax(j, l) <= Through(j, l)
        BY <3>1, <2>3, <1>4
      <4>2. LossMax(j, l) \in Nat /\ Through(j, l) \in Nat /\ LossMax(e, l) \in Nat
        BY <3>1, <1>4, <1>1, LossMaxIs DEF StoreAssumption
      <4> QED  BY <4>1, <4>2, <2>0, <2>1
    <3> QED  BY <3>1, <3>2, <1>j
  <2>6. CASE i \notin DOMAIN j
    <3>1. i - Len(j) \in DOMAIN d /\ e[i] = d[i - Len(j)]
      BY <2>4, <2>6, <1>3
    <3>2. IF l \in LogsOn(j) THEN e[i].from <= Through(j, l) + 1 ELSE e[i].from <= 1
      BY <3>1, <2>4
    <3>3. e[i].from \in 0..MaxSeq
      BY <1>1, <2>4, RecordIs
    <3>4. CASE e[i].from <= s
      BY <3>4, <2>1, <2>3 DEF Accounted
    <3>5. CASE ~(e[i].from <= s)
      <4>1. l \in LogsOn(j)
        BY <3>2, <3>3, <3>5, <2>0
      <4>2. s <= Through(j, l)
        BY <4>1, <3>2, <3>3, <3>5, <2>0, <1>4
      <4> QED  BY <4>1, <4>2, <1>j
    <3> QED  BY <3>4, <3>5
  <2> QED  BY <2>5, <2>6
<1> QED  BY <1>7, <1>8, <1>9

-----------------------------------------------------------------------------
(* The plan of a batch *)

\* What the proofs need of a batch.
Fits(b) ==
  /\ b.log \in Logs /\ b.first \in 1..MaxSeq /\ b.lost \in {0, b.first - 1}
  /\ DOMAIN b.samples \subseteq 1..MaxSeq
  /\ \A s \in DOMAIN b.samples : b.samples[s] \in Values

LEMMA BatchIs ==
  ASSUME StoreAssumption, NEW b, Fits(b)
  PROVE  /\ b.log \in Logs /\ b.first \in 1..MaxSeq /\ b.lost \in {0, b.first - 1}
         /\ DOMAIN b.samples \subseteq 1..MaxSeq
         /\ \A s \in DOMAIN b.samples : b.samples[s] \in Values
BY DEF Fits

\* The batches of StoreSpec.
Offered == {c \in Batches : \A s \in DOMAIN c.samples : s <= MaxSeq}

LEMMA OfferedFits ==
  ASSUME StoreAssumption, NEW b \in Offered
  PROVE  Fits(b)
<1>1. PICK f \in 1..MaxSeq, n \in 1..MaxSamples :
        b \in [log : Logs, first : {f}, lost : {0, f - 1}, samples : [f..(f + n - 1) -> Values]]
  <2>1. \E f \in 1..MaxSeq, n \in 1..MaxSamples : b \in BatchesFrom(f, n)
    BY DEF Offered, Batches
  <2> QED  BY <2>1 DEF BatchesFrom
<1>2. /\ b.log \in Logs /\ b.first = f /\ b.lost \in {0, f - 1}
      /\ b.samples \in [f..(f + n - 1) -> Values]
  BY <1>1
<1>3. \A s \in DOMAIN b.samples : s \in f..(f + n - 1) /\ s <= MaxSeq /\ b.samples[s] \in Values
  BY <1>2 DEF Offered
<1>4. DOMAIN b.samples \subseteq 1..MaxSeq
  BY <1>3 DEF StoreAssumption
<1> QED  BY <1>2, <1>3, <1>4 DEF Fits

\* The store is as the file says.
Agrees == StoreAssumption /\ OnFile \in Seq(Record) /\ Begun(OnFile) /\ logs = Rebuild(OnFile)

LEMMA JoinedIs ==
  ASSUME Agrees, NEW b, Fits(b)
  PROVE  /\ FirstContact(b) <=> b.log \notin LogsOn(OnFile)
         /\ ~FirstContact(b) =>
              /\ Of(OnFile, "start", b.log) # {}
              /\ Joined(b) = Through(OnFile, b.log)
              /\ SeenBefore(b) = SeqsOf(OnFile, "sample", b.log)
         /\ FirstContact(b) => Joined(b) = b.first - 1 /\ SeenBefore(b) = {}
         /\ Joined(b) \in 0..MaxSeq
         /\ Added(b) \subseteq 1..MaxSeq /\ Added(b) \subseteq DOMAIN b.samples
<1>0. MaxSeq \in Nat /\ b.first \in 1..MaxSeq
  BY BatchIs DEF Agrees, StoreAssumption
<1>1. FirstContact(b) <=> b.log \notin LogsOn(OnFile)
  BY RebuildIs DEF Agrees, FirstContact
<1>2. ASSUME ~FirstContact(b)
      PROVE  /\ Of(OnFile, "start", b.log) # {}
             /\ Joined(b) = Through(OnFile, b.log)
             /\ SeenBefore(b) = SeqsOf(OnFile, "sample", b.log)
             /\ Joined(b) \in 0..MaxSeq
  <2>1. Of(OnFile, "start", b.log) # {}
    BY <1>1, <1>2 DEF Agrees, Begun, LogsOn
  <2>2. logs[b.log] = [through |-> Through(OnFile, b.log), seen |-> SeqsOf(OnFile, "sample", b.log)]
    BY <1>1, <1>2, RebuildIs DEF Agrees
  <2>3. Through(OnFile, b.log) \in 0..MaxSeq
    BY <2>1, BaseIs DEF Agrees
  <2> QED  BY <1>2, <2>1, <2>2, <2>3 DEF Joined, SeenBefore
<1>3. ASSUME FirstContact(b)
      PROVE  Joined(b) = b.first - 1 /\ SeenBefore(b) = {} /\ Joined(b) \in 0..MaxSeq
  <2>1. Max({b.first - 1, 0}) = b.first - 1
    BY <1>0, Max2
  <2> QED  BY <1>0, <1>3, <2>1 DEF Joined, SeenBefore
<1>4. Added(b) \subseteq 1..MaxSeq /\ Added(b) \subseteq DOMAIN b.samples
  BY BatchIs DEF Added, Agrees
<1> QED  BY <1>1, <1>2, <1>3, <1>4

\* Line i of a plan is r.
PlannedAt(b, i, r) ==
  \/ FirstContact(b) /\ i = 1 /\ r = Start(b.log, b.first)
  \/ b.lost > Joined(b) /\ r = Loss(b.log, Joined(b) + 1, b.lost)
  \/ FirstContact(b) /\ b.lost > 0 /\ r = Loss(b.log, Unknown, b.lost)
  \/ \E s \in Added(b) : r = Sample(b.log, s, b.samples[s])

LEMMA PlanIs ==
  ASSUME Agrees, NEW b, Fits(b)
  PROVE  LET P == PlanRecords(b) IN
         /\ P \in Seq(Record)
         /\ \A i \in DOMAIN P : PlannedAt(b, i, P[i])
         /\ FirstContact(b) => 1 \in DOMAIN P /\ P[1] = Start(b.log, b.first)
         /\ \A s \in Added(b) : \E i \in DOMAIN P : P[i] = Sample(b.log, s, b.samples[s])
         /\ b.lost > Joined(b) => \E i \in DOMAIN P : P[i] = Loss(b.log, Joined(b) + 1, b.lost)
         /\ FirstContact(b) /\ b.lost > 0 => \E i \in DOMAIN P : P[i].kind = "loss" /\ P[i].seq = b.lost
         /\ \A i, k \in DOMAIN P :
              P[i].kind = "sample" /\ P[k].kind = "sample" /\ P[i].seq = P[k].seq => i = k
<1> DEFINE first == IF FirstContact(b) THEN <<Start(b.log, b.first)>> ELSE <<>>
           c == Cardinality(Added(b))
           q == InOrder(Added(b))
           A == [i \in 1..c |-> LET s == q[i] IN Sample(b.log, s, b.samples[s])]
           P == PlanRecords(b)
<1>0. /\ MaxSeq \in Nat /\ b.log \in Logs /\ b.first \in 1..MaxSeq /\ b.lost \in {0, b.first - 1}
      /\ \A s \in DOMAIN b.samples : b.samples[s] \in Values
  BY BatchIs DEF Agrees, StoreAssumption
<1>j. /\ Joined(b) \in 0..MaxSeq
      /\ FirstContact(b) => Joined(b) = b.first - 1
      /\ Added(b) \subseteq 1..MaxSeq /\ Added(b) \subseteq DOMAIN b.samples
  BY JoinedIs
<1>q. /\ c \in Nat /\ q \in [1..c -> Added(b)]
      /\ \A s \in Added(b) : \E i \in 1..c : q[i] = s
      /\ \A i, k \in 1..c : q[i] = q[k] => i = k
  <2>1. Added(b) \in SUBSET (0..MaxSeq)
    BY <1>0, <1>j
  <2> QED  BY <1>0, <2>1, InOrderIs
<1>r. /\ Start(b.log, b.first) \in Record
      /\ b.lost > Joined(b) => Loss(b.log, Joined(b) + 1, b.lost) \in Record
      /\ b.lost > 0 => Loss(b.log, Unknown, b.lost) \in Record
      /\ \A s \in Added(b) : Sample(b.log, s, b.samples[s]) \in Record
  <2>1. Start(b.log, b.first) \in Record
    BY <1>0 DEF Start, Record
  <2>2. b.lost \in 0..MaxSeq
    BY <1>0
  <2>3. ASSUME b.lost > 0 PROVE Loss(b.log, Unknown, b.lost) \in Record
    BY <1>0, <2>2, <2>3 DEF Loss, Unknown, Record
  <2>4. ASSUME b.lost > Joined(b) PROVE Loss(b.log, Joined(b) + 1, b.lost) \in Record
    <3>1. Joined(b) + 1 \in 0..MaxSeq /\ b.lost \in 1..MaxSeq
      BY <1>0, <1>j, <2>2, <2>4
    <3> QED  BY <1>0, <3>1 DEF Loss, Record
  <2>5. ASSUME NEW s \in Added(b) PROVE Sample(b.log, s, b.samples[s]) \in Record
    BY <1>0, <1>j, <2>5 DEF Sample, Record
  <2> QED  BY <2>1, <2>3, <2>4, <2>5
<1>a. /\ A \in Seq(Record) /\ Len(A) = c
      /\ \A i \in 1..c : q[i] \in Added(b) /\ A[i] = Sample(b.log, q[i], b.samples[q[i]])
  BY <1>q, <1>r
<1>k. /\ Start(b.log, b.first).kind = "start"
      /\ \A f : Loss(b.log, f, b.lost).kind = "loss" /\ Loss(b.log, f, b.lost).seq = b.lost
      /\ \A s, v : Sample(b.log, s, v).kind = "sample" /\ Sample(b.log, s, v).seq = s
  BY DEF Start, Loss, Sample
<1>P. P = first \o LossRecords(b) \o A
  BY DEF PlanRecords
<1> HIDE DEF A, P, q, c
\* The lines before the samples.
<1>h. PICK h : h = first \o LossRecords(b)
  OBVIOUS
<1>1. /\ h \in Seq(Record) /\ Len(h) \in Nat
      /\ \A i \in DOMAIN h : h[i].kind # "sample" /\ PlannedAt(b, i, h[i])
      /\ FirstContact(b) => 1 \in DOMAIN h /\ h[1] = Start(b.log, b.first)
      /\ b.lost > Joined(b) => \E i \in DOMAIN h : h[i] = Loss(b.log, Joined(b) + 1, b.lost)
      /\ FirstContact(b) /\ b.lost > 0 => \E i \in DOMAIN h : h[i].kind = "loss" /\ h[i].seq = b.lost
  <2>a. CASE b.lost > Joined(b)
    <3>1. ~FirstContact(b)
      BY <2>a, <1>0, <1>j
    <3>2. h = <<Loss(b.log, Joined(b) + 1, b.lost)>>
      BY <2>a, <3>1, <1>h DEF LossRecords
    <3> QED  BY <2>a, <3>1, <3>2, <1>r, <1>k DEF PlannedAt
  <2>b. CASE ~(b.lost > Joined(b)) /\ FirstContact(b) /\ b.lost > 0
    <3>1. LossRecords(b) = <<Loss(b.log, Unknown, b.lost)>>
      BY <2>b DEF LossRecords
    <3>x. PICK x, y : x = Start(b.log, b.first) /\ y = Loss(b.log, Unknown, b.lost)
      OBVIOUS
    <3>h. h = <<x>> \o <<y>>
      BY <2>b, <3>1, <3>x, <1>h
    <3>r. x \in Record /\ y \in Record
      BY <2>b, <3>x, <1>r
    <3>2. h \in Seq(Record) /\ Len(h) = 2 /\ DOMAIN h = {1, 2} /\ h[1] = x /\ h[2] = y
      <4> HIDE DEF first
      <4>1. <<x>> \in Seq(Record) /\ <<y>> \in Seq(Record)
        BY <3>r
      <4> QED  BY <3>h, <4>1
    <3> QED  BY <2>b, <3>2, <3>x, <1>r, <1>k DEF PlannedAt
  <2>c. CASE ~(b.lost > Joined(b)) /\ ~(FirstContact(b) /\ b.lost > 0)
    <3>1. LossRecords(b) = <<>>
      BY <2>c DEF LossRecords
    <3>2. CASE FirstContact(b)
      <4>1. h = <<Start(b.log, b.first)>>
        BY <3>1, <3>2, <1>h
      <4> QED  BY <2>c, <3>2, <4>1, <1>r, <1>k DEF PlannedAt
    <3>3. CASE ~FirstContact(b)
      <4>1. h = <<>>
        BY <3>1, <3>3, <1>h
      <4> QED  BY <2>c, <3>3, <4>1
    <3> QED  BY <3>2, <3>3
  <2> QED  BY <2>a, <2>b, <2>c
<1>2. P = h \o A
  BY <1>P, <1>h
<1>3. /\ P \in Seq(Record)
      /\ \A i \in DOMAIN h : i \in DOMAIN P /\ P[i] = h[i]
      /\ \A i \in 1..c : Len(h) + i \in DOMAIN P /\ P[Len(h) + i] = A[i]
      /\ \A i \in DOMAIN P :
           \/ i \in DOMAIN h
           \/ i \in Nat /\ i - Len(h) \in 1..c /\ P[i] = A[i - Len(h)]
  BY <1>1, <1>2, <1>a
<1>4. \A i \in DOMAIN P : PlannedAt(b, i, P[i])
  <2> SUFFICES ASSUME NEW i \in DOMAIN P PROVE PlannedAt(b, i, P[i])
    OBVIOUS
  <2>1. CASE i \in DOMAIN h
    BY <2>1, <1>1, <1>3
  <2>2. CASE i \notin DOMAIN h
    <3>1. i - Len(h) \in 1..c /\ P[i] = A[i - Len(h)]
      BY <2>2, <1>3
    <3>2. q[i - Len(h)] \in Added(b) /\ P[i] = Sample(b.log, q[i - Len(h)], b.samples[q[i - Len(h)]])
      BY <3>1, <1>a
    <3> QED  BY <3>2 DEF PlannedAt
  <2> QED  BY <2>1, <2>2
<1>5. \A s \in Added(b) : \E i \in DOMAIN P : P[i] = Sample(b.log, s, b.samples[s])
  <2> SUFFICES ASSUME NEW s \in Added(b) PROVE \E i \in DOMAIN P : P[i] = Sample(b.log, s, b.samples[s])
    OBVIOUS
  <2>1. PICK i \in 1..c : q[i] = s
    BY <1>q
  <2>2. A[i] = Sample(b.log, s, b.samples[s])
    BY <2>1, <1>a
  <2> QED  BY <2>2, <1>3
<1>6. /\ FirstContact(b) => 1 \in DOMAIN P /\ P[1] = Start(b.log, b.first)
      /\ b.lost > Joined(b) => \E i \in DOMAIN P : P[i] = Loss(b.log, Joined(b) + 1, b.lost)
      /\ FirstContact(b) /\ b.lost > 0 => \E i \in DOMAIN P : P[i].kind = "loss" /\ P[i].seq = b.lost
  BY <1>1, <1>3
<1>7. \A i, k \in DOMAIN P :
        P[i].kind = "sample" /\ P[k].kind = "sample" /\ P[i].seq = P[k].seq => i = k
  <2> SUFFICES ASSUME NEW i \in DOMAIN P, NEW k \in DOMAIN P,
                      P[i].kind = "sample", P[k].kind = "sample", P[i].seq = P[k].seq
               PROVE  i = k
    OBVIOUS
  <2>1. i \notin DOMAIN h /\ k \notin DOMAIN h
    BY <1>1, <1>3
  <2>2. /\ i \in Nat /\ i - Len(h) \in 1..c /\ P[i] = A[i - Len(h)]
        /\ k \in Nat /\ k - Len(h) \in 1..c /\ P[k] = A[k - Len(h)]
    BY <2>1, <1>3
  <2>3. q[i - Len(h)] = q[k - Len(h)]
    BY <2>2, <1>a, <1>k
  <2>4. i - Len(h) = k - Len(h)
    BY <2>2, <2>3, <1>q
  <2> QED  BY <2>2, <2>4, <1>1
<1> QED  BY <1>3, <1>4, <1>5, <1>6, <1>7 DEF P

\* What a line of the plan is.
LEMMA PlannedIs ==
  ASSUME NEW b, NEW i, NEW r, PlannedAt(b, i, r)
  PROVE  /\ r.log = b.log
         /\ r.kind = "start" => FirstContact(b) /\ i = 1 /\ r.seq = b.first
         /\ r.kind = "loss" =>
              /\ r.seq = b.lost
              /\ \/ b.lost > Joined(b) /\ r.from = Joined(b) + 1
                 \/ FirstContact(b) /\ b.lost > 0 /\ r.from = 0
         /\ r.kind = "sample" => r.seq \in Added(b)
<1>1. CASE r = Start(b.log, b.first) /\ FirstContact(b) /\ i = 1
  BY <1>1 DEF Start
<1>2. CASE r = Loss(b.log, Joined(b) + 1, b.lost) /\ b.lost > Joined(b)
  BY <1>2 DEF Loss
<1>3. CASE r = Loss(b.log, Unknown, b.lost) /\ FirstContact(b) /\ b.lost > 0
  BY <1>3 DEF Loss, Unknown
<1>4. CASE \E s \in Added(b) : r = Sample(b.log, s, b.samples[s])
  BY <1>4 DEF Sample
<1> QED  BY <1>1, <1>2, <1>3, <1>4 DEF PlannedAt

\* A sample is on the journal once.
Once(j) ==
  \A i, k \in DOMAIN j :
    j[i].kind = "sample" /\ j[k].kind = "sample" /\ j[i].log = j[k].log /\ j[i].seq = j[k].seq => i = k

\* What holds of the file whatever part of a plan was written last.
Sound(j) == j \in Seq(Record) /\ Begun(j) /\ EarnedOn(j) /\ Once(j)

\* d is a plan, or begins one.
Begins(d, b) ==
  /\ d \in Seq(Record)
  /\ \A i \in DOMAIN d : PlannedAt(b, i, d[i])
  /\ FirstContact(b) /\ d # <<>> => 1 \in DOMAIN d /\ d[1] = Start(b.log, b.first)
  /\ \A i, k \in DOMAIN d :
       d[i].kind = "sample" /\ d[k].kind = "sample" /\ d[i].seq = d[k].seq => i = k

LEMMA PrefixBegins ==
  ASSUME Agrees, NEW b, Fits(b), NEW k \in 0..Len(PlanRecords(b))
  PROVE  Begins(SubSeq(PlanRecords(b), 1, k), b) /\ Begins(PlanRecords(b), b)
<1> DEFINE P == PlanRecords(b)
           d == SubSeq(P, 1, k)
<1>1. /\ P \in Seq(Record)
      /\ \A i \in DOMAIN P : PlannedAt(b, i, P[i])
      /\ FirstContact(b) => 1 \in DOMAIN P /\ P[1] = Start(b.log, b.first)
      /\ \A i, m \in DOMAIN P :
           P[i].kind = "sample" /\ P[m].kind = "sample" /\ P[i].seq = P[m].seq => i = m
  BY PlanIs
<1> HIDE DEF P
<1>2. /\ d \in Seq(Record) /\ Len(d) = k /\ DOMAIN d = 1..k /\ k \in Nat
      /\ \A i \in 1..k : i \in DOMAIN P /\ d[i] = P[i]
  BY <1>1 DEF P
<1>3. d # <<>> => 1 \in 1..k
  BY <1>2
<1> HIDE DEF d
<1>4. Begins(d, b)
  BY <1>1, <1>2, <1>3 DEF Begins
<1>5. Begins(P, b)
  BY <1>1 DEF Begins
<1> QED  BY <1>4, <1>5 DEF P, d

\* A part of a plan keeps the journal sound and takes no `through` back.
LEMMA SoundExtended ==
  ASSUME Agrees, Sound(OnFile), NEW b, Fits(b), NEW d, Begins(d, b)
  PROVE  /\ Sound(OnFile \o d)
         /\ LogsOn(OnFile) \subseteq LogsOn(OnFile \o d)
         /\ \A l \in LogsOn(OnFile) : Through(OnFile, l) <= Through(OnFile \o d, l)
<1>j. PICK j : j = OnFile
  OBVIOUS
<1>a. StoreAssumption /\ Begun(j) /\ j \in Seq(Record) /\ EarnedOn(j) /\ Once(j)
  BY <1>j DEF Agrees, Sound
<1>d. /\ d \in Seq(Record)
      /\ \A i \in DOMAIN d : PlannedAt(b, i, d[i])
      /\ FirstContact(b) /\ d # <<>> => 1 \in DOMAIN d /\ d[1] = Start(b.log, b.first)
      /\ \A i, k \in DOMAIN d :
           d[i].kind = "sample" /\ d[k].kind = "sample" /\ d[i].seq = d[k].seq => i = k
  BY DEF Begins
<1>b. /\ FirstContact(b) <=> b.log \notin LogsOn(j)
      /\ ~FirstContact(b) =>
           /\ Of(j, "start", b.log) # {}
           /\ Joined(b) = Through(j, b.log)
           /\ SeenBefore(b) = SeqsOf(j, "sample", b.log)
      /\ FirstContact(b) => Joined(b) = b.first - 1
      /\ Joined(b) \in 0..MaxSeq /\ MaxSeq \in Nat
  BY <1>j, JoinedIs DEF Agrees, StoreAssumption
<1>c. b.lost \in {0, b.first - 1} /\ b.first \in 1..MaxSeq
  BY <1>a, BatchIs
<1>e. PICK e : e = j \o d
  OBVIOUS
<1>1. /\ e \in Seq(Record)
      /\ \A i \in DOMAIN j : i \in DOMAIN e /\ e[i] = j[i]
      /\ \A i \in DOMAIN e : i \in DOMAIN j \/ (i > Len(j) /\ i - Len(j) \in DOMAIN d /\ e[i] = d[i - Len(j)])
  BY <1>a, <1>d, <1>e, OfExtended
<1>2. Begun(e)
  <2>1. \A i \in DOMAIN d : Of(j, "start", d[i].log) # {} \/ Of(d, "start", d[i].log) # {}
    <3> SUFFICES ASSUME NEW i \in DOMAIN d
                 PROVE  Of(j, "start", d[i].log) # {} \/ Of(d, "start", d[i].log) # {}
      OBVIOUS
    <3>1. d[i].log = b.log
      BY <1>d, PlannedIs
    <3>2. CASE FirstContact(b)
      <4>1. d # <<>>
        OBVIOUS
      <4>2. 1 \in Of(d, "start", b.log)
        BY <3>2, <4>1, <1>d DEF Of, Start
      <4> QED  BY <3>1, <4>2
    <3>3. CASE ~FirstContact(b)
      BY <3>1, <3>3, <1>b
    <3> QED  BY <3>2, <3>3
  <2> QED  BY <2>1, <1>a, <1>d, <1>e, BegunExtended
<1>3. EarnedOn(e)
  <2>1. ASSUME NEW i \in DOMAIN d, d[i].kind = "loss"
        PROVE  IF d[i].log \in LogsOn(j) THEN d[i].from <= Through(j, d[i].log) + 1 ELSE d[i].from <= 1
    <3>1. /\ d[i].log = b.log
          /\ \/ b.lost > Joined(b) /\ d[i].from = Joined(b) + 1
             \/ FirstContact(b) /\ d[i].from = 0
      BY <2>1, <1>d, PlannedIs
    <3>2. CASE FirstContact(b)
      <4>1. ~(b.lost > Joined(b))
        BY <3>2, <1>b, <1>c
      <4> QED  BY <3>1, <3>2, <4>1, <1>b
    <3>3. CASE ~FirstContact(b)
      BY <3>1, <3>3, <1>b
    <3> QED  BY <3>2, <3>3
  <2> QED  BY <2>1, <1>a, <1>d, <1>e, <1>2, EarnedExtended
<1>4. Once(e)
  <2> SUFFICES ASSUME NEW i \in DOMAIN e, NEW k \in DOMAIN e,
                      e[i].kind = "sample", e[k].kind = "sample", e[i].log = e[k].log, e[i].seq = e[k].seq
               PROVE  i = k
    BY DEF Once
  <2>d. ASSUME NEW m \in DOMAIN e, m \notin DOMAIN j, e[m].kind = "sample"
        PROVE  /\ m > Len(j) /\ m - Len(j) \in DOMAIN d /\ e[m] = d[m - Len(j)]
               /\ e[m].log = b.log
               /\ e[m].seq \notin SeenBefore(b)
    <3>1. m > Len(j) /\ m - Len(j) \in DOMAIN d /\ e[m] = d[m - Len(j)]
      BY <2>d, <1>1
    <3>2. e[m].log = b.log /\ e[m].seq \in Added(b)
      BY <2>d, <3>1, <1>d, PlannedIs
    <3> QED  BY <3>1, <3>2 DEF Added
  <2>j. ASSUME NEW m \in DOMAIN j, j[m].kind = "sample", j[m].log = b.log
        PROVE  j[m].seq \in SeenBefore(b)
    <3>1. b.log \in LogsOn(j)
      BY <2>j DEF LogsOn
    <3>2. j[m].seq \in SeqsOf(j, "sample", b.log)
      BY <2>j DEF SeqsOf, Of
    <3> QED  BY <3>1, <3>2, <1>b
  <2>1. CASE i \in DOMAIN j /\ k \in DOMAIN j
    BY <2>1, <1>1, <1>a DEF Once
  <2>2. CASE i \in DOMAIN j /\ k \notin DOMAIN j
    BY <2>2, <2>d, <2>j, <1>1
  <2>3. CASE i \notin DOMAIN j /\ k \in DOMAIN j
    BY <2>3, <2>d, <2>j, <1>1
  <2>4. CASE i \notin DOMAIN j /\ k \notin DOMAIN j
    <3>1. i - Len(j) = k - Len(j)
      BY <2>4, <2>d, <1>d
    <3>2. i \in Nat /\ k \in Nat /\ Len(j) \in Nat
      BY <1>1, <1>a
    <3> QED  BY <3>1, <3>2
  <2> QED  BY <2>1, <2>2, <2>3, <2>4
<1>5. LogsOn(j) \subseteq LogsOn(e)
  BY <1>a, <1>d, <1>e, LogsExtended
<1>6. ASSUME NEW l \in LogsOn(j) PROVE Through(j, l) <= Through(e, l)
  <2>1. Of(j, "start", l) # {}
    BY <1>a DEF LogsOn, Begun
  <2> QED  BY <2>1, <1>a, <1>d, <1>e, ThroughGrows
<1> QED  BY <1>j, <1>e, <1>1, <1>2, <1>3, <1>4, <1>5, <1>6 DEF Sound

-----------------------------------------------------------------------------
(* Batch by batch, and from the file *)

\* What is written of one log leaves the others as they were.
LEMMA OthersStay ==
  ASSUME StoreAssumption, NEW j \in Seq(Record), NEW d \in Seq(Record), NEW l,
         Of(j, "start", l) # {}, \A i \in DOMAIN d : d[i].log # l
  PROVE  Through(j \o d, l) = Through(j, l) /\ SeqsOf(j \o d, "sample", l) = SeqsOf(j, "sample", l)
<1>1. \A k : SeqsOf(d, k, l) = {}
  BY DEF SeqsOf, Of
<1>2. ASSUME NEW k PROVE SeqsOf(j \o d, k, l) = SeqsOf(j, k, l)
  <2>1. SeqsOf(j \o d, k, l) = SeqsOf(j, k, l) \cup SeqsOf(d, k, l)
    BY SeqsExtended
  <2> QED  BY <1>1, <2>1
<1>3. StartOf(j \o d, l) = StartOf(j, l)
  BY StartExtended
<1> QED  BY <1>2, <1>3 DEF Through, Base, LossMax

\* The file's view of the batch's log is the one ingest commits.
LEMMA JoinedThrough ==
  ASSUME Agrees, NEW b, Fits(b)
  PROVE  LET e == OnFile \o PlanRecords(b)  seen == SeenBefore(b) \cup Added(b) IN
         /\ SeqsOf(e, "sample", b.log) = seen
         /\ Through(e, b.log) = Advance(seen, Max({Joined(b), b.lost}))
<1>j. PICK j : j = OnFile
  OBVIOUS
<1>p. PICK P : P = PlanRecords(b)
  OBVIOUS
<1>e. PICK e : e = j \o P
  OBVIOUS
<1>s. PICK seen : seen = SeenBefore(b) \cup Added(b)
  OBVIOUS
<1>a. StoreAssumption /\ j \in Seq(Record) /\ Begun(j) /\ MaxSeq \in Nat
  BY <1>j DEF Agrees, StoreAssumption
<1>b. b.first \in 1..MaxSeq /\ b.lost \in {0, b.first - 1} /\ b.lost \in 0..MaxSeq
  BY <1>a, BatchIs
<1>c. /\ FirstContact(b) <=> b.log \notin LogsOn(j)
      /\ ~FirstContact(b) =>
           /\ Of(j, "start", b.log) # {}
           /\ Joined(b) = Through(j, b.log)
           /\ SeenBefore(b) = SeqsOf(j, "sample", b.log)
      /\ FirstContact(b) => Joined(b) = b.first - 1 /\ SeenBefore(b) = {}
      /\ Joined(b) \in 0..MaxSeq
      /\ Added(b) \subseteq 1..MaxSeq
  BY <1>j, JoinedIs
<1>P. /\ P \in Seq(Record)
      /\ \A i \in DOMAIN P : PlannedAt(b, i, P[i])
      /\ FirstContact(b) => 1 \in DOMAIN P /\ P[1] = Start(b.log, b.first)
      /\ \A s \in Added(b) : \E i \in DOMAIN P : P[i] = Sample(b.log, s, b.samples[s])
      /\ b.lost > Joined(b) => \E i \in DOMAIN P : P[i] = Loss(b.log, Joined(b) + 1, b.lost)
      /\ FirstContact(b) /\ b.lost > 0 => \E i \in DOMAIN P : P[i].kind = "loss" /\ P[i].seq = b.lost
  BY <1>p, PlanIs
<1>L. \A i \in DOMAIN P :
        /\ P[i].log = b.log
        /\ P[i].kind = "start" => P[i].seq = b.first
        /\ P[i].kind = "loss" => P[i].seq = b.lost /\ (b.lost > Joined(b) \/ (FirstContact(b) /\ b.lost > 0))
        /\ P[i].kind = "sample" => P[i].seq \in Added(b)
  BY <1>P, PlannedIs
<1>E. /\ e \in Seq(Record)
      /\ \A k : SeqsOf(e, k, b.log) = SeqsOf(j, k, b.log) \cup SeqsOf(P, k, b.log)
  BY <1>a, <1>P, <1>e, OfExtended, SeqsExtended
<1>n. ASSUME FirstContact(b) PROVE \A k : Of(j, k, b.log) = {} /\ SeqsOf(j, k, b.log) = {}
  BY <1>n, <1>c DEF SeqsOf, Of, LogsOn
<1>1. SeqsOf(P, "sample", b.log) = Added(b)
  <2>1. SeqsOf(P, "sample", b.log) \subseteq Added(b)
    BY <1>L DEF SeqsOf, Of
  <2>2. \A s \in Added(b) : \E i \in DOMAIN P : P[i].kind = "sample" /\ P[i].log = b.log /\ P[i].seq = s
    BY <1>P DEF Sample
  <2>3. Added(b) \subseteq SeqsOf(P, "sample", b.log)
    BY <2>2 DEF SeqsOf, Of
  <2> QED  BY <2>1, <2>3
<1>2. SeqsOf(e, "sample", b.log) = seen
  BY <1>1, <1>E, <1>c, <1>n, <1>s
<1>3. /\ SeqsOf(P, "loss", b.log) \subseteq {b.lost}
      /\ b.lost > Joined(b) \/ (FirstContact(b) /\ b.lost > 0) => b.lost \in SeqsOf(P, "loss", b.log)
      /\ ~(b.lost > Joined(b)) /\ ~FirstContact(b) => SeqsOf(P, "loss", b.log) = {}
  <2>1. SeqsOf(P, "loss", b.log) \subseteq {b.lost}
    BY <1>L DEF SeqsOf, Of
  <2>2. ASSUME b.lost > Joined(b) \/ (FirstContact(b) /\ b.lost > 0)
        PROVE  b.lost \in SeqsOf(P, "loss", b.log)
    <3>1. \E i \in DOMAIN P : P[i].kind = "loss" /\ P[i].seq = b.lost
      BY <2>2, <1>P DEF Loss
    <3> QED  BY <3>1, <1>L DEF SeqsOf, Of
  <2>3. ASSUME ~(b.lost > Joined(b)), ~FirstContact(b) PROVE SeqsOf(P, "loss", b.log) = {}
    BY <2>3, <1>L DEF SeqsOf, Of
  <2> QED  BY <2>1, <2>2, <2>3
<1>4. Of(e, "start", b.log) # {} /\ (FirstContact(b) => StartOf(e, b.log) = b.first - 1)
  <2>1. CASE FirstContact(b)
    <3>1. /\ \A i \in DOMAIN P : Len(j) + i \in DOMAIN e /\ e[Len(j) + i] = P[i]
          /\ \A i \in DOMAIN e :
               (i \in DOMAIN j /\ e[i] = j[i]) \/ (i - Len(j) \in DOMAIN P /\ e[i] = P[i - Len(j)])
      BY <1>a, <1>P, <1>e, OfExtended
    <3>2. Len(j) + 1 \in Of(e, "start", b.log)
      BY <2>1, <3>1, <1>P DEF Of, Start
    <3>3. \A i \in Of(e, "start", b.log) : e[i].seq = b.first
      <4> SUFFICES ASSUME NEW i \in Of(e, "start", b.log) PROVE e[i].seq = b.first
        OBVIOUS
      <4>1. i \in DOMAIN e /\ e[i].kind = "start" /\ e[i].log = b.log
        BY DEF Of
      <4>2. ~(i \in DOMAIN j /\ e[i] = j[i])
        BY <2>1, <4>1, <1>n DEF Of
      <4> QED  BY <3>1, <4>1, <4>2, <1>L
    <3>4. /\ Min(Of(e, "start", b.log)) \in Of(e, "start", b.log)
          /\ StartOf(e, b.log) = e[Min(Of(e, "start", b.log))].seq - 1
      BY <3>2, <1>a, <1>E, StartOfIs
    <3> QED  BY <3>2, <3>3, <3>4
  <2>2. CASE ~FirstContact(b)
    BY <2>2, <1>a, <1>P, <1>c, <1>e, StartExtended
  <2> QED  BY <2>1, <2>2
<1>5. /\ LossMax(e, b.log) \in 0..MaxSeq
      /\ LossMax(e, b.log) = 0 \/ LossMax(e, b.log) \in SeqsOf(e, "loss", b.log)
      /\ \A s \in SeqsOf(e, "loss", b.log) : s <= LossMax(e, b.log)
  BY <1>a, <1>E, LossMaxIs
<1>6. /\ Base(e, b.log) \in Nat /\ StartOf(e, b.log) \in 0..MaxSeq
      /\ Base(e, b.log) =
           IF StartOf(e, b.log) >= LossMax(e, b.log) THEN StartOf(e, b.log) ELSE LossMax(e, b.log)
      /\ Reaches(seen, Base(e, b.log), Through(e, b.log))
  BY <1>a, <1>E, <1>2, <1>4, BaseIs, StartOfIs
<1>7. Max({Joined(b), b.lost}) = IF Joined(b) >= b.lost THEN Joined(b) ELSE b.lost
  BY <1>a, <1>b, <1>c, Max2
<1>8. Through(e, b.log) = Advance(seen, Max({Joined(b), b.lost}))
  <2>t. Through(e, b.log) = Advance(seen, Base(e, b.log))
    BY <1>2 DEF Through
  <2>1. CASE FirstContact(b)
    <3>1. SeqsOf(e, "loss", b.log) = SeqsOf(P, "loss", b.log)
      BY <2>1, <1>E, <1>n
    <3>2. LossMax(e, b.log) = b.lost
      BY <2>1, <3>1, <1>3, <1>5, <1>b, <1>a
    <3>3. Base(e, b.log) = Max({Joined(b), b.lost})
      BY <2>1, <3>2, <1>4, <1>6, <1>7, <1>c
    <3> QED  BY <3>3, <2>t
  <2>2. CASE ~FirstContact(b)
    <3>1. /\ StartOf(e, b.log) = StartOf(j, b.log)
          /\ StartOf(j, b.log) \in 0..MaxSeq /\ LossMax(j, b.log) \in 0..MaxSeq
          /\ Base(j, b.log) = IF StartOf(j, b.log) >= LossMax(j, b.log) THEN StartOf(j, b.log) ELSE LossMax(j, b.log)
          /\ Reaches(SeqsOf(j, "sample", b.log), Base(j, b.log), Joined(b))
          /\ Base(j, b.log) \in Nat
          /\ \A s \in SeqsOf(j, "loss", b.log) : s <= LossMax(j, b.log)
      BY <2>2, <1>a, <1>P, <1>c, <1>e, StartExtended, StartOfIs, LossMaxIs, BaseIs
    <3>2. Joined(b) >= Base(j, b.log)
      BY <3>1 DEF Reaches
    <3>3. CASE b.lost > Joined(b)
      <4>1. b.lost \in SeqsOf(e, "loss", b.log)
        BY <3>3, <1>3, <1>E
      <4>2. \A s \in SeqsOf(e, "loss", b.log) : s <= b.lost
        <5> SUFFICES ASSUME NEW s \in SeqsOf(e, "loss", b.log) PROVE s <= b.lost
          OBVIOUS
        <5>1. s \in 0..MaxSeq
          BY <1>a, <1>E, SeqsOfIs
        <5>2. CASE s \in SeqsOf(j, "loss", b.log)
          <6>1. s <= LossMax(j, b.log)
            BY <5>2, <3>1
          <6> QED  BY <5>1, <6>1, <3>1, <3>2, <3>3, <1>a, <1>b, <1>c
        <5>3. CASE s \in SeqsOf(P, "loss", b.log)
          BY <5>3, <1>3, <1>b
        <5> QED  BY <5>2, <5>3, <1>E
      <4>3. LossMax(e, b.log) = b.lost
        BY <4>1, <4>2, <1>5, <1>a, <1>b, <1>c, <3>3
      <4>4. Base(e, b.log) = Max({Joined(b), b.lost})
        BY <4>3, <3>1, <3>2, <3>3, <1>6, <1>7, <1>a, <1>b, <1>c
      <4> QED  BY <4>4, <2>t
    <3>4. CASE ~(b.lost > Joined(b))
      <4>1. LossMax(e, b.log) = LossMax(j, b.log)
        BY <2>2, <3>4, <1>3, <1>E DEF LossMax
      <4>2. Base(e, b.log) = Base(j, b.log)
        BY <4>1, <3>1, <1>6
      <4>3. Max({Joined(b), b.lost}) = Joined(b)
        BY <3>4, <1>7, <1>a, <1>b, <1>c
      <4>4. SeqsOf(j, "sample", b.log) \subseteq seen /\ seen \in SUBSET (0..MaxSeq)
        <5>1. SeqsOf(e, "sample", b.log) \in SUBSET (0..MaxSeq)
          BY <1>a, <1>E, SeqsOfIs
        <5> QED  BY <5>1, <1>2, <1>E
      <4>5. Reaches(seen, Joined(b), Advance(seen, Joined(b)))
        <5>1. Joined(b) \in Nat
          BY <1>a, <1>c
        <5> QED  BY <4>4, <5>1, <1>a, AdvanceIs
      <4>6. Reaches(seen, Base(j, b.log), Advance(seen, Joined(b)))
        BY <4>4, <4>5, <3>1, AdvanceGoesOn
      <4>7. Through(e, b.log) = Advance(seen, Joined(b))
        BY <4>2, <4>6, <3>1, <1>6, ReachesOne
      <4> QED  BY <4>3, <4>7
    <3> QED  BY <3>3, <3>4
  <2> QED  BY <2>1, <2>2
<1> QED  BY <1>j, <1>p, <1>e, <1>s, <1>2, <1>8

\* What ingest commits.
Committed(b) == [l \in DOMAIN logs \cup {b.log} |-> IF l = b.log THEN PlanState(b) ELSE logs[l]]

LEMMA CommitIsRebuild ==
  ASSUME Agrees, NEW b, Fits(b)
  PROVE  Rebuild(OnFile \o PlanRecords(b)) = Committed(b)
<1>j. PICK j : j = OnFile
  OBVIOUS
<1>p. PICK P : P = PlanRecords(b)
  OBVIOUS
<1>e. PICK e : e = j \o P
  OBVIOUS
<1>a. StoreAssumption /\ j \in Seq(Record) /\ Begun(j) /\ logs = Rebuild(j)
  BY <1>j DEF Agrees
<1>P. /\ P \in Seq(Record)
      /\ \A i \in DOMAIN P : P[i].log = b.log
      /\ FirstContact(b) => 1 \in DOMAIN P
  BY <1>p, PlanIs, PlannedIs
<1>1. LogsOn(e) = LogsOn(j) \cup {b.log}
  <2>1. LogsOn(P) \subseteq {b.log} /\ (FirstContact(b) => b.log \in LogsOn(P))
    BY <1>P DEF LogsOn
  <2>2. ~FirstContact(b) => b.log \in LogsOn(j)
    BY <1>j, JoinedIs
  <2>3. LogsOn(e) = LogsOn(j) \cup LogsOn(P)
    BY <1>a, <1>P, <1>e, LogsExtended
  <2> QED  BY <2>1, <2>2, <2>3
<1>2. DOMAIN logs = LogsOn(j)
  BY <1>a, RebuildIs
<1>3. Rebuild(e) = [l \in LogsOn(e) |-> [through |-> Through(e, l), seen |-> SeqsOf(e, "sample", l)]]
  BY DEF Rebuild, LogsOn, Through, Base
<1>4. [through |-> Through(e, b.log), seen |-> SeqsOf(e, "sample", b.log)] = PlanState(b)
  BY <1>j, <1>p, <1>e, JoinedThrough DEF PlanState
<1>5. ASSUME NEW l \in LogsOn(j), l # b.log
      PROVE  [through |-> Through(e, l), seen |-> SeqsOf(e, "sample", l)] = logs[l]
  <2>1. Of(j, "start", l) # {}
    BY <1>a DEF LogsOn, Begun
  <2>2. Through(e, l) = Through(j, l) /\ SeqsOf(e, "sample", l) = SeqsOf(j, "sample", l)
    <3>1. \A i \in DOMAIN P : P[i].log # l
      BY <1>5, <1>P
    <3>2. P \in Seq(Record) /\ j \in Seq(Record) /\ StoreAssumption
      BY <1>a, <1>P
    <3> QED  BY <2>1, <3>1, <3>2, <1>e, OthersStay
  <2> QED  BY <2>2, <1>a, RebuildIs
<1>6. Rebuild(e) = Committed(b)
  BY <1>1, <1>2, <1>3, <1>4, <1>5 DEF Committed
<1> QED  BY <1>j, <1>p, <1>e, <1>6

-----------------------------------------------------------------------------
(* The invariant *)

StoreShape ==
  /\ lines \in Seq(Record)
  /\ tail \in {NoTail, Fragment} \cup Record
  /\ running \in BOOLEAN
  /\ promised \in [Logs -> 0..MaxSeq]

\* While the bridge is up, no torn line is at the end and the store is the file's.
StoreUp ==
  /\ running => tail = NoTail /\ logs = Rebuild(OnFile)
  /\ ~running => logs = <<>>

StoreInv == StoreShape /\ StoreUp /\ Sound(OnFile) /\ PromiseKept

\* An ack of p for log l is covered by the journal j.
Covered(j, l, p) == p > 0 => l \in LogsOn(j) /\ p <= Through(j, l)

LEMMA KeptIs ==
  ASSUME NEW j, NEW l, NEW p
  PROVE  Covered(j, l, p) <=> (p > 0 => l \in DOMAIN Rebuild(j) /\ p <= Rebuild(j)[l].through)
<1>1. DOMAIN Rebuild(j) = LogsOn(j)
  BY RebuildIs
<1>2. l \in LogsOn(j) => Rebuild(j)[l].through = Through(j, l)
  BY RebuiltIs
<1> QED  BY <1>1, <1>2 DEF Covered

LEMMA OnFileIs ==
  ASSUME StoreShape
  PROVE  /\ OnFile \in Seq(Record)
         /\ tail = NoTail \/ tail = Fragment => OnFile = lines
         /\ tail \in Record => OnFile = Append(lines, tail)
<1>1. ~IsRecord(NoTail) /\ ~IsRecord(Fragment)
  BY DEF IsRecord, NoTail, Fragment
<1>2. tail \in Record => IsRecord(tail)
  BY RecordIs
<1> QED  BY <1>1, <1>2 DEF StoreShape, OnFile

LEMMA InvAgrees ==
  ASSUME StoreAssumption, StoreInv, running
  PROVE  Agrees /\ Sound(OnFile) /\ tail = NoTail /\ OnFile = lines
BY OnFileIs DEF StoreInv, StoreUp, Sound, Agrees

\* What the journal is after a write that stopped after k whole lines, with the
\* tail a step allows.
LEMMA CutShortIs ==
  ASSUME StoreAssumption, StoreInv, running, NEW b, Fits(b), CutShort(b)
  PROVE  /\ lines' \in Seq(Record)
         /\ tail' \in {NoTail, Fragment} \cup Record
         /\ \E d : Begins(d, b) /\ OnFile' = OnFile \o d
<1>1. Agrees /\ tail = NoTail /\ OnFile = lines /\ lines \in Seq(Record)
  BY InvAgrees DEF StoreInv, StoreShape
<1>p. PICK P : P = PlanRecords(b)
  OBVIOUS
<1>2. P \in Seq(Record)
  BY <1>1, <1>p, PlanIs
<1>3. PICK k \in 0..Len(P) :
        /\ lines' = lines \o Behind(tail, SubSeq(P, 1, k))
        /\ \/ tail' = IF k = 0 THEN tail ELSE NoTail
           \/ k < Len(P) /\ tail' = Fragment
           \/ k < Len(P) /\ tail' = IF k = 0 /\ tail # NoTail THEN Fragment ELSE P[k + 1]
  BY <1>p DEF CutShort
<1>4. lines' = lines \o SubSeq(P, 1, k)
  BY <1>1, <1>3 DEF Behind
<1>5. /\ SubSeq(P, 1, k) \in Seq(Record)
      /\ k < Len(P) => P[k + 1] \in Record /\ k + 1 \in 0..Len(P)
                       /\ Append(SubSeq(P, 1, k), P[k + 1]) = SubSeq(P, 1, k + 1)
  BY <1>2
<1>6. lines' \in Seq(Record)
  BY <1>1, <1>4, <1>5
<1>7. Begins(SubSeq(P, 1, k), b) /\ (k < Len(P) => Begins(SubSeq(P, 1, k + 1), b))
  BY <1>1, <1>5, <1>p, PrefixBegins
<1>r. ~IsRecord(NoTail) /\ ~IsRecord(Fragment) /\ \A r \in Record : IsRecord(r)
  BY RecordIs DEF IsRecord, NoTail, Fragment
<1>8. CASE tail' \in {NoTail, Fragment}
  <2>1. OnFile' = lines'
    BY <1>8, <1>r DEF OnFile
  <2> QED  BY <1>8, <2>1, <1>1, <1>4, <1>6, <1>7
<1>9. CASE k < Len(P) /\ tail' = P[k + 1]
  <2>1. OnFile' = Append(lines', tail')
    BY <1>9, <1>5, <1>r DEF OnFile
  <2>2. Append(lines \o SubSeq(P, 1, k), P[k + 1]) = lines \o Append(SubSeq(P, 1, k), P[k + 1])
    BY <1>1, <1>5, <1>9
  <2>3. OnFile' = OnFile \o SubSeq(P, 1, k + 1)
    BY <2>1, <2>2, <1>1, <1>4, <1>5, <1>9
  <2> QED  BY <2>3, <1>5, <1>6, <1>7, <1>9
<1> QED  BY <1>1, <1>3, <1>8, <1>9

\* A journal that covers the acks covers them when it is longer.
LEMMA CoveredOn ==
  ASSUME StoreAssumption, NEW j \in Seq(Record), NEW e \in Seq(Record), Begun(j), Begun(e),
         LogsOn(j) \subseteq LogsOn(e), \A l \in LogsOn(j) : Through(j, l) <= Through(e, l),
         NEW l, NEW p \in Nat, Covered(j, l, p)
  PROVE  Covered(e, l, p)
<1> SUFFICES ASSUME p > 0 PROVE l \in LogsOn(e) /\ p <= Through(e, l)
  BY DEF Covered
<1>1. l \in LogsOn(j) /\ p <= Through(j, l) /\ l \in LogsOn(e) /\ Through(j, l) <= Through(e, l)
  BY DEF Covered
<1>2. Of(j, "start", l) # {} /\ Of(e, "start", l) # {}
  BY <1>1 DEF LogsOn, Begun
<1>3. Through(j, l) \in 0..MaxSeq /\ Through(e, l) \in 0..MaxSeq /\ MaxSeq \in Nat
  BY <1>2, BaseIs DEF StoreAssumption
<1> QED  BY <1>1, <1>3

LEMMA InitStores ==
  ASSUME StoreAssumption, StoreInit
  PROVE  StoreInv
<1>1. lines = <<>> /\ tail = NoTail /\ ~running /\ logs = <<>> /\ promised = [l \in Logs |-> 0]
  BY DEF StoreInit
<1>6. running = FALSE
  BY DEF StoreInit
<1>2. StoreShape
  <2>1. 0 \in 0..MaxSeq
    BY DEF StoreAssumption
  <2>2. promised \in [Logs -> 0..MaxSeq]
    BY <1>1, <2>1
  <2>3. lines \in Seq(Record)
    BY <1>1
  <2> QED  BY <1>1, <1>6, <2>2, <2>3 DEF StoreShape
<1>3. OnFile = <<>>
  BY <1>1, <1>2, OnFileIs
<1>4. Sound(OnFile)
  BY <1>3 DEF Sound, Begun, EarnedOn, Once, LogsOn
<1>5. PromiseKept
  BY <1>1 DEF PromiseKept
<1> QED  BY <1>1, <1>2, <1>4, <1>5 DEF StoreInv, StoreUp

LEMMA OpenKeeps ==
  ASSUME StoreAssumption, StoreInv, Open
  PROVE  StoreInv'
<1>1. lines' = OnFile /\ tail' = NoTail /\ running' = TRUE /\ logs' = Rebuild(OnFile) /\ promised' = promised
  BY DEF Open
<1>2. StoreShape'
  BY <1>1, OnFileIs DEF StoreShape, StoreInv
<1>3. OnFile' = OnFile
  BY <1>1 DEF OnFile, IsRecord, NoTail
<1>4. StoreUp'
  BY <1>1, <1>3 DEF StoreUp
<1>5. Sound(OnFile)' /\ PromiseKept'
  BY <1>1, <1>3 DEF StoreInv, PromiseKept
<1> QED  BY <1>2, <1>4, <1>5 DEF StoreInv

LEMMA CrashKeeps ==
  ASSUME StoreAssumption, StoreInv, Crash
  PROVE  StoreInv'
<1>1. lines' = lines /\ tail' = tail /\ running' = FALSE /\ logs' = <<>> /\ promised' = promised
  BY DEF Crash
<1>2. StoreShape'
  BY <1>1 DEF StoreShape, StoreInv
<1>3. OnFile' = OnFile
  BY <1>1 DEF OnFile
<1>4. StoreUp'
  BY <1>1 DEF StoreUp
<1>5. Sound(OnFile)' /\ PromiseKept'
  BY <1>1, <1>3 DEF StoreInv, PromiseKept
<1> QED  BY <1>2, <1>4, <1>5 DEF StoreInv

LEMMA CrashInIngestKeeps ==
  ASSUME StoreAssumption, StoreInv, NEW b, Fits(b), CrashInIngest(b)
  PROVE  StoreInv'
<1>1. running /\ CutShort(b) /\ running' = FALSE /\ logs' = <<>> /\ promised' = promised
  BY DEF CrashInIngest
<1>2. Agrees /\ Sound(OnFile)
  BY <1>1, InvAgrees
<1>3. PICK d : Begins(d, b) /\ OnFile' = OnFile \o d
  BY <1>1, CutShortIs
<1>4. StoreShape'
  BY <1>1, CutShortIs DEF StoreShape, StoreInv
<1>j. PICK j : j = OnFile
  OBVIOUS
<1>e. PICK e : e = j \o d
  OBVIOUS
<1>5. Sound(j) /\ Sound(e) /\ LogsOn(j) \subseteq LogsOn(e) /\ \A l \in LogsOn(j) : Through(j, l) <= Through(e, l)
  BY <1>2, <1>3, <1>j, <1>e, SoundExtended
<1>6. ASSUME NEW l \in Logs PROVE Covered(e, l, promised[l])
  <2>1. Covered(j, l, promised[l])
    BY <1>j, KeptIs DEF StoreInv, PromiseKept
  <2>2. promised[l] \in Nat
    BY DEF StoreInv, StoreShape, StoreAssumption
  <2> QED  BY <2>1, <2>2, <1>5, CoveredOn DEF Sound
<1>7. OnFile' = e
  BY <1>3, <1>j, <1>e
<1>8. PromiseKept'
  BY <1>1, <1>6, <1>7, KeptIs DEF PromiseKept
<1>9. StoreUp'
  BY <1>1 DEF StoreUp
<1> QED  BY <1>4, <1>5, <1>7, <1>8, <1>9 DEF StoreInv

\* A batch the journal takes whole is at its end.
LEMMA IngestAppends ==
  ASSUME StoreAssumption, StoreInv, NEW b, Fits(b), Ingest(b)
  PROVE  /\ Agrees /\ PlanRecords(b) \in Seq(Record)
         /\ lines' = OnFile \o PlanRecords(b) /\ tail' = NoTail
         /\ OnFile' = OnFile \o PlanRecords(b)
<1>1. /\ running /\ lines' = lines \o Behind(tail, PlanRecords(b))
      /\ tail' = IF PlanRecords(b) = <<>> THEN tail ELSE NoTail
  BY DEF Ingest
<1>2. Agrees /\ tail = NoTail /\ OnFile = lines
  BY <1>1, InvAgrees
<1>3. lines' = OnFile \o PlanRecords(b) /\ tail' = NoTail
  BY <1>1, <1>2 DEF Behind
<1>4. OnFile' = lines'
  BY <1>3 DEF OnFile, IsRecord, NoTail
<1> QED  BY <1>2, <1>3, <1>4, PlanIs

LEMMA IngestKeeps ==
  ASSUME StoreAssumption, StoreInv, NEW b, Fits(b), Ingest(b)
  PROVE  StoreInv'
<1>p. PICK P : P = PlanRecords(b)
  OBVIOUS
<1>t. PICK t : t = PlanState(b).through
  OBVIOUS
<1>1. /\ running
      /\ logs' = Committed(b)
      /\ promised' = [promised EXCEPT ![b.log] = Max({promised[b.log], t})]
      /\ running' = running
  BY <1>p, <1>t DEF Ingest, Committed
<1>2. Agrees /\ Sound(OnFile)
  BY <1>1, InvAgrees
<1>j. PICK j : j = OnFile
  OBVIOUS
<1>e. PICK e : e = j \o P
  OBVIOUS
<1>3. lines' = e /\ tail' = NoTail /\ OnFile' = e
  BY <1>p, <1>j, <1>e, IngestAppends
<1>4. OnFile' = e
  BY <1>3
<1>P. Begins(P, b)
  <2>1. P \in Seq(Record)
    BY <1>2, <1>p, PlanIs
  <2>2. 0 \in 0..Len(P)
    BY <2>1
  <2> QED  BY <2>2, <1>2, <1>p, PrefixBegins
<1>5. Sound(j) /\ Sound(e) /\ LogsOn(j) \subseteq LogsOn(e) /\ \A l \in LogsOn(j) : Through(j, l) <= Through(e, l)
  BY <1>2, <1>P, <1>j, <1>e, SoundExtended
<1>6. Rebuild(e) = logs'
  BY <1>1, <1>2, <1>p, <1>j, <1>e, CommitIsRebuild
<1>7. b.log \in LogsOn(e) /\ t = Through(e, b.log) /\ t \in 0..MaxSeq /\ b.log \in Logs
  <2>1. b.log \in LogsOn(e) /\ Rebuild(e)[b.log] = PlanState(b)
    BY <1>6, <1>1, RebuildIs DEF Committed
  <2>2. t = Through(e, b.log)
    BY <2>1, <1>t, RebuiltIs
  <2>3. Of(e, "start", b.log) # {}
    BY <2>1, <1>5 DEF LogsOn, Sound, Begun
  <2> QED  BY <2>1, <2>2, <2>3, <1>5, BaseIs, BatchIs DEF Sound
<1>8. MaxSeq \in Nat /\ promised \in [Logs -> 0..MaxSeq]
  BY DEF StoreInv, StoreShape, StoreAssumption
<1>9. Max({promised[b.log], t}) = IF promised[b.log] >= t THEN promised[b.log] ELSE t
  BY <1>7, <1>8, Max2
<1>10. StoreShape'
  <2>1. Max({promised[b.log], t}) \in 0..MaxSeq
    BY <1>7, <1>8, <1>9
  <2>2. promised' \in [Logs -> 0..MaxSeq]
    BY <2>1, <1>1, <1>7, <1>8
  <2>3. lines' \in Seq(Record) /\ tail' \in {NoTail, Fragment}
    BY <1>3, <1>5 DEF Sound
  <2> QED  BY <2>2, <2>3, <1>1 DEF StoreShape, StoreInv
<1>11. StoreUp'
  BY <1>1, <1>3, <1>4, <1>6 DEF StoreUp
<1>12. ASSUME NEW l \in Logs PROVE Covered(e, l, promised'[l])
  <2>1. Covered(e, l, promised[l])
    <3>1. Covered(j, l, promised[l])
      BY <1>j, KeptIs DEF StoreInv, PromiseKept
    <3>2. promised[l] \in Nat
      BY <1>8
    <3> QED  BY <3>1, <3>2, <1>5, CoveredOn DEF Sound
  <2>2. CASE l # b.log
    BY <2>1, <2>2, <1>1, <1>8
  <2>3. CASE l = b.log
    <3>1. promised'[l] = Max({promised[b.log], t})
      BY <2>3, <1>1, <1>7, <1>8
    <3>2. promised'[l] = promised[l] \/ promised'[l] = t
      BY <3>1, <2>3, <1>9
    <3>3. Covered(e, b.log, t)
      BY <1>7, <1>8 DEF Covered
    <3> QED  BY <3>2, <3>3, <2>1, <2>3
  <2> QED  BY <2>2, <2>3
<1>13. PromiseKept'
  BY <1>4, <1>12, KeptIs DEF PromiseKept
<1> QED  BY <1>4, <1>5, <1>10, <1>11, <1>13 DEF StoreInv

LEMMA StutterKeeps ==
  ASSUME StoreInv, UNCHANGED storeVars
  PROVE  StoreInv'
<1>1. lines' = lines /\ tail' = tail /\ running' = running /\ logs' = logs /\ promised' = promised
  BY DEF storeVars
<1>2. OnFile' = OnFile
  BY <1>1 DEF OnFile
<1>3. StoreShape' /\ StoreUp'
  BY <1>1, <1>2 DEF StoreInv, StoreShape, StoreUp
<1>4. Sound(OnFile)' /\ PromiseKept'
  BY <1>1, <1>2 DEF StoreInv, PromiseKept
<1> QED  BY <1>3, <1>4 DEF StoreInv

LEMMA StoreStepKeeps ==
  ASSUME StoreInv, [StoreNext]_storeVars
  PROVE  StoreInv'
<1>1. CASE Open
  BY <1>1, StoreAssumption, OpenKeeps
<1>2. CASE Crash
  BY <1>2, StoreAssumption, CrashKeeps
<1>3. ASSUME NEW b \in Offered, Ingest(b) PROVE StoreInv'
  BY <1>3, StoreAssumption, OfferedFits, IngestKeeps
<1>4. ASSUME NEW b \in Offered, CrashInIngest(b) PROVE StoreInv'
  BY <1>4, StoreAssumption, OfferedFits, CrashInIngestKeeps
<1>5. CASE UNCHANGED storeVars
  BY <1>5, StutterKeeps
<1> QED  BY <1>1, <1>2, <1>3, <1>4, <1>5 DEF StoreNext, Offered

\* The file only grows.
LEMMA FileGrows ==
  ASSUME StoreAssumption, StoreInv, [StoreNext]_storeVars
  PROVE  \E d \in Seq(Record) : OnFile' = OnFile \o d
<1>f. OnFile \in Seq(Record)
  BY DEF StoreInv, Sound
<1>0. ASSUME OnFile' = OnFile PROVE \E d \in Seq(Record) : OnFile' = OnFile \o d
  <2>1. <<>> \in Seq(Record) /\ OnFile = OnFile \o <<>>
    BY <1>f
  <2> QED  BY <2>1, <1>0
<1>1. CASE Open
  <2>1. lines' = OnFile /\ tail' = NoTail
    BY <1>1 DEF Open
  <2>2. OnFile' = OnFile
    BY <2>1 DEF OnFile, IsRecord, NoTail
  <2> QED  BY <2>2, <1>0
<1>2. CASE Crash
  <2>1. lines' = lines /\ tail' = tail
    BY <1>2 DEF Crash
  <2>2. OnFile' = OnFile
    BY <2>1 DEF OnFile
  <2> QED  BY <2>2, <1>0
<1>3. ASSUME NEW b \in Offered, CrashInIngest(b) PROVE \E d \in Seq(Record) : OnFile' = OnFile \o d
  <2>1. running /\ CutShort(b)
    BY <1>3 DEF CrashInIngest
  <2> QED  BY <2>1, OfferedFits, CutShortIs DEF Begins
<1>4. ASSUME NEW b \in Offered, Ingest(b) PROVE \E d \in Seq(Record) : OnFile' = OnFile \o d
  BY <1>4, OfferedFits, IngestAppends
<1>5. CASE UNCHANGED storeVars
  <2>1. lines' = lines /\ tail' = tail
    BY <1>5 DEF storeVars
  <2>2. OnFile' = OnFile
    BY <2>1 DEF OnFile
  <2> QED  BY <2>2, <1>0
<1> QED  BY <1>1, <1>2, <1>3, <1>4, <1>5 DEF StoreNext, Offered

\* The inductive invariant of the store: the acks that went out, the file and
\* what the process holds agree, through every crash (store.ts).
THEOREM StoreInvariant == StoreSpec => []StoreInv
<1>1. StoreInit => StoreInv
  BY StoreAssumption, InitStores
<1>2. StoreInv /\ [StoreNext]_storeVars => StoreInv'
  BY StoreStepKeeps
<1> QED  BY <1>1, <1>2, PTL DEF StoreSpec

-----------------------------------------------------------------------------
(* What follows of it *)

\* What the store holds while it is up is what the file says.
LEMMA HeldIs ==
  ASSUME StoreAssumption, StoreInv, NEW l \in DOMAIN logs
  PROVE  /\ running /\ l \in LogsOn(OnFile) /\ l \in Logs
         /\ logs[l].through = Through(OnFile, l) /\ logs[l].through \in 0..MaxSeq
         /\ logs[l].seen = SeqsOf(OnFile, "sample", l)
<1>j. PICK j : j = OnFile
  OBVIOUS
<1>1. running
  BY DEF StoreInv, StoreUp
<1>2. logs = Rebuild(j) /\ j \in Seq(Record) /\ Begun(j)
  BY <1>1, <1>j DEF StoreInv, StoreUp, Sound
<1>3. l \in LogsOn(j)
  BY <1>2, RebuildIs
<1>4. logs[l].through = Through(j, l) /\ logs[l].seen = SeqsOf(j, "sample", l)
  BY <1>2, <1>3, RebuiltIs
<1>5. Of(j, "start", l) # {}
  BY <1>2, <1>3 DEF LogsOn, Begun
<1>6. Through(j, l) \in 0..MaxSeq
  BY <1>2, <1>5, BaseIs
<1>7. l \in Logs
  BY <1>2, <1>3, RecordIs DEF LogsOn
<1> QED  BY <1>j, <1>1, <1>3, <1>4, <1>6, <1>7

LEMMA InvImpliesType ==
  ASSUME StoreAssumption, StoreInv
  PROVE  StoreTypeOK
<1>1. ASSUME NEW i \in DOMAIN lines
      PROVE  IsRecord(lines[i]) /\ lines[i].log \in Logs /\ lines[i].seq \in Nat \ {0}
  <2>1. lines[i] \in Record
    BY DEF StoreInv, StoreShape
  <2> QED  BY <2>1, RecordIs DEF StoreAssumption
<1>2. tail \in {NoTail, Fragment} \/ (IsRecord(tail) /\ tail.log \in Logs /\ tail.seq \in Nat)
  <2>1. tail \in {NoTail, Fragment} \/ tail \in Record
    BY DEF StoreInv, StoreShape
  <2> QED  BY <2>1, RecordIs DEF StoreAssumption
<1>3. DOMAIN logs \subseteq Logs
  BY HeldIs
<1>4. ASSUME NEW l \in DOMAIN logs PROVE logs[l].through \in Nat /\ logs[l].seen \subseteq Nat
  <2>1. logs[l].through \in 0..MaxSeq /\ logs[l].seen = SeqsOf(OnFile, "sample", l)
    BY HeldIs
  <2>2. SeqsOf(OnFile, "sample", l) \in SUBSET (0..MaxSeq)
    BY SeqsOfIs DEF StoreInv, Sound
  <2> QED  BY <2>1, <2>2 DEF StoreAssumption
<1>5. promised \in [Logs -> Nat]
  BY DEF StoreInv, StoreShape, StoreAssumption
<1>6. running \in BOOLEAN
  BY DEF StoreInv, StoreShape
<1> QED  BY <1>1, <1>2, <1>3, <1>4, <1>5, <1>6 DEF StoreTypeOK

LEMMA InvImpliesEarned ==
  ASSUME StoreAssumption, StoreInv
  PROVE  ThroughIsEarned
<1> SUFFICES ASSUME NEW l \in DOMAIN logs, NEW s \in 1..logs[l].through PROVE Accounted(OnFile, l, s)
  BY DEF ThroughIsEarned
<1>1. l \in LogsOn(OnFile) /\ s \in 1..Through(OnFile, l)
  BY HeldIs
<1> QED  BY <1>1 DEF StoreInv, Sound, EarnedOn

LEMMA InvImpliesHeldOnce ==
  ASSUME StoreAssumption, StoreInv
  PROVE  HeldOnce
<1>j. PICK j : j = OnFile
  OBVIOUS
<1>1. j \in Seq(Record) /\ Once(j)
  BY <1>j DEF StoreInv, Sound
<1> SUFFICES ASSUME NEW l \in Logs
             PROVE  Cardinality(Of(j, "sample", l)) = Cardinality(SeqsOf(j, "sample", l))
  BY <1>j DEF HeldOnce
<1> DEFINE S == Of(j, "sample", l)
           T == SeqsOf(j, "sample", l)
           f == [i \in S |-> j[i].seq]
<1>2. f \in [S -> T] /\ \A t \in T : \E i \in S : f[i] = t
  BY DEF SeqsOf
<1>3. \A i, k \in S : f[i] = f[k] => i = k
  BY <1>1 DEF Of, Once
<1>4. IsFiniteSet(S)
  <2>1. S \subseteq 1..Len(j) /\ Len(j) \in Nat
    BY <1>1 DEF Of
  <2> QED  BY <2>1, CountIs, FS_Subset
<1>5. f \in Bijection(S, T)
  BY <1>2, <1>3 DEF Bijection, Injection, Surjection, IsInjective
<1>6. ExistsBijection(S, T)
  BY <1>5 DEF ExistsBijection
<1> QED  BY <1>4, <1>6, FS_Bijection

\* A line that the batch b gives.
LineOf(b, r) ==
  /\ r.log = b.log
  /\ r.kind = "start" => r.seq = b.first
  /\ r.kind = "loss" => r.seq = b.lost
  /\ r.kind = "sample" => r.seq \in DOMAIN b.samples /\ r.value = b.samples[r.seq]

LEMMA PlannedLineOf ==
  ASSUME NEW b, NEW i, NEW r, PlannedAt(b, i, r)
  PROVE  LineOf(b, r)
<1>1. ASSUME NEW s \in Added(b), r = Sample(b.log, s, b.samples[s]) PROVE LineOf(b, r)
  BY <1>1 DEF LineOf, Added, Sample
<1> QED  BY <1>1 DEF PlannedAt, LineOf, Start, Loss

\* What the steps of the process do to the file.
LEMMA BatchOnFile ==
  ASSUME StoreAssumption, StoreInv, NEW b, Fits(b), Ingest(b) \/ CrashInIngest(b)
  PROVE  \E d \in Seq(Record) : OnFile' = OnFile \o d /\ \A i \in DOMAIN d : LineOf(b, d[i])
<1>1. running
  BY DEF Ingest, CrashInIngest
<1>2. \E d : Begins(d, b) /\ OnFile' = OnFile \o d
  <2>1. CASE Ingest(b)
    <3>1. PlanRecords(b) \in Seq(Record) /\ OnFile' = OnFile \o PlanRecords(b) /\ Agrees
      BY <2>1, IngestAppends
    <3>2. Len(PlanRecords(b)) \in 0..Len(PlanRecords(b))
      BY <3>1
    <3> QED  BY <3>1, <3>2, PrefixBegins
  <2>2. CASE CrashInIngest(b)
    BY <2>2, <1>1, CutShortIs DEF CrashInIngest
  <2> QED  BY <2>1, <2>2
<1> QED  BY <1>2, PlannedLineOf DEF Begins

LEMMA RestartOnFile ==
  ASSUME Open \/ Crash \/ UNCHANGED storeVars
  PROVE  OnFile' = OnFile
<1>1. CASE Open
  BY <1>1 DEF Open, OnFile, IsRecord, NoTail
<1>2. CASE Crash
  <2>1. lines' = lines /\ tail' = tail
    BY <1>2 DEF Crash
  <2> QED  BY <2>1 DEF OnFile
<1>3. CASE UNCHANGED storeVars
  <2>1. lines' = lines /\ tail' = tail
    BY <1>3 DEF storeVars
  <2> QED  BY <2>1 DEF OnFile
<1> QED  BY <1>1, <1>2, <1>3

\* The whole lines are on the file, and what is accounted for there is at or
\* below a seq that the log's lines name.
LEMMA LinesOnFile ==
  ASSUME StoreInv, NEW i \in DOMAIN lines
  PROVE  i \in DOMAIN OnFile /\ OnFile[i] = lines[i]
<1>1. lines \in Seq(Record)
  BY DEF StoreInv, StoreShape
<1> QED  BY <1>1 DEF OnFile

LEMMA AccountedIs ==
  ASSUME StoreAssumption, StoreInv, NEW l, NEW s \in Nat \ {0}, Accounted(OnFile, l, s)
  PROVE  \E i \in DOMAIN OnFile : OnFile[i].log = l /\ s <= OnFile[i].seq
<1>j. PICK j : j = OnFile
  OBVIOUS
<1>1. j \in Seq(Record) /\ Begun(j) /\ Accounted(j, l, s)
  BY <1>j DEF StoreInv, Sound
<1>2. CASE Of(j, "start", l) # {} /\ s <= StartOf(j, l)
  <2>1. Min(Of(j, "start", l)) \in Of(j, "start", l) /\ StartOf(j, l) = j[Min(Of(j, "start", l))].seq - 1
    BY <1>1, <1>2, StartOfIs
  <2>2. PICK i \in Of(j, "start", l) : StartOf(j, l) = j[i].seq - 1
    BY <2>1
  <2>3. i \in DOMAIN j /\ j[i].log = l /\ j[i].seq \in 1..MaxSeq /\ MaxSeq \in Nat
    BY <1>1, RecordIs DEF Of, StoreAssumption
  <2> QED  BY <1>2, <1>j, <2>2, <2>3
<1>3. CASE Of(j, "start", l) = {}
  <2>1. \A i \in DOMAIN j : j[i].log # l
    BY <1>1, <1>3 DEF Begun
  <2>2. Of(j, "sample", l) = {} /\ Of(j, "loss", l) = {}
    BY <2>1 DEF Of
  <2>3. LossMax(j, l) = 0
    BY <1>1, <2>2, LossMaxIs DEF SeqsOf
  <2>4. StartOf(j, l) = 0
    BY <1>3, <2>2, <2>3 DEF StartOf
  <2> QED  BY <1>1, <2>2, <2>4 DEF Accounted, SeqsOf
<1>4. CASE s \in SeqsOf(j, "sample", l) \/ \E i \in Of(j, "loss", l) : j[i].from <= s /\ s <= j[i].seq
  <2>1. \A i \in DOMAIN j : j[i].seq \in Nat
    BY <1>1, RecordIs DEF StoreAssumption
  <2> QED  BY <1>4, <1>j, <2>1 DEF SeqsOf, Of
<1> QED  BY <1>1, <1>2, <1>3, <1>4 DEF Accounted

\* What was accounted for stays accounted for.
LEMMA AccountedForGood ==
  ASSUME StoreAssumption, StoreInv, NEW l, NEW s \in Nat \ {0}, Accounted(OnFile, l, s),
         NEW d \in Seq(Record)
  PROVE  Accounted(OnFile \o d, l, s)
<1>1. OnFile \in Seq(Record) /\ Begun(OnFile)
  BY DEF StoreInv, Sound
<1>2. Of(OnFile, "start", l) # {}
  BY <1>1, AccountedIs DEF Begun
<1> QED  BY <1>1, <1>2, AccountedStays

\* What an ack covers is accounted for.
LEMMA AckIsEarned ==
  ASSUME StoreAssumption, StoreInv, NEW b, Fits(b), Ingest(b)
  PROVE  /\ PlanState(b).through \in 0..MaxSeq
         /\ \A s \in 1..PlanState(b).through : Accounted(OnFile', b.log, s)
<1>p. PICK p : p = PlanState(b)
  OBVIOUS
<1>1. StoreInv'
  BY IngestKeeps
<1>2. b.log \in DOMAIN logs' /\ logs'[b.log] = p
  BY <1>p DEF Ingest
<1>j. PICK j : j = OnFile'
  OBVIOUS
<1>3. running'
  BY DEF Ingest
<1>4. logs' = Rebuild(j) /\ j \in Seq(Record) /\ Begun(j) /\ EarnedOn(j)
  BY <1>j, <1>1, <1>3 DEF StoreInv, StoreUp, Sound
<1>5. b.log \in LogsOn(j) /\ Through(j, b.log) = p.through
  <2>1. b.log \in LogsOn(j)
    BY <1>2, <1>4, RebuildIs
  <2> QED  BY <2>1, <1>2, <1>4, RebuiltIs
<1>6. Through(j, b.log) \in 0..MaxSeq
  BY <1>4, <1>5, BaseIs DEF LogsOn, Begun
<1> QED  BY <1>p, <1>j, <1>4, <1>5, <1>6 DEF EarnedOn

\* The store's state has its type.
THEOREM StoreTypeCorrect == StoreSpec => []StoreTypeOK
<1>1. StoreInv => StoreTypeOK
  BY StoreAssumption, InvImpliesType
<1> QED  BY <1>1, StoreInvariant, PTL

\* What ingest keeps up batch by batch is what rebuild computes from the file,
\* so a restart changes nothing (store.ts:141-228 and 253-301).
THEOREM RestartChangesNothing == StoreSpec => []RebuildAgrees
<1>1. StoreInv => RebuildAgrees
  BY DEF StoreInv, StoreUp, RebuildAgrees
<1> QED  BY <1>1, StoreInvariant, PTL

\* What was acked is on the file, whatever crash comes.
THEOREM AcksAreKept == StoreSpec => []PromiseKept
<1>1. StoreInv => PromiseKept
  BY DEF StoreInv
<1> QED  BY <1>1, StoreInvariant, PTL

\* An ack passes no seq that is neither held nor lost nor from before the log
\* was first seen.
THEOREM AcksAreEarned == StoreSpec => []ThroughIsEarned
<1>1. StoreInv => ThroughIsEarned
  BY StoreAssumption, InvImpliesEarned
<1> QED  BY <1>1, StoreInvariant, PTL

\* Every sample is on the journal once.
THEOREM SamplesAreOnce == StoreSpec => []HeldOnce
<1>1. StoreInv => HeldOnce
  BY StoreAssumption, InvImpliesHeldOnce
<1> QED  BY <1>1, StoreInvariant, PTL
=============================================================================
