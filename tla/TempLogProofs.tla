--------------------------- MODULE TempLogProofs ---------------------------
(***************************************************************************)
(* Proofs about the temperature logger, for every geometry, batch size,     *)
(* number of boots and logs.                                                *)
(*                                                                          *)
(* One node: its reading log, for as long as no flash call has returned an  *)
(* error.  The power may be cut at any moment, NVS writes may fail, and     *)
(* acks are arbitrary.                                                      *)
(*                                                                          *)
(* The node, the path and the bridge's store together: what the node counts *)
(* as delivered is accounted for, and what the bridge holds is true of the  *)
(* node, whatever the path does; NVS writes may fail, but the one of a log  *)
(* id.                                                                      *)
(***************************************************************************)
EXTENDS TempLog, Sequences, TLAPS

\* The store and what is proved of it.
HostP == INSTANCE TempLogStoreProofs WITH
  Logs <- 0..MaxLogs,
  Values <- 0..MaxBoots,
  MaxSeq <- MaxU32,
  MaxSamples <- MaxBatch

-----------------------------------------------------------------------------
(* Arithmetic of the ring *)

\* Quotient and remainder determine the number, and the other way round.
LEMMA DivMod ==
  ASSUME NEW a \in Int, NEW b \in Nat \ {0}
  PROVE  /\ a = b * (a \div b) + (a % b)
         /\ a % b \in 0..(b - 1)
         /\ a \div b \in Int
  OBVIOUS

\* A quotient and a remainder that fit are the quotient and the remainder.
LEMMA DivModUnique ==
  ASSUME NEW b \in Nat \ {0}, NEW q \in Int, NEW r \in 0..(b - 1), NEW a \in Int,
         a = b * q + r
  PROVE  a % b = r
  OBVIOUS

\* Products of a sum, stated once because the provers are slow to find it.
LEMMA Distribute ==
  ASSUME NEW b \in Int, NEW p \in Int, NEW q \in Int
  PROVE  b * p - b * q = b * (p - q) /\ b * p + b * q = b * (p + q)
  OBVIOUS

\* A seq's slot is a slot, and a seq is a number of laps and a slot.
LEMMA SlotType ==
  ASSUME NEW s \in Int
  PROVE  /\ SlotForSeq(s) \in Slots
         /\ SlotForSeq(s) \in 0..(Capacity - 1)
         /\ Capacity \in Nat \ {0}
         /\ \E p \in Int : s - 1 = Capacity * p + SlotForSeq(s)
<1>1. Capacity \in Nat \ {0} /\ s - 1 \in Int
  BY GeometryAssumption
<1> QED  BY <1>1, DivMod DEF SlotForSeq, Slots

\* The other way round.
LEMMA SlotOf ==
  ASSUME NEW s \in Int, NEW p \in Int, NEW r \in 0..(Capacity - 1),
         s - 1 = Capacity * p + r
  PROVE  SlotForSeq(s) = r
<1>1. Capacity \in Nat \ {0} /\ s - 1 \in Int
  BY GeometryAssumption
<1> QED  BY <1>1, DivModUnique DEF SlotForSeq

\* Two seqs less than two laps apart share a slot only one lap apart.
LEMMA SlotCollision ==
  ASSUME NEW s \in Int, NEW t \in Int, t < s, s - t < 2 * Capacity,
         SlotForSeq(s) = SlotForSeq(t)
  PROVE  s = t + Capacity
<1>1. PICK p \in Int : s - 1 = Capacity * p + SlotForSeq(s)  BY SlotType
<1>2. PICK q \in Int : t - 1 = Capacity * q + SlotForSeq(t)  BY SlotType
<1>3. Capacity \in Nat \ {0} /\ SlotForSeq(s) \in Int  BY SlotType
<1>4. s - t = Capacity * p - Capacity * q  BY <1>1, <1>2, <1>3
<1>5. s - t = Capacity * (p - q)  BY <1>3, <1>4, Distribute
<1>6. CASE p - q >= 2
  <2>1. Capacity * (p - q) >= Capacity * 2  BY <1>3, <1>6
  <2> QED  BY <1>3, <1>5, <2>1
<1>7. CASE p - q <= 0
  <2>1. Capacity * (p - q) <= 0  BY <1>3, <1>7
  <2> QED  BY <1>3, <1>5, <2>1
<1>8. CASE p - q = 1
  BY <1>3, <1>5, <1>8
<1> QED  BY <1>6, <1>7, <1>8

\* One lap apart, the slot is the same.
LEMMA SlotLap ==
  ASSUME NEW s \in Int
  PROVE  SlotForSeq(s + Capacity) = SlotForSeq(s)
<1>1. PICK p \in Int : s - 1 = Capacity * p + SlotForSeq(s)  BY SlotType
<1>2. Capacity \in Nat \ {0} /\ SlotForSeq(s) \in 0..(Capacity - 1)  BY SlotType
<1>3. s + Capacity \in Int /\ p + 1 \in Int  BY <1>2
<1>4. (s + Capacity) - 1 = Capacity * (p + 1) + SlotForSeq(s)
  <2>1. Capacity * p + Capacity * 1 = Capacity * (p + 1)  BY <1>2, Distribute
  <2>2. Capacity * 1 = Capacity  BY <1>2
  <2>3. Capacity * p \in Int  BY <1>2
  <2> QED  BY <1>1, <1>2, <2>1, <2>2, <2>3
<1> QED  BY <1>2, <1>3, <1>4, SlotOf

\* The ring is a whole number of sectors.
LEMMA SectorsWhole ==
  \E c \in Int : Capacity = RecordsPerSector * c
<1>1. /\ Capacity \in Int
      /\ RecordsPerSector \in Nat \ {0}
      /\ Capacity % RecordsPerSector = 0
  BY GeometryAssumption
<1>2. /\ Capacity = RecordsPerSector * (Capacity \div RecordsPerSector) + 0
      /\ Capacity \div RecordsPerSector \in Int
  BY <1>1, DivMod
<1>3. RecordsPerSector * (Capacity \div RecordsPerSector) \in Int
  BY <1>1, <1>2
<1> QED  BY <1>2, <1>3

\* A seq opens a sector exactly when it is one past a multiple of the sector.
LEMMA SectorStart ==
  ASSUME NEW s \in Int
  PROVE  EraseBeforeWrite(s) <=> (s - 1) % RecordsPerSector = 0
<1>1. PICK p \in Int : s - 1 = Capacity * p + SlotForSeq(s)  BY SlotType
<1>2. SlotForSeq(s) \in Int /\ RecordsPerSector \in Nat \ {0}
  BY SlotType, GeometryAssumption
<1>3. PICK c \in Int : Capacity = RecordsPerSector * c
  BY SectorsWhole
<1>4. PICK m \in Int, r \in 0..(RecordsPerSector - 1) :
        /\ SlotForSeq(s) = RecordsPerSector * m + r
        /\ r = SlotForSeq(s) % RecordsPerSector
  BY <1>2, DivMod
<1>5. s - 1 = RecordsPerSector * (c * p + m) + r
  <2>1. Capacity * p = RecordsPerSector * (c * p)
    BY <1>2, <1>3
  <2>2. s - 1 = RecordsPerSector * (c * p) + (RecordsPerSector * m + r)
    BY <1>1, <1>4, <2>1
  <2>3. RecordsPerSector * (c * p) + RecordsPerSector * m = RecordsPerSector * (c * p + m)
    BY <1>2, Distribute
  <2>4. RecordsPerSector * (c * p) \in Int /\ RecordsPerSector * m \in Int
    BY <1>2
  <2> QED  BY <2>2, <2>3, <2>4
<1>6. (s - 1) % RecordsPerSector = r
  <2>1. c * p + m \in Int /\ s - 1 \in Int  OBVIOUS
  <2> QED  BY <1>2, <1>5, <2>1, DivModUnique
<1> QED  BY <1>4, <1>6 DEF EraseBeforeWrite

\* Every run of RecordsPerSector seqs has one that opens a sector.
LEMMA SectorNear ==
  ASSUME NEW n \in Nat \ {0}
  PROVE  \E q \in 1..n : EraseBeforeWrite(q) /\ n - q < RecordsPerSector
<1> DEFINE r == (n - 1) % RecordsPerSector
           d == (n - 1) \div RecordsPerSector
           q == RecordsPerSector * d + 1
<1>1. /\ n - 1 = RecordsPerSector * d + r
      /\ r \in 0..(RecordsPerSector - 1)
      /\ d \in Int
  BY GeometryAssumption, DivMod
<1> HIDE DEF r, d
<1>2. d >= 0
  <2> SUFFICES ASSUME d <= -1 PROVE FALSE  BY <1>1
  <2>1. RecordsPerSector * d <= -RecordsPerSector  BY <1>1, GeometryAssumption
  <2> QED  BY <1>1, <2>1, GeometryAssumption
<1>3. q \in 1..n /\ n - q < RecordsPerSector
  <2>1. RecordsPerSector * d >= 0  BY <1>1, <1>2, GeometryAssumption
  <2> QED  BY <1>1, <2>1, GeometryAssumption
<1>4. (q - 1) % RecordsPerSector = 0
  <2>1. q - 1 = RecordsPerSector * d + 0  BY <1>1, GeometryAssumption
  <2> QED  BY <1>1, <2>1, GeometryAssumption, DivModUnique
<1> QED  BY <1>3, <1>4, SectorStart

\* The sector a seq opens holds the slots of that seq and of the ones after it.
LEMMA SectorSlots ==
  ASSUME NEW s \in Int, EraseBeforeWrite(s)
  PROVE  /\ SectorAt(s) \subseteq Slots
         /\ \A i \in SectorAt(s) :
              \E k \in 0..(RecordsPerSector - 1) : i = SlotForSeq(s + k)
         /\ \A k \in 0..(RecordsPerSector - 1) : SlotForSeq(s + k) \in SectorAt(s)
<1>1. PICK p \in Int : s - 1 = Capacity * p + SlotForSeq(s)  BY SlotType
<1>2. /\ SlotForSeq(s) \in 0..(Capacity - 1)
      /\ Capacity \in Nat \ {0}
      /\ RecordsPerSector \in Nat \ {0}
  BY SlotType, GeometryAssumption
<1>3. PICK c \in Int : Capacity = RecordsPerSector * c
  BY SectorsWhole
<1>4. PICK m \in Int : SlotForSeq(s) = RecordsPerSector * m
  <2>1. SlotForSeq(s) \in Int  BY <1>2
  <2>2. SlotForSeq(s) % RecordsPerSector = 0  BY DEF EraseBeforeWrite
  <2>3. /\ SlotForSeq(s) = RecordsPerSector * (SlotForSeq(s) \div RecordsPerSector) + 0
        /\ SlotForSeq(s) \div RecordsPerSector \in Int
    BY <1>2, <2>1, <2>2, DivMod
  <2>4. RecordsPerSector * (SlotForSeq(s) \div RecordsPerSector) \in Int
    BY <1>2, <2>3
  <2> QED  BY <2>3, <2>4
<1>5. m < c
  <2> SUFFICES ASSUME m >= c PROVE FALSE  OBVIOUS
  <2>1. RecordsPerSector * m >= RecordsPerSector * c  BY <1>2
  <2> QED  BY <1>2, <1>3, <1>4, <2>1
<1>6. SlotForSeq(s) + RecordsPerSector <= Capacity
  <2>1. RecordsPerSector * (m + 1) <= RecordsPerSector * c  BY <1>2, <1>5
  <2>2. RecordsPerSector * (m + 1) = RecordsPerSector * m + RecordsPerSector  BY <1>2
  <2> QED  BY <1>2, <1>3, <1>4, <2>1, <2>2
<1>7. ASSUME NEW k \in 0..(RecordsPerSector - 1)
      PROVE  SlotForSeq(s + k) = SlotForSeq(s) + k
  <2>1. Capacity * p \in Int  BY <1>2
  <2>2. /\ (s + k) - 1 = Capacity * p + (SlotForSeq(s) + k)
        /\ SlotForSeq(s) + k \in 0..(Capacity - 1)
        /\ s + k \in Int
    BY <1>1, <1>2, <1>6, <2>1
  <2> QED  BY <2>2, SlotOf
<1>8. SectorAt(s) \subseteq Slots
  BY <1>2, <1>6 DEF SectorAt, Slots
<1>9. ASSUME NEW i \in SectorAt(s)
      PROVE  \E k \in 0..(RecordsPerSector - 1) : i = SlotForSeq(s + k)
  <2>1. i - SlotForSeq(s) \in 0..(RecordsPerSector - 1)
    BY <1>2 DEF SectorAt
  <2>2. i = SlotForSeq(s + (i - SlotForSeq(s)))
    BY <2>1, <1>2, <1>7 DEF SectorAt
  <2> QED  BY <2>1, <2>2
<1>10. ASSUME NEW k \in 0..(RecordsPerSector - 1)
       PROVE  SlotForSeq(s + k) \in SectorAt(s)
  BY <1>7, <1>2 DEF SectorAt
<1> QED  BY <1>8, <1>9, <1>10

\* Distinct seqs less than a lap apart have distinct slots.
LEMMA SlotDistinct ==
  ASSUME NEW s \in Int, NEW t \in Int, s # t, s - t < Capacity, t - s < Capacity
  PROVE  SlotForSeq(s) # SlotForSeq(t)
<1> Capacity \in Nat \ {0}  BY GeometryAssumption
<1>1. CASE t < s  BY <1>1, SlotCollision
<1>2. CASE s < t  BY <1>2, SlotCollision
<1> QED  BY <1>1, <1>2

\* The sector before one that starts at n starts at n - RecordsPerSector.
LEMMA SectorBefore ==
  ASSUME NEW n \in Int, EraseBeforeWrite(n)
  PROVE  EraseBeforeWrite(n - RecordsPerSector)
<1>1. RecordsPerSector \in Nat \ {0} /\ n - 1 \in Int  BY GeometryAssumption
<1>2. (n - 1) % RecordsPerSector = 0  BY SectorStart
<1>3. PICK d \in Int : n - 1 = RecordsPerSector * d + 0
  BY <1>1, <1>2, DivMod
<1>4. RecordsPerSector * d - RecordsPerSector * 1 = RecordsPerSector * (d - 1)
  BY <1>1, Distribute
<1>5. (n - RecordsPerSector) - 1 = RecordsPerSector * (d - 1) + 0
  <2>1. RecordsPerSector * d \in Int /\ RecordsPerSector * 1 = RecordsPerSector
    BY <1>1
  <2> QED  BY <1>1, <1>3, <1>4, <2>1
<1>6. ((n - RecordsPerSector) - 1) % RecordsPerSector = 0
  <2>1. (n - RecordsPerSector) - 1 \in Int /\ d - 1 \in Int /\ 0 \in 0..(RecordsPerSector - 1)
    BY <1>1
  <2> QED  BY <1>1, <1>5, <2>1, DivModUnique
<1>7. n - RecordsPerSector \in Int  BY <1>1
<1> QED  BY <1>6, <1>7, SectorStart

\* Which of the older seqs lose their slot when seq n opens its sector.
LEMMA SectorVictims ==
  ASSUME NEW n \in Int, EraseBeforeWrite(n), NEW t \in Int, t < n, n - t <= Capacity
  PROVE  SlotForSeq(t) \in SectorAt(n) <=> t < n - Capacity + RecordsPerSector
<1> /\ Capacity \in Nat \ {0}
    /\ RecordsPerSector \in Nat \ {0}
    /\ Capacity >= 2 * RecordsPerSector
  BY GeometryAssumption
<1>1. ASSUME SlotForSeq(t) \in SectorAt(n)
      PROVE  t < n - Capacity + RecordsPerSector
  <2>1. PICK k \in 0..(RecordsPerSector - 1) : SlotForSeq(t) = SlotForSeq(n + k)
    BY <1>1, SectorSlots
  <2>2. n + k \in Int /\ t < n + k /\ (n + k) - t < 2 * Capacity  OBVIOUS
  <2>3. n + k = t + Capacity  BY <2>1, <2>2, SlotCollision
  <2> QED  BY <2>3
<1>2. ASSUME t < n - Capacity + RecordsPerSector
      PROVE  SlotForSeq(t) \in SectorAt(n)
  <2>1. (t + Capacity) - n \in 0..(RecordsPerSector - 1)  BY <1>2
  <2>2. SlotForSeq(n + ((t + Capacity) - n)) \in SectorAt(n)  BY <2>1, SectorSlots
  <2>3. n + ((t + Capacity) - n) = t + Capacity  OBVIOUS
  <2> QED  BY <2>2, <2>3, SlotLap
<1> QED  BY <1>1, <1>2

\* Seqs that follow one another without opening a sector are few.
LEMMA SameSectorSpan ==
  ASSUME NEW h \in Nat, NEW n \in Nat, h < n, SameSector(h + 1, n - 1)
  PROVE  n <= h + RecordsPerSector
<1> RecordsPerSector \in Nat \ {0}  BY GeometryAssumption
<1> SUFFICES ASSUME n > h + RecordsPerSector PROVE FALSE  OBVIOUS
<1>1. n - 1 \in Nat \ {0}  OBVIOUS
<1>2. PICK q \in 1..(n - 1) : EraseBeforeWrite(q) /\ (n - 1) - q < RecordsPerSector
  BY <1>1, SectorNear
<1>3. q \in (h + 1)..(n - 1)  BY <1>2
<1> QED  BY <1>2, <1>3 DEF SameSector

-----------------------------------------------------------------------------
(* The invariant holds initially and is preserved by every step *)

\* A node fresh from the factory satisfies the invariant.
LEMMA InitInv == NodeInit => NodeIInv
<1> SUFFICES ASSUME NodeInit PROVE NodeIInv  OBVIOUS
<1> USE DEF NodeInit
<1>1. NodeTypeOK
  <2>1. Erased \in Contents  BY DEF Erased, Contents
  <2>2. flash \in [Slots -> Contents]  BY <2>1
  <2>3. ram \in [next : 1..MaxU32, oldest : 1..MaxU32, acked : Nat, boot : Nat, log : Nat]
    BY LimitsAssumption DEF OffWindow
  <2> QED  BY <2>2, <2>3 DEF NodeTypeOK
<1>2. \A i \in Slots : ~Decodes(flash[i]) /\ IsErased(flash[i])
  BY DEF Decodes, IsErased, Erased
<1>3. \A k \in Int : SlotForSeq(k) \in Slots
  BY SlotType
<1>4. RecordsPerSector \in Nat  BY GeometryAssumption
<1>5. TailErased
  BY <1>2, <1>3, <1>4 DEF TailErased
<1>6. RecordsInPlace /\ SectorsRetired
  BY <1>2 DEF RecordsInPlace, SectorsRetired
<1> QED  BY <1>1, <1>5, <1>6, LimitsAssumption DEF NodeIInv, NewestHeld, WindowInv

\* The first sector opened from h on leaves h's own slot and the slots between.
LEMMA SectorSpares ==
  ASSUME NEW h \in Nat, NEW n \in Nat, h < n, SameSector(h + 1, n - 1),
         EraseBeforeWrite(n), NEW t \in Nat, h <= t, t < n
  PROVE  SlotForSeq(t) \notin SectorAt(n)
<1> /\ Capacity \in Nat \ {0}
    /\ RecordsPerSector \in Nat \ {0}
    /\ Capacity >= 2 * RecordsPerSector
  BY GeometryAssumption
<1>1. n <= h + RecordsPerSector  BY SameSectorSpan
<1>2. n - t <= Capacity /\ ~(t < n - Capacity + RecordsPerSector)  BY <1>1
<1> QED  BY <1>2, SectorVictims

\* The records in flash when the node is up are at most one lap behind a seq
\* that is about to open a sector.
LEMMA OneLapBehind ==
  ASSUME NodeIInv, up, EraseBeforeWrite(ram.next), NEW i \in Slots, Decodes(flash[i])
  PROVE  ram.next - flash[i].seq <= Capacity
<1> /\ Capacity \in Nat \ {0}
    /\ RecordsPerSector \in Nat \ {0}
    /\ Capacity >= 2 * RecordsPerSector
  BY GeometryAssumption
<1>1. ram.next \in Nat /\ issued \in Nat /\ issued < ram.next
  BY DEF NodeIInv, NodeTypeOK, WindowInv
<1>2. flash[i].seq \in 1..issued  BY DEF NodeIInv, RecordsInPlace
<1>3. ram.next <= issued + RecordsPerSector
  <2>1. SameSector(issued + 1, ram.next - 1)
    BY DEF NodeIInv, WindowInv, IsBurnedTo, SameSector, BurnStops
  <2> QED  BY <1>1, <2>1, SameSectorSpan
<1>4. CASE ram.next <= RecordsPerSector
  BY <1>1, <1>2, <1>4
<1>5. CASE ram.next > RecordsPerSector
  <2>1. EraseBeforeWrite(ram.next - RecordsPerSector)
    BY <1>1, SectorBefore
  <2>2. ram.next - RecordsPerSector \in 1..issued
    BY <1>1, <1>3, <1>5
  <2>3. flash[i].seq >= (ram.next - RecordsPerSector) + RecordsPerSector - Capacity
    BY <2>1, <2>2 DEF NodeIInv, SectorsRetired
  <2> QED  BY <1>1, <1>2, <2>3
<1> QED  BY <1>1, <1>4, <1>5

\* A completed append keeps the invariant.
LEMMA TakeSampleInv ==
  ASSUME NodeIInv, TakeSample
  PROVE  NodeIInv'
<1> DEFINE n == ram.next
           f == Prepared(flash, n)
<1>geo. /\ Capacity \in Nat \ {0}
        /\ RecordsPerSector \in Nat \ {0}
        /\ Capacity >= 2 * RecordsPerSector
        /\ MaxU32 \in Nat
  BY GeometryAssumption, LimitsAssumption
<1>typ. /\ NodeTypeOK
        /\ n \in Nat /\ 1 <= n /\ n < MaxU32
        /\ issued \in Nat /\ issued < n
        /\ ram.oldest \in 1..MaxU32 /\ ram.acked \in Nat /\ ram.boot \in Nat
        /\ flash \in [Slots -> Contents]
        /\ up
  BY DEF NodeIInv, NodeTypeOK, WindowInv, TakeSample
<1>win. /\ SameSector(issued + 1, n - 1)
        /\ BurnStops(flash, n)
        /\ ram.oldest <= n
        /\ ram.acked < n
  BY <1>typ DEF NodeIInv, WindowInv, IsBurnedTo, SameSector, BurnStops
<1>slot. \A k \in Int : SlotForSeq(k) \in Slots
  BY SlotType
<1>1. /\ f \in [Slots -> Contents]
      /\ \A i \in Slots :
           f[i] = IF EraseBeforeWrite(n) /\ i \in SectorAt(n) THEN Erased ELSE flash[i]
  BY <1>typ DEF Prepared, EraseSector, Contents, Erased
<1>2. IsErased(f[SlotForSeq(n)])
  <2>1. CASE EraseBeforeWrite(n)
    <3>1. SlotForSeq(n) \in Int
      <4>1. n \in Int  BY <1>typ
      <4> HIDE DEF n
      <4>2. SlotForSeq(n) \in Slots  BY <4>1, <1>slot
      <4> QED  BY <1>geo, <4>2 DEF Slots
    <3>2. SlotForSeq(n) \in SectorAt(n)  BY <1>geo, <3>1 DEF SectorAt
    <3> QED  BY <1>1, <1>typ, <1>slot, <2>1, <3>2 DEF IsErased, Erased
  <2>2. CASE ~EraseBeforeWrite(n)
    BY <1>1, <1>typ, <1>slot, <1>win, <2>2 DEF BurnStops
  <2> QED  BY <2>1, <2>2
<1>3. /\ flash' = [f EXCEPT ![SlotForSeq(n)] = Record(n, ram.boot)]
      /\ ram' = Reserve(ram)
      /\ issued' = n
      /\ nvs' = nvs /\ up' = up /\ drawn' = drawn
  <2>1. flash' = Program(f, n, Record(n, ram.boot))
    BY DEF TakeSample
  <2> QED  BY <1>1, <1>2, <1>typ, <1>slot, <2>1 DEF TakeSample, Program
<1> HIDE DEF f
<1>4. /\ flash'[SlotForSeq(n)] = Record(n, ram.boot)
      /\ \A i \in Slots : i # SlotForSeq(n) => flash'[i] = f[i]
  BY <1>1, <1>3, <1>typ, <1>slot
<1>5. \A i \in Slots : i # SlotForSeq(n) /\ Decodes(flash'[i]) =>
        /\ flash'[i] = flash[i]
        /\ ~(EraseBeforeWrite(n) /\ i \in SectorAt(n))
  BY <1>1, <1>4 DEF Decodes, Erased
<1>6. Decodes(Record(n, ram.boot)) /\ Record(n, ram.boot).seq = n
      /\ Record(n, ram.boot) \in Contents
  BY <1>typ DEF Decodes, Record, Contents
<1>7. /\ ram'.next = n + 1
      /\ ram'.oldest = IF EraseBeforeWrite(n) /\ n > Capacity - RecordsPerSector
                       THEN Greatest(ram.oldest, n - (Capacity - RecordsPerSector))
                       ELSE ram.oldest
      /\ ram'.acked = ram.acked /\ ram'.boot = ram.boot /\ ram'.log = ram.log
      /\ ram' \in [next : Nat, oldest : Int, acked : Nat, boot : Nat, log : Nat]
  <2> DEFINE o == IF EraseBeforeWrite(n) /\ n > Capacity - RecordsPerSector
                  THEN Greatest(ram.oldest, n - (Capacity - RecordsPerSector))
                  ELSE ram.oldest
  <2>1. o \in Int  BY <1>typ, <1>geo DEF Greatest
  <2>2. ram' = [ram EXCEPT !.next = n + 1, !.oldest = o]
    BY <1>3 DEF Reserve
  <2>3. ram \in [next : 1..MaxU32, oldest : 1..MaxU32, acked : Nat, boot : Nat, log : Nat]
    BY <1>typ DEF NodeTypeOK
  <2> HIDE DEF o
  <2>4. /\ ram'.next = n + 1 /\ ram'.oldest = o
        /\ ram'.acked = ram.acked /\ ram'.boot = ram.boot /\ ram'.log = ram.log
        /\ ram' \in [next : Nat, oldest : Int, acked : Nat, boot : Nat, log : Nat]
    <3>1. ram' = [next |-> n + 1, oldest |-> o, acked |-> ram.acked,
                  boot |-> ram.boot, log |-> ram.log]
      BY <2>2, <2>3
    <3> QED  BY <2>1, <2>3, <3>1, <1>typ
  <2> QED  BY <2>4 DEF o
<1>8. ram'.oldest \in 1..n /\ ram'.oldest >= ram.oldest
  BY <1>7, <1>typ, <1>geo, <1>win DEF Greatest
<1>9. NodeTypeOK'
  <2>1. flash' \in [Slots -> Contents]  BY <1>1, <1>3, <1>6
  <2>2. ram' \in [next : 1..MaxU32, oldest : 1..MaxU32, acked : Nat, boot : Nat, log : Nat]
    BY <1>7, <1>8, <1>typ, <1>geo
  <2>3. failed' = failed  BY DEF TakeSample
  <2> QED  BY <1>3, <1>typ, <2>1, <2>2, <2>3 DEF NodeTypeOK
<1>10. RecordsInPlace'
  <2> SUFFICES ASSUME NEW i \in Slots, Decodes(flash'[i])
               PROVE  flash'[i].seq \in 1..n /\ SlotForSeq(flash'[i].seq) = i
    BY <1>3 DEF RecordsInPlace
  <2>1. CASE i = SlotForSeq(n)  BY <2>1, <1>4, <1>6, <1>typ
  <2>2. CASE i # SlotForSeq(n)
    BY <2>2, <1>5, <1>typ DEF NodeIInv, RecordsInPlace
  <2> QED  BY <2>1, <2>2
<1>11. NewestHeld'
  BY <1>3, <1>4, <1>6 DEF NewestHeld
<1>12. ASSUME NEW i \in Slots, i # SlotForSeq(n), Decodes(flash'[i]), EraseBeforeWrite(n)
       PROVE  flash[i].seq >= n + RecordsPerSector - Capacity
  <2>1. /\ flash'[i] = flash[i] /\ Decodes(flash[i])
        /\ i \notin SectorAt(n)
    BY <1>5, <1>12
  <2>2. flash[i].seq \in 1..issued /\ SlotForSeq(flash[i].seq) = i
    BY <2>1 DEF NodeIInv, RecordsInPlace
  <2>3. n - flash[i].seq <= Capacity
    BY <1>12, <1>typ, <2>1, OneLapBehind
  <2> QED  BY <1>12, <1>typ, <1>geo, <2>1, <2>2, <2>3, SectorVictims
<1>13. SectorsRetired'
  <2> SUFFICES ASSUME NEW i \in Slots, Decodes(flash'[i]), NEW q \in 1..n, EraseBeforeWrite(q)
               PROVE  flash'[i].seq >= q + RecordsPerSector - Capacity
    BY <1>3 DEF SectorsRetired
  <2>1. CASE i = SlotForSeq(n)  BY <2>1, <1>4, <1>6, <1>typ, <1>geo
  <2>2. CASE i # SlotForSeq(n) /\ q <= issued
    BY <2>2, <1>5, <1>typ DEF NodeIInv, SectorsRetired
  <2>3. CASE i # SlotForSeq(n) /\ q > issued
    <3>1. q = n  BY <2>3, <1>typ, <1>win DEF SameSector
    <3> QED  BY <2>3, <3>1, <1>5, <1>12
  <2> QED  BY <2>1, <2>2, <2>3, <1>typ
<1>14. ASSUME NEW l \in Nat, n < l, SameSector(n + 1, l)
       PROVE  IsErased(flash'[SlotForSeq(l)])
  <2>1. l <= n + RecordsPerSector - 1
    <3>1. l + 1 \in Nat /\ n < l + 1 /\ (l + 1) - 1 = l  BY <1>14, <1>typ
    <3>2. SameSector(n + 1, (l + 1) - 1)  BY <1>14, <3>1
    <3>3. l + 1 <= n + RecordsPerSector  BY <3>1, <3>2, <1>typ, SameSectorSpan
    <3> QED  BY <3>3, <1>14, <1>typ, <1>geo
  <2>2. SlotForSeq(l) # SlotForSeq(n)
    BY <2>1, <1>14, <1>typ, <1>geo, SlotDistinct
  <2>3. flash'[SlotForSeq(l)] = f[SlotForSeq(l)]
    BY <2>2, <1>4, <1>14, <1>slot
  <2>4. CASE EraseBeforeWrite(n)
    <3>1. SlotForSeq(n + (l - n)) \in SectorAt(n)
      BY <2>1, <2>4, <1>14, <1>typ, <1>geo, SectorSlots
    <3>2. n + (l - n) = l  BY <1>typ
    <3> QED  BY <2>3, <2>4, <3>1, <3>2, <1>1, <1>slot DEF IsErased, Erased
  <2>5. CASE ~EraseBeforeWrite(n)
    <3>1. SameSector(issued + 1, l)
      BY <2>5, <1>14, <1>win, <1>typ DEF SameSector
    <3>2. l <= issued + RecordsPerSector
      <4>1. SameSector(issued + 1, (l + 1) - 1)  BY <3>1
      <4> QED  BY <1>14, <4>1, <1>typ, <1>geo, SameSectorSpan
    <3>3. IsErased(flash[SlotForSeq(n)])
      BY <1>win, <2>5 DEF BurnStops
    <3>4. /\ n \in (issued + 1)..(issued + RecordsPerSector)
          /\ l \in (issued + 1)..(issued + RecordsPerSector)
      BY <3>2, <1>14, <1>typ, <1>geo
    <3>5. IsErased(flash[SlotForSeq(l)])
      BY <3>1, <3>3, <3>4, <1>14 DEF NodeIInv, TailErased
    <3> QED  BY <2>3, <2>5, <3>5, <1>1, <1>14, <1>slot
  <2> QED  BY <2>4, <2>5
<1>15. TailErased'
  BY <1>3, <1>14, <1>typ, <1>geo DEF TailErased
<1>16. WindowInv'
  <2>1. n < ram'.next /\ SameSector(n + 1, ram'.next - 1)
    BY <1>7, <1>typ DEF SameSector
  <2>2. BurnStops(flash', ram'.next)
    <3> SUFFICES ASSUME ~EraseBeforeWrite(n + 1)
                 PROVE  IsErased(flash'[SlotForSeq(n + 1)])
      BY <1>7 DEF BurnStops
    <3>1. SameSector(n + 1, n + 1)  BY <1>typ DEF SameSector
    <3> QED  BY <3>1, <1>14, <1>typ
  <2>3. ram'.oldest <= ram'.next /\ ram'.acked < ram'.next
    BY <1>7, <1>8, <1>typ, <1>win
  <2>4. ASSUME NEW i \in Slots, Decodes(flash'[i])
        PROVE  ram'.oldest <= flash'[i].seq
    <3>1. CASE i = SlotForSeq(n)  BY <3>1, <1>4, <1>6, <1>8, <1>typ
    <3>2. CASE i # SlotForSeq(n)
      <4>1. flash'[i] = flash[i] /\ ram.oldest <= flash[i].seq /\ flash[i].seq \in Nat
        BY <2>4, <3>2, <1>5, <1>typ DEF NodeIInv, WindowInv, RecordsInPlace
      <4>2. CASE EraseBeforeWrite(n) /\ n > Capacity - RecordsPerSector
        BY <4>1, <4>2, <3>2, <2>4, <1>7, <1>12, <1>typ, <1>geo DEF Greatest
      <4>3. CASE ~(EraseBeforeWrite(n) /\ n > Capacity - RecordsPerSector)
        BY <4>1, <4>3, <1>7
      <4> QED  BY <4>2, <4>3
    <3> QED  BY <3>1, <3>2
  <2>5. ASSUME NEW q \in 1..(ram'.next - 1), EraseBeforeWrite(q)
        PROVE  ram'.oldest >= q + RecordsPerSector - Capacity
    <3>1. CASE q < n
      <4>1. ram.oldest >= q + RecordsPerSector - Capacity
        BY <2>5, <3>1, <1>typ DEF NodeIInv, WindowInv
      <4> QED  BY <4>1, <1>7, <1>8, <1>typ, <1>geo
    <3>2. CASE q = n
      BY <2>5, <3>2, <1>7, <1>8, <1>typ, <1>geo DEF Greatest
    <3> QED  BY <3>1, <3>2, <1>7, <1>typ
  <2>6. IsBurnedTo(flash', n + 1, ram'.next)
    BY <1>7, <1>typ, <2>2 DEF IsBurnedTo
  <2> QED  BY <1>3, <2>1, <2>3, <2>4, <2>5, <2>6 DEF WindowInv
<1> QED
  BY <1>3, <1>typ, <1>9, <1>10, <1>11, <1>13, <1>15, <1>16 DEF NodeIInv

\* So does an append that the power cut interrupts.
LEMMA PowerCutInAppendInv ==
  ASSUME NodeIInv, PowerCutInAppend
  PROVE  NodeIInv'
<1> DEFINE n == ram.next
<1>geo. /\ Capacity \in Nat \ {0}
        /\ RecordsPerSector \in Nat \ {0}
        /\ Capacity >= 2 * RecordsPerSector
  BY GeometryAssumption
<1>typ. /\ NodeTypeOK
        /\ n \in Nat
        /\ issued \in Nat /\ issued < n
        /\ flash \in [Slots -> Contents]
        /\ up
  BY DEF NodeIInv, NodeTypeOK, WindowInv, PowerCutInAppend
<1>win. /\ SameSector(issued + 1, n - 1)
        /\ \A k \in (issued + 1)..(n - 1) : ~IsErased(flash[SlotForSeq(k)])
        /\ BurnStops(flash, n)
  BY <1>typ DEF NodeIInv, WindowInv, IsBurnedTo, SameSector, BurnStops
<1>unch. /\ nvs' = nvs /\ drawn' = drawn /\ issued' = issued
         /\ up' = FALSE /\ ram' = OffWindow
  BY DEF PowerCutInAppend
<1>slot. \A k \in Int : SlotForSeq(k) \in Slots
  BY SlotType
<1>span. n <= issued + RecordsPerSector
  BY <1>typ, <1>win, SameSectorSpan
\* The interrupted append touches only its own slot, or the sector it opens.
<1>1. /\ flash' \in [Slots -> Contents]
      /\ \A i \in Slots :
           \/ flash'[i] = flash[i]
           \/ EraseBeforeWrite(n) /\ i \in SectorAt(n) /\ ~Decodes(flash'[i])
           \/ i = SlotForSeq(n) /\ ~Decodes(flash'[i]) /\ ~IsErased(flash'[i])
  <2>1. CASE EraseBeforeWrite(n) /\
             \E part \in [SectorAt(n) -> {"old", "erased", "torn"}] :
               flash' = [i \in Slots |->
                           IF i \notin SectorAt(n) \/ part[i] = "old" THEN flash[i]
                           ELSE IF part[i] = "erased" THEN Erased ELSE Torn]
    <3>1. PICK part \in [SectorAt(n) -> {"old", "erased", "torn"}] :
            flash' = [i \in Slots |->
                        IF i \notin SectorAt(n) \/ part[i] = "old" THEN flash[i]
                        ELSE IF part[i] = "erased" THEN Erased ELSE Torn]
      BY <2>1
    <3>2. /\ Torn \in Contents /\ ~Decodes(Torn)
          /\ Erased \in Contents /\ ~Decodes(Erased)
      BY DEF Torn, Erased, Contents, Decodes
    <3>3. ASSUME NEW i \in Slots
          PROVE  /\ flash'[i] \in Contents
                 /\ flash'[i] = flash[i] \/ (i \in SectorAt(n) /\ ~Decodes(flash'[i]))
      BY <3>1, <3>2, <1>typ
    <3> QED  BY <2>1, <3>1, <3>3
  <2>2. CASE LET f == Prepared(flash, n)
             IN flash' \in {f, Program(f, n, Torn)}
    <3> DEFINE f == Prepared(flash, n)
    <3>1. /\ f \in [Slots -> Contents]
          /\ \A i \in Slots :
               f[i] = flash[i] \/ (EraseBeforeWrite(n) /\ i \in SectorAt(n) /\ ~Decodes(f[i]))
      BY <1>typ DEF Prepared, EraseSector, Erased, Contents, Decodes
    <3>2. flash' = f \/ flash' = [f EXCEPT ![SlotForSeq(n)] = Torn]
      BY <2>2 DEF Program
    <3> HIDE DEF f
    <3>3. Torn \in Contents /\ ~Decodes(Torn) /\ ~IsErased(Torn)
      BY DEF Torn, Contents, Decodes, IsErased
    <3> QED  BY <3>1, <3>2, <3>3
  <2> QED  BY <2>1, <2>2 DEF PowerCutInAppend
<1>2. \A i \in Slots : Decodes(flash'[i]) => flash'[i] = flash[i]
  BY <1>1
<1>3. ASSUME NEW t \in Nat, issued <= t, t < n
      PROVE  flash'[SlotForSeq(t)] = flash[SlotForSeq(t)]
  <2>1. SlotForSeq(t) # SlotForSeq(n)
    BY <1>3, <1>typ, <1>geo, <1>span, SlotDistinct
  <2>2. EraseBeforeWrite(n) => SlotForSeq(t) \notin SectorAt(n)
    BY <1>3, <1>typ, <1>win, SectorSpares
  <2> QED  BY <2>1, <2>2, <1>1, <1>3, <1>slot
<1>4. NodeTypeOK'
  <2>1. ram' \in [next : 1..MaxU32, oldest : 1..MaxU32, acked : Nat, boot : Nat, log : Nat]
    BY <1>unch, LimitsAssumption DEF OffWindow
  <2>2. failed' = failed  BY DEF PowerCutInAppend
  <2> QED  BY <1>1, <1>typ, <1>unch, <2>1, <2>2 DEF NodeTypeOK
<1>5. RecordsInPlace' /\ SectorsRetired'
  BY <1>2, <1>unch DEF NodeIInv, RecordsInPlace, SectorsRetired
<1>6. NewestHeld'
  BY <1>3, <1>typ, <1>unch DEF NodeIInv, NewestHeld
<1>7. TailErased'
  <2> SUFFICES ASSUME NEW k \in (issued + 1)..(issued + RecordsPerSector),
                      NEW l \in (issued + 1)..(issued + RecordsPerSector),
                      k < l, SameSector(issued + 1, l), IsErased(flash'[SlotForSeq(k)])
               PROVE  IsErased(flash'[SlotForSeq(l)])
    BY <1>unch DEF TailErased
  <2>1. k \in Nat /\ l \in Nat /\ issued < k /\ issued < l  BY <1>typ, <1>geo
  <2>2. CASE l < n
    <3>1. flash'[SlotForSeq(k)] = flash[SlotForSeq(k)]
      BY <2>1, <2>2, <1>3, <1>typ
    <3>2. flash'[SlotForSeq(l)] = flash[SlotForSeq(l)]
      BY <2>1, <2>2, <1>3, <1>typ
    <3> QED  BY <3>1, <3>2 DEF NodeIInv, TailErased
  <2>3. CASE l >= n
    <3>1. ~EraseBeforeWrite(n)
      BY <2>1, <2>3, <1>typ DEF SameSector
    <3>2. k >= n
      <4> SUFFICES ASSUME k < n PROVE FALSE  BY <2>1, <1>typ
      <4>1. flash'[SlotForSeq(k)] = flash[SlotForSeq(k)]  BY <2>1, <1>3, <1>typ
      <4>2. k \in (issued + 1)..(n - 1)  BY <2>1, <1>typ
      <4> QED  BY <4>1, <4>2, <1>win
    <3>3. SlotForSeq(l) # SlotForSeq(n)
      BY <2>1, <2>3, <3>2, <1>typ, <1>geo, SlotDistinct
    <3>4. flash'[SlotForSeq(l)] = flash[SlotForSeq(l)]
      BY <3>1, <3>3, <2>1, <1>1, <1>slot
    <3>5. IsErased(flash[SlotForSeq(n)])  BY <3>1, <1>win DEF BurnStops
    <3>6. n \in (issued + 1)..(issued + RecordsPerSector) /\ n < l
      BY <2>1, <3>2, <1>typ, <1>geo, <1>span
    <3> QED  BY <3>4, <3>5, <3>6 DEF NodeIInv, TailErased
  <2> QED  BY <2>1, <2>2, <2>3, <1>typ
<1>8. WindowInv'
  BY <1>unch DEF WindowInv
<1> QED
  BY <1>unch, <1>4, <1>5, <1>6, <1>7, <1>8 DEF NodeIInv

\* Rebuilding the window from flash restores it exactly.
LEMMA BootInv ==
  ASSUME NodeIInv, Boot
  PROVE  NodeIInv'
<1>geo. /\ Capacity \in Nat \ {0}
        /\ RecordsPerSector \in Nat \ {0}
        /\ Capacity >= 2 * RecordsPerSector
        /\ MaxU32 \in Nat \ {0}
  BY GeometryAssumption, LimitsAssumption
<1>typ. /\ NodeTypeOK
        /\ issued \in Nat /\ issued < MaxU32
        /\ flash \in [Slots -> Contents]
        /\ nvs.boot \in Nat /\ nvs.log \in Nat /\ nvs.acked \in Nat /\ drawn \in Nat
  BY DEF NodeIInv, NodeTypeOK
<1>unch. flash' = flash /\ issued' = issued /\ up' = TRUE
  BY DEF Boot
<1>1. PICK lo \in Believed(flash) \union {0}, hi \in Believed(flash) \union {0},
           a \in {0, nvs.acked}, l \in {nvs.log, FreshLogId}, m \in 0..MaxU32 :
        /\ hi < m
        /\ IsRecMin(flash, lo) /\ IsRecMax(flash, hi)
        /\ IsBurnedTo(flash, hi + 1, m)
        /\ ram' = [RecoverFinish(lo, hi, a, nvs.boot + 1, l) EXCEPT !.next = m]
  <2> DEFINE fresh == ~Found(flash)
             A == IF fresh THEN 0 ELSE nvs.acked
             L == IF fresh THEN FreshLogId ELSE nvs.log
  <2>1. PICK lo \in Believed(flash) \union {0}, hi \in Believed(flash) \union {0} :
          /\ IsRecMin(flash, lo) /\ IsRecMax(flash, hi)
          /\ LET w == RecoverFinish(lo, hi, A, nvs.boot + 1, L) IN
             \E m \in w.next..MaxU32 :
               IsBurnedTo(flash, w.next, m) /\ ram' = [w EXCEPT !.next = m]
    BY DEF Boot
  <2>2. A \in {0, nvs.acked} /\ L \in {nvs.log, FreshLogId}  OBVIOUS
  <2> HIDE DEF A, L
  <2>3. RecoverFinish(lo, hi, A, nvs.boot + 1, L).next = hi + 1  BY DEF RecoverFinish
  <2>4. \E m \in (hi + 1)..MaxU32 :
          /\ IsBurnedTo(flash, hi + 1, m)
          /\ ram' = [RecoverFinish(lo, hi, A, nvs.boot + 1, L) EXCEPT !.next = m]
    BY <2>1, <2>3
  <2>5. hi \in Nat
    BY <2>1 DEF NodeIInv, RecordsInPlace, Believed
  <2>6. PICK m \in (hi + 1)..MaxU32 :
          /\ IsBurnedTo(flash, hi + 1, m)
          /\ ram' = [RecoverFinish(lo, hi, A, nvs.boot + 1, L) EXCEPT !.next = m]
    BY <2>4
  <2>7. m \in 0..MaxU32 /\ hi < m  BY <2>5, <1>geo
  <2> QED  BY <2>1, <2>2, <2>6, <2>7
<1>2. /\ drawn' \in Nat
      /\ nvs' \in [boot : Nat, log : Nat, acked : Nat]
  <2>1. drawn' = drawn \/ drawn' = drawn + 1
    BY DEF Boot
  <2> DEFINE fresh == ~Found(flash)
             L == IF fresh THEN FreshLogId ELSE nvs.log
  <2>2. PICK b \in NvsPut("boot", nvs.boot, nvs.boot + 1),
             l2 \in NvsPut("log_id", nvs.log, L),
             a2 \in NvsPut("acked", nvs.acked, 0) :
          nvs' = IF fresh THEN [boot |-> b, log |-> l2, acked |-> a2]
                 ELSE [nvs EXCEPT !.boot = b]
    <3>1. ASSUME NEW x, NEW y
          PROVE  RecoverFinish(x, y, IF fresh THEN 0 ELSE nvs.acked, nvs.boot + 1, L).log = L
      BY DEF RecoverFinish
    <3> QED  BY <3>1 DEF Boot
  <2>3. b \in Nat /\ l2 \in Nat /\ a2 \in Nat
    BY <2>2, <1>typ DEF NvsPut, FreshLogId
  <2>4. nvs \in [boot : Nat, log : Nat, acked : Nat]
    BY <1>typ DEF NodeTypeOK
  <2> QED  BY <1>typ, <2>1, <2>2, <2>3, <2>4
<1>3. /\ \A i \in Slots : Decodes(flash[i]) => flash[i].seq \in Believed(flash)
      /\ \A s \in Believed(flash) :
           \E i \in Slots : Decodes(flash[i]) /\ flash[i].seq = s /\ s \in 1..issued
  BY DEF NodeIInv, RecordsInPlace, Believed
<1>4. issued > 0 => issued \in Believed(flash)
  <2>1. SlotForSeq(issued) \in Slots  BY <1>typ, SlotType
  <2> QED  BY <1>3, <2>1 DEF NodeIInv, NewestHeld
<1>5. hi = issued
  BY <1>1, <1>3, <1>4, <1>typ DEF IsRecMax
<1>6. /\ ram'.next = m
      /\ ram'.oldest = IF issued = 0 THEN 1 ELSE lo
      /\ ram'.acked = Least(a, issued)
      /\ ram' \in [next : Nat, oldest : Int, acked : Nat, boot : Nat, log : Nat]
      /\ m \in Nat /\ issued < m /\ m <= MaxU32
      /\ a \in Nat
  <2>1. lo \in Nat /\ l \in Nat /\ a \in Nat /\ m \in Nat
    BY <1>1, <1>3, <1>5, <1>typ, <1>geo DEF FreshLogId
  <2>2. ram' = [next |-> m, oldest |-> IF issued = 0 THEN 1 ELSE lo, acked |-> Least(a, issued),
                boot |-> nvs.boot + 1, log |-> l]
    BY <1>1, <1>5 DEF RecoverFinish
  <2>3. Least(a, issued) \in Nat  BY <2>1, <1>typ DEF Least
  <2> QED  BY <2>1, <2>2, <2>3, <1>1, <1>5, <1>typ, <1>geo
<1>7. ram'.oldest \in 1..m /\ ram'.acked < m
  <2>1. issued > 0 => lo \in 1..issued
    BY <1>1, <1>3, <1>4 DEF IsRecMin
  <2>2. Least(a, issued) <= issued  BY <1>6, <1>typ DEF Least
  <2> QED  BY <2>1, <2>2, <1>6, <1>typ
<1>8. NodeTypeOK'
  <2>1. failed' = failed  BY DEF Boot
  <2> QED  BY <1>2, <1>6, <1>7, <1>unch, <1>typ, <1>geo, <2>1 DEF NodeTypeOK
<1>9. SameSector(issued + 1, m - 1)
  BY <1>1, <1>5 DEF IsBurnedTo, BurnStops, SameSector
<1>10. ASSUME NEW i \in Slots, Decodes(flash[i])
       PROVE  ram'.oldest <= flash[i].seq
  BY <1>10, <1>1, <1>3, <1>6, <1>typ DEF IsRecMin
<1>11. ASSUME NEW q \in 1..(m - 1), EraseBeforeWrite(q)
       PROVE  ram'.oldest >= q + RecordsPerSector - Capacity
  <2>1. q \in 1..issued
    BY <1>11, <1>9, <1>6, <1>typ DEF SameSector
  <2>2. PICK i \in Slots : Decodes(flash[i]) /\ flash[i].seq = lo
    BY <2>1, <1>1, <1>3, <1>4, <1>typ DEF IsRecMin
  <2>3. flash[i].seq >= q + RecordsPerSector - Capacity
    BY <1>11, <2>1, <2>2 DEF NodeIInv, SectorsRetired
  <2> QED  BY <2>1, <2>2, <2>3, <1>6, <1>typ
<1>12. WindowInv'
  BY <1>1, <1>5, <1>6, <1>7, <1>10, <1>11, <1>unch DEF WindowInv
<1>13. RecordsInPlace' /\ NewestHeld' /\ SectorsRetired' /\ TailErased'
  BY <1>unch DEF NodeIInv, RecordsInPlace, NewestHeld, SectorsRetired, TailErased
<1> QED  BY <1>8, <1>12, <1>13, <1>typ, <1>unch DEF NodeIInv

\* Acks, power cuts, an interrupted boot and a wiped partition keep it too.
LEMMA HandleAckInv ==
  ASSUME NodeIInv, NEW a \in 0..MaxU32, HandleAck(a)
  PROVE  NodeIInv'
<1>typ. /\ NodeTypeOK /\ up
        /\ ram \in [next : 1..MaxU32, oldest : 1..MaxU32, acked : Nat, boot : Nat, log : Nat]
        /\ nvs \in [boot : Nat, log : Nat, acked : Nat]
        /\ a \in Nat
  BY LimitsAssumption DEF NodeIInv, NodeTypeOK, HandleAck
<1>1. /\ flash' = flash /\ up' = up /\ drawn' = drawn /\ issued' = issued
      /\ ram' = [ram EXCEPT !.acked = Least(a, ram.next - 1)]
  BY DEF HandleAck, ApplyAck
<1>2. Least(a, ram.next - 1) \in Nat /\ Least(a, ram.next - 1) < ram.next
  BY <1>typ, LimitsAssumption DEF Least
<1>3. /\ ram' \in [next : 1..MaxU32, oldest : 1..MaxU32, acked : Nat, boot : Nat, log : Nat]
      /\ ram'.next = ram.next /\ ram'.oldest = ram.oldest /\ ram'.acked < ram.next
  BY <1>typ, <1>1, <1>2
<1>4. nvs' \in [boot : Nat, log : Nat, acked : Nat]
  <2>1. nvs' = nvs \/ \E v \in {nvs.acked, ram'.acked} : nvs' = [nvs EXCEPT !.acked = v]
    BY DEF HandleAck, NvsPut
  <2> QED  BY <1>typ, <1>3, <2>1
<1>5. NodeTypeOK'
  <2>1. failed' = failed  BY DEF HandleAck
  <2> QED  BY <1>typ, <1>1, <1>3, <1>4, <2>1 DEF NodeTypeOK
<1>6. WindowInv'
  BY <1>typ, <1>1, <1>3 DEF NodeIInv, WindowInv
<1>7. RecordsInPlace' /\ NewestHeld' /\ SectorsRetired' /\ TailErased'
  BY <1>1 DEF NodeIInv, RecordsInPlace, NewestHeld, SectorsRetired, TailErased
<1> QED  BY <1>1, <1>5, <1>6, <1>7 DEF NodeIInv

\* A power cut between two operations loses only what is in RAM.
LEMMA PowerCutInv ==
  ASSUME NodeIInv, PowerCut
  PROVE  NodeIInv'
<1> USE DEF PowerCut
<1>1. ram' \in [next : 1..MaxU32, oldest : 1..MaxU32, acked : Nat, boot : Nat, log : Nat]
  BY LimitsAssumption DEF OffWindow
<1>2. NodeTypeOK'
  BY <1>1 DEF NodeIInv, NodeTypeOK
<1>3. RecordsInPlace' /\ NewestHeld' /\ SectorsRetired' /\ TailErased'
  BY DEF NodeIInv, RecordsInPlace, NewestHeld, SectorsRetired, TailErased
<1> QED  BY <1>2, <1>3 DEF NodeIInv, WindowInv

\* A boot that is cut off between two NVS writes leaves flash alone.
LEMMA PowerCutInBootInv ==
  ASSUME NodeIInv, PowerCutInBoot
  PROVE  NodeIInv'
<1> USE DEF PowerCutInBoot
<1>1. nvs' \in [boot : Nat, log : Nat, acked : Nat] /\ drawn' \in Nat
  <2>1. nvs \in [boot : Nat, log : Nat, acked : Nat] /\ drawn \in Nat
    BY DEF NodeIInv, NodeTypeOK
  <2>2. CASE nvs' = [nvs EXCEPT !.boot = nvs.boot + 1] /\ drawn' = drawn
    BY <2>1, <2>2
  <2>3. CASE /\ nvs' = [nvs EXCEPT !.boot = nvs.boot + 1, !.log = FreshLogId]
             /\ drawn' = drawn + 1
    <3>1. FreshLogId \in Nat /\ nvs.boot + 1 \in Nat  BY <2>1 DEF FreshLogId
    <3>2. nvs' = [boot |-> nvs.boot + 1, log |-> FreshLogId, acked |-> nvs.acked]
      BY <2>1, <2>3
    <3> QED  BY <2>1, <2>3, <3>1, <3>2
  <2> QED  BY <2>2, <2>3
<1>2. NodeTypeOK'
  BY <1>1 DEF NodeIInv, NodeTypeOK
<1>3. RecordsInPlace' /\ NewestHeld' /\ SectorsRetired' /\ TailErased'
  BY DEF NodeIInv, RecordsInPlace, NewestHeld, SectorsRetired, TailErased
<1> QED  BY <1>2, <1>3 DEF NodeIInv, WindowInv

\* A wiped partition is an empty log.
LEMMA WipeInv ==
  ASSUME NodeIInv, Wipe
  PROVE  NodeIInv'
<1> USE DEF Wipe
<1>1. Erased \in Contents  BY DEF Erased, Contents
<1>2. NodeTypeOK'
  BY <1>1 DEF NodeIInv, NodeTypeOK
<1>3. \A i \in Slots : ~Decodes(flash'[i]) /\ IsErased(flash'[i])
  BY DEF Decodes, IsErased, Erased
<1>4. RecordsInPlace' /\ SectorsRetired' /\ NewestHeld'
  BY <1>3 DEF RecordsInPlace, SectorsRetired, NewestHeld
<1>5. TailErased'
  <2>1. \A k \in Int : SlotForSeq(k) \in Slots  BY SlotType
  <2>2. RecordsPerSector \in Nat  BY GeometryAssumption
  <2> QED  BY <1>3, <2>1, <2>2 DEF TailErased
<1> QED  BY <1>2, <1>4, <1>5, LimitsAssumption DEF NodeIInv, WindowInv

\* Every step in which no flash call fails preserves the invariant.
LEMMA NextInv ==
  ASSUME NodeIInv, [NodeNext]_nodeVars, ~failed'
  PROVE  NodeIInv'
<1>1. CASE TakeSample  BY <1>1, TakeSampleInv
<1>2. ASSUME NEW a \in 0..MaxU32, HandleAck(a) PROVE NodeIInv'
  BY <1>2, HandleAckInv
<1>3. CASE PowerCut  BY <1>3, PowerCutInv
<1>4. CASE PowerCutInAppend  BY <1>4, PowerCutInAppendInv
<1>5. CASE Boot  BY <1>5, BootInv
<1>6. CASE PowerCutInBoot  BY <1>6, PowerCutInBootInv
<1>7. CASE Wipe  BY <1>7, WipeInv
<1>8. CASE UNCHANGED nodeVars
  BY <1>8 DEF nodeVars, NodeIInv, NodeTypeOK, RecordsInPlace, NewestHeld, SectorsRetired,
     TailErased, WindowInv
<1>9. ~AppendFails  BY DEF AppendFails
<1> QED
  BY <1>1, <1>2, <1>3, <1>4, <1>5, <1>6, <1>7, <1>8, <1>9 DEF NodeNext

\* A flash failure is never forgotten, and none happens without faults.
LEMMA FailureIsRemembered ==
  ASSUME [NodeNext]_nodeVars
  PROVE  /\ failed => failed'
         /\ FlashFaults = {} /\ ~failed => ~failed'
<1>1. CASE AppendFails
  BY <1>1 DEF AppendFails
<1>2. CASE ~AppendFails
  BY <1>2 DEF NodeNext, nodeVars, TakeSample, HandleAck, PowerCut, PowerCutInAppend, Boot,
     PowerCutInBoot, Wipe
<1> QED  BY <1>1, <1>2

-----------------------------------------------------------------------------
(* Theorems *)

\* The inductive invariant of the reading log: until a flash call fails, every
\* reachable state has the shape recovery relies on.
THEOREM NodeInvariant == NodeSpec => []SoundFlashIInv
<1>1. NodeInit => SoundFlashIInv  BY InitInv DEF SoundFlashIInv
<1>2. SoundFlashIInv /\ [NodeNext]_nodeVars => SoundFlashIInv'
  <2> SUFFICES ASSUME SoundFlashIInv, [NodeNext]_nodeVars, ~failed'
               PROVE  NodeIInv'
    BY DEF SoundFlashIInv
  <2> QED  BY NextInv, FailureIsRemembered DEF SoundFlashIInv
<1> QED  BY <1>1, <1>2, PTL DEF NodeSpec

\* cm_tlog_append never returns a seq twice within one log, across any number
\* of power cuts and recoveries, until a flash call fails.
THEOREM SeqsAreNeverReissued == NodeSpec => []NeverReissuedBySoundFlash
<1>1. SoundFlashIInv => NeverReissuedBySoundFlash
  BY DEF SoundFlashIInv, NodeIInv, WindowInv, NeverReissued, NeverReissuedBySoundFlash
<1> QED  BY <1>1, NodeInvariant, PTL

\* The last reading appended before a power cut is readable after the next boot:
\* recovery finds it, and burning half-written slots leaves it in the window.
THEOREM LastReadingSurvives == NodeSpec => []NewestSurvives
<1>1. SoundFlashIInv => NewestSurvives
  <2> SUFFICES ASSUME NodeIInv, up, issued > 0
               PROVE  Readable(flash, ram, issued)
    BY DEF SoundFlashIInv, NewestSurvives
  <2>1. SlotForSeq(issued) \in Slots
    BY SlotType DEF NodeIInv, NodeTypeOK
  <2>2. LET c == flash[SlotForSeq(issued)] IN Decodes(c) /\ c.seq = issued
    BY DEF NodeIInv, NewestHeld
  <2> QED  BY <2>1, <2>2 DEF NodeIInv, WindowInv, Readable
<1> QED  BY <1>1, NodeInvariant, PTL

\* Where flash calls never fail, the invariant holds outright.
LEMMA SoundNode ==
  ASSUME FlashFaults = {}
  PROVE  NodeSpec => []NodeIInv
<1>1. NodeInit => ~failed  BY DEF NodeInit
<1>2. ~failed /\ [NodeNext]_nodeVars => ~failed'  BY FailureIsRemembered
<1>3. SoundFlashIInv /\ ~failed => NodeIInv  BY DEF SoundFlashIInv
<1> QED  BY <1>1, <1>2, <1>3, NodeInvariant, PTL DEF NodeSpec

\* The state of the node has its type.
THEOREM NodeTypeCorrect ==
  ASSUME FlashFaults = {}
  PROVE  NodeSpec => []NodeTypeOK
<1>1. NodeIInv => NodeTypeOK  BY DEF NodeIInv
<1> QED  BY <1>1, SoundNode, PTL

\* The window in RAM always fits the ring.
THEOREM WindowFitsRing ==
  ASSUME FlashFaults = {}
  PROVE  NodeSpec => []RingWindow
<1>1. NodeIInv => RingWindow
  <2> SUFFICES ASSUME NodeIInv, up
               PROVE  ram.next - ram.oldest <= Capacity
    BY DEF NodeIInv, WindowInv, RingWindow
  <2>1. /\ ram.next \in Nat /\ 1 <= ram.next /\ ram.oldest \in Nat /\ 1 <= ram.oldest
        /\ Capacity \in Nat /\ RecordsPerSector \in Nat \ {0}
    BY GeometryAssumption, LimitsAssumption DEF NodeIInv, NodeTypeOK
  <2>2. CASE ram.next = 1
    BY <2>1, <2>2
  <2>3. CASE ram.next > 1
    <3>1. ram.next - 1 \in Nat \ {0}  BY <2>1, <2>3
    <3>2. PICK q \in 1..(ram.next - 1) :
            EraseBeforeWrite(q) /\ (ram.next - 1) - q < RecordsPerSector
      BY <3>1, SectorNear
    <3>3. ram.oldest >= q + RecordsPerSector - Capacity
      BY <3>2 DEF NodeIInv, WindowInv
    <3> QED  BY <2>1, <3>2, <3>3
  <2> QED  BY <2>1, <2>2, <2>3
<1> QED  BY <1>1, SoundNode, PTL

\* No readable record is ever outside the window: recovery forgets nothing.
THEOREM NoRecordIsOrphaned ==
  ASSUME FlashFaults = {}
  PROVE  NodeSpec => []NothingOrphaned
<1>1. NodeIInv => NothingOrphaned
  <2> SUFFICES ASSUME NodeIInv, up, NEW i \in Slots, Decodes(flash[i])
               PROVE  /\ SlotForSeq(flash[i].seq) = i
                      /\ ram.oldest <= flash[i].seq /\ flash[i].seq < ram.next
    BY DEF NothingOrphaned
  <2>1. ram.next \in Nat /\ issued \in Nat
    BY DEF NodeIInv, NodeTypeOK
  <2> QED  BY <2>1 DEF NodeIInv, WindowInv, RecordsInPlace
<1> QED  BY <1>1, SoundNode, PTL

\* The two facts about the window together, as the run states them: as long as
\* no flash call fails, what the node would send is what the ring holds.
THEOREM WindowMatchesRing ==
  ASSUME FlashFaults = {}
  PROVE  NodeSpec => []WindowIsTheRing
<1>1. NodeSpec => []RingWindow       BY WindowFitsRing
<1>2. NodeSpec => []NothingOrphaned  BY NoRecordIsOrphaned
<1>3. RingWindow /\ NothingOrphaned => WindowIsTheRing  BY DEF WindowIsTheRing
<1> QED  BY <1>1, <1>2, <1>3, PTL

\* Making a slot writable leaves the other sectors alone.
LEMMA EraseIsLocal ==
  ASSUME NEW f \in [Slots -> Contents], NEW n
  PROVE  /\ Prepared(f, n) \in [Slots -> Contents]
         /\ \A i \in Slots :
              Prepared(f, n)[i] = f[i] \/ (EraseBeforeWrite(n) /\ i \in SectorAt(n))
<1>1. Erased \in Contents  BY DEF Erased, Contents
<1>2. CASE EraseBeforeWrite(n)
  <2>1. Prepared(f, n) = [i \in Slots |-> IF i \in SectorAt(n) THEN Erased ELSE f[i]]
    BY <1>2 DEF Prepared, EraseSector
  <2> QED  BY <1>1, <1>2, <2>1
<1>3. CASE ~EraseBeforeWrite(n)
  BY <1>3 DEF Prepared
<1> QED  BY <1>2, <1>3

\* The slots an append may disturb hold only records it has lapped.
LEMMA DisturbsOnlyLapped ==
  ASSUME NodeIInv, up, NEW i \in Slots, Decodes(flash[i]),
         \/ EraseBeforeWrite(ram.next) /\ i \in SectorAt(ram.next)
         \/ i = SlotForSeq(ram.next)
  PROVE  flash[i].seq <= ram.next - 1 - (Capacity - RecordsPerSector)
<1>1. /\ Capacity \in Nat /\ RecordsPerSector \in Nat \ {0}
      /\ ram.next \in Nat /\ issued \in Nat /\ issued < ram.next
      /\ flash[i].seq \in 1..issued /\ SlotForSeq(flash[i].seq) = i
  BY GeometryAssumption DEF NodeIInv, NodeTypeOK, WindowInv, RecordsInPlace
<1>2. EraseBeforeWrite(ram.next)
  BY DEF NodeIInv, WindowInv, IsBurnedTo, BurnStops, IsErased, Decodes
<1>3. i \in SectorAt(ram.next)
  <2>1. SlotForSeq(ram.next + 0) \in SectorAt(ram.next)
    BY <1>1, <1>2, SectorSlots
  <2>2. ram.next + 0 = ram.next  BY <1>1
  <2> QED  BY <2>1, <2>2
<1>4. ram.next - flash[i].seq <= Capacity
  BY <1>2, OneLapBehind
<1>5. flash[i].seq < ram.next - Capacity + RecordsPerSector
  BY <1>1, <1>2, <1>3, <1>4, SectorVictims
<1> QED  BY <1>1, <1>5

\* The newest Capacity - RecordsPerSector seqs keep their records.
THEOREM OnlyLappedLeave ==
  ASSUME FlashFaults = {}
  PROVE  NodeSpec => OnlyLappedRecordsLeave
<1> DEFINE A == up => \A i \in Slots :
                  Decodes(flash[i]) /\ flash'[i] # flash[i]
                    => flash[i].seq <= ram.next - 1 - (Capacity - RecordsPerSector)
<1>1. NodeIInv /\ [NodeNext]_nodeVars => [A]_nodeVars
  <2> SUFFICES ASSUME NodeIInv, NodeNext, up, NEW i \in Slots, Decodes(flash[i]),
                      flash'[i] # flash[i]
               PROVE  flash[i].seq <= ram.next - 1 - (Capacity - RecordsPerSector)
    OBVIOUS
  <2>1. flash \in [Slots -> Contents]  BY DEF NodeIInv, NodeTypeOK
  <2>2. CASE TakeSample
    <3> DEFINE f == Prepared(flash, ram.next)
    <3>1. flash' = Program(f, ram.next, Record(ram.next, ram.boot))
      BY <2>2 DEF TakeSample
    <3>2. /\ f \in [Slots -> Contents]
          /\ f[i] = flash[i] \/ (EraseBeforeWrite(ram.next) /\ i \in SectorAt(ram.next))
      BY <2>1, EraseIsLocal
    <3>3. flash'[i] = f[i] \/ i = SlotForSeq(ram.next)
      BY <3>1, <3>2 DEF Program
    <3> QED  BY <3>2, <3>3, DisturbsOnlyLapped
  <2>3. CASE PowerCutInAppend
    <3> DEFINE f == Prepared(flash, ram.next)
    <3>1. CASE EraseBeforeWrite(ram.next) /\
               \E part \in [SectorAt(ram.next) -> {"old", "erased", "torn"}] :
                 flash' = [j \in Slots |->
                             IF j \notin SectorAt(ram.next) \/ part[j] = "old" THEN flash[j]
                             ELSE IF part[j] = "erased" THEN Erased ELSE Torn]
      BY <3>1, DisturbsOnlyLapped
    <3>2. CASE flash' \in {f, Program(f, ram.next, Torn)}
      <4>1. /\ f \in [Slots -> Contents]
            /\ f[i] = flash[i] \/ (EraseBeforeWrite(ram.next) /\ i \in SectorAt(ram.next))
        BY <2>1, EraseIsLocal
      <4>2. flash'[i] = f[i] \/ i = SlotForSeq(ram.next)
        BY <3>2, <4>1 DEF Program
      <4> QED  BY <4>1, <4>2, DisturbsOnlyLapped
    <3> QED  BY <2>3, <3>1, <3>2 DEF PowerCutInAppend
  <2> QED
    BY <2>2, <2>3 DEF NodeNext, AppendFails, HandleAck, PowerCut, Boot, PowerCutInBoot, Wipe
<1> QED  BY <1>1, SoundNode, PTL DEF NodeSpec, OnlyLappedRecordsLeave


-----------------------------------------------------------------------------
(* The store of the two modules is one store *)

LEMMA SameStore ==
  /\ HostP!StoreAssumption
  /\ Host!StoreInit <=> HostP!StoreInit
  /\ Host!Open <=> HostP!Open
  /\ Host!Crash <=> HostP!Crash
  /\ Host!OnFile = HostP!OnFile
<1>1. HostP!StoreAssumption
  BY LimitsAssumption, PathAssumption DEF HostP!StoreAssumption
<1>2. Host!StoreInit <=> HostP!StoreInit
  BY DEF Host!StoreInit, HostP!StoreInit, Host!NoTail, HostP!NoTail
<1>3. Host!OnFile = HostP!OnFile
  BY DEF Host!OnFile, HostP!OnFile, Host!IsRecord, HostP!IsRecord
<1>4. Host!Crash <=> HostP!Crash
  BY DEF Host!Crash, HostP!Crash
<1>5. ASSUME NEW j PROVE Host!Rebuild(j) = HostP!Rebuild(j)
  BY DEF Host!Rebuild, HostP!Rebuild, Host!SeqsOf, HostP!SeqsOf, Host!Of, HostP!Of, Host!Advance,
     HostP!Advance, Host!StartOf, HostP!StartOf, Host!LossMax, HostP!LossMax, Host!Max, HostP!Max, Host!Min, HostP!Min,
     Host!Cardinality, HostP!Cardinality
<1>6. Host!Open <=> HostP!Open
  BY <1>3, <1>5 DEF Host!Open, HostP!Open, Host!NoTail, HostP!NoTail
<1> QED  BY <1>1, <1>2, <1>3, <1>4, <1>6

LEMMA SamePlan ==
  ASSUME NEW b
  PROVE  /\ Host!PlanState(b) = HostP!PlanState(b)
         /\ Host!PlanRecords(b) = HostP!PlanRecords(b)
<1>1. Host!FirstContact(b) <=> HostP!FirstContact(b)
  BY DEF Host!FirstContact, HostP!FirstContact
<1>2. Host!Joined(b) = HostP!Joined(b) /\ Host!SeenBefore(b) = HostP!SeenBefore(b)
  BY <1>1 DEF Host!Joined, HostP!Joined, Host!SeenBefore, HostP!SeenBefore, Host!Max, HostP!Max
<1>3. Host!Added(b) = HostP!Added(b)
  BY <1>2 DEF Host!Added, HostP!Added
<1>4. ASSUME NEW S, NEW t PROVE Host!Advance(S, t) = HostP!Advance(S, t)
  BY DEF Host!Advance, HostP!Advance, Host!Cardinality, HostP!Cardinality
<1>5. Host!PlanState(b) = HostP!PlanState(b)
  BY <1>2, <1>3, <1>4 DEF Host!PlanState, HostP!PlanState, Host!Max, HostP!Max
<1>6. Host!LossRecords(b) = HostP!LossRecords(b)
  BY <1>1, <1>2 DEF Host!LossRecords, HostP!LossRecords, Host!Loss, HostP!Loss, Host!Unknown,
     HostP!Unknown
<1>7. ASSUME NEW S PROVE Host!InOrder(S) = HostP!InOrder(S)
  BY DEF Host!InOrder, HostP!InOrder, Host!Cardinality, HostP!Cardinality
<1>8. Host!PlanRecords(b) = HostP!PlanRecords(b)
  BY <1>1, <1>3, <1>6, <1>7 DEF Host!PlanRecords, HostP!PlanRecords, Host!Start, HostP!Start,
     Host!Sample, HostP!Sample, Host!Cardinality, HostP!Cardinality
<1> QED  BY <1>5, <1>8

LEMMA SameIngest ==
  ASSUME NEW b
  PROVE  /\ Host!Ingest(b) <=> HostP!Ingest(b)
         /\ Host!CrashInIngest(b) <=> HostP!CrashInIngest(b)
<1>1. /\ Host!PlanState(b) = HostP!PlanState(b)
      /\ Host!PlanRecords(b) = HostP!PlanRecords(b)
  BY SamePlan
<1>2. ASSUME NEW t, NEW d PROVE Host!Behind(t, d) = HostP!Behind(t, d)
  BY DEF Host!Behind, HostP!Behind, Host!NoTail, HostP!NoTail
<1>0. /\ Host!NoTail = HostP!NoTail
      /\ \A S : Host!Max(S) = HostP!Max(S)
  BY DEF Host!NoTail, HostP!NoTail, Host!Max, HostP!Max
<1>3. Host!Ingest(b) <=> HostP!Ingest(b)
  BY <1>0, <1>1, <1>2 DEF Host!Ingest, HostP!Ingest
<1>4. Host!CutShort(b) <=> HostP!CutShort(b)
  BY <1>1, <1>2 DEF Host!CutShort, HostP!CutShort, Host!NoTail, HostP!NoTail, Host!Fragment,
     HostP!Fragment
<1>5. Host!CrashInIngest(b) <=> HostP!CrashInIngest(b)
  BY <1>4 DEF Host!CrashInIngest, HostP!CrashInIngest
<1> QED  BY <1>3, <1>5

LEMMA SameAccount ==
  ASSUME NEW j, NEW l, NEW s
  PROVE  Host!Accounted(j, l, s) <=> HostP!Accounted(j, l, s)
BY DEF Host!Accounted, HostP!Accounted, Host!SeqsOf, HostP!SeqsOf, Host!Of, HostP!Of,
   Host!StartOf, HostP!StartOf, Host!LossMax, HostP!LossMax, Host!Max, HostP!Max, Host!Min, HostP!Min

-----------------------------------------------------------------------------
(* The invariant of the node, its log and the readings taken *)

\* A reading, by the names it is known under.
Taken(l, s, b) == [log |-> l, seq |-> s, boot |-> b]

\* The node writes one log at a time: its id is in NVS before its first record,
\* its records are readings of it, and no reading of it is past the last append.
LogInv ==
  /\ drawn \in 0..MaxLogs /\ nvs.log \in 0..drawn /\ nvs.boot \in 0..MaxBoots
  /\ up => ram.log = nvs.log /\ ram.log \in 1..drawn /\ ram.boot \in 1..MaxBoots
  /\ issued > 0 => nvs.log \in 1..drawn
  /\ taken \subseteq [log : 1..drawn, seq : 1..MaxU32, boot : 1..MaxBoots]
  /\ up \/ issued > 0 => \A r \in taken : r.log = nvs.log => r.seq <= issued
  /\ \A i \in Slots : Decodes(flash[i]) => Taken(nvs.log, flash[i].seq, flash[i].boot) \in taken

\* From the last append to s nothing is erased and no sector opens, so that the
\* burn loop of any later boot passes s.
SpentTo(s) == \A k \in (issued + 1)..s : ~BurnStops(flash, k)

\* The node will never give out seq s of log l again.
Spent(l, s) == nvs.log = l => (up => s < ram.next) /\ (issued > 0 => SpentTo(s))

\* It has no record under that seq.
NoRecord(l, s) == nvs.log = l => \A i \in Slots : Decodes(flash[i]) => flash[i].seq # s

\* The steps of the node.
NodeMoves ==
  \/ TakeSample
  \/ \E a \in 0..MaxU32 : HandleAck(a)
  \/ PowerCut \/ PowerCutInAppend \/ PowerCutInBoot \/ Wipe
  \/ Boot

\* What a boot does, whether it goes on with a log or starts one.
LEMMA BootIs ==
  ASSUME NodeIInv, "log_id" \notin NvsFaults, Boot
  PROVE  /\ ~up /\ up' /\ flash' = flash /\ issued' = issued
         /\ nvs.boot < MaxBoots /\ nvs'.boot \in {nvs.boot, nvs.boot + 1}
         /\ ram'.boot = nvs.boot + 1 /\ ram'.log = nvs'.log
         /\ nvs'.acked \in {0, nvs.acked}
         /\ \E hi \in Nat : ram'.acked = Least(0, hi) \/ ram'.acked = Least(nvs.acked, hi)
         /\ \/ Found(flash) /\ nvs'.log = nvs.log /\ drawn' = drawn
            \/ ~Found(flash) /\ nvs'.log = drawn + 1 /\ drawn' = drawn + 1 /\ drawn < MaxLogs
<1>0. /\ nvs \in [boot : Nat, log : Nat, acked : Nat] /\ flash \in [Slots -> Contents]
      /\ drawn \in Nat
  BY DEF NodeIInv, NodeTypeOK
<1> DEFINE fresh == ~Found(flash)
           A == IF fresh THEN 0 ELSE nvs.acked
           L == IF fresh THEN FreshLogId ELSE nvs.log
<1>1. /\ ~up /\ up' /\ flash' = flash /\ issued' = issued
      /\ nvs.boot < MaxBoots
      /\ fresh => drawn < MaxLogs
      /\ drawn' = IF fresh THEN drawn + 1 ELSE drawn
  BY DEF Boot
<1>2. PICK lo, hi \in Believed(flash) \union {0} :
        LET w == RecoverFinish(lo, hi, A, nvs.boot + 1, L) IN
          /\ \E m \in w.next..MaxU32 :
               IsBurnedTo(flash, w.next, m) /\ ram' = [w EXCEPT !.next = m]
          /\ \E b \in NvsPut("boot", nvs.boot, nvs.boot + 1),
                l \in NvsPut("log_id", nvs.log, w.log),
                a \in NvsPut("acked", nvs.acked, 0) :
               nvs' = IF fresh THEN [boot |-> b, log |-> l, acked |-> a]
                      ELSE [nvs EXCEPT !.boot = b]
  BY DEF Boot
<1>3. hi \in Nat
  <2>1. Believed(flash) \subseteq Nat
    BY <1>0 DEF Believed, Contents
  <2> QED  BY <2>1
<1> HIDE DEF A, L
<1>4. RecoverFinish(lo, hi, A, nvs.boot + 1, L)
        = [next |-> hi + 1, oldest |-> IF hi = 0 THEN 1 ELSE lo, acked |-> Least(A, hi),
           boot |-> nvs.boot + 1, log |-> L]
  BY DEF RecoverFinish
<1>5. ram'.boot = nvs.boot + 1 /\ ram'.log = L /\ ram'.acked = Least(A, hi)
  BY <1>2, <1>4
<1>6. PICK b \in NvsPut("boot", nvs.boot, nvs.boot + 1), l \in NvsPut("log_id", nvs.log, L),
           a \in NvsPut("acked", nvs.acked, 0) :
        nvs' = IF fresh THEN [boot |-> b, log |-> l, acked |-> a] ELSE [nvs EXCEPT !.boot = b]
  BY <1>2, <1>4
<1>7. b \in {nvs.boot, nvs.boot + 1} /\ l = L /\ a \in {0, nvs.acked}
  BY <1>6 DEF NvsPut
<1>8. CASE fresh
  BY <1>0, <1>1, <1>3, <1>5, <1>6, <1>7, <1>8 DEF A, L, FreshLogId
<1>9. CASE ~fresh
  BY <1>0, <1>1, <1>3, <1>5, <1>6, <1>7, <1>9 DEF A, L
<1> QED  BY <1>8, <1>9

\* With nothing readable in flash, nothing has been appended to the log.
LEMMA NothingFound ==
  ASSUME NodeIInv, ~Found(flash)
  PROVE  issued = 0
<1>1. issued \in Nat /\ SlotForSeq(issued) \in Slots
  BY SlotType DEF NodeIInv, NodeTypeOK
<1> QED  BY <1>1 DEF NodeIInv, NewestHeld, Found

\* What an append leaves in flash, completed or cut: what was there, something
\* that does not decode, or the new record in its slot.
LEMMA AppendLeaves ==
  ASSUME NodeIInv, up, TakeSample \/ PowerCutInAppend, NEW i \in Slots, Decodes(flash'[i])
  PROVE  \/ flash'[i] = flash[i]
         \/ TakeSample /\ flash'[i] = Record(ram.next, ram.boot)
<1>1. flash \in [Slots -> Contents] /\ ~Decodes(Erased) /\ ~Decodes(Torn)
  BY DEF NodeIInv, NodeTypeOK, Decodes, Erased, Torn
<1> DEFINE f == Prepared(flash, ram.next)
<1>2. f \in [Slots -> Contents] /\ (f[i] = flash[i] \/ f[i] = Erased)
  <2>1. f \in [Slots -> Contents]
    BY <1>1, EraseIsLocal
  <2> QED  BY <1>1, <2>1 DEF Prepared, EraseSector
<1> HIDE DEF f
<1>3. CASE TakeSample
  <2>1. flash' = Program(f, ram.next, Record(ram.next, ram.boot))
    BY <1>3 DEF TakeSample, f
  <2> QED  BY <1>1, <1>2, <1>3, <2>1 DEF Program
<1>4. CASE PowerCutInAppend
  <2>1. CASE \E part \in [SectorAt(ram.next) -> {"old", "erased", "torn"}] :
               flash' = [j \in Slots |->
                           IF j \notin SectorAt(ram.next) \/ part[j] = "old" THEN flash[j]
                           ELSE IF part[j] = "erased" THEN Erased ELSE Torn]
    BY <1>1, <2>1
  <2>2. CASE flash' \in {f, Program(f, ram.next, Torn)}
    BY <1>1, <1>2, <2>2 DEF Program
  <2> QED  BY <1>4, <2>1, <2>2 DEF PowerCutInAppend, f
<1> QED  BY <1>3, <1>4

\* Each step of the node keeps its log's invariant.
LEMMA SampleKeepsLog ==
  ASSUME NodeIInv, LogInv, NodeSamples
  PROVE  LogInv'
<1>1. /\ up /\ up' = up /\ nvs' = nvs /\ drawn' = drawn /\ issued' = ram.next
      /\ ram' = Reserve(ram) /\ ram.next < MaxU32
      /\ taken' = taken \union {Taken(ram.log, ram.next, ram.boot)}
  BY DEF NodeSamples, TakeSample, Taken
<1>2. /\ ram \in [next : 1..MaxU32, oldest : 1..MaxU32, acked : Nat, boot : Nat, log : Nat]
      /\ issued \in Nat /\ issued < ram.next /\ MaxU32 \in Nat
  BY <1>1, LimitsAssumption DEF NodeIInv, NodeTypeOK, WindowInv
<1>3. ram'.log = ram.log /\ ram'.boot = ram.boot
  BY <1>1, <1>2 DEF Reserve
<1>4. /\ ram.log = nvs.log /\ ram.log \in 1..drawn /\ ram.boot \in 1..MaxBoots
      /\ taken \subseteq [log : 1..drawn, seq : 1..MaxU32, boot : 1..MaxBoots]
      /\ \A r \in taken : r.log = nvs.log => r.seq <= issued
  BY <1>1 DEF LogInv
<1>5. Taken(ram.log, ram.next, ram.boot) \in [log : 1..drawn, seq : 1..MaxU32, boot : 1..MaxBoots]
  BY <1>2, <1>4 DEF Taken
<1>6. ASSUME NEW r \in taken', r.log = nvs.log PROVE r.seq <= ram.next
  <2>1. CASE r \in taken
    BY <2>1, <1>2, <1>4, <1>6
  <2>2. CASE r = Taken(ram.log, ram.next, ram.boot)
    BY <2>2, <1>2 DEF Taken
  <2> QED  BY <1>1, <2>1, <2>2
<1>7. ASSUME NEW i \in Slots, Decodes(flash'[i])
      PROVE  Taken(nvs.log, flash'[i].seq, flash'[i].boot) \in taken'
  <2>0. TakeSample
    BY DEF NodeSamples
  <2>1. flash'[i] = flash[i] \/ flash'[i] = Record(ram.next, ram.boot)
    BY <1>1, <1>7, <2>0, AppendLeaves
  <2>2. CASE flash'[i] = flash[i]
    BY <2>2, <1>1, <1>7 DEF LogInv
  <2>3. CASE flash'[i] = Record(ram.next, ram.boot)
    BY <2>3, <1>1, <1>4 DEF Record
  <2> QED  BY <2>1, <2>2, <2>3
<1>8. drawn \in 0..MaxLogs /\ nvs.log \in 0..drawn /\ nvs.boot \in 0..MaxBoots
  BY DEF LogInv
<1> QED  BY <1>1, <1>3, <1>4, <1>5, <1>6, <1>7, <1>8 DEF LogInv

LEMMA BootKeepsLog ==
  ASSUME NodeIInv, LogInv, "log_id" \notin NvsFaults, Boot, taken' = taken
  PROVE  LogInv'
<1>0. /\ drawn \in 0..MaxLogs /\ nvs.log \in 0..drawn /\ nvs.boot \in 0..MaxBoots
      /\ issued > 0 => nvs.log \in 1..drawn
      /\ taken \subseteq [log : 1..drawn, seq : 1..MaxU32, boot : 1..MaxBoots]
      /\ issued > 0 => \A r \in taken : r.log = nvs.log => r.seq <= issued
      /\ \A i \in Slots : Decodes(flash[i]) => Taken(nvs.log, flash[i].seq, flash[i].boot) \in taken
      /\ MaxLogs \in Nat /\ MaxBoots \in Nat
  BY LimitsAssumption DEF LogInv
<1>1. /\ up' /\ flash' = flash /\ issued' = issued
      /\ nvs.boot < MaxBoots /\ nvs'.boot \in {nvs.boot, nvs.boot + 1}
      /\ ram'.boot = nvs.boot + 1 /\ ram'.log = nvs'.log
      /\ \/ Found(flash) /\ nvs'.log = nvs.log /\ drawn' = drawn
         \/ ~Found(flash) /\ nvs'.log = drawn + 1 /\ drawn' = drawn + 1 /\ drawn < MaxLogs
  BY BootIs
<1>2. nvs'.boot \in 0..MaxBoots /\ ram'.boot \in 1..MaxBoots
  BY <1>0, <1>1
<1>3. CASE Found(flash) /\ nvs'.log = nvs.log /\ drawn' = drawn
  <2>1. issued > 0
    BY <1>3 DEF Found, NodeIInv, RecordsInPlace, NodeTypeOK
  <2> QED  BY <1>0, <1>1, <1>2, <1>3, <2>1 DEF LogInv
<1>4. CASE ~Found(flash) /\ nvs'.log = drawn + 1 /\ drawn' = drawn + 1 /\ drawn < MaxLogs
  <2>1. issued = 0
    BY <1>4, NothingFound
  <2>2. \A r \in taken : r \in [log : 1..(drawn + 1), seq : 1..MaxU32, boot : 1..MaxBoots] /\ r.log # drawn + 1
    BY <1>0
  <2>3. \A i \in Slots : ~Decodes(flash[i])
    BY <1>4 DEF Found
  <2>4. drawn + 1 \in 0..MaxLogs /\ drawn + 1 \in 1..(drawn + 1) /\ drawn + 1 \in 0..(drawn + 1)
    BY <1>0, <1>4
  <2> QED  BY <1>1, <1>2, <1>4, <2>1, <2>2, <2>3, <2>4 DEF LogInv
<1> QED  BY <1>1, <1>3, <1>4

LEMMA PowerKeepsLog ==
  ASSUME NodeIInv, LogInv, PowerCut \/ PowerCutInAppend \/ PowerCutInBoot \/ Wipe, taken' = taken
  PROVE  LogInv'
<1>0. /\ drawn \in 0..MaxLogs /\ nvs.log \in 0..drawn /\ nvs.boot \in 0..MaxBoots
      /\ issued > 0 => nvs.log \in 1..drawn
      /\ taken \subseteq [log : 1..drawn, seq : 1..MaxU32, boot : 1..MaxBoots]
      /\ issued > 0 => \A r \in taken : r.log = nvs.log => r.seq <= issued
      /\ \A i \in Slots : Decodes(flash[i]) => Taken(nvs.log, flash[i].seq, flash[i].boot) \in taken
      /\ MaxLogs \in Nat /\ MaxBoots \in Nat
      /\ nvs \in [boot : Nat, log : Nat, acked : Nat]
  BY LimitsAssumption DEF LogInv, NodeIInv, NodeTypeOK
<1>1. CASE PowerCut
  BY <1>0, <1>1 DEF PowerCut, LogInv
<1>2. CASE PowerCutInAppend
  <2>1. /\ up' = FALSE /\ nvs' = nvs /\ drawn' = drawn /\ issued' = issued /\ up /\ ~TakeSample
    BY <1>2 DEF PowerCutInAppend, TakeSample
  <2>2. \A i \in Slots : Decodes(flash'[i]) => flash'[i] = flash[i]
    BY <1>2, <2>1, AppendLeaves
  <2> QED  BY <1>0, <2>1, <2>2 DEF LogInv
<1>3. CASE PowerCutInBoot
  <2>1. /\ ~up /\ flash' = flash /\ up' = up /\ issued' = issued /\ nvs.boot + 1 < MaxBoots
        /\ \/ nvs' = [nvs EXCEPT !.boot = nvs.boot + 1] /\ drawn' = drawn
           \/ /\ ~Found(flash) /\ drawn < MaxLogs /\ drawn' = drawn + 1
              /\ nvs' = [nvs EXCEPT !.boot = nvs.boot + 1, !.log = FreshLogId]
    BY <1>3 DEF PowerCutInBoot
  <2>2. CASE nvs' = [nvs EXCEPT !.boot = nvs.boot + 1] /\ drawn' = drawn
    <3>1. nvs'.log = nvs.log /\ nvs'.boot \in 0..MaxBoots
      BY <1>0, <2>1, <2>2
    <3> QED  BY <1>0, <2>1, <2>2, <3>1 DEF LogInv
  <2>3. CASE /\ ~Found(flash) /\ drawn < MaxLogs /\ drawn' = drawn + 1
             /\ nvs' = [nvs EXCEPT !.boot = nvs.boot + 1, !.log = FreshLogId]
    <3>1. issued = 0
      BY <2>3, NothingFound
    <3>2. nvs' = [boot |-> nvs.boot + 1, log |-> drawn + 1, acked |-> nvs.acked]
      BY <1>0, <2>3 DEF FreshLogId
    <3>3. nvs'.log = drawn + 1 /\ nvs'.boot \in 0..MaxBoots
      BY <1>0, <2>1, <3>2
    <3>4. \A r \in taken : r \in [log : 1..(drawn + 1), seq : 1..MaxU32, boot : 1..MaxBoots]
      BY <1>0
    <3>5. \A i \in Slots : ~Decodes(flash[i])
      BY <2>3 DEF Found
    <3>6. drawn + 1 \in 0..MaxLogs /\ drawn + 1 \in 0..(drawn + 1)
      BY <1>0, <2>3
    <3> QED  BY <2>1, <2>3, <3>1, <3>3, <3>4, <3>5, <3>6 DEF LogInv
  <2> QED  BY <2>1, <2>2, <2>3
<1>4. CASE Wipe
  <2>1. \A i \in Slots : ~Decodes(flash'[i])
    BY <1>4 DEF Wipe, Decodes, Erased
  <2>2. ~up /\ up' = up /\ issued' = 0 /\ nvs' = nvs /\ drawn' = drawn
    BY <1>4 DEF Wipe
  <2> QED  BY <1>0, <2>1, <2>2 DEF LogInv
<1> QED  BY <1>1, <1>2, <1>3, <1>4

LEMMA AckKeepsLog ==
  ASSUME NodeIInv, LogInv, NEW a \in 0..MaxU32, HandleAck(a), taken' = taken
  PROVE  LogInv'
<1>1. /\ up /\ up' = up /\ flash' = flash /\ drawn' = drawn /\ issued' = issued
      /\ ram' = [ram EXCEPT !.acked = Least(a, ram.next - 1)]
      /\ nvs' = nvs \/ \E v : nvs' = [nvs EXCEPT !.acked = v]
  BY DEF HandleAck, ApplyAck
<1>2. /\ ram \in [next : 1..MaxU32, oldest : 1..MaxU32, acked : Nat, boot : Nat, log : Nat]
      /\ nvs \in [boot : Nat, log : Nat, acked : Nat]
  BY DEF NodeIInv, NodeTypeOK
<1>3. ram'.log = ram.log /\ ram'.boot = ram.boot /\ nvs'.log = nvs.log /\ nvs'.boot = nvs.boot
  BY <1>1, <1>2
<1> QED  BY <1>1, <1>3 DEF LogInv

-----------------------------------------------------------------------------
(* What is true of a seq stays true *)

\* The sector an append opens, and the slot it writes, are not among those from
\* the last append to the next.
LEMMA BurnedStays ==
  ASSUME NodeIInv, up, PowerCutInAppend, NEW k \in Nat, issued < k, k < ram.next,
         ~IsErased(flash[SlotForSeq(k)])
  PROVE  ~IsErased(flash'[SlotForSeq(k)])
<1>1. /\ flash \in [Slots -> Contents] /\ issued \in Nat /\ ram.next \in Nat /\ issued < ram.next
      /\ IsBurnedTo(flash, issued + 1, ram.next)
  BY LimitsAssumption DEF NodeIInv, NodeTypeOK, WindowInv
<1>2. SlotForSeq(k) \in Slots
  BY SlotType
<1>3. EraseBeforeWrite(ram.next) => SlotForSeq(k) \notin SectorAt(ram.next)
  <2>1. SameSector(issued + 1, ram.next - 1)
    BY <1>1 DEF IsBurnedTo, SameSector, BurnStops
  <2> QED  BY <1>1, <2>1, SectorSpares
<1> DEFINE f == Prepared(flash, ram.next)
<1>4. f \in [Slots -> Contents] /\ f[SlotForSeq(k)] = flash[SlotForSeq(k)]
  BY <1>1, <1>2, <1>3, EraseIsLocal
<1> HIDE DEF f
<1>5. CASE /\ EraseBeforeWrite(ram.next)
           /\ \E part \in [SectorAt(ram.next) -> {"old", "erased", "torn"}] :
                flash' = [j \in Slots |->
                            IF j \notin SectorAt(ram.next) \/ part[j] = "old" THEN flash[j]
                            ELSE IF part[j] = "erased" THEN Erased ELSE Torn]
  BY <1>2, <1>3, <1>5
<1>6. CASE flash' \in {f, Program(f, ram.next, Torn)}
  BY <1>2, <1>4, <1>6 DEF Program, IsErased, Torn
<1> QED  BY <1>5, <1>6 DEF PowerCutInAppend, f

\* A spent seq stays spent, and one that has no record gets none.
LEMMA SpentStays ==
  ASSUME NodeIInv, NodeIInv', LogInv, "log_id" \notin NvsFaults, NodeMoves,
         NEW l \in 1..drawn, NEW s \in Nat, Spent(l, s)
  PROVE  Spent(l, s)' /\ (NoRecord(l, s) => NoRecord(l, s)')
<1>0. /\ issued \in Nat /\ ram.next \in Nat /\ drawn \in Nat
      /\ up => issued < ram.next /\ IsBurnedTo(flash, issued + 1, ram.next)
      /\ nvs \in [boot : Nat, log : Nat, acked : Nat]
      /\ ram \in [next : 1..MaxU32, oldest : 1..MaxU32, acked : Nat, boot : Nat, log : Nat]
  BY LimitsAssumption DEF NodeIInv, NodeTypeOK, WindowInv
<1>1. CASE TakeSample
  <2>1. up /\ nvs' = nvs /\ ram'.next = ram.next + 1 /\ issued' = ram.next
    BY <1>1, <1>0 DEF TakeSample, Reserve
  <2>2. nvs.log = l => s < ram.next
    BY <2>1 DEF Spent
  <2>3. Spent(l, s)'
    BY <1>0, <2>1, <2>2 DEF Spent, SpentTo
  <2>4. ASSUME NoRecord(l, s), nvs.log = l, NEW i \in Slots, Decodes(flash'[i])
        PROVE  flash'[i].seq # s
    <3>1. flash'[i] = flash[i] \/ flash'[i] = Record(ram.next, ram.boot)
      BY <1>1, <2>1, <2>4, AppendLeaves
    <3> QED  BY <1>0, <2>2, <2>4, <3>1 DEF NoRecord, Record
  <2> QED  BY <2>1, <2>3, <2>4 DEF NoRecord
<1>2. ASSUME NEW a \in 0..MaxU32, HandleAck(a)
      PROVE  Spent(l, s)' /\ (NoRecord(l, s) => NoRecord(l, s)')
  <2>1. /\ up' = up /\ flash' = flash /\ issued' = issued
        /\ ram' = [ram EXCEPT !.acked = Least(a, ram.next - 1)]
        /\ nvs' = nvs \/ \E v : nvs' = [nvs EXCEPT !.acked = v]
    BY <1>2 DEF HandleAck, ApplyAck
  <2>2. nvs'.log = nvs.log /\ ram'.next = ram.next
    BY <1>0, <2>1
  <2> QED  BY <2>1, <2>2 DEF Spent, SpentTo, NoRecord
<1>3. CASE PowerCut
  <2>1. up' = FALSE /\ flash' = flash /\ issued' = issued /\ nvs' = nvs
    BY <1>3 DEF PowerCut
  <2> QED  BY <2>1 DEF Spent, SpentTo, NoRecord
<1>4. CASE PowerCutInAppend
  <2>1. up /\ up' = FALSE /\ issued' = issued /\ nvs' = nvs /\ ~TakeSample
    BY <1>4 DEF PowerCutInAppend, TakeSample
  <2>2. ASSUME nvs.log = l, issued > 0, NEW k \in (issued + 1)..s
        PROVE  ~BurnStops(flash', k)
    <3>1. s < ram.next /\ ~BurnStops(flash, k)
      BY <2>1, <2>2 DEF Spent, SpentTo
    <3>2. k \in Nat /\ issued < k /\ k < ram.next
      BY <1>0, <3>1
    <3> QED  BY <1>4, <2>1, <3>1, <3>2, BurnedStays DEF BurnStops
  <2>3. Spent(l, s)'
    BY <2>1, <2>2 DEF Spent, SpentTo
  <2>4. \A i \in Slots : Decodes(flash'[i]) => flash'[i] = flash[i]
    BY <1>4, <2>1, AppendLeaves
  <2> QED  BY <2>1, <2>3, <2>4 DEF NoRecord
<1>5. CASE PowerCutInBoot
  <2>1. /\ ~up /\ flash' = flash /\ up' = up /\ issued' = issued
        /\ \/ nvs' = [nvs EXCEPT !.boot = nvs.boot + 1]
           \/ nvs' = [nvs EXCEPT !.boot = nvs.boot + 1, !.log = FreshLogId]
    BY <1>5 DEF PowerCutInBoot
  <2>2. nvs'.log = nvs.log \/ nvs'.log = drawn + 1
    BY <1>0, <2>1 DEF FreshLogId
  <2> QED  BY <1>0, <2>1, <2>2 DEF Spent, SpentTo, NoRecord
<1>6. CASE Wipe
  <2>1. \A i \in Slots : ~Decodes(flash'[i])
    BY <1>6 DEF Wipe, Decodes, Erased
  <2>2. ~up /\ up' = up /\ issued' = 0
    BY <1>6 DEF Wipe
  <2> QED  BY <2>1, <2>2 DEF Spent, NoRecord
<1>7. CASE Boot
  <2>1. /\ up' /\ flash' = flash /\ issued' = issued
        /\ \/ Found(flash) /\ nvs'.log = nvs.log
           \/ nvs'.log = drawn + 1
    BY <1>7, BootIs
  <2>2. CASE nvs'.log = drawn + 1
    BY <1>0, <2>2 DEF Spent, NoRecord
  <2>3. CASE Found(flash) /\ nvs'.log = nvs.log
    <3>1. issued > 0
      BY <1>0, <2>3 DEF Found, NodeIInv, RecordsInPlace
    <3>2. issued < ram'.next /\ BurnStops(flash, ram'.next) /\ ram'.next \in Nat
      BY <2>1, LimitsAssumption DEF NodeIInv, NodeTypeOK, WindowInv, IsBurnedTo
    <3>3. nvs.log = l => s < ram'.next
      <4> SUFFICES ASSUME nvs.log = l, s >= ram'.next PROVE FALSE
        BY <3>2
      <4>1. SpentTo(s)
        BY <3>1 DEF Spent
      <4>2. ram'.next \in (issued + 1)..s
        BY <1>0, <3>2
      <4> QED  BY <3>2, <4>1, <4>2 DEF SpentTo
    <3> QED  BY <2>1, <2>3, <3>3 DEF Spent, SpentTo, NoRecord
  <2> QED  BY <2>1, <2>2, <2>3
<1> QED  BY <1>1, <1>2, <1>3, <1>4, <1>5, <1>6, <1>7 DEF NodeMoves

\* While the node is up, every seq below next_seq is spent.
LEMMA BelowNextIsSpent ==
  ASSUME NodeIInv, LogInv, up, NEW s \in Nat, s < ram.next
  PROVE  Spent(ram.log, s)
<1>1. issued \in Nat /\ ram.next \in Nat /\ IsBurnedTo(flash, issued + 1, ram.next)
  BY LimitsAssumption DEF NodeIInv, NodeTypeOK, WindowInv
<1>2. SpentTo(s)
  BY <1>1 DEF SpentTo, IsBurnedTo
<1> QED  BY <1>2 DEF Spent

-----------------------------------------------------------------------------
(* What a batch and a line of the journal say *)

\* What the bridge may hold for a seq: the reading taken there, or a placeholder
\* for a seq without a record.
SampleTrue(l, s, v) == IF v = RecordLost THEN NoRecord(l, s) ELSE Taken(l, s, v) \in taken

Gone(l, s) == Spent(l, s) /\ NoRecord(l, s)

BatchTrue(b) ==
  /\ HostP!Fits(b) /\ b.log \in 1..drawn
  /\ Spent(b.log, b.first)
  /\ \A s \in 1..b.lost : Gone(b.log, s)
  /\ \A s \in DOMAIN b.samples : Spent(b.log, s) /\ SampleTrue(b.log, s, b.samples[s])

LineTrue(r) ==
  /\ r.log \in 1..drawn /\ Spent(r.log, r.seq)
  /\ r.kind = "sample" => SampleTrue(r.log, r.seq, r.value)
  /\ r.kind = "loss" => \A s \in 1..r.seq : Gone(r.log, s)

\* A batch is true when it is sent.
LEMMA SentIsTrue ==
  ASSUME NodeIInv, LogInv, up, Pending(ram) > 0
  PROVE  BatchTrue(Batch(flash, ram))
<1>0. /\ ram.next \in 1..MaxU32 /\ ram.oldest \in 1..MaxU32 /\ ram.acked \in Nat /\ MaxU32 \in Nat
      /\ \A i \in Slots : Decodes(flash[i]) => ram.oldest <= flash[i].seq
      /\ \A i \in Slots : Decodes(flash[i]) => flash[i].seq \in Nat /\ SlotForSeq(flash[i].seq) = i
      /\ ram.log = nvs.log /\ ram.log \in 1..drawn /\ ram.boot \in 1..MaxBoots /\ ram.acked < ram.next
      /\ drawn \in 0..MaxLogs /\ MaxLogs \in Nat /\ MaxBoots \in Nat
  BY LimitsAssumption DEF NodeIInv, NodeTypeOK, WindowInv, RecordsInPlace, LogInv
<1> DEFINE first == PendingFirst(ram)
           lost == LostThrough(ram)
           hb == HeaderBoot(flash, ram)
           b == Batch(flash, ram)
<1>1. /\ first \in 1..MaxU32 /\ first < ram.next /\ ram.oldest <= first /\ lost \in {0, first - 1}
      /\ lost < ram.oldest /\ lost \in Nat
  BY <1>0 DEF Pending, PendingFirst, LostThrough, Greatest
<1>2. ASSUME NEW s \in Nat, Readable(flash, ram, s)
      PROVE  /\ Taken(ram.log, s, BootAt(flash, s)) \in taken
             /\ BootAt(flash, s) \in 1..MaxBoots
  <2>1. SlotForSeq(s) \in Slots /\ Decodes(flash[SlotForSeq(s)]) /\ flash[SlotForSeq(s)].seq = s
    BY <1>2, SlotType DEF Readable
  <2>2. Taken(ram.log, s, BootAt(flash, s)) \in taken
    BY <1>0, <2>1 DEF LogInv, BootAt
  <2>3. Taken(ram.log, s, BootAt(flash, s)).boot = BootAt(flash, s)
    BY DEF Taken
  <2>4. \A r \in taken : r.boot \in 1..MaxBoots
    BY DEF LogInv
  <2> QED  BY <2>2, <2>3, <2>4
<1>3. hb \in 1..MaxBoots
  BY <1>0, <1>1, <1>2 DEF HeaderBoot
<1>4. /\ b.log = ram.log /\ b.first = first /\ b.lost = lost
      /\ DOMAIN b.samples = BatchSeqs(flash, ram)
      /\ \A s \in BatchSeqs(flash, ram) : b.samples[s] = IF Readable(flash, ram, s) THEN hb ELSE RecordLost
  BY DEF Batch
<1>5. ASSUME NEW s \in BatchSeqs(flash, ram)
      PROVE  s \in Nat /\ first <= s /\ s < ram.next /\ FitsBoot(flash, ram, s)
  <2> DEFINE top == Least(ram.next - 1, first + MaxBatch - 1)
  <2>1. s \in first..top /\ \A k \in first..s : FitsBoot(flash, ram, k)
    BY DEF BatchSeqs
  <2>2. top \in Int /\ top <= ram.next - 1
    BY <1>0, <1>1, LimitsAssumption DEF Least
  <2> HIDE DEF top
  <2>3. s \in Nat /\ first <= s /\ s < ram.next
    BY <1>0, <1>1, <2>1, <2>2
  <2>4. s \in first..s
    BY <1>1, <2>3
  <2> QED  BY <2>1, <2>3, <2>4
<1> HIDE DEF b, first, lost, hb
<1>6. ASSUME NEW s \in Nat, s < ram.next PROVE Spent(ram.log, s)
  BY <1>6, BelowNextIsSpent
<1>7. ASSUME NEW s \in DOMAIN b.samples
      PROVE  /\ s \in 1..MaxU32 /\ b.samples[s] \in 0..MaxBoots
             /\ Spent(ram.log, s) /\ SampleTrue(ram.log, s, b.samples[s])
  <2>1. s \in Nat /\ first <= s /\ s < ram.next /\ FitsBoot(flash, ram, s)
    BY <1>4, <1>5, <1>7
  <2>2. CASE Readable(flash, ram, s)
    <3>1. b.samples[s] = hb /\ hb = BootAt(flash, s)
      BY <1>4, <1>7, <2>1, <2>2 DEF FitsBoot, hb
    <3>2. Taken(ram.log, s, hb) \in taken /\ hb # RecordLost
      BY <1>2, <1>3, <2>1, <2>2, <3>1 DEF RecordLost
    <3> QED  BY <1>0, <1>1, <1>3, <1>6, <2>1, <3>1, <3>2 DEF SampleTrue
  <2>3. CASE ~Readable(flash, ram, s)
    <3>1. b.samples[s] = RecordLost
      BY <1>4, <1>7, <2>3
    <3>2. NoRecord(ram.log, s)
      BY <1>0, <1>1, <2>1, <2>3 DEF Readable, NoRecord
    <3> QED  BY <1>0, <1>1, <1>6, <2>1, <3>1, <3>2 DEF SampleTrue, RecordLost
  <2> QED  BY <2>2, <2>3
<1>8. ASSUME NEW s \in 1..lost PROVE Gone(ram.log, s)
  <2>1. s \in Nat /\ s < ram.oldest /\ s < ram.next
    BY <1>0, <1>1
  <2>2. NoRecord(ram.log, s)
    BY <1>0, <2>1 DEF NoRecord
  <2> QED  BY <1>6, <2>1, <2>2 DEF Gone
<1>9. HostP!Fits(b)
  BY <1>0, <1>1, <1>4, <1>7 DEF HostP!Fits
<1>10. Spent(ram.log, first)
  BY <1>1, <1>6
<1>11. BatchTrue(b)
  BY <1>0, <1>4, <1>7, <1>8, <1>9, <1>10 DEF BatchTrue
<1> QED  BY <1>11 DEF b

\* What a batch or a line says stays true through the node's steps.
LEMMA TruthStays ==
  ASSUME NodeIInv, NodeIInv', LogInv, "log_id" \notin NvsFaults, NodeMoves, taken \subseteq taken',
         drawn' \in Nat, drawn <= drawn'
  PROVE  /\ \A b : BatchTrue(b) => BatchTrue(b)'
         /\ \A r : r.seq \in Nat /\ LineTrue(r) => LineTrue(r)'
<1>0. drawn \in Nat /\ \A l \in 1..drawn : l \in 1..drawn'
  BY DEF NodeIInv, NodeTypeOK
<1>1. ASSUME NEW l \in 1..drawn, NEW s \in Nat, Spent(l, s)
      PROVE  Spent(l, s)' /\ (NoRecord(l, s) => NoRecord(l, s)')
  BY <1>1, SpentStays
<1>2. ASSUME NEW l \in 1..drawn, NEW s \in Nat, Spent(l, s), NEW v, SampleTrue(l, s, v)
      PROVE  SampleTrue(l, s, v)'
  BY <1>1, <1>2 DEF SampleTrue
<1>3. ASSUME NEW l \in 1..drawn, NEW s \in Nat, Gone(l, s) PROVE Gone(l, s)'
  BY <1>1, <1>3 DEF Gone
<1>4. ASSUME NEW b, BatchTrue(b) PROVE BatchTrue(b)'
  <2>1. /\ b.log \in 1..drawn /\ b.first \in 1..MaxU32 /\ DOMAIN b.samples \subseteq 1..MaxU32
        /\ b.lost \in Nat /\ HostP!Fits(b)
    BY <1>4, LimitsAssumption DEF BatchTrue, HostP!Fits
  <2>2. Spent(b.log, b.first)'
    BY <1>1, <1>4, <2>1 DEF BatchTrue
  <2>3. \A s \in 1..b.lost : Gone(b.log, s)'
    BY <1>3, <1>4, <2>1 DEF BatchTrue
  <2>4. ASSUME NEW s \in DOMAIN b.samples
        PROVE  Spent(b.log, s)' /\ SampleTrue(b.log, s, b.samples[s])'
    <3>1. s \in Nat /\ Spent(b.log, s) /\ SampleTrue(b.log, s, b.samples[s])
      BY <1>4, <2>1 DEF BatchTrue
    <3> QED  BY <1>1, <1>2, <2>1, <3>1
  <2>5. HostP!Fits(b)'
    BY <2>1 DEF HostP!Fits
  <2> QED  BY <1>0, <2>1, <2>2, <2>3, <2>4, <2>5 DEF BatchTrue
<1>5. ASSUME NEW r, r.seq \in Nat, LineTrue(r) PROVE LineTrue(r)'
  <2>1. r.log \in 1..drawn /\ Spent(r.log, r.seq)
    BY <1>5 DEF LineTrue
  <2>2. Spent(r.log, r.seq)'
    BY <1>1, <1>5, <2>1
  <2>3. r.kind = "sample" => SampleTrue(r.log, r.seq, r.value)'
    BY <1>2, <1>5, <2>1 DEF LineTrue
  <2>4. r.kind = "loss" => \A s \in 1..r.seq : Gone(r.log, s)'
    BY <1>3, <1>5, <2>1 DEF LineTrue
  <2> QED  BY <1>0, <2>1, <2>2, <2>3, <2>4 DEF LineTrue
<1> QED  BY <1>4, <1>5

\* The lines a true batch gives are true.
LEMMA LineOfTrue ==
  ASSUME NEW b, BatchTrue(b), NEW r, HostP!LineOf(b, r), r.seq \in Nat \ {0},
         r.kind \in {"start", "loss", "sample"}
  PROVE  LineTrue(r)
<1>1. r.log = b.log
  BY DEF HostP!LineOf
<1>2. CASE r.kind = "start"
  BY <1>1, <1>2 DEF HostP!LineOf, BatchTrue, LineTrue
<1>3. CASE r.kind = "loss"
  <2>1. r.seq = b.lost /\ r.seq \in 1..b.lost
    BY <1>3 DEF HostP!LineOf
  <2> QED  BY <1>1, <1>3, <2>1 DEF BatchTrue, LineTrue, Gone
<1>4. CASE r.kind = "sample"
  BY <1>1, <1>4 DEF HostP!LineOf, BatchTrue, LineTrue
<1> QED  BY <1>2, <1>3, <1>4

-----------------------------------------------------------------------------
(* The invariant, end to end *)

File == HostP!OnFile

\* Every batch under way and every line on the file is true of the node.
PathInv ==
  /\ \A b \in toHost : BatchTrue(b)
  /\ \A i \in DOMAIN File : LineTrue(File[i])
  /\ toNode \subseteq 0..MaxU32

\* The bridge accounts for the first a seqs of the first log.
AccountedTo(a) == \A s \in 1..a : HostP!Accounted(File, 1, s)

\* Until a second log is begun, every ack under way and every pointer the node
\* keeps is accounted for.
AckInv ==
  drawn <= 1 =>
    /\ \A a \in toNode : AccountedTo(a)
    /\ AccountedTo(nvs.acked)
    /\ up => AccountedTo(ram.acked)

EndInv == ~failed /\ NodeIInv /\ LogInv /\ HostP!StoreInv /\ PathInv /\ AckInv

LEMMA EndInit ==
  ASSUME Init
  PROVE  EndInv
<1>1. NodeInit /\ HostP!StoreInit /\ toHost = {} /\ toNode = {} /\ taken = {}
  BY SameStore DEF Init
<1>2. NodeIInv /\ HostP!StoreInv
  BY <1>1, InitInv, SameStore, HostP!InitStores
<1>3. LogInv
  <2>1. \A i \in Slots : ~Decodes(flash[i])
    BY <1>1 DEF NodeInit, Decodes, Erased
  <2> QED  BY <1>1, <2>1, LimitsAssumption DEF NodeInit, LogInv
<1>4. PathInv
  <2>1. File = <<>>
    BY <1>1 DEF File, HostP!OnFile, HostP!StoreInit, HostP!IsRecord, HostP!NoTail
  <2> QED  BY <1>1, <2>1 DEF PathInv
<1>5. AckInv
  BY <1>1 DEF AckInv, AccountedTo, NodeInit
<1>6. ~failed
  BY <1>1 DEF NodeInit
<1> QED  BY <1>2, <1>3, <1>4, <1>5, <1>6 DEF EndInv

LEMMA StoreStays ==
  ASSUME HostP!StoreInv, UNCHANGED hostVars
  PROVE  HostP!StoreInv' /\ File' = File
<1>1. UNCHANGED HostP!storeVars
  BY DEF hostVars, HostP!storeVars
<1>2. HostP!StoreInv'
  BY <1>1, SameStore, HostP!StutterKeeps
<1>3. File' = File
  BY <1>1, SameStore, HostP!RestartOnFile DEF File
<1> QED  BY <1>2, <1>3

\* A line on the file has the parts of a line.
LEMMA LineParts ==
  ASSUME HostP!StoreInv, NEW i \in DOMAIN File
  PROVE  File[i].seq \in Nat \ {0} /\ File[i].kind \in {"start", "loss", "sample"}
<1>1. File[i] \in HostP!Record /\ MaxU32 \in Nat
  BY LimitsAssumption DEF HostP!StoreInv, HostP!Sound, File
<1>2. File[i].seq \in 1..MaxU32 /\ HostP!IsRecord(File[i])
  BY <1>1, SameStore, HostP!RecordIs
<1> QED  BY <1>1, <1>2 DEF HostP!IsRecord

\* The node's own steps.
LEMMA NodeStepKeeps ==
  ASSUME EndInv, "log_id" \notin NvsFaults, NodeMoves, UNCHANGED hostVars, toHost' = toHost,
         toNode' \subseteq toNode, taken \subseteq taken', LogInv',
         drawn' <= 1 =>
           /\ nvs'.acked \in {0, nvs.acked} \/ AccountedTo(nvs'.acked)
           /\ up' => AccountedTo(ram'.acked)
  PROVE  EndInv'
<1>1. NodeNext /\ ~failed'
  <2>1. NodeNext
    BY DEF NodeMoves, NodeNext
  <2>2. failed' = failed
    BY DEF NodeMoves, TakeSample, HandleAck, PowerCut, PowerCutInAppend, PowerCutInBoot, Wipe, Boot
  <2> QED  BY <2>1, <2>2 DEF EndInv
<1>2. NodeIInv'
  BY <1>1, NextInv DEF EndInv
<1>3. drawn \in Nat /\ drawn' \in Nat /\ drawn <= drawn'
  <2>1. drawn \in Nat /\ (drawn' = drawn \/ drawn' = drawn + 1)
    BY DEF EndInv, NodeIInv, NodeTypeOK, NodeMoves, TakeSample, HandleAck, PowerCut,
       PowerCutInAppend, PowerCutInBoot, Wipe, Boot
  <2> QED  BY <2>1
<1>4. HostP!StoreInv' /\ File' = File
  BY StoreStays DEF EndInv
<1>5. /\ \A b : BatchTrue(b) => BatchTrue(b)'
      /\ \A r : r.seq \in Nat /\ LineTrue(r) => LineTrue(r)'
  BY <1>2, <1>3, TruthStays DEF EndInv
<1>6. PathInv'
  <2>1. \A b \in toHost : BatchTrue(b)'
    BY <1>5 DEF EndInv, PathInv
  <2>2. ASSUME NEW i \in DOMAIN File PROVE LineTrue(File[i])'
    <3>1. PICK r : r = File[i]
      OBVIOUS
    <3>2. r.seq \in Nat /\ LineTrue(r)
      BY <3>1, LineParts DEF EndInv, PathInv
    <3>3. LineTrue(r)'
      BY <1>5, <3>2
    <3>4. File'[i] = r
      BY <1>4, <3>1
    <3> QED  BY <3>3, <3>4
  <2> QED  BY <1>4, <2>1, <2>2 DEF EndInv, PathInv
<1>7. AckInv'
  <2> SUFFICES ASSUME drawn' <= 1
               PROVE  /\ \A a \in toNode' : AccountedTo(a)'
                      /\ AccountedTo(nvs.acked)'
                      /\ up' => AccountedTo(ram.acked)'
    BY DEF AckInv
  <2>1. drawn <= 1
    BY <1>3
  <2>2. ASSUME NEW a, AccountedTo(a) PROVE AccountedTo(a)'
    BY <1>4, <2>2 DEF AccountedTo
  <2>3. \A a \in toNode' : AccountedTo(a)'
    BY <2>1, <2>2 DEF EndInv, AckInv
  <2>4. AccountedTo(nvs'.acked)
    <3>1. AccountedTo(0)
      BY DEF AccountedTo
    <3> QED  BY <2>1, <3>1 DEF EndInv, AckInv
  <2>5. AccountedTo(nvs.acked)'
    BY <1>4, <2>4 DEF AccountedTo
  <2>6. up' => AccountedTo(ram.acked)'
    BY <1>4 DEF AccountedTo
  <2> QED  BY <2>3, <2>5, <2>6
<1> QED  BY <1>1, <1>2, <1>4, <1>6, <1>7 DEF EndInv

\* Whatever the bridge writes of a true batch keeps the file true, and what was
\* accounted for stays so.
LEMMA BatchKeeps ==
  ASSUME EndInv, NEW b \in toHost, HostP!Ingest(b) \/ HostP!CrashInIngest(b),
         UNCHANGED <<nodeVars, taken>>
  PROVE  /\ HostP!StoreInv'
         /\ \A i \in DOMAIN File' : LineTrue(File[i])'
         /\ \A c : BatchTrue(c) => BatchTrue(c)'
         /\ \A l : \A s \in Nat \ {0} : HostP!Accounted(File, l, s) => HostP!Accounted(File', l, s)
<1>1. HostP!Fits(b) /\ BatchTrue(b) /\ HostP!StoreInv /\ HostP!StoreAssumption
  BY SameStore DEF EndInv, PathInv, BatchTrue
<1>2. HostP!StoreInv'
  BY <1>1, HostP!IngestKeeps, HostP!CrashInIngestKeeps
<1>3. PICK d \in Seq(HostP!Record) :
        File' = File \o d /\ \A i \in DOMAIN d : HostP!LineOf(b, d[i])
  BY <1>1, HostP!BatchOnFile DEF File
<1>4. File \in Seq(HostP!Record)
  BY <1>1 DEF HostP!StoreInv, HostP!Sound, File
<1>5. /\ flash' = flash /\ nvs' = nvs /\ up' = up /\ ram' = ram /\ drawn' = drawn
      /\ issued' = issued /\ taken' = taken
  BY DEF nodeVars
<1>6. ASSUME NEW l, NEW s PROVE (Spent(l, s) => Spent(l, s)') /\ (NoRecord(l, s) => NoRecord(l, s)')
  BY <1>5 DEF Spent, SpentTo, NoRecord
<1>7. ASSUME NEW l, NEW s, NEW v, SampleTrue(l, s, v) PROVE SampleTrue(l, s, v)'
  BY <1>5, <1>6, <1>7 DEF SampleTrue
<1>8. ASSUME NEW c, BatchTrue(c) PROVE BatchTrue(c)'
  <2>1. HostP!Fits(c)'
    BY <1>8 DEF BatchTrue, HostP!Fits
  <2> QED  BY <1>5, <1>6, <1>7, <1>8, <2>1 DEF BatchTrue, Gone
<1>9. ASSUME NEW r, LineTrue(r) PROVE LineTrue(r)'
  BY <1>5, <1>6, <1>7, <1>9 DEF LineTrue, Gone
<1>10. ASSUME NEW i \in DOMAIN File' PROVE LineTrue(File[i])'
  <2>1. PICK r : r = File'[i]
    OBVIOUS
  <2>2. CASE i \in DOMAIN File
    <3>1. r = File[i]
      BY <1>3, <1>4, <2>1, <2>2
    <3>2. LineTrue(r)
      BY <2>2, <3>1 DEF EndInv, PathInv
    <3> QED  BY <1>9, <2>1, <3>2
  <2>3. CASE i \notin DOMAIN File
    <3>1. i - Len(File) \in DOMAIN d /\ r = d[i - Len(File)]
      BY <1>3, <1>4, <2>1, <2>3
    <3>2. r \in HostP!Record /\ HostP!LineOf(b, r)
      BY <1>3, <3>1
    <3>3. r.seq \in 1..MaxU32 /\ HostP!IsRecord(r)
      BY <1>1, <3>2, HostP!RecordIs
    <3>4. r.seq \in Nat \ {0} /\ r.kind \in {"start", "loss", "sample"}
      BY <3>3, LimitsAssumption DEF HostP!IsRecord
    <3>5. LineTrue(r)
      BY <1>1, <3>2, <3>4, LineOfTrue
    <3> QED  BY <1>9, <2>1, <3>5
  <2> QED  BY <2>2, <2>3
<1>11. ASSUME NEW l, NEW s \in Nat \ {0}, HostP!Accounted(File, l, s)
       PROVE  HostP!Accounted(File', l, s)
  BY <1>1, <1>3, <1>11, HostP!AccountedForGood DEF File
<1> QED  BY <1>2, <1>8, <1>10, <1>11

LEMMA BridgeIngestsKeeps ==
  ASSUME EndInv, BridgeIngests
  PROVE  EndInv'
<1>1. PICK b \in toHost :
        /\ HostP!Ingest(b) /\ toHost' \in Arrived(toHost, b)
        /\ toNode' = Queued(toNode, HostP!PlanState(b).through)
        /\ UNCHANGED <<nodeVars, taken>>
  BY SameIngest, SamePlan DEF BridgeIngests
<1>2. /\ HostP!StoreInv'
      /\ \A i \in DOMAIN File' : LineTrue(File[i])'
      /\ \A c : BatchTrue(c) => BatchTrue(c)'
      /\ \A l : \A s \in Nat \ {0} : HostP!Accounted(File, l, s) => HostP!Accounted(File', l, s)
  BY <1>1, BatchKeeps
<1>3. toHost' \subseteq toHost /\ toNode' \subseteq toNode \union {HostP!PlanState(b).through}
  BY <1>1 DEF Arrived, Queued
<1>4. HostP!Fits(b) /\ b.log \in 1..drawn /\ HostP!StoreInv /\ HostP!StoreAssumption
  BY SameStore DEF EndInv, PathInv, BatchTrue
<1>5. /\ HostP!PlanState(b).through \in 0..MaxU32
      /\ \A s \in 1..HostP!PlanState(b).through : HostP!Accounted(File', b.log, s)
  BY <1>1, <1>4, HostP!AckIsEarned DEF File
<1>6. PathInv'
  BY <1>2, <1>3, <1>5 DEF EndInv, PathInv
<1>7. /\ flash' = flash /\ nvs' = nvs /\ up' = up /\ ram' = ram /\ drawn' = drawn
      /\ issued' = issued /\ taken' = taken /\ failed' = failed
  BY <1>1 DEF nodeVars
<1>8. AckInv'
  <2> SUFFICES ASSUME drawn <= 1
               PROVE  /\ \A a \in toNode' : AccountedTo(a)'
                      /\ AccountedTo(nvs.acked)'
                      /\ up => AccountedTo(ram.acked)'
    BY <1>7 DEF AckInv
  <2>1. b.log = 1
    BY <1>4 DEF EndInv, NodeIInv, NodeTypeOK
  <2>2. ASSUME NEW a, AccountedTo(a) PROVE AccountedTo(a)'
    <3>1. ASSUME NEW s \in 1..a PROVE HostP!Accounted(File', 1, s)
      <4>1. HostP!Accounted(File, 1, s) /\ s \in Nat \ {0}
        BY <2>2 DEF AccountedTo
      <4> QED  BY <1>2, <4>1
    <3> QED  BY <3>1 DEF AccountedTo
  <2>3. PICK t : t = HostP!PlanState(b).through
    OBVIOUS
  <2>4. AccountedTo(t)'
    BY <1>5, <2>1, <2>3 DEF AccountedTo
  <2>5. \A a \in toNode' : AccountedTo(a)'
    BY <1>3, <2>2, <2>3, <2>4 DEF EndInv, AckInv
  <2>6. AccountedTo(nvs.acked)' /\ (up => AccountedTo(ram.acked)')
    BY <1>7, <2>2 DEF EndInv, AckInv
  <2> QED  BY <2>5, <2>6
<1>9. NodeIInv' /\ LogInv' /\ ~failed'
  <2>1. NodeIInv'
    BY <1>7, NextInv DEF EndInv, nodeVars
  <2> QED  BY <1>7, <2>1 DEF EndInv, LogInv
<1> QED  BY <1>2, <1>6, <1>8, <1>9 DEF EndInv

\* A step that leaves the node and its readings alone, and the file, or makes it
\* longer, keeps the rest.
LEMMA QuietKeeps ==
  ASSUME EndInv, UNCHANGED <<nodeVars, taken>>, HostP!StoreInv', toNode' \subseteq toNode,
         \A i \in DOMAIN File' : LineTrue(File[i])',
         \A c \in toHost' : BatchTrue(c)',
         \A l : \A s \in Nat \ {0} : HostP!Accounted(File, l, s) => HostP!Accounted(File', l, s)
  PROVE  EndInv'
<1>1. /\ flash' = flash /\ nvs' = nvs /\ up' = up /\ ram' = ram /\ drawn' = drawn
      /\ issued' = issued /\ taken' = taken /\ failed' = failed
  BY DEF nodeVars
<1>2. NodeIInv' /\ LogInv' /\ ~failed'
  <2>1. NodeIInv'
    BY <1>1, NextInv DEF EndInv, nodeVars
  <2> QED  BY <1>1, <2>1 DEF EndInv, LogInv
<1>3. PathInv'
  BY DEF EndInv, PathInv
<1>4. ASSUME NEW a, AccountedTo(a) PROVE AccountedTo(a)'
  <2>1. ASSUME NEW s \in 1..a PROVE HostP!Accounted(File', 1, s)
    <3>1. HostP!Accounted(File, 1, s) /\ s \in Nat \ {0}
      BY <1>4 DEF AccountedTo
    <3> QED  BY <3>1
  <2> QED  BY <2>1 DEF AccountedTo
<1>5. AckInv'
  BY <1>1, <1>4 DEF EndInv, AckInv
<1> QED  BY <1>2, <1>3, <1>5 DEF EndInv

\* Every step of the whole keeps the invariant.
LEMMA EndStepKeeps ==
  ASSUME EndInv, "log_id" \notin NvsFaults, [Next]_vars
  PROVE  EndInv'
<1>0. /\ HostP!StoreInv /\ HostP!StoreAssumption /\ NodeIInv /\ LogInv
      /\ \A i \in DOMAIN File : LineTrue(File[i])
      /\ \A c \in toHost : BatchTrue(c)
  BY SameStore DEF EndInv, PathInv
<1>s. ASSUME UNCHANGED <<nodeVars, taken>>
      PROVE  \A c : (BatchTrue(c) => BatchTrue(c)') /\ (LineTrue(c) => LineTrue(c)')
  <2>1. /\ flash' = flash /\ nvs' = nvs /\ up' = up /\ ram' = ram /\ drawn' = drawn
        /\ issued' = issued /\ taken' = taken
    BY <1>s DEF nodeVars
  <2>2. ASSUME NEW l, NEW s PROVE (Spent(l, s) <=> Spent(l, s)') /\ (NoRecord(l, s) <=> NoRecord(l, s)')
    BY <2>1 DEF Spent, SpentTo, NoRecord
  <2>3. ASSUME NEW l, NEW s, NEW v PROVE SampleTrue(l, s, v) <=> SampleTrue(l, s, v)'
    BY <2>1, <2>2 DEF SampleTrue
  <2>4. ASSUME NEW c PROVE HostP!Fits(c) <=> HostP!Fits(c)'
    BY DEF HostP!Fits
  <2> QED  BY <2>1, <2>2, <2>3, <2>4 DEF BatchTrue, LineTrue, Gone
\* The file as it was, and the node too.
<1>q. ASSUME UNCHANGED <<nodeVars, taken>>, HostP!StoreInv', File' = File, toNode' \subseteq toNode,
             \A c \in toHost' : BatchTrue(c)
      PROVE  EndInv'
  <2>1. ASSUME NEW i \in DOMAIN File' PROVE LineTrue(File[i])'
    <3>1. PICK r : r = File[i]
      OBVIOUS
    <3>2. LineTrue(r)'
      BY <1>0, <1>q, <1>s, <3>1
    <3> QED  BY <1>q, <3>1, <3>2
  <2>2. \A c \in toHost' : BatchTrue(c)'
    BY <1>q, <1>s
  <2> QED  BY <1>q, <2>1, <2>2, QuietKeeps
<1>1. CASE NodeSamples
  <2>1. TakeSample /\ UNCHANGED hostVars /\ toHost' = toHost /\ toNode' = toNode /\ taken \subseteq taken'
    BY <1>1 DEF NodeSamples, pathVars
  <2>2. LogInv'
    BY <1>0, <1>1, SampleKeepsLog
  <2>3. /\ nvs' = nvs /\ drawn' = drawn /\ up
        /\ ram \in [next : 1..MaxU32, oldest : 1..MaxU32, acked : Nat, boot : Nat, log : Nat]
        /\ ram' = Reserve(ram)
    BY <1>0, <2>1 DEF TakeSample, NodeIInv, NodeTypeOK
  <2>4. ram'.acked = ram.acked
    BY <2>3 DEF Reserve
  <2>5. drawn' <= 1 => AccountedTo(nvs'.acked) /\ AccountedTo(ram'.acked)
    BY <2>3, <2>4 DEF EndInv, AckInv
  <2> QED  BY <2>1, <2>2, <2>5, NodeStepKeeps DEF NodeMoves
<1>2. CASE NodeGetsAck
  <2>1. PICK a \in toNode : HandleAck(a) /\ toNode' \in Arrived(toNode, a)
    BY <1>2 DEF NodeGetsAck
  <2>2. /\ UNCHANGED hostVars /\ toHost' = toHost /\ taken' = taken /\ toNode' \subseteq toNode
        /\ a \in 0..MaxU32
    BY <1>2, <2>1 DEF NodeGetsAck, Arrived, EndInv, PathInv
  <2>3. LogInv'
    BY <1>0, <2>1, <2>2, AckKeepsLog
  <2>4. /\ drawn' = drawn /\ up
        /\ ram \in [next : 1..MaxU32, oldest : 1..MaxU32, acked : Nat, boot : Nat, log : Nat]
        /\ nvs \in [boot : Nat, log : Nat, acked : Nat]
        /\ ram' = [ram EXCEPT !.acked = Least(a, ram.next - 1)]
        /\ nvs' = nvs \/ \E v \in {nvs.acked, ram'.acked} : nvs' = [nvs EXCEPT !.acked = v]
    BY <1>0, <2>1 DEF HandleAck, ApplyAck, NvsPut, NodeIInv, NodeTypeOK
  <2>5. ram'.acked = Least(a, ram.next - 1) /\ nvs'.acked \in {nvs.acked, ram'.acked}
    BY <2>4
  <2>6. drawn' <= 1 => AccountedTo(nvs'.acked) /\ AccountedTo(ram'.acked)
    <3> SUFFICES ASSUME drawn <= 1 PROVE AccountedTo(nvs'.acked) /\ AccountedTo(ram'.acked)
      BY <2>4
    <3>1. AccountedTo(a) /\ AccountedTo(nvs.acked)
      BY <2>1 DEF EndInv, AckInv
    <3>2. Least(a, ram.next - 1) \in Int /\ Least(a, ram.next - 1) <= a /\ a \in Int
      BY <2>2, <2>4 DEF Least
    <3>3. AccountedTo(ram'.acked)
      BY <2>5, <3>1, <3>2 DEF AccountedTo
    <3> QED  BY <2>5, <3>1, <3>3
  <2> QED  BY <2>1, <2>2, <2>3, <2>6, NodeStepKeeps DEF NodeMoves
<1>3. CASE NodePower
  <2>1. /\ PowerCut \/ PowerCutInAppend \/ PowerCutInBoot \/ Wipe
        /\ UNCHANGED hostVars /\ toHost' = toHost /\ toNode' = toNode /\ taken' = taken
    BY <1>3 DEF NodePower, pathVars
  <2>2. LogInv'
    BY <1>0, <2>1, PowerKeepsLog
  <2>3. ~up'
    BY <2>1 DEF PowerCut, PowerCutInAppend, PowerCutInBoot, Wipe
  <2>4. nvs \in [boot : Nat, log : Nat, acked : Nat]
    BY <1>0 DEF NodeIInv, NodeTypeOK
  <2>5. nvs'.acked = nvs.acked
    BY <2>1, <2>4 DEF PowerCut, PowerCutInAppend, PowerCutInBoot, Wipe
  <2> QED  BY <2>1, <2>2, <2>3, <2>5, NodeStepKeeps DEF NodeMoves
<1>4. CASE NodeBoots
  <2>1. Boot /\ UNCHANGED hostVars /\ toHost' = toHost /\ toNode' = toNode /\ taken' = taken
    BY <1>4 DEF NodeBoots, pathVars
  <2>2. LogInv'
    BY <1>0, <2>1, BootKeepsLog
  <2>3. /\ nvs'.acked \in {0, nvs.acked} /\ (drawn' = drawn \/ drawn' = drawn + 1)
        /\ nvs.acked \in Nat /\ drawn \in Nat
    BY <1>0, <2>1, BootIs DEF NodeIInv, NodeTypeOK
  <2>4. PICK hi \in Nat : ram'.acked = Least(0, hi) \/ ram'.acked = Least(nvs.acked, hi)
    BY <1>0, <2>1, BootIs
  <2>5. drawn' <= 1 => AccountedTo(ram'.acked)
    <3> SUFFICES ASSUME drawn' <= 1 PROVE AccountedTo(ram'.acked)
      OBVIOUS
    <3>1. AccountedTo(nvs.acked)
      BY <2>3 DEF EndInv, AckInv
    <3>2. ram'.acked \in Nat /\ ram'.acked <= nvs.acked
      BY <2>3, <2>4 DEF Least
    <3> QED  BY <2>3, <3>1, <3>2 DEF AccountedTo
  <2> QED  BY <2>1, <2>2, <2>3, <2>5, NodeStepKeeps DEF NodeMoves
<1>5. CASE SendBatch
  <2>1. /\ UNCHANGED <<nodeVars, taken>> /\ UNCHANGED hostVars /\ toNode' = toNode /\ up
        /\ toHost' = toHost \union {Batch(flash, ram)} /\ Pending(ram) > 0
    BY <1>5 DEF SendBatch
  <2>2. BatchTrue(Batch(flash, ram))
    BY <1>0, <2>1, SentIsTrue
  <2>3. HostP!StoreInv' /\ File' = File
    BY <1>0, <2>1, StoreStays
  <2> QED  BY <1>0, <1>q, <2>1, <2>2, <2>3
<1>6. CASE LoseBatch \/ LoseAck \/ UNCHANGED vars
  <2>1. /\ UNCHANGED <<nodeVars, taken>> /\ UNCHANGED hostVars /\ toNode' \subseteq toNode
        /\ toHost' \subseteq toHost
    BY <1>6 DEF LoseBatch, LoseAck, vars, pathVars
  <2>2. HostP!StoreInv' /\ File' = File
    BY <1>0, <2>1, StoreStays
  <2> QED  BY <1>0, <1>q, <2>1, <2>2
<1>7. CASE BridgeIngests
  BY <1>7, BridgeIngestsKeeps
<1>8. CASE BridgeCrashes
  <2>1. UNCHANGED <<nodeVars, taken>> /\ toNode' = toNode
    BY <1>8 DEF BridgeCrashes
  <2>2. CASE HostP!Crash /\ toHost' = toHost
    <3>1. HostP!StoreInv' /\ File' = File
      BY <1>0, <2>2, HostP!CrashKeeps, HostP!RestartOnFile DEF File
    <3> QED  BY <1>0, <1>q, <2>1, <2>2, <3>1
  <2>3. ASSUME NEW b \in toHost, HostP!CrashInIngest(b), toHost' = toHost \ {b} PROVE EndInv'
    BY <1>0, <1>s, <2>1, <2>3, BatchKeeps, QuietKeeps
  <2> QED  BY <1>8, <2>2, <2>3, SameStore, SameIngest DEF BridgeCrashes
<1>9. CASE BridgeOpens
  <2>1. UNCHANGED <<nodeVars, taken>> /\ toNode' = toNode /\ toHost' = toHost /\ HostP!Open
    BY <1>9, SameStore DEF BridgeOpens, pathVars
  <2>2. HostP!StoreInv' /\ File' = File
    BY <1>0, <2>1, HostP!OpenKeeps, HostP!RestartOnFile DEF File
  <2> QED  BY <1>0, <1>q, <2>1, <2>2
<1> QED
  BY <1>1, <1>2, <1>3, <1>4, <1>5, <1>6, <1>7, <1>8, <1>9 DEF Next

-----------------------------------------------------------------------------
(* Theorems *)

\* The inductive invariant of the whole: the node's, the store's, and what the
\* batches, the lines and the acks between them say of both.
THEOREM EndToEndInvariant ==
  ASSUME "log_id" \notin NvsFaults
  PROVE  Spec => []EndInv
<1>1. Init => EndInv  BY EndInit
<1>2. EndInv /\ [Next]_vars => EndInv'  BY EndStepKeeps
<1> QED  BY <1>1, <1>2, PTL DEF Spec

\* With one log, what the node counts as delivered is accounted for.
LEMMA ReleasedAreAccounted ==
  ASSUME EndInv, drawn <= 1
  PROVE  ReleasedReadings \subseteq {r \in taken : HostP!Accounted(File, r.log, r.seq)}
<1> SUFFICES ASSUME NEW r \in taken, r.log = CurrentLog, r.seq <= ReleasedThrough
             PROVE  HostP!Accounted(File, r.log, r.seq)
  BY DEF ReleasedReadings
<1>1. r.log \in 1..drawn /\ r.seq \in 1..MaxU32 /\ drawn \in Nat /\ MaxU32 \in Nat
  BY LimitsAssumption DEF EndInv, LogInv, NodeIInv, NodeTypeOK
<1>2. AccountedTo(ReleasedThrough) /\ ReleasedThrough \in Nat
  BY LimitsAssumption DEF EndInv, AckInv, ReleasedThrough, NodeIInv, NodeTypeOK
<1> QED  BY <1>1, <1>2 DEF AccountedTo

\* Until the partition is wiped, the node counts a reading as delivered only if
\* the bridge accounts for it, whatever is lost, sent twice or late, and through
\* every crash of the bridge and power cut of the node (store.ts, handle_ack).
THEOREM ReleaseIsSafe ==
  ASSUME "log_id" \notin NvsFaults
  PROVE  Spec => []ReleasedUntilWiped
<1>1. EndInv => ReleasedUntilWiped
  BY ReleasedAreAccounted, SameStore, SameAccount
     DEF ReleasedUntilWiped, ReleasedIsAccounted, ReleasedReadings, File
<1> QED  BY <1>1, EndToEndInvariant, PTL

\* The samples, placeholders and losses the bridge holds are true of the node.
THEOREM StoreTellsTruth ==
  ASSUME "log_id" \notin NvsFaults
  PROVE  Spec => []StoreIsTrue
<1>1. EndInv => StoreIsTrue
  <2> SUFFICES ASSUME EndInv PROVE HeldIsTrue /\ LossIsTrue
    BY DEF StoreIsTrue
  <2>1. CurrentLog = nvs.log
    BY DEF EndInv, LogInv, CurrentLog
  <2>2. ASSUME NEW i \in DOMAIN lines
        PROVE  LineTrue(lines[i]) /\ lines[i].seq \in Nat \ {0}
    <3>1. i \in DOMAIN File /\ File[i] = lines[i]
      BY HostP!LinesOnFile, SameStore DEF EndInv, File
    <3> QED  BY <3>1, LineParts DEF EndInv, PathInv
  <2>3. HeldIsTrue
    BY <2>1, <2>2 DEF HeldIsTrue, LineTrue, SampleTrue, NoRecord, Taken
  <2>4. LossIsTrue
    <3> SUFFICES ASSUME NEW i \in DOMAIN lines, lines[i].kind = "loss", lines[i].log = nvs.log,
                        NEW k \in Slots, Decodes(flash[k])
                 PROVE  flash[k].seq > lines[i].seq
      BY <2>1 DEF LossIsTrue
    <3>1. \A s \in 1..lines[i].seq : flash[k].seq # s
      BY <2>2 DEF LineTrue, Gone, NoRecord
    <3>2. flash[k].seq \in Nat \ {0} /\ lines[i].seq \in Nat
      BY <2>2 DEF EndInv, NodeIInv, RecordsInPlace, NodeTypeOK
    <3> QED  BY <3>1, <3>2
  <2> QED  BY <2>3, <2>4
<1> QED  BY <1>1, EndToEndInvariant, PTL

\* The bridge's ack point never passes what the node has given out, so the clamp
\* of cm_tlog_apply_ack changes no ack of the node's own log.
THEOREM AcksAreNotAhead ==
  ASSUME "log_id" \notin NvsFaults
  PROVE  Spec => []HostNotAhead
<1>1. EndInv => HostNotAhead
  <2> SUFFICES ASSUME EndInv, up, ram.log \in DOMAIN logs, logs[ram.log].through >= ram.next
               PROVE  FALSE
    <3>1. ASSUME EndInv, ram.log \in DOMAIN logs
          PROVE  logs[ram.log].through \in Int /\ ram.next \in Int
      BY <3>1, SameStore, HostP!HeldIs DEF EndInv, NodeIInv, NodeTypeOK
    <3> QED  BY <3>1 DEF HostNotAhead
  <2>1. /\ HostP!StoreInv /\ HostP!StoreAssumption /\ ram.next \in Nat \ {0}
        /\ ram.log = nvs.log
    BY SameStore DEF EndInv, LogInv, NodeIInv, NodeTypeOK
  <2>2. logs[ram.log].through \in Nat
    BY <2>1, HostP!HeldIs, LimitsAssumption
  <2>3. HostP!Accounted(File, ram.log, ram.next)
    BY <2>1, <2>2, HostP!InvImpliesEarned DEF HostP!ThroughIsEarned, File
  <2>4. PICK i \in DOMAIN File : File[i].log = ram.log /\ ram.next <= File[i].seq
    BY <2>1, <2>3, HostP!AccountedIs DEF File
  <2>5. File[i].seq < ram.next /\ File[i].seq \in Nat
    BY <2>1, <2>4, LineParts DEF EndInv, PathInv, LineTrue, Spent
  <2> QED  BY <2>1, <2>4, <2>5
<1> QED  BY <1>1, EndToEndInvariant, PTL

-----------------------------------------------------------------------------
(* The promise of StoreAndForward is kept *)

\* A reading that is about to be taken is new, and nothing accounts for it yet.
LEMMA NextIsNew ==
  ASSUME EndInv, NodeSamples
  PROVE  /\ taken' = taken \union {Taken(ram.log, ram.next, ram.boot)}
         /\ Taken(ram.log, ram.next, ram.boot) \in Reading \ taken
         /\ ~HostP!Accounted(File, ram.log, ram.next)
<1>1. /\ up /\ ram.next < MaxU32 /\ HostP!StoreInv /\ HostP!StoreAssumption
      /\ taken' = taken \union {Taken(ram.log, ram.next, ram.boot)}
  BY SameStore DEF NodeSamples, TakeSample, Taken, EndInv
<1>2. /\ ram.next \in 1..MaxU32 /\ issued \in Nat /\ issued < ram.next /\ ram.log = nvs.log
      /\ ram.log \in 1..drawn /\ drawn \in 0..MaxLogs /\ ram.boot \in 1..MaxBoots
      /\ MaxLogs \in Nat /\ MaxBoots \in Nat
  BY <1>1, LimitsAssumption DEF EndInv, LogInv, NodeIInv, NodeTypeOK, WindowInv
<1>3. Taken(ram.log, ram.next, ram.boot) \in Reading
  BY <1>2 DEF Taken, Reading
<1>4. Taken(ram.log, ram.next, ram.boot) \notin taken
  <2>1. \A r \in taken : r.log = nvs.log => r.seq <= issued
    BY <1>1 DEF EndInv, LogInv
  <2>2. /\ Taken(ram.log, ram.next, ram.boot).log = ram.log
        /\ Taken(ram.log, ram.next, ram.boot).seq = ram.next
    BY DEF Taken
  <2> QED  BY <1>2, <2>1, <2>2
<1>5. ASSUME HostP!Accounted(File, ram.log, ram.next) PROVE FALSE
  <2>1. PICK i \in DOMAIN File : File[i].log = ram.log /\ ram.next <= File[i].seq
    BY <1>1, <1>2, <1>5, HostP!AccountedIs DEF File
  <2>2. File[i].seq < ram.next /\ File[i].seq \in Nat
    BY <1>1, <1>2, <2>1, LineParts DEF EndInv, PathInv, LineTrue, Spent
  <2> QED  BY <1>2, <2>1, <2>2
<1> QED  BY <1>1, <1>3, <1>4, <1>5

\* What is accounted for, of the readings taken.
LEMMA AccountedReadingsAre ==
  AccountedReadings = {r \in taken : HostP!Accounted(File, r.log, r.seq)}
BY SameStore, SameAccount DEF AccountedReadings, File

\* Every step is one of the promise, or none.
LEMMA StepOfPromise ==
  ASSUME EndInv, EndInv', MaxLogs <= 1, [Next]_vars
  PROVE  [Promise!Next]_Promise!vars
<1>0. /\ drawn <= 1 /\ drawn' <= 1
      /\ AccountedReadings = {r \in taken : HostP!Accounted(File, r.log, r.seq)}
      /\ AccountedReadings' = {r \in taken' : HostP!Accounted(File', r.log, r.seq)}
  <2>1. drawn \in 0..MaxLogs /\ drawn' \in 0..MaxLogs /\ MaxLogs \in Nat
    BY LimitsAssumption DEF EndInv, LogInv
  <2>2. /\ Host!OnFile = HostP!OnFile
        /\ \A j, l, s : Host!Accounted(j, l, s) <=> HostP!Accounted(j, l, s)
    BY SameStore, SameAccount
  <2>3. Host!OnFile' = HostP!OnFile'
    BY DEF Host!OnFile, HostP!OnFile, Host!IsRecord, HostP!IsRecord
  <2> QED  BY <2>1, <2>2, <2>3 DEF AccountedReadings, File
\* The file does not change, nor what was taken: the node may ask for less, or more.
<1>r. ASSUME taken' = taken, File' = File PROVE [Promise!Next]_Promise!vars
  <2>1. AccountedReadings' = AccountedReadings
    BY <1>0, <1>r
  <2>2. ReleasedReadings' \subseteq AccountedReadings'
    <3>1. ASSUME NEW r \in taken', r.log = CurrentLog', r.seq <= ReleasedThrough'
          PROVE  HostP!Accounted(File', r.log, r.seq)
      <4>1. r.log \in 1..drawn' /\ r.seq \in 1..MaxU32 /\ drawn' \in Nat /\ MaxU32 \in Nat
        BY LimitsAssumption DEF EndInv, LogInv, NodeIInv, NodeTypeOK
      <4>2. AccountedTo(ReleasedThrough)' /\ ReleasedThrough' \in Nat
        BY <1>0, LimitsAssumption DEF EndInv, AckInv, ReleasedThrough, NodeIInv, NodeTypeOK
      <4> QED  BY <1>0, <3>1, <4>1, <4>2 DEF AccountedTo
    <3> QED  BY <1>0, <3>1 DEF ReleasedReadings
  <2> QED  BY <1>r, <2>1, <2>2 DEF Promise!Next, Promise!Release
\* The file grows: the bridge accounts for more.
<1>a. ASSUME UNCHANGED <<nodeVars, taken>>,
             \A l : \A s \in Nat \ {0} : HostP!Accounted(File, l, s) => HostP!Accounted(File', l, s)
      PROVE  [Promise!Next]_Promise!vars
  <2>1. taken' = taken /\ ReleasedReadings' = ReleasedReadings
    BY <1>a DEF nodeVars, ReleasedReadings, CurrentLog, ReleasedThrough
  <2>2. \A r \in taken : r.seq \in Nat \ {0}
    BY LimitsAssumption DEF EndInv, LogInv
  <2>3. AccountedReadings \subseteq AccountedReadings' /\ AccountedReadings' \subseteq taken
    BY <1>0, <1>a, <2>1, <2>2
  <2> QED  BY <2>1, <2>3 DEF Promise!Next, Promise!Account
<1>1. CASE NodeSamples
  <2> DEFINE r == Taken(ram.log, ram.next, ram.boot)
  <2>1. /\ taken' = taken \union {r} /\ r \in Reading \ taken
        /\ ~HostP!Accounted(File, r.log, r.seq) /\ r.seq = ram.next
    BY <1>1, NextIsNew DEF Taken
  <2> HIDE DEF r
  <2>2. File' = File
    BY <1>1, StoreStays DEF NodeSamples, EndInv
  <2>3. AccountedReadings' = AccountedReadings
    BY <1>0, <2>1, <2>2
  <2>4. /\ up /\ up' = up /\ nvs' = nvs /\ ram' = Reserve(ram) /\ ram.next \in Nat
        /\ ram \in [next : 1..MaxU32, oldest : 1..MaxU32, acked : Nat, boot : Nat, log : Nat]
        /\ ram.acked < ram.next
    BY <1>1 DEF NodeSamples, TakeSample, EndInv, NodeIInv, NodeTypeOK, WindowInv
  <2>5. ram'.log = ram.log /\ ram'.acked = ram.acked
    BY <2>4 DEF Reserve
  <2>6. CurrentLog' = CurrentLog /\ ReleasedThrough' = ReleasedThrough /\ ReleasedThrough < r.seq
    BY <2>1, <2>4, <2>5 DEF CurrentLog, ReleasedThrough
  <2>7. ReleasedThrough \in Nat /\ r.seq \in Nat
    BY <2>1, <2>4 DEF ReleasedThrough
  <2>8. ReleasedReadings' = ReleasedReadings
    BY <2>1, <2>6, <2>7 DEF ReleasedReadings
  <2> QED  BY <2>1, <2>3, <2>8 DEF Promise!Next, Promise!Take
<1>2. CASE NodeGetsAck \/ NodePower \/ NodeBoots \/ SendBatch \/ LoseBatch \/ LoseAck \/ UNCHANGED vars
  <2>1. taken' = taken /\ UNCHANGED hostVars
    BY <1>2 DEF NodeGetsAck, NodePower, NodeBoots, SendBatch, LoseBatch, LoseAck, vars
  <2>2. File' = File
    BY <2>1, StoreStays DEF EndInv
  <2> QED  BY <1>r, <2>1, <2>2
<1>3. CASE BridgeIngests
  <2>1. PICK b \in toHost : HostP!Ingest(b)
    BY <1>3, SameIngest DEF BridgeIngests
  <2>2. UNCHANGED <<nodeVars, taken>>
    BY <1>3 DEF BridgeIngests
  <2> QED  BY <1>a, <2>1, <2>2, BatchKeeps
<1>4. CASE BridgeCrashes
  <2>1. UNCHANGED <<nodeVars, taken>>
    BY <1>4 DEF BridgeCrashes
  <2>2. CASE HostP!Crash
    BY <1>r, <2>1, <2>2, SameStore, HostP!RestartOnFile DEF File
  <2>3. ASSUME NEW b \in toHost, HostP!CrashInIngest(b) PROVE [Promise!Next]_Promise!vars
    BY <1>a, <2>1, <2>3, BatchKeeps
  <2> QED  BY <1>4, <2>2, <2>3, SameStore, SameIngest DEF BridgeCrashes
<1>5. CASE BridgeOpens
  BY <1>5, <1>r, SameStore, HostP!RestartOnFile DEF BridgeOpens, File
<1> QED  BY <1>1, <1>2, <1>3, <1>4, <1>5 DEF Next

\* The node, the path and the bridge implement StoreAndForward, as long as the
\* partition is not wiped, that is, with one log.
THEOREM PromiseIsKept ==
  ASSUME "log_id" \notin NvsFaults, MaxLogs <= 1
  PROVE  Spec => ImplementsPromise
<1>1. Init => Promise!Init
  BY DEF Init, Promise!Init, AccountedReadings, ReleasedReadings
<1>2. EndInv /\ EndInv' /\ [Next]_vars => [Promise!Next]_Promise!vars
  BY StepOfPromise
<1>3. Spec => []EndInv
  BY EndToEndInvariant
<1> QED  BY <1>1, <1>2, <1>3, PTL DEF Spec, ImplementsPromise, Promise!Spec

=============================================================================
