------------------------- MODULE TempLogBridgeProofs -------------------------
(***************************************************************************)
(* Theorems about TempLogBridge, for any logs, values, sizes of batches and  *)
(* bodies, length of the journal and POSTs under way; and about TempLogSim,   *)
(* for any ring, boots, delay and losses.                                    *)
(***************************************************************************)
EXTENDS TempLogBridge, TempLogSim, TempLogStoreProofs

-----------------------------------------------------------------------------
(* The bridge is a store *)

\* What a damaged line, or one of another node, gives is never ingested.
LEMMA TakenIsOffered ==
  ASSUME NEW line \in Lines, IsTaken(line)
  PROVE  line.batch \in Offered
<1>1. line.flaw \notin {"cutShort", "damagedText"}
  BY DEF IsTaken, ClassifyLine, CheckTlFrame
<1>2. line.flaw # "notABatch" /\ line.flaw # "foreignOwner" /\ line.flaw # "damagedCell"
  BY DEF IsTaken, ParseCell
<1>3. line.flaw # "shortPayload"
  BY DEF IsTaken, DecodesBatch
<1>4. CASE line \in [flaw : {"none", "logBefore"}, batch : OfferedBatches]
  BY <1>4 DEF OfferedBatches, Offered
<1>5. CASE line \notin [flaw : {"none", "logBefore"}, batch : OfferedBatches]
  <2>1. line.flaw \in Flaws \ {"none", "logBefore"}
    BY <1>5 DEF Lines
  <2> QED  BY <2>1, <1>1, <1>2, <1>3 DEF Flaws
<1> QED  BY <1>4, <1>5

LEMMA BridgeStepStores ==
  ASSUME [BridgeNext]_bridgeVars
  PROVE  [StoreNext]_storeVars
<1>1. CASE Starts
  BY <1>1 DEF Starts, StoreNext
<1>2. CASE Dies
  <2>1. CASE Crash
    BY <2>1 DEF StoreNext
  <2>2. ASSUME NEW line \in Lines, IsTaken(line), CrashInIngest(line.batch) PROVE StoreNext
    BY <2>2, TakenIsOffered DEF StoreNext, Offered
  <2> QED  BY <1>2, <2>1, <2>2 DEF Dies
<1>3. ASSUME NEW line \in Lines, HandleLine(line) PROVE StoreNext
  <2>1. IsTaken(line) /\ Ingest(line.batch)
    BY <1>3 DEF HandleLine
  <2> QED  BY <2>1, TakenIsOffered DEF StoreNext, Offered
<1>4. CASE PortCloses \/ PortReopens
  BY <1>4 DEF PortCloses, PortReopens
<1>5. ASSUME NEW body \in inflight, PostEnds(body) PROVE UNCHANGED storeVars
  BY <1>5 DEF PostEnds
<1>6. CASE ReplayStarts
  BY <1>6 DEF ReplayStarts
<1>7. ASSUME NEW body \in replay.left, NEW fails \in BOOLEAN, ReplayPosts(body, fails)
      PROVE  UNCHANGED storeVars
  BY <1>7 DEF ReplayPosts
<1>8. CASE UNCHANGED bridgeVars
  BY <1>8 DEF bridgeVars
<1> QED  BY <1>1, <1>2, <1>3, <1>4, <1>5, <1>6, <1>7, <1>8 DEF BridgeNext

\* Every run of the bridge is one of its store, so what is proved of the store
\* holds behind the port, the POSTs and the replays (bridge.ts, replay.ts).
THEOREM BridgeIsAStore == BridgeSpec => StoreSpec
<1>1. BridgeInit => StoreInit
  BY DEF BridgeInit
<1>2. [BridgeNext]_bridgeVars => [StoreNext]_storeVars
  BY BridgeStepStores
<1> QED  BY <1>1, <1>2, PTL DEF BridgeSpec, StoreSpec

-----------------------------------------------------------------------------
(* The server and the file *)

\* Journal j gives seq s of log l the value v.
Holds(j, l, s, v) == \E i \in Of(j, "sample", l) : j[i].seq = s /\ j[i].value = v

WithinFile(j, body) ==
  /\ body.log \in Logs /\ body.lost \in Nat
  /\ \A s \in DOMAIN body.samples : Holds(j, body.log, s, body.samples[s])

\* S is what the server holds, log by log.
ServerWithin(j, S) ==
  /\ DOMAIN S = Logs
  /\ \A l \in Logs : S[l].lost \in Nat
  /\ \A l \in Logs : \A s \in DOMAIN S[l].samples : Holds(j, l, s, S[l].samples[s])

LEMMA HoldsOn ==
  ASSUME NEW j \in Seq(Record), NEW d \in Seq(Record), NEW l, NEW s, NEW v, Holds(j, l, s, v)
  PROVE  Holds(j \o d, l, s, v)
<1>1. \A i \in DOMAIN j : i \in DOMAIN (j \o d) /\ (j \o d)[i] = j[i]
  BY OfExtended
<1> QED  BY <1>1 DEF Holds, Of

LEMMA WithinOn ==
  ASSUME NEW j \in Seq(Record), NEW d \in Seq(Record)
  PROVE  /\ \A body : WithinFile(j, body) => WithinFile(j \o d, body)
         /\ \A S : ServerWithin(j, S) => ServerWithin(j \o d, S)
BY HoldsOn DEF WithinFile, ServerWithin

\* What the server holds after it took a body.
LEMMA ServedIs ==
  ASSUME DOMAIN server = Logs, NEW body, body.log \in Logs, body.lost \in Nat,
         \A l \in Logs : server[l].lost \in Nat
  PROVE  LET T == Served(body) IN
         /\ DOMAIN T = Logs
         /\ \A l \in Logs \ {body.log} : T[l] = server[l]
         /\ T[body.log].lost \in Nat
         /\ T[body.log].lost >= server[body.log].lost /\ T[body.log].lost >= body.lost
         /\ DOMAIN T[body.log].samples = DOMAIN server[body.log].samples \cup DOMAIN body.samples
         /\ \A s \in DOMAIN T[body.log].samples :
              T[body.log].samples[s] =
                IF s \in DOMAIN server[body.log].samples THEN server[body.log].samples[s] ELSE body.samples[s]
<1>m. PICK m : m = Max({server[body.log].lost, body.lost})
  OBVIOUS
<1>f. PICK f : f = [s \in DOMAIN server[body.log].samples \cup DOMAIN body.samples |->
                     IF s \in DOMAIN server[body.log].samples THEN server[body.log].samples[s]
                     ELSE body.samples[s]]
  OBVIOUS
<1>r. PICK r : r = [lost |-> m, samples |-> f]
  OBVIOUS
<1>1. Served(body) = [server EXCEPT ![body.log] = r]
  BY <1>m, <1>f, <1>r DEF Served
<1>2. m \in Nat /\ m >= server[body.log].lost /\ m >= body.lost
  BY <1>m, Max2
<1>3. r.lost = m /\ r.samples = f
  BY <1>r
<1>T. PICK T : T = Served(body)
  OBVIOUS
<1>4. DOMAIN T = Logs /\ T[body.log] = r /\ \A l \in Logs \ {body.log} : T[l] = server[l]
  BY <1>1, <1>T
<1> QED  BY <1>f, <1>2, <1>3, <1>4, <1>T

LEMMA ServedWithin ==
  ASSUME NEW j, ServerWithin(j, server), NEW body, WithinFile(j, body)
  PROVE  ServerWithin(j, Served(body))
<1>1. /\ DOMAIN server = Logs /\ body.log \in Logs /\ body.lost \in Nat
      /\ \A l \in Logs : server[l].lost \in Nat
  BY DEF ServerWithin, WithinFile
<1>T. PICK T : T = Served(body)
  OBVIOUS
<1>2. /\ DOMAIN T = Logs
      /\ \A l \in Logs \ {body.log} : T[l] = server[l]
      /\ T[body.log].lost \in Nat
      /\ DOMAIN T[body.log].samples = DOMAIN server[body.log].samples \cup DOMAIN body.samples
      /\ \A s \in DOMAIN T[body.log].samples :
           T[body.log].samples[s] =
             IF s \in DOMAIN server[body.log].samples THEN server[body.log].samples[s] ELSE body.samples[s]
  BY <1>1, <1>T, ServedIs
<1>3. ASSUME NEW l \in Logs, NEW s \in DOMAIN T[l].samples PROVE Holds(j, l, s, T[l].samples[s])
  <2>1. CASE l # body.log
    BY <2>1, <1>2 DEF ServerWithin
  <2>2. CASE l = body.log /\ s \in DOMAIN server[body.log].samples
    BY <2>2, <1>1, <1>2 DEF ServerWithin
  <2>3. CASE l = body.log /\ s \notin DOMAIN server[body.log].samples
    BY <2>3, <1>2 DEF WithinFile
  <2> QED  BY <2>1, <2>2, <2>3
<1>4. \A l \in Logs : T[l].lost \in Nat
  BY <1>1, <1>2
<1> QED  BY <1>T, <1>2, <1>3, <1>4 DEF ServerWithin

-----------------------------------------------------------------------------
(* Replays *)

LEMMA ProductGrows ==
  ASSUME NEW m \in Nat, NEW a \in Nat, NEW b \in Nat, a < b
  PROVE  m * a + m <= m * b
<1>1. PICK c \in Nat : b = a + 1 + c
  <2>1. b - a - 1 \in Nat /\ b = a + 1 + (b - a - 1)
    OBVIOUS
  <2> QED  BY <2>1
<1>2. m * b = m * a + m + m * c
  BY <1>1
<1>3. m * c \in Nat
  OBVIOUS
<1> QED  BY <1>2, <1>3

\* Where the i-th sample lies.
LEMMA ChunkOf ==
  ASSUME NEW m \in Nat \ {0}, NEW n \in Nat, NEW i \in 1..n
  PROVE  /\ (i - 1) \div m \in 0..((n - 1) \div m)
         /\ m * ((i - 1) \div m) + 1 <= i
         /\ i <= m * ((i - 1) \div m + 1)
<1> DEFINE k == (i - 1) \div m
           h == (n - 1) \div m
<1>0. m \in Nat /\ m > 0 /\ i - 1 \in Nat /\ n - 1 \in Nat /\ i - 1 <= n - 1
  OBVIOUS
<1>1. \A a \in Nat : a \div m \in Nat /\ m * (a \div m) <= a /\ a < m * (a \div m) + m
  <2> SUFFICES ASSUME NEW a \in Nat
               PROVE  a \div m \in Nat /\ m * (a \div m) <= a /\ a < m * (a \div m) + m
    OBVIOUS
  <2> QED  BY <1>0
<1>2. k \in Nat /\ m * k <= i - 1 /\ i - 1 < m * k + m
  BY <1>0, <1>1
<1>3. h \in Nat /\ m * h <= n - 1 /\ n - 1 < m * h + m
  BY <1>0, <1>1
<1> HIDE DEF k, h
<1>4. ~(h < k)
  <2>1. m * h \in Nat /\ m * k \in Nat
    BY <1>0, <1>2, <1>3
  <2>2. h < k => m * h + m <= m * k
    BY <1>0, <1>2, <1>3, ProductGrows
  <2> QED  BY <2>1, <2>2, <1>0, <1>2, <1>3
<1>5. m * (k + 1) = m * k + m /\ m * k \in Nat
  BY <1>0, <1>2
<1>6. k \in 0..h /\ m * k + 1 <= i /\ i <= m * (k + 1)
  BY <1>0, <1>2, <1>3, <1>4, <1>5
<1> QED  BY <1>6 DEF k, h

\* The bodies of a log hold its samples, all of them and no other.
LEMMA ChunksAre ==
  ASSUME MaxBody \in Nat \ {0}, NEW S, NEW n \in Nat, NEW q \in [1..n -> S]
  PROVE  /\ \A c \in Chunks(q) : Range(c) \subseteq S
         /\ \A i \in 1..n : \E c \in Chunks(q) : q[i] \in Range(c)
<1>1. q \in Seq(S) /\ Len(q) = n
  OBVIOUS
<1>m. \A a \in Nat : Min({a, n}) \in Nat /\ Min({a, n}) <= n /\ Min({a, n}) <= a /\ Min({a, n}) \in {a, n}
  BY MinIs
<1>2. ASSUME NEW k \in Nat
      PROVE  LET c == SubSeq(q, MaxBody * k + 1, Min({MaxBody * (k + 1), n})) IN
             /\ Range(c) \subseteq S
             /\ \A i \in 1..n : MaxBody * k + 1 <= i /\ i <= MaxBody * (k + 1) => q[i] \in Range(c)
  <2>a. PICK a \in Nat : a = MaxBody * k
    OBVIOUS
  <2>b. PICK b \in Nat : b = MaxBody * (k + 1)
    OBVIOUS
  <2>u. PICK u \in Nat : u = Min({b, n}) /\ u <= n /\ u <= b /\ u \in {b, n}
    BY <1>m
  <2>c. PICK c : c = SubSeq(q, a + 1, u)
    OBVIOUS
  <2>1. /\ DOMAIN c = 1..(IF a + 1 <= u THEN u - a ELSE 0)
        /\ \A x \in DOMAIN c : c[x] = q[a + x] /\ a + x \in 1..n
    <3>1. /\ Len(c) = IF a + 1 <= u THEN u - (a + 1) + 1 ELSE 0
          /\ \A x \in 1..(u - (a + 1) + 1) : c[x] = q[a + 1 + x - 1]
          /\ DOMAIN c = 1..Len(c)
      BY <1>1, <2>c, <2>u
    <3>2. Len(c) = IF a + 1 <= u THEN u - a ELSE 0
      BY <3>1
    <3>3. ASSUME NEW x \in DOMAIN c PROVE c[x] = q[a + x] /\ a + x \in 1..n
      <4>1. a + 1 <= u /\ x \in 1..(u - a) /\ x \in Nat
        BY <3>1, <3>2
      <4>2. x \in 1..(u - (a + 1) + 1) /\ a + 1 + x - 1 = a + x
        BY <4>1
      <4>3. c[x] = q[a + 1 + x - 1]
        BY <4>2, <3>1
      <4>4. c[x] = q[a + x]
        BY <4>2, <4>3
      <4>5. a + x \in 1..n
        BY <4>1, <2>u
      <4> QED  BY <4>4, <4>5
    <3> QED  BY <3>1, <3>2, <3>3
  <2>2. Range(c) \subseteq S
    BY <2>1 DEF Range
  <2>3. ASSUME NEW i \in 1..n, a + 1 <= i, i <= b PROVE q[i] \in Range(c)
    <3>1. i - a \in DOMAIN c /\ a + (i - a) = i
      BY <2>1, <2>3, <2>u
    <3>2. c[i - a] = q[i]
      BY <3>1, <2>1
    <3> QED  BY <3>1, <3>2 DEF Range
  <2> QED  BY <2>a, <2>b, <2>u, <2>c, <2>2, <2>3
<1>3. ASSUME NEW c \in Chunks(q) PROVE Range(c) \subseteq S
  <2>1. PICK k \in 0..((Len(q) - 1) \div MaxBody) :
          c = SubSeq(q, MaxBody * k + 1, Min({MaxBody * (k + 1), Len(q)}))
    BY DEF Chunks
  <2>2. c = SubSeq(q, MaxBody * k + 1, Min({MaxBody * (k + 1), n})) /\ k \in Nat
    BY <2>1, <1>1
  <2> QED  BY <2>2, <1>2
<1>4. ASSUME NEW i \in 1..n PROVE \E c \in Chunks(q) : q[i] \in Range(c)
  <2>k. PICK k : k = (i - 1) \div MaxBody
    OBVIOUS
  <2>1. k \in 0..((n - 1) \div MaxBody) /\ MaxBody * k + 1 <= i /\ i <= MaxBody * (k + 1) /\ k \in Nat
    BY <2>k, ChunkOf
  <2>c. PICK c : c = SubSeq(q, MaxBody * k + 1, Min({MaxBody * (k + 1), n}))
    OBVIOUS
  <2>2. q[i] \in Range(c)
    BY <2>1, <2>c, <1>2
  <2>3. c # <<>>
    BY <2>2 DEF Range
  <2>4. c \in Chunks(q)
    BY <2>1, <2>3, <2>c, <1>1 DEF Chunks
  <2> QED  BY <2>2, <2>4
<1> QED  BY <1>3, <1>4

\* A replayed body is of one log, carries its loss, and holds what the file does.
LEMMA ReplayedIs ==
  ASSUME StoreAssumption, BridgeAssumption, NEW j \in Seq(Record)
  PROVE  /\ \A body \in ReplayBodies(j) : WithinFile(j, body) /\ body.lost = LossMax(j, body.log)
         /\ \A l \in Logs : \A s \in SeqsOf(j, "sample", l) :
              \E body \in ReplayBodies(j) : body.log = l /\ s \in DOMAIN body.samples
<1>0. MaxSeq \in Nat /\ MaxBody \in Nat \ {0}
  BY DEF StoreAssumption, BridgeAssumption
<1> DEFINE held(l) == OnFileSamples(j, l)
           bodies(l) == {[log |-> l, lost |-> LossMax(j, l), samples |-> [s \in Range(c) |-> held(l)[s]]] :
                           c \in Chunks(InOrder(DOMAIN held(l)))}
<1>1. ReplayBodies(j) = UNION {bodies(l) : l \in LogsOn(j)}
  BY DEF ReplayBodies, LogsOn
<1>2. ASSUME NEW l, NEW s \in SeqsOf(j, "sample", l) PROVE Holds(j, l, s, held(l)[s])
  <2>1. PICK I : I = {i \in Of(j, "sample", l) : j[i].seq = s}
    OBVIOUS
  <2>2. I # {} /\ I \subseteq 1..Len(j) /\ Len(j) \in Nat
    BY <2>1 DEF SeqsOf, Of
  <2>3. Max(I) \in I
    <3>1. I \in SUBSET (0..Len(j))
      BY <2>2
    <3> QED  BY <2>2, <3>1, MaxIs
  <2>4. held(l)[s] = j[Max(I)].value
    BY <2>1 DEF OnFileSamples
  <2> QED  BY <2>1, <2>3, <2>4 DEF Holds
<1>3. ASSUME NEW l
      PROVE  LET q == InOrder(DOMAIN held(l)) IN
             /\ \A c \in Chunks(q) : Range(c) \subseteq SeqsOf(j, "sample", l)
             /\ \A s \in SeqsOf(j, "sample", l) : \E c \in Chunks(q) : s \in Range(c)
  <2>S. PICK S : S = SeqsOf(j, "sample", l)
    OBVIOUS
  <2>1. DOMAIN held(l) = S
    BY <2>S DEF OnFileSamples
  <2>2. S \in SUBSET (0..MaxSeq)
    BY <2>S, SeqsOfIs
  <2>q. PICK q : q = InOrder(S)
    OBVIOUS
  <2>n. PICK n : n = Cardinality(S)
    OBVIOUS
  <2>3. /\ n \in Nat /\ q \in [1..n -> S]
        /\ \A s \in S : \E i \in 1..n : q[i] = s
    BY <1>0, <2>2, <2>q, <2>n, InOrderIs
  <2>4. /\ \A c \in Chunks(q) : Range(c) \subseteq S
        /\ \A i \in 1..n : \E c \in Chunks(q) : q[i] \in Range(c)
    <3> HIDE DEF held, bodies
    <3>1. MaxBody \in Nat \ {0} /\ n \in Nat /\ q \in [1..n -> S]
      BY <1>0, <2>3
    <3>2. \A c \in Chunks(q) : Range(c) \subseteq S
      BY <3>1, ChunksAre, Zenon
    <3>3. \A i \in 1..n : \E c \in Chunks(q) : q[i] \in Range(c)
      BY <3>1, ChunksAre, Z3T(20)
    <3> QED  BY <3>2, <3>3
  <2>5. \A s \in S : \E c \in Chunks(q) : s \in Range(c)
    BY <2>3, <2>4
  <2> QED  BY <2>1, <2>4, <2>5, <2>q, <2>S
<1> HIDE DEF held
<1>4. ASSUME NEW body \in ReplayBodies(j)
      PROVE  WithinFile(j, body) /\ body.lost = LossMax(j, body.log)
  <2>1. PICK l \in LogsOn(j) : body \in bodies(l)
    BY <1>1
  <2>2. PICK c \in Chunks(InOrder(DOMAIN held(l))) :
          body = [log |-> l, lost |-> LossMax(j, l), samples |-> [s \in Range(c) |-> held(l)[s]]]
    BY <2>1
  <2>3. /\ body.log = l /\ body.lost = LossMax(j, l) /\ DOMAIN body.samples = Range(c)
        /\ \A s \in Range(c) : body.samples[s] = held(l)[s]
    BY <2>2
  <2>4. LossMax(j, l) \in Nat
    BY <1>0, LossMaxIs
  <2>5. l \in Logs
    BY RecordIs DEF LogsOn
  <2>6. Range(c) \subseteq SeqsOf(j, "sample", l)
    BY <1>3
  <2>7. \A s \in DOMAIN body.samples : Holds(j, body.log, s, body.samples[s])
    BY <2>3, <2>6, <1>2
  <2> QED  BY <2>3, <2>4, <2>5, <2>7 DEF WithinFile
<1>5. ASSUME NEW l \in Logs, NEW s \in SeqsOf(j, "sample", l)
      PROVE  \E body \in ReplayBodies(j) : body.log = l /\ s \in DOMAIN body.samples
  <2>1. l \in LogsOn(j)
    BY DEF SeqsOf, Of, LogsOn
  <2>2. PICK c \in Chunks(InOrder(DOMAIN held(l))) : s \in Range(c)
    BY <1>3
  <2>b. PICK body : body = [log |-> l, lost |-> LossMax(j, l), samples |-> [x \in Range(c) |-> held(l)[x]]]
    OBVIOUS
  <2>3. body.log = l /\ DOMAIN body.samples = Range(c)
    BY <2>b
  <2>4. body \in bodies(l)
    BY <2>b
  <2> QED  BY <1>1, <2>1, <2>2, <2>3, <2>4
<1> QED  BY <1>4, <1>5

\* Sample s of log l, read from the file f, has come to the server, or is in a
\* body that is still to go.
Arrived(f, l, s, S) == s \in DOMAIN S[l].samples /\ S[l].lost >= LossMax(f, l)
Filled(f, left, S) ==
  \A l \in Logs : \A s \in SeqsOf(f, "sample", l) :
    \/ Arrived(f, l, s, S)
    \/ \E body \in left : body.log = l /\ s \in DOMAIN body.samples

ReplayInv ==
  /\ replay.file \in Seq(Record)
  /\ ~replay.failed =>
       /\ \A body \in replay.left : body.lost = LossMax(replay.file, body.log)
       /\ Filled(replay.file, replay.left, server)

BodiesWithin == \A body \in inflight \cup replay.left : WithinFile(OnFile, body)

BridgeInv == StoreInv /\ ServerWithin(OnFile, server) /\ BodiesWithin /\ ReplayInv

\* The server's hold and the replays, where neither they nor the server change.
LEMMA FileStepKeeps ==
  ASSUME StoreAssumption, BridgeInv, [StoreNext]_storeVars, server' = server, replay' = replay,
         \A body \in inflight' : body \in inflight \/ WithinFile(OnFile', body)
  PROVE  ServerWithin(OnFile, server)' /\ BodiesWithin' /\ ReplayInv'
<1>1. PICK d \in Seq(Record) : OnFile' = OnFile \o d
  BY FileGrows DEF BridgeInv
<1>2. OnFile \in Seq(Record)
  BY DEF BridgeInv, StoreInv, Sound
<1>j. PICK j \in Seq(Record) : j = OnFile
  BY <1>2
<1>e. PICK e : e = j \o d
  OBVIOUS
<1>3. \A body : WithinFile(j, body) => WithinFile(e, body)
  BY <1>e, WithinOn
<1>4. \A S : ServerWithin(j, S) => ServerWithin(e, S)
  BY <1>e, WithinOn
<1>5. OnFile' = e
  BY <1>1, <1>j, <1>e
<1>6. ServerWithin(e, server)
  BY <1>4, <1>j DEF BridgeInv
<1>7. \A body \in inflight' \cup replay.left : WithinFile(e, body)
  BY <1>3, <1>5, <1>j DEF BridgeInv, BodiesWithin
<1>8. ReplayInv'
  BY DEF BridgeInv, ReplayInv
<1> QED  BY <1>5, <1>6, <1>7, <1>8 DEF BodiesWithin

LEMMA FilledOn ==
  ASSUME NEW f, NEW left, NEW S, NEW T, Filled(f, left, S),
         \A l \in Logs : DOMAIN S[l].samples \subseteq DOMAIN T[l].samples,
         \A l \in Logs : S[l].lost \in Nat /\ T[l].lost \in Nat /\ S[l].lost <= T[l].lost,
         \A l \in Logs : LossMax(f, l) \in Nat,
         NEW now,
         \A body \in left \ now : body.log \in Logs =>
           DOMAIN body.samples \subseteq DOMAIN T[body.log].samples /\ T[body.log].lost >= LossMax(f, body.log)
  PROVE  Filled(f, now, T)
<1> SUFFICES ASSUME NEW l \in Logs, NEW s \in SeqsOf(f, "sample", l)
             PROVE  Arrived(f, l, s, T) \/ \E body \in now : body.log = l /\ s \in DOMAIN body.samples
  BY DEF Filled
<1>1. CASE Arrived(f, l, s, S)
  BY <1>1 DEF Arrived
<1>2. ASSUME NEW body \in left, body.log = l, s \in DOMAIN body.samples
      PROVE  Arrived(f, l, s, T) \/ \E x \in now : x.log = l /\ s \in DOMAIN x.samples
  BY <1>2 DEF Arrived
<1> QED  BY <1>1, <1>2 DEF Filled

LEMMA ServedGrows ==
  ASSUME NEW j, ServerWithin(j, server), NEW body, WithinFile(j, body)
  PROVE  LET T == Served(body) IN
         /\ \A l \in Logs : DOMAIN server[l].samples \subseteq DOMAIN T[l].samples
         /\ \A l \in Logs : server[l].lost \in Nat /\ T[l].lost \in Nat /\ server[l].lost <= T[l].lost
         /\ DOMAIN body.samples \subseteq DOMAIN T[body.log].samples /\ T[body.log].lost >= body.lost
<1>1. /\ DOMAIN server = Logs /\ body.log \in Logs /\ body.lost \in Nat
      /\ \A l \in Logs : server[l].lost \in Nat
  BY DEF ServerWithin, WithinFile
<1>T. PICK T : T = Served(body)
  OBVIOUS
<1>2. /\ \A l \in Logs \ {body.log} : T[l] = server[l]
      /\ T[body.log].lost \in Nat
      /\ T[body.log].lost >= server[body.log].lost /\ T[body.log].lost >= body.lost
      /\ DOMAIN T[body.log].samples = DOMAIN server[body.log].samples \cup DOMAIN body.samples
  BY <1>1, <1>T, ServedIs
<1>3. ASSUME NEW l \in Logs
      PROVE  /\ DOMAIN server[l].samples \subseteq DOMAIN T[l].samples
             /\ server[l].lost \in Nat /\ T[l].lost \in Nat /\ server[l].lost <= T[l].lost
  <2>1. CASE l = body.log
    BY <2>1, <1>1, <1>2
  <2>2. CASE l # body.log
    <3>1. T[l] = server[l] /\ server[l].lost \in Nat
      BY <2>2, <1>1, <1>2
    <3> QED  BY <3>1
  <2> QED  BY <2>1, <2>2
<1> QED  BY <1>2, <1>3, <1>T

LEMMA PostKeeps ==
  ASSUME StoreAssumption, BridgeInv, NEW body \in inflight, PostEnds(body)
  PROVE  BridgeInv'
<1>j. PICK j : j = OnFile
  OBVIOUS
<1>1. /\ inflight' = inflight \ {body} /\ server' \in {server, Served(body)}
      /\ replay' = replay /\ UNCHANGED storeVars
  BY DEF PostEnds
<1>2. StoreInv' /\ OnFile' = j
  <2>1. lines' = lines /\ tail' = tail
    BY <1>1 DEF storeVars
  <2> QED  BY <1>1, <1>j, <2>1, StutterKeeps DEF BridgeInv, OnFile
<1>3. ServerWithin(j, server) /\ WithinFile(j, body) /\ ReplayInv
  BY <1>j DEF BridgeInv, BodiesWithin
<1>4. ServerWithin(j, server')
  BY <1>1, <1>3, ServedWithin
<1>5. BodiesWithin'
  BY <1>1, <1>2, <1>j DEF BridgeInv, BodiesWithin
<1>6. ASSUME ~replay.failed PROVE Filled(replay.file, replay.left, server')
  <2>1. Filled(replay.file, replay.left, server) /\ replay.file \in Seq(Record)
    BY <1>6, <1>3 DEF ReplayInv
  <2>2. \A l \in Logs : LossMax(replay.file, l) \in Nat
    BY <2>1, LossMaxIs DEF StoreAssumption
  <2>3. CASE server' = Served(body)
    <3>T. PICK T : T = Served(body)
      OBVIOUS
    <3>1. /\ \A l \in Logs : DOMAIN server[l].samples \subseteq DOMAIN T[l].samples
          /\ \A l \in Logs : server[l].lost \in Nat /\ T[l].lost \in Nat /\ server[l].lost <= T[l].lost
      BY <1>3, <3>T, ServedGrows
    <3>2. Filled(replay.file, replay.left, T)
      BY <2>1, <2>2, <3>1, FilledOn
    <3> QED  BY <2>3, <3>2, <3>T
  <2> QED  BY <1>1, <2>1, <2>3
<1>7. ReplayInv'
  BY <1>1, <1>3, <1>6 DEF ReplayInv
<1> QED  BY <1>2, <1>4, <1>5, <1>7 DEF BridgeInv

LEMMA ReplayStartKeeps ==
  ASSUME StoreAssumption, BridgeAssumption, BridgeInv, ReplayStarts
  PROVE  BridgeInv'
<1>j. PICK j : j = OnFile
  OBVIOUS
<1>1. /\ replay' = [left |-> ReplayBodies(j), failed |-> FALSE, file |-> j]
      /\ inflight' = inflight /\ server' = server /\ UNCHANGED storeVars
  BY <1>j DEF ReplayStarts
<1>r. replay'.left = ReplayBodies(j) /\ replay'.file = j
  BY <1>1
<1>2. StoreInv' /\ OnFile' = j
  <2>1. lines' = lines /\ tail' = tail
    BY <1>1 DEF storeVars
  <2> QED  BY <1>1, <1>j, <2>1, StutterKeeps DEF BridgeInv, OnFile
<1>3. ServerWithin(j, server) /\ j \in Seq(Record)
  BY <1>j DEF BridgeInv, StoreInv, Sound
<1>4. /\ \A body \in ReplayBodies(j) : WithinFile(j, body) /\ body.lost = LossMax(j, body.log)
      /\ \A l \in Logs : \A s \in SeqsOf(j, "sample", l) :
           \E body \in ReplayBodies(j) : body.log = l /\ s \in DOMAIN body.samples
  BY <1>3, ReplayedIs
<1>5. BodiesWithin'
  BY <1>1, <1>r, <1>2, <1>4, <1>j DEF BridgeInv, BodiesWithin
<1>6. Filled(j, ReplayBodies(j), server')
  BY <1>4 DEF Filled
<1>7. ReplayInv'
  BY <1>r, <1>3, <1>4, <1>6 DEF ReplayInv
<1>8. ServerWithin(j, server')
  BY <1>1, <1>3
<1> QED  BY <1>2, <1>5, <1>7, <1>8 DEF BridgeInv

LEMMA ReplayPostKeeps ==
  ASSUME StoreAssumption, BridgeInv, NEW body \in replay.left, NEW fails \in BOOLEAN, ReplayPosts(body, fails)
  PROVE  BridgeInv'
<1>j. PICK j : j = OnFile
  OBVIOUS
<1>1. /\ replay' = [left |-> replay.left \ {body}, failed |-> replay.failed \/ fails,
                    file |-> IF fails THEN <<>> ELSE replay.file]
      /\ server' \in {Served(body)} \cup (IF fails THEN {server} ELSE {})
      /\ inflight' = inflight /\ UNCHANGED storeVars
  BY DEF ReplayPosts
<1>r. /\ replay'.left = replay.left \ {body}
      /\ replay'.file = IF fails THEN <<>> ELSE replay.file
      /\ ~replay'.failed => ~replay.failed /\ ~fails
  BY <1>1
<1>2. StoreInv' /\ OnFile' = j
  <2>1. lines' = lines /\ tail' = tail
    BY <1>1 DEF storeVars
  <2> QED  BY <1>1, <1>j, <2>1, StutterKeeps DEF BridgeInv, OnFile
<1>3. ServerWithin(j, server) /\ WithinFile(j, body) /\ ReplayInv
  BY <1>j DEF BridgeInv, BodiesWithin
<1>4. ServerWithin(j, server')
  <2>1. server' = server \/ server' = Served(body)
    BY <1>1
  <2> QED  BY <2>1, <1>3, ServedWithin
<1>5. BodiesWithin'
  BY <1>1, <1>r, <1>2, <1>j DEF BridgeInv, BodiesWithin
<1>6. ASSUME ~replay'.failed
      PROVE  /\ \A x \in replay'.left : x.lost = LossMax(replay'.file, x.log)
             /\ Filled(replay'.file, replay'.left, server')
  <2>0. ~replay.failed /\ ~fails /\ replay'.file = replay.file /\ server' = Served(body)
    BY <1>6, <1>r, <1>1
  <2>1. /\ Filled(replay.file, replay.left, server) /\ replay.file \in Seq(Record)
        /\ \A x \in replay.left : x.lost = LossMax(replay.file, x.log)
    BY <2>0, <1>3 DEF ReplayInv
  <2>2. \A l \in Logs : LossMax(replay.file, l) \in Nat
    BY <2>1, LossMaxIs DEF StoreAssumption
  <2>T. PICK T : T = Served(body)
    OBVIOUS
  <2>3. /\ \A l \in Logs : DOMAIN server[l].samples \subseteq DOMAIN T[l].samples
        /\ \A l \in Logs : server[l].lost \in Nat /\ T[l].lost \in Nat /\ server[l].lost <= T[l].lost
        /\ DOMAIN body.samples \subseteq DOMAIN T[body.log].samples /\ T[body.log].lost >= body.lost
    BY <1>3, <2>T, ServedGrows
  <2>n. PICK now : now = replay.left \ {body}
    OBVIOUS
  <2>4. \A x \in replay.left \ now : x.log \in Logs =>
          DOMAIN x.samples \subseteq DOMAIN T[x.log].samples /\ T[x.log].lost >= LossMax(replay.file, x.log)
    <3>1. \A x \in replay.left \ now : x = body
      BY <2>n
    <3>2. body.lost = LossMax(replay.file, body.log)
      BY <2>1
    <3> QED  BY <3>1, <3>2, <2>3
  <2>5. Filled(replay.file, now, T)
    BY <2>1, <2>2, <2>3, <2>4, FilledOn
  <2>6. \A x \in replay'.left : x.lost = LossMax(replay'.file, x.log)
    BY <2>0, <2>1, <1>r
  <2> QED  BY <2>0, <2>5, <2>6, <2>T, <2>n, <1>r
<1>7. ReplayInv'
  <2>1. replay'.file \in Seq(Record)
    <3>1. CASE fails
      BY <3>1, <1>r
    <3>2. CASE ~fails
      BY <3>2, <1>r, <1>3 DEF ReplayInv
    <3> QED  BY <3>1, <3>2
  <2> QED  BY <2>1, <1>6 DEF ReplayInv
<1> QED  BY <1>2, <1>4, <1>5, <1>7 DEF BridgeInv

LEMMA HandleLineKeeps ==
  ASSUME StoreAssumption, BridgeInv, StoreInv', NEW line \in Lines, HandleLine(line)
  PROVE  BridgeInv'
<1>b. PICK b \in Offered : b = line.batch
  BY TakenIsOffered DEF HandleLine
<1>f. Fits(b)
  BY OfferedFits
<1>1. /\ Ingest(b) /\ server' = server /\ replay' = replay
      /\ inflight' = IF Added(b) = {} THEN inflight ELSE inflight \cup {PostBody(b)}
  BY <1>b DEF HandleLine
<1>2. [StoreNext]_storeVars
  BY <1>1 DEF StoreNext, Offered
<1>j. PICK j : j = OnFile
  OBVIOUS
<1>p. PICK P : P = PlanRecords(b)
  OBVIOUS
<1>3. Agrees /\ P \in Seq(Record) /\ OnFile' = j \o P /\ j \in Seq(Record)
  BY <1>1, <1>f, <1>j, <1>p, IngestAppends DEF BridgeInv, Agrees
<1>4. \A s \in Added(b) : \E i \in DOMAIN P : P[i] = Sample(b.log, s, b.samples[s])
  BY <1>3, <1>f, <1>p, PlanIs
<1>5. WithinFile(OnFile', PostBody(b))
  <2>e. PICK e : e = j \o P
    OBVIOUS
  <2>p. PICK body : body = PostBody(b)
    OBVIOUS
  <2>1. /\ body.log = b.log /\ body.lost = b.lost /\ DOMAIN body.samples = Added(b)
        /\ \A s \in Added(b) : body.samples[s] = b.samples[s]
    BY <2>p DEF PostBody
  <2>2. b.log \in Logs /\ b.lost \in Nat
    <3>1. b.log \in Logs /\ b.first \in 1..MaxSeq /\ b.lost \in {0, b.first - 1} /\ MaxSeq \in Nat
      BY <1>f, BatchIs DEF StoreAssumption
    <3> QED  BY <3>1
  <2>3. ASSUME NEW s \in Added(b) PROVE Holds(e, b.log, s, b.samples[s])
    <3>1. PICK i \in DOMAIN P : P[i] = Sample(b.log, s, b.samples[s])
      BY <1>4
    <3>2. Len(j) + i \in DOMAIN e /\ e[Len(j) + i] = P[i]
      BY <1>3, <2>e, OfExtended
    <3> QED  BY <3>1, <3>2 DEF Holds, Of, Sample
  <2>4. WithinFile(e, body)
    BY <2>1, <2>2, <2>3 DEF WithinFile
  <2> QED  BY <2>4, <2>e, <2>p, <1>3
<1>6. \A body \in inflight' : body \in inflight \/ WithinFile(OnFile', body)
  BY <1>1, <1>5
<1>7. ServerWithin(OnFile, server)' /\ BodiesWithin' /\ ReplayInv'
  BY <1>1, <1>2, <1>6, FileStepKeeps
<1> QED  BY <1>7 DEF BridgeInv

LEMMA InitBridges ==
  ASSUME StoreAssumption, BridgeInit
  PROVE  BridgeInv
<1>1. StoreInv
  BY InitStores DEF BridgeInit
<1>2. inflight = {} /\ server = [l \in Logs |-> [lost |-> 0, samples |-> <<>>]] /\ replay = NoReplay
  BY DEF BridgeInit
<1>3. replay.left = {} /\ replay.failed = TRUE /\ replay.file = <<>>
  BY <1>2 DEF NoReplay
<1>4. ASSUME NEW l \in Logs PROVE server[l].lost = 0 /\ DOMAIN server[l].samples = {}
  BY <1>2
<1>5. ServerWithin(OnFile, server)
  <2>1. DOMAIN server = Logs
    BY <1>2
  <2> QED  BY <2>1, <1>4 DEF ServerWithin
<1>6. BodiesWithin /\ ReplayInv
  BY <1>2, <1>3 DEF BodiesWithin, ReplayInv
<1> QED  BY <1>1, <1>5, <1>6 DEF BridgeInv

\* The inductive invariant of the bridge: besides the store's, what the server
\* holds and what is under way to it is on the file, and a replay that has not
\* failed has what is still missing ahead of it (bridge.ts, replay.ts).
THEOREM BridgeInvariant == BridgeSpec => []BridgeInv
<1>1. BridgeInit => BridgeInv
  BY StoreAssumption, InitBridges
<1>2. BridgeInv /\ [BridgeNext]_bridgeVars => BridgeInv'
  <2> SUFFICES ASSUME BridgeInv, [BridgeNext]_bridgeVars PROVE BridgeInv'
    OBVIOUS
  <2>1. [StoreNext]_storeVars
    BY BridgeStepStores
  <2>2. StoreInv'
    BY <2>1, StoreStepKeeps DEF BridgeInv
  <2>3. ASSUME server' = server, replay' = replay, inflight' \subseteq inflight PROVE BridgeInv'
    <3>1. \A body \in inflight' : body \in inflight \/ WithinFile(OnFile', body)
      BY <2>3
    <3> QED  BY <2>1, <2>2, <2>3, <3>1, StoreAssumption, FileStepKeeps DEF BridgeInv
  <2>4. CASE Starts
    BY <2>4, <2>3 DEF Starts
  <2>5. CASE Dies
    BY <2>5, <2>3 DEF Dies
  <2>6. CASE PortCloses \/ PortReopens
    BY <2>6, <2>3 DEF PortCloses, PortReopens
  <2>7. ASSUME NEW line \in Lines, HandleLine(line) PROVE BridgeInv'
    BY <2>2, <2>7, StoreAssumption, HandleLineKeeps
  <2>8. ASSUME NEW body \in inflight, PostEnds(body) PROVE BridgeInv'
    BY <2>8, StoreAssumption, PostKeeps
  <2>9. CASE ReplayStarts
    BY <2>9, StoreAssumption, BridgeAssumption, ReplayStartKeeps
  <2>10. ASSUME NEW body \in replay.left, NEW fails \in BOOLEAN, ReplayPosts(body, fails)
         PROVE  BridgeInv'
    BY <2>10, StoreAssumption, ReplayPostKeeps
  <2>11. CASE UNCHANGED bridgeVars
    BY <2>11, <2>3 DEF bridgeVars
  <2> QED  BY <2>4, <2>5, <2>6, <2>7, <2>8, <2>9, <2>10, <2>11 DEF BridgeNext
<1> QED  BY <1>1, <1>2, PTL DEF BridgeSpec

-----------------------------------------------------------------------------
(* What follows for the bridge *)

LEMMA BridgeInvFollows ==
  ASSUME StoreAssumption, BridgeInv
  PROVE  ServerFollowsFile
<1>1. ServerWithinFile
  BY DEF BridgeInv, ServerWithin, Holds, ServerWithinFile
<1>2. ASSUME replay.left = {}, ~replay.failed, NEW l \in Logs
      PROVE  /\ SeqsOf(replay.file, "sample", l) \subseteq DOMAIN server[l].samples
             /\ SeqsOf(replay.file, "sample", l) # {} => server[l].lost >= LossMax(replay.file, l)
  <2>1. Filled(replay.file, {}, server)
    BY <1>2 DEF BridgeInv, ReplayInv
  <2>2. \A s \in SeqsOf(replay.file, "sample", l) : Arrived(replay.file, l, s, server)
    BY <2>1 DEF Filled
  <2> QED  BY <2>2 DEF Arrived
<1>3. ReplayFills
  BY <1>2 DEF ReplayFills
<1> QED  BY <1>1, <1>3 DEF ServerFollowsFile

LEMMA BridgeInvKeepsNoise ==
  ASSUME BridgeAssumption, BridgeInv
  PROVE  StoredWasSent
<1>1. ASSUME NEW i \in DOMAIN OnFile, OnFile[i].kind = "sample" PROVE OnFile[i].value # Noise
  <2>1. OnFile[i] \in Record
    BY DEF BridgeInv, StoreInv, Sound
  <2>2. OnFile[i].value \in Values
    BY <1>1, <2>1 DEF Record
  <2> QED  BY <2>2 DEF BridgeAssumption
<1>2. ASSUME NEW l \in Logs, NEW s \in DOMAIN server[l].samples PROVE server[l].samples[s] # Noise
  <2>1. PICK i \in Of(OnFile, "sample", l) : OnFile[i].value = server[l].samples[s]
    BY DEF BridgeInv, ServerWithin, Holds
  <2> QED  BY <2>1, <1>1 DEF Of
<1> QED  BY <1>1, <1>2 DEF StoredWasSent

\* The server has nothing the bridge's file has not, and after a replay whose
\* POSTs were all answered it has all that the file had (replay.ts:30-64).
THEOREM ServerAgrees == BridgeSpec => []ServerFollowsFile
<1>1. BridgeInv => ServerFollowsFile
  BY StoreAssumption, BridgeInvFollows
<1> QED  BY <1>1, BridgeInvariant, PTL

\* No reading is stored or served that its node did not send, whatever the
\* serial line did to a frame (bridge.ts:187-194).
THEOREM NoNoiseIsStored == BridgeSpec => []StoredWasSent
<1>1. BridgeInv => StoredWasSent
  BY BridgeAssumption, BridgeInvKeepsNoise
<1> QED  BY <1>1, BridgeInvariant, PTL

\* Behind the port as well, what was acked is on the file, whatever crash comes.
THEOREM BridgeKeepsAcks == BridgeSpec => []PromiseKept
<1> QED  BY BridgeIsAStore, AcksAreKept, PTL

\* And an ack passes no seq that the file does not account for.
THEOREM BridgeEarnsAcks == BridgeSpec => []ThroughIsEarned
<1> QED  BY BridgeIsAStore, AcksAreEarned, PTL

-----------------------------------------------------------------------------
(* The synthetic node *)

FlashRecord == [boot : Nat, uptime : Int]
Flashes == UNION {[S -> FlashRecord] : S \in SUBSET (1..MaxSeq)}
EpochMaps == UNION {[S -> Int] : S \in SUBSET Nat}
SimNodes == [boot : Nat, bootUnix : Int, next : 1..(MaxSeq + 1), oldest : Nat, acked : Nat,
             flash : Flashes, epochs : EpochMaps]
SampleSpace == [uptime : Int, recordLost : BOOLEAN]
Wires == [first : Nat, bootId : Nat, bootNow : Nat, uptimeNow : Int, bootEpoch : Int,
          lost : Nat, samples : Seq(SampleSpace), sent : Int]
Acks == [through : Nat, hostUnix : Int, sent : Int]

SimValues == [anchor : {"receipt", "epoch", "unplaced"}, tUnix : Int]
SimRecord ==
  [kind : {"start"}, log : Logs, seq : Int] \cup [kind : {"loss"}, log : Logs, seq : Int, from : Int]
  \cup [kind : {"sample"}, log : Logs, seq : Int, value : SimValues]

LEMMA SimConstants ==
  ASSUME SimAssumption, StoreAssumption
  PROVE  /\ Node \in Logs /\ MaxDelay \in Nat /\ MaxSeq \in Nat
         /\ Capacity - RecordsPerSector \in Nat
<1>1. RecordsPerSector \in Nat \ {0} /\ Sectors \in Nat \ {0, 1}
  BY DEF SimAssumption
<1>2. PICK s \in Nat : Sectors = s + 1
  <2>1. Sectors - 1 \in Nat /\ Sectors = (Sectors - 1) + 1
    BY <1>1
  <2> QED  BY <2>1
<1>3. RecordsPerSector * (s + 1) = RecordsPerSector * s + RecordsPerSector
  BY <1>1, <1>2
<1>4. RecordsPerSector * s \in Nat
  BY <1>1, <1>2
<1>5. Capacity = RecordsPerSector * s + RecordsPerSector
  BY <1>2, <1>3 DEF Capacity
<1>6. Capacity - RecordsPerSector = RecordsPerSector * s
  BY <1>1, <1>4, <1>5
<1> QED  BY <1>4, <1>6 DEF SimAssumption, StoreAssumption

LEMMA Min2 ==
  ASSUME NEW a \in Nat, NEW b \in Nat
  PROVE  Min({a, b}) \in {a, b} /\ Min({a, b}) <= a /\ Min({a, b}) <= b
<1>1. {a, b} \in SUBSET Nat /\ {a, b} # {}
  OBVIOUS
<1> QED  BY <1>1, MinIs

LEMMA FlashIs ==
  ASSUME NEW f \in Flashes
  PROVE  /\ DOMAIN f \subseteq 1..MaxSeq
         /\ \A s \in DOMAIN f : f[s] \in FlashRecord
         /\ f = [s \in DOMAIN f |-> f[s]]
<1>1. PICK S \in SUBSET (1..MaxSeq) : f \in [S -> FlashRecord]
  BY DEF Flashes
<1> QED  BY <1>1

LEMMA IsFlash ==
  ASSUME NEW S \in SUBSET (1..MaxSeq), NEW f \in [S -> FlashRecord]
  PROVE  f \in Flashes
BY DEF Flashes

LEMMA EpochsIs ==
  ASSUME NEW e \in EpochMaps
  PROVE  DOMAIN e \subseteq Nat /\ \A b \in DOMAIN e : e[b] \in Int
<1>1. PICK S \in SUBSET Nat : e \in [S -> Int]
  BY DEF EpochMaps
<1> QED  BY <1>1

LEMMA IsEpochs ==
  ASSUME NEW S \in SUBSET Nat, NEW e \in [S -> Int]
  PROVE  e \in EpochMaps
BY DEF EpochMaps

\* An append keeps what it does not erase.
LEMMA AppendedIs ==
  ASSUME SimAssumption, StoreAssumption, NEW n \in SimNodes, n.next <= MaxSeq, NEW f \in Flashes
  PROVE  LET m == Appended(n, f) IN
         /\ m \in SimNodes /\ m.boot = n.boot /\ m.bootUnix = n.bootUnix /\ m.next = n.next + 1
         /\ m.epochs = n.epochs
         /\ DOMAIN m.flash \subseteq DOMAIN f
         /\ \A s \in DOMAIN m.flash : m.flash[s] = f[s]
<1>1. PICK o : o = OldestAfter(n)
  OBVIOUS
<1>2. o \in Nat
  <2> DEFINE lap == Capacity - RecordsPerSector
  <2>1. lap \in Nat /\ n.next \in Nat /\ n.oldest \in Nat
    BY SimConstants DEF SimNodes
  <2>2. CASE n.next > lap
    <3>1. Max({n.oldest, n.next - lap}) \in Nat
      <4> HIDE DEF lap
      <4> QED  BY <2>1, <2>2, Max2
    <3> QED  BY <1>1, <2>1, <3>1 DEF OldestAfter
  <2>3. CASE ~(n.next > lap)
    BY <1>1, <2>1, <2>3 DEF OldestAfter
  <2> QED  BY <2>2, <2>3
<1>3. PICK g : g = [s \in {q \in DOMAIN f : q >= o} |-> f[s]]
  OBVIOUS
<1>4. /\ g \in Flashes /\ DOMAIN g \subseteq DOMAIN f
      /\ \A s \in DOMAIN g : g[s] = f[s]
  <2> DEFINE S == {q \in DOMAIN f : q >= o}
  <2>1. S \in SUBSET (1..MaxSeq) /\ \A s \in S : f[s] \in FlashRecord
    BY FlashIs
  <2>2. g \in [S -> FlashRecord]
    BY <1>3, <2>1
  <2>3. g \in Flashes
    <3> HIDE DEF S
    <3> QED  BY <2>1, <2>2, IsFlash
  <2> QED  BY <1>3, <2>3
<1>5. Appended(n, f) = [n EXCEPT !.next = @ + 1, !.oldest = o, !.flash = g]
  BY <1>1, <1>3 DEF Appended
<1>6. PICK k : k = n.next + 1
  OBVIOUS
<1>7. k \in 1..(MaxSeq + 1)
  BY <1>6, SimConstants DEF SimNodes
<1>8. Appended(n, f) = [n EXCEPT !.next = k, !.oldest = o, !.flash = g]
  BY <1>5, <1>6
<1> QED  BY <1>2, <1>4, <1>6, <1>7, <1>8 DEF SimNodes

\* An ack moves the pointer, and dates the running boot or no boot.
LEMMA ApplyAckIs ==
  ASSUME SimAssumption, StoreAssumption, NEW n \in SimNodes, NEW through \in Nat,
         NEW hostUnix \in Int, clock \in Int
  PROVE  LET m == ApplyAck(n, through, hostUnix) IN
         /\ m \in SimNodes /\ m.boot = n.boot /\ m.bootUnix = n.bootUnix /\ m.next = n.next
         /\ m.flash = n.flash
         /\ \A b \in DOMAIN m.epochs :
              \/ b \in DOMAIN n.epochs /\ m.epochs[b] = n.epochs[b]
              \/ b = n.boot /\ m.epochs[b] = hostUnix - (clock - n.bootUnix)
<1>1. PICK a : a = AckedThrough(n, through)
  OBVIOUS
<1>2. a \in Nat
  <2>1. n.next - 1 \in Nat
    BY SimConstants DEF SimNodes
  <2> QED  BY <1>1, <2>1, Min2 DEF AckedThrough
<1>3. PICK up : up = clock - n.bootUnix
  OBVIOUS
<1>4. PICK e : e = IF hostUnix > up
                   THEN [b \in DOMAIN n.epochs \cup {n.boot} |->
                           IF b = n.boot THEN hostUnix - up ELSE n.epochs[b]]
                   ELSE n.epochs
  OBVIOUS
<1>5. /\ e \in EpochMaps
      /\ \A b \in DOMAIN e : \/ b \in DOMAIN n.epochs /\ e[b] = n.epochs[b]
                             \/ b = n.boot /\ e[b] = hostUnix - up
  <2>1. n.epochs \in EpochMaps /\ n.boot \in Nat /\ up \in Int
    BY <1>3 DEF SimNodes
  <2>2. DOMAIN n.epochs \subseteq Nat /\ \A b \in DOMAIN n.epochs : n.epochs[b] \in Int
    BY <2>1, EpochsIs
  <2>3. CASE hostUnix > up
    <3> DEFINE S == DOMAIN n.epochs \cup {n.boot}
    <3>1. S \in SUBSET Nat
      BY <2>1, <2>2
    <3>2. e \in [S -> Int]
      BY <1>4, <2>1, <2>2, <2>3
    <3>3. e \in EpochMaps
      <4> HIDE DEF S
      <4> QED  BY <3>1, <3>2, IsEpochs
    <3> QED  BY <1>4, <2>3, <3>3
  <2>4. CASE ~(hostUnix > up)
    BY <1>4, <2>1, <2>4
  <2> QED  BY <2>3, <2>4
<1>6. ApplyAck(n, through, hostUnix) = [n EXCEPT !.acked = a, !.epochs = e]
  BY <1>1, <1>3, <1>4 DEF ApplyAck
<1> QED  BY <1>2, <1>3, <1>5, <1>6 DEF SimNodes

-----------------------------------------------------------------------------
(* The batch *)

LEMMA PendingFirstIs ==
  ASSUME node \in SimNodes
  PROVE  PendingFirst \in Nat
<1>1. node.acked + 1 \in Int /\ node.oldest \in Int /\ node.acked + 1 \in Nat /\ node.oldest \in Nat
  BY DEF SimNodes
<1> QED  BY <1>1, Max2 DEF PendingFirst

\* The samples of a batch follow each other from the first pending on and are of its
\* boot.
LEMMA BatchRunIs ==
  ASSUME StoreAssumption, node \in SimNodes, NEW boot
  PROVE  /\ Cardinality(BatchRun(boot)) \in Nat
         /\ PendingFirst + Cardinality(BatchRun(boot)) <= MaxSeq + 1 \/ Cardinality(BatchRun(boot)) = 0
         /\ \A i \in 1..Cardinality(BatchRun(boot)) : SameBoot(PendingFirst + i - 1, boot)
<1>1. PICK first \in Nat : first = PendingFirst
  BY PendingFirstIs
<1>n. node.next \in Nat /\ node.next <= MaxSeq + 1 /\ node.next >= 1 /\ MaxSeq \in Nat
  BY DEF SimNodes, StoreAssumption
<1>2. PICK top : top = Min({node.next - 1, first + MaxSamples - 1})
  OBVIOUS
<1>3. top \in Int /\ top <= MaxSeq
  <2>1. MaxSamples \in Nat \ {0}
    BY DEF StoreAssumption
  <2>2. node.next - 1 \in Nat /\ first + MaxSamples - 1 \in Nat
    BY <1>n, <2>1
  <2> QED  BY <1>2, <1>n, <2>2, Min2
<1> DEFINE free == first..top
           ends == {s \in free : ~SameBoot(s, boot)}
<1>4. BatchRun(boot) = IF ends = {} THEN free ELSE first..(Min(ends) - 1)
  BY <1>1, <1>2 DEF BatchRun
<1>5. PICK k \in Int : /\ BatchRun(boot) = first..k /\ k <= top
                       /\ \A s \in first..k : SameBoot(s, boot)
  <2>1. CASE ends = {}
    BY <1>3, <1>4, <2>1
  <2>2. CASE ends # {}
    <3>1. ends \in SUBSET Nat
      BY <1>3
    <3>2. Min(ends) \in ends /\ \A s \in ends : Min(ends) <= s
      <4> HIDE DEF ends
      <4> QED  BY <2>2, <3>1, MinIs
    <3>3. PICK m \in Int : m = Min(ends) /\ m <= top
      BY <1>3, <3>2
    <3>4. \A s \in first..(m - 1) : s \in free /\ s \notin ends
      BY <1>3, <3>2, <3>3
    <3>5. \A s \in first..(m - 1) : SameBoot(s, boot)
      BY <3>4
    <3>6. BatchRun(boot) = first..(m - 1)
      BY <1>4, <2>2, <3>3
    <3> HIDE DEF free, ends
    <3>7. m - 1 \in Int /\ m - 1 <= top
      BY <1>3, <3>3
    <3> QED  BY <3>5, <3>6, <3>7
  <2> QED  BY <2>1, <2>2
<1> HIDE DEF free, ends
<1>6. Cardinality(first..k) = IF k < first THEN 0 ELSE k - first + 1
  BY <1>5, FS_Interval
<1>7. PICK c \in Int : c = Cardinality(BatchRun(boot)) /\ c = IF k < first THEN 0 ELSE k - first + 1
  BY <1>5, <1>6
<1>8. \A i \in 1..c : PendingFirst + i - 1 \in first..k
  BY <1>1, <1>7
<1> QED  BY <1>1, <1>3, <1>5, <1>7, <1>8, <1>n

-----------------------------------------------------------------------------
(* What the invariant says *)

SimTyped ==
  /\ clock \in Nat /\ node \in SimNodes
  /\ DOMAIN truth \subseteq 1..(node.next - 1) /\ \A s \in DOMAIN truth : truth[s] \in Int
  /\ wire = Nothing \/ wire \in Wires
  /\ air = Nothing \/ air \in Acks
  /\ tail = NoTail
  /\ DOMAIN logs \subseteq Logs
  /\ \A l \in DOMAIN logs : logs[l].through \in Nat /\ logs[l].seen \in SUBSET (0..MaxSeq)

\* The moments the boots began agree with the node's clock, with what it has dated
\* of them, and with the readings it keeps.
NodeClocked(start) ==
  /\ start[node.boot] = node.bootUnix
  /\ \A s \in DOMAIN node.flash :
       /\ s \in DOMAIN truth /\ node.flash[s].boot \in 1..node.boot
       /\ truth[s] = start[node.flash[s].boot] + node.flash[s].uptime
  /\ \A b \in DOMAIN node.epochs :
       b \in 1..node.boot /\ start[b] - node.epochs[b] \in 0..MaxDelay

\* A sample under way carries the uptime of its reading, and its header what dates
\* the boot.
Dated(w, start) ==
  /\ w.bootId \in 1..node.boot /\ w.bootNow \in 1..node.boot
  /\ w.sent - w.uptimeNow = start[w.bootNow]
  /\ w.bootEpoch # 0 => start[w.bootId] - w.bootEpoch \in 0..MaxDelay
  /\ w.first + Len(w.samples) <= MaxSeq + 1 \/ Len(w.samples) = 0
  /\ \A i \in 1..Len(w.samples) :
       ~w.samples[i].recordLost =>
         /\ w.first + i - 1 \in DOMAIN truth
         /\ truth[w.first + i - 1] = start[w.bootId] + w.samples[i].uptime

WireClocked(start) ==
  wire # Nothing => Dated(wire, start) /\ clock - wire.sent \in 0..MaxDelay

AckClocked == air # Nothing => air.hostUnix = air.sent /\ clock - air.sent \in 0..MaxDelay

Clocked == \E start \in [1..node.boot -> Int] : NodeClocked(start) /\ WireClocked(start)

WellPlaced(r) ==
  r.kind = "sample" /\ r.value # Unplaced =>
    r.seq \in DOMAIN truth /\ r.value.tUnix - truth[r.seq] \in (-MaxDelay)..MaxDelay

WellPlacedRecords == {r \in SimRecord : WellPlaced(r)}

LinesPlaced == lines \in Seq(WellPlacedRecords)

SimInv == SimTyped /\ node.boot > 0 /\ Clocked /\ AckClocked /\ LinesPlaced

LEMMA NothingIs == Nothing \notin Wires /\ Nothing \notin Acks
<1>1. \A w \in Wires : DOMAIN w = {"first", "bootId", "bootNow", "uptimeNow", "bootEpoch", "lost", "samples", "sent"}
  BY DEF Wires
<1>2. \A a \in Acks : DOMAIN a = {"through", "hostUnix", "sent"}
  BY DEF Acks
<1>3. DOMAIN Nothing = {"sent"}
  BY DEF Nothing
<1>4. "first" # "sent" /\ "through" # "sent"
  OBVIOUS
<1> QED  BY <1>1, <1>2, <1>3, <1>4

\* The batch the node sends is dated rightly.
LEMMA SentBatchIs ==
  ASSUME SimAssumption, StoreAssumption, SimTyped, node.boot > 0,
         NEW start \in [1..node.boot -> Int], NodeClocked(start)
  PROVE  Batch \in Wires /\ Batch.sent = clock /\ Dated(Batch, start)
<1>t. /\ clock \in Nat /\ node \in SimNodes /\ node.boot \in Nat /\ node.bootUnix \in Int
      /\ node.flash \in Flashes /\ node.epochs \in EpochMaps /\ node.oldest \in Nat
  BY DEF SimTyped, SimNodes
<1>n. /\ start[node.boot] = node.bootUnix
      /\ \A s \in DOMAIN node.flash :
           /\ s \in DOMAIN truth /\ node.flash[s].boot \in 1..node.boot
           /\ truth[s] = start[node.flash[s].boot] + node.flash[s].uptime
      /\ \A b \in DOMAIN node.epochs :
           b \in 1..node.boot /\ start[b] - node.epochs[b] \in 0..MaxDelay
  BY DEF NodeClocked
<1>1. PICK first \in Nat : first = PendingFirst
  BY <1>t, PendingFirstIs
<1>2. PICK boot \in 1..node.boot :
        boot = IF first \in DOMAIN node.flash THEN node.flash[first].boot ELSE node.boot
  BY <1>n, <1>t
<1>3. PICK c \in Nat : /\ c = Cardinality(BatchRun(boot))
                       /\ first + c <= MaxSeq + 1 \/ c = 0
                       /\ \A i \in 1..c : SameBoot(first + i - 1, boot)
  BY <1>1, <1>t, BatchRunIs
<1>4. PICK q : q = [i \in 1..c |-> IF first + i - 1 \in DOMAIN node.flash
                                   THEN [uptime |-> node.flash[first + i - 1].uptime, recordLost |-> FALSE]
                                   ELSE [uptime |-> 0, recordLost |-> TRUE]]
  OBVIOUS
<1>5. /\ q \in Seq(SampleSpace) /\ Len(q) = c
      /\ \A i \in 1..c :
           ~q[i].recordLost =>
             first + i - 1 \in DOMAIN node.flash /\ q[i].uptime = node.flash[first + i - 1].uptime
  <2>1. \A s \in DOMAIN node.flash : node.flash[s].uptime \in Int
    BY <1>t, FlashIs DEF FlashRecord
  <2>2. ASSUME NEW i \in 1..c
        PROVE  /\ q[i] \in SampleSpace
               /\ ~q[i].recordLost =>
                    first + i - 1 \in DOMAIN node.flash /\ q[i].uptime = node.flash[first + i - 1].uptime
    <3> DEFINE s == first + i - 1
    <3>1. CASE s \in DOMAIN node.flash
      <4>1. PICK u \in Int : u = node.flash[s].uptime
        BY <2>1, <3>1
      <4>2. q[i] = [uptime |-> u, recordLost |-> FALSE]
        BY <1>4, <3>1, <4>1
      <4> QED  BY <3>1, <4>1, <4>2 DEF SampleSpace
    <3>2. CASE s \notin DOMAIN node.flash
      <4>1. q[i] = [uptime |-> 0, recordLost |-> TRUE]
        BY <1>4, <3>2
      <4> QED  BY <4>1 DEF SampleSpace
    <3> QED  BY <3>1, <3>2
  <2>3. q \in [1..c -> SampleSpace]
    BY <1>4, <2>2
  <2>4. q \in Seq(SampleSpace) /\ Len(q) = c
    BY <2>3
  <2> QED  BY <2>2, <2>4
<1>6. PICK up \in Int : up = Uptime /\ clock - up = start[node.boot]
  BY <1>t, <1>n DEF Uptime
<1>7. PICK e \in Int : e = EpochOf(boot) /\ (e # 0 => start[boot] - e \in 0..MaxDelay)
  <2>1. CASE boot \in DOMAIN node.epochs
    <3>1. node.epochs[boot] \in Int
      BY <1>t, <2>1, EpochsIs
    <3> QED  BY <2>1, <3>1, <1>n DEF EpochOf
  <2>2. CASE boot \notin DOMAIN node.epochs
    BY <2>2 DEF EpochOf
  <2> QED  BY <2>1, <2>2
<1>8. PICK gone \in Nat : gone = LostThrough
  <2>1. node.acked \in Nat
    BY <1>t DEF SimNodes
  <2>2. node.acked + 1 < node.oldest => node.oldest - 1 \in Nat
    BY <2>1, <1>t
  <2> QED  BY <2>2 DEF LostThrough
<1>9. PICK w : w = [first |-> first, bootId |-> boot, bootNow |-> node.boot, uptimeNow |-> up,
                    bootEpoch |-> e, lost |-> gone, samples |-> q, sent |-> clock]
  OBVIOUS
<1>10. w = Batch
  BY <1>1, <1>2, <1>3, <1>4, <1>6, <1>7, <1>8, <1>9 DEF Batch
<1>11. /\ w.first = first /\ w.bootId = boot /\ w.bootNow = node.boot /\ w.uptimeNow = up
       /\ w.bootEpoch = e /\ w.samples = q /\ w.sent = clock
  BY <1>9
<1>12. w \in Wires
  BY <1>5, <1>9, <1>t DEF Wires
<1>13. ASSUME NEW i \in 1..c, ~q[i].recordLost
       PROVE  first + i - 1 \in DOMAIN truth /\ truth[first + i - 1] = start[boot] + q[i].uptime
  <2> DEFINE s == first + i - 1
  <2>1. s \in DOMAIN node.flash /\ q[i].uptime = node.flash[s].uptime
    BY <1>5, <1>13
  <2>2. SameBoot(s, boot)
    BY <1>3
  <2>3. node.flash[s].boot = boot
    BY <2>1, <2>2 DEF SameBoot
  <2> HIDE DEF s
  <2>4. s \in DOMAIN truth /\ truth[s] = start[boot] + q[i].uptime
    BY <1>n, <2>1, <2>3
  <2> QED  BY <2>4 DEF s
<1>14. w.bootNow \in 1..node.boot
  BY <1>11, <1>t
<1>15. /\ w.sent - w.uptimeNow = start[w.bootNow]
       /\ w.bootEpoch # 0 => start[w.bootId] - w.bootEpoch \in 0..MaxDelay
  BY <1>6, <1>7, <1>11, <1>t, <1>n
<1>16. /\ w.first + Len(w.samples) <= MaxSeq + 1 \/ Len(w.samples) = 0
       /\ \A i \in 1..Len(w.samples) :
              ~w.samples[i].recordLost =>
                /\ w.first + i - 1 \in DOMAIN truth
                /\ truth[w.first + i - 1] = start[w.bootId] + w.samples[i].uptime
  BY <1>3, <1>5, <1>11, <1>13
<1>17. w.bootId \in 1..node.boot
  BY <1>11
<1>18. Dated(w, start)
  BY <1>14, <1>15, <1>16, <1>17 DEF Dated
<1> QED  BY <1>10, <1>11, <1>12, <1>18

-----------------------------------------------------------------------------
(* What the bridge stores *)

LEMMA Apart ==
  ASSUME NEW m \in Nat, NEW x \in Int, NEW y \in Int, x - y \in 0..m \/ y - x \in 0..m
  PROVE  x - y \in (-m)..m
OBVIOUS

\* The same time after two starts.
LEMMA SumsApart ==
  ASSUME NEW e \in Int, NEW b \in Int, NEW u \in Int, NEW t, t = e + u
  PROVE  t - (b + u) = e - b
OBVIOUS

\* A sample is placed by the start of its boot, at most a delay off.
LEMMA PlacedIs ==
  ASSUME SimAssumption, StoreAssumption, clock \in Nat, wire \in Wires, wire # Nothing,
         NEW start \in [1..node.boot -> Int], WireClocked(start), NEW i \in 1..Len(wire.samples)
  PROVE  LET v == Placed(wire, wire.samples[i])  s == wire.first + i - 1 IN
         /\ v \in SimValues
         /\ v # Unplaced => s \in DOMAIN truth /\ v.tUnix - truth[s] \in (-MaxDelay)..MaxDelay
<1>t. /\ wire.uptimeNow \in Int /\ wire.bootEpoch \in Int /\ wire.sent \in Int
      /\ wire.samples \in Seq(SampleSpace)
  BY DEF Wires
<1>s. PICK m \in SampleSpace : m = wire.samples[i]
  <2>1. wire.samples[i] \in SampleSpace
    BY <1>t
  <2> QED  BY <2>1
<1>u. m.uptime \in Int
  BY DEF SampleSpace
<1>1. /\ wire.bootId \in 1..node.boot /\ wire.bootNow \in 1..node.boot
      /\ wire.sent - wire.uptimeNow = start[wire.bootNow]
      /\ clock - wire.sent \in 0..MaxDelay
      /\ wire.bootEpoch # 0 => start[wire.bootId] - wire.bootEpoch \in 0..MaxDelay
      /\ ~m.recordLost => /\ wire.first + i - 1 \in DOMAIN truth
                          /\ truth[wire.first + i - 1] = start[wire.bootId] + m.uptime
  BY <1>s DEF WireClocked, Dated
<1>2. PICK b \in Int : b = start[wire.bootId]
  BY <1>1
<1>d. MaxDelay \in Nat
  BY SimConstants
<1>3. PICK a : a = AnchorOf(wire)
  OBVIOUS
<1>4. \/ a.rule = "unplaced"
      \/ /\ a.rule \in {"receipt", "epoch"} /\ a.epoch \in Int
         /\ a.epoch - b \in (-MaxDelay)..MaxDelay
  <2>1. CASE wire.bootId = wire.bootNow
    <3>1. PICK e \in Int : e = clock - wire.uptimeNow
      BY <1>t
    <3>2. a = [rule |-> "receipt", epoch |-> e]
      BY <1>3, <2>1, <3>1 DEF AnchorOf
    <3>3. a.rule = "receipt" /\ a.epoch = e
      BY <3>2
    <3>4. e - b \in (-MaxDelay)..MaxDelay
      <4>1. wire.sent - wire.uptimeNow = b
        BY <1>1, <1>2, <2>1
      <4>2. e - b = clock - wire.sent
        <5>1. PICK c \in Int, d \in Int, u \in Int : c = clock /\ d = wire.sent /\ u = wire.uptimeNow
          BY <1>t
        <5>2. e = c - u /\ d - u = b
          BY <3>1, <4>1, <5>1
        <5>3. e - b = c - d
          BY <5>2
        <5> QED  BY <5>1, <5>3
      <4>3. e - b \in 0..MaxDelay
        BY <4>2, <1>1
      <4> QED  BY <4>3, <1>d, Apart
    <3> QED  BY <3>3, <3>4
  <2>2. CASE wire.bootId # wire.bootNow /\ wire.bootEpoch # 0
    <3>1. a = [rule |-> "epoch", epoch |-> wire.bootEpoch]
      BY <1>3, <2>2 DEF AnchorOf
    <3>2. a.rule = "epoch" /\ a.epoch = wire.bootEpoch
      BY <3>1
    <3>3. wire.bootEpoch - b \in (-MaxDelay)..MaxDelay
      <4>1. b - wire.bootEpoch \in 0..MaxDelay
        BY <1>1, <1>2, <2>2
      <4> QED  BY <4>1, <1>d, <1>t, Apart
    <3> QED  BY <3>2, <3>3, <1>t
  <2>3. CASE wire.bootId # wire.bootNow /\ ~(wire.bootEpoch # 0)
    BY <1>3, <2>3 DEF AnchorOf
  <2> QED  BY <2>1, <2>2, <2>3
<1>5. PICK v : v = Placed(wire, m)
  OBVIOUS
<1>6. CASE a.rule = "unplaced" \/ m.recordLost
  <2>1. v = Unplaced
    BY <1>3, <1>5, <1>6 DEF Placed
  <2> QED  BY <1>5, <1>s, <2>1 DEF Unplaced, SimValues
<1>7. CASE ~(a.rule = "unplaced" \/ m.recordLost)
  <2>1. PICK t \in Int : t = a.epoch + m.uptime
    BY <1>4, <1>7, <1>u
  <2>2. v = [anchor |-> a.rule, tUnix |-> t]
    BY <1>3, <1>5, <1>7, <2>1 DEF Placed
  <2>3. v \in SimValues /\ v.tUnix = t
    BY <1>4, <1>7, <2>2 DEF SimValues
  <2>4. t - (b + m.uptime) \in (-MaxDelay)..MaxDelay
    <3>1. PICK e \in Int, u \in Int : e = a.epoch /\ u = m.uptime
      BY <1>4, <1>7, <1>u
    <3>2. e - b \in (-MaxDelay)..MaxDelay /\ t = e + u /\ b \in Int
      BY <1>4, <1>7, <1>u, <2>1, <3>1
    <3>3. t - (b + u) = e - b
      BY <3>2, SumsApart
    <3> QED  BY <3>1, <3>2, <3>3
  <2>5. /\ wire.first + i - 1 \in DOMAIN truth
        /\ truth[wire.first + i - 1] = b + m.uptime
    BY <1>1, <1>2, <1>7
  <2> QED  BY <1>5, <1>s, <2>3, <2>4, <2>5
<1> QED  BY <1>6, <1>7

LEMMA OneOrNone ==
  ASSUME NEW S, NEW r \in S, NEW q, q = <<r>> \/ q = <<>>
  PROVE  q \in Seq(S)
<1>1. <<r>> \in Seq(S)
  OBVIOUS
<1>2. <<>> \in Seq(S)
  OBVIOUS
<1> QED  BY <1>1, <1>2

LEMMA ConcatIsIn ==
  ASSUME NEW S, NEW j \in Seq(S), NEW d \in Seq(S)
  PROVE  j \o d \in Seq(S)
OBVIOUS

\* The batch the bridge decodes: its samples are placed, and its seqs are the log's.
LEMMA DecodedIs ==
  ASSUME SimAssumption, StoreAssumption, SimTyped, wire # Nothing,
         NEW start \in [1..node.boot -> Int], WireClocked(start)
  PROVE  LET b == Decoded(wire) IN
         /\ b.log = Node /\ b.first \in Nat /\ b.lost \in Nat
         /\ DOMAIN b.samples \in SUBSET (0..MaxSeq)
         /\ \A s \in DOMAIN b.samples :
              /\ b.samples[s] \in SimValues
              /\ b.samples[s] # Unplaced =>
                   s \in DOMAIN truth /\ b.samples[s].tUnix - truth[s] \in (-MaxDelay)..MaxDelay
<1>1. wire \in Wires /\ clock \in Nat
  BY DEF SimTyped
<1>2. PICK first \in Nat : first = wire.first
  BY <1>1 DEF Wires
<1>3. PICK n \in Nat : n = Len(wire.samples)
  <2>1. wire.samples \in Seq(SampleSpace)
    BY <1>1 DEF Wires
  <2> QED  BY <2>1
<1>4. first + n <= MaxSeq + 1 \/ n = 0
  BY <1>2, <1>3 DEF WireClocked, Dated
<1>5. PICK f : f = [s \in first..(first + n - 1) |-> Placed(wire, wire.samples[s - first + 1])]
  OBVIOUS
<1>6. PICK lost0 \in Nat : lost0 = wire.lost
  BY <1>1 DEF Wires
<1>7. PICK b : b = [log |-> Node, first |-> first, lost |-> lost0, samples |-> f]
  OBVIOUS
<1>8. b = Decoded(wire)
  BY <1>2, <1>3, <1>5, <1>6, <1>7 DEF Decoded
<1>9. DOMAIN f \in SUBSET (0..MaxSeq)
  BY <1>4, <1>5, SimConstants
<1>10. ASSUME NEW s \in DOMAIN f
       PROVE  /\ f[s] \in SimValues
              /\ f[s] # Unplaced => s \in DOMAIN truth /\ f[s].tUnix - truth[s] \in (-MaxDelay)..MaxDelay
  <2>1. PICK i \in 1..n : i = s - first + 1 /\ first + i - 1 = s
    BY <1>5
  <2>2. PICK v : v = Placed(wire, wire.samples[i])
    OBVIOUS
  <2>3. f[s] = v
    BY <1>5, <2>1, <2>2
  <2>4. /\ v \in SimValues
        /\ v # Unplaced => s \in DOMAIN truth /\ v.tUnix - truth[s] \in (-MaxDelay)..MaxDelay
    BY <1>1, <1>2, <1>3, <2>1, <2>2, PlacedIs
  <2> QED  BY <2>3, <2>4
<1>11. b.log = Node /\ b.first = first /\ b.lost = lost0 /\ b.samples = f
  BY <1>7
<1> QED  BY <1>8, <1>9, <1>10, <1>11

\* What a batch puts on the journal, and what it leaves of the log's state.
LEMMA PlanPlaces ==
  ASSUME SimAssumption, StoreAssumption, SimTyped, NEW b, b.log = Node, b.first \in Nat, b.lost \in Nat,
         DOMAIN b.samples \in SUBSET (0..MaxSeq),
         \A s \in DOMAIN b.samples :
           /\ b.samples[s] \in SimValues
           /\ b.samples[s] # Unplaced =>
                s \in DOMAIN truth /\ b.samples[s].tUnix - truth[s] \in (-MaxDelay)..MaxDelay
  PROVE  /\ PlanRecords(b) \in Seq(WellPlacedRecords)
         /\ PlanState(b).through \in Nat /\ PlanState(b).seen \in SUBSET (0..MaxSeq)
<1>c. Node \in Logs /\ MaxSeq \in Nat
  BY SimConstants
<1>1. PICK joined \in Nat : joined = Joined(b)
  <2>1. CASE FirstContact(b)
    <3>1. b.first - 1 \in Int /\ Max({b.first - 1, 0}) \in Nat
      BY Max2
    <3> QED  BY <2>1, <3>1 DEF Joined
  <2>2. CASE ~FirstContact(b)
    BY <2>2 DEF Joined, FirstContact, SimTyped
  <2> QED  BY <2>1, <2>2
<1>2. SeenBefore(b) \in SUBSET (0..MaxSeq)
  BY DEF SeenBefore, FirstContact, SimTyped
<1>3. PICK A \in SUBSET (0..MaxSeq) : A = Added(b) /\ A \subseteq DOMAIN b.samples
  BY DEF Added
<1>n. PICK c \in Nat : c = Cardinality(A)
  BY <1>c, InOrderIs
<1>4. PICK order \in [1..c -> A] : order = InOrder(A)
  BY <1>c, <1>n, InOrderIs
<1>5. PICK P : P = IF FirstContact(b) THEN <<Start(b.log, b.first)>> ELSE <<>>
  OBVIOUS
<1>6. P \in Seq(WellPlacedRecords)
  <2>1. PICK r : r = Start(b.log, b.first)
    OBVIOUS
  <2>2. r \in WellPlacedRecords
    BY <2>1, <1>c DEF Start, SimRecord, WellPlaced, WellPlacedRecords
  <2>3. P = <<r>> \/ P = <<>>
    BY <1>5, <2>1
  <2> QED  BY <2>2, <2>3, OneOrNone
<1>7. PICK Q : Q = LossRecords(b)
  OBVIOUS
<1>8. Q \in Seq(WellPlacedRecords)
  <2>1. PICK r : r = Loss(b.log, joined + 1, b.lost)
    OBVIOUS
  <2>2. PICK u : u = Loss(b.log, Unknown, b.lost)
    OBVIOUS
  <2>3. r \in WellPlacedRecords /\ u \in WellPlacedRecords
    BY <2>1, <2>2, <1>c DEF Loss, SimRecord, Unknown, WellPlaced, WellPlacedRecords
  <2>4. Q = <<r>> \/ Q = <<u>> \/ Q = <<>>
    BY <1>1, <1>7, <2>1, <2>2 DEF LossRecords
  <2> QED  BY <2>3, <2>4, OneOrNone
<1>9. PICK R : R = [i \in 1..c |-> Sample(b.log, order[i], b.samples[order[i]])]
  OBVIOUS
<1>10. R \in Seq(WellPlacedRecords)
  <2>1. ASSUME NEW i \in 1..c
        PROVE  R[i] \in WellPlacedRecords
    <3>1. PICK s : s = order[i] /\ s \in DOMAIN b.samples
      BY <1>3, <1>4
    <3>2. PICK v : v = b.samples[s]
      OBVIOUS
    <3>3. /\ s \in Int /\ v \in SimValues
          /\ v # Unplaced => s \in DOMAIN truth /\ v.tUnix - truth[s] \in (-MaxDelay)..MaxDelay
      BY <3>1, <3>2
    <3>4. R[i] = [kind |-> "sample", log |-> b.log, seq |-> s, value |-> v]
      BY <1>9, <3>1, <3>2 DEF Sample
    <3>5. R[i] \in [kind : {"sample"}, log : Logs, seq : Int, value : SimValues]
          /\ R[i].seq = s /\ R[i].value = v
      BY <1>c, <3>3, <3>4
    <3> QED  BY <3>3, <3>5 DEF SimRecord, WellPlaced, WellPlacedRecords
  <2>2. R \in [1..c -> WellPlacedRecords]
    BY <1>9, <2>1
  <2> QED  BY <1>n, <2>2
<1>11. PlanRecords(b) = (P \o Q) \o R
  <2>1. R = [i \in 1..Cardinality(Added(b)) |->
               LET s == InOrder(Added(b))[i] IN Sample(b.log, s, b.samples[s])]
    BY <1>3, <1>n, <1>4, <1>9
  <2> QED  BY <1>5, <1>7, <2>1 DEF PlanRecords
<1>12. (P \o Q) \o R \in Seq(WellPlacedRecords)
  <2>1. P \o Q \in Seq(WellPlacedRecords)
    BY <1>6, <1>8, ConcatIsIn
  <2> QED  BY <2>1, <1>10, ConcatIsIn
<1>14. PlanState(b).through \in Nat /\ PlanState(b).seen \in SUBSET (0..MaxSeq)
  <2>1. PICK seen \in SUBSET (0..MaxSeq) : seen = SeenBefore(b) \cup Added(b)
    BY <1>2, <1>3
  <2>2. PICK t \in Nat : t = Max({Joined(b), b.lost})
    <3>1. Joined(b) \in Int /\ b.lost \in Int
      BY <1>1
    <3>2. Max({Joined(b), b.lost}) = IF Joined(b) >= b.lost THEN Joined(b) ELSE b.lost
      BY <3>1, Max2
    <3> QED  BY <3>2, <1>1
  <2>3. Advance(seen, t) \in Nat
    BY <1>c, AdvanceIs DEF Reaches
  <2>4. PlanState(b) = [through |-> Advance(seen, t), seen |-> seen]
    BY <2>1, <2>2 DEF PlanState
  <2> QED  BY <2>3, <2>4
<1> QED  BY <1>11, <1>12, <1>14

-----------------------------------------------------------------------------
(* The steps *)

\* What is dated stays dated when boots and readings are added.
LEMMA DatedOn ==
  ASSUME SimTyped, NEW start \in [1..node.boot -> Int], WireClocked(start),
         node'.boot \in Nat, node.boot <= node'.boot, NEW later \in [1..node'.boot -> Int],
         \A b \in 1..node.boot : later[b] = start[b],
         \A s \in DOMAIN truth : s \in DOMAIN truth' /\ truth'[s] = truth[s],
         wire' = wire, wire # Nothing => clock' - wire.sent \in 0..MaxDelay
  PROVE  WireClocked(later)'
<1> SUFFICES ASSUME wire # Nothing  PROVE Dated(wire, later)'
  BY DEF WireClocked, Nothing
<1>1. node.boot \in Nat
  BY DEF SimTyped, SimNodes
<1>2. /\ wire.bootId \in 1..node.boot /\ wire.bootNow \in 1..node.boot
      /\ wire.sent - wire.uptimeNow = start[wire.bootNow]
      /\ wire.bootEpoch # 0 => start[wire.bootId] - wire.bootEpoch \in 0..MaxDelay
      /\ wire.first + Len(wire.samples) <= MaxSeq + 1 \/ Len(wire.samples) = 0
      /\ \A i \in 1..Len(wire.samples) :
           ~wire.samples[i].recordLost =>
             /\ wire.first + i - 1 \in DOMAIN truth
             /\ truth[wire.first + i - 1] = start[wire.bootId] + wire.samples[i].uptime
  BY DEF WireClocked, Dated
<1>3. /\ wire.bootId \in 1..node'.boot /\ wire.bootNow \in 1..node'.boot
      /\ later[wire.bootId] = start[wire.bootId] /\ later[wire.bootNow] = start[wire.bootNow]
  BY <1>1, <1>2
<1>4. ASSUME NEW i \in 1..Len(wire.samples), ~wire.samples[i].recordLost
      PROVE  /\ wire.first + i - 1 \in DOMAIN truth'
             /\ truth'[wire.first + i - 1] = later[wire.bootId] + wire.samples[i].uptime
  <2>1. PICK s : s = wire.first + i - 1
    OBVIOUS
  <2>2. s \in DOMAIN truth /\ truth[s] = start[wire.bootId] + wire.samples[i].uptime
    BY <1>2, <1>4, <2>1
  <2> QED  BY <1>3, <2>1, <2>2
<1> QED  BY <1>2, <1>3, <1>4 DEF Dated

LEMMA LinesStay ==
  ASSUME LinesPlaced, lines' = lines,
         \A s \in DOMAIN truth : s \in DOMAIN truth' /\ truth'[s] = truth[s]
  PROVE  LinesPlaced' /\ WellPlacedRecords \subseteq WellPlacedRecords'
<1>1. WellPlacedRecords \subseteq WellPlacedRecords'
  BY DEF WellPlacedRecords, WellPlaced, Unplaced
<1>2. Seq(WellPlacedRecords) \subseteq Seq(WellPlacedRecords')
  <2>1. ASSUME NEW S, NEW T, S \subseteq T  PROVE Seq(S) \subseteq Seq(T)
    BY <2>1
  <2> QED  BY <1>1, <2>1
<1> QED  BY <1>1, <1>2 DEF LinesPlaced

\* A second at most, with nothing that has been under way for too long.
LEMMA SecondIs ==
  ASSUME SimAssumption, StoreAssumption, SimTyped, AckClocked,
         wire # Nothing => clock - wire.sent \in 0..MaxDelay,
         Advances
  PROVE  /\ clock' = clock + 1 /\ clock' \in Nat
         /\ wire # Nothing => clock' - wire.sent \in 0..MaxDelay
         /\ air # Nothing => clock' - air.sent \in 0..MaxDelay
<1>1. /\ clock' = clock + 1
      /\ wire # Nothing => clock < wire.sent + MaxDelay
      /\ air # Nothing => clock < air.sent + MaxDelay
  BY DEF Advances
<1>2. /\ clock \in Nat /\ (wire # Nothing => wire.sent \in Int) /\ (air # Nothing => air.sent \in Int)
      /\ MaxDelay \in Nat
  BY SimConstants DEF SimTyped, Wires, Acks
<1>3. ASSUME NEW t \in Int, clock - t \in 0..MaxDelay, clock < t + MaxDelay
      PROVE  clock + 1 - t \in 0..MaxDelay
  BY <1>2, <1>3
<1>4. air # Nothing => clock - air.sent \in 0..MaxDelay
  BY DEF AckClocked
<1> QED  BY <1>1, <1>2, <1>3, <1>4

\* A node that appends a record, of a reading or of none.
LEMMA AppendKeeps ==
  ASSUME SimAssumption, StoreAssumption, SimInv, Idle, node.next <= MaxSeq, Advances,
         NEW f \in Flashes, node' = Appended(node, f),
         \A s \in DOMAIN f : \/ s \in DOMAIN node.flash /\ f[s] = node.flash[s]
                             \/ /\ s = node.next /\ s \in DOMAIN truth'
                                /\ f[s].boot = node.boot /\ f[s].uptime = Uptime + 1
                                /\ truth'[s] = clock + 1,
         DOMAIN truth' \subseteq DOMAIN truth \cup {node.next}, \A s \in DOMAIN truth' : truth'[s] \in Int,
         \A s \in DOMAIN truth : s \in DOMAIN truth' /\ truth'[s] = truth[s],
         UNCHANGED <<wire, air, lost, ackedBy, storeVars>>
  PROVE  SimInv'
<1>t. /\ SimTyped /\ AckClocked /\ LinesPlaced /\ node.boot > 0
      /\ clock \in Nat /\ node \in SimNodes /\ node.boot \in Nat /\ node.bootUnix \in Int
      /\ node.next \in 1..(MaxSeq + 1) /\ MaxSeq \in Nat
      /\ node.flash \in Flashes /\ node.epochs \in EpochMaps
      /\ wire = Nothing /\ air = Nothing
  BY DEF SimInv, SimTyped, SimNodes, Idle, StoreAssumption
<1>1. PICK start \in [1..node.boot -> Int] : NodeClocked(start) /\ WireClocked(start)
  BY DEF SimInv, Clocked
<1>2. /\ node' \in SimNodes /\ node'.boot = node.boot /\ node'.bootUnix = node.bootUnix
      /\ node'.next = node.next + 1 /\ node'.epochs = node.epochs
      /\ DOMAIN node'.flash \subseteq DOMAIN f
      /\ \A s \in DOMAIN node'.flash : node'.flash[s] = f[s]
  BY <1>t, AppendedIs
<1>3. clock' = clock + 1 /\ clock' \in Nat
  BY <1>t, SecondIs
<1>4. wire' = Nothing /\ air' = Nothing /\ tail' = tail /\ lines' = lines /\ logs' = logs
  BY <1>t DEF storeVars
<1>5. SimTyped'
  <2>1. DOMAIN truth' \subseteq 1..(node'.next - 1)
    <3>1. DOMAIN truth \subseteq 1..(node.next - 1)
      BY <1>t DEF SimTyped
    <3>2. PICK n \in Nat : n = node.next
      BY <1>t
    <3>3. node'.next = n + 1
      BY <1>2, <3>2
    <3>4. 1..(n - 1) \subseteq 1..(n + 1 - 1) /\ n \in 1..(n + 1 - 1)
      BY <1>t, <3>2
    <3>5. DOMAIN truth' \subseteq DOMAIN truth \cup {n}
      BY <1>t, <3>2
    <3> QED  BY <3>1, <3>2, <3>3, <3>4, <3>5
  <2>2. wire' = Nothing' /\ air' = Nothing'
    BY <1>4 DEF Nothing
  <2>3. /\ tail' = NoTail' /\ DOMAIN logs' \subseteq Logs
        /\ \A l \in DOMAIN logs' : logs'[l].through \in Nat /\ logs'[l].seen \in SUBSET (0..MaxSeq)
    BY <1>t, <1>4 DEF SimTyped, NoTail
  <2> QED  BY <1>2, <1>3, <2>1, <2>2, <2>3 DEF SimTyped
<1>6. NodeClocked(start)'
  <2>1. start[node'.boot] = node'.bootUnix
    BY <1>1, <1>2 DEF NodeClocked
  <2>2. ASSUME NEW s \in DOMAIN node'.flash
        PROVE  /\ s \in DOMAIN truth' /\ node'.flash[s].boot \in 1..node'.boot
               /\ truth'[s] = start[node'.flash[s].boot] + node'.flash[s].uptime
    <3>1. node'.flash[s] = f[s] /\ s \in DOMAIN f
      BY <1>2
    <3>2. CASE s \in DOMAIN node.flash /\ f[s] = node.flash[s]
      <4>1. /\ s \in DOMAIN truth /\ node.flash[s].boot \in 1..node.boot
            /\ truth[s] = start[node.flash[s].boot] + node.flash[s].uptime
        BY <1>1, <3>2 DEF NodeClocked
      <4> QED  BY <3>1, <3>2, <4>1, <1>2
    <3>3. CASE /\ s = node.next /\ s \in DOMAIN truth'
               /\ f[s].boot = node.boot /\ f[s].uptime = Uptime + 1 /\ truth'[s] = clock + 1
      <4>1. start[node.boot] = node.bootUnix
        BY <1>1 DEF NodeClocked
      <4>2. Uptime = clock - node.bootUnix
        BY DEF Uptime
      <4>3. clock + 1 = start[node.boot] + (Uptime + 1)
        BY <1>t, <4>1, <4>2
      <4>4. node.boot \in 1..node'.boot
        BY <1>t, <1>2
      <4> QED  BY <3>1, <3>3, <4>3, <4>4
    <3> QED  BY <3>1, <3>2, <3>3
  <2>3. \A b \in DOMAIN node'.epochs :
          b \in 1..node'.boot /\ start[b] - node'.epochs[b] \in 0..MaxDelay
    BY <1>1, <1>2 DEF NodeClocked
  <2> QED  BY <2>1, <2>2, <2>3 DEF NodeClocked
<1>7. WireClocked(start)' /\ AckClocked'
  BY <1>4 DEF WireClocked, AckClocked, Nothing
<1>8. Clocked'
  BY <1>2, <1>6, <1>7 DEF Clocked
<1>9. LinesPlaced'
  BY <1>t, <1>4, LinesStay
<1> QED  BY <1>2, <1>5, <1>7, <1>8, <1>9, <1>t DEF SimInv

LEMMA TakeKeeps ==
  ASSUME SimAssumption, StoreAssumption, SimInv, Take
  PROVE  SimInv'
<1>t. /\ clock \in Nat /\ node \in SimNodes /\ node.boot \in Nat /\ node.bootUnix \in Int
      /\ node.next \in Nat /\ node.next >= 1 /\ node.next <= MaxSeq /\ MaxSeq \in Nat
      /\ node.flash \in Flashes
  BY DEF SimInv, SimTyped, SimNodes, StoreAssumption, Take
<1>d. DOMAIN truth \subseteq 1..(node.next - 1) /\ \A s \in DOMAIN truth : truth[s] \in Int
  BY DEF SimInv, SimTyped
<1>1. PICK f : f = [s \in DOMAIN node.flash \cup {node.next} |->
                      IF s = node.next THEN [boot |-> node.boot, uptime |-> Uptime + 1]
                      ELSE node.flash[s]]
  OBVIOUS
<1>2. PICK r : r = [boot |-> node.boot, uptime |-> Uptime + 1]
  OBVIOUS
<1>3. r \in FlashRecord /\ r.boot = node.boot /\ r.uptime = Uptime + 1
  <2>1. Uptime + 1 \in Int
    BY <1>t DEF Uptime
  <2> QED  BY <1>2, <1>t, <2>1 DEF FlashRecord
<1>4. DOMAIN f = DOMAIN node.flash \cup {node.next} /\ f[node.next] = r
      /\ \A s \in DOMAIN node.flash : s # node.next => f[s] = node.flash[s]
  BY <1>1, <1>2
<1>5. f \in Flashes
  <2>1. DOMAIN node.flash \subseteq 1..MaxSeq /\ \A s \in DOMAIN node.flash : node.flash[s] \in FlashRecord
    BY <1>t, FlashIs
  <2>2. DOMAIN node.flash \cup {node.next} \in SUBSET (1..MaxSeq)
    BY <2>1, <1>t
  <2>3. f \in [DOMAIN node.flash \cup {node.next} -> FlashRecord]
    BY <1>1, <1>2, <1>3, <2>1
  <2> QED  BY <2>2, <2>3, IsFlash
<1>6. /\ Idle /\ Advances /\ node' = Appended(node, f)
      /\ truth' = [s \in DOMAIN truth \cup {node.next} |-> IF s = node.next THEN clock + 1 ELSE truth[s]]
      /\ UNCHANGED <<wire, air, lost, ackedBy, storeVars>>
  BY <1>1 DEF Take
<1>7. /\ DOMAIN truth' = DOMAIN truth \cup {node.next} /\ truth'[node.next] = clock + 1
      /\ \A s \in DOMAIN truth : s # node.next /\ truth'[s] = truth[s]
  <2>1. \A s \in DOMAIN truth : s # node.next
    BY <1>d, <1>t
  <2> QED  BY <1>6, <2>1
<1>8. \A s \in DOMAIN truth' : truth'[s] \in Int
  BY <1>7, <1>d, <1>t
<1>9. \A s \in DOMAIN f : \/ s \in DOMAIN node.flash /\ f[s] = node.flash[s]
                          \/ /\ s = node.next /\ s \in DOMAIN truth'
                             /\ f[s].boot = node.boot /\ f[s].uptime = Uptime + 1
                             /\ truth'[s] = clock + 1
  BY <1>3, <1>4, <1>7
<1> QED  BY <1>5, <1>6, <1>7, <1>8, <1>9, <1>t, AppendKeeps

LEMMA BurnKeeps ==
  ASSUME SimAssumption, StoreAssumption, SimInv, Burn
  PROVE  SimInv'
<1>1. node.flash \in Flashes /\ \A s \in DOMAIN truth : truth[s] \in Int
  BY DEF SimInv, SimTyped, SimNodes
<1>2. /\ Idle /\ node.next <= MaxSeq /\ Advances /\ node' = Appended(node, node.flash)
      /\ truth' = truth /\ UNCHANGED <<wire, air, lost, ackedBy, storeVars>>
  BY DEF Burn
<1> QED  BY <1>1, <1>2, AppendKeeps

\* What leaves the journal, the log and the readings alone.
LEMMA QuietTyped ==
  ASSUME SimTyped, clock' \in Nat, node' \in SimNodes, node'.next = node.next, truth' = truth,
         wire' = wire \/ wire' = Nothing \/ wire' \in Wires, air' = air \/ air' = Nothing,
         UNCHANGED storeVars
  PROVE  SimTyped'
<1>1. lines' = lines /\ tail' = tail /\ logs' = logs
  BY DEF storeVars
<1>2. Nothing' = Nothing /\ NoTail' = NoTail /\ Wires' = Wires /\ Acks' = Acks /\ SimNodes' = SimNodes
  BY DEF Nothing, NoTail, Wires, Acks, SimNodes
<1>3. (wire' = Nothing \/ wire' \in Wires) /\ (air' = Nothing \/ air' \in Acks)
  BY DEF SimTyped
<1>4. DOMAIN truth' \subseteq 1..(node'.next - 1) /\ \A s \in DOMAIN truth' : truth'[s] \in Int
  BY DEF SimTyped
<1>5. /\ tail' = NoTail /\ DOMAIN logs' \subseteq Logs
      /\ \A l \in DOMAIN logs' : logs'[l].through \in Nat /\ logs'[l].seen \in SUBSET (0..MaxSeq)
  BY <1>1 DEF SimTyped
<1> QED  BY <1>2, <1>3, <1>4, <1>5 DEF SimTyped

LEMMA AckKeeps ==
  ASSUME SimAssumption, StoreAssumption, SimInv, NEW through \in Nat, NEW hostUnix \in Int,
         clock - hostUnix \in 0..MaxDelay, node' = ApplyAck(node, through, hostUnix),
         air' = air \/ air' = Nothing, UNCHANGED <<clock, truth, wire, storeVars>>
  PROVE  SimInv'
<1>t. /\ SimTyped /\ AckClocked /\ LinesPlaced /\ node.boot > 0
      /\ clock \in Nat /\ node \in SimNodes /\ node.boot \in Nat /\ node.bootUnix \in Int
  BY DEF SimInv, SimTyped, SimNodes
<1>1. PICK start \in [1..node.boot -> Int] : NodeClocked(start) /\ WireClocked(start)
  BY DEF SimInv, Clocked
<1>2. /\ node' \in SimNodes /\ node'.boot = node.boot /\ node'.bootUnix = node.bootUnix
      /\ node'.next = node.next /\ node'.flash = node.flash
      /\ \A b \in DOMAIN node'.epochs :
           \/ b \in DOMAIN node.epochs /\ node'.epochs[b] = node.epochs[b]
           \/ b = node.boot /\ node'.epochs[b] = hostUnix - (clock - node.bootUnix)
  <2>1. clock \in Int
    BY <1>t
  <2>2. LET m == ApplyAck(node, through, hostUnix) IN
        /\ m \in SimNodes /\ m.boot = node.boot /\ m.bootUnix = node.bootUnix /\ m.next = node.next
        /\ m.flash = node.flash
        /\ \A b \in DOMAIN m.epochs :
             \/ b \in DOMAIN node.epochs /\ m.epochs[b] = node.epochs[b]
             \/ b = node.boot /\ m.epochs[b] = hostUnix - (clock - node.bootUnix)
    BY <1>t, <2>1, ApplyAckIs, ZenonT(40)
  <2> QED  BY <2>2
<1>3. clock' = clock /\ truth' = truth /\ wire' = wire /\ UNCHANGED storeVars /\ lines' = lines
  BY DEF storeVars
<1>4. SimTyped'
  BY <1>t, <1>2, <1>3, QuietTyped
<1>n. /\ start[node.boot] = node.bootUnix
      /\ \A s \in DOMAIN node.flash :
           /\ s \in DOMAIN truth /\ node.flash[s].boot \in 1..node.boot
           /\ truth[s] = start[node.flash[s].boot] + node.flash[s].uptime
      /\ \A b \in DOMAIN node.epochs :
           b \in 1..node.boot /\ start[b] - node.epochs[b] \in 0..MaxDelay
  BY <1>1 DEF NodeClocked
<1>5. NodeClocked(start)'
  <2>1. ASSUME NEW b \in DOMAIN node'.epochs
        PROVE  b \in 1..node'.boot /\ start[b] - node'.epochs[b] \in 0..MaxDelay
    <3>1. CASE b \in DOMAIN node.epochs /\ node'.epochs[b] = node.epochs[b]
      BY <3>1, <1>n, <1>2
    <3>2. CASE b = node.boot /\ node'.epochs[b] = hostUnix - (clock - node.bootUnix)
      <4>1. node.bootUnix - (hostUnix - (clock - node.bootUnix)) = clock - hostUnix
        BY <1>t
      <4> QED  BY <3>2, <4>1, <1>n, <1>2, <1>t
    <3> QED  BY <3>1, <3>2, <1>2
  <2>2. /\ start[node'.boot] = node'.bootUnix
        /\ \A s \in DOMAIN node'.flash :
             /\ s \in DOMAIN truth' /\ node'.flash[s].boot \in 1..node'.boot
             /\ truth'[s] = start[node'.flash[s].boot] + node'.flash[s].uptime
    BY <1>n, <1>2, <1>3
  <2> QED  BY <2>1, <2>2 DEF NodeClocked
<1>6. WireClocked(start)'
  BY <1>1, <1>2, <1>3 DEF WireClocked, Dated, Nothing
<1>7. AckClocked'
  BY <1>t, <1>3 DEF AckClocked, Nothing
<1>8. Clocked'
  BY <1>2, <1>5, <1>6 DEF Clocked
<1>9. LinesPlaced'
  BY <1>t, <1>3, LinesStay
<1> QED  BY <1>2, <1>4, <1>7, <1>8, <1>9, <1>t DEF SimInv

LEMMA GatewayKeeps ==
  ASSUME SimAssumption, StoreAssumption, SimInv, GatewayToNode
  PROVE  SimInv'
<1>1. air \in Acks /\ air.hostUnix = air.sent /\ clock - air.sent \in 0..MaxDelay
  BY DEF SimInv, SimTyped, AckClocked, GatewayToNode
<1>2. air.through \in Nat /\ air.hostUnix \in Int /\ clock - air.hostUnix \in 0..MaxDelay
  BY <1>1 DEF Acks
<1>3. /\ node' = ApplyAck(node, air.through, air.hostUnix) /\ air' = Nothing
      /\ UNCHANGED <<clock, truth, wire, storeVars>>
  BY DEF GatewayToNode
<1> QED  BY <1>2, <1>3, AckKeeps

LEMMA ForeignKeeps ==
  ASSUME SimAssumption, StoreAssumption, SimInv, NEW seq \in 0..MaxSeq, ForeignAck(seq)
  PROVE  SimInv'
<1>1. clock \in Int /\ seq \in Nat /\ clock - clock \in 0..MaxDelay
  BY SimConstants DEF SimInv, SimTyped
<1>2. /\ node' = ApplyAck(node, seq, clock) /\ air' = air
      /\ UNCHANGED <<clock, truth, wire, storeVars>>
  BY DEF ForeignAck
<1> QED  BY <1>1, <1>2, AckKeeps

LEMMA RebootKeeps ==
  ASSUME SimAssumption, StoreAssumption, SimInv, Reboot
  PROVE  SimInv'
<1>t. /\ SimTyped /\ AckClocked /\ LinesPlaced /\ node.boot > 0
      /\ clock \in Nat /\ node \in SimNodes /\ node.boot \in Nat /\ node.bootUnix \in Int
  BY DEF SimInv, SimTyped, SimNodes
<1>1. PICK start \in [1..node.boot -> Int] : NodeClocked(start) /\ WireClocked(start)
  BY DEF SimInv, Clocked
<1>2. PICK n \in Nat, at \in Int : n = node.boot + 1 /\ at = clock + 1
  BY <1>t
<1>3. /\ node' = [node EXCEPT !.boot = n, !.bootUnix = at] /\ Advances
      /\ truth' = truth /\ wire' = wire /\ air' = air /\ UNCHANGED storeVars /\ lines' = lines
  BY <1>2 DEF Reboot, storeVars
<1>4. /\ node' \in SimNodes /\ node'.boot = n /\ node'.bootUnix = at /\ node'.next = node.next
      /\ node'.flash = node.flash /\ node'.epochs = node.epochs
  BY <1>t, <1>2, <1>3 DEF SimNodes
<1>5. PICK later : later = [b \in 1..n |-> IF b = n THEN at ELSE start[b]]
  OBVIOUS
<1>6. /\ later \in [1..n -> Int] /\ later[n] = at /\ n \in 1..n
      /\ \A b \in 1..node.boot : b \in 1..n /\ later[b] = start[b]
  BY <1>t, <1>2, <1>5
<1>7. /\ clock' = clock + 1 /\ clock' \in Nat
      /\ wire # Nothing => clock' - wire.sent \in 0..MaxDelay
      /\ air # Nothing => clock' - air.sent \in 0..MaxDelay
  <2>1. wire # Nothing => clock - wire.sent \in 0..MaxDelay
    BY <1>1 DEF WireClocked
  <2> QED  BY <1>t, <1>3, <2>1, SecondIs
<1>8. SimTyped'
  BY <1>t, <1>3, <1>4, <1>7, QuietTyped
<1>9. NodeClocked(later)'
  <2>1. /\ \A s \in DOMAIN node.flash :
             /\ s \in DOMAIN truth /\ node.flash[s].boot \in 1..node.boot
             /\ truth[s] = start[node.flash[s].boot] + node.flash[s].uptime
        /\ \A b \in DOMAIN node.epochs :
             b \in 1..node.boot /\ start[b] - node.epochs[b] \in 0..MaxDelay
    BY <1>1 DEF NodeClocked
  <2> QED  BY <2>1, <1>3, <1>4, <1>6 DEF NodeClocked
<1>10. WireClocked(later)'
  <2>1. node'.boot \in Nat /\ node.boot <= node'.boot /\ later \in [1..node'.boot -> Int]
    BY <1>t, <1>2, <1>4, <1>6
  <2>2. /\ \A b \in 1..node.boot : later[b] = start[b]
        /\ \A s \in DOMAIN truth : s \in DOMAIN truth' /\ truth'[s] = truth[s]
    BY <1>3, <1>6
  <2> QED  BY <1>t, <1>1, <1>3, <1>7, <2>1, <2>2, DatedOn
<1>11. AckClocked'
  BY <1>t, <1>3, <1>7 DEF AckClocked, Nothing
<1>12. Clocked' /\ node'.boot > 0
  BY <1>t, <1>2, <1>4, <1>6, <1>9, <1>10 DEF Clocked
<1>13. LinesPlaced'
  BY <1>t, <1>3, LinesStay
<1> QED  BY <1>8, <1>11, <1>12, <1>13 DEF SimInv

\* Time passes, a batch goes out, or something under way is lost.
LEMMA OtherKeeps ==
  ASSUME SimAssumption, StoreAssumption, SimInv, Send \/ Loses \/ Delay \/ UNCHANGED simVars
  PROVE  SimInv'
<1>t. /\ SimTyped /\ AckClocked /\ LinesPlaced /\ node.boot > 0
      /\ clock \in Nat /\ node \in SimNodes /\ node.boot \in Nat
  BY DEF SimInv, SimTyped, SimNodes
<1>1. PICK start \in [1..node.boot -> Int] : NodeClocked(start) /\ WireClocked(start)
  BY DEF SimInv, Clocked
<1>2. /\ node' = node /\ truth' = truth /\ UNCHANGED storeVars /\ lines' = lines
  BY DEF Send, Loses, Delay, simVars, storeVars
<1>3. /\ clock' \in Nat
      /\ wire # Nothing => clock' - wire.sent \in 0..MaxDelay
      /\ air # Nothing => clock' - air.sent \in 0..MaxDelay
  <2>1. /\ wire # Nothing => clock - wire.sent \in 0..MaxDelay
        /\ air # Nothing => clock - air.sent \in 0..MaxDelay
    BY <1>1, <1>t DEF WireClocked, AckClocked
  <2>2. CASE Delay
    BY <1>t, <2>1, <2>2, SecondIs DEF Delay
  <2>3. CASE Send \/ Loses \/ UNCHANGED simVars
    <3>1. clock' = clock
      BY <2>3 DEF Send, Loses, simVars
    <3> QED  BY <3>1, <2>1, <1>t
  <2> QED  BY <2>2, <2>3
<1>4. \/ wire' = wire \/ wire' = Nothing
      \/ wire' = Batch /\ clock' = clock
  BY DEF Send, Loses, Delay, simVars
<1>5. Batch \in Wires /\ Batch.sent = clock /\ Dated(Batch, start)
  BY <1>t, <1>1, SentBatchIs
<1>6. air' = air \/ air' = Nothing
  BY DEF Send, Loses, Delay, simVars
<1>7. SimTyped'
  BY <1>t, <1>2, <1>3, <1>4, <1>5, <1>6, QuietTyped
<1>8. NodeClocked(start)'
  BY <1>1, <1>2 DEF NodeClocked
<1>9. WireClocked(start)'
  <2>1. CASE wire' = wire
    BY <1>t, <1>1, <1>2, <1>3, <2>1, DatedOn
  <2>2. CASE wire' = Nothing
    BY <2>2 DEF WireClocked, Nothing
  <2>3. CASE wire' = Batch /\ clock' = clock
    <3>1. PICK w : w = Batch
      OBVIOUS
    <3>2. Dated(w, start)'
      <4>1. Dated(w, start)
        BY <3>1, <1>5
      <4> QED  BY <4>1, <1>2 DEF Dated
    <3>3. wire' = w /\ clock' - w.sent \in 0..MaxDelay
      BY <3>1, <2>3, <1>5, <1>t, SimConstants
    <3> QED  BY <3>2, <3>3 DEF WireClocked, Dated
  <2> QED  BY <1>4, <2>1, <2>2, <2>3
<1>10. AckClocked'
  BY <1>t, <1>3, <1>6 DEF AckClocked, Nothing
<1>11. Clocked'
  BY <1>2, <1>8, <1>9 DEF Clocked
<1>12. LinesPlaced'
  BY <1>t, <1>2, LinesStay
<1> QED  BY <1>2, <1>7, <1>10, <1>11, <1>12, <1>t DEF SimInv

LEMMA StoringKeeps ==
  ASSUME SimAssumption, StoreAssumption, SimInv, BridgeHandlesLine
  PROVE  SimInv'
<1>t. /\ SimTyped /\ AckClocked /\ LinesPlaced /\ node.boot > 0
      /\ clock \in Nat /\ node \in SimNodes /\ node.boot \in Nat
      /\ DOMAIN logs \subseteq Logs /\ tail = NoTail
      /\ \A l \in DOMAIN logs : logs[l].through \in Nat /\ logs[l].seen \in SUBSET (0..MaxSeq)
  BY DEF SimInv, SimTyped, SimNodes
<1>c. Node \in Logs /\ MaxDelay \in Nat
  BY SimConstants
<1>1. PICK start \in [1..node.boot -> Int] : NodeClocked(start) /\ WireClocked(start)
  BY DEF SimInv, Clocked
<1>2. /\ wire # Nothing /\ Ingest(Decoded(wire)) /\ wire' = Nothing
      /\ air' = [through |-> logs'[Node].through, hostUnix |-> clock, sent |-> clock]
      /\ node' = node /\ clock' = clock /\ truth' = truth
  BY DEF BridgeHandlesLine
<1>3. PICK b : b = Decoded(wire)
  OBVIOUS
<1>4. /\ b.log = Node /\ b.first \in Nat /\ b.lost \in Nat
      /\ DOMAIN b.samples \in SUBSET (0..MaxSeq)
      /\ \A s \in DOMAIN b.samples :
           /\ b.samples[s] \in SimValues
           /\ b.samples[s] # Unplaced =>
                s \in DOMAIN truth /\ b.samples[s].tUnix - truth[s] \in (-MaxDelay)..MaxDelay
  BY <1>t, <1>1, <1>2, <1>3, DecodedIs
<1>5. /\ PlanRecords(b) \in Seq(WellPlacedRecords)
      /\ PlanState(b).through \in Nat /\ PlanState(b).seen \in SUBSET (0..MaxSeq)
  BY <1>t, <1>4, PlanPlaces
<1>6. /\ lines' = lines \o PlanRecords(b) /\ tail' = NoTail
      /\ logs' = [l \in DOMAIN logs \cup {Node} |-> IF l = Node THEN PlanState(b) ELSE logs[l]]
  <2>1. Ingest(b)
    BY <1>2, <1>3
  <2> QED  BY <2>1, <1>4, <1>t DEF Ingest, Behind
<1>7. /\ DOMAIN logs' \subseteq Logs /\ logs'[Node].through \in Nat
      /\ \A l \in DOMAIN logs' : logs'[l].through \in Nat /\ logs'[l].seen \in SUBSET (0..MaxSeq)
  BY <1>5, <1>6, <1>c, <1>t
<1>8. air' \in Acks /\ air'.hostUnix = clock /\ air'.sent = clock
  <2>1. PICK th \in Nat : th = logs'[Node].through
    BY <1>7
  <2>2. air' = [through |-> th, hostUnix |-> clock, sent |-> clock]
    BY <1>2, <2>1
  <2> QED  BY <2>2, <1>t DEF Acks
<1>9. SimTyped'
  <2>1. Nothing' = Nothing /\ NoTail' = NoTail /\ Acks' = Acks /\ SimNodes' = SimNodes
    BY DEF Nothing, NoTail, Acks, SimNodes
  <2>2. DOMAIN truth' \subseteq 1..(node'.next - 1) /\ \A s \in DOMAIN truth' : truth'[s] \in Int
    BY <1>t, <1>2 DEF SimTyped
  <2> QED  BY <1>2, <1>6, <1>7, <1>8, <1>t, <2>1, <2>2 DEF SimTyped
<1>10. NodeClocked(start)' /\ WireClocked(start)'
  BY <1>1, <1>2 DEF NodeClocked, WireClocked, Nothing
<1>11. Clocked'
  BY <1>2, <1>10 DEF Clocked
<1>12. AckClocked'
  BY <1>8, <1>2, <1>c, <1>t DEF AckClocked
<1>13. LinesPlaced'
  <2>1. lines \in Seq(WellPlacedRecords)
    BY <1>t DEF LinesPlaced
  <2>2. lines' \in Seq(WellPlacedRecords)
    BY <2>1, <1>5, <1>6, ConcatIsIn
  <2>3. WellPlacedRecords' = WellPlacedRecords
    BY <1>2 DEF WellPlacedRecords, WellPlaced, Unplaced
  <2> QED  BY <2>2, <2>3 DEF LinesPlaced
<1> QED  BY <1>2, <1>9, <1>11, <1>12, <1>13, <1>t DEF SimInv

LEMMA SimStarts ==
  ASSUME SimAssumption, StoreAssumption, SimInit
  PROVE  SimInv
<1>1. /\ clock = 1 /\ node = [boot |-> 1, bootUnix |-> 1, next |-> 1, oldest |-> 1, acked |-> 0,
                              flash |-> <<>>, epochs |-> <<>>]
      /\ truth = <<>> /\ wire = Nothing /\ air = Nothing
      /\ lines = <<>> /\ tail = NoTail /\ logs = <<>>
  BY DEF SimInit
<1>2. <<>> \in Flashes /\ <<>> \in EpochMaps
  <2>1. <<>> \in [{} -> FlashRecord] /\ <<>> \in [{} -> Int]
    OBVIOUS
  <2> QED  BY <2>1, IsFlash, IsEpochs
<1>3. node \in SimNodes
  <2>1. 1 \in 1..(MaxSeq + 1)
    BY SimConstants
  <2> QED  BY <1>1, <1>2, <2>1 DEF SimNodes
<1>4. DOMAIN truth = {} /\ DOMAIN logs = {}
  BY <1>1
<1>5. SimTyped
  BY <1>1, <1>3, <1>4 DEF SimTyped
<1>6. Clocked
  <2>1. PICK start : start = [b \in 1..1 |-> 1]
    OBVIOUS
  <2>2. start \in [1..node.boot -> Int] /\ start[node.boot] = node.bootUnix
    BY <1>1, <2>1
  <2>3. DOMAIN node.flash = {} /\ DOMAIN node.epochs = {}
    BY <1>1
  <2>4. NodeClocked(start) /\ WireClocked(start)
    BY <1>1, <2>2, <2>3 DEF NodeClocked, WireClocked
  <2> QED  BY <2>2, <2>4 DEF Clocked
<1>7. AckClocked /\ LinesPlaced /\ node.boot > 0
  BY <1>1 DEF AckClocked, LinesPlaced
<1> QED  BY <1>5, <1>6, <1>7 DEF SimInv

\* Boots, readings, batches, acks of this bridge and of others, losses and delays:
\* none of them takes a reading further from its moment than something can be under way.
THEOREM SimPlacesNearTruth ==
  ASSUME SimAssumption, StoreAssumption
  PROVE  SimSpec => []PlacedNearTruth
<1>1. SimInit => SimInv
  BY SimStarts
<1>2. SimInv /\ [SimNext]_simVars => SimInv'
  <2> SUFFICES ASSUME SimInv, [SimNext]_simVars  PROVE SimInv'
    OBVIOUS
  <2>1. ASSUME NEW seq \in 0..MaxSeq, ForeignAck(seq)  PROVE SimInv'
    BY <2>1, ForeignKeeps
  <2> QED
    BY <2>1, TakeKeeps, BurnKeeps, RebootKeeps, StoringKeeps, GatewayKeeps, OtherKeeps DEF SimNext
<1>3. SimInv => PlacedNearTruth
  <2> SUFFICES ASSUME SimInv, NEW i \in DOMAIN lines, lines[i].kind = "sample", lines[i].value # Unplaced
               PROVE  /\ lines[i].seq \in DOMAIN truth
                      /\ lines[i].value.tUnix - truth[lines[i].seq] \in (-MaxDelay)..MaxDelay
    BY DEF PlacedNearTruth
  <2>1. lines \in Seq(WellPlacedRecords)
    BY DEF SimInv, LinesPlaced
  <2>2. lines[i] \in WellPlacedRecords
    BY <2>1
  <2> QED  BY <2>2 DEF WellPlacedRecords, WellPlaced
<1> QED  BY <1>1, <1>2, <1>3, PTL DEF SimSpec

=============================================================================
