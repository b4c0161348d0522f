------------------------- MODULE MeshControlProofs -------------------------
(***************************************************************************)
(* Theorems about the mesh control plane: for any number of requests that   *)
(* overlap, of channels, of copies and of restarts, the books of the open   *)
(* channel cover what a board was promised, and forwards sent one at a time *)
(* with nothing lost are taken.                                             *)
(***************************************************************************)
EXTENDS MeshControl, FiniteSetTheorems, SequenceTheorems, TLAPS

-----------------------------------------------------------------------------
(* The sets the records of the state come from *)

Certs == [chan: ChannelIds, edge: ChannelIds, expiry: {NoExpiry}, from: Nat,
          domain: {RelayDomain}]

Pays == [id: ChannelIds, seq: Nat, deviceShare: Nat, userShare: {0}, expiry: {1}, hash: Nat]

Keys == ChannelIds \cup {RandomKey}

CertCells == [kind: {"cert"}, cert: Certs]
CellsV1 == [kind: {"v1"}, pay: Pays, key: Keys]
CellsA == [kind: {"v2a"}, flow: Pays, key: Keys]
CellsB == [kind: {"v2b"}, pay: Pays]
SettleCells == [kind: {"settle"}, chan: ChannelIds, seq: Nat, share: Nat]

Cells == {NoCell, CellV0, PlainCell} \cup CertCells \cup CellsV1 \cup CellsA \cup CellsB
           \cup SettleCells

Places == {"idle", "certing", "settle", "sending", "gap", "funding", "settling", "evidence",
           "wallet", "anchoring"}

Routes == {"v0", "v1", "v2", "bad", "cert", "open", "plain", "pay", "scada"}

ReqSpace ==
  [at: Places, kind: Routes \cup {"none"}, chan: ChannelIds, seq: Nat,
   cell: Cells, then: CellsB \cup {NoCell}, left: Nat]

Ledgers == [accum: Nat, finalSeq: Nat, settled: BOOLEAN]

Boards == [table: [Slots -> Certs \cup {Free}], burst: CellsA \cup {NoCell},
           fwd: Channels(ChannelIds, Nat, Nat, {0, 1})]

HostTyped ==
  /\ chan \in ChannelIds /\ active = chan
  /\ flag \in BOOLEAN
  /\ certHashes \in [ChannelIds -> Nat]
  /\ seqs \in [v1: Nat, v2: Nat]
  /\ books \in [ChannelIds -> Ledgers] /\ books[NoId].settled
  /\ clock \in Nat /\ unbooked \in Nat

PlantTyped ==
  /\ stage \in Cells
  /\ board \in Boards
  /\ chain \in [Funded -> {"none", "funded", "spent"}]
  /\ calm \in BOOLEAN

ControlTyped ==
  /\ HostTyped
  /\ PlantTyped
  /\ reqs \in [Requests -> ReqSpace]
  /\ line \in Seq(Requests)

LEMMA Constants ==
  /\ TableMax \in Nat \ {0} /\ HopCost \in Nat \ {0} /\ Threshold \in Nat \ {0}
  /\ EvidenceCopies \in Nat \ {0} /\ Capacity \in Nat /\ MaxSeq \in Nat
  /\ MaxChannels \in Nat
  /\ Kinds \subseteq Routes
  /\ NoId \in ChannelIds /\ NoId \notin Funded /\ Funded \subseteq ChannelIds
  /\ ChannelIds = Funded \cup {NoId}
  /\ IsFiniteSet(Requests)
  /\ Free \notin Certs
BY ControlAssumption DEF Routes, ChannelIds, Funded, Certs

LEMMA Product ==
  ASSUME NEW h \in Nat, NEW a \in Int, NEW b \in Int
  PROVE  /\ h * a \in Int
         /\ h * (a + b) = h * a + h * b
         /\ a <= b => h * a <= h * b
         /\ a \in Nat => h * a \in Nat
         /\ (2 * h) * a = 2 * (h * a)
         /\ a * h = h * a
OBVIOUS

-----------------------------------------------------------------------------
(* Cells and requests *)

LEMMA CellsAre ==
  /\ NoCell \in Cells /\ CellV0 \in Cells /\ PlainCell \in Cells
  /\ NoCell.kind = "none" /\ CellV0.kind = "v0" /\ PlainCell.kind = "plain"
  /\ \A c \in ChannelIds, n \in Nat :
       /\ CertCell(c, n) \in CertCells /\ CertCell(c, n) \in Cells
       /\ CertCell(c, n).kind = "cert"
  /\ CellsV1 \subseteq Cells /\ CellsA \subseteq Cells /\ CellsB \subseteq Cells
  /\ SettleCells \subseteq Cells
<1>1. ASSUME NEW c \in ChannelIds, NEW n \in Nat
      PROVE  CertCell(c, n) \in CertCells /\ CertCell(c, n).kind = "cert"
  BY DEF CertCell, CertCells, Certs, RelayKey, Rail
<1> QED  BY <1>1 DEF Cells, NoCell, CellV0, PlainCell

LEMMA CommitmentIs ==
  ASSUME HostTyped, NEW c \in ChannelIds, NEW n \in Nat
  PROVE  LET pay == Commitment(c, n) IN
         /\ pay \in Pays /\ pay.id = c /\ pay.seq = n /\ pay.deviceShare = n * HopCost
         /\ pay.hash = certHashes[c]
<1>1. n * HopCost \in Nat /\ certHashes[c] \in Nat
  BY Constants, Product DEF HostTyped
<1> QED  BY <1>1 DEF Commitment, Pays

LEMMA ForwardCells ==
  ASSUME NEW pay \in Pays, NEW key \in Keys
  PROVE  /\ ForwardCell(pay, key) \in CellsV1
         /\ CellA(pay, key) \in CellsA
         /\ CellB(pay) \in CellsB
BY DEF ForwardCell, CellsV1, CellA, CellsA, CellB, CellsB

LEMMA RelayKeys ==
  /\ \A c \in ChannelIds : RelayKey(c) \in Keys
  /\ RandomKey \in Keys
BY DEF RelayKey, Keys

LEMMA IdleIs ==
  /\ Idle \in ReqSpace /\ Idle.at = "idle" /\ Idle.cell = NoCell /\ Idle.then = NoCell
  /\ Idle.chan = NoId
BY CellsAre, Constants DEF Idle, ReqSpace, Places

LEMMA PlaceSet ==
  ASSUME NEW q \in ReqSpace, NEW p \in Places
  PROVE  LET u == [q EXCEPT !.at = p] IN
         /\ u \in ReqSpace /\ u.at = p /\ u.cell = q.cell /\ u.then = q.then /\ u.chan = q.chan
         /\ u.kind = q.kind
BY DEF ReqSpace

\* A request that did not count a forward, or did.
Counts(q) == q.at \in {"sending", "gap"} /\ q.kind \in {"v1", "v2", "bad"}

\* How many requests have a forward under way, when one request changes.
LEMMA UnderwayMoves ==
  ASSUME ControlTyped, NEW r \in Requests, NEW q, reqs' = [reqs EXCEPT ![r] = q]
  PROVE  /\ Cardinality(Underway) \in Nat /\ Cardinality(Underway') \in Nat
         /\ Counts(reqs[r]) /\ Counts(q) => Underway' = Underway
         /\ ~Counts(reqs[r]) /\ ~Counts(q) => Underway' = Underway
         /\ ~Counts(reqs[r]) /\ Counts(q) => Cardinality(Underway') = Cardinality(Underway) + 1
         /\ Counts(reqs[r]) /\ ~Counts(q) => Cardinality(Underway') = Cardinality(Underway) - 1
<1>1. Underway = {s \in Requests : Counts(reqs[s])} /\ Underway' = {s \in Requests : Counts(reqs'[s])}
  BY DEF Underway, Counts
<1>2. \A s \in Requests : reqs'[s] = IF s = r THEN q ELSE reqs[s]
  BY DEF ControlTyped
<1>3. IsFiniteSet(Underway) /\ IsFiniteSet(Underway')
  BY <1>1, Constants, FS_Subset
<1>4. Cardinality(Underway) \in Nat /\ Cardinality(Underway') \in Nat
  BY <1>3, FS_CardinalityType
<1>5. ASSUME ~Counts(reqs[r]), Counts(q) PROVE Cardinality(Underway') = Cardinality(Underway) + 1
  <2>1. Underway' = Underway \cup {r} /\ r \notin Underway
    BY <1>1, <1>2, <1>5
  <2> QED  BY <1>3, <2>1, FS_AddElement
<1>6. ASSUME Counts(reqs[r]), ~Counts(q) PROVE Cardinality(Underway') = Cardinality(Underway) - 1
  <2>1. Underway' = Underway \ {r} /\ r \in Underway
    BY <1>1, <1>2, <1>6
  <2> QED  BY <1>3, <2>1, FS_RemoveElement
<1>7. ASSUME Counts(reqs[r]), Counts(q) PROVE Underway' = Underway
  BY <1>1, <1>2, <1>7
<1>8. ASSUME ~Counts(reqs[r]), ~Counts(q) PROVE Underway' = Underway
  BY <1>1, <1>2, <1>8
<1> QED  BY <1>4, <1>5, <1>6, <1>7, <1>8

-----------------------------------------------------------------------------
(* The requests that wait for the port *)

InLine == {"certing", "sending", "evidence"}

\* A request is in the queue of the port once, and only with a cell to write.
LineFits ==
  /\ \A i \in 1..Len(line) : reqs[line[i]].at \in InLine
  /\ \A i, j \in 1..Len(line) : line[i] = line[j] => i = j

LEMMA LineMoves ==
  ASSUME ControlTyped, LineFits, NEW r \in Requests, NEW q, reqs' = [reqs EXCEPT ![r] = q],
         \/ reqs[r].at \notin InLine /\ line' = line
         \/ reqs[r].at \notin InLine /\ q.at \in InLine /\ line' = Append(line, r)
         \/ line # <<>> /\ r = Head(line) /\ line' = Tail(line)
         \/ line # <<>> /\ r = Head(line) /\ q.at \in InLine /\ line' = Append(Tail(line), r)
  PROVE  LineFits' /\ line' \in Seq(Requests)
<1>t. line \in Seq(Requests) /\ \A s \in Requests : reqs'[s] = IF s = r THEN q ELSE reqs[s]
  BY DEF ControlTyped
<1>n. PICK n \in Nat : n = Len(line)
  BY <1>t
<1>l. /\ \A i \in 1..n : line[i] \in Requests /\ reqs[line[i]].at \in InLine
      /\ \A i, j \in 1..n : line[i] = line[j] => i = j
  BY <1>t, <1>n DEF LineFits
<1>1. CASE reqs[r].at \notin InLine /\ line' = line
  BY <1>t, <1>n, <1>l, <1>1 DEF LineFits
<1>2. CASE reqs[r].at \notin InLine /\ q.at \in InLine /\ line' = Append(line, r)
  <2>1. /\ line' \in Seq(Requests) /\ Len(line') = n + 1
        /\ \A i \in 1..n : line'[i] = line[i]
        /\ line'[n + 1] = r
    BY <1>t, <1>n, <1>2
  <2>2. \A i \in 1..n : line[i] # r
    BY <1>l, <1>2
  <2>3. \A i \in 1..(n + 1) : i \in 1..n \/ i = n + 1
    BY <1>n
  <2> QED  BY <1>t, <1>l, <1>2, <2>1, <2>2, <2>3 DEF LineFits
<1>3. ASSUME line # <<>>, r = Head(line)
      PROVE  LET t == Tail(line) IN
             /\ t \in Seq(Requests) /\ Len(t) = n - 1 /\ n - 1 \in Nat
             /\ \A i \in 1..(n - 1) : t[i] = line[i + 1] /\ i + 1 \in 1..n /\ t[i] # r
             /\ \A i \in 1..(n - 1) : reqs'[t[i]].at \in InLine
             /\ \A i, j \in 1..(n - 1) : t[i] = t[j] => i = j
  <2>1. /\ Tail(line) \in Seq(Requests) /\ Len(Tail(line)) = n - 1 /\ n - 1 \in Nat
        /\ \A i \in 1..(n - 1) : Tail(line)[i] = line[i + 1] /\ i + 1 \in 1..n
        /\ r = line[1] /\ 1 \in 1..n
    BY <1>t, <1>n, <1>3
  <2> DEFINE t == Tail(line)
  <2>2. /\ t \in Seq(Requests) /\ Len(t) = n - 1 /\ n - 1 \in Nat
        /\ \A i \in 1..(n - 1) : t[i] = line[i + 1] /\ i + 1 \in 1..n /\ i + 1 # 1
    BY <2>1
  <2> HIDE DEF t
  <2>3. \A i \in 1..(n - 1) : t[i] # r /\ t[i] \in Requests /\ reqs'[t[i]].at \in InLine
    BY <1>t, <1>l, <2>1, <2>2
  <2>4. \A i, j \in 1..(n - 1) : t[i] = t[j] => i = j
    <3>1. TAKE i, j \in 1..(n - 1)
    <3>2. HAVE t[i] = t[j]
    <3>3. i + 1 = j + 1
      BY <1>l, <2>2, <3>2
    <3> QED  BY <3>3
  <2> QED  BY <2>2, <2>3, <2>4 DEF t
<1>4. CASE line # <<>> /\ r = Head(line) /\ line' = Tail(line)
  BY <1>3, <1>4 DEF LineFits
<1>5. CASE line # <<>> /\ r = Head(line) /\ q.at \in InLine /\ line' = Append(Tail(line), r)
  <2> DEFINE t == Tail(line)
  <2>1. /\ t \in Seq(Requests) /\ Len(t) = n - 1 /\ n - 1 \in Nat
        /\ \A i \in 1..(n - 1) : t[i] # r /\ reqs'[t[i]].at \in InLine
        /\ \A i, j \in 1..(n - 1) : t[i] = t[j] => i = j
    BY <1>3, <1>5
  <2>2. line' = Append(t, r)
    BY <1>5
  <2> HIDE DEF t
  <2>3. /\ line' \in Seq(Requests) /\ Len(line') = n
        /\ \A i \in 1..(n - 1) : line'[i] = t[i]
        /\ line'[n] = r /\ n \in 1..n
    BY <2>1, <2>2
  <2>4. \A i \in 1..n : i \in 1..(n - 1) \/ i = n
    BY <1>n
  <2>5. reqs'[r].at \in InLine
    BY <1>t, <1>5
  <2>6. \A i \in 1..n : reqs'[line'[i]].at \in InLine
    BY <2>1, <2>3, <2>4, <2>5
  <2>7. \A i, j \in 1..n : line'[i] = line'[j] => i = j
    BY <2>1, <2>3, <2>4
  <2> QED  BY <2>3, <2>6, <2>7 DEF LineFits
<1> QED  BY <1>1, <1>2, <1>4, <1>5

-----------------------------------------------------------------------------
(* What a board may have been promised *)

Total == seqs.v1 + seqs.v2

PaysOf(cell) ==
  IF cell.kind \in {"v1", "v2b"} THEN {cell.pay}
  ELSE IF cell.kind = "v2a" THEN {cell.flow} ELSE {}

\* A commitment, or what a board was last promised: it is on a channel that was
\* funded, and on the active one of no more than what was counted.
Honest(pay) ==
  pay.id \in Funded =>
    /\ chain[pay.id] # "none"
    /\ pay.id = active => pay.deviceShare <= HopCost * Total

HonestCell(cell) == \A pay \in PaysOf(cell) : Honest(pay)

CellsHonest ==
  /\ HonestCell(stage) /\ HonestCell(board.burst)
  /\ \A r \in Requests : HonestCell(reqs[r].cell) /\ HonestCell(reqs[r].then)
  /\ Honest(board.fwd)
  /\ board.fwd.state = "OPEN" => board.fwd.deviceShare = 0

HeldIsFunded ==
  /\ active \in Funded => chain[active] # "none"
  /\ \A r \in Requests : reqs[r].chan \in Funded => chain[reqs[r].chan] # "none"

\* Every forward that was counted is booked, under way or known not to be booked.
Booked ==
  ~books[active].settled =>
    2 * HopCost * Total
      <= books[active].accum + 2 * HopCost * (Cardinality(Underway) + unbooked)

BooksInv == ControlTyped /\ LineFits /\ CellsHonest /\ HeldIsFunded /\ Booked

LEMMA TotalIs ==
  ASSUME HostTyped
  PROVE  Total \in Nat /\ HopCost * Total \in Nat
<1>1. Total \in Nat
  BY DEF HostTyped, Total
<1> QED  BY <1>1, Constants, Product

LEMMA PaysOfCells ==
  /\ PaysOf(NoCell) = {} /\ PaysOf(CellV0) = {} /\ PaysOf(PlainCell) = {}
  /\ \A cell \in CertCells \cup SettleCells : PaysOf(cell) = {}
  /\ \A cell \in CellsV1 \cup CellsB : PaysOf(cell) = {cell.pay} /\ cell.pay \in Pays
  /\ \A cell \in CellsA : PaysOf(cell) = {cell.flow} /\ cell.flow \in Pays
  /\ \A cell \in Cells : PaysOf(cell) \subseteq Pays
<1>1. PaysOf(NoCell) = {} /\ PaysOf(CellV0) = {} /\ PaysOf(PlainCell) = {}
  BY DEF PaysOf, NoCell, CellV0, PlainCell
<1>2. \A cell \in CertCells \cup SettleCells : PaysOf(cell) = {}
  BY DEF PaysOf, CertCells, SettleCells
<1>3. \A cell \in CellsV1 \cup CellsB : PaysOf(cell) = {cell.pay} /\ cell.pay \in Pays
  BY DEF PaysOf, CellsV1, CellsB
<1>4. \A cell \in CellsA : PaysOf(cell) = {cell.flow} /\ cell.flow \in Pays
  BY DEF PaysOf, CellsA
<1>5. \A cell \in Cells : PaysOf(cell) \subseteq Pays
  <2>1. TAKE cell \in Cells
  <2>2. \/ cell \in {NoCell, CellV0, PlainCell} \/ cell \in CertCells \cup SettleCells
        \/ cell \in CellsV1 \cup CellsB \/ cell \in CellsA
    BY DEF Cells
  <2> QED  BY <1>1, <1>2, <1>3, <1>4, <2>2
<1> QED  BY <1>1, <1>2, <1>3, <1>4, <1>5

\* Counters that grow and a chain that forgets nothing keep what is honest so.
LEMMA HonestKept ==
  ASSUME HostTyped, HostTyped', active' = active, Total <= Total',
         \A c \in Funded : chain[c] # "none" => chain'[c] # "none"
  PROVE  /\ \A pay \in Pays : Honest(pay) => Honest(pay)'
         /\ \A pay \in Channels(ChannelIds, Nat, Nat, {0, 1}) : Honest(pay) => Honest(pay)'
<1>1. HopCost * Total <= HopCost * Total' /\ HopCost * Total \in Nat /\ HopCost * Total' \in Nat
  BY TotalIs, Constants, Product, (Total \in Nat)', (HopCost * Total \in Nat)' DEF HostTyped, Total
<1>2. ASSUME NEW pay, pay.deviceShare \in Nat, Honest(pay) PROVE Honest(pay)'
  BY <1>1, <1>2 DEF Honest
<1> QED  BY <1>2 DEF Pays, Channels

\* The same, when one request changes and the injector takes no other cell.
LEMMA CellsHonestKept ==
  ASSUME ControlTyped, CellsHonest, HeldIsFunded, HostTyped', active' = active, Total <= Total',
         \A c \in Funded : chain[c] # "none" => chain'[c] # "none",
         NEW r \in Requests, NEW q \in ReqSpace, reqs' = [reqs EXCEPT ![r] = q],
         stage' \in {stage, NoCell, reqs[r].cell}, board' = board,
         HonestCell(q.cell)', HonestCell(q.then)',
         q.chan \in Funded => chain'[q.chan] # "none"
  PROVE  CellsHonest' /\ HeldIsFunded'
<1>1. /\ \A pay \in Pays : Honest(pay) => Honest(pay)'
      /\ Honest(board.fwd) => Honest(board.fwd)'
  BY HonestKept DEF ControlTyped, PlantTyped, Boards
<1>2. \A cell \in Cells : HonestCell(cell) => HonestCell(cell)'
  BY <1>1, PaysOfCells DEF HonestCell
<1>3. \A s \in Requests : reqs'[s] = IF s = r THEN q ELSE reqs[s]
  BY DEF ControlTyped
<1>4. /\ stage \in Cells /\ board.burst \in Cells /\ NoCell \in Cells
      /\ \A s \in Requests : reqs[s].cell \in Cells /\ reqs[s].then \in Cells
  BY CellsAre DEF ControlTyped, PlantTyped, Boards, ReqSpace
<1>5. HonestCell(NoCell)
  BY PaysOfCells DEF HonestCell
<1>6. HonestCell(stage)'
  BY <1>2, <1>4, <1>5 DEF CellsHonest
<1>7. HonestCell(board.burst)' /\ Honest(board.fwd)'
  BY <1>1, <1>2, <1>4 DEF CellsHonest
<1>8. \A s \in Requests : HonestCell(reqs[s].cell)' /\ HonestCell(reqs[s].then)'
  BY <1>2, <1>3, <1>4 DEF CellsHonest
<1>9. HeldIsFunded'
  BY <1>3 DEF HeldIsFunded
<1> QED  BY <1>6, <1>7, <1>8, <1>9 DEF CellsHonest

\* The inequality of the books, as its sides grow together.
LEMMA Balance ==
  ASSUME NEW h \in Nat, NEW t \in Nat, NEW a \in Nat, NEW u \in Int,
         2 * h * t <= a + 2 * h * u
  PROVE  /\ 2 * h * (t + 1) <= a + 2 * h * (u + 1)
         /\ 2 * h * t <= (a + 2 * h) + 2 * h * (u - 1)
<1>1. PICK g \in Nat : g = 2 * h
  OBVIOUS
<1>2. g * (t + 1) = g * t + g /\ g * (u + 1) = g * u + g /\ g * (u - 1) = g * u - g
  BY Product
<1>3. g * t \in Int /\ g * u \in Int
  BY Product
<1> QED  BY <1>1, <1>2, <1>3

\* One request changes, and the counters with it.
LEMMA RequestMoves ==
  ASSUME BooksInv, HostTyped', PlantTyped', active' = active, board' = board,
         Total <= Total',
         \A c \in Funded : chain[c] # "none" => chain'[c] # "none",
         NEW r \in Requests, NEW q \in ReqSpace, reqs' = [reqs EXCEPT ![r] = q],
         stage' \in {stage, NoCell, reqs[r].cell},
         HonestCell(q.cell)', HonestCell(q.then)',
         q.chan \in Funded => chain'[q.chan] # "none",
         \/ reqs[r].at \notin InLine /\ line' = line
         \/ reqs[r].at \notin InLine /\ q.at \in InLine /\ line' = Append(line, r)
         \/ line # <<>> /\ r = Head(line) /\ line' = Tail(line)
         \/ line # <<>> /\ r = Head(line) /\ q.at \in InLine /\ line' = Append(Tail(line), r),
         Booked'
  PROVE  BooksInv'
<1>1. ControlTyped /\ LineFits /\ CellsHonest /\ HeldIsFunded /\ HostTyped
  BY DEF BooksInv, ControlTyped
<1>2. LineFits' /\ line' \in Seq(Requests)
  BY <1>1, LineMoves
<1>3. CellsHonest' /\ HeldIsFunded'
  BY <1>1, CellsHonestKept
<1>4. reqs' \in [Requests -> ReqSpace]
  BY <1>1 DEF ControlTyped
<1>5. ControlTyped'
  BY <1>2, <1>4 DEF ControlTyped
<1> QED  BY <1>2, <1>3, <1>5 DEF BooksInv

\* The books stay what they are, and what is counted goes along with what is
\* under way or missed.
LEMMA BookedKept ==
  ASSUME BooksInv, HostTyped', active' = active, books'[active] = books[active],
         NEW r \in Requests, NEW q, reqs' = [reqs EXCEPT ![r] = q],
         \/ Total' = Total /\ unbooked' = unbooked /\ ~Counts(reqs[r]) /\ ~Counts(q)
         \/ Total' = Total /\ unbooked' = unbooked /\ Counts(reqs[r]) /\ Counts(q)
         \/ Total' = Total + 1 /\ unbooked' = unbooked /\ ~Counts(reqs[r]) /\ Counts(q)
         \/ Total' = Total + 1 /\ unbooked' = Missed /\ ~Counts(reqs[r]) /\ ~Counts(q)
         \/ Total' = Total /\ unbooked' = Missed /\ Counts(reqs[r]) /\ ~Counts(q)
  PROVE  Booked'
<1>1. SUFFICES ASSUME ~books[active].settled PROVE Booked'
  BY DEF Booked
<1>t. ControlTyped /\ HostTyped
  BY DEF BooksInv, ControlTyped
<1>2. PICK t \in Nat, a \in Nat, u \in Nat, n \in Nat :
        t = Total /\ a = books[active].accum /\ u = Cardinality(Underway) /\ n = unbooked
  BY <1>t, TotalIs, UnderwayMoves DEF HostTyped, Ledgers
<1>3. 2 * HopCost * t <= a + 2 * HopCost * (u + n)
  BY <1>1, <1>2 DEF BooksInv, Booked
<1>4. 2 * HopCost * (t + 1) <= a + 2 * HopCost * ((u + n) + 1)
  BY <1>3, Balance, Constants
<1>5. Missed = n + 1
  BY <1>1, <1>2 DEF Missed
<1>6. PICK v \in Nat : v = Cardinality(Underway')
  BY <1>t, UnderwayMoves
<1>7. \/ Total' = t /\ v + unbooked' = u + n
      \/ Total' = t + 1 /\ v + unbooked' = (u + n) + 1
  <2>1. CASE Total' = Total /\ unbooked' = unbooked /\ ~Counts(reqs[r]) /\ ~Counts(q)
    <3>1. v = u
      BY <1>t, <1>2, <1>6, <2>1, UnderwayMoves
    <3> QED  BY <1>2, <2>1, <3>1
  <2>2. CASE Total' = Total /\ unbooked' = unbooked /\ Counts(reqs[r]) /\ Counts(q)
    <3>1. v = u
      BY <1>t, <1>2, <1>6, <2>2, UnderwayMoves
    <3> QED  BY <1>2, <2>2, <3>1
  <2>3. CASE Total' = Total + 1 /\ unbooked' = unbooked /\ ~Counts(reqs[r]) /\ Counts(q)
    <3>1. v = u + 1
      BY <1>t, <1>2, <1>6, <2>3, UnderwayMoves
    <3> QED  BY <1>2, <2>3, <3>1
  <2>4. CASE Total' = Total + 1 /\ unbooked' = Missed /\ ~Counts(reqs[r]) /\ ~Counts(q)
    <3>1. v = u
      BY <1>t, <1>2, <1>6, <2>4, UnderwayMoves
    <3> QED  BY <1>2, <1>5, <2>4, <3>1
  <2>5. CASE Total' = Total /\ unbooked' = Missed /\ Counts(reqs[r]) /\ ~Counts(q)
    <3>1. v = u - 1
      BY <1>t, <1>2, <1>6, <2>5, UnderwayMoves
    <3> QED  BY <1>2, <1>5, <2>5, <3>1
  <2> QED  BY <2>1, <2>2, <2>3, <2>4, <2>5
<1>8. 2 * HopCost * Total' <= a + 2 * HopCost * (v + unbooked')
  <2>1. CASE Total' = t /\ v + unbooked' = u + n
    BY <1>3, <2>1
  <2>2. CASE Total' = t + 1 /\ v + unbooked' = (u + n) + 1
    BY <1>4, <2>2
  <2> QED  BY <1>7, <2>1, <2>2
<1>9. 2 * HopCost * Total' <= books'[active'].accum + 2 * HopCost * (Cardinality(Underway') + unbooked')
  BY <1>2, <1>6, <1>8
<1> QED  BY <1>9 DEF Booked

-----------------------------------------------------------------------------
(* The steps of a request keep the books *)

\* What a step leaves alone while a request goes on by itself.
HostStep ==
  /\ stage' = stage /\ board' = board /\ chain' = chain
  /\ calm' \in BOOLEAN

LEMMA HostStepTyped ==
  ASSUME BooksInv, HostStep
  PROVE  PlantTyped' /\ HostTyped /\ ControlTyped
         /\ \A c \in Funded : chain[c] # "none" => chain'[c] # "none"
BY DEF BooksInv, ControlTyped, PlantTyped, HostStep

\* A request that waits or is new, on a channel that was funded.
Ripe(r, c) ==
  /\ reqs[r].at \notin InLine /\ ~Counts(reqs[r])
  /\ c \in ChannelIds /\ (c \in Funded => chain[c] # "none")

LEMMA IssueCertKeeps ==
  ASSUME BooksInv, HostStep, NEW r \in Requests, NEW kind \in Routes, NEW c, Ripe(r, c),
         IssueCert(r, kind, c)
  PROVE  BooksInv'
<1>t. PlantTyped' /\ HostTyped /\ ControlTyped
      /\ \A d \in Funded : chain[d] # "none" => chain'[d] # "none"
  BY HostStepTyped
<1>1. PICK q : q = [Idle EXCEPT !.at = "certing", !.kind = kind, !.chan = c,
                                !.cell = CertCell(c, clock + 1)]
  OBVIOUS
<1>2. reqs' = [reqs EXCEPT ![r] = q] /\ line' = Append(line, r)
  BY <1>1 DEF IssueCert, Inject
<1>3. CertCell(c, clock + 1) \in CertCells /\ CertCell(c, clock + 1) \in Cells
  BY <1>t, CellsAre DEF Ripe, HostTyped
<1>4. /\ q \in ReqSpace /\ q.at = "certing" /\ q.chan = c /\ q.cell \in CertCells /\ q.then = NoCell
      /\ q.at \in InLine /\ ~Counts(q)
  BY <1>1, <1>3, IdleIs DEF Ripe, ReqSpace, Places, InLine, Counts
<1>5. HostTyped'
  BY <1>t DEF IssueCert, HostTyped, Ripe
<1>6. Total' = Total /\ Total \in Nat /\ active' = active /\ books' = books /\ unbooked' = unbooked
  BY <1>t, TotalIs DEF IssueCert, Total
<1>7. HonestCell(q.cell)' /\ HonestCell(q.then)'
  BY <1>4, PaysOfCells DEF HonestCell
<1>8. Booked'
  BY <1>2, <1>4, <1>5, <1>6, BookedKept DEF Ripe
<1>9. Total <= Total'
  BY <1>6
<1> QED  BY <1>t, <1>2, <1>4, <1>5, <1>6, <1>7, <1>8, <1>9, RequestMoves DEF HostStep, Ripe

\* A forward is counted, and its cells are honest.
LEMMA CountedKeeps ==
  ASSUME BooksInv, HostStep, NEW r \in Requests, NEW kind \in {"v1", "v2", "bad"}, NEW c, Ripe(r, c),
         NEW triggerOk, NEW first \in Cells, NEW second \in CellsB \cup {NoCell},
         NEW pay, pay = Commitment(c, NextSeq(Version(kind))),
         PaysOf(first) \cup PaysOf(second) \subseteq {pay},
         Counted(r, kind, c, <<first, second>>, triggerOk)
  PROVE  BooksInv'
<1> DEFINE v == Version(kind)
<1>t. PlantTyped' /\ HostTyped /\ ControlTyped
      /\ \A d \in Funded : chain[d] # "none" => chain'[d] # "none"
  BY HostStepTyped
<1>v. v \in {"v1", "v2"} /\ seqs[v] \in Nat /\ NextSeq(v) = seqs[v] + 1
  BY <1>t DEF Version, HostTyped, NextSeq
<1>p. pay \in Pays /\ pay.id = c /\ pay.deviceShare = NextSeq(v) * HopCost
  BY <1>t, <1>v, CommitmentIs DEF Ripe
<1> HIDE DEF v
<1>u. UNCHANGED <<chan, flag, certHashes, active, books, clock>> /\ seqs' = [seqs EXCEPT ![v] = @ + 1]
  BY DEF Counted, v
<1>1. Total' = Total + 1 /\ Total \in Nat /\ NextSeq(v) <= Total'
  BY <1>t, <1>v, <1>u DEF Total, HostTyped
<1>2. seqs' \in [v1: Nat, v2: Nat] /\ Missed \in Nat /\ unbooked \in Nat
  BY <1>t, <1>v, <1>u DEF HostTyped, Missed
<1>3. pay.deviceShare <= HopCost * Total'
  BY <1>1, <1>p, <1>v, Product, Constants
<1>4. Honest(pay)'
  <2>1. c \in Funded => chain'[c] # "none"
    BY <1>t DEF Ripe
  <2> QED  BY <1>3, <1>p, <2>1 DEF Honest
<1>5. HonestCell(first)' /\ HonestCell(second)'
  <2>1. PaysOf(first) \subseteq {pay} /\ PaysOf(second) \subseteq {pay}
    OBVIOUS
  <2> QED  BY <1>4, <2>1 DEF HonestCell
<1>6. Total <= Total'
  BY <1>1
<1>7. CASE triggerOk
  <2>1. PICK q : q = [Idle EXCEPT !.at = "sending", !.kind = kind, !.chan = c,
                          !.seq = seqs[v] + 1, !.cell = first, !.then = second]
    OBVIOUS
  <2>2. reqs' = [reqs EXCEPT ![r] = q] /\ line' = Append(line, r) /\ unbooked' = unbooked
    BY <1>7, <2>1 DEF Counted, Inject, v
  <2>3. /\ q \in ReqSpace /\ q.at = "sending" /\ q.chan = c /\ q.cell = first /\ q.then = second
        /\ q.at \in InLine /\ Counts(q)
    <3>1. seqs[v] + 1 \in Nat /\ kind \in Routes /\ c \in ChannelIds
      BY <1>v DEF Routes, Ripe
    <3>2. q \in ReqSpace
      BY <2>1, <3>1, IdleIs DEF ReqSpace, Places
    <3>3. q.at = "sending" /\ q.chan = c /\ q.cell = first /\ q.then = second /\ q.kind = kind
      BY <2>1, IdleIs DEF ReqSpace
    <3> QED  BY <3>2, <3>3 DEF InLine, Counts
  <2>4. HostTyped'
    BY <1>t, <1>2, <1>u, <2>2 DEF HostTyped
  <2>5. Booked'
    BY <1>1, <1>u, <2>2, <2>3, <2>4, BookedKept DEF Ripe
  <2> QED  BY <1>t, <1>5, <1>6, <1>u, <2>2, <2>3, <2>4, <2>5, RequestMoves DEF HostStep, Ripe
<1>8. CASE ~triggerOk
  <2>1. reqs' = [reqs EXCEPT ![r] = Idle] /\ line' = line /\ unbooked' = Missed
    BY <1>8 DEF Counted, Ends
  <2>2. Idle \in ReqSpace /\ ~Counts(Idle) /\ HonestCell(Idle.cell)' /\ HonestCell(Idle.then)'
    BY IdleIs, PaysOfCells DEF Counts, HonestCell
  <2>3. HostTyped'
    BY <1>t, <1>2, <1>u, <2>1 DEF HostTyped
  <2>4. Booked'
    BY <1>1, <1>u, <2>1, <2>2, <2>3, BookedKept DEF Ripe
  <2> QED  BY <1>t, <1>6, <1>u, <2>1, <2>2, <2>3, <2>4, IdleIs, Constants, RequestMoves DEF HostStep, Ripe
<1> QED  BY <1>7, <1>8

\* A request with a cell that says nothing of a channel, or with none.
LEMMA QuietKeeps ==
  ASSUME BooksInv, HostStep, NEW r \in Requests, Ripe(r, NoId),
         UNCHANGED <<hostVars, clock, unbooked>>,
         NEW q \in ReqSpace, reqs' = [reqs EXCEPT ![r] = q], ~Counts(q),
         q.chan = NoId, q.cell \in {NoCell, CellV0, PlainCell}, q.then = NoCell,
         line' = line \/ (line' = Append(line, r) /\ q.at \in InLine)
  PROVE  BooksInv'
<1>t. PlantTyped' /\ HostTyped /\ ControlTyped
      /\ \A d \in Funded : chain[d] # "none" => chain'[d] # "none"
  BY HostStepTyped
<1>1. HostTyped' /\ active' = active /\ books' = books /\ unbooked' = unbooked
  BY <1>t DEF HostTyped, hostVars
<1>2. Total' = Total /\ Total \in Nat
  BY <1>t, TotalIs DEF Total, hostVars
<1>3. HonestCell(q.cell)' /\ HonestCell(q.then)'
  BY PaysOfCells DEF HonestCell
<1>4. Booked'
  BY <1>1, <1>2, BookedKept DEF Ripe
<1>5. Total <= Total'
  BY <1>2
<1> QED  BY <1>t, <1>1, <1>3, <1>4, <1>5, Constants, RequestMoves DEF HostStep, Ripe

LEMMA PlainKeeps ==
  ASSUME BooksInv, HostStep, NEW r \in Requests, NEW kind \in Routes, Ripe(r, NoId)
  PROVE  /\ ForwardV0(r) => BooksInv'
         /\ FundChannel(r) => BooksInv'
         /\ kind \notin {"v1", "v2", "bad"} /\ InjectPlain(r, kind) => BooksInv'
         /\ AskWallet(r, kind) => BooksInv'
         /\ Ends(r) /\ UNCHANGED <<hostVars, clock, unbooked>> => BooksInv'
<1>1. ASSUME ForwardV0(r) PROVE BooksInv'
  <2>1. PICK q : q = [Idle EXCEPT !.at = "sending", !.kind = "v0", !.cell = CellV0]
    OBVIOUS
  <2>2. /\ q \in ReqSpace /\ ~Counts(q) /\ q.chan = NoId /\ q.cell = CellV0 /\ q.then = NoCell
        /\ q.at \in InLine
    BY <2>1, IdleIs, CellsAre DEF ReqSpace, Counts, Places, Routes, InLine
  <2>3. reqs' = [reqs EXCEPT ![r] = q] /\ line' = Append(line, r) /\ UNCHANGED <<hostVars, clock, unbooked>>
    BY <1>1, <2>1 DEF ForwardV0, Inject
  <2> QED  BY <2>2, <2>3, QuietKeeps
<1>2. ASSUME FundChannel(r) PROVE BooksInv'
  <2>1. PICK q : q = [Idle EXCEPT !.at = "funding", !.kind = "open"]
    OBVIOUS
  <2>2. q \in ReqSpace /\ ~Counts(q) /\ q.chan = NoId /\ q.cell = NoCell /\ q.then = NoCell
    BY <2>1, IdleIs DEF ReqSpace, Counts, Places, Routes
  <2>3. reqs' = [reqs EXCEPT ![r] = q] /\ line' = line /\ UNCHANGED <<hostVars, clock, unbooked>>
    BY <1>2, <2>1 DEF FundChannel
  <2> QED  BY <2>2, <2>3, QuietKeeps
<1>3. ASSUME kind \notin {"v1", "v2", "bad"}, InjectPlain(r, kind) PROVE BooksInv'
  <2>1. PICK q : q = [Idle EXCEPT !.at = "sending", !.kind = kind, !.cell = PlainCell]
    OBVIOUS
  <2>2. /\ q \in ReqSpace /\ ~Counts(q) /\ q.chan = NoId /\ q.cell = PlainCell /\ q.then = NoCell
        /\ q.at \in InLine
    BY <1>3, <2>1, IdleIs, CellsAre DEF ReqSpace, Counts, Places, Routes, InLine
  <2>3. reqs' = [reqs EXCEPT ![r] = q] /\ line' = Append(line, r) /\ UNCHANGED <<hostVars, clock, unbooked>>
    BY <1>3, <2>1 DEF InjectPlain, Inject
  <2> QED  BY <2>2, <2>3, QuietKeeps
<1>4. ASSUME AskWallet(r, kind) PROVE BooksInv'
  <2>1. PICK q : q = [Idle EXCEPT !.at = "wallet", !.kind = kind]
    OBVIOUS
  <2>2. q \in ReqSpace /\ ~Counts(q) /\ q.chan = NoId /\ q.cell = NoCell /\ q.then = NoCell
    BY <2>1, IdleIs DEF ReqSpace, Counts, Places, Routes
  <2>3. reqs' = [reqs EXCEPT ![r] = q] /\ line' = line /\ UNCHANGED <<hostVars, clock, unbooked>>
    BY <1>4, <2>1 DEF AskWallet
  <2> QED  BY <2>2, <2>3, QuietKeeps
<1>5. ASSUME Ends(r), UNCHANGED <<hostVars, clock, unbooked>> PROVE BooksInv'
  <2>1. reqs' = [reqs EXCEPT ![r] = Idle] /\ line' = line
    BY <1>5 DEF Ends
  <2>2. Idle \in ReqSpace /\ ~Counts(Idle)
    BY IdleIs DEF Counts
  <2> QED  BY <1>5, <2>1, <2>2, IdleIs, QuietKeeps
<1> QED  BY <1>1, <1>2, <1>3, <1>4, <1>5

LEMMA ProceedKeeps ==
  ASSUME BooksInv, HostStep, NEW r \in Requests, NEW kind, NEW c, NEW triggerOk,
         Ripe(r, c), Ripe(r, chan), Ripe(r, NoId),
         Proceed(r, kind, c, triggerOk)
  PROVE  BooksInv'
<1>t. HostTyped
  BY HostStepTyped
<1>1. CASE kind = "v0" /\ ForwardV0(r)
  <2>1. "v0" \in Routes
    BY DEF Routes
  <2> QED  BY <1>1, <2>1, PlainKeeps
<1>2. CASE kind = "v1" /\ ForwardV1(r, c, triggerOk)
  <2>v. Version("v1") = "v1" /\ NextSeq("v1") \in Nat
    BY <1>t DEF Version, NextSeq, HostTyped
  <2>1. PICK pay : pay = Commitment(c, NextSeq("v1"))
    OBVIOUS
  <2>2. PICK first : first = ForwardCell(pay, RelayKey(c))
    OBVIOUS
  <2>3. pay \in Pays /\ first \in CellsV1
    BY <1>t, <2>v, <2>1, <2>2, CommitmentIs, RelayKeys, ForwardCells DEF Ripe
  <2>4. PaysOf(first) \cup PaysOf(NoCell) \subseteq {pay} /\ first \in Cells
    <3>1. first.pay = pay
      BY <2>2 DEF ForwardCell
    <3> QED  BY <2>3, <3>1, PaysOfCells, CellsAre
  <2>5. Counted(r, "v1", c, <<first, NoCell>>, triggerOk)
    BY <1>2, <2>1, <2>2 DEF ForwardV1
  <2> QED  BY <2>v, <2>1, <2>4, <2>5, CountedKeeps
<1>3. CASE kind = "bad" /\ ForwardBadKey(r)
  <2>v. Version("bad") = "v1" /\ NextSeq("v1") \in Nat
    BY <1>t DEF Version, NextSeq, HostTyped
  <2>1. PICK pay : pay = Commitment(chan, NextSeq("v1"))
    OBVIOUS
  <2>2. PICK first : first = ForwardCell(pay, RandomKey)
    OBVIOUS
  <2>3. pay \in Pays /\ first \in CellsV1
    BY <1>t, <2>v, <2>1, <2>2, CommitmentIs, RelayKeys, ForwardCells DEF Ripe
  <2>4. PaysOf(first) \cup PaysOf(NoCell) \subseteq {pay} /\ first \in Cells
    <3>1. first.pay = pay
      BY <2>2 DEF ForwardCell
    <3> QED  BY <2>3, <3>1, PaysOfCells, CellsAre
  <2>5. PICK here : here = chan
    OBVIOUS
  <2>6. Counted(r, "bad", here, <<first, NoCell>>, TRUE) /\ Ripe(r, here) /\ pay = Commitment(here, NextSeq("v1"))
    BY <1>3, <2>1, <2>2, <2>5 DEF ForwardBadKey
  <2> QED  BY <2>v, <2>4, <2>6, CountedKeeps
<1>4. CASE kind = "v2" /\ ForwardV2(r, c, triggerOk)
  <2>v. Version("v2") = "v2" /\ NextSeq("v2") \in Nat
    BY <1>t DEF Version, NextSeq, HostTyped
  <2>1. PICK pay : pay = Commitment(c, NextSeq("v2"))
    OBVIOUS
  <2>2. PICK first, second : first = CellA(pay, RelayKey(c)) /\ second = CellB(pay)
    OBVIOUS
  <2>3. pay \in Pays /\ first \in CellsA /\ second \in CellsB
    BY <1>t, <2>v, <2>1, <2>2, CommitmentIs, RelayKeys, ForwardCells DEF Ripe
  <2>4. PaysOf(first) \cup PaysOf(second) \subseteq {pay} /\ first \in Cells
    <3>1. first.flow = pay /\ second.pay = pay
      BY <2>2 DEF CellA, CellB
    <3> QED  BY <2>3, <3>1, PaysOfCells, CellsAre
  <2>5. Counted(r, "v2", c, <<first, second>>, triggerOk)
    BY <1>4, <2>1, <2>2 DEF ForwardV2
  <2> QED  BY <2>v, <2>1, <2>3, <2>4, <2>5, CountedKeeps
<1> QED  BY <1>1, <1>2, <1>3, <1>4 DEF Proceed

\* A request starts.
LEMMA StartKeeps ==
  ASSUME BooksInv, NEW r \in Requests, NEW kind \in Kinds, NEW triggerOk \in BOOLEAN,
         Start(r, kind, triggerOk)
  PROVE  BooksInv'
<1>1. HostStep
  BY DEF BooksInv, ControlTyped, PlantTyped, HostStep, Start, boardVars
<1>2. kind \in Routes /\ kind \in Routes
  BY Constants
<1>t. HostTyped /\ HeldIsFunded
  BY DEF BooksInv, ControlTyped
<1>3. reqs[r].at = "idle"
  BY IdleIs DEF Start
<1>4. Ripe(r, chan) /\ Ripe(r, NoId)
  BY <1>3, <1>t, Constants DEF Ripe, Counts, InLine, HeldIsFunded, HostTyped
<1>5. PICK c : c = chan
  OBVIOUS
<1>6. \/ FundChannel(r)
      \/ kind \notin {"v1", "v2", "bad"} /\ InjectPlain(r, kind)
      \/ AskWallet(r, kind)
      \/ IssueCert(r, kind, c)
      \/ Proceed(r, kind, c, triggerOk)
  BY <1>5 DEF Start
<1>7. Ripe(r, c)
  BY <1>4, <1>5
<1> QED  BY <1>1, <1>2, <1>4, <1>6, <1>7, PlainKeeps, IssueCertKeeps, ProceedKeeps

LEMMA CertSettledKeeps ==
  ASSUME BooksInv, NEW r \in Requests, NEW triggerOk \in BOOLEAN, CertSettled(r, triggerOk)
  PROVE  BooksInv'
<1>1. HostStep
  BY DEF BooksInv, ControlTyped, PlantTyped, HostStep, CertSettled, boardVars
<1>t. HostTyped /\ HeldIsFunded /\ reqs[r] \in ReqSpace
  BY DEF BooksInv, ControlTyped
<1>2. PICK kind, c : kind = reqs[r].kind /\ c = reqs[r].chan
  OBVIOUS
<1>3. Ripe(r, chan) /\ Ripe(r, NoId) /\ Ripe(r, c)
  BY <1>2, <1>t, Constants DEF Ripe, Counts, InLine, HeldIsFunded, HostTyped, CertSettled, ReqSpace
<1>4. Proceed(r, kind, c, triggerOk)
  BY <1>2 DEF CertSettled
<1> QED  BY <1>1, <1>3, <1>4, ProceedKeeps


-----------------------------------------------------------------------------
(* Writes keep the books *)

LEMMA WrittenIs ==
  ASSUME BooksInv, NEW r \in Requests, NEW taken \in BOOLEAN, Written(r, taken)
  PROVE  /\ ControlTyped /\ HostTyped /\ PlantTyped'
         /\ line # <<>> /\ r = Head(line) /\ line' = Tail(line)
         /\ stage' \in {stage, NoCell, reqs[r].cell} /\ board' = board /\ chain' = chain
         /\ clock' = clock
         /\ reqs[r] \in ReqSpace
         /\ reqs[r].chan \in Funded => chain'[reqs[r].chan] # "none"
         /\ HonestCell(reqs[r].cell) /\ HonestCell(reqs[r].then)
<1>1. ControlTyped /\ HostTyped /\ PlantTyped /\ HeldIsFunded /\ CellsHonest
  BY DEF BooksInv, ControlTyped
<1>2. /\ line # <<>> /\ r = Head(line) /\ line' = Tail(line)
      /\ stage' = IF taken THEN reqs[r].cell ELSE stage
      /\ board' = board /\ chain' = chain /\ clock' = clock /\ calm' = (calm /\ taken)
  BY DEF Written, LineAfter, boardVars
<1>3. reqs[r] \in ReqSpace /\ reqs[r].cell \in Cells
  BY <1>1 DEF ControlTyped, ReqSpace
<1>4. PlantTyped'
  BY <1>1, <1>2, <1>3 DEF PlantTyped
<1> QED  BY <1>1, <1>2, <1>3, <1>4 DEF HeldIsFunded, CellsHonest

\* A write after which nothing is counted or booked.
LEMMA QuietWriteKeeps ==
  ASSUME BooksInv, NEW r \in Requests, NEW taken \in BOOLEAN, Written(r, taken),
         UNCHANGED <<chan, certHashes, seqs, active, books>>, flag' \in BOOLEAN,
         NEW q \in ReqSpace, reqs' = [reqs EXCEPT ![r] = q],
         \/ ~Counts(reqs[r]) /\ ~Counts(q) /\ unbooked' = unbooked
         \/ Counts(reqs[r]) /\ Counts(q) /\ unbooked' = unbooked
         \/ Counts(reqs[r]) /\ ~Counts(q) /\ unbooked' = Missed,
         q.cell \in {NoCell, reqs[r].cell}, q.then \in {NoCell, reqs[r].then},
         q.chan \in {NoId, reqs[r].chan}
  PROVE  BooksInv'
<1>1. /\ ControlTyped /\ HostTyped /\ PlantTyped'
      /\ line # <<>> /\ r = Head(line) /\ line' = Tail(line)
      /\ stage' \in {stage, NoCell, reqs[r].cell} /\ board' = board /\ chain' = chain
      /\ clock' = clock
      /\ reqs[r] \in ReqSpace
      /\ reqs[r].chan \in Funded => chain'[reqs[r].chan] # "none"
      /\ HonestCell(reqs[r].cell) /\ HonestCell(reqs[r].then)
  BY WrittenIs
<1>2. HostTyped'
  BY <1>1 DEF HostTyped, Missed
<1>3. Total' = Total /\ Total \in Nat
  BY <1>1, TotalIs DEF Total
<1>4. \A pay : Honest(pay) => Honest(pay)'
  BY <1>1, <1>3 DEF Honest
<1>5. HonestCell(q.cell)' /\ HonestCell(q.then)'
  <2>1. PICK a, b : a = q.cell /\ b = q.then
    OBVIOUS
  <2>2. HonestCell(a) /\ HonestCell(b)
    BY <1>1, <2>1, PaysOfCells DEF HonestCell
  <2> QED  BY <1>4, <2>1, <2>2 DEF HonestCell
<1>6. Booked'
  BY <1>2, <1>3, BookedKept
<1>7. Total <= Total' /\ (q.chan \in Funded => chain'[q.chan] # "none")
  BY <1>1, <1>3, Constants
<1> QED  BY <1>1, <1>2, <1>5, <1>6, <1>7, RequestMoves

LEMMA CertInjectedKeeps ==
  ASSUME BooksInv, NEW r \in Requests, NEW taken \in BOOLEAN, CertInjected(r, taken)
  PROVE  BooksInv'
<1>1. Written(r, taken) /\ reqs[r] \in ReqSpace
  BY DEF CertInjected, BooksInv, ControlTyped
<1>2. PICK u : u = [reqs[r] EXCEPT !.at = "settle"]
  OBVIOUS
<1>3. u \in ReqSpace /\ u.at = "settle" /\ u.cell = reqs[r].cell /\ u.then = reqs[r].then /\ u.chan = reqs[r].chan
  BY <1>1, <1>2, PlaceSet DEF Places
<1>4. PICK q : q = IF reqs[r].kind = "cert" THEN Idle ELSE u
  OBVIOUS
<1>5. reqs' = [reqs EXCEPT ![r] = q]
  BY <1>2, <1>4 DEF CertInjected
<1>6. /\ q \in ReqSpace /\ ~Counts(q) /\ q.cell \in {NoCell, reqs[r].cell}
      /\ q.then \in {NoCell, reqs[r].then} /\ q.chan \in {NoId, reqs[r].chan}
  BY <1>3, <1>4, IdleIs DEF Counts
<1>7. ~Counts(reqs[r])
  BY DEF CertInjected, Counts
<1> QED  BY <1>1, <1>5, <1>6, <1>7, QuietWriteKeeps DEF CertInjected

\* A booking adds to the books what it takes from what is under way.
LEMMA BookingKeeps ==
  ASSUME BooksInv, NEW r \in Requests, NEW taken \in BOOLEAN, Written(r, taken),
         UNCHANGED <<chan, certHashes, seqs, active, flag, unbooked>>,
         NEW b, b = Book(books[active], reqs[r].seq), books' = [books EXCEPT ![active] = b],
         ~books[active].settled,
         NEW q \in ReqSpace, reqs' = [reqs EXCEPT ![r] = q], ~Counts(q),
         q.cell = NoCell, q.then = NoCell, q.chan \in {NoId, active}
  PROVE  BooksInv'
<1>1. /\ ControlTyped /\ HostTyped /\ PlantTyped'
      /\ line # <<>> /\ r = Head(line) /\ line' = Tail(line)
      /\ stage' \in {stage, NoCell, reqs[r].cell} /\ board' = board /\ chain' = chain
      /\ clock' = clock
      /\ reqs[r] \in ReqSpace
  BY WrittenIs
<1>2. /\ b \in Ledgers /\ b.settled = books[active].settled
      /\ b.accum = books[active].accum + 2 * HopCost
  <2>1. books[active] \in Ledgers /\ reqs[r].seq \in Nat /\ HopCost \in Nat
    BY <1>1, Constants DEF HostTyped, ReqSpace
  <2>2. PICK k \in Ledgers, n \in Nat, h \in Nat : k = books[active] /\ n = reqs[r].seq /\ h = 2 * HopCost
    BY <2>1
  <2>3. PICK m \in Nat : m = IF n > k.finalSeq THEN n ELSE k.finalSeq
    BY <2>1, <2>2 DEF Ledgers
  <2>4. b = [k EXCEPT !.accum = @ + h, !.finalSeq = m]
    BY <2>2, <2>3 DEF Book
  <2>5. k.accum + h \in Nat /\ k \in Ledgers
    BY <2>1, <2>2 DEF Ledgers
  <2>6. b \in Ledgers /\ b.settled = k.settled /\ b.accum = k.accum + h
    BY <2>4, <2>5 DEF Ledgers
  <2> QED  BY <2>2, <2>6
<1>3. active \in ChannelIds /\ active # NoId
  BY <1>1 DEF HostTyped
<1>4. HostTyped'
  BY <1>1, <1>2, <1>3 DEF HostTyped
<1>5. Total' = Total /\ Total \in Nat
  BY <1>1, TotalIs DEF Total
<1>6. HonestCell(q.cell)' /\ HonestCell(q.then)'
  BY PaysOfCells DEF HonestCell
<1>7. Total <= Total' /\ (q.chan \in Funded => chain'[q.chan] # "none")
  BY <1>1, <1>5, Constants DEF BooksInv, HeldIsFunded
<1>8. Booked'
  <2>1. PICK t \in Nat, a \in Nat, u \in Nat, n \in Nat :
          t = Total /\ a = books[active].accum /\ u = Cardinality(Underway) /\ n = unbooked
    BY <1>1, <1>5, UnderwayMoves DEF HostTyped, Ledgers
  <2>2. 2 * HopCost * t <= a + 2 * HopCost * (u + n)
    BY <2>1 DEF BooksInv, Booked
  <2>3. PICK v \in Nat : v = Cardinality(Underway')
    BY <1>1, UnderwayMoves
  <2>4. v = u \/ v = u - 1
    BY <1>1, <2>1, <2>3, UnderwayMoves
  <2>5. 2 * HopCost * t <= (a + 2 * HopCost) + 2 * HopCost * ((u + n) - 1)
    BY <2>2, Balance, Constants
  <2>6. 2 * HopCost * t <= (a + 2 * HopCost) + 2 * HopCost * (v + n)
    <3>1. CASE v = u
      BY <2>2, <3>1, Constants
    <3>2. CASE v = u - 1
      <4>1. v + n = (u + n) - 1
        BY <3>2
      <4> QED  BY <2>5, <4>1
    <3> QED  BY <2>4, <3>1, <3>2
  <2>7. Total' = t /\ books'[active'].accum = a + 2 * HopCost /\ unbooked' = n
    BY <1>1, <1>2, <1>3, <1>5, <2>1 DEF HostTyped
  <2> QED  BY <2>3, <2>6, <2>7 DEF Booked
<1> QED  BY <1>1, <1>4, <1>6, <1>7, <1>8, RequestMoves

LEMMA ForwardInjectedKeeps ==
  ASSUME BooksInv, NEW r \in Requests, NEW taken \in BOOLEAN, ForwardInjected(r, taken)
  PROVE  BooksInv'
<1>1. Written(r, taken) /\ reqs[r] \in ReqSpace /\ reqs[r].at = "sending" /\ active \in ChannelIds
      /\ flag \in BOOLEAN
  BY DEF ForwardInjected, BooksInv, ControlTyped, HostTyped
<1>2. UNCHANGED <<chan, flag, certHashes, seqs, active>>
  BY DEF ForwardInjected
<1>3. CASE reqs[r].then # NoCell
  <2>1. PICK q : q = [reqs[r] EXCEPT !.at = "gap"]
    OBVIOUS
  <2>2. /\ q \in ReqSpace /\ q.at = "gap" /\ q.cell = reqs[r].cell /\ q.then = reqs[r].then
        /\ q.chan = reqs[r].chan /\ q.kind = reqs[r].kind
    BY <1>1, <2>1, PlaceSet DEF Places
  <2>3. reqs' = [reqs EXCEPT ![r] = q] /\ books' = books /\ unbooked' = unbooked
    BY <1>3, <2>1 DEF ForwardInjected
  <2>4. Counts(q) <=> Counts(reqs[r])
    BY <1>1, <2>2 DEF Counts
  <2>5. CASE Counts(reqs[r])
    BY <1>1, <1>2, <2>2, <2>3, <2>4, <2>5, QuietWriteKeeps
  <2>6. CASE ~Counts(reqs[r])
    BY <1>1, <1>2, <2>2, <2>3, <2>4, <2>6, QuietWriteKeeps
  <2> QED  BY <2>5, <2>6
<1>4. CASE reqs[r].then = NoCell
  <2>0. ForwardOut(r)
    BY <1>4 DEF ForwardInjected
  <2>1. CASE reqs[r].kind \in {"v0", "bad", "plain", "scada"} \/ books[active].settled
    <3>1. PICK q : q = IF reqs[r].kind = "scada" THEN [Idle EXCEPT !.at = "anchoring", !.kind = "scada"]
                       ELSE Idle
      OBVIOUS
    <3>2. /\ q \in ReqSpace /\ ~Counts(q) /\ q.cell = NoCell /\ q.then = NoCell /\ q.chan = NoId
      BY <3>1, IdleIs DEF ReqSpace, Counts, Places, Routes
    <3>3. /\ reqs' = [reqs EXCEPT ![r] = q] /\ books' = books
          /\ unbooked' = IF reqs[r].kind = "bad" THEN Missed ELSE unbooked
      BY <2>0, <2>1, <3>1 DEF ForwardOut
    <3>4. CASE reqs[r].kind = "bad"
      <4>1. Counts(reqs[r]) /\ unbooked' = Missed
        BY <1>1, <3>3, <3>4 DEF Counts
      <4> QED  BY <1>1, <1>2, <3>2, <3>3, <4>1, QuietWriteKeeps
    <3>5. CASE reqs[r].kind # "bad" /\ ~Counts(reqs[r])
      BY <1>1, <1>2, <3>2, <3>3, <3>5, QuietWriteKeeps
    <3>6. CASE reqs[r].kind # "bad" /\ Counts(reqs[r])
      <4>1. books[active].settled /\ unbooked' = unbooked /\ Missed = unbooked
        BY <2>1, <3>3, <3>6 DEF Counts, Missed
      <4> QED  BY <1>1, <1>2, <3>2, <3>3, <3>6, <4>1, QuietWriteKeeps
    <3> QED  BY <3>4, <3>5, <3>6
  <2>2. CASE ~(reqs[r].kind \in {"v0", "bad", "plain", "scada"} \/ books[active].settled)
    <3>1. PICK b : b = Book(books[active], reqs[r].seq)
      OBVIOUS
    <3>2. PICK here \in ChannelIds : here = active
      BY <1>1
    <3>3. PICK q : q = IF b.accum >= Threshold
                       THEN [Idle EXCEPT !.at = "settling", !.kind = reqs[r].kind, !.chan = here]
                       ELSE Idle
      OBVIOUS
    <3>4. /\ q \in ReqSpace /\ ~Counts(q) /\ q.cell = NoCell /\ q.then = NoCell /\ q.chan \in {NoId, here}
      <4>1. reqs[r].kind \in Routes \cup {"none"}
        BY <1>1 DEF ReqSpace
      <4> QED  BY <3>3, <4>1, IdleIs DEF ReqSpace, Counts, Places
    <3>5. /\ reqs' = [reqs EXCEPT ![r] = q] /\ books' = [books EXCEPT ![active] = b]
          /\ unbooked' = unbooked
      BY <2>0, <2>2, <3>1, <3>2, <3>3 DEF ForwardOut
    <3> QED  BY <1>1, <1>2, <2>2, <3>1, <3>2, <3>4, <3>5, BookingKeeps
  <2> QED  BY <2>1, <2>2
<1> QED  BY <1>3, <1>4

LEMMA InjectionFailsKeeps ==
  ASSUME BooksInv, NEW r \in Requests, InjectionFails(r)
  PROVE  BooksInv'
<1>t. ControlTyped /\ HostTyped /\ PlantTyped /\ LineFits /\ reqs[r] \in ReqSpace
  BY DEF BooksInv, ControlTyped
<1>1. /\ line # <<>> /\ r = Head(line) /\ line' = Tail(line)
      /\ reqs' = [reqs EXCEPT ![r] = Idle] /\ calm' = FALSE
      /\ UNCHANGED <<chan, flag, certHashes, seqs, active, books, stage, board, chain, clock>>
      /\ unbooked' = IF reqs[r].at = "sending" /\ reqs[r].kind \in {"v1", "v2", "bad"} THEN Missed ELSE unbooked
  BY DEF InjectionFails, LineAfter, hostVars, boardVars
<1>2. HostTyped' /\ PlantTyped'
  <2>1. unbooked' \in Nat
    BY <1>t, <1>1 DEF HostTyped, Missed
  <2>2. HostTyped'
    BY <1>t, <1>1, <2>1 DEF HostTyped
  <2>3. PlantTyped'
    BY <1>t, <1>1 DEF PlantTyped
  <2> QED  BY <2>2, <2>3
<1>3. Total' = Total /\ Total \in Nat
  BY <1>t, <1>1, TotalIs DEF Total
<1>4. reqs[r].at \in InLine
  <2>1. line[1] = r /\ 1 \in 1..Len(line)
    BY <1>t, <1>1 DEF ControlTyped
  <2> QED  BY <1>t, <2>1 DEF LineFits
<1>5. Booked'
  <2>1. CASE reqs[r].at = "sending" /\ reqs[r].kind \in {"v1", "v2", "bad"}
    <3>1. Counts(reqs[r]) /\ unbooked' = Missed /\ ~Counts(Idle)
      BY <1>1, <2>1, IdleIs DEF Counts
    <3> QED  BY <1>1, <1>2, <1>3, <3>1, BookedKept
  <2>2. CASE ~(reqs[r].at = "sending" /\ reqs[r].kind \in {"v1", "v2", "bad"})
    <3>1. ~Counts(reqs[r]) /\ unbooked' = unbooked /\ ~Counts(Idle)
      BY <1>1, <1>4, <2>2, IdleIs DEF Counts, InLine
    <3> QED  BY <1>1, <1>2, <1>3, <3>1, BookedKept
  <2> QED  BY <2>1, <2>2
<1>6. HonestCell(Idle.cell)' /\ HonestCell(Idle.then)'
  BY IdleIs, PaysOfCells DEF HonestCell
<1>7. Total <= Total'
  BY <1>3
<1> QED  BY <1>1, <1>2, <1>5, <1>6, <1>7, IdleIs, Constants, RequestMoves

LEMMA GapOverKeeps ==
  ASSUME BooksInv, NEW r \in Requests, GapOver(r)
  PROVE  BooksInv'
<1>t. ControlTyped /\ HostTyped /\ PlantTyped /\ reqs[r] \in ReqSpace /\ CellsHonest /\ HeldIsFunded
  BY DEF BooksInv, ControlTyped
<1>1. PICK q : q = [reqs[r] EXCEPT !.at = "sending", !.cell = reqs[r].then, !.then = NoCell]
  OBVIOUS
<1>2. /\ reqs' = [reqs EXCEPT ![r] = q] /\ line' = Append(line, r) /\ reqs[r].at = "gap"
      /\ UNCHANGED <<chan, flag, certHashes, seqs, active, books, stage, board, chain, clock, calm, unbooked>>
  BY <1>1 DEF GapOver, Inject, hostVars, boardVars, historyVars
<1>3. /\ q \in ReqSpace /\ q.at = "sending" /\ q.kind = reqs[r].kind /\ q.chan = reqs[r].chan
      /\ q.cell = reqs[r].then /\ q.then = NoCell
  <2>1. reqs[r].then \in Cells
    BY <1>t, CellsAre DEF ReqSpace
  <2> QED  BY <1>t, <1>1, <2>1, CellsAre DEF ReqSpace, Places
<1>4. HostTyped' /\ PlantTyped'
  BY <1>t, <1>2 DEF HostTyped, PlantTyped
<1>5. Total' = Total /\ Total \in Nat
  BY <1>t, <1>2, TotalIs DEF Total
<1>6. Counts(reqs[r]) <=> Counts(q)
  BY <1>2, <1>3 DEF Counts
<1>7. Booked'
  <2>1. CASE Counts(q)
    BY <1>2, <1>4, <1>5, <1>6, <2>1, BookedKept
  <2>2. CASE ~Counts(q)
    BY <1>2, <1>4, <1>5, <1>6, <2>2, BookedKept
  <2> QED  BY <2>1, <2>2
<1>8. HonestCell(q.cell)' /\ HonestCell(q.then)'
  <2>1. \A pay : Honest(pay) => Honest(pay)'
    BY <1>2, <1>5 DEF Honest
  <2>2. HonestCell(q.cell) /\ HonestCell(q.then)
    BY <1>t, <1>3, PaysOfCells DEF HonestCell, CellsHonest
  <2> QED  BY <2>1, <2>2 DEF HonestCell
<1>9. /\ Total <= Total' /\ (q.chan \in Funded => chain'[q.chan] # "none")
      /\ q.at \in InLine /\ reqs[r].at \notin InLine
  BY <1>t, <1>2, <1>3, <1>5 DEF HeldIsFunded, InLine
<1> QED  BY <1>2, <1>3, <1>4, <1>7, <1>8, <1>9, RequestMoves

-----------------------------------------------------------------------------
(* Settlement, funding and the historian keep the books *)

LEMMA SettleReturnsKeeps ==
  ASSUME BooksInv, NEW r \in Requests, NEW ok \in BOOLEAN, SettleReturns(r, ok)
  PROVE  BooksInv'
<1>t. ControlTyped /\ HostTyped /\ PlantTyped /\ reqs[r] \in ReqSpace /\ HeldIsFunded
  BY DEF BooksInv, ControlTyped
<1>1. PICK c : c = reqs[r].chan
  OBVIOUS
<1>2. /\ c \in ChannelIds /\ reqs[r].at = "settling"
      /\ UNCHANGED <<chan, flag, certHashes, seqs, active, stage, board, clock, calm, unbooked>>
      /\ chain' = chain \/ chain' = [chain EXCEPT ![c] = "spent"]
  BY <1>t, <1>1 DEF SettleReturns, boardVars, historyVars, ReqSpace
<1>3. /\ chain' \in [Funded -> {"none", "funded", "spent"}]
      /\ \A d \in Funded : chain[d] # "none" => chain'[d] # "none"
  BY <1>t, <1>2 DEF PlantTyped
<1>4. PlantTyped'
  BY <1>t, <1>2, <1>3 DEF PlantTyped
<1>5. Total' = Total /\ Total \in Nat /\ Total <= Total'
  BY <1>t, <1>2, TotalIs DEF Total
<1>6. reqs[r].at \notin InLine /\ ~Counts(reqs[r])
  BY <1>2 DEF InLine, Counts
<1>7. CASE ok
  <2>0. PICK cell : cell = SettleCell(active, books[active])
    OBVIOUS
  <2>1. cell \in SettleCells
    <3>1. books[active] \in Ledgers /\ active \in ChannelIds
      BY <1>t DEF HostTyped
    <3> QED  BY <2>0, <3>1 DEF SettleCell, SettleCells, Ledgers
  <2>2. PICK q : q = [reqs[r] EXCEPT !.at = "evidence", !.left = EvidenceCopies, !.cell = cell]
    OBVIOUS
  <2>3. /\ q \in ReqSpace /\ q.at = "evidence" /\ q.chan = reqs[r].chan /\ q.cell = cell
        /\ q.then = reqs[r].then
    <3>1. EvidenceCopies \in Nat /\ cell \in Cells
      BY <2>1, Constants, CellsAre
    <3> QED  BY <1>t, <2>2, <3>1 DEF ReqSpace, Places
  <2>4. /\ reqs' = [reqs EXCEPT ![r] = q] /\ line' = Append(line, r)
        /\ books' = [books EXCEPT ![c].settled = TRUE]
    BY <1>1, <1>7, <2>0, <2>2 DEF SettleReturns, Inject
  <2>5. HostTyped'
    <3>1. PICK k : k = [books[c] EXCEPT !.settled = TRUE]
      OBVIOUS
    <3>2. books[c] \in Ledgers /\ books \in [ChannelIds -> Ledgers] /\ books[NoId].settled
      BY <1>t, <1>2 DEF HostTyped
    <3>3. k \in Ledgers /\ k.settled
      BY <3>1, <3>2 DEF Ledgers
    <3>4. books' = [books EXCEPT ![c] = k]
      BY <2>4, <3>1
    <3>5. books' \in [ChannelIds -> Ledgers] /\ books'[NoId].settled
      BY <1>2, <3>2, <3>3, <3>4, Constants
    <3> QED  BY <1>t, <1>2, <3>5 DEF HostTyped
  <2>6. HonestCell(q.cell)' /\ HonestCell(q.then)'
    <3>1. HonestCell(reqs[r].then)
      BY DEF BooksInv, CellsHonest
    <3>2. \A pay : Honest(pay) => Honest(pay)'
      BY <1>2, <1>3, <1>5 DEF Honest
    <3>3. PICK b : b = reqs[r].then
      OBVIOUS
    <3>4. HonestCell(b)'
      BY <3>1, <3>2, <3>3 DEF HonestCell
    <3> QED  BY <2>1, <2>3, <3>3, <3>4, PaysOfCells DEF HonestCell
  <2>7. Booked'
    <3>1. CASE c = active
      <4>1. books'[active'].settled
        BY <1>t, <1>2, <2>4, <3>1 DEF HostTyped
      <4> QED  BY <4>1 DEF Booked
    <3>2. CASE c # active
      <4>1. books'[active] = books[active] /\ ~Counts(q)
        BY <1>t, <2>3, <2>4, <3>2 DEF HostTyped, Counts
      <4> QED  BY <1>2, <1>5, <1>6, <2>4, <2>5, <4>1, BookedKept
    <3> QED  BY <3>1, <3>2
  <2>8. q.at \in InLine /\ (q.chan \in Funded => chain'[q.chan] # "none")
    BY <1>t, <1>3, <2>3 DEF HeldIsFunded, InLine
  <2> QED  BY <1>2, <1>3, <1>4, <1>5, <1>6, <2>3, <2>4, <2>5, <2>6, <2>7, <2>8, RequestMoves
<1>8. CASE ~ok
  <2>1. reqs' = [reqs EXCEPT ![r] = Idle] /\ line' = line /\ books' = books
    BY <1>8 DEF SettleReturns, Ends
  <2>2. HostTyped'
    BY <1>t, <1>2, <2>1 DEF HostTyped
  <2>3. HonestCell(Idle.cell)' /\ HonestCell(Idle.then)' /\ ~Counts(Idle)
    BY IdleIs, PaysOfCells DEF HonestCell, Counts
  <2>4. Booked'
    BY <1>2, <1>5, <1>6, <2>1, <2>2, <2>3, BookedKept
  <2> QED  BY <1>2, <1>3, <1>4, <1>5, <1>6, <2>1, <2>2, <2>3, <2>4, IdleIs, Constants, RequestMoves
<1> QED  BY <1>7, <1>8

LEMMA EvidenceInjectedKeeps ==
  ASSUME BooksInv, NEW r \in Requests, NEW taken \in BOOLEAN, EvidenceInjected(r, taken)
  PROVE  BooksInv'
<1>t. ControlTyped /\ HostTyped /\ PlantTyped /\ reqs[r] \in ReqSpace /\ HeldIsFunded
  BY DEF BooksInv, ControlTyped
<1>1. /\ reqs[r].at = "evidence" /\ line # <<>> /\ r = Head(line)
      /\ stage' = IF taken THEN reqs[r].cell ELSE stage
      /\ UNCHANGED <<chan, flag, certHashes, seqs, active, books, board, chain, clock, calm, unbooked>>
  BY DEF EvidenceInjected, boardVars, historyVars, hostVars
<1>2. HostTyped' /\ PlantTyped'
  BY <1>t, <1>1 DEF HostTyped, PlantTyped, ReqSpace
<1>3. Total' = Total /\ Total \in Nat /\ Total <= Total'
  BY <1>t, <1>1, TotalIs DEF Total
<1>4. PICK q : q = IF reqs[r].left > 1 THEN [reqs[r] EXCEPT !.left = @ - 1] ELSE Idle
  OBVIOUS
<1>5. /\ q \in ReqSpace /\ ~Counts(q) /\ q.cell \in {NoCell, reqs[r].cell}
      /\ q.then \in {NoCell, reqs[r].then} /\ q.chan \in {NoId, reqs[r].chan}
      /\ reqs[r].left > 1 => q.at \in InLine
  <2>1. CASE reqs[r].left > 1
    <3>1. PICK n \in Nat : n = reqs[r].left - 1
      BY <1>t, <2>1 DEF ReqSpace
    <3>2. q = [reqs[r] EXCEPT !.left = n]
      BY <1>4, <2>1, <3>1
    <3> QED  BY <1>t, <1>1, <3>2 DEF ReqSpace, InLine, Counts
  <2>2. CASE ~(reqs[r].left > 1)
    BY <1>4, <2>2, IdleIs DEF Counts
  <2> QED  BY <2>1, <2>2
<1>6. /\ reqs' = [reqs EXCEPT ![r] = q]
      /\ line' = IF reqs[r].left > 1 THEN Append(Tail(line), r) ELSE Tail(line)
  <2>1. PICK n : n = [reqs EXCEPT ![r] = q]
    OBVIOUS
  <2>2. CASE reqs[r].left > 1
    <3>1. n = [reqs EXCEPT ![r].left = @ - 1]
      BY <1>t, <1>4, <2>1, <2>2 DEF ControlTyped
    <3>2. reqs' = n /\ line' = Append(Tail(line), r)
      BY <2>2, <3>1 DEF EvidenceInjected
    <3> QED  BY <2>1, <2>2, <3>2
  <2>3. CASE ~(reqs[r].left > 1)
    <3>1. n = [reqs EXCEPT ![r] = Idle]
      BY <1>4, <2>1, <2>3
    <3>2. reqs' = n /\ line' = Tail(line)
      BY <2>3, <3>1 DEF EvidenceInjected
    <3> QED  BY <2>1, <2>3, <3>2
  <2> QED  BY <2>2, <2>3
<1>7. HonestCell(q.cell)' /\ HonestCell(q.then)'
  <2>1. PICK a, b : a = q.cell /\ b = q.then
    OBVIOUS
  <2>2. HonestCell(a) /\ HonestCell(b)
    BY <1>5, <2>1, PaysOfCells DEF HonestCell, BooksInv, CellsHonest
  <2>3. \A pay : Honest(pay) => Honest(pay)'
    BY <1>1, <1>3 DEF Honest
  <2> QED  BY <2>1, <2>2, <2>3 DEF HonestCell
<1>8. ~Counts(reqs[r])
  BY <1>1 DEF Counts
<1>9. Booked'
  BY <1>1, <1>2, <1>3, <1>5, <1>6, <1>8, BookedKept
<1>10. q.chan \in Funded => chain'[q.chan] # "none"
  BY <1>t, <1>1, <1>5, Constants DEF HeldIsFunded
<1>11. CASE reqs[r].left > 1
  BY <1>1, <1>2, <1>3, <1>5, <1>6, <1>7, <1>9, <1>10, <1>11, RequestMoves
<1>12. CASE ~(reqs[r].left > 1)
  BY <1>1, <1>2, <1>3, <1>5, <1>6, <1>7, <1>9, <1>10, <1>12, RequestMoves
<1> QED  BY <1>11, <1>12

\* A channel that is new on the chain: no cell and no request knows of it.
LEMMA FundingReturnsKeeps ==
  ASSUME BooksInv, NEW r \in Requests, FundingReturns(r)
  PROVE  BooksInv'
<1>t. /\ ControlTyped /\ HostTyped /\ PlantTyped /\ reqs \in [Requests -> ReqSpace]
      /\ HeldIsFunded /\ CellsHonest /\ LineFits
  BY DEF BooksInv, ControlTyped
<1>1. PICK c \in Fresh :
        /\ chain' = [chain EXCEPT ![c] = "funded"] /\ chan' = c /\ active' = c
        /\ books' = [books EXCEPT ![c] = NewBook]
  BY DEF FundingReturns
<1>2. /\ seqs' = [v1 |-> 0, v2 |-> 0] /\ flag' = FALSE /\ unbooked' = 0
      /\ reqs' = [reqs EXCEPT ![r] = Idle] /\ line' = line /\ reqs[r].at = "funding"
      /\ UNCHANGED <<certHashes, stage, board, clock, calm>>
  BY DEF FundingReturns, Ends, boardVars
<1>3. c \in Funded /\ chain[c] = "none" /\ c \in ChannelIds /\ c # NoId
  BY Constants DEF Fresh
<1>4. chain' \in [Funded -> {"none", "funded", "spent"}] /\ chain'[c] # "none"
      /\ \A d \in Funded : chain[d] # "none" => chain'[d] # "none"
  BY <1>t, <1>1, <1>3 DEF PlantTyped
<1>5. HostTyped' /\ PlantTyped'
  <2>1. NewBook \in Ledgers
    BY DEF NewBook, Ledgers
  <2>2. books' \in [ChannelIds -> Ledgers] /\ books'[NoId].settled
    BY <1>t, <1>1, <1>3, <2>1, Constants DEF HostTyped
  <2>3. PlantTyped'
    BY <1>t, <1>2, <1>4 DEF PlantTyped
  <2>4. HostTyped'
    BY <1>t, <1>1, <1>2, <1>3, <2>2 DEF HostTyped
  <2> QED  BY <2>3, <2>4
<1>6. \A pay : Honest(pay) => Honest(pay)'
  BY <1>1, <1>3, <1>4 DEF Honest
<1>7. \A cell : HonestCell(cell) => HonestCell(cell)'
  BY <1>6 DEF HonestCell
<1>8. \A s \in Requests : reqs'[s] = IF s = r THEN Idle ELSE reqs[s]
  BY <1>t, <1>2
<1>9. CellsHonest'
  <2>1. HonestCell(Idle.cell)' /\ HonestCell(Idle.then)'
    BY IdleIs, PaysOfCells DEF HonestCell
  <2>2. PICK a, b, f : a = stage /\ b = board.burst /\ f = board.fwd
    OBVIOUS
  <2>3. HonestCell(a)' /\ HonestCell(b)' /\ Honest(f)'
    BY <1>t, <1>6, <1>7, <2>2 DEF CellsHonest
  <2>4. \A s \in Requests : HonestCell(reqs[s].cell)' /\ HonestCell(reqs[s].then)'
    <3>1. TAKE s \in Requests
    <3>2. CASE s = r
      BY <1>8, <2>1, <3>2
    <3>3. CASE s # r
      <4>1. PICK d, e : d = reqs[s].cell /\ e = reqs[s].then
        OBVIOUS
      <4>2. HonestCell(d)' /\ HonestCell(e)'
        BY <1>t, <1>7, <4>1 DEF CellsHonest
      <4>3. reqs'[s].cell = d /\ reqs'[s].then = e
        BY <1>8, <3>3, <4>1
      <4> QED  BY <4>2, <4>3
    <3> QED  BY <3>2, <3>3
  <2> QED  BY <1>t, <1>2, <2>2, <2>3, <2>4 DEF CellsHonest
<1>10. HeldIsFunded'
  BY <1>t, <1>1, <1>4, <1>8, IdleIs, Constants DEF HeldIsFunded
<1>11. LineFits' /\ line' \in Seq(Requests)
  <2>1. reqs[r].at \notin InLine
    BY <1>2 DEF InLine
  <2> QED  BY <1>t, <1>2, <2>1, LineMoves
<1>12. Booked'
  <2>1. PICK v \in Nat : v = Cardinality(Underway')
    BY <1>t, <1>2, UnderwayMoves
  <2>2. Total' = 0 /\ books'[active'].accum = 0 /\ unbooked' = 0
    BY <1>t, <1>1, <1>2, <1>3 DEF Total, HostTyped, NewBook
  <2>3. 2 * HopCost * 0 <= 0 + 2 * HopCost * (v + 0)
    BY <2>1, Constants, Product
  <2> QED  BY <2>1, <2>2, <2>3 DEF Booked
<1>13. ControlTyped'
  BY <1>t, <1>5, <1>8, <1>11, <1>2, IdleIs DEF ControlTyped
<1> QED  BY <1>9, <1>10, <1>11, <1>12, <1>13 DEF BooksInv

LEMMA FundingFailsKeeps ==
  ASSUME BooksInv, NEW r \in Requests, FundingFails(r)
  PROVE  BooksInv'
<1>t. ControlTyped /\ HostTyped /\ PlantTyped
  BY DEF BooksInv, ControlTyped
<1>1. /\ reqs[r].at = "funding" /\ reqs' = [reqs EXCEPT ![r] = Idle] /\ line' = line
      /\ UNCHANGED <<chan, flag, certHashes, seqs, active, books, stage, board, clock, calm, unbooked>>
      /\ chain' = chain \/ \E c \in Fresh : chain' = [chain EXCEPT ![c] = "funded"]
  BY DEF FundingFails, Ends, hostVars, boardVars, historyVars
<1>2. /\ chain' \in [Funded -> {"none", "funded", "spent"}]
      /\ \A d \in Funded : chain[d] # "none" => chain'[d] # "none"
  BY <1>t, <1>1 DEF PlantTyped
<1>3. HostTyped' /\ PlantTyped'
  BY <1>t, <1>1, <1>2 DEF HostTyped, PlantTyped
<1>4. Total' = Total /\ Total \in Nat /\ Total <= Total'
  BY <1>t, <1>1, TotalIs DEF Total
<1>5. HonestCell(Idle.cell)' /\ HonestCell(Idle.then)' /\ ~Counts(Idle)
  BY IdleIs, PaysOfCells DEF HonestCell, Counts
<1>6. reqs[r].at \notin InLine /\ ~Counts(reqs[r])
  BY <1>1 DEF InLine, Counts
<1>7. Booked'
  BY <1>1, <1>3, <1>4, <1>5, <1>6, BookedKept
<1> QED  BY <1>1, <1>2, <1>3, <1>4, <1>5, <1>6, <1>7, IdleIs, Constants, RequestMoves

LEMMA WalletKeeps ==
  ASSUME BooksInv, NEW r \in Requests, NEW ok \in BOOLEAN,
         WalletReturns(r, ok) \/ AnchorReturns(r)
  PROVE  BooksInv'
<1>t. HostTyped
  BY DEF BooksInv, ControlTyped
<1>1. HostStep /\ reqs[r].at \in {"wallet", "anchoring"}
  BY DEF BooksInv, ControlTyped, PlantTyped, HostStep, WalletReturns, AnchorReturns, boardVars, historyVars
<1>2. Ripe(r, NoId)
  BY <1>1, Constants DEF Ripe, Counts, InLine
<1>3. PICK kind \in Routes \ {"v1", "v2", "bad"} : kind = IF reqs[r].kind = "pay" THEN "plain" ELSE "scada"
  BY DEF Routes
<1>4. InjectPlain(r, kind) \/ (Ends(r) /\ UNCHANGED <<hostVars, clock, unbooked>>)
  BY <1>3 DEF WalletReturns, AnchorReturns, historyVars
<1> QED  BY <1>1, <1>2, <1>3, <1>4, PlainKeeps

-----------------------------------------------------------------------------
(* The boards keep the books *)

\* What a board keeps of a commitment that reaches its channel.
LEMMA ApplyKeeps ==
  ASSUME PlantTyped, NEW pay \in Pays, NEW fwd, fwd = ApplyCommitment(Adopted(pay), pay, 0)
  PROVE  /\ fwd \in Channels(ChannelIds, Nat, Nat, {0, 1})
         /\ \/ fwd = board.fwd
            \/ /\ fwd.id = pay.id /\ board.fwd.state = "OPEN" /\ fwd.deviceShare = board.fwd.deviceShare
               /\ fwd.state = "OPEN"
            \/ fwd.id = pay.id /\ fwd.deviceShare = pay.deviceShare /\ fwd.state = "ACTIVE"
<1>1. PICK f : f = board.fwd
  OBVIOUS
<1>2. f \in Channels(ChannelIds, Nat, Nat, {0, 1})
  BY <1>1 DEF PlantTyped, Boards
<1>3. PICK a : a = Adopted(pay)
  OBVIOUS
<1>4. /\ a \in Channels(ChannelIds, Nat, Nat, {0, 1})
      /\ \/ a = f
         \/ a.id = pay.id /\ f.state = "OPEN" /\ a.state = "OPEN" /\ a.deviceShare = f.deviceShare
  <2>1. CASE f.state = "OPEN" /\ f.id = NoId
    <3>1. a = [f EXCEPT !.id = pay.id]
      BY <1>1, <1>3, <2>1 DEF Adopted
    <3> QED  BY <1>2, <2>1, <3>1, Constants DEF Channels, Pays
  <2>2. CASE ~(f.state = "OPEN" /\ f.id = NoId)
    BY <1>1, <1>2, <1>3, <2>2 DEF Adopted
  <2> QED  BY <2>1, <2>2
<1>5. CASE ~AcceptsCommitment(a, pay, 0)
  <2>1. fwd = a
    BY <1>3, <1>5 DEF ApplyCommitment
  <2> QED  BY <1>1, <1>4, <2>1
<1>6. CASE AcceptsCommitment(a, pay, 0)
  <2>1. fwd = [a EXCEPT !.state = "ACTIVE", !.seq = pay.seq, !.deviceShare = pay.deviceShare,
                 !.userShare = pay.userShare, !.expiry = pay.expiry]
    BY <1>3, <1>6 DEF ApplyCommitment
  <2>2. pay.id = a.id
    BY <1>6 DEF AcceptsCommitment
  <2>3. /\ pay.seq \in Nat /\ pay.deviceShare \in Nat /\ pay.userShare \in Nat /\ pay.expiry \in {0, 1}
        /\ "ACTIVE" \in ChannelStates
    BY DEF Pays, ChannelStates
  <2>4. /\ fwd.id = a.id /\ fwd.deviceShare = pay.deviceShare /\ fwd.state = "ACTIVE"
    BY <1>4, <2>1 DEF Channels
  <2>5. fwd \in Channels(ChannelIds, Nat, Nat, {0, 1})
    BY <1>4, <2>1, <2>3 DEF Channels
  <2> QED  BY <2>2, <2>4, <2>5
<1> QED  BY <1>5, <1>6

LEMMA InstallTyped ==
  ASSUME NEW t \in [Slots -> Certs \cup {Free}], NEW cert \in Certs
  PROVE  Install(t, RelayDomain, cert, 1) \in [Slots -> Certs \cup {Free}]
BY DEF Install

\* A commitment is admitted or refused.
LEMMA AdmitKeeps ==
  ASSUME PlantTyped, NEW b \in Boards, b.fwd = board.fwd, b.burst \in {NoCell, board.burst},
         NEW pay \in Pays, NEW key, Admit(b, pay, key)
  PROVE  /\ board' \in Boards /\ board'.burst = b.burst /\ board'.table = b.table
         /\ \/ board'.fwd = board.fwd
            \/ board'.fwd = ApplyCommitment(Adopted(pay), pay, 0)
<1>1. PICK fwd : fwd = ApplyCommitment(Adopted(pay), pay, 0)
  OBVIOUS
<1>2. fwd \in Channels(ChannelIds, Nat, Nat, {0, 1})
  BY <1>1, ApplyKeeps
<1>3. board' = [b EXCEPT !.fwd = IF Refusal(pay, key) \in {"none", "channel_reject"} THEN fwd ELSE @]
  BY <1>1 DEF Admit
<1>4. board' = [b EXCEPT !.fwd = fwd] \/ board' = b
  BY <1>3 DEF Boards
<1> QED  BY <1>1, <1>2, <1>4 DEF Boards

\* The kind of a cell says what it holds.
LEMMA CellKinds ==
  ASSUME NEW cell \in Cells
  PROVE  /\ cell.kind = "cert" => cell \in CertCells /\ cell.cert \in Certs
         /\ cell.kind = "v1" => cell \in CellsV1 /\ cell.pay \in Pays
         /\ cell.kind = "v2a" => cell \in CellsA /\ cell.flow \in Pays
         /\ cell.kind = "v2b" => cell \in CellsB /\ cell.pay \in Pays
<1>1. \/ cell.kind \in {"none", "v0", "plain", "settle"}
      \/ cell \in CertCells /\ cell.kind = "cert" /\ cell.cert \in Certs
      \/ cell \in CellsV1 /\ cell.kind = "v1" /\ cell.pay \in Pays
      \/ cell \in CellsA /\ cell.kind = "v2a" /\ cell.flow \in Pays
      \/ cell \in CellsB /\ cell.kind = "v2b" /\ cell.pay \in Pays
  BY CellsAre DEF Cells, CertCells, CellsV1, CellsA, CellsB, SettleCells
<1> QED  BY <1>1

\* What a board hears leaves what it was promised honest.
LEMMA HearKeeps ==
  ASSUME HostTyped, PlantTyped, CellsHonest, NEW cell \in Cells, HonestCell(cell), Hear(cell)
  PROVE  /\ board' \in Boards
         /\ board'.burst \in {NoCell, board.burst, cell}
         /\ Honest(board'.fwd)
         /\ board'.fwd.state = "OPEN" => board'.fwd.deviceShare = 0
<1>t. board \in Boards
  BY DEF PlantTyped
<1>0. Honest(board.fwd) /\ (board.fwd.state = "OPEN" => board.fwd.deviceShare = 0)
  BY DEF CellsHonest
<1>a. ASSUME NEW pay \in Pays, Honest(pay), board'.fwd = ApplyCommitment(Adopted(pay), pay, 0)
      PROVE  Honest(board'.fwd) /\ (board'.fwd.state = "OPEN" => board'.fwd.deviceShare = 0)
  <2>1. PICK fwd : fwd = board'.fwd
    OBVIOUS
  <2>2. \/ fwd = board.fwd
        \/ /\ fwd.id = pay.id /\ board.fwd.state = "OPEN" /\ fwd.deviceShare = board.fwd.deviceShare
        \/ fwd.id = pay.id /\ fwd.deviceShare = pay.deviceShare /\ fwd.state = "ACTIVE"
    BY <1>a, <2>1, ApplyKeeps
  <2>3. CASE fwd = board.fwd
    BY <1>0, <2>1, <2>3
  <2>4. CASE fwd.id = pay.id /\ board.fwd.state = "OPEN" /\ fwd.deviceShare = board.fwd.deviceShare
    <3>1. fwd.deviceShare = 0
      BY <1>0, <2>4
    <3>2. pay.deviceShare \in Nat
      BY DEF Pays
    <3>3. Honest(fwd)
      BY <1>a, <2>4, <3>1, <3>2, TotalIs DEF Honest
    <3> QED  BY <2>1, <3>1, <3>3
  <2>5. CASE fwd.id = pay.id /\ fwd.deviceShare = pay.deviceShare /\ fwd.state = "ACTIVE"
    BY <1>a, <2>1, <2>5 DEF Honest
  <2> QED  BY <2>2, <2>3, <2>4, <2>5
<1>1. CASE cell.kind = "cert"
  <2>1. board' = [board EXCEPT !.table = Install(@, RelayDomain, cell.cert, 1)]
    BY <1>1 DEF Hear
  <2>2. cell.cert \in Certs
    BY <1>1, CellKinds
  <2>3. PICK t \in [Slots -> Certs \cup {Free}] : t = Install(board.table, RelayDomain, cell.cert, 1)
    BY <1>t, <2>2, InstallTyped DEF Boards
  <2>4. board' = [board EXCEPT !.table = t]
    BY <1>t, <2>1, <2>3 DEF Boards
  <2> QED  BY <1>t, <1>0, <2>4 DEF Boards
<1>2. CASE cell.kind = "v1"
  <2>1. Admit(board, cell.pay, cell.key)
    BY <1>2 DEF Hear
  <2>2. cell.pay \in Pays /\ Honest(cell.pay)
    BY <1>2, CellKinds DEF HonestCell, PaysOf
  <2>3. /\ board' \in Boards /\ board'.burst = board.burst
        /\ \/ board'.fwd = board.fwd
           \/ board'.fwd = ApplyCommitment(Adopted(cell.pay), cell.pay, 0)
    BY <1>t, <2>1, <2>2, AdmitKeeps
  <2> QED  BY <1>0, <1>a, <2>2, <2>3
<1>3. CASE cell.kind = "v2a"
  <2>1. board' = [board EXCEPT !.burst = cell]
    BY <1>3 DEF Hear
  <2>2. cell \in CellsA
    BY <1>3, CellKinds
  <2> QED  BY <1>t, <1>0, <2>1, <2>2 DEF Boards
<1>4. CASE cell.kind = "v2b"
  <2>1. PICK b : b = [board EXCEPT !.burst = NoCell]
    OBVIOUS
  <2>2. b \in Boards /\ b.fwd = board.fwd /\ b.burst = NoCell
    BY <1>t, <2>1 DEF Boards
  <2>3. board' = b \/ Admit(b, cell.pay, board.burst.key)
    BY <1>4, <2>1 DEF Hear
  <2>4. cell.pay \in Pays /\ Honest(cell.pay)
    BY <1>4, CellKinds DEF HonestCell, PaysOf
  <2>5. CASE board' = b
    BY <1>0, <2>2, <2>5
  <2>6. CASE Admit(b, cell.pay, board.burst.key)
    <3>1. PICK key : key = board.burst.key
      OBVIOUS
    <3>2. /\ board' \in Boards /\ board'.burst = b.burst
          /\ \/ board'.fwd = board.fwd
             \/ board'.fwd = ApplyCommitment(Adopted(cell.pay), cell.pay, 0)
      BY <2>2, <2>4, <2>6, <3>1, AdmitKeeps
    <3> QED  BY <1>0, <1>a, <2>2, <2>4, <3>2
  <2> QED  BY <2>3, <2>5, <2>6
<1>5. CASE cell.kind \notin {"cert", "v1", "v2a", "v2b"}
  <2>1. board' = board
    BY <1>5 DEF Hear, boardVars
  <2> QED  BY <1>t, <1>0, <2>1
<1> QED  BY <1>1, <1>2, <1>3, <1>4, <1>5

LEMMA BroadcastKeeps ==
  ASSUME BooksInv, NEW heard \in BOOLEAN, Broadcast(heard)
  PROVE  BooksInv'
<1>t. ControlTyped /\ HostTyped /\ PlantTyped /\ CellsHonest /\ HeldIsFunded /\ LineFits
  BY DEF BooksInv, ControlTyped
<1>1. /\ UNCHANGED <<chan, flag, certHashes, seqs, active, books, reqs, line, chain, clock, unbooked>>
      /\ stage' = NoCell /\ calm' = (calm /\ heard)
  BY DEF Broadcast, hostVars
<1>2. PICK cell \in Cells : cell = stage
  BY <1>t DEF PlantTyped
<1>3. /\ board' \in Boards /\ board'.burst \in {NoCell, board.burst, cell}
      /\ Honest(board'.fwd) /\ (board'.fwd.state = "OPEN" => board'.fwd.deviceShare = 0)
  <2>1. CASE heard
    <3>1. Hear(cell) /\ HonestCell(cell)
      BY <1>t, <1>2, <2>1 DEF Broadcast, CellsHonest
    <3> QED  BY <1>t, <3>1, HearKeeps
  <2>2. CASE ~heard
    BY <1>t, <2>2 DEF Broadcast, boardVars, PlantTyped, CellsHonest
  <2> QED  BY <2>1, <2>2
<1>4. HostTyped' /\ PlantTyped'
  <2>1. HostTyped'
    BY <1>t, <1>1 DEF HostTyped
  <2>2. PlantTyped'
    BY <1>t, <1>1, <1>3, CellsAre DEF PlantTyped
  <2> QED  BY <2>1, <2>2
<1>5. ControlTyped' /\ LineFits' /\ HeldIsFunded'
  BY <1>t, <1>1, <1>4 DEF ControlTyped, LineFits, HeldIsFunded
<1>6. \A pay : Honest(pay) => Honest(pay)'
  BY <1>1 DEF Honest, Total
<1>7. \A c : HonestCell(c) => HonestCell(c)'
  BY <1>6 DEF HonestCell
<1>8. CellsHonest'
  <2>1. PICK burst, fwd : burst = board'.burst /\ fwd = board'.fwd
    OBVIOUS
  <2>2. HonestCell(burst)
    BY <1>t, <1>2, <1>3, <2>1, PaysOfCells DEF CellsHonest, HonestCell
  <2>3. HonestCell(burst)' /\ Honest(fwd)'
    BY <1>3, <1>6, <1>7, <2>1, <2>2
  <2>4. \A s \in Requests : HonestCell(reqs[s].cell)' /\ HonestCell(reqs[s].then)'
    <3>1. TAKE s \in Requests
    <3>2. PICK a, b : a = reqs[s].cell /\ b = reqs[s].then
      OBVIOUS
    <3>3. HonestCell(a)' /\ HonestCell(b)'
      BY <1>t, <1>7, <3>2 DEF CellsHonest
    <3> QED  BY <1>1, <3>2, <3>3
  <2>5. HonestCell(stage)'
    BY <1>1, PaysOfCells DEF HonestCell
  <2> QED  BY <1>3, <2>1, <2>3, <2>4, <2>5 DEF CellsHonest
<1>9. Booked'
  BY <1>1 DEF BooksInv, Booked, Total, Underway
<1> QED  BY <1>5, <1>8, <1>9 DEF BooksInv

\* A board that knows nothing was promised nothing.
LEMMA NewBoardIs ==
  /\ NewBoard \in Boards /\ NewBoard.burst = NoCell /\ NewBoard.fwd.id = NoId
  /\ NewBoard.fwd.deviceShare = 0 /\ NewBoard.fwd.state = "OPEN" /\ NewBoard.fwd.seq = 0
  /\ NewBoard.fwd.capacity = Capacity /\ NewBoard.table = EmptyTable
<1>1. PICK f : f = ApplyOpen(ChannelInit, [id |-> NoId, capacity |-> Capacity])
  OBVIOUS
<1>2. f = [ChannelInit EXCEPT !.state = "OPEN", !.id = NoId, !.capacity = Capacity]
  BY <1>1 DEF ApplyOpen, AcceptsOpen, ChannelInit
<1>3. /\ f \in Channels(ChannelIds, Nat, Nat, {0, 1}) /\ f.id = NoId /\ f.deviceShare = 0
      /\ f.state = "OPEN" /\ f.seq = 0 /\ f.capacity = Capacity
  BY <1>2, Constants DEF ChannelInit, Channels, ChannelStates
<1>4. EmptyTable \in [Slots -> Certs \cup {Free}]
  BY DEF EmptyTable
<1>5. NewBoard = [table |-> EmptyTable, burst |-> NoCell, fwd |-> f]
  BY <1>1 DEF NewBoard
<1> QED  BY <1>3, <1>4, <1>5 DEF Boards

LEMMA BoardRebootsKeeps ==
  ASSUME BooksInv, BoardReboots
  PROVE  BooksInv'
<1>t. ControlTyped /\ HostTyped /\ PlantTyped /\ CellsHonest /\ HeldIsFunded /\ LineFits
  BY DEF BooksInv, ControlTyped
<1>1. /\ UNCHANGED <<chan, flag, certHashes, seqs, active, books, reqs, line, stage, chain, clock, unbooked>>
      /\ board' = NewBoard /\ calm' = FALSE
  BY DEF BoardReboots, hostVars, portVars
<1>2. HostTyped' /\ PlantTyped'
  <2>1. HostTyped'
    BY <1>t, <1>1 DEF HostTyped
  <2>2. PlantTyped'
    BY <1>t, <1>1, NewBoardIs DEF PlantTyped
  <2> QED  BY <2>1, <2>2
<1>3. ControlTyped' /\ LineFits' /\ HeldIsFunded'
  BY <1>t, <1>1, <1>2 DEF ControlTyped, LineFits, HeldIsFunded
<1>4. \A pay : Honest(pay) => Honest(pay)'
  BY <1>1 DEF Honest, Total
<1>5. \A c : HonestCell(c) => HonestCell(c)'
  BY <1>4 DEF HonestCell
<1>6. CellsHonest'
  <2>1. HonestCell(board.burst)' /\ Honest(board.fwd)' /\ (board.fwd.state = "OPEN" => board.fwd.deviceShare = 0)'
    BY <1>1, NewBoardIs, PaysOfCells, Constants DEF HonestCell, Honest
  <2>2. \A s \in Requests : HonestCell(reqs[s].cell)' /\ HonestCell(reqs[s].then)'
    <3>1. TAKE s \in Requests
    <3>2. PICK a, b : a = reqs[s].cell /\ b = reqs[s].then
      OBVIOUS
    <3>3. HonestCell(a)' /\ HonestCell(b)'
      BY <1>t, <1>5, <3>2 DEF CellsHonest
    <3> QED  BY <1>1, <3>2, <3>3
  <2>3. PICK d : d = stage
    OBVIOUS
  <2>4. HonestCell(d)'
    BY <1>t, <1>5, <2>3 DEF CellsHonest
  <2> QED  BY <1>1, <2>1, <2>2, <2>3, <2>4 DEF CellsHonest
<1>7. Booked'
  BY <1>1 DEF BooksInv, Booked, Total, Underway
<1> QED  BY <1>3, <1>6, <1>7 DEF BooksInv

\* The process forgets the channel, and with it what it owes.
LEMMA ProcessRestartsKeeps ==
  ASSUME BooksInv, ProcessRestarts
  PROVE  BooksInv'
<1>t. ControlTyped /\ HostTyped /\ PlantTyped /\ CellsHonest
  BY DEF BooksInv, ControlTyped
<1>1. /\ chan' = NoId /\ active' = NoId /\ flag' = FALSE
      /\ certHashes' = [c \in ChannelIds |-> 0]
      /\ seqs' = [v1 |-> 0, v2 |-> 0]
      /\ books' = [c \in ChannelIds |-> NoBook]
      /\ reqs' = [r \in Requests |-> Idle]
      /\ line' = <<>> /\ unbooked' = 0 /\ calm' = FALSE
      /\ UNCHANGED <<stage, board, chain, clock>>
  BY DEF ProcessRestarts, boardVars
<1>2. NoBook \in Ledgers /\ NoBook.settled
  BY DEF NoBook, NewBook, Ledgers
<1>3. HostTyped'
  BY <1>t, <1>1, <1>2, Constants DEF HostTyped
<1>4. PlantTyped'
  BY <1>t, <1>1 DEF PlantTyped
<1>5. ControlTyped' /\ LineFits' /\ HeldIsFunded'
  BY <1>1, <1>3, <1>4, IdleIs, Constants DEF ControlTyped, LineFits, HeldIsFunded
<1>6. \A pay : Honest(pay) => Honest(pay)'
  BY <1>1, Constants DEF Honest
<1>7. CellsHonest'
  <2>1. PICK a, b, f : a = stage /\ b = board.burst /\ f = board.fwd
    OBVIOUS
  <2>2. HonestCell(a)' /\ HonestCell(b)' /\ Honest(f)'
    BY <1>t, <1>6, <2>1 DEF CellsHonest, HonestCell
  <2>3. \A s \in Requests : HonestCell(reqs[s].cell)' /\ HonestCell(reqs[s].then)'
    BY <1>1, IdleIs, PaysOfCells DEF HonestCell
  <2> QED  BY <1>t, <1>1, <2>1, <2>2, <2>3 DEF CellsHonest
<1>8. Booked'
  BY <1>1, <1>2, <1>3 DEF Booked, HostTyped
<1> QED  BY <1>5, <1>7, <1>8 DEF BooksInv

LEMMA BooksInit ==
  Init => BooksInv
<1> SUFFICES ASSUME Init PROVE BooksInv
  OBVIOUS
<1>1. NoBook \in Ledgers /\ NoBook.settled
  BY DEF NoBook, NewBook, Ledgers
<1>2. HostTyped
  BY <1>1, Constants DEF Init, HostTyped
<1>3. PlantTyped
  BY NewBoardIs, CellsAre DEF Init, PlantTyped
<1>4. ControlTyped /\ LineFits /\ HeldIsFunded
  BY <1>2, <1>3, IdleIs, Constants DEF Init, ControlTyped, LineFits, HeldIsFunded
<1>5. CellsHonest
  BY IdleIs, PaysOfCells, NewBoardIs, Constants DEF Init, CellsHonest, HonestCell, Honest
<1>6. Booked
  BY <1>1, <1>2 DEF Init, Booked, HostTyped
<1> QED  BY <1>4, <1>5, <1>6 DEF BooksInv

LEMMA BooksStep ==
  BooksInv /\ [Next]_vars => BooksInv'
<1> SUFFICES ASSUME BooksInv, [Next]_vars PROVE BooksInv'
  OBVIOUS
<1>1. CASE UNCHANGED vars
  <2>1. UNCHANGED <<chan, flag, certHashes, seqs, active, books, reqs, line, stage, board, chain,
                    clock, calm, unbooked>>
    BY <1>1 DEF vars, hostVars, portVars, boardVars, historyVars
  <2> QED  BY <2>1 DEF BooksInv, ControlTyped, HostTyped, PlantTyped, LineFits, CellsHonest, HonestCell,
               Honest, Total, HeldIsFunded, Booked, Underway
<1>2. CASE Next
  <2>1. ASSUME NEW r \in Requests, NEW kind \in Kinds, NEW triggerOk \in BOOLEAN, Start(r, kind, triggerOk)
        PROVE  BooksInv'
    BY <2>1, StartKeeps
  <2>2. ASSUME NEW r \in Requests, GoesOn(r) PROVE BooksInv'
    <3>1. ASSUME NEW taken \in BOOLEAN,
                 CertInjected(r, taken) \/ ForwardInjected(r, taken) \/ EvidenceInjected(r, taken)
          PROVE  BooksInv'
      BY <3>1, CertInjectedKeeps, ForwardInjectedKeeps, EvidenceInjectedKeeps
    <3>2. CASE InjectionFails(r)
      BY <3>2, InjectionFailsKeeps
    <3>3. ASSUME NEW ok \in BOOLEAN, CertSettled(r, ok) \/ SettleReturns(r, ok) PROVE BooksInv'
      BY <3>3, CertSettledKeeps, SettleReturnsKeeps
    <3>4. CASE GapOver(r)
      BY <3>4, GapOverKeeps
    <3> QED  BY <2>2, <3>1, <3>2, <3>3, <3>4 DEF GoesOn, Writes
  <2>3. ASSUME NEW r \in Requests, FundingReturns(r) \/ FundingFails(r) \/ AnchorReturns(r) PROVE BooksInv'
    <3>1. CASE FundingReturns(r)
      BY <3>1, FundingReturnsKeeps
    <3>2. CASE FundingFails(r)
      BY <3>2, FundingFailsKeeps
    <3>3. CASE AnchorReturns(r)
      <4>1. TRUE \in BOOLEAN
        OBVIOUS
      <4> QED  BY <3>3, <4>1, WalletKeeps
    <3> QED  BY <2>3, <3>1, <3>2, <3>3
  <2>4. ASSUME NEW r \in Requests, NEW ok \in BOOLEAN, WalletReturns(r, ok) PROVE BooksInv'
    BY <2>4, WalletKeeps
  <2>5. ASSUME NEW heard \in BOOLEAN, Broadcast(heard) PROVE BooksInv'
    BY <2>5, BroadcastKeeps
  <2> QED  BY <1>2, <2>1, <2>2, <2>3, <2>4, <2>5, BoardRebootsKeeps, ProcessRestartsKeeps DEF Next
<1> QED  BY <1>1, <1>2

\* The inductive invariant: every commitment around, in a request, in the
\* injector or on a board, is on a channel that was funded and of no more than
\* the counters of the active channel, and every forward counted is booked, under
\* way or known to be missed.
THEOREM BooksInvariant == Spec => []BooksInv
BY BooksInit, BooksStep, PTL DEF Spec

\* What a board was promised over the open channel is covered by the books the
\* channel is settled from, the forwards under way and the ones known not to be
\* booked, however requests overlap, whatever is lost and whoever restarts.
THEOREM BooksCover == Spec => []BooksCoverBoards
<1>1. ASSUME BooksInv PROVE BooksCoverBoards
  <2> SUFFICES ASSUME ~books[active].settled, board.fwd.id = active
               PROVE  2 * board.fwd.deviceShare
                        <= books[active].accum + 2 * HopCost * (Cardinality(Underway) + unbooked)
    BY DEF BooksCoverBoards
  <2>1. HostTyped /\ PlantTyped /\ Booked /\ Honest(board.fwd) /\ ControlTyped
    BY <1>1 DEF BooksInv, ControlTyped, CellsHonest
  <2>2. active \in Funded
    BY <2>1, Constants DEF HostTyped
  <2>3. PICK d \in Nat, t \in Nat, a \in Nat, u \in Int :
          /\ d = board.fwd.deviceShare /\ t = Total /\ a = books[active].accum
          /\ u = Cardinality(Underway) + unbooked
    <3>1. Cardinality(Underway) \in Nat
      <4>1. Underway \subseteq Requests
        BY DEF Underway
      <4> QED  BY <4>1, Constants, FS_Subset, FS_CardinalityType
    <3>2. board.fwd.deviceShare \in Nat
      <4>1. board.fwd \in Channels(ChannelIds, Nat, Nat, {0, 1})
        BY <2>1 DEF PlantTyped, Boards
      <4> QED  BY <4>1 DEF Channels
    <3>3. books[active].accum \in Nat
      <4>1. books[active] \in Ledgers
        BY <2>1 DEF HostTyped
      <4> QED  BY <4>1 DEF Ledgers
    <3>4. Total \in Nat
      BY <2>1, TotalIs
    <3>5. PICK v \in Nat, w \in Nat : v = Cardinality(Underway) /\ w = unbooked
      BY <2>1, <3>1 DEF HostTyped
    <3>6. v + w \in Int
      BY <3>5
    <3> QED  BY <3>2, <3>3, <3>4, <3>5, <3>6
  <2>4. d <= HopCost * t
    BY <2>1, <2>2, <2>3 DEF Honest
  <2>5. 2 * HopCost * t <= a + 2 * HopCost * u
    BY <2>1, <2>3 DEF Booked
  <2>6. 2 * HopCost * t = 2 * (HopCost * t) /\ HopCost * t \in Nat /\ 2 * HopCost * u \in Int
    BY Constants, Product
  <2>7. 2 * d <= a + 2 * HopCost * u
    BY <2>4, <2>5, <2>6
  <2> QED  BY <2>3, <2>7
<1> QED  BY <1>1, BooksInvariant, PTL

-----------------------------------------------------------------------------
(* The grants of a board *)

LEMMA FirstOne ==
  ASSUME NEW S, NEW i \in S, \A j \in S : j = i, i \in Nat
  PROVE  First(S) = i
<1>1. \A j \in S : i <= j
  OBVIOUS
<1>2. \E k \in S : \A j \in S : k <= j
  BY <1>1
<1>3. First(S) \in S
  BY <1>2 DEF First
<1> QED  BY <1>3

LEMMA SlotsAre ==
  Slots \subseteq Nat /\ 1 \in Slots /\ 2 \in Slots
BY Constants, RoomAssumption DEF Slots

LEMMA OccupiedIs ==
  ASSUME NEW t \in [Slots -> Certs \cup {Free}], NEW i \in Slots
  PROVE  /\ Occupied(t, i, 1) <=> t[i] # Free
         /\ t[i] # Free => t[i] \in Certs /\ t[i].domain = RelayDomain
BY DEF Occupied, Expired, Certs

\* A table of grants has one grant of a channel, or none.
LEMMA LookupIs ==
  ASSUME NEW t \in [Slots -> Certs \cup {Free}], OneEntryPerGrant(t, 1), NEW c
  PROVE  /\ \A i \in Slots : t[i] # Free /\ t[i].chan = c => Lookup(t, c, RelayDomain, 1) = t[i]
         /\ Lookup(t, c, RelayDomain, 1) # Free =>
              \E i \in Slots : t[i] # Free /\ t[i].chan = c /\ t[i].domain = RelayDomain
<1> DEFINE found == {i \in Slots : /\ Occupied(t, i, 1)
                                   /\ t[i].chan = c
                                   /\ t[i].domain = RelayDomain}
<1>1. Lookup(t, c, RelayDomain, 1) = IF found = {} THEN Free ELSE t[First(found)]
  BY DEF Lookup
<1>2. \A i \in Slots : i \in found <=> t[i] # Free /\ t[i].chan = c
  BY OccupiedIs
<1>3. \A i, j \in found : i = j
  <2>1. TAKE i, j \in found
  <2>2. Occupied(t, i, 1) /\ Occupied(t, j, 1) /\ SameGrant(t[i], t[j]) /\ i \in Slots /\ j \in Slots
    BY <2>1 DEF SameGrant
  <2> QED  BY <2>2 DEF OneEntryPerGrant
<1>4. found \subseteq Slots
  OBVIOUS
<1>5. \A i \in found : t[i] # Free /\ t[i].chan = c /\ t[i].domain = RelayDomain
  BY OccupiedIs
<1> HIDE DEF found
<1>6. \A i \in found : First(found) = i
  BY <1>3, <1>4, SlotsAre, FirstOne
<1> QED  BY <1>1, <1>2, <1>4, <1>5, <1>6

\* Where the certificate of a channel goes, when the table holds no grants but its
\* own and the demo channel's.
LEMMA InstallIs ==
  ASSUME NEW t \in [Slots -> Certs \cup {Free}], OneEntryPerGrant(t, 1), NEW cert \in Certs,
         \A i \in Slots : t[i] # Free => t[i].chan \in {NoId, cert.chan}
  PROVE  \E s \in Slots : /\ Install(t, RelayDomain, cert, 1) = [t EXCEPT ![s] = cert]
                          /\ \A i \in Slots : i # s /\ t[i] # Free => t[i].chan # cert.chan
<1>1. cert.domain = RelayDomain /\ ~Expired(cert, 1)
  BY DEF Certs, Expired
<1>2. \A i \in Slots : i \in Renewable(t, cert, 1) <=> t[i] # Free /\ t[i].chan = cert.chan
  BY <1>1, OccupiedIs DEF Renewable, SameGrant
<1>3. \A i \in Slots : i \in FreeSlots(t, 1) <=> t[i] = Free
  BY OccupiedIs DEF FreeSlots
<1>4. Renewable(t, cert, 1) \subseteq Slots /\ FreeSlots(t, 1) \subseteq Slots
  BY DEF Renewable, FreeSlots
<1>o. \A i, j \in Slots : t[i] # Free /\ t[j] # Free /\ t[i].chan = t[j].chan => i = j
  BY OccupiedIs DEF OneEntryPerGrant, SameGrant
<1>5. CASE Renewable(t, cert, 1) # {}
  <2>1. PICK s \in Renewable(t, cert, 1) : TRUE
    BY <1>5
  <2>2. \A i \in Renewable(t, cert, 1) : i = s
    BY <1>2, <1>4, <1>o, <2>1
  <2>3. First(Renewable(t, cert, 1)) = s
    BY <1>4, <2>1, <2>2, SlotsAre, FirstOne
  <2>4. Install(t, RelayDomain, cert, 1) = [t EXCEPT ![s] = cert]
    BY <1>1, <1>5, <2>3 DEF Install, InstallCode, SlotFor
  <2> QED  BY <1>2, <1>4, <1>o, <2>1, <2>4
<1>6. CASE Renewable(t, cert, 1) = {}
  <2>1. 1 \in FreeSlots(t, 1) \/ 2 \in FreeSlots(t, 1)
    <3>1. SUFFICES ASSUME t[1] # Free, t[2] # Free PROVE FALSE
      BY <1>3, SlotsAre
    <3>2. t[1].chan = NoId /\ t[2].chan = NoId
      BY <1>2, <1>6, <3>1, SlotsAre
    <3> QED  BY <1>o, <3>1, <3>2, SlotsAre
  <2>2. \E s \in FreeSlots(t, 1) : \A j \in FreeSlots(t, 1) : s <= j
    <3>1. \A j \in FreeSlots(t, 1) : j \in Nat /\ 1 <= j
      BY <1>4, Constants DEF Slots
    <3>2. CASE 1 \in FreeSlots(t, 1)
      BY <3>1, <3>2
    <3>3. CASE 1 \notin FreeSlots(t, 1)
      <4>1. \A j \in FreeSlots(t, 1) : 2 <= j
        BY <3>1, <3>3
      <4> QED  BY <2>1, <3>3, <4>1
    <3> QED  BY <3>2, <3>3
  <2>3. PICK s : s = First(FreeSlots(t, 1))
    OBVIOUS
  <2>4. s \in FreeSlots(t, 1)
    BY <2>2, <2>3 DEF First
  <2>5. Install(t, RelayDomain, cert, 1) = [t EXCEPT ![s] = cert]
    BY <1>1, <1>6, <2>3, <2>4 DEF Install, InstallCode, SlotFor
  <2> QED  BY <1>2, <1>4, <1>6, <2>4, <2>5
<1> QED  BY <1>5, <1>6

-----------------------------------------------------------------------------
(* Forwards sent one at a time *)

\* The board holds the certificate of the channel that was issued last.
Granted ==
  /\ Cert(chan) # Free
  /\ Cert(chan).edge = RelayKey(chan)
  /\ Cert(chan).from = certHashes[chan]

\* The certificate of the channel that was issued last, on its way.
Current == CertCell(chan, certHashes[chan])

\* The board will take the commitment.
Payable(pay) ==
  /\ Granted
  /\ pay.id = chan /\ pay.hash = certHashes[chan]
  /\ board.fwd.seq < pay.seq /\ pay.seq <= Total /\ pay.seq <= MaxSeq
  /\ pay.deviceShare = pay.seq * HopCost

\* The board will take the cell.
Good(cell) ==
  /\ cell.kind = "cert" => cell = Current
  /\ cell.kind = "v0" => Granted
  /\ cell.kind = "v1" => Payable(cell.pay) /\ cell.key = RelayKey(chan)
  /\ cell.kind = "v2a" => Payable(cell.flow) /\ cell.key = RelayKey(chan)
  /\ cell.kind = "v2b" => Payable(cell.pay) /\ board.burst = CellA(cell.pay, RelayKey(chan))

\* Only the counter of this route has moved, and it may move again.
OneRoute(kind) ==
  /\ kind = "v1" => seqs.v2 = 0 /\ seqs.v1 < MaxSeq
  /\ kind = "v2" => seqs.v1 = 0 /\ seqs.v2 < MaxSeq

InCert(q) ==
  /\ q.chan = chan /\ q.cell = Current /\ OneRoute(q.kind)
  /\ q.at = "certing" => q.kind \in {"v0", "v1", "v2", "cert"} /\ stage = NoCell
  /\ q.at = "settle" => /\ q.kind \in {"v0", "v1", "v2"}
                        /\ stage = q.cell \/ (stage = NoCell /\ Granted)

InSending(q) ==
  /\ stage = NoCell
  /\ Good(q.cell) /\ q.cell.kind \in {"v0", "v1", "v2a", "v2b", "plain"}
  /\ q.kind \in {"v0", "v1", "v2", "plain", "scada"}
  /\ IF q.then = NoCell
     THEN /\ q.cell.kind # "v2a"
          /\ q.kind \in {"v1", "v2"} => q.cell.kind \in {"v1", "v2b"}
     ELSE q.kind = "v2" /\ q.cell.kind = "v2a" /\ q.then = CellB(q.cell.flow)

InGap(q) ==
  /\ q.kind = "v2" /\ q.cell.kind = "v2a" /\ q.then = CellB(q.cell.flow) /\ Good(q.cell)
  /\ stage = q.cell \/ (stage = NoCell /\ board.burst = q.cell)

\* Where a request is, and what that says of the port and the board.
Phase(q) ==
  /\ q.at \in {"certing", "settle"} => InCert(q)
  /\ q.at = "sending" => InSending(q)
  /\ q.at = "gap" => InGap(q)
  /\ q.at = "funding" => stage = NoCell /\ active = NoId /\ board.fwd.state = "OPEN"
  /\ q.at = "wallet" => stage = NoCell
  /\ q.at \in {"settling", "evidence"} => board.fwd.state = "ACTIVE" /\ stage.kind # "cert"
  /\ q.at = "evidence" => q.cell.kind = "settle"

\* The channel of the board is fresh, or the active one at a commitment of it.
ChannelCalm ==
  /\ board.fwd.capacity = Capacity
  /\ \/ /\ board.fwd.state = "OPEN" /\ board.fwd.id = NoId
        /\ board.fwd.seq = 0 /\ board.fwd.deviceShare = 0
     \/ /\ board.fwd.state = "ACTIVE" /\ board.fwd.id = chan
        /\ board.fwd.seq <= Total /\ board.fwd.deviceShare = board.fwd.seq * HopCost

\* The grants of the board are the demo channel's and the active one's.
TableCalm ==
  /\ OneEntryPerGrant(board.table, 1)
  /\ \A i \in Slots : board.table[i] # Free => board.table[i].chan \in {NoId, chan}

NoneCerting == \A r \in Requests : reqs[r].at # "certing"

CertCalm == flag /\ NoneCerting => stage = Current \/ Granted

\* A channel that the board has not seen is open and has one forward at most,
\* which is on its way.
Unseen ==
  active \in Funded /\ board.fwd.state = "OPEN" =>
    /\ ~books[active].settled
    /\ \/ books[active].accum = 0
       \/ books[active].accum = 2 * HopCost /\ stage.kind \in {"v1", "v2b"}

Alone == \A r, s \in Requests : reqs[r].at # "idle" /\ reqs[s].at # "idle" => r = s

Lone ==
  /\ Alone
  /\ \A r \in Requests : Phase(reqs[r])
  /\ Good(stage)
  /\ ChannelCalm /\ TableCalm /\ CertCalm /\ Unseen

LoneInv == refused = {} /\ (calm => Lone)

LEMMA SameBoard ==
  ASSUME UNCHANGED <<board, chan, certHashes>>
  PROVE  (Granted' <=> Granted) /\ (TableCalm' <=> TableCalm) /\ Current' = Current
BY DEF Granted, Cert, TableCalm, Current, CertCell

LEMMA SameCells ==
  ASSUME UNCHANGED <<board, chan, certHashes, seqs>>
  PROVE  /\ \A cell : Good(cell) => Good(cell)'
         /\ ChannelCalm => ChannelCalm'
         /\ \A kind : OneRoute(kind) => OneRoute(kind)'
<1>1. (Granted' <=> Granted) /\ Current' = Current /\ Total' = Total
  BY SameBoard DEF Total
<1>2. \A pay : Payable(pay) => Payable(pay)'
  BY <1>1 DEF Payable
<1>3. \A cell : Good(cell) => Good(cell)'
  <2>1. TAKE cell
  <2>2. HAVE Good(cell)
  <2>3. /\ cell.kind \in {"v1", "v2b"} => Payable(cell.pay)'
        /\ cell.kind = "v2a" => Payable(cell.flow)'
    BY <1>2, <2>2 DEF Good
  <2> QED  BY <1>1, <2>2, <2>3 DEF Good
<1> QED  BY <1>1, <1>3 DEF ChannelCalm, OneRoute

LEMMA Others ==
  ASSUME Alone, NEW r \in Requests, reqs[r].at # "idle"
  PROVE  \A s \in Requests : s # r => reqs[s].at = "idle"
BY DEF Alone

\* One request changes, and the others rest.
LEMMA LoneMoves ==
  ASSUME ControlTyped, NEW r \in Requests, NEW q, reqs' = [reqs EXCEPT ![r] = q],
         \A s \in Requests : s # r => reqs[s].at = "idle",
         Phase(q)', Good(stage)', ChannelCalm', TableCalm', CertCalm', Unseen'
  PROVE  Lone'
<1>1. \A s \in Requests : reqs'[s] = IF s = r THEN q ELSE reqs[s]
  BY DEF ControlTyped
<1>2. Alone'
  BY <1>1 DEF Alone
<1>3. ASSUME NEW s \in Requests PROVE Phase(reqs[s])'
  <2>1. CASE s = r
    BY <1>1, <2>1
  <2>2. CASE s # r
    <3>1. PICK p : p = reqs'[s]
      OBVIOUS
    <3>2. p.at = "idle"
      BY <1>1, <2>2, <3>1
    <3>3. Phase(p)'
      BY <3>2 DEF Phase
    <3> QED  BY <3>1, <3>3
  <2> QED  BY <2>1, <2>2
<1> QED  BY <1>2, <1>3 DEF Lone

\* A request goes on, and all that a forward depends on stays.
LEMMA LoneGoesOn ==
  ASSUME Lone, ControlTyped, NEW r \in Requests, NEW q, reqs' = [reqs EXCEPT ![r] = q],
         \A s \in Requests : s # r => reqs[s].at = "idle",
         reqs[r].at # "certing",
         UNCHANGED <<board, chan, certHashes, seqs, active, flag, books, stage>>,
         Phase(q)'
  PROVE  Lone'
<1>1. /\ (Granted' <=> Granted) /\ Current' = Current /\ TableCalm' /\ ChannelCalm'
      /\ \A cell : Good(cell) => Good(cell)'
  BY SameBoard, SameCells DEF Lone
<1>2. Good(stage)'
  <2>1. PICK c : c = stage
    OBVIOUS
  <2> QED  BY <1>1, <2>1 DEF Lone
<1>3. NoneCerting
  BY DEF NoneCerting
<1>4. CertCalm'
  BY <1>1, <1>3 DEF CertCalm, Lone
<1>5. Unseen'
  BY DEF Unseen, Lone
<1> QED  BY <1>1, <1>2, <1>4, <1>5, LoneMoves

\* Who calls while all is calm waits for everything to rest.
LEMMA CalmStart ==
  ASSUME BooksInv, NEW r \in Requests, NEW kind, NEW triggerOk \in BOOLEAN,
         Start(r, kind, triggerOk), calm'
  PROVE  /\ calm /\ triggerOk /\ kind # "bad" /\ stage = NoCell
         /\ \A s \in Requests : reqs[s].at = "idle"
         /\ OneRoute(kind)
         /\ kind = "open" => board.fwd.state = "OPEN"
<1>1. calm /\ KeepsCalm(kind) /\ triggerOk
  BY DEF Start
<1>2. Busy = {} /\ stage = NoCell /\ kind # "bad"
  BY <1>1 DEF KeepsCalm
<1>3. Cardinality(Busy) = 0
  BY <1>2, FS_EmptySet
<1>4. seqs \in [v1: Nat, v2: Nat]
  BY DEF BooksInv, ControlTyped, HostTyped
<1>5. kind \in {"v1", "v2"} => seqs[Version(kind)] < MaxSeq
  <2>1. kind \in {"v1", "v2", "bad"} => seqs[Version(kind)] + Cardinality(Busy) < MaxSeq
    BY DEF Start, WithinBounds
  <2>2. kind \in {"v1", "v2"} => seqs[Version(kind)] \in Nat
    BY <1>4 DEF Version
  <2> QED  BY <1>3, <2>1, <2>2
<1>6. OneRoute(kind)
  <2>1. (kind = "v1" => seqs.v2 = 0) /\ (kind = "v2" => seqs.v1 = 0)
    BY <1>1 DEF KeepsCalm
  <2> QED  BY <1>4, <1>5, <2>1 DEF OneRoute, Version
<1>7. \A s \in Requests : reqs[s].at = "idle"
  BY <1>2 DEF Busy
<1> QED  BY <1>1, <1>2, <1>6, <1>7 DEF KeepsCalm

\* A certificate is issued while all rests.
LEMMA IssueCertLone ==
  ASSUME BooksInv, Lone, NEW r \in Requests, NEW kind \in {"v0", "v1", "v2", "cert"},
         \A s \in Requests : reqs[s].at = "idle",
         stage = NoCell, stage' = stage, board' = board, OneRoute(kind),
         IssueCert(r, kind, chan)
  PROVE  Lone'
<1>t. ControlTyped /\ HostTyped
  BY DEF BooksInv, ControlTyped
<1>1. PICK q : q = [Idle EXCEPT !.at = "certing", !.kind = kind, !.chan = chan,
                                !.cell = CertCell(chan, clock + 1)]
  OBVIOUS
<1>2. /\ reqs' = [reqs EXCEPT ![r] = q] /\ certHashes' = [certHashes EXCEPT ![chan] = clock + 1]
      /\ UNCHANGED <<chan, flag, seqs, active, books>>
  BY <1>1 DEF IssueCert, Inject
<1>3. q.at = "certing" /\ q.kind = kind /\ q.chan = chan /\ q.cell = CertCell(chan, clock + 1)
  BY <1>1 DEF Idle
<1>4. Current' = CertCell(chan, clock + 1)
  BY <1>t, <1>2 DEF HostTyped, Current, CertCell
<1>5. OneRoute(kind)'
  BY <1>2 DEF OneRoute
<1>6. Phase(q)'
  BY <1>2, <1>3, <1>4, <1>5 DEF Phase, InCert
<1>7. Good(stage)'
  BY DEF Good, NoCell
<1>8. ChannelCalm' /\ TableCalm' /\ Unseen'
  BY <1>2 DEF Lone, ChannelCalm, Total, TableCalm, Unseen
<1>9. CertCalm'
  <2>1. reqs'[r].at = "certing"
    BY <1>t, <1>2, <1>3 DEF ControlTyped
  <2> QED  BY <2>1 DEF CertCalm, NoneCerting
<1> QED  BY <1>t, <1>2, <1>6, <1>7, <1>8, <1>9, LoneMoves

\* A forward is counted while the board holds the certificate it needs.
LEMMA CountedLone ==
  ASSUME BooksInv, Lone, NEW r \in Requests, NEW v \in {"v1", "v2"},
         \A s \in Requests : s # r => reqs[s].at = "idle",
         reqs[r].at # "certing",
         stage = NoCell, stage' = stage, board' = board, Granted, OneRoute(v),
         NEW pay, pay = Commitment(chan, NextSeq(v)),
         NEW first, NEW second,
         Counted(r, v, chan, <<first, second>>, TRUE),
         \/ v = "v1" /\ first = ForwardCell(pay, RelayKey(chan)) /\ second = NoCell
         \/ v = "v2" /\ first = CellA(pay, RelayKey(chan)) /\ second = CellB(pay)
  PROVE  Lone'
<1>t. ControlTyped /\ HostTyped /\ PlantTyped
  BY DEF BooksInv, ControlTyped
<1>v. Version(v) = v /\ seqs[v] \in Nat /\ NextSeq(v) = seqs[v] + 1
  BY <1>t DEF Version, HostTyped, NextSeq
<1>1. PICK q : q = [Idle EXCEPT !.at = "sending", !.kind = v, !.chan = chan,
                          !.seq = seqs[v] + 1, !.cell = first, !.then = second]
  OBVIOUS
<1>2. /\ reqs' = [reqs EXCEPT ![r] = q] /\ seqs' = [seqs EXCEPT ![v] = @ + 1]
      /\ UNCHANGED <<chan, flag, certHashes, active, books>>
  BY <1>v, <1>1 DEF Counted, Inject
<1>3. q.at = "sending" /\ q.kind = v /\ q.cell = first /\ q.then = second
  BY <1>1 DEF Idle
<1>4. Total = seqs[v] /\ Total' = seqs[v] + 1 /\ seqs[v] + 1 <= MaxSeq
  BY <1>t, <1>v, <1>2, Constants DEF Total, HostTyped, OneRoute
<1>5. Granted' /\ TableCalm' /\ Current' = Current
  BY <1>2, SameBoard DEF Lone
<1>6. pay.id = chan /\ pay.hash = certHashes[chan] /\ pay.seq = seqs[v] + 1 /\ pay.deviceShare = pay.seq * HopCost
  BY <1>t, <1>v, CommitmentIs DEF HostTyped
<1>7. board.fwd.seq \in Nat /\ board.fwd.seq <= Total
  BY <1>t, TotalIs DEF Lone, ChannelCalm, PlantTyped, Boards, Channels
<1>8. Payable(pay)'
  BY <1>v, <1>2, <1>4, <1>5, <1>6, <1>7 DEF Payable
<1>9. ChannelCalm'
  BY <1>v, <1>2, <1>4, <1>7 DEF Lone, ChannelCalm
<1>10. /\ Good(first)'
       /\ IF second = NoCell THEN first.kind = "v1" ELSE v = "v2" /\ first.kind = "v2a" /\ second = CellB(first.flow)
  <2>1. CASE v = "v1" /\ first = ForwardCell(pay, RelayKey(chan)) /\ second = NoCell
    <3>1. first.kind = "v1" /\ first.pay = pay /\ first.key = RelayKey(chan)
      BY <2>1 DEF ForwardCell
    <3>2. first.key = RelayKey(chan)'
      BY <1>2, <3>1 DEF RelayKey
    <3> QED  BY <1>8, <2>1, <3>1, <3>2 DEF Good
  <2>2. CASE v = "v2" /\ first = CellA(pay, RelayKey(chan)) /\ second = CellB(pay)
    <3>1. first.kind = "v2a" /\ first.flow = pay /\ first.key = RelayKey(chan) /\ second.kind = "v2b"
      BY <2>2 DEF CellA, CellB
    <3>2. first.key = RelayKey(chan)' /\ second # NoCell
      BY <1>2, <3>1 DEF RelayKey, NoCell
    <3> QED  BY <1>8, <2>2, <3>1, <3>2 DEF Good
  <2> QED  BY <2>1, <2>2
<1>11. Phase(q)'
  BY <1>3, <1>10 DEF Phase, InSending
<1>12. Good(stage)'
  BY DEF Good, NoCell
<1>13. Unseen'
  BY <1>2 DEF Lone, Unseen
<1>14. CertCalm'
  BY <1>5 DEF CertCalm
<1> QED  BY <1>t, <1>2, <1>5, <1>9, <1>11, <1>12, <1>13, <1>14, LoneMoves

LEMMA ProceedLone ==
  ASSUME BooksInv, Lone, NEW r \in Requests, NEW kind \in {"v0", "v1", "v2"},
         \A s \in Requests : s # r => reqs[s].at = "idle",
         reqs[r].at # "certing",
         stage = NoCell, stage' = stage, board' = board, Granted, OneRoute(kind),
         Proceed(r, kind, chan, TRUE)
  PROVE  Lone'
<1>t. ControlTyped
  BY DEF BooksInv
<1>1. CASE kind = "v0" /\ ForwardV0(r)
  <2>1. PICK q : q = [Idle EXCEPT !.at = "sending", !.kind = "v0", !.cell = CellV0]
    OBVIOUS
  <2>2. /\ reqs' = [reqs EXCEPT ![r] = q]
        /\ UNCHANGED <<chan, flag, certHashes, seqs, active, books>>
    BY <1>1, <2>1 DEF ForwardV0, Inject, hostVars
  <2>3. /\ q.at = "sending" /\ q.kind = "v0" /\ q.cell.kind = "v0" /\ q.then = NoCell
    BY <2>1 DEF Idle, CellV0
  <2>4. Granted'
    BY <2>2, SameBoard
  <2>5. Phase(q)'
    BY <2>3, <2>4 DEF Phase, InSending, Good
  <2> QED  BY <1>t, <2>2, <2>5, LoneGoesOn
<1>2. CASE kind = "v1" /\ ForwardV1(r, chan, TRUE)
  <2>1. PICK pay : pay = Commitment(chan, NextSeq("v1"))
    OBVIOUS
  <2>2. PICK first : first = ForwardCell(pay, RelayKey(chan))
    OBVIOUS
  <2>3. Counted(r, "v1", chan, <<first, NoCell>>, TRUE)
    BY <1>2, <2>1, <2>2 DEF ForwardV1
  <2> QED  BY <1>2, <2>1, <2>2, <2>3, CountedLone
<1>3. CASE kind = "v2" /\ ForwardV2(r, chan, TRUE)
  <2>1. PICK pay : pay = Commitment(chan, NextSeq("v2"))
    OBVIOUS
  <2>2. PICK first, second : first = CellA(pay, RelayKey(chan)) /\ second = CellB(pay)
    OBVIOUS
  <2>3. Counted(r, "v2", chan, <<first, second>>, TRUE)
    BY <1>3, <2>1, <2>2 DEF ForwardV2
  <2> QED  BY <1>3, <2>1, <2>2, <2>3, CountedLone
<1> QED  BY <1>1, <1>2, <1>3 DEF Proceed

\* A request that needs no grant: it is under way without a word to the board.
LEMMA PlainLone ==
  ASSUME BooksInv, Lone, NEW r \in Requests, NEW kind \in Routes,
         \A s \in Requests : s # r => reqs[s].at = "idle",
         reqs[r].at # "certing", stage' = stage, board' = board
  PROVE  /\ kind = "open" /\ stage = NoCell /\ active = NoId /\ board.fwd.state = "OPEN" /\ FundChannel(r)
              => Lone'
         /\ kind \in {"plain", "scada"} /\ stage = NoCell /\ InjectPlain(r, kind) => Lone'
         /\ kind \in {"pay", "scada"} /\ stage = NoCell /\ AskWallet(r, kind) => Lone'
         /\ Ends(r) /\ UNCHANGED hostVars => Lone'
<1>t. ControlTyped
  BY DEF BooksInv
<1>1. ASSUME kind = "open", stage = NoCell, active = NoId, board.fwd.state = "OPEN", FundChannel(r)
      PROVE  Lone'
  <2>1. PICK q : q = [Idle EXCEPT !.at = "funding", !.kind = "open"]
    OBVIOUS
  <2>2. reqs' = [reqs EXCEPT ![r] = q] /\ UNCHANGED <<chan, flag, certHashes, seqs, active, books>>
    BY <1>1, <2>1 DEF FundChannel, hostVars
  <2>3. q.at = "funding"
    BY <2>1 DEF Idle
  <2>4. Phase(q)'
    BY <1>1, <2>2, <2>3 DEF Phase
  <2> QED  BY <1>t, <2>2, <2>4, LoneGoesOn
<1>2. ASSUME kind \in {"plain", "scada"}, stage = NoCell, InjectPlain(r, kind)
      PROVE  Lone'
  <2>1. PICK q : q = [Idle EXCEPT !.at = "sending", !.kind = kind, !.cell = PlainCell]
    OBVIOUS
  <2>2. reqs' = [reqs EXCEPT ![r] = q] /\ UNCHANGED <<chan, flag, certHashes, seqs, active, books>>
    BY <1>2, <2>1 DEF InjectPlain, Inject, hostVars
  <2>3. q.at = "sending" /\ q.kind = kind /\ q.cell.kind = "plain" /\ q.then = NoCell
    BY <2>1 DEF Idle, PlainCell
  <2>4. Phase(q)'
    BY <1>2, <2>3 DEF Phase, InSending, Good
  <2> QED  BY <1>t, <2>2, <2>4, LoneGoesOn
<1>3. ASSUME kind \in {"pay", "scada"}, stage = NoCell, AskWallet(r, kind)
      PROVE  Lone'
  <2>1. PICK q : q = [Idle EXCEPT !.at = "wallet", !.kind = kind]
    OBVIOUS
  <2>2. reqs' = [reqs EXCEPT ![r] = q] /\ UNCHANGED <<chan, flag, certHashes, seqs, active, books>>
    BY <1>3, <2>1 DEF AskWallet, hostVars
  <2>3. q.at = "wallet"
    BY <2>1 DEF Idle
  <2>4. Phase(q)'
    BY <1>3, <2>3 DEF Phase
  <2> QED  BY <1>t, <2>2, <2>4, LoneGoesOn
<1>4. ASSUME Ends(r), UNCHANGED hostVars PROVE Lone'
  <2>1. reqs' = [reqs EXCEPT ![r] = Idle] /\ UNCHANGED <<chan, flag, certHashes, seqs, active, books>>
    BY <1>4 DEF Ends, hostVars
  <2>2. Phase(Idle)'
    BY DEF Phase, Idle
  <2> QED  BY <1>t, <2>1, <2>2, LoneGoesOn
<1> QED  BY <1>1, <1>2, <1>3, <1>4

LEMMA StartLone ==
  ASSUME BooksInv, LoneInv, NEW r \in Requests, NEW kind \in Kinds, NEW triggerOk \in BOOLEAN,
         Start(r, kind, triggerOk)
  PROVE  LoneInv'
<1>1. refused' = refused
  BY DEF Start, boardVars
<1>2. SUFFICES ASSUME calm' PROVE Lone'
  BY <1>1 DEF LoneInv
<1>3. /\ calm /\ triggerOk /\ kind # "bad" /\ stage = NoCell
      /\ \A s \in Requests : reqs[s].at = "idle"
      /\ OneRoute(kind)
      /\ kind = "open" => board.fwd.state = "OPEN"
  BY <1>2, CalmStart
<1>4. Lone /\ kind \in Routes /\ HostTyped /\ stage' = stage /\ board' = board
  BY <1>3, Constants DEF LoneInv, BooksInv, ControlTyped, Start, boardVars
<1>5. CASE kind = "open" /\ books[active].settled /\ FundChannel(r)
  <2>1. active = NoId
    BY <1>3, <1>4, <1>5, Constants DEF Lone, Unseen, HostTyped
  <2> QED  BY <1>3, <1>4, <1>5, <2>1, PlainLone
<1>6. CASE kind \in {"plain", "scada"} /\ InjectPlain(r, kind)
  BY <1>3, <1>4, <1>6, PlainLone
<1>7. CASE kind \in {"pay", "scada"} /\ AskWallet(r, kind)
  BY <1>3, <1>4, <1>7, PlainLone
<1>8. CASE (kind = "cert" \/ (kind \in Forwards /\ ~flag)) /\ IssueCert(r, kind, chan)
  <2>1. kind \in {"v0", "v1", "v2", "cert"}
    BY <1>3, <1>8 DEF Forwards
  <2> QED  BY <1>3, <1>4, <1>8, <2>1, IssueCertLone
<1>9. CASE kind \in Forwards /\ flag /\ Proceed(r, kind, chan, triggerOk)
  <2>1. kind \in {"v0", "v1", "v2"}
    BY <1>3, <1>9 DEF Forwards
  <2>2. NoneCerting /\ stage # Current
    BY <1>3 DEF NoneCerting, NoCell, Current, CertCell
  <2>3. Granted
    BY <1>4, <1>9, <2>2 DEF Lone, CertCalm
  <2>4. Proceed(r, kind, chan, TRUE)
    BY <1>3, <1>9
  <2> QED  BY <1>3, <1>4, <2>1, <2>3, <2>4, ProceedLone
<1> QED  BY <1>5, <1>6, <1>7, <1>8, <1>9 DEF Start

LEMMA CertSettledLone ==
  ASSUME BooksInv, LoneInv, NEW r \in Requests, NEW triggerOk \in BOOLEAN, CertSettled(r, triggerOk)
  PROVE  LoneInv'
<1>1. refused' = refused
  BY DEF CertSettled, boardVars
<1>2. SUFFICES ASSUME calm' PROVE Lone'
  BY <1>1 DEF LoneInv
<1>3. /\ calm /\ triggerOk = TRUE /\ Lone /\ reqs[r].at = "settle" /\ stage' = stage /\ board' = board
  BY <1>2 DEF CertSettled, LoneInv, boardVars
<1>4. \A s \in Requests : s # r => reqs[s].at = "idle"
  BY <1>3, Others DEF Lone
<1>5. InCert(reqs[r])
  BY <1>3 DEF Lone, Phase
<1>6. PICK kind : kind = reqs[r].kind
  OBVIOUS
<1>7. kind \in {"v0", "v1", "v2"} /\ OneRoute(kind) /\ reqs[r].chan = chan
  BY <1>3, <1>5, <1>6 DEF InCert
<1>8. stage = NoCell /\ Granted
  <2>1. PauseOver(r)
    BY DEF CertSettled
  <2>2. stage # reqs[r].cell
    BY <1>6, <1>7, <2>1 DEF PauseOver
  <2> QED  BY <1>3, <1>5, <2>2 DEF InCert
<1>9. Proceed(r, kind, chan, TRUE)
  BY <1>3, <1>6, <1>7 DEF CertSettled
<1> QED  BY <1>3, <1>4, <1>7, <1>8, <1>9, ProceedLone

LEMMA CertInjectedLone ==
  ASSUME BooksInv, LoneInv, NEW r \in Requests, NEW taken \in BOOLEAN, CertInjected(r, taken)
  PROVE  LoneInv'
<1>t. ControlTyped
  BY DEF BooksInv
<1>1. refused' = refused
  BY DEF CertInjected, Written, boardVars
<1>2. SUFFICES ASSUME calm' PROVE Lone'
  BY <1>1 DEF LoneInv
<1>3. /\ calm /\ taken /\ Lone /\ reqs[r].at = "certing" /\ stage' = reqs[r].cell
      /\ UNCHANGED <<board, chan, certHashes, seqs, active, books>>
  BY <1>2 DEF CertInjected, Written, LoneInv, boardVars
<1>4. \A s \in Requests : s # r => reqs[s].at = "idle"
  BY <1>3, Others DEF Lone
<1>5. InCert(reqs[r])
  BY <1>3 DEF Lone, Phase
<1>6. /\ (Granted' <=> Granted) /\ Current' = Current /\ TableCalm' /\ ChannelCalm'
      /\ \A k : OneRoute(k) => OneRoute(k)'
  BY <1>3, SameBoard, SameCells DEF Lone
<1>7. stage' = Current' /\ stage = NoCell
  BY <1>3, <1>5, <1>6 DEF InCert
<1>8. Good(stage)'
  BY <1>7 DEF Good, Current, CertCell
<1>9. CertCalm'
  BY <1>7 DEF CertCalm
<1>10. Unseen'
  <2>1. stage.kind \notin {"v1", "v2b"}
    BY <1>7 DEF NoCell
  <2> QED  BY <1>3, <2>1 DEF Lone, Unseen
<1>11. PICK u : u = [reqs[r] EXCEPT !.at = "settle"]
  OBVIOUS
<1>12. PICK q : q = IF reqs[r].kind = "cert" THEN Idle ELSE u
  OBVIOUS
<1>13. reqs' = [reqs EXCEPT ![r] = q]
  BY <1>11, <1>12 DEF CertInjected
<1>14. Phase(q)'
  <2>1. CASE reqs[r].kind = "cert"
    BY <1>12, <2>1 DEF Phase, Idle
  <2>2. CASE reqs[r].kind # "cert"
    <3>1. reqs[r] \in ReqSpace
      BY <1>t DEF ControlTyped
    <3>2. q.at = "settle" /\ q.cell = reqs[r].cell /\ q.chan = reqs[r].chan /\ q.kind = reqs[r].kind
      BY <1>11, <1>12, <2>2, <3>1, PlaceSet DEF Places
    <3>3. q.kind \in {"v0", "v1", "v2"} /\ q.chan = chan' /\ q.cell = Current' /\ OneRoute(q.kind)
      BY <1>3, <1>5, <1>6, <2>2, <3>2 DEF InCert
    <3>4. PICK k : k = q.kind
      OBVIOUS
    <3>5. OneRoute(q.kind)'
      BY <1>6, <3>3, <3>4
    <3> QED  BY <1>7, <3>2, <3>3, <3>5 DEF Phase, InCert
  <2> QED  BY <2>1, <2>2
<1> QED  BY <1>t, <1>4, <1>6, <1>8, <1>9, <1>10, <1>13, <1>14, LoneMoves

\* A forward, or the first cell of a burst, is with the injector.
LEMMA ForwardInjectedLone ==
  ASSUME BooksInv, LoneInv, NEW r \in Requests, NEW taken \in BOOLEAN, ForwardInjected(r, taken)
  PROVE  LoneInv'
<1>t. ControlTyped /\ HostTyped /\ PlantTyped /\ reqs[r] \in ReqSpace
  BY DEF BooksInv, ControlTyped
<1>1. refused' = refused
  BY DEF ForwardInjected, Written, boardVars
<1>2. SUFFICES ASSUME calm' PROVE Lone'
  BY <1>1 DEF LoneInv
<1>3. /\ calm /\ taken /\ Lone /\ reqs[r].at = "sending" /\ stage' = reqs[r].cell
      /\ UNCHANGED <<board, chan, certHashes, seqs, active, flag>>
  BY <1>2 DEF ForwardInjected, Written, LoneInv, boardVars
<1>4. \A s \in Requests : s # r => reqs[s].at = "idle"
  BY <1>3, Others DEF Lone
<1>5. InSending(reqs[r])
  BY <1>3 DEF Lone, Phase
<1>6. /\ (Granted' <=> Granted) /\ Current' = Current /\ TableCalm' /\ ChannelCalm'
      /\ \A c : Good(c) => Good(c)'
  BY <1>3, SameBoard, SameCells DEF Lone
<1>7. Good(stage)'
  <2>1. PICK c : c = reqs[r].cell
    OBVIOUS
  <2>2. Good(c)'
    BY <1>5, <1>6, <2>1 DEF InSending
  <2> QED  BY <1>3, <2>1, <2>2
<1>8. CertCalm'
  <2>1. NoneCerting
    BY <1>3, <1>4 DEF NoneCerting
  <2>2. stage # Current
    BY <1>5 DEF InSending, NoCell, Current, CertCell
  <2>3. flag => Granted
    BY <1>3, <2>1, <2>2 DEF Lone, CertCalm
  <2> QED  BY <1>3, <1>6, <2>3 DEF CertCalm
<1>9. stage = NoCell /\ stage.kind \notin {"v1", "v2b"}
  BY <1>5 DEF InSending, NoCell
<1>10. CASE reqs[r].then # NoCell
  <2>1. PICK q : q = [reqs[r] EXCEPT !.at = "gap"]
    OBVIOUS
  <2>2. /\ q \in ReqSpace /\ q.at = "gap" /\ q.cell = reqs[r].cell /\ q.then = reqs[r].then
        /\ q.kind = reqs[r].kind
    BY <1>t, <2>1, PlaceSet DEF Places
  <2>3. reqs' = [reqs EXCEPT ![r] = q] /\ books' = books
    BY <1>10, <2>1 DEF ForwardInjected
  <2>4. Unseen'
    BY <1>3, <1>9, <2>3 DEF Lone, Unseen
  <2>5. Phase(q)'
    <3>1. q.kind = "v2" /\ q.cell.kind = "v2a" /\ q.then = CellB(q.cell.flow) /\ stage' = q.cell
      BY <1>3, <1>5, <1>10, <2>2 DEF InSending
    <3>2. PICK c : c = q.cell
      OBVIOUS
    <3>3. Good(c)'
      BY <1>5, <1>6, <2>2, <3>2 DEF InSending
    <3> QED  BY <2>2, <3>1, <3>2, <3>3 DEF Phase, InGap
  <2> QED  BY <1>t, <1>4, <1>6, <1>7, <1>8, <2>3, <2>4, <2>5, LoneMoves
<1>11. CASE reqs[r].then = NoCell
  <2>0. ForwardOut(r)
    BY <1>11 DEF ForwardInjected
  <2>1. CASE reqs[r].kind \in {"v0", "bad", "plain", "scada"} \/ books[active].settled
    <3>1. PICK q : q = IF reqs[r].kind = "scada" THEN [Idle EXCEPT !.at = "anchoring", !.kind = "scada"]
                       ELSE Idle
      OBVIOUS
    <3>2. q.at \in {"idle", "anchoring"}
      BY <3>1 DEF Idle
    <3>3. reqs' = [reqs EXCEPT ![r] = q] /\ books' = books
      BY <2>0, <2>1, <3>1 DEF ForwardOut
    <3>4. Phase(q)'
      BY <3>2 DEF Phase
    <3>5. Unseen'
      BY <1>3, <1>9, <3>3 DEF Lone, Unseen
    <3> QED  BY <1>t, <1>4, <1>6, <1>7, <1>8, <3>3, <3>4, <3>5, LoneMoves
  <2>2. CASE ~(reqs[r].kind \in {"v0", "bad", "plain", "scada"} \/ books[active].settled)
    <3>1. PICK b : b = Book(books[active], reqs[r].seq)
      OBVIOUS
    <3>2. PICK q : q = IF b.accum >= Threshold
                       THEN [Idle EXCEPT !.at = "settling", !.kind = reqs[r].kind, !.chan = active]
                       ELSE Idle
      OBVIOUS
    <3>3. reqs' = [reqs EXCEPT ![r] = q] /\ books' = [books EXCEPT ![active] = b]
      BY <2>0, <2>2, <3>1, <3>2 DEF ForwardOut
    <3>4. b.settled = FALSE /\ b.accum = books[active].accum + 2 * HopCost /\ books[active].accum \in Nat
      <4>1. books[active] \in Ledgers
        BY <1>t DEF HostTyped
      <4>2. PICK k \in Ledgers, h \in Nat : k = books[active] /\ h = 2 * HopCost
        BY <4>1, Constants
      <4>3. PICK m : m = IF reqs[r].seq > k.finalSeq THEN reqs[r].seq ELSE k.finalSeq
        OBVIOUS
      <4>4. b = [k EXCEPT !.accum = @ + h, !.finalSeq = m]
        BY <3>1, <4>2, <4>3 DEF Book
      <4>5. b.settled = k.settled /\ b.accum = k.accum + h
        BY <4>4 DEF Ledgers
      <4> QED  BY <2>2, <4>2, <4>5 DEF Ledgers
    <3>5. active \in Funded
      BY <1>t, <2>2, Constants DEF HostTyped
    <3>6. reqs[r].kind \in {"v1", "v2"} /\ reqs[r].cell.kind \in {"v1", "v2b"}
      BY <1>5, <1>11, <2>2 DEF InSending
    <3>7. board.fwd.state = "OPEN" => books[active].accum = 0
      BY <1>3, <1>9, <3>5 DEF Lone, Unseen
    <3>8. Unseen'
      <4>1. books'[active'] = b /\ board' = board /\ stage'.kind \in {"v1", "v2b"}
        BY <1>t, <1>3, <3>3, <3>6 DEF HostTyped
      <4> QED  BY <3>4, <3>7, <4>1, Constants DEF Unseen
    <3>9. Phase(q)'
      <4>1. CASE b.accum >= Threshold
        <5>1. q.at = "settling"
          BY <3>2, <4>1 DEF Idle
        <5>2. books[active].accum # 0
          BY <3>4, <4>1, RoomAssumption, Constants
        <5>3. board.fwd.state = "ACTIVE"
          BY <1>3, <3>7, <5>2 DEF Lone, ChannelCalm
        <5>4. stage'.kind # "cert" /\ board'.fwd.state = "ACTIVE"
          BY <1>3, <3>6, <5>3
        <5> QED  BY <5>1, <5>4 DEF Phase
      <4>2. CASE ~(b.accum >= Threshold)
        BY <3>2, <4>2 DEF Phase, Idle
      <4> QED  BY <4>1, <4>2
    <3> QED  BY <1>t, <1>4, <1>6, <1>7, <1>8, <3>3, <3>8, <3>9, LoneMoves
  <2> QED  BY <2>1, <2>2
<1> QED  BY <1>10, <1>11

\* The second cell of a burst follows once the board holds the first.
LEMMA GapOverLone ==
  ASSUME BooksInv, LoneInv, NEW r \in Requests, GapOver(r)
  PROVE  LoneInv'
<1>t. ControlTyped /\ reqs[r] \in ReqSpace
  BY DEF BooksInv, ControlTyped
<1>1. refused' = refused /\ calm' = calm
  BY DEF GapOver, boardVars, historyVars
<1>2. SUFFICES ASSUME calm PROVE Lone'
  BY <1>1 DEF LoneInv
<1>3. PICK q : q = [reqs[r] EXCEPT !.at = "sending", !.cell = reqs[r].then, !.then = NoCell]
  OBVIOUS
<1>4. /\ Lone /\ reqs[r].at = "gap" /\ PauseOver(r) /\ reqs' = [reqs EXCEPT ![r] = q]
      /\ UNCHANGED <<board, chan, certHashes, seqs, active, flag, books, stage>>
  BY <1>2, <1>3 DEF GapOver, Inject, LoneInv, hostVars, boardVars
<1>5. \A s \in Requests : s # r => reqs[s].at = "idle"
  BY <1>4, Others DEF Lone
<1>6. InGap(reqs[r])
  BY <1>4 DEF Lone, Phase
<1>7. PICK a \in CellsA : a = reqs[r].cell
  <2>1. reqs[r].cell \in Cells /\ reqs[r].cell.kind = "v2a"
    BY <1>t, <1>6 DEF ReqSpace, InGap
  <2> QED  BY <2>1, CellKinds
<1>8. /\ stage = NoCell /\ board.burst = a /\ Good(a) /\ reqs[r].then = CellB(a.flow)
      /\ reqs[r].kind = "v2"
  BY <1>4, <1>6, <1>7 DEF PauseOver, InGap
<1>9. Payable(a.flow) /\ a = CellA(a.flow, RelayKey(chan))
  <2>1. a.kind = "v2a" /\ a = [kind |-> a.kind, flow |-> a.flow, key |-> a.key]
    BY DEF CellsA
  <2>2. Payable(a.flow) /\ a.key = RelayKey(chan)
    BY <1>8, <2>1 DEF Good
  <2> QED  BY <2>1, <2>2 DEF CellA
<1>10. PICK b : b = CellB(a.flow)
  OBVIOUS
<1>11. b.kind = "v2b" /\ b.pay = a.flow
  BY <1>10 DEF CellB
<1>12. Good(b)
  BY <1>8, <1>9, <1>11 DEF Good
<1>13. Good(b)'
  BY <1>4, <1>12, SameCells
<1>14. q.at = "sending" /\ q.kind = "v2" /\ q.cell = b /\ q.then = NoCell
  BY <1>t, <1>3, <1>8, <1>10 DEF ReqSpace
<1>15. Phase(q)'
  BY <1>4, <1>8, <1>11, <1>13, <1>14 DEF Phase, InSending
<1> QED  BY <1>t, <1>4, <1>5, <1>15, LoneGoesOn

\* A lost write, a reboot and a restart end the calm.
LEMMA CalmEnds ==
  ASSUME LoneInv, ~calm', refused' = refused
  PROVE  LoneInv'
BY DEF LoneInv

LEMMA SettleReturnsLone ==
  ASSUME BooksInv, LoneInv, NEW r \in Requests, NEW ok \in BOOLEAN, SettleReturns(r, ok)
  PROVE  LoneInv'
<1>t. ControlTyped /\ reqs[r] \in ReqSpace
  BY DEF BooksInv, ControlTyped
<1>1. refused' = refused /\ calm' = calm
  BY DEF SettleReturns, boardVars, historyVars
<1>2. SUFFICES ASSUME calm PROVE Lone'
  BY <1>1 DEF LoneInv
<1>3. /\ Lone /\ reqs[r].at = "settling"
      /\ UNCHANGED <<board, chan, certHashes, seqs, active, flag, stage>>
  BY <1>2 DEF SettleReturns, LoneInv, boardVars
<1>4. \A s \in Requests : s # r => reqs[s].at = "idle"
  BY <1>3, Others DEF Lone
<1>5. board.fwd.state = "ACTIVE" /\ stage.kind # "cert"
  BY <1>3 DEF Lone, Phase
<1>6. PICK q : /\ reqs' = [reqs EXCEPT ![r] = q]
               /\ q.at = "idle" \/ (q.at = "evidence" /\ q.cell.kind = "settle")
  <2>1. CASE ok
    <3>1. PICK cell : cell = SettleCell(active, books[active])
      OBVIOUS
    <3>2. PICK q : q = [reqs[r] EXCEPT !.at = "evidence", !.left = EvidenceCopies, !.cell = cell]
      OBVIOUS
    <3>3. q.at = "evidence" /\ q.cell = cell /\ cell.kind = "settle"
      BY <1>t, <3>1, <3>2 DEF ReqSpace, SettleCell
    <3>4. reqs' = [reqs EXCEPT ![r] = q]
      BY <2>1, <3>1, <3>2 DEF SettleReturns, Inject
    <3> QED  BY <3>3, <3>4
  <2>2. CASE ~ok
    <3>1. reqs' = [reqs EXCEPT ![r] = Idle] /\ Idle.at = "idle"
      BY <2>2 DEF SettleReturns, Ends, Idle
    <3> QED  BY <3>1
  <2> QED  BY <2>1, <2>2
<1>7. Phase(q)'
  BY <1>3, <1>5, <1>6 DEF Phase
<1>8. /\ (Granted' <=> Granted) /\ Current' = Current /\ TableCalm' /\ ChannelCalm'
      /\ \A c : Good(c) => Good(c)'
  BY <1>3, SameBoard, SameCells DEF Lone
<1>9. Good(stage)'
  <2>1. PICK c : c = stage
    OBVIOUS
  <2> QED  BY <1>3, <1>8, <2>1 DEF Lone
<1>10. NoneCerting
  BY <1>3, <1>4 DEF NoneCerting
<1>11. CertCalm'
  BY <1>3, <1>8, <1>10 DEF CertCalm, Lone
<1>12. Unseen'
  BY <1>3, <1>5 DEF Unseen
<1> QED  BY <1>t, <1>4, <1>6, <1>7, <1>8, <1>9, <1>11, <1>12, LoneMoves

\* Evidence is written while the board has seen the channel and no certificate
\* is out.
LEMMA EvidenceInjectedLone ==
  ASSUME BooksInv, LoneInv, NEW r \in Requests, NEW taken \in BOOLEAN, EvidenceInjected(r, taken)
  PROVE  LoneInv'
<1>t. ControlTyped /\ reqs[r] \in ReqSpace
  BY DEF BooksInv, ControlTyped
<1>1. refused' = refused /\ calm' = calm
  BY DEF EvidenceInjected, boardVars, historyVars
<1>2. SUFFICES ASSUME calm PROVE Lone'
  BY <1>1 DEF LoneInv
<1>3. /\ Lone /\ reqs[r].at = "evidence"
      /\ UNCHANGED <<board, chan, certHashes, seqs, active, flag, books>>
      /\ stage' \in {stage, reqs[r].cell}
  BY <1>2 DEF EvidenceInjected, LoneInv, boardVars, hostVars
<1>4. \A s \in Requests : s # r => reqs[s].at = "idle"
  BY <1>3, Others DEF Lone
<1>5. board.fwd.state = "ACTIVE" /\ stage.kind # "cert" /\ reqs[r].cell.kind = "settle"
  BY <1>3 DEF Lone, Phase
<1>6. PICK q : /\ reqs' = [reqs EXCEPT ![r] = q]
               /\ q.at = "idle" \/ (q.at = "evidence" /\ q.cell.kind = "settle")
  <2>1. CASE reqs[r].left > 1
    <3>1. PICK n : n = [reqs EXCEPT ![r].left = @ - 1]
      OBVIOUS
    <3>2. PICK q : q = [reqs[r] EXCEPT !.left = @ - 1]
      OBVIOUS
    <3>3. n = [reqs EXCEPT ![r] = q]
      BY <1>t, <3>1, <3>2 DEF ControlTyped
    <3>4. reqs' = n
      BY <2>1, <3>1 DEF EvidenceInjected
    <3>5. q.at = "evidence" /\ q.cell = reqs[r].cell
      BY <1>t, <1>3, <3>2 DEF ReqSpace
    <3> QED  BY <1>5, <3>3, <3>4, <3>5
  <2>2. CASE ~(reqs[r].left > 1)
    <3>1. reqs' = [reqs EXCEPT ![r] = Idle] /\ Idle.at = "idle"
      BY <2>2 DEF EvidenceInjected, Idle
    <3> QED  BY <3>1
  <2> QED  BY <2>1, <2>2
<1>7. stage'.kind # "cert"
  BY <1>3, <1>5
<1>8. Phase(q)'
  BY <1>3, <1>5, <1>6, <1>7 DEF Phase
<1>9. /\ (Granted' <=> Granted) /\ Current' = Current /\ TableCalm' /\ ChannelCalm'
      /\ \A c : Good(c) => Good(c)'
  BY <1>3, SameBoard, SameCells DEF Lone
<1>10. Good(stage)'
  <2>1. PICK c : c = stage'
    OBVIOUS
  <2>2. Good(c)
    BY <1>3, <1>5, <2>1 DEF Good, Lone
  <2> QED  BY <1>9, <2>1, <2>2
<1>11. CertCalm'
  <2>1. NoneCerting /\ stage # Current
    BY <1>3, <1>4, <1>5 DEF NoneCerting, Current, CertCell
  <2> QED  BY <1>3, <1>9, <2>1 DEF CertCalm, Lone
<1>12. Unseen'
  BY <1>3, <1>5 DEF Unseen
<1> QED  BY <1>t, <1>4, <1>6, <1>8, <1>9, <1>10, <1>11, <1>12, LoneMoves

\* A channel is opened before the first forward: the board adopts its id later.
LEMMA FundingReturnsLone ==
  ASSUME BooksInv, LoneInv, NEW r \in Requests, FundingReturns(r)
  PROVE  LoneInv'
<1>t. ControlTyped /\ HostTyped
  BY DEF BooksInv, ControlTyped
<1>1. refused' = refused /\ calm' = calm
  BY DEF FundingReturns, boardVars
<1>2. SUFFICES ASSUME calm PROVE Lone'
  BY <1>1 DEF LoneInv
<1>3. /\ Lone /\ reqs[r].at = "funding" /\ stage' = stage /\ board' = board
      /\ seqs' = [v1 |-> 0, v2 |-> 0] /\ flag' = FALSE /\ reqs' = [reqs EXCEPT ![r] = Idle]
  BY <1>2 DEF FundingReturns, LoneInv, boardVars, Ends
<1>4. PICK c \in Funded : chan' = c /\ active' = c /\ books' = [books EXCEPT ![c] = NewBook]
  BY DEF FundingReturns, Fresh
<1>5. \A s \in Requests : s # r => reqs[s].at = "idle"
  BY <1>3, Others DEF Lone
<1>6. stage = NoCell /\ active = NoId /\ board.fwd.state = "OPEN"
  BY <1>3 DEF Lone, Phase
<1>7. Phase(Idle)' /\ Good(stage)'
  BY <1>3, <1>6 DEF Phase, Idle, Good, NoCell
<1>8. ChannelCalm'
  BY <1>3, <1>6 DEF ChannelCalm, Lone
<1>9. TableCalm'
  <2>1. chan = NoId
    BY <1>t, <1>6 DEF HostTyped
  <2> QED  BY <1>3, <2>1 DEF TableCalm, Lone
<1>10. CertCalm'
  BY <1>3 DEF CertCalm
<1>11. Unseen'
  <2>1. books'[c] = NewBook
    BY <1>t, <1>4, Constants DEF HostTyped
  <2> QED  BY <1>4, <2>1 DEF Unseen, NewBook
<1> QED  BY <1>t, <1>3, <1>5, <1>7, <1>8, <1>9, <1>10, <1>11, LoneMoves

\* What fails or is answered without a word to the board.
LEMMA AnswersLone ==
  ASSUME BooksInv, LoneInv, NEW r \in Requests,
         \/ FundingFails(r)
         \/ \E ok \in BOOLEAN : WalletReturns(r, ok)
         \/ AnchorReturns(r)
  PROVE  LoneInv'
<1>1. refused' = refused /\ calm' = calm /\ board' = board /\ stage' = stage
  BY DEF FundingFails, WalletReturns, AnchorReturns, boardVars, historyVars
<1>2. SUFFICES ASSUME calm PROVE Lone'
  BY <1>1 DEF LoneInv
<1>3. /\ Lone /\ reqs[r].at \in {"funding", "wallet", "anchoring"}
      /\ reqs[r].at = "wallet" \/ (Ends(r) /\ UNCHANGED hostVars)
  BY <1>2 DEF FundingFails, WalletReturns, AnchorReturns, LoneInv
<1>4. \A s \in Requests : s # r => reqs[s].at = "idle"
  BY <1>3, Others DEF Lone
<1>5. CASE Ends(r) /\ UNCHANGED hostVars
  <2>1. PICK kind \in Routes : TRUE
    BY DEF Routes
  <2> QED  BY <1>1, <1>3, <1>4, <1>5, <2>1, PlainLone
<1>6. CASE ~(Ends(r) /\ UNCHANGED hostVars)
  <2>1. stage = NoCell /\ reqs[r].at = "wallet"
    BY <1>3, <1>6 DEF Lone, Phase
  <2>2. PICK kind \in {"plain", "scada"} : InjectPlain(r, kind)
    <3>1. PICK kind \in {"plain", "scada"} : kind = IF reqs[r].kind = "pay" THEN "plain" ELSE "scada"
      OBVIOUS
    <3>2. ~FundingFails(r) /\ ~AnchorReturns(r)
      BY <2>1 DEF FundingFails, AnchorReturns
    <3> QED  BY <1>6, <3>1, <3>2 DEF WalletReturns
  <2>3. kind \in Routes
    BY DEF Routes
  <2> QED  BY <1>1, <1>3, <1>4, <2>1, <2>2, <2>3, PlainLone
<1> QED  BY <1>5, <1>6

LEMMA ProductGrows ==
  ASSUME NEW m \in Nat, NEW n \in Nat, m <= n
  PROVE  m * HopCost \in Nat /\ n * HopCost \in Nat /\ m * HopCost <= n * HopCost
BY Constants, Product

\* The board takes a commitment that is payable.
LEMMA AdmitTakes ==
  ASSUME HostTyped, PlantTyped, ChannelCalm, NEW pay \in Pays, Payable(pay),
         NEW b \in Boards, b.fwd = board.fwd, b.table = board.table,
         NEW key, key = RelayKey(chan), Admit(b, pay, key), UNCHANGED <<chan, seqs>>
  PROVE  /\ refused' = refused
         /\ board'.table = board.table /\ board'.burst = b.burst
         /\ board'.fwd.state = "ACTIVE"
         /\ ChannelCalm'
<1>t. board.fwd \in Channels(ChannelIds, Nat, Nat, {0, 1}) /\ pay.seq \in Nat /\ pay.userShare = 0
      /\ pay.expiry = 1 /\ pay.deviceShare \in Nat
  BY DEF PlantTyped, Boards, Pays
<1>p. /\ Granted /\ pay.id = chan /\ pay.hash = certHashes[chan]
      /\ board.fwd.seq < pay.seq /\ pay.seq <= Total /\ pay.seq <= MaxSeq
      /\ pay.deviceShare = pay.seq * HopCost
  BY DEF Payable
<1>1. PICK f : f = board.fwd
  OBVIOUS
<1>2. PICK a : a = Adopted(pay)
  OBVIOUS
<1>3. /\ a \in Channels(ChannelIds, Nat, Nat, {0, 1})
      /\ a.state \in {"OPEN", "ACTIVE"} /\ a.id = chan /\ a.seq = f.seq /\ a.capacity = Capacity
      /\ a.deviceShare = f.deviceShare /\ f.deviceShare = f.seq * HopCost
  <2>1. CASE f.state = "OPEN" /\ f.id = NoId
    <3>1. a = [f EXCEPT !.id = pay.id]
      BY <1>1, <1>2, <2>1 DEF Adopted
    <3>2. pay.id \in ChannelIds
      BY DEF Pays
    <3>3. f.capacity = Capacity /\ f.seq = 0 /\ f.deviceShare = 0
      BY <1>1, <2>1 DEF ChannelCalm
    <3>4. 0 = 0 * HopCost
      BY Constants
    <3> QED  BY <1>t, <1>1, <1>p, <2>1, <3>1, <3>2, <3>3, <3>4 DEF Channels
  <2>2. CASE ~(f.state = "OPEN" /\ f.id = NoId)
    <3>1. a = f
      BY <1>1, <1>2, <2>2 DEF Adopted
    <3> QED  BY <1>t, <1>1, <2>2, <3>1 DEF ChannelCalm
  <2> QED  BY <2>1, <2>2
<1>4. pay.deviceShare >= a.deviceShare /\ pay.deviceShare <= Capacity
  <2>1. f.seq \in Nat /\ MaxSeq \in Nat /\ Capacity \in Nat
    BY <1>t, <1>1, Constants DEF Channels
  <2>2. f.seq * HopCost <= pay.seq * HopCost /\ f.seq * HopCost \in Nat /\ pay.seq * HopCost \in Nat
    BY <1>t, <1>1, <1>p, <2>1, ProductGrows
  <2>3. pay.seq * HopCost <= MaxSeq * HopCost /\ MaxSeq * HopCost \in Nat
    BY <1>t, <1>p, <2>1, ProductGrows
  <2>4. MaxSeq * HopCost <= Capacity
    BY RoomAssumption
  <2>5. PICK x, y, z \in Nat : x = f.seq * HopCost /\ y = pay.seq * HopCost /\ z = MaxSeq * HopCost
    BY <2>2, <2>3
  <2>6. x <= y /\ y <= z /\ z <= Capacity
    BY <2>2, <2>3, <2>4, <2>5
  <2> QED  BY <1>3, <1>p, <2>1, <2>5, <2>6
<1>5. AcceptsCommitment(a, pay, 0)
  <2>1. pay.seq > a.seq /\ pay.id = a.id
    BY <1>t, <1>1, <1>3, <1>p DEF Channels
  <2>2. pay.deviceShare + pay.userShare <= a.capacity
    BY <1>t, <1>3, <1>4
  <2> QED  BY <1>t, <1>3, <1>4, <2>1, <2>2 DEF AcceptsCommitment
<1>6. Refusal(pay, key) = "none"
  BY <1>2, <1>p, <1>5 DEF Refusal, Granted
<1>7. PICK g : g = ApplyCommitment(a, pay, 0)
  OBVIOUS
<1>8. g = [a EXCEPT !.state = "ACTIVE", !.seq = pay.seq, !.deviceShare = pay.deviceShare,
                    !.userShare = pay.userShare, !.expiry = pay.expiry]
  BY <1>5, <1>7 DEF ApplyCommitment
<1>9. /\ g.state = "ACTIVE" /\ g.id = chan /\ g.seq = pay.seq /\ g.deviceShare = pay.deviceShare
      /\ g.capacity = Capacity
  BY <1>3, <1>8 DEF Channels
<1>10. board' = [b EXCEPT !.fwd = g]
  BY <1>2, <1>6, <1>7 DEF Admit
<1>11. board'.fwd = g /\ board'.table = board.table /\ board'.burst = b.burst
  BY <1>10 DEF Boards
<1>12. refused' = refused
  BY <1>6 DEF Admit, Refuses
<1>13. ChannelCalm'
  BY <1>9, <1>11, <1>p DEF ChannelCalm, Total
<1> QED  BY <1>9, <1>11, <1>12, <1>13

\* The board keeps the certificate it hears.
LEMMA CertHeard ==
  ASSUME HostTyped, PlantTyped, Good(stage), TableCalm, stage.kind = "cert", Hear(stage),
         UNCHANGED <<chan, certHashes>>
  PROVE  /\ Granted' /\ TableCalm' /\ refused' = refused
         /\ board'.fwd = board.fwd /\ board'.burst = board.burst
<1>1. PICK t : t = board.table
  OBVIOUS
<1>2. PICK cert : cert = stage.cert
  OBVIOUS
<1>3. PICK n : n = Install(t, RelayDomain, cert, 1)
  OBVIOUS
<1>4. t \in [Slots -> Certs \cup {Free}] /\ board \in Boards
  BY <1>1 DEF PlantTyped, Boards
<1>5. cert \in Certs
  BY <1>2, CellKinds DEF PlantTyped
<1>6. cert.chan = chan /\ cert.edge = RelayKey(chan) /\ cert.from = certHashes[chan]
  <2>1. stage = Current
    BY DEF Good
  <2> QED  BY <1>2, <2>1 DEF Current, CertCell
<1>7. board' = [board EXCEPT !.table = n] /\ refused' = refused
  BY <1>1, <1>2, <1>3 DEF Hear, PlantTyped, Boards
<1>8. OneEntryPerGrant(t, 1) /\ \A i \in Slots : t[i] # Free => t[i].chan \in {NoId, cert.chan}
  BY <1>1, <1>6 DEF TableCalm
<1>9. PICK s \in Slots : /\ n = [t EXCEPT ![s] = cert]
                         /\ \A i \in Slots : i # s /\ t[i] # Free => t[i].chan # cert.chan
  BY <1>3, <1>4, <1>5, <1>8, InstallIs
<1>10. /\ n \in [Slots -> Certs \cup {Free}] /\ n[s] = cert /\ cert # Free
       /\ \A i \in Slots : i # s => n[i] = t[i]
  BY <1>4, <1>5, <1>9, Constants
<1>11. \A i, j \in Slots : n[i] # Free /\ n[j] # Free /\ n[i].chan = n[j].chan => i = j
  <2>1. \A i, j \in Slots : t[i] # Free /\ t[j] # Free /\ t[i].chan = t[j].chan => i = j
    <3>1. \A i \in Slots : t[i] # Free => Occupied(t, i, 1) /\ t[i].domain = RelayDomain
      BY <1>4, OccupiedIs
    <3> QED  BY <1>8, <3>1 DEF OneEntryPerGrant, SameGrant
  <2>2. TAKE i, j \in Slots
  <2>3. HAVE n[i] # Free /\ n[j] # Free /\ n[i].chan = n[j].chan
  <2>4. CASE i = s
    <3>1. n[j].chan = cert.chan
      BY <1>10, <2>3, <2>4
    <3> QED  BY <1>9, <1>10, <2>3, <2>4, <3>1
  <2>5. CASE j = s
    <3>1. n[i].chan = cert.chan
      BY <1>10, <2>3, <2>5
    <3> QED  BY <1>9, <1>10, <2>3, <2>5, <3>1
  <2>6. CASE i # s /\ j # s
    BY <1>10, <2>1, <2>3, <2>6
  <2> QED  BY <2>4, <2>5, <2>6
<1>12. OneEntryPerGrant(n, 1)
  <2>1. \A i \in Slots : Occupied(n, i, 1) => n[i] # Free
    BY <1>10, OccupiedIs
  <2> QED  BY <1>11, <2>1 DEF OneEntryPerGrant, SameGrant
<1>13. board'.table = n /\ board'.fwd = board.fwd /\ board'.burst = board.burst
  BY <1>4, <1>7 DEF Boards
<1>14. TableCalm'
  <2>1. \A i \in Slots : n[i] # Free => n[i].chan \in {NoId, chan}
    BY <1>6, <1>8, <1>10
  <2> QED  BY <1>12, <1>13, <2>1 DEF TableCalm
<1>15. Granted'
  <2>1. Lookup(n, chan, RelayDomain, 1) = cert
    BY <1>6, <1>10, <1>12, LookupIs
  <2>2. Cert(chan)' = cert
    BY <1>13, <2>1 DEF Cert, Rail
  <2> QED  BY <1>6, <1>10, <2>2 DEF Granted, RelayKey
<1> QED  BY <1>7, <1>13, <1>14, <1>15

\* A cell that is good does to the board what it was sent for.
LEMMA GoodHeard ==
  ASSUME HostTyped, PlantTyped, Lone, stage # NoCell, Hear(stage),
         UNCHANGED <<chan, certHashes, seqs>>
  PROVE  /\ refused' = refused
         /\ TableCalm' /\ ChannelCalm'
         /\ Granted \/ stage.kind = "cert" => Granted'
         /\ stage.kind = "v2a" => board'.burst = stage /\ board'.fwd = board.fwd
         /\ IF stage.kind \in {"v1", "v2b"} THEN board'.fwd.state = "ACTIVE"
            ELSE board'.fwd = board.fwd
<1>t. board \in Boards /\ Good(stage) /\ TableCalm /\ ChannelCalm /\ stage \in Cells
  BY DEF PlantTyped, Lone
<1>k. stage.kind \in {"cert", "v0", "v1", "v2a", "v2b", "settle", "plain"}
  BY DEF Hear
<1>a. ASSUME board'.fwd = board.fwd PROVE ChannelCalm'
  BY <1>a, <1>t DEF ChannelCalm, Total
<1>b. ASSUME board'.table = board.table PROVE TableCalm' /\ (Granted => Granted')
  BY <1>b, <1>t DEF TableCalm, Granted, Cert
<1>1. CASE stage.kind = "cert"
  BY <1>1, <1>a, <1>t, CertHeard
<1>2. CASE stage.kind = "v0"
  <2>1. Granted /\ board' = board
    BY <1>2, <1>t DEF Good, Hear
  <2>2. \E i \in Slots : Occupied(board.table, i, 1) /\ board.table[i].domain = RelayDomain
    <3>1. board.table \in [Slots -> Certs \cup {Free}] /\ OneEntryPerGrant(board.table, 1)
      BY <1>t DEF Boards, TableCalm
    <3>2. Lookup(board.table, chan, RelayDomain, 1) # Free
      BY <2>1 DEF Granted, Cert, Rail
    <3>3. PICK i \in Slots : board.table[i] # Free /\ board.table[i].domain = RelayDomain
      BY <3>1, <3>2, LookupIs
    <3> QED  BY <3>1, <3>3, OccupiedIs
  <2>3. refused' = refused
    BY <1>2, <2>2 DEF Hear, Refuses, Rail
  <2> QED  BY <1>2, <1>a, <1>b, <2>1, <2>3
<1>3. CASE stage.kind = "v1"
  <2>1. PICK pay \in Pays : pay = stage.pay
    BY <1>3, <1>t, CellKinds
  <2>2. Admit(board, pay, stage.key) /\ Payable(pay) /\ stage.key = RelayKey(chan)
    BY <1>3, <1>t, <2>1 DEF Hear, Good
  <2>3. /\ refused' = refused /\ board'.table = board.table /\ board'.fwd.state = "ACTIVE"
        /\ ChannelCalm'
    BY <1>t, <2>2, AdmitTakes
  <2> QED  BY <1>3, <1>b, <2>3
<1>4. CASE stage.kind = "v2a"
  <2>1. board' = [board EXCEPT !.burst = stage] /\ refused' = refused
    BY <1>4 DEF Hear
  <2>2. board'.burst = stage /\ board'.fwd = board.fwd /\ board'.table = board.table
    BY <1>t, <2>1 DEF Boards
  <2> QED  BY <1>4, <1>a, <1>b, <2>1, <2>2
<1>5. CASE stage.kind = "v2b"
  <2>1. PICK pay \in Pays : pay = stage.pay
    BY <1>5, <1>t, CellKinds
  <2>2. Payable(pay) /\ board.burst = CellA(pay, RelayKey(chan))
    BY <1>5, <1>t, <2>1 DEF Good
  <2>3. PICK b : b = [board EXCEPT !.burst = NoCell]
    OBVIOUS
  <2>4. b \in Boards /\ b.fwd = board.fwd /\ b.table = board.table
    BY <1>t, <2>3 DEF Boards
  <2>5. PICK key : key = board.burst.key
    OBVIOUS
  <2>6. board.burst # NoCell /\ board.burst.flow = pay /\ key = RelayKey(chan)
    BY <2>2, <2>5 DEF CellA, NoCell
  <2>7. Admit(b, pay, key)
    BY <1>5, <2>1, <2>3, <2>5, <2>6 DEF Hear
  <2>8. /\ refused' = refused /\ board'.table = board.table /\ board'.fwd.state = "ACTIVE"
        /\ ChannelCalm'
    BY <1>t, <2>2, <2>4, <2>6, <2>7, AdmitTakes
  <2> QED  BY <1>5, <1>b, <2>8
<1>6. CASE stage.kind \in {"settle", "plain"}
  <2>1. board' = board /\ refused' = refused
    BY <1>6 DEF Hear, boardVars
  <2> QED  BY <1>6, <1>a, <1>b, <2>1
<1> QED  BY <1>k, <1>1, <1>2, <1>3, <1>4, <1>5, <1>6

\* What the board hears is what a request was waiting for.
LEMMA HeardLone ==
  ASSUME BooksInv, Lone, Broadcast(TRUE)
  PROVE  refused' = refused /\ Lone'
<1>t. ControlTyped /\ HostTyped /\ PlantTyped
  BY DEF BooksInv, ControlTyped
<1>1. /\ stage # NoCell /\ Hear(stage) /\ stage' = NoCell
      /\ UNCHANGED <<chan, flag, certHashes, seqs, active, books, reqs>>
  BY DEF Broadcast, hostVars
<1>2. /\ refused' = refused
      /\ TableCalm' /\ ChannelCalm'
      /\ Granted \/ stage.kind = "cert" => Granted'
      /\ stage.kind = "v2a" => board'.burst = stage /\ board'.fwd = board.fwd
      /\ IF stage.kind \in {"v1", "v2b"} THEN board'.fwd.state = "ACTIVE"
         ELSE board'.fwd = board.fwd
  BY <1>1, <1>t, GoodHeard
<1>3. Current' = Current /\ Current.kind = "cert" /\ \A k : OneRoute(k) => OneRoute(k)'
  BY <1>1 DEF Current, CertCell, OneRoute
<1>4. Good(stage)' /\ stage'.kind = "none"
  BY <1>1 DEF Good, NoCell
<1>5. ASSUME NEW s \in Requests PROVE Phase(reqs[s])'
  <2>1. PICK q : q = reqs[s]
    OBVIOUS
  <2>2. Phase(q) /\ reqs'[s] = q
    BY <1>1, <2>1 DEF Lone
  <2>s. SUFFICES Phase(q)'
    BY <2>2
  <2>3. q.at \notin {"certing", "sending", "funding", "wallet"}
    BY <1>1, <2>2 DEF Phase, InCert, InSending
  <2>4. CASE q.at = "settle"
    <3>1. InCert(q) /\ stage = q.cell
      BY <1>1, <2>2, <2>4 DEF Phase, InCert
    <3>2. q.chan = chan' /\ q.cell = Current' /\ q.kind \in {"v0", "v1", "v2"} /\ Granted'
      BY <1>1, <1>2, <1>3, <2>4, <3>1 DEF InCert
    <3>3. PICK k : k = q.kind
      OBVIOUS
    <3>4. OneRoute(q.kind)'
      BY <1>3, <3>1, <3>3 DEF InCert
    <3> QED  BY <1>1, <2>4, <3>2, <3>4 DEF Phase, InCert
  <2>5. CASE q.at = "gap"
    <3>1. InGap(q) /\ stage = q.cell
      BY <1>1, <2>2, <2>5 DEF Phase, InGap
    <3>2. /\ q.kind = "v2" /\ q.cell.kind = "v2a" /\ q.then = CellB(q.cell.flow)
          /\ Payable(q.cell.flow) /\ q.cell.key = RelayKey(chan)
      BY <3>1 DEF InGap, Good
    <3>3. board'.burst = q.cell /\ board'.fwd = board.fwd /\ Granted'
      BY <1>2, <3>1, <3>2 DEF Payable
    <3>4. PICK c, pay : c = q.cell /\ pay = c.flow
      OBVIOUS
    <3>5. Payable(pay)'
      BY <1>1, <3>2, <3>3, <3>4 DEF Payable, Total
    <3>6. Good(c)'
      BY <1>1, <3>2, <3>4, <3>5 DEF Good, RelayKey
    <3> QED  BY <1>1, <2>5, <3>2, <3>3, <3>4, <3>6 DEF Phase, InGap
  <2>6. CASE q.at \in {"settling", "evidence"}
    <3>1. board.fwd.state = "ACTIVE" /\ (q.at = "evidence" => q.cell.kind = "settle")
      BY <2>2, <2>6 DEF Phase
    <3>2. board'.fwd.state = "ACTIVE"
      BY <1>2, <3>1
    <3> QED  BY <1>4, <2>6, <3>1, <3>2 DEF Phase
  <2>7. CASE q.at \notin {"settle", "gap", "settling", "evidence"}
    BY <2>3, <2>7 DEF Phase
  <2> QED  BY <2>4, <2>5, <2>6, <2>7
<1>6. CertCalm'
  <2>1. NoneCerting' <=> NoneCerting
    BY <1>1 DEF NoneCerting
  <2>2. flag /\ NoneCerting => stage = Current \/ Granted
    BY DEF Lone, CertCalm
  <2> QED  BY <1>1, <1>2, <1>3, <2>1, <2>2 DEF CertCalm
<1>7. Unseen'
  <2>1. Unseen
    BY DEF Lone
  <2>2. board'.fwd.state = "OPEN" => board.fwd.state = "OPEN" /\ stage.kind \notin {"v1", "v2b"}
    BY <1>2
  <2> QED  BY <1>1, <2>1, <2>2 DEF Unseen
<1>8. Alone'
  BY <1>1 DEF Lone, Alone
<1> QED  BY <1>2, <1>4, <1>5, <1>6, <1>7, <1>8 DEF Lone

LEMMA BroadcastLone ==
  ASSUME BooksInv, LoneInv, NEW heard \in BOOLEAN, Broadcast(heard)
  PROVE  LoneInv'
<1>1. CASE calm /\ heard
  <2>1. Lone /\ Broadcast(TRUE) /\ refused = {}
    BY <1>1 DEF LoneInv
  <2> QED  BY <2>1, HeardLone DEF LoneInv
<1>2. CASE ~(calm /\ heard)
  <2>1. ~calm'
    BY <1>2 DEF Broadcast
  <2>2. refused' = refused
    <3>1. CASE ~heard
      BY <3>1 DEF Broadcast, boardVars
    <3>2. CASE heard
      BY <1>2, <3>2 DEF Broadcast, Hear, Admit, Refuses, boardVars
    <3> QED  BY <3>1, <3>2
  <2> QED  BY <2>1, <2>2, CalmEnds
<1> QED  BY <1>1, <1>2

LEMMA LoneInit ==
  ASSUME Init
  PROVE  LoneInv
<1>1. /\ refused = {} /\ stage = NoCell /\ active = NoId /\ chan = NoId /\ flag = FALSE
      /\ \A r \in Requests : reqs[r].at = "idle"
  BY DEF Init, Idle
<1>2. Alone /\ \A r \in Requests : Phase(reqs[r])
  BY <1>1 DEF Alone, Phase
<1>3. Good(stage) /\ CertCalm
  BY <1>1 DEF Good, NoCell, CertCalm
<1>4. ChannelCalm
  BY NewBoardIs DEF Init, ChannelCalm
<1>5. TableCalm
  <2>1. \A i \in Slots : board.table[i] = Free
    BY NewBoardIs DEF Init, EmptyTable
  <2> QED  BY <2>1 DEF TableCalm, OneEntryPerGrant, Occupied
<1>6. Unseen
  BY <1>1, Constants DEF Unseen
<1> QED  BY <1>1, <1>2, <1>3, <1>4, <1>5, <1>6 DEF LoneInv, Lone

LEMMA LoneStep ==
  ASSUME BooksInv, LoneInv, [Next]_vars
  PROVE  LoneInv'
<1>1. ASSUME NEW r \in Requests, NEW kind \in Kinds, NEW triggerOk \in BOOLEAN,
             Start(r, kind, triggerOk)
      PROVE  LoneInv'
  BY <1>1, StartLone
<1>2. ASSUME NEW r \in Requests, Writes(r) PROVE LoneInv'
  <2>1. ASSUME NEW taken \in BOOLEAN, CertInjected(r, taken) PROVE LoneInv'
    BY <2>1, CertInjectedLone
  <2>2. ASSUME NEW taken \in BOOLEAN, ForwardInjected(r, taken) PROVE LoneInv'
    BY <2>2, ForwardInjectedLone
  <2>3. ASSUME NEW taken \in BOOLEAN, EvidenceInjected(r, taken) PROVE LoneInv'
    BY <2>3, EvidenceInjectedLone
  <2>4. ASSUME InjectionFails(r) PROVE LoneInv'
    <3>1. ~calm' /\ refused' = refused
      BY <2>4 DEF InjectionFails, boardVars
    <3> QED  BY <3>1, CalmEnds
  <2> QED  BY <1>2, <2>1, <2>2, <2>3, <2>4 DEF Writes
<1>3. ASSUME NEW r \in Requests, GoesOn(r) PROVE LoneInv'
  <2>1. ASSUME NEW triggerOk \in BOOLEAN, CertSettled(r, triggerOk) PROVE LoneInv'
    BY <2>1, CertSettledLone
  <2>2. ASSUME GapOver(r) PROVE LoneInv'
    BY <2>2, GapOverLone
  <2>3. ASSUME NEW ok \in BOOLEAN, SettleReturns(r, ok) PROVE LoneInv'
    BY <2>3, SettleReturnsLone
  <2> QED  BY <1>2, <1>3, <2>1, <2>2, <2>3 DEF GoesOn
<1>4. ASSUME NEW r \in Requests, FundingReturns(r) PROVE LoneInv'
  BY <1>4, FundingReturnsLone
<1>5. ASSUME NEW r \in Requests,
             \/ FundingFails(r)
             \/ \E ok \in BOOLEAN : WalletReturns(r, ok)
             \/ AnchorReturns(r)
      PROVE  LoneInv'
  BY <1>5, AnswersLone
<1>6. ASSUME NEW heard \in BOOLEAN, Broadcast(heard) PROVE LoneInv'
  BY <1>6, BroadcastLone
<1>7. ASSUME BoardReboots \/ ProcessRestarts PROVE LoneInv'
  <2>1. ~calm' /\ refused' = refused
    BY <1>7 DEF BoardReboots, ProcessRestarts, boardVars
  <2> QED  BY <2>1, CalmEnds
<1>8. ASSUME UNCHANGED vars PROVE LoneInv'
  <2>1. UNCHANGED <<board, chan, certHashes, seqs, active, flag, books, stage, reqs, calm, refused>>
    BY <1>8 DEF vars, hostVars, portVars, boardVars, historyVars
  <2>2. SUFFICES ASSUME Lone PROVE Lone'
    BY <2>1 DEF LoneInv
  <2>3. /\ (Granted' <=> Granted) /\ Current' = Current /\ TableCalm' /\ ChannelCalm'
        /\ \A c : Good(c) => Good(c)'
        /\ \A k : OneRoute(k) => OneRoute(k)'
    BY <2>1, <2>2, SameBoard, SameCells DEF Lone
  <2>4. ASSUME NEW s \in Requests PROVE Phase(reqs[s])'
    <3>1. PICK q, k, c : q = reqs[s] /\ k = q.kind /\ c = q.cell
      OBVIOUS
    <3>2. Phase(q) /\ reqs'[s] = q
      BY <2>1, <2>2, <3>1 DEF Lone
    <3>3. (OneRoute(k) => OneRoute(k)') /\ (Good(c) => Good(c)')
      BY <2>3
    <3>4. InCert(q) => InCert(q)'
      BY <2>1, <2>3, <3>1, <3>3 DEF InCert
    <3>5. InSending(q) => InSending(q)'
      BY <2>1, <3>1, <3>3 DEF InSending
    <3>6. InGap(q) => InGap(q)'
      BY <2>1, <3>1, <3>3 DEF InGap
    <3>7. Phase(q)'
      BY <2>1, <3>2, <3>4, <3>5, <3>6 DEF Phase
    <3> QED  BY <3>2, <3>7
  <2>5. Good(stage)'
    <3>1. PICK c : c = stage
      OBVIOUS
    <3> QED  BY <2>1, <2>2, <2>3, <3>1 DEF Lone
  <2>6. CertCalm' /\ Unseen' /\ Alone'
    BY <2>1, <2>2, <2>3 DEF Lone, CertCalm, NoneCerting, Unseen, Alone
  <2> QED  BY <2>3, <2>4, <2>5, <2>6 DEF Lone
<1> QED  BY <1>1, <1>3, <1>4, <1>5, <1>6, <1>7, <1>8 DEF Next

\* mesh-control.ts, channel-anchor.ts and main.c: forwards sent one at a time
\* over one route, with nothing lost, never meet a board that refuses them.
\* BooksInv says what the state is made of; LoneInv says, of a state in which
\* all has been calm, where the one request under way is, what the injector
\* holds for it, and that the board already has, or is about to hear, the
\* certificate, the first half of a burst and the channel id its next cell
\* depends on.
THEOREM LoneForwardsTaken == Spec => []LoneForwardsAreTaken
<1>1. Init => LoneInv
  BY LoneInit
<1>2. BooksInv /\ LoneInv /\ [Next]_vars => LoneInv'
  BY LoneStep
<1>3. LoneInv => LoneForwardsAreTaken
  BY DEF LoneInv, LoneForwardsAreTaken
<1> QED  BY <1>1, <1>2, <1>3, BooksInvariant, PTL DEF Spec

=============================================================================
