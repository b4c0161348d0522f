------------------------------ MODULE TempLogSim ------------------------------
(***************************************************************************)
(* The synthetic node of tools/templog-bridge/sim.ts before the real bridge: *)
(* `bridge.ts --sim`, and what its scenario is one run of.  A node keeps its *)
(* readings in a ring, boots several times, sends batches and is acked; the  *)
(* bridge places each reading in time as it stores it.                       *)
(*                                                                          *)
(* sim.ts hands a batch to the bridge and the ack to the node at once; here  *)
(* either may be under way for up to MaxDelay seconds, as between boards,    *)
(* and a line may be lost as an ack may.  The bridge runs throughout.  The   *)
(* value of a sample is where its reading was placed.                        *)
(***************************************************************************)
EXTENDS TempLogStore

CONSTANTS
  Node,              \* the one key (mac, log_id), in Logs
  RecordsPerSector,  \* 256 in the code
  Sectors,           \* sectors of the ring
  MaxBoots,          \* bound: boots of the node
  MaxDelay,          \* bound: seconds a line or an ack is under way
  MaxLost,           \* bound: lines and acks lost, and foreign acks
  MaxClock           \* bound: the clock

ASSUME SimAssumption ==
  /\ Node \in Logs
  /\ RecordsPerSector \in Nat \ {0} /\ Sectors \in Nat \ {0, 1}
  /\ {MaxBoots, MaxDelay, MaxLost, MaxClock} \subseteq Nat

VARIABLES
  node,     \* SimNode
  clock,    \* SimWorld.nowUnixS
  truth,    \* SimWorld.truth: seq -> when it was taken; history
  wire,     \* the batch under way to the bridge
  air,      \* the ack under way to the node
  lost,     \* lines and acks lost so far, foreign acks given
  ackedBy   \* history: whose ack the node applied last

simVars == <<node, clock, truth, wire, air, lost, ackedBy, storeVars>>

Capacity == RecordsPerSector * Sectors

Nothing == [sent |-> 0]
Idle == wire = Nothing /\ air = Nothing

-----------------------------------------------------------------------------
(* SimNode *)

Uptime == clock - node.bootUnix

\* The oldest seq after the next append, which erases a sector when it writes
\* its first slot.
OldestAfter(n) ==
  LET lap == Capacity - RecordsPerSector IN
  IF ((n.next - 1) % Capacity) % RecordsPerSector = 0 /\ n.next > lap
  THEN Max({n.oldest, n.next - lap})
  ELSE n.oldest

Appended(n, flash) ==
  [n EXCEPT !.next = @ + 1, !.oldest = OldestAfter(n),
            !.flash = [s \in {q \in DOMAIN flash : q >= OldestAfter(n)} |-> flash[s]]]

LostThrough == IF node.acked + 1 < node.oldest THEN node.oldest - 1 ELSE 0

PendingFirst == Max({node.acked + 1, node.oldest})

Pending == node.next - PendingFirst

\* Faulty variant: records of any boot share a batch.
SameBootAny(s, boot) == TRUE

\* A placeholder belongs to every boot.
SameBoot(s, boot) == s \in DOMAIN node.flash => node.flash[s].boot = boot

EpochOf(boot) == IF boot \in DOMAIN node.epochs THEN node.epochs[boot] ELSE 0

\* The samples of the next batch: from the first pending on, of one boot.
BatchRun(boot) ==
  LET free == PendingFirst..Min({node.next - 1, PendingFirst + MaxSamples - 1})
      ends == {s \in free : ~SameBoot(s, boot)}
  IN IF ends = {} THEN free ELSE PendingFirst..(Min(ends) - 1)

\* buildBatch and encodeBatch: a header, and the samples in order without seqs.
Batch ==
  LET first == PendingFirst
      boot == IF first \in DOMAIN node.flash THEN node.flash[first].boot ELSE node.boot
      run == BatchRun(boot)
  IN [first |-> first, bootId |-> boot, bootNow |-> node.boot, uptimeNow |-> Uptime,
      bootEpoch |-> EpochOf(boot), lost |-> LostThrough,
      samples |-> [i \in 1..Cardinality(run) |->
                     IF first + i - 1 \in DOMAIN node.flash
                     THEN [uptime |-> node.flash[first + i - 1].uptime, recordLost |-> FALSE]
                     ELSE [uptime |-> 0, recordLost |-> TRUE]],
      sent |-> clock]

\* Faulty variant: an ack only ever moves the pointer up.
AckedForward(n, through) == Max({n.acked, Min({through, n.next - 1})})

\* Lower is a request to replay.
AckedThrough(n, through) == Min({through, n.next - 1})

\* applyAck: the pointer, and the start of the running boot.
ApplyAck(n, through, hostUnix) ==
  LET up == clock - n.bootUnix IN
  [n EXCEPT !.acked = AckedThrough(n, through),
            !.epochs = IF hostUnix > up
                       THEN [b \in DOMAIN @ \cup {n.boot} |->
                               IF b = n.boot THEN hostUnix - up ELSE @[b]]
                       ELSE @]

-----------------------------------------------------------------------------
(* The bridge *)

\* anchorOf (store.ts)
AnchorOf(h) ==
  IF h.bootId = h.bootNow THEN [rule |-> "receipt", epoch |-> clock - h.uptimeNow]
  ELSE IF h.bootEpoch # 0 THEN [rule |-> "epoch", epoch |-> h.bootEpoch]
  ELSE [rule |-> "unplaced", epoch |-> 0]

Unplaced == [anchor |-> "unplaced", tUnix |-> 0]

\* planBatch: a sample with its place in time.
Placed(h, s) ==
  IF AnchorOf(h).rule = "unplaced" \/ s.recordLost THEN Unplaced
  ELSE [anchor |-> AnchorOf(h).rule, tUnix |-> AnchorOf(h).epoch + s.uptime]

\* decodeBatch: sample i is seq first + i.
Decoded(h) ==
  [log |-> Node, first |-> h.first, lost |-> h.lost,
   samples |-> [s \in h.first..(h.first + Len(h.samples) - 1) |->
                  Placed(h, h.samples[s - h.first + 1])]]

-----------------------------------------------------------------------------
(* SimWorld *)

\* A second, and no more than MaxDelay of them while something is under way.
Advances ==
  /\ clock < MaxClock
  /\ \A m \in {wire, air} \ {Nothing} : clock < m.sent + MaxDelay
  /\ clock' = clock + 1

\* take: a reading, one interval on.
Take ==
  /\ Idle /\ node.next <= MaxSeq
  /\ Advances
  /\ node' = Appended(node, [s \in DOMAIN node.flash \cup {node.next} |->
                               IF s = node.next THEN [boot |-> node.boot, uptime |-> Uptime + 1]
                               ELSE node.flash[s]])
  /\ truth' = [s \in DOMAIN truth \cup {node.next} |-> IF s = node.next THEN clock + 1 ELSE truth[s]]
  /\ UNCHANGED <<wire, air, lost, ackedBy, storeVars>>

\* burn: the seq is spent and its record unreadable.
Burn ==
  /\ Idle /\ node.next <= MaxSeq
  /\ Advances
  /\ node' = Appended(node, node.flash)
  /\ UNCHANGED <<truth, wire, air, lost, ackedBy, storeVars>>

Reboot ==
  /\ node.boot < MaxBoots
  /\ Advances
  /\ node' = [node EXCEPT !.boot = @ + 1, !.bootUnix = clock + 1]
  /\ UNCHANGED <<truth, wire, air, lost, ackedBy, storeVars>>

\* Another gateway's bridge acks through `seq`.
ForeignAck(seq) ==
  /\ Idle /\ lost < MaxLost
  /\ lost' = lost + 1
  /\ node' = ApplyAck(node, seq, clock)
  /\ ackedBy' = "other"
  /\ UNCHANGED <<clock, truth, wire, air, storeVars>>

\* deliver: the next batch goes out.
Send ==
  /\ Idle /\ Pending > 0
  /\ wire' \in {Batch}
  /\ UNCHANGED <<node, clock, truth, air, lost, ackedBy, storeVars>>

\* handleLine: stored, and the ack line is on its way to the node.
BridgeHandlesLine ==
  /\ wire # Nothing
  /\ \E b \in {Decoded(wire)} : Ingest(b)
  /\ wire' = Nothing
  /\ air' = [through |-> logs'[Node].through, hostUnix |-> clock, sent |-> clock]
  /\ UNCHANGED <<node, clock, truth, lost, ackedBy>>

\* gatewayToNode
GatewayToNode ==
  /\ air # Nothing
  /\ node' = ApplyAck(node, air.through, air.hostUnix)
  /\ air' = Nothing
  /\ ackedBy' = "bridge"
  /\ UNCHANGED <<clock, truth, wire, lost, storeVars>>

\* dropAcks, or the line is damaged.
Loses ==
  /\ ~Idle /\ lost < MaxLost
  /\ lost' = lost + 1
  /\ wire' = Nothing /\ air' = Nothing
  /\ UNCHANGED <<node, clock, truth, ackedBy, storeVars>>

Delay ==
  /\ ~Idle
  /\ Advances
  /\ UNCHANGED <<node, truth, wire, air, lost, ackedBy, storeVars>>

SimInit ==
  /\ clock = 1
  /\ node = [boot |-> 1, bootUnix |-> 1, next |-> 1, oldest |-> 1, acked |-> 0,
             flash |-> <<>>, epochs |-> <<>>]
  /\ truth = <<>> /\ wire = Nothing /\ air = Nothing /\ lost = 0 /\ ackedBy = "none"
  /\ lines = <<>> /\ tail = NoTail /\ running = TRUE /\ logs = <<>>
  /\ promised = [l \in Logs |-> 0]

SimNext ==
  \/ Take \/ Burn \/ Reboot
  \/ \E seq \in 0..MaxSeq : seq >= node.acked /\ seq < node.next /\ ForeignAck(seq)
  \/ Send \/ BridgeHandlesLine \/ GatewayToNode
  \/ Loses \/ Delay

\* deliver loops until nothing is pending.
SimSpec == SimInit /\ [][SimNext]_simVars /\ WF_simVars(Send \/ BridgeHandlesLine \/ GatewayToNode)

-----------------------------------------------------------------------------
(* Properties *)

\* Sending settles whatever was lost, overwritten or acked by another gateway
\* (deliver throws after 10,000 batches): from some point on nothing is pending.
DeliverySettles == <>[](Pending = 0)

\* Once the bridge's ack leaves nothing pending, the bridge accounts for every
\* reading through the node's newest: the exit status of --sim.
SettledIsThrough ==
  ackedBy = "bridge" /\ Pending = 0 => logs[Node].through = node.next - 1

\* A stored reading is placed within the delay of the moment it was taken, by
\* whichever rule and over whatever boots, or not placed at all.
PlacedNearTruth ==
  \A i \in DOMAIN lines :
    lines[i].kind = "sample" /\ lines[i].value # Unplaced =>
      /\ lines[i].seq \in DOMAIN truth
      /\ lines[i].value.tUnix - truth[lines[i].seq] \in (-MaxDelay)..MaxDelay

=============================================================================
