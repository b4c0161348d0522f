------------------------------- MODULE TempLog -------------------------------
(***************************************************************************)
(* Store and forward end to end: one node (TempLogNode), the path through  *)
(* the gateway, and the bridge's store (TempLogStore).                     *)
(*                                                                         *)
(* The path is two sets of messages.  A batch goes by radio to the gateway *)
(* (on_radio_recv, a queue of four, print_batch) and by serial line to the *)
(* bridge (handleLine); an ack goes back as an AK line (handle_ak_line) and*)
(* by radio to the node's own queue.  Each hop may drop a message, and a   *)
(* message may overtake another or arrive twice.  A cell that arrives      *)
(* damaged is dropped (CRC-32, domain_payload_root), so what arrives is    *)
(* what was sent.                                                          *)
(***************************************************************************)
EXTENDS TempLogNode, FiniteSets

CONSTANTS
  MaxInFlight,   \* bound: messages under way in each direction
  MaxLines,      \* bound: lines of the journal
  PathFaults     \* what the path may do, of {"lose", "duplicate"}

ASSUME PathAssumption ==
  /\ MaxInFlight \in Nat \ {0}
  /\ MaxLines \in Nat
  /\ PathFaults \subseteq {"lose", "duplicate"}

VARIABLES
  toHost,    \* batches on their way to the bridge
  toNode,    \* acks on their way to the node
  lines, tail, running, logs, promised,  \* the store
  taken      \* history: every reading appended, as [log, seq, boot]

hostVars == <<lines, tail, running, logs, promised>>
pathVars == <<toHost, toNode>>
vars == <<nodeVars, hostVars, pathVars, taken>>

Host == INSTANCE TempLogStore WITH
  Logs <- 0..MaxLogs,
  Values <- 0..MaxBoots,
  MaxSeq <- MaxU32,
  MaxSamples <- MaxBatch

-----------------------------------------------------------------------------
(* The path *)

\* What may be left of `msgs` once m has arrived.
Arrived(msgs, m) ==
  {msgs \ {m}} \union (IF "duplicate" \in PathFaults THEN {msgs} ELSE {})

\* A full queue drops what comes.
Queued(msgs, m) ==
  IF Cardinality(msgs) < MaxInFlight THEN msgs \union {m} ELSE msgs

LoseBatch ==
  /\ "lose" \in PathFaults
  /\ \E b \in toHost : toHost' = toHost \ {b}
  /\ UNCHANGED <<nodeVars, hostVars, toNode, taken>>

LoseAck ==
  /\ "lose" \in PathFaults
  /\ \E a \in toNode : toNode' = toNode \ {a}
  /\ UNCHANGED <<nodeVars, hostVars, toHost, taken>>

-----------------------------------------------------------------------------
(* The node, with what it sends and receives *)

\* Flash calls do not fail here; TempLogNode has the node alone where they do.
NodeSamples ==
  /\ TakeSample
  /\ taken' = taken \union {[log |-> ram.log, seq |-> ram.next, boot |-> ram.boot]}
  /\ UNCHANGED <<hostVars, pathVars>>

\* send_batch: cm_tlog_sched_should_send asks for something pending.
SendBatch ==
  /\ up
  /\ Pending(ram) > 0
  /\ BatchSeqs(flash, ram) # {}
  /\ Batch(flash, ram) \notin toHost
  /\ Cardinality(toHost) < MaxInFlight
  /\ toHost' = toHost \union {Batch(flash, ram)}
  /\ UNCHANGED <<nodeVars, hostVars, toNode, taken>>

NodeGetsAck ==
  \E a \in toNode :
    /\ HandleAck(a)
    /\ toNode' \in Arrived(toNode, a)
    /\ UNCHANGED <<hostVars, toHost, taken>>

NodePower ==
  /\ PowerCut \/ PowerCutInAppend \/ PowerCutInBoot \/ Wipe
  /\ UNCHANGED <<hostVars, pathVars, taken>>

NodeBoots ==
  /\ Boot
  /\ UNCHANGED <<hostVars, pathVars, taken>>

-----------------------------------------------------------------------------
(* The bridge *)

\* handleLine and pump: the batch is stored, then the AK line is written.
BridgeIngests ==
  \E b \in toHost :
    /\ Host!Ingest(b)
    /\ toHost' \in Arrived(toHost, b)
    /\ toNode' = Queued(toNode, Host!PlanState(b).through)
    /\ UNCHANGED <<nodeVars, taken>>

\* The batch that was being stored goes down with the process.
BridgeCrashes ==
  /\ \/ Host!Crash /\ UNCHANGED toHost
     \/ \E b \in toHost : Host!CrashInIngest(b) /\ toHost' = toHost \ {b}
  /\ UNCHANGED <<nodeVars, toNode, taken>>

BridgeOpens ==
  /\ Host!Open
  /\ UNCHANGED <<nodeVars, pathVars, taken>>

-----------------------------------------------------------------------------

Init ==
  /\ NodeInit
  /\ Host!StoreInit
  /\ toHost = {}
  /\ toNode = {}
  /\ taken = {}

Next ==
  \/ NodeSamples
  \/ SendBatch
  \/ NodeGetsAck
  \/ NodePower
  \/ NodeBoots
  \/ LoseBatch
  \/ LoseAck
  \/ BridgeIngests
  \/ BridgeCrashes
  \/ BridgeOpens

\* run_node's loop and the bridge process keep going, both are started again
\* when they stop, and of the messages sent again and again some arrive.
Fairness ==
  /\ WF_vars(SendBatch)
  /\ WF_vars(NodeBoots)
  /\ WF_vars(BridgeOpens)
  /\ SF_vars(BridgeIngests)
  /\ SF_vars(NodeGetsAck)

Spec == Init /\ [][Next]_vars
FairSpec == Spec /\ Fairness

-----------------------------------------------------------------------------
(* Properties *)

\* The shape of the path's state.
PathTypeOK ==
  /\ toNode \subseteq 0..MaxU32
  /\ \A b \in toHost : b.log \in 0..MaxLogs /\ DOMAIN b.samples \subseteq 1..MaxU32

\* The log the node is writing, and the point up to which it takes its
\* readings to be delivered, now or at its next boot.
CurrentLog == IF up THEN ram.log ELSE nvs.log
ReleasedThrough == IF up THEN ram.acked ELSE nvs.acked

\* The node counts a reading of its log as delivered only if the bridge holds
\* it, has recorded its loss, or joined the log after it was gone.
ReleasedIsAccounted ==
  \A r \in taken :
    r.log = CurrentLog /\ r.seq <= ReleasedThrough => Host!Accounted(Host!OnFile, r.log, r.seq)

\* The same in the first log, whatever acks come back late and twice: an ack
\* names no log, so after a wipe it may speak of another one.
ReleasedUntilWiped == drawn <= 1 => ReleasedIsAccounted

\* "Recorded as a loss event, never absorbed silently" (store.ts:11): a reading
\* that counts as delivered is held, or lies in a recorded loss.  No run has it,
\* for the code breaks it: after a crash between the start line and the loss line
\* of a log's first batch no loss line is ever written.
LossNeverAbsorbed ==
  \A r \in taken :
    r.log = CurrentLog /\ r.seq <= ReleasedThrough =>
      \/ r.seq \in Host!SeqsOf(Host!OnFile, "sample", r.log)
      \/ \E i \in Host!Of(Host!OnFile, "loss", r.log) :
           Host!OnFile[i].from <= r.seq /\ r.seq <= Host!OnFile[i].seq

\* The logger implements its promise: one step of the promise, or none, for
\* each step of the node, the path and the bridge.
Reading == [log : 0..MaxLogs, seq : 1..MaxU32, boot : 0..MaxBoots]

AccountedReadings == {r \in taken : Host!Accounted(Host!OnFile, r.log, r.seq)}
ReleasedReadings == {r \in taken : r.log = CurrentLog /\ r.seq <= ReleasedThrough}

Promise == INSTANCE StoreAndForward WITH
  accounted <- AccountedReadings,
  released <- ReleasedReadings

ImplementsPromise == Promise!Spec

\* What the bridge holds under (log, seq) is the reading the node took there.  A
\* placeholder stands only for a seq of which the node has no record.
HeldIsTrue ==
  \A i \in DOMAIN lines : lines[i].kind = "sample" =>
    IF lines[i].value = RecordLost
    THEN CurrentLog = lines[i].log =>
           \A k \in Slots : Decodes(flash[k]) => flash[k].seq # lines[i].seq
    ELSE [log |-> lines[i].log, seq |-> lines[i].seq, boot |-> lines[i].value] \in taken

\* A loss is recorded only for seqs whose records are gone from the ring.
LossIsTrue ==
  \A i \in DOMAIN lines : lines[i].kind = "loss" /\ lines[i].log = CurrentLog =>
    \A k \in Slots : Decodes(flash[k]) => flash[k].seq > lines[i].seq

\* All the bridge holds of a log, samples and losses, is true of its node.
StoreIsTrue == HeldIsTrue /\ LossIsTrue

\* The bridge's ack point never passes what the node has given out.
HostNotAhead ==
  up /\ ram.log \in DOMAIN logs => logs[ram.log].through < ram.next

\* Every reading taken is in the end accounted for by the bridge, if the bridge
\* crashes only so many times.
EveryReadingAccounted ==
  <>[]running =>
    \A l \in 1..MaxLogs : \A s \in 1..(MaxU32 - 1) :
      (\E r \in taken : r.log = l /\ r.seq = s) ~> Host!Accounted(Host!OnFile, l, s)

=============================================================================
