---------------------------- MODULE TempLogBridge ----------------------------
(***************************************************************************)
(* The host bridge around its store (tools/templog-bridge/bridge.ts and      *)
(* replay.ts): lines come from the gateway's port, a batch is stored and     *)
(* acked, and after the ack its new samples are POSTed to a server.  A POST  *)
(* that fails is only logged; `--replay` sends the whole file again, beside  *)
(* the running bridge or without it.                                         *)
(*                                                                          *)
(* The server is outside the repository: it keeps the first value of each    *)
(* (mac, logId, seq), as replay.ts says.                                     *)
(***************************************************************************)
EXTENDS TempLogStore

CONSTANTS
  Noise,     \* what a sample reads that no node measured for its log
  MaxBody,   \* samples of one replayed body, 500 in the code
  MaxPosts   \* bound: POSTs under way

ASSUME BridgeAssumption ==
  Noise \notin Values /\ MaxBody \in Nat \ {0} /\ MaxPosts \in Nat

VARIABLES
  port,     \* is the gateway's port open
  inflight, \* TempLogBridge.inflight: the bodies of the POSTs under way
  server,   \* log -> the loss reported and the samples held
  replay    \* the replay that runs or ran last

bridgeVars == <<port, inflight, server, replay, storeVars>>

\* replay: the bodies left, whether one failed, what the file held.
NoReplay == [left |-> {}, failed |-> TRUE, file |-> <<>>]

-----------------------------------------------------------------------------
(* Lines *)

\* What can be wrong with a frame: text of the gateway's own log lies before it
\* on the line; it is cut short or its text damaged on the way to the host; its
\* cell is no batch, holds another node's readings, was damaged before the
\* gateway took its CRC, or is too short for its count.
Flaws == {"none", "logBefore", "cutShort", "damagedText", "notABatch", "foreignOwner",
          "damagedCell", "shortPayload"}

OfferedBatches == {b \in Batches : \A s \in DOMAIN b.samples : s <= MaxSeq}

\* The lines the gateway may print, with the batch their text gives.
Lines ==
  [flaw : {"none", "logBefore"}, batch : OfferedBatches]
  \cup {[flaw |-> f, batch |-> [b EXCEPT !.samples = [s \in DOMAIN @ |-> Noise]]] :
          f \in Flaws \ {"none", "logBefore"}, b \in OfferedBatches}

\* Faulty variant: four fields make a frame.
FrameUnchecked(line) == line.flaw # "cutShort"

\* checkTlFrame: four fields of their lengths, and the CRC of the cell.
CheckTlFrame(line) == line.flaw \notin {"cutShort", "damagedText"}

\* classifyLine: a frame is looked for at the start of the line, and behind
\* whatever else is on it.
ClassifyLine(line) == IF CheckTlFrame(line) THEN "tl" ELSE "bad or other"

\* parseCell: what the header says, and whether the payload is the one it names.
ParseCell(line) ==
  [kind |-> IF line.flaw = "notABatch" THEN "other" ELSE "batch",
   ownerIsMac |-> line.flaw # "foreignOwner",
   payloadRootOk |-> line.flaw # "damagedCell"]

DecodesBatch(line) == line.flaw # "shortPayload"

\* The lines whose batch is stored and acked.
IsTaken(line) ==
  /\ ClassifyLine(line) = "tl"
  /\ LET cell == ParseCell(line)
     IN cell.kind = "batch" /\ cell.ownerIsMac /\ cell.payloadRootOk
  /\ DecodesBatch(line)

-----------------------------------------------------------------------------
(* Bodies *)

\* Faulty variant: duplicates are posted too.
PostBodyAll(b) == [log |-> b.log, lost |-> b.lost, samples |-> b.samples]

\* postBody: the new samples of a batch.
PostBody(b) ==
  [log |-> b.log, lost |-> b.lost, samples |-> [s \in Added(b) |-> b.samples[s]]]

\* bySeq.set: of a seq that is on the file twice the last one stands.
OnFileSamples(j, l) ==
  [s \in SeqsOf(j, "sample", l) |->
     j[Max({i \in Of(j, "sample", l) : j[i].seq = s})].value]

\* Faulty variant: the last body of a log, if it is not full, is left out.
WholeChunks(sorted) ==
  {SubSeq(sorted, MaxBody * k + 1, MaxBody * (k + 1)) : k \in 0..(Len(sorted) \div MaxBody - 1)}

\* A log's samples by seq, MaxBody at a time.
Chunks(sorted) ==
  {SubSeq(sorted, MaxBody * k + 1, Min({MaxBody * (k + 1), Len(sorted)})) :
     k \in 0..((Len(sorted) - 1) \div MaxBody)} \ {<<>>}

\* replayBodies
ReplayBodies(j) ==
  UNION {
    LET held == OnFileSamples(j, l) IN
    {[log |-> l, lost |-> LossMax(j, l), samples |-> [s \in Range(c) |-> held[s]]] :
       c \in Chunks(InOrder(DOMAIN held))} :
    l \in {j[i].log : i \in DOMAIN j}}

\* The server takes a body: what it holds stands.
Served(body) ==
  [server EXCEPT ![body.log] =
     [lost |-> Max({@.lost, body.lost}),
      samples |-> [s \in DOMAIN @.samples \cup DOMAIN body.samples |->
                     IF s \in DOMAIN @.samples THEN @.samples[s] ELSE body.samples[s]]]]

-----------------------------------------------------------------------------
(* Actions *)

\* handleLine, pump: a batch is stored, acked, and its new samples are to be
\* posted.  Any other line changes nothing.
HandleLine(line) ==
  /\ port
  /\ Cardinality(inflight) < MaxPosts
  /\ IsTaken(line)
  /\ Ingest(line.batch)
  /\ inflight' = IF Added(line.batch) = {} THEN inflight ELSE inflight \cup {PostBody(line.batch)}
  /\ UNCHANGED <<port, server, replay>>

\* A POST is answered, or the server took it and the answer was lost, or it
\* never came to the server: postLater only logs the difference.
PostEnds(body) ==
  /\ body \in inflight
  /\ inflight' = inflight \ {body}
  /\ server' \in {server, Served(body)}
  /\ UNCHANGED <<port, replay, storeVars>>

\* The gateway resets and its port goes: cat ends.
PortCloses ==
  /\ running /\ port
  /\ port' = FALSE
  /\ UNCHANGED <<inflight, server, replay, storeVars>>

\* runSerial: the same bridge on the port again.
PortReopens ==
  /\ running /\ ~port
  /\ port' = TRUE
  /\ UNCHANGED <<inflight, server, replay, storeVars>>

\* runSerial
Starts ==
  /\ Open
  /\ port' = TRUE
  /\ UNCHANGED <<inflight, server, replay>>

\* The process dies, between two lines or inside ingest, and the POSTs with it.
Dies ==
  /\ \/ Crash
     \/ port /\ \E line \in Lines : IsTaken(line) /\ CrashInIngest(line.batch)
  /\ port' = FALSE
  /\ inflight' = {}
  /\ UNCHANGED <<server, replay>>

\* runReplay: the file is read once.
ReplayStarts ==
  /\ replay.left = {}
  /\ OnFile # <<>> /\ replay.file # OnFile
  /\ replay' = [left |-> ReplayBodies(OnFile), failed |-> FALSE, file |-> OnFile]
  /\ UNCHANGED <<port, inflight, server, storeVars>>

\* replayFile: one body after the other, and the rest still go when one fails.
ReplayPosts(body, fails) ==
  /\ body \in replay.left
  /\ replay' = [left |-> replay.left \ {body}, failed |-> replay.failed \/ fails,
                file |-> IF fails THEN <<>> ELSE replay.file]
  /\ server' \in {Served(body)} \cup (IF fails THEN {server} ELSE {})
  /\ UNCHANGED <<port, inflight, storeVars>>

BridgeInit ==
  /\ StoreInit
  /\ port = FALSE /\ inflight = {}
  /\ server = [l \in Logs |-> [lost |-> 0, samples |-> <<>>]]
  /\ replay = NoReplay

BridgeNext ==
  \/ Starts \/ Dies \/ PortCloses \/ PortReopens
  \/ \E line \in Lines : HandleLine(line)
  \/ \E body \in inflight : PostEnds(body)
  \/ ReplayStarts
  \/ \E body \in replay.left, fails \in BOOLEAN : ReplayPosts(body, fails)

BridgeSpec == BridgeInit /\ [][BridgeNext]_bridgeVars

-----------------------------------------------------------------------------
(* Properties *)

\* No reading is stored, and none reaches the server, that its node did not
\* measure: a frame damaged on the serial line or before it, or one of another
\* node, is kept out by the CRC, the payload root and the owner (bridge.ts:187-194).
StoredWasSent ==
  /\ \A i \in DOMAIN OnFile : OnFile[i].kind = "sample" => OnFile[i].value # Noise
  /\ \A l \in Logs : \A s \in DOMAIN server[l].samples : server[l].samples[s] # Noise

\* The server never holds a sample the bridge's file does not, nor another
\* value of it, whatever POSTs were lost, repeated by a replay, or overtaken.
ServerWithinFile ==
  \A l \in Logs : \A s \in DOMAIN server[l].samples :
    \E i \in Of(OnFile, "sample", l) :
      OnFile[i].seq = s /\ OnFile[i].value = server[l].samples[s]

\* A replay whose every POST was answered has left the server with all the file
\* held when it was read: the way back after the server was down.
ReplayFills ==
  replay.left = {} /\ ~replay.failed =>
    \A l \in Logs :
      /\ SeqsOf(replay.file, "sample", l) \subseteq DOMAIN server[l].samples
      /\ SeqsOf(replay.file, "sample", l) # {} => server[l].lost >= LossMax(replay.file, l)

\* The server never holds what the file does not, and after a replay it holds all
\* that the file did.
ServerFollowsFile == ServerWithinFile /\ ReplayFills

=============================================================================
