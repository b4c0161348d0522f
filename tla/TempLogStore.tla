---------------------------- MODULE TempLogStore ----------------------------
(***************************************************************************)
(* The bridge's store (tools/templog-bridge/store.ts): for each node log it *)
(* keeps `through`, the point it may acknowledge, and the seqs it holds; a  *)
(* JSON-lines journal is written before an ack is returned and is read back *)
(* at start-up to rebuild both.                                             *)
(*                                                                          *)
(* The journal is the sequence of its whole lines, without those that do    *)
(* not parse (rebuild skips them), and a `tail`: what follows the last      *)
(* newline.  A tail is a fragment, or a whole record that lacks its newline *)
(* (readable at start-up, unreadable once more text follows it).  A write   *)
(* may stop at any byte, because the process dies or because writeSync      *)
(* fails (a full disk); text that is on the file stays there.               *)
(*                                                                          *)
(* Of a sample only its seq and a value are kept.  A log stands for the key *)
(* (mac, log_id).  LogState.maxSeq feeds a status line only and is left out.*)
(***************************************************************************)
EXTENDS Integers, Sequences, FiniteSets, FiniteSetsExt, SequencesExt

CONSTANTS
  Logs,          \* the keys (mac, log_id) a batch may carry
  Values,        \* what a sample may carry
  MaxSeq,        \* bound: the highest seq of a batch
  MaxSamples,    \* batch_max_samples
  MaxLines       \* bound: whole lines the journal grows to

ASSUME StoreAssumption ==
  /\ MaxSeq \in Nat
  /\ MaxSamples \in Nat \ {0}
  /\ MaxLines \in Nat

VARIABLES
  lines,     \* the journal's readable lines
  tail,      \* what follows the journal's last newline
  running,   \* is the bridge process up
  logs,      \* TempLogStore.logs: log -> [through, seen]
  promised   \* history: the highest ack returned for each log

storeVars == <<lines, tail, running, logs, promised>>

-----------------------------------------------------------------------------
(* Journal lines *)

Start(l, first) == [kind |-> "start", log |-> l, seq |-> first]
Loss(l, from, last) == [kind |-> "loss", log |-> l, seq |-> last, from |-> from]

Sample(l, s, v) == [kind |-> "sample", log |-> l, seq |-> s, value |-> v]

\* fromSeq of a loss that began before the bridge first saw the log.
Unknown == 0

NoTail == [kind |-> "none"]
Fragment == [kind |-> "fragment"]
IsRecord(t) == t.kind \in {"start", "loss", "sample"}

\* What is on the file after `recs` is written behind the tail t: the first
\* record shares its line with the tail, and that line no longer parses.
Behind(t, recs) == IF t = NoTail \/ recs = <<>> THEN recs ELSE Tail(recs)

\* What the next start-up reads.
OnFile == IF IsRecord(tail) THEN Append(lines, tail) ELSE lines

-----------------------------------------------------------------------------
(* rebuild *)

Of(j, kind, l) == {i \in DOMAIN j : j[i].kind = kind /\ j[i].log = l}

SeqsOf(j, kind, l) == {j[i].seq : i \in Of(j, kind, l)}

\* Faulty variant: rebuild ignores losses.
LossMaxIgnored(j, l) == 0

LossMax(j, l) == Max({0} \union SeqsOf(j, "loss", l))

StartOf(j, l) ==
  IF Of(j, "start", l) # {} THEN Max({j[Min(Of(j, "start", l))].seq - 1, 0})
  ELSE IF Of(j, "sample", l) # {} THEN j[Min(Of(j, "sample", l))].seq - 1
  ELSE LossMax(j, l)

\* while (seen.has(through + 1)) through++
Advance(seen, t) ==
  CHOOSE m \in t..(t + Cardinality(seen)) : m + 1 \notin seen /\ (t + 1)..m \subseteq seen

Rebuild(j) ==
  [l \in {j[i].log : i \in DOMAIN j} |->
     LET seen == SeqsOf(j, "sample", l) IN
     [through |-> Advance(seen, Max({StartOf(j, l), LossMax(j, l)})), seen |-> seen]]

-----------------------------------------------------------------------------
(* planBatch *)

FirstContact(b) == b.log \notin DOMAIN logs

Joined(b) == IF FirstContact(b) THEN Max({b.first - 1, 0}) ELSE logs[b.log].through

SeenBefore(b) == IF FirstContact(b) THEN {} ELSE logs[b.log].seen

Added(b) == DOMAIN b.samples \ SeenBefore(b)

\* Seqs from the lowest up: the i-th has i - 1 below it.
InOrder(S) == [i \in 1..Cardinality(S) |-> CHOOSE s \in S : Cardinality({r \in S : r < s}) = i - 1]

\* Faulty variant: a loss moves `through` without a record of it.
LossUnrecorded(b) == <<>>

LossRecords(b) ==
  IF b.lost > Joined(b) THEN <<Loss(b.log, Joined(b) + 1, b.lost)>>
  ELSE IF FirstContact(b) /\ b.lost > 0 THEN <<Loss(b.log, Unknown, b.lost)>>
  ELSE <<>>

PlanRecords(b) ==
  (IF FirstContact(b) THEN <<Start(b.log, b.first)>> ELSE <<>>)
  \o LossRecords(b)
  \o [i \in 1..Cardinality(Added(b)) |->
        LET s == InOrder(Added(b))[i] IN Sample(b.log, s, b.samples[s])]

PlanState(b) ==
  LET seen == SeenBefore(b) \union Added(b) IN
  [through |-> Advance(seen, Max({Joined(b), b.lost})), seen |-> seen]

-----------------------------------------------------------------------------
(* Actions *)

StoreInit ==
  /\ lines = <<>>
  /\ tail = NoTail
  /\ running = FALSE
  /\ logs = <<>>
  /\ promised = [l \in Logs |-> 0]

\* TempLogStore.open: the torn last line is given its newline, then rebuild.
Open ==
  /\ ~running
  /\ running' = TRUE
  /\ lines' = OnFile
  /\ tail' = NoTail
  /\ logs' = Rebuild(OnFile)
  /\ UNCHANGED promised

\* Faulty variant: the ack goes out although nothing was written.
IngestUnjournaled(b) ==
  /\ running
  /\ UNCHANGED <<lines, tail, running>>
  /\ logs' = [l \in DOMAIN logs \union {b.log} |-> IF l = b.log THEN PlanState(b) ELSE logs[l]]
  /\ promised' = [promised EXCEPT ![b.log] = Max({@, PlanState(b).through})]

\* ingest, where the journal takes everything: the ack goes out.
Ingest(b) ==
  /\ running
  /\ Len(lines) + Len(PlanRecords(b)) <= MaxLines
  /\ lines' = lines \o Behind(tail, PlanRecords(b))
  /\ tail' = IF PlanRecords(b) = <<>> THEN tail ELSE NoTail
  /\ logs' = [l \in DOMAIN logs \union {b.log} |-> IF l = b.log THEN PlanState(b) ELSE logs[l]]
  /\ promised' = [promised EXCEPT ![b.log] = Max({@, PlanState(b).through})]
  /\ UNCHANGED running

\* A journal write that stops part-way, after k whole lines.
CutShort(b) ==
  /\ PlanRecords(b) # <<>>
  /\ Len(lines) + Len(PlanRecords(b)) <= MaxLines
  /\ \E k \in 0..Len(PlanRecords(b)) :
       LET done == SubSeq(PlanRecords(b), 1, k) IN
       /\ lines' = lines \o Behind(tail, done)
       /\ \/ tail' = IF k = 0 THEN tail ELSE NoTail
          \/ k < Len(PlanRecords(b)) /\ tail' = Fragment
          \/ /\ k < Len(PlanRecords(b))
             /\ tail' = IF k = 0 /\ tail # NoTail THEN Fragment ELSE PlanRecords(b)[k + 1]

\* ingest throws: FileJournal.append failed.  Nothing is committed or acked.
IngestFails(b) ==
  /\ running
  /\ CutShort(b)
  /\ UNCHANGED <<running, logs, promised>>

\* The process dies inside FileJournal.append, or after it and before the ack.
CrashInIngest(b) ==
  /\ running
  /\ CutShort(b)
  /\ running' = FALSE
  /\ logs' = <<>>
  /\ UNCHANGED promised

Crash ==
  /\ running
  /\ running' = FALSE
  /\ logs' = <<>>
  /\ UNCHANGED <<lines, tail, promised>>

\* The batches a node may send: a loss is reported up to the seq before the
\* batch, which is then the oldest record the node has.
BatchesFrom(f, n) == [log : Logs, first : {f}, lost : {0, f - 1}, samples : [f..(f + n - 1) -> Values]]
Batches == UNION {BatchesFrom(f, n) : f \in 1..MaxSeq, n \in 1..MaxSamples}

StoreNext ==
  \/ Open
  \/ Crash
  \/ \E b \in {c \in Batches : \A s \in DOMAIN c.samples : s <= MaxSeq} :
       Ingest(b) \/ CrashInIngest(b)

StoreSpec == StoreInit /\ [][StoreNext]_storeVars

\* The same where a journal write may also fail and leave the process up.
FaultyStoreNext == StoreNext \/ \E b \in Batches : IngestFails(b)

FaultyStoreSpec == StoreInit /\ [][FaultyStoreNext]_storeVars

-----------------------------------------------------------------------------
(* Properties *)

\* The shape of the store's state.
StoreTypeOK ==
  /\ \A i \in DOMAIN lines :
       IsRecord(lines[i]) /\ lines[i].log \in Logs /\ lines[i].seq \in Nat \ {0}
  /\ tail \in {NoTail, Fragment} \/ (IsRecord(tail) /\ tail.log \in Logs /\ tail.seq \in Nat)
  /\ running \in BOOLEAN
  /\ DOMAIN logs \subseteq Logs
  /\ \A l \in DOMAIN logs : logs[l].through \in Nat /\ logs[l].seen \subseteq Nat
  /\ promised \in [Logs -> Nat]

\* What ingest keeps up batch by batch is what rebuild computes from the file:
\* a restart changes nothing, whatever batches, gaps and crashes came before.
RebuildAgrees == running => logs = Rebuild(OnFile)

\* An ack that was returned is still covered by the journal, at every moment
\* and so after any crash: the bridge never asks for less than it promised.
PromiseKept ==
  \A l \in Logs : promised[l] > 0 =>
    l \in DOMAIN Rebuild(OnFile) /\ promised[l] <= Rebuild(OnFile)[l].through

\* Every sample the bridge holds is a whole line of the journal.
HeldIsJournaled ==
  \A l \in DOMAIN logs : logs[l].seen \subseteq SeqsOf(OnFile, "sample", l)

\* Is seq s of log l accounted for on the file j: before the bridge joined the
\* log, held, or inside a loss the node reported?
Accounted(j, l, s) ==
  \/ s <= StartOf(j, l)
  \/ s \in SeqsOf(j, "sample", l)
  \/ \E i \in Of(j, "loss", l) : j[i].from <= s /\ s <= j[i].seq

\* The ack point passes no seq that the journal does not account for.
ThroughIsEarned ==
  \A l \in DOMAIN logs : \A s \in 1..logs[l].through : Accounted(OnFile, l, s)

\* Every sample is on the journal once, so the first value of a seq stands.
HeldOnce ==
  \A l \in Logs : Cardinality(Of(OnFile, "sample", l)) = Cardinality(SeqsOf(OnFile, "sample", l))

=============================================================================
