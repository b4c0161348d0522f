----------------------------- MODULE TempLogNode -----------------------------
(***************************************************************************)
(* The reading log of one temperature-logger node: the ring of records in  *)
(* the `templog` flash partition, the values kept in NVS, and the          *)
(* bookkeeping in RAM that is rebuilt from both at every boot.             *)
(*                                                                         *)
(*   cell_templog.zig   the pure core (window arithmetic, recovery, batch) *)
(*   tlog_store.c       flash and NVS I/O around it                        *)
(*   main.c             take_sample, send_batch, handle_ack                *)
(*                                                                         *)
(* A record stands for (uptime, temperature, flags) by its boot id: within *)
(* one log a sequence number can only be given out twice by two different  *)
(* boots, so <<seq, boot>> names a reading.  CRCs are abstract: a slot is  *)
(* erased, torn (anything that does not decode), or holds a record.        *)
(* The power may be cut between any two flash or NVS operations, and in    *)
(* the middle of a flash erase or write.                                   *)
(***************************************************************************)
EXTENDS Integers

CONSTANTS
  RecordsPerSector, \* CM_TLOG_RECORDS_PER_SECTOR, 256 on the device
  Capacity,         \* slots of the ring, as usableCapacity leaves it
  MaxU32,           \* 2^32 - 1 on the device: the seq that is never given out
  MaxBatch,         \* batch_max_samples
  MaxBoots,         \* bound: how often the node is powered up
  MaxLogs,          \* bound: how many log ids are drawn
  FlashFaults,      \* which esp_partition calls may fail, of {"erase", "write"}
  NvsFaults         \* which NVS keys may fail to be written

ASSUME GeometryAssumption ==
  /\ RecordsPerSector \in Nat \ {0}
  /\ Capacity \in Nat
  /\ Capacity % RecordsPerSector = 0
  /\ Capacity >= 2 * RecordsPerSector

ASSUME LimitsAssumption ==
  /\ MaxU32 \in Nat \ {0}
  /\ MaxBatch \in Nat \ {0}
  /\ MaxBoots \in Nat
  /\ MaxLogs \in Nat

ASSUME FaultsAssumption ==
  /\ FlashFaults \subseteq {"erase", "write"}
  /\ NvsFaults \subseteq {"boot", "log_id", "acked"}

VARIABLES
  flash,   \* the data partition: slot -> contents
  nvs,     \* the `templog` NVS namespace
  up,      \* is the node powered and past tlog_store_init
  ram,     \* tlog_store_t: the log window, this boot's id, the log's id
  drawn,   \* how many log ids esp_random has supplied
  issued,  \* history: the highest seq an append has returned in this log
  failed   \* history: has a flash call returned an error

nodeVars == <<flash, nvs, up, ram, drawn, issued, failed>>

-----------------------------------------------------------------------------
(* Flash slots *)

Slots == 0..(Capacity - 1)

Erased == [st |-> "erased", seq |-> 0, boot |-> 0]
Torn   == [st |-> "torn", seq |-> 0, boot |-> 0]
Record(s, b) == [st |-> "record", seq |-> s, boot |-> b]

Contents == [st : {"erased", "torn", "record"}, seq : Nat, boot : Nat]

Decodes(c) == c.st = "record"
IsErased(c) == c.st = "erased"

-----------------------------------------------------------------------------
(* Ring geometry *)

SlotForSeq(s) == (s - 1) % Capacity

EraseBeforeWrite(s) == SlotForSeq(s) % RecordsPerSector = 0

\* The slots of the sector that starts at the slot of seq s.
SectorAt(s) == SlotForSeq(s)..(SlotForSeq(s) + RecordsPerSector - 1)

EraseSector(f, s) == [i \in Slots |-> IF i \in SectorAt(s) THEN Erased ELSE f[i]]

\* The partition once tlog_store_append has erased the sector that s opens.
Prepared(f, s) == IF EraseBeforeWrite(s) THEN EraseSector(f, s) ELSE f

\* NOR flash: programming a slot that is not erased mangles it.
Program(f, s, c) ==
  [f EXCEPT ![SlotForSeq(s)] = IF IsErased(@) THEN c ELSE Torn]

-----------------------------------------------------------------------------
(* The window.  `w` is the part of cm_tlog_t that outlives a call. *)

OffWindow == [next |-> 1, oldest |-> 1, acked |-> 0, boot |-> 0, log |-> 0]

Least(a, b) == IF a <= b THEN a ELSE b
Greatest(a, b) == IF a >= b THEN a ELSE b

\* Faulty variant: the oldest seq is not raised.
ReserveKeepsOldest(w) == [w EXCEPT !.next = w.next + 1]

\* cm_tlog_append, where it does not refuse.
Reserve(w) ==
  LET lap == Capacity - RecordsPerSector IN
  [w EXCEPT
     !.next = w.next + 1,
     !.oldest = IF EraseBeforeWrite(w.next) /\ w.next > lap
                THEN Greatest(w.oldest, w.next - lap)
                ELSE w.oldest]

ApplyAck(w, a) == [w EXCEPT !.acked = Least(a, w.next - 1)]

PendingFirst(w) == Greatest(w.acked + 1, w.oldest)
Pending(w) == IF w.next > PendingFirst(w) THEN w.next - PendingFirst(w) ELSE 0

\* Faulty variant: a loss is never reported.
LostNothing(w) == 0

LostThrough(w) == IF w.acked + 1 < w.oldest THEN w.oldest - 1 ELSE 0

-----------------------------------------------------------------------------
(* Recovery *)

\* The records that cm_tlog_recover_feed believes.
Believed(f) == {f[i].seq : i \in {j \in Slots : Decodes(f[j]) /\ SlotForSeq(f[j].seq) = j}}

Found(f) == \E i \in Slots : Decodes(f[i])

\* Faulty variant: half-written slots are not burned.
BurnNothing(f, n) == TRUE

\* Where the loop that burns half-written slots stops.
BurnStops(f, n) == EraseBeforeWrite(n) \/ IsErased(f[SlotForSeq(n)])

\* rec_max and rec_min: 0 while no record has been believed.
IsRecMax(f, hi) == hi \in Believed(f) \union {0} /\ \A s \in Believed(f) : s <= hi
IsRecMin(f, lo) ==
  IF Believed(f) = {} THEN lo = 0 ELSE lo \in Believed(f) /\ \A s \in Believed(f) : lo <= s

\* Faulty variant: next_seq is the newest record's own seq.
RecoverAtNewest(lo, hi, acked, b, l) ==
  [next |-> IF hi = 0 THEN 1 ELSE hi, oldest |-> IF hi = 0 THEN 1 ELSE lo,
   acked |-> Least(acked, hi), boot |-> b, log |-> l]

\* cm_tlog_recover_finish.  tlog_store_init passes it a floor of 0.
RecoverFinish(lo, hi, acked, b, l) ==
  [next   |-> hi + 1,
   oldest |-> IF hi = 0 THEN 1 ELSE lo,
   acked  |-> Least(acked, hi),
   boot   |-> b,
   log    |-> l]

\* The burn loop: skip seqs from n on, up to the first slot that can be written.
IsBurnedTo(f, n, m) ==
  /\ BurnStops(f, m)
  /\ \A k \in n..(m - 1) : ~BurnStops(f, k)

\* fresh_log_id: esp_random, until it is not 0.  A draw is taken to be new.
FreshLogId == drawn + 1

\* nvs_put_u32: a failed write is only logged.
NvsPut(key, old, new) == {new} \union (IF key \in NvsFaults THEN {old} ELSE {})

-----------------------------------------------------------------------------
(* The batch send_batch builds *)

\* tlog_store_read
Readable(f, w, s) ==
  LET c == f[SlotForSeq(s)] IN
  w.oldest <= s /\ s < w.next /\ Decodes(c) /\ c.seq = s

BootAt(f, s) == f[SlotForSeq(s)].boot

HeaderBoot(f, w) ==
  IF Readable(f, w, PendingFirst(w)) THEN BootAt(f, PendingFirst(w)) ELSE w.boot

\* Faulty variant: a batch takes records of any boot.
FitsAnyBoot(f, w, s) == TRUE

\* cm_tlog_batch_add refuses another boot's record; a placeholder always fits.
FitsBoot(f, w, s) == Readable(f, w, s) => BootAt(f, s) = HeaderBoot(f, w)

BatchSeqs(f, w) ==
  {s \in PendingFirst(w)..Least(w.next - 1, PendingFirst(w) + MaxBatch - 1) :
     \A k \in PendingFirst(w)..s : FitsBoot(f, w, k)}

\* What a sample carries: the header's boot, which the host takes for the boot
\* of the reading, or 0 for a placeholder that is flagged RECORD_LOST because its
\* record could not be read.
RecordLost == 0

Batch(f, w) ==
  [log     |-> w.log,
   first   |-> PendingFirst(w),
   boot    |-> HeaderBoot(f, w),
   bootNow |-> w.boot,
   lost    |-> LostThrough(w),
   samples |-> [s \in BatchSeqs(f, w) |->
                  IF Readable(f, w, s) THEN HeaderBoot(f, w) ELSE RecordLost]]

-----------------------------------------------------------------------------
(* Actions *)

NodeInit ==
  /\ flash = [i \in Slots |-> Erased]
  /\ nvs = [boot |-> 0, log |-> 0, acked |-> 0]
  /\ up = FALSE
  /\ ram = OffWindow
  /\ drawn = 0
  /\ issued = 0
  /\ failed = FALSE

\* take_sample through tlog_store_append: reserve the seq, erase the sector it
\* opens, write the record.
TakeSample ==
  /\ up
  /\ ram.next < MaxU32
  /\ ram' = Reserve(ram)
  /\ issued' = ram.next
  /\ flash' = Program(Prepared(flash, ram.next), ram.next, Record(ram.next, ram.boot))
  /\ UNCHANGED <<nvs, up, drawn, failed>>

\* The same when the erase or the write fails, which is only logged: after a
\* failed erase the record is written over what was there, and a failed write
\* leaves the slot as it was or half programmed.
AppendFails ==
  /\ up
  /\ ram.next < MaxU32
  /\ ram' = Reserve(ram)
  /\ issued' = ram.next
  /\ failed' = TRUE
  /\ flash' \in
       (IF "erase" \in FlashFaults /\ EraseBeforeWrite(ram.next)
        THEN {Program(flash, ram.next, Record(ram.next, ram.boot))} ELSE {})
       \union
       (IF "write" \in FlashFaults
        THEN UNION {{f, Program(f, ram.next, Torn)} :
                      f \in {Prepared(flash, ram.next)}
                            \union (IF "erase" \in FlashFaults THEN {flash} ELSE {})}
        ELSE {})
  /\ UNCHANGED <<nvs, up, drawn>>

\* handle_ack through tlog_store_set_acked.  The pointer is set, not raised.
HandleAck(a) ==
  /\ up
  /\ ram' = ApplyAck(ram, a)
  /\ nvs' \in IF ram'.acked = ram.acked THEN {nvs}
              ELSE {[nvs EXCEPT !.acked = v] : v \in NvsPut("acked", nvs.acked, ram'.acked)}
  /\ UNCHANGED <<flash, up, drawn, issued, failed>>

\* Here and below, the power goes only while MaxBoots leaves a boot to come.
PowerCut ==
  /\ up
  /\ nvs.boot < MaxBoots
  /\ up' = FALSE
  /\ ram' = OffWindow
  /\ UNCHANGED <<flash, nvs, drawn, issued, failed>>

\* The power goes in the middle of tlog_store_append: while the sector is being
\* erased, or after the erase while the record is being written.
PowerCutInAppend ==
  /\ up
  /\ nvs.boot < MaxBoots
  /\ ram.next < MaxU32
  /\ up' = FALSE
  /\ ram' = OffWindow
  /\ \/ /\ EraseBeforeWrite(ram.next)
        /\ \E part \in [SectorAt(ram.next) -> {"old", "erased", "torn"}] :
             flash' = [i \in Slots |->
                         IF i \notin SectorAt(ram.next) \/ part[i] = "old" THEN flash[i]
                         ELSE IF part[i] = "erased" THEN Erased ELSE Torn]
     \/ LET f == Prepared(flash, ram.next) IN flash' \in {f, Program(f, ram.next, Torn)}
  /\ UNCHANGED <<nvs, drawn, issued, failed>>

\* tlog_store_init: a new boot id, then the window rebuilt from flash.  When
\* nothing decodes, a new log is started under a fresh id.
Boot ==
  /\ ~up
  /\ nvs.boot < MaxBoots
  /\ up' = TRUE
  /\ \E lo, hi \in Believed(flash) \union {0} :
       /\ IsRecMin(flash, lo) /\ IsRecMax(flash, hi)
       /\ LET fresh == ~Found(flash)
              w == RecoverFinish(lo, hi, IF fresh THEN 0 ELSE nvs.acked, nvs.boot + 1,
                                 IF fresh THEN FreshLogId ELSE nvs.log)
          IN /\ fresh => drawn < MaxLogs
             /\ drawn' = IF fresh THEN drawn + 1 ELSE drawn
             /\ \E m \in w.next..MaxU32 :
                  IsBurnedTo(flash, w.next, m) /\ ram' = [w EXCEPT !.next = m]
             /\ \E b \in NvsPut("boot", nvs.boot, nvs.boot + 1),
                   l \in NvsPut("log_id", nvs.log, w.log),
                   a \in NvsPut("acked", nvs.acked, 0) :
                  nvs' = IF fresh THEN [boot |-> b, log |-> l, acked |-> a]
                         ELSE [nvs EXCEPT !.boot = b]
  /\ UNCHANGED <<flash, issued, failed>>

\* The power goes in tlog_store_init between two NVS writes.
PowerCutInBoot ==
  /\ ~up
  /\ nvs.boot + 1 < MaxBoots
  /\ \/ /\ nvs' = [nvs EXCEPT !.boot = nvs.boot + 1]
        /\ UNCHANGED drawn
     \/ /\ ~Found(flash)
        /\ drawn < MaxLogs
        /\ nvs' = [nvs EXCEPT !.boot = nvs.boot + 1, !.log = FreshLogId]
        /\ drawn' = drawn + 1
  /\ UNCHANGED <<flash, up, ram, issued, failed>>

\* The data partition is erased while NVS survives (the device is reflashed);
\* bounded by MaxLogs, since the next boot draws a log id.
Wipe ==
  /\ ~up
  /\ drawn < MaxLogs
  /\ flash # [i \in Slots |-> Erased]
  /\ flash' = [i \in Slots |-> Erased]
  /\ issued' = 0
  /\ UNCHANGED <<nvs, up, ram, drawn, failed>>

NodeNext ==
  \/ TakeSample
  \/ AppendFails
  \/ \E a \in 0..MaxU32 : HandleAck(a)
  \/ PowerCut
  \/ PowerCutInAppend
  \/ Boot
  \/ PowerCutInBoot
  \/ Wipe

NodeSpec == NodeInit /\ [][NodeNext]_nodeVars

-----------------------------------------------------------------------------
(* Properties *)

\* The shape of the node's state.
NodeTypeOK ==
  /\ flash \in [Slots -> Contents]
  /\ nvs \in [boot : Nat, log : Nat, acked : Nat]
  /\ up \in BOOLEAN
  /\ ram \in [next : 1..MaxU32, oldest : 1..MaxU32, acked : Nat, boot : Nat, log : Nat]
  /\ drawn \in Nat
  /\ issued \in Nat
  /\ failed \in BOOLEAN

\* The window kept in RAM never spans more seqs than the ring has slots, so two
\* seqs the node would still send never share a slot; and the delivery pointer
\* stays below next_seq, so `next_seq - 1` and the pending count cannot wrap.
RingWindow ==
  up => /\ ram.oldest <= ram.next
        /\ ram.next - ram.oldest <= Capacity
        /\ ram.acked < ram.next

\* Every record in flash lies in the window: recovery and the lap arithmetic of
\* cm_tlog_append never leave behind a readable record the node will not send,
\* so lost_through only ever names readings that are gone.
NothingOrphaned ==
  up => \A i \in Slots : Decodes(flash[i]) =>
          /\ SlotForSeq(flash[i].seq) = i
          /\ ram.oldest <= flash[i].seq /\ flash[i].seq < ram.next

\* Both together: what the node would send is exactly what the ring can hold and
\* does hold, after any laps, cuts and recoveries.
WindowIsTheRing == RingWindow /\ NothingOrphaned

\* A record leaves the ring only by being lapped: at the least the newest
\* Capacity - RecordsPerSector seqs survive any append, whether it completes or
\* the power is cut in the middle of its erase.
OnlyLappedRecordsLeave ==
  [][up => \A i \in Slots :
       Decodes(flash[i]) /\ flash'[i] # flash[i]
         => flash[i].seq <= ram.next - 1 - (Capacity - RecordsPerSector)]_nodeVars

\* A seq that an append returned is never handed out again in the same log,
\* whatever the boots, power cuts and burned slots in between: "a failed write
\* still consumes the seq".
NeverReissued == up => issued < ram.next

\* The same for as long as the flash calls have worked.
NeverReissuedBySoundFlash == ~failed => NeverReissued

\* The last reading appended before a power cut is readable after the next boot,
\* if the flash calls have worked.
NewestSurvives == ~failed /\ up /\ issued > 0 => Readable(flash, ram, issued)

-----------------------------------------------------------------------------
(* What makes NeverReissued, RingWindow and NothingOrphaned inductive for   *)
(* as long as no flash call has failed.                                     *)

\* No seq of the interval opens a sector.
SameSector(lo, hi) == \A q \in lo..hi : ~EraseBeforeWrite(q)

RecordsInPlace ==
  \A i \in Slots : Decodes(flash[i]) =>
    flash[i].seq \in 1..issued /\ SlotForSeq(flash[i].seq) = i

NewestHeld ==
  issued > 0 => LET c == flash[SlotForSeq(issued)] IN Decodes(c) /\ c.seq = issued

\* Opening a sector retires the records one lap back.
SectorsRetired ==
  \A i \in Slots : Decodes(flash[i]) =>
    \A q \in 1..issued : EraseBeforeWrite(q) =>
      flash[i].seq >= q + RecordsPerSector - Capacity

\* Past the newest record its sector is some torn slots, then erased ones.
TailErased ==
  \A k, l \in (issued + 1)..(issued + RecordsPerSector) :
    k < l /\ SameSector(issued + 1, l) /\ IsErased(flash[SlotForSeq(k)])
      => IsErased(flash[SlotForSeq(l)])

WindowInv ==
  up => /\ issued < ram.next
        /\ IsBurnedTo(flash, issued + 1, ram.next)
        /\ ram.oldest <= ram.next
        /\ ram.acked < ram.next
        /\ \A i \in Slots : Decodes(flash[i]) => ram.oldest <= flash[i].seq
        /\ \A q \in 1..(ram.next - 1) : EraseBeforeWrite(q) =>
             ram.oldest >= q + RecordsPerSector - Capacity

NodeIInv ==
  /\ NodeTypeOK
  /\ issued < MaxU32
  /\ RecordsInPlace
  /\ NewestHeld
  /\ SectorsRetired
  /\ TailErased
  /\ WindowInv

\* Until a flash call fails, every reachable state, with the power on or off, has
\* the shape tlog_store_init relies on to rebuild the window.
SoundFlashIInv == ~failed => NodeIInv

=============================================================================
