----------------------------- MODULE MeteredLamp -----------------------------
(***************************************************************************)
(* A board that sells light (examples/mesh_demo/main/main.c): the channel,  *)
(* the meter (cell-mesh-zig/src/cell_meter.zig) and the LED.  Channel cells *)
(* are handled on the Wi-Fi task; expiry, metering and the LED belong to    *)
(* the main loop.  The board has one core and the Wi-Fi task preempts the   *)
(* loop, so a handler is one step and a pass of the loop is several.        *)
(*                                                                          *)
(* Cells arrive with any content a signed cell may have.  The rate is       *)
(* Rate milli-sats per Kilo milliseconds, a sat is Kilo milli-sats: Kilo is *)
(* 1000 in the code.  Amounts and times of the model stay far below the     *)
(* widths of the code (u32 sats, u64 milli-sats), where sums saturate.      *)
(***************************************************************************)
EXTENDS CellChannel

CONSTANTS
  Ids,           \* channel ids
  Capacities,    \* total_capacity of an open
  Expiries,      \* expiry_ms of a commitment, counted from the open
  Rate,          \* CM_METER_RATE_MSAT_PER_SEC
  Kilo,          \* milliseconds in a second, milli-sats in a sat
  Tolerance,     \* CM_METER_TOLERANCE_SATS
  MaxCommits,    \* bound: the highest seq of a commitment
  MaxShare,      \* bound: the highest share of a commitment
  MaxNow,        \* bound: where the clock stops
  VerifyTime,    \* scheduling: the longest time a cell's signature check takes
  LoopPeriod,    \* scheduling: the longest time between two looks of the loop
  CellsPerPass   \* scheduling: the most cells handled during one pass

ASSUME LampAssumption ==
  /\ NoId \notin Ids
  /\ Capacities \subseteq Nat
  /\ Expiries \subseteq Nat
  /\ Rate \in Nat
  /\ Kilo \in Nat \ {0}
  /\ Tolerance \in Nat
  /\ MaxCommits \in Nat
  /\ MaxShare \in Nat
  /\ MaxNow \in Nat
  /\ VerifyTime \in Nat
  /\ LoopPeriod \in Nat
  /\ CellsPerPass \in Nat

VARIABLES
  now,       \* esp_log_timestamp()
  channel,   \* s_channel
  base,      \* s_channel_base_ms
  meter,     \* s_meter
  led,       \* is the LED on
  loop,      \* where the main loop is, and its locals
  cells,     \* cells handled since the loop last looked
  served,    \* history: light given in this channel, in msat / Kilo
  ticks      \* history: ticks the loop has billed in this channel

lampVars == <<now, channel, base, meter, led, loop, cells, served, ticks>>

Opens == [id: Ids, capacity: Capacities]
Commitments == [id: Ids, seq: 0..MaxCommits, deviceShare: 0..MaxShare,
                userShare: 0..MaxShare, expiry: Expiries]
Closes == [id: Ids, seq: 0..MaxCommits, deviceShare: 0..MaxShare]

-----------------------------------------------------------------------------
(* The meter *)

MeterInit == [accrued |-> 0, lastTick |-> 0, running |-> FALSE]

MeterStart(m, t) ==
  IF m.running THEN m ELSE [m EXCEPT !.running = TRUE, !.lastTick = t]

\* The division drops what is left of a milli-sat, at every tick.
MeterTick(m, t) ==
  IF ~m.running \/ t <= m.lastTick THEN m
  ELSE [m EXCEPT !.accrued = @ + (Rate * (t - m.lastTick)) \div Kilo, !.lastTick = t]

MeterStop(m, t) == [MeterTick(m, t) EXCEPT !.running = FALSE]

ConsumedSats(m) == m.accrued \div Kilo

Authorized(m, paid) == ConsumedSats(m) <= paid + Tolerance

-----------------------------------------------------------------------------
(* The Wi-Fi task: on_radio_recv.  A handler uses the time `at` its frame came *)
(* in, up to VerifyTime before it acts; the task handles one cell at a time,   *)
(* so a later cell's frame comes in after the open of the channel did.         *)

Handles(at) ==
  /\ cells < CellsPerPass /\ cells' = cells + 1
  /\ at \in base..now /\ now - at <= VerifyTime

RxOpen(op, at) ==
  /\ Handles(at)
  /\ channel' = ApplyOpen(channel, op)
  /\ IF AcceptsOpen(channel)
       THEN base' = at /\ meter' = MeterInit /\ served' = 0 /\ ticks' = 0
       ELSE UNCHANGED <<base, meter, served, ticks>>
  /\ UNCHANGED <<now, led, loop>>

RxCommitment(cm, at) ==
  /\ Handles(at)
  /\ channel' = ApplyCommitment(channel, cm, at - base)
  /\ meter' = IF AcceptsCommitment(channel, cm, at - base) THEN MeterStart(meter, at) ELSE meter
  /\ UNCHANGED <<now, base, led, loop, served, ticks>>

\* Faulty variant: the meter runs on after the close.
CloseKeepsMetering(cl, at) ==
  /\ Handles(at)
  /\ channel' = ApplyClose(channel, cl)
  /\ UNCHANGED <<now, base, meter, led, loop, served, ticks>>

RxClose(cl, at) ==
  /\ Handles(at)
  /\ channel' = ApplyClose(channel, cl)
  /\ meter' = IF AcceptsClose(channel, cl) THEN MeterStop(meter, at) ELSE meter
  /\ UNCHANGED <<now, base, led, loop, served, ticks>>

-----------------------------------------------------------------------------
(* The main loop *)

\* The pass begins: channel work only if the channel is ACTIVE.  What of the
\* loop does not touch the channel is not modelled.
LoopLooks ==
  /\ loop.at = "look"
  /\ loop' = IF channel.state = "ACTIVE"
               THEN [at |-> "expiry", time |-> now, authorized |-> TRUE]
               ELSE [at |-> "drive", time |-> now, authorized |-> TRUE]
  /\ cells' = 0
  /\ UNCHANGED <<now, channel, base, meter, led, served, ticks>>

\* relative_now is clamped at 0: a new open may have moved base meanwhile.
LoopTicksExpiry ==
  /\ loop.at = "expiry"
  /\ LET relative == IF loop.time > base THEN loop.time - base ELSE 0
     IN channel' = TickExpiry(channel, relative)
  /\ loop' = [loop EXCEPT !.at = IF channel'.state = "EXPIRED" THEN "stop" ELSE "drain"]
  /\ UNCHANGED <<now, base, meter, led, cells, served, ticks>>

LoopStopsMeter ==
  /\ loop.at = "stop"
  /\ meter' = MeterStop(meter, loop.time)
  /\ loop' = [loop EXCEPT !.at = "drive"]
  /\ UNCHANGED <<now, channel, base, led, cells, served, ticks>>

\* s_meter_cut only decides what is logged.
LoopDrains ==
  /\ loop.at = "drain"
  /\ meter' = MeterTick(meter, loop.time)
  /\ loop' = [loop EXCEPT !.at = "drive", !.authorized = Authorized(meter', channel.deviceShare)]
  /\ ticks' = IF meter' = meter THEN ticks ELSE ticks + 1
  /\ UNCHANGED <<now, channel, base, led, cells, served>>

\* Faulty variant: the LED follows the channel alone.
DrivesUnmetered ==
  /\ loop.at = "drive"
  /\ led' = (channel.state = "ACTIVE")
  /\ loop' = [loop EXCEPT !.at = "look"]
  /\ UNCHANGED <<now, channel, base, meter, cells, served, ticks>>

\* The two other reasons for the LED to be on, a paid activation and a blink,
\* are separate products and are left out.
LoopDrives ==
  /\ loop.at = "drive"
  /\ led' = (channel.state = "ACTIVE" /\ loop.authorized)
  /\ loop' = [loop EXCEPT !.at = "look"]
  /\ UNCHANGED <<now, channel, base, meter, cells, served, ticks>>

-----------------------------------------------------------------------------

\* The millisecond clock.  The loop looks again within LoopPeriod.
Tick ==
  /\ now < MaxNow
  /\ now - loop.time < LoopPeriod
  /\ now' = now + 1
  /\ served' = IF led /\ channel.state = "ACTIVE" THEN served + Rate ELSE served
  /\ UNCHANGED <<channel, base, meter, led, loop, cells, ticks>>

Reboot ==
  /\ now' = 0
  /\ channel' = ChannelInit
  /\ base' = 0
  /\ meter' = MeterInit
  /\ led' = FALSE
  /\ loop' = [at |-> "look", time |-> 0, authorized |-> TRUE]
  /\ cells' = 0
  /\ served' = 0
  /\ ticks' = 0

LampInit ==
  /\ now = 0
  /\ channel = ChannelInit
  /\ base = 0
  /\ meter = MeterInit
  /\ led = FALSE
  /\ loop = [at |-> "look", time |-> 0, authorized |-> TRUE]
  /\ cells = 0
  /\ served = 0
  /\ ticks = 0

LampNext ==
  \/ \E at \in 0..now :
       \/ \E op \in Opens : RxOpen(op, at)
       \/ \E cm \in Commitments : RxCommitment(cm, at)
       \/ \E cl \in Closes : RxClose(cl, at)
  \/ LoopLooks
  \/ LoopTicksExpiry
  \/ LoopStopsMeter
  \/ LoopDrains
  \/ LoopDrives
  \/ Tick
  \/ Reboot

LampSpec == LampInit /\ [][LampNext]_lampVars

-----------------------------------------------------------------------------
(* Properties *)

\* The board's state keeps its type.
TypeOK ==
  /\ now \in Nat
  /\ channel \in Channels(Ids, Nat, Nat, Nat)
  /\ base \in Nat
  /\ meter \in [accrued: Nat, lastTick: Nat, running: BOOLEAN]
  /\ led \in BOOLEAN
  /\ loop \in [at: {"look", "expiry", "stop", "drain", "drive"}, time: Nat, authorized: BOOLEAN]
  /\ cells \in Nat
  /\ served \in Nat
  /\ ticks \in Nat

\* The meter runs exactly while the channel is ACTIVE, except between the two
\* steps with which the loop expires it: no light without metering, and no
\* metering without light to sell (main.c:1655, :1675, :3046).
MeterFollowsChannel ==
  /\ channel.state = "ACTIVE" => meter.running
  /\ meter.running => channel.state = "ACTIVE" \/ (channel.state = "EXPIRED" /\ loop.at = "stop")

\* What the board has accepted is always backed: the shares fit the capacity
\* of the open, and an ACTIVE channel has a commitment.
SharesFitCapacity ==
  /\ channel.deviceShare + channel.userShare <= channel.capacity
  /\ channel.state = "OPEN" => channel.seq = 0 /\ channel.deviceShare = 0

\* The most a tick drops, in msat / Kilo.
TickLoss == IF Rate % Kilo = 0 THEN 0 ELSE Kilo - 1

\* The light given in a channel is never worth more than what was paid, the
\* tolerance, the sat under way, the light of two passes of the loop and what its
\* ticks have dropped of a milli-sat: the board decides by itself when the light
\* goes out (cell_meter.h: the tolerance "bounds how much unpaid service the device
\* will float"), and a tick costs the seller less than a milli-sat and no more.
LightIsPaidFor ==
  served < (channel.deviceShare + Tolerance + 1) * Kilo * Kilo + 2 * LoopPeriod * Rate
             + ticks * TickLoss

\* Nobody is billed for more than the time since the open: time the meter was
\* stopped is never billed (cell_meter.h), whatever times the loop passes in.
BilledAtMostElapsed == meter.accrued * Kilo <= Rate * (now - base)

\* Within a channel the share and the seq only grow; they fall only when the
\* board takes a new open or reboots.
CommitmentsOnlyGrow ==
  [][channel'.id = channel.id /\ channel'.state \in {"ACTIVE", "EXPIRED"}
       => /\ channel'.seq >= channel.seq
          /\ channel'.deviceShare >= channel.deviceShare]_lampVars

-----------------------------------------------------------------------------
(* The inductive invariant *)

\* Between the two steps of an expiry the channel is EXPIRED, or a close came.
ExpiryUnderway ==
  loop.at = "stop" => \/ channel.state = "EXPIRED"
                      \/ channel.state = "CLOSED" /\ cells >= 1

\* Every time the board remembers is past, and a running meter started after
\* the open.
ClockOrder ==
  /\ base <= now
  /\ loop.time <= now
  /\ meter.lastTick <= now
  /\ meter.running => base <= meter.lastTick

\* The bill covers the time up to the meter's last tick while it runs, the
\* time up to now once it has stopped; a channel without a commitment has none.
BillCoversTime ==
  /\ channel.state = "OPEN" => meter.accrued = 0
  /\ meter.running => meter.accrued * Kilo <= Rate * (meter.lastTick - base)
  /\ ~meter.running => meter.accrued * Kilo <= Rate * (now - base)

\* The inductive invariant of a board that handles at most one cell a pass.
LampInv ==
  /\ TypeOK
  /\ MeterFollowsChannel
  /\ SharesFitCapacity
  /\ ExpiryUnderway
  /\ ClockOrder
  /\ BillCoversTime

=============================================================================
