------------------------- MODULE LampAndBooksProofs -------------------------
(***************************************************************************)
(* Theorems about the two sides of a metered channel: MeteredLamp, the      *)
(* board, for every rate, every bound and every schedule in which a pass of *)
(* the main loop meets at most one cell; and ChannelMeter, the bridge's     *)
(* books, for every set of boards and every bound.                          *)
(***************************************************************************)
EXTENDS MeteredLamp, ChannelMeter, TLAPS


-----------------------------------------------------------------------------
(* The metered board *)

\* A whole quotient times its divisor is at most the dividend.
LEMMA DivBound ==
  ASSUME NEW a \in Nat, NEW k \in Nat \ {0}
  PROVE  a \div k \in Nat /\ (a \div k) * k <= a
<1>1. a = k * (a \div k) + (a % k) /\ a % k \in 0..(k - 1) /\ a \div k \in Int
  OBVIOUS
<1>2. (a \div k) * k = k * (a \div k)
  BY <1>1
<1>3. a \div k \in Nat
  <2>1. SUFFICES ASSUME a \div k <= -1 PROVE FALSE
    BY <1>1
  <2>2. k * (a \div k) <= k * (-1)
    BY <1>1, <2>1
  <2> QED  BY <1>1, <2>2
<1> QED  BY <1>1, <1>2, <1>3

\* Products of a difference.
LEMMA Spread ==
  ASSUME NEW r \in Nat, NEW x \in Int, NEW y \in Int, NEW z \in Int
  PROVE  /\ r * (x - y) + r * (y - z) = r * (x - z)
         /\ x >= y => r * (x - z) >= r * (y - z)
         /\ x >= y => r * (x - y) \in Nat
OBVIOUS

\* The sets the board's records come from.
LampChannels == Channels(Ids, Nat, Nat, Nat)
Loops == [at: {"look", "expiry", "stop", "drain", "drive"}, time: Nat, authorized: BOOLEAN]
Meters == [accrued: Nat, lastTick: Nat, running: BOOLEAN]

\* A tick keeps the meter's type, and bills no more than the time it covers.
LEMMA TickType ==
  ASSUME NEW m \in Meters, NEW t \in Nat
  PROVE  /\ MeterTick(m, t) \in Meters
         /\ MeterTick(m, t).running = m.running
         /\ ~m.running \/ t <= m.lastTick => MeterTick(m, t) = m
         /\ m.running /\ t > m.lastTick =>
              /\ MeterTick(m, t).lastTick = t
              /\ MeterTick(m, t).accrued * Kilo
                   <= m.accrued * Kilo + Rate * (t - m.lastTick)
<1>3. m.running \in BOOLEAN /\ m.lastTick \in Nat
  BY DEF Meters
<1>1. CASE ~m.running \/ t <= m.lastTick
  <2>1. MeterTick(m, t) = m
    BY <1>1 DEF MeterTick
  <2>2. ~(m.running /\ t > m.lastTick)
    BY <1>1, <1>3
  <2> QED  BY <2>1, <2>2
<1>2. CASE m.running /\ t > m.lastTick
  <2> DEFINE due == Rate * (t - m.lastTick)
  <2> DEFINE more == due \div Kilo
  <2>1. m.accrued \in Nat /\ m.lastTick \in Nat /\ m.running \in BOOLEAN
    BY DEF Meters
  <2>2. due \in Nat /\ Kilo \in Nat \ {0}
    BY <1>2, <2>1, LampAssumption, Spread
  <2>3. more \in Nat /\ more * Kilo <= due
    <3> HIDE DEF due
    <3> QED  BY <2>2, DivBound
  <2>4. MeterTick(m, t) = [m EXCEPT !.accrued = @ + more, !.lastTick = t]
    <3>1. ~(~m.running \/ t <= m.lastTick)
      BY <1>2, <2>1
    <3> QED  BY <3>1 DEF MeterTick, more, due
  <2> HIDE DEF more, due
  <2>5. MeterTick(m, t).accrued = m.accrued + more /\ MeterTick(m, t).lastTick = t
        /\ MeterTick(m, t).running = m.running /\ MeterTick(m, t) \in Meters
    <3>1. m.accrued + more \in Nat
      BY <2>1, <2>3
    <3> QED  BY <2>1, <2>4, <3>1 DEF Meters
  <2>6. (m.accrued + more) * Kilo = m.accrued * Kilo + more * Kilo
    BY <2>1, <2>2, <2>3
  <2>7. m.accrued * Kilo \in Nat /\ more * Kilo \in Nat
    BY <2>1, <2>2, <2>3
  <2>8. MeterTick(m, t).accrued * Kilo <= m.accrued * Kilo + due
    BY <2>2, <2>3, <2>5, <2>6, <2>7
  <2>9. ~(~m.running \/ t <= m.lastTick)
    BY <1>2, <2>1
  <2> QED  BY <2>5, <2>8, <2>9 DEF due
<1> QED  BY <1>1, <1>2, <1>3

\* The calls on the channel keep its type.
LEMMA ChannelType ==
  ASSUME NEW c \in LampChannels, NEW t \in Int
  PROVE  /\ \A op \in Opens : ApplyOpen(c, op) \in LampChannels
         /\ \A cm \in Commitments : ApplyCommitment(c, cm, t) \in LampChannels
         /\ \A cl \in Closes : ApplyClose(c, cl) \in LampChannels
         /\ TickExpiry(c, t) \in LampChannels
         /\ ChannelInit \in LampChannels
<1>1. 0..MaxCommits \subseteq Nat /\ 0..MaxShare \subseteq Nat /\ Capacities \subseteq Nat /\ Expiries \subseteq Nat
  BY LampAssumption
<1>2. ChannelInit \in LampChannels
  BY DEF ChannelInit, LampChannels, Channels, ChannelStates
<1>3. \A op \in Opens : ApplyOpen(c, op) \in LampChannels
  BY <1>1 DEF Opens, ApplyOpen, AcceptsOpen, ChannelInit, LampChannels, Channels, ChannelStates
<1>4. \A cm \in Commitments : ApplyCommitment(c, cm, t) \in LampChannels
  BY <1>1 DEF Commitments, ApplyCommitment, LampChannels, Channels, ChannelStates
<1>5. \A cl \in Closes : ApplyClose(c, cl) \in LampChannels
  BY DEF ApplyClose, LampChannels, Channels, ChannelStates
<1>6. TickExpiry(c, t) \in LampChannels
  BY DEF TickExpiry, LampChannels, Channels, ChannelStates
<1> QED  BY <1>2, <1>3, <1>4, <1>5, <1>6

\* What the calls on the channel do to its state and its shares.
LEMMA ChannelEffect ==
  ASSUME NEW c \in LampChannels, NEW t \in Int
  PROVE  /\ \A op \in Opens :
              LET d == ApplyOpen(c, op)
              IN /\ ~AcceptsOpen(c) => d = c
                 /\ AcceptsOpen(c) => /\ c.state = "CLOSED" /\ d.state = "OPEN"
                                      /\ d.seq = 0 /\ d.deviceShare = 0 /\ d.userShare = 0
         /\ \A cm \in Commitments :
              LET d == ApplyCommitment(c, cm, t)
              IN /\ ~AcceptsCommitment(c, cm, t) => d = c
                 /\ AcceptsCommitment(c, cm, t) =>
                      /\ c.state \in {"OPEN", "ACTIVE"} /\ d.state = "ACTIVE"
                      /\ d.id = c.id /\ d.capacity = c.capacity
                      /\ d.seq >= c.seq /\ d.deviceShare >= c.deviceShare
                      /\ d.deviceShare + d.userShare <= d.capacity
         /\ \A cl \in Closes :
              LET d == ApplyClose(c, cl)
              IN /\ ~AcceptsClose(c, cl) => d = c
                 /\ AcceptsClose(c, cl) =>
                      c.state \in {"ACTIVE", "EXPIRED"} /\ d = [c EXCEPT !.state = "CLOSED"]
         /\ LET d == TickExpiry(c, t)
            IN d = c \/ (c.state = "ACTIVE" /\ d = [c EXCEPT !.state = "EXPIRED"])
<1>1. 0..MaxCommits \subseteq Nat /\ 0..MaxShare \subseteq Nat /\ Capacities \subseteq Nat /\ Expiries \subseteq Nat
  BY LampAssumption
<1>2. ASSUME NEW op \in Opens
      PROVE  LET d == ApplyOpen(c, op)
             IN /\ ~AcceptsOpen(c) => d = c
                /\ AcceptsOpen(c) => /\ c.state = "CLOSED" /\ d.state = "OPEN"
                                     /\ d.seq = 0 /\ d.deviceShare = 0 /\ d.userShare = 0
  BY DEF ApplyOpen, AcceptsOpen, ChannelInit
<1>3. ASSUME NEW cm \in Commitments
      PROVE  LET d == ApplyCommitment(c, cm, t)
             IN /\ ~AcceptsCommitment(c, cm, t) => d = c
                /\ AcceptsCommitment(c, cm, t) =>
                     /\ c.state \in {"OPEN", "ACTIVE"} /\ d.state = "ACTIVE"
                     /\ d.id = c.id /\ d.capacity = c.capacity
                     /\ d.seq >= c.seq /\ d.deviceShare >= c.deviceShare
                     /\ d.deviceShare + d.userShare <= d.capacity
  <2>1. cm.seq \in Nat /\ cm.deviceShare \in Nat /\ cm.userShare \in Nat
    BY <1>1 DEF Commitments
  <2> QED  BY <2>1 DEF ApplyCommitment, AcceptsCommitment, LampChannels, Channels
<1>4. ASSUME NEW cl \in Closes
      PROVE  LET d == ApplyClose(c, cl)
             IN /\ ~AcceptsClose(c, cl) => d = c
                /\ AcceptsClose(c, cl) =>
                     c.state \in {"ACTIVE", "EXPIRED"} /\ d = [c EXCEPT !.state = "CLOSED"]
  BY DEF ApplyClose, AcceptsClose
<1>5. LET d == TickExpiry(c, t)
      IN d = c \/ (c.state = "ACTIVE" /\ d = [c EXCEPT !.state = "EXPIRED"])
  BY DEF TickExpiry
<1> QED  BY <1>2, <1>3, <1>4, <1>5

-----------------------------------------------------------------------------

\* The board starts, and restarts, in the invariant.
LEMMA LampBegins == LampInit => LampInv
<1> SUFFICES ASSUME LampInit PROVE LampInv
  OBVIOUS
<1>1. Kilo \in Nat /\ Rate \in Nat
  BY LampAssumption
<1>2. TypeOK
  BY DEF LampInit, TypeOK, MeterInit, ChannelInit, Channels, ChannelStates
<1>3. MeterFollowsChannel /\ SharesFitCapacity /\ ExpiryUnderway /\ ClockOrder
  BY DEF LampInit, MeterInit, ChannelInit, MeterFollowsChannel, SharesFitCapacity, ExpiryUnderway, ClockOrder
<1>4. BillCoversTime
  BY <1>1 DEF LampInit, MeterInit, ChannelInit, BillCoversTime
<1> QED  BY <1>2, <1>3, <1>4 DEF LampInv

\* An open replaces the channel and the meter together.
LEMMA OpenStep ==
  ASSUME CellsPerPass <= 1, LampInv, NEW at \in 0..now, NEW op \in Opens, RxOpen(op, at)
  PROVE  LampInv'
<1> USE DEF LampInv
<1>1. channel \in LampChannels /\ now \in Nat /\ base \in Nat /\ cells \in Nat /\ Kilo \in Nat \ {0} /\ Rate \in Nat
  BY LampAssumption DEF TypeOK, LampChannels
<1>2. at \in Nat /\ base <= at /\ at <= now /\ cells = 0 /\ cells' = 1
  BY <1>1, LampAssumption DEF RxOpen, Handles
<1>3. channel' = ApplyOpen(channel, op) /\ channel' \in LampChannels
  BY <1>1, ChannelType DEF RxOpen
<1>4. /\ ~AcceptsOpen(channel) => channel' = channel
      /\ AcceptsOpen(channel) => /\ channel.state = "CLOSED" /\ channel'.state = "OPEN"
                                 /\ channel'.seq = 0 /\ channel'.deviceShare = 0 /\ channel'.userShare = 0
  BY <1>1, <1>3, ChannelEffect
<1>5. TypeOK'
  <2>1. CASE AcceptsOpen(channel)
    <3>1. base' = at /\ meter' = MeterInit /\ served' = 0 /\ ticks' = 0 /\ UNCHANGED <<now, led, loop>>
      BY <2>1 DEF RxOpen
    <3>2. MeterInit \in Meters
      BY DEF MeterInit, Meters
    <3> QED  BY <1>1, <1>2, <1>3, <3>1, <3>2 DEF TypeOK, LampChannels, Meters
  <2>2. CASE ~AcceptsOpen(channel)
    BY <1>1, <1>2, <1>3, <2>2 DEF TypeOK, RxOpen, LampChannels
  <2> QED  BY <2>1, <2>2
<1>6. MeterFollowsChannel'
  BY <1>4 DEF RxOpen, MeterFollowsChannel, MeterInit
<1>7. SharesFitCapacity'
  BY <1>3, <1>4 DEF SharesFitCapacity, RxOpen, LampChannels, Channels
<1>8. ExpiryUnderway'
  BY <1>1, <1>2, <1>4 DEF ExpiryUnderway, RxOpen
<1>9. ClockOrder'
  BY <1>1, <1>2 DEF ClockOrder, RxOpen, MeterInit, TypeOK
<1>10. BillCoversTime'
  <2>1. CASE AcceptsOpen(channel)
    <3>1. Rate * (now - at) >= 0
      BY <1>1, <1>2, Spread
    <3> QED  BY <1>1, <2>1, <3>1 DEF BillCoversTime, RxOpen, MeterInit
  <2>2. CASE ~AcceptsOpen(channel)
    BY <1>4, <2>2 DEF BillCoversTime, RxOpen
  <2> QED  BY <2>1, <2>2
<1> QED  BY <1>5, <1>6, <1>7, <1>8, <1>9, <1>10

\* A commitment starts a meter that has billed nothing, or leaves it running.
LEMMA CommitmentStep ==
  ASSUME CellsPerPass <= 1, LampInv, NEW at \in 0..now, NEW cm \in Commitments, RxCommitment(cm, at)
  PROVE  LampInv'
<1> USE DEF LampInv
<1>1. channel \in LampChannels /\ now \in Nat /\ base \in Nat /\ cells \in Nat /\ Kilo \in Nat \ {0} /\ Rate \in Nat
      /\ meter \in Meters
  BY LampAssumption DEF TypeOK, LampChannels, Meters
<1>2. at \in Nat /\ base <= at /\ at <= now /\ cells = 0 /\ cells' = 1 /\ at - base \in Int
  BY <1>1, LampAssumption DEF RxCommitment, Handles
<1>3. channel' = ApplyCommitment(channel, cm, at - base) /\ channel' \in LampChannels
  BY <1>1, <1>2, ChannelType DEF RxCommitment
<1>4. CASE ~AcceptsCommitment(channel, cm, at - base)
  <2>1. channel' = channel /\ meter' = meter
    BY <1>1, <1>2, <1>3, <1>4, ChannelEffect DEF RxCommitment
  <2>2. now' = now /\ base' = base /\ led' = led /\ loop' = loop /\ served' = served /\ ticks' = ticks
    BY DEF RxCommitment
  <2> QED  BY <1>2, <2>1, <2>2 DEF TypeOK, MeterFollowsChannel, SharesFitCapacity,
             ExpiryUnderway, ClockOrder, BillCoversTime
<1>5. CASE AcceptsCommitment(channel, cm, at - base)
  <2>1. /\ channel.state \in {"OPEN", "ACTIVE"} /\ channel'.state = "ACTIVE"
        /\ channel'.deviceShare + channel'.userShare <= channel'.capacity
    BY <1>1, <1>2, <1>3, <1>5, ChannelEffect
  <2>2. meter' = MeterStart(meter, at)
    BY <1>5 DEF RxCommitment
  <2>3. now' = now /\ base' = base /\ led' = led /\ loop' = loop /\ served' = served /\ ticks' = ticks
    BY DEF RxCommitment
  <2>4. meter' \in Meters /\ meter'.running /\ meter'.accrued = meter.accrued
        /\ (meter.running => meter' = meter) /\ (~meter.running => meter'.lastTick = at)
    BY <1>1, <1>2, <2>2 DEF MeterStart, Meters
  <2>5. loop.at # "stop"
    BY <2>1 DEF ExpiryUnderway
  <2>6. TypeOK'
    BY <1>2, <1>3, <2>3, <2>4 DEF TypeOK, LampChannels, Meters
  <2>7. MeterFollowsChannel' /\ SharesFitCapacity' /\ ExpiryUnderway'
    BY <2>1, <2>3, <2>4, <2>5 DEF MeterFollowsChannel, SharesFitCapacity, ExpiryUnderway
  <2>8. ClockOrder'
    BY <1>1, <1>2, <2>3, <2>4 DEF ClockOrder
  <2>9. BillCoversTime'
    <3>1. CASE meter.running
      BY <2>1, <2>3, <2>4, <3>1 DEF BillCoversTime
    <3>2. CASE ~meter.running
      <4>1. channel.state = "OPEN"
        BY <2>1, <3>2 DEF MeterFollowsChannel
      <4>2. meter'.accrued = 0 /\ meter'.lastTick = at
        BY <2>4, <3>2, <4>1 DEF BillCoversTime
      <4>3. Rate * (at - base) >= 0
        BY <1>1, <1>2, Spread
      <4> QED  BY <1>1, <2>1, <2>3, <2>4, <4>2, <4>3 DEF BillCoversTime
    <3> QED  BY <3>1, <3>2
  <2> QED  BY <2>6, <2>7, <2>8, <2>9
<1> QED  BY <1>4, <1>5

\* Stopping a meter ticks it first.
LEMMA StopEffect ==
  ASSUME NEW m \in Meters, NEW t \in Nat
  PROVE  /\ MeterStop(m, t) \in Meters
         /\ MeterStop(m, t).running = FALSE
         /\ MeterStop(m, t).accrued = MeterTick(m, t).accrued
         /\ MeterStop(m, t).lastTick = MeterTick(m, t).lastTick
<1>1. MeterTick(m, t) \in Meters
  BY TickType
<1> QED  BY <1>1 DEF MeterStop, Meters

\* The bill of a running meter covers its time after a tick, too.
LEMMA TickBill ==
  ASSUME NEW m \in Meters, NEW t \in Nat, NEW b \in Nat, NEW n \in Nat,
         m.running, b <= m.lastTick, m.lastTick <= n, t <= n,
         m.accrued * Kilo <= Rate * (m.lastTick - b)
  PROVE  /\ MeterTick(m, t).accrued * Kilo <= Rate * (MeterTick(m, t).lastTick - b)
         /\ MeterTick(m, t).accrued * Kilo <= Rate * (n - b)
         /\ b <= MeterTick(m, t).lastTick /\ MeterTick(m, t).lastTick <= n
<1>1. m.accrued \in Nat /\ m.lastTick \in Nat /\ Kilo \in Nat \ {0} /\ Rate \in Nat
  BY LampAssumption DEF Meters
<1>2. CASE t <= m.lastTick
  <2>1. MeterTick(m, t) = m
    BY <1>2, TickType
  <2>2. Rate * (m.lastTick - b) <= Rate * (n - b)
    BY <1>1, Spread
  <2>3. m.accrued * Kilo \in Int /\ Rate * (m.lastTick - b) \in Int /\ Rate * (n - b) \in Int
    BY <1>1
  <2>4. m.accrued * Kilo <= Rate * (n - b)
    BY <2>2, <2>3
  <2> QED  BY <2>1, <2>4
<1>3. CASE t > m.lastTick
  <2> DEFINE d == MeterTick(m, t)
  <2>1. /\ d \in Meters /\ d.lastTick = t
        /\ d.accrued * Kilo <= m.accrued * Kilo + Rate * (t - m.lastTick)
    BY <1>3, TickType
  <2>2. Rate * (t - m.lastTick) + Rate * (m.lastTick - b) = Rate * (t - b)
    BY <1>1, Spread
  <2>3. Rate * (t - b) <= Rate * (n - b)
    BY <1>1, Spread
  <2>4. /\ d.accrued * Kilo \in Int /\ m.accrued * Kilo \in Int /\ Rate * (t - m.lastTick) \in Int
        /\ Rate * (m.lastTick - b) \in Int /\ Rate * (t - b) \in Int /\ Rate * (n - b) \in Int
    BY <1>1, <2>1 DEF Meters
  <2>5. d.accrued * Kilo <= Rate * (t - b)
    BY <2>1, <2>2, <2>4
  <2>6. d.accrued * Kilo <= Rate * (n - b)
    BY <2>3, <2>4, <2>5
  <2>7. b <= t
    BY <1>1, <1>3
  <2> QED  BY <2>1, <2>5, <2>6, <2>7
<1> QED  BY <1>1, <1>2, <1>3

\* A close stops the meter with the channel.
LEMMA CloseStep ==
  ASSUME CellsPerPass <= 1, LampInv, NEW at \in 0..now, NEW cl \in Closes, RxClose(cl, at)
  PROVE  LampInv'
<1> USE DEF LampInv
<1>1. channel \in LampChannels /\ now \in Nat /\ base \in Nat /\ cells \in Nat /\ Kilo \in Nat \ {0} /\ Rate \in Nat
      /\ meter \in Meters
  BY LampAssumption DEF TypeOK, LampChannels, Meters
<1>2. at \in Nat /\ base <= at /\ at <= now /\ cells = 0 /\ cells' = 1
  BY <1>1, LampAssumption DEF RxClose, Handles
<1>3. channel' = ApplyClose(channel, cl) /\ channel' \in LampChannels
  BY <1>1, ChannelType DEF RxClose
<1>4. now' = now /\ base' = base /\ led' = led /\ loop' = loop /\ served' = served /\ ticks' = ticks
  BY DEF RxClose
<1>5. CASE ~AcceptsClose(channel, cl)
  <2>1. channel' = channel /\ meter' = meter
    BY <1>1, <1>3, <1>5, ChannelEffect DEF RxClose
  <2> QED  BY <1>2, <1>4, <2>1 DEF TypeOK, MeterFollowsChannel, SharesFitCapacity,
             ExpiryUnderway, ClockOrder, BillCoversTime
<1>6. CASE AcceptsClose(channel, cl)
  <2>1. channel.state \in {"ACTIVE", "EXPIRED"} /\ channel' = [channel EXCEPT !.state = "CLOSED"]
    BY <1>1, <1>3, <1>6, ChannelEffect
  <2>2. /\ channel'.state = "CLOSED" /\ channel'.deviceShare = channel.deviceShare
        /\ channel'.userShare = channel.userShare /\ channel'.capacity = channel.capacity
    BY <1>1, <2>1 DEF LampChannels, Channels
  <2>3. meter' = MeterStop(meter, at)
    BY <1>6 DEF RxClose
  <2>4. meter' \in Meters /\ meter'.running = FALSE /\ meter'.accrued = MeterTick(meter, at).accrued
        /\ meter'.lastTick = MeterTick(meter, at).lastTick
    BY <1>1, <1>2, <2>3, StopEffect
  <2>5. TypeOK'
    BY <1>2, <1>3, <1>4, <2>4 DEF TypeOK, LampChannels, Meters
  <2>6. MeterFollowsChannel' /\ SharesFitCapacity' /\ ExpiryUnderway'
    BY <1>2, <1>4, <2>2, <2>4 DEF MeterFollowsChannel, SharesFitCapacity, ExpiryUnderway
  <2>7. CASE meter.running
    <3>1. meter'.accrued * Kilo <= Rate * (now - base) /\ meter'.lastTick <= now
      BY <1>1, <1>2, <2>4, <2>7, TickBill DEF ClockOrder, BillCoversTime
    <3>2. ClockOrder' /\ BillCoversTime'
      BY <1>4, <2>2, <2>4, <3>1 DEF ClockOrder, BillCoversTime
    <3> QED  BY <2>5, <2>6, <3>2
  <2>8. CASE ~meter.running
    <3>1. MeterTick(meter, at) = meter
      BY <1>1, <1>2, <2>8, TickType
    <3>2. ClockOrder' /\ BillCoversTime'
      BY <1>4, <2>2, <2>4, <2>8, <3>1 DEF ClockOrder, BillCoversTime
    <3> QED  BY <2>5, <2>6, <3>2
  <2> QED  BY <2>7, <2>8
<1> QED  BY <1>5, <1>6

\* The loop's steps that do not touch the meter.
LEMMA LoopStep ==
  ASSUME LampInv, LoopLooks \/ LoopTicksExpiry \/ LoopDrives
  PROVE  LampInv'
<1> USE DEF LampInv
<1>1. channel \in LampChannels /\ now \in Nat /\ base \in Nat /\ loop.time \in Nat
      /\ loop \in [at: {"look", "expiry", "stop", "drain", "drive"}, time: Nat, authorized: BOOLEAN]
  BY DEF TypeOK, LampChannels
<1>2. CASE LoopLooks
  <2>1. loop'.time = now /\ loop'.at # "stop" /\ loop.at = "look"
        /\ loop' \in [at: {"look", "expiry", "stop", "drain", "drive"}, time: Nat, authorized: BOOLEAN]
    BY <1>1, <1>2 DEF LoopLooks
  <2>2. cells' = 0 /\ UNCHANGED <<now, channel, base, meter, led, served, ticks>>
    BY <1>2 DEF LoopLooks
  <2> QED  BY <1>1, <2>1, <2>2 DEF TypeOK, MeterFollowsChannel, SharesFitCapacity,
             ExpiryUnderway, ClockOrder, BillCoversTime
<1>3. CASE LoopTicksExpiry
  <2> DEFINE relative == IF loop.time > base THEN loop.time - base ELSE 0
  <2>1. relative \in Int
    BY <1>1
  <2>2. channel' = TickExpiry(channel, relative) /\ UNCHANGED <<now, base, meter, led, cells, served, ticks>>
        /\ loop' = [loop EXCEPT !.at = IF channel'.state = "EXPIRED" THEN "stop" ELSE "drain"]
    BY <1>3 DEF LoopTicksExpiry
  <2> HIDE DEF relative
  <2>3. channel' \in LampChannels
    BY <1>1, <2>1, <2>2, ChannelType
  <2>4. \/ channel' = channel
        \/ channel.state = "ACTIVE" /\ channel' = [channel EXCEPT !.state = "EXPIRED"]
    BY <1>1, <2>1, <2>2, ChannelEffect
  <2>5. /\ channel'.deviceShare = channel.deviceShare /\ channel'.userShare = channel.userShare
        /\ channel'.capacity = channel.capacity /\ channel'.seq = channel.seq
        /\ channel'.state # channel.state => channel.state = "ACTIVE" /\ channel'.state = "EXPIRED"
    BY <1>1, <2>4 DEF LampChannels, Channels
  <2>6. /\ loop' \in [at: {"look", "expiry", "stop", "drain", "drive"}, time: Nat, authorized: BOOLEAN]
        /\ loop'.time = loop.time /\ (loop'.at = "stop" <=> channel'.state = "EXPIRED")
    BY <1>1, <2>2
  <2>7. loop.at = "expiry"
    BY <1>3 DEF LoopTicksExpiry
  <2>8. TypeOK'
    BY <2>2, <2>3, <2>6 DEF TypeOK, LampChannels
  <2>9. MeterFollowsChannel' /\ ExpiryUnderway'
    BY <2>2, <2>5, <2>6, <2>7 DEF MeterFollowsChannel, ExpiryUnderway
  <2>10. SharesFitCapacity' /\ ClockOrder' /\ BillCoversTime'
    BY <2>2, <2>5, <2>6 DEF SharesFitCapacity, ClockOrder, BillCoversTime
  <2> QED  BY <2>8, <2>9, <2>10
<1>4. CASE LoopDrives
  <2>1. loop.at = "drive" /\ loop'.at = "look" /\ loop'.time = loop.time
        /\ loop' \in [at: {"look", "expiry", "stop", "drain", "drive"}, time: Nat, authorized: BOOLEAN]
    BY <1>1, <1>4 DEF LoopDrives
  <2>2. led' \in BOOLEAN /\ UNCHANGED <<now, channel, base, meter, cells, served, ticks>>
    <3>1. loop.authorized \in BOOLEAN
      BY <1>1
    <3> QED  BY <1>4, <3>1 DEF LoopDrives
  <2> QED  BY <2>1, <2>2 DEF TypeOK, MeterFollowsChannel, SharesFitCapacity,
             ExpiryUnderway, ClockOrder, BillCoversTime
<1> QED  BY <1>2, <1>3, <1>4

\* The loop stops the meter of an expired channel, or one stopped already.
LEMMA StopStep ==
  ASSUME LampInv, LoopStopsMeter
  PROVE  LampInv'
<1> USE DEF LampInv
<1>1. /\ now \in Nat /\ base \in Nat /\ loop.time \in Nat /\ meter \in Meters
      /\ loop \in [at: {"look", "expiry", "stop", "drain", "drive"}, time: Nat, authorized: BOOLEAN]
      /\ Kilo \in Nat \ {0} /\ Rate \in Nat /\ loop.time <= now
  BY LampAssumption DEF TypeOK, Meters, ClockOrder
<1>2. meter' = MeterStop(meter, loop.time) /\ UNCHANGED <<now, channel, base, led, cells, served, ticks>>
  BY DEF LoopStopsMeter
<1>3. loop.at = "stop" /\ loop'.at = "drive" /\ loop'.time = loop.time
      /\ loop' \in [at: {"look", "expiry", "stop", "drain", "drive"}, time: Nat, authorized: BOOLEAN]
  BY <1>1 DEF LoopStopsMeter
<1>4. meter' \in Meters /\ meter'.running = FALSE /\ meter'.accrued = MeterTick(meter, loop.time).accrued
      /\ meter'.lastTick = MeterTick(meter, loop.time).lastTick
  BY <1>1, <1>2, StopEffect
<1>5. channel.state \in {"EXPIRED", "CLOSED"}
  BY <1>3 DEF ExpiryUnderway
<1>6. TypeOK'
  BY <1>2, <1>3, <1>4 DEF TypeOK, Meters
<1>7. MeterFollowsChannel' /\ SharesFitCapacity' /\ ExpiryUnderway'
  BY <1>2, <1>3, <1>4, <1>5 DEF MeterFollowsChannel, SharesFitCapacity, ExpiryUnderway
<1>8. CASE meter.running
  <2>1. meter'.accrued * Kilo <= Rate * (now - base) /\ meter'.lastTick <= now
    BY <1>1, <1>4, <1>8, TickBill DEF ClockOrder, BillCoversTime
  <2>2. ClockOrder' /\ BillCoversTime'
    BY <1>2, <1>3, <1>4, <1>5, <2>1 DEF ClockOrder, BillCoversTime
  <2> QED  BY <1>6, <1>7, <2>2
<1>9. CASE ~meter.running
  <2>1. MeterTick(meter, loop.time) = meter
    BY <1>1, <1>9, TickType
  <2>2. ClockOrder' /\ BillCoversTime'
    BY <1>2, <1>3, <1>4, <1>9, <2>1 DEF ClockOrder, BillCoversTime
  <2> QED  BY <1>6, <1>7, <2>2
<1> QED  BY <1>8, <1>9

\* The loop drains a running meter up to the time the pass began.
LEMMA DrainStep ==
  ASSUME LampInv, LoopDrains
  PROVE  LampInv'
<1> USE DEF LampInv
<1>1. /\ now \in Nat /\ base \in Nat /\ loop.time \in Nat /\ meter \in Meters
      /\ loop \in [at: {"look", "expiry", "stop", "drain", "drive"}, time: Nat, authorized: BOOLEAN]
      /\ Kilo \in Nat \ {0} /\ Rate \in Nat /\ loop.time <= now
  BY LampAssumption DEF TypeOK, Meters, ClockOrder
<1>2. /\ meter' = MeterTick(meter, loop.time) /\ UNCHANGED <<now, channel, base, led, cells, served>>
      /\ ticks' \in Nat
  BY DEF LoopDrains, TypeOK
<1>3. loop'.at = "drive" /\ loop'.time = loop.time
      /\ loop' \in [at: {"look", "expiry", "stop", "drain", "drive"}, time: Nat, authorized: BOOLEAN]
  <2>1. Authorized(meter', channel.deviceShare) \in BOOLEAN
    BY DEF Authorized
  <2> QED  BY <1>1, <2>1 DEF LoopDrains
<1>4. meter' \in Meters /\ meter'.running = meter.running
  BY <1>1, <1>2, TickType
<1>5. TypeOK'
  BY <1>2, <1>3, <1>4 DEF TypeOK, Meters
<1>6. MeterFollowsChannel' /\ SharesFitCapacity' /\ ExpiryUnderway'
  <2>1. loop.at = "drain"
    BY DEF LoopDrains
  <2> QED  BY <1>2, <1>3, <1>4, <2>1 DEF MeterFollowsChannel, SharesFitCapacity, ExpiryUnderway
<1>7. CASE meter.running
  <2>1. /\ meter'.accrued * Kilo <= Rate * (meter'.lastTick - base)
        /\ base <= meter'.lastTick /\ meter'.lastTick <= now
    BY <1>1, <1>2, <1>7, TickBill DEF ClockOrder, BillCoversTime
  <2>2. channel.state # "OPEN"
    BY <1>7 DEF MeterFollowsChannel
  <2>3. ClockOrder' /\ BillCoversTime'
    BY <1>2, <1>3, <1>4, <1>7, <2>1, <2>2 DEF ClockOrder, BillCoversTime
  <2> QED  BY <1>5, <1>6, <2>3
<1>8. CASE ~meter.running
  <2>1. meter' = meter
    BY <1>1, <1>2, <1>8, TickType
  <2>2. ClockOrder' /\ BillCoversTime'
    BY <1>2, <1>3, <2>1 DEF ClockOrder, BillCoversTime
  <2> QED  BY <1>5, <1>6, <2>2
<1> QED  BY <1>7, <1>8

\* Time passes.
LEMMA TimeStep ==
  ASSUME LampInv, Tick
  PROVE  LampInv'
<1> USE DEF LampInv
<1>1. now \in Nat /\ base \in Nat /\ meter \in Meters /\ Kilo \in Nat \ {0} /\ Rate \in Nat /\ served \in Nat
  BY LampAssumption DEF TypeOK, Meters
<1>2. now' = now + 1 /\ UNCHANGED <<channel, base, meter, led, loop, cells, ticks>>
  BY DEF Tick
<1>3. served' \in Nat
  BY <1>1 DEF Tick
<1>4. TypeOK' /\ MeterFollowsChannel' /\ SharesFitCapacity' /\ ExpiryUnderway'
  BY <1>1, <1>2, <1>3 DEF TypeOK, MeterFollowsChannel, SharesFitCapacity, ExpiryUnderway
<1>5. ClockOrder'
  BY <1>1, <1>2 DEF ClockOrder, TypeOK, Meters
<1>6. BillCoversTime'
  <2>1. Rate * ((now + 1) - base) >= Rate * (now - base)
    BY <1>1, Spread
  <2>2. /\ meter.accrued * Kilo \in Int /\ Rate * ((now + 1) - base) \in Int
        /\ Rate * (now - base) \in Int
    BY <1>1 DEF Meters
  <2>3. ~meter.running => meter.accrued * Kilo <= Rate * ((now + 1) - base)
    BY <2>1, <2>2 DEF BillCoversTime
  <2> QED  BY <1>2, <2>3 DEF BillCoversTime
<1> QED  BY <1>4, <1>5, <1>6

\* Every step keeps the invariant when a pass meets at most one cell.
LEMMA LampStep ==
  ASSUME CellsPerPass <= 1, LampInv, [LampNext]_lampVars
  PROVE  LampInv'
<1>1. CASE \E at \in 0..now : \E op \in Opens : RxOpen(op, at)
  BY <1>1, OpenStep
<1>2. CASE \E at \in 0..now : \E cm \in Commitments : RxCommitment(cm, at)
  BY <1>2, CommitmentStep
<1>3. CASE \E at \in 0..now : \E cl \in Closes : RxClose(cl, at)
  BY <1>3, CloseStep
<1>4. CASE LoopLooks \/ LoopTicksExpiry \/ LoopDrives
  BY <1>4, LoopStep
<1>5. CASE LoopStopsMeter
  BY <1>5, StopStep
<1>6. CASE LoopDrains
  BY <1>6, DrainStep
<1>7. CASE Tick
  BY <1>7, TimeStep
<1>8. CASE Reboot
  <2>1. LampInit'
    BY <1>8 DEF Reboot, LampInit
  <2>2. LampInv'
    BY <2>1, LampBegins, PTL
  <2> QED  BY <2>2
<1>9. CASE UNCHANGED lampVars
  BY <1>9 DEF lampVars, LampInv, TypeOK, MeterFollowsChannel, SharesFitCapacity,
     ExpiryUnderway, ClockOrder, BillCoversTime
<1> QED  BY <1>1, <1>2, <1>3, <1>4, <1>5, <1>6, <1>7, <1>8, <1>9 DEF LampNext

-----------------------------------------------------------------------------

\* The inductive invariant holds of every board that meets at most one cell in
\* a pass of its main loop (main.c:3035, with the injector's 1.8 s between
\* cells).
THEOREM LampInvariant ==
  ASSUME CellsPerPass <= 1
  PROVE  LampSpec => []LampInv
<1>1. LampInv /\ [LampNext]_lampVars => LampInv'
  BY LampStep
<1> QED  BY <1>1, LampBegins, PTL DEF LampSpec

\* The board's state keeps its type, with no natural number going below 0: the
\* unclamped subtraction of the commitment handler does not wrap (main.c:1643).
THEOREM LampTypeCorrect ==
  ASSUME CellsPerPass <= 1
  PROVE  LampSpec => []TypeOK
<1>1. LampInv => TypeOK
  BY DEF LampInv
<1> QED  BY <1>1, LampInvariant, PTL

\* The meter runs exactly while the channel is ACTIVE, but for the moment
\* between the two steps of an expiry (main.c:1655, :1675, :3046).
THEOREM MeteringFollowsChannel ==
  ASSUME CellsPerPass <= 1
  PROVE  LampSpec => []MeterFollowsChannel
<1>1. LampInv => MeterFollowsChannel
  BY DEF LampInv
<1> QED  BY <1>1, LampInvariant, PTL

\* What a board has accepted fits the capacity it was opened with.
THEOREM SharesAlwaysFit ==
  ASSUME CellsPerPass <= 1
  PROVE  LampSpec => []SharesFitCapacity
<1>1. LampInv => SharesFitCapacity
  BY DEF LampInv
<1> QED  BY <1>1, LampInvariant, PTL

\* Nobody is billed for more than the time since the open, at any rate
\* (cell_meter.zig:24).
THEOREM NeverOverbilled ==
  ASSUME CellsPerPass <= 1
  PROVE  LampSpec => []BilledAtMostElapsed
<1>1. LampInv => BilledAtMostElapsed
  <2> SUFFICES ASSUME LampInv PROVE BilledAtMostElapsed
    OBVIOUS
  <2>1. now \in Nat /\ base \in Nat /\ meter \in Meters /\ Kilo \in Nat \ {0} /\ Rate \in Nat
    BY LampAssumption DEF LampInv, TypeOK, Meters
  <2>2. CASE meter.running
    <3>1. Rate * (now - base) >= Rate * (meter.lastTick - base)
      BY <2>1, <2>2, Spread DEF LampInv, ClockOrder, Meters
    <3>2. /\ meter.accrued * Kilo \in Int /\ Rate * (meter.lastTick - base) \in Int
          /\ Rate * (now - base) \in Int
      BY <2>1 DEF Meters
    <3> QED  BY <2>2, <3>1, <3>2 DEF LampInv, BillCoversTime, BilledAtMostElapsed
  <2>3. CASE ~meter.running
    BY <2>3 DEF LampInv, BillCoversTime, BilledAtMostElapsed
  <2> QED  BY <2>2, <2>3
<1> QED  BY <1>1, LampInvariant, PTL

\* Within a channel the share and the seq only grow, under any schedule
\* (cell_channel.zig:145).
THEOREM GrowthOnly == LampSpec => CommitmentsOnlyGrow
<1> DEFINE Grows == channel'.id = channel.id /\ channel'.state \in {"ACTIVE", "EXPIRED"}
                      => /\ channel'.seq >= channel.seq
                         /\ channel'.deviceShare >= channel.deviceShare
<1> DEFINE ChannelOK == channel \in LampChannels /\ base \in Nat /\ now \in Nat
                        /\ loop \in Loops
<1>1. LampInit => ChannelOK
  BY DEF LampInit, ChannelInit, LampChannels, Channels, ChannelStates, Loops
<1>2. ASSUME ChannelOK, [LampNext]_lampVars PROVE ChannelOK' /\ (Grows \/ UNCHANGED lampVars)
  <2>1. channel.seq \in Nat /\ channel.deviceShare \in Nat
    BY <1>2 DEF LampChannels, Channels
  <2>2. ASSUME NEW at \in 0..now, NEW op \in Opens, RxOpen(op, at)
        PROVE  ChannelOK' /\ Grows
    <3>1. channel' = ApplyOpen(channel, op)
      BY <2>2 DEF RxOpen
    <3>2. channel' = channel \/ channel'.state = "OPEN"
      BY <1>2, <3>1, ChannelEffect
    <3>3. channel' \in LampChannels
      BY <1>2, <3>1, ChannelType
    <3>4. base' \in Nat /\ now' = now /\ loop' = loop
      BY <1>2, <2>2 DEF RxOpen
    <3> QED  BY <1>2, <2>1, <3>2, <3>3, <3>4
  <2>3. ASSUME NEW at \in 0..now, NEW cm \in Commitments, RxCommitment(cm, at)
        PROVE  ChannelOK' /\ Grows
    <3>1. channel' = ApplyCommitment(channel, cm, at - base) /\ at - base \in Int
      BY <1>2, <2>3 DEF RxCommitment
    <3>2. channel' = channel \/ (channel'.seq >= channel.seq /\ channel'.deviceShare >= channel.deviceShare)
      BY <1>2, <3>1, ChannelEffect
    <3>3. channel' \in LampChannels
      BY <1>2, <3>1, ChannelType
    <3> QED  BY <1>2, <2>1, <2>3, <3>2, <3>3 DEF RxCommitment
  <2>4. ASSUME NEW at \in 0..now, NEW cl \in Closes, RxClose(cl, at)
        PROVE  ChannelOK' /\ Grows
    <3>1. channel' = ApplyClose(channel, cl)
      BY <2>4 DEF RxClose
    <3>2. channel' = channel \/ channel' = [channel EXCEPT !.state = "CLOSED"]
      BY <1>2, <3>1, ChannelEffect
    <3>3. channel' \in LampChannels
      BY <1>2, <3>1, ChannelType
    <3>4. channel' = channel \/ channel'.state = "CLOSED"
      BY <1>2, <3>2 DEF LampChannels, Channels
    <3> QED  BY <1>2, <2>1, <2>4, <3>3, <3>4 DEF RxClose
  <2>5. CASE LoopTicksExpiry
    <3> DEFINE relative == IF loop.time > base THEN loop.time - base ELSE 0
    <3>1. relative \in Int /\ channel' = TickExpiry(channel, relative)
      BY <1>2, <2>5 DEF LoopTicksExpiry, Loops
    <3> HIDE DEF relative
    <3>2. channel' = channel \/ channel' = [channel EXCEPT !.state = "EXPIRED"]
      BY <1>2, <3>1, ChannelEffect
    <3>3. channel'.seq = channel.seq /\ channel'.deviceShare = channel.deviceShare
      BY <1>2, <3>2 DEF LampChannels, Channels
    <3>4. channel' \in LampChannels
      BY <1>2, <3>1, ChannelType
    <3>5. now' = now /\ base' = base /\ loop' \in Loops
      BY <1>2, <2>5 DEF LoopTicksExpiry, Loops
    <3> QED  BY <1>2, <2>1, <3>3, <3>4, <3>5
  <2>6. CASE LoopLooks \/ LoopStopsMeter \/ LoopDrains \/ LoopDrives \/ Tick
    <3>1. channel' = channel /\ base' = base /\ now' \in Nat
      BY <1>2, <2>6 DEF LoopLooks, LoopStopsMeter, LoopDrains, LoopDrives, Tick
    <3>2. loop' \in Loops
      <4>1. Authorized(meter', channel.deviceShare) \in BOOLEAN
        BY DEF Authorized
      <4>2. CASE LoopDrains
        <5>1. loop' = [loop EXCEPT !.at = "drive", !.authorized = Authorized(meter', channel.deviceShare)]
          BY <4>2 DEF LoopDrains
        <5> QED  BY <1>2, <4>1, <5>1 DEF Loops
      <4>3. CASE LoopLooks \/ LoopStopsMeter \/ LoopDrives \/ Tick
        <5>1. CASE LoopLooks
          <6>1. loop' \in Loops
            BY <1>2, <5>1 DEF LoopLooks, Loops
          <6> QED  BY <6>1
        <5>2. CASE LoopStopsMeter \/ LoopDrives \/ Tick
          BY <1>2, <5>2 DEF LoopStopsMeter, LoopDrives, Tick, Loops
        <5> QED  BY <4>3, <5>1, <5>2
      <4> QED  BY <2>6, <4>2, <4>3
    <3> QED  BY <1>2, <2>1, <3>1, <3>2
  <2>7. CASE Reboot
    BY <1>2, <2>7, ChannelType DEF Reboot, ChannelInit, Loops
  <2>8. CASE UNCHANGED lampVars
    BY <1>2, <2>8 DEF lampVars
  <2> QED  BY <1>2, <2>2, <2>3, <2>4, <2>5, <2>6, <2>7, <2>8 DEF LampNext
<1>3. ChannelOK /\ [LampNext]_lampVars => ChannelOK'
  BY <1>2
<1>4. ChannelOK /\ [LampNext]_lampVars => [Grows]_lampVars
  BY <1>2
<1> QED  BY <1>1, <1>3, <1>4, PTL DEF LampSpec, CommitmentsOnlyGrow

-----------------------------------------------------------------------------
(* The metered board: the light is paid for *)

\* What the payments of a channel are worth in light, in the measure of served.
Worth(share) == (share + Tolerance + 1) * Kilo * Kilo

\* What a meter has billed and, if it runs, has still to bill up to time n.
Owed(m, n) == m.accrued * Kilo + Rate * (n - m.lastTick)

\* The light of a channel beyond what the ticks may have dropped.
Net == served - ticks * TickLoss

\* LightIsPaidFor, of the net.
Backed == Net < Worth(channel.deviceShare) + (Rate * LoopPeriod + Rate * LoopPeriod)

LightInv ==
  /\ now - loop.time <= LoopPeriod
  /\ channel.state = "OPEN" => served = 0
  /\ meter.running => Net <= Owed(meter, now)
  /\ Backed
  /\ channel.state = "ACTIVE" /\ loop.at = "drive" /\ loop.authorized
       => Net < Worth(channel.deviceShare) + Rate * (now - loop.time)
  /\ channel.state = "ACTIVE" /\ led
       => Net < Worth(channel.deviceShare) + Rate * (now - loop.time)
                  + (IF loop.at = "look" THEN 0 ELSE Rate * LoopPeriod)

LEMMA Regroup ==
  ASSUME NEW x \in Nat, NEW y \in Nat, NEW z \in Nat
  PROVE  (x * y) * z = x * (y * z)
OBVIOUS

\* The quotient of a product.
LEMMA DivExact ==
  ASSUME NEW k \in Nat \ {0}, NEW x \in Nat
  PROVE  (k * x) \div k = x
<1>1. k * x = k * ((k * x) \div k) + ((k * x) % k) /\ (k * x) % k \in 0..(k - 1) /\ (k * x) \div k \in Int
      /\ k * x \in Nat
  OBVIOUS
<1> DEFINE q == (k * x) \div k
           r == (k * x) % k
<1>2. k * (x - q) = r
  BY <1>1
<1> HIDE DEF q, r
<1>3. q \in Int /\ r \in 0..(k - 1)
  BY <1>1 DEF q, r
<1>4. x - q <= 0
  <2>1. SUFFICES ASSUME x - q >= 1 PROVE FALSE
    BY <1>3
  <2>2. k * (x - q) >= k * 1
    BY <1>3, <2>1
  <2> QED  BY <1>2, <1>3, <2>2
<1>5. x - q >= 0
  <2>1. SUFFICES ASSUME x - q <= -1 PROVE FALSE
    BY <1>3
  <2>2. k * (x - q) <= k * (-1)
    BY <1>3, <2>1
  <2> QED  BY <1>2, <1>3, <2>2
<1>6. x = q
  BY <1>3, <1>4, <1>5
<1> QED  BY <1>6 DEF q

LEMMA WorthIs ==
  ASSUME NEW s \in Nat
  PROVE  /\ Worth(s) \in Nat \ {0}
         /\ \A t \in Nat : s <= t => Worth(s) <= Worth(t)
         /\ \A a \in Nat : a \div Kilo <= s + Tolerance => a * Kilo < Worth(s)
<1>1. Kilo \in Nat \ {0} /\ Tolerance \in Nat
  BY LampAssumption
<1>2. PICK kk \in Nat \ {0} : kk = Kilo * Kilo
  <2>1. Kilo * Kilo \in Nat
    BY <1>1
  <2>2. Kilo * Kilo >= Kilo * 1
    BY <1>1
  <2> QED  BY <1>1, <2>1, <2>2
<1>3. \A t \in Nat : Worth(t) = (t + Tolerance + 1) * kk
  <2>1. ASSUME NEW t \in Nat PROVE Worth(t) = (t + Tolerance + 1) * kk
    <3> DEFINE p == t + Tolerance + 1
    <3>1. p \in Nat
      BY <1>1
    <3> HIDE DEF p
    <3>2. p * Kilo * Kilo = p * (Kilo * Kilo)
      BY <1>1, <3>1
    <3> QED  BY <1>2, <3>2 DEF Worth, p
  <2> QED  BY <2>1
<1>4. ASSUME NEW t \in Nat, s <= t PROVE (s + Tolerance + 1) * kk <= (t + Tolerance + 1) * kk
  BY <1>1, <1>4
<1>5. (s + Tolerance + 1) * kk \in Nat \ {0}
  <2>1. PICK p \in Nat \ {0} : p = s + Tolerance + 1
    BY <1>1
  <2>2. p * kk \in Nat /\ p * kk >= 1 * kk
    OBVIOUS
  <2> QED  BY <2>1, <2>2
<1>6. ASSUME NEW a \in Nat, a \div Kilo <= s + Tolerance PROVE a * Kilo < Worth(s)
  <2>1. PICK q \in Nat : q = a \div Kilo
    BY <1>1, DivBound
  <2>2. a = Kilo * q + (a % Kilo) /\ a % Kilo \in 0..(Kilo - 1)
    BY <1>1, <2>1
  <2>3. a < Kilo * q + Kilo
    BY <1>1, <2>2
  <2>4. PICK p \in Nat : p = s + Tolerance + 1
    BY <1>1
  <2>5. q + 1 <= p
    BY <1>1, <1>6, <2>1, <2>4
  <2>6. Kilo * q + Kilo = (q + 1) * Kilo
    BY <1>1
  <2>7. (q + 1) * Kilo <= p * Kilo
    BY <1>1, <2>5
  <2>8. a < p * Kilo /\ p * Kilo \in Nat
    BY <1>1, <2>3, <2>6, <2>7
  <2>9. a * Kilo < (p * Kilo) * Kilo
    BY <1>1, <2>8
  <2> QED  BY <2>4, <2>9 DEF Worth
<1> QED  BY <1>2, <1>3, <1>4, <1>5, <1>6

\* When a sat a second is a whole number of milli-sats a millisecond, a tick bills
\* the time it covers to the last bit: what is owed stays the same.
LEMMA TickIsExact ==
  ASSUME Rate % Kilo = 0, NEW m \in Meters, m.running, NEW t \in Nat, NEW n \in Nat
  PROVE  /\ Owed(MeterTick(m, t), n) = Owed(m, n)
         /\ MeterTick(m, t).lastTick >= t
         /\ MeterTick(m, t) \in Meters
<1>1. m.accrued \in Nat /\ m.lastTick \in Nat /\ Kilo \in Nat \ {0} /\ Rate \in Nat
  BY LampAssumption DEF Meters
<1>2. CASE t <= m.lastTick
  BY <1>1, <1>2, TickType
<1>3. CASE t > m.lastTick
  <2>1. PICK c \in Nat : Rate = Kilo * c
    <3>1. Rate = Kilo * (Rate \div Kilo) + (Rate % Kilo) /\ Rate \div Kilo \in Nat
      BY <1>1, DivBound
    <3>2. Rate = Kilo * (Rate \div Kilo)
      BY <1>1, <3>1
    <3> QED  BY <3>1, <3>2
  <2>2. PICK d \in Nat : d = t - m.lastTick
    BY <1>1, <1>3
  <2>3. c * d \in Nat
    BY <2>1
  <2>4. Rate * (t - m.lastTick) = Kilo * (c * d)
    <3>1. (Kilo * c) * d = Kilo * (c * d)
      BY <1>1, Regroup
    <3> QED  BY <2>1, <2>2, <3>1
  <2>5. (Rate * (t - m.lastTick)) \div Kilo = c * d
    BY <1>1, <2>3, <2>4, DivExact
  <2>6. MeterTick(m, t) = [m EXCEPT !.accrued = @ + c * d, !.lastTick = t]
    <3>1. ~(~m.running \/ t <= m.lastTick)
      BY <1>1, <1>3
    <3> QED  BY <2>5, <3>1 DEF MeterTick
  <2>7. MeterTick(m, t).accrued = m.accrued + c * d /\ MeterTick(m, t).lastTick = t
        /\ MeterTick(m, t) \in Meters
    <3>1. m.accrued + c * d \in Nat
      BY <1>1, <2>3
    <3> QED  BY <2>6, <3>1 DEF Meters
  <2>8. (m.accrued + c * d) * Kilo = m.accrued * Kilo + Rate * (t - m.lastTick)
    <3>1. PICK cd \in Nat : cd = c * d
      BY <2>3
    <3>2. (m.accrued + cd) * Kilo = m.accrued * Kilo + Kilo * cd
      BY <1>1
    <3> QED  BY <2>4, <3>1, <3>2
  <2>9. Rate * (t - m.lastTick) + Rate * (n - t) = Rate * (n - m.lastTick)
    <3>1. Rate * (n - t) + Rate * (t - m.lastTick) = Rate * (n - m.lastTick)
      <4>1. PICK l \in Int : l = m.lastTick
        BY <1>1
      <4>2. n \in Int /\ t \in Int /\ Rate \in Nat
        BY <1>1
      <4>3. Rate * (n - t) + Rate * (t - l) = Rate * (n - l)
        BY <4>2, Spread
      <4> QED  BY <4>1, <4>3
    <3>2. Rate * (n - t) \in Int /\ Rate * (t - m.lastTick) \in Int
      BY <1>1
    <3> QED  BY <3>1, <3>2
  <2>10. /\ m.accrued * Kilo \in Int /\ Rate * (t - m.lastTick) \in Int /\ Rate * (n - t) \in Int
         /\ Rate * (n - m.lastTick) \in Int
    BY <1>1
  <2> QED  BY <2>7, <2>8, <2>9, <2>10, <1>1 DEF Owed
<1> QED  BY <1>1, <1>2, <1>3

LEMMA RateIs ==
  /\ \A d \in Int : Rate * d \in Int /\ Rate * (d + 1) = Rate * d + Rate
  /\ \A d, e \in Int : d <= e => Rate * d <= Rate * e
  /\ \A d \in Nat : Rate * d \in Nat
  /\ Rate \in Nat
  /\ 2 * LoopPeriod * Rate = Rate * LoopPeriod + Rate * LoopPeriod
  /\ LoopPeriod \in Nat /\ Rate * LoopPeriod \in Nat
<1>1. Rate \in Nat /\ LoopPeriod \in Nat
  BY LampAssumption
<1>2. PICK r \in Nat : r = Rate
  BY <1>1
<1>3. PICK l \in Nat : l = LoopPeriod
  BY <1>1
<1>4. \A d \in Int : r * d \in Int /\ r * (d + 1) = r * d + r
  OBVIOUS
<1>5. \A d, e \in Int : d <= e => r * d <= r * e
  OBVIOUS
<1>6. \A d \in Nat : r * d \in Nat
  OBVIOUS
<1>7. 2 * l * r = r * l + r * l
  OBVIOUS
<1> QED  BY <1>2, <1>3, <1>4, <1>5, <1>6, <1>7

\* The most a tick drops is a number.
LEMMA LossIs == TickLoss \in Nat /\ 0 * TickLoss = 0 /\ \A t \in Nat : t * TickLoss \in Nat
<1>1. TickLoss \in Nat
  BY LampAssumption DEF TickLoss
<1>2. PICK k \in Nat : k = TickLoss
  BY <1>1
<1>3. 0 * k = 0 /\ \A t \in Nat : t * k \in Nat
  OBVIOUS
<1> QED  BY <1>2, <1>3

LEMMA OwedIs ==
  ASSUME NEW m \in Meters, NEW n \in Nat
  PROVE  Owed(m, n) \in Int
<1>1. m.accrued \in Nat /\ m.lastTick \in Nat /\ Kilo \in Nat
  BY LampAssumption DEF Meters
<1>2. m.accrued * Kilo \in Int
  BY <1>1
<1>3. Rate * (n - m.lastTick) \in Int
  <2>1. n - m.lastTick \in Int
    BY <1>1
  <2> QED  BY <2>1, RateIs
<1> QED  BY <1>2, <1>3 DEF Owed

\* A tick bills the time it covers up to what its division drops, which is less
\* than a milli-sat.
LEMMA TickDrops ==
  ASSUME NEW m \in Meters, m.running, NEW t \in Nat, NEW n \in Nat
  PROVE  /\ MeterTick(m, t).lastTick >= t
         /\ Owed(m, n) <= Owed(MeterTick(m, t), n) + TickLoss
<1>1. m.accrued \in Nat /\ m.lastTick \in Nat /\ Kilo \in Nat \ {0} /\ Rate \in Nat
      /\ TickLoss \in Nat /\ Owed(m, n) \in Int
  BY LampAssumption, LossIs, OwedIs DEF Meters
<1>2. CASE Rate % Kilo = 0
  BY <1>1, <1>2, TickIsExact
<1>3. CASE t <= m.lastTick
  BY <1>1, <1>3, TickType
<1>4. CASE Rate % Kilo # 0 /\ t > m.lastTick
  <2>1. PICK due \in Nat : due = Rate * (t - m.lastTick)
    <3>1. t - m.lastTick \in Nat
      BY <1>1, <1>4
    <3> QED  BY <3>1, RateIs
  <2>2. PICK q \in Nat : q = due \div Kilo
    BY <1>1, DivBound
  <2>3. due = Kilo * q + (due % Kilo) /\ due % Kilo \in 0..(Kilo - 1)
    BY <1>1, <2>2
  <2>4. MeterTick(m, t) = [m EXCEPT !.accrued = @ + q, !.lastTick = t]
    <3>1. ~(~m.running \/ t <= m.lastTick)
      BY <1>1, <1>4
    <3> QED  BY <2>1, <2>2, <3>1 DEF MeterTick
  <2>5. MeterTick(m, t).accrued = m.accrued + q /\ MeterTick(m, t).lastTick = t
    BY <1>1, <2>4 DEF Meters
  <2>6. TickLoss = Kilo - 1
    BY <1>4 DEF TickLoss
  <2>7. PICK a \in Int : a = m.accrued * Kilo
    BY <1>1
  <2>8. PICK b \in Int : b = Kilo * q
    BY <1>1
  <2>9. (m.accrued + q) * Kilo = a + b
    BY <1>1, <2>7, <2>8
  <2>10. PICK s \in Int : s = Rate * (n - t)
    BY RateIs
  <2>11. Rate * (n - m.lastTick) = s + due
    <3>1. PICK l \in Int : l = m.lastTick
      BY <1>1
    <3>2. Rate * (n - t) + Rate * (t - l) = Rate * (n - l)
      BY <1>1, Spread
    <3> QED  BY <2>1, <2>10, <3>1, <3>2
  <2>12. due <= b + (Kilo - 1)
    BY <1>1, <2>3, <2>8
  <2>13. Owed(m, n) = a + (s + due)
    BY <2>7, <2>11 DEF Owed
  <2>14. Owed(MeterTick(m, t), n) = (a + b) + s
    BY <2>5, <2>9, <2>10 DEF Owed
  <2>15. a + (s + due) <= ((a + b) + s) + (Kilo - 1)
    BY <1>1, <2>12
  <2> QED  BY <1>1, <2>5, <2>6, <2>13, <2>14, <2>15
<1> QED  BY <1>1, <1>2, <1>3, <1>4

\* What the steps below need of the board's own invariant.
LEMMA BoardIs ==
  ASSUME LampInv
  PROVE  /\ channel \in LampChannels /\ channel.deviceShare \in Nat
         /\ meter \in Meters /\ loop \in Loops /\ led \in BOOLEAN
         /\ now \in Nat /\ served \in Nat /\ loop.time \in Nat /\ loop.time <= now
         /\ Worth(channel.deviceShare) \in Nat \ {0}
         /\ Rate * (now - loop.time) \in Nat
         /\ channel.state = "ACTIVE" => meter.running
         /\ meter.running => channel.state # "OPEN"
         /\ ticks \in Nat /\ ticks * TickLoss \in Nat /\ Net \in Int /\ Net <= served
<1>1. /\ channel \in LampChannels /\ meter \in Meters /\ loop \in Loops /\ led \in BOOLEAN
      /\ now \in Nat /\ served \in Nat /\ loop.time <= now
  BY DEF LampInv, TypeOK, LampChannels, Meters, Loops, ClockOrder
<1>2. channel.deviceShare \in Nat /\ loop.time \in Nat
  BY <1>1 DEF LampChannels, Channels, Loops
<1>3. Worth(channel.deviceShare) \in Nat \ {0}
  BY <1>2, WorthIs
<1>4. Rate * (now - loop.time) \in Nat
  <2>1. now - loop.time \in Nat
    BY <1>1, <1>2
  <2> QED  BY <2>1, RateIs
<1>5. (channel.state = "ACTIVE" => meter.running) /\ (meter.running => channel.state # "OPEN")
  BY DEF LampInv, MeterFollowsChannel
<1>6. ticks \in Nat /\ ticks * TickLoss \in Nat
  BY LossIs DEF LampInv, TypeOK
<1>7. Net \in Int /\ Net <= served
  BY <1>1, <1>6 DEF Net
<1> QED  BY <1>1, <1>2, <1>3, <1>4, <1>5, <1>6, <1>7

LEMMA PaidForIs ==
  ASSUME LampInv, Backed
  PROVE  LightIsPaidFor
<1>1. PICK w \in Nat : w = Worth(channel.deviceShare)
  BY BoardIs
<1>2. PICK p \in Nat : p = Rate * LoopPeriod
  BY RateIs
<1>3. PICK l \in Nat : l = ticks * TickLoss
  BY BoardIs
<1>4. served - l < w + (p + p)
  BY <1>1, <1>2, <1>3 DEF Backed, Net
<1>5. served < w + (p + p) + l
  BY <1>4, BoardIs
<1>6. 2 * LoopPeriod * Rate = p + p
  BY <1>2, RateIs
<1> QED  BY <1>1, <1>3, <1>5, <1>6 DEF LightIsPaidFor, Worth

LEMMA LightBegins == LampInit => LightInv
<1> SUFFICES ASSUME LampInit PROVE LightInv
  OBVIOUS
<1>1. /\ now = 0 /\ loop.time = 0 /\ served = 0 /\ ticks = 0 /\ channel.state = "CLOSED" /\ meter.running = FALSE
      /\ channel.deviceShare = 0
  BY DEF LampInit, ChannelInit, MeterInit
<1>2. Worth(0) \in Nat \ {0}
  BY WorthIs
<1>3. Backed
  <2>1. Net = 0
    BY <1>1, LossIs DEF Net
  <2> QED  BY <1>1, <1>2, <2>1, RateIs DEF Backed
<1> QED  BY <1>1, <1>3, RateIs DEF LightInv

LEMMA LightSame ==
  ASSUME LightInv, UNCHANGED <<now, channel, meter, led, loop, served, ticks>>
  PROVE  LightInv'
BY DEF LightInv, Backed, Net, Owed

\* A new channel has given no light, and lights none before its commitment.
LEMMA LightOpens ==
  ASSUME LampInv, LightInv, NEW at \in 0..now, NEW op \in Opens, RxOpen(op, at)
  PROVE  LightInv'
<1>1. channel' = ApplyOpen(channel, op) /\ UNCHANGED <<now, led, loop>>
  BY DEF RxOpen
<1>2. CASE ~AcceptsOpen(channel)
  <2>1. channel' = channel /\ meter' = meter /\ served' = served /\ ticks' = ticks
    BY <1>1, <1>2, BoardIs, ChannelEffect DEF RxOpen
  <2> QED  BY <1>1, <2>1, LightSame
<1>3. CASE AcceptsOpen(channel)
  <2>1. channel'.state = "OPEN" /\ channel'.deviceShare = 0
    BY <1>1, <1>3, BoardIs, ChannelEffect
  <2>2. served' = 0 /\ Net' = 0 /\ meter'.running = FALSE
    <3>1. served' = 0 /\ ticks' = 0 /\ meter'.running = FALSE
      BY <1>3 DEF RxOpen, MeterInit
    <3>2. Net' = 0
      BY <3>1, LossIs DEF Net
    <3> QED  BY <3>1, <3>2
  <2>3. Worth(0) \in Nat \ {0}
    BY WorthIs
  <2>4. Net' < Worth(channel'.deviceShare) + (Rate * LoopPeriod + Rate * LoopPeriod)
    BY <2>1, <2>2, <2>3, RateIs
  <2>5. Backed'
    BY <2>4 DEF Backed
  <2>6. (now - loop.time <= LoopPeriod)'
    BY <1>1 DEF LightInv
  <2> QED  BY <2>1, <2>2, <2>5, <2>6 DEF LightInv
<1> QED  BY <1>2, <1>3

\* A commitment buys more light, or begins to count it.
LEMMA LightCommits ==
  ASSUME LampInv, LightInv, NEW at \in 0..now, NEW cm \in Commitments, RxCommitment(cm, at)
  PROVE  LightInv'
<1> DEFINE W == Worth(channel.deviceShare)
           X == Worth(channel'.deviceShare)
           G == Rate * (now - loop.time)
           P == Rate * LoopPeriod
<1>1. channel' = ApplyCommitment(channel, cm, at - base) /\ UNCHANGED <<now, base, led, loop, served, ticks, Net>>
  BY DEF RxCommitment, Net
<1>2. at - base \in Int /\ at \in Nat /\ at <= now
  BY BoardIs DEF LampInv, TypeOK
<1>3. CASE ~AcceptsCommitment(channel, cm, at - base)
  <2>1. channel' = channel /\ meter' = meter
    BY <1>1, <1>2, <1>3, BoardIs, ChannelEffect DEF RxCommitment
  <2> QED  BY <1>1, <2>1, LightSame
<1>4. CASE AcceptsCommitment(channel, cm, at - base)
  <2>1. /\ channel.state \in {"OPEN", "ACTIVE"} /\ channel'.state = "ACTIVE"
        /\ channel'.deviceShare >= channel.deviceShare
    BY <1>1, <1>2, <1>4, BoardIs, ChannelEffect
  <2>2. channel' \in LampChannels
    BY <1>1, <1>2, BoardIs, ChannelType
  <2>3. channel'.deviceShare \in Nat
    BY <2>2 DEF LampChannels, Channels
  <2>4. W \in Nat \ {0} /\ X \in Nat \ {0} /\ W <= X
    BY <2>1, <2>3, BoardIs, WorthIs
  <2>5. G \in Nat /\ P \in Nat /\ Net \in Int /\ UNCHANGED <<now, loop, led, Net>>
    BY <1>1, BoardIs, RateIs
  <2>6. meter' = MeterStart(meter, at)
    BY <1>4 DEF RxCommitment
  <2>7. CASE channel.state = "OPEN"
    <3>1. Net <= 0 /\ ~meter.running
      BY <2>7, BoardIs DEF LightInv
    <3>2. meter' = [meter EXCEPT !.running = TRUE, !.lastTick = at]
      BY <2>6, <3>1 DEF MeterStart
    <3>3. meter'.accrued \in Nat /\ meter'.lastTick = at
      BY <3>2, BoardIs DEF Meters
    <3>4. Owed(meter', now) >= 0
      <4>1. Rate * (now - at) \in Nat
        <5>1. now - at \in Nat
          BY <1>2, BoardIs
        <5> QED  BY <5>1, RateIs
      <4>2. meter'.accrued * Kilo \in Nat
        BY <3>3, LampAssumption
      <4> QED  BY <3>3, <4>1, <4>2 DEF Owed
    <3> HIDE DEF X, G, P
    <3>5. /\ Net < X + (P + P)
          /\ Net < X + G
          /\ Net < X + G + (IF loop.at = "look" THEN 0 ELSE P)
      BY <2>4, <2>5, <3>1
    <3>6. Backed'
      BY <2>5, <3>5, RateIs DEF Backed, X, P
    <3>7. now' - loop.time' <= LoopPeriod
      BY <2>5 DEF LightInv
    <3>8. Net' <= Owed(meter', now')
      <4>1. meter' \in Meters
        BY <1>2, <3>2, BoardIs DEF Meters
      <4>2. PICK o \in Int : o = Owed(meter', now)
        BY <4>1, BoardIs, OwedIs
      <4>3. Net' = Net /\ now' = now
        BY <2>5
      <4>4. Net <= o
        BY <2>5, <3>1, <3>4, <4>2
      <4> QED  BY <4>2, <4>3, <4>4
    <3>9. channel'.state # "OPEN"
      BY <2>1
    <3> QED  BY <2>5, <3>5, <3>6, <3>7, <3>8, <3>9 DEF LightInv, X, G, P
  <2>8. CASE channel.state = "ACTIVE"
    <3>1. meter.running
      BY <2>8, BoardIs
    <3>2. meter' = meter
      BY <2>6, <3>1 DEF MeterStart
    <3>3. /\ Net <= Owed(meter, now)
          /\ now - loop.time <= LoopPeriod
          /\ Net < W + (P + P)
          /\ loop.at = "drive" /\ loop.authorized => Net < W + G
          /\ led => Net < W + G + (IF loop.at = "look" THEN 0 ELSE P)
      BY <2>8, <3>1 DEF LightInv, Backed
    <3> HIDE DEF W, X, G, P
    <3>4. /\ Net < X + (P + P)
          /\ loop.at = "drive" /\ loop.authorized => Net < X + G
          /\ led => Net < X + G + (IF loop.at = "look" THEN 0 ELSE P)
      BY <2>4, <2>5, <3>3
    <3>5. Backed'
      BY <2>5, <3>4, RateIs DEF Backed, X, P
    <3> QED  BY <2>1, <2>5, <3>2, <3>3, <3>4, <3>5 DEF LightInv, X, G, P
  <2> QED  BY <2>1, <2>7, <2>8
<1> QED  BY <1>3, <1>4

\* A close ends the light; what was given stays given.
LEMMA LightCloses ==
  ASSUME LampInv, LightInv, NEW at \in 0..now, NEW cl \in Closes, RxClose(cl, at)
  PROVE  LightInv'
<1>1. channel' = ApplyClose(channel, cl) /\ UNCHANGED <<now, base, led, loop, served, ticks, Net>>
  BY DEF RxClose, Net
<1>2. CASE ~AcceptsClose(channel, cl)
  <2>1. channel' = channel /\ meter' = meter
    BY <1>1, <1>2, BoardIs, ChannelEffect DEF RxClose
  <2> QED  BY <1>1, <2>1, LightSame
<1>3. CASE AcceptsClose(channel, cl)
  <2>1. channel' = [channel EXCEPT !.state = "CLOSED"]
    BY <1>1, <1>3, BoardIs, ChannelEffect
  <2>2. channel'.state = "CLOSED" /\ channel'.deviceShare = channel.deviceShare
    BY <2>1, BoardIs DEF LampChannels, Channels
  <2>3. meter' = MeterStop(meter, at) /\ at \in Nat
    BY <1>3 DEF RxClose
  <2>4. meter'.running = FALSE
    BY <2>3, BoardIs, StopEffect
  <2> QED  BY <1>1, <2>2, <2>4 DEF LightInv, Backed
<1> QED  BY <1>2, <1>3

\* The steps of the loop that leave the meter alone: a new pass adds one period.
LEMMA LightLooks ==
  ASSUME LampInv, LightInv, LoopLooks
  PROVE  LightInv'
<1>1. /\ loop.at = "look" /\ loop'.time = now /\ UNCHANGED <<now, channel, base, meter, led, served, ticks, Net>>
      /\ channel.state = "ACTIVE" => loop'.at = "expiry"
  BY DEF LoopLooks, Net
<1>2. now - loop.time <= LoopPeriod /\ now - loop.time \in Int /\ LoopPeriod \in Int /\ now - now = 0
  BY BoardIs, RateIs DEF LightInv
<1>3. Rate * (now - loop.time) <= Rate * LoopPeriod
  BY <1>2, RateIs
<1>4. ASSUME channel.state = "ACTIVE", led
      PROVE  Net < Worth(channel.deviceShare) + Rate * (now - now) + Rate * LoopPeriod
  <2>1. Net < Worth(channel.deviceShare) + Rate * (now - loop.time) + 0
    BY <1>1, <1>4 DEF LightInv
  <2>2. Rate * (now - now) = 0
    BY <1>2, RateIs
  <2>3. PICK w \in Nat : w = Worth(channel.deviceShare)
    BY BoardIs
  <2>4. PICK g \in Nat : g = Rate * (now - loop.time)
    BY BoardIs
  <2>5. PICK p \in Nat : p = Rate * LoopPeriod
    BY RateIs
  <2>6. Net \in Int
    BY BoardIs
  <2>7. g <= p
    BY <1>3, <2>4, <2>5
  <2>8. Net < w + g + 0
    BY <2>1, <2>3, <2>4
  <2>9. Net < w + 0 + p
    BY <2>6, <2>7, <2>8
  <2> QED  BY <2>2, <2>3, <2>5, <2>9
<1>5. Backed'
  BY <1>1 DEF LightInv, Backed
<1>6. (now - loop.time <= LoopPeriod)'
  BY <1>1, <1>2, RateIs
<1>7. /\ (channel.state = "OPEN" => served = 0)'
      /\ (meter.running => Net <= Owed(meter, now))'
  BY <1>1 DEF LightInv, Owed
<1> QED  BY <1>1, <1>4, <1>5, <1>6, <1>7 DEF LightInv

LEMMA LightTicksExpiry ==
  ASSUME LampInv, LightInv, LoopTicksExpiry
  PROVE  LightInv'
<1> DEFINE relative == IF loop.time > base THEN loop.time - base ELSE 0
<1>1. relative \in Int
  BY BoardIs DEF LampInv, TypeOK
<1>2. channel' = TickExpiry(channel, relative) /\ UNCHANGED <<now, base, meter, led, cells, served, ticks, Net>>
      /\ loop' = [loop EXCEPT !.at = IF channel'.state = "EXPIRED" THEN "stop" ELSE "drain"]
      /\ loop.at = "expiry"
  BY DEF LoopTicksExpiry, Net
<1> HIDE DEF relative
<1>3. channel' = channel \/ channel' = [channel EXCEPT !.state = "EXPIRED"]
  BY <1>1, <1>2, BoardIs, ChannelEffect
<1>4. /\ channel'.deviceShare = channel.deviceShare
      /\ channel'.state = channel.state \/ channel'.state = "EXPIRED"
  BY <1>3, BoardIs DEF LampChannels, Channels
<1>5. loop'.time = loop.time /\ loop'.at \in {"stop", "drain"}
  BY <1>2, BoardIs DEF Loops
<1>6. Backed'
  BY <1>2, <1>4 DEF LightInv, Backed
<1> QED  BY <1>2, <1>4, <1>5, <1>6 DEF LightInv, Owed

LEMMA LightStops ==
  ASSUME LampInv, LightInv, LoopStopsMeter
  PROVE  LightInv'
<1>1. meter' = MeterStop(meter, loop.time) /\ UNCHANGED <<now, channel, base, led, cells, served, ticks, Net>>
      /\ loop' = [loop EXCEPT !.at = "drive"] /\ loop.at = "stop"
  BY DEF LoopStopsMeter, Net
<1>2. meter'.running = FALSE
  BY <1>1, BoardIs, StopEffect
<1>3. channel.state # "ACTIVE"
  BY <1>1 DEF LampInv, ExpiryUnderway
<1>4. loop'.time = loop.time
  BY <1>1, BoardIs DEF Loops
<1> QED  BY <1>1, <1>2, <1>3, <1>4 DEF LightInv, Backed

\* An authorization is worth what was paid, up to the moment the pass began.
LEMMA LightDrains ==
  ASSUME LampInv, LightInv, LoopDrains
  PROVE  LightInv'
<1>1. /\ meter' = MeterTick(meter, loop.time) /\ UNCHANGED <<now, channel, base, led, cells, served>>
      /\ loop' = [loop EXCEPT !.at = "drive", !.authorized = Authorized(meter', channel.deviceShare)]
      /\ loop.at = "drain"
  BY DEF LoopDrains
<1>2. loop'.at = "drive" /\ loop'.time = loop.time
      /\ loop'.authorized = Authorized(meter', channel.deviceShare)
  BY <1>1, BoardIs DEF Loops
<1>3. meter' \in Meters /\ meter'.running = meter.running
  BY <1>1, BoardIs, TickType
<1>4. ASSUME meter.running
      PROVE  Net' <= Owed(meter', now) /\ meter'.lastTick >= loop.time
  <2>1. PICK l \in Nat : l = ticks * TickLoss
    BY BoardIs
  <2>2. PICK o \in Int : o = Owed(meter, now)
    BY BoardIs, OwedIs
  <2>3. PICK n \in Int : n = Owed(meter', now)
    BY <1>3, BoardIs, OwedIs
  <2>4. served - l <= o /\ served \in Nat
    BY <1>4, <2>1, <2>2, BoardIs DEF LightInv, Net
  <2>5. meter'.lastTick >= loop.time
    BY <1>1, <1>4, BoardIs, TickDrops
  <2>6. CASE meter' = meter
    <3>1. ticks' = ticks /\ served' = served /\ o = n
      BY <1>1, <2>2, <2>3, <2>6 DEF LoopDrains
    <3>2. Net' = served - l
      BY <2>1, <3>1 DEF Net, TickLoss
    <3> QED  BY <2>3, <2>4, <2>5, <3>1, <3>2
  <2>7. CASE meter' # meter
    <3>1. ticks' = ticks + 1 /\ served' = served
      BY <2>7 DEF LoopDrains
    <3>2. PICK k \in Nat : k = TickLoss
      BY LossIs
    <3>3. o <= n + k
      BY <1>1, <1>4, <2>2, <2>3, <3>2, BoardIs, TickDrops
    <3>4. (ticks + 1) * TickLoss = l + k
      BY <2>1, <3>2, BoardIs
    <3>5. Net' = served - (l + k)
      BY <3>1, <3>4 DEF Net, TickLoss
    <3> QED  BY <2>1, <2>3, <2>4, <2>5, <3>2, <3>3, <3>5
  <2> QED  BY <2>6, <2>7
<1>8. Net' \in Int /\ Net' <= Net
  <2>1. /\ ticks' \in Nat /\ ticks <= ticks' /\ served' = served /\ served \in Nat
        /\ ticks \in Nat
    BY <1>1, BoardIs DEF LoopDrains
  <2>2. PICK k \in Nat : k = TickLoss
    BY LossIs
  <2>3. PICK a \in Nat : a = ticks * k
    BY <2>1
  <2>4. PICK b \in Nat : b = ticks' * k
    <3>1. \A u \in Nat : u * k \in Nat
      OBVIOUS
    <3> QED  BY <2>1, <3>1
  <2>5. a <= b
    <3>1. CASE ticks' = ticks
      BY <2>3, <2>4, <3>1
    <3>2. CASE ticks' = ticks + 1
      BY <2>1, <2>3, <2>4, <3>2
    <3> QED  BY <3>1, <3>2 DEF LoopDrains
  <2>6. Net = served - a
    BY <2>2, <2>3 DEF Net
  <2>7. Net' = served - b
    <3>1. TickLoss' = k
      BY <2>2 DEF TickLoss
    <3> QED  BY <2>1, <2>4, <3>1 DEF Net
  <2> QED  BY <2>1, <2>5, <2>6, <2>7
<1>5. ASSUME channel.state = "ACTIVE", loop'.authorized
      PROVE  Net' < Worth(channel.deviceShare) + Rate * (now - loop.time)
  <2>1. meter.running
    BY <1>5, BoardIs
  <2>2. Net' <= Owed(meter', now)
    BY <1>4, <2>1
  <2>3. meter'.accrued \in Nat /\ meter'.lastTick \in Nat
    BY <1>3 DEF Meters
  <2>4. meter'.accrued * Kilo < Worth(channel.deviceShare)
    <3>1. meter'.accrued \div Kilo <= channel.deviceShare + Tolerance
      BY <1>2, <1>5 DEF Authorized, ConsumedSats
    <3> QED  BY <2>3, <3>1, BoardIs, WorthIs
  <2>5. Rate * (now - meter'.lastTick) <= Rate * (now - loop.time)
    <3>1. now - meter'.lastTick <= now - loop.time /\ now - meter'.lastTick \in Int /\ now - loop.time \in Int
      BY <1>4, <2>1, <2>3, BoardIs
    <3> QED  BY <3>1, RateIs
  <2>6. PICK a \in Int : a = meter'.accrued * Kilo
    BY <2>3, LampAssumption
  <2>7. PICK b \in Int : b = Rate * (now - meter'.lastTick)
    <3>1. now - meter'.lastTick \in Int
      BY <2>3, BoardIs
    <3> QED  BY <3>1, RateIs
  <2>8. PICK g \in Nat : g = Rate * (now - loop.time)
    BY BoardIs
  <2>9. PICK w \in Nat : w = Worth(channel.deviceShare)
    BY BoardIs
  <2>10. Net' <= a + b /\ a < w /\ b <= g
    BY <2>2, <2>4, <2>5, <2>6, <2>7, <2>8, <2>9, BoardIs DEF Owed
  <2>11. Net' < w + g
    BY <1>8, <2>10
  <2> QED  BY <2>8, <2>9, <2>11
<1> DEFINE W == Worth(channel.deviceShare)
           G == Rate * (now - loop.time)
           P == Rate * LoopPeriod
<1>6. /\ Net' < W + (P + P)
      /\ channel.state = "ACTIVE" /\ led => Net' < W + G + P
  <2>1. /\ Net < W + (P + P)
        /\ channel.state = "ACTIVE" /\ led => Net < W + G + P
    BY <1>1 DEF LightInv, Backed
  <2>2. W \in Nat /\ G \in Nat /\ P \in Nat /\ Net \in Int
    BY BoardIs, RateIs
  <2> HIDE DEF W, G, P
  <2> QED  BY <1>8, <2>1, <2>2
<1>7. meter'.running => Net' <= Owed(meter', now')
  BY <1>1, <1>3, <1>4
<1>9. /\ now' = now /\ channel' = channel /\ led' = led /\ loop'.at = "drive" /\ loop'.time = loop.time
      /\ channel.state = "OPEN" => served' = 0
      /\ now - loop.time <= LoopPeriod
  BY <1>1, <1>2 DEF LightInv
<1> QED  BY <1>5, <1>6, <1>7, <1>9 DEF LightInv, Backed

LEMMA LightDrives ==
  ASSUME LampInv, LightInv, LoopDrives
  PROVE  LightInv'
<1>1. /\ led' = (channel.state = "ACTIVE" /\ loop.authorized)
      /\ UNCHANGED <<now, channel, base, meter, cells, served, ticks, Net>>
      /\ loop' = [loop EXCEPT !.at = "look"] /\ loop.at = "drive"
  BY DEF LoopDrives, Net
<1>2. loop'.at = "look" /\ loop'.time = loop.time
  BY <1>1, BoardIs DEF Loops
<1>3. ASSUME channel.state = "ACTIVE", led'
      PROVE  Net < Worth(channel.deviceShare) + Rate * (now - loop.time) + 0
  <2>1. Net < Worth(channel.deviceShare) + Rate * (now - loop.time)
    BY <1>1, <1>3 DEF LightInv
  <2>2. Worth(channel.deviceShare) + Rate * (now - loop.time) \in Nat
    BY BoardIs
  <2> QED  BY <2>1, <2>2
<1>4. Backed'
  BY <1>1 DEF LightInv, Backed
<1> QED  BY <1>1, <1>2, <1>3, <1>4 DEF LightInv, Owed

\* A millisecond of light is within the millisecond by which each bound grows.
LEMMA LightShines ==
  ASSUME LampInv, LightInv, Tick
  PROVE  LightInv'
<1> DEFINE w == Worth(channel.deviceShare)
           g == Rate * (now - loop.time)
           p == Rate * LoopPeriod
           lit == led /\ channel.state = "ACTIVE"
<1>1. /\ now' = now + 1 /\ UNCHANGED <<channel, base, meter, led, loop, cells, ticks>>
      /\ now - loop.time < LoopPeriod
      /\ served' = IF lit THEN served + Rate ELSE served
  BY DEF Tick
<1>2. w \in Nat /\ g \in Nat /\ p \in Nat /\ served \in Nat /\ Net \in Int /\ Rate \in Nat /\ now \in Nat /\ loop.time \in Nat
  BY BoardIs, RateIs
<1>3. (now + 1) - loop.time = (now - loop.time) + 1 /\ now - loop.time \in Int
      /\ (now - loop.time) + 1 <= LoopPeriod /\ LoopPeriod \in Int
  BY <1>1, <1>2, RateIs
<1>4. Rate * ((now + 1) - loop.time) = g + Rate /\ g + Rate <= p
  <2>1. Rate * ((now - loop.time) + 1) = g + Rate
    BY <1>3, RateIs
  <2>2. Rate * ((now - loop.time) + 1) <= p
    BY <1>3, RateIs
  <2> QED  BY <1>3, <2>1, <2>2
<1>5. /\ channel.state = "OPEN" => served = 0
      /\ meter.running => Net <= Owed(meter, now)
      /\ Net < w + (p + p)
      /\ channel.state = "ACTIVE" /\ loop.at = "drive" /\ loop.authorized => Net < w + g
      /\ lit => Net < w + g + (IF loop.at = "look" THEN 0 ELSE p)
  BY DEF LightInv, Backed
<1>6. Owed(meter, now + 1) = Owed(meter, now) + Rate
  <2>1. meter.lastTick \in Nat /\ meter.accrued \in Nat
    BY BoardIs DEF Meters
  <2>2. now - meter.lastTick \in Int /\ (now + 1) - meter.lastTick = (now - meter.lastTick) + 1
    BY <1>2, <2>1
  <2>3. Rate * ((now - meter.lastTick) + 1) = Rate * (now - meter.lastTick) + Rate
        /\ Rate * (now - meter.lastTick) \in Int
    BY <2>2, RateIs
  <2>4. meter.accrued * Kilo \in Int
    BY <2>1, LampAssumption
  <2> QED  BY <1>2, <2>2, <2>3, <2>4 DEF Owed
<1>7. meter.running => Owed(meter, now) \in Int
  <2>1. meter.lastTick \in Nat /\ meter.accrued \in Nat
    BY BoardIs DEF Meters
  <2>2. Rate * (now - meter.lastTick) \in Int /\ meter.accrued * Kilo \in Int
    <3>1. now - meter.lastTick \in Int
      BY <1>2, <2>1
    <3> QED  BY <2>1, <3>1, RateIs, LampAssumption
  <2> QED  BY <2>2 DEF Owed
<1> HIDE DEF w, g, p
<1>8. /\ Net' <= Net + Rate /\ Net' \in Int /\ (~lit => Net' = Net /\ served' = served)
  <2>1. PICK l \in Nat : l = ticks * TickLoss
    BY BoardIs
  <2>2. ticks' = ticks /\ TickLoss' = TickLoss
    BY <1>1 DEF TickLoss
  <2>3. Net = served - l /\ Net' = served' - l
    BY <2>1, <2>2 DEF Net
  <2> QED  BY <1>1, <1>2, <2>3
<1>9. Net' < w + (p + p)
  BY <1>2, <1>4, <1>5, <1>8
<1>10. channel.state = "ACTIVE" /\ loop.at = "drive" /\ loop.authorized => Net' < w + (g + Rate)
  BY <1>2, <1>5, <1>8
<1>11. lit => Net' < w + (g + Rate) + (IF loop.at = "look" THEN 0 ELSE p)
  BY <1>2, <1>5, <1>8
<1>12. meter.running => Net' <= Owed(meter, now + 1)
  BY <1>2, <1>5, <1>6, <1>7, <1>8
<1>13. Backed'
  BY <1>1, <1>9 DEF Backed, w, p
<1>14. (channel.state = "OPEN" => served = 0)'
  BY <1>1, <1>5, <1>8
<1>15. (now - loop.time <= LoopPeriod)'
  BY <1>1, <1>3
<1> QED  BY <1>1, <1>4, <1>10, <1>11, <1>12, <1>13, <1>14, <1>15 DEF LightInv, w, p

\* A board never gives more light in a channel than was paid, the tolerance, the sat
\* under way, two passes of its loop and what the ticks of its meter have dropped,
\* less than a milli-sat each (cell_meter.zig:24, main.c:3035), at any rate, whenever
\* cells arrive within their pass, how long they are verified and how the clock falls.
THEOREM NoLightIsGivenAway ==
  ASSUME CellsPerPass <= 1
  PROVE  LampSpec => []LightIsPaidFor
<1>1. ASSUME LampInv, LightInv, [LampNext]_lampVars PROVE LightInv'
  <2>1. CASE Reboot
    <3>1. LampInit'
      BY <2>1 DEF Reboot, LampInit
    <3> QED  BY <3>1, LightBegins, PTL
  <2>2. CASE UNCHANGED lampVars
    BY <1>1, <2>2, LightSame DEF lampVars
  <2> QED  BY <1>1, <2>1, <2>2, LightOpens, LightCommits, LightCloses, LightLooks, LightTicksExpiry,
              LightStops, LightDrains, LightDrives, LightShines DEF LampNext
<1>2. LampInv /\ LightInv => LightIsPaidFor
  BY PaidForIs DEF LightInv
<1> QED  BY <1>1, <1>2, LightBegins, LampInvariant, PTL DEF LampSpec

-----------------------------------------------------------------------------
(* The bridge's books *)

\* The sets the records come from.
BoardChannels == Channels(1..MaxChannels, Nat, Nat, Nat)
Books == [id: 1..MaxChannels, seq: Nat, share: Nat, satsPaid: Nat]
Jobs == [at: JobSteps, sats: Sats \cup {0}, left: 0..Repeat, cell: Cells]
Unrecorded == {j \in Jobs : j.at # "record"}

LEMMA PaidSats ==
  ASSUME NEW s \in Sats \cup {0}
  PROVE  s \in Nat
BY MeterAssumption

\* What a job adds is a number of sats.
LEMMA JobSats ==
  ASSUME job \in Jobs
  PROVE  job.sats \in Nat
<1>1. job.sats \in Sats \cup {0}
  BY DEF Jobs
<1> QED  BY <1>1, PaidSats

\* The commitments the bridge puts on the air.
IsCommitment(cm) ==
  /\ cm.kind = "commitment" /\ cm.id = books.id
  /\ cm.seq \in Nat /\ cm.deviceShare \in Nat
  /\ cm.userShare = 0 /\ cm.expiry = 1

LEMMA CommitmentFields ==
  ASSUME NEW seq \in Nat, NEW share \in Nat, books \in Books
  PROVE  /\ IsCommitment(Commitment(seq, share))
         /\ Commitment(seq, share).seq = seq
         /\ Commitment(seq, share).deviceShare = share
         /\ Commitment(seq, share) \in Cells
BY DEF Commitment, Books, Cells, Never, IsCommitment

\* What a cell of the books' channel does to a board's.
LEMMA OpenEffect ==
  ASSUME NEW c \in BoardChannels, books \in Books
  PROVE  LET d == Applied(c, OpenCell)
         IN /\ d \in BoardChannels
            /\ c.state # "CLOSED" => d = c
            /\ c.state = "CLOSED" => /\ d.state = "OPEN" /\ d.id = books.id
                                     /\ d.capacity = Capacity
                                     /\ d.seq = 0 /\ d.deviceShare = 0
<1> DEFINE d == Applied(c, OpenCell)
<1>1. d = ApplyOpen(c, OpenCell) /\ OpenCell.id = books.id /\ OpenCell.capacity = Capacity
  BY DEF Applied, OpenCell
<1> HIDE DEF d
<1>2. books.id \in 1..MaxChannels /\ Capacity \in Nat
  BY DEF Books, Capacity
<1>3. c.state = "CLOSED" => /\ d \in BoardChannels /\ d.state = "OPEN" /\ d.id = books.id
                            /\ d.capacity = Capacity /\ d.seq = 0 /\ d.deviceShare = 0
  <2> HAVE c.state = "CLOSED"
  <2>1. d = [ChannelInit EXCEPT !.state = "OPEN", !.id = books.id, !.capacity = Capacity]
    BY <1>1 DEF ApplyOpen, AcceptsOpen
  <2> QED  BY <1>2, <2>1 DEF ChannelInit, BoardChannels, Channels, ChannelStates
<1>4. c.state # "CLOSED" => d = c
  BY <1>1 DEF ApplyOpen, AcceptsOpen
<1> QED  BY <1>3, <1>4 DEF d

LEMMA CommitmentEffect ==
  ASSUME NEW c \in BoardChannels, books \in Books, NEW cm, IsCommitment(cm)
  PROVE  LET d == Applied(c, cm)
             taken == /\ c.state \in {"OPEN", "ACTIVE"} /\ c.id = books.id /\ cm.seq > c.seq
                      /\ cm.deviceShare >= c.deviceShare /\ cm.deviceShare <= c.capacity
         IN /\ d \in BoardChannels /\ d.id = c.id
            /\ ~taken => d = c
            /\ taken => /\ d.state = "ACTIVE" /\ d.capacity = c.capacity
                        /\ d.seq = cm.seq /\ d.deviceShare = cm.deviceShare
<1> DEFINE d == Applied(c, cm)
<1>2. d = ApplyCommitment(c, cm, 0)
  BY DEF Applied, IsCommitment
<1> HIDE DEF d
<1>3. AcceptsCommitment(c, cm, 0) <=>
        /\ c.state \in {"OPEN", "ACTIVE"} /\ c.id = books.id /\ cm.seq > c.seq
        /\ cm.deviceShare >= c.deviceShare /\ cm.deviceShare <= c.capacity
  BY DEF AcceptsCommitment, IsCommitment
<1>4. AcceptsCommitment(c, cm, 0) =>
        /\ d \in BoardChannels /\ d.state = "ACTIVE" /\ d.id = c.id
        /\ d.capacity = c.capacity /\ d.seq = cm.seq /\ d.deviceShare = cm.deviceShare
  <2> HAVE AcceptsCommitment(c, cm, 0)
  <2>1. d = [c EXCEPT !.state = "ACTIVE", !.seq = cm.seq, !.deviceShare = cm.deviceShare,
                      !.userShare = 0, !.expiry = 1]
    BY <1>2 DEF ApplyCommitment, IsCommitment
  <2> QED  BY <2>1 DEF BoardChannels, Channels, ChannelStates, IsCommitment
<1>5. ~AcceptsCommitment(c, cm, 0) => d = c
  BY <1>2 DEF ApplyCommitment
<1> QED  BY <1>3, <1>4, <1>5 DEF d

LEMMA CloseEffect ==
  ASSUME NEW c \in BoardChannels, books \in Books
  PROVE  LET d == Applied(c, CloseCell)
             taken == /\ c.state \in {"ACTIVE", "EXPIRED"} /\ c.id = books.id
                      /\ c.seq = books.seq /\ c.deviceShare = books.share
         IN /\ d \in BoardChannels
            /\ ~taken => d = c
            /\ taken => d.state = "CLOSED" /\ d.id = c.id
<1> DEFINE d == Applied(c, CloseCell)
<1>1. d = ApplyClose(c, CloseCell)
  BY DEF Applied, CloseCell
<1> HIDE DEF d
<1>2. AcceptsClose(c, CloseCell) <=>
        /\ c.state \in {"ACTIVE", "EXPIRED"} /\ c.id = books.id
        /\ c.seq = books.seq /\ c.deviceShare = books.share
  BY DEF AcceptsClose, CloseCell
<1>3. CASE AcceptsClose(c, CloseCell)
  <2>1. d = [c EXCEPT !.state = "CLOSED"]
    BY <1>1, <1>3 DEF ApplyClose
  <2> QED  BY <1>2, <1>3, <2>1 DEF BoardChannels, Channels, ChannelStates, d
<1>4. CASE ~AcceptsClose(c, CloseCell)
  <2>1. d = c
    BY <1>1, <1>4 DEF ApplyClose
  <2> QED  BY <1>2, <1>4, <2>1 DEF d
<1> QED  BY <1>3, <1>4

-----------------------------------------------------------------------------
(* The books are on disk and the ids are fresh, whatever goes wrong *)

SavedInv == MeterTypeOK /\ AnsweredIsSaved /\ BooksAreCurrent /\ RecordIsNext

\* A cell on the air leaves the boards' channels typed and their ids drawn.
LEMMA HearKeeps ==
  ASSUME MeterTypeOK, BooksAreCurrent, NEW heard \in SUBSET Boards, NEW cell,
         \/ cell = OpenCell
         \/ cell = CloseCell
         \/ IsCommitment(cell),
         Hear(cell, heard)
  PROVE  /\ boards' \in [Boards -> BoardChannels]
         /\ \A b \in Boards : boards'[b].id \in 1..drawn \cup {NoId}
<1>1. books \in Books /\ boards \in [Boards -> BoardChannels]
  BY DEF MeterTypeOK, Books, BoardChannels
<1>2. ASSUME NEW b \in Boards
      PROVE  /\ Applied(boards[b], cell) \in BoardChannels
             /\ Applied(boards[b], cell).id \in 1..drawn \cup {NoId}
  <2>1. boards[b] \in BoardChannels /\ boards[b].id \in 1..drawn \cup {NoId}
    BY <1>1 DEF BooksAreCurrent
  <2>2. books.id \in 1..drawn
    BY DEF BooksAreCurrent
  <2>3. CASE cell = OpenCell
    BY <1>1, <2>1, <2>2, <2>3, OpenEffect
  <2>4. CASE cell = CloseCell
    BY <1>1, <2>1, <2>4, CloseEffect
  <2>5. CASE IsCommitment(cell)
    BY <1>1, <2>1, <2>5, CommitmentEffect
  <2> QED  BY <2>3, <2>4, <2>5
<1>3. boards' = [b \in Boards |-> IF b \in heard THEN Applied(boards[b], cell) ELSE boards[b]]
  BY DEF Hear
<1>4. \A b \in Boards : boards[b] \in BoardChannels /\ boards[b].id \in 1..drawn \cup {NoId}
  BY <1>1 DEF BooksAreCurrent
<1> QED  BY <1>2, <1>3, <1>4

LEMMA SavedStep ==
  ASSUME SavedInv, [Next]_vars
  PROVE  SavedInv'
<1> USE DEF SavedInv
<1>1. /\ boards \in [Boards -> BoardChannels] /\ up \in BOOLEAN
      /\ books \in Books /\ disk = books /\ job \in Jobs
      /\ tail \in 0..(CommitRepeat - 1) /\ drawn \in 1..MaxChannels /\ answered \in Nat
      /\ listening \subseteq Boards /\ copies \subseteq Boards
      /\ disk.satsPaid = answered /\ books.id \in 1..drawn
      /\ books.seq = 0 => books.share = 0
      /\ \A b \in Boards : boards[b].id \in 1..drawn \cup {NoId}
      /\ job.at = "record" => /\ job.cell.seq = books.seq + 1
                              /\ job.cell.deviceShare \in books.share..Capacity
  BY DEF MeterTypeOK, BooksAreCurrent, AnsweredIsSaved, RecordIsNext, Books, Jobs, BoardChannels
<1> DEFINE Kept ==
        /\ boards' \in [Boards -> BoardChannels] /\ up' \in BOOLEAN
        /\ books' \in Books /\ disk' = books' /\ job' \in Jobs
        /\ tail' \in 0..(CommitRepeat - 1) /\ drawn' \in 1..MaxChannels /\ answered' \in Nat
        /\ listening' \subseteq Boards /\ copies' \subseteq Boards
        /\ disk'.satsPaid = answered' /\ books'.id \in 1..drawn'
        /\ books'.seq = 0 => books'.share = 0
        /\ \A b \in Boards : boards'[b].id \in 1..drawn' \cup {NoId}
        /\ job'.at = "record" => /\ job'.cell.seq = books'.seq + 1
                                 /\ job'.cell.deviceShare \in books'.share..Capacity
<1>2. Kept => SavedInv'
  BY DEF MeterTypeOK, BooksAreCurrent, AnsweredIsSaved, RecordIsNext, Books, Jobs, BoardChannels
<1>3. /\ \A at \in JobSteps \ {"record"} : [job EXCEPT !.at = at] \in Unrecorded
      /\ \A at \in JobSteps \ {"record"}, left \in 0..Repeat :
           [job EXCEPT !.at = at, !.left = left] \in Unrecorded
      /\ Idle \in Unrecorded
      /\ Repeat \in 0..Repeat /\ 1 \in 0..Repeat
      /\ {"idle", "flush", "resync", "close", "renew", "open", "commit"} \subseteq JobSteps \ {"record"}
      /\ \A j \in Unrecorded : j \in Jobs /\ j.at # "record"
  <2>1. Repeat \in Nat \ {0}
    BY MeterAssumption
  <2>2. NoCell \in Cells
    BY DEF NoCell, Cells
  <2>3. Idle \in Unrecorded
    BY <2>1, <2>2 DEF Idle, Unrecorded, Jobs, JobSteps
  <2>4. Repeat \in 0..Repeat /\ 1 \in 0..Repeat
    BY <2>1
  <2>5. \A at \in JobSteps \ {"record"} : [job EXCEPT !.at = at] \in Unrecorded
    BY <1>1 DEF Jobs, Unrecorded
  <2>6. \A at \in JobSteps \ {"record"}, left \in 0..Repeat :
          [job EXCEPT !.at = at, !.left = left] \in Unrecorded
    BY <1>1 DEF Jobs, Unrecorded
  <2> QED  BY <2>3, <2>4, <2>5, <2>6 DEF JobSteps, Unrecorded
<1>4. ASSUME NEW heard \in SUBSET Boards, NEW cell,
             cell = OpenCell \/ cell = CloseCell \/ IsCommitment(cell), Hear(cell, heard)
      PROVE  /\ boards' \in [Boards -> BoardChannels]
             /\ \A b \in Boards : boards'[b].id \in 1..drawn \cup {NoId}
  BY <1>4, HearKeeps
<1>5. CASE Start
  <2>1. /\ [Idle EXCEPT !.at = "resync", !.left = Repeat] \in Unrecorded
        /\ [Idle EXCEPT !.at = "open", !.left = Repeat] \in Unrecorded
    BY <1>3 DEF Unrecorded, Jobs
  <2>2. job' \in Unrecorded
    BY <1>5, <2>1 DEF Start
  <2>3. listening' \subseteq Boards
    BY <1>5 DEF Start
  <2> QED  BY <1>1, <1>2, <1>3, <1>5, <2>2, <2>3 DEF Start
<1>6. ASSUME NEW heard \in SUBSET Boards, NEW acked \in BOOLEAN, Resync(heard, acked)
      PROVE  Kept
  <2>1. IsCommitment(Commitment(books.seq, books.share))
        /\ Hear(Commitment(books.seq, books.share), heard)
    BY <1>1, <1>6, CommitmentFields DEF Resync, Broadcast, Books
  <2>2. boards' \in [Boards -> BoardChannels] /\ \A b \in Boards : boards'[b].id \in 1..drawn \cup {NoId}
    BY <1>4, <2>1
  <2>3. job' \in Unrecorded
    BY <1>3, <1>6 DEF Resync
  <2> QED  BY <1>1, <1>3, <1>6, <2>2, <2>3 DEF Resync
<1>7. ASSUME NEW heard \in SUBSET Boards, NEW acked \in BOOLEAN, Close(heard, acked)
      PROVE  Kept
  <2>1. boards' \in [Boards -> BoardChannels] /\ \A b \in Boards : boards'[b].id \in 1..drawn \cup {NoId}
    BY <1>4, <1>7 DEF Close, Broadcast
  <2>2. job' \in Unrecorded
    <3>1. CASE job.left > 1
      <4>1. job.left - 1 \in 0..Repeat
        BY <1>1, <3>1, MeterAssumption DEF Jobs
      <4>2. job' = [job EXCEPT !.left = job.left - 1] /\ job.at = "close"
        BY <1>7, <3>1 DEF Close
      <4> QED  BY <1>1, <4>1, <4>2 DEF Jobs, Unrecorded
    <3>2. CASE ~(job.left > 1)
      BY <1>3, <1>7, <3>2 DEF Close
    <3> QED  BY <3>1, <3>2
  <2>3. listening' \subseteq Boards /\ copies' \subseteq Boards
    BY <1>1, <1>7 DEF Close
  <2> QED  BY <1>1, <1>3, <1>7, <2>1, <2>2, <2>3 DEF Close
<1>8. CASE Renew
  <2>1. drawn' \in 1..MaxChannels /\ drawn' = drawn + 1
    BY <1>1, <1>8, MeterAssumption DEF Renew
  <2>2. books' \in Books /\ books'.id = drawn' /\ books'.share = 0
        /\ books'.satsPaid = books.satsPaid
    BY <1>1, <1>8, <2>1 DEF Renew, Fresh, Books
  <2>3. \A b \in Boards : boards'[b].id \in 1..drawn' \cup {NoId}
    BY <1>1, <1>8, <2>1 DEF Renew
  <2>4. drawn' \in 1..drawn'
    BY <2>1, MeterAssumption
  <2>5. job' \in Unrecorded
    BY <1>3, <1>8 DEF Renew
  <2> QED  BY <1>1, <1>2, <1>3, <1>8, <2>1, <2>2, <2>3, <2>4, <2>5 DEF Renew
<1>9. ASSUME NEW heard \in SUBSET Boards, NEW acked \in BOOLEAN, Open(heard, acked)
      PROVE  Kept
  <2>1. boards' \in [Boards -> BoardChannels] /\ \A b \in Boards : boards'[b].id \in 1..drawn \cup {NoId}
    BY <1>4, <1>9 DEF Open, Broadcast
  <2>2. job' \in Unrecorded
    <3>1. CASE job.left > 1
      <4>1. job.left - 1 \in 0..Repeat
        BY <1>1, <3>1, MeterAssumption DEF Jobs
      <4>2. job' = [job EXCEPT !.left = job.left - 1] /\ job.at = "open"
        BY <1>9, <3>1 DEF Open
      <4> QED  BY <1>1, <4>1, <4>2 DEF Jobs, Unrecorded
    <3>2. CASE ~(job.left > 1)
      BY <1>3, <1>9, <3>2 DEF Open
    <3> QED  BY <3>1, <3>2
  <2>3. listening' \subseteq Boards /\ copies' \subseteq Boards
    BY <1>1, <1>9 DEF Open
  <2> QED  BY <1>1, <1>3, <1>9, <2>1, <2>2, <2>3 DEF Open
<1>10. CASE \/ \E sats \in Sats : AddSats(sats)
            \/ GoesDark \/ StillLit \/ Throws \/ Crash
  <2>1. job' \in Unrecorded /\ listening' \subseteq Boards /\ copies' \subseteq Boards
    <3>1. ASSUME NEW sats \in Sats, AddSats(sats)
          PROVE  job' \in Unrecorded /\ listening' \subseteq Boards /\ copies' \subseteq Boards
      <4>1. [Idle EXCEPT !.at = "flush", !.sats = sats] \in Unrecorded
        BY <1>3 DEF Unrecorded, Jobs
      <4> QED  BY <1>1, <3>1, <4>1 DEF AddSats
    <3>2. CASE GoesDark
      BY <1>1, <1>3, <3>2 DEF GoesDark
    <3>3. CASE StillLit
      <4>1. \/ job' = [job EXCEPT !.at = "open", !.left = 1]
            \/ job' = [job EXCEPT !.at = "commit"]
        BY <3>3 DEF StillLit
      <4>2. [job EXCEPT !.at = "open", !.left = 1] \in Unrecorded
            /\ [job EXCEPT !.at = "commit"] \in Unrecorded
        <5>1. "open" \in JobSteps \ {"record"} /\ "commit" \in JobSteps \ {"record"} /\ 1 \in 0..Repeat
          BY <1>3
        <5> QED  BY <1>3, <5>1
      <4> QED  BY <1>1, <3>3, <4>1, <4>2 DEF StillLit
    <3>4. CASE Throws
      BY <1>1, <1>3, <3>4 DEF Throws
    <3>5. CASE Crash
      BY <1>1, <1>3, <3>5 DEF Crash
    <3> QED  BY <1>10, <3>1, <3>2, <3>3, <3>4, <3>5
  <2>2. 0 \in 0..(CommitRepeat - 1)
    BY MeterAssumption
  <2>3. UNCHANGED <<boards, books, disk, drawn, answered>> /\ up' \in BOOLEAN /\ tail' \in {tail, 0}
    BY <1>1, <1>10 DEF AddSats, GoesDark, StillLit, Throws, Crash
  <2>4. boards' = boards /\ books' = books /\ disk' = disk /\ drawn' = drawn /\ answered' = answered
    BY <2>3
  <2>5. tail' \in 0..(CommitRepeat - 1)
    BY <1>1, <2>2, <2>3
  <2> QED  BY <1>1, <1>2, <1>3, <2>1, <2>3, <2>4, <2>5
<1>11. ASSUME NEW heard \in SUBSET Boards, RepeatCommitment(heard)
       PROVE  Kept
  <2>1. IsCommitment(Commitment(books.seq, books.share))
        /\ Hear(Commitment(books.seq, books.share), heard)
    BY <1>1, <1>11, CommitmentFields DEF RepeatCommitment, Books
  <2>2. boards' \in [Boards -> BoardChannels] /\ \A b \in Boards : boards'[b].id \in 1..drawn \cup {NoId}
    BY <1>4, <2>1
  <2>3. tail' \in 0..(CommitRepeat - 1)
    BY <1>1, <1>11, MeterAssumption DEF RepeatCommitment
  <2> QED  BY <1>1, <1>11, <2>2, <2>3 DEF RepeatCommitment
<1>12. ASSUME NEW heard \in SUBSET Boards, NEW acked \in BOOLEAN,
              NEW catchUp \in 0..MaxCatchUp, Commit(heard, acked, catchUp)
       PROVE  Kept
  <2> DEFINE seq == books.seq + 1
  <2> DEFINE share == books.share + catchUp + job.sats
  <2> DEFINE cell == Commitment(seq, share)
  <2>1. seq \in Nat /\ share \in Nat /\ share >= books.share
    <3>1. job.sats \in Nat
      BY <1>1, JobSats
    <3>2. catchUp \in Nat
      BY <1>12, MeterAssumption
    <3>3. books.seq \in Nat /\ books.share \in Nat
      BY <1>1 DEF Books
    <3> QED  BY <3>1, <3>2, <3>3
  <2>2. /\ Hear(cell, heard)
        /\ job' = IF acked THEN [job EXCEPT !.at = "record", !.cell = cell] ELSE Idle
        /\ cell.deviceShare <= Capacity
    BY <1>12 DEF Commit, Broadcast
  <2>3. IsCommitment(cell) /\ cell \in Cells /\ cell.seq = books.seq + 1 /\ cell.deviceShare = share
    <3> HIDE DEF share
    <3>1. books \in Books
      BY <1>1
    <3> QED  BY <2>1, <3>1, CommitmentFields
  <2> HIDE DEF seq, share, cell
  <2>4. boards' \in [Boards -> BoardChannels] /\ \A b \in Boards : boards'[b].id \in 1..drawn \cup {NoId}
    BY <1>4, <2>2, <2>3
  <2>5. job' \in Jobs /\ (job'.at = "record" => job'.cell = cell)
    <3>1. CASE acked
      <4>1. job' = [job EXCEPT !.at = "record", !.cell = cell]
        BY <2>2, <3>1
      <4> QED  BY <1>1, <2>3, <4>1 DEF Jobs, JobSteps
    <3>2. CASE ~acked
      <4>1. job' = Idle
        BY <2>2, <3>2
      <4> QED  BY <1>3, <4>1
    <3> QED  BY <3>1, <3>2
  <2>6. job'.at = "record" => /\ job'.cell.seq = books.seq + 1
                             /\ job'.cell.deviceShare \in books.share..Capacity
    <3>1. books.share \in Nat /\ Capacity \in Nat
      BY <1>1 DEF Books, Capacity
    <3> QED  BY <2>1, <2>2, <2>3, <2>5, <3>1
  <2>7. /\ books' = books /\ disk' = disk /\ drawn' = drawn /\ answered' = answered /\ up' = up
        /\ tail' = tail /\ listening' = listening /\ copies' = copies
    BY <1>12 DEF Commit
  <2> QED  BY <1>1, <2>4, <2>5, <2>6, <2>7
<1>13. CASE Record
  <2>1. /\ job.cell.seq \in Nat /\ job.cell.deviceShare \in Nat /\ job.sats \in Nat
        /\ job.cell.seq = books.seq + 1
    BY <1>1, <1>13, JobSats DEF Jobs, Cells, Record
  <2>2. books' = [books EXCEPT !.seq = job.cell.seq, !.share = job.cell.deviceShare,
                               !.satsPaid = books.satsPaid + job.sats]
    BY <1>13 DEF Record
  <2>3. books' \in Books /\ books'.id = books.id /\ books'.seq = books.seq + 1
        /\ books'.satsPaid = books.satsPaid + job.sats
    <3>1. books.satsPaid + job.sats \in Nat
      BY <1>1, <2>1 DEF Books
    <3> QED  BY <1>1, <2>1, <2>2, <3>1 DEF Books
  <2>4. tail' \in 0..(CommitRepeat - 1) /\ answered' = answered + job.sats /\ answered' \in Nat
    BY <1>1, <1>13, <2>1, MeterAssumption DEF Record
  <2>5. books'.seq # 0
    BY <1>1, <2>3 DEF Books
  <2>6. boards' = boards /\ up' = up /\ drawn' = drawn /\ listening' = listening /\ copies' = copies
        /\ disk' = books' /\ job' = Idle
    BY <1>13 DEF Record
  <2> QED  BY <1>1, <1>2, <1>3, <2>3, <2>4, <2>5, <2>6
<1>14. ASSUME NEW b \in Boards, BoardReboots(b)
       PROVE  Kept
  <2>1. ChannelInit \in BoardChannels /\ ChannelInit.id = NoId
    BY DEF ChannelInit, BoardChannels, Channels, ChannelStates
  <2> QED  BY <1>1, <1>14, <2>1 DEF BoardReboots
<1>15. CASE UNCHANGED vars
  BY <1>1, <1>2, <1>15 DEF vars
<1> HIDE DEF Kept
<1>16. CASE BridgeStep
  <2>1. ASSUME NEW heard \in SUBSET Boards, NEW acked \in BOOLEAN,
               \/ Resync(heard, acked)
               \/ Close(heard, acked)
               \/ Open(heard, acked)
               \/ \E catchUp \in 0..MaxCatchUp : Commit(heard, acked, catchUp)
        PROVE  Kept
    BY <1>6, <1>7, <1>9, <1>12, <2>1
  <2>2. CASE \/ \E heard \in SUBSET Boards : RepeatCommitment(heard)
             \/ Renew \/ GoesDark \/ StillLit \/ Record \/ Throws
    BY <1>2, <1>8, <1>10, <1>11, <1>13, <2>2
  <2> QED  BY <1>2, <1>16, <2>1, <2>2 DEF BridgeStep
<1> QED
  <2>1. CASE \E b \in Boards : BoardReboots(b)
    BY <1>2, <1>14, <2>1
  <2>2. CASE \E sats \in Sats : AddSats(sats)
    BY <1>10, <2>2
  <2>3. CASE Crash
    BY <1>10, <2>3
  <2> QED  BY <1>5, <1>15, <1>16, <2>1, <2>2, <2>3 DEF Next

LEMMA SavedInit == Init => SavedInv
<1> SUFFICES ASSUME Init PROVE SavedInv
  OBVIOUS
<1>1. /\ ChannelInit \in BoardChannels /\ ChannelInit.id = NoId
      /\ Fresh(1, 0) \in Books /\ Fresh(1, 0).id = 1 /\ Fresh(1, 0).share = 0
      /\ Fresh(1, 0).satsPaid = 0
  BY MeterAssumption
     DEF ChannelInit, BoardChannels, Channels, ChannelStates, Fresh, Books
<1>2. NoCell \in Cells
  BY DEF NoCell, Cells
<1>3. Idle \in Jobs /\ Idle.at = "idle"
  BY <1>2, MeterAssumption DEF Idle, Jobs, JobSteps
<1>4. 0 \in 0..(CommitRepeat - 1) /\ 1 \in 1..MaxChannels /\ 1 \in 1..1
  BY MeterAssumption
<1>5. boards \in [Boards -> BoardChannels] /\ \A b \in Boards : boards[b].id = NoId
  BY <1>1 DEF Init
<1>6. MeterTypeOK
  BY <1>1, <1>3, <1>4, <1>5 DEF Init, MeterTypeOK, Books, Jobs, BoardChannels
<1>7. AnsweredIsSaved /\ RecordIsNext /\ BooksAreCurrent
  BY <1>1, <1>3, <1>4, <1>5 DEF Init, AnsweredIsSaved, RecordIsNext, BooksAreCurrent
<1> QED  BY <1>6, <1>7 DEF SavedInv

\* What the payers were answered is in the state file, and the books keep
\* their type, whatever is missed, wherever the bridge dies (meter.ts:222).
THEOREM SavedInvariant == Spec => [](MeterTypeOK /\ AnsweredIsSaved)
<1>1. Init => SavedInv
  BY SavedInit
<1>2. SavedInv /\ [Next]_vars => SavedInv'
  BY SavedStep
<1>3. SavedInv => MeterTypeOK /\ AnsweredIsSaved
  BY DEF SavedInv
<1> QED  BY <1>1, <1>2, <1>3, PTL DEF Spec

-----------------------------------------------------------------------------
(* The boards follow the books *)

\* A channel is where the books are, or behind them.
Follows(c, bk) ==
  c.state \in {"OPEN", "ACTIVE"} /\ c.id = bk.id =>
    \/ c.seq < bk.seq /\ c.deviceShare <= bk.share
    \/ c.seq = bk.seq /\ c.deviceShare = bk.share

\* It has room for them, and was closed only after a commitment.
Holds(c, bk) ==
  /\ c.state \in {"OPEN", "ACTIVE"} => c.capacity = Capacity
  /\ c.state # "EXPIRED"
  /\ c.state = "OPEN" => c.seq = 0
  /\ c.state = "CLOSED" /\ c.id = bk.id => bk.seq > 0

\* Every cell that repeats the books keeps a channel fitting them.
LEMMA HeardFits ==
  ASSUME NEW c \in BoardChannels, books \in Books,
         Follows(c, books), Holds(c, books),
         books.seq = 0 => books.share = 0
  PROVE  /\ Follows(Applied(c, OpenCell), books) /\ Holds(Applied(c, OpenCell), books)
         /\ books.seq > 0 => /\ Follows(Applied(c, CloseCell), books)
                             /\ Holds(Applied(c, CloseCell), books)
         /\ \A cm : IsCommitment(cm) /\ cm.seq = books.seq /\ cm.deviceShare = books.share =>
              Follows(Applied(c, cm), books) /\ Holds(Applied(c, cm), books)
         /\ \A cm : IsCommitment(cm) =>
              /\ Holds(Applied(c, cm), books)
              /\ \/ Follows(Applied(c, cm), books)
                 \/ Applied(c, cm).seq = cm.seq /\ Applied(c, cm).deviceShare = cm.deviceShare
<1>1. Follows(Applied(c, OpenCell), books) /\ Holds(Applied(c, OpenCell), books)
  <2> DEFINE d == Applied(c, OpenCell)
  <2>1. CASE c.state = "CLOSED"
    <3>1. d.state = "OPEN" /\ d.capacity = Capacity /\ d.seq = 0 /\ d.deviceShare = 0
      BY <2>1, OpenEffect
    <3> HIDE DEF d
    <3>2. Follows(d, books) /\ Holds(d, books)
      BY <3>1 DEF Follows, Holds, Books
    <3> QED  BY <3>2 DEF d
  <2>2. CASE c.state # "CLOSED"
    BY <2>2, OpenEffect
  <2> QED  BY <2>1, <2>2
<1>2. ASSUME books.seq > 0
      PROVE  Follows(Applied(c, CloseCell), books) /\ Holds(Applied(c, CloseCell), books)
  <2> DEFINE d == Applied(c, CloseCell)
  <2>1. d = c \/ (d.state = "CLOSED" /\ d.id = c.id)
    BY CloseEffect
  <2> HIDE DEF d
  <2>2. Follows(d, books) /\ Holds(d, books)
    BY <1>2, <2>1 DEF Follows, Holds
  <2> QED  BY <2>2 DEF d
<1>3. ASSUME NEW cm, IsCommitment(cm)
      PROVE  /\ Holds(Applied(c, cm), books)
             /\ \/ Applied(c, cm) = c
                \/ Applied(c, cm).seq = cm.seq /\ Applied(c, cm).deviceShare = cm.deviceShare
  <2> DEFINE d == Applied(c, cm)
  <2>1. \/ d = c
        \/ /\ c.state \in {"OPEN", "ACTIVE"} /\ d.state = "ACTIVE" /\ d.capacity = c.capacity
           /\ d.seq = cm.seq /\ d.deviceShare = cm.deviceShare
    BY <1>3, CommitmentEffect
  <2> HIDE DEF d
  <2>2. Holds(d, books)
    BY <2>1 DEF Holds
  <2> QED  BY <2>1, <2>2 DEF d
<1>4. ASSUME NEW cm, IsCommitment(cm), cm.seq = books.seq, cm.deviceShare = books.share
      PROVE  Follows(Applied(c, cm), books)
  BY <1>3, <1>4 DEF Follows
<1> QED  BY <1>1, <1>2, <1>3, <1>4

\* A step keeps every board where the books are or behind them, when no
\* commitment on the air goes unrecorded.
LEMMA FollowStep ==
  ASSUME MissedAcks = FALSE, "record" \notin CrashPoints,
         SavedInv, BoardsFollowBooks, ChannelsHoldBooks,
         ~up => job.at = "idle",
         job.at \in {"resync", "close"} => books.seq > 0, [Next]_vars
  PROVE  BoardsFollowBooks' /\ ChannelsHoldBooks'
<1>1. /\ boards \in [Boards -> BoardChannels] /\ books \in Books /\ job \in Jobs
      /\ books.seq = 0 => books.share = 0
      /\ disk = books
      /\ \A b \in Boards : boards[b].id \in 1..drawn \cup {NoId}
      /\ job.at = "record" => /\ job.cell.seq = books.seq + 1
                              /\ job.cell.deviceShare \in books.share..Capacity
  BY DEF SavedInv, MeterTypeOK, BooksAreCurrent, RecordIsNext, Books, Jobs, BoardChannels
<1>2. /\ books.share <= Capacity
      /\ \A b \in Boards : Holds(boards[b], books)
      /\ \A b \in Boards : \/ Follows(boards[b], books)
                           \/ /\ job.at = "record" /\ boards[b].seq = job.cell.seq
                              /\ boards[b].deviceShare = job.cell.deviceShare
  <2>1. books.share <= Capacity /\ \A b \in Boards : Holds(boards[b], books)
    BY DEF ChannelsHoldBooks, Holds
  <2>2. ASSUME NEW b \in Boards
        PROVE  \/ Follows(boards[b], books)
               \/ /\ job.at = "record" /\ boards[b].seq = job.cell.seq
                  /\ boards[b].deviceShare = job.cell.deviceShare
    BY DEF BoardsFollowBooks, InChannel, Follows
  <2> QED  BY <2>1, <2>2
<1> DEFINE Kept == /\ books'.share <= Capacity
                   /\ \A b \in Boards : Holds(boards'[b], books')
                   /\ \A b \in Boards : \/ Follows(boards'[b], books')
                                        \/ /\ job'.at = "record" /\ boards'[b].seq = job'.cell.seq
                                           /\ boards'[b].deviceShare = job'.cell.deviceShare
<1>3. Kept => BoardsFollowBooks' /\ ChannelsHoldBooks'
  <2> SUFFICES ASSUME Kept PROVE BoardsFollowBooks' /\ ChannelsHoldBooks'
    OBVIOUS
  <2>1. ChannelsHoldBooks'
    BY DEF ChannelsHoldBooks, Holds
  <2>2. BoardsFollowBooks'
    BY DEF BoardsFollowBooks, InChannel, Follows
  <2> QED  BY <2>1, <2>2
<1>4. ASSUME NEW heard, NEW cell, Hear(cell, heard), books' = books, job.at # "record",
             \A b \in Boards : /\ Holds(Applied(boards[b], cell), books)
                              /\ Follows(Applied(boards[b], cell), books)
      PROVE  Kept
  <2>1. \A b \in Boards : boards'[b] = boards[b] \/ boards'[b] = Applied(boards[b], cell)
    BY <1>4 DEF Hear
  <2>2. ASSUME NEW b \in Boards PROVE Holds(boards'[b], books) /\ Follows(boards'[b], books)
    <3>1. CASE boards'[b] = boards[b]
      BY <1>2, <1>4, <3>1
    <3>2. CASE boards'[b] = Applied(boards[b], cell)
      BY <1>4, <3>2
    <3> QED  BY <2>1, <3>1, <3>2
  <2> QED  BY <1>2, <1>4, <2>2
<1>5. ASSUME NEW heard \in SUBSET Boards, NEW acked \in BOOLEAN,
             Resync(heard, acked) \/ RepeatCommitment(heard)
      PROVE  Kept
  <2> DEFINE cell == Commitment(books.seq, books.share)
  <2>1. Hear(cell, heard) /\ books' = books /\ job.at # "record"
    BY <1>5 DEF Resync, RepeatCommitment, Broadcast
  <2>2. IsCommitment(cell) /\ cell.seq = books.seq /\ cell.deviceShare = books.share
    BY <1>1, CommitmentFields DEF Books
  <2> HIDE DEF cell
  <2>3. \A b \in Boards : /\ Holds(Applied(boards[b], cell), books)
                         /\ Follows(Applied(boards[b], cell), books)
    BY <1>1, <1>2, <2>1, <2>2, HeardFits
  <2> QED  BY <1>4, <2>1, <2>3
<1>6. ASSUME NEW heard \in SUBSET Boards, NEW acked \in BOOLEAN, Close(heard, acked)
      PROVE  Kept
  <2>1. Hear(CloseCell, heard) /\ books' = books /\ job.at = "close"
    BY <1>6 DEF Close, Broadcast
  <2>2. \A b \in Boards : /\ Holds(Applied(boards[b], CloseCell), books)
                         /\ Follows(Applied(boards[b], CloseCell), books)
    BY <1>1, <1>2, <2>1, HeardFits
  <2> QED  BY <1>4, <2>1, <2>2
<1>7. ASSUME NEW heard \in SUBSET Boards, NEW acked \in BOOLEAN, Open(heard, acked)
      PROVE  Kept
  <2>1. Hear(OpenCell, heard) /\ books' = books /\ job.at = "open"
    BY <1>7 DEF Open, Broadcast
  <2>2. \A b \in Boards : /\ Holds(Applied(boards[b], OpenCell), books)
                         /\ Follows(Applied(boards[b], OpenCell), books)
    BY <1>1, <1>2, <2>1, HeardFits
  <2> QED  BY <1>4, <2>1, <2>2
<1>8. CASE Renew
  <2>1. /\ drawn \in 1..MaxChannels /\ drawn < MaxChannels
        /\ books'.id = drawn + 1 /\ books'.share = 0 /\ boards' = boards /\ job.at = "renew"
    BY <1>8 DEF Renew, Fresh, SavedInv, MeterTypeOK
  <2>2. \A b \in Boards : boards[b].id # books'.id
    <3>1. NoId # drawn + 1
      BY <2>1, MeterAssumption
    <3> QED  BY <1>1, <2>1, <3>1
  <2>3. \A b \in Boards : Holds(boards'[b], books') /\ Follows(boards'[b], books')
    BY <1>2, <2>1, <2>2 DEF Holds, Follows
  <2>4. books'.share <= Capacity
    BY <2>1 DEF Capacity
  <2> QED  BY <1>3, <2>3, <2>4
<1>9. ASSUME NEW heard \in SUBSET Boards, NEW acked \in BOOLEAN,
             NEW catchUp \in 0..MaxCatchUp, Commit(heard, acked, catchUp)
      PROVE  Kept
  <2> DEFINE cell == Commitment(books.seq + 1, books.share + catchUp + job.sats)
  <2>1. /\ Broadcast(cell, heard, acked) /\ books' = books /\ job.at = "commit"
        /\ job' = IF acked THEN [job EXCEPT !.at = "record", !.cell = cell] ELSE Idle
    BY <1>9 DEF Commit
  <2>2. IsCommitment(cell)
    <3> DEFINE share == books.share + catchUp + job.sats
    <3>1. books.seq + 1 \in Nat /\ share \in Nat
      <4>1. job.sats \in Nat
        BY <1>1, JobSats
      <4>2. catchUp \in Nat
        BY <1>9, MeterAssumption
      <4>3. books.seq \in Nat /\ books.share \in Nat
        BY <1>1 DEF Books
      <4> QED  BY <4>1, <4>2, <4>3
    <3> HIDE DEF share
    <3> QED  BY <1>1, <3>1, CommitmentFields DEF share
  <2> HIDE DEF cell
  <2>3. CASE acked
    <3>1. job' = [job EXCEPT !.at = "record", !.cell = cell] /\ Hear(cell, heard)
      BY <2>1, <2>3 DEF Broadcast
    <3>2. job'.at = "record" /\ job'.cell = cell
      BY <1>1, <3>1 DEF Jobs
    <3>3. ASSUME NEW b \in Boards
          PROVE  /\ Holds(boards'[b], books)
                 /\ \/ Follows(boards'[b], books)
                    \/ boards'[b].seq = cell.seq /\ boards'[b].deviceShare = cell.deviceShare
      <4>1. boards'[b] = boards[b] \/ boards'[b] = Applied(boards[b], cell)
        BY <3>1, <3>3 DEF Hear
      <4>2. Holds(boards[b], books) /\ Follows(boards[b], books)
        BY <1>2, <2>1
      <4>3. boards[b] \in BoardChannels
        BY <1>1
      <4>4. /\ Holds(Applied(boards[b], cell), books)
            /\ \/ Follows(Applied(boards[b], cell), books)
               \/ /\ Applied(boards[b], cell).seq = cell.seq
                  /\ Applied(boards[b], cell).deviceShare = cell.deviceShare
        BY <1>1, <2>2, <4>2, <4>3, HeardFits
      <4> QED  BY <4>1, <4>2, <4>4
    <3> QED  BY <1>2, <2>1, <3>2, <3>3
  <2>4. CASE ~acked
    <3>1. heard = {} /\ Hear(cell, heard)
      BY <2>1, <2>4 DEF Broadcast
    <3>2. \A b \in Boards : boards'[b] = boards[b]
      BY <3>1 DEF Hear
    <3> QED  BY <1>2, <2>1, <3>2
  <2> QED  BY <2>3, <2>4
<1>10. CASE Record
  <2>1. /\ job.at = "record" /\ boards' = boards
        /\ books' = [books EXCEPT !.seq = job.cell.seq, !.share = job.cell.deviceShare,
                                  !.satsPaid = books.satsPaid + job.sats]
    BY <1>10 DEF Record
  <2>2. /\ books'.id = books.id /\ books'.seq = books.seq + 1
        /\ books'.share = job.cell.deviceShare
        /\ books'.share >= books.share /\ books'.share <= Capacity
    BY <1>1, <2>1 DEF Books, Capacity
  <2>3. books.seq \in Nat /\ books.share \in Nat /\ books'.share \in Int
    BY <1>1, <2>1, <2>2 DEF Books, Capacity
  <2>4. ASSUME NEW b \in Boards PROVE Holds(boards'[b], books') /\ Follows(boards'[b], books')
    <3>1. boards'[b] = boards[b] /\ boards[b] \in BoardChannels
      BY <1>1, <2>1
    <3>2. Holds(boards[b], books')
      BY <1>2, <2>2, <2>3 DEF Holds
    <3>3. Follows(boards[b], books')
      <4>1. CASE Follows(boards[b], books)
        BY <2>2, <2>3, <3>1, <4>1 DEF Follows, BoardChannels, Channels
      <4>2. CASE boards[b].seq = job.cell.seq /\ boards[b].deviceShare = job.cell.deviceShare
        BY <1>1, <2>1, <2>2, <4>2 DEF Follows
      <4> QED  BY <1>2, <4>1, <4>2
    <3> QED  BY <3>1, <3>2, <3>3
  <2> QED  BY <1>3, <2>2, <2>4
<1>11. CASE \/ Start \/ GoesDark \/ StillLit \/ Throws \/ Crash
            \/ \E sats \in Sats : AddSats(sats)
  <2>1. boards' = boards /\ books' = books /\ job.at # "record"
    <3>1. CASE Start
      BY <1>1, <3>1 DEF Start
    <3>2. CASE GoesDark \/ StillLit \/ Throws
      BY <3>2 DEF GoesDark, StillLit, Flushed, Throws
    <3>3. CASE Crash
      BY <3>3 DEF Crash
    <3>4. CASE \E sats \in Sats : AddSats(sats)
      BY <3>4 DEF AddSats
    <3> QED  BY <1>11, <3>1, <3>2, <3>3, <3>4
  <2> QED  BY <1>2, <1>3, <2>1
<1>12. ASSUME NEW a \in Boards, BoardReboots(a)
       PROVE  Kept
  <2>1. Holds(ChannelInit, books) /\ Follows(ChannelInit, books)
    <3>1. NoId # books.id
      BY <1>1, MeterAssumption DEF Books
    <3> QED  BY <3>1 DEF Holds, Follows, ChannelInit
  <2>2. books' = books /\ job' = job /\ \A b \in Boards : boards'[b] \in {boards[b], ChannelInit}
    BY <1>1, <1>12 DEF BoardReboots
  <2> QED  BY <1>2, <2>1, <2>2
<1>13. CASE UNCHANGED vars
  BY <1>2, <1>3, <1>13 DEF vars
<1> HIDE DEF Kept
<1>14. CASE BridgeStep
  <2>1. ASSUME NEW heard \in SUBSET Boards, NEW acked \in BOOLEAN,
               \/ Resync(heard, acked)
               \/ Close(heard, acked)
               \/ Open(heard, acked)
               \/ \E catchUp \in 0..MaxCatchUp : Commit(heard, acked, catchUp)
        PROVE  Kept
    BY <1>5, <1>6, <1>7, <1>9, <2>1
  <2>2. ASSUME NEW heard \in SUBSET Boards, RepeatCommitment(heard)
        PROVE  Kept
    BY <1>5, <2>2
  <2> QED  BY <1>3, <1>8, <1>10, <1>11, <1>14, <2>1, <2>2 DEF BridgeStep
<1> QED
  <2>1. CASE \E b \in Boards : BoardReboots(b)
    BY <1>3, <1>12, <2>1
  <2> QED  BY <1>11, <1>13, <1>14, <2>1 DEF Next

-----------------------------------------------------------------------------
(* A change of channel takes along those who hear it *)

Joined(c, bk) == c.state \in {"OPEN", "ACTIVE"} /\ c.id = bk.id

Settled(c, bk) == /\ c.state = "ACTIVE" /\ c.id = bk.id
                  /\ c.seq = bk.seq /\ c.deviceShare = bk.share

\* Where a listening board stands while the job is at a step.
Place(at, c, bk, counted) ==
  /\ at = "resync" => c.state = "CLOSED" \/ Joined(c, bk)
  /\ at = "close" => c.state = "CLOSED" \/ (Settled(c, bk) /\ ~counted)
  /\ at = "renew" => c.state = "CLOSED"
  /\ at = "open" => Joined(c, bk) \/ (c.state = "CLOSED" /\ c.id # bk.id /\ ~counted)
  /\ at \in {"idle", "flush", "commit", "record"} => Joined(c, bk)

\* What the cells of a change of channel do to a board that hears them.
LEMMA HeardMoves ==
  ASSUME NEW c \in BoardChannels, books \in Books,
         Follows(c, books), Holds(c, books), books.share <= Capacity
  PROVE  /\ \A cm :
              (/\ IsCommitment(cm) /\ cm.seq = books.seq /\ cm.deviceShare = books.share
               /\ books.seq > 0
               /\ c.state = "CLOSED" \/ Joined(c, books))
              => Applied(c, cm).state = "CLOSED" \/ Settled(Applied(c, cm), books)
         /\ \A cm : IsCommitment(cm) /\ Joined(c, books) => Joined(Applied(c, cm), books)
         /\ c.state = "CLOSED" \/ Settled(c, books) => Applied(c, CloseCell).state = "CLOSED"
         /\ c.state = "CLOSED" \/ Joined(c, books) => Joined(Applied(c, OpenCell), books)
<1>1. ASSUME NEW cm, IsCommitment(cm), cm.seq = books.seq, cm.deviceShare = books.share,
             books.seq > 0, c.state = "CLOSED" \/ Joined(c, books)
      PROVE  Applied(c, cm).state = "CLOSED" \/ Settled(Applied(c, cm), books)
  <2> DEFINE d == Applied(c, cm)
  <2>1. /\ ~(/\ c.state \in {"OPEN", "ACTIVE"} /\ c.id = books.id /\ cm.seq > c.seq
            /\ cm.deviceShare >= c.deviceShare /\ cm.deviceShare <= c.capacity) => d = c
        /\ (/\ c.state \in {"OPEN", "ACTIVE"} /\ c.id = books.id /\ cm.seq > c.seq
            /\ cm.deviceShare >= c.deviceShare /\ cm.deviceShare <= c.capacity) =>
             /\ d.state = "ACTIVE" /\ d.seq = cm.seq /\ d.deviceShare = cm.deviceShare
        /\ d.id = c.id
    BY <1>1, CommitmentEffect
  <2> HIDE DEF d
  <2>2. CASE c.state = "CLOSED"
    <3>1. d.state = "CLOSED"
      BY <2>1, <2>2
    <3> QED  BY <3>1 DEF d
  <2>3. CASE Joined(c, books)
    <3>1. c.capacity = Capacity /\ books.share <= c.capacity
      BY <2>3 DEF Joined, Holds
    <3>2. \/ c.seq < books.seq /\ c.deviceShare <= books.share
          \/ c.seq = books.seq /\ c.deviceShare = books.share
      BY <2>3 DEF Joined, Follows
    <3>3. CASE c.seq < books.seq /\ c.deviceShare <= books.share
      <4>1. Settled(d, books)
        BY <1>1, <2>1, <2>3, <3>1, <3>3 DEF Settled, Joined
      <4> QED  BY <4>1 DEF d
    <3>4. CASE c.seq = books.seq /\ c.deviceShare = books.share
      <4>1. c.seq # 0 /\ c.state = "ACTIVE"
        BY <1>1, <2>3, <3>4 DEF Joined, Holds
      <4>2. ~(cm.seq > c.seq)
        BY <1>1, <3>4 DEF Books
      <4>3. Settled(d, books)
        BY <2>1, <2>3, <3>4, <4>1, <4>2 DEF Settled, Joined
      <4> QED  BY <4>3 DEF d
    <3> QED  BY <3>2, <3>3, <3>4
  <2> QED  BY <1>1, <2>2, <2>3
<1>2. ASSUME NEW cm, IsCommitment(cm), Joined(c, books)
      PROVE  Joined(Applied(c, cm), books)
  BY <1>2, CommitmentEffect DEF Joined
<1>3. ASSUME c.state = "CLOSED" \/ Settled(c, books)
      PROVE  Applied(c, CloseCell).state = "CLOSED"
  BY <1>3, CloseEffect DEF Settled
<1>4. ASSUME c.state = "CLOSED" \/ Joined(c, books)
      PROVE  Joined(Applied(c, OpenCell), books)
  <2>1. CASE c.state = "CLOSED"
    BY <2>1, OpenEffect DEF Joined
  <2>2. CASE c.state # "CLOSED"
    BY <1>4, <2>2, OpenEffect
  <2> QED  BY <2>1, <2>2
<1>5. \A cm :
        (/\ IsCommitment(cm) /\ cm.seq = books.seq /\ cm.deviceShare = books.share
         /\ books.seq > 0
         /\ c.state = "CLOSED" \/ Joined(c, books))
        => Applied(c, cm).state = "CLOSED" \/ Settled(Applied(c, cm), books)
  BY <1>1
<1>6. \A cm : IsCommitment(cm) /\ Joined(c, books) => Joined(Applied(c, cm), books)
  BY <1>2
<1>7. c.state = "CLOSED" \/ Settled(c, books) => Applied(c, CloseCell).state = "CLOSED"
  BY <1>3
<1>8. c.state = "CLOSED" \/ Joined(c, books) => Joined(Applied(c, OpenCell), books)
  BY <1>4
<1> QED  BY <1>5, <1>6, <1>7, <1>8

LEMMA UnderwayStep ==
  ASSUME SavedInv, BoardsFollowBooks, ChannelsHoldBooks, ChangeUnderway, [Next]_vars
  PROVE  ChangeUnderway'
<1>1. /\ boards \in [Boards -> BoardChannels] /\ books \in Books /\ job \in Jobs
      /\ disk = books /\ drawn \in 1..MaxChannels
      /\ listening \subseteq Boards /\ books.share <= Capacity
      /\ \A b \in Boards : /\ boards[b] \in BoardChannels
                           /\ boards[b].id \in 1..drawn \cup {NoId}
                           /\ Holds(boards[b], books)
                           /\ job.at # "record" => Follows(boards[b], books)
  <2>1. /\ boards \in [Boards -> BoardChannels] /\ books \in Books /\ job \in Jobs
        /\ disk = books /\ drawn \in 1..MaxChannels
        /\ listening \subseteq Boards /\ books.share <= Capacity
        /\ \A b \in Boards : boards[b].id \in 1..drawn \cup {NoId}
    BY DEF SavedInv, MeterTypeOK, BooksAreCurrent, Books, Jobs, BoardChannels, ChannelsHoldBooks
  <2>2. \A b \in Boards : boards[b] \in BoardChannels /\ Holds(boards[b], books)
    BY <2>1 DEF ChannelsHoldBooks, Holds
  <2>3. \A b \in Boards : job.at # "record" => Follows(boards[b], books)
    BY DEF BoardsFollowBooks, InChannel, Follows
  <2> QED  BY <2>1, <2>2, <2>3
<1>2. /\ ~up => job.at = "idle"
      /\ job.at \in {"resync", "close"} => books.seq > 0
      /\ copies # {} => job.at \in {"close", "open"}
      /\ up => \A b \in listening : Place(job.at, boards[b], books, b \in copies)
  BY DEF ChangeUnderway, Place, Joined, Settled, Closed, InChannel, AtBooks
<1> DEFINE Kept ==
      /\ ~up' => job'.at = "idle"
      /\ job'.at \in {"resync", "close"} => books'.seq > 0
      /\ copies' # {} => job'.at \in {"close", "open"}
      /\ up' => \A b \in listening' : Place(job'.at, boards'[b], books', b \in copies')
<1>3. Kept => ChangeUnderway'
  BY DEF ChangeUnderway, Place, Joined, Settled, Closed, InChannel, AtBooks
<1>4. /\ \A at : [job EXCEPT !.at = at].at = at
      /\ \A at, left : [job EXCEPT !.at = at, !.left = left].at = at
      /\ \A left : [job EXCEPT !.left = left].at = job.at
      /\ \A at, cell : [job EXCEPT !.at = at, !.cell = cell].at = at
      /\ Idle.at = "idle"
      /\ \A at, sats : [Idle EXCEPT !.at = at, !.sats = sats].at = at
      /\ \A at, left : [Idle EXCEPT !.at = at, !.left = left].at = at
  BY <1>1 DEF Jobs, Idle
<1>5. ASSUME NEW heard \in SUBSET Boards, NEW acked \in BOOLEAN, Resync(heard, acked)
      PROVE  Kept
  <2> DEFINE cell == Commitment(books.seq, books.share)
  <2>1. /\ Hear(cell, heard) /\ up /\ up' = up /\ job.at = "resync" /\ books' = books
        /\ copies' = copies /\ listening' = listening \cap heard
        /\ job' = [job EXCEPT !.at = "close", !.left = Repeat]
    BY <1>5 DEF Resync, Broadcast
  <2>2. IsCommitment(cell) /\ cell.seq = books.seq /\ cell.deviceShare = books.share
    BY <1>1, CommitmentFields DEF Books
  <2> HIDE DEF cell
  <2>3. job'.at = "close" /\ copies = {} /\ books.seq > 0
    BY <1>2, <1>4, <2>1
  <2>4. ASSUME NEW b \in listening'
        PROVE  boards'[b].state = "CLOSED" \/ Settled(boards'[b], books)
    <3>1. b \in Boards /\ b \in listening /\ boards'[b] = Applied(boards[b], cell)
      BY <1>1, <2>1, <2>4 DEF Hear
    <3>2. boards[b].state = "CLOSED" \/ Joined(boards[b], books)
      BY <1>2, <2>1, <3>1 DEF Place
    <3>3. /\ boards[b] \in BoardChannels /\ Follows(boards[b], books) /\ Holds(boards[b], books)
      BY <1>1, <2>1, <3>1
    <3>4. Applied(boards[b], cell).state = "CLOSED" \/ Settled(Applied(boards[b], cell), books)
      BY <1>1, <2>2, <2>3, <3>2, <3>3, HeardMoves
    <3> QED  BY <3>1, <3>4
  <2>5. \A b \in listening' : Place(job'.at, boards'[b], books', b \in copies')
    BY <2>1, <2>3, <2>4 DEF Place
  <2> QED  BY <2>1, <2>3, <2>5
<1>6. ASSUME NEW heard \in SUBSET Boards, NEW acked \in BOOLEAN, Close(heard, acked)
      PROVE  Kept
  <2>1. /\ Hear(CloseCell, heard) /\ up /\ up' = up /\ job.at = "close" /\ books' = books
    BY <1>6 DEF Close, Broadcast
  <2>2. ASSUME NEW b \in listening
        PROVE  /\ b \in copies \cup heard => boards'[b].state = "CLOSED"
               /\ b \notin copies \cup heard =>
                    boards'[b].state = "CLOSED" \/ Settled(boards'[b], books)
    <3>1. /\ b \in Boards
          /\ boards[b].state = "CLOSED" \/ (Settled(boards[b], books) /\ b \notin copies)
      BY <1>1, <1>2, <2>1, <2>2 DEF Place
    <3>2. /\ boards[b] \in BoardChannels /\ Follows(boards[b], books) /\ Holds(boards[b], books)
      BY <1>1, <2>1, <3>1
    <3>3. CASE b \in heard
      <4>1. Applied(boards[b], CloseCell).state = "CLOSED"
        BY <1>1, <3>1, <3>2, HeardMoves
      <4>2. boards'[b] = Applied(boards[b], CloseCell)
        BY <2>1, <3>1, <3>3 DEF Hear
      <4> QED  BY <3>3, <4>1, <4>2
    <3>4. CASE b \notin heard
      <4>1. boards'[b] = boards[b]
        BY <2>1, <3>1, <3>4 DEF Hear
      <4> QED  BY <3>1, <3>4, <4>1
    <3> QED  BY <3>3, <3>4
  <2>3. CASE job.left > 1
    <3>1. /\ job' = [job EXCEPT !.left = job.left - 1] /\ copies' = copies \cup heard
          /\ listening' = listening
      BY <1>6, <2>3 DEF Close
    <3>2. job'.at = "close"
      BY <1>4, <2>1, <3>1
    <3>3. \A b \in listening' : Place(job'.at, boards'[b], books', b \in copies')
      BY <2>1, <2>2, <3>1, <3>2 DEF Place
    <3> QED  BY <1>2, <2>1, <3>1, <3>2, <3>3
  <2>4. CASE ~(job.left > 1)
    <3>1. /\ job' = [job EXCEPT !.at = "renew"] /\ copies' = {}
          /\ listening' = listening \cap (copies \cup heard)
      BY <1>6, <2>4 DEF Close
    <3>2. job'.at = "renew"
      BY <1>4, <3>1
    <3>3. \A b \in listening' : Place(job'.at, boards'[b], books', b \in copies')
      BY <2>1, <2>2, <3>1, <3>2 DEF Place
    <3> QED  BY <2>1, <3>1, <3>2, <3>3
  <2> QED  BY <2>3, <2>4
<1>7. CASE Renew
  <2>1. /\ up /\ up' = up /\ job.at = "renew" /\ boards' = boards /\ copies' = copies
        /\ listening' = listening /\ books'.id = drawn + 1
        /\ job' = [job EXCEPT !.at = "open", !.left = Repeat]
    BY <1>7 DEF Renew, Fresh
  <2>2. job'.at = "open" /\ copies = {}
    BY <1>2, <1>4, <2>1
  <2>3. drawn < MaxChannels /\ NoId # drawn + 1
    BY <1>1, <1>7, MeterAssumption DEF Renew
  <2>4. \A b \in listening : boards[b].state = "CLOSED" /\ boards[b].id # books'.id
    <3>1. \A b \in Boards : boards[b].id # books'.id
      BY <1>1, <2>1, <2>3
    <3>2. \A b \in listening : boards[b].state = "CLOSED"
      BY <1>2, <2>1 DEF Place
    <3> QED  BY <1>1, <3>1, <3>2
  <2>5. \A b \in listening' : Place(job'.at, boards'[b], books', b \in copies')
    BY <2>1, <2>2, <2>4 DEF Place
  <2> QED  BY <1>3, <2>1, <2>2, <2>5
<1>8. ASSUME NEW heard \in SUBSET Boards, NEW acked \in BOOLEAN, Open(heard, acked)
      PROVE  Kept
  <2>1. /\ Hear(OpenCell, heard) /\ up /\ up' = up /\ job.at = "open" /\ books' = books
    BY <1>8 DEF Open, Broadcast
  <2>2. ASSUME NEW b \in listening
        PROVE  /\ b \in copies \cup heard => Joined(boards'[b], books)
               /\ b \notin copies \cup heard =>
                    /\ boards'[b] = boards[b]
                    /\ \/ Joined(boards[b], books)
                       \/ boards[b].state = "CLOSED" /\ boards[b].id # books.id
    <3>1. /\ b \in Boards
          /\ \/ Joined(boards[b], books)
             \/ boards[b].state = "CLOSED" /\ boards[b].id # books.id /\ b \notin copies
      BY <1>1, <1>2, <2>1, <2>2 DEF Place
    <3>2. /\ boards[b] \in BoardChannels /\ Follows(boards[b], books) /\ Holds(boards[b], books)
      BY <1>1, <2>1, <3>1
    <3>3. CASE b \in heard
      <4>1. Joined(Applied(boards[b], OpenCell), books)
        BY <1>1, <3>1, <3>2, HeardMoves
      <4>2. boards'[b] = Applied(boards[b], OpenCell)
        BY <2>1, <3>1, <3>3 DEF Hear
      <4> QED  BY <3>3, <4>1, <4>2
    <3>4. CASE b \notin heard
      <4>1. boards'[b] = boards[b]
        BY <2>1, <3>1, <3>4 DEF Hear
      <4> QED  BY <3>1, <3>4, <4>1
    <3> QED  BY <3>3, <3>4
  <2>3. CASE job.left > 1
    <3>1. /\ job' = [job EXCEPT !.left = job.left - 1] /\ copies' = copies \cup heard
          /\ listening' = listening
      BY <1>8, <2>3 DEF Open
    <3>2. job'.at = "open"
      BY <1>4, <2>1, <3>1
    <3>3. \A b \in listening' : Place(job'.at, boards'[b], books', b \in copies')
      BY <2>1, <2>2, <3>1, <3>2 DEF Place
    <3> QED  BY <2>1, <3>1, <3>2, <3>3
  <2>4. CASE ~(job.left > 1)
    <3>1. /\ job' = IF job.sats = 0 THEN Idle ELSE [job EXCEPT !.at = "commit"]
          /\ copies' = {}
          /\ listening' = {b \in listening : b \in copies \cup heard \/ boards[b].id = books.id}
      BY <1>8, <2>4 DEF Open
    <3>2. job'.at \in {"idle", "commit"}
      BY <1>4, <3>1
    <3>3. \A b \in listening' : Joined(boards'[b], books)
      BY <2>2, <3>1
    <3>4. \A b \in listening' : Place(job'.at, boards'[b], books', b \in copies')
      BY <2>1, <3>2, <3>3 DEF Place
    <3> QED  BY <2>1, <3>1, <3>2, <3>4
  <2> QED  BY <2>3, <2>4
<1>9. ASSUME up, up', job.at \in {"idle", "flush", "commit", "record"},
             job'.at \in {"idle", "flush", "commit", "record", "open"},
             books'.id = books.id, copies' = copies, listening' = listening,
             \A b \in Boards : Joined(boards[b], books) => Joined(boards'[b], books)
      PROVE  Kept
  <2>1. copies = {} /\ \A b \in listening : Joined(boards[b], books)
    BY <1>2, <1>9 DEF Place
  <2>2. \A b \in listening' : Joined(boards'[b], books')
    BY <1>1, <1>9, <2>1 DEF Joined
  <2>3. \A b \in listening' : Place(job'.at, boards'[b], books', b \in copies')
    BY <1>9, <2>2 DEF Place
  <2> QED  BY <1>9, <2>1, <2>3
<1>10. ASSUME NEW sats \in Sats, AddSats(sats)
       PROVE  Kept
  <2>1. /\ up /\ up' = up /\ job.at = "idle" /\ boards' = boards /\ books' = books
        /\ copies' = copies /\ listening' = listening
        /\ job' = [Idle EXCEPT !.at = "flush", !.sats = sats]
    BY <1>10 DEF AddSats
  <2> QED  BY <1>4, <1>9, <2>1
<1>11. ASSUME NEW heard \in SUBSET Boards, NEW acked \in BOOLEAN,
              NEW catchUp \in 0..MaxCatchUp,
              RepeatCommitment(heard) \/ Commit(heard, acked, catchUp)
       PROVE  Kept
  <2>1. PICK cell : IsCommitment(cell) /\ Hear(cell, heard)
    <3>1. CASE RepeatCommitment(heard)
      <4>1. IsCommitment(Commitment(books.seq, books.share))
        BY <1>1, CommitmentFields DEF Books
      <4> QED  BY <3>1, <4>1 DEF RepeatCommitment
    <3>2. CASE Commit(heard, acked, catchUp)
      <4> DEFINE share == books.share + catchUp + job.sats
      <4>1. books.seq + 1 \in Nat /\ share \in Nat
        <5>1. job.sats \in Nat
          BY <1>1, JobSats
        <5>2. catchUp \in Nat
          BY <1>11, MeterAssumption
        <5>3. books.seq \in Nat /\ books.share \in Nat
          BY <1>1 DEF Books
        <5> QED  BY <5>1, <5>2, <5>3
      <4>2. Hear(Commitment(books.seq + 1, share), heard)
        BY <3>2 DEF Commit, Broadcast
      <4> HIDE DEF share
      <4>3. IsCommitment(Commitment(books.seq + 1, share))
        BY <1>1, <4>1, CommitmentFields
      <4> QED  BY <4>2, <4>3
    <3> QED  BY <1>11, <3>1, <3>2
  <2>2. /\ up /\ up' = up /\ books' = books /\ copies' = copies /\ listening' = listening
        /\ job.at \in {"idle", "flush", "commit"}
        /\ job'.at \in {"idle", "flush", "commit", "record"}
    <3>1. CASE RepeatCommitment(heard)
      BY <3>1 DEF RepeatCommitment
    <3>2. CASE Commit(heard, acked, catchUp)
      <4>1. PICK cm : job' = IF acked THEN [job EXCEPT !.at = "record", !.cell = cm] ELSE Idle
        BY <3>2 DEF Commit
      <4>2. job'.at \in {"idle", "record"}
        BY <1>4, <4>1
      <4> QED  BY <3>2, <4>2 DEF Commit
    <3> QED  BY <1>11, <3>1, <3>2
  <2>3. ASSUME NEW b \in Boards, Joined(boards[b], books)
        PROVE  Joined(boards'[b], books)
    <3>1. boards'[b] = boards[b] \/ boards'[b] = Applied(boards[b], cell)
      BY <2>1 DEF Hear
    <3>2. Joined(Applied(boards[b], cell), books)
      <4>1. boards[b] \in BoardChannels /\ Follows(boards[b], books) /\ Holds(boards[b], books)
        BY <1>1, <2>2
      <4> QED  BY <1>1, <2>1, <2>3, <4>1, HeardMoves
    <3> QED  BY <2>3, <3>1, <3>2
  <2> QED  BY <1>9, <2>2, <2>3
<1>12. CASE StillLit \/ Record
  <2>1. /\ up /\ up' = up /\ boards' = boards /\ copies' = copies /\ listening' = listening
        /\ job.at \in {"flush", "record"}
        /\ job'.at \in {"idle", "commit", "open"}
    <3>1. CASE StillLit
      <4>1. job' = [job EXCEPT !.at = "open", !.left = 1] \/ job' = [job EXCEPT !.at = "commit"]
        BY <3>1 DEF StillLit
      <4>2. job'.at \in {"commit", "open"}
        BY <1>1, <4>1 DEF Jobs
      <4>3. up /\ job.at = "flush"
        BY <3>1 DEF StillLit, Flushed
      <4>4. UNCHANGED <<boards, up, books, disk, tail, drawn, answered, listening, copies>>
        BY <3>1 DEF StillLit
      <4> QED  BY <4>2, <4>3, <4>4
    <3>2. CASE Record
      BY <1>4, <3>2 DEF Record
    <3> QED  BY <1>12, <3>1, <3>2
  <2>2. books'.id = books.id
    BY <1>1, <1>12 DEF StillLit, Record, Books
  <2> QED  BY <1>3, <1>9, <2>1, <2>2
<1>13. CASE GoesDark
  <2>1. /\ up /\ up' = up /\ job.at = "flush" /\ boards' = boards /\ books' = books
        /\ copies' = copies /\ books.seq > 0 /\ job' = [job EXCEPT !.at = "resync"]
        /\ listening' = {b \in Boards : boards[b].state = "CLOSED" \/ boards[b].id = books.id}
    BY <1>13 DEF GoesDark, Flushed, Joinable
  <2>2. job'.at = "resync" /\ copies = {}
    BY <1>2, <1>4, <2>1
  <2>3. \A b \in listening' : boards[b].state = "CLOSED" \/ Joined(boards[b], books)
    BY <1>1, <2>1 DEF Holds, Joined, BoardChannels, Channels, ChannelStates
  <2>4. \A b \in listening' : Place(job'.at, boards'[b], books', b \in copies')
    BY <2>1, <2>2, <2>3 DEF Place
  <2> QED  BY <1>3, <2>1, <2>2, <2>4
<1>14. CASE Throws \/ Crash
  <2>1. job' = Idle /\ copies' = {} /\ (up' => listening' = {})
    BY <1>14 DEF Throws, Crash
  <2> QED  BY <1>3, <1>4, <2>1
<1>15. CASE Start
  <2>1. /\ up' = TRUE /\ ~up /\ boards' = boards /\ books' = books /\ copies' = copies
        /\ listening' = {b \in Boards : boards[b].state = "CLOSED" \/ boards[b].id = books.id}
        /\ job' = [Idle EXCEPT !.at = IF books.seq > 0 THEN "resync" ELSE "open", !.left = Repeat]
    BY <1>1, <1>15 DEF Start
  <2>2. copies = {} /\ job'.at = IF books.seq > 0 THEN "resync" ELSE "open"
    BY <1>2, <1>4, <2>1
  <2>3. ASSUME NEW b \in listening'
        PROVE  \/ Joined(boards[b], books)
               \/ boards[b].state = "CLOSED" /\ boards[b].id # books.id
               \/ boards[b].state = "CLOSED" /\ books.seq > 0
    <3>1. b \in Boards /\ (boards[b].state = "CLOSED" \/ boards[b].id = books.id)
      BY <2>1, <2>3
    <3>2. boards[b] \in BoardChannels /\ Holds(boards[b], books)
      BY <1>1, <3>1
    <3> QED  BY <3>1, <3>2 DEF Holds, Joined, BoardChannels, Channels, ChannelStates
  <2>4. \A b \in listening' : Place(job'.at, boards'[b], books', b \in copies')
    BY <2>1, <2>2, <2>3 DEF Place
  <2> QED  BY <1>3, <2>1, <2>2, <2>4
<1>16. ASSUME NEW a \in Boards, BoardReboots(a)
       PROVE  Kept
  <2>1. /\ books' = books /\ job' = job /\ up' = up /\ copies' = copies
        /\ listening' = listening \ {a}
        /\ \A b \in listening' : boards'[b] = boards[b]
    BY <1>1, <1>16 DEF BoardReboots
  <2> QED  BY <1>2, <2>1
<1>17. CASE UNCHANGED vars
  BY <1>2, <1>3, <1>17 DEF vars
<1> HIDE DEF Kept
<1>18. CASE BridgeStep
  <2>1. ASSUME NEW heard \in SUBSET Boards, NEW acked \in BOOLEAN,
               \/ Resync(heard, acked)
               \/ Close(heard, acked)
               \/ Open(heard, acked)
               \/ \E catchUp \in 0..MaxCatchUp : Commit(heard, acked, catchUp)
        PROVE  Kept
    BY <1>5, <1>6, <1>8, <1>11, <2>1
  <2>2. ASSUME NEW heard \in SUBSET Boards, RepeatCommitment(heard)
        PROVE  Kept
    <3>1. TRUE \in BOOLEAN /\ 0 \in 0..MaxCatchUp
      BY MeterAssumption
    <3> QED  BY <1>11, <2>2, <3>1
  <2> QED  BY <1>3, <1>7, <1>12, <1>13, <1>14, <1>18, <2>1, <2>2 DEF BridgeStep
<1> QED
  <2>1. CASE \E b \in Boards : BoardReboots(b)
    BY <1>3, <1>16, <2>1
  <2>2. CASE \E sats \in Sats : AddSats(sats)
    BY <1>3, <1>10, <2>2
  <2> QED  BY <1>14, <1>15, <1>17, <1>18, <2>1, <2>2 DEF Next

\* When the injector's line is never missed and the process does not die
\* between a commitment and its record, the books' whole invariant holds.
THEOREM BooksInvariant ==
  ASSUME MissedAcks = FALSE, "record" \notin CrashPoints
  PROVE  Spec => []BooksInv
<1> DEFINE Both == BoardsFollowBooks /\ ChannelsHoldBooks /\ ChangeUnderway
<1>1. Init => Both
  <2> SUFFICES ASSUME Init PROVE Both
    OBVIOUS
  <2>1. /\ \A b \in Boards : boards[b] = ChannelInit
        /\ books.id = 1 /\ books.seq = 0 /\ books.share = 0 /\ ~up
        /\ job.at = "idle" /\ copies = {}
    BY DEF Init, Fresh, Idle
  <2>2. ChannelInit.state = "CLOSED" /\ ChannelInit.id # 1
    BY MeterAssumption DEF ChannelInit
  <2>3. BoardsFollowBooks
    BY <2>1, <2>2 DEF BoardsFollowBooks, InChannel
  <2>4. ChannelsHoldBooks
    BY <2>1, <2>2 DEF ChannelsHoldBooks, Capacity
  <2>5. ChangeUnderway
    BY <2>1 DEF ChangeUnderway
  <2> QED  BY <2>3, <2>4, <2>5
<1>2. SavedInv /\ Both /\ [Next]_vars => Both'
  <2> SUFFICES ASSUME SavedInv, Both, [Next]_vars PROVE Both'
    OBVIOUS
  <2>1. ChangeUnderway'
    BY UnderwayStep
  <2>2. (~up => job.at = "idle") /\ (job.at \in {"resync", "close"} => books.seq > 0)
    BY DEF ChangeUnderway
  <2>3. BoardsFollowBooks' /\ ChannelsHoldBooks'
    BY <2>2, FollowStep
  <2> QED  BY <2>1, <2>3
<1>3. Init => SavedInv
  BY SavedInit
<1>4. SavedInv /\ [Next]_vars => SavedInv'
  BY SavedStep
<1>5. SavedInv /\ Both => BooksInv
  BY DEF SavedInv, BooksInv
<1> QED  BY <1>1, <1>2, <1>3, <1>4, <1>5, PTL DEF Spec

\* A board that is in the books' channel is where the payer was told it is, or
\* behind (meter.ts:218).
THEOREM BooksAreFollowed ==
  ASSUME MissedAcks = FALSE, "record" \notin CrashPoints
  PROVE  Spec => []BoardsFollowBooks
<1>1. BooksInv => BoardsFollowBooks
  BY DEF BooksInv
<1> QED  BY <1>1, BooksInvariant, PTL

\* A change of channel takes along every board that could follow it and heard
\* it (meter.ts:25).
THEOREM EveryListenerJoins ==
  ASSUME MissedAcks = FALSE, "record" \notin CrashPoints
  PROVE  Spec => []ListenersJoin
<1>1. BooksInv => ListenersJoin
  BY DEF BooksInv, ChangeUnderway, ListenersJoin
<1> QED  BY <1>1, BooksInvariant, PTL

=============================================================================
