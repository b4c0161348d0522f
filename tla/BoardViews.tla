------------------------------ MODULE BoardViews ------------------------------
(***************************************************************************)
(* What two host programs know of a board from its log: mesh-control.ts      *)
(* (grants and refusals, served by /authz) and the mesh observer             *)
(* (tools/mesh-observer: the channel and the telemetry streams).  Each reads *)
(* the board's port with a cat of its own; one of them runs at a time.       *)
(*                                                                          *)
(* A line is a record of what it says; lines that only count or blink are    *)
(* left out.  Whether the observer's pattern matches one follows from the    *)
(* values that are printed and those it wants.  A board may reset under its  *)
(* USB port or take the port down with it.                                   *)
(***************************************************************************)
EXTENDS Integers, Sequences, SequencesExt, FiniteSets

CONSTANTS
  Viewers,     \* the programs: "control", "observer"
  CertChannels,   \* channels a certificate can be for
  Edges,       \* keys a certificate can grant
  Gates,       \* the checks that refuse a forward
  NoId, Free,
  RefusalMax,  \* refusals kept, 32 in the code
  Window,      \* windowMs of StreamStats
  MaxLines,    \* bound: lines of the board
  MaxSeq,      \* bound: commitments
  MaxPoses,    \* bound: poses of one life of the speeder
  MaxClock,    \* bound: the clock
  MaxLives     \* bound: lives of the speeder

ASSUME ViewsAssumption ==
  /\ Viewers \subseteq {"control", "observer"}
  /\ RefusalMax \in Nat \ {0} /\ Window \in Nat
  /\ {MaxLines, MaxSeq, MaxPoses, MaxClock, MaxLives} \subseteq Nat

INSTANCE CellChannel

VARIABLES
  viewer,   \* which program runs
  board,    \* the board: grants, channel, refusals since its boot
  air,      \* the speeder: its next pose, its life, the poses the board missed
  pipe,     \* lines on their way to the program
  cat,      \* "open", "closed" with the port, "exited" once the program noticed
  control,  \* DevState of mesh-control.ts
  observer, \* DeviceState.channel and the arrivals of one StreamStats
  clock,    \* Date.now()
  printed   \* lines so far

vars == <<viewer, board, air, pipe, cat, control, observer, clock, printed>>

Booted ==
  [grants |-> [c \in CertChannels |-> Free], chan |-> ChannelInit,
   refused |-> [g \in Gates |-> 0]]

NewDevice == [alive |-> TRUE, grants |-> [c \in CertChannels |-> Free], refusals |-> <<>>]

NewDeviceState == [chan |-> [state |-> "CLOSED", seq |-> 0, share |-> 0], arrivals |-> <<>>]

-----------------------------------------------------------------------------
(* trackDevice (mesh-control.ts) *)

\* refusals.shift()
Kept(refusals) == IF Len(refusals) > RefusalMax THEN Tail(refusals) ELSE refusals

\* noteRefusal: counted where it is listed, else listed last.
NoteRefusal(refusals, gate) ==
  IF \E i \in DOMAIN refusals : refusals[i].gate = gate
  THEN [i \in DOMAIN refusals |->
          IF refusals[i].gate = gate THEN [refusals[i] EXCEPT !.count = @ + 1] ELSE refusals[i]]
  ELSE Kept(Append(refusals, [gate |-> gate, count |-> 1]))

\* Faulty variant: a boot clears the refusals alone.
BootKeepsGrants(d) == [d EXCEPT !.refusals = <<>>]

\* "cap table: device domain": a fresh boot.
TrackBoot(d) == [d EXCEPT !.grants = NewDevice.grants, !.refusals = <<>>]

\* Any line says that the tail is alive.
TrackDevice(d, line) ==
  LET seen == [d EXCEPT !.alive = TRUE] IN
  CASE line.say = "boot" -> TrackBoot(seen)
    [] line.say = "installed" -> [seen EXCEPT !.grants[line.chan] = line.edge]
    [] line.say = "refused" -> [seen EXCEPT !.refusals = NoteRefusal(@, line.gate)]
    [] OTHER -> seen

\* /authz: what it finds wrong with the board, of the certificates issued.
Gaps(issued) ==
  IF ~control.alive THEN {"tail_exited"}
  ELSE {c \in issued : control.grants[c] = Free}

-----------------------------------------------------------------------------
(* parseLine, applyEvent (server.ts) and StreamStats (telemetry.ts) *)

\* The values the board prints, in their order, of the lines about its channel and
\* of a pose that it hears.
Printed ==
  [open |-> <<"capacity", "locktime">>,
   commit |-> <<"seq", "device_share", "consumed", "expiry", "rel_now">>,
   expired |-> <<"seq", "device_share">>,
   closed |-> <<"final_seq", "final_device_share", "consumed">>,
   pose |-> <<"seq", "spd", "x", "y", "hdg", "v", "tx_t", "rx_total">>]

\* The values the observer's patterns want, each right after the other.
Wanted ==
  [open |-> <<"capacity", "locktime">>,
   commit |-> <<"seq", "device_share", "expiry", "rel_now">>,
   expired |-> <<"seq", "device_share">>,
   closed |-> <<"final_seq", "final_device_share">>,
   pose |-> <<"seq", "spd", "x", "y", "hdg", "v", "tx_t">>]

\* parseLine: a line is an event when its pattern matches from the start; what
\* follows is not looked at.  A commitment's does not match, for the board prints
\* what was consumed before the expiry.  Of the other lines, the boot's among
\* them, none changes what is modelled of a device.
IsEvent(line) ==
  /\ line.say \in DOMAIN Wanted
  /\ IsPrefix(Wanted[line.say], Printed[line.say])

\* Arrivals older than the window are shifted off, up to the first that is not.
Push(arrivals, arrival) ==
  LET all == Append(arrivals, arrival)
      recent == {i \in DOMAIN all : all[i].at >= arrival.at - Window}
  IN SubSeq(all, Min(recent), Len(all))

\* Faulty variant: one seq short.
ExpectedShort(a) == Last(a).seq - Head(a).seq

Expected(a) == Last(a).seq - Head(a).seq + 1

\* Seqs of the window that did not arrive: dropRate times Expected.
Dropped(a) == IF Expected(a) > Len(a) THEN Expected(a) - Len(a) ELSE 0

\* Faulty variant: the end of a channel's time is not taken over.
ExpiryUnseen(chan) == chan

ApplyExpired(chan) == [chan EXCEPT !.state = "EXPIRED"]

ApplyEvent(d, line) ==
  CASE line.say = "open" -> [d EXCEPT !.chan = [state |-> "OPEN", seq |-> 0, share |-> 0]]
    [] line.say = "commit" -> [d EXCEPT !.chan = [state |-> "ACTIVE", seq |-> line.seq,
                                                  share |-> line.share]]
    [] line.say = "expired" -> [d EXCEPT !.chan = ApplyExpired(@)]
    [] line.say = "closed" -> [d EXCEPT !.chan = NewDeviceState.chan]
    [] line.say = "pose" -> [d EXCEPT !.arrivals = Push(@, [seq |-> line.seq, at |-> clock,
                                                            life |-> line.life])]

\* streamPort: one line.
ReadLine(d, line) == IF IsEvent(line) THEN ApplyEvent(d, line) ELSE d

-----------------------------------------------------------------------------
(* The board *)

\* It prints a line, which the program's cat reads while the port is there.
Says(line) ==
  /\ printed < MaxLines
  /\ printed' = printed + 1
  /\ pipe' = IF cat = "open" THEN Append(pipe, line) ELSE pipe
  /\ UNCHANGED <<viewer, cat, control, observer, clock>>

Resets ==
  /\ board' = Booted
  /\ Says([say |-> "boot"])
  /\ UNCHANGED air

\* The reset takes the port down: the boot is not read, nor what follows it.
ResetsWithPort ==
  /\ cat = "open"
  /\ cat' = "closed"
  /\ board' = Booted
  /\ UNCHANGED <<viewer, air, pipe, control, observer, clock, printed>>

Installs(c, edge) ==
  /\ board' = [board EXCEPT !.grants[c] = edge]
  /\ Says([say |-> "installed", chan |-> c, edge |-> edge])
  /\ UNCHANGED air

RefusesAt(gate) ==
  /\ board' = [board EXCEPT !.refused[gate] = @ + 1]
  /\ Says([say |-> "refused", gate |-> gate])
  /\ UNCHANGED air

Opens ==
  /\ AcceptsOpen(board.chan)
  /\ board' = [board EXCEPT !.chan = ApplyOpen(@, [id |-> NoId, capacity |-> MaxSeq])]
  /\ Says([say |-> "open"])
  /\ UNCHANGED air

Commits ==
  LET seq == board.chan.seq + 1
      cm == [id |-> NoId, seq |-> seq, deviceShare |-> seq, userShare |-> 0, expiry |-> 1]
  IN
  /\ AcceptsCommitment(board.chan, cm, 0)
  /\ board' = [board EXCEPT !.chan = ApplyCommitment(@, cm, 0)]
  /\ Says([say |-> "commit", seq |-> seq, share |-> seq])
  /\ UNCHANGED air

Expires ==
  /\ board.chan.state = "ACTIVE"
  /\ board' = [board EXCEPT !.chan = TickExpiry(@, 2)]
  /\ Says([say |-> "expired"])
  /\ UNCHANGED air

Closes ==
  LET close == [id |-> NoId, seq |-> board.chan.seq, deviceShare |-> board.chan.deviceShare] IN
  /\ AcceptsClose(board.chan, close)
  /\ board' = [board EXCEPT !.chan = ApplyClose(@, close)]
  /\ Says([say |-> "closed"])
  /\ UNCHANGED air

\* A pose of the speeder reaches the board, or does not.
HearsPose ==
  /\ air.seq < MaxPoses
  /\ air' = [air EXCEPT !.seq = @ + 1]
  /\ Says([say |-> "pose", seq |-> air.seq, life |-> air.life])
  /\ UNCHANGED board

MissesPose ==
  /\ air.seq < MaxPoses
  /\ air' = [air EXCEPT !.seq = @ + 1, !.missed = @ \cup {air.seq}]
  /\ UNCHANGED <<viewer, board, pipe, cat, control, observer, clock, printed>>

SpeederRestarts ==
  /\ air.life < MaxLives /\ air.seq > 0
  /\ air' = [seq |-> 0, life |-> air.life + 1, missed |-> {}]
  /\ UNCHANGED <<viewer, board, pipe, cat, control, observer, clock, printed>>

-----------------------------------------------------------------------------
(* The programs *)

\* The next line is read.  What cat wrote before it ended is read even after
\* its exit was noticed.
Reads ==
  /\ pipe # <<>>
  /\ pipe' = Tail(pipe)
  /\ IF viewer = "control"
     THEN control' = TrackDevice(control, Head(pipe)) /\ UNCHANGED observer
     ELSE observer' = ReadLine(observer, Head(pipe)) /\ UNCHANGED control
  /\ UNCHANGED <<viewer, board, air, cat, clock, printed>>

\* mesh-control.ts notices; the observer only leaves its loop.  Neither opens
\* the port again.
CatExits ==
  /\ cat = "closed"
  /\ cat' = "exited"
  /\ control' = IF viewer = "control" THEN [control EXCEPT !.alive = FALSE] ELSE control
  /\ UNCHANGED <<viewer, board, air, pipe, observer, clock, printed>>

PassTime ==
  /\ clock < MaxClock
  /\ clock' = clock + 1
  /\ UNCHANGED <<viewer, board, air, pipe, cat, control, observer, printed>>

Init ==
  /\ viewer \in Viewers
  /\ board = Booted
  /\ air = [seq |-> 0, life |-> 1, missed |-> {}]
  /\ pipe = <<>> /\ cat = "open"
  /\ control = NewDevice /\ observer = NewDeviceState
  /\ clock = 0 /\ printed = 0

BoardStep ==
  \/ Resets \/ ResetsWithPort
  \/ viewer = "control" /\ \/ \E c \in CertChannels, e \in Edges : Installs(c, e)
                           \/ \E g \in Gates : RefusesAt(g)
  \/ viewer = "observer" /\ (Opens \/ Commits \/ Expires \/ Closes \/ HearsPose)

Next ==
  \/ BoardStep
  \/ viewer = "observer" /\ (MissesPose \/ SpeederRestarts \/ PassTime)
  \/ Reads \/ CatExits

Spec == Init /\ [][Next]_vars

-----------------------------------------------------------------------------
(* Properties *)

CaughtUpControl == FoldLeft(TrackDevice, control, pipe)
CaughtUpObserver == FoldLeft(ReadLine, observer, pipe)

\* While the port is there, mesh-control.ts is behind the board and not wrong
\* about it: once it has read what the board has printed it lists the grants the
\* board holds, and of the refusals since the boot those it has room for, none
\* counted too often.
GrantsCatchUp ==
  viewer = "control" /\ cat = "open" =>
    LET d == CaughtUpControl
        refused == {g \in Gates : board.refused[g] > 0}
        listed == {d.refusals[i].gate : i \in DOMAIN d.refusals}
    IN /\ d.grants = board.grants
       /\ \A i \in DOMAIN d.refusals : d.refusals[i].count <= board.refused[d.refusals[i].gate]
       /\ Cardinality(refused) <= RefusalMax => listed = refused

\* While the port is there, the observer is behind the board's channel and not
\* wrong about its being there and its time being up, unless the board has reset
\* and not opened a channel since.  It never shows one active, nor what was paid,
\* for it reads no commitment.
ChannelCatchesUp ==
  viewer = "observer" /\ cat = "open" /\ board.chan.state # "CLOSED" =>
    CaughtUpObserver.chan =
      [NewDeviceState.chan EXCEPT
         !.state = IF board.chan.state = "EXPIRED" THEN "EXPIRED" ELSE "OPEN"]

\* A channel under way is shown active with the seq and the share of its last
\* commitment once every line is read: the observer's README says it extracts them
\* (Parser coverage, channel).  The code breaks it.
CommitmentsAreShown ==
  viewer = "observer" /\ cat = "open" /\ pipe = <<>> /\ board.chan.state = "ACTIVE" =>
    observer.chan = [state |-> "ACTIVE", seq |-> board.chan.seq,
                     share |-> board.chan.deviceShare]

\* The drops the observer shows of a speeder that did not restart are the poses
\* the board missed between the first and the last of the window.
DropsAreMisses ==
  LET a == observer.arrivals IN
  a # <<>> /\ (\A i \in DOMAIN a : a[i].life = air.life) =>
    Dropped(a) = Cardinality({s \in air.missed : Head(a).seq < s /\ s < Last(a).seq})

\* Whoever watches, the view catches up with the board, and the air with what was
\* sent.
ViewsCatchUp == GrantsCatchUp /\ ChannelCatchesUp /\ DropsAreMisses

\* /authz: a board is not shown without a gap unless it holds every certificate
\* issued (mesh-control.ts: a board whose tail has exited is not shown as though
\* its last known state were current).  No run has it, for the code breaks it: a
\* line of cat that is read after its exit was noticed marks the tail alive.
QuietMeansHeld ==
  viewer = "control" /\ pipe = <<>> /\ cat # "closed" =>
    \A c \in CertChannels : Gaps({c}) = {} => board.grants[c] # Free

=============================================================================
