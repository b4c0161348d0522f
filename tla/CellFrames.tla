------------------------------ MODULE CellFrames ------------------------------
(***************************************************************************)
(* Cells on the air and their reassembly at one receiver: cell_frame.zig,    *)
(* the send loop of cell_radio.c, and the receive callback and queue of the   *)
(* temperature logger's main.c.                                               *)
(*                                                                           *)
(* A transmission is named by its sender and the 32-bit id drawn for it       *)
(* (esp_random, taken as never drawn twice by one sender); two senders may    *)
(* draw the same.  A frame is one part of a transmission, and the content of  *)
(* a part is the transmission it was cut from.  Every build cuts a cell into   *)
(* the same number of frames, and frames that are no frames of a cell change   *)
(* nothing but counters: both are left out.                                   *)
(***************************************************************************)
EXTENDS Naturals, FiniteSets, Sequences

CONSTANTS
  Senders,
  CellIds,
  FramesPerCell,  \* frames_per_cell
  ReasmSlots,     \* reasm_slots
  ReasmTtl,       \* reasm_ttl_ms
  RxQueueLen,     \* xQueueCreate in app_main
  Zeros,          \* what memset leaves in a buffer
  NoCell,         \* a slot that is not occupied
  \* Bounds
  MaxSent,
  MaxOpenings,
  MaxMs

Transmissions == Senders \X CellIds
Parts == 0..(FramesPerCell - 1)

\* A cell is what its buffer holds, part by part.
Whole(t) == [p \in Parts |-> t]
Buffers == [Parts -> Transmissions \cup {Zeros}]

Slot == [of : Transmissions, at : 0..MaxMs, mask : SUBSET Parts, buf : Buffers, nth : 1..MaxOpenings]

ASSUME FramesAssumption ==
  /\ FramesPerCell \in Nat \ {0}
  /\ ReasmSlots \in Nat \ {0}
  /\ ReasmTtl \in Nat
  /\ RxQueueLen \in Nat
  /\ Zeros \notin Transmissions /\ NoCell \notin Slot
  /\ MaxSent \in Nat
  /\ MaxOpenings \in Nat
  /\ MaxMs \in Nat

VARIABLES
  doubles,    \* whether a frame may be heard more than once
  sentCells,  \* the transmissions begun
  frames,     \* frames on the air: <<transmission, part>>
  ms,         \* now_ms of the receiver
  slots,      \* cm_reasm_t.slots
  rxQueue,    \* s_rx_queue
  arrived,    \* what the main loop took from it, in order
  openings    \* history: what each initSlot began, and what was heard of it since

framesVars == <<doubles, sentCells, frames, ms, slots, rxQueue, arrived, openings>>

FramesTypeOK ==
  /\ doubles \in BOOLEAN
  /\ sentCells \subseteq Transmissions
  /\ frames \subseteq Transmissions \X Parts
  /\ ms \in 0..MaxMs
  /\ slots \in [1..ReasmSlots -> Slot \cup {NoCell}]
  /\ rxQueue \in Seq(Buffers) /\ Len(rxQueue) <= RxQueueLen
  /\ arrived \in Seq(Buffers)
  /\ openings \in Seq([of : Transmissions, at : 0..MaxMs, heard : SUBSET Parts])
  /\ Len(openings) <= MaxOpenings

FramesInit ==
  /\ doubles \in BOOLEAN
  /\ sentCells = {}
  /\ frames = {}
  /\ ms = 0
  /\ slots = [n \in 1..ReasmSlots |-> NoCell]
  /\ rxQueue = <<>>
  /\ arrived = <<>>
  /\ openings = <<>>

-----------------------------------------------------------------------------
(* The table of half-assembled cells *)

InUse(table, n) == table[n] # NoCell

Outdated(n) == InUse(slots, n) /\ ms - slots[n].at > ReasmTtl

\* Faulty variant: the sender is not compared.
MatchesById(t) ==
  {n \in 1..ReasmSlots : InUse(slots, n) /\ ~Outdated(n) /\ slots[n].of[2] = t[2]}

\* The slot a frame of t belongs to, if it is not out of date.
Matches(t) == {n \in 1..ReasmSlots : InUse(slots, n) /\ ~Outdated(n) /\ slots[n].of = t}

\* The scan frees what is out of date, as far as it gets: it ends at a match.
Swept(t) ==
  [n \in 1..ReasmSlots |->
     IF Outdated(n) /\ \A m \in Matches(t) : n < m THEN NoCell ELSE slots[n]]

FirstOf(S) == CHOOSE n \in S : \A m \in S : n <= m

\* Faulty variant: the newest makes room.
Newest(table) == {n \in 1..ReasmSlots : \A m \in 1..ReasmSlots : table[m].at <= table[n].at}

Vacant(table) == {n \in 1..ReasmSlots : ~InUse(table, n)}
Oldest(table) == {n \in 1..ReasmSlots : \A m \in 1..ReasmSlots : table[n].at <= table[m].at}

\* Where acquireSlot begins an assembly: in a free slot, else in the oldest.
Chosen(table) == FirstOf(IF Vacant(table) # {} THEN Vacant(table) ELSE Oldest(table))

\* Faulty variant: the mask of the evicted cell stays.
InitSlotKeepsMask(t, old) ==
  [of |-> t, at |-> ms, mask |-> IF old = NoCell THEN {} ELSE old.mask,
   buf |-> [p \in Parts |-> Zeros], nth |-> Len(openings) + 1]

\* A slot begins empty, whatever was in it.
InitSlot(t, old) ==
  [of |-> t, at |-> ms, mask |-> {}, buf |-> [p \in Parts |-> Zeros], nth |-> Len(openings) + 1]

\* The slot with one more part.
WithPart(s, t, p) == [s EXCEPT !.mask = @ \cup {p}, !.buf[p] = t]

-----------------------------------------------------------------------------
(* Actions *)

\* cm_radio_send_cell: the frames in order, up to the first that esp_now_send
\* refuses.
SendCell(t) ==
  /\ t \notin sentCells
  /\ Cardinality(sentCells) < MaxSent
  /\ sentCells' = sentCells \cup {t}
  /\ \E k \in 0..FramesPerCell : frames' = frames \cup {<<t, p>> : p \in 0..(k - 1)}
  /\ UNCHANGED <<doubles, ms, slots, rxQueue, arrived, openings>>

\* What cm_reasm_push leaves of slot n once s is in it: nothing if s is
\* complete, and then the callback queues the cell if there is room.
Push(n, table, s) ==
  IF s.mask = Parts
  THEN /\ slots' = [table EXCEPT ![n] = NoCell]
       /\ rxQueue' = IF Len(rxQueue) < RxQueueLen THEN Append(rxQueue, s.buf) ELSE rxQueue
  ELSE /\ slots' = [table EXCEPT ![n] = s]
       /\ UNCHANGED rxQueue

\* on_radio_recv: a frame is pushed.  One that is never heard is lost.
HearPart(t, p) ==
  \/ \E n \in Matches(t) :
       /\ Push(n, Swept(t), WithPart(slots[n], t, p))
       /\ openings' = [openings EXCEPT ![slots[n].nth].heard = @ \cup {p}]
  \/ /\ Matches(t) = {}
     /\ Len(openings) < MaxOpenings
     /\ LET n == Chosen(Swept(t))
        IN Push(n, Swept(t), WithPart(InitSlot(t, Swept(t)[n]), t, p))
     /\ openings' = Append(openings, [of |-> t, at |-> ms, heard |-> {p}])

Hear ==
  /\ \E t \in Transmissions, p \in Parts :
       /\ <<t, p>> \in frames
       /\ frames' = IF doubles THEN frames ELSE frames \ {<<t, p>>}
       /\ HearPart(t, p)
  /\ UNCHANGED <<doubles, sentCells, ms, arrived>>

\* The main loop takes a cell from the queue.
TakeCell ==
  /\ rxQueue # <<>>
  /\ arrived' = Append(arrived, Head(rxQueue))
  /\ rxQueue' = Tail(rxQueue)
  /\ UNCHANGED <<doubles, sentCells, frames, ms, slots, openings>>

MsPasses ==
  /\ ms < MaxMs
  /\ ms' = ms + 1
  /\ UNCHANGED <<doubles, sentCells, frames, slots, rxQueue, arrived, openings>>

FramesNext ==
  \/ \E t \in Transmissions : SendCell(t)
  \/ Hear
  \/ TakeCell
  \/ MsPasses

FramesSpec == FramesInit /\ [][FramesNext]_framesVars

-----------------------------------------------------------------------------
(* Properties *)

Path == INSTANCE CellPath WITH
  Cells <- {Whole(t) : t \in Transmissions},
  sent <- {Whole(t) : t \in sentCells},
  doubles <- doubles,
  arrived <- arrived

\* Lost, overtaking and doubled frames, evictions and time-outs make of the radio
\* a path that loses, reorders and perhaps doubles whole cells: nothing arrives
\* that is mixed from two cells or from a cell and zeros, and while no frame is
\* doubled nothing arrives twice.
ImplementsCellPath == Path!Spec

\* Those that began an assembly no earlier than the i-th did.
Rivals(i) == {j \in DOMAIN openings \ {i} : openings[j].at >= openings[i].at}

\* cm_reasm_push throws a half-assembled cell away only when it is older than
\* the time-out or as many others were begun since as there are slots: until then
\* every part that was heard is in its slot, whatever else was heard.
KeptAmongFew ==
  \A i \in DOMAIN openings :
    \/ openings[i].heard = Parts
    \/ ms - openings[i].at > ReasmTtl
    \/ Cardinality(Rivals(i)) >= ReasmSlots
    \/ \E n \in 1..ReasmSlots :
         /\ InUse(slots, n)
         /\ slots[n].nth = i
         /\ slots[n].mask = openings[i].heard
=============================================================================
