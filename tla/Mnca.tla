-------------------------------- MODULE Mnca --------------------------------
(***************************************************************************)
(* The shared computation of the mesh: a cellular automaton stepped by every *)
(* board, and the quorum on its results (cell_mnca.zig, cell_mnca.h,         *)
(* examples/mesh_demo/main/main.c), with the oracle that checks and signs a  *)
(* step (tools/x402-bridge/mnca-oracle.ts).                                 *)
(*                                                                          *)
(* All boards hold the tile (0, 0), so tiles are told apart by generation;   *)
(* a hash is the state it is of.  The period is the unit of time.  A board   *)
(* ticks once in each period, at a moment of its own; a frame is heard       *)
(* within milliseconds or not at all.                                       *)
(*                                                                          *)
(* The tick runs in the main loop and a frame is handled in the radio's      *)
(* task, and nothing guards the table the two share: with Preempts a frame   *)
(* comes in between the choice of a slot and the vote.                       *)
(***************************************************************************)
EXTENDS Integers, Sequences, FiniteSets

CONSTANTS
  Boards,
  Faulty,      \* boards whose computation may go wrong
  WrongTiles,  \* what they then broadcast
  Preempts,    \* can a frame interrupt a tick
  CanLose,     \* can a frame go unheard
  TileW, TileH,\* tile_w, tile_h
  FirstTile,   \* cm_mnca_tile_init_random of the common seed
  Slots,       \* quorum_slots
  Ttl,         \* quorum_ttl_ms, in periods
  MaxTime,     \* bound: periods
  MaxReboots   \* bound: reboots

Cells == (0..TileW - 1) \X (0..TileH - 1)
Tiles == [Cells -> 0..255]

ASSUME MncaAssumption ==
  /\ Faulty \subseteq Boards /\ WrongTiles \subseteq Tiles
  /\ Preempts \in BOOLEAN /\ CanLose \in BOOLEAN
  /\ TileW \in Nat \ {0} /\ TileH \in Nat \ {0}
  /\ FirstTile \in Tiles
  /\ Slots \in Nat \ {0} /\ Ttl \in Nat
  /\ MaxTime \in Nat /\ MaxReboots \in Nat

VARIABLES
  tile,     \* s_mnca_tile: board -> its generation and state
  table,    \* s_mnca_quorum: board -> its slots
  midway,   \* the slot the tick of a board has chosen, or 0, and whether it is new
  now,      \* periods since the start
  ticked,   \* boards that have ticked in this period
  settled,  \* history: board -> the tiles it has settled
  reboots   \* reboots so far

mncaVars == <<tile, table, midway, now, ticked, settled, reboots>>

-----------------------------------------------------------------------------
(* The rule *)

AliveThreshold == 128
InnerRadius == 1
Births == 3..3
Survivals == 2..3
GrowStep == 64
DecayStep == 64

ClampU8(v) == IF v < 0 THEN 0 ELSE IF v > 255 THEN 255 ELSE v

\* The living neighbours of a cell; the tile has edges.
CountAlive(t, c) ==
  Cardinality({d \in Cells :
    /\ d # c
    /\ d[1] - c[1] \in -InnerRadius..InnerRadius
    /\ d[2] - c[2] \in -InnerRadius..InnerRadius
    /\ t[d] >= AliveThreshold})

\* The step a board takes.
MncaStep(t) ==
  [c \in Cells |->
    LET delta ==
      IF t[c] >= AliveThreshold
        THEN IF CountAlive(t, c) \in Survivals THEN GrowStep ELSE -DecayStep
        ELSE IF CountAlive(t, c) \in Births THEN GrowStep ELSE -DecayStep
    IN ClampU8(t[c] + delta)]

\* The step the oracle takes: it decays by a comparison of its own.
StepTile(t) ==
  [c \in Cells |->
    LET n == CountAlive(t, c)
        lives == \/ t[c] < AliveThreshold /\ n \in Births
                 \/ t[c] >= AliveThreshold /\ n \in Survivals
    IN ClampU8(IF lives THEN t[c] + GrowStep
               ELSE IF t[c] > DecayStep THEN t[c] - DecayStep ELSE 0)]

\* The oracle signs a claimed step of a well-formed tile that it computes too,
\* for the place and generation the claim names.
OracleSigns(prev, next) == prev \in Tiles /\ next = StepTile(prev)

-----------------------------------------------------------------------------
(* The quorum table *)

QuorumK == 2
FreeSlot == [valid |-> FALSE, gen |-> 0, votes |-> <<>>, since |-> 0]

\* Windows that did not settle in time are given up.
Expired(t) ==
  [i \in 1..Slots |-> IF t[i].valid /\ now - t[i].since > Ttl
                        THEN [t[i] EXCEPT !.valid = FALSE] ELSE t[i]]

Least(S) == CHOOSE i \in S : \A j \in S : i <= j

\* The slot a vote for a generation goes to: the one it has, or the first free
\* one, or none.
SlotOf(t, gen) ==
  LET own == {i \in 1..Slots : t[i].valid /\ t[i].gen = gen}
      free == {i \in 1..Slots : ~t[i].valid}
  IN IF own # {} THEN [slot |-> Least(own), new |-> FALSE]
     ELSE IF free # {} THEN [slot |-> Least(free), new |-> TRUE]
     ELSE [slot |-> 0, new |-> FALSE]

Opened(s, where, gen) ==
  IF where.new THEN [valid |-> TRUE, gen |-> gen, votes |-> <<>>, since |-> now] ELSE s

\* Faulty variant: nobody asks who has voted.
CountsAgain(s, state, mac) == Len(s.votes) <= QuorumK

\* A board votes once in a window, and a window has room for K + 1 votes.
MayVote(s, state, mac) ==
  /\ \A k \in 1..Len(s.votes) : s.votes[k].mac # mac
  /\ Len(s.votes) <= QuorumK

Voted(s, state, mac) ==
  IF MayVote(s, state, mac)
    THEN [s EXCEPT !.votes = Append(@, [mac |-> mac, state |-> state])]
    ELSE s

\* Two of the votes agree.
Agree(s) ==
  \E i, j \in 1..Len(s.votes) : i # j /\ s.votes[i].state = s.votes[j].state

\* Only a vote that counted is followed by a look at the others.
Hit(s, state, mac) == MayVote(s, state, mac) /\ Agree(Voted(s, state, mac))

\* The second half of cm_mnca_quorum_update, at the slot the first half chose.
\* A hit frees the slot.
CastAt(t, where, gen, state, mac) ==
  IF where.slot = 0 THEN t
  ELSE LET s == Opened(t[where.slot], where, gen)
           v == Voted(s, state, mac)
       IN [t EXCEPT ![where.slot] = IF Hit(s, state, mac) THEN [v EXCEPT !.valid = FALSE] ELSE v]

HitsAt(t, where, gen, state, mac) ==
  where.slot # 0 /\ Hit(Opened(t[where.slot], where, gen), state, mac)

\* cm_mnca_quorum_update, uninterrupted.
Update(t, gen, state, mac) ==
  CastAt(Expired(t), SlotOf(Expired(t), gen), gen, state, mac)
Hits(t, gen, state, mac) ==
  HitsAt(Expired(t), SlotOf(Expired(t), gen), gen, state, mac)

-----------------------------------------------------------------------------
(* The boards *)

Nowhere == [slot |-> 0, new |-> FALSE]
Ticking(b) == midway[b].at

\* broadcast_mnca_tile: one generation on, and the slot of the own vote.
Tick(b) ==
  /\ b \notin ticked /\ ~Ticking(b)
  /\ \A c \in Boards : Ticking(c) => Preempts
  /\ \E s \in {MncaStep(tile[b].state)} \cup (IF b \in Faulty THEN WrongTiles ELSE {}) :
       tile' = [tile EXCEPT ![b] = [gen |-> @.gen + 1, state |-> s]]
  /\ table' = [table EXCEPT ![b] = Expired(@)]
  /\ midway' = [midway EXCEPT ![b] =
       [at |-> TRUE, where |-> SlotOf(Expired(table[b]), tile[b].gen + 1)]]
  /\ UNCHANGED <<now, ticked, settled, reboots>>

\* The own vote is cast and the tile goes out; the boards that hear it vote on it.
Broadcast(b, hearers) ==
  LET g == tile[b].gen
      s == tile[b].state
      hits == {c \in hearers : Hits(table[c], g, s, b)}
              \cup (IF HitsAt(table[b], midway[b].where, g, s, b) THEN {b} ELSE {})
  IN /\ Ticking(b)
     /\ table' = [c \in Boards |->
          IF c = b THEN CastAt(table[b], midway[b].where, g, s, b)
          ELSE IF c \in hearers THEN Update(table[c], g, s, b)
          ELSE table[c]]
     /\ settled' = [c \in Boards |->
          IF c \in hits THEN settled[c] \cup {[gen |-> g, state |-> s]} ELSE settled[c]]
     /\ midway' = [midway EXCEPT ![b] = [at |-> FALSE, where |-> Nowhere]]
     /\ ticked' = ticked \cup {b}
     /\ UNCHANGED <<tile, now, reboots>>

\* Every board has ticked, and the next period begins.
TimePasses ==
  /\ ticked = Boards /\ now < MaxTime
  /\ now' = now + 1 /\ ticked' = {}
  /\ UNCHANGED <<tile, table, midway, settled, reboots>>

\* A reboot starts the automaton and the table again.
Reboot(b) ==
  /\ reboots < MaxReboots
  /\ reboots' = reboots + 1
  /\ tile' = [tile EXCEPT ![b] = [gen |-> 0, state |-> FirstTile]]
  /\ table' = [table EXCEPT ![b] = [i \in 1..Slots |-> FreeSlot]]
  /\ midway' = [midway EXCEPT ![b] = [at |-> FALSE, where |-> Nowhere]]
  /\ UNCHANGED <<now, ticked, settled>>

MncaInit ==
  /\ tile = [b \in Boards |-> [gen |-> 0, state |-> FirstTile]]
  /\ table = [b \in Boards |-> [i \in 1..Slots |-> FreeSlot]]
  /\ midway = [b \in Boards |-> [at |-> FALSE, where |-> Nowhere]]
  /\ now = 0 /\ ticked = {}
  /\ settled = [b \in Boards |-> {}]
  /\ reboots = 0

MncaNext ==
  \/ \E b \in Boards : Tick(b) \/ Reboot(b)
  \/ \E b \in Boards :
       \E hearers \in IF CanLose THEN SUBSET (Boards \ {b}) ELSE {Boards \ {b}} :
         Broadcast(b, hearers)
  \/ TimePasses

MncaSpec == MncaInit /\ [][MncaNext]_mncaVars

-----------------------------------------------------------------------------
(* Properties *)

\* The tile of each generation, computed without a fault.
Computed[g \in Nat] == IF g = 0 THEN FirstTile ELSE MncaStep(Computed[g - 1])

\* What a board settles is the right tile of its generation, if at most one
\* board computes wrongly and no frame interrupts a tick, or if none computes
\* wrongly: the quorum, with no signature, "provides integrity" (main.c:1367).  The
\* oracle, whose step is another program's, signs it as well.
SettledIsComputed ==
  (\A f, g \in Faulty : f = g /\ ~Preempts) =>
    \A b \in Boards : \A t \in settled[b] :
      /\ t.state = Computed[t.gen]
      /\ OracleSigns(Computed[t.gen - 1], t.state)

\* "Quorum fires when >=2 devices broadcast a matching hash for the same (x, y,
\* generation)" (main.c:2809): where nothing is lost, miscomputed, interrupted or
\* rebooted, every board has settled a generation that all have broadcast.  No
\* run has it, for the code breaks it: an agreement frees its slot, so the third
\* vote opens another that only its expiry frees, and a table of four is full at
\* the fifth generation.
AgreementSettles ==
  ~CanLose /\ ~Preempts /\ Faulty = {} /\ reboots = 0 =>
    \A b \in Boards : \A g \in 1..now + 1 :
      (\A c \in Boards : tile[c].gen >= g /\ ~Ticking(c)) =>
        [gen |-> g, state |-> Computed[g]] \in settled[b]

=============================================================================
