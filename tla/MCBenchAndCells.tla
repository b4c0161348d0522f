--------------------------- MODULE MCBenchAndCells ---------------------------
(***************************************************************************)
(* Four programs that share nothing, each explored by itself in one run: the *)
(* fleet and its bench, cells cut into frames, forwards relayed along a       *)
(* route, and the rules of a board.                                         *)
(***************************************************************************)
EXTENDS FleetBench, CellFrames, ForwardRelay, BoardRules, TLC

CONSTANTS b1, b2

VARIABLE program  \* which of them runs

benchAndCellsVars == <<program, fleetBenchVars, framesVars, relayVars, rulesVars>>

TwoHops == <<b1, b2>>

\* A rule for a type the demo rules leave alone, and one more for theirs.
TwoRules == {[trigger |-> [kind |-> "type", type |-> "heartbeat"], effect |-> "swap"],
             [trigger |-> OnTap, effect |-> "other"]}

BenchAndCellsInit ==
  /\ BenchInit /\ FramesInit /\ RelayInit /\ RulesInit
  /\ program \in {"bench", "frames", "relay", "rules"}
  /\ program # "bench" => persistent /\ anchor = {"operator"}
  /\ program # "frames" => ~doubles
  /\ program # "relay" => calm /\ near = Relays

\* The other three stand still.
BenchAndCellsNext ==
  /\ UNCHANGED program
  /\ \/ program = "bench" /\ BenchNext /\ UNCHANGED <<framesVars, relayVars, rulesVars>>
     \/ program = "frames" /\ FramesNext /\ UNCHANGED <<fleetBenchVars, relayVars, rulesVars>>
     \/ program = "relay" /\ RelayNext /\ UNCHANGED <<fleetBenchVars, framesVars, rulesVars>>
     \/ program = "rules" /\ RulesNext /\ UNCHANGED <<fleetBenchVars, framesVars, relayVars>>

BenchAndCellsSpec == BenchAndCellsInit /\ [][BenchAndCellsNext]_benchAndCellsVars

\* Boards that send cells are alike, and so are the ids they draw.
CellSymmetry == Permutations(Senders) \cup Permutations(CellIds) \cup Permutations(Peers)
=============================================================================
