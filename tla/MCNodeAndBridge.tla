---------------------------- MODULE MCNodeAndBridge ----------------------------
(***************************************************************************)
(* The two ends of the reading log by themselves, in one run that explores   *)
(* each alone: a node whose acks are arbitrary numbers, and the bridge with  *)
(* its server and replays.                                                   *)
(***************************************************************************)
EXTENDS TempLogNode, TempLogBridge

VARIABLE program  \* which of them runs

nodeAndBridgeVars == <<program, nodeVars, bridgeVars>>

NodeAndBridgeInit ==
  /\ NodeInit /\ BridgeInit
  /\ program \in {"node", "bridge"}

\* The other stands still.
NodeAndBridgeNext ==
  /\ UNCHANGED program
  /\ \/ program = "node" /\ NodeNext /\ UNCHANGED bridgeVars
     \/ program = "bridge" /\ BridgeNext /\ UNCHANGED nodeVars

NodeAndBridgeSpec == NodeAndBridgeInit /\ [][NodeAndBridgeNext]_nodeAndBridgeVars

\* Nothing tells one value from another.
BridgeSymmetry == Permutations(Values)
=============================================================================
