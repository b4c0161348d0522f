--------------------------- MODULE MCLampAndBooks ---------------------------
(***************************************************************************)
(* Two programs that share the payment channel's code, each explored by     *)
(* itself in one run: the board that sells light, and the bridge's books     *)
(* with the boards they are about.                                          *)
(***************************************************************************)
EXTENDS MeteredLamp, ChannelMeter, TLC

VARIABLE program  \* which of them runs

lampAndBooksVars == <<program, lampVars, vars>>

\* The process does not die between a commitment and its record.
OutsideCommit == JobSteps \ {"record"}

LampAndBooksInit ==
  /\ LampInit /\ Init
  /\ program \in {"lamp", "books"}

\* The other one stands still.
LampAndBooksNext ==
  /\ UNCHANGED program
  /\ \/ program = "lamp" /\ LampNext /\ UNCHANGED vars
     \/ program = "books" /\ Next /\ UNCHANGED lampVars

LampAndBooksSpec == LampAndBooksInit /\ [][LampAndBooksNext]_lampAndBooksVars

\* Channel ids are alike, and so are boards that sell light.
LampAndBooksSymmetry == Permutations(Ids) \cup Permutations(Boards)
=============================================================================
