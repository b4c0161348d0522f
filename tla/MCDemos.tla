------------------------------- MODULE MCDemos -------------------------------
(***************************************************************************)
(* Four programs that share nothing, each explored by itself in one run:    *)
(* the views of a board, the quorum on the shared computation, the spend     *)
(* that a board gates, and payments for light by the second.                 *)
(***************************************************************************)
EXTENDS BoardViews, Mnca, GatedSpend, MeteredPayments, TLC

VARIABLE program  \* which of them runs

demoVars == <<program, vars, mncaVars, gatedVars, meteredVars>>

\* An automaton of one cell.
OneCell(v) == [c \in {<<0, 0>>} |-> v]
FirstCell == OneCell(200)
WrongCells == {OneCell(255)}

\* The sums payers choose; one is beyond the bounds when MostSats is 5.
Sums == [q \in Purchases |-> <<2, 3, 4, 9>>[q]]

DemosInit ==
  /\ Init /\ MncaInit /\ GatedInit /\ MeteredInit
  /\ program \in {"views", "quorum", "spend", "metered"}
  /\ program # "views" => viewer = "control"

\* The other three stand still.
DemosNext ==
  /\ UNCHANGED program
  /\ \/ program = "views" /\ Next /\ UNCHANGED <<mncaVars, gatedVars, meteredVars>>
     \/ program = "quorum" /\ MncaNext /\ UNCHANGED <<vars, gatedVars, meteredVars>>
     \/ program = "spend" /\ GatedNext /\ UNCHANGED <<vars, mncaVars, meteredVars>>
     \/ program = "metered" /\ MeteredNext /\ UNCHANGED <<vars, mncaVars, gatedVars>>

DemosSpec == DemosInit /\ [][DemosNext]_demoVars

\* Boards that compute rightly are alike, and so are outputs.
DemosSymmetry == Permutations(Boards \ Faulty) \cup Permutations(Outputs)
=============================================================================
