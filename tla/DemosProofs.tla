----------------------------- MODULE DemosProofs -----------------------------
(***************************************************************************)
(* Theorems about four programs beside the lamp, for any values of their     *)
(* constants: what GatedSpend records is not lost, and what goes to the       *)
(* network by itself was accepted by the engine; in Mnca, what the boards     *)
(* settle on is what they would compute alone; the tally of MeteredPayments   *)
(* is the sum of the purchases recorded; and in BoardViews, a program that    *)
(* has read every line of a board knows what the board knows.                 *)
(***************************************************************************)
EXTENDS GatedSpend, Mnca, MeteredPayments, BoardViews, SequenceTheorems,
        FiniteSetTheorems, WellFoundedInduction, TLAPS

(***************************************************************************)
(* GatedSpend                                                               *)
(***************************************************************************)

Places == {"wallet", "funding", "injecting", "waiting", "settling", "done"}
Active == {"injecting", "waiting", "settling"}
CommandSpace == [at: Places, good: BOOLEAN, output: Outputs]
CellSpace == [output: Outputs, good: BOOLEAN]
ReleaseSpace == [output: Outputs, asked: BOOLEAN]

\* The commands have their types, and one that spends is about an output that
\* was recorded first.
CommandsInv ==
  /\ commands \in Seq(CommandSpace)
  /\ pendingVerdict \in 0..Len(commands)
  /\ timers \in Seq(Nat) /\ \A k \in 1..Len(timers) : timers[k] \in 1..Len(commands)
  /\ \A i \in 1..Len(commands) : commands[i].at \in Active => commands[i].output \in recorded

\* So has what the program keeps, and the network knows every recorded output.
RecordsInv ==
  /\ recorded \subseteq Outputs /\ IsFiniteSet(recorded)
  /\ utxo \in [Outputs -> {"none", "unspent", "spent"}]
  /\ cells \subseteq CellSpace
  /\ released \subseteq ReleaseSpace
  /\ funding \in recorded \cup {NoOutput}
  /\ lastGood \in recorded \cup {NoOutput}
  /\ stateFile \in recorded \cup {NoOutput}
  /\ \A cell \in cells : cell.output \in recorded
  /\ \A o \in recorded : utxo[o] # "none"

Single == \A a, b \in recorded : a = b

\* The two properties, with "at most one" said of elements.
KeptWhenSingle == Single => \A o \in recorded : utxo[o] = "unspent" => stateFile = o
ValidatedWhenSingle == Single => \A r \in released : ~r.asked => r.output \in validated

GatedInv == CommandsInv /\ RecordsInv /\ KeptWhenSingle /\ ValidatedWhenSingle

-----------------------------------------------------------------------------
(* Sets of at most one element *)

LEMMA AtMostOne ==
  ASSUME NEW S, IsFiniteSet(S), Cardinality(S) <= 1
  PROVE  \A a, b \in S : a = b
<1> SUFFICES ASSUME NEW a \in S, NEW b \in S, a # b PROVE FALSE
  OBVIOUS
<1>1. Cardinality({a, b}) = 2
  <2>1. IsFiniteSet({a}) /\ Cardinality({a}) = 1
    BY FS_Singleton
  <2>2. b \notin {a} /\ {a} \cup {b} = {a, b}
    OBVIOUS
  <2>3. Cardinality({a} \cup {b}) = Cardinality({a}) + 1
    BY <2>1, <2>2, FS_AddElement
  <2> QED  BY <2>1, <2>2, <2>3
<1>2. {a, b} \subseteq S
  OBVIOUS
<1>3. Cardinality({a, b}) <= Cardinality(S) /\ Cardinality(S) \in Nat
  BY <1>2, FS_Subset, FS_CardinalityType
<1> QED  BY <1>1, <1>3

-----------------------------------------------------------------------------
(* The commands *)

\* A command goes on, at another place or with another output.
LEMMA CommandGoes ==
  ASSUME CommandsInv, recorded \subseteq recorded',
         NEW i \in 1..Len(commands), NEW c \in CommandSpace,
         commands' = [commands EXCEPT ![i] = c],
         c.at \in Active => c.output \in recorded',
         pendingVerdict' \in 0..Len(commands),
         timers' \in Seq(Nat), \A k \in 1..Len(timers') : timers'[k] \in 1..Len(commands)
  PROVE  CommandsInv'
<1>1. /\ commands' \in Seq(CommandSpace) /\ Len(commands') = Len(commands)
      /\ commands'[i] = c
      /\ \A j \in 1..Len(commands) : j # i => commands'[j] = commands[j]
  BY DEF CommandsInv
<1>2. ASSUME NEW j \in 1..Len(commands'), commands'[j].at \in Active
      PROVE  commands'[j].output \in recorded'
  BY <1>1, <1>2 DEF CommandsInv
<1> QED  BY <1>1, <1>2 DEF CommandsInv

\* A command goes to another place with its output.
LEMMA CommandMoves ==
  ASSUME CommandsInv, recorded \subseteq recorded',
         NEW i \in 1..Len(commands), NEW where \in Places, Goes(i, where),
         where \in Active => commands[i].output \in recorded',
         pendingVerdict' \in 0..Len(commands),
         timers' \in Seq(Nat), \A k \in 1..Len(timers') : timers'[k] \in 1..Len(commands)
  PROVE  CommandsInv'
<1> DEFINE c == [commands[i] EXCEPT !.at = where]
<1>1. commands[i] \in CommandSpace
  BY DEF CommandsInv
<1>2. c \in CommandSpace /\ c.at = where /\ c.output = commands[i].output
  BY <1>1 DEF CommandSpace
<1>3. commands' = [commands EXCEPT ![i] = c]
  BY DEF Goes
<1> HIDE DEF c
<1> QED  BY <1>2, <1>3, CommandGoes

\* The same for a wait that goes on.
LEMMA CommandMovesAlone ==
  ASSUME CommandsInv, recorded \subseteq recorded',
         NEW i \in 1..Len(commands), NEW where \in Places, Goes(i, where),
         where \in Active => commands[i].output \in recorded',
         UNCHANGED <<pendingVerdict, timers>>
  PROVE  CommandsInv'
BY CommandMoves DEF CommandsInv

LEMMA CommandBegins ==
  ASSUME CommandsInv, UNCHANGED <<recorded, pendingVerdict, timers>>,
         NEW where \in Places, NEW good \in BOOLEAN, NEW output \in Outputs,
         commands' = Append(commands, Command(where, good, output)),
         where \in Active => output \in recorded
  PROVE  CommandsInv'
<1> DEFINE c == Command(where, good, output)
<1>1. c \in CommandSpace /\ c.at = where /\ c.output = output
  BY DEF Command, CommandSpace
<1> HIDE DEF c
<1>2. commands \in Seq(CommandSpace) /\ commands' = Append(commands, c)
  BY DEF CommandsInv, c
<1>3. /\ commands' \in Seq(CommandSpace) /\ Len(commands') = Len(commands) + 1
      /\ commands'[Len(commands) + 1] = c
      /\ \A j \in 1..Len(commands) : commands'[j] = commands[j]
  BY <1>1, <1>2
<1>4. ASSUME NEW j \in 1..Len(commands'), commands'[j].at \in Active
      PROVE  commands'[j].output \in recorded'
  <2>1. CASE j = Len(commands) + 1
    BY <1>1, <1>3, <1>4, <2>1
  <2>2. CASE j \in 1..Len(commands)
    BY <1>3, <1>4, <2>2 DEF CommandsInv
  <2> QED  BY <1>2, <1>3, <2>1, <2>2
<1>5. pendingVerdict' \in 0..Len(commands') /\ timers' \in Seq(Nat)
  BY <1>2, <1>3 DEF CommandsInv
<1>6. \A k \in 1..Len(timers') : timers'[k] \in 1..Len(commands')
  BY <1>2, <1>3 DEF CommandsInv
<1> QED  BY <1>3, <1>4, <1>5, <1>6 DEF CommandsInv

\* What a step that records, releases and spends nothing leaves true.
LEMMA NothingRecorded ==
  ASSUME RecordsInv, KeptWhenSingle, ValidatedWhenSingle,
         UNCHANGED <<funding, stateFile, utxo, recorded, validated, released>>,
         lastGood' \in recorded \cup {NoOutput},
         cells' \subseteq CellSpace, \A cell \in cells' : cell.output \in recorded
  PROVE  RecordsInv' /\ KeptWhenSingle' /\ ValidatedWhenSingle'
<1>1. RecordsInv'
  BY DEF RecordsInv
<1>2. KeptWhenSingle' /\ ValidatedWhenSingle'
  BY DEF KeptWhenSingle, ValidatedWhenSingle, Single
<1> QED  BY <1>1, <1>2

LEMMA CommandStarts ==
  ASSUME GatedInv, Fund \/ \E good \in BOOLEAN : Spend(good)
  PROVE  GatedInv'
<1>1. CommandsInv /\ RecordsInv /\ KeptWhenSingle /\ ValidatedWhenSingle
  BY DEF GatedInv
<1>2. CASE Fund
  <2>1. PICK o \in Outputs : commands' = Append(commands, Command("wallet", TRUE, o))
    BY <1>2 DEF Fund
  <2>2. UNCHANGED <<funding, lastGood, pendingVerdict, timers, stateFile, cells, utxo,
                    recorded, validated, released>>
    BY <1>2 DEF Fund, gatedHistory
  <2>3. CommandsInv'
    BY <1>1, <2>1, <2>2, CommandBegins DEF Places, Active
  <2>4. RecordsInv' /\ KeptWhenSingle' /\ ValidatedWhenSingle'
    BY <1>1, <2>2, NothingRecorded DEF RecordsInv
  <2> QED  BY <2>3, <2>4 DEF GatedInv
<1>3. ASSUME NEW good \in BOOLEAN, Spend(good) PROVE GatedInv'
  <2>1. /\ commands' = Append(commands, Command("injecting", good, funding))
        /\ funding # NoOutput /\ lastGood' \in {lastGood, funding}
        /\ UNCHANGED <<funding, pendingVerdict, timers, stateFile, cells, utxo,
                       recorded, validated, released>>
    BY <1>3 DEF Spend, gatedHistory
  <2>2. funding \in recorded /\ funding \in Outputs
    BY <1>1, <2>1 DEF RecordsInv
  <2>3. CommandsInv'
    BY <1>1, <2>1, <2>2, CommandBegins DEF Places
  <2>4. RecordsInv' /\ KeptWhenSingle' /\ ValidatedWhenSingle'
    BY <1>1, <2>1, NothingRecorded DEF RecordsInv
  <2> QED  BY <2>3, <2>4 DEF GatedInv
<1> QED  BY <1>2, <1>3

\* What a command awaited, when it changes nothing but the command.
LEMMA CommandEnds ==
  ASSUME GatedInv, NEW i \in 1..Len(commands),
         \/ \E refuses \in BOOLEAN : WalletAnswers(i, refuses)
         \/ FundFails(i) \/ InjectFails(i) \/ SettleFailed(i)
  PROVE  GatedInv'
<1>1. CommandsInv /\ RecordsInv /\ KeptWhenSingle /\ ValidatedWhenSingle
  BY DEF GatedInv
<1>2. /\ UNCHANGED <<funding, lastGood, pendingVerdict, timers, stateFile, cells, utxo,
                     recorded, validated, released>>
      /\ \E where \in Places : where \notin Active /\ Goes(i, where)
  BY DEF WalletAnswers, FundFails, InjectFails, SettleFailed, gatedHistory, Places, Active
<1>3. CommandsInv'
  BY <1>1, <1>2, CommandMovesAlone
<1>4. RecordsInv' /\ KeptWhenSingle' /\ ValidatedWhenSingle'
  BY <1>1, <1>2, NothingRecorded DEF RecordsInv
<1> QED  BY <1>3, <1>4 DEF GatedInv

LEMMA InjectedKeeps ==
  ASSUME GatedInv, NEW i \in 1..Len(commands), Injected(i)
  PROVE  GatedInv'
<1>1. CommandsInv /\ RecordsInv /\ KeptWhenSingle /\ ValidatedWhenSingle
  BY DEF GatedInv
<1>2. /\ Goes(i, "waiting") /\ pendingVerdict' = i /\ timers' = Append(timers, i)
      /\ cells' = cells \cup {[output |-> commands[i].output, good |-> commands[i].good]}
      /\ UNCHANGED <<funding, lastGood, stateFile, utxo, recorded, validated, released>>
  BY DEF Injected, gatedHistory
<1>3. commands[i] \in CommandSpace /\ commands[i].output \in recorded
  BY <1>1 DEF Injected, CommandsInv, Active
<1>4. timers' \in Seq(Nat) /\ \A k \in 1..Len(timers') : timers'[k] \in 1..Len(commands)
  <2>1. timers \in Seq(Nat) /\ i \in Nat
    BY <1>1 DEF CommandsInv
  <2>2. \A k \in 1..Len(timers) : timers[k] \in 1..Len(commands)
    BY <1>1 DEF CommandsInv
  <2> QED  BY <1>2, <2>1, <2>2
<1>5. CommandsInv'
  BY <1>1, <1>2, <1>3, <1>4, CommandMoves DEF Places
<1>6. [output |-> commands[i].output, good |-> commands[i].good] \in CellSpace
  BY <1>3 DEF CommandSpace, CellSpace
<1>7. cells' \subseteq CellSpace /\ \A cell \in cells' : cell.output \in recorded
  BY <1>1, <1>2, <1>3, <1>6 DEF RecordsInv
<1>8. lastGood' \in recorded \cup {NoOutput}
  BY <1>1, <1>2 DEF RecordsInv
<1>9. RecordsInv' /\ KeptWhenSingle' /\ ValidatedWhenSingle'
  BY <1>1, <1>2, <1>7, <1>8, NothingRecorded
<1> QED  BY <1>5, <1>9 DEF GatedInv

LEMMA TimerKeeps ==
  ASSUME GatedInv, TimerFires
  PROVE  GatedInv'
<1>1. CommandsInv /\ RecordsInv /\ KeptWhenSingle /\ ValidatedWhenSingle
  BY DEF GatedInv
<1>2. /\ timers # <<>> /\ timers' = Tail(timers) /\ pendingVerdict' = 0
      /\ UNCHANGED <<funding, lastGood, stateFile, cells, utxo, recorded, validated, released>>
      /\ commands' = commands \/ Goes(Head(timers), "done")
  BY DEF TimerFires, gatedHistory
<1>3. timers \in Seq(Nat) /\ Len(commands) \in Nat
  BY <1>1 DEF CommandsInv
<1>4. Head(timers) \in 1..Len(commands)
  BY <1>1, <1>2, <1>3 DEF CommandsInv
<1>5. timers' \in Seq(Nat) /\ \A k \in 1..Len(timers') : timers'[k] \in 1..Len(commands)
  <2>1. Len(timers') = Len(timers) - 1 /\ \A k \in 1..Len(timers') : timers'[k] = timers[k + 1]
    BY <1>2, <1>3
  <2>2. timers' \in Seq(Nat)
    BY <1>2, <1>3
  <2>3. \A k \in 1..Len(timers) : timers[k] \in 1..Len(commands)
    BY <1>1 DEF CommandsInv
  <2>4. \A k \in 1..Len(timers') : k + 1 \in 1..Len(timers)
    BY <1>3, <2>1
  <2> QED  BY <2>1, <2>2, <2>3, <2>4
<1>6. CommandsInv'
  <2>1. pendingVerdict' \in 0..Len(commands)
    BY <1>2, <1>3
  <2>2. CASE commands' = commands
    BY <1>1, <1>2, <1>5, <2>1, <2>2 DEF CommandsInv
  <2>3. CASE Goes(Head(timers), "done")
    BY <1>1, <1>2, <1>4, <1>5, <2>1, <2>3, CommandMoves DEF Places, Active
  <2> QED  BY <1>2, <2>2, <2>3
<1>7. RecordsInv' /\ KeptWhenSingle' /\ ValidatedWhenSingle'
  BY <1>1, <1>2, NothingRecorded DEF RecordsInv
<1> QED  BY <1>6, <1>7 DEF GatedInv

-----------------------------------------------------------------------------
(* The network and the files *)

LEMMA NetworkKeeps ==
  ASSUME GatedInv, NEW i \in 1..Len(commands), NetworkFunds(i) \/ NetworkSpends(i)
  PROVE  GatedInv'
<1>1. CommandsInv /\ RecordsInv /\ KeptWhenSingle /\ ValidatedWhenSingle
  BY DEF GatedInv
<1> DEFINE o == commands[i].output
<1>2. /\ UNCHANGED <<funding, lastGood, pendingVerdict, timers, commands, stateFile, cells,
                     recorded, validated, released>>
      /\ \/ utxo[o] = "none" /\ utxo' = [utxo EXCEPT ![o] = "unspent"]
         \/ utxo[o] = "unspent" /\ utxo' = [utxo EXCEPT ![o] = "spent"]
  BY DEF NetworkFunds, NetworkSpends, processVars, gatedHistory
<1>3. CommandsInv'
  BY <1>1, <1>2 DEF CommandsInv
<1>4. utxo \in [Outputs -> {"none", "unspent", "spent"}] /\ recorded \subseteq Outputs
  BY <1>1 DEF RecordsInv
<1>5. /\ utxo' \in [Outputs -> {"none", "unspent", "spent"}]
      /\ \A p \in recorded : utxo[p] # "none" =>
           utxo'[p] # "none" /\ (utxo'[p] = "unspent" => utxo[p] = "unspent")
  BY <1>2, <1>4
<1>6. RecordsInv'
  BY <1>1, <1>2, <1>5 DEF RecordsInv
<1>7. KeptWhenSingle' /\ ValidatedWhenSingle'
  BY <1>1, <1>2, <1>5 DEF RecordsInv, KeptWhenSingle, ValidatedWhenSingle, Single
<1> QED  BY <1>3, <1>6, <1>7 DEF GatedInv

\* A new output takes the place of the one before it.
LEMMA FundedKeeps ==
  ASSUME GatedInv, NEW i \in 1..Len(commands), Funded(i)
  PROVE  GatedInv'
<1>1. CommandsInv /\ RecordsInv /\ KeptWhenSingle /\ ValidatedWhenSingle
  BY DEF GatedInv
<1> DEFINE o == commands[i].output
<1>2. /\ utxo[o] # "none" /\ Goes(i, "done")
      /\ funding' = o /\ stateFile' = o /\ recorded' = recorded \cup {o}
      /\ UNCHANGED <<lastGood, pendingVerdict, timers, cells, utxo, validated, released>>
  BY DEF Funded
<1>3. o \in Outputs
  <2>1. commands[i] \in CommandSpace
    BY <1>1 DEF CommandsInv
  <2> QED  BY <2>1 DEF CommandSpace
<1> HIDE DEF o
<1>4. CommandsInv'
  <2>1. recorded \subseteq recorded'
    BY <1>2
  <2> QED  BY <1>1, <1>2, <2>1, CommandMovesAlone DEF Places, Active
<1>5. IsFiniteSet(recorded')
  BY <1>1, <1>2, FS_AddElement DEF RecordsInv
<1>6. RecordsInv'
  BY <1>1, <1>2, <1>3, <1>5 DEF RecordsInv
<1>7. KeptWhenSingle'
  BY <1>2 DEF KeptWhenSingle, Single
<1>8. ValidatedWhenSingle'
  BY <1>1, <1>2 DEF ValidatedWhenSingle, Single
<1> QED  BY <1>4, <1>6, <1>7, <1>8 DEF GatedInv

\* What is forgotten was spent: with one output, it is the one on file.
LEMMA SettledKeeps ==
  ASSUME GatedInv, NEW i \in 1..Len(commands), Settled(i)
  PROVE  GatedInv'
<1>1. CommandsInv /\ RecordsInv /\ KeptWhenSingle /\ ValidatedWhenSingle
  BY DEF GatedInv
<1> DEFINE o == commands[i].output
<1>2. /\ commands[i].at = "settling" /\ utxo[o] = "spent" /\ Goes(i, "done")
      /\ funding' = NoOutput /\ stateFile' = NoOutput /\ lastGood' = NoOutput
      /\ UNCHANGED <<pendingVerdict, timers, cells, utxo, recorded, validated, released>>
  BY DEF Settled, gatedHistory
<1>3. o \in recorded
  BY <1>1, <1>2 DEF CommandsInv, Active
<1> HIDE DEF o
<1>4. CommandsInv'
  BY <1>1, <1>2, CommandMovesAlone DEF Places, Active
<1>5. RecordsInv'
  BY <1>1, <1>2 DEF RecordsInv
<1>6. KeptWhenSingle'
  BY <1>2, <1>3 DEF KeptWhenSingle, Single
<1>7. ValidatedWhenSingle'
  BY <1>1, <1>2 DEF ValidatedWhenSingle, Single
<1> QED  BY <1>4, <1>5, <1>6, <1>7 DEF GatedInv

LEMMA ResumesKeeps ==
  ASSUME GatedInv, Resumes
  PROVE  GatedInv'
<1>1. CommandsInv /\ RecordsInv /\ KeptWhenSingle /\ ValidatedWhenSingle
  BY DEF GatedInv
<1>2. /\ funding' = stateFile /\ lastGood' = NoOutput /\ pendingVerdict' = 0
      /\ timers' = <<>> /\ commands' = <<>>
      /\ UNCHANGED <<stateFile, cells, utxo, recorded, validated, released>>
  BY DEF Resumes
<1>3. CommandsInv'
  BY <1>2 DEF CommandsInv
<1>4. RecordsInv'
  BY <1>1, <1>2 DEF RecordsInv
<1>5. KeptWhenSingle' /\ ValidatedWhenSingle'
  BY <1>1, <1>2 DEF KeptWhenSingle, ValidatedWhenSingle, Single
<1> QED  BY <1>3, <1>4, <1>5 DEF GatedInv

-----------------------------------------------------------------------------
(* Verdicts and what is released *)

LEMMA SettleKeeps ==
  ASSUME GatedInv, Settle
  PROVE  GatedInv'
<1>1. CommandsInv /\ RecordsInv /\ KeptWhenSingle /\ ValidatedWhenSingle
  BY DEF GatedInv
<1>2. /\ lastGood # NoOutput
      /\ commands' = Append(commands, Command("settling", TRUE, lastGood))
      /\ released' = released \cup {[output |-> lastGood, asked |-> TRUE]}
      /\ UNCHANGED <<funding, lastGood, pendingVerdict, timers, stateFile, cells, utxo,
                     recorded, validated>>
  BY DEF Settle
<1>3. lastGood \in recorded /\ lastGood \in Outputs
  BY <1>1, <1>2 DEF RecordsInv
<1>4. CommandsInv'
  BY <1>1, <1>2, <1>3, CommandBegins DEF Places
<1>5. [output |-> lastGood, asked |-> TRUE] \in ReleaseSpace
  BY <1>3 DEF ReleaseSpace
<1>6. RecordsInv'
  BY <1>1, <1>2, <1>5 DEF RecordsInv
<1>7. KeptWhenSingle'
  BY <1>1, <1>2 DEF KeptWhenSingle, Single
<1>8. ValidatedWhenSingle'
  BY <1>1, <1>2 DEF ValidatedWhenSingle, Single
<1> QED  BY <1>4, <1>6, <1>7, <1>8 DEF GatedInv

\* A verdict on a cell of the only output is about the spend that is armed.
LEMMA VerdictKeeps ==
  ASSUME GatedInv, NEW cell \in cells, Verdict(cell)
  PROVE  GatedInv'
<1>1. CommandsInv /\ RecordsInv /\ KeptWhenSingle /\ ValidatedWhenSingle
  BY DEF GatedInv
<1>2. /\ cells' = cells \ {cell}
      /\ validated' = IF cell.good THEN validated \cup {cell.output} ELSE validated
      /\ VerdictResolves(cell)
      /\ pendingVerdict' = 0
      /\ UNCHANGED <<funding, lastGood, timers, stateFile, utxo, recorded>>
  BY DEF Verdict
<1> DEFINE i == pendingVerdict
           c == [commands[i] EXCEPT !.at = "settling", !.output = lastGood]
           new == [output |-> lastGood, asked |-> FALSE]
           Releases == /\ i # 0 /\ cell.good /\ lastGood # NoOutput
                       /\ commands' = [commands EXCEPT ![i] = c]
                       /\ released' = released \cup {new}
           Quiet == /\ \/ commands' = commands
                       \/ i # 0 /\ Goes(i, "done")
                    /\ released' = released
<1>3. Releases \/ Quiet
  BY <1>2 DEF VerdictResolves, Release, Goes
<1>4. i # 0 => i \in 1..Len(commands) /\ commands[i] \in CommandSpace
  BY <1>1 DEF CommandsInv
<1>5. Len(commands) \in Nat /\ 0 \in 0..Len(commands)
  BY <1>1 DEF CommandsInv
<1>6. cell.output \in recorded /\ validated \subseteq validated'
  BY <1>1, <1>2 DEF RecordsInv
<1>7. KeptWhenSingle'
  BY <1>1, <1>2 DEF KeptWhenSingle, Single
<1>8. CASE Quiet
  <2>1. CommandsInv'
    <3>1. CASE commands' = commands
      BY <1>1, <1>2, <1>5, <3>1 DEF CommandsInv
    <3>2. CASE i # 0 /\ Goes(i, "done")
      BY <1>1, <1>2, <1>4, <1>5, <3>2, CommandMoves DEF Places, Active, CommandsInv
    <3> QED  BY <1>8, <3>1, <3>2
  <2>2. RecordsInv'
    BY <1>1, <1>2, <1>8 DEF RecordsInv
  <2>3. ValidatedWhenSingle'
    BY <1>1, <1>2, <1>6, <1>8 DEF ValidatedWhenSingle, Single
  <2> QED  BY <1>7, <2>1, <2>2, <2>3 DEF GatedInv
<1>9. CASE Releases
  <2>1. lastGood \in recorded /\ lastGood \in Outputs
    BY <1>1, <1>9 DEF RecordsInv
  <2>2. c \in CommandSpace /\ c.output = lastGood
    BY <1>4, <1>9, <2>1 DEF CommandSpace, Places
  <2>3. new \in ReleaseSpace
    BY <2>1 DEF ReleaseSpace
  <2> HIDE DEF c
  <2>4. CommandsInv'
    <3>1. /\ recorded \subseteq recorded' /\ pendingVerdict' \in 0..Len(commands)
          /\ timers' \in Seq(Nat) /\ \A k \in 1..Len(timers') : timers'[k] \in 1..Len(commands)
      BY <1>1, <1>2, <1>5 DEF CommandsInv
    <3>2. c.output \in recorded' /\ i \in 1..Len(commands)
      BY <1>2, <1>4, <1>9, <2>1, <2>2
    <3> QED  BY <1>1, <1>9, <2>2, <3>1, <3>2, CommandGoes
  <2>5. RecordsInv'
    BY <1>1, <1>2, <1>9, <2>3 DEF RecordsInv
  <2>6. ValidatedWhenSingle'
    <3> SUFFICES ASSUME Single, NEW r \in released', ~r.asked
                 PROVE  r.output \in validated'
      BY <1>2 DEF ValidatedWhenSingle, Single
    <3>1. CASE r \in released
      BY <1>1, <1>6, <3>1 DEF ValidatedWhenSingle
    <3>2. CASE r = new
      <4>1. cell.output = lastGood
        BY <1>6, <2>1 DEF Single
      <4> QED  BY <1>2, <1>9, <3>2, <4>1
    <3> QED  BY <1>9, <3>1, <3>2
  <2> QED  BY <1>7, <2>4, <2>5, <2>6 DEF GatedInv
<1> QED  BY <1>3, <1>8, <1>9

LEMMA VerdictMissedKeeps ==
  ASSUME GatedInv, NEW cell \in cells, NEW judged \in BOOLEAN, VerdictMissed(cell, judged)
  PROVE  GatedInv'
<1>1. CommandsInv /\ RecordsInv /\ KeptWhenSingle /\ ValidatedWhenSingle
  BY DEF GatedInv
<1>2. /\ cells' = cells \ {cell}
      /\ validated \subseteq validated'
      /\ UNCHANGED <<funding, lastGood, pendingVerdict, timers, commands, stateFile, utxo,
                     recorded, released>>
  BY DEF VerdictMissed, processVars
<1>3. CommandsInv'
  BY <1>1, <1>2 DEF CommandsInv
<1>4. RecordsInv'
  BY <1>1, <1>2 DEF RecordsInv
<1>5. KeptWhenSingle' /\ ValidatedWhenSingle'
  BY <1>1, <1>2 DEF KeptWhenSingle, ValidatedWhenSingle, Single
<1> QED  BY <1>3, <1>4, <1>5 DEF GatedInv

-----------------------------------------------------------------------------
(* The theorems *)

\* The invariant of the program, its file and the network holds in every state,
\* over verdicts that are late or lost, waits that run out and restarts.
THEOREM GatedInvariant == GatedSpec => []GatedInv
<1>1. GatedInit => GatedInv
  <2> SUFFICES ASSUME GatedInit PROVE GatedInv
    OBVIOUS
  <2>1. CommandsInv
    BY DEF GatedInit, CommandsInv
  <2>2. RecordsInv
    BY FS_EmptySet DEF GatedInit, RecordsInv
  <2> QED  BY <2>1, <2>2 DEF GatedInit, GatedInv, KeptWhenSingle, ValidatedWhenSingle
<1>2. GatedInv /\ [GatedNext]_gatedVars => GatedInv'
  <2> SUFFICES ASSUME GatedInv, [GatedNext]_gatedVars PROVE GatedInv'
    OBVIOUS
  <2>1. CASE UNCHANGED gatedVars
    BY <2>1 DEF gatedVars, processVars, gatedHistory, GatedInv, CommandsInv, RecordsInv,
       KeptWhenSingle, ValidatedWhenSingle, Single
  <2>2. Running \subseteq 1..Len(commands)
    BY DEF Running, CommandIds
  <2> QED  BY <2>1, <2>2, CommandStarts, SettleKeeps, TimerKeeps, ResumesKeeps, VerdictKeeps,
              VerdictMissedKeeps, CommandEnds, NetworkKeeps, FundedKeeps, InjectedKeeps,
              SettledKeeps DEF GatedNext
<1> QED  BY <1>1, <1>2, PTL DEF GatedSpec

\* "So a crash/restart never strands real sats": an output that is all that was
\* ever recorded stays on file until the network has spent it.
THEOREM OutputIsKept == GatedSpec => []KeptUntilSpent
<1>1. GatedInv => KeptUntilSpent
  BY AtMostOne DEF GatedInv, RecordsInv, KeptWhenSingle, Single, KeptUntilSpent
<1> QED  BY <1>1, GatedInvariant, PTL

\* "Only spends it validates ever reach the chain", for what is released without
\* `settle` while one output is all that was ever recorded.
THEOREM ReleasesAreValidated == GatedSpec => []ReleasedIsValidated
<1>1. GatedInv => ReleasedIsValidated
  BY AtMostOne DEF GatedInv, RecordsInv, ValidatedWhenSingle, Single, ReleasedIsValidated
<1> QED  BY <1>1, GatedInvariant, PTL

-----------------------------------------------------------------------------
(***************************************************************************)
(* Mnca                                                                     *)
(***************************************************************************)

(* Induction over numbers, by sets *)

\* A set of numbers that is not empty has a least one.
LEMMA LeastExists ==
  ASSUME NEW T, T \subseteq Nat, T # {}
  PROVE  \E x \in T : \A y \in T : x <= y
<1> DEFINE R == OpToRel(<, Nat)
<1>1. IsWellFoundedOn(R, Nat)
  BY NatLessThanWellFounded
<1>2. \A x, y \in Nat : y < x => <<y, x>> \in R
  BY DEF OpToRel
<1> HIDE DEF R
<1>3. PICK x \in T : \A y \in T : ~(<<y, x>> \in R)
  BY <1>1, WFMin
<1>4. ASSUME NEW y \in T  PROVE x <= y
  <2>1. ~(<<y, x>> \in R) /\ x \in Nat /\ y \in Nat
    BY <1>3
  <2>2. ~(y < x)
    BY <2>1, <1>2
  <2> QED  BY <2>1, <2>2
<1> QED  BY <1>4

\* A set that holds 0 and the successor of each number it holds has them all.
LEMMA SetInduction ==
  ASSUME NEW T, 0 \in T, \A n \in Nat : n \in T => n + 1 \in T
  PROVE  Nat \subseteq T
<1> SUFFICES ASSUME ~(Nat \subseteq T)  PROVE FALSE
  OBVIOUS
<1> DEFINE N == {n \in Nat : n \notin T}
<1>1. PICK x \in N : \A y \in N : x <= y
  BY LeastExists
<1>2. x # 0 /\ x - 1 \in Nat
  BY <1>1
<1>3. x - 1 \in T
  BY <1>1, <1>2
<1> QED  BY <1>1, <1>2, <1>3

-----------------------------------------------------------------------------
(* The tile of each generation *)

\* The tiles of the generations up to n.
Prefix(f, n) == f = [g \in 0..n |-> IF g = 0 THEN FirstTile ELSE MncaStep(f[g - 1])]

LEMMA PrefixExists == \A n \in Nat : \E f : Prefix(f, n)
<1> DEFINE T == {n \in Nat : \E f : Prefix(f, n)}
<1>1. 0 \in T
  <2>1. Prefix([g \in 0..0 |-> FirstTile], 0)
    BY DEF Prefix
  <2> QED  BY <2>1
<1>2. ASSUME NEW n \in Nat, n \in T  PROVE n + 1 \in T
  <2>1. PICK f : Prefix(f, n)
    BY <1>2
  <2> DEFINE h == [g \in 0..(n + 1) |-> IF g = n + 1 THEN MncaStep(f[n]) ELSE f[g]]
  <2>2. Prefix(h, n + 1)
    <3>1. \A g \in 0..(n + 1) : h[g] = IF g = 0 THEN FirstTile ELSE MncaStep(h[g - 1])
      BY <2>1 DEF Prefix
    <3> QED  BY <3>1 DEF Prefix
  <2> QED  BY <2>2
<1> HIDE DEF T
<1>3. Nat \subseteq T
  BY <1>1, <1>2, SetInduction
<1> QED  BY <1>3 DEF T

LEMMA PrefixesAgree ==
  ASSUME NEW m \in Nat, NEW n \in Nat, NEW f, NEW h, Prefix(f, m), Prefix(h, n)
  PROVE  \A g \in Nat : g <= m /\ g <= n => f[g] = h[g]
<1> DEFINE T == {g \in Nat : g <= m /\ g <= n => f[g] = h[g]}
<1>1. 0 \in T
  BY DEF Prefix
<1>2. ASSUME NEW g \in Nat, g \in T  PROVE g + 1 \in T
  BY <1>2 DEF Prefix
<1> HIDE DEF T
<1>3. Nat \subseteq T
  BY <1>1, <1>2, SetInduction
<1> QED  BY <1>3 DEF T

\* Computed is what its recursion says.
LEMMA ComputedIs ==
  /\ Computed[0] = FirstTile
  /\ \A g \in Nat : Computed[g + 1] = MncaStep(Computed[g])
<1> DEFINE H(n) == CHOOSE f : Prefix(f, n)
           G == [n \in Nat |-> H(n)[n]]
<1>1. \A n \in Nat : Prefix(H(n), n)
  BY PrefixExists
<1>2. ASSUME NEW n \in Nat  PROVE G[n] = IF n = 0 THEN FirstTile ELSE MncaStep(G[n - 1])
  <2> DEFINE a == H(n)  b == H(n - 1)
  <2>1. Prefix(a, n) /\ (n # 0 => Prefix(b, n - 1))
    BY <1>1
  <2>2. CASE n = 0
    BY <2>1, <2>2 DEF Prefix
  <2>3. CASE n # 0
    <3>1. a[n - 1] = b[n - 1]
      <4> HIDE DEF a, b
      <4> QED  BY <2>1, <2>3, PrefixesAgree
    <3>2. a[n] = MncaStep(a[n - 1])
      <4> HIDE DEF a, b
      <4> QED  BY <2>1, <2>3 DEF Prefix
    <3> QED  BY <3>1, <3>2, <2>3
  <2> QED  BY <2>2, <2>3
<1>3. G = [n \in Nat |-> G[n]]
  OBVIOUS
<1> HIDE DEF G
<1>4. G = [n \in Nat |-> IF n = 0 THEN FirstTile ELSE MncaStep(G[n - 1])]
  BY <1>2, <1>3
<1>5. Computed = [n \in Nat |-> IF n = 0 THEN FirstTile ELSE MncaStep(Computed[n - 1])]
  BY <1>4 DEF Computed
<1> QED  BY <1>5

-----------------------------------------------------------------------------
(* The rule *)

\* What a byte is clamped to.
LEMMA ClampIs ==
  ASSUME NEW v \in Int
  PROVE  /\ ClampU8(v) \in 0..255
         /\ v < 0 => ClampU8(v) = 0
         /\ v \in 0..255 => ClampU8(v) = v
BY DEF ClampU8

\* A step of a board adds to a cell or takes from it.
LEMMA StepIs ==
  ASSUME NEW t \in Tiles, NEW c \in Cells
  PROVE  /\ t[c] \in 0..255
         /\ MncaStep(t)[c] = IF t[c] >= 128
                             THEN IF CountAlive(t, c) \in Survivals
                                  THEN ClampU8(t[c] + 64) ELSE ClampU8(t[c] - 64)
                             ELSE IF CountAlive(t, c) \in Births
                                  THEN ClampU8(t[c] + 64) ELSE ClampU8(t[c] - 64)
<1>1. t[c] \in 0..255
  BY DEF Tiles
<1> DEFINE stays == CountAlive(t, c) \in Survivals  born == CountAlive(t, c) \in Births
<1>2. MncaStep(t)[c] = ClampU8(t[c] + (IF t[c] >= 128 THEN IF stays THEN 64 ELSE -64
                                       ELSE IF born THEN 64 ELSE -64))
  BY DEF MncaStep, AliveThreshold, GrowStep, DecayStep
<1>3. t[c] + (-64) = t[c] - 64
  BY <1>1
<1> HIDE DEF stays, born
<1>4. MncaStep(t)[c] = IF t[c] >= 128 THEN IF stays THEN ClampU8(t[c] + 64) ELSE ClampU8(t[c] - 64)
                       ELSE IF born THEN ClampU8(t[c] + 64) ELSE ClampU8(t[c] - 64)
  BY <1>2, <1>3
<1> QED  BY <1>1, <1>4 DEF stays, born

\* A step of a board makes a tile.
LEMMA StepIsTile == \A t \in Tiles : MncaStep(t) \in Tiles
<1> SUFFICES ASSUME NEW t \in Tiles, NEW c \in Cells
             PROVE  MncaStep(t)[c] \in 0..255
  BY DEF MncaStep, Tiles
<1>1. t[c] \in 0..255
  BY DEF Tiles
<1>2. ClampU8(t[c] + 64) \in 0..255 /\ ClampU8(t[c] - 64) \in 0..255
  <2>1. t[c] + 64 \in Int /\ t[c] - 64 \in Int
    BY <1>1
  <2> QED  BY <2>1, ClampIs
<1> QED  BY <1>2, StepIs

\* The oracle computes what the boards do, by other means.
LEMMA StepsAgree == \A t \in Tiles : StepTile(t) = MncaStep(t)
<1> SUFFICES ASSUME NEW t \in Tiles, NEW c \in Cells
             PROVE  StepTile(t)[c] = MncaStep(t)[c]
  BY DEF MncaStep, StepTile
<1>1. t[c] \in 0..255
  BY DEF Tiles
<1> DEFINE stays == CountAlive(t, c) \in Survivals  born == CountAlive(t, c) \in Births
<1>2. StepTile(t)[c] =
        ClampU8(IF \/ t[c] < 128 /\ born
                   \/ t[c] >= 128 /\ stays THEN t[c] + 64
                ELSE IF t[c] > 64 THEN t[c] - 64 ELSE 0)
  BY DEF StepTile, AliveThreshold, GrowStep, DecayStep
<1>3. MncaStep(t)[c] = IF t[c] >= 128 THEN IF stays THEN ClampU8(t[c] + 64) ELSE ClampU8(t[c] - 64)
                       ELSE IF born THEN ClampU8(t[c] + 64) ELSE ClampU8(t[c] - 64)
  BY StepIs
<1>4. ClampU8(t[c] - 64) = ClampU8(IF t[c] > 64 THEN t[c] - 64 ELSE 0)
  <2>1. CASE t[c] > 64
    BY <2>1
  <2>2. CASE ~(t[c] > 64)
    <3>1. ClampU8(0) = 0
      BY ClampIs
    <3>2. t[c] - 64 \in Int /\ (t[c] - 64 < 0 \/ t[c] - 64 = 0)
      BY <1>1, <2>2
    <3> QED  BY <2>2, <3>1, <3>2, ClampIs
  <2> QED  BY <2>1, <2>2
<1> HIDE DEF stays, born
<1>5. CASE (t[c] < 128 /\ born) \/ (t[c] >= 128 /\ stays)
  BY <1>1, <1>2, <1>3, <1>5
<1>6. CASE ~((t[c] < 128 /\ born) \/ (t[c] >= 128 /\ stays))
  BY <1>1, <1>2, <1>3, <1>4, <1>6
<1> QED  BY <1>5, <1>6

LEMMA ComputedIsTile ==
  ASSUME FirstTile \in Tiles
  PROVE  \A g \in Nat : Computed[g] \in Tiles
<1> DEFINE T == {g \in Nat : Computed[g] \in Tiles}
<1>1. 0 \in T
  BY ComputedIs
<1>2. ASSUME NEW g \in Nat, g \in T  PROVE g + 1 \in T
  BY <1>2, ComputedIs, StepIsTile
<1> HIDE DEF T
<1>3. Nat \subseteq T
  BY <1>1, <1>2, SetInduction
<1> QED  BY <1>3 DEF T

-----------------------------------------------------------------------------
(* The invariant *)

VoteSpace == [mac : Boards, state : Tiles]
SlotSpace == [valid : BOOLEAN, gen : Nat, votes : Seq(VoteSpace), since : Nat]
WhereSpace == [slot : 0..Slots, new : BOOLEAN]

MncaTyped ==
  /\ tile \in [Boards -> [gen : Nat, state : Tiles]]
  /\ table \in [Boards -> [1..Slots -> SlotSpace]]
  /\ midway \in [Boards -> [at : BOOLEAN, where : WhereSpace]]
  /\ now \in Nat
  /\ settled \in [Boards -> SUBSET [gen : Nat, state : Tiles]]

\* A vote by a board that computes rightly is for the right tile.
RightVote(mac, gen, state) == mac \notin Faulty => state = Computed[gen]

\* No board votes twice in a window, who computes rightly votes rightly, and no two
\* votes agree yet.
SoundSlot(s) ==
  /\ \A i, j \in 1..Len(s.votes) : i # j => s.votes[i].mac # s.votes[j].mac
  /\ \A i \in 1..Len(s.votes) : RightVote(s.votes[i].mac, s.gen, s.votes[i].state)
  /\ ~Agree(s)

\* The tile of a board that computes rightly is the right one.
TilesAreRight ==
  \A b \in Boards : /\ RightVote(b, tile[b].gen, tile[b].state)
                    /\ Ticking(b) => tile[b].gen > 0

\* Uninterrupted, one board ticks at a time, the slot it has chosen is still the one
\* for its vote, and what is in a window is sound.
WindowsAreSound ==
  ~Preempts =>
    /\ \A b, c \in Boards : Ticking(b) /\ Ticking(c) => b = c
    /\ \A b \in Boards : Ticking(b) => midway[b].where = SlotOf(table[b], tile[b].gen)
    /\ \A b \in Boards : \A i \in 1..Slots : table[b][i].valid => SoundSlot(table[b][i])

\* At most one board computes wrongly, and then no frame interrupts a tick.
FewFaults == \A f, g \in Faulty : f = g /\ ~Preempts

SettledIsRight ==
  FewFaults => \A b \in Boards : \A t \in settled[b] : t.gen > 0 /\ t.state = Computed[t.gen]

MncaInv == MncaTyped /\ TilesAreRight /\ WindowsAreSound /\ SettledIsRight

-----------------------------------------------------------------------------
(* One vote *)

\* The slot chosen for a vote is one of its own generation, or a free one.
LEMMA SlotOfIs ==
  ASSUME MncaAssumption, NEW t \in [1..Slots -> SlotSpace], NEW gen \in Nat
  PROVE  /\ SlotOf(t, gen) \in WhereSpace
         /\ SlotOf(t, gen).slot # 0 /\ ~SlotOf(t, gen).new =>
              t[SlotOf(t, gen).slot].valid /\ t[SlotOf(t, gen).slot].gen = gen
<1> DEFINE own == {i \in 1..Slots : t[i].valid /\ t[i].gen = gen}
           free == {i \in 1..Slots : ~t[i].valid}
<1>0. Slots \in Nat
  BY DEF MncaAssumption
<1>1. SlotOf(t, gen) = IF own # {} THEN [slot |-> Least(own), new |-> FALSE]
                       ELSE IF free # {} THEN [slot |-> Least(free), new |-> TRUE]
                       ELSE [slot |-> 0, new |-> FALSE]
  BY DEF SlotOf
<1>2. ASSUME NEW S, S \subseteq 1..Slots, S # {}  PROVE Least(S) \in S
  <2>1. S \subseteq Nat
    BY <1>2, <1>0
  <2>2. \E i \in S : \A j \in S : i <= j
    BY <2>1, <1>2, LeastExists
  <2> QED  BY <2>2 DEF Least
<1>3. own \subseteq 1..Slots /\ free \subseteq 1..Slots
  OBVIOUS
<1>4. CASE own # {}
  <2>1. Least(own) \in own
    BY <1>2, <1>3, <1>4
  <2> QED  BY <1>0, <1>1, <1>4, <2>1 DEF WhereSpace
<1>5. CASE own = {} /\ free # {}
  <2>1. Least(free) \in free
    BY <1>2, <1>3, <1>5
  <2> QED  BY <1>0, <1>1, <1>5, <2>1 DEF WhereSpace
<1>6. CASE own = {} /\ free = {}
  BY <1>0, <1>1, <1>6 DEF WhereSpace
<1> QED  BY <1>4, <1>5, <1>6

LEMMA VotedIs ==
  ASSUME NEW s \in SlotSpace, NEW state \in Tiles, NEW mac \in Boards
  PROVE  /\ Voted(s, state, mac) \in SlotSpace
         /\ Voted(s, state, mac).gen = s.gen
         /\ MayVote(s, state, mac) =>
              /\ Len(Voted(s, state, mac).votes) = Len(s.votes) + 1
              /\ \A i \in 1..Len(s.votes) : Voted(s, state, mac).votes[i] = s.votes[i]
              /\ Voted(s, state, mac).votes[Len(s.votes) + 1] = [mac |-> mac, state |-> state]
         /\ ~MayVote(s, state, mac) => Voted(s, state, mac) = s
<1> DEFINE v == [mac |-> mac, state |-> state]
           q == Append(s.votes, v)
<1>1. v \in VoteSpace /\ s.votes \in Seq(VoteSpace)
  BY DEF VoteSpace, SlotSpace
<1>2. /\ q \in Seq(VoteSpace) /\ Len(q) = Len(s.votes) + 1
      /\ \A i \in 1..Len(s.votes) : q[i] = s.votes[i]
      /\ q[Len(s.votes) + 1] = v
  <2> HIDE DEF v
  <2> QED  BY <1>1
<1> HIDE DEF q
<1>3. CASE MayVote(s, state, mac)
  <2>1. Voted(s, state, mac) = [s EXCEPT !.votes = q]
    BY <1>3 DEF Voted, q
  <2>2. [s EXCEPT !.votes = q] \in SlotSpace /\ [s EXCEPT !.votes = q].votes = q
        /\ [s EXCEPT !.votes = q].gen = s.gen
    BY <1>2 DEF SlotSpace
  <2> QED  BY <1>2, <1>3, <2>1, <2>2
<1>4. CASE ~MayVote(s, state, mac)
  BY <1>4 DEF Voted
<1> QED  BY <1>3, <1>4

\* A vote in a sound window leaves it sound, or it agrees with one before it; and if
\* at most one board computes wrongly, what two agree on is right.
LEMMA VoteInSoundSlot ==
  ASSUME NEW s \in SlotSpace, NEW state \in Tiles, NEW mac \in Boards,
         SoundSlot(s), RightVote(mac, s.gen, state)
  PROVE  /\ ~Hit(s, state, mac) => SoundSlot(Voted(s, state, mac))
         /\ Hit(s, state, mac) /\ FewFaults => state = Computed[s.gen]
<1> DEFINE v == Voted(s, state, mac)  n == Len(s.votes)
<1>0. n \in Nat
  BY DEF SlotSpace
<1>1. CASE ~MayVote(s, state, mac)
  BY <1>1, VotedIs DEF Hit
<1>2. CASE MayVote(s, state, mac)
  <2>1. /\ Len(v.votes) = n + 1 /\ v.gen = s.gen
        /\ \A i \in 1..n : v.votes[i] = s.votes[i]
        /\ v.votes[n + 1].mac = mac /\ v.votes[n + 1].state = state
    <3>0. PICK w : w = [mac |-> mac, state |-> state]
      OBVIOUS
    <3>1. /\ Len(v.votes) = n + 1 /\ v.gen = s.gen
          /\ \A i \in 1..n : v.votes[i] = s.votes[i]
          /\ v.votes[n + 1] = w
      BY <1>2, <3>0, VotedIs
    <3>2. w.mac = mac /\ w.state = state
      BY <3>0
    <3> HIDE DEF v
    <3> QED  BY <3>1, <3>2
  <2> HIDE DEF v
  <2>2. \A i \in 1..n : s.votes[i].mac # mac
    BY <1>2 DEF MayVote
  <2>s. /\ \A i, j \in 1..n : i # j => s.votes[i].mac # s.votes[j].mac
        /\ \A i \in 1..n : RightVote(s.votes[i].mac, s.gen, s.votes[i].state)
        /\ \A i, j \in 1..n : i # j => s.votes[i].state # s.votes[j].state
    BY DEF SoundSlot, Agree
  <2> HIDE DEF n
  <2>3. \A i, j \in 1..(n + 1) : i # j => v.votes[i].mac # v.votes[j].mac
    <3> SUFFICES ASSUME NEW i \in 1..(n + 1), NEW j \in 1..(n + 1), i # j
                 PROVE  v.votes[i].mac # v.votes[j].mac
      OBVIOUS
    <3>1. CASE i \in 1..n /\ j \in 1..n
      <4>1. v.votes[i] = s.votes[i] /\ v.votes[j] = s.votes[j]
        BY <2>1, <3>1
      <4> QED  BY <3>1, <4>1, <2>s
    <3>2. CASE i = n + 1
      <4>1. j \in 1..n
        BY <3>2, <1>0
      <4> QED  BY <2>1, <2>2, <3>2, <4>1
    <3>3. CASE j = n + 1
      <4>1. i \in 1..n
        BY <3>3, <1>0
      <4> QED  BY <2>1, <2>2, <3>3, <4>1
    <3> QED  BY <3>1, <3>2, <3>3, <1>0
  <2>4. \A i \in 1..(n + 1) : RightVote(v.votes[i].mac, s.gen, v.votes[i].state)
    <3> SUFFICES ASSUME NEW i \in 1..(n + 1)
                 PROVE  RightVote(v.votes[i].mac, s.gen, v.votes[i].state)
      OBVIOUS
    <3>1. CASE i \in 1..n
      <4>1. v.votes[i] = s.votes[i]
        BY <2>1, <3>1
      <4> QED  BY <3>1, <4>1, <2>s
    <3>2. CASE i = n + 1
      <4>1. mac = v.votes[i].mac /\ state = v.votes[i].state
        BY <2>1, <3>2
      <4> QED  BY <4>1
    <3> QED  BY <3>1, <3>2, <1>0
  <2>5. CASE ~Agree(v)
    BY <2>1, <2>3, <2>4, <2>5 DEF SoundSlot, Hit, v
  <2>6. CASE Agree(v)
    <3>1. PICK i, j \in 1..(n + 1) : i # j /\ v.votes[i].state = v.votes[j].state
      BY <2>1, <2>6 DEF Agree
    <3>2. ~(i \in 1..n /\ j \in 1..n)
      <4> SUFFICES ASSUME i \in 1..n, j \in 1..n  PROVE FALSE
        OBVIOUS
      <4>1. v.votes[i] = s.votes[i] /\ v.votes[j] = s.votes[j]
        BY <2>1
      <4> QED  BY <3>1, <4>1, <2>s
    <3>3. v.votes[i].state = state /\ v.votes[j].state = state
      BY <2>1, <3>1, <3>2, <1>0
    <3>4. v.votes[i].mac # v.votes[j].mac
      BY <2>3, <3>1
    <3>5. FewFaults => v.votes[i].mac \notin Faulty \/ v.votes[j].mac \notin Faulty
      BY <3>4 DEF FewFaults
    <3>6. FewFaults => state = Computed[s.gen]
      BY <2>4, <3>1, <3>3, <3>5 DEF RightVote
    <3> QED  BY <1>2, <2>6, <3>6 DEF Hit, v
  <2> QED  BY <2>5, <2>6
<1> QED  BY <1>1, <1>2

LEMMA FreshIsSound ==
  ASSUME NEW gen, NEW t
  PROVE  SoundSlot([valid |-> TRUE, gen |-> gen, votes |-> <<>>, since |-> t])
BY DEF SoundSlot, Agree

LEMMA ExpiredIs ==
  ASSUME MncaAssumption, now \in Nat, NEW t \in [1..Slots -> SlotSpace]
  PROVE  /\ Expired(t) \in [1..Slots -> SlotSpace]
         /\ \A i \in 1..Slots : Expired(t)[i].valid => Expired(t)[i] = t[i]
<1> SUFFICES ASSUME NEW i \in 1..Slots
             PROVE  /\ Expired(t)[i] \in SlotSpace
                    /\ Expired(t)[i].valid => Expired(t)[i] = t[i]
  BY DEF Expired
<1>1. t[i] \in SlotSpace
  OBVIOUS
<1>2. /\ [t[i] EXCEPT !.valid = FALSE] \in SlotSpace
      /\ [t[i] EXCEPT !.valid = FALSE].valid = FALSE
  BY <1>1 DEF SlotSpace
<1>3. Expired(t)[i] = t[i] \/ Expired(t)[i] = [t[i] EXCEPT !.valid = FALSE]
  BY DEF Expired
<1> QED  BY <1>1, <1>2, <1>3

LEMMA OpenedIs ==
  ASSUME now \in Nat, NEW s \in SlotSpace, NEW where \in WhereSpace, NEW gen \in Nat
  PROVE  /\ Opened(s, where, gen) \in SlotSpace
         /\ where.new => Opened(s, where, gen).gen = gen /\ SoundSlot(Opened(s, where, gen))
         /\ ~where.new => Opened(s, where, gen) = s
<1>1. CASE where.new
  <2> DEFINE o == [valid |-> TRUE, gen |-> gen, votes |-> <<>>, since |-> now]
  <2>1. Opened(s, where, gen) = o
    BY <1>1 DEF Opened
  <2>2. o \in SlotSpace /\ o.gen = gen
    BY DEF SlotSpace
  <2> QED  BY <1>1, <2>1, <2>2, FreshIsSound
<1>2. CASE ~where.new
  BY <1>2 DEF Opened
<1> QED  BY <1>1, <1>2

\* What a slot becomes as a vote is cast in it.
After(s, state, mac) ==
  IF Hit(s, state, mac) THEN [Voted(s, state, mac) EXCEPT !.valid = FALSE]
  ELSE Voted(s, state, mac)

LEMMA AfterIs ==
  ASSUME NEW s \in SlotSpace, NEW state \in Tiles, NEW mac \in Boards
  PROVE  /\ After(s, state, mac) \in SlotSpace
         /\ After(s, state, mac).valid =>
              ~Hit(s, state, mac) /\ After(s, state, mac) = Voted(s, state, mac)
<1> DEFINE v == Voted(s, state, mac)
<1>1. v \in SlotSpace
  BY VotedIs
<1> HIDE DEF v
<1>2. [v EXCEPT !.valid = FALSE] \in SlotSpace /\ [v EXCEPT !.valid = FALSE].valid = FALSE
  BY <1>1 DEF SlotSpace
<1>3. After(s, state, mac) = IF Hit(s, state, mac) THEN [v EXCEPT !.valid = FALSE] ELSE v
  BY DEF After, v
<1> QED  BY <1>1, <1>2, <1>3 DEF v

LEMMA CastIs ==
  ASSUME now \in Nat, NEW t \in [1..Slots -> SlotSpace], NEW where \in WhereSpace,
         NEW gen \in Nat, NEW state \in Tiles, NEW mac \in Boards
  PROVE  /\ CastAt(t, where, gen, state, mac) \in [1..Slots -> SlotSpace]
         /\ where.slot = 0 => CastAt(t, where, gen, state, mac) = t
         /\ where.slot # 0 =>
              /\ where.slot \in 1..Slots
              /\ CastAt(t, where, gen, state, mac)[where.slot]
                   = After(Opened(t[where.slot], where, gen), state, mac)
              /\ \A i \in 1..Slots : i # where.slot => CastAt(t, where, gen, state, mac)[i] = t[i]
<1>1. CASE where.slot = 0
  BY <1>1 DEF CastAt
<1>2. CASE where.slot # 0
  <2> DEFINE a == After(Opened(t[where.slot], where, gen), state, mac)
  <2>1. where.slot \in 1..Slots
    BY <1>2 DEF WhereSpace
  <2>2. a \in SlotSpace
    BY <2>1, OpenedIs, AfterIs
  <2>3. CastAt(t, where, gen, state, mac) = [t EXCEPT ![where.slot] = a]
    BY <1>2 DEF CastAt, After
  <2> HIDE DEF a
  <2>4. CastAt(t, where, gen, state, mac) \in [1..Slots -> SlotSpace]
    BY <2>1, <2>2, <2>3
  <2>5. CastAt(t, where, gen, state, mac)[where.slot] = a
    BY <2>1, <2>3
  <2> QED  BY <1>2, <2>1, <2>3, <2>4, <2>5 DEF a
<1> QED  BY <1>1, <1>2

SoundTable(t) == \A i \in 1..Slots : t[i].valid => SoundSlot(t[i])

LEMMA CastIsSound ==
  ASSUME MncaAssumption, now \in Nat, NEW t \in [1..Slots -> SlotSpace], SoundTable(t),
         NEW gen \in Nat, NEW state \in Tiles, NEW mac \in Boards, RightVote(mac, gen, state),
         NEW where, where = SlotOf(t, gen)
  PROVE  /\ SoundTable(CastAt(t, where, gen, state, mac))
         /\ HitsAt(t, where, gen, state, mac) /\ FewFaults => state = Computed[gen]
<1>1. where \in WhereSpace
  BY SlotOfIs
<1>2. CASE where.slot = 0
  BY <1>1, <1>2, CastIs DEF HitsAt
<1>3. CASE where.slot # 0
  <2> DEFINE o == Opened(t[where.slot], where, gen)
  <2>1. where.slot \in 1..Slots
    BY <1>1, <1>3, CastIs
  <2>2. o \in SlotSpace /\ o.gen = gen /\ SoundSlot(o)
    <3>1. CASE where.new
      BY <1>1, <2>1, <3>1, OpenedIs
    <3>2. CASE ~where.new
      <4>1. t[where.slot].valid /\ t[where.slot].gen = gen
        BY <1>3, <3>2, SlotOfIs
      <4> QED  BY <1>1, <2>1, <3>2, <4>1, OpenedIs DEF SoundTable
    <3> QED  BY <3>1, <3>2
  <2>3. HitsAt(t, where, gen, state, mac) => Hit(o, state, mac)
    BY DEF HitsAt
  <2>4. /\ CastAt(t, where, gen, state, mac)[where.slot] = After(o, state, mac)
        /\ \A i \in 1..Slots : i # where.slot => CastAt(t, where, gen, state, mac)[i] = t[i]
    BY <1>1, <1>3, CastIs
  <2> HIDE DEF o
  <2>5. /\ ~Hit(o, state, mac) => SoundSlot(Voted(o, state, mac))
        /\ Hit(o, state, mac) /\ FewFaults => state = Computed[gen]
    BY <2>2, VoteInSoundSlot
  <2>6. After(o, state, mac).valid => SoundSlot(After(o, state, mac))
    BY <2>2, <2>5, AfterIs
  <2> QED  BY <2>3, <2>4, <2>5, <2>6 DEF SoundTable
<1> QED  BY <1>2, <1>3

\* The same of a vote that is heard.
LEMMA UpdateIs ==
  ASSUME MncaAssumption, now \in Nat, NEW t \in [1..Slots -> SlotSpace],
         NEW gen \in Nat, NEW state \in Tiles, NEW mac \in Boards
  PROVE  /\ Update(t, gen, state, mac) \in [1..Slots -> SlotSpace]
         /\ SoundTable(t) /\ RightVote(mac, gen, state) =>
              /\ SoundTable(Update(t, gen, state, mac))
              /\ Hits(t, gen, state, mac) /\ FewFaults => state = Computed[gen]
<1> DEFINE e == Expired(t)
<1>1. e \in [1..Slots -> SlotSpace]
  BY ExpiredIs
<1>2. SoundTable(t) => SoundTable(e)
  BY ExpiredIs DEF SoundTable
<1>3. /\ Update(t, gen, state, mac) = CastAt(e, SlotOf(e, gen), gen, state, mac)
      /\ Hits(t, gen, state, mac) = HitsAt(e, SlotOf(e, gen), gen, state, mac)
  BY DEF Update, Hits
<1> HIDE DEF e
<1>4. SlotOf(e, gen) \in WhereSpace
  BY <1>1, SlotOfIs
<1>5. Update(t, gen, state, mac) \in [1..Slots -> SlotSpace]
  BY <1>1, <1>3, <1>4, CastIs
<1>6. ASSUME SoundTable(t), RightVote(mac, gen, state)
      PROVE  /\ SoundTable(CastAt(e, SlotOf(e, gen), gen, state, mac))
             /\ HitsAt(e, SlotOf(e, gen), gen, state, mac) /\ FewFaults => state = Computed[gen]
  BY <1>1, <1>2, <1>6, CastIsSound
<1> QED  BY <1>3, <1>5, <1>6

-----------------------------------------------------------------------------
(* The steps *)

LEMMA MncaStarts ==
  ASSUME MncaAssumption, MncaInit  PROVE MncaInv
<1> USE DEF MncaInit
<1>1. MncaTyped
  <2>1. FreeSlot \in SlotSpace
    BY DEF FreeSlot, SlotSpace
  <2>2. [slot |-> 0, new |-> FALSE] \in WhereSpace
    BY DEF WhereSpace, MncaAssumption
  <2> QED  BY <2>1, <2>2 DEF MncaTyped, MncaAssumption, Nowhere
<1>2. TilesAreRight
  BY ComputedIs DEF TilesAreRight, RightVote, Ticking
<1>3. WindowsAreSound
  BY DEF WindowsAreSound, Ticking, FreeSlot
<1>4. SettledIsRight
  BY DEF SettledIsRight
<1> QED  BY <1>1, <1>2, <1>3, <1>4 DEF MncaInv

LEMMA TickKeeps ==
  ASSUME MncaAssumption, MncaInv, NEW b \in Boards, Tick(b)
  PROVE  MncaInv'
<1>t. /\ tile \in [Boards -> [gen : Nat, state : Tiles]]
      /\ table \in [Boards -> [1..Slots -> SlotSpace]]
      /\ midway \in [Boards -> [at : BOOLEAN, where : WhereSpace]]
      /\ now \in Nat
      /\ settled \in [Boards -> SUBSET [gen : Nat, state : Tiles]]
  BY DEF MncaInv, MncaTyped
<1>u. now' = now /\ settled' = settled
  BY DEF Tick
<1>1. PICK s \in {MncaStep(tile[b].state)} \cup (IF b \in Faulty THEN WrongTiles ELSE {}) :
        tile' = [tile EXCEPT ![b] = [gen |-> @.gen + 1, state |-> s]]
  BY DEF Tick
<1> DEFINE g == tile[b].gen + 1  e == Expired(table[b])
           w == SlotOf(e, g)  m == [at |-> TRUE, where |-> w]
<1>2. s \in Tiles /\ g \in Nat /\ g > 0 /\ RightVote(b, g, s)
  <2>1. tile[b].gen \in Nat /\ tile[b].state \in Tiles
    BY <1>t
  <2>2. MncaStep(tile[b].state) \in Tiles
    BY <2>1, StepIsTile
  <2>3. s \in Tiles
    BY <1>1, <2>2 DEF MncaAssumption
  <2>4. b \notin Faulty => tile[b].state = Computed[tile[b].gen] /\ s = MncaStep(tile[b].state)
    BY <1>1 DEF MncaInv, TilesAreRight, RightVote
  <2> QED  BY <2>1, <2>3, <2>4, ComputedIs DEF RightVote
<1>3. /\ tile' = [tile EXCEPT ![b] = [gen |-> g, state |-> s]]
      /\ table' = [table EXCEPT ![b] = e]
      /\ midway' = [midway EXCEPT ![b] = m]
  BY <1>1 DEF Tick
<1>4. e \in [1..Slots -> SlotSpace] /\ \A i \in 1..Slots : e[i].valid => e[i] = table[b][i]
  BY <1>t, ExpiredIs
<1>w. w = SlotOf(e, g)
  OBVIOUS
<1>m. m.at = TRUE /\ m.where = w
  OBVIOUS
<1>p. \A c \in Boards : Ticking(c) => Preempts
  BY DEF Tick
<1> HIDE DEF g, e, w
<1>5. m \in [at : BOOLEAN, where : WhereSpace]
  BY <1>2, <1>4, <1>w, SlotOfIs
<1> HIDE DEF m
<1>6. MncaTyped'
  <2>1. tile' \in [Boards -> [gen : Nat, state : Tiles]]
    BY <1>t, <1>2, <1>3
  <2>2. table' \in [Boards -> [1..Slots -> SlotSpace]]
    BY <1>t, <1>3, <1>4
  <2>3. midway' \in [Boards -> [at : BOOLEAN, where : WhereSpace]]
    BY <1>t, <1>3, <1>5
  <2> QED  BY <2>1, <2>2, <2>3, <1>t, <1>u DEF MncaTyped
<1>7. /\ tile'[b].gen = g /\ tile'[b].state = s /\ table'[b] = e /\ midway'[b] = m
      /\ \A c \in Boards : c # b => tile'[c] = tile[c] /\ table'[c] = table[c] /\ midway'[c] = midway[c]
  BY <1>t, <1>3
<1>8. TilesAreRight'
  <2> SUFFICES ASSUME NEW c \in Boards
               PROVE  /\ RightVote(c, tile'[c].gen, tile'[c].state)
                      /\ midway'[c].at => tile'[c].gen > 0
    BY DEF TilesAreRight, RightVote, Ticking
  <2>1. CASE c = b
    BY <2>1, <1>2, <1>7
  <2>2. CASE c # b
    BY <2>2, <1>7 DEF MncaInv, TilesAreRight, Ticking
  <2> QED  BY <2>1, <2>2
<1>9. WindowsAreSound'
  <2> SUFFICES ASSUME ~Preempts
               PROVE  /\ \A c, d \in Boards : midway'[c].at /\ midway'[d].at => c = d
                      /\ \A c \in Boards : midway'[c].at =>
                           midway'[c].where = SlotOf(table'[c], tile'[c].gen)
                      /\ \A c \in Boards : \A i \in 1..Slots :
                           table'[c][i].valid => SoundSlot(table'[c][i])
    BY DEF WindowsAreSound, Ticking, SoundSlot, RightVote, Agree, SlotOf, Least
  <2>1. \A c \in Boards : c # b => ~midway'[c].at
    BY <1>p, <1>7 DEF Ticking
  <2>2. midway'[b].where = SlotOf(table'[b], tile'[b].gen)
    BY <1>7, <1>m, <1>w
  <2>3. \A c \in Boards : \A i \in 1..Slots : table'[c][i].valid => SoundSlot(table'[c][i])
    <3> SUFFICES ASSUME NEW c \in Boards, NEW i \in 1..Slots, table'[c][i].valid
                 PROVE  SoundSlot(table'[c][i])
      OBVIOUS
    <3>1. table'[c][i] = table[c][i]
      BY <1>4, <1>7
    <3> QED  BY <3>1 DEF MncaInv, WindowsAreSound
  <2> QED  BY <2>1, <2>2, <2>3
<1>10. SettledIsRight'
  BY <1>u DEF MncaInv, SettledIsRight
<1> QED  BY <1>6, <1>8, <1>9, <1>10 DEF MncaInv

LEMMA BroadcastKeeps ==
  ASSUME MncaAssumption, MncaInv, NEW b \in Boards, NEW hearers \in SUBSET (Boards \ {b}),
         Broadcast(b, hearers)
  PROVE  MncaInv'
<1>t. /\ tile \in [Boards -> [gen : Nat, state : Tiles]]
      /\ table \in [Boards -> [1..Slots -> SlotSpace]]
      /\ midway \in [Boards -> [at : BOOLEAN, where : WhereSpace]]
      /\ now \in Nat
      /\ settled \in [Boards -> SUBSET [gen : Nat, state : Tiles]]
  BY DEF MncaInv, MncaTyped
<1>u. tile' = tile /\ now' = now
  BY DEF Broadcast
<1> DEFINE g == tile[b].gen  s == tile[b].state  w == midway[b].where
           idle == [at |-> FALSE, where |-> Nowhere]
<1>1. Ticking(b) /\ midway' = [midway EXCEPT ![b] = idle]
  BY DEF Broadcast
<1>2. table' = [c \in Boards |-> IF c = b THEN CastAt(table[b], w, g, s, b)
                                 ELSE IF c \in hearers THEN Update(table[c], g, s, b)
                                 ELSE table[c]]
  BY DEF Broadcast
<1> DEFINE hits == {c \in hearers : Hits(table[c], g, s, b)}
                   \cup (IF HitsAt(table[b], w, g, s, b) THEN {b} ELSE {})
<1>3. settled' = [c \in Boards |-> IF c \in hits THEN settled[c] \cup {[gen |-> g, state |-> s]}
                                   ELSE settled[c]]
  BY DEF Broadcast
<1>4. g \in Nat /\ s \in Tiles /\ w \in WhereSpace /\ g > 0 /\ RightVote(b, g, s)
  BY <1>t, <1>1 DEF MncaInv, TilesAreRight
<1>h. \A c \in Boards : c \in hits =>
        IF c = b THEN HitsAt(table[b], w, g, s, b) ELSE Hits(table[c], g, s, b)
  OBVIOUS
<1>5. idle \in [at : BOOLEAN, where : WhereSpace] /\ idle.at = FALSE
  BY DEF Nowhere, WhereSpace, MncaAssumption
<1> HIDE DEF idle, hits
<1>6. /\ midway' \in [Boards -> [at : BOOLEAN, where : WhereSpace]]
      /\ ~midway'[b].at /\ \A c \in Boards : c # b => midway'[c] = midway[c]
  BY <1>t, <1>1, <1>5
<1>w. Preempts \/ w = SlotOf(table[b], g)
  BY <1>1 DEF MncaInv, WindowsAreSound
<1>p. ~Preempts => \A c \in Boards : ~midway'[c].at
  BY <1>1, <1>6 DEF MncaInv, WindowsAreSound, Ticking
<1> HIDE DEF g, s, w
<1>7. /\ CastAt(table[b], w, g, s, b) \in [1..Slots -> SlotSpace]
      /\ \A c \in Boards : Update(table[c], g, s, b) \in [1..Slots -> SlotSpace]
  BY <1>t, <1>4, CastIs, UpdateIs
<1>8. table' \in [Boards -> [1..Slots -> SlotSpace]]
  BY <1>t, <1>2, <1>7
<1>9. settled' \in [Boards -> SUBSET [gen : Nat, state : Tiles]]
  <2>1. [gen |-> g, state |-> s] \in [gen : Nat, state : Tiles]
    BY <1>4
  <2> QED  BY <1>t, <1>3, <2>1
<1>10. MncaTyped'
  BY <1>t, <1>u, <1>6, <1>8, <1>9 DEF MncaTyped
<1>11. TilesAreRight'
  <2>1. \A c \in Boards : midway'[c].at => midway[c].at
    BY <1>6
  <2> QED  BY <2>1, <1>u DEF MncaInv, TilesAreRight, RightVote, Ticking
<1>12. ~Preempts => \A c \in Boards : SoundTable(table[c])
  BY DEF MncaInv, WindowsAreSound, SoundTable
<1>13. WindowsAreSound'
  <2> SUFFICES ASSUME ~Preempts
               PROVE  /\ \A c, d \in Boards : midway'[c].at /\ midway'[d].at => c = d
                      /\ \A c \in Boards : midway'[c].at =>
                           midway'[c].where = SlotOf(table'[c], tile'[c].gen)
                      /\ \A c \in Boards : SoundTable(table'[c])
    BY DEF WindowsAreSound, Ticking, SoundTable
  <2>1. \A c \in Boards : ~midway'[c].at
    BY <1>p
  <2>2. ASSUME NEW c \in Boards  PROVE SoundTable(table'[c])
    <3>1. table[c] \in [1..Slots -> SlotSpace] /\ SoundTable(table[c])
      BY <1>t, <1>12
    <3>2. CASE c = b
      <4>1. table'[c] = CastAt(table[b], w, g, s, b)
        BY <1>2, <3>2
      <4>2. SoundTable(CastAt(table[b], w, g, s, b))
        BY <1>t, <1>4, <1>w, <3>1, <3>2, CastIsSound
      <4> QED  BY <4>1, <4>2
    <3>3. CASE c # b /\ c \in hearers
      <4>1. table'[c] = Update(table[c], g, s, b)
        BY <1>2, <3>3
      <4>2. SoundTable(Update(table[c], g, s, b))
        BY <1>t, <1>4, <3>1, UpdateIs
      <4> QED  BY <4>1, <4>2
    <3>4. CASE c # b /\ c \notin hearers
      BY <1>2, <3>1, <3>4
    <3> QED  BY <3>2, <3>3, <3>4
  <2> QED  BY <2>1, <2>2
<1>14. SettledIsRight'
  <2> SUFFICES ASSUME FewFaults, NEW c \in Boards, NEW t \in settled'[c]
               PROVE  t.gen > 0 /\ t.state = Computed[t.gen]
    BY DEF SettledIsRight, FewFaults
  <2>1. CASE t \in settled[c]
    BY <2>1 DEF MncaInv, SettledIsRight
  <2>2. CASE t \notin settled[c]
    <3>1. c \in hits /\ t = [gen |-> g, state |-> s]
      BY <2>2, <1>3
    <3>2. t.gen = g /\ t.state = s
      BY <3>1
    <3>3. s = Computed[g]
      <4>1. CASE b \notin Faulty
        BY <4>1, <1>4 DEF RightVote
      <4>2. CASE b \in Faulty
        <5>1. ~Preempts
          BY <4>2 DEF FewFaults
        <5>2. table[c] \in [1..Slots -> SlotSpace] /\ SoundTable(table[c])
          BY <1>t, <1>12, <5>1
        <5>3. CASE c = b
          <6>1. HitsAt(table[b], w, g, s, b)
            BY <1>h, <3>1, <5>3
          <6> QED  BY <1>t, <1>4, <1>w, <5>1, <5>2, <5>3, <6>1, CastIsSound
        <5>4. CASE c # b
          <6>1. Hits(table[c], g, s, b)
            BY <1>h, <3>1, <5>4
          <6> QED  BY <1>t, <1>4, <5>2, <6>1, UpdateIs
        <5> QED  BY <5>3, <5>4
      <4> QED  BY <4>1, <4>2
    <3> QED  BY <3>2, <3>3, <1>4
  <2> QED  BY <2>1, <2>2
<1> QED  BY <1>10, <1>11, <1>13, <1>14 DEF MncaInv

LEMMA MncaRebootKeeps ==
  ASSUME MncaAssumption, MncaInv, NEW b \in Boards, Reboot(b)
  PROVE  MncaInv'
<1>t. /\ tile \in [Boards -> [gen : Nat, state : Tiles]]
      /\ table \in [Boards -> [1..Slots -> SlotSpace]]
      /\ midway \in [Boards -> [at : BOOLEAN, where : WhereSpace]]
      /\ now \in Nat
      /\ settled \in [Boards -> SUBSET [gen : Nat, state : Tiles]]
  BY DEF MncaInv, MncaTyped
<1> DEFINE first == [gen |-> 0, state |-> FirstTile]
           none == [i \in 1..Slots |-> FreeSlot]
           idle == [at |-> FALSE, where |-> Nowhere]
<1>1. /\ tile' = [tile EXCEPT ![b] = first] /\ table' = [table EXCEPT ![b] = none]
      /\ midway' = [midway EXCEPT ![b] = idle] /\ now' = now /\ settled' = settled
  BY DEF Reboot
<1>2. /\ first \in [gen : Nat, state : Tiles] /\ first.gen = 0 /\ first.state = FirstTile
      /\ none \in [1..Slots -> SlotSpace] /\ \A i \in 1..Slots : ~none[i].valid
      /\ idle \in [at : BOOLEAN, where : WhereSpace] /\ idle.at = FALSE
  <2>1. FreeSlot \in SlotSpace /\ ~FreeSlot.valid
    BY DEF FreeSlot, SlotSpace
  <2> QED  BY <2>1 DEF Nowhere, WhereSpace, MncaAssumption
<1> HIDE DEF first, none, idle
<1>3. /\ tile' \in [Boards -> [gen : Nat, state : Tiles]]
      /\ table' \in [Boards -> [1..Slots -> SlotSpace]]
      /\ midway' \in [Boards -> [at : BOOLEAN, where : WhereSpace]]
  BY <1>t, <1>1, <1>2
<1>4. /\ tile'[b] = first /\ table'[b] = none /\ midway'[b] = idle
      /\ \A c \in Boards : c # b => tile'[c] = tile[c] /\ table'[c] = table[c] /\ midway'[c] = midway[c]
  BY <1>t, <1>1
<1>5. MncaTyped'
  BY <1>t, <1>1, <1>3 DEF MncaTyped
<1>6. TilesAreRight'
  <2> SUFFICES ASSUME NEW c \in Boards
               PROVE  /\ RightVote(c, tile'[c].gen, tile'[c].state)
                      /\ midway'[c].at => tile'[c].gen > 0
    BY DEF TilesAreRight, RightVote, Ticking
  <2>1. CASE c = b
    BY <2>1, <1>2, <1>4, ComputedIs DEF RightVote
  <2>2. CASE c # b
    BY <2>2, <1>4 DEF MncaInv, TilesAreRight, Ticking
  <2> QED  BY <2>1, <2>2
<1>7. WindowsAreSound'
  <2> SUFFICES ASSUME ~Preempts
               PROVE  /\ \A c, d \in Boards : midway'[c].at /\ midway'[d].at => c = d
                      /\ \A c \in Boards : midway'[c].at =>
                           midway'[c].where = SlotOf(table'[c], tile'[c].gen)
                      /\ \A c \in Boards : SoundTable(table'[c])
    BY DEF WindowsAreSound, Ticking, SoundTable
  <2>0. /\ \A c, d \in Boards : midway[c].at /\ midway[d].at => c = d
        /\ \A c \in Boards : midway[c].at => midway[c].where = SlotOf(table[c], tile[c].gen)
        /\ \A c \in Boards : SoundTable(table[c])
    BY DEF MncaInv, WindowsAreSound, Ticking, SoundTable
  <2>1. \A c, d \in Boards : midway'[c].at /\ midway'[d].at => c = d
    BY <2>0, <1>2, <1>4
  <2>2. \A c \in Boards : midway'[c].at => midway'[c].where = SlotOf(table'[c], tile'[c].gen)
    BY <2>0, <1>2, <1>4
  <2>3. \A c \in Boards : SoundTable(table'[c])
    BY <2>0, <1>2, <1>4 DEF SoundTable
  <2> QED  BY <2>1, <2>2, <2>3
<1>8. SettledIsRight'
  BY <1>1 DEF MncaInv, SettledIsRight
<1> QED  BY <1>5, <1>6, <1>7, <1>8 DEF MncaInv

LEMMA MncaStepKeeps ==
  ASSUME MncaAssumption, MncaInv, [MncaNext]_mncaVars
  PROVE  MncaInv'
<1>1. ASSUME NEW b \in Boards, Tick(b)  PROVE MncaInv'
  BY <1>1, TickKeeps
<1>2. ASSUME NEW b \in Boards, Reboot(b)  PROVE MncaInv'
  BY <1>2, MncaRebootKeeps
<1>3. ASSUME NEW b \in Boards,
             NEW hearers \in IF CanLose THEN SUBSET (Boards \ {b}) ELSE {Boards \ {b}},
             Broadcast(b, hearers)
      PROVE  MncaInv'
  <2>1. hearers \in SUBSET (Boards \ {b})
    BY <1>3
  <2> QED  BY <1>3, <2>1, BroadcastKeeps
<1>4. ASSUME tile' = tile, table' = table, midway' = midway, now' \in Nat, settled' = settled
      PROVE  MncaInv'
  <2>1. MncaTyped'
    BY <1>4 DEF MncaInv, MncaTyped
  <2>2. TilesAreRight'
    BY <1>4 DEF MncaInv, TilesAreRight, Ticking, RightVote
  <2>3. WindowsAreSound'
    BY <1>4 DEF MncaInv, WindowsAreSound, Ticking
  <2>4. SettledIsRight'
    BY <1>4 DEF MncaInv, SettledIsRight
  <2> QED  BY <2>1, <2>2, <2>3, <2>4 DEF MncaInv
<1>5. CASE TimePasses
  <2>1. now' \in Nat
    BY <1>5 DEF TimePasses, MncaInv, MncaTyped
  <2> QED  BY <1>4, <1>5, <2>1 DEF TimePasses
<1>6. CASE UNCHANGED mncaVars
  <2>1. now' \in Nat
    BY <1>6 DEF mncaVars, MncaInv, MncaTyped
  <2> QED  BY <1>4, <1>6, <2>1 DEF mncaVars
<1> QED  BY <1>1, <1>2, <1>3, <1>5, <1>6 DEF MncaNext

\* The inductive invariant of the quorum (cell_mnca.zig, main.c), for any boards,
\* tiles and table, whatever is lost and whoever reboots: boards that compute
\* rightly hold and vote the right tiles, a window counts a board once and is given
\* up as soon as two of its votes agree, and so what is settled is right.
THEOREM QuorumInvariant ==
  ASSUME MncaAssumption
  PROVE  MncaSpec => []MncaInv
<1>1. MncaInit => MncaInv
  BY MncaStarts
<1>2. MncaInv /\ [MncaNext]_mncaVars => MncaInv'
  BY MncaStepKeeps
<1> QED  BY <1>1, <1>2, PTL DEF MncaSpec

\* What a board settles is the tile of its generation, computed without a fault,
\* and the oracle, whose step is another program's, signs it: on every tile of
\* any size its step and the boards' agree (StepsAgree).
THEOREM SettledTilesAreComputed ==
  ASSUME MncaAssumption
  PROVE  MncaSpec => []SettledIsComputed
<1>1. MncaInv => SettledIsComputed
  <2> SUFFICES ASSUME MncaInv, FewFaults, NEW b \in Boards, NEW t \in settled[b]
               PROVE  /\ t.state = Computed[t.gen]
                      /\ OracleSigns(Computed[t.gen - 1], t.state)
    BY DEF SettledIsComputed, FewFaults
  <2>1. t.gen > 0 /\ t.gen \in Nat /\ t.state = Computed[t.gen]
    BY DEF MncaInv, MncaTyped, SettledIsRight
  <2>2. t.gen - 1 \in Nat /\ (t.gen - 1) + 1 = t.gen
    BY <2>1
  <2>3. Computed[t.gen - 1] \in Tiles /\ Computed[t.gen] = MncaStep(Computed[t.gen - 1])
    BY <2>2, ComputedIs, ComputedIsTile DEF MncaAssumption
  <2> QED  BY <2>1, <2>3, StepsAgree DEF OracleSigns
<1> QED  BY <1>1, QuorumInvariant, PTL

-----------------------------------------------------------------------------
(***************************************************************************)
(* MeteredPayments                                                          *)
(***************************************************************************)

(* The sum over a finite set of purchases *)

Fin == FiniteSubsetsOf(Purchases)
Pick(s) == CHOOSE x \in s : TRUE
Less(s) == s \ {Pick(s)}

\* f is the sum, by the recursion of the fold, of every subset of S.
IsSum(f, S) ==
  f = [s \in SUBSET S |-> IF s = {} THEN 0 ELSE Chosen[Pick(s)] + f[Less(s)]]

SumOf(S) == (CHOOSE f : IsSum(f, S))[S]

LEMMA SpentIs == \A S : Spent(S) = SumOf(S)
BY DEF Spent, SumOf, IsSum, Pick, Less, MapThenSumSet, MapThenFoldSet

LEMMA FinIs ==
  /\ {} \in Fin
  /\ \A S \in Fin : S \subseteq Purchases /\ IsFiniteSet(S) /\ \A s \in SUBSET S : s \in Fin
  /\ \A S \in Fin : S # {} => Pick(S) \in S /\ Less(S) \in Fin /\ Less(S) \subseteq S /\ Less(S) # S
<1>1. ASSUME NEW S \in Fin, NEW s \in SUBSET S  PROVE s \in Fin
  BY FS_Subset DEF Fin, FiniteSubsetsOf
<1>2. {} \in Fin
  BY FS_EmptySet DEF Fin, FiniteSubsetsOf
<1>3. ASSUME NEW S \in Fin, S # {}
      PROVE  Pick(S) \in S /\ Less(S) \in Fin /\ Less(S) \subseteq S /\ Less(S) # S
  <2>1. Pick(S) \in S
    BY <1>3 DEF Pick
  <2> QED  BY <2>1, <1>1 DEF Less
<1> QED  BY <1>1, <1>2, <1>3 DEF Fin, FiniteSubsetsOf

\* What holds of a set of purchases when it holds of every smaller part holds of all.
LEMMA FinInduction ==
  ASSUME NEW T, \A S \in Fin : (\A u \in SUBSET S : u # S => u \in T) => S \in T
  PROVE  Fin \subseteq T
<1> DEFINE R == StrictSubsetOrdering(Purchases)  Bad == {S \in Fin : S \notin T}
<1>1. IsWellFoundedOn(R, Fin)
  BY FS_StrictSubsetOrderingWellFounded DEF Fin
<1>2. \A u, s \in Fin : u \subseteq s /\ u # s => <<u, s>> \in R
  BY DEF Fin, FiniteSubsetsOf, StrictSubsetOrdering
<1>3. Bad \subseteq Fin /\ (Bad = {} => Fin \subseteq T)
  OBVIOUS
<1> SUFFICES ASSUME Bad # {}  PROVE FALSE
  BY <1>3
<1> HIDE DEF R, Bad
<1>4. PICK s \in Bad : \A u \in Bad : ~(<<u, s>> \in R)
  BY <1>1, <1>3, WFMin
<1>5. ASSUME NEW u \in SUBSET s, u # s  PROVE u \in T
  <2>1. u \in Fin /\ s \in Fin
    BY <1>3, FinIs
  <2>2. u \notin Bad
    BY <2>1, <1>2, <1>4, <1>5
  <2> QED  BY <2>1, <2>2 DEF Bad
<1>6. s \in Fin /\ s \notin T
  BY DEF Bad
<1> QED  BY <1>5, <1>6

LEMMA SumsAgree ==
  ASSUME NEW A \in Fin, NEW B \in Fin, NEW f, NEW h, IsSum(f, A), IsSum(h, B)
  PROVE  \A s \in SUBSET (A \cap B) : f[s] = h[s]
<1> DEFINE T == {s \in Fin : s \in SUBSET (A \cap B) => f[s] = h[s]}
<1>1. ASSUME NEW s \in Fin, \A u \in SUBSET s : u # s => u \in T, s \in SUBSET (A \cap B)
      PROVE  f[s] = h[s]
  <2>1. /\ f[s] = IF s = {} THEN 0 ELSE Chosen[Pick(s)] + f[Less(s)]
        /\ h[s] = IF s = {} THEN 0 ELSE Chosen[Pick(s)] + h[Less(s)]
    BY <1>1 DEF IsSum
  <2>2. CASE s = {}
    BY <2>1, <2>2
  <2>3. CASE s # {}
    <3>1. Less(s) \in SUBSET s /\ Less(s) # s
      BY <2>3, FinIs
    <3>2. f[Less(s)] = h[Less(s)]
      BY <1>1, <3>1
    <3> QED  BY <2>1, <2>3, <3>2
  <2> QED  BY <2>2, <2>3
<1>2. \A S \in Fin : (\A u \in SUBSET S : u # S => u \in T) => S \in T
  BY <1>1
<1> HIDE DEF T
<1>3. Fin \subseteq T
  BY <1>2, FinInduction
<1>4. \A s \in SUBSET (A \cap B) : s \in Fin
  BY FinIs
<1> QED  BY <1>3, <1>4 DEF T

LEMMA SumExists == \A S \in Fin : \E f : IsSum(f, S)
<1> DEFINE T == {S \in Fin : \E f : IsSum(f, S)}
<1>1. ASSUME NEW S \in Fin, \A u \in SUBSET S : u # S => u \in T
      PROVE  \E f : IsSum(f, S)
  <2> DEFINE H(u) == CHOOSE f : IsSum(f, u)
  <2>2. \A u \in SUBSET S : u \in Fin /\ (u # S => IsSum(H(u), u))
    BY <1>1, FinIs
  <2> HIDE DEF T
  <2> DEFINE top == IF S = {} THEN 0 ELSE Chosen[Pick(S)] + H(Less(S))[Less(S)]
             f == [s \in SUBSET S |-> IF s = S THEN top ELSE H(s)[s]]
  <2>3. ASSUME NEW s \in SUBSET S
        PROVE  f[s] = IF s = {} THEN 0 ELSE Chosen[Pick(s)] + f[Less(s)]
    <3>0. s \in Fin
      BY <2>2
    <3>1. CASE s = S
      <4>1. CASE S = {}
        BY <3>1, <4>1
      <4>2. CASE S # {}
        <5>1. Less(S) \in SUBSET S /\ Less(S) # S
          BY <4>2, FinIs
        <5>2. f[Less(S)] = H(Less(S))[Less(S)]
          BY <5>1
        <5>3. f[S] = Chosen[Pick(S)] + H(Less(S))[Less(S)]
          BY <4>2
        <5> HIDE DEF f, H
        <5> QED  BY <3>1, <4>2, <5>2, <5>3
      <4> QED  BY <4>1, <4>2
    <3>2. CASE s # S
      <4> DEFINE h == H(s)
      <4>1. f[s] = h[s] /\ IsSum(h, s)
        BY <2>2, <3>2
      <4>2. h[s] = IF s = {} THEN 0 ELSE Chosen[Pick(s)] + h[Less(s)]
        <5> HIDE DEF h
        <5> QED  BY <4>1 DEF IsSum
      <4>3. CASE s = {}
        <5> HIDE DEF h, f
        <5> QED  BY <4>1, <4>2, <4>3
      <4>4. CASE s # {}
        <5>1. Less(s) \in SUBSET s /\ Less(s) # s /\ Less(s) \in SUBSET S /\ Less(s) # S
              /\ Less(s) \in Fin
          <6>1. Pick(s) \in s /\ Less(s) \in Fin /\ Less(s) \subseteq s /\ Less(s) # s
            BY <3>0, <4>4, FinIs
          <6> QED  BY <6>1, <3>2
        <5> DEFINE k == H(Less(s))
        <5>2. f[Less(s)] = k[Less(s)] /\ IsSum(k, Less(s))
          BY <2>2, <5>1
        <5> HIDE DEF h, k
        <5>3. h[Less(s)] = k[Less(s)]
          BY <3>0, <4>1, <5>1, <5>2, SumsAgree
        <5> HIDE DEF f
        <5> QED  BY <4>1, <4>2, <4>4, <5>2, <5>3
      <4> QED  BY <4>3, <4>4
    <3> QED  BY <3>1, <3>2
  <2>4. f = [s \in SUBSET S |-> f[s]]
    OBVIOUS
  <2> HIDE DEF f
  <2>5. f = [s \in SUBSET S |-> IF s = {} THEN 0 ELSE Chosen[Pick(s)] + f[Less(s)]]
    BY <2>3, <2>4
  <2>6. IsSum(f, S)
    BY <2>5 DEF IsSum
  <2> QED  BY <2>6
<1>2. \A S \in Fin : (\A u \in SUBSET S : u # S => u \in T) => S \in T
  BY <1>1
<1> HIDE DEF T
<1>3. Fin \subseteq T
  BY <1>2, FinInduction
<1> QED  BY <1>3 DEF T

\* The sum takes the chosen element off.
LEMMA SumStep ==
  /\ SumOf({}) = 0
  /\ \A S \in Fin : S # {} => SumOf(S) = Chosen[Pick(S)] + SumOf(Less(S))
<1> DEFINE H(u) == CHOOSE f : IsSum(f, u)
<1>1. \A S \in Fin : IsSum(H(S), S)
  BY SumExists
<1>2. SumOf({}) = 0
  <2> DEFINE h == H({})
  <2>1. IsSum(h, {})
    BY <1>1, FinIs
  <2>2. SumOf({}) = h[{}]
    BY DEF SumOf
  <2> HIDE DEF h
  <2> QED  BY <2>1, <2>2 DEF IsSum
<1>3. ASSUME NEW S \in Fin, S # {}
      PROVE  SumOf(S) = Chosen[Pick(S)] + SumOf(Less(S))
  <2> DEFINE h == H(S)  k == H(Less(S))
  <2>1. Less(S) \in Fin /\ Less(S) \subseteq S
    BY <1>3, FinIs
  <2>2. IsSum(h, S) /\ IsSum(k, Less(S))
    BY <1>1, <2>1
  <2>3. SumOf(S) = h[S] /\ SumOf(Less(S)) = k[Less(S)]
    BY DEF SumOf
  <2> HIDE DEF h, k
  <2>4. h[S] = Chosen[Pick(S)] + h[Less(S)]
    BY <1>3, <2>2 DEF IsSum
  <2>5. h[Less(S)] = k[Less(S)]
    BY <2>1, <2>2, SumsAgree
  <2> QED  BY <2>3, <2>4, <2>5
<1> QED  BY <1>2, <1>3

LEMMA SumIsNat ==
  ASSUME MeteredAssumption  PROVE \A S \in Fin : SumOf(S) \in Nat
<1> DEFINE T == {S \in Fin : SumOf(S) \in Nat}
<1>1. ASSUME NEW S \in Fin, \A u \in SUBSET S : u # S => u \in T
      PROVE  SumOf(S) \in Nat
  <2>1. CASE S = {}
    BY <2>1, SumStep
  <2>2. CASE S # {}
    <3>1. Pick(S) \in Purchases /\ Less(S) \in SUBSET S /\ Less(S) # S
      BY <2>2, FinIs
    <3>2. SumOf(Less(S)) \in Nat /\ Chosen[Pick(S)] \in Nat
      BY <1>1, <3>1 DEF MeteredAssumption
    <3> QED  BY <2>2, <3>2, SumStep
  <2> QED  BY <2>1, <2>2
<1>2. \A S \in Fin : (\A u \in SUBSET S : u # S => u \in T) => S \in T
  BY <1>1
<1> HIDE DEF T
<1>3. Fin \subseteq T
  BY <1>2, FinInduction
<1> QED  BY <1>3 DEF T

\* Any element may be taken off.
LEMMA SumWithout ==
  ASSUME MeteredAssumption
  PROVE  \A S \in Fin : \A x \in S : SumOf(S) = Chosen[x] + SumOf(S \ {x})
<1> DEFINE Right(S, x) == SumOf(S) = Chosen[x] + SumOf(S \ {x})
           T == {S \in Fin : \A x \in S : Right(S, x)}
<1>1. ASSUME NEW S \in Fin, \A u \in SUBSET S : u # S => u \in T, NEW x \in S
      PROVE  SumOf(S) = Chosen[x] + SumOf(S \ {x})
  <2>1. PICK p : p = Pick(S)
    OBVIOUS
  <2>2. p \in S /\ SumOf(S) = Chosen[p] + SumOf(S \ {p})
    <3>1. S # {}
      OBVIOUS
    <3> QED  BY <2>1, <3>1, FinIs, SumStep DEF Less
  <2>3. ASSUME x = p  PROVE Right(S, x)
    <3>1. Right(S, p)
      BY <2>2
    <3> HIDE DEF Right
    <3> QED  BY <2>3, <3>1
  <2>4. CASE x # p
    <3> DEFINE a == S \ {p}  b == S \ {x}  c == S \ {x, p}
    <3>1. a \in SUBSET S /\ b \in SUBSET S /\ c \in SUBSET S /\ a # S /\ b # S /\ c # S
      BY <2>2
    <3>2. a \in T /\ b \in T /\ c \in Fin
      BY <1>1, <3>1, FinIs
    <3>3. x \in a /\ a \ {x} = c /\ p \in b /\ b \ {p} = c
      BY <2>2, <2>4
    <3>4. SumOf(S) = Chosen[p] + SumOf(a) /\ S \ {x} = b
      BY <2>2
    <3> HIDE DEF a, b, c
    <3>5. SumOf(a) = Chosen[x] + SumOf(c) /\ SumOf(b) = Chosen[p] + SumOf(c)
      BY <3>2, <3>3
    <3>6. SumOf(c) \in Nat /\ Chosen[x] \in Nat /\ Chosen[p] \in Nat
      <4>1. x \in Purchases /\ p \in Purchases
        BY <2>2, FinIs
      <4> QED  BY <4>1, <3>2, SumIsNat DEF MeteredAssumption
    <3>7. SumOf(S \ {x}) = SumOf(b)
      BY <3>4
    <3>8. PICK cx \in Nat, cp \in Nat, sc \in Nat : cx = Chosen[x] /\ cp = Chosen[p] /\ sc = SumOf(c)
      BY <3>6
    <3> HIDE DEF T, Right
    <3>9. SumOf(S) = cp + (cx + sc) /\ SumOf(b) = cp + sc
      BY <3>4, <3>5, <3>8
    <3>10. SumOf(S) = cx + SumOf(b)
      BY <3>9
    <3> QED  BY <3>7, <3>8, <3>10 DEF Right
  <2> QED  BY <2>3, <2>4
<1>2. \A S \in Fin : (\A u \in SUBSET S : u # S => u \in T) => S \in T
  BY <1>1
<1> HIDE DEF T
<1>3. Fin \subseteq T
  BY <1>2, FinInduction
<1> QED  BY <1>3 DEF T

\* One more purchase adds what its payer chose.
LEMMA SpentGrows ==
  ASSUME MeteredAssumption, NEW S \in SUBSET Purchases, IsFiniteSet(S),
         NEW x \in Purchases, x \notin S
  PROVE  /\ Spent(S) \in Nat
         /\ IsFiniteSet(S \cup {x})
         /\ Spent(S \cup {x}) = Spent(S) + Chosen[x]
<1>1. S \in Fin
  BY DEF Fin, FiniteSubsetsOf
<1>2. IsFiniteSet(S \cup {x})
  BY FS_AddElement
<1>3. S \cup {x} \in Fin /\ (S \cup {x}) \ {x} = S
  BY <1>2 DEF Fin, FiniteSubsetsOf
<1>4. SumOf(S \cup {x}) = Chosen[x] + SumOf(S)
  BY <1>3, SumWithout
<1>5. SumOf(S) \in Nat /\ Chosen[x] \in Nat
  BY <1>1, SumIsNat DEF MeteredAssumption
<1> QED  BY <1>2, <1>4, <1>5, SpentIs

-----------------------------------------------------------------------------
(* The invariant *)

MeteredCells == [channel : Nat, seq : Nat, share : Nat]
CallPlaces == {"none", "flush", "session", "commit", "sent", "recorded", "gave up"}
TicketStates == {"unknown", "queued", "lighting", "lit", "failed"}

MeteredTyped ==
  /\ waitingLine \in Seq(Purchases)
  /\ served \in Purchases \cup {Nobody}
  /\ sold \in [Purchases -> TicketStates]
  /\ calls \in [Purchases -> [at : CallPlaces, cell : MeteredCells]]
  /\ ledger \in [channel : Nat, seq : Nat, share : Nat, satsPaid : Nat]

\* A purchase is queued once, until its addSats begins, and the one that is awaited
\* is not answered yet.
LineIsInOrder ==
  /\ \A i, j \in DOMAIN waitingLine : waitingLine[i] = waitingLine[j] => i = j
  /\ \A i \in DOMAIN waitingLine : sold[waitingLine[i]] = "queued"
  /\ \A p \in Purchases : sold[p] \in {"unknown", "queued"} => calls[p].at = "none"
  /\ served # Nobody => sold[served] = "lighting"

Recorded == {p \in Purchases : calls[p].at = "recorded"}

TallyIsRight ==
  /\ IsFiniteSet(Recorded) /\ ledger.satsPaid = Spent(Recorded)
  /\ \A p \in Purchases : sold[p] = "lit" => calls[p].at = "recorded"

MeteredInv == MeteredTyped /\ LineIsInOrder /\ TallyIsRight

LEMMA MeteredStarts ==
  ASSUME MeteredAssumption, MeteredInit  PROVE MeteredInv
<1>1. MeteredTyped
  <2>1. [at |-> "none", cell |-> [channel |-> 0, seq |-> 0, share |-> 0]]
          \in [at : CallPlaces, cell : MeteredCells]
    BY DEF CallPlaces, MeteredCells
  <2> QED  BY <2>1 DEF MeteredInit, MeteredTyped, TicketStates, Call, NoCommitment
<1>2. LineIsInOrder
  BY DEF MeteredInit, LineIsInOrder, Call
<1>3. TallyIsRight
  <2>1. Recorded = {}
    BY DEF MeteredInit, Recorded, Call
  <2>2. IsFiniteSet({}) /\ Spent({}) = 0
    BY FS_EmptySet, SpentIs, SumStep
  <2> QED  BY <2>1, <2>2 DEF MeteredInit, TallyIsRight
<1> QED  BY <1>1, <1>2, <1>3 DEF MeteredInv

\* A step that records nothing and answers nobody "lit" keeps the tally.
LEMMA TallyStays ==
  ASSUME TallyIsRight, ledger'.satsPaid = ledger.satsPaid,
         \A p \in Purchases : calls'[p].at = "recorded" <=> calls[p].at = "recorded",
         \A p \in Purchases : sold'[p] = "lit" => sold[p] = "lit"
  PROVE  TallyIsRight'
<1>1. Recorded' = Recorded
  BY DEF Recorded
<1>2. Spent(Recorded)' = Spent(Recorded)
  BY <1>1 DEF Spent, MapThenSumSet, MapThenFoldSet
<1> QED  BY <1>1, <1>2 DEF TallyIsRight

\* The queue: each purchase in it once, and all of them queued.
LEMMA LineFacts ==
  ASSUME MeteredInv, NEW n, DOMAIN waitingLine = 1..n
  PROVE  /\ \A i, j \in 1..n : waitingLine[i] = waitingLine[j] => i = j
         /\ \A i \in 1..n : sold[waitingLine[i]] = "queued" /\ waitingLine[i] \in Purchases
<1>0. waitingLine \in Seq(Purchases)
  BY DEF MeteredInv, MeteredTyped
<1>1. \A i \in DOMAIN waitingLine : waitingLine[i] \in Purchases
  <2> HIDE DEF MeteredInv
  <2> QED  BY <1>0, ElementOfSeq, LenProperties
<1> QED  BY <1>1 DEF MeteredInv, LineIsInOrder

LEMMA BuyKeeps ==
  ASSUME MeteredAssumption, MeteredInv, NEW p \in Purchases, Buy(p)
  PROVE  MeteredInv'
<1>t. waitingLine \in Seq(Purchases) /\ sold \in [Purchases -> TicketStates]
  BY DEF MeteredInv, MeteredTyped
<1>1. /\ sold[p] = "unknown" /\ sold' = [sold EXCEPT ![p] = "queued"]
      /\ waitingLine' = Append(waitingLine, p)
      /\ served' = served /\ calls' = calls /\ ledger' = ledger
  BY DEF Buy
<1>2. sold' \in [Purchases -> TicketStates] /\ sold'[p] = "queued"
      /\ \A q \in Purchases : q # p => sold'[q] = sold[q]
  BY <1>t, <1>1 DEF TicketStates
<1> DEFINE n == Len(waitingLine)
<1>3. /\ waitingLine' \in Seq(Purchases) /\ n \in Nat /\ DOMAIN waitingLine = 1..n
      /\ DOMAIN waitingLine' = 1..(n + 1) /\ waitingLine'[n + 1] = p
      /\ \A i \in 1..n : waitingLine'[i] = waitingLine[i]
  BY <1>t, <1>1
<1> HIDE DEF n
<1>o. /\ \A i, j \in 1..n : waitingLine[i] = waitingLine[j] => i = j
      /\ \A i \in 1..n : sold[waitingLine[i]] = "queued" /\ waitingLine[i] \in Purchases
  BY <1>3, LineFacts
<1>l. \A i \in 1..n : waitingLine[i] # p /\ waitingLine[i] \in Purchases
  BY <1>1, <1>o
<1>4. MeteredTyped'
  BY <1>1, <1>2, <1>3 DEF MeteredInv, MeteredTyped
<1>5. LineIsInOrder'
  <2>1. \A i, j \in 1..(n + 1) : waitingLine'[i] = waitingLine'[j] => i = j
    <3> SUFFICES ASSUME NEW i \in 1..(n + 1), NEW j \in 1..(n + 1), waitingLine'[i] = waitingLine'[j]
                 PROVE  i = j
      OBVIOUS
    <3>1. CASE i \in 1..n /\ j \in 1..n
      BY <3>1, <1>3, <1>o
    <3>2. CASE i = n + 1
      BY <3>2, <1>3, <1>l
    <3>3. CASE j = n + 1
      BY <3>3, <1>3, <1>l
    <3> QED  BY <3>1, <3>2, <3>3, <1>3
  <2>2. \A i \in 1..(n + 1) : sold'[waitingLine'[i]] = "queued"
    <3> SUFFICES ASSUME NEW i \in 1..(n + 1)  PROVE sold'[waitingLine'[i]] = "queued"
      OBVIOUS
    <3>1. CASE i \in 1..n
      <4>1. waitingLine'[i] = waitingLine[i] /\ sold[waitingLine[i]] = "queued"
            /\ waitingLine[i] # p /\ waitingLine[i] \in Purchases
        BY <3>1, <1>3, <1>o, <1>l
      <4> QED  BY <4>1, <1>2
    <3>2. CASE i = n + 1
      BY <3>2, <1>2, <1>3
    <3> QED  BY <3>1, <3>2, <1>3
  <2>3. \A q \in Purchases : sold'[q] \in {"unknown", "queued"} => calls'[q].at = "none"
    BY <1>1, <1>2 DEF MeteredInv, LineIsInOrder
  <2>4. served' # Nobody => sold'[served'] = "lighting"
    BY <1>1, <1>2 DEF MeteredInv, LineIsInOrder, MeteredTyped
  <2> QED  BY <1>3, <2>1, <2>2, <2>3, <2>4 DEF LineIsInOrder
<1>6. TallyIsRight'
  BY <1>1, <1>2, TallyStays DEF MeteredInv
<1> QED  BY <1>4, <1>5, <1>6 DEF MeteredInv

LEMMA ServeKeeps ==
  ASSUME MeteredAssumption, MeteredInv, Serve
  PROVE  MeteredInv'
<1>t. /\ waitingLine \in Seq(Purchases) /\ sold \in [Purchases -> TicketStates]
      /\ calls \in [Purchases -> [at : CallPlaces, cell : MeteredCells]]
  BY DEF MeteredInv, MeteredTyped
<1> DEFINE p == Head(waitingLine)  n == Len(waitingLine)  c == Call("flush")
<1>1. /\ waitingLine # <<>> /\ served' = p /\ waitingLine' = Tail(waitingLine)
      /\ sold' = [sold EXCEPT ![p] = "lighting"] /\ calls' = [calls EXCEPT ![p] = c]
      /\ ledger' = ledger
  BY DEF Serve
<1>2. /\ n \in Nat \ {0} /\ DOMAIN waitingLine = 1..n /\ p = waitingLine[1] /\ p \in Purchases
      /\ waitingLine' \in Seq(Purchases) /\ DOMAIN waitingLine' = 1..(n - 1)
      /\ \A i \in 1..(n - 1) : waitingLine'[i] = waitingLine[i + 1] /\ i + 1 \in 1..n
  BY <1>t, <1>1
<1>3. c \in [at : CallPlaces, cell : MeteredCells] /\ c.at = "flush"
  BY DEF Call, NoCommitment, CallPlaces, MeteredCells
<1> HIDE DEF p, n, c
<1>4. /\ sold' \in [Purchases -> TicketStates] /\ sold'[p] = "lighting"
      /\ calls' \in [Purchases -> [at : CallPlaces, cell : MeteredCells]] /\ calls'[p].at = "flush"
      /\ \A q \in Purchases : q # p => sold'[q] = sold[q] /\ calls'[q] = calls[q]
  BY <1>t, <1>1, <1>2, <1>3 DEF TicketStates
<1>o. /\ \A i, j \in 1..n : waitingLine[i] = waitingLine[j] => i = j
      /\ \A i \in 1..n : sold[waitingLine[i]] = "queued" /\ waitingLine[i] \in Purchases
  BY <1>2, LineFacts
<1>5. sold[p] = "queued" /\ calls[p].at = "none"
  <2>1. sold[p] = "queued"
    BY <1>2, <1>o
  <2> QED  BY <2>1, <1>2 DEF MeteredInv, LineIsInOrder
<1>6. MeteredTyped'
  BY <1>1, <1>2, <1>4 DEF MeteredInv, MeteredTyped
<1>7. LineIsInOrder'
  <2>0. \A i \in 1..(n - 1) : waitingLine[i + 1] # p /\ waitingLine[i + 1] \in Purchases
    <3> SUFFICES ASSUME NEW i \in 1..(n - 1)
                 PROVE  waitingLine[i + 1] # waitingLine[1] /\ waitingLine[i + 1] \in Purchases
      BY <1>2
    <3>1. i + 1 \in 1..n /\ 1 \in 1..n /\ i + 1 # 1
      BY <1>2
    <3> QED  BY <3>1, <1>o
  <2>1. \A i, j \in 1..(n - 1) : waitingLine'[i] = waitingLine'[j] => i = j
    <3> SUFFICES ASSUME NEW i \in 1..(n - 1), NEW j \in 1..(n - 1), waitingLine'[i] = waitingLine'[j]
                 PROVE  i = j
      OBVIOUS
    <3>1. waitingLine[i + 1] = waitingLine[j + 1] /\ i + 1 \in 1..n /\ j + 1 \in 1..n
      BY <1>2
    <3>2. i + 1 = j + 1
      BY <3>1, <1>o
    <3> QED  BY <3>2
  <2>2. \A i \in 1..(n - 1) : sold'[waitingLine'[i]] = "queued"
    <3> SUFFICES ASSUME NEW i \in 1..(n - 1)  PROVE sold'[waitingLine'[i]] = "queued"
      OBVIOUS
    <3>1. waitingLine'[i] = waitingLine[i + 1] /\ sold[waitingLine[i + 1]] = "queued"
          /\ waitingLine[i + 1] # p /\ waitingLine[i + 1] \in Purchases
      BY <1>2, <1>o, <2>0
    <3> QED  BY <3>1, <1>4
  <2>3. \A q \in Purchases : sold'[q] \in {"unknown", "queued"} => calls'[q].at = "none"
    BY <1>4 DEF MeteredInv, LineIsInOrder
  <2>4. served' # Nobody => sold'[served'] = "lighting"
    BY <1>1, <1>4
  <2> QED  BY <1>2, <2>1, <2>2, <2>3, <2>4 DEF LineIsInOrder
<1>8. TallyIsRight'
  <2>1. \A q \in Purchases : calls'[q].at = "recorded" <=> calls[q].at = "recorded"
    BY <1>4, <1>5
  <2>2. \A q \in Purchases : sold'[q] = "lit" => sold[q] = "lit"
    BY <1>4
  <2> QED  BY <1>1, <2>1, <2>2, TallyStays DEF MeteredInv
<1> QED  BY <1>6, <1>7, <1>8 DEF MeteredInv

\* What a step of a call leaves of the invariant, if it was past the queue and the
\* ticket is answered only to who is awaited.
LEMMA CallStepKeeps ==
  ASSUME MeteredAssumption, MeteredInv, NEW p \in Purchases, calls[p].at # "none",
         NEW c \in [at : CallPlaces, cell : MeteredCells], calls' = [calls EXCEPT ![p] = c],
         waitingLine' = waitingLine,
         ledger' \in [channel : Nat, seq : Nat, share : Nat, satsPaid : Nat],
         NEW state \in {"lit", "failed"},
         \/ served' = served /\ sold' = sold
         \/ served = p /\ served' = Nobody /\ sold' = [sold EXCEPT ![p] = state]
  PROVE  MeteredTyped' /\ LineIsInOrder'
<1>t. /\ waitingLine \in Seq(Purchases) /\ sold \in [Purchases -> TicketStates]
      /\ calls \in [Purchases -> [at : CallPlaces, cell : MeteredCells]]
  BY DEF MeteredInv, MeteredTyped
<1>1. /\ calls' \in [Purchases -> [at : CallPlaces, cell : MeteredCells]] /\ calls'[p] = c
      /\ \A q \in Purchases : q # p => calls'[q] = calls[q]
  BY <1>t
<1>2. /\ sold' \in [Purchases -> TicketStates]
      /\ \A q \in Purchases : q # p => sold'[q] = sold[q]
      /\ sold'[p] \notin {"unknown", "queued"}
  <2>1. sold[p] \notin {"unknown", "queued"}
    BY DEF MeteredInv, LineIsInOrder
  <2> QED  BY <1>t, <2>1 DEF TicketStates
<1>3. \A i \in DOMAIN waitingLine : waitingLine[i] # p /\ waitingLine[i] \in Purchases
  BY <1>t DEF MeteredInv, LineIsInOrder
<1>4. MeteredTyped'
  BY <1>1, <1>2 DEF MeteredInv, MeteredTyped
<1>5. LineIsInOrder'
  <2>1. \A i \in DOMAIN waitingLine' : sold'[waitingLine'[i]] = "queued"
    BY <1>2, <1>3 DEF MeteredInv, LineIsInOrder
  <2>2. \A q \in Purchases : sold'[q] \in {"unknown", "queued"} => calls'[q].at = "none"
    BY <1>1, <1>2 DEF MeteredInv, LineIsInOrder
  <2>3. served' # Nobody => sold'[served'] = "lighting"
    BY <1>2 DEF MeteredInv, LineIsInOrder, MeteredTyped
  <2>4. \A i, j \in DOMAIN waitingLine' : waitingLine'[i] = waitingLine'[j] => i = j
    BY DEF MeteredInv, LineIsInOrder
  <2> QED  BY <2>1, <2>2, <2>3, <2>4 DEF LineIsInOrder
<1> QED  BY <1>4, <1>5

\* The same of a step that records nothing and lights nothing.
LEMMA QuietStepKeeps ==
  ASSUME MeteredAssumption, MeteredInv, NEW p \in Purchases, calls[p].at \notin {"none", "recorded"},
         NEW c \in [at : CallPlaces, cell : MeteredCells], c.at # "recorded",
         calls' = [calls EXCEPT ![p] = c], waitingLine' = waitingLine,
         ledger' \in [channel : Nat, seq : Nat, share : Nat, satsPaid : Nat],
         ledger'.satsPaid = ledger.satsPaid,
         \/ served' = served /\ sold' = sold
         \/ served = p /\ served' = Nobody /\ sold' = [sold EXCEPT ![p] = "failed"]
  PROVE  MeteredInv'
<1>1. MeteredTyped' /\ LineIsInOrder'
  BY CallStepKeeps
<1>2. calls \in [Purchases -> [at : CallPlaces, cell : MeteredCells]] /\ sold \in [Purchases -> TicketStates]
  BY DEF MeteredInv, MeteredTyped
<1>3. \A q \in Purchases : calls'[q].at = "recorded" <=> calls[q].at = "recorded"
  BY <1>2
<1>4. \A q \in Purchases : sold'[q] = "lit" => sold[q] = "lit"
  BY <1>2
<1>5. TallyIsRight'
  BY <1>3, <1>4, TallyStays DEF MeteredInv
<1> QED  BY <1>1, <1>5 DEF MeteredInv

LEMMA RecordKeeps ==
  ASSUME MeteredAssumption, MeteredInv, NEW p \in Purchases, Record(p)
  PROVE  MeteredInv'
<1>t. /\ calls \in [Purchases -> [at : CallPlaces, cell : MeteredCells]]
      /\ ledger \in [channel : Nat, seq : Nat, share : Nat, satsPaid : Nat]
      /\ sold \in [Purchases -> TicketStates]
      /\ Chosen[p] \in Nat
  BY DEF MeteredInv, MeteredTyped, MeteredAssumption
<1>1. PICK c : c = [calls[p] EXCEPT !.at = "recorded"]
  OBVIOUS
<1>2. /\ calls[p].at = "sent" /\ waitingLine' = waitingLine
      /\ calls' = [calls EXCEPT ![p] = c]
      /\ ledger' = [ledger EXCEPT !.seq = calls[p].cell.seq, !.share = calls[p].cell.share,
                                  !.satsPaid = @ + Chosen[p]]
  BY <1>1 DEF Record
<1>3. calls[p] \in [at : CallPlaces, cell : MeteredCells]
  BY <1>t
<1>4. c \in [at : CallPlaces, cell : MeteredCells] /\ c.at = "recorded"
  BY <1>1, <1>3 DEF CallPlaces
<1>5. ledger' \in [channel : Nat, seq : Nat, share : Nat, satsPaid : Nat]
      /\ ledger'.satsPaid = ledger.satsPaid + Chosen[p]
  <2>1. calls[p].cell \in MeteredCells
    BY <1>3
  <2>2. calls[p].cell.seq \in Nat /\ calls[p].cell.share \in Nat
    BY <2>1 DEF MeteredCells
  <2>3. ASSUME NEW a \in Nat, NEW b \in Nat, NEW s \in Nat,
               NEW l \in [channel : Nat, seq : Nat, share : Nat, satsPaid : Nat]
        PROVE  /\ [l EXCEPT !.seq = a, !.share = b, !.satsPaid = s]
                     \in [channel : Nat, seq : Nat, share : Nat, satsPaid : Nat]
               /\ [l EXCEPT !.seq = a, !.share = b, !.satsPaid = s].satsPaid = s
    OBVIOUS
  <2>4. PICK s \in Nat : s = ledger.satsPaid + Chosen[p]
    BY <1>t
  <2>5. ledger' = [ledger EXCEPT !.seq = calls[p].cell.seq, !.share = calls[p].cell.share,
                                !.satsPaid = s]
    BY <1>2, <2>4
  <2> QED  BY <2>2, <2>3, <2>4, <2>5, <1>t
<1>6. \/ served' = served /\ sold' = sold
      \/ served = p /\ served' = Nobody /\ sold' = [sold EXCEPT ![p] = "lit"]
  BY DEF Record, Answers
<1>7. MeteredTyped' /\ LineIsInOrder'
  BY <1>2, <1>4, <1>5, <1>6, CallStepKeeps
<1>8. /\ calls'[p].at = "recorded" /\ \A q \in Purchases : q # p => calls'[q] = calls[q]
  BY <1>t, <1>2, <1>4
<1>9. Recorded' = Recorded \cup {p} /\ p \notin Recorded
  BY <1>2, <1>8 DEF Recorded
<1>10. IsFiniteSet(Recorded) /\ ledger.satsPaid = Spent(Recorded) /\ Recorded \subseteq Purchases
  BY DEF MeteredInv, TallyIsRight, Recorded
<1>11. IsFiniteSet(Recorded \cup {p}) /\ Spent(Recorded \cup {p}) = Spent(Recorded) + Chosen[p]
  BY <1>9, <1>10, SpentGrows
<1>12. ledger'.satsPaid = Spent(Recorded \cup {p})
  BY <1>5, <1>10, <1>11
<1>13. Spent(Recorded)' = Spent(Recorded \cup {p})
  BY <1>9 DEF Spent, MapThenSumSet, MapThenFoldSet
<1>14. \A q \in Purchases : sold'[q] = "lit" => calls'[q].at = "recorded"
  <2> SUFFICES ASSUME NEW q \in Purchases, sold'[q] = "lit"  PROVE calls'[q].at = "recorded"
    OBVIOUS
  <2>1. CASE q = p
    BY <2>1, <1>8
  <2>2. CASE q # p
    <3>1. sold'[q] = sold[q] /\ calls'[q] = calls[q]
      BY <2>2, <1>6, <1>8, <1>t
    <3> QED  BY <3>1 DEF MeteredInv, TallyIsRight
  <2> QED  BY <2>1, <2>2
<1>15. TallyIsRight'
  BY <1>9, <1>11, <1>12, <1>13, <1>14 DEF TallyIsRight
<1> QED  BY <1>7, <1>15 DEF MeteredInv

LEMMA TimesOutKeeps ==
  ASSUME MeteredAssumption, MeteredInv, TimesOut
  PROVE  MeteredInv'
<1>t. sold \in [Purchases -> TicketStates] /\ served \in Purchases
  BY DEF MeteredInv, MeteredTyped, TimesOut
<1>1. /\ served' = Nobody /\ sold' = [sold EXCEPT ![served] = "failed"]
      /\ waitingLine' = waitingLine /\ calls' = calls /\ ledger' = ledger
      /\ sold[served] = "lighting"
  BY DEF TimesOut, MeteredInv, LineIsInOrder
<1>2. /\ sold' \in [Purchases -> TicketStates] /\ sold'[served] = "failed"
      /\ \A q \in Purchases : q # served => sold'[q] = sold[q]
  BY <1>t, <1>1 DEF TicketStates
<1>3. MeteredTyped'
  BY <1>1, <1>2 DEF MeteredInv, MeteredTyped
<1>4. LineIsInOrder'
  <2>1. \A i \in DOMAIN waitingLine : sold'[waitingLine[i]] = "queued"
    <3> SUFFICES ASSUME NEW i \in DOMAIN waitingLine  PROVE sold'[waitingLine[i]] = "queued"
      OBVIOUS
    <3>1. sold[waitingLine[i]] = "queued" /\ waitingLine[i] \in Purchases
      BY DEF MeteredInv, LineIsInOrder, MeteredTyped
    <3> QED  BY <3>1, <1>1, <1>2
  <2>2. \A q \in Purchases : sold'[q] \in {"unknown", "queued"} => calls[q].at = "none"
    BY <1>1, <1>2 DEF MeteredInv, LineIsInOrder
  <2> QED  BY <1>1, <2>1, <2>2 DEF MeteredInv, LineIsInOrder
<1>5. TallyIsRight'
  <2>1. \A q \in Purchases : sold'[q] = "lit" => sold[q] = "lit"
    BY <1>2
  <2> QED  BY <1>1, <2>1, TallyStays DEF MeteredInv
<1> QED  BY <1>3, <1>4, <1>5 DEF MeteredInv

\* The steps of a call before its commitment is recorded.
LEMMA QuietKeeps ==
  ASSUME MeteredAssumption, MeteredInv, NEW p \in Purchases,
         \/ Flushed(p) \/ Renew(p) \/ GivesUp(p)
         \/ \E drained \in 0..MaxDrain : Commit(p, drained)
  PROVE  MeteredInv'
<1>t. /\ calls \in [Purchases -> [at : CallPlaces, cell : MeteredCells]]
      /\ ledger \in [channel : Nat, seq : Nat, share : Nat, satsPaid : Nat]
      /\ Chosen[p] \in Nat /\ MaxDrain \in Nat
  BY DEF MeteredInv, MeteredTyped, MeteredAssumption
<1>0. calls[p] \in [at : CallPlaces, cell : MeteredCells]
  BY <1>t
<1>c. \A at \in CallPlaces : [calls[p] EXCEPT !.at = at] \in [at : CallPlaces, cell : MeteredCells]
                              /\ [calls[p] EXCEPT !.at = at].at = at
  BY <1>0
<1>p. {"session", "commit", "gave up", "sent"} \subseteq CallPlaces
  BY DEF CallPlaces
<1>1. CASE Flushed(p)
  <2>1. PICK at \in {"session", "commit"} : calls' = [calls EXCEPT ![p] = [calls[p] EXCEPT !.at = at]]
    BY <1>1 DEF Flushed
  <2>2. PICK c : c = [calls[p] EXCEPT !.at = at]
    OBVIOUS
  <2>3. c \in [at : CallPlaces, cell : MeteredCells] /\ c.at # "recorded"
    BY <2>2, <1>c, <1>p
  <2>4. calls[p].at = "flush" /\ waitingLine' = waitingLine /\ served' = served
        /\ sold' = sold /\ ledger' = ledger
    BY <1>1 DEF Flushed
  <2>5. calls' = [calls EXCEPT ![p] = c]
    BY <2>1, <2>2
  <2> QED  BY <1>t, <2>3, <2>4, <2>5, QuietStepKeeps
<1>2. CASE Renew(p)
  <2>2. PICK c : c = [calls[p] EXCEPT !.at = "commit"]
    OBVIOUS
  <2>3. c \in [at : CallPlaces, cell : MeteredCells] /\ c.at # "recorded"
    BY <2>2, <1>c, <1>p
  <2>4. calls[p].at = "session" /\ waitingLine' = waitingLine /\ served' = served
        /\ sold' = sold
        /\ ledger' = [channel |-> ledger.channel + 1, seq |-> 0, share |-> 0,
                      satsPaid |-> ledger.satsPaid]
    BY <1>2 DEF Renew
  <2>5. calls' = [calls EXCEPT ![p] = c]
    BY <1>2, <2>2 DEF Renew
  <2>6. ledger' \in [channel : Nat, seq : Nat, share : Nat, satsPaid : Nat]
        /\ ledger'.satsPaid = ledger.satsPaid
    BY <2>4, <1>t
  <2> QED  BY <2>3, <2>4, <2>5, <2>6, QuietStepKeeps
<1>3. CASE GivesUp(p)
  <2>2. PICK c : c = [calls[p] EXCEPT !.at = "gave up"]
    OBVIOUS
  <2>3. c \in [at : CallPlaces, cell : MeteredCells] /\ c.at # "recorded"
    BY <2>2, <1>c, <1>p
  <2>4. calls[p].at \notin {"none", "recorded"} /\ waitingLine' = waitingLine /\ ledger' = ledger
    BY <1>3 DEF GivesUp
  <2>5. calls' = [calls EXCEPT ![p] = c]
    BY <1>3, <2>2 DEF GivesUp
  <2>6. \/ served' = served /\ sold' = sold
        \/ served = p /\ served' = Nobody /\ sold' = [sold EXCEPT ![p] = "failed"]
    BY <1>3 DEF GivesUp, Answers
  <2> QED  BY <1>t, <2>3, <2>4, <2>5, <2>6, QuietStepKeeps
<1>4. ASSUME NEW drained \in 0..MaxDrain, Commit(p, drained)  PROVE MeteredInv'
  <2>1. PICK cell : cell = [channel |-> ledger.channel, seq |-> ledger.seq + 1,
                            share |-> ledger.share + drained + Chosen[p]]
    OBVIOUS
  <2>2. PICK c : c = [at |-> "sent", cell |-> cell]
    OBVIOUS
  <2>3. c \in [at : CallPlaces, cell : MeteredCells] /\ c.at # "recorded"
    <3>1. cell \in MeteredCells
      BY <2>1, <1>t DEF MeteredCells
    <3> QED  BY <2>2, <3>1, <1>p
  <2>4. calls[p].at = "commit" /\ waitingLine' = waitingLine /\ served' = served
        /\ sold' = sold /\ ledger' = ledger
    BY <1>4 DEF Commit
  <2>5. calls' = [calls EXCEPT ![p] = c]
    BY <1>4, <2>1, <2>2 DEF Commit
  <2> QED  BY <1>t, <2>3, <2>4, <2>5, QuietStepKeeps
<1> QED  BY <1>1, <1>2, <1>3, <1>4

\* Whatever the payers choose, and however the calls given up run on beside the
\* next, the tally is the sum over the purchases recorded, each counted once.
THEOREM MeteredTallyIsExact ==
  ASSUME MeteredAssumption  PROVE MeteredSpec => []TallyIsExact
<1>1. MeteredInit => MeteredInv
  BY MeteredStarts
<1>2. MeteredInv /\ [MeteredNext]_meteredVars => MeteredInv'
  <2> SUFFICES ASSUME MeteredInv, [MeteredNext]_meteredVars  PROVE MeteredInv'
    OBVIOUS
  <2>1. ASSUME NEW p \in Purchases, Buy(p)  PROVE MeteredInv'
    BY <2>1, BuyKeeps
  <2>2. CASE Serve
    BY <2>2, ServeKeeps
  <2>3. ASSUME NEW p \in Purchases, Record(p)  PROVE MeteredInv'
    BY <2>3, RecordKeeps
  <2>4. CASE TimesOut
    BY <2>4, TimesOutKeeps
  <2>5. ASSUME NEW p \in Purchases,
               \/ Flushed(p) \/ Renew(p) \/ GivesUp(p)
               \/ \E drained \in 0..MaxDrain : Commit(p, drained)
        PROVE  MeteredInv'
    BY <2>5, QuietKeeps
  <2>6. CASE UNCHANGED meteredVars
    <3>1. waitingLine' = waitingLine /\ served' = served /\ sold' = sold /\ calls' = calls
          /\ ledger' = ledger
      BY <2>6 DEF meteredVars
    <3>2. MeteredTyped' /\ LineIsInOrder'
      BY <3>1 DEF MeteredInv, MeteredTyped, LineIsInOrder
    <3>3. TallyIsRight'
      BY <3>1, TallyStays DEF MeteredInv
    <3> QED  BY <3>2, <3>3 DEF MeteredInv
  <2> QED  BY <2>1, <2>2, <2>3, <2>4, <2>5, <2>6 DEF MeteredNext
<1>3. MeteredInv => TallyIsExact
  BY DEF MeteredInv, TallyIsRight, TallyIsExact, Recorded
<1> QED  BY <1>1, <1>2, <1>3, PTL DEF MeteredSpec

(***************************************************************************)
(* BoardViews                                                               *)
(***************************************************************************)

(* What folding a sequence of lines computes *)

\* The channel alone of what the observer has.
ReadChan(chan, line) ==
  CASE line.say = "open" -> [state |-> "OPEN", seq |-> 0, share |-> 0]
    [] line.say = "expired" -> ApplyExpired(chan)
    [] line.say = "closed" -> NewDeviceState.chan
    [] OTHER -> chan

\* A line read by the observer at a time.
ReadAt(time, d, line) ==
  IF line.say = "pose"
  THEN [d EXCEPT !.arrivals = Push(@, [seq |-> line.seq, at |-> time, life |-> line.life])]
  ELSE IF IsEvent(line) THEN [d EXCEPT !.chan = ReadChan(@, line)] ELSE d

\* Who reads: mesh-control.ts, the observer at a time, or what keeps the channel alone.
Control == <<"control", 0>>
Observer(time) == <<"observer", time>>
Channel == <<"channel", 0>>

StepOf(reader, d, line) ==
  CASE reader[1] = "control" -> TrackDevice(d, line)
    [] reader[1] = "observer" -> ReadAt(reader[2], d, line)
    [] OTHER -> ReadChan(d, line)

\* The lines the observer takes for an event: a commitment is none.
LEMMA EventsAre ==
  ASSUME NEW line
  PROVE  IsEvent(line) <=> line.say \in {"open", "expired", "closed", "pose"}
<1>1. DOMAIN Wanted = {"open", "commit", "expired", "closed", "pose"}
  BY DEF Wanted
<1>2. IsPrefix(Wanted["open"], Printed["open"])
  BY DEF IsPrefix, Wanted, Printed
<1>3. IsPrefix(Wanted["expired"], Printed["expired"])
  BY DEF IsPrefix, Wanted, Printed
<1>4. IsPrefix(Wanted["closed"], Printed["closed"])
  BY DEF IsPrefix, Wanted, Printed
<1>5. IsPrefix(Wanted["pose"], Printed["pose"])
  BY DEF IsPrefix, Wanted, Printed
<1>6. ~IsPrefix(Wanted["commit"], Printed["commit"])
  BY DEF IsPrefix, Wanted, Printed
<1> QED  BY <1>1, <1>2, <1>3, <1>4, <1>5, <1>6 DEF IsEvent

LEMMA StepIsOf ==
  ASSUME NEW d, NEW line
  PROVE  /\ StepOf(Control, d, line) = TrackDevice(d, line)
         /\ StepOf(Observer(clock), d, line) = ReadLine(d, line)
         /\ StepOf(Channel, d, line) = ReadChan(d, line)
<1>1. ReadAt(clock, d, line) = ReadLine(d, line)
  BY EventsAre DEF ReadAt, ReadLine, ApplyEvent, ReadChan
<1>2. Control[1] = "control" /\ Channel[1] = "channel"
  BY DEF Control, Channel
<1>3. Observer(clock)[1] = "observer" /\ Observer(clock)[2] = clock
  BY DEF Observer
<1> QED  BY <1>1, <1>2, <1>3 DEF StepOf

\* What the fold computes of each subset of the first k positions.
FoldsUpTo(it, reader, base, s, k) ==
  it = [t \in SUBSET (1..k) |->
          IF t = {} THEN base ELSE StepOf(reader, it[t \ {Max(t)}], s[Max(t)])]

\* The lines s read one by one, from base.
Follow(reader, base, s) ==
  (CHOOSE it : FoldsUpTo(it, reader, base, s, Len(s)))[1..Len(s)]

\* A view after each line.
Views(f, reader, base, s) ==
  /\ f[0] = base
  /\ \A k \in 1..Len(s) : f[k] = StepOf(reader, f[k - 1], s[k])

LEMMA MaxOfTop ==
  ASSUME NEW k \in Nat, NEW t \in SUBSET (1..(k + 1)), k + 1 \in t
  PROVE  Max(t) = k + 1 /\ t \ {k + 1} \in SUBSET (1..k)
<1>1. \A x \in t : (\A y \in t : x >= y) <=> x = k + 1
  OBVIOUS
<1>2. Max(t) = k + 1
  BY <1>1 DEF Max
<1>3. t \ {k + 1} \in SUBSET (1..k)
  OBVIOUS
<1> QED  BY <1>2, <1>3

LEMMA FoldExists ==
  ASSUME NEW reader, NEW base, NEW s
  PROVE  \A k \in Nat : \E it : FoldsUpTo(it, reader, base, s, k)
<1> DEFINE T == {k \in Nat : \E it : FoldsUpTo(it, reader, base, s, k)}
<1>1. 0 \in T
  <2> DEFINE it == [t \in SUBSET (1..0) |-> base]
  <2>1. \A t \in SUBSET (1..0) : t = {}
    OBVIOUS
  <2>2. FoldsUpTo(it, reader, base, s, 0)
    BY <2>1 DEF FoldsUpTo
  <2> QED  BY <2>2
<1>2. ASSUME NEW k \in Nat, k \in T  PROVE k + 1 \in T
  <2>1. PICK it : FoldsUpTo(it, reader, base, s, k)
    BY <1>2
  <2> DEFINE at(t) == IF k + 1 \in t THEN StepOf(reader, it[t \ {k + 1}], s[k + 1]) ELSE it[t]
             up == [t \in SUBSET (1..(k + 1)) |-> at(t)]
  <2>2. ASSUME NEW t \in SUBSET (1..(k + 1)), t # {}
        PROVE  at(t) = StepOf(reader, up[t \ {Max(t)}], s[Max(t)])
    <3>1. CASE k + 1 \in t
      <4>1. Max(t) = k + 1 /\ t \ {k + 1} \in SUBSET (1..k)
        BY <3>1, MaxOfTop
      <4>2. up[t \ {k + 1}] = it[t \ {k + 1}]
        BY <4>1
      <4> QED  BY <3>1, <4>1, <4>2
    <3>2. CASE k + 1 \notin t
      <4>1. t \in SUBSET (1..k)
        BY <3>2
      <4>2. it[t] = StepOf(reader, it[t \ {Max(t)}], s[Max(t)])
        BY <2>1, <2>2, <4>1 DEF FoldsUpTo
      <4>3. t \ {Max(t)} \in SUBSET (1..(k + 1)) /\ k + 1 \notin t \ {Max(t)}
        BY <3>2
      <4>4. up[t \ {Max(t)}] = it[t \ {Max(t)}]
        BY <4>3
      <4> QED  BY <3>2, <4>2, <4>4
    <3> QED  BY <3>1, <3>2
  <2>3. at({}) = base
    <3>1. {} \in SUBSET (1..k)
      OBVIOUS
    <3> QED  BY <2>1, <3>1 DEF FoldsUpTo
  <2>4. FoldsUpTo(up, reader, base, s, k + 1)
    <3>1. \A t \in SUBSET (1..(k + 1)) :
            at(t) = IF t = {} THEN base ELSE StepOf(reader, up[t \ {Max(t)}], s[Max(t)])
      <4> HIDE DEF at, up
      <4> QED  BY <2>2, <2>3
    <3>2. up = [t \in SUBSET (1..(k + 1)) |->
                  IF t = {} THEN base ELSE StepOf(reader, up[t \ {Max(t)}], s[Max(t)])]
      <4>1. up = [t \in SUBSET (1..(k + 1)) |-> at(t)]
        OBVIOUS
      <4> HIDE DEF at, up
      <4> QED  BY <3>1, <4>1
    <3> HIDE DEF up
    <3> QED  BY <3>2 DEF FoldsUpTo
  <2> HIDE DEF up
  <2> QED  BY <2>4
<1> HIDE DEF T
<1>3. Nat \subseteq T
  BY <1>1, <1>2, SetInduction
<1> QED  BY <1>3 DEF T

LEMMA FoldHasViews ==
  ASSUME NEW reader, NEW base, NEW S, NEW s \in Seq(S), NEW it,
         FoldsUpTo(it, reader, base, s, Len(s))
  PROVE  \E f : Views(f, reader, base, s) /\ it[1..Len(s)] = f[Len(s)]
<1> DEFINE n == Len(s)
           f == [k \in 0..n |-> it[1..k]]
<1>0. n \in Nat
  OBVIOUS
<1>1. FoldsUpTo(it, reader, base, s, n)
  OBVIOUS
<1> HIDE DEF n
<1>3. f[0] = base
  <2>1. 1..0 = {} /\ {} \in SUBSET (1..n)
    OBVIOUS
  <2>2. it[{}] = base
    BY <1>1, <2>1 DEF FoldsUpTo
  <2> QED  BY <1>0, <2>1, <2>2
<1>4. ASSUME NEW k \in 1..n  PROVE f[k] = StepOf(reader, f[k - 1], s[k])
  <2>1. PICK j \in Nat : k = j + 1
    <3>1. k - 1 \in Nat /\ k = (k - 1) + 1
      BY <1>0
    <3> QED  BY <3>1
  <2>2. 1..(j + 1) \in SUBSET (1..(j + 1)) /\ j + 1 \in 1..(j + 1)
    OBVIOUS
  <2>3. Max(1..k) = k
    BY <2>1, <2>2, MaxOfTop
  <2>4. (1..k) \ {k} = 1..j
    BY <2>1
  <2>5. 1..k \in SUBSET (1..n) /\ 1..k # {}
    <3>1. \A x \in 1..k : x \in 1..n
      BY <1>0
    <3>2. k \in 1..k
      BY <1>0
    <3> QED  BY <3>1, <3>2
  <2>6. it[1..k] = StepOf(reader, it[(1..k) \ {Max(1..k)}], s[Max(1..k)])
    BY <1>1, <2>5 DEF FoldsUpTo
  <2>7. it[1..k] = StepOf(reader, it[1..j], s[k])
    BY <2>3, <2>4, <2>6
  <2>8. f[k] = it[1..k] /\ f[k - 1] = it[1..j]
    BY <1>0, <2>1
  <2> QED  BY <2>7, <2>8
<1>5. f[n] = it[1..n]
  BY <1>0
<1> HIDE DEF f
<1>6. Views(f, reader, base, s)
  BY <1>3, <1>4 DEF Views, n
<1> QED  BY <1>5, <1>6 DEF n

LEMMA FollowIs ==
  ASSUME NEW reader, NEW base, NEW S, NEW s \in Seq(S)
  PROVE  \E f : Views(f, reader, base, s) /\ Follow(reader, base, s) = f[Len(s)]
<1>1. Len(s) \in Nat
  OBVIOUS
<1>2. PICK it : it = CHOOSE g : FoldsUpTo(g, reader, base, s, Len(s))
  OBVIOUS
<1>3. FoldsUpTo(it, reader, base, s, Len(s))
  BY <1>1, <1>2, FoldExists
<1>4. Follow(reader, base, s) = it[1..Len(s)]
  BY <1>2 DEF Follow
<1>5. \E f : Views(f, reader, base, s) /\ it[1..Len(s)] = f[Len(s)]
  BY <1>3, FoldHasViews
<1> QED  BY <1>4, <1>5

\* The views are determined.
LEMMA ViewsAgree ==
  ASSUME NEW reader, NEW base, NEW s, Len(s) \in Nat,
         NEW f, NEW g, Views(f, reader, base, s), Views(g, reader, base, s)
  PROVE  f[Len(s)] = g[Len(s)]
<1> DEFINE n == Len(s)
           T == {k \in Nat : k <= n => f[k] = g[k]}
<1>1. 0 \in T
  BY DEF Views
<1>2. ASSUME NEW k \in Nat, k \in T  PROVE k + 1 \in T
  <2> SUFFICES ASSUME k + 1 <= n  PROVE f[k + 1] = g[k + 1]
    OBVIOUS
  <2>1. f[k] = g[k] /\ k + 1 \in 1..n /\ (k + 1) - 1 = k
    BY <1>2
  <2>2. f[k + 1] = StepOf(reader, f[(k + 1) - 1], s[k + 1])
    BY <2>1 DEF Views
  <2>3. g[k + 1] = StepOf(reader, g[(k + 1) - 1], s[k + 1])
    BY <2>1 DEF Views
  <2> QED  BY <2>1, <2>2, <2>3
<1> HIDE DEF T
<1>3. n \in T
  BY <1>1, <1>2, SetInduction
<1> QED  BY <1>3 DEF T

\* The two folds of the model.
LEMMA FoldIsFollow ==
  ASSUME NEW base, NEW S, NEW s \in Seq(S)
  PROVE  /\ FoldLeft(TrackDevice, base, s) = Follow(Control, base, s)
         /\ FoldLeft(ReadLine, base, s) = Follow(Observer(clock), base, s)
<1>1. DOMAIN s = 1..Len(s) /\ Len(s) \in Nat
  OBVIOUS
<1> DEFINE tracks(it) ==
             it = [t \in SUBSET (1..Len(s)) |->
                     IF t = {} THEN base ELSE TrackDevice(it[t \ {Max(t)}], s[Max(t)])]
           reads(it) ==
             it = [t \in SUBSET (1..Len(s)) |->
                     IF t = {} THEN base ELSE ReadLine(it[t \ {Max(t)}], s[Max(t)])]
<1>2. \A it : FoldsUpTo(it, Control, base, s, Len(s)) <=> tracks(it)
  <2>1. \A d, line : StepOf(Control, d, line) = TrackDevice(d, line)
    BY StepIsOf
  <2> QED  BY <2>1, Zenon DEF FoldsUpTo
<1>3. \A it : FoldsUpTo(it, Observer(clock), base, s, Len(s)) <=> reads(it)
  <2>1. \A d, line : StepOf(Observer(clock), d, line) = ReadLine(d, line)
    BY StepIsOf
  <2> QED  BY <2>1, Zenon DEF FoldsUpTo
<1>4. PICK t : t = CHOOSE it : tracks(it)
  OBVIOUS
<1>5. PICK r : r = CHOOSE it : reads(it)
  OBVIOUS
<1>6. FoldLeft(TrackDevice, base, s) = t[1..Len(s)]
  BY <1>1, <1>4 DEF FoldLeft, MapThenFoldSet
<1>7. FoldLeft(ReadLine, base, s) = r[1..Len(s)]
  BY <1>1, <1>5 DEF FoldLeft, MapThenFoldSet
<1> HIDE DEF tracks, reads
<1>8. \A reader : \E it : FoldsUpTo(it, reader, base, s, Len(s))
  BY <1>1, FoldExists
<1>9. FoldsUpTo(t, Control, base, s, Len(s)) /\ FoldsUpTo(r, Observer(clock), base, s, Len(s))
  BY <1>2, <1>3, <1>4, <1>5, <1>8
<1>10. t[1..Len(s)] = Follow(Control, base, s)
  BY <1>1, <1>9, FoldHasViews, FollowIs, ViewsAgree
<1>11. r[1..Len(s)] = Follow(Observer(clock), base, s)
  BY <1>1, <1>9, FoldHasViews, FollowIs, ViewsAgree
<1> QED  BY <1>6, <1>7, <1>10, <1>11

LEMMA FollowNone ==
  ASSUME NEW reader, NEW base
  PROVE  Follow(reader, base, <<>>) = base
<1>1. <<>> \in Seq({}) /\ Len(<<>>) = 0
  OBVIOUS
<1>2. PICK f : Views(f, reader, base, <<>>) /\ Follow(reader, base, <<>>) = f[Len(<<>>)]
  BY <1>1, FollowIs
<1>3. f[0] = base
  BY <1>2 DEF Views
<1> QED  BY <1>1, <1>2, <1>3

\* A line more is a step more.
LEMMA FollowAppend ==
  ASSUME NEW reader, NEW base, NEW S, NEW s \in Seq(S), NEW line \in S
  PROVE  Follow(reader, base, Append(s, line)) = StepOf(reader, Follow(reader, base, s), line)
<1>0. PICK r : r = Append(s, line)
  OBVIOUS
<1>1. /\ r \in Seq(S) /\ Len(r) = Len(s) + 1 /\ Len(s) \in Nat
      /\ r[Len(s) + 1] = line /\ \A k \in 1..Len(s) : r[k] = s[k]
  BY <1>0
<1>2. PICK f : Views(f, reader, base, r) /\ Follow(reader, base, r) = f[Len(r)]
  BY <1>1, FollowIs
<1>3. PICK g : Views(g, reader, base, s) /\ Follow(reader, base, s) = g[Len(s)]
  BY FollowIs
<1>4. Views(f, reader, base, s)
  BY <1>1, <1>2 DEF Views
<1>5. f[Len(s)] = g[Len(s)]
  BY <1>1, <1>3, <1>4, ViewsAgree
<1>6. f[Len(r)] = StepOf(reader, f[Len(s)], line)
  <2>1. Len(r) \in 1..Len(r) /\ Len(r) - 1 = Len(s) /\ r[Len(r)] = line
    BY <1>1
  <2>2. f[Len(r)] = StepOf(reader, f[Len(r) - 1], r[Len(r)])
    BY <1>2, <2>1 DEF Views
  <2> QED  BY <2>1, <2>2
<1> QED  BY <1>0, <1>2, <1>3, <1>5, <1>6

\* The first line read is not to be read again.
LEMMA FollowTail ==
  ASSUME NEW reader, NEW base, NEW S, NEW s \in Seq(S), s # <<>>
  PROVE  Follow(reader, StepOf(reader, base, Head(s)), Tail(s)) = Follow(reader, base, s)
<1>0. PICK r : r = Tail(s)
  OBVIOUS
<1>1. /\ r \in Seq(S) /\ Len(r) = Len(s) - 1 /\ Len(s) \in Nat \ {0} /\ Head(s) = s[1]
      /\ \A k \in 1..Len(r) : r[k] = s[k + 1]
  BY <1>0
<1>2. PICK f : Views(f, reader, base, s) /\ Follow(reader, base, s) = f[Len(s)]
  BY FollowIs
<1>3. PICK first : first = StepOf(reader, base, Head(s))
  OBVIOUS
<1>4. PICK g : Views(g, reader, first, r) /\ Follow(reader, first, r) = g[Len(r)]
  BY <1>1, FollowIs
<1> DEFINE h == [k \in 0..Len(r) |-> f[k + 1]]
<1>5. h[0] = first
  <2>1. 1 \in 1..Len(s) /\ 0 \in 0..Len(r) /\ 1 - 1 = 0 /\ 0 + 1 = 1
    BY <1>1
  <2>2. f[1] = StepOf(reader, f[1 - 1], s[1])
    BY <1>2, <2>1 DEF Views
  <2>3. f[1] = first
    BY <1>1, <1>2, <1>3, <2>1, <2>2 DEF Views
  <2> QED  BY <2>1, <2>3
<1>6. ASSUME NEW k \in 1..Len(r)  PROVE h[k] = StepOf(reader, h[k - 1], r[k])
  <2>1. k + 1 \in 1..Len(s) /\ (k + 1) - 1 = k /\ k - 1 \in 0..Len(r) /\ (k - 1) + 1 = k
        /\ k \in 0..Len(r)
    BY <1>1
  <2>2. f[k + 1] = StepOf(reader, f[(k + 1) - 1], s[k + 1])
    BY <1>2, <2>1 DEF Views
  <2>3. h[k] = f[k + 1] /\ h[k - 1] = f[k]
    BY <2>1
  <2> QED  BY <1>1, <2>1, <2>2, <2>3
<1>7. h[Len(r)] = f[Len(s)]
  BY <1>1
<1> HIDE DEF h
<1>8. h[Len(r)] = g[Len(r)]
  <2>1. Views(h, reader, first, r)
    BY <1>5, <1>6 DEF Views
  <2>2. Len(r) \in Nat
    BY <1>1
  <2> QED  BY <1>4, <2>1, <2>2, ViewsAgree
<1> QED  BY <1>0, <1>2, <1>3, <1>4, <1>7, <1>8

-----------------------------------------------------------------------------
(* Types *)

GrantSpace == [CertChannels -> Edges \cup {Free}]
RefusalSpace == [gate : Gates, count : Nat]
DeviceSpace == [alive : BOOLEAN, grants : GrantSpace, refusals : Seq(RefusalSpace)]
LineSpace ==
  [say : {"boot", "open", "expired", "closed"}]
    \cup [say : {"installed"}, chan : CertChannels, edge : Edges]
    \cup [say : {"refused"}, gate : Gates]
    \cup [say : {"commit"}, seq : Nat, share : Nat]
    \cup [say : {"pose"}, seq : Nat, life : Nat]

BoardSpace == [grants : GrantSpace, chan : Channels({NoId}, Nat, Nat, Nat),
               refused : [Gates -> Nat]]

\* What the observer keeps of a device.
IsDeviceState(d) == d = [chan |-> d.chan, arrivals |-> d.arrivals]

ViewsTyped ==
  /\ viewer \in {"control", "observer"}
  /\ board \in BoardSpace
  /\ air \in [seq : Nat, life : Nat, missed : SUBSET Nat]
  /\ pipe \in Seq(LineSpace)
  /\ cat \in {"open", "closed", "exited"}
  /\ control \in DeviceSpace /\ IsDeviceState(observer)
  /\ clock \in Nat /\ printed \in Nat

LEMMA LineIs ==
  ASSUME NEW line \in LineSpace
  PROVE  /\ line.say = "installed" => line.chan \in CertChannels /\ line.edge \in Edges
         /\ line.say = "refused" => line.gate \in Gates
         /\ line.say = "commit" => line.seq \in Nat /\ line.share \in Nat
         /\ line.say = "pose" => line.seq \in Nat /\ line.life \in Nat
BY DEF LineSpace

\* A refusal is counted where it is listed, or listed last.
LEMMA NoteIs ==
  ASSUME NEW r \in Seq(RefusalSpace), NEW gate \in Gates
  PROVE  /\ NoteRefusal(r, gate) \in Seq(RefusalSpace)
         /\ (\E i \in 1..Len(r) : r[i].gate = gate) =>
              /\ Len(NoteRefusal(r, gate)) = Len(r)
              /\ \A i \in 1..Len(r) :
                   /\ NoteRefusal(r, gate)[i].gate = r[i].gate
                   /\ NoteRefusal(r, gate)[i].count =
                        IF r[i].gate = gate THEN r[i].count + 1 ELSE r[i].count
         /\ ~(\E i \in 1..Len(r) : r[i].gate = gate) =>
              NoteRefusal(r, gate) = Kept(Append(r, [gate |-> gate, count |-> 1]))
<1>0. DOMAIN r = 1..Len(r) /\ Len(r) \in Nat
  OBVIOUS
<1>1. CASE \E i \in 1..Len(r) : r[i].gate = gate
  <2> DEFINE up(i) == IF r[i].gate = gate THEN [r[i] EXCEPT !.count = @ + 1] ELSE r[i]
             q == [i \in 1..Len(r) |-> up(i)]
  <2>1. NoteRefusal(r, gate) = q
    BY <1>0, <1>1 DEF NoteRefusal
  <2>2. ASSUME NEW i \in 1..Len(r)
        PROVE  /\ up(i) \in RefusalSpace /\ up(i).gate = r[i].gate
               /\ up(i).count = IF r[i].gate = gate THEN r[i].count + 1 ELSE r[i].count
    <3>1. r[i] \in RefusalSpace
      BY <1>0
    <3> QED  BY <3>1 DEF RefusalSpace
  <2> HIDE DEF up
  <2>3. q \in Seq(RefusalSpace) /\ Len(q) = Len(r)
    BY <1>0, <2>2
  <2> QED  BY <1>1, <2>1, <2>2, <2>3
<1>2. CASE ~(\E i \in 1..Len(r) : r[i].gate = gate)
  <2> DEFINE e == [gate |-> gate, count |-> 1]
  <2>1. NoteRefusal(r, gate) = Kept(Append(r, e))
    BY <1>0, <1>2 DEF NoteRefusal
  <2>2. e \in RefusalSpace
    BY DEF RefusalSpace
  <2> HIDE DEF e
  <2>3. PICK p : p = Append(r, e)
    OBVIOUS
  <2>4. p \in Seq(RefusalSpace) /\ Len(p) = Len(r) + 1
    BY <2>2, <2>3
  <2>5. Tail(p) \in Seq(RefusalSpace)
    BY <1>0, <2>4
  <2>6. Kept(p) \in Seq(RefusalSpace)
    BY <2>4, <2>5 DEF Kept
  <2> QED  BY <1>2, <2>1, <2>3, <2>6 DEF e
<1> QED  BY <1>1, <1>2

LEMMA TrackIsDevice ==
  ASSUME NEW d \in DeviceSpace, NEW line \in LineSpace
  PROVE  TrackDevice(d, line) \in DeviceSpace
<1> DEFINE seen == [d EXCEPT !.alive = TRUE]
<1>1. seen \in DeviceSpace /\ seen.grants \in GrantSpace /\ seen.refusals \in Seq(RefusalSpace)
  BY DEF DeviceSpace
<1> HIDE DEF seen
<1>2. TrackBoot(seen) \in DeviceSpace
  <2>1. NewDevice.grants \in GrantSpace /\ <<>> \in Seq(RefusalSpace)
    BY DEF NewDevice, GrantSpace
  <2> QED  BY <1>1, <2>1 DEF TrackBoot, DeviceSpace
<1>3. line.say = "installed" => [seen EXCEPT !.grants[line.chan] = line.edge] \in DeviceSpace
  BY <1>1, LineIs DEF DeviceSpace, GrantSpace
<1>4. line.say = "refused" =>
        [seen EXCEPT !.refusals = NoteRefusal(@, line.gate)] \in DeviceSpace
  BY <1>1, LineIs, NoteIs DEF DeviceSpace
<1> QED  BY <1>1, <1>2, <1>3, <1>4 DEF TrackDevice, seen

LEMMA ReadIsDeviceState ==
  ASSUME NEW d, IsDeviceState(d), NEW line
  PROVE  /\ IsDeviceState(ReadLine(d, line))
         /\ ReadLine(d, line).chan = ReadChan(d.chan, line)
         /\ line.say # "pose" => ReadLine(d, line).arrivals = d.arrivals
         /\ line.say = "pose" =>
              ReadLine(d, line).arrivals =
                Push(d.arrivals, [seq |-> line.seq, at |-> clock, life |-> line.life])
<1>1. PICK c, a : d = [chan |-> c, arrivals |-> a]
  BY DEF IsDeviceState
<1>2. \A x : [d EXCEPT !.chan = x] = [chan |-> x, arrivals |-> a]
  BY <1>1
<1>3. \A x : [d EXCEPT !.arrivals = x] = [chan |-> c, arrivals |-> x]
  BY <1>1
<1>4. CASE line.say = "pose"
  <2>1. ReadLine(d, line) =
          [d EXCEPT !.arrivals = Push(@, [seq |-> line.seq, at |-> clock, life |-> line.life])]
    BY <1>4, EventsAre DEF ReadLine, ApplyEvent
  <2>2. ReadChan(d.chan, line) = d.chan
    BY <1>4 DEF ReadChan
  <2> QED  BY <1>1, <1>3, <1>4, <2>1, <2>2 DEF IsDeviceState
<1>5. CASE line.say \in {"open", "expired", "closed"}
  <2>1. ReadLine(d, line) = [d EXCEPT !.chan = ReadChan(d.chan, line)]
    BY <1>5, EventsAre DEF ReadLine, ApplyEvent, ReadChan
  <2> QED  BY <1>1, <1>2, <1>5, <2>1 DEF IsDeviceState
<1>6. CASE ~IsEvent(line)
  <2>1. ReadLine(d, line) = d /\ ReadChan(d.chan, line) = d.chan /\ line.say # "pose"
    BY <1>6, EventsAre DEF ReadLine, ReadChan
  <2> QED  BY <2>1
<1> QED  BY <1>4, <1>5, <1>6, EventsAre

LEMMA BootedIsBoard == Booted \in BoardSpace
<1>1. /\ [c \in CertChannels |-> Free] \in GrantSpace
      /\ [g \in Gates |-> 0] \in [Gates -> Nat]
      /\ ChannelInit \in Channels({NoId}, Nat, Nat, Nat)
  BY DEF GrantSpace, ChannelInit, Channels, ChannelStates
<1> QED  BY <1>1 DEF Booted, BoardSpace

\* What a board step does to the board, and what it says.
BoardMoves(line) ==
  \/ line.say = "boot" /\ Resets
  \/ line.say = "installed" /\ viewer = "control" /\ Installs(line.chan, line.edge)
  \/ line.say = "refused" /\ viewer = "control" /\ RefusesAt(line.gate)
  \/ line.say = "open" /\ viewer = "observer" /\ Opens
  \/ /\ line.say = "commit" /\ viewer = "observer" /\ Commits
     /\ line.seq = board.chan.seq + 1 /\ line.share = line.seq
  \/ line.say = "expired" /\ viewer = "observer" /\ Expires
  \/ line.say = "closed" /\ viewer = "observer" /\ Closes
  \/ /\ line.say = "pose" /\ viewer = "observer" /\ HearsPose
     /\ line.seq = air.seq /\ line.life = air.life

LEMMA BoardSays ==
  ASSUME ViewsTyped, BoardStep
  PROVE  ResetsWithPort \/ \E line \in LineSpace : BoardMoves(line) /\ Says(line)
<1>1. CASE ResetsWithPort
  BY <1>1
<1>2. CASE Resets
  <2>1. [say |-> "boot"] \in LineSpace
    BY DEF LineSpace
  <2> QED  BY <1>2, <2>1 DEF Resets, BoardMoves
<1>3. CASE viewer = "control" /\ \E c \in CertChannels, e \in Edges : Installs(c, e)
  <2>1. PICK c \in CertChannels, e \in Edges : Installs(c, e)
    BY <1>3
  <2>2. PICK line : line = [say |-> "installed", chan |-> c, edge |-> e]
    OBVIOUS
  <2>3. line \in LineSpace /\ line.say = "installed" /\ line.chan = c /\ line.edge = e
    BY <2>2 DEF LineSpace
  <2>4. Says(line)
    BY <2>1, <2>2 DEF Installs
  <2> QED  BY <1>3, <2>1, <2>3, <2>4 DEF BoardMoves
<1>4. CASE viewer = "control" /\ \E g \in Gates : RefusesAt(g)
  <2>1. PICK g \in Gates : RefusesAt(g)
    BY <1>4
  <2>2. PICK line : line = [say |-> "refused", gate |-> g]
    OBVIOUS
  <2>3. line \in LineSpace /\ line.say = "refused" /\ line.gate = g
    BY <2>2 DEF LineSpace
  <2>4. Says(line)
    BY <2>1, <2>2 DEF RefusesAt
  <2> QED  BY <1>4, <2>1, <2>3, <2>4 DEF BoardMoves
<1>5. CASE viewer = "observer" /\ Opens
  <2>1. [say |-> "open"] \in LineSpace
    BY DEF LineSpace
  <2> QED  BY <1>5, <2>1 DEF Opens, BoardMoves
<1>6. CASE viewer = "observer" /\ Commits
  <2>0. PICK seq : seq = board.chan.seq + 1
    OBVIOUS
  <2>1. PICK line : line = [say |-> "commit", seq |-> seq, share |-> seq]
    OBVIOUS
  <2>2. board.chan.seq \in Nat
    BY DEF ViewsTyped, BoardSpace, Channels
  <2>3. line \in LineSpace /\ line.say = "commit" /\ line.seq = seq /\ line.share = seq
    BY <2>0, <2>1, <2>2 DEF LineSpace
  <2>4. Says(line)
    BY <1>6, <2>0, <2>1 DEF Commits
  <2> QED  BY <1>6, <2>0, <2>3, <2>4 DEF BoardMoves
<1>7. CASE viewer = "observer" /\ Expires
  <2>1. [say |-> "expired"] \in LineSpace
    BY DEF LineSpace
  <2> QED  BY <1>7, <2>1 DEF Expires, BoardMoves
<1>8. CASE viewer = "observer" /\ Closes
  <2>1. [say |-> "closed"] \in LineSpace
    BY DEF LineSpace
  <2> QED  BY <1>8, <2>1 DEF Closes, BoardMoves
<1>9. CASE viewer = "observer" /\ HearsPose
  <2>1. PICK line : line = [say |-> "pose", seq |-> air.seq, life |-> air.life]
    OBVIOUS
  <2>2. air.seq \in Nat /\ air.life \in Nat
    BY DEF ViewsTyped
  <2>3. /\ line \in LineSpace /\ line.say = "pose"
        /\ line.seq = air.seq /\ line.life = air.life
    BY <2>1, <2>2 DEF LineSpace
  <2>4. Says(line)
    BY <1>9, <2>1 DEF HearsPose
  <2> QED  BY <1>9, <2>3, <2>4 DEF BoardMoves
<1> QED  BY <1>1, <1>2, <1>3, <1>4, <1>5, <1>6, <1>7, <1>8, <1>9 DEF BoardStep

\* What a step of the board leaves of it, with the channel's record in view.
LEMMA MovesAre ==
  ASSUME ViewsAssumption, ViewsTyped, NEW line \in LineSpace, BoardMoves(line)
  PROVE  /\ board' \in BoardSpace
         /\ air' \in [seq : Nat, life : Nat, missed : SUBSET Nat]
         /\ line.say # "pose" => air' = air
         /\ line.say \in {"open", "commit", "expired", "closed", "pose"} => viewer = "observer"
         /\ line.say \notin {"open", "commit", "expired", "closed", "boot"} =>
              board'.chan = board.chan
         /\ line.say = "boot" => board' = Booted
         /\ line.say = "open" => /\ board'.chan.state = "OPEN"
                                 /\ board'.chan.seq = 0 /\ board'.chan.deviceShare = 0
         /\ line.say = "commit" => /\ board.chan.state \in {"OPEN", "ACTIVE"}
                                   /\ board'.chan.state = "ACTIVE" /\ board'.chan.expiry = 1
                                   /\ board'.chan.seq = line.seq
                                   /\ board'.chan.deviceShare = line.share
         /\ line.say = "expired" => /\ board.chan.state = "ACTIVE"
                                    /\ board'.chan = TickExpiry(board.chan, 2)
         /\ line.say = "closed" => board'.chan.state = "CLOSED"
<1>0. /\ board.grants \in GrantSpace /\ board.refused \in [Gates -> Nat]
      /\ board.chan \in Channels({NoId}, Nat, Nat, Nat)
      /\ board = [grants |-> board.grants, chan |-> board.chan, refused |-> board.refused]
      /\ air \in [seq : Nat, life : Nat, missed : SUBSET Nat]
  BY DEF ViewsTyped, BoardSpace
<1>1. CASE line.say = "boot"
  <2>1. board' = Booted /\ air' = air
    BY <1>1 DEF BoardMoves, Resets
  <2> QED  BY <1>0, <1>1, <2>1, BootedIsBoard
<1>2. CASE line.say = "installed"
  <2>1. board' = [board EXCEPT !.grants[line.chan] = line.edge] /\ air' = air
    BY <1>2 DEF BoardMoves, Installs
  <2>2. [board.grants EXCEPT ![line.chan] = line.edge] \in GrantSpace
    BY <1>0, <1>2, LineIs DEF GrantSpace
  <2>3. board' \in BoardSpace /\ board'.chan = board.chan
    BY <1>0, <2>1, <2>2 DEF BoardSpace
  <2> QED  BY <1>0, <1>2, <2>1, <2>3
<1>3. CASE line.say = "refused"
  <2>1. board' = [board EXCEPT !.refused[line.gate] = @ + 1] /\ air' = air
    BY <1>3 DEF BoardMoves, RefusesAt
  <2>2. line.gate \in Gates
    BY <1>3, LineIs
  <2>3. [board.refused EXCEPT ![line.gate] = @ + 1] \in [Gates -> Nat]
    BY <1>0, <2>2
  <2>4. board' \in BoardSpace /\ board'.chan = board.chan
    BY <1>0, <2>1, <2>3 DEF BoardSpace
  <2> QED  BY <1>0, <1>3, <2>1, <2>4
<1>4. CASE line.say = "pose"
  <2>1. /\ UNCHANGED board /\ air' = [air EXCEPT !.seq = @ + 1] /\ viewer = "observer"
    BY <1>4 DEF BoardMoves, HearsPose
  <2>2. air' \in [seq : Nat, life : Nat, missed : SUBSET Nat]
    BY <1>0, <2>1
  <2>3. board' \in BoardSpace /\ board'.chan = board.chan
    BY <2>1 DEF ViewsTyped
  <2> QED  BY <1>4, <2>1, <2>2, <2>3
<1>5. ASSUME NEW c, c \in Channels({NoId}, Nat, Nat, Nat), board' = [board EXCEPT !.chan = c]
      PROVE  board' \in BoardSpace /\ board'.chan = c
  BY <1>0, <1>5 DEF BoardSpace
<1>6. CASE line.say = "open"
  <2>1. /\ board' = [board EXCEPT !.chan = ApplyOpen(@, [id |-> NoId, capacity |-> MaxSeq])]
        /\ AcceptsOpen(board.chan) /\ air' = air /\ viewer = "observer"
    BY <1>6 DEF BoardMoves, Opens
  <2>2. PICK c : c = [ChannelInit EXCEPT !.state = "OPEN", !.id = NoId, !.capacity = MaxSeq]
    OBVIOUS
  <2>3. ApplyOpen(board.chan, [id |-> NoId, capacity |-> MaxSeq]) = c
    <3>1. PICK op : op = [id |-> NoId, capacity |-> MaxSeq]
      OBVIOUS
    <3>2. op.id = NoId /\ op.capacity = MaxSeq
      BY <3>1
    <3>3. ApplyOpen(board.chan, op) =
            [ChannelInit EXCEPT !.state = "OPEN", !.id = NoId, !.capacity = MaxSeq]
      BY <2>1, <3>2 DEF ApplyOpen
    <3> QED  BY <2>2, <3>1, <3>3
  <2>4. MaxSeq \in Nat
    BY DEF ViewsAssumption
  <2>5. c \in Channels({NoId}, Nat, Nat, Nat) /\ c.state = "OPEN" /\ c.seq = 0
        /\ c.deviceShare = 0
    BY <2>2, <2>4 DEF ChannelInit, Channels, ChannelStates
  <2>6. board' = [board EXCEPT !.chan = c]
    BY <1>0, <2>1, <2>3
  <2> QED  BY <1>0, <1>5, <1>6, <2>1, <2>5, <2>6
<1>7. CASE line.say = "commit"
  <2>0. PICK cm : cm = [id |-> NoId, seq |-> line.seq, deviceShare |-> line.seq,
                        userShare |-> 0, expiry |-> 1]
    OBVIOUS
  <2>1. /\ board' = [board EXCEPT !.chan = ApplyCommitment(@, cm, 0)]
        /\ AcceptsCommitment(board.chan, cm, 0) /\ air' = air /\ viewer = "observer"
        /\ line.share = line.seq
    BY <1>7, <2>0 DEF BoardMoves, Commits
  <2>2. PICK c : c = [board.chan EXCEPT !.state = "ACTIVE", !.seq = line.seq,
                        !.deviceShare = line.seq, !.userShare = 0, !.expiry = 1]
    OBVIOUS
  <2>3. ApplyCommitment(board.chan, cm, 0) = c
    BY <2>0, <2>1, <2>2 DEF ApplyCommitment
  <2>4. line.seq \in Nat /\ board.chan.state \in {"OPEN", "ACTIVE"}
    BY <1>7, <2>1, LineIs DEF AcceptsCommitment
  <2>5. c \in Channels({NoId}, Nat, Nat, Nat) /\ c.state = "ACTIVE" /\ c.seq = line.seq
        /\ c.deviceShare = line.seq /\ c.expiry = 1
    BY <1>0, <2>2, <2>4 DEF Channels, ChannelStates
  <2>6. board' = [board EXCEPT !.chan = c]
    BY <1>0, <2>1, <2>3
  <2> QED  BY <1>0, <1>5, <1>7, <2>1, <2>4, <2>5, <2>6
<1>8. CASE line.say = "expired"
  <2>1. /\ board' = [board EXCEPT !.chan = TickExpiry(@, 2)] /\ air' = air
        /\ board.chan.state = "ACTIVE" /\ viewer = "observer"
    BY <1>8 DEF BoardMoves, Expires
  <2>2. TickExpiry(board.chan, 2) \in Channels({NoId}, Nat, Nat, Nat)
    BY <1>0 DEF TickExpiry, Channels, ChannelStates
  <2>3. board' = [board EXCEPT !.chan = TickExpiry(board.chan, 2)]
    BY <1>0, <2>1
  <2> QED  BY <1>0, <1>5, <1>8, <2>1, <2>2, <2>3
<1>9. CASE line.say = "closed"
  <2>1. PICK cl : /\ board' = [board EXCEPT !.chan = ApplyClose(@, cl)]
                  /\ AcceptsClose(board.chan, cl) /\ air' = air /\ viewer = "observer"
    BY <1>9 DEF BoardMoves, Closes
  <2>2. PICK c : c = [board.chan EXCEPT !.state = "CLOSED"]
    OBVIOUS
  <2>3. ApplyClose(board.chan, cl) = c
    BY <2>1, <2>2 DEF ApplyClose
  <2>4. c \in Channels({NoId}, Nat, Nat, Nat) /\ c.state = "CLOSED"
    BY <1>0, <2>2 DEF Channels, ChannelStates
  <2>5. board' = [board EXCEPT !.chan = c]
    BY <1>0, <2>1, <2>3
  <2> QED  BY <1>0, <1>5, <1>9, <2>1, <2>4, <2>5
<1> QED  BY <1>1, <1>2, <1>3, <1>4, <1>6, <1>7, <1>8, <1>9 DEF BoardMoves

LEMMA TypedKeeps ==
  ASSUME ViewsAssumption, ViewsTyped, [Next]_vars
  PROVE  ViewsTyped'
<1>0. /\ viewer \in {"control", "observer"} /\ board \in BoardSpace
      /\ air \in [seq : Nat, life : Nat, missed : SUBSET Nat]
      /\ pipe \in Seq(LineSpace) /\ cat \in {"open", "closed", "exited"}
      /\ control \in DeviceSpace /\ IsDeviceState(observer) /\ clock \in Nat /\ printed \in Nat
  BY DEF ViewsTyped
<1>1. ASSUME NEW line \in LineSpace, BoardMoves(line), Says(line)  PROVE ViewsTyped'
  <2>1. Append(pipe, line) \in Seq(LineSpace)
    BY <1>0
  <2>2. pipe' \in Seq(LineSpace) /\ printed' \in Nat
        /\ UNCHANGED <<viewer, cat, control, observer, clock>>
    BY <1>0, <1>1, <2>1 DEF Says
  <2>3. board' \in BoardSpace /\ air' \in [seq : Nat, life : Nat, missed : SUBSET Nat]
    BY <1>1, MovesAre
  <2> QED  BY <1>0, <2>2, <2>3 DEF ViewsTyped, IsDeviceState
<1>2. CASE ResetsWithPort
  BY <1>0, <1>2, BootedIsBoard DEF ResetsWithPort, ViewsTyped, IsDeviceState
<1>3. CASE MissesPose
  <2>1. air' \in [seq : Nat, life : Nat, missed : SUBSET Nat]
    <3>1. air' = [air EXCEPT !.seq = @ + 1, !.missed = @ \cup {air.seq}]
      BY <1>3 DEF MissesPose
    <3>2. air.missed \cup {air.seq} \in SUBSET Nat /\ air.seq + 1 \in Nat
      BY <1>0
    <3> QED  BY <1>0, <3>1, <3>2
  <2> QED  BY <1>0, <1>3, <2>1 DEF MissesPose, ViewsTyped, IsDeviceState
<1>4. CASE SpeederRestarts
  <2>1. air' \in [seq : Nat, life : Nat, missed : SUBSET Nat]
    <3>1. air' = [seq |-> 0, life |-> air.life + 1, missed |-> {}] /\ air.life \in Nat
      BY <1>0, <1>4 DEF SpeederRestarts
    <3>2. air.life + 1 \in Nat /\ {} \in SUBSET Nat
      BY <3>1
    <3> QED  BY <3>1, <3>2
  <2> QED  BY <1>0, <1>4, <2>1 DEF SpeederRestarts, ViewsTyped, IsDeviceState
<1>5. CASE PassTime
  BY <1>0, <1>5 DEF PassTime, ViewsTyped, IsDeviceState
<1>6. CASE Reads
  <2>1. /\ pipe # <<>> /\ pipe' = Tail(pipe)
        /\ UNCHANGED <<viewer, board, air, cat, clock, printed>>
        /\ \/ control' = TrackDevice(control, Head(pipe)) /\ UNCHANGED observer
           \/ observer' = ReadLine(observer, Head(pipe)) /\ UNCHANGED control
    BY <1>6 DEF Reads
  <2>2. pipe' \in Seq(LineSpace) /\ Head(pipe) \in LineSpace
    BY <1>0, <2>1
  <2>3. control' \in DeviceSpace
    BY <1>0, <2>1, <2>2, TrackIsDevice
  <2>4. IsDeviceState(ReadLine(observer, Head(pipe)))
    BY <1>0, ReadIsDeviceState
  <2>5. IsDeviceState(observer)'
    BY <1>0, <2>1, <2>4 DEF IsDeviceState
  <2> QED  BY <1>0, <2>1, <2>2, <2>3, <2>5 DEF ViewsTyped
<1>7. CASE CatExits
  <2>1. [control EXCEPT !.alive = FALSE] \in DeviceSpace
    BY <1>0 DEF DeviceSpace
  <2>2. control' \in DeviceSpace /\ cat' = "exited"
        /\ UNCHANGED <<viewer, board, air, pipe, observer, clock, printed>>
    BY <1>0, <1>7, <2>1 DEF CatExits
  <2> QED  BY <1>0, <2>2 DEF ViewsTyped, IsDeviceState
<1>8. CASE UNCHANGED vars
  BY <1>0, <1>8 DEF vars, ViewsTyped, IsDeviceState
<1> QED  BY <1>1, <1>2, <1>3, <1>4, <1>5, <1>6, <1>7, <1>8, BoardSays DEF Next

-----------------------------------------------------------------------------
(* The grants and the refusals *)

Refused == {g \in Gates : board.refused[g] > 0}

\* A list of refusals since the boot: no gate twice, none counted too often, and
\* none missing when there is room for all.
GoodList(r) ==
  /\ \A i, j \in 1..Len(r) : i # j => r[i].gate # r[j].gate
  /\ \A i \in 1..Len(r) : 1 <= r[i].count /\ r[i].count <= board.refused[r[i].gate]
  /\ Cardinality(Refused) <= RefusalMax =>
       \A g \in Refused : \E i \in 1..Len(r) : r[i].gate = g

\* What mesh-control.ts is going to have read.
GrantsAhead ==
  viewer = "control" /\ cat = "open" =>
    /\ Follow(Control, control, pipe) \in DeviceSpace
    /\ Follow(Control, control, pipe).grants = board.grants
    /\ GoodList(Follow(Control, control, pipe).refusals)

\* As many elements as there are positions, when no two are alike.
LEMMA ImageSize ==
  ASSUME NEW n \in Nat, NEW f, \A i, j \in 1..n : i # j => f[i] # f[j]
  PROVE  /\ IsFiniteSet({f[i] : i \in 1..n})
         /\ Cardinality({f[i] : i \in 1..n}) = n
<1> DEFINE T == {f[i] : i \in 1..n}
           h == [i \in 1..n |-> f[i]]
<1>1. h \in [1..n -> T] /\ \A t \in T : \E i \in 1..n : h[i] = t
  OBVIOUS
<1>2. \A i, j \in 1..n : h[i] = h[j] => i = j
  OBVIOUS
<1> HIDE DEF h, T
<1>3. h \in Bijection(1..n, T)
  BY <1>1, <1>2 DEF Bijection, Injection, Surjection, IsInjective
<1>4. ExistsBijection(1..n, T)
  BY <1>3 DEF ExistsBijection
<1>5. IsFiniteSet(1..n) /\ Cardinality(1..n) = n
  BY FS_Interval
<1>6. IsFiniteSet(T) /\ Cardinality(T) = n
  BY <1>4, <1>5, FS_Bijection
<1> QED  BY <1>6 DEF T

LEMMA ListKeeps ==
  ASSUME ViewsAssumption, board \in BoardSpace, IsFiniteSet(Refused),
         NEW r \in Seq(RefusalSpace), GoodList(r), NEW gate \in Gates,
         board' = [board EXCEPT !.refused[gate] = @ + 1],
         NEW q, q = NoteRefusal(r, gate)
  PROVE  GoodList(q)'
<1>1. /\ board.refused \in [Gates -> Nat]
      /\ \A g \in Gates : board'.refused[g] = IF g = gate THEN board.refused[g] + 1
                                              ELSE board.refused[g]
  BY DEF BoardSpace
<1>2. Refused' = Refused \cup {gate}
  BY <1>1 DEF Refused
<1>3. /\ Len(r) \in Nat /\ \A i \in 1..Len(r) : r[i] \in RefusalSpace
  OBVIOUS
<1>4. \A i \in 1..Len(r) : r[i].gate \in Gates /\ r[i].count \in Nat
  BY <1>3 DEF RefusalSpace
<1>5. /\ \A i, j \in 1..Len(r) : i # j => r[i].gate # r[j].gate
      /\ \A i \in 1..Len(r) : 1 <= r[i].count /\ r[i].count <= board.refused[r[i].gate]
      /\ Cardinality(Refused) <= RefusalMax =>
           \A g \in Refused : \E i \in 1..Len(r) : r[i].gate = g
  BY DEF GoodList
<1>6. CASE \E i \in 1..Len(r) : r[i].gate = gate
  <2>1. /\ Len(q) = Len(r)
        /\ \A i \in 1..Len(r) :
             /\ q[i].gate = r[i].gate
             /\ q[i].count = IF r[i].gate = gate THEN r[i].count + 1 ELSE r[i].count
    <3>1. /\ Len(NoteRefusal(r, gate)) = Len(r)
          /\ \A i \in 1..Len(r) :
               /\ NoteRefusal(r, gate)[i].gate = r[i].gate
               /\ NoteRefusal(r, gate)[i].count =
                    IF r[i].gate = gate THEN r[i].count + 1 ELSE r[i].count
      BY <1>6, NoteIs
    <3> QED  BY <3>1
  <2>2. gate \in Refused
    <3>1. PICK i \in 1..Len(r) : r[i].gate = gate
      BY <1>6
    <3>2. r[i].count \in Nat /\ 1 <= r[i].count /\ r[i].count <= board.refused[gate]
      BY <1>4, <1>5, <3>1
    <3>3. board.refused[gate] \in Nat
      BY <1>1
    <3>4. board.refused[gate] > 0
      BY <3>2, <3>3
    <3> QED  BY <3>4 DEF Refused
  <2>3. Refused' = Refused
    BY <1>2, <2>2
  <2>4. ASSUME NEW i \in 1..Len(q)
        PROVE  1 <= q[i].count /\ q[i].count <= board'.refused[q[i].gate]
    <3>1. /\ i \in 1..Len(r) /\ q[i].gate = r[i].gate
          /\ q[i].count = IF r[i].gate = gate THEN r[i].count + 1 ELSE r[i].count
      BY <2>1
    <3>2. /\ r[i].gate \in Gates /\ r[i].count \in Nat
          /\ 1 <= r[i].count /\ r[i].count <= board.refused[r[i].gate]
          /\ board.refused[r[i].gate] \in Nat
      BY <1>1, <1>4, <1>5, <3>1
    <3>3. board'.refused[r[i].gate] = IF r[i].gate = gate THEN board.refused[r[i].gate] + 1
                                      ELSE board.refused[r[i].gate]
      BY <1>1, <3>2
    <3>4. PICK c, b : c = r[i].count /\ b = board.refused[r[i].gate]
      OBVIOUS
    <3>5. c \in Nat /\ b \in Nat /\ 1 <= c /\ c <= b
      BY <3>2, <3>4
    <3>6. CASE r[i].gate = gate
      <4>1. q[i].count = c + 1 /\ board'.refused[q[i].gate] = b + 1
        BY <3>1, <3>3, <3>4, <3>6
      <4> QED  BY <3>5, <4>1
    <3>7. CASE r[i].gate # gate
      <4>1. q[i].count = c /\ board'.refused[q[i].gate] = b
        BY <3>1, <3>3, <3>4, <3>7
      <4> QED  BY <3>5, <4>1
    <3> QED  BY <3>6, <3>7
  <2>5. \A i, j \in 1..Len(q) : i # j => q[i].gate # q[j].gate
    BY <1>5, <2>1
  <2>6. Cardinality(Refused') <= RefusalMax =>
           \A g \in Refused' : \E i \in 1..Len(q) : q[i].gate = g
    BY <1>5, <2>1, <2>3
  <2> QED  BY <2>4, <2>5, <2>6 DEF GoodList
<1>7. CASE ~(\E i \in 1..Len(r) : r[i].gate = gate)
  <2>0. PICK e : e = [gate |-> gate, count |-> 1]
    OBVIOUS
  <2>1. PICK p : p = Append(r, e)
    OBVIOUS
  <2>2. q = Kept(p)
    BY <1>7, <2>0, <2>1, NoteIs
  <2>3. e \in RefusalSpace /\ e.gate = gate /\ e.count = 1
    BY <2>0 DEF RefusalSpace
  <2>4. /\ p \in Seq(RefusalSpace) /\ Len(p) = Len(r) + 1
        /\ p[Len(r) + 1] = e /\ \A i \in 1..Len(r) : p[i] = r[i]
    BY <1>3, <2>1, <2>3
  <2>5. \A i \in 1..Len(p) : i \in 1..Len(r) \/ i = Len(r) + 1
    BY <1>3, <2>4
  <2>6. \A i, j \in 1..Len(p) : i # j => p[i].gate # p[j].gate
    <3> SUFFICES ASSUME NEW i \in 1..Len(p), NEW j \in 1..Len(p), i # j
                 PROVE  p[i].gate # p[j].gate
      OBVIOUS
    <3>1. CASE i \in 1..Len(r) /\ j \in 1..Len(r)
      BY <1>5, <2>4, <3>1
    <3>2. CASE i = Len(r) + 1 /\ j \in 1..Len(r)
      BY <1>7, <2>3, <2>4, <3>2
    <3>3. CASE j = Len(r) + 1 /\ i \in 1..Len(r)
      BY <1>7, <2>3, <2>4, <3>3
    <3> QED  BY <2>5, <3>1, <3>2, <3>3
  <2>7. \A i \in 1..Len(p) :
          /\ p[i].gate \in Gates /\ p[i].count \in Nat
          /\ 1 <= p[i].count /\ p[i].count <= board'.refused[p[i].gate]
    <3> SUFFICES ASSUME NEW i \in 1..Len(p)
                 PROVE  /\ p[i].gate \in Gates /\ p[i].count \in Nat
                        /\ 1 <= p[i].count /\ p[i].count <= board'.refused[p[i].gate]
      OBVIOUS
    <3>1. CASE i \in 1..Len(r)
      <4>1. p[i] = r[i] /\ r[i].gate # gate
        BY <1>7, <2>4, <3>1
      <4>2. /\ r[i].gate \in Gates /\ r[i].count \in Nat /\ 1 <= r[i].count
            /\ r[i].count <= board.refused[r[i].gate]
        BY <1>4, <1>5, <3>1
      <4>3. board'.refused[r[i].gate] = board.refused[r[i].gate]
        BY <1>1, <4>1, <4>2
      <4> QED  BY <4>1, <4>2, <4>3
    <3>2. CASE i = Len(r) + 1
      <4>1. p[i].gate = gate /\ p[i].count = 1
        BY <2>3, <2>4, <3>2
      <4>2. board'.refused[gate] = board.refused[gate] + 1 /\ board.refused[gate] \in Nat
        BY <1>1
      <4> QED  BY <4>1, <4>2
    <3> QED  BY <2>5, <3>1, <3>2
  <2>8. CASE Len(p) <= RefusalMax
    <3>1. q = p
      BY <2>2, <2>4, <2>8, <1>3 DEF Kept, ViewsAssumption
    <3>2. ASSUME Cardinality(Refused') <= RefusalMax, NEW g \in Refused'
          PROVE  \E i \in 1..Len(p) : p[i].gate = g
      <4>1. IsFiniteSet(Refused') /\ Refused \subseteq Refused'
        BY <1>2, FS_AddElement
      <4>2. Cardinality(Refused) <= Cardinality(Refused')
            /\ Cardinality(Refused) \in Nat /\ Cardinality(Refused') \in Nat
        BY <4>1, FS_Subset, FS_CardinalityType
      <4>3. Cardinality(Refused) <= RefusalMax
        BY <3>2, <4>2 DEF ViewsAssumption
      <4>4. CASE g \in Refused
        <5>1. PICK i \in 1..Len(r) : r[i].gate = g
          BY <1>5, <4>3, <4>4
        <5>2. i \in 1..Len(p) /\ p[i] = r[i]
          BY <1>3, <2>4
        <5> QED  BY <5>1, <5>2
      <4>5. CASE g = gate
        <5>1. Len(r) + 1 \in 1..Len(p)
          BY <1>3, <2>4
        <5> QED  BY <2>3, <2>4, <4>5, <5>1
      <4> QED  BY <1>2, <4>4, <4>5
    <3> QED  BY <2>6, <2>7, <3>1, <3>2 DEF GoodList
  <2>9. CASE Len(p) > RefusalMax
    <3>1. q = Tail(p)
      BY <2>2, <2>9 DEF Kept
    <3>2. Len(q) = Len(p) - 1 /\ \A i \in 1..Len(q) : q[i] = p[i + 1] /\ i + 1 \in 1..Len(p)
      BY <1>3, <2>4, <3>1
    <3>3. \A i, j \in 1..Len(q) : i # j => q[i].gate # q[j].gate
      <4> SUFFICES ASSUME NEW i \in 1..Len(q), NEW j \in 1..Len(q), i # j
                   PROVE  q[i].gate # q[j].gate
        OBVIOUS
      <4>1. /\ q[i] = p[i + 1] /\ i + 1 \in 1..Len(p)
            /\ q[j] = p[j + 1] /\ j + 1 \in 1..Len(p)
        BY <3>2
      <4>2. i + 1 # j + 1
        BY <1>3, <2>4, <3>2
      <4> QED  BY <2>6, <4>1, <4>2
    <3>4. \A i \in 1..Len(q) : 1 <= q[i].count /\ q[i].count <= board'.refused[q[i].gate]
      BY <2>7, <3>2
    <3>5. ~(Cardinality(Refused') <= RefusalMax)
      <4> DEFINE f == [i \in 1..Len(p) |-> p[i].gate]
                 listed == {f[i] : i \in 1..Len(p)}
      <4>1. Len(p) \in Nat
        BY <1>3, <2>4
      <4>2. \A i, j \in 1..Len(p) : i # j => f[i] # f[j]
        BY <2>6
      <4>3. listed \subseteq Refused'
        <5>0. \A g \in Gates : board'.refused[g] \in Nat
          BY <1>1
        <5>1. ASSUME NEW i \in 1..Len(p)
              PROVE  p[i].gate \in Gates /\ board'.refused[p[i].gate] > 0
          <6>1. p[i].gate \in Gates /\ p[i].count \in Nat
            BY <2>7
          <6>2. 1 <= p[i].count /\ p[i].count <= board'.refused[p[i].gate]
            BY <2>7
          <6>3. board'.refused[p[i].gate] \in Nat
            BY <5>0, <6>1
          <6> QED  BY <6>1, <6>2, <6>3
        <5> QED  BY <5>1 DEF Refused
      <4> HIDE DEF f
      <4>4. Cardinality(listed) = Len(p)
        BY <4>1, <4>2, ImageSize
      <4>5. IsFiniteSet(Refused')
        BY <1>2, FS_AddElement
      <4> HIDE DEF listed
      <4>6. Cardinality(listed) <= Cardinality(Refused') /\ Cardinality(Refused') \in Nat
        BY <4>3, <4>5, FS_Subset, FS_CardinalityType
      <4> QED  BY <2>9, <4>1, <4>4, <4>6 DEF ViewsAssumption
    <3> QED  BY <3>3, <3>4, <3>5 DEF GoodList
  <2>10. Len(p) \in Nat /\ RefusalMax \in Nat
    BY <1>3, <2>4 DEF ViewsAssumption
  <2> QED  BY <2>8, <2>9, <2>10
<1> QED  BY <1>6, <1>7

\* What is read next was ahead already.
LEMMA ReadsStay ==
  ASSUME ViewsTyped, Reads
  PROVE  /\ viewer = "control" =>
              Follow(Control, control', pipe') = Follow(Control, control, pipe)
         /\ viewer = "observer" =>
              Follow(Channel, observer'.chan, pipe') = Follow(Channel, observer.chan, pipe)
<1>1. /\ pipe # <<>> /\ pipe' = Tail(pipe) /\ pipe \in Seq(LineSpace)
      /\ IsDeviceState(observer)
      /\ viewer = "control" => control' = TrackDevice(control, Head(pipe))
      /\ viewer # "control" => observer' = ReadLine(observer, Head(pipe))
  BY DEF Reads, ViewsTyped
<1>2. ASSUME viewer = "control"
      PROVE  Follow(Control, control', pipe') = Follow(Control, control, pipe)
  <2>1. control' = StepOf(Control, control, Head(pipe))
    BY <1>1, <1>2, StepIsOf
  <2> QED  BY <1>1, <2>1, FollowTail
<1>3. ASSUME viewer = "observer"
      PROVE  Follow(Channel, observer'.chan, pipe') = Follow(Channel, observer.chan, pipe)
  <2>1. observer'.chan = ReadChan(observer.chan, Head(pipe))
    BY <1>1, <1>3, ReadIsDeviceState
  <2>2. observer'.chan = StepOf(Channel, observer.chan, Head(pipe))
    BY <2>1, StepIsOf
  <2> QED  BY <1>1, <2>2, FollowTail
<1> QED  BY <1>2, <1>3

\* A line that is said while the port is there is read last.
LEMMA SaysIs ==
  ASSUME ViewsTyped, NEW line \in LineSpace, Says(line), cat = "open"
  PROVE  /\ Follow(Control, control', pipe') =
              TrackDevice(Follow(Control, control, pipe), line)
         /\ Follow(Channel, observer'.chan, pipe') =
              ReadChan(Follow(Channel, observer.chan, pipe), line)
<1>1. /\ pipe' = Append(pipe, line) /\ pipe \in Seq(LineSpace)
      /\ control' = control /\ observer' = observer
  BY DEF Says, ViewsTyped
<1>2. Follow(Control, control', pipe') =
        StepOf(Control, Follow(Control, control, pipe), line)
  BY <1>1, FollowAppend
<1>3. Follow(Channel, observer'.chan, pipe') =
        StepOf(Channel, Follow(Channel, observer.chan, pipe), line)
  BY <1>1, FollowAppend
<1> QED  BY <1>2, <1>3, StepIsOf

LEMMA GrantsKeep ==
  ASSUME ViewsAssumption, ViewsTyped, IsFiniteSet(Refused), GrantsAhead, [Next]_vars
  PROVE  GrantsAhead' /\ IsFiniteSet(Refused')
<1>0. /\ board \in BoardSpace /\ viewer \in {"control", "observer"}
      /\ pipe \in Seq(LineSpace)
  BY DEF ViewsTyped
<1> DEFINE d == Follow(Control, control, pipe)
<1>1. ASSUME NEW line \in LineSpace, BoardMoves(line), Says(line)
      PROVE  GrantsAhead' /\ IsFiniteSet(Refused')
  <2>0. cat' = cat /\ viewer' = viewer
    BY <1>1 DEF Says
  <2>1. CASE line.say = "boot"
    <3>1. board' = Booted
      BY <1>1, <2>1, MovesAre
    <3>2. Refused' = {}
      BY <3>1 DEF Refused, Booted
    <3>3. IsFiniteSet(Refused')
      BY <3>2, FS_EmptySet
    <3> SUFFICES ASSUME viewer = "control", cat = "open"
                 PROVE  d' \in DeviceSpace /\ d'.grants = board'.grants /\ GoodList(d.refusals)'
      BY <2>0, <3>3 DEF GrantsAhead
    <3>4. d \in DeviceSpace
      BY DEF GrantsAhead
    <3>5. d' = TrackDevice(d, line)
      BY <1>1, SaysIs
    <3> HIDE DEF d
    <3>6. d' \in DeviceSpace
      BY <3>4, <3>5, TrackIsDevice
    <3>7. d'.grants = NewDevice.grants /\ d'.refusals = <<>>
      BY <2>1, <3>4, <3>5 DEF TrackDevice, TrackBoot, DeviceSpace
    <3>8. board'.grants = NewDevice.grants
      BY <3>1 DEF Booted, NewDevice
    <3>9. GoodList(d.refusals)'
      BY <3>2, <3>7 DEF GoodList
    <3> QED  BY <3>6, <3>7, <3>8, <3>9
  <2>2. CASE line.say = "installed"
    <3>1. board' = [board EXCEPT !.grants[line.chan] = line.edge]
      BY <1>1, <2>2 DEF BoardMoves, Installs
    <3>2. Refused' = Refused /\ board'.refused = board.refused
          /\ board'.grants = [board.grants EXCEPT ![line.chan] = line.edge]
      BY <1>0, <3>1 DEF Refused, BoardSpace
    <3>3. IsFiniteSet(Refused')
      BY <3>2
    <3> SUFFICES ASSUME viewer = "control", cat = "open"
                 PROVE  d' \in DeviceSpace /\ d'.grants = board'.grants /\ GoodList(d.refusals)'
      BY <2>0, <3>3 DEF GrantsAhead
    <3>4. d \in DeviceSpace /\ d.grants = board.grants /\ GoodList(d.refusals)
      BY DEF GrantsAhead
    <3>5. d' = TrackDevice(d, line)
      BY <1>1, SaysIs
    <3> HIDE DEF d
    <3>6. d' \in DeviceSpace
      BY <3>4, <3>5, TrackIsDevice
    <3>7. d'.grants = [d.grants EXCEPT ![line.chan] = line.edge] /\ d'.refusals = d.refusals
      BY <2>2, <3>4, <3>5 DEF TrackDevice, DeviceSpace
    <3>8. GoodList(d.refusals)'
      <4>1. PICK r : r = d.refusals
        OBVIOUS
      <4>2. GoodList(r)
        BY <3>4, <4>1
      <4>3. GoodList(r)'
        BY <3>2, <4>2 DEF GoodList
      <4>4. d'.refusals = r
        BY <3>7, <4>1
      <4> QED  BY <4>3, <4>4 DEF GoodList
    <3> QED  BY <3>2, <3>4, <3>6, <3>7, <3>8
  <2>3. CASE line.say = "refused"
    <3>1. board' = [board EXCEPT !.refused[line.gate] = @ + 1] /\ line.gate \in Gates
      BY <1>1, <2>3, LineIs DEF BoardMoves, RefusesAt
    <3>2. Refused' = Refused \cup {line.gate} /\ board'.grants = board.grants
      BY <1>0, <3>1 DEF Refused, BoardSpace
    <3>3. IsFiniteSet(Refused')
      BY <3>2, FS_AddElement
    <3> SUFFICES ASSUME viewer = "control", cat = "open"
                 PROVE  d' \in DeviceSpace /\ d'.grants = board'.grants /\ GoodList(d.refusals)'
      BY <2>0, <3>3 DEF GrantsAhead
    <3>4. d \in DeviceSpace /\ d.grants = board.grants /\ GoodList(d.refusals)
          /\ d.refusals \in Seq(RefusalSpace)
      BY DEF GrantsAhead, DeviceSpace
    <3>5. d' = TrackDevice(d, line)
      BY <1>1, SaysIs
    <3> HIDE DEF d
    <3>6. d' \in DeviceSpace
      BY <3>4, <3>5, TrackIsDevice
    <3>7. d'.grants = d.grants /\ d'.refusals = NoteRefusal(d.refusals, line.gate)
      BY <2>3, <3>4, <3>5 DEF TrackDevice, DeviceSpace
    <3>8. GoodList(d.refusals)'
      <4>0. PICK r, q : r = d.refusals /\ q = d'.refusals
        OBVIOUS
      <4>1. r = d.refusals /\ q = d'.refusals
        BY <4>0
      <4>2. GoodList(r) /\ r \in Seq(RefusalSpace) /\ q = NoteRefusal(r, line.gate)
        BY <3>4, <3>7, <4>1
      <4>3. GoodList(q)'
        BY <1>0, <3>1, <4>2, ListKeeps
      <4> QED  BY <4>1, <4>3 DEF GoodList
    <3> QED  BY <3>2, <3>4, <3>6, <3>7, <3>8
  <2>4. CASE viewer = "observer"
    <3>1. board'.refused = board.refused \/ board' = Booted
      BY <1>0, <1>1, <2>4 DEF BoardMoves, Resets, Opens, Commits, Expires, Closes, HearsPose,
                             BoardSpace
    <3>2. Refused' = Refused \/ Refused' = {}
      BY <3>1 DEF Refused, Booted
    <3> QED  BY <2>0, <2>4, <3>2, FS_EmptySet DEF GrantsAhead
  <2> QED  BY <1>0, <1>1, <2>1, <2>2, <2>3, <2>4 DEF BoardMoves
<1>2. CASE ResetsWithPort
  <2>1. board' = Booted /\ cat' = "closed"
    BY <1>2 DEF ResetsWithPort
  <2>2. Refused' = {}
    BY <2>1 DEF Refused, Booted
  <2> QED  BY <2>1, <2>2, FS_EmptySet DEF GrantsAhead
<1>3. CASE Reads
  <2>1. UNCHANGED <<viewer, board, cat>>
    BY <1>3 DEF Reads
  <2>2. viewer = "control" => d' = d
    BY <1>3, ReadsStay
  <2>3. Refused' = Refused
    BY <2>1 DEF Refused
  <2> HIDE DEF d
  <2> QED  BY <2>1, <2>2, <2>3 DEF GrantsAhead, GoodList, d
<1>4. CASE CatExits
  BY <1>4 DEF CatExits, GrantsAhead, Refused
<1>5. CASE viewer = "observer" /\ (MissesPose \/ SpeederRestarts \/ PassTime)
  <2>1. viewer' = "observer" /\ board' = board
    BY <1>5 DEF MissesPose, SpeederRestarts, PassTime
  <2>2. Refused' = Refused
    BY <2>1 DEF Refused
  <2>3. GrantsAhead'
    BY <2>1 DEF GrantsAhead
  <2> QED  BY <2>2, <2>3
<1>6. CASE UNCHANGED vars
  <2>1. UNCHANGED <<viewer, board, pipe, cat, control>>
    BY <1>6 DEF vars
  <2>2. d' = d
    BY <2>1
  <2>3. Refused' = Refused
    BY <2>1 DEF Refused
  <2> HIDE DEF d
  <2>4. GoodList(d.refusals)' <=> GoodList(d.refusals)
    BY <2>1, <2>2, <2>3 DEF GoodList
  <2>5. GrantsAhead'
    BY <2>1, <2>2, <2>4 DEF GrantsAhead, d
  <2> QED  BY <2>3, <2>5
<1> QED  BY <1>1, <1>2, <1>3, <1>4, <1>5, <1>6, BoardSays DEF Next

-----------------------------------------------------------------------------
(* The channel *)

ViewOf(chan) == [NewDeviceState.chan EXCEPT
                   !.state = IF chan.state = "EXPIRED" THEN "EXPIRED" ELSE "OPEN"]

\* What the observer is going to have read of the channel.
ChannelAhead ==
  viewer = "observer" /\ cat = "open" /\ board.chan.state # "CLOSED" =>
    Follow(Channel, observer.chan, pipe) = ViewOf(board.chan)

\* The commitments of the model last until 1.
LastsUntilOne == board.chan.state = "ACTIVE" => board.chan.expiry = 1

LEMMA ChannelKeeps ==
  ASSUME ViewsAssumption, ViewsTyped, LastsUntilOne, ChannelAhead, [Next]_vars
  PROVE  LastsUntilOne' /\ ChannelAhead'
<1> DEFINE c == Follow(Channel, observer.chan, pipe)
<1>0. board.chan \in Channels({NoId}, Nat, Nat, Nat)
  BY DEF ViewsTyped, BoardSpace
<1>a. /\ \A chan : chan.state = "EXPIRED" => ViewOf(chan) = ApplyExpired(NewDeviceState.chan)
      /\ \A chan : chan.state # "EXPIRED" => ViewOf(chan) = [state |-> "OPEN", seq |-> 0, share |-> 0]
      /\ ApplyExpired([state |-> "OPEN", seq |-> 0, share |-> 0]) = ApplyExpired(NewDeviceState.chan)
  BY DEF ViewOf, ApplyExpired, NewDeviceState
<1>1. ASSUME NEW line \in LineSpace, BoardMoves(line), Says(line)
      PROVE  LastsUntilOne' /\ ChannelAhead'
  <2>0. cat' = cat /\ viewer' = viewer
    BY <1>1 DEF Says
  <2>1. CASE line.say = "boot"
    <3>1. board'.chan.state = "CLOSED"
      BY <1>1, <2>1, MovesAre DEF Booted, ChannelInit
    <3> QED  BY <3>1 DEF LastsUntilOne, ChannelAhead
  <2>2. CASE line.say \in {"installed", "refused", "pose"}
    <3>1. board'.chan = board.chan
      BY <1>1, <2>2, MovesAre
    <3>3. cat = "open" => Follow(Channel, observer'.chan, pipe') = c
      BY <1>1, <2>2, SaysIs DEF ReadChan
    <3> HIDE DEF c
    <3> QED  BY <2>0, <3>1, <3>3 DEF LastsUntilOne, ChannelAhead, c
  <2>3. CASE line.say = "open"
    <3>1. board'.chan.state = "OPEN"
      BY <1>1, <2>3, MovesAre
    <3>2. cat = "open" => Follow(Channel, observer'.chan, pipe') =
                            [state |-> "OPEN", seq |-> 0, share |-> 0]
      BY <1>1, <2>3, SaysIs DEF ReadChan
    <3> QED  BY <1>a, <2>0, <3>1, <3>2 DEF LastsUntilOne, ChannelAhead
  <2>4. CASE line.say = "commit"
    <3>1. /\ board.chan.state \in {"OPEN", "ACTIVE"}
          /\ board'.chan.state = "ACTIVE" /\ board'.chan.expiry = 1
      BY <1>1, <2>4, MovesAre
    <3>2. cat = "open" => Follow(Channel, observer'.chan, pipe') = c
      BY <1>1, <2>4, SaysIs DEF ReadChan
    <3>3. ViewOf(board'.chan) = ViewOf(board.chan)
      BY <1>a, <3>1
    <3> HIDE DEF c
    <3> QED  BY <2>0, <3>1, <3>2, <3>3 DEF LastsUntilOne, ChannelAhead, c
  <2>5. CASE line.say = "expired"
    <3>1. board.chan.state = "ACTIVE" /\ board'.chan = TickExpiry(board.chan, 2)
          /\ viewer = "observer"
      BY <1>1, <2>5, MovesAre
    <3>2. board'.chan = [board.chan EXCEPT !.state = "EXPIRED"]
      BY <3>1 DEF LastsUntilOne, TickExpiry
    <3>3. board'.chan.state = "EXPIRED"
      BY <1>0, <3>2 DEF Channels
    <3>4. cat = "open" => c = ViewOf(board.chan)
      BY <3>1 DEF ChannelAhead
    <3>5. cat = "open" => Follow(Channel, observer'.chan, pipe') = ApplyExpired(c)
      BY <1>1, <2>5, SaysIs DEF ReadChan
    <3> HIDE DEF c
    <3>6. cat = "open" => ApplyExpired(c) = ViewOf(board'.chan)
      BY <1>a, <3>1, <3>3, <3>4
    <3> QED  BY <2>0, <3>3, <3>5, <3>6 DEF LastsUntilOne, ChannelAhead
  <2>6. CASE line.say = "closed"
    <3>1. board'.chan.state = "CLOSED"
      BY <1>1, <2>6, MovesAre
    <3> QED  BY <3>1 DEF LastsUntilOne, ChannelAhead
  <2> QED  BY <1>1, <2>1, <2>2, <2>3, <2>4, <2>5, <2>6 DEF BoardMoves
<1>2. CASE ResetsWithPort
  <2>1. board'.chan.state = "CLOSED"
    BY <1>2 DEF ResetsWithPort, Booted, ChannelInit
  <2> QED  BY <2>1 DEF LastsUntilOne, ChannelAhead
<1>3. CASE Reads
  <2>1. UNCHANGED <<viewer, board, cat>>
    BY <1>3 DEF Reads
  <2>2. viewer = "observer" => Follow(Channel, observer'.chan, pipe') = c
    BY <1>3, ReadsStay
  <2> HIDE DEF c
  <2> QED  BY <2>1, <2>2 DEF LastsUntilOne, ChannelAhead, c
<1>4. CASE CatExits
  BY <1>4 DEF CatExits, LastsUntilOne, ChannelAhead
<1>5. CASE MissesPose \/ SpeederRestarts \/ PassTime
  BY <1>5 DEF MissesPose, SpeederRestarts, PassTime, LastsUntilOne, ChannelAhead
<1>6. CASE UNCHANGED vars
  BY <1>6 DEF vars, LastsUntilOne, ChannelAhead
<1> QED  BY <1>1, <1>2, <1>3, <1>4, <1>5, <1>6, BoardSays DEF Next

\* The observer's view has the channel that its lines about the channel make.
LEMMA ChannelOfView ==
  ASSUME NEW d, IsDeviceState(d), NEW S, NEW s \in Seq(S)
  PROVE  FoldLeft(ReadLine, d, s).chan = Follow(Channel, d.chan, s)
<1> DEFINE n == Len(s)
<1>0. n \in Nat
  OBVIOUS
<1>1. PICK f : Views(f, Observer(clock), d, s) /\ Follow(Observer(clock), d, s) = f[n]
  BY FollowIs
<1>2. f[0] = d /\ \A k \in 1..n : f[k] = ReadLine(f[k - 1], s[k])
  BY <1>1, StepIsOf DEF Views
<1> DEFINE T == {k \in Nat : k <= n => IsDeviceState(f[k])}
<1>3. 0 \in T
  BY <1>2
<1>4. ASSUME NEW k \in Nat, k \in T  PROVE k + 1 \in T
  <2> SUFFICES ASSUME k + 1 <= n  PROVE IsDeviceState(f[k + 1])
    OBVIOUS
  <2>1. IsDeviceState(f[k]) /\ k + 1 \in 1..n /\ (k + 1) - 1 = k
    BY <1>0, <1>4
  <2>2. f[k + 1] = ReadLine(f[k], s[k + 1])
    BY <1>2, <2>1
  <2>3. IsDeviceState(ReadLine(f[k], s[k + 1]))
    BY <2>1, ReadIsDeviceState
  <2> QED  BY <2>2, <2>3
<1> HIDE DEF T
<1>5. \A k \in 0..n : IsDeviceState(f[k])
  <2>1. Nat \subseteq T
    BY <1>3, <1>4, SetInduction
  <2> QED  BY <1>0, <2>1 DEF T
<1> DEFINE h == [k \in 0..n |-> f[k].chan]
<1>6. Views(h, Channel, d.chan, s)
  <2>1. h[0] = d.chan
    BY <1>0, <1>2
  <2>2. ASSUME NEW k \in 1..n  PROVE h[k] = StepOf(Channel, h[k - 1], s[k])
    <3>1. k - 1 \in 0..n /\ k \in 0..n
      BY <1>0
    <3>2. h[k] = f[k].chan /\ h[k - 1] = f[k - 1].chan
      BY <3>1
    <3>3. f[k].chan = ReadChan(f[k - 1].chan, s[k])
      <4>1. f[k] = ReadLine(f[k - 1], s[k]) /\ IsDeviceState(f[k - 1])
        BY <1>2, <1>5, <3>1
      <4>2. ReadLine(f[k - 1], s[k]).chan = ReadChan(f[k - 1].chan, s[k])
        BY <4>1, ReadIsDeviceState
      <4> QED  BY <4>1, <4>2
    <3> QED  BY <3>2, <3>3, StepIsOf
  <2> HIDE DEF h
  <2> QED  BY <2>1, <2>2 DEF Views
<1>7. h[n] = f[n].chan
  BY <1>0
<1> HIDE DEF h
<1>8. h[n] = Follow(Channel, d.chan, s)
  <2>1. PICK g : Views(g, Channel, d.chan, s) /\ Follow(Channel, d.chan, s) = g[n]
    BY FollowIs
  <2> QED  BY <1>0, <1>6, <2>1, ViewsAgree
<1> QED  BY <1>1, <1>7, <1>8, FoldIsFollow

-----------------------------------------------------------------------------
(* The poses of the speeder *)

ArrivalSpace == [seq : Nat, at : Nat, life : Nat]

\* A pose of the speeder's present life that arrived, or is on its way.
Here(i) == observer.arrivals[i].life = air.life
OnItsWay(j) == pipe[j].say = "pose" /\ pipe[j].life = air.life
Arrived(s) == \E i \in 1..Len(observer.arrivals) : Here(i) /\ observer.arrivals[i].seq = s
Coming(s) == \E j \in 1..Len(pipe) : OnItsWay(j) /\ pipe[j].seq = s
Streams(s) == Arrived(s) \/ Coming(s)

\* Nothing is from a life to come.
OldLives ==
  /\ \A i \in 1..Len(observer.arrivals) : observer.arrivals[i].life <= air.life
  /\ \A j \in 1..Len(pipe) : pipe[j].say = "pose" => pipe[j].life <= air.life

\* Poses of one life arrive in their order.
InOrder ==
  /\ \A i, k \in 1..Len(observer.arrivals) :
       i < k /\ Here(i) /\ Here(k) => observer.arrivals[i].seq < observer.arrivals[k].seq
  /\ \A i \in 1..Len(observer.arrivals) : \A j \in 1..Len(pipe) :
       Here(i) /\ OnItsWay(j) => observer.arrivals[i].seq < pipe[j].seq
  /\ \A j, k \in 1..Len(pipe) :
       j < k /\ OnItsWay(j) /\ OnItsWay(k) => pipe[j].seq < pipe[k].seq

\* Between two poses of the stream, and after one while the port is there, each was
\* missed or is of the stream.
NoneUnseen ==
  /\ \A s \in air.missed : s < air.seq
  /\ \A s \in Nat : Streams(s) => s < air.seq /\ s \notin air.missed
  /\ \A x, y, s \in Nat : Streams(x) /\ Streams(y) /\ x < s /\ s < y =>
       Streams(s) \/ s \in air.missed
  /\ cat = "open" => \A x, s \in Nat : Streams(x) /\ x < s /\ s < air.seq =>
                       Streams(s) \/ s \in air.missed

StreamInv ==
  /\ observer.arrivals \in Seq(ArrivalSpace)
  /\ viewer = "control" => observer.arrivals = <<>>
  /\ viewer = "observer" => OldLives /\ InOrder /\ NoneUnseen

\* What leaves the window leaves from the front, and the newest stays.
LEMMA PushIs ==
  ASSUME ViewsAssumption, NEW a \in Seq(ArrivalSpace), NEW e \in ArrivalSpace
  PROVE  /\ Push(a, e) \in Seq(ArrivalSpace)
         /\ \E m \in 1..(Len(a) + 1) :
              /\ Len(Push(a, e)) = Len(a) + 2 - m
              /\ \A i \in 1..(Len(a) + 2 - m) : Push(a, e)[i] = Append(a, e)[i + m - 1]
<1>0. PICK all : all = Append(a, e)
  OBVIOUS
<1>1. /\ all \in Seq(ArrivalSpace) /\ Len(all) = Len(a) + 1 /\ Len(a) \in Nat
      /\ all[Len(a) + 1] = e
  BY <1>0
<1> DEFINE recent == {i \in 1..Len(all) : all[i].at >= e.at - Window}
<1>2. Push(a, e) = SubSeq(all, Min(recent), Len(all))
  <2>1. DOMAIN all = 1..Len(all)
    BY <1>1
  <2> QED  BY <1>0, <2>1 DEF Push
<1>3. Len(a) + 1 \in recent
  <2>1. e.at \in Nat /\ Window \in Nat
    BY DEF ArrivalSpace, ViewsAssumption
  <2>2. e.at >= e.at - Window
    BY <2>1
  <2> QED  BY <1>1, <2>2
<1>4. recent \subseteq Nat /\ recent \subseteq 1..(Len(a) + 1)
  BY <1>1
<1> HIDE DEF recent
<1>5. \E x \in recent : \A y \in recent : x <= y
  BY <1>3, <1>4, LeastExists
<1>6. PICK m \in 1..(Len(a) + 1) : m = Min(recent)
  <2>1. Min(recent) \in recent
    BY <1>5 DEF Min
  <2> QED  BY <1>4, <2>1
<1>7. Push(a, e) = SubSeq(all, m, Len(all))
  BY <1>2, <1>6
<1>8. /\ SubSeq(all, m, Len(all)) \in Seq(ArrivalSpace)
      /\ Len(SubSeq(all, m, Len(all))) = Len(a) + 2 - m
      /\ \A i \in 1..(Len(a) + 2 - m) : SubSeq(all, m, Len(all))[i] = all[i + m - 1]
  <2>1. m \in 1..(Len(all) + 1) /\ Len(all) \in (m - 1)..Len(all) /\ m \in 1..Len(all)
    BY <1>1
  <2>2. Len(all) - m + 1 = Len(a) + 2 - m
    BY <1>1
  <2>3. /\ SubSeq(all, m, Len(all)) \in Seq(ArrivalSpace)
        /\ Len(SubSeq(all, m, Len(all))) = Len(all) - m + 1
        /\ \A i \in 1..(Len(all) - m + 1) : SubSeq(all, m, Len(all))[i] = all[m + i - 1]
    BY <1>1, <2>1, SubSeqProperties
  <2>4. \A i \in Nat : m + i - 1 = i + m - 1
    OBVIOUS
  <2> QED  BY <2>2, <2>3, <2>4
<1> QED  BY <1>0, <1>7, <1>8

\* The poses that leave the stream come before those that stay.
LEMMA FewerUnseen ==
  ASSUME NoneUnseen, air' = air, cat' = cat,
         \A s \in Nat : Streams(s)' => Streams(s),
         \A x, s \in Nat : Streams(x)' /\ Streams(s) /\ x < s => Streams(s)'
  PROVE  NoneUnseen'
<1>1. /\ \A s \in air.missed : s < air.seq
      /\ \A s \in Nat : Streams(s) => s < air.seq /\ s \notin air.missed
      /\ \A x, y, s \in Nat : Streams(x) /\ Streams(y) /\ x < s /\ s < y =>
           Streams(s) \/ s \in air.missed
      /\ cat = "open" => \A x, s \in Nat : Streams(x) /\ x < s /\ s < air.seq =>
                           Streams(s) \/ s \in air.missed
  BY DEF NoneUnseen
<1>2. /\ \A s \in air'.missed : s < air'.seq
      /\ \A s \in Nat : Streams(s)' => s < air'.seq /\ s \notin air'.missed
  BY <1>1
<1>3. \A x, y, s \in Nat : Streams(x)' /\ Streams(y)' /\ x < s /\ s < y =>
        Streams(s)' \/ s \in air'.missed
  BY <1>1
<1>4. cat' = "open" => \A x, s \in Nat : Streams(x)' /\ x < s /\ s < air'.seq =>
                         Streams(s)' \/ s \in air'.missed
  BY <1>1
<1> QED  BY <1>2, <1>3, <1>4 DEF NoneUnseen

\* A line more, and what it says of the stream.
LEMMA StreamSays ==
  ASSUME ViewsTyped, observer.arrivals \in Seq(ArrivalSpace), NEW line \in LineSpace,
         pipe' = Append(pipe, line), observer' = observer,
         air'.life = air.life
  PROVE  /\ OldLives /\ (line.say = "pose" => line.life = air.life) => OldLives'
         /\ InOrder /\ (line.say = "pose" => \A s \in Nat : Streams(s) => s < line.seq) => InOrder'
         /\ \A s : Streams(s)' <=>
              Streams(s) \/ (line.say = "pose" /\ line.life = air.life /\ line.seq = s)
<1>0. PICK n : n = Len(pipe)
  OBVIOUS
<1>1. /\ pipe \in Seq(LineSpace) /\ n = Len(pipe) /\ n \in Nat /\ Len(pipe') = n + 1
      /\ pipe'[n + 1] = line /\ \A j \in 1..n : pipe'[j] = pipe[j]
  BY <1>0 DEF ViewsTyped
<1>2. \A j : j \in 1..Len(pipe') <=> j \in 1..n \/ j = n + 1
  BY <1>1
<1>3. \A i : Here(i)' <=> Here(i)
  BY DEF Here
<1>4. \A j \in 1..n : OnItsWay(j)' <=> OnItsWay(j)
  BY <1>1 DEF OnItsWay
<1>5. OnItsWay(n + 1)' <=> line.say = "pose" /\ line.life = air.life
  BY <1>1 DEF OnItsWay
<1>6. ASSUME OldLives, line.say = "pose" => line.life = air.life
      PROVE  OldLives'
  <2>1. \A j \in 1..n : pipe'[j].say = "pose" => pipe'[j].life <= air'.life
    BY <1>1, <1>6 DEF OldLives
  <2>2. line.say = "pose" => line.life <= air'.life
    <3>1. air.life \in Nat
      BY DEF ViewsTyped
    <3> QED  BY <1>6, <3>1
  <2> QED  BY <1>1, <1>2, <1>6, <2>1, <2>2 DEF OldLives
<1>7. \A s : Coming(s)' <=>
        Coming(s) \/ (line.say = "pose" /\ line.life = air.life /\ line.seq = s)
  <2> TAKE s
  <2>1. Coming(s)' <=> \/ \E j \in 1..n : OnItsWay(j)' /\ pipe'[j].seq = s
                       \/ OnItsWay(n + 1)' /\ pipe'[n + 1].seq = s
    BY <1>2 DEF Coming
  <2>2. (\E j \in 1..n : OnItsWay(j)' /\ pipe'[j].seq = s) <=> Coming(s)
    BY <1>1, <1>4 DEF Coming
  <2> QED  BY <1>1, <1>5, <2>1, <2>2
<1>8. \A s : Arrived(s)' <=> Arrived(s)
  BY <1>3 DEF Arrived
<1>9. ASSUME InOrder, line.say = "pose" => \A s \in Nat : Streams(s) => s < line.seq
      PROVE  InOrder'
  <2>0. ASSUME NEW j \in 1..n, OnItsWay(j)  PROVE pipe[j].seq \in Nat /\ Streams(pipe[j].seq)
    <3>1. pipe[j] \in LineSpace
      BY <1>1
    <3> QED  BY <1>1, <2>0, <3>1, LineIs DEF OnItsWay, Streams, Coming
  <2>1. ASSUME NEW i \in 1..Len(observer.arrivals), Here(i)
        PROVE  observer.arrivals[i].seq \in Nat /\ Streams(observer.arrivals[i].seq)
    <3>1. observer.arrivals[i] \in ArrivalSpace
      OBVIOUS
    <3> QED  BY <2>1, <3>1 DEF ArrivalSpace, Streams, Arrived
  <2>2. ASSUME NEW i \in 1..Len(observer.arrivals), NEW j \in 1..Len(pipe'),
               Here(i), OnItsWay(j)'
        PROVE  observer.arrivals[i].seq < pipe'[j].seq
    <3>1. CASE j \in 1..n
      BY <1>1, <1>4, <1>9, <2>2, <3>1 DEF InOrder
    <3>2. CASE j = n + 1
      <4>1. line.say = "pose" /\ pipe'[j] = line
        BY <1>1, <1>5, <2>2, <3>2
      <4> QED  BY <1>9, <2>1, <2>2, <4>1
    <3> QED  BY <1>2, <3>1, <3>2
  <2>3. ASSUME NEW j \in 1..Len(pipe'), NEW k \in 1..Len(pipe'), j < k,
               OnItsWay(j)', OnItsWay(k)'
        PROVE  pipe'[j].seq < pipe'[k].seq
    <3>0. j \in 1..n
      BY <1>1, <2>3
    <3>1. CASE k \in 1..n
      BY <1>1, <1>4, <1>9, <2>3, <3>0, <3>1 DEF InOrder
    <3>2. CASE k = n + 1
      <4>1. line.say = "pose" /\ pipe'[k] = line
        BY <1>1, <1>5, <2>3, <3>2
      <4>2. pipe'[j] = pipe[j] /\ OnItsWay(j)
        BY <1>1, <1>4, <2>3, <3>0
      <4>3. pipe[j].seq \in Nat /\ Streams(pipe[j].seq)
        BY <2>0, <3>0, <4>2
      <4> QED  BY <1>9, <4>1, <4>2, <4>3
    <3> QED  BY <1>2, <3>1, <3>2
  <2>4. \A i, k \in 1..Len(observer'.arrivals) :
          i < k /\ Here(i)' /\ Here(k)' => observer'.arrivals[i].seq < observer'.arrivals[k].seq
    BY <1>3, <1>9 DEF InOrder
  <2> QED  BY <1>3, <2>2, <2>3, <2>4 DEF InOrder
<1> QED  BY <1>6, <1>7, <1>8, <1>9 DEF Streams

\* The next line is read, and is not a pose.
LEMMA OtherReadKeeps ==
  ASSUME ViewsTyped, observer.arrivals \in Seq(ArrivalSpace), OldLives, InOrder, NoneUnseen,
         pipe # <<>>, pipe' = Tail(pipe), pipe[1].say # "pose",
         observer'.arrivals = observer.arrivals, air' = air, cat' = cat
  PROVE  OldLives' /\ InOrder' /\ NoneUnseen'
<1>0. PICK n : n = Len(pipe)
  OBVIOUS
<1>1. /\ n \in Nat \ {0} /\ Len(pipe) = n /\ Len(pipe') = n - 1
      /\ \A j \in 1..(n - 1) : pipe'[j] = pipe[j + 1] /\ j + 1 \in 1..n
  BY <1>0 DEF ViewsTyped
<1>2. \A i : Here(i)' <=> Here(i)
  BY DEF Here
<1>3. \A j \in 1..(n - 1) : OnItsWay(j)' <=> OnItsWay(j + 1)
  BY <1>1 DEF OnItsWay
<1>4. \A s : Streams(s)' <=> Streams(s)
  <2> TAKE s
  <2>1. Arrived(s)' <=> Arrived(s)
    BY <1>2 DEF Arrived
  <2>2. ASSUME Coming(s)'  PROVE Coming(s)
    <3>1. PICK j \in 1..(n - 1) : OnItsWay(j)' /\ pipe'[j].seq = s
      BY <1>1, <2>2 DEF Coming
    <3>2. j + 1 \in 1..Len(pipe) /\ OnItsWay(j + 1) /\ pipe[j + 1].seq = s
      BY <1>1, <1>3, <3>1
    <3> QED  BY <3>2 DEF Coming
  <2>3. ASSUME Coming(s)  PROVE Coming(s)'
    <3>1. PICK j \in 1..n : OnItsWay(j) /\ pipe[j].seq = s
      BY <1>1, <2>3 DEF Coming
    <3>2. PICK k \in 1..(n - 1) : j = k + 1
      <4>1. j # 1
        BY <3>1 DEF OnItsWay
      <4>2. j - 1 \in 1..(n - 1) /\ j = (j - 1) + 1
        BY <1>1, <4>1
      <4> QED  BY <4>2
    <3>3. OnItsWay(k)' /\ pipe'[k].seq = s
      BY <1>1, <1>3, <3>1, <3>2
    <3> QED  BY <1>1, <3>3 DEF Coming
  <2> QED  BY <2>1, <2>2, <2>3 DEF Streams
<1>5. NoneUnseen'
  BY <1>4, FewerUnseen
<1>6. OldLives'
  BY <1>1 DEF OldLives
<1>7. InOrder'
  <2>1. /\ \A i, k \in 1..Len(observer'.arrivals) :
             i < k /\ Here(i)' /\ Here(k)' => observer'.arrivals[i].seq < observer'.arrivals[k].seq
    BY <1>2 DEF InOrder
  <2>2. \A i \in 1..Len(observer'.arrivals) : \A j \in 1..(n - 1) :
          Here(i)' /\ OnItsWay(j)' => observer'.arrivals[i].seq < pipe'[j].seq
    BY <1>1, <1>2, <1>3 DEF InOrder
  <2>3. ASSUME NEW j \in 1..(n - 1), NEW k \in 1..(n - 1), j < k, OnItsWay(j)', OnItsWay(k)'
        PROVE  pipe'[j].seq < pipe'[k].seq
    <3>1. j + 1 \in 1..Len(pipe) /\ k + 1 \in 1..Len(pipe) /\ j + 1 < k + 1
      BY <1>1, <2>3
    <3>2. OnItsWay(j + 1) /\ OnItsWay(k + 1)
      BY <1>3, <2>3
    <3>3. pipe[j + 1].seq < pipe[k + 1].seq
      BY <3>1, <3>2 DEF InOrder
    <3> QED  BY <1>1, <3>3
  <2> QED  BY <1>1, <2>1, <2>2, <2>3 DEF InOrder
<1> QED  BY <1>5, <1>6, <1>7

\* Where what is left of a sequence was in it.
LEMMA Ends ==
  ASSUME NEW n \in Nat, NEW m \in 1..(n + 1)
  PROVE  \A i \in 1..(n + 2 - m) : i + m - 1 \in m..(n + 1) /\ i + m - 1 \in 1..(n + 1)
OBVIOUS

\* The next line is read, and is a pose: it is the last to arrive, and some leave the
\* window.
LEMMA PoseReadKeeps ==
  ASSUME ViewsAssumption, ViewsTyped, observer.arrivals \in Seq(ArrivalSpace),
         OldLives, InOrder, NoneUnseen,
         pipe # <<>>, pipe' = Tail(pipe), pipe[1].say = "pose", air' = air, cat' = cat,
         observer'.arrivals =
           Push(observer.arrivals, [seq |-> pipe[1].seq, at |-> clock, life |-> pipe[1].life])
  PROVE  /\ observer'.arrivals \in Seq(ArrivalSpace)
         /\ OldLives' /\ InOrder' /\ NoneUnseen'
<1>0. PICK n, p, a, e : /\ n = Len(observer.arrivals) /\ p = Len(pipe) /\ a = observer.arrivals
                        /\ e = [seq |-> pipe[1].seq, at |-> clock, life |-> pipe[1].life]
  OBVIOUS
<1>1. /\ p \in Nat \ {0} /\ Len(pipe) = p /\ Len(pipe') = p - 1 /\ 1 \in 1..p
      /\ \A j \in 1..(p - 1) : pipe'[j] = pipe[j + 1] /\ j + 1 \in 1..p /\ 1 < j + 1
  BY <1>0 DEF ViewsTyped
<1>2. e \in ArrivalSpace /\ e.seq = pipe[1].seq /\ e.life = pipe[1].life
  <2>1. pipe[1] \in LineSpace /\ clock \in Nat
    BY <1>0, <1>1 DEF ViewsTyped
  <2> QED  BY <1>0, <2>1, LineIs DEF ArrivalSpace
<1>3. PICK all : all = Append(a, e)
  OBVIOUS
<1>4. /\ n \in Nat /\ a \in Seq(ArrivalSpace) /\ Len(a) = n
      /\ all[n + 1] = e /\ \A i \in 1..n : all[i] = a[i]
      /\ \A i \in 1..(n + 1) : i \in 1..n \/ i = n + 1
  BY <1>0, <1>2, <1>3
<1>5. observer'.arrivals \in Seq(ArrivalSpace)
  BY <1>0, <1>2, <1>4, PushIs
<1>6. PICK m \in 1..(n + 1) :
        /\ Len(observer'.arrivals) = n + 2 - m
        /\ \A i \in 1..(n + 2 - m) : observer'.arrivals[i] = all[i + m - 1]
  <2>1. observer'.arrivals = Push(a, e)
    BY <1>0
  <2>2. PICK m \in 1..(n + 1) :
          /\ Len(Push(a, e)) = n + 2 - m
          /\ \A i \in 1..(n + 2 - m) : Push(a, e)[i] = Append(a, e)[i + m - 1]
    BY <1>2, <1>4, PushIs
  <2> QED  BY <1>3, <2>1, <2>2
<1>7. \A i \in 1..(n + 2 - m) : i + m - 1 \in m..(n + 1) /\ i + m - 1 \in 1..(n + 1)
  <2>1. n \in Nat /\ m \in 1..(n + 1)
    BY <1>4
  <2> QED  BY <2>1, Ends
<1> DEFINE here(i) == all[i].life = air.life
<1>8. /\ \A i \in 1..n : here(i) <=> Here(i)
      /\ here(n + 1) <=> OnItsWay(1)
      /\ \A i \in 1..(n + 2 - m) : Here(i)' <=> here(i + m - 1)
  BY <1>0, <1>2, <1>4, <1>6 DEF Here, OnItsWay
<1> HIDE DEF here
<1>9. \A j \in 1..(p - 1) : OnItsWay(j)' <=> OnItsWay(j + 1)
  BY <1>1 DEF OnItsWay
<1>10. \A i, k \in 1..(n + 1) : i < k /\ here(i) /\ here(k) => all[i].seq < all[k].seq
  <2> SUFFICES ASSUME NEW i \in 1..(n + 1), NEW k \in 1..(n + 1), i < k, here(i), here(k)
               PROVE  all[i].seq < all[k].seq
    OBVIOUS
  <2>1. i \in 1..n
    BY <1>4
  <2>2. CASE k \in 1..n
    BY <1>0, <1>4, <1>8, <2>1, <2>2 DEF InOrder
  <2>3. CASE k = n + 1
    <3>1. Here(i) /\ OnItsWay(1) /\ all[k].seq = pipe[1].seq /\ all[i] = observer.arrivals[i]
      BY <1>0, <1>2, <1>4, <1>8, <2>1, <2>3
    <3> QED  BY <1>0, <1>1, <2>1, <3>1 DEF InOrder
  <2> QED  BY <1>4, <2>2, <2>3
<1>11. \A i \in 1..(n + 1) : \A j \in 1..(p - 1) :
         here(i) /\ OnItsWay(j + 1) => all[i].seq < pipe[j + 1].seq
  <2> SUFFICES ASSUME NEW i \in 1..(n + 1), NEW j \in 1..(p - 1), here(i), OnItsWay(j + 1)
               PROVE  all[i].seq < pipe[j + 1].seq
    OBVIOUS
  <2>1. j + 1 \in 1..Len(pipe) /\ 1 \in 1..Len(pipe) /\ 1 < j + 1
    BY <1>1
  <2>2. CASE i \in 1..n
    BY <1>0, <1>4, <1>8, <2>1, <2>2 DEF InOrder
  <2>3. CASE i = n + 1
    <3>1. OnItsWay(1) /\ all[i].seq = pipe[1].seq
      BY <1>2, <1>4, <1>8, <2>3
    <3> QED  BY <2>1, <3>1 DEF InOrder
  <2> QED  BY <1>4, <2>2, <2>3
<1>12. OldLives'
  <2>1. ASSUME NEW i \in 1..(n + 1)  PROVE all[i].life <= air.life
    <3>1. CASE i \in 1..n
      BY <1>0, <1>4, <3>1 DEF OldLives
    <3>2. CASE i = n + 1
      BY <1>1, <1>2, <1>4, <3>2 DEF OldLives
    <3> QED  BY <1>4, <3>1, <3>2
  <2>2. \A i \in 1..(n + 2 - m) : observer'.arrivals[i].life <= air'.life
    BY <1>6, <1>7, <2>1
  <2>3. \A j \in 1..(p - 1) : pipe'[j].say = "pose" => pipe'[j].life <= air'.life
    BY <1>1 DEF OldLives
  <2> QED  BY <1>1, <1>6, <2>2, <2>3 DEF OldLives
<1>13. InOrder'
  <2>1. ASSUME NEW i \in 1..(n + 2 - m), NEW k \in 1..(n + 2 - m), i < k, Here(i)', Here(k)'
        PROVE  observer'.arrivals[i].seq < observer'.arrivals[k].seq
    <3>1. i + m - 1 < k + m - 1
      BY <1>4, <2>1
    <3>2. all[i + m - 1].seq < all[k + m - 1].seq
      BY <1>7, <1>8, <1>10, <2>1, <3>1
    <3> QED  BY <1>6, <3>2
  <2>2. ASSUME NEW i \in 1..(n + 2 - m), NEW j \in 1..(p - 1), Here(i)', OnItsWay(j)'
        PROVE  observer'.arrivals[i].seq < pipe'[j].seq
    <3>1. all[i + m - 1].seq < pipe[j + 1].seq
      BY <1>7, <1>8, <1>9, <1>11, <2>2
    <3> QED  BY <1>1, <1>6, <3>1
  <2>3. ASSUME NEW j \in 1..(p - 1), NEW k \in 1..(p - 1), j < k, OnItsWay(j)', OnItsWay(k)'
        PROVE  pipe'[j].seq < pipe'[k].seq
    <3>1. j + 1 \in 1..Len(pipe) /\ k + 1 \in 1..Len(pipe) /\ j + 1 < k + 1
      BY <1>1, <2>3
    <3>2. pipe[j + 1].seq < pipe[k + 1].seq
      BY <1>9, <2>3, <3>1 DEF InOrder
    <3> QED  BY <1>1, <3>2
  <2> QED  BY <1>1, <1>6, <2>1, <2>2, <2>3 DEF InOrder
<1>14. \A s : Streams(s)' <=> \/ \E i \in m..(n + 1) : here(i) /\ all[i].seq = s
                              \/ \E j \in 1..(p - 1) : OnItsWay(j + 1) /\ pipe[j + 1].seq = s
  <2> TAKE s
  <2>1. Coming(s)' <=> \E j \in 1..(p - 1) : OnItsWay(j + 1) /\ pipe[j + 1].seq = s
    <3>1. Coming(s)' <=> \E j \in 1..(p - 1) : OnItsWay(j)' /\ pipe'[j].seq = s
      BY <1>1 DEF Coming
    <3> QED  BY <1>1, <1>9, <3>1
  <2>2. ASSUME Arrived(s)'  PROVE \E i \in m..(n + 1) : here(i) /\ all[i].seq = s
    <3>1. PICK i \in 1..(n + 2 - m) : Here(i)' /\ observer'.arrivals[i].seq = s
      BY <1>6, <2>2 DEF Arrived
    <3>2. i + m - 1 \in m..(n + 1)
      BY <1>7
    <3> QED  BY <1>6, <1>8, <3>1, <3>2
  <2>3. ASSUME NEW i \in m..(n + 1), here(i), all[i].seq = s  PROVE Arrived(s)'
    <3>1. PICK k \in 1..(n + 2 - m) : k + m - 1 = i
      <4>1. i - m + 1 \in 1..(n + 2 - m) /\ (i - m + 1) + m - 1 = i
        BY <1>4
      <4> QED  BY <4>1
    <3>2. Here(k)' /\ observer'.arrivals[k].seq = s
      BY <1>6, <1>8, <2>3, <3>1
    <3> QED  BY <1>6, <3>2 DEF Arrived
  <2> QED  BY <2>1, <2>2, <2>3 DEF Streams
<1>15. \A s : Streams(s) <=> \/ \E i \in 1..(n + 1) : here(i) /\ all[i].seq = s
                             \/ \E j \in 1..(p - 1) : OnItsWay(j + 1) /\ pipe[j + 1].seq = s
  <2> TAKE s
  <2>1. Arrived(s) <=> \E i \in 1..n : here(i) /\ all[i].seq = s
    BY <1>0, <1>4, <1>8 DEF Arrived
  <2>2. here(n + 1) /\ all[n + 1].seq = s <=> OnItsWay(1) /\ pipe[1].seq = s
    BY <1>2, <1>4, <1>8
  <2>3. \A j \in 1..p : j = 1 \/ \E k \in 1..(p - 1) : j = k + 1
    <3> SUFFICES ASSUME NEW j \in 1..p, j # 1  PROVE \E k \in 1..(p - 1) : j = k + 1
      OBVIOUS
    <3>1. j - 1 \in 1..(p - 1) /\ j = (j - 1) + 1
      BY <1>1
    <3> QED  BY <3>1
  <2>4. Coming(s) <=> \/ OnItsWay(1) /\ pipe[1].seq = s
                      \/ \E j \in 1..(p - 1) : OnItsWay(j + 1) /\ pipe[j + 1].seq = s
    <3>0. Coming(s) <=> \E j \in 1..p : OnItsWay(j) /\ pipe[j].seq = s
      BY <1>1 DEF Coming
    <3>1. \A j \in 1..(p - 1) : j + 1 \in 1..p
      BY <1>1
    <3>2. 1 \in 1..p
      BY <1>1
    <3> QED  BY <2>3, <3>0, <3>1, <3>2
  <2>5. (\E i \in 1..(n + 1) : here(i) /\ all[i].seq = s) <=>
          (\E i \in 1..n : here(i) /\ all[i].seq = s) \/ (here(n + 1) /\ all[n + 1].seq = s)
    BY <1>4
  <2> QED  BY <2>1, <2>2, <2>4, <2>5 DEF Streams
<1>16. \A s \in Nat : Streams(s)' => Streams(s)
  <2>1. \A i \in m..(n + 1) : i \in 1..(n + 1)
    BY <1>4
  <2> QED  BY <1>14, <1>15, <2>1
<1>17. \A x, s \in Nat : Streams(x)' /\ Streams(s) /\ x < s => Streams(s)'
  <2> SUFFICES ASSUME NEW x \in Nat, NEW s \in Nat, Streams(x)', Streams(s), x < s,
                      NEW i \in 1..(n + 1), here(i), all[i].seq = s
               PROVE  i \in m..(n + 1)
    BY <1>14, <1>15
  <2> SUFFICES ASSUME i < m  PROVE FALSE
    BY <1>4
  <2>1. CASE \E k \in m..(n + 1) : here(k) /\ all[k].seq = x
    <3>1. PICK k \in m..(n + 1) : here(k) /\ all[k].seq = x
      BY <2>1
    <3>2. k \in 1..(n + 1) /\ i < k
      BY <1>4
    <3>3. s < x
      BY <1>10, <3>1, <3>2
    <3> QED  BY <3>3
  <2>2. CASE \E j \in 1..(p - 1) : OnItsWay(j + 1) /\ pipe[j + 1].seq = x
    <3>1. s < x
      BY <1>11, <2>2
    <3> QED  BY <3>1
  <2> QED  BY <1>14, <2>1, <2>2
<1>18. NoneUnseen'
  BY <1>16, <1>17, FewerUnseen
<1> QED  BY <1>5, <1>12, <1>13, <1>18

LEMMA StreamKeeps ==
  ASSUME ViewsAssumption, ViewsTyped, StreamInv, [Next]_vars
  PROVE  StreamInv'
<1>0. /\ observer.arrivals \in Seq(ArrivalSpace)
      /\ viewer \in {"control", "observer"} /\ pipe \in Seq(LineSpace)
      /\ air \in [seq : Nat, life : Nat, missed : SUBSET Nat]
  BY DEF StreamInv, ViewsTyped
<1>1. viewer' = viewer
  BY DEF Next, BoardStep, Resets, ResetsWithPort, Installs, RefusesAt, Opens, Commits, Expires,
         Closes, HearsPose, MissesPose, SpeederRestarts, PassTime, Reads, CatExits, Says, vars
<1>2. CASE viewer = "control"
  <2>1. observer.arrivals = <<>> /\ <<>> \in Seq(ArrivalSpace)
    BY <1>2 DEF StreamInv
  <2>2. observer' = observer
    BY <1>2 DEF Next, BoardStep, Resets, ResetsWithPort, Installs, RefusesAt, Reads, CatExits,
                Says, vars
  <2> QED  BY <1>1, <1>2, <2>1, <2>2 DEF StreamInv
<1>3. CASE viewer = "observer"
  <2>0. OldLives /\ InOrder /\ NoneUnseen
    BY <1>3 DEF StreamInv
  <2> SUFFICES observer'.arrivals \in Seq(ArrivalSpace) /\ OldLives' /\ InOrder' /\ NoneUnseen'
    BY <1>1, <1>3 DEF StreamInv
  <2>u. /\ \A s \in air.missed : s < air.seq
        /\ \A s \in Nat : Streams(s) => s < air.seq /\ s \notin air.missed
        /\ \A x, y, s \in Nat : Streams(x) /\ Streams(y) /\ x < s /\ s < y =>
             Streams(s) \/ s \in air.missed
        /\ cat = "open" => \A x, s \in Nat : Streams(x) /\ x < s /\ s < air.seq =>
                             Streams(s) \/ s \in air.missed
    BY <2>0 DEF NoneUnseen
  <2>1. ASSUME UNCHANGED <<observer, pipe, air>>, cat' = "open" => cat = "open"
        PROVE  OldLives' /\ InOrder' /\ NoneUnseen'
    <3>1. \A s : Streams(s)' <=> Streams(s)
      BY <2>1 DEF Streams, Arrived, Coming, Here, OnItsWay
    <3>2. OldLives' /\ InOrder'
      BY <2>0, <2>1 DEF OldLives, InOrder, Here, OnItsWay
    <3>3. NoneUnseen'
      BY <2>u, <2>1, <3>1 DEF NoneUnseen
    <3> QED  BY <3>2, <3>3
  \* The stream is as it was, and of the poses sent more were missed, or none is
  \* to be read.
  <2>2. ASSUME UNCHANGED <<observer, pipe>>, air' \in [seq : Nat, life : Nat, missed : SUBSET Nat],
               air'.life = air.life, air'.seq = air.seq + 1,
               \/ air'.missed = air.missed \cup {air.seq} /\ cat' = cat
               \/ air'.missed = air.missed /\ cat' # "open"
        PROVE  OldLives' /\ InOrder' /\ NoneUnseen'
    <3>0. air.seq \in Nat
      BY <1>0
    <3>1. \A s : Streams(s)' <=> Streams(s)
      BY <2>2 DEF Streams, Arrived, Coming, Here, OnItsWay
    <3>2. OldLives' /\ InOrder'
      BY <2>0, <2>2 DEF OldLives, InOrder, Here, OnItsWay
    <3>3. \A s \in air'.missed : s < air'.seq
      <4>1. \A s \in air'.missed : s \in Nat
        BY <2>2
      <4>2. \A s \in air'.missed : s \in air.missed \/ s = air.seq
        BY <2>2
      <4> QED  BY <2>2, <2>u, <3>0, <4>1, <4>2
    <3>4. \A s \in Nat : Streams(s)' => s < air'.seq /\ s \notin air'.missed
      BY <2>2, <2>u, <3>0, <3>1
    <3>5. \A x, y, s \in Nat : Streams(x)' /\ Streams(y)' /\ x < s /\ s < y =>
            Streams(s)' \/ s \in air'.missed
      BY <2>2, <2>u, <3>1
    <3>6. cat' = "open" => \A x, s \in Nat : Streams(x)' /\ x < s /\ s < air'.seq =>
                             Streams(s)' \/ s \in air'.missed
      <4>1. \A s \in Nat : s < air.seq + 1 => s < air.seq \/ s = air.seq
        BY <3>0
      <4> QED  BY <2>2, <2>u, <3>1, <4>1
    <3> QED  BY <3>2, <3>3, <3>4, <3>5, <3>6 DEF NoneUnseen
  <2>3. ASSUME NEW line \in LineSpace, BoardMoves(line), Says(line)
        PROVE  observer'.arrivals \in Seq(ArrivalSpace) /\ OldLives' /\ InOrder' /\ NoneUnseen'
    <3>0. observer' = observer /\ cat' = cat
      BY <2>3 DEF Says
    <3>1. CASE cat # "open" /\ line.say # "pose"
      <4>1. pipe' = pipe /\ air' = air
        BY <2>3, <3>1, MovesAre DEF Says
      <4> QED  BY <1>0, <2>1, <3>0, <4>1
    <3>2. CASE cat # "open" /\ line.say = "pose"
      <4>1. pipe' = pipe /\ air' = [air EXCEPT !.seq = @ + 1]
        BY <2>3, <3>2 DEF Says, BoardMoves, HearsPose
      <4>2. air'.life = air.life /\ air'.seq = air.seq + 1 /\ air'.missed = air.missed
        BY <1>0, <4>1
      <4>3. air' \in [seq : Nat, life : Nat, missed : SUBSET Nat]
        <5>1. air \in [seq : Nat, life : Nat, missed : SUBSET Nat]
          BY <1>0
        <5> QED  BY <4>1, <5>1
      <4> QED  BY <1>0, <2>2, <3>0, <3>2, <4>1, <4>2, <4>3
    <3>3. CASE cat = "open" /\ line.say # "pose"
      <4>1. pipe' = Append(pipe, line) /\ air' = air
        BY <2>3, <3>3, MovesAre DEF Says
      <4>2. OldLives' /\ InOrder' /\ \A s : Streams(s)' <=> Streams(s)
        BY <1>0, <2>0, <3>0, <3>3, <4>1, StreamSays
      <4>3. NoneUnseen'
        BY <2>0, <3>0, <4>1, <4>2, FewerUnseen
      <4> QED  BY <1>0, <3>0, <4>2, <4>3
    <3>4. CASE cat = "open" /\ line.say = "pose"
      <4>1. /\ pipe' = Append(pipe, line) /\ air' = [air EXCEPT !.seq = @ + 1]
            /\ line.seq = air.seq /\ line.life = air.life
        BY <2>3, <3>4 DEF Says, BoardMoves, HearsPose
      <4>2. /\ air'.life = air.life /\ air'.seq = air.seq + 1 /\ air'.missed = air.missed
            /\ air.seq \in Nat /\ air.missed \subseteq Nat
        BY <1>0, <4>1
      <4>3. OldLives'
        BY <1>0, <2>0, <3>0, <4>1, <4>2, StreamSays
      <4>4. InOrder'
        BY <1>0, <2>0, <2>u, <3>0, <4>1, <4>2, StreamSays
      <4>5. \A s : Streams(s)' <=> Streams(s) \/ s = air.seq
        BY <1>0, <3>0, <3>4, <4>1, <4>2, StreamSays
      <4>6. \A s \in Nat : s < air.seq + 1 => s < air.seq \/ s = air.seq
        BY <4>2
      <4>7. /\ \A s \in air'.missed : s < air'.seq
            /\ \A s \in Nat : Streams(s)' => s < air'.seq /\ s \notin air'.missed
        <5>1. \A s \in air.missed : s \in Nat /\ s < air.seq /\ s # air.seq
          BY <2>u, <4>2
        <5> QED  BY <2>u, <4>2, <4>5, <5>1
      <4>8. ASSUME NEW x \in Nat, NEW s \in Nat, Streams(x)', x < s, s < air'.seq
            PROVE  Streams(s)' \/ s \in air'.missed
        <5>1. CASE s = air.seq
          BY <4>5, <5>1
        <5>2. CASE s < air.seq
          <6>1. Streams(x)
            BY <4>2, <4>5, <4>8, <5>2
          <6> QED  BY <2>u, <3>4, <4>2, <4>5, <4>8, <5>2, <6>1
        <5> QED  BY <4>2, <4>6, <4>8, <5>1, <5>2
      <4>9. ASSUME NEW x \in Nat, NEW y \in Nat, NEW s \in Nat,
                   Streams(x)', Streams(y)', x < s, s < y
            PROVE  Streams(s)' \/ s \in air'.missed
        <5>1. y < air'.seq
          BY <4>7, <4>9
        <5>2. s < air'.seq
          BY <4>2, <4>9, <5>1
        <5> QED  BY <4>8, <4>9, <5>2
      <4>10. NoneUnseen'
        BY <4>7, <4>8, <4>9 DEF NoneUnseen
      <4> QED  BY <1>0, <3>0, <4>3, <4>4, <4>10
    <3> QED  BY <3>1, <3>2, <3>3, <3>4
  <2>4. CASE ResetsWithPort \/ CatExits \/ PassTime \/ UNCHANGED vars
    <3>1. UNCHANGED <<observer, pipe, air>> /\ (cat' = "open" => cat = "open")
      BY <2>4 DEF ResetsWithPort, CatExits, PassTime, vars
    <3> QED  BY <1>0, <2>1, <3>1
  <2>5. CASE MissesPose
    <3>1. /\ UNCHANGED <<observer, pipe, cat>>
          /\ air' = [air EXCEPT !.seq = @ + 1, !.missed = @ \cup {air.seq}]
      BY <2>5 DEF MissesPose
    <3>2. air'.life = air.life /\ air'.seq = air.seq + 1 /\ air'.missed = air.missed \cup {air.seq}
      BY <1>0, <3>1
    <3>3. air' \in [seq : Nat, life : Nat, missed : SUBSET Nat]
      <4>1. air.missed \cup {air.seq} \in SUBSET Nat /\ air.seq + 1 \in Nat
        BY <1>0
      <4> QED  BY <1>0, <3>1, <4>1
    <3> QED  BY <1>0, <2>2, <3>1, <3>2, <3>3
  <2>6. CASE SpeederRestarts
    <3>1. /\ UNCHANGED <<observer, pipe, cat>>
          /\ air' = [seq |-> 0, life |-> air.life + 1, missed |-> {}] /\ air.life \in Nat
      BY <1>0, <2>6 DEF SpeederRestarts
    <3>2. air'.life = air.life + 1 /\ air'.missed = {}
      BY <3>1
    <3>3. \A i \in 1..Len(observer.arrivals) :
            observer.arrivals[i].life \in Nat /\ observer.arrivals[i].life <= air.life
      <4>1. \A i \in 1..Len(observer.arrivals) : observer.arrivals[i] \in ArrivalSpace
        BY <1>0
      <4> QED  BY <2>0, <4>1 DEF ArrivalSpace, OldLives
    <3>4. \A j \in 1..Len(pipe) : pipe[j].say = "pose" =>
            pipe[j].life \in Nat /\ pipe[j].life <= air.life
      <4>1. \A j \in 1..Len(pipe) : pipe[j] \in LineSpace
        BY <1>0
      <4> QED  BY <2>0, <4>1, LineIs DEF OldLives
    <3>5. \A i \in 1..Len(observer.arrivals) : ~Here(i)'
      BY <3>1, <3>2, <3>3 DEF Here
    <3>6. \A j \in 1..Len(pipe) : ~OnItsWay(j)'
      BY <3>1, <3>2, <3>4 DEF OnItsWay
    <3>7. OldLives'
      <4>1. \A i \in 1..Len(observer.arrivals) : observer.arrivals[i].life <= air'.life
        BY <3>1, <3>2, <3>3
      <4>2. \A j \in 1..Len(pipe) : pipe[j].say = "pose" => pipe[j].life <= air'.life
        BY <3>1, <3>2, <3>4
      <4> QED  BY <3>1, <4>1, <4>2 DEF OldLives
    <3>8. InOrder'
      BY <3>1, <3>5, <3>6 DEF InOrder
    <3>9. \A s : ~Streams(s)'
      BY <3>1, <3>5, <3>6 DEF Streams, Arrived, Coming
    <3>10. NoneUnseen'
      BY <3>2, <3>9 DEF NoneUnseen
    <3> QED  BY <1>0, <3>1, <3>7, <3>8, <3>10
  <2>7. CASE Reads
    <3>1. /\ pipe # <<>> /\ pipe' = Tail(pipe) /\ air' = air /\ cat' = cat
          /\ Head(pipe) = pipe[1] /\ observer' = ReadLine(observer, pipe[1])
          /\ IsDeviceState(observer)
      BY <1>0, <1>3, <2>7 DEF Reads, ViewsTyped
    <3>2. CASE pipe[1].say = "pose"
      <4>1. observer'.arrivals =
              Push(observer.arrivals, [seq |-> pipe[1].seq, at |-> clock, life |-> pipe[1].life])
        BY <3>1, <3>2, ReadIsDeviceState
      <4> QED  BY <1>0, <2>0, <3>1, <3>2, <4>1, PoseReadKeeps
    <3>3. CASE pipe[1].say # "pose"
      <4>1. observer'.arrivals = observer.arrivals
        BY <3>1, <3>3, ReadIsDeviceState
      <4> QED  BY <1>0, <2>0, <3>1, <3>3, <4>1, OtherReadKeeps
    <3> QED  BY <3>2, <3>3
  <2> QED  BY <2>3, <2>4, <2>5, <2>6, <2>7, BoardSays DEF Next
<1> QED  BY <1>0, <1>2, <1>3

\* Counting from the first arrival to the last: each that is not there was missed.
LEMMA DropsAreCounted ==
  ASSUME ViewsTyped, StreamInv
  PROVE  DropsAreMisses
<1> DEFINE a == observer.arrivals
           n == Len(a)
           M == {s \in air.missed : Head(a).seq < s /\ s < Last(a).seq}
<1> SUFFICES ASSUME a # <<>>, \A i \in DOMAIN a : a[i].life = air.life
             PROVE  Dropped(a) = Cardinality(M)
  BY DEF DropsAreMisses
<1>0. a \in Seq(ArrivalSpace) /\ air.missed \subseteq Nat
  BY DEF StreamInv, ViewsTyped
<1>1. OldLives /\ InOrder /\ NoneUnseen
  <2>1. viewer \in {"control", "observer"}
    BY DEF ViewsTyped
  <2> QED  BY <2>1 DEF StreamInv
<1>2. n \in Nat \ {0} /\ DOMAIN a = 1..n /\ Head(a) = a[1] /\ Last(a) = a[n]
  BY <1>0 DEF Last
<1>3. \A i \in 1..n : Here(i) /\ a[i].seq \in Nat
  <2>1. \A i \in 1..n : a[i] \in ArrivalSpace
    BY <1>0
  <2> QED  BY <1>2, <2>1 DEF Here, ArrivalSpace
<1>4. \A i, k \in 1..n : i < k => a[i].seq < a[k].seq
  BY <1>1, <1>3 DEF InOrder
<1> DEFINE f == [i \in 1..n |-> a[i].seq]
           A == {f[i] : i \in 1..n}
<1>5. PICK first, last : first = a[1].seq /\ last = a[n].seq
  OBVIOUS
<1>6. /\ first \in Nat /\ last \in Nat /\ first <= last
      /\ \A i \in 1..n : first <= a[i].seq /\ a[i].seq <= last
  <2>1. 1 \in 1..n /\ n \in 1..n
    BY <1>2
  <2>2. ASSUME NEW i \in 1..n  PROVE first <= a[i].seq /\ a[i].seq <= last
    <3>1. i = 1 \/ 1 < i
      BY <1>2
    <3>2. i = n \/ i < n
      BY <1>2
    <3>3. first <= a[i].seq
      BY <1>3, <1>4, <1>5, <2>1, <3>1
    <3>4. a[i].seq <= last
      BY <1>3, <1>4, <1>5, <2>1, <3>2
    <3> QED  BY <3>3, <3>4
  <2> QED  BY <1>3, <1>5, <2>1, <2>2
<1>7. M = {s \in air.missed : first < s /\ s < last}
  BY <1>2, <1>5
<1>8. \A s \in Nat : Arrived(s) <=> s \in A
  BY <1>2, <1>3 DEF Arrived
<1>9. first..last = A \cup M
  <2>1. A \subseteq first..last
    <3> SUFFICES ASSUME NEW i \in 1..n  PROVE a[i].seq \in first..last
      OBVIOUS
    <3>1. a[i].seq \in Nat /\ first <= a[i].seq /\ a[i].seq <= last
      BY <1>3, <1>6
    <3> QED  BY <1>6, <3>1
  <2>2. M \subseteq first..last
    BY <1>0, <1>6, <1>7
  <2>3. ASSUME NEW s \in first..last  PROVE s \in A \cup M
    <3>0. s \in Nat /\ first \in A /\ last \in A
      BY <1>2, <1>5, <1>6
    <3>1. CASE s = first \/ s = last
      BY <3>0, <3>1
    <3>2. CASE first < s /\ s < last
      <4>1. Streams(first) /\ Streams(last)
        BY <1>6, <1>8, <3>0 DEF Streams
      <4>2. Streams(s) \/ s \in air.missed
        BY <1>1, <1>6, <3>0, <3>2, <4>1 DEF NoneUnseen
      <4>3. ~Coming(s)
        <5> SUFFICES ASSUME NEW j \in 1..Len(pipe), OnItsWay(j), pipe[j].seq = s  PROVE FALSE
          BY DEF Coming
        <5>1. n \in 1..Len(observer.arrivals) /\ Here(n)
          BY <1>2, <1>3
        <5>2. last < s
          BY <1>1, <1>5, <5>1 DEF InOrder
        <5> QED  BY <1>6, <3>0, <3>2, <5>2
      <4> QED  BY <1>7, <1>8, <3>0, <3>2, <4>2, <4>3 DEF Streams
    <3> QED  BY <1>6, <3>0, <3>1, <3>2
  <2> HIDE DEF A, M
  <2> QED  BY <2>1, <2>2, <2>3
<1>10. A \cap M = {}
  <2> SUFFICES ASSUME NEW s \in A, s \in M  PROVE FALSE
    OBVIOUS
  <2>1. s \in Nat
    BY <1>3
  <2>2. Streams(s) /\ s \in air.missed
    BY <1>8, <2>1 DEF Streams
  <2> QED  BY <1>1, <2>1, <2>2 DEF NoneUnseen
<1>11. IsFiniteSet(A) /\ Cardinality(A) = n
  <2>1. \A i, k \in 1..n : i # k => f[i] # f[k]
    <3>1. \A i, k \in 1..n : i < k => f[i] < f[k]
      BY <1>4
    <3>2. \A i \in 1..n : f[i] \in Nat
      BY <1>3
    <3>3. \A i, k \in 1..n : i < k \/ k < i \/ i = k
      BY <1>2
    <3> HIDE DEF f
    <3> QED  BY <3>1, <3>2, <3>3
  <2> HIDE DEF f
  <2> QED  BY <1>2, <2>1, ImageSize
<1> HIDE DEF A, f
<1>12. IsFiniteSet(M) /\ Cardinality(M) \in Nat
  <2>1. IsFiniteSet(first..last)
    BY <1>6, FS_Interval
  <2>2. M \subseteq first..last
    BY <1>9
  <2> HIDE DEF M
  <2> QED  BY <2>1, <2>2, FS_Subset, FS_CardinalityType
<1>13. last - first + 1 = n + Cardinality(M)
  <2>1. Cardinality(first..last) = last - first + 1
    BY <1>6, FS_Interval
  <2>2. Cardinality({}) = 0
    BY FS_EmptySet
  <2> HIDE DEF M
  <2>3. Cardinality(A \cup M) = Cardinality(A) + Cardinality(M) - Cardinality(A \cap M)
    BY <1>11, <1>12, FS_Union
  <2>4. Cardinality(A \cap M) = 0
    BY <1>10, <2>2
  <2>5. Cardinality(A \cup M) = last - first + 1
    BY <1>9, <2>1
  <2>6. Cardinality(A) = n
    BY <1>11
  <2> HIDE DEF n
  <2>7. last - first + 1 = n + Cardinality(M) - 0
    BY <2>3, <2>4, <2>5, <2>6
  <2>8. n \in Nat
    BY <1>2
  <2> QED  BY <1>12, <2>7, <2>8
<1>14. Expected(a) = last - first + 1
  BY <1>2, <1>5 DEF Expected
<1> HIDE DEF M
<1>15. Expected(a) = n + Cardinality(M)
  BY <1>13, <1>14
<1> QED  BY <1>2, <1>12, <1>15 DEF Dropped

-----------------------------------------------------------------------------
(* The views *)

ViewsInv ==
  /\ ViewsTyped
  /\ IsFiniteSet(Refused) /\ GrantsAhead
  /\ LastsUntilOne /\ ChannelAhead
  /\ StreamInv

LEMMA ViewsStart ==
  ASSUME ViewsAssumption, Init
  PROVE  ViewsInv
<1>1. /\ viewer \in {"control", "observer"} /\ board = Booted /\ pipe = <<>> /\ cat = "open"
      /\ air = [seq |-> 0, life |-> 1, missed |-> {}]
      /\ control = NewDevice /\ observer = NewDeviceState /\ clock = 0 /\ printed = 0
  BY DEF Init, ViewsAssumption
<1>2. NewDevice \in DeviceSpace
  <2>1. [c \in CertChannels |-> Free] \in GrantSpace /\ <<>> \in Seq(RefusalSpace)
    BY DEF GrantSpace
  <2> QED  BY <2>1 DEF NewDevice, DeviceSpace
<1>3. IsDeviceState(observer) /\ observer.arrivals = <<>>
  BY <1>1 DEF IsDeviceState, NewDeviceState
<1>4. ViewsTyped
  <2>1. air \in [seq : Nat, life : Nat, missed : SUBSET Nat]
    BY <1>1
  <2>2. pipe \in Seq(LineSpace)
    BY <1>1
  <2> QED  BY <1>1, <1>2, <1>3, <2>1, <2>2, BootedIsBoard DEF ViewsTyped
<1>5. Refused = {}
  BY <1>1 DEF Refused, Booted
<1>6. GrantsAhead
  <2>1. Follow(Control, control, pipe) = NewDevice
    BY <1>1, FollowNone
  <2>2. NewDevice.grants = board.grants /\ NewDevice.refusals = <<>>
    BY <1>1 DEF NewDevice, Booted
  <2>3. GoodList(<<>>)
    BY <1>5 DEF GoodList
  <2> QED  BY <1>2, <2>1, <2>2, <2>3 DEF GrantsAhead
<1>7. LastsUntilOne /\ ChannelAhead
  BY <1>1 DEF LastsUntilOne, ChannelAhead, Booted, ChannelInit
<1>8. StreamInv
  <2>1. \A s : ~Streams(s)
    BY <1>1, <1>3 DEF Streams, Arrived, Coming
  <2>2. OldLives /\ InOrder
    BY <1>1, <1>3 DEF OldLives, InOrder
  <2>3. NoneUnseen
    BY <1>1, <2>1 DEF NoneUnseen
  <2>4. observer.arrivals \in Seq(ArrivalSpace)
    BY <1>3
  <2> QED  BY <1>3, <2>2, <2>3, <2>4 DEF StreamInv
<1> QED  BY <1>4, <1>5, <1>6, <1>7, <1>8, FS_EmptySet DEF ViewsInv

LEMMA ViewsStep ==
  ASSUME ViewsAssumption, ViewsInv, [Next]_vars
  PROVE  ViewsInv'
<1>1. /\ ViewsTyped /\ IsFiniteSet(Refused) /\ GrantsAhead
      /\ LastsUntilOne /\ ChannelAhead /\ StreamInv
  BY DEF ViewsInv
<1>2. ViewsTyped'
  BY <1>1, TypedKeeps
<1>3. GrantsAhead' /\ IsFiniteSet(Refused')
  BY <1>1, GrantsKeep
<1>4. LastsUntilOne' /\ ChannelAhead'
  BY <1>1, ChannelKeeps
<1>5. StreamInv'
  BY <1>1, StreamKeeps
<1> QED  BY <1>2, <1>3, <1>4, <1>5 DEF ViewsInv

LEMMA ViewsFollow ==
  ASSUME ViewsInv
  PROVE  ViewsCatchUp
<1>0. pipe \in Seq(LineSpace) /\ IsDeviceState(observer)
  BY DEF ViewsInv, ViewsTyped
<1>1. GrantsCatchUp
  <2> SUFFICES ASSUME viewer = "control", cat = "open"  PROVE GrantsCatchUp
    BY DEF GrantsCatchUp
  <2>1. PICK d : d = CaughtUpControl
    OBVIOUS
  <2>2. d = Follow(Control, control, pipe)
    BY <1>0, <2>1, FoldIsFollow DEF CaughtUpControl
  <2>3. d \in DeviceSpace /\ d.grants = board.grants /\ GoodList(d.refusals)
    BY <2>2 DEF ViewsInv, GrantsAhead
  <2>4. PICK r : r = d.refusals
    OBVIOUS
  <2>5. r \in Seq(RefusalSpace) /\ DOMAIN r = 1..Len(r)
    BY <2>3, <2>4 DEF DeviceSpace
  <2>6. /\ \A i \in 1..Len(r) : 1 <= r[i].count /\ r[i].count <= board.refused[r[i].gate]
        /\ Cardinality(Refused) <= RefusalMax =>
             \A g \in Refused : \E i \in 1..Len(r) : r[i].gate = g
    BY <2>3, <2>4 DEF GoodList
  <2>7. \A i \in 1..Len(r) : r[i].gate \in Refused
    <3> SUFFICES ASSUME NEW i \in 1..Len(r)  PROVE r[i].gate \in Refused
      OBVIOUS
    <3>1. r[i] \in RefusalSpace
      BY <2>5
    <3>2. r[i].gate \in Gates /\ r[i].count \in Nat /\ board.refused[r[i].gate] \in Nat
      BY <3>1 DEF RefusalSpace, ViewsInv, ViewsTyped, BoardSpace
    <3>3. board.refused[r[i].gate] > 0
      BY <2>6, <3>2
    <3> QED  BY <3>2, <3>3 DEF Refused
  <2>8. Cardinality(Refused) <= RefusalMax => {r[i].gate : i \in DOMAIN r} = Refused
    BY <2>5, <2>6, <2>7
  <2> QED  BY <2>1, <2>3, <2>4, <2>5, <2>6, <2>8 DEF GrantsCatchUp, Refused
<1>2. ChannelCatchesUp
  <2> SUFFICES ASSUME viewer = "observer", cat = "open", board.chan.state # "CLOSED"
               PROVE  CaughtUpObserver.chan = ViewOf(board.chan)
    BY DEF ChannelCatchesUp, ViewOf
  <2>1. Follow(Channel, observer.chan, pipe) = ViewOf(board.chan)
    BY DEF ViewsInv, ChannelAhead
  <2>2. CaughtUpObserver.chan = Follow(Channel, observer.chan, pipe)
    BY <1>0, ChannelOfView DEF CaughtUpObserver
  <2> QED  BY <2>1, <2>2
<1>3. DropsAreMisses
  BY DropsAreCounted DEF ViewsInv
<1> QED  BY <1>1, <1>2, <1>3 DEF ViewsCatchUp

\* Whoever watches a board by its log, what it has read and what is on its way to it
\* make the grants and the refusals of the board, or its channel, and the drops it
\* shows are the poses the board missed (trackDevice, applyEvent, StreamStats).
THEOREM ViewsFollowBoards ==
  ASSUME ViewsAssumption
  PROVE  Spec => []ViewsCatchUp
<1>1. Init => ViewsInv
  BY ViewsStart
<1>2. ViewsInv /\ [Next]_vars => ViewsInv'
  BY ViewsStep
<1>3. ViewsInv => ViewsCatchUp
  BY ViewsFollow
<1> QED  BY <1>1, <1>2, <1>3, PTL DEF Spec

=============================================================================
