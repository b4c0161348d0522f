------------------------------ MODULE GatedSpend ------------------------------
(***************************************************************************)
(* A spend that the engine of a board gates                                 *)
(* (tools/x402-bridge/onchain-gated-spend.ts): an output is funded through   *)
(* the wallet and recorded in a file, a spend of it is injected as a cell,   *)
(* and on the board's ACCEPT it is released to the network.                 *)
(*                                                                          *)
(* The program is single-threaded: what lies between two awaits is one step. *)
(* Typed commands are not awaited and overlap; those of --run come one after *)
(* the other.  The spend of an output is one transaction however often it is *)
(* built.  The eight seconds of a wait are not counted, but waits begun      *)
(* earlier run out earlier.  This is a --live run.                          *)
(***************************************************************************)
EXTENDS Integers, Sequences, FiniteSets

CONSTANTS
  Outputs,      \* outputs the wallet may fund
  NoOutput,
  Scripted,     \* are the commands those of --run
  MaxCommands,  \* bound: commands of one life of the process
  MaxStarts     \* bound: starts of the program

ASSUME GatedAssumption ==
  /\ NoOutput \notin Outputs
  /\ Scripted \in BOOLEAN /\ MaxCommands \in Nat /\ MaxStarts \in Nat

VARIABLES
  funding,        \* the output to spend
  stateFile,      \* the output STATE_FILE names
  lastGood,       \* the output whose spend `settle` releases
  pendingVerdict, \* the command whose wait a verdict resolves, or 0
  timers,         \* commands whose wait has a timer that has not fired
  commands,       \* the commands of this life
  cells,          \* cells on their way to a verdict line
  utxo,           \* the network: output -> "none", "unspent" or "spent"
  recorded,       \* history: outputs that were on file
  validated,      \* history: outputs whose spend the engine accepted
  released,       \* history: what was handed to ARCADE, and if `settle` asked for it
  starts           \* starts of the program so far

processVars == <<funding, lastGood, pendingVerdict, timers, commands>>
gatedHistory == <<recorded, validated, released, starts>>
gatedVars == <<processVars, stateFile, cells, utxo, gatedHistory>>

CommandIds == 1..Len(commands)
Running == {i \in CommandIds : commands[i].at # "done"}
Command(where, good, output) == [at |-> where, good |-> good, output |-> output]
MayType == Len(commands) < MaxCommands /\ (Scripted => Running = {})

\* The process goes on after what a command awaited.
Goes(i, where) == commands' = [commands EXCEPT ![i].at = where]

-----------------------------------------------------------------------------
(* fund *)

\* doFund: a fresh key, and the wallet is asked.
Fund ==
  /\ MayType
  /\ \E o \in Outputs :
       /\ utxo[o] = "none" /\ \A i \in CommandIds : commands[i].output # o
       /\ commands' = Append(commands, Command("wallet", TRUE, o))
  /\ UNCHANGED <<funding, lastGood, pendingVerdict, timers, stateFile, cells, utxo, gatedHistory>>

\* The wallet's transaction goes to ARCADE, or the wallet refuses.
WalletAnswers(i, refuses) ==
  /\ commands[i].at = "wallet"
  /\ Goes(i, IF refuses THEN "done" ELSE "funding")
  /\ UNCHANGED <<funding, lastGood, pendingVerdict, timers, stateFile, cells, utxo, gatedHistory>>

\* The network takes the funding; the answer is still under way.
NetworkFunds(i) ==
  /\ commands[i].at = "funding" /\ utxo[commands[i].output] = "none"
  /\ utxo' = [utxo EXCEPT ![commands[i].output] = "unspent"]
  /\ UNCHANGED <<processVars, stateFile, cells, gatedHistory>>

\* The answer: the output replaces the one before it, in memory and on file.
\* The last spend that was armed stays armed.
Funded(i) ==
  /\ commands[i].at = "funding" /\ utxo[commands[i].output] # "none"
  /\ Goes(i, "done")
  /\ funding' = commands[i].output
  /\ stateFile' = commands[i].output
  /\ recorded' = recorded \cup {commands[i].output}
  /\ UNCHANGED <<lastGood, pendingVerdict, timers, cells, utxo, validated, released, starts>>

\* ARCADE refuses, or its answer is lost.
FundFails(i) ==
  /\ commands[i].at = "funding"
  /\ Goes(i, "done")
  /\ UNCHANGED <<funding, lastGood, pendingVerdict, timers, stateFile, cells, utxo, gatedHistory>>

-----------------------------------------------------------------------------
(* g, b *)

\* doSpend, to the end of the write: a good spend is armed for `settle`.
Spend(good) ==
  /\ MayType /\ funding # NoOutput
  /\ lastGood' = IF good THEN funding ELSE lastGood
  /\ commands' = Append(commands, Command("injecting", good, funding))
  /\ UNCHANGED <<funding, pendingVerdict, timers, stateFile, cells, utxo, gatedHistory>>

\* The cell is written, and the wait for a verdict takes the place of the wait
\* before it.
Injected(i) ==
  /\ commands[i].at = "injecting"
  /\ Goes(i, "waiting")
  /\ pendingVerdict' = i
  /\ timers' = Append(timers, i)
  /\ cells' = cells \cup {[output |-> commands[i].output, good |-> commands[i].good]}
  /\ UNCHANGED <<funding, lastGood, stateFile, utxo, gatedHistory>>

\* openSync or writeSync throws.
InjectFails(i) ==
  /\ commands[i].at = "injecting"
  /\ Goes(i, "done")
  /\ UNCHANGED <<funding, lastGood, pendingVerdict, timers, stateFile, cells, utxo, gatedHistory>>

\* settle: the armed spend, whatever it is of, goes to ARCADE.
Release(i, asked) ==
  IF lastGood = NoOutput
    THEN commands' = [commands EXCEPT ![i].at = "done"] /\ UNCHANGED released
    ELSE /\ commands' = [commands EXCEPT ![i].at = "settling", ![i].output = lastGood]
         /\ released' = released \cup {[output |-> lastGood, asked |-> asked]}

\* Faulty variant: any verdict resolves the wait with true.
VerdictTaken(cell) ==
  IF pendingVerdict = 0 THEN UNCHANGED <<commands, released>>
  ELSE IF commands[pendingVerdict].good THEN Release(pendingVerdict, FALSE)
  ELSE Goes(pendingVerdict, "done") /\ UNCHANGED released

\* The wait that is pending ends: a good spend that was accepted is released.
VerdictResolves(cell) ==
  IF pendingVerdict = 0 THEN UNCHANGED <<commands, released>>
  ELSE IF cell.good /\ commands[pendingVerdict].good THEN Release(pendingVerdict, FALSE)
  ELSE Goes(pendingVerdict, "done") /\ UNCHANGED released

\* watch: the line of a board that judged a cell.  It names no spend.
Verdict(cell) ==
  /\ cell \in cells
  /\ cells' = cells \ {cell}
  /\ validated' = IF cell.good THEN validated \cup {cell.output} ELSE validated
  /\ VerdictResolves(cell)
  /\ pendingVerdict' = 0
  /\ UNCHANGED <<funding, lastGood, timers, stateFile, utxo, recorded, starts>>

\* A cell is not heard, or the line is garbled; the engine may have accepted.
VerdictMissed(cell, judged) ==
  /\ cell \in cells
  /\ cells' = cells \ {cell}
  /\ validated' = IF cell.good /\ judged THEN validated \cup {cell.output} ELSE validated
  /\ UNCHANGED <<processVars, stateFile, utxo, recorded, released, starts>>

\* The timer of a wait.  It clears whichever wait is pending, and ends its own.
TimerFires ==
  /\ timers # <<>>
  /\ timers' = Tail(timers)
  /\ IF pendingVerdict = 0 THEN UNCHANGED commands
     ELSE IF commands[Head(timers)].at = "waiting" THEN Goes(Head(timers), "done")
     ELSE UNCHANGED commands
  /\ pendingVerdict' = 0
  /\ UNCHANGED <<funding, lastGood, stateFile, cells, utxo, gatedHistory>>

-----------------------------------------------------------------------------
(* settle *)

Settle ==
  /\ MayType /\ lastGood # NoOutput
  /\ commands' = Append(commands, Command("settling", TRUE, lastGood))
  /\ released' = released \cup {[output |-> lastGood, asked |-> TRUE]}
  /\ UNCHANGED <<funding, lastGood, pendingVerdict, timers, stateFile, cells, utxo,
                 recorded, validated, starts>>

\* The network takes the spend of an output it holds.
NetworkSpends(i) ==
  /\ commands[i].at = "settling" /\ utxo[commands[i].output] = "unspent"
  /\ utxo' = [utxo EXCEPT ![commands[i].output] = "spent"]
  /\ UNCHANGED <<processVars, stateFile, cells, gatedHistory>>

\* Faulty variant: what was released is forgotten whatever ARCADE says.
SettleForgets(i) ==
  /\ commands[i].at = "settling"
  /\ Goes(i, "done")
  /\ funding' = NoOutput /\ stateFile' = NoOutput /\ lastGood' = NoOutput
  /\ UNCHANGED <<pendingVerdict, timers, cells, utxo, gatedHistory>>

\* ARCADE says yes, also to a transaction it knows: the funding is forgotten.
Settled(i) ==
  /\ commands[i].at = "settling" /\ utxo[commands[i].output] = "spent"
  /\ Goes(i, "done")
  /\ funding' = NoOutput /\ stateFile' = NoOutput /\ lastGood' = NoOutput
  /\ UNCHANGED <<pendingVerdict, timers, cells, utxo, gatedHistory>>

\* ARCADE refuses, or its answer is lost: everything stays for another try.
SettleFailed(i) ==
  /\ commands[i].at = "settling"
  /\ Goes(i, "done")
  /\ UNCHANGED <<funding, lastGood, pendingVerdict, timers, stateFile, cells, utxo, gatedHistory>>

-----------------------------------------------------------------------------

\* The program ends, by a command, at the end of the script or in a crash, and
\* is started again: it resumes what is on file.
Resumes ==
  /\ starts < MaxStarts
  /\ starts' = starts + 1
  /\ funding' = stateFile
  /\ lastGood' = NoOutput /\ pendingVerdict' = 0
  /\ timers' = <<>> /\ commands' = <<>>
  /\ UNCHANGED <<stateFile, cells, utxo, recorded, validated, released>>

GatedInit ==
  /\ funding = NoOutput /\ stateFile = NoOutput /\ lastGood = NoOutput
  /\ pendingVerdict = 0 /\ timers = <<>> /\ commands = <<>>
  /\ cells = {} /\ utxo = [o \in Outputs |-> "none"]
  /\ recorded = {} /\ validated = {} /\ released = {}
  /\ starts = 1

GatedNext ==
  \/ Fund \/ Settle \/ TimerFires \/ Resumes
  \/ \E good \in BOOLEAN : Spend(good)
  \/ \E cell \in cells : Verdict(cell) \/ \E judged \in BOOLEAN : VerdictMissed(cell, judged)
  \/ \E i \in Running :
       \/ \E refuses \in BOOLEAN : WalletAnswers(i, refuses)
       \/ NetworkFunds(i) \/ Funded(i) \/ FundFails(i)
       \/ Injected(i) \/ InjectFails(i)
       \/ NetworkSpends(i) \/ Settled(i) \/ SettleFailed(i)

GatedSpec == GatedInit /\ [][GatedNext]_gatedVars

-----------------------------------------------------------------------------
(* Properties *)

\* "Only spends it validates ever reach the chain" (onchain-gated-spend.ts:17),
\* said of what is released without `settle`, and true as long as one output is
\* all that was ever recorded: every verdict line is then about its spend, also
\* when it is late and another command's wait takes it.
ReleasedIsValidated ==
  Cardinality(recorded) <= 1 =>
    \A r \in released : ~r.asked => r.output \in validated

\* The same of any number of outputs.  No run has it, for the code breaks it: a
\* verdict names no spend, so a late one passes for that of the next.
OnlyValidatedAreReleased ==
  \A r \in released : ~r.asked => r.output \in validated

\* "So a crash/restart never strands real sats" (onchain-gated-spend.ts:86): an
\* output that is all that was ever recorded stays on file, and with it its key,
\* until the network has spent it, whatever ends, overlaps, is refused or not
\* answered.
KeptUntilSpent ==
  Cardinality(recorded) <= 1 => \A o \in recorded : utxo[o] = "unspent" => stateFile = o

=============================================================================
