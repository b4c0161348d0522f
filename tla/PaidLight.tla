------------------------------ MODULE PaidLight ------------------------------
(***************************************************************************)
(* One payment, one light: the payments of the x402 bridge                  *)
(* (tools/x402-bridge/bridge.ts, X402CellBridge without a meter), its        *)
(* serial port (serial-mesh.ts), the injector board and the board with the   *)
(* light (examples/mesh_demo/main/main.c).                                   *)
(*                                                                          *)
(* The bridge is single-threaded: what lies between two awaits is one step.  *)
(* A payment is its txid.  Requests that are answered 400, 402 or 409 change *)
(* nothing and are left out, as are the answers: a ticket says what a payer  *)
(* is told.                                                                  *)
(*                                                                          *)
(* Time is left out: an await may end early, unless a guard says otherwise.  *)
(***************************************************************************)
EXTENDS Integers, SequencesExt

CONSTANTS
  Payments,          \* valid signed transactions
  NoPayment,         \* a payload nobody sent
  Copies,            \* frames a broadcast sends
  BroadcastOnVerify, \* does the bridge settle a payment itself
  DemoScriptOnly,    \* does the injector hold a cell back before it sends it
  MaxRestarts        \* bound: restarts of the bridge

ASSUME PaidAssumption ==
  /\ NoPayment \notin Payments
  /\ Copies \in Nat \ {0}
  /\ BroadcastOnVerify \in BOOLEAN
  /\ DemoScriptOnly \in BOOLEAN
  /\ MaxRestarts \in Nat

VARIABLES
  used,         \* X402CellBridge.used
  settling,     \* payment -> its requests that await ARCADE
  tickets,      \* payment -> the state of its ticket
  pending,      \* X402CellBridge.pending
  tail,         \* the activations chained onto X402CellBridge.tail, not begun
  job,          \* the activation under way
  stray,        \* payment -> copies an activation given up will still send
  ackSeen,      \* lastAckAt >= broadcastAt
  chain,        \* payments the network has
  demoCell,     \* s_demo_cell, while s_demo_pending
  mailbox,      \* s_pending_actuator_payload, while s_pending_actuator
  activations,  \* s_actuator_activations
  ackLines,     \* "ACTUATOR ACTIVATED" lines the bridge has not read
  lights,       \* history: payment -> activations its cells made
  lits,         \* history: payers told that their light is on
  restarts,     \* restarts of the bridge so far
  stalled       \* history: a write to the injector was held up for seconds

bridgeVars == <<used, settling, tickets, pending, tail, job, stray, ackSeen>>
boardVars == <<demoCell, mailbox, activations, ackLines, lights>>
historyVars == <<lits, restarts, stalled>>
vars == <<bridgeVars, boardVars, chain, historyVars>>

NoJob == [at |-> "idle", pay |-> NoPayment, left |-> 0]

-----------------------------------------------------------------------------
(* Requests *)

\* enqueue(): a ticket, a place in the queue, a link in the chain.
Enqueue(p) ==
  /\ tickets' = [tickets EXCEPT ![p] = "queued"]
  /\ pending' = Append(pending, p)
  /\ tail' = Append(tail, p)

\* Faulty variant: the queue does not wait for the settlement.
ActivateUnsettled(p) ==
  /\ p \notin used
  /\ used' = used \cup {p}
  /\ Enqueue(p)
  /\ UNCHANGED <<settling, job, stray, ackSeen, chain, boardVars, historyVars>>

\* A paid request: the txid is claimed before anything awaits.
Activate(p) ==
  /\ p \notin used
  /\ used' = used \cup {p}
  /\ IF BroadcastOnVerify
       THEN settling' = [settling EXCEPT ![p] = @ + 1] /\ UNCHANGED <<tickets, pending, tail>>
       ELSE Enqueue(p) /\ UNCHANGED settling
  /\ UNCHANGED <<job, stray, ackSeen, chain, boardVars, historyVars>>

\* The network takes the transaction; the answer is still under way.
ChainTakes(p) ==
  /\ settling[p] > 0 /\ p \notin chain
  /\ chain' = chain \cup {p}
  /\ UNCHANGED <<bridgeVars, boardVars, historyVars>>

SettleOk(p) ==
  /\ settling[p] > 0 /\ p \in chain
  /\ settling' = [settling EXCEPT ![p] = @ - 1]
  /\ Enqueue(p)
  /\ UNCHANGED <<used, job, stray, ackSeen, chain, boardVars, historyVars>>

\* Refused, unreachable, or the answer is lost though the network took it.
SettleFails(p) ==
  /\ settling[p] > 0
  /\ settling' = [settling EXCEPT ![p] = @ - 1]
  /\ used' = used \ {p}
  /\ UNCHANGED <<tickets, pending, tail, job, stray, ackSeen, chain, boardVars, historyVars>>

-----------------------------------------------------------------------------
(* The boards *)

\* One cell on the air.  The mailbox holds one; a cell that finds it full is
\* dropped (s_pending_actuator_overruns).
OnAir(p, heard) ==
  mailbox' = IF heard /\ mailbox = NoPayment THEN p ELSE mailbox

\* inject_process_line: a line that is cut short or fails its CRC is dropped.
\* On the demo stage the cell replaces the one held back.
Inject(p, taken, heard) ==
  IF DemoScriptOnly
    THEN demoCell' = (IF taken THEN p ELSE demoCell) /\ UNCHANGED mailbox
    ELSE OnAir(p, taken /\ heard) /\ UNCHANGED demoCell

\* Faulty variant: the cell stays staged.
BroadcastsAgain(heard) ==
  /\ demoCell # NoPayment
  /\ ~stalled => ~(job.at = "sending" /\ job.pay = demoCell)
  /\ OnAir(demoCell, heard)
  /\ UNCHANGED <<bridgeVars, demoCell, activations, ackLines, lights, chain, historyVars>>

\* The held-back cell goes out DEMO_BROADCAST_DELAY_MS (1.8 s) after the last
\* copy came in, and the copies are 0.4 s apart unless a write is held up.
BroadcastDemoCell(heard) ==
  /\ demoCell # NoPayment
  /\ ~stalled => ~(job.at = "sending" /\ job.pay = demoCell)
  /\ OnAir(demoCell, heard)
  /\ demoCell' = NoPayment
  /\ UNCHANGED <<bridgeVars, activations, ackLines, lights, chain, historyVars>>

\* If the engine accepts the unlock the light goes on and a line is logged; the
\* mailbox is full until then, and free either way.
DrainPendingActuator(accepted) ==
  /\ mailbox # NoPayment
  /\ IF accepted
       THEN /\ activations' = activations + 1
            /\ lights' = [lights EXCEPT ![mailbox] = @ + 1]
            /\ ackLines' = ackLines + 1
       ELSE UNCHANGED <<activations, lights, ackLines>>
  /\ mailbox' = NoPayment
  /\ UNCHANGED <<bridgeVars, demoCell, chain, historyVars>>

\* The reader of the ack port sees the line, or the line was garbled.
ReadAckLine(legible) ==
  /\ ackLines > 0
  /\ ackLines' = ackLines - 1
  /\ ackSeen' = (ackSeen \/ legible)
  /\ UNCHANGED <<used, settling, tickets, pending, tail, job, stray, chain, demoCell,
                 mailbox, activations, lights, historyVars>>

-----------------------------------------------------------------------------
(* One activation at a time: actuate(), broadcast(), awaitActivation() *)

\* Faulty variant: any ack ever read will do.
StartKeepsAck ==
  /\ job.at = "idle" /\ tail # <<>>
  /\ job' = [at |-> "sending", pay |-> Head(tail), left |-> Copies]
  /\ tickets' = [tickets EXCEPT ![Head(tail)] = "lighting"]
  /\ tail' = Tail(tail)
  /\ UNCHANGED <<used, settling, pending, stray, ackSeen, chain, boardVars, historyVars>>

\* The next link of the chain.  broadcastAt is set before the first copy.
StartNext ==
  /\ job.at = "idle" /\ tail # <<>>
  /\ job' = [at |-> "sending", pay |-> Head(tail), left |-> Copies]
  /\ tickets' = [tickets EXCEPT ![Head(tail)] = "lighting"]
  /\ tail' = Tail(tail)
  /\ ackSeen' = FALSE
  /\ UNCHANGED <<used, settling, pending, stray, chain, boardVars, historyVars>>

SendCopy(taken, heard) ==
  /\ job.at = "sending"
  /\ job' = [job EXCEPT !.left = @ - 1, !.at = IF job.left = 1 THEN "waiting" ELSE @]
  /\ Inject(job.pay, taken, heard)
  /\ UNCHANGED <<used, settling, tickets, pending, tail, stray, ackSeen, activations,
                 ackLines, lights, chain, historyVars>>

\* The console buffer of the injector is full: writeSync blocks the process.
WriteStalls ==
  /\ job.at = "sending" /\ ~stalled
  /\ stalled' = TRUE
  /\ UNCHANGED <<bridgeVars, boardVars, chain, lits, restarts>>

\* The activation is over and releases the queue.
Finish ==
  /\ pending' = RemoveFirst(pending, job.pay)
  /\ job' = NoJob

Fails ==
  /\ tickets' = [tickets EXCEPT ![job.pay] = "failed"]
  /\ Finish

AwaitSees ==
  /\ job.at = "waiting" /\ ackSeen
  /\ tickets' = [tickets EXCEPT ![job.pay] = "lit"]
  /\ lits' = lits + 1
  /\ job' = [job EXCEPT !.at = "holding"]
  /\ UNCHANGED <<used, settling, pending, tail, stray, ackSeen, chain, boardVars, restarts, stalled>>

\* Faulty variant: the wait has no deadline.
AwaitNeverExpires == FALSE /\ UNCHANGED vars

\* An ack read since the last look, up to 100 ms ago, is missed.
AwaitExpires ==
  /\ job.at = "waiting"
  /\ Fails
  /\ UNCHANGED <<used, settling, tail, stray, ackSeen, chain, boardVars, historyVars>>

\* openSync or writeSync throws.
SendThrows ==
  /\ job.at = "sending"
  /\ Fails
  /\ UNCHANGED <<used, settling, tail, stray, ackSeen, chain, boardVars, historyVars>>

\* withTimeout gives up on a broadcast that was held up, and does not stop it.
QueueTimeout ==
  /\ job.at \in {"sending", "waiting"} /\ stalled
  /\ stray' = [stray EXCEPT ![job.pay] = @ + job.left]
  /\ Fails
  /\ UNCHANGED <<used, settling, tail, ackSeen, chain, boardVars, historyVars>>

SendStray(p, taken, heard) ==
  /\ stray[p] > 0
  /\ stray' = [stray EXCEPT ![p] = @ - 1]
  /\ Inject(p, taken, heard)
  /\ UNCHANGED <<used, settling, tickets, pending, tail, job, ackSeen, activations,
                 ackLines, lights, chain, historyVars>>

\* holdMs after the ack: the light has gone out again.
HoldEnds ==
  /\ job.at = "holding"
  /\ Finish
  /\ UNCHANGED <<used, settling, tickets, tail, stray, ackSeen, chain, boardVars, historyVars>>

-----------------------------------------------------------------------------

NoTickets == [p \in Payments |-> "unknown"]
NoCounts == [p \in Payments |-> 0]

\* The bridge is started again; all it knew was in memory.
Restart ==
  /\ restarts < MaxRestarts
  /\ restarts' = restarts + 1
  /\ used' = {} /\ settling' = NoCounts
  /\ tickets' = NoTickets /\ pending' = <<>> /\ tail' = <<>>
  /\ job' = NoJob /\ stray' = NoCounts /\ ackSeen' = FALSE
  /\ UNCHANGED <<chain, boardVars, lits, stalled>>

Init ==
  /\ used = {} /\ settling = NoCounts
  /\ tickets = NoTickets /\ pending = <<>> /\ tail = <<>>
  /\ job = NoJob /\ stray = NoCounts /\ ackSeen = FALSE
  /\ chain = {}
  /\ demoCell = NoPayment /\ mailbox = NoPayment
  /\ activations = 0 /\ ackLines = 0
  /\ lights = NoCounts
  /\ lits = 0 /\ restarts = 0 /\ stalled = FALSE

\* What the bridge does by itself with the activation at the head.
Runs ==
  \/ StartNext
  \/ \E taken, heard \in BOOLEAN : SendCopy(taken, heard)
  \/ AwaitSees
  \/ AwaitExpires
  \/ HoldEnds

Next ==
  \/ \E p \in Payments : Activate(p) \/ ChainTakes(p) \/ SettleOk(p) \/ SettleFails(p)
  \/ Runs
  \/ WriteStalls
  \/ SendThrows
  \/ QueueTimeout
  \/ \E taken, heard \in BOOLEAN, p \in Payments : SendStray(p, taken, heard)
  \/ \E heard \in BOOLEAN : BroadcastDemoCell(heard)
  \/ \E accepted \in BOOLEAN : DrainPendingActuator(accepted)
  \/ \E legible \in BOOLEAN : ReadAckLine(legible)
  \/ Restart

Spec == Init /\ [][Next]_vars

-----------------------------------------------------------------------------
(* Properties *)

TicketStates == {"unknown", "queued", "lighting", "lit", "failed"}

\* The state keeps its type.
PaidTypeOK ==
  /\ used \subseteq Payments
  /\ settling \in [Payments -> Nat]
  /\ tickets \in [Payments -> TicketStates]
  /\ pending \in Seq(Payments) /\ tail \in Seq(Payments)
  /\ job \in [at: {"idle", "sending", "waiting", "holding"},
              pay: Payments \cup {NoPayment}, left: 0..Copies]
  /\ stray \in [Payments -> Nat]
  /\ ackSeen \in BOOLEAN
  /\ chain \subseteq Payments
  /\ {demoCell, mailbox} \subseteq Payments \cup {NoPayment}
  /\ {activations, ackLines, lits, restarts} \subseteq Nat
  /\ lights \in [Payments -> Nat]
  /\ stalled \in BOOLEAN

\* What GET /queue tells a waiting payer is where the payment is: the places in
\* the list and the links of the chain are the same payments in the same order,
\* each once, and the ticket says on which of them it is.
QueueMatchesTickets ==
  /\ pending = (IF job.at = "idle" THEN <<>> ELSE <<job.pay>>) \o tail
  /\ \A i, j \in 1..Len(pending) : pending[i] = pending[j] => i = j
  /\ \A p \in Payments :
       /\ tickets[p] = "queued" <=> Contains(tail, p)
       /\ tickets[p] = "lighting" <=> job.at \in {"sending", "waiting"} /\ job.pay = p

\* A payment is refused as spent exactly while one request for it is being
\* settled or it has a ticket: one that did not settle may be tried again
\* (bridge.ts:288).
ClaimedWhileLive ==
  \A p \in Payments :
    /\ p \in used <=> settling[p] > 0 \/ tickets[p] # "unknown"
    /\ settling[p] > 0 => settling[p] = 1 /\ tickets[p] = "unknown"

\* A payment lights once in the life of the bridge process, whatever is lost,
\* thrown or given up, on a stage where no write was ever held up (bridge.ts:154,
\* "a replay never re-lights").
LightsOncePerRun ==
  DemoScriptOnly /\ ~stalled => \A p \in Payments : lights[p] <= restarts + 1

\* At any time no more payers have been told "lit" than the board has lit: no
\* ack serves two payers.
LitsAreBacked == lits <= activations

\* No light before the payment is on the chain.
PaidBeforeLit == BroadcastOnVerify => \A p \in Payments : lights[p] > 0 => p \in chain

\* What serial-mesh.ts:104 says of sending every cell three times: "the device
\* dedups on cell content, so at most one actuation results".  No run has it, for
\* the boards break it: with DEMO_SCRIPT_ONLY off each copy may light the lamp.
AtMostOneActuation == restarts = 0 => \A p \in Payments : lights[p] <= 1

-----------------------------------------------------------------------------
(* The inductive invariant *)

One(b) == IF b THEN 1 ELSE 0

Acting == job.at \in {"sending", "waiting"}

\* A payment that may yet be put on the demo stage.
ToStage(p) ==
  settling[p] > 0 \/ tickets[p] = "queued"
    \/ (job.at = "sending" /\ job.pay = p /\ demoCell # p)

\* Whatever may yet become a light of p counts as one, on the stage and while
\* no write was held up.
LightsToCome ==
  DemoScriptOnly /\ ~stalled
    => \A p \in Payments :
         lights[p] + One(mailbox = p) + One(demoCell = p) + One(ToStage(p))
           <= restarts + One(p \in used)

\* An activation is spent once: as a line to be read, as the ack that counts
\* for the payer of the activation under way, as a payer told "lit".
AcksAreSpentOnce == lits + ackLines + One(ackSeen /\ Acting) <= activations

\* Everything on its way to a light belongs to a payment on the chain.
OnlySettledActs ==
  BroadcastOnVerify =>
    \A p \in Payments :
      (tickets[p] # "unknown" \/ stray[p] > 0 \/ demoCell = p \/ mailbox = p \/ lights[p] > 0)
        => p \in chain

\* Only a write that was held up makes an activation be given up unfinished.
StraysFollowStalls == stalled \/ \A p \in Payments : stray[p] = 0

\* The activation under way is some payment's, with copies to send.
JobHasPayment ==
  /\ job.at # "idle" => job.pay \in Payments
  /\ job.at = "sending" => job.left > 0
  /\ job.at # "sending" => job.left = 0
  /\ job.at = "holding" => tickets[job.pay] = "lit"

\* The inductive invariant of the payments, the queue and the boards.
PaidInv ==
  /\ PaidTypeOK
  /\ QueueMatchesTickets
  /\ ClaimedWhileLive
  /\ JobHasPayment
  /\ StraysFollowStalls
  /\ LightsToCome
  /\ AcksAreSpentOnce
  /\ OnlySettledActs

=============================================================================
