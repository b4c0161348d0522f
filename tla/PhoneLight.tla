------------------------------ MODULE PhoneLight ------------------------------
(***************************************************************************)
(* Phones at the paid light: the page in a wallet browser                   *)
(* (tools/x402-bridge/web/light-client.ts), the HTTP routes and the checks   *)
(* before a payment is claimed (light.ts, bridge.ts, onchain-payment.ts),    *)
(* over the bridge and the boards of PaidLight.                             *)
(*                                                                          *)
(* A page shows a price, has the wallet sign a payment, posts it and polls   *)
(* the queue.  A tap takes a new payment; the ticket of the last one that    *)
(* was accepted is in localStorage and outlives the page.  Agents post       *)
(* payments of their own, and anyone may post a signed payment again.        *)
(***************************************************************************)
EXTENDS PaidLight

CONSTANTS
  Phones,         \* the pages
  PhonePayments,  \* the payments wallets in phones may sign; the others are agents'
  Pays,           \* payment -> what it pays to the bridge's receive script
  Price, MaxSats  \* costSats, and the guardrail of --max-sats

ASSUME PhoneAssumption ==
  /\ PhonePayments \subseteq Payments
  /\ Pays \in [Payments -> Nat] /\ Price \in Nat \ {0} /\ MaxSats \in Nat

VARIABLES
  page,    \* phone -> where go() and poll() are, and the payment they are about
  saved,   \* phone -> localStorage "light.ticket"
  signed   \* payments whose signed transaction exists

phoneVars == <<page, saved, signed>>
allVars == <<vars, phoneVars>>

At(where, p) == [at |-> where, pay |-> p]
Idle == At("idle", NoPayment)

-----------------------------------------------------------------------------
(* What the bridge answers *)

\* Brc29OnchainVerifier.verify: all outputs to the receive script together.
Verified(p) ==
  /\ Price <= MaxSats
  /\ Pays[p] # 0 /\ Pays[p] >= Price /\ Pays[p] <= MaxSats

\* GET /queue?ticket=
QueueStatus(p) ==
  [state |-> tickets[p],
   ahead |-> IF Contains(pending, p) THEN SelectInSeq(pending, LAMBDA q : q = p) - 1 ELSE 0]

-----------------------------------------------------------------------------
(* The page *)

\* go(): discover() is read, and the wallet asked.  A bridge that takes no real
\* payments offers no script to pay, and the tap ends in an error.
Tap(f) ==
  /\ page[f].at = "idle"
  /\ \E p \in PhonePayments \ signed : page' = [page EXCEPT ![f] = At("wallet", p)]
  /\ UNCHANGED <<vars, saved, signed>>

\* createAction answers, and the page sends the payment to the bridge.
WalletSigns(f) ==
  /\ page[f].at = "wallet" /\ page[f].pay \notin signed
  /\ signed' = signed \cup {page[f].pay}
  /\ page' = [page EXCEPT ![f].at = "sending"]
  /\ UNCHANGED <<vars, saved>>

\* The wallet refuses, or does not answer in 90 s: it may sign later, but
\* nobody waits for it.
WalletFails(f, signsLate) ==
  /\ page[f].at = "wallet"
  /\ signed' = IF signsLate THEN signed \cup {page[f].pay} ELSE signed
  /\ page' = [page EXCEPT ![f] = Idle]
  /\ UNCHANGED <<vars, saved>>

\* The request reaches the bridge, is verified and claimed.
Post(f) ==
  /\ page[f].at = "sending"
  /\ Verified(page[f].pay)
  /\ Activate(page[f].pay)
  /\ page' = [page EXCEPT ![f].at = "posting"]
  /\ UNCHANGED <<saved, signed>>

\* 202: the ticket is remembered and polled.
Accepted(f) ==
  /\ page[f].at = "posting" /\ tickets[page[f].pay] # "unknown"
  /\ saved' = [saved EXCEPT ![f] = page[f].pay]
  /\ page' = [page EXCEPT ![f].at = "polling"]
  /\ UNCHANGED <<vars, signed>>

\* Another status (it pays too little, the settlement failed, somebody posted it
\* first), or no answer at all, though the payment may be in the queue: the page
\* shows an error and takes the next tap.
Rejected(f) ==
  /\ page[f].at \in {"sending", "posting"}
  /\ page' = [page EXCEPT ![f] = Idle]
  /\ UNCHANGED <<vars, saved, signed>>

\* poll(): lit, failed and unknown end it; any other answer, and a blip, makes
\* it ask again.
PollEnds(f) ==
  /\ page[f].at = "polling" /\ QueueStatus(page[f].pay).state \in {"lit", "failed", "unknown"}
  /\ saved' = [saved EXCEPT ![f] = NoPayment]
  /\ page' = [page EXCEPT ![f] = Idle]
  /\ UNCHANGED <<vars, signed>>

\* The page is closed or reloaded; a wallet it left waiting may sign.
Close(f, signsLate) ==
  /\ page[f].at \notin {"idle", "closed"}
  /\ signed' = IF page[f].at = "wallet" /\ signsLate THEN signed \cup {page[f].pay} ELSE signed
  /\ page' = [page EXCEPT ![f] = At("closed", NoPayment)]
  /\ UNCHANGED <<vars, saved>>

\* The page starts and picks a saved ticket up again.
Open(f) ==
  /\ page[f].at = "closed"
  /\ page' = [page EXCEPT ![f] = IF saved[f] = NoPayment THEN Idle ELSE At("polling", saved[f])]
  /\ UNCHANGED <<vars, saved, signed>>

-----------------------------------------------------------------------------
(* The whole *)

\* An agent posts a payment of its own, or a signed one is posted again.
Resubmit(p) ==
  /\ p \in signed \/ p \notin PhonePayments
  /\ Verified(p)
  /\ Activate(p)
  /\ UNCHANGED phoneVars

PhoneStep(f) ==
  \/ Tap(f) \/ WalletSigns(f) \/ Post(f) \/ Accepted(f) \/ Rejected(f) \/ PollEnds(f) \/ Open(f)
  \/ \E signsLate \in BOOLEAN : WalletFails(f, signsLate) \/ Close(f, signsLate)

\* The bridge and the boards, apart from the requests.
MeshStep ==
  /\ \/ \E p \in Payments : ChainTakes(p) \/ SettleOk(p) \/ SettleFails(p)
     \/ Runs
     \/ WriteStalls
     \/ SendThrows
     \/ QueueTimeout
     \/ \E taken, heard \in BOOLEAN, p \in Payments : SendStray(p, taken, heard)
     \/ \E heard \in BOOLEAN : BroadcastDemoCell(heard)
     \/ \E accepted \in BOOLEAN : DrainPendingActuator(accepted)
     \/ \E legible \in BOOLEAN : ReadAckLine(legible)
     \/ Restart
  /\ UNCHANGED phoneVars

PhoneInit ==
  /\ Init
  /\ page = [f \in Phones |-> Idle]
  /\ saved = [f \in Phones |-> NoPayment]
  /\ signed = {}

PhoneNext ==
  \/ MeshStep
  \/ \E p \in Payments : Resubmit(p)
  \/ \E f \in Phones : PhoneStep(f)

PhoneSpec == PhoneInit /\ [][PhoneNext]_allVars

\* Timers fire and promises settle in the bridge, an open page polls every
\* second; wallets, the network, the boards and people need do nothing.
PhoneFairSpec ==
  /\ PhoneSpec
  /\ WF_allVars(Runs /\ UNCHANGED phoneVars)
  /\ \A f \in Phones : WF_allVars(PollEnds(f))

-----------------------------------------------------------------------------
(* Properties *)

\* A ticket the page holds is one the bridge has accepted in this life of its
\* process: "The bridge has forgotten this payment ... It may have restarted"
\* (light-client.ts:91) is never shown for any other reason.
SavedIsAccepted ==
  restarts = 0 =>
    \A f \in Phones : saved[f] # NoPayment => tickets[saved[f]] # "unknown" /\ saved[f] \in used

\* A page that polls comes to an end, whatever the mesh does and whenever the
\* bridge restarts, unless it is closed.
EveryPollEnds == \A f \in Phones : []<>(page[f].at # "polling")

=============================================================================
