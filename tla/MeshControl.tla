------------------------------ MODULE MeshControl ------------------------------
(***************************************************************************)
(* The mesh control plane (tools/x402-bridge/mesh-control.ts): HTTP requests *)
(* that put signed cells on the mesh through one serial port, the payments   *)
(* and the event log that go with some of them, the channel forwards are     *)
(* paid from (channel-anchor.ts), the injector board and one relay board     *)
(* (examples/mesh_demo/main/main.c, cell_forward_admit.zig).                 *)
(*                                                                          *)
(* The process is single-threaded: what lies between two awaits is one step, *)
(* and every request keeps what it read before an await.  The two hops of a  *)
(* route have counters that move together, so one board stands for both.     *)
(*                                                                          *)
(* A sleep of 2.5 or 3 s ends when the injector no longer holds the cell     *)
(* sent before it (it waits 1.8 s after the last one); the 0.4 s of the      *)
(* bad-key route may end before.  A cert's hash is its time of issue.        *)
(***************************************************************************)
EXTENDS Integers, Sequences, FiniteSets

CONSTANTS
  Requests,      \* the requests that may be under way at once
  Kinds,         \* the routes that are called
  NoId,          \* the all-zero channel id: the demo channel
  RelayDomain, PaymentDomain,  \* DOMAIN.meshRelay, DOMAIN.meshPayment
  AnyDomain, NoExpiry, Free, TableMax,  \* of the capability table
  HopCost,       \* FWD_V1_HOP_COST
  Threshold,     \* SETTLE_THRESHOLD_SATS
  Capacity,      \* FWD_V1_DEMO_CAPACITY
  EvidenceCopies,  \* channel_settle cells of one settlement, 3 in the code
  MaxSeq,        \* bound: seqs of a counter
  MaxCerts,      \* bound: certificates issued
  MaxChannels,   \* bound: channels funded
  MaxResets      \* bound: restarts of the process and reboots of the board

ASSUME ControlAssumption ==
  /\ Kinds \subseteq {"v0", "v1", "v2", "bad", "cert", "open", "plain", "pay", "scada"}
  /\ {TableMax, HopCost, Threshold, EvidenceCopies} \subseteq Nat \ {0}
  /\ {Capacity, MaxSeq, MaxCerts, MaxChannels, MaxResets} \subseteq Nat
  /\ NoId \notin 1..MaxChannels
  /\ IsFiniteSet(Requests)
  /\ Free \notin [chan: 1..MaxChannels \cup {NoId}, edge: 1..MaxChannels \cup {NoId},
                 expiry: {NoExpiry}, from: Nat, domain: {RelayDomain}]

\* What the amounts of the demo leave room for: a grant of the demo channel and
\* one of a funded channel, more than one forward before a settlement, and every
\* forward that is counted.
ASSUME RoomAssumption ==
  TableMax > 1 /\ Threshold > 2 * HopCost /\ MaxSeq * HopCost <= Capacity

INSTANCE CapabilityTable
INSTANCE CellChannel

Funded == 1..MaxChannels
ChannelIds == Funded \cup {NoId}

VARIABLES
  chan,       \* s_currentChannelId
  flag,       \* s_capCertInjected
  certHashes, \* s_certHashes: channel -> hash, 0 when it has none
  seqs,       \* fwdV1Ch and fwdV2Ch; the share is seq * HopCost
  active,     \* activeChannel, NoId for null
  books,      \* the ChannelState of a channel
  reqs,       \* the requests under way
  line,       \* injectChain: the requests that wait for the port
  stage,      \* s_demo_cell of the injector, while s_demo_pending
  board,      \* the relay board: s_cap_table, s_fwd_channel, s_fwdv2_burst
  chain,      \* channel -> what the network knows of its funding
  clock,      \* Date.now() of the last certificate
  refused,    \* history: why the board refused a forward while all was calm
  calm,       \* history: one route, one request at a time, nothing was lost
  unbooked,   \* history: forwards counted since the channel opened, never booked
  resets      \* resets so far

hostVars == <<chan, flag, certHashes, seqs, active, books>>
portVars == <<line, stage>>
boardVars == <<board, refused>>
historyVars == <<calm, unbooked, resets>>
vars == <<hostVars, reqs, portVars, boardVars, chain, clock, historyVars>>

NoCell == [kind |-> "none"]
Idle == [at |-> "idle", kind |-> "none", chan |-> NoId, seq |-> 0,
         cell |-> NoCell, then |-> NoCell, left |-> 0]
NewBook == [accum |-> 0, finalSeq |-> 0, settled |-> FALSE]
NoBook == [NewBook EXCEPT !.settled = TRUE]
NewBoard ==
  [table |-> EmptyTable, burst |-> NoCell,
   fwd |-> ApplyOpen(ChannelInit, [id |-> NoId, capacity |-> Capacity])]

Busy == {r \in Requests : reqs[r].at # "idle"}

-----------------------------------------------------------------------------
(* Cells *)

\* domainForType: a certificate grants on the rail its forwards are used on.
Rail(kind) == IF kind = "settle" THEN PaymentDomain ELSE RelayDomain

\* The key of a channel's forwards is derived from its id.
RelayKey(c) == c
RandomKey == -1

CertCell(c, from) ==
  [kind |-> "cert", cert |-> [chan |-> c, edge |-> RelayKey(c), expiry |-> NoExpiry,
                              from |-> from, domain |-> Rail("cert")]]

Commitment(c, seq) ==
  [id |-> c, seq |-> seq, deviceShare |-> seq * HopCost, userShare |-> 0,
   expiry |-> 1, hash |-> certHashes[c]]

ForwardCell(commitment, key) == [kind |-> "v1", pay |-> commitment, key |-> key]

CellV0 == [kind |-> "v0"]

\* The flow id of a burst is a digest of what Cell B says.
CellA(commitment, key) == [kind |-> "v2a", flow |-> commitment, key |-> key]
CellB(commitment) == [kind |-> "v2b", pay |-> commitment]

\* Rules, taps, heartbeats, scripts and actuations: nothing here depends on
\* what a board makes of them.
PlainCell == [kind |-> "plain"]

SettleCell(c, book) ==
  [kind |-> "settle", chan |-> c, seq |-> book.finalSeq, share |-> book.accum]

-----------------------------------------------------------------------------
(* Steps of a request *)

\* Its next cell joins the queue of the port.
Inject(r, req) ==
  /\ reqs' = [reqs EXCEPT ![r] = req]
  /\ line' = Append(line, r)

Ends(r) == reqs' = [reqs EXCEPT ![r] = Idle] /\ UNCHANGED line

\* injectCapabilityCert: the hash is kept before the cell is sent.
IssueCert(r, kind, c) ==
  /\ clock' = clock + 1
  /\ certHashes' = [certHashes EXCEPT ![c] = clock + 1]
  /\ Inject(r, [Idle EXCEPT !.at = "certing", !.kind = kind, !.chan = c,
                            !.cell = CertCell(c, clock + 1)])
  /\ UNCHANGED <<chan, flag, seqs, active, books, unbooked>>

Version(kind) == IF kind = "v2" THEN "v2" ELSE "v1"

NextSeq(v) == seqs[v] + 1

\* One more forward that an open channel will not be charged for.
Missed == IF books[active].settled THEN unbooked ELSE unbooked + 1

\* The counter of a version moves, and then the trigger may prove bad.
Counted(r, kind, c, cells, triggerOk) ==
  LET v == Version(kind) IN
  /\ seqs' = [seqs EXCEPT ![v] = @ + 1]
  /\ IF triggerOk
     THEN /\ Inject(r, [Idle EXCEPT !.at = "sending", !.kind = kind, !.chan = c,
                          !.seq = seqs[v] + 1, !.cell = cells[1], !.then = cells[2]])
          /\ UNCHANGED unbooked
     ELSE Ends(r) /\ unbooked' = Missed
  /\ UNCHANGED <<chan, flag, certHashes, active, books, clock>>

ForwardV1(r, c, triggerOk) ==
  LET pay == Commitment(c, NextSeq("v1")) IN
  Counted(r, "v1", c, <<ForwardCell(pay, RelayKey(c)), NoCell>>, triggerOk)

\* The bad-key route forwards on the channel that is the current one by now.
ForwardBadKey(r) ==
  LET pay == Commitment(chan, NextSeq("v1")) IN
  Counted(r, "bad", chan, <<ForwardCell(pay, RandomKey), NoCell>>, TRUE)

ForwardV2(r, c, triggerOk) ==
  LET pay == Commitment(c, NextSeq("v2")) IN
  Counted(r, "v2", c, <<CellA(pay, RelayKey(c)), CellB(pay)>>, triggerOk)

\* A forward.v0 carries no commitment.
ForwardV0(r) ==
  /\ Inject(r, [Idle EXCEPT !.at = "sending", !.kind = "v0", !.cell = CellV0])
  /\ UNCHANGED <<hostVars, clock, unbooked>>

\* What a request does once a certificate is out.
Proceed(r, kind, c, triggerOk) ==
  \/ kind = "v0" /\ ForwardV0(r)
  \/ kind = "v1" /\ ForwardV1(r, c, triggerOk)
  \/ kind = "bad" /\ ForwardBadKey(r)
  \/ kind = "v2" /\ ForwardV2(r, c, triggerOk)

\* openChannel: the funding transaction is on its way.
FundChannel(r) ==
  /\ reqs' = [reqs EXCEPT ![r] = [Idle EXCEPT !.at = "funding", !.kind = "open"]]
  /\ UNCHANGED <<hostVars, line, clock, unbooked>>

\* A cell that needs no certificate.
InjectPlain(r, kind) ==
  /\ Inject(r, [Idle EXCEPT !.at = "sending", !.kind = kind, !.cell = PlainCell])
  /\ UNCHANGED <<hostVars, clock, unbooked>>

\* The wallet is asked first: to pay (and the payment is broadcast), to sign for
\* the interlock, or for the key of the event log.
AskWallet(r, kind) ==
  /\ reqs' = [reqs EXCEPT ![r] = [Idle EXCEPT !.at = "wallet", !.kind = kind]]
  /\ UNCHANGED <<hostVars, line, clock, unbooked>>

Forwards == {"v0", "v1", "v2", "bad"}

Plain == {"plain", "pay", "scada"}

\* The bounds of the run: what the requests under way may still use, and one
\* plain request at a time, which starts before the first forward is counted and
\* before any restart.
WithinBounds(kind) ==
  LET more == Cardinality(Busy) IN
  /\ kind \in {"v1", "v2", "bad"} => seqs[Version(kind)] + more < MaxSeq
  /\ kind \in Forwards \cup {"cert"} => clock + more < MaxCerts
  /\ kind \in Plain => seqs.v1 + seqs.v2 + resets = 0 /\ \A r \in Busy : reqs[r].kind \notin Plain
  /\ kind = "open" => Cardinality({c \in Funded : chain[c] # "none"}) + more < MaxChannels

\* A calm operator waits for the boards, keeps to one version of the forward,
\* and opens a channel before the first.
KeepsCalm(kind) ==
  /\ Busy = {} /\ stage = NoCell
  /\ kind # "bad"
  /\ kind = "v1" => seqs.v2 = 0
  /\ kind = "v2" => seqs.v1 = 0
  /\ kind = "open" => board.fwd.state = "OPEN"

Start(r, kind, triggerOk) ==
  /\ reqs[r] = Idle /\ WithinBounds(kind)
  /\ \/ kind = "open" /\ books[active].settled /\ FundChannel(r)
     \/ kind \in {"plain", "scada"} /\ InjectPlain(r, kind)
     \/ kind \in {"pay", "scada"} /\ AskWallet(r, kind)
     \/ (kind = "cert" \/ (kind \in Forwards /\ ~flag)) /\ IssueCert(r, kind, chan)
     \/ kind \in Forwards /\ flag /\ Proceed(r, kind, chan, triggerOk)
  /\ calm' = (calm /\ KeepsCalm(kind) /\ triggerOk)
  /\ UNCHANGED <<stage, boardVars, chain, resets>>

-----------------------------------------------------------------------------
(* The port *)

\* Faulty variant: the next write waits for one that succeeds.
LineAfterWrite(ok) == IF ok THEN Tail(line) ELSE line

\* serialize: the next write starts whatever became of this one.
LineAfter(ok) == Tail(line)

\* The write of a cell is over and the injector took it, or lost both frames.
Written(r, taken) ==
  /\ line # <<>> /\ r = Head(line)
  /\ stage' = IF taken THEN reqs[r].cell ELSE stage
  /\ line' = LineAfter(TRUE)
  /\ calm' = (calm /\ taken)
  /\ UNCHANGED <<boardVars, chain, clock, resets>>

CertInjected(r, taken) ==
  /\ reqs[r].at = "certing"
  /\ Written(r, taken)
  /\ flag' = TRUE
  /\ reqs' = [reqs EXCEPT ![r] = IF reqs[r].kind = "cert" THEN Idle
                                 ELSE [@ EXCEPT !.at = "settle"]]
  /\ UNCHANGED <<chan, certHashes, seqs, active, books, unbooked>>

\* Faulty variant: a pause may be too short for the injector.
PauseShort(r) == TRUE

\* A pause outlasts the hold of the injector, but for the bad-key route's.
PauseOver(r) == reqs[r].kind = "bad" \/ stage # reqs[r].cell

\* The pause after a certificate is over.
CertSettled(r, triggerOk) ==
  /\ reqs[r].at = "settle" /\ PauseOver(r)
  /\ Proceed(r, reqs[r].kind, reqs[r].chan, triggerOk)
  /\ calm' = (calm /\ triggerOk)
  /\ UNCHANGED <<stage, boardVars, chain, resets>>

\* Faulty variant: one of the two hops is booked.
BookOneHop(book, seq) ==
  [book EXCEPT !.accum = @ + HopCost, !.finalSeq = IF seq > @ THEN seq ELSE @]

\* accumulateHop
Book(book, seq) ==
  [book EXCEPT !.accum = @ + 2 * HopCost, !.finalSeq = IF seq > @ THEN seq ELSE @]

\* A forward is out: it is booked on the channel that is active now, which past
\* the threshold is settled for what is booked so far.
ForwardOut(r) ==
  IF reqs[r].kind \in {"v0", "bad", "plain", "scada"} \/ books[active].settled
  THEN /\ reqs' = [reqs EXCEPT ![r] =
            IF reqs[r].kind = "scada" THEN [Idle EXCEPT !.at = "anchoring", !.kind = "scada"]
            ELSE Idle]
       /\ unbooked' = IF reqs[r].kind = "bad" THEN Missed ELSE unbooked
       /\ UNCHANGED books
  ELSE LET b == Book(books[active], reqs[r].seq) IN
       /\ books' = [books EXCEPT ![active] = b]
       /\ reqs' = [reqs EXCEPT ![r] =
            IF b.accum >= Threshold
            THEN [Idle EXCEPT !.at = "settling", !.kind = reqs[r].kind, !.chan = active]
            ELSE Idle]
       /\ UNCHANGED unbooked

\* A forward, or the first cell of a burst, was written.
ForwardInjected(r, taken) ==
  /\ reqs[r].at = "sending"
  /\ Written(r, taken)
  /\ IF reqs[r].then = NoCell THEN ForwardOut(r)
     ELSE /\ reqs' = [reqs EXCEPT ![r].at = "gap"]
          /\ UNCHANGED <<books, unbooked>>
  /\ UNCHANGED <<chan, flag, certHashes, seqs, active>>

\* The pause between the cells of a burst is over.
GapOver(r) ==
  /\ reqs[r].at = "gap" /\ PauseOver(r)
  /\ Inject(r, [reqs[r] EXCEPT !.at = "sending", !.cell = reqs[r].then, !.then = NoCell])
  /\ UNCHANGED <<hostVars, stage, boardVars, chain, clock, historyVars>>

\* The port cannot be opened: a request ends, and with it what it had counted.
InjectionFails(r) ==
  /\ line # <<>> /\ r = Head(line)
  /\ line' = LineAfter(FALSE)
  /\ reqs' = [reqs EXCEPT ![r] = Idle]
  /\ unbooked' = IF reqs[r].at = "sending" /\ reqs[r].kind \in {"v1", "v2", "bad"} THEN Missed ELSE unbooked
  /\ calm' = FALSE
  /\ UNCHANGED <<hostVars, stage, boardVars, chain, clock, resets>>

-----------------------------------------------------------------------------
(* Settlement and funding (channel-anchor.ts) *)

\* The network takes the settlement of an output that is not spent, and the
\* answer may be lost.  The evidence is written from the channel active now.
SettleReturns(r, ok) ==
  LET c == reqs[r].chan IN
  /\ reqs[r].at = "settling"
  /\ \/ /\ chain[c] = "funded"
        /\ chain' = [chain EXCEPT ![c] = "spent"]
     \/ ~ok /\ UNCHANGED chain
  /\ IF ok
     THEN /\ books' = [books EXCEPT ![c].settled = TRUE]
          /\ Inject(r, [reqs[r] EXCEPT !.at = "evidence", !.left = EvidenceCopies,
                                       !.cell = SettleCell(active, books[active])])
     ELSE Ends(r) /\ UNCHANGED books
  /\ UNCHANGED <<chan, flag, certHashes, seqs, active, stage, boardVars, clock, historyVars>>

EvidenceInjected(r, taken) ==
  /\ reqs[r].at = "evidence"
  /\ line # <<>> /\ r = Head(line)
  /\ stage' = IF taken THEN reqs[r].cell ELSE stage
  /\ LET more == reqs[r].left > 1 IN
       /\ reqs' = IF more THEN [reqs EXCEPT ![r].left = @ - 1] ELSE [reqs EXCEPT ![r] = Idle]
       /\ line' = IF more THEN Append(Tail(line), r) ELSE Tail(line)
  /\ UNCHANGED <<hostVars, boardVars, chain, clock, historyVars>>

Fresh == {c \in Funded : chain[c] = "none"}

\* The funding is on the chain: the channel becomes the active one, with fresh
\* counters and no certificate.
FundingReturns(r) ==
  /\ reqs[r].at = "funding"
  /\ \E c \in Fresh :
       /\ chain' = [chain EXCEPT ![c] = "funded"]
       /\ chan' = c /\ active' = c
       /\ books' = [books EXCEPT ![c] = NewBook]
  /\ seqs' = [v1 |-> 0, v2 |-> 0]
  /\ flag' = FALSE
  /\ unbooked' = 0
  /\ Ends(r)
  /\ UNCHANGED <<certHashes, stage, boardVars, clock, calm, resets>>

\* The wallet refuses, the broadcast fails, or its answer is lost.
FundingFails(r) ==
  /\ reqs[r].at = "funding"
  /\ \/ \E c \in Fresh : chain' = [chain EXCEPT ![c] = "funded"]
     \/ UNCHANGED chain
  /\ Ends(r)
  /\ UNCHANGED <<hostVars, stage, boardVars, clock, historyVars>>

-----------------------------------------------------------------------------
(* Payments and the historian *)

\* The wallet and the network have done their part and the actuation is
\* injected; or they refuse, and nothing is.
WalletReturns(r, ok) ==
  /\ reqs[r].at = "wallet"
  /\ IF ok THEN InjectPlain(r, IF reqs[r].kind = "pay" THEN "plain" ELSE "scada")
     ELSE Ends(r) /\ UNCHANGED <<hostVars, clock, unbooked>>
  /\ UNCHANGED <<stage, boardVars, chain, calm, resets>>

\* anchorScadaCell: the event goes on the chain after the actuation, or fails to.
AnchorReturns(r) ==
  /\ reqs[r].at = "anchoring"
  /\ Ends(r)
  /\ UNCHANGED <<hostVars, stage, boardVars, chain, clock, historyVars>>

-----------------------------------------------------------------------------
(* The boards *)

Cert(c) == Lookup(board.table, c, Rail("v1"), 1)

\* The channel after F6: a real id replaces the demo one, once.
Adopted(pay) ==
  IF board.fwd.state = "OPEN" /\ board.fwd.id = NoId
  THEN [board.fwd EXCEPT !.id = pay.id] ELSE board.fwd

\* admitCapabilityTail: why a commitment signed with a key is refused.
Refusal(pay, key) ==
  IF Cert(pay.id) = Free THEN "no_cert"
  ELSE IF key # Cert(pay.id).edge THEN "sig_invalid"
  ELSE IF pay.hash # Cert(pay.id).from THEN "cert_hash_mismatch"
  ELSE IF ~AcceptsCommitment(Adopted(pay), pay, 0) THEN "channel_reject"
  ELSE "none"

Refuses(why) == refused' = IF calm THEN refused \cup why ELSE refused

\* The id is adopted whatever becomes of the commitment.
Admit(b, pay, key) ==
  LET why == Refusal(pay, key) IN
  /\ board' = [b EXCEPT !.fwd = IF why \in {"none", "channel_reject"}
                                THEN ApplyCommitment(Adopted(pay), pay, 0) ELSE @]
  /\ Refuses({why} \ {"none"})

Hear(cell) ==
  \/ /\ cell.kind = "cert"
     /\ board' = [board EXCEPT !.table = Install(@, RelayDomain, cell.cert, 1)]
     /\ UNCHANGED refused
  \/ /\ cell.kind = "v0"
     /\ UNCHANGED board
     /\ Refuses(IF \E i \in Slots : /\ Occupied(board.table, i, 1)
                                  /\ board.table[i].domain = Rail("v0")
                THEN {} ELSE {"no_grant"})
  \/ cell.kind = "v1" /\ Admit(board, cell.pay, cell.key)
  \/ /\ cell.kind = "v2a"
     /\ board' = [board EXCEPT !.burst = cell]
     /\ UNCHANGED refused
  \/ /\ cell.kind = "v2b"
     /\ IF board.burst # NoCell /\ board.burst.flow = cell.pay
        THEN Admit([board EXCEPT !.burst = NoCell], cell.pay, board.burst.key)
        ELSE /\ board' = [board EXCEPT !.burst = NoCell]
             /\ Refuses({"no_cell_a"})
  \/ cell.kind \in {"settle", "plain"} /\ UNCHANGED boardVars

\* The injector sends what it holds, and the board may miss it.
Broadcast(heard) ==
  /\ stage # NoCell
  /\ stage' = NoCell
  /\ IF heard THEN Hear(stage) ELSE UNCHANGED boardVars
  /\ calm' = (calm /\ heard)
  /\ UNCHANGED <<hostVars, reqs, line, chain, clock, unbooked, resets>>

-----------------------------------------------------------------------------
(* Restarts *)

BoardReboots ==
  /\ resets < MaxResets
  /\ resets' = resets + 1
  /\ board' = NewBoard
  /\ calm' = FALSE
  /\ UNCHANGED <<hostVars, reqs, portVars, refused, chain, clock, unbooked>>

\* The process keeps nothing.
ProcessRestarts ==
  /\ resets < MaxResets
  /\ resets' = resets + 1
  /\ chan' = NoId /\ active' = NoId /\ flag' = FALSE
  /\ certHashes' = [c \in ChannelIds |-> 0]
  /\ seqs' = [v1 |-> 0, v2 |-> 0]
  /\ books' = [c \in ChannelIds |-> NoBook]
  /\ reqs' = [r \in Requests |-> Idle]
  /\ line' = <<>>
  /\ unbooked' = 0
  /\ calm' = FALSE
  /\ UNCHANGED <<stage, boardVars, chain, clock>>

-----------------------------------------------------------------------------

Init ==
  /\ chan = NoId /\ flag = FALSE /\ active = NoId
  /\ certHashes = [c \in ChannelIds |-> 0]
  /\ seqs = [v1 |-> 0, v2 |-> 0]
  /\ books = [c \in ChannelIds |-> NoBook]
  /\ reqs = [r \in Requests |-> Idle]
  /\ line = <<>> /\ stage = NoCell
  /\ board = NewBoard
  /\ chain = [c \in Funded |-> "none"]
  /\ clock = 0
  /\ refused = {} /\ calm = TRUE /\ unbooked = 0 /\ resets = 0

\* A request goes on by itself: its write ends, its pause is over, or the
\* network answers.
Writes(r) ==
  \/ \E taken \in BOOLEAN :
       CertInjected(r, taken) \/ ForwardInjected(r, taken) \/ EvidenceInjected(r, taken)
  \/ InjectionFails(r)

GoesOn(r) ==
  \/ Writes(r)
  \/ \E triggerOk \in BOOLEAN : CertSettled(r, triggerOk)
  \/ GapOver(r)
  \/ \E ok \in BOOLEAN : SettleReturns(r, ok)

Next ==
  \/ \E r \in Requests :
       \/ \E kind \in Kinds, triggerOk \in BOOLEAN : Start(r, kind, triggerOk)
       \/ GoesOn(r)
       \/ FundingReturns(r) \/ FundingFails(r)
       \/ \E ok \in BOOLEAN : WalletReturns(r, ok)
       \/ AnchorReturns(r)
  \/ \E heard \in BOOLEAN : Broadcast(heard)
  \/ BoardReboots \/ ProcessRestarts

Spec == Init /\ [][Next]_vars

\* Writes, timers and the answers of the network come in the end, and so does
\* the injector's broadcast; a wallet may wait for its owner for ever.
FairSpec ==
  /\ Spec
  /\ \A r \in Requests : WF_vars(GoesOn(r))
  /\ WF_vars(\E heard \in BOOLEAN : Broadcast(heard))

-----------------------------------------------------------------------------
(* Properties *)

\* Forwards sent one at a time over one route, with nothing lost on the way, are
\* taken: the certificate is in the board's table before the forward that needs
\* it, the commitment names that certificate, the counters move from the first
\* forward of a channel on, and a burst finds its other half.
LoneForwardsAreTaken == refused = {}

Underway ==
  {r \in Requests : reqs[r].at \in {"sending", "gap"} /\ reqs[r].kind \in {"v1", "v2", "bad"}}

\* What a board was promised over the open channel is in the books the channel
\* will be settled from, but for the forwards under way and the ones that were
\* counted and never booked: a bad trigger, a bad key, a failed write.
BooksCoverBoards ==
  ~books[active].settled /\ board.fwd.id = active =>
    2 * board.fwd.deviceShare
      <= books[active].accum + 2 * HopCost * (Cardinality(Underway) + unbooked)

\* mesh-control.ts: no two channels are open at once, and the one that is open is
\* the one the control plane holds, whose refund it keeps (channel-anchor.ts).  No
\* run has it, for the code breaks it: two calls of /open-channel that overlap
\* both pass the check for an open channel.
UnspentIsHeld == \A c \in Funded : ~books[c].settled => active = c

\* Every request is answered, whatever became of the writes before it; but for
\* those that wait for a wallet, whose owner may never answer.
EveryRequestEnds ==
  \A r \in Requests : []<>(reqs[r].at \in {"idle", "funding", "wallet", "anchoring"})

=============================================================================
