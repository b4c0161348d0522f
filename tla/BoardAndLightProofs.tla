------------------------ MODULE BoardAndLightProofs -------------------------
(***************************************************************************)
(* Theorems about PaidLight, for any payments, any number of copies and     *)
(* restarts, and both builds of the boards; about PhoneLight: with phones,  *)
(* agents and replays around it, the bridge with its boards is still the    *)
(* one of PaidLight, so that every theorem about the latter holds there     *)
(* too; and what a page remembers.  And about what a board does with what   *)
(* it hears: CellFrames, for any senders, slots and frames per cell, and    *)
(* BoardRules, for any table, ring, peers and rules.                        *)
(***************************************************************************)
EXTENDS PhoneLight, CellFrames, BoardRules, FiniteSetTheorems, SequenceTheorems,
        WellFoundedInduction, TLAPS

-----------------------------------------------------------------------------
(* The queue *)

\* What finishes at the head of the list leaves the rest of it.
LEMMA DropFirst ==
  ASSUME NEW S, NEW p \in S, NEW t \in Seq(S)
  PROVE  RemoveFirst(<<p>> \o t, p) = t
<1> DEFINE s == <<p>> \o t
           I == {i \in 1..Len(s) : s[i] = p}
<1>1. s \in Seq(S) /\ Len(s) = Len(t) + 1 /\ s[1] = p /\ 1 \in 1..Len(s)
  OBVIOUS
<1>2. 1 \in I /\ \A i \in I : 1 <= i
  BY <1>1
<1>3. Min(I) = 1
  BY <1>1, <1>2 DEF Min
<1>4. RemoveFirst(s, p) = SubSeq(s, 1, 0) \o SubSeq(s, 2, Len(s))
  <2>1. \E i \in 1..Len(s) : s[i] = p
    BY <1>1
  <2>2. RemoveFirst(s, p) = RemoveAt(s, Min(I))
    BY <1>2, <2>1 DEF RemoveFirst, SelectInSeq
  <2>3. RemoveAt(s, 1) = SubSeq(s, 1, 1 - 1) \o SubSeq(s, 1 + 1, Len(s))
    BY Zenon DEF RemoveAt
  <2>4. 1 - 1 = 0 /\ 1 + 1 = 2
    OBVIOUS
  <2> HIDE DEF I, s
  <2> QED  BY <1>3, <2>2, <2>3, <2>4
<1>5. SubSeq(s, 2, Len(s)) = Tail(s) /\ Tail(s) = t
  BY <1>1, HeadTailProperties, TailIsSubSeq
<1>6. SubSeq(s, 1, 0) = << >>
  BY <1>1
<1> QED  BY <1>4, <1>5, <1>6

\* QueueMatchesTickets in two parts: the list, and the links of the chain.
ListIsChain ==
  /\ job.at = "idle" => pending = tail
  /\ job.at # "idle" => pending = <<job.pay>> \o tail

ChainIsTickets ==
  /\ \A i, j \in 1..Len(tail) : tail[i] = tail[j] => i = j
  /\ \A i \in 1..Len(tail) : tickets[tail[i]] = "queued"
  /\ \A p \in Payments : tickets[p] = "queued" => \E i \in 1..Len(tail) : tail[i] = p
  /\ \A p \in Payments : tickets[p] = "lighting" <=> Acting /\ job.pay = p

LEMMA QueueParts ==
  ASSUME PaidTypeOK, JobHasPayment
  PROVE  QueueMatchesTickets <=> ListIsChain /\ ChainIsTickets
<1> DEFINE Distinct == \A i, j \in 1..Len(pending) : pending[i] = pending[j] => i = j
           TailDistinct == \A i, j \in 1..Len(tail) : tail[i] = tail[j] => i = j
<1>t. /\ pending \in Seq(Payments) /\ tail \in Seq(Payments)
      /\ tickets \in [Payments -> TicketStates]
      /\ job.at \in {"idle", "sending", "waiting", "holding"}
  BY DEF PaidTypeOK
<1>0. /\ <<>> \o tail = tail
      /\ ListIsChain <=> pending = (IF job.at = "idle" THEN <<>> ELSE <<job.pay>>) \o tail
  BY <1>t, ConcatEmptySeq DEF ListIsChain
<1>d. (\A p \in Payments : tickets[p] = "queued" <=> Contains(tail, p))
        <=> /\ \A i \in 1..Len(tail) : tickets[tail[i]] = "queued"
            /\ \A p \in Payments : tickets[p] = "queued" => \E i \in 1..Len(tail) : tail[i] = p
  <2>1. \A i \in 1..Len(tail) : tail[i] \in Payments
    BY <1>t
  <2> QED  BY <2>1 DEF Contains
<1>e. QueueMatchesTickets <=> /\ ListIsChain
                              /\ Distinct
                              /\ \A i \in 1..Len(tail) : tickets[tail[i]] = "queued"
                              /\ \A p \in Payments :
                                   tickets[p] = "queued" => \E i \in 1..Len(tail) : tail[i] = p
                              /\ \A p \in Payments :
                                   tickets[p] = "lighting" <=> Acting /\ job.pay = p
  BY <1>0, <1>d DEF QueueMatchesTickets, Acting
<1>1. CASE job.at = "idle"
  BY <1>1, <1>e DEF ListIsChain, ChainIsTickets
<1>2. CASE job.at # "idle"
  <2>1. job.pay \in Payments
    BY <1>2 DEF JobHasPayment
  <2>2. ListIsChain => /\ Len(pending) = Len(tail) + 1
                       /\ pending[1] = job.pay
                       /\ \A i \in 1..Len(tail) : pending[i + 1] = tail[i]
                       /\ \A i \in 2..Len(pending) : pending[i] = tail[i - 1]
    BY <1>2, <1>t, <2>1 DEF ListIsChain
  <2>3. ASSUME QueueMatchesTickets
        PROVE  ListIsChain /\ ChainIsTickets
    <3>1. ListIsChain
      BY <1>e, <2>3
    <3>2. TailDistinct
      <4> SUFFICES ASSUME NEW i \in 1..Len(tail), NEW j \in 1..Len(tail), tail[i] = tail[j]
                   PROVE  i = j
        OBVIOUS
      <4>1. i + 1 \in 1..Len(pending) /\ j + 1 \in 1..Len(pending)
        BY <2>2, <3>1
      <4>2. pending[i + 1] = pending[j + 1]
        BY <2>2, <3>1
      <4>3. i + 1 = j + 1
        BY <1>e, <2>3, <4>1, <4>2
      <4> QED  BY <4>3
    <3> QED  BY <1>e, <2>3, <3>1, <3>2 DEF ChainIsTickets
  <2>4. ASSUME ListIsChain, ChainIsTickets
        PROVE  QueueMatchesTickets
    <3>1. \A i \in 1..Len(tail) : tail[i] # job.pay
      <4>1. tickets[job.pay] # "queued"
        BY <1>2, <1>t, <2>1, <2>4 DEF JobHasPayment, ChainIsTickets, Acting
      <4> QED  BY <2>4, <4>1 DEF ChainIsTickets
    <3>2. Distinct
      <4> SUFFICES ASSUME NEW i \in 1..Len(pending), NEW j \in 1..Len(pending),
                          pending[i] = pending[j]
                   PROVE  i = j
        OBVIOUS
      <4>1. CASE i = 1 /\ j = 1
        BY <4>1
      <4>2. CASE i = 1 /\ j # 1
        BY <2>2, <2>4, <3>1, <4>2
      <4>3. CASE i # 1 /\ j = 1
        BY <2>2, <2>4, <3>1, <4>3
      <4>4. CASE i # 1 /\ j # 1
        <5>1. i - 1 \in 1..Len(tail) /\ j - 1 \in 1..Len(tail) /\ tail[i - 1] = tail[j - 1]
          BY <2>2, <2>4, <4>4
        <5>2. i - 1 = j - 1
          BY <2>4, <5>1 DEF ChainIsTickets
        <5> QED  BY <5>2
      <4> QED  BY <4>1, <4>2, <4>3, <4>4
    <3> QED  BY <1>e, <2>4, <3>2 DEF ChainIsTickets
  <2> QED  BY <2>3, <2>4
<1> QED  BY <1>1, <1>2

\* A payment joins the end of the chain, the list and the tickets.
LEMMA JoinQueue ==
  ASSUME PaidTypeOK, ListIsChain, ChainIsTickets, JobHasPayment,
         NEW p \in Payments, tickets[p] = "unknown", Enqueue(p), job' = job
  PROVE  /\ ListIsChain' /\ ChainIsTickets' /\ JobHasPayment'
         /\ pending' \in Seq(Payments) /\ tail' \in Seq(Payments)
<1>t. /\ pending \in Seq(Payments) /\ tail \in Seq(Payments)
      /\ tickets \in [Payments -> TicketStates]
      /\ \A i \in 1..Len(tail) : tail[i] \in Payments
  <2>1. pending \in Seq(Payments) /\ tail \in Seq(Payments) /\ tickets \in [Payments -> TicketStates]
    BY DEF PaidTypeOK
  <2> QED  BY <2>1
<1>q. /\ tickets' = [tickets EXCEPT ![p] = "queued"]
      /\ pending' = Append(pending, p)
      /\ tail' = Append(tail, p)
  BY DEF Enqueue
<1>1. /\ tail' \in Seq(Payments) /\ pending' \in Seq(Payments)
      /\ Len(tail') = Len(tail) + 1 /\ tail'[Len(tail')] = p
      /\ \A i \in 1..Len(tail) : tail'[i] = tail[i]
  BY <1>t, <1>q
<1>2. ListIsChain'
  <2>1. CASE job.at = "idle"
    BY <1>q, <2>1 DEF ListIsChain
  <2>2. CASE job.at # "idle"
    <3>1. job.pay \in Payments
      BY <2>2 DEF JobHasPayment
    <3>2. Append(<<job.pay>> \o tail, p) = <<job.pay>> \o Append(tail, p)
      BY <1>t, <3>1
    <3> QED  BY <1>q, <2>2, <3>2 DEF ListIsChain
  <2> QED  BY <2>1, <2>2
<1>3. ChainIsTickets'
  <2>1. \A i \in 1..Len(tail) : tail[i] \in Payments /\ tail[i] # p
    BY <1>t DEF ChainIsTickets
  <2>2. (\A i, j \in 1..Len(tail) : tail[i] = tail[j] => i = j)'
    BY <1>1, <1>q, <1>t, <2>1 DEF ChainIsTickets
  <2>3. (\A i \in 1..Len(tail) : tickets[tail[i]] = "queued")'
    BY <1>1, <1>q, <1>t, <2>1 DEF ChainIsTickets
  <2>4. (\A q \in Payments : tickets[q] = "queued" => \E i \in 1..Len(tail) : tail[i] = q)'
    <3> SUFFICES ASSUME NEW q \in Payments, tickets'[q] = "queued"
                 PROVE  \E i \in 1..Len(tail') : tail'[i] = q
      OBVIOUS
    <3>1. CASE q = p
      BY <1>1, <1>t, <3>1
    <3>2. CASE q # p
      BY <1>1, <1>q, <1>t, <3>2 DEF ChainIsTickets
    <3> QED  BY <3>1, <3>2
  <2>5. (\A q \in Payments : tickets[q] = "lighting" <=> Acting /\ job.pay = q)'
    BY <1>q, <1>t DEF ChainIsTickets, Acting
  <2> QED  BY <2>2, <2>3, <2>4, <2>5 DEF ChainIsTickets
<1>4. JobHasPayment'
  BY <1>q, <1>t DEF JobHasPayment
<1> QED  BY <1>1, <1>2, <1>3, <1>4

-----------------------------------------------------------------------------
(* The bridge: its queue, its claims, the activation under way *)

QueueInv ==
  /\ PaidTypeOK
  /\ ListIsChain
  /\ ChainIsTickets
  /\ ClaimedWhileLive
  /\ JobHasPayment
  /\ StraysFollowStalls

\* The payment at the head waits no more, and is nobody else's.
LEMMA HeadIsOut ==
  ASSUME QueueInv, job.at # "idle"
  PROVE  /\ job.pay \in Payments
         /\ tickets[job.pay] \in {"lighting", "lit"}
         /\ \A i \in 1..Len(tail) : tail[i] \in Payments /\ tail[i] # job.pay
<1>1. /\ tail \in Seq(Payments)
      /\ job.at \in {"idle", "sending", "waiting", "holding"}
  BY DEF QueueInv, PaidTypeOK
<1>2. job.pay \in Payments
  BY DEF QueueInv, JobHasPayment
<1>3. tickets[job.pay] \in {"lighting", "lit"}
  BY <1>1, <1>2 DEF QueueInv, ChainIsTickets, JobHasPayment, Acting
<1>4. \A i \in 1..Len(tail) : tail[i] \in Payments /\ tickets[tail[i]] = "queued"
  BY <1>1 DEF QueueInv, ChainIsTickets
<1> QED  BY <1>2, <1>3, <1>4

\* An activation that ends leaves the list and nothing else.
LEMMA FinishLeaves ==
  ASSUME QueueInv, job.at # "idle", Finish, tail' = tail
  PROVE  /\ job' = NoJob /\ job'.at = "idle" /\ pending' = tail
         /\ ListIsChain'
<1>1. job.pay \in Payments /\ tail \in Seq(Payments)
  BY HeadIsOut DEF QueueInv, PaidTypeOK
<1>2. pending = <<job.pay>> \o tail
  BY DEF QueueInv, ListIsChain
<1>3. pending' = tail
  BY <1>1, <1>2, DropFirst DEF Finish
<1>4. job' = NoJob /\ job'.at = "idle"
  BY DEF Finish, NoJob
<1> QED  BY <1>3, <1>4 DEF ListIsChain

\* An activation that fails does the same, and its ticket says so.
LEMMA FailsLeaves ==
  ASSUME QueueInv, Acting, Fails, UNCHANGED <<used, settling, tail>>
  PROVE  /\ job' = NoJob /\ pending' = tail
         /\ tickets' \in [Payments -> TicketStates]
         /\ ListIsChain' /\ ChainIsTickets' /\ ClaimedWhileLive' /\ JobHasPayment'
<1>1. job.at # "idle"
  BY DEF Acting
<1>2. /\ job.pay \in Payments
      /\ tickets[job.pay] \in {"lighting", "lit"}
      /\ \A i \in 1..Len(tail) : tail[i] \in Payments /\ tail[i] # job.pay
  BY <1>1, HeadIsOut
<1>3. job' = NoJob /\ job'.at = "idle" /\ pending' = tail /\ ListIsChain'
  BY <1>1, FinishLeaves DEF Fails
<1>4. tickets' = [tickets EXCEPT ![job.pay] = "failed"] /\ tickets \in [Payments -> TicketStates]
  BY DEF Fails, QueueInv, PaidTypeOK
<1>5. tickets' \in [Payments -> TicketStates]
  BY <1>2, <1>4 DEF TicketStates
<1>6. ChainIsTickets'
  BY <1>2, <1>3, <1>4 DEF QueueInv, ChainIsTickets, Acting
<1>7. ClaimedWhileLive'
  BY <1>2, <1>4 DEF QueueInv, ClaimedWhileLive
<1>8. JobHasPayment'
  BY <1>3 DEF JobHasPayment, NoJob
<1> QED  BY <1>3, <1>5, <1>6, <1>7, <1>8

\* The types the actions of the bridge are about.
BridgeTypeOK ==
  /\ used \subseteq Payments
  /\ settling \in [Payments -> Nat]
  /\ tickets \in [Payments -> TicketStates]
  /\ pending \in Seq(Payments) /\ tail \in Seq(Payments)
  /\ job \in [at: {"idle", "sending", "waiting", "holding"},
              pay: Payments \cup {NoPayment}, left: 0..Copies]
  /\ stray \in [Payments -> Nat]
  /\ ackSeen \in BOOLEAN

BoardTypeOK ==
  /\ demoCell \in Payments \cup {NoPayment} /\ mailbox \in Payments \cup {NoPayment}
  /\ activations \in Nat /\ ackLines \in Nat
  /\ lights \in [Payments -> Nat]

HistoryTypeOK ==
  /\ chain \subseteq Payments
  /\ lits \in Nat /\ restarts \in Nat
  /\ stalled \in BOOLEAN

LEMMA TypeParts == PaidTypeOK <=> BridgeTypeOK /\ BoardTypeOK /\ HistoryTypeOK
  BY DEF PaidTypeOK, BridgeTypeOK, BoardTypeOK, HistoryTypeOK

\* What a step of the boards, the chain or the history leaves alone.
LEMMA QueueUntouched ==
  ASSUME QueueInv, UNCHANGED <<used, settling, tickets, pending, tail>>,
         job' = job \/ (job.at = "sending" /\ job'.at \in {"sending", "waiting"} /\ job'.pay = job.pay)
  PROVE  ListIsChain' /\ ChainIsTickets' /\ ClaimedWhileLive'
<1>1. job.at # "idle" <=> job'.at # "idle"
  OBVIOUS
<1>2. Acting' <=> Acting
  BY DEF Acting
<1>3. job'.pay = job.pay
  OBVIOUS
<1>4. ListIsChain'
  BY <1>1, <1>3 DEF QueueInv, ListIsChain
<1>5. ChainIsTickets'
  BY <1>2, <1>3 DEF QueueInv, ChainIsTickets
<1>6. ClaimedWhileLive'
  BY DEF QueueInv, ClaimedWhileLive
<1> QED  BY <1>4, <1>5, <1>6

\* A request, and what becomes of its settlement.
LEMMA RequestKeepsQueue ==
  ASSUME QueueInv, NEW p \in Payments,
         Activate(p) \/ ChainTakes(p) \/ SettleOk(p) \/ SettleFails(p)
  PROVE  QueueInv'
<1>1. BridgeTypeOK /\ BoardTypeOK /\ HistoryTypeOK
  BY TypeParts DEF QueueInv
<1>2. UNCHANGED <<job, stray, ackSeen, boardVars, historyVars>>
  BY DEF Activate, ChainTakes, SettleOk, SettleFails, bridgeVars
<1>3. BoardTypeOK' /\ HistoryTypeOK' /\ StraysFollowStalls'
  <2>1. chain' \subseteq Payments
    BY <1>1 DEF Activate, ChainTakes, SettleOk, SettleFails, HistoryTypeOK
  <2> QED  BY <1>1, <1>2, <2>1
           DEF BoardTypeOK, HistoryTypeOK, boardVars, historyVars, QueueInv, StraysFollowStalls
<1>4. ASSUME UNCHANGED <<tickets, pending, tail>>, ClaimedWhileLive',
             used' \subseteq Payments, settling' \in [Payments -> Nat]
      PROVE  QueueInv'
  <2>1. BridgeTypeOK'
    BY <1>1, <1>2, <1>4 DEF BridgeTypeOK
  <2>2. ListIsChain' /\ ChainIsTickets' /\ JobHasPayment'
    BY <1>2, <1>4 DEF QueueInv, ListIsChain, ChainIsTickets, JobHasPayment, Acting
  <2>3. PaidTypeOK'
    BY <1>3, <2>1 DEF PaidTypeOK, BridgeTypeOK, BoardTypeOK, HistoryTypeOK
  <2> QED  BY <1>3, <1>4, <2>2, <2>3 DEF QueueInv
<1>5. ASSUME Enqueue(p), tickets[p] = "unknown", ClaimedWhileLive',
             used' \subseteq Payments, settling' \in [Payments -> Nat]
      PROVE  QueueInv'
  <2>1. /\ ListIsChain' /\ ChainIsTickets' /\ JobHasPayment'
        /\ pending' \in Seq(Payments) /\ tail' \in Seq(Payments)
    BY <1>2, <1>5, JoinQueue DEF QueueInv
  <2>2. tickets' \in [Payments -> TicketStates]
    BY <1>1, <1>5 DEF Enqueue, BridgeTypeOK, TicketStates
  <2>3. BridgeTypeOK'
    BY <1>1, <1>2, <1>5, <2>1, <2>2 DEF BridgeTypeOK
  <2>4. PaidTypeOK'
    BY <1>3, <2>3 DEF PaidTypeOK, BridgeTypeOK, BoardTypeOK, HistoryTypeOK
  <2> QED  BY <1>3, <1>5, <2>1, <2>4 DEF QueueInv
<1>t. used \subseteq Payments /\ settling \in [Payments -> Nat] /\ tickets \in [Payments -> TicketStates]
  BY <1>1 DEF BridgeTypeOK
<1>c. \A q \in Payments :
        /\ q \in used <=> settling[q] > 0 \/ tickets[q] # "unknown"
        /\ settling[q] > 0 => settling[q] = 1 /\ tickets[q] = "unknown"
  BY DEF QueueInv, ClaimedWhileLive
<1>6. CASE Activate(p)
  <2>1. /\ p \notin used /\ used' = used \cup {p}
        /\ settling[p] = 0 /\ tickets[p] = "unknown"
    BY <1>6, <1>c, <1>t DEF Activate
  <2>2. CASE BroadcastOnVerify
    <3>1. settling' = [settling EXCEPT ![p] = @ + 1] /\ UNCHANGED <<tickets, pending, tail>>
      BY <1>6, <2>2 DEF Activate
    <3>2. ClaimedWhileLive' /\ used' \subseteq Payments /\ settling' \in [Payments -> Nat]
      BY <1>c, <1>t, <2>1, <3>1 DEF ClaimedWhileLive
    <3> QED  BY <1>4, <3>1, <3>2
  <2>3. CASE ~BroadcastOnVerify
    <3>1. Enqueue(p) /\ settling' = settling
      BY <1>6, <2>3 DEF Activate
    <3>2. ClaimedWhileLive' /\ used' \subseteq Payments /\ settling' \in [Payments -> Nat]
      BY <1>c, <1>t, <2>1, <3>1 DEF ClaimedWhileLive, Enqueue
    <3> QED  BY <1>5, <2>1, <3>1, <3>2
  <2> QED  BY <2>2, <2>3
<1>7. CASE ChainTakes(p)
  <2>1. UNCHANGED <<used, settling, tickets, pending, tail>>
    BY <1>7 DEF ChainTakes, bridgeVars
  <2>2. ClaimedWhileLive'
    BY <1>c, <2>1 DEF ClaimedWhileLive
  <2> QED  BY <1>4, <1>t, <2>1, <2>2
<1>8. CASE SettleOk(p)
  <2>1. /\ settling[p] > 0 /\ settling' = [settling EXCEPT ![p] = @ - 1]
        /\ used' = used /\ Enqueue(p)
    BY <1>8 DEF SettleOk
  <2>2. settling[p] = 1 /\ tickets[p] = "unknown"
    BY <1>c, <2>1
  <2>3. ClaimedWhileLive' /\ settling' \in [Payments -> Nat]
    BY <1>c, <1>t, <2>1, <2>2 DEF ClaimedWhileLive, Enqueue
  <2> QED  BY <1>5, <1>t, <2>1, <2>2, <2>3
<1>9. CASE SettleFails(p)
  <2>1. /\ settling[p] > 0 /\ settling' = [settling EXCEPT ![p] = @ - 1]
        /\ used' = used \ {p} /\ UNCHANGED <<tickets, pending, tail>>
    BY <1>9 DEF SettleFails
  <2>2. settling[p] = 1 /\ tickets[p] = "unknown"
    BY <1>c, <2>1
  <2>3. ClaimedWhileLive' /\ used' \subseteq Payments /\ settling' \in [Payments -> Nat]
    BY <1>c, <1>t, <2>1, <2>2 DEF ClaimedWhileLive
  <2> QED  BY <1>4, <2>1, <2>3
<1> QED  BY <1>6, <1>7, <1>8, <1>9

\* Cells that get to the injector, go on the air or light the board.
LEMMA InjectType ==
  ASSUME NEW p \in Payments, NEW taken \in BOOLEAN, NEW hears \in BOOLEAN,
         BoardTypeOK, Inject(p, taken, hears)
  PROVE  /\ demoCell' \in Payments \cup {NoPayment} /\ mailbox' \in Payments \cup {NoPayment}
  BY DEF BoardTypeOK, Inject, OnAir

\* What leaves the queue and the activation under way alone.
LEMMA OthersKeepQueue ==
  ASSUME QueueInv,
         \/ WriteStalls
         \/ \E taken, hears \in BOOLEAN, p \in Payments : SendStray(p, taken, hears)
         \/ \E hears \in BOOLEAN : BroadcastDemoCell(hears)
         \/ \E accepted \in BOOLEAN : DrainPendingActuator(accepted)
         \/ \E legible \in BOOLEAN : ReadAckLine(legible)
  PROVE  QueueInv'
<1>1. BridgeTypeOK /\ BoardTypeOK /\ HistoryTypeOK
  BY TypeParts DEF QueueInv
<1>2. UNCHANGED <<used, settling, tickets, pending, tail, job>>
  BY DEF WriteStalls, SendStray, BroadcastDemoCell, DrainPendingActuator, ReadAckLine, bridgeVars
<1>3. ListIsChain' /\ ChainIsTickets' /\ ClaimedWhileLive' /\ JobHasPayment'
  BY <1>2, QueueUntouched DEF QueueInv, JobHasPayment
<1>4. ASSUME BoardTypeOK', HistoryTypeOK', StraysFollowStalls',
             stray' \in [Payments -> Nat], ackSeen' \in BOOLEAN
      PROVE  QueueInv'
  <2>1. BridgeTypeOK'
    BY <1>1, <1>2, <1>4 DEF BridgeTypeOK
  <2> QED  BY <1>3, <1>4, <2>1 DEF QueueInv, PaidTypeOK, BridgeTypeOK, BoardTypeOK, HistoryTypeOK
<1>5. CASE WriteStalls
  <2>1. stray' = stray /\ ackSeen' = ackSeen /\ stalled' = TRUE
    BY <1>5 DEF WriteStalls, bridgeVars
  <2>2. BoardTypeOK' /\ HistoryTypeOK'
    BY <1>1, <1>5 DEF WriteStalls, BoardTypeOK, HistoryTypeOK, boardVars
  <2> QED  BY <1>1, <1>4, <2>1, <2>2 DEF BridgeTypeOK, StraysFollowStalls
<1>6. ASSUME NEW taken \in BOOLEAN, NEW hears \in BOOLEAN, NEW p \in Payments,
             SendStray(p, taken, hears)
      PROVE  QueueInv'
  <2>1. /\ stray[p] > 0 /\ stray' = [stray EXCEPT ![p] = @ - 1]
        /\ UNCHANGED <<ackSeen, activations, ackLines, lights, chain, lits, restarts, stalled>>
    BY <1>6 DEF SendStray, historyVars
  <2>2. BoardTypeOK' /\ HistoryTypeOK'
    BY <1>1, <1>6, <2>1, InjectType DEF SendStray, BoardTypeOK, HistoryTypeOK
  <2>3. stray' \in [Payments -> Nat] /\ ackSeen' \in BOOLEAN
    BY <1>1, <2>1 DEF BridgeTypeOK
  <2>4. StraysFollowStalls'
    BY <1>1, <2>1 DEF BridgeTypeOK, QueueInv, StraysFollowStalls
  <2> QED  BY <1>4, <2>2, <2>3, <2>4
<1>7. ASSUME UNCHANGED <<stray, chain, lits, restarts, stalled>>, BoardTypeOK', ackSeen' \in BOOLEAN
      PROVE  QueueInv'
  BY <1>1, <1>4, <1>7 DEF BridgeTypeOK, HistoryTypeOK, QueueInv, StraysFollowStalls
<1>8. ASSUME NEW hears \in BOOLEAN, BroadcastDemoCell(hears)
      PROVE  QueueInv'
  <2>1. UNCHANGED <<stray, ackSeen, chain, lits, restarts, stalled>>
    BY <1>8 DEF BroadcastDemoCell, bridgeVars, historyVars
  <2>2. BoardTypeOK'
    BY <1>1, <1>8 DEF BroadcastDemoCell, OnAir, BoardTypeOK
  <2> QED  BY <1>1, <1>7, <2>1, <2>2 DEF BridgeTypeOK
<1>9. ASSUME NEW accepted \in BOOLEAN, DrainPendingActuator(accepted)
      PROVE  QueueInv'
  <2>1. UNCHANGED <<stray, ackSeen, chain, lits, restarts, stalled>>
    BY <1>9 DEF DrainPendingActuator, bridgeVars, historyVars
  <2>2. BoardTypeOK'
    BY <1>1, <1>9 DEF DrainPendingActuator, BoardTypeOK
  <2> QED  BY <1>1, <1>7, <2>1, <2>2 DEF BridgeTypeOK
<1>10. ASSUME NEW legible \in BOOLEAN, ReadAckLine(legible)
       PROVE  QueueInv'
  <2>1. UNCHANGED <<stray, chain, lits, restarts, stalled>>
    BY <1>10 DEF ReadAckLine, historyVars
  <2>2. BoardTypeOK' /\ ackSeen' \in BOOLEAN
    BY <1>1, <1>10 DEF ReadAckLine, BoardTypeOK, BridgeTypeOK
  <2> QED  BY <1>7, <2>1, <2>2
<1> QED  BY <1>5, <1>6, <1>8, <1>9, <1>10

\* The activation under way, from the head of the chain to its end.
LEMMA JobKeepsQueue ==
  ASSUME QueueInv, Runs \/ SendThrows \/ QueueTimeout
  PROVE  QueueInv'
<1>1. BridgeTypeOK /\ BoardTypeOK /\ HistoryTypeOK
  BY TypeParts DEF QueueInv
<1>2. Copies \in Nat \ {0} /\ NoPayment \notin Payments
  BY PaidAssumption
<1>3. UNCHANGED <<used, settling, chain, restarts, stalled>>
  BY DEF Runs, StartNext, SendCopy, AwaitSees, AwaitExpires, HoldEnds, SendThrows, QueueTimeout, historyVars
<1>c. ClaimedWhileLive /\ ListIsChain /\ ChainIsTickets /\ JobHasPayment /\ StraysFollowStalls
  BY DEF QueueInv
<1>4. ASSUME BoardTypeOK', lits' \in Nat, StraysFollowStalls', ClaimedWhileLive', ListIsChain',
             ChainIsTickets', JobHasPayment', stray' \in [Payments -> Nat], ackSeen' \in BOOLEAN,
             tickets' \in [Payments -> TicketStates],
             pending' \in Seq(Payments), tail' \in Seq(Payments),
             job' \in [at: {"idle", "sending", "waiting", "holding"},
                       pay: Payments \cup {NoPayment}, left: 0..Copies]
      PROVE  QueueInv'
  <2>1. BridgeTypeOK' /\ HistoryTypeOK'
    BY <1>1, <1>3, <1>4 DEF BridgeTypeOK, HistoryTypeOK
  <2> QED  BY <1>4, <2>1 DEF QueueInv, PaidTypeOK, BridgeTypeOK, BoardTypeOK, HistoryTypeOK
<1>5. NoJob \in [at: {"idle", "sending", "waiting", "holding"},
                 pay: Payments \cup {NoPayment}, left: 0..Copies]
  BY <1>2 DEF NoJob
<1>t. /\ tickets \in [Payments -> TicketStates] /\ tail \in Seq(Payments) /\ pending \in Seq(Payments)
      /\ job \in [at: {"idle", "sending", "waiting", "holding"},
                  pay: Payments \cup {NoPayment}, left: 0..Copies]
      /\ stray \in [Payments -> Nat] /\ ackSeen \in BOOLEAN /\ lits \in Nat
  BY <1>1 DEF BridgeTypeOK, HistoryTypeOK
<1>6. CASE StartNext
  <2> DEFINE p == Head(tail)
  <2>1. /\ job.at = "idle" /\ tail # <<>>
        /\ job' = [at |-> "sending", pay |-> p, left |-> Copies]
        /\ tickets' = [tickets EXCEPT ![p] = "lighting"]
        /\ tail' = Tail(tail) /\ ackSeen' = FALSE
        /\ UNCHANGED <<pending, stray, boardVars, historyVars>>
    BY <1>6 DEF StartNext
  <2>2. /\ p \in Payments /\ p = tail[1] /\ 1 \in 1..Len(tail)
        /\ tail' \in Seq(Payments) /\ Len(tail') = Len(tail) - 1
        /\ \A i \in 1..Len(tail') : tail'[i] = tail[i + 1]
        /\ tail = <<p>> \o tail'
    BY <1>t, <2>1
  <2>3. /\ ListIsChain'
        /\ tickets' \in [Payments -> TicketStates]
        /\ JobHasPayment'
    BY <1>2, <1>c, <1>t, <2>1, <2>2 DEF ListIsChain, JobHasPayment, TicketStates
  <2>4. ChainIsTickets'
    <3> HIDE DEF p
    <3>0. \A i \in 1..Len(tail) : tickets[tail[i]] = "queued" /\ tail[i] \in Payments
      BY <1>c, <1>t DEF ChainIsTickets
    <3>d. \A i, j \in 1..Len(tail) : tail[i] = tail[j] => i = j
      BY <1>c DEF ChainIsTickets
    <3>l. Len(tail) \in Nat /\ Len(tail') \in Nat /\ Len(tail') = Len(tail) - 1
      BY <1>t, <2>2
    <3>1. \A i \in 1..Len(tail') : i + 1 \in 1..Len(tail) /\ tail'[i] # p
      <4> SUFFICES ASSUME NEW i \in 1..Len(tail')
                   PROVE  i + 1 \in 1..Len(tail) /\ tail'[i] # p
        OBVIOUS
      <4>1. i + 1 \in 1..Len(tail) /\ i + 1 # 1
        BY <3>l
      <4>2. tail'[i] = tail[i + 1] /\ tail[1] = p /\ 1 \in 1..Len(tail)
        BY <2>2
      <4>3. tail[i + 1] # tail[1]
        BY <3>d, <4>1, <4>2
      <4> QED  BY <4>1, <4>2, <4>3
    <3>2. (\A i, j \in 1..Len(tail) : tail[i] = tail[j] => i = j)'
      <4> SUFFICES ASSUME NEW i \in 1..Len(tail'), NEW j \in 1..Len(tail'), tail'[i] = tail'[j]
                   PROVE  i = j
        OBVIOUS
      <4>1. tail[i + 1] = tail[j + 1] /\ i + 1 \in 1..Len(tail) /\ j + 1 \in 1..Len(tail)
        BY <2>2, <3>1
      <4>2. i + 1 = j + 1
        BY <3>d, <4>1
      <4> QED  BY <3>l, <4>2
    <3>3. (\A i \in 1..Len(tail) : tickets[tail[i]] = "queued")'
      BY <1>t, <2>1, <2>2, <3>0, <3>1
    <3>4. (\A q \in Payments : tickets[q] = "queued" => \E i \in 1..Len(tail) : tail[i] = q)'
      <4> SUFFICES ASSUME NEW q \in Payments, tickets'[q] = "queued"
                   PROVE  \E i \in 1..Len(tail') : tail'[i] = q
        OBVIOUS
      <4>1. q # p /\ tickets[q] = "queued"
        BY <1>t, <2>1, <2>2
      <4>2. PICK i \in 1..Len(tail) : tail[i] = q
        BY <1>c, <4>1 DEF ChainIsTickets
      <4>3. i # 1 /\ i - 1 \in 1..Len(tail')
        BY <1>t, <2>2, <4>1, <4>2
      <4> QED  BY <2>2, <4>2, <4>3
    <3>5. (\A q \in Payments : tickets[q] = "lighting" <=> Acting /\ job.pay = q)'
      BY <1>c, <1>t, <2>1, <2>2 DEF ChainIsTickets, Acting
    <3> QED  BY <3>2, <3>3, <3>4, <3>5 DEF ChainIsTickets
  <2>5. ClaimedWhileLive'
    <3>1. tickets[p] = "queued"
      BY <1>c, <2>2 DEF ChainIsTickets
    <3> QED  BY <1>3, <1>c, <1>t, <2>1, <2>2, <3>1 DEF ClaimedWhileLive
  <2>6. job' \in [at: {"idle", "sending", "waiting", "holding"},
                  pay: Payments \cup {NoPayment}, left: 0..Copies]
    BY <1>2, <2>1, <2>2
  <2>7. BoardTypeOK' /\ lits' \in Nat /\ StraysFollowStalls'
    BY <1>1, <1>c, <2>1 DEF BoardTypeOK, HistoryTypeOK, boardVars, historyVars, StraysFollowStalls
  <2> QED  BY <1>4, <1>t, <2>1, <2>2, <2>3, <2>4, <2>5, <2>6, <2>7
<1>7. ASSUME NEW taken \in BOOLEAN, NEW hears \in BOOLEAN, SendCopy(taken, hears)
      PROVE  QueueInv'
  <2>1. /\ job.at = "sending"
        /\ job' = [job EXCEPT !.left = @ - 1, !.at = IF job.left = 1 THEN "waiting" ELSE @]
        /\ Inject(job.pay, taken, hears)
        /\ UNCHANGED <<used, settling, tickets, pending, tail, stray, ackSeen, activations,
                       ackLines, lights, chain, lits, restarts, stalled>>
    BY <1>7 DEF SendCopy, historyVars
  <2>2. job.pay \in Payments /\ job.left > 0
    BY <1>c, <2>1 DEF JobHasPayment
  <2>3. /\ job' \in [at: {"idle", "sending", "waiting", "holding"},
                     pay: Payments \cup {NoPayment}, left: 0..Copies]
        /\ job'.at \in {"sending", "waiting"} /\ job'.pay = job.pay
    <3>1. job.left \in 1..Copies /\ job.left - 1 \in 0..Copies
      BY <1>2, <1>t, <2>2
    <3>2. job' = [at |-> IF job.left = 1 THEN "waiting" ELSE "sending", pay |-> job.pay,
                  left |-> job.left - 1]
      BY <1>t, <2>1
    <3> QED  BY <2>2, <3>1, <3>2
  <2>4. ListIsChain' /\ ChainIsTickets' /\ ClaimedWhileLive'
    BY <2>1, <2>3, QueueUntouched
  <2>5. JobHasPayment'
    BY <1>t, <2>1, <2>2 DEF JobHasPayment
  <2>6. BoardTypeOK'
    BY <1>1, <2>1, <2>2, InjectType DEF BoardTypeOK
  <2> QED  BY <1>4, <1>c, <1>t, <2>1, <2>3, <2>4, <2>5, <2>6 DEF StraysFollowStalls
<1>8. CASE AwaitSees
  <2>1. /\ job.at = "waiting"
        /\ tickets' = [tickets EXCEPT ![job.pay] = "lit"]
        /\ lits' = lits + 1
        /\ job' = [job EXCEPT !.at = "holding"]
        /\ UNCHANGED <<pending, tail, stray, ackSeen, boardVars>>
    BY <1>8 DEF AwaitSees
  <2>2. /\ job.pay \in Payments
        /\ tickets[job.pay] \in {"lighting", "lit"}
        /\ \A i \in 1..Len(tail) : tail[i] \in Payments /\ tail[i] # job.pay
    BY <2>1, HeadIsOut
  <2>3. /\ job' \in [at: {"idle", "sending", "waiting", "holding"},
                     pay: Payments \cup {NoPayment}, left: 0..Copies]
        /\ job'.at = "holding" /\ job'.pay = job.pay /\ job'.left = job.left
        /\ tickets' \in [Payments -> TicketStates]
    BY <1>t, <2>1, <2>2 DEF TicketStates
  <2>4. ListIsChain'
    BY <1>c, <2>1, <2>3 DEF ListIsChain
  <2>5. ChainIsTickets'
    BY <1>c, <1>t, <2>1, <2>2, <2>3 DEF ChainIsTickets, Acting
  <2>6. ClaimedWhileLive'
    BY <1>3, <1>c, <1>t, <2>1, <2>2 DEF ClaimedWhileLive
  <2>7. JobHasPayment'
    BY <1>c, <1>t, <2>1, <2>2, <2>3 DEF JobHasPayment
  <2>8. BoardTypeOK' /\ StraysFollowStalls'
    BY <1>1, <1>3, <1>c, <2>1 DEF BoardTypeOK, boardVars, StraysFollowStalls
  <2> QED  BY <1>4, <1>t, <2>1, <2>3, <2>4, <2>5, <2>6, <2>7, <2>8
<1>9. CASE AwaitExpires \/ SendThrows \/ QueueTimeout
  <2>1. /\ Acting /\ Fails
        /\ UNCHANGED <<used, settling, tail, ackSeen, boardVars, lits>>
    BY <1>9 DEF AwaitExpires, SendThrows, QueueTimeout, Acting, historyVars
  <2>2. /\ job' = NoJob /\ pending' = tail
        /\ tickets' \in [Payments -> TicketStates]
        /\ ListIsChain' /\ ChainIsTickets' /\ ClaimedWhileLive' /\ JobHasPayment'
    BY <2>1, FailsLeaves
  <2>3. stray' \in [Payments -> Nat] /\ StraysFollowStalls'
    <3>1. job.pay \in Payments
      BY <1>c, <2>1 DEF JobHasPayment, Acting
    <3>2. stray' = stray \/ (stalled /\ stray' = [stray EXCEPT ![job.pay] = @ + job.left])
      BY <1>9 DEF AwaitExpires, SendThrows, QueueTimeout
    <3> QED  BY <1>3, <1>c, <1>t, <3>1, <3>2 DEF StraysFollowStalls
  <2>4. BoardTypeOK'
    BY <1>1, <2>1 DEF BoardTypeOK, boardVars
  <2> QED  BY <1>4, <1>5, <1>t, <2>1, <2>2, <2>3, <2>4
<1>10. CASE HoldEnds
  <2>1. /\ job.at = "holding" /\ Finish
        /\ UNCHANGED <<used, settling, tickets, tail, stray, ackSeen, boardVars, lits>>
    BY <1>10 DEF HoldEnds, historyVars
  <2>2. job' = NoJob /\ job'.at = "idle" /\ pending' = tail /\ ListIsChain'
    BY <2>1, FinishLeaves
  <2>3. ChainIsTickets' /\ ClaimedWhileLive' /\ JobHasPayment'
    <3>1. ~Acting /\ ~Acting'
      BY <2>1, <2>2 DEF Acting
    <3> QED  BY <1>c, <2>1, <2>2, <3>1 DEF ChainIsTickets, ClaimedWhileLive, JobHasPayment, NoJob
  <2>4. BoardTypeOK' /\ StraysFollowStalls'
    BY <1>1, <1>3, <1>c, <2>1 DEF BoardTypeOK, boardVars, StraysFollowStalls
  <2> QED  BY <1>4, <1>5, <1>t, <2>1, <2>2, <2>3, <2>4
<1> QED  BY <1>6, <1>7, <1>8, <1>9, <1>10 DEF Runs

\* The values a bridge starts with have their types.
LEMMA FreshTypes ==
  /\ NoJob \in [at: {"idle", "sending", "waiting", "holding"},
                pay: Payments \cup {NoPayment}, left: 0..Copies]
  /\ NoTickets \in [Payments -> TicketStates]
  /\ NoCounts \in [Payments -> Nat]
  /\ <<>> \in Seq(Payments)
<1>1. 0 \in 0..Copies
  BY PaidAssumption
<1>2. NoJob \in [at: {"idle", "sending", "waiting", "holding"},
                pay: Payments \cup {NoPayment}, left: 0..Copies]
  BY <1>1 DEF NoJob
<1>3. NoTickets \in [Payments -> TicketStates]
  BY DEF NoTickets, TicketStates
<1>4. NoCounts \in [Payments -> Nat]
  BY DEF NoCounts
<1> QED  BY <1>2, <1>3, <1>4

LEMMA RestartEmptiesQueue ==
  ASSUME QueueInv, Restart
  PROVE  QueueInv'
<1>1. BridgeTypeOK /\ BoardTypeOK /\ HistoryTypeOK
  BY TypeParts DEF QueueInv
<1>2. /\ used' = {} /\ settling' = NoCounts /\ tickets' = NoTickets
      /\ pending' = <<>> /\ tail' = <<>> /\ job' = NoJob /\ stray' = NoCounts /\ ackSeen' = FALSE
      /\ restarts' = restarts + 1
      /\ UNCHANGED <<chain, demoCell, mailbox, activations, ackLines, lights, lits, stalled>>
  BY DEF Restart, boardVars
<1>3. BridgeTypeOK'
  BY <1>2, FreshTypes DEF BridgeTypeOK
<1>4. BoardTypeOK' /\ HistoryTypeOK'
  BY <1>1, <1>2 DEF BoardTypeOK, HistoryTypeOK
<1>5. ListIsChain' /\ ChainIsTickets'
  BY <1>2 DEF ListIsChain, ChainIsTickets, NoJob, NoTickets, Acting
<1>6. ClaimedWhileLive' /\ JobHasPayment' /\ StraysFollowStalls'
  BY <1>2 DEF ClaimedWhileLive, JobHasPayment, StraysFollowStalls, NoJob, NoTickets, NoCounts
<1> QED  BY <1>3, <1>4, <1>5, <1>6 DEF QueueInv, PaidTypeOK, BridgeTypeOK, BoardTypeOK, HistoryTypeOK

LEMMA QueueInit == Init => QueueInv
<1> SUFFICES ASSUME Init PROVE QueueInv
  OBVIOUS
<1>1. BridgeTypeOK /\ BoardTypeOK /\ HistoryTypeOK
  BY FreshTypes DEF Init, BridgeTypeOK, BoardTypeOK, HistoryTypeOK
<1>2. ListIsChain /\ ChainIsTickets
  BY DEF Init, ListIsChain, ChainIsTickets, NoJob, NoTickets, Acting
<1>3. ClaimedWhileLive /\ JobHasPayment /\ StraysFollowStalls
  BY DEF Init, ClaimedWhileLive, JobHasPayment, StraysFollowStalls, NoJob, NoTickets, NoCounts
<1> QED  BY <1>1, <1>2, <1>3 DEF QueueInv, PaidTypeOK, BridgeTypeOK, BoardTypeOK, HistoryTypeOK

LEMMA QueueStep == QueueInv /\ [Next]_vars => QueueInv'
<1> SUFFICES ASSUME QueueInv, [Next]_vars PROVE QueueInv'
  OBVIOUS
<1>1. CASE Next
  BY <1>1, RequestKeepsQueue, OthersKeepQueue, JobKeepsQueue, RestartEmptiesQueue DEF Next
<1>2. CASE UNCHANGED vars
  <2>1. UNCHANGED <<used, settling, tickets, pending, tail, job, stray, ackSeen, chain, demoCell,
                    mailbox, activations, ackLines, lights, lits, restarts, stalled>>
    BY <1>2 DEF vars, bridgeVars, boardVars, historyVars
  <2>2. PaidTypeOK'
    BY <2>1 DEF QueueInv, PaidTypeOK
  <2>3. ListIsChain' /\ ChainIsTickets' /\ ClaimedWhileLive'
    BY <2>1, QueueUntouched
  <2> QED  BY <2>1, <2>2, <2>3 DEF QueueInv, JobHasPayment, StraysFollowStalls
<1> QED  BY <1>1, <1>2

-----------------------------------------------------------------------------
(* Acks *)

\* An activation of the board is spent once, by the line that reports it.
LEMMA AcksStep ==
  ASSUME QueueInv, AcksAreSpentOnce, [Next]_vars
  PROVE  AcksAreSpentOnce'
<1>1. /\ lits \in Nat /\ ackLines \in Nat /\ activations \in Nat /\ ackSeen \in BOOLEAN
      /\ job.at \in {"idle", "sending", "waiting", "holding"}
  BY DEF QueueInv, PaidTypeOK
<1>2. lits + ackLines + One(ackSeen /\ Acting) <= activations
  BY DEF AcksAreSpentOnce
<1>3. ASSUME UNCHANGED <<lits, ackLines, activations>>, ackSeen' /\ Acting' => ackSeen /\ Acting
      PROVE  AcksAreSpentOnce'
  BY <1>1, <1>2, <1>3 DEF AcksAreSpentOnce, One
<1>4. ASSUME NEW p \in Payments, Activate(p) \/ ChainTakes(p) \/ SettleOk(p) \/ SettleFails(p)
      PROVE  AcksAreSpentOnce'
  <2>1. UNCHANGED <<lits, ackLines, activations, ackSeen, job>>
    BY <1>4 DEF Activate, ChainTakes, SettleOk, SettleFails, bridgeVars, boardVars, historyVars
  <2> QED  BY <1>3, <2>1 DEF Acting
<1>5. CASE StartNext
  BY <1>3, <1>5 DEF StartNext, boardVars, historyVars
<1>6. ASSUME NEW taken \in BOOLEAN, NEW hears \in BOOLEAN, SendCopy(taken, hears)
      PROVE  AcksAreSpentOnce'
  <2>1. /\ UNCHANGED <<lits, ackLines, activations, ackSeen>> /\ job.at = "sending"
    BY <1>6 DEF SendCopy, historyVars
  <2> QED  BY <1>3, <2>1 DEF Acting
<1>7. CASE AwaitSees
  <2>1. /\ job.at = "waiting" /\ ackSeen /\ lits' = lits + 1
        /\ job' = [job EXCEPT !.at = "holding"]
        /\ UNCHANGED <<ackLines, activations>>
    BY <1>7 DEF AwaitSees, boardVars
  <2>2. Acting /\ ~Acting'
    BY <2>1 DEF QueueInv, PaidTypeOK, Acting
  <2> QED  BY <1>1, <1>2, <2>1, <2>2 DEF AcksAreSpentOnce, One
<1>8. CASE AwaitExpires \/ SendThrows \/ QueueTimeout \/ HoldEnds
  <2>1. UNCHANGED <<lits, ackLines, activations>> /\ job' = NoJob
    BY <1>8 DEF AwaitExpires, SendThrows, QueueTimeout, HoldEnds, Fails, Finish, boardVars, historyVars
  <2> QED  BY <1>3, <2>1 DEF Acting, NoJob
<1>9. CASE WriteStalls
  BY <1>3, <1>9 DEF WriteStalls, bridgeVars, boardVars, Acting
<1>10. ASSUME NEW taken \in BOOLEAN, NEW hears \in BOOLEAN, NEW p \in Payments,
              SendStray(p, taken, hears) \/ BroadcastDemoCell(hears)
       PROVE  AcksAreSpentOnce'
  <2>1. UNCHANGED <<lits, ackLines, activations, ackSeen, job>>
    BY <1>10 DEF SendStray, BroadcastDemoCell, bridgeVars, historyVars
  <2> QED  BY <1>3, <2>1 DEF Acting
<1>11. ASSUME NEW accepted \in BOOLEAN, DrainPendingActuator(accepted)
       PROVE  AcksAreSpentOnce'
  <2>1. /\ \/ activations' = activations + 1 /\ ackLines' = ackLines + 1
           \/ UNCHANGED <<activations, ackLines>>
        /\ UNCHANGED <<lits, ackSeen, job>>
    BY <1>11 DEF DrainPendingActuator, bridgeVars, historyVars
  <2> QED  BY <1>1, <1>2, <2>1 DEF AcksAreSpentOnce, One, Acting
<1>12. ASSUME NEW legible \in BOOLEAN, ReadAckLine(legible)
       PROVE  AcksAreSpentOnce'
  <2>1. /\ ackLines > 0 /\ ackLines' = ackLines - 1
        /\ UNCHANGED <<lits, activations, job>>
    BY <1>12 DEF ReadAckLine, historyVars
  <2> QED  BY <1>1, <1>2, <2>1 DEF AcksAreSpentOnce, One, Acting
<1>13. CASE Restart
  BY <1>3, <1>13 DEF Restart, boardVars
<1>14. CASE UNCHANGED vars
  BY <1>3, <1>14 DEF vars, bridgeVars, boardVars, historyVars, Acting
<1>15. ASSUME \E hears \in BOOLEAN : BroadcastDemoCell(hears)
       PROVE  AcksAreSpentOnce'
  <2>1. UNCHANGED <<lits, ackLines, activations, ackSeen, job>>
    BY <1>15 DEF BroadcastDemoCell, bridgeVars, historyVars
  <2> QED  BY <1>3, <2>1 DEF Acting
<1> QED  BY <1>4, <1>5, <1>6, <1>7, <1>8, <1>9, <1>10, <1>11, <1>12, <1>13, <1>14, <1>15
         DEF Next, Runs

-----------------------------------------------------------------------------
(* Settlement *)

\* Nothing of a payment moves before the chain has it.
LEMMA SettledStep ==
  ASSUME QueueInv, OnlySettledActs, [Next]_vars
  PROVE  OnlySettledActs'
<1> SUFFICES ASSUME BroadcastOnVerify, NEW q \in Payments, q \notin chain',
                    \/ tickets'[q] # "unknown" \/ stray'[q] > 0
                    \/ demoCell' = q \/ mailbox' = q \/ lights'[q] > 0
             PROVE  FALSE
  BY DEF OnlySettledActs
<1>1. BridgeTypeOK /\ BoardTypeOK /\ HistoryTypeOK /\ JobHasPayment /\ ChainIsTickets
  BY TypeParts DEF QueueInv
<1>2. NoPayment \notin Payments
  BY PaidAssumption
<1>3. chain \subseteq chain'
  BY DEF Next, Runs, Activate, ChainTakes, SettleOk, SettleFails, StartNext, SendCopy, AwaitSees,
         AwaitExpires, HoldEnds, WriteStalls, SendThrows, QueueTimeout, SendStray,
         BroadcastDemoCell, DrainPendingActuator, ReadAckLine, Restart, vars, historyVars
<1>4. /\ tickets[q] = "unknown" /\ ~(stray[q] > 0)
      /\ demoCell # q /\ mailbox # q /\ ~(lights[q] > 0)
  BY <1>3 DEF OnlySettledActs
<1>5. job.at # "idle" => job.pay # q
  <2>1. ASSUME job.at # "idle" PROVE tickets[job.pay] \in {"lighting", "lit"}
    BY <2>1, HeadIsOut
  <2> QED  BY <1>4, <2>1
<1>t. /\ tickets \in [Payments -> TicketStates] /\ stray \in [Payments -> Nat]
      /\ lights \in [Payments -> Nat]
  BY <1>1 DEF BridgeTypeOK, BoardTypeOK
<1>6. ASSUME NEW p \in Payments, Activate(p) \/ ChainTakes(p) \/ SettleOk(p) \/ SettleFails(p)
      PROVE  FALSE
  <2>1. UNCHANGED <<stray, boardVars>>
    BY <1>6 DEF Activate, ChainTakes, SettleOk, SettleFails, bridgeVars
  <2>2. tickets'[q] # "unknown"
    BY <1>4, <2>1 DEF boardVars
  <2>3. SettleOk(p) /\ p = q
    BY <1>4, <1>6, <1>t, <2>2 DEF Activate, ChainTakes, SettleOk, SettleFails, Enqueue, bridgeVars
  <2> QED  BY <1>3, <2>3 DEF SettleOk
<1>7. CASE StartNext
  <2>1. tickets' = [tickets EXCEPT ![Head(tail)] = "lighting"] /\ UNCHANGED <<stray, boardVars>>
    BY <1>7 DEF StartNext
  <2>2. tickets[Head(tail)] = "queued"
    <3>1. tail # <<>> /\ tail \in Seq(Payments)
      BY <1>1, <1>7 DEF StartNext, BridgeTypeOK
    <3>2. Head(tail) = tail[1] /\ 1 \in 1..Len(tail)
      BY <3>1
    <3> QED  BY <1>1, <3>2 DEF ChainIsTickets
  <2> QED  BY <1>4, <1>t, <2>1, <2>2 DEF boardVars
<1>8. ASSUME NEW p \in Payments, NEW taken \in BOOLEAN, NEW hears \in BOOLEAN, p # q,
             Inject(p, taken, hears), UNCHANGED <<tickets, lights>>, ~(stray'[q] > 0)
      PROVE  FALSE
  BY <1>4, <1>8 DEF Inject, OnAir
<1>9. ASSUME NEW taken \in BOOLEAN, NEW hears \in BOOLEAN, SendCopy(taken, hears)
      PROVE  FALSE
  <2>1. /\ job.at = "sending" /\ Inject(job.pay, taken, hears)
        /\ UNCHANGED <<tickets, lights, stray>>
    BY <1>9 DEF SendCopy
  <2>2. job.pay \in Payments /\ job.pay # q
    BY <1>1, <1>5, <2>1 DEF JobHasPayment
  <2> QED  BY <1>4, <1>8, <2>1, <2>2
<1>10. ASSUME NEW taken \in BOOLEAN, NEW hears \in BOOLEAN, NEW p \in Payments,
              SendStray(p, taken, hears)
       PROVE  FALSE
  <2>1. /\ stray[p] > 0 /\ stray' = [stray EXCEPT ![p] = @ - 1]
        /\ Inject(p, taken, hears) /\ UNCHANGED <<tickets, lights>>
    BY <1>10 DEF SendStray
  <2>2. p # q /\ ~(stray'[q] > 0)
    BY <1>4, <1>t, <2>1
  <2> QED  BY <1>8, <2>1, <2>2
<1>11. CASE AwaitSees \/ AwaitExpires \/ SendThrows \/ QueueTimeout \/ HoldEnds
  <2>1. job.at # "idle" /\ boardVars' = boardVars
    BY <1>11 DEF AwaitSees, AwaitExpires, SendThrows, QueueTimeout, HoldEnds
  <2>2. job.pay \in Payments /\ job.pay # q
    BY <1>1, <1>5, <2>1 DEF JobHasPayment
  <2>3. tickets'[q] = tickets[q]
    BY <1>11, <1>t, <2>2
    DEF AwaitSees, AwaitExpires, SendThrows, QueueTimeout, HoldEnds, Fails
  <2>4. stray'[q] = stray[q]
    BY <1>11, <1>t, <2>2 DEF AwaitSees, AwaitExpires, SendThrows, QueueTimeout, HoldEnds
  <2> QED  BY <1>4, <2>1, <2>3, <2>4 DEF boardVars
<1>12. ASSUME NEW hears \in BOOLEAN, BroadcastDemoCell(hears)
       PROVE  FALSE
  BY <1>2, <1>4, <1>12 DEF BroadcastDemoCell, OnAir, bridgeVars
<1>13. ASSUME NEW accepted \in BOOLEAN, DrainPendingActuator(accepted)
       PROVE  FALSE
  <2>1. /\ mailbox \in Payments \cup {NoPayment} /\ mailbox # q
        /\ lights' = lights \/ lights' = [lights EXCEPT ![mailbox] = @ + 1]
        /\ mailbox' = NoPayment
        /\ UNCHANGED <<tickets, stray, demoCell>>
    BY <1>1, <1>4, <1>13 DEF DrainPendingActuator, bridgeVars, BoardTypeOK
  <2> QED  BY <1>2, <1>4, <1>t, <2>1
<1>14. CASE WriteStalls \/ UNCHANGED vars \/ \E legible \in BOOLEAN : ReadAckLine(legible)
  <2>1. UNCHANGED <<tickets, stray, demoCell, mailbox, lights>>
    BY <1>14 DEF WriteStalls, ReadAckLine, vars, bridgeVars, boardVars
  <2> QED  BY <1>4, <2>1
<1>15. CASE Restart
  <2>1. UNCHANGED <<demoCell, mailbox, lights>> /\ tickets' = NoTickets /\ stray' = NoCounts
    BY <1>15 DEF Restart, boardVars
  <2> QED  BY <1>4, <2>1 DEF NoTickets, NoCounts
<1> QED  BY <1>6, <1>7, <1>9, <1>10, <1>11, <1>12, <1>13, <1>14, <1>15 DEF Next, Runs

-----------------------------------------------------------------------------
(* Lights *)

\* What is on its way to a light of q, as a number.
Tokens(q) == lights[q] + One(mailbox = q) + One(demoCell = q) + One(ToStage(q))

\* On the demo stage, and while no write is held up, a claim pays for one light:
\* every step moves what is on its way one stage on, or loses it.
LEMMA LightsStep ==
  ASSUME QueueInv, LightsToCome, [Next]_vars
  PROVE  LightsToCome'
<1> SUFFICES ASSUME DemoScriptOnly, ~stalled', NEW q \in Payments
             PROVE  (Tokens(q) <= restarts + One(q \in used))'
  BY DEF LightsToCome, Tokens
<1>1. BridgeTypeOK /\ BoardTypeOK /\ HistoryTypeOK /\ ClaimedWhileLive /\ ChainIsTickets
  BY TypeParts DEF QueueInv
<1>2. NoPayment \notin Payments
  BY PaidAssumption
<1>3. ~stalled
  BY DEF Next, Runs, Activate, ChainTakes, SettleOk, SettleFails, StartNext, SendCopy, AwaitSees,
         AwaitExpires, HoldEnds, WriteStalls, SendThrows, QueueTimeout, SendStray,
         BroadcastDemoCell, DrainPendingActuator, ReadAckLine, Restart, vars, historyVars
<1>4. Tokens(q) <= restarts + One(q \in used)
  BY <1>3 DEF LightsToCome, Tokens
<1>t. /\ settling \in [Payments -> Nat] /\ tickets \in [Payments -> TicketStates]
      /\ lights \in [Payments -> Nat] /\ restarts \in Nat
      /\ lights[q] \in Nat /\ settling[q] \in Nat
  BY <1>1 DEF BridgeTypeOK, BoardTypeOK, HistoryTypeOK
<1>c. /\ q \in used <=> settling[q] > 0 \/ tickets[q] # "unknown"
      /\ settling[q] > 0 => settling[q] = 1 /\ tickets[q] = "unknown"
      /\ tickets[q] = "lighting" <=> Acting /\ job.pay = q
  BY <1>1 DEF ClaimedWhileLive, ChainIsTickets
<1>5. ASSUME UNCHANGED <<lights, mailbox, demoCell, restarts>>, ToStage(q)' => ToStage(q),
             q \in used => q \in used'
      PROVE  (Tokens(q) <= restarts + One(q \in used))'
  BY <1>4, <1>5, <1>t DEF Tokens, One
<1>6. ASSUME NEW p \in Payments, Activate(p)
      PROVE  (Tokens(q) <= restarts + One(q \in used))'
  <2>1. /\ p \notin used /\ used' = used \cup {p}
        /\ UNCHANGED <<lights, mailbox, demoCell, restarts, job>>
    BY <1>6 DEF Activate, boardVars, historyVars
  <2>2. CASE q = p
    <3>1. ~ToStage(q)
      BY <1>c, <2>1, <2>2 DEF ToStage, Acting
    <3> QED  BY <1>4, <1>t, <2>1, <2>2, <3>1 DEF Tokens, One
  <2>3. CASE q # p
    <3>1. settling'[q] = settling[q] /\ tickets'[q] = tickets[q]
      BY <1>6, <1>t, <2>3 DEF Activate, Enqueue
    <3> QED  BY <1>5, <2>1, <3>1 DEF ToStage
  <2> QED  BY <2>2, <2>3
<1>7. ASSUME NEW p \in Payments, ChainTakes(p) \/ SettleOk(p)
      PROVE  (Tokens(q) <= restarts + One(q \in used))'
  <2>1. UNCHANGED <<lights, mailbox, demoCell, restarts, job, used>>
    BY <1>7 DEF ChainTakes, SettleOk, bridgeVars, boardVars, historyVars
  <2>2. ToStage(q)' => ToStage(q)
    <3>1. CASE SettleOk(p) /\ q = p
      BY <3>1 DEF SettleOk, ToStage
    <3>2. CASE ChainTakes(p) \/ q # p
      <4>1. settling'[q] = settling[q] /\ tickets'[q] = tickets[q]
        BY <1>7, <1>t, <3>2 DEF ChainTakes, SettleOk, Enqueue, bridgeVars
      <4> QED  BY <2>1, <4>1 DEF ToStage
    <3> QED  BY <1>7, <3>1, <3>2
  <2> QED  BY <1>5, <2>1, <2>2
<1>8. ASSUME NEW p \in Payments, SettleFails(p)
      PROVE  (Tokens(q) <= restarts + One(q \in used))'
  <2>1. /\ settling[p] > 0 /\ settling' = [settling EXCEPT ![p] = @ - 1]
        /\ used' = used \ {p}
        /\ UNCHANGED <<lights, mailbox, demoCell, restarts, job, tickets>>
    BY <1>8 DEF SettleFails, boardVars, historyVars
  <2>2. CASE q = p
    <3>1. ToStage(q) /\ ~ToStage(q)' /\ q \in used /\ q \notin used'
      BY <1>c, <1>t, <2>1, <2>2 DEF ToStage, Acting
    <3> QED  BY <1>4, <1>t, <2>1, <3>1 DEF Tokens, One
  <2>3. CASE q # p
    BY <1>5, <1>t, <2>1, <2>3 DEF ToStage
  <2> QED  BY <2>2, <2>3
<1>9. CASE StartNext
  <2>1. /\ job.at = "idle" /\ tail # <<>>
        /\ job' = [at |-> "sending", pay |-> Head(tail), left |-> Copies]
        /\ tickets' = [tickets EXCEPT ![Head(tail)] = "lighting"]
        /\ UNCHANGED <<lights, mailbox, demoCell, restarts, settling, used>>
    BY <1>9 DEF StartNext, boardVars, historyVars
  <2>2. tickets[Head(tail)] = "queued"
    <3>1. tail \in Seq(Payments)
      BY <1>1 DEF BridgeTypeOK
    <3>2. Head(tail) = tail[1] /\ 1 \in 1..Len(tail)
      BY <2>1, <3>1
    <3> QED  BY <1>1, <3>2 DEF ChainIsTickets
  <2>3. ToStage(q)' => ToStage(q)
    BY <1>t, <2>1, <2>2 DEF ToStage
  <2> QED  BY <1>5, <2>1, <2>3
<1>10. ASSUME NEW taken \in BOOLEAN, NEW hears \in BOOLEAN, SendCopy(taken, hears)
       PROVE  (Tokens(q) <= restarts + One(q \in used))'
  <2>1. /\ job.at = "sending" /\ job'.pay = job.pay
        /\ demoCell' = IF taken THEN job.pay ELSE demoCell
        /\ UNCHANGED <<lights, mailbox, restarts, settling, tickets, used>>
    <3>1. job \in [at: {"idle", "sending", "waiting", "holding"},
                   pay: Payments \cup {NoPayment}, left: 0..Copies]
      BY <1>1 DEF BridgeTypeOK
    <3>2. job'.pay = job.pay
      BY <1>10, <3>1 DEF SendCopy
    <3> QED  BY <1>10, <3>2 DEF SendCopy, Inject, historyVars
  <2>2. CASE job.pay = q /\ demoCell = q
    <3>1. ~ToStage(q) /\ demoCell' = q
      BY <1>c, <2>1, <2>2 DEF ToStage, Acting
    <3>2. ~ToStage(q)'
      BY <2>1, <3>1 DEF ToStage
    <3> QED  BY <1>4, <1>t, <2>1, <2>2, <3>1, <3>2 DEF Tokens, One
  <2>3. CASE job.pay = q /\ demoCell # q
    <3>1. ToStage(q)
      BY <2>1, <2>3 DEF ToStage
    <3>2. demoCell' = q => ~ToStage(q)'
      BY <1>c, <2>1, <2>3 DEF ToStage, Acting
    <3> QED  BY <1>4, <1>t, <2>1, <2>3, <3>1, <3>2 DEF Tokens, One
  <2>4. CASE job.pay # q
    <3>1. ToStage(q)' => ToStage(q)
      BY <2>1, <2>4 DEF ToStage
    <3>2. demoCell' = q => demoCell = q
      BY <2>1, <2>4
    <3> QED  BY <1>4, <1>t, <2>1, <3>1, <3>2 DEF Tokens, One
  <2> QED  BY <2>2, <2>3, <2>4
<1>11. CASE AwaitSees \/ AwaitExpires \/ SendThrows \/ HoldEnds
  <2>1. /\ job.at # "idle" /\ job'.at # "sending"
        /\ UNCHANGED <<lights, mailbox, demoCell, restarts, settling, used>>
    <3>1. job \in [at: {"idle", "sending", "waiting", "holding"},
                   pay: Payments \cup {NoPayment}, left: 0..Copies]
      BY <1>1 DEF BridgeTypeOK
    <3> QED  BY <1>11, <3>1 DEF AwaitSees, AwaitExpires, SendThrows, HoldEnds, Fails, Finish, NoJob,
                                boardVars, historyVars
  <2>2. tickets'[q] = "queued" => tickets[q] = "queued"
    <3>1. tickets' = tickets \/ \E v \in {"lit", "failed"} : tickets' = [tickets EXCEPT ![job.pay] = v]
      BY <1>11 DEF AwaitSees, AwaitExpires, SendThrows, HoldEnds, Fails
    <3> QED  BY <1>t, <3>1
  <2> QED  BY <1>5, <2>1, <2>2 DEF ToStage
<1>12. ASSUME NEW hears \in BOOLEAN, BroadcastDemoCell(hears)
       PROVE  (Tokens(q) <= restarts + One(q \in used))'
  <2>1. /\ demoCell # NoPayment /\ ~(job.at = "sending" /\ job.pay = demoCell)
        /\ mailbox' = (IF hears /\ mailbox = NoPayment THEN demoCell ELSE mailbox)
        /\ demoCell' = NoPayment
        /\ UNCHANGED <<lights, restarts, settling, tickets, used, job>>
    BY <1>3, <1>12 DEF BroadcastDemoCell, OnAir, bridgeVars, historyVars
  <2>2. /\ demoCell' # q
        /\ ToStage(q)' => ToStage(q)
    BY <1>2, <2>1 DEF ToStage
  <2>3. mailbox' = q => mailbox = q \/ demoCell = q
    BY <2>1
  <2> QED  BY <1>4, <1>t, <2>1, <2>2, <2>3 DEF Tokens, One
<1>13. ASSUME NEW accepted \in BOOLEAN, DrainPendingActuator(accepted)
       PROVE  (Tokens(q) <= restarts + One(q \in used))'
  <2>1. /\ mailbox # NoPayment /\ mailbox' = NoPayment
        /\ lights' = lights \/ lights' = [lights EXCEPT ![mailbox] = @ + 1]
        /\ UNCHANGED <<demoCell, restarts, settling, tickets, used, job>>
    BY <1>13 DEF DrainPendingActuator, bridgeVars, historyVars
  <2>2. ToStage(q)' <=> ToStage(q)
    BY <2>1 DEF ToStage
  <2>3. CASE mailbox = q
    <3>1. lights'[q] \in {lights[q], lights[q] + 1} /\ mailbox' # q
      BY <1>2, <1>t, <2>1, <2>3
    <3> QED  BY <1>4, <1>t, <2>1, <2>2, <2>3, <3>1 DEF Tokens, One
  <2>4. CASE mailbox # q
    <3>1. lights'[q] = lights[q] /\ mailbox' # q
      BY <1>2, <1>t, <2>1, <2>4
    <3> QED  BY <1>4, <1>t, <2>1, <2>2, <2>4, <3>1 DEF Tokens, One
  <2> QED  BY <2>3, <2>4
<1>14. CASE Restart
  <2>1. /\ restarts' = restarts + 1 /\ used' = {}
        /\ UNCHANGED <<lights, mailbox, demoCell>>
        /\ settling' = NoCounts /\ tickets' = NoTickets /\ job' = NoJob
    BY <1>14 DEF Restart, boardVars
  <2>2. ~ToStage(q)'
    BY <2>1 DEF ToStage, NoCounts, NoTickets, NoJob
  <2> QED  BY <1>4, <1>t, <2>1, <2>2 DEF Tokens, One
<1>15. CASE UNCHANGED vars \/ \E legible \in BOOLEAN : ReadAckLine(legible)
  <2>1. UNCHANGED <<lights, mailbox, demoCell, restarts, settling, tickets, used, job>>
    BY <1>15 DEF ReadAckLine, vars, bridgeVars, boardVars, historyVars
  <2> QED  BY <1>5, <2>1 DEF ToStage
<1>16. ~WriteStalls /\ ~QueueTimeout
  BY <1>3 DEF WriteStalls, QueueTimeout
<1>17. \A p \in Payments, taken, hears \in BOOLEAN : ~SendStray(p, taken, hears)
  BY <1>3 DEF QueueInv, StraysFollowStalls, SendStray
<1> QED  BY <1>6, <1>7, <1>8, <1>9, <1>10, <1>11, <1>12, <1>13, <1>14, <1>15, <1>16, <1>17
         DEF Next, Runs

-----------------------------------------------------------------------------
(* Theorems *)

Inductive == QueueInv /\ AcksAreSpentOnce /\ OnlySettledActs /\ LightsToCome

LEMMA InductiveInit == Init => Inductive
<1> SUFFICES ASSUME Init PROVE Inductive
  OBVIOUS
<1>1. QueueInv
  BY QueueInit
<1>2. AcksAreSpentOnce
  BY DEF Init, AcksAreSpentOnce, One
<1>3. OnlySettledActs
  BY PaidAssumption DEF Init, OnlySettledActs, NoTickets, NoCounts
<1>4. LightsToCome
  <2>1. ASSUME NEW p \in Payments
        PROVE  /\ lights[p] = 0 /\ mailbox # p /\ demoCell # p /\ ~ToStage(p) /\ p \notin used
               /\ restarts = 0
    BY PaidAssumption DEF Init, ToStage, NoTickets, NoCounts, NoJob
  <2> QED  BY <2>1 DEF LightsToCome, One
<1> QED  BY <1>1, <1>2, <1>3, <1>4 DEF Inductive

LEMMA AlwaysInductive == Spec => []Inductive
<1>1. Inductive /\ [Next]_vars => Inductive'
  BY QueueStep, AcksStep, SettledStep, LightsStep DEF Inductive
<1> QED  BY <1>1, InductiveInit, PTL DEF Spec

\* The inductive invariant as PaidLight states it, in terms of GET /queue.
THEOREM PaidInvariant == Spec => []PaidInv
<1>1. Inductive => PaidInv
  BY QueueParts DEF Inductive, QueueInv, PaidInv
<1> QED  BY <1>1, AlwaysInductive, PTL

\* Every variable of the bridge and the boards keeps its type.
THEOREM PaidTypeCorrect == Spec => []PaidTypeOK
<1>1. PaidInv => PaidTypeOK
  BY DEF PaidInv
<1> QED  BY <1>1, PaidInvariant, PTL

\* The place GET /queue reports is the payment's place in the chain of
\* activations, whatever fails, and the ticket says whether it is there
\* (bridge.ts, enqueue and actuate).
THEOREM QueueAnswersTruly == Spec => []QueueMatchesTickets
<1>1. PaidInv => QueueMatchesTickets
  BY DEF PaidInv
<1> QED  BY <1>1, PaidInvariant, PTL

\* A txid is spent exactly while a request settles it or it has a ticket: no
\* two requests settle one payment, and a failed one frees it (bridge.ts,
\* activate).
THEOREM ClaimsAreLive == Spec => []ClaimedWhileLive
<1>1. PaidInv => ClaimedWhileLive
  BY DEF PaidInv
<1> QED  BY <1>1, PaidInvariant, PTL

\* A payment lights at most once in each life of the bridge, if the injector
\* holds cells back and no write was held up.
THEOREM OneLightPerPayment == Spec => []LightsOncePerRun
<1>1. PaidInv => LightsOncePerRun
  <2> SUFFICES ASSUME PaidInv, DemoScriptOnly, ~stalled, NEW p \in Payments
               PROVE  lights[p] <= restarts + 1
    BY DEF LightsOncePerRun
  <2>1. lights[p] \in Nat /\ restarts \in Nat
    BY DEF PaidInv, PaidTypeOK
  <2>2. lights[p] + One(mailbox = p) + One(demoCell = p) + One(ToStage(p))
          <= restarts + One(p \in used)
    BY DEF PaidInv, LightsToCome
  <2> QED  BY <2>1, <2>2 DEF One
<1> QED  BY <1>1, PaidInvariant, PTL

\* No activation of the board is reported to two payers.
THEOREM NoAckServesTwo == Spec => []LitsAreBacked
<1>1. PaidInv => LitsAreBacked
  <2> SUFFICES ASSUME PaidInv PROVE LitsAreBacked
    OBVIOUS
  <2>1. lits \in Nat /\ ackLines \in Nat /\ activations \in Nat
    BY DEF PaidInv, PaidTypeOK
  <2>2. lits + ackLines + One(ackSeen /\ Acting) <= activations
    BY DEF PaidInv, AcksAreSpentOnce
  <2> QED  BY <2>1, <2>2 DEF LitsAreBacked, One
<1> QED  BY <1>1, PaidInvariant, PTL

\* A bridge that settles payments itself lights nothing the chain has not got.
THEOREM NoLightUnpaid == Spec => []PaidBeforeLit
<1>1. PaidInv => PaidBeforeLit
  BY DEF PaidInv, OnlySettledActs, PaidBeforeLit
<1> QED  BY <1>1, PaidInvariant, PTL

-----------------------------------------------------------------------------
(* The pages *)

Places == {"idle", "wallet", "sending", "posting", "polling", "closed"}
Busy == {"wallet", "sending", "posting", "polling"}
PageSpace == [at: Places, pay: Payments \cup {NoPayment}]

\* A page that is busy is so with a payment.
PagesInv ==
  /\ page \in [Phones -> PageSpace]
  /\ saved \in [Phones -> Payments \cup {NoPayment}]
  /\ \A f \in Phones : page[f].at \in Busy => page[f].pay \in Payments

\* A page turns to another place with the same payment, or to one of its own.
LEMMA PageTurns ==
  ASSUME PagesInv, NEW f \in Phones, NEW new \in PageSpace,
         new.at \in Busy => new.pay \in Payments,
         page' = [page EXCEPT ![f] = new],
         NEW p \in Payments \cup {NoPayment},
         saved' = saved \/ saved' = [saved EXCEPT ![f] = p]
  PROVE  PagesInv'
<1>1. page \in [Phones -> PageSpace] /\ saved \in [Phones -> Payments \cup {NoPayment}]
  BY DEF PagesInv
<1>2. page' \in [Phones -> PageSpace] /\ saved' \in [Phones -> Payments \cup {NoPayment}]
  BY <1>1
<1>3. ASSUME NEW g \in Phones, page'[g].at \in Busy PROVE page'[g].pay \in Payments
  <2>1. CASE g = f
    BY <1>1, <1>3, <2>1
  <2>2. CASE g # f
    BY <1>1, <1>3, <2>2 DEF PagesInv
  <2> QED  BY <2>1, <2>2
<1> QED  BY <1>2, <1>3 DEF PagesInv

\* The page of a phone that only moves on.
LEMMA MovesOn ==
  ASSUME PagesInv, NEW f \in Phones, page[f].at \in Busy, NEW place \in Places
  PROVE  /\ [page[f] EXCEPT !.at = place] \in PageSpace
         /\ [page[f] EXCEPT !.at = place].pay \in Payments
         /\ page[f].pay \in Payments
<1>1. page[f] \in PageSpace /\ page[f].pay \in Payments
  BY DEF PagesInv
<1> QED  BY <1>1 DEF PageSpace

LEMMA PhoneStepKeepsPages ==
  ASSUME PagesInv, NEW f \in Phones, PhoneStep(f)
  PROVE  PagesInv'
<1>1. /\ Idle \in PageSpace /\ Idle.at \notin Busy
      /\ At("closed", NoPayment) \in PageSpace /\ At("closed", NoPayment).at \notin Busy
      /\ \A p \in Payments : \A place \in Busy :
           At(place, p) \in PageSpace /\ At(place, p).pay \in Payments
  BY DEF Idle, At, PageSpace, Places, Busy
<1>2. NoPayment \in Payments \cup {NoPayment} /\ saved[f] \in Payments \cup {NoPayment}
  BY DEF PagesInv
<1>3. CASE Tap(f)
  <2>1. PICK p \in PhonePayments \ signed : page' = [page EXCEPT ![f] = At("wallet", p)]
    BY <1>3 DEF Tap
  <2>2. p \in Payments
    BY PhoneAssumption
  <2>3. saved' = saved
    BY <1>3 DEF Tap
  <2> QED  BY <1>1, <1>2, <2>1, <2>2, <2>3, PageTurns DEF Busy
<1>4. CASE WalletSigns(f)
  <2>1. page[f].at \in Busy /\ page' = [page EXCEPT ![f].at = "sending"] /\ saved' = saved
    BY <1>4 DEF WalletSigns, Busy
  <2>2. page' = [page EXCEPT ![f] = [page[f] EXCEPT !.at = "sending"]]
    BY <2>1
  <2> QED  BY <1>2, <2>1, <2>2, MovesOn, PageTurns DEF Places
<1>5. CASE Post(f)
  <2>1. page[f].at \in Busy /\ page' = [page EXCEPT ![f].at = "posting"] /\ saved' = saved
    BY <1>5 DEF Post, Busy
  <2>2. page' = [page EXCEPT ![f] = [page[f] EXCEPT !.at = "posting"]]
    BY <2>1
  <2> QED  BY <1>2, <2>1, <2>2, MovesOn, PageTurns DEF Places
<1>6. CASE Accepted(f)
  <2>1. /\ page[f].at \in Busy /\ page' = [page EXCEPT ![f].at = "polling"]
        /\ saved' = [saved EXCEPT ![f] = page[f].pay]
    BY <1>6 DEF Accepted, Busy
  <2>2. page' = [page EXCEPT ![f] = [page[f] EXCEPT !.at = "polling"]]
    BY <2>1
  <2> QED  BY <2>1, <2>2, MovesOn, PageTurns DEF Places
<1>7. CASE Rejected(f)
  <2>1. page' = [page EXCEPT ![f] = Idle] /\ saved' = saved
    BY <1>7 DEF Rejected
  <2> QED  BY <1>1, <1>2, <2>1, PageTurns
<1>8. CASE PollEnds(f)
  <2>1. page' = [page EXCEPT ![f] = Idle] /\ saved' = [saved EXCEPT ![f] = NoPayment]
    BY <1>8 DEF PollEnds
  <2> QED  BY <1>1, <1>2, <2>1, PageTurns
<1>9. CASE Open(f)
  <2>1. saved' = saved
    BY <1>9 DEF Open
  <2>2. CASE saved[f] = NoPayment
    <3>1. page' = [page EXCEPT ![f] = Idle]
      BY <1>9, <2>2 DEF Open
    <3> QED  BY <1>1, <1>2, <2>1, <3>1, PageTurns
  <2>3. CASE saved[f] # NoPayment
    <3>1. page' = [page EXCEPT ![f] = At("polling", saved[f])] /\ saved[f] \in Payments
      BY <1>2, <1>9, <2>3 DEF Open
    <3> QED  BY <1>1, <1>2, <2>1, <3>1, PageTurns DEF Busy
  <2> QED  BY <2>2, <2>3
<1>10. CASE \E signsLate \in BOOLEAN : WalletFails(f, signsLate)
  <2>1. page' = [page EXCEPT ![f] = Idle] /\ saved' = saved
    BY <1>10 DEF WalletFails
  <2> QED  BY <1>1, <1>2, <2>1, PageTurns
<1>11. CASE \E signsLate \in BOOLEAN : Close(f, signsLate)
  <2>1. page' = [page EXCEPT ![f] = At("closed", NoPayment)] /\ saved' = saved
    BY <1>11 DEF Close
  <2> QED  BY <1>1, <1>2, <2>1, PageTurns
<1> QED  BY <1>3, <1>4, <1>5, <1>6, <1>7, <1>8, <1>9, <1>10, <1>11 DEF PhoneStep

LEMMA PagesStep == PagesInv /\ [PhoneNext]_allVars => PagesInv'
<1> SUFFICES ASSUME PagesInv, [PhoneNext]_allVars PROVE PagesInv'
  OBVIOUS
<1>1. CASE \E f \in Phones : PhoneStep(f)
  BY <1>1, PhoneStepKeepsPages
<1>2. CASE UNCHANGED phoneVars
  BY <1>2 DEF phoneVars, PagesInv
<1>3. (\E f \in Phones : PhoneStep(f)) \/ UNCHANGED phoneVars
  BY DEF PhoneNext, MeshStep, Resubmit, allVars
<1> QED  BY <1>1, <1>2, <1>3

LEMMA PagesStart == PhoneInit => PagesInv
<1> SUFFICES ASSUME PhoneInit PROVE PagesInv
  OBVIOUS
<1>1. Idle \in PageSpace /\ Idle.at \notin Busy
  BY DEF Idle, At, PageSpace, Places, Busy
<1> QED  BY <1>1 DEF PhoneInit, PagesInv

-----------------------------------------------------------------------------
(* The bridge behind the phones *)

\* Whatever a phone does, the bridge and the boards take a step of theirs or
\* none at all.
LEMMA PhoneStepIsStep == PagesInv /\ [PhoneNext]_allVars => [Next]_vars
<1> SUFFICES ASSUME PagesInv, [PhoneNext]_allVars PROVE [Next]_vars
  OBVIOUS
<1>1. CASE MeshStep
  BY <1>1 DEF MeshStep, Next
<1>2. CASE \E p \in Payments : Resubmit(p)
  BY <1>2 DEF Resubmit, Next
<1>3. ASSUME NEW f \in Phones, PhoneStep(f)
      PROVE  [Next]_vars
  <2>1. CASE Post(f)
    <3>1. page[f].pay \in Payments /\ Activate(page[f].pay)
      BY <2>1 DEF Post, PagesInv, Busy
    <3> QED  BY <3>1 DEF Next
  <2>2. CASE ~ Post(f)
    BY <1>3, <2>2
       DEF PhoneStep, Tap, WalletSigns, Accepted, Rejected, PollEnds, Open, WalletFails, Close
  <2> QED  BY <2>1, <2>2
<1>4. CASE UNCHANGED allVars
  BY <1>4 DEF allVars
<1> QED  BY <1>1, <1>2, <1>3, <1>4 DEF PhoneNext

\* The bridge with phones, agents and replays is the bridge of PaidLight.
THEOREM PhonesUseTheBridge == PhoneSpec => Spec
<1>1. PhoneInit => Init
  BY DEF PhoneInit
<1>2. PhoneSpec => []PagesInv
  BY PagesStart, PagesStep, PTL DEF PhoneSpec
<1> QED  BY <1>1, <1>2, PhoneStepIsStep, PTL DEF PhoneSpec, Spec

-----------------------------------------------------------------------------
(* What a page remembers *)

\* A saved ticket is one of the bridge's, until the bridge is restarted.
SavedHasTicket ==
  restarts = 0 =>
    \A f \in Phones : saved[f] # NoPayment => tickets[saved[f]] # "unknown"

\* Only a restart forgets a ticket.
LEMMA TicketsStay ==
  ASSUME tickets \in [Payments -> TicketStates], [Next]_vars, ~ Restart,
         NEW p \in Payments, tickets[p] # "unknown"
  PROVE  tickets'[p] # "unknown" /\ restarts' = restarts
<1>1. CASE UNCHANGED vars
  BY <1>1 DEF vars, bridgeVars, historyVars
<1>2. CASE Runs
  BY <1>2 DEF Runs, StartNext, SendCopy, AwaitSees, AwaitExpires, HoldEnds, Fails, Finish,
     historyVars
<1>3. ASSUME NEW q \in Payments, Activate(q) \/ ChainTakes(q) \/ SettleOk(q) \/ SettleFails(q)
      PROVE  tickets'[p] # "unknown" /\ restarts' = restarts
  BY <1>3 DEF Activate, ChainTakes, SettleOk, SettleFails, Enqueue, bridgeVars, historyVars
<1>4. CASE WriteStalls \/ SendThrows \/ QueueTimeout
  BY <1>4 DEF WriteStalls, SendThrows, QueueTimeout, Fails, Finish, bridgeVars, historyVars
<1>5. CASE \/ \E taken, hears \in BOOLEAN, q \in Payments : SendStray(q, taken, hears)
           \/ \E hears \in BOOLEAN : BroadcastDemoCell(hears)
           \/ \E accepted \in BOOLEAN : DrainPendingActuator(accepted)
           \/ \E legible \in BOOLEAN : ReadAckLine(legible)
  BY <1>5 DEF SendStray, BroadcastDemoCell, DrainPendingActuator, ReadAckLine, bridgeVars,
     historyVars
<1> QED  BY <1>1, <1>2, <1>3, <1>4, <1>5 DEF Next

LEMMA SavedStep ==
  ASSUME PaidTypeOK, PagesInv, SavedHasTicket, [PhoneNext]_allVars
  PROVE  SavedHasTicket'
<1> SUFFICES ASSUME restarts' = 0, NEW f \in Phones, saved'[f] # NoPayment
             PROVE  tickets'[saved'[f]] # "unknown"
  BY DEF SavedHasTicket
<1>t. /\ tickets \in [Payments -> TicketStates] /\ restarts \in Nat
      /\ saved \in [Phones -> Payments \cup {NoPayment}]
  BY DEF PaidTypeOK, PagesInv
<1>1. [Next]_vars
  BY PhoneStepIsStep
<1>2. ~ Restart
  BY <1>t DEF Restart
<1>3. restarts = 0
  BY <1>1, <1>2 DEF Next, vars, bridgeVars, historyVars, Runs, StartNext, SendCopy, AwaitSees,
     AwaitExpires, HoldEnds, Activate, ChainTakes, SettleOk, SettleFails, WriteStalls,
     SendThrows, QueueTimeout, SendStray, BroadcastDemoCell, DrainPendingActuator, ReadAckLine
<1>4. CASE saved'[f] = saved[f]
  <2>1. saved[f] \in Payments /\ tickets[saved[f]] # "unknown"
    BY <1>t, <1>3, <1>4 DEF SavedHasTicket
  <2> QED  BY <1>t, <1>1, <1>2, <1>4, <2>1, TicketsStay
<1>5. CASE saved'[f] # saved[f]
  <2>1. PICK g \in Phones : Accepted(g) \/ PollEnds(g)
    BY <1>5 DEF PhoneNext, allVars, phoneVars, MeshStep, Resubmit, PhoneStep, Tap, WalletSigns,
       Post, Rejected, Open, WalletFails, Close
  <2>2. g = f
    BY <1>t, <1>5, <2>1 DEF Accepted, PollEnds
  <2>3. CASE PollEnds(f)
    BY <1>t, <2>3 DEF PollEnds
  <2>4. CASE Accepted(f)
    BY <1>t, <2>4 DEF Accepted, vars, bridgeVars
  <2> QED  BY <2>1, <2>2, <2>3, <2>4
<1> QED  BY <1>4, <1>5

\* What light-client.ts keeps in localStorage is a ticket the bridge knows, and
\* the payment it is for stays claimed, until the bridge is restarted.
THEOREM SavedTicketsAreKnown == PhoneSpec => []SavedIsAccepted
<1>1. PhoneSpec => []PaidInv
  BY PhonesUseTheBridge, PaidInvariant, PTL
<1>2. PhoneSpec => []PagesInv
  BY PagesStart, PagesStep, PTL DEF PhoneSpec
<1>3. PhoneInit => SavedHasTicket
  BY DEF PhoneInit, SavedHasTicket
<1>4. PaidInv /\ PagesInv /\ SavedHasTicket /\ [PhoneNext]_allVars => SavedHasTicket'
  BY SavedStep DEF PaidInv
<1>5. PaidInv /\ PagesInv /\ SavedHasTicket => SavedIsAccepted
  BY DEF PaidInv, PagesInv, SavedHasTicket, SavedIsAccepted, ClaimedWhileLive
<1> QED  BY <1>1, <1>2, <1>3, <1>4, <1>5, PTL DEF PhoneSpec

\* With phones around it, a payment lights at most once in each life of the
\* bridge, however often its transaction is posted.
THEOREM PhonesLightOnce == PhoneSpec => []LightsOncePerRun
  BY PhonesUseTheBridge, OneLightPerPayment, PTL

-----------------------------------------------------------------------------
(* Frames: the inductive invariant *)

\* A slot with the id of one of the transmissions begun holds the parts that were
\* heard of it and is not complete.
SlotsAreTrue ==
  \A n \in 1..ReasmSlots : InUse(slots, n) =>
    /\ slots[n].of \in sentCells
    /\ slots[n].mask # {} /\ slots[n].mask # Parts
    /\ \A p \in Parts : slots[n].buf[p] = IF p \in slots[n].mask THEN slots[n].of ELSE Zeros

FramesAreSent == \A f \in frames : f[1] \in sentCells

\* What was completed is a cell that was sent.
CellsAreSent ==
  /\ \A i \in DOMAIN rxQueue : \E t \in sentCells : rxQueue[i] = Whole(t)
  /\ \A i \in DOMAIN arrived : \E t \in sentCells : arrived[i] = Whole(t)

Complete(t) ==
  (\E i \in DOMAIN rxQueue : rxQueue[i] = Whole(t)) \/ (\E i \in DOMAIN arrived : arrived[i] = Whole(t))

\* While no frame is doubled, each part of a cell is in one place: on the air, in one
\* slot, or in the one completed cell.
PartsAreApart ==
  /\ \A n \in 1..ReasmSlots : InUse(slots, n) =>
       \A p \in slots[n].mask : <<slots[n].of, p>> \notin frames
  /\ \A n, m \in 1..ReasmSlots :
       n # m /\ InUse(slots, n) /\ InUse(slots, m) /\ slots[n].of = slots[m].of =>
         slots[n].mask \cap slots[m].mask = {}
  /\ \A t \in Transmissions : Complete(t) =>
       /\ \A p \in Parts : <<t, p>> \notin frames
       /\ \A n \in 1..ReasmSlots : InUse(slots, n) => slots[n].of # t
  /\ \A i, j \in DOMAIN rxQueue : rxQueue[i] = rxQueue[j] => i = j
  /\ \A i, j \in DOMAIN arrived : arrived[i] = arrived[j] => i = j
  /\ \A i \in DOMAIN rxQueue, j \in DOMAIN arrived : rxQueue[i] # arrived[j]

\* A slot is an opening of its own, and has what was heard of it.
SlotsAreOpenings ==
  /\ \A n \in 1..ReasmSlots : InUse(slots, n) =>
       /\ slots[n].nth \in DOMAIN openings
       /\ openings[slots[n].nth].heard = slots[n].mask
       /\ openings[slots[n].nth].at = slots[n].at
  /\ \A n, m \in 1..ReasmSlots :
       n # m /\ InUse(slots, n) /\ InUse(slots, m) => slots[n].nth # slots[m].nth
  /\ \A i \in DOMAIN openings : openings[i].at <= ms

FramesInv ==
  /\ FramesTypeOK
  /\ SlotsAreTrue /\ FramesAreSent /\ CellsAreSent
  /\ ~doubles => PartsAreApart
  /\ SlotsAreOpenings
  /\ KeptAmongFew

-----------------------------------------------------------------------------
(* Frames: slots and the least of them *)

LEMMA Least ==
  ASSUME NEW S \in SUBSET Nat, S # {}
  PROVE  \E n \in S : \A m \in S : n <= m
<1>1. IsWellFoundedOn(OpToRel(<, Nat), Nat)
  BY NatLessThanWellFounded
<1>2. PICK n \in S : \A m \in S : ~(<<m, n>> \in OpToRel(<, Nat))
  BY <1>1, WFMin
<1>3. \A m \in S : ~(m < n)
  BY <1>2 DEF OpToRel
<1> QED  BY <1>3

LEMMA CountIs ==
  ASSUME NEW n \in Nat
  PROVE  IsFiniteSet(1..n) /\ Cardinality(1..n) = n
BY FS_Interval

LEMMA FirstOfIs ==
  ASSUME NEW S \in SUBSET Nat, S # {}
  PROVE  FirstOf(S) \in S
BY Least DEF FirstOf

LEMMA WholeIs ==
  ASSUME FramesAssumption, NEW t \in Transmissions, NEW u
  PROVE  /\ 0 \in Parts /\ Whole(t) \in Buffers
         /\ Whole(t) = Whole(u) => t = u
<1>1. 0 \in Parts
  BY DEF Parts, FramesAssumption
<1>2. Whole(t)[0] = t /\ Whole(u)[0] = u
  BY <1>1 DEF Whole
<1> QED  BY <1>1, <1>2 DEF Whole, Buffers

LEMMA SlotIs ==
  ASSUME FramesTypeOK, FramesAssumption, NEW n \in 1..ReasmSlots, InUse(slots, n)
  PROVE  /\ slots[n] \in Slot
         /\ slots[n].of \in Transmissions /\ slots[n].at \in 0..MaxMs /\ slots[n].at \in Nat
         /\ slots[n].mask \subseteq Parts /\ slots[n].buf \in Buffers /\ slots[n].nth \in 1..MaxOpenings
<1>1. slots[n] \in Slot
  BY DEF FramesTypeOK, InUse
<1> QED  BY <1>1 DEF Slot, FramesAssumption

\* The scan leaves a slot or frees it.
LEMMA SweptIs ==
  ASSUME NEW t, NEW n \in 1..ReasmSlots
  PROVE  /\ Swept(t)[n] = slots[n] \/ Swept(t)[n] = NoCell
         /\ InUse(Swept(t), n) => InUse(slots, n) /\ Swept(t)[n] = slots[n]
         /\ InUse(slots, n) /\ ~Outdated(n) => Swept(t)[n] = slots[n]
BY DEF Swept, InUse

\* Where an assembly begins there was nothing, or the oldest of a full swept.
LEMMA ChosenIs ==
  ASSUME FramesTypeOK, FramesAssumption, NEW t
  PROVE  /\ Chosen(Swept(t)) \in 1..ReasmSlots
         /\ \/ ~InUse(Swept(t), Chosen(Swept(t)))
            \/ \A m \in 1..ReasmSlots :
                 /\ InUse(Swept(t), m)
                 /\ Swept(t)[Chosen(Swept(t))].at <= Swept(t)[m].at
<1> DEFINE swept == Swept(t)
<1>1. CASE Vacant(swept) # {}
  <2>1. Chosen(swept) \in Vacant(swept)
    BY <1>1, FirstOfIs DEF Chosen, Vacant
  <2> QED  BY <2>1 DEF Vacant
<1>2. CASE Vacant(swept) = {}
  <2>1. \A m \in 1..ReasmSlots : InUse(swept, m) /\ swept[m].at \in Nat
    <3>1. \A m \in 1..ReasmSlots : InUse(swept, m)
      BY <1>2 DEF Vacant
    <3> QED  BY <3>1, SweptIs, SlotIs
  <2> HIDE DEF swept
  <2>2. Oldest(swept) # {}
    <3> DEFINE ages == {swept[m].at : m \in 1..ReasmSlots}
    <3>1. ages \in SUBSET Nat /\ ages # {}
      <4>1. 1 \in 1..ReasmSlots
        BY DEF FramesAssumption
      <4> QED  BY <2>1, <4>1
    <3>2. PICK a \in ages : \A z \in ages : a <= z
      BY <3>1, Least
    <3> QED  BY <3>2 DEF Oldest
  <2>3. Chosen(swept) \in Oldest(swept)
    BY <1>2, <2>2, FirstOfIs DEF Chosen, Oldest
  <2> QED  BY <2>1, <2>3 DEF Oldest, swept
<1> QED  BY <1>1, <1>2

-----------------------------------------------------------------------------
(* Frames: a part is pushed *)

\* s is slot n, or a new assembly in it, with part p of t.
Takes(n, s, t, p) ==
  /\ s \in Slot /\ s.of = t /\ p \in s.mask
  /\ \A q \in Parts : s.buf[q] = IF q \in s.mask THEN t ELSE Zeros
  /\ \/ s.mask = {p}
     \/ InUse(slots, n) /\ slots[n].of = t /\ s.mask = slots[n].mask \cup {p}

\* Only slot n and what the scan freed has changed.
Changed(n, s, t) ==
  /\ slots'[n] = IF s.mask = Parts THEN NoCell ELSE s
  /\ \A m \in 1..ReasmSlots : m # n => slots'[m] = Swept(t)[m]

\* The part of the invariant that is not about openings.
PartsInv ==
  /\ slots \in [1..ReasmSlots -> Slot \cup {NoCell}]
  /\ rxQueue \in Seq(Buffers) /\ Len(rxQueue) <= RxQueueLen
  /\ frames \subseteq Transmissions \X Parts
  /\ SlotsAreTrue /\ FramesAreSent /\ CellsAreSent
  /\ ~doubles => PartsAreApart

\* The part that is.
OpeningsInv ==
  /\ openings \in Seq([of : Transmissions, at : 0..MaxMs, heard : SUBSET Parts])
  /\ Len(openings) <= MaxOpenings
  /\ SlotsAreOpenings /\ KeptAmongFew

\* A part is pushed to slot n, which then holds s.
LEMMA PartPushed ==
  ASSUME FramesInv, FramesAssumption,
         NEW t \in Transmissions, NEW p \in Parts, <<t, p>> \in frames,
         frames' = IF doubles THEN frames ELSE frames \ {<<t, p>>},
         UNCHANGED <<doubles, sentCells, ms, arrived>>,
         NEW n \in 1..ReasmSlots, NEW s, Takes(n, s, t, p), Push(n, Swept(t), s)
  PROVE  PartsInv' /\ Changed(n, s, t)
<1>a. /\ s \in Slot /\ s.of = t /\ p \in s.mask
      /\ \A q \in Parts : s.buf[q] = IF q \in s.mask THEN t ELSE Zeros
      /\ \/ s.mask = {p}
         \/ InUse(slots, n) /\ slots[n].of = t /\ s.mask = slots[n].mask \cup {p}
  BY DEF Takes
<1>t. /\ slots \in [1..ReasmSlots -> Slot \cup {NoCell}]
      /\ rxQueue \in Seq(Buffers) /\ Len(rxQueue) <= RxQueueLen /\ RxQueueLen \in Nat
      /\ arrived \in Seq(Buffers) /\ frames \subseteq Transmissions \X Parts
  BY DEF FramesInv, FramesTypeOK, FramesAssumption
<1>w. Swept(t) \in [1..ReasmSlots -> Slot \cup {NoCell}]
  BY <1>t DEF Swept
<1>s. s # NoCell /\ t \in sentCells
  BY <1>a DEF FramesAssumption, FramesInv, FramesAreSent
<1>1. /\ slots' \in [1..ReasmSlots -> Slot \cup {NoCell}]
      /\ slots'[n] = IF s.mask = Parts THEN NoCell ELSE s
      /\ \A m \in 1..ReasmSlots : m # n => slots'[m] = Swept(t)[m]
  <2>1. slots' = [Swept(t) EXCEPT ![n] = IF s.mask = Parts THEN NoCell ELSE s]
    BY DEF Push
  <2>2. (IF s.mask = Parts THEN NoCell ELSE s) \in Slot \cup {NoCell}
    BY <1>a
  <2> QED  BY <1>w, <2>1, <2>2
<1>o. ASSUME NEW m \in 1..ReasmSlots, m # n, InUse(slots', m)
      PROVE  InUse(slots, m) /\ slots'[m] = slots[m]
  BY <1>1, <1>o, SweptIs DEF InUse
<1>n. InUse(slots', n) => s.mask # Parts /\ slots'[n] = s
  BY <1>1 DEF InUse
<1>b. s.mask = Parts => s.buf = Whole(t)
  BY <1>a DEF Slot, Buffers, Whole
<1>2. /\ rxQueue' = rxQueue \/ (s.mask = Parts /\ rxQueue' = Append(rxQueue, Whole(t)))
      /\ rxQueue' \in Seq(Buffers) /\ Len(rxQueue') <= RxQueueLen
  <2>1. \/ rxQueue' = rxQueue
        \/ s.mask = Parts /\ rxQueue' = Append(rxQueue, Whole(t)) /\ Len(rxQueue) < RxQueueLen
    BY <1>b DEF Push
  <2>2. Whole(t) \in Buffers
    BY WholeIs
  <2>3. CASE rxQueue' = rxQueue
    BY <2>3, <1>t
  <2>4. CASE s.mask = Parts /\ rxQueue' = Append(rxQueue, Whole(t)) /\ Len(rxQueue) < RxQueueLen
    <3> DEFINE c == Whole(t)
    <3> HIDE DEF c
    <3>1. rxQueue' = Append(rxQueue, c) /\ c \in Buffers
      BY <2>2, <2>4 DEF c
    <3>2. rxQueue' \in Seq(Buffers) /\ Len(rxQueue') = Len(rxQueue) + 1 /\ Len(rxQueue) \in Nat
      BY <3>1, <1>t
    <3> QED  BY <3>1, <3>2, <2>4, <1>t DEF c
  <2> QED  BY <2>1, <2>3, <2>4
<1>3. frames' \subseteq frames
  OBVIOUS
<1>4. SlotsAreTrue'
  <2> SUFFICES ASSUME NEW m \in 1..ReasmSlots, InUse(slots', m)
               PROVE  /\ slots'[m].of \in sentCells
                      /\ slots'[m].mask # {} /\ slots'[m].mask # Parts
                      /\ \A q \in Parts :
                           slots'[m].buf[q] = IF q \in slots'[m].mask THEN slots'[m].of ELSE Zeros
    BY DEF SlotsAreTrue, InUse
  <2>1. CASE m = n
    BY <2>1, <1>n, <1>s, <1>a
  <2>2. CASE m # n
    BY <2>2, <1>o DEF FramesInv, SlotsAreTrue
  <2> QED  BY <2>1, <2>2
<1>5. FramesAreSent'
  BY <1>3 DEF FramesInv, FramesAreSent
<1>6. CellsAreSent'
  <2>1. \A i \in DOMAIN rxQueue' : (i \in DOMAIN rxQueue /\ rxQueue'[i] = rxQueue[i]) \/ rxQueue'[i] = Whole(t)
    <3>1. CASE rxQueue' = rxQueue
      BY <3>1
    <3>2. CASE rxQueue' = Append(rxQueue, Whole(t))
      BY <3>2, <1>t
    <3> QED  BY <1>2, <3>1, <3>2
  <2> QED  BY <2>1, <1>s DEF FramesInv, CellsAreSent
<1>7. ASSUME ~doubles PROVE PartsAreApart'
  <2>a. PartsAreApart
    BY <1>7 DEF FramesInv
  <2>f. frames' = frames \ {<<t, p>>}
    BY <1>7
  <2>c. ~Complete(t)
    BY <2>a DEF PartsAreApart
  <2>p. \A m \in 1..ReasmSlots : InUse(slots, m) /\ slots[m].of = t => p \notin slots[m].mask
    BY <2>a DEF PartsAreApart
  <2>m. /\ \A q \in s.mask : <<t, q>> \notin frames'
        /\ \A m \in 1..ReasmSlots :
             m # n /\ InUse(slots, m) /\ slots[m].of = t => slots[m].mask \cap s.mask = {}
    <3>1. CASE s.mask = {p}
      BY <3>1, <2>f, <2>p
    <3>2. CASE InUse(slots, n) /\ slots[n].of = t /\ s.mask = slots[n].mask \cup {p}
      <4>1. \A q \in slots[n].mask : <<t, q>> \notin frames
        BY <3>2, <2>a DEF PartsAreApart
      <4>2. \A m \in 1..ReasmSlots :
              m # n /\ InUse(slots, m) /\ slots[m].of = t => slots[m].mask \cap slots[n].mask = {}
        BY <3>2, <2>a DEF PartsAreApart
      <4> QED  BY <3>2, <4>1, <4>2, <2>f, <2>p
    <3> QED  BY <3>1, <3>2, <1>a
  <2>1. \A m \in 1..ReasmSlots : InUse(slots', m) =>
          \A q \in slots'[m].mask : <<slots'[m].of, q>> \notin frames'
    <3> SUFFICES ASSUME NEW m \in 1..ReasmSlots, InUse(slots', m), NEW q \in slots'[m].mask
                 PROVE  <<slots'[m].of, q>> \notin frames'
      OBVIOUS
    <3>1. CASE m = n
      BY <3>1, <1>n, <1>a, <2>m
    <3>2. CASE m # n
      BY <3>2, <1>o, <1>3, <2>a DEF PartsAreApart
    <3> QED  BY <3>1, <3>2
  <2>2. \A k, m \in 1..ReasmSlots :
          k # m /\ InUse(slots', k) /\ InUse(slots', m) /\ slots'[k].of = slots'[m].of =>
            slots'[k].mask \cap slots'[m].mask = {}
    <3> SUFFICES ASSUME NEW k \in 1..ReasmSlots, NEW m \in 1..ReasmSlots, k # m,
                        InUse(slots', k), InUse(slots', m), slots'[k].of = slots'[m].of
                 PROVE  slots'[k].mask \cap slots'[m].mask = {}
      OBVIOUS
    <3>1. CASE k = n
      BY <3>1, <1>o, <1>n, <1>a, <2>m
    <3>2. CASE m = n
      BY <3>2, <1>o, <1>n, <1>a, <2>m
    <3>3. CASE k # n /\ m # n
      BY <3>3, <1>o, <2>a DEF PartsAreApart
    <3> QED  BY <3>1, <3>2, <3>3
  <2>3. ASSUME NEW u \in Transmissions, Complete(u)'
        PROVE  /\ \A q \in Parts : <<u, q>> \notin frames'
               /\ \A m \in 1..ReasmSlots : InUse(slots', m) => slots'[m].of # u
    <3>1. Complete(u) \/ (u = t /\ s.mask = Parts)
      <4>1. \A i \in DOMAIN rxQueue' :
              \/ i \in DOMAIN rxQueue /\ rxQueue'[i] = rxQueue[i]
              \/ rxQueue'[i] = Whole(t) /\ s.mask = Parts
        <5>1. CASE rxQueue' = rxQueue
          BY <5>1
        <5>2. CASE rxQueue' = Append(rxQueue, Whole(t)) /\ s.mask = Parts
          <6>1. \A i \in DOMAIN rxQueue' : i \in DOMAIN rxQueue \/ i = Len(rxQueue) + 1
            BY <5>2, <1>t
          <6>2. /\ \A i \in DOMAIN rxQueue : rxQueue'[i] = rxQueue[i]
                /\ rxQueue'[Len(rxQueue) + 1] = Whole(t)
            BY <5>2, <1>t
          <6> QED  BY <5>2, <6>1, <6>2
        <5> QED  BY <1>2, <5>1, <5>2
      <4> QED  BY <4>1, <2>3, WholeIs DEF Complete, Whole
    <3>2. CASE Complete(u)
      <4>1. u # t
        BY <3>2, <2>c
      <4>2. /\ \A q \in Parts : <<u, q>> \notin frames
            /\ \A m \in 1..ReasmSlots : InUse(slots, m) => slots[m].of # u
        BY <3>2, <2>a DEF PartsAreApart
      <4>3. ASSUME NEW m \in 1..ReasmSlots, InUse(slots', m) PROVE slots'[m].of # u
        BY <4>1, <4>2, <4>3, <1>o, <1>n, <1>a
      <4> QED  BY <4>2, <4>3, <1>3
    <3>3. CASE u = t /\ s.mask = Parts
      <4>1. ASSUME NEW m \in 1..ReasmSlots, InUse(slots', m), slots'[m].of = t PROVE FALSE
        <5>1. m # n /\ InUse(slots, m) /\ slots[m].of = t
          BY <4>1, <3>3, <1>n, <1>o
        <5>2. slots[m].mask \subseteq Parts /\ slots[m].mask # {}
          BY <5>1, SlotIs DEF FramesInv, SlotsAreTrue
        <5> QED  BY <5>1, <5>2, <3>3, <2>m
      <4> QED  BY <3>3, <4>1, <2>m
    <3> QED  BY <3>1, <3>2, <3>3
  <2>4. /\ \A i, j \in DOMAIN rxQueue' : rxQueue'[i] = rxQueue'[j] => i = j
        /\ \A i \in DOMAIN rxQueue', j \in DOMAIN arrived : rxQueue'[i] # arrived[j]
    <3>1. CASE rxQueue' = rxQueue
      BY <3>1, <2>a DEF PartsAreApart
    <3>2. CASE rxQueue' = Append(rxQueue, Whole(t))
      <4>1. /\ \A i \in DOMAIN rxQueue : rxQueue[i] # Whole(t)
            /\ \A i \in DOMAIN arrived : arrived[i] # Whole(t)
        BY <2>c DEF Complete
      <4>2. \A i \in DOMAIN rxQueue' :
              \/ i \in DOMAIN rxQueue /\ rxQueue'[i] = rxQueue[i]
              \/ i = Len(rxQueue) + 1 /\ rxQueue'[i] = Whole(t)
        BY <3>2, <1>t
      <4>3. /\ \A i, j \in DOMAIN rxQueue : rxQueue[i] = rxQueue[j] => i = j
            /\ \A i \in DOMAIN rxQueue, j \in DOMAIN arrived : rxQueue[i] # arrived[j]
        BY <2>a DEF PartsAreApart
      <4> QED  BY <4>1, <4>2, <4>3
    <3> QED  BY <1>2, <3>1, <3>2
  <2>5. \A i, j \in DOMAIN arrived' : arrived'[i] = arrived'[j] => i = j
    BY <2>a DEF PartsAreApart
  <2> QED  BY <2>1, <2>2, <2>3, <2>4, <2>5 DEF PartsAreApart, InUse
<1>8. frames' \subseteq Transmissions \X Parts
  BY <1>3, <1>t
<1> QED  BY <1>1, <1>2, <1>4, <1>5, <1>6, <1>7, <1>8 DEF PartsInv, Changed

-----------------------------------------------------------------------------
(* Frames: openings *)

\* A slot that is pushed to goes on with its opening.
LEMMA OpeningGoesOn ==
  ASSUME FramesInv, FramesAssumption, ms' = ms,
         NEW t \in Transmissions, NEW p \in Parts,
         NEW n \in 1..ReasmSlots, InUse(slots, n), NEW s \in Slot,
         s.at = slots[n].at, s.nth = slots[n].nth, s.mask = slots[n].mask \cup {p},
         openings' = [openings EXCEPT ![slots[n].nth].heard = @ \cup {p}],
         Changed(n, s, t)
  PROVE  OpeningsInv'
<1>c. /\ slots'[n] = IF s.mask = Parts THEN NoCell ELSE s
      /\ \A m \in 1..ReasmSlots : m # n => slots'[m] = Swept(t)[m]
  BY DEF Changed
<1> DEFINE k == slots[n].nth
           O == [of : Transmissions, at : 0..MaxMs, heard : SUBSET Parts]
<1>k. k \in DOMAIN openings /\ openings[k].heard = slots[n].mask /\ openings[k].at = slots[n].at
  BY DEF FramesInv, SlotsAreOpenings
<1>t. openings \in Seq(O) /\ Len(openings) <= MaxOpenings /\ ms \in Nat
  BY DEF FramesInv, FramesTypeOK, FramesAssumption
<1> DEFINE e == [openings[k] EXCEPT !.heard = s.mask]
<1>e. e \in O /\ e.heard = s.mask /\ e.at = openings[k].at
  <2>1. s.mask \subseteq Parts
    BY DEF Slot
  <2> HIDE DEF k
  <2>2. openings[k] \in O
    <3> HIDE DEF O
    <3> QED  BY <1>k, <1>t
  <2> QED  BY <2>1, <2>2
<1>o. openings' = [openings EXCEPT ![k] = e]
  BY <1>k
<1> HIDE DEF e, O
<1>1. openings' \in Seq(O) /\ Len(openings') = Len(openings) /\ DOMAIN openings' = DOMAIN openings
  BY <1>t, <1>k, <1>e, <1>o
<1>2. openings'[k] = e /\ \A i \in DOMAIN openings : i # k => openings'[i] = openings[i]
  BY <1>t, <1>k, <1>o
<1>a. \A i \in DOMAIN openings : openings'[i].at = openings[i].at
  BY <1>2, <1>e
<1>u. ASSUME NEW m \in 1..ReasmSlots, m # n, InUse(slots', m)
      PROVE  InUse(slots, m) /\ slots'[m] = slots[m]
  BY <1>u, <1>c, SweptIs DEF InUse
<1>n. InUse(slots', n) => s.mask # Parts /\ slots'[n] = s
  BY <1>c DEF InUse
<1>d. \A l, m \in 1..ReasmSlots :
        l # m /\ InUse(slots, l) /\ InUse(slots, m) => slots[l].nth # slots[m].nth
  BY DEF FramesInv, SlotsAreOpenings
<1>3. SlotsAreOpenings'
  <2>1. ASSUME NEW m \in 1..ReasmSlots, InUse(slots', m)
        PROVE  /\ slots'[m].nth \in DOMAIN openings'
               /\ openings'[slots'[m].nth].heard = slots'[m].mask
               /\ openings'[slots'[m].nth].at = slots'[m].at
    <3>1. CASE m = n
      BY <3>1, <2>1, <1>n, <1>k, <1>1, <1>2, <1>e
    <3>2. CASE m # n
      <4>1. InUse(slots, m) /\ slots'[m] = slots[m] /\ slots[m].nth # k
        BY <3>2, <2>1, <1>u, <1>d
      <4> QED  BY <4>1, <1>1, <1>2 DEF FramesInv, SlotsAreOpenings
    <3> QED  BY <3>1, <3>2
  <2>2. ASSUME NEW l \in 1..ReasmSlots, NEW m \in 1..ReasmSlots, l # m, InUse(slots', l), InUse(slots', m)
        PROVE  slots'[l].nth # slots'[m].nth
    <3>1. InUse(slots, l) /\ slots'[l].nth = slots[l].nth
      BY <2>2, <1>u, <1>n
    <3>2. InUse(slots, m) /\ slots'[m].nth = slots[m].nth
      BY <2>2, <1>u, <1>n
    <3> QED  BY <2>2, <3>1, <3>2, <1>d
  <2>3. \A i \in DOMAIN openings' : openings'[i].at <= ms'
    BY <1>1, <1>a DEF FramesInv, SlotsAreOpenings
  <2> QED  BY <2>1, <2>2, <2>3 DEF SlotsAreOpenings, InUse
<1>4. KeptAmongFew'
  <2> SUFFICES ASSUME NEW i \in DOMAIN openings
               PROVE  \/ openings'[i].heard = Parts
                      \/ ms - openings'[i].at > ReasmTtl
                      \/ Cardinality(Rivals(i)') >= ReasmSlots
                      \/ \E m \in 1..ReasmSlots :
                           InUse(slots', m) /\ slots'[m].nth = i /\ slots'[m].mask = openings'[i].heard
    BY <1>1 DEF KeptAmongFew, InUse
  <2>r. Rivals(i)' = Rivals(i)
    BY <1>1, <1>a DEF Rivals
  <2>1. CASE i = k
    <3>1. openings'[i].heard = s.mask
      BY <2>1, <1>2, <1>e
    <3>2. CASE s.mask = Parts
      BY <3>1, <3>2
    <3>3. CASE s.mask # Parts
      <4>1. slots'[n] = s /\ s # NoCell
        BY <3>3, <1>c DEF FramesAssumption
      <4>2. InUse(slots', n) /\ slots'[n].nth = i /\ slots'[n].mask = openings'[i].heard
        BY <4>1, <3>1, <2>1 DEF InUse
      <4> QED  BY <4>2
    <3> QED  BY <3>2, <3>3
  <2>2. CASE i # k
    <3>1. openings'[i] = openings[i]
      BY <2>2, <1>2
    <3>2. CASE \E m \in 1..ReasmSlots :
                 InUse(slots, m) /\ slots[m].nth = i /\ slots[m].mask = openings[i].heard
      <4>1. PICK m \in 1..ReasmSlots :
               InUse(slots, m) /\ slots[m].nth = i /\ slots[m].mask = openings[i].heard
        BY <3>2
      <4>2. m # n
        BY <4>1, <2>2
      <4>3. CASE Outdated(m)
        <5>1. openings[i].at = slots[m].at
          BY <4>1 DEF FramesInv, SlotsAreOpenings
        <5> QED  BY <4>3, <5>1, <3>1 DEF Outdated
      <4>4. CASE ~Outdated(m)
        <5>1. slots'[m] = slots[m]
          BY <4>1, <4>2, <4>4, <1>c, SweptIs
        <5> QED  BY <4>1, <5>1, <3>1 DEF InUse
      <4> QED  BY <4>3, <4>4
    <3> QED  BY <3>1, <3>2, <2>r DEF FramesInv, KeptAmongFew
  <2> QED  BY <2>1, <2>2
<1> QED  BY <1>1, <1>3, <1>4, <1>t DEF O, OpeningsInv

\* As many others as there are slots were begun no earlier than an evicted one.
LEMMA EvictedByMany ==
  ASSUME FramesInv, FramesAssumption,
         NEW n \in 1..ReasmSlots, NEW i, i = slots[n].nth,
         \A m \in 1..ReasmSlots : InUse(slots, m) /\ slots[n].at <= slots[m].at,
         Len(openings') = Len(openings) + 1, DOMAIN openings' = 1..(Len(openings) + 1),
         \A j \in DOMAIN openings : openings'[j].at = openings[j].at,
         openings'[Len(openings) + 1].at = ms
  PROVE  Cardinality(Rivals(i)') >= ReasmSlots
<1> DEFINE k == Len(openings) + 1
           R == Rivals(i)'
           f == [m \in 1..ReasmSlots |-> IF m = n THEN k ELSE slots[m].nth]
<1>1. /\ \A m \in 1..ReasmSlots :
           /\ slots[m].nth \in 1..Len(openings) /\ openings[slots[m].nth].at = slots[m].at
           /\ slots[m].at <= ms
      /\ \A l, m \in 1..ReasmSlots : l # m => slots[l].nth # slots[m].nth
      /\ Len(openings) \in Nat /\ ReasmSlots \in Nat
  <2>1. Len(openings) \in Nat /\ DOMAIN openings = 1..Len(openings)
    BY DEF FramesInv, FramesTypeOK
  <2> QED  BY <2>1 DEF FramesInv, SlotsAreOpenings, FramesAssumption
<1>2. \A m \in 1..ReasmSlots : f[m] \in R
  <2> SUFFICES ASSUME NEW m \in 1..ReasmSlots PROVE f[m] \in R
    OBVIOUS
  <2>0. R = {j \in 1..k \ {i} : openings'[j].at >= openings'[i].at}
    BY DEF Rivals
  <2>e. openings'[i].at = slots[n].at
    BY <1>1
  <2> HIDE DEF R
  <2>1. CASE m = n
    <3>1. k \in 1..k \ {i} /\ openings'[k].at >= slots[n].at
      BY <1>1
    <3> QED  BY <2>1, <3>1, <2>0, <2>e
  <2>2. CASE m # n
    <3>1. /\ slots[m].nth \in 1..k \ {i}
          /\ openings'[slots[m].nth].at = slots[m].at /\ slots[m].at >= slots[n].at
      <4>1. slots[m].nth \in 1..Len(openings) /\ slots[m].nth # i
        BY <2>2, <1>1
      <4>2. slots[m].nth \in 1..k
        BY <4>1, <1>1
      <4>3. openings'[slots[m].nth].at = openings[slots[m].nth].at
        BY <4>1, <1>1
      <4>4. openings[slots[m].nth].at = slots[m].at
        BY <1>1
      <4> QED  BY <4>1, <4>2, <4>3, <4>4
    <3> QED  BY <2>2, <3>1, <2>0, <2>e
  <2> QED  BY <2>1, <2>2
<1>3. \A l, m \in 1..ReasmSlots : f[l] = f[m] => l = m
  <2> SUFFICES ASSUME NEW l \in 1..ReasmSlots, NEW m \in 1..ReasmSlots, l # m PROVE f[l] # f[m]
    OBVIOUS
  <2>1. slots[l].nth # slots[m].nth /\ slots[l].nth # k /\ slots[m].nth # k
    BY <1>1
  <2> QED  BY <2>1
<1>4. IsFiniteSet(R)
  <2>1. R \in SUBSET (1..k)
    BY DEF Rivals
  <2>2. IsFiniteSet(1..k)
    BY <1>1, FS_Interval
  <2> HIDE DEF R
  <2> QED  BY <2>1, <2>2, FS_Subset
<1> HIDE DEF R
<1>5. f \in Injection(1..ReasmSlots, R)
  BY <1>2, <1>3 DEF Injection, IsInjective
<1> HIDE DEF f
<1>6. Cardinality(1..ReasmSlots) <= Cardinality(R)
  BY <1>4, <1>5, FS_Injection
<1>7. Cardinality(1..ReasmSlots) = ReasmSlots
  BY <1>1, CountIs
<1> QED  BY <1>6, <1>7, <1>4, FS_CardinalityType, <1>1 DEF R

\* A new assembly is one more opening, and the slot it takes was free or the oldest.
LEMMA OpeningBegins ==
  ASSUME FramesInv, FramesAssumption, ms' = ms,
         NEW t \in Transmissions, NEW p \in Parts, Len(openings) < MaxOpenings,
         NEW n \in 1..ReasmSlots, n = Chosen(Swept(t)), NEW s \in Slot,
         s.at = ms, s.nth = Len(openings) + 1, s.mask = {p},
         openings' = Append(openings, [of |-> t, at |-> ms, heard |-> {p}]),
         Changed(n, s, t)
  PROVE  OpeningsInv'
<1>c. /\ slots'[n] = IF s.mask = Parts THEN NoCell ELSE s
      /\ \A m \in 1..ReasmSlots : m # n => slots'[m] = Swept(t)[m]
  BY DEF Changed
<1> DEFINE k == Len(openings) + 1
           O == [of : Transmissions, at : 0..MaxMs, heard : SUBSET Parts]
           e == [of |-> t, at |-> ms, heard |-> {p}]
<1>t. openings \in Seq(O) /\ ms \in 0..MaxMs /\ ms \in Nat /\ MaxOpenings \in Nat
  BY DEF FramesInv, FramesTypeOK, FramesAssumption
<1>e. e \in O /\ e.at = ms /\ e.heard = {p}
  BY <1>t
<1> HIDE DEF O, e
<1>1. /\ openings' \in Seq(O) /\ Len(openings) \in Nat /\ Len(openings') = k /\ Len(openings') <= MaxOpenings
      /\ DOMAIN openings = 1..Len(openings) /\ DOMAIN openings' = 1..k
      /\ openings'[k] = e
      /\ \A i \in DOMAIN openings : openings'[i] = openings[i]
  BY <1>t, <1>e DEF e
<1>u. ASSUME NEW m \in 1..ReasmSlots, m # n, InUse(slots', m)
      PROVE  InUse(slots, m) /\ slots'[m] = slots[m] /\ slots[m].nth \in DOMAIN openings
  BY <1>u, <1>c, SweptIs DEF InUse, FramesInv, SlotsAreOpenings
<1>n. InUse(slots', n) => s.mask # Parts /\ slots'[n] = s
  BY <1>c DEF InUse
<1>3. SlotsAreOpenings'
  <2>1. ASSUME NEW m \in 1..ReasmSlots, InUse(slots', m)
        PROVE  /\ slots'[m].nth \in DOMAIN openings'
               /\ openings'[slots'[m].nth].heard = slots'[m].mask
               /\ openings'[slots'[m].nth].at = slots'[m].at
    <3>1. CASE m = n
      <4>1. slots'[m].nth = k /\ slots'[m].mask = {p} /\ slots'[m].at = ms
        BY <3>1, <2>1, <1>n
      <4>2. k \in 1..k
        BY <1>1
      <4> QED  BY <4>1, <4>2, <1>1, <1>e
    <3>2. CASE m # n
      <4>1. InUse(slots, m) /\ slots'[m] = slots[m] /\ slots[m].nth \in DOMAIN openings
        BY <3>2, <2>1, <1>u
      <4>2. /\ openings[slots[m].nth].heard = slots[m].mask
            /\ openings[slots[m].nth].at = slots[m].at
        BY <4>1 DEF FramesInv, SlotsAreOpenings
      <4>3. slots[m].nth \in DOMAIN openings' /\ openings'[slots[m].nth] = openings[slots[m].nth]
        BY <4>1, <1>1
      <4> QED  BY <4>1, <4>2, <4>3
    <3> QED  BY <3>1, <3>2
  <2>2. ASSUME NEW l \in 1..ReasmSlots, NEW m \in 1..ReasmSlots, l # m, InUse(slots', l), InUse(slots', m)
        PROVE  slots'[l].nth # slots'[m].nth
    <3>k. k \notin DOMAIN openings
      BY <1>1
    <3>1. CASE l = n
      <4>1. slots'[l].nth = k
        BY <2>2, <3>1, <1>n
      <4>2. slots'[m].nth \in DOMAIN openings
        BY <2>2, <3>1, <1>u
      <4> QED  BY <4>1, <4>2, <3>k
    <3>2. CASE m = n
      <4>1. slots'[m].nth = k
        BY <2>2, <3>2, <1>n
      <4>2. slots'[l].nth \in DOMAIN openings
        BY <2>2, <3>2, <1>u
      <4> QED  BY <4>1, <4>2, <3>k
    <3>3. CASE l # n /\ m # n
      BY <2>2, <3>3, <1>u DEF FramesInv, SlotsAreOpenings
    <3> QED  BY <3>1, <3>2, <3>3
  <2>3. \A i \in DOMAIN openings' : openings'[i].at <= ms'
    BY <1>1, <1>e, <1>t DEF FramesInv, SlotsAreOpenings
  <2> QED  BY <2>1, <2>2, <2>3 DEF SlotsAreOpenings, InUse
<1>4. KeptAmongFew'
  <2>0. DOMAIN openings' = 1..k /\ ms' = ms
    BY <1>1
  <2> SUFFICES ASSUME NEW i \in 1..k
               PROVE  \/ openings'[i].heard = Parts
                      \/ ms - openings'[i].at > ReasmTtl
                      \/ Cardinality(Rivals(i)') >= ReasmSlots
                      \/ \E m \in 1..ReasmSlots :
                           InUse(slots', m) /\ slots'[m].nth = i /\ slots'[m].mask = openings'[i].heard
    BY <2>0 DEF KeptAmongFew, InUse
  <2>1. CASE i = k
    <3>1. openings'[i].heard = {p} /\ s.mask = {p} /\ s.nth = i /\ s # NoCell
      BY <2>1, <1>1, <1>e DEF FramesAssumption
    <3>2. CASE {p} = Parts
      BY <3>1, <3>2
    <3>3. CASE {p} # Parts
      <4>1. slots'[n] = s
        BY <3>1, <3>3, <1>c
      <4> QED  BY <3>1, <4>1 DEF InUse
    <3> QED  BY <3>2, <3>3
  <2>2. CASE i # k
    <3>1. i \in DOMAIN openings /\ openings'[i] = openings[i]
      BY <2>2, <1>1
    <3>2. CASE \E m \in 1..ReasmSlots :
                 InUse(slots, m) /\ slots[m].nth = i /\ slots[m].mask = openings[i].heard
      <4>1. PICK m \in 1..ReasmSlots :
               InUse(slots, m) /\ slots[m].nth = i /\ slots[m].mask = openings[i].heard
        BY <3>2
      <4>3. CASE Outdated(m)
        <5>1. openings[i].at = slots[m].at
          BY <4>1 DEF FramesInv, SlotsAreOpenings
        <5> QED  BY <4>3, <5>1, <3>1 DEF Outdated
      <4>4. CASE ~Outdated(m) /\ m # n
        <5>1. slots'[m] = slots[m]
          BY <4>1, <4>4, <1>c, SweptIs
        <5> QED  BY <4>1, <5>1, <3>1 DEF InUse
      <4>5. CASE ~Outdated(m) /\ m = n
        <5>1. InUse(Swept(t), n)
          BY <4>1, <4>5, SweptIs DEF InUse
        <5>2. \A l \in 1..ReasmSlots : InUse(Swept(t), l) /\ Swept(t)[n].at <= Swept(t)[l].at
          BY <5>1, ChosenIs DEF FramesInv
        <5>3. \A l \in 1..ReasmSlots : InUse(slots, l) /\ slots[n].at <= slots[l].at
          BY <5>2, SweptIs
        <5>4. i = slots[n].nth
          BY <4>1, <4>5
        <5>5. Cardinality(Rivals(i)') >= ReasmSlots
          BY <5>3, <5>4, <1>1, <1>e, EvictedByMany
        <5> QED  BY <5>5
      <4> QED  BY <4>3, <4>4, <4>5
    <3>3. CASE Cardinality(Rivals(i)) >= ReasmSlots
      <4>1. Rivals(i) \subseteq Rivals(i)'
        BY <1>1, <3>1 DEF Rivals
      <4>2. Rivals(i)' \in SUBSET (1..k)
        BY <1>1 DEF Rivals
      <4>3. IsFiniteSet(1..k)
        BY <1>1, CountIs
      <4>4. IsFiniteSet(Rivals(i)')
        BY <4>2, <4>3, FS_Subset
      <4>5. Cardinality(Rivals(i)) <= Cardinality(Rivals(i)')
        BY <4>1, <4>4, FS_Subset
      <4>6. Cardinality(Rivals(i)) \in Nat /\ Cardinality(Rivals(i)') \in Nat /\ ReasmSlots \in Nat
        BY <4>1, <4>4, FS_Subset, FS_CardinalityType DEF FramesAssumption
      <4> QED  BY <3>3, <4>5, <4>6
    <3> QED  BY <3>1, <3>2, <3>3 DEF FramesInv, KeptAmongFew
  <2> QED  BY <2>1, <2>2
<1> QED  BY <1>1, <1>3, <1>4 DEF O, OpeningsInv

-----------------------------------------------------------------------------
(* Frames: the steps *)

LEMMA FramesBegin ==
  ASSUME FramesAssumption, FramesInit
  PROVE  FramesInv
<1> USE FramesAssumption DEF FramesInit
<1>1. FramesTypeOK
  BY DEF FramesTypeOK, FramesAssumption
<1>2. SlotsAreTrue /\ FramesAreSent /\ CellsAreSent /\ SlotsAreOpenings /\ KeptAmongFew
  BY DEF SlotsAreTrue, FramesAreSent, CellsAreSent, SlotsAreOpenings, KeptAmongFew, InUse
<1>3. PartsAreApart
  BY DEF PartsAreApart, Complete, InUse
<1> QED  BY <1>1, <1>2, <1>3 DEF FramesInv

LEMMA SendCellStep ==
  ASSUME FramesInv, FramesAssumption, NEW t \in Transmissions, SendCell(t)
  PROVE  FramesInv'
<1>1. PICK k \in 0..FramesPerCell : frames' = frames \cup {<<t, p>> : p \in 0..(k - 1)}
  BY DEF SendCell
<1>2. /\ t \notin sentCells /\ sentCells' = sentCells \cup {t}
      /\ UNCHANGED <<doubles, ms, slots, rxQueue, arrived, openings>>
  BY DEF SendCell
<1>3. \A f \in frames' : f \in frames \/ (f[1] = t /\ f \in Transmissions \X Parts)
  <2>1. 0..(k - 1) \subseteq Parts
    BY DEF Parts, FramesAssumption
  <2> QED  BY <1>1, <2>1
<1>4. FramesTypeOK'
  BY <1>2, <1>3 DEF FramesInv, FramesTypeOK
<1>5. FramesAreSent' /\ SlotsAreTrue' /\ CellsAreSent'
  BY <1>2, <1>3 DEF FramesInv, FramesAreSent, SlotsAreTrue, CellsAreSent, InUse
<1>6. ASSUME ~doubles' PROVE PartsAreApart'
  <2>a. PartsAreApart
    BY <1>6, <1>2 DEF FramesInv
  <2>n. \A n \in 1..ReasmSlots : InUse(slots, n) => slots[n].of # t
    BY <1>2 DEF FramesInv, SlotsAreTrue
  <2>c. ~Complete(t)
    <3>1. \A u \in sentCells : u \in Transmissions
      BY DEF FramesInv, FramesTypeOK
    <3> QED  BY <1>2, <3>1, WholeIs DEF FramesInv, CellsAreSent, Complete
  <2>1. \A n \in 1..ReasmSlots : InUse(slots, n) =>
          \A p \in slots[n].mask : <<slots[n].of, p>> \notin frames'
    BY <2>a, <2>n, <1>3 DEF PartsAreApart
  <2>2. \A u \in Transmissions : Complete(u) =>
          \A p \in Parts : <<u, p>> \notin frames'
    BY <2>a, <2>c, <1>3 DEF PartsAreApart
  <2> QED  BY <2>a, <2>1, <2>2, <1>2 DEF PartsAreApart, Complete, InUse
<1>7. SlotsAreOpenings' /\ KeptAmongFew'
  BY <1>2 DEF FramesInv, SlotsAreOpenings, KeptAmongFew, Rivals, InUse
<1> QED  BY <1>4, <1>5, <1>6, <1>7 DEF FramesInv

LEMMA HeardIs ==
  ASSUME FramesInv, PartsInv', OpeningsInv', UNCHANGED <<doubles, sentCells, ms, arrived>>
  PROVE  FramesInv'
<1>1. FramesTypeOK'
  BY DEF FramesInv, FramesTypeOK, PartsInv, OpeningsInv
<1> QED  BY <1>1 DEF FramesInv, PartsInv, OpeningsInv

LEMMA HearFrameStep ==
  ASSUME FramesInv, FramesAssumption, Hear
  PROVE  FramesInv'
<1>1. PICK t \in Transmissions, p \in Parts :
        /\ <<t, p>> \in frames
        /\ frames' = IF doubles THEN frames ELSE frames \ {<<t, p>>}
        /\ HearPart(t, p)
  BY DEF Hear
<1>2. UNCHANGED <<doubles, sentCells, ms, arrived>>
  BY DEF Hear
<1>3. CASE \E n \in Matches(t) :
             /\ Push(n, Swept(t), WithPart(slots[n], t, p))
             /\ openings' = [openings EXCEPT ![slots[n].nth].heard = @ \cup {p}]
  <2>1. PICK n \in Matches(t) :
             /\ Push(n, Swept(t), WithPart(slots[n], t, p))
             /\ openings' = [openings EXCEPT ![slots[n].nth].heard = @ \cup {p}]
    BY <1>3
  <2>2. n \in 1..ReasmSlots /\ InUse(slots, n) /\ slots[n].of = t
    BY DEF Matches
  <2>s. PICK s : s = WithPart(slots[n], t, p)
    OBVIOUS
  <2>3. /\ s \in Slot /\ s.of = t /\ s.at = slots[n].at /\ s.nth = slots[n].nth
        /\ s.mask = slots[n].mask \cup {p}
        /\ \A q \in Parts : s.buf[q] = IF q = p THEN t ELSE slots[n].buf[q]
    <3>1. /\ slots[n] \in Slot /\ slots[n].mask \cup {p} \subseteq Parts
          /\ slots[n].buf \in [Parts -> Transmissions \cup {Zeros}]
      BY <2>2, SlotIs DEF FramesInv, Buffers
    <3> QED  BY <2>2, <2>s, <3>1 DEF Slot, WithPart, Buffers
  <2>4. \A q \in Parts : s.buf[q] = IF q \in s.mask THEN t ELSE Zeros
    BY <2>2, <2>3 DEF FramesInv, SlotsAreTrue
  <2>5. Takes(n, s, t, p)
    BY <2>2, <2>3, <2>4 DEF Takes
  <2>6. Push(n, Swept(t), s)
    BY <2>1, <2>s
  <2>7. PartsInv' /\ Changed(n, s, t)
    BY <1>1, <1>2, <2>2, <2>5, <2>6, PartPushed
  <2>8. openings' = [openings EXCEPT ![slots[n].nth].heard = @ \cup {p}]
    BY <2>1
  <2>9. OpeningsInv'
    BY <1>2, <2>2, <2>3, <2>7, <2>8, OpeningGoesOn
  <2> QED  BY <2>7, <2>9, <1>2, HeardIs
<1>4. CASE /\ Len(openings) < MaxOpenings
           /\ LET n == Chosen(Swept(t))
              IN Push(n, Swept(t), WithPart(InitSlot(t, Swept(t)[n]), t, p))
           /\ openings' = Append(openings, [of |-> t, at |-> ms, heard |-> {p}])
  <2>n. PICK n : n = Chosen(Swept(t))
    OBVIOUS
  <2>s. PICK s : s = WithPart(InitSlot(t, Swept(t)[n]), t, p)
    OBVIOUS
  <2>2. n \in 1..ReasmSlots
    BY <2>n, ChosenIs DEF FramesInv
  <2>3. /\ s \in Slot /\ s.of = t /\ s.at = ms /\ s.nth = Len(openings) + 1 /\ s.mask = {p}
        /\ \A q \in Parts : s.buf[q] = IF q = p THEN t ELSE Zeros
    <3>1. ms \in 0..MaxMs /\ Len(openings) + 1 \in 1..MaxOpenings
      <4>1. Len(openings) \in Nat /\ MaxOpenings \in Nat
        BY DEF FramesInv, FramesTypeOK, FramesAssumption
      <4> QED  BY <4>1, <1>4 DEF FramesInv, FramesTypeOK
    <3>b. PICK b : b = [q \in Parts |-> Zeros]
      OBVIOUS
    <3>2. [b EXCEPT ![p] = t] \in [Parts -> Transmissions \cup {Zeros}]
      BY <3>b
    <3>i. PICK r : r = [of |-> t, at |-> ms, mask |-> {}, buf |-> b, nth |-> Len(openings) + 1]
      OBVIOUS
    <3>3. s = [r EXCEPT !.mask = {p}, !.buf = [b EXCEPT ![p] = t]]
      BY <2>s, <3>i, <3>b DEF WithPart, InitSlot
    <3>c. PICK c : c = [b EXCEPT ![p] = t]
      OBVIOUS
    <3>4. s = [of |-> t, at |-> ms, mask |-> {p}, buf |-> c, nth |-> Len(openings) + 1]
      BY <3>3, <3>c, <3>i
    <3>5. \A q \in Parts : c[q] = IF q = p THEN t ELSE Zeros
      BY <3>b, <3>c
    <3> QED  BY <3>1, <3>2, <3>c, <3>4, <3>5 DEF Slot, Buffers
  <2>4. \A q \in Parts : s.buf[q] = IF q \in s.mask THEN t ELSE Zeros
    BY <2>3
  <2>5. Takes(n, s, t, p)
    BY <2>3, <2>4 DEF Takes
  <2>6. Push(n, Swept(t), s)
    BY <1>4, <2>n, <2>s
  <2>7. PartsInv' /\ Changed(n, s, t)
    BY <1>1, <1>2, <2>2, <2>5, <2>6, PartPushed
  <2>8. OpeningsInv'
    BY <1>2, <1>4, <2>n, <2>2, <2>3, <2>7, OpeningBegins
  <2> QED  BY <2>7, <2>8, <1>2, HeardIs
<1> QED  BY <1>1, <1>3, <1>4 DEF HearPart

LEMMA TakeCellStep ==
  ASSUME FramesInv, FramesAssumption, TakeCell
  PROVE  /\ FramesInv'
         /\ \E t \in sentCells : Head(rxQueue) = Whole(t)
         /\ doubles \/ \A i \in DOMAIN arrived : arrived[i] # Head(rxQueue)
<1>2. rxQueue \in Seq(Buffers) /\ arrived \in Seq(Buffers) /\ Len(rxQueue) <= RxQueueLen /\ RxQueueLen \in Nat
  BY DEF FramesInv, FramesTypeOK, FramesAssumption
<1>e. rxQueue # <<>>
  BY DEF TakeCell
<1> DEFINE c == Head(rxQueue)
<1>1. /\ rxQueue # <<>> /\ arrived' = Append(arrived, c) /\ rxQueue' = Tail(rxQueue)
      /\ UNCHANGED <<doubles, sentCells, frames, ms, slots, openings>>
  BY DEF TakeCell
<1>3. 1 \in DOMAIN rxQueue /\ c = rxQueue[1] /\ c \in Buffers /\ Len(rxQueue) \in Nat \ {0}
  <2> HIDE DEF Buffers
  <2> QED  BY <1>e, <1>2
<1> HIDE DEF c
<1>4. /\ rxQueue' \in Seq(Buffers) /\ Len(rxQueue') = Len(rxQueue) - 1
      /\ \A i \in DOMAIN rxQueue' : i + 1 \in DOMAIN rxQueue /\ rxQueue'[i] = rxQueue[i + 1]
  BY <1>1, <1>2, <1>3
<1>5. /\ arrived' \in Seq(Buffers)
      /\ \A i \in DOMAIN arrived' :
           \/ i \in DOMAIN arrived /\ arrived'[i] = arrived[i]
           \/ i = Len(arrived) + 1 /\ arrived'[i] = c
  BY <1>1, <1>2, <1>3
<1>6. FramesTypeOK'
  BY <1>1, <1>2, <1>3, <1>4, <1>5 DEF FramesInv, FramesTypeOK
<1>7. CellsAreSent'
  <2>1. \A i \in DOMAIN rxQueue' : \E t \in sentCells : rxQueue'[i] = Whole(t)
    BY <1>4 DEF FramesInv, CellsAreSent
  <2>2. \A i \in DOMAIN arrived' : \E t \in sentCells : arrived'[i] = Whole(t)
    BY <1>3, <1>5 DEF FramesInv, CellsAreSent
  <2> QED  BY <2>1, <2>2, <1>1 DEF CellsAreSent
<1>8. ASSUME ~doubles PROVE PartsAreApart' /\ \A i \in DOMAIN arrived : arrived[i] # c
  <2>a. PartsAreApart
    BY <1>8 DEF FramesInv
  <2>1. \A i, j \in DOMAIN rxQueue' : rxQueue'[i] = rxQueue'[j] => i = j
    <3> SUFFICES ASSUME NEW i \in DOMAIN rxQueue', NEW j \in DOMAIN rxQueue', rxQueue'[i] = rxQueue'[j]
                 PROVE  i = j
      OBVIOUS
    <3>1. i + 1 = j + 1
      BY <1>4, <2>a DEF PartsAreApart
    <3>2. i \in Int /\ j \in Int
      BY <1>4
    <3> QED  BY <3>1, <3>2
  <2>2. \A i \in DOMAIN arrived : arrived[i] # c
    BY <1>3, <2>a DEF PartsAreApart
  <2>3. \A i, j \in DOMAIN arrived' : arrived'[i] = arrived'[j] => i = j
    BY <2>2, <1>5, <2>a DEF PartsAreApart
  <2>4. \A i \in DOMAIN rxQueue', j \in DOMAIN arrived' : rxQueue'[i] # arrived'[j]
    <3> SUFFICES ASSUME NEW i \in DOMAIN rxQueue', NEW j \in DOMAIN arrived'
                 PROVE  rxQueue'[i] # arrived'[j]
      OBVIOUS
    <3>1. i + 1 \in DOMAIN rxQueue /\ rxQueue'[i] = rxQueue[i + 1] /\ i + 1 # 1
      BY <1>4
    <3>2. rxQueue[i + 1] # c
      BY <3>1, <1>3, <2>a DEF PartsAreApart
    <3> QED  BY <3>1, <3>2, <1>5, <2>a DEF PartsAreApart
  <2>5. \A t : Complete(t)' => Complete(t)
    <3> SUFFICES ASSUME NEW t, Complete(t)' PROVE Complete(t)
      OBVIOUS
    <3>1. CASE \E i \in DOMAIN rxQueue' : rxQueue'[i] = Whole(t)
      BY <3>1, <1>4 DEF Complete
    <3>2. CASE \E i \in DOMAIN arrived' : arrived'[i] = Whole(t)
      BY <3>2, <1>3, <1>5 DEF Complete
    <3> QED  BY <3>1, <3>2 DEF Complete, Whole
  <2>6. \A t \in Transmissions : Complete(t)' =>
          /\ \A p \in Parts : <<t, p>> \notin frames
          /\ \A n \in 1..ReasmSlots : InUse(slots, n) => slots[n].of # t
    BY <2>5, <2>a DEF PartsAreApart
  <2>7. /\ \A n \in 1..ReasmSlots : InUse(slots, n) =>
             \A p \in slots[n].mask : <<slots[n].of, p>> \notin frames
        /\ \A n, m \in 1..ReasmSlots :
             n # m /\ InUse(slots, n) /\ InUse(slots, m) /\ slots[n].of = slots[m].of =>
               slots[n].mask \cap slots[m].mask = {}
    BY <2>a DEF PartsAreApart
  <2> QED  BY <2>1, <2>2, <2>3, <2>4, <2>6, <2>7, <1>1 DEF PartsAreApart, InUse
<1>9. /\ SlotsAreTrue' /\ FramesAreSent' /\ SlotsAreOpenings' /\ KeptAmongFew'
  BY <1>1 DEF FramesInv, SlotsAreTrue, FramesAreSent, SlotsAreOpenings, KeptAmongFew, Rivals, InUse
<1>10. \E t \in sentCells : c = Whole(t)
  BY <1>3 DEF FramesInv, CellsAreSent
<1> QED  BY <1>1, <1>6, <1>7, <1>8, <1>9, <1>10 DEF FramesInv, c

LEMMA MsStep ==
  ASSUME FramesInv, FramesAssumption, MsPasses
  PROVE  FramesInv'
<1>1. ms' = ms + 1 /\ UNCHANGED <<doubles, sentCells, frames, slots, rxQueue, arrived, openings>>
  BY DEF MsPasses
<1>2. ms \in Nat /\ ReasmTtl \in Nat /\ \A i \in DOMAIN openings : openings[i].at \in Nat
  <2>1. ms \in Nat /\ ReasmTtl \in Nat
    BY DEF FramesInv, FramesTypeOK, FramesAssumption
  <2> DEFINE O == [of : Transmissions, at : 0..MaxMs, heard : SUBSET Parts]
  <2>2. openings \in Seq(O)
    BY DEF FramesInv, FramesTypeOK
  <2>3. \A o \in O : o.at \in Nat
    BY DEF FramesAssumption
  <2> HIDE DEF O
  <2> QED  BY <2>1, <2>2, <2>3
<1>3. FramesTypeOK'
  <2>1. ms' \in 0..MaxMs
    BY <1>1, <1>2 DEF MsPasses, FramesAssumption
  <2> QED  BY <1>1, <2>1 DEF FramesInv, FramesTypeOK
<1>4. SlotsAreTrue' /\ FramesAreSent' /\ CellsAreSent'
  BY <1>1 DEF FramesInv, SlotsAreTrue, FramesAreSent, CellsAreSent, InUse
<1>5. ~doubles' => PartsAreApart'
  BY <1>1 DEF FramesInv, PartsAreApart, Complete, InUse
<1>6. SlotsAreOpenings'
  <2>1. \A i \in DOMAIN openings : openings[i].at <= ms'
    BY <1>1, <1>2 DEF FramesInv, SlotsAreOpenings
  <2> QED  BY <2>1, <1>1 DEF FramesInv, SlotsAreOpenings, InUse
<1>7. KeptAmongFew'
  <2>1. \A i \in DOMAIN openings : ms - openings[i].at > ReasmTtl => ms' - openings[i].at > ReasmTtl
    BY <1>1, <1>2
  <2> QED  BY <2>1, <1>1 DEF FramesInv, KeptAmongFew, Rivals, InUse
<1> QED  BY <1>3, <1>4, <1>5, <1>6, <1>7 DEF FramesInv

-----------------------------------------------------------------------------
(* Frames: the theorems *)

\* The inductive invariant: a slot holds the parts that were heard of one cell that was
\* sent, in an opening of its own, and while no frame is doubled each part is in one place.
THEOREM FramesInvariant == FramesSpec => []FramesInv
<1>1. FramesInit => FramesInv
  BY FramesAssumption, FramesBegin
<1>2. FramesInv /\ [FramesNext]_framesVars => FramesInv'
  <2> SUFFICES ASSUME FramesInv, [FramesNext]_framesVars PROVE FramesInv'
    OBVIOUS
  <2> USE FramesAssumption
  <2>1. CASE \E t \in Transmissions : SendCell(t)
    BY <2>1, SendCellStep
  <2>2. CASE Hear
    BY <2>2, HearFrameStep
  <2>3. CASE TakeCell
    BY <2>3, TakeCellStep
  <2>4. CASE MsPasses
    BY <2>4, MsStep
  <2>5. CASE UNCHANGED framesVars
    <3> USE <2>5 DEF framesVars, FramesInv
    <3>1. FramesTypeOK'
      BY DEF FramesTypeOK
    <3>2. SlotsAreTrue' /\ FramesAreSent' /\ CellsAreSent'
      BY DEF SlotsAreTrue, FramesAreSent, CellsAreSent, InUse
    <3>3. ~doubles' => PartsAreApart'
      BY DEF PartsAreApart, Complete, InUse
    <3>4. SlotsAreOpenings' /\ KeptAmongFew'
      BY DEF SlotsAreOpenings, KeptAmongFew, Rivals, InUse
    <3> QED  BY <3>1, <3>2, <3>3, <3>4
  <2> QED  BY <2>1, <2>2, <2>3, <2>4, <2>5 DEF FramesNext
<1> QED  BY <1>1, <1>2, PTL DEF FramesSpec

\* Every variable of the receiver keeps its type.
THEOREM FramesTypeCorrect == FramesSpec => []FramesTypeOK
<1>1. FramesInv => FramesTypeOK
  BY DEF FramesInv
<1> QED  BY <1>1, FramesInvariant, PTL

\* A half-assembled cell is given up only for its age or for as many others as there
\* are slots.
THEOREM FewAreKept == FramesSpec => []KeptAmongFew
<1>1. FramesInv => KeptAmongFew
  BY DEF FramesInv
<1> QED  BY <1>1, FramesInvariant, PTL

LEMMA PathBegins ==
  ASSUME FramesInit
  PROVE  Path!Init
BY DEF FramesInit, Path!Init

\* Sending is sending, taking from the queue is arriving, and the rest is not seen.
LEMMA PathStep ==
  ASSUME FramesInv, FramesAssumption, [FramesNext]_framesVars
  PROVE  [Path!Next]_(Path!pathVars)
<1> DEFINE sent == {Whole(t) : t \in sentCells}
<1>1. CASE \E t \in Transmissions : SendCell(t)
  <2>1. PICK t \in Transmissions : SendCell(t)
    BY <1>1
  <2>2. /\ t \notin sentCells /\ sentCells' = sentCells \cup {t} /\ UNCHANGED <<doubles, arrived>>
    BY <2>1 DEF SendCell
  <2>3. Whole(t) \notin sent
    <3>1. \A u \in sentCells : u \in Transmissions
      BY DEF FramesInv, FramesTypeOK
    <3> QED  BY <2>2, <3>1, WholeIs
  <2>4. {Whole(u) : u \in sentCells'} = sent \cup {Whole(t)}
    BY <2>2
  <2>5. Path!Send(Whole(t))
    BY <2>2, <2>3, <2>4 DEF Path!Send, Whole, Parts
  <2> QED  BY <2>5 DEF Path!Next
<1>2. CASE TakeCell
  <2>1. PICK t \in sentCells : Head(rxQueue) = Whole(t)
    BY <1>2, TakeCellStep
  <2>2. doubles \/ \A i \in DOMAIN arrived : arrived[i] # Head(rxQueue)
    BY <1>2, TakeCellStep
  <2>3. t \in Transmissions
    BY DEF FramesInv, FramesTypeOK
  <2>4. Path!Arrive(Whole(t))
    BY <1>2, <2>1, <2>2 DEF Path!Arrive, TakeCell
  <2> QED  BY <2>3, <2>4 DEF Path!Next
<1>3. CASE Hear \/ MsPasses \/ UNCHANGED framesVars
  BY <1>3 DEF Hear, MsPasses, framesVars, Path!pathVars
<1> QED  BY <1>1, <1>2, <1>3 DEF FramesNext

\* Frames lost, overtaken or doubled, evictions and time-outs are a path of whole cells.
THEOREM FramesAreAPath == FramesSpec => ImplementsCellPath
<1>1. FramesInit => Path!Init
  BY PathBegins
<1>2. FramesInv /\ [FramesNext]_framesVars => [Path!Next]_(Path!pathVars)
  BY FramesAssumption, PathStep
<1> QED  BY <1>1, <1>2, FramesInvariant, PTL DEF FramesSpec, Path!Spec, ImplementsCellPath

-----------------------------------------------------------------------------
(* The rules of a board: the inductive invariant *)

HeardSpace == [type : Types, peer : Peers, at : 0..MaxStamp]
InstallSpace ==
  [at : {"rest", "cleared"}]
    \cup [at : {"decoding"}, trigger : Triggers]
    \cup [at : {"decoded"}, rule : Rules, by : {"swap", "forward"}]
    \cup [at : {"chosen", "copying"}, n : 4..RulesMax, rule : Rules, by : {"swap", "forward"}]
ReportSpace == [rule : Rules, by : {"cell", "swap", "forward"}]

\* The ring q holds the last RingSize of the cells h, in the order they came by time s.
Recent(h, q, s) ==
  /\ h \in Seq(HeardSpace) /\ q \in Seq(HeardSpace)
  /\ Len(q) = IF Len(h) <= RingSize THEN Len(h) ELSE RingSize
  /\ \A i \in 1..Len(q) : q[i] = h[Len(h) - Len(q) + i]
  /\ \A i, j \in 1..Len(h) : i <= j => h[i].at <= h[j].at
  /\ \A i \in 1..Len(h) : h[i].at <= s

RingIsRecent == stamp \in 0..MaxStamp /\ Recent(heard, ring, stamp)

\* The demo's rules are in the first three entries for good; what comes in goes
\* behind them.
TableInv ==
  /\ rules \in [Entries -> [occupied : BOOLEAN, trigger : Triggers \cup {Nothing},
                            effect : Effects \cup {Nothing}]]
  /\ \A n \in 1..3 : rules[n] = Entry(TRUE, DemoRules[n])
  /\ \A n \in Entries : rules[n].occupied => rules[n].effect \in Effects
  /\ fwdRule \in [full : BOOLEAN, bytes : RuleSet \cup {Nothing}]
  /\ install \in InstallSpace
  /\ fwdRule.full \/ install.at \in {"cleared", "decoding"} => fwdRule.bytes \in RuleSet
  /\ emitDue \in BOOLEAN /\ fired \subseteq Effects /\ broken \in BOOLEAN
  /\ reported \in Seq(ReportSpace)

Extra(r) == Held(rules, r) \ 1..3
ReportsIn(s, r) == {i \in DOMAIN s : s[i].rule = r}
Reports(r) == ReportsIn(reported, r)

\* While no install was interrupted, an entry that is being written is free, and
\* holds what has been written of its rule; a hot swap's rule is still new.
InstallInv ==
  ~broken =>
    /\ install.at \in {"chosen", "copying"} => ~rules[install.n].occupied
    /\ install.at = "copying" => rules[install.n].trigger = install.rule.trigger
    /\ install.at \in {"decoded", "chosen", "copying"} /\ install.by = "swap"
         => Reports(install.rule) = {}
    /\ \A r \in Rules : Cardinality(Extra(r)) = Cardinality(Reports(r))
    /\ \A i, j \in DOMAIN reported :
         i < j /\ reported[i].rule = reported[j].rule => reported[j].by = "forward"

LEMMA InstallIs ==
  ASSUME install \in InstallSpace
  PROVE  /\ install.at \in {"rest", "cleared", "decoding", "decoded", "chosen", "copying"}
         /\ install.at = "decoding" => install.trigger \in Triggers
         /\ install.at \in {"decoded", "chosen", "copying"} =>
              install.rule \in Rules /\ install.by \in {"swap", "forward"}
         /\ install.at \in {"chosen", "copying"} =>
              /\ install.n \in 4..RulesMax
              /\ install \in [at : {"chosen", "copying"}, n : 4..RulesMax, rule : Rules,
                              by : {"swap", "forward"}]
BY DEF InstallSpace

LEMMA EntriesAre ==
  /\ RulesMax \in Nat /\ RulesMax >= 3 /\ RingSize \in Nat \ {0} /\ QuorumN \in Nat \ {0}
  /\ QuorumWindow \in Nat /\ MaxStamp \in Nat /\ MaxEvents \in Nat
  /\ 1..3 \subseteq Entries /\ 4..RulesMax \subseteq Entries
  /\ Entries = 1..3 \cup 4..RulesMax
BY RulesAssumption DEF Entries

LEMMA DemoRulesAre ==
  /\ DemoRules[1] = [trigger |-> OnTap, effect |-> "short"]
  /\ DemoRules[2] = [trigger |-> OnTap, effect |-> "emit"]
  /\ DemoRules[3] = [trigger |-> QuorumOnTap, effect |-> "long"]
  /\ \A n \in 1..3 : DemoRules[n] \in Rules
BY DEF DemoRules, Rules, Triggers, Effects, Types, OnTap, QuorumOnTap

\* The first free entry is free, and behind the demo's.
LEMMA FreeEntry ==
  ASSUME TableInv, Room # {}
  PROVE  /\ FirstEntry(Room) \in 4..RulesMax
         /\ ~rules[FirstEntry(Room)].occupied
<1>1. Room \in SUBSET Nat
  BY EntriesAre DEF Room, Entries
<1>2. \E n \in Room : \A m \in Room : n <= m
  BY <1>1, Least
<1>3. FirstEntry(Room) \in Room
  BY <1>2 DEF FirstEntry
<1>4. \A n \in 1..3 : rules[n].occupied
  BY DEF TableInv, Entry
<1> QED  BY <1>3, <1>4, EntriesAre DEF Room

-----------------------------------------------------------------------------
(* The rules of a board: the table *)

HeldGrowsBy(t, u, n, r) ==
  /\ Held(u, r) \ 1..3 = (Held(t, r) \ 1..3) \cup {n}
  /\ n \notin Held(t, r)
  /\ \A q \in Rules : q # r => Held(u, q) \ 1..3 = Held(t, q) \ 1..3

\* A rule that is written into a free entry is held there, and nothing else moves.
LEMMA HeldGrows ==
  ASSUME NEW t, NEW u, NEW n \in 4..RulesMax, NEW r \in Rules,
         t \in [Entries -> [occupied : BOOLEAN, trigger : Triggers \cup {Nothing},
                            effect : Effects \cup {Nothing}]],
         ~t[n].occupied,
         u = [t EXCEPT ![n] = Entry(TRUE, r)]
  PROVE  HeldGrowsBy(t, u, n, r)
<1>1. n \in Entries /\ n \notin 1..3
  BY EntriesAre
<1>2. u[n] = Entry(TRUE, r) /\ \A m \in Entries : m # n => u[m] = t[m]
  BY <1>1
<1>3. \A q \in Rules : t[n] # Entry(TRUE, q)
  BY DEF Entry
<1>4. \A q \in Rules : Entry(TRUE, q) = Entry(TRUE, r) => q = r
  BY DEF Entry, Rules
<1>5. ASSUME NEW q \in Rules, q # r PROVE Held(u, q) \ 1..3 = Held(t, q) \ 1..3
  <2>1. u[n] # Entry(TRUE, q) /\ t[n] # Entry(TRUE, q)
    BY <1>2, <1>3, <1>4, <1>5
  <2> QED  BY <2>1, <1>1, <1>2 DEF Held
<1>6. n \notin Held(t, r)
  BY <1>3 DEF Held
<1>7. Held(u, r) \ 1..3 = (Held(t, r) \ 1..3) \cup {n}
  BY <1>1, <1>2 DEF Held
<1> QED  BY <1>5, <1>6, <1>7 DEF HeldGrowsBy

LEMMA HeldIsFinite ==
  ASSUME NEW t, NEW r
  PROVE  IsFiniteSet(Held(t, r) \ 1..3)
<1>1. IsFiniteSet(Entries)
  BY EntriesAre, FS_Interval DEF Entries
<1> QED  BY <1>1, FS_Subset DEF Held

ReportsGrowBy(s, u, r, by) ==
  /\ u \in Seq(ReportSpace)
  /\ ReportsIn(u, r) = ReportsIn(s, r) \cup {Len(s) + 1}
  /\ Len(s) + 1 \notin ReportsIn(s, r)
  /\ \A q \in Rules : q # r => ReportsIn(u, q) = ReportsIn(s, q)
  /\ \A i \in DOMAIN s : u[i] = s[i]
  /\ u[Len(s) + 1] = [rule |-> r, by |-> by]
  /\ DOMAIN u = DOMAIN s \cup {Len(s) + 1}
  /\ Len(s) \in Nat /\ DOMAIN s = 1..Len(s)

LEMMA ReportsGrow ==
  ASSUME NEW s \in Seq(ReportSpace), NEW r \in Rules, NEW by \in {"cell", "swap", "forward"},
         NEW u, u = Append(s, [rule |-> r, by |-> by])
  PROVE  ReportsGrowBy(s, u, r, by)
<1> DEFINE e == [rule |-> r, by |-> by]
<1>1. e \in ReportSpace
  BY DEF ReportSpace
<1>2. /\ u \in Seq(ReportSpace) /\ Len(u) = Len(s) + 1
      /\ \A i \in 1..Len(s) : u[i] = s[i]
      /\ u[Len(s) + 1] = e
      /\ Len(s) \in Nat /\ DOMAIN s = 1..Len(s) /\ DOMAIN u = 1..(Len(s) + 1)
  BY <1>1
<1>3. e.rule = r
  OBVIOUS
<1> HIDE DEF e
<1>4. DOMAIN u = DOMAIN s \cup {Len(s) + 1}
  BY <1>2
<1>5. ReportsIn(u, r) = ReportsIn(s, r) \cup {Len(s) + 1} /\ Len(s) + 1 \notin ReportsIn(s, r)
  BY <1>2, <1>3, <1>4 DEF ReportsIn
<1>6. \A q \in Rules : q # r => ReportsIn(u, q) = ReportsIn(s, q)
  BY <1>2, <1>3, <1>4 DEF ReportsIn
<1> QED  BY <1>2, <1>4, <1>5, <1>6 DEF e, ReportsGrowBy

LEMMA ReportsAreFinite ==
  ASSUME NEW s \in Seq(ReportSpace), NEW r
  PROVE  IsFiniteSet(ReportsIn(s, r))
<1>1. Len(s) \in Nat /\ DOMAIN s = 1..Len(s)
  OBVIOUS
<1>2. IsFiniteSet(1..Len(s))
  BY <1>1, FS_Interval
<1> QED  BY <1>1, <1>2, FS_Subset DEF ReportsIn

-----------------------------------------------------------------------------
(* The rules of a board: the ring *)

\* The two sides of QuorumIsHeard, of cells h and of a ring q at time s.
Young(q, s) == {i \in DOMAIN q : \A j \in i..Len(q) : s - q[j].at <= QuorumWindow}
TapsInRing(q, s) == {q[i].peer : i \in {k \in Young(q, s) : q[k].type = "tap"}}
Window(h) == {i \in DOMAIN h : h[Len(h)].at - h[i].at <= QuorumWindow}
TapsIn(h) == {h[i].peer : i \in {k \in Window(h) : h[k].type = "tap"}}

\* What is pushed is the last of the cells heard, and of the ring.
LEMMA PushIsRecent ==
  ASSUME NEW h, NEW q, NEW s \in 0..MaxStamp, Recent(h, q, s),
         NEW c \in HeardSpace, c.at = s
  PROVE  LET all == Append(q, c)
         IN Recent(Append(h, c), IF Len(all) > RingSize THEN Tail(all) ELSE all, s)
<1> DEFINE g == Append(h, c)
           all == Append(q, c)
           p == IF Len(all) > RingSize THEN Tail(all) ELSE all
<1>1. /\ g \in Seq(HeardSpace) /\ Len(g) = Len(h) + 1 /\ g[Len(h) + 1] = c
      /\ \A i \in 1..Len(h) : g[i] = h[i]
      /\ Len(h) \in Nat
  BY DEF Recent
<1>2. /\ all \in Seq(HeardSpace) /\ Len(all) = Len(q) + 1 /\ all[Len(q) + 1] = c
      /\ \A i \in 1..Len(q) : all[i] = q[i]
      /\ Len(q) \in Nat
  BY DEF Recent
<1> HIDE DEF g, all
<1>3. Tail(all) \in Seq(HeardSpace) /\ Len(Tail(all)) = Len(q)
      /\ \A i \in 1..Len(q) : Tail(all)[i] = all[i + 1]
  BY <1>2
<1>4. p \in Seq(HeardSpace) /\ Len(p) = IF Len(g) <= RingSize THEN Len(g) ELSE RingSize
  BY <1>1, <1>2, <1>3, EntriesAre DEF Recent
<1>9. (Len(all) > RingSize => p = Tail(all)) /\ (Len(all) <= RingSize => p = all)
  BY <1>2, EntriesAre
<1>10. Len(q) \in Nat /\ Len(q) <= Len(h) /\ Len(q) <= RingSize
  BY <1>1, EntriesAre DEF Recent
<1> HIDE DEF p
<1>5. \A i \in 1..Len(p) : p[i] = g[Len(g) - Len(p) + i]
  <2>1. CASE Len(all) > RingSize
    <3>1. p = Tail(all) /\ Len(p) = Len(q) /\ Len(q) = RingSize
      BY <2>1, <1>2, <1>3, <1>9, <1>10, EntriesAre
    <3>2. ASSUME NEW i \in 1..Len(q) PROVE p[i] = g[Len(g) - Len(p) + i]
      <4>1. p[i] = all[i + 1] /\ Len(g) - Len(p) + i = Len(h) - Len(q) + (i + 1)
        BY <3>1, <1>1, <1>2, <1>3
      <4>2. CASE i = Len(q)
        BY <4>1, <4>2, <1>1, <1>2, <1>10
      <4>3. CASE i < Len(q)
        <5>1. i + 1 \in 1..Len(q) /\ q[i + 1] = h[Len(h) - Len(q) + (i + 1)]
          <6>1. i + 1 \in 1..Len(q)
            BY <4>3, <1>10
          <6>2. \A n \in 1..Len(q) : q[n] = h[Len(h) - Len(q) + n]
            BY DEF Recent
          <6> QED  BY <6>1, <6>2
        <5>2. Len(h) - Len(q) + (i + 1) \in 1..Len(h)
          BY <4>3, <1>1, <1>2, EntriesAre DEF Recent
        <5> QED  BY <4>1, <5>1, <5>2, <1>1, <1>2
      <4> QED  BY <4>2, <4>3, <1>2
    <3> QED  BY <3>1, <3>2
  <2>2. CASE Len(all) <= RingSize
    <3>1. p = all /\ Len(p) = Len(q) + 1 /\ Len(q) = Len(h)
      BY <2>2, <1>1, <1>2, <1>9, EntriesAre DEF Recent
    <3>2. ASSUME NEW i \in 1..(Len(q) + 1) PROVE all[i] = g[i]
      <4>1. CASE i = Len(q) + 1
        BY <4>1, <3>1, <1>1, <1>2
      <4>2. CASE i \in 1..Len(q)
        BY <4>2, <3>1, <1>1, <1>2 DEF Recent
      <4> QED  BY <4>1, <4>2, <1>2
    <3>3. Len(p) \in Nat /\ Len(g) = Len(p)
      BY <3>1, <1>1, <1>2
    <3>4. ASSUME NEW i \in 1..Len(p)  PROVE p[i] = g[Len(g) - Len(p) + i]
      <4>1. i \in 1..(Len(q) + 1) /\ Len(g) - Len(p) + i = i
        BY <3>1, <3>3
      <4> QED  BY <4>1, <3>1, <3>2
    <3> QED  BY <3>4
  <2>3. Len(all) > RingSize \/ Len(all) <= RingSize
    BY <1>2, EntriesAre
  <2> QED  BY <2>1, <2>2, <2>3
<1>6. \A i \in 1..Len(g) : g[i].at <= s /\ g[i].at \in 0..MaxStamp
  <2>1. \A i \in 1..Len(h) : h[i].at <= s /\ h[i] \in HeardSpace
    BY DEF Recent
  <2>2. s <= s /\ s \in 0..MaxStamp
    BY EntriesAre
  <2>3. ASSUME NEW i \in 1..Len(g) PROVE g[i].at <= s /\ g[i].at \in 0..MaxStamp
    <3>1. CASE i \in 1..Len(h)
      BY <2>1, <3>1, <1>1 DEF HeardSpace
    <3>2. CASE i = Len(h) + 1
      BY <2>2, <3>2, <1>1
    <3> QED  BY <3>1, <3>2, <1>1
  <2> QED  BY <2>3
<1>7. \A i, j \in 1..Len(g) : i <= j => g[i].at <= g[j].at
  <2>1. ASSUME NEW i \in 1..Len(g), NEW j \in 1..Len(g), i <= j PROVE g[i].at <= g[j].at
    <3>1. CASE j = Len(h) + 1
      BY <3>1, <1>1, <1>6
    <3>2. CASE j \in 1..Len(h)
      BY <3>2, <2>1, <1>1 DEF Recent
    <3> QED  BY <3>1, <3>2, <1>1
  <2> QED  BY <2>1
<1>8. Recent(g, p, s)
  BY <1>1, <1>4, <1>5, <1>6, <1>7 DEF Recent
<1> QED  BY <1>8 DEF g, p, all

\* The peers of the recent taps in the ring are some of those in the window, and all
\* of them if the ring holds a window.
LEMMA RingCountsWindow ==
  ASSUME NEW h, NEW q, NEW s \in 0..MaxStamp, Recent(h, q, s),
         h # <<>>, h[Len(h)].at = s
  PROVE  /\ Cardinality(TapsInRing(q, s)) <= Cardinality(TapsIn(h))
         /\ Cardinality(Window(h)) <= RingSize => TapsInRing(q, s) = TapsIn(h)
         /\ Cardinality(TapsInRing(q, s)) \in Nat /\ Cardinality(TapsIn(h)) \in Nat
<1> DEFINE d == Len(h) - Len(q)
<1>1. /\ Len(h) \in Nat \ {0} /\ Len(q) \in Nat /\ Len(q) <= Len(h) /\ d \in Nat
      /\ DOMAIN h = 1..Len(h) /\ DOMAIN q = 1..Len(q)
      /\ \A i \in 1..Len(h) : h[i].at \in 0..MaxStamp
      /\ s \in Nat
  <2>1. h \in Seq(HeardSpace) /\ q \in Seq(HeardSpace)
    BY DEF Recent
  <2>2. Len(h) \in Nat \ {0} /\ Len(q) \in Nat /\ DOMAIN h = 1..Len(h) /\ DOMAIN q = 1..Len(q)
    BY <2>1
  <2>3. Len(q) <= Len(h)
    BY <2>2, EntriesAre DEF Recent
  <2>4. \A i \in 1..Len(h) : h[i] \in HeardSpace
    BY <2>1, <2>2
  <2> QED  BY <2>2, <2>3, <2>4, EntriesAre DEF HeardSpace
<1>2. \A i \in 1..Len(q) : d + i \in 1..Len(h) /\ q[i] = h[d + i]
  BY <1>1 DEF Recent
<1>3. \A i, j \in 1..Len(h) : i <= j => h[i].at <= h[j].at
  BY DEF Recent
<1> HIDE DEF d
<1>4. \A i \in 1..Len(q) : i \in Young(q, s) <=> d + i \in Window(h)
  <2>1. ASSUME NEW i \in 1..Len(q), d + i \in Window(h) PROVE i \in Young(q, s)
    <3>1. ASSUME NEW j \in i..Len(q) PROVE s - q[j].at <= QuorumWindow
      <4>1. /\ j \in 1..Len(q) /\ d + i \in 1..Len(h) /\ d + j \in 1..Len(h) /\ d + i <= d + j
            /\ q[j] = h[d + j]
        BY <1>1, <1>2
      <4>2. h[d + i].at <= h[d + j].at /\ h[d + i].at \in Nat /\ h[d + j].at \in Nat
        BY <4>1, <1>1, <1>3
      <4>3. s - h[d + i].at <= QuorumWindow
        BY <2>1 DEF Window
      <4>4. QuorumWindow \in Nat /\ s \in Nat
        BY <1>1, EntriesAre
      <4>5. s - h[d + j].at <= QuorumWindow
        BY <4>2, <4>3, <4>4
      <4> QED  BY <4>1, <4>5
    <3> QED  BY <3>1, <1>1 DEF Young
  <2>2. ASSUME NEW i \in 1..Len(q), i \in Young(q, s) PROVE d + i \in Window(h)
    <3>1. i \in i..Len(q)
      BY <1>1
    <3>2. s - q[i].at <= QuorumWindow
      BY <3>1, <2>2 DEF Young
    <3> QED  BY <3>2, <1>1, <1>2 DEF Window
  <2> QED  BY <2>1, <2>2
<1>5. TapsInRing(q, s) \subseteq TapsIn(h)
  <2>1. ASSUME NEW i \in Young(q, s), q[i].type = "tap" PROVE q[i].peer \in TapsIn(h)
    <3>1. i \in 1..Len(q)
      BY <1>1 DEF Young
    <3>2. d + i \in Window(h) /\ q[i] = h[d + i]
      BY <3>1, <2>1, <1>2, <1>4
    <3> QED  BY <3>2, <2>1 DEF TapsIn
  <2> QED  BY <2>1 DEF TapsInRing
<1>6. IsFiniteSet(1..Len(h)) /\ Window(h) \subseteq 1..Len(h)
  BY <1>1, FS_Interval DEF Window
<1>7. IsFiniteSet(Window(h)) /\ Cardinality(Window(h)) \in Nat
  BY <1>6, FS_Subset, FS_CardinalityType
<1>8. IsFiniteSet(TapsIn(h))
  <2> DEFINE S == {k \in Window(h) : h[k].type = "tap"}
             f == [i \in S |-> h[i].peer]
  <2>1. IsFiniteSet(S)
    BY <1>7, FS_Subset
  <2>2. f \in Surjection(S, TapsIn(h))
    BY DEF Surjection, TapsIn
  <2> HIDE DEF S, f
  <2> QED  BY <2>1, <2>2, FS_Surjection
<1>9. /\ Cardinality(TapsInRing(q, s)) <= Cardinality(TapsIn(h))
      /\ Cardinality(TapsInRing(q, s)) \in Nat /\ Cardinality(TapsIn(h)) \in Nat
  BY <1>5, <1>8, FS_Subset, FS_CardinalityType
<1>10. ASSUME Cardinality(Window(h)) <= RingSize PROVE TapsIn(h) \subseteq TapsInRing(q, s)
  <2>1. ASSUME NEW k \in Window(h), h[k].type = "tap" PROVE h[k].peer \in TapsInRing(q, s)
    <3>1. k \in 1..Len(h) /\ s - h[k].at <= QuorumWindow
      BY <2>1, <1>1 DEF Window
    <3>2. k..Len(h) \subseteq Window(h)
      <4>1. ASSUME NEW j \in k..Len(h) PROVE s - h[j].at <= QuorumWindow
        <5>1. j \in 1..Len(h) /\ h[k].at <= h[j].at /\ h[k].at \in Nat /\ h[j].at \in Nat
          BY <3>1, <1>1, <1>3
        <5>2. QuorumWindow \in Nat /\ s \in Nat
          BY <1>1, EntriesAre
        <5> QED  BY <5>1, <5>2, <3>1
      <4> QED  BY <4>1, <3>1, <1>1 DEF Window
    <3>3. Cardinality(k..Len(h)) <= Cardinality(Window(h))
      BY <3>2, <1>7, FS_Subset
    <3>4. k \in Int /\ Len(h) \in Int
      BY <3>1, <1>1
    <3>5. Cardinality(k..Len(h)) = Len(h) - k + 1
      BY <3>1, <3>4, <1>1, FS_Interval
    <3>6. k > d
      BY <3>3, <3>5, <3>1, <1>1, <1>7, <1>10, EntriesAre DEF d, Recent
    <3>7. PICK i \in 1..Len(q) : d + i = k
      <4>1. k - d \in 1..Len(q)
        BY <3>6, <3>1, <1>1 DEF d
      <4>2. d + (k - d) = k
        BY <3>1, <1>1
      <4> QED  BY <4>1, <4>2
    <3>8. i \in Young(q, s) /\ q[i] = h[k]
      BY <3>7, <2>1, <1>2, <1>4
    <3> QED  BY <3>8, <2>1 DEF TapsInRing
  <2> QED  BY <2>1 DEF TapsIn
<1> QED  BY <1>5, <1>9, <1>10

-----------------------------------------------------------------------------
(* The rules of a board: its steps *)

RulesInv == RingIsRecent /\ TableInv /\ InstallInv

LEMMA RulesInitInv == RulesInit => RulesInv
<1> SUFFICES ASSUME RulesInit PROVE RulesInv
  OBVIOUS
<1> USE DEF RulesInit
<1>1. RingIsRecent
  BY EntriesAre DEF RingIsRecent, Recent
<1>2. \A n \in 1..3 : Entry(TRUE, DemoRules[n]) \in
                        [occupied : BOOLEAN, trigger : Triggers \cup {Nothing}, effect : Effects \cup {Nothing}]
                      /\ Entry(TRUE, DemoRules[n]).effect \in Effects
  BY DemoRulesAre DEF Entry, Rules
<1>3. Never \in [occupied : BOOLEAN, trigger : Triggers \cup {Nothing}, effect : Effects \cup {Nothing}]
      /\ ~Never.occupied
  BY DEF Never
<1>4. \A n \in Entries : rules[n] = IF n <= 3 THEN Entry(TRUE, DemoRules[n]) ELSE Never
  OBVIOUS
<1>5. \A n \in Entries : n <= 3 <=> n \in 1..3
  BY EntriesAre DEF Entries
<1>6. rules \in [Entries -> [occupied : BOOLEAN, trigger : Triggers \cup {Nothing},
                             effect : Effects \cup {Nothing}]]
  BY <1>2, <1>3, <1>5
<1>7. /\ \A n \in 1..3 : rules[n] = Entry(TRUE, DemoRules[n])
      /\ \A n \in Entries : rules[n].occupied => rules[n].effect \in Effects
  BY <1>2, <1>3, <1>4, <1>5, EntriesAre
<1>8. AtRest \in InstallSpace /\ AtRest.at = "rest"
  BY DEF InstallSpace, AtRest
<1>9. TableInv
  <2>1. install \in InstallSpace /\ install.at = "rest"
    BY <1>8
  <2>2. fwdRule \in [full : BOOLEAN, bytes : RuleSet \cup {Nothing}] /\ ~fwdRule.full
    OBVIOUS
  <2>3. emitDue \in BOOLEAN /\ fired \subseteq Effects /\ broken \in BOOLEAN
    OBVIOUS
  <2>4. reported \in Seq(ReportSpace)
    <3>1. <<>> \in Seq(ReportSpace)
      OBVIOUS
    <3> QED  BY <3>1
  <2> QED  BY <1>6, <1>7, <2>1, <2>2, <2>3, <2>4 DEF TableInv
<1>10. ASSUME NEW r \in Rules PROVE Cardinality(Extra(r)) = Cardinality(Reports(r))
  <2>1. Extra(r) = {}
    <3>1. ASSUME NEW n \in Entries, n \notin 1..3 PROVE rules[n] # Entry(TRUE, r)
      BY <3>1, <1>3, <1>4, <1>5 DEF Entry
    <3> QED  BY <3>1 DEF Extra, Held
  <2>2. Reports(r) = {}
    BY DEF Reports, ReportsIn
  <2> QED  BY <2>1, <2>2
<1>11. InstallInv
  BY <1>8, <1>10 DEF InstallInv
<1> QED  BY <1>1, <1>9, <1>11 DEF RulesInv

\* Only HearPlain and the clock touch the ring.
LEMMA RingStep ==
  ASSUME RingIsRecent, RulesNext \/ UNCHANGED rulesVars
  PROVE  RingIsRecent'
<1>1. ASSUME NEW p \in Peers, NEW type \in Types, HearPlain(p, type)
      PROVE  RingIsRecent'
  <2> DEFINE c == [type |-> type, peer |-> p, at |-> stamp]
  <2>1. stamp \in 0..MaxStamp /\ Recent(heard, ring, stamp) /\ stamp' = stamp
    BY <1>1 DEF RingIsRecent, HearPlain
  <2>2. c \in HeardSpace /\ c.at = stamp
    BY <2>1 DEF HeardSpace
  <2>3. heard' = Append(heard, c) /\ ring' = PushCell(c)
    BY <1>1 DEF HearPlain
  <2> HIDE DEF c
  <2>4. Recent(heard', ring', stamp)
    BY <2>1, <2>2, <2>3, PushIsRecent DEF PushCell
  <2> QED  BY <2>1, <2>4 DEF RingIsRecent
<1>2. CASE StampGrows
  <2>1. stamp' \in 0..MaxStamp /\ stamp \in 0..MaxStamp /\ stamp' = stamp + 1
        /\ heard' = heard /\ ring' = ring
    BY <1>2, EntriesAre DEF StampGrows, RingIsRecent
  <2>2. \A i \in 1..Len(heard) : heard[i].at <= stamp /\ heard[i] \in HeardSpace
    BY DEF RingIsRecent, Recent
  <2>3. \A i \in 1..Len(heard) : heard[i].at <= stamp'
    BY <2>1, <2>2, EntriesAre DEF HeardSpace
  <2> QED  BY <2>1, <2>3 DEF RingIsRecent, Recent
<1>3. CASE UNCHANGED <<stamp, ring, heard>>
  BY <1>3 DEF RingIsRecent
<1>4. ASSUME RulesNext, ~StampGrows, ~\E p \in Peers, type \in Types : HearPlain(p, type)
      PROVE  UNCHANGED <<stamp, ring, heard>>
  BY <1>4 DEF RulesNext, HearRule, HearInstall, HotSwap, DrainInstall, DecodeTrigger, DecodeEffect,
              ChooseEntry, CopyTrigger, CopyEffect, DrainEmit
<1>5. UNCHANGED rulesVars => UNCHANGED <<stamp, ring, heard>>
  BY DEF rulesVars
<1> QED  BY <1>1, <1>2, <1>3, <1>4, <1>5

\* What is reported next belongs to an entry of its own.
LEMMA OneMore ==
  ASSUME TableInv,
         \A r \in Rules : Cardinality(Extra(r)) = Cardinality(Reports(r)),
         \A i, j \in DOMAIN reported :
           i < j /\ reported[i].rule = reported[j].rule => reported[j].by = "forward",
         NEW n \in 4..RulesMax, ~rules[n].occupied,
         NEW r \in Rules, NEW by \in {"cell", "swap", "forward"},
         by # "forward" => Reports(r) = {},
         rules' = [rules EXCEPT ![n] = Entry(TRUE, r)],
         reported' = Append(reported, [rule |-> r, by |-> by])
  PROVE  /\ \A q \in Rules : Cardinality(Extra(q)') = Cardinality(Reports(q)')
         /\ \A i, j \in DOMAIN reported' :
              i < j /\ reported'[i].rule = reported'[j].rule => reported'[j].by = "forward"
<1>1. /\ Extra(r)' = Extra(r) \cup {n} /\ n \notin Extra(r)
      /\ \A q \in Rules : q # r => Extra(q)' = Extra(q)
  <2>1. rules \in [Entries -> [occupied : BOOLEAN, trigger : Triggers \cup {Nothing},
                               effect : Effects \cup {Nothing}]]
    BY DEF TableInv
  <2>2. PICK t : t = rules
    OBVIOUS
  <2>3. PICK u : u = rules'
    OBVIOUS
  <2>4. /\ u = [t EXCEPT ![n] = Entry(TRUE, r)] /\ ~t[n].occupied
        /\ t \in [Entries -> [occupied : BOOLEAN, trigger : Triggers \cup {Nothing},
                              effect : Effects \cup {Nothing}]]
    BY <2>1, <2>2, <2>3
  <2>5. HeldGrowsBy(t, u, n, r)
    BY <2>4, HeldGrows
  <2> QED  BY <2>2, <2>3, <2>5 DEF Extra, HeldGrowsBy
<1>2. reported \in Seq(ReportSpace)
  BY DEF TableInv
<1>3. /\ Reports(r)' = Reports(r) \cup {Len(reported) + 1}
      /\ Len(reported) + 1 \notin Reports(r)
      /\ \A q \in Rules : q # r => Reports(q)' = Reports(q)
      /\ \A i \in DOMAIN reported : reported'[i] = reported[i]
      /\ reported'[Len(reported) + 1] = [rule |-> r, by |-> by]
      /\ DOMAIN reported' = DOMAIN reported \cup {Len(reported) + 1}
      /\ Len(reported) \in Nat /\ DOMAIN reported = 1..Len(reported)
  <2>1. PICK s : s = reported
    OBVIOUS
  <2>2. PICK u : u = reported'
    OBVIOUS
  <2>3. u = Append(s, [rule |-> r, by |-> by]) /\ s \in Seq(ReportSpace)
    BY <1>2, <2>1, <2>2
  <2>4. ReportsGrowBy(s, u, r, by)
    BY <2>3, ReportsGrow
  <2> QED  BY <2>1, <2>2, <2>4 DEF Reports, ReportsGrowBy
<1>4. IsFiniteSet(Extra(r)) /\ IsFiniteSet(Reports(r))
  BY <1>2, HeldIsFinite, ReportsAreFinite DEF Extra, Reports
<1>5. ASSUME NEW q \in Rules PROVE Cardinality(Extra(q)') = Cardinality(Reports(q)')
  <2>1. CASE q = r
    <3>1. PICK E : E = Extra(r)
      OBVIOUS
    <3>2. PICK R : R = Reports(r)
      OBVIOUS
    <3>3. Cardinality(E \cup {n}) = Cardinality(E) + 1
      BY <3>1, <1>1, <1>4, FS_AddElement
    <3>4. Cardinality(R \cup {Len(reported) + 1}) = Cardinality(R) + 1
      BY <3>2, <1>3, <1>4, FS_AddElement
    <3>5. Cardinality(E) = Cardinality(R)
      BY <3>1, <3>2
    <3> QED  BY <2>1, <1>1, <1>3, <3>1, <3>2, <3>3, <3>4, <3>5
  <2>2. CASE q # r
    BY <2>2, <1>1, <1>3
  <2> QED  BY <2>1, <2>2
<1>6. ASSUME NEW i \in DOMAIN reported', NEW j \in DOMAIN reported', i < j,
             reported'[i].rule = reported'[j].rule
      PROVE  reported'[j].by = "forward"
  <2>1. i \in DOMAIN reported
    BY <1>3, <1>6
  <2>2. CASE j \in DOMAIN reported
    BY <2>1, <2>2, <1>3, <1>6
  <2>3. CASE j = Len(reported) + 1
    <3>1. reported[i].rule = r
      BY <2>1, <2>3, <1>3, <1>6
    <3>2. Reports(r) # {}
      BY <2>1, <3>1 DEF Reports, ReportsIn
    <3> QED  BY <3>2, <2>3, <1>3
  <2> QED  BY <2>2, <2>3, <1>3
<1> QED  BY <1>5, <1>6

\* Of a rule that no entry equals nothing is reported.
LEMMA NewIsUnreported ==
  ASSUME TableInv, NEW r \in Rules, IsNew(r),
         Cardinality(Extra(r)) = Cardinality(Reports(r))
  PROVE  Reports(r) = {}
<1>1. Extra(r) = {}
  BY DEF IsNew, Extra
<1>2. IsFiniteSet(Reports(r))
  BY ReportsAreFinite DEF TableInv, Reports
<1> QED  BY <1>1, <1>2, FS_EmptySet

\* What of the table a step of it may not break.
TableIsWhole(t) ==
  /\ t \in [Entries -> [occupied : BOOLEAN, trigger : Triggers \cup {Nothing},
                        effect : Effects \cup {Nothing}]]
  /\ \A n \in 1..3 : t[n] = Entry(TRUE, DemoRules[n])
  /\ \A n \in Entries : t[n].occupied => t[n].effect \in Effects

\* A field of an entry after another is the entry.
TriggerIn(u, t, n, o, x) == u = [t EXCEPT ![n].occupied = o, ![n].trigger = x]
EffectIn(u, t, n, o, x) == u = [t EXCEPT ![n].occupied = o, ![n].effect = x]

LEMMA WrittenInPlace ==
  ASSUME NEW t, NEW n \in Entries, NEW o, NEW x, NEW w,
         t \in [Entries -> [occupied : BOOLEAN, trigger : Triggers \cup {Nothing},
                            effect : Effects \cup {Nothing}]]
  PROVE  /\ TriggerIn(w, t, n, o, x) =>
              w = [t EXCEPT ![n] = [occupied |-> o, trigger |-> x, effect |-> t[n].effect]]
         /\ EffectIn(w, t, n, o, x) =>
              w = [t EXCEPT ![n] = [occupied |-> o, trigger |-> t[n].trigger, effect |-> x]]
<1>1. t[n] \in [occupied : BOOLEAN, trigger : Triggers \cup {Nothing}, effect : Effects \cup {Nothing}]
      /\ DOMAIN t = Entries
  OBVIOUS
<1>2. [[t[n] EXCEPT !.occupied = o] EXCEPT !.trigger = x] =
        [occupied |-> o, trigger |-> x, effect |-> t[n].effect]
  <2>1. PICK a : a = [t[n] EXCEPT !.occupied = o]
    OBVIOUS
  <2>2. /\ a \in [occupied : BOOLEAN \cup {o}, trigger : Triggers \cup {Nothing}, effect : Effects \cup {Nothing}]
        /\ a.occupied = o /\ a.trigger = t[n].trigger /\ a.effect = t[n].effect
    BY <1>1, <2>1
  <2>3. PICK b : b = [a EXCEPT !.trigger = x]
    OBVIOUS
  <2>4. /\ b \in [occupied : BOOLEAN \cup {o}, trigger : Triggers \cup {Nothing, x}, effect : Effects \cup {Nothing}]
        /\ b.occupied = o /\ b.trigger = x /\ b.effect = t[n].effect
    BY <2>2, <2>3
  <2>5. b = [occupied |-> b.occupied, trigger |-> b.trigger, effect |-> b.effect]
    BY <2>4
  <2> QED  BY <2>1, <2>3, <2>4, <2>5
<1>3. [[t[n] EXCEPT !.occupied = o] EXCEPT !.effect = x] =
        [occupied |-> o, trigger |-> t[n].trigger, effect |-> x]
  <2>1. PICK a : a = [t[n] EXCEPT !.occupied = o]
    OBVIOUS
  <2>2. /\ a \in [occupied : BOOLEAN \cup {o}, trigger : Triggers \cup {Nothing}, effect : Effects \cup {Nothing}]
        /\ a.occupied = o /\ a.trigger = t[n].trigger /\ a.effect = t[n].effect
    BY <1>1, <2>1
  <2>3. PICK b : b = [a EXCEPT !.effect = x]
    OBVIOUS
  <2>4. /\ b \in [occupied : BOOLEAN \cup {o}, trigger : Triggers \cup {Nothing}, effect : Effects \cup {Nothing, x}]
        /\ b.occupied = o /\ b.effect = x /\ b.trigger = t[n].trigger
    BY <2>2, <2>3
  <2>5. b = [occupied |-> b.occupied, trigger |-> b.trigger, effect |-> b.effect]
    BY <2>4
  <2> QED  BY <2>1, <2>3, <2>4, <2>5
<1> DEFINE u == [t EXCEPT ![n].occupied = o, ![n].trigger = x]
           v == [t EXCEPT ![n].occupied = o, ![n].effect = x]
<1>4. u[n] = [[t[n] EXCEPT !.occupied = o] EXCEPT !.trigger = x]
  BY <1>1
<1>5. DOMAIN u = Entries /\ u = [m \in DOMAIN u |-> u[m]]
  BY <1>1
<1>6. \A m \in Entries : m # n => u[m] = t[m]
  BY <1>1
<1>7. v[n] = [[t[n] EXCEPT !.occupied = o] EXCEPT !.effect = x]
  BY <1>1
<1>8. DOMAIN v = Entries /\ v = [m \in DOMAIN v |-> v[m]]
  BY <1>1
<1>9. \A m \in Entries : m # n => v[m] = t[m]
  BY <1>1
<1> HIDE DEF u, v
<1>10. u = [t EXCEPT ![n] = [occupied |-> o, trigger |-> x, effect |-> t[n].effect]]
  BY <1>1, <1>2, <1>4, <1>5, <1>6
<1>11. v = [t EXCEPT ![n] = [occupied |-> o, trigger |-> t[n].trigger, effect |-> x]]
  BY <1>1, <1>3, <1>7, <1>8, <1>9
<1> QED  BY <1>10, <1>11 DEF u, v, TriggerIn, EffectIn

LEMMA EntryWritten ==
  ASSUME NEW t, TableIsWhole(t), NEW n \in 4..RulesMax,
         NEW e \in [occupied : BOOLEAN, trigger : Triggers \cup {Nothing}, effect : Effects \cup {Nothing}],
         e.occupied => e.effect \in Effects
  PROVE  TableIsWhole([t EXCEPT ![n] = e])
<1>1. n \in Entries /\ n \notin 1..3
  BY EntriesAre
<1>2. 1..3 \subseteq Entries
  BY EntriesAre
<1> QED  BY <1>1, <1>2 DEF TableIsWhole

LEMMA TableStep ==
  ASSUME TableInv, RulesNext \/ UNCHANGED rulesVars
  PROVE  TableInv'
<1>1. /\ TableIsWhole(rules) /\ install \in InstallSpace
      /\ fwdRule \in [full : BOOLEAN, bytes : RuleSet \cup {Nothing}]
      /\ (fwdRule.full \/ install.at \in {"cleared", "decoding"} => fwdRule.bytes \in RuleSet)
      /\ emitDue \in BOOLEAN /\ fired \subseteq Effects /\ broken \in BOOLEAN
      /\ reported \in Seq(ReportSpace)
  BY DEF TableInv, TableIsWhole
<1>2. SUFFICES /\ TableIsWhole(rules') /\ install' \in InstallSpace
               /\ fwdRule' \in [full : BOOLEAN, bytes : RuleSet \cup {Nothing}]
               /\ (fwdRule'.full \/ install'.at \in {"cleared", "decoding"} => fwdRule'.bytes \in RuleSet)
               /\ emitDue' \in BOOLEAN /\ fired' \subseteq Effects /\ broken' \in BOOLEAN
               /\ reported' \in Seq(ReportSpace)
  BY DEF TableInv, TableIsWhole
<1>3. RuleSet \subseteq Rules
  BY RulesAssumption
<1>4. /\ install.at = "decoding" => install.trigger \in Triggers
      /\ install.at \in {"decoded", "chosen", "copying"} =>
           install.rule \in Rules /\ install.by \in {"swap", "forward"}
      /\ install.at \in {"chosen", "copying"} =>
           /\ install.n \in 4..RulesMax
           /\ install \in [at : {"chosen", "copying"}, n : 4..RulesMax, rule : Rules,
                           by : {"swap", "forward"}]
  BY <1>1, InstallIs
<1>5. ASSUME NEW p \in Peers, NEW type \in Types, HearPlain(p, type) PROVE <1>2!1
  <2>1. fired' \subseteq Effects
    <3>1. fired' = Evaluate(ring', type)
      BY <1>5 DEF HearPlain
    <3>2. Evaluate(ring', type) \subseteq Effects
      BY <1>1 DEF Evaluate, TableIsWhole
    <3> QED  BY <3>1, <3>2
  <2>2. UNCHANGED <<rules, install, fwdRule, reported, broken>> /\ emitDue' \in BOOLEAN
    BY <1>5 DEF HearPlain
  <2> QED  BY <1>1, <2>1, <2>2
<1>6. ASSUME NEW r \in RuleSet, HearRule(r) PROVE <1>2!1
  <2>1. UNCHANGED <<install, fwdRule, emitDue, fired>> /\ broken' \in BOOLEAN
    BY <1>6 DEF HearRule
  <2>2. TableIsWhole(rules')
    <3>1. FirstEntry(Room) \in 4..RulesMax
      BY <1>6, FreeEntry DEF HearRule
    <3>2. Entry(TRUE, r) \in [occupied : BOOLEAN, trigger : Triggers \cup {Nothing}, effect : Effects \cup {Nothing}]
          /\ Entry(TRUE, r).effect \in Effects
      BY <1>3 DEF Entry, Rules
    <3>3. rules' = [rules EXCEPT ![FirstEntry(Room)] = Entry(TRUE, r)]
      BY <1>6 DEF HearRule
    <3> QED  BY <1>1, <3>1, <3>2, <3>3, EntryWritten
  <2>3. reported' \in Seq(ReportSpace)
    <3>1. [rule |-> r, by |-> "cell"] \in ReportSpace
      BY <1>3 DEF ReportSpace
    <3>2. reported' = Append(reported, [rule |-> r, by |-> "cell"])
      BY <1>6 DEF HearRule
    <3> QED  BY <1>1, <3>1, <3>2
  <2> QED  BY <1>1, <2>1, <2>2, <2>3
<1>7. ASSUME NEW r \in RuleSet, HearInstall(r) PROVE <1>2!1
  <2>1. UNCHANGED <<rules, install, emitDue, fired, reported>> /\ broken' \in BOOLEAN
    BY <1>7 DEF HearInstall
  <2>2. fwdRule' = [full |-> TRUE, bytes |-> r]
    BY <1>7 DEF HearInstall
  <2> QED  BY <1>1, <2>1, <2>2
<1>8. ASSUME NEW r \in RuleSet, HotSwap(r) PROVE <1>2!1
  <2>1. UNCHANGED <<rules, fwdRule, emitDue, fired, reported, broken>>
    BY <1>8 DEF HotSwap
  <2>2. install' \in InstallSpace /\ install'.at = "decoded"
    BY <1>8, <1>3 DEF HotSwap, InstallSpace
  <2> QED  BY <1>1, <2>1, <2>2
<1>9. CASE DrainInstall
  <2>1. UNCHANGED <<rules, emitDue, fired, reported, broken>>
    BY <1>9 DEF DrainInstall
  <2>2. install' \in InstallSpace
    BY <1>9 DEF DrainInstall, InstallSpace
  <2>3. fwdRule.bytes \in RuleSet /\ fwdRule' = [fwdRule EXCEPT !.full = FALSE]
    BY <1>1, <1>9 DEF DrainInstall
  <2> QED  BY <1>1, <2>1, <2>2, <2>3
<1>10. CASE DecodeTrigger
  <2>1. UNCHANGED <<rules, fwdRule, emitDue, fired, reported, broken>>
    BY <1>10 DEF DecodeTrigger
  <2>2. fwdRule.bytes \in RuleSet
    BY <1>1, <1>10 DEF DecodeTrigger
  <2>3. install' \in InstallSpace
    <3>1. fwdRule.bytes.trigger \in Triggers
      BY <2>2, <1>3 DEF Rules
    <3> QED  BY <3>1, <1>10 DEF DecodeTrigger, InstallSpace
  <2> QED  BY <1>1, <2>1, <2>2, <2>3
<1>11. CASE DecodeEffect
  <2>1. UNCHANGED <<rules, fwdRule, emitDue, fired, reported, broken>>
    BY <1>11 DEF DecodeEffect
  <2>2. install' \in InstallSpace /\ install'.at = "decoded"
    <3>1. fwdRule.bytes \in Rules /\ install.trigger \in Triggers
      BY <1>1, <1>3, <1>4, <1>11 DEF DecodeEffect
    <3>2. [trigger |-> install.trigger, effect |-> fwdRule.bytes.effect] \in Rules
      BY <3>1 DEF Rules
    <3> QED  BY <3>2, <1>11 DEF DecodeEffect, InstallSpace
  <2> QED  BY <1>1, <2>1, <2>2
<1>12. CASE ChooseEntry
  <2>1. UNCHANGED <<rules, fwdRule, emitDue, fired, reported, broken>>
    BY <1>12 DEF ChooseEntry
  <2>2. install' \in InstallSpace /\ install'.at \in {"rest", "chosen"}
    <3>1. CASE Room = {}
      BY <3>1, <1>12 DEF ChooseEntry, InstallSpace, AtRest
    <3>2. CASE Room # {}
      <4>1. FirstEntry(Room) \in 4..RulesMax
        BY <3>2, FreeEntry
      <4>2. install.rule \in Rules /\ install.by \in {"swap", "forward"}
        BY <1>4, <1>12 DEF ChooseEntry
      <4>3. install' = [at |-> "chosen", n |-> FirstEntry(Room), rule |-> install.rule, by |-> install.by]
        BY <3>2, <1>12 DEF ChooseEntry
      <4> QED  BY <4>1, <4>2, <4>3 DEF InstallSpace
    <3> QED  BY <3>1, <3>2
  <2> QED  BY <1>1, <2>1, <2>2
<1>13. CASE CopyTrigger
  <2>1. UNCHANGED <<fwdRule, emitDue, fired, reported, broken>>
    BY <1>13 DEF CopyTrigger
  <2>2. install.n \in 4..RulesMax /\ install.rule \in Rules
        /\ install \in [at : {"chosen", "copying"}, n : 4..RulesMax, rule : Rules, by : {"swap", "forward"}]
    BY <1>4, <1>13 DEF CopyTrigger
  <2>3. install' \in InstallSpace /\ install'.at = "copying"
    BY <2>2, <1>13 DEF CopyTrigger, InstallSpace
  <2>4. TableIsWhole(rules')
    <3>1. rules[install.n] \in [occupied : BOOLEAN, trigger : Triggers \cup {Nothing}, effect : Effects \cup {Nothing}]
          /\ DOMAIN rules = Entries
      BY <1>1, <2>2, EntriesAre DEF TableIsWhole
    <3> DEFINE e == [occupied |-> FALSE, trigger |-> install.rule.trigger, effect |-> rules[install.n].effect]
    <3>2. e \in [occupied : BOOLEAN, trigger : Triggers \cup {Nothing}, effect : Effects \cup {Nothing}] /\ ~e.occupied
      BY <2>2, <3>1 DEF Rules
    <3>3. rules' = [rules EXCEPT ![install.n] = e]
      <4>1. TriggerIn(rules', rules, install.n, FALSE, install.rule.trigger)
        BY <1>13 DEF CopyTrigger, TriggerIn
      <4>2. install.n \in Entries
        BY <2>2, EntriesAre
      <4>3. rules \in [Entries -> [occupied : BOOLEAN, trigger : Triggers \cup {Nothing},
                                  effect : Effects \cup {Nothing}]]
        BY <1>1 DEF TableIsWhole
      <4> QED  BY <4>1, <4>2, <4>3, WrittenInPlace DEF e
    <3> HIDE DEF e
    <3> QED  BY <1>1, <2>2, <3>2, <3>3, EntryWritten
  <2> QED  BY <1>1, <2>1, <2>3, <2>4
<1>14. CASE CopyEffect
  <2>1. UNCHANGED <<fwdRule, emitDue, fired, broken>>
    BY <1>14 DEF CopyEffect
  <2>2. install.n \in 4..RulesMax /\ install.rule \in Rules /\ install.by \in {"swap", "forward"}
    BY <1>4, <1>14 DEF CopyEffect
  <2>3. install' \in InstallSpace /\ install'.at = "rest"
    BY <1>14 DEF CopyEffect, InstallSpace, AtRest
  <2>4. TableIsWhole(rules')
    <3>1. rules[install.n] \in [occupied : BOOLEAN, trigger : Triggers \cup {Nothing}, effect : Effects \cup {Nothing}]
          /\ DOMAIN rules = Entries
      BY <1>1, <2>2, EntriesAre DEF TableIsWhole
    <3> DEFINE e == [occupied |-> TRUE, trigger |-> rules[install.n].trigger, effect |-> install.rule.effect]
    <3>2. e \in [occupied : BOOLEAN, trigger : Triggers \cup {Nothing}, effect : Effects \cup {Nothing}]
          /\ e.effect \in Effects
      BY <2>2, <3>1 DEF Rules
    <3>3. rules' = [rules EXCEPT ![install.n] = e]
      <4>1. EffectIn(rules', rules, install.n, TRUE, install.rule.effect)
        BY <1>14 DEF CopyEffect, EffectIn
      <4>2. install.n \in Entries
        BY <2>2, EntriesAre
      <4>3. rules \in [Entries -> [occupied : BOOLEAN, trigger : Triggers \cup {Nothing},
                                  effect : Effects \cup {Nothing}]]
        BY <1>1 DEF TableIsWhole
      <4> QED  BY <4>1, <4>2, <4>3, WrittenInPlace DEF e
    <3> HIDE DEF e
    <3> QED  BY <1>1, <2>2, <3>2, <3>3, EntryWritten
  <2>5. reported' \in Seq(ReportSpace)
    <3>1. [rule |-> install.rule, by |-> install.by] \in ReportSpace
      BY <2>2 DEF ReportSpace
    <3>2. reported' = Append(reported, [rule |-> install.rule, by |-> install.by])
      BY <1>14 DEF CopyEffect
    <3> QED  BY <1>1, <3>1, <3>2
  <2> QED  BY <1>1, <2>1, <2>3, <2>4, <2>5
<1>15. CASE DrainEmit
  BY <1>1, <1>15 DEF DrainEmit
<1>16. CASE StampGrows
  BY <1>1, <1>16 DEF StampGrows
<1>17. CASE UNCHANGED rulesVars
  BY <1>1, <1>17 DEF rulesVars
<1> QED  BY <1>5, <1>6, <1>7, <1>8, <1>9, <1>10, <1>11, <1>12, <1>13, <1>14, <1>15, <1>16, <1>17 DEF RulesNext

\* The entry that the main loop writes is free as long as nothing came in between.
LEMMA InstallStep ==
  ASSUME TableInv, InstallInv, RulesNext \/ UNCHANGED rulesVars
  PROVE  InstallInv'
<1> SUFFICES ASSUME ~broken'
             PROVE  /\ (install.at \in {"chosen", "copying"} => ~rules[install.n].occupied)'
                    /\ (install.at = "copying" => rules[install.n].trigger = install.rule.trigger)'
                    /\ (install.at \in {"decoded", "chosen", "copying"} /\ install.by = "swap"
                          => Reports(install.rule) = {})'
                    /\ (\A r \in Rules : Cardinality(Extra(r)) = Cardinality(Reports(r)))'
                    /\ (\A i, j \in DOMAIN reported :
                          i < j /\ reported[i].rule = reported[j].rule => reported[j].by = "forward")'
  BY DEF InstallInv
<1> DEFINE Same == UNCHANGED <<rules, reported>>
           Matched == \A r \in Rules : Cardinality(Extra(r)) = Cardinality(Reports(r))
           Ordered == \A i, j \in DOMAIN reported :
                        i < j /\ reported[i].rule = reported[j].rule => reported[j].by = "forward"
<1>1. broken \in BOOLEAN /\ ~broken
  <2>1. broken \in BOOLEAN
    BY DEF TableInv
  <2>2. broken' = broken \/ broken' = (broken \/ install.at # "rest")
        \/ broken' = (broken \/ install.at \in {"cleared", "decoding"})
    BY DEF RulesNext, HearPlain, HearRule, HearInstall, HotSwap, DrainInstall, DecodeTrigger, DecodeEffect,
           ChooseEntry, CopyTrigger, CopyEffect, DrainEmit, StampGrows, rulesVars
  <2> QED  BY <2>1, <2>2
<1>2. /\ install.at \in {"chosen", "copying"} => ~rules[install.n].occupied
      /\ install.at = "copying" => rules[install.n].trigger = install.rule.trigger
      /\ install.at \in {"decoded", "chosen", "copying"} /\ install.by = "swap" => Reports(install.rule) = {}
      /\ Matched /\ Ordered
  BY <1>1 DEF InstallInv
<1>3. RuleSet \subseteq Rules
  BY RulesAssumption
<1>4. /\ install.at \in {"decoded", "chosen", "copying"} =>
           install.rule \in Rules /\ install.by \in {"swap", "forward"}
      /\ install.at \in {"chosen", "copying"} =>
           /\ install.n \in 4..RulesMax
           /\ install \in [at : {"chosen", "copying"}, n : 4..RulesMax, rule : Rules,
                           by : {"swap", "forward"}]
  BY InstallIs DEF TableInv
<1>5. Same => Matched' /\ Ordered' /\ \A r : Reports(r)' = Reports(r)
  BY <1>2 DEF Extra, Reports
<1>6. ASSUME UNCHANGED <<rules, reported, install>>
      PROVE  /\ (install.at \in {"chosen", "copying"} => ~rules[install.n].occupied)'
             /\ (install.at = "copying" => rules[install.n].trigger = install.rule.trigger)'
             /\ (install.at \in {"decoded", "chosen", "copying"} /\ install.by = "swap"
                   => Reports(install.rule) = {})'
             /\ Matched' /\ Ordered'
  BY <1>2, <1>5, <1>6 DEF Reports
<1>7. ASSUME NEW p \in Peers, NEW type \in Types, HearPlain(p, type)
      PROVE  UNCHANGED <<rules, reported, install>>
  BY <1>7 DEF HearPlain
<1>8. ASSUME NEW r \in RuleSet, HearInstall(r)
      PROVE  UNCHANGED <<rules, reported, install>>
  BY <1>8 DEF HearInstall
<1>9. CASE DrainEmit \/ StampGrows \/ UNCHANGED rulesVars
  <2>1. UNCHANGED <<rules, reported, install>>
    BY <1>9 DEF DrainEmit, StampGrows, rulesVars
  <2> QED  BY <2>1, <1>6
<1>10. ASSUME NEW r \in RuleSet, HearRule(r)
       PROVE  install'.at = "rest" /\ Matched' /\ Ordered'
  <2>1. install.at = "rest" /\ install' = install
    BY <1>1, <1>10 DEF HearRule
  <2>2. PICK n : n = FirstEntry(Room)
    OBVIOUS
  <2>3. n \in 4..RulesMax /\ ~rules[n].occupied
    BY <1>10, <2>2, FreeEntry DEF HearRule
  <2>4. r \in Rules /\ Reports(r) = {}
    BY <1>2, <1>3, <1>10, NewIsUnreported DEF HearRule
  <2>5. rules' = [rules EXCEPT ![n] = Entry(TRUE, r)]
        /\ reported' = Append(reported, [rule |-> r, by |-> "cell"])
    BY <1>10, <2>2 DEF HearRule
  <2>6. Matched' /\ Ordered'
    BY <1>2, <2>3, <2>4, <2>5, OneMore
  <2> QED  BY <2>1, <2>6
<1>11. ASSUME NEW r \in RuleSet, HotSwap(r)
       PROVE  Same /\ install'.at = "decoded" /\ install'.by = "swap" /\ install'.rule = r /\ Reports(r) = {}
  <2>1. Reports(r) = {}
    BY <1>2, <1>3, <1>11, NewIsUnreported DEF HotSwap
  <2> QED  BY <2>1, <1>11 DEF HotSwap
<1>12. CASE DrainInstall \/ DecodeTrigger
  <2>1. Same /\ install'.at \in {"cleared", "decoding"}
    BY <1>12 DEF DrainInstall, DecodeTrigger
  <2> QED  BY <2>1, <1>5
<1>13. CASE DecodeEffect
  <2>1. Same /\ install'.at = "decoded" /\ install'.by = "forward"
    BY <1>13 DEF DecodeEffect
  <2> QED  BY <2>1, <1>5
<1>14. CASE ChooseEntry
  <2>1. Same /\ install.at = "decoded"
    BY <1>14 DEF ChooseEntry
  <2>2. CASE Room = {}
    <3>1. install'.at = "rest"
      BY <1>14, <2>2 DEF ChooseEntry, AtRest
    <3> QED  BY <3>1, <2>1, <1>5
  <2>3. CASE Room # {}
    <3>1. ~rules[FirstEntry(Room)].occupied
      BY <2>3, FreeEntry
    <3>2. install' = [at |-> "chosen", n |-> FirstEntry(Room), rule |-> install.rule, by |-> install.by]
      BY <1>14, <2>3 DEF ChooseEntry
    <3>3. install'.at = "chosen" /\ install'.n = FirstEntry(Room) /\ install'.rule = install.rule
          /\ install'.by = install.by
      BY <3>2
    <3>4. rules' = rules
      BY <2>1
    <3>5. ~rules'[install'.n].occupied
      BY <3>1, <3>3, <3>4
    <3>6. install'.by = "swap" => Reports(install.rule) = {}
      BY <3>3, <2>1, <1>2
    <3> QED  BY <3>3, <3>5, <3>6, <2>1, <1>5
  <2> QED  BY <2>2, <2>3
<1>15. CASE CopyTrigger
  <2>1. install.at = "chosen" /\ reported' = reported
        /\ rules' = [rules EXCEPT ![install.n].occupied = FALSE,
                                  ![install.n].trigger = install.rule.trigger]
        /\ install' = [install EXCEPT !.at = "copying"]
    BY <1>15 DEF CopyTrigger
  <2>2. install.n \in 4..RulesMax /\ install.rule \in Rules
        /\ install \in [at : {"chosen", "copying"}, n : 4..RulesMax, rule : Rules, by : {"swap", "forward"}]
    BY <1>4, <2>1
  <2>3. install'.at = "copying" /\ install'.n = install.n /\ install'.rule = install.rule
        /\ install'.by = install.by
    BY <2>1, <2>2
  <2>4. rules[install.n] \in [occupied : BOOLEAN, trigger : Triggers \cup {Nothing}, effect : Effects \cup {Nothing}]
        /\ DOMAIN rules = Entries /\ install.n \in Entries
    BY <2>2, EntriesAre DEF TableInv
  <2>5. ~rules'[install.n].occupied /\ rules'[install.n].trigger = install.rule.trigger
        /\ \A m \in Entries : m # install.n => rules'[m] = rules[m]
    BY <2>1, <2>4
  <2>6. ~rules[install.n].occupied
    BY <2>1, <1>2
  <2>7. \A r \in Rules : Held(rules', r) = Held(rules, r)
    BY <2>5, <2>6 DEF Held, Entry
  <2>8. \A r \in Rules : Extra(r)' = Extra(r)
    BY <2>7 DEF Extra
  <2>9. Matched' /\ Ordered' /\ \A r : Reports(r)' = Reports(r)
    BY <2>1, <2>8, <1>2 DEF Reports
  <2>10. install'.by = "swap" => Reports(install.rule) = {}
    BY <2>1, <2>3, <1>2
  <2> QED  BY <2>3, <2>5, <2>9, <2>10
<1>16. CASE CopyEffect
  <2>1. install.at = "copying" /\ install'.at = "rest"
        /\ rules' = [rules EXCEPT ![install.n].occupied = TRUE,
                                  ![install.n].effect = install.rule.effect]
        /\ reported' = Append(reported, [rule |-> install.rule, by |-> install.by])
    BY <1>16 DEF CopyEffect, AtRest
  <2>2. install.n \in 4..RulesMax /\ install.rule \in Rules /\ install.by \in {"swap", "forward"}
    BY <1>4, <2>1
  <2>3. ~rules[install.n].occupied /\ rules[install.n].trigger = install.rule.trigger
    BY <1>2, <2>1
  <2>4. install.by = "swap" => Reports(install.rule) = {}
    BY <1>2, <2>1
  <2>5. rules[install.n] \in [occupied : BOOLEAN, trigger : Triggers \cup {Nothing}, effect : Effects \cup {Nothing}]
        /\ DOMAIN rules = Entries /\ install.n \in Entries
    BY <2>2, EntriesAre DEF TableInv
  <2>6. rules' = [rules EXCEPT ![install.n] = Entry(TRUE, install.rule)]
    <3>1. rules \in [Entries -> [occupied : BOOLEAN, trigger : Triggers \cup {Nothing},
                                effect : Effects \cup {Nothing}]]
      BY DEF TableInv
    <3>2. rules' = [rules EXCEPT ![install.n] =
                      [occupied |-> TRUE, trigger |-> rules[install.n].trigger, effect |-> install.rule.effect]]
      <4>1. EffectIn(rules', rules, install.n, TRUE, install.rule.effect)
        BY <2>1 DEF EffectIn
      <4>2. install.n \in Entries
        BY <2>5
      <4> DEFINE e == [occupied |-> TRUE, trigger |-> rules[install.n].trigger, effect |-> install.rule.effect]
      <4>3. rules' = [rules EXCEPT ![install.n] = e]
        BY <4>1, <4>2, <3>1, WrittenInPlace
      <4> QED  BY <4>3
    <3> QED  BY <3>2, <2>3 DEF Entry
  <2>7. PICK n : n = install.n
    OBVIOUS
  <2>8. PICK r : r = install.rule
    OBVIOUS
  <2>9. PICK b : b = install.by
    OBVIOUS
  <2>10. /\ n \in 4..RulesMax /\ ~rules[n].occupied /\ r \in Rules /\ b \in {"cell", "swap", "forward"}
         /\ b # "forward" => Reports(r) = {}
         /\ rules' = [rules EXCEPT ![n] = Entry(TRUE, r)]
         /\ reported' = Append(reported, [rule |-> r, by |-> b])
    BY <2>1, <2>2, <2>3, <2>4, <2>6, <2>7, <2>8, <2>9
  <2>11. Matched' /\ Ordered'
    BY <1>2, <2>10, OneMore
  <2> QED  BY <2>1, <2>11
<1>17. ASSUME NEW r \in RuleSet, HearRule(r) \/ HearInstall(r) \/ HotSwap(r)
       PROVE  /\ (install.at \in {"chosen", "copying"} => ~rules[install.n].occupied)'
              /\ (install.at = "copying" => rules[install.n].trigger = install.rule.trigger)'
              /\ (install.at \in {"decoded", "chosen", "copying"} /\ install.by = "swap"
                    => Reports(install.rule) = {})'
              /\ Matched' /\ Ordered'
  <2>1. CASE HearRule(r)
    BY <2>1, <1>10
  <2>2. CASE HearInstall(r)
    BY <2>2, <1>6, <1>8
  <2>3. CASE HotSwap(r)
    BY <2>3, <1>5, <1>11
  <2> QED  BY <1>17, <2>1, <2>2, <2>3
<1> QED  BY <1>6, <1>7, <1>9, <1>12, <1>13, <1>14, <1>15, <1>16, <1>17 DEF RulesNext

-----------------------------------------------------------------------------
(* The rules of a board: the theorems *)

\* In every state the ring holds the last cells heard, the demo's rules are in their
\* entries, and, as long as the Wi-Fi task has interrupted no install, each report of
\* a rule has an entry of its own.
THEOREM RulesInvariant == RulesSpec => []RulesInv
<1>1. RulesInv /\ [RulesNext]_rulesVars => RulesInv'
  BY RingStep, TableStep, InstallStep DEF RulesInv
<1> QED  BY <1>1, RulesInitInv, PTL DEF RulesSpec

\* What a board reported as installed is in its table, whole and in an entry of its
\* own, and only a forward brings a rule twice (cm_rules_install), while no install
\* of the main loop was interrupted.
THEOREM ReportedStaysInstalled == RulesSpec => []ReportedRulesStay
<1>1. RulesInv => ReportedRulesStay
  BY DEF RulesInv, InstallInv, ReportedRulesStay, Extra, Reports, ReportsIn
<1> QED  BY <1>1, RulesInvariant, PTL

\* No rule that came in has the effect by which the quorum rule is known.
LongIsQuorum ==
  /\ \A n \in 4..RulesMax : rules[n].occupied => rules[n].effect # "long"
  /\ install.at \in {"decoded", "chosen", "copying"} => install.rule.effect # "long"

LEMMA LongStep ==
  ASSUME TableInv, LongIsQuorum, RulesNext \/ UNCHANGED rulesVars,
         \A r \in RuleSet : r.effect # "long"
  PROVE  LongIsQuorum'
<1> USE DEF LongIsQuorum
<1>1. \A n \in 4..RulesMax : n \in Entries /\ rules[n] \in
        [occupied : BOOLEAN, trigger : Triggers \cup {Nothing}, effect : Effects \cup {Nothing}]
  BY EntriesAre DEF TableInv
<1>2. /\ install \in InstallSpace /\ DOMAIN rules = Entries
      /\ install.at \in {"cleared", "decoding"} => fwdRule.bytes \in RuleSet
  BY DEF TableInv
<1>3. /\ install.at \in {"chosen", "copying"} =>
           /\ install.n \in 4..RulesMax
           /\ install \in [at : {"chosen", "copying"}, n : 4..RulesMax, rule : Rules,
                           by : {"swap", "forward"}]
  BY <1>2, InstallIs
<1>4. ASSUME NEW r \in RuleSet, HearRule(r) PROVE LongIsQuorum'
  <2>1. rules' = [rules EXCEPT ![FirstEntry(Room)] = Entry(TRUE, r)] /\ install' = install
    BY <1>4 DEF HearRule
  <2>2. \A n \in 4..RulesMax : rules'[n] = rules[n] \/ rules'[n] = Entry(TRUE, r)
    BY <2>1, <1>1, <1>2
  <2>3. Entry(TRUE, r).effect # "long"
    BY DEF Entry
  <2> QED  BY <2>1, <2>2, <2>3
<1>5. ASSUME NEW r \in RuleSet, HotSwap(r) PROVE LongIsQuorum'
  BY <1>5 DEF HotSwap
<1>6. CASE DrainInstall \/ DecodeTrigger
  BY <1>6 DEF DrainInstall, DecodeTrigger
<1>7. CASE DecodeEffect
  <2>1. fwdRule.bytes.effect # "long"
    BY <1>2, <1>7 DEF DecodeEffect
  <2>2. install' = [at |-> "decoded", by |-> "forward",
                    rule |-> [trigger |-> install.trigger, effect |-> fwdRule.bytes.effect]]
        /\ rules' = rules
    BY <1>7 DEF DecodeEffect
  <2> QED  BY <2>1, <2>2
<1>8. CASE ChooseEntry
  <2>1. rules' = rules /\ (install'.at = "rest" \/ install'.rule = install.rule) /\ install.at = "decoded"
    BY <1>8 DEF ChooseEntry, AtRest
  <2> QED  BY <2>1
<1>9. CASE CopyTrigger
  <2>1. /\ install.at = "chosen" /\ install' = [install EXCEPT !.at = "copying"]
        /\ rules' = [rules EXCEPT ![install.n].occupied = FALSE,
                                  ![install.n].trigger = install.rule.trigger]
    BY <1>9 DEF CopyTrigger
  <2>2. install'.rule = install.rule
    BY <2>1, <1>3
  <2>3. \A n \in 4..RulesMax : rules'[n] = rules[n] \/ ~rules'[n].occupied
    BY <2>1, <1>1, <1>2, <1>3
  <2> QED  BY <2>1, <2>2, <2>3
<1>10. CASE CopyEffect
  <2>1. /\ install.at = "copying" /\ install' = AtRest
        /\ rules' = [rules EXCEPT ![install.n].occupied = TRUE,
                                  ![install.n].effect = install.rule.effect]
    BY <1>10 DEF CopyEffect
  <2>2. \A n \in 4..RulesMax : rules'[n] = rules[n] \/ rules'[n].effect = install.rule.effect
    BY <2>1, <1>1, <1>2, <1>3
  <2> QED  BY <2>1, <2>2 DEF AtRest
<1>11. ASSUME UNCHANGED <<rules, install>> PROVE LongIsQuorum'
  BY <1>11
<1>12. ASSUME NEW p \in Peers, NEW type \in Types, HearPlain(p, type) PROVE LongIsQuorum'
  BY <1>11, <1>12 DEF HearPlain
<1>13. ASSUME NEW r \in RuleSet, HearInstall(r) PROVE LongIsQuorum'
  BY <1>11, <1>13 DEF HearInstall
<1>14. CASE DrainEmit \/ StampGrows \/ UNCHANGED rulesVars
  BY <1>11, <1>14 DEF DrainEmit, StampGrows, rulesVars
<1> QED  BY <1>4, <1>5, <1>6, <1>7, <1>8, <1>9, <1>10, <1>12, <1>13, <1>14 DEF RulesNext

\* Of all entries only the third has that effect, so it is fired by a quorum of taps.
LEMMA LongFires ==
  ASSUME TableInv, LongIsQuorum, NEW q, NEW type \in Types
  PROVE  "long" \in Evaluate(q, type) <=>
           type = "tap" /\ Cardinality(TapsInRing(q, stamp)) >= QuorumN
<1>1. \A n \in Entries : rules[n].occupied /\ rules[n].effect = "long" <=> n = 3
  <2>1. rules[1] = Entry(TRUE, DemoRules[1]) /\ rules[2] = Entry(TRUE, DemoRules[2])
        /\ rules[3] = Entry(TRUE, DemoRules[3])
    <3>1. 1 \in 1..3 /\ 2 \in 1..3 /\ 3 \in 1..3
      OBVIOUS
    <3> QED  BY <3>1 DEF TableInv
  <2>2. rules[1].effect = "short" /\ rules[2].effect = "emit" /\ rules[3].effect = "long"
        /\ rules[3].occupied
    BY <2>1, DemoRulesAre DEF Entry
  <2>3. \A n \in 4..RulesMax : ~(rules[n].occupied /\ rules[n].effect = "long") /\ n # 3
    BY EntriesAre DEF LongIsQuorum
  <2>4. \A n \in 1..3 : n = 1 \/ n = 2 \/ n = 3
    OBVIOUS
  <2> QED  BY <2>2, <2>3, <2>4, EntriesAre
<1>2. 3 \in Entries /\ rules[3].trigger = QuorumOnTap /\ rules[3].effect = "long"
  <2>1. rules[3] = Entry(TRUE, DemoRules[3])
    <3>1. 3 \in 1..3
      OBVIOUS
    <3> QED  BY <3>1 DEF TableInv
  <2> QED  BY <2>1, DemoRulesAre, EntriesAre DEF Entry
<1>3. "long" \in Evaluate(q, type) <=> TriggerMatches(QuorumOnTap, q, type)
  BY <1>1, <1>2 DEF Evaluate
<1>4. TriggerMatches(QuorumOnTap, q, type) <=>
        type = "tap" /\ CountRecent(q, type) >= QuorumN
  BY DEF TriggerMatches, QuorumOnTap
<1>5. CountRecent(q, "tap") = Cardinality(TapsInRing(q, stamp))
  BY DEF CountRecent, TapsInRing, Young
<1> QED  BY <1>3, <1>4, <1>5

LEMMA QuorumStep ==
  ASSUME RulesInv, LongIsQuorum, QuorumIsHeard, RulesNext \/ UNCHANGED rulesVars
  PROVE  QuorumIsHeard'
<1>1. ASSUME UNCHANGED <<heard, fired>> PROVE QuorumIsHeard'
  BY <1>1 DEF QuorumIsHeard, TapPeers, InWindow
<1>2. ASSUME NEW p \in Peers, NEW type \in Types, HearPlain(p, type)
      PROVE  QuorumIsHeard'
  <2> DEFINE c == [type |-> type, peer |-> p, at |-> stamp]
  <2>1. /\ heard' = Append(heard, c) /\ ring' = PushCell(c) /\ fired' = Evaluate(ring', type)
        /\ stamp' = stamp /\ stamp \in 0..MaxStamp
    BY <1>2 DEF HearPlain, RulesInv, RingIsRecent
  <2>2. RingIsRecent'
    BY <1>2, RingStep DEF RulesInv, RulesNext
  <2>3. c.at = stamp /\ c.type = type
    OBVIOUS
  <2>4. heard \in Seq(HeardSpace)
    BY DEF RulesInv, RingIsRecent, Recent
  <2> HIDE DEF c
  <2>5. heard' # <<>> /\ heard'[Len(heard')] = c
    <3>1. c \in HeardSpace
      BY <2>1 DEF c, HeardSpace
    <3> QED  BY <2>1, <2>4, <3>1
  <2>6. PICK h : h = heard'
    OBVIOUS
  <2>7. PICK q : q = ring'
    OBVIOUS
  <2>8. PICK s : s = stamp
    OBVIOUS
  <2>9. s \in 0..MaxStamp /\ Recent(h, q, s) /\ h # <<>> /\ h[Len(h)].at = s
    BY <2>1, <2>2, <2>3, <2>5, <2>6, <2>7, <2>8 DEF RingIsRecent
  <2>10. /\ Cardinality(TapsInRing(q, s)) <= Cardinality(TapsIn(h))
         /\ Cardinality(Window(h)) <= RingSize => TapsInRing(q, s) = TapsIn(h)
         /\ Cardinality(TapsInRing(q, s)) \in Nat /\ Cardinality(TapsIn(h)) \in Nat
    BY <2>9, RingCountsWindow
  <2>11. "long" \in fired' <=> type = "tap" /\ Cardinality(TapsInRing(q, s)) >= QuorumN
    BY <2>1, <2>7, <2>8, LongFires DEF RulesInv
  <2>12. InWindow' = Window(h) /\ TapPeers' = TapsIn(h)
    BY <2>6 DEF InWindow, TapPeers, Window, TapsIn
  <2>13. heard'[Len(heard')].type = type
    BY <2>3, <2>5
  <2> QED  BY <2>10, <2>11, <2>12, <2>13, EntriesAre DEF QuorumIsHeard
<1>3. ASSUME RulesNext, ~\E p \in Peers, type \in Types : HearPlain(p, type)
      PROVE  UNCHANGED <<heard, fired>>
  BY <1>3 DEF RulesNext, HearRule, HearInstall, HotSwap, DrainInstall, DecodeTrigger, DecodeEffect,
              ChooseEntry, CopyTrigger, CopyEffect, DrainEmit, StampGrows
<1>4. UNCHANGED rulesVars => UNCHANGED <<heard, fired>>
  BY DEF rulesVars
<1> QED  BY <1>1, <1>2, <1>3, <1>4

\* The quorum rule fires exactly when enough peers tapped within the window, though it
\* counts in a ring that forgets (cm_ring_count_recent, cm_rules_evaluate): if no rule
\* that comes in has its effect, by which alone the property can tell it.
THEOREM QuorumIsCounted ==
  ASSUME \A r \in RuleSet : r.effect # "long"
  PROVE  RulesSpec => []QuorumIsHeard
<1>1. RulesInit => LongIsQuorum /\ QuorumIsHeard
  <2> SUFFICES ASSUME RulesInit PROVE LongIsQuorum /\ QuorumIsHeard
    OBVIOUS
  <2>1. \A n \in 4..RulesMax : ~rules[n].occupied
    <3>1. \A n \in 4..RulesMax : n \in Entries /\ ~(n <= 3)
      BY EntriesAre
    <3> QED  BY <3>1 DEF RulesInit, Never
  <2>2. heard = <<>> /\ install.at = "rest"
    BY DEF RulesInit, AtRest
  <2> QED  BY <2>1, <2>2 DEF LongIsQuorum, QuorumIsHeard
<1>2. RulesInv /\ LongIsQuorum /\ QuorumIsHeard /\ [RulesNext]_rulesVars
        => LongIsQuorum' /\ QuorumIsHeard'
  BY LongStep, QuorumStep DEF RulesInv
<1> QED  BY <1>1, <1>2, RulesInvariant, PTL DEF RulesSpec

=============================================================================
