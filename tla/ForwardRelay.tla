----------------------------- MODULE ForwardRelay -----------------------------
(***************************************************************************)
(* Forward cells relayed along a route: the admission of cell-mesh-zig       *)
(* (cell_forward_admit.zig), the receive handlers, the mailboxes and the      *)
(* main loop's drains of mesh_demo's main.c.                                 *)
(*                                                                           *)
(* The handlers run in the Wi-Fi task, which the main loop cannot interrupt;  *)
(* it can interrupt the main loop anywhere.  So a handler is one step, and a   *)
(* drain several: a mailbox that is marked empty before it is read may be      *)
(* filled again under the reader's hands.                                     *)
(*                                                                           *)
(* Flows are numbered as the bridge begins them.  What is copied from a        *)
(* mailbox is named by the flows its first and its last bytes are of; a        *)
(* signature, and the digest that binds Cell B to Cell A, hold when those are   *)
(* one.  The commitments of a flow name the one channel the bridge pays on;    *)
(* they differ in seq, and what else cm_channel_apply_commitment checks        *)
(* (CellChannel) holds of what the bridge signs (MeshControl).  Ticks a drain  *)
(* skips are time, which is left out; verbs act on rules and lights, not on     *)
(* the way of a cell.                                                         *)
(***************************************************************************)
EXTENDS Naturals, FiniteSets, Sequences, Functions

CONSTANTS
  Relays,
  Origin,        \* the board at the bridge's port
  Route,         \* segments: the boards the cell is for, in order
  Versions,      \* of forwards: "v0", "v1", "v2"
  Provisioned,   \* the boards that hold the relay grant
  CellBSends,    \* 3 in the code
  InjectCopies,  \* 2 in the code, or 1 where the injector stages them
  MaxFlows       \* bound

Flows == 1..MaxFlows
Hops == DOMAIN Route

ASSUME RelayAssumption ==
  /\ Origin \notin Relays
  /\ Route \in Seq(Relays) /\ Route # <<>>
  /\ \A i, j \in Hops : Route[i] = Route[j] => i = j
  /\ Versions \subseteq {"v0", "v1", "v2"}
  /\ Provisioned \subseteq Relays
  /\ CellBSends \in Nat \ {0} /\ InjectCopies \in Nat \ {0} /\ MaxFlows \in Nat

VARIABLES
  calm,      \* whether the radio keeps order and loses, doubles and refuses nothing
  near,      \* the boards in reach of the origin
  flows,     \* the flows begun: version, seq of their commitments, cells to inject
  links,     \* <<sender, receiver>> -> cells on the air
  burst,     \* s_fwdv2_burst: the Cell A held, if valid
  chanSeq,   \* s_fwd_channel.current_seq
  mail,      \* version -> s_pending_forward*: flag and the flow it holds
  pair,      \* s_pending_fwdv2_cell_a_sent, s_fwdv2_cell_b_sends_left
  drain,     \* where the main loop is in a drain
  admitted   \* history: how often a board admitted a flow, twice at most

relayVars == <<calm, near, flows, links, burst, chanSeq, mail, pair, drain, admitted>>

ForwardParts == {"v0", "v1", "A", "B"}
\* The cells of a forward, in the order the bridge sends them.
PartsOf(version) == IF version = "v2" THEN <<"A", "B">> ELSE <<version>>
Cells == [part : ForwardParts, head : Flows, tail : Flows]
NoBurst == <<>>
Idle == [at |-> "idle"]

\* All of one flow.
Intact(c) == c.head = c.tail

RelayTypeOK ==
  /\ calm \in BOOLEAN
  /\ near \subseteq Relays
  /\ \A f \in DOMAIN flows : 
       flows[f] \in [version : Versions, seq : 0..MaxFlows,
                     due : {PartsOf(v) : v \in Versions} \cup {<<>>, <<"B">>}]
  /\ Len(flows) <= MaxFlows
  /\ \A l \in DOMAIN links : Range(links[l]) \subseteq Cells
  /\ burst \in [Relays -> {NoBurst} \cup {<<c>> : c \in Cells}]
  /\ chanSeq \in [Relays -> 0..MaxFlows]
  /\ mail \in [Relays -> [Versions -> [full : BOOLEAN, of : 0..MaxFlows]]]
  /\ pair \in [Relays -> [aSent : BOOLEAN, left : 0..CellBSends]]
  /\ \A b \in Relays :
       \/ drain[b] = Idle
       \/ drain[b] \in [at : {"cleared"}, box : Versions]
       \/ drain[b] \in [at : {"begun"}, box : Versions, part : ForwardParts]
       \/ drain[b] \in [at : {"half"}, box : Versions, part : ForwardParts, head : Flows]
       \/ drain[b] \in [at : {"sent"}, box : {"v2"}, part : {"A", "B"},
                        result : {"ok", "full", "failed"}]
  /\ admitted \in [Relays -> [Flows -> 0..2]]

RelayInit ==
  /\ calm \in BOOLEAN
  /\ near \in {n \in SUBSET Relays : Route[1] \in n /\ (calm \/ n = Relays)}
  /\ flows = <<>>
  /\ links = [l \in ({Origin} \cup Relays) \X Relays |-> <<>>]
  /\ burst = [b \in Relays |-> NoBurst]
  /\ chanSeq = [b \in Relays |-> 0]
  /\ mail = [b \in Relays |-> [v \in Versions |-> [full |-> FALSE, of |-> 0]]]
  /\ pair = [b \in Relays |-> [aSent |-> FALSE, left |-> 0]]
  /\ drain = [b \in Relays |-> Idle]
  /\ admitted = [b \in Relays |-> [f \in Flows |-> 0]]

relayBoardVars == <<burst, chanSeq, mail, pair, admitted>>

-----------------------------------------------------------------------------
(* The origin *)

\* Nothing is under way.
Quiet ==
  /\ \A f \in DOMAIN flows : flows[f].due = <<>>
  /\ \A l \in DOMAIN links : links[l] = <<>>
  /\ \A b \in Relays : drain[b] = Idle /\ \A v \in Versions : ~mail[b][v].full

\* The bridge counts the commitments of each version by themselves.  In calm
\* runs it waits for one flow before the next.
Begin(v) ==
  /\ Len(flows) < MaxFlows
  /\ calm => Quiet
  /\ LET before == {g \in DOMAIN flows : flows[g].version = v}
     IN flows' = Append(flows, [version |-> v,
                                seq |-> IF v = "v0" THEN 0 ELSE Cardinality(before) + 1,
                                due |-> PartsOf(v)])
  /\ UNCHANGED <<calm, near, links, relayBoardVars, drain>>

\* A rough link is a set: what is on it may be heard often, or never.
Put(q, c) == IF calm \/ c \notin Range(q) THEN Append(q, c) ELSE q
PutCopies(q, c, n) == [i \in 1..(Len(q) + n) |-> IF i <= Len(q) THEN q[i] ELSE c]

\* The port's board broadcasts the next cell of a flow, once or twice.
InjectCell(f) ==
  /\ flows[f].due # <<>>
  /\ flows' = [flows EXCEPT ![f].due = Tail(@)]
  /\ LET c == [part |-> Head(flows[f].due), head |-> f, tail |-> f]
     IN \E n \in 1..InjectCopies :
          links' = [l \in DOMAIN links |->
                      IF l[1] # Origin \/ l[2] \notin near THEN links[l]
                      ELSE IF calm THEN PutCopies(links[l], c, n) ELSE Put(links[l], c)]
  /\ UNCHANGED <<calm, near, relayBoardVars, drain>>

-----------------------------------------------------------------------------
(* Admission *)

HopOf(b) == CHOOSE i \in Hops : Route[i] = b

\* Faulty variant: a board takes the cell from whoever sends it.
AnyTurn(b, s) == b \in Range(Route)

\* cm_forward_locate: the board is on the route, and past the first hop the
\* sender is the board before it.
InTurn(b, s) == b \in Range(Route) /\ (HopOf(b) = 1 \/ Route[HopOf(b) - 1] = s)

IsLast(b) == HopOf(b) = Len(Route)

\* Faulty variant: a commitment is as good as new the second time.
NotOlder(b, f) == flows[f].seq >= chanSeq[b]

\* cm_channel_apply_commitment takes it.
Newer(b, f) == flows[f].seq > chanSeq[b]

\* What a board does with a cell it admits: it acts on it, and passes it on by
\* the mailbox of its version, if that is empty.
Admit(b, v, f) ==
  /\ admitted' = [admitted EXCEPT ![b][f] = IF @ = 2 THEN 2 ELSE @ + 1]
  /\ chanSeq' = IF v = "v0" THEN chanSeq ELSE [chanSeq EXCEPT ![b] = flows[f].seq]
  /\ IF IsLast(b) \/ mail[b][v].full
     THEN UNCHANGED <<mail, pair>>
     ELSE /\ mail' = [mail EXCEPT ![b][v] = [full |-> TRUE, of |-> f]]
          /\ pair' = IF v = "v2" THEN [pair EXCEPT ![b] = [aSent |-> FALSE, left |-> CellBSends]]
                     ELSE pair

Refuse == UNCHANGED <<admitted, chanSeq, mail, pair>>

\* cm_forward_v0_admit, cm_forward_v1_admit, and what on_radio_recv does then.
HearForward(b, s, c) ==
  /\ c.part \in {"v0", "v1"}
  /\ IF /\ InTurn(b, s) /\ b \in Provisioned /\ Intact(c)
        /\ c.part = "v1" => Newer(b, c.head)
     THEN Admit(b, c.part, c.head)
     ELSE Refuse
  /\ UNCHANGED burst

\* Cell A is kept, whatever was kept before.  All copies of a Cell A have one
\* hop_index, so the test for older ones never holds.
HearA(b, c) ==
  /\ c.part = "A"
  /\ burst' = [burst EXCEPT ![b] = <<c>>]
  /\ Refuse

Holds(b, c) == burst[b] # NoBurst /\ burst[b][1].head = c.head

\* Faulty variant: any Cell B of the flow uses Cell A up.
AlwaysConsumes(b, s, c) == TRUE

\* cm_admit_consumes_burst_slot.
Consumes(b, s, c) == ~Holds(b, c) \/ (InTurn(b, s) /\ Intact(c))

\* The flow of Cell B is compared, then cm_forward_v2_admit decides on the pair.
HearB(b, s, c) ==
  /\ c.part = "B"
  /\ burst' = IF Consumes(b, s, c) THEN [burst EXCEPT ![b] = NoBurst] ELSE burst
  /\ IF /\ Holds(b, c) /\ InTurn(b, s) /\ Intact(c)
        /\ b \in Provisioned /\ Intact(burst[b][1]) /\ Newer(b, c.head)
     THEN Admit(b, "v2", c.head)
     ELSE Refuse

\* on_radio_recv, once a cell is whole.
HearCell(b, s) ==
  /\ \E i \in DOMAIN links[<<s, b>>] :
       LET q == links[<<s, b>>] IN
       /\ calm => i = 1
       /\ links' = IF calm THEN [links EXCEPT ![<<s, b>>] = Tail(q)] ELSE links
       /\ HearForward(b, s, q[i]) \/ HearA(b, q[i]) \/ HearB(b, s, q[i])
  /\ UNCHANGED <<calm, near, flows, drain>>

-----------------------------------------------------------------------------
(* The main loop *)

Steps(b, at) == drain[b].at = at
GoesOn(b, d) == drain' = [drain EXCEPT ![b] = d]

\* drain_pending_forward*: the mailbox is marked empty first.
Clear(b, v) ==
  /\ Steps(b, "idle") /\ mail[b][v].full
  /\ mail' = [mail EXCEPT ![b][v].full = FALSE]
  /\ GoesOn(b, [at |-> "cleared", box |-> v])
  /\ UNCHANGED <<calm, near, flows, links, burst, chanSeq, pair, admitted>>

\* Which cell is due: of a v2 burst, Cell A until it is known to be sent.
Choose(b) ==
  /\ Steps(b, "cleared")
  /\ GoesOn(b, [at |-> "begun", box |-> drain[b].box,
                part |-> IF drain[b].box # "v2" THEN drain[b].box
                         ELSE IF pair[b].aSent THEN "B" ELSE "A"])
  /\ UNCHANGED <<calm, near, flows, links, relayBoardVars>>

\* cm_frame_split copies the cell from the mailbox, from its first byte...
CopyHead(b) ==
  /\ Steps(b, "begun")
  /\ GoesOn(b, [at |-> "half", box |-> drain[b].box, part |-> drain[b].part,
                head |-> mail[b][drain[b].box].of])
  /\ UNCHANGED <<calm, near, flows, links, relayBoardVars>>

\* ...to its last, and esp_now_send takes all frames, has no room for them, or fails.
Transmit(b) ==
  /\ Steps(b, "half")
  /\ LET d == drain[b]
         c == [part |-> d.part, head |-> d.head, tail |-> mail[b][d.box].of]
         to == <<b, Route[HopOf(b) + 1]>>
     IN \E result \in {"ok", "full", "failed"} :
          /\ calm => result = "ok" \/ (result = "full" /\ d.box = "v2")
          /\ links' = IF result = "ok" THEN [links EXCEPT ![to] = Put(@, c)] ELSE links
          /\ GoesOn(b, IF d.box # "v2" THEN Idle
                       ELSE [at |-> "sent", box |-> "v2", part |-> d.part, result |-> result])
  /\ UNCHANGED <<calm, near, flows, relayBoardVars>>

\* Faulty variant: a Cell A that found no room counts as sent.
AfterAForgets(b, result) ==
  /\ pair' = [pair EXCEPT ![b].aSent = TRUE]
  /\ mail' = [mail EXCEPT ![b]["v2"].full = TRUE]

\* Phase 1: Cell B is due next, or Cell A again.
AfterA(b, result) ==
  /\ pair' = IF result = "ok" THEN [pair EXCEPT ![b].aSent = TRUE] ELSE pair
  /\ mail' = [mail EXCEPT ![b]["v2"].full = TRUE]

\* Phase 2: Cell B goes out three times; it is tried again only for want of room.
AfterB(b, result) ==
  LET left == pair[b].left
      again == \/ result = "full"
               \/ result = "ok" /\ left > 1
  IN /\ pair' = IF result = "ok" /\ left > 0
                THEN [pair EXCEPT ![b] = [aSent |-> @.aSent /\ left > 1, left |-> left - 1]]
                ELSE pair
     /\ mail' = IF again THEN [mail EXCEPT ![b]["v2"].full = TRUE] ELSE mail

AfterSend(b) ==
  /\ Steps(b, "sent")
  /\ IF drain[b].part = "A" THEN AfterA(b, drain[b].result) ELSE AfterB(b, drain[b].result)
  /\ GoesOn(b, Idle)
  /\ UNCHANGED <<calm, near, flows, links, burst, chanSeq, admitted>>

-----------------------------------------------------------------------------

RelayNext ==
  \/ \E v \in Versions : Begin(v)
  \/ \E f \in DOMAIN flows : InjectCell(f)
  \/ \E b \in Relays, s \in {Origin} \cup Relays : HearCell(b, s)
  \/ \E b \in Relays, v \in Versions : Clear(b, v)
  \/ \E b \in Relays : Choose(b) \/ CopyHead(b) \/ Transmit(b) \/ AfterSend(b)

RelaySpec == RelayInit /\ [][RelayNext]_relayVars

-----------------------------------------------------------------------------
(* Properties *)

\* No board admits a forward that the board before it on the route has not
\* admitted: no hop is left out, though every board hears the origin, mailboxes
\* are filled while they are read and cells are lost, doubled and overtaken.
NoHopLeftOut ==
  \A i \in Hops \ {1}, f \in Flows :
    admitted[Route[i]][f] > 0 => admitted[Route[i - 1]][f] > 0

\* No board admits a paid forward twice, whatever is sent again or heard again.
PaidOncePerHop ==
  \A b \in Relays, f \in DOMAIN flows : flows[f].version # "v0" => admitted[b][f] <= 1

\* The seqs of no earlier flow stand in the way of f's.  (The bridge counts v1 and v2
\* each by itself, and the boards have one channel for both.)
Timely(f) ==
  flows[f].version = "v0" \/ \A g \in 1..(f - 1) : flows[g].version = "v0" \/ flows[g].seq < flows[f].seq

\* Over a calm radio, a forward that is alone in the mesh reaches the last board of
\* its route: the redundant copies of one cell, of the injector and of the relay, never
\* use up or replace what another needs.
LoneFlowsArrive ==
  calm /\ Quiet /\ Range(Route) \subseteq Provisioned =>
    \A f \in DOMAIN flows : Timely(f) => admitted[Route[Len(Route)]][f] > 0

\* cell_forward_admit.zig:78: "the slot is released only once the binding has PROVEN
\* this Cell B is the origin's partner for the Cell A being held".
ReleasedByPartnerOnly ==
  [][\A b \in Relays :
       burst[b] # NoBurst /\ burst'[b] = NoBurst =>
         \E l \in DOMAIN links : \E c \in Range(links[l]) :
           l[2] = b /\ c.part = "B" /\ Intact(c) /\ c.head = burst[b][1].head]_relayVars
=============================================================================
