-------------------------------- MODULE Fleet --------------------------------
(***************************************************************************)
(* The identity control plane of a fleet (tools/fleet: fleet.ts over         *)
(* plexus-deriver.ts).  The operator derives zones under the root and        *)
(* devices under a zone, retires positions, renews certificates, and loses   *)
(* or restarts the control plane.                                            *)
(*                                                                          *)
(* A node is its derivation path: <<>> is the operator root, <<z>> the zone  *)
(* at index z, <<z, d>> a device of it.  Keys, certificate ids and channel   *)
(* ids are functions of the path and stand for it.  The Plexus SDK is        *)
(* external: it hands out a slot's next index and keeps those indices in its *)
(* database, or in memory when it was opened without a file.                 *)
(***************************************************************************)
EXTENDS Integers, Sequences, SequencesExt, FiniteSets

CONSTANTS
  Units,         \* the physical units
  Databases,     \* the ways the SDK is opened: TRUE with a dbPath, FALSE in memory
  FleetDomain,   \* DOMAIN.device
  NoExpiry,      \* UINT64_MAX
  SdkFails,      \* may the SDK's database refuse a write
  Lifetimes,     \* what issueCert is given as an expiry
  MaxZones,      \* bound: zones
  MaxIndex,      \* bound: indices in a zone's slot
  MaxIssued,     \* bound: certificates
  MaxClock,      \* bound: the clock
  MaxRestarts    \* bound: restarts of the control plane

ASSUME FleetAssumption ==
  /\ Databases \subseteq BOOLEAN /\ SdkFails \in BOOLEAN
  /\ Lifetimes \subseteq Nat \cup {NoExpiry}
  /\ MaxZones \in Nat /\ MaxIndex \in Nat /\ MaxIssued \in Nat
  /\ MaxClock \in Nat \ {0} /\ MaxRestarts \in Nat

Root == <<>>
Zones == {<<z>> : z \in 0 .. MaxZones - 1}
Parents == {Root} \cup Zones
Devices == {<<z, d>> : z \in 0 .. MaxZones - 1, d \in 0 .. MaxIndex - 1}
Paths == Zones \cup Devices
Bound(parent) == IF parent = Root THEN MaxZones ELSE MaxIndex

VARIABLES
  persistent,  \* SDK: it keeps a database
  next,      \* SDK: parent -> the next free index of its slot
  nodes,     \* recipe().nodes without the root
  ceilings,  \* recipe().ceilings: parent -> nextIndex, 0 when it has no entry
  pending,   \* calls of the deriver that await the SDK's answer
  held,      \* the zones the operator holds a node of
  issued,    \* certificates signed as the operator
  ledger,    \* the operator's list of zones and units, in the order they were added
  replay,    \* what of the list a rebuilt control plane has yet to add again
  given,     \* history: <<unit, path>>, a unit flashed for a path
  burned,    \* history: positions that were retired
  clock,     \* Date.now()
  restarts   \* restarts so far

clientVars == <<persistent, next, nodes, ceilings, pending>>
operatorVars == <<held, issued, ledger, replay, given, burned, clock, restarts>>
fleetVars == <<clientVars, operatorVars>>

\* The certificate issueCert builds: it names the unit's channel, derived from
\* its identity, and the domain of the cell that carries it.
CertFor(path, expiry) ==
  [chan |-> path, edge |-> path, expiry |-> expiry, from |-> clock,
   domain |-> FleetDomain]

\* Something the operator asked for: a zone, or a device in a zone for a unit.
ZoneOrder == [parent |-> Root, unit |-> {}]
DeviceOrder(zone, unit) == [parent |-> zone, unit |-> {unit}]

FleetInit ==
  /\ persistent \in Databases
  /\ next = [p \in Parents |-> 0]
  /\ nodes = {}
  /\ ceilings = [p \in Parents |-> 0]
  /\ pending = {}
  /\ held = {}
  /\ issued = {}
  /\ ledger = <<>>
  /\ replay = <<>>
  /\ given = {}
  /\ burned = {}
  /\ clock = 1
  /\ restarts = 0

-----------------------------------------------------------------------------
(* plexus-deriver.ts *)

\* Faulty variant: the last answer to arrive sets the ceiling.
BumpCeilingAlways(parent, nextIndex) ==
  ceilings' = [ceilings EXCEPT ![parent] = nextIndex]

\* A slot's ceiling only rises.
BumpCeiling(parent, nextIndex) ==
  ceilings' = [ceilings EXCEPT ![parent] = IF nextIndex > @ THEN nextIndex ELSE @]

\* client.deriveChild: the SDK hands out the slot's next index.
DeriveChild(parent, unit) ==
  /\ next[parent] < Bound(parent)
  /\ next' = [next EXCEPT ![parent] = @ + 1]
  /\ pending' = pending \cup
       {[call |-> "derive", parent |-> parent, index |-> next[parent],
         unit |-> unit]}

\* client.rotateContext: the SDK passes over the slot's next free index.
RotateContext(parent) ==
  /\ next[parent] < Bound(parent)
  /\ next' = [next EXCEPT ![parent] = @ + 1]
  /\ pending' = pending \cup
       {[call |-> "burn", parent |-> parent, index |-> next[parent],
         unit |-> {}]}

\* derive resumes after setNodeMetadata: the node and its slot's ceiling are
\* mirrored, and addDevice goes on to issue the certificate.
DeriveReturns(p) ==
  LET path == Append(p.parent, p.index) IN
  /\ p \in pending /\ p.call = "derive"
  /\ pending' = pending \ {p}
  /\ nodes' = nodes \cup {path}
  /\ BumpCeiling(p.parent, p.index + 1)
  /\ held' = IF p.unit = {} THEN held \cup {path} ELSE held
  /\ issued' = IF p.unit = {} THEN issued ELSE issued \cup {CertFor(path, NoExpiry)}
  /\ given' = given \cup {<<u, path>> : u \in p.unit}
  /\ UNCHANGED <<persistent, next, ledger, replay, burned, clock, restarts>>

\* setNodeMetadata throws: the index is gone, and nothing was mirrored.
DeriveFails(p) ==
  /\ SdkFails
  /\ p \in pending /\ p.call = "derive"
  /\ pending' = pending \ {p}
  /\ UNCHANGED <<persistent, next, nodes, ceilings, operatorVars>>

\* burnSlot resumes with the new mark.
BurnReturns(p) ==
  /\ p \in pending /\ p.call = "burn"
  /\ pending' = pending \ {p}
  /\ BumpCeiling(p.parent, p.index + 1)
  /\ burned' = burned \cup {Append(p.parent, p.index)}
  /\ UNCHANGED <<persistent, next, nodes, held, issued, ledger, replay, given, clock, restarts>>

-----------------------------------------------------------------------------
(* fleet.ts *)

AddZone ==
  /\ replay = <<>>
  /\ DeriveChild(Root, {})
  /\ ledger' = Append(ledger, ZoneOrder)
  /\ UNCHANGED <<persistent, nodes, ceilings, held, issued, replay, given, burned, clock, restarts>>

\* A unit is provisioned once, with the default expiry as every caller does.
AddDevice(zone, unit) ==
  /\ replay = <<>>
  /\ zone \in held
  /\ \A i \in DOMAIN ledger : unit \notin ledger[i].unit
  /\ DeriveChild(zone, {unit})
  /\ ledger' = Append(ledger, DeviceOrder(zone, unit))
  /\ UNCHANGED <<persistent, nodes, ceilings, held, issued, replay, given, burned, clock, restarts>>

\* The position burned is the zone's next free one.
Decommission(zone) ==
  /\ replay = <<>>
  /\ zone \in held
  /\ RotateContext(zone)
  /\ UNCHANGED <<persistent, nodes, ceilings, operatorVars>>

\* A renewal: a new certificate for a unit's node.
IssueCert(path, expiry) ==
  /\ \E u \in Units : <<u, path>> \in given
  /\ Cardinality(issued) < MaxIssued
  /\ issued' = issued \cup {CertFor(path, expiry)}
  /\ UNCHANGED <<clientVars, held, ledger, replay, given, burned, clock, restarts>>

-----------------------------------------------------------------------------
(* Restarts and the clock *)

\* Faulty variant: the database does not keep the positions.
ClientForgets == next' = [p \in Parents |-> 0]

\* What the SDK still knows in the next session.
ClientReopens == next' = IF persistent THEN next ELSE [p \in Parents |-> 0]

\* The process ends and openPlexusDeriver runs again.  The mirrors start empty;
\* a client that kept nothing is given the operator's list again.
Restart ==
  /\ restarts < MaxRestarts
  /\ restarts' = restarts + 1
  /\ ClientReopens
  /\ nodes' = {}
  /\ ceilings' = [p \in Parents |-> 0]
  /\ pending' = {}
  /\ held' = IF persistent THEN held ELSE {}
  /\ replay' = IF persistent THEN <<>> ELSE ledger
  /\ UNCHANGED <<persistent, issued, ledger, given, burned, clock>>

\* The rebuild of provision.ts: one entry of the list after another.
Readd ==
  /\ replay # <<>> /\ pending = {}
  /\ LET order == Head(replay) IN
       IF order.parent \in held \cup {Root}
       THEN DeriveChild(order.parent, order.unit)
       ELSE UNCHANGED <<next, pending>>
  /\ replay' = Tail(replay)
  /\ UNCHANGED <<persistent, nodes, ceilings, held, issued, ledger, given, burned, clock, restarts>>

PassTime ==
  /\ clock < MaxClock
  /\ clock' = clock + 1
  /\ UNCHANGED <<clientVars, held, issued, ledger, replay, given, burned, restarts>>

=============================================================================
