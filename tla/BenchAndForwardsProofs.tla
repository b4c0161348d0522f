----------------------- MODULE BenchAndForwardsProofs -----------------------
(***************************************************************************)
(* Theorems about FleetBench: the control plane, with any number of units,  *)
(* zones and calls under way, and the board on the bench, with a capability *)
(* table of any size; and about ForwardRelay, for any boards, route,        *)
(* versions and numbers of copies and flows: what a board may admit,        *)
(* whatever the radio does, and that over a calm radio a forward which is   *)
(* alone arrives.                                                           *)
(***************************************************************************)
EXTENDS FleetBench, ForwardRelay, FiniteSetTheorems, SequenceTheorems,
        WellFoundedInduction, TLAPS

-----------------------------------------------------------------------------
(* The bench *)

-----------------------------------------------------------------------------
(* Paths *)

\* A node is a position of its parent's slot.
LEMMA PathOf ==
  ASSUME NEW parent \in Parents, NEW i \in 0..Bound(parent) - 1
  PROVE  /\ Append(parent, i) \in Paths
         /\ Front(Append(parent, i)) = parent
         /\ Last(Append(parent, i)) = i
         /\ parent = Root => Append(parent, i) \in Zones
<1>0. MaxZones \in Nat /\ MaxIndex \in Nat
  BY FleetAssumption
<1>1. CASE parent = Root
  <2>1. Append(parent, i) = <<i>> /\ i \in 0..MaxZones - 1
    BY <1>1 DEF Root, Bound
  <2>2. Front(<<i>>) = <<>> /\ Last(<<i>>) = i
    BY DEF Front, Last
  <2> QED  BY <1>1, <2>1, <2>2 DEF Paths, Zones, Root
<1>2. CASE parent # Root
  <2>1. PICK z \in 0..MaxZones - 1 : parent = <<z>>
    BY <1>2 DEF Parents, Zones
  <2>2. z \in Int /\ i \in Int /\ i \in 0..MaxIndex - 1
    BY <1>0, <1>2 DEF Bound
  <2>3. Append(<<z>>, i) = <<z, i>>
    <3>1. <<z>> \in Seq(Int) /\ Len(<<z>>) = 1 /\ <<z>>[1] = z
      BY <2>2
    <3>2. Append(<<z>>, i) \in Seq(Int) /\ <<z, i>> \in Seq(Int)
      BY <2>2, <3>1
    <3>3. Len(Append(<<z>>, i)) = 2 /\ Len(<<z, i>>) = 2
      BY <3>1
    <3>4. \A k \in 1..2 : Append(<<z>>, i)[k] = <<z, i>>[k]
      BY <3>1
    <3> QED  BY <3>2, <3>3, <3>4, SeqEqual
  <2>4. Front(<<z, i>>) = <<z>> /\ Last(<<z, i>>) = i
    <3>1. Len(<<z, i>>) = 2
      OBVIOUS
    <3>2. SubSeq(<<z, i>>, 1, 1) = [k \in 1..1 |-> <<z, i>>[k]]
      BY SubSeqProperties
    <3>3. [k \in 1..1 |-> <<z, i>>[k]] = <<z>>
      OBVIOUS
    <3>4. 2 - 1 = 1
      OBVIOUS
    <3>5. Front(<<z, i>>) = <<z>>
      BY <3>1, <3>2, <3>3, <3>4, Zenon DEF Front
    <3> QED  BY <3>1, <3>5 DEF Last
  <2>5. <<z, i>> \in Devices
    BY <2>2 DEF Devices
  <2> QED  BY <1>2, <2>1, <2>3, <2>4, <2>5 DEF Paths
<1> QED  BY <1>1, <1>2

LEMMA PathParts ==
  ASSUME NEW path \in Paths
  PROVE  /\ Front(path) \in Parents
         /\ Last(path) \in 0..Bound(Front(path)) - 1
         /\ path = Append(Front(path), Last(path))
<1>1. CASE path \in Zones
  <2>1. PICK z \in 0..MaxZones - 1 : path = <<z>>
    BY <1>1 DEF Zones
  <2>2. Root \in Parents /\ z \in 0..Bound(Root) - 1 /\ path = Append(Root, z)
    BY <2>1 DEF Parents, Bound, Root
  <2> QED  BY <2>2, PathOf
<1>2. CASE path \in Devices
  <2>1. PICK z \in 0..MaxZones - 1, d \in 0..MaxIndex - 1 : path = <<z, d>>
    BY <1>2 DEF Devices
  <2>2. <<z>> \in Parents /\ <<z>> # Root
    BY DEF Parents, Zones, Root
  <2>3. d \in 0..Bound(<<z>>) - 1 /\ path = Append(<<z>>, d)
    BY <2>1, <2>2 DEF Bound
  <2> QED  BY <2>2, <2>3, PathOf
<1> QED  BY <1>1, <1>2 DEF Paths

-----------------------------------------------------------------------------
(* The control plane *)

Orders == {ZoneOrder} \cup {DeviceOrder(z, u) : z \in Zones, u \in Units}

Calls ==
  [call: {"derive", "burn"}, parent: Parents, index: Nat,
   unit: {{}} \cup {{u} : u \in Units}]

\* The position a call is about.
Position(p) == Append(p.parent, p.index)

\* The types of what the fleet's steps use.
FleetTypes ==
  /\ persistent \in BOOLEAN
  /\ next \in [Parents -> Nat]
  /\ \A p \in Parents : next[p] <= Bound(p)
  /\ nodes \subseteq Paths
  /\ ceilings \in [Parents -> Nat]
  /\ pending \subseteq Calls
  /\ held \subseteq Zones
  /\ issued \subseteq CertSpace
  /\ ledger \in Seq(Orders)
  /\ replay \in Seq(Orders)
  /\ given \subseteq Units \X Paths
  /\ burned \subseteq Paths
  /\ clock \in 1..MaxClock
  /\ restarts \in Nat

\* Every call under way is about an index of its own that its slot is past, and
\* a call without a unit derives a zone.
CallsAreApart ==
  /\ \A p \in pending : p.index < next[p.parent]
  /\ \A p, q \in pending : p.parent = q.parent /\ p.index = q.index => p = q
  /\ \A p \in pending : p.call = "derive" /\ p.unit = {} => p.parent = Root

\* What a database keeps: positions given or retired are behind their slot's
\* mark, no call under way is about one of them, and they are all different.
Taken(path) == Last(path) < next[Front(path)]

PositionsAreKept ==
  persistent =>
    /\ \A gift \in given : Taken(gift[2])
    /\ \A path \in burned : Taken(path)
    /\ \A p \in pending : Position(p) \notin burned
    /\ \A p \in pending, gift \in given : gift[2] # Position(p)
    /\ \A gift \in given : gift[2] \notin burned
    /\ \A p, q \in given : p[2] = q[2] => p[1] = q[1]

FleetInv == FleetTypes /\ CallsAreApart /\ RecipeCoversItsNodes /\ PositionsAreKept

LEMMA OrderParts ==
  /\ \A z \in Zones, u \in Units :
       DeviceOrder(z, u).parent = z /\ DeviceOrder(z, u).unit = {u}
  /\ ZoneOrder.parent = Root /\ ZoneOrder.unit = {}
  /\ Zones \subseteq Parents /\ Root \in Parents /\ Root \notin Zones
BY DEF DeviceOrder, ZoneOrder, Parents, Zones, Root

LEMMA CertTyped ==
  ASSUME FleetTypes, NEW path \in Paths, NEW e \in Lifetimes \cup {NoExpiry}
  PROVE  CertFor(path, e) \in CertSpace
BY DEF FleetTypes, CertFor, CertSpace

LEMMA FleetStarts == BenchInit => FleetInv
<1> SUFFICES ASSUME FleetInit PROVE FleetInv
  BY DEF BenchInit
<1>1. FleetTypes
  BY FleetAssumption DEF FleetInit, FleetTypes, Parents, Bound
<1> QED  BY <1>1 DEF FleetInit, FleetInv, CallsAreApart, RecipeCoversItsNodes, PositionsAreKept

\* A call of the deriver takes the next index of its slot.
LEMMA CallBegins ==
  ASSUME FleetInv, NEW parent \in Parents, NEW call \in {"derive", "burn"},
         NEW unit \in {{}} \cup {{u} : u \in Units},
         call = "derive" /\ unit = {} => parent = Root,
         next[parent] < Bound(parent),
         next' = [next EXCEPT ![parent] = @ + 1],
         pending' = pending \cup {[call |-> call, parent |-> parent, index |-> next[parent],
                                    unit |-> unit]},
         UNCHANGED <<persistent, nodes, ceilings, given, burned>>
  PROVE  /\ next' \in [Parents -> Nat] /\ \A p \in Parents : next'[p] <= Bound(p)
         /\ pending' \subseteq Calls
         /\ CallsAreApart' /\ RecipeCoversItsNodes' /\ PositionsAreKept'
<1> DEFINE new == [call |-> call, parent |-> parent, index |-> next[parent], unit |-> unit]
<1>t. /\ next \in [Parents -> Nat] /\ \A p \in Parents : next[p] <= Bound(p)
      /\ ceilings \in [Parents -> Nat] /\ pending \subseteq Calls
      /\ nodes \subseteq Paths /\ given \subseteq Units \X Paths /\ burned \subseteq Paths
  BY DEF FleetInv, FleetTypes
<1>b. Bound(parent) \in Nat
  BY FleetAssumption DEF Bound
<1>1. /\ next' \in [Parents -> Nat]
      /\ next'[parent] = next[parent] + 1
      /\ \A p \in Parents : p # parent => next'[p] = next[p]
  BY <1>t
<1>2. \A p \in Parents : next'[p] <= Bound(p)
  BY <1>1, <1>t, <1>b
<1>3. new \in Calls
  BY <1>t DEF Calls
<1>4. \A p \in pending : /\ p.parent \in Parents /\ p.index \in Nat
                         /\ p.index < next[p.parent]
  BY <1>t DEF FleetInv, CallsAreApart, Calls
<1>5. CallsAreApart'
  <2>1. \A p \in pending' : p.index < next'[p.parent]
    BY <1>1, <1>3, <1>4, <1>t DEF Calls
  <2>2. \A p \in pending : ~ (p.parent = parent /\ p.index = next[parent])
    BY <1>4, <1>t
  <2>3. new.parent = parent /\ new.index = next[parent] /\ new.call = call /\ new.unit = unit
    OBVIOUS
  <2>4. ASSUME NEW p \in pending', NEW q \in pending', p.parent = q.parent, p.index = q.index
        PROVE  p = q
    BY <2>2, <2>3, <2>4 DEF FleetInv, CallsAreApart
  <2>5. \A p \in pending' : p.call = "derive" /\ p.unit = {} => p.parent = Root
    BY <2>3 DEF FleetInv, CallsAreApart
  <2> QED  BY <2>1, <2>4, <2>5 DEF CallsAreApart
<1>6. \A p \in Parents : next[p] <= next'[p]
  BY <1>1, <1>t
<1>7. RecipeCoversItsNodes'
  <2>1. \A p \in Parents : ceilings[p] <= next'[p]
    BY <1>1, <1>6, <1>t DEF FleetInv, RecipeCoversItsNodes
  <2> QED  BY <2>1 DEF FleetInv, RecipeCoversItsNodes
<1>8. \A path \in Paths : Taken(path) => Taken(path)'
  BY <1>1, <1>6, <1>t, PathParts DEF Taken, Bound
<1>9. \A path \in Paths : Taken(path) => path # Position(new)
  <2>1. next[parent] \in 0..Bound(parent) - 1
    BY <1>t, <1>b
  <2>2. Front(Position(new)) = parent /\ Last(Position(new)) = next[parent]
    BY <2>1, PathOf DEF Position
  <2> QED  BY <2>2, <1>t DEF Taken
<1>10. PositionsAreKept'
  <2> SUFFICES ASSUME persistent PROVE PositionsAreKept'
    BY DEF PositionsAreKept
  <2>1. /\ \A gift \in given : gift[2] \in Paths /\ Taken(gift[2])
        /\ \A path \in burned : path \in Paths /\ Taken(path)
    BY <1>t DEF FleetInv, PositionsAreKept
  <2>2. /\ \A gift \in given : Taken(gift[2])'
        /\ \A path \in burned : Taken(path)'
    BY <1>8, <2>1
  <2>3. /\ \A p \in pending' : Position(p) \notin burned
        /\ \A p \in pending', gift \in given : gift[2] # Position(p)
    BY <1>9, <2>1 DEF FleetInv, PositionsAreKept
  <2> QED  BY <2>2, <2>3 DEF FleetInv, PositionsAreKept, Position
<1> QED  BY <1>1, <1>2, <1>3, <1>5, <1>7, <1>10, <1>t

LEMMA AddZoneKeeps == FleetInv /\ AddZone => FleetInv'
<1> SUFFICES ASSUME FleetInv, AddZone PROVE FleetInv'
  OBVIOUS
<1>1. Root \in Parents /\ ZoneOrder \in Orders
  BY OrderParts DEF Orders
<1>2. /\ next' \in [Parents -> Nat] /\ \A p \in Parents : next'[p] <= Bound(p)
      /\ pending' \subseteq Calls
      /\ CallsAreApart' /\ RecipeCoversItsNodes' /\ PositionsAreKept'
  BY <1>1, CallBegins DEF AddZone, DeriveChild
<1>3. ledger' \in Seq(Orders)
  BY <1>1 DEF AddZone, FleetInv, FleetTypes
<1> QED  BY <1>2, <1>3 DEF AddZone, FleetInv, FleetTypes

LEMMA AddDeviceKeeps ==
  ASSUME FleetInv, NEW zone \in held, NEW unit \in Units, AddDevice(zone, unit)
  PROVE  FleetInv'
<1>1. zone \in Parents /\ DeviceOrder(zone, unit) \in Orders /\ {unit} # {}
  BY OrderParts DEF Orders, FleetInv, FleetTypes
<1>2. /\ next' \in [Parents -> Nat] /\ \A p \in Parents : next'[p] <= Bound(p)
      /\ pending' \subseteq Calls
      /\ CallsAreApart' /\ RecipeCoversItsNodes' /\ PositionsAreKept'
  <2>1. /\ {unit} \in {{}} \cup {{u} : u \in Units}
        /\ "derive" \in {"derive", "burn"}
        /\ "derive" = "derive" /\ {unit} = {} => zone = Root
    BY <1>1
  <2>2. DeriveChild(zone, {unit}) /\ UNCHANGED <<persistent, nodes, ceilings, given, burned>>
    BY DEF AddDevice
  <2> QED  BY <1>1, <2>1, <2>2, CallBegins DEF DeriveChild
<1>3. ledger' \in Seq(Orders)
  BY <1>1 DEF AddDevice, FleetInv, FleetTypes
<1> QED  BY <1>2, <1>3 DEF AddDevice, FleetInv, FleetTypes

LEMMA DecommissionKeeps ==
  ASSUME FleetInv, NEW zone \in held, Decommission(zone)
  PROVE  FleetInv'
<1>1. zone \in Parents
  BY OrderParts DEF FleetInv, FleetTypes
<1>2. /\ next' \in [Parents -> Nat] /\ \A p \in Parents : next'[p] <= Bound(p)
      /\ pending' \subseteq Calls
      /\ CallsAreApart' /\ RecipeCoversItsNodes' /\ PositionsAreKept'
  BY <1>1, CallBegins DEF Decommission, RotateContext, operatorVars
<1> QED  BY <1>2 DEF Decommission, operatorVars, FleetInv, FleetTypes

\* An entry of the list is derived again, or passed over without its zone.
LEMMA ReaddKeeps == FleetInv /\ Readd => FleetInv'
<1> SUFFICES ASSUME FleetInv, Readd PROVE FleetInv'
  OBVIOUS
<1> DEFINE order == Head(replay)
<1>1. order \in Orders /\ Tail(replay) \in Seq(Orders)
  BY DEF Readd, FleetInv, FleetTypes
<1>2. CASE order.parent \in held \cup {Root}
  <2>1. /\ order.parent \in Parents
        /\ order.unit \in {{}} \cup {{u} : u \in Units}
        /\ order.unit = {} => order.parent = Root
    <3>1. CASE order = ZoneOrder
      BY <3>1, OrderParts
    <3>2. CASE \E z \in Zones, u \in Units : order = DeviceOrder(z, u)
      <4>1. PICK z \in Zones, u \in Units : order = DeviceOrder(z, u)
        BY <3>2
      <4>2. order.parent = z /\ order.unit = {u} /\ {u} # {} /\ z \in Parents
        BY <4>1, OrderParts
      <4> QED  BY <4>2
    <3> QED  BY <1>1, <3>1, <3>2 DEF Orders
  <2> HIDE DEF order
  <2>2. DeriveChild(order.parent, order.unit)
    BY <1>2 DEF Readd, order
  <2>3. /\ next' \in [Parents -> Nat] /\ \A p \in Parents : next'[p] <= Bound(p)
        /\ pending' \subseteq Calls
        /\ CallsAreApart' /\ RecipeCoversItsNodes' /\ PositionsAreKept'
    BY <2>1, <2>2, CallBegins DEF Readd, DeriveChild
  <2> QED  BY <1>1, <2>3 DEF Readd, FleetInv, FleetTypes
<1>3. CASE order.parent \notin held \cup {Root}
  <2>1. UNCHANGED <<next, pending>>
    BY <1>3 DEF Readd
  <2> QED
    BY <1>1, <2>1 DEF Readd, FleetInv, FleetTypes, CallsAreApart, RecipeCoversItsNodes,
                      PositionsAreKept, Taken, Position
<1> QED  BY <1>2, <1>3

\* A call returns: its position becomes a node's, and the ceiling rises over it.
LEMMA CallReturns ==
  ASSUME FleetInv, NEW p \in pending,
         BumpCeiling(p.parent, p.index + 1),
         UNCHANGED next
  PROVE  /\ Position(p) \in Paths /\ Taken(Position(p))
         /\ p.parent = Root => Position(p) \in Zones
         /\ ceilings' \in [Parents -> Nat]
         /\ \A q \in Parents : ceilings[q] <= ceilings'[q] /\ ceilings'[q] <= next[q]
         /\ Front(Position(p)) = p.parent /\ ceilings'[p.parent] > Last(Position(p))
         /\ \A q \in pending : q # p => Position(q) # Position(p)
<1>1. /\ next \in [Parents -> Nat] /\ \A q \in Parents : next[q] <= Bound(q)
      /\ ceilings \in [Parents -> Nat]
      /\ \A q \in Parents : Bound(q) \in Nat
  BY FleetAssumption DEF FleetInv, FleetTypes, Bound
<1>2. \A q \in pending : q.parent \in Parents /\ q.index \in Nat /\ q.index < next[q.parent]
  BY DEF FleetInv, FleetTypes, CallsAreApart, Calls
<1>3. \A q \in pending : q.index \in 0..Bound(q.parent) - 1
  BY <1>1, <1>2
<1>4. \A q \in pending : /\ Position(q) \in Paths
                         /\ Front(Position(q)) = q.parent /\ Last(Position(q)) = q.index
                         /\ q.parent = Root => Position(q) \in Zones
  BY <1>2, <1>3, PathOf DEF Position
<1>5. ASSUME NEW q \in pending, Position(q) = Position(p)
      PROVE  q = p
  <2>1. q.parent = p.parent /\ q.index = p.index
    BY <1>4, <1>5
  <2> QED  BY <2>1 DEF FleetInv, CallsAreApart
<1>6. /\ ceilings' \in [Parents -> Nat]
      /\ ceilings'[p.parent] = IF p.index + 1 > ceilings[p.parent] THEN p.index + 1
                               ELSE ceilings[p.parent]
      /\ \A q \in Parents : q # p.parent => ceilings'[q] = ceilings[q]
  BY <1>1, <1>2 DEF BumpCeiling
<1>7. \A q \in Parents : ceilings[q] <= ceilings'[q] /\ ceilings'[q] <= next[q]
  BY <1>1, <1>2, <1>6 DEF FleetInv, RecipeCoversItsNodes
<1>8. ceilings'[p.parent] > p.index
  BY <1>1, <1>2, <1>6
<1>9. Position(p) \in Paths /\ Taken(Position(p)) /\ (p.parent = Root => Position(p) \in Zones)
  BY <1>2, <1>4 DEF Taken
<1>10. Front(Position(p)) = p.parent /\ ceilings'[p.parent] > Last(Position(p))
  BY <1>4, <1>8
<1>11. \A q \in pending : q # p => Position(q) # Position(p)
  BY <1>5
<1> QED  BY <1>6, <1>7, <1>9, <1>10, <1>11

LEMMA DeriveReturnsKeeps ==
  ASSUME FleetInv, NEW p \in pending, DeriveReturns(p)
  PROVE  FleetInv'
<1> DEFINE path == Position(p)
<1>1. /\ path \in Paths /\ Taken(path)
      /\ p.parent = Root => path \in Zones
      /\ ceilings' \in [Parents -> Nat]
      /\ \A q \in Parents : ceilings[q] <= ceilings'[q] /\ ceilings'[q] <= next[q]
      /\ Front(path) = p.parent /\ ceilings'[p.parent] > Last(path)
      /\ \A q \in pending : q # p => Position(q) # path
  BY CallReturns DEF DeriveReturns
<1>2. /\ p.call = "derive" /\ pending' = pending \ {p} /\ nodes' = nodes \cup {path}
      /\ held' = IF p.unit = {} THEN held \cup {path} ELSE held
      /\ issued' = IF p.unit = {} THEN issued ELSE issued \cup {CertFor(path, NoExpiry)}
      /\ given' = given \cup {<<u, path>> : u \in p.unit}
      /\ UNCHANGED <<persistent, next, ledger, replay, burned, clock, restarts>>
  BY DEF DeriveReturns, Position
<1> HIDE DEF path
<1>3. p.unit \in {{}} \cup {{u} : u \in Units} /\ (p.unit = {} => path \in Zones)
  BY <1>1, <1>2 DEF FleetInv, FleetTypes, CallsAreApart, Calls
<1>4. FleetTypes'
  <2>1. CertFor(path, NoExpiry) \in CertSpace
    BY <1>1, CertTyped DEF FleetInv
  <2>2. held' \subseteq Zones /\ issued' \subseteq CertSpace
    BY <1>2, <1>3, <2>1 DEF FleetInv, FleetTypes
  <2>3. given' \subseteq Units \X Paths
    BY <1>1, <1>2, <1>3 DEF FleetInv, FleetTypes
  <2>4. CertSpace' = CertSpace
    BY DEF CertSpace
  <2> QED  BY <1>1, <1>2, <2>2, <2>3, <2>4 DEF FleetInv, FleetTypes
<1>5. CallsAreApart'
  BY <1>2 DEF FleetInv, CallsAreApart
<1>6. RecipeCoversItsNodes'
  <2>1. \A q \in nodes : Front(q) \in Parents /\ Last(q) \in Int
    BY PathParts, FleetAssumption DEF FleetInv, FleetTypes, Bound
  <2>2. \A q \in nodes : ceilings'[Front(q)] > Last(q)
    BY <1>1, <2>1 DEF FleetInv, FleetTypes, RecipeCoversItsNodes
  <2> QED  BY <1>1, <1>2, <2>2 DEF RecipeCoversItsNodes
<1>7. PositionsAreKept'
  <2> SUFFICES ASSUME persistent PROVE PositionsAreKept'
    BY <1>2 DEF PositionsAreKept
  <2>1. /\ path \notin burned
        /\ \A gift \in given : gift[2] # path
    BY DEF FleetInv, PositionsAreKept, path
  <2>2. \A gift \in given' : gift \in given \/ (gift[1] \in p.unit /\ gift[2] = path)
    BY <1>2
  <2>3. \A u, v \in p.unit : u = v
    BY <1>3
  <2>4. \A q : Taken(q)' = Taken(q)
    BY <1>2 DEF Taken
  <2>5. \A q \in pending' : q \in pending /\ Position(q) # path
    BY <1>1, <1>2
  <2>6. \A q, r \in given' : q[2] = r[2] => q[1] = r[1]
    BY <2>1, <2>2, <2>3 DEF FleetInv, PositionsAreKept
  <2> QED  BY <1>1, <1>2, <2>1, <2>2, <2>4, <2>5, <2>6
           DEF FleetInv, PositionsAreKept, Position
<1> QED  BY <1>4, <1>5, <1>6, <1>7 DEF FleetInv

LEMMA BurnReturnsKeeps ==
  ASSUME FleetInv, NEW p \in pending, BurnReturns(p)
  PROVE  FleetInv'
<1> DEFINE path == Position(p)
<1>1. /\ path \in Paths /\ Taken(path)
      /\ ceilings' \in [Parents -> Nat]
      /\ \A q \in Parents : ceilings[q] <= ceilings'[q] /\ ceilings'[q] <= next[q]
      /\ \A q \in pending : q # p => Position(q) # path
  BY CallReturns DEF BurnReturns
<1>2. /\ pending' = pending \ {p} /\ burned' = burned \cup {path}
      /\ UNCHANGED <<persistent, next, nodes, held, issued, ledger, replay, given, clock, restarts>>
  BY DEF BurnReturns, Position
<1>3. CertSpace' = CertSpace
  BY DEF CertSpace
<1> HIDE DEF path
<1>4. FleetTypes'
  BY <1>1, <1>2, <1>3 DEF FleetInv, FleetTypes
<1>5. CallsAreApart'
  BY <1>2 DEF FleetInv, CallsAreApart
<1>6. RecipeCoversItsNodes'
  <2>1. \A q \in nodes : Front(q) \in Parents /\ Last(q) \in Int
    BY PathParts, FleetAssumption DEF FleetInv, FleetTypes, Bound
  <2>2. \A q \in nodes : ceilings'[Front(q)] > Last(q)
    BY <1>1, <2>1 DEF FleetInv, FleetTypes, RecipeCoversItsNodes
  <2> QED  BY <1>1, <1>2, <2>2 DEF RecipeCoversItsNodes
<1>7. PositionsAreKept'
  <2> SUFFICES ASSUME persistent PROVE PositionsAreKept'
    BY <1>2 DEF PositionsAreKept
  <2>1. \A gift \in given : gift[2] # path
    BY DEF FleetInv, PositionsAreKept, path
  <2>2. \A q : Taken(q)' = Taken(q)
    BY <1>2 DEF Taken
  <2>3. \A q \in pending' : q \in pending /\ Position(q) # path
    BY <1>1, <1>2
  <2> QED  BY <1>1, <1>2, <2>1, <2>2, <2>3 DEF FleetInv, PositionsAreKept, Position
<1> QED  BY <1>4, <1>5, <1>6, <1>7 DEF FleetInv

\* What a refused write, a renewal and the clock leave as it is.
LEMMA QuietStepsKeep ==
  ASSUME FleetInv,
         \/ \E p \in pending : DeriveFails(p)
         \/ \E gift \in given, e \in Lifetimes : IssueCert(gift[2], e)
         \/ PassTime
         \/ UNCHANGED fleetVars
  PROVE  FleetInv'
<1>1. CertSpace' = CertSpace
  BY DEF CertSpace
<1>2. /\ pending' \subseteq pending
      /\ issued' \subseteq CertSpace
      /\ clock' \in 1..MaxClock
      /\ UNCHANGED <<persistent, next, nodes, ceilings, held, ledger, replay, given, burned, restarts>>
  <2>1. issued \subseteq CertSpace /\ clock \in 1..MaxClock /\ MaxClock \in Nat
        /\ \A gift \in given : gift[2] \in Paths
    BY FleetAssumption DEF FleetInv, FleetTypes
  <2>2. CASE \E p \in pending : DeriveFails(p)
    BY <2>1, <2>2 DEF DeriveFails, operatorVars
  <2>3. CASE \E gift \in given, e \in Lifetimes : IssueCert(gift[2], e)
    <3>1. PICK gift \in given, e \in Lifetimes : IssueCert(gift[2], e)
      BY <2>3
    <3>2. CertFor(gift[2], e) \in CertSpace
      BY <2>1, CertTyped DEF FleetInv
    <3> QED  BY <2>1, <3>1, <3>2 DEF IssueCert, clientVars
  <2>4. CASE PassTime
    BY <2>1, <2>4 DEF PassTime, clientVars
  <2>5. CASE UNCHANGED fleetVars
    BY <2>1, <2>5 DEF fleetVars, clientVars, operatorVars
  <2> QED  BY <2>2, <2>3, <2>4, <2>5
<1>3. FleetTypes'
  BY <1>1, <1>2 DEF FleetInv, FleetTypes
<1>4. CallsAreApart' /\ RecipeCoversItsNodes'
  BY <1>2 DEF FleetInv, CallsAreApart, RecipeCoversItsNodes
<1>5. PositionsAreKept'
  BY <1>2 DEF FleetInv, PositionsAreKept, Taken, Position
<1> QED  BY <1>3, <1>4, <1>5 DEF FleetInv

LEMMA RestartKeeps == FleetInv /\ Restart => FleetInv'
<1> SUFFICES ASSUME FleetInv, Restart PROVE FleetInv'
  OBVIOUS
<1>1. CertSpace' = CertSpace
  BY DEF CertSpace
<1>2. \A p \in Parents : Bound(p) \in Nat
  BY FleetAssumption DEF Bound
<1>3. next' \in [Parents -> Nat] /\ \A p \in Parents : next'[p] <= Bound(p)
  BY <1>2 DEF Restart, ClientReopens, FleetInv, FleetTypes
<1>4. FleetTypes'
  BY <1>1, <1>3 DEF Restart, FleetInv, FleetTypes
<1>5. CallsAreApart'
  BY DEF Restart, CallsAreApart
<1>6. RecipeCoversItsNodes'
  BY <1>3 DEF Restart, RecipeCoversItsNodes
<1>7. PositionsAreKept'
  BY DEF Restart, ClientReopens, FleetInv, PositionsAreKept, Taken
<1> QED  BY <1>4, <1>5, <1>6, <1>7 DEF FleetInv

LEMMA FleetStepKeeps == FleetInv /\ [BenchNext]_fleetBenchVars => FleetInv'
<1> SUFFICES ASSUME FleetInv, [BenchNext]_fleetBenchVars PROVE FleetInv'
  OBVIOUS
<1>1. CASE FleetStep
  BY <1>1, AddZoneKeeps, AddDeviceKeeps, DecommissionKeeps, ReaddKeeps, DeriveReturnsKeeps,
     BurnReturnsKeeps, RestartKeeps, QuietStepsKeep DEF FleetStep
<1>2. CASE PassTime
  BY <1>2, QuietStepsKeep
<1>3. CASE UNCHANGED fleetVars
  BY <1>3, QuietStepsKeep
<1>4. FleetStep \/ PassTime \/ UNCHANGED fleetVars
  BY DEF BenchNext, fleetBenchVars, BroadcastStaged, RebootUnit, BenchStarts, Inject, AwaitBegins, AwaitReads, AwaitTimesOut
<1> QED  BY <1>1, <1>2, <1>3, <1>4

-----------------------------------------------------------------------------
(* The capability table *)

LEMMA FirstIsLeast ==
  ASSUME NEW S, S \subseteq Nat, S # {}
  PROVE  First(S) \in S
<1>1. PICK i \in S : \A j \in S : ~ (<<j, i>> \in OpToRel(<, Nat))
  BY WFMin, NatLessThanWellFounded, Zenon
<1>2. ASSUME NEW j \in S PROVE i <= j
  <2>1. i \in Nat /\ j \in Nat
    OBVIOUS
  <2>2. <<j, i>> \in Nat \X Nat /\ <<j, i>>[1] = j /\ <<j, i>>[2] = i
    BY <2>1
  <2>3. j < i => <<j, i>> \in OpToRel(<, Nat)
    BY <2>2 DEF OpToRel
  <2>4. ~ (j < i)
    BY <1>1, <2>3, Zenon
  <2> QED  BY <2>1, <2>4
<1> QED  BY <1>2, Zenon DEF First

\* A certificate goes to the slot of its grant, and to a slot that holds nothing
\* live when no slot has its grant.
LEMMA SlotTaken ==
  ASSUME NEW t, NEW required, NEW cert, NEW now,
         InstallCode(t, required, cert, now) = "installed"
  PROVE  LET s == SlotFor(t, cert, now) IN
         /\ s \in Slots
         /\ \/ Occupied(t, s, now) /\ SameGrant(t[s], cert)
            \/ /\ ~ Occupied(t, s, now)
               /\ \A i \in Slots : Occupied(t, i, now) => ~ SameGrant(t[i], cert)
<1>0. Slots \subseteq Nat
  BY BenchAssumption DEF Slots
<1>1. Renewable(t, cert, now) # {} \/ FreeSlots(t, now) # {}
  BY DEF InstallCode
<1>2. CASE Renewable(t, cert, now) # {}
  <2>1. First(Renewable(t, cert, now)) \in Renewable(t, cert, now)
    BY <1>0, <1>2, FirstIsLeast DEF Renewable
  <2> QED  BY <1>2, <2>1 DEF SlotFor, Renewable
<1>3. CASE Renewable(t, cert, now) = {}
  <2>1. First(FreeSlots(t, now)) \in FreeSlots(t, now)
    BY <1>0, <1>1, <1>3, FirstIsLeast DEF FreeSlots
  <2>2. \A i \in Slots : Occupied(t, i, now) => ~ SameGrant(t[i], cert)
    BY <1>3 DEF Renewable
  <2> QED  BY <1>3, <2>1, <2>2 DEF SlotFor, FreeSlots
<1> QED  BY <1>2, <1>3

\* Installing keeps what is live, but for the grant that is renewed.
LEMMA InstallKeepsLive ==
  ASSUME NEW C, NEW t \in [Slots -> C], NEW required, NEW cert, NEW now, NEW i \in Slots,
         Occupied(t, i, now)
  PROVE  LET u == Install(t, required, cert, now) IN u[i] = t[i] \/ SameGrant(u[i], t[i])
<1>1. CASE InstallCode(t, required, cert, now) # "installed"
  BY <1>1 DEF Install
<1>2. CASE InstallCode(t, required, cert, now) = "installed"
  <2> DEFINE s == SlotFor(t, cert, now)
  <2>1. /\ s \in Slots
        /\ \/ Occupied(t, s, now) /\ SameGrant(t[s], cert)
           \/ ~ Occupied(t, s, now)
    BY <1>2, SlotTaken
  <2>2. Install(t, required, cert, now) = [t EXCEPT ![s] = cert]
    BY <1>2 DEF Install
  <2> HIDE DEF s
  <2>3. CASE i = s
    BY <2>1, <2>2, <2>3 DEF SameGrant
  <2>4. CASE i # s
    BY <2>1, <2>2, <2>4
  <2> QED  BY <2>3, <2>4
<1> QED  BY <1>1, <1>2

\* Installing makes no second entry of a grant.
LEMMA InstallKeepsOne ==
  ASSUME NEW C, NEW t \in [Slots -> C], NEW required, NEW cert, NEW now,
         OneEntryPerGrant(t, now)
  PROVE  OneEntryPerGrant(Install(t, required, cert, now), now)
<1>1. CASE InstallCode(t, required, cert, now) # "installed"
  BY <1>1 DEF Install
<1>2. CASE InstallCode(t, required, cert, now) = "installed"
  <2> DEFINE s == SlotFor(t, cert, now)
             u == [t EXCEPT ![s] = cert]
  <2>1. /\ s \in Slots
        /\ \/ Occupied(t, s, now) /\ SameGrant(t[s], cert)
           \/ \A i \in Slots : Occupied(t, i, now) => ~ SameGrant(t[i], cert)
    BY <1>2, SlotTaken
  <2>2. Install(t, required, cert, now) = u
    BY <1>2 DEF Install
  <2> HIDE DEF s
  <2>3. u[s] = cert /\ \A i \in Slots : i # s => u[i] = t[i]
    BY <2>1
  <2> HIDE DEF u
  <2>4. ASSUME NEW i \in Slots, NEW j \in Slots, Occupied(u, i, now), Occupied(u, j, now),
               SameGrant(u[i], u[j])
        PROVE  i = j
    <3>1. ASSUME NEW k \in Slots, k # s, Occupied(u, k, now), SameGrant(u[k], cert)
          PROVE  FALSE
      <4>1. Occupied(t, k, now) /\ SameGrant(t[k], cert)
        BY <2>3, <3>1 DEF Occupied
      <4>2. Occupied(t, s, now) /\ SameGrant(t[k], t[s])
        BY <2>1, <4>1 DEF SameGrant
      <4> QED  BY <2>1, <3>1, <4>1, <4>2 DEF OneEntryPerGrant
    <3>2. CASE i = s
      BY <2>3, <2>4, <3>1, <3>2 DEF SameGrant
    <3>3. CASE j = s
      BY <2>3, <2>4, <3>1, <3>3
    <3>4. CASE i # s /\ j # s
      BY <2>3, <2>4, <3>4 DEF OneEntryPerGrant, Occupied
    <3> QED  BY <3>2, <3>3, <3>4
  <2> QED  BY <2>2, <2>4 DEF OneEntryPerGrant
<1> QED  BY <1>1, <1>2

-----------------------------------------------------------------------------
(* The board and the script *)

Places == {"idle", "inject", "await", "wait", "done"}
Keys == {"operator", "broken", "demo"}
Codes == {"installed", "refused", "failed", "invalid"}

Certs == CertSpace \cup {Free}
CellSpace == [cert: Certs, sig: Keys \cup {"none"}]
LineSpace == [said: Codes, of: Paths]

ScriptSpace ==
  [at: Places, step: 0..3, cert: Certs, staged: CellSpace, lines: Seq(LineSpace),
   from: Nat, failures: 0..3]

ScriptTypes == bench \in ScriptSpace /\ table \in [Slots -> Certs]

\* While it runs, the script is at one of three steps and has a certificate, and
\* failed at most once in each step before.
StepUnderWay ==
  bench.at \in {"inject", "await", "wait"} =>
    bench.step \in 1..3 /\ bench.failures < bench.step /\ bench.cert \in CertSpace

\* The injecting board holds nothing but the cell of the step.
StagedIsTheStep ==
  bench.staged # NothingStaged =>
    /\ bench.at \in {"await", "wait"}
    /\ bench.staged = [cert |-> bench.cert, sig |-> Signatures[bench.step]]

\* What is read in a step is said of its cell.
LinesAreOfTheStep ==
  bench.at = "wait" =>
    /\ bench.staged # NothingStaged => Len(bench.lines) = bench.from
    /\ \A i \in 1..Len(bench.lines) :
         i > bench.from =>
           (bench.lines[i].said = "invalid" <=> Signatures[bench.step] \notin anchor)

Firmwares == {{"operator"}, {"operator", "demo"}, {"operator", "broken", "demo"}}

BoardInv ==
  /\ anchor \in Firmwares
  /\ ScriptTypes /\ StepUnderWay /\ StagedIsTheStep /\ LinesAreOfTheStep
  /\ GrantsAreDistinct /\ CleanRunMeansAnchored

BenchInv == FleetInv /\ BoardInv

LEMMA IdleIsTyped == BenchIdle \in ScriptSpace
<1>1. NothingStaged \in CellSpace /\ Free \in Certs
  BY DEF NothingStaged, CellSpace, Certs
<1>2. << >> \in Seq(LineSpace)
  OBVIOUS
<1> QED  BY <1>1, <1>2 DEF BenchIdle, ScriptSpace, Places

LEMMA BenchStartsWell == BenchInit => BoardInv
<1> SUFFICES ASSUME BenchInit PROVE BoardInv
  OBVIOUS
<1>1. anchor \in Firmwares /\ bench = BenchIdle /\ table = EmptyTable
  BY DEF BenchInit, Firmwares
<1>2. ScriptTypes
  BY <1>1, IdleIsTyped DEF ScriptTypes, EmptyTable, Certs
<1>3. StepUnderWay /\ StagedIsTheStep /\ LinesAreOfTheStep /\ CleanRunMeansAnchored
  BY <1>1 DEF StepUnderWay, StagedIsTheStep, LinesAreOfTheStep, CleanRunMeansAnchored, BenchIdle
<1>4. GrantsAreDistinct
  BY <1>1 DEF GrantsAreDistinct, OneEntryPerGrant, Occupied, EmptyTable
<1> QED  BY <1>1, <1>2, <1>3, <1>4 DEF BoardInv

\* The clock only frees slots.
LEMMA TimeFreesSlots ==
  ASSUME NEW t \in [Slots -> Certs], NEW i \in Slots,
         NEW now \in Int, NEW later \in Int, now <= later, Occupied(t, i, later)
  PROVE  Occupied(t, i, now)
<1>1. t[i] \in CertSpace
  BY DEF Occupied, Certs
<1>2. t[i].expiry = NoExpiry \/ t[i].expiry \in Nat
  BY <1>1, FleetAssumption DEF CertSpace
<1> QED  BY <1>2 DEF Occupied, Expired

LEMMA ClocksRunAlike ==
  ASSUME BootClock \in Int, NEW now \in Int, NEW later \in Int, now <= later
  PROVE  now + BootClock <= later + BootClock
OBVIOUS

\* The fleet's steps and the clock leave the board and the script alone.
LEMMA ClockKeepsBoard ==
  ASSUME FleetInv, BoardInv, clock' \in Int, clock <= clock', UNCHANGED <<boardVars, benchVars>>
  PROVE  BoardInv'
<1>0. anchor' = anchor /\ table' = table /\ bench' = bench
  BY DEF boardVars, benchVars
<1>1. CertSpace' = CertSpace /\ Keys' = Keys
  BY DEF CertSpace, Keys
<1>2. GrantsAreDistinct'
  <2>1. clock \in Int /\ BootClock \in Int
    BY FleetAssumption, BenchAssumption DEF FleetInv, FleetTypes
  <2>a. BoardNow = clock + BootClock /\ BoardNow' = clock' + BootClock
    BY DEF BoardNow
  <2>b. clock' \in Int /\ clock <= clock'
    OBVIOUS
  <2>c. /\ clock + BootClock \in Int /\ clock' + BootClock \in Int
        /\ clock + BootClock <= clock' + BootClock
    <3>1. clock + BootClock \in Int /\ clock' + BootClock \in Int
      BY <2>1, <2>b
    <3>2. clock + BootClock <= clock' + BootClock
      BY <2>1, <2>b, ClocksRunAlike, Zenon
    <3> QED  BY <3>1, <3>2, Zenon
  <2>2. BoardNow \in Int /\ BoardNow' \in Int /\ BoardNow <= BoardNow'
    BY <2>a, <2>c, Zenon
  <2>3. table \in [Slots -> Certs]
    BY DEF BoardInv, ScriptTypes
  <2>4. \A i \in Slots : Occupied(table, i, BoardNow') => Occupied(table, i, BoardNow)
    BY <2>2, <2>3, TimeFreesSlots
  <2> QED  BY <1>0, <2>4 DEF BoardInv, GrantsAreDistinct, OneEntryPerGrant
<1>3. ScriptTypes'
  BY <1>0, <1>1 DEF BoardInv, ScriptTypes
<1> QED  BY <1>0, <1>1, <1>2, <1>3
         DEF BoardInv, StepUnderWay, StagedIsTheStep, LinesAreOfTheStep, CleanRunMeansAnchored

LEMMA BroadcastKeeps ==
  ASSUME BoardInv, BroadcastStaged
  PROVE  BoardInv'
<1> DEFINE cell == bench.staged
           line == [said |-> Verdict(cell), of |-> cell.cert.edge]
<1>t. /\ bench \in ScriptSpace
      /\ table \in [Slots -> Certs]
  BY DEF BoardInv, ScriptTypes
<1>1. /\ cell # NothingStaged
      /\ bench.at \in {"await", "wait"}
      /\ cell = [cert |-> bench.cert, sig |-> Signatures[bench.step]]
      /\ bench.step \in 1..3 /\ bench.cert \in CertSpace
  BY DEF BroadcastStaged, BoardInv, StagedIsTheStep, StepUnderWay
<1>2. /\ anchor' = anchor /\ UNCHANGED fleetVars
      /\ bench'.staged = NothingStaged
      /\ bench' \in {[bench EXCEPT !.staged = NothingStaged],
                     [bench EXCEPT !.staged = NothingStaged, !.lines = Append(@, line)]}
  <2>1. \/ bench' = [bench EXCEPT !.staged = NothingStaged]
        \/ bench' = [bench EXCEPT !.staged = NothingStaged, !.lines = Append(@, line)]
    BY DEF BroadcastStaged
  <2>2. bench'.staged = NothingStaged
    BY <1>t, <2>1 DEF ScriptSpace
  <2> QED  BY <2>1, <2>2 DEF BroadcastStaged
<1>3. CertSpace' = CertSpace /\ BoardNow' = BoardNow
  BY <1>2 DEF CertSpace, BoardNow, fleetVars, operatorVars
<1>4. line \in LineSpace
  <2>1. Verdict(cell) \in Codes
    BY DEF Verdict, InstallCode, Codes
  <2>2. cell.cert.edge \in Paths
    BY <1>1 DEF CertSpace
  <2> QED  BY <2>1, <2>2 DEF LineSpace
<1>5. line.said = "invalid" <=> Signatures[bench.step] \notin anchor
  BY <1>1 DEF Verdict, InstallCode
<1>6. /\ table' \in {table, Install(table, DeviceDomain, bench.cert, BoardNow)}
  BY <1>1 DEF BroadcastStaged
<1> HIDE DEF line, cell
<1>7. ScriptTypes'
  <2>1. NothingStaged \in CellSpace /\ Append(bench.lines, line) \in Seq(LineSpace)
    BY <1>t, <1>4 DEF ScriptSpace, NothingStaged, CellSpace, Certs
  <2>2. bench' \in ScriptSpace
    BY <1>t, <1>2, <2>1 DEF ScriptSpace
  <2>3. table' \in [Slots -> Certs]
    <3>1. CASE table' = table
      BY <1>t, <3>1
    <3>2. CASE table' = Install(table, DeviceDomain, bench.cert, BoardNow)
      <4> DEFINE slot == SlotFor(table, bench.cert, BoardNow)
      <4>1. table' = table \/ table' = [table EXCEPT ![slot] = bench.cert]
        BY <3>2 DEF Install
      <4> HIDE DEF slot
      <4> QED  BY <1>t, <1>1, <4>1 DEF Certs
    <3> QED  BY <1>6, <3>1, <3>2
  <2> QED  BY <1>3, <2>2, <2>3 DEF ScriptTypes
<1>8. /\ bench'.at = bench.at /\ bench'.step = bench.step /\ bench'.cert = bench.cert
      /\ bench'.from = bench.from /\ bench'.failures = bench.failures
      /\ bench'.lines \in {bench.lines, Append(bench.lines, line)}
  BY <1>t, <1>2 DEF ScriptSpace
<1>9. StepUnderWay' /\ CleanRunMeansAnchored'
  BY <1>2, <1>3, <1>8 DEF BoardInv, StepUnderWay, CleanRunMeansAnchored
<1>10. StagedIsTheStep'
  BY <1>2 DEF StagedIsTheStep, NothingStaged
<1>11. LinesAreOfTheStep'
  <2> SUFFICES ASSUME bench.at = "wait", NEW i \in 1..Len(bench'.lines), i > bench.from
               PROVE  bench'.lines[i].said = "invalid" <=> Signatures[bench.step] \notin anchor
    BY <1>2, <1>8 DEF LinesAreOfTheStep, NothingStaged
  <2>1. Len(bench.lines) = bench.from /\ bench.from \in Nat
    BY <1>t, <1>1 DEF BoardInv, LinesAreOfTheStep, cell
  <2>2. bench'.lines = Append(bench.lines, line)
    BY <1>8, <2>1
  <2>3. i = bench.from + 1 /\ bench'.lines[i] = line
    BY <1>t, <2>1, <2>2
  <2> QED  BY <1>5, <2>3
<1>12. GrantsAreDistinct'
  <2>1. OneEntryPerGrant(table, BoardNow)
    BY DEF BoardInv, GrantsAreDistinct
  <2>2. OneEntryPerGrant(Install(table, DeviceDomain, bench.cert, BoardNow), BoardNow)
    BY <1>t, <2>1, InstallKeepsOne
  <2>3. OneEntryPerGrant(table', BoardNow)
    BY <1>6, <2>1, <2>2
  <2> QED  BY <1>3, <2>3 DEF GrantsAreDistinct
<1> QED  BY <1>2, <1>7, <1>9, <1>10, <1>11, <1>12 DEF BoardInv

LEMMA RebootKeeps ==
  ASSUME BoardInv, RebootUnit
  PROVE  BoardInv'
<1>1. /\ anchor' = anchor /\ bench' = bench /\ table' = EmptyTable /\ UNCHANGED fleetVars
  BY DEF RebootUnit, benchVars
<1>2. CertSpace' = CertSpace
  BY DEF CertSpace
<1>3. ScriptTypes'
  BY <1>1, <1>2 DEF BoardInv, ScriptTypes, EmptyTable, Certs
<1>4. GrantsAreDistinct'
  BY <1>1 DEF GrantsAreDistinct, OneEntryPerGrant, Occupied, EmptyTable
<1> QED  BY <1>1, <1>2, <1>3, <1>4
         DEF BoardInv, StepUnderWay, StagedIsTheStep, LinesAreOfTheStep, CleanRunMeansAnchored

\* Steps of the script leave the board's table and the clock alone.
LEMMA ScriptKeepsTable ==
  ASSUME BoardInv, UNCHANGED <<fleetVars, boardVars>>
  PROVE  /\ anchor' = anchor /\ anchor \in Firmwares /\ CertSpace' = CertSpace
         /\ table' \in [Slots -> Certs]
         /\ GrantsAreDistinct'
<1>1. anchor' = anchor /\ table' = table /\ clock' = clock
  BY DEF fleetVars, operatorVars, boardVars
<1> QED  BY <1>1 DEF BoardInv, ScriptTypes, GrantsAreDistinct, BoardNow, CertSpace

LEMMA BenchStartsKeeps ==
  ASSUME FleetInv, BoardInv, NEW cert \in issued, BenchStarts(cert)
  PROVE  BoardInv'
<1>1. /\ anchor' = anchor /\ anchor \in Firmwares /\ CertSpace' = CertSpace
      /\ table' \in [Slots -> Certs]
      /\ GrantsAreDistinct'
  BY ScriptKeepsTable DEF BenchStarts
<1>2. bench' = [BenchIdle EXCEPT !.at = "inject", !.step = 1, !.cert = cert] /\ cert \in CertSpace
  BY DEF BenchStarts, FleetInv, FleetTypes
<1>3. ScriptTypes'
  <2>1. BenchIdle \in ScriptSpace /\ cert \in Certs
    BY <1>2, IdleIsTyped DEF Certs
  <2>2. bench' = [at |-> "inject", step |-> 1, cert |-> cert, staged |-> NothingStaged,
                  lines |-> << >>, from |-> 0, failures |-> 0]
    BY <1>2 DEF BenchIdle
  <2>3. NothingStaged \in CellSpace /\ << >> \in Seq(LineSpace)
    BY <2>1 DEF BenchIdle, ScriptSpace
  <2>4. bench' \in ScriptSpace
    BY <2>1, <2>2, <2>3 DEF ScriptSpace, Places
  <2> QED  BY <1>1, <2>4 DEF ScriptTypes
<1> QED  BY <1>1, <1>2, <1>3
         DEF BoardInv, StepUnderWay, StagedIsTheStep, LinesAreOfTheStep, CleanRunMeansAnchored, BenchIdle

LEMMA InjectKeeps ==
  ASSUME BoardInv, Inject
  PROVE  BoardInv'
<1> DEFINE cell == [cert |-> bench.cert, sig |-> Signatures[bench.step]]
<1>1. /\ anchor' = anchor /\ anchor \in Firmwares /\ CertSpace' = CertSpace
      /\ table' \in [Slots -> Certs]
      /\ GrantsAreDistinct'
  BY ScriptKeepsTable DEF Inject
<1>2. bench.step \in 1..3 /\ bench.cert \in CertSpace /\ bench.failures < bench.step
  BY DEF Inject, BoardInv, StepUnderWay
<1>3. bench' = [bench EXCEPT !.at = "await", !.staged = cell]
  BY DEF Inject
<1>4. cell \in CellSpace
  BY <1>2 DEF Signatures, Keys, CellSpace, Certs
<1> HIDE DEF cell
<1>5. ScriptTypes'
  <2>1. bench \in ScriptSpace
    BY DEF BoardInv, ScriptTypes
  <2>2. bench' \in ScriptSpace
    BY <1>3, <1>4, <2>1 DEF ScriptSpace, Places
  <2> QED  BY <1>1, <2>2 DEF ScriptTypes
<1>6. /\ bench'.at = "await" /\ bench'.staged = cell
      /\ bench'.cert = bench.cert /\ bench'.step = bench.step /\ bench'.failures = bench.failures
  BY <1>3 DEF BoardInv, ScriptTypes, ScriptSpace
<1>7. StepUnderWay' /\ LinesAreOfTheStep' /\ CleanRunMeansAnchored'
  BY <1>1, <1>2, <1>6 DEF StepUnderWay, LinesAreOfTheStep, CleanRunMeansAnchored
<1>8. StagedIsTheStep'
  BY <1>6 DEF StagedIsTheStep, cell
<1> QED  BY <1>1, <1>5, <1>7, <1>8 DEF BoardInv

LEMMA AwaitBeginsKeeps ==
  ASSUME BoardInv, AwaitBegins
  PROVE  BoardInv'
<1>1. /\ anchor' = anchor /\ anchor \in Firmwares /\ CertSpace' = CertSpace
      /\ table' \in [Slots -> Certs]
      /\ GrantsAreDistinct'
  BY ScriptKeepsTable DEF AwaitBegins
<1>2. bench' = [bench EXCEPT !.at = "wait", !.from = Len(bench.lines)]
  BY DEF AwaitBegins, ReadFrom
<1>3. Len(bench.lines) \in Nat
  BY DEF BoardInv, ScriptTypes, ScriptSpace
<1>4. ScriptTypes'
  <2>1. bench \in ScriptSpace
    BY DEF BoardInv, ScriptTypes
  <2>2. bench' \in ScriptSpace
    BY <1>2, <1>3, <2>1 DEF ScriptSpace, Places
  <2> QED  BY <1>1, <2>2 DEF ScriptTypes
<1>5. /\ bench'.at = "wait" /\ bench'.from = Len(bench.lines) /\ bench'.lines = bench.lines
      /\ bench'.staged = bench.staged /\ bench'.cert = bench.cert /\ bench'.step = bench.step
      /\ bench'.failures = bench.failures
  BY <1>2 DEF BoardInv, ScriptTypes, ScriptSpace
<1>6. StepUnderWay' /\ StagedIsTheStep' /\ CleanRunMeansAnchored'
  BY <1>1, <1>5 DEF AwaitBegins, BoardInv, StepUnderWay, StagedIsTheStep, CleanRunMeansAnchored, NothingStaged
<1>7. LinesAreOfTheStep'
  BY <1>3, <1>5 DEF LinesAreOfTheStep
<1> QED  BY <1>1, <1>4, <1>6, <1>7 DEF BoardInv

\* The verdict of a step: a third one that is good means the anchor.
LEMMA ScoresKeeps ==
  ASSUME BoardInv, bench.at = "wait", bench.staged = NothingStaged,
         NEW good \in BOOLEAN, Scores(good), UNCHANGED <<fleetVars, boardVars>>,
         bench.step = 3 /\ good => anchor = {"operator"}
  PROVE  BoardInv'
<1> DEFINE failures == bench.failures + IF good THEN 0 ELSE 1
<1>1. /\ anchor' = anchor /\ anchor \in Firmwares /\ CertSpace' = CertSpace
      /\ table' \in [Slots -> Certs]
      /\ GrantsAreDistinct'
  BY ScriptKeepsTable
<1>2. /\ bench.step \in 1..3 /\ bench.failures < bench.step /\ bench.cert \in CertSpace
      /\ bench.failures \in 0..3
  BY DEF BoardInv, StepUnderWay, ScriptTypes, ScriptSpace
<1>3. failures \in 0..bench.step /\ (failures = 0 => good)
  BY <1>2
<1>4. bench' = IF bench.step = 3 THEN [BenchIdle EXCEPT !.at = "done", !.failures = failures]
               ELSE [bench EXCEPT !.at = "inject", !.step = @ + 1, !.failures = failures]
  BY DEF Scores
<1> HIDE DEF failures
<1>5. CASE bench.step = 3
  <2>1. bench' = [BenchIdle EXCEPT !.at = "done", !.failures = failures]
    BY <1>4, <1>5
  <2>2. ScriptTypes'
    <3>1. failures \in 0..3
      BY <1>3, <1>5
    <3>2. bench' \in ScriptSpace
      BY <2>1, <3>1, IdleIsTyped DEF ScriptSpace, Places
    <3> QED  BY <1>1, <3>2 DEF ScriptTypes
  <2>3. bench'.at = "done" /\ bench'.staged = NothingStaged /\ bench'.failures = failures
    BY <2>1 DEF BenchIdle
  <2>4. StepUnderWay' /\ StagedIsTheStep' /\ LinesAreOfTheStep' /\ CleanRunMeansAnchored'
    BY <1>1, <1>3, <1>5, <2>3
       DEF StepUnderWay, StagedIsTheStep, LinesAreOfTheStep, CleanRunMeansAnchored, NothingStaged
  <2> QED  BY <1>1, <2>2, <2>4 DEF BoardInv
<1>6. CASE bench.step # 3
  <2>1. bench' = [bench EXCEPT !.at = "inject", !.step = @ + 1, !.failures = failures]
    BY <1>4, <1>6
  <2>2. bench.step + 1 \in 1..3 /\ failures \in 0..3 /\ failures < bench.step + 1
    BY <1>2, <1>3, <1>6
  <2>3. ScriptTypes'
    <3>1. bench \in ScriptSpace
      BY DEF BoardInv, ScriptTypes
    <3>2. bench.step + 1 \in 0..3
      BY <2>2
    <3>3. bench' \in ScriptSpace
      BY <2>1, <2>2, <3>1, <3>2 DEF ScriptSpace, Places
    <3> QED  BY <1>1, <3>3 DEF ScriptTypes
  <2>4. /\ bench'.at = "inject" /\ bench'.step = bench.step + 1 /\ bench'.failures = failures
        /\ bench'.cert = bench.cert /\ bench'.staged = NothingStaged
    BY <2>1 DEF BoardInv, ScriptTypes, ScriptSpace
  <2>5. StepUnderWay' /\ StagedIsTheStep' /\ LinesAreOfTheStep' /\ CleanRunMeansAnchored'
    BY <1>1, <1>2, <2>2, <2>4
       DEF StepUnderWay, StagedIsTheStep, LinesAreOfTheStep, CleanRunMeansAnchored, NothingStaged
  <2> QED  BY <1>1, <2>3, <2>5 DEF BoardInv
<1> QED  BY <1>5, <1>6

LEMMA AwaitReadsKeeps ==
  ASSUME BoardInv, AwaitReads
  PROVE  BoardInv'
<1>t. bench.lines \in Seq(LineSpace) /\ bench.from \in Nat
  BY DEF BoardInv, ScriptTypes, ScriptSpace
<1>1. First(Needles) \in Needles
  <2>1. DOMAIN bench.lines \subseteq Nat
    BY <1>t
  <2>2. Needles \subseteq DOMAIN bench.lines
    BY DEF Needles
  <2>3. Needles # {}
    BY DEF AwaitReads
  <2>4. Needles \subseteq Nat /\ Needles # {}
    BY <2>1, <2>2, <2>3
  <2> QED  BY <2>4, FirstIsLeast
<1> DEFINE i == First(Needles)
           good == /\ bench.lines[i].said = Required[bench.step]
                   /\ bench.step = 1 => bench.lines[i].of = bench.cert.edge
<1>2. i \in 1..Len(bench.lines) /\ i > bench.from
  <2>1. i \in DOMAIN bench.lines /\ i > bench.from
    BY <1>1 DEF Needles
  <2> QED  BY <1>t, <2>1
<1>3. bench.at = "wait" /\ Scores(good) /\ UNCHANGED <<fleetVars, boardVars>>
  BY DEF AwaitReads
<1> HIDE DEF i
<1>4. bench.staged = NothingStaged
  BY <1>t, <1>2, <1>3 DEF BoardInv, LinesAreOfTheStep
<1>5. bench.step = 3 /\ good => anchor = {"operator"}
  BY <1>2, <1>3 DEF BoardInv, LinesAreOfTheStep, Firmwares, Signatures, Required
<1>6. good \in BOOLEAN
  OBVIOUS
<1> HIDE DEF good
<1> QED  BY <1>3, <1>4, <1>5, <1>6, ScoresKeeps

LEMMA BoardStepKeeps == FleetInv /\ BoardInv /\ [BenchNext]_fleetBenchVars => BoardInv'
<1> SUFFICES ASSUME FleetInv, BoardInv, [BenchNext]_fleetBenchVars PROVE BoardInv'
  OBVIOUS
<1>0. clock \in Nat
  BY FleetAssumption DEF FleetInv, FleetTypes
<1>1. CASE /\ FleetStep \/ PassTime \/ UNCHANGED fleetBenchVars
           /\ UNCHANGED <<boardVars, benchVars>>
  <2>a. PassTime => clock' \in Int /\ clock <= clock'
    BY <1>0 DEF PassTime
  <2>b. FleetStep => clock' = clock
    BY DEF FleetStep, operatorVars, AddZone, AddDevice, Decommission, IssueCert,
       DeriveReturns, DeriveFails, BurnReturns, Restart, Readd
  <2>c. UNCHANGED fleetBenchVars => clock' = clock
    BY DEF fleetBenchVars, fleetVars, operatorVars
  <2>1. clock' \in Int /\ clock <= clock'
    BY <1>0, <1>1, <2>a, <2>b, <2>c
  <2> QED  BY <1>1, <2>1, ClockKeepsBoard
<1>2. CASE AwaitTimesOut
  <2>1. bench.at = "wait" /\ bench.staged = NothingStaged /\ Scores(FALSE)
        /\ UNCHANGED <<fleetVars, boardVars>>
    BY <1>2 DEF AwaitTimesOut
  <2> QED  BY <2>1, ScoresKeeps
<1>3. CASE \E cert \in issued : BenchStarts(cert)
  BY <1>3, BenchStartsKeeps
<1> QED  BY <1>1, <1>2, <1>3, BroadcastKeeps, RebootKeeps, InjectKeeps, AwaitBeginsKeeps, AwaitReadsKeeps
         DEF BenchNext, fleetBenchVars

-----------------------------------------------------------------------------
(* The theorems *)

\* The invariant of the control plane, the watched board and the script holds in
\* every state: the actions of fleet.ts, plexus-deriver.ts, hardware.ts and the
\* board's handler of a capability cell preserve it.
THEOREM BenchInvariant == BenchSpec => []BenchInv
<1>1. BenchInit => BenchInv
  BY FleetStarts, BenchStartsWell DEF BenchInv
<1>2. BenchInv /\ [BenchNext]_fleetBenchVars => BenchInv'
  BY FleetStepKeeps, BoardStepKeeps DEF BenchInv
<1> QED  BY <1>1, <1>2, PTL DEF BenchSpec

\* The state of the control plane and of the board is of its types.
THEOREM BenchTypeCorrect == BenchSpec => []BenchTypeOK
<1>1. BenchInv => BenchTypeOK
  <2> SUFFICES ASSUME BenchInv PROVE BenchTypeOK
    OBVIOUS
  <2>1. FleetTypes /\ RecipeCoversItsNodes /\ ScriptTypes
    BY DEF BenchInv, FleetInv, BoardInv
  <2>2. ASSUME NEW p \in Parents
        PROVE  next[p] \in 0..Bound(p) /\ ceilings[p] \in 0..Bound(p)
    <3>1. next[p] \in Nat /\ next[p] <= Bound(p) /\ ceilings[p] \in Nat
      BY <2>1 DEF FleetTypes
    <3>2. ceilings[p] <= next[p]
      BY <2>1 DEF RecipeCoversItsNodes
    <3>3. Bound(p) \in Nat
      BY FleetAssumption DEF Bound
    <3> QED  BY <3>1, <3>2, <3>3
  <2>3. table \in [Slots -> CertSpace \cup {Free}] /\ bench.failures \in 0..3
    BY <2>1 DEF ScriptTypes, ScriptSpace, Certs
  <2> QED  BY <2>1, <2>2, <2>3 DEF FleetTypes, BenchTypeOK
<1> QED  BY <1>1, BenchInvariant, PTL

\* No two units are flashed for one position while the SDK keeps a database: an
\* index leaves deriveChild once, and what was given lies behind its slot's mark.
THEOREM UnitsHaveOnePosition == BenchSpec => []OneUnitPerPosition
<1>1. BenchInv => OneUnitPerPosition
  BY DEF BenchInv, FleetInv, PositionsAreKept, OneUnitPerPosition
<1> QED  BY <1>1, BenchInvariant, PTL

\* A position that decommission burned goes to no unit, in this session or in a
\* later one over the same database.
THEOREM RetiredStaysRetired == BenchSpec => []BurnedStaysBurned
<1>1. BenchInv => BurnedStaysBurned
  BY DEF BenchInv, FleetInv, PositionsAreKept, BurnedStaysBurned
<1> QED  BY <1>1, BenchInvariant, PTL

\* The recipe of plexus-deriver.ts lists no node at or above its slot's ceiling,
\* and no ceiling above the SDK's next index, in whichever order answers arrive.
THEOREM RecipeIsUsable == BenchSpec => []RecipeCoversItsNodes
<1>1. BenchInv => RecipeCoversItsNodes
  BY DEF BenchInv, FleetInv
<1> QED  BY <1>1, BenchInvariant, PTL

\* A run of hardware.ts without a failed step was against a board that verifies
\* with the operator's key alone.
THEOREM CleanRunIsAnchored == BenchSpec => []CleanRunMeansAnchored
<1>1. BenchInv => CleanRunMeansAnchored
  BY DEF BenchInv, BoardInv
<1> QED  BY <1>1, BenchInvariant, PTL

\* cm_cap_install never leaves two live entries of one channel and domain.
THEOREM GrantsStayDistinct == BenchSpec => []GrantsAreDistinct
<1>1. BenchInv => GrantsAreDistinct
  BY DEF BenchInv, BoardInv
<1> QED  BY <1>1, BenchInvariant, PTL

\* cm_cap_install replaces a live entry by a renewal of the same grant and by
\* nothing else; only a reboot empties the table.
THEOREM LiveGrantsAreKept == BenchSpec => LiveGrantsStay
<1> DEFINE Kept == \/ table' = EmptyTable
                   \/ \A i \in Slots :
                        Occupied(table, i, BoardNow) =>
                          table'[i] = table[i] \/ SameGrant(table'[i], table[i])
<1>1. ASSUME BenchInv, [BenchNext]_fleetBenchVars PROVE Kept
  <2>1. table \in [Slots -> Certs]
    BY <1>1 DEF BenchInv, BoardInv, ScriptTypes
  <2>2. CASE BroadcastStaged
    <3>1. \/ table' = table
          \/ table' = Install(table, DeviceDomain, bench.staged.cert, BoardNow)
      BY <2>2 DEF BroadcastStaged
    <3>2. ASSUME NEW i \in Slots, Occupied(table, i, BoardNow),
                 table' = Install(table, DeviceDomain, bench.staged.cert, BoardNow)
          PROVE  table'[i] = table[i] \/ SameGrant(table'[i], table[i])
      BY <2>1, <3>2, InstallKeepsLive
    <3> QED  BY <3>1, <3>2
  <2>3. CASE RebootUnit
    BY <2>3 DEF RebootUnit
  <2>4. CASE UNCHANGED table
    BY <2>4
  <2>5. BroadcastStaged \/ RebootUnit \/ UNCHANGED table
    BY <1>1 DEF BenchNext, fleetBenchVars, boardVars, BenchStarts, Inject, AwaitBegins, AwaitReads, AwaitTimesOut
  <2> QED  BY <2>2, <2>3, <2>4, <2>5
<1>2. BenchInv /\ [BenchNext]_fleetBenchVars => [Kept]_<<table>>
  BY <1>1
<1> QED  BY <1>2, BenchInvariant, PTL DEF BenchSpec, LiveGrantsStay

-----------------------------------------------------------------------------
(* Forwards: the inductive invariant *)

Boards == {Origin} \cup Relays
Dues == {PartsOf(v) : v \in Versions} \cup {<<>>, <<"B">>}
FlowSpace == [version : Versions, seq : 0..MaxFlows, due : Dues]
BoxSpace == [full : BOOLEAN, of : 0..MaxFlows]
PairSpace == [aSent : BOOLEAN, left : 0..CellBSends]
Cleared == [at : {"cleared"}, box : Versions]
Begun == [at : {"begun"}, box : Versions, part : ForwardParts]
Half == [at : {"half"}, box : Versions, part : ForwardParts, head : Flows]
Sent == [at : {"sent"}, box : Versions \cap {"v2"}, part : {"A", "B"}, result : {"ok", "full", "failed"}]
DrainSpace == {Idle} \cup Cleared \cup Begun \cup Half \cup Sent

RelayTyped ==
  /\ calm \in BOOLEAN
  /\ near \subseteq Relays
  /\ flows \in Seq(FlowSpace) /\ Len(flows) <= MaxFlows
  /\ links \in [Boards \X Relays -> Seq(Cells)]
  /\ burst \in [Relays -> {NoBurst} \cup {<<c>> : c \in Cells}]
  /\ chanSeq \in [Relays -> 0..MaxFlows]
  /\ mail \in [Relays -> [Versions -> BoxSpace]]
  /\ pair \in [Relays -> PairSpace]
  /\ drain \in [Relays -> DrainSpace]
  /\ admitted \in [Relays -> [Flows -> 0..2]]

\* Of the flows fl and the admissions adm: board b has part p of flow f rightly.  It
\* begins flows, or it admitted this one.
OwnedIn(fl, adm, b, f, p) ==
  /\ f \in DOMAIN fl
  /\ b \in Relays => adm[b][f] > 0
  /\ p = "v0" => fl[f].version = "v0"

Owned(b, f, p) == OwnedIn(flows, admitted, b, f, p)
OwnedNext(b, f, p) == OwnedIn(flows', admitted', b, f, p)
CellOwnedNext(b, c) == OwnedNext(b, c.head, c.part) /\ OwnedNext(b, c.tail, c.part)

\* What is still to be injected is of the flow's version.
DuesAreTheFlows ==
  \A f \in DOMAIN flows : flows[f].due # <<>> =>
    (Head(flows[f].due) = "v0" => flows[f].version = "v0")

\* On the air, in a mailbox and under the hands of the main loop there is only what a
\* board has rightly.
LinksAreOwned ==
  \A b \in Boards, r \in Relays : \A i \in DOMAIN links[<<b, r>>] :
    /\ Owned(b, links[<<b, r>>][i].head, links[<<b, r>>][i].part)
    /\ Owned(b, links[<<b, r>>][i].tail, links[<<b, r>>][i].part)

MailIsOwned ==
  \A b \in Relays, v \in Versions :
    /\ mail[b][v].full => mail[b][v].of # 0
    /\ mail[b][v].of # 0 => Owned(b, mail[b][v].of, v)

\* The cell that a drain sends is one of its mailbox's version.
PartFits(d) == IF d.box = "v2" THEN d.part \in {"A", "B"} ELSE d.part = d.box

DrainIsOwned ==
  \A b \in Relays :
    /\ drain[b] # Idle => mail[b][drain[b].box].of # 0
    /\ drain[b] \in Begun \cup Half => PartFits(drain[b])
    /\ drain[b] \in Half => Owned(b, drain[b].head, drain[b].part)

\* Only flows that were begun are admitted; the channel of a board is at or past
\* the commitments of every paid one, and each was admitted once.
AdmissionsAreCounted ==
  \A b \in Relays, f \in Flows : admitted[b][f] > 0 =>
    /\ f \in DOMAIN flows
    /\ flows[f].version # "v0" => admitted[b][f] = 1 /\ flows[f].seq <= chanSeq[b]

UnpaidHaveNoSeq == \A f \in DOMAIN flows : flows[f].version = "v0" => flows[f].seq = 0

RelayInv ==
  /\ RelayTyped
  /\ DuesAreTheFlows /\ UnpaidHaveNoSeq
  /\ LinksAreOwned /\ MailIsOwned /\ DrainIsOwned
  /\ AdmissionsAreCounted
  /\ NoHopLeftOut

-----------------------------------------------------------------------------
(* Sequences *)

LEMMA AppendIs ==
  ASSUME NEW S, NEW q \in Seq(S), NEW c \in S
  PROVE  /\ Append(q, c) \in Seq(S)
         /\ \A i \in DOMAIN Append(q, c) :
              Append(q, c)[i] = c \/ \E j \in DOMAIN q : Append(q, c)[i] = q[j]
OBVIOUS

LEMMA TailIs ==
  ASSUME NEW S, NEW q \in Seq(S), q # <<>>
  PROVE  /\ Tail(q) \in Seq(S)
         /\ \A i \in DOMAIN Tail(q) : \E j \in DOMAIN q : Tail(q)[i] = q[j]
<1>1. Tail(q) \in Seq(S) /\ Len(q) # 0 /\ Len(Tail(q)) = Len(q) - 1
  OBVIOUS
<1>2. ASSUME NEW i \in DOMAIN Tail(q) PROVE i + 1 \in DOMAIN q /\ Tail(q)[i] = q[i + 1]
  BY <1>1
<1> QED  BY <1>1, <1>2

LEMMA PutIs ==
  ASSUME NEW q \in Seq(Cells), NEW c \in Cells
  PROVE  /\ Put(q, c) \in Seq(Cells)
         /\ \A i \in DOMAIN Put(q, c) :
              Put(q, c)[i] = c \/ \E j \in DOMAIN q : Put(q, c)[i] = q[j]
<1>1. CASE Put(q, c) = Append(q, c)
  BY <1>1, AppendIs
<1>2. CASE Put(q, c) = q
  BY <1>2
<1> QED  BY <1>1, <1>2 DEF Put

LEMMA PutCopiesIs ==
  ASSUME NEW q \in Seq(Cells), NEW c \in Cells, NEW n \in Nat
  PROVE  /\ PutCopies(q, c, n) \in Seq(Cells)
         /\ \A i \in DOMAIN PutCopies(q, c, n) :
              PutCopies(q, c, n)[i] = c \/ \E j \in DOMAIN q : PutCopies(q, c, n)[i] = q[j]
<1>1. Len(q) \in Nat /\ DOMAIN q = 1..Len(q)
  OBVIOUS
<1>2. \A i \in 1..Len(q) : q[i] \in Cells
  OBVIOUS
<1>3. PutCopies(q, c, n) \in [1..(Len(q) + n) -> Cells]
  BY <1>1, <1>2 DEF PutCopies
<1>4. Len(q) + n \in Nat
  BY <1>1
<1>5. PutCopies(q, c, n) \in Seq(Cells)
  BY <1>3, <1>4
<1> QED  BY <1>1, <1>5 DEF PutCopies

-----------------------------------------------------------------------------
(* What a step keeps *)

\* No flow and no admission is forgotten.
Keeps ==
  /\ \A f \in DOMAIN flows : f \in DOMAIN flows' /\ flows'[f].version = flows[f].version
  /\ \A b \in Relays, f \in DOMAIN flows : admitted[b][f] > 0 => admitted'[b][f] > 0

LEMMA OwnedStays ==
  ASSUME Keeps, NEW b, NEW f, NEW p, Owned(b, f, p)
  PROVE  OwnedNext(b, f, p)
BY DEF Keeps, Owned, OwnedNext, OwnedIn

LEMMA LinksStayOwned ==
  ASSUME LinksAreOwned, Keeps,
         \A b \in Boards, r \in Relays : \A i \in DOMAIN links'[<<b, r>>] :
           \/ \E j \in DOMAIN links[<<b, r>>] : links'[<<b, r>>][i] = links[<<b, r>>][j]
           \/ CellOwnedNext(b, links'[<<b, r>>][i])
  PROVE  LinksAreOwned'
<1> SUFFICES ASSUME NEW b \in Boards, NEW r \in Relays, NEW i \in DOMAIN links'[<<b, r>>]
             PROVE  CellOwnedNext(b, links'[<<b, r>>][i])
  BY DEF LinksAreOwned, Boards, Owned, OwnedNext, CellOwnedNext
<1>1. CASE \E j \in DOMAIN links[<<b, r>>] : links'[<<b, r>>][i] = links[<<b, r>>][j]
  <2>1. PICK j \in DOMAIN links[<<b, r>>] : links'[<<b, r>>][i] = links[<<b, r>>][j]
    BY <1>1
  <2> DEFINE c == links[<<b, r>>][j]
  <2>2. Owned(b, c.head, c.part) /\ Owned(b, c.tail, c.part)
    BY DEF LinksAreOwned
  <2>3. OwnedNext(b, c.head, c.part) /\ OwnedNext(b, c.tail, c.part)
    BY <2>2, OwnedStays
  <2> QED  BY <2>1, <2>3 DEF CellOwnedNext
<1> QED  BY <1>1

LEMMA MailStaysOwned ==
  ASSUME MailIsOwned, Keeps, mail' = mail
  PROVE  MailIsOwned'
BY OwnedStays DEF MailIsOwned, Owned, OwnedNext

\* No box is emptied of its flow.
BoxesStay ==
  \A b \in Relays, v \in Versions : mail[b][v].of # 0 => mail'[b][v].of # 0

LEMMA DrainBox ==
  ASSUME RelayTyped, NEW b \in Relays, drain[b] # Idle
  PROVE  drain[b] \in Cleared \cup Begun \cup Half \cup Sent /\ drain[b].box \in Versions
<1>1. drain[b] \in Cleared \cup Begun \cup Half \cup Sent
  BY DEF RelayTyped, DrainSpace
<1> QED  BY <1>1 DEF Cleared, Begun, Half, Sent

\* A board's drain that a step leaves alone.
LEMMA DrainStays ==
  ASSUME DrainIsOwned, RelayTyped, Keeps, BoxesStay, NEW b \in Relays, drain'[b] = drain[b]
  PROVE  /\ drain'[b] # Idle => mail'[b][drain'[b].box].of # 0
         /\ drain'[b] \in Begun \cup Half => PartFits(drain'[b])
         /\ drain'[b] \in Half => OwnedNext(b, drain'[b].head, drain'[b].part)
<1>1. ASSUME drain[b] # Idle PROVE mail'[b][drain[b].box].of # 0
  <2>1. drain[b].box \in Versions /\ mail[b][drain[b].box].of # 0
    BY <1>1, DrainBox DEF DrainIsOwned
  <2> QED  BY <2>1 DEF BoxesStay
<1>2. ASSUME drain[b] \in Half PROVE OwnedNext(b, drain[b].head, drain[b].part)
  <2>1. Owned(b, drain[b].head, drain[b].part)
    BY <1>2 DEF DrainIsOwned
  <2> QED  BY <2>1, OwnedStays
<1> QED  BY <1>1, <1>2 DEF DrainIsOwned

LEMMA DrainsStayOwned ==
  ASSUME DrainIsOwned, RelayTyped, Keeps, BoxesStay, drain' = drain
  PROVE  DrainIsOwned'
<1> SUFFICES ASSUME NEW b \in Relays
             PROVE  /\ drain'[b] # Idle => mail'[b][drain'[b].box].of # 0
                    /\ drain'[b] \in Begun \cup Half => PartFits(drain'[b])
                    /\ drain'[b] \in Half => OwnedNext(b, drain'[b].head, drain'[b].part)
  BY DEF DrainIsOwned, Begun, Half, Owned, OwnedNext
<1> QED  BY DrainStays

-----------------------------------------------------------------------------
(* Admission *)

LEMMA FlowIs ==
  ASSUME RelayTyped, RelayAssumption, NEW f \in DOMAIN flows
  PROVE  /\ f \in Flows /\ flows[f] \in FlowSpace
         /\ flows[f].seq \in 0..MaxFlows /\ flows[f].seq \in Nat
<1>1. flows \in Seq(FlowSpace) /\ Len(flows) <= MaxFlows /\ MaxFlows \in Nat
  BY DEF RelayTyped, RelayAssumption
<1>2. f \in Flows /\ flows[f] \in FlowSpace
  BY <1>1 DEF Flows
<1> QED  BY <1>1, <1>2 DEF FlowSpace

LEMMA HopIs ==
  ASSUME RelayAssumption, NEW b \in Range(Route)
  PROVE  HopOf(b) \in Hops /\ Route[HopOf(b)] = b /\ \A i \in Hops : Route[i] = b => i = HopOf(b)
<1>1. \E i \in Hops : Route[i] = b
  BY DEF Range, Hops
<1>2. HopOf(b) \in Hops /\ Route[HopOf(b)] = b
  BY <1>1 DEF HopOf
<1> QED  BY <1>2 DEF RelayAssumption

LEMMA RouteIs ==
  ASSUME RelayAssumption
  PROVE  Len(Route) \in Nat \ {0} /\ Hops = 1..Len(Route) /\ \A i \in Hops : Route[i] \in Relays
BY DEF RelayAssumption, Hops

\* A cell's flow is admitted in turn.
LEMMA AdmissionKeeps ==
  ASSUME RelayInv, RelayAssumption,
         NEW b \in Relays, NEW s \in Boards, NEW v \in {"v0", "v1", "v2"}, NEW f \in Flows,
         InTurn(b, s), Owned(s, f, v), v # "v0" => Newer(b, f),
         Admit(b, v, f), flows' = flows
  PROVE  /\ Keeps /\ BoxesStay
         /\ admitted' \in [Relays -> [Flows -> 0..2]] /\ chanSeq' \in [Relays -> 0..MaxFlows]
         /\ mail' \in [Relays -> [Versions -> BoxSpace]] /\ pair' \in [Relays -> PairSpace]
         /\ MailIsOwned' /\ AdmissionsAreCounted' /\ NoHopLeftOut'
<1> USE RelayAssumption
<1>f. /\ f \in DOMAIN flows /\ flows[f].seq \in 0..MaxFlows /\ MaxFlows \in Nat
      /\ v = "v0" => flows[f].version = "v0"
  <2>1. f \in DOMAIN flows /\ (v = "v0" => flows[f].version = "v0")
    BY DEF Owned, OwnedIn
  <2>2. MaxFlows \in Nat
    BY DEF RelayAssumption
  <2> QED  BY <2>1, <2>2, FlowIs DEF RelayInv
<1>t. /\ admitted \in [Relays -> [Flows -> 0..2]] /\ chanSeq \in [Relays -> 0..MaxFlows]
      /\ mail \in [Relays -> [Versions -> BoxSpace]] /\ pair \in [Relays -> PairSpace]
  BY DEF RelayInv, RelayTyped
<1>a. /\ admitted' \in [Relays -> [Flows -> 0..2]]
      /\ admitted'[b][f] = IF admitted[b][f] = 2 THEN 2 ELSE admitted[b][f] + 1
      /\ admitted'[b][f] > 0
      /\ \A r \in Relays, g \in Flows : <<r, g>> # <<b, f>> => admitted'[r][g] = admitted[r][g]
  <2> DEFINE n == IF admitted[b][f] = 2 THEN 2 ELSE admitted[b][f] + 1
  <2>1. admitted[b][f] \in 0..2 /\ admitted[b] \in [Flows -> 0..2]
    BY <1>t
  <2>2. n \in 0..2 /\ n > 0
    BY <2>1
  <2>3. admitted' = [admitted EXCEPT ![b][f] = n]
    BY DEF Admit
  <2> HIDE DEF n
  <2>4. /\ admitted' \in [Relays -> [Flows -> 0..2]] /\ admitted'[b][f] = n
        /\ \A r \in Relays, g \in Flows : <<r, g>> # <<b, f>> => admitted'[r][g] = admitted[r][g]
    BY <2>2, <2>3, <1>t
  <2> QED  BY <2>2, <2>4 DEF n
<1>c. /\ chanSeq' \in [Relays -> 0..MaxFlows]
      /\ \A r \in Relays : r # b => chanSeq'[r] = chanSeq[r]
      /\ v = "v0" => chanSeq'[b] = chanSeq[b]
      /\ v # "v0" => chanSeq'[b] = flows[f].seq /\ flows[f].seq > chanSeq[b]
  BY <1>t, <1>f DEF Admit, Newer
<1>m. /\ mail' \in [Relays -> [Versions -> BoxSpace]]
      /\ \A r \in Relays, w \in Versions :
           \/ mail'[r][w] = mail[r][w]
           \/ r = b /\ w = v /\ mail'[r][w].of = f
  <2>1. CASE IsLast(b) \/ mail[b][v].full
    BY <2>1, <1>t DEF Admit
  <2>2. CASE ~(IsLast(b) \/ mail[b][v].full)
    <3> DEFINE box == [full |-> TRUE, of |-> f]
    <3>1. box \in BoxSpace
      BY DEF BoxSpace, Flows
    <3>2. mail' = [mail EXCEPT ![b][v] = box]
      BY <2>2 DEF Admit
    <3>3. mail \in [Relays -> [Versions -> BoxSpace]]
      BY <1>t
    <3>f. box.of = f
      OBVIOUS
    <3> HIDE DEF box
    <3>4. mail' \in [Relays -> [Versions -> BoxSpace]]
      BY <3>1, <3>2, <3>3
    <3>5. ASSUME NEW r \in Relays, NEW w \in Versions, ~(r = b /\ w = v)
          PROVE  mail'[r][w] = mail[r][w]
      BY <3>2, <3>3, <3>5
    <3>6. v \in Versions => mail'[b][v].of = f
      <4>1. v \in Versions => mail'[b][v] = box
        BY <3>2, <3>3
      <4> QED  BY <3>f, <4>1
    <3> QED  BY <3>4, <3>5, <3>6
  <2> QED  BY <2>1, <2>2
<1>p. pair' \in [Relays -> PairSpace]
  <2>1. [aSent |-> FALSE, left |-> CellBSends] \in PairSpace
    BY DEF PairSpace, RelayAssumption
  <2>2. pair \in [Relays -> PairSpace]
    BY <1>t
  <2> DEFINE new == [aSent |-> FALSE, left |-> CellBSends]
  <2>3. pair' = pair \/ pair' = [pair EXCEPT ![b] = new]
    BY DEF Admit
  <2>4. new \in PairSpace
    BY <2>1
  <2> HIDE DEF new
  <2>5. CASE pair' = pair
    BY <2>2, <2>5
  <2>6. CASE pair' = [pair EXCEPT ![b] = new]
    <3>1. [pair EXCEPT ![b] = new] \in [Relays -> PairSpace]
      BY <2>2, <2>4
    <3> QED  BY <2>6, <3>1
  <2> QED  BY <2>3, <2>5, <2>6
<1>k. Keeps
  <2>1. DOMAIN flows \subseteq Flows
    BY DEF RelayInv, RelayTyped, Flows
  <2>2. ASSUME NEW r \in Relays, NEW g \in Flows, admitted[r][g] > 0
        PROVE  admitted'[r][g] > 0
    <3>1. CASE <<r, g>> = <<b, f>>
      BY <3>1, <1>a
    <3>2. CASE <<r, g>> # <<b, f>>
      BY <2>2, <3>2, <1>a
    <3> QED  BY <3>1, <3>2
  <2> QED  BY <2>1, <2>2 DEF Keeps
<1>b. BoxesStay
  BY <1>m DEF BoxesStay, Flows
<1>1. MailIsOwned'
  <2> SUFFICES ASSUME NEW r \in Relays, NEW w \in Versions
               PROVE  /\ mail'[r][w].full => mail'[r][w].of # 0
                      /\ mail'[r][w].of # 0 => OwnedNext(r, mail'[r][w].of, w)
    BY DEF MailIsOwned, Owned, OwnedNext
  <2>1. CASE mail'[r][w] = mail[r][w]
    BY <2>1, <1>k, OwnedStays DEF RelayInv, MailIsOwned
  <2>2. CASE r = b /\ w = v /\ mail'[r][w].of = f
    <3>1. OwnedNext(b, f, v)
      BY <1>f, <1>a DEF OwnedNext, OwnedIn
    <3> QED  BY <2>2, <3>1 DEF Flows
  <2> QED  BY <2>1, <2>2, <1>m
<1>2. AdmissionsAreCounted'
  <2> SUFFICES ASSUME NEW r \in Relays, NEW g \in Flows, admitted'[r][g] > 0
               PROVE  /\ g \in DOMAIN flows
                      /\ flows[g].version # "v0" => admitted'[r][g] = 1 /\ flows[g].seq <= chanSeq'[r]
    BY DEF AdmissionsAreCounted
  <2>1. CASE <<r, g>> = <<b, f>>
    <3>1. ASSUME flows[f].version # "v0" PROVE admitted[b][f] = 0
      <4>1. admitted[b][f] \in 0..2 /\ chanSeq[b] \in Nat /\ flows[f].seq > chanSeq[b] /\ flows[f].seq \in Nat
        BY <3>1, <1>f, <1>c, <1>t
      <4>2. admitted[b][f] > 0 => flows[f].seq <= chanSeq[b]
        BY <3>1, <1>f DEF RelayInv, AdmissionsAreCounted
      <4> QED  BY <4>1, <4>2
    <3> QED  BY <2>1, <3>1, <1>f, <1>a, <1>c
  <2>2. CASE <<r, g>> # <<b, f>>
    <3>1. /\ g \in DOMAIN flows
          /\ flows[g].version # "v0" => admitted[r][g] = 1 /\ flows[g].seq <= chanSeq[r]
      BY <2>2, <1>a DEF RelayInv, AdmissionsAreCounted
    <3>2. flows[g].seq \in Nat
      BY <3>1, FlowIs DEF RelayInv
    <3>3. chanSeq[r] \in Nat /\ chanSeq'[r] \in Nat /\ chanSeq[r] <= chanSeq'[r]
      <4>1. chanSeq[r] \in Nat /\ chanSeq'[r] \in Nat /\ chanSeq[b] \in Nat
        BY <1>t, <1>c
      <4>2. CASE r = b
        BY <4>1, <4>2, <1>c, <1>f
      <4> QED  BY <4>1, <4>2, <1>c
    <3> QED  BY <2>2, <3>1, <3>2, <3>3, <1>a
  <2> QED  BY <2>1, <2>2
<1>3. NoHopLeftOut'
  <2> SUFFICES ASSUME NEW i \in Hops \ {1}, NEW g \in Flows, admitted'[Route[i]][g] > 0
               PROVE  admitted'[Route[i - 1]][g] > 0
    BY DEF NoHopLeftOut
  <2>r. i \in 1..Len(Route) /\ i - 1 \in Hops /\ Route[i] \in Relays /\ Route[i - 1] \in Relays
    BY RouteIs
  <2>1. CASE <<Route[i], g>> = <<b, f>>
    <3>1. HopOf(b) = i /\ s = Route[i - 1]
      BY <2>1, <2>r, HopIs DEF InTurn
    <3>2. admitted[s][f] > 0 /\ s \in Relays
      BY <3>1, <2>r DEF Owned, OwnedIn
    <3> QED  BY <2>1, <3>1, <3>2, <1>f, <1>k DEF Keeps
  <2>2. CASE <<Route[i], g>> # <<b, f>>
    <3>1. admitted[Route[i]][g] > 0
      BY <2>2, <2>r, <1>a
    <3>2. admitted[Route[i - 1]][g] > 0 /\ g \in DOMAIN flows
      BY <3>1, <2>r DEF RelayInv, NoHopLeftOut, AdmissionsAreCounted
    <3> QED  BY <3>2, <2>r, <1>k DEF Keeps
  <2> QED  BY <2>1, <2>2
<1> QED  BY <1>a, <1>c, <1>m, <1>p, <1>k, <1>b, <1>1, <1>2, <1>3

-----------------------------------------------------------------------------
(* The steps *)

\* A step that admits nothing.
LEMMA NothingAdmitted ==
  ASSUME RelayInv, RelayAssumption, admitted' = admitted, chanSeq' = chanSeq,
         \A f \in DOMAIN flows : /\ f \in DOMAIN flows'
                                /\ flows'[f].version = flows[f].version
                                /\ flows'[f].seq = flows[f].seq
  PROVE  Keeps /\ AdmissionsAreCounted' /\ NoHopLeftOut'
BY DEF RelayInv, Keeps, AdmissionsAreCounted, NoHopLeftOut

LEMMA DueIs ==
  ASSUME RelayAssumption, NEW d \in Dues, d # <<>>
  PROVE  /\ Head(d) \in ForwardParts /\ Tail(d) \in Dues
         /\ Tail(d) # <<>> => Head(Tail(d)) # "v0"
<1>1. Versions \subseteq {"v0", "v1", "v2"}
  BY DEF RelayAssumption
<1>2. d = <<"A", "B">> \/ d = <<"B">> \/ d = <<"v0">> \/ d = <<"v1">>
  BY <1>1 DEF Dues, PartsOf
<1>3. Head(d) \in ForwardParts
  BY <1>2 DEF ForwardParts
<1>4. CASE d = <<"A", "B">>
  BY <1>4, <1>3, Tail(<<"A", "B">>) = <<"B">> DEF Dues
<1>5. CASE d # <<"A", "B">>
  BY <1>2, <1>3, <1>5, Tail(<<"B">>) = <<>>, Tail(<<"v0">>) = <<>>, Tail(<<"v1">>) = <<>> DEF Dues
<1> QED  BY <1>4, <1>5

LEMMA RelayBegins ==
  ASSUME RelayAssumption, RelayInit
  PROVE  RelayInv
<1> USE RelayAssumption DEF RelayInit
<1>1. RelayTyped
  <2>1. links \in [Boards \X Relays -> Seq(Cells)]
    BY DEF Boards
  <2>2. flows \in Seq(FlowSpace) /\ Len(flows) <= MaxFlows
    BY DEF RelayAssumption
  <2>3. mail \in [Relays -> [Versions -> BoxSpace]] /\ chanSeq \in [Relays -> 0..MaxFlows]
    BY DEF BoxSpace, RelayAssumption
  <2>4. pair \in [Relays -> PairSpace] /\ drain \in [Relays -> DrainSpace]
    BY DEF PairSpace, RelayAssumption, DrainSpace
  <2>5. burst \in [Relays -> {NoBurst} \cup {<<c>> : c \in Cells}]
    OBVIOUS
  <2>6. admitted \in [Relays -> [Flows -> 0..2]]
    OBVIOUS
  <2> QED  BY <2>1, <2>2, <2>3, <2>4, <2>5, <2>6 DEF RelayTyped
<1>2. DuesAreTheFlows /\ UnpaidHaveNoSeq
  BY DEF DuesAreTheFlows, UnpaidHaveNoSeq
<1>3. LinksAreOwned
  BY DEF LinksAreOwned, Boards
<1>4. MailIsOwned /\ DrainIsOwned
  BY DEF MailIsOwned, DrainIsOwned, Begun, Half, Idle
<1>5. AdmissionsAreCounted /\ NoHopLeftOut
  <2>1. \A i \in Hops : Route[i] \in Relays
    BY RouteIs
  <2> QED  BY <2>1 DEF AdmissionsAreCounted, NoHopLeftOut
<1> QED  BY <1>1, <1>2, <1>3, <1>4, <1>5 DEF RelayInv

LEMMA BeginStep ==
  ASSUME RelayInv, RelayAssumption, NEW v \in Versions, Begin(v)
  PROVE  RelayInv'
<1> USE RelayAssumption
<1> DEFINE before == {g \in DOMAIN flows : flows[g].version = v}
           new == [version |-> v, seq |-> IF v = "v0" THEN 0 ELSE Cardinality(before) + 1,
                   due |-> PartsOf(v)]
<1>f. flows \in Seq(FlowSpace) /\ MaxFlows \in Nat /\ Len(flows) \in Nat /\ Len(flows) < MaxFlows
  BY DEF RelayInv, RelayTyped, RelayAssumption, Begin
<1>b. Cardinality(before) \in 0..Len(flows)
  <2>1. before \in SUBSET (1..Len(flows))
    BY <1>f
  <2>2. IsFiniteSet(1..Len(flows)) /\ Cardinality(1..Len(flows)) = Len(flows)
    <3> DEFINE n == Len(flows)
    <3>1. n \in Nat
      BY <1>f
    <3> HIDE DEF n
    <3>2. IsFiniteSet(1..n) /\ Cardinality(1..n) = n
      BY <3>1, FS_Interval
    <3> QED  BY <3>2 DEF n
  <2>3. IsFiniteSet(before) /\ Cardinality(before) <= Len(flows)
    BY <2>1, <2>2, FS_Subset
  <2> QED  BY <2>3, FS_CardinalityType
<1>n. new \in FlowSpace
  <2> HIDE DEF before
  <2>1. (IF v = "v0" THEN 0 ELSE Cardinality(before) + 1) \in 0..MaxFlows
    BY <1>b, <1>f
  <2> QED  BY <2>1 DEF FlowSpace, Dues
<1>a. flows' = Append(flows, new)
  BY DEF Begin
<1>v. /\ new.version = v /\ (v = "v0" => new.seq = 0)
      /\ new.due # <<>> => (Head(new.due) = "v0" => v = "v0")
  BY DEF PartsOf
<1> HIDE DEF new
<1>s. /\ flows' \in Seq(FlowSpace) /\ Len(flows') <= MaxFlows
      /\ \A g \in DOMAIN flows : g \in DOMAIN flows' /\ flows'[g] = flows[g]
      /\ \A g \in DOMAIN flows' : g \in DOMAIN flows \/ flows'[g] = new
  BY <1>f, <1>n, <1>a
<1>u. UNCHANGED <<calm, near, links, burst, chanSeq, mail, pair, admitted, drain>>
  BY DEF Begin, relayBoardVars
<1>1. RelayTyped'
  BY <1>s, <1>u DEF RelayInv, RelayTyped
<1>2. DuesAreTheFlows' /\ UnpaidHaveNoSeq'
  BY <1>s, <1>v DEF RelayInv, DuesAreTheFlows, UnpaidHaveNoSeq
<1>3. Keeps /\ AdmissionsAreCounted' /\ NoHopLeftOut'
  BY <1>s, <1>u, NothingAdmitted
<1>4. LinksAreOwned'
  BY <1>u, <1>3, LinksStayOwned DEF RelayInv
<1>5. MailIsOwned'
  BY <1>u, <1>3, MailStaysOwned DEF RelayInv
<1>6. DrainIsOwned'
  BY <1>u, <1>3, DrainsStayOwned DEF RelayInv, BoxesStay
<1> QED  BY <1>1, <1>2, <1>3, <1>4, <1>5, <1>6 DEF RelayInv

LEMMA InjectStep ==
  ASSUME RelayInv, RelayAssumption, NEW f \in DOMAIN flows, InjectCell(f)
  PROVE  RelayInv'
<1> USE RelayAssumption
<1> DEFINE due == flows[f].due
           c == [part |-> Head(due), head |-> f, tail |-> f]
<1>f. /\ flows \in Seq(FlowSpace) /\ f \in Flows /\ due \in Dues /\ due # <<>>
      /\ flows' = [flows EXCEPT ![f].due = Tail(due)]
  BY FlowIs DEF RelayInv, RelayTyped, InjectCell, FlowSpace
<1>d. /\ Head(due) \in ForwardParts /\ Tail(due) \in Dues
      /\ Tail(due) # <<>> => Head(Tail(due)) # "v0"
  BY <1>f, DueIs
<1>c. c \in Cells /\ (c.part = "v0" => flows[f].version = "v0")
  BY <1>f, <1>d DEF Cells, RelayInv, DuesAreTheFlows
<1>s. /\ flows' \in Seq(FlowSpace) /\ Len(flows') = Len(flows) /\ DOMAIN flows' = DOMAIN flows
      /\ \A g \in DOMAIN flows : /\ flows'[g].version = flows[g].version
                                /\ flows'[g].seq = flows[g].seq
                                /\ flows'[g].due = IF g = f THEN Tail(due) ELSE flows[g].due
  <2> HIDE DEF due
  <2>1. \A g \in DOMAIN flows : flows[g] \in FlowSpace
    BY <1>f
  <2>2. [flows[f] EXCEPT !.due = Tail(due)] \in FlowSpace
    BY <1>d, <2>1 DEF FlowSpace
  <2>3. flows' = [flows EXCEPT ![f] = [flows[f] EXCEPT !.due = Tail(due)]]
    BY <1>f
  <2>4. flows' \in Seq(FlowSpace) /\ Len(flows') = Len(flows) /\ DOMAIN flows' = DOMAIN flows
    BY <1>f, <2>2, <2>3
  <2> QED  BY <2>1, <2>3, <2>4 DEF FlowSpace
<1>u. UNCHANGED <<calm, near, burst, chanSeq, mail, pair, admitted, drain>>
  BY DEF InjectCell, relayBoardVars
<1>3. Keeps /\ AdmissionsAreCounted' /\ NoHopLeftOut'
  BY <1>s, <1>u, NothingAdmitted
<1>l. /\ links' \in [Boards \X Relays -> Seq(Cells)]
      /\ \A b \in Boards, r \in Relays : \A i \in DOMAIN links'[<<b, r>>] :
           \/ \E j \in DOMAIN links[<<b, r>>] : links'[<<b, r>>][i] = links[<<b, r>>][j]
           \/ b = Origin /\ links'[<<b, r>>][i] = c
  <2> HIDE DEF due, c
  <2>1. PICK n \in 1..InjectCopies :
          links' = [l \in DOMAIN links |->
                      IF l[1] # Origin \/ l[2] \notin near THEN links[l]
                      ELSE IF calm THEN PutCopies(links[l], c, n) ELSE Put(links[l], c)]
    BY DEF InjectCell, c, due
  <2>2. n \in Nat
    BY DEF RelayAssumption
  <2>3. links \in [Boards \X Relays -> Seq(Cells)]
    BY DEF RelayInv, RelayTyped
  <2>4. \A l \in Boards \X Relays :
          PutCopies(links[l], c, n) \in Seq(Cells) /\ Put(links[l], c) \in Seq(Cells)
    BY <1>c, <2>2, <2>3, PutIs, PutCopiesIs
  <2>5. links' \in [Boards \X Relays -> Seq(Cells)]
    BY <2>1, <2>3, <2>4
  <2>6. ASSUME NEW b \in Boards, NEW r \in Relays, NEW i \in DOMAIN links'[<<b, r>>]
        PROVE  \/ \E j \in DOMAIN links[<<b, r>>] : links'[<<b, r>>][i] = links[<<b, r>>][j]
               \/ b = Origin /\ links'[<<b, r>>][i] = c
    <3> DEFINE q == links[<<b, r>>]
    <3>1. q \in Seq(Cells)
      BY <2>3
    <3>2. \/ links'[<<b, r>>] = q
          \/ b = Origin /\ links'[<<b, r>>] = PutCopies(q, c, n)
          \/ b = Origin /\ links'[<<b, r>>] = Put(q, c)
      BY <2>1, <2>3
    <3> HIDE DEF q
    <3>3. CASE links'[<<b, r>>] = q
      BY <3>3 DEF q
    <3>4. CASE b = Origin /\ links'[<<b, r>>] = PutCopies(q, c, n)
      BY <3>1, <3>4, <1>c, <2>2, PutCopiesIs DEF q
    <3>5. CASE b = Origin /\ links'[<<b, r>>] = Put(q, c)
      BY <3>1, <3>5, <1>c, PutIs DEF q
    <3> QED  BY <3>2, <3>3, <3>4, <3>5
  <2> QED  BY <2>5, <2>6
<1>1. RelayTyped'
  BY <1>s, <1>u, <1>l DEF RelayInv, RelayTyped
<1>2. DuesAreTheFlows' /\ UnpaidHaveNoSeq'
  BY <1>s, <1>d DEF RelayInv, DuesAreTheFlows, UnpaidHaveNoSeq
<1>4. LinksAreOwned'
  <2>1. CellOwnedNext(Origin, c)
    BY <1>c, <1>s DEF CellOwnedNext, OwnedNext, OwnedIn, RelayAssumption
  <2> QED  BY <1>l, <1>3, <2>1, LinksStayOwned DEF RelayInv
<1>5. MailIsOwned'
  BY <1>u, <1>3, MailStaysOwned DEF RelayInv
<1>6. DrainIsOwned'
  BY <1>u, <1>3, DrainsStayOwned DEF RelayInv, BoxesStay
<1> QED  BY <1>1, <1>2, <1>3, <1>4, <1>5, <1>6 DEF RelayInv

\* Cells that no board admits at this step.
LEMMA RefuseStep ==
  ASSUME RelayInv, RelayAssumption, Refuse, flows' = flows
  PROVE  /\ Keeps /\ BoxesStay
         /\ admitted' \in [Relays -> [Flows -> 0..2]] /\ chanSeq' \in [Relays -> 0..MaxFlows]
         /\ mail' \in [Relays -> [Versions -> BoxSpace]] /\ pair' \in [Relays -> PairSpace]
         /\ MailIsOwned' /\ AdmissionsAreCounted' /\ NoHopLeftOut'
<1>1. UNCHANGED <<admitted, chanSeq, mail, pair>>
  BY DEF Refuse
<1>2. Keeps /\ AdmissionsAreCounted' /\ NoHopLeftOut'
  BY <1>1, NothingAdmitted
<1>3. MailIsOwned'
  BY <1>1, <1>2, MailStaysOwned DEF RelayInv
<1>4. /\ admitted' \in [Relays -> [Flows -> 0..2]] /\ chanSeq' \in [Relays -> 0..MaxFlows]
      /\ mail' \in [Relays -> [Versions -> BoxSpace]] /\ pair' \in [Relays -> PairSpace]
  BY <1>1 DEF RelayInv, RelayTyped
<1> QED  BY <1>1, <1>2, <1>3, <1>4 DEF BoxesStay

LEMMA HearStep ==
  ASSUME RelayInv, RelayAssumption, NEW b \in Relays, NEW s \in Boards, HearCell(b, s)
  PROVE  RelayInv'
<1> USE RelayAssumption
<1> DEFINE l == <<s, b>>
<1>1. PICK i \in DOMAIN links[l] :
        /\ links' = IF calm THEN [links EXCEPT ![l] = Tail(links[l])] ELSE links
        /\ HearForward(b, s, links[l][i]) \/ HearA(b, links[l][i]) \/ HearB(b, s, links[l][i])
  BY DEF HearCell
<1> DEFINE c == links[l][i]
<1>l. links \in [Boards \X Relays -> Seq(Cells)] /\ links[l] \in Seq(Cells)
  BY DEF RelayInv, RelayTyped
<1>c. c \in Cells /\ Owned(s, c.head, c.part) /\ c.head \in Flows /\ c.part \in ForwardParts
  <2>1. c \in Cells
    BY <1>l
  <2>2. Owned(s, c.head, c.part)
    BY DEF RelayInv, LinksAreOwned
  <2> QED  BY <2>1, <2>2 DEF Cells
<1> HIDE DEF c
<1>u. UNCHANGED <<calm, near, flows, drain>>
  BY DEF HearCell
<1>b. burst' \in [Relays -> {NoBurst} \cup {<<x>> : x \in Cells}]
  <2>1. burst \in [Relays -> {NoBurst} \cup {<<x>> : x \in Cells}]
    BY DEF RelayInv, RelayTyped
  <2>2. burst' = burst \/ burst' = [burst EXCEPT ![b] = <<c>>] \/ burst' = [burst EXCEPT ![b] = NoBurst]
    BY <1>1 DEF HearForward, HearA, HearB, c
  <2> QED  BY <2>1, <2>2, <1>c
<1>2. /\ Keeps /\ BoxesStay
      /\ admitted' \in [Relays -> [Flows -> 0..2]] /\ chanSeq' \in [Relays -> 0..MaxFlows]
      /\ mail' \in [Relays -> [Versions -> BoxSpace]] /\ pair' \in [Relays -> PairSpace]
      /\ MailIsOwned' /\ AdmissionsAreCounted' /\ NoHopLeftOut'
  <2>1. CASE Refuse
    BY <2>1, <1>u, RefuseStep
  <2>2. CASE HearForward(b, s, c) /\ ~Refuse
    <3>1. /\ c.part \in {"v0", "v1"} /\ InTurn(b, s) /\ Admit(b, c.part, c.head)
          /\ c.part = "v1" => Newer(b, c.head)
      BY <2>2 DEF HearForward
    <3> QED  BY <3>1, <1>c, <1>u, AdmissionKeeps
  <2>3. CASE HearB(b, s, c) /\ ~Refuse
    <3>1. c.part = "B" /\ InTurn(b, s) /\ Newer(b, c.head) /\ Admit(b, "v2", c.head)
      BY <2>3 DEF HearB
    <3>2. Owned(s, c.head, "v2")
      BY <1>c DEF Owned, OwnedIn
    <3> QED  BY <3>1, <3>2, <1>c, <1>u, AdmissionKeeps
  <2> QED  BY <1>1, <2>1, <2>2, <2>3 DEF HearA, c
<1>t. links' \in [Boards \X Relays -> Seq(Cells)]
  <2>1. Tail(links[l]) \in Seq(Cells)
    BY <1>l, TailIs
  <2> QED  BY <1>1, <1>l, <2>1
<1>3. RelayTyped'
  BY <1>u, <1>b, <1>2, <1>t DEF RelayInv, RelayTyped
<1>4. DuesAreTheFlows' /\ UnpaidHaveNoSeq'
  BY <1>u DEF RelayInv, DuesAreTheFlows, UnpaidHaveNoSeq
<1>5. LinksAreOwned'
  <2> SUFFICES ASSUME NEW x \in Boards, NEW r \in Relays, NEW k \in DOMAIN links'[<<x, r>>]
               PROVE  \E j \in DOMAIN links[<<x, r>>] : links'[<<x, r>>][k] = links[<<x, r>>][j]
    BY <1>2, LinksStayOwned DEF RelayInv
  <2>1. CASE links'[<<x, r>>] = links[<<x, r>>]
    BY <2>1
  <2>2. CASE links'[<<x, r>>] # links[<<x, r>>]
    <3>1. <<x, r>> = l /\ links'[l] = Tail(links[l])
      BY <2>2, <1>1, <1>l
    <3>2. links[l] # <<>>
      BY <1>l
    <3> QED  BY <3>1, <3>2, <1>l, TailIs
  <2> QED  BY <2>1, <2>2
<1>6. DrainIsOwned'
  BY <1>u, <1>2, DrainsStayOwned DEF RelayInv
<1> QED  BY <1>2, <1>3, <1>4, <1>5, <1>6 DEF RelayInv

-----------------------------------------------------------------------------
(* The main loop *)

\* What a step of the main loop of board b owes the invariant.
LEMMA LoopStep ==
  ASSUME RelayInv, RelayAssumption, NEW b \in Relays, NEW d \in DrainSpace, GoesOn(b, d),
         UNCHANGED <<calm, near, flows, burst, chanSeq, admitted>>,
         links' \in [Boards \X Relays -> Seq(Cells)], LinksAreOwned',
         pair' \in [Relays -> PairSpace],
         mail' \in [Relays -> [Versions -> BoxSpace]], BoxesStay,
         \A r \in Relays, v \in Versions :
           /\ mail'[r][v].of = mail[r][v].of
           /\ mail'[r][v].full => mail[r][v].full \/ mail[r][v].of # 0,
         /\ d # Idle => mail[b][d.box].of # 0 /\ d.box \in Versions
         /\ d \in Begun \cup Half => PartFits(d)
         /\ d \in Half => Owned(b, d.head, d.part)
  PROVE  RelayInv'
<1>1. Keeps /\ AdmissionsAreCounted' /\ NoHopLeftOut'
  BY NothingAdmitted
<1>d. /\ drain' \in [Relays -> DrainSpace] /\ drain'[b] = d
      /\ \A r \in Relays : r # b => drain'[r] = drain[r]
  BY DEF GoesOn, RelayInv, RelayTyped
<1>2. RelayTyped'
  BY <1>d DEF RelayInv, RelayTyped
<1>3. DuesAreTheFlows' /\ UnpaidHaveNoSeq'
  BY DEF RelayInv, DuesAreTheFlows, UnpaidHaveNoSeq
<1>4. MailIsOwned'
  <2> SUFFICES ASSUME NEW r \in Relays, NEW v \in Versions
               PROVE  /\ mail'[r][v].full => mail'[r][v].of # 0
                      /\ mail'[r][v].of # 0 => OwnedNext(r, mail'[r][v].of, v)
    BY DEF MailIsOwned, Owned, OwnedNext
  <2>1. /\ mail[r][v].full => mail[r][v].of # 0
        /\ mail[r][v].of # 0 => Owned(r, mail[r][v].of, v)
    BY DEF RelayInv, MailIsOwned
  <2> QED  BY <2>1 DEF Owned, OwnedNext
<1>5. DrainIsOwned'
  <2> SUFFICES ASSUME NEW r \in Relays
               PROVE  /\ drain'[r] # Idle => mail'[r][drain'[r].box].of # 0
                      /\ drain'[r] \in Begun \cup Half => PartFits(drain'[r])
                      /\ drain'[r] \in Half => OwnedNext(r, drain'[r].head, drain'[r].part)
    BY DEF DrainIsOwned, Begun, Half, Owned, OwnedNext
  <2>1. CASE r # b
    BY <2>1, <1>d, <1>1, DrainStays DEF RelayInv
  <2>2. CASE r = b
    BY <2>2, <1>d DEF Owned, OwnedNext
  <2> QED  BY <2>1, <2>2
<1> QED  BY <1>1, <1>2, <1>3, <1>4, <1>5 DEF RelayInv

\* A box is marked full or empty.
LEMMA BoxFlag ==
  ASSUME RelayInv, NEW b \in Relays, NEW v \in Versions, NEW flag \in BOOLEAN,
         mail' = [mail EXCEPT ![b][v].full = flag]
  PROVE  /\ mail' \in [Relays -> [Versions -> BoxSpace]]
         /\ \A r \in Relays, w \in Versions : mail'[r][w].of = mail[r][w].of
         /\ mail'[b][v].full = flag
         /\ \A r \in Relays, w \in Versions : <<r, w>> # <<b, v>> => mail'[r][w] = mail[r][w]
<1>1. mail \in [Relays -> [Versions -> BoxSpace]]
  BY DEF RelayInv, RelayTyped
<1> DEFINE box == [mail[b][v] EXCEPT !.full = flag]
<1>2. box \in BoxSpace /\ box.of = mail[b][v].of /\ box.full = flag
  BY <1>1 DEF BoxSpace
<1>3. mail' = [mail EXCEPT ![b][v] = box]
  OBVIOUS
<1> HIDE DEF box
<1>4. /\ mail' \in [Relays -> [Versions -> BoxSpace]] /\ mail'[b][v] = box
      /\ \A r \in Relays, w \in Versions : <<r, w>> # <<b, v>> => mail'[r][w] = mail[r][w]
  BY <1>1, <1>2, <1>3
<1>5. ASSUME NEW r \in Relays, NEW w \in Versions PROVE mail'[r][w].of = mail[r][w].of
  BY <1>2, <1>4
<1> QED  BY <1>2, <1>4, <1>5

\* What a step that sends nothing leaves.
LEMMA SameLinks ==
  ASSUME RelayInv, UNCHANGED <<flows, admitted, links>>
  PROVE  links' \in [Boards \X Relays -> Seq(Cells)] /\ LinksAreOwned'
<1>1. Keeps
  BY DEF Keeps, RelayInv
<1>2. LinksAreOwned'
  BY <1>1, LinksStayOwned DEF RelayInv
<1> QED  BY <1>2 DEF RelayInv, RelayTyped

LEMMA ClearStep ==
  ASSUME RelayInv, RelayAssumption, NEW b \in Relays, NEW v \in Versions, Clear(b, v)
  PROVE  RelayInv'
<1> DEFINE d == [at |-> "cleared", box |-> v]
<1>1. d \in Cleared /\ d \notin Begun \cup Half /\ d.box = v /\ d \in DrainSpace
  BY DEF Cleared, Begun, Half, DrainSpace
<1>2. /\ mail[b][v].full /\ mail' = [mail EXCEPT ![b][v].full = FALSE] /\ GoesOn(b, d)
      /\ UNCHANGED <<calm, near, flows, links, burst, chanSeq, pair, admitted>>
  BY DEF Clear
<1>3. mail[b][v].of # 0
  BY <1>2 DEF RelayInv, MailIsOwned
<1>4. /\ mail' \in [Relays -> [Versions -> BoxSpace]]
      /\ \A r \in Relays, w \in Versions : mail'[r][w].of = mail[r][w].of
      /\ ~mail'[b][v].full
      /\ \A r \in Relays, w \in Versions : <<r, w>> # <<b, v>> => mail'[r][w] = mail[r][w]
  BY <1>2, BoxFlag
<1>5. /\ links' \in [Boards \X Relays -> Seq(Cells)] /\ LinksAreOwned' /\ pair' \in [Relays -> PairSpace]
  BY <1>2, SameLinks DEF RelayInv, RelayTyped
<1>6. ASSUME NEW r \in Relays, NEW w \in Versions, mail'[r][w].full
      PROVE  mail[r][w].full
  BY <1>4, <1>6
<1>7. BoxesStay
  BY <1>4 DEF BoxesStay
<1>8. \A r \in Relays, w \in Versions :
        /\ mail'[r][w].of = mail[r][w].of
        /\ mail'[r][w].full => mail[r][w].full \/ mail[r][w].of # 0
  BY <1>4, <1>6
<1>9. d # Idle => mail[b][d.box].of # 0 /\ d.box \in Versions
  BY <1>1, <1>3
<1> HIDE DEF d
<1> QED  BY <1>1, <1>2, <1>4, <1>5, <1>7, <1>8, <1>9, LoopStep

\* A step of the main loop that only goes on in the drain.
LEMMA LoopGoesOn ==
  ASSUME RelayInv, RelayAssumption, NEW b \in Relays, NEW d \in DrainSpace, GoesOn(b, d),
         UNCHANGED <<calm, near, flows, links, relayBoardVars>>,
         /\ d # Idle => mail[b][d.box].of # 0 /\ d.box \in Versions
         /\ d \in Begun \cup Half => PartFits(d)
         /\ d \in Half => Owned(b, d.head, d.part)
  PROVE  RelayInv'
<1>1. UNCHANGED <<burst, chanSeq, mail, pair, admitted>>
  BY DEF relayBoardVars
<1>2. /\ links' \in [Boards \X Relays -> Seq(Cells)] /\ LinksAreOwned' /\ pair' \in [Relays -> PairSpace]
      /\ mail' \in [Relays -> [Versions -> BoxSpace]] /\ BoxesStay
  BY <1>1, SameLinks DEF RelayInv, RelayTyped, BoxesStay
<1> QED  BY <1>1, <1>2, LoopStep

LEMMA ChooseStep ==
  ASSUME RelayInv, RelayAssumption, NEW b \in Relays, Choose(b)
  PROVE  RelayInv'
<1> DEFINE v == drain[b].box
           p == IF v # "v2" THEN v ELSE IF pair[b].aSent THEN "B" ELSE "A"
           d == [at |-> "begun", box |-> v, part |-> p]
<1>1. drain[b] # Idle /\ v \in Versions /\ mail[b][v].of # 0
  <2>1. drain[b] # Idle
    BY DEF Choose, Steps, Idle
  <2> QED  BY <2>1, DrainBox DEF RelayInv, DrainIsOwned
<1>2. p \in ForwardParts /\ IF v = "v2" THEN p \in {"A", "B"} ELSE p = v
  BY <1>1 DEF ForwardParts, RelayAssumption
<1>3. GoesOn(b, d) /\ UNCHANGED <<calm, near, flows, links, relayBoardVars>>
  BY DEF Choose
<1> HIDE DEF p, v
<1>4. d \in Begun /\ d \notin Half /\ d.box = v /\ PartFits(d) /\ d \in DrainSpace
  BY <1>1, <1>2 DEF Begun, Half, DrainSpace, PartFits
<1> HIDE DEF d
<1> QED  BY <1>1, <1>2, <1>3, <1>4, LoopGoesOn

LEMMA CopyHeadStep ==
  ASSUME RelayInv, RelayAssumption, NEW b \in Relays, CopyHead(b)
  PROVE  RelayInv'
<1> DEFINE v == drain[b].box
           p == drain[b].part
           f == mail[b][v].of
           d == [at |-> "half", box |-> v, part |-> p, head |-> f]
<1>1. drain[b] # Idle /\ v \in Versions /\ f # 0 /\ drain[b] \in Begun
  <2>1. drain[b] # Idle /\ drain[b] \notin Cleared \cup Half \cup Sent
    BY DEF CopyHead, Steps, Idle, Cleared, Half, Sent
  <2> QED  BY <2>1, DrainBox DEF RelayInv, DrainIsOwned
<1>2. p \in ForwardParts /\ (p = "v0" => v = "v0") /\ PartFits(drain[b])
  BY <1>1 DEF Begun, RelayInv, DrainIsOwned, PartFits
<1>3. Owned(b, f, v)
  BY <1>1 DEF RelayInv, MailIsOwned
<1>4. f \in Flows /\ Owned(b, f, p)
  BY <1>2, <1>3, FlowIs DEF Owned, OwnedIn, RelayInv
<1>5. GoesOn(b, d) /\ UNCHANGED <<calm, near, flows, links, relayBoardVars>>
  BY DEF CopyHead
<1> HIDE DEF p, v, f
<1>6. /\ d \in Half /\ d.box = v /\ d.part = p /\ d.head = f /\ d \in DrainSpace
      /\ PartFits(d)
  BY <1>1, <1>2, <1>4 DEF Half, DrainSpace, PartFits, v, p
<1> HIDE DEF d
<1> QED  BY <1>1, <1>2, <1>4, <1>5, <1>6, LoopGoesOn DEF f

LEMMA TransmitStep ==
  ASSUME RelayInv, RelayAssumption, NEW b \in Relays, Transmit(b)
  PROVE  RelayInv'
<1> DEFINE v == drain[b].box
           p == drain[b].part
           f == mail[b][v].of
           c == [part |-> p, head |-> drain[b].head, tail |-> f]
           to == <<b, Route[HopOf(b) + 1]>>
<1>1. drain[b] # Idle /\ v \in Versions /\ f # 0 /\ drain[b] \in Half
  <2>1. drain[b] # Idle /\ drain[b] \notin Cleared \cup Begun \cup Sent
    BY DEF Transmit, Steps, Idle, Cleared, Begun, Sent
  <2> QED  BY <2>1, DrainBox DEF RelayInv, DrainIsOwned
<1>2. /\ p \in ForwardParts /\ (p = "v0" => v = "v0")
      /\ drain[b].head \in Flows /\ Owned(b, drain[b].head, p)
  BY <1>1 DEF Half, RelayInv, DrainIsOwned, PartFits
<1>3. Owned(b, f, v)
  BY <1>1 DEF RelayInv, MailIsOwned
<1>4. f \in Flows /\ Owned(b, f, p)
  BY <1>2, <1>3, FlowIs DEF Owned, OwnedIn, RelayInv
<1>5. c \in Cells /\ Owned(b, c.head, c.part) /\ Owned(b, c.tail, c.part)
  BY <1>2, <1>4 DEF Cells
<1>6. PICK result \in {"ok", "full", "failed"} :
        /\ links' = IF result = "ok" THEN [links EXCEPT ![to] = Put(links[to], c)] ELSE links
        /\ GoesOn(b, IF v # "v2" THEN Idle
                     ELSE [at |-> "sent", box |-> "v2", part |-> p, result |-> result])
  BY DEF Transmit
<1>7. UNCHANGED <<calm, near, flows, burst, chanSeq, mail, pair, admitted>>
  BY DEF Transmit, relayBoardVars
<1>l. links \in [Boards \X Relays -> Seq(Cells)]
  BY DEF RelayInv, RelayTyped
<1>t. links' \in [Boards \X Relays -> Seq(Cells)]
  <2>1. to \in Boards \X Relays => Put(links[to], c) \in Seq(Cells)
    BY <1>l, <1>5, PutIs
  <2> HIDE DEF to, c
  <2> QED  BY <1>l, <1>6, <2>1
<1>k. Keeps
  BY <1>7 DEF Keeps, RelayInv
<1>8. LinksAreOwned'
  <2>1. CellOwnedNext(b, c)
    BY <1>5, <1>k, OwnedStays DEF CellOwnedNext
  <2> HIDE DEF c
  <2>2. ASSUME NEW x \in Boards, NEW r \in Relays, NEW i \in DOMAIN links'[<<x, r>>]
        PROVE  \/ \E j \in DOMAIN links[<<x, r>>] : links'[<<x, r>>][i] = links[<<x, r>>][j]
               \/ CellOwnedNext(x, links'[<<x, r>>][i])
    <3>1. CASE links'[<<x, r>>] = links[<<x, r>>]
      BY <3>1
    <3>2. CASE links'[<<x, r>>] # links[<<x, r>>]
      <4>1. <<x, r>> = to /\ links'[<<x, r>>] = Put(links[<<x, r>>], c) /\ x = b
        BY <3>2, <1>l, <1>6
      <4> DEFINE q == links[<<x, r>>]
      <4>2. q \in Seq(Cells) /\ c \in Cells /\ i \in DOMAIN Put(q, c)
        BY <4>1, <1>l, <1>5
      <4> HIDE DEF q
      <4>5. Put(q, c)[i] = c \/ \E j \in DOMAIN q : Put(q, c)[i] = q[j]
        BY <4>2, PutIs
      <4> QED  BY <4>1, <4>5, <2>1 DEF q
    <3> QED  BY <3>1, <3>2
  <2> QED  BY <2>2, <1>k, LinksStayOwned DEF RelayInv
<1> DEFINE d == IF v # "v2" THEN Idle
                ELSE [at |-> "sent", box |-> "v2", part |-> p, result |-> result]
<1>9. /\ d \in DrainSpace /\ d \notin Begun \cup Half
      /\ d # Idle => d.box = v
  <2>1. CASE v # "v2"
    BY <2>1 DEF DrainSpace, Begun, Half, Idle
  <2>2. CASE v = "v2"
    <3>1. p \in {"A", "B"}
      BY <2>2, <1>1 DEF RelayInv, DrainIsOwned, PartFits
    <3> HIDE DEF p, v
    <3> QED  BY <2>2, <3>1, <1>1 DEF DrainSpace, Begun, Half, Sent
  <2> QED  BY <2>1, <2>2
<1>10. GoesOn(b, d)
  BY <1>6
<1>11. /\ pair' \in [Relays -> PairSpace]
       /\ mail' \in [Relays -> [Versions -> BoxSpace]] /\ BoxesStay
  BY <1>7 DEF RelayInv, RelayTyped, BoxesStay
<1> HIDE DEF d
<1> QED  BY <1>1, <1>7, <1>t, <1>8, <1>9, <1>10, <1>11, LoopStep

LEMMA AfterStep ==
  ASSUME RelayInv, RelayAssumption, NEW b \in Relays, AfterSend(b)
  PROVE  RelayInv'
<1>1. "v2" \in Versions /\ mail[b]["v2"].of # 0
  <2>1. drain[b] # Idle /\ drain[b] \notin Cleared \cup Begun \cup Half
    BY DEF AfterSend, Steps, Idle, Cleared, Begun, Half
  <2>2. drain[b] \in Sent /\ mail[b][drain[b].box].of # 0
    BY <2>1, DrainBox DEF RelayInv, DrainIsOwned
  <2> QED  BY <2>2 DEF Sent
<1>2. AfterA(b, drain[b].result) \/ AfterB(b, drain[b].result)
  BY DEF AfterSend
<1>m. mail' = mail \/ mail' = [mail EXCEPT ![b]["v2"].full = TRUE]
  BY <1>2 DEF AfterA, AfterB
<1>3. /\ mail' \in [Relays -> [Versions -> BoxSpace]]
      /\ \A r \in Relays, w \in Versions :
           /\ mail'[r][w].of = mail[r][w].of
           /\ mail'[r][w].full => mail[r][w].full \/ mail[r][w].of # 0
  <2>1. CASE mail' = mail
    BY <2>1 DEF RelayInv, RelayTyped
  <2>2. CASE mail' = [mail EXCEPT ![b]["v2"].full = TRUE]
    <3>1. /\ mail' \in [Relays -> [Versions -> BoxSpace]]
          /\ \A r \in Relays, w \in Versions : mail'[r][w].of = mail[r][w].of
          /\ \A r \in Relays, w \in Versions : <<r, w>> # <<b, "v2">> => mail'[r][w] = mail[r][w]
      BY <2>2, <1>1, BoxFlag
    <3>2. ASSUME NEW r \in Relays, NEW w \in Versions, mail'[r][w].full
          PROVE  mail[r][w].full \/ mail[r][w].of # 0
      BY <3>1, <3>2, <1>1
    <3> QED  BY <3>1, <3>2
  <2> QED  BY <1>m, <2>1, <2>2
<1>4. pair' \in [Relays -> PairSpace]
  <2>t. pair \in [Relays -> PairSpace] /\ pair[b] \in PairSpace /\ CellBSends \in Nat
    BY DEF RelayInv, RelayTyped, RelayAssumption
  <2> DEFINE left == pair[b].left
             a == [pair[b] EXCEPT !.aSent = TRUE]
             z == [aSent |-> pair[b].aSent /\ left > 1, left |-> left - 1]
  <2>1. a \in PairSpace
    BY <2>t DEF PairSpace
  <2>2. left > 0 => z \in PairSpace
    BY <2>t DEF PairSpace
  <2>3. \/ pair' = pair \/ pair' = [pair EXCEPT ![b] = a]
        \/ left > 0 /\ pair' = [pair EXCEPT ![b] = z]
    BY <1>2 DEF AfterA, AfterB
  <2> HIDE DEF a, z, left
  <2> QED  BY <2>t, <2>1, <2>2, <2>3
<1>5. links' \in [Boards \X Relays -> Seq(Cells)] /\ LinksAreOwned'
  BY SameLinks DEF AfterSend
<1>6. /\ Idle \in DrainSpace /\ GoesOn(b, Idle) /\ Idle \notin Begun \cup Half
      /\ UNCHANGED <<calm, near, flows, burst, chanSeq, admitted>>
  BY DEF AfterSend, DrainSpace, Idle, Begun, Half
<1>7. BoxesStay
  BY <1>3 DEF BoxesStay
<1> QED  BY <1>3, <1>4, <1>5, <1>6, <1>7, LoopStep

-----------------------------------------------------------------------------
(* Forwards: the theorems *)

\* The inductive invariant: whatever is on the air, in a mailbox or under the hands of
\* a main loop is of flows its board admitted, and channels are past what was admitted.
THEOREM RelayInvariant == RelaySpec => []RelayInv
<1>1. RelayInit => RelayInv
  BY RelayAssumption, RelayBegins
<1>2. RelayInv /\ [RelayNext]_relayVars => RelayInv'
  <2> SUFFICES ASSUME RelayInv, [RelayNext]_relayVars PROVE RelayInv'
    OBVIOUS
  <2> USE RelayAssumption
  <2>1. CASE \E v \in Versions : Begin(v)
    BY <2>1, BeginStep
  <2>2. CASE \E f \in DOMAIN flows : InjectCell(f)
    BY <2>2, InjectStep
  <2>3. CASE \E b \in Relays, s \in {Origin} \cup Relays : HearCell(b, s)
    BY <2>3, HearStep DEF Boards
  <2>4. CASE \E b \in Relays, v \in Versions : Clear(b, v)
    BY <2>4, ClearStep
  <2>5. CASE \E b \in Relays : Choose(b)
    BY <2>5, ChooseStep
  <2>6. CASE \E b \in Relays : CopyHead(b)
    BY <2>6, CopyHeadStep
  <2>7. CASE \E b \in Relays : Transmit(b)
    BY <2>7, TransmitStep
  <2>8. CASE \E b \in Relays : AfterSend(b)
    BY <2>8, AfterStep
  <2>9. CASE UNCHANGED relayVars
    <3>1. RelayTyped' /\ DuesAreTheFlows' /\ UnpaidHaveNoSeq'
      BY <2>9 DEF relayVars, RelayInv, RelayTyped, DuesAreTheFlows, UnpaidHaveNoSeq
    <3>2. LinksAreOwned'
      BY <2>9, SameLinks DEF relayVars
    <3>3. MailIsOwned'
      BY <2>9 DEF relayVars, RelayInv, MailIsOwned, Owned, OwnedIn
    <3>4. DrainIsOwned'
      BY <2>9 DEF relayVars, RelayInv, DrainIsOwned, PartFits, Owned, OwnedIn
    <3>5. AdmissionsAreCounted' /\ NoHopLeftOut'
      BY <2>9 DEF relayVars, RelayInv, AdmissionsAreCounted, NoHopLeftOut
    <3> QED  BY <3>1, <3>2, <3>3, <3>4, <3>5 DEF RelayInv
  <2> QED  BY <2>1, <2>2, <2>3, <2>4, <2>5, <2>6, <2>7, <2>8, <2>9 DEF RelayNext
<1> QED  BY <1>1, <1>2, PTL DEF RelaySpec

\* Every variable of a relay keeps its type.
THEOREM RelayTypeCorrect == RelaySpec => []RelayTypeOK
<1>1. RelayInv => RelayTypeOK
  <2> SUFFICES ASSUME RelayInv PROVE RelayTypeOK
    OBVIOUS
  <2> USE RelayAssumption
  <2>1. \A f \in DOMAIN flows : flows[f] \in FlowSpace
    BY FlowIs DEF RelayInv
  <2>2. \A l \in DOMAIN links : Range(links[l]) \subseteq Cells
    <3>1. links \in [Boards \X Relays -> Seq(Cells)]
      BY DEF RelayInv, RelayTyped
    <3> SUFFICES ASSUME NEW l \in Boards \X Relays, NEW i \in DOMAIN links[l]
                 PROVE  links[l][i] \in Cells
      BY <3>1 DEF Range
    <3> QED  BY <3>1
  <2>3. \A b \in Relays :
          \/ drain[b] = Idle
          \/ drain[b] \in Cleared \/ drain[b] \in Begun \/ drain[b] \in Half \/ drain[b] \in Sent
    BY DrainBox DEF RelayInv
  <2>4. Sent \subseteq [at : {"sent"}, box : {"v2"}, part : {"A", "B"}, result : {"ok", "full", "failed"}]
    BY DEF Sent
  <2> QED  BY <2>1, <2>2, <2>3, <2>4
           DEF RelayInv, RelayTyped, RelayTypeOK, FlowSpace, Dues, BoxSpace, PairSpace, Cleared, Begun, Half
<1> QED  BY <1>1, RelayInvariant, PTL

\* No hop is left out.
THEOREM HopsAreKept == RelaySpec => []NoHopLeftOut
<1>1. RelayInv => NoHopLeftOut
  BY DEF RelayInv
<1> QED  BY <1>1, RelayInvariant, PTL

\* A paid forward is admitted once at each hop.
THEOREM PaidIsOnce == RelaySpec => []PaidOncePerHop
<1>1. RelayInv => PaidOncePerHop
  <2> SUFFICES ASSUME RelayInv, NEW b \in Relays, NEW f \in DOMAIN flows, flows[f].version # "v0"
               PROVE  admitted[b][f] <= 1
    BY DEF PaidOncePerHop
  <2>1. f \in Flows /\ admitted[b][f] \in 0..2
    BY FlowIs, RelayAssumption DEF RelayInv, RelayTyped
  <2>2. admitted[b][f] > 0 => admitted[b][f] = 1
    BY <2>1 DEF RelayInv, AdmissionsAreCounted
  <2> QED  BY <2>1, <2>2
<1> QED  BY <1>1, RelayInvariant, PTL

-----------------------------------------------------------------------------
(* Forwards over a calm radio: the inductive invariant *)

\* The flow that was begun last.
Latest == Len(flows)
Kind == flows[Latest].version
KindParts == Range(PartsOf(Kind))

\* A flow is begun when all is quiet, so what is under way is of the latest.
OnlyLatest ==
  /\ \A g \in DOMAIN flows : flows[g].due # <<>> =>
       /\ g = Latest
       /\ flows[g].due = PartsOf(Kind) \/ (Kind = "v2" /\ flows[g].due = <<"B">>)
  /\ \A s \in Boards, r \in Relays : \A j \in DOMAIN links[<<s, r>>] :
       /\ links[<<s, r>>][j].head = Latest /\ links[<<s, r>>][j].tail = Latest
       /\ links[<<s, r>>][j].part \in KindParts
  /\ \A b \in Relays, v \in Versions : mail[b][v].full => v = Kind /\ mail[b][v].of = Latest
  /\ \A b \in Relays : drain[b] # Idle => drain[b].box = Kind /\ mail[b][Kind].of = Latest
  /\ \A b \in Relays : drain[b].at = "half" => drain[b].head = Latest

\* A board sends to the next on the route only, and what it holds is of one piece.
WellSent ==
  /\ \A s, r \in Relays : links[<<s, r>>] # <<>> =>
       \E i \in Hops : i + 1 \in Hops /\ s = Route[i] /\ r = Route[i + 1]
  /\ \A b \in Relays, v \in Versions : mail[b][v].of # 0 =>
       \E i \in Hops : i + 1 \in Hops /\ b = Route[i]
  /\ \A b \in Relays : burst[b] # NoBurst => Intact(burst[b][1])
  /\ Route[1] \in near

\* The channel of a board is where a forward it admitted has put it.
ChannelsAreOfFlows ==
  /\ \A f \in DOMAIN flows : flows[f].version # "v0" => flows[f].seq > 0
  /\ \A b \in Relays : chanSeq[b] # 0 =>
       \E g \in DOMAIN flows : /\ flows[g].version # "v0" /\ admitted[b][g] > 0
                               /\ chanSeq[b] = flows[g].seq

\* Where a board is with a v2 burst: nothing to do, a part to be sent, or just sent.
Unburdened(b) == ~mail[b]["v2"].full /\ drain[b] = Idle
Waiting(b, part) ==
  \/ mail[b]["v2"].full /\ drain[b] = Idle
  \/ /\ ~mail[b]["v2"].full
     /\ \/ drain[b].at = "cleared"
        \/ drain[b].at \in {"begun", "half"} /\ drain[b].part = part
        \/ drain[b].at = "sent" /\ drain[b].part = part /\ drain[b].result = "full"
JustSent(b, part) ==
  ~mail[b]["v2"].full /\ drain[b].at = "sent" /\ drain[b].part = part /\ drain[b].result = "ok"
BeforeA(b) == ~pair[b].aSent /\ pair[b].left = CellBSends
BeforeB(b) == pair[b].aSent /\ pair[b].left > 0
SendsA(b) == BeforeA(b) /\ Waiting(b, "A")
SentA(b) == BeforeA(b) /\ JustSent(b, "A")
SendsB(b) == BeforeB(b) /\ Waiting(b, "B")
SentB(b) == BeforeB(b) /\ JustSent(b, "B")

\* No second burst is put into the mailbox while the first is being sent.
InPhase(b) == Unburdened(b) \/ SendsA(b) \/ SentA(b) \/ SendsB(b) \/ SentB(b)
BoxesGoOn == Kind = "v2" => \A b \in Relays : InPhase(b)

\* The parts that a board has not sent yet.
Unsent(b) ==
  IF Kind # "v2" THEN IF mail[b][Kind].full \/ drain[b] # Idle THEN {Kind} ELSE {}
  ELSE IF SendsA(b) THEN {"A", "B"}
  ELSE IF SentA(b) \/ SendsB(b) THEN {"B"} ELSE {}

\* On every link Cell A comes before Cell B.
AThenB(q) == \A j, k \in DOMAIN q : j < k /\ q[j].part = "B" => q[k].part = "B"
LanesInOrder ==
  /\ \A s \in Boards, r \in Relays : AThenB(links[<<s, r>>])
  /\ "A" \in Range(flows[Latest].due) => \A r \in Relays : links[<<Origin, r>>] = <<>>
  /\ \A s, r \in Relays : "A" \in Unsent(s) => links[<<s, r>>] = <<>>

\* The i-th hop: what is before it, and what is still to come to it.
Before(i) == IF i = 1 THEN Origin ELSE Route[i - 1]
Lane(i) == links[<<Before(i), Route[i]>>]
ToHop(i) == IF i = 1 THEN Range(flows[Latest].due) ELSE Unsent(Route[i - 1])
Reached(i) == admitted[Route[i]][Latest] > 0
Armed(b) == burst[b] # NoBurst /\ burst[b][1].head = Latest

\* Each part is to be sent, on the link or, of Cell A, in the slot.
Comes(i, part) ==
  \/ part \in ToHop(i)
  \/ \E j \in DOMAIN Lane(i) : Lane(i)[j].part = part
  \/ part = "A" /\ Armed(Route[i])
UnderWay(i) == \A part \in KindParts : Comes(i, part)

AllProvisioned == Range(Route) \subseteq Provisioned

LatestGoesOn ==
  Timely(Latest) /\ AllProvisioned =>
    \A i \in Hops : (i = 1 \/ Reached(i - 1)) => Reached(i) \/ UnderWay(i)

EarlierArrived ==
  AllProvisioned =>
    \A g \in DOMAIN flows : g # Latest /\ Timely(g) => admitted[Route[Len(Route)]][g] > 0

CalmInv == OnlyLatest /\ BoxesGoOn /\ LanesInOrder /\ LatestGoesOn /\ EarlierArrived

LoneInv ==
  calm => WellSent /\ ChannelsAreOfFlows /\ (flows # <<>> => CalmInv)

-----------------------------------------------------------------------------

\* A flow and its parts.
LEMMA LatestIs ==
  ASSUME RelayInv, RelayAssumption, flows # <<>>
  PROVE  /\ Latest \in DOMAIN flows /\ Latest \in Flows /\ Latest # 0 /\ Latest = Len(flows)
         /\ Kind \in Versions /\ Kind \in {"v0", "v1", "v2"}
         /\ Kind = "v2" => KindParts = {"A", "B"}
         /\ Kind # "v2" => KindParts = {Kind}
<1>1. flows \in Seq(FlowSpace)
  BY DEF RelayInv, RelayTyped
<1>2. Latest \in DOMAIN flows /\ Latest # 0 /\ Latest = Len(flows)
  BY <1>1 DEF Latest
<1>3. Latest \in Flows /\ flows[Latest] \in FlowSpace
  BY <1>2, FlowIs DEF RelayInv
<1>4. Kind \in Versions /\ Kind \in {"v0", "v1", "v2"}
  BY <1>3 DEF Kind, FlowSpace, RelayAssumption
<1> DEFINE k == Kind
<1> HIDE DEF k
<1>5. k = "v2" => Range(PartsOf(k)) = {"A", "B"}
  BY DEF PartsOf, Range
<1>6. k # "v2" => Range(PartsOf(k)) = {k}
  BY DEF PartsOf, Range
<1> QED  BY <1>2, <1>3, <1>4, <1>5, <1>6 DEF KindParts, k

\* A board with a forward to send has admitted the latest flow.
LEMMA ActiveIs ==
  ASSUME RelayInv, RelayAssumption, LoneInv, calm, NEW b \in Relays, NEW v \in Versions,
         mail[b][v].full \/ (drain[b] # Idle /\ drain[b].box = v)
  PROVE  /\ flows # <<>> /\ CalmInv /\ v = Kind /\ mail[b][v].of = Latest
         /\ admitted[b][Latest] > 0
         /\ \E i \in Hops : i + 1 \in Hops /\ b = Route[i]
<1>1. mail[b][v].of # 0
  BY DEF RelayInv, MailIsOwned, DrainIsOwned
<1>2. Owned(b, mail[b][v].of, v)
  BY <1>1 DEF RelayInv, MailIsOwned
<1>3. flows # <<>>
  BY <1>2 DEF Owned, OwnedIn
<1>4. CalmInv
  BY <1>3 DEF LoneInv
<1>5. v = Kind /\ mail[b][v].of = Latest
  BY <1>4 DEF CalmInv, OnlyLatest
<1> QED  BY <1>1, <1>2, <1>3, <1>4, <1>5 DEF Owned, OwnedIn, LoneInv, WellSent

-----------------------------------------------------------------------------
(* What a step keeps *)

\* The flows are those they were, but for what is due.
FlowsStay ==
  /\ Len(flows') = Len(flows) /\ DOMAIN flows' = DOMAIN flows
  /\ \A g \in DOMAIN flows : flows'[g].version = flows[g].version /\ flows'[g].seq = flows[g].seq

LEMMA LatestStays ==
  ASSUME RelayInv, RelayAssumption, FlowsStay, flows # <<>>
  PROVE  /\ Latest' = Latest /\ Kind' = Kind /\ KindParts' = KindParts
         /\ Timely(Latest)' <=> Timely(Latest)
         /\ \A g \in DOMAIN flows : Timely(g)' <=> Timely(g)
<1>1. Latest' = Latest /\ Latest \in DOMAIN flows
  BY LatestIs DEF FlowsStay, Latest
<1>2. Kind' = Kind
  BY <1>1 DEF Kind, FlowsStay
<1>3. KindParts' = KindParts
  BY <1>2 DEF KindParts
<1>4. \A g \in DOMAIN flows : Timely(g)' <=> Timely(g)
  <2> SUFFICES ASSUME NEW g \in DOMAIN flows  PROVE Timely(g)' <=> Timely(g)
    OBVIOUS
  <2>1. \A h \in 1..(g - 1) : h \in DOMAIN flows
    BY DEF RelayInv, RelayTyped
  <2> QED  BY <2>1 DEF Timely, FlowsStay
<1>5. Timely(Latest)' <=> Timely(Latest)
  <2>1. PICK n \in DOMAIN flows : n = Latest
    BY <1>1
  <2>2. Timely(n)' <=> Timely(n)
    BY <1>4
  <2>3. Timely(Latest)' <=> Timely(n)'
    BY <1>1, <2>1 DEF Timely
  <2> QED  BY <2>1, <2>2, <2>3
<1> QED  BY <1>1, <1>2, <1>3, <1>4, <1>5

\* What arrived stays so.
LEMMA EarlierStay ==
  ASSUME RelayInv, RelayAssumption, FlowsStay, flows # <<>>, EarlierArrived,
         \A b \in Relays, g \in DOMAIN flows : admitted[b][g] > 0 => admitted'[b][g] > 0
  PROVE  EarlierArrived'
<1>1. Route[Len(Route)] \in Relays
  BY RouteIs
<1>2. Latest' = Latest /\ DOMAIN flows' = DOMAIN flows
      /\ \A g \in DOMAIN flows : Timely(g)' <=> Timely(g)
  BY LatestStays DEF FlowsStay
<1> QED  BY <1>1, <1>2 DEF EarlierArrived, AllProvisioned

\* The latest flow goes on.
LEMMA GoesOnStays ==
  ASSUME RelayInv, RelayAssumption, FlowsStay, flows # <<>>, LatestGoesOn,
         \A i \in Hops : Timely(Latest) /\ AllProvisioned =>
           /\ Reached(i) => Reached(i)'
           /\ UnderWay(i) /\ (i = 1 \/ Reached(i - 1)) => UnderWay(i)' \/ Reached(i)'
           /\ i # 1 /\ Reached(i - 1)' /\ ~Reached(i - 1) => UnderWay(i)' \/ Reached(i)'
  PROVE  LatestGoesOn'
<1>1. Timely(Latest)' <=> Timely(Latest)
  BY LatestStays
<1> SUFFICES ASSUME Timely(Latest), AllProvisioned, NEW i \in Hops, i = 1 \/ Reached(i - 1)'
             PROVE  Reached(i)' \/ UnderWay(i)'
  BY <1>1 DEF LatestGoesOn, AllProvisioned
<1>2. (i = 1 \/ Reached(i - 1)) => Reached(i) \/ UnderWay(i)
  BY DEF LatestGoesOn
<1> QED  BY <1>2

\* A board whose box, pair and drain a step leaves alone.
LEMMA PhaseStays ==
  ASSUME NEW r \in Relays, mail'[r] = mail[r], pair'[r] = pair[r], drain'[r] = drain[r], Kind' = Kind
  PROVE  (InPhase(r)' <=> InPhase(r)) /\ Unsent(r)' = Unsent(r)
<1>1. /\ Unburdened(r)' <=> Unburdened(r)
      /\ BeforeA(r)' <=> BeforeA(r)
      /\ BeforeB(r)' <=> BeforeB(r)
  BY DEF Unburdened, BeforeA, BeforeB
<1>2. /\ Waiting(r, "A")' <=> Waiting(r, "A")
      /\ Waiting(r, "B")' <=> Waiting(r, "B")
  BY DEF Waiting
<1>3. /\ JustSent(r, "A")' <=> JustSent(r, "A")
      /\ JustSent(r, "B")' <=> JustSent(r, "B")
  BY DEF JustSent
<1>4. /\ SendsA(r)' <=> SendsA(r)
      /\ SentA(r)' <=> SentA(r)
      /\ SendsB(r)' <=> SendsB(r)
      /\ SentB(r)' <=> SentB(r)
  BY <1>1, <1>2, <1>3 DEF SendsA, SentA, SendsB, SentB
<1>5. InPhase(r)' <=> InPhase(r)
  BY <1>1, <1>4 DEF InPhase
<1>6. Unsent(r)' = Unsent(r)
  BY <1>4 DEF Unsent
<1> QED  BY <1>5, <1>6

\* What is before the i-th hop.
LEMMA BeforeIs ==
  ASSUME RelayAssumption, NEW i \in Hops
  PROVE  /\ Route[i] \in Relays /\ Before(i) \in Boards /\ i \in Nat /\ i # 0
         /\ i = 1 => Before(i) = Origin
         /\ i # 1 => i - 1 \in Hops /\ Before(i) = Route[i - 1] /\ Route[i - 1] \in Relays
<1>1. Hops = 1..Len(Route) /\ Len(Route) \in Nat /\ \A k \in Hops : Route[k] \in Relays
  BY RouteIs
<1>2. i # 1 => i - 1 \in Hops
  BY <1>1
<1> QED  BY <1>1, <1>2 DEF Before, Boards

\* A part that comes still does when nothing is taken from the lane and the slot.
LEMMA ComingStays ==
  ASSUME RelayInv, RelayAssumption, FlowsStay, flows # <<>>, NEW i \in Hops, UnderWay(i),
         ToHop(i) \subseteq ToHop(i)', Lane(i)' = Lane(i), burst' = burst
  PROVE  UnderWay(i)'
<1>1. Latest' = Latest /\ KindParts' = KindParts
  BY LatestStays
<1>2. Armed(Route[i])' <=> Armed(Route[i])
  BY <1>1 DEF Armed
<1> SUFFICES ASSUME NEW part \in KindParts  PROVE Comes(i, part)'
  BY <1>1 DEF UnderWay
<1>3. Comes(i, part)
  BY DEF UnderWay
<1>4. part \in ToHop(i) => part \in ToHop(i)'
  OBVIOUS
<1> QED  BY <1>2, <1>3, <1>4 DEF Comes

\* A step of the main loop of board b that sends nothing.
LEMMA LoopKeepsCalm ==
  ASSUME RelayInv, RelayAssumption, LoneInv, calm, flows # <<>>, NEW b \in Relays,
         UNCHANGED <<calm, near, flows, links, burst, chanSeq, admitted>>,
         \A r \in Relays : r # b => mail'[r] = mail[r] /\ pair'[r] = pair[r] /\ drain'[r] = drain[r],
         \A v \in Versions : /\ mail'[b][v].of = mail[b][v].of
                             /\ mail'[b][v].full => v = Kind /\ mail[b][v].of = Latest,
         drain'[b] # Idle => drain'[b].box = Kind /\ mail[b][Kind].of = Latest,
         drain'[b].at = "half" => drain'[b].head = Latest,
         Kind = "v2" => InPhase(b)',
         Unsent(b) \subseteq Unsent(b)', "A" \in Unsent(b)' => "A" \in Unsent(b)
  PROVE  LoneInv'
<1>0. CalmInv /\ WellSent /\ ChannelsAreOfFlows
  BY DEF LoneInv
<1>f. FlowsStay
  BY DEF FlowsStay
<1>k. Latest' = Latest /\ Kind' = Kind /\ KindParts' = KindParts /\ Kind \in Versions
  BY <1>f, LatestStays, LatestIs
<1>1. WellSent'
  <2>1. ASSUME NEW r \in Relays, NEW v \in Versions  PROVE mail'[r][v].of = mail[r][v].of
    <3>1. CASE r = b
      BY <3>1
    <3>2. CASE r # b
      <4>1. mail'[r] = mail[r]
        BY <3>2
      <4> QED  BY <4>1
    <3> QED  BY <3>1, <3>2
  <2> QED  BY <2>1, <1>0 DEF WellSent
<1>2. ChannelsAreOfFlows'
  BY <1>0 DEF ChannelsAreOfFlows
<1>3. OnlyLatest'
  <2>1. \A g \in DOMAIN flows : flows[g].due # <<>> =>
          /\ g = Latest
          /\ flows[g].due = PartsOf(Kind) \/ (Kind = "v2" /\ flows[g].due = <<"B">>)
    BY <1>0 DEF CalmInv, OnlyLatest
  <2>2. \A s \in Boards, r \in Relays : \A j \in DOMAIN links[<<s, r>>] :
          /\ links[<<s, r>>][j].head = Latest /\ links[<<s, r>>][j].tail = Latest
          /\ links[<<s, r>>][j].part \in KindParts
    BY <1>0 DEF CalmInv, OnlyLatest
  <2>3. ASSUME NEW r \in Relays, NEW v \in Versions, mail'[r][v].full
        PROVE  v = Kind /\ mail'[r][v].of = Latest
    <3>1. CASE r = b
      BY <2>3, <3>1
    <3>2. CASE r # b
      <4>1. mail'[r] = mail[r]
        BY <3>2
      <4> QED  BY <2>3, <4>1, <1>0 DEF CalmInv, OnlyLatest
    <3> QED  BY <3>1, <3>2
  <2>4. ASSUME NEW r \in Relays, drain'[r] # Idle
        PROVE  drain'[r].box = Kind /\ mail'[r][Kind].of = Latest
    <3>1. CASE r = b
      BY <2>4, <3>1, <1>k
    <3>2. CASE r # b
      <4>1. mail'[r] = mail[r] /\ drain'[r] = drain[r]
        BY <3>2
      <4> QED  BY <2>4, <4>1, <1>0 DEF CalmInv, OnlyLatest
    <3> QED  BY <3>1, <3>2
  <2>5. ASSUME NEW r \in Relays, drain'[r].at = "half"
        PROVE  drain'[r].head = Latest
    <3>1. CASE r = b
      BY <2>5, <3>1
    <3>2. CASE r # b
      <4>1. drain'[r] = drain[r]
        BY <3>2
      <4> QED  BY <2>5, <4>1, <1>0 DEF CalmInv, OnlyLatest
    <3> QED  BY <3>1, <3>2
  <2>6. flows' = flows /\ links' = links
    OBVIOUS
  <2> QED  BY <2>1, <2>2, <2>3, <2>4, <2>5, <2>6, <1>k DEF OnlyLatest
<1>4. BoxesGoOn'
  BY <1>0, <1>k, PhaseStays DEF CalmInv, BoxesGoOn
<1>5. \A r \in Relays : Unsent(r) \subseteq Unsent(r)' /\ ("A" \in Unsent(r)' => "A" \in Unsent(r))
  BY <1>k, PhaseStays
<1>6. LanesInOrder'
  <2>1. \A s \in Boards, r \in Relays : AThenB(links[<<s, r>>])
    BY <1>0 DEF CalmInv, LanesInOrder
  <2>2. "A" \in Range(flows[Latest].due) => \A r \in Relays : links[<<Origin, r>>] = <<>>
    BY <1>0 DEF CalmInv, LanesInOrder
  <2>3. \A s, r \in Relays : "A" \in Unsent(s)' => links[<<s, r>>] = <<>>
    BY <1>0, <1>5 DEF CalmInv, LanesInOrder
  <2>4. flows' = flows /\ links' = links
    OBVIOUS
  <2> QED  BY <2>1, <2>2, <2>3, <2>4, <1>k DEF LanesInOrder, AThenB
<1>7. LatestGoesOn'
  <2>1. \A i \in Hops : Reached(i)' <=> Reached(i)
    BY <1>k DEF Reached
  <2>2. \A i \in Hops : i # 1 => (Reached(i - 1)' <=> Reached(i - 1))
    BY <2>1, BeforeIs
  <2>3. ASSUME NEW i \in Hops, UnderWay(i)  PROVE UnderWay(i)'
    <3>1. ToHop(i) \subseteq ToHop(i)'
      <4>1. CASE i = 1
        BY <4>1, <1>k DEF ToHop
      <4>2. CASE i # 1
        <5>1. Route[i - 1] \in Relays
          BY <4>2, BeforeIs
        <5>2. PICK r \in Relays : r = Route[i - 1]
          BY <5>1
        <5>3. Unsent(r) \subseteq Unsent(r)'
          BY <1>5
        <5>4. ToHop(i) = Unsent(r) /\ ToHop(i)' = Unsent(r)'
          BY <4>2, <5>2 DEF ToHop
        <5> QED  BY <5>3, <5>4
      <4> QED  BY <4>1, <4>2
    <3>2. Lane(i)' = Lane(i)
      BY DEF Lane
    <3> QED  BY <3>1, <3>2, <2>3, <1>f, ComingStays
  <2>4. LatestGoesOn
    BY <1>0 DEF CalmInv
  <2> QED  BY <2>1, <2>2, <2>3, <2>4, <1>f, GoesOnStays
<1>8. EarlierArrived'
  BY <1>0, <1>f, EarlierStay DEF CalmInv
<1> QED  BY <1>1, <1>2, <1>3, <1>4, <1>6, <1>7, <1>8 DEF LoneInv, CalmInv

\* A record of a drain is told by where it is.
LEMMA DrainAt ==
  ASSUME RelayInv, NEW b \in Relays
  PROVE  /\ drain[b].at = "idle" <=> drain[b] = Idle
         /\ drain[b] # Idle => drain[b].box \in Versions
         /\ drain[b] # Idle => drain[b].at \in {"cleared", "begun", "half", "sent"}
         /\ drain[b].at = "sent" => /\ drain[b].box = "v2" /\ "v2" \in Versions
                                    /\ drain[b].part \in {"A", "B"}
                                    /\ drain[b].result \in {"ok", "full", "failed"}
<1>1. CASE drain[b] = Idle
  BY <1>1 DEF Idle
<1>2. CASE drain[b] # Idle
  <2>1. drain[b] \in Cleared \cup Begun \cup Half \cup Sent /\ drain[b].box \in Versions
    BY <1>2, DrainBox DEF RelayInv
  <2>2. drain[b].at \in {"cleared", "begun", "half", "sent"}
    BY <2>1 DEF Cleared, Begun, Half, Sent
  <2>3. drain[b].at = "sent" => drain[b] \in Sent
    BY <2>1 DEF Cleared, Begun, Half
  <2>4. drain[b] \in Sent => /\ drain[b].box = "v2" /\ "v2" \in Versions
                            /\ drain[b].part \in {"A", "B"}
                            /\ drain[b].result \in {"ok", "full", "failed"}
    BY DEF Sent
  <2> QED  BY <1>2, <2>1, <2>2, <2>3, <2>4
<1> QED  BY <1>1, <1>2

LEMMA ClearCalm ==
  ASSUME RelayInv, RelayAssumption, LoneInv, calm, NEW b \in Relays, NEW v \in Versions, Clear(b, v)
  PROVE  LoneInv'
<1> DEFINE d == [at |-> "cleared", box |-> v]
<1>1. /\ mail[b][v].full /\ mail' = [mail EXCEPT ![b][v].full = FALSE]
      /\ drain' = [drain EXCEPT ![b] = d] /\ drain[b].at = "idle"
      /\ UNCHANGED <<calm, near, flows, links, burst, chanSeq, pair, admitted>>
  BY DEF Clear, GoesOn, Steps
<1>2. /\ flows # <<>> /\ CalmInv /\ v = Kind /\ mail[b][v].of = Latest
  BY <1>1, ActiveIs
<1>3. /\ \A r \in Relays, w \in Versions : mail'[r][w].of = mail[r][w].of
      /\ ~mail'[b][v].full
      /\ \A r \in Relays, w \in Versions : <<r, w>> # <<b, v>> => mail'[r][w] = mail[r][w]
      /\ mail \in [Relays -> [Versions -> BoxSpace]] /\ drain \in [Relays -> DrainSpace]
  BY <1>1, BoxFlag DEF RelayInv, RelayTyped
<1>4. /\ drain'[b] = d /\ d.at = "cleared" /\ d.box = v /\ d # Idle
      /\ \A r \in Relays : r # b => mail'[r] = mail[r] /\ pair'[r] = pair[r] /\ drain'[r] = drain[r]
  BY <1>1, <1>3 DEF Idle
<1>5. drain[b] = Idle
  BY <1>1, DrainAt
<1> HIDE DEF d
<1>6. \A w \in Versions : mail'[b][w].full => mail[b][w].full
  BY <1>3
<1>7. \A w \in Versions : /\ mail'[b][w].of = mail[b][w].of
                          /\ mail'[b][w].full => w = Kind /\ mail[b][w].of = Latest
  BY <1>2, <1>3, <1>6 DEF CalmInv, OnlyLatest
<1>8. Kind' = Kind
  BY <1>1 DEF Kind, Latest
<1>9. (Kind = "v2" => InPhase(b)') /\ Unsent(b) \subseteq Unsent(b)' /\ ("A" \in Unsent(b)' => "A" \in Unsent(b))
  <2>1. CASE Kind = "v2"
    <3>0. mail[b]["v2"].full /\ ~mail'[b]["v2"].full
      BY <1>1, <1>2, <1>3, <2>1
    <3>1. ~Unburdened(b) /\ ~SentA(b) /\ ~SentB(b)
      BY <3>0 DEF Unburdened, SentA, SentB, JustSent
    <3>2. SendsA(b) \/ SendsB(b)
      BY <3>1, <2>1, <1>2 DEF CalmInv, BoxesGoOn, InPhase
    <3>3. Waiting(b, "A")' /\ Waiting(b, "B")'
      BY <3>0, <1>4 DEF Waiting
    <3>4. (BeforeA(b)' <=> BeforeA(b)) /\ (BeforeB(b)' <=> BeforeB(b))
      BY <1>1 DEF BeforeA, BeforeB
    <3>5. (SendsA(b) => SendsA(b)') /\ (SendsB(b) => SendsB(b)') /\ (SendsA(b)' => SendsA(b))
      BY <3>2, <3>3, <3>4 DEF SendsA, SendsB, BeforeA, BeforeB
    <3> QED  BY <3>1, <3>2, <3>5, <2>1, <1>8 DEF Unsent, InPhase
  <2>2. CASE Kind # "v2"
    BY <2>2, <1>1, <1>2, <1>4, <1>8 DEF Unsent
  <2> QED  BY <2>1, <2>2
<1> QED  BY <1>1, <1>2, <1>4, <1>7, <1>9, LoopKeepsCalm

\* A step of the main loop that only goes on in the drain.
LEMMA DrainCalm ==
  ASSUME RelayInv, RelayAssumption, LoneInv, calm, NEW b \in Relays, NEW d, drain'[b] = d,
         drain[b].at \in {"cleared", "begun"},
         \A r \in Relays : r # b => drain'[r] = drain[r],
         UNCHANGED <<calm, near, flows, links, relayBoardVars>>,
         d.at \in {"begun", "half"}, d.box = drain[b].box,
         d.at = "half" => d.head = mail[b][d.box].of,
         d.box = "v2" /\ drain[b].at = "cleared" => d.part = IF pair[b].aSent THEN "B" ELSE "A",
         d.box = "v2" /\ drain[b].at = "begun" => d.part = drain[b].part
  PROVE  LoneInv'
<1>1. UNCHANGED <<burst, chanSeq, mail, pair, admitted>>
  BY DEF relayBoardVars
<1>2. drain[b] # Idle /\ drain[b].box \in Versions
  BY DrainAt DEF Idle
<1>3. flows # <<>> /\ CalmInv /\ drain[b].box = Kind /\ mail[b][Kind].of = Latest
  <2>1. PICK v \in Versions : drain[b].box = v
    BY <1>2
  <2>2. flows # <<>> /\ CalmInv /\ v = Kind /\ mail[b][v].of = Latest
    BY <1>2, <2>1, ActiveIs
  <2> QED  BY <2>1, <2>2
<1>4. /\ drain'[b] = d /\ d # Idle
      /\ \A r \in Relays : r # b => mail'[r] = mail[r] /\ pair'[r] = pair[r] /\ drain'[r] = drain[r]
  BY <1>1 DEF Idle, RelayInv, RelayTyped
<1>7. \A w \in Versions : /\ mail'[b][w].of = mail[b][w].of
                          /\ mail'[b][w].full => w = Kind /\ mail[b][w].of = Latest
  BY <1>1, <1>3 DEF CalmInv, OnlyLatest
<1>8. Kind' = Kind
  BY <1>1 DEF Kind, Latest
<1>9. (Kind = "v2" => InPhase(b)') /\ Unsent(b) \subseteq Unsent(b)' /\ ("A" \in Unsent(b)' => "A" \in Unsent(b))
  <2>1. CASE Kind = "v2"
    <3>0. drain[b].at # "sent" /\ drain[b] # Idle
      BY <1>2
    <3>1. ~Unburdened(b) /\ ~SentA(b) /\ ~SentB(b)
      BY <3>0 DEF Unburdened, SentA, SentB, JustSent
    <3>2. SendsA(b) \/ SendsB(b)
      BY <3>1, <2>1, <1>3 DEF CalmInv, BoxesGoOn, InPhase
    <3>3. ~mail[b]["v2"].full /\ ~mail'[b]["v2"].full
      BY <3>2, <3>0, <1>1 DEF SendsA, SendsB, Waiting
    <3>4. (BeforeA(b)' <=> BeforeA(b)) /\ (BeforeB(b)' <=> BeforeB(b))
      BY <1>1 DEF BeforeA, BeforeB
    <3>5. SendsA(b) => d.part = "A"
      BY <1>3, <2>1, <3>0 DEF SendsA, BeforeA, Waiting
    <3>6. SendsB(b) => d.part = "B"
      BY <1>3, <2>1, <3>0 DEF SendsB, BeforeB, Waiting
    <3>7. (SendsA(b) => Waiting(b, "A")') /\ (SendsB(b) => Waiting(b, "B")')
      BY <3>3, <3>5, <3>6, <1>4 DEF Waiting
    <3>8. (SendsA(b) => SendsA(b)') /\ (SendsB(b) => SendsB(b)')
      BY <3>4, <3>7 DEF SendsA, SendsB
    <3>9. SendsA(b)' => SendsA(b)
      BY <3>2, <3>4 DEF SendsA, SendsB, BeforeA, BeforeB
    <3> QED  BY <3>1, <3>2, <3>8, <3>9, <2>1, <1>8 DEF Unsent, InPhase
  <2>2. CASE Kind # "v2"
    BY <2>2, <1>1, <1>2, <1>3, <1>4, <1>8 DEF Unsent
  <2> QED  BY <2>1, <2>2
<1> QED  BY <1>1, <1>3, <1>4, <1>7, <1>9, LoopKeepsCalm

LEMMA ChooseCalm ==
  ASSUME RelayInv, RelayAssumption, LoneInv, calm, NEW b \in Relays, Choose(b)
  PROVE  LoneInv'
<1> DEFINE p == IF drain[b].box # "v2" THEN drain[b].box ELSE IF pair[b].aSent THEN "B" ELSE "A"
           d == [at |-> "begun", box |-> drain[b].box, part |-> p]
<1>1. /\ drain[b].at = "cleared" /\ drain' = [drain EXCEPT ![b] = d]
      /\ UNCHANGED <<calm, near, flows, links, relayBoardVars>>
  BY DEF Choose, Steps, GoesOn
<1>0. drain'[b] = d /\ \A r \in Relays : r # b => drain'[r] = drain[r]
  BY <1>1 DEF RelayInv, RelayTyped
<1>2. d.at = "begun" /\ d.box = drain[b].box /\ d.part = p
  OBVIOUS
<1>3. /\ d.box = "v2" /\ drain[b].at = "cleared" => d.part = IF pair[b].aSent THEN "B" ELSE "A"
      /\ d.box = "v2" /\ drain[b].at = "begun" => d.part = drain[b].part
  BY <1>1, <1>2
<1>4. d.at \in {"begun", "half"} /\ drain[b].at \in {"cleared", "begun"} /\ d.at # "half"
  BY <1>1, <1>2
<1> HIDE DEF d, p
<1> QED  BY <1>0, <1>1, <1>2, <1>3, <1>4, DrainCalm

LEMMA CopyHeadCalm ==
  ASSUME RelayInv, RelayAssumption, LoneInv, calm, NEW b \in Relays, CopyHead(b)
  PROVE  LoneInv'
<1> DEFINE d == [at |-> "half", box |-> drain[b].box, part |-> drain[b].part,
                 head |-> mail[b][drain[b].box].of]
<1>1. /\ drain[b].at = "begun" /\ drain' = [drain EXCEPT ![b] = d]
      /\ UNCHANGED <<calm, near, flows, links, relayBoardVars>>
  BY DEF CopyHead, Steps, GoesOn
<1>0. drain'[b] = d /\ \A r \in Relays : r # b => drain'[r] = drain[r]
  BY <1>1 DEF RelayInv, RelayTyped
<1>2. /\ d.at = "half" /\ d.box = drain[b].box /\ d.part = drain[b].part
      /\ d.head = mail[b][d.box].of
  OBVIOUS
<1>3. /\ d.box = "v2" /\ drain[b].at = "cleared" => d.part = IF pair[b].aSent THEN "B" ELSE "A"
      /\ d.box = "v2" /\ drain[b].at = "begun" => d.part = drain[b].part
  BY <1>1, <1>2
<1>4. d.at \in {"begun", "half"} /\ drain[b].at \in {"cleared", "begun"}
  BY <1>1, <1>2
<1> HIDE DEF d
<1> QED  BY <1>0, <1>1, <1>2, <1>3, <1>4, DrainCalm

\* A box is marked full.
LEMMA BoxFilled ==
  ASSUME RelayInv, NEW b \in Relays, NEW v \in Versions, mail' = [mail EXCEPT ![b][v].full = TRUE]
  PROVE  mail'[b][v].full
<1>1. mail \in [Relays -> [Versions -> BoxSpace]]
  BY DEF RelayInv, RelayTyped
<1>2. mail[b] \in [Versions -> BoxSpace] /\ mail[b][v] \in BoxSpace
  BY <1>1
<1>3. mail'[b][v] = [mail[b][v] EXCEPT !.full = TRUE]
  BY <1>1, <1>2
<1> QED  BY <1>2, <1>3 DEF BoxSpace

LEMMA AfterSendCalm ==
  ASSUME RelayInv, RelayAssumption, LoneInv, calm, NEW b \in Relays, AfterSend(b)
  PROVE  LoneInv'
<1>1. /\ drain[b].at = "sent" /\ drain' = [drain EXCEPT ![b] = Idle]
      /\ IF drain[b].part = "A" THEN AfterA(b, drain[b].result) ELSE AfterB(b, drain[b].result)
      /\ UNCHANGED <<calm, near, flows, links, burst, chanSeq, admitted>>
  BY DEF AfterSend, Steps, GoesOn
<1>2. /\ drain[b] # Idle /\ drain[b].box = "v2" /\ "v2" \in Versions
      /\ drain[b].part \in {"A", "B"} /\ drain[b].result \in {"ok", "full", "failed"}
  BY <1>1, DrainAt DEF Idle
<1>3. flows # <<>> /\ CalmInv /\ Kind = "v2" /\ mail[b]["v2"].of = Latest
  BY <1>2, ActiveIs
<1>4. /\ drain'[b] = Idle /\ Idle.at = "idle" /\ \A r \in Relays : r # b => drain'[r] = drain[r]
  BY <1>1 DEF Idle, RelayInv, RelayTyped
<1>5. pair \in [Relays -> PairSpace] /\ mail \in [Relays -> [Versions -> BoxSpace]] /\ CellBSends \in Nat \ {0}
  BY DEF RelayInv, RelayTyped, RelayAssumption
<1>6. pair[b].left \in Nat /\ pair[b].aSent \in BOOLEAN
  BY <1>5 DEF PairSpace
<1>m. mail' = mail \/ mail' = [mail EXCEPT ![b]["v2"].full = TRUE]
  BY <1>1 DEF AfterA, AfterB
<1>p. \A r \in Relays : r # b => pair'[r] = pair[r]
  BY <1>1, <1>5 DEF AfterA, AfterB
<1>7. /\ \A r \in Relays, w \in Versions : mail'[r][w].of = mail[r][w].of
      /\ \A r \in Relays, w \in Versions : <<r, w>> # <<b, "v2">> => mail'[r][w] = mail[r][w]
  <2>1. CASE mail' = mail
    BY <2>1
  <2>2. CASE mail' = [mail EXCEPT ![b]["v2"].full = TRUE]
    BY <2>2, <1>2, BoxFlag
  <2> QED  BY <1>m, <2>1, <2>2
<1>8. ASSUME NEW r \in Relays, r # b
      PROVE  mail'[r] = mail[r] /\ pair'[r] = pair[r] /\ drain'[r] = drain[r]
  BY <1>m, <1>p, <1>4, <1>5, <1>8
<1>9. \A w \in Versions : /\ mail'[b][w].of = mail[b][w].of
                          /\ mail'[b][w].full => w = Kind /\ mail[b][w].of = Latest
  <2> SUFFICES ASSUME NEW w \in Versions, mail'[b][w].full  PROVE w = Kind /\ mail[b][w].of = Latest
    BY <1>7
  <2>1. CASE w = "v2"
    BY <2>1, <1>3
  <2>2. CASE w # "v2"
    <3>1. mail[b][w].full
      BY <2>2, <1>7
    <3> QED  BY <3>1, <1>3 DEF CalmInv, OnlyLatest
  <2> QED  BY <2>1, <2>2
<1>10. Kind' = Kind
  BY <1>1 DEF Kind, Latest
<1>11. ~Unburdened(b) /\ ~mail[b]["v2"].full
  <2>1. ~Unburdened(b)
    BY <1>2 DEF Unburdened
  <2>2. SendsA(b) \/ SentA(b) \/ SendsB(b) \/ SentB(b)
    BY <2>1, <1>3 DEF CalmInv, BoxesGoOn, InPhase
  <2> QED  BY <2>1, <2>2, <1>2 DEF SendsA, SentA, SendsB, SentB, Waiting, JustSent
<1>f. mail' = [mail EXCEPT ![b]["v2"].full = TRUE] => mail'[b]["v2"].full
  <2> SUFFICES ASSUME mail' = [mail EXCEPT ![b]["v2"].full = TRUE]  PROVE mail'[b]["v2"].full
    OBVIOUS
  <2> QED  BY <1>2, BoxFilled
<1>w. mail' = [mail EXCEPT ![b]["v2"].full = TRUE] => Waiting(b, "A")' /\ Waiting(b, "B")'
  <2>1. mail'[b]["v2"].full /\ drain'[b] = Idle => Waiting(b, "A")' /\ Waiting(b, "B")'
    BY DEF Waiting
  <2> QED  BY <2>1, <1>f, <1>4
<1>12. InPhase(b)' /\ Unsent(b) \subseteq Unsent(b)' /\ ("A" \in Unsent(b)' => "A" \in Unsent(b))
  <2>1. CASE SendsA(b)
    <3>1. drain[b].part = "A" /\ drain[b].result = "full"
      BY <2>1, <1>1, <1>2 DEF SendsA, Waiting
    <3>2. pair' = pair /\ mail' = [mail EXCEPT ![b]["v2"].full = TRUE]
      BY <3>1, <1>1 DEF AfterA
    <3>3. BeforeA(b)'
      BY <2>1, <3>2 DEF SendsA, BeforeA
    <3>4. SendsA(b)'
      BY <3>2, <3>3, <1>w DEF SendsA
    <3> QED  BY <2>1, <3>4, <1>3, <1>10 DEF InPhase, Unsent
  <2>2. CASE SentA(b)
    <3>1. drain[b].part = "A" /\ drain[b].result = "ok" /\ pair[b].left = CellBSends
      BY <2>2 DEF SentA, JustSent, BeforeA
    <3>2. pair' = [pair EXCEPT ![b].aSent = TRUE] /\ mail' = [mail EXCEPT ![b]["v2"].full = TRUE]
      BY <3>1, <1>1 DEF AfterA
    <3>3. pair'[b].aSent /\ pair'[b].left = CellBSends
      BY <3>1, <3>2, <1>5 DEF PairSpace
    <3>4. BeforeB(b)' /\ ~BeforeA(b)'
      BY <3>3, <1>5 DEF BeforeA, BeforeB
    <3>5. SendsB(b)' /\ ~SendsA(b)'
      BY <3>2, <3>4, <1>w DEF SendsA, SendsB
    <3>6. ~SendsA(b)
      BY <2>2 DEF SentA, SendsA, JustSent, Waiting, Idle
    <3> QED  BY <2>2, <3>5, <3>6, <1>3, <1>10 DEF InPhase, Unsent
  <2>3. CASE SendsB(b)
    <3>1. drain[b].part = "B" /\ drain[b].result = "full"
      BY <2>3, <1>1, <1>2 DEF SendsB, Waiting
    <3>2. pair' = pair /\ mail' = [mail EXCEPT ![b]["v2"].full = TRUE]
      BY <3>1, <1>1 DEF AfterB
    <3>3. BeforeB(b)' /\ ~BeforeA(b)' /\ ~BeforeA(b)
      BY <2>3, <3>2 DEF SendsB, BeforeA, BeforeB
    <3>4. SendsB(b)' /\ ~SendsA(b)' /\ ~SendsA(b)
      BY <3>2, <3>3, <1>w DEF SendsA, SendsB
    <3> QED  BY <2>3, <3>4, <1>3, <1>10 DEF InPhase, Unsent
  <2>4. CASE SentB(b)
    <3>1. drain[b].part = "B" /\ drain[b].result = "ok" /\ pair[b].aSent /\ pair[b].left > 0
      BY <2>4 DEF SentB, JustSent, BeforeB
    <3>2. /\ pair' = [pair EXCEPT ![b] = [aSent |-> pair[b].aSent /\ pair[b].left > 1,
                                          left |-> pair[b].left - 1]]
          /\ mail' = IF pair[b].left > 1 THEN [mail EXCEPT ![b]["v2"].full = TRUE] ELSE mail
      BY <3>1, <1>1 DEF AfterB
    <3>3. /\ pair'[b].aSent <=> pair[b].left > 1
          /\ pair'[b].left = pair[b].left - 1
      BY <3>1, <3>2, <1>5
    <3>4. ~SendsA(b) /\ ~SentA(b) /\ ~SendsB(b)
      <4>1. ~BeforeA(b)
        BY <3>1 DEF BeforeA
      <4>2. ~Waiting(b, "B")
        BY <2>4, <1>2 DEF SentB, JustSent, Waiting
      <4> QED  BY <4>1, <4>2 DEF SendsA, SentA, SendsB
    <3>5. Unsent(b) = {}
      BY <3>4, <1>3 DEF Unsent
    <3>6. CASE pair[b].left > 1
      <4>1. BeforeB(b)' /\ ~BeforeA(b)'
        BY <3>3, <3>6, <1>6 DEF BeforeA, BeforeB
      <4>2. SendsB(b)' /\ ~SendsA(b)'
        BY <3>2, <3>6, <4>1, <1>w DEF SendsA, SendsB
      <4> QED  BY <3>5, <4>2, <1>3, <1>10 DEF InPhase, Unsent
    <3>7. CASE ~(pair[b].left > 1)
      <4>1. mail' = mail
        BY <3>2, <3>7
      <4>2. Unburdened(b)'
        BY <4>1, <1>4, <1>11 DEF Unburdened
      <4>3. ~BeforeB(b)'
        BY <3>3, <3>7 DEF BeforeB
      <4>4. ~Waiting(b, "A")' /\ ~JustSent(b, "A")'
        BY <4>1, <1>4, <1>11 DEF Waiting, JustSent
      <4>5. Unsent(b)' = {}
        BY <4>3, <4>4, <1>3, <1>10 DEF Unsent, SendsA, SentA, SendsB
      <4> QED  BY <3>5, <4>2, <4>5 DEF InPhase
    <3> QED  BY <3>6, <3>7
  <2> QED  BY <2>1, <2>2, <2>3, <2>4, <1>3, <1>11 DEF CalmInv, BoxesGoOn, InPhase
<1> QED  BY <1>1, <1>3, <1>4, <1>8, <1>9, <1>12, LoopKeepsCalm

\* What is added to a lane goes behind what is on it.
LEMMA BehindIs ==
  ASSUME NEW q \in Seq(Cells), NEW c \in Cells, NEW n \in Nat, NEW u,
         (u = Append(q, c) /\ n = 1) \/ u = PutCopies(q, c, n)
  PROVE  /\ Len(q) \in Nat /\ DOMAIN q = 1..Len(q) /\ DOMAIN u = 1..(Len(q) + n)
         /\ \A i \in 1..Len(q) : u[i] = q[i]
         /\ \A i \in (Len(q) + 1)..(Len(q) + n) : u[i] = c
<1>1. Len(q) \in Nat /\ DOMAIN q = 1..Len(q)
  OBVIOUS
<1>2. CASE u = Append(q, c) /\ n = 1
  <2>1. DOMAIN u = 1..(Len(q) + 1) /\ u[Len(q) + 1] = c /\ \A i \in 1..Len(q) : u[i] = q[i]
    BY <1>2
  <2>2. \A i \in (Len(q) + 1)..(Len(q) + n) : i = Len(q) + 1
    BY <1>1, <1>2
  <2> QED  BY <2>1, <2>2, <1>1, <1>2
<1>3. CASE u = PutCopies(q, c, n)
  <2> DEFINE m == Len(q)
  <2>1. u = [i \in 1..(m + n) |-> IF i <= m THEN q[i] ELSE c]
    BY <1>3 DEF PutCopies
  <2>2. m \in Nat
    BY <1>1
  <2> HIDE DEF m
  <2>3. /\ DOMAIN u = 1..(m + n)
        /\ \A i \in 1..m : u[i] = q[i]
        /\ \A i \in (m + 1)..(m + n) : u[i] = c
    BY <2>1, <2>2
  <2> QED  BY <2>3, <1>1 DEF m
<1> QED  BY <1>2, <1>3

LEMMA BehindInOrder ==
  ASSUME NEW q \in Seq(Cells), NEW c \in Cells, NEW n \in Nat, NEW u,
         (u = Append(q, c) /\ n = 1) \/ u = PutCopies(q, c, n),
         AThenB(q), c.part = "B" \/ \A j \in DOMAIN q : q[j].part # "B"
  PROVE  AThenB(u)
<1> DEFINE m == Len(q)
<1>1. /\ m \in Nat /\ DOMAIN q = 1..m /\ DOMAIN u = 1..(m + n)
      /\ \A i \in 1..m : u[i] = q[i]
      /\ \A i \in (m + 1)..(m + n) : u[i] = c
  BY BehindIs
<1> HIDE DEF m
<1> SUFFICES ASSUME NEW j \in 1..(m + n), NEW k \in 1..(m + n), j < k, u[j].part = "B"
             PROVE  u[k].part = "B"
  BY <1>1 DEF AThenB
<1>2. CASE k \in 1..m
  <2>1. j \in 1..m
    BY <1>1, <1>2
  <2> QED  BY <2>1, <1>1, <1>2 DEF AThenB
<1>3. CASE k \in (m + 1)..(m + n) /\ c.part = "B"
  BY <1>1, <1>3
<1>4. CASE k \in (m + 1)..(m + n) /\ \A i \in DOMAIN q : q[i].part # "B"
  <2>1. j \in 1..m \/ j \in (m + 1)..(m + n)
    BY <1>1
  <2>2. CASE j \in 1..m
    BY <2>2, <1>1, <1>4
  <2>3. CASE j \in (m + 1)..(m + n)
    BY <2>3, <1>1, <1>4
  <2> QED  BY <2>1, <2>2, <2>3
<1>5. k \in 1..m \/ k \in (m + 1)..(m + n)
  BY <1>1
<1> QED  BY <1>2, <1>3, <1>4, <1>5

\* A part that comes still does when a lane only grows.
LEMMA ComingGrows ==
  ASSUME RelayInv, RelayAssumption, FlowsStay, flows # <<>>, NEW i \in Hops, UnderWay(i), burst' = burst,
         \A j \in DOMAIN Lane(i) : \E k \in DOMAIN Lane(i)' : Lane(i)'[k].part = Lane(i)[j].part,
         \A part \in ToHop(i) : \/ part \in ToHop(i)'
                                \/ \E k \in DOMAIN Lane(i)' : Lane(i)'[k].part = part
  PROVE  UnderWay(i)'
<1>1. Latest' = Latest /\ KindParts' = KindParts
  BY LatestStays
<1>2. Armed(Route[i])' <=> Armed(Route[i])
  BY <1>1 DEF Armed
<1> SUFFICES ASSUME NEW part \in KindParts  PROVE Comes(i, part)'
  BY <1>1 DEF UnderWay
<1>3. Comes(i, part)
  BY DEF UnderWay
<1>4. CASE part \in ToHop(i)
  BY <1>4 DEF Comes
<1>5. CASE \E j \in DOMAIN Lane(i) : Lane(i)[j].part = part
  <2>1. \E k \in DOMAIN Lane(i)' : Lane(i)'[k].part = part
    BY <1>5
  <2> QED  BY <2>1 DEF Comes
<1>6. CASE part = "A" /\ Armed(Route[i])
  BY <1>2, <1>6 DEF Comes
<1> QED  BY <1>3, <1>4, <1>5, <1>6 DEF Comes

\* Where a board is before and after it sends a part.
LEMMA TransmitPhase ==
  ASSUME RelayInv, RelayAssumption, CalmInv, flows # <<>>, NEW b \in Relays, NEW p, NEW result,
         drain[b].at = "half", drain[b].box = Kind, drain[b].part = p, PartFits(drain[b]),
         result = "ok" \/ (result = "full" /\ Kind = "v2"),
         drain'[b] = IF Kind # "v2" THEN Idle
                     ELSE [at |-> "sent", box |-> "v2", part |-> p, result |-> result],
         UNCHANGED <<flows, mail, pair>>
  PROVE  /\ p \in KindParts /\ Kind' = Kind
         /\ Kind = "v2" => InPhase(b)'
         /\ result = "full" => Unsent(b)' = Unsent(b)
         /\ result = "ok" => Unsent(b) \subseteq Unsent(b)' \cup {p} /\ "A" \notin Unsent(b)'
         /\ p = "A" => "A" \in Unsent(b)
<1>0. Kind' = Kind
  BY DEF Kind, Latest
<1>1. CASE Kind # "v2"
  <2>1. p = Kind /\ KindParts = {Kind} /\ result = "ok" /\ Kind \in {"v0", "v1", "v2"}
    BY <1>1, LatestIs DEF PartFits
  <2>2. Unsent(b) \subseteq {Kind} /\ Unsent(b)' \subseteq {Kind}
    BY <1>0, <1>1 DEF Unsent
  <2> QED  BY <2>1, <2>2, <1>0, <1>1
<1>2. CASE Kind = "v2"
  <2>1. p \in {"A", "B"} /\ KindParts = {"A", "B"}
    BY <1>2, LatestIs DEF PartFits
  <2>2. drain[b] # Idle
    BY DEF Idle
  <2>3. ~Unburdened(b) /\ ~SentA(b) /\ ~SentB(b)
    BY <2>2 DEF Unburdened, SentA, SentB, JustSent
  <2>4. SendsA(b) \/ SendsB(b)
    BY <2>3, <1>2 DEF CalmInv, BoxesGoOn, InPhase
  <2>5. ~mail[b]["v2"].full
    BY <2>2, <2>4 DEF SendsA, SendsB, Waiting
  <2>6. (SendsA(b) => p = "A") /\ (SendsB(b) => p = "B")
    BY <2>2 DEF SendsA, SendsB, Waiting
  <2>d. drain'[b].at = "sent" /\ drain'[b].part = p /\ drain'[b].result = result /\ drain'[b] # Idle
    BY <1>2 DEF Idle
  <2>b. (BeforeA(b)' <=> BeforeA(b)) /\ (BeforeB(b)' <=> BeforeB(b))
    BY DEF BeforeA, BeforeB
  <2>x. ~(BeforeA(b) /\ BeforeB(b))
    BY DEF BeforeA, BeforeB
  <2>7. CASE result = "full"
    <3>1. Waiting(b, p)'
      BY <2>5, <2>7, <2>d DEF Waiting
    <3>2. ~JustSent(b, "A")'
      BY <2>7, <2>d DEF JustSent
    <3>3. CASE SendsA(b)
      <4>1. p = "A" /\ BeforeA(b)'
        BY <3>3, <2>6, <2>b DEF SendsA
      <4>2. SendsA(b)'
        BY <3>1, <4>1 DEF SendsA
      <4> QED  BY <4>1, <4>2, <3>3, <2>1, <1>0, <1>2, <2>7 DEF InPhase, Unsent
    <3>4. CASE SendsB(b)
      <4>1. p = "B" /\ BeforeB(b)' /\ ~BeforeA(b)' /\ ~BeforeA(b)
        BY <3>4, <2>6, <2>b, <2>x DEF SendsB
      <4>2. SendsB(b)' /\ ~SendsA(b)' /\ ~SendsA(b)
        BY <3>1, <4>1 DEF SendsA, SendsB
      <4> QED  BY <4>1, <4>2, <3>4, <2>1, <1>0, <1>2, <2>7 DEF InPhase, Unsent
    <3> QED  BY <2>4, <3>3, <3>4
  <2>8. CASE result = "ok"
    <3>1. JustSent(b, p)'
      BY <2>5, <2>8, <2>d DEF JustSent
    <3>2. ~Waiting(b, "A")' /\ ~Waiting(b, "B")'
      BY <2>5, <2>8, <2>d DEF Waiting
    <3>3. CASE SendsA(b)
      <4>1. p = "A" /\ BeforeA(b)'
        BY <3>3, <2>6, <2>b DEF SendsA
      <4>2. SentA(b)' /\ ~SendsA(b)'
        BY <3>1, <3>2, <4>1 DEF SendsA, SentA
      <4> QED  BY <4>1, <4>2, <3>3, <2>1, <1>0, <1>2, <2>8 DEF InPhase, Unsent
    <3>4. CASE SendsB(b)
      <4>1. p = "B" /\ BeforeB(b)' /\ ~BeforeA(b)' /\ ~BeforeA(b)
        BY <3>4, <2>6, <2>b, <2>x DEF SendsB
      <4>2. SentB(b)' /\ ~SendsA(b)' /\ ~SendsA(b)
        BY <3>1, <4>1 DEF SendsA, SentB
      <4> QED  BY <4>1, <4>2, <3>4, <2>1, <1>0, <1>2, <2>8 DEF InPhase, Unsent
    <3> QED  BY <2>4, <3>3, <3>4
  <2> QED  BY <2>7, <2>8
<1> QED  BY <1>1, <1>2

LEMMA TransmitCalm ==
  ASSUME RelayInv, RelayAssumption, LoneInv, calm, NEW b \in Relays, Transmit(b)
  PROVE  LoneInv'
<1> DEFINE v == drain[b].box
           p == drain[b].part
           c == [part |-> p, head |-> drain[b].head, tail |-> mail[b][v].of]
           to == <<b, Route[HopOf(b) + 1]>>
<1>1. PICK result \in {"ok", "full", "failed"} :
        /\ result = "ok" \/ (result = "full" /\ v = "v2")
        /\ links' = IF result = "ok" THEN [links EXCEPT ![to] = Put(links[to], c)] ELSE links
        /\ GoesOn(b, IF v # "v2" THEN Idle
                     ELSE [at |-> "sent", box |-> "v2", part |-> p, result |-> result])
  BY DEF Transmit
<1>2. /\ drain[b].at = "half" /\ UNCHANGED <<calm, near, flows, burst, chanSeq, mail, pair, admitted>>
  BY DEF Transmit, Steps, relayBoardVars
<1>3. drain[b] # Idle /\ v \in Versions /\ drain[b] \in Half /\ PartFits(drain[b])
  <2>1. drain[b] # Idle /\ drain[b] \notin Cleared \cup Begun \cup Sent
    BY <1>2 DEF Idle, Cleared, Begun, Sent
  <2> QED  BY <2>1, DrainBox DEF RelayInv, DrainIsOwned
<1>4. /\ flows # <<>> /\ CalmInv /\ v = Kind /\ mail[b][Kind].of = Latest
      /\ \E i \in Hops : i + 1 \in Hops /\ b = Route[i]
  BY <1>3, ActiveIs
<1>5. PICK i \in Hops : i + 1 \in Hops /\ b = Route[i]
  BY <1>4
<1>6. HopOf(b) = i /\ to = <<Route[i], Route[i + 1]>> /\ Route[i + 1] \in Relays /\ to \in Boards \X Relays
  <2>1. b \in Range(Route)
    BY <1>5 DEF Range, Hops
  <2>2. HopOf(b) = i
    BY <1>5, <2>1, HopIs
  <2>3. Route[i + 1] \in Relays
    BY <1>5, RouteIs
  <2> QED  BY <1>5, <2>2, <2>3 DEF Boards
<1>7. /\ \A r \in Relays : r # b => mail'[r] = mail[r] /\ pair'[r] = pair[r] /\ drain'[r] = drain[r]
      /\ drain'[b] = IF Kind # "v2" THEN Idle
                     ELSE [at |-> "sent", box |-> "v2", part |-> p, result |-> result]
  BY <1>1, <1>2, <1>4 DEF GoesOn, RelayInv, RelayTyped
<1>8. drain[b].head = Latest
  BY <1>2, <1>4 DEF CalmInv, OnlyLatest
<1>9. /\ p \in KindParts /\ Kind' = Kind
      /\ Kind = "v2" => InPhase(b)'
      /\ result = "full" => Unsent(b)' = Unsent(b)
      /\ result = "ok" => Unsent(b) \subseteq Unsent(b)' \cup {p} /\ "A" \notin Unsent(b)'
      /\ p = "A" => "A" \in Unsent(b)
  <2>1. UNCHANGED <<flows, mail, pair>> /\ (result = "ok" \/ (result = "full" /\ Kind = "v2"))
    BY <1>1, <1>2, <1>4
  <2> QED  BY <2>1, <1>2, <1>3, <1>4, <1>7, TransmitPhase
<1>10. /\ drain'[b] # Idle => drain'[b].box = Kind
       /\ drain'[b].at # "half"
  BY <1>7 DEF Idle
<1>11. CASE result = "full"
  <2>1. links' = links
    BY <1>1, <1>11
  <2>2. \A w \in Versions : /\ mail'[b][w].of = mail[b][w].of
                            /\ mail'[b][w].full => w = Kind /\ mail[b][w].of = Latest
    BY <1>2, <1>4 DEF CalmInv, OnlyLatest
  <2> QED  BY <2>1, <2>2, <1>2, <1>4, <1>7, <1>9, <1>10, <1>11, LoopKeepsCalm
<1>12. CASE result = "ok"
  <2> DEFINE q == links[to]
  <2>l. links \in [Boards \X Relays -> Seq(Cells)] /\ q \in Seq(Cells)
    BY <1>6 DEF RelayInv, RelayTyped
  <2>c. c \in Cells /\ c.part = p /\ c.head = Latest /\ c.tail = Latest
    BY <1>3, <1>4, <1>8, LatestIs DEF Half, Cells
  <2>q. links' = [links EXCEPT ![to] = Append(q, c)]
    BY <1>1, <1>12 DEF Put
  <2> HIDE DEF c, to, p, v
  <2>t. /\ links'[to] = Append(q, c)
        /\ \A l \in Boards \X Relays : l # to => links'[l] = links[l]
    BY <2>l, <2>q, <1>6
  <2>u. PICK u : u = Append(q, c)
    OBVIOUS
  <2>n. /\ Len(q) \in Nat /\ DOMAIN q = 1..Len(q) /\ DOMAIN u = 1..(Len(q) + 1)
        /\ \A j \in 1..Len(q) : u[j] = q[j]
        /\ u[Len(q) + 1] = c
        /\ \A j \in DOMAIN u : u[j] = c \/ (j \in DOMAIN q /\ u[j] = q[j])
    <3>1. /\ Len(q) \in Nat /\ DOMAIN q = 1..Len(q) /\ DOMAIN u = 1..(Len(q) + 1)
          /\ \A j \in 1..Len(q) : u[j] = q[j]
          /\ \A j \in (Len(q) + 1)..(Len(q) + 1) : u[j] = c
      BY <2>c, <2>l, <2>u, BehindIs
    <3> QED  BY <3>1
  <2>f. FlowsStay
    BY <1>2 DEF FlowsStay
  <2>k. Latest' = Latest /\ KindParts' = KindParts /\ Kind \in Versions
    BY <2>f, <1>4, LatestStays, LatestIs
  <2>0. WellSent /\ ChannelsAreOfFlows
    BY DEF LoneInv
  <2>1. WellSent'
    <3>1. ASSUME NEW x \in Relays, NEW r \in Relays, links'[<<x, r>>] # <<>>
          PROVE  \E k \in Hops : k + 1 \in Hops /\ x = Route[k] /\ r = Route[k + 1]
      <4>1. CASE <<x, r>> = to
        BY <4>1, <1>5, <1>6
      <4>2. CASE <<x, r>> # to
        <5>1. links[<<x, r>>] # <<>>
          BY <3>1, <4>2, <2>t DEF Boards
        <5> QED  BY <5>1, <2>0 DEF WellSent
      <4> QED  BY <4>1, <4>2
    <3> QED  BY <3>1, <2>0, <1>2 DEF WellSent
  <2>2. ChannelsAreOfFlows'
    BY <2>0, <1>2 DEF ChannelsAreOfFlows
  <2>3. OnlyLatest'
    <3>1. \A g \in DOMAIN flows : flows[g].due # <<>> =>
            /\ g = Latest
            /\ flows[g].due = PartsOf(Kind) \/ (Kind = "v2" /\ flows[g].due = <<"B">>)
      BY <1>4 DEF CalmInv, OnlyLatest
    <3>2. ASSUME NEW x \in Boards, NEW r \in Relays, NEW j \in DOMAIN links'[<<x, r>>]
          PROVE  /\ links'[<<x, r>>][j].head = Latest /\ links'[<<x, r>>][j].tail = Latest
                 /\ links'[<<x, r>>][j].part \in KindParts
      <4>1. ASSUME NEW k \in DOMAIN links[<<x, r>>], links'[<<x, r>>][j] = links[<<x, r>>][k]
            PROVE  /\ links'[<<x, r>>][j].head = Latest /\ links'[<<x, r>>][j].tail = Latest
                   /\ links'[<<x, r>>][j].part \in KindParts
        BY <4>1, <1>4 DEF CalmInv, OnlyLatest
      <4>2. CASE <<x, r>> = to
        <5>1. links'[<<x, r>>] = u /\ links[<<x, r>>] = q
          BY <4>2, <2>t, <2>u
        <5>2. CASE u[j] = c
          BY <5>1, <5>2, <2>c, <1>9
        <5>3. CASE j \in DOMAIN q /\ u[j] = q[j]
          BY <5>1, <5>3, <4>1
        <5> QED  BY <5>1, <5>2, <5>3, <2>n
      <4>3. CASE <<x, r>> # to
        <5>1. links'[<<x, r>>] = links[<<x, r>>]
          BY <4>3, <2>t
        <5> QED  BY <5>1, <4>1
      <4> QED  BY <4>2, <4>3
    <3>3. \A r \in Relays, w \in Versions : mail[r][w].full => w = Kind /\ mail[r][w].of = Latest
      BY <1>4 DEF CalmInv, OnlyLatest
    <3>4. ASSUME NEW r \in Relays, drain'[r] # Idle
          PROVE  drain'[r].box = Kind /\ mail[r][Kind].of = Latest
      <4>1. CASE r = b
        BY <3>4, <4>1, <1>4, <1>10
      <4>2. CASE r # b
        BY <3>4, <4>2, <1>4, <1>7 DEF CalmInv, OnlyLatest
      <4> QED  BY <4>1, <4>2
    <3>5. ASSUME NEW r \in Relays, drain'[r].at = "half"
          PROVE  drain'[r].head = Latest
      <4>1. CASE r = b
        BY <3>5, <4>1, <1>10
      <4>2. CASE r # b
        BY <3>5, <4>2, <1>4, <1>7 DEF CalmInv, OnlyLatest
      <4> QED  BY <4>1, <4>2
    <3> QED  BY <3>1, <3>2, <3>3, <3>4, <3>5, <2>k, <1>2, <1>9 DEF OnlyLatest
  <2>4. BoxesGoOn'
    BY <1>4, <1>7, <1>9, PhaseStays DEF CalmInv, BoxesGoOn
  <2>s. \A r \in Relays : r # b => Unsent(r)' = Unsent(r)
    BY <1>7, <1>9, PhaseStays
  <2>5. LanesInOrder'
    <3>1. ASSUME NEW x \in Boards, NEW r \in Relays  PROVE AThenB(links'[<<x, r>>])
      <4>0. AThenB(links[<<x, r>>])
        BY <1>4 DEF CalmInv, LanesInOrder
      <4>1. CASE <<x, r>> = to
        <5>1. c.part = "B" \/ \A j \in DOMAIN q : q[j].part # "B"
          <6>1. CASE p = "A"
            <7>1. q = <<>>
              BY <6>1, <1>4, <1>6, <1>9, <1>5 DEF CalmInv, LanesInOrder
            <7> QED  BY <7>1
          <6>2. CASE p # "A" /\ p # "B"
            <7>1. KindParts = {Kind} /\ Kind # "B"
              BY <6>2, <1>4, <1>9, LatestIs
            <7>2. \A j \in DOMAIN q : q[j].part \in KindParts
              BY <4>1, <1>4 DEF CalmInv, OnlyLatest
            <7> QED  BY <7>1, <7>2
          <6> QED  BY <6>1, <6>2, <2>c
        <5>2. AThenB(q)
          BY <4>0, <4>1
        <5>3. AThenB(u)
          BY <5>1, <5>2, <2>c, <2>l, <2>u, BehindInOrder
        <5> QED  BY <5>3, <4>1, <2>t, <2>u
      <4>2. CASE <<x, r>> # to
        BY <4>0, <4>2, <2>t
      <4> QED  BY <4>1, <4>2
    <3>2. ASSUME "A" \in Range(flows[Latest].due), NEW r \in Relays  PROVE links'[<<Origin, r>>] = <<>>
      <4>1. <<Origin, r>> # to /\ <<Origin, r>> \in Boards \X Relays
        BY <1>6 DEF Boards, RelayAssumption, to
      <4> QED  BY <3>2, <4>1, <2>t, <1>4 DEF CalmInv, LanesInOrder
    <3>3. ASSUME NEW x \in Relays, NEW r \in Relays, "A" \in Unsent(x)'
          PROVE  links'[<<x, r>>] = <<>>
      <4>1. x # b /\ "A" \in Unsent(x)
        BY <3>3, <2>s, <1>9, <1>12
      <4>2. <<x, r>> # to /\ <<x, r>> \in Boards \X Relays
        BY <4>1 DEF Boards, to
      <4> QED  BY <4>1, <4>2, <2>t, <1>4 DEF CalmInv, LanesInOrder
    <3> QED  BY <3>1, <3>2, <3>3, <2>k, <1>2 DEF LanesInOrder
  <2>6. LatestGoesOn'
    <3>1. \A k \in Hops : Reached(k)' <=> Reached(k)
      BY <2>k, <1>2 DEF Reached
    <3>2. \A k \in Hops : k # 1 => (Reached(k - 1)' <=> Reached(k - 1))
      BY <3>1, BeforeIs
    <3>3. ASSUME NEW k \in Hops, UnderWay(k)  PROVE UnderWay(k)'
      <4>0. PICK l \in Boards \X Relays : l = <<Before(k), Route[k]>>
        BY BeforeIs
      <4>1. Lane(k) = links[l] /\ Lane(k)' = links'[l]
        BY <4>0 DEF Lane
      <4>2. \A j \in DOMAIN Lane(k) : \E m \in DOMAIN Lane(k)' : Lane(k)'[m].part = Lane(k)[j].part
        <5>1. CASE l = to
          <6>1. \A j \in DOMAIN q : j \in DOMAIN u /\ u[j] = q[j]
            BY <2>n
          <6> QED  BY <6>1, <5>1, <4>1, <2>t, <2>u
        <5>2. CASE l # to
          BY <5>2, <4>1, <2>t
        <5> QED  BY <5>1, <5>2
      <4>3. ASSUME NEW part \in ToHop(k)
            PROVE  part \in ToHop(k)' \/ \E m \in DOMAIN Lane(k)' : Lane(k)'[m].part = part
        <5>1. CASE k = 1
          BY <5>1, <4>3, <1>2, <2>k DEF ToHop
        <5>2. CASE k # 1 /\ Route[k - 1] # b
          <6>1. PICK r \in Relays : r = Route[k - 1]
            BY <5>2, BeforeIs
          <6>2. ToHop(k) = Unsent(r) /\ ToHop(k)' = Unsent(r)'
            BY <5>2, <6>1 DEF ToHop
          <6> QED  BY <6>1, <6>2, <5>2, <4>3, <2>s
        <5>3. CASE k # 1 /\ Route[k - 1] = b
          <6>1. k - 1 = i /\ k = i + 1
            BY <5>3, <1>5, BeforeIs DEF RelayAssumption
          <6>2. l = to
            BY <6>1, <5>3, <4>0, <1>5, <1>6, BeforeIs
          <6>3. ToHop(k) = Unsent(b) /\ ToHop(k)' = Unsent(b)'
            BY <5>3 DEF ToHop
          <6>4. part \in Unsent(b)' \/ part = p
            BY <6>3, <4>3, <1>9, <1>12
          <6>5. Len(q) + 1 \in DOMAIN u /\ u[Len(q) + 1].part = p
            BY <2>n, <2>c
          <6> QED  BY <6>2, <6>3, <6>4, <6>5, <4>1, <2>t, <2>u
        <5> QED  BY <5>1, <5>2, <5>3
      <4> QED  BY <3>3, <4>2, <4>3, <2>f, <1>2, <1>4, ComingGrows
    <3>4. LatestGoesOn
      BY <1>4 DEF CalmInv
    <3> QED  BY <3>1, <3>2, <3>3, <3>4, <2>f, <1>4, GoesOnStays
  <2>7. EarlierArrived'
    BY <2>f, <1>2, <1>4, EarlierStay DEF CalmInv
  <2> QED  BY <2>1, <2>2, <2>3, <2>4, <2>5, <2>6, <2>7 DEF LoneInv, CalmInv
<1> QED  BY <1>1, <1>11, <1>12

\* A board of which nothing is under way.
LEMMA NothingUnsent ==
  ASSUME RelayAssumption, Kind \in Versions, NEW b \in Relays,
         drain[b] = Idle, \A v \in Versions : ~mail[b][v].full
  PROVE  Unsent(b) = {} /\ (Kind = "v2" => InPhase(b))
<1>1. drain[b].at = "idle"
  BY DEF Idle
<1>2. CASE Kind # "v2"
  BY <1>2 DEF Unsent
<1>3. CASE Kind = "v2"
  <2>1. ~mail[b]["v2"].full
    BY <1>3
  <2>2. /\ ~Waiting(b, "A") /\ ~Waiting(b, "B")
        /\ ~JustSent(b, "A") /\ ~JustSent(b, "B")
    BY <1>1, <2>1 DEF Waiting, JustSent
  <2>3. Unburdened(b)
    BY <2>1 DEF Unburdened
  <2> QED  BY <1>3, <2>2, <2>3 DEF Unsent, SendsA, SendsB, SentA, InPhase
<1> QED  BY <1>2, <1>3

\* A set of numbers has a least one.
LEMMA Least ==
  ASSUME NEW S \in SUBSET Nat, S # {}
  PROVE  \E n \in S : \A m \in S : n <= m
<1>1. IsWellFoundedOn(OpToRel(<, Nat), Nat)
  BY NatLessThanWellFounded
<1>2. PICK n \in S : \A m \in S : ~(<<m, n>> \in OpToRel(<, Nat))
  BY <1>1, WFMin
<1>3. \A m \in S : ~(m < n)
  BY <1>2 DEF OpToRel
<1> QED  BY <1>3

\* When all is quiet, the latest flow has come as far as its route goes.
LEMMA QuietArrived ==
  ASSUME RelayInv, RelayAssumption, CalmInv, flows # <<>>, Quiet, Timely(Latest), AllProvisioned
  PROVE  \A i \in Hops : Reached(i)
<1>h. Hops \subseteq Nat
  BY RouteIs
<1>k. /\ Latest \in DOMAIN flows /\ Kind \in Versions /\ Kind \in {"v0", "v1", "v2"}
      /\ Kind = "v2" => KindParts = {"A", "B"}
      /\ Kind # "v2" => KindParts = {Kind}
  BY LatestIs
<1> SUFFICES ASSUME NEW m \in Hops, ~Reached(m)  PROVE FALSE
  OBVIOUS
<1> DEFINE S == {i \in Hops : ~Reached(i)}
<1>1. S \in SUBSET Nat /\ S # {}
  BY <1>h
<1>2. PICK i \in S : \A j \in S : i <= j
  BY <1>1, Least
<1>3. i \in Hops /\ ~Reached(i)
  OBVIOUS
<1>4. i = 1 \/ Reached(i - 1)
  <2>1. ASSUME i # 1  PROVE Reached(i - 1)
    <3>1. i - 1 \in Hops /\ i \in Nat
      BY <1>3, <2>1, BeforeIs
    <3>2. ~(i <= i - 1)
      BY <3>1
    <3>3. i - 1 \notin S
      BY <1>2, <3>2
    <3> QED  BY <3>1, <3>3
  <2> QED  BY <2>1
<1>5. UnderWay(i)
  BY <1>3, <1>4 DEF CalmInv, LatestGoesOn
<1>6. Lane(i) = <<>>
  <2>1. <<Before(i), Route[i]>> \in Boards \X Relays
    BY <1>3, BeforeIs
  <2>2. DOMAIN links = Boards \X Relays
    BY DEF RelayInv, RelayTyped
  <2> QED  BY <2>1, <2>2 DEF Lane, Quiet
<1>7. ToHop(i) = {}
  <2>1. CASE i = 1
    <3>1. flows[Latest].due = <<>>
      BY <1>k DEF Quiet
    <3> QED  BY <2>1, <3>1 DEF ToHop, Range
  <2>2. CASE i # 1
    <3>1. PICK r \in Relays : r = Route[i - 1]
      BY <1>3, <2>2, BeforeIs
    <3>2. Unsent(r) = {}
      BY <1>k, NothingUnsent DEF Quiet
    <3> QED  BY <2>2, <3>1, <3>2 DEF ToHop
  <2> QED  BY <2>1, <2>2
<1>8. PICK part \in KindParts : part # "A"
  <2>1. CASE Kind = "v2"
    <3>1. "B" \in KindParts /\ "B" # "A"
      BY <1>k, <2>1
    <3> QED  BY <3>1
  <2>2. CASE Kind # "v2"
    <3>1. Kind \in KindParts /\ Kind # "A"
      BY <1>k, <2>2
    <3> QED  BY <3>1
  <2> QED  BY <2>1, <2>2
<1>9. ~Comes(i, part)
  BY <1>6, <1>7, <1>8 DEF Comes
<1> QED  BY <1>5, <1>9 DEF UnderWay

\* All that began before has arrived when all is quiet.
LEMMA QuietAllArrived ==
  ASSUME RelayInv, RelayAssumption, LoneInv, calm, Quiet, AllProvisioned,
         NEW f \in DOMAIN flows, Timely(f)
  PROVE  admitted[Route[Len(Route)]][f] > 0
<1>1. flows # <<>>
  BY DEF RelayInv, RelayTyped
<1>2. CalmInv
  BY <1>1 DEF LoneInv
<1>3. CASE f = Latest
  <2>1. Len(Route) \in Hops
    BY RouteIs
  <2>2. PICK n \in Hops : n = Len(Route)
    BY <2>1
  <2>3. Timely(Latest)
    BY <1>3
  <2>4. Reached(n)
    BY <1>1, <1>2, <2>3, QuietArrived
  <2> QED  BY <1>3, <2>2, <2>4 DEF Reached
<1>4. CASE f # Latest
  BY <1>2, <1>4 DEF CalmInv, EarlierArrived
<1> QED  BY <1>3, <1>4

LEMMA LoneInit ==
  ASSUME RelayAssumption, RelayInit
  PROVE  LoneInv
<1> USE DEF RelayInit
<1>1. WellSent
  <2>1. \A s, r \in Relays : links[<<s, r>>] = <<>>
    OBVIOUS
  <2>2. \A b \in Relays, v \in Versions : mail[b][v].of = 0
    OBVIOUS
  <2>3. \A b \in Relays : burst[b] = NoBurst
    OBVIOUS
  <2>4. Route[1] \in near
    OBVIOUS
  <2> QED  BY <2>1, <2>2, <2>3, <2>4 DEF WellSent
<1>2. ChannelsAreOfFlows
  BY DEF ChannelsAreOfFlows
<1> QED  BY <1>1, <1>2 DEF LoneInv

LEMMA BeginCalm ==
  ASSUME RelayInv, RelayAssumption, LoneInv, calm, NEW v \in Versions, Begin(v)
  PROVE  LoneInv'
<1> DEFINE before == {g \in DOMAIN flows : flows[g].version = v}
           new == [version |-> v, seq |-> IF v = "v0" THEN 0 ELSE Cardinality(before) + 1,
                   due |-> PartsOf(v)]
           last == Len(flows) + 1
<1>f. flows \in Seq(FlowSpace) /\ Len(flows) \in Nat /\ DOMAIN flows = 1..Len(flows)
  BY DEF RelayInv, RelayTyped
<1>a. flows' = Append(flows, new) /\ Quiet
  BY DEF Begin
<1>u. UNCHANGED <<calm, near, links, burst, chanSeq, mail, pair, admitted, drain>>
  BY DEF Begin, relayBoardVars
<1>n. new.version = v /\ new.due = PartsOf(v) /\ (v # "v0" => new.seq > 0)
  <2>1. \A k \in Nat : k + 1 > 0
    OBVIOUS
  <2>2. IsFiniteSet(DOMAIN flows)
    BY <1>f, FS_Interval
  <2>3. IsFiniteSet(before)
    BY <2>2, FS_Subset
  <2>4. Cardinality(before) \in Nat
    BY <2>3, FS_CardinalityType
  <2> HIDE DEF before
  <2> QED  BY <2>1, <2>4
<1> HIDE DEF new
<1>s. /\ Len(flows') = last /\ DOMAIN flows' = DOMAIN flows \cup {last} /\ last \notin DOMAIN flows
      /\ \A g \in DOMAIN flows : flows'[g] = flows[g]
      /\ flows'[last] = new
  BY <1>a, <1>f
<1> HIDE DEF last
<1>k. /\ Latest' = last /\ Kind' = v /\ KindParts' = Range(PartsOf(v)) /\ flows' # <<>>
      /\ v \in {"v0", "v1", "v2"}
  <2>1. Latest' = last
    BY <1>s DEF Latest
  <2>2. Kind' = v
    BY <2>1, <1>s, <1>n DEF Kind
  <2>3. KindParts' = Range(PartsOf(v))
    BY <2>2 DEF KindParts
  <2>4. flows' # <<>>
    BY <1>a, <1>f
  <2>5. v \in {"v0", "v1", "v2"}
    BY DEF RelayAssumption
  <2> QED  BY <2>1, <2>2, <2>3, <2>4, <2>5
<1>l. \A s \in Boards, r \in Relays : links'[<<s, r>>] = <<>>
  BY <1>a, <1>u DEF Quiet, RelayInv, RelayTyped
<1>b. \A b \in Relays : drain'[b] = Idle /\ \A w \in Versions : ~mail'[b][w].full
  BY <1>a, <1>u DEF Quiet
<1>0. WellSent /\ ChannelsAreOfFlows
  BY DEF LoneInv
<1>1. WellSent'
  BY <1>0, <1>u DEF WellSent
<1>2. ChannelsAreOfFlows'
  <2>1. ASSUME NEW g \in DOMAIN flows', flows'[g].version # "v0"  PROVE flows'[g].seq > 0
    <3>1. CASE g \in DOMAIN flows
      BY <3>1, <2>1, <1>0, <1>s DEF ChannelsAreOfFlows
    <3>2. CASE g = last
      BY <3>2, <2>1, <1>s, <1>n
    <3> QED  BY <3>1, <3>2, <1>s
  <2>2. ASSUME NEW b \in Relays, chanSeq'[b] # 0
        PROVE  \E g \in DOMAIN flows' : /\ flows'[g].version # "v0" /\ admitted'[b][g] > 0
                                        /\ chanSeq'[b] = flows'[g].seq
    <3>1. PICK g \in DOMAIN flows : /\ flows[g].version # "v0" /\ admitted[b][g] > 0
                                    /\ chanSeq[b] = flows[g].seq
      BY <2>2, <1>0, <1>u DEF ChannelsAreOfFlows
    <3> QED  BY <3>1, <1>s, <1>u
  <2> QED  BY <2>1, <2>2 DEF ChannelsAreOfFlows
<1>3. OnlyLatest'
  <2>1. ASSUME NEW g \in DOMAIN flows', flows'[g].due # <<>>
        PROVE  g = last /\ flows'[g].due = PartsOf(v)
    <3>1. g \notin DOMAIN flows
      BY <2>1, <1>a, <1>s DEF Quiet
    <3> QED  BY <3>1, <1>s, <1>n
  <2>2. \A b \in Relays : drain'[b].at # "half"
    BY <1>b DEF Idle
  <2>3. ASSUME NEW s \in Boards, NEW r \in Relays  PROVE DOMAIN links'[<<s, r>>] = {}
    <3>1. links'[<<s, r>>] = <<>>
      BY <1>l
    <3>2. DOMAIN <<>> = {}
      OBVIOUS
    <3> QED  BY <3>1, <3>2
  <2> QED  BY <2>1, <2>2, <2>3, <1>b, <1>k DEF OnlyLatest
<1>4. \A b \in Relays : Unsent(b)' = {} /\ (v = "v2" => InPhase(b)')
  <2>1. ASSUME NEW b \in Relays  PROVE Unsent(b)' = {} /\ (v = "v2" => InPhase(b)')
    <3>1. drain'[b].at = "idle"
      BY <1>b DEF Idle
    <3>2. CASE v # "v2"
      BY <3>2, <1>k, <1>b DEF Unsent
    <3>3. CASE v = "v2"
      <4>1. ~mail'[b]["v2"].full
        BY <3>3, <1>b
      <4>2. /\ ~Waiting(b, "A")' /\ ~Waiting(b, "B")'
            /\ ~JustSent(b, "A")' /\ ~JustSent(b, "B")'
        BY <3>1, <4>1 DEF Waiting, JustSent
      <4>3. Unburdened(b)'
        BY <4>1, <1>b DEF Unburdened
      <4> QED  BY <3>3, <4>2, <4>3, <1>k DEF Unsent, SendsA, SendsB, SentA, InPhase
    <3> QED  BY <3>2, <3>3
  <2> QED  BY <2>1
<1>5. BoxesGoOn'
  BY <1>4, <1>k DEF BoxesGoOn
<1>6. LanesInOrder'
  <2>1. \A s \in Boards, r \in Relays : AThenB(links[<<s, r>>])'
    BY <1>l DEF AThenB
  <2>2. \A r \in Relays : links'[<<Origin, r>>] = <<>>
    BY <1>l DEF Boards
  <2>3. \A s, r \in Relays : links'[<<s, r>>] = <<>>
    BY <1>l DEF Boards
  <2> QED  BY <2>1, <2>2, <2>3 DEF LanesInOrder
<1>7. LatestGoesOn'
  <2> SUFFICES ASSUME NEW i \in Hops, i = 1 \/ Reached(i - 1)'  PROVE UnderWay(i)'
    BY DEF LatestGoesOn
  <2>1. i = 1
    <3> SUFFICES ASSUME i # 1  PROVE FALSE
      OBVIOUS
    <3>1. Reached(i - 1)' /\ Route[i - 1] \in Relays
      BY BeforeIs
    <3>2. PICK r \in Relays : r = Route[i - 1]
      BY <3>1
    <3>3. admitted[r][last] > 0
      BY <3>1, <3>2, <1>u, <1>k DEF Reached
    <3>4. last \in Flows
      <4>1. Len(flows) < MaxFlows /\ MaxFlows \in Nat
        BY DEF Begin, RelayAssumption
      <4> QED  BY <4>1, <1>f DEF Flows, last
    <3> QED  BY <3>3, <3>4, <1>s DEF RelayInv, AdmissionsAreCounted
  <2>2. ToHop(1)' = KindParts'
    <3>1. flows'[Latest'].due = PartsOf(v)
      BY <1>k, <1>s, <1>n
    <3> QED  BY <3>1, <1>k DEF ToHop
  <2> QED  BY <2>1, <2>2 DEF UnderWay, Comes
<1>8. EarlierArrived'
  <2> SUFFICES ASSUME AllProvisioned, NEW g \in DOMAIN flows', g # last, Timely(g)'
               PROVE  admitted'[Route[Len(Route)]][g] > 0
    BY <1>k DEF EarlierArrived, AllProvisioned
  <2>1. g \in DOMAIN flows
    BY <1>s
  <2>2. Timely(g)
    <3>1. \A h \in 1..(g - 1) : h \in DOMAIN flows
      BY <2>1, <1>f
    <3> QED  BY <2>1, <3>1, <1>s DEF Timely
  <2> QED  BY <2>1, <2>2, <1>a, <1>u, QuietAllArrived
<1> QED  BY <1>1, <1>2, <1>3, <1>5, <1>6, <1>7, <1>8 DEF LoneInv, CalmInv

\* What the injector takes of a flow, and what it leaves.
LEMMA InjectedIs ==
  ASSUME RelayInv, RelayAssumption, flows # <<>>, NEW due,
         due = PartsOf(Kind) \/ (Kind = "v2" /\ due = <<"B">>)
  PROVE  /\ Head(due) \in KindParts /\ Head(due) \in ForwardParts
         /\ Tail(due) = <<>> \/ (Kind = "v2" /\ Tail(due) = <<"B">>)
         /\ Range(due) \subseteq Range(Tail(due)) \cup {Head(due)}
         /\ Head(due) = "A" => "A" \in Range(due)
         /\ "A" \notin Range(Tail(due))
<1> DEFINE k == Kind
<1>k. /\ k \in {"v0", "v1", "v2"}
      /\ k = "v2" => KindParts = {"A", "B"}
      /\ k # "v2" => KindParts = {k}
  BY LatestIs
<1>d. due = PartsOf(k) \/ (k = "v2" /\ due = <<"B">>)
  OBVIOUS
<1> HIDE DEF k
<1>1. CASE k # "v2"
  <2>1. due = <<k>>
    BY <1>1, <1>d DEF PartsOf
  <2>2. Head(due) = k /\ Tail(due) = <<>> /\ Range(due) = {k}
    BY <2>1 DEF Range
  <2> QED  BY <1>1, <1>k, <2>2 DEF k, ForwardParts, Range
<1>2. CASE k = "v2" /\ due = <<"A", "B">>
  <2>1. Head(due) = "A" /\ Tail(due) = <<"B">>
    BY <1>2
  <2>2. Range(due) = {"A", "B"} /\ Range(<<"B">>) = {"B"}
    BY <1>2 DEF Range
  <2> QED  BY <1>2, <1>k, <2>1, <2>2 DEF k, ForwardParts
<1>3. CASE k = "v2" /\ due = <<"B">>
  <2>1. Head(due) = "B" /\ Tail(due) = <<>>
    BY <1>3
  <2>2. Range(due) = {"B"} /\ Range(<<>>) = {}
    BY <1>3 DEF Range
  <2> QED  BY <1>3, <1>k, <2>1, <2>2 DEF k, ForwardParts
<1> QED  BY <1>d, <1>1, <1>2, <1>3 DEF PartsOf

LEMMA InjectCalm ==
  ASSUME RelayInv, RelayAssumption, LoneInv, calm, NEW f \in DOMAIN flows, InjectCell(f)
  PROVE  LoneInv'
<1> DEFINE due == flows[f].due
           p == Head(due)
           c == [part |-> p, head |-> f, tail |-> f]
<1>0. flows # <<>> /\ CalmInv /\ WellSent /\ ChannelsAreOfFlows
  <2>1. flows # <<>>
    BY DEF RelayInv, RelayTyped
  <2> QED  BY <2>1 DEF LoneInv
<1>f. /\ flows \in Seq(FlowSpace) /\ due # <<>> /\ due \in Dues
      /\ flows' = [flows EXCEPT ![f].due = Tail(due)]
  BY FlowIs DEF RelayInv, RelayTyped, InjectCell, FlowSpace
<1>g. f = Latest /\ (due = PartsOf(Kind) \/ (Kind = "v2" /\ due = <<"B">>))
  BY <1>0, <1>f DEF CalmInv, OnlyLatest
<1>d. /\ p \in KindParts /\ p \in ForwardParts
      /\ Tail(due) = <<>> \/ (Kind = "v2" /\ Tail(due) = <<"B">>)
      /\ Range(due) \subseteq Range(Tail(due)) \cup {p}
      /\ p = "A" => "A" \in Range(due)
      /\ "A" \notin Range(Tail(due))
  <2> DEFINE w == due
  <2>1. w = PartsOf(Kind) \/ (Kind = "v2" /\ w = <<"B">>)
    BY <1>g
  <2> HIDE DEF w
  <2>2. /\ Head(w) \in KindParts /\ Head(w) \in ForwardParts
        /\ Tail(w) = <<>> \/ (Kind = "v2" /\ Tail(w) = <<"B">>)
        /\ Range(w) \subseteq Range(Tail(w)) \cup {Head(w)}
        /\ Head(w) = "A" => "A" \in Range(w)
        /\ "A" \notin Range(Tail(w))
    BY <2>1, <1>0, InjectedIs
  <2> QED  BY <2>2 DEF w
<1>c. c \in Cells /\ c.part = p /\ c.head = Latest /\ c.tail = Latest
  BY <1>d, <1>g, <1>0, LatestIs DEF Cells
<1>s. /\ FlowsStay
      /\ \A g \in DOMAIN flows : flows'[g].due = IF g = f THEN Tail(due) ELSE flows[g].due
  <2> HIDE DEF due
  <2>1. \A g \in DOMAIN flows : flows[g] \in FlowSpace
    BY <1>f
  <2>2. Tail(due) \in Dues
    BY <1>f, DueIs
  <2>3. flows' = [flows EXCEPT ![f] = [flows[f] EXCEPT !.due = Tail(due)]]
    BY <1>f
  <2>4. [flows[f] EXCEPT !.due = Tail(due)] \in FlowSpace
    BY <2>1, <2>2 DEF FlowSpace
  <2>5. Len(flows') = Len(flows) /\ DOMAIN flows' = DOMAIN flows
    BY <1>f, <2>3, <2>4
  <2> QED  BY <2>1, <2>3, <2>5 DEF FlowSpace, FlowsStay
<1>u. UNCHANGED <<calm, near, burst, chanSeq, mail, pair, admitted, drain>>
  BY DEF InjectCell, relayBoardVars
<1>k. Latest' = Latest /\ Kind' = Kind /\ KindParts' = KindParts /\ Kind \in Versions /\ Latest \in DOMAIN flows
  BY <1>0, <1>s, LatestStays, LatestIs
<1>e. flows'[Latest].due = Tail(due) /\ flows[Latest].due = due
  BY <1>g, <1>k, <1>s
<1> HIDE DEF c, due, p
<1>i. PICK n \in 1..InjectCopies :
        links' = [l \in DOMAIN links |->
                    IF l[1] # Origin \/ l[2] \notin near THEN links[l] ELSE PutCopies(links[l], c, n)]
  BY DEF InjectCell, c, due, p
<1>n. n \in Nat /\ n > 0
  BY DEF RelayAssumption
<1>l. links \in [Boards \X Relays -> Seq(Cells)]
  BY DEF RelayInv, RelayTyped
<1>t. ASSUME NEW x \in Boards, NEW r \in Relays
      PROVE  /\ x # Origin \/ r \notin near => links'[<<x, r>>] = links[<<x, r>>]
             /\ x = Origin /\ r \in near => links'[<<x, r>>] = PutCopies(links[<<x, r>>], c, n)
  BY <1>i, <1>l
<1>v. ASSUME NEW x \in Boards, NEW r \in Relays
      PROVE  /\ \A j \in DOMAIN links[<<x, r>>] :
                  j \in DOMAIN links'[<<x, r>>] /\ links'[<<x, r>>][j] = links[<<x, r>>][j]
             /\ \A j \in DOMAIN links'[<<x, r>>] :
                  links'[<<x, r>>][j] = c \/ \E k \in DOMAIN links[<<x, r>>] : links'[<<x, r>>][j] = links[<<x, r>>][k]
             /\ x = Origin /\ r \in near => \E j \in DOMAIN links'[<<x, r>>] : links'[<<x, r>>][j] = c
  <2>1. CASE x # Origin \/ r \notin near
    BY <2>1, <1>t
  <2>2. CASE x = Origin /\ r \in near
    <3> DEFINE q == links[<<x, r>>]
               u == PutCopies(q, c, n)
    <3>1. q \in Seq(Cells) /\ links'[<<x, r>>] = u
      BY <2>2, <1>l, <1>t
    <3> HIDE DEF q, u
    <3>2. /\ Len(q) \in Nat /\ DOMAIN q = 1..Len(q) /\ DOMAIN u = 1..(Len(q) + n)
          /\ \A j \in 1..Len(q) : u[j] = q[j]
          /\ \A j \in (Len(q) + 1)..(Len(q) + n) : u[j] = c
      BY <3>1, <1>c, <1>n, BehindIs DEF u
    <3>3. \A j \in DOMAIN q : j \in DOMAIN u /\ u[j] = q[j]
      BY <3>2, <1>n
    <3>4. \A j \in DOMAIN u : j \in DOMAIN q \/ j \in (Len(q) + 1)..(Len(q) + n)
      BY <3>2, <1>n
    <3>5. Len(q) + n \in DOMAIN u /\ Len(q) + n \in (Len(q) + 1)..(Len(q) + n)
      BY <3>2, <1>n
    <3>6. \A j \in DOMAIN u : u[j] = c \/ \E k \in DOMAIN q : u[j] = q[k]
      BY <3>2, <3>3, <3>4
    <3>7. \E j \in DOMAIN u : u[j] = c
      BY <3>2, <3>5
    <3> QED  BY <3>1, <3>3, <3>6, <3>7 DEF q
  <2> QED  BY <2>1, <2>2
<1>p. \A r \in Relays : (InPhase(r)' <=> InPhase(r)) /\ Unsent(r)' = Unsent(r)
  BY <1>u, <1>k, PhaseStays
<1>1. WellSent'
  <2>1. \A x, r \in Relays : links'[<<x, r>>] = links[<<x, r>>]
    BY <1>t DEF Boards, RelayAssumption
  <2> QED  BY <2>1, <1>0, <1>u DEF WellSent
<1>2. ChannelsAreOfFlows'
  BY <1>0, <1>u, <1>s DEF ChannelsAreOfFlows, FlowsStay
<1>3. OnlyLatest'
  <2>1. ASSUME NEW g \in DOMAIN flows', flows'[g].due # <<>>
        PROVE  g = Latest /\ Kind = "v2" /\ flows'[g].due = <<"B">>
    <3>1. g \in DOMAIN flows
      BY <1>s DEF FlowsStay
    <3>2. CASE g = f
      BY <2>1, <3>2, <1>s, <1>d, <1>g
    <3>3. CASE g # f
      BY <2>1, <3>1, <3>3, <1>s, <1>g, <1>0 DEF CalmInv, OnlyLatest
    <3> QED  BY <3>2, <3>3
  <2>2. ASSUME NEW x \in Boards, NEW r \in Relays, NEW j \in DOMAIN links'[<<x, r>>]
        PROVE  /\ links'[<<x, r>>][j].head = Latest /\ links'[<<x, r>>][j].tail = Latest
               /\ links'[<<x, r>>][j].part \in KindParts
    <3>1. CASE links'[<<x, r>>][j] = c
      BY <3>1, <1>c, <1>d
    <3>2. CASE \E k \in DOMAIN links[<<x, r>>] : links'[<<x, r>>][j] = links[<<x, r>>][k]
      BY <3>2, <1>0 DEF CalmInv, OnlyLatest
    <3> QED  BY <3>1, <3>2, <1>v
  <2>3. /\ \A b \in Relays, v \in Versions : mail[b][v].full => v = Kind /\ mail[b][v].of = Latest
        /\ \A b \in Relays : drain[b] # Idle => drain[b].box = Kind /\ mail[b][Kind].of = Latest
        /\ \A b \in Relays : drain[b].at = "half" => drain[b].head = Latest
    BY <1>0 DEF CalmInv, OnlyLatest
  <2>4. mail' = mail /\ drain' = drain
    BY <1>u
  <2> QED  BY <2>1, <2>2, <2>3, <2>4, <1>k DEF OnlyLatest
<1>4. BoxesGoOn'
  BY <1>0, <1>k, <1>p DEF CalmInv, BoxesGoOn
<1>5. LanesInOrder'
  <2>1. ASSUME NEW x \in Boards, NEW r \in Relays  PROVE AThenB(links'[<<x, r>>])
    <3>0. AThenB(links[<<x, r>>])
      BY <1>0 DEF CalmInv, LanesInOrder
    <3>1. CASE x # Origin \/ r \notin near
      BY <3>0, <3>1, <1>t
    <3>2. CASE x = Origin /\ r \in near
      <4> DEFINE q == links[<<x, r>>]
                 u == PutCopies(q, c, n)
      <4>1. q \in Seq(Cells) /\ links'[<<x, r>>] = u
        BY <3>2, <1>l, <1>t
      <4>2. c.part = "B" \/ \A j \in DOMAIN q : q[j].part # "B"
        <5>1. CASE p = "A"
          <6>1. q = <<>>
            BY <5>1, <3>2, <1>0, <1>d, <1>e DEF CalmInv, LanesInOrder
          <6> QED  BY <6>1
        <5>2. CASE p # "A" /\ p # "B"
          <6>1. KindParts = {Kind} /\ Kind # "B"
            BY <5>2, <1>0, <1>d, LatestIs
          <6>2. \A j \in DOMAIN q : q[j].part \in KindParts
            BY <1>0 DEF CalmInv, OnlyLatest
          <6> QED  BY <6>1, <6>2
        <5> QED  BY <5>1, <5>2, <1>c
      <4>3. AThenB(q)
        BY <3>0
      <4> HIDE DEF q, u
      <4>4. AThenB(u)
        BY <4>1, <4>2, <4>3, <1>c, <1>n, BehindInOrder DEF u
      <4> QED  BY <4>1, <4>4
    <3> QED  BY <3>1, <3>2
  <2>2. "A" \notin Range(flows'[Latest].due)
    BY <1>d, <1>e
  <2>3. ASSUME NEW x \in Relays, NEW r \in Relays, "A" \in Unsent(x)'
        PROVE  links'[<<x, r>>] = <<>>
    <3>1. x # Origin /\ x \in Boards
      BY DEF RelayAssumption, Boards
    <3>2. links[<<x, r>>] = <<>>
      BY <2>3, <1>p, <1>0 DEF CalmInv, LanesInOrder
    <3> QED  BY <3>1, <3>2, <1>t
  <2> QED  BY <2>1, <2>2, <2>3, <1>k DEF LanesInOrder
<1>6. LatestGoesOn'
  <2>1. \A k \in Hops : Reached(k)' <=> Reached(k)
    BY <1>k, <1>u DEF Reached
  <2>2. \A k \in Hops : k # 1 => (Reached(k - 1)' <=> Reached(k - 1))
    BY <2>1, BeforeIs
  <2>3. ASSUME NEW k \in Hops, UnderWay(k)  PROVE UnderWay(k)'
    <3>0. PICK x \in Boards, r \in Relays : x = Before(k) /\ r = Route[k]
      BY BeforeIs
    <3>1. Lane(k) = links[<<x, r>>] /\ Lane(k)' = links'[<<x, r>>]
      BY <3>0 DEF Lane
    <3>2. \A j \in DOMAIN Lane(k) : \E m \in DOMAIN Lane(k)' : Lane(k)'[m].part = Lane(k)[j].part
      BY <3>1, <1>v
    <3>3. ASSUME NEW part \in ToHop(k)
          PROVE  part \in ToHop(k)' \/ \E m \in DOMAIN Lane(k)' : Lane(k)'[m].part = part
      <4>1. CASE k = 1
        <5>1. ToHop(k) = Range(due) /\ ToHop(k)' = Range(Tail(due))
          BY <4>1, <1>e, <1>k DEF ToHop
        <5>2. part \in Range(Tail(due)) \/ part = p
          BY <3>3, <5>1, <1>d
        <5>3. x = Origin /\ r \in near
          BY <4>1, <3>0, <1>0, BeforeIs DEF WellSent
        <5>4. \E m \in DOMAIN Lane(k)' : Lane(k)'[m].part = p
          BY <5>3, <3>1, <1>v, <1>c
        <5> QED  BY <5>1, <5>2, <5>4
      <4>2. CASE k # 1
        <5>1. PICK y \in Relays : y = Route[k - 1]
          BY <4>2, BeforeIs
        <5>2. ToHop(k) = Unsent(y) /\ ToHop(k)' = Unsent(y)'
          BY <4>2, <5>1 DEF ToHop
        <5> QED  BY <5>2, <3>3, <1>p
      <4> QED  BY <4>1, <4>2
    <3> QED  BY <2>3, <3>2, <3>3, <1>s, <1>u, <1>0, ComingGrows
  <2>4. LatestGoesOn
    BY <1>0 DEF CalmInv
  <2> QED  BY <2>1, <2>2, <2>3, <2>4, <1>0, <1>s, GoesOnStays
<1>7. EarlierArrived'
  <2>1. \A b \in Relays, g \in DOMAIN flows : admitted[b][g] > 0 => admitted'[b][g] > 0
    BY <1>u
  <2> QED  BY <2>1, <1>0, <1>s, EarlierStay DEF CalmInv
<1> QED  BY <1>1, <1>2, <1>3, <1>4, <1>5, <1>6, <1>7 DEF LoneInv, CalmInv

\* Board b has decided on a cell of the latest flow: it is as it was, or the flow is in
\* its mailbox, on its channel and admitted.
Decided(b) ==
  /\ \A r \in Relays : r # b => /\ mail'[r] = mail[r] /\ pair'[r] = pair[r]
                                /\ chanSeq'[r] = chanSeq[r] /\ admitted'[r] = admitted[r]
  /\ \A w \in Versions :
       \/ mail'[b][w] = mail[b][w]
       \/ w = Kind /\ mail'[b][w].of = Latest /\ \E i \in Hops : i + 1 \in Hops /\ b = Route[i]
  /\ \/ chanSeq'[b] = chanSeq[b]
     \/ Kind # "v0" /\ chanSeq'[b] = flows[Latest].seq /\ admitted'[b][Latest] > 0
  /\ \A g \in DOMAIN flows : admitted[b][g] > 0 => admitted'[b][g] > 0
  /\ Kind = "v2" => InPhase(b)'
  /\ Unsent(b) \subseteq Unsent(b)'
  /\ "A" \in Unsent(b)' => "A" \in Unsent(b) \/ \A r \in Relays : links[<<b, r>>] = <<>>
  /\ admitted'[b][Latest] > 0 => admitted[b][Latest] > 0 \/ IsLast(b) \/ KindParts \subseteq Unsent(b)'

LEMMA RefusedIs ==
  ASSUME RelayInv, RelayAssumption, CalmInv, flows # <<>>, NEW b \in Relays,
         Refuse, UNCHANGED <<flows, drain>>
  PROVE  Decided(b)
<1>1. UNCHANGED <<admitted, chanSeq, mail, pair>>
  BY DEF Refuse
<1>2. Kind' = Kind
  BY DEF Kind, Latest
<1>3. (InPhase(b)' <=> InPhase(b)) /\ Unsent(b)' = Unsent(b)
  BY <1>1, <1>2, PhaseStays
<1>4. Kind = "v2" => InPhase(b)
  BY DEF CalmInv, BoxesGoOn
<1> QED  BY <1>1, <1>3, <1>4 DEF Decided

\* A board that has not admitted the latest flow has nothing to do.
LEMMA IdleBefore ==
  ASSUME RelayInv, RelayAssumption, LoneInv, calm, flows # <<>>, NEW b \in Relays,
         ~(admitted[b][Latest] > 0)
  PROVE  /\ drain[b] = Idle /\ \A v \in Versions : ~mail[b][v].full
         /\ \A r \in Relays : links[<<b, r>>] = <<>>
<1>1. \A v \in Versions : ~mail[b][v].full
  BY ActiveIs
<1>2. drain[b] = Idle
  <2> SUFFICES ASSUME drain[b] # Idle  PROVE FALSE
    OBVIOUS
  <2>1. drain[b].box \in Versions
    BY DrainAt
  <2> QED  BY <2>1, ActiveIs
<1>3. ASSUME NEW r \in Relays, links[<<b, r>>] # <<>>  PROVE FALSE
  <2> DEFINE q == links[<<b, r>>]
  <2>1. b \in Boards /\ q \in Seq(Cells)
    BY DEF RelayInv, RelayTyped, Boards
  <2>2. 1 \in DOMAIN q
    BY <1>3, <2>1
  <2>3. q[1].head = Latest
    BY <2>1, <2>2 DEF LoneInv, CalmInv, OnlyLatest
  <2>4. Owned(b, q[1].head, q[1].part)
    BY <2>1, <2>2 DEF RelayInv, LinksAreOwned
  <2>5. admitted[b][Latest] > 0
    BY <2>3, <2>4 DEF Owned, OwnedIn
  <2> QED  BY <2>5
<1> QED  BY <1>1, <1>2, <1>3

LEMMA AdmittedIs ==
  ASSUME RelayInv, RelayAssumption, LoneInv, calm, flows # <<>>, NEW b \in Relays, NEW s \in Boards,
         InTurn(b, s), Kind # "v0" => Newer(b, Latest), Admit(b, Kind, Latest),
         UNCHANGED <<flows, drain>>
  PROVE  Decided(b) /\ admitted'[b][Latest] > 0
<1>0. CalmInv
  BY DEF LoneInv
<1>k. /\ Latest \in DOMAIN flows /\ Latest \in Flows /\ Kind \in Versions /\ Kind \in {"v0", "v1", "v2"}
      /\ Kind = "v2" => KindParts = {"A", "B"}
      /\ Kind # "v2" => KindParts = {Kind}
  BY LatestIs
<1>K. Kind' = Kind
  BY DEF Kind, Latest
<1>t. /\ admitted \in [Relays -> [Flows -> 0..2]] /\ chanSeq \in [Relays -> 0..MaxFlows]
      /\ mail \in [Relays -> [Versions -> BoxSpace]] /\ pair \in [Relays -> PairSpace]
      /\ DOMAIN flows \subseteq Flows
  BY FlowIs DEF RelayInv, RelayTyped
<1>a. /\ admitted'[b][Latest] > 0
      /\ \A r \in Relays : r # b => admitted'[r] = admitted[r]
      /\ \A g \in Flows : g # Latest => admitted'[b][g] = admitted[b][g]
  <2> DEFINE n == IF admitted[b][Latest] = 2 THEN 2 ELSE admitted[b][Latest] + 1
             f == Latest
  <2>1. admitted[b][f] \in 0..2 /\ f \in Flows
    BY <1>t, <1>k
  <2>2. n \in 0..2 /\ n > 0
    BY <2>1
  <2>3. admitted' = [admitted EXCEPT ![b][f] = n]
    BY DEF Admit
  <2> HIDE DEF n, f
  <2>4. /\ admitted'[b][f] = n
        /\ \A r \in Relays : r # b => admitted'[r] = admitted[r]
        /\ \A g \in Flows : g # f => admitted'[b][g] = admitted[b][g]
    BY <2>1, <2>3, <1>t
  <2> QED  BY <2>2, <2>4 DEF f
<1>c. /\ \A r \in Relays : r # b => chanSeq'[r] = chanSeq[r]
      /\ Kind = "v0" => chanSeq'[b] = chanSeq[b]
      /\ Kind # "v0" => chanSeq'[b] = flows[Latest].seq
  BY <1>t DEF Admit
<1>n. Kind # "v0" => ~(admitted[b][Latest] > 0)
  <2> SUFFICES ASSUME Kind # "v0", admitted[b][Latest] > 0  PROVE FALSE
    OBVIOUS
  <2>1. flows[Latest].seq <= chanSeq[b]
    BY <1>k DEF RelayInv, AdmissionsAreCounted, Kind
  <2>2. flows[Latest].seq > chanSeq[b]
    BY DEF Newer
  <2>3. flows[Latest].seq \in Nat /\ chanSeq[b] \in Nat
    BY <1>k, <1>t, FlowIs DEF RelayInv
  <2> QED  BY <2>1, <2>2, <2>3
<1>g. \A g \in DOMAIN flows : admitted[b][g] > 0 => admitted'[b][g] > 0
  BY <1>a, <1>t
<1>1. CASE IsLast(b) \/ mail[b][Kind].full
  <2>1. mail' = mail /\ pair' = pair
    BY <1>1 DEF Admit
  <2>2. (InPhase(b)' <=> InPhase(b)) /\ Unsent(b)' = Unsent(b)
    BY <2>1, <1>K, PhaseStays
  <2>3. admitted[b][Latest] > 0 \/ IsLast(b)
    BY <1>1, <1>k, IdleBefore
  <2>4. Kind = "v2" => InPhase(b)
    BY <1>0 DEF CalmInv, BoxesGoOn
  <2> QED  BY <2>1, <2>2, <2>3, <2>4, <1>a, <1>c, <1>g DEF Decided
<1>2. CASE ~(IsLast(b) \/ mail[b][Kind].full)
  <2> DEFINE box == [full |-> TRUE, of |-> Latest]
             new == [aSent |-> FALSE, left |-> CellBSends]
             v == Kind
  <2>1. /\ mail' = [mail EXCEPT ![b][v] = box]
        /\ pair' = IF v = "v2" THEN [pair EXCEPT ![b] = new] ELSE pair
    BY <1>2 DEF Admit
  <2>2. box.full /\ box.of = Latest /\ ~new.aSent /\ new.left = CellBSends
    OBVIOUS
  <2>v. v \in Versions
    BY <1>k
  <2> HIDE DEF box, new, v
  <2>3. /\ mail'[b][v] = box
        /\ \A w \in Versions : w # v => mail'[b][w] = mail[b][w]
        /\ \A r \in Relays : r # b => mail'[r] = mail[r] /\ pair'[r] = pair[r]
        /\ v = "v2" => pair'[b] = new
    BY <2>1, <2>v, <1>t
  <2>4. \E i \in Hops : i + 1 \in Hops /\ b = Route[i]
    <3>1. b \in Range(Route)
      BY DEF InTurn
    <3>2. PICK i \in Hops : i = HopOf(b) /\ Route[i] = b
      BY <3>1, HopIs
    <3>3. i # Len(Route)
      BY <1>2, <3>2 DEF IsLast
    <3>4. i + 1 \in Hops
      BY <3>3, RouteIs
    <3> QED  BY <3>2, <3>4
  <2>5. mail'[b][Kind].full /\ mail'[b][Kind].of = Latest
    BY <2>2, <2>3 DEF v
  <2>6. /\ Kind = "v2" => InPhase(b)'
        /\ Unsent(b) \subseteq Unsent(b)'
        /\ "A" \in Unsent(b)' => \A r \in Relays : links[<<b, r>>] = <<>>
        /\ KindParts \subseteq Unsent(b)'
    <3>1. CASE Kind # "v2"
      <4>1. Unsent(b)' = {Kind}
        BY <3>1, <2>5, <1>K DEF Unsent
      <4>2. Unsent(b) \subseteq {Kind}
        BY <3>1 DEF Unsent
      <4> QED  BY <3>1, <4>1, <4>2, <1>k
    <3>2. CASE Kind = "v2"
      <4>1. drain[b] = Idle /\ (\A w \in Versions : ~mail[b][w].full) /\ \A r \in Relays : links[<<b, r>>] = <<>>
        BY <3>2, <1>n, IdleBefore
      <4>2. Unsent(b) = {}
        BY <4>1, <1>k, NothingUnsent
      <4>3. mail'[b]["v2"].full /\ drain'[b] = Idle
        BY <3>2, <4>1, <2>5
      <4>4. Waiting(b, "A")'
        BY <4>3 DEF Waiting
      <4>5. BeforeA(b)'
        BY <3>2, <2>2, <2>3 DEF BeforeA, v
      <4>6. SendsA(b)'
        BY <4>4, <4>5 DEF SendsA
      <4>7. Unsent(b)' = {"A", "B"}
        BY <3>2, <4>6, <1>K DEF Unsent
      <4>8. InPhase(b)'
        BY <4>6 DEF InPhase
      <4> QED  BY <3>2, <4>1, <4>2, <4>7, <4>8, <1>k
    <3> QED  BY <3>1, <3>2
  <2>7. \A w \in Versions : mail'[b][w] = mail[b][w] \/ (w = Kind /\ mail'[b][w].of = Latest)
    BY <2>3, <2>5 DEF v
  <2> QED  BY <2>3, <2>4, <2>6, <2>7, <1>a, <1>c, <1>g DEF Decided
<1> QED  BY <1>1, <1>2

\* The commitments of a timely flow are news to a board that has not admitted it.
LEMMA TimelyIsNewer ==
  ASSUME RelayInv, RelayAssumption, ChannelsAreOfFlows, flows # <<>>, NEW b \in Relays,
         Timely(Latest), ~(admitted[b][Latest] > 0), Kind # "v0"
  PROVE  Newer(b, Latest)
<1>k. Latest \in DOMAIN flows /\ Latest = Len(flows)
  BY LatestIs
<1>1. flows[Latest].seq > 0 /\ flows[Latest].seq \in Nat
  BY <1>k, FlowIs DEF ChannelsAreOfFlows, Kind, RelayInv
<1>2. CASE chanSeq[b] = 0
  BY <1>1, <1>2 DEF Newer
<1>3. CASE chanSeq[b] # 0
  <2>1. PICK g \in DOMAIN flows : /\ flows[g].version # "v0" /\ admitted[b][g] > 0
                                  /\ chanSeq[b] = flows[g].seq
    BY <1>3 DEF ChannelsAreOfFlows
  <2>2. g # Latest
    BY <2>1
  <2>3. g \in 1..(Latest - 1)
    <3>1. DOMAIN flows = 1..Len(flows) /\ Len(flows) \in Nat
      BY DEF RelayInv, RelayTyped
    <3> QED  BY <2>2, <3>1, <1>k
  <2>4. flows[g].seq < flows[Latest].seq
    BY <2>1, <2>3 DEF Timely, Kind
  <2>5. flows[g].seq \in Nat
    BY FlowIs DEF RelayInv
  <2> QED  BY <2>1, <2>4, <2>5, <1>1 DEF Newer
<1> QED  BY <1>2, <1>3

\* Board b has heard the first cell of a lane and decided on it.
LEMMA HeardCalm ==
  ASSUME RelayInv, RelayAssumption, LoneInv, calm, flows # <<>>,
         NEW b \in Relays, NEW s \in Boards, NEW c \in Cells,
         links[<<s, b>>] # <<>>, links' = [links EXCEPT ![<<s, b>>] = Tail(links[<<s, b>>])],
         UNCHANGED <<calm, near, flows, drain>>,
         \A r \in Relays : r # b => burst'[r] = burst[r],
         burst'[b] = NoBurst \/ burst'[b] = burst[b] \/ (burst'[b] = <<c>> /\ Intact(c)),
         Decided(b),
         \A i \in Hops : Route[i] = b /\ Before(i) # s => (Armed(b) => Armed(b)'),
         \A i \in Hops : Route[i] = b /\ Before(i) = s /\ ~Reached(i) /\ UnderWay(i)
           /\ Timely(Latest) /\ AllProvisioned => UnderWay(i)' \/ Reached(i)'
  PROVE  LoneInv'
<1>0. CalmInv /\ WellSent /\ ChannelsAreOfFlows
  BY DEF LoneInv
<1>f. FlowsStay
  BY DEF FlowsStay
<1>k. Latest' = Latest /\ Kind' = Kind /\ KindParts' = KindParts /\ Kind \in Versions /\ Latest \in DOMAIN flows
  BY <1>f, LatestStays, LatestIs
<1>l. links \in [Boards \X Relays -> Seq(Cells)]
  BY DEF RelayInv, RelayTyped
<1>t. ASSUME NEW x \in Boards, NEW r \in Relays
      PROVE  /\ \A j \in DOMAIN links'[<<x, r>>] :
                  \/ j \in DOMAIN links[<<x, r>>] /\ links'[<<x, r>>][j] = links[<<x, r>>][j]
                  \/ j + 1 \in DOMAIN links[<<x, r>>] /\ links'[<<x, r>>][j] = links[<<x, r>>][j + 1]
             /\ <<x, r>> # <<s, b>> => links'[<<x, r>>] = links[<<x, r>>]
             /\ links[<<x, r>>] = <<>> => links'[<<x, r>>] = <<>>
             /\ AThenB(links[<<x, r>>]) => AThenB(links'[<<x, r>>])
  <2>1. CASE <<x, r>> # <<s, b>>
    BY <2>1, <1>l
  <2>2. CASE <<x, r>> = <<s, b>>
    <3> DEFINE q == links[<<s, b>>]
               u == Tail(q)
    <3>1. q \in Seq(Cells) /\ q # <<>> /\ links'[<<x, r>>] = u /\ links[<<x, r>>] = q
      BY <2>2, <1>l
    <3>2. Len(q) \in Nat /\ Len(q) # 0 /\ DOMAIN q = 1..Len(q) /\ DOMAIN u = 1..(Len(q) - 1)
      BY <3>1
    <3>3. \A j \in DOMAIN u : j + 1 \in DOMAIN q /\ u[j] = q[j + 1]
      BY <3>1, <3>2
    <3> HIDE DEF q, u
    <3>4. AThenB(q) => AThenB(u)
      <4> SUFFICES ASSUME AThenB(q), NEW j \in DOMAIN u, NEW m \in DOMAIN u, j < m, u[j].part = "B"
                   PROVE  u[m].part = "B"
        BY DEF AThenB
      <4>1. j + 1 \in DOMAIN q /\ m + 1 \in DOMAIN q /\ j + 1 < m + 1
        BY <3>2, <3>3
      <4>2. q[j + 1].part = "B"
        BY <3>3
      <4>3. q[m + 1].part = "B"
        BY <4>1, <4>2 DEF AThenB
      <4> QED  BY <4>3, <3>3
    <3> QED  BY <2>2, <3>1, <3>3, <3>4
  <2> QED  BY <2>1, <2>2
<1>m. \A r \in Relays, w \in Versions :
        \/ mail'[r][w] = mail[r][w]
        \/ r = b /\ w = Kind /\ mail'[r][w].of = Latest /\ \E i \in Hops : i + 1 \in Hops /\ b = Route[i]
  BY DEF Decided
<1>p. ASSUME NEW r \in Relays
      PROVE  /\ Kind = "v2" => InPhase(r)'
             /\ Unsent(r) \subseteq Unsent(r)'
             /\ "A" \in Unsent(r)' => "A" \in Unsent(r) \/ \A y \in Relays : links[<<r, y>>] = <<>>
  <2>1. CASE r = b
    BY <2>1 DEF Decided
  <2>2. CASE r # b
    <3>1. mail'[r] = mail[r] /\ pair'[r] = pair[r] /\ drain'[r] = drain[r]
      BY <2>2 DEF Decided
    <3>2. (InPhase(r)' <=> InPhase(r)) /\ Unsent(r)' = Unsent(r)
      BY <3>1, <1>k, PhaseStays
    <3>3. Kind = "v2" => InPhase(r)
      BY <1>0 DEF CalmInv, BoxesGoOn
    <3> QED  BY <3>2, <3>3
  <2> QED  BY <2>1, <2>2
<1>a. \A r \in Relays, g \in DOMAIN flows : admitted[r][g] > 0 => admitted'[r][g] > 0
  <2> SUFFICES ASSUME NEW r \in Relays, NEW g \in DOMAIN flows, admitted[r][g] > 0
               PROVE  admitted'[r][g] > 0
    OBVIOUS
  <2>1. CASE r = b
    BY <2>1 DEF Decided
  <2>2. CASE r # b
    <3>1. admitted'[r] = admitted[r]
      BY <2>2 DEF Decided
    <3> QED  BY <3>1
  <2> QED  BY <2>1, <2>2
<1>1. WellSent'
  <2>1. ASSUME NEW x \in Relays, NEW r \in Relays, links'[<<x, r>>] # <<>>
        PROVE  \E i \in Hops : i + 1 \in Hops /\ x = Route[i] /\ r = Route[i + 1]
    <3>1. x \in Boards
      BY DEF Boards
    <3>2. links[<<x, r>>] # <<>>
      BY <2>1, <3>1, <1>t
    <3> QED  BY <3>2, <1>0 DEF WellSent
  <2>2. ASSUME NEW r \in Relays, NEW w \in Versions, mail'[r][w].of # 0
        PROVE  \E i \in Hops : i + 1 \in Hops /\ r = Route[i]
    <3>1. CASE mail'[r][w] = mail[r][w]
      BY <2>2, <3>1, <1>0 DEF WellSent
    <3>2. CASE r = b /\ \E i \in Hops : i + 1 \in Hops /\ b = Route[i]
      BY <3>2
    <3> QED  BY <3>1, <3>2, <1>m
  <2>3. ASSUME NEW r \in Relays, burst'[r] # NoBurst  PROVE Intact(burst'[r][1])
    <3>1. CASE burst'[r] = burst[r]
      BY <2>3, <3>1, <1>0 DEF WellSent
    <3>2. CASE burst'[r] = <<c>> /\ Intact(c)
      <4>1. burst'[r][1] = c
        BY <3>2
      <4> QED  BY <3>2, <4>1
    <3> QED  BY <2>3, <3>1, <3>2
  <2> QED  BY <2>1, <2>2, <2>3, <1>0 DEF WellSent
<1>2. ChannelsAreOfFlows'
  <2>1. ASSUME NEW r \in Relays, chanSeq'[r] # 0
        PROVE  \E g \in DOMAIN flows : /\ flows[g].version # "v0" /\ admitted'[r][g] > 0
                                       /\ chanSeq'[r] = flows[g].seq
    <3>1. CASE chanSeq'[r] = chanSeq[r]
      <4>1. PICK g \in DOMAIN flows : /\ flows[g].version # "v0" /\ admitted[r][g] > 0
                                      /\ chanSeq[r] = flows[g].seq
        BY <2>1, <3>1, <1>0 DEF ChannelsAreOfFlows
      <4> QED  BY <3>1, <4>1, <1>a
    <3>2. CASE r = b /\ Kind # "v0" /\ chanSeq'[b] = flows[Latest].seq /\ admitted'[b][Latest] > 0
      BY <3>2, <1>k DEF Kind
    <3> QED  BY <3>1, <3>2 DEF Decided
  <2> QED  BY <2>1, <1>0 DEF ChannelsAreOfFlows
<1>3. OnlyLatest'
  <2>1. \A g \in DOMAIN flows : flows[g].due # <<>> =>
          /\ g = Latest
          /\ flows[g].due = PartsOf(Kind) \/ (Kind = "v2" /\ flows[g].due = <<"B">>)
    BY <1>0 DEF CalmInv, OnlyLatest
  <2>2. ASSUME NEW x \in Boards, NEW r \in Relays, NEW j \in DOMAIN links'[<<x, r>>]
        PROVE  /\ links'[<<x, r>>][j].head = Latest /\ links'[<<x, r>>][j].tail = Latest
               /\ links'[<<x, r>>][j].part \in KindParts
    <3>1. \A m \in DOMAIN links[<<x, r>>] :
            /\ links[<<x, r>>][m].head = Latest /\ links[<<x, r>>][m].tail = Latest
            /\ links[<<x, r>>][m].part \in KindParts
      BY <1>0 DEF CalmInv, OnlyLatest
    <3>2. \/ j \in DOMAIN links[<<x, r>>] /\ links'[<<x, r>>][j] = links[<<x, r>>][j]
          \/ j + 1 \in DOMAIN links[<<x, r>>] /\ links'[<<x, r>>][j] = links[<<x, r>>][j + 1]
      BY <1>t
    <3>3. CASE j \in DOMAIN links[<<x, r>>] /\ links'[<<x, r>>][j] = links[<<x, r>>][j]
      BY <3>1, <3>3
    <3>4. CASE j + 1 \in DOMAIN links[<<x, r>>] /\ links'[<<x, r>>][j] = links[<<x, r>>][j + 1]
      BY <3>1, <3>4
    <3> QED  BY <3>2, <3>3, <3>4
  <2>3. ASSUME NEW r \in Relays, NEW w \in Versions, mail'[r][w].full
        PROVE  w = Kind /\ mail'[r][w].of = Latest
    BY <2>3, <1>m, <1>0 DEF CalmInv, OnlyLatest
  <2>4. ASSUME NEW r \in Relays, drain[r] # Idle
        PROVE  drain[r].box = Kind /\ mail'[r][Kind].of = Latest
    BY <2>4, <1>m, <1>k, <1>0 DEF CalmInv, OnlyLatest
  <2>5. \A r \in Relays : drain[r].at = "half" => drain[r].head = Latest
    BY <1>0 DEF CalmInv, OnlyLatest
  <2>6. flows' = flows /\ drain' = drain
    OBVIOUS
  <2>7. (\A g \in DOMAIN flows : flows[g].due # <<>> =>
           /\ g = Latest
           /\ flows[g].due = PartsOf(Kind) \/ (Kind = "v2" /\ flows[g].due = <<"B">>))'
    BY <2>1, <2>6, <1>k
  <2>8. (\A r \in Relays : drain[r] # Idle => drain[r].box = Kind /\ mail[r][Kind].of = Latest)'
    BY <2>4, <2>6, <1>k
  <2>9. (\A r \in Relays : drain[r].at = "half" => drain[r].head = Latest)'
    BY <2>5, <2>6, <1>k
  <2>10. (\A x \in Boards, r \in Relays : \A j \in DOMAIN links[<<x, r>>] :
            /\ links[<<x, r>>][j].head = Latest /\ links[<<x, r>>][j].tail = Latest
            /\ links[<<x, r>>][j].part \in KindParts)'
    <3> SUFFICES ASSUME NEW x \in Boards, NEW r \in Relays, NEW j \in DOMAIN links'[<<x, r>>]
                 PROVE  /\ links'[<<x, r>>][j].head = Latest' /\ links'[<<x, r>>][j].tail = Latest'
                        /\ links'[<<x, r>>][j].part \in KindParts'
      OBVIOUS
    <3>1. /\ links'[<<x, r>>][j].head = Latest /\ links'[<<x, r>>][j].tail = Latest
          /\ links'[<<x, r>>][j].part \in KindParts
      BY <2>2
    <3> QED  BY <3>1, <1>k
  <2>11. (\A r \in Relays, w \in Versions : mail[r][w].full => w = Kind /\ mail[r][w].of = Latest)'
    BY <2>3, <1>k
  <2> QED  BY <2>7, <2>8, <2>9, <2>10, <2>11 DEF OnlyLatest
<1>4. BoxesGoOn'
  BY <1>k, <1>p DEF BoxesGoOn
<1>5. LanesInOrder'
  <2>1. ASSUME NEW x \in Boards, NEW r \in Relays  PROVE AThenB(links'[<<x, r>>])
    BY <1>t, <1>0 DEF CalmInv, LanesInOrder
  <2>2. ASSUME "A" \in Range(flows[Latest].due), NEW r \in Relays  PROVE links'[<<Origin, r>>] = <<>>
    BY <2>2, <1>t, <1>0 DEF CalmInv, LanesInOrder, Boards
  <2>3. ASSUME NEW x \in Relays, NEW r \in Relays, "A" \in Unsent(x)'  PROVE links'[<<x, r>>] = <<>>
    <3>1. links[<<x, r>>] = <<>>
      BY <2>3, <1>p, <1>0 DEF CalmInv, LanesInOrder
    <3> QED  BY <3>1, <1>t DEF Boards
  <2> QED  BY <2>1, <2>2, <2>3, <1>k DEF LanesInOrder
<1>h. ASSUME NEW k \in Hops  PROVE ToHop(k) \subseteq ToHop(k)'
  <2>1. CASE k = 1
    BY <2>1, <1>k DEF ToHop
  <2>2. CASE k # 1
    <3>1. PICK r \in Relays : r = Route[k - 1]
      BY <2>2, BeforeIs
    <3>2. ToHop(k) = Unsent(r) /\ ToHop(k)' = Unsent(r)'
      BY <2>2, <3>1 DEF ToHop
    <3> QED  BY <3>2, <1>p
  <2> QED  BY <2>1, <2>2
<1>6. LatestGoesOn'
  <2>1. ASSUME NEW k \in Hops, Reached(k)  PROVE Reached(k)'
    <3>1. PICK r \in Relays : r = Route[k]
      BY BeforeIs
    <3> QED  BY <2>1, <3>1, <1>a, <1>k DEF Reached
  <2>2. ASSUME NEW k \in Hops, Timely(Latest), AllProvisioned, UnderWay(k)
        PROVE  UnderWay(k)' \/ Reached(k)'
    <3>0. Route[k] \in Relays /\ Before(k) \in Boards
      BY BeforeIs
    <3>1. CASE Route[k] = b /\ Before(k) = s
      BY <2>1, <2>2, <3>1
    <3>2. CASE ~(Route[k] = b /\ Before(k) = s)
      <4>1. Lane(k)' = Lane(k)
        BY <3>0, <3>2, <1>t DEF Lane
      <4>2. Armed(Route[k]) => Armed(Route[k])'
        <5>1. PICK r \in Relays : r = Route[k]
          BY <3>0
        <5>2. CASE r = b
          BY <3>2, <5>1, <5>2
        <5>3. CASE r # b
          <6>1. burst'[r] = burst[r]
            BY <5>3
          <6> QED  BY <5>1, <6>1, <1>k DEF Armed
        <5> QED  BY <5>2, <5>3
      <4> SUFFICES ASSUME NEW part \in KindParts  PROVE Comes(k, part)'
        BY <1>k DEF UnderWay
      <4>3. Comes(k, part)
        BY <2>2 DEF UnderWay
      <4> QED  BY <4>1, <4>2, <4>3, <1>h DEF Comes
    <3> QED  BY <3>1, <3>2
  <2>3. ASSUME NEW k \in Hops, k # 1, Reached(k - 1)', ~Reached(k - 1)  PROVE UnderWay(k)'
    <3>0. k - 1 \in Hops /\ k \in Nat
      BY <2>3, BeforeIs
    <3>1. PICK r \in Relays : r = Route[k - 1]
      BY <2>3, BeforeIs
    <3>2. admitted'[r][Latest] > 0 /\ ~(admitted[r][Latest] > 0)
      BY <2>3, <3>1, <1>k DEF Reached
    <3>3. r = b
      <4> SUFFICES ASSUME r # b  PROVE FALSE
        OBVIOUS
      <4>1. admitted'[r] = admitted[r]
        BY DEF Decided
      <4> QED  BY <3>2, <4>1
    <3>4. ~IsLast(b)
      <4>1. HopOf(b) = k - 1
        <5>1. b \in Range(Route)
          BY <3>0, <3>1, <3>3 DEF Range, Hops
        <5> QED  BY <5>1, <3>0, <3>1, <3>3, HopIs
      <4>2. k - 1 # Len(Route)
        BY <3>0, RouteIs
      <4> QED  BY <4>1, <4>2 DEF IsLast
    <3>5. KindParts \subseteq Unsent(b)'
      BY <3>2, <3>3, <3>4 DEF Decided
    <3>6. ToHop(k)' = Unsent(b)'
      BY <2>3, <3>1, <3>3 DEF ToHop
    <3> QED  BY <3>5, <3>6, <1>k DEF UnderWay, Comes
  <2>4. LatestGoesOn
    BY <1>0 DEF CalmInv
  <2> QED  BY <2>1, <2>2, <2>3, <2>4, <1>f, GoesOnStays
<1>7. EarlierArrived'
  BY <1>0, <1>a, <1>f, EarlierStay DEF CalmInv
<1> QED  BY <1>1, <1>2, <1>3, <1>4, <1>5, <1>6, <1>7 DEF LoneInv, CalmInv

\* A cell is in turn when it comes over the lane of the hop, and only then.
LEMMA TurnIs ==
  ASSUME RelayInv, RelayAssumption, WellSent, NEW b \in Relays, NEW s \in Boards, NEW i \in Hops,
         Route[i] = b, links[<<s, b>>] # <<>>
  PROVE  InTurn(b, s) <=> Before(i) = s
<1>1. b \in Range(Route) /\ HopOf(b) = i
  <2>1. b \in Range(Route)
    BY DEF Range, Hops
  <2> QED  BY <2>1, HopIs
<1>2. CASE i = 1
  <2>1. InTurn(b, s) /\ Before(i) = Origin
    BY <1>1, <1>2 DEF InTurn, Before
  <2>2. s = Origin
    <3> SUFFICES ASSUME s # Origin  PROVE FALSE
      OBVIOUS
    <3>1. s \in Relays
      BY DEF Boards
    <3>2. PICK m \in Hops : m + 1 \in Hops /\ s = Route[m] /\ b = Route[m + 1]
      BY <3>1 DEF WellSent
    <3>3. m + 1 = 1
      BY <3>2, <1>2 DEF RelayAssumption
    <3>4. m \in Nat /\ m # 0
      BY BeforeIs
    <3> QED  BY <3>3, <3>4
  <2> QED  BY <2>1, <2>2
<1>3. CASE i # 1
  <2>1. Before(i) = Route[i - 1]
    BY <1>3, BeforeIs
  <2> QED  BY <2>1, <1>1, <1>3 DEF InTurn
<1> QED  BY <1>2, <1>3

\* All but the first are in the tail.
LEMMA AfterTail ==
  ASSUME NEW S, NEW p \in Seq(S), p # <<>>, NEW j \in DOMAIN p, j # 1
  PROVE  j - 1 \in DOMAIN Tail(p) /\ Tail(p)[j - 1] = p[j]
<1>1. /\ Len(p) \in Nat /\ DOMAIN p = 1..Len(p) /\ Tail(p) \in Seq(S)
      /\ Len(Tail(p)) = Len(p) - 1 /\ j \in 1..Len(p)
  OBVIOUS
<1>2. PICK m \in 1..(Len(p) - 1) : j = m + 1
  <2>1. j - 1 \in 1..(Len(p) - 1) /\ j = (j - 1) + 1
    BY <1>1
  <2> QED  BY <2>1
<1>3. m \in DOMAIN Tail(p) /\ Tail(p)[m] = p[m + 1]
  BY <1>1
<1>4. j - 1 = m
  BY <1>1, <1>2
<1> QED  BY <1>2, <1>3, <1>4

LEMMA HearCalm ==
  ASSUME RelayInv, RelayAssumption, LoneInv, calm, NEW b \in Relays, NEW s \in Boards, HearCell(b, s)
  PROVE  LoneInv'
<1> DEFINE q == links[<<s, b>>]
           c == q[1]
<1>1. /\ q # <<>>
      /\ links' = [links EXCEPT ![<<s, b>>] = Tail(links[<<s, b>>])]
      /\ HearForward(b, s, c) \/ HearA(b, c) \/ HearB(b, s, c)
      /\ UNCHANGED <<calm, near, flows, drain>>
  BY DEF HearCell
<1>2. q \in Seq(Cells) /\ 1 \in DOMAIN q /\ c \in Cells
  <2>1. q \in Seq(Cells)
    BY DEF RelayInv, RelayTyped
  <2> QED  BY <2>1, <1>1
<1>3. flows # <<>>
  <2>1. Owned(s, c.head, c.part)
    BY <1>2 DEF RelayInv, LinksAreOwned
  <2> QED  BY <2>1 DEF Owned, OwnedIn
<1>4. CalmInv /\ WellSent /\ ChannelsAreOfFlows
  BY <1>3 DEF LoneInv
<1>5. c.head = Latest /\ c.tail = Latest /\ Intact(c) /\ c.part \in KindParts
  BY <1>2, <1>4 DEF CalmInv, OnlyLatest, Intact
<1>k. /\ Kind \in {"v0", "v1", "v2"} /\ Latest \in DOMAIN flows
      /\ Kind = "v2" => KindParts = {"A", "B"}
      /\ Kind # "v2" => KindParts = {Kind}
  BY <1>3, LatestIs
<1>K. Latest' = Latest /\ KindParts' = KindParts
  BY <1>1 DEF Latest, Kind, KindParts
<1>b. burst \in [Relays -> {NoBurst} \cup {<<x>> : x \in Cells}]
  BY DEF RelayInv, RelayTyped
<1> HIDE DEF c
<1>6. /\ \A r \in Relays : r # b => burst'[r] = burst[r]
      /\ burst'[b] = NoBurst \/ burst'[b] = burst[b] \/ (burst'[b] = <<c>> /\ Intact(c))
  <2>1. burst' = burst \/ burst' = [burst EXCEPT ![b] = <<c>>] \/ burst' = [burst EXCEPT ![b] = NoBurst]
    BY <1>1 DEF HearForward, HearA, HearB
  <2> QED  BY <2>1, <1>5, <1>b
<1>7. Decided(b)
  <2>1. CASE Refuse
    BY <2>1, <1>1, <1>3, <1>4, RefusedIs
  <2>2. CASE HearForward(b, s, c) /\ ~Refuse
    <3>1. /\ c.part \in {"v0", "v1"} /\ InTurn(b, s) /\ Admit(b, c.part, c.head)
          /\ c.part = "v1" => Newer(b, c.head)
      BY <2>2 DEF HearForward
    <3>2. c.part = Kind
      BY <3>1, <1>5, <1>k
    <3> QED  BY <3>1, <3>2, <1>1, <1>3, <1>5, AdmittedIs
  <2>3. CASE HearB(b, s, c) /\ ~Refuse
    <3>1. c.part = "B" /\ InTurn(b, s) /\ Newer(b, c.head) /\ Admit(b, "v2", c.head)
      BY <2>3 DEF HearB
    <3>2. Kind = "v2"
      BY <3>1, <1>5, <1>k
    <3> QED  BY <3>1, <3>2, <1>1, <1>3, <1>5, AdmittedIs
  <2> QED  BY <1>1, <2>1, <2>2, <2>3 DEF HearA
<1>8. ASSUME NEW i \in Hops, Route[i] = b, Before(i) # s, Armed(b)
      PROVE  Armed(b)'
  <2>1. ~InTurn(b, s)
    BY <1>1, <1>4, <1>8, TurnIs
  <2>2. Holds(b, c)
    BY <1>5, <1>8 DEF Armed, Holds
  <2>3. CASE burst' = burst
    BY <2>3, <1>8, <1>K DEF Armed
  <2>4. CASE HearA(b, c)
    <3>1. burst'[b] = <<c>> /\ <<c>> # <<>> /\ <<c>>[1] = c
      BY <2>4, <1>b DEF HearA
    <3> QED  BY <3>1, <1>5, <1>K DEF Armed, NoBurst
  <2>5. CASE HearB(b, s, c)
    <3>1. ~Consumes(b, s, c)
      BY <2>1, <2>2 DEF Consumes
    <3> QED  BY <2>3, <2>5, <3>1 DEF HearB
  <2> QED  BY <1>1, <2>3, <2>4, <2>5 DEF HearForward
<1>9. ASSUME NEW i \in Hops, Route[i] = b, Before(i) = s, ~Reached(i), UnderWay(i),
             Timely(Latest), AllProvisioned
      PROVE  UnderWay(i)' \/ Reached(i)'
  <2>1. InTurn(b, s)
    BY <1>1, <1>4, <1>9, TurnIs
  <2>2. b \in Provisioned
    BY <2>1, <1>9 DEF InTurn, AllProvisioned
  <2>3. Kind # "v0" => Newer(b, Latest)
    BY <1>3, <1>4, <1>9, TimelyIsNewer DEF Reached
  <2>4. Lane(i) = q /\ Lane(i)' = Tail(q)
    <3>1. <<s, b>> \in Boards \X Relays /\ links \in [Boards \X Relays -> Seq(Cells)]
      BY DEF RelayInv, RelayTyped
    <3>2. links'[<<s, b>>] = Tail(q)
      BY <3>1, <1>1
    <3> QED  BY <3>2, <1>9 DEF Lane
  <2>a. ASSUME Admit(b, Kind, Latest)  PROVE Reached(i)'
    BY <2>a, <2>1, <2>3, <1>1, <1>3, <1>9, <1>K, AdmittedIs DEF Reached
  <2>5. CASE HearForward(b, s, c)
    <3>1. c.part = Kind
      BY <2>5, <1>5, <1>k DEF HearForward
    <3>2. Admit(b, Kind, Latest)
      BY <2>5, <2>1, <2>2, <2>3, <3>1, <1>5 DEF HearForward
    <3> QED  BY <3>2, <2>a
  <2>6. CASE HearA(b, c)
    <3>1. c.part = "A" /\ Kind = "v2" /\ KindParts = {"A", "B"}
      BY <2>6, <1>5, <1>k DEF HearA
    <3>2. Comes(i, "A")'
      <4>1. burst'[b] = <<c>> /\ <<c>> # <<>> /\ <<c>>[1] = c
        BY <2>6, <1>b DEF HearA
      <4>2. Armed(b)'
        BY <4>1, <1>5, <1>K DEF Armed, NoBurst
      <4> QED  BY <4>2, <1>9 DEF Comes
    <3>3. Comes(i, "B")'
      <4>1. Comes(i, "B")
        BY <3>1, <1>9 DEF UnderWay
      <4>2. CASE "B" \in ToHop(i)
        <5>1. "B" \in ToHop(i)'
          <6>1. CASE i = 1
            BY <4>2, <6>1, <1>1, <1>K DEF ToHop
          <6>2. CASE i # 1
            <7>1. PICK r \in Relays : r = Route[i - 1]
              BY <6>2, BeforeIs
            <7>2. r # b
              <8>1. i - 1 \in Hops /\ i \in Nat
                BY <6>2, BeforeIs
              <8> QED  BY <7>1, <8>1, <1>9 DEF RelayAssumption
            <7>3. mail'[r] = mail[r] /\ pair'[r] = pair[r] /\ drain'[r] = drain[r] /\ Kind' = Kind
              BY <7>2, <1>1, <1>7 DEF Decided, Kind, Latest
            <7>4. Unsent(r)' = Unsent(r)
              BY <7>3, PhaseStays
            <7> QED  BY <4>2, <6>2, <7>1, <7>4 DEF ToHop
          <6> QED  BY <6>1, <6>2
        <5> QED  BY <5>1 DEF Comes
      <4>3. CASE \E j \in DOMAIN Lane(i) : Lane(i)[j].part = "B"
        <5>1. PICK j \in DOMAIN q : q[j].part = "B"
          BY <4>3, <2>4
        <5>2. j # 1
          BY <5>1, <3>1 DEF c
        <5>3. j - 1 \in DOMAIN Tail(q) /\ Tail(q)[j - 1] = q[j]
          BY <5>1, <5>2, <1>1, <1>2, AfterTail
        <5> QED  BY <5>1, <5>3, <2>4 DEF Comes
      <4> QED  BY <4>1, <4>2, <4>3 DEF Comes
    <3> QED  BY <3>1, <3>2, <3>3, <1>K DEF UnderWay
  <2>7. CASE HearB(b, s, c)
    <3>1. c.part = "B" /\ Kind = "v2" /\ KindParts = {"A", "B"}
      BY <2>7, <1>5, <1>k DEF HearB
    <3>2. Comes(i, "A")
      BY <3>1, <1>9 DEF UnderWay
    <3>3. "A" \notin ToHop(i)
      <4>1. CASE i = 1
        <5>1. s = Origin
          BY <4>1, <1>9, BeforeIs
        <5>2. "A" \notin Range(flows[Latest].due)
          BY <5>1, <1>1, <1>4 DEF CalmInv, LanesInOrder
        <5> QED  BY <4>1, <5>2 DEF ToHop
      <4>2. CASE i # 1
        <5>1. s \in Relays /\ s = Route[i - 1]
          BY <4>2, <1>9, BeforeIs
        <5>2. "A" \notin Unsent(s)
          BY <5>1, <1>1, <1>4 DEF CalmInv, LanesInOrder
        <5> QED  BY <4>2, <5>1, <5>2 DEF ToHop
      <4> QED  BY <4>1, <4>2
    <3>4. ASSUME NEW j \in DOMAIN q  PROVE q[j].part # "A"
      <4>1. CASE j = 1
        BY <4>1, <3>1 DEF c
      <4>2. CASE j # 1
        <5>1. AThenB(q)
          BY <1>4 DEF CalmInv, LanesInOrder
        <5>2. 1 < j
          BY <4>2, <1>2
        <5>3. q[j].part = "B"
          BY <5>1, <5>2, <3>1, <1>2 DEF AThenB, c
        <5> QED  BY <5>3
      <4> QED  BY <4>1, <4>2
    <3>5. Armed(b)
      BY <3>2, <3>3, <3>4, <2>4, <1>9 DEF Comes
    <3>6. Holds(b, c) /\ Intact(burst[b][1])
      BY <3>5, <1>4, <1>5 DEF Armed, Holds, WellSent
    <3>7. Admit(b, "v2", Latest)
      BY <2>7, <2>1, <2>2, <2>3, <3>1, <3>6, <1>5 DEF HearB
    <3> QED  BY <3>1, <3>7, <2>a
  <2> QED  BY <1>1, <2>5, <2>6, <2>7
<1>10. \A i \in Hops : Route[i] = b /\ Before(i) # s => (Armed(b) => Armed(b)')
  BY <1>8
<1>11. \A i \in Hops : Route[i] = b /\ Before(i) = s /\ ~Reached(i) /\ UnderWay(i)
         /\ Timely(Latest) /\ AllProvisioned => UnderWay(i)' \/ Reached(i)'
  BY <1>9
<1>12. links[<<s, b>>] # <<>> /\ UNCHANGED <<calm, near, flows, drain>>
  BY <1>1
<1> QED  BY <1>1, <1>2, <1>3, <1>6, <1>7, <1>10, <1>11, <1>12, HeardCalm

-----------------------------------------------------------------------------

LEMMA LoneStep ==
  ASSUME RelayInv, RelayAssumption, LoneInv, [RelayNext]_relayVars
  PROVE  LoneInv'
<1>1. CASE ~calm
  <2>1. calm' = calm
    BY DEF RelayNext, relayVars, Begin, InjectCell, HearCell, Clear, Choose, CopyHead, Transmit, AfterSend
  <2> QED  BY <1>1, <2>1 DEF LoneInv
<1>2. CASE calm
  <2> USE <1>2
  <2>1. CASE \E v \in Versions : Begin(v)
    BY <2>1, BeginCalm
  <2>2. CASE \E f \in DOMAIN flows : InjectCell(f)
    BY <2>2, InjectCalm
  <2>3. CASE \E b \in Relays, s \in {Origin} \cup Relays : HearCell(b, s)
    BY <2>3, HearCalm DEF Boards
  <2>4. CASE \E b \in Relays, v \in Versions : Clear(b, v)
    BY <2>4, ClearCalm
  <2>5. CASE \E b \in Relays : Choose(b)
    BY <2>5, ChooseCalm
  <2>6. CASE \E b \in Relays : CopyHead(b)
    BY <2>6, CopyHeadCalm
  <2>7. CASE \E b \in Relays : Transmit(b)
    BY <2>7, TransmitCalm
  <2>8. CASE \E b \in Relays : AfterSend(b)
    BY <2>8, AfterSendCalm
  <2>9. CASE UNCHANGED relayVars
    <3>1. /\ Latest' = Latest /\ Kind' = Kind /\ KindParts' = KindParts
          /\ UNCHANGED <<calm, near, flows, links, burst, chanSeq, mail, pair, drain, admitted>>
      BY <2>9 DEF relayVars, Latest, Kind, KindParts
    <3>2. WellSent' <=> WellSent
      BY <3>1 DEF WellSent
    <3>3. ChannelsAreOfFlows' <=> ChannelsAreOfFlows
      BY <3>1 DEF ChannelsAreOfFlows
    <3>4. CASE flows = <<>>
      BY <3>1, <3>2, <3>3, <3>4 DEF LoneInv
    <3>5. CASE flows # <<>>
      <4>0. CalmInv
        BY <3>5 DEF LoneInv
      <4>1. OnlyLatest'
        BY <3>1, <4>0 DEF CalmInv, OnlyLatest
      <4>p. \A b \in Relays : (InPhase(b)' <=> InPhase(b)) /\ Unsent(b)' = Unsent(b)
        BY <3>1, PhaseStays
      <4>2. BoxesGoOn'
        BY <3>1, <4>0, <4>p DEF CalmInv, BoxesGoOn
      <4>3. LanesInOrder'
        BY <3>1, <4>0, <4>p DEF CalmInv, LanesInOrder, AThenB
      <4>f. FlowsStay
        BY <3>1 DEF FlowsStay
      <4>4. LatestGoesOn'
        <5>1. \A i \in Hops : Reached(i)' <=> Reached(i)
          BY <3>1 DEF Reached
        <5>2. \A i \in Hops : i # 1 => (Reached(i - 1)' <=> Reached(i - 1))
          BY <5>1, BeforeIs
        <5>3. ASSUME NEW i \in Hops, UnderWay(i)  PROVE UnderWay(i)'
          <6>1. ToHop(i)' = ToHop(i)
            <7>1. CASE i = 1
              BY <7>1, <3>1 DEF ToHop
            <7>2. CASE i # 1
              <8>1. PICK r \in Relays : r = Route[i - 1]
                BY <7>2, BeforeIs
              <8> QED  BY <7>2, <8>1, <4>p DEF ToHop
            <7> QED  BY <7>1, <7>2
          <6>2. Lane(i)' = Lane(i)
            BY <3>1 DEF Lane
          <6> QED  BY <5>3, <6>1, <6>2, <3>1, <3>5, <4>f, ComingStays
        <5> QED  BY <5>1, <5>2, <5>3, <4>0, <4>f, <3>5, GoesOnStays DEF CalmInv
      <4>5. EarlierArrived'
        <5>1. \A b \in Relays, g \in DOMAIN flows : admitted[b][g] > 0 => admitted'[b][g] > 0
          BY <3>1
        <5> QED  BY <5>1, <4>0, <4>f, <3>5, EarlierStay DEF CalmInv
      <4> QED  BY <4>1, <4>2, <4>3, <4>4, <4>5, <3>2, <3>3 DEF LoneInv, CalmInv
    <3> QED  BY <3>4, <3>5
  <2> QED  BY <2>1, <2>2, <2>3, <2>4, <2>5, <2>6, <2>7, <2>8, <2>9 DEF RelayNext
<1> QED  BY <1>1, <1>2

\* The inductive invariant of a calm radio: of one flow at a time, each hop that the one
\* before has reached is reached too, or each part of the flow is still to come to it.
THEOREM LoneInvariant == RelaySpec => []LoneInv
<1>1. RelayInit => LoneInv
  BY RelayAssumption, LoneInit
<1>2. RelayInv /\ LoneInv /\ [RelayNext]_relayVars => LoneInv'
  BY RelayAssumption, LoneStep
<1> QED  BY <1>1, <1>2, RelayInvariant, PTL DEF RelaySpec

\* Over a calm radio, a forward that is alone reaches the last board of its route.
THEOREM LoneFlowsReach == RelaySpec => []LoneFlowsArrive
<1>1. RelayInv /\ LoneInv => LoneFlowsArrive
  BY RelayAssumption, QuietAllArrived DEF LoneFlowsArrive, AllProvisioned
<1> QED  BY <1>1, RelayInvariant, LoneInvariant, PTL

=============================================================================
