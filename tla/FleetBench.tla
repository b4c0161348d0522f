------------------------------ MODULE FleetBench ------------------------------
(***************************************************************************)
(* The fleet with a board on the bench: hardware.ts injects a unit's         *)
(* certificate into one board, which sends it over the air, and reads the    *)
(* log of another, which verifies it and installs it into its capability     *)
(* table (examples/mesh_demo/main/main.c).  It is done three times: as       *)
(* issued, with a byte flipped, and signed with the demo key.                *)
(*                                                                          *)
(* A signature is the key that made it, or "broken" on bytes it does not     *)
(* cover.  A frame is sent twice 0.4 s apart and the injector waits 1.8 s    *)
(* after the last one, so one injection is one broadcast.                    *)
(***************************************************************************)
EXTENDS Fleet

CONSTANTS
  TableMax, AnyDomain, Free,  \* of the capability table
  DeviceDomain,               \* DEVICE_DOMAIN_FLAG
  BootClock                   \* esp_log_timestamp() minus Date.now(), at most 0

ASSUME BenchAssumption == TableMax \in Nat \ {0} /\ BootClock \in Int

INSTANCE CapabilityTable

VARIABLES
  anchor,   \* the keys the watched board's firmware verifies against
  table,    \* its s_cap_table
  bench     \* the script: its step, the certificate, what it read

boardVars == <<anchor, table>>
benchVars == <<bench>>
fleetBenchVars == <<fleetVars, boardVars, benchVars>>

NothingStaged == [cert |-> Free, sig |-> "none"]

\* The script before it starts.
BenchIdle == [at |-> "idle", step |-> 0, cert |-> Free, staged |-> NothingStaged, lines |-> <<>>,
              from |-> 0, failures |-> 0]

BoardNow == clock + BootClock

Signatures == <<"operator", "broken", "demo">>

\* What each of the three steps must read.
Required == <<"installed", "invalid", "invalid">>

BenchInit ==
  /\ FleetInit
  /\ anchor \in {{"operator"}, {"operator", "demo"}, {"operator", "broken", "demo"}}
  /\ table = EmptyTable
  /\ bench = BenchIdle

-----------------------------------------------------------------------------
(* The boards *)

\* What the watched board logs of a cell it hears.
Verdict(cell) ==
  IF cell.sig \notin anchor THEN "invalid"
  ELSE InstallCode(table, DeviceDomain, cell.cert, BoardNow)

\* The injecting board sends the cell it holds, and the other one may hear it.
BroadcastStaged ==
  /\ bench.staged # NothingStaged
  /\ \/ /\ bench' = [bench EXCEPT !.staged = NothingStaged,
                                  !.lines = Append(@, [said |-> Verdict(bench.staged),
                                                       of |-> bench.staged.cert.edge])]
        /\ table' = IF bench.staged.sig \in anchor
                    THEN Install(table, DeviceDomain, bench.staged.cert, BoardNow)
                    ELSE table
     \/ /\ bench' = [bench EXCEPT !.staged = NothingStaged]
        /\ UNCHANGED table
  /\ UNCHANGED <<fleetVars, anchor>>

RebootUnit ==
  /\ table' = EmptyTable
  /\ table # EmptyTable
  /\ UNCHANGED <<fleetVars, anchor, benchVars>>

-----------------------------------------------------------------------------
(* hardware.ts *)

\* The script awaits what it asks of the fleet and does nothing to it meanwhile.
Resting == bench.at \in {"idle", "done"}

BenchStarts(cert) ==
  /\ Resting /\ pending = {}
  /\ bench' = [BenchIdle EXCEPT !.at = "inject", !.step = 1, !.cert = cert]
  /\ UNCHANGED <<fleetVars, boardVars>>

\* Board.inject: the cell replaces whatever the injecting board still held.
Inject ==
  /\ bench.at = "inject"
  /\ bench' = [bench EXCEPT !.at = "await",
                            !.staged = [cert |-> bench.cert, sig |-> Signatures[bench.step]]]
  /\ UNCHANGED <<fleetVars, boardVars>>

\* Faulty variant: the last step goes on reading where the one before it began.
ReadFromBefore == IF bench.step = 3 THEN bench.from ELSE Len(bench.lines)

\* Board.await reads the lines logged after it was called.
ReadFrom == Len(bench.lines)

AwaitBegins ==
  /\ bench.at = "await" /\ bench.staged # NothingStaged
  /\ bench' = [bench EXCEPT !.at = "wait", !.from = ReadFrom]
  /\ UNCHANGED <<fleetVars, boardVars>>

\* The lines that end a wait; a refusal for the domain is not among them.
Needles == {i \in DOMAIN bench.lines :
              i > bench.from /\ bench.lines[i].said \in {"installed", "failed", "invalid"}}

\* The verdict of a step, and on to the next one; after the last the boards'
\* ports are closed.
Scores(good) ==
  LET failures == bench.failures + IF good THEN 0 ELSE 1 IN
  bench' = IF bench.step = 3
           THEN [BenchIdle EXCEPT !.at = "done", !.failures = failures]
           ELSE [bench EXCEPT !.at = "inject", !.step = @ + 1, !.failures = failures]

AwaitReads ==
  /\ bench.at = "wait" /\ Needles # {}
  /\ LET line == bench.lines[First(Needles)] IN
       Scores(/\ line.said = Required[bench.step]
              /\ bench.step = 1 => line.of = bench.cert.edge)
  /\ UNCHANGED <<fleetVars, boardVars>>

\* Twelve seconds without a line: the broadcast is long over.
AwaitTimesOut ==
  /\ bench.at = "wait" /\ Needles = {} /\ bench.staged = NothingStaged
  /\ Scores(FALSE)
  /\ UNCHANGED <<fleetVars, boardVars>>

-----------------------------------------------------------------------------

FleetStep ==
  \/ AddZone
  \/ \E z \in held, u \in Units : AddDevice(z, u)
  \/ \E z \in held : Decommission(z)
  \/ \E pair \in given, e \in Lifetimes : IssueCert(pair[2], e)
  \/ \E p \in pending : DeriveReturns(p) \/ DeriveFails(p) \/ BurnReturns(p)
  \/ Restart \/ Readd

BenchNext ==
  \/ Resting /\ FleetStep /\ UNCHANGED <<boardVars, benchVars>>
  \/ PassTime /\ UNCHANGED <<boardVars, benchVars>>
  \/ BroadcastStaged \/ RebootUnit
  \/ \E cert \in issued : BenchStarts(cert)
  \/ Inject \/ AwaitBegins \/ AwaitReads \/ AwaitTimesOut

BenchSpec == BenchInit /\ [][BenchNext]_fleetBenchVars

-----------------------------------------------------------------------------
(* Properties *)

CertSpace ==
  [chan: Paths, edge: Paths, expiry: Lifetimes \cup {NoExpiry}, from: 1..MaxClock,
   domain: {FleetDomain}]

\* The types of the control plane's state and of the watched board.
BenchTypeOK ==
  /\ \A p \in Parents : next[p] \in 0..Bound(p)
  /\ nodes \subseteq Paths
  /\ \A p \in Parents : ceilings[p] \in 0..Bound(p)
  /\ held \subseteq Zones
  /\ issued \subseteq CertSpace
  /\ given \subseteq Units \X Paths
  /\ burned \subseteq Paths
  /\ clock \in 1..MaxClock
  /\ table \in [Slots -> CertSpace \cup {Free}]
  /\ bench.failures \in 0..3

\* "A unit's position under its zone" (fleet.ts) is its alone: no two units are
\* flashed for one path, over concurrent calls, refused writes and restarts of a
\* control plane that keeps a database.
OneUnitPerPosition ==
  persistent => \A p, q \in given : p[2] = q[2] => p[1] = q[1]

\* A retired position is never given to a unit (fleet.ts, decommission), by the
\* session that retired it or a later one over the same database.
BurnedStaysBurned == persistent => \A pair \in given : pair[2] \notin burned

\* The recipe of the session is usable: every node it lists lies below its
\* slot's ceiling, and no ceiling promises an index the SDK has yet to reach.
RecipeCoversItsNodes ==
  /\ \A path \in nodes : ceilings[Front(path)] > Last(path)
  /\ \A p \in Parents : ceilings[p] <= next[p]

\* A unit flashed more than once, in this control plane or in a rebuilt one,
\* is flashed for the same path (fleet.ts: "a unit's key is reproducible from
\* the operator root alone").  No run has it, for the code breaks it: a write
\* refused by the SDK, or a retired position, is an index that the rebuilt
\* control plane gives to the next unit.
KeyIsReproducible ==
  \A p, q \in given : p[1] = q[1] => p[2] = q[2]

\* The watched board never holds two live grants of one channel and domain.
GrantsAreDistinct == OneEntryPerGrant(table, BoardNow)

\* A live grant leaves the table by a renewal of that grant or a reboot, never
\* to make room for another.
LiveGrantsStay ==
  [][\/ table' = EmptyTable
     \/ \A i \in Slots :
          Occupied(table, i, BoardNow) =>
            table'[i] = table[i] \/ SameGrant(table'[i], table[i])]_<<table>>

\* hardware.ts: a run without a failed step means a board that checks against
\* the operator's key specifically.
CleanRunMeansAnchored ==
  bench.at = "done" /\ bench.failures = 0 => anchor = {"operator"}

=============================================================================
