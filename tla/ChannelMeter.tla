---------------------------- MODULE ChannelMeter ----------------------------
(***************************************************************************)
(* Selling light by the second: the bridge's books                          *)
(* (tools/x402-bridge/meter.ts, ChannelMeter) and the boards they are about. *)
(*                                                                          *)
(* The injector board puts one cell at a time on the air; any board may     *)
(* miss it, and none is told.  The bridge knows only whether the injector   *)
(* logged the broadcast.  Every broadcast is awaited, so each is a step and *)
(* the bridge process may die between any two.  bridge.ts runs payments one *)
(* at a time, so a payment is one `job`.                                    *)
(*                                                                          *)
(* Time is left out: whether the light has gone dark, whether the last open *)
(* is old, and how far the idle meter drained are choices.  Expiry, seven   *)
(* days after the open, is taken as never reached, and CAPACITY bounds what *)
(* a channel is asked to hold (a guard of Commit; the code has none).       *)
(***************************************************************************)
EXTENDS CellChannel, FiniteSets

CONSTANTS
  Boards,        \* the boards that sell light
  Sats,          \* what a payer may add
  Repeat,        \* copies of an open and of a close
  CommitRepeat,  \* copies of a commitment
  MaxChannels,   \* bound: channel ids drawn
  MaxSeq,        \* bound: commitments per channel
  MaxCatchUp,    \* bound: sats drained in the dark and caught up
  MissedAcks,    \* may the bridge miss the injector's log line
  CrashPoints    \* where in a job the bridge process may die

JobSteps == {"idle", "flush", "resync", "close", "renew", "open", "commit", "record"}

ASSUME MeterAssumption ==
  /\ NoId \notin 1..MaxChannels
  /\ Sats \subseteq Nat \ {0}
  /\ Repeat \in Nat \ {0}
  /\ CommitRepeat \in Nat \ {0}
  /\ MaxChannels \in Nat \ {0}
  /\ MaxCatchUp \in Nat
  /\ MissedAcks \in BOOLEAN
  /\ CrashPoints \subseteq JobSteps

VARIABLES
  boards,      \* board -> its channel
  up,          \* is the bridge process up
  books,       \* ChannelMeter.state
  disk,        \* the state file
  job,         \* the start() or addSats() under way
  tail,        \* background copies of the last commitment still to go out
  drawn,       \* channel ids drawn so far; an id is a random 16 bytes, never drawn twice
  answered,    \* history: sats of the payments answered ok
  listening,   \* history: boards that could follow the last change of channel and heard it
  copies       \* history: boards that heard a copy of the cell being repeated

vars == <<boards, up, books, disk, job, tail, drawn, answered, listening, copies>>

Capacity == 1000000
Never == 1         \* an expiry beyond every now, which is 0

OpenCell == [kind |-> "open", id |-> books.id, capacity |-> Capacity]
Commitment(seq, share) ==
  [kind |-> "commitment", id |-> books.id, seq |-> seq, deviceShare |-> share,
   userShare |-> 0, expiry |-> Never]
CloseCell == [kind |-> "close", id |-> books.id, seq |-> books.seq, deviceShare |-> books.share]

NoCell == [kind |-> "none", id |-> NoId, seq |-> 0, deviceShare |-> 0, userShare |-> 0, expiry |-> 0]

Idle == [at |-> "idle", sats |-> 0, left |-> 0, cell |-> NoCell]

-----------------------------------------------------------------------------
(* The air *)

Applied(c, cell) ==
  CASE cell.kind = "open" -> ApplyOpen(c, cell)
    [] cell.kind = "commitment" -> ApplyCommitment(c, cell, 0)
    [] cell.kind = "close" -> ApplyClose(c, cell)

Hear(cell, heard) ==
  boards' = [b \in Boards |-> IF b \in heard THEN Applied(boards[b], cell) ELSE boards[b]]

\* One await of broadcast(): who heard the cell, and what the bridge learned.
Broadcast(cell, heard, acked) ==
  /\ acked \/ MissedAcks \/ heard = {}
  /\ Hear(cell, heard)

\* In the channel of the books, or free to join it.
Joinable(b) == boards[b].state = "CLOSED" \/ boards[b].id = books.id

-----------------------------------------------------------------------------
(* The bridge: start() and newSession() *)

\* The books of a channel that has had no commitment.
Fresh(id, satsPaid) == [id |-> id, seq |-> 0, share |-> 0, satsPaid |-> satsPaid]

\* The process starts: the constructor loads the state file, start() closes a
\* channel with commitments and announces the channel.
Start ==
  /\ ~up
  /\ up' = TRUE
  /\ books' = disk
  /\ job' = [Idle EXCEPT !.at = IF disk.seq > 0 THEN "resync" ELSE "open", !.left = Repeat]
  /\ listening' = {b \in Boards : boards[b].state = "CLOSED" \/ boards[b].id = disk.id}
  /\ UNCHANGED <<boards, disk, tail, drawn, answered, copies>>

\* Faulty variant: the channel is closed without the last commitment.
ResyncSkipped(heard, acked) ==
  /\ up /\ job.at = "resync"
  /\ heard = {} /\ acked
  /\ job' = [job EXCEPT !.at = "close", !.left = Repeat]
  /\ UNCHANGED <<boards, up, books, disk, tail, drawn, answered, listening, copies>>

\* The last commitment again, for a board that missed it.
Resync(heard, acked) ==
  /\ up /\ job.at = "resync"
  /\ Broadcast(Commitment(books.seq, books.share), heard, acked)
  /\ job' = [job EXCEPT !.at = "close", !.left = Repeat]
  /\ listening' = listening \cap heard
  /\ UNCHANGED <<up, books, disk, tail, drawn, answered, copies>>

Close(heard, acked) ==
  /\ up /\ job.at = "close"
  /\ Broadcast(CloseCell, heard, acked)
  /\ IF job.left > 1
       THEN /\ job' = [job EXCEPT !.left = @ - 1]
            /\ copies' = copies \cup heard
            /\ UNCHANGED listening
       ELSE /\ job' = [job EXCEPT !.at = "renew"]
            /\ listening' = listening \cap (copies \cup heard)
            /\ copies' = {}
  /\ UNCHANGED <<up, books, disk, tail, drawn, answered>>

\* A new id, on disk before it is on the air.
Renew ==
  /\ up /\ job.at = "renew" /\ drawn < MaxChannels
  /\ drawn' = drawn + 1
  /\ books' = Fresh(drawn', books.satsPaid)
  /\ disk' = books'
  /\ job' = [job EXCEPT !.at = "open", !.left = Repeat]
  /\ UNCHANGED <<boards, up, tail, answered, listening, copies>>

\* The open of a new channel, or one copy of the current channel's open for a
\* board that rebooted.  A start() ends here, a payment goes on.
Open(heard, acked) ==
  /\ up /\ job.at = "open"
  /\ Broadcast(OpenCell, heard, acked)
  /\ IF job.left > 1
       THEN /\ job' = [job EXCEPT !.left = @ - 1]
            /\ copies' = copies \cup heard
            /\ UNCHANGED listening
       ELSE /\ job' = IF job.sats = 0 THEN Idle ELSE [job EXCEPT !.at = "commit"]
            /\ listening' = {b \in listening : b \in copies \cup heard \/ boards[b].id = books.id}
            /\ copies' = {}
  /\ UNCHANGED <<up, books, disk, tail, drawn, answered>>

-----------------------------------------------------------------------------
(* The bridge: addSats() *)

AddSats(sats) ==
  /\ up /\ job.at = "idle"
  /\ job' = [Idle EXCEPT !.at = "flush", !.sats = sats]
  /\ UNCHANGED <<boards, up, books, disk, tail, drawn, answered, listening, copies>>

\* One more copy of the last commitment goes out in the background, its cell
\* the one recorded last; the next payment waits for the last copy.
RepeatCommitment(heard) ==
  /\ up /\ tail > 0 /\ job.at \in {"idle", "flush"}
  /\ Hear(Commitment(books.seq, books.share), heard)
  /\ tail' = tail - 1
  /\ UNCHANGED <<up, books, disk, job, drawn, answered, listening, copies>>

Flushed == up /\ job.at = "flush" /\ tail = 0

\* The tally says the light is out: a fresh, small channel.
GoesDark ==
  /\ Flushed /\ books.seq > 0
  /\ job' = [job EXCEPT !.at = "resync"]
  /\ listening' = {b \in Boards : Joinable(b)}
  /\ UNCHANGED <<boards, up, books, disk, tail, drawn, answered, copies>>

\* Still lit: one copy of the open if the last one is old.
StillLit ==
  /\ Flushed /\ books.seq < MaxSeq
  /\ \/ job' = [job EXCEPT !.at = "open", !.left = 1]
     \/ job' = [job EXCEPT !.at = "commit"]
  /\ UNCHANGED <<boards, up, books, disk, tail, drawn, answered, listening, copies>>

\* The commitment is broadcast.  The books know of it only once the injector's
\* line is seen; otherwise the payer is told it failed.
Commit(heard, acked, catchUp) ==
  /\ up /\ job.at = "commit"
  /\ catchUp > 0 => books.seq > 0
  /\ LET cell == Commitment(books.seq + 1, books.share + catchUp + job.sats)
     IN /\ cell.deviceShare <= Capacity     \* bound
        /\ Broadcast(cell, heard, acked)
        /\ job' = IF acked THEN [job EXCEPT !.at = "record", !.cell = cell] ELSE Idle
  /\ UNCHANGED <<up, books, disk, tail, drawn, answered, listening, copies>>

\* Faulty variant: the seq is not advanced.
RecordKeepsSeq ==
  /\ up /\ job.at = "record"
  /\ books' = [books EXCEPT !.share = job.cell.deviceShare, !.satsPaid = @ + job.sats]
  /\ disk' = books'
  /\ answered' = answered + job.sats
  /\ tail' = CommitRepeat - 1
  /\ job' = Idle
  /\ UNCHANGED <<boards, up, drawn, listening, copies>>

\* The books, the state file, then the answer to the payer.
Record ==
  /\ up /\ job.at = "record"
  /\ books' = [books EXCEPT !.seq = job.cell.seq, !.share = job.cell.deviceShare,
                            !.satsPaid = @ + job.sats]
  /\ disk' = books'
  /\ answered' = answered + job.sats
  /\ tail' = CommitRepeat - 1
  /\ job' = Idle
  /\ UNCHANGED <<boards, up, drawn, listening, copies>>

\* The serial port fails (openSync or writeSync throws): the payment is given
\* up where it stands.  In start() the same ends the process.
Throws ==
  /\ up /\ job.sats > 0 /\ job.at \in {"resync", "close", "open", "commit"}
  /\ job' = Idle
  /\ copies' = {}
  /\ listening' = {}
  /\ UNCHANGED <<boards, up, books, disk, tail, drawn, answered>>

Crash ==
  /\ up /\ job.at \in CrashPoints
  /\ up' = FALSE
  /\ job' = Idle
  /\ tail' = 0
  /\ copies' = {}
  /\ UNCHANGED <<boards, books, disk, drawn, answered, listening>>

-----------------------------------------------------------------------------

\* A board loses its channel when it reboots.
BoardReboots(b) ==
  /\ boards' = [boards EXCEPT ![b] = ChannelInit]
  /\ listening' = listening \ {b}
  /\ UNCHANGED <<up, books, disk, job, tail, drawn, answered, copies>>

Init ==
  /\ boards = [b \in Boards |-> ChannelInit]
  /\ up = FALSE
  /\ drawn = 1
  /\ disk = Fresh(1, 0)
  /\ books = disk
  /\ job = Idle
  /\ tail = 0
  /\ answered = 0
  /\ listening = {}
  /\ copies = {}

BridgeStep ==
  \/ \E heard \in SUBSET Boards, acked \in BOOLEAN :
       \/ Resync(heard, acked)
       \/ Close(heard, acked)
       \/ Open(heard, acked)
       \/ \E catchUp \in 0..MaxCatchUp : Commit(heard, acked, catchUp)
  \/ \E heard \in SUBSET Boards : RepeatCommitment(heard)
  \/ Renew
  \/ GoesDark
  \/ StillLit
  \/ Record
  \/ Throws

Next ==
  \/ Start
  \/ BridgeStep
  \/ \E sats \in Sats : AddSats(sats)
  \/ Crash
  \/ \E b \in Boards : BoardReboots(b)

Spec == Init /\ [][Next]_vars

-----------------------------------------------------------------------------
(* Properties *)

\* What a job may carry: no cell, or the commitment it has broadcast.
Cells == [kind: {"none", "commitment"}, id: 1..MaxChannels \cup {NoId}, seq: Nat,
          deviceShare: Nat, userShare: {0}, expiry: {0, Never}]

\* The state of the books and of the boards keeps its type.
MeterTypeOK ==
  /\ boards \in [Boards -> Channels(1..MaxChannels, Nat, Nat, Nat)]
  /\ up \in BOOLEAN
  /\ {books, disk} \subseteq [id: 1..MaxChannels, seq: Nat, share: Nat, satsPaid: Nat]
  /\ job \in [at: JobSteps, sats: Sats \cup {0}, left: 0..Repeat, cell: Cells]
  /\ tail \in 0..(CommitRepeat - 1)
  /\ drawn \in 1..MaxChannels
  /\ answered \in Nat
  /\ listening \subseteq Boards
  /\ copies \subseteq Boards

InChannel(b) == boards[b].state \in {"OPEN", "ACTIVE"} /\ boards[b].id = books.id

\* A board in the books' channel is where the books are, behind them with no
\* larger share, or at the commitment the bridge is about to record: what the
\* payer was told holds for every board that heard it (meter.ts:218).
BoardsFollowBooks ==
  \A b \in Boards : InChannel(b) =>
    LET c == boards[b]
    IN \/ c.seq < books.seq /\ c.deviceShare <= books.share
       \/ c.seq = books.seq /\ c.deviceShare = books.share
       \/ job.at = "record" /\ c.seq = job.cell.seq /\ c.deviceShare = job.cell.deviceShare

\* A change of channel takes along every board that could follow it and heard
\* it: the last commitment, a copy of the close and a copy of the open
\* (meter.ts:25, "a board that missed it catches up - close needs every board
\* on the same seq/share - closes the channel, and opens a new one").
ListenersJoin ==
  up /\ job.at \in {"idle", "flush", "commit", "record"}
    => \A b \in listening : InChannel(b)

\* What the payers were answered is in the state file, across changes of
\* channel and restarts (meter.ts:222).
AnsweredIsSaved == disk.satsPaid = answered

-----------------------------------------------------------------------------
(* The inductive invariant *)

\* The state file never differs from the books, and ids are never drawn twice.
BooksAreCurrent ==
  /\ disk = books
  /\ books.id \in 1..drawn
  /\ books.seq = 0 => books.share = 0
  /\ \A b \in Boards : boards[b].id \in 1..drawn \cup {NoId}

\* The commitment waiting for its record is the books' next one.
RecordIsNext ==
  job.at = "record" => /\ job.cell.seq = books.seq + 1
                       /\ job.cell.deviceShare \in books.share..Capacity

\* A board's channel has room for all the books hold, and one that was closed
\* had a commitment.
ChannelsHoldBooks ==
  /\ books.share <= Capacity
  /\ \A b \in Boards :
       LET c == boards[b]
       IN /\ c.state \in {"OPEN", "ACTIVE"} => c.capacity = Capacity
          /\ c.state # "EXPIRED"
          /\ c.state = "OPEN" => c.seq = 0
          /\ c.state = "CLOSED" /\ c.id = books.id => books.seq > 0

\* In the books' channel and at their commitment: a close will be accepted.
AtBooks(b) == /\ boards[b].state = "ACTIVE" /\ boards[b].id = books.id
              /\ boards[b].seq = books.seq /\ boards[b].deviceShare = books.share

Closed(b) == boards[b].state = "CLOSED"

\* Where a board that follows the change of channel stands, step by step.
ChangeUnderway ==
  /\ ~up => job.at = "idle"
  /\ job.at \in {"resync", "close"} => books.seq > 0
  /\ copies # {} => job.at \in {"close", "open"}
  /\ up => \A b \in listening :
       /\ job.at = "resync" => Closed(b) \/ InChannel(b)
       /\ job.at = "close" => Closed(b) \/ (AtBooks(b) /\ b \notin copies)
       /\ job.at = "renew" => Closed(b)
       /\ job.at = "open" =>
            InChannel(b) \/ (Closed(b) /\ boards[b].id # books.id /\ b \notin copies)
       /\ job.at \in {"idle", "flush", "commit", "record"} => InChannel(b)

\* The inductive invariant, when every broadcast is acknowledged truly and no
\* commitment is left unrecorded.
BooksInv ==
  /\ MeterTypeOK
  /\ AnsweredIsSaved
  /\ BooksAreCurrent
  /\ RecordIsNext
  /\ BoardsFollowBooks
  /\ ChannelsHoldBooks
  /\ ChangeUnderway

=============================================================================
