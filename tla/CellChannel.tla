----------------------------- MODULE CellChannel -----------------------------
(***************************************************************************)
(* The payment channel a board keeps (cell-mesh-zig/src/cell_channel.zig): *)
(* open, commitments that raise device_share, close, expiry.  Each         *)
(* cm_channel_* call is an operator on the channel's record; a call the     *)
(* code refuses leaves the record as it was.                               *)
(*                                                                          *)
(* Left out: peer_pubkey, open_locktime_ms and cert_hash, which are stored  *)
(* or carried and never read; the telemetry counters; the codecs, fixed     *)
(* little-endian layouts.                                                   *)
(***************************************************************************)
EXTENDS Integers

CONSTANT NoId   \* the channel_id of a zeroed record

\* cm_channel_init: the zeroed record.
ChannelInit == [state |-> "CLOSED", id |-> NoId, capacity |-> 0, seq |-> 0,
                deviceShare |-> 0, userShare |-> 0, expiry |-> 0]

ChannelStates == {"CLOSED", "OPEN", "ACTIVE", "EXPIRED"}

\* The records whose ids, seqs, amounts and times come from the given sets.
Channels(Id, Seq, Amount, Time) ==
  [state: ChannelStates, id: Id \cup {NoId}, capacity: Amount, seq: Seq,
   deviceShare: Amount, userShare: Amount, expiry: Time]

-----------------------------------------------------------------------------

AcceptsOpen(c) == c.state = "CLOSED"

\* An open is taken in CLOSED only, and forgets the channel before it.
ApplyOpen(c, op) ==
  IF ~AcceptsOpen(c) THEN c
  ELSE [ChannelInit EXCEPT !.state = "OPEN", !.id = op.id, !.capacity = op.capacity]

AcceptsCommitment(c, cm, now) ==
  /\ c.state \in {"OPEN", "ACTIVE"}
  /\ cm.id = c.id
  /\ cm.seq > c.seq
  /\ cm.deviceShare >= c.deviceShare
  /\ cm.deviceShare + cm.userShare <= c.capacity
  /\ cm.expiry > now

ApplyCommitment(c, cm, now) ==
  IF ~AcceptsCommitment(c, cm, now) THEN c
  ELSE [c EXCEPT !.state = "ACTIVE", !.seq = cm.seq, !.deviceShare = cm.deviceShare,
                 !.userShare = cm.userShare, !.expiry = cm.expiry]

\* A close must name the last commitment exactly, and OPEN cannot be closed.
AcceptsClose(c, cl) ==
  /\ c.state \in {"ACTIVE", "EXPIRED"}
  /\ cl.id = c.id
  /\ cl.seq = c.seq
  /\ cl.deviceShare = c.deviceShare

ApplyClose(c, cl) == IF AcceptsClose(c, cl) THEN [c EXCEPT !.state = "CLOSED"] ELSE c

TickExpiry(c, now) ==
  IF c.state = "ACTIVE" /\ now > c.expiry THEN [c EXCEPT !.state = "EXPIRED"] ELSE c

=============================================================================
