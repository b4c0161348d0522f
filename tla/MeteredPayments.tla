--------------------------- MODULE MeteredPayments ---------------------------
(***************************************************************************)
(* Paying for light by the second (tools/x402-bridge/bridge.ts,             *)
(* actuateMetered, over meter.ts, addSats).  The bridge serves one payment   *)
(* at a time, but it waits for addSats only so long, and does not stop it:   *)
(* a payment given up goes on committing beside the next.  (By default the   *)
(* wait is a little longer than all the broadcasts; a write that is held up, *)
(* or a shorter time-out, gets there.)                                       *)
(*                                                                          *)
(* An addSats keeps nothing it read before an await, but for the seq and the *)
(* share of the commitment it has broadcast.  Left out: the boards and the   *)
(* cells, the state file and restarts (ChannelMeter has them, for one        *)
(* addSats at a time), settlement (PhoneLight), and time: how far the light  *)
(* has drained is a choice.                                                  *)
(***************************************************************************)
EXTENDS Integers, Sequences, FiniteSetsExt

CONSTANTS
  Purchases,         \* payments that have been settled
  Nobody,            \* no purchase
  Chosen,            \* purchase -> the sats its payer chose
  MinSats, MostSats, \* the least of meterOptions, and maxSats
  MaxDrain           \* bound: sats drained in the dark and caught up

ASSUME MeteredAssumption ==
  /\ Nobody \notin Purchases
  /\ Chosen \in [Purchases -> Nat]
  /\ {MinSats, MostSats, MaxDrain} \subseteq Nat

VARIABLES
  waitingLine,  \* the purchases queued
  served,       \* the purchase actuateMetered awaits
  sold,         \* purchase -> the state of its ticket
  calls,        \* purchase -> its addSats: where it is, and the commitment it broadcast
  ledger        \* ChannelMeter.state

meteredVars == <<waitingLine, served, sold, calls, ledger>>

NoCommitment == [channel |-> 0, seq |-> 0, share |-> 0]
Call(at) == [at |-> at, cell |-> NoCommitment]

\* activate: the payer chooses what to pay, within bounds.
InBounds(sats) == MinSats <= sats /\ sats <= MostSats

Buy(p) ==
  /\ sold[p] = "unknown" /\ InBounds(Chosen[p])
  /\ sold' = [sold EXCEPT ![p] = "queued"]
  /\ waitingLine' = Append(waitingLine, p)
  /\ UNCHANGED <<served, calls, ledger>>

\* The payment before it is answered: actuateMetered calls addSats.
Serve ==
  /\ served = Nobody /\ waitingLine # <<>>
  /\ served' = Head(waitingLine)
  /\ waitingLine' = Tail(waitingLine)
  /\ sold' = [sold EXCEPT ![served'] = "lighting"]
  /\ calls' = [calls EXCEPT ![served'] = Call("flush")]
  /\ UNCHANGED ledger

\* The copies of the last commitment are out.  In the dark a fresh channel is
\* next; else the commitment is, after one copy of the open if that is old.
Flushed(p) ==
  /\ calls[p].at = "flush"
  /\ \/ ledger.seq > 0 /\ calls' = [calls EXCEPT ![p].at = "session"]
     \/ calls' = [calls EXCEPT ![p].at = "commit"]
  /\ UNCHANGED <<waitingLine, served, sold, ledger>>

\* Faulty variant: the tally starts afresh with the channel.
RenewForgets(p) ==
  /\ calls[p].at = "session"
  /\ ledger' = [channel |-> ledger.channel + 1, seq |-> 0, share |-> 0, satsPaid |-> 0]
  /\ calls' = [calls EXCEPT ![p].at = "commit"]
  /\ UNCHANGED <<waitingLine, served, sold>>

\* newSession: the old channel is closed, and the books are those of a new one.
Renew(p) ==
  /\ calls[p].at = "session"
  /\ ledger' = [channel |-> ledger.channel + 1, seq |-> 0, share |-> 0,
                satsPaid |-> ledger.satsPaid]
  /\ calls' = [calls EXCEPT ![p].at = "commit"]
  /\ UNCHANGED <<waitingLine, served, sold>>

\* The commitment is built from the books and broadcast.
Commit(p, drained) ==
  /\ calls[p].at = "commit"
  /\ drained > 0 => ledger.seq > 0
  /\ calls' = [calls EXCEPT ![p] =
       [at |-> "sent",
        cell |-> [channel |-> ledger.channel, seq |-> ledger.seq + 1,
                  share |-> ledger.share + drained + Chosen[p]]]]
  /\ UNCHANGED <<waitingLine, served, sold, ledger>>

\* What actuateMetered answers, when it still waits for the purchase.
Answers(p, state) ==
  IF served = p
  THEN served' = Nobody /\ sold' = [sold EXCEPT ![p] = state]
  ELSE UNCHANGED <<served, sold>>

\* The injector's line is seen: the books take the commitment.
Record(p) ==
  /\ calls[p].at = "sent"
  /\ ledger' = [ledger EXCEPT !.seq = calls[p].cell.seq, !.share = calls[p].cell.share,
                              !.satsPaid = @ + Chosen[p]]
  /\ calls' = [calls EXCEPT ![p].at = "recorded"]
  /\ Answers(p, "lit")
  /\ UNCHANGED waitingLine

\* The line is not seen, or the serial port fails.
GivesUp(p) ==
  /\ calls[p].at \in {"session", "commit", "sent"}
  /\ calls' = [calls EXCEPT ![p].at = "gave up"]
  /\ Answers(p, "failed")
  /\ UNCHANGED <<waitingLine, ledger>>

\* withTimeout: the ticket fails, the addSats goes on.
TimesOut ==
  /\ served # Nobody
  /\ served' = Nobody
  /\ sold' = [sold EXCEPT ![served] = "failed"]
  /\ UNCHANGED <<waitingLine, calls, ledger>>

MeteredInit ==
  /\ waitingLine = <<>> /\ served = Nobody
  /\ sold = [p \in Purchases |-> "unknown"]
  /\ calls = [p \in Purchases |-> Call("none")]
  /\ ledger = [channel |-> 1, seq |-> 0, share |-> 0, satsPaid |-> 0]

MeteredNext ==
  \/ \E p \in Purchases :
       \/ Buy(p)
       \/ Flushed(p)
       \/ Renew(p)
       \/ \E drained \in 0..MaxDrain : Commit(p, drained)
       \/ Record(p)
       \/ GivesUp(p)
  \/ Serve
  \/ TimesOut

MeteredSpec == MeteredInit /\ [][MeteredNext]_meteredVars

-----------------------------------------------------------------------------
(* Properties *)

Spent(P) == MapThenSumSet(LAMBDA p : Chosen[p], P)

\* The tally of the bridge has every purchase whose commitment was recorded, once,
\* whatever channels came between and whatever ran beside it; so no payer is told
\* of light that the tally does not know (meter.ts:213-219, bridge.ts:314).
TallyIsExact ==
  /\ ledger.satsPaid = Spent({p \in Purchases : calls[p].at = "recorded"})
  /\ \A p \in Purchases : sold[p] = "lit" => calls[p].at = "recorded"

\* No two commitments of a channel have one seq, of which a board takes one only.
\* No run has it, for the code breaks it: the addSats of a payment given up and
\* of the next both build on the books as they are.
CommitmentsDiffer ==
  \A p, q \in Purchases :
    p # q /\ calls[p].cell # NoCommitment /\ calls[p].cell.channel = calls[q].cell.channel
      => calls[p].cell.seq # calls[q].cell.seq

=============================================================================
