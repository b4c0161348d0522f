------------------------------ MODULE BoardRules ------------------------------
(***************************************************************************)
(* The rules of one board: the ring of cells heard and the count over it      *)
(* (cell_ring.zig), the table and its evaluation (cell_rules.zig), and the     *)
(* three ways a rule comes into the table in mesh_demo's main.c: a rule cell,  *)
(* the board's own hot swap, and a forward that carries one.                  *)
(*                                                                           *)
(* The first is handled in the Wi-Fi task, the others by the main loop, which  *)
(* the Wi-Fi task may interrupt between any two of their steps.  A rule is a    *)
(* trigger and an effect, and is copied in this order.  The firmware removes    *)
(* no rule.  What effects do to the light is left out.                        *)
(***************************************************************************)
EXTENDS Naturals, FiniteSets, Sequences

CONSTANTS
  Peers,
  RuleSet,       \* the rules that cells and forwards carry
  RulesMax,      \* rules_max
  RingSize,      \* capacity
  QuorumN, QuorumWindow,  \* of the third rule in install_demo_rules
  ScriptOnly,    \* DEMO_SCRIPT_ONLY
  Nothing,       \* in a slot never written
  \* Bounds
  MaxEvents,     \* cells and rules that come in
  MaxStamp

Types == {"tap", "heartbeat"}
Effects == {"short", "emit", "long", "swap", "other"}
Triggers == [kind : {"type", "quorum"}, type : Types]
Rules == [trigger : Triggers, effect : Effects]

OnTap == [kind |-> "type", type |-> "tap"]
QuorumOnTap == [kind |-> "quorum", type |-> "tap"]

ASSUME RulesAssumption ==
  /\ RuleSet \subseteq Rules
  /\ RulesMax \in Nat /\ RulesMax >= 3
  /\ {RingSize, QuorumN} \subseteq Nat \ {0} /\ QuorumWindow \in Nat
  /\ ScriptOnly \in BOOLEAN
  /\ {MaxEvents, MaxStamp} \subseteq Nat

VARIABLES
  stamp,      \* esp_log_timestamp
  ring,       \* s_ring, oldest first
  rules,      \* s_rules.entries
  fwdRule,    \* s_pending_fwd_rule, s_pending_fwd_rule_bytes
  install,    \* where the main loop is in an install
  emitDue,    \* s_pending_emit
  heard,      \* history: every cell pushed
  fired,      \* history: the effects of the last of them
  reported,   \* history: what was reported as installed, in that order
  broken      \* history: the Wi-Fi task wrote what the main loop was at

rulesVars == <<stamp, ring, rules, fwdRule, install, emitDue, heard, fired, reported, broken>>

Entries == 1..RulesMax
Entry(occupied, rule) == [occupied |-> occupied, trigger |-> rule.trigger, effect |-> rule.effect]
Never == [occupied |-> FALSE, trigger |-> Nothing, effect |-> Nothing]

\* install_demo_rules.
DemoRules == <<[trigger |-> OnTap, effect |-> "short"],
               [trigger |-> OnTap, effect |-> "emit"],
               [trigger |-> QuorumOnTap, effect |-> "long"]>>

AtRest == [at |-> "rest"]

RulesTypeOK ==
  /\ stamp \in 0..MaxStamp
  /\ \A i \in DOMAIN ring : ring[i] \in [type : Types, peer : Peers, at : 0..MaxStamp]
  /\ Len(ring) <= RingSize
  /\ rules \in [Entries -> [occupied : BOOLEAN, trigger : Triggers \cup {Nothing},
                            effect : Effects \cup {Nothing}]]
  /\ fwdRule.full \in BOOLEAN /\ fwdRule.bytes \in RuleSet \cup {Nothing}
  /\ install.at \in {"rest", "cleared", "decoding", "decoded", "chosen", "copying"}
  /\ emitDue \in BOOLEAN
  /\ fired \subseteq Effects
  /\ broken \in BOOLEAN

RulesInit ==
  /\ stamp = 0
  /\ ring = <<>>
  /\ rules = [n \in Entries |-> IF n <= 3 THEN Entry(TRUE, DemoRules[n]) ELSE Never]
  /\ fwdRule = [full |-> FALSE, bytes |-> Nothing]
  /\ install = AtRest
  /\ emitDue = FALSE
  /\ heard = <<>>
  /\ fired = {}
  /\ reported = <<>>
  /\ broken = FALSE

-----------------------------------------------------------------------------
(* Ring and table *)

Held(table, r) == {n \in Entries : table[n] = Entry(TRUE, r)}
Room == {n \in Entries : ~rules[n].occupied}

\* Faulty variant: the oldest cell that is kept is not.
PushShort(cell) ==
  LET all == Append(ring, cell)
  IN IF Len(all) >= RingSize THEN SubSeq(all, Len(all) - RingSize + 2, Len(all)) ELSE all

\* cm_ring_push: the new cell takes the place of the oldest.
PushCell(cell) ==
  LET all == Append(ring, cell)
  IN IF Len(all) > RingSize THEN Tail(all) ELSE all

\* cm_ring_count_recent, of distinct peers: from the newest to the first that is too old.
CountRecent(q, type) ==
  LET young == {i \in DOMAIN q : \A j \in i..Len(q) : stamp - q[j].at <= QuorumWindow}
  IN Cardinality({q[i].peer : i \in {k \in young : q[k].type = type}})

TriggerMatches(t, q, type) ==
  /\ t.type = type
  /\ t.kind = "quorum" => CountRecent(q, type) >= QuorumN

\* cm_rules_evaluate.
Evaluate(q, type) ==
  {rules[n].effect : n \in {m \in Entries : rules[m].occupied /\ TriggerMatches(rules[m].trigger, q, type)}}

-----------------------------------------------------------------------------
(* The Wi-Fi task *)

Events == Len(heard) + Len(reported)

\* A cell of no other kind: into the ring, then through the rules.
HearPlain(p, type) ==
  LET cell == [type |-> type, peer |-> p, at |-> stamp] IN
  /\ Events < MaxEvents
  /\ heard' = Append(heard, cell)
  /\ ring' = PushCell(cell)
  /\ fired' = Evaluate(PushCell(cell), type)
  /\ emitDue' = (emitDue \/ "emit" \in fired')
  /\ UNCHANGED <<stamp, rules, fwdRule, install, reported, broken>>

\* Faulty variant: no rule is known.
IsNews(r) == TRUE

\* No entry equals the rule (cm_rule_equals).
IsNew(r) == Held(rules, r) = {}

FirstEntry(S) == CHOOSE n \in S : \A m \in S : n <= m

\* A rule cell: cm_rules_install at once.
HearRule(r) ==
  /\ Events < MaxEvents
  /\ IsNew(r) /\ Room # {}
  /\ rules' = [rules EXCEPT ![FirstEntry(Room)] = Entry(TRUE, r)]
  /\ reported' = Append(reported, [rule |-> r, by |-> "cell"])
  /\ broken' = (broken \/ install.at # "rest")
  /\ UNCHANGED <<stamp, ring, fwdRule, install, emitDue, heard, fired>>

\* A forward that is admitted here with the verb INSTALL_RULE.
HearInstall(r) ==
  /\ Events < MaxEvents
  /\ ~fwdRule.full
  /\ fwdRule' = [full |-> TRUE, bytes |-> r]
  /\ broken' = (broken \/ install.at \in {"cleared", "decoding"})
  /\ UNCHANGED <<stamp, ring, rules, install, emitDue, heard, fired, reported>>

-----------------------------------------------------------------------------
(* The main loop *)

\* broadcast_hot_swap_rule: looked up first, installed then.
HotSwap(r) ==
  /\ install = AtRest /\ ~ScriptOnly /\ Events < MaxEvents
  /\ IsNew(r)
  /\ install' = [at |-> "decoded", rule |-> r, by |-> "swap"]
  /\ UNCHANGED <<stamp, ring, rules, fwdRule, emitDue, heard, fired, reported, broken>>

\* drain_pending_fwd_rule: the mailbox is marked empty, then decoded.
DrainInstall ==
  /\ install = AtRest /\ fwdRule.full
  /\ fwdRule' = [fwdRule EXCEPT !.full = FALSE]
  /\ install' = [at |-> "cleared"]
  /\ UNCHANGED <<stamp, ring, rules, emitDue, heard, fired, reported, broken>>

DecodeTrigger ==
  /\ install.at = "cleared"
  /\ install' = [at |-> "decoding", trigger |-> fwdRule.bytes.trigger]
  /\ UNCHANGED <<stamp, ring, rules, fwdRule, emitDue, heard, fired, reported, broken>>

DecodeEffect ==
  /\ install.at = "decoding"
  /\ install' = [at |-> "decoded", by |-> "forward",
                 rule |-> [trigger |-> install.trigger, effect |-> fwdRule.bytes.effect]]
  /\ UNCHANGED <<stamp, ring, rules, fwdRule, emitDue, heard, fired, reported, broken>>

\* cm_rules_install: the first free entry, if there is one,
ChooseEntry ==
  /\ install.at = "decoded"
  /\ install' = IF Room = {} THEN AtRest
                ELSE [at |-> "chosen", n |-> FirstEntry(Room), rule |-> install.rule, by |-> install.by]
  /\ UNCHANGED <<stamp, ring, rules, fwdRule, emitDue, heard, fired, reported, broken>>

\* is written from its first byte
CopyTrigger ==
  /\ install.at = "chosen"
  /\ rules' = [rules EXCEPT ![install.n].occupied = FALSE,
                            ![install.n].trigger = install.rule.trigger]
  /\ install' = [install EXCEPT !.at = "copying"]
  /\ UNCHANGED <<stamp, ring, fwdRule, emitDue, heard, fired, reported, broken>>

\* to its last, and is occupied.
CopyEffect ==
  /\ install.at = "copying"
  /\ rules' = [rules EXCEPT ![install.n].occupied = TRUE,
                            ![install.n].effect = install.rule.effect]
  /\ reported' = Append(reported, [rule |-> install.rule, by |-> install.by])
  /\ install' = AtRest
  /\ UNCHANGED <<stamp, ring, fwdRule, emitDue, heard, fired, broken>>

\* drain_pending_emit.
DrainEmit ==
  /\ emitDue /\ emitDue' = FALSE
  /\ UNCHANGED <<stamp, ring, rules, fwdRule, install, heard, fired, reported, broken>>

StampGrows ==
  /\ stamp < MaxStamp /\ stamp' = stamp + 1
  /\ UNCHANGED <<ring, rules, fwdRule, install, emitDue, heard, fired, reported, broken>>

RulesNext ==
  \/ \E p \in Peers, type \in Types : HearPlain(p, type)
  \/ \E r \in RuleSet : HearRule(r) \/ HearInstall(r) \/ HotSwap(r)
  \/ DrainInstall \/ DecodeTrigger \/ DecodeEffect
  \/ ChooseEntry \/ CopyTrigger \/ CopyEffect
  \/ DrainEmit
  \/ StampGrows

RulesSpec == RulesInit /\ [][RulesNext]_rulesVars

-----------------------------------------------------------------------------
(* Properties *)

\* What was heard no longer ago than the window, at the last cell.
InWindow == {i \in DOMAIN heard : heard[Len(heard)].at - heard[i].at <= QuorumWindow}
TapPeers == {heard[i].peer : i \in {k \in InWindow : heard[k].type = "tap"}}

\* The quorum rule fires at a tap if QuorumN peers tapped within the window, and only
\* then: whatever the ring has forgotten, as long as it is large enough for a window.
QuorumIsHeard ==
  heard # <<>> =>
    LET quorum == heard[Len(heard)].type = "tap" /\ Cardinality(TapPeers) >= QuorumN
    IN /\ "long" \in fired => quorum
       /\ quorum /\ Cardinality(InWindow) <= RingSize => "long" \in fired

\* Whatever was reported as installed is in an entry of its own, whole, and no rule
\* twice unless a forward brought it: while no install of the main loop was interrupted.
ReportedRulesStay ==
  ~broken =>
    /\ \A r \in Rules : Cardinality(Held(rules, r) \ 1..3) = Cardinality({i \in DOMAIN reported : reported[i].rule = r})
    /\ \A i, j \in DOMAIN reported :
         i < j /\ reported[i].rule = reported[j].rule => reported[j].by = "forward"

\* main.c:2378: the main loop installs "so s_rules modifications are serialised with
\* app_main": what is reported as installed is in the table.  No run has it, for the
\* code breaks it: while the main loop is between the entry it chose and its last
\* byte, a rule cell in the Wi-Fi task chooses the same entry.
InstallsAreSerial ==
  \A i \in DOMAIN reported : Held(rules, reported[i].rule) # {}
=============================================================================
