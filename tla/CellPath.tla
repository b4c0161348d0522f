------------------------------- MODULE CellPath -------------------------------
(***************************************************************************)
(* The path between boards as everything above the radio may take it: what  *)
(* arrives is a whole cell that a board sent, in any order, perhaps never,   *)
(* and more than once only if the radio doubles frames.                      *)
(***************************************************************************)
EXTENDS Sequences

CONSTANT Cells

VARIABLES
  doubles,  \* whether the radio doubles frames
  sent,     \* the cells handed to the radio
  arrived   \* those handed to the receiver's main loop, in that order

pathVars == <<doubles, sent, arrived>>

Init == doubles \in BOOLEAN /\ sent = {} /\ arrived = <<>>

Send(c) == c \notin sent /\ sent' = sent \cup {c} /\ UNCHANGED <<doubles, arrived>>

Arrive(c) ==
  /\ c \in sent
  /\ doubles \/ \A i \in DOMAIN arrived : arrived[i] # c
  /\ arrived' = Append(arrived, c)
  /\ UNCHANGED <<doubles, sent>>

Next == \E c \in Cells : Send(c) \/ Arrive(c)

Spec == Init /\ [][Next]_pathVars
=============================================================================
