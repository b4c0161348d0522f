--------------------------- MODULE StoreAndForward ---------------------------
(***************************************************************************)
(* What the temperature logger promises, with nothing of how: a reading is *)
(* taken once; the host's account of readings (held, or known to be lost)  *)
(* only grows; and the node counts as delivered only what the host has     *)
(* accounted for.  The node may ask for less at any time: an ack sets its  *)
(* pointer, and a reboot may bring back an older one.                      *)
(***************************************************************************)
CONSTANT Reading

VARIABLES
  taken,      \* the readings taken so far
  accounted,  \* those the host holds, or knows it will never have
  released    \* those the node will not send unless it is asked again

vars == <<taken, accounted, released>>

Init ==
  /\ taken = {}
  /\ accounted = {}
  /\ released = {}

Take ==
  /\ \E r \in Reading \ taken : taken' = taken \union {r}
  /\ UNCHANGED <<accounted, released>>

Account ==
  /\ accounted' \subseteq taken
  /\ accounted \subseteq accounted'
  /\ UNCHANGED <<taken, released>>

Release ==
  /\ released' \subseteq accounted
  /\ UNCHANGED <<taken, accounted>>

Next == Take \/ Account \/ Release

Spec == Init /\ [][Next]_vars
=============================================================================
