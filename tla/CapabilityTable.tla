--------------------------- MODULE CapabilityTable ---------------------------
(***************************************************************************)
(* The relay grants of a board (cell-mesh-zig/src/cell_capability.zig).     *)
(* A certificate is a record with the fields chan (the channel it is for),  *)
(* edge (the key it grants), expiry, from and domain; the table is a        *)
(* function from Slots to certificates.  Its hash covers all but the domain *)
(* and is modelled by those fields.                                         *)
(*                                                                          *)
(* Left out: route_type, of which there is one; and the valid flag that a   *)
(* lookup clears on an expired entry, since an expired entry is a free slot *)
(* for every operation.                                                     *)
(***************************************************************************)
EXTENDS Integers

CONSTANTS
  TableMax,   \* table_max, 4 in the code: a positive number
  AnyDomain,  \* domain_any
  NoExpiry,   \* no_expiry
  Free        \* a slot whose entry is not valid

Slots == 1..TableMax

EmptyTable == [i \in Slots |-> Free]

Expired(cert, now) == cert.expiry # NoExpiry /\ cert.expiry <= now

Occupied(t, i, now) == t[i] # Free /\ ~Expired(t[i], now)

SameGrant(c, d) == c.chan = d.chan /\ c.domain = d.domain

Renewable(t, cert, now) ==
  {i \in Slots : Occupied(t, i, now) /\ SameGrant(t[i], cert)}

\* Faulty variant: a slot is taken without a look at what it holds.
AnySlot(t, now) == Slots

FreeSlots(t, now) == {i \in Slots : ~Occupied(t, i, now)}

First(S) == CHOOSE i \in S : \A j \in S : i <= j

\* The code cm_cap_install returns on a board that requires a domain.
InstallCode(t, required, cert, now) ==
  IF required # AnyDomain /\ cert.domain # required THEN "refused"
  ELSE IF \/ Expired(cert, now)
          \/ Renewable(t, cert, now) = {} /\ FreeSlots(t, now) = {}
       THEN "failed"
       ELSE "installed"

\* A renewal takes the slot of the grant, another grant the first free one.
SlotFor(t, cert, now) ==
  IF Renewable(t, cert, now) # {} THEN First(Renewable(t, cert, now))
  ELSE First(FreeSlots(t, now))

Install(t, required, cert, now) ==
  IF InstallCode(t, required, cert, now) # "installed" THEN t
  ELSE [t EXCEPT ![SlotFor(t, cert, now)] = cert]

\* cm_cap_lookup and cm_cap_cert_hash: the live certificate of the grant.
Lookup(t, chan, domain, now) ==
  LET found == {i \in Slots : /\ Occupied(t, i, now)
                              /\ t[i].chan = chan
                              /\ t[i].domain = domain}
  IN IF found = {} THEN Free ELSE t[First(found)]

\* No two live entries are of one grant.
OneEntryPerGrant(t, now) ==
  \A i, j \in Slots :
    /\ Occupied(t, i, now)
    /\ Occupied(t, j, now)
    /\ SameGrant(t[i], t[j])
    => i = j

=============================================================================
