----------------------------- MODULE MCPhoneLight -----------------------------
\* The paid light with a phone and an agent for TLC; the third payment pays too
\* little.
EXTENDS PhoneLight

CONSTANTS p1, p2, p3

ThreePays == (p1 :> 100) @@ (p2 :> 150) @@ (p3 :> 99)
=============================================================================
