---------------------------- MODULE MCForwardRelay ----------------------------
\* Forwards along two hops, for TLC.
EXTENDS ForwardRelay

CONSTANTS b1, b2

TwoHops == <<b1, b2>>
=============================================================================
