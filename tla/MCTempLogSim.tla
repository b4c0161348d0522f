----------------------------- MODULE MCTempLogSim -----------------------------
\* The synthetic node before the bridge, for TLC.
EXTENDS TempLogSim
=============================================================================
