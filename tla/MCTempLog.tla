------------------------------ MODULE MCTempLog ------------------------------
(* The temperature logger end to end on small instances.                     *)
EXTENDS TempLog
=============================================================================
