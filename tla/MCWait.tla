------------------------------ MODULE MCWait ------------------------------
(* The instance of Wait for TLC: it has no parameters.                     *)
EXTENDS Wait
===========================================================================
