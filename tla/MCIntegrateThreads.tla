------------------------ MODULE MCIntegrateThreads ------------------------
(* Instances of IntegrateThreads for TLC.                                  *)
EXTENDS IntegrateThreads

CONSTANTS r1, r2
===========================================================================
