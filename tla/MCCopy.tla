------------------------------- MODULE MCCopy -------------------------------
(* Instances of Copy for TLC: the cfg gives the bounds.                    *)
EXTENDS Copy
=============================================================================
