------------------------------ MODULE MCClock ------------------------------
(* Instances of Clock for TLC.                                             *)
EXTENDS Clock, TLC

CONSTANTS s1, s2, s3, c1, c2, u1

(* Identifiers of one program are interchangeable; safety runs only.       *)
Symmetry == Permutations(Servers)
=============================================================================
