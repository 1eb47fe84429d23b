------------------------------ MODULE MCFlock ------------------------------
(* Instances of Flock for TLC.                                             *)
EXTENDS Flock, TLC

CONSTANTS p1, p2, p3

Symmetry == Permutations(Runs)

INT_MAX == 2147483647

\* No run yet, and counts around those where the text gets a digit longer,
\* the file reaches its final length, and where int ends and begins.
Counts == {0, 1, 7, 8, 9, 10, 11, 12, 98, 99999998, INT_MAX - 3, INT_MAX - 1}
=============================================================================
