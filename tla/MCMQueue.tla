------------------------------ MODULE MCMQueue ------------------------------
(* Instances of MQueue for TLC.                                            *)
EXTENDS MQueue

CONSTANTS r1, r2, s1, d1

\* The first message of the sender does not fit into the queue.
FirstOfS1 == {<<s1, 1>>}
=============================================================================
