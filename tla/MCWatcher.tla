----------------------------- MODULE MCWatcher -----------------------------
(* An instance of Watcher for TLC: every program, one signal of each kind  *)
(* that 15.2 tells apart.                                                  *)
EXTENDS Watcher

MCPrograms == Handling \cup Watching \cup {"15.STAR-SigReader"}
MCSigs == {"TERM", "QUIT", "USR1"}
=============================================================================
