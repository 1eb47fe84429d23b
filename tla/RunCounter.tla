---------------------------- MODULE RunCounter ----------------------------
(***************************************************************************)
(* What 11-Flock.c promises: a counter of its runs, increased atomically.  *)
(***************************************************************************)
EXTENDS Integers

CONSTANTS Runs, MaxInt

VARIABLES
    count,     \* the number in the file
    counted    \* the runs it includes, since the start of the behaviour

\* Adding one to an int.
Incr(n) == IF n = MaxInt THEN -MaxInt - 1 ELSE n + 1

Init == count \in 0 .. MaxInt /\ counted = {}

CountRun(p) ==
    /\ p \notin counted
    /\ count' = Incr(count)
    /\ counted' = counted \cup {p}

Next == \E p \in Runs : CountRun(p)

Spec == Init /\ [][Next]_<<count, counted>>
=============================================================================
