---------------------------- MODULE Accumulator ----------------------------
(***************************************************************************)
(* What the summing programs of 19-Threads promise: every contribution is  *)
(* added to the total in one atomic step, and the total is reported once   *)
(* all of them are in.  19.6-OpenMP.c ("omp atomic") and 19.4-atomic.c     *)
(* (atomic_fetch_add) are written this way; ThreadedSum shows that the     *)
(* programs with a lock implement it.                                      *)
(***************************************************************************)
CONSTANT Parts    \* the contributions there may be

VARIABLES
    contributing,  \* those there are in this run
    sum,           \* those added so far
    status         \* of the program

Init ==
    /\ contributing \in SUBSET Parts
    /\ sum = {}
    /\ status = "running"

\* After an aborted start the process lives on until it has exited.
Add(x) ==
    /\ status # "gone"
    /\ x \in contributing \ sum
    /\ sum' = sum \cup {x}
    /\ UNCHANGED <<contributing, status>>

Report ==
    /\ status = "running" /\ sum = contributing
    /\ status' = "reported"
    /\ UNCHANGED <<contributing, sum>>

Abort ==
    /\ status = "running"
    /\ status' = "failed"
    /\ UNCHANGED <<contributing, sum>>

Exit ==
    /\ status \in {"reported", "failed"}
    /\ status' = "gone"
    /\ UNCHANGED <<contributing, sum>>

Next == (\E x \in Parts : Add(x)) \/ Report \/ Abort \/ Exit

Spec == Init /\ [][Next]_<<contributing, sum, status>>
=============================================================================
