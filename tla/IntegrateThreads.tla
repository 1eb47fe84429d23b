------------------------- MODULE IntegrateThreads -------------------------
(***************************************************************************)
(* 14-IntegrateThreads.c as a whole: one run compiles and loads a function *)
(* (Compile) and integrates it with threads (ThreadedSum), while other     *)
(* runs, of 14-Integrate.c or 18-dlopen.c, use the same directory.         *)
(***************************************************************************)
EXTENDS ThreadedSum, Sequences

CONSTANTS
    Runs, Old, None, Capacity, MaxLength,   \* as in Compile
    Threaded                                \* the run with threads

VARIABLES stage, unsent, held, writers, gcc, tmp_so, complete, lib, links

Build == INSTANCE Compile

ASSUME RunsAssumption == Build!Parameters /\ Threaded \in Runs

bvars == <<stage, unsent, held, writers, gcc, tmp_so, complete, lib, links>>
all   == <<vars, bvars>>

ProgramInit == Init /\ Build!Init

\* main waits in "calculate" until its threads and the sum are done.
BuildMain(r) ==
    /\ Build!Main(r)
    /\ r = Threaded /\ stage[r] = "calculate" => main = "gone"
    /\ UNCHANGED vars
BuildGcc(r) == Build!Gcc(r) /\ UNCHANGED vars
KillGcc(r) == Build!KillGcc(r) /\ UNCHANGED vars

Calculating == stage[Threaded] = "calculate" /\ UNCHANGED bvars
SumMain == Calculating /\ MainStep
SumThread(t) == Calculating /\ ThreadStep(t)
SumFails == Calculating /\ CreateFails

ProgramNext ==
    \/ \E r \in Runs : BuildMain(r) \/ BuildGcc(r) \/ KillGcc(r)
    \/ SumMain \/ SumFails
    \/ \E t \in Thread : SumThread(t)

\* The processes and the threads of the program are scheduled; nobody need
\* kill gcc and no thread need fail to start.
ProgramSpec ==
    /\ ProgramInit /\ [][ProgramNext]_all
    /\ \A r \in Runs : WF_all(BuildMain(r)) /\ WF_all(BuildGcc(r))
    /\ WF_all(SumMain) /\ \A t \in Thread : WF_all(SumThread(t))

-----------------------------------------------------------------------------
(* 14-IntegrateThreads.c:185-195, 14-Integrate.c:126-149: whatever other   *)
(* runs compile to tmp.so, a function older than the run's own is not used.*)
NeverStale == Build!NeverStale

(* 14-IntegrateThreads.c:103-228: a run ends, its compilation, threads and *)
(* lock included; the one exception is a text that is longer than the pipe *)
(* and has no reader.                                                      *)
Finishes == Build!Finishes
=============================================================================
