------------------------------ MODULE Compile ------------------------------
(***************************************************************************)
(* The first half of 14-Integrate.c, 14-IntegrateThreads.c and 18-dlopen.c:*)
(* a run pipes the text of its function to gcc, waits for it and loads     *)
(* tmp.so.  All runs in one directory compile to the same name.            *)
(*                                                                         *)
(* A function is the run it was compiled for.  The text is its length in   *)
(* units of the pipe's capacity; the pipe has an end of file once nobody   *)
(* holds a write end.  Nobody gets a SIGPIPE: main keeps its read end.     *)
(***************************************************************************)
EXTENDS Naturals, Sequences, Functions

CONSTANTS
    Runs,       \* runs of the programs in one directory
    Old,        \* the run that has left tmp.so behind, if there is one
    None,       \* no file, no library
    Capacity,   \* of a pipe
    MaxLength   \* bound of a function's text

\* What is assumed of the constants, by the module that has several runs.
Parameters ==
    /\ Old \notin Runs /\ None \notin Runs \cup {Old}
    /\ Capacity \in Nat \ {0} /\ MaxLength \in Nat \ {0}

VARIABLES
    stage,      \* where main is
    unsent,     \* text that dprintf has not written yet
    held,       \* text in the pipe
    writers,    \* who holds a write end of the pipe
    gcc,        \* where the child is
    tmp_so,     \* whose compilation created the file that has the name tmp.so
    complete,   \* those whose file is complete
    lib,        \* what dlopen has loaded
    links       \* history: the order in which files got the name

pipe    == <<unsent, held, writers>>
file    == <<tmp_so, complete, links>>
cvars   == <<stage, pipe, gcc, file, lib>>

GccDead == {"exit 0", "exit 1", "killed"}
MainDead == {"ended", "failed"}
To(r, place) == stage' = [stage EXCEPT ![r] = place]
GccTo(r, place) == gcc' = [gcc EXCEPT ![r] = place]

Init ==
    /\ stage = [r \in Runs |-> "start"]
    /\ unsent \in [Runs -> 1 .. MaxLength]
    /\ held = [r \in Runs |-> 0]
    /\ writers = [r \in Runs |-> {}]
    /\ gcc = [r \in Runs |-> "none"]
    /\ tmp_so \in {None, Old}
    /\ complete = {tmp_so} \ {None}
    /\ lib = [r \in Runs |-> None]
    /\ links = IF tmp_so = Old THEN <<Old>> ELSE <<>>

-----------------------------------------------------------------------------
(* main.                                                                   *)
PipeAndFork(r) ==
    /\ stage[r] = "start"
    /\ \/ /\ To(r, "write") /\ GccTo(r, "setup")
          /\ writers' = [writers EXCEPT ![r] = {"main", "gcc"}]
       \/ To(r, "failed") /\ UNCHANGED <<gcc, writers>>
    /\ UNCHANGED <<unsent, held, file, lib>>

\* dprintf waits while the pipe is full.
Write(r) ==
    /\ stage[r] = "write" /\ unsent[r] > 0
    /\ held[r] < Capacity
    /\ unsent' = [unsent EXCEPT ![r] = @ - 1]
    /\ held' = [held EXCEPT ![r] = @ + 1]
    /\ UNCHANGED <<stage, writers, gcc, file, lib>>

CloseWrite(r) ==
    /\ stage[r] = "write" /\ unsent[r] = 0
    /\ writers' = [writers EXCEPT ![r] = @ \ {"main"}]
    /\ To(r, "wait")
    /\ UNCHANGED <<unsent, held, gcc, file, lib>>

\* Fault: whatever became of gcc, tmp.so is loaded.
WaitUnchecked(r) ==
    /\ stage[r] = "wait" /\ gcc[r] \in GccDead
    /\ To(r, "load")
    /\ UNCHANGED <<pipe, gcc, file, lib>>

Wait(r) ==
    /\ stage[r] = "wait" /\ gcc[r] \in GccDead
    /\ To(r, IF gcc[r] = "exit 0" THEN "load" ELSE "failed")
    /\ UNCHANGED <<pipe, gcc, file, lib>>

\* A file that is being written has no tmpfun to load yet.  The library stays
\* what it is, whatever happens to its name.
Load(r) ==
    /\ stage[r] = "load"
    /\ IF tmp_so \in complete
       THEN To(r, "calculate") /\ lib' = [lib EXCEPT ![r] = tmp_so]
       ELSE To(r, "failed") /\ UNCHANGED lib
    /\ UNCHANGED <<pipe, gcc, file>>

\* The sum is printed, the library closed, gnuplot takes over.
Plot(r) ==
    /\ stage[r] = "calculate"
    /\ To(r, "ended")
    /\ UNCHANGED <<pipe, gcc, file, lib>>

-----------------------------------------------------------------------------
(* The child, up to execlp and as gcc.                                     *)

\* Fault: the child keeps its copy of the write end.
ChildKeepsPipe(r) ==
    /\ gcc[r] = "setup"
    /\ \E place \in {"read", "exit 1"} : GccTo(r, place)
    /\ UNCHANGED <<stage, pipe, file, lib>>

\* dup2 or execlp may fail.
Child(r) ==
    /\ gcc[r] = "setup"
    /\ writers' = [writers EXCEPT ![r] = @ \ {"gcc"}]
    /\ \E place \in {"read", "exit 1"} : GccTo(r, place)
    /\ UNCHANGED <<stage, unsent, held, file, lib>>

GccReads(r) ==
    /\ gcc[r] = "read" /\ held[r] > 0
    /\ held' = [held EXCEPT ![r] = @ - 1]
    /\ UNCHANGED <<stage, unsent, writers, gcc, file, lib>>

\* At the end of the text: an error, which leaves tmp.so alone, or a new file
\* in its place.
GccCompiles(r) ==
    /\ gcc[r] = "read" /\ held[r] = 0 /\ writers[r] = {}
    /\ \/ GccTo(r, "exit 1") /\ UNCHANGED file
       \/ /\ GccTo(r, "link")
          /\ tmp_so' = r /\ links' = Append(links, r)
          /\ UNCHANGED complete
    /\ UNCHANGED <<stage, pipe, lib>>

GccLinked(r) ==
    /\ gcc[r] = "link"
    /\ complete' = complete \cup {r}
    /\ GccTo(r, "exit 0")
    /\ UNCHANGED <<stage, pipe, tmp_so, links, lib>>

KillGcc(r) ==
    /\ gcc[r] \in {"setup", "read", "link"}
    /\ GccTo(r, "killed")
    /\ writers' = [writers EXCEPT ![r] = @ \ {"gcc"}]
    /\ UNCHANGED <<stage, unsent, held, file, lib>>

-----------------------------------------------------------------------------
Main(r) == \/ PipeAndFork(r) \/ Write(r) \/ CloseWrite(r)
           \/ Wait(r) \/ Load(r) \/ Plot(r)
Gcc(r) == Child(r) \/ GccReads(r) \/ GccCompiles(r) \/ GccLinked(r)

Next == \E r \in Runs : Main(r) \/ Gcc(r) \/ KillGcc(r)

Spec == Init /\ [][Next]_cvars
FairSpec == Spec /\ \A r \in Runs : WF_cvars(Main(r)) /\ WF_cvars(Gcc(r))

-----------------------------------------------------------------------------
(* Types; a name leads to one of the files that have been created.         *)
TypeOK ==
    /\ stage \in [Runs -> MainDead \cup {"start", "write", "wait", "load", "calculate"}]
    /\ unsent \in [Runs -> 0 .. MaxLength] /\ held \in [Runs -> 0 .. Capacity]
    /\ writers \in [Runs -> SUBSET {"main", "gcc"}]
    /\ gcc \in [Runs -> GccDead \cup {"none", "setup", "read", "link"}]
    /\ tmp_so \in Runs \cup {None, Old} /\ complete \subseteq Runs \cup {Old}
    /\ lib \in [Runs -> Runs \cup {None, Old}]
    /\ links \in Seq(Runs \cup {Old})

(* 14-Integrate.c:126-149: a run calculates with the library that gcc made *)
(* for it, or with one that another run put in its place after that; never *)
(* with what was there before, even if its own compilation fails.          *)
NeverStale ==
    \A r \in Runs : lib[r] # None =>
        \E i, j \in DOMAIN links : i <= j /\ links[i] = r /\ links[j] = lib[r]

(* main waits in dprintf for room in a pipe that nobody will read: the text*)
(* is longer than the pipe, its child is gone, and main's own read end     *)
(* keeps the pipe open.                                                    *)
Stuck(r) == stage[r] = "write" /\ held[r] = Capacity /\ gcc[r] \in GccDead

(* 14-Integrate.c:84-128: gcc gets the end of its input, main the end of   *)
(* gcc, and the run comes to its end.                                      *)
Finishes == \A r \in Runs :
    stage[r] # "start" ~> stage[r] \in MainDead \/ Stuck(r)
=============================================================================
