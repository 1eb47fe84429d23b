---------------------- MODULE IntegrateThreads_proofs ----------------------
(* Proofs about ThreadedSum, for any number of threads and points, and     *)
(* about IntegrateThreads, which contains it, for any number of runs in a  *)
(* directory and texts and pipes of any length.                            *)
EXTENDS IntegrateThreads, TLAPS

-----------------------------------------------------------------------------
(* The threaded sum.                                                       *)

InCS(t) == pc[t] \in {"load", "store", "unlock"}

(* One thread at a time is between lock and unlock, and what it has loaded *)
(* is still the total.                                                     *)
Exclusive ==
    /\ \A t, u \in Thread : InCS(t) /\ InCS(u) => t = u
    /\ \A t \in Thread : InCS(t) => lock = 0
    /\ \A t \in Thread : pc[t] = "store" => reg[t] = total_sum

(* The total holds the contributions of the threads past their store.      *)
Progressed ==
    /\ total_sum \subseteq Contributing
    /\ \A t \in Thread :
          /\ pc[t] \in {"lock", "load", "store"} => t \in Contributing
          /\ pc[t] \in {"unlock", "done"} /\ t \in Contributing => t \in total_sum
    /\ \A t \in Thread : t >= created => pc[t] = "none"

(* main prints only after it has joined everybody.                         *)
Joined ==
    /\ \A t \in Thread : t < joined => pc[t] = "done"
    /\ main = "reported" => joined = N

IInv == TypeOK /\ Exclusive /\ Progressed /\ Joined

LEMMA InitIInv == Init => IInv
<1> SUFFICES ASSUME Init PROVE IInv
    OBVIOUS
<1> QED
    BY SumAssumption
    DEF Init, IInv, TypeOK, Exclusive, Progressed, Joined, InCS, Thread

LEMMA NextIInv == IInv /\ [Next]_vars => IInv'
<1> SUFFICES ASSUME IInv, [Next]_vars PROVE IInv'
    OBVIOUS
<1> USE SumAssumption
    DEF IInv, TypeOK, Exclusive, Progressed, Joined, InCS, Thread, input,
        Running, Goto
<1>1. ASSUME UNCHANGED input PROVE Contributing' = Contributing
    BY <1>1 DEF Contributing, Evaluates, points_ar
<1>2. ASSUME CreateThread PROVE IInv'
    BY <1>1, <1>2 DEF CreateThread
<1>3. ASSUME CreateFails PROVE IInv'
    BY <1>1, <1>3 DEF CreateFails
<1>4. ASSUME Join PROVE IInv'
    BY <1>1, <1>4 DEF Join
<1>5. ASSUME Report PROVE IInv'
    BY <1>1, <1>5 DEF Report
<1>6. ASSUME Exit PROVE IInv'
    BY <1>1, <1>6 DEF Exit
<1>7. ASSUME NEW t \in Thread, Integrate(t) PROVE IInv'
    BY <1>1, <1>7 DEF Integrate
<1>8. ASSUME NEW t \in Thread, Lock(t) PROVE IInv'
    BY <1>1, <1>8 DEF Lock
<1>9. ASSUME NEW t \in Thread, Load(t) PROVE IInv'
    BY <1>1, <1>9 DEF Load
<1>10. ASSUME NEW t \in Thread, Store(t) PROVE IInv'
    BY <1>1, <1>10 DEF Store
<1>11. ASSUME NEW t \in Thread, Unlock(t) PROVE IInv'
    BY <1>1, <1>11 DEF Unlock
<1>12. CASE UNCHANGED vars
    BY <1>1, <1>12 DEF vars
<1> QED
    BY <1>2, <1>3, <1>4, <1>5, <1>6, <1>7, <1>8, <1>9, <1>10, <1>11, <1>12
    DEF Next, MainStep, ThreadStep

LEMMA Invariant == Spec => []IInv
    BY InitIInv, NextIInv, PTL DEF Spec

(* 19.2-semaphores_1.c:202-209: when main destroys the semaphore and       *)
(* returns, every thread that used its frame has ended.                    *)
THEOREM NoThreadLeft == Spec => []NoUseAfterReturn
<1>1. IInv => NoUseAfterReturn
    BY SumAssumption DEF IInv, TypeOK, Joined, NoUseAfterReturn, Thread
<1> QED
    BY <1>1, Invariant, PTL

(* Types and bounds, and a lock that is free or taken once.                *)
THEOREM TypeCorrect == Spec => []TypeOK
    BY Invariant, PTL DEF IInv

(* main's division of the points: with a point for every thread each gets  *)
(* at least one, the last thread's remainder included.                     *)
LEMMA EveryThreadEvaluates ==
    ASSUME NEW p \in Nat, p >= N, NEW t \in Thread
    PROVE  points_ar(p)[t] > 0
<1> DEFINE q == p \div N
           r == p % N
<1>1. q \in Nat /\ r \in Nat /\ p = N * q + r /\ r < N
    BY SumAssumption
<1>2. q > 0
    <2>1. q = 0 => N * q = 0
        BY SumAssumption
    <2> QED
        BY <1>1, <2>1, SumAssumption
<1>3. (N - 1) * q = N * q - q
    BY <1>1, SumAssumption
<1>4. p - (N - 1) * q > 0
    <2> DEFINE shares == N * q
               others == (N - 1) * q
    <2>1. shares \in Int /\ p = shares + r /\ others = shares - q
        BY <1>1, <1>3, SumAssumption
    <2> HIDE DEF q, r, shares, others
    <2>2. p - others > 0
        BY <1>1, <1>2, <2>1
    <2> QED
        BY <2>2 DEF others
<1> QED
    BY <1>2, <1>4 DEF points_ar

(* 19.1-Mutex.c:167-175: for any number of threads, a total of at least as *)
(* many points is printed as a number.                                     *)
THEOREM NoNaN == Spec => []NumberPrinted
<1>1. IInv => NumberPrinted
    <2> SUFFICES ASSUME IInv, points >= N PROVE ~IsNaN(total_sum)
        BY DEF NumberPrinted
    <2>1. points \in Nat /\ total_sum \subseteq Thread
        BY SumAssumption DEF IInv, TypeOK
    <2>2. \A t \in Thread : points_ar(points)[t] > 0
        BY <2>1, EveryThreadEvaluates
    <2> QED
        BY <2>1, <2>2 DEF IsNaN, Evaluates
<1> QED
    BY <1>1, Invariant, PTL

(* 19.1-Mutex.c:66-68 and 200-204: for any number of threads the locked    *)
(* load and store implement an atomic addition, no contribution is lost,   *)
(* and the total reported is the whole of them.                            *)
THEOREM Refinement == Spec => ImplementsAtomic
<1> USE DEF ImplementsAtomic
<1>1. Init => Atomic!Init
    BY DEF Init, Atomic!Init, Contributing
<1>2. IInv /\ [Next]_vars => [Atomic!Next]_<<Contributing, total_sum, main>>
    <2> SUFFICES ASSUME IInv, [Next]_vars
                 PROVE  Atomic!Next \/ UNCHANGED <<Contributing, total_sum, main>>
        OBVIOUS
    <2>1. ASSUME UNCHANGED input PROVE UNCHANGED Contributing
        BY <2>1 DEF Contributing, Evaluates, points_ar, input
    <2>2. ASSUME CreateThread \/ Join PROVE UNCHANGED <<Contributing, total_sum, main>>
        BY <2>1, <2>2 DEF CreateThread, Join
    <2>3. ASSUME CreateFails PROVE Atomic!Abort
        BY <2>1, <2>3 DEF CreateFails, Atomic!Abort
    <2>4. ASSUME Report PROVE Atomic!Report
        <3>1. total_sum = Contributing
            <4>1. \A t \in Thread : pc[t] = "done"
                BY <2>4, SumAssumption DEF Report, IInv, Joined, Thread
            <4>2. Contributing \subseteq Thread
                BY DEF Contributing
            <4> QED
                BY <4>1, <4>2 DEF IInv, Progressed
        <3> QED
            BY <2>1, <2>4, <3>1 DEF Report, Atomic!Report
    <2>5. ASSUME Exit PROVE Atomic!Exit
        BY <2>1, <2>5 DEF Exit, Atomic!Exit
    <2>6. ASSUME NEW t \in Thread, Integrate(t) \/ Lock(t) \/ Load(t) \/ Unlock(t)
          PROVE  UNCHANGED <<Contributing, total_sum, main>>
        BY <2>1, <2>6 DEF Integrate, Lock, Load, Unlock
    <2>7. ASSUME NEW t \in Thread, Store(t)
          PROVE  Atomic!Add(t) \/ UNCHANGED <<Contributing, total_sum, main>>
        <3>1. total_sum' = total_sum \cup {t} /\ t \in Contributing /\ main # "gone"
            BY <2>7 DEF Store, Running, IInv, Exclusive, Progressed
        <3>2. UNCHANGED <<Contributing, main>>
            BY <2>1, <2>7 DEF Store
        <3>3. CASE t \in total_sum
            BY <3>1, <3>2, <3>3
        <3>4. CASE t \notin total_sum
            BY <3>1, <3>2, <3>4 DEF Atomic!Add
        <3> QED
            BY <3>3, <3>4
    <2>8. CASE UNCHANGED vars
        BY <2>1, <2>8 DEF vars
    <2> QED
        BY <2>2, <2>3, <2>4, <2>5, <2>6, <2>7, <2>8
        DEF Next, MainStep, ThreadStep, Atomic!Next
<1> QED
    BY <1>1, <1>2, Invariant, PTL DEF Spec, Atomic!Spec

-----------------------------------------------------------------------------
(* The whole program.                                                      *)

(* A step of the program is a step of its compilations or leaves them as   *)
(* they are, and the same holds for its sum.                               *)
LEMMA StepOfParts ==
    [ProgramNext]_all => [Build!Next]_bvars /\ [Next]_vars
<1> SUFFICES ASSUME [ProgramNext]_all PROVE [Build!Next]_bvars /\ [Next]_vars
    OBVIOUS
<1>1. ASSUME NEW r \in Runs, BuildMain(r) \/ BuildGcc(r) \/ KillGcc(r)
      PROVE  Build!Next /\ UNCHANGED vars
    BY <1>1 DEF BuildMain, BuildGcc, KillGcc, Build!Next
<1>2. ASSUME SumMain \/ SumFails \/ \E t \in Thread : SumThread(t)
      PROVE  Next /\ UNCHANGED bvars
    BY <1>2 DEF SumMain, SumFails, SumThread, Calculating, Next
<1>3. CASE UNCHANGED all
    BY <1>3 DEF all
<1> QED
    BY <1>1, <1>2, <1>3 DEF ProgramNext

(* 14-IntegrateThreads.c:170-228: within the whole program the threads and *)
(* their sum behave as ThreadedSum says, so that what is proved there      *)
(* holds here.                                                             *)
THEOREM SumInside == ProgramSpec => Spec
<1>1. ProgramInit => Init
    BY DEF ProgramInit
<1> QED
    BY <1>1, StepOfParts, PTL DEF ProgramSpec, Spec

(* 14-IntegrateThreads.c:170-228: a run that compiles and loads first, among *)
(* other runs, adds up atomically, prints a number and leaves no thread.     *)
THEOREM ProgramSum ==
    ProgramSpec => []NoUseAfterReturn /\ []NumberPrinted /\ ImplementsAtomic
    BY SumInside, NoThreadLeft, NoNaN, Refinement, PTL

-----------------------------------------------------------------------------
(* gcc's file is among those that have got the name once gcc has begun it; *)
(* main loads only after a gcc that has ended well; the name leads to the  *)
(* newest file.                                                            *)
Linked(r) == \E i \in DOMAIN links : links[i] = r
Ordered ==
    /\ \A r \in Runs : gcc[r] \in {"link", "exit 0"} => Linked(r)
    /\ \A r \in Runs : stage[r] = "load" => gcc[r] = "exit 0"
    /\ tmp_so # None => links # <<>> /\ links[Len(links)] = tmp_so

\* The types in three parts, each left alone by most of the steps.
PipeTypes ==
    /\ unsent \in [Runs -> 0 .. MaxLength] /\ held \in [Runs -> 0 .. Capacity]
    /\ writers \in [Runs -> SUBSET {"main", "gcc"}]

PlaceTypes ==
    /\ stage \in [Runs -> Build!MainDead \cup {"start", "write", "wait", "load", "calculate"}]
    /\ gcc \in [Runs -> Build!GccDead \cup {"none", "setup", "read", "link"}]

NameTypes ==
    /\ tmp_so \in Runs \cup {None, Old} /\ complete \subseteq Runs \cup {Old}
    /\ lib \in [Runs -> Runs \cup {None, Old}]
    /\ links \in Seq(Runs \cup {Old})

BuildInv == PipeTypes /\ PlaceTypes /\ NameTypes /\ Ordered /\ NeverStale

LEMMA InitBuildInv == Build!Init => BuildInv
<1> SUFFICES ASSUME Build!Init PROVE BuildInv
    OBVIOUS
<1> USE RunsAssumption DEF Build!Parameters, Build!Init
<1>1. PipeTypes /\ PlaceTypes
    BY DEF PipeTypes, PlaceTypes, Build!GccDead, Build!MainDead
<1>2. NameTypes
    <2>1. tmp_so \in Runs \cup {None, Old} /\ links \in Seq(Runs \cup {Old})
        <3>1. <<>> \in Seq(Runs \cup {Old}) /\ <<Old>> \in Seq(Runs \cup {Old})
            OBVIOUS
        <3> QED
            BY <3>1
    <2>2. complete \subseteq Runs \cup {Old}
        OBVIOUS
    <2>3. lib \in [Runs -> Runs \cup {None, Old}]
        OBVIOUS
    <2> QED
        BY <2>1, <2>2, <2>3 DEF NameTypes
<1>3. NeverStale
    BY DEF NeverStale, Build!NeverStale
<1>4. Ordered
    BY DEF Ordered, Linked
<1> QED
    BY <1>1, <1>2, <1>3, <1>4 DEF BuildInv

LEMMA NextPipeTypes ==
    ASSUME PipeTypes, NEW r \in Runs, Build!Main(r) \/ Build!Gcc(r) \/ Build!KillGcc(r)
    PROVE  PipeTypes'
<1> USE RunsAssumption
    DEF Build!Parameters, PipeTypes, Build!pipe
<1>1. CASE UNCHANGED Build!pipe
    BY <1>1
<1>2. CASE UNCHANGED <<unsent, held>> /\ writers' \in [Runs -> SUBSET {"main", "gcc"}]
    BY <1>2
<1>3. CASE Build!Write(r)
    BY <1>3 DEF Build!Write
<1>4. CASE Build!GccReads(r)
    BY <1>4 DEF Build!GccReads
<1>5. ASSUME Build!PipeAndFork(r)
      PROVE  writers' \in [Runs -> SUBSET {"main", "gcc"}] /\ UNCHANGED <<unsent, held>>
    BY <1>5 DEF Build!PipeAndFork
<1>6. ASSUME Build!CloseWrite(r) \/ Build!Child(r) \/ Build!KillGcc(r)
      PROVE  writers' \in [Runs -> SUBSET {"main", "gcc"}] /\ UNCHANGED <<unsent, held>>
    BY <1>6 DEF Build!CloseWrite, Build!Child, Build!KillGcc
<1>7. ASSUME \/ Build!Wait(r) \/ Build!Load(r) \/ Build!Plot(r)
             \/ Build!GccCompiles(r) \/ Build!GccLinked(r)
      PROVE  UNCHANGED Build!pipe
    BY <1>7 DEF Build!Wait, Build!Load, Build!Plot, Build!GccCompiles, Build!GccLinked
<1> QED
    BY <1>1, <1>2, <1>3, <1>4, <1>5, <1>6, <1>7 DEF Build!Main, Build!Gcc

LEMMA NextPlaceTypes ==
    ASSUME PlaceTypes, NEW r \in Runs, Build!Main(r) \/ Build!Gcc(r) \/ Build!KillGcc(r)
    PROVE  PlaceTypes'
<1> USE DEF PlaceTypes, Build!MainDead, Build!GccDead, Build!To, Build!GccTo
<1>1. CASE Build!Main(r)
    BY <1>1 DEF Build!Main, Build!PipeAndFork, Build!Write, Build!CloseWrite,
        Build!Wait, Build!Load, Build!Plot
<1>2. CASE Build!Gcc(r)
    BY <1>2 DEF Build!Gcc, Build!Child, Build!GccReads, Build!GccCompiles,
        Build!GccLinked
<1>3. CASE Build!KillGcc(r)
    BY <1>3 DEF Build!KillGcc
<1> QED
    BY <1>1, <1>2, <1>3

(* gcc alone gives out the name, main loads what has it.                   *)
LEMMA NextNames ==
    ASSUME NameTypes, Ordered, NeverStale, PlaceTypes,
           NEW r \in Runs, Build!Main(r) \/ Build!Gcc(r) \/ Build!KillGcc(r)
    PROVE  NameTypes' /\ Ordered' /\ NeverStale'
<1> DEFINE GccKnows == gcc[r] \in {"link", "exit 0"} => Linked(r)
           LoadsWell == stage[r] = "load" => gcc[r] = "exit 0"
<1>1. ASSUME UNCHANGED <<tmp_so, complete, links, lib>>, GccKnows', LoadsWell',
             \A q \in Runs \ {r} : gcc'[q] = gcc[q] /\ stage'[q] = stage[q]
      PROVE  NameTypes' /\ Ordered' /\ NeverStale'
    <2>1. NameTypes' /\ NeverStale'
        BY <1>1 DEF NameTypes, NeverStale, Build!NeverStale
    <2>2. Ordered'
        BY <1>1 DEF Ordered, Linked
    <2> QED
        BY <2>1, <2>2
<1> USE DEF PlaceTypes, Build!To, Build!GccTo, Build!file
<1>2. ASSUME Build!PipeAndFork(r) \/ Build!Write(r) \/ Build!CloseWrite(r)
           \/ Build!Wait(r) \/ Build!Plot(r) \/ Build!Child(r)
           \/ Build!GccReads(r) \/ Build!KillGcc(r)
      PROVE  /\ UNCHANGED <<tmp_so, complete, links, lib>> /\ GccKnows' /\ LoadsWell'
             /\ \A q \in Runs \ {r} : gcc'[q] = gcc[q] /\ stage'[q] = stage[q]
    <2>1. /\ UNCHANGED <<tmp_so, complete, links, lib>>
          /\ \A q \in Runs \ {r} : gcc'[q] = gcc[q] /\ stage'[q] = stage[q]
        BY <1>2 DEF Build!PipeAndFork, Build!Write, Build!CloseWrite, Build!Wait,
            Build!Plot, Build!Child, Build!GccReads, Build!KillGcc
    <2>2. GccKnows'
        BY <1>2, <2>1 DEF Build!PipeAndFork, Build!Write, Build!CloseWrite,
            Build!Wait, Build!Plot, Build!Child, Build!GccReads, Build!KillGcc,
            Ordered, Linked
    <2>3. LoadsWell'
        BY <1>2 DEF Build!PipeAndFork, Build!Write, Build!CloseWrite, Build!Wait,
            Build!Plot, Build!Child, Build!GccReads, Build!KillGcc,
            Build!GccDead, Ordered
    <2> QED
        BY <2>1, <2>2, <2>3
<1>3. CASE Build!GccLinked(r)
    <2>1. NameTypes'
        BY <1>3 DEF Build!GccLinked, NameTypes
    <2>2. NeverStale'
        BY <1>3 DEF Build!GccLinked, NeverStale, Build!NeverStale
    <2>3. Ordered'
        BY <1>3 DEF Build!GccLinked, Ordered, Linked
    <2> QED
        BY <2>1, <2>2, <2>3
<1>4. CASE Build!Load(r)
    <2>1. CASE tmp_so \in complete
        <3>1. /\ lib' = [lib EXCEPT ![r] = tmp_so] /\ tmp_so # None
              /\ UNCHANGED <<tmp_so, complete, links, gcc>>
              /\ stage' = [stage EXCEPT ![r] = "calculate"] /\ stage[r] = "load"
            BY <1>4, <2>1, RunsAssumption DEF Build!Load, Build!Parameters, NameTypes
        <3>2. NameTypes' /\ Ordered'
            BY <3>1 DEF NameTypes, Ordered, Linked
        <3>3. PICK i \in DOMAIN links : links[i] = r
            BY <3>1 DEF Ordered, Linked
        <3>4. /\ Len(links) \in DOMAIN links /\ i <= Len(links)
              /\ links[Len(links)] = tmp_so
            <4>1. Len(links) \in Nat /\ DOMAIN links = 1 .. Len(links)
                BY DEF NameTypes
            <4>2. i \in 1 .. Len(links)
                BY <3>3, <4>1
            <4>3. Len(links) \in 1 .. Len(links) /\ i <= Len(links)
                BY <4>1, <4>2
            <4>4. links[Len(links)] = tmp_so
                BY <3>1 DEF Ordered
            <4> QED
                BY <4>1, <4>3, <4>4
        <3>5. \A q \in Runs \ {r} : lib'[q] = lib[q]
            BY <3>1 DEF NameTypes
        <3>6. lib'[r] = tmp_so
            BY <3>1 DEF NameTypes
        <3>7. NeverStale'
            BY <3>1, <3>3, <3>4, <3>5, <3>6 DEF NeverStale, Build!NeverStale
        <3> QED
            BY <3>2, <3>7
    <2>2. CASE tmp_so \notin complete
        BY <1>1, <1>4, <2>2 DEF Build!Load, Ordered, Linked
    <2> QED
        BY <2>1, <2>2
<1>5. CASE Build!GccCompiles(r)
    <2>1. CASE Build!GccTo(r, "exit 1") /\ UNCHANGED Build!file
        BY <1>1, <1>5, <2>1 DEF Build!GccCompiles, Ordered, Linked
    <2>2. CASE tmp_so' = r /\ links' = Append(links, r)
        <3>1. /\ links' \in Seq(Runs \cup {Old}) /\ Len(links') = Len(links) + 1
              /\ links'[Len(links')] = r /\ Len(links') \in DOMAIN links'
              /\ \A i \in DOMAIN links : i \in DOMAIN links' /\ links'[i] = links[i]
            BY <2>2 DEF NameTypes
        <3>2. \A q \in Runs : Linked(q) => Linked(q)'
            BY <3>1 DEF Linked
        <3>3. /\ UNCHANGED <<stage, lib, complete>> /\ Linked(r)' /\ gcc[r] = "read"
              /\ \A q \in Runs \ {r} : gcc'[q] = gcc[q]
            <4>1. Linked(r)'
                BY <3>1 DEF Linked
            <4> QED
                BY <1>5, <2>2, <4>1 DEF Build!GccCompiles
        <3>4. Ordered'
            <4>1. links' # <<>> /\ links'[Len(links')] = tmp_so'
                BY <2>2, <3>1
            <4>2. \A q \in Runs : gcc'[q] \in {"link", "exit 0"} => Linked(q)'
                BY <3>2, <3>3 DEF Ordered
            <4>3. \A q \in Runs : stage'[q] = "load" => gcc'[q] = "exit 0"
                BY <3>3 DEF Ordered
            <4> QED
                BY <4>1, <4>2, <4>3 DEF Ordered
        <3>5. NameTypes'
            BY <2>2, <3>1, <3>3 DEF NameTypes
        <3>6. NeverStale'
            BY <3>1, <3>3 DEF NeverStale, Build!NeverStale
        <3> QED
            BY <3>4, <3>5, <3>6
    <2> QED
        BY <1>5, <2>1, <2>2 DEF Build!GccCompiles
<1> QED
    BY <1>1, <1>2, <1>3, <1>4, <1>5 DEF Build!Main, Build!Gcc

LEMMA NextBuildInv == BuildInv /\ [Build!Next]_bvars => BuildInv'
<1>1. ASSUME BuildInv, UNCHANGED bvars PROVE BuildInv'
    BY <1>1, ZenonT(40) DEF BuildInv, bvars, PipeTypes, PlaceTypes, NameTypes, Ordered,
        Linked, NeverStale, Build!NeverStale
<1> QED
    BY <1>1, NextPipeTypes, NextPlaceTypes, NextNames DEF BuildInv, Build!Next

LEMMA BuildInvariant == ProgramSpec => []BuildInv
<1>1. ProgramInit => Build!Init
    BY DEF ProgramInit
<1> QED
    BY <1>1, InitBuildInv, NextBuildInv, StepOfParts, PTL DEF ProgramSpec

(* Types and bounds of the compilations; the pipe never holds more than    *)
(* its capacity.                                                           *)
THEOREM BuildTypes == ProgramSpec => []Build!TypeOK
<1>1. BuildInv => Build!TypeOK
    BY DEF BuildInv, PipeTypes, PlaceTypes, NameTypes, Build!TypeOK
<1> QED
    BY <1>1, BuildInvariant, PTL

(* 14-IntegrateThreads.c:145-158: however runs in one directory overtake   *)
(* each other, none calculates with a library that is older than its own.  *)
THEOREM FreshLibrary == ProgramSpec => []NeverStale
<1>1. BuildInv => NeverStale
    BY DEF BuildInv
<1> QED
    BY <1>1, BuildInvariant, PTL
=============================================================================
