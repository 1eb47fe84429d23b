---------------------------- MODULE ThreadedSum ----------------------------
(***************************************************************************)
(* 19-Threads/19.1-Mutex.c, 19.2-semaphores_1.c and 19.3-semaphores_2.c,   *)
(* and the second half of 14-Integrate/14-IntegrateThreads.c: main splits  *)
(* an interval among number_of_threads threads, which add their partial    *)
(* integrals to total_sum under one lock, joins them and prints the sum.   *)
(*                                                                         *)
(* A partial integral is identified with its thread, total_sum with the    *)
(* set of the threads whose integral it includes.  The double += is a load *)
(* and a store.  The lock, a mutex or a semaphore of this process alone,   *)
(* is its value: 1 free, 0 taken.                                          *)
(***************************************************************************)
EXTENDS Integers

CONSTANTS
    N,          \* number_of_threads
    MaxPoints   \* bound of the points argument

ASSUME SumAssumption == N \in Nat \ {0} /\ MaxPoints \in Nat

Thread == 0 .. N - 1

VARIABLES
    points,         \* the #points argument
    empty,          \* start = end
    discontinuous,  \* threads on whose subinterval the function gives a NaN
    main,           \* where main is
    created,        \* threads created so far
    joined,         \* threads joined so far
    pc,             \* where each thread is
    reg,            \* the total_sum each thread has loaded
    total_sum, lock

input == <<points, empty, discontinuous>>
vars  == <<input, main, created, joined, pc, reg, total_sum, lock>>

\* Fault: the last thread gets the remainder and no share.
points_arRemainder(p) == [t \in Thread |-> IF t < N - 1 THEN p \div N ELSE p % N]

\* What the loop over points_ar leaves in it: the last takes the remainder.
points_ar(p) ==
    [t \in Thread |-> IF t < N - 1 THEN p \div N ELSE p - (N - 1) * (p \div N)]

\* With no points of its own a thread has dx = inf: it evaluates nothing, and
\* its sum, 0 * inf, becomes a NaN only after the isnan test.
Evaluates(t) == points_ar(points)[t] > 0
Contributing ==
    IF empty THEN {} ELSE {t \in Thread : t \in discontinuous => ~Evaluates(t)}
IsNaN(sum) == \E t \in sum : ~Evaluates(t)

Init ==
    /\ points \in 0 .. MaxPoints /\ empty \in BOOLEAN
    /\ discontinuous \in SUBSET Thread
    /\ main = "running" /\ created = 0 /\ joined = 0
    /\ pc = [t \in Thread |-> "none"]
    /\ reg = [t \in Thread |-> {}]
    /\ total_sum = {} /\ lock = 1

-----------------------------------------------------------------------------
(* main.                                                                   *)
CreateThread ==
    /\ main = "running" /\ created < N
    /\ pc' = [pc EXCEPT ![created] = "integrate"]
    /\ created' = created + 1
    /\ UNCHANGED <<input, main, joined, reg, total_sum, lock>>

\* main returns -1 and leaves the threads it has created running.
CreateFails ==
    /\ main = "running" /\ created < N
    /\ main' = "failed"
    /\ UNCHANGED <<input, created, joined, pc, reg, total_sum, lock>>

\* Fault: one more thread than has ended is taken for joined.
JoinSkipsLast ==
    /\ main = "running" /\ created = N /\ joined < N
    /\ joined < N - 1 => pc[joined] = "done"
    /\ joined' = joined + 1
    /\ UNCHANGED <<input, main, created, pc, reg, total_sum, lock>>

Join ==
    /\ main = "running" /\ created = N /\ joined < N
    /\ pc[joined] = "done"
    /\ joined' = joined + 1
    /\ UNCHANGED <<input, main, created, pc, reg, total_sum, lock>>

\* The result of a thread is not looked at: the sum of the others is printed.
\* From here on the semaphore is destroyed, its name removed.
Report ==
    /\ main = "running" /\ joined = N
    /\ main' = "reported"
    /\ UNCHANGED <<input, created, joined, pc, reg, total_sum, lock>>

\* main has returned; its threads, if any are left, end with the process.
Exit ==
    /\ main \in {"reported", "failed"}
    /\ main' = "gone"
    /\ UNCHANGED <<input, created, joined, pc, reg, total_sum, lock>>

-----------------------------------------------------------------------------
(* integrate(), the body of a thread.                                      *)
Running(t, label) == main # "gone" /\ pc[t] = label
Goto(t, label) == pc' = [pc EXCEPT ![t] = label]

Integrate(t) ==
    /\ Running(t, "integrate")
    /\ Goto(t, IF t \in Contributing THEN "lock" ELSE "done")
    /\ UNCHANGED <<input, main, created, joined, reg, total_sum, lock>>

\* Fault: no lock is taken.
NoLock(t) ==
    /\ Running(t, "lock")
    /\ Goto(t, "load")
    /\ UNCHANGED <<input, main, created, joined, reg, total_sum, lock>>

Lock(t) ==
    /\ Running(t, "lock")
    /\ lock > 0 /\ lock' = lock - 1
    /\ Goto(t, "load")
    /\ UNCHANGED <<input, main, created, joined, reg, total_sum>>

Load(t) ==
    /\ Running(t, "load")
    /\ reg' = [reg EXCEPT ![t] = total_sum]
    /\ Goto(t, "store")
    /\ UNCHANGED <<input, main, created, joined, total_sum, lock>>

Store(t) ==
    /\ Running(t, "store")
    /\ total_sum' = reg[t] \cup {t}
    /\ Goto(t, "unlock")
    /\ UNCHANGED <<input, main, created, joined, reg, lock>>

Unlock(t) ==
    /\ Running(t, "unlock")
    /\ lock' = lock + 1
    /\ Goto(t, "done")
    /\ UNCHANGED <<input, main, created, joined, reg, total_sum>>

-----------------------------------------------------------------------------
MainStep == CreateThread \/ Join \/ Report \/ Exit
ThreadStep(t) == Integrate(t) \/ Lock(t) \/ Load(t) \/ Store(t) \/ Unlock(t)

Next == MainStep \/ CreateFails \/ \E t \in Thread : ThreadStep(t)

Spec == Init /\ [][Next]_vars

\* Each thread of the process is scheduled.  The lock is handed over only
\* finitely often, so weak fairness is enough to get it.
FairSpec == Spec /\ WF_vars(MainStep) /\ \A t \in Thread : WF_vars(ThreadStep(t))

-----------------------------------------------------------------------------
(* Types and bounds; the lock is never released twice.                     *)
TypeOK ==
    /\ points \in 0 .. MaxPoints /\ empty \in BOOLEAN
    /\ discontinuous \in SUBSET Thread
    /\ main \in {"running", "reported", "failed", "gone"}
    /\ created \in 0 .. N /\ joined \in 0 .. N
    /\ pc \in [Thread -> {"none", "integrate", "lock", "load", "store", "unlock", "done"}]
    /\ reg \in [Thread -> SUBSET Thread]
    /\ total_sum \in SUBSET Thread /\ lock \in 0 .. 1

(* 19.1-Mutex.c:66-68: the locked += behaves as one atomic addition, and   *)
(* the total is reported when nothing of it is missing.                    *)
Atomic == INSTANCE Accumulator
    WITH Parts <- Thread, contributing <- Contributing, sum <- total_sum,
         status <- main
ImplementsAtomic == Atomic!Spec

(* 19.1-Mutex.c:200-206, 19.2-semaphores_1.c:202-209: once main prints,    *)
(* destroys the semaphore and returns, no thread is left that could use    *)
(* main's total_sum, work_area or semaphore.                               *)
NoUseAfterReturn ==
    main = "reported" => \A t \in Thread : pc[t] = "done"

(* 19.1-Mutex.c:167-175, "WHOLE THIS BLOCK MADE TO CORRECTLY SPREAD       *)
(* RESOURCES AMONG THE THREADS": as long as there is a point for every     *)
(* thread, each gets one and a number is printed.  With fewer the sum is   *)
(* 0 * inf, which the isnan test before the multiplication does not see.   *)
NumberPrinted == main = "reported" /\ points >= N => ~IsNaN(total_sum)
=============================================================================
