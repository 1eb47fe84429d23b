---------------------------- MODULE Clock_proofs ----------------------------
(***************************************************************************)
(* Theorems about Clock for every number of servers, clients and summers.  *)
(***************************************************************************)
EXTENDS Clock, TLAPS

USE DEF Clockers, Procs, SemObjs

(* Every step keeps the types of the variables and the labels of the       *)
(* processes (the start-up and loop structure of the three programs).      *)
LEMMA TypeStep == TypeOK /\ [Next]_vars => TypeOK'
<1> SUFFICES ASSUME TypeOK, [Next]_vars PROVE TypeOK'
    OBVIOUS
<1> USE ClockAssumption
    DEF TypeOK, Goto, Dead, Alive, ServerLabels, ClientLabels, SummerLabels,
        objects, locals
<1>1. ASSUME NEW s \in Servers, ServerShmOpen(s) PROVE TypeOK'
    BY <1>1 DEF ServerShmOpen
<1>2. ASSUME NEW s \in Servers, ServerTruncate(s) PROVE TypeOK'
    BY <1>2 DEF ServerTruncate
<1>3. ASSUME NEW s \in Servers, ServerSemOpen(s) PROVE TypeOK'
    BY <1>3 DEF ServerSemOpen, CreateOrOpenSem
<1>4. ASSUME NEW s \in Servers, CheckSignal(s, "cleanup") PROVE TypeOK'
    BY <1>4 DEF CheckSignal
<1>5. ASSUME NEW s \in Servers, SemWait(s, "stamp") PROVE TypeOK'
    BY <1>5 DEF SemWait, TakeSem
<1>6. ASSUME NEW s \in Servers, ServerGetTime(s) PROVE TypeOK'
    BY <1>6 DEF ServerGetTime
<1>7. ASSUME NEW s \in Servers, ServerMemcpy(s) PROVE TypeOK'
    BY <1>7 DEF ServerMemcpy
<1>8. ASSUME NEW p \in Clockers, SemPost(p) PROVE TypeOK'
    BY <1>8 DEF SemPost, PostSem
<1>9. ASSUME NEW p \in Clockers, SleepOver(p) PROVE TypeOK'
    BY <1>9 DEF SleepOver
<1>10. ASSUME NEW s \in Servers, ServerShmUnlink(s) PROVE TypeOK'
    BY <1>10 DEF ServerShmUnlink
<1>11. ASSUME NEW s \in Servers, ServerSemUnlink(s) PROVE TypeOK'
    BY <1>11 DEF ServerSemUnlink
<1>12. ASSUME NEW c \in Clients, ClientShmOpen(c) PROVE TypeOK'
    BY <1>12 DEF ClientShmOpen
<1>13. ASSUME NEW c \in Clients, ClientSemOpen(c) PROVE TypeOK'
    BY <1>13 DEF ClientSemOpen
<1>14. ASSUME NEW c \in Clients, CheckSignal(c, "exited") PROVE TypeOK'
    BY <1>14 DEF CheckSignal
<1>15. ASSUME NEW c \in Clients, SemWait(c, "print") PROVE TypeOK'
    BY <1>15 DEF SemWait, TakeSem
<1>16. ASSUME NEW c \in Clients, ClientPrint(c) PROVE TypeOK'
    BY <1>16 DEF ClientPrint
<1>17. ASSUME NEW u \in Summers, SummerOpen(u) PROVE TypeOK'
    BY <1>17 DEF SummerOpen, CreateOrOpenSem
<1>18. ASSUME NEW u \in Summers, ThreadEnter(u) PROVE TypeOK'
    BY <1>18 DEF ThreadEnter, TakeSem
<1>19. ASSUME NEW u \in Summers, ThreadLeave(u) PROVE TypeOK'
    BY <1>19 DEF ThreadLeave, PostSem
<1>20. ASSUME NEW u \in Summers, SummerUnlink(u) PROVE TypeOK'
    BY <1>20 DEF SummerUnlink
<1>21. ASSUME NEW p \in Procs, StartFails(p) PROVE TypeOK'
    BY <1>21 DEF StartFails
<1>22. ASSUME NEW p \in Procs, Kill(p) PROVE TypeOK'
    BY <1>22 DEF Kill
<1>23. ASSUME NEW p \in Clockers, Signal(p) PROVE TypeOK'
    BY <1>23, SMTT(30) DEF Signal
<1>25. ASSUME Tick PROVE TypeOK'
    BY <1>25 DEF Tick
<1>26. CASE UNCHANGED vars
    BY <1>26 DEF vars
<1> QED
    BY <1>1, <1>2, <1>3, <1>4, <1>5, <1>6, <1>7, <1>8, <1>9, <1>10, <1>11,
       <1>12, <1>13, <1>14, <1>15, <1>16, <1>17, <1>18, <1>19, <1>20, <1>21,
       <1>22, <1>23, <1>25, <1>26
    DEF Next, ServerStep, ClientStep, SummerStep, Environment

(* The variables keep their types for every set of processes.              *)
THEOREM TypeCorrect == Spec => []TypeOK
<1>1. Init => TypeOK
    BY ClockAssumption DEF Init, TypeOK, Dead, ServerLabels, ClientLabels, SummerLabels
<1> QED
    BY <1>1, TypeStep, PTL DEF Spec

-----------------------------------------------------------------------------
(* OneHolder is inductive once it is known that a semaphore nobody has     *)
(* created yet is at zero and in nobody's hands, and that no thread runs   *)
(* before its program does.  The value and the holder determine each other *)
(* in one direction only: a killed holder takes the token with it.         *)
Untouched ==
    /\ \A o \in SemObjs :
          pc[o] \in {"start", "truncate", "semopen"} =>
              /\ semVal[o] = 0 /\ semName # o
              /\ \A p \in Procs : semOf[p] # o
    /\ \A u \in Summers : pc[u] = "start" => inside[u] = 0

IInv == TypeOK /\ Untouched /\ OneHolder

LEMMA HolderStep == IInv /\ [Next]_vars => IInv'
<1> SUFFICES ASSUME IInv, [Next]_vars PROVE IInv'
    OBVIOUS
<1> USE ClockAssumption
    DEF IInv, TypeOK, Untouched, OneHolder, InCS, Goto, Dead, Alive,
        ServerLabels, ClientLabels, SummerLabels, objects, locals
<1>1. ASSUME NEW s \in Servers, ServerShmOpen(s) PROVE Untouched' /\ OneHolder'
    BY <1>1 DEF ServerShmOpen
<1>2. ASSUME NEW s \in Servers, ServerTruncate(s) PROVE Untouched' /\ OneHolder'
    BY <1>2 DEF ServerTruncate
<1>3. ASSUME NEW s \in Servers, ServerSemOpen(s) PROVE Untouched' /\ OneHolder'
    BY <1>3 DEF ServerSemOpen, CreateOrOpenSem
<1>4. ASSUME NEW s \in Servers, CheckSignal(s, "cleanup") PROVE Untouched' /\ OneHolder'
    BY <1>4 DEF CheckSignal
<1>5. ASSUME NEW s \in Servers, SemWait(s, "stamp") PROVE Untouched' /\ OneHolder'
    BY <1>5 DEF SemWait, TakeSem
<1>6. ASSUME NEW s \in Servers, ServerGetTime(s) PROVE Untouched' /\ OneHolder'
    BY <1>6 DEF ServerGetTime
<1>7. ASSUME NEW s \in Servers, ServerMemcpy(s) PROVE Untouched' /\ OneHolder'
    BY <1>7 DEF ServerMemcpy
<1>8. ASSUME NEW p \in Clockers, SemPost(p) PROVE Untouched' /\ OneHolder'
    BY <1>8 DEF SemPost, PostSem
<1>9. ASSUME NEW p \in Clockers, SleepOver(p) PROVE Untouched' /\ OneHolder'
    BY <1>9 DEF SleepOver
<1>10. ASSUME NEW s \in Servers, ServerShmUnlink(s) PROVE Untouched' /\ OneHolder'
    BY <1>10 DEF ServerShmUnlink
<1>11. ASSUME NEW s \in Servers, ServerSemUnlink(s) PROVE Untouched' /\ OneHolder'
    BY <1>11 DEF ServerSemUnlink
<1>12. ASSUME NEW c \in Clients, ClientShmOpen(c) PROVE Untouched' /\ OneHolder'
    BY <1>12 DEF ClientShmOpen
<1>13. ASSUME NEW c \in Clients, ClientSemOpen(c) PROVE Untouched' /\ OneHolder'
    BY <1>13 DEF ClientSemOpen
<1>14. ASSUME NEW c \in Clients, CheckSignal(c, "exited") PROVE Untouched' /\ OneHolder'
    BY <1>14 DEF CheckSignal
<1>15. ASSUME NEW c \in Clients, SemWait(c, "print") PROVE Untouched' /\ OneHolder'
    BY <1>15 DEF SemWait, TakeSem
<1>16. ASSUME NEW c \in Clients, ClientPrint(c) PROVE Untouched' /\ OneHolder'
    BY <1>16 DEF ClientPrint
<1>17. ASSUME NEW u \in Summers, SummerOpen(u) PROVE Untouched' /\ OneHolder'
    BY <1>17 DEF SummerOpen, CreateOrOpenSem
<1>18. ASSUME NEW u \in Summers, ThreadEnter(u) PROVE Untouched' /\ OneHolder'
    <2>1. u \in Procs /\ semOf[u] \in SemObjs /\ semVal[semOf[u]] \in Nat
        BY <1>18 DEF ThreadEnter
    <2>2. CASE UNCHANGED <<semVal, inside>>
        BY <1>18, <2>2 DEF ThreadEnter
    <2>3. CASE TakeSem(u) /\ inside' = [inside EXCEPT ![u] = @ + 1]
        <3>1. semVal[semOf[u]] = 1 /\ semVal'[semOf[u]] = 0
            BY <2>1, <2>3 DEF TakeSem
        <3>2. \A p \in Procs : InCS(p) => semOf[p] # semOf[u]
            BY <3>1
        <3>3. inside[u] = 0 /\ inside'[u] = 1
            BY <1>18, <2>1, <2>3, <3>2 DEF ThreadEnter
        <3>4. \A p \in Procs : InCS(p)' => InCS(p) \/ p = u
            BY <1>18, <2>3 DEF ThreadEnter
        <3>5. OneHolder'
            BY <1>18, <2>1, <2>3, <3>1, <3>2, <3>3, <3>4 DEF ThreadEnter, TakeSem
        <3>6. Untouched'
            BY <1>18, <2>1, <2>3 DEF ThreadEnter, TakeSem
        <3> QED
            BY <3>5, <3>6
    <2> QED
        BY <1>18, <2>2, <2>3 DEF ThreadEnter
<1>19. ASSUME NEW u \in Summers, ThreadLeave(u) PROVE Untouched' /\ OneHolder'
    <2>1. u \in Procs /\ semOf[u] \in SemObjs /\ semVal[semOf[u]] \in Nat /\ InCS(u)
        BY <1>19 DEF ThreadLeave
    <2>2. semVal[semOf[u]] = 0 /\ semVal'[semOf[u]] = 1
        BY <1>19, <2>1 DEF ThreadLeave, PostSem
    <2>3. inside[u] = 1 /\ inside'[u] = 0
        BY <1>19 DEF ThreadLeave
    <2>4. \A p \in Procs : InCS(p)' => InCS(p) /\ p # u
        BY <1>19, <2>3 DEF ThreadLeave
    <2>5. OneHolder'
        BY <1>19, <2>1, <2>2, <2>3, <2>4 DEF ThreadLeave, PostSem
    <2>6. Untouched'
        BY <1>19, <2>1 DEF ThreadLeave, PostSem
    <2> QED
        BY <2>5, <2>6
<1>20. ASSUME NEW u \in Summers, SummerUnlink(u) PROVE Untouched' /\ OneHolder'
    BY <1>20 DEF SummerUnlink
<1>21. ASSUME NEW p \in Procs, StartFails(p) PROVE Untouched' /\ OneHolder'
    BY <1>21 DEF StartFails
<1>22. ASSUME NEW p \in Procs, Kill(p) PROVE Untouched' /\ OneHolder'
    BY <1>22 DEF Kill
<1>23. ASSUME NEW p \in Clockers, Signal(p) PROVE Untouched' /\ OneHolder'
    BY <1>23 DEF Signal
<1>25. ASSUME Tick PROVE Untouched' /\ OneHolder'
    BY <1>25 DEF Tick
<1>26. CASE UNCHANGED vars
    BY <1>26 DEF vars
<1> QED
    BY <1>1, <1>2, <1>3, <1>4, <1>5, <1>6, <1>7, <1>8, <1>9, <1>10, <1>11, <1>12, <1>13, <1>14, <1>15, <1>16, <1>17, <1>18, <1>19, <1>20, <1>21, <1>22, <1>23, <1>25, <1>26, TypeStep
    DEF IInv, Next, ServerStep, ClientStep, SummerStep, Environment

(* 20.1-Server.c:99-106, 20.1-Client.c:70-82, 19.3-semaphores_2.c:68-70:   *)
(* however the names are unlinked and created anew, and whoever is killed, *)
(* a semaphore object has at most one process in its critical section.     *)
THEOREM Exclusion == Spec => []OneHolder
<1>1. Init => IInv
    BY ClockAssumption
    DEF Init, IInv, TypeOK, Untouched, OneHolder, InCS, Dead, ServerLabels,
        ClientLabels, SummerLabels
<1>2. IInv /\ [Next]_vars => IInv'
    BY HolderStep
<1>3. IInv => OneHolder
    BY DEF IInv
<1> QED
    BY <1>1, <1>2, <1>3, PTL DEF Spec
-----------------------------------------------------------------------------
(* While nobody has unlinked the name, everybody has opened one semaphore. *)
OneName ==
    ~SemUnlinked => \A p \in Procs : semOf[p] # None => semOf[p] = semName

LEMMA OneNameStep == TypeOK /\ OneName /\ [Next]_vars => OneName'
<1> SUFFICES ASSUME TypeOK, OneName, [Next]_vars PROVE OneName'
    OBVIOUS
<1> USE ClockAssumption
    DEF TypeOK, OneName, SemUnlinked, Goto, Dead, Alive, ServerLabels,
        ClientLabels, SummerLabels, objects, locals, Procs, SemObjs, Clockers
<1>1. ASSUME NEW s \in Servers, ServerShmOpen(s) PROVE OneName'
    BY <1>1 DEF ServerShmOpen
<1>2. ASSUME NEW s \in Servers, ServerTruncate(s) PROVE OneName'
    BY <1>2 DEF ServerTruncate
<1>3. ASSUME NEW s \in Servers, ServerSemOpen(s) PROVE OneName'
    BY <1>3 DEF ServerSemOpen, CreateOrOpenSem
<1>4. ASSUME NEW s \in Servers, CheckSignal(s, "cleanup") PROVE OneName'
    BY <1>4 DEF CheckSignal
<1>5. ASSUME NEW s \in Servers, SemWait(s, "stamp") PROVE OneName'
    BY <1>5 DEF SemWait
<1>6. ASSUME NEW s \in Servers, ServerGetTime(s) PROVE OneName'
    BY <1>6 DEF ServerGetTime
<1>7. ASSUME NEW s \in Servers, ServerMemcpy(s) PROVE OneName'
    BY <1>7 DEF ServerMemcpy
<1>8. ASSUME NEW p \in Clockers, SemPost(p) PROVE OneName'
    BY <1>8 DEF SemPost
<1>9. ASSUME NEW p \in Clockers, SleepOver(p) PROVE OneName'
    BY <1>9 DEF SleepOver
<1>10. ASSUME NEW s \in Servers, ServerShmUnlink(s) PROVE OneName'
    BY <1>10 DEF ServerShmUnlink
<1>11. ASSUME NEW s \in Servers, ServerSemUnlink(s) PROVE OneName'
    BY <1>11 DEF ServerSemUnlink
<1>12. ASSUME NEW c \in Clients, ClientShmOpen(c) PROVE OneName'
    BY <1>12 DEF ClientShmOpen
<1>13. ASSUME NEW c \in Clients, ClientSemOpen(c) PROVE OneName'
    BY <1>13 DEF ClientSemOpen
<1>14. ASSUME NEW c \in Clients, CheckSignal(c, "exited") PROVE OneName'
    BY <1>14 DEF CheckSignal
<1>15. ASSUME NEW c \in Clients, SemWait(c, "print") PROVE OneName'
    BY <1>15 DEF SemWait
<1>16. ASSUME NEW c \in Clients, ClientPrint(c) PROVE OneName'
    BY <1>16 DEF ClientPrint
<1>17. ASSUME NEW u \in Summers, SummerOpen(u) PROVE OneName'
    BY <1>17 DEF SummerOpen, CreateOrOpenSem
<1>18. ASSUME NEW u \in Summers, ThreadEnter(u) PROVE OneName'
    BY <1>18 DEF ThreadEnter
<1>19. ASSUME NEW u \in Summers, ThreadLeave(u) PROVE OneName'
    BY <1>19 DEF ThreadLeave
<1>20. ASSUME NEW u \in Summers, SummerUnlink(u) PROVE OneName'
    BY <1>20 DEF SummerUnlink
<1>21. ASSUME NEW p \in Procs, StartFails(p) PROVE OneName'
    BY <1>21 DEF StartFails
<1>22. ASSUME NEW p \in Procs, Kill(p) PROVE OneName'
    BY <1>22 DEF Kill
<1>23. ASSUME NEW p \in Clockers, Signal(p) PROVE OneName'
    BY <1>23 DEF Signal
<1>25. ASSUME Tick PROVE OneName'
    BY <1>25 DEF Tick
<1>26. CASE UNCHANGED vars
    BY <1>26 DEF vars
<1> QED
    BY <1>1, <1>2, <1>3, <1>4, <1>5, <1>6, <1>7, <1>8, <1>9, <1>10,
       <1>11, <1>12, <1>13, <1>14, <1>15, <1>16, <1>17, <1>18, <1>19, <1>20,
       <1>21, <1>22, <1>23, <1>25, <1>26
    DEF Next, ServerStep, ClientStep, SummerStep, Environment

(* 20.1-Server.c:99-106 and 20.1-Client.c:70-82: a memcpy into the clock   *)
(* overlaps another or a print only between holders of two semaphores, and *)
(* only after somebody has removed the semaphore's name.                   *)
THEOREM NoTear == Spec => []NoTornAccess
<1>1. Init => OneName
    BY DEF Init, OneName
<1>2. TypeOK /\ OneHolder /\ OneName => NoTornAccess
    <2> SUFFICES ASSUME TypeOK, OneHolder, OneName,
                        NEW s \in Servers, NEW p \in Clockers, s # p,
                        pc[s] = "copy", pc[p] \in {"copy", "print"}
                 PROVE  semOf[s] # semOf[p] /\ SemUnlinked
        BY DEF NoTornAccess
    <2>1. semOf[s] # semOf[p]
        BY DEF OneHolder, InCS, Procs, Clockers
    <2>2. ~SemUnlinked => semOf[s] = semName /\ semOf[p] = semName
        BY DEF OneName, TypeOK, Procs, Clockers
    <2> QED
        BY <2>1, <2>2
<1> QED
    BY <1>1, <1>2, OneNameStep, TypeCorrect, Exclusion, PTL DEF Spec

-----------------------------------------------------------------------------
(* The creator of a clock memory maps that memory, a server past ftruncate *)
(* has given the memory it maps its page, and so has every server whose    *)
(* semaphore somebody has opened.                                          *)
Sizing ==
    /\ \A s \in Servers : pc[s] = "start" => shmOf[s] = None
    /\ \A s \in Servers : shmName = s => shmOf[s] = s
    /\ \A p \in Clockers : shmOf[p] # None => shmOf[shmOf[p]] = shmOf[p]
    /\ \A s \in Servers :
          pc[s] \in ServerLabels \ (Dead \cup {"start", "truncate"}) => shmOf[s] \in sized
    /\ \A s \in Servers : semName = s => shmOf[s] \in sized
    /\ \A p \in Procs, s \in Servers : semOf[p] = s => shmOf[s] \in sized

LEMMA SizingStep == TypeOK /\ Sizing /\ [Next]_vars => Sizing'
<1> SUFFICES ASSUME TypeOK, Sizing, [Next]_vars PROVE Sizing'
    OBVIOUS
<1> USE ClockAssumption
    DEF TypeOK, Sizing, Goto, Dead, Alive, ServerLabels, ClientLabels,
        SummerLabels, objects, locals, Procs, SemObjs, Clockers
<1>1. ASSUME NEW s \in Servers, ServerShmOpen(s) PROVE Sizing'
    BY <1>1 DEF ServerShmOpen
<1>2. ASSUME NEW s \in Servers, ServerTruncate(s) PROVE Sizing'
    BY <1>2 DEF ServerTruncate
<1>3. ASSUME NEW s \in Servers, ServerSemOpen(s) PROVE Sizing'
    BY <1>3 DEF ServerSemOpen, CreateOrOpenSem
<1>4. ASSUME NEW s \in Servers, CheckSignal(s, "cleanup") PROVE Sizing'
    BY <1>4 DEF CheckSignal
<1>5. ASSUME NEW s \in Servers, SemWait(s, "stamp") PROVE Sizing'
    BY <1>5 DEF SemWait
<1>6. ASSUME NEW s \in Servers, ServerGetTime(s) PROVE Sizing'
    BY <1>6 DEF ServerGetTime
<1>7. ASSUME NEW s \in Servers, ServerMemcpy(s) PROVE Sizing'
    BY <1>7 DEF ServerMemcpy
<1>8. ASSUME NEW p \in Clockers, SemPost(p) PROVE Sizing'
    BY <1>8 DEF SemPost
<1>9. ASSUME NEW p \in Clockers, SleepOver(p) PROVE Sizing'
    BY <1>9 DEF SleepOver
<1>10. ASSUME NEW s \in Servers, ServerShmUnlink(s) PROVE Sizing'
    BY <1>10 DEF ServerShmUnlink
<1>11. ASSUME NEW s \in Servers, ServerSemUnlink(s) PROVE Sizing'
    BY <1>11 DEF ServerSemUnlink
<1>12. ASSUME NEW c \in Clients, ClientShmOpen(c) PROVE Sizing'
    BY <1>12 DEF ClientShmOpen
<1>13. ASSUME NEW c \in Clients, ClientSemOpen(c) PROVE Sizing'
    BY <1>13 DEF ClientSemOpen
<1>14. ASSUME NEW c \in Clients, CheckSignal(c, "exited") PROVE Sizing'
    BY <1>14 DEF CheckSignal
<1>15. ASSUME NEW c \in Clients, SemWait(c, "print") PROVE Sizing'
    BY <1>15 DEF SemWait
<1>16. ASSUME NEW c \in Clients, ClientPrint(c) PROVE Sizing'
    BY <1>16 DEF ClientPrint
<1>17. ASSUME NEW u \in Summers, SummerOpen(u) PROVE Sizing'
    BY <1>17 DEF SummerOpen, CreateOrOpenSem
<1>18. ASSUME NEW u \in Summers, ThreadEnter(u) PROVE Sizing'
    BY <1>18 DEF ThreadEnter
<1>19. ASSUME NEW u \in Summers, ThreadLeave(u) PROVE Sizing'
    BY <1>19 DEF ThreadLeave
<1>20. ASSUME NEW u \in Summers, SummerUnlink(u) PROVE Sizing'
    BY <1>20 DEF SummerUnlink
<1>21. ASSUME NEW p \in Procs, StartFails(p) PROVE Sizing'
    BY <1>21 DEF StartFails
<1>22. ASSUME NEW p \in Procs, Kill(p) PROVE Sizing'
    BY <1>22 DEF Kill
<1>23. ASSUME NEW p \in Clockers, Signal(p) PROVE Sizing'
    BY <1>23 DEF Signal
<1>25. ASSUME Tick PROVE Sizing'
    BY <1>25 DEF Tick
<1>26. CASE UNCHANGED vars
    BY <1>26 DEF vars
<1> QED
    BY <1>1, <1>2, <1>3, <1>4, <1>5, <1>6, <1>7, <1>8, <1>9, <1>10,
       <1>11, <1>12, <1>13, <1>14, <1>15, <1>16, <1>17, <1>18, <1>19, <1>20,
       <1>21, <1>22, <1>23, <1>25, <1>26
    DEF Next, ServerStep, ClientStep, SummerStep, Environment

(* 20.1-Server.c:47-87, 20.1-Client.c:28-59: a client whose semaphore comes *)
(* from any server that maps the client's memory finds the memory sized,    *)
(* because a server creates the semaphore last.                             *)
THEOREM Sized == Spec => []NoUnsizedRead
<1>1. Init => Sizing
    BY ClockAssumption DEF Init, Sizing, ServerLabels, Dead, Procs, SemObjs, Clockers
<1>2. TypeOK /\ Sizing => NoUnsizedRead
    BY ClockAssumption DEF TypeOK, Sizing, NoUnsizedRead, Dead, Procs, SemObjs, Clockers
<1> QED
    BY <1>1, <1>2, SizingStep, TypeCorrect, PTL DEF Spec

-----------------------------------------------------------------------------
(* No time is later than the clock, and what a server is about to copy is  *)
(* not earlier than what it overwrites, as long as the name is in place.   *)
Timed ==
    /\ \A s \in Servers : shmTime[s] <= now /\ time_str[s] <= now
    /\ ~SemUnlinked =>
          \A s \in Servers : pc[s] = "copy" => shmTime[shmOf[s]] <= time_str[s]

\* What all steps but three leave as it is.
Untimed ==
    /\ UNCHANGED <<shmTime, time_str, now>>
    /\ SemUnlinked => SemUnlinked'
    /\ \A s \in Servers : pc'[s] = "copy" => pc[s] = "copy" /\ shmOf'[s] = shmOf[s]

LEMMA UntimedSteps ==
    ASSUME TypeOK, [Next]_vars
    PROVE  \/ Untimed
           \/ Tick
           \/ \E s \in Servers : ServerGetTime(s) \/ ServerMemcpy(s)
<1> USE ClockAssumption
    DEF TypeOK, Untimed, SemUnlinked, Goto, Dead, Alive, ServerLabels, ClientLabels,
        SummerLabels, objects, locals
<1>1. ASSUME NEW s \in Servers, ServerShmOpen(s) \/ ServerTruncate(s) PROVE Untimed
    BY <1>1 DEF ServerShmOpen, ServerTruncate
<1>2. ASSUME NEW s \in Servers, ServerSemOpen(s) PROVE Untimed
    BY <1>2 DEF ServerSemOpen, CreateOrOpenSem
<1>3. ASSUME NEW s \in Servers, CheckSignal(s, "cleanup") \/ SemWait(s, "stamp")
      PROVE  Untimed
    BY <1>3 DEF CheckSignal, SemWait
<1>4. ASSUME NEW p \in Clockers, SemPost(p) \/ SleepOver(p) \/ Signal(p) PROVE Untimed
    BY <1>4 DEF SemPost, SleepOver, Signal
<1>5. ASSUME NEW s \in Servers, ServerShmUnlink(s) \/ ServerSemUnlink(s) PROVE Untimed
    BY <1>5 DEF ServerShmUnlink, ServerSemUnlink
<1>6. ASSUME NEW c \in Clients, ClientShmOpen(c) \/ ClientSemOpen(c) \/ ClientPrint(c)
      PROVE  Untimed
    BY <1>6 DEF ClientShmOpen, ClientSemOpen, ClientPrint
<1>7. ASSUME NEW c \in Clients, CheckSignal(c, "exited") \/ SemWait(c, "print")
      PROVE  Untimed
    BY <1>7 DEF CheckSignal, SemWait
<1>8. ASSUME NEW u \in Summers, SummerOpen(u) PROVE Untimed
    BY <1>8 DEF SummerOpen, CreateOrOpenSem
<1>9. ASSUME NEW u \in Summers, SummerStep(u) PROVE Untimed
    BY <1>9 DEF SummerStep, ThreadEnter, ThreadLeave, SummerUnlink
<1>10. ASSUME NEW p \in Procs, StartFails(p) \/ Kill(p) PROVE Untimed
    BY <1>10 DEF StartFails, Kill
<1>11. CASE UNCHANGED vars
    BY <1>11 DEF vars
<1> QED
    BY <1>1, <1>2, <1>3, <1>4, <1>5, <1>6, <1>7, <1>8, <1>9, <1>10, <1>11
    DEF Next, ServerStep, ClientStep, Environment

LEMMA TimedStep == TypeOK /\ NoTornAccess /\ Timed /\ [Next]_vars => Timed'
<1> SUFFICES ASSUME TypeOK, NoTornAccess, Timed, [Next]_vars PROVE Timed'
    OBVIOUS
<1> USE DEF TypeOK, Timed
<1>1. CASE Untimed
    BY <1>1 DEF Untimed
<1>2. CASE Tick
    BY <1>2 DEF Tick, objects, locals, SemUnlinked
<1>3. ASSUME NEW s \in Servers, ServerGetTime(s) PROVE Timed'
    <2>1. shmOf[s] \in Servers
        BY <1>3 DEF ServerGetTime
    <2> QED
        BY <1>3, <2>1 DEF ServerGetTime, Goto, objects, SemUnlinked
<1>4. ASSUME NEW s \in Servers, ServerMemcpy(s) PROVE Timed'
    <2>1. \A t \in Servers \ {s} :
              ~SemUnlinked /\ pc[t] = "copy" => shmOf[t] # shmOf[s]
        BY <1>4 DEF ServerMemcpy, NoTornAccess
    <2>2. pc' = [pc EXCEPT ![s] = "post"] /\ UNCHANGED <<now, time_str, shmOf>>
        BY <1>4 DEF ServerMemcpy, Goto, locals
    <2>3. \A t \in Servers : pc'[t] = "copy" => t # s /\ pc[t] = "copy"
        BY <2>2
    <2>4. SemUnlinked' = SemUnlinked
        BY <1>4, <2>2 DEF ServerMemcpy, SemUnlinked
    <2> QED
        BY <1>4, <2>1, <2>2, <2>3, <2>4 DEF ServerMemcpy
<1> QED
    BY <1>1, <1>2, <1>3, <1>4, UntimedSteps

(* 20.1-Server.c:99-105: a server takes the time after sem_wait, so that,  *)
(* until the semaphore's name is removed, the time in a shared memory is   *)
(* never set back, whichever servers write to it.                          *)
THEOREM TimeForward == Spec => TimeNeverGoesBack
<1>1. Init => Timed
    BY DEF Init, Timed
<1>2. TypeOK /\ Timed /\ [Next]_vars
        => [~SemUnlinked => \A o \in Servers : shmTime'[o] >= shmTime[o]]_vars
    <2> SUFFICES ASSUME TypeOK, Timed, [Next]_vars, ~SemUnlinked, NEW o \in Servers
                 PROVE  shmTime'[o] >= shmTime[o]
        OBVIOUS
    <2> USE DEF TypeOK
    <2>1. CASE shmTime' = shmTime
        BY <2>1
    <2>2. ASSUME NEW s \in Servers, ServerMemcpy(s) PROVE shmTime'[o] >= shmTime[o]
        BY <2>2 DEF ServerMemcpy, Timed
    <2> QED
        BY <2>1, <2>2, UntimedSteps DEF Untimed, Tick, ServerGetTime, objects
<1> QED
    BY <1>1, <1>2, TypeCorrect, NoTear, TimedStep, PTL DEF Spec, TimeNeverGoesBack
=============================================================================
