------------------------------- MODULE Clock -------------------------------
(***************************************************************************)
(* The shared-memory clock of 20-Mmap: servers (20.1-Server.c) write the   *)
(* current time into the shared memory "/clock" under the named semaphore  *)
(* "semaphore"; clients (20.1-Client.c) print it under the same semaphore. *)
(* 19-Threads/19.3-semaphores_2.c opens, and at its end unlinks, the very  *)
(* same semaphore name, so its runs (the Summers) take part as well.       *)
(*                                                                         *)
(* A process identifier stands for one run of a program: it starts, exits  *)
(* or is killed, and a restart is another identifier.  A kernel object is  *)
(* named after the process that created it; the two registries shmName and *)
(* semName say which object the file-system name leads to at present.      *)
(***************************************************************************)
EXTENDS Naturals

CONSTANTS
    Servers,      \* runs of 20.1-Server
    Clients,      \* runs of 20.1-Client
    Summers,      \* runs of 19.3-semaphores_2
    Threads,      \* number_of_threads of a Summer
    MaxTime,      \* bound of the wall clock
    None          \* no object

ASSUME ClockAssumption ==
    /\ Servers \cap Clients = {} /\ Servers \cap Summers = {}
    /\ Clients \cap Summers = {}
    /\ None \notin Servers \cup Clients \cup Summers
    /\ Threads \in Nat \ {0} /\ MaxTime \in Nat

Clockers == Servers \cup Clients
Procs    == Clockers \cup Summers
SemObjs  == Servers \cup Summers

VARIABLES
    shmName,        \* the object "/clock" leads to
    semName,        \* the object "semaphore" leads to
    sized,          \* shared-memory objects that have their page (ftruncate)
    shmTime,        \* the time written in each shared-memory object
    semVal,         \* the value of each semaphore object
    now,            \* the wall clock, as time() returns it
    pc,             \* where each process is
    shmOf,          \* the object a clock process has mapped
    semOf,          \* the semaphore object a process has opened
    errno,          \* "EINTR" once an interrupted call left it there
    g_last_signal,  \* SIGINT or SIGTERM was caught
    time_str,       \* the time a server has formatted
    todo, inside    \* threads of a Summer before / inside the critical section

objects == <<shmName, semName, sized, shmTime, semVal>>
locals  == <<shmOf, semOf, errno, g_last_signal, time_str, todo, inside>>
vars    == <<objects, now, pc, locals>>

\* "lost": killed between sem_wait and sem_post, and the token with it.
Dead == {"exited", "failed", "killed", "lost"}
Alive(p) == pc[p] \notin Dead \cup {"start"}
Goto(p, label) == pc' = [pc EXCEPT ![p] = label]

\* In the critical section: between sem_wait and sem_post.
InCS(p) ==
    \/ pc[p] \in {"stamp", "copy", "print", "post"}
    \/ p \in Summers /\ pc[p] = "threads" /\ inside[p] > 0

Init ==
    /\ shmName = None /\ semName = None /\ sized = {}
    /\ shmTime = [o \in Servers |-> 0]
    /\ semVal = [o \in SemObjs |-> 0]
    /\ now = 1
    /\ pc = [p \in Procs |-> "start"]
    /\ shmOf = [p \in Clockers |-> None]
    /\ semOf = [p \in Procs |-> None]
    /\ errno = [p \in Clockers |-> "0"]
    /\ g_last_signal = [p \in Clockers |-> FALSE]
    /\ time_str = [s \in Servers |-> 0]
    /\ todo = [u \in Summers |-> Threads]
    /\ inside = [u \in Summers |-> 0]

-----------------------------------------------------------------------------
(* Named semaphores: sem_open(O_CREAT, 1), sem_wait, sem_post.             *)

\* Fault: the value is set to 1 again by everybody who opens the semaphore.
OpenResetsSem(p) ==
    /\ semName' = IF semName = None THEN p ELSE semName
    /\ semVal' = [semVal EXCEPT ![semName'] = 1]
    /\ semOf' = [semOf EXCEPT ![p] = semName']

\* Fault: an existing semaphore is replaced by a new one.
OpenReplacesSem(p) ==
    /\ semName' = p
    /\ semVal' = [semVal EXCEPT ![p] = 1]
    /\ semOf' = [semOf EXCEPT ![p] = p]

CreateOrOpenSem(p) ==
    /\ semName' = IF semName = None THEN p ELSE semName
    /\ semVal' = IF semName = None THEN [semVal EXCEPT ![p] = 1] ELSE semVal
    /\ semOf' = [semOf EXCEPT ![p] = semName']

TakeSem(p) ==
    /\ semVal[semOf[p]] > 0
    /\ semVal' = [semVal EXCEPT ![semOf[p]] = @ - 1]

PostSem(p) == semVal' = [semVal EXCEPT ![semOf[p]] = @ + 1]

-----------------------------------------------------------------------------
(* The server.                                                             *)

\* Fault: the page is not provided by ftruncate.
ServerShmOpenUnsized(s) ==
    /\ pc[s] = "start"
    /\ shmName' = IF shmName = None THEN s ELSE shmName
    /\ shmOf' = [shmOf EXCEPT ![s] = shmName']
    /\ Goto(s, "semopen")
    /\ UNCHANGED <<semName, sized, shmTime, semVal, now, semOf, errno,
                   g_last_signal, time_str, todo, inside>>

ServerShmOpen(s) ==
    /\ pc[s] = "start"
    /\ shmName' = IF shmName = None THEN s ELSE shmName
    /\ shmOf' = [shmOf EXCEPT ![s] = shmName']
    /\ Goto(s, "truncate")
    /\ UNCHANGED <<semName, sized, shmTime, semVal, now, semOf, errno,
                   g_last_signal, time_str, todo, inside>>

\* When ftruncate fails the name is removed, whoever created the object, and
\* mmap then fails on the closed descriptor.
ServerTruncate(s) ==
    /\ pc[s] = "truncate"
    /\ \/ /\ sized' = sized \cup {shmOf[s]}
          /\ Goto(s, "semopen")
          /\ UNCHANGED shmName
       \/ /\ shmName' = None
          /\ Goto(s, "failed")
          /\ UNCHANGED sized
    /\ UNCHANGED <<semName, shmTime, semVal, now, locals>>

ServerSemOpen(s) ==
    /\ pc[s] = "semopen"
    /\ CreateOrOpenSem(s)
    /\ Goto(s, "check")
    /\ UNCHANGED <<shmName, sized, shmTime, now, shmOf, errno, g_last_signal,
                   time_str, todo, inside>>

\* Fault: errno is cleared and the signal not looked at.
CheckSignalCleared(p, out) ==
    /\ pc[p] = "check"
    /\ errno' = [errno EXCEPT ![p] = "0"]
    /\ Goto(p, "wait")
    /\ UNCHANGED <<objects, now, shmOf, semOf, g_last_signal, time_str, todo, inside>>

\* The head of the main loop of both programs.
CheckSignal(p, out) ==
    /\ pc[p] = "check"
    /\ Goto(p, IF errno[p] = "EINTR" /\ g_last_signal[p] THEN out ELSE "wait")
    /\ UNCHANGED <<objects, now, locals>>

\* Fault: sem_trywait, its result ignored.
SemTryWait(p, next) ==
    /\ pc[p] = "wait"
    /\ TakeSem(p) \/ (semVal[semOf[p]] = 0 /\ UNCHANGED semVal)
    /\ Goto(p, next)
    /\ UNCHANGED <<shmName, semName, sized, shmTime, now, locals>>

SemWait(p, next) ==
    /\ pc[p] = "wait"
    /\ TakeSem(p)
    /\ Goto(p, next)
    /\ UNCHANGED <<shmName, semName, sized, shmTime, now, locals>>

ServerGetTime(s) ==
    /\ pc[s] = "stamp"
    /\ time_str' = [time_str EXCEPT ![s] = now]
    /\ Goto(s, "copy")
    /\ UNCHANGED <<objects, now, shmOf, semOf, errno, g_last_signal, todo, inside>>

\* The memcpy lasts as long as pc is "copy"; this is its end.
ServerMemcpy(s) ==
    /\ pc[s] = "copy"
    /\ shmTime' = [shmTime EXCEPT ![shmOf[s]] = time_str[s]]
    /\ Goto(s, "post")
    /\ UNCHANGED <<shmName, semName, sized, semVal, now, locals>>

\* Fault: a process that has caught a signal does not post.
SemPostUnlessSignalled(p) ==
    /\ pc[p] = "post"
    /\ IF g_last_signal[p] THEN UNCHANGED semVal ELSE PostSem(p)
    /\ Goto(p, "sleep")
    /\ UNCHANGED <<shmName, semName, sized, shmTime, now, locals>>

SemPost(p) ==
    /\ pc[p] = "post"
    /\ PostSem(p)
    /\ Goto(p, "sleep")
    /\ UNCHANGED <<shmName, semName, sized, shmTime, now, locals>>

SleepOver(p) ==
    /\ pc[p] = "sleep"
    /\ Goto(p, "check")
    /\ UNCHANGED <<objects, now, locals>>

ServerShmUnlink(s) ==
    /\ pc[s] = "cleanup"
    /\ shmName' = None
    /\ Goto(s, "semunlink")
    /\ UNCHANGED <<semName, sized, shmTime, semVal, now, locals>>

ServerSemUnlink(s) ==
    /\ pc[s] = "semunlink"
    /\ semName' = None
    /\ Goto(s, "exited")
    /\ UNCHANGED <<shmName, sized, shmTime, semVal, now, locals>>

-----------------------------------------------------------------------------
(* The client.                                                             *)

ClientShmOpen(c) ==
    /\ pc[c] = "start"
    /\ shmOf' = [shmOf EXCEPT ![c] = shmName]
    /\ Goto(c, IF shmName = None THEN "failed" ELSE "semopen")
    /\ UNCHANGED <<objects, now, semOf, errno, g_last_signal, time_str, todo, inside>>

ClientSemOpen(c) ==
    /\ pc[c] = "semopen"
    /\ semOf' = [semOf EXCEPT ![c] = semName]
    /\ Goto(c, IF semName = None THEN "failed" ELSE "check")
    /\ UNCHANGED <<objects, now, shmOf, errno, g_last_signal, time_str, todo, inside>>

\* Reading a page the object does not have yet kills the client (SIGBUS),
\* which then never posts.
ClientPrint(c) ==
    /\ pc[c] = "print"
    /\ Goto(c, IF shmOf[c] \in sized THEN "post" ELSE "lost")
    /\ UNCHANGED <<objects, now, locals>>

-----------------------------------------------------------------------------
(* The other users of the semaphore: the threads of 19.3-semaphores_2.     *)

SummerOpen(u) ==
    /\ pc[u] = "start"
    /\ CreateOrOpenSem(u)
    /\ Goto(u, "threads")
    /\ UNCHANGED <<shmName, sized, shmTime, now, shmOf, errno, g_last_signal,
                   time_str, todo, inside>>

\* A thread leaves early (empty interval, NaN) or enters its critical section.
ThreadEnter(u) ==
    /\ pc[u] = "threads" /\ todo[u] > 0
    /\ todo' = [todo EXCEPT ![u] = @ - 1]
    /\ \/ UNCHANGED <<semVal, inside>>
       \/ TakeSem(u) /\ inside' = [inside EXCEPT ![u] = @ + 1]
    /\ UNCHANGED <<shmName, semName, sized, shmTime, now, pc, shmOf, semOf,
                   errno, g_last_signal, time_str>>

ThreadLeave(u) ==
    /\ pc[u] = "threads" /\ inside[u] > 0
    /\ inside' = [inside EXCEPT ![u] = @ - 1]
    /\ PostSem(u)
    /\ UNCHANGED <<shmName, semName, sized, shmTime, now, pc, shmOf, semOf,
                   errno, g_last_signal, time_str, todo>>

SummerUnlink(u) ==
    /\ pc[u] = "threads" /\ todo[u] = 0 /\ inside[u] = 0
    /\ semName' = None
    /\ Goto(u, "exited")
    /\ UNCHANGED <<shmName, sized, shmTime, semVal, now, locals>>

-----------------------------------------------------------------------------
(* The environment: failing start-up calls, signals, SIGKILL, time.        *)

\* shm_open, mmap, close or sem_open returns an error.
StartFails(p) ==
    /\ pc[p] \in {"start", "semopen"}
    /\ Goto(p, "failed")
    /\ UNCHANGED <<objects, now, locals>>

\* sig_handler runs.  It was installed with SA_RESTART: sem_wait is restarted,
\* only sleep is cut short.
Signal(p) ==
    /\ Alive(p)
    /\ g_last_signal' = [g_last_signal EXCEPT ![p] = TRUE]
    /\ IF pc[p] = "sleep"
       THEN errno' = [errno EXCEPT ![p] = "EINTR"] /\ Goto(p, "check")
       ELSE UNCHANGED <<errno, pc>>
    /\ UNCHANGED <<objects, now, shmOf, semOf, time_str, todo, inside>>

Kill(p) ==
    /\ Alive(p)
    /\ Goto(p, IF InCS(p) THEN "lost" ELSE "killed")
    /\ UNCHANGED <<objects, now, locals>>

Tick ==
    /\ now < MaxTime
    /\ now' = now + 1
    /\ UNCHANGED <<objects, pc, locals>>

-----------------------------------------------------------------------------
ServerStep(s) ==
    \/ ServerTruncate(s) \/ ServerSemOpen(s) \/ CheckSignal(s, "cleanup")
    \/ SemWait(s, "stamp") \/ ServerGetTime(s) \/ ServerMemcpy(s) \/ SemPost(s)
    \/ SleepOver(s) \/ ServerShmUnlink(s) \/ ServerSemUnlink(s)

ClientStep(c) ==
    \/ ClientSemOpen(c) \/ CheckSignal(c, "exited") \/ SemWait(c, "print")
    \/ ClientPrint(c) \/ SemPost(c) \/ SleepOver(c)

SummerStep(u) == ThreadEnter(u) \/ ThreadLeave(u) \/ SummerUnlink(u)

Environment ==
    \/ \E p \in Procs : StartFails(p) \/ Kill(p)
    \/ \E p \in Clockers : Signal(p)
    \/ Tick

Next ==
    \/ \E s \in Servers : ServerShmOpen(s) \/ ServerStep(s)
    \/ \E c \in Clients : ClientShmOpen(c) \/ ClientStep(c)
    \/ \E u \in Summers : SummerOpen(u) \/ SummerStep(u)
    \/ Environment

Spec == Init /\ [][Next]_vars

\* A started process keeps running; nobody has to start, signal or kill one.
Fairness ==
    /\ \A s \in Servers : WF_vars(ServerStep(s))
    /\ \A c \in Clients : WF_vars(ClientStep(c))
    /\ \A u \in Summers : WF_vars(SummerStep(u))

FairSpec == Spec /\ Fairness

-----------------------------------------------------------------------------
ServerLabels == {"start", "truncate", "semopen", "check", "wait", "stamp",
                 "copy", "post", "sleep", "cleanup", "semunlink"} \cup Dead
ClientLabels == {"start", "semopen", "check", "wait", "print", "post",
                 "sleep"} \cup Dead
SummerLabels == {"start", "threads"} \cup Dead

(* Every variable keeps its type, every process its own program's labels,  *)
(* and a process past its start-up holds the objects it has opened.        *)
TypeOK ==
    /\ shmName \in Servers \cup {None} /\ semName \in SemObjs \cup {None}
    /\ sized \subseteq Servers
    /\ shmTime \in [Servers -> Nat] /\ semVal \in [SemObjs -> Nat] /\ now \in Nat
    /\ pc \in [Procs -> ServerLabels \cup ClientLabels \cup SummerLabels]
    /\ \A s \in Servers : pc[s] \in ServerLabels
    /\ \A c \in Clients : pc[c] \in ClientLabels
    /\ \A u \in Summers : pc[u] \in SummerLabels
    /\ shmOf \in [Clockers -> Servers \cup {None}]
    /\ semOf \in [Procs -> SemObjs \cup {None}]
    /\ errno \in [Clockers -> {"0", "EINTR"}]
    /\ g_last_signal \in [Clockers -> BOOLEAN]
    /\ time_str \in [Servers -> Nat]
    /\ todo \in [Summers -> Nat] /\ inside \in [Summers -> Nat]
    /\ \A p \in Clockers : pc[p] \notin {"start", "failed", "killed"} => shmOf[p] # None
    /\ \A p \in Procs :
          pc[p] \in {"check", "wait", "stamp", "copy", "print", "post", "sleep", "threads"}
             => semOf[p] # None

SemUnlinked == \E p \in SemObjs : pc[p] = "exited"

(* A semaphore object admits one process, and one thread of it, at a time, *)
(* however the names are unlinked and created anew and whoever is killed.  *)
OneHolder ==
    /\ \A p, q \in Procs : InCS(p) /\ InCS(q) /\ semOf[p] = semOf[q] => p = q
    /\ \A p \in Procs : InCS(p) => semVal[semOf[p]] = 0
    /\ \A o \in SemObjs : semVal[o] <= 1
    /\ \A u \in Summers : inside[u] <= 1

(* No server is in its memcpy while another process is in its memcpy or is *)
(* printing from the same memory, unless the two hold semaphores of two    *)
(* generations, which takes somebody who has unlinked the name: processes  *)
(* with one semaphore never tear the time, whatever is unlinked or killed, *)
(* and before the first unlink nobody does.                                *)
NoTornAccess ==
    \A s \in Servers, p \in Clockers :
        pc[s] = "copy" /\ pc[p] \in {"copy", "print"} /\ shmOf[s] = shmOf[p] /\ s # p
            => semOf[s] # semOf[p] /\ SemUnlinked

(* A client whose semaphore was created by a server that works on the      *)
(* client's memory, be it the memory's creator or not, never reads the     *)
(* memory before ftruncate has given it its page.  A semaphore that comes  *)
(* from 19.3-semaphores_2 or from a server of an older or newer memory     *)
(* gives no such assurance: ClientPrint then kills the client.             *)
NoUnsizedRead ==
    \A c \in Clients :
        /\ pc[c] = "print"
        /\ semOf[c] \in Servers /\ shmOf[semOf[c]] = shmOf[c]
        => shmOf[c] \in sized

(* The time in a shared memory never goes backwards, as long as the        *)
(* semaphore's name is in place: the time is taken inside the lock.        *)
TimeNeverGoesBack ==
    [][~SemUnlinked => \A o \in Servers : shmTime'[o] >= shmTime[o]]_vars

(* A signal that cuts the sleep short ends the process: nothing between    *)
(* the interrupted sleep and the exit can block.                           *)
InterruptedCallExits ==
    \A p \in Clockers : errno[p] = "EINTR" ~> pc[p] \in Dead

(* A semaphore at zero is posted again, unless somebody was killed while   *)
(* holding it: by a signal, or by SIGBUS on memory without its page.       *)
TokenComesBack ==
    \A o \in SemObjs :
        semVal[o] = 0 /\ (\E p \in Procs : semOf[p] = o)
            ~> semVal[o] > 0 \/ \E p \in Procs : semOf[p] = o /\ pc[p] = "lost"
=============================================================================
