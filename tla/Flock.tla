------------------------------- MODULE Flock -------------------------------
(***************************************************************************)
(* 11-Flock/11-Flock.c: every run of the program reads the number in the   *)
(* file FLOCK_FILE_COUNTER.txt, adds one, prints and writes it back, under *)
(* a record lock.  The lock covers the file from the offset at the time of *)
(* the call: lockf(F_LOCK) comes at offset 0, lockf(F_ULOCK) after a read. *)
(*                                                                         *)
(* The file is its length and the number at its start: runs only make it   *)
(* longer, with zero bytes.                                                *)
(***************************************************************************)
EXTENDS Integers, FiniteSets

CONSTANTS
    Runs,          \* runs of the program, under one user
    StartCounts,   \* how often it may have been run before
    MaxInt,        \* INT_MAX: at least 16 bits, here 32
    LockfResults   \* what lockf(F_LOCK) may return: 0, or -1 (ENOLCK)

ASSUME FlockAssumption ==
    /\ MaxInt \in Nat /\ 32767 <= MaxInt /\ MaxInt <= 2147483647
    /\ StartCounts \subseteq 0 .. MaxInt
    /\ LockfResults \subseteq {0, -1}

BufSize == 12   \* sizeof("99999999999")

VARIABLES
    len, count,    \* the length of the file, the number in it
    counted,       \* runs whose pwrite has succeeded
    pc,            \* where each run is
    locked,        \* the part of the file each run has locked
    bytes_read,    \* what read returned
    counter        \* the number the run prints

file == <<len, count, counted>>
vars == <<file, pc, locked, bytes_read, counter>>

Smaller(a, b) == IF a < b THEN a ELSE b

\* The text the first n runs leave: one byte longer after each, until a read
\* no longer sees all of it.
LengthAfter(n) == IF n = 0 THEN 0 ELSE Smaller(n, BufSize) + 1

Init ==
    /\ count \in StartCounts
    /\ len = LengthAfter(count)
    /\ counted = {}
    /\ pc = [p \in Runs |-> "open"]
    /\ locked = [p \in Runs |-> "none"]
    /\ bytes_read = [p \in Runs |-> 0]
    /\ counter = [p \in Runs |-> 1]

Goto(p, label) == pc' = [pc EXCEPT ![p] = label]

-----------------------------------------------------------------------------
Open(p) ==
    /\ pc[p] = "open"
    /\ Goto(p, "lock") \/ Goto(p, "ended")
    /\ UNCHANGED <<file, locked, bytes_read, counter>>

\* Fault: the file is locked only if another run does not read it already.
LockIfFree(p) ==
    /\ pc[p] = "lock"
    /\ locked' = [locked EXCEPT ![p] =
                     IF \A q \in Runs : locked[q] = "none" THEN "all" ELSE @]
    /\ Goto(p, "read")
    /\ UNCHANGED <<file, bytes_read, counter>>

\* The result of lockf is not looked at.
Lock(p) ==
    /\ pc[p] = "lock"
    /\ \E result \in LockfResults :
          IF result = 0
          THEN /\ \A q \in Runs \ {p} : locked[q] = "none"
               /\ locked' = [locked EXCEPT ![p] = "all"]
          ELSE UNCHANGED locked
    /\ Goto(p, "read")
    /\ UNCHANGED <<file, bytes_read, counter>>

Incr(n) == IF n = MaxInt THEN -MaxInt - 1 ELSE n + 1

\* Fault: the lock is given back as soon as the file has been read.
ReadThenUnlock(p) ==
    /\ pc[p] = "read"
    /\ bytes_read' = [bytes_read EXCEPT ![p] = Smaller(len, BufSize)]
    /\ counter' = [counter EXCEPT ![p] = Incr(count)]
    /\ locked' = [locked EXCEPT ![p] =
                     IF @ = "all" /\ bytes_read'[p] > 0 THEN "head" ELSE "none"]
    /\ Goto(p, "write")
    /\ UNCHANGED file

\* read(), and the count taken from the text; an error leaves the offset at 0.
Read(p) ==
    /\ pc[p] = "read"
    /\ \/ /\ bytes_read' = [bytes_read EXCEPT ![p] = Smaller(len, BufSize)]
          /\ counter' = [counter EXCEPT ![p] = Incr(count)]
          /\ Goto(p, "write")
       \/ Goto(p, "unlock") /\ UNCHANGED <<bytes_read, counter>>
    /\ UNCHANGED <<file, locked>>

\* Fault: no room for the zero byte.
SizeWithoutZero(p) == IF bytes_read[p] > 0 THEN bytes_read[p] ELSE 2

SizeOfNumber(p) == IF bytes_read[p] > 0 THEN bytes_read[p] + 1 ELSE 2

Write(p) ==
    /\ pc[p] = "write"
    /\ \/ /\ count' = counter[p] /\ counted' = counted \cup {p}
          /\ len' = IF len < SizeOfNumber(p) THEN SizeOfNumber(p) ELSE len
       \/ UNCHANGED file
    /\ Goto(p, "unlock")
    /\ UNCHANGED <<locked, bytes_read, counter>>

\* The offset is now past the bytes that were read: those stay locked.
Unlock(p) ==
    /\ pc[p] = "unlock"
    /\ locked' = [locked EXCEPT ![p] =
                     IF @ = "all" /\ bytes_read[p] > 0 THEN "head" ELSE "none"]
    /\ Goto(p, "close")
    /\ UNCHANGED <<file, bytes_read, counter>>

Close(p) ==
    /\ pc[p] = "close"
    /\ locked' = [locked EXCEPT ![p] = "none"]
    /\ Goto(p, "ended")
    /\ UNCHANGED <<file, bytes_read, counter>>

\* The kernel releases what a killed process has locked.
Kill(p) ==
    /\ pc[p] # "ended"
    /\ locked' = [locked EXCEPT ![p] = "none"]
    /\ Goto(p, "ended")
    /\ UNCHANGED <<file, bytes_read, counter>>

Next == \E p \in Runs :
    Open(p) \/ Lock(p) \/ Read(p) \/ Write(p) \/ Unlock(p) \/ Close(p) \/ Kill(p)

Spec == Init /\ [][Next]_vars

-----------------------------------------------------------------------------
(* Types and bounds; the file never outgrows what the next read needs.     *)
TypeOK ==
    /\ len \in 0 .. BufSize + 1 /\ count \in -MaxInt - 1 .. MaxInt
    /\ counted \subseteq Runs
    /\ pc \in [Runs -> {"open", "lock", "read", "write", "unlock", "close", "ended"}]
    /\ locked \in [Runs -> {"all", "head", "none"}]
    /\ bytes_read \in [Runs -> 0 .. BufSize]
    /\ counter \in [Runs -> -MaxInt - 1 .. MaxInt]

(* 11-Flock.c:44-84: read, add and write act as one atomic increment, also *)
(* when runs fail or are killed half-way: no update is lost.               *)
Counter == INSTANCE RunCounter
ImplementsCounter == Counter!Spec

\* How many characters %d makes of an int.
Powers == <<10, 100, 1000, 10000, 100000, 1000000, 10000000, 100000000, 1000000000>>
Digits(n) == 1 + Cardinality({k \in 1 .. 9 : n >= Powers[k] \/ n <= -Powers[k]})
Width(n) == Digits(n) + IF n < 0 THEN 1 ELSE 0

Overrun(p) == Width(counter[p]) + 2 - SizeOfNumber(p)

(* 11-Flock.c:66-72: the text "%d\n" and its zero byte fit in number[]     *)
(* whenever there was something to read: the file grows faster than the    *)
(* number in it, and has its 13 bytes long before the number gets a sign.  *)
(* A run that finds the file empty, which is the very first one and again  *)
(* the next if that one never came to write, overruns number[2] with "1\n" *)
(* and its zero byte, by that one byte and no more.                        *)
NumberFits ==
    \A p \in Runs : pc[p] = "write" =>
        IF bytes_read[p] > 0 THEN Overrun(p) <= 0 ELSE Overrun(p) = 1

(* 11-Flock.c:47: "The code executed only while file locked by THIS        *)
(* program".                                                               *)
OnlyWhileLocked ==
    \A p \in Runs : pc[p] \in {"read", "write"} =>
        locked[p] = "all" /\ \A q \in Runs \ {p} : locked[q] = "none"
=============================================================================
