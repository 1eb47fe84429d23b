---------------------------- MODULE Flock_proofs ----------------------------
(* Proofs about Flock: any set of runs, any starting count, any INT_MAX.   *)
EXTENDS Flock, TLAPS, FiniteSetTheorems

LEMMA IntRange ==
    /\ MaxInt \in Nat /\ MaxInt >= 12
    /\ StartCounts \subseteq 0 .. MaxInt /\ LockfResults \subseteq {0, -1}
    BY FlockAssumption, SMT

(* One run at a time has locked anything, the run that is past read knows  *)
(* the present count, and nobody is counted before its pwrite.             *)
IInv ==
    /\ locked \in [Runs -> {"all", "head", "none"}]
    /\ pc \in [Runs -> {"open", "lock", "read", "write", "unlock", "close", "ended"}]
    /\ counter \in [Runs -> Int]
    /\ \A p \in Runs : pc[p] \in {"open", "lock"} => locked[p] = "none"
    /\ \A p \in Runs : pc[p] \in {"read", "write"} => locked[p] = "all"
    /\ \A p, q \in Runs : locked[p] # "none" /\ locked[q] # "none" => p = q
    /\ \A p \in Runs : pc[p] = "write" => counter[p] = Incr(count)
    /\ \A p \in Runs : pc[p] \in {"open", "lock", "read", "write"} => p \notin counted

LEMMA InitIInv == Init => IInv
    BY DEF Init, IInv

LEMMA NextIInv ==
    ASSUME LockfResults = {0}, count \in Int, IInv, [Next]_vars PROVE IInv'
<1> USE DEF IInv, Goto, file
<1>1. ASSUME NEW p \in Runs, Open(p) PROVE IInv'
    BY <1>1 DEF Open
<1>2. ASSUME NEW p \in Runs, Lock(p) PROVE IInv'
    BY <1>2 DEF Lock
<1>3. ASSUME NEW p \in Runs, Read(p) PROVE IInv'
    <2>1. Incr(count) \in Int
        BY IntRange DEF Incr
    <2> QED
        BY <1>3, <2>1 DEF Read
<1>4. ASSUME NEW p \in Runs, Write(p) PROVE IInv'
    BY <1>4 DEF Write
<1>5. ASSUME NEW p \in Runs, Unlock(p) PROVE IInv'
    BY <1>5 DEF Unlock
<1>6. ASSUME NEW p \in Runs, Close(p) PROVE IInv'
    BY <1>6 DEF Close
<1>7. ASSUME NEW p \in Runs, Kill(p) PROVE IInv'
    BY <1>7 DEF Kill
<1>8. CASE UNCHANGED vars
    BY <1>8 DEF vars, Incr
<1> QED
    BY <1>1, <1>2, <1>3, <1>4, <1>5, <1>6, <1>7, <1>8 DEF Next

LEMMA CountIsInt ==
    /\ Init => count \in Int
    /\ count \in Int /\ IInv /\ [Next]_vars => (count \in Int)'
<1>1. Init => count \in Int
    BY IntRange DEF Init
<1>2. ASSUME count \in Int, IInv, [Next]_vars PROVE count' \in Int
    BY <1>2 DEF Next, IInv, Open, Lock, Read, Write, Unlock, Close, Kill, vars, file
<1> QED
    BY <1>1, <1>2

LEMMA Invariant == ASSUME LockfResults = {0} PROVE Spec => [](count \in Int /\ IInv)
<1>1. count \in Int /\ IInv /\ [Next]_vars => (count \in Int /\ IInv)'
    BY CountIsInt, NextIInv
<1> QED
    BY <1>1, InitIInv, CountIsInt, PTL DEF Spec

(* 11-Flock.c:47: while lockf succeeds, reading, adding and writing        *)
(* are done by the one run that has the whole file locked.                 *)
THEOREM LockedInside == ASSUME LockfResults = {0} PROVE Spec => []OnlyWhileLocked
<1>1. IInv => OnlyWhileLocked
    BY DEF IInv, OnlyWhileLocked
<1> QED
    BY <1>1, Invariant, PTL

(* 11-Flock.c:33,66-78: the file never outgrows the 13 bytes that number[] *)
(* can have, and the count stays an int, also when a lockf fails.          *)
THEOREM TypeCorrect == Spec => []TypeOK
<1> USE IntRange DEF TypeOK, BufSize, Smaller, Incr
<1>1. Init => TypeOK
    BY DEF Init, LengthAfter
<1>2. TypeOK /\ [Next]_vars => TypeOK'
    <2> SUFFICES ASSUME TypeOK, [Next]_vars PROVE TypeOK'
        OBVIOUS
    <2> USE DEF Goto, file
    <2>1. ASSUME NEW p \in Runs, Open(p) PROVE TypeOK'
        BY <2>1 DEF Open
    <2>2. ASSUME NEW p \in Runs, Lock(p) PROVE TypeOK'
        BY <2>2 DEF Lock
    <2>3. ASSUME NEW p \in Runs, Read(p) PROVE TypeOK'
        BY <2>3 DEF Read
    <2>4. ASSUME NEW p \in Runs, Write(p) PROVE TypeOK'
        BY <2>4 DEF Write, SizeOfNumber
    <2>5. ASSUME NEW p \in Runs, Unlock(p) \/ Close(p) \/ Kill(p) PROVE TypeOK'
        BY <2>5 DEF Unlock, Close, Kill
    <2>6. CASE UNCHANGED vars
        BY <2>6 DEF vars
    <2> QED
        BY <2>1, <2>2, <2>3, <2>4, <2>5, <2>6 DEF Next
<1> QED
    BY <1>1, <1>2, PTL DEF Spec

(* 11-Flock.c:44-84: any number of concurrent runs, failing or killed      *)
(* anywhere, count like an atomic counter.                                 *)
THEOREM NoLostUpdate == ASSUME LockfResults = {0} PROVE Spec => ImplementsCounter
<1>1. Init => Counter!Init
    BY IntRange DEF Init, Counter!Init
<1>2. IInv /\ [Next]_vars => [Counter!Next]_<<count, counted>>
    <2> SUFFICES ASSUME IInv, [Next]_vars
                 PROVE  Counter!Next \/ UNCHANGED <<count, counted>>
        OBVIOUS
    <2>1. ASSUME NEW p \in Runs, Write(p)
          PROVE  Counter!CountRun(p) \/ UNCHANGED <<count, counted>>
        BY <2>1 DEF Write, IInv, file, Counter!CountRun, Incr, Counter!Incr
    <2>2. ASSUME NEW p \in Runs,
                 Open(p) \/ Lock(p) \/ Read(p) \/ Unlock(p) \/ Close(p) \/ Kill(p)
          PROVE  UNCHANGED <<count, counted>>
        BY <2>2 DEF Open, Lock, Read, Unlock, Close, Kill, file
    <2>3. CASE UNCHANGED vars
        BY <2>3 DEF vars, file
    <2> QED
        BY <2>1, <2>2, <2>3 DEF Next, Counter!Next
<1> QED
    BY <1>1, <1>2, Invariant, PTL DEF Spec, ImplementsCounter, Counter!Spec

-----------------------------------------------------------------------------
(* The text of the count against the file.                                 *)

\* A file of l bytes is as long as the runs up to the count n have made it.
Grown(l, n) == IF n < 0 THEN l = BufSize + 1 ELSE l >= LengthAfter(n)

\* The file is never of one byte, and a number that is about to be written
\* makes it as long as its count asks for.
LInv ==
    /\ TypeOK
    /\ len # 1 /\ Grown(len, count)
    /\ \A p \in Runs : pc[p] = "write" => Grown(SizeOfNumber(p), counter[p])
    /\ NumberFits

(* An int has at most ten digits, and one digit or two where that matters. *)
LEMMA FewDigits ==
    ASSUME NEW n \in Int
    PROVE  /\ Digits(n) \in 1 .. 10
           /\ n \in 0 .. 9 => Digits(n) = 1
           /\ n = 10 => Digits(n) = 2
<1> DEFINE Long == {k \in 1 .. 9 : n >= Powers[k] \/ n <= -Powers[k]}
<1>1. IsFiniteSet(1 .. 9) /\ Cardinality(1 .. 9) = 9
    <2>1. 1 \in Int /\ 9 \in Int
        OBVIOUS
    <2>2. Cardinality(1 .. 9) = IF 1 > 9 THEN 0 ELSE 9 - 1 + 1
        BY <2>1, FS_Interval
    <2>3. IsFiniteSet(1 .. 9)
        BY <2>1, FS_Interval
    <2> QED
        BY <2>2, <2>3
<1>2. Cardinality(Long) \in 0 .. 9
    <2>1. Long \subseteq 1 .. 9
        OBVIOUS
    <2>2. IsFiniteSet(Long) /\ Cardinality(Long) <= 9
        BY <1>1, <2>1, FS_Subset
    <2> QED
        BY <2>2, FS_CardinalityType
<1>3. ASSUME n \in 0 .. 9 PROVE Long = {}
    BY <1>3, SMT DEF Powers
<1>4. ASSUME n = 10 PROVE Long = {1}
    BY <1>4, SMT DEF Powers
<1> HIDE DEF Long
<1>5. Cardinality({}) = 0 /\ Cardinality({1}) = 1
    BY FS_EmptySet, FS_Singleton
<1>6. Digits(n) = 1 + Cardinality(Long)
    BY DEF Digits, Long
<1> QED
    BY <1>2, <1>3, <1>4, <1>5, <1>6

(* What read and the addition make of a file that is long enough.          *)
LEMMA RoomForNext ==
    ASSUME NEW l \in 0 .. BufSize + 1, l # 1, NEW n \in -MaxInt - 1 .. MaxInt, Grown(l, n)
    PROVE  LET read == Smaller(l, BufSize)
               size == IF read > 0 THEN read + 1 ELSE 2
           IN  /\ Grown(size, Incr(n))
               /\ IF read > 0 THEN Width(Incr(n)) + 2 - size <= 0
                  ELSE Width(Incr(n)) + 2 - size = 1
<1> USE IntRange
<1> DEFINE c == Incr(n)
           read == Smaller(l, BufSize)
           size == IF read > 0 THEN read + 1 ELSE 2
<1>1. c \in Int /\ Digits(c) \in 1 .. 10
    BY FewDigits DEF Incr
<1>2. CASE n < 0 \/ n = MaxInt
    <2>1. l = 13
        BY <1>2 DEF Grown, LengthAfter, Smaller, BufSize
    <2>2. read = 12 /\ size = 13
        BY <2>1 DEF Smaller, BufSize
    <2>3. Grown(13, c)
        BY <1>1 DEF Grown, LengthAfter, Smaller, BufSize
    <2>4. Width(c) <= 11
        BY <1>1 DEF Width
    <2> HIDE DEF c, read, size
    <2>5. Width(c) \in Int
        BY <1>1 DEF Width
    <2> QED
        BY <2>2, <2>3, <2>4, <2>5 DEF c, read, size
<1>3. CASE n >= 0 /\ n # MaxInt
    <2>1. c = n + 1 /\ n \in Nat
        BY <1>3 DEF Incr
    <2>2. l >= LengthAfter(n)
        BY <1>3 DEF Grown
    <2>3. Grown(size, n + 1)
        BY <2>1, <2>2 DEF Grown, LengthAfter, Smaller, BufSize
    <2>4. ASSUME read > 0 PROVE Digits(c) + 2 <= size
        <3>1. CASE n + 1 \in 0 .. 9
            BY <1>1, <2>1, <2>2, <2>4, <3>1, FewDigits DEF LengthAfter, Smaller, BufSize
        <3>2. CASE n + 1 = 10
            BY <1>1, <2>1, <2>2, <2>4, <3>2, FewDigits DEF LengthAfter, Smaller, BufSize
        <3>3. CASE n + 1 > 10
            BY <1>1, <2>1, <2>2, <2>4, <3>3 DEF LengthAfter, Smaller, BufSize
        <3> QED
            BY <2>1, <3>1, <3>2, <3>3
    <2>5. Width(c) = Digits(c)
        BY <1>1, <2>1 DEF Width
    <2>6. ASSUME read = 0 PROVE Digits(c) = 1 /\ size = 2
        <3>1. l = 0
            BY <2>6 DEF Smaller, BufSize
        <3>2. n = 0
            BY <2>1, <2>2, <3>1 DEF LengthAfter, Smaller, BufSize
        <3> QED
            BY <2>1, <2>6, <3>2, FewDigits
    <2>7. read \in Nat /\ size \in Nat
        BY DEF Smaller, BufSize
    <2> HIDE DEF c, read, size
    <2>8. IF read > 0 THEN Width(c) + 2 - size <= 0 ELSE Width(c) + 2 - size = 1
        BY <1>1, <2>4, <2>5, <2>6, <2>7
    <2> QED
        BY <2>1, <2>3, <2>8 DEF c, read, size
<1> QED
    BY <1>2, <1>3

LEMMA InitLInv == Init => LInv
    BY IntRange
    DEF Init, LInv, TypeOK, Grown, NumberFits, LengthAfter, Smaller, BufSize

LEMMA NextLInv == LInv /\ TypeOK' /\ [Next]_vars => LInv'
<1> SUFFICES ASSUME LInv, TypeOK', [Next]_vars PROVE LInv'
    OBVIOUS
<1>1. TypeOK /\ TypeOK'
    BY DEF LInv
\* Steps of a run that does not come to write and leaves the file alone.
<1>2. ASSUME NEW p \in Runs, UNCHANGED <<file, bytes_read, counter>>,
             NEW label, label # "write", pc' = [pc EXCEPT ![p] = label]
      PROVE  LInv'
    BY <1>1, <1>2 DEF LInv, TypeOK, file, NumberFits, Overrun, SizeOfNumber
<1>3. ASSUME NEW p \in Runs, Read(p) PROVE LInv'
    <2>1. CASE pc' = [pc EXCEPT ![p] = "unlock"]
        BY <1>2, <1>3, <2>1 DEF Read, LInv, TypeOK, Goto, file, NumberFits, Overrun, SizeOfNumber
    <2>2. CASE pc' = [pc EXCEPT ![p] = "write"]
        <3>1. /\ bytes_read' = [bytes_read EXCEPT ![p] = Smaller(len, BufSize)]
              /\ counter' = [counter EXCEPT ![p] = Incr(count)]
              /\ UNCHANGED <<len, count>>
            BY <1>1, <1>3, <2>2 DEF Read, TypeOK, Goto, file
        <3>2. /\ bytes_read'[p] = Smaller(len, BufSize) /\ counter'[p] = Incr(count)
              /\ \A q \in Runs \ {p} : /\ bytes_read'[q] = bytes_read[q]
                                       /\ counter'[q] = counter[q] /\ pc'[q] = pc[q]
            BY <1>1, <2>2, <3>1 DEF TypeOK
        <3>3. /\ Grown(SizeOfNumber(p)', counter'[p])
              /\ IF bytes_read'[p] > 0 THEN Overrun(p)' <= 0 ELSE Overrun(p)' = 1
            BY <1>1, <3>2, RoomForNext DEF LInv, TypeOK, Overrun, SizeOfNumber
        <3>4. \A q \in Runs \ {p} : pc'[q] = "write" =>
                  /\ Grown(SizeOfNumber(q)', counter'[q])
                  /\ IF bytes_read'[q] > 0 THEN Overrun(q)' <= 0 ELSE Overrun(q)' = 1
            BY <3>2 DEF LInv, NumberFits, Overrun, SizeOfNumber
        <3> QED
            BY <1>1, <3>1, <3>3, <3>4 DEF LInv, NumberFits
    <2> QED
        BY <1>3, <2>1, <2>2 DEF Read, Goto
<1>4. ASSUME NEW p \in Runs, Write(p) PROVE LInv'
    <2>1. pc' = [pc EXCEPT ![p] = "unlock"] /\ UNCHANGED <<bytes_read, counter>>
        BY <1>4 DEF Write, Goto
    <2>2. CASE UNCHANGED file
        BY <1>2, <2>1, <2>2
    <2>3. CASE /\ count' = counter[p]
               /\ len' = IF len < SizeOfNumber(p) THEN SizeOfNumber(p) ELSE len
        <3>1. Grown(SizeOfNumber(p), counter[p])
            BY <1>4 DEF Write, LInv
        <3>2. SizeOfNumber(p) \in 2 .. 13 /\ len \in 0 .. 13 /\ counter[p] \in Int
            BY <1>1, IntRange DEF TypeOK, SizeOfNumber, BufSize
        <3>3. Grown(len', count') /\ len' # 1
            BY <2>3, <3>1, <3>2 DEF Grown, LengthAfter, Smaller, BufSize, LInv
        <3> QED
            BY <1>1, <2>1, <3>3 DEF LInv, TypeOK, NumberFits, Overrun, SizeOfNumber
    <2> QED
        BY <1>4, <2>2, <2>3 DEF Write
<1>5. ASSUME NEW p \in Runs, Open(p) \/ Lock(p) \/ Unlock(p) \/ Close(p) \/ Kill(p)
      PROVE  LInv'
    BY <1>2, <1>5 DEF Open, Lock, Unlock, Close, Kill, Goto
<1>6. CASE UNCHANGED vars
    BY <1>6 DEF vars, file, LInv, TypeOK, NumberFits, Overrun, SizeOfNumber
<1> QED
    BY <1>3, <1>4, <1>5, <1>6 DEF Next

(* 11-Flock.c:66-72: also when a lockf fails and an increment is lost, the *)
(* text of the number fits the array that is sized by the old text, for    *)
(* any set of runs, any starting count and past the end of int, whenever   *)
(* there was an old text; a run that has found the file empty overruns its *)
(* array by one byte, always.                                              *)
THEOREM NumberRoom == Spec => []NumberFits
<1>1. LInv => NumberFits
    BY DEF LInv
<1> QED
    BY <1>1, TypeCorrect, InitLInv, NextLInv, PTL DEF Spec
=============================================================================
