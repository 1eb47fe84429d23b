---------------------------- MODULE Files_proofs ----------------------------
(* Proofs about Copy, for originals and blocks of any size, and about      *)
(* Listing, for trees, records and buffers of any size.                    *)
EXTENDS Copy, Listing, SequenceTheorems, TLAPS

-----------------------------------------------------------------------------
(* The copies of a file.                                                   *)

\* Where in the original the block begins that is being written.
Base == IF program = "pos" THEN offset ELSE offset - Len(buf)

Shape ==
    /\ program \in Programs
    /\ length \in Nat /\ sb_size \in Nat /\ offset \in Nat /\ bytes_written \in Nat
    /\ buf \in Seq(Nat) /\ copy \in Seq(Nat)
    /\ sb_size <= length /\ offset <= length
    /\ result \in {0, -1}
    /\ pc \in {"open", "read", "write", "fchown", "fchmod", "futimens", "close", "exited"}

\* The copy ends where the next byte comes from, and the block that is being
\* written is the part of the original that follows Base.
Aligned ==
    /\ pc = "open" => Len(copy) = 0 /\ offset = 0
    /\ pc = "read" => Len(copy) = offset
    /\ pc = "write" =>
          /\ Base \in Nat /\ Base + Len(buf) <= length
          /\ bytes_written <= Len(buf)
          /\ Len(copy) = Base + bytes_written
          /\ \A i \in 1 .. Len(buf) : buf[i] = Base + i

Complete ==
    pc \in {"fchown", "fchmod", "futimens", "close", "exited"} /\ result = 0 =>
        Len(copy) >= sb_size

IInv == Shape /\ Aligned /\ AlwaysPrefix /\ Complete

\* What copying_all has set by the time it reaches each call, unless it has
\* already noted a failure.
AttributesSoFar ==
    result = 0 /\ program = "all" =>
        /\ pc \in {"fchmod", "futimens", "close", "exited"} => owner = "old"
        /\ pc \in {"futimens", "close", "exited"} => mode = "old"
        /\ pc \in {"close", "exited"} => mtime = "old"

\* A block that has been read, as a sequence.
LEMMA BlockIsSeq ==
    ASSUME NEW k \in Nat, NEW n \in Nat
    PROVE  /\ [i \in 1 .. n |-> k + i] \in Seq(Nat)
           /\ Len([i \in 1 .. n |-> k + i]) = n
    OBVIOUS

\* Data written where the copy ends is appended to it.
LEMMA OverwriteAppends ==
    ASSUME copy \in Seq(Nat), NEW data \in Seq(Nat)
    PROVE  LET new == Overwrite(Len(copy), data)
           IN  /\ new \in Seq(Nat)
               /\ Len(new) = Len(copy) + Len(data)
               /\ \A i \in 1 .. Len(copy) : new[i] = copy[i]
               /\ \A i \in 1 .. Len(data) : new[Len(copy) + i] = data[i]
<1>1. Len(copy) \in Nat /\ Len(data) \in Nat
    OBVIOUS
<1>2. PICK m \in Nat, n \in Nat : m = Len(copy) /\ n = Len(data)
    BY <1>1
<1> DEFINE Byte(i) == IF m < i /\ i <= m + n THEN data[i - m] ELSE copy[i]
           new == [i \in 1 .. m + n |-> Byte(i)]
<1>3. Overwrite(Len(copy), data) = new
    <2>1. (IF m + n > m THEN m + n ELSE m) = m + n
        OBVIOUS
    <2> QED
        BY <1>2, <2>1 DEF Overwrite
<1>4. /\ \A i \in 1 .. m : copy[i] \in Nat
      /\ \A i \in 1 .. n : data[i] \in Nat
    BY <1>2
<1>5. \A i \in 1 .. m + n : Byte(i) \in Nat
    <2> TAKE i \in 1 .. m + n
    <2>1. CASE m < i
        <3>1. i - m \in 1 .. n
            BY <2>1
        <3> QED
            BY <1>4, <2>1, <3>1
    <2>2. CASE ~(m < i)
        BY <1>4, <2>2
    <2> QED
        BY <2>1, <2>2
<1>6. /\ \A i \in 1 .. m : Byte(i) = copy[i]
      /\ \A i \in 1 .. n : Byte(m + i) = data[i]
    OBVIOUS
<1> HIDE DEF Byte
<1>7. new \in Seq(Nat) /\ Len(new) = m + n
    BY <1>5
<1>8. /\ \A i \in 1 .. m : new[i] = copy[i]
      /\ \A i \in 1 .. n : new[m + i] = data[i]
    BY <1>6
<1> QED
    BY <1>2, <1>3, <1>7, <1>8

\* What one write adds to a copy that ends at its position.
LEMMA WriteExtends ==
    ASSUME Shape, bytes_written <= Len(buf), Position = Len(copy),
           NEW n \in 1 .. Len(buf) - bytes_written
    PROVE  LET new == Overwrite(Position, SubSeq(buf, bytes_written + 1, bytes_written + n))
           IN  /\ new \in Seq(Nat)
               /\ Len(new) = Len(copy) + n
               /\ \A i \in 1 .. Len(copy) : new[i] = copy[i]
               /\ \A i \in 1 .. n : new[Len(copy) + i] = buf[bytes_written + i]
<1> DEFINE data == SubSeq(buf, bytes_written + 1, bytes_written + n)
<1>1. data \in Seq(Nat) /\ Len(data) = n
    BY DEF Shape
<1>2. \A i \in 1 .. n : data[i] = buf[bytes_written + i]
    BY <1>1 DEF Shape
<1>3. copy \in Seq(Nat)
    BY DEF Shape
<1> HIDE DEF data
<1> QED
    BY <1>1, <1>2, <1>3, OverwriteAppends, ZenonT(40) DEF data

LEMMA InitIInv == Init => IInv
    BY CopyAssumption
    DEF Init, IInv, Shape, Aligned, AlwaysPrefix, Complete, Base

LEMMA NextIInv == IInv /\ [Next]_vars => IInv'
<1> SUFFICES ASSUME IInv, [Next]_vars PROVE IInv'
    OBVIOUS
<1> USE CopyAssumption
    DEF IInv, Shape, Aligned, AlwaysPrefix, Complete, Base, reading, attributes,
        Programs
<1>1. CASE OpenFiles
    BY <1>1 DEF OpenFiles
<1>2. CASE Read
    <2>1. CASE pc' = "write"
        <3>1. PICK n \in 1 .. BLCSZ :
                 /\ offset + n <= length
                 /\ buf' = [i \in 1 .. n |-> offset + i]
                 /\ offset' = IF program = "pos" THEN offset ELSE offset + n
                 /\ bytes_written' = 0
            BY <1>2, <2>1 DEF Read, AfterData
        <3>2. buf' \in Seq(Nat) /\ Len(buf') = n
            BY <3>1, BlockIsSeq
        <3>3. Base' = offset
            BY <1>2, <3>1, <3>2 DEF Read
        <3>4. \A i \in 1 .. n : buf'[i] = offset + i
            BY <3>1
        <3>5. UNCHANGED <<program, sb_size, length, copy, result>> /\ Len(copy) = offset
            BY <1>2, <2>1 DEF Read, AfterData
        <3> HIDE DEF Base
        <3> QED
            BY <2>1, <3>1, <3>2, <3>3, <3>4, <3>5
    <2>2. CASE pc' # "write"
        BY <1>2, <2>2 DEF Read, AfterData
    <2> QED
        BY <2>1, <2>2
<1>3. CASE Write
    <2>1. Position = Len(copy)
        BY <1>3 DEF Write, Position
    <2>2. PICK n \in 1 .. Len(buf) - bytes_written :
             /\ copy' = Overwrite(Position, SubSeq(buf, bytes_written + 1, bytes_written + n))
             /\ bytes_written' = bytes_written + n
        BY <1>3 DEF Write
    <2>3. /\ copy' \in Seq(Nat)
          /\ Len(copy') = Len(copy) + n
          /\ \A i \in 1 .. Len(copy) : copy'[i] = copy[i]
          /\ \A i \in 1 .. n : copy'[Len(copy) + i] = buf[bytes_written + i]
        BY <1>3, <2>1, <2>2, WriteExtends DEF Write
    <2>4. /\ pc = "write" /\ pc' = "write" /\ Base' = Base
          /\ UNCHANGED <<program, sb_size, length, offset, buf, result>>
        BY <1>3 DEF Write
    <2>5. /\ Len(copy) \in Nat /\ Len(buf) \in Nat /\ n \in Nat /\ n >= 1
          /\ bytes_written \in Nat /\ bytes_written + n <= Len(buf)
          /\ Base \in Nat /\ Base + Len(buf) <= length /\ length \in Nat
          /\ Len(copy) = Base + bytes_written
        BY <2>2, <2>4
    <2>6. /\ \A i \in 1 .. Len(buf) : buf[i] = Base + i
          /\ \A i \in 1 .. Len(copy) : copy[i] = i
        BY <2>4
    <2>7. Shape
        OBVIOUS
    <2> HIDE DEF IInv, Shape, Aligned, AlwaysPrefix, Complete, Base
    <2>8. \A i \in 1 .. Len(copy') : copy'[i] = i
        <3>1. SUFFICES ASSUME NEW i \in 1 .. Len(copy) + n PROVE copy'[i] = i
            BY <2>3
        <3>2. CASE i <= Len(copy)
            BY <2>3, <2>5, <2>6, <3>2
        <3>3. CASE i > Len(copy)
            <4>1. PICK j \in 1 .. n : i = Len(copy) + j
                <5>1. i - Len(copy) \in 1 .. n /\ i = Len(copy) + (i - Len(copy))
                    BY <2>5, <3>3
                <5> QED
                    BY <5>1
            <4>2. copy'[i] = buf[bytes_written + j]
                BY <2>3, <4>1
            <4>3. bytes_written + j \in 1 .. Len(buf)
                BY <2>5, <4>1
            <4>4. buf[bytes_written + j] = Base + (bytes_written + j)
                BY <2>6, <4>3
            <4> QED
                BY <2>5, <4>1, <4>2, <4>4
        <3> QED
            BY <2>5, <3>2, <3>3
    <2>9. Shape'
        BY <2>2, <2>3, <2>4, <2>5, <2>7 DEF Shape
    <2>10. Aligned'
        BY <2>2, <2>3, <2>4, <2>5, <2>6 DEF Aligned
    <2>11. AlwaysPrefix'
        BY <2>3, <2>4, <2>5, <2>8 DEF AlwaysPrefix
    <2>12. Complete'
        BY <2>4 DEF Complete
    <2> QED
        BY <2>9, <2>10, <2>11, <2>12 DEF IInv
<1>4. CASE WriteFails
    BY <1>4 DEF WriteFails, AfterData
<1>5. CASE BlockDone
    BY <1>5 DEF BlockDone
<1>6. CASE Fchown
    BY <1>6 DEF Fchown
<1>7. CASE Fchmod
    BY <1>7 DEF Fchmod
<1>8. CASE Futimens
    BY <1>8 DEF Futimens
<1>9. CASE CloseFiles
    BY <1>9 DEF CloseFiles
<1>10. CASE Grow
    BY <1>10 DEF Grow
<1>11. CASE UNCHANGED vars
    BY <1>11 DEF vars
<1> QED
    BY <1>1, <1>2, <1>3, <1>4, <1>5, <1>6, <1>7, <1>8, <1>9, <1>10, <1>11
    DEF Next, Step

LEMMA Invariant == Spec => []IInv
    BY InitIInv, NextIInv, PTL DEF Spec

(* util.c:3-48, 352-400: for any file and block size, short and failing    *)
(* reads and writes never leave a gap, a repeat or a foreign byte behind.  *)
THEOREM PrefixAlways == Spec => []AlwaysPrefix
    BY Invariant, PTL DEF IInv

(* An exit status of 0 is never reported for a truncated copy.             *)
THEOREM NoSilentTruncation == Spec => []CompleteOnSuccess
<1>1. IInv => CompleteOnSuccess
    BY DEF IInv, Complete, CompleteOnSuccess
<1> QED
    BY <1>1, Invariant, PTL

(* util.c:79-98: nor for a copy whose owner, mode or times are not those   *)
(* of the original, in whichever of the three calls the failure was.       *)
THEOREM NoSilentAttributeLoss == Spec => []AttributesOnSuccess
<1> USE DEF AttributesSoFar, AfterData, attributes
<1>1. Init => AttributesSoFar
    BY DEF Init
<1>2. AttributesSoFar /\ [Next]_vars => AttributesSoFar'
    <2> SUFFICES ASSUME AttributesSoFar, [Next]_vars PROVE AttributesSoFar'
        OBVIOUS
    <2>1. CASE OpenFiles
        BY <2>1 DEF OpenFiles
    <2>2. CASE Read
        BY <2>2 DEF Read
    <2>3. CASE Write
        BY <2>3 DEF Write
    <2>4. CASE WriteFails
        BY <2>4 DEF WriteFails
    <2>5. CASE BlockDone
        BY <2>5 DEF BlockDone
    <2>6. CASE Fchown
        BY <2>6 DEF Fchown
    <2>7. CASE Fchmod
        BY <2>7 DEF Fchmod
    <2>8. CASE Futimens
        BY <2>8 DEF Futimens
    <2>9. CASE CloseFiles
        BY <2>9 DEF CloseFiles
    <2>10. CASE Grow
        BY <2>10 DEF Grow
    <2>11. CASE UNCHANGED vars
        BY <2>11 DEF vars
    <2> QED
        BY <2>1, <2>2, <2>3, <2>4, <2>5, <2>6, <2>7, <2>8, <2>9, <2>10, <2>11
        DEF Next, Step
<1>3. AttributesSoFar => AttributesOnSuccess
    BY DEF AttributesOnSuccess
<1> QED
    BY <1>1, <1>2, <1>3, PTL DEF Spec

\* The block that was read last is of bytes the original has.
Block ==
    /\ length <= MaxLength
    /\ buf \in Seq(1 .. length) /\ Len(buf) <= BLCSZ
    /\ bytes_written <= Len(buf)
    /\ {owner, mode, mtime} \subseteq {"old", "new"}

(* util.c:3-48, 352-400: no block is larger than the buffer, none holds a  *)
(* byte that the original does not have, and no more of it is written than *)
(* was read.                                                               *)
THEOREM TypeCorrect == Spec => []TypeOK
<1> USE CopyAssumption
<1>1. Init => Block
    BY DEF Init, Block
<1>2. IInv /\ Block /\ [Next]_vars => Block'
    <2> SUFFICES ASSUME IInv, Block, [Next]_vars PROVE Block'
        OBVIOUS
    <2>1. length \in Nat /\ offset \in Nat /\ bytes_written \in Nat
        BY DEF IInv, Shape
    <2> USE DEF Block, reading, attributes
    <2>2. CASE Read
        <3>1. ASSUME NEW n \in 1 .. BLCSZ, offset + n <= length,
                     buf' = [i \in 1 .. n |-> offset + i], bytes_written' = 0,
                     UNCHANGED <<length, attributes>>
              PROVE  Block'
            <4>1. \A i \in 1 .. n : offset + i \in 1 .. length
                BY <2>1, <3>1
            <4>2. buf' \in Seq(1 .. length) /\ Len(buf') = n
                BY <3>1, <4>1
            <4> QED
                BY <3>1, <4>2
        <3> QED
            BY <2>2, <3>1 DEF Read
    <2>3. CASE Write
        <3>1. PICK n \in 1 .. Len(buf) - bytes_written : bytes_written' = bytes_written + n
            BY <2>3 DEF Write
        <3>2. Len(buf) \in Nat
            OBVIOUS
        <3>3. bytes_written + n <= Len(buf)
            BY <2>1, <3>1, <3>2
        <3> QED
            BY <2>3, <3>1, <3>3 DEF Write
    <2>4. CASE Grow
        <3>1. buf \in Seq(1 .. length + 1) /\ length + 1 <= MaxLength
            BY <2>1, <2>4 DEF Grow
        <3> QED
            BY <2>4, <3>1 DEF Grow
    <2>5. CASE OpenFiles \/ WriteFails \/ BlockDone \/ CloseFiles
        BY <2>5 DEF OpenFiles, WriteFails, BlockDone, CloseFiles
    <2>6. CASE Fchown \/ Fchmod \/ Futimens
        BY <2>6 DEF Fchown, Fchmod, Futimens
    <2>7. CASE UNCHANGED vars
        BY <2>7 DEF vars
    <2> QED
        BY <2>2, <2>3, <2>4, <2>5, <2>6, <2>7 DEF Next, Step
<1>3. IInv /\ Block => TypeOK
    BY DEF IInv, Shape, Block, TypeOK
<1> QED
    BY <1>1, <1>2, <1>3, Invariant, PTL DEF Spec

-----------------------------------------------------------------------------
(* The listings of directory 06.                                           *)
ListFrames == [dir : Dirs, read : Nat]

\* The calls that have not returned.
Stacked(s) ==
    /\ s \in Seq(ListFrames)
    /\ \A i \in 1 .. Len(s) : s[i].read <= Len(Children[s[i].dir])

ListShape ==
    /\ lister \in {"06.1", "06.2", "06.3", "06.4"} /\ root \in Roots
    /\ place \in {"open", "loop", "entry", "nested", "batch", "done", "failed"}
    /\ Stacked(stack)
    /\ errno \in BOOLEAN /\ bufstart \in Nat /\ pos \in Nat /\ failures \in Nat
    /\ printed \in Seq(Entries)

\* Where the program is, and what that says of its variables; an entry is only
\* looked at if no call has failed.
Where ==
    /\ errno <=> failures > 0
    /\ place = "open" =>
          stack = <<>> /\ printed = <<>> /\ bufstart = 0 /\ pos = 0 /\ failures = 0
    /\ place \in {"loop", "entry", "nested", "batch"} => Len(stack) > 0
    /\ place \in {"entry", "nested"} => failures = 0 /\ lister # "06.3" /\ Top.read > 0
    /\ place = "nested" => IsDir(Entry)
    /\ place = "batch" => lister = "06.3"
    /\ place = "failed" => failures > 0

\* What is still to come of a directory after its first n entries.
Rest(d, n) ==
    IF lister = "06.4" THEN From[<<d, n>>]
    ELSE SubSeq(Children[d], n + 1, Len(Children[d]))

Within(e) == IF IsDir(e) THEN Rest(e, 0) ELSE <<>>

\* What is still to come of the entry that has been read.
Pending ==
    CASE place = "entry"  -> <<Entry>> \o Within(Entry)
      [] place = "nested" -> Within(Entry)
      [] OTHER            -> <<>>

\* rest[i]: what the i outermost calls have still to print.
Planned(rest) ==
    /\ rest[0] = <<>>
    /\ \A i \in 1 .. Len(stack) : rest[i] = Rest(stack[i].dir, stack[i].read) \o rest[i - 1]
    /\ Whole = printed \o (Pending \o rest[Len(stack)])

ByReaddir ==
    lister # "06.3" =>
        /\ \E rest \in Seq(Entries) : Whole = printed \o rest
        /\ place # "open" /\ failures = 0 => \E rest \in [Nat -> Seq(Entries)] : Planned(rest)
        /\ place = "done" /\ failures = 0 => stack = <<>>

\* 06.3 has one frame, the directory's.
OneFrame ==
    lister = "06.3" /\ place \notin {"open", "failed"} =>
        Len(stack) = 1 /\ stack[1].dir = root /\ bufstart <= stack[1].read

Total == Len(Children[root])

\* The first f records are what the first batch takes.
Fits(f) == /\ Offset[root][f] <= BUF_SIZE
           /\ f < Total => Offset[root][f + 1] > BUF_SIZE

\* Before the first batch; in it, after its first n entries; after it.
Before ==
    /\ place \in {"open", "loop", "failed"} /\ printed = <<>>
    /\ place = "loop" => stack[1].read = 0 /\ pos = 0

During(f, n) ==
    /\ place = "batch" /\ stack[1].read = f /\ bufstart = 0
    /\ pos = Offset[root][n] /\ printed = SubSeq(Children[root], 1, n)

Begun(f) == f <= Len(printed) /\ \A i \in 1 .. f : printed[i] = Children[root][i]

After(f) ==
    /\ place \in {"loop", "batch", "done", "failed"} /\ Begun(f)
    /\ place \in {"loop", "batch"} => stack[1].read >= f
    /\ f = Total => place # "batch" /\ printed = Children[root]

InFirstBatch ==
    lister = "06.3" =>
        \/ Before
        \/ \E f \in 0 .. Total : /\ Fits(f)
                                 /\ (\E n \in 0 .. f : During(f, n)) \/ After(f)

\* Any batch: pos is not before the end of a record that has been printed.
Past(n) == n <= bufstart \/ Offset[root][n] <= Offset[root][bufstart] + pos

\* at tells where in the listing the entries that have been printed are.
Located(at) ==
    /\ Embeds(at)
    /\ place \in {"loop", "batch"} => \A i \in Listed : at[i] <= stack[1].read
    /\ place = "batch" => \A i \in Listed : Past(at[i])

Locations == [Listed -> DOMAIN Whole]

InBatches == lister = "06.3" => \E at \in Locations : Located(at)

Placed == ListShape /\ Where /\ OneFrame

ListInv == Placed /\ ByReaddir /\ InFirstBatch /\ InBatches
-----------------------------------------------------------------------------
(* What a listing prints from a place on.                                  *)
LEMMA ChildrenAreEntries ==
    ASSUME NEW d \in Dirs
    PROVE  /\ d \in Entries /\ Children[d] \in Seq(Entries) /\ Len(Children[d]) \in Nat
           /\ \A n \in 1 .. Len(Children[d]) : Children[d][n] \in Entries
<1>1. Children[d] \in Seq(Entries) /\ d \in Entries
    BY ListingAssumption DEF Dirs
<1>2. QED
    BY <1>1, ElementOfSeq, LenProperties

LEMMA PlaceOf ==
    ASSUME NEW d \in Dirs, NEW n \in 0 .. Len(Children[d])
    PROVE  <<d, n>> \in Places
    BY DEF Places

\* The defining equation of From, for a directory and a number.
LEMMA FromEquation ==
    ASSUME NEW d \in Dirs, NEW n \in 0 .. Len(Children[d])
    PROVE  From[<<d, n>>] \in Seq(Entries) /\ From[<<d, n>>] = FromWith(From, d, n)
<1> DEFINE p == <<d, n>>
<1>1. p \in Places
    BY PlaceOf
<1>2. From[p] \in Seq(Entries) /\ From[p] = FromWith(From, p[1], p[2])
    BY <1>1, TreeAssumption
<1>3. p[1] = d /\ p[2] = n
    OBVIOUS
<1>4. QED
    BY <1>2, <1>3

LEMMA RestIsListing ==
    ASSUME NEW d \in Dirs, NEW n \in 0 .. Len(Children[d])
    PROVE  Rest(d, n) \in Seq(Entries)
<1>1. CASE lister = "06.4"
    BY <1>1, FromEquation DEF Rest
<1>2. CASE lister # "06.4"
    <2>1. n \in Nat /\ n + 1 \in Int /\ Len(Children[d]) \in Int
        BY ChildrenAreEntries
    <2>2. \A i \in n + 1 .. Len(Children[d]) : Children[d][i] \in Entries
        BY <2>1, ChildrenAreEntries
    <2> HIDE DEF Dirs
    <2>3. SubSeq(Children[d], n + 1, Len(Children[d])) \in Seq(Entries)
        BY <2>1, <2>2, SubSeqProperties
    <2>4. QED
        BY <1>2, <2>3 DEF Rest
<1>3. QED
    BY <1>1, <1>2

LEMMA WithinIsListing == ASSUME NEW e PROVE Within(e) \in Seq(Entries)
<1>1. CASE IsDir(e)
    <2>1. e \in Dirs
        BY <1>1 DEF IsDir
    <2>2. 0 \in 0 .. Len(Children[e])
        BY <2>1, ChildrenAreEntries
    <2>3. QED
        BY <1>1, <2>1, <2>2, RestIsListing DEF Within
<1>2. CASE ~IsDir(e)
    BY <1>2 DEF Within
<1>3. QED
    BY <1>1, <1>2

\* The next entry, what is within it, and what comes after it.
LEMMA RestOfMore ==
    ASSUME NEW d \in Dirs, NEW n \in Nat, n < Len(Children[d])
    PROVE  LET e == Children[d][n + 1]
           IN  Rest(d, n) = (<<e>> \o Within(e)) \o Rest(d, n + 1)
<1> DEFINE e == Children[d][n + 1]
           k == Len(Children[d])
<1>1. k \in Nat /\ n + 1 \in 0 .. k /\ n \in 0 .. k /\ n + 1 \in 1 .. k /\ e \in Entries
    BY ChildrenAreEntries
<1>2. <<e>> \in Seq(Entries) /\ Within(e) \in Seq(Entries) /\ Rest(d, n + 1) \in Seq(Entries)
    BY <1>1, WithinIsListing, RestIsListing
<1>3. CASE lister = "06.4"
    <2>1. Rest(d, n) = FromWith(From, d, n) /\ Rest(d, n + 1) = From[<<d, n + 1>>]
        BY <1>1, <1>3, FromEquation DEF Rest
    <2>2. n # k
        BY <1>1
    <2>3. FromWith(From, d, n)
            = <<e>> \o (IF e \in Dirs THEN From[<<e, 0>>] ELSE <<>>) \o From[<<d, n + 1>>]
        BY <2>2 DEF FromWith
    <2>4. Within(e) = IF e \in Dirs THEN From[<<e, 0>>] ELSE <<>>
        BY <1>3 DEF Within, IsDir, Rest
    <2>5. QED
        BY <2>1, <2>3, <2>4
<1>4. CASE lister # "06.4"
    <2>1. Within(e) = <<>>
        BY <1>4 DEF Within, IsDir
    <2>2. SubSeq(Children[d], n + 1, k) = <<e>> \o SubSeq(Children[d], n + 2, k)
        <3>1. Children[d] \in Seq(Entries) /\ k \in n + 1 .. k /\ (n + 1) + 1 = n + 2
            BY <1>1, ChildrenAreEntries
        <3>2. QED
            BY <1>1, <3>1, SubSeqRecursiveFirst
    <2>3. <<e>> \o Within(e) = <<e>>
        BY <1>2, <2>1, ConcatEmptySeq
    <2>4. (n + 1) + 1 = n + 2
        OBVIOUS
    <2>5. QED
        BY <1>4, <2>2, <2>3, <2>4 DEF Rest
<1>5. QED
    BY <1>3, <1>4

LEMMA RestOfNone == ASSUME NEW d \in Dirs PROVE Rest(d, Len(Children[d])) = <<>>
<1> DEFINE k == Len(Children[d])
<1>1. k \in Nat /\ k \in 0 .. k /\ k + 1 \in Int /\ k < k + 1
    BY ChildrenAreEntries
<1>2. CASE lister = "06.4"
    BY <1>1, <1>2, FromEquation DEF Rest, FromWith
<1>3. CASE lister # "06.4"
    BY <1>1, <1>3, SubSeqEmpty DEF Rest
<1>4. QED
    BY <1>2, <1>3

LEMMA RestOfAll == ASSUME root \in Roots PROVE Rest(root, 0) = Whole
<1>1. root \in Dirs
    BY ListingAssumption
<1>2. SubSeq(Children[root], 1, Len(Children[root])) = Children[root]
    BY <1>1, ChildrenAreEntries, SubSeqFull
<1>3. 0 + 1 = 1
    OBVIOUS
<1>4. QED
    BY <1>2, <1>3 DEF Rest, Whole

LEMMA WholeIsListing == ASSUME root \in Roots PROVE Whole \in Seq(Entries)
<1>1. root \in Dirs
    BY ListingAssumption
<1>2. 0 \in 0 .. Len(Children[root])
    BY <1>1, ChildrenAreEntries
<1>3. QED
    BY <1>1, <1>2, RestOfAll, RestIsListing

\* Neither the program nor the directory to list changes, nor what they say.
LEMMA SameListing ==
    ASSUME lister' = lister, root' = root
    PROVE  /\ Whole' = Whole /\ (OneBatch)' = OneBatch
           /\ \A d, n : Rest(d, n)' = Rest(d, n)
           /\ \A e : Within(e)' = Within(e) /\ IsDir(e)' = IsDir(e)
    BY DEF Whole, OneBatch, Rest, Within, IsDir

LEMMA SameProgram == ListNext => lister' = lister /\ root' = root
    BY DEF ListNext, Open, Readdir, EndOfDir, PrintEntry, StatFails, Nested,
           Getdents, NextEntry, BatchDone

\* The offsets of the records.
LEMMA Offsets ==
    ASSUME NEW d \in Dirs
    PROVE  /\ Offset[d][0] = 0 /\ Len(Children[d]) \in Nat
           /\ \A i \in 0 .. Len(Children[d]) : Offset[d][i] \in Nat
           /\ \A i, j \in 0 .. Len(Children[d]) : i < j => Offset[d][i] < Offset[d][j]
           /\ BUF_SIZE \in Nat
    BY ListingAssumption, ChildrenAreEntries

-----------------------------------------------------------------------------
(* The stack of the calls.                                                 *)
LEMMA TopIsFrame ==
    ASSUME Stacked(stack), Len(stack) > 0
    PROVE  /\ Len(stack) \in Nat /\ Len(stack) \in 1 .. Len(stack)
           /\ Top \in ListFrames /\ Top.dir \in Dirs
           /\ Top.read \in Nat /\ Size \in Nat /\ Top.read <= Size
           /\ Top.read > 0 => Entry \in Entries
<1>1. Len(stack) \in Nat /\ Len(stack) \in 1 .. Len(stack)
    BY LenProperties DEF Stacked
<1>2. Top \in ListFrames /\ Top.read <= Size
    BY <1>1, ElementOfSeq DEF Stacked, Top, Size
<1>3. Top.dir \in Dirs /\ Top.read \in Nat
    BY <1>2 DEF ListFrames
<1>4. Size \in Nat /\ \A n \in 1 .. Size : Children[Top.dir][n] \in Entries
    BY <1>3, ChildrenAreEntries DEF Size
<1>5. QED
    BY <1>1, <1>2, <1>3, <1>4 DEF Entry

LEMMA FrameOf ==
    ASSUME NEW d \in Dirs
    PROVE  /\ Frame(d) \in ListFrames /\ Frame(d).dir = d /\ Frame(d).read = 0
           /\ 0 <= Len(Children[d])
<1>1. Len(Children[d]) \in Nat
    BY ChildrenAreEntries
<1>2. QED
    BY <1>1 DEF Frame, ListFrames

\* One more entry of the directory at the top.
LEMMA AfterTook ==
    ASSUME Stacked(stack), Len(stack) > 0, NEW n \in Nat, Top.read + n <= Size, Took(n)
    PROVE  /\ Stacked(stack') /\ Len(stack') = Len(stack)
           /\ \A i \in 1 .. Len(stack) :
                 /\ stack'[i].dir = stack[i].dir
                 /\ stack'[i].read = IF i = Len(stack) THEN stack[i].read + n ELSE stack[i].read
           /\ Top'.dir = Top.dir /\ Top'.read = Top.read + n /\ Size' = Size
<1> DEFINE k == Len(stack)
           f == [Top EXCEPT !.read = @ + n]
<1>1. k \in Nat /\ k \in 1 .. k /\ Top \in ListFrames /\ Top.read \in Nat
    BY TopIsFrame
<1>2. f \in ListFrames /\ f.dir = Top.dir /\ f.read = Top.read + n
    BY <1>1 DEF ListFrames
<1>3. stack' = [stack EXCEPT ![k] = f]
    BY <1>1 DEF Took, Top
<1> HIDE DEF f
<1>4. /\ stack' \in Seq(ListFrames) /\ Len(stack') = k
      /\ \A i \in 1 .. k : stack'[i] = IF i = k THEN f ELSE stack[i]
    BY <1>1, <1>2, <1>3, ExceptSeq DEF Stacked
<1>5. \A i \in 1 .. k :
         /\ stack'[i].dir = stack[i].dir
         /\ stack'[i].read = IF i = k THEN stack[i].read + n ELSE stack[i].read
    BY <1>2, <1>4 DEF Top
<1>6. Top'.dir = Top.dir /\ Top'.read = Top.read + n
    BY <1>1, <1>4, <1>5 DEF Top
<1>7. Size' = Size
    BY <1>6 DEF Size
<1>8. Stacked(stack')
    BY <1>4, <1>5 DEF Stacked, Size, Top
<1>9. QED
    BY <1>4, <1>5, <1>6, <1>7, <1>8

\* A call has returned.
LEMMA AfterLeave ==
    ASSUME Stacked(stack), Len(stack) > 0, Leave
    PROVE  /\ Stacked(stack') /\ Len(stack') = Len(stack) - 1
           /\ \A i \in 1 .. Len(stack) - 1 : stack'[i] = stack[i]
           /\ place' \in {"loop", "done"}
           /\ place' = "loop" => Len(stack') > 0
           /\ place' = "done" => stack' = <<>>
<1> DEFINE k == Len(stack)
<1>1. k \in Nat /\ k - 1 \in Int /\ k >= 1 /\ 1 \in Int
    BY TopIsFrame
<1>2. \A i \in 1 .. k - 1 : stack[i] \in ListFrames
    BY <1>1, ElementOfSeq DEF Stacked
<1>3. stack' = SubSeq(stack, 1, k - 1)
    BY DEF Leave
<1> HIDE DEF k
<1>4. /\ SubSeq(stack, 1, k - 1) \in Seq(ListFrames)
      /\ Len(SubSeq(stack, 1, k - 1)) = IF 1 <= k - 1 THEN (k - 1) - 1 + 1 ELSE 0
      /\ \A i \in 1 .. (k - 1) - 1 + 1 : SubSeq(stack, 1, k - 1)[i] = stack[1 + i - 1]
    <2> DEFINE m == k - 1
    <2>1. m \in Int /\ \A i \in 1 .. m : stack[i] \in ListFrames
        BY <1>1, <1>2
    <2> HIDE DEF m
    <2>2. /\ SubSeq(stack, 1, m) \in Seq(ListFrames)
          /\ Len(SubSeq(stack, 1, m)) = IF 1 <= m THEN m - 1 + 1 ELSE 0
          /\ \A i \in 1 .. m - 1 + 1 : SubSeq(stack, 1, m)[i] = stack[1 + i - 1]
        BY <1>1, <2>1, SubSeqProperties
    <2>3. QED
        BY <2>2 DEF m
<1>5. stack' \in Seq(ListFrames) /\ Len(stack') = k - 1
    BY <1>1, <1>3, <1>4
<1>6. \A i \in 1 .. k - 1 : stack'[i] = stack[i]
    <2> SUFFICES ASSUME NEW i \in 1 .. k - 1 PROVE stack'[i] = stack[i]
        OBVIOUS
    <2>1. i \in 1 .. (k - 1) - 1 + 1 /\ 1 + i - 1 = i
        BY <1>1
    <2>2. QED
        BY <1>3, <1>4, <2>1
<1>7. Stacked(stack')
    <2> SUFFICES ASSUME NEW i \in 1 .. k - 1
                 PROVE  stack'[i].read <= Len(Children[stack'[i].dir])
        BY <1>5 DEF Stacked
    <2>1. i \in 1 .. k
        BY <1>1
    <2>2. QED
        BY <1>6, <2>1 DEF Stacked, k
<1>8. place' = IF k = 1 THEN "done" ELSE "loop"
    BY DEF Leave, k
<1>9. k = 1 => stack' = <<>>
    BY <1>5, EmptySeq
<1>10. QED
    BY <1>1, <1>5, <1>6, <1>7, <1>8, <1>9 DEF k

\* A call of the directory that has been read.
LEMMA AfterCall ==
    ASSUME Stacked(stack), NEW d \in Dirs, stack' = Append(stack, Frame(d))
    PROVE  /\ Stacked(stack') /\ Len(stack') = Len(stack) + 1 /\ Len(stack) \in Nat
           /\ \A i \in 1 .. Len(stack) : stack'[i] = stack[i]
           /\ stack'[Len(stack) + 1] = Frame(d)
<1>1. Frame(d) \in ListFrames /\ Frame(d).dir = d /\ Frame(d).read <= Len(Children[d])
    BY FrameOf
<1>2. stack \in Seq(ListFrames) /\ Len(stack) \in Nat
    BY LenProperties DEF Stacked
<1>3. /\ stack' \in Seq(ListFrames) /\ Len(stack') = Len(stack) + 1
      /\ \A i \in 1 .. Len(stack) : stack'[i] = stack[i]
      /\ stack'[Len(stack) + 1] = Frame(d)
    BY <1>1, <1>2, AppendProperties
<1>4. \A i \in 1 .. Len(stack) + 1 : stack'[i].read <= Len(Children[stack'[i].dir])
    BY <1>1, <1>2, <1>3 DEF Stacked
<1>5. QED
    BY <1>2, <1>3, <1>4 DEF Stacked

-----------------------------------------------------------------------------
(* Where a listing is, and its types.                                      *)
LEMMA PlacedInit == ListInit => Placed
<1> SUFFICES ASSUME ListInit PROVE Placed
    OBVIOUS
<1>1. Stacked(<<>>)
    BY EmptySeq DEF Stacked
<1>2. <<>> \in Seq(Entries)
    BY EmptySeq
<1>3. ListShape
    BY <1>1, <1>2 DEF ListInit, ListShape
<1>4. Where /\ OneFrame
    BY DEF ListInit, Where, OneFrame
<1>5. QED
    BY <1>3, <1>4 DEF Placed

LEMMA OpenPlaced == Placed /\ Open => Placed'
<1> SUFFICES ASSUME Placed, Open PROVE Placed'
    OBVIOUS
<1> USE DEF Placed
<1>1. /\ root \in Dirs /\ stack = <<>> /\ printed = <<>> /\ failures = 0 /\ ~errno
      /\ bufstart = 0 /\ pos = 0
    BY ListingAssumption DEF Open, ListShape, Where
<1>2. CASE stack' = <<Frame(root)>> /\ place' = "loop" /\ UNCHANGED <<errno, failures>>
    <2>1. Append(<<>>, Frame(root)) = <<Frame(root)>>
        OBVIOUS
    <2>2. /\ Stacked(stack') /\ Len(stack') = 1 /\ stack'[1] = Frame(root)
        BY <1>1, <1>2, <2>1, AfterCall DEF ListShape
    <2>3. ListShape'
        BY <1>2, <2>2 DEF Open, ListShape
    <2>4. Where'
        BY <1>1, <1>2, <2>2 DEF Open, Where
    <2>5. OneFrame'
        BY <1>1, <1>2, <2>2, FrameOf DEF Open, OneFrame, ListShape
    <2>6. QED
        BY <2>3, <2>4, <2>5
<1>3. CASE Fails /\ errno' = TRUE /\ UNCHANGED stack
           /\ place' = IF lister = "06.4" THEN "done" ELSE "failed"
    <2>1. failures' \in Nat /\ failures' > 0
        BY <1>1, <1>3 DEF Fails
    <2>2. ListShape'
        BY <1>3, <2>1 DEF Open, ListShape
    <2>3. Where' /\ OneFrame'
        BY <1>1, <1>3, <2>1 DEF Open, Where, OneFrame
    <2>4. QED
        BY <2>2, <2>3
<1>4. QED
    BY <1>2, <1>3 DEF Open

\* What one more entry, or a return, leaves of it.
LEMMA TookPlaced ==
    ASSUME Placed, place = "loop", lister # "06.3", Top.read < Size, ~errno, Took(1),
           place' = "entry",
           UNCHANGED <<lister, root, errno, bufstart, pos, printed, failures>>
    PROVE  Placed'
<1> USE DEF Placed
<1>1. Len(stack) > 0 /\ Stacked(stack)
    BY DEF Where, ListShape
<1>2. Top.read \in Nat /\ Size \in Nat /\ Top.read + 1 <= Size /\ 1 \in Nat
    BY <1>1, TopIsFrame
<1>3. Stacked(stack') /\ Len(stack') = Len(stack) /\ Top'.read = Top.read + 1
    BY <1>1, <1>2, AfterTook
<1>4. ListShape'
    BY <1>3 DEF ListShape
<1>5. failures = 0
    BY DEF Where, ListShape
<1>6. Where'
    BY <1>1, <1>2, <1>3, <1>5 DEF Where
<1>7. OneFrame'
    BY DEF OneFrame
<1>8. QED
    BY <1>4, <1>6, <1>7

LEMMA LeavePlaced ==
    ASSUME Placed, lister # "06.3", Len(stack) > 0, Leave,
           errno' \in BOOLEAN /\ (errno' <=> failures' > 0), failures' \in Nat,
           UNCHANGED <<lister, root, bufstart, pos, printed>>
    PROVE  Placed'
<1> USE DEF Placed
<1>1. Stacked(stack') /\ place' \in {"loop", "done"} /\ (place' = "loop" => Len(stack') > 0)
    BY AfterLeave DEF ListShape
<1>2. ListShape'
    BY <1>1 DEF ListShape
<1>3. Where'
    BY <1>1 DEF Where
<1>4. OneFrame'
    BY DEF OneFrame
<1>5. QED
    BY <1>2, <1>3, <1>4

\* errno is set by a call that fails, and by nothing else.
LEMMA FailsCounted == ASSUME failures \in Nat, Fails PROVE failures' \in Nat /\ failures' > 0
    BY DEF Fails

LEMMA ErrnoKept ==
    ASSUME Placed, UNCHANGED <<errno, failures>> \/ (Fails /\ errno' = TRUE)
    PROVE  failures' \in Nat /\ errno' \in BOOLEAN /\ (errno' <=> failures' > 0)
<1>1. failures \in Nat /\ errno \in BOOLEAN /\ (errno <=> failures > 0)
    BY DEF Placed, ListShape, Where
<1>2. CASE UNCHANGED <<errno, failures>>
    <2>1. failures' = failures /\ errno' = errno
        BY <1>2
    <2>2. QED
        BY <1>1, <2>1
<1>3. CASE Fails /\ errno' = TRUE
    BY <1>1, <1>3, FailsCounted
<1>4. QED
    BY <1>2, <1>3

LEMMA ReaddirPlaced == Placed /\ Readdir => Placed'
<1> SUFFICES ASSUME Placed, Readdir PROVE Placed'
    OBVIOUS
<1>1. CASE errno
    <2>1. /\ Leave /\ Len(stack) > 0 /\ failures' \in Nat
          /\ errno' \in BOOLEAN /\ (errno' <=> failures' > 0)
        BY <1>1 DEF Readdir, Placed, Where, ListShape
    <2>2. QED
        BY <2>1, LeavePlaced DEF Readdir
<1>2. CASE ~errno
    BY <1>2, TookPlaced DEF Readdir
<1>3. QED
    BY <1>1, <1>2

LEMMA EndOfDirPlaced == Placed /\ EndOfDir => Placed'
<1> SUFFICES ASSUME Placed, EndOfDir PROVE Placed'
    OBVIOUS
<1>1. errno' \in BOOLEAN /\ (errno' <=> failures' > 0) /\ failures' \in Nat
    BY ErrnoKept DEF EndOfDir
<1>2. QED
    BY <1>1, LeavePlaced DEF EndOfDir, Placed, Where

\* The entry that has been read is printed.
LEMMA AfterPrint ==
    ASSUME Placed, place = "entry", printed' = Append(printed, Entry)
    PROVE  /\ Entry \in Entries /\ printed \in Seq(Entries) /\ printed' \in Seq(Entries)
           /\ printed' = printed \o <<Entry>> /\ printed' # <<>>
<1>1. Entry \in Entries
    BY TopIsFrame DEF Placed, ListShape, Where
<1>2. QED
    BY <1>1, AppendProperties, AppendIsConcat DEF Placed, ListShape

LEMMA PrintEntryPlaced == Placed /\ PrintEntry => Placed'
<1> SUFFICES ASSUME Placed, PrintEntry PROVE Placed'
    OBVIOUS
<1> USE DEF Placed
<1>1. printed' \in Seq(Entries)
    BY AfterPrint DEF PrintEntry
<1>2. ListShape'
    BY <1>1 DEF PrintEntry, ListShape
<1>3. Where'
    BY SameListing DEF PrintEntry, Where, IsDir, Entry, Top
<1>4. OneFrame'
    BY DEF PrintEntry, OneFrame, Where
<1>5. QED
    BY <1>2, <1>3, <1>4

LEMMA StatFailsPlaced == Placed /\ StatFails => Placed'
<1> SUFFICES ASSUME Placed, StatFails PROVE Placed'
    OBVIOUS
<1> USE DEF Placed
<1>1. failures' \in Nat /\ failures' > 0 /\ errno' /\ lister # "06.3" /\ Len(stack) > 0
    BY FailsCounted DEF StatFails, ListShape, Where
<1>2. CASE lister = "06.1"
    BY <1>1, <1>2, LeavePlaced DEF StatFails
<1>3. CASE lister # "06.1"
    <2>1. printed' \in Seq(Entries)
        BY <1>3, AfterPrint DEF StatFails
    <2>2. ListShape'
        BY <1>1, <1>3, <2>1 DEF StatFails, ListShape
    <2>3. Where'
        BY <1>1, <1>3 DEF StatFails, Where
    <2>4. OneFrame'
        BY <1>1 DEF StatFails, OneFrame
    <2>5. QED
        BY <2>2, <2>3, <2>4
<1>4. QED
    BY <1>2, <1>3

LEMMA NestedPlaced == Placed /\ Nested => Placed'
<1> SUFFICES ASSUME Placed, Nested PROVE Placed'
    OBVIOUS
<1> USE DEF Placed
<1>1. Entry \in Dirs /\ Len(stack) > 0 /\ lister # "06.3"
    BY DEF Nested, Where, IsDir
<1>2. Stacked(stack') /\ Len(stack') > 0
    BY <1>1, AfterCall, LenProperties DEF Nested, ListShape, Stacked
<1>3. errno' \in BOOLEAN /\ (errno' <=> failures' > 0) /\ failures' \in Nat
    BY ErrnoKept DEF Nested
<1>4. ListShape'
    BY <1>2, <1>3 DEF Nested, ListShape
<1>5. Where'
    BY <1>2, <1>3 DEF Nested, Where
<1>6. OneFrame'
    BY <1>1 DEF Nested, OneFrame
<1>7. QED
    BY <1>4, <1>5, <1>6

\* The one frame of 06.3 and the records of its directory.
LEMMA RootFrame ==
    ASSUME Placed, lister = "06.3", place \in {"loop", "batch"}
    PROVE  /\ Len(stack) = 1 /\ stack[1] = Top /\ Top.dir = root /\ root \in Dirs
           /\ Top.read \in 0 .. Total /\ bufstart \in 0 .. Top.read
           /\ Size = Total /\ Total \in Nat
           /\ \A i : End(i) = Offset[root][i]
           /\ \A i \in 0 .. Total : End(i) \in Nat
           /\ \A i \in 1 .. Total : Children[root][i] \in Entries
<1>1. Len(stack) = 1 /\ stack[1] = Top /\ Top.dir = root /\ bufstart <= Top.read
    BY DEF Placed, OneFrame, Top
<1>2. Stacked(stack) /\ root \in Dirs
    BY ListingAssumption DEF Placed, ListShape
<1>3. Top.read \in Nat /\ Size \in Nat /\ Top.read <= Size /\ Size = Total
    BY <1>1, <1>2, TopIsFrame DEF Size, Total
<1>4. \A i : End(i) = Offset[root][i]
    BY <1>1 DEF End
<1>5. \A i \in 0 .. Total : End(i) \in Nat
    BY <1>2, <1>4, Offsets DEF Total
<1>6. \A i \in 1 .. Total : Children[root][i] \in Entries
    BY <1>2, ChildrenAreEntries DEF Total
<1>7. QED
    BY <1>1, <1>2, <1>3, <1>4, <1>5, <1>6 DEF Placed, ListShape

LEMMA GetdentsPlaced == Placed /\ Getdents => Placed'
<1> SUFFICES ASSUME Placed, Getdents PROVE Placed'
    OBVIOUS
<1> USE DEF Placed
<1>1. /\ lister = "06.3" /\ place = "loop" /\ Len(stack) = 1 /\ stack[1] = Top /\ Top.dir = root
      /\ Top.read \in Nat /\ Size \in Nat /\ Stacked(stack)
    BY RootFrame DEF Getdents, ListShape
<1>2. CASE Fails /\ errno' = TRUE /\ place' = "failed" /\ UNCHANGED <<bufstart, stack>>
    <2>1. failures' \in Nat /\ failures' > 0
        BY <1>2, FailsCounted DEF ListShape
    <2>2. ListShape'
        BY <1>2, <2>1 DEF Getdents, ListShape
    <2>3. Where' /\ OneFrame'
        BY <1>2, <2>1 DEF Getdents, Where, OneFrame
    <2>4. QED
        BY <2>2, <2>3
<1>3. ASSUME NEW n \in 0 .. Size - Top.read,
             bufstart' = Top.read, Took(n), place' = IF n = 0 THEN "done" ELSE "batch",
             UNCHANGED <<errno, failures>>
      PROVE  Placed'
    <2>1. n \in Nat /\ Top.read + n <= Size
        BY <1>1, <1>3
    <2>2. /\ Stacked(stack') /\ Len(stack') = 1
          /\ stack'[1].dir = root /\ stack'[1].read = Top.read + n
        BY <1>1, <1>3, <2>1, AfterTook
    <2>3. ListShape'
        BY <1>1, <1>3, <2>2 DEF Getdents, ListShape
    <2>4. Where'
        BY <1>1, <1>3, <2>2 DEF Getdents, Where
    <2>5. OneFrame'
        BY <1>1, <1>3, <2>1, <2>2 DEF Getdents, OneFrame
    <2>6. QED
        BY <2>3, <2>4, <2>5
<1>4. QED
    BY <1>2, <1>3 DEF Getdents

\* The record at pos.
LEMMA RecordAtPos ==
    ASSUME Placed, lister = "06.3", place = "batch", NEW i \in AtPos
    PROVE  /\ i \in 1 .. Total /\ i > bufstart /\ i <= Top.read /\ i - 1 \in 0 .. Total
           /\ Offset[root][i - 1] = Offset[root][bufstart] + pos
           /\ Offset[root][bufstart] + (pos + (End(i) - End(i - 1))) = Offset[root][i]
           /\ pos + (End(i) - End(i - 1)) \in Nat
<1>1. /\ bufstart \in Nat /\ Top.read \in Nat /\ Top.read <= Total /\ Total \in Nat
      /\ \A j : End(j) = Offset[root][j]
      /\ \A j \in 0 .. Total : End(j) \in Nat
      /\ root \in Dirs /\ pos \in Nat
    BY RootFrame DEF Placed, ListShape
<1>2. i \in bufstart + 1 .. Top.read /\ End(i - 1) = End(bufstart) + pos
    BY DEF AtPos
<1>3. i \in 1 .. Total /\ i > bufstart /\ i <= Top.read /\ i - 1 \in 0 .. Total /\ i \in 0 .. Total
    BY <1>1, <1>2
<1>4. i - 1 < i
    BY <1>3
<1>5. End(i - 1) < End(i)
    BY <1>1, <1>3, <1>4, Offsets DEF Total
<1>6. bufstart \in 0 .. Total
    BY <1>1, <1>3
<1>7. End(i) \in Nat /\ End(i - 1) \in Nat /\ End(bufstart) \in Nat
    BY <1>1, <1>3, <1>6
<1>8. pos + (End(i) - End(i - 1)) \in Nat /\ End(bufstart) + (pos + (End(i) - End(i - 1))) = End(i)
    BY <1>1, <1>2, <1>5, <1>7
<1>9. QED
    BY <1>1, <1>2, <1>3, <1>8

LEMMA NextEntryPlaced == Placed /\ NextEntry => Placed'
<1> SUFFICES ASSUME Placed, NextEntry PROVE Placed'
    OBVIOUS
<1>1. lister = "06.3" /\ place = "batch"
    BY DEF NextEntry, Placed, Where
<1>2. /\ pos' \in Nat /\ printed' \in Seq(Entries)
      /\ UNCHANGED <<errno, failures>> \/ (Fails /\ errno' = TRUE)
    <2>1. printed \in Seq(Entries) /\ pos \in Nat /\ Garbage \in Entries
        BY ListingAssumption DEF Placed, ListShape
    <2>2. ASSUME NEW i \in AtPos, PrintRecord(i)
          PROVE  pos' \in Nat /\ printed' \in Seq(Entries)
        <3>1. pos' \in Nat /\ Children[Top.dir][i] \in Entries
            BY <1>1, <2>2, RecordAtPos, RootFrame DEF PrintRecord
        <3>2. QED
            BY <2>1, <2>2, <3>1, AppendProperties DEF PrintRecord
    <2>3. CASE PrintGarbage
        BY <2>1, <2>3, AppendProperties, ListingAssumption DEF PrintGarbage
    <2>4. QED
        BY <2>2, <2>3 DEF NextEntry, PrintRecord, PrintGarbage
<1>3. failures' \in Nat /\ errno' \in BOOLEAN /\ (errno' <=> failures' > 0)
    BY <1>2, ErrnoKept
<1>4. ListShape'
    BY <1>2, <1>3 DEF Placed, NextEntry, ListShape
<1>5. Where' /\ OneFrame'
    BY <1>1, <1>3 DEF Placed, NextEntry, Where, OneFrame
<1>6. QED
    BY <1>4, <1>5 DEF Placed

LEMMA BatchDonePlaced == Placed /\ BatchDone => Placed'
<1> SUFFICES ASSUME Placed, BatchDone PROVE Placed'
    OBVIOUS
<1> USE DEF Placed
<1>1. ListShape'
    BY DEF BatchDone, ListShape
<1>2. Where' /\ OneFrame'
    BY DEF BatchDone, Where, OneFrame
<1>3. QED
    BY <1>1, <1>2

LEMMA PlacedStep == Placed /\ [ListNext]_list_vars => Placed'
<1> SUFFICES ASSUME Placed, [ListNext]_list_vars PROVE Placed'
    OBVIOUS
<1>1. CASE UNCHANGED list_vars
    BY <1>1 DEF list_vars, Placed, ListShape, Where, OneFrame, Top, Entry, IsDir
<1>2. CASE ListNext
    BY <1>2, OpenPlaced, ReaddirPlaced, EndOfDirPlaced, PrintEntryPlaced, StatFailsPlaced,
       NestedPlaced, GetdentsPlaced, NextEntryPlaced, BatchDonePlaced DEF ListNext
<1>3. QED
    BY <1>1, <1>2

-----------------------------------------------------------------------------
(* readdir: what has been printed, what is pending and what the calls have *)
(* still to print make up the listing.                                     *)
Pieces == [Nat -> Seq(Entries)]

LEMMA PendingIsListing ==
    ASSUME Placed
    PROVE  /\ Pending \in Seq(Entries)
           /\ place = "entry" => Entry \in Entries /\ Pending = <<Entry>> \o Within(Entry)
           /\ place = "nested" => Pending = Within(Entry)
           /\ place \notin {"entry", "nested"} => Pending = <<>>
<1>1. place \notin {"entry", "nested"} => Pending = <<>>
    BY DEF Pending
<1>2. place = "nested" => Pending = Within(Entry)
    BY DEF Pending
<1>3. place = "entry" => Entry \in Entries /\ Pending = <<Entry>> \o Within(Entry)
    BY TopIsFrame DEF Pending, Placed, ListShape, Where
<1>4. <<>> \in Seq(Entries) /\ Within(Entry) \in Seq(Entries)
    BY EmptySeq, WithinIsListing
<1>5. place = "entry" => Pending \in Seq(Entries)
    <2> SUFFICES ASSUME place = "entry" PROVE Pending \in Seq(Entries)
        OBVIOUS
    <2>1. <<Entry>> \in Seq(Entries)
        BY <1>3
    <2>2. QED
        BY <1>3, <1>4, <2>1, ConcatProperties
<1>6. QED
    BY <1>1, <1>2, <1>3, <1>4, <1>5

LEMMA ReaddirInit == ListInit => ByReaddir
<1> SUFFICES ASSUME ListInit PROVE ByReaddir
    OBVIOUS
<1>1. printed = <<>> /\ place = "open" /\ root \in Roots
    BY DEF ListInit
<1>2. Whole \in Seq(Entries) /\ Whole = printed \o Whole
    BY <1>1, WholeIsListing, ConcatEmptySeq
<1>3. QED
    BY <1>1, <1>2 DEF ByReaddir

\* A step that prints nothing, after which a call has failed.
LEMMA StopsPrinting ==
    ASSUME ByReaddir, lister # "06.3", UNCHANGED <<lister, root, printed>>, failures' # 0
    PROVE  ByReaddir'
<1>1. Whole' = Whole
    BY SameListing
<1>2. QED
    BY <1>1 DEF ByReaddir

\* A step after which the pieces are those given.
LEMMA GoesOn ==
    ASSUME \E r \in Seq(Entries) : Whole' = printed' \o r,
           NEW rest \in Pieces, Planned(rest)',
           place' = "done" => stack' = <<>>
    PROVE  ByReaddir'
    BY DEF ByReaddir, Pieces

\* What has been printed of the listing, if a step prints nothing.
LEMMA PrefixKept ==
    ASSUME ByReaddir, lister # "06.3", UNCHANGED <<lister, root, printed>>
    PROVE  \E r \in Seq(Entries) : Whole' = printed' \o r
<1>1. Whole' = Whole
    BY SameListing
<1>2. QED
    BY <1>1 DEF ByReaddir

LEMMA OpenByReaddir == Placed /\ Placed' /\ ByReaddir /\ Open => ByReaddir'
<1> SUFFICES ASSUME Placed, Placed', ByReaddir, Open, lister # "06.3" PROVE ByReaddir'
    BY DEF ByReaddir, Open
<1>1. root \in Roots /\ printed = <<>> /\ UNCHANGED <<lister, root, printed>>
    BY DEF Open, Placed, ListShape, Where
<1>2. CASE Fails
    <2>1. failures' # 0
        BY <1>2, FailsCounted DEF Placed, ListShape
    <2>2. QED
        BY <1>1, <2>1, StopsPrinting
<1>3. CASE ~Fails
    <2>1. stack' = <<Frame(root)>> /\ place' = "loop" /\ root \in Dirs
        BY <1>1, <1>3, ListingAssumption DEF Open
    <2>2. Whole \in Seq(Entries) /\ Whole' = Whole
        BY <1>1, WholeIsListing, SameListing
    <2>3. Len(stack') = 1 /\ stack'[1].dir = root /\ stack'[1].read = 0
        BY <2>1, FrameOf
    <2>4. Rest(root, 0)' = Whole
        BY <1>1, RestOfAll, SameListing
    <2>5. PICK rest \in Pieces : rest[1] = Whole /\ rest[0] = <<>>
        <3> DEFINE r == [i \in Nat |-> IF i = 1 THEN Whole ELSE <<>>]
        <3>1. r \in Pieces /\ r[1] = Whole /\ r[0] = <<>>
            BY <2>2, EmptySeq DEF Pieces
        <3>2. QED
            BY <3>1
    <2>6. Pending' = <<>>
        BY <2>1 DEF Pending
    <2>7. Whole \o <<>> = Whole /\ <<>> \o (<<>> \o Whole) = Whole
        BY <2>2, ConcatEmptySeq
    <2>8. \A i \in 1 .. Len(stack') :
             rest[i] = Rest(stack[i].dir, stack[i].read)' \o rest[i - 1]
        <3> SUFFICES ASSUME NEW i \in 1 .. Len(stack')
                     PROVE  rest[i] = Rest(stack[i].dir, stack[i].read)' \o rest[i - 1]
            OBVIOUS
        <3>1. i = 1 /\ i - 1 = 0
            BY <2>3
        <3>2. Rest(stack[i].dir, stack[i].read)' = Whole
            BY <3>1, <1>1, <2>3, <2>4 DEF Rest
        <3>3. QED
            BY <3>1, <3>2, <2>5, <2>7
    <2>9. Planned(rest)'
        BY <1>1, <2>2, <2>3, <2>5, <2>6, <2>7, <2>8 DEF Planned
    <2>10. QED
        BY <1>1, <2>1, <2>9, PrefixKept, GoesOn
<1>4. QED
    BY <1>2, <1>3

LEMMA PieceReplaced ==
    ASSUME NEW rest \in Pieces, NEW k \in Nat, NEW v \in Seq(Entries)
    PROVE  \E new \in Pieces : new[k] = v /\ \A i \in Nat : i # k => new[i] = rest[i]
<1>1. [rest EXCEPT ![k] = v] \in Pieces
    BY DEF Pieces
<1>2. /\ [rest EXCEPT ![k] = v][k] = v
      /\ \A i \in Nat : i # k => [rest EXCEPT ![k] = v][i] = rest[i]
    BY DEF Pieces
<1>3. QED
    BY <1>1, <1>2

\* The pieces while no call has failed.
LEMMA PiecesOf ==
    ASSUME Placed, ByReaddir, lister # "06.3", place # "open", failures = 0
    PROVE  \E rest \in Pieces : Planned(rest)
    BY DEF ByReaddir, Pieces

LEMMA ReaddirByReaddir == Placed /\ ByReaddir /\ Readdir => ByReaddir'
<1> SUFFICES ASSUME Placed, ByReaddir, Readdir PROVE ByReaddir'
    OBVIOUS
<1>1. lister # "06.3" /\ UNCHANGED <<lister, root, printed, failures>> /\ place = "loop"
    BY DEF Readdir
<1>2. CASE failures # 0
    BY <1>1, <1>2, StopsPrinting
<1>3. CASE failures = 0
    <2> DEFINE k == Len(stack)
    <2>1. ~errno /\ Stacked(stack) /\ k > 0
        BY <1>1, <1>3 DEF Placed, ListShape, Where
    <2>2. /\ k \in Nat /\ k \in 1 .. k /\ Top.dir \in Dirs
          /\ Top.read \in Nat /\ Size \in Nat /\ Top.read <= Size
        BY <2>1, TopIsFrame
    <2>3. Top.read < Size /\ Top.read + 1 <= Size /\ Took(1) /\ place' = "entry"
        BY <2>1, <2>2 DEF Readdir
    <2>4. /\ Len(stack') = k
          /\ \A i \in 1 .. k :
                /\ stack'[i].dir = stack[i].dir
                /\ stack'[i].read = IF i = k THEN stack[i].read + 1 ELSE stack[i].read
          /\ Top'.dir = Top.dir /\ Top'.read = Top.read + 1
        BY <2>1, <2>3, AfterTook
    <2> DEFINE e == Children[Top.dir][Top.read + 1]
               r == Rest(Top.dir, Top.read + 1)
               p == <<e>> \o Within(e)
    <2>5. Rest(Top.dir, Top.read) = p \o r
        BY <2>2, <2>3, RestOfMore DEF Size
    <2>6. Pending' = p
        BY <1>1, <2>3, <2>4, SameListing DEF Pending, Entry
    <2>7. e \in Entries /\ r \in Seq(Entries) /\ Within(e) \in Seq(Entries)
        <3>1. /\ Top.read + 1 \in 0 .. Len(Children[Top.dir])
              /\ Top.read + 1 \in 1 .. Len(Children[Top.dir])
            BY <2>2, <2>3 DEF Size
        <3>2. QED
            BY <2>2, <3>1, RestIsListing, ChildrenAreEntries, WithinIsListing
    <2>8. p \in Seq(Entries)
        <3>1. <<e>> \in Seq(Entries)
            BY <2>7
        <3>2. QED
            BY <3>1, <2>7, ConcatProperties
    <2>9. PICK rest \in Pieces : Planned(rest)
        BY <1>1, <1>3, PiecesOf
    <2> HIDE DEF e, r, p, k
    <2>10. rest[k - 1] \in Seq(Entries) /\ k - 1 \in Nat
        BY <2>2 DEF Pieces
    <2>11. PICK new \in Pieces :
              new[k] = r \o rest[k - 1] /\ \A i \in Nat : i # k => new[i] = rest[i]
        <3>1. PICK v \in Seq(Entries) : v = r \o rest[k - 1]
            BY <2>7, <2>10, ConcatProperties DEF r
        <3>2. k \in Nat
            BY <2>2 DEF k
        <3>3. \E new \in Pieces : new[k] = v /\ \A i \in Nat : i # k => new[i] = rest[i]
            BY <3>2, PieceReplaced
        <3>4. QED
            BY <3>1, <3>3
    <2>12. new[0] = <<>>
        BY <2>2, <2>9, <2>11 DEF Planned
    <2>13. \A i \in 1 .. k : new[i] = Rest(stack[i].dir, stack[i].read)' \o new[i - 1]
        <3> SUFFICES ASSUME NEW i \in 1 .. k
                     PROVE  new[i] = Rest(stack[i].dir, stack[i].read)' \o new[i - 1]
            OBVIOUS
        <3>1. new[i - 1] = rest[i - 1] /\ i \in Nat
            BY <2>2, <2>11
        <3>2. CASE i = k
            <4>1. stack'[i].dir = Top.dir /\ stack'[i].read = Top.read + 1
                BY <2>2, <2>4, <3>2 DEF Top, k
            <4>2. Rest(stack[i].dir, stack[i].read)' = r
                BY <1>1, <4>1, SameListing DEF Rest, r
            <4>3. QED
                BY <2>11, <3>1, <3>2, <4>2
        <3>3. CASE i # k
            <4>1. stack'[i].dir = stack[i].dir /\ stack'[i].read = stack[i].read
                BY <2>4, <3>3 DEF k
            <4>2. Rest(stack[i].dir, stack[i].read)' = Rest(stack[i].dir, stack[i].read)
                BY <1>1, <4>1 DEF Rest
            <4>3. rest[i] = Rest(stack[i].dir, stack[i].read) \o rest[i - 1]
                BY <2>9 DEF Planned, k
            <4>4. QED
                BY <2>11, <3>1, <3>3, <4>2, <4>3
        <3>4. QED
            BY <3>2, <3>3
    <2>14. Whole = printed \o (p \o new[k])
        <3>1. Pending = <<>>
            BY <1>1 DEF Pending
        <3>2. rest[k] = Rest(Top.dir, Top.read) \o rest[k - 1] /\ rest[k] \in Seq(Entries)
            BY <2>2, <2>9 DEF Planned, Top, k, Pieces
        <3>3. Whole = printed \o (<<>> \o rest[k])
            BY <2>9, <3>1 DEF Planned, k
        <3>4. <<>> \o rest[k] = rest[k]
            BY <3>2, ConcatEmptySeq
        <3>5. rest[k] = p \o new[k]
            <4>1. p \in Seq(Entries) /\ r \in Seq(Entries)
                BY <2>7, <2>8 DEF r
            <4>2. PICK a \in Seq(Entries), b \in Seq(Entries), c \in Seq(Entries) :
                      a = p /\ b = r /\ c = rest[k - 1]
                BY <2>10, <4>1
            <4>3. (a \o b) \o c = a \o (b \o c)
                BY ConcatAssociative
            <4>4. QED
                BY <2>5, <2>11, <3>2, <4>2, <4>3 DEF r
        <3>6. QED
            BY <3>3, <3>4, <3>5
    <2>15. Planned(new)'
        BY <1>1, <2>4, <2>6, <2>12, <2>13, <2>14, SameListing DEF Planned, k
    <2>16. QED
        BY <1>1, <2>3, <2>15, PrefixKept, GoesOn
<1>4. QED
    BY <1>2, <1>3

LEMMA EndOfDirByReaddir == Placed /\ ByReaddir /\ EndOfDir => ByReaddir'
<1> SUFFICES ASSUME Placed, ByReaddir, EndOfDir PROVE ByReaddir'
    OBVIOUS
<1>1. /\ lister # "06.3" /\ UNCHANGED <<lister, root, printed>> /\ place = "loop" /\ Leave
      /\ failures \in Nat /\ Stacked(stack) /\ Len(stack) > 0
    BY DEF EndOfDir, Placed, ListShape, Where
<1>2. CASE failures' # 0
    BY <1>1, <1>2, StopsPrinting
<1>3. CASE failures' = 0
    <2> DEFINE k == Len(stack)
    <2>1. Top.read = Size /\ failures = 0
        BY <1>1, <1>3, FailsCounted DEF EndOfDir
    <2>2. k \in Nat /\ k \in 1 .. k /\ Top.dir \in Dirs /\ k - 1 \in Nat
        BY <1>1, TopIsFrame
    <2>3. /\ Len(stack') = k - 1 /\ \A i \in 1 .. k - 1 : stack'[i] = stack[i]
          /\ place' \in {"loop", "done"} /\ (place' = "done" => stack' = <<>>)
        BY <1>1, AfterLeave
    <2>4. PICK rest \in Pieces : Planned(rest)
        BY <1>1, <2>1, PiecesOf
    <2> HIDE DEF k
    <2>5. rest[k] \in Seq(Entries) /\ rest[k - 1] \in Seq(Entries)
        BY <2>2 DEF Pieces
    <2>6. rest[k] = rest[k - 1]
        <3>1. rest[k] = Rest(Top.dir, Top.read) \o rest[k - 1]
            BY <2>2, <2>4 DEF Planned, Top, k
        <3>2. Rest(Top.dir, Top.read) = <<>>
            BY <2>1, <2>2, RestOfNone DEF Size
        <3>3. QED
            BY <2>5, <3>1, <3>2, ConcatEmptySeq
    <2>7. Pending = <<>> /\ Pending' = <<>>
        BY <1>1, <2>3 DEF Pending
    <2>8. \A i \in 1 .. k - 1 : rest[i] = Rest(stack[i].dir, stack[i].read)' \o rest[i - 1]
        <3> SUFFICES ASSUME NEW i \in 1 .. k - 1
                     PROVE  rest[i] = Rest(stack[i].dir, stack[i].read)' \o rest[i - 1]
            OBVIOUS
        <3>1. stack'[i] = stack[i] /\ i \in 1 .. k
            BY <2>2, <2>3
        <3>2. Rest(stack[i].dir, stack[i].read)' = Rest(stack[i].dir, stack[i].read)
            BY <1>1, <3>1 DEF Rest
        <3>3. QED
            BY <2>4, <3>1, <3>2 DEF Planned, k
    <2>9. Planned(rest)'
        BY <1>1, <2>3, <2>4, <2>6, <2>7, <2>8, SameListing DEF Planned, k
    <2>10. QED
        BY <1>1, <2>3, <2>9, PrefixKept, GoesOn
<1>4. QED
    BY <1>2, <1>3

\* The entry is printed, what is within it is still to come.
LEMMA EntryFirst ==
    ASSUME Placed, ByReaddir, place = "entry", printed' = Append(printed, Entry),
           UNCHANGED <<lister, root>>
    PROVE  \E rest \in Pieces :
              /\ Planned(rest)
              /\ Whole' = printed' \o (Within(Entry) \o rest[Len(stack)])
              /\ Within(Entry) \o rest[Len(stack)] \in Seq(Entries)
<1>1. failures = 0 /\ lister # "06.3" /\ Len(stack) \in Nat
    BY LenProperties DEF Placed, Where, ListShape, Stacked
<1>2. PICK rest \in Pieces : Planned(rest)
    BY <1>1, PiecesOf
<1> DEFINE r == rest[Len(stack)]
           w == Within(Entry)
           s == <<Entry>>
<1>3. /\ s \in Seq(Entries) /\ printed \in Seq(Entries) /\ w \in Seq(Entries) /\ r \in Seq(Entries)
      /\ printed' = printed \o s
    <2>1. Entry \in Entries /\ printed \in Seq(Entries) /\ printed' = printed \o <<Entry>>
        BY AfterPrint
    <2>2. r \in Seq(Entries) /\ w \in Seq(Entries)
        BY <1>1, WithinIsListing DEF Pieces
    <2>3. <<Entry>> \in Seq(Entries)
        BY <2>1
    <2>4. QED
        BY <2>1, <2>2, <2>3
<1>4. Whole = printed \o ((s \o w) \o r)
    BY <1>2, PendingIsListing DEF Planned
<1> HIDE DEF r, w, s
<1>5. printed \o ((s \o w) \o r) = (printed \o s) \o (w \o r) /\ w \o r \in Seq(Entries)
    <2>1. PICK a \in Seq(Entries), b \in Seq(Entries), c \in Seq(Entries), d \in Seq(Entries) :
              a = printed /\ b = s /\ c = w /\ d = r
        BY <1>3
    <2>2. (b \o c) \o d = b \o (c \o d)
        BY ConcatAssociative
    <2>3. PICK x \in Seq(Entries) : x = c \o d
        BY ConcatProperties
    <2>4. a \o (b \o x) = (a \o b) \o x
        BY ConcatAssociative
    <2>5. QED
        BY <2>1, <2>2, <2>3, <2>4
<1>6. Whole' = Whole
    BY SameListing
<1>7. Whole' = printed' \o (w \o r)
    BY <1>3, <1>4, <1>5, <1>6
<1>8. QED
    BY <1>2, <1>5, <1>7 DEF w, r

LEMMA PrintEntryByReaddir == Placed /\ ByReaddir /\ PrintEntry => ByReaddir'
<1> SUFFICES ASSUME Placed, ByReaddir, PrintEntry PROVE ByReaddir'
    OBVIOUS
<1>1. /\ place = "entry" /\ printed' = Append(printed, Entry)
      /\ UNCHANGED <<lister, root, stack>> /\ place' = IF IsDir(Entry) THEN "nested" ELSE "loop"
    BY DEF PrintEntry
<1>2. PICK rest \in Pieces :
          /\ Planned(rest)
          /\ Whole' = printed' \o (Within(Entry) \o rest[Len(stack)])
          /\ Within(Entry) \o rest[Len(stack)] \in Seq(Entries)
    BY <1>1, EntryFirst
<1>3. Entry' = Entry
    BY <1>1 DEF Entry, Top
<1>4. Pending' = Within(Entry)
    <2>1. CASE IsDir(Entry)
        BY <1>1, <1>3, <2>1, SameListing DEF Pending
    <2>2. CASE ~IsDir(Entry)
        BY <1>1, <2>2 DEF Pending, Within
    <2>3. QED
        BY <2>1, <2>2
<1>5. Planned(rest)'
    BY <1>1, <1>2, <1>4 DEF Planned, Rest
<1>6. QED
    BY <1>1, <1>2, <1>5, GoesOn

LEMMA StatFailsByReaddir == Placed /\ ByReaddir /\ StatFails => ByReaddir'
<1> SUFFICES ASSUME Placed, ByReaddir, StatFails PROVE ByReaddir'
    OBVIOUS
<1>1. place = "entry" /\ failures' # 0 /\ lister # "06.3" /\ UNCHANGED <<lister, root>>
    BY FailsCounted DEF StatFails, Placed, ListShape, Where
<1>2. CASE lister = "06.1"
    BY <1>1, <1>2, StopsPrinting DEF StatFails
<1>3. CASE lister # "06.1"
    <2>1. printed' = Append(printed, Entry)
        BY <1>3 DEF StatFails
    <2>2. \E r \in Seq(Entries) : Whole' = printed' \o r
        BY <1>1, <2>1, EntryFirst
    <2>3. QED
        BY <1>1, <2>2 DEF ByReaddir
<1>4. QED
    BY <1>2, <1>3

LEMMA NestedByReaddir == Placed /\ ByReaddir /\ Nested => ByReaddir'
<1> SUFFICES ASSUME Placed, ByReaddir, Nested PROVE ByReaddir'
    OBVIOUS
<1>1. /\ place = "nested" /\ place' = "loop" /\ UNCHANGED <<lister, root, printed>>
      /\ failures = 0 /\ lister # "06.3" /\ IsDir(Entry) /\ Entry \in Dirs /\ Stacked(stack)
    BY DEF Nested, Placed, Where, IsDir, ListShape
<1>2. CASE Fails
    <2>1. failures' # 0
        BY <1>2, FailsCounted DEF Placed, ListShape
    <2>2. QED
        BY <1>1, <2>1, StopsPrinting
<1>3. CASE ~Fails
    <2> DEFINE k == Len(stack)
               r == Rest(Entry, 0)
    <2>1. stack' = Append(stack, Frame(Entry))
        BY <1>3 DEF Nested
    <2>2. /\ Len(stack') = k + 1 /\ k \in Nat
          /\ \A i \in 1 .. k : stack'[i] = stack[i]
          /\ stack'[k + 1] = Frame(Entry)
        BY <1>1, <2>1, AfterCall
    <2>3. PICK rest \in Pieces : Planned(rest)
        BY <1>1, PiecesOf
    <2>4. Pending = r /\ Pending' = <<>> /\ r \in Seq(Entries)
        BY <1>1, PendingIsListing, WithinIsListing DEF Pending, Within
    <2> HIDE DEF k, r
    <2>5. rest[k] \in Seq(Entries) /\ r \o rest[k] \in Seq(Entries)
        BY <2>2, <2>4, ConcatProperties DEF Pieces
    <2>6. k + 1 \in Nat
        BY <2>2
    <2>7. PICK new \in Pieces :
              new[k + 1] = r \o rest[k] /\ \A i \in Nat : i # k + 1 => new[i] = rest[i]
        BY <2>5, <2>6, PieceReplaced
    <2>8. new[0] = <<>>
        BY <2>2, <2>3, <2>7 DEF Planned
    <2>9. \A i \in 1 .. k + 1 : new[i] = Rest(stack[i].dir, stack[i].read)' \o new[i - 1]
        <3> SUFFICES ASSUME NEW i \in 1 .. k + 1
                     PROVE  new[i] = Rest(stack[i].dir, stack[i].read)' \o new[i - 1]
            OBVIOUS
        <3>1. new[i - 1] = rest[i - 1] /\ i \in Nat
            BY <2>2, <2>7
        <3>2. CASE i = k + 1
            <4>1. stack'[i].dir = Entry /\ stack'[i].read = 0 /\ i - 1 = k
                BY <1>1, <2>2, <3>2, FrameOf
            <4>2. Rest(stack[i].dir, stack[i].read)' = r
                BY <1>1, <4>1 DEF Rest, r
            <4>3. QED
                BY <2>7, <3>1, <3>2, <4>1, <4>2
        <3>3. CASE i # k + 1
            <4>1. stack'[i] = stack[i] /\ i \in 1 .. k
                BY <2>2, <3>3
            <4>2. Rest(stack[i].dir, stack[i].read)' = Rest(stack[i].dir, stack[i].read)
                BY <1>1, <4>1 DEF Rest
            <4>3. rest[i] = Rest(stack[i].dir, stack[i].read) \o rest[i - 1]
                BY <2>3, <4>1 DEF Planned, k
            <4>4. QED
                BY <2>7, <3>1, <3>3, <4>2, <4>3
        <3>4. QED
            BY <3>2, <3>3
    <2>10. Whole' = printed' \o (<<>> \o new[k + 1])
        <3>1. Whole = printed \o (r \o rest[k])
            BY <2>3, <2>4 DEF Planned, k
        <3>2. <<>> \o new[k + 1] = r \o rest[k]
            BY <2>5, <2>7, ConcatEmptySeq
        <3>3. Whole' = Whole /\ printed' = printed
            BY <1>1, SameListing
        <3>4. QED
            BY <3>1, <3>2, <3>3
    <2>11. Planned(new)'
        BY <2>2, <2>4, <2>8, <2>9, <2>10 DEF Planned
    <2>12. QED
        BY <1>1, <2>11, PrefixKept, GoesOn
<1>4. QED
    BY <1>2, <1>3

LEMMA ByReaddirStep == Placed /\ Placed' /\ ByReaddir /\ [ListNext]_list_vars => ByReaddir'
<1> SUFFICES ASSUME Placed, Placed', ByReaddir, [ListNext]_list_vars PROVE ByReaddir'
    OBVIOUS
<1>1. CASE UNCHANGED list_vars
    BY <1>1 DEF list_vars, ByReaddir, Planned, Pending, Whole, Within, Rest, Entry, Top, IsDir
<1>2. CASE Getdents \/ NextEntry \/ BatchDone
    <2>1. lister' = "06.3"
        BY <1>2 DEF Getdents, NextEntry, BatchDone, Placed, Where
    <2>2. QED
        BY <2>1 DEF ByReaddir
<1>3. QED
    BY <1>1, <1>2, OpenByReaddir, ReaddirByReaddir, EndOfDirByReaddir, PrintEntryByReaddir,
       StatFailsByReaddir, NestedByReaddir DEF ListNext

-----------------------------------------------------------------------------
(* getdents64: the first batch.                                            *)
\* Records further on end further on.
LEMMA OffsetsDiffer ==
    ASSUME NEW d \in Dirs, NEW i \in 0 .. Len(Children[d]), NEW j \in 0 .. Len(Children[d])
    PROVE  /\ Offset[d][i] < Offset[d][j] <=> i < j
           /\ Offset[d][i] = Offset[d][j] <=> i = j
           /\ Offset[d][i] <= Offset[d][j] <=> i <= j
<1>1. /\ Len(Children[d]) \in Nat /\ i \in Nat /\ j \in Nat
      /\ Offset[d][i] \in Nat /\ Offset[d][j] \in Nat
    BY Offsets
<1>2. i < j => Offset[d][i] < Offset[d][j]
    BY Offsets
<1>3. j < i => Offset[d][j] < Offset[d][i]
    BY Offsets
<1>4. QED
    BY <1>1, <1>2, <1>3

\* The first entries of a directory, one by one.
LEMMA Beginnings ==
    ASSUME NEW d \in Dirs
    PROVE  /\ SubSeq(Children[d], 1, 0) = <<>>
           /\ SubSeq(Children[d], 1, Len(Children[d])) = Children[d]
           /\ \A n \in 0 .. Len(Children[d]) : n < Len(Children[d]) =>
                 Append(SubSeq(Children[d], 1, n), Children[d][n + 1])
                    = SubSeq(Children[d], 1, n + 1)
<1> DEFINE s == Children[d]
<1>1. s \in Seq(Entries) /\ Len(s) \in Nat /\ \A n \in 1 .. Len(s) : s[n] \in Entries
    BY ChildrenAreEntries
<1> HIDE DEF s
<1>2. SubSeq(s, 1, 0) = <<>>
    BY SubSeqEmpty
<1>3. SubSeq(s, 1, Len(s)) = s
    BY <1>1, SubSeqFull
<1>4. ASSUME NEW n \in 0 .. Len(s), n < Len(s)
      PROVE  Append(SubSeq(s, 1, n), s[n + 1]) = SubSeq(s, 1, n + 1)
    <2>1. 1 \in 1 .. Len(s) /\ n + 1 \in 1 .. Len(s) /\ (n + 1) - 1 = n /\ s[n + 1] \in Entries
        BY <1>1, <1>4
    <2>2. SubSeq(s, 1, n + 1) = SubSeq(s, 1, n) \o <<s[n + 1]>>
        BY <1>1, <2>1, SubSeqRecursiveSecond
    <2>3. SubSeq(s, 1, n) \in Seq(Entries)
        BY <1>1, <1>4, SubSeqProperties
    <2>4. QED
        BY <2>1, <2>2, <2>3, AppendIsConcat
<1>5. QED
    BY <1>2, <1>3, <1>4 DEF s

LEMMA Beginning ==
    ASSUME NEW d \in Dirs, NEW n \in 0 .. Len(Children[d])
    PROVE  /\ Len(SubSeq(Children[d], 1, n)) = n
           /\ \A i \in 1 .. n : SubSeq(Children[d], 1, n)[i] = Children[d][i]
<1> DEFINE s == Children[d]
<1>1. s \in Seq(Entries)
    BY ChildrenAreEntries
<1> HIDE DEF s
<1>2. n \in 0 .. Len(s)
    BY DEF s
<1>3. Len(SubSeq(s, 1, n)) = n /\ \A i \in 1 .. n : SubSeq(s, 1, n)[i] = s[i]
    BY <1>1, <1>2
<1>4. QED
    BY <1>3 DEF s

\* More lines leave the first ones as they are.
LEMMA BegunKept ==
    ASSUME Placed, NEW f \in Nat, Begun(f), root' = root,
           NEW e \in Entries, printed' = printed \/ printed' = Append(printed, e)
    PROVE  Begun(f)'
<1>1. printed \in Seq(Entries) /\ Len(printed) \in Nat
    BY LenProperties DEF Placed, ListShape
<1>2. CASE printed' = printed
    BY <1>2 DEF Begun
<1>3. CASE printed' = Append(printed, e)
    <2>1. Len(printed') = Len(printed) + 1 /\ \A i \in 1 .. Len(printed) : printed'[i] = printed[i]
        BY <1>1, <1>3, AppendProperties
    <2>2. QED
        BY <1>1, <2>1 DEF Begun
<1>4. QED
    BY <1>2, <1>3

LEMMA FirstBatchInit == ListInit => InFirstBatch
    BY DEF ListInit, InFirstBatch, Before

LEMMA OpenInFirstBatch == Placed /\ InFirstBatch /\ Open => InFirstBatch'
<1> SUFFICES ASSUME Placed, Open, lister = "06.3" PROVE Before'
    BY DEF InFirstBatch, Open
<1>1. UNCHANGED <<printed, pos>> /\ printed = <<>> /\ pos = 0 /\ root \in Dirs
    BY ListingAssumption DEF Open, Placed, ListShape, Where
<1>2. CASE place' = "failed"
    BY <1>1, <1>2 DEF Before
<1>3. CASE stack' = <<Frame(root)>> /\ place' = "loop"
    BY <1>1, <1>3, FrameOf DEF Before
<1>4. QED
    BY <1>2, <1>3 DEF Open

\* The buffer takes as many entries as there is room for.
LEMMA GetdentsInFirstBatch == Placed /\ InFirstBatch /\ Getdents => InFirstBatch'
<1> SUFFICES ASSUME Placed, InFirstBatch, Getdents PROVE InFirstBatch'
    OBVIOUS
<1>1. lister = "06.3" /\ place = "loop" /\ UNCHANGED <<lister, root, printed, pos>>
    BY DEF Getdents
<1>2. /\ Len(stack) = 1 /\ stack[1] = Top /\ Top.dir = root /\ root \in Dirs
      /\ Top.read \in 0 .. Total /\ Size = Total /\ Total \in Nat
      /\ (\A i : End(i) = Offset[root][i]) /\ (\A i \in 0 .. Total : End(i) \in Nat)
      /\ Stacked(stack) /\ BUF_SIZE \in Nat /\ Offset[root][0] = 0
    BY <1>1, RootFrame, Offsets DEF Placed, ListShape
<1>3. CASE place' = "failed"
    <2>1. CASE Before
        BY <1>1, <1>3, <2>1 DEF InFirstBatch, Before
    <2>2. ASSUME NEW f \in 0 .. Total, Fits(f), After(f)
          PROVE  InFirstBatch'
        <3>1. After(f)' /\ Fits(f)' /\ Total' = Total
            BY <1>1, <1>3, <2>2 DEF After, Begun, Fits, Total
        <3>2. QED
            BY <1>1, <3>1 DEF InFirstBatch
    <2>3. QED
        BY <1>1, <2>1, <2>2 DEF InFirstBatch, During
<1>4. ASSUME NEW n \in 0 .. Size - Top.read,
             End(Top.read + n) <= End(Top.read) + BUF_SIZE,
             Top.read + n < Size => End(Top.read + n + 1) > End(Top.read) + BUF_SIZE,
             bufstart' = Top.read, Took(n), place' = IF n = 0 THEN "done" ELSE "batch"
      PROVE  InFirstBatch'
    <2>1. n \in Nat /\ Top.read + n <= Size
        BY <1>2, <1>4
    <2>2. stack'[1].read = Top.read + n
        BY <1>2, <1>4, <2>1, AfterTook
    <2>3. CASE Before
        <3>1. Top.read = 0 /\ pos = 0 /\ printed = <<>> /\ n \in 0 .. Total
            BY <1>1, <1>2, <2>1, <2>3 DEF Before
        <3>2. Fits(n)
            <4>1. End(0) = 0 /\ 0 + n = n /\ 0 + n + 1 = n + 1 /\ 0 + BUF_SIZE = BUF_SIZE
                BY <1>2, <2>1
            <4>2. QED
                BY <1>2, <1>4, <3>1, <4>1 DEF Fits
        <3>3. Fits(n)' /\ Total' = Total
            BY <1>1, <3>2 DEF Fits, Total
        <3>4. printed = SubSeq(Children[root], 1, 0) /\ 0 \in 0 .. n
            BY <1>2, <2>1, <3>1, Beginnings
        <3>5. CASE n = 0
            <4>1. Len(printed) = 0 /\ (Total = 0 => printed = Children[root])
                BY <1>2, <3>1, <3>4, Beginnings DEF Total
            <4>2. After(0)'
                BY <1>1, <1>4, <3>3, <3>5, <4>1 DEF After, Begun
            <4>3. QED
                BY <1>1, <3>1, <3>3, <3>5, <4>2 DEF InFirstBatch
        <3>6. CASE n # 0
            <4>1. During(n, 0)'
                BY <1>1, <1>2, <1>4, <2>1, <2>2, <3>1, <3>4, <3>6 DEF During
            <4>2. QED
                BY <1>1, <3>1, <3>3, <3>4, <4>1 DEF InFirstBatch
        <3>7. QED
            BY <3>5, <3>6
    <2>4. ASSUME NEW f \in 0 .. Total, Fits(f), After(f)
          PROVE  InFirstBatch'
        <3>1. Fits(f)' /\ Total' = Total /\ Begun(f)'
            BY <1>1, <2>4 DEF Fits, Total, After, Begun
        <3>2. f <= Top.read /\ f \in Nat
            BY <1>1, <1>2, <2>4 DEF After
        <3>3. stack'[1].read >= f
            BY <1>2, <2>1, <2>2, <3>2
        <3>4. f = Total => n = 0 /\ printed = Children[root]
            BY <1>1, <1>2, <2>1, <2>4, <3>2 DEF After
        <3>5. After(f)'
            BY <1>1, <1>4, <3>1, <3>3, <3>4 DEF After
        <3>6. QED
            BY <1>1, <3>1, <3>5 DEF InFirstBatch
    <2>5. QED
        BY <1>1, <2>3, <2>4 DEF InFirstBatch, During
<1>5. QED
    BY <1>3, <1>4 DEF Getdents

LEMMA NextEntryInFirstBatch == Placed /\ InFirstBatch /\ NextEntry => InFirstBatch'
<1> SUFFICES ASSUME Placed, InFirstBatch, NextEntry PROVE InFirstBatch'
    OBVIOUS
<1>1. /\ lister = "06.3" /\ place = "batch" /\ place' = place
      /\ UNCHANGED <<lister, root, stack, bufstart>>
    BY DEF NextEntry, Placed, Where
<1>2. /\ Top.dir = root /\ root \in Dirs /\ stack[1] = Top /\ Total \in Nat
      /\ Top.read \in 0 .. Total
      /\ (\A i : End(i) = Offset[root][i]) /\ (\A i \in 0 .. Total : End(i) \in Nat)
      /\ Offset[root][0] = 0
    BY <1>1, RootFrame, Offsets
<1>3. PICK f \in 0 .. Total : Fits(f) /\ ((\E n \in 0 .. f : During(f, n)) \/ After(f))
    BY <1>1 DEF InFirstBatch, Before
<1>4. Fits(f)' /\ Total' = Total /\ f \in Nat
    BY <1>1, <1>3 DEF Fits, Total
<1>5. ASSUME NEW n \in 0 .. f, During(f, n)
      PROVE  InFirstBatch'
    <2>1. Top.read = f /\ bufstart = 0 /\ pos = Offset[root][n] /\ n \in 0 .. Total
        BY <1>2, <1>3, <1>5 DEF During
    <2>2. n < f /\ n + 1 \in 1 .. f /\ n \in Nat
        <3>1. Offset[root][n] < Offset[root][f]
            BY <1>2, <2>1 DEF NextEntry
        <3>2. n < f
            BY <1>2, <1>3, <2>1, <3>1, OffsetsDiffer DEF Total
        <3>3. QED
            BY <1>5, <3>2
    <2>3. n + 1 \in AtPos
        <3>1. (n + 1) - 1 = n /\ n + 1 \in bufstart + 1 .. Top.read
            BY <2>1, <2>2
        <3>2. End(n) = End(bufstart) + pos
            BY <1>2, <2>1
        <3>3. QED
            BY <3>1, <3>2 DEF AtPos
    <2>4. PICK i \in AtPos : PrintRecord(i)
        BY <2>3 DEF NextEntry
    <2>5. i = n + 1
        <3>1. /\ i \in 1 .. Total /\ i - 1 \in 0 .. Total
              /\ Offset[root][i - 1] = Offset[root][bufstart] + pos
            BY <1>1, <2>4, RecordAtPos
        <3>2. Offset[root][i - 1] = Offset[root][n]
            BY <1>2, <2>1, <3>1
        <3>3. i - 1 = n
            BY <1>2, <2>1, <3>1, <3>2, OffsetsDiffer DEF Total
        <3>4. QED
            BY <2>2, <3>1, <3>3
    <2>6. pos' = Offset[root][n + 1]
        <3>1. /\ Offset[root][bufstart] + (pos + (End(i) - End(i - 1))) = Offset[root][i]
              /\ pos + (End(i) - End(i - 1)) \in Nat
            BY <1>1, <2>4, RecordAtPos
        <3>2. pos' = pos + (End(i) - End(i - 1)) /\ Offset[root][bufstart] = 0
            BY <1>2, <2>1, <2>4 DEF PrintRecord
        <3>3. QED
            BY <2>5, <3>1, <3>2
    <2>7. printed' = SubSeq(Children[root], 1, n + 1)
        <3>1. n < Total
            BY <1>2, <1>3, <2>2
        <3>2. printed' = Append(SubSeq(Children[root], 1, n), Children[root][n + 1])
            BY <1>2, <1>5, <2>4, <2>5 DEF During, PrintRecord
        <3>3. QED
            BY <1>2, <2>1, <3>1, <3>2, Beginnings DEF Total
    <2>8. During(f, n + 1)' /\ n + 1 \in 0 .. f
        BY <1>1, <1>2, <2>1, <2>2, <2>6, <2>7 DEF During
    <2>9. QED
        BY <1>1, <1>3, <1>4, <2>8 DEF InFirstBatch
<1>6. CASE After(f)
    <2>1. PICK e \in Entries : printed' = printed \/ printed' = Append(printed, e)
        <3>1. ASSUME NEW i \in AtPos, PrintRecord(i)
              PROVE  Children[Top.dir][i] \in Entries
            BY <1>1, <3>1, RecordAtPos, RootFrame
        <3>2. QED
            BY <3>1, ListingAssumption DEF NextEntry, PrintRecord, PrintGarbage
    <2>2. Begun(f)'
        BY <1>1, <1>4, <1>6, <2>1, BegunKept DEF After
    <2>3. After(f)'
        BY <1>1, <1>4, <1>6, <2>2 DEF After
    <2>4. QED
        BY <1>1, <1>3, <1>4, <2>3 DEF InFirstBatch
<1>7. QED
    BY <1>3, <1>5, <1>6

LEMMA BatchDoneInFirstBatch == Placed /\ InFirstBatch /\ BatchDone => InFirstBatch'
<1> SUFFICES ASSUME Placed, InFirstBatch, BatchDone PROVE InFirstBatch'
    OBVIOUS
<1>1. lister = "06.3" /\ place = "batch" /\ place' = "loop"
      /\ UNCHANGED <<lister, root, stack, bufstart, printed, pos>>
    BY DEF BatchDone, Placed, Where
<1>2. /\ root \in Dirs /\ stack[1] = Top /\ Total \in Nat
      /\ (\A i : End(i) = Offset[root][i]) /\ (\A i \in 0 .. Total : End(i) \in Nat)
      /\ Offset[root][0] = 0
    BY <1>1, RootFrame, Offsets
<1>3. PICK f \in 0 .. Total : Fits(f) /\ ((\E n \in 0 .. f : During(f, n)) \/ After(f))
    BY <1>1 DEF InFirstBatch, Before
<1>4. Fits(f)' /\ Total' = Total /\ f \in Nat
    BY <1>1, <1>3 DEF Fits, Total
<1>5. ASSUME NEW n \in 0 .. f, During(f, n)
      PROVE  After(f)'
    <2>1. Top.read = f /\ bufstart = 0 /\ pos = Offset[root][n] /\ n \in 0 .. Total
        BY <1>2, <1>3, <1>5 DEF During
    <2>2. n = f
        <3>1. Offset[root][n] \in Nat /\ Offset[root][f] \in Nat
            BY <1>2, <1>3, <2>1
        <3>2. Offset[root][f] <= Offset[root][n]
            BY <1>2, <2>1, <3>1 DEF BatchDone
        <3>3. f <= n
            BY <1>2, <1>3, <2>1, <3>2, OffsetsDiffer DEF Total
        <3>4. QED
            BY <1>4, <1>5, <3>3
    <2>3. printed = SubSeq(Children[root], 1, f)
        BY <1>5, <2>2 DEF During
    <2>4. Begun(f)
        <3>1. Len(printed) = f /\ \A i \in 1 .. f : printed[i] = Children[root][i]
            BY <1>2, <2>1, <2>2, <2>3, Beginning DEF Total
        <3>2. QED
            BY <1>4, <3>1 DEF Begun
    <2>5. f = Total => printed = Children[root]
        BY <1>2, <2>3, Beginnings DEF Total
    <2>6. stack'[1].read = f /\ Begun(f)'
        BY <1>1, <1>2, <2>1, <2>4 DEF Begun
    <2>7. QED
        BY <1>1, <1>4, <2>5, <2>6 DEF After
<1>6. After(f)'
    <2>1. CASE After(f)
        BY <1>1, <1>4, <2>1 DEF After, Begun
    <2>2. QED
        BY <1>3, <1>5, <2>1
<1>7. QED
    BY <1>1, <1>3, <1>4, <1>6 DEF InFirstBatch

\* The programs that use readdir.
LEMMA NotGetdents ==
    Placed /\ (Readdir \/ EndOfDir \/ PrintEntry \/ StatFails \/ Nested) => lister' # "06.3"
    BY DEF Readdir, EndOfDir, PrintEntry, StatFails, Nested, Placed, Where

LEMMA InFirstBatchStep == Placed /\ InFirstBatch /\ [ListNext]_list_vars => InFirstBatch'
<1> SUFFICES ASSUME Placed, InFirstBatch, [ListNext]_list_vars PROVE InFirstBatch'
    OBVIOUS
<1>1. CASE UNCHANGED list_vars
    BY <1>1 DEF list_vars, InFirstBatch, Fits, Before, During, After, Begun, Total
<1>2. CASE Readdir \/ EndOfDir \/ PrintEntry \/ StatFails \/ Nested
    BY <1>2, NotGetdents DEF InFirstBatch
<1>3. QED
    BY <1>1, <1>2, OpenInFirstBatch, GetdentsInFirstBatch, NextEntryInFirstBatch,
       BatchDoneInFirstBatch DEF ListNext

-----------------------------------------------------------------------------
(* getdents64: any batch.                                                  *)
LEMMA BatchesInit == ListInit => InBatches
<1> SUFFICES ASSUME ListInit PROVE InBatches
    OBVIOUS
<1>1. Listed = {} /\ place = "open"
    BY DEF ListInit, Listed
<1>2. [i \in {} |-> 0] \in Locations
    BY <1>1 DEF Locations
<1>3. Located([i \in {} |-> 0])
    BY <1>1 DEF Located, Embeds
<1>4. QED
    BY <1>2, <1>3 DEF InBatches

\* A step that leaves what was printed of records behind it.
LEMMA LocatedKept ==
    ASSUME NEW at \in Locations, Located(at), UNCHANGED <<lister, root>>,
           Listed' = Listed, \A i \in Listed : printed'[i] = printed[i],
           place' \in {"loop", "batch"} => \A i \in Listed : at[i] <= stack'[1].read,
           place' = "batch" => \A i \in Listed : Past(at[i])'
    PROVE  InBatches'
<1>1. Whole' = Whole
    BY SameListing
<1>2. at \in Locations' /\ Embeds(at)'
    BY <1>1 DEF Locations, Embeds, Located
<1>3. Located(at)'
    BY <1>2 DEF Located
<1>4. QED
    BY <1>2, <1>3 DEF InBatches

\* The lines of the entries printed, and their places in the listing.
LEMMA Lines ==
    ASSUME Placed, lister = "06.3", place \in {"loop", "batch"}
    PROVE  /\ printed \in Seq(Entries) /\ Len(printed) \in Nat
           /\ DOMAIN printed = 1 .. Len(printed) /\ Listed \subseteq 1 .. Len(printed)
           /\ Whole = Children[root] /\ DOMAIN Whole = 1 .. Total
           /\ \A at \in Locations : \A i \in Listed : at[i] \in 1 .. Total
<1>1. printed \in Seq(Entries) /\ root \in Dirs
    BY RootFrame DEF Placed, ListShape
<1>2. Len(printed) \in Nat /\ DOMAIN printed = 1 .. Len(printed)
    BY <1>1, LenProperties
<1>3. Whole = Children[root]
    BY DEF Whole
<1>4. DOMAIN Whole = 1 .. Total
    BY <1>1, <1>3, ChildrenAreEntries, LenProperties DEF Total
<1>5. \A at \in Locations : \A i \in Listed : at[i] \in 1 .. Total
    BY <1>4 DEF Locations
<1>6. QED
    BY <1>1, <1>2, <1>3, <1>4, <1>5 DEF Listed

LEMMA OpenInBatches == Placed /\ InBatches /\ Open => InBatches'
<1> SUFFICES ASSUME Placed, InBatches, Open, lister = "06.3" PROVE InBatches'
    BY DEF InBatches, Open
<1>1. printed = <<>> /\ UNCHANGED <<lister, root, printed>>
    BY DEF Open, Placed, Where
<1>2. Listed = {} /\ Listed' = {}
    BY <1>1 DEF Listed
<1>3. PICK at \in Locations : Located(at)
    BY DEF InBatches
<1>4. QED
    BY <1>1, <1>2, <1>3, LocatedKept

LEMMA GetdentsInBatches == Placed /\ InBatches /\ Getdents => InBatches'
<1> SUFFICES ASSUME Placed, InBatches, Getdents PROVE InBatches'
    OBVIOUS
<1>1. lister = "06.3" /\ place = "loop" /\ UNCHANGED <<lister, root, printed>> /\ Listed' = Listed
    BY DEF Getdents, Listed
<1>2. PICK at \in Locations : Located(at)
    BY <1>1 DEF InBatches
<1>3. CASE place' = "failed"
    BY <1>1, <1>2, <1>3, LocatedKept
<1>4. ASSUME NEW n \in 0 .. Size - Top.read, bufstart' = Top.read, Took(n),
             place' = IF n = 0 THEN "done" ELSE "batch"
      PROVE  InBatches'
    <2>1. /\ Len(stack) = 1 /\ stack[1] = Top /\ Top.read \in Nat /\ Size \in Nat /\ Stacked(stack)
          /\ Total \in Nat
        BY <1>1, RootFrame DEF Placed, ListShape
    <2>2. n \in Nat /\ Top.read + n <= Size
        BY <1>4, <2>1
    <2>3. stack'[1].read = Top.read + n
        BY <1>4, <2>1, <2>2, AfterTook
    <2>4. \A i \in Listed : at[i] \in Nat /\ at[i] <= Top.read
        <3>1. \A i \in Listed : at[i] \in 1 .. Total
            BY <1>1, <1>2, Lines
        <3>2. \A i \in Listed : at[i] <= Top.read
            BY <1>1, <1>2, <2>1 DEF Located
        <3>3. QED
            BY <2>1, <3>1, <3>2
    <2>5. \A i \in Listed : at[i] <= stack'[1].read
        BY <2>1, <2>2, <2>3, <2>4
    <2>6. \A i \in Listed : Past(at[i])'
        BY <1>1, <1>4, <2>4 DEF Past
    <2>7. QED
        BY <1>1, <1>2, <2>5, <2>6, LocatedKept
<1>5. QED
    BY <1>3, <1>4 DEF Getdents

LEMMA BatchDoneInBatches == Placed /\ InBatches /\ BatchDone => InBatches'
<1> SUFFICES ASSUME Placed, InBatches, BatchDone, lister = "06.3" PROVE InBatches'
    BY DEF InBatches, BatchDone
<1>1. /\ UNCHANGED <<lister, root, printed, stack>> /\ Listed' = Listed
      /\ place = "batch" /\ place' = "loop"
    BY DEF BatchDone, Listed
<1>2. PICK at \in Locations : Located(at)
    BY DEF InBatches
<1>3. \A i \in Listed : at[i] <= stack'[1].read
    BY <1>1, <1>2 DEF Located
<1>4. QED
    BY <1>1, <1>2, <1>3, LocatedKept

\* pos only grows, so that what was behind it stays there.
LEMMA PastKept ==
    ASSUME Placed, lister = "06.3", place = "batch", NEW n \in 1 .. Total, Past(n),
           UNCHANGED <<root, bufstart>>, pos' \in Nat, pos <= pos'
    PROVE  Past(n)'
<1>1. /\ root \in Dirs /\ Total \in Nat /\ bufstart \in 0 .. Total /\ pos \in Nat
      /\ \A i \in 0 .. Total : Offset[root][i] \in Nat
    BY RootFrame, Offsets DEF Placed, ListShape, Total
<1>2. PICK a \in Nat, b \in Nat : a = Offset[root][n] /\ b = Offset[root][bufstart]
    BY <1>1
<1>3. CASE n <= bufstart
    BY <1>3 DEF Past
<1>4. CASE a <= b + pos
    <2>1. a <= b + pos'
        BY <1>1, <1>4
    <2>2. QED
        BY <1>2, <2>1 DEF Past
<1>5. QED
    BY <1>2, <1>3, <1>4 DEF Past

LEMMA GarbageInBatches ==
    Placed /\ InBatches /\ NextEntry /\ PrintGarbage => InBatches'
<1> SUFFICES ASSUME Placed, InBatches, NextEntry, PrintGarbage PROVE InBatches'
    OBVIOUS
<1>1. /\ lister = "06.3" /\ place = "batch" /\ place' = "batch"
      /\ UNCHANGED <<lister, root, stack, bufstart>>
    BY DEF NextEntry, Placed, Where
<1>2. PICK at \in Locations : Located(at)
    BY <1>1 DEF InBatches
<1>3. /\ printed \in Seq(Entries) /\ Len(printed) \in Nat /\ DOMAIN printed = 1 .. Len(printed)
      /\ Listed \subseteq 1 .. Len(printed) /\ \A i \in Listed : at[i] \in 1 .. Total
    BY <1>1, <1>2, Lines
<1>4. Listed' = Listed /\ \A i \in Listed : printed'[i] = printed[i]
    <2>1. CASE printed' = printed
        BY <2>1 DEF Listed
    <2>2. CASE printed' = Append(printed, Garbage)
        <3>1. /\ DOMAIN printed' = 1 .. Len(printed) + 1
              /\ \A i \in 1 .. Len(printed) : printed'[i] = printed[i]
              /\ printed'[Len(printed) + 1] = Garbage
            BY <1>3, <2>2, AppendProperties, ListingAssumption
        <3>2. QED
            BY <1>3, <3>1 DEF Listed
    <2>3. QED
        BY <2>1, <2>2 DEF PrintGarbage
<1>5. pos' \in Nat /\ pos <= pos'
    BY ListingAssumption DEF PrintGarbage, Placed, ListShape
<1>6. \A i \in Listed : Past(at[i])'
    <2>1. \A i \in Listed : Past(at[i])
        BY <1>1, <1>2 DEF Located
    <2>2. QED
        BY <1>1, <1>3, <1>5, <2>1, PastKept
<1>7. \A i \in Listed : at[i] <= stack'[1].read
    BY <1>1, <1>2 DEF Located
<1>8. QED
    BY <1>1, <1>2, <1>4, <1>6, <1>7, LocatedKept

LEMMA RecordInBatches ==
    ASSUME Placed, InBatches, NextEntry, NEW i \in AtPos, PrintRecord(i)
    PROVE  InBatches'
<1>1. /\ lister = "06.3" /\ place = "batch" /\ place' = "batch"
      /\ UNCHANGED <<lister, root, stack, bufstart>>
    BY DEF NextEntry, Placed, Where
<1>2. PICK at \in Locations : Located(at)
    BY <1>1 DEF InBatches
<1> DEFINE k == Len(printed)
           e == Children[Top.dir][i]
<1>3. /\ Top.dir = root /\ root \in Dirs /\ stack[1] = Top /\ Total \in Nat
      /\ bufstart \in Nat /\ Top.read \in Nat /\ Top.read <= Total
      /\ e \in Entries /\ e # Garbage /\ i \in 1 .. Total /\ bufstart < i /\ i <= Top.read
      /\ i - 1 \in 0 .. Total /\ pos \in Nat /\ pos' \in Nat
      /\ Offset[root][i - 1] = Offset[root][bufstart] + pos
      /\ Offset[root][i] = Offset[root][bufstart] + pos'
    BY <1>1, RootFrame, RecordAtPos, ListingAssumption
    DEF PrintRecord, Total, Placed, ListShape
<1>4. /\ printed \in Seq(Entries) /\ k \in Nat /\ DOMAIN printed = 1 .. k /\ Listed \subseteq 1 .. k
      /\ DOMAIN Whole = 1 .. Total /\ Whole[i] = e
      /\ \A j \in Listed : at[j] \in 1 .. Total
    BY <1>1, <1>2, <1>3, Lines
<1>5. /\ DOMAIN printed' = 1 .. k + 1 /\ printed'[k + 1] = e
      /\ \A j \in 1 .. k : printed'[j] = printed[j]
    BY <1>3, <1>4, AppendProperties DEF PrintRecord
<1> HIDE DEF k, e
<1>6. Listed' = Listed \cup {k + 1} /\ k + 1 \notin Listed
    BY <1>3, <1>4, <1>5 DEF Listed
<1>7. pos <= pos'
    <2>1. Offset[root][i - 1] < Offset[root][i] /\ bufstart \in 0 .. Total
        BY <1>3, OffsetsDiffer DEF Total
    <2>2. Offset[root][bufstart] \in Nat
        BY <1>3, <2>1, Offsets DEF Total
    <2>3. PICK b \in Nat : b = Offset[root][bufstart]
        BY <2>2
    <2>4. b + pos < b + pos'
        BY <1>3, <2>1, <2>3
    <2>5. QED
        BY <1>3, <2>4
<1>8. ASSUME NEW j \in Listed
      PROVE  at[j] < i
    <2>1. at[j] \in 1 .. Total /\ (at[j] <= bufstart \/ Offset[root][at[j]] <= Offset[root][i - 1])
        BY <1>1, <1>2, <1>3, <1>4 DEF Located, Past
    <2>2. CASE at[j] <= bufstart
        BY <1>3, <2>1, <2>2
    <2>3. CASE Offset[root][at[j]] <= Offset[root][i - 1]
        <3>1. at[j] \in 0 .. Total
            BY <1>3, <2>1
        <3>2. at[j] <= i - 1
            BY <1>3, <2>3, <3>1, OffsetsDiffer DEF Total
        <3>3. QED
            BY <1>3, <2>1, <3>2
    <2>4. QED
        BY <2>1, <2>2, <2>3
<1>9. PICK new \in [Listed \cup {k + 1} -> 1 .. Total] :
          new[k + 1] = i /\ \A j \in Listed : new[j] = at[j]
    <2> DEFINE f == [j \in Listed \cup {k + 1} |-> IF j \in Listed THEN at[j] ELSE i]
    <2>1. f \in [Listed \cup {k + 1} -> 1 .. Total]
        BY <1>3, <1>4
    <2>2. f[k + 1] = i /\ \A j \in Listed : f[j] = at[j]
        BY <1>6
    <2>3. QED
        BY <2>1, <2>2
<1>10. Whole' = Whole
    BY <1>1, SameListing
<1>11. \A j, l \in Listed \cup {k + 1} : j < l => new[j] < new[l]
    <2> SUFFICES ASSUME NEW j \in Listed \cup {k + 1}, NEW l \in Listed \cup {k + 1}, j < l
                 PROVE  new[j] < new[l]
        OBVIOUS
    <2>1. j \in Listed
        BY <1>4 DEF k
    <2>2. CASE l \in Listed
        BY <1>2, <1>9, <2>1, <2>2 DEF Located, Embeds
    <2>3. CASE l = k + 1
        BY <1>8, <1>9, <2>1, <2>3
    <2>4. QED
        BY <2>2, <2>3
<1>12. \A j \in Listed \cup {k + 1} : printed'[j] = Whole[new[j]]
    <2> SUFFICES ASSUME NEW j \in Listed \cup {k + 1} PROVE printed'[j] = Whole[new[j]]
        OBVIOUS
    <2>1. CASE j \in Listed
        <3>1. printed[j] = Whole[at[j]] /\ j \in 1 .. k
            BY <1>2, <1>4, <2>1 DEF Located, Embeds
        <3>2. QED
            BY <1>5, <1>9, <2>1, <3>1
    <2>2. CASE j = k + 1
        BY <1>4, <1>5, <1>9, <2>2
    <2>3. QED
        BY <2>1, <2>2
<1>13. new \in Locations' /\ Embeds(new)'
    BY <1>4, <1>6, <1>9, <1>10, <1>11, <1>12 DEF Locations, Embeds
<1>14. Located(new)'
    <2> DEFINE behind(n) == n <= bufstart \/ Offset[root][n] <= Offset[root][bufstart] + pos'
    <2>1. \A n : Past(n)' <=> behind(n)
        BY <1>1 DEF Past
    <2>2. \A j \in Listed : new[j] <= stack[1].read /\ behind(new[j])
        <3>1. \A j \in Listed : at[j] <= stack[1].read /\ Past(at[j])
            BY <1>1, <1>2 DEF Located
        <3>2. \A j \in Listed : Past(at[j])'
            BY <1>1, <1>3, <1>4, <1>7, <3>1, PastKept
        <3>3. \A j \in Listed : new[j] = at[j]
            BY <1>9
        <3>4. QED
            BY <2>1, <3>1, <3>2, <3>3
    <2>3. i <= stack[1].read /\ behind(i)
        <3>1. Offset[root][i] \in Nat
            BY <1>3, Offsets DEF Total
        <3>2. QED
            BY <1>3, <3>1
    <2> HIDE DEF behind
    <2>4. \A j \in Listed \cup {k + 1} : new[j] <= stack[1].read /\ behind(new[j])
        BY <1>9, <2>2, <2>3
    <2>5. \A j \in Listed' : new[j] <= stack'[1].read /\ Past(new[j])'
        BY <1>1, <1>6, <2>1, <2>4
    <2>6. QED
        BY <1>1, <1>13, <2>5 DEF Located
<1>15. QED
    BY <1>13, <1>14 DEF InBatches

LEMMA InBatchesStep == Placed /\ InBatches /\ [ListNext]_list_vars => InBatches'
<1> SUFFICES ASSUME Placed, InBatches, [ListNext]_list_vars PROVE InBatches'
    OBVIOUS
<1>1. CASE UNCHANGED list_vars
    BY <1>1 DEF list_vars, InBatches, Locations, Located, Embeds, Listed, Past, Whole
<1>2. CASE Readdir \/ EndOfDir \/ PrintEntry \/ StatFails \/ Nested
    BY <1>2, NotGetdents DEF InBatches
<1>3. CASE NextEntry
    BY <1>3, GarbageInBatches, RecordInBatches DEF NextEntry
<1>4. QED
    BY <1>1, <1>2, <1>3, OpenInBatches, GetdentsInBatches, BatchDoneInBatches DEF ListNext

-----------------------------------------------------------------------------
(* The four listings, whatever fails: each keeps to its stack or buffer    *)
(* and to what of the listing it has printed and has still to print.       *)
THEOREM ListInvariant == ListSpec => []ListInv
<1>1. ListInit => ListInv
    BY PlacedInit, ReaddirInit, FirstBatchInit, BatchesInit DEF ListInv
<1>2. ListInv /\ [ListNext]_list_vars => ListInv'
    <2> SUFFICES ASSUME ListInv, [ListNext]_list_vars PROVE ListInv'
        OBVIOUS
    <2>1. Placed'
        BY PlacedStep DEF ListInv
    <2>2. ByReaddir' /\ InFirstBatch' /\ InBatches'
        BY <2>1, ByReaddirStep, InFirstBatchStep, InBatchesStep DEF ListInv
    <2>3. QED
        BY <2>1, <2>2 DEF ListInv
<1>3. QED
    BY <1>1, <1>2, PTL DEF ListSpec

\* The first part of a sequence is a prefix of it.
LEMMA PartIsPrefix ==
    ASSUME NEW s \in Seq(Entries), NEW r \in Seq(Entries)
    PROVE  IsPrefix(s, s \o r)
<1> DEFINE t == s \o r
<1>1. /\ t \in Seq(Entries) /\ Len(t) = Len(s) + Len(r) /\ Len(s) \in Nat /\ Len(r) \in Nat
      /\ \A i \in 1 .. Len(s) : t[i] = s[i]
    BY ConcatProperties, LenProperties
<1> HIDE DEF t
<1>2. /\ SubSeq(s, 1, Len(s)) \in Seq(Entries) /\ Len(SubSeq(s, 1, Len(s))) = Len(s)
      /\ SubSeq(t, 1, Len(s)) \in Seq(Entries) /\ Len(SubSeq(t, 1, Len(s))) = Len(s)
      /\ \A i \in 1 .. Len(s) : SubSeq(s, 1, Len(s))[i] = s[i] /\ SubSeq(t, 1, Len(s))[i] = t[i]
    BY <1>1
<1>3. SubSeq(s, 1, Len(s)) = SubSeq(t, 1, Len(s))
    BY <1>1, <1>2, SeqEqual
<1>4. IsPrefix(s, t)
    BY <1>1, <1>3 DEF IsPrefix
<1>5. QED
    BY <1>4 DEF t

LEMMA BeginningIsPrefix ==
    ASSUME NEW s \in Seq(Entries), NEW n \in 0 .. Len(s)
    PROVE  IsPrefix(SubSeq(s, 1, n), s)
<1>1. Len(s) \in Nat /\ n \in Nat /\ \A i \in 1 .. Len(s) : s[i] \in Entries
    BY LenProperties, ElementOfSeq
<1>2. /\ SubSeq(s, 1, n) \in Seq(Entries) /\ SubSeq(s, n + 1, Len(s)) \in Seq(Entries)
    BY <1>1, SubSeqProperties
<1>3. SubSeq(s, 1, n) \o SubSeq(s, n + 1, Len(s)) = SubSeq(s, 1, Len(s))
    <2>1. PICK l \in Nat : l = Len(s)
        BY <1>1
    <2>2. 1 \in 1 .. Len(s) + 1 /\ n \in 1 - 1 .. Len(s) /\ l \in n .. Len(s)
        BY <1>1, <2>1
    <2>3. SubSeq(s, 1, n) \o SubSeq(s, n + 1, l) = SubSeq(s, 1, l)
        BY <2>2, ConcatAdjacentSubSeq
    <2>4. QED
        BY <2>1, <2>3
<1>4. SubSeq(s, 1, Len(s)) = s
    BY SubSeqFull
<1>5. IsPrefix(SubSeq(s, 1, n), SubSeq(s, 1, n) \o SubSeq(s, n + 1, Len(s)))
    BY <1>2, PartIsPrefix
<1>6. QED
    BY <1>3, <1>4, <1>5

(* What the first batch holds, from its end on; if the buffer takes the    *)
(* directory, that is all of it.                                           *)
LEMMA FirstEntries ==
    ASSUME Placed, lister = "06.3", NEW f \in 0 .. Total, Fits(f)
    PROVE  FirstBatch \subseteq 1 .. f /\ (OneBatch => f = Total)
<1>1. /\ root \in Dirs /\ Total \in Nat /\ BUF_SIZE \in Nat
      /\ DOMAIN Children[root] = 1 .. Total
    BY ListingAssumption, Offsets, ChildrenAreEntries, LenProperties
    DEF Placed, ListShape, Total
<1>2. ASSUME NEW n \in 1 .. Total, Offset[root][n] <= BUF_SIZE
      PROVE  n <= f
    <2> SUFFICES ASSUME f < n PROVE FALSE
        BY <1>1
    <2>1. f + 1 \in 0 .. Total /\ n \in 0 .. Total /\ f + 1 <= n /\ f < Total
        BY <1>1
    <2>2. Offset[root][f + 1] <= Offset[root][n]
        BY <1>1, <2>1, OffsetsDiffer DEF Total
    <2>3. Offset[root][f + 1] \in Nat /\ Offset[root][n] \in Nat
        BY <1>1, <2>1, Offsets DEF Total
    <2>4. Offset[root][f + 1] > BUF_SIZE
        BY <2>1 DEF Fits
    <2>5. QED
        BY <1>1, <1>2, <2>2, <2>3, <2>4
<1>3. FirstBatch \subseteq 1 .. f
    BY <1>1, <1>2 DEF FirstBatch
<1>4. OneBatch => f = Total
    <2>1. CASE Total = 0
        BY <2>1
    <2>2. CASE Total # 0
        <3>1. Total \in 1 .. Total
            BY <1>1, <2>2
        <3>2. QED
            BY <1>1, <1>2, <3>1 DEF OneBatch, Total
    <2>3. QED
        BY <2>1, <2>2
<1>5. QED
    BY <1>3, <1>4

(* 06.4-Recursive6.2.c:25-61 and the loops of the others: for trees,       *)
(* records and buffers of any size, whatever fails, a listing is at any    *)
(* time the beginning of the whole.  In several batches of 06.3 that holds *)
(* of the first; of the others, in which entries may be lost and garbage   *)
(* printed, only that the lines of records are in order and none twice.    *)
THEOREM NoHolesInListings == ListSpec => []NoHoles
<1>1. ListInv => NoHoles
    <2> SUFFICES ASSUME ListInv PROVE NoHoles
        OBVIOUS
    <2>1. /\ root \in Roots /\ root \in Dirs /\ printed \in Seq(Entries) /\ Placed
          /\ Len(printed) \in Nat /\ DOMAIN printed = 1 .. Len(printed) /\ Total \in Nat
        BY ListingAssumption, LenProperties, Offsets DEF ListInv, Placed, ListShape, Total
    <2>2. CASE lister # "06.3"
        <3>1. PICK r \in Seq(Entries) : Whole = printed \o r
            BY <2>2 DEF ListInv, ByReaddir
        <3>2. IsPrefix(printed, Whole)
            BY <2>1, <3>1, PartIsPrefix
        <3>3. QED
            BY <2>2, <3>2 DEF NoHoles, OneBatch
    <2>3. CASE lister = "06.3"
        <3>1. Whole = Children[root] /\ Children[root] \in Seq(Entries)
            BY <2>1, <2>3, ChildrenAreEntries DEF Whole
        <3>2. CASE printed = <<>>
            <4>1. printed = SubSeq(Children[root], 1, 0) /\ 0 \in 0 .. Total
                BY <2>1, <3>2, Beginnings
            <4>2. IsPrefix(printed, Whole)
                <5>1. 0 \in 0 .. Len(Children[root])
                    BY <4>1 DEF Total
                <5>2. IsPrefix(SubSeq(Children[root], 1, 0), Children[root])
                    BY <3>1, <5>1, BeginningIsPrefix
                <5>3. QED
                    BY <3>1, <4>1, <5>2, Zenon
            <4>3. DOMAIN printed = {}
                BY <3>2
            <4>4. QED
                BY <2>3, <4>2, <4>3 DEF NoHoles, ListInv, InBatches, Locations, Located
        <3>3. ASSUME NEW f \in 0 .. Total, Fits(f), NEW n \in 0 .. f, During(f, n)
              PROVE  NoHoles
            <4>1. printed = SubSeq(Children[root], 1, n) /\ n \in 0 .. Total
                BY <2>1, <3>3 DEF During
            <4>2. IsPrefix(printed, Whole)
                BY <3>1, <4>1, BeginningIsPrefix DEF Total
            <4>3. \A m \in DOMAIN printed : printed[m] = Whole[m]
                BY <2>1, <3>1, <4>1, Beginning DEF Total
            <4>4. QED
                BY <2>3, <4>2, <4>3 DEF NoHoles, ListInv, InBatches, Locations, Located
        <3>4. ASSUME NEW f \in 0 .. Total, Fits(f), After(f)
              PROVE  NoHoles
            <4>1. \A m \in FirstBatch : printed[m] = Whole[m]
                BY <2>1, <2>3, <3>1, <3>4, FirstEntries DEF After, Begun
            <4>2. CASE OneBatch
                <5>1. printed = SubSeq(Children[root], 1, Total) /\ Total \in 0 .. Total
                    BY <2>1, <2>3, <3>4, <4>2, FirstEntries, Beginnings DEF After, Total
                <5>2. IsPrefix(printed, Whole)
                    BY <3>1, <5>1, BeginningIsPrefix DEF Total
                <5>3. QED
                    BY <4>2, <5>2 DEF NoHoles
            <4>3. QED
                BY <2>3, <4>1, <4>2 DEF NoHoles, ListInv, InBatches, Locations, Located
        <3>5. QED
            BY <2>3, <3>2, <3>3, <3>4 DEF ListInv, InFirstBatch, Before
    <2>4. QED
        BY <2>2, <2>3
<1>2. QED
    BY <1>1, ListInvariant, PTL

(* 06.4-Recursive6.2.c:55-64, 06.3-Getdents.c:45-84: for trees and records *)
(* of any size, a listing of which no call has failed ends with all of it  *)
(* printed, and so does 06.3 whatever fstatat does; what it has printed if *)
(* one buffer does not take the directory begins with the first batch.     *)
THEOREM CompleteListings == ListSpec => []CompleteUnlessFailed
<1>1. ListInv => CompleteUnlessFailed
    <2> SUFFICES ASSUME ListInv PROVE CompleteUnlessFailed
        OBVIOUS
    <2>1. place = "failed" => failures > 0
        BY DEF ListInv, Placed, Where
    <2> SUFFICES ASSUME place = "done", failures = 0 \/ lister = "06.3"
                 PROVE  IF OneBatch THEN printed = Whole ELSE FirstBatch \subseteq DOMAIN printed
        BY <2>1 DEF CompleteUnlessFailed
    <2>2. /\ root \in Roots /\ root \in Dirs /\ printed \in Seq(Entries) /\ Placed
          /\ Len(printed) \in Nat /\ DOMAIN printed = 1 .. Len(printed) /\ Total \in Nat
        BY ListingAssumption, LenProperties, Offsets DEF ListInv, Placed, ListShape, Total
    <2>3. CASE lister # "06.3"
        <3>1. OneBatch /\ stack = <<>>
            BY <2>3 DEF OneBatch, ListInv, ByReaddir
        <3>2. PICK rest \in Pieces : Planned(rest)
            BY <2>3 DEF ListInv, ByReaddir, Pieces
        <3>3. Pending = <<>> /\ rest[Len(stack)] = <<>>
            BY <3>1, <3>2 DEF Pending, Planned
        <3>4. Whole = printed
            BY <2>2, <3>2, <3>3, ConcatEmptySeq DEF Planned
        <3>5. QED
            BY <3>1, <3>4
    <2>4. CASE lister = "06.3"
        <3>1. PICK f \in 0 .. Total : Fits(f) /\ After(f)
            BY <2>4 DEF ListInv, InFirstBatch, Before, During
        <3>2. FirstBatch \subseteq 1 .. f /\ (OneBatch => f = Total)
            BY <2>2, <2>4, <3>1, FirstEntries
        <3>3. f <= Len(printed) /\ (f = Total => printed = Whole)
            BY <2>4, <3>1 DEF After, Begun, Whole
        <3>4. QED
            BY <2>2, <3>2, <3>3
    <2>5. QED
        BY <2>3, <2>4
<1>2. QED
    BY <1>1, ListInvariant, PTL
=============================================================================
