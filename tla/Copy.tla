-------------------------------- MODULE Copy --------------------------------
(***************************************************************************)
(* Copying one regular file with Library/util.c: copying_entry (03.1),     *)
(* pcopying (03.2, 03.STAR) and copying_all (04, 05), from the lstat of    *)
(* the original to the exit status.  Reads and writes may be short or      *)
(* fail, and another program may append to the original meanwhile.         *)
(*                                                                         *)
(* A byte is identified with its position in the original, which thus is   *)
(* 1 .. length.                                                            *)
(***************************************************************************)
EXTENDS Integers, Sequences

CONSTANTS
    MaxLength,  \* bound of the original's length
    BLCSZ       \* size of a block

ASSUME CopyAssumption == MaxLength \in Nat /\ BLCSZ \in Nat \ {0}

Programs == {"entry", "pos", "all"}

VARIABLES
    program,        \* which of the three copies
    length,         \* of the original
    sb_size,        \* its length when it was lstat-ed
    offset,         \* where the next read begins
    buf,            \* the block that has been read
    bytes_written,  \* how much of it has been written
    copy,           \* the bytes of the copy
    owner, mode, mtime,   \* the copy's: "new", or "old" as the original's
    pc, result

reading == <<length, offset, buf>>
attributes == <<owner, mode, mtime>>
vars == <<program, sb_size, reading, bytes_written, copy, attributes, pc, result>>

Init ==
    /\ program \in Programs
    /\ length \in 0 .. MaxLength /\ sb_size = length
    /\ offset = 0 /\ buf = <<>> /\ bytes_written = 0
    /\ copy = <<>>
    /\ owner = "new" /\ mode = "new" /\ mtime = "new"
    /\ pc = "open" /\ result = 0

\* open() of both files; the copy is created or truncated.
OpenFiles ==
    /\ pc = "open"
    /\ \/ pc' = "read" /\ UNCHANGED result
       \/ pc' = "exited" /\ result' = -1
    /\ UNCHANGED <<program, sb_size, reading, bytes_written, copy, attributes>>

AfterData == IF program = "all" THEN "fchown" ELSE "close"

\* Fault: a failing read is taken for the end of the file.
ReadErrorIsEnd ==
    /\ pc = "read"
    /\ UNCHANGED <<program, sb_size, length, copy, attributes, result>>
    /\ \/ /\ pc' = AfterData
          /\ UNCHANGED <<offset, buf, bytes_written>>
       \/ \E n \in 1 .. BLCSZ :
             /\ offset + n <= length
             /\ buf' = [i \in 1 .. n |-> offset + i]
             /\ offset' = IF program = "pos" THEN offset ELSE offset + n
             /\ bytes_written' = 0 /\ pc' = "write"

\* Fault: an empty file is read again and again.
ReadForever ==
    /\ pc = "read"
    /\ offset < length
    /\ \E n \in 1 .. BLCSZ :
          /\ offset + n <= length
          /\ buf' = [i \in 1 .. n |-> offset + i]
          /\ offset' = IF program = "pos" THEN offset ELSE offset + n
    /\ bytes_written' = 0 /\ pc' = "write"
    /\ UNCHANGED <<program, sb_size, length, copy, attributes, result>>

\* read or pread: some bytes, the end of the file, or an error, after which
\* copying_all returns at once.  read moves the offset, pread does not.
Read ==
    /\ pc = "read"
    /\ \/ \E n \in 1 .. BLCSZ :
             /\ offset + n <= length
             /\ buf' = [i \in 1 .. n |-> offset + i]
             /\ offset' = IF program = "pos" THEN offset ELSE offset + n
             /\ bytes_written' = 0 /\ pc' = "write"
             /\ UNCHANGED result
       \/ /\ offset >= length
          /\ pc' = AfterData
          /\ UNCHANGED <<offset, buf, bytes_written, result>>
       \/ /\ pc' = "close" /\ result' = -1
          /\ UNCHANGED <<offset, buf, bytes_written>>
    /\ UNCHANGED <<program, sb_size, length, copy, attributes>>

\* The position of the next byte: the copy's own offset for write, the one
\* pcopying keeps for pwrite.
Position == IF program = "pos" THEN offset + bytes_written ELSE Len(copy)

Overwrite(at, data) ==
    [i \in 1 .. (IF at + Len(data) > Len(copy) THEN at + Len(data) ELSE Len(copy)) |->
        IF at < i /\ i <= at + Len(data) THEN data[i - at] ELSE copy[i]]

\* Fault: after a short write the block is written from its beginning.
WriteRestarts ==
    /\ pc = "write" /\ bytes_written < Len(buf)
    /\ \E n \in 1 .. Len(buf) - bytes_written :
          /\ copy' = Overwrite(Position, SubSeq(buf, 1, n))
          /\ bytes_written' = bytes_written + n
    /\ mtime' = "new"
    /\ UNCHANGED <<program, sb_size, reading, owner, mode, pc, result>>

\* One write or pwrite of writeall or pwriteall.
Write ==
    /\ pc = "write" /\ bytes_written < Len(buf)
    /\ \E n \in 1 .. Len(buf) - bytes_written :
          /\ copy' = Overwrite(Position, SubSeq(buf, bytes_written + 1, bytes_written + n))
          /\ bytes_written' = bytes_written + n
    /\ mtime' = "new"
    /\ UNCHANGED <<program, sb_size, reading, owner, mode, pc, result>>

\* The loop ends, but copying_all still goes on to the attributes.
WriteFails ==
    /\ pc = "write" /\ bytes_written < Len(buf)
    /\ pc' = AfterData /\ result' = -1
    /\ UNCHANGED <<program, sb_size, reading, bytes_written, copy, attributes>>

\* Fault: pcopying moves on by a whole block.
BlockDoneWhole ==
    /\ pc = "write" /\ bytes_written = Len(buf)
    /\ offset' = IF program = "pos" THEN offset + BLCSZ ELSE offset
    /\ pc' = "read"
    /\ UNCHANGED <<program, sb_size, length, buf, bytes_written, copy, attributes, result>>

BlockDone ==
    /\ pc = "write" /\ bytes_written = Len(buf)
    /\ offset' = IF program = "pos" THEN offset + Len(buf) ELSE offset
    /\ pc' = "read"
    /\ UNCHANGED <<program, sb_size, length, buf, bytes_written, copy, attributes, result>>

\* fchown takes the set-user-ID bit of the original away again.
Fchown ==
    /\ pc = "fchown" /\ pc' = "fchmod"
    /\ \/ owner' = "old" /\ mode' = "new" /\ UNCHANGED result
       \/ result' = -1 /\ UNCHANGED <<owner, mode>>
    /\ UNCHANGED <<program, sb_size, reading, bytes_written, copy, mtime>>

\* Fault: a failure to change the mode is only printed.
FchmodIgnored ==
    /\ pc = "fchmod" /\ pc' = "futimens"
    /\ mode' = "old" \/ UNCHANGED mode
    /\ UNCHANGED <<program, sb_size, reading, bytes_written, copy, owner, mtime, result>>

Fchmod ==
    /\ pc = "fchmod" /\ pc' = "futimens"
    /\ \/ mode' = "old" /\ UNCHANGED result
       \/ result' = -1 /\ UNCHANGED mode
    /\ UNCHANGED <<program, sb_size, reading, bytes_written, copy, owner, mtime>>

Futimens ==
    /\ pc = "futimens" /\ pc' = "close"
    /\ \/ mtime' = "old" /\ UNCHANGED result
       \/ result' = -1 /\ UNCHANGED mtime
    /\ UNCHANGED <<program, sb_size, reading, bytes_written, copy, owner, mode>>

CloseFiles ==
    /\ pc = "close" /\ pc' = "exited"
    /\ result' \in {result, -1}
    /\ UNCHANGED <<program, sb_size, reading, bytes_written, copy, attributes>>

\* Another program appends to the original.
Grow ==
    /\ length < MaxLength
    /\ length' = length + 1
    /\ UNCHANGED <<program, sb_size, offset, buf, bytes_written, copy, attributes,
                   pc, result>>

Step ==
    \/ OpenFiles \/ Read \/ Write \/ WriteFails \/ BlockDone
    \/ Fchown \/ Fchmod \/ Futimens \/ CloseFiles

Next == Step \/ Grow

Spec == Init /\ [][Next]_vars

\* The copying process runs on.
FairSpec == Spec /\ WF_vars(Step)

-----------------------------------------------------------------------------
(* Types and bounds; the offset stays within the original.                 *)
TypeOK ==
    /\ program \in Programs
    /\ length \in 0 .. MaxLength /\ sb_size \in 0 .. length /\ offset \in 0 .. length
    /\ buf \in Seq(1 .. length) /\ Len(buf) <= BLCSZ
    /\ bytes_written \in 0 .. Len(buf)
    /\ copy \in Seq(Nat)
    /\ {owner, mode, mtime} \subseteq {"old", "new"}
    /\ pc \in {"open", "read", "write", "fchown", "fchmod", "futimens", "close", "exited"}
    /\ result \in {0, -1}

(* util.c:3-48, 352-400: whatever is short, fails or is appended, the copy *)
(* is at any time a beginning of the original, without gaps or repeats.    *)
AlwaysPrefix ==
    Len(copy) <= length /\ \A i \in 1 .. Len(copy) : copy[i] = i

(* An exit status of 0 means that all the original had when it was looked  *)
(* at has been copied.                                                     *)
CompleteOnSuccess ==
    pc = "exited" /\ result = 0 => Len(copy) >= sb_size

(* util.c:79-98: copying_all succeeds only with owner, mode (after the     *)
(* fchown, which can reset it) and times (after the last write) in place.  *)
AttributesOnSuccess ==
    pc = "exited" /\ result = 0 /\ program = "all" =>
        owner = "old" /\ mode = "old" /\ mtime = "old"

(* The copy ends once the original no longer grows.                        *)
Ends == <>(pc = "exited")
=============================================================================
