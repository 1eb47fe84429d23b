------------------------------ MODULE Listing ------------------------------
(***************************************************************************)
(* The directory listings of 06-Readdir.  06.1, 06.2 and 06.4 read with    *)
(* readdir and look at errno after every entry they get, although a        *)
(* readdir that succeeds leaves it alone: an error of an earlier call ends *)
(* the loop, in 06.4 the loops of all directories above as well.  06.3     *)
(* reads batches with getdents64 and does not set pos back between them,   *)
(* so that pos may be anywhere in a later one.                             *)
(*                                                                         *)
(* The calls of print_dir that have not returned are frames on a stack,    *)
(* the innermost last.  The entries . and .. are left out, with their      *)
(* records.                                                                *)
(***************************************************************************)
EXTENDS Naturals, Sequences, SequencesExt

CONSTANTS
    Entries,        \* whatever may be printed: what directories hold, and
    Garbage,        \* what 06.3 prints of bytes that are no record
    Children,       \* from each directory to the sequence of its entries
    Roots,          \* the directories a listing may be asked for
    Unknown,        \* entries whose type needs a call of lstat or fstatat
    Offset,         \* Offset[d][n]: the length of the first n records of d
    BUF_SIZE,       \* of the buffer of 06.3
    MaxPrinted,     \* bound: lines that are printed before one of garbage
    MaxFailures     \* bound: calls that fail

Dirs == DOMAIN Children

\* Every record is at least one byte long and fits the buffer.
ASSUME ListingAssumption ==
    /\ Dirs \subseteq Entries /\ Roots \subseteq Dirs /\ Unknown \subseteq Entries
    /\ Children \in [Dirs -> Seq(Entries)]
    /\ Garbage \in Entries
    /\ \A d \in Dirs : \A i \in 1 .. Len(Children[d]) : Children[d][i] # Garbage
    /\ BUF_SIZE \in Nat /\ MaxFailures \in Nat /\ MaxPrinted \in Nat
    /\ \A d \in Dirs :
          /\ Offset[d] \in [0 .. Len(Children[d]) -> Nat] /\ Offset[d][0] = 0
          /\ \A i, j \in 0 .. Len(Children[d]) : i < j => Offset[d][i] < Offset[d][j]
          /\ \A i \in 1 .. Len(Children[d]) : Offset[d][i] <= Offset[d][i - 1] + BUF_SIZE

\* A directory after some of its entries.
Places == UNION {{d} \X (0 .. Len(Children[d])) : d \in Dirs}

\* What a listing prints from a place on, with the listings of the directories
\* it meets.
FromWith(from, d, n) ==
    IF n = Len(Children[d]) THEN <<>>
    ELSE LET e == Children[d][n + 1]
         IN  <<e>> \o (IF e \in Dirs THEN from[<<e, 0>>] ELSE <<>>) \o from[<<d, n + 1>>]

From[p \in Places] == FromWith(From, p[1], p[2])

\* No directory is within itself, so that the recursion of From ends.
ASSUME TreeAssumption ==
    /\ From \in [Places -> Seq(Entries)]
    /\ \A p \in Places : From[p] = FromWith(From, p[1], p[2])

VARIABLES
    lister,     \* the program: "06.1", "06.2", "06.3" or "06.4"
    root,       \* the directory to list
    place,      \* where the program is
    stack,      \* frames: the directory and how many entries were read
    errno,      \* whether it is different from 0
    bufstart,   \* 06.3: how many entries lie before those in the buffer
    pos,        \* 06.3: its variable
    printed,    \* the entries printed
    failures    \* how many calls have failed

list_vars == <<lister, root, place, stack, errno, bufstart, pos, printed, failures>>

Frame(d) == [dir |-> d, read |-> 0]
Top      == stack[Len(stack)]
Size     == Len(Children[Top.dir])
Entry    == Children[Top.dir][Top.read]
Took(n)  == stack' = [stack EXCEPT ![Len(stack)].read = @ + n]
Leave    == /\ stack' = SubSeq(stack, 1, Len(stack) - 1)
            /\ place' = IF Len(stack) = 1 THEN "done" ELSE "loop"
Fails    == failures < MaxFailures /\ failures' = failures + 1

ListInit ==
    /\ lister \in {"06.1", "06.2", "06.3", "06.4"} /\ root \in Roots
    /\ place = "open" /\ stack = <<>> /\ errno = FALSE
    /\ bufstart = 0 /\ pos = 0 /\ printed = <<>> /\ failures = 0

\* 06.3 takes no notice but has getdents64 fail, nor does 06.4's main.
Open ==
    /\ place = "open"
    /\ \/ stack' = <<Frame(root)>> /\ place' = "loop" /\ UNCHANGED <<errno, failures>>
       \/ /\ Fails /\ errno' = TRUE /\ UNCHANGED stack
          /\ place' = IF lister = "06.4" THEN "done" ELSE "failed"
    /\ UNCHANGED <<lister, root, bufstart, pos, printed>>

-----------------------------------------------------------------------------
(* readdir: 06.1, 06.2, 06.4.                                              *)
\* Fault: errno is not looked at.
ReaddirTrusted ==
    /\ place = "loop" /\ lister # "06.3" /\ Top.read < Size
    /\ Took(1) /\ place' = "entry"
    /\ UNCHANGED <<lister, root, errno, bufstart, pos, printed, failures>>

Readdir ==
    /\ place = "loop" /\ lister # "06.3" /\ Top.read < Size
    /\ IF errno THEN Leave ELSE Took(1) /\ place' = "entry"
    /\ UNCHANGED <<lister, root, errno, bufstart, pos, printed, failures>>

\* A null pointer: the end of the directory, or an error taken for it.
EndOfDir ==
    /\ place = "loop" /\ lister # "06.3"
    /\ \/ Top.read = Size /\ UNCHANGED <<errno, failures>>
       \/ Fails /\ errno' = TRUE
    /\ Leave
    /\ UNCHANGED <<lister, root, bufstart, pos, printed>>

IsDir(e) == lister = "06.4" /\ e \in Dirs

PrintEntry ==
    /\ place = "entry"
    /\ printed' = Append(printed, Entry)
    /\ place' = IF IsDir(Entry) THEN "nested" ELSE "loop"
    /\ UNCHANGED <<lister, root, stack, errno, bufstart, pos, failures>>

\* 06.1 stops; the others print '?', for which 06.4 opens no directory.
StatFails ==
    /\ place = "entry" /\ Entry \in Unknown
    /\ Fails /\ errno' = TRUE
    /\ IF lister = "06.1"
       THEN Leave /\ UNCHANGED printed
       ELSE printed' = Append(printed, Entry) /\ place' = "loop" /\ UNCHANGED stack
    /\ UNCHANGED <<lister, root, bufstart, pos>>

\* Fault: the nested listing replaces the one it is called from.
NestedTailCall ==
    /\ place = "nested"
    /\ stack' = [stack EXCEPT ![Len(stack)] = Frame(Entry)] /\ place' = "loop"
    /\ UNCHANGED <<lister, root, errno, bufstart, pos, printed, failures>>

\* openat may fail, and fdopendir on its -1, or fdopendir alone.
Nested ==
    /\ place = "nested"
    /\ \/ stack' = Append(stack, Frame(Entry)) /\ UNCHANGED <<errno, failures>>
       \/ Fails /\ errno' = TRUE /\ UNCHANGED stack
    /\ place' = "loop"
    /\ UNCHANGED <<lister, root, bufstart, pos, printed>>

-----------------------------------------------------------------------------
(* getdents64: 06.3.  In the buffer are the entries bufstart + 1 .. read.  *)
\* The length of the first n records.
End(n) == Offset[Top.dir][n]

\* As many entries as the buffer takes.
Getdents ==
    /\ place = "loop" /\ lister = "06.3"
    /\ \/ \E n \in 0 .. Size - Top.read :
             /\ End(Top.read + n) <= End(Top.read) + BUF_SIZE
             /\ Top.read + n < Size => End(Top.read + n + 1) > End(Top.read) + BUF_SIZE
             /\ bufstart' = Top.read /\ Took(n)
             /\ place' = IF n = 0 THEN "done" ELSE "batch"
          /\ UNCHANGED <<errno, failures>>
       \/ Fails /\ errno' = TRUE /\ place' = "failed" /\ UNCHANGED <<bufstart, stack>>
    /\ UNCHANGED <<lister, root, pos, printed>>

\* The entries whose record begins at pos.
AtPos == {i \in bufstart + 1 .. Top.read : End(i - 1) = End(bufstart) + pos}

\* An entry whose fstatat fails is printed as well.
PrintRecord(i) ==
    /\ printed' = Append(printed, Children[Top.dir][i])
    /\ pos' = pos + (End(i) - End(i - 1))
    /\ \/ UNCHANGED <<errno, failures>>
       \/ Children[Top.dir][i] \in Unknown /\ Fails /\ errno' = TRUE

\* Within a record, whatever is there has a name and a length, which may be 0,
\* and is printed unless the name happens to be . or ..  A length beyond that
\* of the buffer makes no difference.
PrintGarbage ==
    /\ \/ Len(printed) < MaxPrinted /\ printed' = Append(printed, Garbage)
       \/ UNCHANGED printed
    /\ \E reclen \in 0 .. BUF_SIZE : pos' = pos + reclen
    /\ UNCHANGED <<errno, failures>> \/ (Fails /\ errno' = TRUE)

NextEntry ==
    /\ place = "batch" /\ End(bufstart) + pos < End(Top.read)
    /\ (\E i \in AtPos : PrintRecord(i)) \/ (AtPos = {} /\ PrintGarbage)
    /\ UNCHANGED <<lister, root, place, stack, bufstart>>

BatchDone ==
    /\ place = "batch" /\ End(bufstart) + pos >= End(Top.read)
    /\ place' = "loop"
    /\ UNCHANGED <<lister, root, stack, errno, bufstart, pos, printed, failures>>

ListNext ==
    \/ Open \/ Readdir \/ EndOfDir \/ PrintEntry \/ StatFails \/ Nested
    \/ Getdents \/ NextEntry \/ BatchDone

ListSpec == ListInit /\ [][ListNext]_list_vars

-----------------------------------------------------------------------------
(* The listing of a directory, with the listings of those in it for 06.4.  *)
Whole == IF lister = "06.4" THEN From[<<root, 0>>] ELSE Children[root]
OneBatch == lister = "06.3" => Offset[root][Len(Children[root])] <= BUF_SIZE

\* The entries of the first batch of 06.3.
FirstBatch == {n \in DOMAIN Children[root] : Offset[root][n] <= BUF_SIZE}

\* The lines printed of records, and where in the listing these are: in its
\* order, none of them twice.
Listed == {i \in DOMAIN printed : printed[i] # Garbage}
Embeds(at) ==
    /\ \A i, j \in Listed : i < j => at[i] < at[j]
    /\ \A i \in Listed : printed[i] = Whole[at[i]]

(* 06.4-Recursive6.2.c:25-61 and the loops of the others: whatever fails,  *)
(* what has been printed is the beginning of the listing, never a listing  *)
(* with a hole.  Of several batches of 06.3 this holds of the first; later *)
(* ones may lose entries and add lines of garbage (06.3-Getdents.c:59-82), *)
(* but what they print of records is still in order, and nothing twice.    *)
NoHoles ==
    IF OneBatch THEN IsPrefix(printed, Whole)
    ELSE /\ \A n \in FirstBatch \cap DOMAIN printed : printed[n] = Whole[n]
         /\ \E at \in [Listed -> DOMAIN Whole] : Embeds(at)

(* 06.4-Recursive6.2.c:55-64, 06.3-Getdents.c:45-84: a listing that ends   *)
(* without a failing call is complete, and so is one of 06.3 that comes to *)
(* its end whatever fstatat does; but of several batches only the first is *)
(* sure to be there.  (A failing call may cut the others short: see the    *)
(* errno that is left behind.)                                             *)
CompleteUnlessFailed ==
    /\ place = "failed" => failures > 0
    /\ place = "done" /\ (failures = 0 \/ lister = "06.3") =>
          IF OneBatch THEN printed = Whole ELSE FirstBatch \subseteq DOMAIN printed
=============================================================================
