--------------------------- MODULE DirCopy_proofs ---------------------------
(* Theorems about DirCopy, checked with TLAPS.                             *)
EXTENDS DirCopy, SequenceTheorems, TLAPS

Paths == Seq(Names)
Frames == [old: Paths, new: Paths, listed: SUBSET Names, seen: SUBSET Names,
           at: {"readdir"} \cup Kinds, entry: Names \cup {""}, result: {0, 0 - 1}]

-----------------------------------------------------------------------------
(* Paths.                                                                  *)

(* A path is inside a directory if it begins like it. *)
LEMMA InsideIs ==
    ASSUME NEW p \in Paths, NEW d \in Paths
    PROVE  Inside(p, d) <=> Len(d) <= Len(p) /\ \A k \in 1 .. Len(d) : p[k] = d[k]
<1> DEFINE l == Len(d)
           s == SubSeq(p, 1, l)
<1>1. Len(p) \in Nat /\ l \in Nat
    BY DEF Paths
<1>2. CASE l <= Len(p)
    <2>1. \A i \in 1 .. l : p[i] \in Names
        BY <1>1, <1>2, ElementOfSeq DEF Paths
    <2> HIDE DEF l
    <2>2. /\ s \in Seq(Names)
          /\ Len(s) = IF 1 <= l THEN l - 1 + 1 ELSE 0
          /\ \A i \in 1 .. l - 1 + 1 : s[i] = p[1 + i - 1]
        <3>1. 1 \in Int /\ l \in Int
            BY <1>1
        <3> QED
            BY <2>1, <3>1, SubSeqProperties
    <2> HIDE DEF s
    <2>3. Len(s) = l /\ \A i \in 1 .. l : s[i] = p[i]
        BY <2>2, <1>1
    <2>4. (\A i \in 1 .. Len(s) : s[i] = d[i]) => s = d
        BY <2>2, <2>3, SeqEqual, Zenon DEF Paths, l
    <2>5. (\A k \in 1 .. l : p[k] = d[k]) <=> s = d
        BY <2>3, <2>4
    <2> QED
        BY <1>1, <1>2, <2>5 DEF Inside, s, l
<1> QED
    BY <1>1, <1>2 DEF Inside

(* The entry of a directory has a path that is one longer.                 *)
LEMMA EntryPath ==
    ASSUME NEW d \in Paths, NEW n \in Names
    PROVE  /\ Append(d, n) \in Paths
           /\ Len(Append(d, n)) = Len(d) + 1
           /\ \A k \in 1 .. Len(d) : Append(d, n)[k] = d[k]
           /\ Append(d, n)[Len(d) + 1] = n
    BY AppendProperties DEF Paths

LEMMA InsideEntry ==
    ASSUME NEW d \in Paths, NEW n \in Names, NEW e \in Paths, Inside(d, e)
    PROVE  Inside(Append(d, n), e)
<1> DEFINE a == Append(d, n)
<1>1. Len(d) \in Nat /\ Len(e) \in Nat
    BY DEF Paths
<1>2. a \in Paths /\ Len(a) = Len(d) + 1 /\ \A k \in 1 .. Len(d) : a[k] = d[k]
    BY EntryPath
<1> HIDE DEF a
<1>3. Len(e) <= Len(d) /\ \A k \in 1 .. Len(e) : d[k] = e[k]
    BY InsideIs
<1>4. Len(e) <= Len(a) /\ \A k \in 1 .. Len(e) : a[k] = e[k]
    BY <1>1, <1>2, <1>3
<1>5. Inside(a, e)
    BY <1>2, <1>4, InsideIs
<1> QED
    BY <1>5 DEF a

-----------------------------------------------------------------------------
(* The file system and the stack.                                          *)

\* What is always true of one frame.
FrameOK(f) ==
    /\ IsDir(f.old) /\ IsDir(f.new)
    /\ Inside(f.new, new_dir_name)
    /\ f.at # "readdir" => f.entry \in Names
    /\ f.at = "dir" => IsDir(Append(f.old, f.entry))
    /\ f.at = "node" => Append(f.old, f.entry) \in DOMAIN fs \cup DOMAIN before

Files ==
    /\ before \in Trees
    /\ \A p \in DOMAIN fs : p \in Paths /\ fs[p].kind \in Kinds
    /\ \A p \in DOMAIN fs : p \in DOMAIN before \/ Inside(p, new_dir_name)

Stacked ==
    /\ stack \in Seq(Frames)
    /\ pc = "copying" => stack # <<>>
    /\ \A i \in 1 .. Len(stack) : FrameOK(stack[i])
    /\ \A i \in 1 .. Len(stack) - 1 :
         /\ stack[i].at = "dir"
         /\ stack[i + 1].old = Append(stack[i].old, stack[i].entry)
         /\ stack[i + 1].new = Append(stack[i].new, stack[i].entry)
    /\ 2 * Len(stack) <= MaxOpen

Others ==
    /\ new_dir_name \in NewDirs
    /\ pc \in {"start", "copying", "done", "crashed"}
    /\ pc = "start" => fs = before /\ stack = <<>>
    /\ result \in {0, 0 - 1}
    /\ failures \in 0 .. MaxFailures /\ changes \in 0 .. MaxChanges

TInv == Files /\ Stacked /\ Others

LEMMA TypesFollow == TInv => TypeOK
<1> SUFFICES ASSUME TInv PROVE TypeOK
    OBVIOUS
<1>1. Len(stack) \in Nat /\ DOMAIN stack = 1 .. Len(stack)
    BY DEF TInv, Stacked
<1>2. \A i \in DOMAIN stack : stack[i] \in Frames
    BY <1>1, ElementOfSeq DEF TInv, Stacked
<1>3. ASSUME NEW i \in DOMAIN stack
      PROVE  /\ stack[i].result \in {0, 0 - 1}
             /\ stack[i].at \in {"readdir"} \cup Kinds
             /\ IsDir(stack[i].old) /\ IsDir(stack[i].new)
    BY <1>1, <1>2 DEF TInv, Stacked, FrameOK, Frames
<1>4. ASSUME NEW i \in DOMAIN stack, i > 1
      PROVE  /\ stack[i - 1].at = "dir"
             /\ stack[i].old = Append(stack[i - 1].old, stack[i - 1].entry)
             /\ stack[i].new = Append(stack[i - 1].new, stack[i - 1].entry)
    <2>1. i - 1 \in 1 .. Len(stack) - 1 /\ (i - 1) + 1 = i
        BY <1>1, <1>4
    <2> QED
        BY <2>1 DEF TInv, Stacked
<1> QED
    BY <1>3, <1>4 DEF TInv, Files, Stacked, Others, TypeOK, Paths

\* Directories stay, and so does what is known of other entries.
Kept ==
    /\ UNCHANGED <<new_dir_name, before>>
    /\ \A p : IsDir(p) => IsDir(p)'
    /\ DOMAIN fs \cup DOMAIN before \subseteq DOMAIN fs' \cup DOMAIN before

LEMMA FramesKept ==
    ASSUME Kept
    PROVE  \A f : FrameOK(f) => FrameOK(f)'
    BY DEF Kept, FrameOK, Inside

(* An entry is set inside the new directory. *)
LEMMA EntrySet ==
    ASSUME Files, UNCHANGED <<new_dir_name, before>>, NEW q \in Paths,
           Inside(q, new_dir_name), NEW e, e.kind \in Kinds,
           IsDir(q) => e.kind = "dir", fs' = With(q, e)
    PROVE  Files' /\ Kept
<1>1. /\ DOMAIN fs' = DOMAIN fs \cup {q} /\ fs'[q] = e
      /\ \A p \in DOMAIN fs \ {q} : fs'[p] = fs[p]
    BY DEF With
<1>2. before' = before /\ new_dir_name' = new_dir_name
    OBVIOUS
<1>3. \A p : IsDir(p) => IsDir(p)'
    BY <1>1 DEF IsDir
<1>4. \A p \in DOMAIN fs' : p \in Paths /\ fs'[p].kind \in Kinds
    BY <1>1 DEF Files
<1>5. \A p \in DOMAIN fs' : p \in DOMAIN before' \/ Inside(p, new_dir_name')
    BY <1>1, <1>2 DEF Files
<1> QED
    BY <1>1, <1>2, <1>3, <1>4, <1>5 DEF Files, Kept, Inside

LEMMA NothingSet ==
    ASSUME Files, UNCHANGED <<new_dir_name, before, fs>>
    PROVE  Files' /\ Kept
    BY DEF Files, Kept, IsDir, Inside

(* The innermost frame. *)
LEMMA TopIs ==
    ASSUME TInv, pc = "copying"
    PROVE  /\ Len(stack) \in 1 .. Len(stack) /\ Len(stack) \in Nat /\ Len(stack) > 0
           /\ Top \in Frames /\ FrameOK(Top)
           /\ Top.old \in Paths /\ Top.new \in Paths
           /\ new_dir_name \in Paths
           /\ Top.at # "readdir" =>
                /\ OldEntry \in Paths /\ NewEntry \in Paths
                /\ Inside(NewEntry, new_dir_name)
<1>1. stack \in Seq(Frames) /\ stack # <<>>
    BY DEF TInv, Stacked
<1>2. Len(stack) \in 1 .. Len(stack) /\ Len(stack) \in Nat /\ Len(stack) > 0
    BY <1>1, EmptySeq
<1>3. Top \in Frames
    BY <1>1, <1>2, ElementOfSeq DEF Top
<1>4. FrameOK(Top) /\ Top.old \in Paths /\ Top.new \in Paths
    BY <1>2, <1>3 DEF TInv, Stacked, Top, Frames
<1>5. new_dir_name \in Paths
    BY DirCopyAssumption DEF TInv, Others, Paths
<1>6. ASSUME Top.at # "readdir" PROVE Top.entry \in Names
    BY <1>4, <1>6 DEF FrameOK
<1>7. ASSUME Top.at # "readdir"
      PROVE  /\ OldEntry \in Paths /\ NewEntry \in Paths
             /\ Inside(NewEntry, new_dir_name)
    BY <1>4, <1>5, <1>6, <1>7, EntryPath, InsideEntry DEF OldEntry, NewEntry, FrameOK
<1> QED
    BY <1>2, <1>3, <1>4, <1>5, <1>7

(* The frames stay. *)
LEMMA StackStays ==
    ASSUME TInv, Kept, UNCHANGED stack, pc' = "copying" => stack # <<>>
    PROVE  Stacked'
<1>1. ASSUME NEW i \in 1 .. Len(stack) PROVE FrameOK(stack[i])'
    <2>1. FrameOK(stack[i])
        BY DEF TInv, Stacked
    <2> QED
        BY <2>1 DEF FrameOK, Kept, Inside
<1> QED
    BY <1>1 DEF TInv, Stacked

(* The innermost frame goes on. *)
LEMMA TopGoesOn ==
    ASSUME TInv, pc = "copying", UNCHANGED pc, Kept, NEW f \in Frames,
           f.old = Top.old, f.new = Top.new, FrameOK(f)', SetTop(f)
    PROVE  Stacked'
<1> DEFINE n == Len(stack)
<1>1. n \in 1 .. n /\ n \in Nat /\ n > 0
    BY TopIs
<1>2. stack \in Seq(Frames)
    BY DEF TInv, Stacked
<1>3. /\ stack' \in Seq(Frames) /\ Len(stack') = n
      /\ \A j \in 1 .. n : stack'[j] = IF j = n THEN f ELSE stack[j]
    BY <1>1, <1>2, ExceptSeq DEF SetTop
<1> HIDE DEF n
<1>4. stack' # <<>>
    BY <1>1, <1>3, EmptySeq
<1>5. ASSUME NEW i \in 1 .. n PROVE FrameOK(stack[i])
    BY DEF TInv, Stacked, n
<1>6. ASSUME NEW i \in 1 .. n PROVE FrameOK(stack[i])'
    <2>1. CASE i = n
        BY <1>3, <2>1 DEF FrameOK, IsDir, Inside
    <2>2. CASE i # n
        <3>1. stack'[i] = stack[i]
            BY <1>3, <2>2
        <3> QED
            BY <1>5, <3>1 DEF FrameOK, Kept, Inside
    <2> QED
        BY <2>1, <2>2
<1>7. ASSUME NEW i \in 1 .. n - 1
      PROVE  /\ stack'[i].at = "dir"
             /\ stack'[i + 1].old = Append(stack'[i].old, stack'[i].entry)
             /\ stack'[i + 1].new = Append(stack'[i].new, stack'[i].entry)
    <2>1. i \in 1 .. n /\ i + 1 \in 1 .. n /\ i # n
        BY <1>1
    <2>2. stack'[i] = stack[i]
        BY <1>3, <2>1
    <2>3. stack'[i + 1].old = stack[i + 1].old /\ stack'[i + 1].new = stack[i + 1].new
        BY <1>3, <2>1 DEF Top, n
    <2> QED
        BY <2>2, <2>3 DEF TInv, Stacked, n
<1> QED
    BY <1>3, <1>4, <1>6, <1>7 DEF TInv, Stacked, n

(* copy_dir is called for the innermost frame's directory. *)
LEMMA Called ==
    ASSUME TInv, pc = "copying", UNCHANGED pc, Kept, NEW names \in SUBSET Names,
           Top.at = "dir", CanOpen(2),
           NewEntry \in DOMAIN fs', fs'[NewEntry].kind = "dir",
           stack' = Append(stack, Frame(OldEntry, NewEntry, names))
    PROVE  Stacked'
<1> DEFINE n == Len(stack)
           f == Frame(OldEntry, NewEntry, names)
<1>1. n \in 1 .. n /\ n \in Nat /\ n > 0 /\ stack \in Seq(Frames)
    BY TopIs DEF TInv, Stacked
<1>2. /\ OldEntry \in Paths /\ NewEntry \in Paths /\ Inside(NewEntry, new_dir_name)
      /\ IsDir(OldEntry)
    BY TopIs DEF FrameOK, OldEntry
<1>3. f \in Frames
    BY <1>2 DEF Frames, Frame
<1>4. /\ stack' \in Seq(Frames) /\ Len(stack') = n + 1 /\ stack' # <<>>
      /\ \A j \in 1 .. n : stack'[j] = stack[j]
      /\ stack'[n + 1] = f
    BY <1>1, <1>3, AppendProperties
<1>9. f.old = OldEntry /\ f.new = NewEntry /\ f.at = "readdir"
    BY DEF Frame
<1> HIDE DEF n, f
<1>5. ASSUME NEW i \in 1 .. n + 1 PROVE FrameOK(stack[i])'
    <2>1. CASE i = n + 1
        <3>1. IsDir(OldEntry) => OldEntry \in DOMAIN fs' /\ fs'[OldEntry].kind = "dir"
            BY DEF Kept, IsDir
        <3> QED
            BY <1>2, <1>4, <1>9, <2>1, <3>1 DEF FrameOK, Kept, IsDir, Inside
    <2>2. CASE i # n + 1
        <3>1. i \in 1 .. n /\ stack'[i] = stack[i]
            BY <1>1, <1>4, <2>2
        <3>2. FrameOK(stack[i])
            BY <3>1 DEF TInv, Stacked, n
        <3> QED
            BY <3>1, <3>2 DEF FrameOK, Kept, Inside
    <2> QED
        BY <2>1, <2>2
<1>6. ASSUME NEW i \in 1 .. n
      PROVE  /\ stack'[i].at = "dir"
             /\ stack'[i + 1].old = Append(stack'[i].old, stack'[i].entry)
             /\ stack'[i + 1].new = Append(stack'[i].new, stack'[i].entry)
    <2>1. CASE i = n
        <3>1. stack'[n] = Top /\ stack'[n + 1] = f
            BY <1>1, <1>4 DEF Top, n
        <3> QED
            BY <1>9, <2>1, <3>1 DEF OldEntry, NewEntry
    <2>2. CASE i # n
        <3>1. i \in 1 .. n - 1 /\ i + 1 \in 1 .. n
            BY <1>1, <2>2
        <3> QED
            BY <1>4, <3>1 DEF TInv, Stacked, n
    <2> QED
        BY <2>1, <2>2
<1>7. 2 * (n + 1) <= MaxOpen
    BY <1>1, DirCopyAssumption DEF CanOpen, n
<1>8. (n + 1) - 1 = n
    BY <1>1
<1> QED
    BY <1>4, <1>5, <1>6, <1>7, <1>8 DEF Stacked

\* The frame of a caller that goes on with its next entry.
GoesBack(g, n, res) ==
    /\ n - 1 \in 1 .. n /\ n - 1 \in Nat /\ n - 1 > 0
    /\ g.old = stack[n - 1].old /\ g.new = stack[n - 1].new
    /\ g.listed = stack[n - 1].listed /\ g.seen = stack[n - 1].seen
    /\ g.at = "readdir" /\ g.entry = stack[n - 1].entry
    /\ g.result = IF res = 0 THEN stack[n - 1].result ELSE 0 - 1
    /\ stack' \in Seq(Frames) /\ Len(stack') = n - 1 /\ stack' # <<>>
    /\ \A i \in 1 .. n - 1 : stack'[i] = IF i = n - 1 THEN g ELSE stack[i]
    /\ UNCHANGED <<pc, result>>

(* The innermost copy_dir returns to another. *)
LEMMA Caller ==
    ASSUME TInv, pc = "copying", NEW n, n = Len(stack), n # 1,
           NEW res \in {0, 0 - 1}, Return(res)
    PROVE  \E g \in Frames : GoesBack(g, n, res)
<1> DEFINE lower == SubSeq(stack, 1, n - 1)
           g == [stack[n - 1] EXCEPT !.at = "readdir",
                                     !.result = IF res = 0 THEN @ ELSE 0 - 1]
<1>1. n \in 1 .. n /\ n \in Nat /\ n > 0 /\ stack \in Seq(Frames)
    BY TopIs DEF TInv, Stacked
<1>2. \A i \in 1 .. n : stack[i] \in Frames
    BY <1>1, ElementOfSeq
<1>3. n - 1 \in 1 .. n - 1 /\ n - 1 \in 1 .. n /\ n - 1 \in Nat /\ n - 1 > 0
    BY <1>1
<1>4. lower \in Seq(Frames) /\ Len(lower) = n - 1 /\ \A i \in 1 .. n - 1 : lower[i] = stack[i]
    <2>1. 1 \in Int /\ n - 1 \in Int /\ \A i \in 1 .. n - 1 : stack[i] \in Frames
        BY <1>1, <1>2
    <2>2. /\ lower \in Seq(Frames)
          /\ Len(lower) = IF 1 <= n - 1 THEN (n - 1) - 1 + 1 ELSE 0
          /\ \A i \in 1 .. (n - 1) - 1 + 1 : lower[i] = stack[1 + i - 1]
        BY <2>1, SubSeqProperties
    <2> HIDE DEF lower
    <2> QED
        BY <1>1, <1>3, <2>2
<1>5. stack[n - 1] \in Frames
    BY <1>2, <1>3
<1>6. /\ g \in Frames
      /\ g.old = stack[n - 1].old /\ g.new = stack[n - 1].new
      /\ g.listed = stack[n - 1].listed /\ g.seen = stack[n - 1].seen
      /\ g.at = "readdir" /\ g.entry = stack[n - 1].entry
      /\ g.result = IF res = 0 THEN stack[n - 1].result ELSE 0 - 1
    BY <1>5 DEF Frames
<1>7. stack' = [lower EXCEPT ![n - 1] = g] /\ UNCHANGED <<pc, result>>
    <2>1. lower[n - 1] = stack[n - 1] /\ DOMAIN lower = 1 .. n - 1
        BY <1>3, <1>4, LenProperties
    <2>2. /\ stack' = [lower EXCEPT ![n - 1].at = "readdir",
                          ![n - 1].result = IF res = 0 THEN @ ELSE 0 - 1]
          /\ UNCHANGED <<pc, result>>
        BY DEF Return
    <2> QED
        BY <2>1, <2>2
<1> HIDE DEF lower
<1>8. PICK h \in Frames : h = g
    BY <1>6
<1>9. /\ stack' \in Seq(Frames) /\ Len(stack') = n - 1
      /\ \A i \in 1 .. n - 1 : stack'[i] = IF i = n - 1 THEN h ELSE stack[i]
    BY <1>3, <1>4, <1>7, <1>8, ExceptSeq
<1>10. stack' # <<>>
    BY <1>3, <1>9, EmptySeq
<1> QED
    BY <1>3, <1>6, <1>7, <1>8, <1>9, <1>10 DEF GoesBack

LEMMA Returned ==
    ASSUME TInv, pc = "copying", Kept, NEW res \in {0, 0 - 1}, Return(res)
    PROVE  /\ Stacked'
           /\ pc' \in {"copying", "done"} /\ result' \in {0, 0 - 1}
<1>1. PICK n \in Nat : n = Len(stack) /\ n > 0
    BY TopIs
<1>2. result \in {0, 0 - 1}
    BY DEF TInv, Others
<1>3. CASE n = 1
    <2>1. stack' = <<>> /\ pc' = "done" /\ result' = res
        BY <1>1, <1>3 DEF Return
    <2>2. stack' \in Seq(Frames) /\ Len(stack') = 0
        BY <2>1, EmptySeq
    <2> QED
        BY <2>1, <2>2, DirCopyAssumption DEF Stacked
<1>4. CASE n # 1
    <2>1. PICK g \in Frames :
             /\ n - 1 \in 1 .. n /\ n - 1 \in Nat
             /\ g.old = stack[n - 1].old /\ g.new = stack[n - 1].new
             /\ g.at = "readdir" /\ g.entry = stack[n - 1].entry
             /\ stack' \in Seq(Frames) /\ Len(stack') = n - 1 /\ stack' # <<>>
             /\ \A i \in 1 .. n - 1 : stack'[i] = IF i = n - 1 THEN g ELSE stack[i]
             /\ UNCHANGED <<pc, result>>
        <3>1. \E g \in Frames : GoesBack(g, n, res)
            BY <1>1, <1>4, Caller
        <3> QED
            BY <3>1 DEF GoesBack
    <2>2. ASSUME NEW i \in 1 .. n - 1 PROVE FrameOK(stack[i])'
        <3>1. FrameOK(stack[i])
            BY <1>1 DEF TInv, Stacked
        <3>2. CASE i = n - 1
            BY <2>1, <3>1, <3>2 DEF FrameOK, Kept, IsDir, Inside
        <3>3. CASE i # n - 1
            BY <2>1, <3>1, <3>3 DEF FrameOK, Kept, Inside
        <3> QED
            BY <3>2, <3>3
    <2>3. ASSUME NEW i \in 1 .. (n - 1) - 1
          PROVE  /\ stack'[i].at = "dir"
                 /\ stack'[i + 1].old = Append(stack'[i].old, stack'[i].entry)
                 /\ stack'[i + 1].new = Append(stack'[i].new, stack'[i].entry)
        <3>1. i \in 1 .. n - 1 /\ i # n - 1 /\ i + 1 \in 1 .. n - 1
            BY <1>1
        <3>2. /\ stack[i].at = "dir"
              /\ stack[i + 1].old = Append(stack[i].old, stack[i].entry)
              /\ stack[i + 1].new = Append(stack[i].new, stack[i].entry)
            BY <1>1, <3>1 DEF TInv, Stacked
        <3>3. stack'[i] = stack[i]
            BY <2>1, <3>1
        <3>4. stack'[i + 1].old = stack[i + 1].old /\ stack'[i + 1].new = stack[i + 1].new
            BY <2>1, <3>1
        <3> QED
            BY <3>2, <3>3, <3>4
    <2>4. 2 * (n - 1) <= MaxOpen
        BY <1>1, DirCopyAssumption DEF TInv, Stacked
    <2>5. pc' = "copying" /\ result' \in {0, 0 - 1}
        BY <1>2, <2>1
    <2> QED
        BY <2>1, <2>2, <2>3, <2>4, <2>5 DEF Stacked
<1> QED
    BY <1>3, <1>4

(* The innermost copy_dir turns to its next entry. *)
LEMMA EntryDone ==
    ASSUME TInv, pc = "copying", UNCHANGED pc, Kept, NEW ok, NextEntry(ok)
    PROVE  Stacked'
<1> DEFINE f == [Top EXCEPT !.at = "readdir", !.result = IF ok THEN @ ELSE 0 - 1]
<1>1. f \in Frames /\ f.old = Top.old /\ f.new = Top.new /\ f.at = "readdir"
    BY TopIs DEF Frames
<1>2. FrameOK(Top)
    BY TopIs
<1>3. SetTop(f)
    BY DEF NextEntry
<1>4. PICK g \in Frames : g = f
    BY <1>1
<1> HIDE DEF f
<1>5. FrameOK(g)'
    BY <1>1, <1>2, <1>4 DEF FrameOK, Kept, IsDir, Inside
<1> QED
    BY <1>1, <1>3, <1>4, <1>5, TopGoesOn

(* A call that fails is counted, and only so many may fail. *)
LEMMA Counted ==
    ASSUME Others
    PROVE  /\ \A call : \A made \in Outcomes(call) :
                 made \in BOOLEAN /\ (made \/ failures < MaxFailures)
           /\ \A ok : Succeed(ok) /\ (ok \/ failures < MaxFailures)
                 => failures' \in 0 .. MaxFailures
<1>1. \A call : \A made \in Outcomes(call) :
          made \in BOOLEAN /\ (made \/ failures < MaxFailures)
    BY Zenon DEF Outcomes
<1>2. \A ok : Succeed(ok) /\ (ok \/ failures < MaxFailures)
          => failures' \in 0 .. MaxFailures
    BY DirCopyAssumption, SMT DEF Others, Succeed
<1> QED
    BY <1>1, <1>2

(* What each step keeps of the variables that only main changes. *)
LEMMA OthersKept ==
    ASSUME Others, UNCHANGED <<new_dir_name, changes>>, NEW ok, Succeed(ok),
           ok \/ failures < MaxFailures,
           pc' \in {"copying", "done", "crashed"}, result' \in {0, 0 - 1}
    PROVE  Others'
    BY Counted DEF Others

LEMMA TypeReadEntry == TInv /\ ReadEntry => TInv'
<1> SUFFICES ASSUME TInv, ReadEntry PROVE TInv'
    OBVIOUS
<1>1. PICK n \in (Top.listed \cup Entries(Top.old)) \ Top.seen,
           statted \in Outcomes("fstatat") :
        LET path == Append(Top.old, n)
            known == statted /\ path \in DOMAIN fs
        IN  /\ SetTop([Top EXCEPT !.seen = @ \cup {n}, !.entry = n,
                           !.at = IF known THEN fs[path].kind ELSE "readdir"])
            /\ Succeed(statted)
    BY DEF ReadEntry
<1> DEFINE path == Append(Top.old, n)
           known == statted /\ path \in DOMAIN fs
           f == [Top EXCEPT !.seen = @ \cup {n}, !.entry = n,
                            !.at = IF known THEN fs[path].kind ELSE "readdir"]
<1>2. /\ pc = "copying"
      /\ UNCHANGED <<new_dir_name, before, fs, pc, result, changes>>
    BY DEF ReadEntry, Copying
<1>3. Files' /\ Kept
    BY <1>2, NothingSet DEF TInv
<1>4. n \in Names
    BY <1>2, TopIs DEF Frames, Entries
<1>5. known => fs[path].kind \in Kinds
    BY DEF TInv, Files
<1>6. /\ f \in Frames /\ f.old = Top.old /\ f.new = Top.new /\ f.entry = n
      /\ f.at = IF known THEN fs[path].kind ELSE "readdir"
    <2> HIDE DEF known, path
    <2> QED
        BY <1>2, <1>4, <1>5, TopIs DEF Frames
<1>7. SetTop(f)
    BY <1>1
<1> HIDE DEF f
<1>8. PICK g \in Frames : g = f
    BY <1>6
<1>9. Stacked'
    <2>1. FrameOK(Top)
        BY <1>2, TopIs
    <2>2. FrameOK(g)'
        BY <1>2, <1>4, <1>6, <1>8, <2>1 DEF FrameOK, IsDir, Inside
    <2> QED
        BY <1>2, <1>3, <1>6, <1>7, <1>8, <2>2, TopGoesOn
<1>10. Others'
    BY <1>1, <1>2, Counted, OthersKept DEF TInv, Others
<1> QED
    BY <1>3, <1>9, <1>10 DEF TInv

LEMMA TypeCopyFile == TInv /\ CopyFile => TInv'
<1> SUFFICES ASSUME TInv, CopyFile PROVE TInv'
    OBVIOUS
<1>1. /\ pc = "copying" /\ Top.at = "file"
      /\ UNCHANGED <<new_dir_name, before, pc, result, changes>>
    BY DEF CopyFile, Copying
<1>2. PICK opened \in Outcomes("openat"), copied \in Outcomes("copying_all"),
           writable \in BOOLEAN :
        LET old   == OldEntry \in DOMAIN fs /\ CanOpen(1)
            other == NewEntry \in DOMAIN fs /\ fs[NewEntry].kind \in {"link", "node"}
            new   == /\ opened /\ CanOpen(2)
                     /\ \/ CanCreate
                        \/ NewEntry \in DOMAIN fs /\ fs[NewEntry].kind = "file"
                        \/ other /\ writable
        IN  /\ fs' = IF other \/ ~new THEN fs
                     ELSE With(NewEntry, IF old /\ copied THEN fs[OldEntry]
                                         ELSE [kind |-> "file", data |-> Part])
            /\ NextEntry(old /\ new /\ copied)
            /\ Succeed(opened /\ copied)
    BY DEF CopyFile
<1>7. \/ fs' = fs
      \/ /\ CanCreate \/ (NewEntry \in DOMAIN fs /\ fs[NewEntry].kind = "file")
         /\ \/ OldEntry \in DOMAIN fs /\ fs' = With(NewEntry, fs[OldEntry])
            \/ fs' = With(NewEntry, [kind |-> "file", data |-> Part])
    <2> DEFINE file  == NewEntry \in DOMAIN fs /\ fs[NewEntry].kind = "file"
               old   == OldEntry \in DOMAIN fs /\ CanOpen(1)
               other == NewEntry \in DOMAIN fs /\ fs[NewEntry].kind \in {"link", "node"}
               new   == opened /\ CanOpen(2) /\ (CanCreate \/ file \/ (other /\ writable))
               data  == IF old /\ copied THEN fs[OldEntry]
                        ELSE [kind |-> "file", data |-> Part]
    <2>1. fs' = IF other \/ ~new THEN fs ELSE With(NewEntry, data)
        BY <1>2, Zenon
    <2>2. new /\ ~other => CanCreate \/ file
        OBVIOUS
    <2>3. old => OldEntry \in DOMAIN fs
        OBVIOUS
    <2>4. (data = fs[OldEntry] /\ old) \/ data = [kind |-> "file", data |-> Part]
        OBVIOUS
    <2> HIDE DEF old, other, new, data
    <2> QED
        BY <2>1, <2>2, <2>3, <2>4, Zenon
<1>3. NewEntry \in Paths /\ Inside(NewEntry, new_dir_name)
    BY <1>1, TopIs
<1>4. Files' /\ Kept
    <2>1. CASE fs' = fs
        BY <1>1, <2>1, NothingSet DEF TInv
    <2>2. ASSUME CanCreate \/ (NewEntry \in DOMAIN fs /\ fs[NewEntry].kind = "file"),
                 NEW e, e.kind \in Kinds, fs' = With(NewEntry, e)
          PROVE  Files' /\ Kept
        <3>1. ~IsDir(NewEntry)
            BY <2>2 DEF IsDir, CanCreate
        <3> QED
            BY <1>1, <1>3, <2>2, <3>1, EntrySet DEF TInv
    <2>3. OldEntry \in DOMAIN fs => fs[OldEntry].kind \in Kinds
        BY DEF TInv, Files
    <2>4. [kind |-> "file", data |-> Part].kind \in Kinds
        BY DEF Kinds
    <2> QED
        BY <1>7, <2>1, <2>2, <2>3, <2>4
<1>5. Stacked'
    BY <1>1, <1>2, <1>4, EntryDone
<1>6. Others'
    BY <1>1, <1>2, Counted, OthersKept DEF TInv, Others
<1> QED
    BY <1>4, <1>5, <1>6 DEF TInv

LEMMA TypeCreate ==
    ASSUME TInv, NEW kind \in {"link", "node"}, Create(kind) PROVE TInv'
<1>1. /\ pc = "copying" /\ Top.at = kind
      /\ UNCHANGED <<new_dir_name, before, pc, result, changes>>
    BY DEF Create, Copying
<1>2. PICK made \in Outcomes(kind) :
        /\ \/ fs' = fs
           \/ /\ Readable(kind) /\ CanCreate
              /\ fs' = With(NewEntry, IF OldEntry \in DOMAIN fs THEN fs[OldEntry]
                                      ELSE before[OldEntry])
        /\ \E ok : NextEntry(ok)
        /\ Succeed(made)
    BY DEF Create
<1>3. NewEntry \in Paths /\ Inside(NewEntry, new_dir_name)
    BY <1>1, TopIs
<1>4. Files' /\ Kept
    <2>1. CASE fs' = fs
        BY <1>1, <2>1, NothingSet DEF TInv
    <2>2. CASE /\ Readable(kind) /\ CanCreate
               /\ fs' = With(NewEntry, IF OldEntry \in DOMAIN fs THEN fs[OldEntry]
                                       ELSE before[OldEntry])
        <3> DEFINE e == IF OldEntry \in DOMAIN fs THEN fs[OldEntry] ELSE before[OldEntry]
        <3>1. ~IsDir(NewEntry)
            BY <2>2 DEF IsDir, CanCreate
        <3>2. OldEntry \in DOMAIN fs \cup DOMAIN before
            BY <1>1, <2>2, TopIs DEF Readable, FrameOK, OldEntry
        <3>3. e.kind \in Kinds
            BY <3>2, DirCopyAssumption DEF TInv, Files
        <3>4. fs' = With(NewEntry, e)
            BY <2>2
        <3> HIDE DEF e
        <3> QED
            BY <1>1, <1>3, <3>1, <3>3, <3>4, EntrySet DEF TInv
    <2> QED
        BY <1>2, <2>1, <2>2
<1>5. Stacked'
    BY <1>1, <1>2, <1>4, EntryDone
<1>6. Others'
    BY <1>1, <1>2, Counted, OthersKept DEF TInv, Others
<1> QED
    BY <1>4, <1>5, <1>6 DEF TInv

LEMMA TypeMkdiratFails == TInv /\ MkdiratFails => TInv'
<1> SUFFICES ASSUME TInv, MkdiratFails PROVE TInv'
    OBVIOUS
<1>1. /\ pc = "copying" /\ Top.at = "dir" /\ Succeed(FALSE) /\ FALSE \in Outcomes("mkdirat")
      /\ UNCHANGED <<new_dir_name, fs, pc, result, before, changes>>
    BY DEF MkdiratFails, Copying
<1>2. Files' /\ Kept
    BY <1>1, NothingSet DEF TInv
<1>3. Stacked'
    <2> DEFINE f == [Top EXCEPT !.result = 0 - 1]
    <2>1. f \in Frames /\ f.old = Top.old /\ f.new = Top.new /\ f.at = Top.at
          /\ f.entry = Top.entry
        BY <1>1, TopIs DEF Frames
    <2>2. FrameOK(Top)
        BY <1>1, TopIs
    <2>3. SetTop(f)
        BY DEF MkdiratFails
    <2>4. PICK g \in Frames : g = f
        BY <2>1
    <2> HIDE DEF f
    <2>5. FrameOK(g)'
        BY <1>2, <2>1, <2>2, <2>4 DEF FrameOK, Kept, IsDir, Inside
    <2> QED
        BY <1>1, <1>2, <2>1, <2>3, <2>4, <2>5, TopGoesOn
<1>4. Others'
    BY <1>1, Counted, OthersKept DEF TInv, Others
<1> QED
    BY <1>2, <1>3, <1>4 DEF TInv

LEMMA TypeOpenDirs == TInv /\ OpenDirs => TInv'
<1> SUFFICES ASSUME TInv, OpenDirs PROVE TInv'
    OBVIOUS
<1>1. /\ pc = "copying" /\ Top.at = "dir"
      /\ UNCHANGED <<new_dir_name, before, result, changes>>
    BY DEF OpenDirs, Copying
<1>2. PICK opened \in Outcomes("openat"), made \in Outcomes("mkdirat") :
        /\ \/ fs' = fs
           \/ CanCreate /\ fs' = With(NewEntry, [kind |-> "dir", data |-> Full])
        /\ \/ /\ CanOpen(2) /\ NewEntry \in DOMAIN fs' /\ fs'[NewEntry].kind = "dir"
              /\ stack' = Append(stack, Frame(OldEntry, NewEntry, Entries(OldEntry)))
              /\ UNCHANGED pc
           \/ (\E ok : NextEntry(ok)) /\ UNCHANGED pc
           \/ pc' = "crashed" /\ UNCHANGED stack
        /\ Succeed(opened /\ made)
    BY DEF OpenDirs
<1>3. NewEntry \in Paths /\ Inside(NewEntry, new_dir_name)
    BY <1>1, TopIs
<1>4. Files' /\ Kept
    <2>1. CASE fs' = fs
        BY <1>1, <2>1, NothingSet DEF TInv
    <2>2. CASE CanCreate /\ fs' = With(NewEntry, [kind |-> "dir", data |-> Full])
        <3>1. [kind |-> "dir", data |-> Full].kind \in Kinds /\ ~IsDir(NewEntry)
            BY <2>2 DEF IsDir, CanCreate, Kinds
        <3> QED
            BY <1>1, <1>3, <2>2, <3>1, EntrySet DEF TInv
    <2> QED
        BY <1>2, <2>1, <2>2
<1>5. Stacked'
    <2>1. CASE pc' = "crashed" /\ UNCHANGED stack
        BY <1>4, <2>1, StackStays
    <2>2. CASE /\ CanOpen(2) /\ NewEntry \in DOMAIN fs' /\ fs'[NewEntry].kind = "dir"
               /\ stack' = Append(stack, Frame(OldEntry, NewEntry, Entries(OldEntry)))
               /\ UNCHANGED pc
        <3>1. Entries(OldEntry) \in SUBSET Names
            BY DEF Entries
        <3> QED
            BY <1>1, <1>4, <2>2, <3>1, Called
    <2>3. CASE (\E ok : NextEntry(ok)) /\ UNCHANGED pc
        BY <1>1, <1>4, <2>3, EntryDone
    <2> QED
        BY <1>2, <2>1, <2>2, <2>3
<1>6. pc' \in {"copying", "crashed"} /\ result' \in {0, 0 - 1}
    BY <1>1, <1>2 DEF TInv, Others
<1>7. Others'
    BY <1>1, <1>2, <1>6, Counted, OthersKept DEF TInv
<1> QED
    BY <1>4, <1>5, <1>7 DEF TInv

LEMMA TypeEndOfDir == TInv /\ EndOfDir => TInv'
<1> SUFFICES ASSUME TInv, EndOfDir PROVE TInv'
    OBVIOUS
<1>1. /\ pc = "copying"
      /\ UNCHANGED <<new_dir_name, before, changes>>
    BY DEF EndOfDir, Copying
<1>2. PICK readall \in Outcomes("readdir"), statted \in Outcomes("fstat"),
           changed \in Outcomes("fchmod"), closed \in Outcomes("closedir") :
        /\ \E mode : fs' = IF changed THEN With(Top.new, [kind |-> "dir", data |-> mode])
                           ELSE fs
        /\ Return(IF statted /\ changed /\ (closed \/ Len(stack) = 1)
                  THEN Top.result ELSE 0 - 1)
        /\ Succeed(readall /\ statted /\ changed /\ closed)
    BY DEF EndOfDir
<1>3. Files' /\ Kept
    <2>1. CASE fs' = fs
        BY <1>1, <2>1, NothingSet DEF TInv
    <2>2. ASSUME NEW mode, fs' = With(Top.new, [kind |-> "dir", data |-> mode])
          PROVE  Files' /\ Kept
        <3>1. [kind |-> "dir", data |-> mode].kind \in Kinds
            BY DEF Kinds
        <3>2. Top.new \in Paths /\ Inside(Top.new, new_dir_name)
            BY <1>1, TopIs DEF FrameOK
        <3> QED
            BY <1>1, <2>2, <3>1, <3>2, EntrySet DEF TInv
    <2> QED
        BY <1>2, <2>1, <2>2
<1>4. PICK res \in {0, 0 - 1} : Return(res)
    <2>1. Top.result \in {0, 0 - 1}
        BY <1>1, TopIs DEF Frames
    <2> QED
        BY <1>2, <2>1
<1>5. Stacked' /\ pc' \in {"copying", "done"} /\ result' \in {0, 0 - 1}
    BY <1>1, <1>3, <1>4, Returned
<1>6. Others'
    BY <1>1, <1>2, <1>5, Counted, OthersKept DEF TInv
<1> QED
    BY <1>3, <1>5, <1>6 DEF TInv

LEMMA TypeStart == TInv /\ Start => TInv'
<1> SUFFICES ASSUME TInv, Start PROVE TInv'
    OBVIOUS
<1>1. /\ pc = "start" /\ fs = before /\ stack = <<>>
      /\ UNCHANGED <<new_dir_name, before, changes>>
      /\ result \in {0, 0 - 1}
    BY DEF Start, TInv, Others
<1>2. PICK opened \in Outcomes("openat"), made \in Outcomes("mkdirat") :
        \/ /\ ~made /\ pc' = "done" /\ result' = 0 - 1 /\ Succeed(FALSE)
           /\ UNCHANGED <<fs, stack>>
        \/ /\ fs' = IF new_dir_name \in DOMAIN fs THEN fs
                    ELSE With(new_dir_name, [kind |-> "dir", data |-> Full])
           /\ \/ /\ fs'[new_dir_name].kind = "dir" /\ MaxOpen >= 2
                 /\ pc' = "copying"
                 /\ stack' = <<Frame(OldDir, new_dir_name, Entries(OldDir))>>
              \/ pc' = "crashed" /\ UNCHANGED stack
           /\ Succeed(opened) /\ UNCHANGED result
    BY <1>1 DEF Start
<1>3. new_dir_name \in Paths /\ OldDir \in Paths
    BY DirCopyAssumption DEF TInv, Others, Paths
<1>4. Inside(new_dir_name, new_dir_name)
    <2>1. Len(new_dir_name) \in Nat
        BY <1>3 DEF Paths
    <2> QED
        BY <1>3, <2>1, InsideIs
<1>5. Files' /\ Kept
    <2>1. CASE fs' = fs
        BY <1>1, <2>1, NothingSet DEF TInv
    <2>2. CASE /\ new_dir_name \notin DOMAIN fs
               /\ fs' = With(new_dir_name, [kind |-> "dir", data |-> Full])
        <3>1. [kind |-> "dir", data |-> Full].kind \in Kinds /\ ~IsDir(new_dir_name)
            BY <2>2 DEF IsDir, Kinds
        <3> QED
            BY <1>1, <1>3, <1>4, <2>2, <3>1, EntrySet DEF TInv
    <2> QED
        BY <1>2, <2>1, <2>2
<1>6. Stacked'
    <2>1. CASE UNCHANGED stack /\ pc' \in {"done", "crashed"}
        BY <1>5, <2>1, StackStays
    <2>2. CASE /\ fs' = IF new_dir_name \in DOMAIN fs THEN fs
                        ELSE With(new_dir_name, [kind |-> "dir", data |-> Full])
               /\ fs'[new_dir_name].kind = "dir" /\ MaxOpen >= 2
               /\ stack' = <<Frame(OldDir, new_dir_name, Entries(OldDir))>>
        <3> DEFINE f == Frame(OldDir, new_dir_name, Entries(OldDir))
        <3>1. f \in Frames /\ f.old = OldDir /\ f.new = new_dir_name /\ f.at = "readdir"
            BY <1>3 DEF Frames, Frame, Entries
        <3>2. PICK g \in Frames : g = f
            BY <3>1
        <3> HIDE DEF f
        <3>3. stack' = <<g>>
            BY <2>2, <3>2 DEF f
        <3>4. stack' \in Seq(Frames) /\ Len(stack') = 1 /\ stack'[1] = g /\ stack' # <<>>
            BY <3>3
        <3>5. new_dir_name \in DOMAIN fs'
            BY <2>2 DEF With
        <3>6. IsDir(OldDir)
            BY <1>1, DirCopyAssumption DEF IsDir, TInv, Files
        <3>7. IsDir(OldDir)'
            BY <1>5, <3>6 DEF Kept
        <3>8. ASSUME NEW i \in 1 .. 1 PROVE FrameOK(stack[i])'
            BY <1>1, <1>4, <2>2, <3>1, <3>2, <3>4, <3>5, <3>7 DEF FrameOK, IsDir, Inside
        <3> QED
            BY <2>2, <3>4, <3>8 DEF Stacked
    <2> QED
        BY <1>2, <2>1, <2>2
<1>7. pc' \in {"copying", "done", "crashed"} /\ result' \in {0, 0 - 1}
    BY <1>1, <1>2
<1>8. Others'
    <2>1. PICK ok : Succeed(ok) /\ (ok \/ failures < MaxFailures)
        BY <1>2, Counted DEF TInv
    <2> QED
        BY <1>1, <1>7, <2>1, OthersKept DEF TInv
<1> QED
    BY <1>5, <1>6, <1>8 DEF TInv

LEMMA TypeRemove == TInv /\ Remove => TInv'
<1> SUFFICES ASSUME TInv, Remove PROVE TInv'
    OBVIOUS
<1>1. PICK p \in DOMAIN fs :
        /\ ~Inside(p, new_dir_name) /\ fs[p].kind # "dir"
        /\ fs' = [q \in DOMAIN fs \ {p} |-> fs[q]]
    BY DEF Remove
<1>2. /\ pc = "copying" /\ changes < MaxChanges /\ changes' = changes + 1
      /\ UNCHANGED <<new_dir_name, pc, stack, result, before, failures>>
    BY DEF Remove
<1>3. DOMAIN fs' = DOMAIN fs \ {p} /\ \A q \in DOMAIN fs' : fs'[q] = fs[q]
    BY <1>1
<1>4. Kept
    <2>1. p \in DOMAIN before
        BY <1>1 DEF TInv, Files
    <2> QED
        BY <1>1, <1>2, <1>3, <2>1 DEF Kept, IsDir
<1>5. Files'
    BY <1>2, <1>3 DEF TInv, Files, Inside
<1>6. Stacked'
    BY <1>2, <1>4, StackStays DEF TInv, Stacked
<1>7. Others'
    BY <1>2, DirCopyAssumption DEF TInv, Others
<1> QED
    BY <1>5, <1>6, <1>7 DEF TInv

LEMMA TypeInit == Init => TInv
<1> SUFFICES ASSUME Init PROVE TInv
    OBVIOUS
<1>1. before \in Trees /\ fs = before /\ stack = <<>> /\ pc = "start"
    BY DEF Init
<1>2. Files
    BY <1>1, DirCopyAssumption DEF Files, Paths
<1>3. stack \in Seq(Frames) /\ Len(stack) = 0
    BY <1>1, EmptySeq
<1>4. Stacked
    BY <1>1, <1>3, DirCopyAssumption DEF Stacked
<1>5. Others
    BY <1>1, DirCopyAssumption DEF Init, Others
<1> QED
    BY <1>2, <1>4, <1>5 DEF TInv

LEMMA TypeStep == TInv /\ [Next]_vars => TInv'
<1> SUFFICES ASSUME TInv, [Next]_vars PROVE TInv'
    OBVIOUS
<1>1. CASE UNCHANGED vars
    <2>1. Files' /\ Kept
        BY <1>1, NothingSet DEF vars, TInv
    <2>2. Stacked'
        BY <1>1, <2>1, StackStays DEF vars, TInv, Stacked
    <2> QED
        BY <1>1, <2>1, <2>2 DEF vars, TInv, Others
<1> QED
    BY <1>1, TypeStart, TypeReadEntry, TypeCopyFile, TypeMkdiratFails, TypeOpenDirs, TypeEndOfDir,
       TypeCreate, TypeRemove DEF Next

LEMMA Typed == Spec => []TInv
    BY TypeInit, TypeStep, PTL DEF Spec

(* Library/util.c:284-334: for any trees, names, descriptors and failures, *)
(* the old and the new directory of a nested copy_dir are the entries that *)
(* its caller has opened, and they stay directories until it returns.      *)
THEOREM TypeCorrect == Spec => []TypeOK
    BY Typed, TypesFollow, PTL
-----------------------------------------------------------------------------
(* More about paths.                                                       *)

LEMMA PathLength == \A p \in Paths : Len(p) \in Nat
    BY DEF Paths

LEMMA InsideSelf == \A d \in Paths : Inside(d, d)
    BY InsideIs, PathLength

LEMMA Under ==
    ASSUME NEW q \in Paths, NEW e \in Paths, NEW d \in Paths,
           Inside(q, e), Inside(e, d)
    PROVE  Inside(q, d)
<1>1. Len(e) <= Len(q) /\ \A k \in 1 .. Len(e) : q[k] = e[k]
    BY InsideIs
<1>2. Len(d) <= Len(e) /\ \A k \in 1 .. Len(d) : e[k] = d[k]
    BY InsideIs
<1>3. Len(d) <= Len(q) /\ \A k \in 1 .. Len(d) : q[k] = d[k]
    BY <1>1, <1>2, PathLength
<1> QED
    BY <1>3, InsideIs

(* A path is in one directory of each length. *)
LEMMA OneWay ==
    ASSUME NEW q \in Paths, NEW d \in Paths, NEW e \in Paths,
           Inside(q, d), Inside(q, e)
    PROVE  ~Apart(d, e)
<1>1. Len(d) <= Len(q) /\ \A k \in 1 .. Len(d) : q[k] = d[k]
    BY InsideIs
<1>2. Len(e) <= Len(q) /\ \A k \in 1 .. Len(e) : q[k] = e[k]
    BY InsideIs
<1>3. CASE Len(d) <= Len(e)
    <2>1. \A k \in 1 .. Len(d) : e[k] = d[k]
        BY <1>1, <1>2, <1>3, PathLength
    <2> QED
        BY <1>3, <2>1, InsideIs DEF Apart
<1>4. CASE Len(e) <= Len(d)
    <2>1. \A k \in 1 .. Len(e) : d[k] = e[k]
        BY <1>1, <1>2, <1>4, PathLength
    <2> QED
        BY <1>4, <2>1, InsideIs DEF Apart
<1> QED
    BY <1>3, <1>4, PathLength

(* What is inside a directory is the directory or inside one entry of it. *)
LEMMA OneEntry ==
    ASSUME NEW q \in Paths, NEW d \in Paths, NEW n \in Names, Inside(q, Append(d, n))
    PROVE  /\ Len(q) > Len(d) /\ q[Len(d) + 1] = n
           /\ Inside(q, d)
<1> DEFINE a == Append(d, n)
<1>1. a \in Paths /\ Len(a) = Len(d) + 1 /\ a[Len(d) + 1] = n
    BY EntryPath
<1>2. Len(d) \in Nat /\ Len(q) \in Nat
    BY PathLength
<1>3. Inside(a, d)
    BY InsideSelf, InsideEntry
<1> HIDE DEF a
<1>4. Len(a) <= Len(q) /\ \A k \in 1 .. Len(a) : q[k] = a[k]
    BY <1>1, InsideIs DEF a
<1>5. Inside(q, d)
    BY <1>1, <1>3, Under DEF a
<1> QED
    BY <1>1, <1>2, <1>4, <1>5

LEMMA SomeEntry ==
    ASSUME NEW q \in Paths, NEW d \in Paths, Inside(q, d), q # d
    PROVE  /\ q[Len(d) + 1] \in Names
           /\ Inside(q, Append(d, q[Len(d) + 1]))
<1>1. Len(d) \in Nat /\ Len(q) \in Nat /\ Len(d) <= Len(q) /\ \A k \in 1 .. Len(d) : q[k] = d[k]
    BY InsideIs, PathLength
<1>2. Len(d) # Len(q)
    <2>1. ASSUME Len(d) = Len(q) PROVE q = d
        BY <1>1, <2>1, SeqEqual DEF Paths
    <2> QED
        BY <2>1
<1>3. Len(d) + 1 \in 1 .. Len(q)
    BY <1>1, <1>2
<1> DEFINE n == q[Len(d) + 1]
           a == Append(d, n)
<1>4. n \in Names
    BY <1>3, ElementOfSeq DEF Paths
<1>5. /\ a \in Paths /\ Len(a) = Len(d) + 1 /\ a[Len(d) + 1] = n
      /\ \A k \in 1 .. Len(d) : a[k] = d[k]
    BY <1>4, EntryPath
<1> HIDE DEF a
<1>6. Len(a) <= Len(q) /\ \A k \in 1 .. Len(a) : q[k] = a[k]
    BY <1>1, <1>3, <1>5
<1>7. Inside(q, a)
    BY <1>5, <1>6, InsideIs
<1> QED
    BY <1>4, <1>7 DEF a

(* Where an entry of the old directory belongs. *)
LEMMA CopiedIs ==
    ASSUME new_dir_name \in Paths, NEW p \in Paths, Inside(p, OldDir)
    PROVE  /\ Copied(p) \in Paths
           /\ Len(Copied(p)) = Len(new_dir_name) + Len(p) - Len(OldDir)
           /\ Len(p) >= Len(OldDir)
           /\ \A k \in 1 .. Len(new_dir_name) : Copied(p)[k] = new_dir_name[k]
           /\ \A k \in 1 .. Len(p) - Len(OldDir) :
                Copied(p)[Len(new_dir_name) + k] = p[Len(OldDir) + k]
<1> DEFINE m == Len(OldDir)
           l == Len(p)
           s == SubSeq(p, m + 1, l)
           w == Len(new_dir_name)
<1>1. m \in Nat /\ l \in Nat /\ w \in Nat /\ m <= l
    BY PathLength, InsideIs, DirCopyAssumption DEF Paths
<1>2. \A i \in 1 .. l : p[i] \in Names
    BY ElementOfSeq DEF Paths
<1> HIDE DEF m, l
<1>3. /\ s \in Seq(Names)
      /\ Len(s) = IF m + 1 <= l THEN l - (m + 1) + 1 ELSE 0
      /\ \A i \in 1 .. l - (m + 1) + 1 : s[i] = p[(m + 1) + i - 1]
    <2>1. m + 1 \in Int /\ l \in Int /\ \A i \in m + 1 .. l : p[i] \in Names
        BY <1>1, <1>2
    <2> QED
        BY <2>1, SubSeqProperties
<1> HIDE DEF s
<1>4. Len(s) = l - m /\ \A i \in 1 .. l - m : s[i] = p[m + i]
    BY <1>1, <1>3
<1> DEFINE c == new_dir_name \o s
<1>5. /\ c \in Seq(Names) /\ Len(c) = Len(new_dir_name) + Len(s)
      /\ \A i \in 1 .. Len(new_dir_name) + Len(s) :
           c[i] = IF i <= Len(new_dir_name) THEN new_dir_name[i]
                  ELSE s[i - Len(new_dir_name)]
    BY <1>3, ConcatProperties DEF Paths
<1> HIDE DEF c, w
<1>6. /\ c \in Seq(Names) /\ Len(c) = w + (l - m)
      /\ \A i \in 1 .. w + (l - m) : c[i] = IF i <= w THEN new_dir_name[i] ELSE s[i - w]
    BY <1>4, <1>5 DEF w
<1>7. Len(c) = w + l - m
    BY <1>1, <1>6
<1>8. \A k \in 1 .. w : c[k] = new_dir_name[k]
    BY <1>1, <1>6
<1>9. \A k \in 1 .. l - m : c[w + k] = p[m + k]
    <2>1. ASSUME NEW k \in 1 .. l - m PROVE c[w + k] = p[m + k]
        <3>1. w + k \in 1 .. w + (l - m) /\ ~(w + k <= w) /\ (w + k) - w = k
            BY <1>1
        <3> QED
            BY <1>4, <1>6, <3>1
    <2> QED
        BY <2>1
<1>10. Copied(p) = c
    BY DEF Copied, c, s, m, l
<1> QED
    BY <1>1, <1>6, <1>7, <1>8, <1>9, <1>10 DEF Paths, w, l, m

LEMMA CopiedOld == ASSUME new_dir_name \in Paths PROVE Copied(OldDir) = new_dir_name
<1>1. OldDir \in Paths /\ Inside(OldDir, OldDir) /\ Len(OldDir) \in Nat
    BY InsideSelf, PathLength, DirCopyAssumption DEF Paths
<1>2. Len(new_dir_name) \in Nat
    BY PathLength
<1> DEFINE c == Copied(OldDir)
<1>3. /\ c \in Paths /\ Len(c) = Len(new_dir_name) + Len(OldDir) - Len(OldDir)
      /\ \A k \in 1 .. Len(new_dir_name) : c[k] = new_dir_name[k]
    BY <1>1, CopiedIs
<1> HIDE DEF c
<1>4. Len(c) = Len(new_dir_name)
    BY <1>1, <1>2, <1>3
<1>5. c = new_dir_name
    BY <1>3, <1>4, SeqEqual DEF Paths
<1> QED
    BY <1>5 DEF c

LEMMA CopiedEntry ==
    ASSUME new_dir_name \in Paths, NEW d \in Paths, Inside(d, OldDir), NEW n \in Names
    PROVE  Copied(Append(d, n)) = Append(Copied(d), n)
<1> DEFINE m == Len(OldDir)
           l == Len(d)
           w == Len(new_dir_name)
           a == Append(d, n)
           c == Copied(d)
           b == Append(c, n)
           ca == Copied(a)
<1>1. OldDir \in Paths /\ m \in Nat /\ l \in Nat /\ w \in Nat
    BY PathLength, DirCopyAssumption DEF Paths
<1>2. /\ a \in Paths /\ Len(a) = l + 1 /\ \A k \in 1 .. l : a[k] = d[k]
      /\ a[l + 1] = n
    BY EntryPath
<1>3. Inside(a, OldDir)
    BY <1>1, InsideEntry
<1> HIDE DEF a
<1>4. /\ c \in Paths /\ Len(c) = w + l - m /\ l >= m
      /\ \A k \in 1 .. w : c[k] = new_dir_name[k]
      /\ \A k \in 1 .. l - m : c[w + k] = d[m + k]
    BY CopiedIs
<1> HIDE DEF c
<1>5. /\ b \in Paths /\ Len(b) = Len(c) + 1 /\ \A k \in 1 .. Len(c) : b[k] = c[k]
      /\ b[Len(c) + 1] = n
    BY <1>4, EntryPath
<1>6. /\ ca \in Paths /\ Len(ca) = w + Len(a) - m
      /\ \A k \in 1 .. w : ca[k] = new_dir_name[k]
      /\ \A k \in 1 .. Len(a) - m : ca[w + k] = a[m + k]
    BY <1>2, <1>3, CopiedIs
<1> HIDE DEF b, ca, m, l, w
<1>7. Len(ca) = Len(b) /\ Len(b) = w + (l - m) + 1
    BY <1>1, <1>2, <1>4, <1>5, <1>6
<1>8. ASSUME NEW k \in 1 .. Len(b) PROVE ca[k] = b[k]
    <2>1. CASE k <= w
        <3>1. k \in 1 .. w /\ k \in 1 .. Len(c)
            BY <1>1, <1>4, <1>7, <2>1
        <3> QED
            BY <1>4, <1>5, <1>6, <3>1
    <2>2. CASE k > w /\ k <= Len(c)
        <3> DEFINE j == k - w
        <3>1. j \in 1 .. l - m /\ j \in 1 .. Len(a) - m /\ w + j = k /\ m + j \in 1 .. l
            BY <1>1, <1>2, <1>4, <1>7, <2>2
        <3> HIDE DEF j
        <3>2. c[k] = d[m + j] /\ ca[k] = a[m + j]
            BY <1>4, <1>6, <3>1
        <3>3. a[m + j] = d[m + j]
            BY <1>2, <3>1
        <3>4. k \in 1 .. Len(c)
            BY <1>1, <1>4, <2>2
        <3> QED
            BY <1>5, <3>2, <3>3, <3>4
    <2>3. CASE k > Len(c)
        <3> DEFINE j == l - m + 1
        <3>1. k = Len(c) + 1 /\ j \in 1 .. Len(a) - m /\ w + j = k /\ m + j = l + 1
            BY <1>1, <1>2, <1>4, <1>5, <1>7, <2>3
        <3> HIDE DEF j
        <3>2. ca[k] = a[m + j]
            BY <1>6, <3>1
        <3> QED
            BY <1>2, <1>5, <3>1, <3>2
    <2> QED
        BY <1>1, <1>4, <1>7, <2>1, <2>2, <2>3
<1>9. ca = b
    BY <1>5, <1>6, <1>7, <1>8, SeqEqual DEF Paths
<1> QED
    BY <1>9 DEF ca, b, a, c

LEMMA CopiedInside ==
    ASSUME new_dir_name \in Paths, NEW p \in Paths, NEW d \in Paths,
           Inside(d, OldDir), Inside(p, d)
    PROVE  /\ Inside(p, OldDir)
           /\ Inside(Copied(p), Copied(d))
<1> DEFINE m == Len(OldDir)
           w == Len(new_dir_name)
           c == Copied(d)
           cp == Copied(p)
<1>1. OldDir \in Paths /\ m \in Nat /\ w \in Nat /\ Len(d) \in Nat /\ Len(p) \in Nat
    BY PathLength, DirCopyAssumption DEF Paths
<1>2. Inside(p, OldDir)
    BY <1>1, Under
<1>3. Len(d) <= Len(p) /\ \A k \in 1 .. Len(d) : p[k] = d[k]
    BY InsideIs
<1>4. /\ c \in Paths /\ Len(c) = w + Len(d) - m /\ Len(d) >= m
      /\ \A k \in 1 .. w : c[k] = new_dir_name[k]
      /\ \A k \in 1 .. Len(d) - m : c[w + k] = d[m + k]
    BY CopiedIs
<1>5. /\ cp \in Paths /\ Len(cp) = w + Len(p) - m
      /\ \A k \in 1 .. w : cp[k] = new_dir_name[k]
      /\ \A k \in 1 .. Len(p) - m : cp[w + k] = p[m + k]
    BY <1>2, CopiedIs
<1> HIDE DEF c, cp, m, w
<1>6. Len(c) <= Len(cp)
    BY <1>1, <1>3, <1>4, <1>5
<1>7. ASSUME NEW k \in 1 .. Len(c) PROVE cp[k] = c[k]
    <2>1. CASE k <= w
        BY <1>1, <1>4, <1>5, <2>1
    <2>2. CASE k > w
        <3> DEFINE j == k - w
        <3>1. j \in 1 .. Len(d) - m /\ j \in 1 .. Len(p) - m /\ w + j = k /\ m + j \in 1 .. Len(d)
            BY <1>1, <1>3, <1>4, <2>2
        <3> HIDE DEF j
        <3>2. c[k] = d[m + j] /\ cp[k] = p[m + j]
            BY <1>4, <1>5, <3>1
        <3> QED
            BY <1>3, <3>1, <3>2
    <2> QED
        BY <1>1, <1>4, <2>1, <2>2
<1>8. Inside(cp, c)
    BY <1>4, <1>5, <1>6, <1>7, InsideIs
<1> QED
    BY <1>2, <1>8 DEF c, cp
-----------------------------------------------------------------------------
(* The two trees.                                                          *)

\* The old directory only loses entries, never a directory, and none while
\* nobody changes it.
OldTree ==
    \A p \in DOMAIN fs \cup DOMAIN before : Source(p) =>
        /\ p \in DOMAIN fs => p \in DOMAIN before /\ fs[p] = before[p]
        /\ p \in DOMAIN before /\ (changes = 0 \/ before[p].kind = "dir")
               => p \in DOMAIN fs

\* An entry is as it was at the start.
Same(p) ==
    /\ p \in DOMAIN fs <=> p \in DOMAIN before
    /\ p \in DOMAIN fs => fs[p] = before[p]

\* What SuccessMeansEqual asks of one entry.
Equal(p) ==
    \/ (\E u \in unknown : Inside(p, u)) \/ Elsewhere(p)
    \/ /\ Copied(p) \in DOMAIN fs
       /\ fs[Copied(p)] = fs[p] \/ KeptOther(p)

AllEqual(dir) ==
    \A p \in DOMAIN fs \cap DOMAIN before : Inside(p, dir) /\ Source(p) => Equal(p)

AllSame(dir) ==
    \A p \in DOMAIN fs \cup DOMAIN before : Inside(p, dir) => Same(p)

\* A frame reads a directory of the old tree and writes to where it belongs;
\* the entry that it is at is one of that directory.
Placed(f) ==
    /\ Inside(f.old, OldDir) /\ f.new = Copied(f.old)
    /\ f.at # "readdir" => f.entry \in f.seen
    /\ f.at # "readdir" /\ Source(Append(f.old, f.entry)) =>
          /\ Append(f.old, f.entry) \in DOMAIN before
          /\ before[Append(f.old, f.entry)].kind = f.at

\* Its listing has all the entries that are left, ...
Listed(f) ==
    \A n \in Entries(f.old) : Source(Append(f.old, n)) => n \in f.listed

\* ... nothing is done to the new directory for an entry that it has not
\* seen, ...
Fresh(f) == \A n \in Names \ f.seen : AllSame(Append(f.new, n))

\* ... nor to the new directory's permissions, ...
Mode(f) ==
    fs[f.new].data = IF f.new \in DOMAIN before THEN before[f.new].data ELSE Full

\* ... and if it has met no error, the entries that it is through with are
\* equal.
Through(f) ==
    f.result = 0 /\ "readdir" \notin Failing =>
        \A n \in f.seen :
            (f.at # "readdir" => n # f.entry) => AllEqual(Append(f.old, n))

FrameInv(f) == Placed(f) /\ Listed(f) /\ Fresh(f) /\ Mode(f) /\ Through(f)

\* The frames of nested calls are one level apart, and what the inner ones
\* write is under the entry that the outer one is at.
Levels ==
    \A i \in 1 .. Len(stack) :
        /\ Len(stack[i].old) = Len(OldDir) + i - 1
        /\ \A j \in 1 .. i - 1 :
             Inside(stack[i].new, Append(stack[j].new, stack[j].entry))

\* Nothing has been done for the entry that the innermost frame is at.
AtFresh == pc = "copying" /\ Top.at # "readdir" => AllSame(NewEntry)

CInv ==
    /\ OldTree /\ Levels /\ AtFresh
    /\ \A i \in 1 .. Len(stack) : FrameInv(stack[i])
    /\ pc = "done" /\ result = 0 /\ "readdir" \notin Failing => AllEqual(OldDir)

-----------------------------------------------------------------------------
(* What stays true of a frame while something is written.                  *)

(* What is known of all paths. *)
LEMMA Known ==
    ASSUME TInv
    PROVE  /\ OldDir \in Paths /\ new_dir_name \in Paths
           /\ \A p \in DOMAIN fs \cup DOMAIN before : p \in Paths
           /\ OldDir \in DOMAIN before /\ before[OldDir].kind = "dir"
           /\ \A p \in DOMAIN before :
                /\ before[p].kind \in Kinds
                /\ before[p] = [kind |-> before[p].kind, data |-> before[p].data]
<1>1. before \in Trees /\ new_dir_name \in NewDirs
    BY DEF TInv, Files, Others
<1> QED
    BY <1>1, DirCopyAssumption DEF TInv, Files, Paths

(* Only directories have entries. *)
LEMMA Parents ==
    ASSUME TInv, NEW p \in DOMAIN before, NEW d \in Paths, Inside(p, d), p # d,
           Len(d) > 0
    PROVE  d \in DOMAIN before /\ before[d].kind = "dir"
<1>1. p \in Paths /\ Len(p) \in Nat /\ Len(d) \in Nat
    BY Known, PathLength
<1>2. Len(d) < Len(p)
    <2>1. Inside(p, Append(d, p[Len(d) + 1])) /\ p[Len(d) + 1] \in Names
        BY <1>1, SomeEntry
    <2> QED
        BY <1>1, <2>1, OneEntry
<1>3. SubSeq(p, 1, Len(d)) = d
    BY DEF Inside
<1>4. Len(d) \in 1 .. Len(p) - 1
    BY <1>1, <1>2
<1>5. before \in Trees /\ p \in DOMAIN before \cup NewDirs
    BY DEF TInv, Files
<1>6. \A t \in Trees : \A r \in DOMAIN t \cup NewDirs : \A k \in 1 .. Len(r) - 1 :
          SubSeq(r, 1, k) \in DOMAIN t /\ t[SubSeq(r, 1, k)].kind = "dir"
    BY DirCopyAssumption, Zenon
<1>7. /\ SubSeq(p, 1, Len(d)) \in DOMAIN before
      /\ before[SubSeq(p, 1, Len(d))].kind = "dir"
    BY <1>4, <1>5, <1>6, Zenon
<1> QED
    BY <1>3, <1>7

\* At most one entry is set, in the new directory.
Writes(q) ==
    /\ q \in Paths /\ Inside(q, new_dir_name)
    /\ \A p : p # q => (p \in DOMAIN fs' <=> p \in DOMAIN fs)
    /\ \A p \in DOMAIN fs : p # q => fs'[p] = fs[p]

Step(q) ==
    /\ TInv /\ OldTree
    /\ UNCHANGED <<new_dir_name, before>> /\ unknown \subseteq unknown'
    /\ Writes(q)

LEMMA WriteOne ==
    ASSUME TInv, NEW q \in Paths, Inside(q, new_dir_name),
           \/ fs' = fs
           \/ \E e : fs' = With(q, e)
    PROVE  Writes(q)
    BY DEF Writes, With

LEMMA NotWritten ==
    ASSUME NEW q, Step(q), NEW p, Source(p) PROVE p # q
    BY DEF Step, Writes, Source

LEMMA SourceStays ==
    ASSUME new_dir_name' = new_dir_name PROVE \A p : Source(p)' <=> Source(p)
    BY DEF Source, Inside

LEMMA SourceAbove ==
    ASSUME new_dir_name \in Paths, NEW p \in Paths, Source(p),
           NEW d \in Paths, Inside(d, OldDir), Inside(p, d)
    PROVE  Source(d)
    BY Under DEF Source

LEMMA OldTreeStays ==
    ASSUME NEW q, Step(q), changes' = changes PROVE OldTree'
<1>1. before' = before /\ \A p : Source(p)' <=> Source(p)
    BY SourceStays DEF Step
<1> SUFFICES ASSUME NEW p \in DOMAIN fs' \cup DOMAIN before', Source(p)
             PROVE  /\ p \in DOMAIN fs' => p \in DOMAIN before' /\ fs'[p] = before'[p]
                    /\ p \in DOMAIN before' /\ (changes' = 0 \/ before'[p].kind = "dir")
                           => p \in DOMAIN fs'
    BY <1>1 DEF OldTree
<1>2. p # q
    BY NotWritten
<1> QED
    BY <1>1, <1>2 DEF Step, Writes, OldTree

LEMMA EqualStays ==
    ASSUME NEW q, Step(q), NEW p \in DOMAIN fs, Source(p),
           Copied(p) # q, Equal(p)
    PROVE  Equal(p)'
<1>1. new_dir_name' = new_dir_name /\ before' = before /\ unknown \subseteq unknown'
    BY DEF Step
<1>2. Copied(p)' = Copied(p)
    BY <1>1 DEF Copied
<1>3. p \in Paths /\ p # q
    BY NotWritten, Known DEF Step
<1>4. fs'[p] = fs[p]
    BY <1>3 DEF Step, Writes
<1>5. Copied(p) \in DOMAIN fs => Copied(p) \in DOMAIN fs' /\ fs'[Copied(p)] = fs[Copied(p)]
    BY DEF Step, Writes
<1>6. CASE \E u \in unknown : Inside(p, u)
    BY <1>1, <1>6 DEF Equal, Inside
<1>7. CASE Copied(p) \in DOMAIN fs /\ fs[Copied(p)] = fs[p]
    BY <1>2, <1>4, <1>5, <1>7 DEF Equal
<1>8. CASE Copied(p) \in DOMAIN fs /\ KeptOther(p)
    <2>1. KeptOther(p)'
        BY <1>1, <1>2, <1>4, <1>5, <1>8 DEF KeptOther
    <2> QED
        BY <1>2, <1>5, <1>8, <2>1 DEF Equal
<1>9. CASE Elsewhere(p)
    BY <1>1, <1>9 DEF Equal, Elsewhere, Copied, Inside
<1> QED
    BY <1>6, <1>7, <1>8, <1>9 DEF Equal

(* A frame does not see what is written under the entry that it is at. *)
LEMMA FrameStays ==
    ASSUME NEW q, Step(q), NEW f \in Frames, FrameOK(f), FrameInv(f),
           f.at # "readdir", Inside(q, Append(f.new, f.entry))
    PROVE  FrameInv(f)'
<1>1. /\ new_dir_name' = new_dir_name /\ before' = before /\ TInv
      /\ q \in Paths /\ f.old \in Paths /\ f.new \in Paths
      /\ f.entry \in Names /\ f.entry \in f.seen /\ f.seen \subseteq Names
      /\ Inside(f.old, OldDir) /\ f.new = Copied(f.old)
    BY DEF Step, Writes, Frames, FrameOK, FrameInv, Placed
<1>2. Len(q) > Len(f.new) /\ q[Len(f.new) + 1] = f.entry
    BY <1>1, OneEntry
<1>3. /\ OldDir \in Paths /\ new_dir_name \in Paths
      /\ \A p \in DOMAIN fs \cup DOMAIN before : p \in Paths
    BY <1>1, Known
<1>4. Placed(f)'
    BY <1>1, SourceStays DEF FrameInv, Placed, Inside, Copied
<1>5. Listed(f)'
    <2> SUFFICES ASSUME NEW n \in Names, Append(f.old, n) \in DOMAIN fs',
                        Source(Append(f.old, n))
                 PROVE  n \in f.listed
        BY <1>1, SourceStays DEF Listed, Entries
    <2>1. Append(f.old, n) \in DOMAIN fs
        BY NotWritten DEF Step, Writes
    <2> QED
        BY <2>1 DEF FrameInv, Listed, Entries
<1>6. Fresh(f)'
    <2> SUFFICES ASSUME NEW n \in Names \ f.seen, NEW p \in DOMAIN fs' \cup DOMAIN before',
                        Inside(p, Append(f.new, n))
                 PROVE  Same(p)'
        BY DEF Fresh, AllSame, Inside
    <2>1. n # f.entry
        BY <1>1
    <2>2. p \in Paths
        BY <1>1, <1>3 DEF Step, Writes
    <2>3. p # q
        BY <1>1, <1>2, <2>1, <2>2, OneEntry
    <2>4. p \in DOMAIN fs \cup DOMAIN before
        BY <1>1, <2>3 DEF Step, Writes
    <2>5. Same(p)
        BY <2>4 DEF FrameInv, Fresh, AllSame
    <2> QED
        BY <1>1, <2>3, <2>5 DEF Same, Step, Writes
<1>7. Mode(f)'
    <2>1. f.new # q
        BY <1>1, <1>2, PathLength
    <2>2. fs'[f.new] = fs[f.new]
        BY <2>1 DEF Step, Writes, FrameOK, IsDir
    <2> QED
        BY <1>1, <2>2 DEF FrameInv, Mode
<1>8. Through(f)'
    <2> SUFFICES ASSUME f.result = 0, "readdir" \notin Failing,
                        NEW n \in f.seen, n # f.entry,
                        NEW p \in DOMAIN fs' \cap DOMAIN before',
                        Inside(p, Append(f.old, n)), Source(p)
                 PROVE  Equal(p)'
        BY <1>1, SourceStays DEF Through, AllEqual, Inside
    <2>1. p \in Paths
        BY <1>1, <1>3
    <2>2. Append(f.old, n) \in Paths /\ Inside(Append(f.old, n), OldDir)
        BY <1>1, <1>3, EntryPath, InsideEntry
    <2>3. Inside(p, OldDir) /\ Inside(Copied(p), Copied(Append(f.old, n)))
        BY <1>3, <2>1, <2>2, CopiedInside
    <2>4. Copied(Append(f.old, n)) = Append(f.new, n)
        BY <1>1, <1>3, CopiedEntry
    <2>5. Copied(p) \in Paths
        BY <1>3, <2>1, <2>3, CopiedIs
    <2>6. Copied(p)[Len(f.new) + 1] = n
        BY <1>1, <2>3, <2>4, <2>5, OneEntry
    <2>7. Copied(p) # q
        BY <1>2, <2>6
    <2>8. p \in DOMAIN fs
        BY NotWritten DEF Step, Writes
    <2>9. Equal(p)
        BY <1>1, <2>8 DEF FrameInv, Through, AllEqual
    <2> QED
        BY <2>3, <2>7, <2>8, <2>9, EqualStays
<1> QED
    BY <1>4, <1>5, <1>6, <1>7, <1>8 DEF FrameInv

-----------------------------------------------------------------------------
(* The innermost frame and those around it.                                *)

LEMMA TopPlace ==
    ASSUME TInv, CInv, pc = "copying"
    PROVE  /\ FrameInv(Top) /\ Inside(Top.old, OldDir) /\ Top.new = Copied(Top.old)
           /\ Len(Top.old) = Len(OldDir) + Len(stack) - 1
           /\ Top.at # "readdir" =>
                /\ Top.entry \in Names /\ Inside(OldEntry, OldDir)
                /\ NewEntry = Copied(OldEntry)
                /\ Source(OldEntry) => /\ OldEntry \in DOMAIN before
                                       /\ before[OldEntry].kind = Top.at
                /\ Len(OldEntry) = Len(OldDir) + Len(stack)
                /\ AllSame(NewEntry) /\ Same(NewEntry)
<1>1. Len(stack) \in 1 .. Len(stack) /\ Top \in Frames /\ FrameOK(Top)
    BY TopIs
<1>2. FrameInv(Top) /\ Len(Top.old) = Len(OldDir) + Len(stack) - 1
    BY <1>1 DEF CInv, Levels, Top
<1>3. Inside(Top.old, OldDir) /\ Top.new = Copied(Top.old)
    BY <1>2 DEF FrameInv, Placed
<1>4. ASSUME Top.at # "readdir"
      PROVE  /\ Top.entry \in Names /\ Inside(OldEntry, OldDir)
             /\ NewEntry = Copied(OldEntry)
             /\ Source(OldEntry) => /\ OldEntry \in DOMAIN before
                                    /\ before[OldEntry].kind = Top.at
             /\ Len(OldEntry) = Len(OldDir) + Len(stack)
             /\ AllSame(NewEntry) /\ Same(NewEntry)
    <2>1. Top.entry \in Names
        BY <1>1, <1>4 DEF FrameOK
    <2>2. /\ Top.old \in Paths /\ Top.new \in Paths /\ NewEntry \in Paths
          /\ OldDir \in Paths /\ new_dir_name \in Paths
        BY <1>4, TopIs, Known
    <2>3. Inside(OldEntry, OldDir) /\ Len(OldEntry) = Len(Top.old) + 1
        BY <1>3, <2>1, <2>2, InsideEntry, EntryPath DEF OldEntry
    <2>4. Len(OldEntry) = Len(OldDir) + Len(stack)
        BY <1>1, <1>2, <2>2, <2>3, PathLength
    <2>5. NewEntry = Copied(OldEntry)
        BY <1>3, <2>1, <2>2, CopiedEntry DEF OldEntry, NewEntry
    <2>6. Source(OldEntry) => /\ OldEntry \in DOMAIN before
                              /\ before[OldEntry].kind = Top.at
        BY <1>2, <1>4 DEF FrameInv, Placed, OldEntry
    <2>7. AllSame(NewEntry)
        BY <1>4 DEF CInv, AtFresh
    <2>8. Same(NewEntry)
        BY <2>2, <2>7, InsideSelf DEF AllSame, Same
    <2> QED
        BY <2>1, <2>3, <2>4, <2>5, <2>6, <2>7, <2>8
<1> QED
    BY <1>2, <1>3, <1>4

(* The outer frames do not see what the innermost writes. *)
LEMMA OuterStay ==
    ASSUME NEW q, Step(q), CInv, pc = "copying", Inside(q, Top.new)
    PROVE  \A i \in 1 .. Len(stack) - 1 : \A f \in Frames :
               f = stack[i] => FrameInv(f)'
<1> SUFFICES ASSUME NEW i \in 1 .. Len(stack) - 1, NEW f \in Frames, f = stack[i]
             PROVE  FrameInv(f)'
    OBVIOUS
<1>1. TInv /\ q \in Paths
    BY DEF Step, Writes
<1>2. Len(stack) \in 1 .. Len(stack) /\ i \in 1 .. Len(stack) /\ Top.new \in Paths
    BY <1>1, TopIs
<1>3. FrameOK(f) /\ FrameInv(f) /\ f.at = "dir" /\ f.new \in Paths
    BY <1>1, <1>2 DEF TInv, Stacked, CInv, Frames
<1>4. f.entry \in Names
    BY <1>3 DEF FrameOK
<1>5. Inside(Top.new, Append(f.new, f.entry))
    BY <1>2 DEF CInv, Levels, Top
<1>6. Append(f.new, f.entry) \in Paths
    BY <1>3, <1>4, EntryPath
<1>7. Inside(q, Append(f.new, f.entry))
    BY <1>1, <1>2, <1>5, <1>6, Under
<1> QED
    BY <1>3, <1>7, FrameStays

(* The innermost frame goes on. *)
LEMMA GoesOn ==
    ASSUME NEW q, Step(q), CInv, pc = "copying", pc' = pc, UNCHANGED changes,
           Inside(q, Top.new), NEW g \in Frames, SetTop(g),
           g.old = Top.old, g.new = Top.new, FrameInv(g)',
           g.at # "readdir" => AllSame(Append(g.new, g.entry))'
    PROVE  CInv'
<1> DEFINE n == Len(stack)
<1>1. TInv
    BY DEF Step
<1>2. n \in 1 .. n /\ n \in Nat /\ stack \in Seq(Frames)
    BY <1>1, TopIs DEF TInv, Stacked
<1>3. \A i \in 1 .. n : stack[i] \in Frames
    BY <1>2, ElementOfSeq
<1>4. /\ stack' \in Seq(Frames) /\ Len(stack') = n
      /\ \A j \in 1 .. n : stack'[j] = IF j = n THEN g ELSE stack[j]
    BY <1>2, ExceptSeq DEF SetTop
<1>5. Top' = g
    BY <1>2, <1>4 DEF Top
<1>6. OldTree'
    BY OldTreeStays
<1>7. \A i \in 1 .. n - 1 : \A f \in Frames : f = stack[i] => FrameInv(f)'
    BY OuterStay
<1>8. \A i \in 1 .. n :
        /\ Len(stack[i].old) = Len(OldDir) + i - 1
        /\ \A j \in 1 .. i - 1 :
             Inside(stack[i].new, Append(stack[j].new, stack[j].entry))
    BY DEF CInv, Levels
<1>9. Top = stack[n]
    BY DEF Top
<1> HIDE DEF n
<1>10. Levels'
    <2>1. ASSUME NEW i \in 1 .. n
          PROVE  /\ Len(stack'[i].old) = Len(OldDir) + i - 1
                 /\ \A j \in 1 .. i - 1 :
                      Inside(stack'[i].new, Append(stack'[j].new, stack'[j].entry))
        <3>1. stack'[i].old = stack[i].old /\ stack'[i].new = stack[i].new
            BY <1>4, <1>9
        <3>2. \A j \in 1 .. i - 1 : stack'[j] = stack[j]
            BY <1>2, <1>4
        <3> QED
            BY <1>8, <3>1, <3>2
    <2> QED
        BY <1>4, <2>1 DEF Levels, Inside
<1>11. AtFresh'
    BY <1>5 DEF AtFresh, NewEntry, AllSame, Same, Inside
<1>12. ASSUME NEW i \in 1 .. n PROVE FrameInv(stack[i])'
    <2>1. PICK f \in Frames : f = stack'[i]
        BY <1>3, <1>4
    <2>2. FrameInv(f)'
        BY <1>2, <1>3, <1>4, <1>7, <2>1
    <2> QED
        BY <2>1, <2>2, ZenonT(40)
           DEF FrameInv, Placed, Listed, Fresh, Mode, Through, AllEqual, AllSame,
               Equal, Same, KeptOther, Elsewhere, Inside, Copied, Entries, Source
<1> QED
    BY <1>4, <1>6, <1>10, <1>11, <1>12 DEF CInv

(* copy_dir is through with an entry. *)
LEMMA Resumes ==
    ASSUME NEW f \in Frames, FrameInv(f)', f.at # "readdir",
           NEW h \in Frames, h.old = f.old, h.new = f.new, h.listed = f.listed,
           h.seen = f.seen, h.at = "readdir",
           h.result = 0 /\ "readdir" \notin Failing =>
               f.result = 0 /\ AllEqual(Append(f.old, f.entry))'
    PROVE  FrameInv(h)'
<1>1. Placed(h)' /\ Listed(h)' /\ Fresh(h)' /\ Mode(h)'
    BY DEF FrameInv, Placed, Listed, Fresh, Mode, Entries, AllSame, Same, Inside,
       Copied, Source
<1>2. Through(h)'
    <2> SUFFICES ASSUME h.result = 0, "readdir" \notin Failing, NEW n \in f.seen
                 PROVE  AllEqual(Append(f.old, n))'
        BY DEF Through, AllEqual, Inside, Source
    <2>1. CASE n = f.entry
        BY <2>1
    <2>2. CASE n # f.entry
        BY <2>2 DEF FrameInv, Through, AllEqual, Inside, Source
    <2> QED
        BY <2>1, <2>2
<1> QED
    BY <1>1, <1>2 DEF FrameInv

LEMMA EntryEnds ==
    ASSUME NEW q, Step(q), CInv, pc = "copying", pc' = pc, UNCHANGED changes,
           Top.at # "readdir", q = NewEntry, NEW ok, NextEntry(ok),
           NEW d, d = OldEntry, ok => AllEqual(d)'
    PROVE  CInv'
<1>1. TInv
    BY DEF Step
<1>2. PICK f \in Frames : f = Top
    BY <1>1, TopIs
<1>3. FrameOK(f) /\ FrameInv(f) /\ Top.new \in Paths /\ NewEntry \in Paths
    BY <1>1, <1>2, TopIs, TopPlace
<1>4. Top.entry \in Names
    BY <1>1, TopPlace
<1>5. Inside(q, Append(f.new, f.entry)) /\ Inside(q, Top.new)
    BY <1>2, <1>3, <1>4, InsideSelf, OneEntry DEF NewEntry
<1>6. FrameInv(f)'
    BY <1>2, <1>3, <1>5, FrameStays
<1> DEFINE h == [f EXCEPT !.at = "readdir", !.result = IF ok THEN @ ELSE 0 - 1]
<1>7. /\ h \in Frames /\ h.old = f.old /\ h.new = f.new /\ h.listed = f.listed
      /\ h.seen = f.seen /\ h.at = "readdir"
      /\ h.result = IF ok THEN f.result ELSE 0 - 1
    BY DEF Frames
<1>8. SetTop(h)
    BY <1>2 DEF NextEntry
<1> HIDE DEF h
<1>9. h.result = 0 => f.result = 0 /\ AllEqual(Append(f.old, f.entry))'
    <2>1. d = Append(f.old, f.entry)
        BY <1>2 DEF OldEntry
    <2> QED
        BY <1>7, <2>1 DEF AllEqual, Inside, Source
<1>10. PICK g \in Frames : g = h
    BY <1>7
<1>11. FrameInv(g)'
    BY <1>2, <1>6, <1>7, <1>9, <1>10, Resumes
<1> QED
    BY <1>2, <1>5, <1>7, <1>8, <1>10, <1>11, GoesOn

(* An entry without entries. *)
LEMMA LeafEqual ==
    ASSUME NEW q, Step(q), CInv, NEW d \in Paths, Inside(d, OldDir), Len(d) > 0,
           Source(d) =>
               /\ d \in DOMAIN before /\ before[d].kind # "dir"
               /\ d \in DOMAIN fs' => Equal(d)'
    PROVE  AllEqual(d)'
<1>1. TInv /\ before' = before /\ new_dir_name' = new_dir_name /\ new_dir_name \in Paths
    BY Known DEF Step
<1> SUFFICES ASSUME NEW p \in DOMAIN fs' \cap DOMAIN before', Inside(p, d), Source(p)
             PROVE  Equal(p)'
    BY <1>1, SourceStays DEF AllEqual, Inside
<1>2. Source(d)
    BY <1>1, Known, SourceAbove
<1>3. p = d
    BY <1>1, <1>2, Parents
<1> QED
    BY <1>3

LEMMA EqualSame ==
    ASSUME UNCHANGED <<new_dir_name, before, fs>>, unknown \subseteq unknown'
    PROVE  \A p : Equal(p) => Equal(p)'
    BY DEF Equal, KeptOther, Elsewhere, Copied, Inside

LEMMA CReadEntry ==
    ASSUME TInv, CInv, ReadEntry PROVE CInv'
<1>1. PICK n \in (Top.listed \cup Entries(Top.old)) \ Top.seen,
           statted \in Outcomes("fstatat") :
        LET path == Append(Top.old, n)
            known == statted /\ path \in DOMAIN fs
        IN  /\ SetTop([Top EXCEPT !.seen = @ \cup {n}, !.entry = n,
                           !.at = IF known THEN fs[path].kind ELSE "readdir"])
            /\ unknown' = IF known THEN unknown ELSE unknown \cup {path}
    BY DEF ReadEntry
<1>2. /\ pc = "copying" /\ pc' = pc /\ Top.at = "readdir"
      /\ UNCHANGED <<new_dir_name, before, fs, changes>>
    BY DEF ReadEntry, Copying
<1>3. PICK f \in Frames : f = Top
    BY <1>2, TopIs
<1>4. FrameInv(f) /\ FrameOK(f) /\ f.old \in Paths /\ f.new \in Paths
    BY <1>2, <1>3, TopPlace, TopIs
<1> DEFINE path == Append(f.old, n)
           known == statted /\ path \in DOMAIN fs
           h == [f EXCEPT !.seen = @ \cup {n}, !.entry = n,
                          !.at = IF known THEN fs[path].kind ELSE "readdir"]
<1>5. n \in Names /\ n \notin f.seen
    BY <1>3 DEF Frames, Entries
<1>6. known => path \in DOMAIN fs /\ fs[path].kind \in Kinds
    BY DEF TInv, Files
<1>7. /\ SetTop(h) /\ unknown \subseteq unknown'
      /\ ~known => path \in unknown'
    BY <1>1, <1>3
<1> HIDE DEF known
<1>8. /\ h \in Frames /\ h.old = f.old /\ h.new = f.new /\ h.listed = f.listed
      /\ h.seen = f.seen \cup {n} /\ h.entry = n /\ h.result = f.result
      /\ h.at = IF known THEN fs[path].kind ELSE "readdir"
    <2> HIDE DEF path
    <2> QED
        BY <1>5, <1>6 DEF Frames
<1> HIDE DEF h, path
<1>9. PICK g \in Frames : g = h
    BY <1>8
<1>10. path \in Paths /\ Inside(path, OldDir) /\ OldDir \in Paths /\ new_dir_name \in Paths
    BY <1>4, <1>5, Known, EntryPath, InsideEntry DEF path, FrameInv, Placed
<1>11. Placed(g)'
    <2>1. path \in DOMAIN fs /\ Source(path) => path \in DOMAIN before /\ before[path] = fs[path]
        BY <1>10 DEF CInv, OldTree
    <2>2. known /\ Source(path) => path \in DOMAIN before /\ before[path].kind = fs[path].kind
        BY <1>6, <2>1
    <2>3. f.new = Copied(f.old) /\ Inside(f.old, OldDir)
        BY <1>4 DEF FrameInv, Placed
    <2> QED
        BY <1>2, <1>8, <1>9, <2>2, <2>3, SourceStays DEF Placed, Inside, Copied, path
<1>12. Listed(g)' /\ Mode(g)'
    BY <1>2, <1>4, <1>8, <1>9, SourceStays DEF FrameInv, Listed, Mode, Entries
<1>13. Fresh(g)'
    BY <1>2, <1>4, <1>8, <1>9 DEF FrameInv, Fresh, AllSame, Same, Inside
<1>14. Through(g)'
    <2> SUFFICES ASSUME g.result = 0, "readdir" \notin Failing, NEW m \in g.seen, g.at # "readdir" => m # g.entry,
                        NEW p \in DOMAIN fs' \cap DOMAIN before',
                        Inside(p, Append(g.old, m)), Source(p)
                 PROVE  Equal(p)'
        BY <1>2, SourceStays DEF Through, AllEqual, Inside
    <2>1. CASE m = n
        <3>1. g.at = "readdir" /\ Inside(p, path)
            BY <1>8, <1>9, <2>1 DEF path
        <3>2. p \in DOMAIN fs
            BY <1>2
        <3>3. ~known
            BY <1>6, <1>8, <1>9, <3>1 DEF Kinds
        <3> QED
            BY <1>7, <3>1, <3>3 DEF Equal, Inside
    <2>2. CASE m # n
        <3>1. m \in f.seen /\ f.result = 0 /\ f.at = "readdir" /\ Inside(p, Append(f.old, m))
            BY <1>2, <1>3, <1>8, <1>9, <2>2
        <3>2. Equal(p)
            BY <1>2, <1>4, <3>1 DEF FrameInv, Through, AllEqual
        <3> QED
            BY <1>2, <1>7, <3>2, EqualSame
    <2> QED
        BY <2>1, <2>2
<1>15. FrameInv(g)'
    BY <1>11, <1>12, <1>13, <1>14 DEF FrameInv
<1>16. AllSame(Append(g.new, g.entry))'
    <2>1. AllSame(Append(f.new, n))
        BY <1>4, <1>5 DEF FrameInv, Fresh
    <2> QED
        BY <1>2, <1>8, <1>9, <2>1 DEF AllSame, Same, Inside
<1>17. PICK q \in Paths : q = Top.new
    BY <1>3, <1>4
<1>18. Step(q)
    <2>1. Inside(q, new_dir_name)
        BY <1>3, <1>4, <1>17 DEF FrameOK
    <2>2. Writes(q)
        BY <1>2, <1>17, <2>1 DEF Writes
    <2> QED
        BY <1>2, <1>7, <2>2 DEF Step, CInv
<1>19. Inside(q, Top.new)
    BY <1>17, InsideSelf
<1> QED
    BY <1>2, <1>3, <1>7, <1>8, <1>9, <1>15, <1>16, <1>18, <1>19, GoesOn

LEMMA CCopyFile ==
    ASSUME TInv, CInv, CopyFile PROVE CInv'
<1>1. /\ pc = "copying" /\ pc' = pc /\ Top.at = "file"
      /\ UNCHANGED <<new_dir_name, before, unknown, changes>>
    BY DEF CopyFile, Copying
<1>2. PICK opened \in Outcomes("openat"), copied \in Outcomes("copying_all"),
           writable \in BOOLEAN :
        LET old   == OldEntry \in DOMAIN fs /\ CanOpen(1)
            other == NewEntry \in DOMAIN fs /\ fs[NewEntry].kind \in {"link", "node"}
            new   == /\ opened /\ CanOpen(2)
                     /\ \/ CanCreate
                        \/ NewEntry \in DOMAIN fs /\ fs[NewEntry].kind = "file"
                        \/ other /\ writable
        IN  /\ fs' = IF other \/ ~new THEN fs
                     ELSE With(NewEntry, IF old /\ copied THEN fs[OldEntry]
                                         ELSE [kind |-> "file", data |-> Part])
            /\ NextEntry(old /\ new /\ copied)
    BY DEF CopyFile
<1> DEFINE old   == OldEntry \in DOMAIN fs /\ CanOpen(1)
           other == NewEntry \in DOMAIN fs /\ fs[NewEntry].kind \in {"link", "node"}
           new   == /\ opened /\ CanOpen(2)
                    /\ \/ CanCreate
                       \/ NewEntry \in DOMAIN fs /\ fs[NewEntry].kind = "file"
                       \/ other /\ writable
           data  == IF old /\ copied THEN fs[OldEntry]
                    ELSE [kind |-> "file", data |-> Part]
           ok    == old /\ new /\ copied
<1>3. fs' = (IF other \/ ~new THEN fs ELSE With(NewEntry, data)) /\ NextEntry(ok)
    BY <1>2, Zenon
<1>4. PICK q \in Paths, d \in Paths : q = NewEntry /\ d = OldEntry
    BY <1>1, TopIs
<1>5. ok => d \in DOMAIN fs
    BY <1>4
<1>6. other => q \in DOMAIN fs /\ fs[q].kind \in {"link", "node"}
    BY <1>4
<1>7. ok => data = fs[d] /\ ((fs' = fs /\ other) \/ fs' = With(q, fs[d]))
    BY <1>3, <1>4, Zenon
<1>8. Step(q)
    <2>1. Inside(q, new_dir_name)
        BY <1>1, <1>4, TopIs
    <2>2. fs' = fs \/ \E e : fs' = With(q, e)
        BY <1>3, <1>4
    <2>3. Writes(q)
        BY <2>1, <2>2, WriteOne
    <2> QED
        BY <1>1, <2>3 DEF Step, CInv
<1>9. /\ Source(d) => d \in DOMAIN before /\ before[d].kind = "file"
      /\ Inside(d, OldDir)
      /\ q = Copied(d) /\ Same(q) /\ Len(d) > 0
    <2>1. Len(OldDir) \in Nat /\ Len(stack) \in Nat /\ Len(stack) > 0
        BY <1>1, TopIs, Known, PathLength
    <2> QED
        BY <1>1, <1>4, <2>1, TopPlace
<1>10. Copied(d)' = q
    BY <1>1, <1>9 DEF Copied
<1> HIDE DEF ok, other, data
<1>11. ok => AllEqual(d)'
    <2> SUFFICES ASSUME ok, Source(d), d \in DOMAIN fs' PROVE Equal(d)'
        BY <1>8, <1>9, LeafEqual DEF Kinds
    <2>1. d # q
        BY <1>8, NotWritten
    <2>2. d \in DOMAIN fs /\ fs[d] = before[d]
        BY <1>5, <1>9 DEF CInv, OldTree
    <2>3. CASE fs' = fs /\ other
        <3>1. q \in DOMAIN fs' /\ fs'[q].kind \in {"link", "node"} /\ fs'[d].kind = "file"
            BY <1>6, <1>9, <2>2, <2>3
        <3>2. q \in DOMAIN before' /\ fs'[q] = before'[q]
            BY <1>1, <1>6, <1>9, <2>3 DEF Same
        <3>3. KeptOther(d)'
            BY <1>10, <3>1, <3>2 DEF KeptOther
        <3> QED
            BY <1>10, <3>1, <3>3 DEF Equal
    <2>4. CASE fs' = With(q, fs[d])
        <3>1. q \in DOMAIN fs' /\ fs'[q] = fs[d]
            BY <2>4 DEF With
        <3>2. fs'[d] = fs[d]
            BY <1>8, <2>1, <2>2 DEF Step, Writes
        <3> QED
            BY <1>10, <3>1, <3>2 DEF Equal
    <2> QED
        BY <1>7, <2>3, <2>4
<1> QED
    BY <1>1, <1>3, <1>4, <1>8, <1>11, EntryEnds DEF Kinds

LEMMA CCreate ==
    ASSUME TInv, CInv, NEW kind \in {"link", "node"}, Create(kind)
    PROVE  CInv'
<1>1. /\ pc = "copying" /\ pc' = pc /\ Top.at = kind
      /\ UNCHANGED <<new_dir_name, before, unknown, changes>>
    BY DEF Create, Copying
<1>2. PICK made \in Outcomes(kind) :
        LET created == Readable(kind) /\ CanCreate /\ made
            source  == IF OldEntry \in DOMAIN fs THEN fs[OldEntry]
                       ELSE before[OldEntry]
        IN  /\ fs' = IF created THEN With(NewEntry, source) ELSE fs
            /\ NextEntry(Readable(kind) /\ NewEntry \in DOMAIN fs')
    BY DEF Create
<1> DEFINE source == IF OldEntry \in DOMAIN fs THEN fs[OldEntry] ELSE before[OldEntry]
<1>3. fs' = fs \/ fs' = With(NewEntry, source)
    BY <1>2
<1>4. PICK q \in Paths, d \in Paths : q = NewEntry /\ d = OldEntry
    BY <1>1, TopIs
<1>5. PICK ok \in BOOLEAN : NextEntry(ok) /\ (ok => q \in DOMAIN fs')
    <2> DEFINE okay == Readable(kind) /\ q \in DOMAIN fs'
    <2>1. NextEntry(okay)
        BY <1>2, <1>4
    <2>2. okay \in BOOLEAN /\ (okay => q \in DOMAIN fs')
        OBVIOUS
    <2> HIDE DEF okay
    <2> QED
        BY <2>1, <2>2
<1>6. Step(q)
    <2>1. Inside(q, new_dir_name)
        BY <1>1, <1>4, TopIs
    <2>2. Writes(q)
        BY <1>3, <1>4, <2>1, WriteOne
    <2> QED
        BY <1>1, <2>2 DEF Step, CInv
<1>7. /\ Source(d) => d \in DOMAIN before /\ before[d].kind = kind
      /\ Inside(d, OldDir)
      /\ q = Copied(d) /\ Same(q) /\ Len(d) > 0
    <2>1. Len(OldDir) \in Nat /\ Len(stack) \in Nat /\ Len(stack) > 0
        BY <1>1, TopIs, Known, PathLength
    <2> QED
        BY <1>1, <1>4, <2>1, TopPlace
<1>8. Copied(d)' = q
    BY <1>1, <1>7 DEF Copied
<1>9. ok => AllEqual(d)'
    <2> SUFFICES ASSUME ok, Source(d), d \in DOMAIN fs' PROVE Equal(d)'
        BY <1>6, <1>7, LeafEqual
    <2>1. d # q
        BY <1>6, NotWritten
    <2>2. d \in DOMAIN fs /\ fs'[d] = fs[d]
        BY <1>6, <2>1 DEF Step, Writes
    <2>3. fs[d] = before[d]
        BY <1>7, <2>2 DEF CInv, OldTree
    <2>4. CASE fs' = fs
        <3>1. q \in DOMAIN fs' /\ q \in DOMAIN before' /\ fs'[q] = before'[q]
            BY <1>1, <1>5, <1>7, <2>4 DEF Same
        <3>2. KeptOther(d)'
            BY <1>7, <1>8, <2>2, <2>3, <3>1 DEF KeptOther
        <3> QED
            BY <1>8, <3>1, <3>2 DEF Equal
    <2>5. CASE fs' = With(NewEntry, source)
        <3>1. q \in DOMAIN fs' /\ fs'[q] = fs[d]
            BY <1>4, <2>2, <2>5 DEF With
        <3> QED
            BY <1>8, <2>2, <3>1 DEF Equal
    <2> QED
        BY <1>3, <2>4, <2>5
<1> QED
    BY <1>1, <1>4, <1>5, <1>6, <1>9, EntryEnds

(* A frame that begins to read a directory, which is new or as it was. *)
LEMMA NewFrame ==
    ASSUME NEW q, Step(q), NEW d \in Paths, Inside(d, OldDir), q = Copied(d), AllSame(q),
           \/ q \in DOMAIN fs /\ fs' = fs
           \/ q \notin DOMAIN fs /\ fs' = With(q, [kind |-> "dir", data |-> Full]),
           NEW g \in Frames, g.old = d, g.new = q, g.seen = {}, g.at = "readdir",
           Entries(d) \subseteq g.listed
    PROVE  FrameInv(g)'
<1>1. /\ TInv /\ q \in Paths /\ new_dir_name' = new_dir_name /\ before' = before
      /\ OldDir \in Paths /\ new_dir_name \in Paths
      /\ \A p \in DOMAIN fs \cup DOMAIN before : p \in Paths
    BY Known DEF Step, Writes
<1>2. Placed(g)'
    BY <1>1 DEF Placed, Inside, Copied
<1>3. Listed(g)'
    <2> SUFFICES ASSUME NEW n \in Names, Append(d, n) \in DOMAIN fs',
                        Source(Append(d, n))
                 PROVE  n \in g.listed
        BY <1>1, SourceStays DEF Listed, Entries
    <2>1. Append(d, n) \in DOMAIN fs
        BY NotWritten DEF Step, Writes
    <2> QED
        BY <2>1 DEF Entries
<1>4. Fresh(g)'
    <2> SUFFICES ASSUME NEW n \in Names, NEW p \in DOMAIN fs' \cup DOMAIN before',
                        Inside(p, Append(q, n))
                 PROVE  Same(p)'
        BY DEF Fresh, AllSame, Inside
    <2>1. p \in Paths
        BY <1>1 DEF Step, Writes
    <2>2. Inside(p, q) /\ p # q
        BY <1>1, <2>1, OneEntry, PathLength
    <2>3. p \in DOMAIN fs \cup DOMAIN before
        BY <1>1, <2>2 DEF Step, Writes
    <2>4. Same(p)
        BY <2>2, <2>3 DEF AllSame
    <2> QED
        BY <1>1, <2>2, <2>4 DEF Same, Step, Writes
<1>5. Mode(g)'
    <2>1. Same(q)
        BY <1>1, InsideSelf DEF AllSame, Same
    <2>2. CASE q \in DOMAIN fs /\ fs' = fs
        BY <1>1, <2>1, <2>2 DEF Mode, Same
    <2>3. CASE q \notin DOMAIN fs /\ fs' = With(q, [kind |-> "dir", data |-> Full])
        <3>1. fs'[q] = [kind |-> "dir", data |-> Full]
            BY <2>3 DEF With
        <3> QED
            BY <1>1, <2>1, <2>3, <3>1 DEF Mode, Same
    <2> QED
        BY <2>2, <2>3
<1>6. Through(g)'
    BY DEF Through
<1> QED
    BY <1>2, <1>3, <1>4, <1>5, <1>6 DEF FrameInv

\* What is known of a frame does not depend on how it is named.
LEMMA FrameAt ==
    ASSUME NEW i, \A f \in Frames : f = stack'[i] => FrameInv(f)', stack'[i] \in Frames
    PROVE  FrameInv(stack[i])'
<1>1. PICK f \in Frames : f = stack'[i]
    OBVIOUS
<1>2. FrameInv(f)'
    BY <1>1
<1> QED
    BY <1>1, <1>2 DEF FrameInv, Placed, Listed, Fresh, Mode, Through, AllEqual,
       AllSame, Equal, Same, KeptOther, Elsewhere, Inside, Copied, Entries, Source

LEMMA CMkdiratFails ==
    ASSUME TInv, CInv, MkdiratFails PROVE CInv'
<1>1. /\ pc = "copying" /\ Top.at = "dir" /\ pc' = pc
      /\ UNCHANGED <<new_dir_name, fs, unknown, before, changes>>
    BY DEF MkdiratFails, Copying
<1>2. PICK f \in Frames : f = Top
    BY <1>1, TopIs
<1>3. /\ FrameOK(f) /\ FrameInv(f) /\ f.new \in Paths /\ f.entry \in Names
      /\ NewEntry \in Paths /\ Inside(NewEntry, new_dir_name)
    BY <1>1, <1>2, TopIs, TopPlace
<1>4. PICK q \in Paths : q = NewEntry
    BY <1>3
<1>5. Step(q)
    <2>1. Writes(q)
        BY <1>1, <1>3, <1>4 DEF Writes
    <2> QED
        BY <1>1, <2>1 DEF Step, CInv
<1>6. Inside(q, Append(f.new, f.entry)) /\ Inside(q, Top.new)
    BY <1>2, <1>3, <1>4, InsideSelf, OneEntry DEF NewEntry
<1>7. FrameInv(f)'
    BY <1>1, <1>2, <1>3, <1>5, <1>6, FrameStays
<1> DEFINE h == [f EXCEPT !.result = 0 - 1]
<1>8. /\ h \in Frames /\ h.old = f.old /\ h.new = f.new /\ h.listed = f.listed
      /\ h.seen = f.seen /\ h.at = f.at /\ h.entry = f.entry /\ h.result # 0
    <2>1. /\ h \in Frames /\ h.old = f.old /\ h.new = f.new /\ h.listed = f.listed
          /\ h.seen = f.seen /\ h.at = f.at /\ h.entry = f.entry
        BY DEF Frames
    <2>2. h.result = 0 - 1
        BY DEF Frames
    <2>3. 0 - 1 # 0
        OBVIOUS
    <2> QED
        BY <2>1, <2>2, <2>3
<1>9. SetTop(h)
    BY <1>2 DEF MkdiratFails
<1> HIDE DEF h
<1>10. PICK g \in Frames : g = h
    BY <1>8
<1>11. FrameInv(g)'
    <2>1. Placed(g)' /\ Listed(g)'
        BY <1>7, <1>8, <1>10 DEF FrameInv, Placed, Listed, Entries, Inside, Copied, Source
    <2>2. Fresh(g)' /\ Mode(g)'
        BY <1>7, <1>8, <1>10 DEF FrameInv, Fresh, Mode, AllSame, Same, Inside
    <2>3. Through(g)'
        BY <1>8, <1>10 DEF Through
    <2> QED
        BY <2>1, <2>2, <2>3 DEF FrameInv
<1>12. AllSame(Append(g.new, g.entry))'
    <2>1. AllSame(Append(f.new, f.entry))
        BY <1>1, <1>2, TopPlace DEF NewEntry
    <2> QED
        BY <1>1, <1>8, <1>10, <2>1 DEF AllSame, Same, Inside
<1> QED
    BY <1>1, <1>2, <1>5, <1>6, <1>8, <1>9, <1>10, <1>11, <1>12, GoesOn

LEMMA COpenDirs ==
    ASSUME TInv, CInv, OpenDirs PROVE CInv'
<1>1. /\ pc = "copying" /\ Top.at = "dir"
      /\ UNCHANGED <<new_dir_name, before, unknown, changes>>
    BY DEF OpenDirs, Copying
<1>2. PICK opened \in Outcomes("openat"), made \in Outcomes("mkdirat") :
        /\ fs' = IF CanCreate /\ made
                 THEN With(NewEntry, [kind |-> "dir", data |-> Full])
                 ELSE fs
        /\ \/ /\ NewEntry \in DOMAIN fs' /\ pc' = pc
              /\ stack' = Append(stack, Frame(OldEntry, NewEntry, Entries(OldEntry)))
           \/ /\ NewEntry \in DOMAIN fs' /\ fs'[NewEntry].kind = "link" /\ pc' = pc
              /\ \E ok : NextEntry(ok)
           \/ pc' = "crashed" /\ UNCHANGED stack
    BY DEF OpenDirs
<1>3. PICK q \in Paths, d \in Paths : q = NewEntry /\ d = OldEntry
    BY <1>1, TopIs
<1>4. \/ fs' = fs
      \/ q \notin DOMAIN fs /\ fs' = With(q, [kind |-> "dir", data |-> Full])
    BY <1>2, <1>3 DEF CanCreate
<1>5. Step(q)
    <2>1. Inside(q, new_dir_name)
        BY <1>1, <1>3, TopIs
    <2>2. Writes(q)
        BY <1>3, <1>4, <2>1, WriteOne
    <2> QED
        BY <1>1, <2>2 DEF Step, CInv
<1>6. PICK n \in Nat : n = Len(stack) /\ n > 0 /\ n \in 1 .. n
    BY <1>1, TopIs
<1>7. /\ stack \in Seq(Frames) /\ \A i \in 1 .. n : stack[i] \in Frames
      /\ Top = stack[n]
    BY <1>6, ElementOfSeq DEF TInv, Stacked, Top
<1>8. /\ Top.new \in Paths /\ Top.entry \in Names /\ q = Append(Top.new, Top.entry)
      /\ Inside(q, Top.new)
    <2>1. Top.new \in Paths /\ Top.entry \in Names /\ q = Append(Top.new, Top.entry)
        BY <1>1, <1>3, TopIs, TopPlace DEF NewEntry
    <2> QED
        BY <2>1, InsideSelf, OneEntry
<1>9. \A i \in 1 .. n : \A f \in Frames : f = stack[i] => FrameInv(f)'
    <2>1. \A i \in 1 .. n - 1 : \A f \in Frames : f = stack[i] => FrameInv(f)'
        BY <1>1, <1>5, <1>6, <1>8, OuterStay
    <2>2. ASSUME NEW f \in Frames, f = stack[n] PROVE FrameInv(f)'
        <3>1. FrameOK(f) /\ FrameInv(f) /\ f.at # "readdir"
            BY <1>1, <1>7, <2>2, TopIs, TopPlace
        <3>2. Inside(q, Append(f.new, f.entry))
            BY <1>7, <1>8, <2>2, InsideSelf
        <3> QED
            BY <1>5, <3>1, <3>2, FrameStays
    <2> QED
        BY <1>6, <2>1, <2>2
<1>10. OldTree'
    BY <1>1, <1>5, OldTreeStays
<1>11. CASE pc' = "crashed" /\ UNCHANGED stack
    <2>1. \A i \in 1 .. n : FrameInv(stack[i])'
        BY <1>7, <1>9, <1>11, FrameAt
    <2>2. Levels' /\ AtFresh'
        BY <1>11 DEF CInv, Levels, AtFresh, Inside
    <2> QED
        BY <1>6, <1>10, <1>11, <2>1, <2>2 DEF CInv
<1>12. CASE /\ NewEntry \in DOMAIN fs' /\ pc' = pc
            /\ stack' = Append(stack, Frame(OldEntry, NewEntry, Entries(OldEntry)))
    <2>1. PICK g \in Frames : g = Frame(d, q, Entries(d))
        BY DEF Frame, Frames, Entries
    <2>2. /\ g.old = d /\ g.new = q /\ g.seen = {} /\ g.at = "readdir"
          /\ g.listed = Entries(d)
        BY <2>1 DEF Frame
    <2>3. /\ Inside(d, OldDir) /\ q = Copied(d) /\ AllSame(q)
          /\ Len(d) = Len(OldDir) + n
        BY <1>1, <1>3, <1>6, TopPlace
    <2>4. \/ q \in DOMAIN fs /\ fs' = fs
          \/ q \notin DOMAIN fs /\ fs' = With(q, [kind |-> "dir", data |-> Full])
        BY <1>3, <1>4, <1>12
    <2>5. FrameInv(g)'
        BY <1>5, <2>2, <2>3, <2>4, NewFrame
    <2>6. /\ stack' \in Seq(Frames) /\ Len(stack') = n + 1
          /\ \A i \in 1 .. n : stack'[i] = stack[i]
          /\ stack'[n + 1] = g
        BY <1>3, <1>6, <1>7, <1>12, <2>1, AppendProperties
    <2>7. Top' = g
        BY <2>6 DEF Top
    <2>8. \A i \in 1 .. n + 1 : FrameInv(stack[i])'
        <3> SUFFICES ASSUME NEW i \in 1 .. n + 1 PROVE FrameInv(stack[i])'
            OBVIOUS
        <3>1. stack'[i] \in Frames
            BY <1>6, <1>7, <2>6
        <3>2. \A f \in Frames : f = stack'[i] => FrameInv(f)'
            BY <1>6, <1>9, <2>5, <2>6
        <3> QED
            BY <3>1, <3>2, FrameAt
    <2>9. AtFresh'
        BY <2>2, <2>7 DEF AtFresh
    <2>10. \A i \in 1 .. n :
             /\ Len(stack[i].old) = Len(OldDir) + i - 1
             /\ \A j \in 1 .. i - 1 :
                  Inside(stack[i].new, Append(stack[j].new, stack[j].entry))
        BY <1>6 DEF CInv, Levels
    <2>11. \A j \in 1 .. n : Inside(q, Append(stack[j].new, stack[j].entry))
        <3> SUFFICES ASSUME NEW j \in 1 .. n
                     PROVE  Inside(q, Append(stack[j].new, stack[j].entry))
            OBVIOUS
        <3>1. CASE j = n
            BY <1>7, <1>8, <3>1, InsideSelf
        <3>2. CASE j # n
            <4>1. j \in 1 .. n - 1
                BY <1>6, <3>2
            <4>2. Inside(Top.new, Append(stack[j].new, stack[j].entry))
                BY <1>6, <1>7, <2>10, <4>1
            <4>3. FrameOK(stack[j]) /\ stack[j].at = "dir" /\ stack[j] \in Frames
                BY <1>6, <1>7, <4>1 DEF TInv, Stacked
            <4>4. stack[j].new \in Paths /\ stack[j].entry \in Names
                BY <4>3 DEF FrameOK, Frames
            <4>5. Append(stack[j].new, stack[j].entry) \in Paths
                BY <4>4, EntryPath
            <4> QED
                BY <1>8, <4>2, <4>5, Under
        <3> QED
            BY <3>1, <3>2
    <2>12. Levels'
        <3> SUFFICES ASSUME NEW i \in 1 .. n + 1
                     PROVE  /\ Len(stack'[i].old) = Len(OldDir) + i - 1
                            /\ \A j \in 1 .. i - 1 :
                                 Inside(stack'[i].new, Append(stack'[j].new, stack'[j].entry))
            BY <2>6 DEF Levels, Inside
        <3>1. CASE i = n + 1
            <4>1. Len(OldDir) \in Nat /\ Len(OldDir) + i - 1 = Len(OldDir) + n
                BY <1>6, <3>1, Known, PathLength
            <4>2. \A j \in 1 .. i - 1 : j \in 1 .. n /\ stack'[j] = stack[j]
                BY <1>6, <2>6, <3>1
            <4> QED
                BY <2>2, <2>3, <2>6, <2>11, <3>1, <4>1, <4>2
        <3>2. CASE i # n + 1
            <4>1. i \in 1 .. n /\ \A j \in 1 .. i - 1 : j \in 1 .. n
                BY <1>6, <3>2
            <4> QED
                BY <2>6, <2>10, <4>1
        <3> QED
            BY <3>1, <3>2
    <2> QED
        BY <1>1, <1>10, <1>12, <2>6, <2>8, <2>9, <2>12 DEF CInv
<1>13. CASE /\ NewEntry \in DOMAIN fs' /\ fs'[NewEntry].kind = "link" /\ pc' = pc
            /\ \E ok : NextEntry(ok)
    <2>1. PICK ok : NextEntry(ok)
        BY <1>13
    <2>2. /\ Inside(d, OldDir) /\ q = Copied(d) /\ Same(q)
          /\ Source(d) => d \in DOMAIN before /\ before[d].kind = "dir"
        BY <1>1, <1>3, TopPlace
    <2>3. q \in DOMAIN before /\ before[q].kind = "link"
        <3>1. CASE fs' = fs
            BY <1>3, <1>13, <2>2, <3>1 DEF Same
        <3>2. CASE fs' = With(q, [kind |-> "dir", data |-> Full])
            <4>1. fs'[q] = [kind |-> "dir", data |-> Full]
                BY <3>2 DEF With
            <4> QED
                BY <1>3, <1>13, <4>1
        <3> QED
            BY <1>4, <3>1, <3>2
    <2>4. AllEqual(d)'
        <3> SUFFICES ASSUME NEW p \in DOMAIN fs' \cap DOMAIN before', Inside(p, d),
                            Source(p)
                     PROVE  Equal(p)'
            BY <1>1, SourceStays DEF AllEqual, Inside
        <3>1. Elsewhere(p)
            <4>1. Source(d)
                BY <1>1, <2>2, Known, SourceAbove
            <4> QED
                BY <2>2, <2>3, <4>1 DEF Elsewhere
        <3>2. Elsewhere(p)'
            BY <1>1, <3>1 DEF Elsewhere, Copied, Inside
        <3> QED
            BY <3>2 DEF Equal
    <2> QED
        BY <1>1, <1>3, <1>5, <1>13, <2>1, <2>4, EntryEnds
<1> QED
    BY <1>2, <1>11, <1>12, <1>13

(* What copy_dir returns 0 for: every entry that is left has been seen, and *)
(* the permissions come last.                                              *)
LEMMA DirEqual ==
    ASSUME NEW q, Step(q), CInv, NEW f \in Frames, FrameInv(f), FrameOK(f),
           f.at = "readdir", q = f.new, f.result = 0, "readdir" \notin Failing,
           f.listed \subseteq f.seen,
           fs' = With(q, [kind |-> "dir", data |-> fs[f.old].data])
    PROVE  AllEqual(f.old)'
<1>1. PICK d \in Paths : d = f.old
    BY DEF Frames
<1>2. /\ TInv /\ OldDir \in Paths /\ new_dir_name \in Paths /\ q \in Paths
      /\ \A p \in DOMAIN fs \cup DOMAIN before : p \in Paths
      /\ before' = before /\ new_dir_name' = new_dir_name
      /\ Len(d) \in Nat /\ Len(OldDir) \in Nat /\ Len(q) \in Nat
    BY Known, PathLength DEF Step, Writes
<1>3. /\ Inside(d, OldDir) /\ q = Copied(d) /\ d \in DOMAIN fs /\ fs[d].kind = "dir"
      /\ Source(d) => d \in DOMAIN before /\ fs[d] = before[d]
    BY <1>1 DEF FrameInv, Placed, FrameOK, IsDir, CInv, OldTree
<1> SUFFICES ASSUME NEW p \in DOMAIN fs' \cap DOMAIN before', Inside(p, d), Source(p)
             PROVE  Equal(p)'
    BY <1>1, <1>2, SourceStays DEF AllEqual, Inside
<1>4. p \in Paths /\ Inside(p, OldDir) /\ Len(p) \in Nat
    BY <1>2, <1>3, Under, PathLength
<1>5. p # q /\ p \in DOMAIN fs /\ fs'[p] = fs[p]
    BY NotWritten DEF Step, Writes
<1>6. CASE p = d
    <2>1. fs[d] = [kind |-> "dir", data |-> fs[d].data]
        BY <1>2, <1>3, <1>6, Known
    <2>2. q \in DOMAIN fs' /\ fs'[q] = [kind |-> "dir", data |-> fs[d].data]
        BY <1>1 DEF With
    <2>3. Copied(d)' = q
        BY <1>2, <1>3 DEF Copied
    <2>4. fs'[q] = fs'[d]
        BY <1>5, <1>6, <2>1, <2>2
    <2> QED
        BY <1>6, <2>2, <2>3, <2>4 DEF Equal
<1>7. CASE p # d
    <2>1. PICK n \in Names : n = p[Len(d) + 1] /\ Inside(p, Append(d, n))
        BY <1>4, <1>7, SomeEntry
    <2>2. PICK a \in Paths : a = Append(d, n) /\ Len(a) = Len(d) + 1
        BY EntryPath
    <2>3. Inside(a, OldDir) /\ Source(a)
        BY <1>2, <1>3, <1>4, <2>1, <2>2, InsideEntry, SourceAbove
    <2>4. a \in DOMAIN fs
        <3>1. CASE p = a
            BY <1>5, <3>1
        <3>2. CASE p # a
            <4>1. p \in DOMAIN before /\ Inside(p, a) /\ Len(a) > 0
                BY <1>2, <2>1, <2>2
            <4>2. a \in DOMAIN before /\ before[a].kind = "dir"
                BY <1>2, <3>2, <4>1, Parents
            <4> QED
                BY <2>3, <4>2 DEF CInv, OldTree
        <3> QED
            BY <3>1, <3>2
    <2>5. n \in f.seen
        BY <1>1, <2>2, <2>3, <2>4 DEF FrameInv, Listed, Entries
    <2>6. Equal(p)
        <3>1. AllEqual(Append(f.old, n))
            BY <2>5 DEF FrameInv, Through
        <3> QED
            BY <1>1, <1>2, <1>5, <2>1, <3>1 DEF AllEqual
    <2>7. Inside(Copied(p), Append(q, n)) /\ Copied(p) \in Paths
        <3>1. Inside(Copied(p), Copied(a))
            BY <1>2, <1>4, <2>1, <2>2, <2>3, CopiedInside
        <3>2. Copied(a) = Append(q, n)
            BY <1>2, <1>3, <2>2, CopiedEntry
        <3> QED
            BY <1>2, <1>4, <3>1, <3>2, CopiedIs
    <2>8. Copied(p) # q
        BY <1>2, <2>7, OneEntry
    <2> QED
        BY <1>4, <1>5, <2>6, <2>8, EqualStays
<1> QED
    BY <1>6, <1>7

LEMMA CEndOfDir ==
    ASSUME TInv, CInv, EndOfDir PROVE CInv'
<1>1. /\ pc = "copying" /\ Top.at = "readdir"
      /\ UNCHANGED <<new_dir_name, before, unknown, changes>>
    BY DEF EndOfDir, Copying
<1>2. PICK readall \in Outcomes("readdir"), statted \in Outcomes("fstat"),
           changed \in Outcomes("fchmod"), closed \in Outcomes("closedir"),
           mode \in {fs[Top.old].data} \cup Modes :
        /\ readall => Top.listed \subseteq Top.seen
        /\ statted => mode = fs[Top.old].data
        /\ fs' = IF changed THEN With(Top.new, [kind |-> "dir", data |-> mode]) ELSE fs
        /\ Return(IF statted /\ changed /\ (closed \/ Len(stack) = 1)
                  THEN Top.result ELSE 0 - 1)
    BY DEF EndOfDir
<1>3. PICK f \in Frames : f = Top
    BY <1>1, TopIs
<1>4. PICK n \in Nat : n = Len(stack) /\ n > 0 /\ n \in 1 .. n
    BY <1>1, TopIs
<1>5. /\ FrameOK(f) /\ FrameInv(f) /\ Inside(f.old, OldDir)
      /\ Len(f.old) = Len(OldDir) + n - 1 /\ f.old \in Paths /\ f.new \in Paths
    BY <1>1, <1>3, <1>4, TopIs, TopPlace
<1>6. PICK q \in Paths, d \in Paths : q = f.new /\ d = f.old
    BY <1>5
<1>7. Step(q) /\ Inside(q, Top.new)
    <2>1. Inside(q, new_dir_name)
        BY <1>5, <1>6 DEF FrameOK
    <2>2. fs' = fs \/ \E e : fs' = With(q, e)
        BY <1>2, <1>3, <1>6
    <2>3. Writes(q)
        BY <2>1, <2>2, WriteOne
    <2>4. Step(q)
        BY <1>1, <2>3 DEF Step, CInv
    <2> QED
        BY <1>3, <1>6, <2>4, InsideSelf
<1>8. PICK res \in {0, 0 - 1} :
        /\ Return(res)
        /\ res = 0 => statted /\ changed /\ f.result = 0
    <2> DEFINE ok == statted /\ changed /\ (closed \/ Len(stack) = 1)
               r == IF ok THEN f.result ELSE 0 - 1
    <2>1. r \in {0, 0 - 1} /\ (r = 0 => statted /\ changed /\ f.result = 0)
        <3>1. f.result \in {0, 0 - 1}
            BY DEF Frames
        <3>2. 0 - 1 \in {0, 0 - 1} /\ 0 - 1 # 0
            OBVIOUS
        <3>3. CASE ok
            BY <3>1, <3>3
        <3>4. CASE ~ok
            BY <3>2, <3>4
        <3> QED
            BY <3>3, <3>4
    <2>2. Return(r)
        BY <1>2, <1>3
    <2> HIDE DEF r, ok
    <2> QED
        BY <2>1, <2>2
<1>9. res = 0 /\ "readdir" \notin Failing => AllEqual(d)'
    <2> SUFFICES ASSUME res = 0, "readdir" \notin Failing PROVE AllEqual(d)'
        OBVIOUS
    <2>1. readall
        BY Zenon DEF Outcomes
    <2>2. fs' = With(q, [kind |-> "dir", data |-> fs[f.old].data])
        BY <1>2, <1>3, <1>6, <1>8
    <2>3. f.listed \subseteq f.seen /\ f.result = 0 /\ f.at = "readdir"
        BY <1>1, <1>2, <1>3, <1>8, <2>1
    <2>4. AllEqual(f.old)'
        BY <1>5, <1>6, <1>7, <2>2, <2>3, DirEqual
    <2> QED
        BY <1>6, <2>4
<1>10. OldTree'
    BY <1>1, <1>7, OldTreeStays
<1>11. CASE n = 1
    <2>1. stack' = <<>> /\ pc' = "done" /\ result' = res
        BY <1>4, <1>8, <1>11 DEF Return
    <2>2. Len(stack') = 0
        BY <2>1, EmptySeq
    <2>3. d = OldDir
        <3>1. OldDir \in Paths /\ Len(OldDir) \in Nat /\ Len(d) = Len(OldDir)
            BY <1>5, <1>6, <1>11, Known, PathLength
        <3>2. d # OldDir => Len(d) > Len(OldDir)
            BY <1>5, <1>6, <3>1, SomeEntry, OneEntry
        <3> QED
            BY <3>1, <3>2
    <2>4. Levels' /\ AtFresh' /\ \A i \in 1 .. Len(stack') : FrameInv(stack[i])'
        BY <2>1, <2>2 DEF Levels, AtFresh
    <2>5. pc' = "done" /\ result' = 0 /\ "readdir" \notin Failing => AllEqual(OldDir)'
        BY <1>9, <2>1, <2>3
    <2> QED
        BY <1>10, <2>4, <2>5 DEF CInv
<1>12. CASE n # 1
    <2>1. PICK g \in Frames :
             /\ n - 1 \in 1 .. n /\ n - 1 \in Nat /\ n - 1 > 0
             /\ g.old = stack[n - 1].old /\ g.new = stack[n - 1].new
             /\ g.listed = stack[n - 1].listed /\ g.seen = stack[n - 1].seen
             /\ g.at = "readdir" /\ g.entry = stack[n - 1].entry
             /\ g.result = IF res = 0 THEN stack[n - 1].result ELSE 0 - 1
             /\ stack' \in Seq(Frames) /\ Len(stack') = n - 1 /\ stack' # <<>>
             /\ \A i \in 1 .. n - 1 : stack'[i] = IF i = n - 1 THEN g ELSE stack[i]
             /\ UNCHANGED <<pc, result>>
        <3>1. \E g \in Frames : GoesBack(g, n, res)
            BY <1>1, <1>4, <1>8, <1>12, Caller
        <3> QED
            BY <3>1 DEF GoesBack
    <2>2. n - 1 \in 1 .. n - 1 /\ (n - 1) + 1 = n
        BY <1>4, <2>1
    <2>3. \A i \in 1 .. n : stack[i] \in Frames
        BY <1>4, ElementOfSeq DEF TInv, Stacked
    <2>4. PICK c \in Frames : c = stack[n - 1]
        BY <2>1, <2>3
    <2>5. c.at = "dir" /\ d = Append(c.old, c.entry)
        <3>1. /\ stack[n - 1].at = "dir"
              /\ stack[(n - 1) + 1].old = Append(stack[n - 1].old, stack[n - 1].entry)
            BY <1>4, <2>2 DEF TInv, Stacked
        <3> QED
            BY <1>3, <1>4, <1>6, <2>2, <2>4, <3>1 DEF Top
    <2>6. \A i \in 1 .. n - 1 : \A e \in Frames : e = stack[i] => FrameInv(e)'
        BY <1>1, <1>4, <1>7, OuterStay
    <2>7. FrameInv(g)'
        <3>1. FrameInv(c)'
            BY <2>2, <2>4, <2>6
        <3>2. g.result = 0 => res = 0 /\ c.result = 0
            BY <2>1, <2>4
        <3>3. g.result = 0 /\ "readdir" \notin Failing =>
                  c.result = 0 /\ AllEqual(Append(c.old, c.entry))'
            BY <1>9, <2>5, <3>2 DEF AllEqual, Inside, Source
        <3>4. /\ g.old = c.old /\ g.new = c.new /\ g.listed = c.listed
              /\ g.seen = c.seen /\ g.at = "readdir" /\ c.at # "readdir"
            BY <2>1, <2>4, <2>5
        <3> QED
            BY <3>1, <3>3, <3>4, Resumes
    <2>8. \A i \in 1 .. n - 1 : FrameInv(stack[i])'
        <3> SUFFICES ASSUME NEW i \in 1 .. n - 1 PROVE FrameInv(stack[i])'
            OBVIOUS
        <3>1. i \in 1 .. n /\ stack'[i] = IF i = n - 1 THEN g ELSE stack[i]
            BY <1>4, <2>1
        <3>2. stack'[i] \in Frames
            BY <2>3, <3>1
        <3>3. \A e \in Frames : e = stack'[i] => FrameInv(e)'
            BY <2>6, <2>7, <3>1
        <3> QED
            BY <3>2, <3>3, FrameAt
    <2>9. AtFresh'
        <3>1. Top' = g
            BY <2>1, <2>2 DEF Top
        <3> QED
            BY <2>1, <3>1 DEF AtFresh
    <2>10. Levels'
        <3>1. \A i \in 1 .. n :
                /\ Len(stack[i].old) = Len(OldDir) + i - 1
                /\ \A j \in 1 .. i - 1 :
                     Inside(stack[i].new, Append(stack[j].new, stack[j].entry))
            BY <1>4 DEF CInv, Levels
        <3>2. \A i \in 1 .. n - 1 : i \in 1 .. n /\ \A j \in 1 .. i - 1 : j \in 1 .. n - 1
            BY <1>4
        <3>3. \A i \in 1 .. n - 1 :
                /\ stack'[i].old = stack[i].old /\ stack'[i].new = stack[i].new
                /\ stack'[i].entry = stack[i].entry
            BY <2>1
        <3>4. \A i \in 1 .. n - 1 :
                /\ Len(stack'[i].old) = Len(OldDir) + i - 1
                /\ \A j \in 1 .. i - 1 :
                     Inside(stack'[i].new, Append(stack'[j].new, stack'[j].entry))
            BY <3>1, <3>2, <3>3
        <3> QED
            BY <2>1, <3>4 DEF Levels, Inside
    <2> QED
        BY <1>1, <1>10, <2>1, <2>8, <2>9, <2>10 DEF CInv
<1> QED
    BY <1>11, <1>12

LEMMA CStart ==
    ASSUME TInv, CInv, Start PROVE CInv'
<1>1. /\ pc = "start" /\ fs = before /\ stack = <<>>
      /\ UNCHANGED <<new_dir_name, before, unknown, changes>>
    BY DEF Start, TInv, Others
<1>2. \/ /\ fs' = fs /\ UNCHANGED stack
         /\ pc' = "done" /\ result' = 0 - 1
      \/ /\ fs' = IF new_dir_name \in DOMAIN fs THEN fs
                  ELSE With(new_dir_name, [kind |-> "dir", data |-> Full])
         /\ \/ /\ pc' = "copying"
               /\ stack' = <<Frame(OldDir, new_dir_name, Entries(OldDir))>>
            \/ pc' = "crashed" /\ UNCHANGED stack
    BY <1>1 DEF Start
<1>3. PICK q \in Paths, d \in Paths : q = new_dir_name /\ d = OldDir
    BY Known
<1>4. \/ q \in DOMAIN fs /\ fs' = fs
      \/ q \notin DOMAIN fs /\ fs' = With(q, [kind |-> "dir", data |-> Full])
      \/ fs' = fs /\ UNCHANGED stack /\ pc' = "done" /\ result' = 0 - 1
    BY <1>2, <1>3
<1>5. Step(q)
    <2>1. Inside(q, new_dir_name)
        BY <1>3, InsideSelf
    <2>2. Writes(q)
        BY <1>4, <2>1, WriteOne
    <2> QED
        BY <1>1, <2>2 DEF Step, CInv
<1>6. OldTree'
    BY <1>1, <1>5, OldTreeStays
<1>7. CASE UNCHANGED stack /\ ((pc' = "done" /\ result' = 0 - 1) \/ pc' = "crashed")
    <2>1. stack' = <<>> /\ Len(stack') = 0
        BY <1>1, <1>7, EmptySeq
    <2>2. Levels' /\ AtFresh' /\ \A i \in 1 .. Len(stack') : FrameInv(stack[i])'
        BY <1>7, <2>1 DEF Levels, AtFresh
    <2>3. ~(pc' = "done" /\ result' = 0)
        BY <1>7
    <2> QED
        BY <1>6, <2>2, <2>3 DEF CInv
<1>8. CASE /\ pc' = "copying"
           /\ stack' = <<Frame(OldDir, new_dir_name, Entries(OldDir))>>
    <2>1. PICK g \in Frames : g = Frame(d, q, Entries(d))
        BY DEF Frame, Frames, Entries
    <2>2. /\ g.old = d /\ g.new = q /\ g.seen = {} /\ g.at = "readdir"
          /\ g.listed = Entries(d)
        BY <2>1 DEF Frame
    <2>3. stack' = <<g>>
        BY <1>3, <1>8, <2>1
    <2>4. Len(stack') = 1 /\ stack'[1] = g /\ stack'[1] \in Frames
        BY <2>3
    <2>5. Inside(d, OldDir) /\ q = Copied(d)
        BY <1>3, CopiedOld, InsideSelf
    <2>6. AllSame(q)
        BY <1>1 DEF AllSame, Same
    <2>7. \/ q \in DOMAIN fs /\ fs' = fs
          \/ q \notin DOMAIN fs /\ fs' = With(q, [kind |-> "dir", data |-> Full])
        BY <1>4, <1>8
    <2>8. FrameInv(g)'
        BY <1>5, <2>2, <2>5, <2>6, <2>7, NewFrame
    <2>9. FrameInv(stack[1])'
        <3>1. \A e \in Frames : e = stack'[1] => FrameInv(e)'
            BY <2>4, <2>8
        <3> QED
            BY <2>4, <3>1, FrameAt
    <2>10. Top' = g
        BY <2>4 DEF Top
    <2>11. AtFresh'
        BY <2>2, <2>10 DEF AtFresh
    <2>12. Levels'
        <3>1. Len(OldDir) + 1 - 1 = Len(OldDir)
            BY <1>3, PathLength
        <3>2. \A i \in 1 .. 1 :
                /\ Len(stack'[i].old) = Len(OldDir) + i - 1
                /\ \A j \in 1 .. i - 1 :
                     Inside(stack'[i].new, Append(stack'[j].new, stack'[j].entry))
            BY <1>3, <2>2, <2>4, <3>1
        <3> QED
            BY <2>4, <3>2 DEF Levels, Inside
    <2>13. \A i \in 1 .. Len(stack') : FrameInv(stack[i])'
        <3>1. \A i \in 1 .. Len(stack') : i = 1
            BY <2>4
        <3> QED
            BY <2>9, <3>1
    <2> QED
        BY <1>6, <1>8, <2>11, <2>12, <2>13 DEF CInv
<1> QED
    BY <1>2, <1>7, <1>8

(* Somebody else removes an entry of the old tree. *)
LEMMA CRemove ==
    ASSUME TInv, CInv, Remove PROVE CInv'
<1>1. /\ pc = "copying" /\ changes' = changes + 1 /\ changes \in Nat
      /\ UNCHANGED <<new_dir_name, before, unknown, pc, stack, result>>
    BY DEF Remove, TInv, Others
<1>2. PICK r \in DOMAIN fs :
        /\ ~Inside(r, new_dir_name) /\ fs[r].kind # "dir"
        /\ fs' = [p \in DOMAIN fs \ {r} |-> fs[p]]
    BY DEF Remove
<1>3. DOMAIN fs' = DOMAIN fs \ {r} /\ \A p \in DOMAIN fs' : fs'[p] = fs[p]
    BY <1>2
<1>4. /\ OldDir \in Paths /\ new_dir_name \in Paths
      /\ \A p \in DOMAIN fs \cup DOMAIN before : p \in Paths
    BY Known
<1>5. \A p : Inside(p, new_dir_name) =>
          p # r /\ (Same(p) => Same(p)') /\ (p \in DOMAIN fs => p \in DOMAIN fs' /\ fs'[p] = fs[p])
    BY <1>1, <1>2, <1>3 DEF Same
<1>6. ASSUME NEW e \in Paths, Inside(e, new_dir_name), AllSame(e) PROVE AllSame(e)'
    <2> SUFFICES ASSUME NEW p \in DOMAIN fs' \cup DOMAIN before', Inside(p, e)
                 PROVE  Same(p)'
        BY DEF AllSame, Inside
    <2>1. p \in DOMAIN fs \cup DOMAIN before /\ p \in Paths
        BY <1>1, <1>3, <1>4
    <2>2. Inside(p, new_dir_name) /\ Same(p)
        BY <1>4, <1>6, <2>1, Under DEF AllSame
    <2> QED
        BY <1>5, <2>2
<1>7. ASSUME NEW p \in DOMAIN fs', Source(p), Equal(p) PROVE Equal(p)'
    <2>1. p \in Paths /\ p \in DOMAIN fs /\ fs'[p] = fs[p]
        BY <1>3, <1>4
    <2>2. Copied(p)' = Copied(p)
        BY <1>1 DEF Copied
    <2>3. Inside(Copied(p), new_dir_name)
        BY <1>4, <1>7, <2>1, CopiedInside, CopiedOld, InsideSelf DEF Source
    <2>4. Copied(p) \in DOMAIN fs => Copied(p) \in DOMAIN fs' /\ fs'[Copied(p)] = fs[Copied(p)]
        BY <1>5, <2>3
    <2>5. CASE \E u \in unknown : Inside(p, u)
        BY <1>1, <2>5 DEF Equal, Inside
    <2>6. CASE Copied(p) \in DOMAIN fs /\ fs[Copied(p)] = fs[p]
        BY <2>1, <2>2, <2>4, <2>6 DEF Equal
    <2>7. CASE Copied(p) \in DOMAIN fs /\ KeptOther(p)
        <3>1. KeptOther(p)'
            BY <1>1, <2>1, <2>2, <2>4, <2>7 DEF KeptOther
        <3> QED
            BY <2>2, <2>4, <2>7, <3>1 DEF Equal
    <2>8. CASE Elsewhere(p)
        BY <1>1, <2>8 DEF Equal, Elsewhere, Copied, Inside
    <2> QED
        BY <1>7, <2>5, <2>6, <2>7, <2>8 DEF Equal
<1>8. OldTree'
    <2> SUFFICES ASSUME NEW p \in DOMAIN fs' \cup DOMAIN before', Source(p)
                 PROVE  /\ p \in DOMAIN fs' => p \in DOMAIN before' /\ fs'[p] = before'[p]
                        /\ p \in DOMAIN before' /\ (changes' = 0 \/ before'[p].kind = "dir")
                               => p \in DOMAIN fs'
        BY <1>1, SourceStays DEF OldTree
    <2>1. /\ p \in DOMAIN fs => p \in DOMAIN before /\ fs[p] = before[p]
          /\ p \in DOMAIN before /\ before[p].kind = "dir" => p \in DOMAIN fs
        BY <1>1, <1>3 DEF CInv, OldTree
    <2>2. p \in DOMAIN before /\ before[p].kind = "dir" => p # r
        BY <1>2, <2>1
    <2>3. changes' # 0
        BY <1>1
    <2> QED
        BY <1>1, <1>3, <2>1, <2>2, <2>3
<1>9. ASSUME NEW f \in Frames, FrameOK(f), FrameInv(f) PROVE FrameInv(f)'
    <2>1. /\ f.old \in Paths /\ f.new \in Paths /\ Inside(f.new, new_dir_name)
          /\ Inside(f.old, OldDir)
        BY <1>9 DEF Frames, FrameOK, FrameInv, Placed
    <2>2. Placed(f)'
        BY <1>1, <1>9, SourceStays DEF FrameInv, Placed, Inside, Copied
    <2>3. Listed(f)'
        BY <1>1, <1>3, <1>9, SourceStays DEF FrameInv, Listed, Entries
    <2>4. Fresh(f)'
        <3> SUFFICES ASSUME NEW n \in Names \ f.seen PROVE AllSame(Append(f.new, n))'
            BY DEF Fresh, AllSame, Same, Inside
        <3>1. PICK e \in Paths : e = Append(f.new, n) /\ Inside(e, new_dir_name)
            BY <1>4, <2>1, EntryPath, InsideEntry
        <3>2. AllSame(e)
            BY <1>9, <3>1 DEF FrameInv, Fresh
        <3>3. AllSame(e)'
            BY <1>6, <3>1, <3>2
        <3> QED
            BY <3>1, <3>3
    <2>5. Mode(f)'
        <3>1. f.new \in DOMAIN fs /\ fs'[f.new] = fs[f.new]
            BY <1>5, <1>9, <2>1 DEF FrameOK, IsDir
        <3> QED
            BY <1>1, <1>9, <3>1 DEF FrameInv, Mode
    <2>6. Through(f)'
        <3> SUFFICES ASSUME f.result = 0, "readdir" \notin Failing, NEW n \in f.seen,
                            f.at # "readdir" => n # f.entry,
                            NEW p \in DOMAIN fs' \cap DOMAIN before',
                            Inside(p, Append(f.old, n)), Source(p)
                     PROVE  Equal(p)'
            BY <1>1, SourceStays DEF Through, AllEqual, Inside
        <3>1. n \in Names /\ p \in DOMAIN fs \cap DOMAIN before /\ p \in Paths
            BY <1>1, <1>3, <1>4 DEF Frames
        <3>2. Equal(p)
            BY <1>9, <3>1 DEF FrameInv, Through, AllEqual
        <3> QED
            BY <1>7, <3>2
    <2> QED
        BY <2>2, <2>3, <2>4, <2>5, <2>6 DEF FrameInv
<1>10. \A i \in 1 .. Len(stack') : FrameInv(stack[i])'
    <2> SUFFICES ASSUME NEW i \in 1 .. Len(stack) PROVE FrameInv(stack[i])'
        BY <1>1
    <2>1. PICK f \in Frames : f = stack[i]
        BY ElementOfSeq DEF TInv, Stacked
    <2>2. FrameOK(f) /\ FrameInv(f)
        BY <2>1 DEF TInv, Stacked, CInv
    <2>3. FrameInv(f)'
        BY <1>9, <2>2
    <2>4. stack'[i] = f
        BY <1>1, <2>1
    <2> QED
        BY <2>3, <2>4, FrameAt
<1>11. Levels'
    BY <1>1 DEF CInv, Levels, Inside
<1>12. AtFresh'
    <2>1. Top' = Top /\ NewEntry' = NewEntry
        BY <1>1 DEF Top, NewEntry
    <2> SUFFICES ASSUME Top.at # "readdir" PROVE AllSame(NewEntry)'
        BY <2>1 DEF AtFresh
    <2>2. PICK e \in Paths : e = NewEntry /\ Inside(e, new_dir_name)
        BY <1>1, TopIs
    <2>3. AllSame(e)
        BY <1>1, <2>2, TopPlace
    <2>4. AllSame(e)'
        BY <1>6, <2>2, <2>3
    <2> QED
        BY <2>1, <2>2, <2>4 DEF AllSame, Inside
<1> QED
    BY <1>1, <1>8, <1>10, <1>11, <1>12 DEF CInv

LEMMA CInit == TInv /\ Init => CInv
<1> SUFFICES ASSUME TInv, Init PROVE CInv
    OBVIOUS
<1>1. fs = before /\ pc = "start" /\ stack = <<>> /\ Len(stack) = 0
    BY EmptySeq DEF Init
<1>2. OldTree
    BY <1>1 DEF OldTree
<1> QED
    BY <1>1, <1>2 DEF CInv, Levels, AtFresh

LEMMA CStay == TInv /\ CInv /\ UNCHANGED vars => CInv'
<1> SUFFICES ASSUME TInv, CInv, UNCHANGED vars PROVE CInv'
    OBVIOUS
<1>1. OldTree' /\ Levels' /\ AtFresh'
    BY DEF vars, CInv, OldTree, Levels, AtFresh, Top, NewEntry, AllSame, Same, Inside,
       Source
<1>2. \A i \in 1 .. Len(stack) : FrameInv(stack[i])'
    <2> SUFFICES ASSUME NEW i \in 1 .. Len(stack) PROVE FrameInv(stack[i])'
        OBVIOUS
    <2>1. PICK f \in Frames : f = stack[i]
        BY ElementOfSeq DEF TInv, Stacked
    <2>2. FrameInv(f)
        BY <2>1 DEF CInv
    <2>3. Placed(f)' /\ Listed(f)' /\ Fresh(f)' /\ Mode(f)'
        BY <2>2 DEF vars, FrameInv, Placed, Listed, Fresh, Mode, AllSame, Same, Inside,
           Copied, Entries, Source
    <2>4. Through(f)'
        <3>1. \A p : Equal(p) => Equal(p)'
            BY EqualSame DEF vars
        <3>2. \A p : Source(p)' <=> Source(p)
            BY SourceStays DEF vars
        <3> QED
            BY <2>2, <3>1, <3>2 DEF vars, FrameInv, Through, AllEqual, Inside
    <2>5. FrameInv(f)' /\ stack'[i] = f
        BY <2>1, <2>3, <2>4 DEF FrameInv, vars
    <2> QED
        BY <2>5, FrameAt
<1>3. AllEqual(OldDir) => AllEqual(OldDir)'
    BY DEF vars, AllEqual, Equal, KeptOther, Elsewhere, Inside, Copied, Source
<1> QED
    BY <1>1, <1>2, <1>3 DEF CInv, vars

LEMMA CStep == TInv /\ CInv /\ [Next]_vars => CInv'
<1> SUFFICES ASSUME TInv, CInv, [Next]_vars PROVE CInv'
    OBVIOUS
<1>1. CASE UNCHANGED vars
    BY <1>1, CStay
<1>2. CASE Next
    BY <1>2, CStart, CReadEntry, CCopyFile, CMkdiratFails, COpenDirs, CEndOfDir, CCreate,
       CRemove DEF Next
<1> QED
    BY <1>1, <1>2

LEMMA TreesKept == Spec => []CInv
    BY Typed, CInit, CStep, PTL DEF Spec

(* Library/util.c:284-437: whatever the trees are, wherever the new          *)
(* directory is, whichever calls fail and whoever removes entries, a         *)
(* copy_dir that returns 0 has left an equal of every entry that is still    *)
(* there, unless that was announced as unknown or something else was there   *)
(* before; if readdir does not fail, since its failure is taken for the end  *)
(* of the directory.                                                         *)
THEOREM EqualOnSuccess ==
    ASSUME "readdir" \notin Failing PROVE Spec => []SuccessMeansEqual
<1>1. CInv => SuccessMeansEqual
    BY DEF CInv, SuccessMeansEqual, AllEqual, Equal, Source
<1> QED
    BY <1>1, TreesKept, PTL

-----------------------------------------------------------------------------
(* When nothing fails.                                                     *)

\* A directory and its copy are open for each call of copy_dir that is not
\* finished, and two more descriptors for the entry that is copied.
EnoughDescriptors ==
    \A t \in Trees : \A p \in DOMAIN t :
        Inside(p, OldDir) => 2 * (Len(p) - Len(OldDir)) + 2 <= MaxOpen

Quiet ==
    /\ failures = 0 /\ changes = 0 /\ ~Conflict /\ Apart(new_dir_name, OldDir)
    /\ TInv /\ CInv /\ EnoughDescriptors

NoError ==
    /\ pc # "crashed" /\ result = 0
    /\ \A i \in 1 .. Len(stack) : stack[i].result = 0

(* Nothing stands in the way of an entry. *)
LEMMA Possible ==
    ASSUME Quiet, pc = "copying", Top.at # "readdir"
    PROVE  /\ OldEntry \in DOMAIN fs /\ CanOpen(1) /\ CanOpen(2)
           /\ \/ CanCreate /\ NewEntry \notin DOMAIN fs
              \/ /\ NewEntry \in DOMAIN fs
                 /\ Top.at \in {"file", "dir"} => fs[NewEntry].kind = Top.at
<1>1. /\ OldEntry \in DOMAIN before /\ before[OldEntry].kind = Top.at
      /\ Source(OldEntry) /\ Inside(OldEntry, OldDir)
      /\ NewEntry = Copied(OldEntry) /\ Same(NewEntry)
      /\ Len(OldEntry) = Len(OldDir) + Len(stack) /\ FrameInv(Top) /\ Top.entry \in Names
    <2>1. /\ new_dir_name \in Paths /\ OldDir \in Paths /\ OldEntry \in Paths
          /\ Inside(OldEntry, OldDir) /\ Apart(new_dir_name, OldDir)
        BY TopPlace, TopIs, Known DEF Quiet
    <2>2. Source(OldEntry)
        BY <2>1, OneWay DEF Source
    <2> QED
        BY <2>2, TopPlace DEF Quiet
<1>2. OldEntry \in DOMAIN fs
    BY <1>1 DEF Quiet, CInv, OldTree
<1>3. /\ Len(stack) \in Nat /\ Len(OldDir) \in Nat /\ Top.new \in Paths
      /\ Inside(Top.new, new_dir_name) /\ new_dir_name \in Paths /\ NewEntry \in Paths
    BY TopIs, Known, PathLength DEF Quiet, FrameOK
<1>4. CanOpen(1) /\ CanOpen(2)
    <2>1. before \in Trees
        BY DEF Quiet, TInv, Files
    <2>2. 2 * (Len(OldEntry) - Len(OldDir)) + 2 <= MaxOpen
        BY <1>1, <2>1 DEF Quiet, EnoughDescriptors
    <2>3. Len(OldEntry) - Len(OldDir) = Len(stack)
        BY <1>1, <1>3
    <2>4. 2 * Len(stack) + 2 <= MaxOpen
        BY <2>2, <2>3
    <2> QED
        BY <1>3, <2>4, DirCopyAssumption DEF CanOpen
<1>5. CASE NewEntry \in DOMAIN before
    <2>1. Top.at \in {"file", "dir"} => before[NewEntry].kind = Top.at
        BY <1>1, <1>5 DEF Quiet, Conflict
    <2> QED
        BY <1>1, <1>2, <1>4, <1>5, <2>1 DEF Same
<1>6. CASE NewEntry \notin DOMAIN before
    <2>1. /\ Len(NewEntry) = Len(Top.new) + 1 /\ Len(Top.new) \in Nat
          /\ Len(new_dir_name) \in Nat /\ Len(Top.new) >= Len(new_dir_name)
        BY <1>1, <1>3, EntryPath, PathLength, InsideIs DEF NewEntry
    <2>2. Len(NewEntry) > Len(new_dir_name) /\ Len(NewEntry) - 1 = Len(Top.new)
        BY <2>1
    <2>3. SubSeq(NewEntry, 1, Len(NewEntry) - 1) = Top.new
        <3>1. Inside(NewEntry, Top.new)
            BY <1>1, <1>3, InsideSelf, InsideEntry DEF NewEntry
        <3> QED
            BY <2>2, <3>1 DEF Inside
    <2>4. Top.new \in DOMAIN before => before[Top.new].data = Full
        BY <1>1, <1>6, <2>2, <2>3 DEF Quiet, Conflict
    <2>5. fs[Top.new].data = Full
        BY <1>1, <2>4 DEF FrameInv, Mode
    <2> QED
        BY <1>1, <1>2, <1>4, <1>6, <2>5 DEF CanCreate, Same
<1> QED
    BY <1>5, <1>6

(* The innermost frame goes on without an error. *)
LEMMA TopNoError ==
    ASSUME TInv, NoError, pc = "copying", UNCHANGED <<pc, result>>,
           NEW g \in Frames, g.result = 0, SetTop(g)
    PROVE  NoError'
<1>1. PICK n \in Nat : n = Len(stack) /\ n > 0 /\ n \in 1 .. n
    BY TopIs
<1>2. Len(stack') = n /\ \A i \in 1 .. n : stack'[i] = IF i = n THEN g ELSE stack[i]
    <2>1. stack \in Seq(Frames) /\ stack' = [stack EXCEPT ![n] = g]
        BY <1>1 DEF TInv, Stacked, SetTop
    <2> QED
        BY <1>1, <2>1, ExceptSeq
<1> QED
    BY <1>1, <1>2 DEF NoError

\* An entry that is copied leaves the result as it is.
LEMMA EntryNoError ==
    ASSUME TInv, NoError, pc = "copying", UNCHANGED <<pc, result>>, NextEntry(TRUE)
    PROVE  NoError'
<1>1. PICK f \in Frames : f = Top
    BY TopIs
<1>2. f.result = 0
    BY <1>1, TopIs DEF NoError, Top
<1>3. PICK g \in Frames : g = [f EXCEPT !.at = "readdir"]
    BY DEF Frames, Kinds
<1>4. [f EXCEPT !.at = "readdir", !.result = f.result] = g
    BY <1>3 DEF Frames
<1>5. SetTop(g)
    BY <1>1, <1>4 DEF NextEntry
<1>6. g.result = 0
    BY <1>2, <1>3 DEF Frames
<1> QED
    BY <1>5, <1>6, TopNoError

LEMMA StartNoError ==
    ASSUME Quiet, NoError, Start, failures' = 0 PROVE NoError'
<1>1. PICK opened \in Outcomes("openat"), made \in Outcomes("mkdirat") :
         \/ Succeed(FALSE)
         \/ /\ fs' = IF new_dir_name \in DOMAIN fs THEN fs
                     ELSE With(new_dir_name, [kind |-> "dir", data |-> Full])
            /\ IF opened /\ fs'[new_dir_name].kind = "dir" /\ MaxOpen >= 2
               THEN /\ pc' = "copying"
                    /\ stack' = <<Frame(OldDir, new_dir_name, Entries(OldDir))>>
               ELSE pc' = "crashed" /\ UNCHANGED stack
            /\ Succeed(opened) /\ UNCHANGED result
    BY DEF Start
<1>2. failures = 0 /\ TInv
    BY DEF Quiet
<1>3. /\ fs = before /\ before \in Trees /\ OldDir \in DOMAIN before
      /\ before[OldDir].kind = "dir" /\ new_dir_name \in Paths /\ OldDir \in Paths
    BY <1>2, Known DEF Start, TInv, Files, Others
<1>4. opened = TRUE
    BY <1>1, <1>2, Counted DEF Succeed, TInv
<1>5. MaxOpen >= 2
    <2>1. 2 * (Len(OldDir) - Len(OldDir)) + 2 <= MaxOpen
        BY <1>3, InsideSelf DEF Quiet, EnoughDescriptors
    <2>2. Len(OldDir) \in Nat
        BY <1>3, PathLength
    <2> QED
        BY <2>1, <2>2, DirCopyAssumption
<1>6. ~Succeed(FALSE)
    BY <1>2 DEF Succeed
<1>7. fs'[new_dir_name].kind = "dir"
    <2>1. CASE new_dir_name \in DOMAIN fs
        <3>1. Copied(OldDir) = new_dir_name /\ Inside(OldDir, OldDir)
            BY <1>3, CopiedOld, InsideSelf
        <3>2. before[new_dir_name].kind = before[OldDir].kind
            BY <1>3, <2>1, <3>1 DEF Quiet, Conflict
        <3> QED
            BY <1>1, <1>3, <1>6, <2>1, <3>2
    <2>2. CASE new_dir_name \notin DOMAIN fs
        <3>1. fs' = With(new_dir_name, [kind |-> "dir", data |-> Full])
            BY <1>1, <1>6, <2>2
        <3>2. fs'[new_dir_name] = [kind |-> "dir", data |-> Full]
            BY <3>1 DEF With
        <3> QED
            BY <3>2
    <2> QED
        BY <2>1, <2>2
<1>8. /\ pc' = "copying" /\ result' = 0
      /\ stack' = <<Frame(OldDir, new_dir_name, Entries(OldDir))>>
    BY <1>1, <1>4, <1>5, <1>6, <1>7 DEF NoError
<1>9. Len(stack') = 1 /\ stack'[1].result = 0
    BY <1>8 DEF Frame
<1> QED
    BY <1>8, <1>9 DEF NoError

LEMMA ReadEntryNoError ==
    ASSUME Quiet, NoError, ReadEntry PROVE NoError'
<1>1. TInv /\ pc = "copying" /\ UNCHANGED <<pc, result>>
    BY DEF ReadEntry, Copying, Quiet
<1>2. PICK n \in (Top.listed \cup Entries(Top.old)) \ Top.seen,
           statted \in Outcomes("fstatat") :
        LET path == Append(Top.old, n)
            known == statted /\ path \in DOMAIN fs
        IN  SetTop([Top EXCEPT !.seen = @ \cup {n}, !.entry = n,
                               !.at = IF known THEN fs[path].kind ELSE "readdir"])
    BY DEF ReadEntry
<1>3. PICK f \in Frames : f = Top
    BY <1>1, TopIs
<1> DEFINE path == Append(f.old, n)
           known == statted /\ path \in DOMAIN fs
           at == IF known THEN fs[path].kind ELSE "readdir"
           g == [f EXCEPT !.seen = @ \cup {n}, !.entry = n, !.at = at]
<1>4. at \in {"readdir"} \cup Kinds
    BY <1>1 DEF TInv, Files
<1>5. n \in Names
    BY <1>3 DEF Frames, Entries
<1>6. SetTop(g)
    BY <1>2, <1>3
<1> HIDE DEF at
<1>7. g \in Frames /\ g.result = f.result
    BY <1>4, <1>5 DEF Frames
<1>8. f.result = 0
    BY <1>1, <1>3, TopIs DEF NoError, Top
<1> HIDE DEF g
<1> QED
    BY <1>1, <1>6, <1>7, <1>8, TopNoError

LEMMA CopyFileNoError ==
    ASSUME Quiet, NoError, CopyFile, failures' = 0 PROVE NoError'
<1>1. /\ TInv /\ failures = 0 /\ pc = "copying" /\ Top.at = "file"
      /\ UNCHANGED <<pc, result>>
    BY DEF CopyFile, Copying, Quiet
<1>2. PICK opened \in Outcomes("openat"), copied \in Outcomes("copying_all"),
           writable \in BOOLEAN :
        LET old   == OldEntry \in DOMAIN fs /\ CanOpen(1)
            other == NewEntry \in DOMAIN fs /\ fs[NewEntry].kind \in {"link", "node"}
            new   == /\ opened /\ CanOpen(2)
                     /\ \/ CanCreate
                        \/ NewEntry \in DOMAIN fs /\ fs[NewEntry].kind = "file"
                        \/ other /\ writable
        IN  /\ NextEntry(old /\ new /\ copied)
            /\ Succeed(opened /\ copied)
    BY DEF CopyFile
<1>3. opened = TRUE /\ copied = TRUE
    BY <1>1, <1>2, Counted DEF Succeed, TInv
<1>4. /\ OldEntry \in DOMAIN fs /\ CanOpen(1) /\ CanOpen(2)
      /\ CanCreate \/ (NewEntry \in DOMAIN fs /\ fs[NewEntry].kind = "file")
    BY <1>1, Possible
<1>5. NextEntry(TRUE)
    BY <1>2, <1>3, <1>4 DEF NextEntry
<1> QED
    BY <1>1, <1>5, EntryNoError

LEMMA CreateNoError ==
    ASSUME Quiet, NoError, NEW kind \in {"link", "node"}, Create(kind), failures' = 0
    PROVE  NoError'
<1>1. /\ TInv /\ failures = 0 /\ pc = "copying" /\ Top.at = kind
      /\ UNCHANGED <<pc, result>>
    BY DEF Create, Copying, Quiet
<1>2. PICK made \in Outcomes(kind) :
        /\ \E source :
             fs' = IF Readable(kind) /\ CanCreate /\ made THEN With(NewEntry, source)
                   ELSE fs
        /\ NextEntry(Readable(kind) /\ NewEntry \in DOMAIN fs')
        /\ Succeed(made)
    BY DEF Create
<1>3. made = TRUE
    BY <1>1, <1>2, Counted DEF Succeed, TInv
<1>4. OldEntry \in DOMAIN fs /\ (CanCreate \/ NewEntry \in DOMAIN fs)
    BY <1>1, Possible
<1>5. Readable(kind) = TRUE
    BY <1>4 DEF Readable
<1>6. NewEntry \in DOMAIN fs'
    BY <1>2, <1>3, <1>4, <1>5 DEF With
<1>7. NextEntry(TRUE)
    BY <1>2, <1>5, <1>6 DEF NextEntry
<1> QED
    BY <1>1, <1>7, EntryNoError

LEMMA OpenDirsNoError ==
    ASSUME Quiet, NoError, OpenDirs, failures' = 0 PROVE NoError'
<1>1. TInv /\ failures = 0 /\ pc = "copying" /\ Top.at = "dir" /\ UNCHANGED result
    BY DEF OpenDirs, Copying, Quiet
<1>2. PICK opened \in Outcomes("openat"), made \in Outcomes("mkdirat") :
        /\ fs' = IF CanCreate /\ made
                 THEN With(NewEntry, [kind |-> "dir", data |-> Full])
                 ELSE fs
        /\ \/ /\ stack' = Append(stack, Frame(OldEntry, NewEntry, Entries(OldEntry)))
              /\ UNCHANGED pc
           \/ fs'[NewEntry].kind = "link"
           \/ ~(opened /\ CanOpen(2) /\ NewEntry \in DOMAIN fs'
                 /\ fs'[NewEntry].kind = "dir")
        /\ Succeed(opened /\ made)
    BY DEF OpenDirs
<1>3. opened = TRUE /\ made = TRUE
    BY <1>1, <1>2, Counted DEF Succeed, TInv
<1>4. CanOpen(2) /\ (CanCreate \/ (NewEntry \in DOMAIN fs /\ fs[NewEntry].kind = "dir"))
    BY <1>1, Possible
<1>5. NewEntry \in DOMAIN fs' /\ fs'[NewEntry].kind = "dir"
    <2>1. CASE CanCreate
        <3>1. fs' = With(NewEntry, [kind |-> "dir", data |-> Full])
            BY <1>2, <1>3, <2>1
        <3>2. NewEntry \in DOMAIN fs' /\ fs'[NewEntry] = [kind |-> "dir", data |-> Full]
            BY <3>1 DEF With
        <3> QED
            BY <3>2
    <2>2. CASE ~CanCreate
        BY <1>2, <1>4, <2>2
    <2> QED
        BY <2>1, <2>2
<1>6. pc' = pc /\ stack' = Append(stack, Frame(OldEntry, NewEntry, Entries(OldEntry)))
    BY <1>2, <1>3, <1>4, <1>5
<1>7. PICK g \in Frames : g = Frame(OldEntry, NewEntry, Entries(OldEntry))
    BY <1>1, TopIs DEF Frame, Frames, Entries
<1>8. g.result = 0
    BY <1>7 DEF Frame
<1>9. PICK n \in Nat : n = Len(stack)
    BY <1>1, TopIs
<1>10. /\ Len(stack') = n + 1 /\ stack'[n + 1] = g
       /\ \A i \in 1 .. n : stack'[i] = stack[i]
    BY <1>1, <1>6, <1>7, <1>9, AppendProperties DEF TInv, Stacked
<1>11. \A i \in 1 .. n + 1 : stack'[i].result = 0
    <2> SUFFICES ASSUME NEW i \in 1 .. n + 1 PROVE stack'[i].result = 0
        OBVIOUS
    <2>1. CASE i = n + 1
        BY <1>8, <1>10, <2>1
    <2>2. CASE i # n + 1
        <3>1. i \in 1 .. n
            BY <1>9, <2>2
        <3> QED
            BY <1>9, <1>10, <3>1 DEF NoError
    <2> QED
        BY <2>1, <2>2
<1> QED
    BY <1>1, <1>6, <1>10, <1>11 DEF NoError

LEMMA EndOfDirNoError ==
    ASSUME Quiet, NoError, EndOfDir, failures' = 0 PROVE NoError'
<1>1. TInv /\ failures = 0 /\ pc = "copying"
    BY DEF EndOfDir, Copying, Quiet
<1>2. PICK readall \in Outcomes("readdir"), statted \in Outcomes("fstat"),
           changed \in Outcomes("fchmod"), closed \in Outcomes("closedir") :
        /\ Return(IF statted /\ changed /\ (closed \/ Len(stack) = 1)
                  THEN Top.result ELSE 0 - 1)
        /\ Succeed(readall /\ statted /\ changed /\ closed)
    BY DEF EndOfDir
<1>3. statted = TRUE /\ changed = TRUE /\ closed = TRUE
    BY <1>1, <1>2, Counted DEF Succeed, TInv
<1>4. Top.result = 0
    BY <1>1, TopIs DEF NoError, Top
<1>5. Return(0)
    BY <1>2, <1>3, <1>4
<1>6. PICK n \in Nat : n = Len(stack) /\ n > 0
    BY <1>1, TopIs
<1>7. CASE n = 1
    <2>1. stack' = <<>> /\ pc' = "done" /\ result' = 0
        BY <1>5, <1>6, <1>7 DEF Return
    <2>2. Len(stack') = 0
        BY <2>1, EmptySeq
    <2> QED
        BY <2>1, <2>2 DEF NoError
<1>8. CASE n # 1
    <2>1. \E g \in Frames : GoesBack(g, n, 0)
        BY <1>1, <1>5, <1>6, <1>8, Caller
    <2>2. PICK g \in Frames :
            /\ n - 1 \in 1 .. n /\ n - 1 \in Nat /\ Len(stack') = n - 1
            /\ g.result = stack[n - 1].result
            /\ \A i \in 1 .. n - 1 : stack'[i] = IF i = n - 1 THEN g ELSE stack[i]
            /\ UNCHANGED <<pc, result>>
        BY <2>1 DEF GoesBack
    <2>3. \A i \in 1 .. n - 1 : i \in 1 .. n
        BY <1>6
    <2> QED
        BY <1>6, <2>2, <2>3 DEF NoError
<1> QED
    BY <1>7, <1>8

NoErrorSoFar ==
    failures = 0 /\ changes = 0 /\ ~Conflict /\ Apart(new_dir_name, OldDir) => NoError

LEMMA NoErrorStep ==
    ASSUME EnoughDescriptors
    PROVE  TInv /\ CInv /\ NoErrorSoFar /\ [Next]_vars => NoErrorSoFar'
<1> SUFFICES ASSUME TInv, CInv, NoErrorSoFar, [Next]_vars,
                    failures' = 0, changes' = 0, ~Conflict',
                    Apart(new_dir_name, OldDir)'
             PROVE  NoError'
    BY DEF NoErrorSoFar
<1>1. new_dir_name' = new_dir_name /\ before' = before
    BY DEF Next, vars, Start, ReadEntry, CopyFile, MkdiratFails, OpenDirs, EndOfDir, Create, Remove
<1>2. ~Conflict /\ Apart(new_dir_name, OldDir)
    BY <1>1 DEF Conflict, Copied, Apart, Inside
<1>3. failures \in Nat /\ changes \in Nat
    BY DEF TInv, Others
<1>4. failures = 0
    <2>1. Start => \E ok : Succeed(ok)
        BY DEF Start
    <2>2. ReadEntry => \E ok : Succeed(ok)
        BY DEF ReadEntry
    <2>3. CopyFile => \E ok : Succeed(ok)
        BY DEF CopyFile
    <2>4. OpenDirs \/ MkdiratFails => \E ok : Succeed(ok)
        BY DEF OpenDirs, MkdiratFails
    <2>5. EndOfDir => \E ok : Succeed(ok)
        BY DEF EndOfDir
    <2>6. \A kind \in {"link", "node"} : Create(kind) => \E ok : Succeed(ok)
        BY DEF Create
    <2>7. Remove \/ UNCHANGED vars => failures' = failures
        BY DEF Remove, vars
    <2>8. (\E ok : Succeed(ok)) => failures' = failures \/ failures' = failures + 1
        BY DEF Succeed
    <2>9. failures' = failures \/ failures' = failures + 1
        BY <2>1, <2>2, <2>3, <2>4, <2>5, <2>6, <2>7, <2>8 DEF Next
    <2> QED
        BY <1>3, <2>9
<1>5. changes = 0 /\ ~Remove
    <2>1. Start \/ ReadEntry \/ CopyFile \/ MkdiratFails \/ OpenDirs \/ EndOfDir
            \/ (\E kind \in {"link", "node"} : Create(kind)) \/ UNCHANGED vars
          => changes' = changes
        BY DEF Start, ReadEntry, CopyFile, MkdiratFails, OpenDirs, EndOfDir, Create,
               vars
    <2>2. Remove => changes' = changes + 1
        BY DEF Remove
    <2> QED
        BY <1>3, <2>1, <2>2 DEF Next
<1>6. Quiet /\ NoError
    BY <1>2, <1>4, <1>5 DEF Quiet, NoErrorSoFar
<1>7. CASE UNCHANGED vars
    BY <1>6, <1>7 DEF vars, NoError
<1>8. ~MkdiratFails
    <2>1. MkdiratFails => failures' = failures + 1
        BY DEF MkdiratFails, Succeed
    <2> QED
        BY <1>4, <2>1
<1>9. CASE Next
    BY <1>5, <1>6, <1>8, <1>9, StartNoError, ReadEntryNoError, CopyFileNoError,
       OpenDirsNoError, EndOfDirNoError, CreateNoError DEF Next
<1> QED
    BY <1>7, <1>9

(* Library/util.c:284-437: whatever the trees are, a copy_dir none of whose *)
(* calls fails and whose old directory nobody changes returns 0 and uses no *)
(* null DIR, for a first copy and over an older one, for directories        *)
(* without write permission too: there are descriptors enough, and nothing  *)
(* else stands where a file or a directory belongs.                         *)
THEOREM NoErrorWithoutFailure ==
    ASSUME EnoughDescriptors PROVE Spec => []NoFailureNoError
<1>1. Init => NoErrorSoFar
    <2> SUFFICES ASSUME Init PROVE NoError
        BY DEF NoErrorSoFar
    <2>1. Len(stack) = 0
        BY EmptySeq DEF Init
    <2> QED
        BY <2>1 DEF Init, NoError
<1>2. TInv /\ NoErrorSoFar => NoFailureNoError
    <2>1. TInv => DOMAIN stack = 1 .. Len(stack)
        BY LenProperties DEF TInv, Stacked
    <2> QED
        BY <2>1 DEF NoErrorSoFar, NoError, NoFailureNoError
<1>3. TInv /\ CInv /\ NoErrorSoFar /\ [Next]_vars => NoErrorSoFar'
    BY NoErrorStep
<1> QED
    BY <1>1, <1>2, <1>3, Typed, TreesKept, PTL DEF Spec
=============================================================================
