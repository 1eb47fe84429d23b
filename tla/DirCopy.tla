------------------------------ MODULE DirCopy ------------------------------
(***************************************************************************)
(* 07.2-CopyDir and copy_dir of Library/util.c: a directory is copied with *)
(* everything in it, recursively, into a directory that may exist, may     *)
(* hold an older copy and may lie inside the one that is copied.           *)
(*                                                                         *)
(* The file system is a function from paths to entries.  An entry is its   *)
(* kind and its data: the bytes and attributes of a file (copying_all, see *)
(* Copy, either copies all of them or fails), the target of a link, the    *)
(* device of a node, the permissions of a directory.  The calls of         *)
(* copy_dir that are not finished form a stack of frames.                  *)
(***************************************************************************)
EXTENDS Naturals, Sequences

CONSTANTS
    Names,        \* names of directory entries
    OldDir,       \* path of the directory that is copied
    NewDirs,      \* paths it may be copied to
    Trees,        \* file systems to start from
    Failing,      \* system calls that may fail
    MaxOpen,      \* descriptors that a process may have
    MaxFailures,  \* bound of the steps in which calls fail
    MaxChanges    \* bound of the entries somebody else removes meanwhile

Kinds == {"file", "link", "node", "dir"}
Full  == "rwx"       \* ALL_PERMS
Modes == {Full, "r-x"}
Part  == "part"      \* a file that has not been copied as a whole

ASSUME DirCopyAssumption ==
    /\ OldDir \in Seq(Names) /\ NewDirs \subseteq Seq(Names)
    /\ OldDir \notin NewDirs
    /\ MaxOpen \in Nat /\ MaxFailures \in Nat /\ MaxChanges \in Nat
    /\ \A t \in Trees :
         /\ OldDir \in DOMAIN t /\ t[OldDir].kind = "dir"
         /\ DOMAIN t \subseteq Seq(Names)
         /\ \A p \in DOMAIN t :
              /\ t[p].kind \in Kinds
              /\ t[p] = [kind |-> t[p].kind, data |-> t[p].data]
         /\ \A p \in DOMAIN t \cup NewDirs : \A k \in 1 .. Len(p) - 1 :
              SubSeq(p, 1, k) \in DOMAIN t /\ t[SubSeq(p, 1, k)].kind = "dir"

VARIABLES
    new_dir_name,  \* where the copy goes
    fs,            \* the file system
    pc,            \* main: "start", "copying", "done" or "crashed"
    stack,         \* the frames of copy_dir, the innermost last
    result,        \* what the outermost copy_dir returns; -1 without one
    unknown,       \* entries announced as of unknown type
    before,        \* history: the file system at the start
    failures,      \* history: steps in which a call failed for no reason in fs
    changes        \* how many entries have been removed

vars == <<new_dir_name, fs, pc, stack, result, unknown, before, failures,
          changes>>

Entries(dir) == {n \in Names : Append(dir, n) \in DOMAIN fs}
IsDir(path) == path \in DOMAIN fs /\ fs[path].kind = "dir"
Inside(path, dir) == Len(path) >= Len(dir) /\ SubSeq(path, 1, Len(dir)) = dir

\* The file system with one entry set.
With(path, entry) ==
    [p \in DOMAIN fs \cup {path} |-> IF p = path THEN entry ELSE fs[p]]

Frame(old, new, names) ==
    [old |-> old, new |-> new, listed |-> names, seen |-> {},
     at |-> "readdir", entry |-> "", result |-> 0]

Init ==
    /\ fs \in Trees
    /\ before = fs
    /\ new_dir_name \in NewDirs
    /\ pc = "start" /\ stack = <<>> /\ result = 0
    /\ unknown = {} /\ failures = 0 /\ changes = 0

\* The outcomes of a system call that nothing in fs stands in the way of.
Outcomes(call) ==
    IF call \in Failing /\ failures < MaxFailures THEN {TRUE, FALSE} ELSE {TRUE}

Succeed(ok) == failures' = IF ok THEN failures ELSE failures + 1

-----------------------------------------------------------------------------
(* main                                                                    *)

\* opendir, mkdir (EEXIST is not an error, all others are), opendir; copy_dir
\* takes a null pointer if an opendir has failed.
Start ==
    /\ pc = "start"
    /\ \E opened \in Outcomes("openat"), made \in Outcomes("mkdirat") :
         IF ~made
         THEN /\ pc' = "done" /\ result' = 0 - 1
              /\ Succeed(FALSE)
              /\ UNCHANGED <<fs, stack>>
         ELSE /\ fs' = IF new_dir_name \in DOMAIN fs THEN fs
                       ELSE With(new_dir_name, [kind |-> "dir", data |-> Full])
              /\ IF opened /\ fs'[new_dir_name].kind = "dir" /\ MaxOpen >= 2
                 THEN /\ pc' = "copying"
                      /\ stack' = <<Frame(OldDir, new_dir_name, Entries(OldDir))>>
                 ELSE pc' = "crashed" /\ UNCHANGED stack
              /\ Succeed(opened)
              /\ UNCHANGED result
    /\ UNCHANGED <<new_dir_name, unknown, before, changes>>

-----------------------------------------------------------------------------
(* copy_dir                                                                *)

Top == stack[Len(stack)]
OldEntry == Append(Top.old, Top.entry)
NewEntry == Append(Top.new, Top.entry)
Copying(at) == pc = "copying" /\ Top.at = at

SetTop(frame) == stack' = [stack EXCEPT ![Len(stack)] = frame]

\* The switch is left with or without an error.
NextEntry(ok) ==
    SetTop([Top EXCEPT !.at = "readdir", !.result = IF ok THEN @ ELSE 0 - 1])

CanOpen(more) == 2 * Len(stack) + more <= MaxOpen
CanCreate == NewEntry \notin DOMAIN fs /\ fs[Top.new].data = Full

\* Fault: a directory has its permissions before its entries are there.
ReadEntryEarlyMode ==
    /\ Copying("readdir")
    /\ \E n \in (Top.listed \cup Entries(Top.old)) \ Top.seen,
          statted \in Outcomes("fstatat") :
         LET path == Append(Top.old, n)
             known == statted /\ path \in DOMAIN fs
         IN  /\ SetTop([Top EXCEPT !.seen = @ \cup {n}, !.entry = n,
                            !.at = IF known THEN fs[path].kind ELSE "readdir"])
             /\ unknown' = IF known THEN unknown ELSE unknown \cup {path}
             /\ Succeed(statted)
             /\ fs' = With(Top.new, fs[Top.old])
    /\ UNCHANGED <<new_dir_name, pc, result, before, changes>>

\* readdir hands out the names that were there when the directory was opened,
\* and may or may not hand out later ones.  An entry that cannot be looked at
\* has the type '?'.
ReadEntry ==
    /\ Copying("readdir")
    /\ \E n \in (Top.listed \cup Entries(Top.old)) \ Top.seen,
          statted \in Outcomes("fstatat") :
         LET path == Append(Top.old, n)
             known == statted /\ path \in DOMAIN fs
         IN  /\ SetTop([Top EXCEPT !.seen = @ \cup {n}, !.entry = n,
                            !.at = IF known THEN fs[path].kind ELSE "readdir"])
             /\ unknown' = IF known THEN unknown ELSE unknown \cup {path}
             /\ Succeed(statted)
    /\ UNCHANGED <<new_dir_name, fs, pc, result, before, changes>>

\* Regular files: the new one is created or emptied even if the old one
\* cannot be opened, and copying_all then fails on its descriptor.  A link or
\* a special file that is there already is written through, if that is
\* possible, to somewhere else.
CopyFile ==
    /\ Copying("file")
    /\ \E opened \in Outcomes("openat"), copied \in Outcomes("copying_all"),
          writable \in BOOLEAN :
         LET old   == OldEntry \in DOMAIN fs /\ CanOpen(1)
             other == NewEntry \in DOMAIN fs /\ fs[NewEntry].kind \in {"link", "node"}
             new   == /\ opened /\ CanOpen(2)
                      /\ \/ CanCreate
                         \/ NewEntry \in DOMAIN fs /\ fs[NewEntry].kind = "file"
                         \/ other /\ writable
         IN  /\ fs' = IF other \/ ~new THEN fs
                      ELSE With(NewEntry, IF old /\ copied THEN fs[OldEntry]
                                          ELSE [kind |-> "file", data |-> Part])
             /\ NextEntry(old /\ new /\ copied)
             /\ Succeed(opened /\ copied)
    /\ UNCHANGED <<new_dir_name, pc, result, unknown, before, changes>>

\* crt_linkat reads the old link first; mknodat uses what fstatat has found.
Readable(kind) == kind = "node" \/ OldEntry \in DOMAIN fs

\* Links (readlinkat, symlinkat) and special files (mknodat): EEXIST is not
\* an error, whatever it is that exists.
Create(kind) ==
    /\ Copying(kind)
    /\ \E made \in Outcomes(kind) :
         LET created == Readable(kind) /\ CanCreate /\ made
             source  == IF OldEntry \in DOMAIN fs THEN fs[OldEntry]
                        ELSE before[OldEntry]
         IN  /\ fs' = IF created THEN With(NewEntry, source) ELSE fs
             /\ NextEntry(Readable(kind) /\ NewEntry \in DOMAIN fs')
             /\ Succeed(made)
    /\ UNCHANGED <<new_dir_name, pc, result, unknown, before, changes>>

\* Directories, mkdirat where something is there already: EEXIST is not an
\* error, another one is, but the directories are opened all the same.
MkdiratFails ==
    /\ Copying("dir")
    /\ NewEntry \in DOMAIN fs /\ FALSE \in Outcomes("mkdirat")
    /\ SetTop([Top EXCEPT !.result = 0 - 1])
    /\ Succeed(FALSE)
    /\ UNCHANGED <<new_dir_name, fs, pc, result, unknown, before, changes>>

\* Fault: the nested call gets the descriptor of the outer new directory.
OpenDirsFlat ==
    /\ Copying("dir")
    /\ \E opened \in Outcomes("openat"), made \in Outcomes("mkdirat") :
         /\ fs' = IF CanCreate /\ made
                  THEN With(NewEntry, [kind |-> "dir", data |-> Full])
                  ELSE fs
         /\ IF opened /\ CanOpen(2) /\ NewEntry \in DOMAIN fs'
            THEN /\ stack' = Append(stack,
                                Frame(OldEntry, Top.new, Entries(OldEntry)))
                 /\ UNCHANGED pc
            ELSE pc' = "crashed" /\ UNCHANGED stack
         /\ Succeed(opened /\ made)
    /\ UNCHANGED <<new_dir_name, result, unknown, before, changes>>

\* Directories: both are opened, the new one is made if it is not there, and
\* copy_dir is called.  It uses the null pointer of an fdopendir that failed.
\* A link may lead to a directory elsewhere, which then gets the entries.
OpenDirs ==
    /\ Copying("dir")
    /\ \E opened \in Outcomes("openat"), made \in Outcomes("mkdirat") :
         /\ fs' = IF CanCreate /\ made
                  THEN With(NewEntry, [kind |-> "dir", data |-> Full])
                  ELSE fs
         /\ LET open  == opened /\ CanOpen(2) /\ NewEntry \in DOMAIN fs'
                dir   == open /\ fs'[NewEntry].kind = "dir"
                other == open /\ fs'[NewEntry].kind = "link"
            IN  \/ /\ dir
                   /\ stack' = Append(stack,
                                   Frame(OldEntry, NewEntry, Entries(OldEntry)))
                   /\ UNCHANGED pc
                \/ other /\ (\E ok \in BOOLEAN : NextEntry(ok)) /\ UNCHANGED pc
                \/ ~dir /\ pc' = "crashed" /\ UNCHANGED stack
         /\ Succeed(opened /\ made)
    /\ UNCHANGED <<new_dir_name, result, unknown, before, changes>>

\* Fault: what a nested copy_dir returns is not looked at.
ReturnUnchecked(res) ==
    IF Len(stack) = 1
    THEN pc' = "done" /\ result' = res /\ stack' = <<>>
    ELSE LET depth == Len(stack) - 1
         IN  /\ stack' = [SubSeq(stack, 1, depth) EXCEPT ![depth].at = "readdir"]
             /\ UNCHANGED <<pc, result>>

\* The innermost copy_dir returns; its caller goes on with the next entry.
Return(res) ==
    IF Len(stack) = 1
    THEN pc' = "done" /\ result' = res /\ stack' = <<>>
    ELSE LET depth == Len(stack) - 1
         IN  /\ stack' = [SubSeq(stack, 1, depth) EXCEPT
                            ![depth].at = "readdir",
                            ![depth].result = IF res = 0 THEN @ ELSE 0 - 1]
             /\ UNCHANGED <<pc, result>>

\* After the last entry, or after an error of readdir, which looks the same,
\* the new directory gets the old one's permissions, or those of whatever sb
\* held when fstat has failed.  The caller closes both: a closedir that fails
\* counts like a nested call that has failed, but main does not look at it.
EndOfDir ==
    /\ Copying("readdir")
    /\ \E readall \in Outcomes("readdir"), statted \in Outcomes("fstat"),
          changed \in Outcomes("fchmod"), closed \in Outcomes("closedir") :
         /\ readall => Top.listed \subseteq Top.seen
         /\ \E mode \in IF statted THEN {fs[Top.old].data} ELSE Modes :
              fs' = IF changed THEN With(Top.new, [kind |-> "dir", data |-> mode])
                    ELSE fs
         /\ Return(IF statted /\ changed /\ (closed \/ Len(stack) = 1)
                   THEN Top.result ELSE 0 - 1)
         /\ Succeed(readall /\ statted /\ changed /\ closed)
    /\ UNCHANGED <<new_dir_name, unknown, before, changes>>

-----------------------------------------------------------------------------

\* Somebody else removes an entry of the old directory.
Remove ==
    /\ pc = "copying" /\ changes < MaxChanges
    /\ \E p \in DOMAIN fs :
         /\ Inside(p, OldDir) /\ ~Inside(p, new_dir_name)
         /\ fs[p].kind # "dir"
         /\ fs' = [q \in DOMAIN fs \ {p} |-> fs[q]]
    /\ changes' = changes + 1
    /\ UNCHANGED <<new_dir_name, pc, stack, result, unknown, before, failures>>

Next ==
    \/ Start \/ ReadEntry \/ CopyFile \/ MkdiratFails \/ OpenDirs \/ EndOfDir
    \/ \E kind \in {"link", "node"} : Create(kind)
    \/ Remove

Spec == Init /\ [][Next]_vars

-----------------------------------------------------------------------------
(* Properties.                                                             *)

\* Every variable keeps to its values, and the frames on the stack nest: the
\* descriptors of a copy_dir are those its caller has opened for its entry.
TypeOK ==
    /\ new_dir_name \in NewDirs
    /\ \A p \in DOMAIN fs : p \in Seq(Names) /\ fs[p].kind \in Kinds
    /\ pc \in {"start", "copying", "done", "crashed"}
    /\ result \in {0, 0 - 1}
    /\ 2 * Len(stack) <= MaxOpen
    /\ \A i \in DOMAIN stack :
         /\ stack[i].result \in {0, 0 - 1}
         /\ stack[i].at \in {"readdir"} \cup Kinds
         /\ IsDir(stack[i].old) /\ IsDir(stack[i].new)
         /\ i > 1 => /\ stack[i - 1].at = "dir"
                     /\ stack[i].old = Append(stack[i - 1].old, stack[i - 1].entry)
                     /\ stack[i].new = Append(stack[i - 1].new, stack[i - 1].entry)
    /\ failures \in 0..MaxFailures /\ changes \in 0..MaxChanges

\* Where an entry of the old directory belongs in the new one.
Copied(path) ==
    new_dir_name \o SubSeq(path, Len(OldDir) + 1, Len(path))

\* Something of that name was there already, and it or what is copied is a link
\* or a special file.
KeptOther(path) ==
    /\ Copied(path) \in DOMAIN before
    /\ fs[Copied(path)] = before[Copied(path)]
    /\ \/ fs[path].kind \in {"link", "node"}
       \/ fs[path].kind = "file" /\ fs[Copied(path)].kind \in {"link", "node"}

\* It is in a directory for which a link was there already.
Elsewhere(path) ==
    \E dir \in DOMAIN before :
        /\ Inside(path, dir) /\ Inside(dir, OldDir) /\ before[dir].kind = "dir"
        /\ Copied(dir) \in DOMAIN before /\ before[Copied(dir)].kind = "link"

\* What is copied: the old directory's entries outside the new directory (what
\* an older copy within the old directory holds is copied too, before or after
\* it has been copied to).
Source(path) == Inside(path, OldDir) /\ ~Inside(path, new_dir_name)

\* When copy_dir returns 0, everything that was in the old directory and still
\* is has its equal in the new one, down to the permissions of every
\* directory, except what "Unknown file type" has been printed for, what EEXIST
\* has been forgiven for and what was written through a link.
SuccessMeansEqual ==
    pc = "done" /\ result = 0 =>
        \A p \in DOMAIN fs \cap DOMAIN before :
            Source(p) =>
                \/ (\E u \in unknown : Inside(p, u)) \/ Elsewhere(p)
                \/ /\ Copied(p) \in DOMAIN fs
                   /\ (fs[Copied(p)] = fs[p] \/ KeptOther(p))

\* Something else stands where a file or a directory belongs, or there is no
\* permission to add an entry to an existing directory.
Conflict ==
    \E p \in DOMAIN before :
        /\ Inside(p, OldDir)
        /\ LET c == Copied(p)
           IN  IF c \in DOMAIN before
               THEN before[p].kind \in {"file", "dir"} /\ before[c].kind # before[p].kind
               ELSE /\ Len(c) > Len(new_dir_name)
                    /\ SubSeq(c, 1, Len(c) - 1) \in DOMAIN before
                    /\ before[SubSeq(c, 1, Len(c) - 1)].data # Full

\* Neither of two directories lies in the other.
Apart(a, b) == ~Inside(a, b) /\ ~Inside(b, a)

\* Without failing calls, changes from outside and conflicts, a copy into a
\* directory apart from the old one succeeds, whether it is a first copy or one
\* over an older copy, of a directory without write permission too; in
\* particular it does not use a null DIR.
NoFailureNoError ==
    (failures = 0 /\ changes = 0 /\ ~Conflict /\ Apart(new_dir_name, OldDir)) =>
        /\ pc # "crashed"
        /\ result = 0
        /\ \A i \in DOMAIN stack : stack[i].result = 0
=============================================================================
