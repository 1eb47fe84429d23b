----------------------------- MODULE MCDirCopy -----------------------------
(* An instance of DirCopy for TLC: directory "a" with a file, a link and a *)
(* directory without write permission that holds a file and a fifo.        *)
EXTENDS DirCopy

E(kind, data) == [kind |-> kind, data |-> data]
Over(t, path, entry) ==
    [p \in DOMAIN t \cup {path} |-> IF p = path THEN entry ELSE t[p]]

OldTree ==
    [p \in {<<"a">>, <<"a", "f">>, <<"a", "l">>, <<"a", "d">>,
            <<"a", "d", "f">>, <<"a", "d", "n">>} |->
        CASE p = <<"a">>           -> E("dir", Full)
          [] p = <<"a", "f">>      -> E("file", "text")
          [] p = <<"a", "l">>      -> E("link", "target")
          [] p = <<"a", "d">>      -> E("dir", "r-x")
          [] p = <<"a", "d", "f">> -> E("file", "data")
          [] OTHER                 -> E("node", "fifo")]

Empty == Over(OldTree, <<"b">>, E("dir", Full))

\* An older copy: an equal one, one with another file and another link.
SecondCopy ==
    [p \in DOMAIN OldTree \cup {<<"b">> \o SubSeq(p, 2, Len(p)) : p \in DOMAIN OldTree} |->
        OldTree[<<"a">> \o SubSeq(p, 2, Len(p))]]
OldCopy == Over(Over(SecondCopy, <<"b", "f">>, E("file", "old")),
                <<"b", "l">>, E("link", "elsewhere"))

\* Links where a file and the directory belong, a file where a link belongs.
Linked == Over(Over(Over(Empty, <<"b", "f">>, E("link", "elsewhere")),
                    <<"b", "d">>, E("link", "elsewhere")),
               <<"b", "l">>, E("file", "old"))

\* An older copy within the directory that is copied.
Within == Over(Over(OldTree, <<"a", "b">>, E("dir", Full)),
               <<"a", "b", "f">>, E("file", "old"))

\* A file where the directory belongs.
Blocked == Over(Empty, <<"b", "d">>, E("file", "old"))

MCNames == {"a", "b", "d", "f", "l", "n"}
MCOldDir == <<"a">>
MCNewDirs == {<<"b">>, <<"a", "b">>}
MCTrees == {OldTree, Empty, SecondCopy, OldCopy, Linked, Blocked, Within}
MCFailing == {"fstatat", "openat", "mkdirat", "copying_all", "link", "node",
              "fstat", "fchmod", "closedir"}
=============================================================================
