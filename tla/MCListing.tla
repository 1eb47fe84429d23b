----------------------------- MODULE MCListing -----------------------------
(* An instance of Listing for TLC: three levels, with directories among    *)
(* the entries of unknown type.  In the second batches, pos is left within *)
(* the record of "node" in "sub", before a record that it may still come   *)
(* to, and where the record of "sock" begins in "flat".                    *)
EXTENDS Listing

MCChildren ==
    [top  |-> <<"file", "sub", "link">>,
     sub  |-> <<"pipe", "deep", "node", "sock">>,
     deep |-> <<"last", "empty">>,
     empty |-> <<>>,
     flat |-> <<"file", "pipe", "link", "wide", "sock", "last">>]
MCEntries == {"top", "sub", "deep", "empty", "flat", "file", "link", "pipe",
              "node", "sock", "last", "wide", "garbage"}
MCRoots == {"top", "sub", "deep", "flat"}
MCUnknown == {"file", "deep", "node", "empty", "sock"}

\* The lengths of the records.
Reclen(e) == CASE e = "node" -> 4 [] e = "wide" -> 3 [] e = "deep" -> 2 [] OTHER -> 1
MCOffset ==
    [d \in DOMAIN MCChildren |->
        [n \in 0 .. Len(MCChildren[d]) |->
            FoldLeft(LAMBDA sum, e : sum + Reclen(e), 0, SubSeq(MCChildren[d], 1, n))]]
=============================================================================
