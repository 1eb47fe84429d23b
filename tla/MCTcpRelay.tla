---------------------------- MODULE MCTcpRelay ----------------------------
(* Instances of TcpRelay for TLC.                                          *)
EXTENDS TcpRelay

CONSTANTS c1, c2, c3

AllEnds == {"fin", "rst"}
\* One that is full with a line, one that can hold lines to be read ahead.
Inboxes == [c \in Clients |-> IF c = c1 THEN 1 ELSE 2]
CloseOnly == {"fin"}
===========================================================================
