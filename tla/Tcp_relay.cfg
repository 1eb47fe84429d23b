\* Two clients that send three lines, or two and a piece without a newline,
\* connections that end in both ways, one client that may fill up.
SPECIFICATION FairSpec
CONSTANTS
    c1 = c1  c2 = c2  c3 = c3
    Clients = {c1, c2}
    Ends <- AllEnds
    MaxTexts = 3
    MaxHalves = 1
    MaxInbox <- Inboxes
INVARIANTS TypeOK OneConversation ReadInOrder
PROPERTY NextLineRelayed
CHECK_DEADLOCK FALSE
