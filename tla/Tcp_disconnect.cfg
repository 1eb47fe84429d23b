\* Two clients that only connect and close.
SPECIFICATION Spec
CONSTANTS
    c1 = c1  c2 = c2  c3 = c3
    Clients = {c1, c2}
    Ends <- CloseOnly
    MaxTexts = 1
    MaxHalves = 0
    MaxInbox <- Inboxes
INVARIANT ServerSurvives
CHECK_DEADLOCK FALSE
