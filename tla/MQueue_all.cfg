\* Two runs of the reader one after another, a sender and a run of 16-MsgQueue
\* over a queue of two messages.  The sender's first message is too long.
SPECIFICATION FairSpec
CONSTANTS
    r1 = r1  r2 = r2  s1 = s1  d1 = d1
    None = None
    Readers = {r1, r2}
    Senders = {s1}
    Demos = {d1}
    NumMessages = 3
    MaxMsg = 2
    TooLong <- FirstOfS1
INVARIANTS OwnName NothingLost StarvedByOthersOnly
PROPERTIES SenderGoesOn WaitingIsPrinted
CHECK_DEADLOCK FALSE
