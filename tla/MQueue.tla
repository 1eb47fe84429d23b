------------------------------- MODULE MQueue -------------------------------
(***************************************************************************)
(* One POSIX message queue name used by 17-Queue/17-QueueReader.c (creates *)
(* it with O_EXCL, prints its messages, unlinks it on SIGTERM or SIGQUIT), *)
(* 17-Queue/17-QueueSender.c (sends its arguments) and                     *)
(* 16-MsgQueue/16-MsgQueue.c (sends two messages, prints what it finds,    *)
(* unlinks the name).  Identifiers stand for runs of the programs; a queue *)
(* is named after the run that created it and outlives its name.           *)
(***************************************************************************)
EXTENDS Naturals, SequencesExt

CONSTANTS
    Readers, Senders,  \* runs of 17-QueueReader, 17-QueueSender
    Demos,             \* runs of 16-MsgQueue
    NumMessages,       \* messages on a sender's command line
    MaxMsg,            \* mq_maxmsg
    TooLong,           \* messages longer than mq_msgsize
    None               \* no queue, no message

Message == (Senders \X (1 .. NumMessages)) \cup (Demos \X {1, 2})
Queues  == Readers \cup Demos
Procs   == Queues \cup Senders
Signals == {"TERM", "QUIT", "OTHER"}

ASSUME MQueueAssumption ==
    /\ Readers \cap Senders = {} /\ Readers \cap Demos = {} /\ Senders \cap Demos = {}
    /\ None \notin Procs \cup Message
    /\ NumMessages \in Nat \ {0} /\ MaxMsg \in Nat \ {0}
    /\ TooLong \subseteq Senders \X (1 .. NumMessages)

VARIABLES
    name,           \* the queue the name leads to
    content,        \* the messages in each queue
    pc,             \* where each run is
    queue,          \* the queue each run has opened
    sent,           \* messages each sender is through with
    message,        \* the buffer of a reader
    g_last_signal,  \* the last signal a reader has caught
    printed,        \* what a reader has printed
    left            \* messages a demo still expects

vars == <<name, content, pc, queue, sent, message, g_last_signal, printed, left>>

Stopped == {"start", "failed", "ended", "killed"}
Goto(p, label) == pc' = [pc EXCEPT ![p] = label]

Init ==
    /\ name = None
    /\ content = [o \in Queues |-> <<>>]
    /\ pc = [p \in Procs |-> "start"]
    /\ queue = [p \in Procs |-> None]
    /\ sent = [s \in Senders |-> 0]
    /\ message = [r \in Readers |-> None]
    /\ g_last_signal = [r \in Readers |-> "none"]
    /\ printed = [r \in Readers |-> <<>>]
    /\ left = [d \in Demos |-> 0]

\* mq_send blocks while the queue is full, mq_receive while it is empty.
Put(o, m) ==
    /\ Len(content[o]) < MaxMsg
    /\ content' = [content EXCEPT ![o] = Append(@, m)]

Take(o) ==
    /\ content[o] # <<>>
    /\ content' = [content EXCEPT ![o] = Tail(@)]

-----------------------------------------------------------------------------
(* 17-QueueReader.                                                         *)

\* Fault: an existing queue is opened as well (no O_EXCL).
ReaderOpenShared(r) ==
    /\ pc[r] = "start"
    /\ name' = IF name = None THEN r ELSE name
    /\ queue' = [queue EXCEPT ![r] = name']
    /\ Goto(r, "receive")
    /\ UNCHANGED <<content, sent, message, g_last_signal, printed, left>>

ReaderOpen(r) ==
    /\ pc[r] = "start"
    /\ IF name = None
       THEN name' = r /\ queue' = [queue EXCEPT ![r] = r] /\ Goto(r, "receive")
       ELSE Goto(r, "failed") /\ UNCHANGED <<name, queue>>
    /\ UNCHANGED <<content, sent, message, g_last_signal, printed, left>>

\* Fault: errno of an earlier signal is taken for an interrupted mq_receive.
ReceiveStaleErrno(r) ==
    /\ pc[r] = "receive"
    /\ Take(queue[r])
    /\ message' = [message EXCEPT ![r] = Head(content[queue[r]])]
    /\ Goto(r, IF g_last_signal[r] = "OTHER" THEN "receive" ELSE "print")
    /\ UNCHANGED <<name, queue, sent, g_last_signal, printed, left>>

Receive(r) ==
    /\ pc[r] = "receive"
    /\ Take(queue[r])
    /\ message' = [message EXCEPT ![r] = Head(content[queue[r]])]
    /\ Goto(r, "print")
    /\ UNCHANGED <<name, queue, sent, g_last_signal, printed, left>>

PrintMessage(r) ==
    /\ pc[r] = "print"
    /\ printed' = [printed EXCEPT ![r] = Append(@, message[r])]
    /\ Goto(r, "receive")
    /\ UNCHANGED <<name, content, queue, sent, message, g_last_signal, left>>

\* sig_handler runs; mq_receive fails with EINTR if it is waiting.
Signal(r, sig) ==
    /\ pc[r] \notin Stopped
    /\ g_last_signal' = [g_last_signal EXCEPT ![r] = sig]
    /\ IF pc[r] = "receive" /\ content[queue[r]] = <<>>
       THEN Goto(r, "eintr")
       ELSE UNCHANGED pc
    /\ UNCHANGED <<name, content, queue, sent, message, printed, left>>

\* Fault: after a signal that does not end it, the reader goes on to print.
InterruptedPrints(r) ==
    /\ pc[r] = "eintr"
    /\ Goto(r, IF g_last_signal[r] \in {"TERM", "QUIT"} THEN "unlink"
               ELSE IF message[r] = None THEN "receive" ELSE "print")
    /\ UNCHANGED <<name, content, queue, sent, message, g_last_signal, printed, left>>

Interrupted(r) ==
    /\ pc[r] = "eintr"
    /\ Goto(r, IF g_last_signal[r] \in {"TERM", "QUIT"} THEN "unlink" ELSE "receive")
    /\ UNCHANGED <<name, content, queue, sent, message, g_last_signal, printed, left>>

\* mq_unlink and mq_close: of readers and demos.
Unlink(p) ==
    /\ pc[p] = "unlink"
    /\ name' = None
    /\ Goto(p, "ended")
    /\ UNCHANGED <<content, queue, sent, message, g_last_signal, printed, left>>

-----------------------------------------------------------------------------
(* 17-QueueSender.                                                         *)

SenderOpen(s) ==
    /\ pc[s] = "start"
    /\ queue' = [queue EXCEPT ![s] = name]
    /\ Goto(s, IF name = None THEN "failed" ELSE "send")
    /\ UNCHANGED <<name, content, sent, message, g_last_signal, printed, left>>

\* Fault: a message that could not be sent is tried again.
SendRetries(s) ==
    /\ pc[s] = "send"
    /\ <<s, sent[s] + 1>> \notin TooLong
    /\ Put(queue[s], <<s, sent[s] + 1>>)
    /\ sent' = [sent EXCEPT ![s] = @ + 1]
    /\ Goto(s, IF sent'[s] = NumMessages THEN "ended" ELSE "send")
    /\ UNCHANGED <<name, queue, message, g_last_signal, printed, left>>

\* A message too long for the queue is reported and left out.
Send(s) ==
    /\ pc[s] = "send"
    /\ sent' = [sent EXCEPT ![s] = @ + 1]
    /\ \/ <<s, sent'[s]>> \in TooLong /\ UNCHANGED content
       \/ <<s, sent'[s]>> \notin TooLong /\ Put(queue[s], <<s, sent'[s]>>)
    /\ Goto(s, IF sent'[s] = NumMessages THEN "ended" ELSE "send")
    /\ UNCHANGED <<name, queue, message, g_last_signal, printed, left>>

-----------------------------------------------------------------------------
(* 16-MsgQueue.                                                            *)

DemoOpen(d) ==
    /\ pc[d] = "start"
    /\ name' = IF name = None THEN d ELSE name
    /\ queue' = [queue EXCEPT ![d] = name']
    /\ Goto(d, "hello")
    /\ UNCHANGED <<content, sent, message, g_last_signal, printed, left>>

DemoSend(d, label, next, i) ==
    /\ pc[d] = label
    /\ Put(queue[d], <<d, i>>)
    /\ Goto(d, next)
    /\ UNCHANGED <<name, queue, sent, message, g_last_signal, printed, left>>

\* Fault: one message more than there are is expected.
DemoGetattrOff(d) ==
    /\ pc[d] = "getattr"
    /\ left' = [left EXCEPT ![d] = Len(content[queue[d]]) + 1]
    /\ Goto(d, "drain")
    /\ UNCHANGED <<name, content, queue, sent, message, g_last_signal, printed>>

DemoGetattr(d) ==
    /\ pc[d] = "getattr"
    /\ left' = [left EXCEPT ![d] = Len(content[queue[d]])]
    /\ Goto(d, IF left'[d] = 0 THEN "unlink" ELSE "drain")
    /\ UNCHANGED <<name, content, queue, sent, message, g_last_signal, printed>>

DemoReceive(d) ==
    /\ pc[d] = "drain"
    /\ Take(queue[d])
    /\ left' = [left EXCEPT ![d] = @ - 1]
    /\ Goto(d, IF left'[d] = 0 THEN "unlink" ELSE "drain")
    /\ UNCHANGED <<name, queue, sent, message, g_last_signal, printed>>

-----------------------------------------------------------------------------
\* A killed run leaves the name and the queue as they are.
Kill(p) ==
    /\ pc[p] \notin Stopped
    /\ Goto(p, "killed")
    /\ UNCHANGED <<name, content, queue, sent, message, g_last_signal, printed, left>>

ReaderStep(r) == Receive(r) \/ PrintMessage(r) \/ Interrupted(r) \/ Unlink(r)

DemoStep(d) ==
    \/ DemoSend(d, "hello", "second", 1) \/ DemoSend(d, "second", "getattr", 2)
    \/ DemoGetattr(d) \/ DemoReceive(d) \/ Unlink(d)

Next ==
    \/ \E r \in Readers : ReaderOpen(r) \/ ReaderStep(r)
    \/ \E r \in Readers, sig \in Signals : Signal(r, sig)
    \/ \E s \in Senders : SenderOpen(s) \/ Send(s)
    \/ \E d \in Demos : DemoOpen(d) \/ DemoStep(d)
    \/ \E p \in Procs : Kill(p)

Spec == Init /\ [][Next]_vars

\* A started run goes on when it can; nobody has to start, signal or kill it.
Fairness ==
    /\ \A r \in Readers : WF_vars(ReaderStep(r))
    /\ \A s \in Senders : WF_vars(Send(s))

FairSpec == Spec /\ Fairness

-----------------------------------------------------------------------------
Reading(r) == pc[r] \in {"receive", "print", "eintr", "unlink"}

(* Types, the bound of the queue, and an open queue for every running run. *)
TypeOK ==
    /\ name \in Queues \cup {None}
    /\ content \in [Queues -> Seq(Message)]
    /\ \A o \in Queues : Len(content[o]) <= MaxMsg
    /\ pc \in [Procs -> Stopped \cup {"receive", "print", "eintr", "unlink", "send",
                                      "hello", "second", "getattr", "drain"}]
    /\ queue \in [Procs -> Queues \cup {None}]
    /\ \A p \in Procs : pc[p] \notin Stopped => queue[p] # None
    /\ sent \in [Senders -> 0 .. NumMessages]
    /\ message \in [Readers -> Message \cup {None}]
    /\ g_last_signal \in [Readers -> Signals \cup {"none"}]
    /\ printed \in [Readers -> Seq(Message)]
    /\ left \in [Demos -> 0 .. MaxMsg]

(* 17-QueueReader.c:51,98: a reader at work reads from a queue of its own, *)
(* so that no two read from one queue, whatever 16-MsgQueue removes.  The  *)
(* name leads to it, so that there is one reader at a time and a reader    *)
(* that leaves removes its own name and not a successor's, unless a run of *)
(* 16-MsgQueue that had opened somebody else's queue has removed its name. *)
OwnName ==
    \A r \in Readers : Reading(r) =>
        /\ queue[r] = r
        /\ name = r \/ \E d \in Demos : pc[d] = "ended" /\ queue[d] # d

InHand(r) == IF pc[r] = "print" THEN <<message[r]>> ELSE <<>>
Passed(r) == printed[r] \o InHand(r) \o content[r]

(* 17-QueueReader.c:68-95: what a sender has sent is printed once and in   *)
(* order, or still waits in the queue, whatever signals interrupt the      *)
(* reader, unless the reader is killed or 16-MsgQueue reads as well.       *)
NothingLost ==
    \A r \in Readers, s \in Senders :
        /\ queue[r] = r /\ queue[s] = r /\ pc[r] # "killed"
        /\ \A d \in Demos : queue[d] # r
        => LET seq == Passed(r)
           IN  /\ \A i \in 1 .. NumMessages :
                     (\E k \in DOMAIN seq : seq[k] = <<s, i>>)
                         <=> i <= sent[s] /\ <<s, i>> \notin TooLong
               /\ \A j, k \in DOMAIN seq :
                     j < k /\ seq[j][1] = s /\ seq[k][1] = s => seq[j][2] < seq[k][2]

(* 16-MsgQueue.c:33-51: a run waits for a message that does not come only  *)
(* if another one has read from its queue.                                 *)
StarvedByOthersOnly ==
    \A d \in Demos :
        pc[d] = "drain" /\ Len(content[queue[d]]) < left[d] =>
            \E p \in Queues \ {d} : queue[p] = queue[d]

(* A sender waiting on a full queue goes on as long as the queue has a     *)
(* reader.                                                                 *)
SenderGoesOn ==
    \A s \in Senders :
        pc[s] = "send" ~> \/ pc[s] \in Stopped
                          \/ \A r \in Readers : queue[r] = queue[s] => pc[r] \in Stopped

(* What a sender has put into a reader's queue is printed as long as the   *)
(* reader lives and no run of 16-MsgQueue has opened the queue as well.    *)
WaitingIsPrinted ==
    \A m \in Senders \X (1 .. NumMessages) :
        (\E r \in Readers : queue[r] = r /\ Contains(content[r], m))
            ~> \E r \in Readers :
                  \/ Contains(printed[r], m)
                  \/ pc[r] \in Stopped /\ (Contains(content[r], m) \/ message[r] = m)
                  \/ \E d \in Demos : queue[d] = r
=============================================================================
