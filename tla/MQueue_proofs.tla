---------------------------- MODULE MQueue_proofs ----------------------------
(* Proofs about MQueue, for any sets of readers, senders and demos.        *)
EXTENDS MQueue, TLAPS, SequenceTheorems

Labels == Stopped \cup {"receive", "print", "eintr", "unlink", "send", "hello",
                        "second", "getattr", "drain"}

(* What makes OwnName inductive: the name leads to the queue of whoever    *)
(* works on a queue of its own, reader or demo, as long as no demo has     *)
(* removed a name it had not created.                                      *)
OwnersNamed ==
    (\A d \in Demos : pc[d] = "ended" => queue[d] = d) =>
        \A p \in Queues : queue[p] = p /\ pc[p] \notin Stopped => name = p

IInv ==
    /\ pc \in [Procs -> Labels]
    /\ name \in Queues \cup {None}
    /\ queue \in [Procs -> Queues \cup {None}]
    /\ \A p \in Procs : pc[p] = "start" => queue[p] = None /\ name # p
    /\ \A r \in Readers : Reading(r) => queue[r] = r
    /\ OwnersNamed

LEMMA NextIInv == IInv /\ [Next]_vars => IInv'
<1> SUFFICES ASSUME IInv, [Next]_vars PROVE IInv'
    OBVIOUS
<1> USE MQueueAssumption
    DEF IInv, OwnersNamed, Reading, Goto, Labels, Stopped, Procs, Queues
<1>1. ASSUME NEW r \in Readers, ReaderOpen(r) PROVE IInv'
    BY <1>1 DEF ReaderOpen
<1>2. ASSUME NEW r \in Readers, Receive(r) PROVE IInv'
    BY <1>2 DEF Receive
<1>3. ASSUME NEW r \in Readers, PrintMessage(r) PROVE IInv'
    BY <1>3 DEF PrintMessage
<1>4. ASSUME NEW r \in Readers, Interrupted(r) PROVE IInv'
    BY <1>4 DEF Interrupted
<1>5. ASSUME NEW p \in Queues, Unlink(p) PROVE IInv'
    BY <1>5 DEF Unlink
<1>6. ASSUME NEW r \in Readers, NEW sig \in Signals, Signal(r, sig) PROVE IInv'
    BY <1>6 DEF Signal
<1>7. ASSUME NEW s \in Senders, SenderOpen(s) PROVE IInv'
    <2>1. queue' \in [Procs -> Queues \cup {None}]
        BY <1>7 DEF SenderOpen
    <2> QED
        BY <1>7, <2>1 DEF SenderOpen
<1>8. ASSUME NEW s \in Senders, Send(s) PROVE IInv'
    BY <1>8 DEF Send
<1>9. ASSUME NEW d \in Demos, DemoOpen(d) PROVE IInv'
    BY <1>9 DEF DemoOpen
<1>10. ASSUME NEW d \in Demos,
              DemoSend(d, "hello", "second", 1) \/ DemoSend(d, "second", "getattr", 2)
       PROVE  IInv'
    BY <1>10 DEF DemoSend
<1>11. ASSUME NEW d \in Demos, DemoGetattr(d) \/ DemoReceive(d) PROVE IInv'
    BY <1>11 DEF DemoGetattr, DemoReceive
<1>12. ASSUME NEW p \in Procs, Kill(p) PROVE IInv'
    BY <1>12 DEF Kill
<1>13. CASE UNCHANGED vars
    BY <1>13 DEF vars
<1> HIDE DEF IInv, OwnersNamed, Reading, Goto, Labels, Stopped, Procs
<1>14. ASSUME NEW r \in Readers, ReaderStep(r) PROVE IInv'
    BY <1>2, <1>3, <1>4, <1>5, <1>14 DEF ReaderStep, Queues
<1>15. ASSUME NEW d \in Demos, DemoStep(d) PROVE IInv'
    BY <1>5, <1>10, <1>11, <1>15 DEF DemoStep, Queues
<1> QED
    BY <1>1, <1>6, <1>7, <1>8, <1>9, <1>12, <1>13, <1>14, <1>15 DEF Next

(* 17-QueueReader.c:51,98: O_EXCL gives every reader a queue of its own,   *)
(* and its mq_unlink is of its own name unless a run of 16-MsgQueue has    *)
(* removed that of a queue it had not created.                             *)
THEOREM OneReader == Spec => []OwnName
<1>1. Init => IInv
    BY MQueueAssumption
    DEF Init, IInv, OwnersNamed, Reading, Labels, Stopped, Procs, Queues
<1>2. IInv => OwnName
    BY DEF IInv, OwnName, OwnersNamed, Reading, Labels, Stopped, Procs, Queues
<1> QED
    BY <1>1, <1>2, NextIInv, PTL DEF Spec

-----------------------------------------------------------------------------
(* The queues themselves, and who has opened what.                         *)
Contents ==
    /\ content \in [Queues -> Seq(Message)]
    /\ \A o \in Queues : Len(content[o]) <= MaxMsg

Opened ==
    /\ pc \in [Procs -> Labels]
    /\ queue \in [Procs -> Queues \cup {None}]
    /\ name \in Queues \cup {None}
    /\ \A p \in Procs : pc[p] = "start" => queue[p] = None
    /\ \A p \in Procs : pc[p] \notin Stopped => queue[p] # None

Sending ==
    /\ sent \in [Senders -> 0 .. NumMessages]
    /\ \A s \in Senders : pc[s] \in {"start", "send"} => sent[s] < NumMessages

Printing ==
    /\ message \in [Readers -> Message \cup {None}]
    /\ g_last_signal \in [Readers -> Signals \cup {"none"}]
    /\ printed \in [Readers -> Seq(Message)]
    /\ \A r \in Readers : pc[r] = "print" => message[r] \in Message

(* A demo expects what was in its queue when it looked; less can be there  *)
(* only once somebody else has opened the queue.                           *)
Expecting ==
    /\ left \in [Demos -> 0 .. MaxMsg]
    /\ \A d \in Demos : pc[d] = "drain" =>
          /\ left[d] > 0
          /\ \/ left[d] <= Len(content[queue[d]])
             \/ \E p \in Queues \ {d} : queue[p] = queue[d]

MInv == Opened /\ Contents /\ Sending /\ Printing /\ Expecting

LEMMA PutTake ==
    ASSUME Contents, NEW o \in Queues
    PROVE  /\ \A m \in Message : Put(o, m) =>
                 /\ content' \in [Queues -> Seq(Message)]
                 /\ \A q \in Queues : Len(content'[q]) <= MaxMsg
                 /\ \A q \in Queues : Len(content'[q]) >= Len(content[q])
           /\ Take(o) =>
                 /\ content' \in [Queues -> Seq(Message)]
                 /\ \A q \in Queues : Len(content'[q]) <= MaxMsg
                 /\ \A q \in Queues \ {o} : content'[q] = content[q]
                 /\ Len(content'[o]) = Len(content[o]) - 1
                 /\ Len(content[o]) > 0
<1> USE MQueueAssumption DEF Contents
<1>1. ASSUME NEW m \in Message, Put(o, m)
      PROVE  /\ content' \in [Queues -> Seq(Message)]
             /\ \A q \in Queues : Len(content'[q]) <= MaxMsg
             /\ \A q \in Queues : Len(content'[q]) >= Len(content[q])
    <2>1. /\ Append(content[o], m) \in Seq(Message)
          /\ Len(Append(content[o], m)) = Len(content[o]) + 1
          /\ Len(content[o]) < MaxMsg
        BY <1>1 DEF Put
    <2>2. \A q \in Queues : content'[q] = IF q = o THEN Append(content[o], m) ELSE content[q]
        BY <1>1 DEF Put
    <2>3. content' \in [Queues -> Seq(Message)]
        BY <1>1, <2>1 DEF Put
    <2>4. \A q \in Queues : Len(content[q]) \in Nat
        OBVIOUS
    <2> HIDE DEF Contents
    <2>5. \A q \in Queues : Len(content[q]) <= MaxMsg
        BY DEF Contents
    <2>6. MaxMsg \in Nat
        OBVIOUS
    <2> QED
        BY <2>1, <2>2, <2>3, <2>4, <2>5, <2>6
<1>2. ASSUME Take(o)
      PROVE  /\ content' \in [Queues -> Seq(Message)]
             /\ \A q \in Queues : Len(content'[q]) <= MaxMsg
             /\ \A q \in Queues \ {o} : content'[q] = content[q]
             /\ Len(content'[o]) = Len(content[o]) - 1
             /\ Len(content[o]) > 0
    <2>1. /\ Tail(content[o]) \in Seq(Message)
          /\ Len(Tail(content[o])) = Len(content[o]) - 1
          /\ Len(content[o]) > 0
        BY <1>2 DEF Take
    <2>2. \A q \in Queues : content'[q] = IF q = o THEN Tail(content[o]) ELSE content[q]
        BY <1>2 DEF Take
    <2>3. content' \in [Queues -> Seq(Message)]
        BY <1>2, <2>1 DEF Take
    <2>4. \A q \in Queues : Len(content[q]) \in Nat /\ Len(content[q]) <= MaxMsg
        OBVIOUS
    <2>5. MaxMsg \in Nat
        OBVIOUS
    <2> HIDE DEF Contents
    <2>6. ASSUME NEW q \in Queues PROVE Len(content'[q]) <= MaxMsg
        <3>1. CASE q = o
            <4>1. Len(content'[q]) = Len(content[o]) - 1
                BY <2>1, <2>2, <3>1
            <4>2. Len(content[o]) \in Nat /\ Len(content[o]) <= MaxMsg
                BY <2>4
            <4> QED
                BY <4>1, <4>2, <2>5
        <3>2. CASE q # o
            BY <2>2, <2>4, <3>2
        <3> QED
            BY <3>1, <3>2
    <2> QED
        BY <2>1, <2>2, <2>3, <2>6
<1> QED
    BY <1>1, <1>2

LEMMA NextOpened == ASSUME Opened, [Next]_vars PROVE Opened'
<1> USE MQueueAssumption DEF Opened, Goto, Labels, Stopped, Procs, Queues
<1>1. ASSUME NEW r \in Readers, ReaderOpen(r) PROVE Opened'
    BY <1>1 DEF ReaderOpen
<1>2. ASSUME NEW r \in Readers, Receive(r) \/ PrintMessage(r) \/ Interrupted(r)
      PROVE  Opened'
    BY <1>2 DEF Receive, PrintMessage, Interrupted
<1>3. ASSUME NEW p \in Queues, Unlink(p) PROVE Opened'
    BY <1>3 DEF Unlink
<1>4. ASSUME NEW r \in Readers, NEW sig \in Signals, Signal(r, sig) PROVE Opened'
    BY <1>4 DEF Signal
<1>5. ASSUME NEW s \in Senders, SenderOpen(s) PROVE Opened'
    BY <1>5 DEF SenderOpen
<1>6. ASSUME NEW s \in Senders, Send(s) PROVE Opened'
    BY <1>6 DEF Send
<1>7. ASSUME NEW d \in Demos, DemoOpen(d) PROVE Opened'
    BY <1>7 DEF DemoOpen
<1>8. ASSUME NEW d \in Demos,
             DemoSend(d, "hello", "second", 1) \/ DemoSend(d, "second", "getattr", 2)
      PROVE  Opened'
    BY <1>8 DEF DemoSend
<1>9. ASSUME NEW d \in Demos, DemoGetattr(d) \/ DemoReceive(d) PROVE Opened'
    BY <1>9 DEF DemoGetattr, DemoReceive
<1>10. ASSUME NEW p \in Procs, Kill(p) PROVE Opened'
    BY <1>10 DEF Kill
<1>11. CASE UNCHANGED vars
    BY <1>11 DEF vars
<1> HIDE DEF Opened, Goto, Labels, Stopped, Procs
<1> QED
    BY <1>1, <1>2, <1>3, <1>4, <1>5, <1>6, <1>7, <1>8, <1>9, <1>10, <1>11
       DEF Next, ReaderStep, DemoStep, Queues

LEMMA NextContents ==
    ASSUME Opened, Contents, Sending, [Next]_vars PROVE Contents'
<1> USE MQueueAssumption
<1>1. ASSUME UNCHANGED content PROVE Contents'
    BY <1>1 DEF Contents
<1>2. ASSUME NEW p \in Procs, pc[p] \notin Stopped, Take(queue[p]) PROVE Contents'
    BY <1>2, PutTake DEF Contents, Opened
<1>3. ASSUME NEW p \in Procs, pc[p] \notin Stopped, NEW m \in Message, Put(queue[p], m)
      PROVE  Contents'
    BY <1>3, PutTake DEF Contents, Opened
<1>4. ASSUME NEW r \in Readers, Receive(r) PROVE Contents'
    BY <1>2, <1>4 DEF Receive, Procs, Queues, Stopped
<1>5. ASSUME NEW s \in Senders, Send(s) PROVE Contents'
    <2>1. <<s, sent'[s]>> \in Message
        BY <1>5 DEF Send, Sending, Message
    <2>2. s \in Procs /\ pc[s] \notin Stopped
        BY <1>5 DEF Send, Procs, Stopped
    <2> QED
        BY <1>1, <1>3, <1>5, <2>1, <2>2 DEF Send
<1>6. ASSUME NEW d \in Demos,
             DemoSend(d, "hello", "second", 1) \/ DemoSend(d, "second", "getattr", 2)
      PROVE  Contents'
    <2>1. <<d, 1>> \in Message /\ <<d, 2>> \in Message
        BY DEF Message
    <2>2. d \in Procs /\ pc[d] \notin Stopped
        BY <1>6 DEF DemoSend, Procs, Queues, Stopped
    <2> QED
        BY <1>3, <1>6, <2>1, <2>2 DEF DemoSend
<1>7. ASSUME NEW d \in Demos, DemoReceive(d) PROVE Contents'
    BY <1>2, <1>7 DEF DemoReceive, Procs, Queues, Stopped
<1> QED
    BY <1>1, <1>4, <1>5, <1>6, <1>7
       DEF Next, ReaderStep, DemoStep, ReaderOpen, PrintMessage, Interrupted, Unlink,
           Signal, SenderOpen, DemoOpen, DemoGetattr, Kill, vars

LEMMA NextSending == ASSUME Opened, Sending, [Next]_vars PROVE Sending'
<1> USE MQueueAssumption DEF Opened, Sending, Goto, Stopped, Procs, Queues
<1>1. ASSUME NEW s \in Senders, Send(s) PROVE Sending'
    BY <1>1 DEF Send
<1>2. ASSUME NEW p \in Procs, NEW label \in Labels \ {"start", "send"}, UNCHANGED sent,
             Goto(p, label) \/ UNCHANGED pc
      PROVE  Sending'
    BY <1>2
<1>3. ASSUME NEW s \in Senders, SenderOpen(s) PROVE Sending'
    BY <1>3 DEF SenderOpen
<1> QED
    BY <1>1, <1>2, <1>3, ZenonT(40)
       DEF Next, ReaderStep, DemoStep, ReaderOpen, Receive, PrintMessage, Interrupted,
           Unlink, Signal, DemoOpen, DemoSend, DemoGetattr, DemoReceive, Kill, vars,
           Labels

LEMMA NextPrinting ==
    ASSUME Opened, Contents, Printing, [Next]_vars PROVE Printing'
<1> USE MQueueAssumption DEF Opened, Printing, Goto, Stopped, Procs, Queues
<1>1. ASSUME NEW r \in Readers, Receive(r) PROVE Printing'
    <2>1. content[queue[r]] \in Seq(Message) /\ content[queue[r]] # <<>>
        BY <1>1 DEF Receive, Take, Contents
    <2> DEFINE c == content[queue[r]]
    <2> HIDE DEF c
    <2>2. c \in Seq(Message) /\ c # <<>> => Head(c) \in Message
        OBVIOUS
    <2>3. Head(content[queue[r]]) \in Message
        BY <2>1, <2>2 DEF c
    <2> QED
        BY <1>1, <2>3 DEF Receive
<1>2. ASSUME NEW r \in Readers, PrintMessage(r) PROVE Printing'
    <2>1. Append(printed[r], message[r]) \in Seq(Message)
        BY <1>2 DEF PrintMessage
    <2> QED
        BY <1>2, <2>1 DEF PrintMessage
<1>3. ASSUME NEW r \in Readers, NEW sig \in Signals, Signal(r, sig) PROVE Printing'
    BY <1>3 DEF Signal
<1>4. ASSUME NEW p \in Procs, NEW label, label # "print",
             UNCHANGED <<message, g_last_signal, printed>>,
             Goto(p, label) \/ UNCHANGED pc
      PROVE  Printing'
    BY <1>4
<1>5. ASSUME NEW r \in Readers, ReaderOpen(r) \/ Interrupted(r) PROVE Printing'
    BY <1>5 DEF ReaderOpen, Interrupted
<1>6. ASSUME NEW s \in Senders, SenderOpen(s) \/ Send(s) PROVE Printing'
    BY <1>6 DEF SenderOpen, Send
<1>7. ASSUME NEW d \in Demos, DemoOpen(d) \/ DemoGetattr(d) \/ DemoReceive(d)
      PROVE  Printing'
    BY <1>4, <1>7 DEF DemoOpen, DemoGetattr, DemoReceive
<1>8. ASSUME NEW p \in Procs, Unlink(p) \/ Kill(p) PROVE Printing'
    BY <1>4, <1>8 DEF Unlink, Kill
<1>9. ASSUME NEW d \in Demos,
             DemoSend(d, "hello", "second", 1) \/ DemoSend(d, "second", "getattr", 2)
      PROVE  Printing'
    BY <1>4, <1>9 DEF DemoSend
<1>10. CASE UNCHANGED vars
    BY <1>10 DEF vars
<1> HIDE DEF Opened, Printing
<1> QED
    BY <1>1, <1>2, <1>3, <1>5, <1>6, <1>7, <1>8, <1>9, <1>10
       DEF Next, ReaderStep, DemoStep

LEMMA NextExpecting ==
    ASSUME Opened, Contents, Sending, Expecting, Contents', [Next]_vars
    PROVE  Expecting'
<1> USE MQueueAssumption
<1> DEFINE Drains(d) == pc[d] = "drain"
           Enough(d) == /\ left[d] > 0
                        /\ \/ left[d] <= Len(content[queue[d]])
                           \/ \E p \in Queues \ {d} : queue[p] = queue[d]
<1>1. \A d \in Demos : Drains(d) =>
          queue[d] \in Queues /\ Len(content[queue[d]]) \in Nat /\ left[d] \in 0 .. MaxMsg
    <2> SUFFICES ASSUME NEW d \in Demos, Drains(d)
                 PROVE  /\ queue[d] \in Queues /\ Len(content[queue[d]]) \in Nat
                        /\ left[d] \in 0 .. MaxMsg
        OBVIOUS
    <2>1. queue[d] \in Queues
        BY DEF Opened, Stopped, Procs, Queues
    <2>2. left[d] \in 0 .. MaxMsg
        BY DEF Expecting
    <2> QED
        BY <2>1, <2>2 DEF Contents
<1>2. \A d \in Demos : Drains(d) => Enough(d)
    BY DEF Expecting
<1>3. left \in [Demos -> 0 .. MaxMsg]
    BY DEF Expecting
\* Steps that take nothing out of a queue and change no demo that drains.
<1>4. ASSUME left' = left,
             \A d \in Demos : Drains(d)' => Drains(d),
             \A p \in Queues : queue[p] # None => queue'[p] = queue[p],
             \A o \in Queues : Len(content'[o]) >= Len(content[o])
      PROVE  Expecting'
    <2> SUFFICES ASSUME NEW d \in Demos, Drains(d)' PROVE Enough(d)'
        BY <1>3, <1>4 DEF Expecting
    <2>1. queue[d] \in Queues /\ queue'[d] = queue[d] /\ left'[d] = left[d] /\ Enough(d)
        BY <1>1, <1>2, <1>4 DEF Procs, Queues
    <2>2. \A p \in Queues : queue[p] = queue[d] => queue'[p] = queue'[d]
        BY <1>4, <2>1 DEF Procs
    <2>3. CASE left[d] <= Len(content[queue[d]])
        <3>1. Len(content'[queue[d]]) \in Nat /\ Len(content[queue[d]]) \in Nat
            BY <2>1 DEF Contents
        <3>2. Len(content'[queue[d]]) >= Len(content[queue[d]])
            BY <1>4, <2>1
        <3>3. left[d] \in Nat
            BY <1>3
        <3> QED
            BY <2>1, <2>3, <3>1, <3>2, <3>3
    <2> QED
        BY <2>1, <2>2, <2>3
<1>5. \A o \in Queues : Len(content[o]) \in Nat
    BY DEF Contents
\* Steps that take from the queue of p: only of demos that share it.
<1>6. ASSUME NEW p \in Queues, pc[p] \notin Stopped, Take(queue[p]), UNCHANGED queue,
             NEW d \in Demos \ {p}, Drains(d), left'[d] = left[d]
      PROVE  Enough(d)'
    <2>1. CASE queue[p] = queue[d]
        BY <1>2, <1>6, <2>1
    <2>2. CASE queue[p] # queue[d]
        <3>1. content'[queue[d]] = content[queue[d]]
            BY <1>1, <1>6, <2>2 DEF Take, Contents
        <3> QED
            BY <1>2, <1>6, <3>1
    <2> QED
        BY <2>1, <2>2
<1>7. ASSUME NEW r \in Readers, Receive(r) PROVE Expecting'
    <2> SUFFICES ASSUME NEW d \in Demos, Drains(d)' PROVE Enough(d)'
        BY <1>3, <1>7 DEF Receive, Expecting
    <2>1. d # r /\ Drains(d) /\ pc[r] \notin Stopped
        BY <1>7 DEF Receive, Goto, Opened, Stopped, Procs, Queues
    <2> QED
        BY <1>6, <1>7, <2>1 DEF Receive, Queues
<1>8. ASSUME NEW e \in Demos, DemoReceive(e) PROVE Expecting'
    <2>1. left[e] \in Nat /\ left[e] > 0 /\ left[e] <= MaxMsg /\ MaxMsg \in Nat
        BY <1>2, <1>3, <1>8 DEF DemoReceive
    <2>2. left' = [left EXCEPT ![e] = left[e] - 1]
        BY <1>8 DEF DemoReceive
    <2>3. left' \in [Demos -> 0 .. MaxMsg]
        BY <1>3, <2>1, <2>2
    <2> SUFFICES ASSUME NEW d \in Demos, Drains(d)' PROVE Enough(d)'
        BY <2>3 DEF Expecting
    <2>4. e \in Queues /\ queue[e] \in Queues /\ pc[e] \notin Stopped /\ UNCHANGED queue
        BY <1>1, <1>8 DEF DemoReceive, Queues, Stopped
    <2>5. CASE d # e
        <3>1. Drains(d) /\ left'[d] = left[d]
            BY <1>3, <1>8, <2>2, <2>5 DEF DemoReceive, Goto, Opened, Procs, Queues
        <3> QED
            BY <1>6, <1>8, <2>4, <2>5, <3>1 DEF DemoReceive
    <2>6. CASE d = e
        <3>1. left'[e] = left[e] - 1 /\ left'[e] # 0
            BY <1>3, <1>8, <2>2, <2>6
               DEF DemoReceive, Goto, Opened, Procs, Queues
        <3>2. Len(content'[queue[e]]) = Len(content[queue[e]]) - 1
            BY <1>8, <2>4, PutTake DEF DemoReceive
        <3>3. Len(content[queue[e]]) \in Nat
            BY <1>5, <2>4
        <3>4. Enough(e)
            BY <1>2, <1>8 DEF DemoReceive
        <3> QED
            BY <2>1, <2>4, <2>6, <3>1, <3>2, <3>3, <3>4
    <2> QED
        BY <2>5, <2>6
<1>9. ASSUME NEW e \in Demos, DemoGetattr(e) PROVE Expecting'
    <2>1. queue[e] \in Queues
        BY <1>9 DEF DemoGetattr, Opened, Procs, Queues, Stopped
    <2>2. Len(content[queue[e]]) \in 0 .. MaxMsg
        BY <1>5, <2>1 DEF Contents
    <2>3. /\ left' = [left EXCEPT ![e] = Len(content[queue[e]])]
          /\ left' \in [Demos -> 0 .. MaxMsg]
        BY <1>3, <1>9, <2>2 DEF DemoGetattr
    <2> SUFFICES ASSUME NEW d \in Demos, Drains(d)' PROVE Enough(d)'
        BY <2>3 DEF Expecting
    <2>4. CASE d # e
        <3>1. Drains(d) /\ left'[d] = left[d]
            BY <1>3, <1>9, <2>3, <2>4 DEF DemoGetattr, Goto, Opened, Procs, Queues
        <3> QED
            BY <1>2, <1>9, <3>1 DEF DemoGetattr
    <2>5. CASE d = e
        <3>1. left'[e] = Len(content[queue[e]])
            BY <1>3, <2>3
        <3>2. left'[e] # 0
            BY <1>9, <2>5 DEF DemoGetattr, Goto, Opened, Procs, Queues
        <3> QED
            BY <1>9, <2>2, <2>5, <3>1, <3>2 DEF DemoGetattr
    <2> QED
        BY <2>4, <2>5
<1>10. ASSUME NEW p \in Procs, pc[p] \notin Stopped, NEW m \in Message, Put(queue[p], m)
       PROVE  \A o \in Queues : Len(content'[o]) >= Len(content[o])
    BY <1>10, PutTake DEF Opened
<1>11. ASSUME NEW s \in Senders, Send(s) PROVE Expecting'
    <2>1. <<s, sent'[s]>> \in Message
        BY <1>11 DEF Send, Sending, Message
    <2>2. s \in Procs /\ pc[s] \notin Stopped
        BY <1>11 DEF Send, Procs, Stopped
    <2>3. \A o \in Queues : Len(content'[o]) >= Len(content[o])
        BY <1>5, <1>10, <1>11, <2>1, <2>2 DEF Send
    <2> QED
        BY <1>4, <1>11, <2>3 DEF Send, Goto, Opened, Procs, Queues
<1>12. ASSUME NEW e \in Demos,
              DemoSend(e, "hello", "second", 1) \/ DemoSend(e, "second", "getattr", 2)
       PROVE  Expecting'
    <2>1. <<e, 1>> \in Message /\ <<e, 2>> \in Message
        BY DEF Message
    <2>2. e \in Procs /\ pc[e] \notin Stopped
        BY <1>12 DEF DemoSend, Procs, Queues, Stopped
    <2>3. \A o \in Queues : Len(content'[o]) >= Len(content[o])
        BY <1>10, <1>12, <2>1, <2>2 DEF DemoSend
    <2> QED
        BY <1>4, <1>12, <2>3 DEF DemoSend, Goto, Opened, Procs, Queues
\* Steps that leave the queues and what the demos expect.
<1>13. ASSUME UNCHANGED <<content, left>>,
              \A d \in Demos : Drains(d)' => Drains(d),
              \A p \in Queues : queue[p] # None => queue'[p] = queue[p]
       PROVE  Expecting'
    BY <1>4, <1>5, <1>13
<1>14. ASSUME NEW r \in Readers, ReaderOpen(r) PROVE Expecting'
    BY <1>13, <1>14 DEF ReaderOpen, Goto, Opened, Procs, Queues
<1>15. ASSUME NEW r \in Readers, PrintMessage(r) \/ Interrupted(r) PROVE Expecting'
    BY <1>13, <1>15 DEF PrintMessage, Interrupted, Goto, Opened, Procs, Queues
<1>16. ASSUME NEW r \in Readers, NEW sig \in Signals, Signal(r, sig) PROVE Expecting'
    BY <1>13, <1>16 DEF Signal, Goto, Opened, Procs, Queues
<1>17. ASSUME NEW s \in Senders, SenderOpen(s) PROVE Expecting'
    BY <1>13, <1>17 DEF SenderOpen, Goto, Opened, Procs, Queues
<1>18. ASSUME NEW d \in Demos, DemoOpen(d) PROVE Expecting'
    BY <1>13, <1>18 DEF DemoOpen, Goto, Opened, Procs, Queues
<1>19. ASSUME NEW p \in Procs, Unlink(p) \/ Kill(p) PROVE Expecting'
    BY <1>13, <1>19 DEF Unlink, Kill, Goto, Opened, Procs, Queues
<1>20. CASE UNCHANGED vars
    BY <1>13, <1>20 DEF vars
<1> QED
    BY <1>7, <1>8, <1>9, <1>11, <1>12, <1>14, <1>15, <1>16, <1>17, <1>18, <1>19, <1>20
       DEF Next, ReaderStep, DemoStep, Procs, Queues

LEMMA InitMInv == Init => MInv
<1> SUFFICES ASSUME Init PROVE MInv
    OBVIOUS
<1> USE MQueueAssumption DEF Init
<1>1. Opened
    BY DEF Opened, Labels, Stopped
<1>2. Contents
    BY DEF Contents
<1>3. Sending
    BY DEF Sending, Procs
<1>4. Printing
    BY DEF Printing, Procs, Queues
<1>5. Expecting
    BY DEF Expecting, Procs, Queues
<1> QED
    BY <1>1, <1>2, <1>3, <1>4, <1>5 DEF MInv

LEMMA NextMInv == MInv /\ [Next]_vars => MInv'
<1> SUFFICES ASSUME MInv, [Next]_vars PROVE MInv'
    OBVIOUS
<1>1. Opened' /\ Contents' /\ Sending' /\ Printing'
    BY NextOpened, NextContents, NextSending, NextPrinting DEF MInv
<1> QED
    BY <1>1, NextExpecting DEF MInv

(* Every variable of MQueue keeps its type, no queue holds more than       *)
(* mq_maxmsg messages, and a run that goes on has opened a queue.          *)
THEOREM TypeCorrect == Spec => []TypeOK
<1>1. MInv => TypeOK
    BY DEF MInv, Opened, Contents, Sending, Printing, Expecting, TypeOK, Labels
<1> QED
    BY <1>1, InitMInv, NextMInv, PTL DEF Spec

(* 16-MsgQueue.c:33-51: a demo waits for a message that does not come only *)
(* if another run has opened its queue as well.                            *)
THEOREM Starvation == Spec => []StarvedByOthersOnly
<1>1. MInv => StarvedByOthersOnly
    <2> SUFFICES ASSUME MInv, NEW d \in Demos, pc[d] = "drain",
                        Len(content[queue[d]]) < left[d]
                 PROVE  \E p \in Queues \ {d} : queue[p] = queue[d]
        BY DEF StarvedByOthersOnly
    <2>1. queue[d] \in Queues
        BY DEF MInv, Opened, Procs, Queues, Stopped
    <2>2. Len(content[queue[d]]) \in Nat /\ left[d] \in Nat
        BY <2>1 DEF MInv, Contents, Expecting
    <2> QED
        BY <2>2 DEF MInv, Expecting
<1> QED
    BY <1>1, InitMInv, NextMInv, PTL DEF Spec

-----------------------------------------------------------------------------
(* From the senders to what a reader prints.                               *)

\* Of the messages of s, seq has those with numbers in nums, in their order.
Delivered(s, nums, seq) ==
    /\ \A i \in 1 .. NumMessages : (\E k \in DOMAIN seq : seq[k] = <<s, i>>) <=> i \in nums
    /\ \A j, k \in DOMAIN seq :
          j < k /\ seq[j][1] = s /\ seq[k][1] = s => seq[j][2] < seq[k][2]

\* What s has sent to the queue of r so far.
Through(r, s) ==
    {i \in 1 .. NumMessages : queue[s] = r /\ i <= sent[s] /\ <<s, i>> \notin TooLong}

\* A queue that only its reader r takes from.
Alone(r) == queue[r] = r /\ pc[r] # "killed" /\ \A d \in Demos : queue[d] # r

\* A run that has not started has left no traces.
Fresh ==
    /\ \A r \in Readers : queue[r] \in {r, None}
    /\ \A r \in Readers : pc[r] = "start" =>
          /\ name # r /\ content[r] = <<>> /\ printed[r] = <<>>
          /\ \A p \in Procs : queue[p] # r
    /\ \A s \in Senders : pc[s] = "start" => sent[s] = 0

Delivery ==
    \A r \in Readers, s \in Senders :
        Alone(r) => Delivered(s, Through(r, s), Passed(r))

\* Taking the first of a queue, printing it and putting one in: what a reader
\* has passed stays, stays and grows.
LEMMA RegroupTake ==
    ASSUME NEW p \in Seq(Message), NEW q \in Seq(Message), q # <<>>
    PROVE  p \o <<Head(q)>> \o Tail(q) = p \o <<>> \o q
<1>1. Head(q) \in Message /\ Tail(q) \in Seq(Message) /\ q = <<Head(q)>> \o Tail(q)
    BY HeadTailProperties
<1>2. <<Head(q)>> \in Seq(Message)
    BY <1>1
<1>3. p \o <<Head(q)>> \o Tail(q) = p \o (<<Head(q)>> \o Tail(q))
    BY <1>1, <1>2, ConcatAssociative
<1> QED
    BY <1>1, <1>3, ConcatEmptySeq

LEMMA RegroupPrint ==
    ASSUME NEW p \in Seq(Message), NEW q \in Seq(Message), NEW m \in Message
    PROVE  Append(p, m) \o <<>> \o q = p \o <<m>> \o q
<1>1. Append(p, m) = p \o <<m>> /\ Append(p, m) \in Seq(Message)
    BY AppendIsConcat, AppendProperties
<1> QED
    BY <1>1, ConcatEmptySeq

LEMMA RegroupPut ==
    ASSUME NEW p \in Seq(Message), NEW h \in Seq(Message), NEW q \in Seq(Message),
           NEW m \in Message
    PROVE  p \o h \o Append(q, m) = Append(p \o h \o q, m)
<1>1. p \o h \in Seq(Message) /\ p \o h \o q \in Seq(Message) /\ <<m>> \in Seq(Message)
    BY ConcatProperties
<1>2. Append(q, m) = q \o <<m>> /\ Append(p \o h \o q, m) = p \o h \o q \o <<m>>
    BY <1>1, AppendIsConcat
<1> QED
    BY <1>1, <1>2, ConcatAssociative

\* A message at the end: of another run, or the next one of s.
LEMMA DeliveredNext ==
    ASSUME NEW s \in Senders, NEW nums, NEW seq \in Seq(Message), NEW m \in Message,
           Delivered(s, nums, seq)
    PROVE  /\ m[1] # s => Delivered(s, nums, Append(seq, m))
           /\ \A i \in 1 .. NumMessages :
                 m = <<s, i>> /\ (\A n \in nums \cap (1 .. NumMessages) : n < i)
                     => Delivered(s, nums \cup {i}, Append(seq, m))
<1> DEFINE new == Append(seq, m)
           l == Len(seq)
<1>1. /\ l \in Nat /\ DOMAIN seq = 1 .. l /\ DOMAIN new = 1 .. l + 1
      /\ new[l + 1] = m /\ \A k \in 1 .. l : new[k] = seq[k]
    BY AppendProperties
<1>2. \A k \in 1 .. l : seq[k] \in Message
    BY <1>1
<1>3. \A k \in 1 .. l + 1 : k \in 1 .. l \/ k = l + 1
    BY <1>1
<1> HIDE DEF new, l
<1>4. ASSUME m[1] # s PROVE Delivered(s, nums, new)
    <2>1. \A i \in 1 .. NumMessages : (\E k \in DOMAIN new : new[k] = <<s, i>>) <=>
              (\E k \in DOMAIN seq : seq[k] = <<s, i>>)
        BY <1>1, <1>3, <1>4
    <2>2. ASSUME NEW j \in DOMAIN new, NEW k \in DOMAIN new, j < k,
                 new[j][1] = s, new[k][1] = s
          PROVE  new[j][2] < new[k][2]
        BY <1>1, <1>3, <1>4, <2>2 DEF Delivered
    <2> QED
        BY <2>1, <2>2 DEF Delivered
<1>5. ASSUME NEW i \in 1 .. NumMessages, m = <<s, i>>,
             \A n \in nums \cap (1 .. NumMessages) : n < i
      PROVE  Delivered(s, nums \cup {i}, new)
    <2>1. \A e \in 1 .. NumMessages : (\E k \in DOMAIN new : new[k] = <<s, e>>) <=>
              (\E k \in DOMAIN seq : seq[k] = <<s, e>>) \/ e = i
        BY <1>1, <1>3, <1>5, SMTT(30)
    <2>2. ASSUME NEW j \in DOMAIN new, NEW k \in DOMAIN new, j < k,
                 new[j][1] = s, new[k][1] = s
          PROVE  new[j][2] < new[k][2]
        <3>1. CASE k \in 1 .. l
            <4>1. j \in 1 .. l
                BY <1>1, <2>2, <3>1
            <4> QED
                BY <1>1, <2>2, <3>1, <4>1 DEF Delivered
        <3>2. CASE k = l + 1
            <4>1. j \in 1 .. l /\ new[j] = seq[j] /\ seq[j] \in Message
                BY <1>1, <1>2, <2>2, <3>2
            <4>2. PICK e \in 1 .. NumMessages : seq[j] = <<s, e>>
                BY <2>2, <4>1, MQueueAssumption DEF Message
            <4>3. e \in nums
                BY <1>1, <4>1, <4>2 DEF Delivered
            <4> QED
                BY <1>1, <1>5, <3>2, <4>1, <4>2, <4>3
        <3> QED
            BY <1>1, <1>3, <3>1, <3>2
    <2> QED
        BY <2>1, <2>2 DEF Delivered
<1> QED
    BY <1>4, <1>5 DEF new

LEMMA FreshStep == ASSUME MInv, Fresh, [Next]_vars PROVE Fresh'
<1> USE MQueueAssumption DEF Fresh, MInv, Opened, Goto, Labels, Stopped, Procs, Queues
<1>1. ASSUME NEW r \in Readers, ReaderOpen(r) PROVE Fresh'
    BY <1>1 DEF ReaderOpen
<1>2. ASSUME NEW r \in Readers, Receive(r) PROVE Fresh'
    <2>1. queue[r] = r
        BY <1>2 DEF Receive
    <2>2. \A o \in Queues \ {r} : content'[o] = content[o]
        BY <1>2, <2>1 DEF Receive, Take, Contents
    <2> QED
        BY <1>2, <2>2 DEF Receive
<1>3. ASSUME NEW r \in Readers, PrintMessage(r) \/ Interrupted(r) PROVE Fresh'
    <2>1. pc[r] # "start" /\ r \in Procs
        BY <1>3 DEF PrintMessage, Interrupted
    <2>2. \A q \in Readers \ {r} : printed'[q] = printed[q]
        BY <1>3 DEF PrintMessage, Interrupted, Printing
    <2>3. \A p \in Procs \ {r} : pc'[p] = pc[p]
        BY <1>3 DEF PrintMessage, Interrupted
    <2>4. pc'[r] # "start" /\ UNCHANGED <<name, content, queue, sent>>
        BY <1>3, <2>1 DEF PrintMessage, Interrupted
    <2> QED
        BY <2>1, <2>2, <2>3, <2>4
<1>4. ASSUME NEW r \in Readers, NEW sig \in Signals, Signal(r, sig) PROVE Fresh'
    BY <1>4 DEF Signal
<1>5. ASSUME NEW s \in Senders, SenderOpen(s) PROVE Fresh'
    BY <1>5 DEF SenderOpen
<1>6. ASSUME NEW p \in Procs, pc[p] \notin Stopped, UNCHANGED <<name, queue, printed>>,
             NEW label, label # "start", pc' = [pc EXCEPT ![p] = label],
             \A s \in Senders \ {p} : sent'[s] = sent[s],
             \A o \in Queues \ {queue[p]} : content'[o] = content[o]
      PROVE  Fresh'
    BY <1>6
<1>7. ASSUME NEW s \in Senders, Send(s) PROVE Fresh'
    <2>1. \A o \in Queues \ {queue[s]} : content'[o] = content[o]
        BY <1>7 DEF Send, Put, Contents
    <2>2. \A t \in Senders \ {s} : sent'[t] = sent[t]
        BY <1>7 DEF Send, Sending
    <2> QED
        BY <1>6, <1>7, <2>1, <2>2 DEF Send
<1>8. ASSUME NEW d \in Demos, DemoOpen(d) PROVE Fresh'
    BY <1>8 DEF DemoOpen
<1>9. ASSUME NEW d \in Demos,
             DemoSend(d, "hello", "second", 1) \/ DemoSend(d, "second", "getattr", 2)
      PROVE  Fresh'
    <2>1. \A o \in Queues \ {queue[d]} : content'[o] = content[o]
        BY <1>9 DEF DemoSend, Put, Contents
    <2> QED
        BY <1>6, <1>9, <2>1 DEF DemoSend
<1>10. ASSUME NEW d \in Demos, DemoGetattr(d) \/ DemoReceive(d) PROVE Fresh'
    <2>1. \A o \in Queues \ {queue[d]} : content'[o] = content[o]
        BY <1>10 DEF DemoGetattr, DemoReceive, Take, Contents
    <2> QED
        BY <1>6, <1>10, <2>1 DEF DemoGetattr, DemoReceive
<1>11. ASSUME NEW p \in Procs, Unlink(p) \/ Kill(p) PROVE Fresh'
    BY <1>11 DEF Unlink, Kill
<1>12. CASE UNCHANGED vars
    BY <1>12 DEF vars
<1> HIDE DEF Fresh, MInv, Opened, Goto, Labels, Stopped
<1> QED
    BY <1>1, <1>2, <1>3, <1>4, <1>5, <1>7, <1>8, <1>9, <1>10, <1>11, <1>12
       DEF Next, ReaderStep, DemoStep

\* What a step that is not a sender's leaves of the way from a sender to r.
Settled(r) ==
    Alone(r)' => /\ Alone(r)
                 /\ Passed(r)' = Passed(r)
                 /\ \A s \in Senders : Through(r, s)' = Through(r, s)

LEMMA OtherSteps ==
    ASSUME MInv, Fresh, [Next]_vars, NEW r \in Readers
    PROVE  Settled(r) \/ ReaderOpen(r) \/ \E s \in Senders : Send(s)
<1> USE MQueueAssumption DEF MInv, Opened, Goto, Stopped, Procs, Queues
<1>1. content[r] \in Seq(Message) /\ printed[r] \in Seq(Message)
    BY DEF Contents, Printing
<1>2. ASSUME NEW q \in Readers, q # r, ReaderOpen(q) PROVE Settled(r)
    <2>1. /\ \A p \in Procs \ {q} : queue'[p] = queue[p] /\ pc'[p] = pc[p]
          /\ UNCHANGED <<content, sent, message, printed>>
        BY <1>2 DEF ReaderOpen
    <2>2. Alone(r)' => Alone(r)
        BY <1>2, <2>1 DEF Alone
    <2>3. InHand(r)' = InHand(r)
        BY <1>2, <2>1 DEF InHand
    <2>4. Passed(r)' = Passed(r)
        BY <2>1, <2>3 DEF Passed
    <2>5. \A s \in Senders : Through(r, s)' = Through(r, s)
        BY <1>2, <2>1 DEF Through
    <2> QED
        BY <2>2, <2>4, <2>5 DEF Settled
\* Steps of others that leave the queue of r alone.
<1>3. ASSUME NEW p \in Procs \ {r}, NEW label, pc' = [pc EXCEPT ![p] = label],
             UNCHANGED <<queue, sent>>, content'[r] = content[r], printed'[r] = printed[r],
             message'[r] = message[r]
      PROVE  Settled(r)
    BY <1>3 DEF Settled, Alone, Passed, InHand, Through
<1>4. ASSUME NEW q \in Readers, Receive(q) PROVE Settled(r)
    <2>1. CASE q # r
        <3>1. content'[r] = content[r]
            <4>1. queue[q] # r
                BY <1>4, <2>1 DEF Receive, Fresh
            <4> QED
                BY <1>4, <4>1 DEF Receive, Take, Contents
        <3>2. message'[r] = message[r]
            BY <1>4, <2>1 DEF Receive, Printing
        <3> QED
            BY <1>3, <1>4, <2>1, <3>1, <3>2 DEF Receive
    <2>2. CASE q = r
        <3>1. queue[r] = r /\ content[r] # <<>> /\ content'[r] = Tail(content[r])
            BY <1>4, <2>2 DEF Receive, Take, Contents, Fresh
        <3>2. message'[r] = Head(content[r]) /\ printed'[r] = printed[r]
            BY <1>4, <2>2, <3>1 DEF Receive, Printing
        <3>3. InHand(r) = <<>> /\ InHand(r)' = <<message'[r]>>
            BY <1>4, <2>2 DEF Receive, InHand
        <3>4. Passed(r)' = Passed(r)
            BY <1>1, <3>1, <3>2, <3>3, RegroupTake DEF Passed
        <3> QED
            BY <1>4, <3>4 DEF Receive, Settled, Alone, Through
    <2> QED
        BY <2>1, <2>2
<1>5. ASSUME NEW q \in Readers, PrintMessage(q) PROVE Settled(r)
    <2>1. CASE q # r
        <3>1. printed'[r] = printed[r]
            BY <1>5, <2>1 DEF PrintMessage, Printing
        <3> QED
            BY <1>3, <1>5, <2>1, <3>1 DEF PrintMessage
    <2>2. CASE q = r
        <3>1. message[r] \in Message
            BY <1>5, <2>2 DEF PrintMessage, Printing
        <3>2. printed'[r] = Append(printed[r], message[r]) /\ content'[r] = content[r]
            BY <1>5, <2>2 DEF PrintMessage, Printing
        <3>3. InHand(r) = <<message[r]>> /\ InHand(r)' = <<>>
            BY <1>5, <2>2 DEF PrintMessage, InHand
        <3>4. Passed(r)' = Passed(r)
            <4>1. /\ Passed(r)' = Append(printed[r], message[r]) \o <<>> \o content[r]
                  /\ Passed(r) = printed[r] \o <<message[r]>> \o content[r]
                BY <3>2, <3>3 DEF Passed
            <4>2. Append(printed[r], message[r]) \o <<>> \o content[r]
                      = printed[r] \o <<message[r]>> \o content[r]
                BY ONLY <1>1, <3>1, RegroupPrint, Zenon
            <4> QED
                BY ONLY <4>1, <4>2, Zenon
        <3> QED
            BY <1>5, <3>4 DEF PrintMessage, Settled, Alone, Through
    <2> QED
        BY <2>1, <2>2
<1>6. ASSUME NEW q \in Readers, Interrupted(q) PROVE Settled(r)
    BY <1>6 DEF Interrupted, Settled, Alone, Passed, InHand, Through
<1>7. ASSUME NEW q \in Readers, NEW sig \in Signals, Signal(q, sig) PROVE Settled(r)
    BY <1>7, ZenonT(40) DEF Signal, Settled, Alone, Passed, InHand, Through
<1>8. ASSUME NEW s \in Senders, SenderOpen(s) PROVE Settled(r)
    <2>1. sent[s] = 0 /\ queue[s] = None /\ UNCHANGED sent
        BY <1>8 DEF SenderOpen, Fresh
    <2>2. Through(r, s) = {} /\ Through(r, s)' = {}
        BY <2>1 DEF Through
    <2>3. \A t \in Senders \ {s} : Through(r, t)' = Through(r, t)
        BY <1>8 DEF SenderOpen, Through
    <2>4. /\ \A p \in Procs \ {s} : queue'[p] = queue[p] /\ pc'[p] = pc[p]
          /\ UNCHANGED <<content, message, printed>>
        BY <1>8 DEF SenderOpen
    <2>5. Alone(r)' => Alone(r)
        BY <2>4 DEF Alone
    <2>6. InHand(r)' = InHand(r)
        BY <2>4 DEF InHand
    <2>7. Passed(r)' = Passed(r)
        BY <2>4, <2>6 DEF Passed
    <2> QED
        BY <2>2, <2>3, <2>5, <2>7 DEF Settled
<1>9. ASSUME NEW d \in Demos, DemoOpen(d) PROVE Settled(r)
    BY <1>9 DEF DemoOpen, Settled, Alone, Passed, InHand, Through
<1>10. ASSUME NEW d \in Demos,
              \/ DemoSend(d, "hello", "second", 1) \/ DemoSend(d, "second", "getattr", 2)
              \/ DemoGetattr(d) \/ DemoReceive(d)
       PROVE  Settled(r)
    <2>1. UNCHANGED queue
        BY <1>10 DEF DemoSend, DemoGetattr, DemoReceive
    <2>2. CASE queue[d] = r
        BY <2>1, <2>2 DEF Settled, Alone
    <2>3. CASE queue[d] # r
        <3>1. content'[r] = content[r]
            BY <1>10, <2>3 DEF DemoSend, DemoGetattr, DemoReceive, Put, Take, Contents
        <3> QED
            BY <1>3, <1>10, <3>1, ZenonT(40) DEF DemoSend, DemoGetattr, DemoReceive
    <2> QED
        BY <2>2, <2>3
<1>11. ASSUME NEW p \in Procs, Kill(p) \/ Unlink(p) PROVE Settled(r)
    <2>1. CASE p # r
        BY <1>3, <1>11, <2>1 DEF Kill, Unlink
    <2>2. CASE p = r /\ Kill(p)
        BY <2>2 DEF Kill, Settled, Alone
    <2>3. CASE p = r /\ Unlink(p)
        <3>1. InHand(r)' = InHand(r)
            BY <2>3 DEF Unlink, InHand
        <3>2. Passed(r)' = Passed(r)
            BY <2>3, <3>1 DEF Unlink, Passed
        <3> QED
            BY <2>3, <3>2 DEF Unlink, Settled, Alone, Through
    <2> QED
        BY <1>11, <2>1, <2>2, <2>3
<1>12. CASE UNCHANGED vars
    BY <1>12 DEF vars, Settled, Alone, Passed, InHand, Through
<1> HIDE DEF MInv, Opened, Goto, Stopped
<1> QED
    BY <1>2, <1>4, <1>5, <1>6, <1>7, <1>8, <1>9, <1>10, <1>11, <1>12
       DEF Next, ReaderStep, DemoStep

LEMMA PassedType == ASSUME MInv, NEW r \in Readers PROVE Passed(r) \in Seq(Message)
<1>1. content[r] \in Seq(Message) /\ printed[r] \in Seq(Message)
    BY DEF MInv, Contents, Printing, Queues
<1>2. InHand(r) \in Seq(Message)
    BY DEF MInv, Printing, InHand
<1> QED
    BY <1>1, <1>2, ConcatProperties DEF Passed

LEMMA SendDelivers ==
    ASSUME MInv, Fresh, Delivery, NEW t \in Senders, Send(t),
           NEW r \in Readers, NEW s \in Senders, Alone(r)'
    PROVE  Delivered(s, Through(r, s)', Passed(r)')
<1> USE MQueueAssumption
<1> DEFINE n == sent[t] + 1
           m == <<t, n>>
<1>1. /\ Alone(r) /\ queue[t] \in Queues /\ UNCHANGED <<queue, printed, message>>
      /\ sent[t] \in Nat /\ n \in 1 .. NumMessages /\ m \in Message
      /\ sent' = [sent EXCEPT ![t] = n] /\ InHand(r)' = InHand(r)
    BY DEF Send, Goto, Alone, MInv, Opened, Sending, Stopped, Procs, Queues, Message,
           InHand
<1>2. Delivered(s, Through(r, s), Passed(r))
    BY <1>1 DEF Delivery
<1>3. sent'[t] = n /\ \A u \in Senders \ {t} : sent'[u] = sent[u]
    BY <1>1 DEF MInv, Sending
<1>4. s # t \/ queue[t] # r => Through(r, s)' = Through(r, s)
    BY <1>1, <1>3 DEF Through
<1>5. s = t /\ queue[t] = r =>
          Through(r, s)' = IF m \in TooLong THEN Through(r, s) ELSE Through(r, s) \cup {n}
    <2> SUFFICES ASSUME s = t, queue[t] = r
                 PROVE  \A i \in 1 .. NumMessages :
                          i <= n <=> i <= sent[t] \/ i = n
        BY <1>1, <1>3 DEF Through
    <2> QED
        BY <1>1
<1>6. CASE UNCHANGED content /\ m \in TooLong
    <2>1. Passed(r)' = Passed(r)
        BY <1>1, <1>6 DEF Passed
    <2> QED
        BY <1>2, <1>4, <1>5, <1>6, <2>1
<1>7. CASE Put(queue[t], m) /\ m \notin TooLong
    <2>1. CASE queue[t] # r
        <3>1. Passed(r)' = Passed(r)
            BY <1>1, <1>7, <2>1 DEF Put, Passed, MInv, Contents, Queues
        <3> QED
            BY <1>2, <1>4, <2>1, <3>1
    <2>2. CASE queue[t] = r
        <3>1. content[r] \in Seq(Message) /\ content'[r] = Append(content[r], m)
            BY <1>7, <2>2 DEF Put, MInv, Contents, Queues
        <3>2. printed[r] \in Seq(Message) /\ InHand(r) \in Seq(Message)
            BY DEF MInv, Printing, InHand
        <3>3. Passed(r)' = Append(Passed(r), m) /\ Passed(r) \in Seq(Message)
            <4>1. Passed(r)' = printed[r] \o InHand(r) \o Append(content[r], m)
                BY <1>1, <3>1 DEF Passed
            <4>2. Passed(r) = printed[r] \o InHand(r) \o content[r]
                BY DEF Passed
            <4>3. \A e \in Message :
                     printed[r] \o InHand(r) \o Append(content[r], e)
                         = Append(printed[r] \o InHand(r) \o content[r], e)
                BY ONLY <3>1, <3>2, RegroupPut, Zenon
            <4>4. printed[r] \o InHand(r) \o Append(content[r], m) = Append(Passed(r), m)
                BY <1>1, <4>2, <4>3, Zenon
            <4> QED
                BY <4>1, <4>4, PassedType
        <3>4. CASE s # t
            BY <1>1, <1>2, <1>4, <3>3, <3>4, DeliveredNext
        <3>5. CASE s = t
            <4>1. \A i \in Through(r, s) \cap (1 .. NumMessages) : i < n
                BY <1>1, <3>5 DEF Through
            <4>2. Delivered(s, Through(r, s) \cup {n}, Append(Passed(r), m))
                BY <1>1, <1>2, <3>3, <3>5, <4>1, DeliveredNext
            <4> QED
                BY <1>5, <1>7, <2>2, <3>3, <3>5, <4>2
        <3> QED
            BY <3>4, <3>5
    <2> QED
        BY <2>1, <2>2
<1> QED
    BY <1>1, <1>3, <1>6, <1>7 DEF Send

LEMMA OpenDelivers ==
    ASSUME MInv, Fresh, NEW r \in Readers, ReaderOpen(r), Alone(r)', NEW s \in Senders
    PROVE  Delivered(s, Through(r, s)', Passed(r)')
<1> USE MQueueAssumption
<1>1. content[r] = <<>> /\ printed[r] = <<>> /\ queue[s] # r
    BY DEF ReaderOpen, Fresh, Procs, Queues
<1>2. queue'[s] # r /\ UNCHANGED <<content, printed>>
    BY <1>1 DEF ReaderOpen, MInv, Opened, Procs, Queues
<1>3. InHand(r)' = <<>>
    BY DEF ReaderOpen, InHand, Goto, MInv, Opened, Procs, Queues
<1>4. Passed(r)' = <<>>
    BY <1>1, <1>2, <1>3 DEF Passed
<1>5. Through(r, s)' = {}
    BY <1>2 DEF Through
<1> QED
    BY <1>4, <1>5 DEF Delivered

(* 17-QueueReader.c:68-95, 17-QueueSender.c: for any readers, senders and  *)
(* demos over a queue of any size, a reader prints what a sender got       *)
(* through once and in order, whatever signals come and whenever.          *)
THEOREM Delivers == Spec => []NothingLost
<1>1. Init => Fresh /\ Delivery
    <2> SUFFICES ASSUME Init PROVE Fresh /\ Delivery
        OBVIOUS
    <2>1. Fresh
        BY MQueueAssumption DEF Init, Fresh, Procs, Queues
    <2>2. \A r \in Readers : ~Alone(r)
        BY MQueueAssumption DEF Init, Alone, Procs, Queues
    <2> QED
        BY <2>1, <2>2 DEF Delivery
<1>2. MInv /\ Fresh /\ Delivery /\ [Next]_vars => Fresh' /\ Delivery'
    <2> SUFFICES ASSUME MInv, Fresh, Delivery, [Next]_vars PROVE Fresh' /\ Delivery'
        OBVIOUS
    <2>1. ASSUME NEW r \in Readers, NEW s \in Senders, Alone(r)'
          PROVE  Delivered(s, Through(r, s)', Passed(r)')
        <3>1. CASE Settled(r)
            BY <2>1, <3>1 DEF Settled, Delivery
        <3>2. CASE ReaderOpen(r)
            BY <2>1, <3>2, OpenDelivers
        <3>3. CASE \E t \in Senders : Send(t)
            BY <2>1, <3>3, SendDelivers
        <3> QED
            BY <3>1, <3>2, <3>3, OtherSteps
    <2>2. Delivery'
        BY <2>1 DEF Delivery, Delivered
    <2> QED
        BY <2>2, FreshStep
<1>3. Delivery => NothingLost
    BY DEF Delivery, Delivered, Alone, Through, NothingLost
<1> QED
    BY <1>1, <1>2, <1>3, InitMInv, NextMInv, PTL DEF Spec
=============================================================================
