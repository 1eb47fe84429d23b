--------------------------- MODULE Watcher_proofs ---------------------------
(* Proofs about Watcher: any signals, in any number and order.             *)
EXTENDS Watcher, SequenceTheorems, TLAPS

Places == {"check", "report", "term?", "quit?", "stopped", "failed"} \cup PollLoop

(* What the programs with a handler have printed is older than what the    *)
(* handler saw last whenever they are about to print it.                   *)
Before(last) == \A i \in DOMAIN reported : reported[i].id < last
UpTo(last)   == \A i \in DOMAIN reported : reported[i].id <= last
Ordered ==
    \A i, j \in DOMAIN reported : i < j => reported[i].id < reported[j].id

HandlerInv ==
    /\ program = "15.1-Sigaction" => pc \in {"pause", "report"}
    /\ program = "15.2-Termination10" => pc \in Places
    /\ program = "15.2-Termination10" /\ pc \in PollLoop => errno # "EINTR"
    /\ Ordered
    /\ UpTo(g_last_signal.id)
    /\ pc = "report" \/ (pc = "check" /\ errno = "EINTR")
         => Before(g_last_signal.id)

IInv ==
    /\ signals \in Nat
    /\ g_last_signal \in [id : Nat, sig : Sigs \cup {"none"}]
    /\ g_last_signal.id <= signals
    /\ reported \in Seq([id : Nat, sig : Sigs \cup {"none"}])
    /\ pending \subseteq [id : Nat, sig : Sigs \cup {"none"}]
    /\ sig_info \in [id : Nat, sig : Sigs \cup {"none"}]
    /\ program \in Handling => HandlerInv

LEMMA InSeq ==
    ASSUME NEW S, NEW s \in Seq(S), NEW i \in DOMAIN s PROVE s[i] \in S
    OBVIOUS

LEMMA Entries ==
    /\ Entry["10-Inotify"] = "poll"
    /\ Entry["15.2-Termination10"] = "check"
    /\ Entry["15.1-Sigaction"] = "pause"
    BY DEF Entry, Handling, Watching

LEMMA InitIInv == Init => IInv
<1> SUFFICES ASSUME Init PROVE IInv
    OBVIOUS
<1>1. DOMAIN reported = {}
    BY DEF Init
<1>2. program \in Handling => HandlerInv
    BY <1>1, Entries DEF Init, HandlerInv, Handling, Places, PollLoop,
                         Ordered, UpTo, Before
<1> QED
    BY <1>2 DEF Init, IInv, NoSignal

(* A step that leaves the signals and what has been printed alone keeps    *)
(* the order; what it does to pc and errno is left to show.                *)
LEMMA Quiet ==
    ASSUME IInv, UNCHANGED <<program, sigvars>>,
           program = "15.2-Termination10" =>
               /\ pc' \in Places
               /\ pc' \in PollLoop => errno' # "EINTR"
               /\ pc' = "report" \/ (pc' = "check" /\ errno' = "EINTR")
                    => Before(g_last_signal.id),
           program = "15.1-Sigaction" => pc' = pc
    PROVE  IInv'
    BY DEF IInv, HandlerInv, sigvars, reader, Handling, Ordered, UpTo, Before

LEMMA LoopStep ==
    ASSUME IInv, Watch, ~Report, ~TestUnset, ~ReadSignal PROVE IInv'
<1>1. UNCHANGED <<program, sigvars>>
    BY DEF Watch, Check, IsTerm, IsQuit, Poll, ReadStdin, Answer, ReadEvents
<1>2. program = "15.1-Sigaction" => FALSE
    BY DEF IInv, HandlerInv, Handling, Watch, Check, IsTerm, IsQuit, Poll,
           ReadStdin, Answer, ReadEvents
<1>3. ASSUME program = "15.2-Termination10"
      PROVE  /\ pc' \in Places
             /\ pc' \in PollLoop => errno' # "EINTR"
             /\ pc' = "report" \/ (pc' = "check" /\ errno' = "EINTR")
                  => Before(g_last_signal.id)
    <2> USE <1>3, Entries DEF IInv, HandlerInv, Handling, Places, PollLoop
    <2>1. CASE Check       BY <2>1 DEF Check
    <2>2. CASE IsTerm      BY <2>2 DEF IsTerm
    <2>3. CASE IsQuit      BY <2>3 DEF IsQuit
    <2>4. CASE Poll        BY <2>4 DEF Poll, Loop
    <2>5. CASE ReadStdin   BY <2>5 DEF ReadStdin, AfterInput, Loop
    <2>6. CASE Answer      BY <2>6 DEF Answer, Loop
    <2>7. CASE ReadEvents  BY <2>7 DEF ReadEvents, Loop
    <2> QED
        BY <2>1, <2>2, <2>3, <2>4, <2>5, <2>6, <2>7 DEF Watch
<1> QED
    BY <1>1, <1>2, <1>3, Quiet

LEMMA ReportStep == ASSUME IInv, Report PROVE IInv'
<1> DEFINE n == Len(reported)
<1>1. /\ reported' = Append(reported, g_last_signal)
      /\ UNCHANGED <<program, errno, g_last_signal, signals, pending, reader>>
      /\ pc = "report"
      /\ pc' = IF program = "15.1-Sigaction" THEN "pause" ELSE "term?"
    BY DEF Report
<1>2. /\ n \in Nat /\ DOMAIN reported = 1..n /\ DOMAIN reported' = 1..(n + 1)
      /\ reported'[n + 1] = g_last_signal
      /\ \A i \in 1..n : reported'[i] = reported[i]
    BY <1>1 DEF IInv
<1>3. reported' \in Seq([id : Nat, sig : Sigs \cup {"none"}])
    BY <1>1 DEF IInv
<1>4. ASSUME program \in Handling PROVE HandlerInv'
    <2>1. Ordered' /\ UpTo(g_last_signal.id)'
        <3>1. Ordered /\ UpTo(g_last_signal.id) /\ Before(g_last_signal.id)
            BY <1>1, <1>4 DEF IInv, HandlerInv
        <3>2. \A i \in 1..(n + 1) : i = n + 1 \/ i \in 1..n
            BY <1>2
        <3>3. g_last_signal.id \in Nat
            BY DEF IInv
        <3> QED
            BY <1>1, <1>2, <3>1, <3>2, <3>3 DEF Ordered, UpTo, Before
    <2> QED
        BY <1>1, <1>4, <2>1 DEF HandlerInv, Handling, Places, PollLoop
<1> QED
    BY <1>1, <1>3, <1>4 DEF IInv, reader

(* The handler's signal is newer than all that came before.                *)
LEMMA HandlerStep ==
    ASSUME IInv, NEW sig \in Sigs, HandlerRuns(sig) \/ Interrupts(sig)
    PROVE  IInv'
<1>1. /\ program \in Handling
      /\ signals' = signals + 1
      /\ g_last_signal' = [id |-> signals + 1, sig |-> sig]
      /\ UNCHANGED <<program, reported, pending, reader>>
    BY DEF HandlerRuns, Interrupts, Send, Arriving
<1>2. Ordered' /\ UpTo(g_last_signal.id)' /\ Before(g_last_signal.id)'
    <2>1. ASSUME NEW i \in DOMAIN reported PROVE reported[i].id \in Nat
        <3>1. reported[i] \in [id : Nat, sig : Sigs \cup {"none"}]
            BY InSeq DEF IInv
        <3> QED
            BY <3>1
    <2> QED
        BY <1>1, <2>1 DEF IInv, HandlerInv, Ordered, UpTo, Before
<1>3. HandlerInv'
    <2>1. CASE HandlerRuns(sig)
        <3>1. UNCHANGED <<pc, errno>>
            BY <2>1 DEF HandlerRuns
        <3> QED
            BY <1>1, <1>2, <3>1 DEF IInv, HandlerInv
    <2>2. CASE Interrupts(sig)
        <3>1. /\ errno' = "EINTR"
              /\ \/ pc = "poll" /\ pc' = "check"
                 \/ pc = "pause" /\ pc' = "report"
            BY <2>2 DEF Interrupts
        <3> QED
            BY <1>1, <1>2, <3>1 DEF IInv, HandlerInv, Places, PollLoop
    <2> QED
        BY <2>1, <2>2
<1> QED
    BY <1>1, <1>3 DEF IInv, reader

LEMMA OtherStep ==
    ASSUME IInv,
           \/ TestUnset \/ ReadSignal \/ ReadFails
           \/ \E sig \in Sigs : DefaultAction(sig) \/ StaysPending(sig)
    PROVE  IInv'
<1>1. program \notin Handling /\ UNCHANGED program
    BY DEF IInv, HandlerInv, Handling, Places, PollLoop, TestUnset, ReadSignal,
           ReadFails, DefaultAction, StaysPending, Send
<1>2. CASE TestUnset
    BY <1>1, <1>2 DEF TestUnset, IInv
<1>3. CASE ReadSignal
    BY <1>1, <1>3 DEF ReadSignal, IInv
<1>4. CASE ReadFails
    BY <1>1, <1>4 DEF ReadFails, IInv
<1>5. ASSUME NEW sig \in Sigs, DefaultAction(sig) PROVE IInv'
    BY <1>1, <1>5 DEF DefaultAction, Send, IInv, reader
<1>6. ASSUME NEW sig \in Sigs, StaysPending(sig) PROVE IInv'
    BY <1>1, <1>6 DEF StaysPending, Send, Arriving, IInv, reader
<1> QED
    BY <1>2, <1>3, <1>4, <1>5, <1>6

LEMMA NextIInv == IInv /\ [Next]_vars => IInv'
<1> SUFFICES ASSUME IInv, [Next]_vars PROVE IInv'
    OBVIOUS
<1>1. CASE Watch
    BY <1>1, LoopStep, ReportStep, OtherStep
<1>2. CASE CallFails
    <2>1. /\ UNCHANGED <<program, sigvars>> /\ pc' = "failed"
          /\ pc \in {"poll", "answer", "events"}
        BY <1>2 DEF CallFails
    <2> QED
        BY <2>1, Quiet DEF IInv, HandlerInv, Handling, Places, PollLoop
<1>3. CASE \/ EndInput \/ Happen \/ \E first \in Firsts : Type(first)
           \/ UNCHANGED vars
    <2>1. UNCHANGED <<program, pc, errno, sigvars>>
        BY <1>3 DEF EndInput, Happen, Type, vars
    <2> QED
        BY <2>1, Quiet DEF IInv, HandlerInv, Handling
<1> QED
    BY <1>1, <1>2, <1>3, HandlerStep, OtherStep DEF Next, Environment

(* 15.1-Sigaction.c:41-46, 15.2-Termination10.c:153-171: whatever signals  *)
(* come, none is printed twice or after a newer one.                       *)
THEOREM NoReportTwice == Spec => []ReportsInOrder
<1>1. IInv => ReportsInOrder
    BY DEF IInv, HandlerInv, Ordered, ReportsInOrder
<1> QED
    BY <1>1, InitIInv, NextIInv, PTL DEF Spec

-----------------------------------------------------------------------------
(* The events of the directory.  A queue that is longer than MaxQueued     *)
(* holds an overflow event, and none that has been seen is yet to happen.  *)
EInv ==
    /\ happened \in 0..MaxEvents
    /\ queue \in Seq(0..MaxEvents) /\ Len(queue) <= MaxQueued + 1
    /\ Len(queue) > MaxQueued => \E i \in DOMAIN queue : queue[i] = 0
    /\ printed \in Seq(0..MaxEvents)
    /\ \A i \in DOMAIN Seen : Seen[i] \in 0..happened
    /\ EventsInOrder

LEMMA InitEInv == Init => EInv
    BY WatcherAssumption DEF Init, EInv, EventsInOrder, Seen

(* Reading moves the first n events from the queue to what is printed, and *)
(* does not change the two together.                                       *)
LEMMA Moved ==
    ASSUME NEW S, NEW p \in Seq(S), NEW q \in Seq(S), NEW n \in 1..Len(q)
    PROVE  /\ p \o SubSeq(q, 1, n) \in Seq(S)
           /\ SubSeq(q, n + 1, Len(q)) \in Seq(S)
           /\ Len(SubSeq(q, n + 1, Len(q))) = Len(q) - n
<1>1. n \in Int /\ n >= 1 /\ n <= Len(q) /\ Len(q) \in Nat
    OBVIOUS
<1>2. \A i \in 1..Len(q) : q[i] \in S
    OBVIOUS
<1>3. SubSeq(q, 1, n) \in Seq(S)
    BY <1>1, <1>2, SubSeqProperties
<1>4. /\ SubSeq(q, n + 1, Len(q)) \in Seq(S)
      /\ Len(SubSeq(q, n + 1, Len(q))) = Len(q) - n
    <2> DEFINE b == SubSeq(q, n + 1, Len(q))
    <2>1. /\ b \in Seq(S)
          /\ Len(b) = IF n + 1 <= Len(q) THEN Len(q) - (n + 1) + 1 ELSE 0
        BY <1>1, <1>2, SubSeqProperties
    <2> HIDE DEF b
    <2>2. b \in Seq(S) /\ Len(b) = Len(q) - n
        BY <1>1, <2>1
    <2> QED
        BY <2>2 DEF b
<1> QED
    BY <1>3, <1>4

(* What has been printed and what is queued stay together.                 *)
LEMMA MovedTogether ==
    ASSUME NEW S, NEW p \in Seq(S), NEW q \in Seq(S), NEW n \in 1..Len(q)
    PROVE  (p \o SubSeq(q, 1, n)) \o SubSeq(q, n + 1, Len(q)) = p \o q
<1> DEFINE a == SubSeq(q, 1, n)
           b == SubSeq(q, n + 1, Len(q))
<1>1. n \in Int /\ n >= 1 /\ n <= Len(q) /\ Len(q) \in Nat
    OBVIOUS
<1>2. \A i \in 1..Len(q) : q[i] \in S
    OBVIOUS
<1>3. a \in Seq(S) /\ Len(a) = n /\ \A i \in 1..n : a[i] = q[i]
    <2>1. \A i \in 1..n : q[i] \in S
        BY <1>1, <1>2
    <2>2. /\ a \in Seq(S) /\ Len(a) = IF 1 <= n THEN n - 1 + 1 ELSE 0
          /\ \A i \in 1..(n - 1 + 1) : a[i] = q[1 + i - 1]
        BY <1>1, <2>1, SubSeqProperties
    <2> HIDE DEF a
    <2> QED
        BY <1>1, <2>2
<1>4. b \in Seq(S) /\ Len(b) = Len(q) - n /\ \A i \in 1..(Len(q) - n) : b[i] = q[n + i]
    <2>1. \A i \in (n + 1)..Len(q) : q[i] \in S
        BY <1>1, <1>2
    <2>2. /\ b \in Seq(S)
          /\ Len(b) = IF n + 1 <= Len(q) THEN Len(q) - (n + 1) + 1 ELSE 0
          /\ \A i \in 1..(Len(q) - (n + 1) + 1) : b[i] = q[(n + 1) + i - 1]
        BY <1>1, <2>1, SubSeqProperties
    <2> HIDE DEF b
    <2> QED
        BY <1>1, <2>2
<1> HIDE DEF a, b
<1>5. (p \o a) \o b = p \o q
    <2>1. (p \o a) \o b = p \o (a \o b)
        BY <1>3, <1>4
    <2>2. a \o b = q
        BY <1>1, <1>3, <1>4
    <2> QED
        BY <2>1, <2>2
<1> QED
    BY <1>5 DEF a, b

LEMMA ReadEventsStep == ASSUME EInv, ReadEvents PROVE EInv'
<1>1. CASE UNCHANGED <<happened, queue, printed>>
    BY <1>1 DEF EInv, EventsInOrder, Seen
<1>2. ASSUME NEW n \in 1..Len(queue),
             printed' = printed \o SubSeq(queue, 1, n),
             queue' = SubSeq(queue, n + 1, Len(queue))
      PROVE  EInv'
    <2>1. /\ printed' \in Seq(0..MaxEvents) /\ queue' \in Seq(0..MaxEvents)
          /\ Len(queue') = Len(queue) - n
          /\ Seen' = Seen
        <3> DEFINE S == 0..MaxEvents
        <3>1. printed \in Seq(S) /\ queue \in Seq(S) /\ n \in 1..Len(queue)
            BY <1>2 DEF EInv
        <3>2. (0..MaxEvents) = S
            OBVIOUS
        <3> HIDE DEF S
        <3>3. printed \o SubSeq(queue, 1, n) \in Seq(S)
            BY <3>1, Moved, Zenon
        <3>4. SubSeq(queue, n + 1, Len(queue)) \in Seq(S)
            BY <3>1, Moved, Zenon
        <3>5. Len(SubSeq(queue, n + 1, Len(queue))) = Len(queue) - n
            BY <3>1, Moved, Zenon
        <3>6. (printed \o SubSeq(queue, 1, n)) \o SubSeq(queue, n + 1, Len(queue))
                = printed \o queue
            BY <3>1, MovedTogether, Zenon
        <3> QED
            BY <1>2, <3>2, <3>3, <3>4, <3>5, <3>6, Zenon DEF Seen
    <2>2. Len(queue) \in Nat /\ Len(queue) <= MaxQueued + 1 /\ MaxQueued \in Nat
        BY WatcherAssumption DEF EInv
    <2>3. Len(queue') <= MaxQueued
        BY <2>1, <2>2
    <2>4. UNCHANGED happened
        BY DEF ReadEvents
    <2>5. EventsInOrder'
        BY <2>1, <2>4 DEF EInv, EventsInOrder
    <2> QED
        BY <2>1, <2>2, <2>3, <2>4, <2>5 DEF EInv
<1> QED
    BY <1>1, <1>2 DEF ReadEvents

(* What happens is put behind what has been seen, or an overflow event     *)
(* that is seen already stands for it.                                     *)
LEMMA HappenStep == ASSUME EInv, Happen PROVE EInv'
<1> DEFINE n == Len(Seen)
           e == happened + 1
<1>1. /\ happened \in Nat /\ happened' = e /\ e \in 1..MaxEvents
      /\ printed' = printed /\ MaxEvents \in Nat /\ MaxQueued \in Nat
    BY WatcherAssumption DEF EInv, Happen
<1>2. Seen \in Seq(0..MaxEvents) /\ n \in Nat /\ DOMAIN Seen = 1..n
    BY DEF EInv, Seen
<1>3. \A i \in 1..n : Seen[i] \in 0..happened
    BY <1>2 DEF EInv
<1>4. ASSUME queue' = queue, \E i \in DOMAIN queue : queue[i] = 0 PROVE EInv'
    <2>1. \E i \in 1..n : Seen[i] = 0
        <3>1. PICK i \in DOMAIN queue : queue[i] = 0
            BY <1>4
        <3>2. Len(printed) + i \in 1..n /\ Seen[Len(printed) + i] = 0
            BY <3>1 DEF EInv, Seen
        <3> QED
            BY <3>2
    <2>2. Seen' = Seen
        BY <1>1, <1>4 DEF Seen
    <2>3. \A i \in DOMAIN Seen' : Seen'[i] \in 0..happened'
        BY <1>1, <1>2, <1>3, <2>2
    <2>4. EventsInOrder'
        <3>1. PICK i \in 1..n : Seen[i] = 0
            BY <2>1
        <3>2. \A j \in 1..i : Seen[j] < e
            BY <1>1, <1>2, <1>3
        <3>3. i \in DOMAIN Seen /\ Seen[i] = 0 /\ \A j \in 1..i : Seen[j] < e
            BY <1>2, <3>1, <3>2
        <3>4. \A k \in 1..e : k = e \/ k \in 1..happened
            BY <1>1
        <3>5. \A k \in 1..e :
                 \/ \E l \in DOMAIN Seen : Seen[l] = k
                 \/ \E l \in DOMAIN Seen : Seen[l] = 0 /\ \A j \in 1..l : Seen[j] < k
            BY <3>3, <3>4, SMTT(30) DEF EInv, EventsInOrder
        <3>6. \A l, j \in DOMAIN Seen :
                 l < j /\ Seen[l] # 0 /\ Seen[j] # 0 => Seen[l] < Seen[j]
            BY DEF EInv, EventsInOrder
        <3> QED
            BY <1>1, <2>2, <3>5, <3>6 DEF EventsInOrder
    <2> QED
        BY <1>1, <1>4, <2>3, <2>4 DEF EInv
<1>5. ASSUME NEW x \in {e, 0}, queue' = Append(queue, x),
             Len(queue) <= MaxQueued,
             x = 0 \/ Len(queue) < MaxQueued
      PROVE  EInv'
    <2>1. /\ Seen' \in Seq(0..MaxEvents) /\ Len(Seen') = n + 1
          /\ DOMAIN Seen' = 1..(n + 1)
          /\ \A i \in 1..n : Seen'[i] = Seen[i]
          /\ Seen'[n + 1] = x
        BY <1>1, <1>5 DEF EInv, Seen
    <2>2. /\ queue' \in Seq(0..MaxEvents) /\ Len(queue') = Len(queue) + 1
          /\ queue'[Len(queue) + 1] = x /\ Len(queue) + 1 \in DOMAIN queue'
        BY <1>1, <1>5 DEF EInv
    <2>3. Len(queue) \in Nat
        BY DEF EInv
    <2>4. /\ Len(queue') <= MaxQueued + 1
          /\ Len(queue') > MaxQueued => x = 0
        BY <1>1, <1>5, <2>2, <2>3
    <2>5. \A i \in 1..(n + 1) : i = n + 1 \/ i \in 1..n
        BY <1>2
    <2>6. \A i \in DOMAIN Seen' : Seen'[i] \in 0..happened'
        BY <1>1, <1>3, <2>1, <2>5
    <2>7. ASSUME NEW i \in DOMAIN Seen', NEW j \in DOMAIN Seen',
                 i < j, Seen'[i] # 0, Seen'[j] # 0
          PROVE  Seen'[i] < Seen'[j]
        <3>1. i \in 1..n /\ Seen'[i] = Seen[i]
            BY <1>2, <2>1, <2>7
        <3>2. CASE j \in 1..n
            BY <1>2, <2>1, <2>7, <3>1, <3>2 DEF EInv, EventsInOrder
        <3>3. CASE j = n + 1
            BY <1>1, <1>3, <2>1, <2>7, <3>1, <3>3
        <3> QED
            BY <2>1, <2>5, <3>2, <3>3
    <2>8. ASSUME NEW k \in 1..happened'
          PROVE  \/ \E i \in DOMAIN Seen' : Seen'[i] = k
                 \/ \E i \in DOMAIN Seen' :
                       Seen'[i] = 0 /\ \A j \in 1..i : Seen'[j] < k
        <3>1. CASE k = e /\ x = e
            BY <1>2, <2>1, <3>1
        <3>2. CASE k = e /\ x = 0
            <4>1. n + 1 \in DOMAIN Seen' /\ Seen'[n + 1] = 0
                BY <1>2, <2>1, <3>2
            <4>2. \A j \in 1..(n + 1) : Seen'[j] < k
                BY <1>1, <1>3, <2>1, <2>5, <3>2
            <4> QED
                BY <4>1, <4>2
        <3>3. CASE k \in 1..happened
            <4>1. CASE \E i \in 1..n : Seen[i] = k
                BY <1>2, <2>1, <4>1
            <4>2. ASSUME NEW i \in 1..n, Seen[i] = 0, \A j \in 1..i : Seen[j] < k
                  PROVE  \E l \in DOMAIN Seen' :
                            Seen'[l] = 0 /\ \A j \in 1..l : Seen'[j] < k
                <5>1. \A j \in 1..i : j \in 1..n
                    BY <1>2
                <5> QED
                    BY <1>2, <2>1, <4>2, <5>1
            <4> QED
                BY <1>2, <3>3, <4>1, <4>2 DEF EInv, EventsInOrder
        <3> QED
            BY <1>1, <1>5, <3>1, <3>2, <3>3
    <2>9. EventsInOrder'
        BY <2>7, <2>8 DEF EventsInOrder
    <2>10. Len(queue') > MaxQueued => \E i \in DOMAIN queue' : queue'[i] = 0
        BY <2>2, <2>4
    <2>11. happened' \in 0..MaxEvents /\ printed' \in Seq(0..MaxEvents)
        BY <1>1 DEF EInv
    <2> QED
        BY <2>2, <2>4, <2>6, <2>9, <2>10, <2>11 DEF EInv
<1>6. CASE Len(queue) < MaxQueued
    <2>1. Len(queue) \in Nat /\ Len(queue) <= MaxQueued
        BY <1>1, <1>6 DEF EInv
    <2>2. queue' = Append(queue, happened')
        BY <1>6 DEF Happen
    <2> QED
        BY <1>1, <1>5, <1>6, <2>1, <2>2
<1>7. CASE ~(Len(queue) < MaxQueued) /\ \E i \in DOMAIN queue : queue[i] = 0
    BY <1>4, <1>7 DEF Happen
<1>8. CASE ~(Len(queue) < MaxQueued) /\ ~\E i \in DOMAIN queue : queue[i] = 0
    <2>1. Len(queue) \in Nat /\ Len(queue) <= MaxQueued
        BY <1>1, <1>8 DEF EInv
    <2>2. queue' = Append(queue, 0)
        BY <1>8 DEF Happen
    <2> QED
        BY <1>5, <2>1, <2>2
<1> QED
    BY <1>6, <1>7, <1>8

LEMMA NextEInv == EInv /\ [Next]_vars => EInv'
<1> SUFFICES ASSUME EInv, [Next]_vars PROVE EInv'
    OBVIOUS
<1>1. CASE UNCHANGED events
    BY <1>1 DEF events, EInv, EventsInOrder, Seen
<1>2. CASE ReadEvents
    BY <1>2, ReadEventsStep
<1>3. CASE Happen
    BY <1>3, HappenStep
<1>4. CASE Watch /\ ~ReadEvents
    BY <1>1, <1>4 DEF Watch, Check, Report, IsTerm, IsQuit, Poll, ReadStdin, Answer,
                      TestUnset, ReadSignal
<1>5. CASE Environment /\ ~Happen
    BY <1>1, <1>5 DEF Environment, CallFails, ReadFails, DefaultAction, HandlerRuns, Interrupts,
                      StaysPending, Send, Type, EndInput
<1> QED
    BY <1>1, <1>2, <1>3, <1>4, <1>5 DEF Next, vars

(* 10-Inotify.c:10-72: whatever happens in the directory, however many     *)
(* events inotify can hold and wherever poll and read find them, the       *)
(* events are printed once and in their order.                             *)
THEOREM NoEventLost == Spec => []EventsInOrder
<1>1. EInv => EventsInOrder
    BY DEF EInv
<1> QED
    BY <1>1, InitEInv, NextEInv, PTL DEF Spec

-----------------------------------------------------------------------------
(* The other variables.                                                    *)
TInv ==
    /\ program \in Programs
    /\ Halted \/ pc \in Labels[program]
    /\ typed \in Seq(Firsts) /\ Len(typed) <= MaxLines
    /\ ended \in {"no", "hup", "eof"}
    /\ revents \subseteq {"in", "inotify"}
    /\ errno \in {"0", "EINTR", "EAGAIN"}
    /\ g_last_signal \in SigInfo
    /\ signals \in 0..MaxSignals
    /\ pending \subseteq SigInfo
    /\ reported \in Seq(SigInfo)
    /\ sig_fd \in {"none", "open", "-1"}
    /\ sig_info \in SigInfo
    /\ failures \in 0..MaxFailures

LEMMA Places4 ==
    /\ Programs \subseteq {"10-Inotify", "15.2-Termination10", "15.1-Sigaction",
                           "15.STAR-SigReader"}
    /\ Labels["10-Inotify"] = PollLoop
    /\ Labels["15.2-Termination10"] =
         PollLoop \cup {"check", "report", "term?", "quit?"}
    /\ Labels["15.1-Sigaction"] = {"pause", "report"}
    /\ Labels["15.STAR-SigReader"] = {"start", "read"}
    /\ Entry["15.STAR-SigReader"] = "start"
    BY WatcherAssumption DEF Labels, Entry, Handling, Watching

(* A step of a program that only moves within its main.                    *)
LEMMA Moves ==
    ASSUME TInv,
           UNCHANGED <<program, input, revents, errno, sigvars>>,
           Halted' \/ pc' \in Labels[program]
    PROVE  TInv'
    BY DEF TInv, input, sigvars, reader

LEMMA InitTInv == Init => TInv
<1> SUFFICES ASSUME Init PROVE TInv
    OBVIOUS
<1>1. pc \in Labels[program]
    BY Places4, Entries DEF Init, PollLoop
<1> QED
    BY <1>1, WatcherAssumption DEF Init, TInv, SigInfo, NoSignal

LEMMA LinesRead ==
    ASSUME TInv, (typed # <<>> /\ typed' \in {Tail(typed), <<>>}) \/ typed' = typed
    PROVE  typed' \in Seq(Firsts) /\ Len(typed') <= MaxLines
<1>1. typed \in Seq(Firsts) /\ Len(typed) \in Nat /\ Len(typed) <= MaxLines
    BY DEF TInv
<1>2. CASE typed' = typed
    BY <1>1, <1>2
<1>3. CASE typed' = <<>>
    BY <1>3, WatcherAssumption
<1>4. CASE typed # <<>> /\ typed' = Tail(typed)
    <2>1. Tail(typed) \in Seq(Firsts) /\ Len(Tail(typed)) = Len(typed) - 1
        BY <1>1, <1>4
    <2>2. Len(Tail(typed)) <= MaxLines
        BY <1>1, <2>1, WatcherAssumption
    <2> QED
        BY <1>4, <2>1, <2>2
<1> QED
    BY <1>2, <1>3, <1>4

LEMMA WatchTypes == ASSUME TInv, Watch PROVE TInv'
<1> USE Places4, Entries DEF PollLoop, Halted
<1>1. CASE Check
    BY <1>1, Moves DEF Check, TInv
<1>2. CASE Report
    <2>1. reported' \in Seq(SigInfo)
        BY <1>2 DEF Report, TInv
    <2>2. pc' \in Labels[program]
        BY <1>2 DEF Report, TInv
    <2> QED
        BY <1>2, <2>1, <2>2 DEF Report, TInv, input, reader
<1>3. CASE IsTerm
    <2>1. pc' = "stopped" \/ pc' \in Labels[program]
        BY <1>3 DEF IsTerm, TInv
    <2> QED
        BY <1>3, <2>1, Moves DEF IsTerm
<1>4. CASE IsQuit
    BY <1>4 DEF IsQuit, TInv, input, sigvars, reader
<1>5. CASE Poll
    <2>1. revents' \subseteq {"in", "inotify"}
        BY <1>5 DEF Poll, Ready, StdinReady, InotifyReady
    <2>2. pc' \in Labels[program]
        BY <1>5 DEF Poll, Loop, TInv
    <2> QED
        BY <1>5, <2>1, <2>2 DEF Poll, TInv, input, sigvars, reader
<1>6. CASE ReadStdin
    <2>1. typed' \in Seq(Firsts) /\ Len(typed') <= MaxLines
        BY <1>6, LinesRead DEF ReadStdin
    <2>2. pc' \in Labels[program]
        BY <1>6 DEF ReadStdin, AfterInput, Loop, TInv
    <2> QED
        BY <1>6, <2>1, <2>2 DEF ReadStdin, TInv, sigvars, reader
<1>7. CASE Answer
    <2>1. typed' \in Seq(Firsts) /\ Len(typed') <= MaxLines
        BY <1>7, LinesRead DEF Answer
    <2>2. pc' = "stopped" \/ pc' \in Labels[program]
        BY <1>7 DEF Answer, Loop, TInv
    <2> QED
        BY <1>7, <2>1, <2>2 DEF Answer, TInv, sigvars, reader
<1>8. CASE ReadEvents
    <2>1. pc' \in Labels[program] /\ errno' \in {"0", "EINTR", "EAGAIN"}
        BY <1>8 DEF ReadEvents, Loop, TInv
    <2> QED
        BY <1>8, <2>1 DEF ReadEvents, TInv, input, sigvars, reader
<1>9. CASE TestUnset
    BY <1>9 DEF TestUnset, TInv, input
<1>10. CASE ReadSignal
    <2>1. PICK s \in pending : /\ pending' = pending \ {s}
                               /\ sig_info' = s
                               /\ reported' = Append(reported, s)
                               /\ pc' \in {"stopped", "read"}
        BY <1>10 DEF ReadSignal
    <2>2. /\ reported' \in Seq(SigInfo) /\ pending' \subseteq SigInfo
          /\ sig_info' \in SigInfo
        BY <2>1 DEF TInv
    <2>3. pc' = "stopped" \/ pc' \in Labels[program]
        BY <1>10, <2>1 DEF ReadSignal, TInv
    <2> QED
        BY <1>10, <2>2, <2>3 DEF ReadSignal, TInv, input
<1> QED
    BY <1>1, <1>2, <1>3, <1>4, <1>5, <1>6, <1>7, <1>8, <1>9, <1>10 DEF Watch

LEMMA EnvironmentTypes == ASSUME TInv, Environment PROVE TInv'
<1> USE Places4 DEF Halted
<1>1. CASE CallFails
    BY <1>1, Moves DEF CallFails
<1>2. ASSUME NEW sig \in Sigs, Send(sig)
      PROVE  /\ signals' \in 0..MaxSignals /\ Arriving(sig) \in SigInfo
             /\ UNCHANGED <<program, input, revents, reported, reader>>
    BY <1>2, WatcherAssumption DEF Send, Arriving, SigInfo, TInv
<1>3. ASSUME NEW sig \in Sigs, DefaultAction(sig) PROVE TInv'
    BY <1>2, <1>3 DEF DefaultAction, TInv, input, reader
<1>4. ASSUME NEW sig \in Sigs, HandlerRuns(sig) PROVE TInv'
    BY <1>2, <1>4 DEF HandlerRuns, TInv, input, reader
<1>5. ASSUME NEW sig \in Sigs, Interrupts(sig) PROVE TInv'
    <2>1. pc' \in Labels[program]
        BY <1>5 DEF Interrupts, Handling, TInv, PollLoop
    <2> QED
        BY <1>2, <1>5, <2>1 DEF Interrupts, TInv, input, reader
<1>6. ASSUME NEW sig \in Sigs, StaysPending(sig) PROVE TInv'
    BY <1>2, <1>6, ZenonT(40) DEF StaysPending, TInv, input, reader
<1>7. ASSUME NEW first \in Firsts, Type(first) PROVE TInv'
    <2>1. typed' \in Seq(Firsts) /\ Len(typed') <= MaxLines
        BY <1>7, WatcherAssumption DEF Type, TInv
    <2> QED
        BY <1>7, <2>1 DEF Type, TInv, sigvars, reader
<1>8. CASE EndInput
    BY <1>8 DEF EndInput, TInv, sigvars, reader
<1>9. CASE Happen
    BY <1>9, Moves DEF Happen, TInv
<1>10. CASE ReadFails
    <2>1. reported' \in Seq(SigInfo) /\ failures' \in 0..MaxFailures
        BY <1>10, WatcherAssumption DEF ReadFails, TInv
    <2> QED
        BY <1>10, <2>1 DEF ReadFails, TInv, input
<1> QED
    BY <1>1, <1>3, <1>4, <1>5, <1>6, <1>7, <1>8, <1>9, <1>10 DEF Environment

(* Every variable keeps its type, every program stays in its own main, and *)
(* no inotify queue grows beyond its overflow event.                       *)
THEOREM TypeCorrect == Spec => []TypeOK
<1>1. TInv /\ [Next]_vars => TInv'
    <2> SUFFICES ASSUME TInv, [Next]_vars PROVE TInv'
        OBVIOUS
    <2>1. CASE UNCHANGED vars
        BY <2>1 DEF vars, TInv, Halted, input, sigvars, reader
    <2> QED
        BY <2>1, WatchTypes, EnvironmentTypes DEF Next
<1>2. EInv /\ TInv => TypeOK
    BY DEF EInv, TInv, TypeOK
<1> QED
    BY <1>1, <1>2, InitEInv, NextEInv, InitTInv, PTL DEF Spec
=============================================================================
