------------------------------ MODULE Watcher ------------------------------
(***************************************************************************)
(* The programs that wait for events of several kinds.  10-Inotify polls   *)
(* a directory's inotify descriptor and standard input; an empty line      *)
(* makes it ask whether to stop.  15.2-Termination10 is the same program   *)
(* with a handler for every signal and a look at errno before each poll.   *)
(* 15.1-Sigaction pauses until a signal and prints it; 15.STAR-SigReader   *)
(* blocks all signals and reads them from a signalfd.  15.STAR-SigSender   *)
(* sends.                                                                  *)
(*                                                                         *)
(* An event of the directory is its number; 0 stands for the overflow      *)
(* event of a full inotify queue.  A line of input is told apart by its    *)
(* first character, a signal by its number and the order of arrival.       *)
(***************************************************************************)
EXTENDS Naturals, Sequences

CONSTANTS
    Programs,     \* the programs of this instance
    Sigs,         \* signals that are sent
    MaxSignals,   \* bound of the signals sent
    MaxEvents,    \* bound of the events in the directory
    MaxQueued,    \* events that an inotify queue can hold
    MaxLines,     \* bound of the lines typed ahead
    MaxFailures   \* bound of the reads of SigReader that fail

Handling == {"15.1-Sigaction", "15.2-Termination10"}
Watching == {"10-Inotify", "15.2-Termination10"}

ASSUME WatcherAssumption ==
    /\ Programs \subseteq Handling \cup Watching \cup {"15.STAR-SigReader"}
    /\ "none" \notin Sigs
    /\ MaxSignals \in Nat /\ MaxEvents \in Nat /\ MaxLines \in Nat
    /\ MaxFailures \in Nat
    /\ MaxQueued \in Nat \ {0}

VARIABLES
    program,        \* which program runs
    pc,
    typed,          \* lines of standard input not yet read
    ended,          \* how standard input ended: "no", "hup" (a pipe), "eof"
    happened,       \* how many events the directory has had
    queue,          \* the inotify queue
    printed,        \* events that the program has printed
    revents,        \* what the last poll found
    errno,
    g_last_signal,  \* the signal that the handler saw last
    signals,        \* how many signals have been sent
    pending,        \* blocked signals that wait for signalfd
    reported,       \* signals that the program has printed
    sig_fd,         \* SigReader's descriptor: "none", "open" or "-1"
    sig_info,       \* what it has read last
    failures        \* how many of its reads have failed

input == <<typed, ended>>
events == <<happened, queue, printed>>
reader == <<sig_fd, sig_info, failures>>
sigvars == <<g_last_signal, signals, pending, reported, reader>>
vars == <<program, pc, input, events, revents, errno, sigvars>>

Firsts == {"newline", "yes", "other"}
SigInfo == [id : 0..MaxSignals, sig : Sigs \cup {"none"}]

\* No signal yet; for SigReader what an unset sig_info happens to hold.
NoSignal == [id |-> 0, sig |-> "none"]

\* The places of each main.
PollLoop == {"poll", "input", "answer", "events"}
Labels == [p \in Handling \cup Watching \cup {"15.STAR-SigReader"} |->
             CASE p = "10-Inotify" -> PollLoop
               [] p = "15.2-Termination10" ->
                    PollLoop \cup {"check", "report", "term?", "quit?"}
               [] p = "15.1-Sigaction" -> {"pause", "report"}
               [] OTHER -> {"start", "read"}]

Halted == pc \in {"stopped", "failed", "killed"}
Terminating == {"TERM", "QUIT"}

Entry == [p \in Handling \cup Watching \cup {"15.STAR-SigReader"} |->
            CASE p = "10-Inotify" -> "poll"
              [] p = "15.2-Termination10" -> "check"
              [] p = "15.1-Sigaction" -> "pause"
              [] OTHER -> "start"]

Init ==
    /\ program \in Programs
    /\ pc = Entry[program]
    /\ typed = <<>> /\ ended = "no"
    /\ happened = 0 /\ queue = <<>> /\ printed = <<>>
    /\ revents = {}
    /\ errno = "0"
    /\ g_last_signal = NoSignal
    /\ signals = 0 /\ pending = {} /\ reported = <<>>
    /\ sig_fd = "none" /\ sig_info = NoSignal /\ failures = 0

-----------------------------------------------------------------------------
(* The loop of the watchers.  15.2 comes back to "check", 10 to "poll".    *)

Loop == Entry[program]

\* Fault: errno keeps its value after the report.
IsQuitKeepsErrno ==
    /\ pc = "quit?"
    /\ pc' = IF g_last_signal.sig = "QUIT" THEN "stopped" ELSE "check"
    /\ UNCHANGED <<program, input, events, revents, errno, sigvars>>

\* Fault: SIGQUIT is not looked for.
IsQuitNever ==
    /\ pc = "quit?"
    /\ pc' = "check"
    /\ errno' = "0"
    /\ UNCHANGED <<program, input, events, revents, sigvars>>

\* if(errno == EINTR)
Check ==
    /\ pc = "check"
    /\ pc' = IF errno = "EINTR" THEN "report" ELSE "poll"
    /\ UNCHANGED <<program, input, events, revents, errno, sigvars>>

\* The printf of 15.1 and of 15.2; the handler may run before and after it.
Report ==
    /\ pc = "report"
    /\ reported' = Append(reported, g_last_signal)
    /\ pc' = IF program = "15.1-Sigaction" THEN "pause" ELSE "term?"
    /\ UNCHANGED <<program, input, events, revents, errno, g_last_signal,
                   signals, pending, reader>>

IsTerm ==
    /\ pc = "term?"
    /\ pc' = IF g_last_signal.sig = "TERM" THEN "stopped" ELSE "quit?"
    /\ UNCHANGED <<program, input, events, revents, errno, sigvars>>

IsQuit ==
    /\ pc = "quit?"
    /\ IF g_last_signal.sig = "QUIT"
         THEN pc' = "stopped" /\ UNCHANGED errno
         ELSE pc' = "check" /\ errno' = "0"
    /\ UNCHANGED <<program, input, events, revents, sigvars>>

\* What poll reports of standard input: a pipe without writers has POLLHUP
\* and no POLLIN, another file at its end has POLLIN for ever.
StdinReady ==
    IF typed # <<>> THEN {"in"}
    ELSE CASE ended = "no" -> {} [] ended = "hup" -> {"hup"} [] OTHER -> {"in"}

InotifyReady == IF queue # <<>> THEN {"inotify"} ELSE {}
Ready == StdinReady \cup InotifyReady

Poll ==
    /\ pc = "poll"
    /\ Ready # {}
    /\ revents' = Ready \ {"hup"}
    /\ pc' = IF "in" \in Ready THEN "input"
             ELSE IF "inotify" \in Ready THEN "events" ELSE Loop
    /\ UNCHANGED <<program, input, events, errno, sigvars>>

AfterInput == IF "inotify" \in revents THEN "events" ELSE Loop

\* Fault: what is in the directory waits until nothing is typed.
ReadStdinElse ==
    /\ pc = "input"
    /\ IF typed # <<>>
         THEN /\ typed' = Tail(typed)
              /\ pc' = IF Head(typed) = "newline" THEN "answer" ELSE Loop
         ELSE pc' = Loop /\ UNCHANGED typed
    /\ UNCHANGED <<program, ended, events, revents, errno, sigvars>>

\* The first read: one line from a terminal, all lines from a pipe, or
\* nothing (the end of the input, an error).
ReadStdin ==
    /\ pc = "input"
    /\ \/ /\ typed # <<>>
          /\ typed' \in {Tail(typed), <<>>}
          /\ pc' = IF Head(typed) = "newline" THEN "answer" ELSE AfterInput
       \/ pc' = AfterInput /\ UNCHANGED typed
    /\ UNCHANGED <<program, ended, events, revents, errno, sigvars>>

\* The second read waits for the answer.  SA_RESTART makes it wait on when a
\* signal comes; at the end of the input input_buf still holds the newline.
Answer ==
    /\ pc = "answer"
    /\ \/ /\ typed # <<>>
          /\ typed' \in {Tail(typed), <<>>}
          /\ pc' = IF Head(typed) = "yes" THEN "stopped" ELSE Loop
       \/ typed = <<>> /\ ended # "no" /\ pc' = Loop /\ UNCHANGED typed
    /\ UNCHANGED <<program, ended, events, revents, errno, sigvars>>

\* Fault: the loop over the buffer stops one event early.
ReadEventsShort ==
    /\ pc = "events"
    /\ IF queue = <<>>
         THEN /\ errno' = "EAGAIN" /\ pc' = Loop
              /\ UNCHANGED <<queue, printed>>
         ELSE \E n \in 1..Len(queue) :
                /\ printed' = printed \o SubSeq(queue, 1, IF n > 1 THEN n - 1 ELSE n)
                /\ queue' = SubSeq(queue, n + 1, Len(queue))
                /\ UNCHANGED <<errno, pc>>
    /\ UNCHANGED <<program, input, happened, revents, sigvars>>

\* handle_events: a buffer of events after the other until there are none.
ReadEvents ==
    /\ pc = "events"
    /\ IF queue = <<>>
         THEN /\ errno' = "EAGAIN" /\ pc' = Loop
              /\ UNCHANGED <<queue, printed>>
         ELSE \E n \in 1..Len(queue) :
                /\ printed' = printed \o SubSeq(queue, 1, n)
                /\ queue' = SubSeq(queue, n + 1, Len(queue))
                /\ UNCHANGED <<errno, pc>>
    /\ UNCHANGED <<program, input, happened, revents, sigvars>>

\* An error of poll, of the second read or of inotify's read ends main.
CallFails ==
    /\ pc \in {"poll", "answer", "events"}
    /\ pc' = "failed"
    /\ UNCHANGED <<program, input, events, revents, errno, sigvars>>

-----------------------------------------------------------------------------
(* 15.STAR-SigReader.                                                      *)

\* All signals are blocked.  Whether signalfd gave a descriptor is not looked
\* at; the loop first tests sig_info before anything has been read into it.
TestUnset ==
    /\ pc = "start"
    /\ sig_fd' \in {"open", "-1"}
    /\ pc' \in {"read", "stopped"}
    /\ UNCHANGED <<program, input, events, revents, errno, g_last_signal,
                   signals, pending, reported, sig_info, failures>>

\* Fault: all that is pending is dropped with the one that is read.
ReadSignalAll ==
    /\ pc = "read" /\ sig_fd = "open"
    /\ \E s \in pending :
         /\ pending' = {}
         /\ sig_info' = s
         /\ reported' = Append(reported, s)
         /\ pc' = IF s.sig \in Terminating THEN "stopped" ELSE "read"
    /\ UNCHANGED <<program, input, events, revents, errno, g_last_signal,
                   signals, sig_fd, failures>>

ReadSignal ==
    /\ pc = "read" /\ sig_fd = "open"
    /\ \E s \in pending :
         /\ pending' = pending \ {s}
         /\ sig_info' = s
         /\ reported' = Append(reported, s)
         /\ pc' = IF s.sig \in Terminating THEN "stopped" ELSE "read"
    /\ UNCHANGED <<program, input, events, revents, errno, g_last_signal,
                   signals, sig_fd, failures>>

\* A read that fails, as every read of -1 does: what sig_info holds is printed
\* again, and the loop goes on.
ReadFails ==
    /\ pc = "read"
    /\ failures < MaxFailures
    /\ failures' = failures + 1
    /\ reported' = Append(reported, sig_info)
    /\ UNCHANGED <<program, pc, input, events, revents, errno, g_last_signal,
                   signals, pending, sig_fd, sig_info>>

-----------------------------------------------------------------------------
(* Signals, input and the directory.                                       *)

Arriving(sig) == [id |-> signals + 1, sig |-> sig]

\* 15.STAR-SigSender: a name of its table becomes a number, sigqueue sends it.
Send(sig) ==
    /\ ~Halted
    /\ signals < MaxSignals
    /\ signals' = signals + 1
    /\ UNCHANGED <<program, input, events, revents, reported, reader>>

\* 10-Inotify has no handler.
DefaultAction(sig) ==
    /\ program = "10-Inotify"
    /\ Send(sig)
    /\ pc' = "killed"
    /\ UNCHANGED <<errno, g_last_signal, pending>>

\* sig_handler, between two calls or in a call that is restarted.
HandlerRuns(sig) ==
    /\ program \in Handling
    /\ Send(sig)
    /\ g_last_signal' = Arriving(sig)
    /\ UNCHANGED <<pc, errno, pending>>

\* sig_handler in a waiting poll or pause, which no SA_RESTART restarts.
Interrupts(sig) ==
    /\ program \in Handling
    /\ Send(sig)
    /\ \/ pc = "poll" /\ Ready = {} /\ pc' = "check"
       \/ pc = "pause" /\ pc' = "report"
    /\ errno' = "EINTR"
    /\ g_last_signal' = Arriving(sig)
    /\ UNCHANGED pending

\* A blocked signal waits; a second one of its number is lost.
StaysPending(sig) ==
    /\ program = "15.STAR-SigReader"
    /\ Send(sig)
    /\ pending' = IF \E s \in pending : s.sig = sig THEN pending
                  ELSE pending \cup {Arriving(sig)}
    /\ UNCHANGED <<pc, errno, g_last_signal>>

Type(first) ==
    /\ program \in Watching /\ ~Halted
    /\ ended = "no" /\ Len(typed) < MaxLines
    /\ typed' = Append(typed, first)
    /\ UNCHANGED <<program, pc, ended, events, revents, errno,
                   sigvars>>

EndInput ==
    /\ program \in Watching /\ ~Halted
    /\ ended = "no"
    /\ ended' \in {"hup", "eof"}
    /\ UNCHANGED <<program, pc, typed, events, revents,
                   errno, sigvars>>

\* inotify queues an event, or one overflow event when its queue is full.
Happen ==
    /\ program \in Watching /\ ~Halted
    /\ happened < MaxEvents
    /\ happened' = happened + 1
    /\ queue' = IF Len(queue) < MaxQueued THEN Append(queue, happened')
                ELSE IF \E i \in DOMAIN queue : queue[i] = 0 THEN queue
                ELSE Append(queue, 0)
    /\ UNCHANGED <<program, pc, input, printed, revents, errno, sigvars>>

-----------------------------------------------------------------------------

Watch == \/ Check \/ Report \/ IsTerm \/ IsQuit
         \/ Poll \/ ReadStdin \/ Answer \/ ReadEvents
         \/ TestUnset \/ ReadSignal

Environment ==
    \/ CallFails \/ ReadFails
    \/ \E sig \in Sigs : \/ DefaultAction(sig) \/ HandlerRuns(sig)
                         \/ Interrupts(sig) \/ StaysPending(sig)
    \/ \E first \in Firsts : Type(first)
    \/ EndInput
    \/ Happen

Next == Watch \/ Environment

Spec == Init /\ [][Next]_vars

\* The program runs on whenever it can.
FairSpec == Spec /\ WF_vars(Watch)

-----------------------------------------------------------------------------
(* Properties.                                                             *)

\* Every variable keeps to its values, and every program to its own loop (10-Inotify.c,
\* 15.2-Termination10.c, 15.1-Sigaction.c, 15.STAR-SigReader.c).
TypeOK ==
    /\ program \in Programs
    /\ Halted \/ pc \in Labels[program]
    /\ typed \in Seq(Firsts) /\ Len(typed) <= MaxLines
    /\ ended \in {"no", "hup", "eof"}
    /\ happened \in 0..MaxEvents
    /\ queue \in Seq(0..MaxEvents) /\ Len(queue) <= MaxQueued + 1
    /\ printed \in Seq(0..MaxEvents)
    /\ revents \subseteq {"in", "inotify"}
    /\ errno \in {"0", "EINTR", "EAGAIN"}
    /\ g_last_signal \in SigInfo
    /\ signals \in 0..MaxSignals
    /\ pending \subseteq SigInfo
    /\ reported \in Seq(SigInfo)
    /\ sig_fd \in {"none", "open", "-1"}
    /\ sig_info \in SigInfo
    /\ failures \in 0..MaxFailures

Seen == printed \o queue

\* handle_events loses no event of a buffer and prints none twice: what has
\* been printed and what is still queued are events of the directory in their
\* order, and one is missing only if an overflow event stands before its place.
EventsInOrder ==
    /\ \A i, j \in DOMAIN Seen :
         i < j /\ Seen[i] # 0 /\ Seen[j] # 0 => Seen[i] < Seen[j]
    /\ \A e \in 1..happened :
         \/ \E i \in DOMAIN Seen : Seen[i] = e
         \/ \E i \in DOMAIN Seen : Seen[i] = 0 /\ \A j \in 1..i : Seen[j] < e

\* The errno that an interrupted call left behind reports one signal only:
\* 15.1 and 15.2 never print a signal twice or an older one after a newer one.
ReportsInOrder ==
    program \in Handling =>
        \A i, j \in DOMAIN reported : i < j => reported[i].id < reported[j].id

\* No input, and no end of the input, keeps the directory's events from being
\* printed, unless the program stops or waits for its question's answer.
EventsPrinted ==
    \A e \in 1..MaxEvents :
        (\E i \in DOMAIN queue : queue[i] = e)
            ~> \/ \E i \in DOMAIN printed : printed[i] = e
               \/ Halted \/ pc = "answer"

\* A SIGTERM or SIGQUIT that 15.2's poll left EINTR for, or that comes before
\* the tests that follow, ends it, unless another signal takes its place in
\* g_last_signal.  (One that comes between the tests, or between them and the
\* next poll, is missed: its errno is set back or never set.)
SignalEnds ==
    \A i \in 1..MaxSignals :
        (/\ program = "15.2-Termination10" /\ errno = "EINTR"
         /\ pc \in {"check", "report"}
         /\ g_last_signal.id = i /\ g_last_signal.sig \in Terminating)
            ~> (Halted \/ g_last_signal.id # i)

\* 15.STAR-SigReader.c:24-38: with the descriptor that signalfd gave, every signal
\* that waits is printed, in whatever order the kernel hands them out and
\* whichever reads fail in between, or one that ends the loop has been read.  Of
\* a descriptor of -1 nothing is claimed: every read of it fails, for ever.
PendingReported ==
    \A i \in 1..MaxSignals :
        (sig_fd = "open" /\ \E s \in pending : s.id = i)
            ~> (Halted \/ \E k \in DOMAIN reported : reported[k].id = i)
=============================================================================
