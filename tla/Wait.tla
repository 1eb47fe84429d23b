-------------------------------- MODULE Wait --------------------------------
(***************************************************************************)
(* The programs of 13-Wait: one process watches another.  In 13.1-Wait.c   *)
(* the parent watches its child with waitpid; in 13.2-ptrace.c and         *)
(* 13.2-pidfd_open.c the child watches its parent.  Anybody may signal the *)
(* watched process at any moment.                                          *)
(*                                                                         *)
(* The kernel keeps one status of a process for waitpid, the latest.       *)
(***************************************************************************)
EXTENDS Naturals

VARIABLES
    program,    \* "waitpid", "ptrace" or "pidfd": which of the three it is
    subject,    \* the watched process
    status,     \* what waitpid has not been told yet
    watcher,    \* where the watching process is
    got,        \* its variable status
    line        \* the last line it has printed

vars == <<program, subject, status, watcher, got, line>>

None == "none"
Programs == {"waitpid", "ptrace", "pidfd"}
Ends     == {"exited", "killed"}
Dead     == {"zombie", "gone"}
Traced   == program = "ptrace" /\ watcher \in {"waiting", "report", "resume"}

Init ==
    /\ program \in Programs
    /\ subject = None /\ status = None /\ watcher = "fork"
    /\ got = None /\ line = None

Fork ==
    /\ watcher = "fork"
    /\ \/ watcher' = "failed" /\ UNCHANGED subject
       \/ /\ watcher' = IF program = "waitpid" THEN "waiting" ELSE "begin"
          /\ subject' = "running"
    /\ UNCHANGED <<program, status, got, line>>

-----------------------------------------------------------------------------
(* The loops of 13.1 and 13.2-ptrace.                                      *)

\* Refused for a dead process, and wherever ptrace is restricted.  A parent
\* that was stopped before is trapped from now on.
Seize ==
    /\ program = "ptrace" /\ watcher = "begin"
    /\ \/ watcher' = "failed" /\ UNCHANGED <<subject, status>>
       \/ /\ subject = "running" /\ UNCHANGED subject
          /\ watcher' = "waiting" /\ status' \in {status, None}
       \/ /\ subject = "stopped" /\ subject' = "trapped"
          /\ watcher' = "waiting" /\ status' = "stopped"
    /\ UNCHANGED <<program, got, line>>

\* Fault: without WCONTINUED.
WaitpidUntraced ==
    /\ watcher = "waiting" /\ status \notin {None, "continued"}
    /\ got' = status /\ status' = None
    /\ subject' = IF status \in Ends THEN "gone" ELSE subject
    /\ watcher' = "report"
    /\ UNCHANGED <<program, line>>

Waitpid ==
    /\ watcher = "waiting" /\ status # None
    /\ got' = status /\ status' = None
    /\ subject' = IF status \in Ends THEN "gone" ELSE subject
    /\ watcher' = "report"
    /\ UNCHANGED <<program, line>>

\* ECHILD: nobody is left to wait for.
WaitpidFails ==
    /\ watcher = "waiting" /\ subject = "gone"
    /\ watcher' = "failed"
    /\ UNCHANGED <<program, subject, status, got, line>>

\* Fault: WIFSIGNALED is forgotten, as in 13.2-ptrace.
ReportExitOnly ==
    /\ program = "waitpid" /\ watcher = "report"
    /\ line' = IF got = "killed" THEN line ELSE got
    /\ watcher' = IF got = "exited" THEN "done" ELSE "waiting"
    /\ UNCHANGED <<program, subject, status, got>>

Report ==
    /\ program = "waitpid" /\ watcher = "report"
    /\ line' = got
    /\ watcher' = IF got \in Ends THEN "done" ELSE "waiting"
    /\ UNCHANGED <<program, subject, status, got>>

ReportTraced ==
    /\ program = "ptrace" /\ watcher = "report"
    /\ line' = IF got \in {"exited", "stopped"} THEN got ELSE line
    /\ watcher' = CASE got = "exited"  -> "done"
                    [] got = "stopped" -> "resume"
                    [] OTHER           -> "waiting"
    /\ UNCHANGED <<program, subject, status, got>>

\* PTRACE_CONT with signal 0: the parent goes on as if nothing had come.  A
\* parent that has been killed meanwhile makes it fail, which nobody notices.
Resume ==
    /\ watcher = "resume"
    /\ subject' = IF subject = "trapped" THEN "running" ELSE subject
    /\ watcher' = "waiting"
    /\ UNCHANGED <<program, status, got, line>>

-----------------------------------------------------------------------------
(* 13.2-pidfd_open.                                                        *)

\* The result is not looked at, and poll leaves out the descriptor -1.
PidfdOpen ==
    /\ program = "pidfd" /\ watcher = "begin"
    /\ \/ subject # "gone" /\ watcher' = "poll"
       \/ watcher' = "polls nothing"
    /\ UNCHANGED <<program, subject, status, got, line>>

Poll ==
    /\ watcher = "poll" /\ subject \in Dead
    /\ line' = "exited" /\ watcher' = "done"
    /\ UNCHANGED <<program, subject, status, got>>

-----------------------------------------------------------------------------
(* The watched process and those who send it signals.                      *)
Turns(from, to, news) ==
    /\ subject \in from /\ subject' = to /\ status' = news
    /\ UNCHANGED <<program, watcher, got, line>>

Exit     == Turns({"running"}, "zombie", "exited")
Kill     == Turns({"running", "stopped", "trapped"}, "zombie", "killed")
Stop     == ~Traced /\ Turns({"running"}, "stopped", "stopped")
Continue == ~Traced /\ Turns({"stopped"}, "running", "continued")

\* Under ptrace every signal but SIGKILL stops the parent for its tracer.
Trap == Traced /\ Turns({"running"}, "trapped", "stopped")

\* The parent's own parent waits for it, unless a tracer comes first.
Reap == program # "waitpid" /\ ~Traced /\ Turns({"zombie"}, "gone", None)

Watch == \/ Seize \/ Waitpid \/ WaitpidFails \/ Report \/ ReportTraced
         \/ Resume \/ PidfdOpen \/ Poll

Next == \/ Fork \/ Watch
        \/ Exit \/ Kill \/ Stop \/ Continue \/ Trap \/ Reap

\* The watcher is scheduled.  Nobody has to end or to signal the other one.
Spec == Init /\ [][Next]_vars /\ WF_vars(Watch)

-----------------------------------------------------------------------------
(* 13.1-Wait.c:43-79, 13.2-ptrace.c:42-62, 13.2-pidfd_open.c:51-58: a      *)
(* watcher that has nothing to read has told how things are: its last line *)
(* is the child's state although waitpid skips states; a parent is not     *)
(* left in a trap; and who ends well has told of an end that was one.      *)
Current ==
    /\ watcher = "waiting" /\ ~ENABLED Watch =>
          /\ subject # "trapped"
          /\ program = "waitpid" =>
                (subject = "stopped") <=> (line = "stopped")
    /\ watcher = "done" => subject \in Dead /\ line \in Ends

(* The same lines: an end is noticed by a watcher that was watching.  13.1 *)
(* always ends well; ptrace only for a parent that was not killed; pidfd   *)
(* if the parent was there when it was opened.                             *)
EndNoticed ==
    /\ program = "waitpid" /\ subject \in Dead ~> watcher = "done"
    /\ Traced /\ status = "exited" ~> watcher = "done"
    /\ Traced /\ subject \in Dead ~> watcher \in {"done", "failed"}
    /\ watcher = "poll" /\ subject \in Dead ~> watcher = "done"
=============================================================================
