# TLA+ specifications of ComputerScience

The repository holds some forty small system programs, one directory per
subject: files and directories, processes, signals, message queues, threads,
shared memory, sockets.  Most of them matter here for what they do *together*:
several runs of one program, a server and its clients, threads, a program and
the signals it gets.  This directory models those, model-checks them with TLC
and proves the central facts with TLAPS.

Contents: [Inventory](#inventory) - [Modules](#modules) - [Runs](#runs) -
[Fairness](#fairness) - [Proofs](#proofs) - [Findings](#findings) -
[Not modelled](#not-modelled) - [Plan](#plan)

## Inventory

| Part | State | Operations | Interaction | What makes it correct |
|---|---|---|---|---|
| Shared clock: `20.1-Server.c`, `20.1-Client.c` | shared memory `/clock`, named semaphore `semaphore`, `g_last_signal`, `errno` | create/open, size, map, wait, write/print, post, sleep, unlink | any number of servers and clients; also `19.3-semaphores_2.c`, which uses the same semaphore name | one process between wait and post; the clock is not torn; no access to unsized memory; time does not go back; a signal ends the loop |
| Threaded sum: `19.1`, `19.2`, `19.3`, `19.6`, threads of `14-IntegrateThreads.c` | `total_sum`, mutex or semaphore, `points_ar` | create, integrate, lock, add, unlock, join | threads of one process | the sum is that of all contributing threads; nothing outlives main; main ends |
| Run counter: `11-Flock.c` | a file with a number | open, lock, read, add, write, unlock | concurrent runs on one file | no run is lost; the number fits its array |
| Message queues: `17-QueueReader.c`, `17-QueueSender.c`, `16-MsgQueue.c` | named queue, `g_last_signal`, `errno` | open, send, receive, getattr, unlink | readers, senders and demos share a name | own name only; messages in order and once; senders go on |
| File copies: `03.*`, `04`, `05`, `Library/util.c` | two descriptors, a block, offsets, attributes | read, write all, chown, chmod, utimens | the original may grow meanwhile | a copy is a prefix; success means complete |
| Directory copy: `07`, `copy_dir` | two trees of descriptors | recursion over entries | as above | success means every entry is there |
| Directory listings: `06.*` | a directory stream | read, print | changes of the directory | every entry once |
| Watchers: `10`, `15.2` | inotify and standard input, `errno`, last signal | poll, read, ask | user, file system, signals | events are printed; an answer or a signal ends it |
| Signals: `15.1`, `15.STAR` | last signal, or signalfd's queue | pause, read, print | any sender | every signal is reported |
| Waiting: `13.*` | child or parent status | waitpid, ptrace, pidfd | stop, continue, kill | the end of the other process is noticed |
| Compile and load: `14`, `18` | pipe, child, `tmp.so` | fork, exec, wait, dlopen | two runs share `tmp.so` | the loaded function is the run's own |
| Sockets: `21`, `22` | clients by address or descriptor | receive, relay, disconnect | any number of clients | every line reaches everybody else; one client cannot stop the server |
| Shared page, encryption: `20.0`, `20.2` | a mapped page or file | write, fork, wait | parent and child | the parent sees the child's value |
| Information: `01`, `02`, `08`, `09`, `12` | none that lasts | query and print | - | - |

Hard to test, and what the models are for: interleavings of processes that
share a *name* which others unlink and create again; signals that arrive
between two calls; processes killed inside a critical section; calls that
return short or fail; and sizes at a boundary.

## Modules

Every component has a specification, an `MC` module that gives its constants
values for TLC, and a `_proofs` module where theorems exist (`Copy` and
`Listing` share `Files_proofs`).  Every specification has one type invariant,
`TypeOK`.  Runs check those that say more than the types (`Copy`, `TcpRelay`,
`DirCopy`), and all of them are proved; that of `Listing` is part of its
inductive invariant, and `Wait` has so few places that its own would say nothing.

* **`Clock`** - shared clock.  A *name* is bound to a semaphore or a shared
  memory object, or to none; a process keeps the object it opened after the name
  has been unlinked.  The counters `pc` of servers, clients and the threads of
  `19.3-semaphores_2` step through the system calls of their mains, in the order
  of the code: `ServerShmOpen`, `ServerTruncate` (the failing `ftruncate`
  unlinks the name and *falls through* to `mmap`), `ServerSemOpen`,
  `CheckSignal`, `SemWait`, `ServerGetTime`, the copy (a begin and an end, so
  that a reader may come in between), `SemPost`, `SleepOver` and the clean-up;
  `ClientShmOpen`, `ClientSemOpen`, `ClientPrint`; `SummerOpen`, `ThreadEnter`,
  `ThreadLeave`, `SummerUnlink`. `Signal` sets `g_last_signal`; `errno` becomes
  EINTR only in an interrupted `sleep`, because `SA_RESTART` restarts
  `sem_wait`.  `Kill` is SIGKILL, or for a run of 19.3 any signal; whoever is
  killed between `sem_wait` and `sem_post`, or reads memory without a size
  there, is `lost` and never posts.  A process identifier is one run of a
  program; a restart is another identifier.
* **`ThreadedSum`** implements **`Accumulator`**.  A thread is a sequence of
  `Integrate`, `Lock`, `Load`, `Store`, `Unlock`, or an early return for an
  empty or a discontinuous subinterval; main creates, joins and reports.
  The sum is the *set* of contributions in it, which is what a lost update
  changes.  `points_ar` divides the points as main does.  `Accumulator` is
  the program with an atomic `+=`, which is what `19.4-atomic.c` and
  `19.6-OpenMP.c` have.
* **`Compile`** - the first half of `14-Integrate`, `14-IntegrateThreads` and
  `18-dlopen`, for any number of runs in one directory.  `PipeAndFork`,
  `Write` (`dprintf`, which waits while the pipe is full), `CloseWrite`, `Wait`,
  `Load` and `Plot` are main; `Child` the child up to `execlp`; `GccReads`,
  `GccCompiles` and `GccLinked` are gcc, which is external: it reads to the
  end of the pipe (nobody holds a write end any more), fails, or puts a new
  file under the name `tmp.so`.  A function is the run it was compiled for,
  and `links` is the history of the name.
* **`IntegrateThreads`** composes them: one run of `14-IntegrateThreads`
  compiles and loads (`Compile`) and then integrates with threads
  (`ThreadedSum`), among other runs.  Main stays in `calculate` until
  `ThreadedSum`'s main is gone.
* **`Wait`** - the three programs of directory 13; `program` says which.  The
  watched process is running, stopped, trapped by its tracer, a zombie or gone;
  the kernel keeps one status for `waitpid`, the latest.  `Seize`, `Waitpid`,
  `Report`, `ReportTraced`, `Resume` and `PidfdOpen`, `Poll` are the watchers,
  the failing and unchecked calls included; `Exit`, `Kill`, `Stop`, `Continue`,
  `Trap` and `Reap` are what happens to the watched process.
* **`Listing`** - the four listings of directory 06.  `Readdir` looks at `errno`
  after an entry that it got, as the code does, so that `StatFails` and `Nested`
  end loops; calls of `print_dir` that have not returned are frames on a stack.
  `Getdents`, `NextEntry` and `BatchDone` are `06.3`, whose `pos` is not set
  back: in its buffer are the entries behind `bufstart`, and `Offset` tells
  where in a directory each record ends.  Where `pos` is within a record,
  `PrintGarbage` prints what is there and goes on by any length, also by 0, so
  that the loop need not end; `MaxPrinted` bounds the lines.  The entries `.`
  and `..`, which are not printed, are left out with their records.  What a
  whole listing is, with the nested ones, is the function `From`; that its
  recursion ends (`TreeAssumption`) is what a tree of directories is.
* **`Flock`** implements **`RunCounter`**.  The file is its number and its
  length; `LengthAfter` is the length that earlier runs leave: a byte more
  each, because `pwrite` writes the whole of `number[]`, until `read` no longer
  sees all of it.  `lockf(F_ULOCK)` comes after a read and so releases the
  file from there on; the part before it stays locked until `close`.
* **`MQueue`** - the queues of directories 16 and 17 with readers, senders
  and runs of the demo on one name.  `Put` and `Take` are the queue's calls;
  an open queue outlives its name.
* **`Copy`** - one file.  A byte is its position in the original, so that a
  gap, a repeat or a byte from elsewhere shows in the copy.  The three
  programs differ in their offsets (`read`/`write` against
  `pread`/`pwrite`) and in `copying_all`'s attributes.
* **`DirCopy`** - `07.2-CopyDir` and `copy_dir`.  The file system is a function
  from paths to entries, so that the new directory may be empty, hold an older
  copy or lie inside the old one.  Calls of `copy_dir` that have not returned
  are frames on a stack; `ReadEntry` is `readdir` and `fstatat`, `CopyFile`,
  `Create` and `OpenDirs` are the cases of the switch, `EndOfDir` the `fchmod`,
  the return and the `closedir`s of the caller.  `MkdiratFails` is a `mkdirat`
  over something that exists which fails otherwise than with EEXIST: that counts
  as an error, and the copy goes on.  A null `DIR` is used at once and crashes.
  Where the new directory holds a link, `open` follows it: a file or a
  directory's entries then go elsewhere, which is outside the model (and taken
  to be outside both directories) and one step.  `CopyFile` either copies a file
  with its attributes or fails, which is what `Copy` shows of `copying_all`
  (`CompleteOnSuccess`, `AttributesOnSuccess`).
* **`Watcher`** - one module for the programs whose main waits for several
  things; `program` says which one runs, and each uses its part of the places
  `pc` may have.  `Poll`, `ReadStdin`, `Answer` and `ReadEvents` are the loop
  of `10-Inotify`; `Check`, `Report`, `IsTerm`, `IsQuit` are what
  `15.2-Termination10` adds, step by step, because `sig_handler` may change
  `g_last_signal` between them.  `HandlerRuns` is a handler between two calls
  or in a `read` that `SA_RESTART` restarts; `Interrupts` one in a waiting
  `poll` or `pause`.  `15.STAR-SigReader` has `TestUnset` (the loop's first test
  reads an uninitialised `sig_info`, so it may end at once, and the descriptor of
  `signalfd` may be -1, which nobody looks at), `ReadSignal` and `ReadFails`: a read
  that fails prints again what `sig_info` holds, and every read of -1 fails.
  `MaxFailures` bounds these reads, since for ever is what they go on; that
  `sigprocmask` itself fails is left out.
* **`TcpRelay`** - `tcp-server.py` and `tcp-client.py`.  The server takes a
  batch of events from `Poll` and works it off: `Accept`, `Handle`, `Readline`,
  `Forward` to one client after the other, `Forwarded`.  `sock` is what is in
  the kernel and makes `Poll` return; `buf` and `cbuf` are what the file
  objects of server and client have read ahead, of which `poll` knows nothing.
  `AfterWrite` is what Python's `TextIOWrapper.write` does to them: in 3.11 it
  resets the decoder and drops the text, so the model allows both.  `SendNothing`
  is the client at the end of its standard input: `readline` gives `''`, and
  writing it drops text all the same.  All sockets block: `Forward` waits for
  `Room` in those of the client that it writes to (`inbox`, of which `MaxInbox`
  lines fit), so that a client that does not read stops the server for all
  (`Blocked`), as does one that sends part of a line (`Waiting`).  Nothing makes a
  client read.  `PrintLine` is the client's `readline`, which waits in the same
  way for the end of a forwarded piece.  A client
  ends its connection in `Leave`; `Reset` is TCP's answer to data that come
  later.  Every disconnection is the state `crashed` (see Findings).  What a client
  sends has no such limit: text that it has not got through yet is taken for
  sent.

Operators marked *Fault* in a comment are altered forms of the code (a
dropped guard, a missing reset) that show what a property would catch; no
specification uses them.

## Runs

| Run | Instance | Question |
|---|---|---|
| `clock_two` | 2 servers, 1 client | exclusion for ever; tearing only between two generations of semaphores; no unsized read by a client with the memory's own semaphore; time that does not go back before an unlink; under any order of starts, failures, signals, kills and unlinks |
| `clock_live` | 1 server, 1 client, 1 run of 19.3 with 2 threads | an interrupted sleep ends its process; the semaphore comes back unless a holder was killed |
| `integrate` | 2 runs in one directory, one with 2 threads and up to 2 points; texts of 1 or 2 units through a pipe of 1 | no stale function, no deadlock of pipe and wait, atomic addition, a number, no use after return |
| `flock` | 3 runs, counts at the borders of the text's length and at INT_MAX | counter, exclusion, size of the number, and by how much the first run's is too small |
| `mqueue` | 2 readers, 1 sender, 1 demo, a queue of 2 | a queue of one's own, order, progress, signals; a demo waits only because of others |
| `watcher` | 4 programs, 3 events and a queue of 1, 2 signals, 2 lines typed ahead, 2 failing reads of `signalfd` | events in order and once, whatever the input does; signals in order and once in 15.1 and 15.2; an interrupting SIGTERM or SIGQUIT ends 15.2; what waits in an open `signalfd` is printed |
| `dircopy` | 6 entries in 2 levels, 7 file systems, 6 descriptors, 1 failing step, 1 vanishing entry | success means an equal tree; no failure means success |
| `copy_all` | originals of up to 5 bytes, blocks of 2 | prefix, completeness, attributes, termination |
| `wait` | the three programs, any number of signals | waiting watchers are up to date, ends are noticed by those that watch |
| `listing` | 4 programs, 4 directories in 3 levels, 2 of them longer than 06.3's buffer, 2 failing calls | a listing is a beginning of the whole; no failure means complete; of several batches the first is exact and the rest in order |
| `tcp_relay` | 2 clients, 3 lines or 2 and a piece of one, sockets for 1 and for 2 lines, end of input, both ends of a connection | one conversation for all, complete for those that never write; lines in order; the next line is passed on unless one client holds the server up |
| `tcp_disconnect` | 2 clients, 1 line | the server survives a disconnection: *violated* |

The bounds are small but reach every case the code tells apart: two servers are
enough for an unlink under a user's feet and a third name owner is symmetric to
the second; two threads give one with and one without the remainder of the
points, and either may fail or find a discontinuity (the theorems are for any
number); a text of two units fills a pipe of one; three runs let one wait while
another is killed; five bytes in blocks of two give whole blocks, a rest and a
write that stops in either half; three events through a queue of one give a
batch, an overflow and an event after it, and two signals a second one at every
place after the first; a file, a link and a nested read-only directory with a
file and a fifo reach every case of `copy_dir`'s switch on both levels.
`MaxFailures` is one because the question is whether a failure anywhere is
noticed at the top; two give the same answer on 5.1 million states.  `readdir`
is not in `Failing`: its error looks like the end of the directory and is never
noticed (below).  Three lines of two clients are what it takes to read one ahead
while the other client's is written to the same file object; with three clients
and two texts (two receivers in one `forward`) `tcp_relay`'s three invariants
hold as well, on 4.3 million states.  A socket for one line is full at the first
and one for two can hold a line to be read ahead, which are the two cases of
`MaxInbox`.  `MaxTime`, `MaxLength`, `MaxPoints`, `MaxPrinted`, `Watcher`'s
`MaxFailures` and the starting counts bound what would grow for ever; no safety
property depends on reaching them.  With a queue of two and seven events, which
first shows an event lost *behind* an overflow event, `EventsInOrder` holds as
well, as `NoEventLost` says of every number.  `Wait` has no constants at all:
its run visits every state the model has, so there is nothing left to prove of
its invariant.  In the later batches of `listing`'s directories `06.3` begins
once at a record and once within one, from where it may come to a record again;
and they give `06.4` a directory whose type only `fstatat` tells.

Deadlock is not checked where the programs really end, which is everywhere:
each configuration says so.

## Fairness

Only weak fairness is assumed: of every *started* process (`Clock`, `MQueue`,
`Copy`, `Watcher`, the watcher of `Wait`, main and the child of `Compile`, the
server of `TcpRelay`) and of every thread (`ThreadedSum`), because the operating
system schedules whatever can run.  Nothing is assumed about the environment:
starting a program, signals, kills, failing calls and a file's growth may or may
not happen, and a watched process may run for ever.  No strong fairness of locks
is used.  `ThreadedSum`'s lock is handed over finitely often; in `Clock` and
`MQueue` the properties speak of the semaphore or the queue, not of each process
that waits for it.  `Copy`'s `Ends` relies on `MaxLength`: the original stops
growing at last, and the reads of `signalfd` stop failing (`MaxFailures`),
without which `PendingReported` would rightly be false.  In `TcpRelay` no client
is fair: `NextLineRelayed` says what the server owes them, and excuses it where
one of them keeps it waiting for ever.

## Proofs

TLAPS checks these for every value of the constants.

| Module | Theorem | States |
|---|---|---|
| `Clock_proofs` | `TypeCorrect`, `Exclusion`, `NoTear`, `Sized`, `TimeForward` | `TypeOK`, `OneHolder`, `NoTornAccess`, `NoUnsizedRead`, `TimeNeverGoesBack` |
| `IntegrateThreads_proofs`, of `ThreadedSum` | `TypeCorrect`, `NoThreadLeft`, `NoNaN`, `Refinement` | `TypeOK`, `NoUseAfterReturn`, `NumberPrinted`, `ImplementsAtomic` |
| `IntegrateThreads_proofs`, of the whole program | `BuildTypes`, `FreshLibrary`, `SumInside`, `ProgramSum` | `TypeOK` of `Compile`, `NeverStale`, `Spec` of `ThreadedSum`, the three properties of the sum |
| `Flock_proofs` | `TypeCorrect`, `LockedInside`, `NoLostUpdate`, `NumberRoom` | `TypeOK`, `OnlyWhileLocked`, `ImplementsCounter`, `NumberFits` |
| `MQueue_proofs` | `OneReader`, `TypeCorrect`, `Starvation`, `Delivers` | `OwnName`, `TypeOK`, `StarvedByOthersOnly`, `NothingLost` |
| `Watcher_proofs` | `NoReportTwice`, `NoEventLost`, `TypeCorrect` | `ReportsInOrder`, `EventsInOrder`, `TypeOK` |
| `Files_proofs`, of `Copy` | `TypeCorrect`, `PrefixAlways`, `NoSilentTruncation`, `NoSilentAttributeLoss` | `TypeOK`, `AlwaysPrefix`, `CompleteOnSuccess`, `AttributesOnSuccess` |
| `Files_proofs`, of `Listing` | `ListInvariant`, `NoHolesInListings`, `CompleteListings` | `ListInv`, `NoHoles`, `CompleteUnlessFailed` |
| `DirCopy_proofs` | `TypeCorrect`, `EqualOnSuccess`, `NoErrorWithoutFailure` | `TypeOK`, `SuccessMeansEqual`, `NoFailureNoError` |
| `TcpRelay_proofs` | `TypeCorrect`, `Conversation`, `InOrderRead` | `TypeOK`, `OneConversation`, `ReadInOrder` |

* *Clock.*  `OneHolder` speaks of processes; what is inductive speaks of
  semaphore objects: the value of a semaphore and the processes that hold it
  add up to at most one, whichever name it has or had, because `sem_open`
  gives a *new* semaphore the value one and leaves an existing one alone.
  `NoTornAccess` follows for two processes with one semaphore, whatever has been
  unlinked; and until the first unlink there is only one, because everybody has
  opened the object of the name.  After it two generations of programs have two
  semaphores (19.3's runs unlink the clock's), and only these can tear the time.
  `NoUnsizedRead` speaks of clients whose semaphore was created by a server that
  maps the client's memory, and follows from the order of that server's calls:
  memory that anybody has a server's semaphore for is `sized`.
  `TimeForward` rests on `NoTornAccess`: a server that is about to copy its
  time is the only one in the section, so that the memory cannot have become
  newer since it asked for the time (`Timed`).
* *ThreadedSum.*  The invariant says who holds the lock, that a loaded value is
  still the total while the lock is held, and that the total is the set of
  contributions of those that have stored.  Each `Store` maps to `Add`,
  every other thread step to a stutter.  `NoNaN` needs that a thread's share of
  the points is not zero when there are as many points as threads.
* *IntegrateThreads.*  Every step of the composition is a step of `ThreadedSum`
  or leaves it alone (`SumInside`), so the three theorems about the sum hold of
  a run among others (`ProgramSum`).  `FreshLibrary` follows the history of the
  name: gcc's exit status 0 means that the run is in it, `tmp_so` is always its
  last entry, and so what a run loads after its own entry comes from that one or
  a later.
* *Flock.*  The lock's owner is the one run in the section, and what it has read
  is what is in the file.  `LockedInside` and `NoLostUpdate` assume
  `LockfResults = {0}`: with a failing `lockf`, whose result `11-Flock.c:45`
  does not look at, they are false.  `NumberRoom` assumes nothing of `lockf`:
  counts may then get lost, but the array is sized by the bytes that were read,
  and the file is never of one byte only and as long as its count has made it
  (`LInv`: `Grown`), which leaves room for a count that is one greater and for
  INT_MAX, whose successor wraps.  An empty file means that the count is 0
  (`Grown`), so that a run which reads nothing writes `1`, a newline and the
  zero byte to two bytes: the theorem says that it is too long by one, no more
  and no less.  That no count has more than ten digits (`FewDigits`) follows
  from `MaxInt` being an `int`.
* *MQueue.*  `O_EXCL` makes the creator the only owner of a queue for good.  The
  name is another matter: only its owner takes it away (`OwnersNamed`), unless
  it is a demo that had opened somebody else's queue, which unlinks whatever the
  name then stands for; `OneReader` holds of the queue in any case, and of the
  name until such a demo has ended.  `Starvation` keeps that the messages a demo
  still expects are in its queue or somebody else has it open: a `mq_send` only
  adds, and a `mq_receive` of another run is that of somebody else.  `Delivers`
  follows each message from the queue through the reader's hand to the terminal:
  what a reader has printed, holds and has in its queue, in this order, contains
  the messages of a sender each once and in the order they were sent
  (`Delivery`), because a reader's queue is new when it starts (`Fresh`) and
  nobody but the reader takes from it.
* *Watcher.*  Wherever `errno` is EINTR before the test, or 15.1 is about to
  print, the signal the handler saw last is newer than all that were printed;
  and in the poll loop `errno` is never EINTR, because the test set it back.
  `NoEventLost` joins what is printed and what is queued: `handle_events` moves
  events from one to the other (`Moved`, `MovedTogether`), and what happens is
  newer than both, or an overflow event that is already there stands for it.
* *Copy.*  The copy ends where the next byte comes from, and the block that is
  being written is the stretch of the original that begins at a known place
  (`Base`), which differs for `pread` because its offset moves only after the
  block is done.
* *Listing.*  The prover cannot do induction over the depth of a tree, and the
  proof does not need it.  `From` is a function, not an operator; of its
  recursion only one equation is used, which says what comes next at each place
  of a directory (`RestOfMore`, `RestOfNone`).  `TreeAssumption` states this
  equation, because that a recursive function satisfies its own definition is
  itself a fact by induction; TLC evaluates it for the instance's tree.  While no
  call has failed, what is printed, what is pending of the entry just read and
  what each call on the stack has still to print, the innermost first, make up
  the listing (`Planned`): reading an entry moves it from the third part to the
  second, printing from the second to the first, and a nested call takes the
  pending part onto the stack.  A call that failed leaves `errno` set for good;
  no entry is looked at any more (`Where`), so that what is printed stays the
  beginning it was.  `06.3` has one frame.  In its first
  batch `pos` is always where a record ends, and what is printed are the entries
  up to there (`During`); they stay at the beginning of what is printed ever after
  (`After`), and are all of it if the buffer took the whole directory.  In any
  batch a line of a record lies behind those before it, because `pos` never is
  before the end of a record that has been printed from this batch (`Past`),
  whatever lengths the garbage in between had; so they have increasing places in
  the directory (`Located`).  Nothing more is true of later batches: entries are
  skipped there, and bytes within a record are printed as if they were one.
* *DirCopy.*  `TypeCorrect` keeps that directories stay and that each frame's two
  directories are the entries its caller has opened.  The other two need to know
  where one is in the copy (`CInv`): the old tree only loses entries, and no
  directory (`OldTree`); a frame writes to where its old directory belongs
  (`Placed`), its listing has whatever is left (`Listed`), nothing has been done
  yet for the entries it has not seen (`Fresh`) nor to the permissions of the new
  directory (`Mode`), and unless it has met an error, all that is under the
  entries it has gone through is equal (`Through`).  What the innermost frame
  writes is under the entry that each outer one is at (`Levels`), so that it
  disturbs none of this.  At the end of a directory everything listed has been
  seen, and the permissions come last.  The new directory may lie in the old
  one: all this is said of the old directory's entries outside it (`Source`),
  which nothing that is written touches (`NotWritten`), and of what is left to be
  written, wherever it is.  `EqualOnSuccess` supposes that `readdir` does not
  fail, because `copy_dir` takes its failure for the end; `NoErrorWithoutFailure`
  supposes two descriptors for each level of the old tree and two for its root
  (`EnoughDescriptors`).  The attempts to prove them showed cases that the
  properties had not excluded and no instance had: an old directory inside the
  new one, a file or directory where the new tree holds a link, and an older copy
  inside the directory that is copied, whose files may have been copied when they
  are overwritten (the file system `Within` of `MCDirCopy`); the properties now
  claim nothing there.
* *TcpRelay.*  `InOrderRead` keeps that the numbers in what the server has
  relayed of a client, in its `buf` and in its `sock` are each sorted, before
  one another and among the lines typed, and all of them as long as nobody
  else's line has been relayed (`Order`): reading takes the next line, and
  writing to the file object may drop text but puts nothing before anything.
  `Conversation` is inductive with the types: what a client has printed, its
  `cbuf` and its `inbox` map to increasing places in the list of relayed lines
  that are due to it, one to one (`Embeds`), which sending extends
  (`EmbedsGrow`) and dropping text restricts (`EmbedsDrop`); the map of a client
  that has never written (`wrote`, which the empty text of an ended input counts
  for) reaches all of them.  That a text of whole lines begins with a first line
  needs the least number with a property (`Least`, from the well-foundedness of
  the natural numbers); the other lemmas are about cutting off and joining
  lines.

Model-checked only: the liveness properties (`Finishes`, `Ends`,
`TokenComesBack`, `SenderGoesOn`, `InterruptedCallExits`, `EventsPrinted`,
`SignalEnds`, `PendingReported`, `NextLineRelayed`, `EndNoticed`, and
`WaitingIsPrinted`), which are out of the prover's reach, and one invariant,
`Current`, which speaks of what is ENABLED; its module `Wait` has no constants,
so that TLC has visited every state it speaks of.

## Findings

* `tcp_disconnect`: `tcp-server.py:48` names a constant that does not exist, so
  that the first disconnection ends the server for everybody.

Found by the models as well, but against no statement of the repository:

* `11-Flock.c:66,72`: the very first run, and every run that finds the file empty,
  prints `1`, a newline and a zero byte to a `number[]` of two bytes, one byte
  beyond its end (`NumberFits`, `NumberRoom`).
* `06.3-Getdents.c:59`: `pos` is not set back, so that of a directory of several
  batches entries are missing and bytes within a record may be printed as an
  entry; where such bytes hold a length of 0 the program prints for ever
  (`PrintGarbage`; `NoHoles` and `CompleteUnlessFailed` state what is left).
* `tcp-server.py:39-40`: write and flush block, so that one client that does not
  read (stopped, or itself waiting in `sys.stdin.readline` or in the `readline` of a
  piece of a line) stops the server for all once its sockets are full (`Blocked`).
* `tcp-client.py:24-26`: at the end of standard input the client writes `''` in every
  round, without end, and each time its file object may drop lines that it has
  read ahead (`SendNothing`; the reason for `wrote` in `OneConversation`).
* `15.STAR-SigReader.c:24-38`: a failing `signalfd` or `read` is not acted upon; with a
  descriptor of -1 the loop prints an unset or old `sig_info` for ever
  (`ReadFails`; `PendingReported` is for a descriptor that is open).
* `20.1-Server.c:113` and `19.3-semaphores_2.c:208` unlink a semaphore that
  others use; the next generation of programs then shares memory with the last
  under another semaphore (`NoTornAccess`).

## Not modelled

`01`, `02`, `08`, `09` and `12` query and print; their state is in libraries and
the kernel.  The special files of `03.STAR` are one call each; the parent of
`20.0` reads the page only after it has waited for the child, and `20.2` is one
sequential pass.  `21` keeps a set of addresses that only grows.  The numerical
value of an integral, formats of dates and messages, and memory allocation are
left out of the models.  `19.5` does not exist.

Smaller things met while reading, of one call or one program each:
`20.1-Server.c:93` looks at the signal only if `errno` is EINTR, and a handler
that runs while the process is in `sem_wait` or between two calls leaves no
EINTR, so that a SIGTERM caught there does not end the server, whatever the
comment at `:92` says (`InterruptedCallExits` speaks of an interrupted sleep);
with fewer points than threads `19.1`, `19.2`, `19.3` and `14-IntegrateThreads`
print `nan` for a continuous function (`19.1-Mutex.c:47-64`; `NumberPrinted`
leaves such calls out); `14-Integrate.c:119` waits for ever when the child is
gone and the text is longer than the pipe, because main keeps its read end open
(`Stuck` in `Compile`), and two runs in one directory may load each other's
function; `06.4-Recursive6.2.c:25` and its like take the `errno` of an earlier
call for an error of `readdir`; `13.2-ptrace.c` misses a parent that was killed
and lets none of its signals through, and `13.2-pidfd_open.c:51` waits for ever
on a descriptor of -1; `12-ProcInfo.c:566` cannot restore capabilities that it
has dropped from its permitted set; `11-Flock.c:28` appends to a string that
`getpwuid` owns, and `:69` overflows an `int` long before the openings that
`:33` speaks of; `19.1-Mutex.c:201` throws away what a thread returns, so that a
sum without its discontinuous part has exit status 0; `17-QueueReader.c:51`
fails for ever once a reader was killed before it could unlink;
`17-QueueReader.c:14` keeps the last signal only; `Library/util.c:118` cuts long
link targets off; `03.STAR-Copy.c:47` truncates a file that is copied onto
itself; `15.STAR-SigSender.c:99` compares with null pointers for an unknown
name; `15.STAR-SigReader.c:28` reads `sig_info` before it is set;
`12-ProcInfo.c:543,566` and `18-dlopen.c:124` do not look at results;
`Library/util.c:218` takes an error of `readdir` for the end of the directory
and `:223` counts a failing `fstatat` as an unknown type, so that `copy_dir` of
a directory one may list but not search returns 0 for an empty copy; a copy into
a subdirectory of itself recurses until the descriptors run out and then uses a
null `DIR` (`:293`), and `07.2-CopyDir.c:55` returns 0 whatever happened;
`15.1-Sigaction.c:45` prints a number and a sender that may belong to two
signals; `15.1` and `15.2` always report an error for the signals that glibc
keeps (`15.2-Termination10.c:113`), so that a normal end has status -1; 15.2
misses a SIGTERM that comes between its tests and the next `poll`, as the clock
does; in `22`, lines that arrive together are passed on one per event, so that
the second waits until its client sends more (`tcp-server.py:31`,
`tcp-client.py:29`) and is lost if something is written to the same file object
first; part of a line keeps the server waiting in `readline` for everybody; data
that come with a reset are not read (`tcp-server.py:29`); a client spins when
the server has closed its connection (`tcp-client.py:28`); `11-Flock.c:45` goes
on without a lock when `lockf` fails.

## Plan

Left, in this order:

1. The chat of `21`: datagrams lost and reordered, and a server that never
   forgets a client.
2. `12-ProcInfo`: which capabilities it has after each of its queries.
