# Formal models of the USP programs

TLA+ models, TLC runs and TLAPS proofs for the C programs of *Unix Systems
Programming* (chapters 1-22, appendices B-D). The programs are small, but most
of them are about what is hard to test: threads around a bounded buffer,
processes that race to initialise shared memory, calls cut short by signals,
descriptors on which several things happen at once.

    tlc -workers 2 -config MCCondBuffer_safety.cfg MCCondBuffer
    tlc -workers 2 -config MCThreads.cfg MCThreads
    tlapm PcMainProofs.tla

`PROJECT.json` lists the components, the runs with their properties, mutants of
every property (plausible bugs that break it), the source lines behind each
definition, the hazards of the code and the theorems.

## 1. Inventory

The programs share no common state; each group below is a system of its own.
The *same* library files recur in many chapters (`restart.c` has fourteen copies,
`uici.c` several); one copy is taken as the reference.

| Part | State it keeps | Operations | Interaction | What is hard | What makes it correct | Module |
|---|---|---|---|---|---|---|
| Buffer with condition variables, `chapter16/bufferconddone.c` | ring, `bufin`, `bufout`, `totalitems`, `doneflag`, `bufferlock`, two conditions | `getitem`, `putitem`, `getdone`, `setdone` | any number of threads | lost, stolen and spurious wakeups; done racing with puts; every call may fail | a FIFO queue; no wakeup lost; `ECANCELED` only when drained; `setdone` releases all | CondBuffer |
| Programs on it, `randpcdone.c`, `randpcsig.c` | first error, sum and count | producer and consumer loops, main, signal thread | buffer calls, joins, `sigwait` | shutdown at any moment; a thread that fails early | nothing printed that misses an item; the program ends | PcMain |
| Buffer with semaphores, `buffersem.c` | ring, `semitems`, `semslots`, `bufferlock`, `initdone` | `getitem`, `putitem`, lazy initialisation | threads | racing first callers; a permit taken and then a failing mutex | permits never exceed items or slots; FIFO | SemBuffer |
| Other buffers of chapter 16, under `randpcforever.c` | ring, mutex, or semaphores | `getitem`, `putitem`, three initialisers | threads until main returns | initialisation by several callers; `bufferbad.c` has no test | FIFO; no sleeper beside an item | BufferVariants |
| List object, `chapter13/listlib*.c` | list, `travptrs` (key table) | `accessdata`, `adddata`, `getdata`, `freekey` | threads, through a mutex or a read-write lock | `getdata` writes under a read lock; the table is reallocated | keys exclusive; traversals complete; no conflicting accesses | ListThreads |
| Thread objects, chapter 13 | barrier count, counter, once flags, signal mask | `waitbarrier`, `increment`, `printinit*`, `strerror_r` | threads and a signal handler | failing waits; a handler that needs the mutex it interrupted | nobody passes early; no count lost; one initialisation; no self-deadlock | ThreadObjects |
| `computethread` with both mains, chapter 13 | sum, done flag, first error | compute loop, main, signal thread | threads, `sigwait` | signal thread that gives up; failing locks | results are of complete runs | ComputeThreads |
| Threads and descriptors, chapter 12 | parameter of each thread, descriptor table | create, open, copy, join | main and its threads | a pointer to main's loop counter; descriptor numbers used again | no thread touches another's descriptor; totals exact | DescriptorThreads |
| Sum in shared memory, `chapter15/sharedmemsum.c`, `initsemset.c` | segment with count, sum; a semaphore with a ready flag | `initshared`, `add`, `getcountandsum` | processes started at any time | creators of segment and semaphore may differ; a process is killed | mutual exclusion; no addition lost | SharedMemSum |
| Other IPC, chapter 15 | message queue, shared totals, semaphore set | `msgwrite`, `msgqueuesave`, `monitorshared`, `showshared`, `initsemset` | processes | queue removed between two sends; child killed; creator killed | each writer's messages in order; totals of both children; a semaphore is set before it is used | IpcPrograms |
| POSIX semaphores, chapter 14 | named, shared or copied semaphores, barrier counts | `getnamed`, `destroynamed`, critical sections, `waitbarrier` | processes or threads | unlink between two opens; copies after fork | exclusion; no increment lost | NamedSemaphores |
| Restart library, `appendixB/restart.c`, `readtimed1.c` | none between calls | restarted calls, `readblock`, `readline`, `copyfile`, `waitfdtimed` | pipes, signals, clock | short counts, EINTR, time arithmetic | no byte lost or doubled; deadlines kept | RestartIO, TimedWait |
| Monitors, chapter 4 | descriptor set, counters | `monitorselect`, `monitorpoll`, `copy2files`, `whichisready`, `process_or_do_work` | writers at the other ends | data and ends of file arriving during a scan | counters agree with descriptors; no read blocks | Monitors |
| Files, pipes, FIFOs shared by fork; chapters 3, 4, 6, 11 | descriptor tables, open file descriptions, contents, stdio buffers | open, fork, exec, dup2, pipe, wait, the sequence-number server | parent and children, client and server | who holds which end; failing and killed processes; a reply left for somebody else | no line lost that must not be; executed programs get only their descriptors; numbers given once | Descriptors, DescriptorPrograms |
| Chains, fans, rings; chapters 3, 6, 7, 15 | pipe ends, who waits for whom | fork, dup2, close, wait, semaphore set | parent and child | failing fork; broken chains of waits | order of ends; the ring is closed | ProcessTree |
| Shells, chapter 11 | signal handling, process groups, children | prompt, fork, jump, wait | terminal, children | ^C between fork and the child's own handling; jumps out of a wait | one shell; prompt after the command; zombies bounded | Shells |
| Loggers, appendix D | list of entries; pipe, child, identifiers of each logger | `atomic_log_*`, `lopen`, `lprintf`, `lclose` | processes, threads, one file or connection | interleaved and short writes; a child inherits pipes | entries whole and in order; connections closed | Loggers, RemoteLog |
| NTPVM packets, chapter 17 | packet header | `getpacket`, `putpacket`, `a2ts`, `ts2a`, `ts2log` | pipe | short reads; a packet in two writes | packets whole or refused; shown in order | RestartIO, PacketTools |
| UICI and servers, appendix C, chapter 18 | listening and communication descriptors, children | `u_open`, `u_accept`, `u_connect`, fork per connection | TCP | interrupted connect; failing fork | no descriptor leaks; a client is left only when it has ended; every byte comes back | Uici, Sockets |
| Host names, chapter 18 | the library's static storage | `name2addr`, `addr2name` in four versions, `u_accept_r1/2` | threads | another lookup before the copy | each caller gets its own name | HostNames |
| UDP, multicast, chapter 20 | outstanding request, retries, group membership | `request_reply*`, `u_sendto`, `u_recvfrom*`, `u_join`, `u_leave` | lossy network | late, duplicated, foreign datagrams | the reply belongs to the request; sockets closed | RequestReply, Sockets |
| Waiting for signals, chapter 8 | flags set by handlers | `notifyonoff`, `simplesuspend`, 16 small programs | handlers between any two steps | signal between test and suspend; modes of a terminal left behind | no signal missed; nothing harmed | SignalWait, SignalPrograms |
| Asynchronous I/O, chapter 8 | control blocks, totals | `initmonitor`, `getbytes`, polls and suspends | completion signals | handler between any two steps | totals exact; everything shown once | AsyncMonitor |
| Timers, chapter 9 | handler tables, exit flag | `abs_setup`, `abs_start`, the timer handler | signals | last timer between test and `sigsuspend` | the program ends | Timers, SignalPrograms |
| Strings, lists, logs, chapter 2 | strtok's static place, argument arrays, a count | `makeargv`, `wordaverage*`, `bubblesort`, `keeplog` | none | hidden state between calls; ownership of memory | tokens exact; nothing leaks; history complete | TextTools |
| Programs of chapters 1, 5, 10, 22 | local | library calls and output | none | - | - | - |

## 2. Modules

    BoundedQueue <= CondBuffer <= PcMain                     MCCondBuffer, MCPcMain
    BoundedQueue <= SemBuffer                                MCSemBuffer
    ListThreads, DescriptorThreads, ThreadObjects,           MCThreads
      ComputeThreads, BufferVariants, HostNames, TextTools
    SignalWait, AsyncMonitor, Timers, ProcessTree,           MCProcesses
      SharedMemSum, Shells, IpcPrograms, NamedSemaphores,
      SignalPrograms
    RestartIO, TimedWait, Loggers, Monitors, RequestReply,   MCDescriptorIO
      Uici, RemoteLog, PacketTools
    DescriptorPrograms <- Descriptors; Sockets               MCFiles

    BufferLemmas <- CondBufferProofs <- PcMainProofs         (TLAPS)
    BufferLemmas <- SemaphoreProofs       SemBuffer, NamedSemaphores
    BufferLemmas <- ThreadProofs          ListThreads, BufferVariants, DescriptorThreads,
                                          ThreadObjects, ComputeThreads, HostNames, TextTools
    ProcessProofs       SharedMemSum, Timers, ProcessTree, AsyncMonitor, Shells,
                        IpcPrograms, SignalWait, SignalPrograms
    DescriptorProofs    TimedWait, RequestReply, Monitors, Uici, RemoteLog,
                        Loggers, RestartIO, PacketTools
    SocketsProofs       Sockets

In all of them a C function is a sequence of actions, one per call that may
block, fail or be seen by somebody else; the position of a thread or process is
`pc` (`mpc`, `spc`, `wpc`, ...). A constant or a variable fixed at the start
(`Disturbances`, `Faults`, `failures`, `iofaults`, ...), or a number of mishaps
still allowed (`MaxMishaps`, `MaxErrors`, `LogFaults`), says which library calls
may fail; a failing call takes the path the code takes for it, down to what is
left locked. Definitions whose comment starts with *Mutant* are not part of any
specification: they are the bugs PROJECT.json substitutes.

The last four compositions (**MCThreads**, **MCProcesses**, **MCDescriptorIO**,
**MCFiles**) choose one module for a behaviour (`program`) and let only that one
step. The programs do not interact; they share a run because their questions
are of the same kind, and the modules that do interact are composed inside
(CondBuffer with its threads, Uici with server and clients, and so on).

### Threads

**BoundedQueue** is what a bounded buffer promises: items leave in the order
they came, at most `Capacity` are inside, none enters once it is closed, and
each client that takes one holds exactly that one.

**CondBuffer** models `bufferconddone.c` whole. `lock` is `bufferlock`;
the threads blocked on `items` and `slots` are those with `pc = "wait"` in a
`getitem` or a `putitem`. `GetTest`/`PutTest` are the loop conditions,
`CondWait` releases the mutex and blocks in one step, `Relock` is the way back
into the loop, `GetXfer`/`PutXfer` the ring operations, `GetSignal`/`PutSignal`
`pthread_cond_signal` to one arbitrary sleeper, `SetdoneItems`/`SetdoneSlots`
the broadcasts. `Disturbances` holds the calls that may fail, and `"spurious"`.
When the unlock fails the mutex stays locked, as in the code.

**PcMain** composes the buffer with the thread functions of
`randproducerdone.c` and `randconsumerdone.c`, with `seterror`, `add`,
`showresults`, and with both mains: `randpcdone.c` (sleep, then `setdone`) and
`randpcsig.c` (a thread in `sigwait`). The critical sections of
`globalerror.c` and `sharedsum.c` are single steps: nothing in them blocks and
their mutexes protect nothing else. The count grows forever, so the model keeps
its distance (`unsummed`) from the number of successful puts.

**SemBuffer** models `buffersem.c`: the semaphores created by the first
caller through `pthread_once`, the permit, the mutex, the transfer and the post
as separate steps. An error of the initialisation is ignored by `getitem` and
`putitem`, so they go on with semaphores that were never initialised.

**BufferVariants** has the other four buffers and the three ways to initialise
the semaphores (`variant`), as `randpcforever.c` uses them: a main that shows
the results twice and then ends every thread wherever it is.

**ListThreads** models `listlib.c` behind `listlib_r.c` or `listlibrw_r.c`;
`ReadLocked` says which. Clients obey the interface (a key is used by one
thread and not after its end). The slots that `realloc` adds hold `Junk`.

**ThreadObjects** has the barrier, the counter, the print-once functions and
`strerror_r`, one per behaviour (`object`). A thread has a *stack* of program
counters, so that a signal handler that calls `perror_r` runs on top of what it
interrupts, which is what the blocking of signals in `strerror_r.c` is for.

**ComputeThreads** is `computethread.c` under both mains; `sum` and `count` are
written one after the other inside `add`.

**DescriptorThreads** reads each program of chapter 12 as a record of the
choices its source makes (what main passes, who opens, who closes, who frees);
the actions create, open, copy and join accordingly over one table of
descriptors.

**HostNames** is the lookup of a name, its static result and the copy, with
nothing, a mutex, `_r` functions or POSIX calls around it (`version`), for the
four `uiciname.c` and the two re-entrant `u_accept`s.

**TextTools** is sequential: `strtok` by what it does (the token, where the next
search starts, the NUL it writes), the callers with the one static place or one
place each, `makeargv` with its two blocks of memory, the sort with its counter,
and `keeplog` with its list. Inputs are all strings and arrays up to a length.

### Processes and signals

**SharedMemSum** models `sharedmemsum.c` with `initsemset.c`. The loads and
stores of `add` are separate steps, for the zeros that the creator of the
segment stores are not protected by the semaphore and fall between them.

**IpcPrograms** has message queue, `monitorshared`, `showshared` and
`initsemset` by itself, where the creator may fail or be killed.

**NamedSemaphores** writes each program of chapter 14 as the sequence of its
calls, and its members as forked processes or threads; `sem` says whether they
reach the same semaphore. `stale` is what an earlier run may have left.

**SignalWait** is `notifyonoff.c` and `simplesuspend.c` (`sigkind`). A signal is
in `pending` until its handler runs, between any two steps unless `blocked`;
only `sigsuspend` (`npc` `suspend`, `woken`) opens the mask. Before
`initsuspend` and after `restore` the signal kills the program.

**SignalPrograms** gives the small programs of chapters 6, 8 and 9 as scripts of
calls (`Programs`), and delivers signals between any two of them by handler,
mask or default action; `world` is what the program changes (FIFOs, echo, timer,
child).

**AsyncMonitor** is `asyncmonitorsignal.c` with its mains. The handler is one
action: main cannot run meanwhile, and the read that the handler starts last can
complete only afterwards. The signals queue, and anybody may send them too
(`StraySignal`), which is what the handler's `EINPROGRESS` test is for. A second
`aio_return` for one read, which POSIX leaves open, gives the same status here.
The display of several inputs that polls or suspends, `asyncmonitorpoll.c` and
`asyncmonitorsuspend.c`, is at its end.

**Timers** is `abstime.c` with `timehandler`, with a relative or an absolute timer, and
the periodic message. There is no clock: a timer expires at any moment, which
covers every delay. `call` is the point between the test of `exitflag` and the
inside of `sigsuspend`.

**ProcessTree** has the chains and fans of processes that wait for each other
(`treekind`): by `wait`, by a semaphore set that the first process removes, and
by characters in a pipe. At its end are the processes of `ring.c`, each with its
descriptor table.

**Shells** is the seven main loops as sequences of steps (block, ignore, prompt,
fork, jump point, wait, ...); ^C reaches the shell and its children at any step.
What a child does with its descriptors is in DescriptorPrograms.

### Descriptors and networks

**DescriptorPrograms** writes 35 programs as scripts of calls, and
**Descriptors** carries them out: descriptor tables that fork copies, open file
descriptions it shares, contents of files, pipes, FIFOs and stdio buffers, waits,
exec. Any call may fail and any process be killed, `MaxMishaps` times.

**Sockets** does the same for the programs of chapters 18 and 20, whose calls
are routines (`u_open`, `u_accept`, `u_openudp`, ...): which
descriptors each leaves open on each of its error paths, what a client may
conclude from a datagram, how members leave a group. A main program is a function
from names of steps to steps (the call, the descriptor, where it goes on and where when
it fails), put together with `++` from its own steps and those of the routines it
calls, which are told where their caller goes on. `Peers` is `1..NumPeers`.

**RestartIO** is a pipeline of three processes (`putpacket` or lines through
`r_write`; `copyfile`; `getpacket` through `readblock`, or `readline`) over two
pipes of a few bytes. Every read and write moves any number of bytes it may. A
byte is `<<message, position>>`, so that loss, duplication and reordering show.

**TimedWait** is `readtimed` with `waitfdtimed`, `gettimeout` and
`add2currenttime`, and the older one of `readtimed1.c` with `fixtimeout`
(`timedkind`), on a clock of microseconds with `Million` to the second, so
that every carry and borrow of the two fields happens in a few instants. Time
passes between any two steps, signals interrupt `select` at will, and another
process may take the data first.

**Loggers** has processes that log concurrently through `atomic_logger.c`
(list, one `O_APPEND` write) and `rlogging.c` (one write of at most `PIPE_BUF`
into the pipe, the child of `lopen` behind it; or the direct write when
`go_through_pipe` failed). **RemoteLog** has the calls of `rlogging.c` by
threads: identifiers, generators, times, lost connections. `pipe`, `fork` and the
closes of `go_through_pipe` are steps of their own, for a child inherits whatever ends
other threads have open at that moment. When two threads have both made their pipes
before either forks, each child keeps the other's write end (`Entangled`), and neither
sees the end of its own pipe.

**Monitors** is the loop of `monitorselect`, `monitorpoll`, `copy2files` and
`whichisreadytest` descriptor by descriptor, with writers that write and close
during the scan, and the non-blocking loop of `process_or_do_work`.
`poll` may report a hang-up without data. Arguments are valid descriptors (the
range checks at the top return before anything happens).

**PacketTools** is `a2ts`, which writes header and data separately, against `ts2a`,
which reads the data once, or `ts2log`, which reads it with `readblock`. The `buf` of
`ts2log` is an uninitialised array that nothing terminates: the bytes found in it
(`stack`) are any, and what is logged goes up to the first zero among them (`Logged`):
the packet, what longer packets have left, and what was on the stack. When there is no
zero left in `buf` the code reads on behind it; then all of `buf` or nothing is logged, and
what comes from behind is left out. So is what a `%` would do in the text, which is also
the format, and an `lopen` that fails (`ts2log.c:22` goes on with NULL).

**RequestReply** has the three protocols of chapter 20 on one socket (`rrkind`),
with the echoing server. The network is two counters per request, how many
copies of it and of its reply are under way: any of them may arrive next, be
lost, or be duplicated, and strangers send too. `u_recvfromtimed` is one step
here; its clock is TimedWait. `tries` and `executed` are ghosts.

**Uici** is `u_open`, `u_accept` and `u_connect` with `server.c` or `serverp.c`
(`ukind`) and one `client.c` per member of `Clients`. `link` is what TCP
thinks of a connection, `client` where its client is in `u_connect` or after
it, `holders` which processes have the server's end open. A signal may
interrupt any `connect`. Bytes are counted only; that copying keeps them is
RestartIO's subject. At its end is `reflectclient.c` against `reflectserver.c`:
a client that writes everything before it reads anything, through a connection
of limited room.

## 3. Runs

| Run | Instance | What it shows |
|---|---|---|
| `cb_safety` | 3 threads, 2 items, 2 slots, everything may fail | `RingConsistent`, `TestStillHolds`, `DrainedWhenCanceled`; the buffer implements `BoundedQueue` (`RefinesQueue`) |
| `cb_live` | 3 threads, 1 item, 2 slots, all failures but those of signal and broadcast | `NoLostWakeup` (each item has a getter awake or a signal for it while one sleeps, each slot a putter), and `DoneWakesAll` under fairness |
| `pc_safety` | 2 producers, 1 consumer, main, signal thread, 1 slot, everything but the lock of `seterror` may fail | `ResultsAreComplete`: results are printed only when every item put has been summed |
| `pc_live` | 1 producer, 2 consumers, main, signal thread, 1 slot | `ProgramEnds`, although signals and broadcasts may fail |
| `sem` | 3 threads, 2 items, 2 slots; no failure, all, all but `pthread_once` | `PermitsAreBacked` (permits never exceed what they stand for, and nobody waits on a semaphore before its initialisation), `RefinesQueue` |
| `shm_erase` (SharedMemSum) | 3 processes, 2 adds each, no failure | finding: `AddsArePermanent` is violated |
| `list_grow` (ListThreads) | 4 threads, table of 2 growing to 8 | finding: `GrowsOnlyWhenFull` is violated |
| `connect` | the servers and two clients of `io` | finding: `ConnectReportsFailure` is violated |
| `io` | MCDescriptorIO, 9 programs | `MessagesWhole`, `DeadlineKept`, `EntriesWhole`, `MonitorAgrees`, `AnswersMatch`, `ConnectionsOwned`, `EchoExact`, `RemoteEntries`, `PacketsShown`, `IoEnds` |
| `processes` | MCProcesses, 11 programs | `SignalsKept`, `CopiesExact`, `TimerGoesOn`, `RelativesInOrder`, `SumIsGuarded`, `ShellWaits`, `MessagesInOrder`, `SemaphoresGuard`, `ProcessesEnd` |
| `threads` | MCThreads, 7 programs | `TraversalIsComplete` (with the exclusiveness of keys and of access), `DescriptorsKept`, `ObjectsAgree`, `VariantIsFifo`, `NamesAndTexts`, `ThreadsEnd` |
| `files` | MCFiles, 35 scripts and the programs of Sockets | `FilesHold`, `ProcessesServed`, `SocketsClosed`, `StatusTells`, `FilesEnd` |

A property that begins with the name of its program (`sg = ...`, `script = ...`)
states for each program what *it* promises. Some state what the code does *not*
promise, because its text says so: `bufferbad.c` is no FIFO (`VariantIsFifo`
leaves it out), `wordaveragebad.c` counts the first line only, threads of
`badparameters.c` may get a later index, `asyncmonitorsuspend.c` shows the first
block of a regular file again and again, nobody passes the barrier of forked
processes of `sbarrierold.c`.

### Bounds, and why they are enough

* *Buffer.* Two slots separate full, empty and in between, and make the indexes
  wrap out of step; three threads give two that compete for a wakeup and one
  that gives it. A lost wakeup needs two sleepers, or a sleeper and a thief.
* *Programs.* One slot lets a producer block after every item. `pc_safety`
  needs two producers (one may finish while the other is still inside
  `putitem`), `pc_live` two consumers (one may take the wakeup of the other).
  In `pc_live` no spurious wakeup helps, and lock, wait and unlock do not fail:
  the code leaves the mutex locked when the unlock fails, and then nobody ends.
* *Failures.* In the buffers each failing call may fail at every opportunity, not
  once. `pc_safety` leaves out the lock of `seterror`: when that fails the error is
  lost (`seterror` returns without recording it and its callers ignore that),
  and the program prints results as if nothing had failed. In `files`, and for the
  remote loggers, one thing goes wrong in a behaviour, anywhere (`MaxMishaps`,
  `MaxErrors`, `LogFaults` 1): each error path of each program is taken, from every
  state.
* *io.* Two lists of messages, among them an empty packet and one too long;
  headers of two bytes, a block size of 2 and pipes of 3 bytes, so that
  messages, blocks and pipe contents never line up. `Million` is 3: waits of 0, 2,
  3 and 5 microseconds carry, borrow and round up to a whole second. `MaxClock`
  7 lies after the last deadline; a `select` that would time out later does so
  when the clock stops. Two loggers with two entries and two sends each cover a
  retry after a short write beside the other's entry. Two descriptors cover
  ready/not ready, ended/not ended in either order. Two threads with two loggers
  and four calls: one may close what the other uses, and the second child holds
  the first pipe, or each child the other's. Packets of up to 4 bytes (`MAX_PACK_SIZE`) through a pipe that
  writes 2 at once.
* *io, network.* Two calls on one socket, for a late answer to the first can only
  reach a later one; two tries, one duplication and one stranger each suffice to
  confuse them. Two clients and a backlog of one: one is served while the other
  waits, or is refused before the server listens; `slow` is a client that never
  ends, which is one of the two or neither, for the clients are alike. The test
  message of five bytes is the longest that the two directions of two bytes and
  one byte in the server hold. That is what lets `reflectclient` write it all
  before it reads (`EchoAssumption`); with less room client and server would wait
  for each other, and the code relies on the kernel's buffers for its 1000 bytes.
* *processes.* Three signals and two waits: one that comes too early, one in time,
  one in between. A file of three bytes and blocks of two, so that the last block is
  short; two copies, for what the first leaves behind; two foreign signals. Three
  expirations with a carry in the first or the second addition. Four processes in a
  tree or ring, for both ends of a chain and two in between. Three processes at the
  shared sum: the creator of the segment, another that creates the semaphore, a third
  that adds meanwhile. Shells: two commands, so that one may be in the
  background, and two ^C, one for the command and one for the way back. Two writers
  of two lines and a queue of two; three members of a critical section or barrier.
* *threads.* A key table of one slot grows twice, with junk in it; three items let a
  traversal be at the start, inside and at the end while another thread adds. Three
  threads with descriptors, with objects, with names: one that has finished, one
  that uses, one that starts. Buffers of one slot with two getters and a putter of two
  items. Strings and arrays of at most 4 elements hold two lines, an empty word, and
  every order; three commands for `keeplog`.
* *files.* Three processes: both ends of a chain and one in the middle, a server with
  two clients. A pipe with room for 3, inputs longer than a block of 2. Five peers: a
  server with two clients and their children.
* `CHECK_DEADLOCK FALSE` throughout: the clients of the objects may stop calling
  and the programs end.

### Fairness

Weak fairness of each thread's or process's own steps: it is scheduled. `files`
needs less, that *some* process goes on as long as one can, for none of its
programs has an endless loop. Nothing forces a client to call, a library call to
fail or a signal to come.
*Strong* fairness is assumed in one place, `PcMain!Fairness`: `bufferlock` is
granted to the thread that has to set the done flag, although producers and
consumers take it over and over. The code needs it: `randpcdone` ends only if
main gets the mutex in `setdone`. In `io`, a signal does not interrupt *every*
read and write, but it may interrupt every `select` of `waitfdtimed`; the
deadline is what ends it. The network owes nobody a datagram: requests with a
timeout end because time passes; `request_reply` without one may
wait forever after a loss and is not claimed to end. TCP answers a connection
attempt once there is room in the backlog, or refuses it. In `processes`, a pending
signal that is not blocked is delivered, a read that was started completes, a running
timer expires, and a command or child that runs ends.

The liveness properties name their exceptions, which are the code's own:

* abstime sleeps for ever when its last signal comes between the test of `exitflag`
  and `sigsuspend` (`raced`), for it does not block the signal there (`abstime.c:101`);
* everybody waits in synchronizefan when the parent's last fork failed, or when
  `n` is 1, because the parent then writes no characters (`synchronizefan.c:24`), and somebody does
  when one of its writes failed (`synchronizefan.c:26`);
* nobody passes the barrier of forked processes (`sbarrierold.c:65`), and nobody gets
  the lock of a killed member;
* `initsemset` waits for ever when the creator of the set is lost (`initsemset.c:28`);
* computethreadsig does not end when its signal thread failed;
* processes of `chainsemset` wait in `semop` for ever when another one's unlock has failed
  (`UnlockFailed`, `chainsemset.c:71`), and process 1 in `r_wait` for them;
* the children of two loggers that hold each other's pipes never end, and the connections
  stay open after `lclose` (`Entangled`, `rlogging.c:140`), which is to close them
  (`rlogging.c:327`);
* of `bufferbad.c`, whose callers spoil the count of items, the end is not claimed;
* parentwritepipe1 reads from a pipe whose write end it holds itself; a FIFO nobody
  else opens keeps its opener, and the sequence server serves on;
* asyncmonitorsuspend never ends on a regular file.

### Findings

* `shm_erase`, `src/chapter15/sharedmemsum.c:41`: the process that creates the
  segment zeroes `count` and `sum` after it exists and before it takes part in
  the semaphore's initialisation. Another process can attach, create the
  semaphore and add in between; the addition is erased. (`SumIsGuarded` checks that
  this is the only way to lose one.)
* `list_grow`, `src/chapter13/listlib.c:39`: the new half of the key table comes
  from `realloc` and only its first slot is written. The search for an empty
  slot reads the rest; a slot that does not happen to be zero is never used, and
  the table grows although it has free slots.
* `connect`, `src/appendixC/uici.c:145`: when a signal interrupts `connect`,
  `u_connect` waits until `select` reports the socket writable, which it also does
  when the attempt has failed. A refused connection is then returned as a
  descriptor, where the comment promises -1. `ConnectionsOwned` checks that this
  is the only way.

## 4. Proofs

Seven modules of theorems about 28 models (all but Descriptors), and `BufferLemmas`
with the lemmas they share (indexes modulo `BufSize`, the arcs of a ring, and what the
cardinality of a set does when one thread moves). Every theorem is for every value
of the constants; the assumptions are the named ones of the model modules: a
buffer has a slot, `NoThread` is no thread, the workers are threads, the
numbers of processes, blocks and mishaps are numbers, the programs
chosen are among those of the module, and the
threads are *finitely* many, which the proofs that count them need and every run of
the programs satisfies. Each inductive invariant was checked by TLC on
the run's instance before it was proved.

**`CondBufferProofs`**

* `BufTypeCorrect`, `BufMutualExclusion`: types, and one thread at most inside;
* `BufRingConsistent`, `BufTestStillHolds`, `BufDrainedWhenCanceled`: the safety
  invariants of run `cb_safety`;
* `BufRefinesQueue`: the ring buffer with its mutex, its condition variables, its
  failing calls and its done flag implements `BoundedQueue`;
* `BufNoLostWakeup`: as long as signal and broadcast do not fail there is, for each item
  in the buffer while a getter sleeps, a getter that is awake or a signal to come,
  and for each free slot a putter.

The inductive invariant `BufIInv` is the conjunction of the type invariant,
`CallAgrees` (a thread's position belongs to the function it is in),
`MutualExclusion`, `RingConsistent`, `TestStillHolds` and
`DrainedWhenCanceled`. Neither of the last two is inductive alone: that the test
still holds at the transfer follows from mutual exclusion, for only another
thread in its critical section could change `totalitems`; that the buffer stays
drained follows from `TestStillHolds`, for a putter that is past its test
cannot meet a set done flag. `BufInvariant` is `BufSpec => []BufIInv`, by one
step per action and, under it, one per conjunct the action can disturb.
The refinement then goes action by action: `PutXfer` appends, `GetXfer` takes the
head, `SetdoneFlag` closes, `Return` clears the hand, a call of `putitem` fills
it, everything else stutters.

For the wakeups, each step moves one thread (and a signal or broadcast some sleepers
besides), and each thread counts for 0 or 1 among those that mind an item and those
that mind a slot: a signal hands on exactly what its sender counted for. The done
flag needs a conjunct of its own, `DoneReleases`: a getter that gives up because
the flag is set minds no item any more, and a putter would be missed but for the
broadcast that `setdone` still owes. The hypothesis is what the code relies on: `putitem`
reports a failing `pthread_cond_signal` and the item stays, with nobody told.

**`PcMainProofs`**

* `PcUsesBuffer`: the programs call the buffer only as its interface allows, that
  is, every behaviour of them is one of `BufSpec`. Hence all theorems about the buffer
  hold in the programs (`PcBufferCorrect`).
* `PcResultsAreComplete`: `randpcdone` and `randpcsig` print their results only when
  every item put has been summed or when an error is known, for any number of
  producers and consumers.

The inductive invariant `PcIInv` counts: the successful puts not summed yet, with the
items just inserted, equal the items in the buffer with those just taken and those
about to be added (`Balanced`), unless something has failed that a thread will report
(`Trouble`). The rest says what ends a consumer without an error: a drained and closed
buffer (`LastItemSeen`), which stays so; and that main joins everybody first. Two
hypotheses are the code's: the lock of `seterror` must not fail (then the error is lost, see
Bounds), and there must be a consumer, for without one nothing that was put is summed.

**`SemaphoreProofs`**

* `SemPermitsAreBacked`: the permits for items and for slots, in the semaphores and in
  threads' hands, never exceed the items and slots there are, none is lost without a
  failure, and nobody waits on a semaphore before its initialisation;
* `SemRefinesQueue`: the buffer implements `BoundedQueue`.

`SemIInv` adds to the counting who runs the body of `pthread_once` (`BodyAlone`,
`Untouched`, `BodyTells`): the permits appear only when that body sets `semslots`, and
a failure of it must leave both semaphores at a value that lets nobody through.

`SemProgGuarded`: the programs of chapter 14 exclude each other
in their critical sections, count every increment, fail only after an unlink and
pass their barrier together, for any number of members. While nothing is unlinked, all
members about to enter have opened the semaphore that the name stands for, it is at
most 1, and 0 with one member inside (`OneLock`); a counted member has stored its increment and one
inside still has the last value (`AllCounted`). For the barrier, `BarrierShut` says that the
gate is at 0 and nobody is through until one member has counted them all, which in
forked processes, with a count each, never happens. A chain grows only
at its end (`InPlace`), so the semaphores are created by one process alone.

**`ProcessProofs`**: `ShmSumIsGuarded`: the semaphore lets one process in
at a time and no addition is lost unless the creator of the segment stored a
zero late. The invariant is that one process at most initialises the semaphore and nobody
passes before (`OneCreator`), that who is inside has its only unit (`Excludes`), and
that what was loaded is still there when it is stored (`Untouched`).

`TimerGoesOnAlways`: main of the timer programs neither stops before the last
expiration nor misses one, unless its signal came between the test and
`sigsuspend`, and the absolute timer is set to exact multiples of its increment. `TurnsTaken`
says that a timer is armed, has expired or is being handled, one of the three;
`TimesExact` that the time in hand is that of the expiration to come or of the last,
in nanoseconds, for which `CarriedAdds` shows that `AddToTime`'s carry loses none.

`RelativesAlwaysInOrder`: for any number of processes, and whichever `fork`, `semop`, `r_read`
or `r_write` fails, chains and fans
write their messages after those of their children, one at a time under the
semaphore, which process 1 removes when all have ended; nobody passes `synchronizefan` before all
are there, unless a failing `r_read` has let one through (`synchronizefan.c:29`); a ring that is complete is closed and no other end of a pipe is open. For a
chain the invariant is that it is forked in order (`Offspring`) and left in the opposite one
(`SemLast`: behind a process that is done all are done, which is why no `fork` can still come);
for `synchronizefan` that a character is written only after the last `fork`
(`Synchronized`). For the ring, `Fits` gives the descriptor table of each process at each
place in the loop, as parent and as child, from which the closed ring is read off.

`AioCopiesExact`: a file copied by the signal handler of `asyncmonitorsignal.c` is copied whole
and counted once, however the signals fall, and the inputs of `asyncpollmain` and
`asyncmonitorsuspend` are shown in order with nothing left out. For the copy,
`SetUp` says that no handler runs between the initialisation and the first read, and
`CopyGoesOn` that what is counted is stored and that a copy not done has a read under way or a
signal to come. For the inputs, `PlaceKept` says that the offset (or what was taken from
the pipe) is the end of what has been shown plus the block found, and `FlagsAgree` that the
flags of `iops` follow the request through its cycle.

`ShWaits`: no child of the shells of chapter 11 but `ush1` ever runs the shell's loop, however
^C falls; at a prompt the foreground commands have ended, and a jump leaves at most one child
that nobody waits for. A command that has not set its own handling has SIGINT blocked wherever
the shell jumps (`CommandsAgree`), which holds since the shell blocks it before each fork, and
without the jump a handler finds the shell at the beginning of its loop only (`InterruptsAgree`).
Until something happens after which the shell waits for the wrong child (`Calm` excludes it) the
only child it owes a wait is the last one forked, and only between fork and wait (`AwaitsOne`),
for which `ush5` and `ush7` must know whether that one is in the background (`ChildKnown`).

`IpcMessagesInOrder`: the writers of a queue are accounted for line by line. A line
has been sent in its order (`SentInOrder`), and while the queue has the id its user knows
(`QueueIds`) each line is in the queue, in the hand of `msgqueuesave`, or in the
file (`NoneLost`), in one of them only and behind the line before it (`QueueKept`), so
that the file is in order for each writer (`SavedInOrder`). `MonitorKept`,
`ShownKept` and `SemsetKept` are about the other programs of chapter 15: one process at most
has created the semaphore of `initsemset`, and its flag is set after its value.

`SgSignalsKept` has two invariants. For the library (`SigIInv`) a signal is masked wherever
the flag is tested (`Masked`), and who returns has seen the flag set by its handler
(`FlagSeen`). For the sixteen programs (`SgIInv`), `HandlersKept` tells which
handler is installed at each step and `TimerCaught` that a timer runs only with SIGALRM
caught; the rest is a conjunct for each program that tells what it has done at each of its
steps (`JmpKept`: no jump before `sigsetjmp`; `PasswordKept`: SIGINT blocked while the
terminal's echo is off, unless a call has failed; `TimesKept`: no end before the last signal counted).

**`DescriptorProofs`**

* `WaitDeadlineKept`: `readtimed` and `readtimed1` report `ETIME` only after the time
  asked for, and however often `select` is interrupted the deadline stays. The
  invariant (`TimeLeft`) is that the timeout in hand is what was left when the clock was read;
  it needs that the carries and borrows of `restart.c` keep the number of
  microseconds (`CarryKeeps`, `BorrowKeeps`) and end with a value `select` accepts.
* `ReqAnswersMatch`: the answer returned by a request of chapter 20 is one to a
  request that was sent, and on a network that has duplicated nothing to one call only. The
  latter is not proved by counting: a request sent once is in one of three places, on its
  way, on its way back, or returned, and these exclude each other (`OneCopy`).
* `MonMonitorAgrees`: the monitors of chapter 4 lose no byte (`Conserved`), count what
  they watch (`CountersAgree`: `numnow` is the number of descriptors still open, and
  `numready` not smaller than what is left to read), and so end with everything read.
* `UicConnectionsOwned`: `server` and `serverp` hold one connection at most, the one in
  `communfd` between accept and close (`ServerPlace`), and without a fault give up none
  before its client has ended and everything is read (`GivenUpLate`). A connection that
  waits in the backlog waits there once and nobody has had it before (`Waiting`), without
  which `serverp` could fork a second child for one, and two processes read it.
* `UicEchoExact`: the bytes between `reflectclient` and `reflectserver` are accounted for.
  The invariant adds that the server reads only into an empty buffer and ends by itself only
  after the client (`EchoOrder`).
* `RemRemoteEntries`: what arrives from the threads that log through `rlogging.c` has no half of
  a generator, no time that its call did not take (unless `lsendtime` came between), and comes
  after the announcement of times if the call began after it; ids are never given twice. The
  generator of an LFILE has two different halves only while the thread with the mutex is between
  them (`GeneratorWhole`), so a copy taken under the mutex is whole (`CopyAgrees`); the call knows
  the mode unless it was raced (`ModeAgrees`); a logger's pipe has both ends from
  `pipe` to `fork` (`PipeMade`), and after it its child for a reader until it is
  closed or something fails (`PipeOpen`), so no announcement is lost. That `lclose` is called
  when no other thread uses the LFILE (`Alone`) is what the library asks of its callers.
* `LogEntriesWhole`: the invariant says that an entry waits in the list of its process or has been
  accepted, in one call only (`EntriesOnce`), that the bytes of each call stand together in the
  log (`EntriesStand`) and that, without a write cut short, there is nothing else
  (`NothingElse`); lemmas on `FlattenSeq` tell what one more call adds to the bytes.
* `PipeMessagesWhole`: all bytes given to `r_write` are, in this order, those the
  receiver has returned, those in its buffer, those in the second pipe, those in `copyfile`'s
  buffer, those in the first pipe and those still to write (`StreamKept`), whatever
  piece each `read` and `write` moves. `SenderKept`, `CopierKept` and `ReceiverKept` say what the
  local pointers and counts of each function mean at each step; `EndsKept` when a pipe may end,
  and `CopyCounts` that `copyfile` has counted what it has written.
* `PacketsAreShown`: what follows an element of the pipe tells what it is: a header is followed
  by the number of bytes it says (`PipeInOrder`), unless the writer is between its two writes.
  From this the reader's position at a header is the beginning of a packet (`ToolKept`), and the
  packets shown are the first ones typed (`ShownInOrder`). What `ts2log` shows after a packet is
  from earlier packets or from the stack, since its buffer is never cleared: at each place it
  holds the byte of the last packet that reached so far (`BufferKept`), or the one found there.

**`ThreadProofs`**: `ListTraversalIsComplete`: a traversal
returns the items of the list in order, each once, none left out that was there when
it began, with a key no other thread has, under the mutex and under the read-write lock.
`KeysKept` says where the slot of each key points (the item after those returned, or
the end); `LocksExclude` that a writer is alone, without which two `getdata`, or
a `getdata` beside a reallocation, would meet.

`VarVariantIsFifo`: each buffer of chapter 16 but `bufferbad.c`, whether it tests and
returns, waits on a condition or on semaphores initialised by any caller, gives out what was
put in that order and never more than the ring holds. `Numbered` says that item *i* is in slot
*i* mod `BUFSIZE` until it is taken; `HandsCounted` that each item taken is in a
consumer's hand or in the sum. What keeps the ring from running over differs: the
test under the mutex (made again by whoever was woken), or `Backed`, that the items
are at least the permits for items and the threads that hold one, and the same for slots,
from the moment the semaphores are initialised, before which nobody comes past them (`VarPlaced`).

`ObjObjectsAgree` is about each object under the locks it has: `OwnerInside` says that the
owner of a mutex is at a step where the code holds it, from which follow that the barrier
counts those that wait (`BarrierKept`), that no update of the counter is lost
(`CounterKept`), that the body of the initialisation has one caller (`InitKept`, `ClaimKept`)
and that `strerror_r` has signals blocked while it holds its mutex (`MaskKept`). For
computethread, `SumAhead` says that the sum is ahead of the count by the one thread between
the two.

`DtDescriptorsKept`: `open` takes the lowest free number. That threads never share one
(`FilesOwned`: at each step of main and of thread *k*, which numbers are *k*'s and nobody
else's) rests on the lemma `LowestFree`: among twice as many numbers as there are threads one
is free whenever main opens a file (a pigeonhole argument). `EndDue` says that main ends after
its threads, and that its total is between the bytes of the complete copies and those with
the copies that broke off, whose part main adds like any other (`restart.c:116`,
`TotalDue`), and
`CrashDue` what it takes for main to join what was never created or to read a missing result.

`TxNamesAndTexts`: the answer in the library's static storage is the question of the one
caller under the mutex until that caller has copied it (`OneCaller`, `AnswerStands`).
The text functions are sequential, and what is proved of them is induction along their
steps: `makeargv` has copied and split what `strtok` has passed (`SplitKept`, `HeapKept`),
`keeplog`'s list is its history (`LogKept`), the averages have counted up to their place
(`AverKept`). For `bubblesort`, `SortKept` says that the interchanges made and the inversions
left add up to those of the array given; the lemma `Interchange` shows that an interchange of two
neighbours out of order removes exactly one inversion.

**`SocketsProofs`**: `SockSocketsClosed`: whatever call fails, the programs of chapters 18 and 20 use
no descriptor that is not open and give up with none open but for the three named. `SockStatusTells`: a
program that returns 0 has done what it says, and one that fails has met a failure.

A program is a function from names of steps to steps, so `Holding` can say of each name
which descriptors are open there. The lemma `StepsSound` checks it once for the
text of the programs: each step of each of the 13, whether its call works or fails, leads
from what it holds to what the step it goes on at holds. The
invariant `SockIInv` adds that a process runs the program it was started with, and a child
only that of the server that forked it (`Placed`), that what is open is what `Holding` says
and SIGPIPE is ignored or caught wherever a connection may be written (`Kept`), and follows the
one request of a client: the server gets it once and answers once (`ServerKept`), and what is
on its way to the client is this answer or a stranger's, told apart by the address
the client compares before it returns (`ClientKept`).

Only model-checked:

* liveness (`DoneWakesAll`, `ProgramEnds`, `IoEnds`, `ProcessesEnd`, `ThreadsEnd`, `FilesEnd`),
  which is out of the prover's reach;
* `FilesHold` and `ProcessesServed` of Descriptors. These are 35 scripts with some
  25 promises, each about the end of its own program. A proof would be one
  for each script: the step tables can be treated as in `SocketsProofs`, but each promise needs what
  its own script has written to which shared offset at each step. Some of them are stated for the
  sizes of the run (three pipes, blocks of `CopyBlock`, pipelines of up to four commands);
* the three statements of comments and tests that the code does not keep (see Findings), for
  which TLC gives a counterexample.

Where a fold or a sum over data is in an invariant, the proofs do not
compute it by induction over data. They use what one more
element does to it, or go to the least place where the claim would fail
(`NatLessThanWellFounded`, `WFMin`) and show that an earlier one fails too.

## 5. Plan

1. *Proofs*: the promises of Descriptors, script by script (see 4), `ProcessesServed` first.
2. *Abstract specifications* still worth stating: "every call returns an answer that was
   given", which RequestReply implements; a mutual exclusion that SharedMemSum
   and NamedSemaphores implement.
3. *What is left of the code*: see below; all of it is sequential or output.

## 6. Not modelled

* Chapters 1, 5, 10 and 22, and single programs elsewhere that make a few library
  calls and print: `environ.c`, `showtimes.c`, `outputIDs.c`, `copyfile1.c` (copyfile
  with its restarts written out), `setblock.c`, `bufferout.c`, `biff.c`,
  `simplealarm.c`, `testignored.c`, the timing programs of chapter 9, `myread.c`,
  `showid.c`, `detachfun.c`, `makepriority.c`, `whichexit.c`, `semfrompath.c`,
  `setsembuf.c`, `r_semop.c`, `testpacket.c`, `hasvoice.c`, `u_gethostname.c`,
  `u_gethostinfo.c`. `loglib.c` consists of stubs. `asynccopysignal.c` includes its
  handler from a file that is not in the repository, `appendixC/uici1.c` an older
  `uici.c`, and `readwriteblock` a `readblock` and an `r_write`.
* Formatting (`lprintf`'s `%t` formats among it), command lines, audio samples, file
  contents, priorities, and the buffering of `scanf` and `readline` in `a2ts`.
* What the models assume of the library: `close` gives up the descriptor, whatever it
  returns; `sigaction`, `sigprocmask` and `semget` do not fail (`semget` may, in
  SharedMemSum); the mutex of `uiciname.c` does not fail, nor do the
  unlocks of `rlogging.c` and the unlocks and the broadcast of ThreadObjects;
  a program that logs ignores SIGPIPE (nothing in `rlogging.c` does it); a datagram is
  lost when it is sent or not at all (Sockets; RequestReply loses it at any time); the
  input of a copy ends, and the user of a terminal types a line; `suspenduntilready`,
  used by `asyncmonitorsuspend.c` and defined nowhere in the repository, returns.
  Generators of log entries are short strings. The read-write lock of
  `listlibrw_r.c` is initialised (`initialize_r`).
* Errors of `accept` other than EINTR in Uici (the servers try again), the failure of
  `close` on the listening descriptor in the child of `serverp.c` (the child gives up), and `monitorpoll`'s second close of descriptors it has already closed.
* Single failures that only make a call or a program return early: the range checks of
  descriptors (and, in `readtimed1.c`, a wait that rounds to nothing), `malloc` in
  `atomic_logger.c`, errors of
  `getnamed.c:13` other than that of an existing name, `sem_wait` in
  `initbarrier`, and in `dofifoparent.c` an end of file, which returns 0
  (`dofifoparent.c:26`), and failing closes. Also a `setnonblock` that fails, which
  `process_or_do_work_test.c:29` ignores.
* The installations and blockings with which the programs of chapter 8 begin are one
  step where no signal can yet tell them apart (SignalPrograms).

PROJECT.json lists every component with its status, and every hazard with the
properties that are about it.
