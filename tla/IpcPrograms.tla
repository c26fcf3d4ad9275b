----------------------------- MODULE IpcPrograms ----------------------------
(***************************************************************************)
(* XSI message queues and a shared total (chapter15):                      *)
(*   "queue"    several msgqueuein.c write the lines of their inputs to a  *)
(*              queue, msgqueuesave.c copies the messages to its output;   *)
(*   "monitor"  monitorshared.c copies two files at once; the child leaves *)
(*              its number of bytes in shared memory;                      *)
(*   "show"     showshared.c shows the shared sum whenever SIGUSR1 comes;  *)
(*   "initsem"  processes meet in initsemset.c: one of them creates the     *)
(*              semaphore and initializes it, the others wait for its flag. *)
(***************************************************************************)
EXTENDS Naturals, Sequences, FiniteSets, SequencesExt

CONSTANTS
    QWriters,       \* the processes running msgqueuein, or initsemset
    QLines,         \* lines, or blocks, of each input
    QCapacity,      \* messages the queue has room for
    MaxEmpty,       \* bound: empty messages written at the end of an input
    IpcKinds        \* subset of the names above

ASSUME IpcAssumption == "save" \notin QWriters /\ QLines \in Nat

VARIABLES
    ipc,            \* constant: the kind
    qpc,            \* writer -> init, header, read, write, end
    input,          \* writer -> lines it has read; then come empty ones
    sent,           \* writer -> messages it has sent, 0 for an empty one
    queue,          \* the queue, of records [from, n]
    era,            \* id of the queue with the key; 2 between its removal and the next one
    queueid,        \* writer, or "save" -> queueid
    qsave,          \* init, read, write, end
    message,        \* <<what msgread has returned>>
    output,         \* what msgqueuesave has written
    mon,            \* "parent", "child" -> unborn, fork, copy, leave, wait, remove, exit, killed
    bytes,          \* "parent", "child" -> totalbytes
    totals,         \* <<*sharedtotal>>, or <<>> when the segment is removed
    reported,       \* <<the total the parent has reported>>, or <<>>
    shown,          \* showshared: masked, announced, handler; pending; killed
    initer,         \* process -> get, init, ready, access, sleep, in, failed
    semset          \* the semaphore: exists, its value is set, *readyp

ipcvars == <<ipc, qpc, input, sent, queue, era, queueid, qsave, message, output, mon, bytes, totals, reported, shown,
             initer, semset>>
savevars == <<qsave, message, output>>
queuevars == <<qpc, input, sent, queue, era, queueid, savevars>>
monvars == <<mon, bytes, totals, reported>>
initvars == <<initer, semset>>

Both == {"parent", "child"}

IpcInit ==
    /\ ipc \in IpcKinds
    /\ qpc = [w \in QWriters |-> "init"] /\ input = [w \in QWriters |-> 0] /\ sent = [w \in QWriters |-> <<>>]
    /\ queue = <<>> /\ era = 1 /\ queueid = [u \in QWriters \cup {"save"} |-> 0]
    /\ qsave = "init" /\ message = <<>> /\ output = <<>>
    /\ mon = [p \in Both |-> IF p = "parent" THEN "fork" ELSE "unborn"]
    /\ bytes = [p \in Both |-> 0] /\ totals = <<0>> /\ reported = <<>>
    /\ shown = [masked |-> FALSE, announced |-> FALSE, handler |-> FALSE, pending |-> FALSE, killed |-> FALSE]
    /\ initer = [w \in QWriters |-> "get"] /\ semset = [exists |-> FALSE, set |-> FALSE, ready |-> FALSE]

-----------------------------------------------------------------------------
(* The queue.                                                              *)

QGo(w, from, to) == qpc[w] = from /\ qpc' = [qpc EXCEPT ![w] = to]
Standing == era # 2
HasQueue(u) == Standing /\ queueid[u] = era

\* IPC_CREAT opens the queue, or makes a new one when it was removed.
initqueue(u) ==
    /\ era' = IF Standing THEN era ELSE era + 1
    /\ queueid' = [queueid EXCEPT ![u] = era'] /\ UNCHANGED queue

StartWriter(w) ==
    /\ QGo(w, "init", "header") /\ initqueue(w)
    /\ UNCHANGED <<ipc, input, sent, savevars, monvars, shown, initvars>>

\* msgsnd waits while the queue is full; when the queue was removed the writer ends.
SendMessage(w, n, from) ==
    /\ IF HasQueue(w) THEN /\ QGo(w, from, "read") /\ Len(queue) < QCapacity
                           /\ queue' = Append(queue, [from |-> w, n |-> n])
                           /\ sent' = [sent EXCEPT ![w] = Append(@, n)]
       ELSE QGo(w, from, "end") /\ UNCHANGED <<queue, sent>>
    /\ UNCHANGED <<ipc, input, era, queueid, savevars, monvars, shown, initvars>>

msgprintf(w) == SendMessage(w, 1, "header")
msgwrite(w) == SendMessage(w, IF input[w] <= QLines THEN input[w] + 1 ELSE 0, "write")

\* At its end the input gives an empty line, again and again; an error, or a last
\* line without newline, ends the writer.
ReadInput(w) ==
    /\ \/ /\ QGo(w, "read", "write") /\ input[w] < QLines + MaxEmpty
          /\ input' = [input EXCEPT ![w] = @ + 1]
       \/ QGo(w, "read", "end") /\ input[w] < QLines /\ UNCHANGED input
    /\ UNCHANGED <<ipc, sent, queue, era, queueid, savevars, monvars, shown, initvars>>

msgqueuein(w) == StartWriter(w) \/ msgprintf(w) \/ ReadInput(w) \/ msgwrite(w)

StartSave ==
    /\ qsave = "init" /\ qsave' = "read" /\ initqueue("save")
    /\ UNCHANGED <<ipc, qpc, input, sent, message, output, monvars, shown, initvars>>

\* Mutant of msgread: the last message is taken.
msgreadLast ==
    /\ qsave = "read" /\ HasQueue("save") /\ queue # <<>>
    /\ message' = <<Last(queue)>> /\ queue' = Front(queue) /\ qsave' = "write"
    /\ UNCHANGED <<ipc, qpc, input, sent, era, queueid, output, monvars, shown, initvars>>

\* Type 0: the first message of all.
msgread ==
    /\ qsave = "read"
    /\ IF HasQueue("save")
       THEN queue # <<>> /\ message' = <<Head(queue)>> /\ queue' = Tail(queue) /\ qsave' = "write"
       ELSE qsave' = "end" /\ UNCHANGED <<message, queue>>
    /\ UNCHANGED <<ipc, qpc, input, sent, era, queueid, output, monvars, shown, initvars>>

\* The whole message, or the program ends.
WriteMessage ==
    /\ qsave = "write"
    /\ \/ qsave' = "read" /\ output' = IF message[1].n = 0 THEN output ELSE output \o message
       \/ qsave' = "end" /\ UNCHANGED output
    /\ UNCHANGED <<ipc, qpc, input, sent, queue, era, queueid, message, monvars, shown, initvars>>

msgqueuesave == StartSave \/ msgread \/ WriteMessage

\* By another process, once.
remmsgqueue ==
    /\ era = 1 /\ era' = 2 /\ queue' = <<>>
    /\ UNCHANGED <<ipc, qpc, input, sent, queueid, savevars, monvars, shown, initvars>>

-----------------------------------------------------------------------------
(* monitorshared.                                                          *)

MonGo(p, from, to) == mon[p] = from /\ mon' = [mon EXCEPT ![p] = to]
MonKeep == UNCHANGED <<ipc, queuevars, shown, initvars>>

\* The totals is new and holds 0.
ForkMonitor ==
    /\ mon["parent"] = "fork"
    /\ \/ mon' = [p \in Both |-> "copy"] /\ UNCHANGED totals
       \/ MonGo("parent", "fork", "exit") /\ totals' = <<>>
    /\ UNCHANGED <<bytes, reported>> /\ MonKeep

\* readwrite, which ends with the file or with an error.
CopyBlock(p) ==
    /\ \/ mon[p] = "copy" /\ bytes[p] < QLines /\ bytes' = [bytes EXCEPT ![p] = @ + 1] /\ UNCHANGED mon
       \/ MonGo(p, "copy", IF p = "child" THEN "leave" ELSE "wait") /\ UNCHANGED bytes
    /\ UNCHANGED <<totals, reported>> /\ MonKeep

ChildLeaves ==
    /\ MonGo("child", "leave", "exit") /\ totals' = <<bytes["child"]>>
    /\ UNCHANGED <<bytes, reported>> /\ MonKeep

\* A child that is killed leaves nothing.
ChildKilled ==
    /\ mon["child"] \in {"copy", "leave"} /\ MonGo("child", mon["child"], "killed")
    /\ UNCHANGED <<bytes, totals, reported>> /\ MonKeep

\* r_wait, then the report.
WaitReport ==
    /\ mon["child"] \in {"exit", "killed"} /\ MonGo("parent", "wait", "remove")
    /\ reported' = <<bytes["parent"] + totals[1]>>
    /\ UNCHANGED <<bytes, totals>> /\ MonKeep

detachandremove ==
    /\ MonGo("parent", "remove", "exit") /\ totals' = <<>>
    /\ UNCHANGED <<bytes, reported>> /\ MonKeep

Monitor == ForkMonitor \/ ChildLeaves \/ WaitReport \/ detachandremove \/ \E p \in Both : CopyBlock(p)

-----------------------------------------------------------------------------
(* showshared.                                                             *)

\* All signals are blocked, the program announces itself, installs its handler
\* and restores the mask.
SetUpShow ==
    /\ ~shown.killed
    /\ \/ ~shown.masked /\ ~shown.handler /\ shown' = [shown EXCEPT !.masked = TRUE]
       \/ shown.masked /\ ~shown.announced /\ shown' = [shown EXCEPT !.announced = TRUE]
       \/ shown.announced /\ ~shown.handler /\ shown' = [shown EXCEPT !.handler = TRUE]
       \/ shown.masked /\ shown.handler /\ shown' = [shown EXCEPT !.masked = FALSE]
    /\ UNCHANGED <<ipc, queuevars, monvars, initvars>>

SendShow ==
    /\ ~shown.killed /\ ~shown.pending /\ shown' = [shown EXCEPT !.pending = TRUE]
    /\ UNCHANGED <<ipc, queuevars, monvars, initvars>>

\* showit, or the end of the program when there is no handler yet.
TakeShow ==
    /\ shown.pending /\ ~shown.masked
    /\ shown' = [shown EXCEPT !.pending = FALSE, !.killed = ~shown.handler]
    /\ UNCHANGED <<ipc, queuevars, monvars, initvars>>

-----------------------------------------------------------------------------
(* initsemset.                                                             *)

InitGo(w, from, to) == initer[w] = from /\ initer' = [initer EXCEPT ![w] = to]
InitKeep == UNCHANGED <<ipc, queuevars, monvars, shown>>

CreateSet(w) ==
    /\ InitGo(w, "get", IF semset.exists THEN "access" ELSE "init")
    /\ semset' = [semset EXCEPT !.exists = TRUE] /\ InitKeep

initelement(w) ==
    /\ \/ InitGo(w, "init", "ready") /\ semset' = [semset EXCEPT !.set = TRUE]
       \/ InitGo(w, "init", "failed") /\ UNCHANGED semset
    /\ InitKeep

MarkReady(w) ==
    /\ InitGo(w, "ready", "in") /\ semset' = [semset EXCEPT !.ready = TRUE] /\ InitKeep

\* The second semget, and the loop around nanosleep.
AccessSet(w) ==
    /\ \/ InitGo(w, "access", "sleep")
       \/ semset.ready /\ InitGo(w, "sleep", "in")
    /\ UNCHANGED semset /\ InitKeep

InitKilled(w) ==
    /\ initer[w] \in {"init", "ready"} /\ InitGo(w, initer[w], "failed") /\ UNCHANGED semset /\ InitKeep

initsemset(w) == CreateSet(w) \/ initelement(w) \/ MarkReady(w) \/ AccessSet(w)

IpcStep == \/ ipc = "queue" /\ (msgqueuesave \/ \E w \in QWriters : msgqueuein(w))
           \/ ipc = "monitor" /\ Monitor
           \/ ipc = "show" /\ (SetUpShow \/ TakeShow)
           \/ ipc = "initsem" /\ \E w \in QWriters : initsemset(w)
IpcNext == IpcStep \/ (ipc = "queue" /\ remmsgqueue) \/ (ipc = "monitor" /\ ChildKilled) \/ (ipc = "show" /\ SendShow)
           \/ (ipc = "initsem" /\ \E w \in QWriters : InitKilled(w))
IpcSpec == IpcInit /\ [][IpcNext]_ipcvars

-----------------------------------------------------------------------------
(* Properties.                                                             *)

Lines(w, s) == SelectSeq(s, LAMBDA m : m.from = w /\ m.n # 0)
Line(w, n) == [from |-> w, n |-> n]

\* What is saved of each writer begins with its header, in its order, nothing
\* twice and nothing left out; while the queue stands, what is not saved yet is
\* still in it.  monitorshared reports all bytes, unless its child was killed,
\* and leaves no segment.  A SIGUSR1 that comes after showshared has announced
\* itself does not end it.  No process gets a semaphore that has no value yet, and
\* one process at most creates it.
MessagesInOrder ==
    /\ \A i \in DOMAIN output :
          /\ output[i].n \in 1..Len(sent[output[i].from])
          /\ output[i].n > 1 => \E j \in 1..(i - 1) : output[j] = Line(output[i].from, output[i].n - 1)
          /\ \A j \in DOMAIN output : output[i] = output[j] => i = j
    /\ era = 1 /\ qsave \in {"init", "read"} => \A w \in QWriters : \A n \in Range(sent[w]) \ {0} :
          Line(w, n) \in Range(output) <=> Line(w, n) \notin Range(queue)
    /\ \A i, j \in DOMAIN queue : queue[i] = queue[j] /\ queue[i].n # 0 => i = j
    /\ mon["parent"] = "exit" /\ reported # <<>> /\ mon["child"] # "killed" =>
          reported[1] = bytes["parent"] + bytes["child"]
    /\ mon["parent"] = "exit" => totals = <<>>
    /\ shown.announced => ~shown.killed
    /\ \A w \in QWriters : initer[w] = "in" => semset.set
    /\ Cardinality({w \in QWriters : initer[w] \in {"init", "ready", "failed"}}) <= 1

\* Every line sent is saved, or the queue is removed or its reader fails; the
\* parent of monitorshared ends.  Every process gets the semaphore unless its
\* creator failed or was killed: then the others sleep for ever.
Unsaved == \E w \in QWriters : Len(Lines(w, output)) < Len(SelectSeq(sent[w], LAMBDA n : n # 0))
QueueBroken == era > 1 \/ qsave = "end"
AllIn == \A w \in QWriters : initer[w] = "in"
CreatorLost == \E w \in QWriters : initer[w] = "failed"
IpcDue == ipc \in {"monitor", "initsem"} \/ (ipc = "queue" /\ Unsaved)
IpcDone == CASE ipc = "queue" -> ~Unsaved \/ QueueBroken
             [] ipc = "monitor" -> mon["parent"] = "exit"
             [] ipc = "initsem" -> AllIn \/ CreatorLost
             [] OTHER -> TRUE
=============================================================================
