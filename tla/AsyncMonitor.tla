---------------------------- MODULE AsyncMonitor ----------------------------
(***************************************************************************)
(* chapter08/asyncmonitorsignal.c with the mains of asyncsignalmain.c and  *)
(* asyncsignalmainsuspend.c: a file is copied by asynchronous reads; the   *)
(* signal each one sends at its end runs aiohandler, which writes the block*)
(* and starts the next read.                                               *)
(*                                                                         *)
(* The signals are realtime signals: they queue.  The handler runs between *)
(* any two steps of main unless main has blocked it, and main does nothing *)
(* meanwhile, so that it is one step, in which only the read it starts last*)
(* goes on afterwards.  Anybody may send the same signal (stray).          *)
(* The programs that poll or suspend instead are at the end.               *)
(***************************************************************************)
EXTENDS Integers, Sequences

CONSTANTS
    FileSize, AioBlock,     \* bytes of the file; BLKSIZE
    MaxCopies, MaxStray     \* bounds: copies made, foreign signals

ASSUME AsyncAssumption == FileSize \in Nat /\ AioBlock \in Nat \ {0}

VARIABLES
    aiofaults,              \* constant: subset of {"read", "start", "write"}
    suspends,               \* constant: asyncsignalmainsuspend
    apc,                    \* main: signal, block, reset, start, unblock,
                            \* work, suspend, report or exit
    interrupted,            \* a handler has run during aio_suspend
    aiomasked,              \* signals blocked
    aio,                    \* none, progress, ok or error
    status,                 \* what aio_return returns
    offset,                 \* aio_offset
    queued,                 \* signals waiting
    doneflag, globalerror, totalbytes,
    stored,                 \* bytes in the output file, in their order
    copies, foreign         \* for the bounds

amain == <<suspends, apc, aiomasked, copies>>
akernel == <<aio, status, offset, queued>>
astate == <<doneflag, globalerror, totalbytes, stored>>
avars == <<aiofaults, interrupted, amain, akernel, astate, foreign>>

AsyncInit ==
    /\ aiofaults \in {{}, {"read", "start", "write"}}
    /\ suspends \in BOOLEAN /\ interrupted = FALSE
    /\ apc = "signal" /\ aiomasked = FALSE /\ copies = 0 /\ foreign = 0
    /\ aio = "none" /\ status = 0 /\ offset = 0 /\ queued = 0
    /\ doneflag = FALSE /\ globalerror = FALSE /\ totalbytes = 0 /\ stored = 0

-----------------------------------------------------------------------------
(* The handler.                                                            *)

\* aio_read; it fails without starting anything.
Readstart ==
    \/ aio' = "progress" /\ UNCHANGED <<doneflag, globalerror>>
    \/ /\ "start" \in aiofaults
       /\ aio' = "none"
       /\ doneflag' = TRUE /\ globalerror' = TRUE

HandleError ==
    /\ aio = "error"
    /\ doneflag' = TRUE /\ globalerror' = TRUE
    /\ UNCHANGED <<aio, offset, totalbytes, stored>>

\* Mutant of HandleBlock: EINPROGRESS is not told from success.
HandleBlockEarly ==
    /\ aio \in {"ok", "progress"}
    /\ totalbytes' = totalbytes + status
    /\ offset' = offset + status
    /\ \/ status = 0 /\ doneflag' = TRUE /\ UNCHANGED <<aio, globalerror, stored>>
       \/ status > 0 /\ stored' = stored + status /\ Readstart
       \/ /\ status > 0 /\ "write" \in aiofaults
          /\ doneflag' = TRUE /\ globalerror' = TRUE
          /\ UNCHANGED <<aio, stored>>

\* The read is over.  When it was so already the last time, because the end of
\* the file or an error was handled, aio_return gives the same status again.
HandleBlock ==
    /\ aio = "ok"
    /\ totalbytes' = totalbytes + status
    /\ offset' = offset + status
    /\ \/ status = 0 /\ doneflag' = TRUE /\ UNCHANGED <<aio, globalerror, stored>>
       \/ status > 0 /\ stored' = stored + status /\ Readstart
       \/ /\ status > 0 /\ "write" \in aiofaults
          /\ doneflag' = TRUE /\ globalerror' = TRUE
          /\ UNCHANGED <<aio, stored>>

\* aio_error reports EINPROGRESS, or that nothing was started.
HandleNothing ==
    /\ aio \in {"none", "progress"}
    /\ UNCHANGED <<aio, offset, astate>>

Aiohandler ==
    /\ queued > 0 /\ ~aiomasked /\ apc # "signal"
    /\ queued' = queued - 1
    /\ HandleError \/ HandleBlock \/ HandleNothing
    /\ interrupted' = (apc = "suspend")
    /\ UNCHANGED <<aiofaults, amain, status, foreign>>

-----------------------------------------------------------------------------
(* The kernel and other processes.                                         *)

ReadCompletes ==
    /\ aio = "progress"
    /\ \/ aio' = "ok" /\ \E n \in 0..AioBlock :
              /\ n <= FileSize - offset /\ (n = 0 => offset = FileSize)
              /\ status' = n
       \/ "read" \in aiofaults /\ aio' = "error" /\ UNCHANGED status
    /\ queued' = queued + 1
    /\ UNCHANGED <<aiofaults, interrupted, amain, offset, astate, foreign>>

StraySignal ==
    /\ foreign < MaxStray /\ foreign' = foreign + 1
    /\ apc \notin {"signal", "exit"}
    /\ queued' = queued + 1
    /\ UNCHANGED <<aiofaults, interrupted, amain, aio, status, offset, astate>>

-----------------------------------------------------------------------------
(* main.                                                                   *)

Goes(from, to) == apc = from /\ apc' = to

Initsignal ==
    /\ Goes("signal", "block")
    /\ UNCHANGED <<aiofaults, suspends, interrupted, aiomasked, copies, akernel, astate, foreign>>

BlockAll ==
    /\ Goes("block", "reset")
    /\ aiomasked' = TRUE
    /\ UNCHANGED <<aiofaults, suspends, interrupted, copies, akernel, astate, foreign>>

\* The structure and the results are set up anew, for another output file.
Reset ==
    /\ Goes("reset", "start")
    /\ offset' = 0 /\ stored' = 0
    /\ doneflag' = FALSE /\ globalerror' = FALSE /\ totalbytes' = 0
    /\ UNCHANGED <<aiofaults, suspends, interrupted, aiomasked, copies, aio, status, queued, foreign>>

StartFirst ==
    /\ Goes("start", "unblock")
    /\ Readstart
    /\ UNCHANGED <<aiofaults, suspends, interrupted, aiomasked, copies, status, offset, queued, totalbytes, stored, foreign>>

\* initread has returned -1 when the first read did not start.
Unblock ==
    /\ apc = "unblock"
    /\ apc' = IF aio = "none" THEN "exit" ELSE "work"
    /\ aiomasked' = FALSE
    /\ UNCHANGED <<aiofaults, suspends, interrupted, copies, akernel, astate, foreign>>

\* The main of asyncsignalmain looks between its other work, the other one when
\* aio_suspend has returned: no read is under way, or a signal has come.
SuspendMain ==
    /\ suspends /\ Goes("work", "suspend")
    /\ interrupted' = FALSE
    /\ UNCHANGED <<aiofaults, suspends, aiomasked, copies, akernel, astate, foreign>>

Getdone ==
    /\ apc = IF suspends THEN "suspend" ELSE "work"
    /\ suspends => aio # "progress" \/ interrupted
    /\ apc' = IF doneflag THEN "report" ELSE "work"
    /\ UNCHANGED <<aiofaults, suspends, interrupted, aiomasked, copies, akernel, astate, foreign>>

\* geterror and getbytes; the caller may then copy another file.
Report ==
    /\ apc = "report"
    /\ copies' = copies + 1
    /\ apc' \in {"exit"} \cup IF copies' < MaxCopies THEN {"block"} ELSE {}
    /\ UNCHANGED <<aiofaults, suspends, interrupted, aiomasked, akernel, astate, foreign>>

AsyncMain == Initsignal \/ BlockAll \/ Reset \/ StartFirst \/ Unblock \/ SuspendMain \/ Getdone \/ Report
AsyncKernel == Aiohandler \/ ReadCompletes
AsyncNext == AsyncMain \/ AsyncKernel \/ StraySignal
AsyncSpec == AsyncInit /\ [][AsyncNext]_avars

-----------------------------------------------------------------------------
(* Properties.                                                             *)

\* What getbytes and geterror report: without an error the whole file is in the
\* output, counted once, whenever and however often the signal came; while the
\* copy runs, what is counted is what is stored; and a copy that is not done has
\* a read under way or a signal still to be handled, or it would stop for good.
TotalsExact ==
    apc \in {"work", "suspend", "report"} =>
        /\ doneflag /\ ~globalerror => stored = FileSize
        /\ ~globalerror => totalbytes = stored /\ offset = stored
        /\ ~doneflag => aio = "progress" \/ (aio \in {"ok", "error"} /\ queued > 0)

-----------------------------------------------------------------------------
(* The programs of chapter08 that show several inputs with asynchronous    *)
(* reads and no signals: asyncpollmain with asyncmonitorpoll.c ("poll"),   *)
(* which looks at every read now and then, and asyncmonitorsuspend.c       *)
(* ("suspend"), which sleeps until one is over.  A read of a regular file  *)
(* starts at aio_offset, one of a pipe or terminal at what is next there.  *)

CONSTANTS
    Inputs,         \* 1 .. n
    InputSize,      \* bytes of each
    ReadBlock,      \* BLKSIZE
    MaxShown,       \* bound on the blocks shown of one input
    ReadKinds       \* subset of {"poll", "suspend"}

ASSUME ReadsAssumption ==
    /\ Inputs # {} /\ \A f \in Inputs : f \in Nat \ {0} /\ 1 .. f \subseteq Inputs
    /\ InputSize \in Nat /\ ReadBlock \in Nat \ {0}
    /\ ReadKinds \subseteq {"poll", "suspend"}

VARIABLES
    rdkind,         \* constant: the program
    regular,        \* constant: the inputs that are regular files
    rdfails,        \* constant: the reads may fail
    rdpc,           \* <<step, input>>, see Pass
    request,        \* input -> its aiocb: [state, status, offset]
    taken,          \* input -> bytes taken out of it so far, if not regular
    inbuf,          \* input -> positions <<first, last>> in its buffer
    started, isdone, fetched,     \* input -> the flags of iops, and what was read
    over,           \* the inputs for which done is set
    shows           \* input -> the blocks shown

iops == <<started, isdone, fetched>>
rdvars == <<rdkind, regular, rdfails, rdpc, request, taken, inbuf, iops, over, shows>>

NoBlock == <<1, 0>>
Idle == [state |-> "none", status |-> 0, offset |-> 0]

ReadsInit ==
    /\ rdkind \in ReadKinds
    /\ regular \in SUBSET Inputs
    /\ rdfails \in BOOLEAN
    /\ rdpc = <<"init", 1>>
    /\ request = [f \in Inputs |-> Idle]
    /\ taken = [f \in Inputs |-> 0]
    /\ inbuf = [f \in Inputs |-> NoBlock]
    /\ started = [f \in Inputs |-> FALSE] /\ isdone = [f \in Inputs |-> FALSE]
    /\ fetched = [f \in Inputs |-> 0]
    /\ over = {}
    /\ shows = [f \in Inputs |-> <<>>]

kept == <<rdkind, regular, rdfails>>
GoesTo(step, f) == rdpc' = <<step, f>>
NextInput(f) == IF f + 1 \in Inputs THEN GoesTo("look", f + 1) ELSE GoesTo("rest", 1)

-----------------------------------------------------------------------------
(* Asynchronous reads.                                                     *)

\* aio_read; it may fail, and then nothing is under way.
AioRead(f) ==
    \/ request' = [request EXCEPT ![f].state = "progress"]
    \/ rdfails /\ request' = [request EXCEPT ![f].state = "error"]
Accepted(f) == request'[f].state = "progress"

Completes(f) ==
    /\ request[f].state = "progress"
    /\ LET from == IF f \in regular THEN request[f].offset ELSE taken[f]
       IN  \/ \E n \in 0 .. ReadBlock :
                /\ from + n <= InputSize /\ (n = 0 => from = InputSize)
                /\ request' = [request EXCEPT ![f].state = "ok", ![f].status = n]
                /\ taken' = [taken EXCEPT ![f] = IF f \in regular THEN @ ELSE @ + n]
                /\ inbuf' = [inbuf EXCEPT ![f] = IF n = 0 THEN @ ELSE <<from + 1, from + n>>]
           \/ /\ rdfails
              /\ request' = [request EXCEPT ![f].state = "error"]
              /\ UNCHANGED <<taken, inbuf>>
    /\ UNCHANGED <<kept, rdpc, iops, over, shows>>

-----------------------------------------------------------------------------
(* asyncmonitorpoll.c.                                                     *)

readstart(f) ==
    IF started[f] THEN UNCHANGED <<request, iops>>
    ELSE /\ AioRead(f)
         /\ started' = [started EXCEPT ![f] = Accepted(f)]
         /\ UNCHANGED <<isdone, fetched>>
Began(f) == ~started[f] /\ started'[f]

\* readcheck returns -1 unless the read is over; aio_return is called once, and
\* moves the offset on.
Finished(f) == isdone[f] \/ request[f].state = "ok"
Got(f) == IF isdone[f] THEN fetched[f] ELSE request[f].status
readcheck(f) ==
    IF isdone[f] \/ request[f].state # "ok" THEN UNCHANGED <<iops, request>>
    ELSE /\ fetched' = [fetched EXCEPT ![f] = request[f].status]
         /\ isdone' = [isdone EXCEPT ![f] = TRUE]
         /\ request' = [request EXCEPT ![f].offset = @ + request[f].status]
         /\ UNCHANGED started

\* Mutant of reinit: doneflag stays on.
reinitStarted(f) ==
    /\ started' = [started EXCEPT ![f] = FALSE]
    /\ fetched' = [fetched EXCEPT ![f] = 0]
    /\ UNCHANGED <<isdone, request>>

reinit(f) ==
    /\ started' = [started EXCEPT ![f] = FALSE]
    /\ isdone' = [isdone EXCEPT ![f] = FALSE]
    /\ fetched' = [fetched EXCEPT ![f] = 0]
    /\ UNCHANGED request

-----------------------------------------------------------------------------
(* asyncpollmain.c.                                                        *)

\* An input is opened, and its first read started; the program gives up when it is not.
PollInit(f) ==
    /\ rdkind = "poll" /\ rdpc = <<"init", f>>
    /\ readstart(f)
    /\ IF ~Began(f) THEN GoesTo("end", 1)
       ELSE IF f + 1 \in Inputs THEN GoesTo("init", f + 1) ELSE GoesTo("rest", 1)
    /\ UNCHANGED <<kept, taken, inbuf, over, shows>>

dowork ==
    /\ rdkind = "poll" /\ rdpc[1] = "rest" /\ GoesTo("look", 1)
    /\ UNCHANGED <<kept, request, taken, inbuf, iops, over, shows>>

PollLook(f) ==
    /\ rdkind = "poll" /\ rdpc = <<"look", f>> /\ f \notin over
    /\ readcheck(f)
    /\ IF Finished(f) /\ Got(f) > 0 THEN GoesTo("process", f) /\ UNCHANGED over
       ELSE /\ NextInput(f)
            /\ over' = over \cup IF Finished(f) \/ request[f].state = "error" THEN {f} ELSE {}
    /\ UNCHANGED <<kept, taken, inbuf, shows>>

Pass(f) ==
    /\ rdpc = <<"look", f>> /\ f \in over
    /\ NextInput(f)
    /\ UNCHANGED <<kept, request, taken, inbuf, iops, over, shows>>

processbuffer(f) ==
    /\ rdpc = <<"process", f>> /\ Len(shows[f]) < MaxShown
    /\ shows' = [shows EXCEPT ![f] = Append(@, inbuf[f])]
    /\ GoesTo(IF rdkind = "poll" THEN "reinit" ELSE "again", f)
    /\ UNCHANGED <<kept, request, taken, inbuf, iops, over>>

Reinit(f) ==
    /\ rdpc = <<"reinit", f>> /\ GoesTo("again", f)
    /\ reinit(f)
    /\ UNCHANGED <<kept, taken, inbuf, over, shows>>

PollAgain(f) ==
    /\ rdkind = "poll" /\ rdpc = <<"again", f>> /\ NextInput(f)
    /\ readstart(f)
    /\ over' = over \cup IF Began(f) THEN {} ELSE {f}
    /\ UNCHANGED <<kept, taken, inbuf, shows>>

-----------------------------------------------------------------------------
(* asyncmonitorsuspend.c: it leaves aio_offset as it is, and goes on when  *)
(* its first reads do not start.                                           *)

SuspendInit(f) ==
    /\ rdkind = "suspend" /\ rdpc = <<"init", f>>
    /\ AioRead(f)
    /\ IF f + 1 \in Inputs THEN GoesTo("init", f + 1) ELSE GoesTo("rest", 1)
    /\ UNCHANGED <<kept, taken, inbuf, iops, over, shows>>

suspenduntilready ==
    /\ rdkind = "suspend" /\ rdpc[1] = "rest"
    /\ IF over = Inputs THEN GoesTo("end", 1)
       ELSE GoesTo("look", 1) /\ \E f \in Inputs \ over : request[f].state # "progress"
    /\ UNCHANGED <<kept, request, taken, inbuf, iops, over, shows>>

SuspendLook(f) ==
    /\ rdkind = "suspend" /\ rdpc = <<"look", f>> /\ f \notin over
    /\ IF request[f].state = "ok" /\ request[f].status > 0 THEN GoesTo("process", f) /\ UNCHANGED over
       ELSE /\ NextInput(f)
            /\ over' = over \cup IF request[f].state = "progress" THEN {} ELSE {f}
    /\ UNCHANGED <<kept, request, taken, inbuf, iops, shows>>

SuspendAgain(f) ==
    /\ rdkind = "suspend" /\ rdpc = <<"again", f>> /\ NextInput(f)
    /\ AioRead(f)
    /\ over' = over \cup IF Accepted(f) THEN {} ELSE {f}
    /\ UNCHANGED <<kept, taken, inbuf, iops, shows>>

-----------------------------------------------------------------------------

InputStep(f) ==
    \/ PollInit(f) \/ PollLook(f) \/ Pass(f) \/ processbuffer(f) \/ Reinit(f) \/ PollAgain(f)
    \/ SuspendInit(f) \/ SuspendLook(f) \/ SuspendAgain(f)
ReadsMain == dowork \/ suspenduntilready \/ \E f \in Inputs : InputStep(f)
ReadsNext == ReadsMain \/ \E f \in Inputs : Completes(f)
ReadsSpec == ReadsInit /\ [][ReadsNext]_rdvars

-----------------------------------------------------------------------------
(* Properties.                                                             *)

Rereads(f) == rdkind = "suspend" /\ f \in regular
ShownTo(f) == IF shows[f] = <<>> THEN 0 ELSE shows[f][Len(shows[f])][2]
Followed(f) == [k \in 1 .. Len(shows[f]) |-> IF k = 1 THEN 0 ELSE shows[f][k - 1][2]]

\* Every input is shown in its order, no byte twice and none left out, whenever its
\* reads end, up to its end if none fails; but asyncmonitorsuspend shows the first block
\* of a regular file again and again. No input is given up with a read under way, and
\* main never rests while one that is not over has none.
InputsShown ==
    \A f \in Inputs :
        /\ \A k \in 1 .. Len(shows[f]) : shows[f][k][1] = 1 + IF Rereads(f) THEN 0 ELSE Followed(f)[k]
        /\ f \in over => request[f].state # "progress"
        /\ f \in over /\ ~rdfails => ShownTo(f) = InputSize
        /\ rdpc[1] = "rest" /\ f \notin over => request[f].state # "none"

\* What is copied or shown by asynchronous reads is the whole input, counted once.
CopiesExact == TotalsExact /\ InputsShown

\* Every input that comes to its end is over some day.
ReadsOver == over = Inputs \/ rdpc[1] = "end" \/ \E f \in Inputs : Rereads(f)
=============================================================================
