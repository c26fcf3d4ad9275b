-------------------------- MODULE DescriptorThreads -------------------------
(***************************************************************************)
(* The programs of chapter12 whose main thread creates a thread for each   *)
(* index, passes it a pointer, and joins the threads: badparameters, the   *)
(* file copiers and the two descriptor monitors.  A program is a record of *)
(* the choices its source makes; the actions below read them.              *)
(***************************************************************************)
EXTENDS Naturals, FiniteSets, FiniteSetsExt

CONSTANTS
    NumThreads,     \* threads of the programs that create several
    Blocks,         \* blocks, or commands, in each input
    ThreadPrograms  \* subset of the programs below

ASSUME NumThreadsAssumption == NumThreads \in Nat \ {0} /\ Blocks \in Nat

\* entry: the thread function; shared: every thread gets the address of the loop
\* counter; opens: main opens the files of each thread in turn; many: it goes on
\* after a failure; skips: it does not join a thread that was not created.
badparameters   == [entry |-> "printarg", shared |-> TRUE, opens |-> FALSE, many |-> TRUE, skips |-> TRUE]
copymultiple    == [entry |-> "copyfilepass", shared |-> FALSE, opens |-> TRUE, many |-> TRUE, skips |-> TRUE]
callcopypass    == [entry |-> "copyfilepass", shared |-> FALSE, opens |-> TRUE, many |-> FALSE, skips |-> TRUE]
callcopymalloc  == [entry |-> "copyfilemalloc", shared |-> FALSE, opens |-> TRUE, many |-> FALSE, skips |-> TRUE]
monitorfd       == [entry |-> "processfd", shared |-> FALSE, opens |-> FALSE, many |-> TRUE, skips |-> TRUE]
monitorfdcancel == [entry |-> "processfdcancel", shared |-> FALSE, opens |-> FALSE, many |-> TRUE, skips |-> FALSE]

ASSUME ProgramsAssumption ==
    ThreadPrograms \subseteq {badparameters, copymultiple, callcopypass, callcopymalloc, monitorfd, monitorfdcancel}

VARIABLES
    prog,           \* constant: the program
    broken,         \* constant: what fails for each index
    mpc,            \* open, dest, create, join, end; exit: gave up; crash
    counter,        \* the loop counter of main
    table,          \* descriptor -> index whose file it is, or Free
    args,           \* index -> its descriptors, as copies[i].args and fd + i
    thr,            \* state of the threads; none: not created
    blocks,         \* blocks, or commands, a thread has gone through
    got,            \* index the thread read through its argument
    cancel,         \* cancelled by another thread
    total,          \* totalbytes
    wrong           \* ghost: a thread used a descriptor of another one

dtvars == <<prog, broken, mpc, counter, table, args, thr, blocks, got, cancel, total, wrong>>

NumIndexes == IF prog.many THEN NumThreads ELSE 1
Index == 0..(NumIndexes - 1)
Free == NumIndexes
Closed == 0
Failures == {"none", "create"} \cup (IF prog.opens THEN {"source", "dest", "copy"} ELSE {})
                \cup (IF prog.entry = "copyfilemalloc" THEN {"malloc"} ELSE {})

\* monitorfdtest and monitorfdcanceltest open all files first.
ThreadsInit ==
    /\ prog \in ThreadPrograms /\ broken \in [Index -> Failures]
    /\ mpc = (IF prog.opens THEN "open" ELSE "create") /\ counter = 0
    /\ args = [k \in Index |-> IF prog.opens THEN [in |-> Closed, out |-> Closed] ELSE [in |-> k + 1, out |-> Closed]]
    /\ table = [d \in 1..(2 * NumIndexes) |-> IF prog.opens \/ d > NumIndexes THEN Free ELSE d - 1]
    /\ thr = [k \in Index |-> "none"] /\ blocks = [k \in Index |-> 0] /\ got = [k \in Index |-> Free]
    /\ cancel = {} /\ total = 0 /\ wrong = FALSE

-----------------------------------------------------------------------------
(* The main thread.                                                        *)

Lowest == Min({d \in DOMAIN table : table[d] = Free})
NextIndex == /\ counter' = counter + 1
             /\ mpc' = IF counter + 1 < NumIndexes THEN (IF prog.opens THEN "open" ELSE "create") ELSE "join0"
GiveUp == IF prog.many THEN NextIndex ELSE mpc' = "exit" /\ UNCHANGED counter

\* The source stays open when the other file cannot be opened.
OpenSource ==
    /\ mpc = "open"
    /\ IF broken[counter] = "source" THEN GiveUp /\ UNCHANGED <<table, args>>
       ELSE /\ table' = [table EXCEPT ![Lowest] = counter] /\ args' = [args EXCEPT ![counter].in = Lowest]
            /\ mpc' = "dest" /\ UNCHANGED counter
    /\ UNCHANGED <<prog, broken, thr, blocks, got, cancel, total, wrong>>

OpenDest ==
    /\ mpc = "dest"
    /\ IF broken[counter] = "dest" THEN GiveUp /\ UNCHANGED <<table, args>>
       ELSE /\ table' = [table EXCEPT ![Lowest] = counter] /\ args' = [args EXCEPT ![counter].out = Lowest]
            /\ mpc' = "create" /\ UNCHANGED counter
    /\ UNCHANGED <<prog, broken, thr, blocks, got, cancel, total, wrong>>

CreateThread ==
    /\ mpc = "create"
    /\ IF broken[counter] = "create" THEN GiveUp /\ UNCHANGED thr
       ELSE NextIndex /\ thr' = [thr EXCEPT ![counter] = "start"]
    /\ UNCHANGED <<prog, broken, table, args, blocks, got, cancel, total, wrong>>

\* Joining starts with index 0 again, in another counter in badparameters.
StartJoin ==
    /\ mpc = "join0" /\ mpc' = "join"
    /\ counter' = IF prog.shared THEN counter ELSE 0
    /\ total' = 0
    /\ UNCHANGED <<prog, broken, table, args, thr, blocks, got, cancel, wrong>>

\* The bytes of the first threads that were joined.
JoinedBytes[k \in 0..NumIndexes] ==
    IF k = 0 THEN 0 ELSE JoinedBytes[k - 1] + (IF thr[k - 1] = "done" THEN blocks[k - 1] ELSE 0)

\* A join of a thread that was never created, in monitorfdcancel, returns an
\* error or crashes: tid[i] is what calloc left.  callcopymalloc reads the bytes
\* through a null pointer when malloc failed in its thread.
JoinThread ==
    /\ mpc = "join"
    /\ \A k \in Index : thr[k] \in {"none", "done", "failed"}
    /\ total' = JoinedBytes[NumIndexes]
    /\ \/ mpc' = "end" /\ ~(~prog.many /\ thr[0] = "failed")
       \/ mpc' = "crash" /\ ((~prog.skips /\ \E k \in Index : thr[k] = "none") \/ (~prog.many /\ thr[0] = "failed"))
    /\ UNCHANGED <<prog, broken, counter, table, args, thr, blocks, got, cancel, wrong>>

-----------------------------------------------------------------------------
(* The threads.                                                            *)

ThreadMoves(t, from, to) == thr[t] = from /\ thr' = [thr EXCEPT ![t] = to]
Mine(d, t) == d # Closed /\ table[d] = t

printarg(t) ==
    /\ prog.entry = "printarg" /\ ThreadMoves(t, "start", "done")
    /\ got' = [got EXCEPT ![t] = counter]
    /\ UNCHANGED <<prog, broken, mpc, counter, table, args, blocks, cancel, total, wrong>>

copyfilepass(t) ==
    /\ prog.entry = "copyfilepass" /\ ThreadMoves(t, "start", "copy")
    /\ got' = [got EXCEPT ![t] = t]
    /\ UNCHANGED <<prog, broken, mpc, counter, table, args, blocks, cancel, total, wrong>>

copyfilemalloc(t) ==
    /\ prog.entry = "copyfilemalloc"
    /\ ThreadMoves(t, "start", IF broken[t] = "malloc" THEN "failed" ELSE "copy")
    /\ got' = [got EXCEPT ![t] = t]
    /\ UNCHANGED <<prog, broken, mpc, counter, table, args, blocks, cancel, total, wrong>>

processfd(t) ==
    /\ prog.entry \in {"processfd", "processfdcancel"} /\ ThreadMoves(t, "start", "read")
    /\ got' = [got EXCEPT ![t] = t]
    /\ UNCHANGED <<prog, broken, mpc, counter, table, args, blocks, cancel, total, wrong>>

\* One readwrite of copyfile, and its last, which reads nothing or fails: in either case
\* copyfile returns what it has copied so far.
copyfile(t) ==
    /\ thr[t] = "copy"
    /\ wrong' = (wrong \/ ~Mine(args[t].in, t) \/ ~Mine(args[t].out, t))
    /\ \/ blocks[t] < Blocks /\ blocks' = [blocks EXCEPT ![t] = @ + 1] /\ UNCHANGED thr
       \/ /\ blocks[t] = Blocks \/ broken[t] = "copy"
          /\ ThreadMoves(t, "copy", "closein") /\ UNCHANGED blocks
    /\ UNCHANGED <<prog, broken, mpc, counter, table, args, got, cancel, total>>

Close(t, d, from, to) ==
    /\ ThreadMoves(t, from, to)
    /\ wrong' = (wrong \/ ~Mine(d, t))
    /\ table' = [table EXCEPT ![d] = Free]
    /\ UNCHANGED <<prog, broken, mpc, counter, args, blocks, got, cancel, total>>

\* Mutant of CloseFiles: the source is closed twice.
CloseSourceTwice(t) ==
    \/ Close(t, args[t].in, "closein", "closeout")
    \/ Close(t, args[t].in, "closeout", "done")

CloseFiles(t) ==
    \/ Close(t, args[t].in, "closein", "closeout")
    \/ Close(t, args[t].out, "closeout", "done")

\* r_read returns a command, or nothing more.
ReadCommandFrom(t) ==
    /\ ThreadMoves(t, "read", IF blocks[t] = Blocks THEN "done" ELSE "command")
    /\ wrong' = (wrong \/ ~Mine(args[t].in, t))
    /\ UNCHANGED <<prog, broken, mpc, counter, table, args, blocks, got, cancel, total>>

docommand(t) ==
    /\ ThreadMoves(t, "command", "read")
    /\ blocks' = [blocks EXCEPT ![t] = @ + 1]
    /\ UNCHANGED <<prog, broken, mpc, counter, table, args, got, cancel, total, wrong>>

\* Another thread cancels a monitor; the request waits while it is disabled, that
\* is during a command, and takes effect in r_read.
CancelMonitor(t) ==
    /\ prog.entry = "processfdcancel" /\ thr[t] \in {"start", "read", "command"} /\ t \notin cancel
    /\ cancel' = cancel \cup {t}
    /\ UNCHANGED <<prog, broken, mpc, counter, table, args, thr, blocks, got, total, wrong>>

CanceledMonitor(t) ==
    /\ t \in cancel /\ ThreadMoves(t, "read", "done")
    /\ UNCHANGED <<prog, broken, mpc, counter, table, args, blocks, got, cancel, total, wrong>>

ThreadStep(t) == printarg(t) \/ copyfilepass(t) \/ copyfilemalloc(t) \/ processfd(t) \/ copyfile(t)
                 \/ CloseFiles(t) \/ ReadCommandFrom(t) \/ docommand(t) \/ CanceledMonitor(t)
ThreadsMain == OpenSource \/ OpenDest \/ CreateThread \/ StartJoin \/ JoinThread
ThreadsNext == ThreadsMain \/ \E t \in Index : ThreadStep(t) \/ CancelMonitor(t)
ThreadsSpec == ThreadsInit /\ [][ThreadsNext]_dtvars

-----------------------------------------------------------------------------
(* Properties.                                                             *)

\* While main still opens files, the threads it has created close theirs, whose
\* descriptors it gets again: no thread ever uses a descriptor of another one, and
\* in the end all files of the created threads are closed, once.  The total main
\* reports is that of the complete copies and of what was copied before a read or a
\* write failed, which main cannot tell from them: never more than those copies can
\* hold, and never less than the complete ones.  A thread gets its own index, except that in
\* badparameters it may get any later one; and no other program but those two that
\* main's comments admit can crash.
DescriptorsKept ==
    /\ ~wrong
    /\ mpc = "end" /\ prog.opens =>
           /\ \A k \in Index : thr[k] = "done" => \A d \in DOMAIN table : table[d] # k
           /\ Blocks * Cardinality({k \in Index : broken[k] = "none"}) <= total
           /\ total <= Blocks * Cardinality({k \in Index : broken[k] \in {"none", "copy"}})
    /\ \A k \in Index : got[k] # Free /\ ~prog.shared => got[k] = k
    /\ \A k \in Index : got[k] # Free => got[k] \in k..NumIndexes
    /\ mpc = "crash" => "malloc" \in {broken[k] : k \in Index} \/ prog = monitorfdcancel
=============================================================================
