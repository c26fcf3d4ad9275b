------------------------------ MODULE Monitors ------------------------------
(***************************************************************************)
(* The programs of chapter04 that watch several descriptors in one loop:   *)
(*                                                                         *)
(*   "select"  monitorselect: select, then read each descriptor that is    *)
(*             set, until numready of them are done;                       *)
(*   "poll"    monitorpoll: the same with poll and revents;                *)
(*   "copy2"   copy2files: two descriptors, readwrite on each that is set, *)
(*             until one of them ends;                                     *)
(*   "which"   whichisreadytest: reads the descriptor whichisready returns,*)
(*             the first of two that is set, until one of them ends;       *)
(*   "work"    process_or_do_work: reads two descriptors without waiting,  *)
(*             the second when the first has nothing, and does something   *)
(*             else when neither has.                                      *)
(*                                                                         *)
(* At the other end of descriptor d a process writes Load[d] bytes, when   *)
(* it likes, and closes.  A read that finds neither bytes nor a closed end *)
(* blocks.  select and poll start again when interrupted, with the sets    *)
(* rebuilt, which is no step here; whichisready fails.                     *)
(***************************************************************************)
EXTENDS Integers, FiniteSets

CONSTANTS
    NumFds,         \* numfds
    Loads,          \* the Loads to choose from: how much is written to each d
    ReadSize,       \* BUFSIZE
    MonKinds        \* subset of {"select", "poll", "copy2", "which", "work"}

Fds == 1..NumFds

ASSUME NumFdsAssumption == NumFds \in Nat \ {0}
ASSUME LoadsAssumption == Loads \subseteq [Fds -> Nat]
ASSUME ReadSizeAssumption == ReadSize \in Nat
ASSUME MonKindsAssumption == MonKinds \subseteq {"select", "poll", "copy2", "which", "work"}

VARIABLES
    monkind, Load, monfaults,       \* constant; monfaults: "error", of select or read;
                                    \* "fcntl", of setnonblock, which goes unnoticed
    left, avail, closed,            \* the writers; the bytes in between
    mpc,                            \* wait, scan or done
    watch,                          \* fd[d] has not been given up
    numnow, numready, mi,           \* mi is i, from 1
    readset, hung,                  \* what select reported; POLLHUP alone
    taken                           \* bytes given to docommand, or copied

monchoice == <<monkind, Load, monfaults>>
Nonblocking == monkind = "work"
TakesOne == monkind \in {"copy2", "which"}  \* they end with one of the two
monvars == <<monchoice, left, avail, closed, mpc, watch, numnow, numready,
             mi, readset, hung, taken>>

MonInit ==
    /\ monkind \in MonKinds /\ Load \in Loads
    /\ monfaults \in {{}, {"error"}} \cup IF Nonblocking THEN {{"fcntl"}} ELSE {}
    /\ left = Load
    /\ avail = [d \in Fds |-> 0] /\ closed = [d \in Fds |-> FALSE]
    /\ mpc = (IF Nonblocking THEN "scan" ELSE "wait") /\ watch = [d \in Fds |-> TRUE] /\ numnow = NumFds
    /\ numready = 0 /\ mi = 1 /\ readset = {} /\ hung = {}
    /\ taken = [d \in Fds |-> 0]

-----------------------------------------------------------------------------
(* The writers.                                                            *)

Writes(d) ==
    /\ left[d] > 0
    /\ \E n \in 1..left[d] :
          /\ left' = [left EXCEPT ![d] = @ - n]
          /\ avail' = [avail EXCEPT ![d] = @ + n]
    /\ UNCHANGED <<monchoice, closed, mpc, watch, numnow, numready, mi, readset, hung, taken>>

Closes(d) ==
    /\ left[d] = 0 /\ ~closed[d]
    /\ closed' = [closed EXCEPT ![d] = TRUE]
    /\ UNCHANGED <<monchoice, left, avail, mpc, watch, numnow, numready, mi, readset, hung, taken>>

-----------------------------------------------------------------------------
(* The monitor.                                                            *)

\* A read of d would not block.
Readable(d) == avail[d] > 0 \/ closed[d]

\* select or poll returns what can be read now.  Where nothing but the end is
\* left to read, poll may report POLLHUP without POLLRDNORM.
Wait ==
    /\ mpc = "wait" /\ numnow > 0
    /\ readset' = {d \in Fds : watch[d] /\ Readable(d)}
    /\ readset' # {}
    /\ hung' \in IF monkind = "poll" THEN SUBSET {d \in readset' : avail[d] = 0} ELSE {{}}
    /\ numready' = Cardinality(readset')
    /\ mi' = 1
    /\ mpc' = "scan"
    /\ UNCHANGED <<monchoice, left, avail, closed, watch, numnow, taken>>

\* The for loop over the descriptors ends; numready is of monitorselect and monitorpoll.
Scanned ==
    /\ mpc = "scan" /\ ~Nonblocking
    /\ mi > NumFds \/ (numready = 0 /\ ~TakesOne)
    /\ mpc' = "wait"
    /\ UNCHANGED <<monchoice, left, avail, closed, watch, numnow, numready, mi, readset, hung, taken>>

AtDescriptor(d) ==
    /\ mpc = "scan" /\ mi = d /\ ~Nonblocking
    /\ numready > 0 \/ TakesOne
    /\ mi' = IF monkind = "which" /\ d \in readset THEN NumFds + 1 ELSE mi + 1

Skip(d) ==
    /\ AtDescriptor(d) /\ d \notin readset
    /\ UNCHANGED <<monchoice, left, avail, closed, mpc, watch, numnow, numready, readset, hung, taken>>

\* Mutant of GiveUp: the descriptor is still counted.
GiveUpUncounted(d) ==
    /\ watch' = [watch EXCEPT ![d] = FALSE]
    /\ UNCHANGED <<mpc, numnow>>

\* The descriptor has ended or failed: it is closed and not looked at again;
\* copy2files and whichisreadytest give up both.
GiveUp(d) ==
    IF TakesOne THEN mpc' = "done" /\ UNCHANGED <<watch, numnow>>
    ELSE /\ watch' = [watch EXCEPT ![d] = FALSE]
         /\ numnow' = numnow - 1
         /\ UNCHANGED mpc

\* r_read of a descriptor that was reported.
ReadData(d) ==
    /\ AtDescriptor(d) /\ d \in readset \ hung
    /\ \E n \in 1..ReadSize :
          /\ n <= avail[d]
          /\ avail' = [avail EXCEPT ![d] = @ - n]
          /\ taken' = [taken EXCEPT ![d] = @ + n]
    /\ numready' = numready - 1
    /\ UNCHANGED <<monchoice, left, closed, mpc, watch, numnow, readset, hung>>

\* r_read returns 0 or -1.
ReadEnds(d) ==
    /\ AtDescriptor(d) /\ d \in readset \ hung
    /\ (avail[d] = 0 /\ closed[d]) \/ "error" \in monfaults
    /\ GiveUp(d)
    /\ numready' = numready - 1
    /\ UNCHANGED <<monchoice, left, avail, closed, readset, hung, taken>>

\* POLLHUP or POLLERR without POLLRDNORM: closed without a read, and numready
\* is left alone.
HungUp(d) ==
    /\ AtDescriptor(d) /\ d \in hung
    /\ GiveUp(d)
    /\ UNCHANGED <<monchoice, left, avail, closed, numready, readset, hung, taken>>

\* numnow is 0, or select failed: everything still open is closed.
Leave ==
    /\ mpc = "wait"
    /\ numnow = 0 \/ "error" \in monfaults
    /\ mpc' = "done"
    /\ watch' = IF TakesOne THEN watch ELSE [d \in Fds |-> FALSE]
    /\ UNCHANGED <<monchoice, left, avail, closed, numnow, numready, mi, readset, hung, taken>>

\* process_or_do_work.  After something has been read it begins again.
WorkReads(d) ==
    /\ Nonblocking /\ mpc = "scan" /\ mi = d
    /\ \E n \in 1..ReadSize :
          /\ n <= avail[d]
          /\ avail' = [avail EXCEPT ![d] = @ - n]
          /\ taken' = [taken EXCEPT ![d] = @ + n]
    /\ mi' = 1
    /\ UNCHANGED <<monchoice, left, closed, mpc, watch, numnow, numready, readset, hung>>

\* EAGAIN, or 0 at the end, which it does not tell apart: on to the next descriptor,
\* or to something else.  The first one blocks when it could not be changed.
NothingToRead(d) ==
    /\ Nonblocking /\ mpc = "scan" /\ mi = d
    /\ avail[d] = 0
    /\ closed[d] \/ d # 1 \/ "fcntl" \notin monfaults
    /\ mi' = IF d = NumFds THEN 1 ELSE d + 1
    /\ UNCHANGED <<monchoice, left, avail, closed, mpc, watch, numnow, numready, readset, hung, taken>>

WorkFails ==
    /\ Nonblocking /\ mpc = "scan" /\ "error" \in monfaults
    /\ mpc' = "done"
    /\ UNCHANGED <<monchoice, left, avail, closed, watch, numnow, numready, mi, readset, hung, taken>>

MonStep ==
    \/ WorkFails \/ \E d \in Fds : WorkReads(d) \/ NothingToRead(d)
    \/ Wait \/ Scanned \/ Leave
    \/ \E d \in Fds : Skip(d) \/ ReadData(d) \/ ReadEnds(d) \/ HungUp(d)

WriterStep(d) == Writes(d) \/ Closes(d)

MonNext == MonStep \/ \E d \in Fds : WriterStep(d)

MonSpec == MonInit /\ [][MonNext]_monvars

-----------------------------------------------------------------------------
(* Properties.                                                             *)

MonTypeOK ==
    /\ mpc \in {"wait", "scan", "done"}
    /\ mi \in 1..(NumFds + 1) /\ numnow \in 0..NumFds /\ numready \in 0..NumFds
    /\ hung \subseteq readset /\ readset \subseteq Fds

\* The counters agree with the descriptors: numnow counts those still watched,
\* so the loop goes on exactly as long as there are any; numready is never
\* used up before the last descriptor that was reported has had its turn; no
\* read blocks, whatever has happened since select; and a monitor that comes
\* to its end without an error has taken everything that was written.
MonitorAgrees ==
    /\ mpc # "done" => numnow = Cardinality({d \in Fds : watch[d]})
    /\ mpc = "scan" /\ ~Nonblocking =>
           LET todo == {d \in readset : d >= mi} IN
           /\ ~TakesOne => numready >= Cardinality(todo)
           /\ \A d \in todo : watch[d] /\ Readable(d)
    /\ mpc = "done" /\ monfaults = {} =>
           IF TakesOne THEN \E d \in Fds : taken[d] = Load[d]
           ELSE taken = Load

\* A monitor comes to its end; process_or_do_work has none, but takes everything
\* that is written, also when it waits for one descriptor without wanting to.
MonitorSettled == mpc = "done" \/ (Nonblocking /\ taken = Load)
=============================================================================
