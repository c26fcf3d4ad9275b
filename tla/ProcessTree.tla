----------------------------- MODULE ProcessTree ----------------------------
(***************************************************************************)
(* Chains and fans of processes that wait for each other:                  *)
(*                                                                         *)
(*   "chainwait"  chapter03/chainwaitmsg.c: each process waits for its     *)
(*                child and then writes its message;                       *)
(*   "chainsem"   chapter15/chainsemset.c: the messages are written under  *)
(*                a semaphore, which process 1 removes at the end;         *)
(*   "fanwait"    chapter03/fanwait.c: the parent waits for all children;  *)
(*   "fansync"    chapter06/synchronizefan.c: the parent lets everybody go *)
(*                through a pipe once all children exist.                  *)
(*                                                                         *)
(* Process 1 is the first; in a chain process i forks i + 1, in a fan      *)
(* process 1 forks all others.                                             *)
(*                                                                         *)
(* At the end of the module, by itself, chapter07/ring.c: a ring of        *)
(* processes, each with its standard output connected to the standard input*)
(* of the next one.  Process i makes pipe i and forks process i + 1; the   *)
(* parent writes to the new pipe, the child reads from it, and both close  *)
(* the two descriptors of the pipe.  fds is the descriptor table of each   *)
(* process: what is open where.  A failing call ends the process, and all  *)
(* its descriptors are closed.                                             *)
(***************************************************************************)
EXTENDS Naturals, FiniteSets

CONSTANTS
    NumProcs,       \* n of the command line
    TreeKinds       \* subset of the four names above

ASSUME NumProcsAssumption == NumProcs \in Nat \ {0}
ASSUME TreeKindsAssumption == TreeKinds \subseteq {"chainwait", "chainsem", "fanwait", "fansync"}

Procs == 1..NumProcs
Removed == 2

VARIABLES
    treekind, treefaults,   \* constant; which of the calls fork, semop, r_read,
                            \* r_write may fail
    ppc,                    \* none: not forked; fork, go, lock, critical,
                            \* unlock, wait, message, remove, done
    forked,                 \* children process i has forked
    nochild,                \* is childpid 0 or -1 in process 1
    sem,                    \* value of the semaphore, or Removed
    waitedfor,              \* children a process has waited for
    chars,                  \* characters in the pipe
    written,                \* characters written into it
    messages                \* the processes that have written theirs

treechoice == <<treekind, treefaults>>
treevars == <<treechoice, ppc, forked, nochild, sem, waitedfor, chars, written, messages>>

IsChain == treekind \in {"chainwait", "chainsem"}
Children(i) == IF IsChain THEN {c \in Procs : c = i + 1 /\ c <= i + forked[i]}
               ELSE IF i = 1 THEN {c \in Procs : c \in 2..(forked[1] + 1)} ELSE {}
Unwaited(i) == Children(i) \ waitedfor[i]

TreeInit ==
    /\ treekind \in TreeKinds /\ treefaults \in {{}, {"fork"}, {"semop"}, {"r_read"}, {"r_write"}}
    /\ ppc = [i \in Procs |-> IF i = 1 THEN "fork" ELSE "none"]
    /\ forked = [i \in Procs |-> 0] /\ nochild = TRUE
    /\ sem = 1 /\ waitedfor = [i \in Procs |-> {}]
    /\ chars = 0 /\ written = 0 /\ messages = {}

Moves(i, from, to) == ppc[i] = from /\ ppc' = [ppc EXCEPT ![i] = to]

AfterFork == CASE treekind = "chainsem" -> "lock"
               [] treekind = "fansync" -> "go"
               [] OTHER -> "wait"

-----------------------------------------------------------------------------
(* The loop that forks.                                                    *)

\* The process that is forked last in a chain, and a child in a fan, leave the
\* loop themselves.
Fork(i) ==
    LET c == IF IsChain THEN i + 1 ELSE forked[1] + 2 IN
    /\ ppc[i] = "fork" /\ c \in Procs
    /\ forked' = [forked EXCEPT ![i] = @ + 1]
    /\ nochild' = FALSE
    /\ ppc' = [ppc EXCEPT ![i] = IF IsChain THEN AfterFork ELSE "fork",
                          ![c] = IF IsChain THEN "fork" ELSE AfterFork]
    /\ UNCHANGED <<treechoice, sem, waitedfor, chars, written, messages>>

\* There is nothing left to fork, or fork fails and the loop breaks with -1.
ForkEnds(i) ==
    LET last == IF IsChain THEN i = NumProcs ELSE forked[1] + 1 = NumProcs IN
    /\ last \/ "fork" \in treefaults
    /\ Moves(i, "fork", AfterFork)
    /\ nochild' = (nochild \/ ~last)
    /\ UNCHANGED <<treechoice, forked, sem, waitedfor, chars, written, messages>>

-----------------------------------------------------------------------------
(* synchronizefan.c.                                                       *)

\* childpid > 0 in the parent: its last fork succeeded.  It goes on after a write
\* that fails.
WriteSync ==
    /\ ppc[1] = "go" /\ ~nochild /\ written < NumProcs
    /\ written' = written + 1
    /\ chars' = chars + 1 \/ ("r_write" \in treefaults /\ UNCHANGED chars)
    /\ UNCHANGED <<treechoice, ppc, forked, nochild, sem, waitedfor, messages>>

\* One character each; the pipe never ends, for its readers hold both ends.
ReadSync(i) ==
    /\ i = 1 => nochild \/ written = NumProcs
    /\ chars > 0 /\ chars' = chars - 1
    /\ Moves(i, "go", "message")
    /\ UNCHANGED <<treechoice, forked, nochild, sem, waitedfor, written, messages>>

\* Who cannot read says so, and does not wait.
ReadSyncFails(i) ==
    /\ i = 1 => nochild \/ written = NumProcs
    /\ "r_read" \in treefaults
    /\ Moves(i, "go", "message")
    /\ UNCHANGED <<treechoice, forked, nochild, sem, waitedfor, chars, written, messages>>

-----------------------------------------------------------------------------
(* chainsemset.c.                                                          *)

LockSem(i) ==
    /\ sem = 1 /\ sem' = 0
    /\ Moves(i, "lock", "critical")
    /\ UNCHANGED <<treechoice, forked, nochild, waitedfor, chars, written, messages>>

\* r_semop returns an error: a child returns at once, process 1 goes on to wait and
\* remove.  It does so when the set is removed, also to who is blocked in it; any other
\* error it may return, but nothing makes a blocked one return.
LockReturns(i) ==
    /\ Moves(i, "lock", IF i > 1 THEN "done" ELSE "wait")
    /\ UNCHANGED <<treechoice, forked, nochild, sem, waitedfor, chars, written, messages>>

LockRemoved(i) == sem = Removed /\ LockReturns(i)
LockFails(i) == "semop" \in treefaults /\ LockReturns(i)

Critical(i) ==
    /\ Moves(i, "critical", "unlock")
    /\ messages' = messages \cup {i}
    /\ UNCHANGED <<treechoice, forked, nochild, sem, waitedfor, chars, written>>

\* Mutant of UnlockSem: there is no exit section.
UnlockNothing(i) ==
    /\ Moves(i, "unlock", "wait")
    /\ UNCHANGED <<treechoice, forked, nochild, sem, waitedfor, chars, written, messages>>

\* When it fails, which is only reported, the semaphore stays taken.
UnlockSem(i) ==
    /\ \/ sem = 0 /\ sem' = 1
       \/ (sem = Removed \/ "semop" \in treefaults) /\ UNCHANGED sem
    /\ Moves(i, "unlock", "wait")
    /\ UNCHANGED <<treechoice, forked, nochild, waitedfor, chars, written, messages>>

RemoveSem ==
    /\ sem' = Removed
    /\ Moves(1, "remove", "done")
    /\ UNCHANGED <<treechoice, forked, nochild, waitedfor, chars, written, messages>>

-----------------------------------------------------------------------------
(* Waiting, and the end.                                                   *)

\* r_wait returns a child that has ended.
WaitChild(i) ==
    /\ ppc[i] = "wait"
    /\ \E c \in Unwaited(i) : /\ ppc[c] = "done"
                              /\ waitedfor' = [waitedfor EXCEPT ![i] = @ \cup {c}]
    /\ ppc' = [ppc EXCEPT ![i] =
                  IF treekind = "fanwait" THEN "wait"
                  ELSE IF treekind = "chainwait" THEN "message"
                  ELSE IF i = 1 THEN "remove" ELSE "done"]
    /\ UNCHANGED <<treechoice, forked, nochild, sem, chars, written, messages>>

\* Mutant of NoChildLeft: it waits only for one.
NoChildAfterOne(i) ==
    /\ Unwaited(i) = {} \/ waitedfor[i] # {}
    /\ Moves(i, "wait", IF treekind # "chainsem" THEN "message" ELSE IF i = 1 THEN "remove" ELSE "done")
    /\ UNCHANGED <<treechoice, forked, nochild, sem, waitedfor, chars, written, messages>>

\* ECHILD.
NoChildLeft(i) ==
    /\ Unwaited(i) = {}
    /\ Moves(i, "wait", IF treekind # "chainsem" THEN "message" ELSE IF i = 1 THEN "remove" ELSE "done")
    /\ UNCHANGED <<treechoice, forked, nochild, sem, waitedfor, chars, written, messages>>

Message(i) ==
    /\ Moves(i, "message", "done")
    /\ messages' = messages \cup {i}
    /\ UNCHANGED <<treechoice, forked, nochild, sem, waitedfor, chars, written>>

TreeStep(i) ==
    \/ Fork(i) \/ ForkEnds(i)
    \/ (i = 1 /\ (WriteSync \/ RemoveSem)) \/ ReadSync(i)
    \/ LockSem(i) \/ LockRemoved(i) \/ Critical(i) \/ UnlockSem(i)
    \/ WaitChild(i) \/ NoChildLeft(i) \/ Message(i)

\* What may happen to a process that waits, and need not.
TreeFault(i) == LockFails(i) \/ ReadSyncFails(i)

TreeNext == \E i \in Procs : TreeStep(i) \/ TreeFault(i)

TreeSpec == TreeInit /\ [][TreeNext]_treevars

-----------------------------------------------------------------------------
(* Properties.                                                             *)

Created == {i \in Procs : ppc[i] # "none"}

\* A process writes its message after its children have ended, in chainwait and
\* fanwait; at most one writes at a time under the semaphore, and, if no
\* semaphore operation fails, nobody is still to write when it is removed and it
\* is removed when process 1 has ended; nobody passes synchronizefan before all
\* processes exist, unless he could not read.
TreeInOrder ==
    /\ treekind \in {"chainwait", "fanwait"} =>
           \A i \in messages : \A c \in Children(i) : ppc[c] = "done"
    /\ Cardinality({i \in Procs : ppc[i] = "critical"}) <= 1
    /\ sem = Removed /\ "semop" \notin treefaults =>
           messages = Created /\ \A i \in Created : ppc[i] = "done"
    /\ treekind = "chainsem" => (ppc[1] = "done" <=> sem = Removed)
    /\ treekind = "fansync" /\ "r_read" \notin treefaults => (messages # {} => Created = Procs)

\* All processes end, but in these cases.  In synchronizefan the parent writes
\* nothing when its last fork failed, or there was none (n is 1), and too little when
\* a write fails.  In chainsemset an unlock that fails leaves the semaphore taken:
\* whoever is still to lock it waits for ever, and so does process 1 for its child.
DueToFinish == treekind # "fansync" \/ (NumProcs > 1 /\ treefaults \cap {"fork", "r_write"} = {})
TreeEnded == \A i \in Created : ppc[i] = "done"
UnlockFailed == "semop" \in treefaults /\ sem = 0 /\ \A i \in Procs : ppc[i] \notin {"critical", "unlock"}

-----------------------------------------------------------------------------
(* The ring.                                                               *)

CONSTANT RingSize       \* nprocs

ASSUME RingSizeAssumption == RingSize \in Nat \ {0}

Ringers == 1..RingSize
Descriptors == {"in", "out", "fd0", "fd1"}
Ends == [pipe : 0..RingSize, end : {"r", "w"}]
Closed == [pipe |-> RingSize + 1, end |-> "r"]

VARIABLES
    rfaults,        \* constant: may calls fail
    rpc,            \* none; first; pipe, fork, dup, close: in the loop; hello; exit
    isparent,       \* does the process go on as the parent of another one
    fds

ringvars == <<rfaults, rpc, isparent, fds>>

Table(in, out, a, b) == [d \in Descriptors |->
    IF d = "in" THEN in ELSE IF d = "out" THEN out ELSE IF d = "fd0" THEN a ELSE b]
NoneOpen == Table(Closed, Closed, Closed, Closed)
ReadEnd(p) == [pipe |-> p, end |-> "r"]
WriteEnd(p) == [pipe |-> p, end |-> "w"]

RingInit ==
    /\ rfaults \in BOOLEAN
    /\ rpc = [i \in Ringers |-> IF i = 1 THEN "first" ELSE "none"]
    /\ isparent = [i \in Ringers |-> FALSE]
    /\ fds = [i \in Ringers |-> NoneOpen]

Proceeds(i, from, to) == rpc[i] = from /\ rpc' = [rpc EXCEPT ![i] = to]
NextPc(i) == IF i = RingSize THEN "hello" ELSE "pipe"

\* Pipe 0 connects the first process to itself; its own descriptors are closed
\* again before there is any other process.
ConnectFirst ==
    /\ Proceeds(1, "first", NextPc(1))
    /\ fds' = [fds EXCEPT ![1] = Table(ReadEnd(0), WriteEnd(0), Closed, Closed)]
    /\ UNCHANGED <<rfaults, isparent>>

MakePipe(i) ==
    /\ Proceeds(i, "pipe", "fork")
    /\ fds' = [fds EXCEPT ![i] = [@ EXCEPT !["fd0"] = ReadEnd(i), !["fd1"] = WriteEnd(i)]]
    /\ UNCHANGED <<rfaults, isparent>>

ForkNext(i) ==
    /\ rpc[i] = "fork"
    /\ rpc' = [rpc EXCEPT ![i] = "dup", ![i + 1] = "dup"]
    /\ isparent' = [isparent EXCEPT ![i] = TRUE]
    /\ fds' = [fds EXCEPT ![i + 1] = fds[i]]
    /\ UNCHANGED rfaults

\* Mutant of Dup: the child is connected like the parent.
DupSame(i) ==
    /\ Proceeds(i, "dup", "close")
    /\ fds' = [fds EXCEPT ![i] = [@ EXCEPT !["out"] = fds[i]["fd1"]]]
    /\ UNCHANGED <<rfaults, isparent>>

Dup(i) ==
    /\ Proceeds(i, "dup", "close")
    /\ fds' = [fds EXCEPT ![i] =
                  IF isparent[i] THEN [@ EXCEPT !["out"] = fds[i]["fd1"]]
                                 ELSE [@ EXCEPT !["in"] = fds[i]["fd0"]]]
    /\ UNCHANGED <<rfaults, isparent>>

\* The parent leaves the loop; the child goes on with the next pipe.
CloseExtra(i) ==
    /\ Proceeds(i, "close", IF isparent[i] THEN "hello" ELSE NextPc(i))
    /\ fds' = [fds EXCEPT ![i] = [@ EXCEPT !["fd0"] = Closed, !["fd1"] = Closed]]
    /\ UNCHANGED <<rfaults, isparent>>

RingFails(i) ==
    /\ rfaults /\ rpc[i] \in {"first", "pipe", "fork", "dup", "close"}
    /\ rpc' = [rpc EXCEPT ![i] = "exit"]
    /\ fds' = [fds EXCEPT ![i] = NoneOpen]
    /\ UNCHANGED <<rfaults, isparent>>

RingStep(i) ==
    \/ (i = 1 /\ ConnectFirst) \/ MakePipe(i) \/ ForkNext(i)
    \/ Dup(i) \/ CloseExtra(i) \/ RingFails(i)

RingNext == \E i \in Ringers : RingStep(i)

RingSpec == RingInit /\ [][RingNext]_ringvars

-----------------------------------------------------------------------------
(* Properties of the ring.                                                 *)

Have(i, e) == \E d \in Descriptors : fds[i][d] = e
Following(i) == IF i = RingSize THEN 1 ELSE i + 1
RingFormed == \A i \in Ringers : rpc[i] \in {"hello", "exit", "none"}

\* When everybody says hello, the output of each process is the input of the
\* next one and of nobody else, and no other end of a pipe is open anywhere, so
\* that a process that ends is seen by its neighbour.  Also while the ring is
\* built, or breaks, a process in it reads from one pipe and writes to one,
\* and nobody waits on a pipe that he alone could write to, but for the first
\* while he is alone.
RingClosed ==
    /\ (\A i \in Ringers : rpc[i] = "hello") =>
           \A i \in Ringers :
              LET p == fds[i]["out"].pipe IN
              /\ fds[i]["out"] = WriteEnd(p) /\ fds[Following(i)]["in"] = ReadEnd(p)
              /\ \A j \in Ringers : /\ Have(j, WriteEnd(p)) => j = i
                                    /\ Have(j, ReadEnd(p)) => j = Following(i)
    /\ \A i \in Ringers :
          rpc[i] = "hello" =>
              /\ fds[i]["in"].end = "r" /\ fds[i]["out"].end = "w"
              /\ fds[i]["fd0"] = Closed /\ fds[i]["fd1"] = Closed
              /\ RingSize > 1 => fds[i]["in"].pipe # fds[i]["out"].pipe

\* Chains and fans of processes end in the order of their waits and characters, and
\* the processes of a ring hold the ends of its pipes and nothing else.
RelativesInOrder == TreeInOrder /\ RingClosed
=============================================================================
