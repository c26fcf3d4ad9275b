--------------------------- MODULE NamedSemaphores --------------------------
(***************************************************************************)
(* The programs of chapter14 around a POSIX semaphore.  Their processes or *)
(* threads, the members, enter a critical section, or meet at a barrier:   *)
(*                                                                         *)
(*   chainnamed       forked processes; each gets the semaphore by name;   *)
(*   chainsemaphoret  forked processes, each with its copy of an unnamed   *)
(*                    semaphore initialized before the fork;               *)
(*   chaincritical, maincritical  processes, threads, without a semaphore; *)
(*   maincriticalsem  threads with one semaphore;                          *)
(*   semsharedtest    threads that increment semshared.c's variable;       *)
(*   sbarriertest     forked processes at the barrier of sbarrierold.c,    *)
(*   sbarrierthreads  which threads of one process may use as well.        *)
(*                                                                         *)
(* An unlink by another process frees the name: who opens it next creates a*)
(* semaphore anew.  A process may be killed in its critical section.       *)
(***************************************************************************)
EXTENDS Naturals, Sequences, FiniteSets

CONSTANTS
    NumMembers,     \* n of the command line
    SemPrograms     \* set of records, subset of the ones below

chainnamed      == [forks |-> TRUE, sem |-> "named", body |-> "print"]
chainsemaphoret == [forks |-> TRUE, sem |-> "private", body |-> "print"]
chaincritical   == [forks |-> TRUE, sem |-> "no", body |-> "print"]
maincritical    == [forks |-> FALSE, sem |-> "no", body |-> "print"]
maincriticalsem == [forks |-> FALSE, sem |-> "shared", body |-> "print"]
semsharedtest   == [forks |-> FALSE, sem |-> "shared", body |-> "increment"]
sbarriertest    == [forks |-> TRUE, sem |-> "named", body |-> "barrier"]
sbarrierthreads == [forks |-> FALSE, sem |-> "named", body |-> "barrier"]

ASSUME NumMembersAssumption == NumMembers \in Nat \ {0}
ASSUME SemProgramsAssumption ==
    SemPrograms \subseteq {chainnamed, chainsemaphoret, chaincritical, maincritical, maincriticalsem,
                           semsharedtest, sbarriertest, sbarrierthreads}

Members == 1..NumMembers
None == 0

VARIABLES
    sprog,          \* constant: the program
    stale,          \* constant: an earlier run has left its semaphores, both 1
    unlinks,        \* times a name has been unlinked
    killed,         \* a member was killed in its critical section
    names,          \* name -> the semaphore it stands for, or None
    values,         \* the values of all semaphores created, in their order
    handle,         \* member -> the lock it has opened
    gate,           \* member -> the semaphore bwait it has opened
    seq,            \* member -> where it is
    shared,         \* shared of semshared.c, written in two steps
    copy,           \* member -> the value it has read of it
    barriercount    \* process -> its barriercount; threads share that of 1

semprogvars == <<sprog, stale, unlinks, killed, names, values, handle, gate, seq, shared, copy, barriercount>>

\* "no", "shared" and "private" semaphores exist before the members.
SemProgInit ==
    /\ sprog \in SemPrograms /\ stale \in {FALSE, sprog.sem = "named"}
    /\ unlinks = 0 /\ killed = FALSE
    /\ names = [lock |-> IF stale THEN 1 ELSE None, wait |-> IF stale THEN 2 ELSE None]
    /\ values = CASE sprog.sem = "private" -> [m \in Members |-> 1] [] sprog.sem = "shared" -> <<1>>
                  [] OTHER -> IF stale THEN <<1, 1>> ELSE <<>>
    /\ handle = [m \in Members |-> IF sprog.sem = "private" THEN m ELSE IF sprog.sem = "shared" THEN 1 ELSE None]
    /\ gate = [m \in Members |-> None]
    /\ seq = [m \in Members |-> IF m = 1 \/ (~sprog.forks /\ sprog.body # "barrier") THEN "start" ELSE "unborn"]
    /\ shared = 0 /\ copy = [m \in Members |-> 0] /\ barriercount = [m \in Members |-> 0]

MemberMoves(m, from, to) == seq[m] = from /\ seq' = [seq EXCEPT ![m] = to]
Entry == CASE sprog.sem = "named" -> "create" [] sprog.sem = "no" -> "critical" [] OTHER -> "wait"
IsBarrier == sprog.body = "barrier"

-----------------------------------------------------------------------------
(* Forking, and getnamed.                                                  *)

\* A process goes on in the loop only as the child.  sbarriertest opens its
\* semaphores first, and its members inherit them.
ForkMember(m) ==
    /\ seq[m] = IF IsBarrier THEN "started" ELSE "start"
    /\ LET next == m + 1
           on == IF IsBarrier THEN "arrive" ELSE Entry IN
         /\ seq' = [k \in Members |->
                        IF k = m \/ (IsBarrier /\ ~sprog.forks) THEN on
                        ELSE IF k = next /\ sprog.forks THEN seq[m] ELSE seq[k]]
         /\ handle' = [k \in Members |-> IF IsBarrier THEN handle[1] ELSE handle[k]]
         /\ gate' = [k \in Members |-> gate[1]]
    /\ UNCHANGED <<sprog, stale, unlinks, killed, names, values, shared, copy, barriercount>>

\* sem_open with O_CREAT | O_EXCL; name and value as each caller gives them.
Opens(m, name, val, from, open, next) ==
    /\ seq[m] = from
    /\ IF names[name] = None
       THEN /\ values' = Append(values, val)
            /\ names' = [names EXCEPT ![name] = Len(values) + 1]
            /\ seq' = [seq EXCEPT ![m] = next]
            /\ IF name = "lock" THEN handle' = [handle EXCEPT ![m] = Len(values) + 1] /\ UNCHANGED gate
               ELSE gate' = [gate EXCEPT ![m] = Len(values) + 1] /\ UNCHANGED handle
       ELSE seq' = [seq EXCEPT ![m] = open] /\ UNCHANGED <<values, names, handle, gate>>
    /\ UNCHANGED <<sprog, stale, unlinks, killed, shared, copy, barriercount>>

\* Mutant of Reopens: a second semaphore is created.
ReopensFirst(m, name, from, next) ==
    /\ MemberMoves(m, from, next)
    /\ handle' = [handle EXCEPT ![m] = Len(values) + 1] /\ values' = Append(values, 1)
    /\ UNCHANGED <<sprog, stale, unlinks, killed, names, gate, shared, copy, barriercount>>

\* sem_open of the existing name, which may have been unlinked meanwhile: then
\* getnamed fails and the process ends, after initbarrier has removed the lock.
Reopens(m, name, from, next) ==
    /\ MemberMoves(m, from, IF names[name] = None THEN "failed" ELSE next)
    /\ IF name = "lock" THEN handle' = [handle EXCEPT ![m] = names[name]] /\ UNCHANGED <<gate, names>>
       ELSE /\ gate' = [gate EXCEPT ![m] = names[name]] /\ UNCHANGED handle
            /\ names' = IF names.wait = None THEN [names EXCEPT !.lock = None] ELSE names
    /\ UNCHANGED <<sprog, stale, unlinks, killed, values, shared, copy, barriercount>>

GetLock(m) == \/ Opens(m, "lock", 1, "create", "open", IF IsBarrier THEN "creategate" ELSE "wait")
              \/ Reopens(m, "lock", "open", IF IsBarrier THEN "creategate" ELSE "wait")

\* initbarrier of sbarrierold.c.
StartBarrier(m) ==
    /\ IsBarrier /\ m = 1 /\ MemberMoves(m, "start", "create")
    /\ UNCHANGED <<sprog, stale, unlinks, killed, names, values, handle, gate, shared, copy, barriercount>>
GetGate(m) == \/ Opens(m, "wait", 0, "creategate", "opengate", "started")
              \/ Reopens(m, "wait", "opengate", "started")

\* destroynamed, by another process.
Unlink ==
    /\ unlinks = 0 /\ unlinks' = 1
    /\ \E n \in DOMAIN names : names[n] # None /\ names' = [names EXCEPT ![n] = None]
    /\ UNCHANGED <<sprog, stale, killed, values, handle, gate, seq, shared, copy, barriercount>>

-----------------------------------------------------------------------------
(* The critical section.                                                   *)

WaitLock(m) ==
    /\ MemberMoves(m, "wait", "critical") /\ values[handle[m]] > 0
    /\ values' = [values EXCEPT ![handle[m]] = @ - 1]
    /\ UNCHANGED <<sprog, stale, unlinks, killed, names, handle, gate, shared, copy, barriercount>>

\* The characters one by one, or shared++.
InCritical(m) ==
    /\ sprog.body # "barrier"
    /\ \/ MemberMoves(m, "critical", "half") /\ copy' = [copy EXCEPT ![m] = shared] /\ UNCHANGED shared
       \/ /\ MemberMoves(m, "half", IF sprog.sem = "no" THEN "done" ELSE "post")
          /\ shared' = (IF sprog.body = "increment" THEN copy[m] + 1 ELSE shared) /\ UNCHANGED copy
    /\ UNCHANGED <<sprog, stale, unlinks, killed, names, values, handle, gate, barriercount>>

PostLock(m) ==
    /\ MemberMoves(m, "post", "done")
    /\ values' = [values EXCEPT ![handle[m]] = @ + 1]
    /\ UNCHANGED <<sprog, stale, unlinks, killed, names, handle, gate, shared, copy, barriercount>>

\* A process that is killed never posts.
MemberKilled(m) ==
    /\ sprog = chainnamed /\ ~killed /\ killed' = TRUE
    /\ MemberMoves(m, "half", "failed")
    /\ UNCHANGED <<sprog, stale, unlinks, names, values, handle, gate, shared, copy, barriercount>>

-----------------------------------------------------------------------------
(* waitbarrier of sbarrierold.c.                                           *)

Counter(m) == IF sprog.forks THEN m ELSE 1

Arrive(m) ==
    /\ seq[m] = "arrive" /\ values[handle[m]] > 0
    /\ barriercount' = [barriercount EXCEPT ![Counter(m)] = @ + 1]
    /\ seq' = [seq EXCEPT ![m] = IF barriercount[Counter(m)] + 1 < NumMembers THEN "gate" ELSE "through"]
    /\ UNCHANGED <<sprog, stale, unlinks, killed, names, values, handle, gate, shared, copy>>

WaitGate(m) ==
    /\ MemberMoves(m, "gate", "through") /\ values[gate[m]] > 0
    /\ values' = [values EXCEPT ![gate[m]] = @ - 1]
    /\ UNCHANGED <<sprog, stale, unlinks, killed, names, handle, gate, shared, copy, barriercount>>

PostGate(m) ==
    /\ MemberMoves(m, "through", "done")
    /\ values' = [values EXCEPT ![gate[m]] = @ + 1]
    /\ UNCHANGED <<sprog, stale, unlinks, killed, names, handle, gate, shared, copy, barriercount>>

MemberStep(m) ==
    \/ (sprog.forks \/ IsBarrier) /\ (StartBarrier(m) \/ ForkMember(m))
    \/ ~sprog.forks /\ ~IsBarrier /\ MemberMoves(m, "start", Entry)
         /\ UNCHANGED <<sprog, stale, unlinks, killed, names, values, handle, gate, shared, copy, barriercount>>
    \/ GetLock(m) \/ GetGate(m) \/ WaitLock(m) \/ InCritical(m) \/ PostLock(m)
    \/ Arrive(m) \/ WaitGate(m) \/ PostGate(m)
SemProgNext == Unlink \/ \E m \in Members : MemberStep(m) \/ MemberKilled(m)

SemProgSpec == SemProgInit /\ [][SemProgNext]_semprogvars

-----------------------------------------------------------------------------
(* Properties.                                                             *)

InSection == {m \in Members : seq[m] \in {"critical", "half", "post"}}
Passed == {m \in Members : seq[m] \in {"through", "done"}}
Arrived == {m \in Members : seq[m] \in {"gate", "through", "done"}}

\* The members with one semaphore exclude each other, even those that came to it
\* by getnamed at the same time; getnamed fails only after an unlink, and then, or
\* with private copies, exclusion is lost.  No increment is lost.  Nobody passes
\* the barrier before everybody has arrived, and no forked process ever does, if its
\* semaphores are new: the last
\* one through leaves bwait at 1, for the next run.
SemaphoresGuard ==
    /\ sprog.sem \in {"named", "shared"} /\ unlinks = 0 => Cardinality(InSection) <= 1
    /\ unlinks = 0 /\ ~killed => \A m \in Members : seq[m] # "failed"
    /\ sprog = semsharedtest /\ (\A m \in Members : seq[m] = "done") => shared = NumMembers
    /\ IsBarrier /\ ~stale /\ Passed # {} => Arrived = Members
    /\ IsBarrier /\ sprog.forks /\ ~stale /\ NumMembers > 1 => Passed = {}

\* Everybody gets through but: after a member was killed with the lock, and at
\* the barrier of forked processes, where each counts only itself.
MembersDue == ~killed /\ ~(IsBarrier /\ sprog.forks)
MembersThrough == killed \/ \A m \in Members : seq[m] \in {"done", "failed", "unborn"}
=============================================================================
