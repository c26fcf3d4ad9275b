---------------------------- MODULE SharedMemSum ----------------------------
(***************************************************************************)
(* chapter15/sharedmemsum.c and initsemset.c: processes that start at any  *)
(* time attach a System V segment with a count and a sum, and a semaphore  *)
(* that protects them.  Whoever finds no segment creates it; whoever finds *)
(* no semaphore creates it; the ready flag in the segment tells the others *)
(* that the semaphore has its initial value.                               *)
(*                                                                         *)
(* pc[p] is the next system call or access of process p, in program order: *)
(*   shmget, zerocount, zerosum    initshared, the creator of the segment  *)
(*   semget, setval, ready, spin   initsemset                              *)
(*   lock, sum, putsum, count, putcount, unlock      add                   *)
(*   rlock, read, runlock                            getcountandsum        *)
(*   idle, failed, dead            between calls; returned -1; killed      *)
(* The loads and stores of add are steps of their own: the creator's zeros *)
(* are stored without the semaphore and may fall between them.             *)
(***************************************************************************)
EXTENDS Naturals, FiniteSets

CONSTANTS
    Processes,
    MaxAdds,        \* bound: calls of add by each process
    FailureSets     \* sets of calls, one of which may fail in a run; "killed"

ASSUME MaxAddsAssumption == MaxAdds \in Nat
ASSUME FailuresAssumption ==
    \A f \in FailureSets :
        f \subseteq {"shmget", "shmat", "semget", "setval", "semop", "killed"}

VARIABLES
    segment, count, sum, ready,     \* does the segment exist; its three fields
    semaphore, semval,              \* does the semaphore exist; its value
    pc,
    failures,   \* what may fail in this run, constant
    register,   \* the value each process has loaded and not stored yet
    calls,      \* calls of add each process has begun
    added,      \* ghost: additions stored to count, and to sum
    late        \* ghost: has the creator of the segment stored a zero after ready

segmentvars == <<segment, count, sum, ready, semaphore, semval>>
ghosts == <<added, late, failures>>
shmvars == <<segmentvars, pc, register, calls, ghosts>>

Positions == {"shmget", "zerocount", "zerosum", "semget", "setval", "ready",
              "spin", "idle", "lock", "sum", "putsum", "count", "putcount", "unlock",
              "rlock", "read", "runlock", "failed", "dead"}

\* A new segment is filled with zeros by the system.
ShmInit ==
    /\ segment = FALSE /\ count = 0 /\ sum = 0 /\ ready = FALSE
    /\ semaphore = FALSE /\ semval = 0
    /\ pc = [p \in Processes |-> "shmget"]
    /\ calls = [p \in Processes |-> 0]
    /\ added = [count |-> 0, sum |-> 0]
    /\ late = FALSE
    /\ failures \in FailureSets
    /\ register = [p \in Processes |-> 0]

Goto(p, from, to) == pc[p] = from /\ pc' = [pc EXCEPT ![p] = to]

-----------------------------------------------------------------------------
(* initshared.                                                             *)

\* IPC_EXCL tells the one creator, which attaches and then initializes, from
\* the others, which attach what is there.
GetSegment(p) ==
    /\ Goto(p, "shmget", IF segment THEN "semget" ELSE "zerocount")
    /\ segment' = TRUE
    /\ UNCHANGED <<count, sum, ready, semaphore, semval, calls, ghosts, register>>

ZeroCount(p) ==
    /\ Goto(p, "zerocount", "zerosum")
    /\ count' = 0
    /\ late' = (late \/ ready)
    /\ UNCHANGED <<segment, sum, ready, semaphore, semval, calls, added, failures, register>>

ZeroSum(p) ==
    /\ Goto(p, "zerosum", "semget")
    /\ sum' = 0
    /\ late' = (late \/ ready)
    /\ UNCHANGED <<segment, count, ready, semaphore, semval, calls, added, failures, register>>

(* initsemset.                                                             *)

\* A new semaphore has no defined value until SETVAL.
GetSemaphore(p) ==
    /\ \/ /\ ~semaphore
          /\ Goto(p, "semget", "setval")
          /\ semval' \in {0, 1}
       \/ semaphore /\ Goto(p, "semget", "spin") /\ UNCHANGED semval
    /\ semaphore' = TRUE
    /\ UNCHANGED <<segment, count, sum, ready, calls, ghosts, register>>

SetVal(p) ==
    /\ Goto(p, "setval", "ready")
    /\ semval' = 1
    /\ UNCHANGED <<segment, count, sum, ready, semaphore, calls, ghosts, register>>

SetReady(p) ==
    /\ Goto(p, "ready", "idle")
    /\ ready' = TRUE
    /\ UNCHANGED <<segment, count, sum, semaphore, semval, calls, ghosts, register>>

\* nanosleep until the flag is set.
SpinEnds(p) ==
    /\ ready
    /\ Goto(p, "spin", "idle")
    /\ UNCHANGED <<segmentvars, calls, ghosts, register>>

InitFails(p) ==
    /\ \/ "shmget" \in failures /\ Goto(p, "shmget", "failed")
       \/ "shmat" \in failures /\ segment /\ Goto(p, "shmget", "failed")
       \/ "shmat" \in failures /\ Goto(p, "zerocount", "failed")
       \/ "semget" \in failures /\ Goto(p, "semget", "failed")
       \/ "setval" \in failures /\ Goto(p, "setval", "failed")
    /\ UNCHANGED <<segmentvars, calls, ghosts, register>>

InitShared(p) ==
    \/ GetSegment(p) \/ ZeroCount(p) \/ ZeroSum(p)
    \/ GetSemaphore(p) \/ SetVal(p) \/ SetReady(p) \/ SpinEnds(p)

-----------------------------------------------------------------------------
(* add and getcountandsum.                                                 *)

ShmCall(p) ==
    /\ \/ /\ calls[p] < MaxAdds
          /\ Goto(p, "idle", "lock")
          /\ calls' = [calls EXCEPT ![p] = @ + 1]
       \/ Goto(p, "idle", "rlock") /\ UNCHANGED calls
    /\ UNCHANGED <<segmentvars, ghosts, register>>

\* Mutant of Lock: the operation of semlock is 0 instead of -1.
LockNothing(p) ==
    /\ Goto(p, "lock", "sum") \/ Goto(p, "rlock", "read")
    /\ UNCHANGED <<segmentvars, calls, ghosts, register>>

\* semop(-1) waits for a positive value.
Lock(p) ==
    /\ semval > 0
    /\ semval' = semval - 1
    /\ Goto(p, "lock", "sum") \/ Goto(p, "rlock", "read")
    /\ UNCHANGED <<segment, count, sum, ready, semaphore, calls, ghosts, register>>

Load(p, from, to, value) ==
    /\ Goto(p, from, to)
    /\ register' = [register EXCEPT ![p] = value]
    /\ UNCHANGED <<segmentvars, calls, ghosts>>

StoreSum(p) ==
    /\ Goto(p, "putsum", "count")
    /\ sum' = register[p] + 1
    /\ register' = [register EXCEPT ![p] = 0]
    /\ added' = [added EXCEPT !.sum = @ + 1]
    /\ UNCHANGED <<segment, count, ready, semaphore, semval, calls, late, failures>>

StoreCount(p) ==
    /\ Goto(p, "putcount", "unlock")
    /\ count' = register[p] + 1
    /\ register' = [register EXCEPT ![p] = 0]
    /\ added' = [added EXCEPT !.count = @ + 1]
    /\ UNCHANGED <<segment, sum, ready, semaphore, semval, calls, late, failures>>

Add(p) ==
    \/ Load(p, "sum", "putsum", sum) \/ StoreSum(p)
    \/ Load(p, "count", "putcount", count) \/ StoreCount(p)

Read(p) == Goto(p, "read", "runlock") /\ UNCHANGED <<segmentvars, calls, ghosts, register>>

Unlock(p) ==
    /\ semval' = semval + 1
    /\ Goto(p, "unlock", "idle") \/ Goto(p, "runlock", "idle")
    /\ UNCHANGED <<segment, count, sum, ready, semaphore, calls, ghosts, register>>

\* semop fails: add and getcountandsum return -1, the second time with the
\* semaphore still taken.
SemopFails(p) ==
    /\ "semop" \in failures
    /\ pc[p] \in {"lock", "rlock", "unlock", "runlock"}
    /\ pc' = [pc EXCEPT ![p] = "idle"]
    /\ UNCHANGED <<segmentvars, calls, ghosts, register>>

\* The semaphore is not undone (no SEM_UNDO), the segment stays as it is.
Killed(p) ==
    /\ "killed" \in failures
    /\ pc[p] \notin {"failed", "dead"}
    /\ pc' = [pc EXCEPT ![p] = "dead"]
    /\ UNCHANGED <<segmentvars, calls, ghosts, register>>

ShmStep(p) == InitShared(p) \/ Lock(p) \/ Add(p) \/ Read(p) \/ Unlock(p)

ShmNext == \E p \in Processes : ShmStep(p) \/ ShmCall(p) \/ InitFails(p) \/ SemopFails(p) \/ Killed(p)

ShmSpec == ShmInit /\ [][ShmNext]_shmvars

-----------------------------------------------------------------------------
(* Properties.                                                             *)

ShmTypeOK ==
    /\ segment \in BOOLEAN /\ ready \in BOOLEAN /\ semaphore \in BOOLEAN
    /\ {count, sum} \subseteq 0..(MaxAdds * Cardinality(Processes))
    /\ semval \in {0, 1}
    /\ pc \in [Processes -> Positions]
    /\ calls \in [Processes -> 0..MaxAdds]

Inside == {p \in Processes : pc[p] \in {"sum", "putsum", "count", "putcount",
                                         "unlock", "read", "runlock"}}

\* The semaphore excludes: with processes started and killed at any moment, and
\* no order between the creation of the segment and that of the semaphore, no
\* two processes are ever inside add or getcountandsum together.
OneInside == Cardinality(Inside) + semval <= 1

\* No addition is lost, unless the creator of the segment was overtaken: it
\* stored one of its zeros when another process had made the semaphore ready.
ExactUnlessLate == late \/ (count = added.count /\ sum = added.sum)

SumIsGuarded == OneInside /\ ExactUnlessLate

\* add adds x to the sum: every addition made is in the segment, and
\* getcountandsum never sees a count and a sum that do not belong together.
AddsArePermanent ==
    /\ count = added.count
    /\ \A p \in Processes : pc[p] = "read" => sum = count

\* Everybody has left initshared and initsemset.
AllInitialized ==
    \A p \in Processes : pc[p] \notin {"shmget", "zerocount", "zerosum", "semget", "setval", "ready", "spin"}
=============================================================================
