----------------------------- MODULE SemBuffer ------------------------------
(***************************************************************************)
(* chapter16/buffersem.c: the bounded buffer with two counting semaphores, *)
(* initialized by the first call of getitem or putitem.                    *)
(*                                                                         *)
(* pc[t], the next call of thread t, in program order:                     *)
(*   idle                           not in getitem or putitem              *)
(*   once                           in pthread_once, not running the body  *)
(*   inititems, initslots, initdone running the body, bufferinit           *)
(*   semwait, lock, xfer, unlock, sempost          getitem and putitem     *)
(*   return                         the call has its result                *)
(***************************************************************************)
EXTENDS Naturals, FiniteSets

CONSTANTS
    Threads, Items,
    NoItem, NoThread,
    BufSize,        \* BUFSIZE of buffer.h
    FaultSets       \* sets of library calls, one of which may fail in a run

ASSUME SemThreadsAssumption == IsFiniteSet(Threads)
ASSUME SemNoThreadAssumption == NoThread \notin Threads
ASSUME SemBufSizeAssumption == BufSize \in Nat \ {0}
ASSUME SemFaultsAssumption ==
    \A f \in FaultSets : f \subseteq
        {"once", "sem_init", "sem_wait", "mutex_lock", "mutex_unlock", "sem_post"}

VARIABLES
    buffer, bufin, bufout,
    initdone, initerror,
    once,               \* initonce: "new", "running" or "done"
    semitems, semslots, \* values; static storage holds 0 before sem_init
    lock, pc, call, item,
    faults,             \* the calls that may fail in this run, constant
    failed,             \* the call of the thread returns an error
    stored              \* ghost: how many items are in the buffer

ring == <<buffer, bufin, bufout, stored>>
init == <<initdone, initerror, once, faults>>
sems == <<semitems, semslots>>
locals == <<call, item, failed>>
vars == <<ring, init, sems, lock, pc, locals>>

Init ==
    /\ buffer = [k \in 0..(BufSize - 1) |-> NoItem]
    /\ bufin = 0 /\ bufout = 0 /\ stored = 0
    /\ initdone = FALSE /\ initerror = FALSE /\ once = "new"
    /\ semitems = 0 /\ semslots = 0
    /\ lock = NoThread
    /\ pc = [t \in Threads |-> "idle"]
    /\ call = [t \in Threads |-> "none"]
    /\ item = [t \in Threads |-> NoItem]
    /\ failed = [t \in Threads |-> FALSE]
    /\ faults \in FaultSets

Goto(t, from, to) == pc[t] = from /\ pc' = [pc EXCEPT ![t] = to]

Fails(t, site, from) ==
    /\ site \in faults
    /\ Goto(t, from, "return")
    /\ failed' = [failed EXCEPT ![t] = TRUE]
    /\ UNCHANGED <<ring, init, call, item>>

-----------------------------------------------------------------------------
(* Calls, and the initialization by the first of them.                     *)

Call(t, function, i) ==
    /\ Goto(t, "idle", IF initdone THEN "semwait" ELSE "once")
    /\ call' = [call EXCEPT ![t] = function]
    /\ item' = [item EXCEPT ![t] = i]
    /\ UNCHANGED <<ring, init, sems, lock, failed>>

\* Mutant of Once: a flag that is tested and set, without waiting for the
\* thread that runs the body.
OnceWithoutWait(t) ==
    /\ \/ once = "new" /\ Goto(t, "once", "inititems") /\ once' = "running"
       \/ once # "new" /\ Goto(t, "once", "semwait") /\ UNCHANGED once
    /\ UNCHANGED <<ring, sems, lock, locals, faults, initdone, initerror>>

\* Mutant of Once: every caller initializes.
OnceNot(t) ==
    /\ Goto(t, "once", "inititems")
    /\ UNCHANGED <<ring, sems, lock, locals, init>>

\* pthread_once: the first caller runs the body, the others wait for it to
\* end.  getitem and putitem ignore what bufferinitonce returns.
Once(t) ==
    /\ \/ once = "new" /\ Goto(t, "once", "inititems") /\ once' = "running"
       \/ once = "done" /\ Goto(t, "once", "semwait") /\ UNCHANGED once
       \/ "once" \in faults /\ Goto(t, "once", "semwait") /\ UNCHANGED once
    /\ UNCHANGED <<ring, sems, lock, locals, faults, initdone, initerror>>

InitItems(t) ==
    /\ Goto(t, "inititems", "initslots")
    /\ semitems' = 0
    /\ UNCHANGED <<ring, init, semslots, lock, locals>>

InitSlots(t) ==
    /\ Goto(t, "initslots", "initdone")
    /\ semslots' = BufSize
    /\ UNCHANGED <<ring, init, semitems, lock, locals>>

\* bufferinit returns an error: initerror is set, initdone is not, and the
\* body will not run again.
InitFails(t) ==
    /\ "sem_init" \in faults
    /\ Goto(t, "inititems", "semwait") \/ Goto(t, "initslots", "semwait")
    /\ initerror' = TRUE /\ once' = "done"
    /\ UNCHANGED <<ring, sems, lock, locals, faults, initdone>>

InitDone(t) ==
    /\ Goto(t, "initdone", "semwait")
    /\ initdone' = TRUE /\ once' = "done"
    /\ UNCHANGED <<ring, sems, lock, locals, faults, initerror>>

-----------------------------------------------------------------------------
(* getitem takes a permit of semitems and gives one to semslots; putitem   *)
(* the other way round.                                                    *)

\* EINTR restarts the wait.
SemWait(t) ==
    /\ Goto(t, "semwait", "lock")
    /\ \/ call[t] = "getitem" /\ semitems > 0 /\ semitems' = semitems - 1 /\ UNCHANGED semslots
       \/ call[t] = "putitem" /\ semslots > 0 /\ semslots' = semslots - 1 /\ UNCHANGED semitems
    /\ UNCHANGED <<ring, init, lock, locals>>

SemWaitFails(t) == Fails(t, "sem_wait", "semwait") /\ UNCHANGED <<sems, lock>>

MutexLock(t) ==
    /\ lock = NoThread
    /\ lock' = t
    /\ Goto(t, "lock", "xfer")
    /\ UNCHANGED <<ring, init, sems, locals>>

\* The permit is not given back.
MutexLockFails(t) == Fails(t, "mutex_lock", "lock") /\ UNCHANGED <<sems, lock>>

GetXfer(t) ==
    /\ call[t] = "getitem"
    /\ Goto(t, "xfer", "unlock")
    /\ item' = [item EXCEPT ![t] = buffer[bufout]]
    /\ bufout' = (bufout + 1) % BufSize
    /\ stored' = stored - 1
    /\ UNCHANGED <<buffer, bufin, init, sems, lock, call, failed>>

\* Mutant: the index is increased before it is used.
PutXferAfter(t) ==
    /\ call[t] = "putitem"
    /\ Goto(t, "xfer", "unlock")
    /\ bufin' = (bufin + 1) % BufSize
    /\ buffer' = [buffer EXCEPT ![bufin'] = item[t]]
    /\ stored' = stored + 1
    /\ UNCHANGED <<bufout, init, sems, lock, call, item, failed>>

PutXfer(t) ==
    /\ call[t] = "putitem"
    /\ Goto(t, "xfer", "unlock")
    /\ buffer' = [buffer EXCEPT ![bufin] = item[t]]
    /\ bufin' = (bufin + 1) % BufSize
    /\ stored' = stored + 1
    /\ UNCHANGED <<bufout, init, sems, lock, call, item, failed>>

MutexUnlock(t) ==
    /\ Goto(t, "unlock", "sempost")
    /\ lock' = NoThread
    /\ UNCHANGED <<ring, init, sems, locals>>

MutexUnlockFails(t) == Fails(t, "mutex_unlock", "unlock") /\ UNCHANGED <<sems, lock>>

SemPost(t) ==
    /\ Goto(t, "sempost", "return")
    /\ \/ call[t] = "putitem" /\ semitems' = semitems + 1 /\ UNCHANGED semslots
       \/ call[t] = "getitem" /\ semslots' = semslots + 1 /\ UNCHANGED semitems
    /\ UNCHANGED <<ring, init, lock, locals>>

SemPostFails(t) == Fails(t, "sem_post", "sempost") /\ UNCHANGED <<sems, lock>>

Return(t) ==
    /\ Goto(t, "return", "idle")
    /\ call' = [call EXCEPT ![t] = "none"]
    /\ item' = [item EXCEPT ![t] = NoItem]
    /\ failed' = [failed EXCEPT ![t] = FALSE]
    /\ UNCHANGED <<ring, init, sems, lock>>

Proceed(t) ==
    \/ Once(t) \/ InitItems(t) \/ InitSlots(t) \/ InitDone(t)
    \/ SemWait(t) \/ MutexLock(t) \/ GetXfer(t) \/ PutXfer(t)
    \/ MutexUnlock(t) \/ SemPost(t) \/ Return(t)

Fail(t) ==
    \/ InitFails(t) \/ SemWaitFails(t) \/ MutexLockFails(t)
    \/ MutexUnlockFails(t) \/ SemPostFails(t)

Next ==
    \E t \in Threads :
        \/ Proceed(t)
        \/ Fail(t)
        \/ Call(t, "getitem", NoItem)
        \/ \E i \in Items : Call(t, "putitem", i)

Spec == Init /\ [][Next]_vars

-----------------------------------------------------------------------------
(* Properties.                                                             *)

At(function, positions) == {t \in Threads : call[t] = function /\ pc[t] \in positions}

TypeOK ==
    /\ buffer \in [0..(BufSize - 1) -> Items \cup {NoItem}]
    /\ {bufin, bufout} \subseteq 0..(BufSize - 1)
    /\ {stored, semitems, semslots} \subseteq 0..BufSize
    /\ once \in {"new", "running", "done"}
    /\ lock \in Threads \cup {NoThread}
    /\ item \in [Threads -> Items \cup {NoItem}]

\* The permits out of the semaphores: taken and not used, used and not posted.
ItemPermits == semitems + Cardinality(At("getitem", {"lock", "xfer"}))
                        + Cardinality(At("putitem", {"unlock", "sempost"}))
SlotPermits == semslots + Cardinality(At("putitem", {"lock", "xfer"}))
                        + Cardinality(At("getitem", {"unlock", "sempost"}))

\* A permit stands for an item or a free slot that nobody else can claim: no
\* order of calls ever makes one too many, failures lose some, and without
\* failures none is lost, so that no thread waits beside an item or a slot.
\* Nobody waits on a semaphore that another thread is about to initialize,
\* unless pthread_once itself failed.
PermitsAreBacked ==
    /\ ItemPermits <= stored
    /\ SlotPermits <= BufSize - stored
    /\ faults = {} /\ initdone => ItemPermits + SlotPermits = BufSize
    /\ "once" \notin faults =>
          \A t \in Threads : pc[t] \in {"semwait", "lock", "xfer", "unlock", "sempost"} =>
                                 initdone \/ initerror

Contents == [k \in 1..stored |-> buffer[(bufout + k - 1) % BufSize]]

Queue == INSTANCE BoundedQueue
            WITH Clients <- Threads, Capacity <- BufSize,
                 queue <- Contents, closed <- FALSE, hand <- item

\* The semaphore buffer is the same FIFO queue as the condition variable one.
RefinesQueue == Queue!Spec
=============================================================================
