---------------------------- MODULE ThreadObjects ---------------------------
(***************************************************************************)
(* The objects of chapter13 that threads share through a static mutex, each*)
(* used as in its test program:                                            *)
(*   "barrier"    tbarrier.c;                                              *)
(*   "counter"    counter.c: half the threads increment, half decrement;   *)
(*   "printinit", "testandset"  printinitmutex.c and testandsetonce.c;     *)
(*   "once"       printinitonce.c;                                         *)
(*   "strerror"   strerror_r.c, with a signal whose handler calls perror_r.*)
(* A thread has a stack of program counters: a signal handler runs on top  *)
(* of what it interrupts.                                                  *)
(***************************************************************************)
EXTENDS ComputeThreads, Integers, Sequences

CONSTANTS
    ObjThreads,     \* 1..n
    BarrierSize,    \* the argument of initbarrier
    Objects         \* subset of the names above

ASSUME ObjectsAssumption ==
    /\ ObjThreads \subseteq Nat \ {0} /\ IsFiniteSet(ObjThreads) /\ BarrierSize \in Int
    /\ Objects \subseteq {"barrier", "counter", "printinit", "testandset", "once", "strerror"}

Nobody == 0

VARIABLES
    object, faulty, \* constant: the object; may taking a lock or waiting for
                    \* the condition variable fail
    stack,          \* thread -> its program counters, the current one last
    owner,          \* owner of the mutex
    tally,          \* count; done; or the errnum in strerror's static buffer
    limit,
    var,            \* the variable that is initialized once
    loaded,         \* thread -> value it has read
    inits,          \* initializations
    result,         \* thread -> "none", "ok" or "error"
    sigs            \* thread -> [masked, old, sent, again]

objvars == <<object, faulty, stack, owner, tally, limit, var, loaded, inits, result, sigs>>

ObjInit ==
    /\ object \in Objects /\ faulty \in BOOLEAN
    /\ stack = [t \in ObjThreads |-> <<"call">>]
    /\ owner = Nobody /\ tally = 0 /\ limit = 0 /\ var = 0 /\ inits = 0
    /\ loaded = [t \in ObjThreads |-> 0] /\ result = [t \in ObjThreads |-> "none"]
    /\ sigs = [t \in ObjThreads |-> [masked |-> FALSE, old |-> <<>>, sent |-> FALSE]]

Pc(t) == stack[t][Len(stack[t])]
To(t, to) == stack' = [stack EXCEPT ![t][Len(stack[t])] = to]
Go(t, from, to) == Pc(t) = from /\ To(t, to)
Ends(t, r) == result' = [result EXCEPT ![t] = IF Len(stack[t]) = 1 THEN r ELSE @]

-----------------------------------------------------------------------------
(* The mutex.                                                              *)

Entry == IF object = "strerror" THEN "lock" ELSE "call"
Locked == [barrier |-> "limit", counter |-> "load", printinit |-> "done", testandset |-> "done",
           strerror |-> "name", once |-> "done"]

LockObject(t) ==
    /\ object # "once" /\ owner = Nobody /\ owner' = t
    /\ Go(t, Entry, Locked[object])
    /\ UNCHANGED <<object, faulty, tally, limit, var, loaded, inits, result, sigs>>

LockError(t) ==
    /\ faulty /\ object # "once"
    /\ IF object = "strerror" THEN Go(t, Entry, "restore") /\ UNCHANGED result
       ELSE Go(t, Entry, "end") /\ Ends(t, "error")
    /\ UNCHANGED <<object, faulty, owner, tally, limit, var, loaded, inits, sigs>>

\* The error of the body, or success.
UnlockObject(t) ==
    /\ Pc(t) \in {"unlock", "fail"} /\ owner' = Nobody
    /\ To(t, IF object = "strerror" THEN "restore" ELSE IF object = "testandset" THEN "use" ELSE "end")
    /\ IF object = "strerror" THEN UNCHANGED result ELSE Ends(t, IF Pc(t) = "fail" THEN "error" ELSE "ok")
    /\ UNCHANGED <<object, faulty, tally, limit, var, loaded, inits, sigs>>

-----------------------------------------------------------------------------
(* tbarrier.c.                                                             *)

\* Only the first call has an effect.
initbarrier ==
    /\ object = "barrier" /\ owner = Nobody /\ limit = 0
    /\ limit' = BarrierSize
    /\ UNCHANGED <<object, faulty, stack, owner, tally, var, loaded, inits, result, sigs>>

TestLimit(t) ==
    /\ object = "barrier" /\ Go(t, "limit", IF limit <= 0 THEN "fail" ELSE "test")
    /\ tally' = IF limit <= 0 THEN tally ELSE tally + 1
    /\ UNCHANGED <<object, faulty, owner, limit, var, loaded, inits, result, sigs>>

WaitBarrier(t) ==
    /\ object = "barrier" /\ tally < limit
    /\ \/ Go(t, "test", "waiting") /\ owner' = Nobody
       \/ faulty /\ Go(t, "test", "fail") /\ UNCHANGED owner
    /\ UNCHANGED <<object, faulty, tally, limit, var, loaded, inits, result, sigs>>

\* pthread_cond_broadcast.
Broadcast(t) ==
    /\ object = "barrier" /\ tally >= limit /\ Pc(t) = "test"
    /\ stack' = [u \in ObjThreads |-> IF u = t THEN <<"unlock">>
                                      ELSE IF Pc(u) = "waiting" THEN <<"woken">> ELSE stack[u]]
    /\ UNCHANGED <<object, faulty, owner, tally, limit, var, loaded, inits, result, sigs>>

SpuriousWakeup(t) ==
    /\ Go(t, "waiting", "woken")
    /\ UNCHANGED <<object, faulty, owner, tally, limit, var, loaded, inits, result, sigs>>

\* Mutant of Relock: an if in place of the while around the wait.
RelockNoTest(t) ==
    /\ owner = Nobody /\ owner' = t
    /\ Go(t, "woken", "unlock")
    /\ UNCHANGED <<object, faulty, tally, limit, var, loaded, inits, result, sigs>>

Relock(t) ==
    /\ owner = Nobody /\ owner' = t
    /\ Go(t, "woken", "test")
    /\ UNCHANGED <<object, faulty, tally, limit, var, loaded, inits, result, sigs>>

-----------------------------------------------------------------------------
(* counter.c: tally++ and tally-- read and write the counter.              *)

LoadCount(t) ==
    /\ object = "counter" /\ Go(t, "load", "store")
    /\ loaded' = [loaded EXCEPT ![t] = tally]
    /\ UNCHANGED <<object, faulty, owner, tally, limit, var, inits, result, sigs>>

StoreCount(t) ==
    /\ Go(t, "store", "unlock")
    /\ tally' = IF t % 2 = 0 THEN loaded[t] + 1 ELSE loaded[t] - 1
    /\ UNCHANGED <<object, faulty, owner, limit, var, loaded, inits, result, sigs>>

-----------------------------------------------------------------------------
(* Initialization by the first thread only.                                *)

\* printinitmutex: the variable and done are written in the critical section.
InitUnderLock(t) ==
    /\ object = "printinit" /\ Go(t, "done", "unlock")
    /\ IF tally = 0 THEN var' = 1 /\ inits' = inits + 1 /\ tally' = 1
       ELSE UNCHANGED <<var, inits, tally>>
    /\ UNCHANGED <<object, faulty, owner, limit, loaded, result, sigs>>

\* testandsetonce: only done is; the caller then initializes the variable.
TestAndSet(t) ==
    /\ object = "testandset" /\ Go(t, "done", "unlock")
    /\ loaded' = [loaded EXCEPT ![t] = tally] /\ tally' = 1
    /\ UNCHANGED <<object, faulty, owner, limit, var, inits, result, sigs>>

UseOnce(t) ==
    /\ Go(t, "use", "end")
    /\ IF loaded[t] = 0 THEN var' = 1 /\ inits' = inits + 1 ELSE UNCHANGED <<var, inits>>
    /\ UNCHANGED <<object, faulty, owner, tally, limit, loaded, result, sigs>>

\* pthread_once runs initialization in one of its callers and holds the others.
InitOnce(t) ==
    /\ object = "once" /\ Go(t, "call", "end") /\ Ends(t, "ok")
    /\ IF tally = 0 THEN var' = 1 /\ inits' = inits + 1 /\ tally' = 1
       ELSE UNCHANGED <<var, inits, tally>>
    /\ UNCHANGED <<object, faulty, owner, limit, loaded, sigs>>

-----------------------------------------------------------------------------
(* strerror_r and perror_r.                                                *)

MaskAll(t) ==
    /\ object = "strerror" /\ Go(t, "call", "lock")
    /\ sigs' = [sigs EXCEPT ![t].old = Append(@, sigs[t].masked), ![t].masked = TRUE]
    /\ UNCHANGED <<object, faulty, owner, tally, limit, var, loaded, inits, result>>

\* strerror leaves its answer in one static buffer.
GetMessage(t) ==
    /\ object = "strerror" /\ Go(t, "name", "copy")
    /\ tally' = t
    /\ UNCHANGED <<object, faulty, owner, limit, var, loaded, inits, result, sigs>>

CopyMessage(t) ==
    /\ Go(t, "copy", "unlock")
    /\ loaded' = [loaded EXCEPT ![t] = tally]
    /\ UNCHANGED <<object, faulty, owner, tally, limit, var, inits, result, sigs>>

RestoreOld(t) ==
    /\ Go(t, "restore", "end")
    /\ sigs' = [sigs EXCEPT ![t].old = SubSeq(@, 1, Len(@) - 1), ![t].masked = sigs[t].old[Len(sigs[t].old)]]
    /\ Ends(t, "ok")
    /\ UNCHANGED <<object, faulty, owner, tally, limit, var, loaded, inits>>

\* Bound: one signal in all.
NoneSent == \A t \in ObjThreads : ~sigs[t].sent

\* Mutant of SignalArrives: the calls do not mask signals.
SignalAnyTime(t) ==
    /\ object = "strerror" /\ NoneSent
    /\ stack' = [stack EXCEPT ![t] = Append(@, "call")]
    /\ sigs' = [sigs EXCEPT ![t].sent = TRUE]
    /\ UNCHANGED <<object, faulty, owner, tally, limit, var, loaded, inits, result>>

\* A handler that calls perror_r.
SignalArrives(t) ==
    /\ object = "strerror" /\ NoneSent /\ ~sigs[t].masked
    /\ stack' = [stack EXCEPT ![t] = Append(@, "call")]
    /\ sigs' = [sigs EXCEPT ![t].sent = TRUE]
    /\ UNCHANGED <<object, faulty, owner, tally, limit, var, loaded, inits, result>>

HandlerReturns(t) ==
    /\ Len(stack[t]) > 1 /\ Pc(t) = "end"
    /\ stack' = [stack EXCEPT ![t] = SubSeq(@, 1, Len(@) - 1)]
    /\ UNCHANGED <<object, faulty, owner, tally, limit, var, loaded, inits, result, sigs>>

ObjStep(t) ==
    \/ LockObject(t) \/ LockError(t) \/ UnlockObject(t)
    \/ TestLimit(t) \/ WaitBarrier(t) \/ Broadcast(t) \/ Relock(t)
    \/ LoadCount(t) \/ StoreCount(t) \/ InitUnderLock(t) \/ TestAndSet(t) \/ UseOnce(t) \/ InitOnce(t)
    \/ MaskAll(t) \/ GetMessage(t) \/ CopyMessage(t) \/ RestoreOld(t) \/ HandlerReturns(t)
ObjNext == initbarrier \/ \E t \in ObjThreads : ObjStep(t) \/ SpuriousWakeup(t) \/ SignalArrives(t)
ObjSpec == ObjInit /\ [][ObjNext]_objvars

-----------------------------------------------------------------------------
(* Properties.                                                             *)

\* A thread passes the barrier successfully only after BarrierSize threads have
\* arrived, those whose wait failed included, which stay counted; increments and
\* decrements are never lost; at most one thread initializes the variable, and a
\* thread that returns from printinitmutex or printinitonce finds it initialized
\* (after testandsetonce it may not be yet); a thread never waits for a mutex it
\* holds itself, below one of its own signal handlers; and strerror_r returns the
\* message of its own error, with the mask restored.
ObjectsKeepPromises ==
    /\ object = "barrier" /\ (\E t \in ObjThreads : result[t] = "ok") => tally >= BarrierSize
    /\ object = "counter" /\ ~faulty /\ (\A t \in ObjThreads : Pc(t) = "end") =>
           tally = 2 * Cardinality({t \in ObjThreads : t % 2 = 0}) - Cardinality(ObjThreads)
    /\ inits <= 1
    /\ object \in {"printinit", "once"} => \A t \in ObjThreads : result[t] = "ok" => var = 1
    /\ object = "strerror" => \A t \in ObjThreads :
           /\ Pc(t) = "lock" => owner # t
           /\ Pc(t) = "end" /\ Len(stack[t]) = 1 => ~sigs[t].masked /\ sigs[t].old = <<>> /\ loaded[t] \in {0, t}

\* The objects of chapter 13 keep what they promise to any callers, and so do the
\* sum and the flags of computethread to its two main programs.
ObjectsAgree == ObjectsKeepPromises /\ ShownIsComplete

\* Everybody comes back, from the barrier once enough threads have arrived.
ObjectDue == object # "barrier" \/ tally >= BarrierSize
ObjectDone == \A t \in ObjThreads : stack[t] = <<"end">>
=============================================================================
