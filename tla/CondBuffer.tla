----------------------------- MODULE CondBuffer -----------------------------
(***************************************************************************)
(* chapter16/bufferconddone.c: a bounded buffer protected by one mutex,    *)
(* two condition variables (items, slots) and a done flag.                 *)
(*                                                                         *)
(* A thread is in at most one call.  pc[t] is its position in it:          *)
(*   idle                         not in a call                            *)
(*   lock                         in pthread_mutex_lock                    *)
(*   test                         holds the mutex, at the loop's condition *)
(*   wait                         blocked in pthread_cond_wait             *)
(*   relock                       woken, reacquiring the mutex             *)
(*   xfer, signal                 past the loop: moves the item, signals   *)
(*   read                         getdone reads the flag                   *)
(*   flag, bcastitems, bcastslots setdone sets the flag and wakes everyone *)
(*   unlock                       in pthread_mutex_unlock                  *)
(*   return                       the call has its result in error[t]      *)
(* Every step between two of these positions reads or writes data that     *)
(* only the holder of the mutex touches; that this is so is the invariant  *)
(* MutualExclusion, not an assumption.                                     *)
(***************************************************************************)
EXTENDS Naturals, FiniteSets

CONSTANTS
    Threads,        \* the threads that call the buffer
    Items,          \* the values a client puts
    NoItem,         \* the content of a slot or an argument never written
    NoThread,       \* the holder of a free mutex
    BufSize,        \* BUFSIZE of buffer.h
    Disturbances    \* the pthread calls that may fail; "spurious": wakeups

Sites == {"mutex_lock", "cond_wait", "cond_signal", "cond_broadcast",
          "mutex_unlock", "spurious"}

ASSUME BufThreadsAssumption == IsFiniteSet(Threads)
ASSUME BufSizeAssumption == BufSize \in Nat \ {0}
ASSUME NoThreadAssumption == NoThread \notin Threads
ASSUME DisturbancesAssumption == Disturbances \subseteq Sites

VARIABLES
    buffer, bufin, bufout, totalitems, doneflag,    \* the static variables
    lock,       \* the thread that holds bufferlock, or NoThread
    pc,         \* position of each thread, see above
    call,       \* the function the thread is in
    item,       \* the argument of putitem, or where getitem stores its item
    flag,       \* where getdone stores the flag
    error       \* "OK", "ECANCELED", or "EFAIL" for any pthread error

ring == <<buffer, bufin, bufout, totalitems>>
locals == <<item, flag, error>>
bufvars == <<ring, doneflag, lock, pc, call, locals>>

Calls == {"none", "getitem", "putitem", "getdone", "setdone"}

\* The positions at which the code of a call believes it holds the mutex.
Critical == {"test", "xfer", "signal", "read", "flag", "bcastitems",
             "bcastslots", "unlock"}

Positions == Critical \cup {"idle", "lock", "wait", "relock", "return"}

\* The threads blocked on each condition variable.
ItemsWaiters == {t \in Threads : pc[t] = "wait" /\ call[t] = "getitem"}
SlotsWaiters == {t \in Threads : pc[t] = "wait" /\ call[t] = "putitem"}

BufInit ==
    /\ buffer = [k \in 0..(BufSize - 1) |-> NoItem]
    /\ bufin = 0
    /\ bufout = 0
    /\ totalitems = 0
    /\ doneflag = FALSE
    /\ lock = NoThread
    /\ pc = [t \in Threads |-> "idle"]
    /\ call = [t \in Threads |-> "none"]
    /\ item = [t \in Threads |-> NoItem]
    /\ flag = [t \in Threads |-> FALSE]
    /\ error = [t \in Threads |-> "OK"]

\* The slot of the ring an index falls on.
Wrap(k) == k % BufSize

\* Thread t moves from one position of its call to another.
Goto(t, from, to) ==
    /\ pc[t] = from
    /\ pc' = [pc EXCEPT ![t] = to]

-----------------------------------------------------------------------------
(* Calls and returns: the interface to the program's threads.              *)

Enter(t, function) ==
    /\ Goto(t, "idle", "lock")
    /\ call' = [call EXCEPT ![t] = function]
    /\ UNCHANGED <<ring, doneflag, lock, flag, error>>

CallGetitem(t) == Enter(t, "getitem") /\ UNCHANGED item
CallPutitem(t, i) == Enter(t, "putitem") /\ item' = [item EXCEPT ![t] = i]
CallGetdone(t) == Enter(t, "getdone") /\ UNCHANGED item
CallSetdone(t) == Enter(t, "setdone") /\ UNCHANGED item

\* The caller takes the result; the locals of the call are gone.
Return(t) ==
    /\ Goto(t, "return", "idle")
    /\ call' = [call EXCEPT ![t] = "none"]
    /\ item' = [item EXCEPT ![t] = NoItem]
    /\ flag' = [flag EXCEPT ![t] = FALSE]
    /\ error' = [error EXCEPT ![t] = "OK"]
    /\ UNCHANGED <<ring, doneflag, lock>>

-----------------------------------------------------------------------------
(* Mutex.                                                                  *)

\* The first position of each function after it has the mutex.
AfterLock(function) ==
    IF function \in {"getitem", "putitem"} THEN "test"
    ELSE IF function = "getdone" THEN "read" ELSE "flag"

MutexLock(t) ==
    /\ lock = NoThread
    /\ lock' = t
    /\ Goto(t, "lock", AfterLock(call[t]))
    /\ UNCHANGED <<ring, doneflag, call, locals>>

\* pthread_mutex_lock returns an error: so does the function, at once.
MutexLockFails(t) ==
    /\ "mutex_lock" \in Disturbances
    /\ Goto(t, "lock", "return")
    /\ error' = [error EXCEPT ![t] = "EFAIL"]
    /\ UNCHANGED <<ring, doneflag, lock, call, item, flag>>

MutexUnlock(t) ==
    /\ Goto(t, "unlock", "return")
    /\ lock' = NoThread
    /\ UNCHANGED <<ring, doneflag, call, locals>>

\* The result of an earlier error wins over that of the unlock; the mutex
\* stays locked.
MutexUnlockFails(t) ==
    /\ "mutex_unlock" \in Disturbances
    /\ Goto(t, "unlock", "return")
    /\ error' = IF error[t] = "OK" THEN [error EXCEPT ![t] = "EFAIL"] ELSE error
    /\ UNCHANGED <<ring, doneflag, lock, call, item, flag>>

-----------------------------------------------------------------------------
(* Condition variables.                                                    *)

\* pthread_cond_wait releases the mutex and blocks in one step.
CondWait(t) ==
    /\ Goto(t, "test", "wait")
    /\ lock' = NoThread
    /\ UNCHANGED <<ring, doneflag, call, locals>>

\* pthread_cond_wait returns an error with the mutex still held: the loop
\* ends and the function unlocks and returns the error.
CondWaitFails(t) ==
    /\ "cond_wait" \in Disturbances
    /\ Goto(t, "test", "unlock")
    /\ error' = [error EXCEPT ![t] = "EFAIL"]
    /\ UNCHANGED <<ring, doneflag, lock, call, item, flag>>

\* A blocked thread may wake although nobody signalled.
SpuriousWakeup(t) ==
    /\ "spurious" \in Disturbances
    /\ Goto(t, "wait", "relock")
    /\ UNCHANGED <<ring, doneflag, lock, call, locals>>

\* Mutants of Relock: the condition is not evaluated again ("if" for "while");
\* the thread goes on without the mutex.
RelockWithoutRetest(t) ==
    /\ lock = NoThread
    /\ lock' = t
    /\ Goto(t, "relock", "xfer")
    /\ UNCHANGED <<ring, doneflag, call, locals>>

\* A woken thread reacquires the mutex and evaluates the condition again.
Relock(t) ==
    /\ lock = NoThread
    /\ lock' = t
    /\ Goto(t, "relock", "test")
    /\ UNCHANGED <<ring, doneflag, call, locals>>

\* Thread t wakes the threads in woken and goes on.
Wake(t, from, to, woken) ==
    /\ pc[t] = from
    /\ pc' = [s \in Threads |-> IF s = t THEN to
                                ELSE IF s \in woken THEN "relock" ELSE pc[s]]

\* pthread_cond_signal wakes one of the blocked threads, if there is one.
CondSignal(t, waiters) ==
    /\ \/ /\ waiters = {}
          /\ Wake(t, "signal", "unlock", {})
       \/ \E w \in waiters : Wake(t, "signal", "unlock", {w})
    /\ UNCHANGED <<ring, doneflag, lock, call, locals>>

\* The item was moved, but the function returns the error of the signal.
CondSignalFails(t) ==
    /\ "cond_signal" \in Disturbances
    /\ Goto(t, "signal", "unlock")
    /\ error' = [error EXCEPT ![t] = "EFAIL"]
    /\ UNCHANGED <<ring, doneflag, lock, call, item, flag>>

-----------------------------------------------------------------------------
(* getitem.                                                                *)

\* Mutant of GetTest: ECANCELED as soon as the flag is set, items or not.
GetTestCancelsEarly(t) ==
    /\ call[t] = "getitem"
    /\ \/ totalitems = 0 /\ ~doneflag /\ (CondWait(t) \/ CondWaitFails(t))
       \/ /\ doneflag
          /\ Goto(t, "test", "unlock")
          /\ error' = [error EXCEPT ![t] = "ECANCELED"]
          /\ UNCHANGED <<ring, doneflag, lock, call, item, flag>>
       \/ /\ totalitems > 0 /\ ~doneflag
          /\ Goto(t, "test", "xfer")
          /\ UNCHANGED <<ring, doneflag, lock, call, locals>>

GetTest(t) ==
    /\ call[t] = "getitem"
    /\ \/ /\ totalitems = 0 /\ ~doneflag
          /\ CondWait(t) \/ CondWaitFails(t)
       \/ /\ totalitems = 0 /\ doneflag
          /\ Goto(t, "test", "unlock")
          /\ error' = [error EXCEPT ![t] = "ECANCELED"]
          /\ UNCHANGED <<ring, doneflag, lock, call, item, flag>>
       \/ /\ totalitems > 0
          /\ Goto(t, "test", "xfer")
          /\ UNCHANGED <<ring, doneflag, lock, call, locals>>

\* Mutants of GetXfer: bufout is not advanced; the newest slot is read.
GetXferStays(t) ==
    /\ call[t] = "getitem"
    /\ Goto(t, "xfer", "signal")
    /\ item' = [item EXCEPT ![t] = buffer[bufout]]
    /\ totalitems' = totalitems - 1
    /\ UNCHANGED <<buffer, bufin, bufout, doneflag, lock, call, flag, error>>

GetXferNewest(t) ==
    /\ call[t] = "getitem"
    /\ Goto(t, "xfer", "signal")
    /\ item' = [item EXCEPT ![t] = buffer[Wrap(bufin + BufSize - 1)]]
    /\ bufout' = Wrap(bufout + 1)
    /\ totalitems' = totalitems - 1
    /\ UNCHANGED <<buffer, bufin, doneflag, lock, call, flag, error>>

GetXfer(t) ==
    /\ call[t] = "getitem"
    /\ Goto(t, "xfer", "signal")
    /\ item' = [item EXCEPT ![t] = buffer[bufout]]
    /\ bufout' = Wrap(bufout + 1)
    /\ totalitems' = totalitems - 1
    /\ UNCHANGED <<buffer, bufin, doneflag, lock, call, flag, error>>

\* Mutant of GetSignal: the wrong condition variable is signalled.
GetSignalsItems(t) ==
    /\ call[t] = "getitem"
    /\ CondSignal(t, ItemsWaiters) \/ CondSignalFails(t)

GetSignal(t) ==
    /\ call[t] = "getitem"
    /\ CondSignal(t, SlotsWaiters) \/ CondSignalFails(t)

(* putitem.                                                                *)

\* Mutant of PutTest: the done flag is not looked at.
PutTestIgnoresDone(t) ==
    /\ call[t] = "putitem"
    /\ \/ totalitems >= BufSize /\ (CondWait(t) \/ CondWaitFails(t))
       \/ /\ totalitems < BufSize
          /\ Goto(t, "test", "xfer")
          /\ UNCHANGED <<ring, doneflag, lock, call, locals>>

PutTest(t) ==
    /\ call[t] = "putitem"
    /\ \/ /\ totalitems >= BufSize /\ ~doneflag
          /\ CondWait(t) \/ CondWaitFails(t)
       \/ /\ doneflag
          /\ Goto(t, "test", "unlock")
          /\ error' = [error EXCEPT ![t] = "ECANCELED"]
          /\ UNCHANGED <<ring, doneflag, lock, call, item, flag>>
       \/ /\ totalitems < BufSize /\ ~doneflag
          /\ Goto(t, "test", "xfer")
          /\ UNCHANGED <<ring, doneflag, lock, call, locals>>

PutXfer(t) ==
    /\ call[t] = "putitem"
    /\ Goto(t, "xfer", "signal")
    /\ buffer' = [buffer EXCEPT ![bufin] = item[t]]
    /\ bufin' = Wrap(bufin + 1)
    /\ totalitems' = totalitems + 1
    /\ UNCHANGED <<bufout, doneflag, lock, call, locals>>

\* Mutant of PutSignal: it signals only when the buffer was empty.
PutSignalsFirst(t) ==
    /\ call[t] = "putitem"
    /\ CondSignal(t, IF totalitems = 1 THEN ItemsWaiters ELSE {})

PutSignal(t) ==
    /\ call[t] = "putitem"
    /\ CondSignal(t, ItemsWaiters) \/ CondSignalFails(t)

(* getdone and setdone.                                                    *)

GetdoneRead(t) ==
    /\ Goto(t, "read", "unlock")
    /\ flag' = [flag EXCEPT ![t] = doneflag]
    /\ UNCHANGED <<ring, doneflag, lock, call, item, error>>

SetdoneFlag(t) ==
    /\ Goto(t, "flag", "bcastitems")
    /\ doneflag' = TRUE
    /\ UNCHANGED <<ring, lock, call, locals>>

\* pthread_cond_broadcast wakes every blocked thread.  An error is kept if it
\* is the first, and the next call is made all the same.
Broadcast(t, from, to, waiters) ==
    /\ \/ Wake(t, from, to, waiters) /\ UNCHANGED error
       \/ /\ "cond_broadcast" \in Disturbances
          /\ Goto(t, from, to)
          /\ error' = [error EXCEPT ![t] = "EFAIL"]
    /\ UNCHANGED <<ring, doneflag, lock, call, item, flag>>

\* Mutants: setdone wakes no getter; it wakes only one putter.
SetdoneItemsForgotten(t) == Broadcast(t, "bcastitems", "bcastslots", {})
SetdoneSlotsOne(t) ==
    \E w \in SUBSET SlotsWaiters :
        /\ Cardinality(w) <= 1
        /\ SlotsWaiters = {} <=> w = {}
        /\ Broadcast(t, "bcastslots", "unlock", w)

SetdoneItems(t) == Broadcast(t, "bcastitems", "bcastslots", ItemsWaiters)
SetdoneSlots(t) == Broadcast(t, "bcastslots", "unlock", SlotsWaiters)

-----------------------------------------------------------------------------

\* The steps a thread takes inside a call by itself, when the call it waits in
\* does not give up.
Proceed(t) ==
    \/ MutexLock(t) \/ MutexUnlock(t) \/ MutexUnlockFails(t) \/ Relock(t)
    \/ GetTest(t) \/ GetXfer(t) \/ GetSignal(t)
    \/ PutTest(t) \/ PutXfer(t) \/ PutSignal(t)
    \/ GetdoneRead(t)
    \/ SetdoneFlag(t) \/ SetdoneItems(t) \/ SetdoneSlots(t)

Inside(t) == Proceed(t) \/ MutexLockFails(t)

BufStep(t) ==
    \/ Inside(t)
    \/ SpuriousWakeup(t)
    \/ CallGetitem(t) \/ CallGetdone(t) \/ CallSetdone(t)
    \/ \E i \in Items : CallPutitem(t, i)
    \/ Return(t)

BufNext == \E t \in Threads : BufStep(t)

BufSpec == BufInit /\ [][BufNext]_bufvars

\* A thread that can go on inside a call does: it is never descheduled forever.
\* Nothing makes a client call, a lock that stays taken does not fail by itself,
\* and a mutex may be granted to others forever.
BufFairness == \A t \in Threads : WF_bufvars(Proceed(t))

FairBufSpec == BufSpec /\ BufFairness

-----------------------------------------------------------------------------
(* Properties.                                                             *)

\* Every variable has its type; the counters stay inside the array.
BufTypeOK ==
    /\ buffer \in [0..(BufSize - 1) -> Items \cup {NoItem}]
    /\ bufin \in 0..(BufSize - 1)
    /\ bufout \in 0..(BufSize - 1)
    /\ totalitems \in 0..BufSize
    /\ doneflag \in BOOLEAN
    /\ lock \in Threads \cup {NoThread}
    /\ pc \in [Threads -> Positions]
    /\ call \in [Threads -> Calls]
    /\ item \in [Threads -> Items \cup {NoItem}]
    /\ flag \in [Threads -> BOOLEAN]
    /\ error \in [Threads -> {"OK", "ECANCELED", "EFAIL"}]

\* A thread between its lock and its unlock is the one holder of bufferlock,
\* also when it got there through pthread_cond_wait.
MutualExclusion == \A t \in Threads : pc[t] \in Critical => lock = t

\* The two indexes and the counter that the code updates separately agree.
RingConsistent == bufin = Wrap(bufout + totalitems)

\* What a thread tested under the mutex still holds when it acts on it: there
\* is an item to take, or a slot to fill and the buffer is not done.
TestStillHolds ==
    \A t \in Threads : pc[t] = "xfer" =>
        \/ call[t] = "getitem" /\ totalitems > 0
        \/ call[t] = "putitem" /\ totalitems < BufSize /\ ~doneflag

\* A getitem that reports ECANCELED has seen the last item leave: the buffer is
\* empty then and stays so, however many putitem calls are under way.  This is
\* what lets a consumer exit on ECANCELED without losing an item.
DrainedWhenCanceled ==
    \A t \in Threads :
        (call[t] = "getitem" /\ error[t] = "ECANCELED") =>
            doneflag /\ totalitems = 0

\* Getters past the lock that have not taken their item yet, and putters that
\* have inserted an item but not signalled it yet.
PendingGetters == {t \in Threads : /\ call[t] = "getitem"
                                   /\ pc[t] \in {"relock", "test", "xfer"}}
PendingPutters == {t \in Threads : /\ call[t] = "putitem"
                                   /\ pc[t] \in {"relock", "test", "xfer"}}
Signalling(function) == {t \in Threads : /\ call[t] = function
                                         /\ pc[t] = "signal"}

\* No wakeup is lost: while a thread sleeps on items, each item in the buffer
\* has a getter awake for it or a signal still to come; while one sleeps on slots,
\* each free slot has a putter or a signal.  (When cond_signal or
\* cond_broadcast fails the code gives no such guarantee: it reports the error.)
NoLostWakeup ==
    /\ ItemsWaiters # {} =>
          totalitems <= Cardinality(PendingGetters)
                          + Cardinality(Signalling("putitem"))
    /\ SlotsWaiters # {} =>
          BufSize - totalitems <= Cardinality(PendingPutters)
                                    + Cardinality(Signalling("getitem"))

\* The n items of array b from index out on, oldest first.
RingItems(b, out, n) == [k \in 1..n |-> b[Wrap(out + k - 1)]]
Contents == RingItems(buffer, bufout, totalitems)

Queue == INSTANCE BoundedQueue
            WITH Clients <- Threads, Capacity <- BufSize,
                 queue <- Contents, closed <- doneflag, hand <- item

\* The ring buffer is a FIFO queue: every step is a step of BoundedQueue or
\* leaves its view unchanged, whatever fails and whoever wakes.
RefinesQueue == Queue!Spec

\* setdone releases every sleeper for good: once the flag is set, there comes a
\* time after which no thread sleeps on either condition variable.
DoneWakesAll == doneflag ~> [](ItemsWaiters = {} /\ SlotsWaiters = {})
=============================================================================
