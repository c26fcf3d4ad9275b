-------------------------- MODULE CondBufferProofs --------------------------
(***************************************************************************)
(* Theorems about CondBuffer (chapter16/bufferconddone.c) for every set of *)
(* threads, every buffer size and every set of pthread calls that may      *)
(* fail.                                                                   *)
(***************************************************************************)
EXTENDS CondBuffer, BufferLemmas, TLAPS

\* Where a thread is tells which functions it can be in, and a thread outside
\* any call has no error pending from an earlier one.
CallAgrees ==
    \A t \in Threads :
        /\ pc[t] = "idle" => call[t] = "none" /\ error[t] = "OK"
        /\ pc[t] = "lock" => call[t] \in Calls \ {"none"}
        /\ pc[t] \in {"test", "wait", "relock", "xfer", "signal"} =>
               call[t] \in {"getitem", "putitem"}

\* The inductive invariant.  RingConsistent alone is not preserved: it needs
\* that a thread at "xfer" still finds what it tested (TestStillHolds), which
\* needs that nobody else acts between the test and the transfer.
BufIInv ==
    /\ BufTypeOK
    /\ CallAgrees
    /\ MutualExclusion
    /\ RingConsistent
    /\ TestStillHolds
    /\ DrainedWhenCanceled

-----------------------------------------------------------------------------
(* Arithmetic of the ring.                                                 *)

LEMMA BufWrapOnce ==
    ASSUME NEW m \in Nat, m < 2 * BufSize
    PROVE  Wrap(m) = IF m < BufSize THEN m ELSE m - BufSize
BY WrapOnce, BufSizeAssumption DEF Wrap, Wrapped

LEMMA BufWrapType ==
    ASSUME NEW m \in Nat
    PROVE  Wrap(m) \in 0..(BufSize - 1)
BY WrapType, BufSizeAssumption DEF Wrap, Wrapped

-----------------------------------------------------------------------------
(* The invariant.                                                          *)

LEMMA BufInitIInv == BufInit => BufIInv
<1> SUFFICES ASSUME BufInit PROVE BufIInv
  OBVIOUS
<1> USE BufSizeAssumption DEF BufInit
<1>1. BufTypeOK
  <2>1. 0 \in 0..(BufSize - 1) /\ 0 \in 0..BufSize
    OBVIOUS
  <2> QED
    BY <2>1, Zenon DEF BufTypeOK, Positions, Critical, Calls
<1>2. CallAgrees /\ MutualExclusion /\ TestStillHolds /\ DrainedWhenCanceled
  BY DEF CallAgrees, MutualExclusion, TestStillHolds, DrainedWhenCanceled, Critical
<1>3. RingConsistent
  BY BufWrapOnce DEF RingConsistent
<1> QED
  BY <1>1, <1>2, <1>3 DEF BufIInv

\* What a step of thread t must preserve, part by part.  The steps that leave
\* the ring alone share this frame.
LEMMA FrameStep ==
    ASSUME BufIInv, UNCHANGED ring
    PROVE  RingConsistent'
BY DEF BufIInv, RingConsistent, ring

LEMMA EnterStep ==
    ASSUME BufIInv, NEW t \in Threads,
           \/ CallGetitem(t) \/ CallGetdone(t) \/ CallSetdone(t)
           \/ \E i \in Items : CallPutitem(t, i)
    PROVE  BufIInv'
<1> USE DEF CallGetitem, CallGetdone, CallSetdone, CallPutitem, Enter, Goto,
        ring, BufIInv
<1>1. BufTypeOK'
  BY DEF BufTypeOK, Positions, Critical, Calls
<1>2. CallAgrees'
  BY DEF CallAgrees, BufTypeOK, Calls
<1>3. MutualExclusion'
  BY DEF MutualExclusion, BufTypeOK, Critical
<1>4. TestStillHolds' /\ DrainedWhenCanceled'
  BY DEF TestStillHolds, DrainedWhenCanceled, BufTypeOK, CallAgrees
<1> QED
  BY <1>1, <1>2, <1>3, <1>4, FrameStep

LEMMA ReturnStep ==
    ASSUME BufIInv, NEW t \in Threads, Return(t)
    PROVE  BufIInv'
<1> USE DEF Return, Goto, ring, BufIInv
<1>1. BufTypeOK'
  BY DEF BufTypeOK, Positions, Critical, Calls
<1>2. CallAgrees'
  BY DEF CallAgrees, BufTypeOK, Calls
<1>3. MutualExclusion'
  BY DEF MutualExclusion, BufTypeOK, Critical
<1>4. TestStillHolds' /\ DrainedWhenCanceled'
  BY DEF TestStillHolds, DrainedWhenCanceled, BufTypeOK
<1> QED
  BY <1>1, <1>2, <1>3, <1>4, FrameStep

\* Taking the mutex, for the first time or again after pthread_cond_wait.
LEMMA LockStep ==
    ASSUME BufIInv, NEW t \in Threads, MutexLock(t) \/ Relock(t)
    PROVE  BufIInv'
<1> USE DEF MutexLock, Relock, Goto, ring, locals, BufIInv
<1>1. AfterLock(call[t]) \in {"test", "read", "flag"} \/ pc[t] # "lock"
  BY DEF AfterLock, CallAgrees, Calls
<1>2. pc[t] = "lock" /\ AfterLock(call[t]) = "test" => call[t] \in {"getitem", "putitem"}
  BY DEF AfterLock, CallAgrees, Calls
<1>3. BufTypeOK'
  BY <1>1 DEF BufTypeOK, Positions, Critical
<1>4. CallAgrees'
  BY <1>1, <1>2 DEF CallAgrees, BufTypeOK
<1>5. \A s \in Threads : pc[s] \notin Critical
  BY NoThreadAssumption DEF MutualExclusion
<1>6. MutualExclusion'
  BY <1>5 DEF MutualExclusion, BufTypeOK
<1>7. TestStillHolds' /\ DrainedWhenCanceled'
  BY <1>1 DEF TestStillHolds, DrainedWhenCanceled, BufTypeOK
<1> QED
  BY <1>3, <1>4, <1>6, <1>7, FrameStep

\* Giving the mutex up: at the end of a call, or to sleep on a condition.
LEMMA UnlockStep ==
    ASSUME BufIInv, NEW t \in Threads, MutexUnlock(t)
    PROVE  BufIInv'
<1> USE DEF MutexUnlock, Goto, ring, locals, BufIInv
<1>1. BufTypeOK'
  BY DEF BufTypeOK, Positions, Critical
<1>2. CallAgrees'
  BY DEF CallAgrees, BufTypeOK
<1>3. MutualExclusion'
  BY DEF MutualExclusion, BufTypeOK, Critical
<1>4. TestStillHolds' /\ DrainedWhenCanceled'
  BY DEF TestStillHolds, DrainedWhenCanceled, BufTypeOK
<1> QED
  BY <1>1, <1>2, <1>3, <1>4, FrameStep

LEMMA WaitStep ==
    ASSUME BufIInv, NEW t \in Threads, CondWait(t)
    PROVE  BufIInv'
<1> USE DEF CondWait, Goto, ring, locals, BufIInv
<1>1. BufTypeOK'
  BY DEF BufTypeOK, Positions, Critical
<1>2. CallAgrees'
  BY DEF CallAgrees, BufTypeOK
<1>3. MutualExclusion'
  BY DEF MutualExclusion, BufTypeOK, Critical
<1>4. TestStillHolds' /\ DrainedWhenCanceled'
  BY DEF TestStillHolds, DrainedWhenCanceled, BufTypeOK
<1> QED
  BY <1>1, <1>2, <1>3, <1>4, FrameStep

\* A pthread call that fails ends the call it is in; the mutex is as it was.
LEMMA FailStep ==
    ASSUME BufIInv, NEW t \in Threads,
           \/ MutexLockFails(t) \/ MutexUnlockFails(t)
           \/ CondWaitFails(t) \/ CondSignalFails(t)
    PROVE  BufIInv'
<1> USE DEF MutexLockFails, MutexUnlockFails, CondWaitFails, CondSignalFails,
        Goto, ring, BufIInv
<1>1. BufTypeOK'
  BY DEF BufTypeOK, Positions, Critical
<1>2. CallAgrees'
  BY DEF CallAgrees, BufTypeOK
<1>3. MutualExclusion'
  BY DEF MutualExclusion, BufTypeOK, Critical
<1>4. TestStillHolds' /\ DrainedWhenCanceled'
  BY DEF TestStillHolds, DrainedWhenCanceled, BufTypeOK
<1> QED
  BY <1>1, <1>2, <1>3, <1>4, FrameStep

\* Waking threads moves them from "wait" to "relock", outside the critical
\* positions: the waker remains the one holder of the mutex.
LEMMA WakeStep ==
    ASSUME BufIInv, NEW t \in Threads, NEW from, NEW to, NEW woken,
           Wake(t, from, to, woken),
           \A w \in woken : w \in Threads /\ pc[w] = "wait",
           from \in {"signal", "bcastitems", "bcastslots"},
           to \in {"unlock", "bcastslots"},
           UNCHANGED <<ring, doneflag, lock, call, locals>>
    PROVE  BufIInv'
<1> USE DEF Wake, ring, locals, BufIInv
<1>1. BufTypeOK'
  BY DEF BufTypeOK, Positions, Critical
<1>2. CallAgrees'
  BY DEF CallAgrees, BufTypeOK
<1>3. MutualExclusion'
  BY DEF MutualExclusion, BufTypeOK, Critical
<1>4. TestStillHolds' /\ DrainedWhenCanceled'
  BY DEF TestStillHolds, DrainedWhenCanceled, BufTypeOK
<1> QED
  BY <1>1, <1>2, <1>3, <1>4, FrameStep

LEMMA SpuriousStep ==
    ASSUME BufIInv, NEW t \in Threads, SpuriousWakeup(t)
    PROVE  BufIInv'
<1> USE DEF SpuriousWakeup, Goto, ring, locals, BufIInv
<1>1. BufTypeOK'
  BY DEF BufTypeOK, Positions, Critical
<1>2. CallAgrees'
  BY DEF CallAgrees, BufTypeOK
<1>3. MutualExclusion'
  BY DEF MutualExclusion, BufTypeOK, Critical
<1>4. TestStillHolds' /\ DrainedWhenCanceled'
  BY DEF TestStillHolds, DrainedWhenCanceled, BufTypeOK
<1> QED
  BY <1>1, <1>2, <1>3, <1>4, FrameStep

\* The loop's condition and the tests after it.
LEMMA GetTestStep ==
    ASSUME BufIInv, NEW t \in Threads, GetTest(t)
    PROVE  BufIInv'
<1>1. CASE CondWait(t) \/ CondWaitFails(t)
  BY <1>1, WaitStep, FailStep
<1>2. CASE /\ pc[t] = "test" /\ totalitems = 0 /\ doneflag
           /\ pc' = [pc EXCEPT ![t] = "unlock"]
           /\ error' = [error EXCEPT ![t] = "ECANCELED"]
           /\ UNCHANGED <<ring, doneflag, lock, call, item, flag>>
  <2> USE <1>2 DEF ring, BufIInv
  <2>1. BufTypeOK'
    BY DEF BufTypeOK, Positions, Critical
  <2>2. CallAgrees' /\ MutualExclusion'
    BY DEF CallAgrees, MutualExclusion, BufTypeOK, Critical
  <2>3. TestStillHolds' /\ DrainedWhenCanceled'
    BY DEF TestStillHolds, DrainedWhenCanceled, BufTypeOK
  <2> QED
    BY <2>1, <2>2, <2>3, FrameStep
<1>3. CASE /\ pc[t] = "test" /\ call[t] = "getitem" /\ totalitems > 0
           /\ pc' = [pc EXCEPT ![t] = "xfer"]
           /\ UNCHANGED <<ring, doneflag, lock, call, locals>>
  <2> USE <1>3 DEF ring, locals, BufIInv
  <2>1. BufTypeOK'
    BY DEF BufTypeOK, Positions, Critical
  <2>2. CallAgrees' /\ MutualExclusion'
    BY DEF CallAgrees, MutualExclusion, BufTypeOK, Critical
  <2>3. TestStillHolds' /\ DrainedWhenCanceled'
    BY DEF TestStillHolds, DrainedWhenCanceled, BufTypeOK
  <2> QED
    BY <2>1, <2>2, <2>3, FrameStep
<1> QED
  BY <1>1, <1>2, <1>3 DEF GetTest, Goto

LEMMA PutTestStep ==
    ASSUME BufIInv, NEW t \in Threads, PutTest(t)
    PROVE  BufIInv'
<1>1. CASE CondWait(t) \/ CondWaitFails(t)
  BY <1>1, WaitStep, FailStep
<1>2. CASE /\ pc[t] = "test" /\ call[t] = "putitem" /\ doneflag
           /\ pc' = [pc EXCEPT ![t] = "unlock"]
           /\ error' = [error EXCEPT ![t] = "ECANCELED"]
           /\ UNCHANGED <<ring, doneflag, lock, call, item, flag>>
  <2> USE <1>2 DEF ring, BufIInv
  <2>1. BufTypeOK'
    BY DEF BufTypeOK, Positions, Critical
  <2>2. CallAgrees' /\ MutualExclusion'
    BY DEF CallAgrees, MutualExclusion, BufTypeOK, Critical
  <2>3. TestStillHolds' /\ DrainedWhenCanceled'
    BY DEF TestStillHolds, DrainedWhenCanceled, BufTypeOK
  <2> QED
    BY <2>1, <2>2, <2>3, FrameStep
<1>3. CASE /\ pc[t] = "test" /\ call[t] = "putitem"
           /\ totalitems < BufSize /\ ~doneflag
           /\ pc' = [pc EXCEPT ![t] = "xfer"]
           /\ UNCHANGED <<ring, doneflag, lock, call, locals>>
  <2> USE <1>3 DEF ring, locals, BufIInv
  <2>1. BufTypeOK'
    BY DEF BufTypeOK, Positions, Critical
  <2>2. CallAgrees' /\ MutualExclusion'
    BY DEF CallAgrees, MutualExclusion, BufTypeOK, Critical
  <2>3. TestStillHolds' /\ DrainedWhenCanceled'
    BY DEF TestStillHolds, DrainedWhenCanceled, BufTypeOK
  <2> QED
    BY <2>1, <2>2, <2>3, FrameStep
<1> QED
  BY <1>1, <1>2, <1>3 DEF PutTest, Goto

\* Moving an item.  No other thread is at "xfer": it would hold the mutex too.
LEMMA GetXferStep ==
    ASSUME BufIInv, NEW t \in Threads, GetXfer(t)
    PROVE  BufIInv'
<1> USE DEF GetXfer, Goto, BufIInv
<1>1. lock = t /\ totalitems > 0
  BY DEF MutualExclusion, TestStillHolds, Critical
<1>2. totalitems - 1 \in 0..BufSize /\ Wrap(bufout + 1) \in 0..(BufSize - 1)
  BY <1>1, BufWrapType, BufSizeAssumption DEF BufTypeOK
<1>3. BufTypeOK'
  BY <1>2 DEF BufTypeOK, Positions, Critical
<1>4. CallAgrees' /\ MutualExclusion'
  BY DEF CallAgrees, MutualExclusion, BufTypeOK, Critical
<1>5. \A s \in Threads : pc[s] = "xfer" => s = t
  BY <1>1 DEF MutualExclusion, Critical
<1>6. TestStillHolds' /\ DrainedWhenCanceled'
  BY <1>1, <1>5 DEF TestStillHolds, DrainedWhenCanceled, BufTypeOK
<1>7. RingConsistent'
  <2>1. totalitems \in 1..BufSize /\ bufout \in 0..(BufSize - 1)
    BY <1>1 DEF BufTypeOK
  <2>2. Wrapped(Wrapped(bufout + 1, BufSize) + (totalitems - 1), BufSize)
          = Wrapped(bufout + totalitems, BufSize)
    BY <2>1, RingAdvance, BufSizeAssumption
  <2> QED
    BY <2>2 DEF RingConsistent, Wrap, Wrapped
<1> QED
  BY <1>3, <1>4, <1>6, <1>7

LEMMA PutXferStep ==
    ASSUME BufIInv, NEW t \in Threads, PutXfer(t)
    PROVE  BufIInv'
<1> USE DEF PutXfer, Goto, locals, BufIInv
<1>1. lock = t /\ totalitems < BufSize /\ ~doneflag
  BY DEF MutualExclusion, TestStillHolds, Critical
<1>2. totalitems + 1 \in 0..BufSize /\ Wrap(bufin + 1) \in 0..(BufSize - 1)
  BY <1>1, BufWrapType, BufSizeAssumption DEF BufTypeOK
<1>3. BufTypeOK'
  BY <1>2 DEF BufTypeOK, Positions, Critical
<1>4. CallAgrees' /\ MutualExclusion'
  BY DEF CallAgrees, MutualExclusion, BufTypeOK, Critical
<1>5. \A s \in Threads : pc[s] = "xfer" => s = t
  BY <1>1 DEF MutualExclusion, Critical
<1>6. TestStillHolds' /\ DrainedWhenCanceled'
  BY <1>1, <1>5 DEF TestStillHolds, DrainedWhenCanceled, BufTypeOK
<1>7. RingConsistent'
  <2>1. totalitems \in 0..(BufSize - 1) /\ bufout \in 0..(BufSize - 1)
    BY <1>1, BufSizeAssumption DEF BufTypeOK
  <2>2. Wrapped(Wrapped(bufout + totalitems, BufSize) + 1, BufSize)
          = Wrapped(bufout + (totalitems + 1), BufSize)
    BY <2>1, RingExtend, BufSizeAssumption
  <2> QED
    BY <2>2 DEF RingConsistent, Wrap, Wrapped
<1> QED
  BY <1>3, <1>4, <1>6, <1>7

\* getdone and setdone.
LEMMA GetdoneStep ==
    ASSUME BufIInv, NEW t \in Threads, GetdoneRead(t)
    PROVE  BufIInv'
<1> USE DEF GetdoneRead, Goto, ring, BufIInv
<1>1. BufTypeOK'
  BY DEF BufTypeOK, Positions, Critical
<1>2. CallAgrees' /\ MutualExclusion'
  BY DEF CallAgrees, MutualExclusion, BufTypeOK, Critical
<1>3. TestStillHolds' /\ DrainedWhenCanceled'
  BY DEF TestStillHolds, DrainedWhenCanceled, BufTypeOK
<1> QED
  BY <1>1, <1>2, <1>3, FrameStep

\* The flag is set while no putter stands between its test and its transfer:
\* the thread that sets it holds the mutex.
LEMMA SetdoneStep ==
    ASSUME BufIInv, NEW t \in Threads, SetdoneFlag(t)
    PROVE  BufIInv'
<1> USE DEF SetdoneFlag, Goto, ring, locals, BufIInv
<1>1. BufTypeOK'
  BY DEF BufTypeOK, Positions, Critical
<1>2. CallAgrees' /\ MutualExclusion'
  BY DEF CallAgrees, MutualExclusion, BufTypeOK, Critical
<1>3. \A s \in Threads : pc[s] # "xfer"
  BY DEF MutualExclusion, Critical
<1>4. TestStillHolds' /\ DrainedWhenCanceled'
  BY <1>3 DEF TestStillHolds, DrainedWhenCanceled, BufTypeOK
<1> QED
  BY <1>1, <1>2, <1>4, FrameStep

LEMMA BroadcastStep ==
    ASSUME BufIInv, NEW t \in Threads, SetdoneItems(t) \/ SetdoneSlots(t)
    PROVE  BufIInv'
<1>1. PICK from \in {"bcastitems", "bcastslots"}, to \in {"bcastslots", "unlock"},
           waiters \in {ItemsWaiters, SlotsWaiters} :
           Broadcast(t, from, to, waiters)
  BY DEF SetdoneItems, SetdoneSlots
<1>2. \A w \in waiters : w \in Threads /\ pc[w] = "wait"
  BY <1>1 DEF ItemsWaiters, SlotsWaiters
<1>3. CASE Wake(t, from, to, waiters) /\ UNCHANGED error
  BY <1>1, <1>2, <1>3, WakeStep DEF Broadcast, locals
<1>4. CASE /\ Goto(t, from, to)
           /\ error' = [error EXCEPT ![t] = "EFAIL"]
           /\ UNCHANGED <<ring, doneflag, lock, call, item, flag>>
  <2> USE <1>4 DEF Goto, ring, BufIInv
  <2>1. BufTypeOK'
    BY <1>1 DEF BufTypeOK, Positions, Critical
  <2>2. CallAgrees' /\ MutualExclusion'
    BY <1>1 DEF CallAgrees, MutualExclusion, BufTypeOK, Critical
  <2>3. TestStillHolds' /\ DrainedWhenCanceled'
    BY <1>1 DEF TestStillHolds, DrainedWhenCanceled, BufTypeOK
  <2> QED
    BY <2>1, <2>2, <2>3, FrameStep
<1> QED
  BY <1>1, <1>3, <1>4 DEF Broadcast

LEMMA SignalStep ==
    ASSUME BufIInv, NEW t \in Threads, GetSignal(t) \/ PutSignal(t)
    PROVE  BufIInv'
<1>1. CASE CondSignalFails(t)
  BY <1>1, FailStep
<1>2. ASSUME NEW waiters \in {ItemsWaiters, SlotsWaiters}, CondSignal(t, waiters)
      PROVE  BufIInv'
  <2>1. PICK woken : woken \subseteq waiters /\ Wake(t, "signal", "unlock", woken)
    BY <1>2 DEF CondSignal
  <2>2. \A w \in woken : w \in Threads /\ pc[w] = "wait"
    BY <2>1 DEF ItemsWaiters, SlotsWaiters
  <2> QED
    BY <1>2, <2>1, <2>2, WakeStep DEF CondSignal
<1> QED
  BY <1>1, <1>2 DEF GetSignal, PutSignal

LEMMA BufNextIInv == BufIInv /\ [BufNext]_bufvars => BufIInv'
<1> SUFFICES ASSUME BufIInv, [BufNext]_bufvars PROVE BufIInv'
  OBVIOUS
<1>1. CASE UNCHANGED bufvars
  BY <1>1 DEF bufvars, ring, locals, BufIInv, BufTypeOK, CallAgrees,
     MutualExclusion, RingConsistent, TestStillHolds, DrainedWhenCanceled
<1>2. ASSUME NEW t \in Threads, BufStep(t) PROVE BufIInv'
  BY <1>2, EnterStep, ReturnStep, LockStep, UnlockStep, FailStep, SpuriousStep,
     GetTestStep, GetXferStep, PutTestStep, PutXferStep, SignalStep,
     GetdoneStep, SetdoneStep, BroadcastStep
     DEF BufStep, Inside, Proceed
<1> QED
  BY <1>1, <1>2 DEF BufNext

THEOREM BufInvariant == BufSpec => []BufIInv
<1>1. BufInit => BufIInv
  BY BufInitIInv
<1>2. BufIInv /\ [BufNext]_bufvars => BufIInv'
  BY BufNextIInv
<1> QED
  BY <1>1, <1>2, PTL DEF BufSpec

\* Every variable of the buffer keeps its type; in particular the code never
\* indexes outside buffer[BUFSIZE].
THEOREM BufTypeCorrect == BufSpec => []BufTypeOK
BY BufInvariant, PTL DEF BufIInv

\* At most one thread is between its lock and its unlock.
THEOREM BufMutualExclusion == BufSpec => []MutualExclusion
BY BufInvariant, PTL DEF BufIInv

\* The indexes and the counter of the ring agree after every step.
THEOREM BufRingConsistent == BufSpec => []RingConsistent
BY BufInvariant, PTL DEF BufIInv

\* What a thread tested still holds when it moves its item.
THEOREM BufTestStillHolds == BufSpec => []TestStillHolds
BY BufInvariant, PTL DEF BufIInv

\* getitem reports ECANCELED only of a buffer that is empty for good.
THEOREM BufDrainedWhenCanceled == BufSpec => []DrainedWhenCanceled
BY BufInvariant, PTL DEF BufIInv

-----------------------------------------------------------------------------
(* The ring implements the FIFO queue of BoundedQueue.                      *)

Content == Items \cup {NoItem}

\* The buffer's arithmetic and its contents are those of BufferLemmas.
LEMMA RingIsTurn ==
    /\ \A m : Wrap(m) = Wrapped(m, BufSize)
    /\ \A b, out, n : RingItems(b, out, n) = Turn(b, out, n, BufSize)
BY DEF Wrap, Wrapped, RingItems, Turn

LEMMA GetXferRefines ==
    ASSUME BufIInv, NEW t \in Threads, GetXfer(t)
    PROVE  Queue!Get(t)
<1>1. totalitems \in 1..BufSize
  BY BufSizeAssumption DEF BufIInv, BufTypeOK, TestStillHolds, GetXfer, Goto
<1>2. buffer \in Array(BufSize, Content) /\ bufout \in 0..(BufSize - 1)
  BY DEF BufIInv, BufTypeOK, Array, Content
<1>3. LET old == Turn(buffer, bufout, totalitems, BufSize)
      IN  /\ old # << >> /\ Head(old) = buffer[bufout]
          /\ Turn(buffer, Wrapped(bufout + 1, BufSize), totalitems - 1, BufSize) = Tail(old)
  BY <1>1, <1>2, RingTail, BufSizeAssumption
<1>4. /\ Contents # << >> /\ Head(Contents) = buffer[bufout]
      /\ Contents' = Tail(Contents)
  BY <1>3, RingIsTurn DEF Contents, GetXfer
<1> QED
  BY <1>4 DEF Queue!Get, GetXfer

LEMMA PutXferRefines ==
    ASSUME BufIInv, NEW t \in Threads, PutXfer(t)
    PROVE  Queue!Put(t)
<1>1. totalitems \in 0..(BufSize - 1) /\ ~doneflag
  BY BufSizeAssumption DEF BufIInv, BufTypeOK, TestStillHolds, PutXfer, Goto
<1>2. /\ buffer \in Array(BufSize, Content) /\ bufout \in 0..(BufSize - 1)
      /\ item[t] \in Content
  BY DEF BufIInv, BufTypeOK, Array, Content
<1>3. bufin = Wrapped(bufout + totalitems, BufSize)
  BY RingIsTurn DEF BufIInv, RingConsistent
<1>4. Appends(buffer, bufout, totalitems, item[t], BufSize)
  BY <1>1, <1>2, RingAppend, BufSizeAssumption
<1>5. Contents' = Append(Contents, item[t])
  BY <1>3, <1>4, RingIsTurn DEF Contents, PutXfer, Appends
<1>6. Len(Contents) = totalitems /\ totalitems < BufSize
  <2>1. totalitems \in 0..BufSize /\ totalitems < BufSize
    BY <1>1, BufSizeAssumption
  <2>2. Holds(buffer, bufout, totalitems, BufSize, Content)
    BY <2>1, <1>2, TurnSeq, BufSizeAssumption
  <2> QED
    BY <2>1, <2>2, RingIsTurn DEF Contents, Holds
<1> QED
  BY <1>1, <1>5, <1>6 DEF Queue!Put, PutXfer, locals

\* A step that leaves ring, flag and arguments alone is invisible to a queue.
LEMMA Invisible ==
    ASSUME UNCHANGED <<ring, doneflag, item>>
    PROVE  UNCHANGED Queue!vars
BY DEF Queue!vars, Contents, ring

LEMMA BufStepRefines ==
    ASSUME BufIInv, NEW t \in Threads, BufStep(t)
    PROVE  [Queue!Next]_Queue!vars
<1>1. CASE \E i \in Items : CallPutitem(t, i)
  BY <1>1 DEF CallPutitem, Enter, ring, Contents, RingItems, Queue!Next, Queue!Offer
<1>2. CASE Return(t)
  BY <1>2 DEF Return, ring, Contents, Queue!Next, Queue!Offer
<1>3. CASE GetXfer(t)
  BY <1>3, GetXferRefines DEF Queue!Next
<1>4. CASE PutXfer(t)
  BY <1>4, PutXferRefines DEF Queue!Next
<1>5. CASE SetdoneFlag(t)
  BY <1>5 DEF SetdoneFlag, ring, locals, Contents, Queue!Next, Queue!Close
<1>6. CASE \/ CallGetitem(t) \/ CallGetdone(t) \/ CallSetdone(t)
           \/ MutexLock(t) \/ MutexLockFails(t) \/ MutexUnlock(t)
           \/ MutexUnlockFails(t) \/ Relock(t) \/ SpuriousWakeup(t)
  BY <1>6, Invisible DEF CallGetitem, CallGetdone, CallSetdone, Enter, MutexLock,
     MutexLockFails, MutexUnlock, MutexUnlockFails, Relock, SpuriousWakeup, locals
<1>7. CASE GetTest(t) \/ PutTest(t)
  BY <1>7, Invisible DEF GetTest, PutTest, CondWait, CondWaitFails, locals
<1>8. CASE GetSignal(t) \/ PutSignal(t)
  BY <1>8, Invisible DEF GetSignal, PutSignal, CondSignal, CondSignalFails, locals
<1>9. CASE GetdoneRead(t) \/ SetdoneItems(t) \/ SetdoneSlots(t)
  BY <1>9, Invisible DEF GetdoneRead, SetdoneItems, SetdoneSlots, Broadcast
<1> QED
  BY <1>1, <1>2, <1>3, <1>4, <1>5, <1>6, <1>7, <1>8, <1>9 DEF BufStep, Inside, Proceed

\* bufferconddone.c implements the FIFO queue: every item put is delivered at
\* most once and in the order of insertion, for every interleaving, spurious
\* wakeup and failing pthread call.
THEOREM BufRefinesQueue == BufSpec => RefinesQueue
<1>1. BufInit => Queue!Init
  BY DEF BufInit, Queue!Init, Contents, RingItems
<1>2. BufIInv /\ [BufNext]_bufvars => [Queue!Next]_Queue!vars
  <2> SUFFICES ASSUME BufIInv, [BufNext]_bufvars
               PROVE  [Queue!Next]_Queue!vars
    OBVIOUS
  <2>1. CASE UNCHANGED bufvars
    BY <2>1, Invisible DEF bufvars, locals
  <2> QED
    BY <2>1, BufStepRefines DEF BufNext
<1> QED
  BY <1>1, <1>2, BufInvariant, PTL DEF BufSpec, RefinesQueue, Queue!Spec

-----------------------------------------------------------------------------
(* No wakeup is lost, unless a signal or a broadcast fails.                 *)

\* Once the flag is set, putters sleep only until the broadcast of the setdone
\* that has set it, which holds the mutex: nobody can give up meanwhile.
DoneReleases ==
    doneflag /\ SlotsWaiters # {} =>
        \E s \in Threads : pc[s] \in {"bcastitems", "bcastslots"}

WakeIInv == BufIInv /\ NoLostWakeup /\ DoneReleases

\* How many threads will see to an item, and to a free slot.
ItemsMinded == Cardinality(PendingGetters) + Cardinality(Signalling("putitem"))
SlotsMinded == Cardinality(PendingPutters) + Cardinality(Signalling("getitem"))

\* What a thread in function f at position p counts for among them.
ItemsWeight(f, p) ==
    IF \/ f = "getitem" /\ p \in {"relock", "test", "xfer"}
       \/ f = "putitem" /\ p = "signal" THEN 1 ELSE 0
SlotsWeight(f, p) ==
    IF \/ f = "putitem" /\ p \in {"relock", "test", "xfer"}
       \/ f = "getitem" /\ p = "signal" THEN 1 ELSE 0

MindedShift(t, f, to) ==
    /\ ItemsMinded \in Nat /\ ItemsMinded' \in Nat
    /\ SlotsMinded \in Nat /\ SlotsMinded' \in Nat
    /\ ItemsMinded' + ItemsWeight(call[t], pc[t]) = ItemsMinded + ItemsWeight(f, to)
    /\ SlotsMinded' + SlotsWeight(call[t], pc[t]) = SlotsMinded + SlotsWeight(f, to)

\* When only thread t moves, the counts change by what it counted for.
LEMMA MindedMove ==
    ASSUME BufTypeOK, NEW t \in Threads, NEW to, pc' = [pc EXCEPT ![t] = to],
           NEW f, call' = [call EXCEPT ![t] = f]
    PROVE  MindedShift(t, f, to)
<1> DEFINE SG == Signalling("getitem")
           SP == Signalling("putitem")
<1>1. /\ pc'[t] = to /\ call'[t] = f
      /\ \A s \in Threads \ {t} : pc'[s] = pc[s] /\ call'[s] = call[s]
  BY DEF BufTypeOK
<1>2. /\ PendingGetters \in SUBSET Threads /\ PendingGetters' \in SUBSET Threads
      /\ PendingPutters \in SUBSET Threads /\ PendingPutters' \in SUBSET Threads
      /\ SG \in SUBSET Threads /\ SG' \in SUBSET Threads
      /\ SP \in SUBSET Threads /\ SP' \in SUBSET Threads
  BY DEF PendingGetters, PendingPutters, Signalling
<1>3. \A s \in Threads \ {t} : /\ s \in PendingGetters <=> s \in PendingGetters'
                               /\ s \in PendingPutters <=> s \in PendingPutters'
                               /\ s \in SG <=> s \in SG'
                               /\ s \in SP <=> s \in SP'
  BY <1>1 DEF PendingGetters, PendingPutters, Signalling
<1>4. /\ ItemsWeight(call[t], pc[t]) = (IF t \in PendingGetters THEN 1 ELSE 0)
                                       + (IF t \in SP THEN 1 ELSE 0)
      /\ SlotsWeight(call[t], pc[t]) = (IF t \in PendingPutters THEN 1 ELSE 0)
                                       + (IF t \in SG THEN 1 ELSE 0)
  BY DEF ItemsWeight, SlotsWeight, PendingGetters, PendingPutters, Signalling
<1>5. /\ ItemsWeight(f, to) = (IF t \in PendingGetters' THEN 1 ELSE 0)
                                + (IF t \in SP' THEN 1 ELSE 0)
      /\ SlotsWeight(f, to) = (IF t \in PendingPutters' THEN 1 ELSE 0)
                                + (IF t \in SG' THEN 1 ELSE 0)
  BY <1>1 DEF ItemsWeight, SlotsWeight, PendingGetters, PendingPutters, Signalling
<1> HIDE DEF SG, SP
<1>6. /\ Shift(PendingGetters, PendingGetters', t) /\ Shift(SP, SP', t)
      /\ Shift(PendingPutters, PendingPutters', t) /\ Shift(SG, SG', t)
  BY <1>2, <1>3, OneMoves, BufThreadsAssumption
<1>7. /\ ItemsMinded = Cardinality(PendingGetters) + Cardinality(SP)
      /\ SlotsMinded = Cardinality(PendingPutters) + Cardinality(SG)
      /\ ItemsMinded' = Cardinality(PendingGetters') + Cardinality(SP')
      /\ SlotsMinded' = Cardinality(PendingPutters') + Cardinality(SG')
  BY DEF ItemsMinded, SlotsMinded, SP, SG
<1> QED
  BY <1>4, <1>5, <1>6, <1>7 DEF Shift, MindedShift

LEMMA SlotsArithmetic ==
    ASSUME NEW size \in Nat, NEW m \in Nat, NEW n \in Nat, NEW k \in Nat, NEW l \in Nat,
           NEW v \in 0..1, NEW w \in 0..1,
           size - m <= k, m + v <= n + w, l + v = k + w
    PROVE  size - n <= l
OBVIOUS

KeepsItems(t, f, to) ==
    \/ ItemsWaiters = {}
    \/ totalitems' = 0
    \/ totalitems' + ItemsWeight(call[t], pc[t]) <= totalitems + ItemsWeight(f, to)

KeepsSlots(t, f, to) ==
    \/ SlotsWaiters = {}
    \/ totalitems' = BufSize
    \/ totalitems + SlotsWeight(call[t], pc[t]) <= totalitems' + SlotsWeight(f, to)

\* A step of one thread that does not go to sleep keeps the promise when the
\* items, or the free slots, do not outgrow those who mind them.
LEMMA AwakeStep ==
    ASSUME WakeIInv, NEW t \in Threads, NEW to, to # "wait",
           pc' = [pc EXCEPT ![t] = to], NEW f, call' = [call EXCEPT ![t] = f],
           totalitems' \in 0..BufSize, KeepsItems(t, f, to), KeepsSlots(t, f, to)
    PROVE  /\ NoLostWakeup'
           /\ ItemsWaiters' \subseteq ItemsWaiters /\ SlotsWaiters' \subseteq SlotsWaiters
<1> USE BufSizeAssumption DEF KeepsItems, KeepsSlots
<1>1. /\ pc'[t] = to /\ call'[t] = f
      /\ \A s \in Threads \ {t} : pc'[s] = pc[s] /\ call'[s] = call[s]
      /\ totalitems \in 0..BufSize
  BY DEF WakeIInv, BufIInv, BufTypeOK
<1>2. ItemsWaiters' \subseteq ItemsWaiters /\ SlotsWaiters' \subseteq SlotsWaiters
  BY <1>1 DEF ItemsWaiters, SlotsWaiters
<1>3. MindedShift(t, f, to)
  BY MindedMove DEF WakeIInv, BufIInv
<1>4. /\ {ItemsWeight(f, to), ItemsWeight(call[t], pc[t]),
          SlotsWeight(f, to), SlotsWeight(call[t], pc[t])} \subseteq 0..1
  BY DEF ItemsWeight, SlotsWeight
<1>5. /\ ItemsWaiters # {} => totalitems <= ItemsMinded
      /\ SlotsWaiters # {} => BufSize - totalitems <= SlotsMinded
  BY DEF WakeIInv, NoLostWakeup, ItemsMinded, SlotsMinded
<1>6. ItemsWaiters' # {} => totalitems' <= ItemsMinded'
  BY <1>1, <1>2, <1>3, <1>4, <1>5 DEF MindedShift
<1>7. SlotsWaiters' # {} => BufSize - totalitems' <= SlotsMinded'
  <2> SUFFICES ASSUME SlotsWaiters # {} PROVE BufSize - totalitems' <= SlotsMinded'
    BY <1>2
  <2>1. CASE totalitems' = BufSize
    BY <2>1, <1>3 DEF MindedShift
  <2>2. CASE totalitems + SlotsWeight(call[t], pc[t]) <= totalitems' + SlotsWeight(f, to)
    <3>1. /\ BufSize - totalitems <= SlotsMinded /\ SlotsMinded \in Nat /\ SlotsMinded' \in Nat
          /\ SlotsMinded' + SlotsWeight(call[t], pc[t]) = SlotsMinded + SlotsWeight(f, to)
          /\ SlotsWeight(call[t], pc[t]) \in 0..1 /\ SlotsWeight(f, to) \in 0..1
      BY <1>3, <1>4, <1>5 DEF MindedShift
    <3>2. totalitems \in Nat /\ totalitems' \in Nat /\ BufSize \in Nat
      BY <1>1
    <3> QED
      BY <2>2, <3>1, <3>2, SlotsArithmetic
  <2> QED
    BY <2>1, <2>2
<1>8. NoLostWakeup'
  BY <1>6, <1>7 DEF NoLostWakeup, ItemsMinded, SlotsMinded
<1> QED
  BY <1>2, <1>8

\* The setdone that still has to broadcast does so later.
LEMMA ReleasesStep ==
    ASSUME WakeIInv, NEW t \in Threads, pc[t] \notin {"bcastitems", "bcastslots"},
           UNCHANGED doneflag, SlotsWaiters' \subseteq SlotsWaiters,
           \A s \in Threads : s # t /\ pc[s] # "wait" => pc'[s] = pc[s]
    PROVE  DoneReleases'
BY DEF WakeIInv, DoneReleases

LEMMA SameCall ==
    ASSUME WakeIInv, NEW t \in Threads, UNCHANGED call
    PROVE  call' = [call EXCEPT ![t] = call[t]]
BY DEF WakeIInv, BufIInv, BufTypeOK

\* The steps that move no item and wake nobody.
LEMMA EnterAwake ==
    ASSUME WakeIInv, NEW t \in Threads, BufTypeOK',
           \/ CallGetitem(t) \/ CallGetdone(t) \/ CallSetdone(t)
           \/ \E i \in Items : CallPutitem(t, i)
           \/ Return(t)
    PROVE  NoLostWakeup' /\ DoneReleases'
<1>1. PICK f \in Calls, to \in {"lock", "idle"} :
          /\ pc[t] \in {"idle", "return"}
          /\ pc' = [pc EXCEPT ![t] = to] /\ call' = [call EXCEPT ![t] = f]
          /\ totalitems' = totalitems /\ doneflag' = doneflag
  BY DEF CallGetitem, CallGetdone, CallSetdone, CallPutitem, Enter, Return, Goto, ring, Calls
<1>2. /\ ItemsWeight(f, to) = 0 /\ ItemsWeight(call[t], pc[t]) = 0
      /\ SlotsWeight(f, to) = 0 /\ SlotsWeight(call[t], pc[t]) = 0
  BY <1>1 DEF ItemsWeight, SlotsWeight
<1>3. totalitems \in Nat /\ totalitems' \in 0..BufSize
  BY BufSizeAssumption DEF WakeIInv, BufIInv, BufTypeOK
<1>4. NoLostWakeup' /\ SlotsWaiters' \subseteq SlotsWaiters
  <2>1. KeepsItems(t, f, to) /\ KeepsSlots(t, f, to)
    BY <1>1, <1>2, <1>3 DEF KeepsItems, KeepsSlots
  <2> QED
    BY <1>1, <1>3, <2>1, AwakeStep
<1>5. DoneReleases'
  BY <1>1, <1>4, ReleasesStep DEF WakeIInv, BufIInv, BufTypeOK
<1> QED
  BY <1>4, <1>5

LEMMA MutexAwake ==
    ASSUME WakeIInv, NEW t \in Threads, BufTypeOK',
           \/ MutexLock(t) \/ MutexLockFails(t) \/ MutexUnlock(t) \/ MutexUnlockFails(t)
           \/ GetdoneRead(t)
    PROVE  NoLostWakeup' /\ DoneReleases'
<1>1. PICK to \in Positions \ {"wait"} :
          /\ pc[t] \in {"lock", "unlock", "read"}
          /\ pc' = [pc EXCEPT ![t] = to] /\ call' = call
          /\ totalitems' = totalitems /\ doneflag' = doneflag
  BY DEF MutexLock, MutexLockFails, MutexUnlock, MutexUnlockFails, GetdoneRead, Goto, ring,
     AfterLock, Positions, Critical
<1>2. /\ ItemsWeight(call[t], to) \in 0..1 /\ ItemsWeight(call[t], pc[t]) = 0
      /\ SlotsWeight(call[t], to) \in 0..1 /\ SlotsWeight(call[t], pc[t]) = 0
  BY <1>1 DEF ItemsWeight, SlotsWeight
<1>3. totalitems \in Nat /\ totalitems' \in 0..BufSize
  BY BufSizeAssumption DEF WakeIInv, BufIInv, BufTypeOK
<1>4. NoLostWakeup' /\ SlotsWaiters' \subseteq SlotsWaiters
  <2>1. KeepsItems(t, call[t], to) /\ KeepsSlots(t, call[t], to)
    BY <1>1, <1>2, <1>3 DEF KeepsItems, KeepsSlots
  <2>2. call' = [call EXCEPT ![t] = call[t]]
    BY <1>1, SameCall
  <2> QED
    BY <1>1, <1>3, <2>1, <2>2, AwakeStep
<1>5. DoneReleases'
  BY <1>1, <1>4, ReleasesStep DEF WakeIInv, BufIInv, BufTypeOK
<1> QED
  BY <1>4, <1>5

LEMMA RelockAwake ==
    ASSUME WakeIInv, NEW t \in Threads, BufTypeOK', Relock(t) \/ SpuriousWakeup(t)
    PROVE  NoLostWakeup' /\ DoneReleases'
<1>1. PICK to \in {"relock", "test"} :
          /\ pc[t] = IF to = "test" THEN "relock" ELSE "wait"
          /\ pc' = [pc EXCEPT ![t] = to] /\ call' = call
          /\ totalitems' = totalitems /\ doneflag' = doneflag
  BY DEF Relock, SpuriousWakeup, Goto, ring
<1>2. /\ ItemsWeight(call[t], to) \in Nat /\ SlotsWeight(call[t], to) \in Nat
      /\ ItemsWeight(call[t], pc[t]) <= ItemsWeight(call[t], to)
      /\ SlotsWeight(call[t], pc[t]) <= SlotsWeight(call[t], to)
      /\ ItemsWeight(call[t], pc[t]) \in Nat /\ SlotsWeight(call[t], pc[t]) \in Nat
  BY <1>1 DEF ItemsWeight, SlotsWeight
<1>3. totalitems \in Nat /\ totalitems' \in 0..BufSize
  BY BufSizeAssumption DEF WakeIInv, BufIInv, BufTypeOK
<1>4. NoLostWakeup' /\ SlotsWaiters' \subseteq SlotsWaiters
  <2>1. KeepsItems(t, call[t], to) /\ KeepsSlots(t, call[t], to)
    BY <1>1, <1>2, <1>3 DEF KeepsItems, KeepsSlots
  <2>2. call' = [call EXCEPT ![t] = call[t]]
    BY <1>1, SameCall
  <2> QED
    BY <1>1, <1>3, <2>1, <2>2, AwakeStep
<1>5. DoneReleases'
  BY <1>1, <1>4, ReleasesStep DEF WakeIInv, BufIInv, BufTypeOK
<1> QED
  BY <1>4, <1>5

\* A getter that gives up or goes to sleep has found the buffer empty, and a
\* putter that goes to sleep has found it full.
LEMMA SleepStep ==
    ASSUME WakeIInv, NEW t \in Threads, BufTypeOK', CondWait(t), ~doneflag,
           \/ call[t] = "getitem" /\ totalitems = 0
           \/ call[t] = "putitem" /\ totalitems >= BufSize
    PROVE  NoLostWakeup' /\ DoneReleases'
<1>1. /\ pc[t] = "test" /\ pc' = [pc EXCEPT ![t] = "wait"] /\ call' = call
      /\ totalitems' = totalitems /\ doneflag' = doneflag
  BY DEF CondWait, Goto, ring
<1>2. MindedShift(t, call[t], "wait")
  BY <1>1, MindedMove, SameCall DEF WakeIInv, BufIInv
<1>3. /\ pc'[t] = "wait" /\ \A s \in Threads : s # t => pc'[s] = pc[s]
      /\ totalitems \in 0..BufSize
  BY <1>1 DEF WakeIInv, BufIInv, BufTypeOK
<1>4. /\ ItemsWaiters # {} => totalitems <= ItemsMinded
      /\ SlotsWaiters # {} => BufSize - totalitems <= SlotsMinded
  BY DEF WakeIInv, NoLostWakeup, ItemsMinded, SlotsMinded
<1>5. CASE call[t] = "getitem" /\ totalitems = 0
  <2>1. SlotsWaiters' = SlotsWaiters /\ SlotsMinded' = SlotsMinded
    <3>1. SlotsWeight(call[t], "wait") = 0 /\ SlotsWeight(call[t], pc[t]) = 0
      BY <1>1, <1>5 DEF SlotsWeight
    <3>2. SlotsMinded' = SlotsMinded
      BY <1>2, <3>1 DEF MindedShift
    <3> QED
      BY <1>1, <1>3, <1>5, <3>2 DEF SlotsWaiters
  <2>2. totalitems' <= ItemsMinded'
    BY <1>1, <1>2, <1>5 DEF MindedShift
  <2> QED
    BY <1>1, <1>4, <2>1, <2>2 DEF NoLostWakeup, ItemsMinded, SlotsMinded, DoneReleases
<1>6. CASE call[t] = "putitem" /\ totalitems >= BufSize
  <2>1. ItemsWaiters' = ItemsWaiters /\ ItemsMinded' = ItemsMinded
    <3>1. ItemsWeight(call[t], "wait") = 0 /\ ItemsWeight(call[t], pc[t]) = 0
      BY <1>1, <1>6 DEF ItemsWeight
    <3>2. ItemsMinded' = ItemsMinded
      BY <1>2, <3>1 DEF MindedShift
    <3> QED
      BY <1>1, <1>3, <1>6, <3>2 DEF ItemsWaiters
  <2>2. BufSize - totalitems' <= SlotsMinded'
    <3>1. totalitems' = BufSize /\ SlotsMinded' \in Nat
      BY <1>1, <1>2, <1>3, <1>6, BufSizeAssumption DEF MindedShift
    <3> QED
      BY <3>1, BufSizeAssumption
  <2> QED
    BY <1>1, <1>4, <2>1, <2>2 DEF NoLostWakeup, ItemsMinded, SlotsMinded, DoneReleases
<1> QED
  BY <1>5, <1>6

\* The tests.  A putter that gives up because the flag is set leaves nobody
\* asleep: a setdone that has not broadcast yet would hold its mutex.
LEMMA GetTestAwake ==
    ASSUME WakeIInv, NEW t \in Threads, BufTypeOK', GetTest(t)
    PROVE  NoLostWakeup' /\ DoneReleases'
<1>1. CASE CondWait(t) /\ totalitems = 0 /\ ~doneflag
  BY <1>1, SleepStep DEF GetTest
<1>2. ASSUME NEW to \in {"unlock", "xfer"}, pc[t] = "test", call[t] = "getitem",
             pc' = [pc EXCEPT ![t] = to], UNCHANGED <<call, totalitems, doneflag>>,
             to = "unlock" => totalitems = 0
      PROVE  NoLostWakeup' /\ DoneReleases'
  <2>1. totalitems \in Nat /\ totalitems' \in 0..BufSize
    BY <1>2, BufSizeAssumption DEF WakeIInv, BufIInv, BufTypeOK
  <2>2. KeepsItems(t, call[t], to) /\ KeepsSlots(t, call[t], to)
    BY <1>2, <2>1 DEF KeepsItems, KeepsSlots, ItemsWeight, SlotsWeight
  <2>3. call' = [call EXCEPT ![t] = call[t]]
    BY <1>2, SameCall
  <2>4. NoLostWakeup' /\ SlotsWaiters' \subseteq SlotsWaiters
    BY <1>2, <2>1, <2>2, <2>3, AwakeStep
  <2>5. DoneReleases'
    BY <1>2, <2>4, ReleasesStep DEF WakeIInv, BufIInv, BufTypeOK
  <2> QED
    BY <2>4, <2>5
<1>3. CASE CondWaitFails(t) /\ totalitems = 0
  BY <1>2, <1>3 DEF GetTest, CondWaitFails, Goto, ring
<1>4. CASE /\ totalitems = 0 /\ doneflag
           /\ Goto(t, "test", "unlock")
           /\ UNCHANGED <<ring, doneflag, lock, call, item, flag>>
  BY <1>2, <1>4 DEF GetTest, Goto, ring
<1>5. CASE Goto(t, "test", "xfer") /\ UNCHANGED <<ring, doneflag, lock, call, locals>>
  BY <1>2, <1>5 DEF GetTest, Goto, ring
<1> QED
  BY <1>1, <1>3, <1>4, <1>5 DEF GetTest

LEMMA PutTestAwake ==
    ASSUME WakeIInv, NEW t \in Threads, BufTypeOK', PutTest(t)
    PROVE  NoLostWakeup' /\ DoneReleases'
<1>1. CASE CondWait(t) /\ totalitems >= BufSize /\ ~doneflag
  BY <1>1, SleepStep DEF PutTest
<1>2. ASSUME NEW to \in {"unlock", "xfer"}, pc[t] = "test", call[t] = "putitem",
             pc' = [pc EXCEPT ![t] = to], UNCHANGED <<call, totalitems, doneflag>>,
             to = "unlock" => totalitems >= BufSize \/ doneflag
      PROVE  NoLostWakeup' /\ DoneReleases'
  <2>1. totalitems \in Nat /\ totalitems' \in 0..BufSize
    BY <1>2, BufSizeAssumption DEF WakeIInv, BufIInv, BufTypeOK
  <2>2. doneflag => SlotsWaiters = {}
    BY <1>2 DEF WakeIInv, DoneReleases, BufIInv, MutualExclusion, Critical
  <2>3. totalitems >= BufSize => totalitems' = BufSize
    BY <1>2, <2>1, BufSizeAssumption
  <2>4. KeepsItems(t, call[t], to)
    BY <1>2, <2>1 DEF KeepsItems, ItemsWeight
  <2>5. KeepsSlots(t, call[t], to)
    BY <1>2, <2>1, <2>2, <2>3 DEF KeepsSlots, SlotsWeight
  <2>6. call' = [call EXCEPT ![t] = call[t]]
    BY <1>2, SameCall
  <2>7. NoLostWakeup' /\ SlotsWaiters' \subseteq SlotsWaiters
    BY <1>2, <2>1, <2>4, <2>5, <2>6, AwakeStep
  <2>8. DoneReleases'
    BY <1>2, <2>7, ReleasesStep DEF WakeIInv, BufIInv, BufTypeOK
  <2> QED
    BY <2>7, <2>8
<1>3. CASE CondWaitFails(t) /\ totalitems >= BufSize
  BY <1>2, <1>3 DEF PutTest, CondWaitFails, Goto, ring
<1>4. CASE /\ doneflag
           /\ Goto(t, "test", "unlock")
           /\ UNCHANGED <<ring, doneflag, lock, call, item, flag>>
  BY <1>2, <1>4 DEF PutTest, Goto, ring
<1>5. CASE Goto(t, "test", "xfer") /\ UNCHANGED <<ring, doneflag, lock, call, locals>>
  BY <1>2, <1>5 DEF PutTest, Goto, ring
<1> QED
  BY <1>1, <1>3, <1>4, <1>5 DEF PutTest

\* The transfer: the slot a getter frees is minded by the signal it will send.
LEMMA XferAwake ==
    ASSUME WakeIInv, NEW t \in Threads, BufTypeOK', GetXfer(t) \/ PutXfer(t)
    PROVE  NoLostWakeup' /\ DoneReleases'
<1>1. /\ pc[t] = "xfer" /\ pc' = [pc EXCEPT ![t] = "signal"] /\ call' = call
      /\ UNCHANGED doneflag
      /\ \/ call[t] = "getitem" /\ totalitems' = totalitems - 1
         \/ call[t] = "putitem" /\ totalitems' = totalitems + 1
  BY DEF GetXfer, PutXfer, Goto
<1>2. totalitems \in Nat /\ totalitems' \in 0..BufSize
  BY BufSizeAssumption DEF WakeIInv, BufIInv, BufTypeOK
<1>3. KeepsItems(t, call[t], "signal") /\ KeepsSlots(t, call[t], "signal")
  <2>1. CASE call[t] = "getitem" /\ totalitems' = totalitems - 1
    <3>1. /\ ItemsWeight(call[t], pc[t]) = 1 /\ ItemsWeight(call[t], "signal") = 0
          /\ SlotsWeight(call[t], pc[t]) = 0 /\ SlotsWeight(call[t], "signal") = 1
      BY <1>1, <2>1 DEF ItemsWeight, SlotsWeight
    <3> QED
      BY <1>2, <2>1, <3>1 DEF KeepsItems, KeepsSlots
  <2>2. CASE call[t] = "putitem" /\ totalitems' = totalitems + 1
    <3>1. /\ ItemsWeight(call[t], pc[t]) = 0 /\ ItemsWeight(call[t], "signal") = 1
          /\ SlotsWeight(call[t], pc[t]) = 1 /\ SlotsWeight(call[t], "signal") = 0
      BY <1>1, <2>2 DEF ItemsWeight, SlotsWeight
    <3> QED
      BY <1>2, <2>2, <3>1 DEF KeepsItems, KeepsSlots
  <2> QED
    BY <1>1, <2>1, <2>2
<1>4. NoLostWakeup' /\ SlotsWaiters' \subseteq SlotsWaiters
  BY <1>1, <1>2, <1>3, AwakeStep, SameCall
<1>5. DoneReleases'
  BY <1>1, <1>4, ReleasesStep DEF WakeIInv, BufIInv, BufTypeOK
<1> QED
  BY <1>4, <1>5

\* Thread t stops minding, and thread w starts, the same kind of thing.
LEMMA HandedOn ==
    ASSUME NEW t \in Threads, NEW w \in Threads, w # t,
           pc[t] = "signal", pc[w] = "wait", UNCHANGED call,
           \/ call[t] = "getitem" /\ call[w] = "putitem"
           \/ call[t] = "putitem" /\ call[w] = "getitem",
           \A s \in Threads : pc'[s] = IF s = t THEN "unlock"
                                       ELSE IF s = w THEN "relock" ELSE pc[s]
    PROVE  ItemsMinded' = ItemsMinded /\ SlotsMinded' = SlotsMinded
<1> DEFINE SG == Signalling("getitem")
           SP == Signalling("putitem")
<1>1. /\ PendingGetters \in SUBSET Threads /\ PendingGetters' \in SUBSET Threads
      /\ PendingPutters \in SUBSET Threads /\ PendingPutters' \in SUBSET Threads
      /\ SG \in SUBSET Threads /\ SG' \in SUBSET Threads
      /\ SP \in SUBSET Threads /\ SP' \in SUBSET Threads
  BY DEF PendingGetters, PendingPutters, Signalling
<1>2. /\ \A s \in Threads \ {t} : /\ s \in SG <=> s \in SG'
                                  /\ s \in SP <=> s \in SP'
      /\ \A s \in Threads \ {w} : /\ s \in PendingGetters <=> s \in PendingGetters'
                                  /\ s \in PendingPutters <=> s \in PendingPutters'
  BY DEF PendingGetters, PendingPutters, Signalling
<1>3. /\ t \notin SG' /\ t \notin SP' /\ w \notin PendingGetters /\ w \notin PendingPutters
      /\ t \in SG <=> call[t] = "getitem"
      /\ t \in SP <=> call[t] = "putitem"
      /\ w \in PendingGetters' <=> call[t] = "putitem"
      /\ w \in PendingPutters' <=> call[t] = "getitem"
  BY DEF PendingGetters, PendingPutters, Signalling
<1> HIDE DEF SG, SP
<1>4. /\ Shift(PendingGetters, PendingGetters', w) /\ Shift(SP, SP', t)
      /\ Shift(PendingPutters, PendingPutters', w) /\ Shift(SG, SG', t)
  BY <1>1, <1>2, OneMoves, BufThreadsAssumption
<1>5. /\ ItemsMinded = Cardinality(PendingGetters) + Cardinality(SP)
      /\ SlotsMinded = Cardinality(PendingPutters) + Cardinality(SG)
      /\ ItemsMinded' = Cardinality(PendingGetters') + Cardinality(SP')
      /\ SlotsMinded' = Cardinality(PendingPutters') + Cardinality(SG')
  BY DEF ItemsMinded, SlotsMinded, SP, SG
<1> QED
  BY <1>3, <1>4, <1>5 DEF Shift

\* The signal: it makes a sleeper mind what the signaller has minded so far, or
\* there is no sleeper.
LEMMA SignalAwake ==
    ASSUME WakeIInv, NEW t \in Threads, BufTypeOK',
           \/ call[t] = "getitem" /\ CondSignal(t, SlotsWaiters)
           \/ call[t] = "putitem" /\ CondSignal(t, ItemsWaiters)
    PROVE  NoLostWakeup' /\ DoneReleases'
<1> DEFINE waiters == IF call[t] = "getitem" THEN SlotsWaiters ELSE ItemsWaiters
<1>1. /\ call[t] \in {"getitem", "putitem"} /\ pc[t] = "signal" /\ call' = call
      /\ totalitems' = totalitems /\ UNCHANGED doneflag
      /\ totalitems \in Nat /\ totalitems' \in 0..BufSize
      /\ call' = [call EXCEPT ![t] = call[t]]
  BY SameCall, BufSizeAssumption DEF CondSignal, Wake, ring, WakeIInv, BufIInv, BufTypeOK
<1>2. CASE waiters = {} /\ Wake(t, "signal", "unlock", {})
  <2>1. pc' = [pc EXCEPT ![t] = "unlock"]
    BY <1>2 DEF Wake, WakeIInv, BufIInv, BufTypeOK
  <2>2. KeepsItems(t, call[t], "unlock")
    <3>1. CASE call[t] = "getitem"
      BY <1>1, <3>1 DEF KeepsItems, ItemsWeight
    <3>2. CASE call[t] = "putitem"
      BY <1>2, <3>2 DEF KeepsItems
    <3> QED
      BY <1>1, <3>1, <3>2
  <2>3. KeepsSlots(t, call[t], "unlock")
    <3>1. CASE call[t] = "getitem"
      BY <1>2, <3>1 DEF KeepsSlots
    <3>2. CASE call[t] = "putitem"
      BY <1>1, <3>2 DEF KeepsSlots, SlotsWeight
    <3> QED
      BY <1>1, <3>1, <3>2
  <2>4. NoLostWakeup' /\ SlotsWaiters' \subseteq SlotsWaiters
    BY <1>1, <2>1, <2>2, <2>3, AwakeStep
  <2>5. DoneReleases'
    BY <1>1, <2>1, <2>4, ReleasesStep DEF WakeIInv, BufIInv, BufTypeOK
  <2> QED
    BY <2>4, <2>5
<1>3. ASSUME NEW w \in waiters, Wake(t, "signal", "unlock", {w})
      PROVE  NoLostWakeup' /\ DoneReleases'
  <2>1. /\ w \in Threads /\ pc[w] = "wait" /\ w # t
        /\ call[w] = IF call[t] = "getitem" THEN "putitem" ELSE "getitem"
    BY <1>1 DEF SlotsWaiters, ItemsWaiters
  <2>2. \A s \in Threads : pc'[s] = IF s = t THEN "unlock" ELSE IF s = w THEN "relock" ELSE pc[s]
    BY <1>3 DEF Wake
  <2>3. ItemsWaiters' \subseteq ItemsWaiters /\ SlotsWaiters' \subseteq SlotsWaiters
    BY <1>1, <2>2 DEF ItemsWaiters, SlotsWaiters
  <2>4. ItemsMinded' = ItemsMinded /\ SlotsMinded' = SlotsMinded
    BY <1>1, <2>1, <2>2, HandedOn
  <2>5. NoLostWakeup'
    BY <1>1, <2>3, <2>4 DEF WakeIInv, NoLostWakeup, ItemsMinded, SlotsMinded
  <2>6. \A s \in Threads : s # t /\ pc[s] # "wait" => pc'[s] = pc[s]
    BY <2>1, <2>2
  <2>7. DoneReleases'
    BY <1>1, <2>3, <2>6, ReleasesStep
  <2> QED
    BY <2>5, <2>7
<1> QED
  BY <1>2, <1>3 DEF CondSignal

\* setdone.  A broadcast that succeeds leaves nobody asleep on its condition.
LEMMA SetdoneAwake ==
    ASSUME WakeIInv, NEW t \in Threads, BufTypeOK',
           "cond_broadcast" \notin Disturbances,
           SetdoneFlag(t) \/ SetdoneItems(t) \/ SetdoneSlots(t)
    PROVE  NoLostWakeup' /\ DoneReleases'
<1>1. totalitems \in Nat /\ totalitems' \in 0..BufSize
  BY BufSizeAssumption DEF WakeIInv, BufIInv, BufTypeOK
<1>2. CASE SetdoneFlag(t)
  <2>1. /\ pc[t] = "flag" /\ pc' = [pc EXCEPT ![t] = "bcastitems"] /\ call' = call
        /\ totalitems' = totalitems
    BY <1>2 DEF SetdoneFlag, Goto, ring
  <2>2. KeepsItems(t, call[t], "bcastitems") /\ KeepsSlots(t, call[t], "bcastitems")
    <3>1. /\ ItemsWeight(call[t], pc[t]) = 0 /\ ItemsWeight(call[t], "bcastitems") = 0
          /\ SlotsWeight(call[t], pc[t]) = 0 /\ SlotsWeight(call[t], "bcastitems") = 0
      BY <2>1 DEF ItemsWeight, SlotsWeight
    <3> QED
      BY <1>1, <2>1, <3>1 DEF KeepsItems, KeepsSlots
  <2>3. NoLostWakeup'
    BY <1>1, <2>1, <2>2, AwakeStep, SameCall
  <2>4. pc'[t] = "bcastitems"
    BY <2>1 DEF WakeIInv, BufIInv, BufTypeOK
  <2> QED
    BY <2>3, <2>4 DEF DoneReleases
<1>3. CASE SetdoneItems(t)
  <2>1. /\ pc[t] = "bcastitems" /\ call' = call /\ totalitems' = totalitems
        /\ \A s \in Threads : pc'[s] = IF s = t THEN "bcastslots"
                                        ELSE IF s \in ItemsWaiters THEN "relock" ELSE pc[s]
    BY <1>3 DEF SetdoneItems, Broadcast, Wake, ring
  <2>2. ItemsWaiters' = {} /\ SlotsWaiters' = SlotsWaiters
    BY <2>1 DEF ItemsWaiters, SlotsWaiters
  <2>3. PendingPutters' = PendingPutters /\ Signalling("getitem")' = Signalling("getitem")
    BY <2>1 DEF PendingPutters, Signalling, ItemsWaiters
  <2> QED
    BY <2>1, <2>2, <2>3 DEF WakeIInv, NoLostWakeup, DoneReleases
<1>4. CASE SetdoneSlots(t)
  <2>1. /\ pc[t] = "bcastslots" /\ call' = call /\ totalitems' = totalitems
        /\ \A s \in Threads : pc'[s] = IF s = t THEN "unlock"
                                        ELSE IF s \in SlotsWaiters THEN "relock" ELSE pc[s]
    BY <1>4 DEF SetdoneSlots, Broadcast, Wake, ring
  <2>2. ItemsWaiters' = ItemsWaiters /\ SlotsWaiters' = {}
    BY <2>1 DEF ItemsWaiters, SlotsWaiters
  <2>3. PendingGetters' = PendingGetters /\ Signalling("putitem")' = Signalling("putitem")
    BY <2>1 DEF PendingGetters, Signalling, SlotsWaiters
  <2> QED
    BY <2>1, <2>2, <2>3 DEF WakeIInv, NoLostWakeup, DoneReleases
<1> QED
  BY <1>2, <1>3, <1>4

LEMMA WakeNextIInv ==
    ASSUME WakeIInv, [BufNext]_bufvars,
           Disturbances \cap {"cond_signal", "cond_broadcast"} = {}
    PROVE  WakeIInv'
<1>1. BufIInv'
  BY BufNextIInv DEF WakeIInv
<1>2. BufTypeOK'
  BY <1>1 DEF BufIInv
<1>3. NoLostWakeup' /\ DoneReleases'
  <2>1. CASE UNCHANGED bufvars
    BY <2>1 DEF bufvars, ring, WakeIInv, NoLostWakeup, DoneReleases, ItemsWaiters, SlotsWaiters,
                PendingGetters, PendingPutters, Signalling
  <2>2. ASSUME NEW t \in Threads, BufStep(t) PROVE NoLostWakeup' /\ DoneReleases'
    <3>1. CASE \/ CallGetitem(t) \/ CallGetdone(t) \/ CallSetdone(t)
               \/ \E i \in Items : CallPutitem(t, i)
               \/ Return(t)
      BY <1>2, <3>1, EnterAwake
    <3>2. CASE \/ MutexLock(t) \/ MutexLockFails(t) \/ MutexUnlock(t) \/ MutexUnlockFails(t)
               \/ GetdoneRead(t)
      BY <1>2, <3>2, MutexAwake
    <3>3. CASE Relock(t) \/ SpuriousWakeup(t)
      BY <1>2, <3>3, RelockAwake
    <3>4. CASE GetTest(t)
      BY <1>2, <3>4, GetTestAwake
    <3>5. CASE PutTest(t)
      BY <1>2, <3>5, PutTestAwake
    <3>6. CASE GetXfer(t) \/ PutXfer(t)
      BY <1>2, <3>6, XferAwake
    <3>7. CASE GetSignal(t) \/ PutSignal(t)
      BY <1>2, <3>7, SignalAwake DEF GetSignal, PutSignal, CondSignalFails
    <3>8. CASE SetdoneFlag(t) \/ SetdoneItems(t) \/ SetdoneSlots(t)
      BY <1>2, <3>8, SetdoneAwake
    <3> QED
      BY <2>2, <3>1, <3>2, <3>3, <3>4, <3>5, <3>6, <3>7, <3>8 DEF BufStep, Inside, Proceed
  <2> QED
    BY <2>1, <2>2 DEF BufNext
<1> QED
  BY <1>1, <1>3 DEF WakeIInv

\* No wakeup is lost as long as no signal and no broadcast fails, for any
\* number of threads, whatever else fails and whoever wakes without a signal.
THEOREM BufNoLostWakeup ==
    ASSUME Disturbances \cap {"cond_signal", "cond_broadcast"} = {}
    PROVE  BufSpec => []NoLostWakeup
<1>1. BufInit => WakeIInv
  <2> SUFFICES ASSUME BufInit PROVE WakeIInv
    OBVIOUS
  <2>1. ItemsWaiters = {} /\ SlotsWaiters = {}
    BY DEF BufInit, ItemsWaiters, SlotsWaiters
  <2> QED
    BY <2>1, BufInitIInv DEF WakeIInv, NoLostWakeup, DoneReleases
<1>2. WakeIInv /\ [BufNext]_bufvars => WakeIInv'
  BY WakeNextIInv
<1>3. WakeIInv => NoLostWakeup
  BY DEF WakeIInv
<1> QED
  BY <1>1, <1>2, <1>3, PTL DEF BufSpec

=============================================================================
