---------------------------- MODULE PcMainProofs ----------------------------
(***************************************************************************)
(* Theorems about PcMain (chapter16's randpcdone and randpcsig) for every  *)
(* number of producers and consumers, every buffer size and every set of   *)
(* failing calls: the programs use the buffer as CondBuffer lets them, so  *)
(* all that CondBufferProofs proves holds in them, and main prints no      *)
(* result that misses an item.                                             *)
(***************************************************************************)
EXTENDS PcMain, CondBufferProofs

-----------------------------------------------------------------------------
(* The programs are clients of the buffer.                                 *)

LEMMA PcBufStep ==
    ASSUME Next PROVE [BufNext]_bufvars
<1> USE MainAssumption, WorkersAssumption DEF Workers
<1>1. CASE \/ Exited /\ UNCHANGED vars
           \/ CreateConsumers \/ CreateProducers \/ JoinProducers \/ JoinConsumers
           \/ ShowResults \/ BlockSignal \/ StartSigThread
           \/ SigThreadStart \/ SendSignal \/ JoinFails
  BY <1>1 DEF vars, CreateConsumers, CreateProducers, Create, JoinProducers, JoinConsumers, Join,
              ShowResults, BlockSignal, StartSigThread, SigThreadStart, SendSignal, JoinFails
<1>2. CASE Sleep \/ SetdoneReturned \/ SigWait \/ SigSetdoneReturned
  BY <1>2 DEF Sleep, SetdoneReturned, SigWait, SigSetdoneReturned, BufNext, BufStep
<1>3. ASSUME NEW t \in Threads, Buffering(t) \/ Wakeup(t) \/ LockFails(t)
      PROVE  [BufNext]_bufvars
  BY <1>3 DEF Buffering, Wakeup, LockFails, BufNext, BufStep, Inside
<1>4. ASSUME NEW w \in Workers, WorkersStep(w) PROVE [BufNext]_bufvars
  <2>1. w \in Threads
    OBVIOUS
  <2>2. CASE Producer(w)
    BY <2>1, <2>2 DEF Producer, Generate, PutReturned, AskDone, DoneReturned, BufNext, BufStep
  <2>3. CASE Consumer(w)
    BY <2>1, <2>3 DEF Consumer, Retrieve, GetReturned, AddItem, BufNext, BufStep
  <2>4. CASE WorkerFailed(w)
    BY <2>4 DEF WorkerFailed
  <2> QED
    BY <1>3, <1>4, <2>1, <2>2, <2>3, <2>4 DEF WorkersStep, WorkerStep
<1> QED
  BY <1>1, <1>2, <1>3, <1>4 DEF Next, MainStep, SigStep

\* The two programs call the buffer only as its interface allows: every
\* behaviour of them is, in the buffer's variables, a behaviour of CondBuffer.
THEOREM PcUsesBuffer == Spec => BufSpec
<1>1. Init => BufInit
  BY DEF Init
<1>2. [Next]_vars => [BufNext]_bufvars
  <2>1. UNCHANGED vars => UNCHANGED bufvars
    BY DEF vars
  <2> QED
    BY <2>1, PcBufStep
<1> QED
  BY <1>1, <1>2, PTL DEF Spec, BufSpec

-----------------------------------------------------------------------------
(* The count of the items.                                                 *)

\* What each thread is in a call for, and what says so.
WorkAgrees ==
    /\ \A t \in Threads :
           /\ call[t] = "putitem" => t \in Producers /\ wpc[t] = "put"
           /\ call[t] = "getdone" => t \in Producers /\ wpc[t] = "getdone"
           /\ call[t] = "getitem" => t \in Consumers /\ wpc[t] = "get"
           /\ call[t] = "setdone" => \/ t = Main /\ mpc = "setdone"
                                     \/ t = SigThread /\ sigusr1 = "taken"
    /\ mpc \in {"sleep", "setdone"} => program = "randpcdone"

\* Before its last steps a call has no error to return.
Early == {"lock", "test", "wait", "relock", "xfer", "signal"}
NoEarlyError == \A t \in Threads : pc[t] \in Early => error[t] = "OK"

\* A thread outside any call is idle, and which functions have which last steps.
CallOfStep ==
    \A t \in Threads :
        /\ call[t] = "none" => pc[t] = "idle"
        /\ pc[t] = "read" => call[t] = "getdone"
        /\ pc[t] \in {"flag", "bcastitems", "bcastslots"} => call[t] = "setdone"

\* A putitem that has inserted its item and a getitem that has taken one, if
\* they are about to return 0; a consumer that has not added its item yet.
Late == {"signal", "unlock", "return"}
HasPut(t) == call[t] = "putitem" /\ pc[t] \in Late /\ error[t] = "OK"
HasGot(t) == call[t] = "getitem" /\ pc[t] \in Late /\ error[t] = "OK"
Inserted == {t \in Threads : HasPut(t)}
Taken == {t \in Threads : HasGot(t)}
Adding == {c \in Consumers : wpc[c] = "add"}

\* An error was reported, or a worker has met one that it will report.
Trouble ==
    \/ globalerror # "OK"
    \/ \E w \in Workers : wpc[w] = "failed" \/ error[w] = "EFAIL"

\* Every item put and not summed yet is in the buffer or on its way.
Balanced ==
    ~Trouble => unsummed + Cardinality(Inserted)
                    = totalitems + Cardinality(Taken) + Cardinality(Adding)

\* A consumer that ends without an error has seen the last item leave.
LastItemSeen ==
    (\E c \in Consumers : wpc[c] = "gone") => Trouble \/ (doneflag /\ totalitems = 0)

DoneBySignal == doneflag /\ program = "randpcsig" => sigusr1 = "taken"

\* main gets to its results after all workers have ended.
JoinedInTurn ==
    /\ mpc \in {"joinconsumers", "results"} => Gone(Producers)
    /\ mpc = "results" => Gone(Consumers)

PcIInv ==
    /\ BufIInv
    /\ TypeOK
    /\ WorkAgrees
    /\ NoEarlyError
    /\ CallOfStep
    /\ Balanced
    /\ LastItemSeen
    /\ DoneBySignal
    /\ JoinedInTurn
    /\ ResultsAreComplete

-----------------------------------------------------------------------------
(* Steps inside a call.                                                    *)

\* What the programs can tell of a step of thread t inside a call: apart from
\* waking sleepers it concerns t alone.
Within(t) ==
    /\ call' = call /\ pc[t] # "idle"
    /\ \A s \in Threads \ {t} :
           /\ error'[s] = error[s]
           /\ pc'[s] = pc[s] \/ (pc[s] = "wait" /\ pc'[s] = "relock")
    /\ pc'[t] \in Early => error'[t] = "OK"
    /\ pc'[t] = "read" => call[t] = "getdone"
    /\ pc'[t] \in {"flag", "bcastitems", "bcastslots"} => call[t] = "setdone"
    /\ error[t] = "EFAIL" => error'[t] = "EFAIL"
    /\ doneflag' = doneflag \/ (doneflag' /\ pc[t] = "flag")

\* It moves no item, or it moves the one of its call, or its call has failed.
Counted(t) ==
    \/ /\ totalitems' = totalitems
       /\ HasPut(t)' <=> HasPut(t)
       /\ HasGot(t)' <=> HasGot(t)
    \/ call[t] \in {"getitem", "putitem"} /\ error'[t] = "EFAIL" /\ totalitems' = totalitems
    \/ /\ totalitems' = totalitems + 1 /\ ~doneflag
       /\ ~HasPut(t) /\ HasPut(t)' /\ ~HasGot(t) /\ ~HasGot(t)'
    \/ /\ totalitems' = totalitems - 1 /\ totalitems > 0
       /\ ~HasGot(t) /\ HasGot(t)' /\ ~HasPut(t) /\ ~HasPut(t)'

\* The steps that go to another position and change nothing else than the lock.
LEMMA GoWithin ==
    ASSUME BufIInv, NoEarlyError, CallOfStep, NEW t \in Threads, NEW from, NEW to, Goto(t, from, to),
           UNCHANGED <<ring, call, error>>,
           \/ from \in {"lock", "wait", "relock", "test"} /\ to \notin Late
           \/ from = "read" /\ to = "unlock"
           \/ from = "unlock" /\ to = "return"
           \/ from = "flag" /\ to = "bcastitems",
           to = "read" => call[t] = "getdone",
           to \in {"flag", "bcastitems", "bcastslots"} => call[t] = "setdone",
           doneflag' = doneflag \/ (doneflag' /\ from = "flag")
    PROVE  Within(t) /\ Counted(t)
<1> USE DEF BufIInv, BufTypeOK, Goto, ring
<1>1. Within(t)
  BY DEF Within, NoEarlyError, Early, Late
<1>2. Counted(t)
  BY DEF Counted, HasPut, HasGot, Late, CallOfStep
<1> QED
  BY <1>1, <1>2

\* The steps that end a call with an error.
LEMMA FailWithin ==
    ASSUME BufIInv, NoEarlyError, CallOfStep, NEW t \in Threads, NEW from, NEW to, Goto(t, from, to),
           NEW e \in {"ECANCELED", "EFAIL"}, error' = [error EXCEPT ![t] = e],
           UNCHANGED <<ring, doneflag, call>>,
           \/ from = "lock" /\ to = "return" /\ e = "EFAIL"
           \/ from = "test" /\ to = "unlock"
           \/ from = "signal" /\ to = "unlock" /\ e = "EFAIL"
           \/ from = "bcastitems" /\ to = "bcastslots" /\ e = "EFAIL"
           \/ from = "bcastslots" /\ to = "unlock" /\ e = "EFAIL"
           \/ from = "unlock" /\ to = "return" /\ error[t] = "OK" /\ e = "EFAIL"
    PROVE  Within(t) /\ Counted(t)
<1> USE DEF BufIInv, BufTypeOK, Goto, ring
<1>1. Within(t)
  BY DEF Within, NoEarlyError, Early, Late, CallOfStep
<1>2. Counted(t)
  <2>1. pc[t] = from /\ pc'[t] = to /\ error'[t] = e
    OBVIOUS
  <2>2. CASE from = "test"
    BY <2>1, <2>2 DEF Counted, HasPut, HasGot, Late
  <2>3. CASE call[t] \in {"getitem", "putitem"} /\ e = "EFAIL"
    BY <2>1, <2>3 DEF Counted
  <2>4. CASE call[t] \notin {"getitem", "putitem"}
    BY <2>4 DEF Counted, HasPut, HasGot
  <2> QED
    BY <2>2, <2>3, <2>4
<1> QED
  BY <1>1, <1>2

\* The steps that wake sleepers.
LEMMA WakeWithin ==
    ASSUME BufIInv, NoEarlyError, CallOfStep, NEW t \in Threads, NEW from, NEW to,
           NEW W \in SUBSET {s \in Threads : pc[s] = "wait"}, Wake(t, from, to, W),
           UNCHANGED <<ring, doneflag, call, error>>,
           \/ from = "signal" /\ to = "unlock"
           \/ from = "bcastitems" /\ to = "bcastslots"
           \/ from = "bcastslots" /\ to = "unlock"
    PROVE  Within(t) /\ Counted(t)
<1> USE DEF BufIInv, BufTypeOK, Wake, ring
<1>1. Within(t)
  BY DEF Within, NoEarlyError, Early, Late, CallOfStep
<1>2. Counted(t)
  BY DEF Counted, HasPut, HasGot, Late, CallOfStep
<1> QED
  BY <1>1, <1>2

LEMMA TransferWithin ==
    ASSUME BufIInv, NoEarlyError, CallOfStep, NEW t \in Threads, GetXfer(t) \/ PutXfer(t)
    PROVE  Within(t) /\ Counted(t)
<1> USE DEF GetXfer, PutXfer, Goto, locals
<1>1. /\ pc[t] = "xfer" /\ pc'[t] = "signal" /\ call' = call /\ error' = error
      /\ doneflag' = doneflag /\ error[t] = "OK"
      /\ \A s \in Threads \ {t} : pc'[s] = pc[s]
  BY DEF BufIInv, BufTypeOK, NoEarlyError, Early
<1>2. Within(t)
  BY <1>1 DEF Within, Early
<1>3. CASE GetXfer(t)
  <2>1. call[t] = "getitem" /\ totalitems' = totalitems - 1 /\ totalitems > 0
    BY <1>1, <1>3 DEF BufIInv, TestStillHolds
  <2>2. ~HasGot(t) /\ HasGot(t)' /\ ~HasPut(t) /\ ~HasPut(t)'
    BY <1>1, <2>1 DEF HasPut, HasGot, Late
  <2> QED
    BY <1>2, <2>1, <2>2 DEF Counted
<1>4. CASE PutXfer(t)
  <2>1. call[t] = "putitem" /\ totalitems' = totalitems + 1 /\ ~doneflag
    BY <1>1, <1>4 DEF BufIInv, TestStillHolds
  <2>2. ~HasPut(t) /\ HasPut(t)' /\ ~HasGot(t) /\ ~HasGot(t)'
    BY <1>1, <2>1 DEF HasPut, HasGot, Late
  <2> QED
    BY <1>2, <2>1, <2>2 DEF Counted
<1> QED
  BY <1>2, <1>3, <1>4

LEMMA InsideWithin ==
    ASSUME BufIInv, NoEarlyError, CallOfStep, NEW t \in Threads,
           Inside(t) \/ SpuriousWakeup(t)
    PROVE  Within(t) /\ Counted(t)
<1>1. CASE MutexLock(t)
  <2>1. /\ AfterLock(call[t]) \in {"test", "read", "flag"}
        /\ AfterLock(call[t]) = "read" => call[t] = "getdone"
        /\ AfterLock(call[t]) = "flag" => call[t] = "setdone"
    <3>1. pc[t] = "lock"
      BY <1>1 DEF MutexLock, Goto
    <3> QED
      BY <3>1 DEF AfterLock, Calls, BufIInv, CallAgrees
  <2>2. AfterLock(call[t]) \notin Late
    BY <2>1 DEF Late
  <2> QED
    BY <1>1, <2>1, <2>2, GoWithin DEF MutexLock, locals
<1>2. CASE Relock(t) \/ SpuriousWakeup(t)
  BY <1>2, GoWithin DEF Relock, SpuriousWakeup, locals, Late
<1>3. CASE MutexUnlock(t)
  BY <1>3, GoWithin DEF MutexUnlock, locals
<1>4. CASE MutexUnlockFails(t)
  <2>1. CASE error[t] = "OK"
    BY <1>4, <2>1, FailWithin DEF MutexUnlockFails
  <2>2. CASE error[t] # "OK"
    BY <1>4, <2>2, GoWithin DEF MutexUnlockFails
  <2> QED
    BY <2>1, <2>2
<1>5. CASE MutexLockFails(t)
  BY <1>5, FailWithin DEF MutexLockFails
<1>6. CASE GetTest(t)
  <2>1. CASE CondWait(t)
    BY <2>1, GoWithin DEF CondWait, locals, Late
  <2>2. CASE CondWaitFails(t)
    BY <2>2, FailWithin DEF CondWaitFails
  <2>3. CASE /\ Goto(t, "test", "unlock")
             /\ error' = [error EXCEPT ![t] = "ECANCELED"]
             /\ UNCHANGED <<ring, doneflag, lock, call, item, flag>>
    BY <2>3, FailWithin
  <2>4. CASE Goto(t, "test", "xfer") /\ UNCHANGED <<ring, doneflag, lock, call, locals>>
    BY <2>4, GoWithin DEF locals, Late
  <2> QED
    BY <1>6, <2>1, <2>2, <2>3, <2>4 DEF GetTest
<1>7. CASE PutTest(t)
  <2>1. CASE CondWait(t)
    BY <2>1, GoWithin DEF CondWait, locals, Late
  <2>2. CASE CondWaitFails(t)
    BY <2>2, FailWithin DEF CondWaitFails
  <2>3. CASE /\ Goto(t, "test", "unlock")
             /\ error' = [error EXCEPT ![t] = "ECANCELED"]
             /\ UNCHANGED <<ring, doneflag, lock, call, item, flag>>
    BY <2>3, FailWithin
  <2>4. CASE Goto(t, "test", "xfer") /\ UNCHANGED <<ring, doneflag, lock, call, locals>>
    BY <2>4, GoWithin DEF locals, Late
  <2> QED
    BY <1>7, <2>1, <2>2, <2>3, <2>4 DEF PutTest
<1>8. CASE GetXfer(t) \/ PutXfer(t)
  BY <1>8, TransferWithin
<1>9. CASE GetSignal(t) \/ PutSignal(t)
  <2>1. CASE CondSignalFails(t)
    BY <2>1, FailWithin DEF CondSignalFails
  <2>2. ASSUME NEW W \in {ItemsWaiters, SlotsWaiters}, CondSignal(t, W)
        PROVE  Within(t) /\ Counted(t)
    <3>1. PICK V \in SUBSET W : Wake(t, "signal", "unlock", V)
      BY <2>2 DEF CondSignal
    <3>2. V \in SUBSET {s \in Threads : pc[s] = "wait"}
      BY DEF ItemsWaiters, SlotsWaiters
    <3> QED
      BY <2>2, <3>1, <3>2, WakeWithin DEF CondSignal, locals
  <2> QED
    BY <1>9, <2>1, <2>2 DEF GetSignal, PutSignal
<1>10. CASE GetdoneRead(t)
  BY <1>10, GoWithin DEF GetdoneRead
<1>11. CASE SetdoneFlag(t)
  <2>1. call[t] = "setdone"
    BY <1>11 DEF SetdoneFlag, Goto, CallOfStep
  <2> QED
    BY <1>11, <2>1, GoWithin DEF SetdoneFlag, locals
<1>12. ASSUME NEW from, NEW to, NEW W \in {ItemsWaiters, SlotsWaiters}, Broadcast(t, from, to, W),
              \/ from = "bcastitems" /\ to = "bcastslots"
              \/ from = "bcastslots" /\ to = "unlock"
       PROVE  Within(t) /\ Counted(t)
  <2>1. W \in SUBSET {s \in Threads : pc[s] = "wait"}
    BY DEF ItemsWaiters, SlotsWaiters
  <2>2. CASE Wake(t, from, to, W) /\ UNCHANGED error
    BY <1>12, <2>1, <2>2, WakeWithin DEF Broadcast
  <2>3. CASE Goto(t, from, to) /\ error' = [error EXCEPT ![t] = "EFAIL"]
    BY <1>12, <2>3, FailWithin DEF Broadcast
  <2> QED
    BY <1>12, <2>2, <2>3 DEF Broadcast
<1>13. CASE SetdoneItems(t) \/ SetdoneSlots(t)
  BY <1>12, <1>13 DEF SetdoneItems, SetdoneSlots
<1> QED
  BY <1>1, <1>2, <1>3, <1>4, <1>5, <1>6, <1>7, <1>8, <1>9, <1>10, <1>11, <1>13
  DEF Inside, Proceed

LEMMA CallsKept ==
    ASSUME BufIInv, NoEarlyError, CallOfStep, [BufNext]_bufvars
    PROVE  NoEarlyError' /\ CallOfStep'
<1>1. CASE UNCHANGED bufvars
  BY <1>1 DEF bufvars, locals, NoEarlyError, CallOfStep
<1>2. ASSUME NEW t \in Threads, Inside(t) \/ SpuriousWakeup(t)
      PROVE  NoEarlyError' /\ CallOfStep'
  <2>1. Within(t)
    BY <1>2, InsideWithin
  <2>2. call[t] # "none"
    BY <2>1 DEF Within, CallOfStep
  <2> QED
    BY <2>1, <2>2 DEF Within, NoEarlyError, CallOfStep, Early
<1>3. ASSUME NEW t \in Threads, NEW f \in Calls \ {"none"}, Enter(t, f)
      PROVE  NoEarlyError' /\ CallOfStep'
  <2>1. error[t] = "OK"
    BY <1>3 DEF Enter, Goto, BufIInv, CallAgrees
  <2> QED
    BY <1>3, <2>1 DEF Enter, Goto, NoEarlyError, CallOfStep, BufIInv, BufTypeOK
<1>4. ASSUME NEW t \in Threads, Return(t)
      PROVE  NoEarlyError' /\ CallOfStep'
  BY <1>4 DEF Return, Goto, NoEarlyError, CallOfStep, BufIInv, BufTypeOK, Early
<1> QED
  BY <1>1, <1>2, <1>3, <1>4
  DEF BufNext, BufStep, CallGetitem, CallPutitem, CallGetdone, CallSetdone, Calls

-----------------------------------------------------------------------------
(* Keeping the count.                                                      *)

\* What thread t counts for on the two sides of Balanced.
PutWeight(t) == IF HasPut(t) THEN 1 ELSE 0
GotWeight(t) == (IF HasGot(t) THEN 1 ELSE 0) + (IF t \in Adding THEN 1 ELSE 0)

Even(t) ==
    unsummed' + PutWeight(t)' + totalitems + GotWeight(t)
        = unsummed + PutWeight(t) + totalitems' + GotWeight(t)'

\* A step in which only thread t may come to count for something else.
Alone(t) ==
    /\ \A s \in Threads \ {t} : (HasPut(s)' <=> HasPut(s)) /\ (HasGot(s)' <=> HasGot(s))
    /\ \A c \in Consumers \ {t} : wpc'[c] = "add" <=> wpc[c] = "add"

LEMMA BalanceStep ==
    ASSUME TypeOK, TypeOK', Balanced, NEW t \in Threads, Alone(t),
           Trouble => Trouble', Trouble' \/ Even(t)
    PROVE  Balanced'
<1> SUFFICES ASSUME ~Trouble', Even(t)
             PROVE  unsummed' + Cardinality(Inserted')
                        = totalitems' + Cardinality(Taken') + Cardinality(Adding')
  BY DEF Balanced
<1>1. /\ Inserted \in SUBSET Threads /\ Inserted' \in SUBSET Threads
      /\ Taken \in SUBSET Threads /\ Taken' \in SUBSET Threads
      /\ Adding \in SUBSET Threads /\ Adding' \in SUBSET Threads
  BY WorkersAssumption DEF Workers, Inserted, Taken, Adding
<1>2. \A s \in Threads \ {t} : /\ s \in Inserted <=> s \in Inserted'
                               /\ s \in Taken <=> s \in Taken'
                               /\ s \in Adding <=> s \in Adding'
  BY DEF Alone, Inserted, Taken, Adding
<1>3. /\ Shift(Inserted, Inserted', t)
      /\ Shift(Taken, Taken', t)
      /\ Shift(Adding, Adding', t)
  BY <1>1, <1>2, OneMoves, BufThreadsAssumption
<1>4. /\ PutWeight(t) = (IF t \in Inserted THEN 1 ELSE 0)
      /\ GotWeight(t) = (IF t \in Taken THEN 1 ELSE 0) + (IF t \in Adding THEN 1 ELSE 0)
  BY DEF PutWeight, GotWeight, Inserted, Taken
<1>5. /\ PutWeight(t)' = (IF t \in Inserted' THEN 1 ELSE 0)
      /\ GotWeight(t)' = (IF t \in Taken' THEN 1 ELSE 0) + (IF t \in Adding' THEN 1 ELSE 0)
  BY DEF PutWeight, GotWeight, Inserted, Taken
<1>6. unsummed + Cardinality(Inserted)
          = totalitems + Cardinality(Taken) + Cardinality(Adding)
  BY DEF Balanced
<1>7. /\ unsummed \in Int /\ unsummed' \in Int
      /\ totalitems \in Nat /\ totalitems' \in Nat
  BY BufSizeAssumption DEF TypeOK, WorkTypeOK, BufTypeOK
<1> QED
  BY <1>3, <1>4, <1>5, <1>6, <1>7 DEF Shift, Even

\* What the steps of the programs preserve beyond the buffer's own invariant.
PcRest ==
    /\ TypeOK
    /\ WorkAgrees
    /\ Balanced
    /\ LastItemSeen
    /\ DoneBySignal
    /\ JoinedInTurn
    /\ ResultsAreComplete

LEMMA InsidePc ==
    ASSUME PcIInv, ~Exited, BufTypeOK', NEW t \in Threads, Inside(t) \/ SpuriousWakeup(t),
           UNCHANGED <<workvars, mainvars>>
    PROVE  PcRest'
<1> USE DEF workvars, mainvars, sigvars
<1>1. Within(t) /\ Counted(t)
  BY InsideWithin DEF PcIInv
<1>2. TypeOK'
  BY DEF PcIInv, TypeOK, WorkTypeOK
<1>3. WorkAgrees'
  BY <1>1 DEF PcIInv, WorkAgrees, Within
<1>4. Trouble => Trouble'
  BY <1>1, WorkersAssumption DEF Trouble, Within
<1>5. Balanced'
  <2>1. Alone(t)
    BY <1>1 DEF Alone, Within, HasPut, HasGot, Late
  <2>2. /\ (t \in Adding)' <=> t \in Adding
        /\ unsummed' = unsummed /\ unsummed \in Int
        /\ totalitems \in Int /\ totalitems' \in Int
    BY DEF Adding, PcIInv, TypeOK, WorkTypeOK, BufTypeOK
  <2>3. Trouble' \/ Even(t)
    <3>1. CASE call[t] \in {"getitem", "putitem"} /\ error'[t] = "EFAIL"
      BY <3>1 DEF PcIInv, WorkAgrees, Workers, Trouble
    <3>2. CASE totalitems' = totalitems /\ (HasPut(t)' <=> HasPut(t)) /\ (HasGot(t)' <=> HasGot(t))
      BY <2>2, <3>2 DEF Even, PutWeight, GotWeight
    <3>3. CASE /\ totalitems' = totalitems + 1
               /\ ~HasPut(t) /\ HasPut(t)' /\ ~HasGot(t) /\ ~HasGot(t)'
      BY <2>2, <3>3 DEF Even, PutWeight, GotWeight
    <3>4. CASE /\ totalitems' = totalitems - 1
               /\ ~HasGot(t) /\ HasGot(t)' /\ ~HasPut(t) /\ ~HasPut(t)'
      BY <2>2, <3>4 DEF Even, PutWeight, GotWeight
    <3> QED
      BY <1>1, <3>1, <3>2, <3>3, <3>4 DEF Counted
  <2> QED
    BY <1>2, <1>4, <2>1, <2>3, BalanceStep DEF PcIInv
<1>6. LastItemSeen'
  <2> SUFFICES ASSUME doneflag, totalitems = 0 PROVE doneflag' /\ totalitems' = 0
    BY <1>4 DEF PcIInv, LastItemSeen
  <2>1. doneflag' /\ (totalitems' = totalitems \/ totalitems > 0)
    BY <1>1 DEF Within, Counted
  <2> QED
    BY <2>1
<1>7. DoneBySignal'
  <2>1. CASE doneflag' = doneflag
    BY <2>1 DEF PcIInv, DoneBySignal
  <2>2. CASE pc[t] = "flag"
    BY <2>2 DEF PcIInv, DoneBySignal, CallOfStep, WorkAgrees
  <2> QED
    BY <1>1, <2>1, <2>2 DEF Within
<1>8. JoinedInTurn' /\ ResultsAreComplete'
  BY DEF PcIInv, JoinedInTurn, Gone, ResultsAreComplete, Exited
<1> QED
  BY <1>2, <1>3, <1>5, <1>6, <1>7, <1>8 DEF PcRest

\* The steps that begin a call, and those outside the buffer that add nothing to
\* the sum, change no count.
LEMMA QuietCount ==
    ASSUME PcIInv, TypeOK', UNCHANGED <<totalitems, doneflag, unsummed>>,
           \A w \in Workers : error'[w] = error[w],
           \A s \in Threads : (HasPut(s)' <=> HasPut(s)) /\ (HasGot(s)' <=> HasGot(s)),
           \A w \in Workers : wpc'[w] = "add" <=> wpc[w] = "add",
           \A w \in Workers : wpc[w] = "failed" => wpc'[w] = "failed" \/ globalerror' # "OK",
           \A w \in Workers : wpc'[w] = "gone" => wpc[w] = "gone" \/ globalerror' # "OK",
           globalerror # "OK" => globalerror' # "OK"
    PROVE  Balanced' /\ LastItemSeen'
<1>1. Trouble => Trouble'
  BY DEF Trouble
<1>2. Balanced'
  <2>1. Alone(Main)
    BY DEF Alone, Workers
  <2>2. Main \in Threads /\ Main \notin Workers
    BY MainAssumption
  <2>3. PutWeight(Main)' = PutWeight(Main) /\ GotWeight(Main)' = GotWeight(Main)
    BY <2>2 DEF PutWeight, GotWeight, Adding, Workers
  <2>4. Even(Main)
    BY <2>3 DEF Even
  <2> QED
    BY <1>1, <2>1, <2>2, <2>4, BalanceStep DEF PcIInv
<1>3. LastItemSeen'
  BY <1>1 DEF PcIInv, LastItemSeen, Workers, Trouble
<1> QED
  BY <1>2, <1>3

\* A worker that has ended stays so.
LEMMA Waiting ==
    ASSUME PcIInv, ~Exited, mpc' = mpc \/ mpc' \notin {"joinconsumers", "results", "exit0"},
           \A w \in Workers : wpc[w] = "gone" => wpc'[w] = "gone"
    PROVE  JoinedInTurn' /\ ResultsAreComplete'
BY DEF PcIInv, JoinedInTurn, Gone, ResultsAreComplete, Exited, Workers

\* The beginning of a call.
LEMMA EnterQuiet ==
    ASSUME BufIInv, NEW t \in Threads, NEW f \in Calls \ {"none"}, Enter(t, f)
    PROVE  /\ pc[t] = "idle" /\ call' = [call EXCEPT ![t] = f]
           /\ UNCHANGED <<totalitems, doneflag, error>>
           /\ \A s \in Threads : (HasPut(s)' <=> HasPut(s)) /\ (HasGot(s)' <=> HasGot(s))
<1>1. /\ pc[t] = "idle" /\ pc' = [pc EXCEPT ![t] = "lock"] /\ call' = [call EXCEPT ![t] = f]
      /\ UNCHANGED <<totalitems, doneflag, error>>
  BY DEF Enter, Goto, ring
<1>2. pc'[t] = "lock" /\ \A s \in Threads \ {t} : pc'[s] = pc[s] /\ call'[s] = call[s]
  BY <1>1 DEF BufIInv, BufTypeOK
<1> QED
  BY <1>1, <1>2 DEF HasPut, HasGot, Late

LEMMA WorkerEnterPc ==
    ASSUME PcIInv, ~Exited, BufTypeOK', NEW w \in Workers, UNCHANGED mainvars,
           \/ /\ w \in Producers /\ \E i \in Items : CallPutitem(w, i)
              /\ At(w, "generate") /\ MoveTo(w, "put")
              /\ UNCHANGED <<globalerror, unsummed>>
           \/ w \in Producers /\ AskDone(w)
           \/ w \in Consumers /\ Retrieve(w)
    PROVE  PcRest'
<1> USE WorkersAssumption DEF mainvars, sigvars
<1>1. PICK f \in {"putitem", "getdone", "getitem"} :
          /\ Enter(w, f)
          /\ \/ f = "putitem" /\ w \in Producers /\ wpc[w] = "generate"
                  /\ wpc' = [wpc EXCEPT ![w] = "put"]
             \/ f = "getdone" /\ w \in Producers /\ wpc[w] = "getdone" /\ wpc' = wpc
             \/ f = "getitem" /\ w \in Consumers /\ wpc[w] = "get" /\ wpc' = wpc
          /\ UNCHANGED <<globalerror, unsummed>>
  BY DEF AskDone, Retrieve, At, MoveTo, workvars, CallPutitem, CallGetdone, CallGetitem
<1>2. w \in Threads /\ f \in Calls \ {"none"}
  BY DEF Calls
<1>3. /\ pc[w] = "idle" /\ call' = [call EXCEPT ![w] = f]
      /\ UNCHANGED <<totalitems, doneflag, error>>
      /\ \A s \in Threads : (HasPut(s)' <=> HasPut(s)) /\ (HasGot(s)' <=> HasGot(s))
  BY <1>1, <1>2, EnterQuiet DEF PcIInv
<1>4. wpc \in [Workers -> WorkerPositions] /\ call \in [Threads -> Calls]
  BY DEF PcIInv, TypeOK, WorkTypeOK, BufTypeOK
<1>5. TypeOK'
  BY <1>1, <1>4 DEF PcIInv, TypeOK, WorkTypeOK, WorkerPositions
<1>6. WorkAgrees'
  <2>1. call[w] = "none"
    BY <1>2, <1>3 DEF PcIInv, BufIInv, CallAgrees
  <2>2. \A s \in Threads \ {w} : call'[s] = call[s] /\ (s \in Workers => wpc'[s] = wpc[s])
    BY <1>1, <1>3, <1>4
  <2>3. /\ call'[w] = "putitem" => w \in Producers /\ wpc'[w] = "put"
        /\ call'[w] = "getdone" => w \in Producers /\ wpc'[w] = "getdone"
        /\ call'[w] = "getitem" => w \in Consumers /\ wpc'[w] = "get"
        /\ call'[w] # "setdone"
    BY <1>1, <1>2, <1>3, <1>4
  <2> QED
    BY <2>2, <2>3 DEF PcIInv, WorkAgrees, Workers
<1>7. /\ \A v \in Workers : wpc'[v] = "add" <=> wpc[v] = "add"
      /\ \A v \in Workers : wpc[v] = "failed" => wpc'[v] = "failed" \/ globalerror' # "OK"
      /\ \A v \in Workers : wpc'[v] = "gone" <=> wpc[v] = "gone"
  BY <1>1, <1>4
<1>8. Balanced' /\ LastItemSeen'
  BY <1>1, <1>3, <1>5, <1>7, QuietCount
<1>9. DoneBySignal'
  BY <1>3 DEF PcIInv, DoneBySignal
<1>10. JoinedInTurn' /\ ResultsAreComplete'
  BY <1>7, Waiting
<1> QED
  BY <1>5, <1>6, <1>8, <1>9, <1>10 DEF PcRest

\* main, or the signal thread, calls setdone.
LEMMA SetdoneEnterPc ==
    ASSUME PcIInv, ~Exited, BufTypeOK', Sleep \/ SigWait
    PROVE  PcRest'
<1> USE WorkersAssumption, MainAssumption DEF mainvars, sigvars, workvars
<1>1. PICK t \in {Main, SigThread} :
          /\ Enter(t, "setdone")
          /\ UNCHANGED <<wpc, globalerror, unsummed, program>>
          /\ \/ t = Main /\ mpc = "sleep" /\ mpc' = "setdone" /\ UNCHANGED <<spc, sigusr1>>
             \/ t = SigThread /\ mpc' = mpc /\ sigusr1' = "taken" /\ spc' = "setdone"
  BY DEF Sleep, SigWait, MainGoto, CallSetdone
<1>2. t \in Threads /\ t \notin Workers /\ "setdone" \in Calls \ {"none"}
  BY DEF Calls
<1>3. /\ pc[t] = "idle" /\ call' = [call EXCEPT ![t] = "setdone"]
      /\ UNCHANGED <<totalitems, doneflag, error>>
      /\ \A s \in Threads : (HasPut(s)' <=> HasPut(s)) /\ (HasGot(s)' <=> HasGot(s))
  BY <1>1, <1>2, EnterQuiet DEF PcIInv
<1>4. call \in [Threads -> Calls]
  BY DEF PcIInv, TypeOK, WorkTypeOK, BufTypeOK
<1>5. TypeOK'
  BY <1>1 DEF PcIInv, TypeOK, WorkTypeOK, MainPositions, SigPositions
<1>6. WorkAgrees'
  <2>1. \A s \in Threads \ {t} : call'[s] = call[s]
    BY <1>3, <1>4
  <2>2. call'[t] = "setdone"
    BY <1>2, <1>3, <1>4
  <2> QED
    BY <1>1, <2>1, <2>2 DEF PcIInv, WorkAgrees
<1>7. Balanced' /\ LastItemSeen'
  BY <1>1, <1>3, <1>5, QuietCount
<1>8. DoneBySignal'
  BY <1>1, <1>3 DEF PcIInv, DoneBySignal
<1>9. JoinedInTurn' /\ ResultsAreComplete'
  BY <1>1, Waiting
<1> QED
  BY <1>5, <1>6, <1>7, <1>8, <1>9 DEF PcRest

\* The end of a call.
LEMMA ReturnAlone ==
    ASSUME BufIInv, NEW t \in Threads, Return(t)
    PROVE  /\ pc[t] = "return" /\ UNCHANGED <<totalitems, doneflag>>
           /\ call'[t] = "none" /\ error'[t] = "OK" /\ ~HasPut(t)' /\ ~HasGot(t)'
           /\ \A s \in Threads \ {t} : /\ call'[s] = call[s] /\ error'[s] = error[s]
                                       /\ HasPut(s)' <=> HasPut(s)
                                       /\ HasGot(s)' <=> HasGot(s)
<1>1. /\ pc[t] = "return" /\ UNCHANGED <<totalitems, doneflag>>
      /\ call'[t] = "none" /\ error'[t] = "OK"
      /\ \A s \in Threads \ {t} : call'[s] = call[s] /\ error'[s] = error[s] /\ pc'[s] = pc[s]
  BY DEF Return, Goto, ring, BufIInv, BufTypeOK
<1> QED
  BY <1>1 DEF HasPut, HasGot, Late

LEMMA WorkerReturnPc ==
    ASSUME PcIInv, ~Exited, BufTypeOK', NEW w \in Workers, UNCHANGED mainvars,
           \/ w \in Producers /\ (PutReturned(w) \/ DoneReturned(w))
           \/ w \in Consumers /\ GetReturned(w)
    PROVE  PcRest'
<1> USE WorkersAssumption DEF mainvars, sigvars
<1>1. PICK from \in {"put", "getdone", "get"}, next \in {"getdone", "gone", "generate", "add"} :
          /\ Return(w) /\ globalerror' = globalerror
          /\ wpc[w] = from /\ wpc' = [wpc EXCEPT ![w] = Outcome(error[w], next)]
          /\ from = "get" <=> w \in Consumers
          /\ from = "get" <=> next = "add"
          /\ unsummed' = IF from = "put" /\ error[w] = "OK" THEN unsummed + 1 ELSE unsummed
  BY DEF PutReturned, DoneReturned, GetReturned, MoveTo, Workers
<1>2. w \in Threads
  OBVIOUS
<1>3. /\ pc[w] = "return" /\ UNCHANGED <<totalitems, doneflag>>
      /\ call'[w] = "none" /\ error'[w] = "OK" /\ ~HasPut(w)' /\ ~HasGot(w)'
      /\ \A s \in Threads \ {w} : /\ call'[s] = call[s] /\ error'[s] = error[s]
                                  /\ HasPut(s)' <=> HasPut(s)
                                  /\ HasGot(s)' <=> HasGot(s)
  BY <1>1, <1>2, ReturnAlone DEF PcIInv
<1>4. /\ wpc \in [Workers -> WorkerPositions] /\ unsummed \in Int /\ totalitems \in Int
      /\ call \in [Threads -> Calls] /\ error[w] \in {"OK", "ECANCELED", "EFAIL"}
  BY <1>2, BufSizeAssumption DEF PcIInv, TypeOK, WorkTypeOK, BufTypeOK
<1>5. /\ wpc'[w] = Outcome(error[w], next)
      /\ \A v \in Workers \ {w} : wpc'[v] = wpc[v]
  BY <1>1, <1>4
<1>6. TypeOK'
  BY <1>1, <1>4 DEF PcIInv, TypeOK, WorkTypeOK, WorkerPositions, Outcome
<1>7. WorkAgrees'
  BY <1>3, <1>5 DEF PcIInv, WorkAgrees, Workers
<1>8. call[w] = IF from = "put" THEN "putitem" ELSE IF from = "get" THEN "getitem" ELSE "getdone"
  <2>1. call[w] # "none" /\ call[w] # "setdone"
    BY <1>2, <1>3, MainAssumption DEF PcIInv, CallOfStep, WorkAgrees
  <2> QED
    BY <1>1, <1>2, <1>4, <2>1 DEF PcIInv, WorkAgrees, Calls
<1>9. /\ HasPut(w) <=> from = "put" /\ error[w] = "OK"
      /\ HasGot(w) <=> from = "get" /\ error[w] = "OK"
  BY <1>1, <1>3, <1>8 DEF HasPut, HasGot, Late
<1>10. /\ w \notin Adding
       /\ w \in Adding' <=> from = "get" /\ error[w] = "OK"
  BY <1>1, <1>4, <1>5 DEF Adding, Outcome
<1>11. Trouble => Trouble'
  <2>1. error[w] = "EFAIL" => wpc'[w] = "failed"
    BY <1>5 DEF Outcome
  <2>2. \A v \in Workers \ {w} : wpc'[v] = wpc[v] /\ error'[v] = error[v]
    BY <1>3, <1>5
  <2>3. wpc[w] # "failed"
    BY <1>1
  <2> QED
    BY <1>1, <2>1, <2>2, <2>3 DEF Trouble
<1>12. Balanced'
  <2>1. Alone(w)
    BY <1>3, <1>5 DEF Alone, Workers
  <2>2. Even(w)
    BY <1>1, <1>3, <1>4, <1>9, <1>10 DEF Even, PutWeight, GotWeight
  <2> QED
    BY <1>2, <1>6, <1>11, <2>1, <2>2, BalanceStep DEF PcIInv
<1>13. LastItemSeen'
  <2> SUFFICES ASSUME NEW c \in Consumers, wpc'[c] = "gone", ~Trouble'
               PROVE  doneflag' /\ totalitems' = 0
    BY DEF LastItemSeen
  <2>1. CASE c = w
    <3>1. from = "get" /\ error[w] = "ECANCELED"
      BY <1>1, <1>4, <1>5, <2>1 DEF Outcome
    <3> QED
      BY <1>2, <1>3, <1>8, <3>1 DEF PcIInv, BufIInv, DrainedWhenCanceled
  <2>2. CASE c # w
    BY <1>3, <1>5, <1>11, <2>2 DEF PcIInv, LastItemSeen, Workers
  <2> QED
    BY <2>1, <2>2
<1>14. DoneBySignal'
  BY <1>3 DEF PcIInv, DoneBySignal
<1>15. JoinedInTurn' /\ ResultsAreComplete'
  <2>1. \A v \in Workers : wpc[v] = "gone" => wpc'[v] = "gone"
    BY <1>1, <1>5
  <2> QED
    BY <2>1, Waiting
<1> QED
  BY <1>6, <1>7, <1>12, <1>13, <1>14, <1>15 DEF PcRest

LEMMA SetdoneReturnPc ==
    ASSUME PcIInv, ~Exited, BufTypeOK', "errorlock" \notin Faults,
           SetdoneReturned \/ SigSetdoneReturned
    PROVE  PcRest'
<1> USE WorkersAssumption, MainAssumption DEF mainvars, sigvars, workvars
<1>1. PICK t \in {Main, SigThread} :
          /\ Return(t) /\ UNCHANGED <<wpc, unsummed, program, sigusr1>>
          /\ \/ t = Main /\ mpc' \in {"joinproducers", "exit1"} /\ UNCHANGED <<globalerror, spc>>
             \/ t = SigThread /\ mpc' = mpc /\ spc' = "gone" /\ globalerror' = globalerror
             \/ t = SigThread /\ mpc' = mpc /\ spc' = "failed" /\ globalerror' = "EFAIL"
  BY DEF SetdoneReturned, SigSetdoneReturned, MainGoto, SetError
<1>2. t \in Threads /\ t \notin Workers
  OBVIOUS
<1>3. /\ UNCHANGED <<totalitems, doneflag>> /\ call'[t] = "none" /\ ~HasPut(t)' /\ ~HasGot(t)'
      /\ \A s \in Threads \ {t} : /\ call'[s] = call[s] /\ error'[s] = error[s]
                                  /\ HasPut(s)' <=> HasPut(s)
                                  /\ HasGot(s)' <=> HasGot(s)
  BY <1>1, <1>2, ReturnAlone DEF PcIInv
<1>4. TypeOK'
  BY <1>1 DEF PcIInv, TypeOK, WorkTypeOK, MainPositions, SigPositions
<1>5. WorkAgrees'
  BY <1>1, <1>3 DEF PcIInv, WorkAgrees
<1>6. ~HasPut(t) /\ ~HasGot(t)
  BY <1>2 DEF PcIInv, WorkAgrees, HasPut, HasGot, Workers
<1>7. \A s \in Threads : (HasPut(s)' <=> HasPut(s)) /\ (HasGot(s)' <=> HasGot(s))
  BY <1>3, <1>6
<1>8. Balanced' /\ LastItemSeen'
  BY <1>1, <1>2, <1>3, <1>4, <1>7, QuietCount
<1>9. DoneBySignal'
  BY <1>1, <1>3 DEF PcIInv, DoneBySignal
<1>10. JoinedInTurn' /\ ResultsAreComplete'
  BY <1>1, Waiting
<1> QED
  BY <1>4, <1>5, <1>8, <1>9, <1>10 DEF PcRest

-----------------------------------------------------------------------------
(* Steps outside the buffer.                                               *)

\* They leave what the calls count for alone.
LEMMA Outside ==
    ASSUME UNCHANGED bufvars
    PROVE  /\ UNCHANGED <<totalitems, doneflag, call, error>>
           /\ \A s \in Threads : (HasPut(s)' <=> HasPut(s)) /\ (HasGot(s)' <=> HasGot(s))
BY DEF bufvars, ring, locals, HasPut, HasGot

\* A worker fails, reports its error, or is created.
LEMMA WorkerMovesPc ==
    ASSUME PcIInv, ~Exited, TypeOK', UNCHANGED <<bufvars, unsummed, mainvars>>,
           NEW w \in Workers, NEW to, wpc' = [wpc EXCEPT ![w] = to],
           \/ wpc[w] = "generate" /\ to = "failed" /\ UNCHANGED globalerror
           \/ wpc[w] = "failed" /\ to = "gone" /\ globalerror' = "EFAIL"
           \/ wpc[w] = "unborn" /\ to \in {"generate", "get"} /\ UNCHANGED globalerror
    PROVE  PcRest'
<1> USE DEF mainvars, sigvars
<1>1. /\ UNCHANGED <<totalitems, doneflag, call, error>>
      /\ \A s \in Threads : (HasPut(s)' <=> HasPut(s)) /\ (HasGot(s)' <=> HasGot(s))
  BY Outside
<1>2. wpc'[w] = to /\ \A v \in Workers \ {w} : wpc'[v] = wpc[v]
  BY DEF PcIInv, TypeOK, WorkTypeOK
<1>3. WorkAgrees'
  BY <1>1, <1>2 DEF PcIInv, WorkAgrees, Workers
<1>4. Balanced' /\ LastItemSeen'
  <2>1. /\ \A v \in Workers : wpc'[v] = "add" <=> wpc[v] = "add"
        /\ \A v \in Workers : wpc[v] = "failed" => wpc'[v] = "failed" \/ globalerror' # "OK"
        /\ \A v \in Workers : wpc'[v] = "gone" => wpc[v] = "gone" \/ globalerror' # "OK"
        /\ globalerror # "OK" => globalerror' # "OK"
    BY <1>2
  <2> QED
    BY <1>1, <2>1, QuietCount
<1>5. DoneBySignal'
  BY <1>1 DEF PcIInv, DoneBySignal
<1>6. JoinedInTurn' /\ ResultsAreComplete'
  <2>1. \A v \in Workers : wpc[v] = "gone" => wpc'[v] = "gone"
    BY <1>2
  <2> QED
    BY <2>1, Waiting
<1> QED
  BY <1>3, <1>4, <1>5, <1>6 DEF PcRest

\* A consumer adds its item to the sum, or cannot and reports it.
LEMMA AddItemPc ==
    ASSUME PcIInv, ~Exited, TypeOK', NEW c \in Consumers, AddItem(c), UNCHANGED mainvars,
           "errorlock" \notin Faults
    PROVE  PcRest'
<1> USE WorkersAssumption DEF mainvars, sigvars
<1>1. c \in Workers /\ c \in Threads /\ wpc[c] = "add" /\ pc[c] = "idle" /\ UNCHANGED bufvars
  BY DEF AddItem, At, Workers
<1>2. /\ UNCHANGED <<totalitems, doneflag, call, error>>
      /\ \A s \in Threads : (HasPut(s)' <=> HasPut(s)) /\ (HasGot(s)' <=> HasGot(s))
  BY <1>1, Outside
<1>3. PICK to \in {"get", "failed"} :
          /\ wpc' = [wpc EXCEPT ![c] = to]
          /\ to = "get" => unsummed' = unsummed - 1 /\ globalerror' = globalerror
          /\ to = "failed" => unsummed' = unsummed /\ globalerror' = "EFAIL"
  BY DEF AddItem, MoveTo, SetError
<1>4. wpc'[c] = to /\ \A v \in Workers \ {c} : wpc'[v] = wpc[v]
  BY <1>1, <1>3 DEF PcIInv, TypeOK, WorkTypeOK
<1>5. WorkAgrees'
  BY <1>1, <1>2, <1>4 DEF PcIInv, WorkAgrees, Workers
<1>6. Trouble => Trouble'
  BY <1>1, <1>2, <1>3, <1>4 DEF Trouble
<1>7. Balanced'
  <2>1. Alone(c)
    BY <1>2, <1>4 DEF Alone, Workers
  <2>2. CASE to = "failed"
    <3>1. Trouble'
      BY <1>3, <2>2 DEF Trouble
    <3> QED
      BY <3>1 DEF Balanced
  <2>3. CASE to = "get"
    <3>1. c \in Adding /\ c \notin Adding'
      BY <1>1, <1>4, <2>3 DEF Adding
    <3>2. unsummed \in Int /\ totalitems \in Int
      BY DEF PcIInv, TypeOK, WorkTypeOK, BufTypeOK
    <3>3. Even(c)
      BY <1>1, <1>2, <1>3, <2>3, <3>1, <3>2 DEF Even, PutWeight, GotWeight
    <3> QED
      BY <1>1, <1>6, <2>1, <3>3, BalanceStep DEF PcIInv
  <2> QED
    BY <2>2, <2>3
<1>8. LastItemSeen'
  BY <1>1, <1>2, <1>4, <1>6 DEF PcIInv, LastItemSeen, Workers
<1>9. DoneBySignal'
  BY <1>2 DEF PcIInv, DoneBySignal
<1>10. JoinedInTurn' /\ ResultsAreComplete'
  <2>1. \A v \in Workers : wpc[v] = "gone" => wpc'[v] = "gone"
    BY <1>1, <1>4
  <2> QED
    BY <2>1, Waiting
<1> QED
  BY <1>5, <1>7, <1>8, <1>9, <1>10 DEF PcRest

\* main or the signal thread goes on, or a signal is sent.
LEMMA MainMovesPc ==
    ASSUME PcIInv, TypeOK', UNCHANGED <<bufvars, wpc, unsummed, program>>,
           globalerror' = globalerror \/ globalerror' = "EFAIL",
           sigusr1 = "taken" => sigusr1' = "taken",
           mpc' = mpc \/ (mpc # "setdone" /\ mpc' # "setdone"),
           mpc' = "sleep" => program = "randpcdone",
           JoinedInTurn', ResultsAreComplete'
    PROVE  PcRest'
<1>1. /\ UNCHANGED <<totalitems, doneflag, call, error>>
      /\ \A s \in Threads : (HasPut(s)' <=> HasPut(s)) /\ (HasGot(s)' <=> HasGot(s))
  BY Outside
<1>2. WorkAgrees'
  BY <1>1 DEF PcIInv, WorkAgrees
<1>3. Balanced' /\ LastItemSeen'
  BY <1>1, QuietCount
<1>4. DoneBySignal'
  BY <1>1 DEF PcIInv, DoneBySignal
<1> QED
  BY <1>2, <1>3, <1>4 DEF PcRest

\* When main shows a result, nobody is left to report an error, no item is on
\* its way, and the consumers have left an empty buffer behind.
LEMMA NothingMissing ==
    ASSUME PcIInv, Consumers # {}, mpc = "results", globalerror = "OK"
    PROVE  unsummed = 0 /\ (program = "randpcsig" => sigusr1 = "taken")
<1>1. \A w \in Workers : wpc[w] = "gone"
  BY DEF PcIInv, JoinedInTurn, Gone, Workers
<1>2. \A t \in Threads : call[t] \notin {"putitem", "getitem", "getdone"}
  BY <1>1 DEF PcIInv, WorkAgrees, Workers
<1>3. \A w \in Workers : error[w] = "OK"
  <2> TAKE w \in Workers
  <2>1. w \in Threads /\ call[w] # "setdone"
    BY <1>1, WorkersAssumption, MainAssumption DEF PcIInv, WorkAgrees
  <2>2. call[w] = "none"
    BY <1>2, <2>1 DEF PcIInv, BufIInv, BufTypeOK, Calls
  <2>3. pc[w] = "idle"
    BY <2>1, <2>2 DEF PcIInv, CallOfStep
  <2> QED
    BY <2>1, <2>3 DEF PcIInv, BufIInv, CallAgrees
<1>4. ~Trouble
  BY <1>1, <1>3 DEF Trouble
<1>5. doneflag /\ totalitems = 0
  BY <1>1, <1>4 DEF PcIInv, LastItemSeen, Workers
<1>6. Inserted = {} /\ Taken = {} /\ Adding = {}
  BY <1>1, <1>2 DEF Inserted, Taken, Adding, HasPut, HasGot, Workers
<1>7. Cardinality({}) = 0
  BY FS_EmptySet
<1>8. unsummed \in Int
  BY DEF PcIInv, TypeOK, WorkTypeOK
<1> QED
  BY <1>4, <1>5, <1>6, <1>7, <1>8 DEF PcIInv, Balanced, DoneBySignal

LEMMA PcInitIInv == Init => PcIInv
<1> SUFFICES ASSUME Init PROVE PcIInv
  OBVIOUS
<1> USE DEF Init, WorkInit
<1>1. BufIInv
  BY BufInitIInv
<1>2. TypeOK
  BY <1>1 DEF BufIInv, TypeOK, WorkTypeOK, WorkerPositions, MainPositions, SigPositions
<1>3. WorkAgrees /\ NoEarlyError /\ CallOfStep
  BY DEF BufInit, WorkAgrees, NoEarlyError, CallOfStep
<1>4. Inserted = {} /\ Taken = {} /\ Adding = {}
  BY DEF BufInit, Inserted, Taken, Adding, HasPut, HasGot, Workers
<1>5. Cardinality({}) = 0
  BY FS_EmptySet
<1>6. Balanced
  BY <1>4, <1>5 DEF BufInit, Balanced
<1>7. LastItemSeen /\ DoneBySignal /\ JoinedInTurn /\ ResultsAreComplete
  BY DEF BufInit, LastItemSeen, DoneBySignal, JoinedInTurn, ResultsAreComplete, Workers
<1> QED
  BY <1>1, <1>2, <1>3, <1>6, <1>7 DEF PcIInv

LEMMA PcNextIInv ==
    ASSUME PcIInv, [Next]_vars, "errorlock" \notin Faults, Consumers # {}
    PROVE  PcIInv'
<1> USE WorkersAssumption, MainAssumption
<1>1. [BufNext]_bufvars
  BY PcBufStep DEF vars
<1>2. BufIInv' /\ BufTypeOK'
  BY <1>1, BufNextIInv DEF PcIInv, BufIInv
<1>3. NoEarlyError' /\ CallOfStep'
  BY <1>1, CallsKept DEF PcIInv
<1>4. SetError => globalerror' = "EFAIL"
  BY DEF SetError
<1>5. PcRest'
  <2>1. CASE UNCHANGED vars
    <3>1. UNCHANGED <<bufvars, workvars, mainvars>>
      BY <2>1 DEF vars
    <3>2. TypeOK' /\ JoinedInTurn' /\ ResultsAreComplete'
      BY <1>2, <3>1 DEF PcIInv, TypeOK, WorkTypeOK, JoinedInTurn, Gone, ResultsAreComplete,
                        workvars, mainvars, sigvars
    <3>3. /\ UNCHANGED <<bufvars, wpc, unsummed, program>>
          /\ globalerror' = globalerror /\ sigusr1' = sigusr1 /\ mpc' = mpc
          /\ mpc' = "sleep" => program = "randpcdone"
      BY <3>1 DEF workvars, mainvars, sigvars, PcIInv, WorkAgrees
    <3> QED
      BY <3>2, <3>3, MainMovesPc
  <2>2. ASSUME ~Exited, NEW t \in Threads, Inside(t) \/ SpuriousWakeup(t),
               UNCHANGED <<workvars, mainvars>>
        PROVE  PcRest'
    BY <1>2, <2>2, InsidePc
  <2>3. ASSUME ~Exited, NEW w \in Workers, WorkersStep(w) PROVE PcRest'
    <3>1. UNCHANGED mainvars /\ WorkerStep(w)
      BY <2>3 DEF WorkersStep
    <3>2. w \in Threads /\ wpc \in [Workers -> WorkerPositions]
      BY DEF PcIInv, TypeOK, WorkTypeOK
    <3>3. ASSUME w \in Producers, Generate(w) PROVE PcRest'
      <4>1. CASE (\E i \in Items : CallPutitem(w, i)) /\ MoveTo(w, "put")
        BY <1>2, <2>3, <3>1, <3>3, <4>1, WorkerEnterPc DEF Generate
      <4>2. CASE MoveTo(w, "failed") /\ UNCHANGED bufvars
        <5>1. /\ wpc[w] = "generate" /\ wpc' = [wpc EXCEPT ![w] = "failed"]
              /\ UNCHANGED <<bufvars, unsummed, mainvars, globalerror>>
          BY <3>1, <3>3, <4>2 DEF Generate, At, MoveTo
        <5>2. TypeOK'
          BY <1>2, <3>2, <5>1 DEF PcIInv, TypeOK, WorkTypeOK, WorkerPositions, mainvars, sigvars
        <5> QED
          BY <2>3, <5>1, <5>2, WorkerMovesPc
      <4> QED
        BY <3>3, <4>1, <4>2 DEF Generate
    <3>4. CASE \/ w \in Producers /\ AskDone(w)
               \/ w \in Consumers /\ Retrieve(w)
      BY <1>2, <2>3, <3>1, <3>4, WorkerEnterPc
    <3>5. CASE \/ w \in Producers /\ (PutReturned(w) \/ DoneReturned(w))
               \/ w \in Consumers /\ GetReturned(w)
      BY <1>2, <2>3, <3>1, <3>5, WorkerReturnPc
    <3>6. ASSUME w \in Consumers, AddItem(w) PROVE PcRest'
      <4>1. TypeOK'
        BY <1>2, <3>1, <3>2, <3>6 DEF AddItem, MoveTo, SetError, PcIInv, TypeOK, WorkTypeOK,
                                      WorkerPositions, mainvars, sigvars
      <4> QED
        BY <2>3, <3>1, <3>6, <4>1, AddItemPc
    <3>7. CASE WorkerFailed(w)
      <4>1. /\ wpc[w] = "failed" /\ wpc' = [wpc EXCEPT ![w] = "gone"]
            /\ globalerror' = "EFAIL" /\ UNCHANGED <<bufvars, unsummed, mainvars>>
        BY <1>4, <3>1, <3>7 DEF WorkerFailed, MoveTo
      <4>2. TypeOK'
        BY <1>2, <3>2, <4>1 DEF PcIInv, TypeOK, WorkTypeOK, WorkerPositions, mainvars, sigvars
      <4> QED
        BY <2>3, <4>1, <4>2, WorkerMovesPc
    <3>8. CASE Buffering(w)
      BY <2>2, <2>3, <3>1, <3>2, <3>8 DEF Buffering, Inside
    <3> QED
      BY <3>1, <3>3, <3>4, <3>5, <3>6, <3>7, <3>8 DEF WorkerStep, Producer, Consumer
  <2>4. CASE ~Exited /\ (Sleep \/ SigWait)
    BY <1>2, <2>4, SetdoneEnterPc
  <2>5. CASE ~Exited /\ (SetdoneReturned \/ SigSetdoneReturned)
    BY <1>2, <2>5, SetdoneReturnPc
  <2>6. CASE ~Exited /\ (CreateConsumers \/ CreateProducers)
    <3>1. PICK workers \in {Consumers, Producers}, position \in {"consumers", "producers"},
               next \in {"producers", "sleep", "joinproducers"} :
              /\ Create(position, workers, next)
              /\ next = "sleep" => program = "randpcdone"
      BY <2>6 DEF CreateConsumers, CreateProducers
    <3>2. CASE UNCHANGED <<bufvars, wpc, unsummed, globalerror>> /\ MainGoto(position, next)
      <4>1. /\ UNCHANGED <<bufvars, wpc, unsummed, globalerror, program, spc, sigusr1>>
            /\ mpc = position /\ mpc' = next
        BY <3>2 DEF MainGoto, sigvars
      <4>2. TypeOK'
        BY <1>2, <4>1 DEF PcIInv, TypeOK, WorkTypeOK, MainPositions
      <4>3. JoinedInTurn' /\ ResultsAreComplete'
        BY <2>6, <4>1, Waiting
      <4> QED
        BY <3>1, <4>1, <4>2, <4>3, MainMovesPc
    <3>3. CASE UNCHANGED <<bufvars, wpc, unsummed>> /\ SetError /\ MainGoto(position, "exit1")
      <4>1. /\ UNCHANGED <<bufvars, wpc, unsummed, program, spc, sigusr1>>
            /\ mpc = position /\ mpc' = "exit1" /\ globalerror' = "EFAIL"
        BY <1>4, <3>3 DEF MainGoto, sigvars
      <4>2. TypeOK'
        BY <1>2, <4>1 DEF PcIInv, TypeOK, WorkTypeOK, MainPositions
      <4>3. JoinedInTurn' /\ ResultsAreComplete'
        BY <2>6, <4>1, Waiting
      <4> QED
        BY <4>1, <4>2, <4>3, MainMovesPc
    <3>4. ASSUME NEW w \in workers, wpc[w] = "unborn", Start(w),
                 UNCHANGED <<bufvars, unsummed, mainvars, globalerror>>
          PROVE  PcRest'
      <4>1. PICK to \in {"generate", "get"} : wpc' = [wpc EXCEPT ![w] = to]
        BY <3>4 DEF Start, MoveTo
      <4>2. TypeOK'
        BY <1>2, <3>4, <4>1 DEF PcIInv, TypeOK, WorkTypeOK, WorkerPositions, mainvars, sigvars
      <4>3. w \in Workers
        BY DEF Workers
      <4> QED
        BY <2>6, <3>4, <4>1, <4>2, <4>3, WorkerMovesPc
    <3> QED
      BY <3>1, <3>2, <3>3, <3>4 DEF Create
  <2>7. CASE ~Exited /\ (JoinProducers \/ JoinConsumers)
    <3>1. /\ UNCHANGED <<bufvars, wpc, unsummed, globalerror, program, spc, sigusr1>>
          /\ \/ mpc = "joinproducers" /\ mpc' = "joinconsumers" /\ Gone(Producers)
             \/ mpc = "joinconsumers" /\ mpc' = "results" /\ Gone(Consumers)
      BY <2>7 DEF JoinProducers, JoinConsumers, Join, MainGoto, workvars, sigvars
    <3>2. TypeOK'
      BY <1>2, <3>1 DEF PcIInv, TypeOK, WorkTypeOK, MainPositions
    <3>3. JoinedInTurn' /\ ResultsAreComplete'
      BY <3>1 DEF PcIInv, JoinedInTurn, Gone, ResultsAreComplete
    <3> QED
      BY <3>1, <3>2, <3>3, MainMovesPc
  <2>8. CASE ~Exited /\ ShowResults
    <3>1. /\ UNCHANGED <<bufvars, wpc, unsummed, globalerror, program, spc, sigusr1>>
          /\ mpc = "results" /\ mpc' \in {"exit0", "exit1"}
          /\ mpc' = "exit0" => globalerror = "OK"
      BY <2>8 DEF ShowResults, MainGoto, workvars, sigvars
    <3>2. TypeOK'
      BY <1>2, <3>1 DEF PcIInv, TypeOK, WorkTypeOK, MainPositions
    <3>3. JoinedInTurn' /\ ResultsAreComplete'
      BY <3>1, NothingMissing DEF JoinedInTurn, ResultsAreComplete
    <3> QED
      BY <3>1, <3>2, <3>3, MainMovesPc
  <2>9. CASE ~Exited /\ (\/ JoinFails \/ BlockSignal \/ StartSigThread \/ SigThreadStart
                        \/ SendSignal)
    <3>1. /\ UNCHANGED <<bufvars, wpc, unsummed, program>>
          /\ globalerror' = globalerror \/ globalerror' = "EFAIL"
          /\ sigusr1' = sigusr1 \/ (sigusr1 = "none" /\ sigusr1' = "pending")
          /\ \/ mpc' = mpc
             \/ mpc # "setdone" /\ mpc' \in {"exit1", "sigthread", "consumers", "killed"}
          /\ spc' = spc \/ spc' \in {"start", "sigwait", "failed"}
      BY <1>4, <2>9 DEF JoinFails, BlockSignal, StartSigThread, SigThreadStart, SendSignal, MainGoto,
                        workvars, sigvars
    <3>2. TypeOK'
      BY <1>2, <3>1 DEF PcIInv, TypeOK, WorkTypeOK, MainPositions, SigPositions
    <3>3. JoinedInTurn' /\ ResultsAreComplete'
      BY <2>9, <3>1, Waiting
    <3>4. mpc' = "sleep" => program = "randpcdone"
      BY <3>1 DEF PcIInv, WorkAgrees
    <3> QED
      BY <3>1, <3>2, <3>3, <3>4, MainMovesPc
  <2>10. \A t \in Threads : Buffering(t) \/ LockFails(t) \/ Wakeup(t) =>
                               (Inside(t) \/ SpuriousWakeup(t)) /\ UNCHANGED workvars
    BY DEF Buffering, LockFails, Wakeup, Inside
  <2> QED
    BY <2>1, <2>2, <2>3, <2>4, <2>5, <2>6, <2>7, <2>8, <2>9, <2>10 DEF Next, MainStep, SigStep
<1> QED
  BY <1>2, <1>3, <1>5 DEF PcIInv, PcRest

\* The invariant holds: it is ResultsAreComplete with the count of the items under
\* way and what says, of each thread, which of them it has.
THEOREM PcInvariant ==
    ASSUME "errorlock" \notin Faults, Consumers # {}
    PROVE  Spec => []PcIInv
<1>1. PcIInv /\ [Next]_vars => PcIInv'
  BY PcNextIInv
<1> QED
  BY <1>1, PcInitIInv, PTL DEF Spec

\* When main returns 0, every item put was summed, for any number of threads:
\* provided that there is a consumer, and that seterror can always lock (else
\* an error is lost and with it the reason not to print).
THEOREM PcResultsAreComplete ==
    ASSUME "errorlock" \notin Faults, Consumers # {}
    PROVE  Spec => []ResultsAreComplete
<1>1. PcIInv => ResultsAreComplete
  BY DEF PcIInv
<1> QED
  BY <1>1, PcInvariant, PTL

\* What was proved of the buffer holds in the programs, whatever fails.
THEOREM PcBufferCorrect == Spec => [](MutualExclusion /\ DrainedWhenCanceled) /\ RefinesQueue
BY PcUsesBuffer, BufMutualExclusion, BufDrainedWhenCanceled, BufRefinesQueue, PTL

=============================================================================
