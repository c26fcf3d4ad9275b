---------------------------- MODULE ProcessProofs ---------------------------
(***************************************************************************)
(* Theorems about SharedMemSum (chapter15/sharedmemsum.c, initsemset.c)    *)
(* for every set of processes, started, failing and killed at any moment,  *)
(* about Timers (chapter09) for all times, about ProcessTree (chapters 3,  *)
(* 6, 7 and 15) for any number of processes in a chain, fan or ring, about *)
(* AsyncMonitor (chapter08) for files and inputs of any size, about Shells *)
(* (chapter11) for any number of commands and of times ^C is typed, about  *)
(* IpcPrograms (chapter15) for any writers, any inputs and any capacity of *)
(* the queue, and about SignalWait and SignalPrograms (chapters 6, 8 and 9)*)
(* for any number of signals, at any moment.                               *)
(***************************************************************************)
EXTENDS SharedMemSum, Timers, ProcessTree, AsyncMonitor, Shells, IpcPrograms, SignalPrograms,
        FiniteSetTheorems, SequenceTheorems, TLAPS

-----------------------------------------------------------------------------
(* SharedMemSum.                                                           *)

InsidePositions == {"sum", "putsum", "count", "putcount", "unlock", "read", "runlock"}

\* Positions of the processes that have come through initsemset.
Past == InsidePositions \cup {"idle", "lock", "rlock"}

ShmTypes ==
    /\ segment \in BOOLEAN /\ ready \in BOOLEAN /\ semaphore \in BOOLEAN
    /\ late \in BOOLEAN
    /\ count \in Nat /\ sum \in Nat
    /\ semval \in {0, 1}
    /\ pc \in [Processes -> Positions]
    /\ register \in [Processes -> Nat]
    /\ calls \in [Processes -> Nat]
    /\ added \in [count : Nat, sum : Nat]

\* One process at most creates the semaphore and sets ready, and nobody comes past
\* initsemset before.
OneCreator ==
    /\ \A p \in Processes : pc[p] \in {"setval", "ready"} =>
           /\ semaphore /\ ~ready
           /\ \A q \in Processes : pc[q] \in {"setval", "ready"} => q = p
    /\ \A p \in Processes : pc[p] = "ready" => semval = 1
    /\ \A p \in Processes : pc[p] \in Past => ready
    /\ ready => semaphore

\* The semaphore is a mutex once it is ready: whoever is inside is alone and has
\* taken its only unit.
Excludes ==
    \A p \in Processes : pc[p] \in InsidePositions =>
        /\ semval = 0
        /\ \A q \in Processes : pc[q] \in InsidePositions => q = p

\* What is loaded is still there when it is stored, and nothing has been added
\* before the semaphore was ready: only a late zero can disturb.
Untouched ==
    \/ late
    \/ /\ count = added.count /\ sum = added.sum
       /\ ~ready => count = 0 /\ sum = 0
       /\ \A p \in Processes : /\ pc[p] = "putsum" => register[p] = sum
                               /\ pc[p] = "putcount" => register[p] = count

\* The inductive invariant: that the semaphore excludes needs that SETVAL is not
\* done again after ready (OneCreator); that no addition is lost needs both.
ShmIInv == ShmTypes /\ OneCreator /\ Excludes /\ Untouched

-----------------------------------------------------------------------------

LEMMA ShmInitIInv == ShmInit => ShmIInv
<1> SUFFICES ASSUME ShmInit PROVE ShmIInv
  OBVIOUS
<1> USE DEF ShmInit
<1>1. ShmTypes
  BY DEF ShmTypes, Positions
<1>2. OneCreator /\ Excludes /\ Untouched
  BY DEF OneCreator, Excludes, Untouched, Past, InsidePositions
<1> QED
  BY <1>1, <1>2 DEF ShmIInv

LEMMA InitStep ==
    ASSUME ShmIInv, NEW p \in Processes, InitShared(p)
    PROVE  ShmIInv'
<1> USE DEF ShmIInv, Goto, ghosts, segmentvars
<1>1. CASE GetSegment(p) \/ ZeroCount(p) \/ ZeroSum(p)
  <2> USE <1>1 DEF GetSegment, ZeroCount, ZeroSum
  <2>1. ShmTypes'
    <3>1. late' \in BOOLEAN
      BY DEF ShmTypes
    <3>2. pc' \in [Processes -> Positions] /\ count' \in Nat /\ sum' \in Nat
      BY DEF ShmTypes, Positions
    <3>3. segment' \in BOOLEAN
      BY DEF ShmTypes
    <3>4. UNCHANGED <<ready, semaphore, semval, register, calls, added>>
      OBVIOUS
    <3> QED
      BY <3>1, <3>2, <3>3, <3>4, Zenon DEF ShmTypes
  <2>2. OneCreator'
    BY DEF OneCreator, ShmTypes, Past, InsidePositions
  <2>3. Excludes'
    BY DEF Excludes, ShmTypes, InsidePositions
  <2>4. Untouched'
    BY DEF Untouched, ShmTypes
  <2> QED
    BY <2>1, <2>2, <2>3, <2>4
<1>2. CASE GetSemaphore(p) \/ SetVal(p) \/ SetReady(p) \/ SpinEnds(p)
  <2> USE <1>2 DEF GetSemaphore, SetVal, SetReady, SpinEnds
  <2>1. ShmTypes'
    BY DEF ShmTypes, Positions
  <2>2. OneCreator'
    BY DEF OneCreator, ShmTypes, Past, InsidePositions
  <2>3. Excludes'
    BY DEF Excludes, OneCreator, ShmTypes, InsidePositions, Past
  <2>4. Untouched'
    BY DEF Untouched, ShmTypes, OneCreator
  <2> QED
    BY <2>1, <2>2, <2>3, <2>4
<1> QED
  BY <1>1, <1>2 DEF InitShared

\* A call begins, fails or is interrupted for good: nothing but pc and calls moves,
\* and nobody comes inside.
LEMMA OutsideStep ==
    ASSUME ShmIInv, NEW p \in Processes,
           ShmCall(p) \/ InitFails(p) \/ SemopFails(p) \/ Killed(p)
    PROVE  ShmIInv'
<1> USE DEF ShmIInv, Goto, ghosts, segmentvars, ShmCall, InitFails, SemopFails, Killed
<1>1. ShmTypes'
  BY DEF ShmTypes, Positions
<1>2. OneCreator'
  BY DEF OneCreator, ShmTypes, Past, InsidePositions
<1>3. Excludes'
  BY DEF Excludes, ShmTypes, InsidePositions
<1>4. Untouched'
  BY DEF Untouched, ShmTypes
<1> QED
  BY <1>1, <1>2, <1>3, <1>4

LEMMA LockStep ==
    ASSUME ShmIInv, NEW p \in Processes, Lock(p) \/ Unlock(p) \/ Read(p)
    PROVE  ShmIInv'
<1> USE DEF ShmIInv, Goto, ghosts, segmentvars, Lock, Unlock, Read
<1>1. semval' \in {0, 1}
  BY DEF Excludes, ShmTypes, InsidePositions
<1>2. ShmTypes'
  BY <1>1 DEF ShmTypes, Positions
<1>3. OneCreator'
  BY DEF OneCreator, ShmTypes, Past, InsidePositions
<1>4. Excludes'
  BY DEF Excludes, ShmTypes, InsidePositions
<1>5. Untouched'
  BY DEF Untouched, ShmTypes
<1> QED
  BY <1>2, <1>3, <1>4, <1>5

\* Loads and stores: no other process is inside.
LEMMA AddStep ==
    ASSUME ShmIInv, NEW p \in Processes, Add(p)
    PROVE  ShmIInv'
<1> USE DEF ShmIInv, Goto, ghosts, segmentvars, Add, Load, StoreSum, StoreCount
<1>1. ShmTypes'
  BY DEF ShmTypes, Positions
<1>2. OneCreator'
  BY DEF OneCreator, ShmTypes, Past, InsidePositions
<1>3. Excludes'
  BY DEF Excludes, ShmTypes, InsidePositions
<1>4. Untouched'
  BY DEF Untouched, Excludes, OneCreator, ShmTypes, InsidePositions, Past
<1> QED
  BY <1>1, <1>2, <1>3, <1>4

LEMMA ShmNextIInv == ShmIInv /\ [ShmNext]_shmvars => ShmIInv'
<1> SUFFICES ASSUME ShmIInv, [ShmNext]_shmvars PROVE ShmIInv'
  OBVIOUS
<1>1. CASE UNCHANGED shmvars
  BY <1>1 DEF shmvars, segmentvars, ghosts, ShmIInv, ShmTypes, OneCreator, Excludes, Untouched
<1>2. ASSUME NEW p \in Processes, ShmStep(p) \/ ShmCall(p) \/ InitFails(p) \/ SemopFails(p) \/ Killed(p)
      PROVE  ShmIInv'
  BY <1>2, InitStep, OutsideStep, LockStep, AddStep DEF ShmStep
<1> QED
  BY <1>1, <1>2 DEF ShmNext

THEOREM ShmInvariant == ShmSpec => []ShmIInv
BY ShmInitIInv, ShmNextIInv, PTL DEF ShmSpec

\* Whoever is inside is alone and has the semaphore: counted as the runs count it.
LEMMA InsideCounts == ShmIInv => SumIsGuarded
<1> SUFFICES ASSUME ShmIInv PROVE SumIsGuarded
  OBVIOUS
<1> USE DEF ShmIInv
<1>1. Inside = {} => OneInside
  <2>1. Cardinality({}) = 0 /\ semval <= 1
    BY FS_EmptySet DEF ShmTypes
  <2> QED
    BY <2>1 DEF OneInside, ShmTypes
<1>2. ASSUME NEW p \in Processes, pc[p] \in InsidePositions PROVE OneInside
  <2>1. Inside = {p} /\ semval = 0
    BY <1>2 DEF Inside, InsidePositions, Excludes
  <2>2. Cardinality({p}) = 1
    BY FS_Singleton
  <2> QED
    BY <2>1, <2>2 DEF OneInside
<1>3. Inside = {} \/ \E p \in Processes : pc[p] \in InsidePositions
  BY DEF Inside, InsidePositions
<1>4. ExactUnlessLate
  BY DEF ExactUnlessLate, Untouched
<1> QED
  BY <1>1, <1>2, <1>3, <1>4 DEF SumIsGuarded

\* The System V semaphore excludes, with no order between the creation of the
\* segment and that of the semaphore, whatever fails and whoever is killed;
\* and no addition to the shared sum is lost unless the creator of the segment
\* stored a zero after another process had made the semaphore ready.
THEOREM ShmSumIsGuarded == ShmSpec => []SumIsGuarded
BY ShmInvariant, InsideCounts, PTL


-----------------------------------------------------------------------------
(* Timers.                                                                 *)

Times == [sec : Nat, nsec : 0..(Billion - 1)]

TimerTypes ==
    /\ tkind \in {"relative", "absolute", "periodic"}
    /\ tfaults \in {{}, {"spin", "settime"}}
    /\ numtimes \in 1..MaxTimes
    /\ inctime \in Times /\ tstart \in Times /\ itvalue \in Times
    /\ tpc \in {"setup", "test", "call", "suspend", "end"}
    /\ armed \in BOOLEAN /\ alarm \in BOOLEAN
    /\ hpc \in {"none", "spin", "settime"}
    /\ timesentered \in 0..numtimes
    /\ exitflag \in BOOLEAN /\ raced \in BOOLEAN

TimerRuns == tpc \in {"test", "call", "suspend"}

\* A periodic timer runs on; the others run, have expired or are being set again,
\* one after the other.
TurnsTaken ==
    /\ tpc = "setup" => hpc = "none" /\ ~armed /\ ~alarm /\ ~exitflag /\ timesentered = 0
    /\ tpc = "end" => hpc = "none"
    /\ tkind = "periodic" /\ TimerRuns => armed
    /\ tkind = "periodic" => hpc # "settime"
    /\ tkind # "periodic" => /\ armed => ~alarm
                             /\ hpc # "none" => ~armed /\ ~alarm
    /\ hpc # "none" => timesentered < numtimes
    /\ TimerRuns /\ ~exitflag => (armed \/ alarm \/ hpc # "none") /\ timesentered < numtimes

\* The absolute time in hand is the one of the expiration to come, or of the last.
After(k) == Nanoseconds(itvalue) = Nanoseconds(tstart) + k * Nanoseconds(inctime)
Coming == timesentered + 1
TimesExact ==
    tkind = "absolute" /\ tpc # "setup" =>
        \/ Coming <= numtimes /\ hpc = "none" /\ After(Coming)
        \/ timesentered >= 1 /\ ~armed /\ ~alarm /\ After(timesentered)

\* What exitflag tells main, and what it comes too late for.
ExitTold ==
    /\ exitflag /\ tfaults = {} => timesentered = numtimes
    /\ tpc = "end" /\ tfaults = {} => exitflag
    /\ tpc = "call" /\ exitflag => raced
    /\ tpc = "suspend" /\ exitflag => raced \/ hpc = "settime"

TimerIInv == TimerTypes /\ TurnsTaken /\ TimesExact /\ ExitTold

\* A sum of two times is a proper time, and their sum in nanoseconds.
LEMMA CarriedAdds ==
    ASSUME NEW s \in Times, NEW t \in Times
    PROVE  /\ Carried(Plus(s, t)) \in Times
           /\ Nanoseconds(Carried(Plus(s, t))) = Nanoseconds(s) + Nanoseconds(t)
           /\ Nanoseconds(s) \in Nat
BY BillionAssumption DEF Times, Carried, Plus, Nanoseconds

\* One more increment.
LEMMA NextMultiple ==
    ASSUME NEW a \in Nat, NEW b \in Nat, NEW k \in Nat
    PROVE  (a + k * b) + b = a + (k + 1) * b
OBVIOUS

LEMMA TimerInitIInv == TimerInit => TimerIInv
<1> SUFFICES ASSUME TimerInit PROVE TimerIInv
  OBVIOUS
<1>1. armed \in BOOLEAN /\ alarm \in BOOLEAN /\ exitflag \in BOOLEAN /\ raced \in BOOLEAN
  BY DEF TimerInit
<1>2. ~armed /\ ~alarm /\ ~exitflag
  BY DEF TimerInit
<1>3. numtimes \in 1..MaxTimes /\ 0 \in 0..numtimes
  BY MaxTimesAssumption DEF TimerInit
<1>4. TimerTypes
  BY <1>1, <1>3, TimesAssumption, TimerKindsAssumption DEF TimerInit, TimerTypes, Times
<1> QED
  BY <1>2, <1>4 DEF TimerInit, TimerIInv, TurnsTaken, TimesExact, ExitTold, TimerRuns

LEMMA MainKeeps == TimerIInv /\ TimerMain => TimerIInv'
<1> SUFFICES ASSUME TimerIInv, TimerMain PROVE TimerIInv'
  OBVIOUS
<1> USE DEF TimerIInv, tchoice
<1>1. CASE StartTimer
  <2>1. /\ UNCHANGED <<tkind, tfaults, numtimes, inctime, tstart, alarm, hpc, timesentered, exitflag, raced>>
        /\ tpc = "setup" /\ tpc' \in {"test", "end"} /\ armed' = (tpc' = "test")
        /\ "settime" \notin tfaults => tpc' = "test"
        /\ itvalue' = IF tkind = "absolute" THEN Carried(Plus(inctime, tstart)) ELSE inctime
    BY <1>1 DEF StartTimer
  <2>2. itvalue' \in Times
    BY <2>1, CarriedAdds DEF TimerTypes
  <2>a. armed' \in BOOLEAN /\ (armed' <=> tpc' = "test")
    BY <2>1
  <2>b. 0 < numtimes
    BY MaxTimesAssumption DEF TimerTypes
  <2>3. TimerTypes' /\ TurnsTaken' /\ ExitTold'
    <3>1. TimerTypes'
      BY <2>1, <2>2, <2>a DEF TimerTypes
    <3>2. TurnsTaken' /\ ExitTold'
      BY <2>1, <2>a, <2>b DEF TimerTypes, TurnsTaken, ExitTold, TimerRuns
    <3> QED
      BY <3>1, <3>2
  <2>4. ASSUME tkind = "absolute" PROVE After(1)'
    <3>1. /\ Nanoseconds(itvalue') = Nanoseconds(inctime) + Nanoseconds(tstart)
          /\ Nanoseconds(inctime) \in Nat /\ Nanoseconds(tstart) \in Nat
      BY <2>1, <2>4, CarriedAdds DEF TimerTypes
    <3>2. Nanoseconds(inctime)' = Nanoseconds(inctime) /\ Nanoseconds(tstart)' = Nanoseconds(tstart)
      BY <2>1 DEF Nanoseconds
    <3>3. Nanoseconds(itvalue)' = Nanoseconds(tstart)' + 1 * Nanoseconds(inctime)'
      <4>1. Nanoseconds(itvalue)' = Nanoseconds(itvalue')
        BY DEF Nanoseconds
      <4> QED
        BY <3>1, <3>2, <4>1
    <3> QED
      BY <3>3 DEF After
  <2>5. TimesExact'
    BY <2>1, <2>4, MaxTimesAssumption DEF TimesExact, TimerTypes, TurnsTaken, Coming
  <2> QED
    BY <2>3, <2>5
<1>2. CASE TestExit \/ CallSigsuspend
  <2>1. /\ UNCHANGED <<tkind, tfaults, numtimes, inctime, tstart, armed, alarm, hpc, timesentered,
                       exitflag, itvalue, raced>>
        /\ hpc = "none"
        /\ \/ tpc = "test" /\ exitflag /\ tpc' = "end"
           \/ tpc = "test" /\ ~exitflag /\ tpc' = "call"
           \/ tpc = "call" /\ tpc' = "suspend"
    BY <1>2 DEF TestExit, CallSigsuspend
  <2>2. TimerTypes' /\ TurnsTaken' /\ ExitTold'
    BY <2>1 DEF TimerTypes, TurnsTaken, ExitTold, TimerRuns
  <2>3. TimesExact'
    BY <2>1 DEF TimesExact, Coming, After, Nanoseconds
  <2> QED
    BY <2>2, <2>3
<1> QED
  BY <1>1, <1>2 DEF TimerMain

\* What the three steps of timer and handler that set no time have in common.
LEMMA AfterKept ==
    ASSUME UNCHANGED <<tstart, inctime, itvalue>>
    PROVE  \A k : After(k)' = After(k)
BY DEF After, Nanoseconds

LEMMA ExpireKeeps == TimerIInv /\ Expire => TimerIInv'
<1> SUFFICES ASSUME TimerIInv, Expire PROVE TimerIInv'
  OBVIOUS
<1> USE DEF TimerIInv, Expire, tchoice
<1>1. TimerTypes' /\ TurnsTaken' /\ ExitTold'
  BY DEF TimerTypes, TurnsTaken, ExitTold, TimerRuns
<1>2. TimesExact'
  BY DEF TimesExact, Coming, After, Nanoseconds
<1> QED
  BY <1>1, <1>2

LEMMA EnterKeeps == TimerIInv /\ EnterHandler => TimerIInv'
<1> SUFFICES ASSUME TimerIInv, EnterHandler PROVE TimerIInv'
  OBVIOUS
<1> USE DEF TimerIInv, EnterHandler, tchoice
<1>0. alarm' \in BOOLEAN
  OBVIOUS
<1>1. /\ UNCHANGED <<tkind, tfaults, numtimes, inctime, tstart, armed, itvalue>>
      /\ alarm /\ ~alarm' /\ hpc = "none" /\ TimerRuns
      /\ timesentered' = IF timesentered < numtimes THEN timesentered + 1 ELSE timesentered
      /\ numtimes \in Nat /\ timesentered \in 0..numtimes
  BY MaxTimesAssumption DEF TimerTypes, TimerRuns
<1>2. CASE timesentered' >= numtimes
  <2>0. exitflag' \in BOOLEAN /\ exitflag' /\ raced' \in BOOLEAN /\ (raced' <=> raced \/ tpc = "call")
    BY <1>2 DEF SetExit
  <2>1. /\ exitflag' \in BOOLEAN /\ exitflag' /\ raced' \in BOOLEAN
        /\ raced' <=> raced \/ tpc = "call"
        /\ hpc' = "none"
        /\ tpc' = IF tpc = "suspend" THEN "test" ELSE tpc
        /\ timesentered' = numtimes
    BY <1>1, <1>2, <2>0 DEF Return
  <2>2. TimerTypes' /\ TurnsTaken' /\ ExitTold'
    <3>1. TimerTypes'
      BY <1>0, <1>1, <2>1 DEF TimerTypes, TimerRuns
    <3>2. TurnsTaken'
      BY <1>1, <2>1 DEF TurnsTaken, TimerRuns
    <3>3. ExitTold'
      BY <1>1, <2>1 DEF ExitTold, TimerRuns
    <3> QED
      BY <3>1, <3>2, <3>3
  <2>3. TimesExact'
    BY <1>1, <2>1 DEF TimesExact, TurnsTaken, TimerRuns, Coming, After, Nanoseconds, TimerTypes
  <2> QED
    BY <2>2, <2>3
<1>3. CASE ~(timesentered' >= numtimes)
  <2>0. /\ exitflag' \in BOOLEAN /\ raced' \in BOOLEAN
        /\ exitflag' <=> exitflag
        /\ raced' <=> raced
    BY <1>3 DEF SetExit
  <2>1. /\ hpc' = "spin" /\ tpc' = tpc
        /\ timesentered' = timesentered + 1 /\ timesentered' < numtimes
        /\ exitflag' \in BOOLEAN /\ raced' \in BOOLEAN
        /\ exitflag' <=> exitflag
        /\ raced' <=> raced
    BY <1>1, <1>3, <2>0
  <2>2. TimerTypes' /\ TurnsTaken' /\ ExitTold'
    <3>1. TimerTypes'
      BY <1>0, <1>1, <2>1 DEF TimerTypes, TimerRuns
    <3>2. TurnsTaken'
      BY <1>1, <2>1 DEF TurnsTaken, TimerRuns
    <3>3. ExitTold'
      BY <1>1, <2>1 DEF ExitTold, TimerRuns
    <3> QED
      BY <3>1, <3>2, <3>3
  <2>3. TimesExact'
    BY <1>1, <2>1 DEF TimesExact, TurnsTaken, TimerRuns, Coming, After, Nanoseconds, TimerTypes
  <2> QED
    BY <2>2, <2>3
<1> QED
  BY <1>2, <1>3

LEMMA SpinKeeps == TimerIInv /\ Spin => TimerIInv'
<1> SUFFICES ASSUME TimerIInv, Spin PROVE TimerIInv'
  OBVIOUS
<1> USE DEF TimerIInv, Spin, tchoice
<1>1. /\ UNCHANGED <<tkind, tfaults, numtimes, inctime, tstart, armed, alarm, itvalue, timesentered>>
      /\ hpc = "spin"
  OBVIOUS
<1>2. PICK failed \in {FALSE, "spin" \in tfaults} : SetExit(failed)
  OBVIOUS
<1>3. /\ exitflag' \in BOOLEAN /\ raced' \in BOOLEAN
      /\ exitflag' <=> exitflag \/ failed
      /\ raced' <=> raced \/ (failed /\ tpc = "call")
      /\ failed => tfaults # {}
  BY <1>2 DEF SetExit
<1>4. \/ tkind = "periodic" /\ hpc' = "none" /\ tpc' = IF tpc = "suspend" THEN "test" ELSE tpc
      \/ tkind # "periodic" /\ hpc' = "settime" /\ tpc' = tpc
  BY DEF Return
<1>5. TimerTypes' /\ TurnsTaken' /\ ExitTold'
  BY <1>1, <1>3, <1>4 DEF TimerTypes, TurnsTaken, ExitTold, TimerRuns
<1>6. TimesExact'
  BY <1>1, <1>4 DEF TimesExact, TurnsTaken, TimerRuns, Coming, After, Nanoseconds, TimerTypes
<1> QED
  BY <1>5, <1>6

LEMMA SettimeKeeps == TimerIInv /\ Settime => TimerIInv'
<1> SUFFICES ASSUME TimerIInv, Settime PROVE TimerIInv'
  OBVIOUS
<1> USE DEF TimerIInv, Settime, tchoice
<1>1. /\ UNCHANGED <<tkind, tfaults, numtimes, inctime, tstart, alarm, timesentered>>
      /\ hpc = "settime" /\ hpc' = "none"
      /\ tpc' = IF tpc = "suspend" THEN "test" ELSE tpc
      /\ itvalue' = IF tkind = "absolute" THEN AddToTime(itvalue, inctime) ELSE itvalue
  BY DEF Return
<1>2. PICK failed \in {FALSE, "settime" \in tfaults} : armed' = ~failed /\ SetExit(failed)
  OBVIOUS
<1>3. /\ exitflag' \in BOOLEAN /\ raced' \in BOOLEAN /\ armed' \in BOOLEAN
      /\ exitflag' <=> exitflag \/ failed
      /\ raced' <=> raced \/ (failed /\ tpc = "call")
      /\ failed => tfaults # {}
      /\ armed' <=> ~failed
  BY <1>2 DEF SetExit
<1>4. /\ itvalue' \in Times /\ tpc \in {"test", "call", "suspend"} /\ tkind # "periodic"
      /\ ~armed /\ ~alarm /\ timesentered < numtimes
  BY <1>1, CarriedAdds DEF AddToTime, TimerTypes, TurnsTaken
<1>5. TimerTypes'
  BY <1>1, <1>3, <1>4 DEF TimerTypes
<1>6. TurnsTaken' /\ ExitTold'
  BY <1>1, <1>3, <1>4 DEF TimerTypes, TurnsTaken, ExitTold, TimerRuns
<1>7. ASSUME tkind = "absolute" PROVE Coming <= numtimes /\ After(Coming)'
  <2> DEFINE inc == Nanoseconds(inctime)
             st == Nanoseconds(tstart)
  <2>1. Nanoseconds(itvalue) = st + timesentered * inc
    BY <1>1, <1>4, <1>7 DEF TimesExact, After
  <2>2. /\ Nanoseconds(itvalue)' = Nanoseconds(itvalue) + inc
        /\ inc \in Nat /\ st \in Nat /\ inc' = inc /\ st' = st
    <3>1. Nanoseconds(itvalue') = Nanoseconds(itvalue) + inc /\ inc \in Nat /\ st \in Nat
      BY <1>1, <1>7, CarriedAdds DEF AddToTime, TimerTypes
    <3> QED
      BY <1>1, <3>1 DEF Nanoseconds
  <2> HIDE DEF inc, st
  <2>3. timesentered \in Nat /\ numtimes \in Nat
    BY MaxTimesAssumption DEF TimerTypes
  <2>4. Nanoseconds(itvalue)' = st + (timesentered + 1) * inc
    BY <2>1, <2>2, <2>3, NextMultiple
  <2>5. Nanoseconds(itvalue)' = st' + Coming' * inc'
    BY <1>1, <2>2, <2>4 DEF Coming
  <2> QED
    BY <1>4, <2>3, <2>5 DEF After, Coming, inc, st
<1>8. TimesExact'
  BY <1>1, <1>7 DEF TimesExact, Coming
<1> QED
  BY <1>5, <1>6, <1>8

LEMMA TimerNextIInv == TimerIInv /\ [TimerNext]_tvars => TimerIInv'
<1> SUFFICES ASSUME TimerIInv, [TimerNext]_tvars PROVE TimerIInv'
  OBVIOUS
<1>1. CASE UNCHANGED tvars
  BY <1>1 DEF tvars, tchoice, TimerIInv, TimerTypes, TurnsTaken, TimesExact, ExitTold, TimerRuns,
              Coming, After, Nanoseconds
<1> QED
  BY <1>1, MainKeeps, ExpireKeeps, EnterKeeps, SpinKeeps, SettimeKeeps DEF TimerNext, TimerHandler

\* The timer and its handler take turns, and an absolute timer is set to exact
\* multiples of its increment.
THEOREM TimerInvariant == TimerSpec => []TimerIInv
BY TimerInitIInv, TimerNextIInv, PTL DEF TimerSpec

\* The timer programs of chapter09 neither stop before their last expiration nor
\* miss one, and absolute times do not drift, for every increment, every start and
\* every number of expirations.
THEOREM TimerGoesOnAlways == TimerSpec => []TimerGoesOn
<1>1. TimerIInv => TimerGoesOn
  <2> SUFFICES ASSUME TimerIInv PROVE TimerGoesOn
    OBVIOUS
  <2> USE DEF TimerIInv
  <2>1. /\ tpc \in {"test", "call", "suspend"} /\ ~exitflag => armed \/ alarm \/ hpc # "none"
        /\ tpc = "end" /\ tfaults = {} => timesentered >= numtimes
        /\ tpc = "suspend" /\ exitflag /\ hpc = "none" => raced
    BY DEF TurnsTaken, ExitTold, TimerRuns, TimerTypes
  <2>2. ASSUME tkind = "absolute", tpc \notin {"setup", "end"}
        PROVE  /\ itvalue.nsec < Billion
               /\ \E k \in 1..MaxTimes :
                     /\ Nanoseconds(itvalue) = Nanoseconds(tstart) + k * Nanoseconds(inctime)
                     /\ armed => k = timesentered + 1
    <3>1. itvalue.nsec < Billion
      BY BillionAssumption DEF TimerTypes, Times
    <3>2. CASE Coming <= numtimes /\ After(Coming)
      <4>1. Coming \in 1..MaxTimes
        BY <3>2, MaxTimesAssumption DEF Coming, TimerTypes
      <4> QED
        BY <3>1, <3>2, <4>1 DEF After, Coming
    <3>3. CASE timesentered >= 1 /\ ~armed /\ After(timesentered)
      <4>1. timesentered \in 1..MaxTimes
        BY <3>3, MaxTimesAssumption DEF TimerTypes
      <4> QED
        BY <3>1, <3>3, <4>1 DEF After
    <3> QED
      BY <2>2, <3>2, <3>3 DEF TimesExact
  <2> QED
    BY <2>1, <2>2 DEF TimerGoesOn
<1> QED
  BY <1>1, TimerInvariant, PTL

-----------------------------------------------------------------------------
(* Chains and fans of processes.                                           *)

TreePlaces == {"none", "fork", "go", "lock", "critical", "unlock", "wait", "message", "remove", "done"}
InSection == {"critical", "unlock"}

TreeTypes ==
    /\ treekind \in TreeKinds
    /\ ppc \in [Procs -> TreePlaces] /\ forked \in [Procs -> Nat] /\ nochild \in BOOLEAN
    /\ sem \in {0, 1, Removed} /\ waitedfor \in [Procs -> SUBSET Procs]
    /\ chars \in Nat /\ written \in Nat /\ messages \in SUBSET Procs

\* Which places belong to which program.
MayBe(i, q) ==
    /\ q \in {"lock", "critical", "unlock", "remove"} => treekind = "chainsem"
    /\ q = "go" => treekind = "fansync"
    /\ q = "wait" => treekind # "fansync"
    /\ q = "message" => treekind # "chainsem"
    /\ q = "remove" => i = 1
    /\ ~IsChain /\ q = "fork" => i = 1
TreePlaced == \A i \in Procs : MayBe(i, ppc[i])

\* The processes are forked one after the other.
Offspring ==
    /\ ppc[1] # "none"
    /\ IsChain => \A i \in Procs :
           /\ forked[i] \in {0, 1} /\ (forked[i] = 1 => i + 1 \in Procs)
           /\ ppc[i] \in {"none", "fork"} => forked[i] = 0
           /\ forked[i] = 0 => \A j \in Procs : j > i => ppc[j] = "none"
    /\ ~IsChain => \A c \in Procs : ppc[c] # "none" <=> c <= forked[1] + 1

\* Only a child that has ended is waited for, and a message comes after all of them.
WaitsDone ==
    /\ \A i \in messages : ppc[i] \notin {"none", "fork"}
    /\ \A i \in Procs : \A c \in waitedfor[i] : ppc[c] = "done"
    /\ treekind \in {"chainwait", "fanwait"} =>
          \A i \in Procs : i \in messages \/ ppc[i] \in {"message", "done"} => Children(i) \subseteq waitedfor[i]

SemExcludes ==
    /\ \A i, j \in Procs : ppc[i] \in InSection /\ ppc[j] \in InSection => i = j
    /\ sem = 1 => \A i \in Procs : ppc[i] \notin InSection

\* In a chain with a semaphore the ends are reached from the last process back to the
\* first, which removes it.
SemLast ==
    /\ treekind # "chainsem" => sem # Removed
    /\ treekind = "chainsem" => (ppc[1] = "done" <=> sem = Removed)
    /\ treekind = "chainsem" /\ "semop" \notin treefaults =>
         /\ \A i \in Procs : ppc[i] \in {"unlock", "wait", "remove", "done"} => i \in messages
         /\ \A i \in Procs : ppc[i] \in {"remove", "done"} =>
               \A j \in Procs : j > i => ppc[j] \in {"none", "done"}

\* Characters are written by the parent whose last fork has succeeded, and read by
\* everybody who can read.
AllForked == ppc[1] # "fork" /\ forked[1] + 1 = NumProcs
Synchronized ==
    treekind = "fansync" =>
        /\ chars <= written
        /\ ppc[1] # "fork" /\ ~nochild => AllForked
        /\ written > 0 => AllForked
        /\ "r_read" \in treefaults \/ AllForked \/ (messages = {} /\ \A i \in Procs : ppc[i] # "message")

TreeIInv == TreeTypes /\ TreePlaced /\ Offspring /\ WaitsDone /\ SemExcludes /\ SemLast /\ Synchronized

LEMMA KindsAgree ==
    ASSUME TreeTypes
    PROVE  /\ treekind \in {"chainwait", "chainsem", "fanwait", "fansync"}
           /\ IsChain <=> treekind \in {"chainwait", "chainsem"}
           /\ treekind = "chainsem" => AfterFork = "lock"
           /\ treekind = "fansync" => AfterFork = "go"
           /\ treekind \in {"chainwait", "fanwait"} => AfterFork = "wait"
           /\ NumProcs \in Nat /\ 1 \in Procs /\ Procs = 1..NumProcs /\ \A i \in Procs : i \in Nat /\ i >= 1
<1>1. treekind \in {"chainwait", "chainsem", "fanwait", "fansync"}
  BY TreeKindsAssumption DEF TreeTypes
<1>2. NumProcs \in Nat /\ 1 \in Procs /\ Procs = 1..NumProcs /\ \A i \in Procs : i \in Nat /\ i >= 1
  BY NumProcsAssumption DEF Procs
<1> QED
  BY <1>1, <1>2 DEF IsChain, AfterFork

LEMMA TreeInitIInv == TreeInit => TreeIInv
<1> SUFFICES ASSUME TreeInit PROVE TreeIInv
  OBVIOUS
<1> USE DEF TreeInit
<1>1. TreeTypes
  BY DEF TreeTypes, TreePlaces
<1>2. 1 \in Procs /\ \A i \in Procs : i \in Nat /\ i >= 1
  BY <1>1, KindsAgree
<1>3. TreePlaced
  BY DEF TreePlaced, MayBe
<1>4. Offspring
  BY <1>2 DEF Offspring
<1>5. WaitsDone
  BY DEF WaitsDone
<1>6. SemExcludes
  BY DEF SemExcludes, InSection
<1>7. SemLast
  BY <1>2 DEF SemLast, Removed
<1>8. Synchronized
  BY <1>2 DEF Synchronized
<1> QED
  BY <1>1, <1>3, <1>4, <1>5, <1>6, <1>7, <1>8 DEF TreeIInv

-----------------------------------------------------------------------------
(* What the steps of one process have in common.                          *)

\* Process i goes on to q.
TreeGo(i, q) ==
    /\ ppc' \in [Procs -> TreePlaces] /\ ppc'[i] = q /\ \A j \in Procs \ {i} : ppc'[j] = ppc[j]
    /\ ppc[i] \notin {"none", "done"} /\ q \notin {"none", "fork"}
    /\ UNCHANGED <<treekind, treefaults, forked>>

LEMMA GoIs ==
    ASSUME TreeTypes, NEW i \in Procs, NEW p, NEW q \in TreePlaces, Moves(i, p, q),
           p \notin {"none", "done"}, q \notin {"none", "fork"}, UNCHANGED <<treechoice, forked>>
    PROVE  TreeGo(i, q) /\ ppc[i] = p
BY DEF TreeTypes, TreeGo, Moves, treechoice

LEMMA PlacesKept ==
    ASSUME TreeIInv, NEW i \in Procs, NEW q, TreeGo(i, q), MayBe(i, q)
    PROVE  TreePlaced' /\ Offspring' /\ IsChain' = IsChain /\ \A j \in Procs : Children(j)' = Children(j)
<1> USE DEF TreeIInv, TreeGo
<1>1. IsChain' = IsChain /\ \A j \in Procs : Children(j)' = Children(j)
  BY DEF IsChain, Children
<1>2. TreePlaced'
  BY <1>1 DEF TreePlaced, MayBe
<1>3. \A j \in Procs : /\ ppc'[j] = "none" <=> ppc[j] = "none"
                       /\ ppc'[j] \in {"none", "fork"} => ppc[j] \in {"none", "fork"}
  OBVIOUS
<1>4. 1 \in Procs
  BY KindsAgree
<1>5. Offspring'
  BY <1>1, <1>3, <1>4 DEF Offspring
<1> QED
  BY <1>1, <1>2, <1>5

LEMMA WaitsKept ==
    ASSUME TreeIInv, NEW i \in Procs, NEW q, TreeGo(i, q), MayBe(i, q), messages \subseteq messages', messages' \subseteq messages \cup {i},
           \A j \in Procs : /\ waitedfor[j] \subseteq waitedfor'[j] /\ waitedfor'[j] \subseteq Procs
                            /\ \A c \in waitedfor'[j] : ppc[c] = "done",
           treekind \in {"chainwait", "fanwait"} /\ (i \in messages' \/ q \in {"message", "done"}) => Children(i) \subseteq waitedfor'[i]
    PROVE  WaitsDone'
<1> USE DEF TreeIInv, TreeGo
<1>1. \A j \in Procs : Children(j)' = Children(j)
  BY PlacesKept
<1>2. /\ \A j \in Procs : \A c \in waitedfor'[j] : ppc'[c] = "done"
      /\ \A j \in messages' : ppc'[j] \notin {"none", "fork"}
  BY DEF WaitsDone, TreeTypes
<1>3. ASSUME treekind \in {"chainwait", "fanwait"}, NEW j \in Procs, j \in messages' \/ ppc'[j] \in {"message", "done"}
      PROVE  Children(j)' \subseteq waitedfor'[j]
  <2>1. CASE j = i
    BY <1>1, <1>3, <2>1
  <2>2. CASE j # i
    <3>1. Children(j) \subseteq waitedfor[j]
      BY <1>3, <2>2 DEF WaitsDone
    <3> QED
      BY <1>1, <3>1
  <2> QED
    BY <2>1, <2>2
<1> QED
  BY <1>2, <1>3 DEF WaitsDone

LEMMA ExcludesKept ==
    ASSUME TreeIInv, NEW i \in Procs, NEW q, TreeGo(i, q), q \notin InSection, sem' = 1 => sem = 1
    PROVE  SemExcludes'
BY DEF TreeIInv, TreeGo, SemExcludes

LEMMA LastKept ==
    ASSUME TreeIInv, NEW i \in Procs, NEW q, TreeGo(i, q), messages \subseteq messages', messages' \subseteq messages \cup {i},
           treekind # "chainsem" => sem' # Removed,
           treekind = "chainsem" => (ppc'[1] = "done" <=> sem' = Removed),
           treekind = "chainsem" /\ "semop" \notin treefaults =>
               /\ q \in {"unlock", "wait", "remove", "done"} => i \in messages'
               /\ q \in {"remove", "done"} => \A j \in Procs : j > i => ppc[j] \in {"none", "done"}
    PROVE  SemLast'
<1> USE DEF TreeIInv, TreeGo
<1>1. ASSUME treekind = "chainsem", "semop" \notin treefaults
      PROVE  /\ \A j \in Procs : ppc'[j] \in {"unlock", "wait", "remove", "done"} => j \in messages'
             /\ \A j \in Procs : ppc'[j] \in {"remove", "done"} =>
                   \A k \in Procs : k > j => ppc'[k] \in {"none", "done"}
  <2>1. \A j \in Procs : ppc'[j] \in {"unlock", "wait", "remove", "done"} => j \in messages'
    BY <1>1 DEF SemLast
  <2>3. ASSUME NEW j \in Procs, ppc'[j] \in {"remove", "done"}, NEW k \in Procs, k > j
        PROVE  ppc'[k] \in {"none", "done"}
    <3>1. ppc[k] \in {"none", "done"}
      <4>1. CASE j = i
        BY <1>1, <2>3, <4>1
      <4>2. CASE j # i
        BY <1>1, <2>3, <4>2 DEF SemLast
      <4> QED
        BY <4>1, <4>2
    <3> QED
      BY <3>1
  <2> QED
    BY <2>1, <2>3
<1> QED
  BY <1>1 DEF SemLast

\* What the steps outside synchronizefan have in common.
LEMMA NotSync ==
    ASSUME TreeIInv, treekind # "fansync", UNCHANGED treekind
    PROVE  Synchronized'
BY DEF Synchronized

-----------------------------------------------------------------------------
(* The steps of chains and fans.                                           *)

LEMMA ForkEndsKeeps ==
    ASSUME TreeIInv, NEW i \in Procs, ForkEnds(i)
    PROVE  TreeIInv'
<1> USE DEF TreeIInv, ForkEnds
<1> DEFINE last == IF IsChain THEN i = NumProcs ELSE forked[1] + 1 = NumProcs
<1>1. AfterFork \in {"lock", "go", "wait"} /\ MayBe(i, AfterFork) /\ i \in Nat /\ i >= 1
  BY KindsAgree DEF MayBe
<1>2. AfterFork \in TreePlaces
  BY <1>1 DEF TreePlaces
<1>3. TreeGo(i, AfterFork) /\ ppc[i] = "fork" /\ UNCHANGED <<sem, waitedfor, chars, written, messages>>
  BY <1>1, <1>2, GoIs
<1>4. nochild' \in BOOLEAN /\ (nochild' <=> nochild \/ ~last)
  BY DEF TreeTypes
<1> HIDE DEF last
<1>5. TreeTypes'
  BY <1>3, <1>4 DEF TreeTypes, TreeGo
<1>6. TreePlaced' /\ Offspring'
  BY <1>1, <1>3, PlacesKept
<1>7. WaitsDone'
  BY <1>1, <1>3, WaitsKept DEF WaitsDone, TreeTypes
<1>8. SemExcludes'
  BY <1>1, <1>3, ExcludesKept DEF InSection
<1>9. SemLast'
  <2>1. treekind = "chainsem" => AfterFork = "lock"
    BY KindsAgree
  <2>2. ppc'[1] = "done" <=> ppc[1] = "done"
    BY <1>1, <1>3, KindsAgree DEF TreeGo
  <2> QED
    BY <1>3, <2>1, <2>2, LastKept DEF SemLast
<1>10. Synchronized'
  <2>1. CASE treekind = "fansync"
    <3>1. i = 1 /\ ~IsChain /\ AfterFork = "go" /\ ppc'[1] = "go"
      BY <1>3, <2>1, KindsAgree DEF TreePlaced, MayBe, TreeGo
    <3>2. ~AllForked
      BY <1>3, <3>1 DEF AllForked
    <3>3. ~(written > 0) /\ ("r_read" \in treefaults \/ (messages = {} /\ \A j \in Procs : ppc[j] # "message"))
      BY <2>1, <3>2 DEF Synchronized
    <3>4. "r_read" \in treefaults \/ \A j \in Procs : ppc'[j] # "message"
      BY <1>3, <3>1, <3>3 DEF TreeGo
    <3>5. ~nochild' => forked'[1] + 1 = NumProcs
      BY <1>3, <1>4, <3>1 DEF TreeGo, last
    <3>6. /\ chars' <= written' /\ ~(written' > 0) /\ treekind' = "fansync" /\ treefaults' = treefaults
          /\ "r_read" \in treefaults \/ messages' = {}
      BY <1>3, <2>1, <3>3 DEF TreeGo, Synchronized
    <3> QED
      BY <3>1, <3>4, <3>5, <3>6 DEF Synchronized, AllForked
  <2>2. CASE treekind # "fansync"
    BY <1>3, <2>2, NotSync DEF TreeGo
  <2> QED
    BY <2>1, <2>2
<1> QED
  BY <1>5, <1>6, <1>7, <1>8, <1>9, <1>10

LEMMA ForkKeeps ==
    ASSUME TreeIInv, NEW i \in Procs, Fork(i)
    PROVE  TreeIInv'
<1> USE DEF TreeIInv
<1> DEFINE c == IF IsChain THEN i + 1 ELSE forked[1] + 2
           mine == IF IsChain THEN AfterFork ELSE "fork"
           its == IF IsChain THEN "fork" ELSE AfterFork
<1>1. /\ ppc[i] = "fork" /\ c \in Procs /\ forked' = [forked EXCEPT ![i] = @ + 1] /\ nochild' = FALSE
      /\ ppc' = [ppc EXCEPT ![i] = mine, ![c] = its]
      /\ UNCHANGED <<treekind, treefaults, sem, waitedfor, chars, written, messages>>
  BY DEF Fork, treechoice
<1>2. /\ treekind \in {"chainwait", "chainsem", "fanwait", "fansync"}
      /\ IsChain <=> treekind \in {"chainwait", "chainsem"}
      /\ AfterFork \in {"lock", "go", "wait"} /\ NumProcs \in Nat /\ 1 \in Procs
      /\ \A j \in Procs : j \in Nat /\ j >= 1 /\ MayBe(j, AfterFork)
  BY KindsAgree DEF MayBe
<1>3. /\ ~IsChain => i = 1 /\ c = forked[1] + 2
      /\ IsChain => c = i + 1 /\ forked[i] = 0
      /\ c # i /\ c > 1 /\ ppc[c] = "none" /\ forked[i] \in Nat /\ forked[1] \in Nat
  <2>1. forked[i] \in Nat /\ forked[1] \in Nat
    BY <1>2 DEF TreeTypes
  <2>2. CASE IsChain
    BY <1>1, <1>2, <2>1, <2>2 DEF Offspring
  <2>3. CASE ~IsChain
    BY <1>1, <1>2, <2>1, <2>3 DEF Offspring, TreePlaced, MayBe
  <2> QED
    BY <2>1, <2>2, <2>3
<1>4. mine \in {"fork", "lock", "go", "wait"} /\ its \in {"fork", "lock", "go", "wait"}
      /\ (IsChain => mine \in {"lock", "wait"}) /\ (~IsChain => mine = "fork")
      /\ IsChain' = IsChain
  BY <1>1, <1>2, KindsAgree DEF IsChain
<1>5. MayBe(i, mine) /\ MayBe(c, its)
  BY <1>1, <1>2, <1>3 DEF MayBe
<1>6. (treekind = "chainsem" => mine = "lock" /\ its = "fork") /\ (treekind = "fansync" => mine = "fork" /\ its = "go")
  BY KindsAgree
<1> HIDE DEF c, mine, its
<1>7. /\ ppc' \in [Procs -> TreePlaces] /\ forked' \in [Procs -> Nat]
      /\ \A j \in Procs : /\ ppc'[j] = (IF j = i THEN mine ELSE IF j = c THEN its ELSE ppc[j])
                          /\ forked'[j] = (IF j = i THEN forked[i] + 1 ELSE forked[j])
  <2>1. mine \in TreePlaces /\ its \in TreePlaces
    BY <1>4 DEF TreePlaces
  <2>2. ppc \in [Procs -> TreePlaces] /\ forked \in [Procs -> Nat]
    BY DEF TreeTypes
  <2> QED
    BY <1>1, <1>3, <2>1, <2>2
<1>8. TreeTypes'
  BY <1>1, <1>7 DEF TreeTypes
<1>9. TreePlaced'
  <2>1. \A j \in Procs : MayBe(j, ppc'[j])
    BY <1>5, <1>7 DEF TreePlaced
  <2> QED
    BY <1>1, <1>4, <2>1 DEF TreePlaced, MayBe
<1>10. Offspring'
  <2>1. ppc'[1] # "none"
    BY <1>2, <1>4, <1>7 DEF Offspring
  <2>2. ASSUME IsChain, NEW j \in Procs
        PROVE  /\ forked'[j] \in {0, 1} /\ (forked'[j] = 1 => j + 1 \in Procs)
               /\ ppc'[j] \in {"none", "fork"} => forked'[j] = 0
               /\ forked'[j] = 0 => \A k \in Procs : k > j => ppc'[k] = "none"
    <3>1. CASE j = i
      BY <1>1, <1>3, <1>4, <1>7, <2>2, <3>1
    <3>2. CASE j = c
      <4>1. forked[c] = 0 /\ forked'[c] = 0
        BY <1>1, <1>3, <1>7, <2>2 DEF Offspring
      <4>2. \A k \in Procs : k > c => ppc[k] = "none" /\ k # i /\ k # c
        BY <1>1, <1>2, <1>3, <2>2, <4>1 DEF Offspring
      <4> QED
        BY <1>7, <3>2, <4>1, <4>2
    <3>3. CASE j # i /\ j # c
      <4>1. ppc'[j] = ppc[j] /\ forked'[j] = forked[j]
        BY <1>7, <3>3
      <4>2. ASSUME forked[j] = 0, NEW k \in Procs, k > j PROVE ppc'[k] = "none"
        <5>1. ppc[k] = "none" /\ k # i
          BY <1>1, <2>2, <4>2 DEF Offspring
        <5>2. k # c
          <6>1. j > i
            BY <1>1, <1>2, <2>2, <3>3, <4>2 DEF Offspring
          <6> QED
            BY <1>2, <1>3, <2>2, <3>3, <4>2, <6>1
        <5> QED
          BY <1>7, <5>1, <5>2
      <4> QED
        BY <2>2, <4>1, <4>2 DEF Offspring
    <3> QED
      BY <3>1, <3>2, <3>3
  <2>3. ASSUME ~IsChain, NEW j \in Procs PROVE ppc'[j] # "none" <=> j <= forked'[1] + 1
    <3>1. forked'[1] = forked[1] + 1 /\ c = forked[1] + 2 /\ i = 1
      BY <1>2, <1>3, <1>7, <2>3
    <3>2. ppc[j] # "none" <=> j <= forked[1] + 1
      BY <2>3 DEF Offspring
    <3>3. j \in Nat /\ j >= 1 /\ forked[1] \in Nat
      BY <1>2, <1>3
    <3>4. ppc'[j] # "none" <=> j = c \/ ppc[j] # "none"
      BY <1>1, <1>4, <1>7
    <3> QED
      BY <3>1, <3>2, <3>3, <3>4
  <2> QED
    BY <1>4, <2>1, <2>2, <2>3 DEF Offspring
<1>11. WaitsDone'
  <2>1. \A j \in Procs : \A k \in waitedfor'[j] : ppc'[k] = "done"
    <3>1. \A j \in Procs : \A k \in waitedfor[j] : k \in Procs /\ ppc[k] = "done"
      BY DEF WaitsDone, TreeTypes
    <3> QED
      BY <1>1, <1>3, <1>7, <3>1
  <2>2. ASSUME treekind \in {"chainwait", "fanwait"}, NEW j \in Procs, j \in messages \/ ppc'[j] \in {"message", "done"}
        PROVE  Children(j)' \subseteq waitedfor'[j]
    <3>2. (j \in messages \/ ppc[j] \in {"message", "done"}) /\ j # i
      BY <1>1, <1>3, <1>4, <1>7, <2>2 DEF WaitsDone
    <3>3. Children(j) \subseteq waitedfor[j]
      BY <2>2, <3>2 DEF WaitsDone
    <3>4. ~IsChain => j # 1
      BY <1>3, <3>2
    <3>5. Children(j)' = Children(j)
      BY <1>2, <1>4, <1>7, <3>2, <3>4 DEF Children
    <3> QED
      BY <1>1, <3>3, <3>5
  <2>3. \A j \in messages' : ppc'[j] \notin {"none", "fork"}
    <3>1. \A j \in messages : j # i /\ j # c /\ ppc[j] \notin {"none", "fork"} /\ j \in Procs
      BY <1>1, <1>3 DEF WaitsDone, TreeTypes
    <3> QED
      BY <1>1, <1>7, <3>1
  <2> QED
    BY <1>1, <2>1, <2>2, <2>3 DEF WaitsDone
<1>12. SemExcludes'
  <2>1. \A j \in Procs : ppc'[j] \in InSection => ppc[j] \in InSection
    BY <1>4, <1>7 DEF InSection
  <2> QED
    BY <1>1, <2>1 DEF SemExcludes
<1>13. SemLast'
  <2>1. ppc'[1] = "done" <=> ppc[1] = "done"
    BY <1>1, <1>2, <1>3, <1>4, <1>7
  <2>2. ASSUME treekind = "chainsem", "semop" \notin treefaults
        PROVE  /\ \A j \in Procs : ppc'[j] \in {"unlock", "wait", "remove", "done"} => j \in messages'
               /\ \A j \in Procs : ppc'[j] \in {"remove", "done"} =>
                     \A k \in Procs : k > j => ppc'[k] \in {"none", "done"}
    <3>1. \A j \in Procs : ppc'[j] \in {"unlock", "wait", "remove", "done"} => j # i /\ j # c /\ ppc'[j] = ppc[j]
      BY <1>6, <1>7, <2>2
    <3>2. ASSUME NEW j \in Procs, ppc'[j] \in {"remove", "done"}, NEW k \in Procs, k > j
          PROVE  ppc'[k] \in {"none", "done"}
      <4>1. ppc[j] \in {"remove", "done"} /\ j # i /\ j # c
        BY <3>1, <3>2
      <4>2. ppc[k] \in {"none", "done"} /\ k # i
        BY <1>1, <2>2, <3>2, <4>1 DEF SemLast
      <4>3. k # c
        <5>1. ~(i > j)
          BY <1>1, <2>2, <4>1 DEF SemLast
        <5>2. c = i + 1
          BY <1>2, <1>3, <2>2
        <5> QED
          BY <1>2, <3>2, <4>1, <5>1, <5>2
      <4> QED
        BY <1>7, <4>2, <4>3
    <3> QED
      BY <1>1, <2>2, <3>1, <3>2 DEF SemLast
  <2> QED
    BY <1>1, <2>1, <2>2 DEF SemLast
<1>14. Synchronized'
  <2>1. CASE treekind = "fansync"
    <3>1. i = 1 /\ mine = "fork" /\ its = "go" /\ ~AllForked /\ ppc'[1] = "fork"
      BY <1>1, <1>2, <1>3, <1>6, <1>7, <2>1 DEF AllForked
    <3>2. /\ ~(written > 0) /\ chars <= written
          /\ "r_read" \in treefaults \/ (messages = {} /\ \A j \in Procs : ppc[j] # "message")
      BY <2>1, <3>1 DEF Synchronized
    <3>3. "r_read" \in treefaults \/ \A j \in Procs : ppc'[j] # "message"
      BY <1>7, <3>1, <3>2
    <3> QED
      BY <1>1, <3>1, <3>2, <3>3 DEF Synchronized
  <2>2. CASE treekind # "fansync"
    BY <1>1, <2>2, NotSync
  <2> QED
    BY <2>1, <2>2
<1> QED
  BY <1>8, <1>9, <1>10, <1>11, <1>12, <1>13, <1>14

LEMMA WriteSyncKeeps ==
    ASSUME TreeIInv, WriteSync
    PROVE  TreeIInv'
<1> USE DEF TreeIInv, WriteSync
<1>1. /\ ppc[1] = "go" /\ ~nochild /\ written' = written + 1 /\ chars' \in {chars, chars + 1}
      /\ UNCHANGED <<treekind, treefaults, ppc, forked, nochild, sem, waitedfor, messages>>
      /\ chars \in Nat /\ written \in Nat
  BY DEF treechoice, TreeTypes
<1>2. IsChain' = IsChain /\ \A j \in Procs : Children(j)' = Children(j)
  BY <1>1 DEF IsChain, Children
<1>3. TreeTypes'
  BY <1>1 DEF TreeTypes
<1>4. TreePlaced' /\ Offspring'
  BY <1>1, <1>2 DEF TreePlaced, MayBe, Offspring
<1>5. WaitsDone'
  BY <1>1, <1>2 DEF WaitsDone
<1>6. SemExcludes' /\ SemLast'
  BY <1>1 DEF SemExcludes, SemLast
<1>7. Synchronized'
  <2>1. treekind = "fansync" => AllForked /\ chars <= written
    BY <1>1 DEF Synchronized
  <2>2. AllForked' <=> AllForked
    BY <1>1 DEF AllForked
  <2> QED
    BY <1>1, <2>1, <2>2 DEF Synchronized
<1> QED
  BY <1>3, <1>4, <1>5, <1>6, <1>7

LEMMA ReadSyncKeeps ==
    ASSUME TreeIInv, NEW i \in Procs, ReadSync(i)
    PROVE  TreeIInv'
<1> USE DEF TreeIInv, ReadSync
<1>1. /\ TreeGo(i, "message") /\ ppc[i] = "go" /\ chars > 0 /\ chars' = chars - 1
      /\ UNCHANGED <<nochild, sem, waitedfor, written, messages>>
  BY GoIs DEF TreePlaces
<1>2. treekind = "fansync" /\ chars \in Nat /\ written \in Nat /\ MayBe(i, "message")
  BY <1>1 DEF TreePlaced, MayBe, TreeTypes
<1>3. TreeTypes'
  BY <1>1, <1>2 DEF TreeTypes, TreeGo
<1>4. TreePlaced' /\ Offspring'
  BY <1>1, <1>2, PlacesKept
<1>5. WaitsDone'
  BY <1>1, <1>2, WaitsKept DEF WaitsDone, TreeTypes
<1>6. SemExcludes'
  BY <1>1, ExcludesKept DEF InSection
<1>7. SemLast'
  BY <1>1, <1>2, LastKept DEF SemLast
<1>8. Synchronized'
  <2>1. AllForked /\ chars <= written
    BY <1>1, <1>2 DEF Synchronized
  <2>2. AllForked'
    <3>1. ppc'[1] # "fork" /\ forked'[1] = forked[1]
      BY <1>1, <2>1, KindsAgree DEF AllForked, TreeGo
    <3> QED
      BY <2>1, <3>1 DEF AllForked
  <2> QED
    BY <1>1, <1>2, <2>1, <2>2 DEF Synchronized
<1> QED
  BY <1>3, <1>4, <1>5, <1>6, <1>7, <1>8

LEMMA ReadSyncFailsKeeps ==
    ASSUME TreeIInv, NEW i \in Procs, ReadSyncFails(i)
    PROVE  TreeIInv'
<1> USE DEF TreeIInv, ReadSyncFails
<1>1. /\ TreeGo(i, "message") /\ ppc[i] = "go" /\ "r_read" \in treefaults
      /\ UNCHANGED <<nochild, sem, waitedfor, chars, written, messages>>
  BY GoIs DEF TreePlaces
<1>2. treekind = "fansync" /\ MayBe(i, "message")
  BY <1>1 DEF TreePlaced, MayBe
<1>3. TreeTypes'
  BY <1>1, <1>2 DEF TreeTypes, TreeGo
<1>4. TreePlaced' /\ Offspring'
  BY <1>1, <1>2, PlacesKept
<1>5. WaitsDone'
  BY <1>1, <1>2, WaitsKept DEF WaitsDone, TreeTypes
<1>6. SemExcludes'
  BY <1>1, ExcludesKept DEF InSection
<1>7. SemLast'
  BY <1>1, <1>2, LastKept DEF SemLast
<1>8. Synchronized'
  <2>1. 1 \in Procs /\ (i = 1 => ppc[1] # "fork") /\ (AllForked => AllForked') /\ (ppc'[1] # "fork" => ppc[1] # "fork")
    BY <1>1, KindsAgree DEF AllForked, TreeGo
  <2> QED
    BY <1>1, <1>2, <2>1 DEF Synchronized, TreeGo
<1> QED
  BY <1>3, <1>4, <1>5, <1>6, <1>7, <1>8

LEMMA LockSemKeeps ==
    ASSUME TreeIInv, NEW i \in Procs, LockSem(i)
    PROVE  TreeIInv'
<1> USE DEF TreeIInv, LockSem
<1>1. /\ TreeGo(i, "critical") /\ ppc[i] = "lock" /\ sem = 1 /\ sem' = 0
      /\ UNCHANGED <<nochild, waitedfor, chars, written, messages>>
  BY GoIs DEF TreePlaces
<1>2. treekind = "chainsem" /\ MayBe(i, "critical")
  BY <1>1 DEF TreePlaced, MayBe
<1>3. TreeTypes'
  BY <1>1, <1>2 DEF TreeTypes, TreeGo
<1>4. TreePlaced' /\ Offspring'
  BY <1>1, <1>2, PlacesKept
<1>5. WaitsDone'
  BY <1>1, <1>2, WaitsKept DEF WaitsDone, TreeTypes
<1>6. SemExcludes'
  <2>1. \A j \in Procs : ppc[j] \notin InSection
    BY <1>1 DEF SemExcludes
  <2> QED
    BY <1>1, <2>1 DEF SemExcludes, TreeGo
<1>7. SemLast'
  <2>1. ppc'[1] # "done" /\ ppc[1] # "done"
    BY <1>1, <1>2, KindsAgree DEF SemLast, Removed, TreeGo
  <2> QED
    BY <1>1, <1>2, <2>1, LastKept DEF Removed
<1>8. Synchronized'
  BY <1>1, <1>2, NotSync DEF TreeGo
<1> QED
  BY <1>3, <1>4, <1>5, <1>6, <1>7, <1>8

LEMMA LockReturnsKeeps ==
    ASSUME TreeIInv, NEW i \in Procs, LockRemoved(i) \/ LockFails(i)
    PROVE  TreeIInv'
<1> USE DEF TreeIInv, LockRemoved, LockFails, LockReturns
<1> DEFINE q == IF i > 1 THEN "done" ELSE "wait"
<1>1. q \in TreePlaces /\ q \in {"done", "wait"}
  BY DEF TreePlaces
<1>2. /\ TreeGo(i, q) /\ ppc[i] = "lock"
      /\ UNCHANGED <<nochild, sem, waitedfor, chars, written, messages>>
  BY <1>1, GoIs
<1>3. treekind = "chainsem" /\ MayBe(i, q) /\ i \in Nat /\ i >= 1 /\ 1 \in Procs
  BY <1>1, <1>2, KindsAgree DEF TreePlaced, MayBe
<1>4. TreeTypes'
  BY <1>2 DEF TreeTypes, TreeGo
<1>5. TreePlaced' /\ Offspring'
  BY <1>2, <1>3, PlacesKept
<1>6. WaitsDone'
  BY <1>2, <1>3, WaitsKept DEF WaitsDone, TreeTypes
<1>7. SemExcludes'
  BY <1>1, <1>2, ExcludesKept DEF InSection
<1>8. SemLast'
  <2>1. (ppc'[1] = "done" <=> sem' = Removed)
    BY <1>2, <1>3 DEF SemLast, TreeGo
  <2>2. "semop" \in treefaults
    <3> SUFFICES ASSUME "semop" \notin treefaults PROVE FALSE
      OBVIOUS
    <3>1. ppc[1] = "done"
      BY <1>3 DEF SemLast
    <3> QED
      BY <1>2, <1>3, <3>1 DEF SemLast
  <2> QED
    BY <1>2, <1>3, <2>1, <2>2, LastKept
<1>9. Synchronized'
  BY <1>2, <1>3, NotSync DEF TreeGo
<1> QED
  BY <1>4, <1>5, <1>6, <1>7, <1>8, <1>9

LEMMA CriticalKeeps ==
    ASSUME TreeIInv, NEW i \in Procs, Critical(i)
    PROVE  TreeIInv'
<1> USE DEF TreeIInv, Critical
<1>1. /\ TreeGo(i, "unlock") /\ ppc[i] = "critical" /\ messages' = messages \cup {i}
      /\ UNCHANGED <<nochild, sem, waitedfor, chars, written>>
  BY GoIs DEF TreePlaces
<1>2. treekind = "chainsem" /\ MayBe(i, "unlock") /\ 1 \in Procs
  BY <1>1, KindsAgree DEF TreePlaced, MayBe
<1>3. TreeTypes'
  BY <1>1 DEF TreeTypes, TreeGo
<1>4. TreePlaced' /\ Offspring'
  BY <1>1, <1>2, PlacesKept
<1>5. WaitsDone'
  BY <1>1, <1>2, WaitsKept DEF WaitsDone, TreeTypes
<1>6. SemExcludes'
  <2>1. \A j \in Procs : ppc'[j] \in InSection <=> ppc[j] \in InSection
    BY <1>1 DEF InSection, TreeGo
  <2> QED
    BY <1>1, <2>1 DEF SemExcludes
<1>7. SemLast'
  <2>1. ppc'[1] = "done" <=> ppc[1] = "done"
    BY <1>1, <1>2 DEF TreeGo
  <2> QED
    BY <1>1, <1>2, <2>1, LastKept DEF SemLast
<1>8. Synchronized'
  BY <1>1, <1>2, NotSync DEF TreeGo
<1> QED
  BY <1>3, <1>4, <1>5, <1>6, <1>7, <1>8

LEMMA UnlockSemKeeps ==
    ASSUME TreeIInv, NEW i \in Procs, UnlockSem(i)
    PROVE  TreeIInv'
<1> USE DEF TreeIInv, UnlockSem
<1>1. /\ TreeGo(i, "wait") /\ ppc[i] = "unlock" /\ ((sem = 0 /\ sem' = 1) \/ sem' = sem)
      /\ UNCHANGED <<nochild, waitedfor, chars, written, messages>>
  BY GoIs DEF TreePlaces
<1>2. treekind = "chainsem" /\ MayBe(i, "wait") /\ 1 \in Procs
  BY <1>1, KindsAgree DEF TreePlaced, MayBe
<1>3. TreeTypes'
  BY <1>1 DEF TreeTypes, TreeGo
<1>4. TreePlaced' /\ Offspring'
  BY <1>1, <1>2, PlacesKept
<1>5. WaitsDone'
  BY <1>1, <1>2, WaitsKept DEF WaitsDone, TreeTypes
<1>6. SemExcludes'
  <2>1. \A j \in Procs : j # i => ppc[j] \notin InSection
    BY <1>1 DEF SemExcludes, InSection
  <2>2. \A j \in Procs : ppc'[j] \notin InSection
    BY <1>1, <2>1 DEF InSection, TreeGo
  <2> QED
    BY <2>2 DEF SemExcludes
<1>7. SemLast'
  <2>1. ppc'[1] = "done" <=> ppc[1] = "done"
    BY <1>1, <1>2 DEF TreeGo
  <2>2. sem' = Removed <=> sem = Removed
    BY <1>1 DEF Removed
  <2> QED
    BY <1>1, <1>2, <2>1, <2>2, LastKept DEF SemLast
<1>8. Synchronized'
  BY <1>1, <1>2, NotSync DEF TreeGo
<1> QED
  BY <1>3, <1>4, <1>5, <1>6, <1>7, <1>8

LEMMA RemoveSemKeeps ==
    ASSUME TreeIInv, RemoveSem
    PROVE  TreeIInv'
<1> USE DEF TreeIInv, RemoveSem
<1>1. 1 \in Procs
  BY KindsAgree
<1>2. /\ TreeGo(1, "done") /\ ppc[1] = "remove" /\ sem' = Removed
      /\ UNCHANGED <<nochild, waitedfor, chars, written, messages>>
  BY <1>1, GoIs DEF TreePlaces
<1>3. treekind = "chainsem" /\ MayBe(1, "done")
  BY <1>1, <1>2 DEF TreePlaced, MayBe
<1>4. TreeTypes'
  BY <1>2 DEF TreeTypes, TreeGo
<1>5. TreePlaced' /\ Offspring'
  BY <1>1, <1>2, <1>3, PlacesKept
<1>6. WaitsDone'
  BY <1>1, <1>2, <1>3, WaitsKept DEF WaitsDone, TreeTypes
<1>7. SemExcludes'
  BY <1>1, <1>2, ExcludesKept DEF InSection, Removed
<1>8. SemLast'
  <2>1. ppc'[1] = "done"
    BY <1>2 DEF TreeGo
  <2>2. "semop" \notin treefaults => 1 \in messages /\ \A j \in Procs : j > 1 => ppc[j] \in {"none", "done"}
    BY <1>1, <1>2, <1>3 DEF SemLast
  <2> QED
    BY <1>1, <1>2, <1>3, <2>1, <2>2, LastKept
<1>9. Synchronized'
  BY <1>2, <1>3, NotSync DEF TreeGo
<1> QED
  BY <1>4, <1>5, <1>6, <1>7, <1>8, <1>9

\* The processes after i in a chain have ended when its child has, or when it has none.
LEMMA AllBehind ==
    ASSUME TreeIInv, NEW i \in Procs, treekind = "chainsem", "semop" \notin treefaults, ppc[i] = "wait",
           forked[i] = 0 \/ \E c \in Children(i) : ppc[c] = "done"
    PROVE  \A j \in Procs : j > i => ppc[j] \in {"none", "done"}
<1> USE DEF TreeIInv
<1>1. IsChain
  BY DEF IsChain
<1>2. CASE forked[i] = 0
  BY <1>1, <1>2 DEF Offspring
<1>3. CASE \E c \in Children(i) : ppc[c] = "done"
  <2>1. i + 1 \in Procs /\ ppc[i + 1] = "done"
    BY <1>1, <1>3 DEF Children
  <2>2. \A j \in Procs : j > i + 1 => ppc[j] \in {"none", "done"}
    BY <2>1 DEF SemLast
  <2>3. \A j \in Procs : j \in Nat /\ i \in Nat
    BY KindsAgree
  <2> QED
    BY <2>1, <2>2, <2>3
<1> QED
  BY <1>2, <1>3

LEMMA NoChildLeftKeeps ==
    ASSUME TreeIInv, NEW i \in Procs, NoChildLeft(i)
    PROVE  TreeIInv'
<1> USE DEF TreeIInv, NoChildLeft
<1> DEFINE q == IF treekind # "chainsem" THEN "message" ELSE IF i = 1 THEN "remove" ELSE "done"
<1>1. q \in TreePlaces /\ q \in {"message", "remove", "done"} /\ MayBe(i, q)
  BY DEF TreePlaces, MayBe
<1>2. /\ TreeGo(i, q) /\ ppc[i] = "wait" /\ Children(i) \subseteq waitedfor[i]
      /\ UNCHANGED <<nochild, sem, waitedfor, chars, written, messages>>
  BY <1>1, GoIs DEF Unwaited
<1>3. treekind # "fansync" /\ 1 \in Procs
  BY <1>2, KindsAgree DEF TreePlaced, MayBe
<1>4. TreeTypes'
  BY <1>2 DEF TreeTypes, TreeGo
<1>5. TreePlaced' /\ Offspring'
  BY <1>1, <1>2, PlacesKept
<1>6. WaitsDone'
  BY <1>1, <1>2, WaitsKept DEF WaitsDone, TreeTypes
<1>7. SemExcludes'
  BY <1>1, <1>2, ExcludesKept DEF InSection
<1>8. SemLast'
  <2>1. treekind = "chainsem" => (ppc'[1] = "done" <=> sem' = Removed)
    BY <1>2, <1>3 DEF SemLast, TreeGo
  <2>2. ASSUME treekind = "chainsem", "semop" \notin treefaults
        PROVE  i \in messages /\ \A j \in Procs : j > i => ppc[j] \in {"none", "done"}
    <3>1. i \in messages
      BY <1>2, <2>2 DEF SemLast
    <3>2. forked[i] = 0 \/ \E c \in Children(i) : ppc[c] = "done"
      <4> SUFFICES ASSUME forked[i] # 0 PROVE \E c \in Children(i) : ppc[c] = "done"
        OBVIOUS
      <4>1. IsChain /\ forked[i] = 1 /\ i + 1 \in Procs /\ i \in Nat
        BY <2>2, KindsAgree DEF Offspring
      <4>2. i + 1 \in Children(i)
        BY <4>1 DEF Children
      <4> QED
        BY <1>2, <4>2 DEF WaitsDone
    <3> QED
      BY <1>2, <2>2, <3>1, <3>2, AllBehind
  <2> QED
    BY <1>2, <2>1, <2>2, LastKept DEF SemLast
<1>9. Synchronized'
  BY <1>2, <1>3, NotSync DEF TreeGo
<1> QED
  BY <1>4, <1>5, <1>6, <1>7, <1>8, <1>9

LEMMA WaitChildKeeps ==
    ASSUME TreeIInv, NEW i \in Procs, WaitChild(i)
    PROVE  TreeIInv'
<1> USE DEF TreeIInv
<1> DEFINE q == IF treekind = "fanwait" THEN "wait" ELSE IF treekind = "chainwait" THEN "message"
                ELSE IF i = 1 THEN "remove" ELSE "done"
<1>1. PICK c \in Unwaited(i) : ppc[c] = "done" /\ waitedfor' = [waitedfor EXCEPT ![i] = @ \cup {c}]
  BY DEF WaitChild
<1>2. /\ ppc[i] = "wait" /\ ppc' = [ppc EXCEPT ![i] = q] /\ Moves(i, "wait", q)
      /\ UNCHANGED <<treechoice, forked, nochild, sem, chars, written, messages>>
  BY DEF WaitChild, Moves
<1>3. treekind # "fansync" /\ 1 \in Procs /\ treekind \in {"chainwait", "chainsem", "fanwait", "fansync"}
  BY <1>2, KindsAgree DEF TreePlaced, MayBe
<1>4. q \in TreePlaces /\ q \in {"wait", "message", "remove", "done"} /\ MayBe(i, q)
  BY <1>3 DEF TreePlaces, MayBe
<1>5. TreeGo(i, q)
  BY <1>2, <1>4, GoIs
<1>6. c \in Children(i) /\ c \in Procs
  BY <1>1 DEF Unwaited, Children
<1>7. \A j \in Procs : waitedfor'[j] = IF j = i THEN waitedfor[i] \cup {c} ELSE waitedfor[j]
  BY <1>1 DEF TreeTypes
<1>8. TreeTypes'
  <2>1. waitedfor' \in [Procs -> SUBSET Procs]
    BY <1>1, <1>6 DEF TreeTypes
  <2> QED
    BY <1>2, <1>5, <2>1 DEF TreeTypes, TreeGo
<1>9. TreePlaced' /\ Offspring'
  BY <1>4, <1>5, PlacesKept
<1>10. WaitsDone'
  <2>1. \A j \in Procs : /\ waitedfor[j] \subseteq waitedfor'[j] /\ waitedfor'[j] \subseteq Procs
                         /\ \A d \in waitedfor'[j] : ppc[d] = "done"
    BY <1>1, <1>6, <1>7 DEF WaitsDone, TreeTypes
  <2>2. ASSUME treekind \in {"chainwait", "fanwait"}, i \in messages' \/ q \in {"message", "done"}
        PROVE  Children(i) \subseteq waitedfor'[i]
    <3>1. CASE i \in messages
      BY <1>7, <2>2, <3>1 DEF WaitsDone
    <3>2. CASE i \notin messages
      <4>1. treekind = "chainwait"
        BY <1>2, <2>2, <3>2
      <4>2. Children(i) \subseteq {i + 1}
        BY <4>1 DEF Children, IsChain
      <4> QED
        BY <1>6, <1>7, <4>2
    <3> QED
      BY <3>1, <3>2
  <2> HIDE DEF q
  <2> QED
    BY <1>2, <1>4, <1>5, <2>1, <2>2, WaitsKept
<1>11. SemExcludes'
  BY <1>2, <1>4, <1>5, ExcludesKept DEF InSection
<1>12. SemLast'
  <2>1. treekind = "chainsem" => (ppc'[1] = "done" <=> sem' = Removed)
    BY <1>2, <1>3, <1>5 DEF SemLast, TreeGo
  <2>2. ASSUME treekind = "chainsem", "semop" \notin treefaults
        PROVE  i \in messages /\ \A j \in Procs : j > i => ppc[j] \in {"none", "done"}
    BY <1>1, <1>2, <1>6, <2>2, AllBehind DEF SemLast
  <2> QED
    BY <1>2, <1>5, <2>1, <2>2, LastKept DEF SemLast
<1>13. Synchronized'
  BY <1>3, <1>5, NotSync DEF TreeGo
<1> QED
  BY <1>8, <1>9, <1>10, <1>11, <1>12, <1>13

LEMMA MessageKeeps ==
    ASSUME TreeIInv, NEW i \in Procs, Message(i)
    PROVE  TreeIInv'
<1> USE DEF TreeIInv, Message
<1>1. /\ TreeGo(i, "done") /\ ppc[i] = "message" /\ messages' = messages \cup {i}
      /\ UNCHANGED <<nochild, sem, waitedfor, chars, written>>
  BY GoIs DEF TreePlaces
<1>2. treekind # "chainsem" /\ MayBe(i, "done") /\ 1 \in Procs
  BY <1>1, KindsAgree DEF TreePlaced, MayBe
<1>3. TreeTypes'
  BY <1>1 DEF TreeTypes, TreeGo
<1>4. TreePlaced' /\ Offspring'
  BY <1>1, <1>2, PlacesKept
<1>5. WaitsDone'
  BY <1>1, <1>2, WaitsKept DEF WaitsDone, TreeTypes
<1>6. SemExcludes'
  BY <1>1, ExcludesKept DEF InSection
<1>7. SemLast'
  BY <1>1, <1>2, LastKept DEF SemLast
<1>8. Synchronized'
  <2>1. CASE treekind = "fansync"
    <3>1. "r_read" \in treefaults \/ AllForked
      BY <1>1, <2>1 DEF Synchronized
    <3>2. AllForked => AllForked'
      BY <1>1, <1>2 DEF AllForked, TreeGo
    <3>3. ppc'[1] # "fork" => ppc[1] # "fork"
      BY <1>1, <1>2 DEF TreeGo
    <3>4. /\ treefaults' = treefaults /\ treekind' = "fansync" /\ chars' = chars /\ written' = written
          /\ nochild' = nochild
      BY <1>1, <2>1 DEF TreeGo
    <3>5. /\ chars <= written /\ (ppc[1] # "fork" /\ ~nochild => AllForked)
          /\ (written > 0 => AllForked)
      BY <2>1 DEF Synchronized
    <3> QED
      BY <3>1, <3>2, <3>3, <3>4, <3>5 DEF Synchronized
  <2>2. CASE treekind # "fansync"
    BY <1>1, <2>2, NotSync DEF TreeGo
  <2> QED
    BY <2>1, <2>2
<1> QED
  BY <1>3, <1>4, <1>5, <1>6, <1>7, <1>8

LEMMA TreeNextIInv == TreeIInv /\ [TreeNext]_treevars => TreeIInv'
<1> SUFFICES ASSUME TreeIInv, [TreeNext]_treevars PROVE TreeIInv'
  OBVIOUS
<1>1. ASSUME NEW i \in Procs, TreeStep(i) \/ TreeFault(i) PROVE TreeIInv'
  <2>1. CASE Fork(i)
    BY <2>1, ForkKeeps
  <2>2. CASE ForkEnds(i)
    BY <2>2, ForkEndsKeeps
  <2>3. CASE WriteSync
    BY <2>3, WriteSyncKeeps
  <2>4. CASE RemoveSem
    BY <2>4, RemoveSemKeeps
  <2>5. CASE ReadSync(i)
    BY <2>5, ReadSyncKeeps
  <2>6. CASE LockSem(i)
    BY <2>6, LockSemKeeps
  <2>7. CASE LockRemoved(i) \/ LockFails(i)
    BY <2>7, LockReturnsKeeps
  <2>8. CASE Critical(i)
    BY <2>8, CriticalKeeps
  <2>9. CASE UnlockSem(i)
    BY <2>9, UnlockSemKeeps
  <2>10. CASE WaitChild(i)
    BY <2>10, WaitChildKeeps
  <2>11. CASE NoChildLeft(i)
    BY <2>11, NoChildLeftKeeps
  <2>12. CASE Message(i)
    BY <2>12, MessageKeeps
  <2>13. CASE ReadSyncFails(i)
    BY <2>13, ReadSyncFailsKeeps
  <2> QED
    BY <1>1, <2>1, <2>2, <2>3, <2>4, <2>5, <2>6, <2>7, <2>8, <2>9, <2>10, <2>11, <2>12, <2>13 DEF TreeStep, TreeFault
<1>2. CASE UNCHANGED treevars
  <2>1. IsChain' = IsChain /\ \A j \in Procs : Children(j)' = Children(j)
    BY <1>2 DEF IsChain, Children, treevars, treechoice
  <2> USE DEF TreeIInv, treevars, treechoice
  <2>2. TreeTypes' /\ TreePlaced' /\ Offspring'
    BY <1>2, <2>1 DEF TreeTypes, TreePlaced, MayBe, Offspring
  <2>3. WaitsDone' /\ SemExcludes'
    BY <1>2, <2>1 DEF WaitsDone, SemExcludes
  <2>4. SemLast' /\ Synchronized'
    BY <1>2 DEF SemLast, Synchronized, AllForked
  <2> QED
    BY <2>2, <2>3, <2>4
<1> QED
  BY <1>1, <1>2 DEF TreeNext

LEMMA TreeIInvOrders == TreeIInv => TreeInOrder
<1> SUFFICES ASSUME TreeIInv PROVE TreeInOrder
  OBVIOUS
<1> USE DEF TreeIInv
<1>1. treekind \in {"chainwait", "fanwait"} => \A i \in messages : \A c \in Children(i) : ppc[c] = "done"
  BY DEF WaitsDone, TreeTypes
<1>2. Cardinality({i \in Procs : ppc[i] = "critical"}) <= 1
  <2> DEFINE Critics == {i \in Procs : ppc[i] = "critical"}
  <2>1. Critics = {} \/ \E i \in Procs : Critics = {i}
    BY DEF SemExcludes, InSection
  <2>2. Cardinality({}) = 0 /\ \A i : Cardinality({i}) = 1
    BY FS_EmptySet, FS_Singleton
  <2> HIDE DEF Critics
  <2>3. Cardinality(Critics) = 0 \/ Cardinality(Critics) = 1
    BY <2>1, <2>2
  <2>4. Cardinality(Critics) <= 1
    BY <2>3
  <2> QED
    BY <2>4 DEF Critics
<1>3. ASSUME sem = Removed, "semop" \notin treefaults
      PROVE  messages = Created /\ \A i \in Created : ppc[i] = "done"
  <2>1. treekind = "chainsem" /\ ppc[1] = "done" /\ 1 \in Procs /\ \A i \in Procs : i \in Nat /\ i >= 1
    BY <1>3, KindsAgree DEF SemLast
  <2>2. \A i \in Procs : i > 1 => ppc[i] \in {"none", "done"}
    BY <1>3, <2>1 DEF SemLast
  <2>3. \A i \in Created : ppc[i] = "done" /\ i \in Procs
    BY <2>1, <2>2 DEF Created
  <2>4. \A i \in messages : i \in Created
    BY DEF WaitsDone, TreeTypes, Created
  <2>5. \A i \in Created : i \in messages
    BY <1>3, <2>1, <2>3 DEF SemLast
  <2> QED
    BY <2>3, <2>4, <2>5
<1>4. treekind = "chainsem" => (ppc[1] = "done" <=> sem = Removed)
  BY DEF SemLast
<1>5. ASSUME treekind = "fansync", "r_read" \notin treefaults, messages # {} PROVE Created = Procs
  <2>1. forked[1] + 1 = NumProcs /\ ~IsChain
    BY <1>5 DEF Synchronized, AllForked, IsChain
  <2>2. \A c \in Procs : c <= forked[1] + 1
    BY <2>1, KindsAgree
  <2> QED
    BY <2>1, <2>2 DEF Offspring, Created
<1> QED
  BY <1>1, <1>2, <1>3, <1>4, <1>5 DEF TreeInOrder

\* Chains and fans end in the order of their waits, under the semaphore one at a time,
\* whichever fork, semop, r_read or r_write fails and however many processes there are.
THEOREM TreeAlwaysInOrder == TreeSpec => []TreeInOrder
BY TreeInitIInv, TreeNextIInv, TreeIInvOrders, PTL DEF TreeSpec

-----------------------------------------------------------------------------
(* The ring of processes.                                                  *)

RingPlaces == {"none", "first", "pipe", "fork", "dup", "close", "hello", "exit"}
Tables == [Descriptors -> Ends \cup {Closed}]

\* What process i has open when it is at place q, and whether it may be there.
Fits(i, q, par, f) ==
    /\ q \in {"none", "first", "exit"} => f = NoneOpen
    /\ q = "pipe" => i < RingSize /\ f = Table(ReadEnd(i - 1), WriteEnd(0), Closed, Closed)
    /\ q = "fork" => i < RingSize /\ f = Table(ReadEnd(i - 1), WriteEnd(0), ReadEnd(i), WriteEnd(i))
    /\ q = "dup" /\ par => f = Table(ReadEnd(i - 1), WriteEnd(0), ReadEnd(i), WriteEnd(i))
    /\ q = "dup" /\ ~par => i > 1 /\ f = Table(ReadEnd(i - 2), WriteEnd(0), ReadEnd(i - 1), WriteEnd(i - 1))
    /\ q = "close" /\ par => f = Table(ReadEnd(i - 1), WriteEnd(i), ReadEnd(i), WriteEnd(i))
    /\ q = "close" /\ ~par => i > 1 /\ f = Table(ReadEnd(i - 1), WriteEnd(0), ReadEnd(i - 1), WriteEnd(i - 1))
    /\ q = "hello" /\ par => f = Table(ReadEnd(i - 1), WriteEnd(i), Closed, Closed)
    /\ q = "hello" /\ ~par => i = RingSize /\ f = Table(ReadEnd(i - 1), WriteEnd(0), Closed, Closed)
    /\ par => i < RingSize /\ q \in {"dup", "close", "hello", "exit"}

\* A process that has no child of its own yet.
Childless(q, par) == q \in {"none", "first", "pipe", "fork"} \/ (~par /\ q \in {"dup", "close"})

RingTypes ==
    /\ rpc \in [Ringers -> RingPlaces] /\ isparent \in [Ringers -> BOOLEAN]
    /\ fds \in [Ringers -> Tables]

RingIInv ==
    /\ RingTypes
    /\ \A i \in Ringers : Fits(i, rpc[i], isparent[i], fds[i])
    /\ \A i \in Ringers : i < RingSize /\ Childless(rpc[i], isparent[i]) => rpc[i + 1] = "none"

LEMMA Tabled ==
    ASSUME NEW a, NEW b, NEW c, NEW d
    PROVE  /\ Table(a, b, c, d)["in"] = a /\ Table(a, b, c, d)["out"] = b
           /\ Table(a, b, c, d)["fd0"] = c /\ Table(a, b, c, d)["fd1"] = d
BY DEF Table, Descriptors

LEMMA TableType ==
    ASSUME NEW a \in Ends \cup {Closed}, NEW b \in Ends \cup {Closed}, NEW c \in Ends \cup {Closed}, NEW d \in Ends \cup {Closed}
    PROVE  Table(a, b, c, d) \in Tables
BY DEF Table, Tables

LEMMA EndTypes ==
    /\ RingSize \in Nat \ {0} /\ Closed \in Ends \cup {Closed}
    /\ \A p \in 0..RingSize : ReadEnd(p) \in Ends \cup {Closed} /\ WriteEnd(p) \in Ends \cup {Closed}
BY RingSizeAssumption DEF Ends, ReadEnd, WriteEnd

LEMMA RingInitIInv == RingInit => RingIInv
<1> SUFFICES ASSUME RingInit PROVE RingIInv
  OBVIOUS
<1> USE DEF RingInit
<1>1. NoneOpen \in Tables
  BY EndTypes, TableType DEF NoneOpen
<1>2. RingTypes
  BY <1>1 DEF RingTypes, RingPlaces
<1>3. \A i \in Ringers : Fits(i, rpc[i], isparent[i], fds[i])
  BY DEF Fits
<1>4. \A i \in Ringers : i < RingSize => rpc[i + 1] = "none"
  BY EndTypes DEF Ringers
<1> QED
  BY <1>2, <1>3, <1>4 DEF RingIInv

\* Process i goes on to q, with the descriptors f.
LEMMA RingGoes ==
    ASSUME RingIInv, NEW i \in Ringers, NEW q \in RingPlaces, NEW f \in Tables, rpc[i] # "none",
           rpc' = [rpc EXCEPT ![i] = q], fds' = [fds EXCEPT ![i] = f], isparent' = isparent,
           Fits(i, q, isparent[i], f),
           Childless(q, isparent[i]) => Childless(rpc[i], isparent[i])
    PROVE  RingIInv'
<1> USE DEF RingIInv
<1>1. RingTypes'
  BY DEF RingTypes
<1>2. ASSUME NEW j \in Ringers
      PROVE  /\ rpc'[j] = (IF j = i THEN q ELSE rpc[j]) /\ fds'[j] = (IF j = i THEN f ELSE fds[j])
             /\ isparent'[j] = isparent[j]
  BY DEF RingTypes
<1>3. \A j \in Ringers : Fits(j, rpc'[j], isparent'[j], fds'[j])
  BY <1>2
<1>4. ASSUME NEW j \in Ringers, j < RingSize, Childless(rpc'[j], isparent'[j])
      PROVE  rpc'[j + 1] = "none"
  <2>1. Childless(rpc[j], isparent[j])
    BY <1>2, <1>4
  <2>2. rpc[j + 1] = "none" /\ j + 1 \in Ringers
    BY <1>4, <2>1, EndTypes DEF Ringers
  <2> QED
    BY <1>2, <2>2
<1> QED
  BY <1>1, <1>3, <1>4

LEMMA ForkNextKeeps ==
    ASSUME RingIInv, NEW i \in Ringers, ForkNext(i)
    PROVE  RingIInv'
<1> USE DEF RingIInv
<1>1. /\ rpc[i] = "fork" /\ ~isparent[i] /\ i < RingSize /\ i + 1 \in Ringers /\ i \in Nat
      /\ fds[i] = Table(ReadEnd(i - 1), WriteEnd(0), ReadEnd(i), WriteEnd(i))
      /\ rpc[i + 1] = "none" /\ ~isparent[i + 1]
  <2>1. rpc[i] = "fork" /\ i \in Nat /\ i >= 1 /\ Fits(i, "fork", isparent[i], fds[i])
    BY DEF ForkNext, Ringers
  <2>2. i < RingSize /\ ~isparent[i] /\ fds[i] = Table(ReadEnd(i - 1), WriteEnd(0), ReadEnd(i), WriteEnd(i))
    BY <2>1 DEF Fits, RingTypes
  <2>3. i + 1 \in Ringers
    BY <2>1, <2>2, EndTypes DEF Ringers
  <2>4. rpc[i + 1] = "none"
    BY <2>1, <2>2 DEF Childless
  <2>5. ~isparent[i + 1]
    BY <2>3, <2>4 DEF Fits
  <2> QED
    BY <2>1, <2>2, <2>3, <2>4, <2>5
<1>2. RingTypes'
  BY <1>1 DEF RingTypes, ForkNext, RingPlaces
<1>3. ASSUME NEW j \in Ringers
      PROVE  /\ rpc'[j] = (IF j \in {i, i + 1} THEN "dup" ELSE rpc[j])
             /\ fds'[j] = (IF j = i + 1 THEN fds[i] ELSE fds[j])
             /\ isparent'[j] = (IF j = i THEN TRUE ELSE isparent[j])
  BY <1>1 DEF RingTypes, ForkNext
<1>4. Fits(i, "dup", TRUE, fds[i])
  BY <1>1 DEF Fits
<1>5. Fits(i + 1, "dup", FALSE, fds[i])
  <2>1. (i + 1) - 1 = i /\ (i + 1) - 2 = i - 1 /\ i + 1 > 1
    BY <1>1 DEF Ringers
  <2> QED
    BY <1>1, <2>1 DEF Fits
<1>6. ASSUME NEW j \in Ringers PROVE Fits(j, rpc'[j], isparent'[j], fds'[j])
  <2>1. CASE j = i
    <3>1. i # i + 1
      BY <1>1
    <3>2. rpc'[j] = "dup" /\ fds'[j] = fds[i] /\ isparent'[j] = TRUE
      BY <1>3, <2>1, <3>1
    <3> QED
      BY <1>4, <2>1, <3>2
  <2>2. CASE j = i + 1
    <3>1. i # i + 1
      BY <1>1
    <3>2. rpc'[j] = "dup" /\ fds'[j] = fds[i] /\ isparent'[j] = FALSE
      BY <1>1, <1>3, <2>2, <3>1 DEF RingTypes
    <3> QED
      BY <1>5, <2>2, <3>2
  <2>3. CASE j \notin {i, i + 1}
    BY <1>3, <2>3
  <2> QED
    BY <2>1, <2>2, <2>3
<1>7. ASSUME NEW j \in Ringers, j < RingSize, Childless(rpc'[j], isparent'[j])
      PROVE  rpc'[j + 1] = "none"
  <2>1. j \in Nat /\ j + 1 \in Ringers
    BY <1>7, EndTypes DEF Ringers
  <2>2. j # i
    BY <1>3, <1>7 DEF Childless
  <2>3. CASE j = i + 1
    <3>1. Childless(rpc[j], isparent[j])
      BY <1>1, <2>3 DEF Childless
    <3>2. rpc[j + 1] = "none" /\ j + 1 \notin {i, i + 1}
      BY <1>1, <1>7, <2>1, <2>3, <3>1
    <3> QED
      BY <1>3, <2>1, <3>2
  <2>4. CASE j # i + 1
    <3>1. Childless(rpc[j], isparent[j])
      BY <1>3, <1>7, <2>2, <2>4
    <3>2. rpc[j + 1] = "none" /\ j + 1 # i /\ j + 1 # i + 1
      BY <1>1, <1>7, <2>1, <2>2, <3>1
    <3> QED
      BY <1>3, <2>1, <3>2
  <2> QED
    BY <2>3, <2>4
<1> QED
  BY <1>2, <1>6, <1>7

LEMMA RingStepKeeps ==
    ASSUME RingIInv, NEW i \in Ringers, RingStep(i)
    PROVE  RingIInv'
<1> USE DEF RingIInv
<1>1. /\ i \in Nat /\ i \in 0..RingSize /\ i - 1 \in 0..RingSize /\ 0 \in 0..RingSize /\ RingSize \in Nat /\ i <= RingSize
      /\ Fits(i, rpc[i], isparent[i], fds[i]) /\ isparent[i] \in BOOLEAN
  BY EndTypes DEF Ringers, RingTypes
<1>2. ASSUME i = 1, ConnectFirst PROVE RingIInv'
  <2> DEFINE f == Table(ReadEnd(0), WriteEnd(0), Closed, Closed)
  <2>1. rpc[i] = "first" /\ ~isparent[i]
    BY <1>1, <1>2 DEF ConnectFirst, Proceeds, Fits
  <2>2. f \in Tables
    BY <1>1, EndTypes, TableType
  <2>3. NextPc(i) \in RingPlaces /\ Fits(i, NextPc(i), isparent[i], f)
    BY <1>1, <1>2, <2>1 DEF NextPc, RingPlaces, Fits
  <2>4. rpc' = [rpc EXCEPT ![i] = NextPc(i)] /\ fds' = [fds EXCEPT ![i] = f] /\ isparent' = isparent
    BY <1>2 DEF ConnectFirst, Proceeds
  <2> QED
    BY <2>1, <2>2, <2>3, <2>4, RingGoes DEF Childless
<1>3. ASSUME MakePipe(i) PROVE RingIInv'
  <2> DEFINE f == Table(ReadEnd(i - 1), WriteEnd(0), ReadEnd(i), WriteEnd(i))
  <2>1. rpc[i] = "pipe" /\ ~isparent[i] /\ i < RingSize /\ fds[i] = Table(ReadEnd(i - 1), WriteEnd(0), Closed, Closed)
    BY <1>1, <1>3 DEF MakePipe, Proceeds, Fits
  <2>2. f \in Tables
    BY <1>1, EndTypes, TableType
  <2>3. "fork" \in RingPlaces /\ Fits(i, "fork", isparent[i], f)
    BY <2>1 DEF RingPlaces, Fits
  <2>4. [fds[i] EXCEPT !["fd0"] = ReadEnd(i), !["fd1"] = WriteEnd(i)] = f
    BY <2>1 DEF Table, Descriptors
  <2> HIDE DEF f
  <2>5. rpc' = [rpc EXCEPT ![i] = "fork"] /\ fds' = [fds EXCEPT ![i] = f] /\ isparent' = isparent
    BY <1>3, <2>4 DEF MakePipe, Proceeds
  <2> QED
    BY <2>1, <2>2, <2>3, <2>5, RingGoes DEF Childless
<1>4. ASSUME Dup(i) PROVE RingIInv'
  <2>1. rpc[i] = "dup" /\ rpc' = [rpc EXCEPT ![i] = "close"] /\ isparent' = isparent /\ "close" \in RingPlaces
    BY <1>4 DEF Dup, Proceeds, RingPlaces
  <2>2. CASE isparent[i]
    <3> DEFINE f == Table(ReadEnd(i - 1), WriteEnd(i), ReadEnd(i), WriteEnd(i))
    <3>1. fds[i] = Table(ReadEnd(i - 1), WriteEnd(0), ReadEnd(i), WriteEnd(i)) /\ i < RingSize
      BY <1>1, <2>1, <2>2 DEF Fits
    <3>2. fds[i]["fd1"] = WriteEnd(i)
      BY <3>1, Tabled
    <3>3. [fds[i] EXCEPT !["out"] = fds[i]["fd1"]] = f
      BY <3>1, <3>2 DEF Table, Descriptors
    <3>4. f \in Tables
      BY <1>1, EndTypes, TableType
    <3>5. Fits(i, "close", isparent[i], f)
      BY <2>2, <3>1 DEF Fits
    <3> HIDE DEF f
    <3>6. fds' = [fds EXCEPT ![i] = f]
      BY <1>4, <2>2, <3>3 DEF Dup
    <3> QED
      BY <2>1, <2>2, <3>4, <3>5, <3>6, RingGoes DEF Childless
  <2>3. CASE ~isparent[i]
    <3> DEFINE f == Table(ReadEnd(i - 1), WriteEnd(0), ReadEnd(i - 1), WriteEnd(i - 1))
    <3>1. fds[i] = Table(ReadEnd(i - 2), WriteEnd(0), ReadEnd(i - 1), WriteEnd(i - 1)) /\ i > 1
      BY <1>1, <2>1, <2>3 DEF Fits
    <3>2. fds[i]["fd0"] = ReadEnd(i - 1)
      BY <3>1, Tabled
    <3>3. [fds[i] EXCEPT !["in"] = fds[i]["fd0"]] = f
      BY <3>1, <3>2 DEF Table, Descriptors
    <3>4. f \in Tables
      BY <1>1, EndTypes, TableType
    <3>5. Fits(i, "close", isparent[i], f)
      BY <2>3, <3>1 DEF Fits
    <3> HIDE DEF f
    <3>6. fds' = [fds EXCEPT ![i] = f]
      BY <1>4, <2>3, <3>3 DEF Dup
    <3> QED
      BY <2>1, <2>3, <3>4, <3>5, <3>6, RingGoes DEF Childless
  <2> QED
    BY <2>2, <2>3
<1>5. ASSUME CloseExtra(i) PROVE RingIInv'
  <2>1. rpc[i] = "close" /\ isparent' = isparent
    BY <1>5 DEF CloseExtra, Proceeds
  <2>2. CASE isparent[i]
    <3> DEFINE f == Table(ReadEnd(i - 1), WriteEnd(i), Closed, Closed)
    <3>1. fds[i] = Table(ReadEnd(i - 1), WriteEnd(i), ReadEnd(i), WriteEnd(i)) /\ i < RingSize
      BY <1>1, <2>1, <2>2 DEF Fits
    <3>2. [fds[i] EXCEPT !["fd0"] = Closed, !["fd1"] = Closed] = f
      BY <3>1 DEF Table, Descriptors
    <3>3. f \in Tables
      BY <1>1, EndTypes, TableType
    <3>4. Fits(i, "hello", isparent[i], f) /\ "hello" \in RingPlaces
      BY <2>2, <3>1 DEF Fits, RingPlaces
    <3> HIDE DEF f
    <3>5. fds' = [fds EXCEPT ![i] = f] /\ rpc' = [rpc EXCEPT ![i] = "hello"]
      BY <1>5, <2>2, <3>2 DEF CloseExtra, Proceeds
    <3> QED
      BY <2>1, <3>3, <3>4, <3>5, RingGoes DEF Childless
  <2>3. CASE ~isparent[i]
    <3> DEFINE f == Table(ReadEnd(i - 1), WriteEnd(0), Closed, Closed)
    <3>1. fds[i] = Table(ReadEnd(i - 1), WriteEnd(0), ReadEnd(i - 1), WriteEnd(i - 1)) /\ i > 1
      BY <1>1, <2>1, <2>3 DEF Fits
    <3>2. [fds[i] EXCEPT !["fd0"] = Closed, !["fd1"] = Closed] = f
      BY <3>1 DEF Table, Descriptors
    <3>3. f \in Tables
      BY <1>1, EndTypes, TableType
    <3>4. Fits(i, NextPc(i), isparent[i], f) /\ NextPc(i) \in RingPlaces
      BY <1>1, <2>3 DEF Fits, RingPlaces, NextPc
    <3> HIDE DEF f
    <3>5. fds' = [fds EXCEPT ![i] = f] /\ rpc' = [rpc EXCEPT ![i] = NextPc(i)]
      BY <1>5, <2>3, <3>2 DEF CloseExtra, Proceeds
    <3> QED
      BY <2>1, <2>3, <3>3, <3>4, <3>5, RingGoes DEF Childless
  <2> QED
    BY <2>2, <2>3
<1>6. ASSUME RingFails(i) PROVE RingIInv'
  <2>1. NoneOpen \in Tables /\ "exit" \in RingPlaces
    BY EndTypes, TableType DEF NoneOpen, RingPlaces
  <2>2. Fits(i, "exit", isparent[i], NoneOpen)
    BY <1>1 DEF Fits
  <2>3. /\ rpc' = [rpc EXCEPT ![i] = "exit"] /\ fds' = [fds EXCEPT ![i] = NoneOpen] /\ isparent' = isparent
        /\ rpc[i] # "none"
    BY <1>6 DEF RingFails
  <2> QED
    BY <2>1, <2>2, <2>3, RingGoes DEF Childless
<1>7. ASSUME ForkNext(i) PROVE RingIInv'
  BY <1>7, ForkNextKeeps
<1> QED
  BY <1>2, <1>3, <1>4, <1>5, <1>6, <1>7 DEF RingStep

LEMMA RingIInvCloses == RingIInv => RingClosed
<1> SUFFICES ASSUME RingIInv PROVE RingClosed
  OBVIOUS
<1> USE DEF RingIInv
<1>1. ASSUME NEW i \in Ringers, rpc[i] = "hello"
      PROVE  /\ fds[i]["in"] = ReadEnd(i - 1)
             /\ fds[i]["out"] = (IF i < RingSize THEN WriteEnd(i) ELSE WriteEnd(0))
             /\ fds[i]["fd0"] = Closed /\ fds[i]["fd1"] = Closed
  <2>1. Fits(i, "hello", isparent[i], fds[i]) /\ isparent[i] \in BOOLEAN
    BY <1>1 DEF RingTypes
  <2>2. CASE isparent[i]
    <3>1. i < RingSize /\ fds[i] = Table(ReadEnd(i - 1), WriteEnd(i), Closed, Closed)
      BY <2>1, <2>2 DEF Fits
    <3> QED
      BY <3>1, Tabled
  <2>3. CASE ~isparent[i]
    <3>1. ~(i < RingSize) /\ fds[i] = Table(ReadEnd(i - 1), WriteEnd(0), Closed, Closed)
      BY <2>1, <2>3, EndTypes DEF Fits
    <3> QED
      BY <3>1, Tabled
  <2> QED
    BY <2>1, <2>2, <2>3
<1>2. /\ \A p, q : ReadEnd(p) # WriteEnd(q) /\ (ReadEnd(p) = ReadEnd(q) => p = q) /\ (WriteEnd(p) = WriteEnd(q) => p = q)
      /\ \A p : ReadEnd(p).pipe = p /\ WriteEnd(p).pipe = p /\ ReadEnd(p).end = "r" /\ WriteEnd(p).end = "w"
      /\ \A p \in 0..RingSize : ReadEnd(p) # Closed
      /\ \A p : WriteEnd(p) # Closed
  <2>1. \A p, q : ReadEnd(p) # WriteEnd(q) /\ (ReadEnd(p) = ReadEnd(q) => p = q) /\ (WriteEnd(p) = WriteEnd(q) => p = q)
    BY DEF ReadEnd, WriteEnd
  <2>2. \A p : ReadEnd(p).pipe = p /\ WriteEnd(p).pipe = p /\ ReadEnd(p).end = "r" /\ WriteEnd(p).end = "w"
    BY DEF ReadEnd, WriteEnd
  <2>3. \A p \in 0..RingSize : ReadEnd(p) # Closed
    <3>1. \A p \in 0..RingSize : p # RingSize + 1
      BY EndTypes
    <3> QED
      BY <3>1 DEF ReadEnd, Closed
  <2>4. \A p : WriteEnd(p) # Closed
    BY DEF WriteEnd, Closed
  <2> QED
    BY <2>1, <2>2, <2>3, <2>4
<1>3. \A i \in Ringers : i \in Nat /\ i >= 1 /\ i <= RingSize
  BY EndTypes DEF Ringers
<1>4. ASSUME \A i \in Ringers : rpc[i] = "hello", NEW i \in Ringers
      PROVE  LET p == fds[i]["out"].pipe IN
              /\ fds[i]["out"] = WriteEnd(p) /\ fds[Following(i)]["in"] = ReadEnd(p)
              /\ \A j \in Ringers : /\ Have(j, WriteEnd(p)) => j = i
                                    /\ Have(j, ReadEnd(p)) => j = Following(i)
  <2> DEFINE p == IF i < RingSize THEN i ELSE 0
  <2>1. fds[i]["out"] = WriteEnd(p) /\ fds[i]["out"].pipe = p /\ p \in 0..RingSize
    BY <1>1, <1>2, <1>3, <1>4, EndTypes
  <2>2. Following(i) \in Ringers /\ Following(i) - 1 = p
    BY <1>3, EndTypes DEF Following, Ringers
  <2>3. fds[Following(i)]["in"] = ReadEnd(p)
    BY <1>1, <1>4, <2>2
  <2> HIDE DEF p
  <2>4. ASSUME NEW j \in Ringers, Have(j, WriteEnd(p)) PROVE j = i
    <3>1. fds[j]["out"] = WriteEnd(p)
      <4>1. PICK d \in Descriptors : fds[j][d] = WriteEnd(p)
        BY <2>4 DEF Have
      <4>2. d # "in" /\ d # "fd0" /\ d # "fd1"
        BY <1>1, <1>2, <1>4, <4>1
      <4> QED
        BY <4>1, <4>2 DEF Descriptors
    <3>2. p = IF j < RingSize THEN j ELSE 0
      BY <1>1, <1>2, <1>4, <3>1
    <3> QED
      BY <1>3, <3>2, EndTypes DEF p
  <2>5. ASSUME NEW j \in Ringers, Have(j, ReadEnd(p)) PROVE j = Following(i)
    <3>1. fds[j]["in"] = ReadEnd(p)
      <4>1. PICK d \in Descriptors : fds[j][d] = ReadEnd(p)
        BY <2>5 DEF Have
      <4>2. d # "out" /\ d # "fd0" /\ d # "fd1"
        BY <1>1, <1>2, <1>4, <2>1, <4>1
      <4> QED
        BY <4>1, <4>2 DEF Descriptors
    <3>2. p = j - 1
      BY <1>1, <1>2, <1>4, <3>1
    <3> QED
      BY <1>3, <2>2, <3>2
  <2> QED
    BY <2>1, <2>3, <2>4, <2>5
<1>5. ASSUME NEW i \in Ringers, rpc[i] = "hello"
      PROVE  /\ fds[i]["in"].end = "r" /\ fds[i]["out"].end = "w"
             /\ fds[i]["fd0"] = Closed /\ fds[i]["fd1"] = Closed
             /\ RingSize > 1 => fds[i]["in"].pipe # fds[i]["out"].pipe
  <2>1. /\ fds[i]["in"].end = "r" /\ fds[i]["out"].end = "w"
        /\ fds[i]["fd0"] = Closed /\ fds[i]["fd1"] = Closed
    BY <1>1, <1>2, <1>5
  <2>2. fds[i]["in"].pipe = i - 1 /\ fds[i]["out"].pipe = (IF i < RingSize THEN i ELSE 0)
    BY <1>1, <1>2, <1>5
  <2> QED
    BY <1>3, <2>1, <2>2, EndTypes
<1> QED
  BY <1>4, <1>5 DEF RingClosed

LEMMA RingNextIInv == RingIInv /\ [RingNext]_ringvars => RingIInv'
<1> SUFFICES ASSUME RingIInv, [RingNext]_ringvars PROVE RingIInv'
  OBVIOUS
<1>1. CASE RingNext
  BY <1>1, RingStepKeeps DEF RingNext
<1>2. CASE UNCHANGED ringvars
  BY <1>2 DEF RingIInv, RingTypes, ringvars
<1> QED
  BY <1>1, <1>2

\* A ring that is complete is closed.
THEOREM RingAlwaysClosed == RingSpec => []RingClosed
BY RingInitIInv, RingNextIInv, RingIInvCloses, PTL DEF RingSpec

\* Both, as the programs of ProcessTree have nothing to do with each other.
THEOREM RelativesAlwaysInOrder == TreeSpec /\ RingSpec => []RelativesInOrder
<1>1. TreeInOrder /\ RingClosed => RelativesInOrder
  BY DEF RelativesInOrder
<1> QED
  BY <1>1, TreeAlwaysInOrder, RingAlwaysClosed, PTL
-----------------------------------------------------------------------------
(* AsyncMonitor: the copies that a signal handler makes.                   *)

AioTypes ==
    /\ aio \in {"none", "progress", "ok", "error"}
    /\ status \in Nat /\ offset \in Nat /\ totalbytes \in Nat /\ stored \in Nat /\ queued \in Nat
    /\ doneflag \in BOOLEAN /\ globalerror \in BOOLEAN /\ aiomasked \in BOOLEAN

\* No handler runs from the time the structure is set up until its read has started.
SetUp ==
    /\ apc \in {"reset", "start", "unblock"} => aiomasked
    /\ apc = "start" =>
           /\ offset = 0 /\ totalbytes = 0 /\ stored = 0
           /\ ~doneflag /\ ~globalerror

\* The copy under way: what is counted, what a read that is over has found, and who
\* goes on.
Copying == apc \in {"unblock", "work", "suspend", "report"}
Counted == totalbytes = stored /\ offset = stored /\ offset <= FileSize
Found == aio = "ok" => offset + status <= FileSize /\ (status = 0 => offset = FileSize)
AtTheEnd == aio = "ok" /\ status = 0
CopyGoesOn ==
    Copying =>
        /\ globalerror => doneflag
        /\ ~globalerror => Counted /\ Found
        /\ ~globalerror /\ doneflag => AtTheEnd
        /\ ~doneflag => aio = "progress" \/ (aio \in {"ok", "error"} /\ queued > 0)

AioIInv == AioTypes /\ SetUp /\ CopyGoesOn

LEMMA AioInitIInv == AsyncInit => AioIInv
<1> SUFFICES ASSUME AsyncInit PROVE AioIInv
  OBVIOUS
<1>1. AioTypes
  BY DEF AsyncInit, AioTypes
<1>2. SetUp /\ CopyGoesOn
  BY DEF AsyncInit, SetUp, CopyGoesOn, Copying
<1> QED
  BY <1>1, <1>2 DEF AioIInv

LEMMA HandlerKeeps == AioIInv /\ Aiohandler => AioIInv'
<1> SUFFICES ASSUME AioIInv, Aiohandler PROVE AioIInv'
  OBVIOUS
<1> USE AsyncAssumption DEF AioIInv, AioTypes
<1>1. /\ queued > 0 /\ ~aiomasked /\ queued' = queued - 1
      /\ UNCHANGED <<apc, aiomasked, status>>
  BY DEF Aiohandler, amain
<1>2. SetUp'
  BY <1>1 DEF SetUp
<1>3. CASE HandleError
  <2>1. AioTypes'
    BY <1>1, <1>3 DEF HandleError
  <2>2. CopyGoesOn'
    BY <1>1, <1>3 DEF HandleError, CopyGoesOn, Copying
  <2> QED
    BY <1>2, <2>1, <2>2
<1>4. CASE HandleBlock
  <2> USE DEF HandleBlock, Readstart
  <2>1. AioTypes'
    <3>1. /\ totalbytes' \in Nat /\ offset' \in Nat /\ stored' \in Nat /\ queued' \in Nat /\ status' \in Nat
      BY <1>1, <1>4
    <3>2. aio' \in {"none", "progress", "ok", "error"}
      BY <1>4
    <3>3. aiomasked' \in BOOLEAN /\ doneflag' \in BOOLEAN /\ globalerror' \in BOOLEAN
      BY <1>1, <1>4, Zenon
    <3> QED
      BY <3>1, <3>2, <3>3
  <2>2. ASSUME Copying, ~globalerror'
        PROVE  Counted' /\ Found' /\ (doneflag' => AtTheEnd') /\ (~doneflag' => aio' = "progress")
    <3>1. ~globalerror /\ Counted /\ Found /\ (doneflag => AtTheEnd)
      BY <1>4, <2>2 DEF CopyGoesOn
    <3> QED
      BY <1>1, <1>4, <2>2, <3>1 DEF Counted, Found, AtTheEnd
  <2>3. ASSUME Copying, globalerror'
        PROVE  doneflag'
    BY <1>4, <2>3 DEF CopyGoesOn
  <2>4. Copying' <=> Copying
    BY <1>1 DEF Copying
  <2> QED
    BY <1>2, <2>1, <2>2, <2>3, <2>4 DEF CopyGoesOn
<1>5. CASE HandleNothing
  <2>1. AioTypes'
    BY <1>1, <1>5 DEF HandleNothing, astate
  <2>2. CopyGoesOn'
    BY <1>1, <1>5 DEF HandleNothing, astate, CopyGoesOn, Copying, Counted, Found, AtTheEnd
  <2> QED
    BY <1>2, <2>1, <2>2
<1> QED
  BY <1>3, <1>4, <1>5 DEF Aiohandler

LEMMA KernelKeeps == AioIInv /\ (ReadCompletes \/ StraySignal) => AioIInv'
<1> SUFFICES ASSUME AioIInv, ReadCompletes \/ StraySignal PROVE AioIInv'
  OBVIOUS
<1> USE AsyncAssumption DEF AioIInv, AioTypes, amain, astate
<1>1. CASE ReadCompletes
  <2>1. AioTypes' /\ SetUp'
    BY <1>1 DEF ReadCompletes, SetUp
  <2>2. CopyGoesOn'
    BY <1>1 DEF ReadCompletes, CopyGoesOn, Copying, Counted, Found, AtTheEnd
  <2> QED
    BY <2>1, <2>2
<1>2. CASE StraySignal
  <2>1. AioTypes' /\ SetUp'
    BY <1>2 DEF StraySignal, SetUp
  <2>2. CopyGoesOn'
    BY <1>2 DEF StraySignal, CopyGoesOn, Copying, Counted, Found, AtTheEnd
  <2> QED
    BY <2>1, <2>2
<1> QED
  BY <1>1, <1>2

LEMMA AioMainKeeps == AioIInv /\ AsyncMain => AioIInv'
<1> SUFFICES ASSUME AioIInv, AsyncMain PROVE AioIInv'
  OBVIOUS
<1> USE AsyncAssumption DEF AioIInv, AioTypes, SetUp, CopyGoesOn, Copying, Counted, Found, AtTheEnd,
                            Goes, akernel, astate
<1>1. CASE Initsignal \/ BlockAll
  BY <1>1 DEF Initsignal, BlockAll
<1>2. CASE Reset
  BY <1>2 DEF Reset
<1>3. CASE StartFirst
  <2>1. /\ AioTypes' /\ apc' = "unblock" /\ aiomasked
        /\ offset' = 0 /\ totalbytes' = 0 /\ stored' = 0
        /\ ~doneflag /\ ~globalerror
    BY <1>3 DEF StartFirst, Readstart
  <2>2. \/ aio' = "progress" /\ ~doneflag' /\ ~globalerror'
        \/ aio' = "none" /\ doneflag' /\ globalerror'
    BY <1>3, <2>1 DEF StartFirst, Readstart
  <2> QED
    BY <1>3, <2>1, <2>2 DEF StartFirst
<1>4. CASE Unblock
  BY <1>4 DEF Unblock
<1>5. CASE SuspendMain \/ Getdone
  BY <1>5 DEF SuspendMain, Getdone
<1>6. CASE Report
  BY <1>6 DEF Report
<1> QED
  BY <1>1, <1>2, <1>3, <1>4, <1>5, <1>6 DEF AsyncMain

LEMMA AioNextIInv == AioIInv /\ [AsyncNext]_avars => AioIInv'
<1> SUFFICES ASSUME AioIInv, [AsyncNext]_avars PROVE AioIInv'
  OBVIOUS
<1>1. CASE UNCHANGED avars
  BY <1>1 DEF avars, amain, akernel, astate, AioIInv, AioTypes, SetUp, CopyGoesOn, Copying, Counted, Found, AtTheEnd
<1> QED
  BY <1>1, HandlerKeeps, KernelKeeps, AioMainKeeps DEF AsyncNext, AsyncKernel

\* asyncmonitorsignal.c: without an error the whole file is in the output and counted
\* once, and a copy that is not done goes on, for any file and block, any number of
\* copies and signals from outside, and any failing call.
THEOREM AioTotalsExact == AsyncSpec => []TotalsExact
<1>1. AioIInv => TotalsExact
  BY AsyncAssumption DEF AioIInv, AioTypes, CopyGoesOn, Copying, Counted, Found, AtTheEnd, TotalsExact
<1> QED
  BY <1>1, AioInitIInv, AioNextIInv, PTL DEF AsyncSpec

-----------------------------------------------------------------------------
(* AsyncMonitor: the programs that show several inputs.                    *)

RequestStates == {"none", "progress", "ok", "error"}
RdTypes ==
    /\ rdkind \in {"poll", "suspend"} /\ regular \subseteq Inputs /\ rdfails \in BOOLEAN
    /\ rdpc \in {"init", "rest", "look", "process", "reinit", "again", "end"} \X Inputs
    /\ request \in [Inputs -> [state : RequestStates, status : Nat, offset : Nat]]
    /\ taken \in [Inputs -> Nat] /\ inbuf \in [Inputs -> Nat \X Nat]
    /\ started \in [Inputs -> BOOLEAN] /\ isdone \in [Inputs -> BOOLEAN] /\ fetched \in [Inputs -> Nat]
    /\ over \subseteq Inputs
    /\ shows \in [Inputs -> Seq(Nat \X Nat)]

\* The inputs get their first read one after the other.
Opening ==
    /\ rdpc[1] = "init" =>
           /\ over = {}
           /\ \A f \in Inputs : IF f < rdpc[2] THEN request[f].state # "none"
                                ELSE request[f].state = "none" /\ ~started[f]
    /\ rdpc[1] \notin {"init", "end"} => \A f \in Inputs : request[f].state # "none"

\* main has found a block of f; it has shown it.
AtBlock(f) == rdpc \in {<<"process", f>>, <<"reinit", f>>, <<"again", f>>}
PastBlock(f) == rdpc \in {<<"reinit", f>>, <<"again", f>>}

\* Where the next block begins, and what a read that is over has found there.
From(f) == IF Rereads(f) THEN 0 ELSE ShownTo(f)
Ready(f) == request[f].state = "ok" /\ ~PastBlock(f)
BlockFound(f) ==
    Ready(f) =>
        /\ From(f) + request[f].status <= InputSize
        /\ request[f].status = 0 => From(f) = InputSize
        /\ request[f].status > 0 => inbuf[f] = <<From(f) + 1, From(f) + request[f].status>>

\* The place of an input: the offset of a file, moved on with aio_return unless it
\* never is, or what a pipe has given.
PlaceKept(f) ==
    IF f \in regular
    THEN request[f].offset = From(f) + (IF rdkind = "poll" /\ rdpc = <<"process", f>> THEN request[f].status ELSE 0)
    ELSE taken[f] = From(f) + (IF Ready(f) THEN request[f].status ELSE 0)

ShownInOrder(f) ==
    /\ ShownTo(f) \in 0..InputSize
    /\ \A k \in 1..Len(shows[f]) : shows[f][k][1] = 1 + (IF Rereads(f) THEN 0 ELSE Followed(f)[k])

\* Who is at work on input f.
FlagsAgree(f) ==
    /\ AtBlock(f) => f \notin over /\ request[f].state = "ok" /\ request[f].status > 0
    /\ isdone[f] => f \in over \/ rdpc \in {<<"process", f>>, <<"reinit", f>>}
    /\ isdone[f] => request[f].state = "ok" /\ rdkind = "poll"
    /\ rdkind = "poll" /\ rdpc = <<"again", f>> => ~started[f]
    /\ ~rdfails => request[f].state # "error"
    /\ f \in over => request[f].state # "progress"
    /\ f \in over /\ ~rdfails => ShownTo(f) = InputSize

InputAgrees(f) == BlockFound(f) /\ PlaceKept(f) /\ ShownInOrder(f) /\ FlagsAgree(f)

RdIInv == RdTypes /\ Opening /\ \A f \in Inputs : InputAgrees(f)

LEMMA OneIsInput == 1 \in Inputs /\ Inputs \subseteq Nat
BY ReadsAssumption

LEMMA RdInitIInv == ReadsInit => RdIInv
<1> SUFFICES ASSUME ReadsInit PROVE RdIInv
  OBVIOUS
<1> USE DEF ReadsInit
<1>1. RdTypes
  BY OneIsInput, ReadsAssumption DEF RdTypes, Idle, NoBlock, RequestStates
<1>2. Opening
  BY OneIsInput, ReadsAssumption DEF Opening, Idle
<1>3. ASSUME NEW f \in Inputs
      PROVE  InputAgrees(f)
  <2>1. request[f].state = "none" /\ request[f].offset = 0 /\ taken[f] = 0 /\ shows[f] = <<>> /\ ~isdone[f]
    BY DEF Idle
  <2>2. ShownTo(f) = 0 /\ From(f) = 0 /\ ~Ready(f)
    BY <2>1 DEF ShownTo, From, Ready
  <2>3. PlaceKept(f)
    BY <2>1, <2>2 DEF PlaceKept
  <2>4. ShownInOrder(f)
    BY <2>1, <2>2, ReadsAssumption DEF ShownInOrder
  <2>5. FlagsAgree(f)
    BY <2>1 DEF FlagsAgree, AtBlock
  <2> QED
    BY <2>2, <2>3, <2>4, <2>5 DEF InputAgrees, BlockFound
<1> QED
  BY <1>1, <1>2, <1>3 DEF RdIInv

\* A step does not concern an input, or all but one.
SameInput(g) ==
    /\ request'[g] = request[g] /\ taken'[g] = taken[g] /\ inbuf'[g] = inbuf[g]
    /\ started'[g] = started[g] /\ isdone'[g] = isdone[g] /\ fetched'[g] = fetched[g]
    /\ g \in over' <=> g \in over
    /\ shows'[g] = shows[g]
OnlyInput(f) == \A g \in Inputs \ {f} : SameInput(g) /\ ~AtBlock(g) /\ ~AtBlock(g)'

LEMMA OtherInput ==
    ASSUME NEW g \in Inputs, InputAgrees(g), SameInput(g), UNCHANGED kept, ~AtBlock(g), ~AtBlock(g)'
    PROVE  InputAgrees(g)'
<1> USE DEF SameInput, kept
<1>1. /\ ShownTo(g)' = ShownTo(g) /\ From(g)' = From(g)
      /\ Ready(g)' <=> Ready(g)
      /\ ~PastBlock(g) /\ ~PastBlock(g)' /\ (Rereads(g)' <=> Rereads(g))
      /\ Followed(g)' = Followed(g)
      /\ rdpc \notin {<<"process", g>>, <<"reinit", g>>, <<"again", g>>}
      /\ rdpc' \notin {<<"process", g>>, <<"reinit", g>>, <<"again", g>>}
  BY DEF ShownTo, From, Ready, PastBlock, AtBlock, Rereads, Followed
<1>2. BlockFound(g)'
  BY <1>1 DEF InputAgrees, BlockFound
<1>3. PlaceKept(g)'
  BY <1>1 DEF InputAgrees, PlaceKept
<1>4. ShownInOrder(g)'
  BY <1>1 DEF InputAgrees, ShownInOrder
<1>5. FlagsAgree(g)'
  BY <1>1 DEF InputAgrees, FlagsAgree
<1> QED
  BY <1>2, <1>3, <1>4, <1>5 DEF InputAgrees

LEMMA StepKeeps ==
    ASSUME RdIInv, NEW f \in Inputs, RdTypes', Opening', UNCHANGED kept, OnlyInput(f), InputAgrees(f)'
    PROVE  RdIInv'
BY OtherInput DEF RdIInv, OnlyInput

\* main goes on; what all inputs have begun stays begun.
LEMMA OpeningStays ==
    ASSUME RdIInv, NEW f \in Inputs, rdpc[1] \notin {"init", "end"}, rdpc'[1] # "init", OnlyInput(f),
           request'[f].state # "none"
    PROVE  Opening'
BY DEF RdIInv, Opening, OnlyInput, SameInput

LEMMA NextMoves ==
    ASSUME NEW f \in Inputs, NextInput(f)
    PROVE  /\ rdpc' \in {"look", "rest"} \X Inputs
           /\ \A g : ~AtBlock(g)' /\ ~PastBlock(g)' /\ rdpc' # <<"process", g>>
BY OneIsInput DEF NextInput, GoesTo, AtBlock, PastBlock

\* The request of f gets another state.
LEMMA StateMoves ==
    ASSUME RdTypes, NEW f \in Inputs, NEW st \in RequestStates, request' = [request EXCEPT ![f].state = st]
    PROVE  /\ request' \in [Inputs -> [state : RequestStates, status : Nat, offset : Nat]]
           /\ \A g \in Inputs \ {f} : request'[g] = request[g]
           /\ request'[f].state = st /\ request'[f].status = request[f].status
           /\ request'[f].offset = request[f].offset
BY DEF RdTypes

LEMMA ReadStarts ==
    ASSUME RdTypes, NEW f \in Inputs, AioRead(f)
    PROVE  /\ request' \in [Inputs -> [state : RequestStates, status : Nat, offset : Nat]]
           /\ \A g \in Inputs \ {f} : request'[g] = request[g]
           /\ request'[f].state = "progress" \/ (request'[f].state = "error" /\ rdfails)
           /\ request'[f].status = request[f].status /\ request'[f].offset = request[f].offset
<1>1. CASE request' = [request EXCEPT ![f].state = "progress"]
  BY <1>1, StateMoves DEF RequestStates
<1>2. CASE rdfails /\ request' = [request EXCEPT ![f].state = "error"]
  BY <1>2, StateMoves DEF RequestStates
<1> QED
  BY <1>1, <1>2 DEF AioRead

\* After its read has started, or has not, an input is as before but for the state.
LEMMA StartedAgrees ==
    ASSUME RdIInv, NEW f \in Inputs, AioRead(f), UNCHANGED <<kept, taken, shows>>, isdone'[f] = isdone[f],
           ~isdone[f], ~Ready(f), ~PastBlock(f)', rdpc \notin {<<"process", f>>}, ~AtBlock(f)',
           f \in over' => request'[f].state # "progress"
    PROVE  InputAgrees(f)'
<1> USE DEF kept
<1>1. /\ request'[f].state = "progress" \/ (request'[f].state = "error" /\ rdfails)
      /\ request'[f].offset = request[f].offset
  BY ReadStarts DEF RdIInv
<1>2. /\ ShownTo(f)' = ShownTo(f) /\ From(f)' = From(f) /\ ~Ready(f)'
      /\ (Rereads(f)' <=> Rereads(f)) /\ Followed(f)' = Followed(f)
  BY <1>1 DEF ShownTo, From, Ready, Rereads, Followed
<1>3. rdpc' \notin {<<"process", f>>, <<"reinit", f>>, <<"again", f>>}
  BY DEF AtBlock
<1>4. InputAgrees(f)
  BY DEF RdIInv
<1>5. BlockFound(f)'
  BY <1>2 DEF BlockFound
<1>6. PlaceKept(f)'
  BY <1>1, <1>2, <1>3, <1>4 DEF InputAgrees, PlaceKept
<1>7. ShownInOrder(f)'
  BY <1>2, <1>4 DEF InputAgrees, ShownInOrder
<1>8. FlagsAgree(f)'
  <2>1. f \in over' => rdfails
    BY <1>1
  <2> QED
    BY <1>1, <1>3, <2>1 DEF FlagsAgree, AtBlock
<1> QED
  BY <1>5, <1>6, <1>7, <1>8 DEF InputAgrees

LEMMA SameAgrees ==
    ASSUME NEW g \in Inputs, InputAgrees(g), SameInput(g), UNCHANGED <<kept, rdpc>>
    PROVE  InputAgrees(g)'
<1>1. /\ ShownTo(g)' = ShownTo(g) /\ From(g)' = From(g) /\ Followed(g)' = Followed(g)
      /\ (Ready(g)' <=> Ready(g)) /\ (Rereads(g)' <=> Rereads(g)) /\ (AtBlock(g)' <=> AtBlock(g))
  BY DEF SameInput, kept, ShownTo, From, Ready, PastBlock, AtBlock, Rereads, Followed
<1> QED
  BY <1>1 DEF SameInput, kept, InputAgrees, BlockFound, PlaceKept, ShownInOrder, FlagsAgree

\* A request that ends disturbs neither the other inputs nor main.
LEMMA CompletedStep ==
    ASSUME RdIInv, NEW f \in Inputs, RdTypes', UNCHANGED <<kept, rdpc, over, iops>>,
           \A g \in Inputs \ {f} : SameInput(g),
           request[f].state # "none", request'[f].state # "none", InputAgrees(f)'
    PROVE  RdIInv'
<1>1. Opening'
  <2>1. \A g \in Inputs : request'[g].state = "none" <=> request[g].state = "none"
    BY DEF SameInput
  <2>2. started' = started /\ rdpc' = rdpc /\ over' = over
    BY DEF iops
  <2> QED
    BY <2>1, <2>2 DEF RdIInv, Opening
<1>2. \A g \in Inputs \ {f} : InputAgrees(g)'
  BY SameAgrees DEF RdIInv
<1> QED
  BY <1>1, <1>2 DEF RdIInv

LEMMA InitKeeps ==
    ASSUME RdIInv, NEW f \in Inputs, PollInit(f) \/ SuspendInit(f)
    PROVE  RdIInv'
<1>1. rdpc = <<"init", f>>
  BY DEF PollInit, SuspendInit
<1>2. /\ over = {} /\ request[f].state = "none" /\ ~started[f] /\ ~isdone[f] /\ ~Ready(f)
      /\ RdTypes /\ f \in Nat
      /\ \A g \in Inputs : IF g < f THEN request[g].state # "none"
                           ELSE request[g].state = "none" /\ ~started[g]
  BY <1>1, OneIsInput DEF RdIInv, Opening, InputAgrees, FlagsAgree, Ready
<1>3. /\ AioRead(f) /\ UNCHANGED <<kept, taken, inbuf, isdone, fetched, over, shows>>
      /\ started' = started \/ started' = [started EXCEPT ![f] = Accepted(f)]
      /\ \/ GoesTo("end", 1)
         \/ f + 1 \in Inputs /\ GoesTo("init", f + 1)
         \/ f + 1 \notin Inputs /\ GoesTo("rest", 1)
  BY <1>2 DEF PollInit, SuspendInit, readstart, iops
<1>4. /\ request' \in [Inputs -> [state : RequestStates, status : Nat, offset : Nat]]
      /\ \A g \in Inputs \ {f} : request'[g] = request[g]
      /\ request'[f].state \in {"progress", "error"}
  BY <1>2, <1>3, ReadStarts
<1>5. rdpc' \in {"end", "init", "rest"} \X Inputs
  BY <1>3, OneIsInput DEF GoesTo
<1>6. \A g : ~AtBlock(g) /\ ~AtBlock(g)' /\ ~PastBlock(g)'
  BY <1>1, <1>5 DEF AtBlock, PastBlock
<1>7. started' \in [Inputs -> BOOLEAN] /\ \A g \in Inputs \ {f} : started'[g] = started[g]
  <2>1. Accepted(f) \in BOOLEAN
    BY DEF Accepted
  <2> QED
    BY <1>2, <1>3, <2>1 DEF RdTypes
<1>8. RdTypes'
  BY <1>2, <1>3, <1>4, <1>5, <1>7 DEF RdTypes, kept
<1>9. OnlyInput(f)
  BY <1>3, <1>4, <1>6, <1>7 DEF OnlyInput, SameInput
<1>10. Opening'
  <2>1. CASE GoesTo("end", 1)
    BY <2>1 DEF GoesTo, Opening
  <2>2. CASE f + 1 \in Inputs /\ GoesTo("init", f + 1)
    <3>1. ASSUME NEW g \in Inputs
          PROVE  IF g < f + 1 THEN request'[g].state # "none"
                 ELSE request'[g].state = "none" /\ ~started'[g]
      <4>1. g \in Nat /\ f \in Nat
        BY <1>2, OneIsInput
      <4>2. g < f + 1 <=> g < f \/ g = f
        BY <4>1
      <4>3. ASSUME g # f
            PROVE  request'[g] = request[g] /\ started'[g] = started[g]
        BY <1>4, <1>7, <4>3
      <4>4. ~(f < f)
        BY <4>1
      <4> QED
        BY <1>2, <1>4, <4>2, <4>3, <4>4
    <3> QED
      BY <1>2, <1>3, <2>2, <3>1 DEF GoesTo, Opening
  <2>3. CASE f + 1 \notin Inputs /\ GoesTo("rest", 1)
    <3>1. ASSUME NEW g \in Inputs
          PROVE  request'[g].state # "none"
      <4>1. g \in Nat /\ f \in Nat
        BY <1>2, OneIsInput
      <4>2. g <= f
        <5>1. g > f => f + 1 \in 1 .. g
          BY <4>1
        <5> QED
          BY <2>3, <4>1, <5>1, ReadsAssumption
      <4> QED
        BY <1>2, <1>4, <4>1, <4>2
    <3> QED
      BY <2>3, <3>1 DEF GoesTo, Opening
  <2> QED
    BY <1>3, <2>1, <2>2, <2>3
<1>11. InputAgrees(f)'
  BY <1>1, <1>2, <1>3, <1>6, StartedAgrees
<1> QED
  BY <1>3, <1>8, <1>9, <1>10, <1>11, StepKeeps

\* A read ends: with the next bytes, with none at the end of the input, or with an error.
LEMMA CompletesKeeps ==
    ASSUME RdIInv, NEW f \in Inputs, Completes(f)
    PROVE  RdIInv'
<1> DEFINE from == IF f \in regular THEN request[f].offset ELSE taken[f]
<1>1. /\ RdTypes /\ InputAgrees(f) /\ request[f].state = "progress"
      /\ UNCHANGED <<kept, rdpc, iops, over, shows>>
  BY DEF RdIInv, Completes
<1>2. /\ ~AtBlock(f) /\ f \notin over /\ ~isdone[f] /\ ~Ready(f)
  BY <1>1 DEF InputAgrees, FlagsAgree, Ready
<1>3. rdpc \notin {<<"process", f>>, <<"reinit", f>>, <<"again", f>>} /\ ~PastBlock(f)
  BY <1>2 DEF AtBlock, PastBlock
<1>4. from = From(f) /\ from \in Nat
  <2>1. PlaceKept(f) /\ ShownTo(f) \in 0 .. InputSize
    BY <1>1 DEF InputAgrees, ShownInOrder
  <2>2. From(f) \in Nat
    BY <2>1 DEF From
  <2>3. rdpc # <<"process", f>>
    BY <1>3
  <2>4. CASE f \in regular
    BY <2>1, <2>2, <2>3, <2>4 DEF PlaceKept
  <2>5. CASE f \notin regular
    BY <1>2, <2>1, <2>2, <2>5 DEF PlaceKept
  <2> QED
    BY <2>2, <2>4, <2>5
<1>5. /\ ShownTo(f)' = ShownTo(f) /\ From(f)' = From(f) /\ ~PastBlock(f)' /\ ~AtBlock(f)'
      /\ (Rereads(f)' <=> Rereads(f)) /\ Followed(f)' = Followed(f)
  BY <1>1, <1>2, <1>3 DEF kept, ShownTo, From, Rereads, Followed, PastBlock, AtBlock
<1>6. ShownInOrder(f)'
  BY <1>1, <1>5 DEF InputAgrees, ShownInOrder
<1> HIDE DEF from
<1>7. CASE \E n \in 0 .. ReadBlock :
             /\ from + n <= InputSize /\ (n = 0 => from = InputSize)
             /\ request' = [request EXCEPT ![f].state = "ok", ![f].status = n]
             /\ taken' = [taken EXCEPT ![f] = IF f \in regular THEN @ ELSE @ + n]
             /\ inbuf' = [inbuf EXCEPT ![f] = IF n = 0 THEN @ ELSE <<from + 1, from + n>>]
  <2>1. PICK n \in 0 .. ReadBlock :
             /\ from + n <= InputSize /\ (n = 0 => from = InputSize)
             /\ request' = [request EXCEPT ![f].state = "ok", ![f].status = n]
             /\ taken' = [taken EXCEPT ![f] = IF f \in regular THEN @ ELSE @ + n]
             /\ inbuf' = [inbuf EXCEPT ![f] = IF n = 0 THEN @ ELSE <<from + 1, from + n>>]
    BY <1>7
  <2>2. n \in Nat
    BY ReadsAssumption
  <2>3. /\ request' \in [Inputs -> [state : RequestStates, status : Nat, offset : Nat]]
        /\ \A g \in Inputs \ {f} : request'[g] = request[g]
        /\ request'[f].state = "ok" /\ request'[f].status = n /\ request'[f].offset = request[f].offset
    BY <1>1, <2>1, <2>2 DEF RdTypes, RequestStates
  <2>4. /\ taken' \in [Inputs -> Nat]
        /\ \A g \in Inputs \ {f} : taken'[g] = taken[g]
        /\ taken'[f] = IF f \in regular THEN taken[f] ELSE taken[f] + n
    BY <1>1, <2>1, <2>2 DEF RdTypes
  <2>5. <<from + 1, from + n>> \in Nat \X Nat
    BY <1>4, <2>2
  <2>6. /\ inbuf' \in [Inputs -> Nat \X Nat]
        /\ \A g \in Inputs \ {f} : inbuf'[g] = inbuf[g]
        /\ n > 0 => inbuf'[f] = <<from + 1, from + n>>
    BY <1>1, <2>1, <2>2, <2>5 DEF RdTypes
  <2>7. RdTypes'
    BY <1>1, <2>3, <2>4, <2>6 DEF RdTypes, kept, iops
  <2>8. \A g \in Inputs \ {f} : SameInput(g)
    BY <1>1, <2>3, <2>4, <2>6 DEF SameInput, iops
  <2>9. Ready(f)'
    BY <1>5, <2>3 DEF Ready
  <2>10. BlockFound(f)'
    BY <1>4, <1>5, <2>1, <2>2, <2>3, <2>6 DEF BlockFound
  <2>11. PlaceKept(f)'
    <3>1. regular' = regular /\ rdpc' # <<"process", f>>
      BY <1>1, <1>3 DEF kept
    <3>2. CASE f \in regular
      BY <1>1, <1>3, <1>5, <2>3, <3>1, <3>2 DEF InputAgrees, PlaceKept
    <3>3. CASE f \notin regular
      <4>1. taken[f] = from
        BY <3>3 DEF from
      <4>2. taken'[f] = From(f)' + n
        BY <1>4, <1>5, <2>4, <3>3, <4>1
      <4> QED
        BY <2>3, <2>9, <3>1, <3>3, <4>2 DEF PlaceKept
    <3> QED
      BY <3>2, <3>3
  <2>12. FlagsAgree(f)'
    BY <1>1, <1>2, <1>3, <1>5, <2>3 DEF FlagsAgree, kept, iops
  <2> QED
    BY <1>6, <2>7, <2>8, <2>3, <2>10, <2>11, <2>12, <1>1, <1>2, CompletedStep DEF InputAgrees
<1>8. CASE rdfails /\ request' = [request EXCEPT ![f].state = "error"] /\ UNCHANGED <<taken, inbuf>>
  <2>1. /\ request' \in [Inputs -> [state : RequestStates, status : Nat, offset : Nat]]
        /\ \A g \in Inputs \ {f} : request'[g] = request[g]
        /\ request'[f].state = "error" /\ request'[f].offset = request[f].offset
    BY <1>1, <1>8, StateMoves DEF RequestStates
  <2>2. RdTypes'
    BY <1>1, <1>8, <2>1 DEF RdTypes, kept, iops
  <2>3. \A g \in Inputs \ {f} : SameInput(g)
    BY <1>1, <1>8, <2>1 DEF SameInput, iops
  <2>4. BlockFound(f)'
    BY <2>1 DEF BlockFound, Ready
  <2>5. PlaceKept(f)'
    BY <1>1, <1>2, <1>3, <1>5, <1>8, <2>1 DEF InputAgrees, PlaceKept, Ready, kept
  <2>6. FlagsAgree(f)'
    BY <1>1, <1>2, <1>3, <1>5, <1>8, <2>1 DEF FlagsAgree, kept, iops
  <2> QED
    BY <1>6, <2>2, <2>3, <2>1, <2>4, <2>5, <2>6, <1>1, CompletedStep DEF InputAgrees
<1> QED
  BY <1>7, <1>8 DEF Completes, from

\* main goes on to another input, or rests.
LEMMA QuietKeeps ==
    ASSUME RdIInv, UNCHANGED <<kept, request, taken, inbuf, iops, over, shows>>,
           rdpc[1] \in {"look", "rest"}, rdpc' \in {"look", "rest", "end"} \X Inputs
    PROVE  RdIInv'
<1>1. PICK f \in Inputs : TRUE
  BY OneIsInput
<1>2. \A g : ~AtBlock(g) /\ ~AtBlock(g)'
  BY DEF AtBlock
<1>3. \A g : SameInput(g)
  BY DEF SameInput, iops
<1>4. RdTypes' /\ Opening'
  BY DEF RdIInv, RdTypes, Opening, kept, iops
<1> QED
  BY <1>2, <1>3, <1>4, OtherInput DEF RdIInv

\* The pass over the inputs has come to f, which is not over.
LEMMA Looks ==
    ASSUME RdIInv, NEW f \in Inputs, rdpc = <<"look", f>>, f \notin over
    PROVE  /\ RdTypes /\ InputAgrees(f) /\ ~isdone[f] /\ request[f].state # "none"
           /\ ~AtBlock(f) /\ ~PastBlock(f)
BY DEF RdIInv, Opening, InputAgrees, FlagsAgree, AtBlock, PastBlock

\* Nothing more comes of f: its place and what is shown stay, and without a failure all
\* is shown.
LEMMA GivenUpAgrees ==
    ASSUME RdIInv, NEW f \in Inputs, rdpc = <<"look", f>>, f \notin over,
           UNCHANGED <<kept, taken, inbuf, shows>>,
           request'[f].state = request[f].state /\ request'[f].status = request[f].status,
           request'[f].offset = request[f].offset,
           ~AtBlock(f)',
           f \in over' => request[f].state = "error" \/ (request[f].state = "ok" /\ request[f].status = 0),
           isdone'[f] => request[f].state = "ok" /\ rdkind = "poll" /\ f \in over'
    PROVE  InputAgrees(f)'
<1> USE DEF kept
<1>1. /\ InputAgrees(f) /\ ~PastBlock(f) /\ ~PastBlock(f)'
      /\ rdpc' \notin {<<"process", f>>, <<"reinit", f>>, <<"again", f>>}
  BY Looks DEF AtBlock, PastBlock
<1>2. /\ ShownTo(f)' = ShownTo(f) /\ From(f)' = From(f)
      /\ (Ready(f)' <=> Ready(f)) /\ (Rereads(f)' <=> Rereads(f)) /\ Followed(f)' = Followed(f)
  BY <1>1 DEF ShownTo, From, Ready, Rereads, Followed
<1>3. BlockFound(f)'
  BY <1>1, <1>2 DEF InputAgrees, BlockFound
<1>4. PlaceKept(f)'
  BY <1>1, <1>2 DEF InputAgrees, PlaceKept
<1>5. ShownInOrder(f)'
  BY <1>1, <1>2 DEF InputAgrees, ShownInOrder
<1>6. FlagsAgree(f)'
  <2>1. request[f].state = "ok" /\ request[f].status = 0 => ShownTo(f) = InputSize
    BY <1>1, ReadsAssumption DEF InputAgrees, BlockFound, Ready, ShownInOrder, From
  <2> QED
    BY <1>1, <1>2, <2>1 DEF InputAgrees, FlagsAgree, AtBlock
<1> QED
  BY <1>3, <1>4, <1>5, <1>6 DEF InputAgrees

\* A block of f is found.
LEMMA FoundAgrees ==
    ASSUME RdIInv, NEW f \in Inputs, rdpc = <<"look", f>>, f \notin over,
           UNCHANGED <<kept, taken, inbuf, shows, over>>, rdpc' = <<"process", f>>,
           request[f].state = "ok", request[f].status > 0,
           request'[f].state = "ok" /\ request'[f].status = request[f].status,
           request'[f].offset = request[f].offset + (IF rdkind = "poll" THEN request[f].status ELSE 0),
           isdone'[f] => rdkind = "poll"
    PROVE  InputAgrees(f)'
<1> USE DEF kept
<1>1. InputAgrees(f) /\ ~PastBlock(f) /\ ~PastBlock(f)' /\ RdTypes
  BY Looks DEF PastBlock
<1>2. /\ ShownTo(f)' = ShownTo(f) /\ From(f)' = From(f)
      /\ Ready(f) /\ Ready(f)' /\ (Rereads(f)' <=> Rereads(f)) /\ Followed(f)' = Followed(f)
  BY <1>1 DEF ShownTo, From, Ready, Rereads, Followed
<1>3. BlockFound(f)'
  BY <1>1, <1>2 DEF InputAgrees, BlockFound
<1>4. PlaceKept(f)'
  <2>1. From(f) \in Nat /\ request[f].status \in Nat
    BY <1>1, ReadsAssumption DEF InputAgrees, ShownInOrder, From, RdTypes
  <2> QED
    BY <1>1, <1>2, <2>1 DEF InputAgrees, PlaceKept
<1>5. ShownInOrder(f)'
  BY <1>1, <1>2 DEF InputAgrees, ShownInOrder
<1>6. FlagsAgree(f)'
  BY DEF FlagsAgree, AtBlock
<1> QED
  BY <1>3, <1>4, <1>5, <1>6 DEF InputAgrees

LEMMA PollLookKeeps ==
    ASSUME RdIInv, NEW f \in Inputs, PollLook(f)
    PROVE  RdIInv'
<1>1. /\ rdkind = "poll" /\ rdpc = <<"look", f>> /\ f \notin over
      /\ UNCHANGED <<kept, taken, inbuf, shows>>
  BY DEF PollLook
<1>2. /\ RdTypes /\ InputAgrees(f) /\ ~isdone[f] /\ request[f].state # "none" /\ ~AtBlock(f)
  BY <1>1, Looks
<1>3. /\ Finished(f) <=> request[f].state = "ok"
      /\ Got(f) = request[f].status
  BY <1>2 DEF Finished, Got
<1>4. request[f].status \in Nat /\ request[f].offset \in Nat
  BY <1>2 DEF RdTypes
<1>5. \A g \in Inputs \ {f} : ~AtBlock(g)
  BY <1>1 DEF AtBlock
<1>6. CASE request[f].state = "ok"
  <2>1. /\ fetched' = [fetched EXCEPT ![f] = request[f].status]
        /\ isdone' = [isdone EXCEPT ![f] = TRUE]
        /\ request' = [request EXCEPT ![f].offset = @ + request[f].status]
        /\ started' = started
    BY <1>2, <1>6 DEF PollLook, readcheck
  <2>2. /\ request' \in [Inputs -> [state : RequestStates, status : Nat, offset : Nat]]
        /\ \A g \in Inputs \ {f} : request'[g] = request[g]
        /\ request'[f].state = "ok" /\ request'[f].status = request[f].status
        /\ request'[f].offset = request[f].offset + request[f].status
    <3> DEFINE new == [request[f] EXCEPT !.offset = @ + request[f].status]
    <3>1. request[f] \in [state : RequestStates, status : Nat, offset : Nat]
      BY <1>2 DEF RdTypes
    <3>2. /\ new \in [state : RequestStates, status : Nat, offset : Nat]
          /\ new.state = request[f].state /\ new.status = request[f].status
          /\ new.offset = request[f].offset + request[f].status
      BY <1>4, <3>1
    <3>3. request' = [request EXCEPT ![f] = new]
      BY <2>1
    <3> HIDE DEF new
    <3> QED
      BY <1>2, <1>6, <3>2, <3>3 DEF RdTypes
  <2>3. /\ fetched' \in [Inputs -> Nat] /\ isdone' \in [Inputs -> BOOLEAN] /\ isdone'[f]
        /\ \A g \in Inputs \ {f} : fetched'[g] = fetched[g] /\ isdone'[g] = isdone[g]
    BY <1>2, <1>4, <2>1 DEF RdTypes
  <2>4. CASE request[f].status > 0
    <3>1. GoesTo("process", f) /\ over' = over
      BY <1>3, <1>6, <2>4 DEF PollLook
    <3>2. rdpc' = <<"process", f>> /\ \A g \in Inputs \ {f} : ~AtBlock(g)'
      BY <3>1 DEF GoesTo, AtBlock
    <3>3. RdTypes'
      BY <1>1, <1>2, <2>1, <2>2, <2>3, <3>1, <3>2 DEF RdTypes, kept
    <3>4. OnlyInput(f)
      BY <1>1, <1>5, <2>1, <2>2, <2>3, <3>1, <3>2 DEF OnlyInput, SameInput
    <3>5. Opening'
      BY <1>1, <2>2, <3>2, <3>4, OpeningStays
    <3>6. InputAgrees(f)'
      BY <1>1, <1>6, <2>2, <2>3, <2>4, <3>1, <3>2, FoundAgrees
    <3> QED
      BY <1>1, <3>3, <3>4, <3>5, <3>6, StepKeeps
  <2>5. CASE request[f].status = 0
    <3>1. NextInput(f) /\ over' = over \cup {f}
      BY <1>3, <1>6, <2>5 DEF PollLook
    <3>2. rdpc' \in {"look", "rest"} \X Inputs /\ \A g : ~AtBlock(g)'
      BY <3>1, NextMoves
    <3>3. RdTypes'
      BY <1>1, <1>2, <2>1, <2>2, <2>3, <3>1, <3>2 DEF RdTypes, kept
    <3>4. OnlyInput(f)
      BY <1>1, <1>5, <2>1, <2>2, <2>3, <3>1, <3>2 DEF OnlyInput, SameInput
    <3>5. Opening'
      BY <1>1, <2>2, <3>2, <3>4, OpeningStays
    <3>6. request'[f].offset = request[f].offset
      BY <1>4, <2>2, <2>5
    <3>7. InputAgrees(f)'
      BY <1>1, <1>6, <2>2, <2>3, <2>5, <3>1, <3>2, <3>6, GivenUpAgrees
    <3> QED
      BY <1>1, <3>3, <3>4, <3>5, <3>7, StepKeeps
  <2> QED
    BY <1>4, <2>4, <2>5
<1>7. CASE request[f].state # "ok"
  <2>1. UNCHANGED <<iops, request>>
    BY <1>2, <1>7 DEF PollLook, readcheck
  <2>2. /\ NextInput(f)
        /\ over' = over \cup IF request[f].state = "error" THEN {f} ELSE {}
    BY <1>3, <1>7 DEF PollLook
  <2>3. rdpc' \in {"look", "rest"} \X Inputs /\ \A g : ~AtBlock(g)'
    BY <2>2, NextMoves
  <2>4. RdTypes'
    BY <1>1, <1>2, <2>1, <2>2, <2>3 DEF RdTypes, kept, iops
  <2>5. OnlyInput(f)
    BY <1>1, <1>5, <2>1, <2>2, <2>3 DEF OnlyInput, SameInput, iops
  <2>6. Opening'
    BY <1>1, <1>2, <2>1, <2>3, <2>5, OpeningStays
  <2>7. InputAgrees(f)'
    BY <1>1, <1>2, <2>1, <2>2, <2>3, GivenUpAgrees DEF iops
  <2> QED
    BY <1>1, <2>4, <2>5, <2>6, <2>7, StepKeeps
<1> QED
  BY <1>6, <1>7

LEMMA SuspendLookKeeps ==
    ASSUME RdIInv, NEW f \in Inputs, SuspendLook(f)
    PROVE  RdIInv'
<1>1. /\ rdkind = "suspend" /\ rdpc = <<"look", f>> /\ f \notin over
      /\ UNCHANGED <<kept, request, taken, inbuf, iops, shows>>
  BY DEF SuspendLook
<1>2. /\ RdTypes /\ InputAgrees(f) /\ ~isdone[f] /\ request[f].state # "none" /\ ~AtBlock(f)
      /\ request[f].status \in Nat /\ request[f].offset \in Nat /\ request[f].state \in RequestStates
  BY <1>1, Looks DEF RdTypes
<1>3. \A g \in Inputs \ {f} : ~AtBlock(g)
  BY <1>1 DEF AtBlock
<1>4. CASE request[f].state = "ok" /\ request[f].status > 0
  <2>1. GoesTo("process", f) /\ over' = over
    BY <1>4 DEF SuspendLook
  <2>2. rdpc' = <<"process", f>> /\ \A g \in Inputs \ {f} : ~AtBlock(g)'
    BY <2>1 DEF GoesTo, AtBlock
  <2>3. RdTypes'
    BY <1>1, <1>2, <2>1, <2>2 DEF RdTypes, kept, iops
  <2>4. OnlyInput(f)
    BY <1>1, <1>3, <2>1, <2>2 DEF OnlyInput, SameInput, iops
  <2>5. Opening'
    BY <1>1, <1>2, <2>2, <2>4, OpeningStays
  <2>6. InputAgrees(f)'
    BY <1>1, <1>2, <1>4, <2>1, <2>2, FoundAgrees DEF iops
  <2> QED
    BY <1>1, <2>3, <2>4, <2>5, <2>6, StepKeeps
<1>5. CASE ~(request[f].state = "ok" /\ request[f].status > 0)
  <2>1. /\ NextInput(f)
        /\ over' = over \cup IF request[f].state = "progress" THEN {} ELSE {f}
    BY <1>5 DEF SuspendLook
  <2>2. rdpc' \in {"look", "rest"} \X Inputs /\ \A g : ~AtBlock(g)'
    BY <2>1, NextMoves
  <2>3. RdTypes'
    BY <1>1, <1>2, <2>1, <2>2 DEF RdTypes, kept, iops
  <2>4. OnlyInput(f)
    BY <1>1, <1>3, <2>1, <2>2 DEF OnlyInput, SameInput, iops
  <2>5. Opening'
    BY <1>1, <1>2, <2>2, <2>4, OpeningStays
  <2>6. f \in over' => request[f].state = "error" \/ (request[f].state = "ok" /\ request[f].status = 0)
    BY <1>1, <1>2, <1>5, <2>1 DEF RequestStates
  <2>7. InputAgrees(f)'
    BY <1>1, <1>2, <2>2, <2>6, GivenUpAgrees DEF iops
  <2> QED
    BY <1>1, <2>3, <2>4, <2>5, <2>7, StepKeeps
<1> QED
  BY <1>4, <1>5

\* A block is shown behind those before it.
LEMMA ShowKeeps ==
    ASSUME RdIInv, NEW f \in Inputs, processbuffer(f)
    PROVE  RdIInv'
<1> DEFINE n == Len(shows[f])
           last == From(f) + request[f].status
<1>1. /\ rdpc = <<"process", f>> /\ RdTypes /\ InputAgrees(f)
      /\ UNCHANGED <<kept, request, taken, inbuf, iops, over>>
      /\ shows' = [shows EXCEPT ![f] = Append(@, inbuf[f])]
      /\ rdpc' = <<IF rdkind = "poll" THEN "reinit" ELSE "again", f>>
  BY DEF RdIInv, processbuffer, GoesTo
<1>2. /\ rdpc' \in {<<"reinit", f>>, <<"again", f>>} /\ AtBlock(f) /\ AtBlock(f)' /\ PastBlock(f)'
      /\ \A g \in Inputs \ {f} : ~AtBlock(g) /\ ~AtBlock(g)'
      /\ rdkind = "poll" => rdpc' # <<"again", f>>
      /\ rdpc' # <<"process", f>>
  BY <1>1 DEF AtBlock, PastBlock
<1>3. /\ request[f].state = "ok" /\ request[f].status > 0 /\ f \notin over
      /\ isdone[f] => rdkind = "poll"
  BY <1>1, <1>2 DEF InputAgrees, FlagsAgree
<1>4. Ready(f) /\ ~Ready(f)'
  BY <1>1, <1>2, <1>3 DEF Ready, PastBlock
<1>5. /\ From(f) \in Nat /\ request[f].status \in Nat
      /\ inbuf[f] = <<From(f) + 1, last>> /\ last \in 0 .. InputSize
  BY <1>1, <1>3, <1>4, ReadsAssumption DEF InputAgrees, ShownInOrder, BlockFound, From, RdTypes
<1>6. /\ n \in Nat /\ shows[f] \in Seq(Nat \X Nat) /\ shows'[f] = Append(shows[f], inbuf[f])
      /\ shows' \in [Inputs -> Seq(Nat \X Nat)]
      /\ \A g \in Inputs \ {f} : shows'[g] = shows[g]
  BY <1>1 DEF RdTypes
<1>7. /\ Len(shows'[f]) = n + 1 /\ shows'[f][n + 1] = inbuf[f] /\ shows'[f] # <<>>
      /\ \A k \in 1 .. n : shows'[f][k] = shows[f][k]
  <2>1. inbuf[f] \in Nat \X Nat
    BY <1>1 DEF RdTypes
  <2> DEFINE Texts == Nat \X Nat
             s == shows[f]
             e == inbuf[f]
  <2>2. s \in Seq(Texts) /\ e \in Texts
    BY <1>6, <2>1
  <2>3. n = Len(s) /\ shows'[f] = Append(s, e)
    BY <1>6
  <2> HIDE DEF Texts, s, e, n
  <2>4. /\ Append(s, e) # <<>> /\ Len(Append(s, e)) = n + 1 /\ Append(s, e)[n + 1] = e
        /\ \A k \in 1 .. n : Append(s, e)[k] = s[k]
    BY <2>2, <2>3, AppendProperties
  <2> QED
    BY <2>3, <2>4 DEF s, e
<1> HIDE DEF n
<1>8. ShownTo(f)' = last
  <2>1. ShownTo(f)' = shows'[f][Len(shows'[f])][2]
    BY <1>7 DEF ShownTo
  <2>2. inbuf[f][2] = last
    BY <1>5
  <2> QED
    BY <1>7, <2>1, <2>2
<1>9. Rereads(f)' <=> Rereads(f)
  BY <1>1 DEF Rereads, kept
<1>10. From(f)' = IF Rereads(f) THEN 0 ELSE last
  BY <1>8, <1>9 DEF From
<1> HIDE DEF last
<1>11. PlaceKept(f)'
  <2>1. regular' = regular /\ request' = request /\ taken' = taken /\ rdkind' = rdkind
    BY <1>1 DEF kept
  <2>2. CASE f \in regular /\ rdkind = "poll"
    <3>1. request[f].offset = last /\ ~Rereads(f)
      BY <1>1, <2>2 DEF InputAgrees, PlaceKept, last, Rereads
    <3> QED
      BY <1>2, <1>5, <1>10, <2>1, <2>2, <3>1 DEF PlaceKept
  <2>3. CASE f \in regular /\ rdkind # "poll"
    <3>1. Rereads(f) /\ request[f].offset = 0
      BY <1>1, <2>3 DEF InputAgrees, PlaceKept, Rereads, RdTypes, From
    <3> QED
      BY <1>2, <1>10, <2>1, <2>3, <3>1 DEF PlaceKept
  <2>4. CASE f \notin regular
    <3>1. taken[f] = last /\ ~Rereads(f)
      BY <1>1, <1>4, <2>4 DEF InputAgrees, PlaceKept, last, Rereads
    <3> QED
      BY <1>4, <1>5, <1>10, <2>1, <2>4, <3>1 DEF PlaceKept
  <2> QED
    BY <2>2, <2>3, <2>4
<1>12. ShownInOrder(f)'
  <2>1. ASSUME NEW k \in 1 .. n
        PROVE  shows'[f][k][1] = 1 + (IF Rereads(f) THEN 0 ELSE Followed(f)'[k])
    <3>1. Followed(f)'[k] = Followed(f)[k]
      <4>1. k \in 1 .. (n + 1) /\ (k # 1 => k - 1 \in 1 .. n)
        BY <1>6
      <4> QED
        BY <1>7, <4>1 DEF Followed, n
    <3> QED
      BY <1>1, <1>7, <3>1 DEF InputAgrees, ShownInOrder, n
  <2>2. shows'[f][n + 1][1] = 1 + (IF Rereads(f) THEN 0 ELSE Followed(f)'[n + 1])
    <3>1. shows'[f][n + 1][1] = From(f) + 1
      BY <1>5, <1>7
    <3>2. Followed(f)'[n + 1] = ShownTo(f)
      <4>1. n + 1 \in 1 .. (n + 1) /\ (n # 0 => n \in 1 .. n) /\ (n = 0 <=> shows[f] = <<>>)
        BY <1>6 DEF n
      <4>2. Followed(f)'[n + 1] = IF n + 1 = 1 THEN 0 ELSE shows'[f][n + 1 - 1][2]
        BY <1>7, <4>1 DEF Followed
      <4>3. n + 1 - 1 = n /\ (n + 1 = 1 <=> n = 0)
        BY <1>6
      <4> QED
        BY <1>7, <4>1, <4>2, <4>3 DEF ShownTo, n
    <3> QED
      BY <1>5, <3>1, <3>2 DEF From
  <2>3. \A k \in 1 .. (n + 1) : k \in 1 .. n \/ k = n + 1
    BY <1>6
  <2> QED
    BY <1>1, <1>5, <1>7, <1>8, <1>9, <2>1, <2>2, <2>3 DEF ShownInOrder, kept
<1>13. FlagsAgree(f)'
  BY <1>1, <1>2, <1>3 DEF FlagsAgree, kept, iops, InputAgrees
<1>14. RdTypes'
  BY <1>1, <1>2, <1>6 DEF RdTypes, kept, iops
<1>15. OnlyInput(f)
  BY <1>1, <1>2, <1>6 DEF OnlyInput, SameInput, iops
<1>16. Opening'
  BY <1>1, <1>3, <1>15, OpeningStays
<1>17. InputAgrees(f)'
  BY <1>4, <1>11, <1>12, <1>13 DEF InputAgrees, BlockFound
<1> QED
  BY <1>1, <1>14, <1>15, <1>16, <1>17, StepKeeps

LEMMA ReinitKeeps ==
    ASSUME RdIInv, NEW f \in Inputs, Reinit(f)
    PROVE  RdIInv'
<1>1. /\ rdpc = <<"reinit", f>> /\ rdpc' = <<"again", f>> /\ RdTypes /\ InputAgrees(f)
      /\ UNCHANGED <<kept, request, taken, inbuf, over, shows>>
      /\ started' = [started EXCEPT ![f] = FALSE]
      /\ isdone' = [isdone EXCEPT ![f] = FALSE]
      /\ fetched' = [fetched EXCEPT ![f] = 0]
  BY DEF RdIInv, Reinit, reinit, GoesTo
<1>2. /\ AtBlock(f) /\ AtBlock(f)' /\ PastBlock(f) /\ PastBlock(f)'
      /\ \A g \in Inputs \ {f} : ~AtBlock(g) /\ ~AtBlock(g)'
  BY <1>1 DEF AtBlock, PastBlock
<1>3. /\ started' \in [Inputs -> BOOLEAN] /\ isdone' \in [Inputs -> BOOLEAN] /\ fetched' \in [Inputs -> Nat]
      /\ ~started'[f] /\ ~isdone'[f]
      /\ \A g \in Inputs \ {f} : /\ started'[g] = started[g] /\ isdone'[g] = isdone[g]
                                 /\ fetched'[g] = fetched[g]
  BY <1>1 DEF RdTypes
<1>4. /\ ShownTo(f)' = ShownTo(f) /\ From(f)' = From(f) /\ Followed(f)' = Followed(f)
      /\ ~Ready(f) /\ ~Ready(f)' /\ (Rereads(f)' <=> Rereads(f))
  BY <1>1, <1>2 DEF ShownTo, From, Ready, Rereads, Followed, kept
<1>5. BlockFound(f)' /\ PlaceKept(f)'
  BY <1>1, <1>4 DEF InputAgrees, BlockFound, PlaceKept, kept
<1>6. ShownInOrder(f)'
  BY <1>1, <1>4 DEF InputAgrees, ShownInOrder
<1>7. FlagsAgree(f)'
  BY <1>1, <1>2, <1>3 DEF InputAgrees, FlagsAgree, kept
<1>8. RdTypes'
  BY <1>1, <1>3 DEF RdTypes, kept
<1>9. OnlyInput(f)
  BY <1>1, <1>2, <1>3 DEF OnlyInput, SameInput
<1>10. Opening'
  BY <1>1, <1>2, <1>9, OpeningStays DEF InputAgrees, FlagsAgree
<1>11. InputAgrees(f)'
  BY <1>5, <1>6, <1>7 DEF InputAgrees
<1> QED
  BY <1>1, <1>8, <1>9, <1>10, <1>11, StepKeeps

\* The next read of f starts, or f is over.
LEMMA AgainKeeps ==
    ASSUME RdIInv, NEW f \in Inputs, PollAgain(f) \/ SuspendAgain(f)
    PROVE  RdIInv'
<1>1. rdpc = <<"again", f>> /\ NextInput(f) /\ UNCHANGED <<kept, taken, inbuf, shows>>
  BY DEF PollAgain, SuspendAgain
<1>2. /\ RdTypes /\ AtBlock(f) /\ PastBlock(f) /\ f \notin over /\ ~isdone[f] /\ ~Ready(f)
      /\ rdkind = "poll" => ~started[f]
  BY <1>1 DEF RdIInv, InputAgrees, FlagsAgree, AtBlock, PastBlock, Ready
<1>3. /\ AioRead(f) /\ UNCHANGED <<isdone, fetched>>
      /\ started' = started \/ started' = [started EXCEPT ![f] = Accepted(f)]
      /\ over' = over \cup IF Accepted(f) THEN {} ELSE {f}
  <2>1. CASE PollAgain(f)
    <3>1. AioRead(f) /\ UNCHANGED <<isdone, fetched>> /\ started' = [started EXCEPT ![f] = Accepted(f)]
      BY <1>2, <2>1 DEF PollAgain, readstart
    <3>2. Began(f) <=> Accepted(f)
      BY <1>2, <2>1, <3>1 DEF PollAgain, Began, RdTypes
    <3> QED
      BY <2>1, <3>1, <3>2 DEF PollAgain
  <2>2. CASE SuspendAgain(f)
    BY <2>2 DEF SuspendAgain, iops
  <2> QED
    BY <2>1, <2>2
<1>4. /\ request' \in [Inputs -> [state : RequestStates, status : Nat, offset : Nat]]
      /\ \A g \in Inputs \ {f} : request'[g] = request[g]
      /\ request'[f].state \in {"progress", "error"}
  BY <1>2, <1>3, ReadStarts
<1>5. started' \in [Inputs -> BOOLEAN] /\ \A g \in Inputs \ {f} : started'[g] = started[g]
  <2>1. Accepted(f) \in BOOLEAN
    BY DEF Accepted
  <2> QED
    BY <1>2, <1>3, <2>1 DEF RdTypes
<1>6. rdpc' \in {"look", "rest"} \X Inputs /\ \A g : ~AtBlock(g)' /\ ~PastBlock(g)'
  BY <1>1, NextMoves
<1>7. \A g \in Inputs \ {f} : ~AtBlock(g)
  BY <1>1 DEF AtBlock
<1>8. RdTypes'
  BY <1>1, <1>2, <1>3, <1>4, <1>5, <1>6 DEF RdTypes, kept
<1>9. OnlyInput(f)
  BY <1>1, <1>3, <1>4, <1>5, <1>6, <1>7 DEF OnlyInput, SameInput
<1>10. Opening'
  BY <1>1, <1>4, <1>6, <1>9, OpeningStays
<1>11. f \in over' => request'[f].state # "progress"
  BY <1>2, <1>3 DEF Accepted
<1>12. InputAgrees(f)'
  BY <1>1, <1>2, <1>3, <1>6, <1>11, StartedAgrees
<1> QED
  BY <1>1, <1>8, <1>9, <1>10, <1>12, StepKeeps

LEMMA RdNextIInv == RdIInv /\ [ReadsNext]_rdvars => RdIInv'
<1> SUFFICES ASSUME RdIInv, [ReadsNext]_rdvars PROVE RdIInv'
  OBVIOUS
<1>1. CASE UNCHANGED rdvars
  <2>1. RdTypes' /\ Opening'
    BY <1>1 DEF rdvars, iops, RdIInv, RdTypes, Opening
  <2>2. \A g : SameInput(g)
    BY <1>1 DEF rdvars, iops, SameInput
  <2>3. UNCHANGED <<kept, rdpc>>
    BY <1>1 DEF rdvars, kept
  <2> QED
    BY <2>1, <2>2, <2>3, SameAgrees DEF RdIInv
<1>2. CASE dowork \/ suspenduntilready
  <2>1. UNCHANGED <<kept, request, taken, inbuf, iops, over, shows>> /\ rdpc[1] \in {"look", "rest"}
    BY <1>2 DEF dowork, suspenduntilready
  <2>2. rdpc' \in {"look", "rest", "end"} \X Inputs
    BY <1>2, OneIsInput DEF dowork, suspenduntilready, GoesTo
  <2> QED
    BY <2>1, <2>2, QuietKeeps
<1>3. ASSUME NEW f \in Inputs, Pass(f)
      PROVE  RdIInv'
  <2>1. UNCHANGED <<kept, request, taken, inbuf, iops, over, shows>> /\ rdpc[1] = "look" /\ NextInput(f)
    BY <1>3 DEF Pass
  <2>2. rdpc' \in {"look", "rest", "end"} \X Inputs
    BY <2>1, NextMoves
  <2> QED
    BY <2>1, <2>2, QuietKeeps
<1>4. ASSUME NEW f \in Inputs, InputStep(f)
      PROVE  RdIInv'
  BY <1>3, <1>4, InitKeeps, PollLookKeeps, SuspendLookKeeps, ShowKeeps, ReinitKeeps, AgainKeeps DEF InputStep
<1> QED
  BY <1>1, <1>2, <1>4, CompletesKeeps DEF ReadsNext, ReadsMain

\* asyncpollmain and asyncmonitorsuspend: every input is shown in its order up to its end,
\* but for the regular files of the latter, for any number of inputs, any size and
\* block, whenever the reads end.
THEOREM AioInputsShown == ReadsSpec => []InputsShown
<1>1. RdIInv => InputsShown
  BY DEF RdIInv, Opening, InputAgrees, ShownInOrder, FlagsAgree, InputsShown
<1> QED
  BY <1>1, RdInitIInv, RdNextIInv, PTL DEF ReadsSpec

\* What chapter08 copies or shows by asynchronous reads is the whole input, counted once,
\* with signals or without.
THEOREM AioCopiesExact == AsyncSpec /\ ReadsSpec => []CopiesExact
BY AioTotalsExact, AioInputsShown, PTL DEF CopiesExact

-----------------------------------------------------------------------------
(* Shells.                                                                 *)

CommandStates == {"forked", "grouped", "running", "zombie", "reaped"}
Commands == [st : CommandStates, bg : BOOLEAN, group : {"shell", "own"}, masked : BOOLEAN,
             pending : BOOLEAN, parent : {"shell", "init"}]

ShellTypes ==
    /\ ush \in ShellNames /\ step \in 0..Len(Steps)
    /\ okaytojump \in BOOLEAN /\ masked \in BOOLEAN /\ sigint \in BOOLEAN
    /\ childpid \in Nat /\ background \in BOOLEAN
    /\ procs \in Seq(Commands)
    /\ interrupts \in Nat /\ jumps \in Nat /\ shells \in Nat \ {0}

\* The shell has forked and has not waited yet.
WaitSteps == {"wait", "waitforked", "waitforeground", "waitpid"}
Behind == step # 0 /\ Steps[step] \in WaitSteps \cup {"unblock"}

Ended(p) == procs[p].st \in {"zombie", "reaped"}
Young(p) == procs[p].st \in {"forked", "grouped"}
CommandsAgree ==
    \A p \in DOMAIN procs : /\ procs[p].parent = "init" => procs[p].bg
                            /\ Jumps /\ Young(p) => procs[p].masked

\* SIGINT is blocked when the shell forks; without its jump it finds a new loop, and
\* before its first jump ush4 has then forked nothing.
InterruptsAgree ==
    /\ ush = "ush3" => masked
    /\ Jumps /\ At("fork") => masked
    /\ Jumps /\ step # 0 /\ ~okaytojump => step = 1 \/ (ush = "ush4" /\ step = 2)
    /\ interrupts = 0 => ~sigint
    /\ ush # "ush1" => shells = 1
    /\ ush = "ush4" /\ ~okaytojump /\ jumps = 0 => DOMAIN procs = {}

ChildKnown ==
    ush \in {"ush5", "ush7"} /\ Behind /\ childpid # NoChild =>
        childpid \in DOMAIN procs /\ procs[childpid].bg = background

\* Nothing has happened after which the shell waits for another child than the last.
Calm == /\ jumps = 0 /\ shells = 1
        /\ ush = "ush5" => \A p \in DOMAIN procs : ~procs[p].bg

\* A child the shell has to wait for.
Owed(p) == IF ush = "ush7" THEN ~procs[p].bg /\ ~Ended(p) ELSE IsChild(p)
AwaitsOne == Calm /\ step # 0 => \A p \in DOMAIN procs : Owed(p) => Behind /\ p = childpid

ShellChildren == {p \in DOMAIN procs : IsChild(p)}
LeftBehind ==
    step # 0 /\ ush \in {"ush2", "ush3", "ush6"} =>
        Cardinality(ShellChildren) <= jumps + IF Behind /\ childpid # NoChild THEN 1 ELSE 0

ShellIInv ==
    /\ ShellTypes /\ CommandsAgree /\ InterruptsAgree /\ ChildKnown /\ AwaitsOne /\ LeftBehind

\* The loops of the shells.
LEMMA ShellLoops ==
    ASSUME ush \in ShellNames
    PROVE  /\ Len(Steps) \in 3..7
           /\ ush \in {"ush5", "ush6", "ush7"} => Steps[1] = "okay"
           /\ ush = "ush4" => Steps[1] = "wait" /\ Steps[2] = "okay" /\ Len(Steps) = 6
           /\ ~Jumps => Steps[1] = "read"
           /\ Jumps <=> ush \in {"ush4", "ush5", "ush6", "ush7"}
<1>1. ush \in {"ush1", "ush2", "ush3", "ush4", "ush5", "ush6", "ush7"}
  BY ShellAssumption
<1> QED
  BY <1>1 DEF Steps, Jumps, Ush1, Ush2, Ush3, Ush4, Ush5, Ush6, Ush7

\* What a step s of the loop is, and the step t that follows it.
Follows(s, t) ==
    /\ s \in {"okay", "read", "block", "fork", "unblock", "reap"} \cup WaitSteps
    /\ s = "okay" => t = "read"
    /\ s = "read" => t = IF Jumps THEN "block" ELSE "fork"
    /\ s = "block" => t = "fork" /\ Jumps
    /\ s = "fork" => t \in WaitSteps \cup {"unblock"}
    /\ s = "unblock" => t \in WaitSteps /\ Jumps
    /\ s \in WaitSteps => t \in {"okay", "read", "reap"}
    /\ s = "reap" => t = "okay"
    /\ s \in {"waitpid", "reap"} => ush = "ush7"
    /\ s = "waitforeground" => ush = "ush5"
    /\ s = "waitforked" => ush = "ush2"
    /\ s = "wait" => ush \notin {"ush2", "ush5", "ush7"}

LEMMA ShellSteps ==
    ASSUME ush \in ShellNames, NEW i \in 1..Len(Steps), NEW next, next = IF i = Len(Steps) THEN 1 ELSE i + 1
    PROVE  next \in 1..Len(Steps) /\ Follows(Steps[i], Steps[next])
<1>1. ush \in {"ush1", "ush2", "ush3", "ush4", "ush5", "ush6", "ush7"}
  BY ShellAssumption
<1>a. CASE ush = "ush1"
  <2>1. Steps = Ush1
    BY <1>a DEF Steps
  <2>2. Len(Ush1) = 3 /\ Ush1[1] = "read" /\ Ush1[2] = "fork" /\ Ush1[3] = "wait"
    BY DEF Ush1
  <2>3. i \in 1..3 /\ next = IF i = 3 THEN 1 ELSE i + 1
    BY <2>1, <2>2
  <2> QED
    BY <1>a, <2>1, <2>2, <2>3 DEF Follows, Jumps, WaitSteps
<1>b. CASE ush = "ush2"
  <2>1. Steps = Ush2
    BY <1>b DEF Steps
  <2>2. Len(Ush2) = 3 /\ Ush2[1] = "read" /\ Ush2[2] = "fork" /\ Ush2[3] = "waitforked"
    BY DEF Ush2
  <2>3. i \in 1..3 /\ next = IF i = 3 THEN 1 ELSE i + 1
    BY <2>1, <2>2
  <2> QED
    BY <1>b, <2>1, <2>2, <2>3 DEF Follows, Jumps, WaitSteps
<1>c. CASE ush = "ush3"
  <2>1. Steps = Ush3
    BY <1>c DEF Steps
  <2>2. Len(Ush3) = 3 /\ Ush3[1] = "read" /\ Ush3[2] = "fork" /\ Ush3[3] = "wait"
    BY DEF Ush3
  <2>3. i \in 1..3 /\ next = IF i = 3 THEN 1 ELSE i + 1
    BY <2>1, <2>2
  <2> QED
    BY <1>c, <2>1, <2>2, <2>3 DEF Follows, Jumps, WaitSteps
<1>d. CASE ush = "ush4"
  <2>1. Steps = Ush4
    BY <1>d DEF Steps
  <2>2. Len(Ush4) = 6 /\ Ush4[1] = "wait" /\ Ush4[2] = "okay" /\ Ush4[3] = "read" /\ Ush4[4] = "block" /\ Ush4[5] = "fork" /\ Ush4[6] = "unblock"
    BY DEF Ush4
  <2>3. i \in 1..6 /\ next = IF i = 6 THEN 1 ELSE i + 1
    BY <2>1, <2>2
  <2>4. CASE i \in 1..3
    BY <1>d, <2>1, <2>2, <2>3, <2>4 DEF Follows, Jumps, WaitSteps
  <2>5. CASE i \in 4..6
    BY <1>d, <2>1, <2>2, <2>3, <2>5 DEF Follows, Jumps, WaitSteps
  <2> QED
    BY <2>3, <2>4, <2>5
<1>e. CASE ush = "ush5"
  <2>1. Steps = Ush5
    BY <1>e DEF Steps
  <2>2. Len(Ush5) = 6 /\ Ush5[1] = "okay" /\ Ush5[2] = "read" /\ Ush5[3] = "block" /\ Ush5[4] = "fork" /\ Ush5[5] = "unblock" /\ Ush5[6] = "waitforeground"
    BY DEF Ush5
  <2>3. i \in 1..6 /\ next = IF i = 6 THEN 1 ELSE i + 1
    BY <2>1, <2>2
  <2>4. CASE i \in 1..3
    BY <1>e, <2>1, <2>2, <2>3, <2>4 DEF Follows, Jumps, WaitSteps
  <2>5. CASE i \in 4..6
    BY <1>e, <2>1, <2>2, <2>3, <2>5 DEF Follows, Jumps, WaitSteps
  <2> QED
    BY <2>3, <2>4, <2>5
<1>f. CASE ush = "ush6"
  <2>1. Steps = Ush6
    BY <1>f DEF Steps
  <2>2. Len(Ush6) = 6 /\ Ush6[1] = "okay" /\ Ush6[2] = "read" /\ Ush6[3] = "block" /\ Ush6[4] = "fork" /\ Ush6[5] = "unblock" /\ Ush6[6] = "wait"
    BY DEF Ush6
  <2>3. i \in 1..6 /\ next = IF i = 6 THEN 1 ELSE i + 1
    BY <2>1, <2>2
  <2>4. CASE i \in 1..3
    BY <1>f, <2>1, <2>2, <2>3, <2>4 DEF Follows, Jumps, WaitSteps
  <2>5. CASE i \in 4..6
    BY <1>f, <2>1, <2>2, <2>3, <2>5 DEF Follows, Jumps, WaitSteps
  <2> QED
    BY <2>3, <2>4, <2>5
<1>g. CASE ush = "ush7"
  <2>1. Steps = Ush7
    BY <1>g DEF Steps
  <2>2. Len(Ush7) = 7 /\ Ush7[1] = "okay" /\ Ush7[2] = "read" /\ Ush7[3] = "block" /\ Ush7[4] = "fork" /\ Ush7[5] = "unblock" /\ Ush7[6] = "waitpid" /\ Ush7[7] = "reap"
    BY DEF Ush7
  <2>3. i \in 1..7 /\ next = IF i = 7 THEN 1 ELSE i + 1
    BY <2>1, <2>2
  <2>4. CASE i \in 1..3
    BY <1>g, <2>1, <2>2, <2>3, <2>4 DEF Follows, Jumps, WaitSteps
  <2>5. CASE i \in 4..7
    BY <1>g, <2>1, <2>2, <2>3, <2>5 DEF Follows, Jumps, WaitSteps
  <2> QED
    BY <2>3, <2>4, <2>5
<1> QED
  BY <1>1, <1>a, <1>b, <1>c, <1>d, <1>e, <1>f, <1>g

\* Sequences of commands of which one changes, all change, or one is added.
LEMMA CommandChanges ==
    ASSUME NEW s \in Seq(Commands), NEW p \in DOMAIN s, NEW c \in Commands, NEW t, t = [s EXCEPT ![p] = c]
    PROVE  /\ t \in Seq(Commands) /\ DOMAIN t = DOMAIN s /\ t[p] = c
           /\ \A q \in DOMAIN s : q # p => t[q] = s[q]
<1>1. DOMAIN s = 1..Len(s)
  OBVIOUS
<1>2. t \in Seq(Commands)
  BY <1>1, ExceptSeq
<1> QED
  BY <1>1, <1>2

LEMMA CommandsChange ==
    ASSUME NEW s \in Seq(Commands), NEW t, t = [p \in DOMAIN s |-> t[p]], \A p \in DOMAIN s : t[p] \in Commands
    PROVE  t \in Seq(Commands) /\ DOMAIN t = DOMAIN s
<1>1. DOMAIN s = 1..Len(s) /\ Len(s) \in Nat
  OBVIOUS
<1>2. t \in [1..Len(s) -> Commands]
  BY <1>1
<1> QED
  BY <1>1, <1>2, SeqDef

LEMMA CommandAdded ==
    ASSUME NEW s \in Seq(Commands), NEW c \in Commands, NEW t, t = Append(s, c)
    PROVE  /\ t \in Seq(Commands) /\ DOMAIN t = DOMAIN s \cup {Len(s) + 1}
           /\ Len(s) + 1 \notin DOMAIN s /\ Len(s) \in Nat /\ t[Len(s) + 1] = c
           /\ \A q \in DOMAIN s : t[q] = s[q]
<1>1. DOMAIN s = 1..Len(s) /\ Len(s) \in Nat
  OBVIOUS
<1>2. t \in Seq(Commands) /\ Len(t) = Len(s) + 1
  OBVIOUS
<1>3. DOMAIN t = 1..(Len(s) + 1)
  BY <1>2
<1>4. t[Len(s) + 1] = c /\ \A q \in 1..Len(s) : t[q] = s[q]
  BY <1>1
<1> QED
  BY <1>1, <1>2, <1>3, <1>4

LEMMA ChildrenFinite ==
    ASSUME procs \in Seq(Commands)
    PROVE  IsFiniteSet(ShellChildren) /\ Cardinality(ShellChildren) \in Nat
           /\ \A p \in DOMAIN procs : p \in Nat \ {0}
<1>1. DOMAIN procs = 1..Len(procs) /\ Len(procs) \in Nat
  OBVIOUS
<1>2. IsFiniteSet(1..Len(procs))
  BY <1>1, FS_Interval
<1>3. IsFiniteSet(ShellChildren)
  BY <1>1, <1>2, FS_Subset DEF ShellChildren
<1> QED
  BY <1>1, <1>3, FS_CardinalityType

LEMMA ShellInitially == ShellInit => ShellIInv
<1> SUFFICES ASSUME ShellInit PROVE ShellIInv
  OBVIOUS
<1>1. ush \in ShellNames /\ step = 1 /\ procs = <<>> /\ jumps = 0 /\ shells = 1 /\ childpid = 0 /\ interrupts = 0
  BY DEF ShellInit, NoChild
<1>2. ShellTypes
  <2>1. step \in 0..Len(Steps)
    BY <1>1, ShellLoops
  <2>2. procs \in Seq(Commands)
    BY <1>1
  <2>3. okaytojump \in BOOLEAN /\ masked \in BOOLEAN /\ sigint \in BOOLEAN /\ background \in BOOLEAN
    BY Zenon DEF ShellInit
  <2>4. interrupts \in Nat /\ jumps \in Nat /\ shells \in Nat \ {0} /\ childpid \in Nat
    BY <1>1
  <2> QED
    BY <1>1, <2>1, <2>2, <2>3, <2>4 DEF ShellTypes
<1>3. InterruptsAgree
  <2>1. Steps[1] # "fork"
    BY <1>1, ShellLoops
  <2>2. DOMAIN procs = {}
    BY <1>1
  <2> QED
    BY <1>1, <2>1, <2>2 DEF ShellInit, InterruptsAgree, At
<1>4. DOMAIN procs = {}
  BY <1>1
<1>5. ShellChildren = {}
  BY <1>4 DEF ShellChildren
<1>6. LeftBehind
  BY <1>1, <1>5, FS_EmptySet DEF LeftBehind, NoChild
<1>7. CommandsAgree /\ ChildKnown /\ AwaitsOne
  BY <1>1, <1>4 DEF CommandsAgree, ChildKnown, AwaitsOne, NoChild
<1> QED
  BY <1>2, <1>3, <1>6, <1>7 DEF ShellIInv

LEMMA ShellFixed ==
    ASSUME ush' = ush
    PROVE  Steps' = Steps /\ (Jumps' <=> Jumps) /\ (Default' <=> Default)
BY DEF Steps, Jumps, Default

\* A step of the loop.
LEMMA LoopGoesOn ==
    ASSUME ShellTypes, ush' = ush, NEW s, At(s), Done
    PROVE  /\ step' \in 1..Len(Steps) /\ step' # 0 /\ Steps' = Steps
           /\ Follows(s, Steps[step'])
           /\ Behind <=> s \in WaitSteps \cup {"unblock"}
           /\ Behind' <=> Steps[step'] \in WaitSteps \cup {"unblock"}
           /\ \A t : At(t)' <=> Steps[step'] = t
           /\ \A t : At(t) <=> s = t
<1>1. step \in 1..Len(Steps) /\ Steps[step] = s /\ ush \in ShellNames
  <2>1. step \in 0..Len(Steps) /\ step # 0 /\ Len(Steps) \in 3..7
    BY ShellLoops DEF ShellTypes, At
  <2> QED
    BY <2>1 DEF ShellTypes, At
<1>2. step' = IF step = Len(Steps) THEN 1 ELSE step + 1
  BY DEF Done
<1>3. step' \in 1..Len(Steps) /\ Follows(Steps[step], Steps[step'])
  BY <1>1, <1>2, ShellSteps
<1>4. step' # 0 /\ Steps' = Steps
  BY <1>1, <1>3, ShellLoops, ShellFixed
<1>5. (\A t : At(t)' <=> Steps[step'] = t) /\ (\A t : At(t) <=> s = t)
  BY <1>1, <1>4 DEF At
<1>6. (Behind <=> s \in WaitSteps \cup {"unblock"}) /\ (Behind' <=> Steps[step'] \in WaitSteps \cup {"unblock"})
  BY <1>1, <1>4 DEF Behind, At
<1> QED
  BY <1>1, <1>3, <1>4, <1>5, <1>6

LEMMA LoopJumpAgrees ==
    ASSUME ShellTypes, InterruptsAgree, ush' = ush, NEW s, At(s), Done, s # "okay", okaytojump' = okaytojump
    PROVE  Jumps' /\ step' # 0 /\ ~okaytojump' => step' = 1 \/ (ush' = "ush4" /\ step' = 2)
<1> SUFFICES ASSUME Jumps', ~okaytojump'
             PROVE  step' = 1 \/ (ush' = "ush4" /\ step' = 2)
  OBVIOUS
<1>1. Jumps /\ step # 0 /\ ~okaytojump /\ Steps[step] = s
  BY ShellFixed DEF At
<1>2. step = 1 \/ (ush = "ush4" /\ step = 2)
  BY <1>1 DEF InterruptsAgree
<1>3. ush \in ShellNames /\ ush \in {"ush4", "ush5", "ush6", "ush7"}
  BY <1>1 DEF ShellTypes, Jumps
<1>4. step = 1 /\ ush = "ush4" /\ Len(Steps) = 6
  BY <1>1, <1>2, <1>3, ShellLoops
<1> QED
  BY <1>4 DEF Done

LEMMA ProcsSame ==
    ASSUME UNCHANGED <<ush, procs>>
    PROVE  /\ ShellChildren' = ShellChildren
           /\ \A p : (Owed(p)' <=> Owed(p)) /\ (IsChild(p)' <=> IsChild(p))
BY DEF ShellChildren, Owed, IsChild, Ended


LEMMA CalmBefore ==
    ASSUME UNCHANGED <<ush, procs, jumps, shells, interrupts>>
    PROVE  Calm' <=> Calm
BY DEF Calm

LEMMA SetOkayKeeps == ASSUME ShellIInv, SetOkay PROVE ShellIInv'
<1>1. ush' = ush /\ At("okay") /\ Done
  BY DEF SetOkay, StepOn
<1>2. ShellTypes /\ CommandsAgree /\ InterruptsAgree /\ AwaitsOne /\ LeftBehind
  BY DEF ShellIInv
<1>3. step' \in 1..Len(Steps) /\ step' # 0 /\ Steps' = Steps /\ Steps[step'] = "read" /\ ~Behind /\ ~Behind'
      /\ ~At("fork")' /\ step # 0
  BY <1>1, <1>2, LoopGoesOn DEF Follows, WaitSteps, At
<1>4. ShellTypes'
  BY <1>2, <1>3 DEF SetOkay, ShellTypes, line, counts
<1>5. CommandsAgree'
  BY <1>1, <1>2, ShellFixed DEF SetOkay, CommandsAgree, Young
<1>6. InterruptsAgree'
  BY <1>2, <1>3 DEF SetOkay, InterruptsAgree, counts
<1>7. ChildKnown' /\ AwaitsOne'
  BY <1>2, <1>3, ProcsSame, CalmBefore DEF SetOkay, ChildKnown, AwaitsOne, counts
<1>8. LeftBehind'
  BY <1>2, <1>3, ProcsSame DEF SetOkay, LeftBehind, counts
<1> QED
  BY <1>4, <1>5, <1>6, <1>7, <1>8 DEF ShellIInv

LEMMA BlockSignalsKeeps == ASSUME ShellIInv, BlockSignals PROVE ShellIInv'
<1>1. ush' = ush /\ At("block") /\ Done
  BY DEF BlockSignals, StepOn
<1>2. ShellTypes /\ CommandsAgree /\ InterruptsAgree /\ AwaitsOne /\ LeftBehind
  BY DEF ShellIInv
<1>3. step' \in 1..Len(Steps) /\ step' # 0 /\ Steps' = Steps /\ Steps[step'] = "fork" /\ ~Behind /\ ~Behind' /\ step # 0
  BY <1>1, <1>2, LoopGoesOn DEF Follows, WaitSteps, At
<1>4. ShellTypes'
  BY <1>2, <1>3 DEF BlockSignals, ShellTypes, line, counts
<1>5. CommandsAgree'
  BY <1>1, <1>2, ShellFixed DEF BlockSignals, CommandsAgree, Young
<1>6. InterruptsAgree'
  BY <1>1, <1>2, LoopJumpAgrees DEF BlockSignals, InterruptsAgree, counts
<1>7. ChildKnown' /\ AwaitsOne'
  BY <1>2, <1>3, ProcsSame, CalmBefore DEF BlockSignals, ChildKnown, AwaitsOne, counts
<1>8. LeftBehind'
  BY <1>2, <1>3, ProcsSame DEF BlockSignals, LeftBehind, counts
<1> QED
  BY <1>4, <1>5, <1>6, <1>7, <1>8 DEF ShellIInv

LEMMA UnblockSignalsKeeps == ASSUME ShellIInv, UnblockSignals PROVE ShellIInv'
<1>1. ush' = ush /\ At("unblock") /\ Done
  BY DEF UnblockSignals, StepOn
<1>2. ShellTypes /\ CommandsAgree /\ InterruptsAgree /\ ChildKnown /\ AwaitsOne /\ LeftBehind
  BY DEF ShellIInv
<1>3. step' \in 1..Len(Steps) /\ step' # 0 /\ Steps' = Steps /\ Steps[step'] \in WaitSteps /\ Behind /\ Behind'
      /\ ~At("fork")' /\ step # 0 /\ Jumps
  BY <1>1, <1>2, LoopGoesOn DEF Follows, WaitSteps, At
<1>4. ShellTypes'
  <2>1. step' \in 0..Len(Steps)'
    BY <1>3, <1>2, ShellLoops DEF ShellTypes
  <2> QED
    BY <1>2, <2>1 DEF UnblockSignals, ShellTypes, line, counts
<1>5. CommandsAgree'
  BY <1>1, <1>2, ShellFixed DEF UnblockSignals, CommandsAgree, Young
<1>6. InterruptsAgree'
  <2>1. ush # "ush3"
    BY <1>3 DEF Jumps
  <2> QED
    BY <1>1, <1>2, <1>3, <2>1, LoopJumpAgrees DEF UnblockSignals, InterruptsAgree, counts
<1>7. ChildKnown'
  BY <1>2, <1>3 DEF UnblockSignals, ChildKnown, line
<1>8. AwaitsOne'
  BY <1>2, <1>3, ProcsSame, CalmBefore DEF UnblockSignals, AwaitsOne, counts, line
<1>9. LeftBehind'
  BY <1>2, <1>3, ProcsSame DEF UnblockSignals, LeftBehind, counts, line
<1> QED
  BY <1>4, <1>5, <1>6, <1>7, <1>8, <1>9 DEF ShellIInv

LEMMA ForkFailsKeeps == ASSUME ShellIInv, ForkFails PROVE ShellIInv'
<1>1. ush' = ush /\ At("fork") /\ Done /\ childpid' = NoChild
  BY DEF ForkFails, StepOn
<1>2. ShellTypes /\ CommandsAgree /\ InterruptsAgree /\ AwaitsOne /\ LeftBehind
  BY DEF ShellIInv
<1>3. step' \in 1..Len(Steps) /\ step' # 0 /\ Steps' = Steps /\ ~Behind /\ Behind' /\ ~At("fork")' /\ step # 0
  BY <1>1, <1>2, LoopGoesOn DEF Follows, WaitSteps, At
<1>4. ShellTypes'
  BY <1>1, <1>2, <1>3 DEF ForkFails, ShellTypes, NoChild, counts
<1>5. CommandsAgree'
  BY <1>1, <1>2, ShellFixed DEF ForkFails, CommandsAgree, Young
<1>6. InterruptsAgree'
  BY <1>1, <1>2, <1>3, LoopJumpAgrees DEF ForkFails, InterruptsAgree, counts
<1>7. ChildKnown'
  BY <1>1 DEF ChildKnown
<1>8. AwaitsOne'
  BY <1>2, <1>3, ProcsSame, CalmBefore DEF ForkFails, AwaitsOne, counts
<1>9. LeftBehind'
  BY <1>1, <1>2, <1>3, ProcsSame DEF ForkFails, LeftBehind, counts
<1> QED
  BY <1>4, <1>5, <1>6, <1>7, <1>8, <1>9 DEF ShellIInv

LEMMA ReadCommandKeeps == ASSUME ShellIInv, ReadCommand PROVE ShellIInv'
<1>1. UNCHANGED <<ush, okaytojump, masked, sigint, childpid, procs, interrupts, jumps, shells>> /\ At("read")
  BY DEF ReadCommand
<1>2. ShellTypes /\ CommandsAgree /\ InterruptsAgree /\ AwaitsOne /\ LeftBehind
  BY DEF ShellIInv
<1>3. ~Behind /\ step # 0 /\ Steps' = Steps /\ Len(Steps) \in 3..7
  BY <1>1, <1>2, ShellFixed, ShellLoops DEF At, Behind, WaitSteps, ShellTypes
<1>4. background' \in BOOLEAN
  BY <1>2 DEF ReadCommand, Backgrounds, ShellTypes
<1>5. CommandsAgree'
  BY <1>1, <1>2, ShellFixed DEF CommandsAgree, Young
<1>6. AwaitsOne'
  BY <1>1, <1>2, <1>3, ProcsSame, CalmBefore DEF AwaitsOne
<1>7. ASSUME step' \in 0..Len(Steps), ~At("fork")' \/ ~Jumps', ~Behind' \/ ush = "ush4",
             Jumps' /\ step' # 0 /\ ~okaytojump' => step' = 1 \/ (ush' = "ush4" /\ step' = 2)
      PROVE  ShellIInv'
  <2>1. ShellTypes'
    BY <1>1, <1>2, <1>3, <1>4, <1>7 DEF ShellTypes
  <2>2. InterruptsAgree'
    BY <1>1, <1>2, <1>7 DEF InterruptsAgree
  <2>3. ChildKnown'
    BY <1>1, <1>7 DEF ChildKnown
  <2>4. LeftBehind'
    BY <1>1, <1>2, <1>3, <1>7, ProcsSame DEF LeftBehind
  <2> QED
    BY <1>5, <1>6, <2>1, <2>2, <2>3, <2>4 DEF ShellIInv
<1>8. CASE Done
  <2>1. step' \in 1..Len(Steps) /\ ~Behind' /\ (At("fork")' => ~Jumps)
    BY <1>1, <1>2, <1>8, LoopGoesOn DEF Follows, WaitSteps
  <2> QED
    BY <1>1, <1>2, <1>7, <1>8, <2>1, LoopJumpAgrees, ShellFixed
<1>9. CASE step' = 0
  BY <1>3, <1>7, <1>9 DEF Behind, At
<1>10. CASE step' = 1
  <2>1. Steps[1] = "okay" \/ Steps[1] = "read" \/ (ush = "ush4" /\ Steps[1] = "wait")
    BY <1>2, ShellLoops DEF ShellTypes
  <2>2. ~At("fork")' /\ (~Behind' \/ ush = "ush4")
    BY <1>3, <1>10, <2>1 DEF At, Behind, WaitSteps
  <2> QED
    BY <1>3, <1>7, <1>10, <2>2
<1> QED
  BY <1>8, <1>9, <1>10 DEF ReadCommand

LEMMA ForkCommandKeeps == ASSUME ShellIInv, ForkCommand PROVE ShellIInv'
<1> DEFINE n == Len(procs) + 1
           c == Process(background, masked)
<1>1. UNCHANGED <<ush, okaytojump, masked, sigint, background, interrupts, jumps, shells>> /\ At("fork") /\ Done
      /\ procs' = Append(procs, c) /\ childpid' = n
  BY DEF ForkCommand, StepOn, counts
<1>2. ShellTypes /\ CommandsAgree /\ InterruptsAgree /\ AwaitsOne /\ LeftBehind
  BY DEF ShellIInv
<1>3. step' \in 1..Len(Steps) /\ step' # 0 /\ Steps' = Steps /\ ~Behind /\ Behind' /\ ~At("fork")' /\ step # 0
  BY <1>1, <1>2, LoopGoesOn DEF Follows, WaitSteps, At
<1>c. c \in Commands /\ c.bg = background /\ c.parent = "shell" /\ c.masked = masked /\ c.st = "forked"
  BY <1>2 DEF ShellTypes, Commands, Process, CommandStates
<1>p. procs \in Seq(Commands)
  BY <1>2 DEF ShellTypes
<1> HIDE DEF c
<1>a. /\ procs' \in Seq(Commands) /\ DOMAIN procs' = DOMAIN procs \cup {n}
      /\ n \notin DOMAIN procs /\ Len(procs) \in Nat /\ procs'[n] = c
      /\ \A q \in DOMAIN procs : procs'[q] = procs[q]
  BY <1>1, <1>c, <1>p, CommandAdded
<1>b. n \in Nat \ {0}
  BY <1>a
<1> HIDE DEF n
<1>4. ShellTypes'
  <2>1. step' \in 0..Len(Steps)'
    BY <1>3, <1>2, ShellLoops DEF ShellTypes
  <2> QED
    BY <1>1, <1>2, <1>a, <1>b, <2>1 DEF ShellTypes
<1>5. CommandsAgree'
  <2>1. ASSUME NEW p \in DOMAIN procs' PROVE (procs'[p].parent = "init" => procs'[p].bg)
            /\ (Jumps /\ procs'[p].st \in {"forked", "grouped"} => procs'[p].masked)
    <3>1. CASE p \in DOMAIN procs
      BY <1>2, <1>a, <3>1 DEF CommandsAgree, Young
    <3>2. CASE p = n
      BY <1>1, <1>2, <1>a, <1>c, <3>2 DEF InterruptsAgree
    <3> QED
      BY <1>a, <3>1, <3>2
  <2> QED
    BY <1>1, <2>1, ShellFixed DEF CommandsAgree, Young
<1>6. InterruptsAgree'
  <2>1. ush = "ush4" => okaytojump
    <3>1. ush = "ush4" => Steps[1] = "wait" /\ Steps[2] = "okay"
      BY <1>2, ShellLoops DEF ShellTypes
    <3> QED
      BY <1>1, <1>2, <1>3, <3>1 DEF InterruptsAgree, Jumps, At
  <2> QED
    BY <1>1, <1>2, <1>3, <2>1, LoopJumpAgrees DEF InterruptsAgree
<1>7. ChildKnown'
  BY <1>1, <1>a, <1>c DEF ChildKnown
<1>8. AwaitsOne'
  <2> SUFFICES ASSUME Calm', NEW p \in DOMAIN procs', Owed(p)'
               PROVE  p = n
    BY <1>1, <1>3 DEF AwaitsOne
  <2>1. Calm
    BY <1>1, <1>a DEF Calm
  <2>2. p \in DOMAIN procs => (Owed(p)' <=> Owed(p))
    BY <1>1, <1>a DEF Owed, IsChild, Ended
  <2> QED
    BY <1>2, <1>3, <1>a, <2>1, <2>2 DEF AwaitsOne
<1>9. LeftBehind'
  <2>1. ShellChildren' = ShellChildren \cup {n}
    BY <1>a, <1>c DEF ShellChildren, IsChild
  <2>2. n \notin ShellChildren
    BY <1>a DEF ShellChildren
  <2>3. Cardinality(ShellChildren') = Cardinality(ShellChildren) + 1 /\ Cardinality(ShellChildren) \in Nat
    BY <1>p, <2>1, <2>2, ChildrenFinite, FS_AddElement
  <2>4. jumps \in Nat
    BY <1>2 DEF ShellTypes
  <2>5. n # NoChild
    BY <1>b DEF NoChild
  <2> QED
    BY <1>1, <1>2, <1>3, <2>3, <2>4, <2>5 DEF LeftBehind
<1> QED
  BY <1>4, <1>5, <1>6, <1>7, <1>8, <1>9 DEF ShellIInv

LEMMA SkipWaitKeeps == ASSUME ShellIInv, SkipWait PROVE ShellIInv'
<1>1. UNCHANGED <<ush, okaytojump, masked, sigint, childpid, background, procs, interrupts, jumps, shells>> /\ Done
  BY DEF SkipWait, counts, line
<1>2. ShellTypes /\ CommandsAgree /\ InterruptsAgree /\ ChildKnown /\ AwaitsOne /\ LeftBehind
  BY DEF ShellIInv
<1>3. PICK s \in {"waitforked", "waitforeground", "waitpid"} : At(s)
  BY DEF SkipWait
<1>4. /\ step' \in 1..Len(Steps) /\ step' # 0 /\ Steps' = Steps /\ Follows(s, Steps[step'])
      /\ Behind <=> s \in WaitSteps \cup {"unblock"}
      /\ Behind' <=> Steps[step'] \in WaitSteps \cup {"unblock"}
      /\ \A t : At(t)' <=> Steps[step'] = t
      /\ \A t : At(t) <=> s = t
  BY <1>1, <1>2, <1>3, LoopGoesOn
<1>5. step # 0 /\ Behind /\ ~Behind' /\ ~At("fork")'
  BY <1>3, <1>4 DEF Follows, WaitSteps, At
<1>6. /\ s = "waitforked" => ush = "ush2" /\ childpid = NoChild
      /\ s # "waitforked" => ush \in {"ush5", "ush7"} /\ background
  BY <1>3, <1>4 DEF SkipWait, Follows
<1>7. ShellTypes'
  <2>1. step' \in 0..Len(Steps)'
    BY <1>2, <1>4, ShellLoops DEF ShellTypes
  <2> QED
    BY <1>1, <1>2, <2>1 DEF ShellTypes
<1>8. CommandsAgree'
  BY <1>1, <1>2, ShellFixed DEF CommandsAgree, Young
<1>9. InterruptsAgree'
  <2>1. Jumps' /\ step' # 0 /\ ~okaytojump' => step' = 1 \/ (ush' = "ush4" /\ step' = 2)
    BY <1>1, <1>2, <1>3, LoopJumpAgrees
  <2> QED
    BY <1>1, <1>2, <1>5, <2>1 DEF InterruptsAgree
<1>10. ChildKnown'
  BY <1>5 DEF ChildKnown
<1>11. AwaitsOne'
  <2> SUFFICES ASSUME Calm, NEW p \in DOMAIN procs, Owed(p) PROVE FALSE
    BY <1>1, ProcsSame, CalmBefore DEF AwaitsOne
  <2>1. p = childpid /\ p # NoChild
    BY <1>2, <1>5, ChildrenFinite DEF AwaitsOne, ShellTypes, NoChild
  <2>2. ush \in {"ush5", "ush7"} /\ procs[p].bg
    BY <1>2, <1>3, <1>5, <1>6, <2>1 DEF ChildKnown
  <2> QED
    BY <2>2 DEF Calm, Owed
<1>12. LeftBehind'
  BY <1>1, <1>2, <1>3, <1>4, <1>5, <1>6, ProcsSame DEF LeftBehind
<1> QED
  BY <1>7, <1>8, <1>9, <1>10, <1>11, <1>12 DEF ShellIInv

LEMMA ReapAllKeeps == ASSUME ShellIInv, ReapAll PROVE ShellIInv'
<1>1. UNCHANGED <<ush, okaytojump, masked, sigint, childpid, background, interrupts, jumps, shells>>
      /\ At("reap") /\ Done
      /\ procs' = [p \in DOMAIN procs |-> IF p \in Zombies THEN [procs[p] EXCEPT !.st = "reaped"] ELSE procs[p]]
  BY DEF ReapAll, StepOn, counts, line
<1>2. ShellTypes /\ CommandsAgree /\ InterruptsAgree /\ AwaitsOne
  BY DEF ShellIInv
<1>3. step' \in 1..Len(Steps) /\ step' # 0 /\ Steps' = Steps /\ ~Behind /\ ~Behind' /\ ~At("fork")' /\ step # 0
      /\ ush = "ush7"
  BY <1>1, <1>2, LoopGoesOn DEF Follows, WaitSteps, At
<1>4. procs' \in Seq(Commands) /\ DOMAIN procs' = DOMAIN procs
  <2>1. ASSUME NEW p \in DOMAIN procs PROVE procs'[p] \in Commands
    <3>1. procs[p] \in Commands
      BY <1>2 DEF ShellTypes
    <3> QED
      BY <1>1, <3>1 DEF Commands, CommandStates
  <2>2. procs \in Seq(Commands)
    BY <1>2 DEF ShellTypes
  <2>3. procs' = [p \in DOMAIN procs |-> procs'[p]]
    BY <1>1
  <2> QED
    BY <2>1, <2>2, <2>3, CommandsChange
<1>5. ASSUME NEW p \in DOMAIN procs
      PROVE  /\ procs'[p].parent = procs[p].parent /\ procs'[p].bg = procs[p].bg /\ procs'[p].masked = procs[p].masked
             /\ procs'[p].st = procs[p].st \/ (procs[p].st = "zombie" /\ procs'[p].st = "reaped")
  <2>1. procs[p] \in Commands
    BY <1>2 DEF ShellTypes
  <2> QED
    BY <1>1, <2>1 DEF Commands, Zombies
<1>6. ShellTypes'
  <2>1. step' \in 0..Len(Steps)'
    BY <1>2, <1>3, ShellLoops DEF ShellTypes
  <2> QED
    BY <1>1, <1>2, <1>4, <2>1 DEF ShellTypes
<1>7. CommandsAgree'
  BY <1>1, <1>2, <1>4, <1>5, ShellFixed DEF CommandsAgree, Young
<1>8. InterruptsAgree'
  BY <1>1, <1>2, <1>3, LoopJumpAgrees DEF InterruptsAgree
<1>9. ChildKnown' /\ LeftBehind'
  BY <1>1, <1>3 DEF ChildKnown, LeftBehind
<1>10. AwaitsOne'
  <2> SUFFICES ASSUME Calm', NEW p \in DOMAIN procs, Owed(p)' PROVE FALSE
    BY <1>4 DEF AwaitsOne
  <2>1. Calm
    BY <1>1, <1>3 DEF Calm
  <2>2. Owed(p)
    BY <1>1, <1>3, <1>5 DEF Owed, Ended
  <2> QED
    BY <1>2, <1>3, <2>1, <2>2 DEF AwaitsOne
<1> QED
  BY <1>6, <1>7, <1>8, <1>9, <1>10 DEF ShellIInv

LEMMA CommandReaped ==
    ASSUME ShellIInv, ush' = ush, NEW p \in Zombies, Reap(p)
    PROVE  /\ procs' \in Seq(Commands) /\ DOMAIN procs' = DOMAIN procs
           /\ p \in ShellChildren /\ ShellChildren' = ShellChildren \ {p} /\ ~Owed(p)'
           /\ \A q \in DOMAIN procs : (Owed(q)' => Owed(q)) /\ procs'[q].parent = procs[q].parent
                                      /\ procs'[q].bg = procs[q].bg /\ procs'[q].masked = procs[q].masked
                                      /\ (procs'[q].st \in {"forked", "grouped"} => Young(q))
<1>1. p \in DOMAIN procs /\ IsChild(p) /\ procs[p].st = "zombie" /\ procs \in Seq(Commands) /\ procs[p] \in Commands
  BY DEF Zombies, ShellIInv, ShellTypes
<1> DEFINE c == [procs[p] EXCEPT !.st = "reaped"]
<1>2. c \in Commands /\ c.st = "reaped" /\ c.parent = procs[p].parent /\ c.bg = procs[p].bg /\ c.masked = procs[p].masked
  BY <1>1 DEF Commands, CommandStates
<1>3. procs' = [procs EXCEPT ![p] = c]
  BY DEF Reap
<1> HIDE DEF c
<1>4. /\ procs' \in Seq(Commands) /\ DOMAIN procs' = DOMAIN procs /\ procs'[p] = c
      /\ \A q \in DOMAIN procs : q # p => procs'[q] = procs[q]
  BY <1>1, <1>2, <1>3, CommandChanges
<1>5. ShellChildren' = ShellChildren \ {p} /\ p \in ShellChildren
  BY <1>1, <1>2, <1>4 DEF ShellChildren, IsChild
<1>6. ~Owed(p)'
  BY <1>2, <1>4 DEF Owed, IsChild, Ended
<1>7. \A q \in DOMAIN procs : Owed(q)' => Owed(q)
  BY <1>4, <1>6 DEF Owed, IsChild, Ended
<1>8. ASSUME NEW q \in DOMAIN procs
      PROVE  /\ procs'[q].parent = procs[q].parent
             /\ procs'[q].bg = procs[q].bg /\ procs'[q].masked = procs[q].masked
             /\ (procs'[q].st \in {"forked", "grouped"} => Young(q))
  <2>1. CASE q = p
    BY <1>2, <1>4, <2>1
  <2>2. CASE q # p
    BY <1>4, <2>2 DEF Young
  <2> QED
    BY <2>1, <2>2
<1> QED
  BY <1>4, <1>5, <1>6, <1>7, <1>8

LEMMA WaitForCommandKeeps == ASSUME ShellIInv, WaitForCommand PROVE ShellIInv'
<1>1. UNCHANGED <<ush, okaytojump, masked, sigint, childpid, background, interrupts, jumps, shells>> /\ Done
  BY DEF WaitForCommand, counts, line
<1>2. ShellTypes /\ CommandsAgree /\ InterruptsAgree /\ AwaitsOne /\ LeftBehind
  BY DEF ShellIInv
<1>3. PICK s \in WaitSteps : At(s)
  BY DEF WaitForCommand, WaitsForAny, WaitSteps
<1>4. /\ step' \in 1..Len(Steps) /\ step' # 0 /\ Steps' = Steps /\ Follows(s, Steps[step'])
      /\ Behind <=> s \in WaitSteps \cup {"unblock"}
      /\ Behind' <=> Steps[step'] \in WaitSteps \cup {"unblock"}
      /\ \A t : At(t)' <=> Steps[step'] = t
      /\ \A t : At(t) <=> s = t
  BY <1>1, <1>2, <1>3, LoopGoesOn
<1>5. step # 0 /\ Behind /\ ~Behind' /\ ~At("fork")'
  BY <1>3, <1>4 DEF Follows, WaitSteps, At
<1>6. step' \in 0..Len(Steps)'
  BY <1>2, <1>4, ShellLoops DEF ShellTypes
<1>7. InterruptsAgree'
  <2>1. s # "okay"
    BY <1>3 DEF WaitSteps
  <2>2. Jumps' /\ step' # 0 /\ ~okaytojump' => step' = 1 \/ (ush' = "ush4" /\ step' = 2)
    BY <1>1, <1>2, <1>3, <2>1, LoopJumpAgrees
  <2>3. DOMAIN procs = {} => procs' = procs
    BY DEF WaitForCommand, Zombies
  <2> QED
    BY <1>1, <1>2, <1>5, <2>2, <2>3 DEF InterruptsAgree
<1>8. ChildKnown'
  BY <1>5 DEF ChildKnown
<1>f. IsFiniteSet(ShellChildren) /\ Cardinality(ShellChildren) \in Nat /\ (\A p \in DOMAIN procs : p # NoChild) /\ jumps \in Nat
  BY <1>2, ChildrenFinite DEF ShellTypes, NoChild
<1>9. CASE UNCHANGED procs /\ WaitsForAny /\ NoChildren
  <2>1. ShellTypes'
    BY <1>1, <1>2, <1>6, <1>9 DEF ShellTypes
  <2>2. CommandsAgree'
    BY <1>1, <1>2, <1>9, ShellFixed DEF CommandsAgree, Young
  <2>3. ShellChildren = {}
    BY <1>9 DEF ShellChildren, NoChildren
  <2>4. LeftBehind'
    BY <1>1, <1>9, <1>f, <2>3, ProcsSame, FS_EmptySet DEF LeftBehind
  <2>5. \A p \in DOMAIN procs : ~Owed(p)
    <3> SUFFICES ASSUME NEW p \in DOMAIN procs, Owed(p) PROVE FALSE
      OBVIOUS
    <3>1. procs[p] \in Commands /\ (procs[p].parent = "init" => procs[p].bg)
      BY <1>2 DEF ShellTypes, CommandsAgree
    <3> QED
      BY <1>9, <3>1 DEF NoChildren, Owed, IsChild, Ended, Commands
  <2>6. AwaitsOne'
    BY <1>1, <1>9, <2>5, ProcsSame DEF AwaitsOne
  <2> QED
    BY <1>7, <1>8, <2>1, <2>2, <2>4, <2>6 DEF ShellIInv
<1>10. ASSUME NEW p \in Zombies, Reap(p), ush = "ush7" => childpid = NoChild \/ p = childpid
       PROVE  ShellIInv'
  <2>1. /\ procs' \in Seq(Commands) /\ DOMAIN procs' = DOMAIN procs
        /\ p \in ShellChildren /\ ShellChildren' = ShellChildren \ {p} /\ ~Owed(p)'
        /\ \A q \in DOMAIN procs : (Owed(q)' => Owed(q)) /\ procs'[q].parent = procs[q].parent
                                   /\ procs'[q].bg = procs[q].bg /\ procs'[q].masked = procs[q].masked
                                   /\ (procs'[q].st \in {"forked", "grouped"} => Young(q))
    BY <1>1, <1>10, CommandReaped
  <2>2. ShellTypes'
    BY <1>1, <1>2, <1>6, <2>1 DEF ShellTypes
  <2>3. CommandsAgree'
    BY <1>1, <1>2, <2>1, ShellFixed DEF CommandsAgree, Young
  <2>4. LeftBehind'
    <3>1. Cardinality(ShellChildren') = Cardinality(ShellChildren) - 1
      BY <1>f, <2>1, FS_RemoveElement
    <3> QED
      BY <1>1, <1>2, <1>5, <1>f, <3>1 DEF LeftBehind
  <2>5. AwaitsOne'
    <3> SUFFICES ASSUME Calm', NEW q \in DOMAIN procs, Owed(q)' PROVE FALSE
      BY <2>1 DEF AwaitsOne
    <3>1. Calm
      BY <1>1, <2>1 DEF Calm
    <3>2. Owed(q) /\ q # p /\ q = childpid
      BY <1>2, <1>5, <2>1, <3>1 DEF AwaitsOne
    <3>3. ush # "ush7"
      BY <1>10, <1>f, <3>2
    <3>4. Owed(p) /\ p \in DOMAIN procs
      BY <2>1, <3>3 DEF Owed, ShellChildren
    <3> QED
      BY <1>2, <1>5, <3>1, <3>2, <3>4 DEF AwaitsOne
  <2> QED
    BY <1>7, <1>8, <2>2, <2>3, <2>4, <2>5 DEF ShellIInv
<1>11. WaitsForAny => (ush = "ush7" => childpid = NoChild)
  BY <1>3, <1>4 DEF WaitsForAny, Follows, WaitSteps
<1> QED
  BY <1>9, <1>10, <1>11 DEF WaitForCommand

LEMMA CatchKeeps == ASSUME ShellIInv, Catch PROVE ShellIInv'
<1>1. UNCHANGED <<ush, masked, childpid, background, procs, interrupts, shells>>
      /\ sigint /\ ~masked /\ step # 0 /\ sigint' = FALSE
  BY DEF Catch, line
<1>2. ShellTypes /\ CommandsAgree /\ InterruptsAgree /\ ChildKnown /\ AwaitsOne /\ LeftBehind
  BY DEF ShellIInv
<1>3. Steps' = Steps /\ (Jumps' <=> Jumps) /\ Len(Steps) \in 3..7
  BY <1>1, <1>2, ShellFixed, ShellLoops DEF ShellTypes
<1>s. Len(Steps)' = Len(Steps) /\ Len(Steps) \in 3..7
  BY <1>3
<1>z. sigint' \in BOOLEAN
  BY <1>1, Zenon
<1>4. CommandsAgree'
  BY <1>1, <1>2, <1>3 DEF CommandsAgree, Young
<1>5. ush # "ush3" /\ interrupts # 0 /\ ush \in {"ush1", "ush2", "ush3", "ush4", "ush5", "ush6", "ush7"}
  BY <1>1, <1>2, ShellAssumption DEF InterruptsAgree, ShellTypes
<1>f. IsFiniteSet(ShellChildren) /\ Cardinality(ShellChildren) \in Nat /\ jumps \in Nat
  BY <1>2, ChildrenFinite DEF ShellTypes
<1>6. CASE Default
  <2>1. step' = 0 /\ UNCHANGED <<okaytojump, jumps>>
    BY <1>6 DEF Catch
  <2>2. ShellTypes'
    <3>1. step' \in 0..Len(Steps)'
      BY <1>s, <2>1
    <3> QED
      BY <1>1, <1>2, <1>z, <2>1, <3>1 DEF ShellTypes
  <2>3. InterruptsAgree' /\ ChildKnown' /\ AwaitsOne' /\ LeftBehind'
    BY <1>1, <1>2, <2>1 DEF InterruptsAgree, ChildKnown, AwaitsOne, LeftBehind, Behind, At
  <2> QED
    BY <1>4, <2>2, <2>3 DEF ShellIInv
<1>7. CASE ~Default /\ okaytojump
  <2>1. step' = 1 /\ okaytojump' = FALSE /\ jumps' = jumps + 1
    BY <1>7 DEF Catch
  <2>2. ShellTypes'
    <3>1. step' \in 0..Len(Steps)' /\ jumps' \in Nat
      BY <1>s, <1>f, <2>1
    <3>2. okaytojump' \in BOOLEAN
      BY <2>1, Zenon
    <3> QED
      BY <1>1, <1>2, <1>z, <3>1, <3>2 DEF ShellTypes
  <2>3. ush \in {"ush4", "ush5", "ush6", "ush7"}
    BY <1>5, <1>7 DEF Default
  <2>4. ~At("fork")' /\ (~Behind' \/ ush = "ush4")
    BY <1>2, <1>3, <2>1, <2>3, ShellLoops DEF At, Behind, WaitSteps, ShellTypes
  <2>5. InterruptsAgree' /\ ChildKnown'
    BY <1>1, <1>2, <1>f, <2>1, <2>4 DEF InterruptsAgree, ChildKnown
  <2>6. AwaitsOne'
    BY <1>f, <2>1 DEF AwaitsOne, Calm
  <2>7. LeftBehind'
    BY <1>1, <1>2, <1>f, <2>1, <2>4, ProcsSame DEF LeftBehind
  <2> QED
    BY <1>4, <2>2, <2>5, <2>6, <2>7 DEF ShellIInv
<1>8. CASE ~Default /\ ~okaytojump
  <2>1. step' = (IF WaitsForAny THEN step + 1 ELSE step) /\ UNCHANGED <<okaytojump, jumps>>
    BY <1>8 DEF Catch
  <2>2. ush \in {"ush4", "ush5", "ush6", "ush7"} /\ Jumps
    BY <1>5, <1>8 DEF Default, Jumps
  <2>3. step = 1 \/ (ush = "ush4" /\ step = 2)
    BY <1>1, <1>2, <1>8, <2>2 DEF InterruptsAgree
  <2>4. WaitsForAny => ush = "ush4" /\ step = 1
    BY <1>2, <2>2, <2>3, ShellLoops DEF ShellTypes, WaitsForAny, At
  <2>5. CASE WaitsForAny
    <3>1. step' = 2 /\ ush = "ush4" /\ Steps[2] = "okay"
      BY <1>2, <2>1, <2>4, <2>5, ShellLoops DEF ShellTypes
    <3>2. ShellTypes'
      <4>1. step' \in 0..Len(Steps)'
        BY <1>s, <3>1
      <4> QED
        BY <1>1, <1>2, <1>z, <2>1, <4>1 DEF ShellTypes
    <3>3. InterruptsAgree' /\ ChildKnown' /\ LeftBehind'
      BY <1>1, <1>2, <1>3, <2>1, <3>1 DEF InterruptsAgree, ChildKnown, LeftBehind, At
    <3>4. AwaitsOne'
      BY <1>1, <1>2, <1>8, <2>1, <3>1 DEF AwaitsOne, Calm, InterruptsAgree
    <3> QED
      BY <1>4, <3>2, <3>3, <3>4 DEF ShellIInv
  <2>6. CASE ~WaitsForAny
    <3>1. UNCHANGED <<step, okaytojump, jumps>>
      BY <2>1, <2>6
    <3>2. ShellTypes'
      BY <1>1, <1>2, <1>3, <3>1 DEF ShellTypes
    <3>3. InterruptsAgree' /\ ChildKnown'
      BY <1>1, <1>2, <1>3, <3>1 DEF InterruptsAgree, ChildKnown, At, Behind
    <3>4. AwaitsOne'
      BY <1>1, <1>2, <1>3, <3>1, ProcsSame, CalmBefore DEF AwaitsOne, Behind
    <3>5. LeftBehind'
      BY <1>1, <1>2, <1>3, <3>1, ProcsSame DEF LeftBehind, Behind
    <3> QED
      BY <1>4, <3>2, <3>3, <3>4, <3>5 DEF ShellIInv
  <2> QED
    BY <2>5, <2>6
<1> QED
  BY <1>6, <1>7, <1>8

\* A step of the processes forked: they go on, and what is new is not the shell's child.
ProcsGo ==
    /\ DOMAIN procs \subseteq DOMAIN procs'
    /\ \A p \in DOMAIN procs :
          /\ procs'[p].parent = procs[p].parent /\ procs'[p].bg = procs[p].bg /\ procs'[p].masked = procs[p].masked
          /\ IsChild(p)' <=> IsChild(p)
          /\ Ended(p) => procs'[p].st \in {"zombie", "reaped"}
          /\ procs'[p].st \in {"forked", "grouped"} => Young(p)
    /\ \A p \in DOMAIN procs' \ DOMAIN procs :
          /\ procs'[p].parent = "init" /\ procs'[p].bg /\ ush = "ush6"
          /\ Jumps => procs'[p].masked

LEMMA ProcsGoKeeps ==
    ASSUME ShellIInv, UNCHANGED <<ush, step, okaytojump, masked, childpid, background, jumps>>,
           procs' \in Seq(Commands), ProcsGo,
           interrupts' \in Nat, sigint' \in BOOLEAN, shells' \in Nat \ {0},
           interrupts' = 0 => interrupts = 0 /\ ~sigint', ush # "ush1" => shells' = 1, shells' = 1 => shells = 1
    PROVE  ShellIInv'
<1>2. ShellTypes /\ CommandsAgree /\ InterruptsAgree /\ ChildKnown /\ AwaitsOne /\ LeftBehind
  BY DEF ShellIInv
<1>3. Steps' = Steps /\ (Jumps' <=> Jumps) /\ (Behind' <=> Behind) /\ (At("fork")' <=> At("fork"))
  BY ShellFixed DEF Behind, At
<1>4. ShellTypes'
  BY <1>2, <1>3 DEF ShellTypes
<1>5. CommandsAgree'
  <2> SUFFICES ASSUME NEW p \in DOMAIN procs'
               PROVE  (procs'[p].parent = "init" => procs'[p].bg)
                      /\ (Jumps /\ procs'[p].st \in {"forked", "grouped"} => procs'[p].masked)
    BY <1>3 DEF CommandsAgree, Young
  <2>1. CASE p \in DOMAIN procs
    BY <1>2, <2>1 DEF CommandsAgree, ProcsGo
  <2>2. CASE p \notin DOMAIN procs
    BY <2>2 DEF ProcsGo
  <2> QED
    BY <2>1, <2>2
<1>6. InterruptsAgree'
  <2>1. ush = "ush4" => DOMAIN procs' = DOMAIN procs
    BY DEF ProcsGo
  <2> QED
    BY <1>2, <1>3, <2>1 DEF InterruptsAgree
<1>7. ChildKnown'
  BY <1>2, <1>3 DEF ChildKnown, ProcsGo
<1>8. ShellChildren' = ShellChildren
  BY DEF ShellChildren, IsChild, ProcsGo
<1>9. LeftBehind'
  BY <1>2, <1>3, <1>8 DEF LeftBehind
<1>10. AwaitsOne'
  <2> SUFFICES ASSUME Calm', step # 0, NEW p \in DOMAIN procs', Owed(p)' PROVE Behind /\ p = childpid
    BY <1>3 DEF AwaitsOne
  <2>1. Calm
    BY DEF Calm, ProcsGo
  <2>2. p \in DOMAIN procs
    BY DEF ProcsGo, Owed, IsChild
  <2>3. Owed(p)
    BY <2>2 DEF ProcsGo, Owed, Ended
  <2> QED
    BY <1>2, <2>1, <2>2, <2>3 DEF AwaitsOne
<1> QED
  BY <1>4, <1>5, <1>6, <1>7, <1>9, <1>10 DEF ShellIInv

\* One process changes its state, and perhaps its group.
LEMMA OneGoes ==
    ASSUME ShellIInv, NEW p \in DOMAIN procs, NEW c \in Commands, procs' = [procs EXCEPT ![p] = c], ush' = ush,
           c.parent = procs[p].parent, c.bg = procs[p].bg, c.masked = procs[p].masked,
           c.parent = "shell" => (c.st = "reaped" <=> procs[p].st = "reaped"),
           Ended(p) => c.st \in {"zombie", "reaped"}, c.st \in {"forked", "grouped"} => Young(p)
    PROVE  procs' \in Seq(Commands) /\ ProcsGo
<1>1. procs \in Seq(Commands)
  BY DEF ShellIInv, ShellTypes
<1>2. /\ procs' \in Seq(Commands) /\ DOMAIN procs' = DOMAIN procs /\ procs'[p] = c
      /\ \A q \in DOMAIN procs : q # p => procs'[q] = procs[q]
  BY <1>1, CommandChanges
<1>3. ASSUME NEW q \in DOMAIN procs
      PROVE  /\ procs'[q].parent = procs[q].parent /\ procs'[q].bg = procs[q].bg /\ procs'[q].masked = procs[q].masked
             /\ IsChild(q)' <=> IsChild(q)
             /\ Ended(q) => procs'[q].st \in {"zombie", "reaped"}
             /\ procs'[q].st \in {"forked", "grouped"} => Young(q)
  <2>1. CASE q = p
    BY <1>2, <2>1 DEF IsChild
  <2>2. CASE q # p
    BY <1>2, <2>2 DEF IsChild, Ended, Young
  <2> QED
    BY <2>1, <2>2
<1> QED
  BY <1>2, <1>3 DEF ProcsGo

\* A process that has not ended ends, or goes on to another state.
LEMMA CommandGoes ==
    ASSUME ShellIInv, ush' = ush, NEW p \in DOMAIN procs, ~Ended(p),
           \/ CommandDone(p)
           \/ procs' = [procs EXCEPT ![p].st = "running"]
           \/ procs[p].st = "forked" /\ procs' = [procs EXCEPT ![p].st = "grouped", ![p].group = "own"]
           \/ procs[p].parent = "shell" /\ procs' = [procs EXCEPT ![p].st = "zombie"]
    PROVE  procs' \in Seq(Commands) /\ ProcsGo
<1>1. procs[p] \in Commands
  BY DEF ShellIInv, ShellTypes
<1>2. \E st \in CommandStates, group \in {"shell", "own"} :
          /\ procs' = [procs EXCEPT ![p] = [procs[p] EXCEPT !.st = st, !.group = group]]
          /\ st \in {"zombie", "reaped", "running"} \/ procs[p].st = "forked"
          /\ procs[p].parent = "shell" => st # "reaped"
  <2>1. CASE CommandDone(p)
    <3> DEFINE s == IF procs[p].parent = "init" THEN "reaped" ELSE "zombie"
    <3>1. procs' = [procs EXCEPT ![p] = [procs[p] EXCEPT !.st = s, !.group = procs[p].group]]
      BY <1>1, <2>1 DEF CommandDone, Commands
    <3> QED
      BY <1>1, <3>1 DEF Commands, CommandStates
  <2>2. CASE procs' = [procs EXCEPT ![p].st = "running"]
    <3>1. procs' = [procs EXCEPT ![p] = [procs[p] EXCEPT !.st = "running", !.group = procs[p].group]]
      BY <1>1, <2>2 DEF Commands
    <3> QED
      BY <1>1, <3>1 DEF Commands, CommandStates
  <2>3. CASE procs[p].st = "forked" /\ procs' = [procs EXCEPT ![p].st = "grouped", ![p].group = "own"]
    <3>1. procs' = [procs EXCEPT ![p] = [procs[p] EXCEPT !.st = "grouped", !.group = "own"]]
      BY <1>1, <2>3 DEF Commands
    <3> QED
      BY <2>3, <3>1 DEF CommandStates
  <2>4. CASE procs[p].parent = "shell" /\ procs' = [procs EXCEPT ![p].st = "zombie"]
    <3>1. procs' = [procs EXCEPT ![p] = [procs[p] EXCEPT !.st = "zombie", !.group = procs[p].group]]
      BY <1>1, <2>4 DEF Commands
    <3> QED
      BY <1>1, <3>1 DEF Commands, CommandStates
  <2> QED
    BY <2>1, <2>2, <2>3, <2>4
<1>3. PICK st \in CommandStates, group \in {"shell", "own"} :
          /\ procs' = [procs EXCEPT ![p] = [procs[p] EXCEPT !.st = st, !.group = group]]
          /\ st \in {"zombie", "reaped", "running"} \/ procs[p].st = "forked"
          /\ procs[p].parent = "shell" => st # "reaped"
  BY <1>2
<1> DEFINE c == [procs[p] EXCEPT !.st = st, !.group = group]
<1>4. c \in Commands /\ c.st = st /\ c.parent = procs[p].parent /\ c.bg = procs[p].bg /\ c.masked = procs[p].masked
  BY <1>1 DEF Commands
<1>5. procs' = [procs EXCEPT ![p] = c]
  BY <1>3
<1> HIDE DEF c
<1>6. procs[p].st \notin {"zombie", "reaped"}
  BY DEF Ended
<1>7. c.parent = "shell" => (c.st = "reaped" <=> procs[p].st = "reaped")
  BY <1>3, <1>4, <1>6
<1>8. c.st \in {"forked", "grouped"} => Young(p)
  BY <1>3, <1>4 DEF Young
<1> QED
  BY <1>4, <1>5, <1>7, <1>8, OneGoes

LEMMA CommandStepKeeps ==
    ASSUME ShellIInv, NEW p \in DOMAIN procs, NewGroup(p) \/ RunCommand(p) \/ ExecFails(p) \/ CommandEnds(p)
    PROVE  ShellIInv'
<1>1. /\ UNCHANGED <<ush, step, okaytojump, masked, sigint, childpid, background, interrupts, jumps>>
      /\ shells' = shells \/ (ush = "ush1" /\ shells' = shells + 1)
  BY DEF NewGroup, RunCommand, ExecFails, CommandEnds, line, counts
<1>2. ShellTypes /\ (ush # "ush1" => shells = 1) /\ (interrupts = 0 => ~sigint)
  BY DEF ShellIInv, InterruptsAgree
<1>3. procs[p].st \in {"forked", "grouped", "running"} /\ ~Ended(p)
  BY DEF NewGroup, RunCommand, ExecFails, CommandEnds, Ended
<1>4. procs' \in Seq(Commands) /\ ProcsGo
  BY <1>1, <1>3, CommandGoes DEF NewGroup, RunCommand, ExecFails, CommandEnds
<1>5. shells' \in Nat \ {0} /\ (ush # "ush1" => shells' = 1) /\ (shells' = 1 => shells = 1)
  BY <1>1, <1>2 DEF ShellTypes
<1>6. interrupts' \in Nat /\ sigint' \in BOOLEAN /\ (interrupts' = 0 => interrupts = 0 /\ ~sigint')
  BY <1>1, <1>2 DEF ShellTypes
<1> QED
  BY <1>1, <1>4, <1>5, <1>6, ProcsGoKeeps

LEMMA SecondForkKeeps ==
    ASSUME ShellIInv, NEW p \in DOMAIN procs, SecondFork(p)
    PROVE  ShellIInv'
<1>1. /\ UNCHANGED <<ush, step, okaytojump, masked, sigint, childpid, background, interrupts, jumps, shells>>
      /\ ush = "ush6" /\ procs[p].st = "forked" /\ procs[p].parent = "shell"
  BY DEF SecondFork, line, counts
<1>2. ShellTypes /\ InterruptsAgree /\ procs \in Seq(Commands) /\ procs[p] \in Commands
      /\ (Jumps => procs[p].masked)
  BY <1>1 DEF ShellIInv, ShellTypes, CommandsAgree, Young
<1> DEFINE d == [procs[p] EXCEPT !.st = "zombie"]
           ended == [procs EXCEPT ![p] = d]
           c == [Process(TRUE, procs[p].masked) EXCEPT !.parent = "init"]
<1>3. d \in Commands /\ d.st = "zombie" /\ d.parent = procs[p].parent /\ d.bg = procs[p].bg /\ d.masked = procs[p].masked
  BY <1>2 DEF Commands, CommandStates
<1>4. c \in Commands /\ c.parent = "init" /\ c.bg /\ c.masked = procs[p].masked
  BY <1>2 DEF Commands, CommandStates, Process
<1>5. procs' = Append(ended, c) \/ procs' = ended
  BY DEF SecondFork
<1> HIDE DEF d, c
<1>6. /\ ended \in Seq(Commands) /\ DOMAIN ended = DOMAIN procs /\ ended[p] = d
      /\ \A q \in DOMAIN procs : q # p => ended[q] = procs[q]
  BY <1>2, <1>3, CommandChanges
<1> HIDE DEF ended
<1>7. /\ procs' \in Seq(Commands) /\ DOMAIN procs \subseteq DOMAIN procs'
      /\ \A q \in DOMAIN procs : procs'[q] = ended[q]
      /\ \A q \in DOMAIN procs' \ DOMAIN procs : procs'[q] = c
  <2>1. CASE procs' = ended
    BY <1>6, <2>1
  <2>2. CASE procs' = Append(ended, c)
    BY <1>4, <1>6, <2>2, CommandAdded
  <2> QED
    BY <1>5, <2>1, <2>2
<1>8. ASSUME NEW q \in DOMAIN procs
      PROVE  /\ procs'[q].parent = procs[q].parent /\ procs'[q].bg = procs[q].bg /\ procs'[q].masked = procs[q].masked
             /\ IsChild(q)' <=> IsChild(q)
             /\ Ended(q) => procs'[q].st \in {"zombie", "reaped"}
             /\ procs'[q].st \in {"forked", "grouped"} => Young(q)
  <2>1. CASE q = p
    BY <1>1, <1>3, <1>6, <1>7, <2>1 DEF IsChild
  <2>2. CASE q # p
    BY <1>6, <1>7, <2>2 DEF IsChild, Ended, Young
  <2> QED
    BY <2>1, <2>2
<1>9. ProcsGo
  BY <1>1, <1>2, <1>4, <1>7, <1>8 DEF ProcsGo
<1>10. shells' \in Nat \ {0} /\ (ush # "ush1" => shells' = 1) /\ (shells' = 1 => shells = 1)
  BY <1>1, <1>2 DEF ShellTypes, InterruptsAgree
<1>11. interrupts' \in Nat /\ sigint' \in BOOLEAN /\ (interrupts' = 0 => interrupts = 0 /\ ~sigint')
  BY <1>1, <1>2 DEF ShellTypes, InterruptsAgree
<1> QED
  BY <1>1, <1>7, <1>9, <1>10, <1>11, ProcsGoKeeps

LEMMA InterruptKeeps == ASSUME ShellIInv, Interrupt PROVE ShellIInv'
<1> DEFINE group == {p \in DOMAIN procs : procs[p].group = "shell" /\ procs[p].st \notin {"zombie", "reaped"}}
           early == {p \in group : procs[p].st # "running" /\ ~Default}
           unsafe == {p \in early : ~procs[p].masked /\ Jumps}
<1>1. UNCHANGED <<ush, step, okaytojump, masked, childpid, background, jumps>> /\ interrupts' = interrupts + 1 /\ sigint' = TRUE
  BY DEF Interrupt, line
<1>2. PICK dies \in SUBSET (group \ early) :
          procs' = [p \in DOMAIN procs |->
                       IF p \in dies THEN [procs[p] EXCEPT !.st = "zombie"]
                       ELSE IF p \in early /\ procs[p].masked THEN [procs[p] EXCEPT !.pending = TRUE]
                       ELSE procs[p]]
          /\ shells' = shells + Cardinality(unsafe)
  BY DEF Interrupt
<1>3. ShellTypes /\ CommandsAgree /\ InterruptsAgree /\ procs \in Seq(Commands) /\ \A p \in DOMAIN procs : procs[p] \in Commands
  BY DEF ShellIInv, ShellTypes
<1>4. dies \subseteq {p \in DOMAIN procs : procs[p].st \notin {"zombie", "reaped"}}
  OBVIOUS
<1>5. unsafe = {}
  <2> SUFFICES ASSUME NEW p \in unsafe PROVE FALSE
    OBVIOUS
  <2>1. p \in DOMAIN procs /\ Jumps /\ ~procs[p].masked /\ procs[p].st \notin {"zombie", "reaped", "running"}
    OBVIOUS
  <2>2. Young(p)
    BY <1>3, <2>1 DEF Commands, CommandStates, Young
  <2> QED
    BY <1>3, <2>1, <2>2 DEF CommandsAgree
<1> HIDE DEF group, early, unsafe
<1>6. shells' = shells
  <2>1. Cardinality(unsafe) = 0
    BY <1>5, FS_EmptySet
  <2>2. shells' = shells + Cardinality(unsafe) /\ shells \in Nat
    BY <1>2, <1>3 DEF ShellTypes
  <2> QED
    BY <2>1, <2>2
<1>7. ASSUME NEW p \in DOMAIN procs
      PROVE  /\ procs'[p] \in Commands
             /\ procs'[p].parent = procs[p].parent /\ procs'[p].bg = procs[p].bg /\ procs'[p].masked = procs[p].masked
             /\ procs'[p].st = procs[p].st \/ (~Ended(p) /\ procs'[p].st = "zombie")
  <2>1. procs[p] \in Commands
    BY <1>3
  <2>2. CASE p \in dies
    BY <1>2, <1>4, <2>1, <2>2 DEF Commands, CommandStates, Ended
  <2>3. CASE p \notin dies
    BY <1>2, <2>1, <2>3 DEF Commands
  <2> QED
    BY <2>2, <2>3
<1>8. procs' = [p \in DOMAIN procs |-> procs'[p]]
  BY <1>2
<1>9. procs' \in Seq(Commands) /\ DOMAIN procs' = DOMAIN procs
  BY <1>3, <1>7, <1>8, CommandsChange
<1>10. ProcsGo
  BY <1>7, <1>9 DEF ProcsGo, IsChild, Ended, Young
<1>11. shells' \in Nat \ {0} /\ (ush # "ush1" => shells' = 1) /\ (shells' = 1 => shells = 1)
  BY <1>3, <1>6 DEF ShellTypes, InterruptsAgree
<1>12. interrupts' \in Nat /\ sigint' \in BOOLEAN /\ interrupts' # 0
  BY <1>1, <1>3 DEF ShellTypes
<1> QED
  BY <1>1, <1>9, <1>10, <1>11, <1>12, ProcsGoKeeps

LEMMA ShellInduction == ShellIInv /\ [ShellNext]_shvars => ShellIInv'
<1> SUFFICES ASSUME ShellIInv, [ShellNext]_shvars PROVE ShellIInv'
  OBVIOUS
<1>1. CASE UNCHANGED shvars
  BY <1>1 DEF shvars, ShellIInv, ShellTypes, CommandsAgree, InterruptsAgree, ChildKnown, AwaitsOne, LeftBehind,
              Steps, Jumps, Young, At, Behind, Calm, Owed, IsChild, Ended, ShellChildren
<1>2. CASE ShellStep
  BY <1>2, SetOkayKeeps, ReadCommandKeeps, BlockSignalsKeeps, ForkCommandKeeps, ForkFailsKeeps, UnblockSignalsKeeps,
     WaitForCommandKeeps, SkipWaitKeeps, ReapAllKeeps, CatchKeeps DEF ShellStep
<1>3. CASE ChildStep
  BY <1>3, CommandStepKeeps, SecondForkKeeps DEF ChildStep
<1>4. CASE Interrupt
  BY <1>4, InterruptKeeps
<1> QED
  BY <1>1, <1>2, <1>3, <1>4 DEF ShellNext

LEMMA ShellIInvWaits == ShellIInv => ShellWaits
<1> SUFFICES ASSUME ShellIInv PROVE ShellWaits
  OBVIOUS
<1>1. ShellTypes /\ InterruptsAgree /\ AwaitsOne /\ LeftBehind
  BY DEF ShellIInv
<1>2. At("read") => step # 0 /\ ~Behind
  BY DEF At, Behind, WaitSteps
<1>3. ASSUME At("read"), Calm, NEW p \in DOMAIN procs
      PROVE  procs[p].bg \/ procs[p].st \in {"zombie", "reaped"}
  <2>1. ~Owed(p)
    BY <1>1, <1>2, <1>3 DEF AwaitsOne
  <2>2. procs[p] \in Commands /\ (procs[p].parent = "init" => procs[p].bg)
    BY <1>1 DEF ShellTypes, ShellIInv, CommandsAgree
  <2> QED
    BY <2>1, <2>2 DEF Owed, IsChild, Ended, Commands
<1>4. ASSUME At("read"), ush \in {"ush2", "ush3", "ush6"}
      PROVE  Cardinality({p \in DOMAIN procs : IsChild(p)}) <= jumps
  <2>1. Cardinality(ShellChildren) <= jumps + 0 /\ jumps \in Nat /\ Cardinality(ShellChildren) \in Nat
    BY <1>1, <1>2, <1>4, ChildrenFinite DEF LeftBehind, ShellTypes
  <2> QED
    BY <2>1 DEF ShellChildren
<1> QED
  BY <1>1, <1>3, <1>4 DEF ShellWaits, InterruptsAgree, Calm

\* However ^C comes between the fork of a command and the command's own handling
\* of signals, no child of the shells but ush1 runs the shell's loop: signals are
\* blocked from before the fork until the handler is set.  At a prompt the
\* foreground commands have ended, and each jump leaves at most one child that
\* nobody waits for.
THEOREM ShWaits == ShellSpec => []ShellWaits
<1>1. ShellInit => ShellIInv
  BY ShellInitially
<1>2. ShellIInv /\ [ShellNext]_shvars => ShellIInv'
  BY ShellInduction
<1>3. ShellIInv => ShellWaits
  BY ShellIInvWaits
<1> QED
  BY <1>1, <1>2, <1>3, PTL DEF ShellSpec

-----------------------------------------------------------------------------
(* The programs of IpcPrograms.                                            *)

Msg == [from : QWriters, n : Nat]
IpcTypes ==
    /\ qpc \in [QWriters -> {"init", "header", "read", "write", "end"}]
    /\ input \in [QWriters -> Nat] /\ sent \in [QWriters -> Seq(Nat)]
    /\ queue \in Seq(Msg) /\ era \in {1, 2, 3}
    /\ queueid \in [QWriters \cup {"save"} -> {0, 1, 3}]
    /\ qsave \in {"init", "read", "write", "end"}
    /\ message \in Seq(Msg) /\ Len(message) <= 1 /\ output \in Seq(Msg)

\* A writer numbers its lines in order, the header first, and sends them in it.
SentOf(w) ==
    /\ \A k \in 1..Len(sent[w]) : sent[w][k] = IF k <= QLines + 1 THEN k ELSE 0
    /\ qpc[w] \in {"init", "header"} => sent[w] = <<>> /\ input[w] = 0
    /\ qpc[w] = "init" => queueid[w] = 0
    /\ sent[w] # <<>> => queueid[w] # 0
    /\ qpc[w] = "read" => Len(sent[w]) = input[w] + 1
    /\ qpc[w] = "write" => Len(sent[w]) = input[w]
SentInOrder == \A w \in QWriters : SentOf(w)

\* A line is taken from the queue when it is read; the last one read may not be saved.
Taken(m) == m \in Range(output) \cup Range(message)
Sent(m) == m.n <= Len(sent[m.from])

QueueIds ==
    /\ \A u \in QWriters \cup {"save"} : queueid[u] <= era
    /\ era = 2 => queue = <<>>

\* A message in the queue has its predecessor before it, in the queue or taken,
\* and is nowhere else.
Queued(i) ==
    /\ HasQueue(queue[i].from) /\ Sent(queue[i])
    /\ queue[i].n > 1 => \/ \E j \in 1..(i - 1) : queue[j] = Line(queue[i].from, queue[i].n - 1)
                         \/ Taken(Line(queue[i].from, queue[i].n - 1))
    /\ queue[i].n # 0 => ~Taken(queue[i]) /\ \A j \in 1..Len(queue) : queue[i] = queue[j] => i = j
QueueKept == \A i \in 1..Len(queue) : Queued(i)

\* No line sent to the queue that stands is lost.
NoneLost ==
    \A w \in QWriters : HasQueue(w) => \A n \in 1..Len(sent[w]) :
        n <= QLines + 1 => Line(w, n) \in Range(queue) \/ Taken(Line(w, n))

\* What is to be saved next follows what is saved.
SaveKept ==
    /\ qsave = "init" => output = <<>> /\ message = <<>>
    /\ qsave = "write" => message # <<>>
    /\ qsave = "read" /\ message # <<>> /\ message[1].n # 0 => message[1] \in Range(output)
    /\ message # <<>> => Sent(message[1])
    /\ qsave = "write" /\ message[1].n # 0 =>
           /\ message[1] \notin Range(output)
           /\ message[1].n > 1 => Line(message[1].from, message[1].n - 1) \in Range(output)

\* What is saved.
Saved(i) ==
    /\ output[i].n # 0 /\ Sent(output[i])
    /\ output[i].n > 1 => \E j \in 1..(i - 1) : output[j] = Line(output[i].from, output[i].n - 1)
    /\ \A j \in 1..Len(output) : output[i] = output[j] => i = j
SavedInOrder == \A i \in 1..Len(output) : Saved(i)

\* monitorshared: the segment holds the child's bytes once it has left.
MonitorKept ==
    /\ mon \in [Both -> {"unborn", "fork", "copy", "leave", "wait", "remove", "exit", "killed"}]
    /\ mon["child"] \in {"unborn", "copy", "leave", "exit", "killed"}
    /\ mon["parent"] \in {"fork", "copy", "wait", "remove", "exit"}
    /\ bytes \in [Both -> Nat]
    /\ mon["child"] = "unborn" <=> mon["parent"] = "fork" \/ (mon["parent"] = "exit" /\ reported = <<>>)
    /\ mon["parent"] \in {"remove", "exit"} /\ reported # <<>> => mon["child"] \in {"exit", "killed"}
    /\ mon["parent"] = "remove" => reported # <<>>
    /\ mon["parent"] \in {"fork", "copy", "wait"} => reported = <<>>
    /\ mon["parent"] = "exit" => totals = <<>>
    /\ mon["parent"] # "exit" => totals = <<IF mon["child"] = "exit" THEN bytes["child"] ELSE 0>>
    /\ reported # <<>> /\ mon["child"] # "killed" => reported[1] = bytes["parent"] + bytes["child"]

ShownKept ==
    /\ shown \in [masked : BOOLEAN, announced : BOOLEAN, handler : BOOLEAN, pending : BOOLEAN, killed : BOOLEAN]
    /\ shown.announced => ~shown.killed /\ (shown.handler \/ shown.masked)

\* initsemset: one creator at most, and the flag after the value.
SemsetKept ==
    /\ initer \in [QWriters -> {"get", "init", "ready", "access", "sleep", "in", "failed"}]
    /\ semset \in [exists : BOOLEAN, set : BOOLEAN, ready : BOOLEAN]
    /\ semset.ready => semset.set
    /\ \A w \in QWriters :
        /\ initer[w] \in {"ready", "in"} => semset.set
        /\ initer[w] \in {"init", "ready", "failed"} =>
               semset.exists /\ \A u \in QWriters : initer[u] \in {"init", "ready", "failed"} => u = w

QueueIInv == IpcTypes /\ SentInOrder /\ QueueIds /\ QueueKept /\ NoneLost /\ SaveKept /\ SavedInOrder
IpcIInv == QueueIInv /\ MonitorKept /\ ShownKept /\ SemsetKept

LEMMA IpcInitKept == IpcInit => IpcIInv
<1> SUFFICES ASSUME IpcInit PROVE IpcIInv
  OBVIOUS
<1>1. IpcTypes /\ SentInOrder /\ QueueIds /\ QueueKept /\ NoneLost /\ SaveKept /\ SavedInOrder
  BY DEF IpcInit, IpcTypes, SentInOrder, SentOf, QueueIds, QueueKept, NoneLost, SaveKept, SavedInOrder
<1>2. MonitorKept
  BY DEF IpcInit, MonitorKept, Both
<1>3. ShownKept
  BY DEF IpcInit, ShownKept
<1>4. SemsetKept
  BY DEF IpcInit, SemsetKept
<1> QED  BY <1>1, <1>2, <1>3, <1>4 DEF IpcIInv, QueueIInv

-----------------------------------------------------------------------------
(* monitorshared, showshared and initsemset.                               *)

LEMMA MonitorKeptStep == MonitorKept /\ (Monitor \/ ChildKilled) => MonitorKept'
<1> SUFFICES ASSUME MonitorKept, Monitor \/ ChildKilled PROVE MonitorKept'
  OBVIOUS
<1> USE DEF MonitorKept, Both, MonGo
<1>1. CASE ForkMonitor
  BY <1>1 DEF ForkMonitor
<1>2. ASSUME NEW p \in Both, CopyBlock(p) PROVE MonitorKept'
  <2>1. CASE p = "child"
    BY <1>2, <2>1 DEF CopyBlock
  <2>2. CASE p = "parent"
    BY <1>2, <2>2 DEF CopyBlock
  <2> QED  BY <2>1, <2>2
<1>3. CASE ChildLeaves
  BY <1>3 DEF ChildLeaves
<1>4. CASE WaitReport
  BY <1>4 DEF WaitReport
<1>5. CASE detachandremove
  BY <1>5 DEF detachandremove
<1>6. CASE ChildKilled
  BY <1>6 DEF ChildKilled
<1> QED  BY <1>1, <1>2, <1>3, <1>4, <1>5, <1>6 DEF Monitor

LEMMA ShownKeptStep == ShownKept /\ (SetUpShow \/ SendShow \/ TakeShow) => ShownKept'
<1> SUFFICES ASSUME ShownKept, SetUpShow \/ SendShow \/ TakeShow PROVE ShownKept'
  OBVIOUS
<1> USE DEF ShownKept
<1>1. CASE SetUpShow
  BY <1>1 DEF SetUpShow
<1>2. CASE SendShow
  BY <1>2 DEF SendShow
<1>3. CASE TakeShow
  <2>1. shown.handler \in BOOLEAN
    OBVIOUS
  <2>2. CASE shown.handler
    BY <1>3, <2>2 DEF TakeShow
  <2>3. CASE ~shown.handler
    BY <1>3, <2>3 DEF TakeShow
  <2> QED  BY <2>2, <2>3
<1> QED  BY <1>1, <1>2, <1>3

LEMMA SemsetKeptStep ==
  ASSUME NEW w \in QWriters, SemsetKept, initsemset(w) \/ InitKilled(w)
  PROVE  SemsetKept'
<1> USE DEF SemsetKept, InitGo
<1>1. CASE CreateSet(w)
  BY <1>1 DEF CreateSet
<1>2. CASE initelement(w)
  <2>1. CASE InitGo(w, "init", "ready") /\ semset' = [semset EXCEPT !.set = TRUE]
    BY <2>1
  <2>2. CASE InitGo(w, "init", "failed") /\ UNCHANGED semset
    BY <2>2
  <2> QED
    BY <1>2, <2>1, <2>2 DEF initelement
<1>3. CASE MarkReady(w)
  BY <1>3 DEF MarkReady
<1>4. CASE AccessSet(w)
  BY <1>4 DEF AccessSet
<1>5. CASE InitKilled(w)
  BY <1>5 DEF InitKilled
<1> QED  BY <1>1, <1>2, <1>3, <1>4, <1>5 DEF initsemset

-----------------------------------------------------------------------------
(* The queue is opened or made.                                            *)

\* Whoever had the queue has it still; a queue just made is empty.
LEMMA OpenQueueIds ==
  ASSUME NEW u \in QWriters \cup {"save"}, QueueIInv, initqueue(u)
  PROVE  /\ era' \in {1, 3} /\ (era # 2 => era' = era) /\ (era = 2 => era' = 3 /\ queue = <<>>)
         /\ queueid' \in [QWriters \cup {"save"} -> {0, 1, 3}] /\ queueid'[u] = era'
         /\ \A v \in QWriters \cup {"save"} : v # u => queueid'[v] = queueid[v]
         /\ QueueIds'
<1> USE DEF QueueIInv, IpcTypes
<1>1. era' \in {1, 3} /\ (era # 2 => era' = era) /\ (era = 2 => era' = 3)
  BY DEF initqueue, Standing
<1>2. /\ queueid' = [queueid EXCEPT ![u] = era'] /\ queue' = queue
  BY DEF initqueue
<1>3. queueid' \in [QWriters \cup {"save"} -> {0, 1, 3}] /\ queueid'[u] = era'
      /\ \A v \in QWriters \cup {"save"} : v # u => queueid'[v] = queueid[v]
  BY <1>1, <1>2
<1>4. (era = 2 => queue = <<>>) /\ \A v \in QWriters \cup {"save"} : queueid[v] <= era
  BY DEF QueueIds
<1>5. QueueIds'
  <2> SUFFICES ASSUME NEW v \in QWriters \cup {"save"} PROVE queueid'[v] <= era'
    BY <1>1 DEF QueueIds
  <2>1. CASE v = u
    BY <1>1, <1>3, <2>1
  <2>2. CASE v # u
    <3>1. queueid'[v] = queueid[v] /\ queueid[v] <= era /\ queueid[v] \in {0, 1, 3}
      BY <1>3, <1>4, <2>2
    <3> QED  BY <1>1, <3>1
  <2> QED  BY <2>1, <2>2
<1> QED  BY <1>1, <1>3, <1>4, <1>5

LEMMA OpenQueueKept ==
  ASSUME NEW u \in QWriters \cup {"save"}, QueueIInv, initqueue(u),
         UNCHANGED <<sent, message, output>>, u \in QWriters => sent[u] = <<>>
  PROVE  QueueKept' /\ NoneLost'
<1>0. /\ era' \in {1, 3} /\ (era # 2 => era' = era) /\ (era = 2 => era' = 3 /\ queue = <<>>)
      /\ queueid'[u] = era'
      /\ \A v \in QWriters \cup {"save"} : v # u => queueid'[v] = queueid[v]
  BY OpenQueueIds
<1> USE DEF QueueIInv, IpcTypes
<1>1. queue' = queue /\ sent' = sent /\ message' = message /\ output' = output
  BY DEF initqueue
<1>2. \A v \in QWriters : v # u /\ queue # <<>> => (HasQueue(v)' <=> HasQueue(v))
  BY <1>0 DEF HasQueue, Standing
<1>3. \A v \in QWriters : v # u /\ HasQueue(v)' => HasQueue(v)
  <2> SUFFICES ASSUME NEW v \in QWriters, v # u, HasQueue(v)' PROVE HasQueue(v)
    OBVIOUS
  <2>1. queueid[v] <= era /\ queueid[v] \in {0, 1, 3} /\ queueid[v] = era'
    BY <1>0 DEF HasQueue, QueueIds
  <2>2. era # 2
    BY <2>1, <1>0
  <2> QED  BY <2>1, <2>2, <1>0 DEF HasQueue, Standing
<1>4. QueueKept'
  <2> SUFFICES ASSUME NEW i \in 1..Len(queue) PROVE Queued(i)'
    BY <1>1 DEF QueueKept
  <2>1. Queued(i) /\ queue # <<>>
    BY DEF QueueKept
  <2>4. queue[i] \in Msg
    OBVIOUS
  <2>0. queue[i].from \in QWriters
    BY <2>4 DEF Msg
  <2>2. CASE queue[i].from = u
    BY <1>1, <2>0, <2>1, <2>2, <1>0 DEF Queued, HasQueue, Standing, Sent, Taken
  <2>3. CASE queue[i].from # u
    <3>1. HasQueue(queue[i].from)'
      BY <1>1, <1>2, <2>0, <2>1, <2>3 DEF Queued, HasQueue
    <3> QED  BY <1>1, <2>1, <3>1 DEF Queued, Sent, Taken, Line
  <2> QED  BY <2>2, <2>3
<1>5. NoneLost'
  <2> SUFFICES ASSUME NEW v \in QWriters, HasQueue(v)', NEW n \in 1..Len(sent[v]), n <= QLines + 1
               PROVE  Line(v, n) \in Range(queue) \/ Taken(Line(v, n))
    BY <1>1 DEF NoneLost, Taken, Line
  <2>1. v # u
    OBVIOUS
  <2> QED  BY <1>3, <2>1 DEF NoneLost
<1> QED  BY <1>4, <1>5

LEMMA StartWriterKept ==
  ASSUME NEW w \in QWriters, QueueIInv, StartWriter(w)
  PROVE  QueueIInv'
<1> USE DEF QueueIInv, IpcTypes
<1>1. /\ qpc[w] = "init" /\ qpc' = [qpc EXCEPT ![w] = "header"] /\ initqueue(w)
      /\ input' = input /\ sent' = sent /\ qsave' = qsave /\ message' = message /\ output' = output
      /\ queue' = queue
  BY DEF StartWriter, QGo, savevars, initqueue
<1>2. sent[w] = <<>> /\ input[w] = 0
  BY <1>1 DEF SentInOrder, SentOf
<1>3. IpcTypes'
  BY <1>1, OpenQueueIds
<1>4. SentInOrder'
  <2> SUFFICES ASSUME NEW v \in QWriters PROVE SentOf(v)'
    BY DEF SentInOrder
  <2>1. SentOf(v)
    BY DEF SentInOrder
  <2>2. CASE v = w
    BY <1>1, <1>2, <2>1, <2>2 DEF SentOf
  <2>3. CASE v # w
    <3>1. qpc'[v] = qpc[v] /\ queueid'[v] = queueid[v]
      BY <1>1, <2>3, OpenQueueIds
    <3> QED  BY <1>1, <2>1, <3>1 DEF SentOf
  <2> QED  BY <2>2, <2>3
<1>5. QueueIds' /\ QueueKept' /\ NoneLost'
  BY <1>1, <1>2, OpenQueueIds, OpenQueueKept
<1>6. SaveKept' /\ SavedInOrder'
  BY <1>1 DEF SaveKept, SavedInOrder, Saved, Sent, Line
<1> QED  BY <1>3, <1>4, <1>5, <1>6

LEMMA StartSaveKept ==
  ASSUME QueueIInv, StartSave
  PROVE  QueueIInv'
<1> USE DEF QueueIInv, IpcTypes
<1>1. /\ qsave = "init" /\ qsave' = "read" /\ initqueue("save")
      /\ qpc' = qpc /\ input' = input /\ sent' = sent /\ message' = message /\ output' = output
      /\ queue' = queue
  BY DEF StartSave, initqueue
<1>2. IpcTypes'
  BY <1>1, OpenQueueIds
<1>3. SentInOrder'
  <2>0. \A v \in QWriters \cup {"save"} : v # "save" => queueid'[v] = queueid[v]
    <3>1. "save" \in QWriters \cup {"save"}
      OBVIOUS
    <3> QED  BY <1>1, <3>1, OpenQueueIds
  <2>1. \A v \in QWriters : queueid'[v] = queueid[v]
    BY <2>0, IpcAssumption
  <2> QED  BY <1>1, <2>1 DEF SentInOrder, SentOf
<1>4. QueueIds' /\ QueueKept' /\ NoneLost'
  BY <1>1, OpenQueueIds, OpenQueueKept, IpcAssumption
<1>5. SaveKept' /\ SavedInOrder'
  BY <1>1 DEF SaveKept, SavedInOrder, Saved, Sent, Line
<1> QED  BY <1>2, <1>3, <1>4, <1>5

-----------------------------------------------------------------------------
(* A line is read and sent.                                                *)

LEMMA ReadInputKept ==
  ASSUME NEW w \in QWriters, QueueIInv, ReadInput(w)
  PROVE  QueueIInv'
<1> USE DEF QueueIInv, IpcTypes
<1>1. /\ qpc[w] = "read" /\ qpc' \in [QWriters -> {"init", "header", "read", "write", "end"}]
      /\ \/ qpc' = [qpc EXCEPT ![w] = "write"] /\ input' = [input EXCEPT ![w] = @ + 1]
         \/ qpc' = [qpc EXCEPT ![w] = "end"] /\ input' = input
      /\ sent' = sent /\ queue' = queue /\ era' = era /\ queueid' = queueid
      /\ qsave' = qsave /\ message' = message /\ output' = output
  BY DEF ReadInput, QGo, savevars
<1>2. IpcTypes'
  BY <1>1
<1>3. SentInOrder'
  <2> SUFFICES ASSUME NEW v \in QWriters PROVE SentOf(v)'
    BY DEF SentInOrder
  <2>1. SentOf(v)
    BY DEF SentInOrder
  <2>2. CASE v = w
    BY <1>1, <2>1, <2>2 DEF SentOf
  <2>3. CASE v # w
    BY <1>1, <2>1, <2>3 DEF SentOf
  <2> QED  BY <2>2, <2>3
<1>4. QueueIds' /\ QueueKept' /\ NoneLost' /\ SaveKept' /\ SavedInOrder'
  BY <1>1 DEF QueueIds, QueueKept, Queued, NoneLost, HasQueue, Standing, SaveKept, SavedInOrder, Saved, Sent, Line,
              Taken
<1> QED  BY <1>2, <1>3, <1>4

\* What SendMessage does when the queue stands.
Sends(w, n, from) ==
    /\ HasQueue(w) /\ qpc[w] = from /\ qpc' = [qpc EXCEPT ![w] = "read"]
    /\ queue' = Append(queue, Line(w, n)) /\ sent' = [sent EXCEPT ![w] = Append(@, n)]
    /\ UNCHANGED <<input, era, queueid, qsave, message, output>>

\* A line sent has the next number of its writer, or 0 after the last one.
LEMMA NextNumber ==
  ASSUME NEW w \in QWriters, NEW n \in Nat, NEW from \in {"header", "write"}, QueueIInv, qpc[w] = from,
         n = IF from = "header" THEN 1 ELSE IF input[w] <= QLines THEN input[w] + 1 ELSE 0
  PROVE  /\ Len(sent[w]) \in Nat /\ Len(sent[w]) = input[w]
         /\ n = IF Len(sent[w]) <= QLines THEN Len(sent[w]) + 1 ELSE 0
<1> USE DEF QueueIInv, IpcTypes
<1>1. SentOf(w) /\ sent[w] \in Seq(Nat) /\ input[w] \in Nat
  BY DEF SentInOrder
<1>2. Len(sent[w]) \in Nat
  BY <1>1
<1>3. Len(sent[w]) = input[w] /\ (from = "header" => input[w] = 0)
  <2>1. CASE from = "header"
    BY <1>1, <2>1 DEF SentOf
  <2>2. CASE from = "write"
    BY <1>1, <2>2 DEF SentOf
  <2> QED  BY <2>1, <2>2
<1> QED  BY <1>2, <1>3, IpcAssumption

LEMMA SendsSent ==
  ASSUME NEW w \in QWriters, NEW n \in Nat, NEW from, QueueIInv, Sends(w, n, from),
         Len(sent[w]) = input[w], n = IF Len(sent[w]) <= QLines THEN Len(sent[w]) + 1 ELSE 0
  PROVE  IpcTypes' /\ SentInOrder'
<1> USE DEF QueueIInv, Sends
<1>1. IpcTypes'
  <2>1. Line(w, n) \in Msg
    BY DEF Line, Msg
  <2> QED  BY <2>1 DEF IpcTypes
<1>2. SentInOrder'
  <2> SUFFICES ASSUME NEW v \in QWriters PROVE SentOf(v)'
    BY DEF SentInOrder
  <2>1. SentOf(v) /\ sent[v] \in Seq(Nat) /\ input[v] \in Nat
    BY DEF SentInOrder, IpcTypes
  <2>2. CASE v = w
    <3> DEFINE s == sent[w]
    <3>1. sent'[w] = Append(s, n) /\ qpc'[w] = "read" /\ input'[w] = input[w] /\ queueid'[w] = era /\ era # 0
      BY DEF IpcTypes, HasQueue
    <3>2. Len(s) \in Nat /\ Len(Append(s, n)) = Len(s) + 1 /\ Append(s, n)[Len(s) + 1] = n
          /\ \A k \in 1..Len(s) : Append(s, n)[k] = s[k]
      BY <2>1, <2>2
    <3>3. ASSUME NEW k \in 1..(Len(s) + 1)
          PROVE  Append(s, n)[k] = IF k <= QLines + 1 THEN k ELSE 0
      <4>1. CASE k = Len(s) + 1
        BY <3>2, <4>1, IpcAssumption
      <4>2. CASE k # Len(s) + 1
        <5>1. k \in 1..Len(s)
          BY <3>2, <4>2
        <5> QED  BY <2>1, <2>2, <3>2, <5>1 DEF SentOf
      <4> QED  BY <4>1, <4>2
    <3>4. Append(s, n) # <<>>
      BY <3>2
    <3> HIDE DEF s
    <3> QED  BY <2>2, <3>1, <3>2, <3>3, <3>4 DEF SentOf, s
  <2>3. CASE v # w
    <3>1. sent'[v] = sent[v] /\ qpc'[v] = qpc[v] /\ queueid' = queueid /\ input' = input
      BY <2>3 DEF IpcTypes
    <3> QED  BY <2>1, <3>1 DEF SentOf
  <2> QED  BY <2>2, <2>3
<1> QED  BY <1>1, <1>2

LEMMA SendsQueued ==
  ASSUME NEW w \in QWriters, NEW n \in Nat, NEW from, QueueIInv, Sends(w, n, from),
         n = IF Len(sent[w]) <= QLines THEN Len(sent[w]) + 1 ELSE 0
  PROVE  QueueIds' /\ QueueKept' /\ NoneLost' /\ SaveKept' /\ SavedInOrder'
<1> USE DEF QueueIInv
<1> DEFINE q == queue
           m == Line(w, n)
<1>1. /\ HasQueue(w) /\ queue' = Append(q, m) /\ sent' = [sent EXCEPT ![w] = Append(@, n)]
      /\ era' = era /\ queueid' = queueid /\ qsave' = qsave /\ message' = message /\ output' = output
  BY DEF Sends
<1>2. m.from = w /\ m.n = n /\ m \in Msg
  BY DEF Line, Msg
<1>3. q \in Seq(Msg) /\ Len(q) \in Nat /\ Len(Append(q, m)) = Len(q) + 1 /\ Append(q, m)[Len(q) + 1] = m
      /\ \A k \in 1..Len(q) : Append(q, m)[k] = q[k]
  BY <1>2 DEF IpcTypes
<1>4. /\ \A v \in QWriters : /\ Len(sent[v]) \in Nat /\ Len(sent'[v]) \in Nat /\ Len(sent[v]) <= Len(sent'[v])
                             /\ v # w => sent'[v] = sent[v]
      /\ Len(sent'[w]) = Len(sent[w]) + 1
  <2> SUFFICES ASSUME NEW v \in QWriters
               PROVE  /\ Len(sent[v]) \in Nat /\ (v # w => sent'[v] = sent[v])
                      /\ Len(sent'[w]) = Len(sent[w]) + 1 /\ Len(sent[w]) \in Nat
    OBVIOUS
  <2>1. sent[v] \in Seq(Nat) /\ sent[w] \in Seq(Nat) /\ sent'[w] = Append(sent[w], n)
    BY <1>1 DEF IpcTypes
  <2>2. v # w => sent'[v] = sent[v]
    BY <1>1 DEF IpcTypes
  <2> QED  BY <2>1, <2>2
<1>5. \A k \in 1..Len(q) : q[k] \in Msg
  BY <1>3
<1>6. \A x \in Msg : Sent(x) => Sent(x)'
  <2> SUFFICES ASSUME NEW x \in Msg, Sent(x) PROVE Sent(x)'
    OBVIOUS
  <2>1. x.from \in QWriters /\ x.n \in Nat
    BY DEF Msg
  <2>2. x.n <= Len(sent[x.from])
    BY DEF Sent
  <2>3. x.n <= Len(sent'[x.from])
    BY <1>4, <2>1, <2>2
  <2> QED  BY <2>3 DEF Sent
<1>7. \A x \in Msg : x.n # 0 /\ Sent(x) => x # m
  BY <1>2, <1>4, IpcAssumption DEF Sent
<1>8. \A x : Taken(x)' <=> Taken(x)
  BY <1>1 DEF Taken
<1>9. \A x \in Msg : Taken(x) /\ x.n # 0 => Sent(x)
  <2> SUFFICES ASSUME NEW x \in Msg, Taken(x), x.n # 0 PROVE Sent(x)
    OBVIOUS
  <2>1. CASE x \in Range(output)
    <3>1. PICK i \in 1..Len(output) : x = output[i]
      <4>1. DOMAIN output = 1..Len(output)
        BY DEF IpcTypes
      <4> QED  BY <2>1, <4>1 DEF Range
    <3> QED  BY <3>1 DEF SavedInOrder, Saved
  <2>2. CASE x \in Range(message)
    <3>1. message # <<>> /\ x = message[1]
      BY <2>2 DEF Range, IpcTypes
    <3> QED  BY <3>1 DEF SaveKept
  <2> QED  BY <2>1, <2>2 DEF Taken
<1>10. Range(queue') = Range(q) \cup {m}
  BY <1>1, <1>3 DEF Range
<1>11. QueueIds'
  BY <1>1 DEF QueueIds, HasQueue, Standing
<1>12. n > 1 => m.n - 1 = Len(sent[w]) /\ Len(sent[w]) >= 1 /\ Len(sent[w]) <= QLines + 1
  BY <1>2, <1>4, IpcAssumption
<1>13. ASSUME NEW i \in 1..Len(q) PROVE Queued(i)'
  <2>1. Queued(i) /\ q[i] \in Msg /\ queue'[i] = q[i] /\ i \in 1..(Len(q) + 1)
    BY <1>1, <1>3, <1>5 DEF QueueKept
  <2>2. HasQueue(q[i].from)' /\ Sent(q[i])'
    BY <1>1, <1>6, <2>1 DEF Queued, HasQueue, Standing
  <2>3. \A j \in 1..(i - 1) : queue'[j] = q[j]
    BY <1>1, <1>3
  <2>4. q[i].n # 0 => ~Taken(q[i]) /\ \A j \in 1..Len(q) + 1 : q[i] = queue'[j] => i = j
    <3> SUFFICES ASSUME q[i].n # 0, NEW j \in 1..Len(q) + 1, q[i] = queue'[j] PROVE ~Taken(q[i]) /\ i = j
      BY <1>3, <2>1 DEF Queued
    <3>1. q[i] # m
      BY <1>7, <2>1 DEF Queued
    <3>2. j \in 1..Len(q) /\ q[i] = q[j]
      <4>q. queue'[Len(q) + 1] = m /\ \A k \in 1..Len(q) : queue'[k] = q[k]
        BY <1>1, <1>3
      <4>1. j # Len(q) + 1
        BY <3>1, <4>q
      <4>2. j \in 1..Len(q)
        BY <1>3, <4>1
      <4> QED
        BY <4>q, <4>2
    <3> QED  BY <2>1, <3>2 DEF Queued
  <2> QED  BY <1>1, <1>3, <1>8, <2>1, <2>2, <2>3, <2>4 DEF Queued, Line
<1>14. ASSUME NEW i, i = Len(q) + 1 PROVE Queued(i)'
  <2>1. queue'[i] = m /\ Len(queue') = i /\ i - 1 = Len(q)
    BY <1>1, <1>3, <1>14
  <2>2. HasQueue(m.from)' /\ Sent(m)'
    <3>1. HasQueue(w)' /\ Len(sent'[w]) = Len(sent[w]) + 1 /\ n <= Len(sent'[w])
      <4>1. HasQueue(w)'
        BY <1>1 DEF HasQueue, Standing
      <4> QED  BY <1>4, <4>1, IpcAssumption
    <3> HIDE DEF m
    <3> QED  BY <1>2, <3>1 DEF Sent, HasQueue, Standing
  <2>3. n > 1 => \/ \E j \in 1..Len(q) : queue'[j] = Line(w, n - 1)
                 \/ Taken(Line(w, n - 1))
    <3> SUFFICES ASSUME n > 1 PROVE Line(w, n - 1) \in Range(q) \/ Taken(Line(w, n - 1))
      BY <1>1, <1>3 DEF Range
    <3>1. n - 1 \in 1..Len(sent[w]) /\ n - 1 <= QLines + 1
      BY <1>2, <1>4, <1>12
    <3> QED  BY <1>1, <3>1 DEF NoneLost
  <2>4. n # 0 => ~Taken(m) /\ \A j \in 1..Len(q) : q[j] # m
    <3> SUFFICES ASSUME n # 0 PROVE ~Taken(m) /\ \A j \in 1..Len(q) : q[j] # m
      OBVIOUS
    <3>1. ~Taken(m)
      BY <1>2, <1>7, <1>9
    <3>2. \A j \in 1..Len(q) : q[j] # m
      BY <1>2, <1>5, <1>7 DEF QueueKept, Queued
    <3> QED  BY <3>1, <3>2
  <2>5. n # 0 => \A j \in 1..Len(q) + 1 : m = queue'[j] => i = j
    BY <1>1, <1>3, <1>14, <2>4
  <2> HIDE DEF m
  <2> QED  BY <1>1, <1>2, <1>3, <1>8, <2>1, <2>2, <2>3, <2>4, <2>5 DEF Queued, Line
<1>15. QueueKept'
  <2> SUFFICES ASSUME NEW i \in 1..(Len(q) + 1) PROVE Queued(i)'
    BY <1>1, <1>3 DEF QueueKept
  <2>1. i \in 1..Len(q) \/ i = Len(q) + 1
    BY <1>3
  <2> QED  BY <1>13, <1>14, <2>1
<1>16. NoneLost'
  <2> SUFFICES ASSUME NEW v \in QWriters, HasQueue(v)', NEW k \in 1..Len(sent'[v]), k <= QLines + 1
               PROVE  Line(v, k) \in Range(q) \cup {m} \/ Taken(Line(v, k))
    BY <1>8, <1>10 DEF NoneLost, Line
  <2>1. HasQueue(v)
    BY <1>1 DEF HasQueue, Standing
  <2>2. CASE k \in 1..Len(sent[v])
    BY <2>1, <2>2 DEF NoneLost
  <2>3. CASE k \notin 1..Len(sent[v])
    <3>0. k \in Nat /\ k >= 1 /\ k <= Len(sent'[v])
      BY <1>4
    <3>1. v = w /\ k = Len(sent[w]) + 1
      <4>1. v = w
        BY <1>4, <2>3
      <4> QED  BY <1>4, <2>3, <3>0, <4>1
    <3>2. k = n
      BY <1>4, <3>1, IpcAssumption
    <3> QED  BY <3>1, <3>2
  <2> QED  BY <2>2, <2>3
<1>17. SaveKept'
  <2>1. message # <<>> => message[1] \in Msg
    BY DEF IpcTypes
  <2> QED  BY <1>1, <1>6, <2>1 DEF SaveKept, Line
<1>18. SavedInOrder'
  <2> SUFFICES ASSUME NEW i \in 1..Len(output) PROVE Saved(i)'
    BY <1>1 DEF SavedInOrder
  <2>1. Saved(i) /\ output[i] \in Msg
    BY DEF SavedInOrder, IpcTypes
  <2> QED  BY <1>1, <1>6, <2>1 DEF Saved, Line
<1> QED  BY <1>11, <1>15, <1>16, <1>17, <1>18

LEMMA SendMessageKept ==
  ASSUME NEW w \in QWriters, NEW n \in Nat, NEW from \in {"header", "write"}, QueueIInv, SendMessage(w, n, from),
         n = IF from = "header" THEN 1 ELSE IF input[w] <= QLines THEN input[w] + 1 ELSE 0
  PROVE  QueueIInv'
<1>1. CASE HasQueue(w)
  <2>1. Sends(w, n, from)
    BY <1>1 DEF SendMessage, Sends, QGo, Line, savevars
  <2>2. Len(sent[w]) = input[w] /\ n = IF Len(sent[w]) <= QLines THEN Len(sent[w]) + 1 ELSE 0
    BY <2>1, NextNumber DEF Sends
  <2> QED  BY <2>1, <2>2, SendsSent, SendsQueued DEF QueueIInv
<1>2. CASE ~HasQueue(w)
  <2> USE DEF QueueIInv, IpcTypes
  <2>1. /\ qpc' = [qpc EXCEPT ![w] = "end"]
        /\ UNCHANGED <<input, sent, queue, era, queueid, qsave, message, output>>
    BY <1>2 DEF SendMessage, QGo, savevars
  <2>2. IpcTypes'
    BY <2>1
  <2>3. SentInOrder'
    <3> SUFFICES ASSUME NEW v \in QWriters PROVE SentOf(v)'
      BY DEF SentInOrder
    <3>1. SentOf(v)
      BY DEF SentInOrder
    <3> QED  BY <2>1, <3>1 DEF SentOf
  <2>4. QueueIds' /\ QueueKept' /\ NoneLost' /\ SaveKept' /\ SavedInOrder'
    BY <2>1 DEF QueueIds, QueueKept, Queued, NoneLost, HasQueue, Standing, SaveKept, SavedInOrder, Saved, Sent, Line,
                Taken
  <2> QED  BY <2>2, <2>3, <2>4
<1> QED  BY <1>1, <1>2

-----------------------------------------------------------------------------
(* A message is taken and saved, or the queue is removed.                  *)

LEMMA MsgreadKept ==
  ASSUME QueueIInv, msgread
  PROVE  QueueIInv'
<1> USE DEF QueueIInv
<1>1. CASE ~HasQueue("save")
  <2>1. /\ qsave' = "end"
        /\ UNCHANGED <<qpc, input, sent, queue, era, queueid, message, output>>
    BY <1>1 DEF msgread
  <2>2. IpcTypes'
    BY <2>1 DEF IpcTypes
  <2>3. SentInOrder' /\ QueueIds' /\ QueueKept' /\ NoneLost'
    BY <2>1 DEF SentInOrder, SentOf, QueueIds, QueueKept, Queued, NoneLost, HasQueue, Standing, Sent, Line, Taken
  <2>4. SaveKept' /\ SavedInOrder'
    BY <2>1 DEF SaveKept, SavedInOrder, Saved, Sent, Line
  <2> QED  BY <2>2, <2>3, <2>4
<1>2. CASE HasQueue("save")
  <2>0. PICK q, h, r : q = queue /\ h = Head(queue) /\ r = Tail(queue)
    OBVIOUS
  <2>1. /\ qsave = "read" /\ q # <<>> /\ message' = <<h>> /\ queue' = r /\ qsave' = "write"
        /\ UNCHANGED <<qpc, input, sent, era, queueid, output>>
    BY <1>2, <2>0 DEF msgread
  <2>2. q \in Seq(Msg) /\ Len(q) \in Nat \ {0} /\ h = q[1] /\ h \in Msg
        /\ r \in Seq(Msg) /\ Len(r) = Len(q) - 1 /\ \A i \in 1..Len(r) : r[i] = q[i + 1] /\ i + 1 \in 1..Len(q)
    BY <2>0, <2>1 DEF IpcTypes
  <2>3. \A i \in 1..Len(q) : q[i] \in Msg /\ Queued(i)
    BY <2>0, <2>2 DEF QueueKept
  <2>4. message \in Seq(Msg) /\ output \in Seq(Msg) /\ Range(message') = {h}
    <3>1. DOMAIN message' = {1} /\ message'[1] = h
      BY <2>1
    <3> QED  BY <3>1 DEF Range, IpcTypes
  \* What was read before is saved already.
  <2>5. \A x : Taken(x) /\ x.n # 0 => x \in Range(output)
    <3> SUFFICES ASSUME NEW x, x \in Range(message), x.n # 0 PROVE x \in Range(output)
      BY DEF Taken
    <3>1. DOMAIN message = 1..Len(message) /\ Len(message) \in Nat /\ Len(message) <= 1
      BY <2>4 DEF IpcTypes
    <3>2. message # <<>> /\ x = message[1]
      BY <2>4, <3>1 DEF Range
    <3> QED  BY <2>1, <3>2 DEF SaveKept
  <2>6. \A x : x.n # 0 => (Taken(x)' <=> Taken(x) \/ x = h)
    BY <2>1, <2>4, <2>5 DEF Taken
  <2>7. IpcTypes'
    <3>1. <<h>> \in Seq(Msg) /\ Len(<<h>>) = 1
      BY <2>2
    <3> QED  BY <2>1, <2>2, <3>1 DEF IpcTypes
  <2>8. SentInOrder' /\ QueueIds'
    <3>1. era # 2
      BY <1>2 DEF HasQueue, Standing
    <3> QED  BY <2>1, <3>1 DEF SentInOrder, SentOf, QueueIds
  <2>9. QueueKept'
    <3> SUFFICES ASSUME NEW i \in 1..Len(r) PROVE Queued(i)'
      BY <2>1 DEF QueueKept
    <3>1. queue'[i] = q[i + 1] /\ i + 1 \in 1..Len(q) /\ Queued(i + 1) /\ q[i + 1] \in Msg
      BY <2>1, <2>2, <2>3
    <3>0. PICK m, p : m = q[i + 1] /\ p = Line(m.from, m.n - 1)
      OBVIOUS
    <3>2. m.n \in Nat /\ p.n = m.n - 1
      BY <3>0, <3>1 DEF Msg, Line
    <3>3. HasQueue(m.from) /\ Sent(m)
          /\ (m.n > 1 => (\E j \in 1..i : q[j] = p) \/ Taken(p))
          /\ (m.n # 0 => ~Taken(m) /\ \A j \in 1..Len(q) : m = q[j] => i + 1 = j)
      BY <2>0, <3>0, <3>1 DEF Queued
    <3>4. m.n > 1 => (\E j \in 1..(i - 1) : r[j] = p) \/ Taken(p)'
      <4> SUFFICES ASSUME m.n > 1, ~Taken(p)' PROVE \E j \in 1..(i - 1) : r[j] = p
        OBVIOUS
      <4>1. p # h /\ ~Taken(p)
        BY <2>6, <3>2
      <4>2. PICK j \in 1..i : q[j] = p
        BY <3>3, <4>1
      <4>3. j # 1
        BY <2>2, <4>1, <4>2
      <4>4. j - 1 \in 1..(i - 1) /\ j - 1 \in 1..Len(r) /\ (j - 1) + 1 = j
        BY <2>2, <4>2, <4>3
      <4> QED  BY <2>2, <4>2, <4>4
    <3>5. m.n # 0 => ~Taken(m)' /\ \A j \in 1..Len(r) : m = r[j] => i = j
      <4> SUFFICES ASSUME m.n # 0 PROVE ~Taken(m)' /\ \A j \in 1..Len(r) : m = r[j] => i = j
        OBVIOUS
      <4>1. m # h
        <5>1. 1 \in 1..Len(q) /\ i + 1 # 1
          BY <2>2
        <5> QED  BY <2>2, <3>3, <5>1
      <4>2. ASSUME NEW j \in 1..Len(r), m = r[j] PROVE i = j
        BY <2>2, <3>3, <4>2
      <4> QED  BY <2>6, <3>3, <4>1, <4>2
    <3>6. HasQueue(m.from)' /\ Sent(m)'
      BY <2>1, <3>3 DEF HasQueue, Standing, Sent
    <3>7. queue'[i] = m /\ queue' = r
      BY <2>1, <3>0, <3>1
    <3> QED  BY <3>0, <3>4, <3>5, <3>6, <3>7 DEF Queued, Line
  <2>10. NoneLost'
    <3> SUFFICES ASSUME NEW v \in QWriters, HasQueue(v), NEW n \in 1..Len(sent[v]), n <= QLines + 1
                 PROVE  Line(v, n) \in Range(r) \/ Taken(Line(v, n))'
      BY <2>1 DEF NoneLost, HasQueue, Standing, Line
    <3>1. Line(v, n) \in Range(q) \/ Taken(Line(v, n))
      BY <2>0 DEF NoneLost
    <3>2. Line(v, n).n # 0
      BY DEF Line
    <3>3. ASSUME Line(v, n) \in Range(q), Line(v, n) # h PROVE Line(v, n) \in Range(r)
      <4>1. DOMAIN q = 1..Len(q) /\ DOMAIN r = 1..Len(r)
        BY <2>2
      <4>2. PICK j \in 1..Len(q) : q[j] = Line(v, n)
        BY <3>3, <4>1 DEF Range
      <4>3. j - 1 \in 1..Len(r) /\ r[j - 1] = q[j]
        BY <2>2, <3>3, <4>2
      <4> QED  BY <4>1, <4>2, <4>3 DEF Range
    <3> QED  BY <2>6, <3>1, <3>2, <3>3
  <2>11. SaveKept'
    <3>1. message' # <<>> /\ message'[1] = h
      BY <2>1
    <3>2. Queued(1) /\ q[1] = h /\ 1 \in 1..Len(q)
      BY <2>2, <2>3
    <3>3. Sent(h)' /\ (h.n # 0 => ~Taken(h)) /\ (h.n > 1 => Taken(Line(h.from, h.n - 1)))
      BY <2>0, <2>1, <3>2 DEF Queued, Sent
    <3>4. h.n # 0 => h \notin Range(output)
      BY <3>3 DEF Taken
    <3>5. h.n > 1 => Line(h.from, h.n - 1) \in Range(output)
      <4> SUFFICES ASSUME h.n > 1 PROVE Line(h.from, h.n - 1) \in Range(output)
        OBVIOUS
      <4>1. Line(h.from, h.n - 1).n # 0
        BY <2>2 DEF Line, Msg
      <4> QED  BY <2>5, <3>3, <4>1
    <3> QED  BY <2>1, <3>1, <3>3, <3>4, <3>5 DEF SaveKept, Line, Sent
  <2>12. SavedInOrder'
    BY <2>1 DEF SavedInOrder, Saved, Sent, Line
  <2> QED  BY <2>7, <2>8, <2>9, <2>10, <2>11, <2>12
<1> QED  BY <1>1, <1>2

LEMMA WriteMessageKept ==
  ASSUME QueueIInv, WriteMessage
  PROVE  QueueIInv'
<1> USE DEF QueueIInv
<1>0. PICK m, o : m = message[1] /\ o = output
  OBVIOUS
<1>1. /\ qsave = "write" /\ message # <<>> /\ message' = message
      /\ UNCHANGED <<qpc, input, sent, queue, era, queueid>>
      /\ \/ qsave' = "read" /\ output' = IF m.n = 0 THEN o ELSE o \o message
         \/ qsave' = "end" /\ output' = o
  BY <1>0 DEF WriteMessage, SaveKept
<1>2. message \in Seq(Msg) /\ o \in Seq(Msg) /\ Len(message) = 1 /\ m \in Msg /\ DOMAIN message = {1}
      /\ Len(o) \in Nat
  <2>1. message \in Seq(Msg) /\ message # <<>> /\ Len(message) <= 1 /\ o \in Seq(Msg)
    BY <1>0, <1>1 DEF IpcTypes
  <2>2. Len(message) = 1
    <3> DEFINE k == Len(message)
    <3>1. k \in Nat /\ k # 0 /\ k <= 1
      BY <2>1, EmptySeq
    <3> HIDE DEF k
    <3>2. k = 1
      BY <3>1
    <3> QED  BY <3>2 DEF k
  <2> QED  BY <1>0, <2>1, <2>2
<1>6. o \o message \in Seq(Msg) /\ Len(o \o message) = Len(o) + 1 /\ (o \o message)[Len(o) + 1] = m
      /\ \A i \in 1..Len(o) : (o \o message)[i] = o[i]
  <2>1. o \in Seq(Msg) /\ message \in Seq(Msg) /\ Len(message) = 1 /\ Len(o) \in Nat /\ m = message[1]
    BY <1>0, <1>2
  <2>2. o \o message \in Seq(Msg) /\ Len(o \o message) = Len(o) + Len(message)
    BY <2>1, ConcatProperties
  <2>3. \A i \in 1..Len(o) + Len(message) : (o \o message)[i] = IF i <= Len(o) THEN o[i] ELSE message[i - Len(o)]
    BY <2>1, ConcatProperties
  <2>4. Len(o) + 1 \in 1..Len(o) + Len(message) /\ ~(Len(o) + 1 <= Len(o)) /\ (Len(o) + 1) - Len(o) = 1
    BY <2>1
  <2>5. (o \o message)[Len(o) + 1] = m
    BY <2>1, <2>3, <2>4
  <2>6. \A i \in 1..Len(o) : (o \o message)[i] = o[i]
    BY <2>1, <2>3
  <2> QED  BY <2>1, <2>2, <2>5, <2>6
<1>3. Sent(m) /\ (m.n # 0 => m \notin Range(o))
      /\ (m.n > 1 => Line(m.from, m.n - 1) \in Range(o))
  <2>1. m.n > 1 => m.n # 0
    BY <1>0, <1>2 DEF Msg
  <2> QED  BY <1>0, <1>1, <2>1 DEF SaveKept
<1>4. CASE output' = o
  <2>1. \A x : Taken(x)' <=> Taken(x)
    BY <1>0, <1>1, <1>4 DEF Taken
  <2>2. IpcTypes'
    BY <1>0, <1>1, <1>4 DEF IpcTypes
  <2>3. SentInOrder' /\ QueueIds' /\ QueueKept' /\ NoneLost'
    BY <1>0, <1>1, <1>4, <2>1 DEF SentInOrder, SentOf, QueueIds, QueueKept, Queued, NoneLost, HasQueue, Standing, Sent, Line
  <2>4. SavedInOrder'
    BY <1>0, <1>1, <1>4 DEF SavedInOrder, Saved, Sent, Line
  <2>5. qsave' = "read" => m.n = 0
    <3> SUFFICES ASSUME qsave' = "read", m.n # 0 PROVE FALSE
      OBVIOUS
    <3>1. output' = o \o message /\ Len(o \o message) = Len(o) + 1
      BY <1>1, <1>6
    <3> QED  BY <1>0, <1>2, <1>4, <3>1
  <2>6. SaveKept'
    BY <1>0, <1>1, <1>3, <1>4, <2>5 DEF SaveKept, Sent, Line
  <2> QED  BY <1>0, <2>2, <2>3, <2>4, <2>6
<1>5. CASE output' = o \o message /\ m.n # 0 /\ qsave' = "read"
  <2>1. o \o message \in Seq(Msg) /\ Len(o \o message) = Len(o) + 1 /\ (o \o message)[Len(o) + 1] = m
        /\ \A i \in 1..Len(o) : (o \o message)[i] = o[i]
    BY <1>6
  <2>2. Range(output') = Range(o) \cup {m}
    <3>1. DOMAIN (o \o message) = 1..(Len(o) + 1) /\ DOMAIN o = 1..Len(o)
      BY <1>0, <1>2, <2>1
    <3> QED  BY <1>0, <1>2, <1>5, <2>1, <3>1 DEF Range
  <2>3. Range(message) = {m}
    BY <1>0, <1>2 DEF Range
  <2>4. \A x : Taken(x)' <=> Taken(x)
    BY <1>0, <1>1, <2>2, <2>3 DEF Taken
  <2>5. IpcTypes'
    BY <1>0, <1>1, <1>5, <2>1 DEF IpcTypes
  <2>6. SentInOrder' /\ QueueIds' /\ QueueKept' /\ NoneLost'
    BY <1>0, <1>1, <2>4 DEF SentInOrder, SentOf, QueueIds, QueueKept, Queued, NoneLost, HasQueue, Standing, Sent, Line
  <2>7. SaveKept'
    BY <1>0, <1>1, <1>3, <1>5, <2>2 DEF SaveKept, Sent, Line
  <2>8. ASSUME NEW i \in 1..Len(o) PROVE Saved(i)'
    <3>1. Saved(i) /\ i \in 1..(Len(o) + 1) /\ output'[i] = o[i]
      BY <1>0, <1>2, <1>5, <2>1 DEF SavedInOrder
    <3>2. o[i] # m
      BY <1>0, <1>2, <1>3, <1>5, <3>1 DEF Range
    <3>3. o[i].n > 1 => \E j \in 1..(i - 1) : output'[j] = Line(o[i].from, o[i].n - 1)
      BY <1>0, <1>2, <1>5, <2>1, <3>1 DEF Saved
    <3>4. \A j \in 1..(Len(o) + 1) : o[i] = output'[j] => i = j
      <4> SUFFICES ASSUME NEW j \in 1..(Len(o) + 1), o[i] = output'[j] PROVE i = j
        OBVIOUS
      <4>1. j # Len(o) + 1
        BY <1>0, <1>5, <2>1, <3>2
      <4>2. j \in 1..Len(o) /\ o[i] = o[j]
        BY <1>0, <1>2, <1>5, <2>1, <4>1
      <4> QED  BY <1>0, <3>1, <4>2 DEF Saved
    <3>5. o[i].n # 0 /\ Sent(o[i])'
      BY <1>0, <1>1, <3>1 DEF Saved, Sent
    <3>6. Len(output') = Len(o) + 1
      BY <1>0, <1>5, <2>1
    <3> QED  BY <1>0, <3>1, <3>3, <3>4, <3>5, <3>6 DEF Saved, Line
  <2>9. ASSUME NEW i, i = Len(o) + 1 PROVE Saved(i)'
    <3>1. output'[i] = m /\ Len(output') = i /\ i - 1 = Len(o) /\ i \in Nat
      BY <1>0, <1>2, <1>5, <2>1, <2>9
    <3>2. m.n > 1 => \E j \in 1..(i - 1) : output'[j] = Line(m.from, m.n - 1)
      BY <1>0, <1>2, <1>3, <1>5, <2>1, <3>1 DEF Range
    <3>3. \A j \in 1..i : m = output'[j] => i = j
      <4> SUFFICES ASSUME NEW j \in 1..i, j # i PROVE m # output'[j]
        OBVIOUS
      <4>1. j \in 1..Len(o) /\ output'[j] = o[j]
        BY <1>0, <1>2, <1>5, <2>1, <2>9
      <4> QED  BY <1>0, <1>2, <1>3, <1>5, <4>1 DEF Range
    <3>4. Sent(m)'
      BY <1>0, <1>1, <1>3 DEF Sent
    <3> QED  BY <1>0, <1>5, <3>1, <3>2, <3>3, <3>4 DEF Saved, Line
  <2>10. SavedInOrder'
    <3> SUFFICES ASSUME NEW i \in 1..(Len(o) + 1) PROVE Saved(i)'
      BY <1>0, <1>5, <2>1 DEF SavedInOrder
    <3>1. i \in 1..Len(o) \/ i = Len(o) + 1
      BY <1>0, <1>2
    <3> QED  BY <1>0, <2>8, <2>9, <3>1
  <2> QED  BY <1>0, <2>5, <2>6, <2>7, <2>10
<1> QED  BY <1>0, <1>1, <1>4, <1>5

LEMMA RemmsgqueueKept ==
  ASSUME QueueIInv, remmsgqueue
  PROVE  QueueIInv'
<1> USE DEF QueueIInv
<1>1. /\ era = 1 /\ era' = 2 /\ queue' = <<>>
      /\ UNCHANGED <<qpc, input, sent, queueid, qsave, message, output>>
  BY DEF remmsgqueue, savevars
<1>2. IpcTypes'
  BY <1>1 DEF IpcTypes
<1>3. SentInOrder' /\ SaveKept' /\ SavedInOrder'
  BY <1>1 DEF SentInOrder, SentOf, SaveKept, SavedInOrder, Saved, Sent, Line
<1>4. QueueIds'
  <2> SUFFICES ASSUME NEW u \in QWriters \cup {"save"} PROVE queueid[u] <= 2
    BY <1>1 DEF QueueIds
  <2>1. queueid[u] \in {0, 1, 3} /\ queueid[u] <= 1
    BY <1>1 DEF QueueIds, IpcTypes
  <2> QED  BY <2>1
<1>5. QueueKept' /\ NoneLost'
  BY <1>1 DEF QueueKept, NoneLost, HasQueue, Standing
<1> QED  BY <1>2, <1>3, <1>4, <1>5

-----------------------------------------------------------------------------
(* Every step.                                                             *)

LEMMA IpcStepKept == IpcIInv /\ [IpcNext]_ipcvars => IpcIInv'
<1> SUFFICES ASSUME IpcIInv, [IpcNext]_ipcvars PROVE IpcIInv'
  OBVIOUS
<1> USE DEF IpcIInv
<1> DEFINE NoQueue == UNCHANGED queuevars
           NoMonitor == UNCHANGED monvars
           NoShow == UNCHANGED shown
           NoSet == UNCHANGED initvars
<1>1. NoQueue => QueueIInv'
  BY DEF queuevars, savevars, QueueIInv, IpcTypes, SentInOrder, SentOf, QueueIds, QueueKept, Queued, NoneLost,
         HasQueue, Standing, SaveKept, SavedInOrder, Saved, Sent, Line, Taken
<1>2. NoMonitor => MonitorKept'
  BY DEF monvars, MonitorKept
<1>3. NoShow => ShownKept'
  BY DEF ShownKept
<1>4. NoSet => SemsetKept'
  BY DEF initvars, SemsetKept
<1>5. CASE UNCHANGED ipcvars
  <2>1. NoQueue /\ NoMonitor /\ NoShow /\ NoSet
    BY <1>5 DEF ipcvars, queuevars, savevars, monvars, initvars
  <2> QED  BY <1>1, <1>2, <1>3, <1>4, <2>1
<1>6. ASSUME NEW w \in QWriters, msgqueuein(w) PROVE IpcIInv'
  <2>1. NoMonitor /\ NoShow /\ NoSet
    BY <1>6 DEF msgqueuein, StartWriter, msgprintf, msgwrite, ReadInput, SendMessage
  <2>2. CASE StartWriter(w)
    BY <1>2, <1>3, <1>4, <2>1, <2>2, StartWriterKept
  <2>3. CASE ReadInput(w)
    BY <1>2, <1>3, <1>4, <2>1, <2>3, ReadInputKept
  <2>4. CASE msgprintf(w)
    <3>1. QueueIInv'
      BY <2>4, SendMessageKept DEF msgprintf, SendMessage, QGo
    <3> QED  BY <1>2, <1>3, <1>4, <2>1, <3>1
  <2>5. CASE msgwrite(w)
    <3> DEFINE n == IF input[w] <= QLines THEN input[w] + 1 ELSE 0
    <3>1. n \in Nat /\ qpc[w] = "write" /\ SendMessage(w, n, "write")
      BY <2>5 DEF msgwrite, SendMessage, QGo, QueueIInv, IpcTypes
    <3>2. QueueIInv'
      BY <3>1, SendMessageKept
    <3> QED  BY <1>2, <1>3, <1>4, <2>1, <3>2
  <2> QED  BY <1>6, <2>2, <2>3, <2>4, <2>5 DEF msgqueuein
<1>7. CASE msgqueuesave \/ remmsgqueue
  <2>1. NoMonitor /\ NoShow /\ NoSet
    BY <1>7 DEF msgqueuesave, remmsgqueue, StartSave, msgread, WriteMessage
  <2>2. QueueIInv'
    BY <1>7, StartSaveKept, MsgreadKept, WriteMessageKept, RemmsgqueueKept DEF msgqueuesave
  <2> QED  BY <1>2, <1>3, <1>4, <2>1, <2>2
<1>8. CASE Monitor \/ ChildKilled
  <2>1. NoQueue /\ NoShow /\ NoSet
    BY <1>8 DEF Monitor, ChildKilled, ForkMonitor, ChildLeaves, WaitReport, detachandremove, CopyBlock, MonKeep
  <2> QED  BY <1>1, <1>3, <1>4, <1>8, <2>1, MonitorKeptStep
<1>9. CASE SetUpShow \/ SendShow \/ TakeShow
  <2>1. NoQueue /\ NoMonitor /\ NoSet
    BY <1>9 DEF SetUpShow, SendShow, TakeShow
  <2> QED  BY <1>1, <1>2, <1>4, <1>9, <2>1, ShownKeptStep
<1>10. ASSUME NEW w \in QWriters, initsemset(w) \/ InitKilled(w) PROVE IpcIInv'
  <2>1. NoQueue /\ NoMonitor /\ NoShow
    BY <1>10 DEF initsemset, InitKilled, CreateSet, initelement, MarkReady, AccessSet, InitKeep
  <2>2. SemsetKept'
    BY <1>10, SemsetKeptStep
  <2> QED  BY <1>1, <1>2, <1>3, <2>1, <2>2
<1> QED  BY <1>5, <1>6, <1>7, <1>8, <1>9, <1>10 DEF IpcNext, IpcStep

LEMMA IpcInvariant == IpcSpec => []IpcIInv
<1> QED  BY IpcInitKept, IpcStepKept, PTL DEF IpcSpec

LEMMA IpcConsequence == IpcIInv => MessagesInOrder
<1> SUFFICES ASSUME IpcIInv PROVE MessagesInOrder
  OBVIOUS
<1> USE DEF IpcIInv, QueueIInv
<1>0. output \in Seq(Msg) /\ queue \in Seq(Msg) /\ message \in Seq(Msg) /\ Len(message) <= 1
      /\ DOMAIN output = 1..Len(output) /\ DOMAIN queue = 1..Len(queue) /\ DOMAIN message = 1..Len(message)
  BY DEF IpcTypes
<1>1. \A i \in DOMAIN output :
          /\ output[i].n \in 1..Len(sent[output[i].from])
          /\ output[i].n > 1 => \E j \in 1..(i - 1) : output[j] = Line(output[i].from, output[i].n - 1)
          /\ \A j \in DOMAIN output : output[i] = output[j] => i = j
  <2> SUFFICES ASSUME NEW i \in 1..Len(output)
               PROVE  /\ output[i].n \in 1..Len(sent[output[i].from])
                      /\ output[i].n > 1 => \E j \in 1..(i - 1) : output[j] = Line(output[i].from, output[i].n - 1)
                      /\ \A j \in 1..Len(output) : output[i] = output[j] => i = j
    BY <1>0
  <2>1. Saved(i)
    BY DEF SavedInOrder
  <2>2. PICK m \in Msg : m = output[i]
    BY <1>0
  <2>3. m.n \in Nat /\ m.from \in QWriters
    BY <2>2 DEF Msg
  <2>4. Len(sent[m.from]) \in Nat
    BY <2>3 DEF IpcTypes
  <2>5. m.n # 0 /\ m.n <= Len(sent[m.from])
    BY <2>1, <2>2 DEF Saved, Sent
  <2>6. m.n \in 1..Len(sent[m.from])
    BY <2>3, <2>4, <2>5
  <2> QED  BY <2>1, <2>2, <2>6 DEF Saved
<1>2. ASSUME era = 1, qsave \in {"init", "read"}, NEW w \in QWriters, NEW n \in Range(sent[w]) \ {0}
      PROVE  Line(w, n) \in Range(output) <=> Line(w, n) \notin Range(queue)
  <2>1. sent[w] \in Seq(Nat) /\ SentOf(w) /\ DOMAIN sent[w] = 1..Len(sent[w]) /\ Len(sent[w]) \in Nat
    BY DEF IpcTypes, SentInOrder
  <2>2. PICK k \in 1..Len(sent[w]) : n = sent[w][k]
    BY <2>1 DEF Range
  <2>3. n = k /\ n <= QLines + 1
    BY <2>1, <2>2 DEF SentOf
  <2>4. HasQueue(w)
    <3>1. sent[w] # <<>>
      BY <2>1, <2>2
    <3>2. queueid[w] # 0 /\ queueid[w] <= 1 /\ queueid[w] \in {0, 1, 3}
      BY <1>2, <2>1, <3>1 DEF SentOf, QueueIds, IpcTypes
    <3> QED  BY <1>2, <3>2 DEF HasQueue, Standing
  <2>5. Line(w, n) \in Range(queue) \/ Taken(Line(w, n))
    BY <2>2, <2>3, <2>4 DEF NoneLost
  <2>6. Line(w, n).n # 0
    BY DEF Line
  <2>7. Taken(Line(w, n)) => Line(w, n) \in Range(output)
    <3> SUFFICES ASSUME Line(w, n) \in Range(message) PROVE Line(w, n) \in Range(output)
      BY DEF Taken
    <3>1. message # <<>> /\ Line(w, n) = message[1]
      BY <1>0 DEF Range
    <3> QED  BY <1>2, <2>6, <3>1 DEF SaveKept
  <2>8. Line(w, n) \in Range(queue) => ~Taken(Line(w, n))
    BY <1>0, <2>6 DEF Range, QueueKept, Queued
  <2> QED  BY <2>5, <2>7, <2>8 DEF Taken
<1>3. mon["parent"] = "exit" /\ reported # <<>> /\ mon["child"] # "killed" =>
          reported[1] = bytes["parent"] + bytes["child"]
  BY DEF MonitorKept
<1>4. mon["parent"] = "exit" => totals = <<>>
  BY DEF MonitorKept
<1>5. shown.announced => ~shown.killed
  BY DEF ShownKept
<1>6. \A w \in QWriters : initer[w] = "in" => semset.set
  BY DEF SemsetKept
<1>7. Cardinality({w \in QWriters : initer[w] \in {"init", "ready", "failed"}}) <= 1
  <2> DEFINE C == {w \in QWriters : initer[w] \in {"init", "ready", "failed"}}
  <2>1. C = {} \/ \E w \in QWriters : C = {w}
    BY DEF SemsetKept
  <2> HIDE DEF C
  <2>2. Cardinality(C) <= 1
    <3>1. Cardinality({}) = 0 /\ \A w \in QWriters : Cardinality({w}) = 1
      BY FS_EmptySet, FS_Singleton
    <3> QED  BY <2>1, <3>1
  <2> QED  BY <2>2 DEF C
<1>8. \A i, j \in DOMAIN queue : queue[i] = queue[j] /\ queue[i].n # 0 => i = j
  BY <1>0 DEF QueueKept, Queued
<1> QED  BY <1>1, <1>2, <1>3, <1>4, <1>5, <1>6, <1>7, <1>8 DEF MessagesInOrder

\* The programs of chapter 15 that use message queues, a shared total and a new
\* semaphore.  What msgqueuesave writes has every line of a writer after the line
\* before it, and none twice; while the queue stands, every line sent is once in
\* the queue or saved.  monitorshared reports all bytes, a SIGUSR1 does not end
\* showshared once it has announced itself, and one process at most creates the
\* semaphore of initsemset, which nobody gets before it has a value.  For any
\* writers, and inputs and a queue of any length.
THEOREM IpcMessagesInOrder == IpcSpec => []MessagesInOrder
<1> QED  BY IpcInvariant, IpcConsequence, PTL

-----------------------------------------------------------------------------
(* SignalWait.                                                             *)

SigTypes == sigkind \in {"notify", "suspend"} /\ flag \in BOOLEAN /\ unanswered \in BOOLEAN
\* From the test of the flag to the restored mask the signals are blocked, so that the
\* flag stays what the test saw until sigsuspend unblocks them.
Masked == npc \in {"test", "suspend", "woken", "clear", "restore"} => blocked
FlagSeen ==
    /\ npc = "suspend" => ~flag
    /\ npc = "clear" => sigkind = "suspend" /\ ~unanswered
    /\ npc = "restore" /\ sigkind = "notify" => flag
    /\ sigkind = "suspend" /\ unanswered => flag
SigIInv == SigTypes /\ Masked /\ FlagSeen

\* NoSignalLost is preserved by every step, with what it rests on.
LEMMA SigStep == SigIInv /\ [SignalNext]_sigvars => SigIInv'
<1> SUFFICES ASSUME SigIInv, [SignalNext]_sigvars PROVE SigIInv'
  OBVIOUS
<1> USE DEF SigIInv, SigTypes, Masked, FlagSeen, sigchoice
<1>1. CASE UNCHANGED sigvars
  BY <1>1 DEF sigvars
<1>2. CASE Initialize \/ SuspendReturns
  BY <1>2 DEF Initialize, SuspendReturns
\* No signal is left to answer when the flag is cleared.
<1>8. CASE ClearReceived
  BY <1>8 DEF ClearReceived
<1>9. CASE RestoreMask
  BY <1>9 DEF RestoreMask
\* The test answers what was caught, if the flag is on.
<1>7. CASE TestFlag
  <2>1. CASE flag
    <3>1. ~unanswered'
      BY <1>7, <2>1 DEF TestFlag
    <3> QED
      BY <1>7, <2>1, <3>1 DEF TestFlag
  <2>2. CASE ~flag
    <3>1. unanswered' = unanswered
      BY <1>7, <2>2 DEF TestFlag
    <3> QED
      BY <1>7, <2>2, <3>1 DEF TestFlag
  <2> QED
    BY <2>1, <2>2
<1>3. CASE Block \/ RestoreHandler \/ OtherSignal
  BY <1>3 DEF Block, RestoreHandler, OtherSignal
<1>4. ASSUME NEW s \in Signals, Send(s) PROVE SigIInv'
  BY <1>4 DEF Send
\* No handler runs but in sigsuspend or with the signals unblocked.
<1>5. ASSUME NEW s \in Signals, Handle(s) PROVE SigIInv'
  BY <1>5 DEF Handle, Signals, Unblocked
<1>6. CASE Terminate
  BY <1>6 DEF Terminate
<1> QED
  BY <1>1, <1>2, <1>3, <1>4, <1>5, <1>6, <1>7, <1>8, <1>9 DEF SignalNext, Delivery, WaiterStep

\* waitnotifyon and simplesuspend never sleep while the flag they wait for is on nor go
\* on while it is off, and no caught signal is forgotten, whenever signals come.
THEOREM SigNoSignalLost == SignalSpec => []NoSignalLost
<1>1. SignalInit => SigIInv
  BY SigKindsAssumption DEF SignalInit, SigIInv, SigTypes, Masked, FlagSeen
<1>2. SigIInv => NoSignalLost
  BY DEF SigIInv, FlagSeen, NoSignalLost
<1> QED
  BY <1>1, <1>2, SigStep, PTL DEF SignalSpec

-----------------------------------------------------------------------------
(* SignalPrograms.                                                         *)

MeFields == {"role", "at", "mask", "old", "suspended", "life", "handler"}
WorldFields == {"buf", "flag", "count", "fifo1", "fifo2", "echo", "canonical", "chars", "timer", "jump", "kid", "kidmask", "wrong"}

\* The records are functions of their fields.
Shaped ==
    /\ me = [x \in MeFields |-> me[x]] /\ me.handler = [s \in Sigs |-> me.handler[s]]
    /\ world = [x \in WorldFields |-> world[x]]

MeKeeps(fields) == \A x \in MeFields \ fields : me'[x] = me[x]
WorldKeeps(fields) == \A x \in WorldFields \ fields : world'[x] = world[x]
ProgramKeeps == sg' = sg /\ mishap' = mishap /\ arrivals' = arrivals
GoesOn == me'.at = me.at + 1 /\ MeKeeps({"at"})
PlaysNext(role) == me'.role = role /\ me'.at = 1 /\ MeKeeps({"role", "at"})

\* What each step changes, field by field.
LEMMA SgGo == Shaped /\ Go => GoesOn /\ me' = [x \in MeFields |-> me'[x]] /\ me'.handler = me.handler
  BY DEF Shaped, Go, GoesOn, MeKeeps, MeFields

LEMMA SgPlays == ASSUME Shaped, NEW r, Plays(r)
                 PROVE  PlaysNext(r) /\ me' = [x \in MeFields |-> me'[x]] /\ me'.handler = me.handler
  BY DEF Shaped, Plays, PlaysNext, MeKeeps, MeFields

LEMMA SgInstall == Shaped /\ Install =>
    /\ Running /\ This.op = "handle" /\ ProgramKeeps /\ world' = world /\ raised' = raised
    /\ me'.at = me.at + 1 /\ MeKeeps({"at", "handler"})
    /\ me'.handler = [me.handler EXCEPT ![This.v.sig] = This.v.h]
    /\ Shaped'
<1> SUFFICES ASSUME Shaped, Install PROVE
    /\ Running /\ This.op = "handle" /\ ProgramKeeps /\ world' = world /\ raised' = raised
    /\ me'.at = me.at + 1 /\ MeKeeps({"at", "handler"})
    /\ me'.handler = [me.handler EXCEPT ![This.v.sig] = This.v.h]
    /\ Shaped'
  OBVIOUS
<1>1. Running /\ This.op = "handle" /\ ProgramKeeps /\ world' = world /\ raised' = raised
  BY DEF Install, Does, ProgramKeeps
<1>2. PICK sig, h : sig = This.v.sig /\ h = This.v.h
  OBVIOUS
<1>3. me' = [me EXCEPT !.at = @ + 1, !.handler[sig] = h]
  BY <1>2 DEF Install
<1>4. me' = [x \in MeFields |-> me'[x]] /\ me'.at = me.at + 1 /\ MeKeeps({"at", "handler"})
      /\ me'.handler = [me.handler EXCEPT ![sig] = h]
  BY <1>3 DEF Shaped, MeKeeps, MeFields
<1>5. me'.handler = [s \in Sigs |-> me'.handler[s]]
  BY <1>4 DEF Shaped
<1> QED
  BY <1>1, <1>2, <1>4, <1>5 DEF Shaped

LEMMA SgMask == Shaped /\ ChangeMask =>
    /\ Running /\ ProgramKeeps /\ world' = world /\ raised' = raised
    /\ me'.at = me.at + 1 /\ me'.old \in {me.old, me.mask} /\ MeKeeps({"at", "old", "mask"})
    /\ \/ This.op = "block" /\ me'.mask = me.mask \cup This.v
       \/ This.op = "unblock" /\ me'.mask = me.mask \ This.v
       \/ This.op = "setmask" /\ me'.mask = IF This.v = "all" THEN Sigs ELSE me.old
    /\ Shaped'
<1> SUFFICES ASSUME Shaped, ChangeMask PROVE
    /\ Running /\ ProgramKeeps /\ world' = world /\ raised' = raised
    /\ me'.at = me.at + 1 /\ me'.old \in {me.old, me.mask} /\ MeKeeps({"at", "old", "mask"})
    /\ \/ This.op = "block" /\ me'.mask = me.mask \cup This.v
       \/ This.op = "unblock" /\ me'.mask = me.mask \ This.v
       \/ This.op = "setmask" /\ me'.mask = IF This.v = "all" THEN Sigs ELSE me.old
    /\ Shaped'
  OBVIOUS
<1>1. Running /\ ProgramKeeps /\ world' = world /\ raised' = raised
  BY DEF ChangeMask, Does, ProgramKeeps
<1>2. CASE Does("block") /\ me' = [me EXCEPT !.at = @ + 1, !.old = me.mask, !.mask = @ \cup This.v]
  <2>1. PICK n : n = me.mask \cup This.v
    OBVIOUS
  <2>2. me' = [me EXCEPT !.at = @ + 1, !.old = me.mask, !.mask = n]
    BY <1>2, <2>1 DEF Shaped, MeFields
  <2>3. me' = [x \in MeFields |-> me'[x]] /\ me'.at = me.at + 1 /\ me'.old = me.mask /\ me'.mask = n
        /\ MeKeeps({"at", "old", "mask"}) /\ me'.handler = me.handler
    BY <2>2 DEF Shaped, MeKeeps, MeFields
  <2> QED
    BY <1>1, <1>2, <2>1, <2>3 DEF Shaped, Does
<1>3. CASE Does("unblock") /\ me' = [me EXCEPT !.at = @ + 1, !.mask = @ \ This.v]
  <2>1. PICK n : n = me.mask \ This.v
    OBVIOUS
  <2>2. me' = [me EXCEPT !.at = @ + 1, !.mask = n]
    BY <1>3, <2>1 DEF Shaped, MeFields
  <2>3. me' = [x \in MeFields |-> me'[x]] /\ me'.at = me.at + 1 /\ me'.old = me.old /\ me'.mask = n
        /\ MeKeeps({"at", "old", "mask"}) /\ me'.handler = me.handler
    BY <2>2 DEF Shaped, MeKeeps, MeFields
  <2> QED
    BY <1>1, <1>3, <2>1, <2>3 DEF Shaped, Does
<1>4. CASE Does("setmask") /\ me' = [me EXCEPT !.at = @ + 1, !.old = me.mask, !.mask = IF This.v = "all" THEN Sigs ELSE me.old]
  <2>1. PICK n : n = IF This.v = "all" THEN Sigs ELSE me.old
    OBVIOUS
  <2>2. me' = [me EXCEPT !.at = @ + 1, !.old = me.mask, !.mask = n]
    BY <1>4, <2>1 DEF Shaped, MeFields
  <2>3. me' = [x \in MeFields |-> me'[x]] /\ me'.at = me.at + 1 /\ me'.old = me.mask /\ me'.mask = n
        /\ MeKeeps({"at", "old", "mask"}) /\ me'.handler = me.handler
    BY <2>2 DEF Shaped, MeKeeps, MeFields
  <2> QED
    BY <1>1, <1>4, <2>1, <2>3 DEF Shaped, Does
<1> QED
  BY <1>2, <1>3, <1>4 DEF ChangeMask

LEMMA SgSuspend == Shaped /\ StartSuspend =>
    /\ Running /\ This.op = "suspend" /\ ProgramKeeps /\ world' = world /\ raised' = raised
    /\ me'.suspended /\ MeKeeps({"suspended", "old", "mask"}) /\ Shaped'
<1> SUFFICES ASSUME Shaped, StartSuspend PROVE
    /\ Running /\ This.op = "suspend" /\ ProgramKeeps /\ world' = world /\ raised' = raised
    /\ me'.suspended /\ MeKeeps({"suspended", "old", "mask"}) /\ Shaped'
  OBVIOUS
<1>1. Running /\ This.op = "suspend" /\ ProgramKeeps /\ world' = world /\ raised' = raised
  BY DEF StartSuspend, Does, ProgramKeeps
<1>2. PICK v : v = This.v
  OBVIOUS
<1>3. me' = [me EXCEPT !.suspended = TRUE, !.old = me.mask, !.mask = v]
  BY <1>2 DEF StartSuspend
<1>4. me' = [x \in MeFields |-> me'[x]] /\ me'.suspended /\ MeKeeps({"suspended", "old", "mask"}) /\ me'.handler = me.handler
  BY <1>3 DEF Shaped, MeKeeps, MeFields
<1> QED
  BY <1>1, <1>4 DEF Shaped

LEMMA SgTake == Shaped /\ TakeSignal =>
    /\ Running /\ This.op = "sigwait" /\ ProgramKeeps /\ world' = world
    /\ raised \cap This.v # {} /\ raised' = raised \ This.v /\ GoesOn /\ Shaped'
  BY SgGo DEF TakeSignal, Does, ProgramKeeps, Shaped

LEMMA SgSet == Shaped /\ SetField =>
    /\ Running /\ This.op = "set" /\ ProgramKeeps /\ raised' = raised /\ GoesOn /\ Shaped'
    /\ This.v.field = "count" => world'.count = world.count + 1 /\ WorldKeeps({"count"})
    /\ This.v.field # "count" =>
          \A x \in WorldFields : world'[x] = IF x = This.v.field THEN This.v.value ELSE world[x]
<1> SUFFICES ASSUME Shaped, SetField PROVE
    /\ Running /\ This.op = "set" /\ ProgramKeeps /\ raised' = raised /\ GoesOn /\ Shaped'
    /\ This.v.field = "count" => world'.count = world.count + 1 /\ WorldKeeps({"count"})
    /\ This.v.field # "count" =>
          \A x \in WorldFields : world'[x] = IF x = This.v.field THEN This.v.value ELSE world[x]
  OBVIOUS
<1>1. Running /\ This.op = "set" /\ ProgramKeeps /\ raised' = raised /\ GoesOn /\ me' = [x \in MeFields |-> me'[x]]
      /\ me'.handler = me.handler
  BY SgGo DEF SetField, Does, ProgramKeeps
<1>2. PICK f, v : f = This.v.field /\ v = This.v.value
  OBVIOUS
<1>3. CASE f = "count"
  <2>1. world' = [world EXCEPT !.count = @ + 1]
    BY <1>2, <1>3 DEF SetField
  <2>2. world' = [x \in WorldFields |-> world'[x]] /\ world'.count = world.count + 1 /\ WorldKeeps({"count"})
    BY <2>1 DEF Shaped, WorldKeeps, WorldFields
  <2> QED
    BY <1>1, <1>2, <1>3, <2>2 DEF Shaped
<1>4. CASE f # "count"
  <2>1. world' = [world EXCEPT ![f] = v]
    BY <1>2, <1>4 DEF SetField
  <2>2. world' = [x \in WorldFields |-> world'[x]]
        /\ \A x \in WorldFields : world'[x] = IF x = f THEN v ELSE world[x]
    BY <2>1 DEF Shaped
  <2> QED
    BY <1>1, <1>2, <1>4, <2>2 DEF Shaped
<1> QED
  BY <1>3, <1>4

LEMMA SgControl == Shaped /\ Control =>
    /\ Running /\ ProgramKeeps /\ world' = world /\ raised' = raised /\ Shaped'
    /\ \/ This.op = "to" /\ PlaysNext(This.v)
       \/ This.op = "while" /\ (GoesOn \/ PlaysNext(This.v.role))
       \/ This.op = "perhaps" /\ (GoesOn \/ PlaysNext(This.v))
       \/ This.op = "counted" /\ (IF world.count > MaxCount THEN PlaysNext(This.v) ELSE GoesOn)
       \/ This.op \in {"open", "prompt", "readline", "tcgetattr", "close", "r_wait"} /\ GoesOn
<1> SUFFICES ASSUME Shaped, Control PROVE
    /\ Running /\ ProgramKeeps /\ world' = world /\ raised' = raised /\ Shaped'
    /\ \/ This.op = "to" /\ PlaysNext(This.v)
       \/ This.op = "while" /\ (GoesOn \/ PlaysNext(This.v.role))
       \/ This.op = "perhaps" /\ (GoesOn \/ PlaysNext(This.v))
       \/ This.op = "counted" /\ (IF world.count > MaxCount THEN PlaysNext(This.v) ELSE GoesOn)
       \/ This.op \in {"open", "prompt", "readline", "tcgetattr", "close", "r_wait"} /\ GoesOn
  OBVIOUS
<1>1. world' = world /\ raised' = raised
  BY DEF Control
<1>2. ASSUME Go PROVE GoesOn /\ Shaped'
  BY <1>1, <1>2, SgGo DEF Shaped
<1>3. ASSUME NEW r, Plays(r) PROVE PlaysNext(r) /\ Shaped'
  BY <1>1, <1>3, SgPlays DEF Shaped
<1>4. ASSUME NEW op, Does(op) PROVE Running /\ ProgramKeeps /\ This.op = op
  BY <1>4 DEF Does, ProgramKeeps
<1>5. CASE Does("to") /\ Plays(This.v)
  BY <1>1, <1>3, <1>4, <1>5
<1>6. CASE Does("while") /\ IF world.flag THEN Go ELSE Plays(This.v.role)
  BY <1>1, <1>2, <1>3, <1>4, <1>6
<1>7. CASE Does("perhaps") /\ (Go \/ Plays(This.v))
  BY <1>1, <1>2, <1>3, <1>4, <1>7
<1>8. CASE Does("counted") /\ IF world.count > MaxCount THEN Plays(This.v) ELSE Go
  BY <1>1, <1>2, <1>3, <1>4, <1>8
<1>9. CASE (\E op \in {"open", "prompt", "readline", "tcgetattr", "close"} : Does(op)) /\ Go
  BY <1>1, <1>2, <1>4, <1>9
<1>10. CASE Does("r_wait") /\ world.kid \in {"end", "killed"} /\ Go
  BY <1>1, <1>2, <1>4, <1>10
<1> QED
  BY <1>5, <1>6, <1>7, <1>8, <1>9, <1>10 DEF Control

LEMMA SgArm == Shaped /\ ArmAndFork =>
    /\ Running /\ ProgramKeeps /\ raised' = raised /\ GoesOn /\ Shaped'
    /\ \/ This.op = "setjmp" /\ world'.jump = me.at + 1 /\ WorldKeeps({"jump"})
       \/ This.op = "timer" /\ world'.timer /\ WorldKeeps({"timer"})
       \/ This.op = "forkexec" /\ world'.kid = "run" /\ world'.kidmask = me.mask /\ WorldKeeps({"kid", "kidmask"})
<1> SUFFICES ASSUME Shaped, ArmAndFork PROVE
    /\ Running /\ ProgramKeeps /\ raised' = raised /\ GoesOn /\ Shaped'
    /\ \/ This.op = "setjmp" /\ world'.jump = me.at + 1 /\ WorldKeeps({"jump"})
       \/ This.op = "timer" /\ world'.timer /\ WorldKeeps({"timer"})
       \/ This.op = "forkexec" /\ world'.kid = "run" /\ world'.kidmask = me.mask /\ WorldKeeps({"kid", "kidmask"})
  OBVIOUS
<1>1. raised' = raised /\ GoesOn /\ me' = [x \in MeFields |-> me'[x]] /\ me'.handler = me.handler
  BY SgGo DEF ArmAndFork
<1>2. ASSUME NEW op, Does(op) PROVE Running /\ ProgramKeeps /\ This.op = op
  BY <1>2 DEF Does, ProgramKeeps
<1>3. CASE Does("setjmp") /\ world' = [world EXCEPT !.jump = me.at + 1]
  <2>1. world' = [x \in WorldFields |-> world'[x]] /\ world'.jump = me.at + 1 /\ WorldKeeps({"jump"})
    BY <1>3 DEF Shaped, WorldKeeps, WorldFields
  <2> QED
    BY <1>1, <1>2, <1>3, <2>1 DEF Shaped
<1>4. CASE Does("timer") /\ world' = [world EXCEPT !.timer = TRUE]
  <2>1. world' = [x \in WorldFields |-> world'[x]] /\ world'.timer /\ WorldKeeps({"timer"})
    BY <1>4 DEF Shaped, WorldKeeps, WorldFields
  <2> QED
    BY <1>1, <1>2, <1>4, <2>1 DEF Shaped
<1>5. CASE Does("forkexec") /\ world' = [world EXCEPT !.kid = "run", !.kidmask = me.mask]
  <2>1. world' = [x \in WorldFields |-> world'[x]] /\ world'.kid = "run" /\ world'.kidmask = me.mask
        /\ WorldKeeps({"kid", "kidmask"})
    BY <1>5 DEF Shaped, WorldKeeps, WorldFields
  <2> QED
    BY <1>1, <1>2, <1>5, <2>1 DEF Shaped
<1> QED
  BY <1>3, <1>4, <1>5 DEF ArmAndFork

LEMMA SgFinish == Shaped /\ Finish =>
    /\ me.life = "run" /\ me.at > Len(Code) /\ ProgramKeeps /\ world' = world /\ raised' = raised
    /\ me'.life = "end" /\ MeKeeps({"life"}) /\ Shaped'
<1> SUFFICES ASSUME Shaped, Finish PROVE
    /\ me.life = "run" /\ me.at > Len(Code) /\ ProgramKeeps /\ world' = world /\ raised' = raised
    /\ me'.life = "end" /\ MeKeeps({"life"}) /\ Shaped'
  OBVIOUS
<1>1. me' = [x \in MeFields |-> me'[x]] /\ me'.life = "end" /\ MeKeeps({"life"}) /\ me'.handler = me.handler
  BY DEF Shaped, Finish, MeKeeps, MeFields
<1> QED
  BY <1>1 DEF Shaped, Finish, ProgramKeeps

LEMMA SgFails == Shaped /\ CallFails =>
    /\ Running /\ mishap /\ ~mishap' /\ sg' = sg /\ arrivals' = arrivals /\ world' = world /\ raised' = raised
    /\ \/ This.op \in {"open", "prompt", "readline", "tcgetattr", "timer"}
       \/ This.op = "set" /\ This.v.field \notin {"buf", "flag", "count"}
    /\ IF This.else = "next" THEN GoesOn ELSE PlaysNext(This.else)
    /\ Shaped'
<1> SUFFICES ASSUME Shaped, CallFails PROVE
    /\ Running /\ mishap /\ ~mishap' /\ sg' = sg /\ arrivals' = arrivals /\ world' = world /\ raised' = raised
    /\ \/ This.op \in {"open", "prompt", "readline", "tcgetattr", "timer"}
       \/ This.op = "set" /\ This.v.field \notin {"buf", "flag", "count"}
    /\ IF This.else = "next" THEN GoesOn ELSE PlaysNext(This.else)
    /\ Shaped'
  OBVIOUS
<1>1. Running /\ mishap /\ ~mishap' /\ sg' = sg /\ arrivals' = arrivals /\ world' = world /\ raised' = raised
    /\ \/ This.op \in {"open", "prompt", "readline", "tcgetattr", "timer"}
       \/ This.op = "set" /\ This.v.field \notin {"buf", "flag", "count"}
  BY DEF CallFails
<1>2. CASE This.else = "next"
  <2>1. Go
    BY <1>2 DEF CallFails
  <2>2. GoesOn /\ me' = [x \in MeFields |-> me'[x]] /\ me'.handler = me.handler
    BY <2>1, SgGo
  <2>3. Shaped'
    BY <1>1, <2>2 DEF Shaped
  <2> QED
    BY <1>1, <1>2, <2>2, <2>3
<1>3. CASE This.else # "next"
  <2>1. Plays(This.else)
    BY <1>3 DEF CallFails
  <2> QED
    BY <1>1, <1>3, <2>1, SgPlays DEF Shaped
<1> QED
  BY <1>1, <1>2, <1>3

LEMMA SgOthers == Shaped /\ (KidEnds \/ \E sig \in Sigs : SignalArrives(sig)) =>
    /\ me' = me /\ sg' = sg /\ mishap' = mishap /\ WorldKeeps({"kid"}) /\ Shaped'
    /\ \/ arrivals' = arrivals /\ raised' = raised
       \/ arrivals' = arrivals + 1 /\ \E sig \in Sigs : raised' = raised \cup {sig}
    /\ world'.kid \in {world.kid, "end"} \/ (world'.kid = "killed" /\ world.kid = "run" /\ "INT" \notin world.kidmask)
<1> SUFFICES ASSUME Shaped, KidEnds \/ \E sig \in Sigs : SignalArrives(sig) PROVE
    /\ me' = me /\ sg' = sg /\ mishap' = mishap /\ WorldKeeps({"kid"}) /\ Shaped'
    /\ \/ arrivals' = arrivals /\ raised' = raised
       \/ arrivals' = arrivals + 1 /\ \E sig \in Sigs : raised' = raised \cup {sig}
    /\ world'.kid \in {world.kid, "end"} \/ (world'.kid = "killed" /\ world.kid = "run" /\ "INT" \notin world.kidmask)
  OBVIOUS
<1>1. ASSUME NEW kid, world' = [world EXCEPT !.kid = kid]
      PROVE  WorldKeeps({"kid"}) /\ world'.kid = kid /\ world' = [x \in WorldFields |-> world'[x]]
  BY <1>1 DEF Shaped, WorldKeeps, WorldFields
<1>2. ASSUME world' = world
      PROVE  WorldKeeps({"kid"}) /\ world'.kid = world.kid /\ world' = [x \in WorldFields |-> world'[x]]
  BY <1>2 DEF Shaped, WorldKeeps, WorldFields
<1>3. CASE KidEnds
  BY <1>1, <1>3 DEF KidEnds, Shaped
<1>4. ASSUME NEW sig \in Sigs, SignalArrives(sig)
      PROVE  /\ me' = me /\ sg' = sg /\ mishap' = mishap /\ WorldKeeps({"kid"}) /\ Shaped'
             /\ arrivals' = arrivals + 1 /\ raised' = raised \cup {sig}
             /\ \/ world'.kid \in {world.kid, "end"}
                \/ world'.kid = "killed" /\ world.kid = "run" /\ "INT" \notin world.kidmask
  <2>1. me' = me /\ sg' = sg /\ mishap' = mishap /\ arrivals' = arrivals + 1 /\ raised' = raised \cup {sig}
    BY <1>4 DEF SignalArrives
  <2>2. CASE sig = "INT" /\ world.kid = "run" /\ "INT" \notin world.kidmask
    <3>1. world' = [world EXCEPT !.kid = "killed"]
      BY <1>4, <2>2 DEF SignalArrives
    <3> QED
      BY <1>1, <2>1, <2>2, <3>1 DEF Shaped
  <2>3. CASE ~(sig = "INT" /\ world.kid = "run" /\ "INT" \notin world.kidmask)
    <3>1. world' = world
      BY <1>4, <2>3 DEF SignalArrives
    <3> QED
      BY <1>2, <2>1, <3>1 DEF Shaped
  <2> QED
    BY <2>2, <2>3
<1> QED
  BY <1>3, <1>4

\* A handler that returns ends a suspension and lets the program go on.
Resumes ==
    \/ ~me.suspended /\ me' = me
    \/ me.suspended /\ ~me'.suspended /\ me'.at = me.at + 1 /\ MeKeeps({"at", "suspended", "mask"})

LEMMA SgDeliver == ASSUME Shaped, NEW sig \in Sigs, Deliver(sig)
    PROVE  LET h == me.handler[sig] IN
           /\ me.life = "run" /\ sig \in raised /\ sig \notin me.mask /\ raised' = raised \ {sig} /\ ProgramKeeps /\ Shaped'
           /\ \/ h = "default" /\ me'.life = sig /\ MeKeeps({"life"})
              \/ h = "jump" /\ world.flag /\ world.jump # 0 /\ me'.role = "main" /\ me'.at = world.jump /\ MeKeeps({"role", "at"})
              \/ h # "default" /\ Resumes
           /\ \/ h = "flag" /\ world'.flag /\ WorldKeeps({"flag"})
              \/ h = "count" /\ world'.count = world.count + 1 /\ WorldKeeps({"count"})
              \/ h = "write" /\ (world'.wrong => world.wrong \/ world.buf = "half") /\ WorldKeeps({"wrong"})
              \/ h = "jump" /\ (world'.wrong => world.wrong \/ (world.flag /\ world.jump = 0)) /\ WorldKeeps({"wrong"})
              \/ world' = world
<1> DEFINE h == me.handler[sig]
<1>1. me.life = "run" /\ sig \in raised /\ sig \notin me.mask /\ raised' = raised \ {sig} /\ ProgramKeeps
  BY DEF Deliver, ProgramKeeps
<1>2. me' = CASE h = "default" -> [me EXCEPT !.life = sig]
                  [] h = "jump" /\ world.flag /\ world.jump # 0 -> [me EXCEPT !.role = "main", !.at = world.jump]
                  [] OTHER -> Returned
  BY DEF Deliver
<1>3. world' = CASE h = "flag" -> [world EXCEPT !.flag = TRUE]
                     [] h = "count" -> [world EXCEPT !.count = @ + 1]
                     [] h = "write" -> [world EXCEPT !.wrong = @ \/ world.buf = "half"]
                     [] h = "jump" -> [world EXCEPT !.wrong = @ \/ (world.flag /\ world.jump = 0)]
                     [] OTHER -> world
  BY DEF Deliver
<1>4. /\ me' = [x \in MeFields |-> me'[x]] /\ me'.handler = me.handler
      /\ \/ h = "default" /\ me'.life = sig /\ MeKeeps({"life"})
         \/ h = "jump" /\ world.flag /\ world.jump # 0 /\ me'.role = "main" /\ me'.at = world.jump /\ MeKeeps({"role", "at"})
         \/ h # "default" /\ Resumes
  <2>1. CASE h = "default"
    <3>1. me' = [me EXCEPT !.life = sig]
      BY <1>2, <2>1
    <3> QED
      BY <2>1, <3>1 DEF Shaped, MeKeeps, MeFields
  <2>2. CASE h = "jump" /\ world.flag /\ world.jump # 0
    <3>1. me' = [me EXCEPT !.role = "main", !.at = world.jump]
      BY <1>2, <2>2
    <3>2. me' = [x \in MeFields |-> me'[x]] /\ me'.handler = me.handler
          /\ me'.role = "main" /\ me'.at = world.jump /\ MeKeeps({"role", "at"})
      BY <3>1 DEF Shaped, MeKeeps, MeFields
    <3> QED
      BY <2>2, <3>2
  <2>3. CASE h # "default" /\ ~(h = "jump" /\ world.flag /\ world.jump # 0)
    <3>1. me' = Returned
      BY <1>2, <2>3
    <3>2. CASE me.suspended
      <4>1. me' = [me EXCEPT !.suspended = FALSE, !.mask = me.old, !.at = @ + 1]
        BY <3>1, <3>2 DEF Returned
      <4>2. me' = [x \in MeFields |-> me'[x]] /\ me'.handler = me.handler
            /\ ~me'.suspended /\ me'.at = me.at + 1 /\ MeKeeps({"at", "suspended", "mask"})
        BY <4>1 DEF Shaped, MeKeeps, MeFields
      <4> QED
        BY <2>3, <3>2, <4>2 DEF Resumes
    <3>3. CASE ~me.suspended
      BY <2>3, <3>1, <3>3 DEF Returned, Resumes, Shaped
    <3> QED
      BY <3>2, <3>3
  <2> QED
    BY <2>1, <2>2, <2>3
<1>5. /\ world' = [x \in WorldFields |-> world'[x]]
      /\ \/ h = "flag" /\ world'.flag /\ WorldKeeps({"flag"})
         \/ h = "count" /\ world'.count = world.count + 1 /\ WorldKeeps({"count"})
         \/ h = "write" /\ (world'.wrong => world.wrong \/ world.buf = "half") /\ WorldKeeps({"wrong"})
         \/ h = "jump" /\ (world'.wrong => world.wrong \/ (world.flag /\ world.jump = 0)) /\ WorldKeeps({"wrong"})
         \/ world' = world
  <2>1. CASE h = "flag"
    <3>1. world' = [world EXCEPT !.flag = TRUE]
      BY <1>3, <2>1
    <3>2. world' = [x \in WorldFields |-> world'[x]] /\ world'.flag /\ WorldKeeps({"flag"})
      BY <3>1 DEF Shaped, WorldKeeps, WorldFields
    <3> QED
      BY <2>1, <3>2
  <2>2. CASE h = "count"
    <3>1. world' = [world EXCEPT !.count = @ + 1]
      BY <1>3, <2>2
    <3>2. world' = [x \in WorldFields |-> world'[x]] /\ world'.count = world.count + 1 /\ WorldKeeps({"count"})
      BY <3>1 DEF Shaped, WorldKeeps, WorldFields
    <3> QED
      BY <2>2, <3>2
  <2>3. CASE h = "write"
    <3>0. PICK w : w = (world.wrong \/ world.buf = "half")
      OBVIOUS
    <3>1. world' = [world EXCEPT !.wrong = w]
      BY <1>3, <2>3, <3>0 DEF Shaped, WorldFields
    <3>2. world' = [x \in WorldFields |-> world'[x]] /\ world'.wrong = w /\ WorldKeeps({"wrong"})
      BY <3>1 DEF Shaped, WorldKeeps, WorldFields
    <3> QED
      BY <2>3, <3>0, <3>2
  <2>4. CASE h = "jump"
    <3>0. PICK w : w = (world.wrong \/ (world.flag /\ world.jump = 0))
      OBVIOUS
    <3>1. world' = [world EXCEPT !.wrong = w]
      BY <1>3, <2>4, <3>0 DEF Shaped, WorldFields
    <3>2. world' = [x \in WorldFields |-> world'[x]] /\ world'.wrong = w /\ WorldKeeps({"wrong"})
      BY <3>1 DEF Shaped, WorldKeeps, WorldFields
    <3> QED
      BY <2>4, <3>0, <3>2
  <2>5. CASE h \notin {"flag", "count", "write", "jump"}
    <3>1. world' = world
      BY <1>3, <2>5
    <3> QED
      BY <3>1 DEF Shaped
  <2> QED
    BY <2>1, <2>2, <2>3, <2>4, <2>5
<1>6. Shaped'
  BY <1>4, <1>5 DEF Shaped
<1> QED
  BY <1>1, <1>4, <1>5, <1>6

StepOf(op, v, e) == [op |-> op, v |-> v, else |-> e]

LEMMA SgOrElse == ASSUME NEW op, NEW v, NEW e PROVE OrElse(S(op, v), e) = StepOf(op, v, e)
<1>1. PICK s : s = S(op, v)
  OBVIOUS
<1>2. PICK r : r = [s EXCEPT !.else = e]
  OBVIOUS
<1>3. r = [x \in {"op", "v", "else"} |-> r[x]] /\ r.op = op /\ r.v = v /\ r.else = e
  BY <1>1, <1>2 DEF S
<1>4. r = StepOf(op, v, e)
  BY <1>3 DEF StepOf
<1> QED
  BY <1>1, <1>2, <1>4 DEF OrElse

LEMMA SgSteps == \A op, v : /\ S(op, v) = StepOf(op, v, "failed")
                            /\ Ignored(S(op, v)) = StepOf(op, v, "next")
                            /\ \A e : OrElse(S(op, v), e) = StepOf(op, v, e)
  BY SgOrElse DEF S, StepOf, OrElse, Ignored

\* The programs, step by step.
LEMMA SignalterminateCode == signalterminate =
    [main |-> <<StepOf("handle", [sig |-> "INT", h |-> "flag"], "failed"), StepOf("to", "loop", "failed")>>,
     loop |-> <<StepOf("while", [flag |-> "flag", role |-> "loop"], "failed")>>]
  BY SgSteps DEF signalterminate, Handler, To, While

LEMMA SigjmpCode == sigjmp =
    [main |-> <<StepOf("handle", [sig |-> "INT", h |-> "jump"], "failed"), StepOf("setjmp", 0, "failed"),
                StepOf("set", [field |-> "flag", value |-> TRUE], "failed"), StepOf("to", "loop", "failed")>>,
     loop |-> <<StepOf("pause", 0, "failed")>>]
  BY SgSteps DEF sigjmp, Handler, Set, To, Pause

LEMMA BlocktestCode == blocktest =
    [main |-> <<StepOf("to", "loop", "failed")>>,
     loop |-> <<StepOf("block", {"INT"}, "failed"), StepOf("unblock", {"INT"}, "failed"),
                StepOf("to", "loop", "failed")>>]
  BY SgSteps DEF blocktest, To, BlockSigs, UnblockSigs

LEMMA CountsignalsCode == countsignals =
    [main |-> <<StepOf("block", {"USR1"}, "failed"), StepOf("to", "loop", "failed")>>,
     loop |-> <<StepOf("sigwait", {"USR1"}, "failed"),
                StepOf("set", [field |-> "count", value |-> 1], "failed"), StepOf("to", "loop", "failed")>>]
  BY SgSteps DEF countsignals, BlockSigs, To, Sigwait, Set

LEMMA Sigsuspendtest1Code == sigsuspendtest1 =
    [main |-> <<StepOf("setmask", "all", "failed"),
                StepOf("while", [flag |-> "flag", role |-> "suspend"], "failed"),
                StepOf("setmask", "old", "failed")>>,
     suspend |-> <<StepOf("suspend", Sigs \ {"USR1"}, "failed"), StepOf("setmask", "old", "failed")>>]
  BY SgSteps DEF sigsuspendtest1, SetMask, While, Suspend

LEMMA Sigsuspendtest2Code == sigsuspendtest2 =
    [main |-> <<StepOf("handle", [sig |-> "USR1", h |-> "flag"], "failed"), StepOf("block", {"USR1"}, "failed"),
                StepOf("to", "loop", "failed")>>,
     loop |-> <<StepOf("suspend", {}, "failed"), StepOf("to", "loop", "failed")>>]
  BY SgSteps DEF sigsuspendtest2, Handler, BlockSigs, To, Suspend

LEMMA Sigsuspendtest3Code == sigsuspendtest3 =
    [main |-> <<StepOf("handle", [sig |-> "USR1", h |-> "flag"], "failed"), StepOf("block", {"USR1"}, "failed"),
                StepOf("to", "loop", "failed")>>,
     loop |-> <<StepOf("suspend", {}, "failed"), StepOf("to", "loop", "failed")>>]
  BY SgSteps DEF sigsuspendtest3, Handler, BlockSigs, To, Suspend

LEMMA MakepairCode == makepair =
    [main |-> <<StepOf("setmask", "all", "failed"), StepOf("set", [field |-> "fifo1", value |-> TRUE], "undo"),
                StepOf("set", [field |-> "fifo2", value |-> TRUE], "undo"), StepOf("setmask", "old", "failed")>>,
     undo |-> <<StepOf("set", [field |-> "fifo1", value |-> FALSE], "next"),
                StepOf("set", [field |-> "fifo2", value |-> FALSE], "next"), StepOf("setmask", "old", "failed"),
                StepOf("to", "failed", "failed")>>]
  BY SgSteps DEF makepair, SetMask, Set, To

LEMMA BlockchildCode == blockchild =
    [main |-> <<StepOf("setmask", "all", "failed"), StepOf("forkexec", 0, "failed"),
                StepOf("setmask", "old", "failed"), StepOf("r_wait", 0, "failed")>>]
  BY SgSteps DEF blockchild, SetMask

LEMMA DontblockchildCode == dontblockchild =
    [main |-> <<StepOf("forkexec", 0, "failed"), StepOf("r_wait", 0, "failed")>>]
  BY SgSteps DEF dontblockchild

LEMMA PasswordCode == password =
    [main |-> <<StepOf("open", 0, "failed"), StepOf("block", {"INT"}, "failed"),
                StepOf("set", [field |-> "echo", value |-> FALSE], "undo"), StepOf("prompt", 0, "finish"),
                StepOf("readline", 0, "finish"), StepOf("to", "finish", "failed")>>,
     undo |-> <<StepOf("setmask", "old", "failed"), StepOf("close", 0, "next"), StepOf("to", "failed", "failed")>>,
     finish |-> <<StepOf("set", [field |-> "echo", value |-> TRUE], "next"), StepOf("setmask", "old", "failed"),
                  StepOf("close", 0, "next")>>]
  BY SgSteps DEF password, BlockSigs, Set, To, SetMask, setecho

LEMMA PasswordnosigsCode == passwordnosigs =
    [main |-> <<StepOf("open", 0, "failed"), StepOf("set", [field |-> "echo", value |-> FALSE], "finish"),
                StepOf("prompt", 0, "finish"), StepOf("readline", 0, "finish"), StepOf("to", "finish", "failed")>>,
     finish |-> <<StepOf("set", [field |-> "echo", value |-> TRUE], "next"), StepOf("prompt", 0, "next"),
                  StepOf("close", 0, "next")>>]
  BY SgSteps DEF passwordnosigs, Set, To, setecho

LEMMA PeriodicmessageCode == periodicmessage =
    [main |-> <<StepOf("handle", [sig |-> "ALRM", h |-> "nothing"], "failed"), StepOf("timer", 0, "failed"),
                StepOf("to", "loop", "failed")>>,
     loop |-> <<StepOf("pause", 0, "failed")>>]
  BY SgSteps DEF periodicmessage, Handler, To, Pause

LEMMA PeriodicasteriskCode == periodicasterisk =
    [main |-> <<StepOf("handle", [sig |-> "ALRM", h |-> "nothing"], "failed"), StepOf("timer", 0, "failed"),
                StepOf("to", "loop", "failed")>>,
     loop |-> <<StepOf("pause", 0, "failed")>>]
  BY SgSteps DEF periodicasterisk, Handler, To, Pause

LEMMA TimesignalsCode == timesignals =
    [main |-> <<StepOf("handle", [sig |-> "ALRM", h |-> "count"], "failed"),
                StepOf("block", {"ALRM"}, "failed"), StepOf("suspend", {}, "failed"),
                StepOf("to", "loop", "failed")>>,
     loop |-> <<StepOf("counted", "rest", "failed"), StepOf("suspend", {}, "failed"),
                StepOf("to", "loop", "failed")>>,
     rest |-> <<>>]
  BY SgSteps DEF timesignals, Handler, BlockSigs, Suspend, To
LEMMA AveragesinCode ==
    LET results6 == <<StepOf("block", {"USR1"}, "failed"), StepOf("set", [field |-> "buf", value |-> "half"], "failed"),
                      StepOf("set", [field |-> "buf", value |-> "whole"], "failed"), StepOf("setmask", "old", "failed"),
                      StepOf("perhaps", "calculate", "failed"), StepOf("to", "last", "failed")>>
    IN /\ DOMAIN averagesin = {"main", "calculate", "last"}
       /\ averagesin.main = <<StepOf("handle", [sig |-> "USR1", h |-> "write"], "failed"), StepOf("to", "calculate", "failed")>>
       /\ Len(averagesin.calculate) = 6 /\ Len(averagesin.last) = 4
       /\ \A i \in 1 .. 6 : averagesin.calculate[i] = results6[i]
       /\ \A i \in 1 .. 4 : averagesin.last[i] = results6[i]
<1> DEFINE a == StepOf("block", {"USR1"}, "failed")
           b == StepOf("set", [field |-> "buf", value |-> "half"], "failed")
           c == StepOf("set", [field |-> "buf", value |-> "whole"], "failed")
           d == StepOf("setmask", "old", "failed")
           e == StepOf("perhaps", "calculate", "failed")
           f == StepOf("to", "last", "failed")
<1>1. results = <<a, b, c, d>>
  BY SgSteps DEF results, BlockSigs, Set, SetMask
<1>2. <<Perhaps("calculate"), To("last")>> = <<e, f>>
  BY SgSteps DEF Perhaps, To
<1>3. Handler("USR1", "write") = StepOf("handle", [sig |-> "USR1", h |-> "write"], "failed")
      /\ To("calculate") = StepOf("to", "calculate", "failed")
  BY SgSteps DEF Handler, To
<1>4. PICK u : u = results \o <<Perhaps("calculate"), To("last")>>
  OBVIOUS
<1> HIDE DEF a, b, c, d, e, f
<1>5. Len(u) = 6 /\ u[1] = a /\ u[2] = b /\ u[3] = c /\ u[4] = d /\ u[5] = e /\ u[6] = f
  BY <1>1, <1>2, <1>4
<1>6. averagesin = [main |-> <<Handler("USR1", "write"), To("calculate")>>, calculate |-> u, last |-> results]
  BY <1>4 DEF averagesin
<1>7. /\ DOMAIN averagesin = {"main", "calculate", "last"}
      /\ averagesin.main = <<StepOf("handle", [sig |-> "USR1", h |-> "write"], "failed"), StepOf("to", "calculate", "failed")>>
      /\ averagesin.calculate = u /\ averagesin.last = results
  BY <1>3, <1>6
<1>8. \A i \in 1 .. 6 : u[i] = <<a, b, c, d, e, f>>[i]
  BY <1>5
<1>9. \A i \in 1 .. 4 : results[i] = <<a, b, c, d, e, f>>[i]
  BY <1>1
<1> QED
  BY <1>1, <1>5, <1>7, <1>8, <1>9 DEF a, b, c, d, e, f

LEMMA SetnoncanonicaltestCode ==
    LET mains == <<StepOf("readline", 0, "next"), StepOf("open", 0, "failed"), StepOf("tcgetattr", 0, "failed"),
                   StepOf("close", 0, "failed"), StepOf("to", "set", "failed")>>
        ons == <<StepOf("readline", 0, "next"), StepOf("open", 0, "failed"),
                 StepOf("set", [field |-> "canonical", value |-> TRUE], "failed"), StepOf("close", 0, "failed"),
                 StepOf("readline", 0, "next")>>
    IN /\ DOMAIN setnoncanonicaltest = {"main", "set", "on"}
       /\ Len(setnoncanonicaltest.main) = 5 /\ Len(setnoncanonicaltest.on) = 5
       /\ \A i \in 1 .. 5 : setnoncanonicaltest.main[i] = mains[i] /\ setnoncanonicaltest.on[i] = ons[i]
       /\ setnoncanonicaltest.set =
             <<StepOf("open", 0, "on"), StepOf("set", [field |-> "canonical", value |-> FALSE], "on"),
               StepOf("set", [field |-> "chars", value |-> "changed"], "on"),
               StepOf("set", [field |-> "chars", value |-> "changed"], "on"),
               StepOf("close", 0, "next"), StepOf("to", "on", "failed")>>
<1> DEFINE r == StepOf("readline", 0, "next")
           o == StepOf("open", 0, "failed")
           a == StepOf("tcgetattr", 0, "failed")
           c == StepOf("close", 0, "failed")
           s == StepOf("set", [field |-> "canonical", value |-> TRUE], "failed")
           t == StepOf("to", "set", "failed")
<1>1. Ignored(S("readline", 0)) = r /\ gettermios = <<o, a, c>> /\ settermios = <<o, s, c>> /\ To("set") = t
  BY SgSteps DEF gettermios, settermios, Set, To
<1>2. setnoncanonical =
         <<StepOf("open", 0, "on"), StepOf("set", [field |-> "canonical", value |-> FALSE], "on"),
           StepOf("set", [field |-> "chars", value |-> "changed"], "on"),
           StepOf("set", [field |-> "chars", value |-> "changed"], "on"),
           StepOf("close", 0, "next"), StepOf("to", "on", "failed")>>
  BY SgSteps DEF setnoncanonical, ttysetchar, Set, To
<1> HIDE DEF r, o, a, c, s, t
<1>3. PICK u1 : u1 = <<Ignored(S("readline", 0))>> \o gettermios
  OBVIOUS
<1>4. PICK u : u = u1 \o <<To("set")>>
  OBVIOUS
<1>5. PICK v1 : v1 = <<Ignored(S("readline", 0))>> \o settermios
  OBVIOUS
<1>6. PICK v : v = v1 \o <<Ignored(S("readline", 0))>>
  OBVIOUS
<1>7. u1 = <<r, o, a, c>>
  <2>1. u1 \in Seq({r, o, a, c}) /\ Len(u1) = 4 /\ u1[1] = r /\ u1[2] = o /\ u1[3] = a /\ u1[4] = c
    BY <1>1, <1>3
  <2>2. PICK w : w = <<r, o, a, c>>
    OBVIOUS
  <2>3. w \in Seq({r, o, a, c}) /\ Len(w) = 4 /\ \A i \in 1 .. 4 : u1[i] = w[i]
    BY <2>1, <2>2
  <2>4. u1 = w
    BY ONLY <2>1, <2>3, SeqEqual
  <2> QED
    BY <2>2, <2>4
<1>8. Len(u) = 5 /\ u[1] = r /\ u[2] = o /\ u[3] = a /\ u[4] = c /\ u[5] = t
  BY <1>1, <1>4, <1>7
<1>9. v1 = <<r, o, s, c>>
  <2>1. v1 \in Seq({r, o, s, c}) /\ Len(v1) = 4 /\ v1[1] = r /\ v1[2] = o /\ v1[3] = s /\ v1[4] = c
    BY <1>1, <1>5
  <2>2. PICK w : w = <<r, o, s, c>>
    OBVIOUS
  <2>3. w \in Seq({r, o, s, c}) /\ Len(w) = 4 /\ \A i \in 1 .. 4 : v1[i] = w[i]
    BY <2>1, <2>2
  <2>4. v1 = w
    BY ONLY <2>1, <2>3, SeqEqual
  <2> QED
    BY <2>2, <2>4
<1>10. Len(v) = 5 /\ v[1] = r /\ v[2] = o /\ v[3] = s /\ v[4] = c /\ v[5] = r
  BY <1>1, <1>6, <1>9
<1>11. setnoncanonicaltest = [main |-> u, set |-> setnoncanonical, on |-> v]
  BY <1>3, <1>4, <1>5, <1>6 DEF setnoncanonicaltest
<1>12. \A i \in 1 .. 5 : u[i] = <<r, o, a, c, t>>[i] /\ v[i] = <<r, o, s, c, r>>[i]
  BY <1>8, <1>10
<1> QED
  BY <1>2, <1>8, <1>10, <1>11, <1>12 DEF r, o, a, c, s, t

Periodic == {"periodicmessage", "periodicasterisk"}
Suspenders == {"sigsuspendtest1", "sigsuspendtest2", "sigsuspendtest3", "timesignals"}

\* What a step of program p with the roles in D may be: it goes to one of them, only
\* averagesin writes and only sigjmp jumps from a handler, only the periodic programs
\* start a timer, and few suspend themselves.
Fine(p, D, s) ==
    /\ s.op \in {"to", "perhaps", "counted"} => s.v \in D \cup {"failed"}
    /\ s.op = "while" => s.v.role \in D
    /\ s.else \in D \cup {"next", "failed"}
    /\ s.op = "handle" => /\ s.v.sig \in Sigs /\ s.v.h # "default"
                          /\ s.v.h = "write" => p = "averagesin" /\ s.v.sig = "USR1"
                          /\ s.v.h = "jump" => p = "sigjmp"
    /\ s.op = "timer" => p \in Periodic
    /\ s.op = "suspend" => p \in Suspenders
    /\ s.op = "set" => s.v.field \in {"buf", "flag", "count", "fifo1", "fifo2", "echo", "canonical", "chars"}
FineRole(p, D, code) == Len(code) \in Nat /\ \A i \in 1 .. Len(code) : Fine(p, D, code[i])
FineProgram(p) == LET D == DOMAIN Programs[p] IN "main" \in D /\ \A r \in D : FineRole(p, D, Programs[p][r])

LEMMA SgFine == \A p \in DOMAIN Programs : FineProgram(p)
<1>1. FineProgram("averagesin")
  <2>1. Programs["averagesin"] = averagesin /\ DOMAIN averagesin = {"main", "calculate", "last"}
    BY AveragesinCode DEF Programs
  <2>2. FineRole("averagesin", {"main", "calculate", "last"}, averagesin.main)
    <3>1. Len(averagesin.main) = 2 /\ \A i \in 1 .. 2 : Fine("averagesin", {"main", "calculate", "last"}, averagesin.main[i])
      BY AveragesinCode DEF Fine, StepOf, Sigs, Periodic, Suspenders
    <3> QED
      BY <3>1 DEF FineRole
  <2>3. FineRole("averagesin", {"main", "calculate", "last"}, averagesin.calculate)
    <3>1. Len(averagesin.calculate) = 6 /\ \A i \in 1 .. 6 : Fine("averagesin", {"main", "calculate", "last"}, averagesin.calculate[i])
      BY AveragesinCode DEF Fine, StepOf, Sigs, Periodic, Suspenders
    <3> QED
      BY <3>1 DEF FineRole
  <2>4. FineRole("averagesin", {"main", "calculate", "last"}, averagesin.last)
    <3>1. Len(averagesin.last) = 4 /\ \A i \in 1 .. 4 : Fine("averagesin", {"main", "calculate", "last"}, averagesin.last[i])
      BY AveragesinCode DEF Fine, StepOf, Sigs, Periodic, Suspenders
    <3> QED
      BY <3>1 DEF FineRole
  <2> QED
    BY <2>1, <2>2, <2>3, <2>4 DEF FineProgram
<1>2. FineProgram("signalterminate")
  <2>1. Programs["signalterminate"] = signalterminate /\ DOMAIN signalterminate = {"main", "loop"}
    BY SignalterminateCode DEF Programs
  <2>2. FineRole("signalterminate", {"main", "loop"}, signalterminate.main)
    <3>1. Len(signalterminate.main) = 2 /\ \A i \in 1 .. 2 : Fine("signalterminate", {"main", "loop"}, signalterminate.main[i])
      BY SignalterminateCode DEF Fine, StepOf, Sigs, Periodic, Suspenders
    <3> QED
      BY <3>1 DEF FineRole
  <2>3. FineRole("signalterminate", {"main", "loop"}, signalterminate.loop)
    <3>1. Len(signalterminate.loop) = 1 /\ \A i \in 1 .. 1 : Fine("signalterminate", {"main", "loop"}, signalterminate.loop[i])
      BY SignalterminateCode DEF Fine, StepOf, Sigs, Periodic, Suspenders
    <3> QED
      BY <3>1 DEF FineRole
  <2> QED
    BY <2>1, <2>2, <2>3 DEF FineProgram
<1>3. FineProgram("sigjmp")
  <2>1. Programs["sigjmp"] = sigjmp /\ DOMAIN sigjmp = {"main", "loop"}
    BY SigjmpCode DEF Programs
  <2>2. FineRole("sigjmp", {"main", "loop"}, sigjmp.main)
    <3>1. Len(sigjmp.main) = 4 /\ \A i \in 1 .. 4 : Fine("sigjmp", {"main", "loop"}, sigjmp.main[i])
      BY SigjmpCode DEF Fine, StepOf, Sigs, Periodic, Suspenders
    <3> QED
      BY <3>1 DEF FineRole
  <2>3. FineRole("sigjmp", {"main", "loop"}, sigjmp.loop)
    <3>1. Len(sigjmp.loop) = 1 /\ \A i \in 1 .. 1 : Fine("sigjmp", {"main", "loop"}, sigjmp.loop[i])
      BY SigjmpCode DEF Fine, StepOf, Sigs, Periodic, Suspenders
    <3> QED
      BY <3>1 DEF FineRole
  <2> QED
    BY <2>1, <2>2, <2>3 DEF FineProgram
<1>4. FineProgram("blocktest")
  <2>1. Programs["blocktest"] = blocktest /\ DOMAIN blocktest = {"main", "loop"}
    BY BlocktestCode DEF Programs
  <2>2. FineRole("blocktest", {"main", "loop"}, blocktest.main)
    <3>1. Len(blocktest.main) = 1 /\ \A i \in 1 .. 1 : Fine("blocktest", {"main", "loop"}, blocktest.main[i])
      BY BlocktestCode DEF Fine, StepOf, Sigs, Periodic, Suspenders
    <3> QED
      BY <3>1 DEF FineRole
  <2>3. FineRole("blocktest", {"main", "loop"}, blocktest.loop)
    <3>1. Len(blocktest.loop) = 3 /\ \A i \in 1 .. 3 : Fine("blocktest", {"main", "loop"}, blocktest.loop[i])
      BY BlocktestCode DEF Fine, StepOf, Sigs, Periodic, Suspenders
    <3> QED
      BY <3>1 DEF FineRole
  <2> QED
    BY <2>1, <2>2, <2>3 DEF FineProgram
<1>5. FineProgram("countsignals")
  <2>1. Programs["countsignals"] = countsignals /\ DOMAIN countsignals = {"main", "loop"}
    BY CountsignalsCode DEF Programs
  <2>2. FineRole("countsignals", {"main", "loop"}, countsignals.main)
    <3>1. Len(countsignals.main) = 2 /\ \A i \in 1 .. 2 : Fine("countsignals", {"main", "loop"}, countsignals.main[i])
      BY CountsignalsCode DEF Fine, StepOf, Sigs, Periodic, Suspenders
    <3> QED
      BY <3>1 DEF FineRole
  <2>3. FineRole("countsignals", {"main", "loop"}, countsignals.loop)
    <3>1. Len(countsignals.loop) = 3 /\ \A i \in 1 .. 3 : Fine("countsignals", {"main", "loop"}, countsignals.loop[i])
      BY CountsignalsCode DEF Fine, StepOf, Sigs, Periodic, Suspenders
    <3> QED
      BY <3>1 DEF FineRole
  <2> QED
    BY <2>1, <2>2, <2>3 DEF FineProgram
<1>6. FineProgram("sigsuspendtest1")
  <2>1. Programs["sigsuspendtest1"] = sigsuspendtest1 /\ DOMAIN sigsuspendtest1 = {"main", "suspend"}
    BY Sigsuspendtest1Code DEF Programs
  <2>2. FineRole("sigsuspendtest1", {"main", "suspend"}, sigsuspendtest1.main)
    <3>1. Len(sigsuspendtest1.main) = 3 /\ \A i \in 1 .. 3 : Fine("sigsuspendtest1", {"main", "suspend"}, sigsuspendtest1.main[i])
      BY Sigsuspendtest1Code DEF Fine, StepOf, Sigs, Periodic, Suspenders
    <3> QED
      BY <3>1 DEF FineRole
  <2>3. FineRole("sigsuspendtest1", {"main", "suspend"}, sigsuspendtest1.suspend)
    <3>1. Len(sigsuspendtest1.suspend) = 2 /\ \A i \in 1 .. 2 : Fine("sigsuspendtest1", {"main", "suspend"}, sigsuspendtest1.suspend[i])
      BY Sigsuspendtest1Code DEF Fine, StepOf, Sigs, Periodic, Suspenders
    <3> QED
      BY <3>1 DEF FineRole
  <2> QED
    BY <2>1, <2>2, <2>3 DEF FineProgram
<1>7. FineProgram("sigsuspendtest2")
  <2>1. Programs["sigsuspendtest2"] = sigsuspendtest2 /\ DOMAIN sigsuspendtest2 = {"main", "loop"}
    BY Sigsuspendtest2Code DEF Programs
  <2>2. FineRole("sigsuspendtest2", {"main", "loop"}, sigsuspendtest2.main)
    <3>1. Len(sigsuspendtest2.main) = 3 /\ \A i \in 1 .. 3 : Fine("sigsuspendtest2", {"main", "loop"}, sigsuspendtest2.main[i])
      BY Sigsuspendtest2Code DEF Fine, StepOf, Sigs, Periodic, Suspenders
    <3> QED
      BY <3>1 DEF FineRole
  <2>3. FineRole("sigsuspendtest2", {"main", "loop"}, sigsuspendtest2.loop)
    <3>1. Len(sigsuspendtest2.loop) = 2 /\ \A i \in 1 .. 2 : Fine("sigsuspendtest2", {"main", "loop"}, sigsuspendtest2.loop[i])
      BY Sigsuspendtest2Code DEF Fine, StepOf, Sigs, Periodic, Suspenders
    <3> QED
      BY <3>1 DEF FineRole
  <2> QED
    BY <2>1, <2>2, <2>3 DEF FineProgram
<1>8. FineProgram("sigsuspendtest3")
  <2>1. Programs["sigsuspendtest3"] = sigsuspendtest3 /\ DOMAIN sigsuspendtest3 = {"main", "loop"}
    BY Sigsuspendtest3Code DEF Programs
  <2>2. FineRole("sigsuspendtest3", {"main", "loop"}, sigsuspendtest3.main)
    <3>1. Len(sigsuspendtest3.main) = 3 /\ \A i \in 1 .. 3 : Fine("sigsuspendtest3", {"main", "loop"}, sigsuspendtest3.main[i])
      BY Sigsuspendtest3Code DEF Fine, StepOf, Sigs, Periodic, Suspenders
    <3> QED
      BY <3>1 DEF FineRole
  <2>3. FineRole("sigsuspendtest3", {"main", "loop"}, sigsuspendtest3.loop)
    <3>1. Len(sigsuspendtest3.loop) = 2 /\ \A i \in 1 .. 2 : Fine("sigsuspendtest3", {"main", "loop"}, sigsuspendtest3.loop[i])
      BY Sigsuspendtest3Code DEF Fine, StepOf, Sigs, Periodic, Suspenders
    <3> QED
      BY <3>1 DEF FineRole
  <2> QED
    BY <2>1, <2>2, <2>3 DEF FineProgram
<1>9. FineProgram("makepair")
  <2>1. Programs["makepair"] = makepair /\ DOMAIN makepair = {"main", "undo"}
    BY MakepairCode DEF Programs
  <2>2. FineRole("makepair", {"main", "undo"}, makepair.main)
    <3>1. Len(makepair.main) = 4 /\ \A i \in 1 .. 4 : Fine("makepair", {"main", "undo"}, makepair.main[i])
      BY MakepairCode DEF Fine, StepOf, Sigs, Periodic, Suspenders
    <3> QED
      BY <3>1 DEF FineRole
  <2>3. FineRole("makepair", {"main", "undo"}, makepair.undo)
    <3>1. Len(makepair.undo) = 4 /\ \A i \in 1 .. 4 : Fine("makepair", {"main", "undo"}, makepair.undo[i])
      BY MakepairCode DEF Fine, StepOf, Sigs, Periodic, Suspenders
    <3> QED
      BY <3>1 DEF FineRole
  <2> QED
    BY <2>1, <2>2, <2>3 DEF FineProgram
<1>10. FineProgram("blockchild")
  <2>1. Programs["blockchild"] = blockchild /\ DOMAIN blockchild = {"main"}
    BY BlockchildCode DEF Programs
  <2>2. FineRole("blockchild", {"main"}, blockchild.main)
    <3>1. Len(blockchild.main) = 4 /\ \A i \in 1 .. 4 : Fine("blockchild", {"main"}, blockchild.main[i])
      BY BlockchildCode DEF Fine, StepOf, Sigs, Periodic, Suspenders
    <3> QED
      BY <3>1 DEF FineRole
  <2> QED
    BY <2>1, <2>2 DEF FineProgram
<1>11. FineProgram("dontblockchild")
  <2>1. Programs["dontblockchild"] = dontblockchild /\ DOMAIN dontblockchild = {"main"}
    BY DontblockchildCode DEF Programs
  <2>2. FineRole("dontblockchild", {"main"}, dontblockchild.main)
    <3>1. Len(dontblockchild.main) = 2 /\ \A i \in 1 .. 2 : Fine("dontblockchild", {"main"}, dontblockchild.main[i])
      BY DontblockchildCode DEF Fine, StepOf, Sigs, Periodic, Suspenders
    <3> QED
      BY <3>1 DEF FineRole
  <2> QED
    BY <2>1, <2>2 DEF FineProgram
<1>12. FineProgram("password")
  <2>1. Programs["password"] = password /\ DOMAIN password = {"main", "undo", "finish"}
    BY PasswordCode DEF Programs
  <2>2. FineRole("password", {"main", "undo", "finish"}, password.main)
    <3>1. Len(password.main) = 6 /\ \A i \in 1 .. 6 : Fine("password", {"main", "undo", "finish"}, password.main[i])
      BY PasswordCode DEF Fine, StepOf, Sigs, Periodic, Suspenders
    <3> QED
      BY <3>1 DEF FineRole
  <2>3. FineRole("password", {"main", "undo", "finish"}, password.undo)
    <3>1. Len(password.undo) = 3 /\ \A i \in 1 .. 3 : Fine("password", {"main", "undo", "finish"}, password.undo[i])
      BY PasswordCode DEF Fine, StepOf, Sigs, Periodic, Suspenders
    <3> QED
      BY <3>1 DEF FineRole
  <2>4. FineRole("password", {"main", "undo", "finish"}, password.finish)
    <3>1. Len(password.finish) = 3 /\ \A i \in 1 .. 3 : Fine("password", {"main", "undo", "finish"}, password.finish[i])
      BY PasswordCode DEF Fine, StepOf, Sigs, Periodic, Suspenders
    <3> QED
      BY <3>1 DEF FineRole
  <2> QED
    BY <2>1, <2>2, <2>3, <2>4 DEF FineProgram
<1>13. FineProgram("passwordnosigs")
  <2>1. Programs["passwordnosigs"] = passwordnosigs /\ DOMAIN passwordnosigs = {"main", "finish"}
    BY PasswordnosigsCode DEF Programs
  <2>2. FineRole("passwordnosigs", {"main", "finish"}, passwordnosigs.main)
    <3>1. Len(passwordnosigs.main) = 5 /\ \A i \in 1 .. 5 : Fine("passwordnosigs", {"main", "finish"}, passwordnosigs.main[i])
      BY PasswordnosigsCode DEF Fine, StepOf, Sigs, Periodic, Suspenders
    <3> QED
      BY <3>1 DEF FineRole
  <2>3. FineRole("passwordnosigs", {"main", "finish"}, passwordnosigs.finish)
    <3>1. Len(passwordnosigs.finish) = 3 /\ \A i \in 1 .. 3 : Fine("passwordnosigs", {"main", "finish"}, passwordnosigs.finish[i])
      BY PasswordnosigsCode DEF Fine, StepOf, Sigs, Periodic, Suspenders
    <3> QED
      BY <3>1 DEF FineRole
  <2> QED
    BY <2>1, <2>2, <2>3 DEF FineProgram
<1>14. FineProgram("setnoncanonicaltest")
  <2>1. Programs["setnoncanonicaltest"] = setnoncanonicaltest /\ DOMAIN setnoncanonicaltest = {"main", "set", "on"}
    BY SetnoncanonicaltestCode DEF Programs
  <2>2. FineRole("setnoncanonicaltest", {"main", "set", "on"}, setnoncanonicaltest.main)
    <3>1. Len(setnoncanonicaltest.main) = 5 /\ \A i \in 1 .. 5 : Fine("setnoncanonicaltest", {"main", "set", "on"}, setnoncanonicaltest.main[i])
      BY SetnoncanonicaltestCode DEF Fine, StepOf, Sigs, Periodic, Suspenders
    <3> QED
      BY <3>1 DEF FineRole
  <2>3. FineRole("setnoncanonicaltest", {"main", "set", "on"}, setnoncanonicaltest.set)
    <3>1. Len(setnoncanonicaltest.set) = 6 /\ \A i \in 1 .. 6 : Fine("setnoncanonicaltest", {"main", "set", "on"}, setnoncanonicaltest.set[i])
      BY SetnoncanonicaltestCode DEF Fine, StepOf, Sigs, Periodic, Suspenders
    <3> QED
      BY <3>1 DEF FineRole
  <2>4. FineRole("setnoncanonicaltest", {"main", "set", "on"}, setnoncanonicaltest.on)
    <3>1. Len(setnoncanonicaltest.on) = 5 /\ \A i \in 1 .. 5 : Fine("setnoncanonicaltest", {"main", "set", "on"}, setnoncanonicaltest.on[i])
      BY SetnoncanonicaltestCode DEF Fine, StepOf, Sigs, Periodic, Suspenders
    <3> QED
      BY <3>1 DEF FineRole
  <2> QED
    BY <2>1, <2>2, <2>3, <2>4 DEF FineProgram
<1>15. FineProgram("periodicmessage")
  <2>1. Programs["periodicmessage"] = periodicmessage /\ DOMAIN periodicmessage = {"main", "loop"}
    BY PeriodicmessageCode DEF Programs
  <2>2. FineRole("periodicmessage", {"main", "loop"}, periodicmessage.main)
    <3>1. Len(periodicmessage.main) = 3 /\ \A i \in 1 .. 3 : Fine("periodicmessage", {"main", "loop"}, periodicmessage.main[i])
      BY PeriodicmessageCode DEF Fine, StepOf, Sigs, Periodic, Suspenders
    <3> QED
      BY <3>1 DEF FineRole
  <2>3. FineRole("periodicmessage", {"main", "loop"}, periodicmessage.loop)
    <3>1. Len(periodicmessage.loop) = 1 /\ \A i \in 1 .. 1 : Fine("periodicmessage", {"main", "loop"}, periodicmessage.loop[i])
      BY PeriodicmessageCode DEF Fine, StepOf, Sigs, Periodic, Suspenders
    <3> QED
      BY <3>1 DEF FineRole
  <2> QED
    BY <2>1, <2>2, <2>3 DEF FineProgram
<1>16. FineProgram("periodicasterisk")
  <2>1. Programs["periodicasterisk"] = periodicasterisk /\ DOMAIN periodicasterisk = {"main", "loop"}
    BY PeriodicasteriskCode DEF Programs
  <2>2. FineRole("periodicasterisk", {"main", "loop"}, periodicasterisk.main)
    <3>1. Len(periodicasterisk.main) = 3 /\ \A i \in 1 .. 3 : Fine("periodicasterisk", {"main", "loop"}, periodicasterisk.main[i])
      BY PeriodicasteriskCode DEF Fine, StepOf, Sigs, Periodic, Suspenders
    <3> QED
      BY <3>1 DEF FineRole
  <2>3. FineRole("periodicasterisk", {"main", "loop"}, periodicasterisk.loop)
    <3>1. Len(periodicasterisk.loop) = 1 /\ \A i \in 1 .. 1 : Fine("periodicasterisk", {"main", "loop"}, periodicasterisk.loop[i])
      BY PeriodicasteriskCode DEF Fine, StepOf, Sigs, Periodic, Suspenders
    <3> QED
      BY <3>1 DEF FineRole
  <2> QED
    BY <2>1, <2>2, <2>3 DEF FineProgram
<1>17. FineProgram("timesignals")
  <2>1. Programs["timesignals"] = timesignals /\ DOMAIN timesignals = {"main", "loop", "rest"}
    BY TimesignalsCode DEF Programs
  <2>2. FineRole("timesignals", {"main", "loop", "rest"}, timesignals.main)
    <3>1. Len(timesignals.main) = 4 /\ \A i \in 1 .. 4 : Fine("timesignals", {"main", "loop", "rest"}, timesignals.main[i])
      BY TimesignalsCode DEF Fine, StepOf, Sigs, Periodic, Suspenders
    <3> QED
      BY <3>1 DEF FineRole
  <2>3. FineRole("timesignals", {"main", "loop", "rest"}, timesignals.loop)
    <3>1. Len(timesignals.loop) = 3 /\ \A i \in 1 .. 3 : Fine("timesignals", {"main", "loop", "rest"}, timesignals.loop[i])
      BY TimesignalsCode DEF Fine, StepOf, Sigs, Periodic, Suspenders
    <3> QED
      BY <3>1 DEF FineRole
  <2>4. FineRole("timesignals", {"main", "loop", "rest"}, timesignals.rest)
    BY TimesignalsCode DEF FineRole
  <2> QED
    BY <2>1, <2>2, <2>3, <2>4 DEF FineProgram
<1> QED
  <2>1. DOMAIN Programs = {"averagesin", "signalterminate", "sigjmp", "blocktest", "countsignals", "sigsuspendtest1", "sigsuspendtest2", "sigsuspendtest3", "makepair", "blockchild", "dontblockchild", "password", "passwordnosigs", "setnoncanonicaltest", "periodicmessage", "periodicasterisk", "timesignals"}
    BY DEF Programs
  <2> QED
    BY <2>1, <1>1, <1>2, <1>3, <1>4, <1>5, <1>6, <1>7, <1>8, <1>9, <1>10, <1>11, <1>12, <1>13, <1>14, <1>15, <1>16, <1>17

-----------------------------------------------------------------------------

SgTypes ==
    /\ Shaped /\ sg \in DOMAIN Programs /\ mishap \in BOOLEAN /\ arrivals \in Nat
    /\ me.role \in DOMAIN Programs[sg] \cup {"failed"} /\ me.at \in Nat \ {0}
    /\ world.count \in Nat /\ world.jump \in Nat
\* Only averagesin's USR1 writes, and only sigjmp's handler jumps; few are suspended.
HandlersKept ==
    /\ \A s \in Sigs : /\ me.handler[s] = "write" => sg = "averagesin" /\ s = "USR1"
                       /\ me.handler[s] = "jump" => sg = "sigjmp"
    /\ me.suspended => sg \in Suspenders
\* ALRM has its handler before the timer starts, and who is killed by it had none.
TimerCaught ==
    /\ world.timer => sg \in Periodic /\ me.handler["ALRM"] # "default"
    /\ sg \in Periodic /\ me.role = "main" /\ me.at = 2 => me.handler["ALRM"] # "default"
    /\ me.life = "ALRM" => me.handler["ALRM"] = "default"

\* A running program is at a step of its code, and that is fine.
LEMMA SgThis == SgTypes /\ Running =>
    /\ me.life = "run" /\ me.role \in DOMAIN Programs[sg] /\ Code = Programs[sg][me.role]
    /\ me.at \in 1 .. Len(Code) /\ Fine(sg, DOMAIN Programs[sg], This)
<1> SUFFICES ASSUME SgTypes, Running PROVE
    /\ me.life = "run" /\ me.role \in DOMAIN Programs[sg] /\ Code = Programs[sg][me.role]
    /\ me.at \in 1 .. Len(Code) /\ Fine(sg, DOMAIN Programs[sg], This)
  OBVIOUS
<1>1. me.role # "failed"
  BY DEF SgTypes, Running, Code
<1>2. me.role \in DOMAIN Programs[sg] /\ Code = Programs[sg][me.role]
  BY <1>1 DEF SgTypes, Code
<1>3. FineRole(sg, DOMAIN Programs[sg], Code)
  BY <1>2, SgFine DEF SgTypes, FineProgram
<1>4. me.life = "run" /\ me.at \in 1 .. Len(Code)
  BY <1>3 DEF SgTypes, Running, FineRole
<1> QED
  BY <1>2, <1>3, <1>4 DEF FineRole, This

LEMMA SgTypesStep == SgTypes /\ SigProgNext => SgTypes'
<1> SUFFICES ASSUME SgTypes, SigProgNext PROVE SgTypes'
  OBVIOUS
<1> DEFINE D == DOMAIN Programs[sg]
<1>0. Shaped /\ sg \in DOMAIN Programs /\ "main" \in D
  BY SgFine DEF SgTypes, FineProgram
<1>1. Running => me.at \in Nat /\ Fine(sg, D, This)
  BY SgThis DEF SgTypes
<1>2. ASSUME Shaped', sg' = sg, mishap' \in BOOLEAN, arrivals' \in Nat, world'.count \in Nat, world'.jump \in Nat,
             \/ me'.role = me.role /\ me'.at \in {me.at, me.at + 1}
             \/ me'.role \in D \cup {"failed"} /\ me'.at = 1
             \/ me'.role = "main" /\ me'.at = world.jump /\ world.jump # 0
      PROVE  SgTypes'
  BY <1>0, <1>2 DEF SgTypes
<1> USE DEF MeKeeps, WorldKeeps, MeFields, WorldFields, ProgramKeeps, GoesOn, PlaysNext
<1>3. CASE Install
  BY <1>0, <1>2, <1>3, SgInstall DEF SgTypes
<1>4. CASE ChangeMask
  BY <1>0, <1>2, <1>4, SgMask DEF SgTypes
<1>5. CASE StartSuspend
  BY <1>0, <1>2, <1>5, SgSuspend DEF SgTypes
<1>6. CASE TakeSignal
  BY <1>0, <1>2, <1>6, SgTake DEF SgTypes
<1>7. CASE SetField
  <2>1. Running /\ This.op = "set" /\ sg' = sg /\ mishap' = mishap /\ arrivals' = arrivals /\ GoesOn /\ Shaped'
        /\ (This.v.field = "count" => world'.count = world.count + 1 /\ world'.jump = world.jump)
        /\ (This.v.field \notin {"count", "jump"} => world'.count = world.count /\ world'.jump = world.jump)
    BY <1>0, <1>7, SgSet
  <2>2. This.v.field # "jump"
    BY <1>1, <2>1 DEF Fine
  <2> QED
    BY <1>2, <2>1, <2>2 DEF SgTypes
<1>8. CASE Control
  <2>1. Running /\ sg' = sg /\ mishap' = mishap /\ arrivals' = arrivals /\ world' = world /\ Shaped'
        /\ \/ This.op \in {"to", "perhaps", "counted"} /\ PlaysNext(This.v)
           \/ This.op = "while" /\ PlaysNext(This.v.role)
           \/ GoesOn
    BY <1>0, <1>8, SgControl
  <2>2. This.op \in {"to", "perhaps", "counted"} => This.v \in D \cup {"failed"}
    BY <1>1, <2>1 DEF Fine
  <2>3. This.op = "while" => This.v.role \in D
    BY <1>1, <2>1 DEF Fine
  <2> QED
    BY <1>2, <2>1, <2>2, <2>3 DEF SgTypes
<1>9. CASE ArmAndFork
  BY <1>0, <1>2, <1>9, SgArm DEF SgTypes
<1>10. CASE Finish
  BY <1>0, <1>2, <1>10, SgFinish DEF SgTypes
<1>11. CASE CallFails
  <2>1. Running /\ ~mishap' /\ sg' = sg /\ arrivals' = arrivals /\ world' = world /\ Shaped'
        /\ (GoesOn \/ (This.else # "next" /\ PlaysNext(This.else)))
    BY <1>0, <1>11, SgFails
  <2>2. This.else \in D \cup {"next", "failed"}
    BY <1>1, <2>1 DEF Fine
  <2>3. mishap' \in BOOLEAN
    BY <1>11 DEF CallFails
  <2> QED
    BY <1>2, <2>1, <2>2, <2>3 DEF SgTypes
<1>12. CASE KidEnds \/ \E sig \in Sigs : SignalArrives(sig)
  <2>1. me' = me /\ sg' = sg /\ mishap' = mishap /\ arrivals' \in {arrivals, arrivals + 1} /\ Shaped'
        /\ world'.count = world.count /\ world'.jump = world.jump
    BY <1>0, <1>12, SgOthers
  <2> QED
    BY <1>2, <2>1 DEF SgTypes
<1>13. ASSUME NEW sig \in Sigs, Deliver(sig) PROVE SgTypes'
  <2>1. /\ Shaped' /\ sg' = sg /\ mishap' = mishap /\ arrivals' = arrivals
        /\ world'.count \in {world.count, world.count + 1} /\ world'.jump = world.jump
        /\ \/ me'.role = me.role /\ me'.at \in {me.at, me.at + 1}
           \/ me'.role = "main" /\ me'.at = world.jump /\ world.jump # 0
    BY <1>0, <1>13, SgDeliver DEF Resumes
  <2> QED
    BY <1>2, <2>1 DEF SgTypes
<1> QED
  BY <1>3, <1>4, <1>5, <1>6, <1>7, <1>8, <1>9, <1>10, <1>11, <1>12, <1>13 DEF SigProgNext, ProgramStep

\* Handlers are installed by steps that are fine, and are not taken away.
LEMMA SgHandlersStep == SgTypes /\ HandlersKept /\ SigProgNext => HandlersKept'
<1> SUFFICES ASSUME SgTypes, HandlersKept, SigProgNext PROVE HandlersKept'
  OBVIOUS
<1>0. Shaped
  BY DEF SgTypes
<1> USE DEF MeKeeps, MeFields, ProgramKeeps, GoesOn, PlaysNext
<1>1. CASE Install
  <2>1. sg' = sg /\ me'.handler = [me.handler EXCEPT ![This.v.sig] = This.v.h] /\ me'.suspended = me.suspended
    BY <1>0, <1>1, SgInstall
  <2>2. /\ This.v.sig \in Sigs /\ This.v.h # "default"
        /\ This.v.h = "write" => sg = "averagesin" /\ This.v.sig = "USR1"
        /\ This.v.h = "jump" => sg = "sigjmp"
    BY <1>0, <1>1, SgInstall, SgThis DEF Fine
  <2>3. \A s \in Sigs : me'.handler[s] = IF s = This.v.sig THEN This.v.h ELSE me.handler[s]
    BY <1>0, <2>1, <2>2 DEF Shaped
  <2> QED
    BY <2>1, <2>2, <2>3 DEF HandlersKept
<1>2. ASSUME me'.handler = me.handler, sg' = sg, me'.suspended => me.suspended PROVE HandlersKept'
  BY <1>2 DEF HandlersKept
<1>3. CASE ChangeMask \/ TakeSignal \/ SetField
  BY <1>0, <1>2, <1>3, SgMask, SgTake, SgSet
<1>9. CASE StartSuspend
  <2>1. me'.handler = me.handler /\ sg' = sg /\ sg \in Suspenders
    BY <1>0, <1>9, SgSuspend, SgThis DEF Fine
  <2> QED
    BY <2>1 DEF HandlersKept
<1>4. CASE Control
  BY <1>0, <1>2, <1>4, SgControl
<1>5. CASE ArmAndFork \/ Finish
  BY <1>0, <1>2, <1>5, SgArm, SgFinish
<1>6. CASE CallFails
  BY <1>0, <1>2, <1>6, SgFails
<1>7. CASE KidEnds \/ \E sig \in Sigs : SignalArrives(sig)
  BY <1>0, <1>2, <1>7, SgOthers
<1>8. ASSUME NEW sig \in Sigs, Deliver(sig) PROVE HandlersKept'
  BY <1>0, <1>2, <1>8, SgDeliver DEF Resumes
<1> QED
  BY <1>1, <1>3, <1>4, <1>5, <1>6, <1>7, <1>8, <1>9 DEF SigProgNext, ProgramStep

\* A periodic program installs its handler in its first step and starts the timer in
\* its second.
LEMMA SgPeriodic == ASSUME SgTypes, Running, sg \in Periodic
    PROVE  /\ me.role \in {"main", "loop"}
           /\ me.role = "main" /\ me.at = 1 => This.op = "handle" /\ This.v.sig = "ALRM"
           /\ This.op = "handle" => me.role = "main" /\ me.at = 1
           /\ This.op = "timer" => me.role = "main" /\ me.at = 2
           /\ This.op \in {"to", "while", "perhaps", "counted"} => This.v # "main"
           /\ This.op \in {"handle", "timer", "to", "pause"} /\ This.else = "failed"
<1>1. Programs[sg] \in {periodicmessage, periodicasterisk}
  BY DEF Programs, Periodic
<1>2. periodicmessage = periodicasterisk
  BY DEF periodicmessage, periodicasterisk
<1>3. Programs[sg] = periodicmessage /\ Code = Programs[sg][me.role] /\ me.role \in DOMAIN Programs[sg] /\ me.at \in 1 .. Len(Code)
  BY <1>1, <1>2, SgThis
<1>4. me.role \in {"main", "loop"}
  BY <1>3, PeriodicmessageCode
<1>5. CASE me.role = "main"
  <2>1. Code = periodicmessage.main
    BY <1>3, <1>5
  <2> QED
    BY <1>3, <1>5, <2>1, PeriodicmessageCode DEF This, StepOf
<1>6. CASE me.role = "loop"
  <2>1. Code = periodicmessage.loop
    BY <1>3, <1>6
  <2> QED
    BY <1>3, <1>6, <2>1, PeriodicmessageCode DEF This, StepOf
<1> QED
  BY <1>4, <1>5, <1>6

LEMMA SgTimerStep == SgTypes /\ HandlersKept /\ TimerCaught /\ SigProgNext => TimerCaught'
<1> SUFFICES ASSUME SgTypes, HandlersKept, TimerCaught, SigProgNext PROVE TimerCaught'
  OBVIOUS
<1>0. Shaped /\ me.at \in Nat \ {0}
  BY DEF SgTypes
<1>f. Running => Fine(sg, DOMAIN Programs[sg], This)
  BY SgThis
<1>r. Running => me.life = "run"
  BY DEF Running
<1> USE DEF MeKeeps, MeFields, WorldKeeps, WorldFields, ProgramKeeps, GoesOn, PlaysNext
<1>1. CASE Install
  <2>1. Running /\ This.op = "handle" /\ sg' = sg /\ world' = world /\ me'.life = me.life /\ me'.role = me.role
        /\ me'.handler = [me.handler EXCEPT ![This.v.sig] = This.v.h] /\ me'.at = me.at + 1
    BY <1>0, <1>1, SgInstall
  <2>2. This.v.sig \in Sigs /\ This.v.h # "default"
    BY <1>f, <2>1 DEF Fine
  <2>3. \A s \in Sigs : me'.handler[s] = IF s = This.v.sig THEN This.v.h ELSE me.handler[s]
    BY <1>0, <2>1, <2>2 DEF Shaped
  <2>4. me'.handler["ALRM"] = IF "ALRM" = This.v.sig THEN This.v.h ELSE me.handler["ALRM"]
    BY <2>3 DEF Sigs
  <2>5. sg \in Periodic => This.v.sig = "ALRM"
    BY <2>1, SgPeriodic
  <2> QED
    BY <1>r, <2>1, <2>2, <2>4, <2>5 DEF TimerCaught
\* What does not touch handlers, the timer or the life must not leave main at its second step.
<1>2. ASSUME me'.handler = me.handler, sg' = sg, world'.timer = world.timer, me'.life = me.life,
             sg \in Periodic => (me'.role = me.role /\ me'.at = me.at) \/ ~(me'.role = "main" /\ me'.at = 2)
      PROVE  TimerCaught'
  BY <1>2 DEF TimerCaught
<1>3. CASE ChangeMask \/ StartSuspend \/ TakeSignal
  <2>1. /\ me'.handler = me.handler /\ sg' = sg /\ world'.timer = world.timer /\ me'.life = me.life
        /\ Running /\ This.op \in {"block", "unblock", "setmask", "suspend", "sigwait"}
    BY <1>0, <1>3, SgMask, SgSuspend, SgTake
  <2> QED
    BY <1>2, <2>1, SgPeriodic
<1>4. CASE SetField
  <2>1. Running /\ This.op = "set" /\ sg' = sg /\ GoesOn /\ me'.handler = me.handler /\ me'.life = me.life
        /\ (This.v.field # "timer" => world'.timer = world.timer)
    BY <1>0, <1>4, SgSet
  <2> QED
    BY <1>2, <1>f, <2>1, SgPeriodic DEF Fine
<1>5. CASE Control
  <2>1. Running /\ sg' = sg /\ world' = world /\ me'.handler = me.handler /\ me'.life = me.life
        /\ (me'.at = 1 \/ me'.at = me.at + 1)
        /\ (me'.at = me.at + 1 => This.op \notin {"handle", "timer", "to", "pause"} \/ me'.at = 1)
    BY <1>0, <1>5, SgControl
  <2> QED
    BY <1>0, <1>2, <2>1, SgPeriodic
<1>6. CASE ArmAndFork
  <2>1. Running /\ sg' = sg /\ GoesOn /\ me'.handler = me.handler /\ me'.life = me.life
        /\ (This.op # "timer" => world'.timer = world.timer) /\ This.op \in {"setjmp", "timer", "forkexec"}
    BY <1>0, <1>6, SgArm
  <2>2. CASE This.op = "timer"
    <3>1. sg \in Periodic
      BY <1>f, <2>1, <2>2 DEF Fine
    <3>2. me.role = "main" /\ me.at = 2
      BY <2>1, <2>2, <3>1, SgPeriodic
    <3> QED
      BY <1>r, <2>1, <3>1, <3>2 DEF TimerCaught
  <2>3. CASE This.op # "timer"
    BY <1>2, <2>1, <2>3, SgPeriodic
  <2> QED
    BY <2>2, <2>3
<1>7. CASE Finish
  <2>1. sg' = sg /\ world' = world /\ me'.handler = me.handler /\ me'.life = "end" /\ me'.role = me.role /\ me'.at = me.at
    BY <1>0, <1>7, SgFinish
  <2> QED
    BY <2>1 DEF TimerCaught
<1>8. CASE CallFails
  <2>1. Running /\ sg' = sg /\ world' = world /\ me'.handler = me.handler /\ me'.life = me.life
        /\ (This.else # "next" => me'.at = 1)
    BY <1>0, <1>8, SgFails
  <2> QED
    BY <1>2, <2>1, SgPeriodic
<1>9. CASE KidEnds \/ \E sig \in Sigs : SignalArrives(sig)
  <2>1. me' = me /\ sg' = sg /\ world'.timer = world.timer
    BY <1>0, <1>9, SgOthers
  <2> QED
    BY <1>2, <2>1
<1>10. ASSUME NEW sig \in Sigs, Deliver(sig) PROVE TimerCaught'
  <2>1. me.life = "run" /\ sg' = sg /\ me'.handler = me.handler /\ world'.timer = world.timer
    BY <1>0, <1>10, SgDeliver DEF Resumes
  <2>2. CASE me.handler[sig] = "default"
    <3>1. me'.life = sig /\ me'.role = me.role /\ me'.at = me.at
      BY <1>0, <1>10, <2>2, SgDeliver
    <3> QED
      BY <2>1, <2>2, <3>1 DEF TimerCaught
  <2>3. CASE me.handler[sig] # "default"
    <3>1. me'.life = me.life
      BY <1>0, <1>10, <2>3, SgDeliver DEF Resumes
    <3>2. CASE ~me.suspended /\ me' = me
      BY <1>2, <2>1, <3>2
    <3>3. CASE sg \notin Periodic
      BY <1>2, <2>1, <3>1, <3>3
    <3>4. ~me.suspended \/ sg \notin Periodic
      BY DEF HandlersKept, Periodic, Suspenders
    <3>5. me' = me \/ me.suspended \/ sg = "sigjmp"
      <4>1. me.handler[sig] = "jump" => sg = "sigjmp"
        BY DEF HandlersKept
      <4>2. me.handler[sig] = "jump" \/ Resumes
        BY <1>0, <1>10, <2>3, SgDeliver
      <4> QED
        BY <4>1, <4>2 DEF Resumes
    <3> QED
      BY <3>2, <3>3, <3>4, <3>5 DEF Periodic
  <2> QED
    BY <2>2, <2>3
<1> QED
  BY <1>1, <1>3, <1>4, <1>5, <1>6, <1>7, <1>8, <1>9, <1>10 DEF SigProgNext, ProgramStep

-----------------------------------------------------------------------------

\* The next step, told by what it does to the place of the program: it goes on, it goes
\* to another role, a call fails, the program ends, or something happens to it.
Advances ==
    /\ Running /\ mishap' = mishap /\ me'.life = "run" /\ me'.role = me.role /\ me'.at = me.at + 1
    /\ This.op \notin {"to", "suspend", "pause"}
    /\ This.op = "block" => me'.mask = me.mask \cup This.v
    /\ This.op = "setmask" /\ This.v = "all" => me'.mask = Sigs
    /\ This.op \notin {"block", "unblock", "setmask"} => me'.mask = me.mask
    /\ This.op = "set" /\ This.v.field # "count" =>
          \A x \in WorldFields : world'[x] = IF x = This.v.field THEN This.v.value ELSE world[x]
    /\ This.op \notin {"set", "setjmp", "timer", "forkexec"} => world' = world
    /\ This.op = "forkexec" => world'.kid = "run" /\ world'.kidmask = me.mask
Turns ==
    /\ Running /\ mishap' = mishap /\ me'.life = "run" /\ me'.at = 1 /\ me'.mask = me.mask /\ world' = world
    /\ This.op \in {"to", "while", "perhaps", "counted"}
    /\ This.op # "while" => me'.role = This.v
Stumbles ==
    /\ Running /\ mishap /\ ~mishap' /\ me'.life = "run" /\ world' = world
    /\ \/ This.op \in {"open", "prompt", "readline", "tcgetattr", "timer"}
       \/ This.op = "set" /\ This.v.field \notin {"buf", "flag", "count"}
ItEnds ==
    /\ me.life = "run" /\ me.at > Len(Code) /\ mishap' = mishap /\ world' = world
    /\ me'.life = "end" /\ me'.role = me.role /\ me'.at = me.at /\ me'.mask = me.mask
Happens ==
    /\ mishap' = mishap /\ me'.role = me.role /\ me'.at = me.at /\ me'.mask = me.mask
    /\ me'.life = me.life \/ me'.life \in Sigs \ me.mask
    /\ WorldKeeps({"kid", "flag", "count", "wrong"})
    /\ world'.kid \in {world.kid, "end"} \/ (world'.kid = "killed" /\ world.kid = "run" /\ "INT" \notin world.kidmask)

LEMMA SgCases == ASSUME SgTypes, HandlersKept, SigProgNext, sg \notin Suspenders, sg # "sigjmp"
                 PROVE  sg' = sg /\ (Advances \/ Turns \/ Stumbles \/ ItEnds \/ Happens)
<1>0. Shaped /\ (Running => me.life = "run")
  BY DEF SgTypes, Running
<1> USE DEF MeKeeps, MeFields, ProgramKeeps, GoesOn, PlaysNext
<1>1. CASE Install
  <2>1. sg' = sg /\ Running /\ This.op = "handle" /\ mishap' = mishap /\ world' = world /\ me'.life = me.life
        /\ me'.role = me.role /\ me'.at = me.at + 1 /\ me'.mask = me.mask
    BY <1>0, <1>1, SgInstall
  <2> QED
    BY <1>0, <2>1 DEF Advances
<1>2. CASE ChangeMask
  <2>1. sg' = sg /\ Running /\ mishap' = mishap /\ world' = world /\ me'.life = me.life
        /\ me'.role = me.role /\ me'.at = me.at + 1 /\ This.op \in {"block", "unblock", "setmask"}
        /\ (This.op = "block" => me'.mask = me.mask \cup This.v)
        /\ (This.op = "setmask" /\ This.v = "all" => me'.mask = Sigs)
    BY <1>0, <1>2, SgMask
  <2> QED
    BY <1>0, <2>1 DEF Advances
<1>3. CASE StartSuspend
  BY <1>0, <1>3, SgSuspend, SgThis DEF Fine
<1>4. CASE TakeSignal
  <2>1. sg' = sg /\ Running /\ This.op = "sigwait" /\ mishap' = mishap /\ world' = world /\ me'.life = me.life
        /\ me'.role = me.role /\ me'.at = me.at + 1 /\ me'.mask = me.mask
    BY <1>0, <1>4, SgTake
  <2> QED
    BY <1>0, <2>1 DEF Advances
<1>5. CASE SetField
  <2>1. sg' = sg /\ Running /\ This.op = "set" /\ mishap' = mishap /\ me'.life = me.life
        /\ me'.role = me.role /\ me'.at = me.at + 1 /\ me'.mask = me.mask
        /\ (This.v.field # "count" =>
              \A x \in WorldFields : world'[x] = IF x = This.v.field THEN This.v.value ELSE world[x])
    BY <1>0, <1>5, SgSet
  <2> QED
    BY <1>0, <2>1 DEF Advances
<1>6. CASE Control
  <2>1. sg' = sg /\ Running /\ mishap' = mishap /\ world' = world /\ me'.life = me.life /\ me'.mask = me.mask
    BY <1>0, <1>6, SgControl
  <2>2. \/ GoesOn /\ This.op \in {"while", "perhaps", "counted", "open", "prompt", "readline", "tcgetattr", "close", "r_wait"}
        \/ me'.at = 1 /\ This.op = "while"
        \/ me'.at = 1 /\ me'.role = This.v /\ This.op \in {"to", "perhaps", "counted"}
    BY <1>0, <1>6, SgControl
  <2>3. CASE GoesOn /\ This.op \in {"while", "perhaps", "counted", "open", "prompt", "readline", "tcgetattr", "close", "r_wait"}
    <3>1. Advances
      BY <1>0, <2>1, <2>3 DEF Advances
    <3> QED
      BY <2>1, <3>1
  <2>4. CASE me'.at = 1 /\ This.op = "while"
    BY <1>0, <2>1, <2>4 DEF Turns
  <2>5. CASE me'.at = 1 /\ me'.role = This.v /\ This.op \in {"to", "perhaps", "counted"}
    BY <1>0, <2>1, <2>5 DEF Turns
  <2> QED
    BY <2>2, <2>3, <2>4, <2>5
<1>7. CASE ArmAndFork
  <2>1. sg' = sg /\ Running /\ mishap' = mishap /\ me'.life = me.life
        /\ me'.role = me.role /\ me'.at = me.at + 1 /\ me'.mask = me.mask
        /\ This.op \in {"setjmp", "timer", "forkexec"}
        /\ (This.op = "forkexec" => world'.kid = "run" /\ world'.kidmask = me.mask)
    BY <1>0, <1>7, SgArm
  <2> QED
    BY <1>0, <2>1 DEF Advances
<1>8. CASE Finish
  BY <1>0, <1>8, SgFinish DEF ItEnds
<1>9. CASE CallFails
  BY <1>0, <1>9, SgFails DEF Stumbles
<1>10. CASE KidEnds \/ \E sig \in Sigs : SignalArrives(sig)
  <2>1. me' = me /\ sg' = sg /\ mishap' = mishap /\ WorldKeeps({"kid"})
        /\ (world'.kid \in {world.kid, "end"} \/ (world'.kid = "killed" /\ world.kid = "run" /\ "INT" \notin world.kidmask))
    BY <1>0, <1>10, SgOthers
  <2>2. WorldKeeps({"kid", "flag", "count", "wrong"})
    BY <2>1 DEF WorldKeeps, WorldFields
  <2> QED
    BY <2>1, <2>2 DEF Happens
<1>11. ASSUME NEW sig \in Sigs, Deliver(sig) PROVE sg' = sg /\ Happens
  <2> DEFINE h == me.handler[sig]
  <2>1. ~me.suspended /\ h # "jump"
    BY DEF HandlersKept
  <2>2. sig \notin me.mask /\ sg' = sg /\ mishap' = mishap /\ me'.role = me.role /\ me'.at = me.at /\ me'.mask = me.mask
        /\ (me'.life = me.life \/ me'.life = sig)
    BY <1>0, <1>11, <2>1, SgDeliver DEF Resumes
  <2>3. \/ h \in {"flag", "count"} /\ (WorldKeeps({"flag"}) \/ WorldKeeps({"count"}))
        \/ WorldKeeps({"wrong"})
        \/ world' = world
    BY <1>0, <1>11, <2>1, SgDeliver
  <2>4. WorldKeeps({"kid", "flag", "count", "wrong"}) /\ world'.kid = world.kid
    BY <2>3 DEF WorldKeeps, WorldFields
  <2> QED
    BY <2>2, <2>4 DEF Happens
<1> QED
  BY <1>1, <1>2, <1>3, <1>4, <1>5, <1>6, <1>7, <1>8, <1>9, <1>10, <1>11 DEF SigProgNext, ProgramStep

\* The program stays the same, and a call that failed is remembered.
LEMMA SgSame == SgTypes /\ SigProgNext => sg' = sg /\ (mishap' => mishap)
<1> SUFFICES ASSUME SgTypes, SigProgNext PROVE sg' = sg /\ (mishap' => mishap)
  OBVIOUS
<1>0. Shaped
  BY DEF SgTypes
<1>1. CASE ProgramStep
  <2>1. sg' = sg /\ mishap' = mishap
    BY <1>1 DEF ProgramStep, Install, ChangeMask, StartSuspend, TakeSignal, SetField, Control, ArmAndFork, Finish, Does
  <2> QED
    BY <2>1
<1>2. CASE CallFails
  BY <1>2 DEF CallFails
<1>3. ASSUME KidEnds \/ \E sig \in Sigs : SignalArrives(sig) \/ Deliver(sig) PROVE sg' = sg /\ mishap' = mishap
  BY <1>3 DEF KidEnds, SignalArrives, Deliver
<1> QED
  BY <1>1, <1>2, <1>3 DEF SigProgNext

\* makepair: all signals are blocked while one FIFO of the pair is there.
MakepairKept == sg = "makepair" /\ mishap =>
    /\ me.role = "main" /\ me.at \in {1, 2, 3, 4, 5} /\ (me.at \in {2, 3, 4} => me.mask = Sigs)
    /\ me.at \in {1, 2} => world.fifo1 = FALSE /\ world.fifo2 = FALSE
    /\ me.at = 3 => world.fifo1 = TRUE
    /\ me.at \in {4, 5} => world.fifo1 = TRUE /\ world.fifo2 = TRUE
    /\ me.life # "run" => world.fifo1 = world.fifo2

LEMMA MakepairSteps == ASSUME SgTypes, sg = "makepair", me.role = "main"
    PROVE  /\ Len(Code) = 4 /\ (Running => me.at \in {1, 2, 3, 4})
           /\ me.at \in {1, 4} => This.op = "setmask"
           /\ me.at = 1 => This.v = "all"
           /\ me.at \in {2, 3} => This.op = "set" /\ This.v.value = TRUE
           /\ me.at = 2 => This.v.field = "fifo1"
           /\ me.at = 3 => This.v.field = "fifo2"
<1>1. Code = makepair.main
  BY DEF Code, Programs
<1>2. Len(Code) = 4
  BY <1>1, MakepairCode
<1>3. Running => me.at \in {1, 2, 3, 4}
  BY <1>2 DEF Running, SgTypes
<1> QED
  BY <1>1, <1>2, <1>3, MakepairCode DEF This, StepOf

LEMMA MakepairStep == SgTypes /\ HandlersKept /\ MakepairKept /\ SigProgNext => MakepairKept'
<1> SUFFICES ASSUME SgTypes, HandlersKept, SigProgNext, MakepairKept, sg = "makepair", mishap, mishap' PROVE MakepairKept'
  BY SgSame DEF MakepairKept
<1>1. Advances \/ Turns \/ ItEnds \/ Happens
  BY SgCases DEF Suspenders, Stumbles
<1>2. MakepairKept!2
  BY DEF MakepairKept
<1>3. CASE Advances
  <2>1. Running /\ me'.life = "run" /\ me'.role = me.role /\ me'.at = me.at + 1 /\ me.at \in {1, 2, 3, 4}
    BY <1>2, <1>3, MakepairSteps DEF Advances
  <2>2. CASE me.at = 1
    BY <1>2, <1>3, <2>1, <2>2, MakepairSteps DEF Advances, MakepairKept
  <2>3. CASE me.at = 2
    <3>1. world'.fifo1 = TRUE /\ me'.mask = me.mask
      BY <1>2, <1>3, <2>3, MakepairSteps DEF Advances, WorldFields
    <3> QED
      BY <1>2, <2>1, <2>3, <3>1 DEF MakepairKept
  <2>4. CASE me.at = 3
    <3>1. world'.fifo1 = world.fifo1 /\ world'.fifo2 = TRUE /\ me'.mask = me.mask
      BY <1>2, <1>3, <2>4, MakepairSteps DEF Advances, WorldFields
    <3> QED
      BY <1>2, <2>1, <2>4, <3>1 DEF MakepairKept
  <2>5. CASE me.at = 4
    BY <1>2, <1>3, <2>1, <2>5, MakepairSteps DEF Advances, MakepairKept
  <2> QED
    BY <2>1, <2>2, <2>3, <2>4, <2>5
<1>4. CASE Turns
  BY <1>2, <1>4, MakepairSteps DEF Turns
<1>5. CASE ItEnds
  <2>1. me.role = "main" /\ me.at \in {1, 2, 3, 4, 5} /\ me.at > Len(Code)
    BY <1>2, <1>5 DEF ItEnds
  <2>2. Len(Code) = 4
    BY <2>1, MakepairSteps
  <2>3. me.at = 5
    BY ONLY <2>1, <2>2
  <2> QED
    BY <1>2, <1>5, <2>3 DEF ItEnds, MakepairKept
<1>6. CASE Happens
  BY <1>2, <1>6 DEF Happens, MakepairKept, WorldKeeps, WorldFields
<1> QED
  BY <1>1, <1>3, <1>4, <1>5, <1>6

\* password: INT is blocked while the echo is off, until it is turned on again.
PasswordKept == sg = "password" /\ mishap =>
    /\ \/ me.role = "main" /\ me.at \in {1, 2, 3, 4, 5, 6}
       \/ me.role = "finish" /\ me.at \in {1, 2, 3, 4}
    /\ me.role = "main" /\ me.at \in {1, 2, 3} => world.echo = TRUE
    /\ me.role = "main" /\ me.at \in {3, 4, 5, 6} => "INT" \in me.mask
    /\ me.role = "finish" /\ me.at = 1 => "INT" \in me.mask
    /\ me.role = "finish" /\ me.at # 1 => world.echo = TRUE
    /\ me.life \in {"INT", "end"} => world.echo = TRUE

LEMMA PasswordSteps == ASSUME SgTypes, sg = "password"
    PROVE  /\ me.role = "main" =>
                /\ Len(Code) = 6 /\ (Running => me.at \in {1, 2, 3, 4, 5, 6})
                /\ me.at = 1 => This.op = "open"
                /\ me.at = 2 => This.op = "block" /\ This.v = {"INT"}
                /\ me.at = 3 => This.op = "set" /\ This.v.field = "echo" /\ This.v.value = FALSE
                /\ me.at \in {4, 5} => This.op \in {"prompt", "readline"}
                /\ me.at = 6 => This.op = "to" /\ This.v = "finish"
           /\ me.role = "finish" =>
                /\ Len(Code) = 3 /\ (Running => me.at \in {1, 2, 3})
                /\ me.at = 1 => This.op = "set" /\ This.v.field = "echo" /\ This.v.value = TRUE
                /\ me.at \in {2, 3} => This.op \in {"setmask", "close"}
<1>1. CASE me.role = "main"
  <2>1. Code = password.main
    BY <1>1 DEF Code, Programs
  <2>2. Len(Code) = 6
    BY <2>1, PasswordCode
  <2>3. Running => me.at \in {1, 2, 3, 4, 5, 6}
    BY <2>2 DEF Running, SgTypes
  <2> QED
    BY <1>1, <2>1, <2>2, <2>3, PasswordCode DEF This, StepOf
<1>2. CASE me.role = "finish"
  <2>1. Code = password.finish
    BY <1>2 DEF Code, Programs
  <2>2. Len(Code) = 3
    BY <2>1, PasswordCode
  <2>3. Running => me.at \in {1, 2, 3}
    BY <2>2 DEF Running, SgTypes
  <2> QED
    BY <1>2, <2>1, <2>2, <2>3, PasswordCode DEF This, StepOf
<1> QED
  BY <1>1, <1>2

LEMMA PasswordStep == SgTypes /\ HandlersKept /\ PasswordKept /\ SigProgNext => PasswordKept'
<1> SUFFICES ASSUME SgTypes, HandlersKept, SigProgNext, PasswordKept, sg = "password", mishap, mishap' PROVE PasswordKept'
  BY SgSame DEF PasswordKept
<1>1. Advances \/ Turns \/ ItEnds \/ Happens
  BY SgCases DEF Suspenders, Stumbles
<1>2. PasswordKept!2
  BY DEF PasswordKept
<1>3. CASE Advances
  <2>1. me'.life = "run" /\ me'.role = me.role /\ me'.at = me.at + 1 /\ Running
    BY <1>3 DEF Advances
  <2>2. CASE me.role = "main" /\ me.at \in {1, 4, 5}
    <3>1. me'.mask = me.mask /\ world' = world
      BY <1>3, <2>2, PasswordSteps DEF Advances
    <3> QED
      BY <1>2, <2>1, <2>2, <3>1 DEF PasswordKept
  <2>3. CASE me.role = "main" /\ me.at = 2
    <3>1. "INT" \in me'.mask /\ world' = world
      BY <1>3, <2>3, PasswordSteps DEF Advances
    <3> QED
      BY <1>2, <2>1, <2>3, <3>1 DEF PasswordKept
  <2>4. CASE me.role = "main" /\ me.at = 3
    <3>1. me'.mask = me.mask
      BY <1>3, <2>4, PasswordSteps DEF Advances
    <3> QED
      BY <1>2, <2>1, <2>4, <3>1 DEF PasswordKept
  <2>5. CASE me.role = "finish" /\ me.at = 1
    <3>1. world'.echo = TRUE
      BY <1>3, <2>5, PasswordSteps DEF Advances, WorldFields
    <3> QED
      BY <1>2, <2>1, <2>5, <3>1 DEF PasswordKept
  <2>6. CASE me.role = "finish" /\ me.at \in {2, 3}
    <3>1. world' = world
      BY <1>3, <2>6, PasswordSteps DEF Advances
    <3> QED
      BY <1>2, <2>1, <2>6, <3>1 DEF PasswordKept
  <2>7. ~(me.role = "main" /\ me.at = 6)
    BY <1>3, PasswordSteps DEF Advances
  <2>8. me.role = "finish" => me.at \in {1, 2, 3}
    BY <2>1, PasswordSteps
  <2> QED
    BY <1>2, <2>2, <2>3, <2>4, <2>5, <2>6, <2>7, <2>8
<1>4. CASE Turns
  <2>1. me.role = "main" /\ me.at = 6 /\ me'.role = "finish" /\ me'.at = 1 /\ me'.mask = me.mask /\ me'.life = "run"
    BY <1>2, <1>4, PasswordSteps DEF Turns
  <2> QED
    BY <1>2, <2>1 DEF PasswordKept
<1>5. CASE ItEnds
  <2>1. CASE me.role = "main"
    <3>1. Len(Code) = 6 /\ me.at \in {1, 2, 3, 4, 5, 6}
      BY <1>2, <2>1, PasswordSteps
    <3>2. me.at > 6
      BY <1>5, <3>1 DEF ItEnds
    <3> QED
      BY <3>1, <3>2
  <2>2. CASE me.role = "finish"
    <3>1. Len(Code) = 3 /\ me.at \in {1, 2, 3, 4}
      BY <1>2, <2>2, PasswordSteps
    <3>2. me.at > 3
      BY <1>5, <3>1 DEF ItEnds
    <3>3. me.at = 4
      BY <3>1, <3>2
    <3> QED
      BY <1>2, <1>5, <2>2, <3>3 DEF ItEnds, PasswordKept
  <2> QED
    BY <1>2, <2>1, <2>2
<1>6. CASE Happens
  <2>1. world'.echo = world.echo
    BY <1>6 DEF Happens, WorldKeeps, WorldFields
  <2>2. me'.life = "INT" => me.life = "INT" \/ "INT" \notin me.mask
    BY <1>6 DEF Happens
  <2>3. me'.life = "end" => me.life = "end"
    BY <1>6 DEF Happens, Sigs
  <2>4. me'.role = me.role /\ me'.at = me.at /\ me'.mask = me.mask
    BY <1>6 DEF Happens
  <2> QED
    BY <1>2, <2>1, <2>2, <2>3, <2>4 DEF PasswordKept
<1> QED
  BY <1>1, <1>3, <1>4, <1>5, <1>6

\* passwordnosigs turns the echo on in the first step of its end.
NosigsKept == sg = "passwordnosigs" /\ mishap =>
    /\ \/ me.role = "main" /\ me.at \in {1, 2, 3, 4, 5}
       \/ me.role = "finish" /\ me.at \in {1, 2, 3, 4}
    /\ me.role = "finish" /\ me.at # 1 => world.echo = TRUE
    /\ me.life = "end" => world.echo = TRUE

LEMMA NosigsSteps == ASSUME SgTypes, sg = "passwordnosigs"
    PROVE  /\ me.role = "main" =>
                /\ Len(Code) = 5 /\ (Running => me.at \in {1, 2, 3, 4, 5})
                /\ me.at \in {1, 2, 3, 4} => This.op \in {"open", "set", "prompt", "readline"}
                /\ me.at = 5 => This.op = "to" /\ This.v = "finish"
           /\ me.role = "finish" =>
                /\ Len(Code) = 3 /\ (Running => me.at \in {1, 2, 3})
                /\ me.at = 1 => This.op = "set" /\ This.v.field = "echo" /\ This.v.value = TRUE
                /\ me.at \in {2, 3} => This.op \in {"prompt", "close"}
<1>1. CASE me.role = "main"
  <2>1. Code = passwordnosigs.main
    BY <1>1 DEF Code, Programs
  <2>2. Len(Code) = 5
    BY <2>1, PasswordnosigsCode
  <2>3. Running => me.at \in {1, 2, 3, 4, 5}
    BY <2>2 DEF Running, SgTypes
  <2> QED
    BY <1>1, <2>1, <2>2, <2>3, PasswordnosigsCode DEF This, StepOf
<1>2. CASE me.role = "finish"
  <2>1. Code = passwordnosigs.finish
    BY <1>2 DEF Code, Programs
  <2>2. Len(Code) = 3
    BY <2>1, PasswordnosigsCode
  <2>3. Running => me.at \in {1, 2, 3}
    BY <2>2 DEF Running, SgTypes
  <2> QED
    BY <1>2, <2>1, <2>2, <2>3, PasswordnosigsCode DEF This, StepOf
<1> QED
  BY <1>1, <1>2

LEMMA NosigsStep == SgTypes /\ HandlersKept /\ NosigsKept /\ SigProgNext => NosigsKept'
<1> SUFFICES ASSUME SgTypes, HandlersKept, SigProgNext, NosigsKept, sg = "passwordnosigs", mishap, mishap' PROVE NosigsKept'
  BY SgSame DEF NosigsKept
<1>1. Advances \/ Turns \/ ItEnds \/ Happens
  BY SgCases DEF Suspenders, Stumbles
<1>2. NosigsKept!2
  BY DEF NosigsKept
<1>3. CASE Advances
  <2>1. me'.life = "run" /\ me'.role = me.role /\ me'.at = me.at + 1 /\ Running
    BY <1>3 DEF Advances
  <2>2. CASE me.role = "main"
    <3>1. me.at \in {1, 2, 3, 4}
      BY <1>2, <1>3, <2>2, NosigsSteps DEF Advances
    <3> QED
      BY <2>1, <2>2, <3>1 DEF NosigsKept
  <2>3. CASE me.role = "finish"
    <3>1. me.at \in {1, 2, 3}
      BY <2>1, <2>3, NosigsSteps
    <3>2. CASE me.at = 1
      <4>1. world'.echo = TRUE
        BY <1>3, <2>3, <3>2, NosigsSteps DEF Advances, WorldFields
      <4> QED
        BY <2>1, <2>3, <3>2, <4>1 DEF NosigsKept
    <3>3. CASE me.at # 1
      <4>1. world' = world
        BY <1>3, <2>3, <3>1, <3>3, NosigsSteps DEF Advances
      <4> QED
        BY <1>2, <2>1, <2>3, <3>1, <3>3, <4>1 DEF NosigsKept
    <3> QED
      BY <3>2, <3>3
  <2> QED
    BY <1>2, <2>2, <2>3
<1>4. CASE Turns
  <2>1. me'.role = "finish" /\ me'.at = 1 /\ me'.life = "run"
    BY <1>2, <1>4, NosigsSteps DEF Turns
  <2> QED
    BY <2>1 DEF NosigsKept
<1>5. CASE ItEnds
  <2>1. CASE me.role = "main"
    <3>1. Len(Code) = 5 /\ me.at \in {1, 2, 3, 4, 5}
      BY <1>2, <2>1, NosigsSteps
    <3>2. me.at > 5
      BY <1>5, <3>1 DEF ItEnds
    <3> QED
      BY <3>1, <3>2
  <2>2. CASE me.role = "finish"
    <3>1. Len(Code) = 3 /\ me.at \in {1, 2, 3, 4}
      BY <1>2, <2>2, NosigsSteps
    <3>2. me.at > 3
      BY <1>5, <3>1 DEF ItEnds
    <3>3. me.at = 4
      BY <3>1, <3>2
    <3> QED
      BY <1>2, <1>5, <2>2, <3>3 DEF ItEnds, NosigsKept
  <2> QED
    BY <1>2, <2>1, <2>2
<1>6. CASE Happens
  <2>1. world'.echo = world.echo
    BY <1>6 DEF Happens, WorldKeeps, WorldFields
  <2>2. me'.life = "end" => me.life = "end"
    BY <1>6 DEF Happens, Sigs
  <2>3. me'.role = me.role /\ me'.at = me.at
    BY <1>6 DEF Happens
  <2> QED
    BY <1>2, <2>1, <2>2, <2>3 DEF NosigsKept
<1> QED
  BY <1>1, <1>3, <1>4, <1>5, <1>6

\* setnoncanonicaltest restores the mode before its last close.
CanonKept == sg = "setnoncanonicaltest" /\ mishap =>
    /\ \/ me.role = "main" /\ me.at \in {1, 2, 3, 4, 5}
       \/ me.role = "set" /\ me.at \in {1, 2, 3, 4, 5, 6}
       \/ me.role = "on" /\ me.at \in {1, 2, 3, 4, 5, 6}
    /\ me.role = "on" /\ me.at \in {4, 5, 6} => world.canonical = TRUE
    /\ me.life = "end" => world.canonical = TRUE

LEMMA CanonSteps == ASSUME SgTypes, sg = "setnoncanonicaltest"
    PROVE  /\ me.role = "main" =>
                /\ Len(Code) = 5 /\ (Running => me.at \in {1, 2, 3, 4, 5})
                /\ me.at \in {1, 2, 3, 4} => This.op \in {"readline", "open", "tcgetattr", "close"}
                /\ me.at = 5 => This.op = "to" /\ This.v = "set"
           /\ me.role = "set" =>
                /\ Len(Code) = 6 /\ (Running => me.at \in {1, 2, 3, 4, 5, 6})
                /\ me.at \in {1, 2, 3, 4, 5} => This.op \in {"open", "set", "close"}
                /\ me.at = 6 => This.op = "to" /\ This.v = "on"
           /\ me.role = "on" =>
                /\ Len(Code) = 5 /\ (Running => me.at \in {1, 2, 3, 4, 5})
                /\ me.at = 3 => This.op = "set" /\ This.v.field = "canonical" /\ This.v.value = TRUE
                /\ me.at \in {1, 2, 4, 5} => This.op \in {"readline", "open", "close"}
<1>1. CASE me.role = "main"
  <2>1. Code = setnoncanonicaltest.main
    BY <1>1 DEF Code, Programs
  <2>2. Len(Code) = 5
    BY <2>1, SetnoncanonicaltestCode
  <2>3. Running => me.at \in {1, 2, 3, 4, 5}
    BY <2>2 DEF Running, SgTypes
  <2>4. \A i \in 1 .. 5 : Code[i] =
             <<StepOf("readline", 0, "next"), StepOf("open", 0, "failed"), StepOf("tcgetattr", 0, "failed"),
               StepOf("close", 0, "failed"), StepOf("to", "set", "failed")>>[i]
    BY <2>1, SetnoncanonicaltestCode
  <2> QED
    BY <1>1, <2>2, <2>3, <2>4 DEF This, StepOf
<1>2. CASE me.role = "set"
  <2>1. Code = setnoncanonicaltest.set
    BY <1>2 DEF Code, Programs
  <2>2. Len(Code) = 6
    BY <2>1, SetnoncanonicaltestCode
  <2>3. Running => me.at \in {1, 2, 3, 4, 5, 6}
    BY <2>2 DEF Running, SgTypes
  <2> QED
    BY <1>2, <2>1, <2>2, <2>3, SetnoncanonicaltestCode DEF This, StepOf
<1>3. CASE me.role = "on"
  <2>1. Code = setnoncanonicaltest.on
    BY <1>3 DEF Code, Programs
  <2>2. Len(Code) = 5
    BY <2>1, SetnoncanonicaltestCode
  <2>3. Running => me.at \in {1, 2, 3, 4, 5}
    BY <2>2 DEF Running, SgTypes
  <2>4. \A i \in 1 .. 5 : Code[i] =
             <<StepOf("readline", 0, "next"), StepOf("open", 0, "failed"),
               StepOf("set", [field |-> "canonical", value |-> TRUE], "failed"), StepOf("close", 0, "failed"),
               StepOf("readline", 0, "next")>>[i]
    BY <2>1, SetnoncanonicaltestCode
  <2> QED
    BY <1>3, <2>2, <2>3, <2>4 DEF This, StepOf
<1> QED
  BY <1>1, <1>2, <1>3

LEMMA CanonStep == SgTypes /\ HandlersKept /\ CanonKept /\ SigProgNext => CanonKept'
<1> SUFFICES ASSUME SgTypes, HandlersKept, SigProgNext, CanonKept, sg = "setnoncanonicaltest", mishap, mishap' PROVE CanonKept'
  BY SgSame DEF CanonKept
<1>1. Advances \/ Turns \/ ItEnds \/ Happens
  BY SgCases DEF Suspenders, Stumbles
<1>2. CanonKept!2
  BY DEF CanonKept
<1>3. CASE Advances
  <2>1. me'.life = "run" /\ me'.role = me.role /\ me'.at = me.at + 1 /\ Running /\ This.op # "to"
    BY <1>3 DEF Advances
  <2>2. CASE me.role = "main"
    <3>1. me.at \in {1, 2, 3, 4}
      BY <1>2, <2>1, <2>2, CanonSteps
    <3> QED
      BY <2>1, <2>2, <3>1 DEF CanonKept
  <2>3. CASE me.role = "set"
    <3>1. me.at \in {1, 2, 3, 4, 5}
      BY <1>2, <2>1, <2>3, CanonSteps
    <3> QED
      BY <2>1, <2>3, <3>1 DEF CanonKept
  <2>4. CASE me.role = "on"
    <3>1. me.at \in {1, 2, 3, 4, 5}
      BY <2>1, <2>4, CanonSteps
    <3>2. CASE me.at = 3
      <4>1. world'.canonical = TRUE
        BY <1>3, <2>4, <3>2, CanonSteps DEF Advances, WorldFields
      <4> QED
        BY <2>1, <2>4, <3>2, <4>1 DEF CanonKept
    <3>3. CASE me.at # 3
      <4>1. world' = world
        BY <1>3, <2>4, <3>1, <3>3, CanonSteps DEF Advances
      <4> QED
        BY <1>2, <2>1, <2>4, <3>1, <3>3, <4>1 DEF CanonKept
    <3> QED
      BY <3>2, <3>3
  <2> QED
    BY <1>2, <2>2, <2>3, <2>4
<1>4. CASE Turns
  <2>1. me'.role \in {"set", "on"} /\ me'.at = 1 /\ me'.life = "run"
    BY <1>2, <1>4, CanonSteps DEF Turns
  <2> QED
    BY <2>1 DEF CanonKept
<1>5. CASE ItEnds
  <2>1. CASE me.role = "main"
    <3>1. Len(Code) = 5 /\ me.at \in {1, 2, 3, 4, 5}
      BY <1>2, <2>1, CanonSteps
    <3>2. me.at > 5
      BY <1>5, <3>1 DEF ItEnds
    <3> QED
      BY <3>1, <3>2
  <2>2. CASE me.role = "set"
    <3>1. Len(Code) = 6 /\ me.at \in {1, 2, 3, 4, 5, 6}
      BY <1>2, <2>2, CanonSteps
    <3>2. me.at > 6
      BY <1>5, <3>1 DEF ItEnds
    <3> QED
      BY <3>1, <3>2
  <2>3. CASE me.role = "on"
    <3>1. Len(Code) = 5 /\ me.at \in {1, 2, 3, 4, 5, 6}
      BY <1>2, <2>3, CanonSteps
    <3>2. me.at > 5
      BY <1>5, <3>1 DEF ItEnds
    <3>3. me.at = 6
      BY <3>1, <3>2
    <3> QED
      BY <1>2, <1>5, <2>3, <3>3 DEF ItEnds, CanonKept
  <2> QED
    BY <1>2, <2>1, <2>2, <2>3
<1>6. CASE Happens
  <2>1. world'.canonical = world.canonical
    BY <1>6 DEF Happens, WorldKeeps, WorldFields
  <2>2. me'.life = "end" => me.life = "end"
    BY <1>6 DEF Happens, Sigs
  <2>3. me'.role = me.role /\ me'.at = me.at
    BY <1>6 DEF Happens
  <2> QED
    BY <1>2, <2>1, <2>2, <2>3 DEF CanonKept
<1> QED
  BY <1>1, <1>3, <1>4, <1>5, <1>6

\* blockchild forks with all signals blocked, and the child keeps them so.
ChildKept == sg = "blockchild" =>
    /\ me.role = "main" /\ me.at \in {1, 2, 3, 4, 5} /\ (me.at = 2 => me.mask = Sigs)
    /\ world.kid = "run" => "INT" \in world.kidmask
    /\ world.kid # "killed"

LEMMA ChildSteps == ASSUME SgTypes, sg = "blockchild", me.role = "main"
    PROVE  /\ Running => me.at \in {1, 2, 3, 4}
           /\ me.at \in {1, 3} => This.op = "setmask"
           /\ me.at = 1 => This.v = "all"
           /\ me.at = 2 => This.op = "forkexec"
           /\ me.at = 4 => This.op = "r_wait"
<1>1. Code = blockchild.main
  BY DEF Code, Programs
<1>2. Len(Code) = 4
  BY <1>1, BlockchildCode
<1>3. Running => me.at \in {1, 2, 3, 4}
  BY <1>2 DEF Running, SgTypes
<1> QED
  BY <1>1, <1>2, <1>3, BlockchildCode DEF This, StepOf

LEMMA SgChildStep == SgTypes /\ HandlersKept /\ ChildKept /\ SigProgNext => ChildKept'
<1> SUFFICES ASSUME SgTypes, HandlersKept, SigProgNext, ChildKept, sg = "blockchild" PROVE ChildKept'
  BY SgSame DEF ChildKept
<1>1. Advances \/ Turns \/ Stumbles \/ ItEnds \/ Happens
  BY SgCases DEF Suspenders
<1>2. ChildKept!2
  BY DEF ChildKept
<1>3. CASE Advances
  <2>1. me'.role = me.role /\ me'.at = me.at + 1 /\ me.at \in {1, 2, 3, 4}
    BY <1>2, <1>3, ChildSteps DEF Advances
  <2>2. CASE me.at = 2
    <3>1. world'.kid = "run" /\ world'.kidmask = Sigs
      BY <1>2, <1>3, <2>2, ChildSteps DEF Advances
    <3> QED
      BY <1>2, <2>1, <2>2, <3>1 DEF ChildKept, Sigs
  <2>3. CASE me.at # 2
    <3>1. world' = world /\ (me.at = 1 => me'.mask = Sigs)
      BY <1>2, <1>3, <2>1, <2>3, ChildSteps DEF Advances
    <3> QED
      BY <1>2, <2>1, <2>3, <3>1 DEF ChildKept
  <2> QED
    BY <2>2, <2>3
<1>4. CASE Turns \/ Stumbles
  BY <1>2, <1>4, ChildSteps DEF Turns, Stumbles
<1>5. CASE ItEnds
  BY <1>2, <1>5 DEF ItEnds, ChildKept
<1>6. CASE Happens
  <2>1. world'.kidmask = world.kidmask
    BY <1>6 DEF Happens, WorldKeeps, WorldFields
  <2>2. world'.kid \in {world.kid, "end"}
    BY <1>2, <1>6 DEF Happens
  <2>3. me'.role = me.role /\ me'.at = me.at /\ me'.mask = me.mask
    BY <1>6 DEF Happens
  <2> QED
    BY <1>2, <2>1, <2>2, <2>3 DEF ChildKept
<1> QED
  BY <1>1, <1>3, <1>4, <1>5, <1>6

\* averagesin writes its result with USR1 blocked.
SinKept == sg = "averagesin" =>
    /\ \/ me.role = "main" /\ me.at \in {1, 2}
       \/ me.role = "calculate" /\ me.at \in {1, 2, 3, 4, 5, 6}
       \/ me.role = "last" /\ me.at \in {1, 2, 3, 4, 5}
    /\ me.role # "main" /\ me.at \in {2, 3, 4} => "USR1" \in me.mask
    /\ world.buf = "half" => me.role # "main" /\ me.at = 3

LEMMA SinSteps == ASSUME SgTypes, sg = "averagesin"
    PROVE  /\ me.role = "main" =>
                /\ Running => me.at \in {1, 2}
                /\ me.at = 1 => This.op = "handle"
                /\ me.at = 2 => This.op = "to" /\ This.v = "calculate"
           /\ me.role \in {"calculate", "last"} =>
                /\ Running => me.at \in {1, 2, 3, 4, 5, 6} /\ (me.role = "last" => me.at \in {1, 2, 3, 4})
                /\ me.at = 1 => This.op = "block" /\ This.v = {"USR1"}
                /\ me.at = 2 => This.op = "set" /\ This.v.field = "buf" /\ This.v.value = "half"
                /\ me.at = 3 => This.op = "set" /\ This.v.field = "buf" /\ This.v.value = "whole"
                /\ me.at = 4 => This.op = "setmask"
                /\ Running /\ me.at = 5 => This.op = "perhaps" /\ This.v = "calculate"
                /\ Running /\ me.at = 6 => This.op = "to" /\ This.v = "last"
<1>1. CASE me.role = "main"
  <2>1. Code = averagesin.main
    BY <1>1 DEF Code, Programs
  <2>2. Len(Code) = 2
    BY <2>1, AveragesinCode
  <2>3. Running => me.at \in {1, 2}
    BY <2>2 DEF Running, SgTypes
  <2> QED
    BY <1>1, <2>1, <2>2, <2>3, AveragesinCode DEF This, StepOf
<1>2. CASE me.role = "calculate"
  <2>1. Code = averagesin.calculate
    BY <1>2 DEF Code, Programs
  <2>2. Len(Code) = 6
    BY <2>1, AveragesinCode
  <2>3. Running => me.at \in {1, 2, 3, 4, 5, 6}
    BY <2>2 DEF Running, SgTypes
  <2>4. \A i \in 1 .. 6 : Code[i] =
             <<StepOf("block", {"USR1"}, "failed"), StepOf("set", [field |-> "buf", value |-> "half"], "failed"),
               StepOf("set", [field |-> "buf", value |-> "whole"], "failed"), StepOf("setmask", "old", "failed"),
               StepOf("perhaps", "calculate", "failed"), StepOf("to", "last", "failed")>>[i]
    BY <2>1, AveragesinCode
  <2> QED
    BY <1>2, <2>2, <2>3, <2>4 DEF This, StepOf
<1>3. CASE me.role = "last"
  <2>1. Code = averagesin.last
    BY <1>3 DEF Code, Programs
  <2>2. Len(Code) = 4
    BY <2>1, AveragesinCode
  <2>3. Running => me.at \in {1, 2, 3, 4}
    BY <2>2 DEF Running, SgTypes
  <2>4. \A i \in 1 .. 4 : Code[i] =
             <<StepOf("block", {"USR1"}, "failed"), StepOf("set", [field |-> "buf", value |-> "half"], "failed"),
               StepOf("set", [field |-> "buf", value |-> "whole"], "failed"), StepOf("setmask", "old", "failed"),
               StepOf("perhaps", "calculate", "failed"), StepOf("to", "last", "failed")>>[i]
    BY <2>1, AveragesinCode
  <2> QED
    BY <1>3, <2>2, <2>3, <2>4 DEF This, StepOf
<1> QED
  BY <1>1, <1>2, <1>3

LEMMA SinStep == SgTypes /\ HandlersKept /\ SinKept /\ SigProgNext => SinKept'
<1> SUFFICES ASSUME SgTypes, HandlersKept, SigProgNext, SinKept, sg = "averagesin" PROVE SinKept'
  BY SgSame DEF SinKept
<1>1. Advances \/ Turns \/ Stumbles \/ ItEnds \/ Happens
  BY SgCases DEF Suspenders
<1>2. SinKept!2
  BY DEF SinKept
<1>3. CASE Advances
  <2>1. me'.role = me.role /\ me'.at = me.at + 1 /\ Running /\ This.op # "to"
    BY <1>3 DEF Advances
  <2>2. CASE me.role = "main"
    <3>1. me.at = 1 /\ world' = world
      BY <1>2, <1>3, <2>1, <2>2, SinSteps DEF Advances
    <3> QED
      BY <1>2, <2>1, <2>2, <3>1 DEF SinKept
  <2>3. CASE me.role \in {"calculate", "last"}
    <3>1. me.at \in {1, 2, 3, 4, 5} /\ (me.role = "last" => me.at \in {1, 2, 3, 4})
      BY <2>1, <2>3, SinSteps
    <3>2. CASE me.at = 1
      <4>1. "USR1" \in me'.mask /\ world' = world
        BY <1>3, <2>3, <3>2, SinSteps DEF Advances
      <4> QED
        BY <1>2, <2>1, <2>3, <3>2, <4>1 DEF SinKept
    <3>3. CASE me.at = 2
      <4>1. me'.mask = me.mask
        BY <1>3, <2>3, <3>3, SinSteps DEF Advances
      <4> QED
        BY <1>2, <2>1, <2>3, <3>3, <4>1 DEF SinKept
    <3>4. CASE me.at = 3
      <4>1. me'.mask = me.mask /\ world'.buf = "whole"
        BY <1>3, <2>3, <3>4, SinSteps DEF Advances, WorldFields
      <4> QED
        BY <1>2, <2>1, <2>3, <3>4, <4>1 DEF SinKept
    <3>5. CASE me.at \in {4, 5}
      <4>1. world' = world
        BY <1>3, <2>1, <2>3, <3>5, SinSteps DEF Advances
      <4> QED
        BY <1>2, <2>1, <2>3, <3>1, <3>5, <4>1 DEF SinKept
    <3> QED
      BY <3>1, <3>2, <3>3, <3>4, <3>5
  <2> QED
    BY <1>2, <2>2, <2>3
<1>4. CASE Turns
  <2>1. me.role = "main" \/ me.at \in {5, 6}
    BY <1>2, <1>4, SinSteps DEF Turns
  <2>2. me'.role \in {"calculate", "last"} /\ me'.at = 1 /\ world' = world
    BY <1>2, <1>4, <2>1, SinSteps DEF Turns
  <2> QED
    BY <1>2, <2>1, <2>2 DEF SinKept
<1>5. CASE Stumbles
  BY <1>2, <1>5, SinSteps DEF Stumbles
<1>6. CASE ItEnds
  BY <1>2, <1>6 DEF ItEnds, SinKept
<1>7. CASE Happens
  <2>1. world'.buf = world.buf
    BY <1>7 DEF Happens, WorldKeeps, WorldFields
  <2>2. me'.role = me.role /\ me'.at = me.at /\ me'.mask = me.mask
    BY <1>7 DEF Happens
  <2> QED
    BY <1>2, <2>1, <2>2 DEF SinKept
<1> QED
  BY <1>1, <1>3, <1>4, <1>5, <1>6, <1>7

\* sigjmp sets jumpok only after sigsetjmp.
JmpKept == sg = "sigjmp" =>
    /\ (me.role = "main" /\ me.at \in {1, 2, 3, 4}) \/ (me.role = "loop" /\ me.at = 1)
    /\ world.jump \in {0, 3}
    /\ me.role = "main" /\ me.at \in {3, 4} => world.jump = 3
    /\ world.flag => world.jump = 3
    /\ \A s \in Sigs : me.handler[s] # "flag"

LEMMA JmpSteps == ASSUME SgTypes, sg = "sigjmp", Running
    PROVE  /\ me.role = "main" /\ me.at \in {1, 2, 3, 4} =>
                /\ me.at = 1 => This.op = "handle" /\ This.v.h = "jump"
                /\ me.at = 2 => This.op = "setjmp"
                /\ me.at = 3 => This.op = "set" /\ This.v.field = "flag"
                /\ me.at = 4 => This.op = "to" /\ This.v = "loop"
           /\ me.role = "loop" /\ me.at = 1 => This.op = "pause"
<1>1. CASE me.role = "main" /\ me.at \in {1, 2, 3, 4}
  <2>1. Code = sigjmp.main
    BY <1>1 DEF Code, Programs
  <2> QED
    BY <1>1, <2>1, SigjmpCode DEF This, StepOf
<1>2. CASE me.role = "loop" /\ me.at = 1
  <2>1. Code = sigjmp.loop
    BY <1>2 DEF Code, Programs
  <2> QED
    BY <1>2, <2>1, SigjmpCode DEF This, StepOf
<1> QED
  BY <1>1, <1>2

LEMMA JmpStep == SgTypes /\ HandlersKept /\ JmpKept /\ SigProgNext => JmpKept'
<1> SUFFICES ASSUME SgTypes, HandlersKept, SigProgNext, JmpKept, sg = "sigjmp" PROVE JmpKept'
  BY SgSame DEF JmpKept
<1>0. Shaped
  BY DEF SgTypes
<1>1. JmpKept!2
  BY DEF JmpKept
<1>2. Running => \/ me.role = "main" /\ me.at = 1 /\ This.op = "handle" /\ This.v.h = "jump"
                 \/ me.role = "main" /\ me.at = 2 /\ This.op = "setjmp"
                 \/ me.role = "main" /\ me.at = 3 /\ This.op = "set" /\ This.v.field = "flag"
                 \/ me.role = "main" /\ me.at = 4 /\ This.op = "to" /\ This.v = "loop"
                 \/ me.role = "loop" /\ me.at = 1 /\ This.op = "pause"
  BY <1>1, JmpSteps
<1> USE DEF MeKeeps, MeFields, ProgramKeeps, GoesOn, PlaysNext
<1>3. CASE Install
  <2>1. Running /\ This.op = "handle" /\ me'.role = me.role /\ me'.at = me.at + 1 /\ world' = world
        /\ me'.handler = [me.handler EXCEPT ![This.v.sig] = This.v.h]
    BY <1>0, <1>3, SgInstall
  <2>2. \A s \in Sigs : me'.handler[s] \in {me.handler[s], This.v.h}
    BY <1>0, <2>1 DEF Shaped
  <2> QED
    BY <1>1, <1>2, <2>1, <2>2 DEF JmpKept
<1>4. CASE ChangeMask
  BY <1>0, <1>2, <1>4, SgMask
<1>5. CASE StartSuspend \/ TakeSignal
  BY <1>0, <1>2, <1>5, SgSuspend, SgTake
<1>6. CASE SetField
  <2>1. Running /\ This.op = "set" /\ me'.role = me.role /\ me'.at = me.at + 1 /\ me'.handler = me.handler
    BY <1>0, <1>6, SgSet
  <2>2. me.role = "main" /\ me.at = 3 /\ This.v.field = "flag"
    BY <1>2, <2>1
  <2>3. world'.jump = world.jump
    BY <1>0, <1>6, <2>2, SgSet DEF WorldFields
  <2> QED
    BY <1>1, <2>1, <2>2, <2>3 DEF JmpKept
<1>7. CASE Control
  <2>1. Running /\ world' = world /\ me'.handler = me.handler /\ This.op \notin {"handle", "setjmp", "set", "pause"}
    BY <1>0, <1>7, SgControl
  <2>2. This.op = "to" => me'.role = This.v /\ me'.at = 1
    BY <1>0, <1>7, SgControl
  <2> QED
    BY <1>1, <1>2, <2>1, <2>2 DEF JmpKept
<1>8. CASE ArmAndFork
  <2>1. Running /\ me'.role = me.role /\ me'.at = me.at + 1 /\ me'.handler = me.handler
        /\ This.op \in {"setjmp", "timer", "forkexec"}
        /\ (This.op = "setjmp" => world'.jump = me.at + 1 /\ WorldKeeps({"jump"}))
    BY <1>0, <1>8, SgArm
  <2>2. me.role = "main" /\ me.at = 2 /\ This.op = "setjmp"
    BY <1>2, <2>1
  <2>3. world'.jump = 3
    BY <2>1, <2>2
  <2> QED
    BY <1>1, <2>1, <2>2, <2>3 DEF JmpKept
<1>9. CASE Finish
  <2>1. me'.role = me.role /\ me'.at = me.at /\ me'.handler = me.handler /\ world' = world
    BY <1>0, <1>9, SgFinish
  <2> QED
    BY <1>1, <2>1 DEF JmpKept
<1>10. CASE CallFails
  BY <1>0, <1>2, <1>10, SgFails
<1>11. CASE KidEnds \/ \E sig \in Sigs : SignalArrives(sig)
  <2>1. me' = me /\ world'.jump = world.jump /\ world'.flag = world.flag
    BY <1>0, <1>11, SgOthers DEF WorldKeeps, WorldFields
  <2> QED
    BY <1>1, <2>1 DEF JmpKept
<1>12. ASSUME NEW sig \in Sigs, Deliver(sig) PROVE JmpKept'
  <2>1. ~me.suspended /\ me.handler[sig] # "flag"
    BY <1>1 DEF HandlersKept, Suspenders
  <2>2. /\ me'.handler = me.handler
        /\ \/ me'.role = me.role /\ me'.at = me.at
           \/ world.flag /\ me'.role = "main" /\ me'.at = world.jump
    BY <1>0, <1>12, <2>1, SgDeliver DEF Resumes
  <2>3. world'.jump = world.jump /\ world'.flag = world.flag
    BY <1>0, <1>12, <2>1, SgDeliver DEF WorldKeeps, WorldFields
  <2> QED
    BY <1>1, <2>2, <2>3 DEF JmpKept
<1> QED
  BY <1>3, <1>4, <1>5, <1>6, <1>7, <1>8, <1>9, <1>10, <1>11, <1>12 DEF SigProgNext, ProgramStep

\* timesignals goes to its end when it has counted enough, and nowhere else.
TimesKept == sg = "timesignals" =>
    /\ \/ me.role = "main" /\ me.at \in {1, 2, 3, 4}
       \/ me.role = "loop" /\ me.at \in {1, 2, 3}
       \/ me.role = "rest" /\ me.at = 1 /\ world.count > MaxCount
    /\ me.suspended => (me.role = "main" /\ me.at = 3) \/ (me.role = "loop" /\ me.at = 2)
    /\ me.life = "end" => world.count > MaxCount

LEMMA TimesSteps == ASSUME SgTypes, sg = "timesignals"
    PROVE  /\ me.role = "main" /\ me.at \in {1, 2, 3, 4} =>
                /\ Len(Code) = 4
                /\ me.at = 1 => This.op = "handle"
                /\ me.at = 2 => This.op = "block"
                /\ me.at = 3 => This.op = "suspend"
                /\ me.at = 4 => This.op = "to" /\ This.v = "loop"
           /\ me.role = "loop" /\ me.at \in {1, 2, 3} =>
                /\ Len(Code) = 3
                /\ me.at = 1 => This.op = "counted" /\ This.v = "rest"
                /\ me.at = 2 => This.op = "suspend"
                /\ me.at = 3 => This.op = "to" /\ This.v = "loop"
           /\ me.role = "rest" => Len(Code) = 0
<1>1. CASE me.role = "main" /\ me.at \in {1, 2, 3, 4}
  <2>1. Code = timesignals.main
    BY <1>1 DEF Code, Programs
  <2> QED
    BY <1>1, <2>1, TimesignalsCode DEF This, StepOf
<1>2. CASE me.role = "loop" /\ me.at \in {1, 2, 3}
  <2>1. Code = timesignals.loop
    BY <1>2 DEF Code, Programs
  <2> QED
    BY <1>2, <2>1, TimesignalsCode DEF This, StepOf
<1>3. CASE me.role = "rest"
  <2>1. Code = timesignals.rest
    BY <1>3 DEF Code, Programs
  <2> QED
    BY <1>3, <2>1, TimesignalsCode
<1> QED
  BY <1>1, <1>2, <1>3

LEMMA TimesStep == SgTypes /\ HandlersKept /\ TimesKept /\ SigProgNext => TimesKept'
<1> SUFFICES ASSUME SgTypes, HandlersKept, SigProgNext, TimesKept, sg = "timesignals" PROVE TimesKept'
  BY SgSame DEF TimesKept
<1>0. Shaped /\ world.count \in Nat /\ MaxCount \in Nat
  BY SigScriptsAssumption DEF SgTypes
<1>1. TimesKept!2
  BY DEF TimesKept
<1>2. Running => \/ me.role = "main" /\ me.at = 1 /\ This.op = "handle"
                 \/ me.role = "main" /\ me.at = 2 /\ This.op = "block"
                 \/ me.role = "main" /\ me.at = 3 /\ This.op = "suspend"
                 \/ me.role = "main" /\ me.at = 4 /\ This.op = "to" /\ This.v = "loop"
                 \/ me.role = "loop" /\ me.at = 1 /\ This.op = "counted" /\ This.v = "rest"
                 \/ me.role = "loop" /\ me.at = 2 /\ This.op = "suspend"
                 \/ me.role = "loop" /\ me.at = 3 /\ This.op = "to" /\ This.v = "loop"
  <2>1. Running => me.at <= Len(Code)
    BY DEF Running
  <2>2. CASE me.role = "rest"
    <3>1. Len(Code) = 0 /\ me.at = 1
      BY <1>1, <2>2, TimesSteps
    <3> QED
      BY <2>1, <3>1
  <2> QED
    BY <1>1, <2>2, TimesSteps
\* A step that is not the suspension is taken with the signal handled.
<1>r. Running => (This.op # "suspend" => ~me.suspended)
  BY <1>1, <1>2
<1>l. Running => me.life = "run"
  BY DEF Running
<1> USE DEF MeKeeps, MeFields, ProgramKeeps, GoesOn, PlaysNext
<1>3. CASE Install
  <2>1. Running /\ This.op = "handle" /\ me'.role = me.role /\ me'.at = me.at + 1 /\ world' = world
        /\ me'.suspended = me.suspended /\ me'.life = me.life
    BY <1>0, <1>3, SgInstall
  <2> QED
    BY <1>1, <1>2, <1>r, <1>l, <2>1 DEF TimesKept
<1>4. CASE ChangeMask
  <2>1. Running /\ This.op \in {"block", "unblock", "setmask"} /\ me'.role = me.role /\ me'.at = me.at + 1 /\ world' = world
        /\ me'.suspended = me.suspended /\ me'.life = me.life
    BY <1>0, <1>4, SgMask
  <2> QED
    BY <1>1, <1>2, <1>r, <1>l, <2>1 DEF TimesKept
<1>5. CASE StartSuspend
  <2>1. Running /\ This.op = "suspend" /\ me'.role = me.role /\ me'.at = me.at /\ world' = world /\ me'.life = me.life
    BY <1>0, <1>5, SgSuspend
  <2> QED
    BY <1>1, <1>2, <2>1 DEF TimesKept
<1>6. CASE TakeSignal \/ SetField \/ ArmAndFork
  BY <1>0, <1>2, <1>6, SgTake, SgSet, SgArm
<1>7. CASE Control
  <2>1. Running /\ world' = world /\ me'.suspended = me.suspended /\ me'.life = me.life
        /\ This.op \in {"to", "while", "perhaps", "counted", "open", "prompt", "readline", "tcgetattr", "close", "r_wait"}
    BY <1>0, <1>7, SgControl
  <2>2. This.op = "to" => me'.role = This.v /\ me'.at = 1
    BY <1>0, <1>7, SgControl
  <2>3. This.op = "counted" =>
           \/ world.count > MaxCount /\ me'.role = This.v /\ me'.at = 1
           \/ me'.role = me.role /\ me'.at = me.at + 1
    BY <1>0, <1>7, SgControl
  <2>4. ~me'.suspended /\ me'.life = "run"
    BY <1>r, <1>l, <2>1
  <2>5. \/ me'.role = "loop" /\ me'.at \in {1, 2}
        \/ me'.role = "rest" /\ me'.at = 1 /\ world'.count > MaxCount
    BY <1>2, <2>1, <2>2, <2>3
  <2> QED
    BY <2>4, <2>5 DEF TimesKept
<1>8. CASE Finish
  <2>1. me'.role = me.role /\ me'.at = me.at /\ me'.suspended = me.suspended /\ world' = world /\ me.at > Len(Code)
    BY <1>0, <1>8, SgFinish
  <2>2. CASE me.role = "main"
    <3>1. Len(Code) = 4 /\ me.at \in {1, 2, 3, 4}
      BY <1>1, <2>2, TimesSteps
    <3>2. me.at > 4
      BY <2>1, <3>1
    <3> QED
      BY <3>1, <3>2
  <2>3. CASE me.role = "loop"
    <3>1. Len(Code) = 3 /\ me.at \in {1, 2, 3}
      BY <1>1, <2>3, TimesSteps
    <3>2. me.at > 3
      BY <2>1, <3>1
    <3> QED
      BY <3>1, <3>2
  <2>4. CASE me.role = "rest"
    BY <1>1, <2>1, <2>4 DEF TimesKept
  <2> QED
    BY <1>1, <2>2, <2>3, <2>4
<1>9. CASE CallFails
  BY <1>0, <1>2, <1>9, SgFails
<1>10. CASE KidEnds \/ \E sig \in Sigs : SignalArrives(sig)
  <2>1. me' = me /\ world'.count = world.count
    BY <1>0, <1>10, SgOthers DEF WorldKeeps, WorldFields
  <2> QED
    BY <1>1, <2>1 DEF TimesKept
<1>11. ASSUME NEW sig \in Sigs, Deliver(sig) PROVE TimesKept'
  <2>1. me.handler[sig] # "jump"
    BY DEF HandlersKept
  <2>2. /\ me'.role = me.role /\ (me'.life = "end" => me.life = "end")
        /\ \/ me'.at = me.at /\ me'.suspended = me.suspended
           \/ me.suspended /\ ~me'.suspended /\ me'.at = me.at + 1
    BY <1>0, <1>11, <2>1, SgDeliver DEF Resumes, Sigs
  <2>3. world'.count \in {world.count, world.count + 1}
    BY <1>0, <1>11, SgDeliver DEF WorldKeeps, WorldFields
  <2>4. world.count > MaxCount => world'.count > MaxCount
    BY <1>0, <2>3
  <2>5. CASE me'.at = me.at /\ me'.suspended = me.suspended
    BY <1>1, <2>2, <2>4, <2>5 DEF TimesKept
  <2>6. CASE me.suspended /\ ~me'.suspended /\ me'.at = me.at + 1
    BY <1>1, <2>2, <2>4, <2>6 DEF TimesKept
  <2> QED
    BY <2>2, <2>5, <2>6
<1> QED
  BY <1>3, <1>4, <1>5, <1>6, <1>7, <1>8, <1>9, <1>10, <1>11 DEF SigProgNext, ProgramStep

\* countsignals counts each signal once it has taken it, and each came once.
CountKept == sg = "countsignals" =>
    /\ (me.role = "main" /\ me.at \in {1, 2}) \/ (me.role = "loop" /\ me.at \in {1, 2, 3})
    /\ \A s \in Sigs : me.handler[s] = "default"
    /\ world.count + (IF "USR1" \in raised THEN 1 ELSE 0) + (IF me.role = "loop" /\ me.at = 2 THEN 1 ELSE 0) <= arrivals

LEMMA CountSteps == ASSUME SgTypes, sg = "countsignals", Running
    PROVE  /\ me.role = "main" /\ me.at \in {1, 2} =>
                /\ me.at = 1 => This.op = "block"
                /\ me.at = 2 => This.op = "to" /\ This.v = "loop"
           /\ me.role = "loop" /\ me.at \in {1, 2, 3} =>
                /\ me.at = 1 => This.op = "sigwait" /\ This.v = {"USR1"}
                /\ me.at = 2 => This.op = "set" /\ This.v.field = "count"
                /\ me.at = 3 => This.op = "to" /\ This.v = "loop"
<1>1. CASE me.role = "main" /\ me.at \in {1, 2}
  <2>1. Code = countsignals.main
    BY <1>1 DEF Code, Programs
  <2> QED
    BY <1>1, <2>1, CountsignalsCode DEF This, StepOf
<1>2. CASE me.role = "loop" /\ me.at \in {1, 2, 3}
  <2>1. Code = countsignals.loop
    BY <1>2 DEF Code, Programs
  <2> QED
    BY <1>2, <2>1, CountsignalsCode DEF This, StepOf
<1> QED
  BY <1>1, <1>2

LEMMA CountStep == SgTypes /\ HandlersKept /\ CountKept /\ SigProgNext => CountKept'
<1> SUFFICES ASSUME SgTypes, HandlersKept, SigProgNext, CountKept, sg = "countsignals" PROVE CountKept'
  BY SgSame DEF CountKept
<1>0. Shaped /\ world.count \in Nat /\ arrivals \in Nat
  BY DEF SgTypes
<1>1. CountKept!2
  BY DEF CountKept
<1>2. Running => \/ me.role = "main" /\ me.at = 1 /\ This.op = "block"
                 \/ me.role = "main" /\ me.at = 2 /\ This.op = "to" /\ This.v = "loop"
                 \/ me.role = "loop" /\ me.at = 1 /\ This.op = "sigwait" /\ This.v = {"USR1"}
                 \/ me.role = "loop" /\ me.at = 2 /\ This.op = "set" /\ This.v.field = "count"
                 \/ me.role = "loop" /\ me.at = 3 /\ This.op = "to" /\ This.v = "loop"
  BY <1>1, CountSteps
<1> USE DEF MeKeeps, MeFields, ProgramKeeps, GoesOn, PlaysNext
<1>3. CASE Install \/ StartSuspend \/ ArmAndFork
  BY <1>0, <1>2, <1>3, SgInstall, SgSuspend, SgArm
<1>4. CASE ChangeMask
  <2>1. Running /\ This.op \in {"block", "unblock", "setmask"} /\ me'.role = me.role /\ me'.at = me.at + 1 /\ world' = world
        /\ me'.handler = me.handler /\ raised' = raised /\ arrivals' = arrivals
    BY <1>0, <1>4, SgMask
  <2> QED
    BY <1>1, <1>2, <2>1 DEF CountKept
<1>5. CASE TakeSignal
  <2>1. Running /\ This.op = "sigwait" /\ me'.role = me.role /\ me'.at = me.at + 1 /\ world' = world
        /\ me'.handler = me.handler /\ arrivals' = arrivals /\ raised \cap This.v # {} /\ raised' = raised \ This.v
    BY <1>0, <1>5, SgTake
  <2>2. me.role = "loop" /\ me.at = 1 /\ This.v = {"USR1"}
    BY <1>2, <2>1
  <2>3. "USR1" \in raised /\ "USR1" \notin raised'
    BY <2>1, <2>2
  <2>4. me'.role = "loop" /\ me'.at = 2
    BY <2>1, <2>2
  <2> QED
    BY <1>0, <1>1, <2>1, <2>2, <2>3, <2>4 DEF CountKept
<1>6. CASE SetField
  <2>1. Running /\ This.op = "set" /\ me'.role = me.role /\ me'.at = me.at + 1
        /\ me'.handler = me.handler /\ raised' = raised /\ arrivals' = arrivals
    BY <1>0, <1>6, SgSet
  <2>2. me.role = "loop" /\ me.at = 2 /\ This.v.field = "count"
    BY <1>2, <2>1
  <2>3. world'.count = world.count + 1
    BY <1>0, <1>6, <2>2, SgSet
  <2> QED
    BY <1>0, <1>1, <2>1, <2>2, <2>3 DEF CountKept
<1>7. CASE Control
  <2>1. Running /\ world' = world /\ me'.handler = me.handler /\ raised' = raised /\ arrivals' = arrivals
        /\ This.op \notin {"block", "sigwait", "set"}
    BY <1>0, <1>7, SgControl
  <2>2. This.op = "to" => me'.role = This.v /\ me'.at = 1
    BY <1>0, <1>7, SgControl
  <2>3. me'.role = "loop" /\ me'.at = 1 /\ ~(me.role = "loop" /\ me.at = 2)
    BY <1>2, <2>1, <2>2
  <2> QED
    BY <1>1, <2>1, <2>3 DEF CountKept
<1>8. CASE Finish
  <2>1. me'.role = me.role /\ me'.at = me.at /\ me'.handler = me.handler /\ world' = world /\ raised' = raised /\ arrivals' = arrivals
    BY <1>0, <1>8, SgFinish
  <2> QED
    BY <1>1, <2>1 DEF CountKept
<1>9. CASE CallFails
  BY <1>0, <1>2, <1>9, SgFails
<1>10. CASE KidEnds \/ \E sig \in Sigs : SignalArrives(sig)
  <2>1. me' = me /\ world'.count = world.count
    BY <1>0, <1>10, SgOthers DEF WorldKeeps, WorldFields
  <2>2. (arrivals' = arrivals /\ raised' = raised) \/ arrivals' = arrivals + 1
    BY <1>0, <1>10, SgOthers
  <2> QED
    BY <1>0, <1>1, <2>1, <2>2 DEF CountKept
<1>11. ASSUME NEW sig \in Sigs, Deliver(sig) PROVE CountKept'
  <2>1. me.handler[sig] = "default"
    BY <1>1
  <2>2. me'.role = me.role /\ me'.at = me.at /\ me'.handler = me.handler /\ world' = world
        /\ raised' = raised \ {sig} /\ arrivals' = arrivals
    BY <1>0, <1>11, <2>1, SgDeliver
  <2>3. "USR1" \in raised' => "USR1" \in raised
    BY <2>2
  <2> QED
    BY <1>0, <1>1, <2>2, <2>3 DEF CountKept
<1> QED
  BY <1>3, <1>4, <1>5, <1>6, <1>7, <1>8, <1>9, <1>10, <1>11 DEF SigProgNext, ProgramStep

\* No handler finds half a result or a jump without its place.
LEMMA SgRight == SgTypes /\ HandlersKept /\ SinKept /\ JmpKept /\ ~world.wrong /\ SigProgNext => ~world'.wrong
<1> SUFFICES ASSUME SgTypes, HandlersKept, SinKept, JmpKept, ~world.wrong, SigProgNext PROVE ~world'.wrong
  OBVIOUS
<1>0. Shaped
  BY DEF SgTypes
<1>1. CASE SetField
  <2>1. This.v.field \in {"buf", "flag", "count", "fifo1", "fifo2", "echo", "canonical", "chars"}
    BY <1>0, <1>1, SgSet, SgThis DEF Fine
  <2> QED
    BY <1>0, <1>1, <2>1, SgSet DEF WorldKeeps, WorldFields
<1>2. CASE Install \/ ChangeMask \/ StartSuspend \/ TakeSignal
  BY <1>0, <1>2, SgInstall, SgMask, SgSuspend, SgTake
<1>3. CASE Control \/ Finish \/ CallFails
  BY <1>0, <1>3, SgControl, SgFinish, SgFails
<1>4. CASE ArmAndFork
  BY <1>0, <1>4, SgArm DEF WorldKeeps, WorldFields
<1>5. CASE KidEnds \/ \E sig \in Sigs : SignalArrives(sig)
  BY <1>0, <1>5, SgOthers DEF WorldKeeps, WorldFields
<1>6. ASSUME NEW sig \in Sigs, Deliver(sig) PROVE ~world'.wrong
  <2>1. CASE me.handler[sig] = "write"
    <3>1. sg = "averagesin" /\ "USR1" \notin me.mask
      BY <1>0, <1>6, <2>1, SgDeliver DEF HandlersKept
    <3>2. world.buf # "half"
      BY <3>1 DEF SinKept
    <3> QED
      BY <1>0, <1>6, <2>1, <3>2, SgDeliver
  <2>2. CASE me.handler[sig] = "jump"
    <3>1. ~(world.flag /\ world.jump = 0)
      BY <2>2 DEF HandlersKept, JmpKept
    <3> QED
      BY <1>0, <1>6, <2>2, <3>1, SgDeliver
  <2>3. CASE me.handler[sig] \notin {"write", "jump"}
    BY <1>0, <1>6, <2>3, SgDeliver DEF WorldKeeps, WorldFields
  <2> QED
    BY <2>1, <2>2, <2>3
<1> QED
  BY <1>1, <1>2, <1>3, <1>4, <1>5, <1>6 DEF SigProgNext, ProgramStep

SgIInv ==
    /\ SgTypes /\ HandlersKept /\ TimerCaught /\ ~world.wrong
    /\ SinKept /\ JmpKept /\ MakepairKept /\ PasswordKept /\ NosigsKept /\ CanonKept /\ ChildKept /\ TimesKept /\ CountKept

LEMMA SgInit == SigProgInit => SgIInv
<1> SUFFICES ASSUME SigProgInit PROVE SgIInv
  OBVIOUS
<1>1. /\ me.role = "main" /\ me.at = 1 /\ me.suspended = FALSE /\ me.life = "run"
      /\ me.handler = [s \in Sigs |-> "default"] /\ me = [x \in MeFields |-> me[x]]
  BY DEF SigProgInit, MeFields
<1>2. /\ world = [x \in WorldFields |-> world[x]]
      /\ world.buf = "whole" /\ world.flag = FALSE /\ world.count = 0 /\ world.fifo1 = FALSE /\ world.fifo2 = FALSE
      /\ world.echo = TRUE /\ world.timer = FALSE /\ world.jump = 0 /\ world.kid = "none" /\ world.wrong = FALSE
  BY DEF SigProgInit, FreshWorld, WorldFields
<1>3. sg \in DOMAIN Programs /\ mishap = TRUE /\ arrivals = 0 /\ raised = {}
  BY SigScriptsAssumption DEF SigProgInit
<1>4. "main" \in DOMAIN Programs[sg]
  BY <1>3, SgFine DEF FineProgram
<1>5. SgTypes
  BY <1>1, <1>2, <1>3, <1>4 DEF SgTypes, Shaped
<1>6. HandlersKept /\ TimerCaught /\ ~world.wrong
  BY <1>1, <1>2 DEF HandlersKept, TimerCaught
<1>7. SinKept /\ JmpKept /\ MakepairKept /\ CanonKept /\ NosigsKept
  BY <1>1, <1>2 DEF SinKept, JmpKept, MakepairKept, CanonKept, NosigsKept
<1>8. PasswordKept /\ ChildKept /\ TimesKept
  BY <1>1, <1>2 DEF PasswordKept, ChildKept, TimesKept
<1>9. CountKept
  BY <1>1, <1>2, <1>3 DEF CountKept
<1> QED
  BY <1>5, <1>6, <1>7, <1>8, <1>9 DEF SgIInv

LEMMA SgStep == SgIInv /\ [SigProgNext]_sgvars => SgIInv'
<1>1. SgIInv /\ SigProgNext => SgIInv'
  BY SgTypesStep, SgHandlersStep, SgTimerStep, SgRight, SinStep, JmpStep, MakepairStep, PasswordStep, NosigsStep,
     CanonStep, SgChildStep, TimesStep, CountStep DEF SgIInv
<1>2. ASSUME SgIInv, UNCHANGED sgvars PROVE SgIInv'
  <2>1. SgTypes'
    BY <1>2 DEF SgIInv, SgTypes, Shaped, sgvars
  <2>2. HandlersKept'
    BY <1>2 DEF SgIInv, HandlersKept, sgvars
  <2>3. TimerCaught'
    BY <1>2 DEF SgIInv, TimerCaught, sgvars
  <2>4. SinKept'
    BY <1>2 DEF SgIInv, SinKept, sgvars
  <2>5. JmpKept'
    BY <1>2 DEF SgIInv, JmpKept, sgvars
  <2>6. MakepairKept'
    BY <1>2 DEF SgIInv, MakepairKept, sgvars
  <2>7. PasswordKept'
    BY <1>2 DEF SgIInv, PasswordKept, sgvars
  <2>8. NosigsKept'
    BY <1>2 DEF SgIInv, NosigsKept, sgvars
  <2>9. CanonKept'
    BY <1>2 DEF SgIInv, CanonKept, sgvars
  <2>10. ChildKept'
    BY <1>2 DEF SgIInv, ChildKept, sgvars
  <2>11. TimesKept'
    BY <1>2 DEF SgIInv, TimesKept, sgvars
  <2>12. CountKept'
    BY <1>2 DEF SgIInv, CountKept, sgvars
  <2>13. ~world'.wrong
    BY <1>2 DEF SgIInv, sgvars
  <2> QED
    BY <2>1, <2>2, <2>3, <2>4, <2>5, <2>6, <2>7, <2>8, <2>9, <2>10, <2>11, <2>12, <2>13 DEF SgIInv
<1> QED
  BY <1>1, <1>2

LEMMA SgHarmless == SgIInv => SignalsHarmless
<1> SUFFICES ASSUME SgIInv PROVE SignalsHarmless
  OBVIOUS
<1>1. ~world.wrong /\ mishap \in BOOLEAN
  BY DEF SgIInv, SgTypes
<1>2. sg = "makepair" /\ me.life # "run" /\ mishap => world.fifo1 = world.fifo2
  BY DEF SgIInv, MakepairKept
<1>3. sg = "password" /\ me.life \in {"INT", "end"} /\ mishap => world.echo
  BY DEF SgIInv, PasswordKept
<1>4. sg \in {"passwordnosigs", "password"} /\ me.life = "end" => world.echo \/ ~mishap
  BY <1>3 DEF SgIInv, NosigsKept
<1>5. sg = "setnoncanonicaltest" /\ me.life = "end" /\ mishap => world.canonical
  BY DEF SgIInv, CanonKept
<1>6. ~(world.timer /\ me.life = "ALRM")
  BY DEF SgIInv, TimerCaught
<1>7. sg = "blockchild" => world.kid # "killed"
  BY DEF SgIInv, ChildKept
<1>8. sg = "timesignals" /\ me.life = "end" => world.count > MaxCount
  BY DEF SgIInv, TimesKept
<1>9. sg = "countsignals" => world.count <= arrivals
  <2>1. world.count \in Nat /\ arrivals \in Nat
    BY DEF SgIInv, SgTypes
  <2> QED
    BY <2>1 DEF SgIInv, CountKept
<1> QED
  BY <1>1, <1>2, <1>3, <1>4, <1>5, <1>6, <1>7, <1>8, <1>9 DEF SignalsHarmless

\* Whenever signals come, in the programs that wait for them no notification is lost, and
\* in the others none of the harms below is done: half a result written, a jump to where
\* sigsetjmp was not called, one FIFO of two left, a terminal left without echo, a timer
\* that ends its program, a child killed behind its mask, more signals counted than sent.
THEOREM SgSignalsKept == SignalSpec /\ SigProgSpec => []SignalsKept
<1>1. SigProgInit => SgIInv
  BY SgInit
<1>2. SgIInv /\ [SigProgNext]_sgvars => SgIInv'
  BY SgStep
<1>3. SigProgSpec => []SgIInv
  BY <1>1, <1>2, PTL DEF SigProgSpec
<1>4. SignalSpec => []NoSignalLost
  BY SigNoSignalLost
<1>5. NoSignalLost /\ SgIInv => SignalsKept
  BY SgHarmless DEF SignalsKept
<1> QED
  BY <1>3, <1>4, <1>5, PTL
=============================================================================
