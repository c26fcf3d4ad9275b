-------------------------- MODULE DescriptorProofs --------------------------
(***************************************************************************)
(* Theorems about programs that wait for descriptors: TimedWait (timed     *)
(* reads of the restart library), RequestReply (the UDP clients of         *)
(* chapter20), Monitors (chapter04), Uici (the servers and clients of      *)
(* chapter18), RemoteLog and Loggers (the loggers of appendixD), RestartIO *)
(* (appendixB/restart.c) and PacketTools (chapter17), for all their        *)
(* parameters.                                                             *)
(***************************************************************************)
EXTENDS TimedWait, RequestReply, Monitors, Uici, RemoteLog, Loggers, RestartIO, PacketTools,
        FiniteSetTheorems, SequenceTheorems, WellFoundedInduction, TLAPS

-----------------------------------------------------------------------------
(* TimedWait.                                                              *)

Timevals == [sec : Int, usec : Int]

\* A timeval as select accepts it, but for its sign.
Normal(tv) == tv \in [sec : Int, usec : 0..(Million - 1)]

\* What gettimeofday returns stands for the time it is.
LEMMA ClockReads ==
    ASSUME NEW t \in Nat
    PROVE  Normal(Timeval(t)) /\ Microseconds(Timeval(t)) = t
<1>1. t \div Million \in Int /\ t % Million \in 0..(Million - 1)
  BY MillionAssumption
<1>2. t = Million * (t \div Million) + (t % Million)
  BY MillionAssumption
<1> QED
  BY <1>1, <1>2, MillionAssumption DEF Normal, Timeval, Microseconds

\* The carry and the borrow of restart.c leave the time they stand for alone, and
\* bring the microseconds of a sum or of a difference into their range.
LEMMA CarryKeeps ==
    ASSUME NEW tv \in Timevals
    PROVE  /\ Carry(tv) \in Timevals
           /\ Microseconds(Carry(tv)) = Microseconds(tv)
           /\ tv.usec < 2 * Million => Carry(tv).usec < Million
           /\ tv.usec >= -Million => Carry(tv).usec >= -Million
           /\ tv.usec >= 0 => Carry(tv).usec >= 0
BY MillionAssumption DEF Timevals, Carry, Microseconds

LEMMA BorrowKeeps ==
    ASSUME NEW tv \in Timevals
    PROVE  /\ Borrow(tv) \in Timevals
           /\ Microseconds(Borrow(tv)) = Microseconds(tv)
           /\ tv.usec \in (-Million)..(Million - 1) => Normal(Borrow(tv))
<1>1. CASE tv.usec < 0
  BY <1>1, MillionAssumption DEF Timevals, Borrow, Microseconds, Normal
<1>2. CASE tv.usec >= 0
  BY <1>2, MillionAssumption DEF Timevals, Borrow, Microseconds, Normal
<1> QED
  BY <1>1, <1>2 DEF Timevals

\* What the timers and their differences are made of.
WaitTypes ==
    /\ timedkind \in {"readtimed", "readtimed1"}
    /\ clock \in 0..MaxClock
    /\ Normal(wend) /\ Normal(start) /\ Normal(timeoutsave)
    /\ wtimeout \in Timevals
    /\ due \in Int /\ asked \in Int

\* A call ends before the clock does, and the timeout in hand is what was left
\* until then when the clock was read.
BeforeEnd == InWaitfdtimed => Deadline < MaxClock
TimeLeft ==
    wpc \in {"select", "selecting"} =>
        /\ Normal(wtimeout) /\ wtimeout.sec >= 0
        /\ asked <= clock /\ asked + Microseconds(wtimeout) = Deadline

\* select does not time out early, so ETIME is not early either.
NotEarly ==
    /\ wpc = "selecting" => due >= Deadline
    /\ wpc = "etime" => clock >= Deadline

WaitIInv == WaitTypes /\ BeforeEnd /\ TimeLeft /\ NotEarly

\* Sums and differences, field by field.
LEMMA MicrosecondsAdd ==
    ASSUME NEW v \in Timevals, NEW w \in Timevals
    PROVE  /\ Microseconds([sec |-> v.sec + w.sec, usec |-> v.usec + w.usec])
                = Microseconds(v) + Microseconds(w)
           /\ Microseconds([sec |-> v.sec - w.sec, usec |-> v.usec - w.usec])
                = Microseconds(v) - Microseconds(w)
           /\ Microseconds(v) \in Int
BY MillionAssumption DEF Timevals, Microseconds

\* What gettimeout and fixtimeout compute is normal, and the time left.
LEMMA RemainingIsLeft ==
    ASSUME WaitTypes
    PROVE  Normal(Remaining) /\ Microseconds(Remaining) = Deadline - clock
<1> DEFINE now == Timeval(clock)
           added == [sec |-> start.sec - now.sec + timeoutsave.sec,
                     usec |-> start.usec - now.usec + timeoutsave.usec]
           gap == [sec |-> wend.sec - now.sec, usec |-> wend.usec - now.usec]
<1>1. Normal(now) /\ Microseconds(now) = clock
  BY ClockReads, MaxClockAssumption DEF WaitTypes
<1>2. CASE timedkind = "readtimed1"
  <2>1. added \in Timevals /\ added.usec < 2 * Million /\ added.usec >= -Million
    BY <1>1, MillionAssumption DEF WaitTypes, Normal, Timevals
  <2>2. Microseconds(added) = Deadline - clock
    BY <1>1, <1>2, MillionAssumption DEF WaitTypes, Normal, Microseconds, Deadline
  <2>3. /\ Carry(added) \in Timevals /\ Microseconds(Carry(added)) = Microseconds(added)
        /\ Carry(added).usec \in (-Million)..(Million - 1)
    <3> HIDE DEF added
    <3> QED
      BY <2>1, CarryKeeps, MillionAssumption DEF Timevals
  <2>4. Remaining = Borrow(Carry(added))
    BY <1>2 DEF Remaining, Fixtimeout
  <2> HIDE DEF added
  <2> QED
    BY <2>2, <2>3, <2>4, BorrowKeeps
<1>3. CASE timedkind = "readtimed"
  <2>1. gap \in Timevals /\ gap.usec < 2 * Million /\ gap.usec >= -Million
    BY <1>1, MillionAssumption DEF WaitTypes, Normal, Timevals
  <2>2. Microseconds(gap) = Deadline - clock
    BY <1>1, <1>3, MillionAssumption DEF WaitTypes, Normal, Microseconds, Deadline
  <2>3. /\ Carry(gap) \in Timevals /\ Microseconds(Carry(gap)) = Microseconds(gap)
        /\ Carry(gap).usec \in (-Million)..(Million - 1)
    <3> HIDE DEF gap
    <3> QED
      BY <2>1, CarryKeeps, MillionAssumption DEF Timevals
  <2>4. Remaining = Borrow(Carry(gap))
    BY <1>3 DEF Remaining
  <2> HIDE DEF gap
  <2> QED
    BY <2>2, <2>3, <2>4, BorrowKeeps
<1> QED
  BY <1>2, <1>3 DEF WaitTypes

\* A deadline is as far away as was asked for.
LEMMA DeadlineSet ==
    ASSUME WaitTypes, NEW seconds \in Waits
    PROVE  /\ Normal(Carry(seconds)) /\ Microseconds(Carry(seconds)) = Microseconds(seconds)
           /\ Carry(seconds).sec >= 0
           /\ Normal(Add2currenttime(seconds))
           /\ Microseconds(Add2currenttime(seconds)) = clock + Microseconds(seconds)
<1> DEFINE now == Timeval(clock)
           end == [sec |-> now.sec + seconds.sec, usec |-> now.usec + seconds.usec]
<1>1. Normal(now) /\ Microseconds(now) = clock
  BY ClockReads, MaxClockAssumption DEF WaitTypes
<1>2. seconds \in [sec : Nat, usec : 0..Million]
  BY WaitsAssumption
<1>3. /\ Normal(Carry(seconds)) /\ Microseconds(Carry(seconds)) = Microseconds(seconds)
      /\ Carry(seconds).sec >= 0
  BY <1>2, MillionAssumption DEF Carry, Normal, Microseconds
<1>4. /\ end \in Timevals /\ end.usec \in 0..(2 * Million - 1)
      /\ Microseconds(end) = clock + Microseconds(seconds)
  BY <1>1, <1>2, MillionAssumption DEF Normal, Timevals, Microseconds
<1>5. Normal(Carry(end)) /\ Microseconds(Carry(end)) = Microseconds(end)
  <2> HIDE DEF end
  <2> QED
    BY <1>4, CarryKeeps, MillionAssumption DEF Normal, Timevals
<1> QED
  BY <1>3, <1>4, <1>5 DEF Add2currenttime

LEMMA WaitInitIInv == WaitInit => WaitIInv
<1> SUFFICES ASSUME WaitInit PROVE WaitIInv
  OBVIOUS
<1>1. Normal(Timeval(0))
  BY ClockReads
<1> QED
  BY <1>1, TimedKindsAssumption, MaxClockAssumption, MillionAssumption
     DEF WaitInit, WaitIInv, WaitTypes, BeforeEnd, TimeLeft, NotEarly, Normal, Timevals, InWaitfdtimed

LEMMA WaitNextIInv == WaitIInv /\ [WaitNext]_waitvars => WaitIInv'
<1> SUFFICES ASSUME WaitIInv, [WaitNext]_waitvars PROVE WaitIInv'
  OBVIOUS
<1> USE DEF WaitIInv
<1>0. Deadline \in Int /\ clock \in Nat
  BY MillionAssumption, MaxClockAssumption DEF WaitTypes, Normal, Deadline, Microseconds
<1>1. CASE Readtimed
  <2>1. PICK seconds \in Waits :
            /\ clock + Microseconds(seconds) < MaxClock
            /\ wend' = Add2currenttime(seconds)
    BY <1>1 DEF Readtimed
  <2>2. Deadline' = clock + Microseconds(seconds) /\ Normal(wend)'
    BY <1>1, <2>1, DeadlineSet DEF Deadline, Readtimed, WaitTypes, Microseconds, Normal
  <2> QED
    BY <1>1, <2>1, <2>2 DEF Readtimed, WaitTypes, BeforeEnd, TimeLeft, NotEarly, Normal
<1>2. CASE Readtimed1
  <2>1. PICK seconds \in Waits :
            /\ clock + Microseconds(seconds) < MaxClock
            /\ IF Microseconds(seconds) = 0
               THEN wpc' = "read" /\ UNCHANGED <<start, timeoutsave, wtimeout, asked>>
               ELSE /\ start' = Timeval(clock) /\ asked' = clock
                    /\ timeoutsave' = Carry(seconds) /\ wtimeout' = Carry(seconds)
                    /\ wpc' = "select"
    BY <1>2 DEF Readtimed1
  <2>2. CASE Microseconds(seconds) = 0
    BY <1>2, <2>1, <2>2
       DEF Readtimed1, WaitTypes, BeforeEnd, TimeLeft, NotEarly, Normal, InWaitfdtimed
  <2>3. CASE Microseconds(seconds) # 0
    <3>1. /\ Normal(Carry(seconds)) /\ Microseconds(Carry(seconds)) = Microseconds(seconds)
          /\ Carry(seconds).sec >= 0
          /\ Normal(Timeval(clock)) /\ Microseconds(Timeval(clock)) = clock
      BY <1>0, DeadlineSet, ClockReads
    <3>2. Deadline' = clock + Microseconds(seconds)
      BY <1>2, <2>1, <2>3, <3>1 DEF Deadline, Readtimed1, Microseconds
    <3>3. Microseconds(wtimeout)' = Microseconds(seconds)
      BY <2>1, <2>3, <3>1 DEF Microseconds
    <3> QED
      BY <1>0, <1>2, <2>1, <2>3, <3>1, <3>2, <3>3
         DEF Readtimed1, WaitTypes, BeforeEnd, TimeLeft, NotEarly, Normal, Timevals
  <2> QED
    BY <2>2, <2>3
<1>3. CASE Gettimeout
  <2> DEFINE r == Remaining
  <2>1. Normal(r) /\ Microseconds(r) = Deadline - clock /\ wtimeout' = r /\ asked' = clock
    BY <1>3, RemainingIsLeft DEF Gettimeout
  <2>2. wpc' = IF r.sec < 0 \/ (r.sec = 0 /\ r.usec = 0) THEN "etime" ELSE "select"
    BY <1>3 DEF Gettimeout
  <2> HIDE DEF r
  <2>3. Deadline' = Deadline /\ clock' = clock
    BY <1>3 DEF Gettimeout, waitargs, Deadline, Microseconds
  <2>4. wpc' = "etime" => clock >= Deadline
    <3>1. wpc' = "etime" => r.sec * Million + r.usec <= 0
      <4>1. CASE r.sec < 0
        <5>1. r.sec * Million <= -Million
          BY <2>1, <4>1, MillionAssumption DEF Normal
        <5> QED
          BY <2>1, <5>1, MillionAssumption DEF Normal
      <4> QED
        BY <2>1, <2>2, <4>1, MillionAssumption DEF Normal
    <3> QED
      BY <1>0, <2>1, <3>1 DEF Microseconds
  <2>5. Microseconds(wtimeout)' = Microseconds(r)
    BY <2>1 DEF Microseconds
  <2>6. InWaitfdtimed
    BY <1>3 DEF Gettimeout, InWaitfdtimed
  <2> QED
    BY <1>0, <1>3, <2>1, <2>2, <2>3, <2>4, <2>5, <2>6
       DEF Gettimeout, waitargs, WaitTypes, BeforeEnd, TimeLeft, NotEarly, Normal, Timevals
<1>4. CASE Select
  <2>1. Deadline' = Deadline /\ Microseconds(wtimeout)' = Microseconds(wtimeout) /\ wpc = "select"
    BY <1>4 DEF Select, waitargs, Deadline, Microseconds
  <2>2. Microseconds(wtimeout) \in Int
    BY MillionAssumption DEF WaitTypes, Timevals, Microseconds
  <2>3. Capped(clock + Microseconds(wtimeout)) >= Deadline
    BY <1>0, <2>1, <2>2, MaxClockAssumption
       DEF WaitTypes, BeforeEnd, TimeLeft, InWaitfdtimed, Capped
  <2>4. Capped(clock + Microseconds(wtimeout)) \in Int
    BY <1>0, <2>2, MaxClockAssumption DEF Capped
  <2> QED
    BY <1>0, <1>4, <2>1, <2>3, <2>4
       DEF Select, waitargs, WaitTypes, BeforeEnd, TimeLeft, NotEarly, Normal, InWaitfdtimed
<1>5. CASE SelectReturns \/ SelectInterrupted \/ SelectFails
  <2>1. Deadline' = Deadline /\ wpc = "selecting"
    BY <1>5 DEF SelectReturns, SelectInterrupted, SelectFails, waitargs, Deadline, Microseconds
  <2> QED
    BY <1>0, <1>5, <2>1
       DEF SelectReturns, SelectInterrupted, SelectFails, waitargs, WaitTypes, BeforeEnd, TimeLeft,
           NotEarly, Normal, InWaitfdtimed
<1>6. CASE Read \/ Again
  BY <1>6 DEF Read, Again, waitargs, WaitTypes, BeforeEnd, TimeLeft, NotEarly, Normal, InWaitfdtimed
<1>7. CASE Tick \/ DataChange \/ UNCHANGED waitvars
  <2>1. /\ Deadline' = Deadline /\ Microseconds(wtimeout)' = Microseconds(wtimeout)
        /\ wpc' = wpc /\ clock' \in 0..MaxClock /\ clock' >= clock
        /\ UNCHANGED <<waitargs, wtimeout, due, asked>>
    BY <1>0, <1>7, MaxClockAssumption
       DEF Tick, DataChange, waitvars, waitargs, Deadline, Microseconds, WaitTypes
  <2> QED
    BY <1>0, <2>1 DEF waitargs, WaitTypes, BeforeEnd, TimeLeft, NotEarly, Normal, InWaitfdtimed
<1> QED
  BY <1>1, <1>2, <1>3, <1>4, <1>5, <1>6, <1>7 DEF WaitNext

\* Whatever select does and however the waiting calls are interrupted, the timeout
\* in hand is what was left when the clock was read, to the microsecond.
THEOREM WaitInvariant == WaitSpec => []WaitIInv
BY WaitInitIInv, WaitNextIInv, PTL DEF WaitSpec

\* readtimed and readtimed1 (restart.c) return no ETIME before the time they were
\* given has passed, and no interruption moves the end of the wait, for every length
\* of a second, every time to wait and every clock.
THEOREM WaitDeadlineKept == WaitSpec => []DeadlineKept
<1>1. WaitIInv => DeadlineKept
  BY DEF WaitIInv, TimeLeft, NotEarly, DeadlineKept, Normal
<1> QED
  BY <1>1, WaitInvariant, PTL

-----------------------------------------------------------------------------
(* RequestReply.                                                           *)

ReqTypes ==
    /\ rrkind \in {"wait", "timeout", "retry"}
    /\ qpc \in {"idle", "send", "wait"}
    /\ qcall \in 0..MaxCalls /\ retries \in Nat
    /\ requests \in [Ids -> Nat] /\ replies \in [Ids \cup {Stranger} -> Nat]
    /\ dups \in Nat
    /\ returned \in [Ids -> Ids \cup {0}]
    /\ tries \in [Ids -> Nat] /\ executed \in [Ids -> Nat]

Limit == IF rrkind = "retry" THEN MaxRetries ELSE 1

\* What has been sent so far, and what the call under way has sent.
TriesAgree ==
    /\ \A k \in Ids : /\ k > qcall => tries[k] = 0 /\ returned[k] = 0
                      /\ k = qcall /\ qpc # "idle" => returned[k] = 0
                      /\ tries[k] <= Limit
    /\ qpc # "idle" => /\ qcall \in Ids
                       /\ retries < Limit
                       /\ tries[qcall] = IF qpc = "wait" THEN retries + 1 ELSE retries

\* No answer without a service, no service without a request.
Caused ==
    \A k \in Ids :
        /\ requests[k] > 0 \/ executed[k] > 0 => tries[k] > 0
        /\ replies[k] > 0 => executed[k] > 0
        /\ returned[k] # 0 => returned[k] <= k /\ executed[returned[k]] > 0

\* A request sent once on a network that has duplicated nothing is somewhere or
\* has been answered to one call, not both.
Single(k) == dups = 0 /\ tries[k] <= 1
OneCopy(k) ==
    /\ requests[k] + replies[k] <= tries[k]
    /\ \A j \in Ids : returned[j] = k =>
           /\ requests[k] = 0 /\ replies[k] = 0
           /\ \A i \in Ids : returned[i] = k => i = j
CopiesCounted == \A k \in Ids : Single(k) => OneCopy(k)

\* Without failures a call gives up only after all its tries.
TriedAll ==
    rrfaults = {} => \A k \in Ids : Ended(k) /\ returned[k] = 0 => rrkind # "wait" /\ tries[k] = Limit

ReqIInv == ReqTypes /\ TriesAgree /\ Caused /\ CopiesCounted /\ TriedAll

LEMMA ReqInitIInv == ReqInit => ReqIInv
BY MaxRetriesAssumption, MaxCallsAssumption, RRKindsAssumption
   DEF ReqInit, ReqIInv, ReqTypes, TriesAgree, Caused, CopiesCounted, Single, OneCopy, TriedAll,
       Ended, Ids, Stranger, Limit

\* The client's own steps leave the rest alone.
LEMMA ClientStep ==
    ASSUME ReqIInv, CallRequest \/ SendRequestFails \/ WaitOver
    PROVE  ReqIInv'
<1> USE DEF ReqIInv, CallRequest, SendRequestFails, WaitOver, rrchoice, rrnet
<1>1. /\ UNCHANGED <<rrkind, rrfaults, requests, replies, dups, returned, tries, executed>>
      /\ Limit' = Limit /\ Limit \in Nat \ {0}
  BY MaxRetriesAssumption DEF Limit
<1>2. ReqTypes'
  BY <1>1, MaxCallsAssumption DEF ReqTypes
<1>3. TriesAgree'
  <2>1. CASE CallRequest
    BY <1>1, <2>1, MaxCallsAssumption DEF ReqTypes, TriesAgree, Ids
  <2>2. CASE SendRequestFails
    BY <1>1, <2>2 DEF ReqTypes, TriesAgree
  <2>3. CASE WaitOver
    BY <1>1, <2>3 DEF ReqTypes, TriesAgree, Limit
  <2> QED
    BY <2>1, <2>2, <2>3
<1>4. Caused' /\ CopiesCounted'
  BY <1>1 DEF Caused, CopiesCounted, Single, OneCopy
<1>5. TriedAll'
  <2> SUFFICES ASSUME rrfaults = {}, NEW k \in Ids, Ended(k)', returned[k] = 0
               PROVE  rrkind # "wait" /\ tries[k] = Limit
    BY <1>1 DEF TriedAll
  <2>1. CASE Ended(k)
    BY <2>1 DEF TriedAll
  <2>2. CASE ~Ended(k)
    <3>1. WaitOver /\ k = qcall /\ qpc = "wait" /\ qpc' = "idle"
      BY <2>2 DEF Ended, Ids, ReqTypes
    <3>2. rrkind # "wait" /\ tries[k] = retries + 1 /\ retries < Limit
      BY <3>1 DEF TriesAgree
    <3>3. Limit <= retries + 1
      BY <3>1, <3>2, MaxRetriesAssumption DEF Limit, ReqTypes
    <3> QED
      BY <1>1, <3>2, <3>3 DEF ReqTypes
  <2> QED
    BY <2>1, <2>2
<1> QED
  BY <1>2, <1>3, <1>4, <1>5

LEMMA SendStep == ReqIInv /\ SendRequest => ReqIInv'
<1> SUFFICES ASSUME ReqIInv, SendRequest PROVE ReqIInv'
  OBVIOUS
<1> USE DEF ReqIInv, SendRequest, rrchoice, Add
<1>1. /\ UNCHANGED <<rrkind, rrfaults, replies, dups, returned, executed, qcall, retries>>
      /\ Limit' = Limit /\ Limit \in Nat \ {0}
      /\ qcall \in Ids /\ qpc = "send" /\ qpc' = "wait"
      /\ tries[qcall] = retries /\ retries < Limit
  BY MaxRetriesAssumption DEF Limit, TriesAgree
<1>2. /\ tries' \in [Ids -> Nat] /\ requests' \in [Ids -> Nat]
      /\ tries'[qcall] = tries[qcall] + 1 /\ requests'[qcall] = requests[qcall] + 1
      /\ \A k \in Ids \ {qcall} : tries'[k] = tries[k] /\ requests'[k] = requests[k]
  BY <1>1 DEF ReqTypes
<1>3. ReqTypes'
  BY <1>1, <1>2 DEF ReqTypes
<1>4. TriesAgree'
  BY <1>1, <1>2 DEF ReqTypes, TriesAgree
<1>5. Caused'
  BY <1>1, <1>2 DEF ReqTypes, Caused
<1>6. CopiesCounted'
  <2> SUFFICES ASSUME NEW k \in Ids, Single(k)' PROVE OneCopy(k)'
    BY DEF CopiesCounted
  <2>1. CASE k # qcall
    BY <1>1, <1>2, <2>1 DEF CopiesCounted, Single, OneCopy
  <2>2. CASE k = qcall
    <3>1. tries[k] = 0 /\ requests[k] + replies[k] <= tries[k]
      BY <1>1, <1>2, <2>2 DEF CopiesCounted, Single, OneCopy, ReqTypes
    <3>2. \A j \in Ids : returned[j] # k
      BY <3>1 DEF Caused, ReqTypes, Ids
    <3> QED
      BY <1>1, <1>2, <2>2, <3>1, <3>2 DEF OneCopy, ReqTypes
  <2> QED
    BY <2>1, <2>2
<1>7. TriedAll'
  BY <1>1, <1>2 DEF TriedAll, Ended, ReqTypes
<1> QED
  BY <1>3, <1>4, <1>5, <1>6, <1>7

LEMMA ReceiveStep ==
    ASSUME ReqIInv, NEW r \in Ids \cup {Stranger}, ReceiveReply(r)
    PROVE  ReqIInv'
<1> USE DEF ReqIInv, ReceiveReply, rrchoice, Add
<1>1. /\ UNCHANGED <<rrkind, rrfaults, dups, tries, executed, qcall, retries, requests>>
      /\ Limit' = Limit /\ Limit \in Nat \ {0}
      /\ qcall \in Ids /\ qpc = "wait" /\ replies[r] > 0 /\ returned[qcall] = 0
  BY MaxRetriesAssumption DEF Limit, TriesAgree
<1>2. /\ replies' \in [Ids \cup {Stranger} -> Nat]
      /\ replies'[r] = replies[r] - 1
      /\ \A k \in Ids \ {r} : replies'[k] = replies[k]
  BY <1>1 DEF ReqTypes, Ids
<1>3. CASE UNCHANGED <<qpc, returned>>
  <2>1. ReqTypes' /\ TriesAgree' /\ TriedAll'
    BY <1>1, <1>2, <1>3 DEF ReqTypes, TriesAgree, TriedAll, Ended
  <2>2. Caused'
    BY <1>1, <1>2, <1>3 DEF ReqTypes, Caused
  <2>3. CopiesCounted'
    BY <1>1, <1>2, <1>3 DEF ReqTypes, CopiesCounted, Single, OneCopy
  <2> QED
    BY <2>1, <2>2, <2>3
<1>4. CASE r # Stranger /\ qpc' = "idle" /\ returned' = [returned EXCEPT ![qcall] = r]
  <2>1. /\ r \in Ids /\ r # 0
        /\ returned' \in [Ids -> Ids \cup {0}] /\ returned'[qcall] = r
        /\ \A k \in Ids \ {qcall} : returned'[k] = returned[k]
    BY <1>1, <1>4 DEF ReqTypes, Ids
  <2>2. executed[r] > 0 /\ tries[r] > 0 /\ r <= qcall
    BY <1>1, <2>1 DEF Caused, TriesAgree, ReqTypes, Ids
  <2>3. ReqTypes'
    BY <1>1, <1>2, <1>4, <2>1 DEF ReqTypes
  <2>4. TriesAgree'
    BY <1>1, <1>4, <2>1 DEF ReqTypes, TriesAgree, Ids
  <2>5. Caused'
    <3>1. \A k \in Ids : replies'[k] > 0 => replies[k] > 0
      BY <1>1, <1>2 DEF ReqTypes
    <3> QED
      BY <1>1, <2>1, <2>2, <3>1 DEF Caused
  <2>6. CopiesCounted'
    <3> SUFFICES ASSUME NEW k \in Ids, Single(k)' PROVE OneCopy(k)'
      BY DEF CopiesCounted
    <3>0. OneCopy(k)
      BY <1>1 DEF CopiesCounted, Single
    <3>1. CASE k # r
      <4>1. replies'[k] = replies[k] /\ \A j \in Ids : returned'[j] = k => returned[j] = k
        BY <1>2, <2>1, <3>1
      <4> QED
        BY <1>1, <3>0, <4>1 DEF OneCopy
    <3>2. CASE k = r
      <4>1. \A j \in Ids : returned[j] # r
        BY <1>1, <3>0, <3>2 DEF OneCopy
      <4>2. \A j \in Ids : returned'[j] = r <=> j = qcall
        BY <2>1, <4>1
      <4>3. requests[r] + replies[r] <= tries[r] /\ tries[r] <= 1
        BY <1>1, <3>0, <3>2 DEF OneCopy, Single
      <4>4. requests'[r] = 0 /\ replies'[r] = 0
        BY <1>1, <1>2, <2>1, <4>3 DEF ReqTypes
      <4> QED
        BY <1>1, <2>1, <2>2, <3>2, <4>2, <4>4 DEF OneCopy, ReqTypes
    <3> QED
      BY <3>1, <3>2
  <2>7. TriedAll'
    BY <1>1, <1>4, <2>1 DEF TriedAll, Ended, ReqTypes, Ids
  <2> QED
    BY <2>3, <2>4, <2>5, <2>6, <2>7
<1> QED
  BY <1>3, <1>4

\* The server and the network leave the client alone.
LEMMA NetStep ==
    ASSUME ReqIInv, Lose \/ Stray \/ \E k \in Ids : Serve(k) \/ Duplicate(k)
    PROVE  ReqIInv'
<1> USE DEF ReqIInv
<1>1. UNCHANGED <<rrkind, rrfaults, qpc, qcall, retries, returned, tries>> /\ Limit' = Limit
  BY DEF Lose, Stray, Serve, Duplicate, rrchoice, rrclient, Limit
<1>2. TriesAgree' /\ TriedAll'
  BY <1>1 DEF TriesAgree, TriedAll, Ended
<1>3. SUFFICES ReqTypes' /\ Caused' /\ CopiesCounted'
  BY <1>2
<1>4. CASE Stray
  <2>1. /\ UNCHANGED <<requests, dups, executed>> /\ replies' \in [Ids \cup {Stranger} -> Nat]
        /\ \A k \in Ids : replies'[k] = replies[k]
    BY <1>4, MaxCallsAssumption DEF Stray, Add, ReqTypes, Ids, Stranger
  <2> QED
    BY <1>1, <2>1 DEF ReqTypes, Caused, CopiesCounted, Single, OneCopy
<1>5. ASSUME NEW k \in Ids, LoseRequest(k) \/ LoseReply(k), UNCHANGED <<dups, executed>>
      PROVE  ReqTypes' /\ Caused' /\ CopiesCounted'
  <2>1. /\ requests' \in [Ids -> Nat] /\ replies' \in [Ids \cup {Stranger} -> Nat]
        /\ \A j \in Ids : requests'[j] <= requests[j] /\ replies'[j] <= replies[j]
    BY <1>5 DEF LoseRequest, LoseReply, Add, ReqTypes
  <2>2. Caused'
    BY <1>1, <1>5, <2>1 DEF ReqTypes, Caused
  <2>3. CopiesCounted'
    BY <1>1, <1>5, <2>1 DEF ReqTypes, CopiesCounted, Single, OneCopy
  <2> QED
    BY <1>1, <1>5, <2>1, <2>2, <2>3 DEF ReqTypes
<1>6. ASSUME NEW k \in Ids, Serve(k) PROVE ReqTypes' /\ Caused' /\ CopiesCounted'
  <2>1. /\ requests' \in [Ids -> Nat] /\ replies' \in [Ids \cup {Stranger} -> Nat]
        /\ executed' \in [Ids -> Nat] /\ UNCHANGED dups
        /\ executed'[k] = executed[k] + 1 /\ requests[k] > 0 /\ requests'[k] = requests[k] - 1
        /\ replies'[k] <= replies[k] + 1
        /\ \A j \in Ids \ {k} : /\ requests'[j] = requests[j] /\ replies'[j] = replies[j]
                                /\ executed'[j] = executed[j]
    BY <1>6 DEF Serve, Add, ReqTypes
  <2>2. Caused'
    <3>1. \A j \in Ids : executed'[j] >= executed[j]
      BY <2>1 DEF ReqTypes
    <3> QED
      BY <1>1, <2>1, <3>1 DEF ReqTypes, Caused
  <2>3. CopiesCounted'
    BY <1>1, <2>1 DEF ReqTypes, CopiesCounted, Single, OneCopy
  <2> QED
    BY <1>1, <2>1, <2>2, <2>3 DEF ReqTypes
<1>7. ASSUME NEW k \in Ids, Duplicate(k) PROVE ReqTypes' /\ Caused' /\ CopiesCounted'
  <2>1. /\ requests' \in [Ids -> Nat] /\ replies' \in [Ids \cup {Stranger} -> Nat]
        /\ dups' \in Nat \ {0} /\ UNCHANGED executed
        /\ \A j \in Ids : /\ requests'[j] > 0 => requests[j] > 0
                          /\ replies'[j] > 0 => replies[j] > 0
    BY <1>7 DEF Duplicate, Add, ReqTypes
  <2> QED
    BY <1>1, <2>1 DEF ReqTypes, Caused, CopiesCounted, Single
<1> QED
  BY <1>4, <1>5, <1>6, <1>7 DEF Lose

LEMMA ReqNextIInv == ReqIInv /\ [ReqNext]_rrvars => ReqIInv'
<1> SUFFICES ASSUME ReqIInv, [ReqNext]_rrvars PROVE ReqIInv'
  OBVIOUS
<1>1. CASE UNCHANGED rrvars
  BY <1>1 DEF rrvars, rrchoice, rrclient, rrnet, ReqIInv, ReqTypes, TriesAgree, Caused,
              CopiesCounted, Single, OneCopy, TriedAll, Ended, Limit
<1>2. CASE RequesterStep
  BY <1>2, ClientStep, SendStep, ReceiveStep DEF RequesterStep
<1> QED
  BY <1>1, <1>2, ClientStep, NetStep DEF ReqNext

\* However requests and replies are lost and doubled, an answer is caused by a
\* request, and a request sent once is in one place.
THEOREM ReqInvariant == ReqSpec => []ReqIInv
BY ReqInitIInv, ReqNextIInv, PTL DEF ReqSpec

\* request of the three UDP clients (chapter20) returns the answer to a call that was
\* made, on a network that duplicates nothing to one call only, and gives up after
\* all its tries, for any number of calls, tries, strays and duplicates.
THEOREM ReqAnswersMatch == ReqSpec => []AnswersMatch
<1>1. ReqIInv => AnswersMatch
  <2> SUFFICES ASSUME ReqIInv, NEW k \in Ids
               PROVE  /\ returned[k] # 0 =>
                           /\ returned[k] <= k /\ executed[returned[k]] > 0
                           /\ returned[k] # k => \/ dups > 0
                                                 \/ tries[returned[k]] > 1
                                                 \/ returned[returned[k]] # returned[k]
                      /\ tries[k] <= Limit
                      /\ Ended(k) /\ returned[k] = 0 /\ rrfaults = {} =>
                           rrkind # "wait" /\ tries[k] = Limit
    BY DEF AnswersMatch, Limit
  <2>1. tries[k] <= Limit /\ (Ended(k) /\ returned[k] = 0 /\ rrfaults = {} =>
                                  rrkind # "wait" /\ tries[k] = Limit)
    BY DEF ReqIInv, TriesAgree, TriedAll
  <2>2. ASSUME returned[k] # 0
        PROVE  /\ returned[k] <= k /\ executed[returned[k]] > 0
               /\ returned[k] # k => \/ dups > 0
                                     \/ tries[returned[k]] > 1
                                     \/ returned[returned[k]] # returned[k]
    <3>1. returned[k] \in Ids /\ dups \in Nat /\ tries[returned[k]] \in Nat
      BY <2>2 DEF ReqIInv, ReqTypes
    <3>2. Single(returned[k]) => \A i \in Ids : returned[i] = returned[k] => i = k
      BY <3>1 DEF ReqIInv, CopiesCounted, OneCopy
    <3> QED
      BY <2>2, <3>1, <3>2 DEF ReqIInv, Caused, Single
  <2> QED
    BY <2>1, <2>2
<1> QED
  BY <1>1, ReqInvariant, PTL

-----------------------------------------------------------------------------
(* Monitors.                                                               *)

MonTypes ==
    /\ monkind \in {"select", "poll", "copy2", "which", "work"}
    /\ Load \in [Fds -> Nat] /\ left \in [Fds -> Nat]
    /\ avail \in [Fds -> Nat] /\ taken \in [Fds -> Nat]
    /\ closed \in [Fds -> BOOLEAN] /\ watch \in [Fds -> BOOLEAN]
    /\ mpc \in {"wait", "scan", "done"}
    /\ numnow \in Int /\ numready \in Int /\ mi \in Nat
    /\ readset \in SUBSET Fds /\ hung \in SUBSET readset

\* No byte is lost, and what has ended stays ended.
Conserved ==
    \A d \in Fds : /\ taken[d] + avail[d] + left[d] = Load[d]
                   /\ closed[d] => left[d] = 0

AtEnd(d) == avail[d] = 0 /\ closed[d]

\* Without an error a descriptor is given up at its end only; copy2files and
\* whichisreadytest give up none before they end, and read what is set.
GivenUp ==
    /\ monfaults = {} /\ mpc # "done" => \A d \in Fds : watch[d] \/ AtEnd(d)
    /\ \A d \in hung : AtEnd(d)
    /\ TakesOne => hung = {} /\ \A d \in Fds : watch[d]
    /\ Nonblocking => mpc # "wait"

Watched == {d \in Fds : watch[d]}
ToDo == {d \in readset : d >= mi}

CountersAgree ==
    /\ mpc # "done" => numnow = Cardinality(Watched)
    /\ mpc = "scan" /\ ~Nonblocking =>
           /\ ~TakesOne => numready >= Cardinality(ToDo)
           /\ \A d \in ToDo : watch[d] /\ Readable(d)

AllTaken ==
    mpc = "done" /\ monfaults = {} =>
        IF TakesOne THEN \E d \in Fds : taken[d] = Load[d] ELSE taken = Load

MonIInv == MonTypes /\ Conserved /\ GivenUp /\ CountersAgree /\ AllTaken

\* There is a descriptor, and there are NumFds of them.
LEMMA FdsFinite ==
    /\ IsFiniteSet(Fds) /\ Fds # {} /\ Cardinality(Fds) = NumFds
<1>1. 1 <= NumFds /\ 1 \in Int /\ NumFds \in Int /\ 1 \in 1..NumFds
  BY NumFdsAssumption
<1>2. IsFiniteSet(1..NumFds) /\ Cardinality(1..NumFds) = IF 1 > NumFds THEN 0 ELSE NumFds - 1 + 1
  BY <1>1, FS_Interval
<1> QED
  BY <1>1, <1>2 DEF Fds

\* One element less.
LEMMA OneLess ==
    ASSUME NEW S \in SUBSET Fds, NEW d \in S
    PROVE  Cardinality(S \ {d}) = Cardinality(S) - 1 /\ Cardinality(S) \in Nat
BY FdsFinite, FS_Subset, FS_RemoveElement, FS_CardinalityType

LEMMA MonInitIInv == MonInit => MonIInv
<1> SUFFICES ASSUME MonInit PROVE MonIInv
  OBVIOUS
<1> USE DEF MonInit
<1>1. MonTypes
  BY NumFdsAssumption, LoadsAssumption, MonKindsAssumption DEF MonTypes
<1>2. Watched = Fds
  BY DEF Watched
<1>3. Conserved
  BY <1>1 DEF Conserved, MonTypes
<1>4. GivenUp
  BY DEF GivenUp, Nonblocking
<1>5. CountersAgree
  BY <1>2, FdsFinite DEF CountersAgree, Nonblocking
<1>6. AllTaken
  BY DEF AllTaken
<1> QED
  BY <1>1, <1>3, <1>4, <1>5, <1>6 DEF MonIInv

\* What a writer does makes no read block.
LEMMA WriterKeeps ==
    ASSUME MonIInv, NEW d \in Fds, WriterStep(d)
    PROVE  MonIInv'
<1> USE DEF MonIInv, WriterStep, Writes, Closes, monchoice
<1>1. /\ UNCHANGED <<monkind, Load, monfaults, mpc, watch, numnow, numready, mi, readset, hung, taken>>
      /\ left' \in [Fds -> Nat] /\ avail' \in [Fds -> Nat] /\ closed' \in [Fds -> BOOLEAN]
      /\ \A e \in Fds : /\ avail'[e] + left'[e] = avail[e] + left[e]
                        /\ closed'[e] => left'[e] = 0
                        /\ AtEnd(e) => AtEnd(e)'
                        /\ Readable(e) => Readable(e)'
  <2>1. CASE Closes(d)
    BY <2>1 DEF MonTypes, Conserved, AtEnd, Readable
  <2>2. CASE Writes(d)
    <3>1. PICK n \in 1..left[d] : /\ left' = [left EXCEPT ![d] = @ - n]
                                  /\ avail' = [avail EXCEPT ![d] = @ + n]
      BY <2>2
    <3>2. left[d] > 0 /\ ~closed[d]
      BY <2>2 DEF Conserved, MonTypes
    <3> QED
      BY <2>2, <3>1, <3>2 DEF MonTypes, Conserved, AtEnd, Readable
  <2> QED
    BY <2>1, <2>2
<1>2. MonTypes'
  BY <1>1 DEF MonTypes
<1>3. Conserved'
  BY <1>1 DEF MonTypes, Conserved
<1>4. GivenUp'
  BY <1>1 DEF MonTypes, GivenUp, TakesOne, Nonblocking
<1>5. CountersAgree'
  <2>1. ToDo' = ToDo /\ Watched' = Watched /\ ToDo \subseteq Fds
    BY <1>1 DEF ToDo, Watched, MonTypes
  <2> QED
    BY <1>1, <2>1 DEF CountersAgree, TakesOne, Nonblocking
<1>6. AllTaken'
  BY <1>1 DEF AllTaken, TakesOne
<1> QED
  BY <1>2, <1>3, <1>4, <1>5, <1>6

\* The steps that take or give up nothing.
LEMMA LoopKeeps ==
    ASSUME MonIInv, Wait \/ Scanned \/ WorkFails \/ \E d \in Fds : NothingToRead(d) \/ Skip(d)
    PROVE  MonIInv'
<1> USE DEF MonIInv, Wait, Scanned, WorkFails, NothingToRead, Skip, monchoice
<1>1. /\ UNCHANGED <<monkind, Load, monfaults, left, avail, closed, watch, numnow, taken>>
      /\ Watched' = Watched
      /\ \A e \in Fds : (AtEnd(e)' <=> AtEnd(e)) /\ (Readable(e)' <=> Readable(e))
      /\ Conserved'
  BY DEF Watched, AtEnd, Readable, Conserved
<1>2. CASE Wait
  <2>1. /\ mpc = "wait" /\ mpc' = "scan" /\ mi' = 1 /\ numready' = Cardinality(readset')
        /\ readset' \subseteq {e \in Fds : watch[e] /\ Readable(e)}
        /\ hung' \subseteq {e \in readset' : avail[e] = 0}
        /\ monkind # "poll" => hung' = {}
    BY <1>2
  <2>2. MonTypes'
    <3>1. numready' \in Nat
      BY <2>1, FdsFinite, FS_Subset, FS_CardinalityType
    <3> QED
      BY <1>1, <2>1, <3>1 DEF MonTypes
  <2>3. GivenUp'
    BY <1>1, <2>1 DEF GivenUp, MonTypes, AtEnd, Readable, TakesOne, Nonblocking
  <2>4. ToDo' = readset'
    BY <2>1 DEF ToDo, Fds
  <2>5. CountersAgree'
    <3>1. Cardinality(readset') \in Nat
      BY <2>1, FdsFinite, FS_Subset, FS_CardinalityType
    <3> QED
      BY <1>1, <2>1, <2>4, <3>1 DEF CountersAgree, TakesOne, Nonblocking
  <2> QED
    BY <1>1, <2>1, <2>2, <2>3, <2>5 DEF AllTaken
<1>3. CASE Scanned \/ WorkFails \/ \E d \in Fds : NothingToRead(d)
  <2>1. /\ UNCHANGED <<readset, hung, numready>> /\ mi' \in Nat
        /\ \/ mpc' = "wait" /\ mpc = "scan" /\ ~Nonblocking
           \/ mpc' = "done" /\ "error" \in monfaults
           \/ mpc' = "scan" /\ Nonblocking /\ mpc = "scan"
    BY <1>3 DEF MonTypes, Fds
  <2>2. MonTypes'
    BY <1>1, <2>1 DEF MonTypes
  <2>3. GivenUp'
    BY <1>1, <2>1 DEF GivenUp, MonTypes, TakesOne, Nonblocking
  <2>4. CountersAgree'
    BY <1>1, <2>1 DEF CountersAgree, TakesOne, Nonblocking
  <2>5. AllTaken'
    BY <1>1, <2>1 DEF AllTaken, TakesOne
  <2> QED
    BY <1>1, <2>2, <2>3, <2>4, <2>5
<1>4. ASSUME NEW d \in Fds, Skip(d) PROVE MonIInv'
  <2>1. /\ UNCHANGED <<readset, hung, numready, mpc>> /\ mpc = "scan" /\ ~Nonblocking
        /\ mi = d /\ mi' = d + 1 /\ d \notin readset
    BY <1>4 DEF AtDescriptor
  <2>2. ToDo' = ToDo
    <3>0. d \in Int /\ readset \subseteq Int
      BY NumFdsAssumption DEF MonTypes, Fds
    <3>1. \A e \in readset : e >= mi' <=> e >= mi
      <4> SUFFICES ASSUME NEW e \in readset PROVE e >= mi' <=> e >= mi
        OBVIOUS
      <4>1. e \in Int /\ e # d
        BY <2>1, <3>0
      <4> QED
        BY <2>1, <3>0, <4>1
    <3> QED
      BY <2>1, <3>1 DEF ToDo
  <2>3. MonTypes'
    BY <1>1, <2>1 DEF MonTypes, Fds
  <2>4. GivenUp'
    BY <1>1, <2>1 DEF GivenUp, MonTypes, TakesOne, Nonblocking
  <2>5. CountersAgree'
    BY <1>1, <2>1, <2>2 DEF CountersAgree, TakesOne, Nonblocking, ToDo, MonTypes
  <2> QED
    BY <1>1, <2>1, <2>3, <2>4, <2>5 DEF AllTaken
<1> QED
  BY <1>2, <1>3, <1>4

\* What is read from d is there, and the turn goes on to the next descriptor.
LEMMA ReadKeeps ==
    ASSUME MonIInv, NEW d \in Fds, ReadData(d) \/ WorkReads(d)
    PROVE  MonIInv'
<1> USE DEF MonIInv, ReadData, WorkReads, monchoice
<1>1. PICK n \in 1..ReadSize : /\ n <= avail[d]
                               /\ avail' = [avail EXCEPT ![d] = @ - n]
                               /\ taken' = [taken EXCEPT ![d] = @ + n]
  OBVIOUS
<1>2. n \in Nat \ {0}
  BY ReadSizeAssumption
<1>3. /\ UNCHANGED <<monkind, Load, monfaults, left, closed, mpc, watch, numnow, readset, hung>>
      /\ mpc = "scan" /\ mi = d /\ mi' \in Nat
      /\ Nonblocking \/ (mi' > d /\ d \in readset /\ numready' = numready - 1)
      /\ numready' \in Int
      /\ Watched' = Watched
  <2>1. d \in Nat /\ NumFds \in Nat /\ d <= NumFds /\ numready \in Int
    BY NumFdsAssumption DEF MonTypes, Fds
  <2>2. CASE ReadData(d)
    BY <2>1, <2>2 DEF AtDescriptor, Watched
  <2>3. CASE WorkReads(d)
    BY <2>1, <2>3 DEF Watched
  <2> QED
    BY <2>2, <2>3
<1>4. /\ avail' \in [Fds -> Nat] /\ taken' \in [Fds -> Nat]
      /\ \A e \in Fds : /\ taken'[e] + avail'[e] = taken[e] + avail[e]
                        /\ AtEnd(e) => AtEnd(e)'
                        /\ e # d /\ Readable(e) => Readable(e)'
  BY <1>1, <1>2, <1>3 DEF MonTypes, AtEnd, Readable
<1>5. MonTypes' /\ Conserved'
  BY <1>3, <1>4 DEF MonTypes, Conserved
<1>6. GivenUp' /\ AllTaken'
  BY <1>3, <1>4 DEF MonTypes, GivenUp, AllTaken, TakesOne, Nonblocking
<1>7. CountersAgree'
  <2>1. CASE Nonblocking
    BY <1>3, <2>1 DEF CountersAgree, Nonblocking
  <2>2. CASE ~Nonblocking
    <3>1. d \in ToDo /\ ToDo \in SUBSET Fds /\ ToDo' \subseteq ToDo \ {d}
      <4>1. d >= mi /\ ~ (d >= mi') /\ readset' = readset /\ d \in readset /\ readset \in SUBSET Fds
        BY <1>3, <2>2, NumFdsAssumption DEF MonTypes, Fds
      <4>2. \A e \in readset : e >= mi' => e >= mi
        BY <1>3, <2>2, NumFdsAssumption DEF MonTypes, Fds
      <4> QED
        BY <4>1, <4>2 DEF ToDo
    <3>2. Cardinality(ToDo') <= Cardinality(ToDo \ {d}) /\ Cardinality(ToDo') \in Nat
      BY <3>1, FdsFinite, FS_Subset, FS_CardinalityType
    <3>3. Cardinality(ToDo \ {d}) = Cardinality(ToDo) - 1 /\ Cardinality(ToDo) \in Nat
      BY <3>1, OneLess
    <3>4. ~TakesOne' => numready' >= Cardinality(ToDo')
      BY <1>3, <2>2, <3>2, <3>3 DEF CountersAgree, MonTypes, TakesOne, Nonblocking
    <3>5. \A e \in ToDo' : watch'[e] /\ Readable(e)'
      BY <1>3, <1>4, <2>2, <3>1 DEF CountersAgree
    <3> QED
      BY <1>3, <3>4, <3>5 DEF CountersAgree
  <2> QED
    BY <2>1, <2>2
<1> QED
  BY <1>5, <1>6, <1>7

\* A descriptor that is given up has ended, or there was an error.
LEMMA EndKeeps ==
    ASSUME MonIInv, NEW d \in Fds, ReadEnds(d) \/ HungUp(d)
    PROVE  MonIInv'
<1> USE DEF MonIInv, ReadEnds, HungUp, monchoice
<1>1. /\ UNCHANGED <<monkind, Load, monfaults, left, avail, closed, readset, hung, taken>>
      /\ mpc = "scan" /\ mi = d /\ mi' \in Nat /\ mi' > d /\ d \in readset /\ ~Nonblocking
      /\ numready' \in {numready, numready - 1}
      /\ GiveUp(d)
      /\ monfaults = {} => AtEnd(d)
      /\ \A e \in Fds : (AtEnd(e)' <=> AtEnd(e)) /\ (Readable(e)' <=> Readable(e))
      /\ TakesOne' = TakesOne /\ Nonblocking' = Nonblocking
  <2>1. hung \subseteq readset /\ \A e \in hung : AtEnd(e)
    BY DEF MonTypes, GivenUp
  <2>2. d \in Nat /\ NumFds \in Nat /\ d <= NumFds
    BY NumFdsAssumption DEF Fds
  <2>3. \A e \in Fds : (AtEnd(e)' <=> AtEnd(e)) /\ (Readable(e)' <=> Readable(e))
    BY DEF AtEnd, Readable
  <2>4. TakesOne' = TakesOne /\ Nonblocking' = Nonblocking
    BY DEF TakesOne, Nonblocking
  <2>5. monfaults = {} => AtEnd(d)
    BY <2>1 DEF AtEnd
  <2>6. GiveUp(d) /\ AtDescriptor(d) /\ d \in readset /\ numready' \in {numready, numready - 1}
    BY <2>1
  <2> QED
    BY <2>2, <2>3, <2>4, <2>5, <2>6 DEF AtDescriptor
<1>2. Conserved'
  BY <1>1 DEF Conserved
<1>3. CASE TakesOne
  <2>1. mpc' = "done" /\ UNCHANGED <<watch, numnow>>
    BY <1>1, <1>3 DEF GiveUp
  <2>2. MonTypes' /\ GivenUp' /\ CountersAgree'
    BY <1>1, <2>1 DEF MonTypes, GivenUp, CountersAgree
  <2>3. AllTaken'
    BY <1>1, <1>3, <2>1 DEF AllTaken, AtEnd, Conserved, MonTypes
  <2> QED
    BY <1>2, <2>2, <2>3
<1>4. CASE ~TakesOne
  <2>1. mpc' = mpc /\ watch' = [watch EXCEPT ![d] = FALSE] /\ numnow' = numnow - 1
    BY <1>1, <1>4 DEF GiveUp
  <2>2. MonTypes'
    BY <1>1, <2>1 DEF MonTypes
  <2>3. GivenUp'
    BY <1>1, <1>4, <2>1 DEF GivenUp, MonTypes
  <2>4. d \in ToDo /\ ToDo \in SUBSET Fds /\ ToDo' \subseteq ToDo \ {d}
    <3>1. d >= mi /\ ~ (d >= mi') /\ readset' = readset /\ d \in readset /\ readset \in SUBSET Fds
      BY <1>1, NumFdsAssumption DEF MonTypes, Fds
    <3>2. \A e \in readset : e >= mi' => e >= mi
      BY <1>1, NumFdsAssumption DEF MonTypes, Fds
    <3> QED
      BY <3>1, <3>2 DEF ToDo
  <2>5. d \in Watched /\ Watched \in SUBSET Fds /\ Watched' = Watched \ {d}
    BY <1>1, <2>1, <2>4 DEF CountersAgree, Watched, MonTypes
  <2>6. numnow' = Cardinality(Watched')
    BY <1>1, <2>1, <2>5, OneLess DEF CountersAgree
  <2>7. numready' >= Cardinality(ToDo')
    <3>1. Cardinality(ToDo') <= Cardinality(ToDo \ {d}) /\ Cardinality(ToDo') \in Nat
      BY <2>4, FdsFinite, FS_Subset, FS_CardinalityType
    <3>2. Cardinality(ToDo \ {d}) = Cardinality(ToDo) - 1 /\ Cardinality(ToDo) \in Nat
      BY <2>4, OneLess
    <3> QED
      BY <1>1, <1>4, <3>1, <3>2 DEF CountersAgree, MonTypes
  <2>8. CountersAgree'
    BY <1>1, <2>1, <2>4, <2>6, <2>7 DEF CountersAgree, MonTypes
  <2> QED
    BY <1>1, <1>2, <2>1, <2>2, <2>3, <2>8 DEF AllTaken
<1> QED
  BY <1>3, <1>4

LEMMA LeaveKeeps == MonIInv /\ Leave => MonIInv'
<1> SUFFICES ASSUME MonIInv, Leave PROVE MonIInv'
  OBVIOUS
<1> USE DEF MonIInv, Leave, monchoice
<1>1. /\ UNCHANGED <<monkind, Load, monfaults, left, avail, closed, numnow, numready, mi, readset, hung, taken>>
      /\ mpc = "wait" /\ mpc' = "done" /\ watch' \in [Fds -> BOOLEAN]
      /\ TakesOne => watch' = watch
  BY DEF MonTypes
<1>2. MonTypes' /\ Conserved'
  BY <1>1 DEF MonTypes, Conserved
<1>3. GivenUp' /\ CountersAgree'
  BY <1>1 DEF GivenUp, CountersAgree, MonTypes, TakesOne, Nonblocking, AtEnd
<1>4. AllTaken'
  <2> SUFFICES ASSUME monfaults = {}
               PROVE  ~TakesOne /\ taken = Load
    BY <1>1 DEF AllTaken, TakesOne
  <2>1. Cardinality(Watched) = 0
    BY <1>1 DEF CountersAgree
  <2>2. Watched = {}
    BY <2>1, FdsFinite, FS_Subset, FS_EmptySet DEF Watched
  <2>3. ~TakesOne
    BY <2>2, FdsFinite DEF Watched, GivenUp
  <2>4. \A e \in Fds : taken[e] = Load[e]
    BY <1>1, <2>2 DEF Watched, GivenUp, Conserved, AtEnd, MonTypes
  <2> QED
    BY <2>3, <2>4 DEF MonTypes
<1> QED
  BY <1>2, <1>3, <1>4

LEMMA MonNextIInv == MonIInv /\ [MonNext]_monvars => MonIInv'
<1> SUFFICES ASSUME MonIInv, [MonNext]_monvars PROVE MonIInv'
  OBVIOUS
<1>1. CASE UNCHANGED monvars
  BY <1>1 DEF monvars, monchoice, MonIInv, MonTypes, Conserved, GivenUp, CountersAgree, AllTaken,
              Watched, ToDo, TakesOne, Nonblocking, AtEnd, Readable
<1> QED
  BY <1>1, WriterKeeps, LoopKeeps, ReadKeeps, EndKeeps, LeaveKeeps DEF MonNext, MonStep

\* The counters of the monitors (chapter04) agree with the descriptors they have
\* counted, and no byte is lost, whatever the writers and the kernel do.
THEOREM MonInvariant == MonSpec => []MonIInv
BY MonInitIInv, MonNextIInv, PTL DEF MonSpec

\* monitorselect, monitorpoll, copy2files and whichisreadytest end with everything
\* read and not before, and read only where they need not wait, for any number of
\* descriptors and any amount of data.
THEOREM MonMonitorAgrees == MonSpec => []MonitorAgrees
<1>1. MonIInv => MonitorAgrees
  BY DEF MonIInv, CountersAgree, AllTaken, MonitorAgrees, Watched, ToDo
<1> QED
  BY <1>1, MonInvariant, PTL
-----------------------------------------------------------------------------
(* Uici: the servers.                                                      *)

Distinct(q) == \A i, j \in 1..Len(q) : q[i] = q[j] => i = j

\* A queue without its head, and with one more at its end.
LEMMA QueueTail ==
    ASSUME NEW S, NEW q \in Seq(S), q # << >>, Distinct(q)
    PROVE  /\ Head(q) \in S /\ Head(q) \in Range(q)
           /\ Tail(q) \in Seq(S) /\ Distinct(Tail(q))
           /\ Range(Tail(q)) = Range(q) \ {Head(q)}
<1> DEFINE n == Len(q)
           t == Tail(q)
<1>1. /\ n \in Nat \ {0} /\ q \in [1..n -> S] /\ Head(q) = q[1]
      /\ t \in Seq(S) /\ Len(t) = n - 1 /\ \A i \in 1..(n - 1) : t[i] = q[i + 1]
  OBVIOUS
<1>2. DOMAIN q = 1..n /\ DOMAIN t = 1..(n - 1)
  BY <1>1
<1>3. Distinct(t)
  <2>1. ASSUME NEW i \in 1..(n - 1), NEW j \in 1..(n - 1), t[i] = t[j]
        PROVE  i = j
    <3>1. q[i + 1] = q[j + 1] /\ i + 1 \in 1..n /\ j + 1 \in 1..n
      BY <1>1, <2>1
    <3> QED
      BY <3>1 DEF Distinct
  <2> QED
    BY <1>1, <2>1 DEF Distinct
<1>4. ASSUME NEW x \in Range(t)
      PROVE  x \in Range(q) \ {Head(q)}
  <2>1. PICK i \in 1..(n - 1) : x = t[i]
    BY <1>2 DEF Range
  <2>2. i + 1 \in 1..n /\ x = q[i + 1] /\ i + 1 # 1 /\ 1 \in 1..n
    BY <1>1, <2>1
  <2>3. x # q[1]
    BY <2>2 DEF Distinct
  <2> QED
    BY <1>1, <1>2, <2>2, <2>3 DEF Range
<1>5. ASSUME NEW x \in Range(q), x # Head(q)
      PROVE  x \in Range(t)
  <2>1. PICK i \in 1..n : x = q[i]
    BY <1>2 DEF Range
  <2>2. i # 1
    BY <1>1, <1>5, <2>1
  <2>3. i - 1 \in 1..(n - 1) /\ t[i - 1] = q[i]
    <3>1. i - 1 \in 1..(n - 1)
      BY <1>1, <2>2
    <3>2. t[i - 1] = q[(i - 1) + 1]
      BY <1>1, <3>1
    <3> QED
      BY <1>1, <3>1, <3>2
  <2> QED
    BY <1>2, <2>1, <2>3 DEF Range
<1>6. Head(q) \in Range(q)
  BY <1>1, <1>2 DEF Range
<1> QED
  BY <1>1, <1>3, <1>4, <1>5, <1>6

LEMMA QueueAppend ==
    ASSUME NEW S, NEW q \in Seq(S), NEW x \in S, Distinct(q), x \notin Range(q)
    PROVE  /\ Append(q, x) \in Seq(S) /\ Distinct(Append(q, x))
           /\ Range(Append(q, x)) = Range(q) \cup {x}
<1> DEFINE n == Len(q)
           a == Append(q, x)
<1>1. /\ n \in Nat /\ q \in [1..n -> S]
      /\ a \in Seq(S) /\ Len(a) = n + 1 /\ a[n + 1] = x /\ \A i \in 1..n : a[i] = q[i]
  OBVIOUS
<1>2. DOMAIN q = 1..n /\ DOMAIN a = 1..(n + 1)
  BY <1>1
<1>3. \A i \in 1..n : q[i] # x
  BY <1>2 DEF Range
<1> HIDE DEF n, a
<1>4. \A i \in 1..(n + 1) : i = n + 1 \/ i \in 1..n
  BY <1>1
<1>5. Distinct(a)
  <2>1. \A i, j \in 1..n : q[i] = q[j] => i = j
    BY DEF Distinct, n
  <2> QED
    BY <1>1, <1>3, <1>4, <2>1 DEF Distinct
<1>6. n + 1 \in 1..(n + 1) /\ 1..n \subseteq 1..(n + 1)
  BY <1>1
<1>7. Range(a) = {a[i] : i \in 1..(n + 1)} /\ Range(q) = {q[i] : i \in 1..n}
  BY <1>2 DEF Range
<1>8. Range(a) = Range(q) \cup {x}
  BY <1>1, <1>4, <1>6, <1>7
<1> QED
  BY <1>1, <1>5, <1>8 DEF a

UicTypes ==
    /\ ukind \in {"server", "serverp"}
    /\ upc \in {"start", "accept", "copy", "fork", "close", "reap", "exit"}
    /\ communfd \in Clients \cup {NoClient}
    /\ backlog \in Seq(Clients)
    /\ client \in [Clients -> {"start", "connecting", "select", "connected", "closed", "failed"}]
    /\ link \in [Clients -> {"none", "pending", "up", "refused"}]
    /\ holders \in [Clients -> SUBSET {"server", "child"}]
    /\ child \in [Clients -> {"none", "run", "zombie", "reaped"}]
    /\ sent \in [Clients -> Nat] /\ got \in [Clients -> Nat]
    /\ async \in [Clients -> BOOLEAN]

\* communfd is the one connection the server has open, from accept to close.
ServerPlace ==
    /\ upc \in {"copy", "fork", "close"} <=> communfd # NoClient
    /\ upc = "copy" => ukind = "server"
    /\ upc \in {"fork", "reap"} => ukind = "serverp"
    /\ \A c \in Clients : "server" \in holders[c] <=> communfd = c

\* A connection has a child only from fork on.
ChildPlace ==
    /\ \A c \in Clients : child[c] = "run" <=> "child" \in holders[c]
    /\ upc \in {"copy", "fork"} => child[communfd] = "none"

\* What waits to be accepted is a connection nobody had before, and what is not
\* made nobody has.
Fresh(c) == holders[c] = {} /\ child[c] = "none"
Waiting ==
    /\ Distinct(backlog)
    /\ \A c \in Range(backlog) : link[c] = "up" /\ Fresh(c)
    /\ \A c \in Clients : link[c] # "up" => Fresh(c)

\* u_connect.
Connecting ==
    \A c \in Clients :
        /\ client[c] = "start" => link[c] = "none"
        /\ client[c] = "select" => async[c]
        /\ client[c] = "connected" /\ ~async[c] => link[c] = "up"

\* The client has ended and all it sent is read.
Over(c) == client[c] = "closed" /\ got[c] = sent[c]

\* Without a fault only a connection that is over is given up: by the child that
\* ends, by server when it closes and, once there is a child, by serverp.
GivenUpLate ==
    ufaults = {} =>
        /\ \A c \in Clients : child[c] \in {"zombie", "reaped"} => Over(c)
        /\ upc = "close" => (IF ukind = "server" THEN Over(communfd) ELSE child[communfd] # "none")
        /\ \A c \in Clients : link[c] = "up" /\ ~ServerEnd(c) => Over(c)

UicIInv == UicTypes /\ ServerPlace /\ ChildPlace /\ Waiting /\ Connecting /\ GivenUpLate

LEMMA UicInitIInv == UiciInit => UicIInv
<1> SUFFICES ASSUME UiciInit PROVE UicIInv
  OBVIOUS
<1> USE DEF UiciInit
<1>1. UicTypes
  BY UicKindsAssumption DEF UicTypes
<1>2. ServerPlace /\ ChildPlace /\ Connecting
  BY NoClientAssumption DEF ServerPlace, ChildPlace, Connecting
<1>3. Waiting
  <2>1. Len(backlog) = 0 /\ Range(backlog) = {}
    BY DEF Range
  <2> QED
    BY <2>1 DEF Waiting, Fresh, Distinct
<1>4. GivenUpLate
  BY DEF GivenUpLate
<1> QED
  BY <1>1, <1>2, <1>3, <1>4 DEF UicIInv

\* What the steps of client c leave of the others, and of what has happened.
Others(c) ==
    \A d \in Clients \ {c} : /\ client'[d] = client[d] /\ link'[d] = link[d]
                             /\ sent'[d] = sent[d] /\ async'[d] = async[d]

\* A step of u_connect or of client.c that leaves the server alone and does not
\* touch what is over.
ClientMoves(c) ==
    /\ UNCHANGED <<uchoice, userver, backlog>>
    /\ UicTypes' /\ Connecting'
    /\ Others(c)
    /\ link[c] = "up" <=> link'[c] = "up"
    /\ Over(c) => Over(c)'

LEMMA ClientStays ==
    ASSUME UicIInv, NEW c \in Clients, ClientMoves(c)
    PROVE  UicIInv'
<1> USE DEF UicIInv, ClientMoves, Others, uchoice, userver
<1>1. \A d \in Clients : link[d] = "up" <=> link'[d] = "up"
  OBVIOUS
<1>2. \A d \in Clients : Over(d) => Over(d)'
  BY DEF Over
<1>3. Range(backlog) \subseteq Clients
  BY DEF UicTypes, Range
<1>4. ServerPlace' /\ ChildPlace'
  BY DEF ServerPlace, ChildPlace
<1>5. Waiting'
  BY <1>1, <1>3 DEF Waiting, Fresh
<1>6. GivenUpLate'
  <2>1. \A d \in Clients : ServerEnd(d)' <=> ServerEnd(d)
    BY DEF ServerEnd
  <2>2. upc = "close" => communfd \in Clients
    BY DEF UicTypes, ServerPlace
  <2> QED
    BY <1>1, <1>2, <2>1, <2>2 DEF GivenUpLate
<1> QED
  BY <1>4, <1>5, <1>6

LEMMA ClientStepMoves ==
    ASSUME UicIInv, NEW c \in Clients,
           \/ Connect(c) \/ ConnectReturns(c) \/ ConnectInterrupted(c) \/ ConnectSelected(c)
           \/ ClientSends(c) \/ ClientCloses(c) \/ Refuse(c)
    PROVE  ClientMoves(c)
<1> USE DEF UicIInv, UicTypes, Connecting, ClientMoves, Others, Over, ClientGoes,
            uchoice, userver, uclient
<1>1. CASE Connect(c)
  BY <1>1 DEF Connect
<1>2. CASE ConnectReturns(c)
  BY <1>2 DEF ConnectReturns
<1>3. CASE ConnectInterrupted(c)
  BY <1>3 DEF ConnectInterrupted
<1>4. CASE ConnectSelected(c)
  BY <1>4 DEF ConnectSelected
<1>5. CASE ClientSends(c)
  BY <1>5 DEF ClientSends
<1>6. CASE ClientCloses(c)
  BY <1>6 DEF ClientCloses
<1>7. CASE Refuse(c)
  BY <1>7 DEF Refuse
<1> QED
  BY <1>1, <1>2, <1>3, <1>4, <1>5, <1>6, <1>7

\* A new connection waits to be accepted.
LEMMA EstablishKeeps ==
    ASSUME UicIInv, NEW c \in Clients, Establish(c)
    PROVE  UicIInv'
<1> USE DEF UicIInv, Establish
<1>1. backlog \in Seq(Clients) /\ Distinct(backlog) /\ c \notin Range(backlog) /\ Fresh(c)
  BY DEF UicTypes, Waiting
<1>2. /\ backlog' \in Seq(Clients) /\ Distinct(backlog')
      /\ Range(backlog') = Range(backlog) \cup {c}
  BY <1>1, QueueAppend
<1>3. link' \in [Clients -> {"none", "pending", "up", "refused"}]
  BY DEF UicTypes
<1>4. \A d \in Clients : link'[d] = IF d = c THEN "up" ELSE link[d]
  BY DEF UicTypes
<1>5. UicTypes'
  BY <1>2, <1>3 DEF UicTypes, uchoice, userver, uclient
<1>6. ServerPlace' /\ ChildPlace'
  BY DEF ServerPlace, ChildPlace, uchoice, userver
<1>7. Waiting'
  <2>1. Range(backlog) \subseteq Clients
    BY <1>1 DEF Range
  <2> QED
    BY <1>1, <1>2, <1>4, <2>1 DEF Waiting, Fresh, userver
<1>8. Connecting'
  BY <1>4 DEF Connecting, uclient
<1>9. GivenUpLate'
  <2>1. \A d \in Clients : d # c => (ServerEnd(d)' <=> ServerEnd(d))
    BY <1>2 DEF ServerEnd, userver
  <2>2. ServerEnd(c)'
    BY <1>2 DEF ServerEnd
  <2>3. \A d : Over(d)' <=> Over(d)
    BY DEF Over, userver, uclient
  <2> QED
    BY <1>4, <2>1, <2>2, <2>3 DEF GivenUpLate, userver, uchoice
<1> QED
  BY <1>5, <1>6, <1>7, <1>8, <1>9

-----------------------------------------------------------------------------
(* Steps of the servers.                                                   *)

LEMMA AcceptKeeps == UicIInv /\ Accept => UicIInv'
<1> SUFFICES ASSUME UicIInv, Accept PROVE UicIInv'
  OBVIOUS
<1> USE DEF UicIInv, Accept
<1> DEFINE c == Head(backlog)
<1>1. /\ c \in Clients /\ c \in Range(backlog)
      /\ backlog' \in Seq(Clients) /\ Distinct(backlog')
      /\ Range(backlog') = Range(backlog) \ {c}
  BY QueueTail DEF UicTypes, Waiting
<1>2. Fresh(c) /\ communfd' = c
  BY <1>1 DEF Waiting
<1>3. Range(backlog) \subseteq Clients
  BY DEF UicTypes, Range
<1> HIDE DEF c
<1>4. /\ holders' \in [Clients -> SUBSET {"server", "child"}]
      /\ \A d \in Clients : holders'[d] = IF d = c THEN {"server"} ELSE holders[d]
  BY <1>1, <1>2 DEF UicTypes
<1>5. UicTypes'
  BY <1>1, <1>2, <1>4 DEF UicTypes, uchoice, uclient
<1>6. ServerPlace'
  BY <1>1, <1>2, <1>4, NoClientAssumption DEF UicTypes, ServerPlace, uchoice
<1>7. ChildPlace'
  BY <1>1, <1>2, <1>4 DEF ChildPlace, Fresh
<1>8. Waiting'
  <2>1. \A d \in Range(backlog') : link'[d] = "up" /\ Fresh(d)'
    BY <1>1, <1>3, <1>4 DEF Waiting, Fresh
  <2>2. \A d \in Clients : link'[d] # "up" => Fresh(d)'
    BY <1>1, <1>4 DEF Waiting, Fresh
  <2> QED
    BY <1>1, <2>1, <2>2 DEF Waiting
<1>9. Connecting'
  BY DEF Connecting, uclient
<1>10. GivenUpLate'
  <2>1. \A d \in Clients : ServerEnd(d)' <=> ServerEnd(d)
    BY <1>1, <1>4 DEF ServerEnd
  <2>2. \A d : Over(d)' <=> Over(d)
    BY DEF Over, uclient
  <2> QED
    BY <2>1, <2>2 DEF GivenUpLate, uchoice
<1> QED
  BY <1>5, <1>6, <1>7, <1>8, <1>9, <1>10

\* One more byte is read of a connection that is not over.
LEMMA CopyKeeps ==
    ASSUME UicIInv, NEW c \in Clients, CopyByte(c)
    PROVE  UicIInv'
<1> USE DEF UicIInv, CopyByte
<1>1. UicTypes'
  BY DEF UicTypes, uchoice, uclient
<1>2. ServerPlace' /\ ChildPlace' /\ Waiting' /\ Connecting'
  BY DEF ServerPlace, ChildPlace, Waiting, Fresh, Connecting, uchoice, uclient
<1>3. ~Over(c)
  BY DEF Over, UicTypes
<1>4. \A d \in Clients : Over(d) => Over(d)'
  BY <1>3 DEF Over, UicTypes, uclient
<1>5. \A d \in Clients : ServerEnd(d)' <=> ServerEnd(d)
  BY DEF ServerEnd
<1>6. upc = "close" => communfd \in Clients
  BY DEF UicTypes, ServerPlace
<1> QED
  BY <1>1, <1>2, <1>4, <1>5, <1>6 DEF GivenUpLate, uchoice

\* What the server did not touch: the connections it does not hold, what the
\* clients do and, but for one step, what is waiting.
ServerOnly == UNCHANGED <<uchoice, uclient, link, backlog>>

\* A step of the server that takes no connection to its end keeps all that is
\* said of what is over.
LEMMA OverKept ==
    ASSUME UicIInv, ServerOnly, UNCHANGED got
    PROVE  /\ Connecting'
           /\ \A d : Over(d)' <=> Over(d)
BY DEF UicIInv, ServerOnly, Connecting, Over, uclient

LEMMA OpenKeeps == UicIInv /\ Open => UicIInv'
<1> SUFFICES ASSUME UicIInv, Open PROVE UicIInv'
  OBVIOUS
<1> USE DEF UicIInv, Open
<1>1. ServerOnly /\ UNCHANGED <<communfd, holders, child, got>>
  BY DEF ServerOnly
<1>2. upc = "start" /\ upc' \in {"accept", "exit"}
  OBVIOUS
<1> HIDE DEF Open
<1>3. UicTypes' /\ ServerPlace' /\ ChildPlace' /\ Waiting'
  BY <1>1, <1>2 DEF ServerOnly, UicTypes, ServerPlace, ChildPlace, Waiting, Fresh, uchoice, uclient
<1>4. \A d \in Clients : ServerEnd(d)' <=> ServerEnd(d)
  BY <1>1 DEF ServerEnd, ServerOnly
<1>5. GivenUpLate'
  BY <1>1, <1>2, <1>4, OverKept DEF GivenUpLate, ServerOnly, uchoice
<1> QED
  BY <1>1, <1>3, <1>5, OverKept

\* server.c has copied what there is.
LEMMA CopyEndKeeps ==
    ASSUME UicIInv, ServerCopies, ~CopyByte(communfd)
    PROVE  UicIInv'
<1> USE DEF UicIInv
<1>1. /\ ServerOnly /\ UNCHANGED <<communfd, holders, child, got>>
      /\ upc = "copy" /\ upc' = "close" /\ CopyOver(communfd)
  BY DEF ServerCopies, ServerOnly
<1>2. UicTypes' /\ ServerPlace' /\ ChildPlace' /\ Waiting'
  BY <1>1 DEF ServerOnly, UicTypes, ServerPlace, ChildPlace, Waiting, Fresh, uchoice, uclient
<1>3. \A d \in Clients : ServerEnd(d)' <=> ServerEnd(d)
  BY <1>1 DEF ServerEnd, ServerOnly
<1>4. ufaults = {} => Over(communfd)
  BY <1>1 DEF CopyOver, Over
<1>5. ukind = "server"
  BY <1>1 DEF ServerPlace
<1>6. GivenUpLate'
  BY <1>1, <1>3, <1>4, <1>5, OverKept DEF GivenUpLate, ServerOnly, uchoice
<1> QED
  BY <1>1, <1>2, <1>6, OverKept

\* With a child or without one, the parent is about to close communfd.
LEMMA ForkKeeps == UicIInv /\ Fork => UicIInv'
<1> SUFFICES ASSUME UicIInv, Fork PROVE UicIInv'
  OBVIOUS
<1> USE DEF UicIInv
<1>1. /\ ServerOnly /\ UNCHANGED <<communfd, got>>
      /\ upc = "fork" /\ upc' = "close" /\ communfd \in Clients
      /\ ukind = "serverp" /\ child[communfd] = "none" /\ "server" \in holders[communfd]
  BY DEF Fork, ServerOnly, UicTypes, ServerPlace, ChildPlace
<1>2. CASE "fork" \in ufaults /\ UNCHANGED <<holders, child>>
  <2>1. UicTypes' /\ ServerPlace' /\ ChildPlace' /\ Waiting'
    BY <1>1, <1>2 DEF ServerOnly, UicTypes, ServerPlace, ChildPlace, Waiting, Fresh, uchoice, uclient
  <2>2. GivenUpLate'
    BY <1>1, <1>2 DEF GivenUpLate, ServerOnly, uchoice
  <2> QED
    BY <1>1, <2>1, <2>2, OverKept
<1>3. CASE /\ holders' = [holders EXCEPT ![communfd] = @ \cup {"child"}]
           /\ child' = [child EXCEPT ![communfd] = "run"]
  <2>1. /\ holders' \in [Clients -> SUBSET {"server", "child"}]
        /\ \A d \in Clients : holders'[d] = IF d = communfd THEN holders[d] \cup {"child"} ELSE holders[d]
    BY <1>1, <1>3 DEF UicTypes
  <2>2. /\ child' \in [Clients -> {"none", "run", "zombie", "reaped"}]
        /\ \A d \in Clients : child'[d] = IF d = communfd THEN "run" ELSE child[d]
    BY <1>1, <1>3 DEF UicTypes
  <2>3. UicTypes'
    BY <1>1, <2>1, <2>2 DEF ServerOnly, UicTypes, uchoice, uclient
  <2>4. ServerPlace' /\ ChildPlace'
    BY <1>1, <2>1, <2>2 DEF ServerOnly, ServerPlace, ChildPlace, uchoice
  <2>5. Waiting'
    <3>1. Range(backlog) \subseteq Clients
      BY DEF UicTypes, Range
    <3>2. communfd \notin Range(backlog) /\ link[communfd] = "up"
      BY <1>1 DEF Waiting, Fresh
    <3> QED
      BY <1>1, <2>1, <2>2, <3>1, <3>2 DEF ServerOnly, Waiting, Fresh
  <2>6. \A d \in Clients : ServerEnd(d)' <=> ServerEnd(d)
    BY <1>1, <2>1 DEF ServerEnd, ServerOnly
  <2>7. GivenUpLate'
    BY <1>1, <2>2, <2>6, OverKept DEF GivenUpLate, ServerOnly, uchoice
  <2> QED
    BY <1>1, <2>3, <2>4, <2>5, <2>7, OverKept
<1> QED
  BY <1>2, <1>3 DEF Fork

\* The server gives up communfd.
LEMMA CloseKeeps == UicIInv /\ CloseCommun => UicIInv'
<1> SUFFICES ASSUME UicIInv, CloseCommun PROVE UicIInv'
  OBVIOUS
<1> USE DEF UicIInv
<1>1. /\ ServerOnly /\ UNCHANGED <<child, got>>
      /\ upc = "close" /\ communfd \in Clients /\ communfd' = NoClient
      /\ upc' \in {"accept", "reap"} /\ (upc' = "reap" => ukind = "serverp")
  BY DEF CloseCommun, ServerOnly, UicTypes, ServerPlace
<1>2. /\ holders' \in [Clients -> SUBSET {"server", "child"}]
      /\ \A d \in Clients : holders'[d] = IF d = communfd THEN holders[d] \ {"server"} ELSE holders[d]
  BY <1>1 DEF UicTypes, CloseCommun
<1>3. UicTypes'
  BY <1>1, <1>2 DEF ServerOnly, UicTypes, uchoice, uclient
<1>4. ServerPlace' /\ ChildPlace'
  BY <1>1, <1>2, NoClientAssumption DEF ServerOnly, ServerPlace, ChildPlace, uchoice
<1>5. Waiting'
  <2>1. Range(backlog) \subseteq Clients
    BY DEF UicTypes, Range
  <2> QED
    BY <1>1, <1>2, <2>1 DEF ServerOnly, Waiting, Fresh
<1>6. GivenUpLate'
  <2>1. \A d \in Clients : d # communfd => (ServerEnd(d)' <=> ServerEnd(d))
    BY <1>1, <1>2 DEF ServerEnd, ServerOnly
  <2>2. ASSUME ufaults = {}, NEW d \in Clients, d = communfd
        PROVE  ServerEnd(d)' \/ Over(d)
    <3>1. CASE child[d] = "run"
      <4>1. "child" \in holders'[d]
        BY <1>1, <1>2, <3>1 DEF ChildPlace
      <4> QED
        BY <4>1 DEF ServerEnd
    <3>2. CASE child[d] \in {"zombie", "reaped"}
      BY <2>2, <3>2 DEF GivenUpLate
    <3>3. CASE child[d] = "none"
      BY <1>1, <2>2, <3>3 DEF GivenUpLate, Over
    <3> QED
      BY <3>1, <3>2, <3>3 DEF UicTypes
  <2>3. \A d \in Clients : link'[d] = link[d] /\ child'[d] = child[d]
    BY <1>1 DEF ServerOnly
  <2>4. ufaults' = ufaults /\ upc' # "close"
    BY <1>1 DEF ServerOnly, uchoice
  <2>5. \A d : Over(d)' <=> Over(d)
    BY <1>1, OverKept
  <2>6. ASSUME ufaults = {}, NEW d \in Clients, link[d] = "up", ~ServerEnd(d)'
        PROVE  Over(d)
    <3>1. CASE d = communfd
      BY <2>2, <2>6, <3>1
    <3>2. CASE d # communfd
      BY <2>1, <2>6, <3>2 DEF GivenUpLate
    <3> QED
      BY <3>1, <3>2
  <2> HIDE DEF UicIInv
  <2>7. ufaults = {} => \A d \in Clients : child[d] \in {"zombie", "reaped"} => Over(d)
    BY DEF UicIInv, GivenUpLate
  <2> QED
    BY <2>3, <2>4, <2>5, <2>6, <2>7 DEF GivenUpLate
<1> QED
  BY <1>1, <1>3, <1>4, <1>5, <1>6, OverKept

LEMMA ReapKeeps == UicIInv /\ Reap => UicIInv'
<1> SUFFICES ASSUME UicIInv, Reap PROVE UicIInv'
  OBVIOUS
<1> USE DEF UicIInv
<1>1. /\ ServerOnly /\ UNCHANGED <<communfd, holders, got>>
      /\ upc = "reap" /\ upc' \in {"reap", "accept"}
  BY DEF Reap, ServerOnly
<1>2. /\ child' \in [Clients -> {"none", "run", "zombie", "reaped"}]
      /\ \A d \in Clients : \/ child'[d] = child[d]
                            \/ child[d] = "zombie" /\ child'[d] = "reaped"
  BY DEF Reap, UicTypes
<1>3. UicTypes' /\ ServerPlace' /\ ChildPlace'
  BY <1>1, <1>2 DEF ServerOnly, UicTypes, ServerPlace, ChildPlace, uchoice, uclient
<1>4. Waiting'
  <2>1. Range(backlog) \subseteq Clients
    BY DEF UicTypes, Range
  <2> QED
    BY <1>1, <1>2, <2>1 DEF ServerOnly, Waiting, Fresh
<1>5. \A d \in Clients : ServerEnd(d)' <=> ServerEnd(d)
  BY <1>1 DEF ServerEnd, ServerOnly
<1>6. GivenUpLate'
  BY <1>1, <1>2, <1>5, OverKept DEF GivenUpLate, ServerOnly, uchoice
<1> QED
  BY <1>1, <1>3, <1>4, <1>6, OverKept

\* The child ends.
LEMMA ChildEndKeeps ==
    ASSUME UicIInv, NEW c \in Clients, ChildCopies(c), ~CopyByte(c)
    PROVE  UicIInv'
<1> USE DEF UicIInv
<1>1. /\ ServerOnly /\ UNCHANGED <<upc, communfd, got>>
      /\ child[c] = "run" /\ CopyOver(c)
      /\ child' = [child EXCEPT ![c] = "zombie"]
      /\ holders' = [holders EXCEPT ![c] = @ \ {"child"}]
  BY DEF ChildCopies, ServerOnly
<1>2. /\ holders' \in [Clients -> SUBSET {"server", "child"}]
      /\ \A d \in Clients : holders'[d] = IF d = c THEN holders[d] \ {"child"} ELSE holders[d]
  BY <1>1 DEF UicTypes
<1>3. /\ child' \in [Clients -> {"none", "run", "zombie", "reaped"}]
      /\ \A d \in Clients : child'[d] = IF d = c THEN "zombie" ELSE child[d]
  BY <1>1 DEF UicTypes
<1>4. UicTypes'
  BY <1>1, <1>2, <1>3 DEF ServerOnly, UicTypes, uchoice, uclient
<1>5. ServerPlace'
  BY <1>1, <1>2 DEF ServerOnly, ServerPlace, uchoice
<1>6. ChildPlace'
  <2>1. upc \in {"copy", "fork"} => communfd \in Clients /\ communfd # c
    BY <1>1 DEF ChildPlace, ServerPlace, UicTypes
  <2> QED
    BY <1>1, <1>2, <1>3, <2>1 DEF ChildPlace
<1>7. Waiting'
  <2>1. Range(backlog) \subseteq Clients
    BY DEF UicTypes, Range
  <2>2. c \notin Range(backlog) /\ link[c] = "up"
    BY <1>1 DEF Waiting, Fresh
  <2> QED
    BY <1>1, <1>2, <1>3, <2>1, <2>2 DEF ServerOnly, Waiting, Fresh
<1>8. GivenUpLate'
  <2>1. \A d \in Clients : d # c => (ServerEnd(d)' <=> ServerEnd(d))
    BY <1>1, <1>2 DEF ServerEnd, ServerOnly
  <2>2. ufaults = {} => Over(c)
    BY <1>1 DEF CopyOver, Over
  <2>3. upc = "close" => communfd \in Clients
    BY DEF UicTypes, ServerPlace
  <2> QED
    BY <1>1, <1>3, <2>1, <2>2, <2>3, OverKept DEF GivenUpLate, ServerOnly, uchoice
<1> QED
  BY <1>1, <1>4, <1>5, <1>6, <1>7, <1>8, OverKept

LEMMA UicNextIInv == UicIInv /\ [UiciNext]_uvars => UicIInv'
<1> SUFFICES ASSUME UicIInv, [UiciNext]_uvars PROVE UicIInv'
  OBVIOUS
<1>1. CASE UNCHANGED uvars
  BY <1>1 DEF uvars, uchoice, userver, uclient, UicIInv, UicTypes, ServerPlace, ChildPlace, Waiting, Fresh,
              Connecting, GivenUpLate, Over, ServerEnd
<1>2. CASE ServerCopies
  <2>1. communfd \in Clients
    BY <1>2 DEF ServerCopies, UicIInv, UicTypes, ServerPlace
  <2> QED
    BY <1>2, <2>1, CopyKeeps, CopyEndKeeps
<1>3. CASE Open \/ Accept \/ Fork \/ CloseCommun \/ Reap
  BY <1>3, OpenKeeps, AcceptKeeps, ForkKeeps, CloseKeeps, ReapKeeps
<1>4. ASSUME NEW c \in Clients,
             ClientSteps(c) \/ Connect(c) \/ ConnectInterrupted(c) \/ ClientSends(c) \/ ChildCopies(c)
      PROVE  UicIInv'
  <2>1. CASE Establish(c)
    BY <2>1, EstablishKeeps
  <2>2. CASE ChildCopies(c)
    BY <2>2, CopyKeeps, ChildEndKeeps
  <2> QED
    BY <1>4, <2>1, <2>2, ClientStepMoves, ClientStays DEF ClientSteps
<1> QED
  BY <1>1, <1>2, <1>3, <1>4 DEF UiciNext, ServerSteps

THEOREM UicInvariant == UiciSpec => []UicIInv
BY UicInitIInv, UicNextIInv, PTL DEF UiciSpec

\* server.c and serverp.c (chapter18): whatever fails, a server that waits for the
\* next connection holds no other, a connection has two holders only between fork
\* and close, and without a fault the server leaves only a client that has ended and
\* of which it has read everything; for any number of clients and any backlog.
THEOREM UicConnectionsOwned == UiciSpec => []ConnectionsOwned
<1>1. UicIInv => ConnectionsOwned
  <2> SUFFICES ASSUME UicIInv, NEW c \in Clients
               PROVE  /\ upc = "accept" => "server" \notin holders[c]
                      /\ holders[c] = {"server", "child"} => upc = "close" /\ communfd = c
                      /\ child[c] = "run" <=> "child" \in holders[c]
                      /\ link[c] = "up" /\ ~ServerEnd(c) /\ ufaults = {} => Over(c)
                      /\ client[c] = "connected" /\ ~async[c] => link[c] = "up"
    BY DEF ConnectionsOwned, Over
  <2> USE DEF UicIInv
  <2>1. upc = "accept" => "server" \notin holders[c]
    BY NoClientAssumption DEF ServerPlace
  <2>2. ASSUME holders[c] = {"server", "child"}
        PROVE  upc = "close" /\ communfd = c
    <3>1. communfd = c /\ child[c] = "run"
      BY <2>2 DEF ServerPlace, ChildPlace
    <3> QED
      BY <3>1, NoClientAssumption DEF ServerPlace, ChildPlace
  <2> QED
    BY <2>1, <2>2 DEF ChildPlace, Connecting, GivenUpLate
<1> QED
  BY <1>1, UicInvariant, PTL

-----------------------------------------------------------------------------
(* Uici: the reflecting pair.                                              *)

EchoTypes ==
    /\ epc \in {"write", "read", "done", "failed"}
    /\ espc \in {"read", "write", "end"}
    /\ esent \in 0..EchoSize
    /\ erecvd \in Nat /\ eup \in Nat /\ edown \in Nat
    /\ eblock \in Nat /\ ewritten \in 0..eblock

\* The server reads only when its buffer is written out, and without a fault of
\* its own ends only after the client.
EchoOrder ==
    /\ espc = "read" => eblock = ewritten
    /\ espc = "end" => efaults # {} \/ epc \in {"done", "failed"}

EchoIInv == EchoTypes /\ EchoExact /\ EchoOrder

LEMMA EchoInitIInv == EchoInit => EchoIInv
BY EchoAssumption DEF EchoInit, EchoIInv, EchoTypes, EchoExact, EchoOrder

LEMMA EchoNextIInv == EchoIInv /\ [EchoNext]_evars => EchoIInv'
<1> SUFFICES ASSUME EchoIInv, [EchoNext]_evars PROVE EchoIInv'
  OBVIOUS
<1> USE EchoAssumption DEF EchoIInv, EchoTypes, EchoExact, EchoOrder
<1>1. CASE ClientWrites
  BY <1>1 DEF ClientWrites
<1>2. CASE ClientReads
  BY <1>2 DEF ClientReads
<1>3. CASE ClientFails
  BY <1>3 DEF ClientFails
<1>4. CASE EchoRead
  BY <1>4 DEF EchoRead
<1>5. CASE EchoWrite
  BY <1>5 DEF EchoWrite
<1>6. CASE EchoEnds
  BY <1>6 DEF EchoEnds
<1>7. CASE UNCHANGED evars
  BY <1>7 DEF evars
<1> QED
  BY <1>1, <1>2, <1>3, <1>4, <1>5, <1>6, <1>7 DEF EchoNext, EchoClient, EchoServer

\* reflectclient and reflectserver (chapter18): every byte sent is on its way, in
\* the server's buffer, on its way back or received, for any message, any room in
\* the connection and any buffer, with reads and writes that move any part of what
\* they are asked to; without a fault the client never fails.
THEOREM UicEchoExact == EchoSpec => []EchoExact
<1>1. EchoIInv => EchoExact
  BY DEF EchoIInv
<1> QED
  BY <1>1, EchoInitIInv, EchoNextIInv, PTL DEF EchoSpec

-----------------------------------------------------------------------------
(* RemoteLog.                                                              *)

LogOps == {"none", "lopen", "lclose", "lgenerator", "lprintf", "lprintfg", "lsendtime"}
LogPositions ==
    {"none", "connect", "id", "pipe", "fork", "reader", "handover", "undo", "giveup", "close", "lock", "copy", "copy2",
     "times", "stamp", "write", "mode", "tell"}
LogStates == {"none", "opening", "open", "closing", "closed", "failed"}
Generators == Nat \X Nat
Calls == [op : LogOps, f : LogFiles \cup {0}, pc : LogPositions, gen : Generators,
          known : BOOLEAN, timed : BOOLEAN, raced : BOOLEAN, after : BOOLEAN]
LFILEs == [state : LogStates, id : Int, gen : Generators, tmode : BOOLEAN, told : BOOLEAN,
           piped : BOOLEAN]
Entries == [by : LogThreads \cup {0}, gen : [text : Generators, thread : LogThreads \cup {0}],
            known : BOOLEAN, timed : BOOLEAN, raced : BOOLEAN, after : BOOLEAN]

RemTypes ==
    /\ faultsleft \in 0..LogFaults
    /\ doing \in [LogThreads -> Calls]
    /\ lfile \in [LogFiles -> LFILEs]
    /\ nextID \in Nat /\ genlock \in LogThreads \cup {0}
    /\ pipew \in [LogFiles -> SUBSET (LogFiles \cup {Parent})]
    /\ piper \in [LogFiles -> SUBSET (LogFiles \cup {Parent})]
    /\ inpipe \in [LogFiles -> Seq(Entries)] /\ atnet \in [LogFiles -> Seq(Entries)]
    /\ logchild \in [LogFiles -> {"none", "run", "ended"}]

NoFault == faultsleft = LogFaults
Whole(gen, f) == gen \in {<<0, 0>>, <<f, f>>}
StateFor(op) == IF op = "lopen" THEN "opening" ELSE IF op = "lclose" THEN "closing" ELSE "open"

\* The steps of each call, and the state in which its LFILE is meanwhile.
CallPlaced(t) ==
    LET c == doing[t] IN
    /\ c.op = "none" => c = NoLogCall
    /\ c.op = "lopen" => c.pc \in {"connect", "id", "pipe", "fork", "reader", "handover", "undo", "giveup"}
    /\ c.op = "lclose" => c.pc = "close"
    /\ c.op = "lgenerator" => c.pc \in {"lock", "copy", "copy2"}
    /\ c.op = "lprintf" => c.pc \in {"lock", "copy", "copy2", "times", "stamp", "write"}
    /\ c.op = "lprintfg" => c.pc \in {"times", "stamp", "write"}
    /\ c.op = "lsendtime" => c.pc \in {"mode", "tell"}
    /\ c.op # "none" => c.f \in LogFiles /\ lfile[c.f].state = StateFor(c.op)

\* lopen and lclose have their LFILE for themselves.
Alone ==
    \A t, u \in LogThreads : t # u /\ doing[t].op \in {"lopen", "lclose"} => doing[u].f # doing[t].f

\* A generator is copied by who has the mutex.
CopyAgrees(t) ==
    LET c == doing[t] IN
    /\ genlock = t <=> c.pc \in {"copy", "copy2"}
    /\ c.op = "lgenerator" => c.gen = <<c.f, c.f>>
    /\ c.op = "lgenerator" /\ c.pc = "copy2" => lfile[c.f].gen[1] = c.f
    /\ c.op = "lprintf" /\ c.pc = "copy2" => c.gen[1] = lfile[c.f].gen[1]
    /\ c.pc \in {"times", "stamp", "write"} => Whole(c.gen, c.f)

\* What the call knows of the mode.
ModeAgrees(t) ==
    LET c == doing[t] IN
    /\ c.pc = "stamp" /\ lfile[c.f].tmode /\ ~c.raced => c.known
    /\ c.pc = "write" /\ c.timed /\ ~c.raced => c.known
    /\ c.op # "none" /\ c.after => lfile[c.f].told

\* The pipe of a logger is made, before the child is.
PipeMade(f) == Parent \in pipew[f] /\ Parent \in piper[f]

\* The pipe of a logger is open, and its child has the other end.
PipeOpen(f) == Parent \in pipew[f] /\ (NoFault => f \in piper[f])
HandedOver(t) ==
    /\ doing[t].pc = "fork" => PipeMade(doing[t].f)
    /\ doing[t].pc \in {"reader", "handover"} => PipeOpen(doing[t].f)

CallAgrees(t) == CallPlaced(t) /\ CopyAgrees(t) /\ ModeAgrees(t) /\ HandedOver(t)

\* A generator that differs in its halves is being set.
Halfway(f) == \E t \in LogThreads : doing[t].op = "lgenerator" /\ doing[t].pc = "copy2" /\ doing[t].f = f
GeneratorWhole(f) ==
    /\ lfile[f].gen \in {<<0, 0>>, <<f, 0>>, <<f, f>>}
    /\ lfile[f].gen = <<f, 0>> => Halfway(f)

PipeAgrees(f) ==
    /\ lfile[f].piped => lfile[f].state \notin {"none", "opening"}
    /\ lfile[f].piped /\ lfile[f].state \in {"open", "closing"} => PipeOpen(f)
    /\ ~lfile[f].piped => inpipe[f] = <<>>

\* The entries of a logger.
Announced(s) == \E j \in 1..Len(s) : s[j] = Announcement
EntryRight(s, f, k) ==
    /\ Whole(s[k].gen.text, f)
    /\ s[k].timed /\ ~s[k].raced => s[k].known
    /\ s[k].after /\ NoFault => \E j \in 1..(k - 1) : s[j] = Announcement
LogRight(f) ==
    /\ \A k \in 1..Len(EntriesOf(f)) : EntryRight(EntriesOf(f), f, k)
    /\ lfile[f].told /\ NoFault => Announced(EntriesOf(f))

FileAgrees(f) == GeneratorWhole(f) /\ PipeAgrees(f) /\ LogRight(f)

IdsGiven ==
    /\ \A f \in LogFiles : lfile[f].id < nextID
    /\ \A f, g \in LogFiles : f # g /\ lfile[f].id = lfile[g].id => lfile[f].id = NoId

RemIInv ==
    /\ RemTypes /\ Alone /\ IdsGiven
    /\ \A t \in LogThreads : CallAgrees(t)
    /\ \A f \in LogFiles : FileAgrees(f)
LEMMA RemInitially == RemoteInit => RemIInv
<1> SUFFICES ASSUME RemoteInit PROVE RemIInv
  OBVIOUS
<1> USE RemoteAssumption
<1>1. RemTypes
  BY DEF RemoteInit, RemTypes, Calls, LFILEs, LogOps, LogPositions, LogStates, Generators, NoLogCall, NoId, Parent
<1>2. Alone /\ IdsGiven
  BY DEF RemoteInit, Alone, IdsGiven, NoLogCall, NoId
<1>3. ASSUME NEW t \in LogThreads PROVE CallAgrees(t)
  BY DEF RemoteInit, CallAgrees, CallPlaced, CopyAgrees, ModeAgrees, HandedOver, NoLogCall
<1>4. ASSUME NEW f \in LogFiles PROVE FileAgrees(f)
  <2>1. EntriesOf(f) = <<>>
    BY DEF RemoteInit, EntriesOf
  <2> QED
    BY <2>1 DEF RemoteInit, FileAgrees, GeneratorWhole, PipeAgrees, LogRight
<1> QED
  BY <1>1, <1>2, <1>3, <1>4 DEF RemIInv

\* An entry written at the end, of a logger that is used.
LEMMA RemPuts ==
    ASSUME RemTypes, NEW t \in LogThreads, doing[t].f \in LogFiles, NEW entry \in Entries, PutEntry(t, entry)
    PROVE  /\ faultsleft' \in 0..LogFaults /\ (NoFault' => NoFault)
           /\ inpipe' \in [LogFiles -> Seq(Entries)] /\ atnet' \in [LogFiles -> Seq(Entries)]
           /\ \A g \in LogFiles : g # doing[t].f => inpipe'[g] = inpipe[g] /\ atnet'[g] = atnet[g]
           /\ ~lfile[doing[t].f].piped => inpipe'[doing[t].f] = inpipe[doing[t].f]
<1> USE RemoteAssumption
<1> DEFINE f == doing[t].f
<1>0. /\ f \in LogFiles /\ faultsleft \in 0..LogFaults
      /\ inpipe \in [LogFiles -> Seq(Entries)] /\ atnet \in [LogFiles -> Seq(Entries)]
  BY DEF RemTypes
<1>1. Append(inpipe[f], entry) \in Seq(Entries) /\ Append(atnet[f], entry) \in Seq(Entries)
  <2> HIDE DEF f
  <2> QED
    BY <1>0
<1>2. CASE UNCHANGED faultsleft
  <2>1. \/ atnet' = [atnet EXCEPT ![f] = Append(atnet[f], entry)] /\ UNCHANGED inpipe /\ ~lfile[f].piped
        \/ inpipe' = [inpipe EXCEPT ![f] = Append(inpipe[f], entry)] /\ UNCHANGED atnet /\ lfile[f].piped
        \/ UNCHANGED <<inpipe, atnet>>
    BY DEF PutEntry, SameData, Fault
  <2> QED
    BY <1>0, <1>1, <1>2, <2>1 DEF NoFault
<1>3. CASE Fault /\ SameData
  BY <1>0, <1>3 DEF NoFault, Fault, SameData
<1> QED
  BY <1>2, <1>3 DEF PutEntry

LEMMA RemEntries ==
    ASSUME RemTypes, NEW t \in LogThreads, doing[t].op # "none"
    PROVE  /\ Announcement \in Entries
           /\ [by |-> t, gen |-> expand_gen(doing[t].gen, t), known |-> doing[t].known,
               timed |-> doing[t].timed, raced |-> doing[t].raced, after |-> doing[t].after] \in Entries
<1>1. doing[t] \in Calls
  BY DEF RemTypes
<1>2. expand_gen(doing[t].gen, t) \in [text : Generators, thread : LogThreads \cup {0}]
  BY <1>1 DEF Calls, expand_gen
<1>3. expand_gen(<<0, 0>>, 0) \in [text : Generators, thread : LogThreads \cup {0}]
  BY DEF expand_gen, Generators
<1>4. /\ doing[t].known \in BOOLEAN /\ doing[t].timed \in BOOLEAN
      /\ doing[t].raced \in BOOLEAN /\ doing[t].after \in BOOLEAN
  BY <1>1 DEF Calls
<1> QED
  BY <1>2, <1>3, <1>4 DEF Announcement, Entries

\* Records with some members replaced.
LEMMA CallUpdates ==
    ASSUME NEW c \in Calls
    PROVE  /\ \A pc \in LogPositions : [c EXCEPT !.pc = pc] \in Calls
           /\ \A b \in BOOLEAN : [c EXCEPT !.raced = b] \in Calls
           /\ \A pc \in LogPositions, b \in BOOLEAN : [c EXCEPT !.pc = pc, !.known = b] \in Calls
           /\ \A pc \in LogPositions, b \in BOOLEAN : [c EXCEPT !.pc = pc, !.timed = b] \in Calls
           /\ \A pc \in LogPositions, g \in Generators : [c EXCEPT !.gen = g, !.pc = pc] \in Calls
  BY DEF Calls

LEMMA CallBegins ==
    ASSUME NEW c \in Calls, NEW o \in LogOps, NEW f \in LogFiles, NEW pc \in LogPositions,
           NEW b \in BOOLEAN, NEW g \in Generators
    PROVE  [c EXCEPT !.op = o, !.f = f, !.pc = pc, !.after = b, !.gen = g] \in Calls
  BY DEF Calls

LEMMA LFILEUpdates ==
    ASSUME NEW l \in LFILEs
    PROVE  /\ \A s \in LogStates : [l EXCEPT !.state = s] \in LFILEs
           /\ \A i \in Int : [l EXCEPT !.id = i] \in LFILEs
           /\ \A g \in Generators : [l EXCEPT !.gen = g] \in LFILEs
           /\ \A b \in BOOLEAN : [l EXCEPT !.tmode = b] \in LFILEs
           /\ \A b \in BOOLEAN : [l EXCEPT !.told = b] \in LFILEs
           /\ \A s \in LogStates, b \in BOOLEAN : [l EXCEPT !.state = s, !.piped = b] \in LFILEs
  BY DEF LFILEs

\* One call goes on, or one LFILE changes, and the others are as they were.
LEMMA CallGoes ==
    ASSUME RemTypes, NEW t \in LogThreads, NEW c \in Calls, doing' = [doing EXCEPT ![t] = c]
    PROVE  /\ doing' \in [LogThreads -> Calls] /\ doing'[t] = c
           /\ \A u \in LogThreads : u # t => doing'[u] = doing[u]
  BY DEF RemTypes

LEMMA LFILEGoes ==
    ASSUME RemTypes, NEW f \in LogFiles, NEW l \in LFILEs, lfile' = [lfile EXCEPT ![f] = l]
    PROVE  /\ lfile' \in [LogFiles -> LFILEs] /\ lfile'[f] = l
           /\ \A g \in LogFiles : g # f => lfile'[g] = lfile[g]
  BY DEF RemTypes

LEMMA NoCallTyped == NoLogCall \in Calls
  BY DEF NoLogCall, Calls, LogOps, LogPositions, Generators

LEMMA LogReturns ==
    ASSUME RemTypes, NEW t \in LogThreads, Returns(t)
    PROVE  /\ doing' \in [LogThreads -> Calls] /\ doing'[t] = NoLogCall
           /\ \A u \in LogThreads : u # t => doing'[u] = doing[u]
  BY NoCallTyped, CallGoes DEF Returns

LEMMA LogTurns ==
    ASSUME RemTypes, NEW t \in LogThreads, NEW pc \in LogPositions, Turns(t, pc)
    PROVE  /\ doing' \in [LogThreads -> Calls]
           /\ doing'[t] = [doing[t] EXCEPT !.pc = pc] /\ doing'[t].pc = pc
           /\ doing'[t].op = doing[t].op /\ doing'[t].f = doing[t].f /\ doing'[t].gen = doing[t].gen
           /\ doing'[t].known = doing[t].known /\ doing'[t].timed = doing[t].timed
           /\ doing'[t].raced = doing[t].raced /\ doing'[t].after = doing[t].after
           /\ \A u \in LogThreads : u # t => doing'[u] = doing[u]
<1>1. doing[t] \in Calls /\ doing' = [doing EXCEPT ![t] = [doing[t] EXCEPT !.pc = pc]]
  BY DEF RemTypes, Turns
<1>2. [doing[t] EXCEPT !.pc = pc] \in Calls
  BY <1>1, CallUpdates
<1>3. /\ doing' \in [LogThreads -> Calls] /\ doing'[t] = [doing[t] EXCEPT !.pc = pc]
      /\ \A u \in LogThreads : u # t => doing'[u] = doing[u]
  BY <1>1, <1>2, CallGoes
<1> QED
  BY <1>1, <1>3 DEF Calls

LEMMA LogState ==
    ASSUME RemTypes, NEW f \in LogFiles, NEW s \in LogStates, lfile' = [lfile EXCEPT ![f].state = s]
    PROVE  /\ lfile' \in [LogFiles -> LFILEs] /\ lfile'[f].state = s
           /\ lfile'[f].gen = lfile[f].gen /\ lfile'[f].told = lfile[f].told
           /\ lfile'[f].id = lfile[f].id /\ lfile'[f].piped = lfile[f].piped
           /\ lfile'[f].tmode = lfile[f].tmode
           /\ \A g \in LogFiles : g # f => lfile'[g] = lfile[g]
<1>1. lfile[f] \in LFILEs /\ lfile' = [lfile EXCEPT ![f] = [lfile[f] EXCEPT !.state = s]]
  BY DEF RemTypes
<1>2. [lfile[f] EXCEPT !.state = s] \in LFILEs
  BY <1>1, LFILEUpdates
<1>3. /\ lfile' \in [LogFiles -> LFILEs] /\ lfile'[f] = [lfile[f] EXCEPT !.state = s]
      /\ \A g \in LogFiles : g # f => lfile'[g] = lfile[g]
  BY <1>1, <1>2, LFILEGoes
<1> QED
  BY <1>1, <1>3 DEF LFILEs

\* A thread in no call.
LEMMA RemFree ==
    ASSUME RemTypes', NEW t \in LogThreads, doing'[t] = NoLogCall, genlock' # t
    PROVE  CallAgrees(t)'
  BY DEF CallAgrees, CallPlaced, CopyAgrees, ModeAgrees, HandedOver, NoLogCall

LEMMA RemIdsKept ==
    ASSUME IdsGiven, UNCHANGED nextID, \A g \in LogFiles : lfile'[g].id = lfile[g].id
    PROVE  IdsGiven'
  BY DEF IdsGiven

\* What another thread's step leaves alone is enough for a call to agree with it.
LEMMA RemOther ==
    ASSUME RemIInv, NEW u \in LogThreads, doing'[u] = doing[u], genlock' = u <=> genlock = u,
           doing[u].op # "none" =>
               /\ lfile'[doing[u].f].state = lfile[doing[u].f].state
               /\ lfile'[doing[u].f].tmode = lfile[doing[u].f].tmode
               /\ lfile[doing[u].f].told => lfile'[doing[u].f].told
               /\ doing[u].pc = "copy2" => lfile'[doing[u].f].gen[1] = lfile[doing[u].f].gen[1],
           HandedOver(u)'
    PROVE  CallAgrees(u)'
<1>0. CallAgrees(u)
  BY DEF RemIInv
<1>1. CallPlaced(u)'
  BY <1>0 DEF CallAgrees, CallPlaced
<1>2. CASE doing[u].op = "none"
  <2>1. doing[u] = NoLogCall
    BY <1>0, <1>2 DEF CallAgrees, CallPlaced
  <2> QED
    BY <1>0, <1>1, <2>1 DEF CallAgrees, CopyAgrees, ModeAgrees, HandedOver, NoLogCall
<1>3. CASE doing[u].op # "none"
  <2>1. CopyAgrees(u)'
    BY <1>0, <1>3 DEF CallAgrees, CopyAgrees, Whole
  <2>2. ModeAgrees(u)'
    BY <1>0, <1>3 DEF CallAgrees, ModeAgrees
  <2> QED
    BY <1>1, <2>1, <2>2 DEF CallAgrees
<1> QED
  BY <1>2, <1>3

\* And for a logger, when no entry is added.
LEMMA RemFile ==
    ASSUME RemIInv, NEW g \in LogFiles, lfile'[g].gen = lfile[g].gen, lfile'[g].told = lfile[g].told,
           Halfway(g) => Halfway(g)', EntriesOf(g)' = EntriesOf(g), PipeAgrees(g)', NoFault' => NoFault
    PROVE  FileAgrees(g)'
<1>0. FileAgrees(g)
  BY DEF RemIInv
<1>1. GeneratorWhole(g)'
  BY <1>0 DEF FileAgrees, GeneratorWhole
<1>2. LogRight(g)'
  BY <1>0 DEF FileAgrees, LogRight, EntryRight, Announced, Announcement, expand_gen
<1> QED
  BY <1>1, <1>2 DEF FileAgrees

LEMMA RemPipe ==
    ASSUME RemIInv, NEW g \in LogFiles, lfile'[g] = lfile[g], inpipe'[g] = inpipe[g],
           PipeOpen(g) => PipeOpen(g)'
    PROVE  PipeAgrees(g)'
  BY DEF RemIInv, FileAgrees, PipeAgrees

\* A step of lopen or lclose, whose LFILE no other call uses.
LEMMA RemOwnStep ==
    ASSUME RemIInv, NEW t \in LogThreads, doing[t].op \in {"lopen", "lclose"}, RemTypes',
           \/ doing'[t] = NoLogCall
           \/ \E pc \in LogPositions : doing'[t] = [doing[t] EXCEPT !.pc = pc],
           \A u \in LogThreads : u # t => doing'[u] = doing[u],
           \A g \in LogFiles : g # doing[t].f => /\ lfile'[g] = lfile[g]
                                                 /\ PipeMade(g) => PipeMade(g)'
                                                 /\ PipeOpen(g) => PipeOpen(g)',
           lfile'[doing[t].f].gen = lfile[doing[t].f].gen,
           lfile'[doing[t].f].told = lfile[doing[t].f].told,
           UNCHANGED <<genlock, inpipe, atnet>>, NoFault' => NoFault,
           CallAgrees(t)', IdsGiven', \A d \in LogFiles : d = doing[t].f => PipeAgrees(d)'
    PROVE  RemIInv'
<1> USE RemoteAssumption
<1>1. doing[t].f \in LogFiles
  BY DEF RemIInv, CallAgrees, CallPlaced
<1>2. ASSUME NEW u \in LogThreads, u # t PROVE doing[u].f # doing[t].f
  BY <1>2 DEF RemIInv, Alone
<1>3. ASSUME NEW u \in LogThreads PROVE CallAgrees(u)'
  <2>1. CASE u # t
    <3>1. doing[u].op # "none" => doing[u].f \in LogFiles /\ lfile'[doing[u].f] = lfile[doing[u].f]
      BY <1>2, <2>1 DEF RemIInv, CallAgrees, CallPlaced
    <3>2. HandedOver(u)'
      <4> SUFFICES ASSUME doing[u].pc \in {"fork", "reader", "handover"}
                   PROVE  /\ doing[u].pc = "fork" => PipeMade(doing[u].f)'
                          /\ doing[u].pc \in {"reader", "handover"} => PipeOpen(doing[u].f)'
        BY <2>1 DEF HandedOver
      <4>1. HandedOver(u) /\ doing[u].op # "none"
        BY DEF RemIInv, CallAgrees, CallPlaced, NoLogCall
      <4>2. PICK d \in LogFiles : d = doing[u].f
        BY <3>1, <4>1
      <4>3. d # doing[t].f /\ doing'[u].f = d
        BY <1>2, <2>1, <4>2
      <4>4. (PipeMade(d) => PipeMade(d)') /\ (PipeOpen(d) => PipeOpen(d)')
        BY <4>3
      <4> QED
        BY <4>1, <4>2, <4>3, <4>4, <2>1 DEF HandedOver, PipeMade, PipeOpen
    <3> QED
      BY <2>1, <3>1, <3>2, RemOther
  <2> QED
    BY <2>1
<1>4. Alone'
  <2>1. /\ doing[t] \in Calls
        /\ \/ doing'[t].op = "none" /\ doing'[t].f = 0
           \/ doing'[t].op = doing[t].op /\ doing'[t].f = doing[t].f
    BY DEF RemIInv, RemTypes, Calls, NoLogCall
  <2>2. ASSUME NEW u \in LogThreads, NEW v \in LogThreads, u # v, doing'[u].op \in {"lopen", "lclose"}
        PROVE  doing'[v].f # doing'[u].f
    <3>1. doing[u].f \in LogFiles /\ doing[u].op \in {"lopen", "lclose"} /\ doing'[u].f = doing[u].f
      BY <2>1, <2>2 DEF RemIInv, CallAgrees, CallPlaced
    <3>2. doing[v].f # doing[u].f
      BY <2>2, <3>1 DEF RemIInv, Alone
    <3>3. doing'[v].f = doing[v].f \/ doing'[v].f = 0
      BY <2>1, <2>2
    <3> QED
      BY <3>1, <3>2, <3>3
  <2> QED
    BY <2>2 DEF Alone
<1>5. ASSUME NEW g \in LogFiles PROVE FileAgrees(g)'
  <2>1. Halfway(g) => Halfway(g)'
    <3> SUFFICES ASSUME NEW u \in LogThreads, doing[u].op = "lgenerator", doing[u].pc = "copy2", doing[u].f = g
                 PROVE  Halfway(g)'
      BY DEF Halfway
    <3> QED
      BY DEF Halfway
  <2>2. EntriesOf(g)' = EntriesOf(g)
    BY DEF EntriesOf
  <2>3. PipeAgrees(g)'
    <3>1. CASE g # doing[t].f
      BY <3>1, RemPipe
    <3>2. CASE g = doing[t].f
      BY <3>2 DEF PipeAgrees, PipeOpen
    <3> QED
      BY <3>1, <3>2
  <2> QED
    BY <2>1, <2>2, <2>3, RemFile
<1> QED
  BY <1>3, <1>4, <1>5 DEF RemIInv

\* What lopen and lclose know when they go on.
LEMMA RemOwnPlace ==
    ASSUME RemIInv, NEW t \in LogThreads, doing[t].op \in {"lopen", "lclose"}
    PROVE  /\ RemTypes /\ IdsGiven /\ doing[t] \in Calls /\ doing[t].f \in LogFiles
           /\ lfile[doing[t].f] \in LFILEs /\ genlock # t
           /\ lfile[doing[t].f].state = StateFor(doing[t].op)
           /\ doing[t].op = "lopen" => ~lfile[doing[t].f].piped /\ inpipe[doing[t].f] = <<>>
           /\ doing[t].after => lfile[doing[t].f].told
<1>1. RemTypes /\ IdsGiven /\ CallPlaced(t) /\ CopyAgrees(t) /\ ModeAgrees(t)
  BY DEF RemIInv, CallAgrees
<1>2. doing[t] \in Calls /\ doing[t].f \in LogFiles /\ lfile[doing[t].f] \in LFILEs
  BY <1>1 DEF RemTypes, CallPlaced
<1>3. genlock # t
  BY <1>1 DEF CallPlaced, CopyAgrees
<1>4. lfile[doing[t].f].state = StateFor(doing[t].op)
  BY <1>1 DEF CallPlaced
<1>5. PipeAgrees(doing[t].f)
  BY <1>2 DEF RemIInv, FileAgrees
<1> QED
  BY <1>1, <1>2, <1>3, <1>4, <1>5 DEF PipeAgrees, StateFor, ModeAgrees

LEMMA RemLopenConnect == ASSUME RemIInv, NEW t \in LogThreads, LopenConnect(t) PROVE RemIInv'
<1> DEFINE f == doing[t].f
<1>0. doing[t].op = "lopen"
  BY DEF LopenConnect, In
<1>1. /\ RemTypes /\ IdsGiven /\ f \in LogFiles /\ genlock # t /\ ~lfile[f].piped /\ inpipe[f] = <<>>
      /\ lfile[f].state = "opening" /\ (doing[t].after => lfile[f].told)
  BY <1>0, RemOwnPlace DEF StateFor
<1>2. /\ UNCHANGED <<genlock, pipew, piper, logchild, nextID, inpipe, atnet>>
      /\ faultsleft' \in 0..LogFaults /\ (NoFault' => NoFault)
  BY <1>1, RemoteAssumption DEF LopenConnect, SameData, Fault, RemTypes, NoFault
<1>3. CASE Turns(t, "id") /\ UNCHANGED lfile
  <2>1. /\ doing' \in [LogThreads -> Calls]
        /\ doing'[t] = [doing[t] EXCEPT !.pc = "id"] /\ doing'[t].pc = "id"
        /\ doing'[t].op = doing[t].op /\ doing'[t].f = doing[t].f /\ doing'[t].after = doing[t].after
        /\ \A u \in LogThreads : u # t => doing'[u] = doing[u]
    BY <1>1, <1>3, LogTurns DEF LogPositions
  <2>2. RemTypes'
    BY <1>1, <1>2, <1>3, <2>1 DEF RemTypes
  <2>3. CallAgrees(t)'
    BY <1>0, <1>1, <1>2, <1>3, <2>1 DEF CallAgrees, CallPlaced, StateFor, CopyAgrees, ModeAgrees, HandedOver
  <2>4. \A d \in LogFiles : d = doing[t].f => PipeAgrees(d)'
    BY <1>1, <1>2, <1>3 DEF PipeAgrees
  <2>5. IdsGiven'
    BY <1>1, <1>2, <1>3, RemIdsKept
  <2> QED
    BY <1>0, <1>2, <1>3, <2>1, <2>2, <2>3, <2>4, <2>5, RemOwnStep DEF PipeOpen, PipeMade, LogPositions
<1>4. CASE Returns(t) /\ lfile' = [lfile EXCEPT ![f].state = "failed"]
  <2>1. /\ doing' \in [LogThreads -> Calls] /\ doing'[t] = NoLogCall
        /\ \A u \in LogThreads : u # t => doing'[u] = doing[u]
    BY <1>1, <1>4, LogReturns
  <2>2. /\ lfile' \in [LogFiles -> LFILEs] /\ lfile'[f].gen = lfile[f].gen
        /\ lfile'[f].told = lfile[f].told /\ lfile'[f].id = lfile[f].id /\ ~lfile'[f].piped
        /\ \A g \in LogFiles : g # f => lfile'[g] = lfile[g]
    BY <1>1, <1>4, LogState DEF LogStates
  <2>3. RemTypes'
    BY <1>1, <1>2, <2>1, <2>2 DEF RemTypes
  <2>4. CallAgrees(t)'
    BY <1>1, <1>2, <2>1, <2>3, RemFree
  <2>5. \A d \in LogFiles : d = doing[t].f => PipeAgrees(d)'
    BY <1>1, <1>2, <2>2 DEF PipeAgrees
  <2>6. IdsGiven'
    <3>1. \A g \in LogFiles : lfile'[g].id = lfile[g].id
      BY <2>2
    <3> QED
      BY <1>1, <1>2, <3>1, RemIdsKept
  <2> QED
    BY <1>0, <1>2, <2>1, <2>2, <2>3, <2>4, <2>5, <2>6, RemOwnStep DEF PipeOpen, PipeMade
<1> QED
  BY <1>3, <1>4 DEF LopenConnect

LEMMA RemLopenId == ASSUME RemIInv, NEW t \in LogThreads, LopenId(t) PROVE RemIInv'
<1> DEFINE f == doing[t].f
<1>0. doing[t].op = "lopen"
  BY DEF LopenId, In
<1>1. /\ RemTypes /\ IdsGiven /\ f \in LogFiles /\ genlock # t /\ ~lfile[f].piped /\ inpipe[f] = <<>>
      /\ lfile[f].state = "opening" /\ (doing[t].after => lfile[f].told) /\ lfile[f] \in LFILEs
  BY <1>0, RemOwnPlace DEF StateFor
<1>2. /\ UNCHANGED <<genlock, pipew, piper, logchild, inpipe, atnet>>
      /\ faultsleft' \in 0..LogFaults /\ (NoFault' => NoFault)
  BY <1>1, RemoteAssumption DEF LopenId, SameData, SameEnds, Fault, RemTypes, NoFault
<1>3. CASE Turns(t, "pipe") /\ lfile' = [lfile EXCEPT ![f].id = nextID] /\ nextID' = nextID + 1
  <2>1. /\ doing' \in [LogThreads -> Calls]
        /\ doing'[t] = [doing[t] EXCEPT !.pc = "pipe"] /\ doing'[t].pc = "pipe"
        /\ doing'[t].op = doing[t].op /\ doing'[t].f = doing[t].f /\ doing'[t].after = doing[t].after
        /\ \A u \in LogThreads : u # t => doing'[u] = doing[u]
    BY <1>1, <1>3, LogTurns DEF LogPositions
  <2>2. nextID \in Nat
    BY <1>1 DEF RemTypes
  <2>3. lfile' = [lfile EXCEPT ![f] = [lfile[f] EXCEPT !.id = nextID]]
    BY <1>1, <1>3 DEF RemTypes
  <2>4. [lfile[f] EXCEPT !.id = nextID] \in LFILEs
    <3>1. nextID \in Int
      BY <2>2
    <3> HIDE DEF f
    <3> QED
      BY <1>1, <3>1, LFILEUpdates
  <2>5. /\ lfile' \in [LogFiles -> LFILEs] /\ lfile'[f] = [lfile[f] EXCEPT !.id = nextID]
        /\ \A g \in LogFiles : g # f => lfile'[g] = lfile[g]
    BY <1>1, <2>3, <2>4, LFILEGoes
  <2>6. /\ lfile'[f].gen = lfile[f].gen /\ lfile'[f].told = lfile[f].told /\ ~lfile'[f].piped
        /\ lfile'[f].state = "opening" /\ lfile'[f].id = nextID
    BY <1>1, <2>5 DEF LFILEs
  <2>7. RemTypes'
    BY <1>1, <1>2, <1>3, <2>1, <2>2, <2>5 DEF RemTypes
  <2>8. CallAgrees(t)'
    BY <1>0, <1>1, <1>2, <2>1, <2>6 DEF CallAgrees, CallPlaced, StateFor, CopyAgrees, ModeAgrees, HandedOver
  <2>9. \A d \in LogFiles : d = doing[t].f => PipeAgrees(d)'
    BY <1>1, <1>2, <2>6 DEF PipeAgrees
  <2>10. IdsGiven'
    <3>1. \A g \in LogFiles : lfile[g].id \in Int /\ lfile[g].id < nextID
      BY <1>1 DEF IdsGiven, RemTypes, LFILEs
    <3>2. \A g \in LogFiles : lfile'[g].id < nextID'
      BY <1>3, <2>2, <2>5, <2>6, <3>1
    <3>3. \A g \in LogFiles : g # f => lfile'[g].id # lfile'[f].id
      BY <2>2, <2>5, <2>6, <3>1
    <3>4. ASSUME NEW g \in LogFiles, NEW h \in LogFiles, g # h, lfile'[g].id = lfile'[h].id
          PROVE  lfile'[g].id = NoId
      <4>1. g # f /\ h # f
        BY <3>3, <3>4
      <4>2. lfile'[g] = lfile[g] /\ lfile'[h] = lfile[h]
        BY <2>5, <4>1
      <4> QED
        BY <1>1, <3>4, <4>2 DEF IdsGiven
    <3> QED
      BY <3>2, <3>4 DEF IdsGiven
  <2> QED
    BY <1>0, <1>2, <2>1, <2>5, <2>6, <2>7, <2>8, <2>9, <2>10, RemOwnStep DEF PipeOpen, PipeMade, LogPositions
<1>4. CASE Returns(t) /\ lfile' = [lfile EXCEPT ![f].state = "failed"] /\ UNCHANGED nextID
  <2>1. /\ doing' \in [LogThreads -> Calls] /\ doing'[t] = NoLogCall
        /\ \A u \in LogThreads : u # t => doing'[u] = doing[u]
    BY <1>1, <1>4, LogReturns
  <2>2. /\ lfile' \in [LogFiles -> LFILEs] /\ lfile'[f].gen = lfile[f].gen
        /\ lfile'[f].told = lfile[f].told /\ lfile'[f].id = lfile[f].id /\ ~lfile'[f].piped
        /\ \A g \in LogFiles : g # f => lfile'[g] = lfile[g]
    BY <1>1, <1>4, LogState DEF LogStates
  <2>3. RemTypes'
    BY <1>1, <1>2, <1>4, <2>1, <2>2 DEF RemTypes
  <2>4. CallAgrees(t)'
    BY <1>1, <1>2, <2>1, <2>3, RemFree
  <2>5. \A d \in LogFiles : d = doing[t].f => PipeAgrees(d)'
    BY <1>1, <1>2, <2>2 DEF PipeAgrees
  <2>6. IdsGiven'
    <3>1. \A g \in LogFiles : lfile'[g].id = lfile[g].id
      BY <2>2
    <3> QED
      BY <1>1, <1>4, <3>1, RemIdsKept
  <2> QED
    BY <1>0, <1>2, <2>1, <2>2, <2>3, <2>4, <2>5, <2>6, RemOwnStep DEF PipeOpen, PipeMade
<1> QED
  BY <1>3, <1>4 DEF LopenId

LEMMA RemMakePipe == ASSUME RemIInv, NEW t \in LogThreads, MakePipe(t) PROVE RemIInv'
<1> DEFINE f == doing[t].f
<1>0. doing[t].op = "lopen"
  BY DEF MakePipe, In
<1>1. /\ RemTypes /\ IdsGiven /\ f \in LogFiles /\ genlock # t /\ ~lfile[f].piped /\ inpipe[f] = <<>>
      /\ lfile[f].state = "opening" /\ (doing[t].after => lfile[f].told)
  BY <1>0, RemOwnPlace DEF StateFor
<1>2. /\ UNCHANGED <<genlock, nextID, inpipe, atnet, logchild>>
      /\ faultsleft' \in 0..LogFaults /\ (NoFault' => NoFault)
  BY <1>1, RemoteAssumption DEF MakePipe, SameData, Fault, RemTypes, NoFault
<1>3. CASE /\ Turns(t, "fork") /\ pipew' = [pipew EXCEPT ![f] = {Parent}]
           /\ piper' = [piper EXCEPT ![f] = {Parent}] /\ UNCHANGED lfile
  <2>1. /\ doing' \in [LogThreads -> Calls]
        /\ doing'[t] = [doing[t] EXCEPT !.pc = "fork"] /\ doing'[t].pc = "fork"
        /\ doing'[t].op = doing[t].op /\ doing'[t].f = doing[t].f /\ doing'[t].after = doing[t].after
        /\ \A u \in LogThreads : u # t => doing'[u] = doing[u]
    BY <1>1, <1>3, LogTurns DEF LogPositions
  <2>2. /\ pipew' \in [LogFiles -> SUBSET (LogFiles \cup {Parent})]
        /\ piper' \in [LogFiles -> SUBSET (LogFiles \cup {Parent})]
        /\ \A g \in LogFiles : g # f => pipew'[g] = pipew[g] /\ piper'[g] = piper[g]
        /\ pipew'[f] = {Parent} /\ piper'[f] = {Parent}
    BY <1>1, <1>3 DEF RemTypes
  <2>3. \A g \in LogFiles : g # f => (PipeOpen(g) => PipeOpen(g)') /\ (PipeMade(g) => PipeMade(g)')
    BY <1>2, <2>2 DEF PipeOpen, PipeMade
  <2>4. RemTypes'
    BY <1>1, <1>2, <1>3, <2>1, <2>2 DEF RemTypes
  <2>5. CallAgrees(t)'
    BY <1>0, <1>1, <1>2, <1>3, <2>1, <2>2 DEF CallAgrees, CallPlaced, StateFor, CopyAgrees, ModeAgrees, HandedOver, PipeMade
  <2>6. \A d \in LogFiles : d = doing[t].f => PipeAgrees(d)'
    BY <1>1, <1>2, <1>3 DEF PipeAgrees
  <2>7. IdsGiven'
    BY <1>1, <1>2, <1>3, RemIdsKept
  <2> QED
    BY <1>0, <1>2, <1>3, <2>1, <2>3, <2>4, <2>5, <2>6, <2>7, RemOwnStep DEF LogPositions
<1>4. CASE Returns(t) /\ lfile' = [lfile EXCEPT ![f].state = "open"] /\ UNCHANGED <<pipew, piper>>
  <2>1. /\ doing' \in [LogThreads -> Calls] /\ doing'[t] = NoLogCall
        /\ \A u \in LogThreads : u # t => doing'[u] = doing[u]
    BY <1>1, <1>4, LogReturns
  <2>2. /\ lfile' \in [LogFiles -> LFILEs] /\ lfile'[f].gen = lfile[f].gen
        /\ lfile'[f].told = lfile[f].told /\ lfile'[f].id = lfile[f].id /\ ~lfile'[f].piped
        /\ \A g \in LogFiles : g # f => lfile'[g] = lfile[g]
    BY <1>1, <1>4, LogState DEF LogStates
  <2>3. RemTypes'
    BY <1>1, <1>2, <1>4, <2>1, <2>2 DEF RemTypes
  <2>4. CallAgrees(t)'
    BY <1>1, <1>2, <2>1, <2>3, RemFree
  <2>5. \A d \in LogFiles : d = doing[t].f => PipeAgrees(d)'
    BY <1>1, <1>2, <2>2 DEF PipeAgrees
  <2>6. IdsGiven'
    <3>1. \A g \in LogFiles : lfile'[g].id = lfile[g].id
      BY <2>2
    <3> QED
      BY <1>1, <1>2, <3>1, RemIdsKept
  <2> QED
    BY <1>0, <1>2, <1>4, <2>1, <2>2, <2>3, <2>4, <2>5, <2>6, RemOwnStep DEF PipeOpen, PipeMade
<1> QED
  BY <1>3, <1>4 DEF MakePipe

LEMMA RemGoThroughPipe == ASSUME RemIInv, NEW t \in LogThreads, GoThroughPipe(t) PROVE RemIInv'
<1> DEFINE f == doing[t].f
<1>0. doing[t].op = "lopen" /\ UNCHANGED lfile
  BY DEF GoThroughPipe, In
<1>1. /\ RemTypes /\ IdsGiven /\ f \in LogFiles /\ genlock # t /\ ~lfile[f].piped /\ inpipe[f] = <<>>
      /\ lfile[f].state = "opening" /\ (doing[t].after => lfile[f].told)
  BY <1>0, RemOwnPlace DEF StateFor
<1>2. /\ UNCHANGED <<genlock, nextID, inpipe, atnet>>
      /\ faultsleft' \in 0..LogFaults /\ (NoFault' => NoFault)
  BY <1>1, RemoteAssumption DEF GoThroughPipe, SameData, Fault, RemTypes, NoFault
<1> DEFINE inw == [h \in LogFiles |-> IF Parent \in pipew[h] THEN pipew[h] \cup {f} ELSE pipew[h]]
           inr == [h \in LogFiles |-> IF Parent \in piper[h] THEN piper[h] \cup {f} ELSE piper[h]]
<1>3. CASE /\ Turns(t, "reader") /\ logchild' = [logchild EXCEPT ![f] = "run"]
           /\ piper' = inr /\ pipew' = [inw EXCEPT ![f] = @ \ {f}]
  <2>0. Parent \in pipew[f] /\ Parent \in piper[f] /\ f # Parent
    BY <1>1, RemoteAssumption DEF RemIInv, CallAgrees, HandedOver, Parent, GoThroughPipe, In, PipeMade
  <2>1. /\ doing' \in [LogThreads -> Calls]
        /\ doing'[t] = [doing[t] EXCEPT !.pc = "reader"] /\ doing'[t].pc = "reader"
        /\ doing'[t].op = doing[t].op /\ doing'[t].f = doing[t].f /\ doing'[t].after = doing[t].after
        /\ \A u \in LogThreads : u # t => doing'[u] = doing[u]
    BY <1>1, <1>3, LogTurns DEF LogPositions
  <2>2. /\ inw \in [LogFiles -> SUBSET (LogFiles \cup {Parent})]
        /\ inr \in [LogFiles -> SUBSET (LogFiles \cup {Parent})]
    BY <1>1 DEF RemTypes
  <2>3. /\ \A g \in LogFiles : pipew[g] \subseteq inw[g] /\ piper[g] \subseteq inr[g]
        /\ Parent \in inw[f] /\ f \in inr[f]
    BY <1>1, <2>0
  <2>4. /\ pipew' \in [LogFiles -> SUBSET (LogFiles \cup {Parent})] /\ pipew'[f] = inw[f] \ {f}
        /\ \A g \in LogFiles : g # f => pipew'[g] = inw[g]
        /\ piper' \in [LogFiles -> SUBSET (LogFiles \cup {Parent})]
        /\ \A g \in LogFiles : piper'[g] = inr[g]
    <3> HIDE DEF inw, inr
    <3> QED
      BY <1>1, <1>3, <2>2
  <2> HIDE DEF inw, inr
  <2>5. logchild' \in [LogFiles -> {"none", "run", "ended"}]
    BY <1>1, <1>3 DEF RemTypes
  <2>6. \A g \in LogFiles : g # f => (PipeOpen(g) => PipeOpen(g)') /\ (PipeMade(g) => PipeMade(g)')
    BY <1>2, <2>3, <2>4 DEF PipeOpen, PipeMade
  <2>7. RemTypes'
    BY <1>0, <1>1, <1>2, <2>1, <2>4, <2>5 DEF RemTypes
  <2>8. PipeOpen(f)'
    BY <1>1, <2>0, <2>1, <2>3, <2>4 DEF PipeOpen
  <2>9. CallAgrees(t)'
    <3>1. HandedOver(t)'
      BY <2>1, <2>8 DEF HandedOver, PipeOpen
    <3> QED
      BY <1>0, <1>1, <1>2, <2>1, <3>1 DEF CallAgrees, CallPlaced, StateFor, CopyAgrees, ModeAgrees
  <2>10. \A d \in LogFiles : d = doing[t].f => PipeAgrees(d)'
    BY <1>0, <1>1, <1>2 DEF PipeAgrees
  <2>11. IdsGiven'
    BY <1>0, <1>1, <1>2, RemIdsKept
  <2> QED
    BY <1>0, <1>2, <2>1, <2>6, <2>7, <2>9, <2>10, <2>11, RemOwnStep DEF LogPositions
<1>4. CASE Turns(t, "undo") /\ UNCHANGED <<pipew, piper, logchild>>
  <2>1. /\ doing' \in [LogThreads -> Calls]
        /\ doing'[t] = [doing[t] EXCEPT !.pc = "undo"] /\ doing'[t].pc = "undo"
        /\ doing'[t].op = doing[t].op /\ doing'[t].f = doing[t].f /\ doing'[t].after = doing[t].after
        /\ \A u \in LogThreads : u # t => doing'[u] = doing[u]
    BY <1>1, <1>4, LogTurns DEF LogPositions
  <2>2. RemTypes'
    BY <1>0, <1>1, <1>2, <1>4, <2>1 DEF RemTypes
  <2>3. CallAgrees(t)'
    BY <1>0, <1>1, <1>2, <2>1 DEF CallAgrees, CallPlaced, StateFor, CopyAgrees, ModeAgrees, HandedOver
  <2>4. \A d \in LogFiles : d = doing[t].f => PipeAgrees(d)'
    BY <1>0, <1>1, <1>2 DEF PipeAgrees
  <2>5. IdsGiven'
    BY <1>0, <1>1, <1>2, RemIdsKept
  <2> QED
    BY <1>0, <1>2, <1>4, <2>1, <2>2, <2>3, <2>4, <2>5, RemOwnStep DEF PipeOpen, PipeMade, LogPositions
<1> QED
  BY <1>3, <1>4 DEF GoThroughPipe

LEMMA RemCloseReader == ASSUME RemIInv, NEW t \in LogThreads, CloseReader(t) PROVE RemIInv'
<1> DEFINE f == doing[t].f
           pc == IF doing[t].pc = "reader" THEN "handover" ELSE "giveup"
<1>0. doing[t].op = "lopen" /\ doing[t].pc \in {"reader", "undo"} /\ Turns(t, pc) /\ pc \in {"handover", "giveup"}
  BY DEF CloseReader
<1>1. /\ RemTypes /\ IdsGiven /\ f \in LogFiles /\ genlock # t /\ ~lfile[f].piped /\ inpipe[f] = <<>>
      /\ lfile[f].state = "opening" /\ (doing[t].after => lfile[f].told)
  BY <1>0, RemOwnPlace DEF StateFor
<1>2. /\ UNCHANGED <<lfile, genlock, nextID, inpipe, atnet, pipew, logchild, faultsleft>> /\ (NoFault' => NoFault)
      /\ piper' = [piper EXCEPT ![f] = @ \ {Parent}]
  BY DEF CloseReader, SameData, Kept, NoFault
<1>3. pc = "handover" => doing[t].pc = "reader"
  OBVIOUS
<1> HIDE DEF pc
<1>4. /\ doing' \in [LogThreads -> Calls]
      /\ doing'[t] = [doing[t] EXCEPT !.pc = pc] /\ doing'[t].pc = pc
      /\ doing'[t].op = doing[t].op /\ doing'[t].f = doing[t].f /\ doing'[t].after = doing[t].after
      /\ \A u \in LogThreads : u # t => doing'[u] = doing[u]
  BY <1>0, <1>1, LogTurns DEF LogPositions
<1>5. /\ piper' \in [LogFiles -> SUBSET (LogFiles \cup {Parent})] /\ piper'[f] = piper[f] \ {Parent}
      /\ \A g \in LogFiles : g # f => piper'[g] = piper[g]
  BY <1>1, <1>2 DEF RemTypes
<1>6. \A g \in LogFiles : g # f => (PipeOpen(g) => PipeOpen(g)') /\ (PipeMade(g) => PipeMade(g)')
  BY <1>2, <1>5 DEF PipeOpen, PipeMade
<1>7. RemTypes'
  BY <1>1, <1>2, <1>4, <1>5 DEF RemTypes
<1>8. CallAgrees(t)'
  <2>1. ASSUME pc = "handover" PROVE PipeOpen(f)'
    <3>1. PipeOpen(f)
      BY <1>3, <2>1 DEF RemIInv, CallAgrees, HandedOver
    <3>2. f # Parent
      BY <1>1, RemoteAssumption DEF Parent
    <3> QED
      BY <1>2, <1>4, <1>5, <3>1, <3>2 DEF PipeOpen
  <2>2. HandedOver(t)'
    BY <1>0, <1>4, <2>1 DEF HandedOver, PipeOpen
  <2> QED
    BY <1>0, <1>1, <1>2, <1>4, <2>2 DEF CallAgrees, CallPlaced, StateFor, CopyAgrees, ModeAgrees
<1>9. \A d \in LogFiles : d = doing[t].f => PipeAgrees(d)'
  BY <1>1, <1>2 DEF PipeAgrees
<1>10. IdsGiven'
  BY <1>1, <1>2, RemIdsKept
<1> QED
  BY <1>0, <1>2, <1>4, <1>6, <1>7, <1>8, <1>9, <1>10, RemOwnStep DEF LogPositions

LEMMA RemLopenReturns == ASSUME RemIInv, NEW t \in LogThreads, LopenReturns(t) PROVE RemIInv'
<1> DEFINE f == doing[t].f
           forked == doing[t].pc = "handover"
<1>0. doing[t].op = "lopen" /\ doing[t].pc \in {"handover", "giveup"} /\ forked \in BOOLEAN
  BY DEF LopenReturns
<1>1. /\ RemTypes /\ IdsGiven /\ f \in LogFiles /\ genlock # t /\ inpipe[f] = <<>>
      /\ lfile[f] \in LFILEs
  BY <1>0, RemOwnPlace DEF StateFor
<1>2. /\ UNCHANGED <<genlock, nextID, inpipe, atnet, piper, logchild, faultsleft>>
      /\ (NoFault' => NoFault)
      /\ pipew' = IF forked THEN pipew ELSE [pipew EXCEPT ![f] = @ \ {Parent}]
      /\ lfile' = [lfile EXCEPT ![f].state = "open", ![f].piped = forked]
  BY DEF LopenReturns, SameData, Kept, NoFault
<1>3. forked => PipeOpen(f)
  BY DEF RemIInv, CallAgrees, HandedOver
<1> HIDE DEF forked
<1>4. /\ doing' \in [LogThreads -> Calls] /\ doing'[t] = NoLogCall
      /\ \A u \in LogThreads : u # t => doing'[u] = doing[u]
  BY <1>1, LogReturns DEF LopenReturns
<1>5. lfile' = [lfile EXCEPT ![f] = [lfile[f] EXCEPT !.state = "open", !.piped = forked]]
  BY <1>1, <1>2 DEF RemTypes
<1>6. [lfile[f] EXCEPT !.state = "open", !.piped = forked] \in LFILEs
  BY <1>0, <1>1, LFILEUpdates DEF LogStates
<1>7. /\ lfile' \in [LogFiles -> LFILEs]
      /\ lfile'[f] = [lfile[f] EXCEPT !.state = "open", !.piped = forked]
      /\ \A g \in LogFiles : g # f => lfile'[g] = lfile[g]
  BY <1>1, <1>5, <1>6, LFILEGoes
<1>8. /\ lfile'[f].gen = lfile[f].gen /\ lfile'[f].told = lfile[f].told /\ lfile'[f].id = lfile[f].id
      /\ lfile'[f].piped = forked /\ lfile'[f].state = "open"
  BY <1>1, <1>7 DEF LFILEs
<1>9. /\ pipew' \in [LogFiles -> SUBSET (LogFiles \cup {Parent})]
      /\ \A g \in LogFiles : g # f => pipew'[g] = pipew[g]
      /\ forked => pipew' = pipew
  BY <1>0, <1>1, <1>2 DEF RemTypes
<1>10. RemTypes'
  BY <1>1, <1>2, <1>4, <1>7, <1>9 DEF RemTypes
<1>11. CallAgrees(t)'
  BY <1>1, <1>2, <1>4, <1>10, RemFree
<1>12. \A d \in LogFiles : d = doing[t].f => PipeAgrees(d)'
  BY <1>1, <1>2, <1>3, <1>8, <1>9 DEF PipeAgrees, PipeOpen
<1>13. IdsGiven'
  <2>1. \A g \in LogFiles : lfile'[g].id = lfile[g].id
    BY <1>7, <1>8
  <2> QED
    BY <1>1, <1>2, <2>1, RemIdsKept
<1>14. \A g \in LogFiles : g # f => (PipeOpen(g) => PipeOpen(g)') /\ (PipeMade(g) => PipeMade(g)')
  BY <1>2, <1>9 DEF PipeOpen, PipeMade
<1> QED
  BY <1>0, <1>2, <1>4, <1>7, <1>8, <1>10, <1>11, <1>12, <1>13, <1>14, RemOwnStep

LEMMA RemLclose == ASSUME RemIInv, NEW t \in LogThreads, Lclose(t) PROVE RemIInv'
<1> DEFINE f == doing[t].f
<1>0. doing[t].op = "lclose"
  BY DEF Lclose, In
<1>1. RemTypes /\ IdsGiven /\ f \in LogFiles /\ genlock # t
  BY <1>0, RemOwnPlace
<1>2. /\ UNCHANGED <<genlock, nextID, inpipe, atnet, piper, logchild, faultsleft>> /\ (NoFault' => NoFault)
      /\ lfile' = [lfile EXCEPT ![f].state = "closed"] /\ pipew' = [pipew EXCEPT ![f] = @ \ {Parent}]
  BY DEF Lclose, SameData, Kept, NoFault
<1>3. /\ doing' \in [LogThreads -> Calls] /\ doing'[t] = NoLogCall
      /\ \A u \in LogThreads : u # t => doing'[u] = doing[u]
  BY <1>1, LogReturns DEF Lclose
<1>4. /\ lfile' \in [LogFiles -> LFILEs] /\ lfile'[f].gen = lfile[f].gen
      /\ lfile'[f].told = lfile[f].told /\ lfile'[f].id = lfile[f].id
      /\ lfile'[f].piped = lfile[f].piped /\ lfile'[f].state = "closed"
      /\ \A g \in LogFiles : g # f => lfile'[g] = lfile[g]
  BY <1>1, <1>2, LogState DEF LogStates
<1>5. /\ pipew' \in [LogFiles -> SUBSET (LogFiles \cup {Parent})]
      /\ \A g \in LogFiles : g # f => pipew'[g] = pipew[g]
  BY <1>1, <1>2 DEF RemTypes
<1>6. RemTypes'
  BY <1>1, <1>2, <1>3, <1>4, <1>5 DEF RemTypes
<1>7. CallAgrees(t)'
  BY <1>1, <1>2, <1>3, <1>6, RemFree
<1>8. \A d \in LogFiles : d = doing[t].f => PipeAgrees(d)'
  <2>1. ~lfile[f].piped => inpipe[f] = <<>>
    BY <1>1 DEF RemIInv, FileAgrees, PipeAgrees
  <2> QED
    BY <1>1, <1>2, <1>4, <2>1 DEF PipeAgrees
<1>9. IdsGiven'
  <2>1. \A g \in LogFiles : lfile'[g].id = lfile[g].id
    BY <1>4
  <2> QED
    BY <1>1, <1>2, <2>1, RemIdsKept
<1> QED
  BY <1>0, <1>2, <1>3, <1>4, <1>5, <1>6, <1>7, <1>8, <1>9, RemOwnStep DEF PipeOpen, PipeMade

-----------------------------------------------------------------------------
\* What a call that uses an open LFILE knows of it.
LEMMA RemUserPlace ==
    ASSUME RemIInv, NEW t \in LogThreads, doing[t].pc \in {"lock", "copy", "copy2", "times", "stamp", "write", "mode", "tell"}
    PROVE  /\ RemTypes /\ IdsGiven /\ Alone /\ doing[t] \in Calls /\ doing[t].f \in LogFiles
           /\ lfile[doing[t].f] \in LFILEs /\ lfile[doing[t].f].state = "open"
           /\ doing[t].op \in {"lgenerator", "lprintf", "lprintfg", "lsendtime"}
           /\ CallPlaced(t) /\ CopyAgrees(t) /\ ModeAgrees(t)
           /\ FileAgrees(doing[t].f)
<1>1. RemTypes /\ IdsGiven /\ Alone /\ CallPlaced(t) /\ CopyAgrees(t) /\ ModeAgrees(t)
  BY DEF RemIInv, CallAgrees
<1>2. doing[t].op \in {"lgenerator", "lprintf", "lprintfg", "lsendtime"}
  <2>1. doing[t].op \in LogOps
    BY <1>1 DEF RemTypes, Calls
  <2> QED
    BY <1>1, <2>1 DEF CallPlaced, NoLogCall, LogOps
<1>3. doing[t] \in Calls /\ doing[t].f \in LogFiles /\ lfile[doing[t].f] \in LFILEs
  BY <1>1, <1>2 DEF RemTypes, CallPlaced
<1>4. lfile[doing[t].f].state = "open"
  BY <1>1, <1>2 DEF CallPlaced, StateFor
<1>5. FileAgrees(doing[t].f)
  BY <1>3 DEF RemIInv
<1> QED
  BY <1>1, <1>2, <1>3, <1>4, <1>5

\* A step that leaves op and f of its thread, or returns, leaves lopen and lclose alone.
LEMMA RemAlone ==
    ASSUME Alone, NEW t \in LogThreads, doing[t].op \notin {"lopen", "lclose"},
           (doing'[t].op = doing[t].op /\ doing'[t].f = doing[t].f) \/ doing'[t] = NoLogCall,
           \A u \in LogThreads : u # t => doing'[u].op = doing[u].op /\ doing'[u].f = doing[u].f,
           \A u \in LogThreads : doing[u].op \in {"lopen", "lclose"} => doing[u].f # 0
    PROVE  Alone'
<1>1. ASSUME NEW u \in LogThreads, NEW v \in LogThreads, u # v, doing'[u].op \in {"lopen", "lclose"}
      PROVE  doing'[v].f # doing'[u].f
  <2>1. u # t
    BY <1>1 DEF NoLogCall
  <2>2. doing[u].op \in {"lopen", "lclose"} /\ doing'[u].f = doing[u].f /\ doing[u].f # 0
    BY <1>1, <2>1
  <2>3. doing[v].f # doing[u].f
    BY <1>1, <2>2 DEF Alone
  <2>4. doing'[v].f = doing[v].f \/ doing'[v].f = 0
    BY DEF NoLogCall
  <2> QED
    BY <2>2, <2>3, <2>4
<1> QED
  BY <1>1 DEF Alone

\* A step of such a call that changes no pipe's ends: what is left to show.
LEMMA RemUserStep ==
    ASSUME RemIInv, NEW t \in LogThreads, doing[t].pc \in {"lock", "copy", "copy2", "times", "stamp", "write", "tell"},
           RemTypes', CallAgrees(t)',
           (doing'[t].op = doing[t].op /\ doing'[t].f = doing[t].f) \/ doing'[t] = NoLogCall,
           \A u \in LogThreads : u # t => doing'[u] = doing[u],
           \A u \in LogThreads : u # t => (genlock' = u <=> genlock = u),
           \A g \in LogFiles : /\ lfile'[g].state = lfile[g].state /\ lfile'[g].tmode = lfile[g].tmode
                               /\ lfile[g].told => lfile'[g].told
                               /\ lfile'[g].id = lfile[g].id,
           \A u \in LogThreads : u # t /\ doing[u].pc = "copy2" => lfile'[doing[u].f].gen[1] = lfile[doing[u].f].gen[1],
           UNCHANGED <<nextID, pipew, piper, logchild>>, NoFault' => NoFault,
           \A g \in LogFiles : FileAgrees(g)'
    PROVE  RemIInv'
<1>0. RemTypes /\ IdsGiven /\ Alone /\ doing[t].op \in {"lgenerator", "lprintf", "lprintfg", "lsendtime"}
  BY RemUserPlace
<1>1. Alone'
  <2>1. \A u \in LogThreads : doing[u].op \in {"lopen", "lclose"} => doing[u].f # 0
    BY RemoteAssumption DEF RemIInv, CallAgrees, CallPlaced
  <2>2. doing[t].op \notin {"lopen", "lclose"}
    BY <1>0
  <2> QED
    BY <1>0, <2>1, <2>2, RemAlone
<1>2. IdsGiven'
  BY <1>0, RemIdsKept
<1>3. ASSUME NEW u \in LogThreads PROVE CallAgrees(u)'
  <2>1. CASE u # t
    <3>1. doing[u].op # "none" => doing[u].f \in LogFiles
      BY DEF RemIInv, CallAgrees, CallPlaced
    <3>2. HandedOver(u)'
      BY <2>1 DEF RemIInv, CallAgrees, HandedOver, PipeMade, PipeOpen
    <3> QED
      BY <2>1, <3>1, <3>2, RemOther
  <2> QED
    BY <2>1
<1> QED
  BY <1>1, <1>2, <1>3 DEF RemIInv

LEMMA RemLockGenerator == ASSUME RemIInv, NEW t \in LogThreads, LockGenerator(t) PROVE RemIInv'
<1>0. doing[t].pc = "lock"
  BY DEF LockGenerator
<1>1. /\ RemTypes /\ doing[t].f \in LogFiles /\ lfile[doing[t].f].state = "open"
      /\ doing[t].op \in {"lgenerator", "lprintf"} /\ CopyAgrees(t) /\ ModeAgrees(t) /\ genlock # t
  BY <1>0, RemUserPlace DEF CallPlaced, CopyAgrees
<1>2. /\ UNCHANGED <<lfile, nextID, pipew, piper, logchild, inpipe, atnet>>
      /\ faultsleft' \in 0..LogFaults /\ (NoFault' => NoFault)
  BY <1>1, RemoteAssumption DEF LockGenerator, SameData, SameEnds, SameFiles, Fault, RemTypes, NoFault
<1>3. ASSUME (doing'[t].op = doing[t].op /\ doing'[t].f = doing[t].f) \/ doing'[t] = NoLogCall,
             \A u \in LogThreads : u # t => doing'[u] = doing[u],
             \A u \in LogThreads : u # t => (genlock' = u <=> genlock = u),
             RemTypes', CallAgrees(t)'
      PROVE  RemIInv'
  <2>1. ASSUME NEW g \in LogFiles PROVE FileAgrees(g)'
    <3>1. Halfway(g) => Halfway(g)'
      <4> SUFFICES ASSUME NEW u \in LogThreads, doing[u].op = "lgenerator", doing[u].pc = "copy2", doing[u].f = g
                   PROVE  Halfway(g)'
        BY DEF Halfway
      <4>1. u # t
        BY <1>0
      <4> QED
        BY <1>3, <4>1 DEF Halfway
    <3>2. EntriesOf(g)' = EntriesOf(g)
      BY <1>2 DEF EntriesOf
    <3>3. PipeAgrees(g)'
      BY <1>2, RemPipe DEF PipeOpen
    <3> QED
      BY <1>2, <3>1, <3>2, <3>3, RemFile
  <2> QED
    BY <1>0, <1>2, <1>3, <2>1, RemUserStep
<1>4. CASE genlock = 0 /\ genlock' = t /\ Turns(t, "copy")
  <2>1. /\ doing' \in [LogThreads -> Calls] /\ doing'[t].pc = "copy"
        /\ doing'[t].op = doing[t].op /\ doing'[t].f = doing[t].f /\ doing'[t].gen = doing[t].gen
        /\ doing'[t].after = doing[t].after
        /\ \A u \in LogThreads : u # t => doing'[u] = doing[u]
    BY <1>1, <1>4, LogTurns DEF LogPositions
  <2>2. RemTypes'
    BY <1>1, <1>2, <1>4, <2>1 DEF RemTypes
  <2>3. CallAgrees(t)'
    BY <1>1, <1>2, <1>4, <2>1 DEF CallAgrees, CallPlaced, StateFor, CopyAgrees, ModeAgrees, HandedOver
  <2> QED
    BY <1>3, <1>4, <2>1, <2>2, <2>3, RemoteAssumption
<1>5. CASE Returns(t) /\ UNCHANGED genlock
  <2>1. /\ doing' \in [LogThreads -> Calls] /\ doing'[t] = NoLogCall
        /\ \A u \in LogThreads : u # t => doing'[u] = doing[u]
    BY <1>1, <1>5, LogReturns
  <2>2. RemTypes'
    BY <1>1, <1>2, <1>5, <2>1 DEF RemTypes
  <2>3. CallAgrees(t)'
    BY <1>1, <1>5, <2>1, <2>2, RemFree
  <2> QED
    BY <1>3, <1>5, <2>1, <2>2, <2>3
<1> QED
  BY <1>4, <1>5 DEF LockGenerator

\* TakeTime and StampEntry.
LEMMA RemStamps ==
    ASSUME RemIInv, NEW t \in LogThreads, TakeTime(t) \/ StampEntry(t)
    PROVE  RemIInv'
<1> DEFINE f == doing[t].f
<1>0. doing[t].pc \in {"times", "stamp"}
  BY DEF TakeTime, StampEntry
<1>1. /\ RemTypes /\ doing[t] \in Calls /\ f \in LogFiles /\ lfile[f].state = "open"
      /\ doing[t].op \in {"lprintf", "lprintfg"} /\ CopyAgrees(t) /\ ModeAgrees(t) /\ genlock # t
      /\ lfile[f] \in LFILEs
  BY <1>0, RemUserPlace DEF CallPlaced, CopyAgrees
<1>2. /\ UNCHANGED <<faultsleft, genlock, lfile, nextID, pipew, piper, logchild, inpipe, atnet>>
      /\ (NoFault' => NoFault)
  BY DEF TakeTime, StampEntry, SameData, SameEnds, SameFiles, Kept, NoFault
<1>3. PICK c \in Calls : doing' = [doing EXCEPT ![t] = c] /\ c.op = doing[t].op /\ c.f = f
                         /\ c.gen = doing[t].gen /\ c.after = doing[t].after /\ c.raced = doing[t].raced
                         /\ \/ c.pc = "stamp" /\ c.known = lfile[f].tmode
                            \/ /\ doing[t].pc = "stamp" /\ c.pc = "write" /\ c.timed = lfile[f].tmode
                               /\ c.known = doing[t].known
  <2>1. lfile[f].tmode \in BOOLEAN
    BY <1>1 DEF LFILEs
  <2>2. CASE TakeTime(t)
    <3> DEFINE c == [doing[t] EXCEPT !.pc = "stamp", !.known = lfile[f].tmode]
    <3>1. c \in Calls
      BY <1>1, <2>1, CallUpdates DEF LogPositions
    <3>2. doing' = [doing EXCEPT ![t] = c]
      BY <1>1, <2>2 DEF TakeTime, RemTypes
    <3>3. /\ c.op = doing[t].op /\ c.f = f /\ c.gen = doing[t].gen /\ c.after = doing[t].after
          /\ c.raced = doing[t].raced /\ c.pc = "stamp" /\ c.known = lfile[f].tmode
      BY <1>1 DEF Calls
    <3> HIDE DEF c
    <3> QED
      BY <3>1, <3>2, <3>3
  <2>3. CASE StampEntry(t)
    <3> DEFINE c == [doing[t] EXCEPT !.pc = "write", !.timed = lfile[f].tmode]
    <3>1. c \in Calls
      BY <1>1, <2>1, CallUpdates DEF LogPositions
    <3>2. doing' = [doing EXCEPT ![t] = c] /\ doing[t].pc = "stamp"
      BY <1>1, <2>3 DEF StampEntry, RemTypes
    <3>3. /\ c.op = doing[t].op /\ c.f = f /\ c.gen = doing[t].gen /\ c.after = doing[t].after
          /\ c.raced = doing[t].raced /\ c.pc = "write" /\ c.timed = lfile[f].tmode
          /\ c.known = doing[t].known
      BY <1>1 DEF Calls
    <3> HIDE DEF c
    <3> QED
      BY <3>1, <3>2, <3>3
  <2> QED
    BY <2>2, <2>3
<1>4. /\ doing' \in [LogThreads -> Calls] /\ doing'[t] = c
      /\ \A u \in LogThreads : u # t => doing'[u] = doing[u]
  BY <1>1, <1>3, CallGoes
<1>5. RemTypes'
  BY <1>1, <1>2, <1>4 DEF RemTypes
<1>6. CallAgrees(t)'
  <2>1. CallPlaced(t)'
    BY <1>1, <1>2, <1>3, <1>4 DEF CallPlaced, StateFor
  <2>2. CopyAgrees(t)'
    BY <1>0, <1>1, <1>2, <1>3, <1>4 DEF CopyAgrees, Whole
  <2>3. ModeAgrees(t)'
    BY <1>1, <1>2, <1>3, <1>4 DEF ModeAgrees
  <2>4. HandedOver(t)'
    BY <1>3, <1>4 DEF HandedOver
  <2> QED
    BY <2>1, <2>2, <2>3, <2>4 DEF CallAgrees
<1>7. ASSUME NEW g \in LogFiles PROVE FileAgrees(g)'
  <2>1. Halfway(g) => Halfway(g)'
    <3> SUFFICES ASSUME NEW u \in LogThreads, doing[u].op = "lgenerator", doing[u].pc = "copy2", doing[u].f = g
                 PROVE  Halfway(g)'
      BY DEF Halfway
    <3>1. u # t
      BY <1>0
    <3> QED
      BY <1>4, <3>1 DEF Halfway
  <2>2. EntriesOf(g)' = EntriesOf(g)
    BY <1>2 DEF EntriesOf
  <2>3. PipeAgrees(g)'
    BY <1>2, RemPipe DEF PipeOpen
  <2> QED
    BY <1>2, <2>1, <2>2, <2>3, RemFile
<1> QED
  BY <1>0, <1>2, <1>3, <1>4, <1>5, <1>6, <1>7, RemUserStep

LEMMA RemCopyGenerator == ASSUME RemIInv, NEW t \in LogThreads, CopyGenerator(t) PROVE RemIInv'
<1> DEFINE f == doing[t].f
<1>0. doing[t].pc \in {"copy", "copy2"}
  BY DEF CopyGenerator
<1>1. /\ RemTypes /\ doing[t] \in Calls /\ f \in LogFiles /\ lfile[f].state = "open"
      /\ doing[t].op \in {"lgenerator", "lprintf"} /\ CopyAgrees(t) /\ ModeAgrees(t) /\ genlock = t
      /\ lfile[f] \in LFILEs /\ FileAgrees(f)
  BY <1>0, RemUserPlace DEF CallPlaced, CopyAgrees
<1>2. /\ UNCHANGED <<faultsleft, nextID, pipew, piper, logchild, inpipe, atnet>> /\ (NoFault' => NoFault)
      /\ genlock' = IF doing[t].pc = "copy2" THEN 0 ELSE t
  BY <1>0, <1>1 DEF CopyGenerator, SameData, SameEnds, Kept, NoFault
<1>3. \A u \in LogThreads : u # t => /\ genlock' = u <=> genlock = u
                                     /\ doing[u].pc \notin {"copy", "copy2"}
  <2>1. ASSUME NEW u \in LogThreads, u # t PROVE doing[u].pc \notin {"copy", "copy2"}
    BY <1>1, <2>1 DEF RemIInv, CallAgrees, CopyAgrees
  <2> QED
    BY <1>1, <1>2, <2>1, RemoteAssumption
<1>4. doing[t].gen \in Generators /\ lfile[f].gen \in Generators
  BY <1>1 DEF Calls, LFILEs
<1>5. CASE doing[t].op = "lprintf"
  <2>1. Whole(lfile[f].gen, f)
    <3>1. ~Halfway(f)
      BY <1>3, <1>5 DEF Halfway
    <3> QED
      BY <1>1, <3>1 DEF FileAgrees, GeneratorWhole, Whole
  <2>2. UNCHANGED lfile
    BY <1>5 DEF CopyGenerator
  <2>3. PICK c \in Calls : doing' = [doing EXCEPT ![t] = c] /\ c.op = "lprintf" /\ c.f = f
                           /\ c.after = doing[t].after
                           /\ \/ doing[t].pc = "copy" /\ c.pc = "copy2" /\ c.gen[1] = lfile[f].gen[1]
                              \/ doing[t].pc = "copy2" /\ c.pc = "times" /\ c.gen = lfile[f].gen
    <3>1. CASE doing[t].pc = "copy"
      <4> DEFINE g == [doing[t].gen EXCEPT ![1] = lfile[f].gen[1]]
                 c == [doing[t] EXCEPT !.gen = g, !.pc = "copy2"]
      <4>1. g \in Generators /\ g[1] = lfile[f].gen[1]
        BY <1>4 DEF Generators
      <4>2. doing' = [doing EXCEPT ![t] = c]
        BY <1>1, <1>5, <3>1 DEF CopyGenerator, RemTypes
      <4> HIDE DEF g
      <4>3. c \in Calls
        BY <1>1, <4>1, CallUpdates DEF LogPositions
      <4>4. c.op = "lprintf" /\ c.f = f /\ c.after = doing[t].after /\ c.pc = "copy2" /\ c.gen = g
        BY <1>1, <1>5 DEF Calls
      <4> HIDE DEF c
      <4> QED
        BY <3>1, <4>1, <4>2, <4>3, <4>4
    <3>2. CASE doing[t].pc = "copy2"
      <4> DEFINE g == [doing[t].gen EXCEPT ![2] = lfile[f].gen[2]]
                 c == [doing[t] EXCEPT !.gen = g, !.pc = "times"]
      <4>1. g \in Generators /\ g[1] = lfile[f].gen[1] /\ g[2] = lfile[f].gen[2]
        BY <1>1, <1>4, <1>5, <3>2 DEF Generators, CopyAgrees
      <4>2. doing' = [doing EXCEPT ![t] = c]
        <5>1. doing' = [doing EXCEPT ![t].gen[2] = lfile[f].gen[2], ![t].pc = "times"]
          BY <1>5, <3>2 DEF CopyGenerator
        <5> QED
          BY <1>1, <5>1 DEF RemTypes
      <4> HIDE DEF g
      <4>3. c \in Calls
        BY <1>1, <4>1, CallUpdates DEF LogPositions
      <4>4. c.op = "lprintf" /\ c.f = f /\ c.after = doing[t].after /\ c.pc = "times" /\ c.gen = g
        BY <1>1, <1>5 DEF Calls
      <4>5. g = lfile[f].gen
        BY <1>4, <4>1 DEF Generators
      <4> HIDE DEF c
      <4> QED
        BY <3>2, <4>2, <4>3, <4>4, <4>5
    <3> QED
      BY <1>0, <3>1, <3>2
  <2>4. /\ doing' \in [LogThreads -> Calls] /\ doing'[t] = c
        /\ \A u \in LogThreads : u # t => doing'[u] = doing[u]
    BY <1>1, <2>3, CallGoes
  <2>5. RemTypes'
    BY <1>1, <1>2, <2>2, <2>4 DEF RemTypes
  <2>6. CallAgrees(t)'
    <3>1. CallPlaced(t)'
      BY <1>1, <2>2, <2>3, <2>4 DEF CallPlaced, StateFor
    <3>2. CopyAgrees(t)'
      BY <1>2, <2>1, <2>2, <2>3, <2>4, RemoteAssumption DEF CopyAgrees, Whole
    <3>3. ModeAgrees(t)' /\ HandedOver(t)'
      BY <1>1, <2>2, <2>3, <2>4 DEF ModeAgrees, HandedOver
    <3> QED
      BY <3>1, <3>2, <3>3 DEF CallAgrees
  <2>7. ASSUME NEW g \in LogFiles PROVE FileAgrees(g)'
    <3>1. Halfway(g) => Halfway(g)'
      BY <1>3, <1>5 DEF Halfway
    <3>2. EntriesOf(g)' = EntriesOf(g)
      BY <1>2 DEF EntriesOf
    <3>3. PipeAgrees(g)'
      BY <1>2, <2>2, RemPipe DEF PipeOpen
    <3> QED
      BY <1>2, <2>2, <3>1, <3>2, <3>3, RemFile
  <2> QED
    BY <1>0, <1>2, <1>3, <1>5, <2>2, <2>3, <2>4, <2>5, <2>6, <2>7, RemUserStep
<1>6. CASE doing[t].op = "lgenerator"
  <2> DEFINE g == IF doing[t].pc = "copy" THEN <<f, lfile[f].gen[2]>> ELSE <<f, f>>
  <2>1. doing[t].gen = <<f, f>> /\ (doing[t].pc = "copy2" => lfile[f].gen[1] = f)
    BY <1>1, <1>6 DEF CopyAgrees
  <2>2. g \in Generators /\ lfile' = [lfile EXCEPT ![f] = [lfile[f] EXCEPT !.gen = g]]
    <3>1. f \in Nat
      BY <1>1, RemoteAssumption
    <3>2. CASE doing[t].pc = "copy"
      <4>1. [lfile[f].gen EXCEPT ![1] = doing[t].gen[1]] = g
        BY <1>4, <2>1, <3>1, <3>2 DEF Generators
      <4>2. lfile' = [lfile EXCEPT ![f] = [lfile[f] EXCEPT !.gen = [lfile[f].gen EXCEPT ![1] = doing[t].gen[1]]]]
        BY <1>1, <1>6, <3>2 DEF CopyGenerator, RemTypes
      <4>3. g \in Generators
        BY <1>4, <3>1, <3>2 DEF Generators
      <4> QED
        BY <4>1, <4>2, <4>3
    <3>3. CASE doing[t].pc = "copy2"
      <4>1. [lfile[f].gen EXCEPT ![2] = doing[t].gen[2]] = g
        BY <1>4, <2>1, <3>1, <3>3 DEF Generators
      <4>2. lfile' = [lfile EXCEPT ![f] = [lfile[f] EXCEPT !.gen = [lfile[f].gen EXCEPT ![2] = doing[t].gen[2]]]]
        BY <1>1, <1>6, <3>3 DEF CopyGenerator, RemTypes
      <4>3. g \in Generators
        BY <1>4, <3>1, <3>3 DEF Generators
      <4> QED
        BY <4>1, <4>2, <4>3
    <3> QED
      BY <1>0, <3>2, <3>3
  <2>a. /\ doing[t].pc = "copy" => g = <<f, lfile[f].gen[2]>>
        /\ doing[t].pc = "copy2" => g = <<f, f>>
    OBVIOUS
  <2> HIDE DEF g
  <2>3. [lfile[f] EXCEPT !.gen = g] \in LFILEs
    BY <1>1, <2>2, LFILEUpdates
  <2>4. /\ lfile' \in [LogFiles -> LFILEs] /\ lfile'[f] = [lfile[f] EXCEPT !.gen = g]
        /\ \A h \in LogFiles : h # f => lfile'[h] = lfile[h]
    BY <1>1, <2>2, <2>3, LFILEGoes
  <2>5. /\ lfile'[f].gen = g /\ lfile'[f].state = lfile[f].state /\ lfile'[f].tmode = lfile[f].tmode
        /\ lfile'[f].told = lfile[f].told /\ lfile'[f].id = lfile[f].id /\ lfile'[f].piped = lfile[f].piped
    BY <1>1, <2>4 DEF LFILEs
  <2>6. /\ doing' \in [LogThreads -> Calls]
        /\ \/ /\ doing[t].pc = "copy" /\ doing'[t].pc = "copy2" /\ doing'[t].op = "lgenerator" /\ doing'[t].f = f
              /\ doing'[t].gen = doing[t].gen /\ doing'[t].after = doing[t].after
           \/ doing[t].pc = "copy2" /\ doing'[t] = NoLogCall
        /\ \A u \in LogThreads : u # t => doing'[u] = doing[u]
    <3>1. CASE doing[t].pc = "copy"
      <4>1. Turns(t, "copy2")
        BY <1>6, <3>1 DEF CopyGenerator
      <4> QED
        BY <1>1, <1>6, <3>1, <4>1, LogTurns DEF LogPositions
    <3>2. CASE doing[t].pc = "copy2"
      <4>1. Returns(t)
        BY <1>6, <3>2 DEF CopyGenerator
      <4> QED
        BY <1>1, <3>2, <4>1, LogReturns
    <3> QED
      BY <1>0, <3>1, <3>2
  <2>7. RemTypes'
    BY <1>1, <1>2, <2>4, <2>6 DEF RemTypes
  <2>8. CallAgrees(t)'
    <3>1. CASE doing[t].pc = "copy"
      <4>0. lfile'[f].gen[1] = f
        BY <1>4, <2>5, <2>a, <3>1
      <4>1. CopyAgrees(t)'
        BY <1>2, <2>1, <2>6, <3>1, <4>0 DEF CopyAgrees
      <4> QED
        BY <1>1, <2>5, <2>6, <3>1, <4>1 DEF CallAgrees, CallPlaced, StateFor, ModeAgrees, HandedOver
    <3>2. CASE doing[t].pc = "copy2"
      BY <1>2, <2>6, <2>7, <3>2, RemFree, RemoteAssumption
    <3> QED
      BY <1>0, <3>1, <3>2
  <2>9. ASSUME NEW h \in LogFiles PROVE FileAgrees(h)'
    <3>1. PipeAgrees(h)'
      <4>1. /\ lfile'[h].state = lfile[h].state /\ lfile'[h].piped = lfile[h].piped
        BY <2>4, <2>5
      <4> QED
        BY <1>2, <4>1 DEF RemIInv, FileAgrees, PipeAgrees, PipeOpen
    <3>2. EntriesOf(h)' = EntriesOf(h)
      BY <1>2 DEF EntriesOf
    <3>3. LogRight(h)'
      <4>1. lfile'[h].told = lfile[h].told
        BY <2>4, <2>5
      <4> QED
        BY <1>2, <3>2, <4>1 DEF RemIInv, FileAgrees, LogRight, EntryRight, Announced, Announcement, expand_gen
    <3>4. GeneratorWhole(h)'
      <4>1. CASE h # f
        <5>1. ~Halfway(h)
          BY <1>3, <4>1 DEF Halfway
        <5> QED
          BY <2>4, <4>1, <5>1 DEF RemIInv, FileAgrees, GeneratorWhole
      <4>2. CASE h = f
        <5>1. CASE doing[t].pc = "copy"
          <6>1. Halfway(h)'
            BY <2>6, <4>2, <5>1 DEF Halfway
          <6>2. lfile[f].gen[2] \in {0, f}
            BY <1>1 DEF FileAgrees, GeneratorWhole
          <6> QED
            BY <2>5, <2>a, <4>2, <5>1, <6>1, <6>2 DEF GeneratorWhole
        <5>2. CASE doing[t].pc = "copy2"
          <6>1. f # 0
            BY <1>1, RemoteAssumption
          <6> QED
            BY <2>5, <2>a, <4>2, <5>2, <6>1 DEF GeneratorWhole
        <5> QED
          BY <1>0, <5>1, <5>2
      <4> QED
        BY <4>1, <4>2
    <3> QED
      BY <3>1, <3>3, <3>4 DEF FileAgrees
  <2>10. \A h \in LogFiles : /\ lfile'[h].state = lfile[h].state /\ lfile'[h].tmode = lfile[h].tmode
                             /\ lfile'[h].told = lfile[h].told /\ lfile'[h].id = lfile[h].id
    BY <2>4, <2>5
  <2> QED
    BY <1>0, <1>2, <1>3, <1>6, <2>6, <2>7, <2>8, <2>9, <2>10, RemUserStep
<1> QED
  BY <1>1, <1>5, <1>6

-----------------------------------------------------------------------------
\* Entries in the net and in the pipe behind it.
LEMMA PipeJoins ==
    ASSUME NEW S, NEW a \in Seq(S), NEW b \in Seq(S), NEW e \in S
    PROVE  /\ a \o Append(b, e) = Append(a \o b, e)
           /\ b = <<>> => Append(a, e) \o b = Append(a \o b, e)
           /\ b # <<>> => Append(a, Head(b)) \o Tail(b) = a \o b
<1>1. a \o Append(b, e) = Append(a \o b, e)
  OBVIOUS
<1>2. b = <<>> => Append(a, e) \o b = Append(a \o b, e)
  OBVIOUS
<1>3. b # <<>> => Append(a, Head(b)) \o Tail(b) = a \o b
  OBVIOUS
<1> QED
  BY <1>1, <1>2, <1>3

\* An entry comes at the end, or is lost to an error.
LEMMA RemPut ==
    ASSUME RemIInv, NEW t \in LogThreads, NEW f \in LogFiles, f = doing[t].f, lfile[f].state = "open",
           NEW entry \in Entries, PutEntry(t, entry)
    PROVE  /\ \A g \in LogFiles : g # f => EntriesOf(g)' = EntriesOf(g)
           /\ \/ ~NoFault' /\ EntriesOf(f)' = EntriesOf(f)
              \/ EntriesOf(f)' = Append(EntriesOf(f), entry)
<1>0. RemTypes /\ inpipe[f] \in Seq(Entries) /\ atnet[f] \in Seq(Entries) /\ PipeAgrees(f)
  BY DEF RemIInv, RemTypes, FileAgrees
<1>1. \A g \in LogFiles : g # f => EntriesOf(g)' = EntriesOf(g)
  BY <1>0, RemPuts DEF EntriesOf
<1>2. CASE UNCHANGED faultsleft
  <2>1. CASE ~lfile[f].piped /\ atnet' = [atnet EXCEPT ![f] = Append(@, entry)] /\ UNCHANGED inpipe
    <3>1. inpipe[f] = <<>> /\ atnet'[f] = Append(atnet[f], entry) /\ inpipe'[f] = inpipe[f]
      BY <1>0, <2>1 DEF PipeAgrees, RemTypes
    <3>2. Append(atnet[f], entry) \o inpipe[f] = Append(atnet[f] \o inpipe[f], entry)
      BY <1>0, <3>1, PipeJoins
    <3> QED
      BY <1>1, <3>1, <3>2 DEF EntriesOf
  <2>2. CASE inpipe' = [inpipe EXCEPT ![f] = Append(@, entry)] /\ UNCHANGED atnet
    <3>1. inpipe'[f] = Append(inpipe[f], entry) /\ atnet'[f] = atnet[f]
      BY <1>0, <2>2 DEF RemTypes
    <3>2. atnet[f] \o Append(inpipe[f], entry) = Append(atnet[f] \o inpipe[f], entry)
      <4> DEFINE a == atnet[f]
                 b == inpipe[f]
      <4>1. a \in Seq(Entries) /\ b \in Seq(Entries)
        BY <1>0
      <4> HIDE DEF a, b
      <4>2. a \o Append(b, entry) = Append(a \o b, entry)
        BY <4>1, PipeJoins
      <4> QED
        BY <4>2 DEF a, b
    <3> QED
      BY <1>1, <3>1, <3>2 DEF EntriesOf
  <2>3. CASE lfile[f].piped /\ piper[f] = {} /\ UNCHANGED <<inpipe, atnet>>
    <3>1. ~NoFault
      BY <1>0, <2>3 DEF PipeAgrees, PipeOpen
    <3> QED
      BY <1>1, <1>2, <2>3, <3>1 DEF EntriesOf, NoFault
  <2>4. CASE Fault
    BY <1>0, <1>2, <2>4, RemoteAssumption DEF Fault, RemTypes
  <2> QED
    BY <1>2, <2>1, <2>2, <2>3, <2>4 DEF PutEntry, SameData
<1>3. CASE Fault /\ SameData
  <2>1. ~NoFault'
    BY <1>0, <1>3, RemoteAssumption DEF Fault, RemTypes, NoFault
  <2> QED
    BY <1>1, <1>3, <2>1 DEF EntriesOf, SameData
<1> QED
  BY <1>2, <1>3 DEF PutEntry

\* The log is right when the entry is.
LEMMA RemAppended ==
    ASSUME RemIInv, NEW f \in LogFiles, NEW entry \in Entries, NoFault' => NoFault,
           \/ ~NoFault' /\ EntriesOf(f)' = EntriesOf(f)
           \/ EntriesOf(f)' = Append(EntriesOf(f), entry),
           Whole(entry.gen.text, f), entry.timed /\ ~entry.raced => entry.known,
           entry.after => lfile[f].told,
           lfile'[f].told => lfile[f].told \/ entry = Announcement
    PROVE  LogRight(f)'
<1> DEFINE s == EntriesOf(f)
<1>0. s \in Seq(Entries) /\ LogRight(f)
  BY DEF RemIInv, RemTypes, FileAgrees, EntriesOf
<1>1. CASE ~NoFault' /\ EntriesOf(f)' = EntriesOf(f)
  BY <1>0, <1>1 DEF LogRight, EntryRight, Announcement, expand_gen
<1>2. CASE EntriesOf(f)' = Append(EntriesOf(f), entry)
  <2> DEFINE s2 == EntriesOf(f)'
  <2>1. /\ s2 = Append(s, entry) /\ Announcement' = Announcement
        /\ \A k \in 1..Len(s) : EntryRight(s, f, k)
        /\ lfile[f].told /\ NoFault => \E j \in 1..Len(s) : s[j] = Announcement
    BY <1>0, <1>2 DEF LogRight, Announced, Announcement, expand_gen
  <2> HIDE DEF s, s2
  <2>2. /\ Len(s) \in Nat /\ Len(s2) = Len(s) + 1 /\ s2[Len(s) + 1] = entry
        /\ \A k \in 1..Len(s) : s2[k] = s[k]
    BY <1>0, <2>1
  <2>3. ASSUME NEW k \in 1..Len(s2)
        PROVE  /\ Whole(s2[k].gen.text, f)
               /\ s2[k].timed /\ ~s2[k].raced => s2[k].known
               /\ s2[k].after /\ NoFault' => \E j \in 1..(k - 1) : s2[j] = Announcement
    <3>1. CASE k \in 1..Len(s)
      <4>1. EntryRight(s, f, k) /\ s2[k] = s[k]
        BY <2>1, <2>2, <3>1
      <4>2. \A j \in 1..(k - 1) : j \in 1..Len(s)
        BY <2>2, <3>1
      <4> QED
        BY <2>2, <4>1, <4>2 DEF EntryRight
    <3>2. CASE k = Len(s) + 1
      <4>1. s2[k] = entry /\ k - 1 = Len(s)
        BY <2>2, <3>2
      <4> QED
        BY <2>1, <2>2, <4>1
    <3> QED
      BY <2>2, <3>1, <3>2
  <2>4. lfile'[f].told /\ NoFault' => \E j \in 1..Len(s2) : s2[j] = Announcement
    <3>1. CASE lfile[f].told /\ NoFault
      BY <2>1, <2>2, <3>1
    <3>2. CASE entry = Announcement
      BY <2>2, <3>2
    <3> QED
      BY <3>1, <3>2
  <2>5. (\A k \in 1..Len(EntriesOf(f)) : EntryRight(EntriesOf(f), f, k))'
    BY <2>1, <2>3 DEF EntryRight, Whole, s2
  <2>6. (lfile[f].told /\ NoFault => Announced(EntriesOf(f)))'
    BY <2>1, <2>4 DEF Announced, s2
  <2> QED
    BY <2>5, <2>6 DEF LogRight
<1> QED
  BY <1>1, <1>2

\* A call that ends with an entry.
LEMMA RemWrites ==
    ASSUME RemIInv, NEW t \in LogThreads, doing[t].pc \in {"write", "tell"}, Returns(t),
           NEW entry \in Entries, PutEntry(t, entry),
           Whole(entry.gen.text, doing[t].f), entry.timed /\ ~entry.raced => entry.known,
           entry.after => lfile[doing[t].f].told,
           UNCHANGED <<nextID, genlock, pipew, piper, logchild>>,
           \/ UNCHANGED lfile
           \/ entry = Announcement /\ lfile' = [lfile EXCEPT ![doing[t].f].told = TRUE]
    PROVE  RemIInv'
<1> DEFINE f == doing[t].f
<1>1. /\ RemTypes /\ f \in LogFiles /\ lfile[f] \in LFILEs /\ lfile[f].state = "open" /\ genlock # t
  BY RemUserPlace DEF CopyAgrees
<1>2. /\ doing' \in [LogThreads -> Calls] /\ doing'[t] = NoLogCall
      /\ \A u \in LogThreads : u # t => doing'[u] = doing[u]
  BY <1>1, LogReturns
<1>3. /\ faultsleft' \in 0..LogFaults /\ (NoFault' => NoFault)
      /\ inpipe' \in [LogFiles -> Seq(Entries)] /\ atnet' \in [LogFiles -> Seq(Entries)]
      /\ \A g \in LogFiles : g # f => inpipe'[g] = inpipe[g]
      /\ ~lfile[f].piped => inpipe'[f] = inpipe[f]
  BY <1>1, RemPuts
<1>4. /\ lfile' \in [LogFiles -> LFILEs]
      /\ \A g \in LogFiles : g # f => lfile'[g] = lfile[g]
      /\ lfile'[f].gen = lfile[f].gen /\ lfile'[f].state = lfile[f].state /\ lfile'[f].id = lfile[f].id
      /\ lfile'[f].tmode = lfile[f].tmode /\ lfile'[f].piped = lfile[f].piped
      /\ lfile[f].told => lfile'[f].told
      /\ lfile'[f].told => lfile[f].told \/ entry = Announcement
  <2>1. CASE UNCHANGED lfile
    BY <1>1, <2>1 DEF RemTypes
  <2>2. CASE entry = Announcement /\ lfile' = [lfile EXCEPT ![f].told = TRUE]
    <3>1. lfile' = [lfile EXCEPT ![f] = [lfile[f] EXCEPT !.told = TRUE]]
      BY <1>1, <2>2 DEF RemTypes
    <3>2. [lfile[f] EXCEPT !.told = TRUE] \in LFILEs
      BY <1>1, LFILEUpdates
    <3>3. /\ lfile' \in [LogFiles -> LFILEs] /\ lfile'[f] = [lfile[f] EXCEPT !.told = TRUE]
          /\ \A g \in LogFiles : g # f => lfile'[g] = lfile[g]
      BY <1>1, <3>1, <3>2, LFILEGoes
    <3> QED
      BY <1>1, <2>2, <3>3 DEF LFILEs
  <2> QED
    BY <2>1, <2>2
<1>5. RemTypes'
  BY <1>1, <1>2, <1>3, <1>4 DEF RemTypes
<1>6. CallAgrees(t)'
  BY <1>1, <1>2, <1>5, RemFree
<1>7. ASSUME NEW g \in LogFiles PROVE FileAgrees(g)'
  <2>0. FileAgrees(g)
    BY DEF RemIInv
  <2>1. GeneratorWhole(g)'
    <3>1. Halfway(g) => Halfway(g)'
      <4> SUFFICES ASSUME NEW u \in LogThreads, doing[u].op = "lgenerator", doing[u].pc = "copy2", doing[u].f = g
                   PROVE  Halfway(g)'
        BY DEF Halfway
      <4>1. u # t
        OBVIOUS
      <4> QED
        BY <1>2, <4>1 DEF Halfway
    <3>2. lfile'[g].gen = lfile[g].gen
      BY <1>4
    <3> QED
      BY <2>0, <3>1, <3>2 DEF FileAgrees, GeneratorWhole
  <2>2. PipeAgrees(g)'
    <3>1. lfile'[g].state = lfile[g].state /\ lfile'[g].piped = lfile[g].piped
      BY <1>4
    <3>2. ~lfile[g].piped => inpipe'[g] = inpipe[g]
      BY <1>3
    <3> QED
      BY <1>3, <2>0, <3>1, <3>2 DEF FileAgrees, PipeAgrees, PipeOpen
  <2>3. LogRight(g)'
    <3>1. CASE g = f
      <4>1. \/ ~NoFault' /\ EntriesOf(g)' = EntriesOf(g)
            \/ EntriesOf(g)' = Append(EntriesOf(g), entry)
        BY <1>1, <3>1, RemPut
      <4> QED
        BY <1>3, <1>4, <3>1, <4>1, RemAppended
    <3>2. CASE g # f
      <4>1. EntriesOf(g)' = EntriesOf(g) /\ lfile'[g].told = lfile[g].told
        BY <1>1, <1>4, <3>2, RemPut
      <4> QED
        BY <1>3, <2>0, <4>1 DEF FileAgrees, LogRight, EntryRight, Announced, Announcement, expand_gen
    <3> QED
      BY <3>1, <3>2
  <2> QED
    BY <2>1, <2>2, <2>3 DEF FileAgrees
<1>8. \A g \in LogFiles : /\ lfile'[g].state = lfile[g].state /\ lfile'[g].tmode = lfile[g].tmode
                          /\ lfile[g].told => lfile'[g].told
                          /\ lfile'[g].id = lfile[g].id /\ lfile'[g].gen = lfile[g].gen
  BY <1>4
<1>9. \A u \in LogThreads : doing[u].pc = "copy2" => doing[u].f \in LogFiles
  BY RemUserPlace
<1> QED
  BY <1>2, <1>3, <1>5, <1>6, <1>7, <1>8, <1>9, RemUserStep

LEMMA RemWriteEntry == ASSUME RemIInv, NEW t \in LogThreads, WriteEntry(t) PROVE RemIInv'
<1> DEFINE c == doing[t]
           entry == [by |-> t, gen |-> expand_gen(doing[t].gen, t), known |-> doing[t].known,
                     timed |-> doing[t].timed, raced |-> doing[t].raced, after |-> doing[t].after]
<1>0. doing[t].pc = "write"
  BY DEF WriteEntry
<1>1. /\ RemTypes /\ doing[t].op \in {"lprintf", "lprintfg"} /\ CopyAgrees(t) /\ ModeAgrees(t)
  BY <1>0, RemUserPlace DEF CallPlaced
<1>2. entry \in Entries
  BY <1>1, RemEntries
<1>3. Whole(entry.gen.text, doing[t].f) /\ (entry.timed /\ ~entry.raced => entry.known)
      /\ (entry.after => lfile[doing[t].f].told)
  BY <1>0, <1>1 DEF CopyAgrees, ModeAgrees, expand_gen
<1>4. PutEntry(t, entry) /\ Returns(t) /\ UNCHANGED <<nextID, genlock, pipew, piper, logchild, lfile>>
  BY DEF WriteEntry, SameFiles, SameEnds
<1> HIDE DEF entry
<1> QED
  BY <1>0, <1>2, <1>3, <1>4, RemWrites

LEMMA RemTellMode == ASSUME RemIInv, NEW t \in LogThreads, TellMode(t) PROVE RemIInv'
<1>0. doing[t].pc = "tell" /\ doing[t].op = "lsendtime"
  BY DEF TellMode, In
<1>1. RemTypes
  BY DEF RemIInv
<1>2. Announcement \in Entries
  BY <1>0, <1>1, RemEntries
<1>3. /\ Whole(Announcement.gen.text, doing[t].f) /\ ~Announcement.timed /\ ~Announcement.after
  BY DEF Announcement, expand_gen, Whole
<1>4. /\ PutEntry(t, Announcement) /\ Returns(t) /\ UNCHANGED <<nextID, genlock, pipew, piper, logchild>>
      /\ lfile' = [lfile EXCEPT ![doing[t].f].told = TRUE]
  BY DEF TellMode, SameEnds
<1> QED
  BY <1>0, <1>2, <1>3, <1>4, RemWrites

\* The mode changes under the calls that use the LFILE: each of them is raced.
LEMMA RemSetMode == ASSUME RemIInv, NEW t \in LogThreads, SetMode(t) PROVE RemIInv'
<1> DEFINE f == doing[t].f
<1>0. doing[t].pc = "mode" /\ doing[t].op = "lsendtime"
  BY DEF SetMode, In
<1>1. /\ RemTypes /\ Alone /\ IdsGiven /\ f \in LogFiles /\ lfile[f] \in LFILEs /\ lfile[f].state = "open"
      /\ doing[t] \in Calls /\ genlock # t
  BY <1>0, RemUserPlace DEF CopyAgrees
<1>2. /\ UNCHANGED <<faultsleft, nextID, genlock, pipew, piper, logchild, inpipe, atnet>>
      /\ (NoFault' => NoFault)
  BY DEF SetMode, SameData, SameEnds, Kept, NoFault
<1>3. /\ lfile' \in [LogFiles -> LFILEs] /\ lfile'[f] = [lfile[f] EXCEPT !.tmode = TRUE]
      /\ \A g \in LogFiles : g # f => lfile'[g] = lfile[g]
  <2>1. lfile' = [lfile EXCEPT ![f] = [lfile[f] EXCEPT !.tmode = TRUE]]
    BY <1>1 DEF SetMode, RemTypes
  <2>2. [lfile[f] EXCEPT !.tmode = TRUE] \in LFILEs
    BY <1>1, LFILEUpdates
  <2> QED
    BY <1>1, <2>1, <2>2, LFILEGoes
<1>4. /\ lfile'[f].gen = lfile[f].gen /\ lfile'[f].state = lfile[f].state /\ lfile'[f].id = lfile[f].id
      /\ lfile'[f].told = lfile[f].told /\ lfile'[f].piped = lfile[f].piped
  BY <1>1, <1>3 DEF LFILEs
<1>a. \A g \in LogFiles : /\ lfile'[g].gen = lfile[g].gen /\ lfile'[g].state = lfile[g].state
                          /\ lfile'[g].id = lfile[g].id /\ lfile'[g].told = lfile[g].told
                          /\ lfile'[g].piped = lfile[g].piped
  BY <1>3, <1>4
<1>5. ASSUME NEW u \in LogThreads
      PROVE  /\ doing'[u] \in Calls
             /\ u # t => /\ doing'[u].pc = doing[u].pc
                         /\ doing[u].f = f => doing'[u].raced
                         /\ doing[u].f # f => doing'[u] = doing[u]
             /\ doing'[t].pc = "tell"
             /\ doing'[u].op = doing[u].op /\ doing'[u].f = doing[u].f /\ doing'[u].gen = doing[u].gen
             /\ doing'[u].known = doing[u].known /\ doing'[u].timed = doing[u].timed
             /\ doing'[u].after = doing[u].after
  <2>1. doing[u] \in Calls
    BY <1>1 DEF RemTypes
  <2>2. doing'[t] = [doing[t] EXCEPT !.pc = "tell"]
    BY DEF SetMode
  <2>3. u # t => doing'[u] = IF doing[u].f = f THEN [doing[u] EXCEPT !.raced = TRUE] ELSE doing[u]
    BY DEF SetMode
  <2>4. doing'[t] \in Calls
    <3>1. "tell" \in LogPositions
      BY DEF LogPositions
    <3>2. [doing[t] EXCEPT !.pc = "tell"] \in Calls
      BY <1>1, <3>1, CallUpdates
    <3> QED
      BY <2>2, <3>2
  <2>5. [doing[u] EXCEPT !.raced = TRUE] \in Calls
    BY <2>1, CallUpdates
  <2>6. CASE u = t
    BY <1>1, <2>2, <2>4, <2>6 DEF Calls
  <2>7. CASE u # t /\ doing[u].f = f
    BY <1>1, <2>1, <2>2, <2>3, <2>5, <2>7 DEF Calls
  <2>8. CASE u # t /\ doing[u].f # f
    BY <1>1, <2>1, <2>2, <2>3, <2>8 DEF Calls
  <2> QED
    BY <2>6, <2>7, <2>8
<1>6. RemTypes'
  <2>1. doing' = [u \in LogThreads |-> doing'[u]]
    BY Zenon DEF SetMode
  <2>2. doing' \in [LogThreads -> Calls]
    BY <1>5, <2>1
  <2> QED
    BY <1>1, <1>2, <1>3, <2>2 DEF RemTypes
<1>7. Alone'
  BY <1>1, <1>5 DEF Alone
<1>8. IdsGiven'
  BY <1>1, <1>2, <1>a, RemIdsKept
<1>9. ASSUME NEW u \in LogThreads PROVE CallAgrees(u)'
  <2>0. CallPlaced(u) /\ CopyAgrees(u) /\ ModeAgrees(u) /\ HandedOver(u)
    BY DEF RemIInv, CallAgrees
  <2>1. CASE u = t
    <3>1. CallPlaced(u)'
      BY <1>0, <1>1, <1>4, <1>5, <2>1 DEF CallPlaced, StateFor
    <3>2. CopyAgrees(u)'
      BY <1>0, <1>1, <1>2, <1>5, <2>1 DEF CopyAgrees
    <3>3. ModeAgrees(u)'
      BY <1>4, <1>5, <1>0, <2>0, <2>1 DEF ModeAgrees
    <3>4. HandedOver(u)'
      BY <1>5, <2>1 DEF HandedOver
    <3> QED
      BY <3>1, <3>2, <3>3, <3>4 DEF CallAgrees
  <2>2. CASE u # t /\ doing[u].f # f
    <3>1. doing'[u] = doing[u]
      BY <1>5, <2>2
    <3>2. doing[u].op # "none" => doing[u].f \in LogFiles
      BY <2>0 DEF CallPlaced
    <3>3. doing[u].op # "none" => lfile'[doing[u].f] = lfile[doing[u].f]
      BY <1>3, <2>2, <3>2
    <3>4. HandedOver(u)'
      BY <1>2, <2>0, <3>1 DEF HandedOver, PipeMade, PipeOpen
    <3> QED
      BY <1>2, <3>1, <3>3, <3>4, RemOther
  <2>3. CASE u # t /\ doing[u].f = f
    <3>0. f # 0
      BY <1>1, RemoteAssumption
    <3>1. /\ doing'[u].pc = doing[u].pc /\ doing'[u].op = doing[u].op /\ doing'[u].f = f
          /\ doing'[u].gen = doing[u].gen /\ doing'[u].after = doing[u].after /\ doing'[u].raced
      BY <1>5, <2>3
    <3>2. doing[u].op # "none"
      BY <2>0, <2>3, <3>0 DEF CallPlaced, NoLogCall
    <3>3. CallPlaced(u)'
      BY <1>1, <1>4, <2>0, <2>3, <3>1, <3>2 DEF CallPlaced
    <3>4. CopyAgrees(u)'
      BY <1>2, <1>4, <2>0, <2>3, <3>1 DEF CopyAgrees, Whole
    <3>5. ModeAgrees(u)'
      BY <1>4, <2>0, <2>3, <3>1, <3>2 DEF ModeAgrees
    <3>6. HandedOver(u)'
      BY <1>2, <2>0, <2>3, <3>1 DEF HandedOver, PipeMade, PipeOpen
    <3> QED
      BY <3>3, <3>4, <3>5, <3>6 DEF CallAgrees
  <2> QED
    BY <2>1, <2>2, <2>3
<1>10. ASSUME NEW g \in LogFiles PROVE FileAgrees(g)'
  <2>1. Halfway(g) => Halfway(g)'
    <3> SUFFICES ASSUME NEW u \in LogThreads, doing[u].op = "lgenerator", doing[u].pc = "copy2", doing[u].f = g
                 PROVE  Halfway(g)'
      BY DEF Halfway
    <3>1. u # t
      BY <1>0
    <3> QED
      BY <1>5, <3>1 DEF Halfway
  <2>2. EntriesOf(g)' = EntriesOf(g)
    BY <1>2 DEF EntriesOf
  <2>3. PipeAgrees(g)'
    BY <1>2, <1>a DEF RemIInv, FileAgrees, PipeAgrees, PipeOpen
  <2> QED
    BY <1>2, <1>a, <2>1, <2>2, <2>3, RemFile
<1> QED
  BY <1>6, <1>7, <1>8, <1>9, <1>10 DEF RemIInv

LEMMA RemCallLog ==
    ASSUME RemIInv, NEW t \in LogThreads, NEW op \in DOMAIN FirstStep, NEW f \in LogFiles, CallLog(t, op, f)
    PROVE  RemIInv'
<1> DEFINE state == CASE op = "lopen" -> "opening" [] op = "lclose" -> "closing" [] OTHER -> lfile[f].state
           new == [NoLogCall EXCEPT !.op = op, !.f = f, !.pc = FirstStep[op], !.after = lfile[f].told,
                                    !.gen = IF op = "lgenerator" THEN <<f, f>> ELSE @]
<1>0. RemTypes /\ Alone /\ IdsGiven /\ lfile[f] \in LFILEs /\ f \in Nat /\ f # 0 /\ genlock # t
  <2>1. genlock # t
    BY DEF RemIInv, CallAgrees, CopyAgrees, CallLog, NoLogCall
  <2> QED
    BY <2>1, RemoteAssumption DEF RemIInv, RemTypes
<1>1. /\ doing[t] = NoLogCall /\ lfile[f].state = IF op = "lopen" THEN "none" ELSE "open"
      /\ op = "lclose" => \A u \in LogThreads : doing[u].f # f
      /\ lfile' = [lfile EXCEPT ![f].state = state] /\ doing' = [doing EXCEPT ![t] = new]
      /\ UNCHANGED <<faultsleft, nextID, genlock, pipew, piper, logchild, inpipe, atnet>>
      /\ (NoFault' => NoFault)
  BY Zenon DEF CallLog, SameEnds, SameData, NoFault
<1>2. op \in {"lopen", "lclose", "lgenerator", "lprintf", "lprintfg", "lsendtime"}
  BY DEF FirstStep
<1>3. /\ op = "lopen" => FirstStep[op] = "connect"
      /\ op = "lclose" => FirstStep[op] = "close"
      /\ op \in {"lgenerator", "lprintf"} => FirstStep[op] = "lock"
      /\ op = "lprintfg" => FirstStep[op] = "times"
      /\ op = "lsendtime" => FirstStep[op] = "mode"
  BY DEF FirstStep
<1>4. FirstStep[op] \in {"connect", "close", "lock", "times", "mode"}
  BY <1>2, <1>3
<1>5. lfile[f].told \in BOOLEAN
  BY <1>0 DEF LFILEs
<1>6. /\ new.op = op /\ new.f = f /\ new.pc = FirstStep[op] /\ new.after = lfile[f].told
      /\ new.gen = IF op = "lgenerator" THEN <<f, f>> ELSE <<0, 0>>
      /\ new.known = FALSE /\ new.timed = FALSE /\ new.raced = FALSE
  BY DEF NoLogCall
<1>7. new \in Calls
  <2> DEFINE g == IF op = "lgenerator" THEN <<f, f>> ELSE NoLogCall.gen
  <2>1. g \in Generators
    BY <1>0 DEF Generators, NoLogCall
  <2>2. FirstStep[op] \in LogPositions /\ op \in LogOps
    BY <1>2, <1>4 DEF LogPositions, LogOps
  <2>3. new = [NoLogCall EXCEPT !.op = op, !.f = f, !.pc = FirstStep[op], !.after = lfile[f].told, !.gen = g]
    BY Zenon
  <2> HIDE DEF new, g
  <2> QED
    BY <1>5, <2>1, <2>2, <2>3, NoCallTyped, CallBegins
<1>8. /\ state = StateFor(op) /\ state \in LogStates
  BY <1>1, <1>2 DEF StateFor, LogStates
<1> HIDE DEF new, state
<1>9. /\ doing' \in [LogThreads -> Calls] /\ doing'[t] = new
      /\ \A u \in LogThreads : u # t => doing'[u] = doing[u]
  BY <1>0, <1>1, <1>7, CallGoes
<1>10. /\ lfile' \in [LogFiles -> LFILEs] /\ lfile'[f].state = state
       /\ lfile'[f].gen = lfile[f].gen /\ lfile'[f].told = lfile[f].told
       /\ lfile'[f].id = lfile[f].id /\ lfile'[f].piped = lfile[f].piped
       /\ lfile'[f].tmode = lfile[f].tmode
       /\ \A g \in LogFiles : g # f => lfile'[g] = lfile[g]
  BY <1>0, <1>1, <1>8, LogState
<1>11. RemTypes'
  BY <1>0, <1>1, <1>9, <1>10 DEF RemTypes
<1>12. \A g \in LogFiles : lfile'[g].id = lfile[g].id /\ lfile'[g].gen = lfile[g].gen /\ lfile'[g].told = lfile[g].told
  BY <1>10
<1>13. IdsGiven'
  BY <1>0, <1>1, <1>12, RemIdsKept
\* Whoever uses f already, while t begins to.
<1>14. ASSUME NEW u \in LogThreads, u # t, doing[u].f = f
       PROVE  /\ op \notin {"lopen", "lclose"} /\ state = lfile[f].state
              /\ doing[u].op \notin {"none", "lopen", "lclose"}
  <2>1. CallPlaced(u)
    BY DEF RemIInv, CallAgrees
  <2>2. doing[u].op # "none" /\ lfile[f].state = StateFor(doing[u].op)
    BY <1>0, <1>14, <2>1 DEF CallPlaced, NoLogCall
  <2>3. op # "lclose" /\ op # "lopen"
    BY <1>1, <1>14, <2>2 DEF StateFor
  <2>4. state = "open" /\ lfile[f].state = "open"
    BY <1>1, <1>8, <2>3 DEF StateFor
  <2> QED
    BY <2>2, <2>3, <2>4 DEF StateFor
<1>15. Alone'
  <2>1. ASSUME NEW u \in LogThreads, NEW v \in LogThreads, u # v, doing'[u].op \in {"lopen", "lclose"}
        PROVE  doing'[v].f # doing'[u].f
    <3>1. CASE u = t
      BY <1>6, <1>9, <1>14, <2>1, <3>1
    <3>2. CASE v = t
      BY <1>6, <1>9, <1>14, <2>1, <3>2
    <3>3. CASE u # t /\ v # t
      BY <1>0, <1>9, <2>1, <3>3 DEF Alone
    <3> QED
      BY <3>1, <3>2, <3>3
  <2> QED
    BY <2>1 DEF Alone
<1>16. ASSUME NEW u \in LogThreads PROVE CallAgrees(u)'
  <2>1. CASE u = t
    <3>1. CallPlaced(u)'
      BY <1>2, <1>3, <1>6, <1>8, <1>9, <1>10, <2>1 DEF CallPlaced
    <3>2. CopyAgrees(u)'
      BY <1>0, <1>1, <1>2, <1>3, <1>4, <1>6, <1>9, <2>1 DEF CopyAgrees, Whole
    <3>3. ModeAgrees(u)' /\ HandedOver(u)'
      BY <1>4, <1>6, <1>9, <1>10, <2>1 DEF ModeAgrees, HandedOver
    <3> QED
      BY <3>1, <3>2, <3>3 DEF CallAgrees
  <2>2. CASE u # t
    <3>0. doing'[u] = doing[u]
      BY <1>9, <2>2
    <3>1. doing[u].op # "none" => doing[u].f \in LogFiles
      BY DEF RemIInv, CallAgrees, CallPlaced
    <3>2. doing[u].op # "none" =>
               /\ lfile'[doing[u].f].state = lfile[doing[u].f].state
               /\ lfile'[doing[u].f].tmode = lfile[doing[u].f].tmode
               /\ lfile'[doing[u].f].told = lfile[doing[u].f].told
               /\ lfile'[doing[u].f].gen = lfile[doing[u].f].gen
      <4>1. CASE doing[u].f = f
        BY <1>10, <1>14, <2>2, <4>1
      <4>2. CASE doing[u].f # f
        BY <1>10, <3>1, <4>2
      <4> QED
        BY <4>1, <4>2
    <3>3. HandedOver(u)'
      BY <1>1, <3>0 DEF RemIInv, CallAgrees, HandedOver, PipeMade, PipeOpen
    <3> QED
      BY <1>1, <3>0, <3>2, <3>3, RemOther
  <2> QED
    BY <2>1, <2>2
<1>17. ASSUME NEW g \in LogFiles PROVE FileAgrees(g)'
  <2>1. Halfway(g) => Halfway(g)'
    <3> SUFFICES ASSUME NEW u \in LogThreads, doing[u].op = "lgenerator", doing[u].pc = "copy2", doing[u].f = g
                 PROVE  Halfway(g)'
      BY DEF Halfway
    <3>1. u # t
      BY <1>1 DEF NoLogCall
    <3> QED
      BY <1>9, <3>1 DEF Halfway
  <2>2. EntriesOf(g)' = EntriesOf(g)
    BY <1>1 DEF EntriesOf
  <2>3. PipeAgrees(g)'
    <3>1. CASE g # f
      BY <1>1, <1>10, <3>1, RemPipe DEF PipeOpen
    <3>2. CASE g = f
      <4>1. PipeAgrees(f)
        BY DEF RemIInv, FileAgrees
      <4>2. lfile[f].state \in {"none", "open"} /\ (lfile[f].state = "none" => state = "opening")
            /\ (lfile[f].state = "open" => state \in {"open", "closing"})
        BY <1>1, <1>8 DEF StateFor
      <4> QED
        BY <1>1, <1>10, <3>2, <4>1, <4>2 DEF PipeAgrees, PipeOpen
    <3> QED
      BY <3>1, <3>2
  <2> QED
    BY <1>1, <1>12, <2>1, <2>2, <2>3, RemFile
<1> QED
  BY <1>11, <1>13, <1>15, <1>16, <1>17 DEF RemIInv

-----------------------------------------------------------------------------
LEMMA RemChildren == ASSUME RemIInv, NEW f \in LogFiles, ChildSteps(f) PROVE RemIInv'
<1>0. RemTypes /\ Alone /\ IdsGiven /\ FileAgrees(f)
  BY DEF RemIInv
<1>1. /\ UNCHANGED <<doing, lfile, nextID, genlock>> /\ faultsleft' \in 0..LogFaults
      /\ (NoFault' => NoFault)
  BY <1>0, RemoteAssumption DEF ChildSteps, ChildCopiesPipe, ChildEndsCopy, Kept, Fault, RemTypes, NoFault
<1>2. ASSUME RemTypes', \A g \in LogFiles : EntriesOf(g)' = EntriesOf(g),
             \A g \in LogFiles : PipeAgrees(g)', \A u \in LogThreads : HandedOver(u)'
      PROVE  RemIInv'
  <2>1. Alone' /\ IdsGiven'
    BY <1>0, <1>1 DEF Alone, IdsGiven
  <2>2. ASSUME NEW u \in LogThreads PROVE CallAgrees(u)'
    <3> QED
      BY <1>1, <1>2, RemOther
  <2>3. ASSUME NEW g \in LogFiles PROVE FileAgrees(g)'
    <3>1. Halfway(g) => Halfway(g)'
      BY <1>1 DEF Halfway
    <3> QED
      BY <1>1, <1>2, <3>1, RemFile
  <2> QED
    BY <1>2, <2>1, <2>2, <2>3 DEF RemIInv
<1>3. CASE ChildCopiesPipe(f)
  <2>1. /\ inpipe[f] # <<>> /\ UNCHANGED <<faultsleft, conn, pipew, piper, logchild>>
        /\ atnet' = [atnet EXCEPT ![f] = Append(@, Head(inpipe[f]))] /\ inpipe' = [inpipe EXCEPT ![f] = Tail(@)]
    BY <1>3 DEF ChildCopiesPipe, Kept, SameEnds
  <2>2. /\ atnet'[f] = Append(atnet[f], Head(inpipe[f])) /\ inpipe'[f] = Tail(inpipe[f])
        /\ \A g \in LogFiles : g # f => atnet'[g] = atnet[g] /\ inpipe'[g] = inpipe[g]
    BY <1>0, <2>1 DEF RemTypes
  <2>3. inpipe[f] \in Seq(Entries) /\ atnet[f] \in Seq(Entries) /\ Head(inpipe[f]) \in Entries
    BY <1>0, <2>1 DEF RemTypes
  <2>4. Append(atnet[f], Head(inpipe[f])) \o Tail(inpipe[f]) = atnet[f] \o inpipe[f]
    BY <2>1, <2>3, PipeJoins
  <2>5. \A g \in LogFiles : EntriesOf(g)' = EntriesOf(g)
    BY <2>2, <2>4 DEF EntriesOf
  <2>6. Append(atnet[f], Head(inpipe[f])) \in Seq(Entries) /\ Tail(inpipe[f]) \in Seq(Entries)
    <3> DEFINE s == atnet[f]
               p == inpipe[f]
               e == Head(inpipe[f])
    <3>1. s \in Seq(Entries) /\ e \in Entries /\ p \in Seq(Entries) /\ p # <<>>
      BY <2>1, <2>3
    <3> HIDE DEF s, p, e
    <3>2. Append(s, e) \in Seq(Entries) /\ Tail(p) \in Seq(Entries)
      BY <3>1
    <3> QED
      BY <3>2 DEF s, p, e
  <2>7. RemTypes'
    BY <1>0, <1>1, <2>1, <2>6 DEF RemTypes
  <2>8. \A g \in LogFiles : PipeAgrees(g)'
    <3>1. lfile[f].piped
      BY <1>0, <2>1 DEF FileAgrees, PipeAgrees
    <3> QED
      BY <1>1, <2>1, <2>2, <3>1 DEF RemIInv, FileAgrees, PipeAgrees, PipeOpen, NoFault
  <2>9. \A u \in LogThreads : HandedOver(u)'
    BY <1>1, <2>1 DEF RemIInv, CallAgrees, HandedOver, PipeMade, PipeOpen, NoFault
  <2> QED
    BY <1>2, <2>5, <2>7, <2>8, <2>9
<1>4. CASE ChildEndsCopy(f)
  <2>1. /\ UNCHANGED <<inpipe, atnet>> /\ logchild' = [logchild EXCEPT ![f] = "ended"]
        /\ pipew' = [g \in LogFiles |-> pipew[g] \ {f}] /\ piper' = [g \in LogFiles |-> piper[g] \ {f}]
        /\ pipew[f] = {} \/ ~NoFault'
    BY <1>0, <1>4, RemoteAssumption DEF ChildEndsCopy, SameData, Fault, RemTypes, NoFault
  <2>2. RemTypes'
    BY <1>0, <1>1, <2>1 DEF RemTypes
  <2>3. ASSUME NEW g \in LogFiles, PipeOpen(g) PROVE PipeOpen(g)'
    <3>1. Parent \in pipew'[g]
      BY <2>1, <2>3, RemoteAssumption DEF PipeOpen, Parent
    <3>2. NoFault' => g \in piper'[g]
      BY <1>0, <1>1, <2>1, <2>3 DEF PipeOpen, RemTypes
    <3> QED
      BY <3>1, <3>2 DEF PipeOpen
  <2>4. \A g \in LogFiles : EntriesOf(g)' = EntriesOf(g)
    BY <2>1 DEF EntriesOf
  <2>5. \A g \in LogFiles : PipeAgrees(g)'
    BY <1>1, <2>1, <2>3, RemPipe
  <2>6. ASSUME NEW u \in LogThreads PROVE HandedOver(u)'
    <3> SUFFICES ASSUME doing[u].pc \in {"fork", "reader", "handover"} PROVE HandedOver(u)'
      BY <1>1 DEF HandedOver
    <3>1. HandedOver(u) /\ doing[u].f \in LogFiles
      BY DEF RemIInv, CallAgrees, CallPlaced, NoLogCall
    <3>2. PICK g \in LogFiles : g = doing[u].f
      BY <3>1
    <3>3. PipeMade(g) => PipeMade(g)'
      BY <2>1, RemoteAssumption DEF PipeMade, Parent
    <3> QED
      BY <1>1, <2>3, <3>1, <3>2, <3>3 DEF HandedOver, PipeMade, PipeOpen
  <2> QED
    BY <1>2, <2>2, <2>4, <2>5, <2>6
<1> QED
  BY <1>3, <1>4 DEF ChildSteps

LEMMA RemInvariant == RemoteSpec => []RemIInv
<1>1. RemIInv /\ [RemoteNext]_rlogvars => RemIInv'
  <2> SUFFICES ASSUME RemIInv, [RemoteNext]_rlogvars PROVE RemIInv'
    OBVIOUS
  <2>1. CASE UNCHANGED rlogvars
    <3>0. UNCHANGED <<faultsleft, doing, lfile, nextID, genlock, pipew, piper, inpipe, atnet, logchild>>
      BY <2>1 DEF rlogvars
    <3>1. RemTypes' /\ Alone' /\ IdsGiven'
      BY <3>0 DEF RemIInv, RemTypes, Alone, IdsGiven
    <3>2. ASSUME NEW u \in LogThreads PROVE CallAgrees(u)'
      <4>1. HandedOver(u)'
        BY <3>0 DEF RemIInv, CallAgrees, HandedOver, PipeMade, PipeOpen, NoFault
      <4> QED
        BY <3>0, <4>1, RemOther
    <3>3. ASSUME NEW g \in LogFiles PROVE FileAgrees(g)'
      <4>1. Halfway(g) => Halfway(g)'
        BY <3>0 DEF Halfway
      <4>2. EntriesOf(g)' = EntriesOf(g) /\ (NoFault' => NoFault) /\ (PipeOpen(g) => PipeOpen(g)')
        BY <3>0 DEF EntriesOf, NoFault, PipeOpen
      <4>3. PipeAgrees(g)'
        BY <3>0, <4>2, RemPipe
      <4> QED
        BY <3>0, <4>1, <4>2, <4>3, RemFile
    <3> QED
      BY <3>1, <3>2, <3>3 DEF RemIInv
  <2>2. ASSUME NEW t \in LogThreads, LogStep(t) PROVE RemIInv'
    BY <2>2, RemLopenConnect, RemLopenId, RemMakePipe, RemGoThroughPipe, RemCloseReader, RemLopenReturns, RemLclose, RemLockGenerator,
       RemCopyGenerator, RemStamps, RemWriteEntry, RemSetMode, RemTellMode DEF LogStep
  <2>3. ASSUME NEW t \in LogThreads, NEW op \in DOMAIN FirstStep, NEW f \in LogFiles, CallLog(t, op, f)
        PROVE  RemIInv'
    BY <2>3, RemCallLog
  <2>4. ASSUME NEW f \in LogFiles, ChildSteps(f) PROVE RemIInv'
    BY <2>4, RemChildren
  <2> QED
    BY <2>1, <2>2, <2>3, <2>4 DEF RemoteNext
<1> QED
  BY <1>1, RemInitially, PTL DEF RemoteSpec

\* What arrives from the threads that log through appendixD/rlogging.c: no half of a generator, no
\* time that was not taken in the call, the announcement of times before the entries that
\* were begun after it; and no two loggers have the same id.
THEOREM RemRemoteEntries == RemoteSpec => []RemoteEntries
<1>1. RemIInv => RemoteEntries
  <2> SUFFICES ASSUME RemIInv PROVE RemoteEntries
    OBVIOUS
  <2>1. IdsGiven
    BY DEF RemIInv
  <2>2. ASSUME NEW f \in LogFiles, NEW k \in DOMAIN EntriesOf(f)
        PROVE  EntryRight(EntriesOf(f), f, k)
    <3>1. EntriesOf(f) \in Seq(Entries) /\ LogRight(f)
      BY DEF RemIInv, RemTypes, FileAgrees, EntriesOf
    <3> QED
      BY <3>1 DEF LogRight
  <2> QED
    BY <2>1, <2>2 DEF IdsGiven, RemoteEntries, EntryRight, Whole, NoFault
<1> QED
  BY <1>1, RemInvariant, PTL

-----------------------------------------------------------------------------
(* FlattenSeq of the library, which is recursive: what it is for a sequence *)
(* that grows.                                                              *)

LEMMA LowestNumber ==
    ASSUME NEW B, B \subseteq Nat, B # {}
    PROVE  \E m \in B : \A u \in B : m <= u
<1>1. \E m \in B : \A u \in B : <<u, m>> \notin OpToRel(<, Nat)
  BY NatLessThanWellFounded, WFMin
<1>2. PICK m \in B : \A u \in B : <<u, m>> \notin OpToRel(<, Nat)
  BY <1>1
<1>3. \A u \in B : ~ (u < m)
  BY <1>2 DEF OpToRel
<1> QED
  BY <1>3

\* f[i] is the concatenation of the first i sequences of ss, for i up to n.
Flattens(f, ss, n) == f = [i \in 1..n |-> IF i = 1 THEN ss[i] ELSE f[i - 1] \o ss[i]]

LEMMA FlattensExists ==
    ASSUME NEW ss, NEW N \in Nat
    PROVE  \E f : Flattens(f, ss, N)
<1> DEFINE P(n) == \E f : Flattens(f, ss, n)
           Bad == {n \in Nat : ~P(n)}
<1>1. P(0)
  <2> DEFINE f == [i \in 1..0 |-> ss]
  <2>1. f = [i \in 1..0 |-> IF i = 1 THEN ss[i] ELSE f[i - 1] \o ss[i]]
    BY \A i \in 1..0 : FALSE
  <2> QED
    BY <2>1 DEF Flattens
<1>2. ASSUME NEW m \in Nat \ {0}, P(m - 1) PROVE P(m)
  <2>1. PICK g : g = [i \in 1..(m - 1) |-> IF i = 1 THEN ss[i] ELSE g[i - 1] \o ss[i]]
    BY <1>2 DEF Flattens
  <2> DEFINE f == [i \in 1..m |-> IF i = m THEN IF m = 1 THEN ss[m] ELSE g[m - 1] \o ss[m] ELSE g[i]]
  <2>2. \A i \in 1..m : f[i] = IF i = 1 THEN ss[i] ELSE f[i - 1] \o ss[i]
    <3> TAKE i \in 1..m
    <3>1. CASE i = m
      BY <3>1
    <3>2. CASE i # m
      <4>1. i \in 1..(m - 1) /\ (i # 1 => i - 1 \in 1..m /\ i - 1 # m)
        BY <3>2
      <4>2. g[i] = IF i = 1 THEN ss[i] ELSE g[i - 1] \o ss[i]
        BY <2>1, <4>1
      <4> QED
        BY <3>2, <4>1, <4>2
    <3> QED
      BY <3>1, <3>2
  <2>3. f = [i \in 1..m |-> IF i = 1 THEN ss[i] ELSE f[i - 1] \o ss[i]]
    BY <2>2
  <2> QED
    BY <2>3 DEF Flattens
<1> HIDE DEF P
<1>3. Bad = {}
  <2> SUFFICES ASSUME Bad # {} PROVE FALSE
    OBVIOUS
  <2>1. Bad \subseteq Nat
    OBVIOUS
  <2>2. PICK m \in Bad : \A u \in Bad : m <= u
    BY <2>1, LowestNumber
  <2>3. m \in Nat /\ ~P(m) /\ m # 0
    BY <1>1, <2>2
  <2>4. P(m - 1)
    BY <2>2, <2>3
  <2> QED
    BY <1>2, <2>3, <2>4
<1>4. P(N)
  BY <1>3
<1> QED
  BY <1>4 DEF P

LEMMA FlattenIs ==
    ASSUME NEW ss, Len(ss) \in Nat \ {0}
    PROVE  \E f : Flattens(f, ss, Len(ss)) /\ FlattenSeq(ss) = f[Len(ss)]
<1>1. \E f : f = [i \in 1..Len(ss) |-> IF i = 1 THEN ss[i] ELSE f[i-1] \o ss[i]]
  BY FlattensExists DEF Flattens
<1>2. Len(ss) # 0
  OBVIOUS
<1>3. \E f : f = [i \in 1..Len(ss) |-> IF i = 1 THEN ss[i] ELSE f[i-1] \o ss[i]] /\ FlattenSeq(ss) = f[Len(ss)]
  BY <1>1, <1>2, Zenon DEF FlattenSeq
<1> QED
  BY <1>3 DEF Flattens

\* Two such functions agree as far as their sequences do, and give sequences over S.
LEMMA FlattensAgree ==
    ASSUME NEW S, NEW ss, NEW tt, NEW n \in Nat, NEW N \in Nat, n <= N, NEW f, NEW g,
           Flattens(f, ss, n), Flattens(g, tt, N), \A i \in 1..n : ss[i] = tt[i] /\ ss[i] \in Seq(S)
    PROVE  \A i \in 1..n : f[i] = g[i] /\ f[i] \in Seq(S)
<1> DEFINE Bad == {i \in 1..n : ~(f[i] = g[i] /\ f[i] \in Seq(S))}
<1> SUFFICES ASSUME Bad # {} PROVE FALSE
  OBVIOUS
<1>1. Bad \subseteq Nat
  OBVIOUS
<1>2. PICK m \in Bad : \A u \in Bad : m <= u
  BY <1>1, LowestNumber
<1>3. m \in 1..n /\ m \in 1..N /\ ~(f[m] = g[m] /\ f[m] \in Seq(S))
  BY <1>2
<1>4. /\ f[m] = IF m = 1 THEN ss[m] ELSE f[m - 1] \o ss[m]
      /\ g[m] = IF m = 1 THEN tt[m] ELSE g[m - 1] \o tt[m]
  BY <1>3 DEF Flattens
<1>5. CASE m = 1
  BY <1>3, <1>4, <1>5
<1>6. CASE m # 1
  <2>1. m - 1 \in 1..n /\ m - 1 \notin Bad
    BY <1>2, <1>3, <1>6
  <2>2. f[m - 1] = g[m - 1] /\ f[m - 1] \in Seq(S)
    BY <2>1
  <2>3. f[m - 1] \o ss[m] \in Seq(S)
    BY <1>3, <2>2, ConcatProperties
  <2> QED
    BY <1>3, <1>4, <1>6, <2>2, <2>3
<1> QED
  BY <1>5, <1>6

LEMMA FlattenAppend ==
    ASSUME NEW S, NEW ss \in Seq(Seq(S)), NEW s \in Seq(S)
    PROVE  /\ FlattenSeq(ss) \in Seq(S)
           /\ FlattenSeq(Append(ss, s)) = FlattenSeq(ss) \o s
<1> DEFINE tt == Append(ss, s)
           n == Len(ss)
<1>1. n \in Nat /\ Len(tt) = n + 1 /\ tt[n + 1] = s /\ \A i \in 1..n : tt[i] = ss[i] /\ ss[i] \in Seq(S)
  BY AppendProperties, LenProperties
<1>2. PICK g : Flattens(g, tt, n + 1) /\ FlattenSeq(tt) = g[n + 1]
  <2> HIDE DEF tt, n
  <2>1. Len(tt) \in Nat \ {0}
    BY <1>1
  <2> QED
    BY <1>1, <2>1, FlattenIs
<1>3. g[n + 1] = IF n + 1 = 1 THEN s ELSE g[n] \o s
  <2>1. n + 1 \in 1..(n + 1) /\ (n + 1) - 1 = n
    BY <1>1
  <2>2. g[n + 1] = IF n + 1 = 1 THEN tt[n + 1] ELSE g[(n + 1) - 1] \o tt[n + 1]
    BY <1>2, <2>1 DEF Flattens
  <2> QED
    BY <1>1, <2>1, <2>2
<1>4. CASE n = 0
  <2>1. ss = <<>>
    BY <1>4, EmptySeq
  <2>2. FlattenSeq(ss) = ss
    BY <1>4 DEF FlattenSeq
  <2>3. ss \in Seq(S) /\ ss \o s = s
    BY <2>1, ConcatEmptySeq, EmptySeq
  <2> QED
    BY <1>1, <1>2, <1>3, <1>4, <2>2, <2>3
<1>5. CASE n # 0
  <2>1. PICK f : Flattens(f, ss, n) /\ FlattenSeq(ss) = f[n]
    BY <1>1, <1>5, FlattenIs
  <2> HIDE DEF tt, n
  <2>0. n + 1 \in Nat /\ n <= n + 1 /\ \A i \in 1..n : ss[i] = tt[i] /\ ss[i] \in Seq(S)
    BY <1>1
  <2>2. \A i \in 1..n : f[i] = g[i] /\ f[i] \in Seq(S)
    <3>1. n \in Nat /\ n + 1 \in Nat /\ Flattens(f, ss, n) /\ Flattens(g, tt, n + 1)
      BY <1>1, <1>2, <2>0, <2>1
    <3>2. \A m \in Nat, M \in Nat : m <= M => \A f1, g1 :
              Flattens(f1, ss, m) /\ Flattens(g1, tt, M) /\ (\A i \in 1..m : ss[i] = tt[i] /\ ss[i] \in Seq(S)) =>
                  \A i \in 1..m : f1[i] = g1[i] /\ f1[i] \in Seq(S)
      BY FlattensAgree
    <3> QED
      BY <2>0, <3>1, <3>2, Zenon
  <2>3. n \in 1..n
    BY <1>1, <1>5
  <2>4. f[n] = g[n] /\ f[n] \in Seq(S) /\ n + 1 # 1
    BY <1>1, <1>5, <2>2, <2>3
  <2> QED
    BY <1>2, <1>3, <2>1, <2>4 DEF tt
<1> QED
  BY <1>4, <1>5

LEMMA FlattenOne ==
    ASSUME NEW S, NEW s \in Seq(S)
    PROVE  FlattenSeq(<<>>) = <<>> /\ FlattenSeq(<<s>>) = s
<1>1. FlattenSeq(<<>>) = <<>>
  BY EmptySeq DEF FlattenSeq
<1>2. <<>> \in Seq(Seq(S)) /\ Append(<<>>, s) = <<s>>
  BY EmptySeq
<1>3. FlattenSeq(<<s>>) = <<>> \o s
  BY <1>1, <1>2, FlattenAppend
<1> QED
  BY <1>1, <1>3, ConcatEmptySeq

LEMMA FlattenConcat ==
    ASSUME NEW S, NEW ss \in Seq(Seq(S)), NEW tt \in Seq(Seq(S))
    PROVE  /\ FlattenSeq(ss) \in Seq(S) /\ FlattenSeq(tt) \in Seq(S)
           /\ FlattenSeq(ss \o tt) = FlattenSeq(ss) \o FlattenSeq(tt)
<1> DEFINE Holds(u) == FlattenSeq(ss \o u) = FlattenSeq(ss) \o FlattenSeq(u)
           Bad == {k \in Nat : \E u \in Seq(Seq(S)) : Len(u) = k /\ ~Holds(u)}
<1>0. \A u \in Seq(Seq(S)) : FlattenSeq(u) \in Seq(S)
  BY FlattenAppend, EmptySeq
<1>1. Holds(<<>>)
  <2>1. ss \o <<>> = ss
    BY ConcatEmptySeq
  <2>2. FlattenSeq(ss) \o <<>> = FlattenSeq(ss)
    BY <1>0, ConcatEmptySeq
  <2> QED
    BY <2>1, <2>2, FlattenOne, EmptySeq
<1>2. ASSUME NEW u \in Seq(Seq(S)), NEW s \in Seq(S), Holds(u) PROVE Holds(Append(u, s))
  <2>1. ss \o Append(u, s) = Append(ss \o u, s)
    <3>1. <<s>> \in Seq(Seq(S)) /\ ss \o u \in Seq(Seq(S))
      BY ConcatProperties
    <3>2. Append(u, s) = u \o <<s>> /\ Append(ss \o u, s) = (ss \o u) \o <<s>>
      BY <3>1, AppendIsConcat
    <3> QED
      BY <3>1, <3>2, ConcatAssociative
  <2>2. FlattenSeq(ss \o Append(u, s)) = FlattenSeq(ss \o u) \o s
    <3>1. ss \o u \in Seq(Seq(S))
      BY ConcatProperties
    <3> QED
      BY <2>1, <3>1, FlattenAppend
  <2>3. FlattenSeq(Append(u, s)) = FlattenSeq(u) \o s
    BY FlattenAppend
  <2>4. (FlattenSeq(ss) \o FlattenSeq(u)) \o s = FlattenSeq(ss) \o (FlattenSeq(u) \o s)
    BY <1>0, ConcatAssociative
  <2> QED
    BY <1>2, <2>2, <2>3, <2>4
<1> HIDE DEF Holds
<1>3. Bad = {}
  <2> SUFFICES ASSUME Bad # {} PROVE FALSE
    OBVIOUS
  <2>1. Bad \subseteq Nat
    OBVIOUS
  <2>2. PICK m \in Bad : \A k \in Bad : m <= k
    BY <2>1, LowestNumber
  <2>3. PICK u \in Seq(Seq(S)) : Len(u) = m /\ ~Holds(u)
    BY <2>2
  <2>4. u # <<>>
    BY <1>1, <2>3
  <2>5. PICK v \in Seq(Seq(S)), s \in Seq(S) : u = Append(v, s)
    BY <2>4, SequenceEmptyOrAppend
  <2>6. Len(v) \in Nat /\ Len(u) = Len(v) + 1
    BY <2>5, AppendProperties, LenProperties
  <2>7. ~Holds(v)
    BY <1>2, <2>3, <2>5
  <2>8. Len(v) \in Bad
    BY <2>6, <2>7
  <2>9. m \in Nat /\ m <= Len(v)
    BY <2>2, <2>8
  <2> QED
    BY <2>3, <2>6, <2>9
<1>4. Holds(tt)
  <2>1. Len(tt) \in Nat
    BY LenProperties
  <2> QED
    BY <1>3, <2>1
<1> QED
  BY <1>0, <1>4 DEF Holds

-----------------------------------------------------------------------------
(* Loggers.                                                                *)

LogEntries == LogProcs \X Nat
LogBytes == {e \o <<j>> : e \in LogEntries, j \in 1..EntryLen}

LogTypes ==
    /\ entered \in [LogProcs -> Nat]
    /\ list \in [LogProcs -> Seq(LogEntries)]
    /\ logpipe \in Seq(LogBytes) /\ chunk \in Seq(LogBytes) /\ log \in Seq(LogBytes)
    /\ accepted \in Seq(Seq(LogEntries))
    /\ logkind # "remote" => logpipe = <<>> /\ chunk = <<>>
    /\ logkind # "atomic" => \A p \in LogProcs : list[p] = <<>>

\* Entry k of a process is its own, made before entry k + 1, and waits in its list
\* or has been accepted, in one call only.
LogWaits(p, e) == e[1] = p /\ e[2] <= entered[p]
Accepted(e) == e[2] <= entered[e[1]] /\ e \notin Range(list[e[1]])
EntriesOnce ==
    /\ \A p \in LogProcs : \A e \in Range(list[p]) : LogWaits(p, e)
    /\ \A k \in 1..Len(accepted) : \A e \in Range(accepted[k]) : Accepted(e)
    /\ \A k, l \in 1..Len(accepted) : k # l => Range(accepted[k]) \cap Range(accepted[l]) = {}

\* The bytes of an accepted call stand together, and are all there is when no write
\* was cut short.
EntriesStand == \A k \in 1..Len(accepted) : StandsTogether(Text(accepted[k]))
NothingElse == logfaults = {} => LogStream = Text(FlattenSeq(accepted))

LogIInv == LogTypes /\ EntriesOnce /\ EntriesStand /\ NothingElse

-----------------------------------------------------------------------------
(* The bytes of entries.                                                   *)

Texts(entries) == [k \in DOMAIN entries |-> EntryBytes(entries[k])]

LEMMA EntryBytesType ==
    ASSUME NEW e \in LogEntries
    PROVE  EntryBytes(e) \in Seq(LogBytes) /\ Len(EntryBytes(e)) = EntryLen
<1>1. \A j \in 1..EntryLen : e \o <<j>> \in LogBytes
  BY DEF LogBytes
<1>2. EntryBytes(e) \in [1..EntryLen -> LogBytes]
  BY <1>1 DEF EntryBytes
<1> QED
  BY <1>2, EntryLenAssumption

LEMMA TextsType ==
    ASSUME NEW s \in Seq(LogEntries)
    PROVE  /\ Texts(s) \in Seq(Seq(LogBytes)) /\ Len(Texts(s)) = Len(s)
           /\ \A k \in 1..Len(s) : Texts(s)[k] = EntryBytes(s[k])
<1>1. DOMAIN s = 1..Len(s) /\ Len(s) \in Nat /\ \A k \in 1..Len(s) : s[k] \in LogEntries
  OBVIOUS
<1>2. Texts(s) \in [1..Len(s) -> Seq(LogBytes)]
  BY <1>1, EntryBytesType DEF Texts
<1> QED
  BY <1>1, <1>2 DEF Texts

LEMMA TextConcat ==
    ASSUME NEW s \in Seq(LogEntries), NEW t \in Seq(LogEntries)
    PROVE  /\ Text(s) \in Seq(LogBytes) /\ Text(t) \in Seq(LogBytes) /\ s \o t \in Seq(LogEntries)
           /\ Text(s \o t) = Text(s) \o Text(t)
<1>1. s \o t \in Seq(LogEntries) /\ Len(s \o t) = Len(s) + Len(t)
      /\ \A i \in 1..Len(s) + Len(t) : (s \o t)[i] = IF i <= Len(s) THEN s[i] ELSE t[i - Len(s)]
  BY ConcatProperties
<1>2. /\ Texts(s) \in Seq(Seq(LogBytes)) /\ Len(Texts(s)) = Len(s)
      /\ Texts(t) \in Seq(Seq(LogBytes)) /\ Len(Texts(t)) = Len(t)
      /\ Texts(s \o t) \in Seq(Seq(LogBytes)) /\ Len(Texts(s \o t)) = Len(s) + Len(t)
  BY <1>1, TextsType
<1>3. /\ \A k \in 1..Len(s) : Texts(s)[k] = EntryBytes(s[k])
      /\ \A k \in 1..Len(t) : Texts(t)[k] = EntryBytes(t[k])
      /\ \A k \in 1..Len(s) + Len(t) : Texts(s \o t)[k] = EntryBytes((s \o t)[k])
  <2>1. \A k \in 1..Len(s \o t) : Texts(s \o t)[k] = EntryBytes((s \o t)[k])
    BY <1>1, TextsType
  <2> QED
    BY <1>1, <2>1, TextsType
<1>4. Len(s) \in Nat /\ Len(t) \in Nat
  BY LenProperties
<1>5. /\ Texts(s) \o Texts(t) \in Seq(Seq(LogBytes)) /\ Len(Texts(s) \o Texts(t)) = Len(s) + Len(t)
      /\ \A i \in 1..Len(s) + Len(t) :
             (Texts(s) \o Texts(t))[i] = IF i <= Len(s) THEN Texts(s)[i] ELSE Texts(t)[i - Len(s)]
  <2>1. \A i \in 1..Len(Texts(s)) + Len(Texts(t)) : (Texts(s) \o Texts(t))[i] =
             IF i <= Len(Texts(s)) THEN Texts(s)[i] ELSE Texts(t)[i - Len(Texts(s))]
    BY <1>2, ConcatProperties
  <2>2. /\ Texts(s) \o Texts(t) \in Seq(Seq(LogBytes))
        /\ Len(Texts(s) \o Texts(t)) = Len(Texts(s)) + Len(Texts(t))
    BY <1>2, ConcatProperties
  <2> QED
    BY <1>2, <2>1, <2>2
<1>6. ASSUME NEW i \in 1..Len(s) + Len(t) PROVE Texts(s \o t)[i] = (Texts(s) \o Texts(t))[i]
  <2>1. CASE i <= Len(s)
    <3>1. i \in 1..Len(s)
      BY <1>4, <2>1
    <3> QED
      BY <1>1, <1>3, <1>5, <2>1, <3>1
  <2>2. CASE ~(i <= Len(s))
    <3>1. i - Len(s) \in 1..Len(t)
      BY <1>4, <2>2
    <3> QED
      BY <1>1, <1>3, <1>5, <2>2, <3>1
  <2> QED
    BY <2>1, <2>2
<1>7. Texts(s \o t) = Texts(s) \o Texts(t)
  <2>1. Len(Texts(s \o t)) = Len(Texts(s) \o Texts(t))
        /\ \A i \in 1..Len(Texts(s \o t)) : Texts(s \o t)[i] = (Texts(s) \o Texts(t))[i]
    BY <1>2, <1>5, <1>6
  <2> QED
    BY <1>2, <1>5, <2>1, SeqEqual
<1>8. Text(s) = FlattenSeq(Texts(s)) /\ Text(t) = FlattenSeq(Texts(t)) /\ Text(s \o t) = FlattenSeq(Texts(s \o t))
  BY DEF Text, Texts
<1>9. \A x, y \in Seq(Seq(LogBytes)) : FlattenSeq(x) \in Seq(LogBytes) /\ FlattenSeq(y) \in Seq(LogBytes)
                                       /\ FlattenSeq(x \o y) = FlattenSeq(x) \o FlattenSeq(y)
  BY FlattenConcat
<1>10. FlattenSeq(Texts(s \o t)) = FlattenSeq(Texts(s)) \o FlattenSeq(Texts(t))
       /\ FlattenSeq(Texts(s)) \in Seq(LogBytes) /\ FlattenSeq(Texts(t)) \in Seq(LogBytes)
  BY <1>2, <1>7, <1>9
<1> QED
  BY <1>1, <1>8, <1>10

LEMMA TextOne ==
    ASSUME NEW e \in LogEntries
    PROVE  Text(<<e>>) = EntryBytes(e)
<1>1. <<e>> \in Seq(LogEntries) /\ Len(<<e>>) = 1
  OBVIOUS
<1>2. Texts(<<e>>) \in Seq(Seq(LogBytes)) /\ Len(Texts(<<e>>)) = 1 /\ Texts(<<e>>)[1] = EntryBytes(e)
  <2> DEFINE s == <<e>>
  <2>1. s \in Seq(LogEntries) /\ Len(s) = 1 /\ s[1] = e
    BY <1>1
  <2> HIDE DEF s
  <2>2. Texts(s) \in Seq(Seq(LogBytes)) /\ Len(Texts(s)) = Len(s)
        /\ \A k \in 1..Len(s) : Texts(s)[k] = EntryBytes(s[k])
    BY <2>1, TextsType
  <2>3. 1 \in 1..Len(s)
    BY <2>1
  <2>4. Texts(s) \in Seq(Seq(LogBytes)) /\ Len(Texts(s)) = 1 /\ Texts(s)[1] = EntryBytes(e)
    BY <2>1, <2>2, <2>3
  <2> QED
    BY <2>4 DEF s
<1>3. EntryBytes(e) \in Seq(LogBytes)
  BY EntryBytesType
<1>4. Texts(<<e>>) = <<EntryBytes(e)>>
  BY <1>2, <1>3
<1> QED
  BY <1>3, <1>4, FlattenOne DEF Text, Texts

\* FlattenSeq of the accepted calls, when one more is accepted.
LEMMA AcceptOne ==
    ASSUME NEW a \in Seq(Seq(LogEntries)), NEW s \in Seq(LogEntries)
    PROVE  Text(FlattenSeq(a)) \in Seq(LogBytes) /\ Text(FlattenSeq(Append(a, s))) = Text(FlattenSeq(a)) \o Text(s)
<1>1. FlattenSeq(a) \in Seq(LogEntries) /\ FlattenSeq(Append(a, s)) = FlattenSeq(a) \o s
  BY FlattenAppend
<1>2. \A x, y \in Seq(LogEntries) : Text(x) \in Seq(LogBytes) /\ Text(x \o y) = Text(x) \o Text(y)
  BY TextConcat
<1> QED
  BY <1>1, <1>2

-----------------------------------------------------------------------------
(* The stream of bytes only grows at its end.                              *)

Stands(s, text) == \E i \in 0..(Len(s) - Len(text)) : SubSeq(s, i + 1, i + Len(text)) = text

LEMMA StandsStill ==
    ASSUME NEW S, NEW s \in Seq(S), NEW t \in Seq(S), NEW text \in Seq(S), Stands(s, text)
    PROVE  Stands(s \o t, text)
<1>1. Len(s) \in Nat /\ Len(t) \in Nat /\ Len(text) \in Nat /\ Len(s \o t) = Len(s) + Len(t)
  BY ConcatProperties, LenProperties
<1>2. PICK i \in 0..(Len(s) - Len(text)) : SubSeq(s, i + 1, i + Len(text)) = text
  BY DEF Stands
<1>3. i \in 0..(Len(s \o t) - Len(text))
  BY <1>1, <1>2
<1>4. SubSeq(s \o t, i + 1, i + Len(text)) = text
  <2>1. CASE Len(text) = 0
    <3>1. text = <<>>
      BY <2>1, EmptySeq
    <3>2. i + 1 \in Int /\ i + Len(text) \in Int /\ i + Len(text) < i + 1
      BY <1>1, <1>2, <2>1
    <3>3. SubSeq(s \o t, i + 1, i + Len(text)) = <<>>
      BY <3>2, SubSeqEmpty
    <3> QED
      BY <3>1, <3>3
  <2>2. CASE Len(text) # 0
    <3>1. i + 1 \in 1..Len(s) /\ i + Len(text) \in 1..Len(s)
      BY <1>1, <1>2, <2>2
    <3> QED
      BY <1>2, <3>1, SubSeqOfConcat1
  <2> QED
    BY <2>1, <2>2
<1> QED
  BY <1>3, <1>4 DEF Stands

LEMMA StandsLast ==
    ASSUME NEW S, NEW s \in Seq(S), NEW text \in Seq(S)
    PROVE  Stands(s \o text, text)
<1>1. Len(s) \in Nat /\ Len(text) \in Nat /\ Len(s \o text) = Len(s) + Len(text)
  BY ConcatProperties, LenProperties
<1>2. Len(s) \in 0..(Len(s \o text) - Len(text))
  BY <1>1
<1>3. SubSeq(s \o text, Len(s) + 1, Len(s) + Len(text)) = text
  <2>1. CASE Len(text) = 0
    <3>1. text = <<>>
      BY <2>1, EmptySeq
    <3>2. Len(s) + 1 \in Int /\ Len(s) + Len(text) \in Int /\ Len(s) + Len(text) < Len(s) + 1
      BY <1>1, <2>1
    <3>3. SubSeq(s \o text, Len(s) + 1, Len(s) + Len(text)) = <<>>
      BY <3>2, SubSeqEmpty
    <3> QED
      BY <3>1, <3>3
  <2>2. CASE Len(text) # 0
    <3>1. Len(s) + 1 \in Len(s) + 1..Len(s) + Len(text) /\ Len(s) + Len(text) \in Len(s) + 1..Len(s) + Len(text)
      BY <1>1, <2>2
    <3>2. (Len(s) + 1) - Len(s) = 1 /\ (Len(s) + Len(text)) - Len(s) = Len(text)
      BY <1>1
    <3>3. SubSeq(s \o text, Len(s) + 1, Len(s) + Len(text)) = SubSeq(text, 1, Len(text))
      BY <3>1, <3>2, SubSeqOfConcat2
    <3> QED
      BY <3>3, SubSeqFull
  <2> QED
    BY <2>1, <2>2
<1> QED
  BY <1>2, <1>3 DEF Stands

LEMMA StandsIs == \A text : StandsTogether(text) <=> Stands(LogStream, text)
BY DEF StandsTogether, Stands

\* The first bytes of a sequence, none of them when the write has failed.
LEMMA FirstBytes ==
    ASSUME NEW S, NEW s \in Seq(S), NEW n \in Int, n <= Len(s)
    PROVE  SubSeq(s, 1, n) \in Seq(S) /\ (n = Len(s) => SubSeq(s, 1, n) = s)
<1>1. Len(s) \in Nat /\ \A i \in 1..Len(s) : s[i] \in S
  BY LenProperties, ElementOfSeq
<1>2. \A i \in 1..n : s[i] \in S
  BY <1>1
<1> QED
  BY <1>1, <1>2, SubSeqProperties, SubSeqFull

\* A sequence cut after its first n elements.
LEMMA CutInTwo ==
    ASSUME NEW S, NEW s \in Seq(S), NEW n \in 1..Len(s)
    PROVE  /\ SubSeq(s, 1, n) \in Seq(S) /\ SubSeq(s, n + 1, Len(s)) \in Seq(S)
           /\ SubSeq(s, 1, n) \o SubSeq(s, n + 1, Len(s)) = s
<1>1. Len(s) \in Nat /\ n \in Nat /\ n >= 1 /\ n <= Len(s) /\ \A i \in 1..Len(s) : s[i] \in S
  BY LenProperties, ElementOfSeq
<1>2. \A i \in 1..n : s[i] \in S
  BY <1>1
<1>3. \A i \in n + 1..Len(s) : s[i] \in S
  BY <1>1
<1>4. 1 \in 1..Len(s) + 1 /\ n \in 1 - 1..Len(s) /\ Len(s) \in n..Len(s)
  BY <1>1
<1>5. SubSeq(s, 1, n) \o SubSeq(s, n + 1, Len(s)) = SubSeq(s, 1, Len(s))
  BY <1>4, ConcatAdjacentSubSeq
<1>6. SubSeq(s, 1, n) \in Seq(S)
  BY <1>1, <1>2, SubSeqProperties
<1>7. SubSeq(s, n + 1, Len(s)) \in Seq(S)
  <2>1. n + 1 \in Int /\ Len(s) \in Int
    BY <1>1
  <2> QED
    BY <1>3, <2>1, SubSeqProperties
<1> QED
  BY <1>5, <1>6, <1>7, SubSeqFull

-----------------------------------------------------------------------------
(* Every step.                                                             *)

\* What has been accepted stands after a step that adds bytes at the end.
LEMMA StandStep ==
    ASSUME LogIInv, NEW added \in Seq(LogBytes), LogStream' = LogStream \o added,
           LogTypes', logfaults' = logfaults,
           \/ accepted' = accepted /\ (logfaults = {} => added = <<>>)
           \/ \E s \in Seq(LogEntries) : added = Text(s) /\ accepted' = Append(accepted, s)
    PROVE  EntriesStand' /\ NothingElse'
<1>1. PICK stream, a : stream = LogStream /\ a = accepted
  OBVIOUS
<1>2. stream \in Seq(LogBytes) /\ LogStream' = stream \o added /\ a \in Seq(Seq(LogEntries))
  BY <1>1, ConcatProperties DEF LogIInv, LogTypes, LogStream
<1>3. \A k \in 1..Len(a) : a[k] \in Seq(LogEntries) /\ Text(a[k]) \in Seq(LogBytes) /\ Stands(stream, Text(a[k]))
  <2> SUFFICES ASSUME NEW k \in 1..Len(a)
               PROVE  a[k] \in Seq(LogEntries) /\ Text(a[k]) \in Seq(LogBytes) /\ Stands(stream, Text(a[k]))
    OBVIOUS
  <2>1. a[k] \in Seq(LogEntries)
    BY <1>2
  <2>2. Text(a[k]) \in Seq(LogBytes)
    BY <2>1, TextConcat
  <2>3. StandsTogether(Text(a[k]))
    BY <1>1 DEF LogIInv, EntriesStand
  <2> QED
    BY <1>1, <2>1, <2>2, <2>3, StandsIs
<1>4. \A k \in 1..Len(a) : Stands(stream \o added, Text(a[k]))
  BY <1>2, <1>3, StandsStill
<1>5. \A text : StandsTogether(text)' <=> Stands(stream \o added, text)
  BY <1>2, StandsIs DEF StandsTogether, Stands
<1>6. CASE accepted' = accepted /\ (logfaults = {} => added = <<>>)
  <2>1. EntriesStand'
    BY <1>1, <1>4, <1>5, <1>6 DEF EntriesStand, Text
  <2>2. logfaults = {} => stream \o added = stream
    BY <1>2, <1>6, ConcatEmptySeq
  <2>3. NothingElse'
    BY <1>1, <1>2, <1>6, <2>2 DEF LogIInv, NothingElse
  <2> QED
    BY <2>1, <2>3
<1>7. ASSUME NEW s \in Seq(LogEntries), added = Text(s), accepted' = Append(accepted, s)
      PROVE  EntriesStand' /\ NothingElse'
  <2>1. /\ Len(a) \in Nat /\ Len(Append(a, s)) = Len(a) + 1 /\ Append(a, s)[Len(a) + 1] = s
        /\ \A k \in 1..Len(a) : Append(a, s)[k] = a[k]
    BY <1>2, AppendProperties, LenProperties
  <2>2. Stands(stream \o added, Text(s))
    BY <1>2, <1>7, StandsLast
  <2>3. ASSUME NEW k \in 1..(Len(a) + 1) PROVE Stands(stream \o added, Text(Append(a, s)[k]))
    <3>1. k \in 1..Len(a) \/ k = Len(a) + 1
      BY <2>1
    <3> QED
      BY <1>4, <2>1, <2>2, <3>1
  <2>4. EntriesStand'
    BY <1>1, <1>5, <1>7, <2>1, <2>3 DEF EntriesStand
  <2>5. Text(FlattenSeq(Append(a, s))) = Text(FlattenSeq(a)) \o Text(s)
    BY <1>2, AcceptOne
  <2>6. NothingElse'
    BY <1>1, <1>2, <1>7, <2>5 DEF LogIInv, NothingElse
  <2> QED
    BY <2>4, <2>6
<1> QED
  BY <1>6, <1>7

\* The entries that are accepted have not been before.
LEMMA OnceStep ==
    ASSUME LogIInv, NEW p \in LogProcs, NEW s \in Seq(LogEntries), accepted' = Append(accepted, s),
           list' \in [LogProcs -> Seq(LogEntries)], entered' \in [LogProcs -> Nat],
           \A q \in LogProcs : q # p => list'[q] = list[q] /\ entered'[q] = entered[q],
           list'[p] = <<>>, entered[p] <= entered'[p],
           \A e \in Range(s) : e[1] = p /\ e[2] <= entered'[p] /\ (e \in Range(list[p]) \/ e[2] > entered[p])
    PROVE  EntriesOnce'
<1>1. PICK a : a = accepted
  OBVIOUS
<1>2. a \in Seq(Seq(LogEntries)) /\ Len(a) \in Nat /\ Len(Append(a, s)) = Len(a) + 1
      /\ Append(a, s)[Len(a) + 1] = s /\ \A k \in 1..Len(a) : Append(a, s)[k] = a[k]
  BY <1>1, AppendProperties, LenProperties DEF LogIInv, LogTypes
<1>3. Range(<<>>) = {}
  BY DEF Range
<1>4. \A k \in 1..Len(a) : \A e \in Range(a[k]) : e \in LogEntries /\ Accepted(e)
  <2> SUFFICES ASSUME NEW k \in 1..Len(a), NEW e \in Range(a[k]) PROVE e \in LogEntries /\ Accepted(e)
    OBVIOUS
  <2>1. a[k] \in Seq(LogEntries)
    BY <1>2
  <2> QED
    BY <1>1, <2>1, RangeOfSeq DEF LogIInv, EntriesOnce
<1>5. \A q \in LogProcs : \A e \in Range(list'[q]) : e[1] = q /\ e[2] <= entered'[q]
  BY <1>3 DEF LogIInv, EntriesOnce, LogWaits
<1>6. \A k \in 1..Len(a) : \A e \in Range(a[k]) : e[2] <= entered'[e[1]] /\ e \notin Range(list'[e[1]])
  <2> SUFFICES ASSUME NEW k \in 1..Len(a), NEW e \in Range(a[k])
               PROVE  e[2] <= entered'[e[1]] /\ e \notin Range(list'[e[1]])
    OBVIOUS
  <2>1. e[1] \in LogProcs /\ e[2] \in Nat /\ e[2] <= entered[e[1]] /\ e \notin Range(list[e[1]])
    BY <1>4 DEF Accepted, LogEntries
  <2>2. entered[e[1]] \in Nat /\ entered'[e[1]] \in Nat
    BY <2>1 DEF LogIInv, LogTypes
  <2>3. CASE e[1] = p
    BY <1>3, <2>1, <2>2, <2>3
  <2>4. CASE e[1] # p
    BY <2>1, <2>4
  <2> QED
    BY <2>3, <2>4
<1>7. \A e \in Range(s) : e[2] <= entered'[e[1]] /\ e \notin Range(list'[e[1]])
  BY <1>3
<1>8. \A k \in 1..Len(a) : Range(a[k]) \cap Range(s) = {}
  <2> SUFFICES ASSUME NEW k \in 1..Len(a), NEW e \in Range(a[k]), e \in Range(s) PROVE FALSE
    OBVIOUS
  <2>1. e[1] = p /\ e[2] <= entered[p] /\ e \notin Range(list[p]) /\ e[2] \in Nat
    BY <1>4 DEF Accepted, LogEntries
  <2>2. e[2] > entered[p] /\ entered[p] \in Nat
    BY <2>1 DEF LogIInv, LogTypes
  <2> QED
    BY <2>1, <2>2
<1>9. \A k, l \in 1..Len(a) : k # l => Range(a[k]) \cap Range(a[l]) = {}
  BY <1>1 DEF LogIInv, EntriesOnce
<1>10. PICK b : b = Append(a, s)
  OBVIOUS
<1>11. accepted' = b /\ Len(b) = Len(a) + 1 /\ b[Len(a) + 1] = s /\ \A k \in 1..Len(a) : b[k] = a[k]
  BY <1>1, <1>2, <1>10
<1>12. \A k \in 1..(Len(a) + 1) : k \in 1..Len(a) \/ k = Len(a) + 1
  BY <1>2
<1>13. \A k \in 1..(Len(a) + 1) : \A e \in Range(b[k]) : e[2] <= entered'[e[1]] /\ e \notin Range(list'[e[1]])
  BY <1>6, <1>7, <1>11, <1>12
<1>14. \A k, l \in 1..(Len(a) + 1) : k # l => Range(b[k]) \cap Range(b[l]) = {}
  BY <1>8, <1>9, <1>11, <1>12
<1> QED
  BY <1>5, <1>11, <1>13, <1>14 DEF EntriesOnce, LogWaits, Accepted

LEMMA BytesAssociate == \A a, b, c \in Seq(LogBytes) : (a \o b) \o c = a \o (b \o c)
BY ConcatAssociative

LEMMA LogInitKept == LogInit => LogIInv
<1> SUFFICES ASSUME LogInit PROVE LogIInv
  OBVIOUS
<1>1. LogTypes
  BY EmptySeq DEF LogInit, LogTypes
<1>2. accepted = <<>> /\ Len(accepted) = 0 /\ \A p \in LogProcs : Range(list[p]) = {}
  BY DEF LogInit, Range
<1>3. EntriesOnce /\ EntriesStand
  BY <1>2 DEF EntriesOnce, EntriesStand
<1>4. NothingElse
  <2>1. LogStream = <<>>
    BY DEF LogInit, LogStream
  <2>2. FlattenSeq(<<>>) = <<>>
    BY EmptySeq DEF FlattenSeq
  <2>3. Text(<<>>) = <<>>
    <3>1. Texts(<<>>) = <<>>
      BY EmptySeq, TextsType
    <3> QED
      BY <2>2, <3>1 DEF Text, Texts
  <2> QED
    BY <1>2, <2>1, <2>2, <2>3 DEF NothingElse
<1> QED
  BY <1>1, <1>3, <1>4 DEF LogIInv

LEMMA LogArrayKept ==
    ASSUME LogIInv, NEW p \in LogProcs, LogArray(p) PROVE LogIInv'
<1>1. PICK e : e = <<p, entered[p] + 1>>
  OBVIOUS
<1>2. /\ entered' = [entered EXCEPT ![p] = @ + 1] /\ entered[p] \in Nat
      /\ list' = [list EXCEPT ![p] = Append(@, e)] /\ e \in LogEntries /\ e[1] = p /\ e[2] = entered[p] + 1
      /\ UNCHANGED <<logchoice, sends, logpipe, chunk, log, accepted>>
  BY <1>1 DEF LogArray, LogIInv, LogTypes, LogEntries
<1>3. LogTypes'
  <2>1. entered' \in [LogProcs -> Nat]
    BY <1>2 DEF LogIInv, LogTypes
  <2>2. list' \in [LogProcs -> Seq(LogEntries)]
    BY <1>2 DEF LogIInv, LogTypes
  <2>3. logkind = "atomic"
    BY DEF LogArray
  <2> QED
    BY <1>2, <2>1, <2>2, <2>3 DEF LogIInv, LogTypes, logchoice
<1>4. /\ \A q \in LogProcs : q # p => list'[q] = list[q] /\ entered'[q] = entered[q]
      /\ entered'[p] = entered[p] + 1 /\ Range(list'[p]) = Range(list[p]) \cup {e}
  <2>1. list[p] \in Seq(LogEntries) /\ list'[p] = Append(list[p], e)
    BY <1>2 DEF LogIInv, LogTypes
  <2>2. Range(Append(list[p], e)) = Range(list[p]) \cup {e}
    <3>1. /\ DOMAIN list[p] = 1..Len(list[p]) /\ Len(list[p]) \in Nat
          /\ DOMAIN Append(list[p], e) = 1..(Len(list[p]) + 1) /\ Append(list[p], e)[Len(list[p]) + 1] = e
          /\ \A i \in 1..Len(list[p]) : Append(list[p], e)[i] = list[p][i]
      BY <2>1
    <3> QED
      BY <3>1 DEF Range
  <2> QED
    BY <1>2, <2>1, <2>2 DEF LogIInv, LogTypes
<1>5. EntriesOnce'
  <2>1. \A q \in LogProcs : \A f \in Range(list'[q]) : f[1] = q /\ f[2] <= entered'[q]
    <3> SUFFICES ASSUME NEW q \in LogProcs, NEW f \in Range(list'[q]) PROVE f[1] = q /\ f[2] <= entered'[q]
      OBVIOUS
    <3>1. CASE q # p \/ f # e
      <4>1. f \in Range(list[q])
        BY <1>4, <3>1
      <4>2. f[1] = q /\ f[2] <= entered[q]
        BY <4>1 DEF LogIInv, EntriesOnce, LogWaits
      <4>3. list[q] \in Seq(LogEntries) /\ entered[q] \in Nat
        BY DEF LogIInv, LogTypes
      <4>4. f[2] \in Nat
        BY <4>1, <4>3, RangeOfSeq DEF LogEntries
      <4> QED
        BY <1>4, <4>2, <4>3, <4>4
    <3>2. CASE q = p /\ f = e
      BY <1>2, <1>4, <3>2
    <3> QED
      BY <3>1, <3>2
  <2>2. \A k \in 1..Len(accepted) : \A f \in Range(accepted[k]) : f[2] <= entered'[f[1]] /\ f \notin Range(list'[f[1]])
    <3> SUFFICES ASSUME NEW k \in 1..Len(accepted), NEW f \in Range(accepted[k])
                 PROVE  f[2] <= entered'[f[1]] /\ f \notin Range(list'[f[1]])
      OBVIOUS
    <3>1. f[2] <= entered[f[1]] /\ f \notin Range(list[f[1]])
      BY DEF LogIInv, EntriesOnce, Accepted
    <3>2. accepted[k] \in Seq(LogEntries)
      BY DEF LogIInv, LogTypes
    <3>3. f[1] \in LogProcs /\ f[2] \in Nat
      BY <3>2, RangeOfSeq DEF LogEntries
    <3>4. entered[f[1]] \in Nat
      BY <3>3 DEF LogIInv, LogTypes
    <3> QED
      BY <1>2, <1>4, <3>1, <3>3, <3>4
  <2> QED
    BY <1>2, <2>1, <2>2 DEF LogIInv, EntriesOnce, LogWaits, Accepted
<1>6. EntriesStand' /\ NothingElse'
  BY <1>2 DEF LogIInv, EntriesStand, NothingElse, StandsTogether, LogStream, Text, EntryBytes, logchoice
<1> QED
  BY <1>3, <1>5, <1>6 DEF LogIInv

\* The pipe and what the child has read are empty unless the logger is remote: what is
\* written to the log is at the end.
LEMMA WriteAtEnd ==
    ASSUME LogIInv, logkind # "remote", NEW added \in Seq(LogBytes), log' = log \o added,
           UNCHANGED <<logpipe, chunk>>
    PROVE  LogStream' = LogStream \o added
<1>1. chunk = <<>> /\ logpipe = <<>> /\ log \in Seq(LogBytes)
  BY DEF LogIInv, LogTypes
<1>2. log \o added \in Seq(LogBytes)
  BY <1>1, ConcatProperties
<1>3. \A s \in Seq(LogBytes) : (s \o <<>>) \o <<>> = s
  BY ConcatEmptySeq
<1> QED
  BY <1>1, <1>2, <1>3 DEF LogStream

LEMMA LogSendKept ==
    ASSUME LogIInv, NEW p \in LogProcs, LogSend(p) PROVE LogIInv'
<1>1. PICK s, text : s = list[p] /\ text = Text(s)
  OBVIOUS
<1>2. s \in Seq(LogEntries) /\ text \in Seq(LogBytes) /\ Len(text) \in Nat /\ logkind = "atomic"
  BY <1>1, TextConcat, LenProperties DEF LogSend, LogIInv, LogTypes
<1>3. PICK written \in WriteCounts(Len(text)) :
          /\ log' = log \o SubSeq(text, 1, written)
          /\ IF written # Len(text) THEN UNCHANGED <<list, accepted>>
             ELSE /\ list' = [list EXCEPT ![p] = << >>]
                  /\ accepted' = Append(accepted, list[p])
  BY <1>1 DEF LogSend
<1>4. written \in Int /\ written <= Len(text) /\ (logfaults = {} => written = Len(text))
  BY <1>2 DEF WriteCounts
<1>5. UNCHANGED <<logchoice, entered, logpipe, chunk>>
  BY DEF LogSend
<1>6. PICK added : added = SubSeq(text, 1, written)
  OBVIOUS
<1>7. added \in Seq(LogBytes) /\ (written = Len(text) => added = text)
  BY <1>2, <1>4, <1>6, FirstBytes
<1>8. log' = log \o added /\ log' \in Seq(LogBytes)
  BY <1>3, <1>6, <1>7, ConcatProperties DEF LogIInv, LogTypes
<1>9. LogStream' = LogStream \o added
  BY <1>2, <1>5, <1>7, <1>8, WriteAtEnd
<1>10. CASE written # Len(text)
  <2>1. list' = list /\ accepted' = accepted
    BY <1>3, <1>10
  <2>2. LogTypes'
    BY <1>5, <1>8, <2>1 DEF LogIInv, LogTypes, logchoice
  <2>3. EntriesOnce'
    BY <1>5, <2>1 DEF LogIInv, EntriesOnce, LogWaits, Accepted
  <2>4. EntriesStand' /\ NothingElse'
    BY <1>4, <1>5, <1>7, <1>9, <1>10, <2>1, <2>2, StandStep DEF logchoice
  <2> QED
    BY <2>2, <2>3, <2>4 DEF LogIInv
<1>11. CASE written = Len(text)
  <2>1. list' = [list EXCEPT ![p] = <<>>] /\ accepted' = Append(accepted, s)
    BY <1>1, <1>3, <1>11
  <2>2. LogTypes'
    <3>1. list' \in [LogProcs -> Seq(LogEntries)]
      BY <2>1, EmptySeq DEF LogIInv, LogTypes
    <3>2. accepted' \in Seq(Seq(LogEntries))
      BY <1>2, <2>1, AppendProperties DEF LogIInv, LogTypes
    <3> QED
      BY <1>2, <1>5, <1>8, <3>1, <3>2 DEF LogIInv, LogTypes, logchoice
  <2>3. EntriesOnce'
    <3>1. /\ \A q \in LogProcs : q # p => list'[q] = list[q] /\ entered'[q] = entered[q]
          /\ list'[p] = <<>> /\ entered[p] <= entered'[p]
      BY <1>5, <2>1 DEF LogIInv, LogTypes
    <3>2. \A e \in Range(s) : e[1] = p /\ e[2] <= entered'[p] /\ (e \in Range(list[p]) \/ e[2] > entered[p])
      BY <1>1, <1>5 DEF LogIInv, EntriesOnce, LogWaits
    <3>3. list' \in [LogProcs -> Seq(LogEntries)] /\ entered' \in [LogProcs -> Nat]
      BY <2>2 DEF LogTypes
    <3> QED
      BY <1>2, <2>1, <3>1, <3>2, <3>3, OnceStep
  <2>4. EntriesStand' /\ NothingElse'
    BY <1>1, <1>2, <1>5, <1>7, <1>9, <1>11, <2>1, <2>2, StandStep DEF logchoice
  <2> QED
    BY <2>2, <2>3, <2>4 DEF LogIInv
<1> QED
  BY <1>10, <1>11

LEMMA LogClearKept ==
    ASSUME LogIInv, NEW p \in LogProcs, LogClear(p) PROVE LogIInv'
<1>1. /\ list' = [list EXCEPT ![p] = <<>>]
      /\ UNCHANGED <<logchoice, entered, sends, logpipe, chunk, log, accepted>>
  BY DEF LogClear
<1>2. LogTypes'
  BY <1>1, EmptySeq DEF LogIInv, LogTypes, logchoice
<1>3. Range(<<>>) = {} /\ \A q \in LogProcs : list'[q] = IF q = p THEN <<>> ELSE list[q]
  BY <1>1 DEF LogIInv, LogTypes, Range
<1>4. \A q \in LogProcs : Range(list'[q]) \subseteq Range(list[q])
  BY <1>3
<1>5. EntriesOnce'
  <2>1. \A k \in 1..Len(accepted) : \A f \in Range(accepted[k]) : f[1] \in LogProcs
    <3> SUFFICES ASSUME NEW k \in 1..Len(accepted), NEW f \in Range(accepted[k]) PROVE f[1] \in LogProcs
      OBVIOUS
    <3>1. accepted[k] \in Seq(LogEntries)
      BY DEF LogIInv, LogTypes
    <3> QED
      BY <3>1, RangeOfSeq DEF LogEntries
  <2> QED
    BY <1>1, <1>4, <2>1 DEF LogIInv, EntriesOnce, LogWaits, Accepted
<1>6. EntriesStand' /\ NothingElse'
  BY <1>1 DEF LogIInv, EntriesStand, NothingElse, StandsTogether, LogStream, Text, EntryBytes, logchoice
<1> QED
  BY <1>2, <1>5, <1>6 DEF LogIInv

LEMMA LprintfKept ==
    ASSUME LogIInv, NEW p \in LogProcs, Lprintf(p) PROVE LogIInv'
<1>1. PICK e, text, s : e = <<p, entered[p] + 1>> /\ text = EntryBytes(e) /\ s = <<e>>
  OBVIOUS
<1>2. /\ entered' = [entered EXCEPT ![p] = @ + 1] /\ entered[p] \in Nat /\ entered'[p] = entered[p] + 1
      /\ e \in LogEntries /\ e[1] = p /\ e[2] = entered[p] + 1 /\ logkind # "atomic"
      /\ UNCHANGED <<logchoice, list, sends, chunk>>
  BY <1>1 DEF Lprintf, LogIInv, LogTypes, LogEntries
<1>3. text \in Seq(LogBytes) /\ Len(text) = EntryLen /\ s \in Seq(LogEntries) /\ Text(s) = text /\ Range(s) = {e}
  <2>1. DOMAIN s = {1} /\ s[1] = e /\ s \in Seq(LogEntries)
    BY <1>1, <1>2
  <2> QED
    BY <1>1, <1>2, <2>1, EntryBytesType, TextOne DEF Range
<1>4. \/ /\ logkind = "remote" /\ logpipe' = logpipe \o text
         /\ accepted' = Append(accepted, s) /\ UNCHANGED log
      \/ /\ logkind = "direct" /\ UNCHANGED logpipe
         /\ \E written \in WriteCounts(EntryLen) :
               /\ log' = log \o SubSeq(text, 1, written)
               /\ accepted' = IF written # EntryLen THEN accepted ELSE Append(accepted, s)
  BY <1>1, <1>2 DEF Lprintf
<1>5. \A q \in LogProcs : q # p => entered'[q] = entered[q]
  BY <1>2 DEF LogIInv, LogTypes
<1>6. entered' \in [LogProcs -> Nat] /\ list' = list /\ list' \in [LogProcs -> Seq(LogEntries)]
  BY <1>2 DEF LogIInv, LogTypes
<1>7. list[p] = <<>> /\ Range(list[p]) = {}
  BY <1>2 DEF LogIInv, LogTypes, Range
<1>8. ASSUME accepted' = accepted PROVE EntriesOnce'
  <2>1. \A q \in LogProcs : \A f \in Range(list[q]) : f[1] = q /\ f[2] <= entered'[q]
    BY <1>2, <1>5, <1>7 DEF LogIInv, EntriesOnce, LogWaits
  <2>2. \A k \in 1..Len(accepted) : \A f \in Range(accepted[k]) : f[2] <= entered'[f[1]]
    <3> SUFFICES ASSUME NEW k \in 1..Len(accepted), NEW f \in Range(accepted[k]) PROVE f[2] <= entered'[f[1]]
      OBVIOUS
    <3>1. f[2] <= entered[f[1]] /\ accepted[k] \in Seq(LogEntries)
      BY DEF LogIInv, EntriesOnce, Accepted, LogTypes
    <3>2. f[1] \in LogProcs /\ f[2] \in Nat
      BY <3>1, RangeOfSeq DEF LogEntries
    <3> QED
      BY <1>2, <1>5, <3>1, <3>2
  <2> QED
    BY <1>6, <1>8, <2>1, <2>2 DEF LogIInv, EntriesOnce, LogWaits, Accepted
<1>9. ASSUME accepted' = Append(accepted, s) PROVE EntriesOnce'
  <2>1. \A f \in Range(s) : f[1] = p /\ f[2] <= entered'[p] /\ (f \in Range(list[p]) \/ f[2] > entered[p])
    BY <1>2, <1>3
  <2>2. list'[p] = <<>> /\ entered[p] <= entered'[p] /\ \A q \in LogProcs : q # p => list'[q] = list[q]
    BY <1>2, <1>6, <1>7
  <2>3. /\ s \in Seq(LogEntries) /\ accepted' = Append(accepted, s)
        /\ list' \in [LogProcs -> Seq(LogEntries)] /\ entered' \in [LogProcs -> Nat]
        /\ \A q \in LogProcs : q # p => list'[q] = list[q] /\ entered'[q] = entered[q]
    BY <1>3, <1>5, <1>6, <1>9
  <2> QED
    BY <2>1, <2>2, <2>3, OnceStep
<1>10. accepted' = accepted \/ accepted' = Append(accepted, s)
  <2>1. ASSUME NEW written, accepted' = IF written # EntryLen THEN accepted ELSE Append(accepted, s)
        PROVE  accepted' = accepted \/ accepted' = Append(accepted, s)
    BY <2>1
  <2> QED
    BY <1>4, <2>1, Zenon
<1>14. EntriesOnce'
  BY <1>8, <1>9, <1>10
<1>11. accepted' \in Seq(Seq(LogEntries))
  <2>1. accepted \in Seq(Seq(LogEntries))
    BY DEF LogIInv, LogTypes
  <2>2. Append(accepted, s) \in Seq(Seq(LogEntries))
    BY <1>3, <2>1, AppendProperties
  <2> QED
    BY <1>10, <2>1, <2>2
<1>12. CASE logkind = "remote" /\ logpipe' = logpipe \o text /\ accepted' = Append(accepted, s) /\ UNCHANGED log
  <2>1. logpipe' \in Seq(LogBytes)
    BY <1>3, <1>12, ConcatProperties DEF LogIInv, LogTypes
  <2>2. LogTypes'
    BY <1>2, <1>6, <1>7, <1>11, <1>12, <2>1 DEF LogIInv, LogTypes, logchoice
  <2>3. LogStream' = LogStream \o text
    <3>1. log \in Seq(LogBytes) /\ chunk \in Seq(LogBytes) /\ logpipe \in Seq(LogBytes)
      BY DEF LogIInv, LogTypes
    <3>2. log \o chunk \in Seq(LogBytes)
      BY <3>1, ConcatProperties
    <3>3. (log \o chunk) \o (logpipe \o text) = ((log \o chunk) \o logpipe) \o text
      BY <1>3, <3>1, <3>2, BytesAssociate
    <3> QED
      BY <1>2, <1>12, <3>3 DEF LogStream
  <2>4. EntriesStand' /\ NothingElse'
    BY <1>2, <1>3, <1>12, <2>2, <2>3, StandStep DEF logchoice
  <2> QED
    BY <1>14, <2>2, <2>4 DEF LogIInv
<1>13. ASSUME logkind = "direct", UNCHANGED logpipe, NEW written \in WriteCounts(EntryLen),
              log' = log \o SubSeq(text, 1, written),
              accepted' = IF written # EntryLen THEN accepted ELSE Append(accepted, s)
       PROVE  LogIInv'
  <2>1. written \in Int /\ written <= Len(text) /\ (logfaults = {} => written = Len(text))
    BY <1>3, EntryLenAssumption DEF WriteCounts
  <2>2. PICK added : added = SubSeq(text, 1, written)
    OBVIOUS
  <2>3. added \in Seq(LogBytes) /\ (written = Len(text) => added = text)
    BY <1>3, <2>1, <2>2, FirstBytes
  <2>4. log' = log \o added /\ log' \in Seq(LogBytes)
    BY <1>13, <2>2, <2>3, ConcatProperties DEF LogIInv, LogTypes
  <2>5. LogStream' = LogStream \o added
    BY <1>2, <1>13, <2>3, <2>4, WriteAtEnd
  <2>6. LogTypes'
    BY <1>2, <1>6, <1>7, <1>11, <1>13, <2>4 DEF LogIInv, LogTypes, logchoice
  <2>7. EntriesStand' /\ NothingElse'
    <3>1. CASE written # EntryLen
      BY <1>2, <1>3, <1>13, <2>1, <2>3, <2>5, <2>6, <3>1, StandStep DEF logchoice
    <3>2. CASE written = EntryLen
      BY <1>2, <1>3, <1>13, <2>3, <2>5, <2>6, <3>2, StandStep DEF logchoice
    <3> QED
      BY <3>1, <3>2
  <2> QED
    BY <1>14, <2>6, <2>7 DEF LogIInv
<1> QED
  BY <1>4, <1>12, <1>13

\* The child of lopen moves bytes on: the stream stays what it is.
LEMMA ChildStepKept ==
    ASSUME LogIInv, ChildStep PROVE LogIInv'
<1>1. UNCHANGED <<logchoice, entered, list, sends, accepted>>
  BY DEF ChildStep, ChildReads, ChildWrites
<1>2. log \in Seq(LogBytes) /\ chunk \in Seq(LogBytes) /\ logpipe \in Seq(LogBytes)
  BY DEF LogIInv, LogTypes
<1>3. LogTypes' /\ LogStream' = LogStream
  <2>1. CASE ChildReads
    <3>1. PICK n \in 1..Len(logpipe) : /\ chunk' = SubSeq(logpipe, 1, n)
                                       /\ logpipe' = SubSeq(logpipe, n + 1, Len(logpipe))
      BY <2>1 DEF ChildReads
    <3>2. chunk = <<>> /\ log' = log
      BY <2>1 DEF ChildReads
    <3>3. chunk' \in Seq(LogBytes) /\ logpipe' \in Seq(LogBytes) /\ chunk' \o logpipe' = logpipe
      BY <1>2, <3>1, CutInTwo
    <3>4. logpipe # <<>>
      BY <3>1
    <3>5. LogTypes'
      BY <1>1, <3>2, <3>3, <3>4 DEF LogIInv, LogTypes, logchoice
    <3>6. (log \o chunk') \o logpipe' = log \o (chunk' \o logpipe')
      BY <1>2, <3>3, BytesAssociate
    <3>7. log \o <<>> = log
      BY <1>2, ConcatEmptySeq
    <3> QED
      BY <3>2, <3>3, <3>5, <3>6, <3>7 DEF LogStream
  <2>2. CASE ChildWrites
    <3>1. PICK n \in 1..Len(chunk) : /\ log' = log \o SubSeq(chunk, 1, n)
                                     /\ chunk' = SubSeq(chunk, n + 1, Len(chunk))
      BY <2>2 DEF ChildWrites
    <3>2. logpipe' = logpipe
      BY <2>2 DEF ChildWrites
    <3>3. PICK first : first = SubSeq(chunk, 1, n)
      OBVIOUS
    <3>4. first \in Seq(LogBytes) /\ chunk' \in Seq(LogBytes) /\ first \o chunk' = chunk
      BY <1>2, <3>1, <3>3, CutInTwo
    <3>5. log' = log \o first /\ log' \in Seq(LogBytes)
      BY <1>2, <3>1, <3>3, <3>4, ConcatProperties
    <3>6. chunk # <<>>
      BY <3>1
    <3>7. LogTypes'
      BY <1>1, <3>2, <3>4, <3>5, <3>6 DEF LogIInv, LogTypes, logchoice
    <3>8. (log \o first) \o chunk' = log \o (first \o chunk')
      BY <1>2, <3>4, BytesAssociate
    <3> QED
      BY <3>2, <3>4, <3>5, <3>7, <3>8 DEF LogStream
  <2> QED
    BY <2>1, <2>2 DEF ChildStep
<1>4. EntriesOnce'
  BY <1>1 DEF LogIInv, EntriesOnce, LogWaits, Accepted
<1>5. EntriesStand' /\ NothingElse'
  BY <1>1, <1>3 DEF LogIInv, EntriesStand, NothingElse, StandsTogether, Text, EntryBytes, logchoice
<1> QED
  BY <1>3, <1>4, <1>5 DEF LogIInv

LEMMA LogStepKept == LogIInv /\ [LogNext]_logvars => LogIInv'
<1> SUFFICES ASSUME LogIInv, [LogNext]_logvars PROVE LogIInv'
  OBVIOUS
<1>1. CASE UNCHANGED logvars
  <2>1. UNCHANGED <<logkind, logfaults, entered, list, logpipe, chunk, log, accepted>>
    BY <1>1 DEF logvars, logchoice
  <2>2. LogTypes' /\ EntriesOnce'
    BY <2>1 DEF LogIInv, LogTypes, EntriesOnce, LogWaits, Accepted
  <2>3. EntriesStand' /\ NothingElse'
    BY <2>1 DEF LogIInv, EntriesStand, NothingElse, StandsTogether, LogStream, Text, EntryBytes
  <2> QED
    BY <2>2, <2>3 DEF LogIInv
<1>2. CASE LogNext
  BY <1>2, LogArrayKept, LogSendKept, LogClearKept, LprintfKept, ChildStepKept DEF LogNext
<1> QED
  BY <1>1, <1>2

LEMMA LogInvariant == LogSpec => []LogIInv
<1> QED
  BY LogInitKept, LogStepKept, PTL DEF LogSpec

LEMMA LogConsequence == LogIInv => EntriesWhole
<1> SUFFICES ASSUME LogIInv PROVE EntriesWhole
  OBVIOUS
<1>1. DOMAIN accepted = 1..Len(accepted)
  BY DEF LogIInv, LogTypes
<1> QED
  BY <1>1 DEF LogIInv, EntriesWhole, EntriesOnce, EntriesStand, NothingElse

\* The loggers of appendix D, without a lock between the processes.  The bytes of
\* the entries of a call that reported success stand together in the log, whatever
\* the other processes do, and no entry is there by two calls; when no write is cut
\* short the log is those entries in the order of the calls and nothing else.  For
\* any processes, entries of any length and any capacity of the pipe.
THEOREM LogEntriesWhole == LogSpec => []EntriesWhole
<1> QED
  BY LogInvariant, LogConsequence, PTL

-----------------------------------------------------------------------------
(* RestartIO.                                                              *)

\* Pieces of a sequence that lie one after the other.
LEMMA Pieces ==
    ASSUME NEW S, NEW s \in Seq(S), NEW a \in Nat, NEW b \in Nat, NEW c \in Nat, a <= b, b <= c, c <= Len(s)
    PROVE  /\ SubSeq(s, a + 1, b) \in Seq(S) /\ Len(SubSeq(s, a + 1, b)) = b - a
           /\ \A i \in 1..(b - a) : SubSeq(s, a + 1, b)[i] = s[a + i]
           /\ SubSeq(s, a + 1, b) \o SubSeq(s, b + 1, c) = SubSeq(s, a + 1, c)
<1>1. Len(s) \in Nat /\ \A i \in 1..Len(s) : s[i] \in S
  BY LenProperties, ElementOfSeq
<1>2. a + 1 \in Int /\ b \in Int /\ \A i \in a + 1..b : s[i] \in S
  BY <1>1
<1>3. /\ SubSeq(s, a + 1, b) \in Seq(S)
      /\ Len(SubSeq(s, a + 1, b)) = IF a + 1 <= b THEN b - (a + 1) + 1 ELSE 0
      /\ \A i \in 1..b - (a + 1) + 1 : SubSeq(s, a + 1, b)[i] = s[(a + 1) + i - 1]
  BY <1>2, SubSeqProperties
<1>4. \A i \in 1..(b - a) : i \in 1..b - (a + 1) + 1 /\ (a + 1) + i - 1 = a + i
  OBVIOUS
<1>5. a + 1 \in 1..Len(s) + 1 /\ b \in (a + 1) - 1..Len(s) /\ c \in b..Len(s)
  BY <1>1
<1>6. SubSeq(s, a + 1, b) \o SubSeq(s, b + 1, c) = SubSeq(s, a + 1, c)
  BY <1>5, ConcatAdjacentSubSeq
<1> QED
  BY <1>3, <1>4, <1>6

Bytes == Nat \X Nat

\* The first n messages, and their bytes.
Upto(n) == [k \in 1..n |-> Message(k)]
Stream(n) == FlattenSeq(Upto(n))
SentTo(n, done) == Stream(n - 1) \o (IF n <= Len(lens) THEN SubSeq(Message(n), 1, done) ELSE <<>>)

Pending == SubSeq(cbuf, cdone + 1, Len(cbuf))
Held == (Flat(received) \o rhead) \o rgot
Rest == ((rhead \o rgot) \o pipe2) \o (Pending \o pipe1)
Numbers == Len(received)

PipeTypes ==
    /\ format \in {"packets", "lines"} /\ lens \in Seq(Nat)
    /\ spc \in {"run", "end"} /\ smsg \in 1..(Len(lens) + 1) /\ sdone \in Nat
    /\ pipe1 \in Seq(Bytes) /\ pipe2 \in Seq(Bytes)
    /\ cpc \in {"read", "write", "end"} /\ cbuf \in Seq(Bytes) /\ cdone \in 0..Len(cbuf) /\ ctotal \in Int
    /\ rpc \in {"run", "eof", "error"} /\ rhead \in Seq(Bytes) /\ rgot \in Seq(Bytes)
    /\ received \in Seq(Seq(Bytes))

\* A message that is refused is not begun, and one that is complete is not begun either.
SenderKept ==
    /\ smsg <= Len(lens) => sdone < Size(smsg)
    /\ smsg > Len(lens) \/ Refused(smsg) => sdone = 0
    /\ \A k \in 1..Len(lens) : k < smsg => ~Refused(k)

CopierKept ==
    /\ cpc = "read" => cdone = Len(cbuf)
    /\ cpc = "write" => cdone < Len(cbuf)

\* The receiver has whole messages, and less than one more.
ReceiverKept ==
    /\ Numbers <= smsg - 1 /\ received = Upto(Numbers)
    /\ rhead # <<>> \/ rgot # <<>> => Numbers < Len(lens) /\ Len(rhead) + Len(rgot) < Size(Numbers + 1)
    /\ rhead # <<>> => format = "packets" /\ Len(rhead) = HeaderLen
    /\ format = "packets" /\ rhead = <<>> => Len(rgot) < HeaderLen
    /\ format = "lines" => /\ \A k \in 1..Numbers : lens[k] <= LineMax - 2
                           /\ rpc = "run" => Len(rgot) <= LineMax - 2

\* No byte is lost, duplicated or moved.
StreamKept == SentTo(smsg, sdone) = InTransit

\* Without failures the processes end after the last message, or at one that cannot
\* get through.
EndsKept ==
    /\ rpc = "eof" => rhead = <<>> /\ rgot = <<>>
    /\ iofaults = {} =>
        /\ rpc = "run" /\ cpc = "end" => spc = "end" /\ pipe1 = <<>> /\ cdone = Len(cbuf)
        /\ rpc = "run" /\ spc = "end" => sdone = 0 /\ (smsg > Len(lens) \/ Refused(smsg))
        /\ rpc # "run" => Numbers = Deliverable /\ (rpc = "error" => format = "lines" /\ Deliverable < Len(lens))

PipeIInv == PipeTypes /\ SenderKept /\ CopierKept /\ ReceiverKept /\ StreamKept /\ EndsKept /\ CopyCounts

-----------------------------------------------------------------------------
(* Streams of bytes.                                                       *)

LEMMA ByteStreams ==
    /\ \A a, b \in Seq(Bytes) : a \o b \in Seq(Bytes) /\ Len(a \o b) = Len(a) + Len(b) /\ Len(a) \in Nat
    /\ \A a \in Seq(Bytes) : a \o <<>> = a /\ <<>> \o a = a
    /\ <<>> \in Seq(Bytes) /\ Len(<<>>) = 0
    /\ \A a \in Seq(Bytes) : Len(a) = 0 => a = <<>>
<1>1. \A a, b \in Seq(Bytes) : a \o b \in Seq(Bytes) /\ Len(a \o b) = Len(a) + Len(b) /\ Len(a) \in Nat
  BY ConcatProperties, LenProperties
<1>2. \A a \in Seq(Bytes) : a \o <<>> = a /\ <<>> \o a = a
  BY ConcatEmptySeq
<1>3. <<>> \in Seq(Bytes) /\ Len(<<>>) = 0 /\ \A a \in Seq(Bytes) : Len(a) = 0 => a = <<>>
  BY EmptySeq
<1> QED
  BY <1>1, <1>2, <1>3

LEMMA StreamsAssociate == \A a, b, c \in Seq(Bytes) : (a \o b) \o c = a \o (b \o c)
BY ConcatAssociative

LEMMA StreamsCancel == \A a, b, c \in Seq(Bytes) : a \o b = a \o c => b = c
BY ConcatSimplifications

LEMMA MessageType ==
    ASSUME PipeTypes, NEW k \in 1..Len(lens)
    PROVE  /\ lens[k] \in Nat /\ Size(k) \in Nat \ {0} /\ Message(k) \in Seq(Bytes) /\ Len(Message(k)) = Size(k)
           /\ \A j \in 1..Size(k) : Message(k)[j] = <<k, j>>
           /\ Size(k) = IF format = "packets" THEN lens[k] + HeaderLen ELSE lens[k] + 1
<1>1. lens[k] \in Nat /\ k \in Nat
  BY LenProperties DEF PipeTypes
<1>2. Size(k) = IF format = "packets" THEN lens[k] + HeaderLen ELSE lens[k] + 1
  BY DEF Size
<1>3. Size(k) \in Nat \ {0}
  BY <1>1, <1>2, RestartAssumption
<1>4. PICK n \in Nat : n = Size(k)
  BY <1>3
<1>5. Message(k) = [j \in 1..n |-> <<k, j>>]
  BY <1>4 DEF Message
<1>6. \A j \in 1..n : <<k, j>> \in Bytes
  BY <1>1 DEF Bytes
<1> QED
  BY <1>1, <1>2, <1>3, <1>4, <1>5, <1>6

LEMMA UptoType ==
    ASSUME PipeTypes, NEW n \in Nat, n <= Len(lens)
    PROVE  /\ Upto(n) \in Seq(Seq(Bytes)) /\ Len(Upto(n)) = n
           /\ n + 1 <= Len(lens) => Upto(n + 1) = Append(Upto(n), Message(n + 1))
<1>0. Len(lens) \in Nat
  BY LenProperties DEF PipeTypes
<1>1. \A m \in Nat : m <= Len(lens) => Upto(m) \in [1..m -> Seq(Bytes)]
  <2> SUFFICES ASSUME NEW m \in Nat, m <= Len(lens), NEW k \in 1..m PROVE Message(k) \in Seq(Bytes)
    BY DEF Upto
  <2> QED
    BY <1>0, MessageType
<1>2. Upto(n) \in Seq(Seq(Bytes)) /\ Len(Upto(n)) = n
  BY <1>1
<1>3. ASSUME n + 1 <= Len(lens) PROVE Upto(n + 1) = Append(Upto(n), Message(n + 1))
  <2>1. Upto(n + 1) \in [1..(n + 1) -> Seq(Bytes)] /\ Message(n + 1) \in Seq(Bytes)
    BY <1>0, <1>1, <1>3, MessageType
  <2>2. Append(Upto(n), Message(n + 1)) \in Seq(Seq(Bytes)) /\ Len(Append(Upto(n), Message(n + 1))) = n + 1
        /\ Append(Upto(n), Message(n + 1))[n + 1] = Message(n + 1)
        /\ \A i \in 1..n : Append(Upto(n), Message(n + 1))[i] = Upto(n)[i]
    BY <1>2, <2>1, AppendProperties
  <2>3. Upto(n + 1) \in Seq(Seq(Bytes)) /\ Len(Upto(n + 1)) = n + 1
    BY <2>1
  <2>4. ASSUME NEW i \in 1..(n + 1) PROVE Upto(n + 1)[i] = Append(Upto(n), Message(n + 1))[i]
    <3>1. Upto(n + 1)[i] = Message(i)
      BY DEF Upto
    <3>2. CASE i = n + 1
      BY <2>2, <3>1, <3>2
    <3>3. CASE i # n + 1
      <4>1. i \in 1..n
        BY <3>3
      <4>2. Upto(n)[i] = Message(i)
        BY <4>1 DEF Upto
      <4> QED
        BY <2>2, <3>1, <4>1, <4>2
    <3> QED
      BY <3>2, <3>3
  <2> QED
    BY <2>2, <2>3, <2>4, SeqEqual
<1> QED
  BY <1>2, <1>3

LEMMA StreamGrows ==
    ASSUME PipeTypes, NEW n \in Nat, n <= Len(lens)
    PROVE  /\ Stream(n) \in Seq(Bytes)
           /\ n + 1 <= Len(lens) => Message(n + 1) \in Seq(Bytes) /\ Stream(n + 1) = Stream(n) \o Message(n + 1)
<1>0. Len(lens) \in Nat
  BY LenProperties DEF PipeTypes
<1>1. Upto(n) \in Seq(Seq(Bytes)) /\ (n + 1 <= Len(lens) => Upto(n + 1) = Append(Upto(n), Message(n + 1)))
  BY UptoType
<1>2. Stream(n) \in Seq(Bytes)
  <2>1. <<>> \in Seq(Bytes)
    BY EmptySeq
  <2> QED
    BY <1>1, <2>1, FlattenAppend DEF Stream
<1>3. ASSUME n + 1 <= Len(lens)
      PROVE  Message(n + 1) \in Seq(Bytes) /\ Stream(n + 1) = Stream(n) \o Message(n + 1)
  <2>1. Message(n + 1) \in Seq(Bytes)
    BY <1>0, <1>3, MessageType
  <2> QED
    BY <1>1, <1>3, <2>1, FlattenAppend DEF Stream
<1> QED
  BY <1>2, <1>3

\* The stream of m messages begins with any of its shorter ones and the message after it.
LEMMA StreamBegins ==
    ASSUME PipeTypes, NEW r \in Nat, NEW m \in Nat, r < m, m <= Len(lens)
    PROVE  \E t \in Seq(Bytes) : Stream(m) = Stream(r) \o (Message(r + 1) \o t)
<1>0. Len(lens) \in Nat
  BY LenProperties DEF PipeTypes
<1> DEFINE P(n) == \E t \in Seq(Bytes) : Stream(n) = Stream(r) \o (Message(r + 1) \o t)
           Bad == {n \in r + 1..Len(lens) : ~P(n)}
<1>1. P(r + 1)
  <2>1. Message(r + 1) \in Seq(Bytes) /\ Stream(r + 1) = Stream(r) \o Message(r + 1)
    <3>1. r <= Len(lens) /\ r + 1 <= Len(lens)
      BY <1>0
    <3> QED
      BY <3>1, StreamGrows
  <2>2. Message(r + 1) \o <<>> = Message(r + 1) /\ <<>> \in Seq(Bytes)
    BY <2>1, ByteStreams
  <2> QED
    BY <2>1, <2>2
<1>2. ASSUME NEW n \in Nat, r < n, n + 1 <= Len(lens), P(n) PROVE P(n + 1)
  <2>1. PICK t \in Seq(Bytes) : Stream(n) = Stream(r) \o (Message(r + 1) \o t)
    BY <1>2
  <2>2. /\ Message(n + 1) \in Seq(Bytes) /\ Stream(n + 1) = Stream(n) \o Message(n + 1)
        /\ Message(r + 1) \in Seq(Bytes) /\ Stream(r) \in Seq(Bytes)
    <3>1. n <= Len(lens) /\ r <= Len(lens) /\ r + 1 <= Len(lens)
      BY <1>0, <1>2
    <3> QED
      BY <1>2, <3>1, StreamGrows
  <2>3. t \o Message(n + 1) \in Seq(Bytes) /\ Message(r + 1) \o t \in Seq(Bytes)
    BY <2>2, ByteStreams
  <2>4. (Stream(r) \o (Message(r + 1) \o t)) \o Message(n + 1) = Stream(r) \o ((Message(r + 1) \o t) \o Message(n + 1))
    BY <2>2, <2>3, StreamsAssociate
  <2>5. (Message(r + 1) \o t) \o Message(n + 1) = Message(r + 1) \o (t \o Message(n + 1))
    BY <2>2, StreamsAssociate
  <2> QED
    BY <2>1, <2>2, <2>3, <2>4, <2>5
<1> HIDE DEF P
<1>3. Bad = {}
  <2> SUFFICES ASSUME Bad # {} PROVE FALSE
    OBVIOUS
  <2>1. Bad \subseteq Nat
    OBVIOUS
  <2>2. PICK n \in Bad : \A u \in Bad : n <= u
    BY <2>1, LowestNumber
  <2>3. n \in Nat /\ ~P(n) /\ n <= Len(lens) /\ r + 1 < n
    BY <1>1, <2>2
  <2>4. n - 1 \in Nat /\ r < n - 1 /\ (n - 1) + 1 = n /\ n - 1 \notin Bad /\ n - 1 \in r + 1..Len(lens)
    BY <1>0, <2>2, <2>3
  <2>5. P(n - 1)
    BY <2>4
  <2> QED
    BY <1>2, <2>3, <2>4, <2>5
<1>4. P(m)
  BY <1>0, <1>3
<1> QED
  BY <1>4 DEF P

\* The bytes between sender and receiver.
LEMMA RestIs ==
    ASSUME PipeTypes
    PROVE  /\ Pending \in Seq(Bytes) /\ Len(Pending) = Len(cbuf) - cdone
           /\ Flat(received) \in Seq(Bytes) /\ Rest \in Seq(Bytes) /\ Held \in Seq(Bytes)
           /\ InTransit = Flat(received) \o Rest
           /\ InTransit = ((Held \o pipe2) \o Pending) \o pipe1
           /\ Len(Rest) = Len(rhead) + Len(rgot) + Len(pipe2) + Len(Pending) + Len(pipe1)
<1>0. /\ rhead \in Seq(Bytes) /\ rgot \in Seq(Bytes) /\ pipe2 \in Seq(Bytes) /\ pipe1 \in Seq(Bytes)
      /\ cbuf \in Seq(Bytes) /\ cdone \in 0..Len(cbuf) /\ received \in Seq(Seq(Bytes))
  BY DEF PipeTypes
<1>1. Pending \in Seq(Bytes) /\ Len(Pending) = Len(cbuf) - cdone
  <2>1. cdone \in Nat /\ Len(cbuf) \in Nat /\ cdone <= Len(cbuf)
    BY <1>0, LenProperties
  <2> QED
    BY <1>0, <2>1, Pieces DEF Pending
<1>2. Flat(received) \in Seq(Bytes)
  <2>1. <<>> \in Seq(Bytes)
    BY EmptySeq
  <2> QED
    BY <1>0, <2>1, FlattenAppend DEF Flat
<1>3. PICK f, p : f = Flat(received) /\ p = Pending
  OBVIOUS
<1>4. f \in Seq(Bytes) /\ p \in Seq(Bytes)
  BY <1>1, <1>2, <1>3
<1>5. InTransit = ((((f \o rhead) \o rgot) \o pipe2) \o p) \o pipe1
  BY <1>3 DEF InTransit, Pending
<1>6. /\ f \o rhead \in Seq(Bytes) /\ rhead \o rgot \in Seq(Bytes) /\ (f \o rhead) \o rgot \in Seq(Bytes)
      /\ (rhead \o rgot) \o pipe2 \in Seq(Bytes) /\ p \o pipe1 \in Seq(Bytes)
      /\ ((f \o rhead) \o rgot) \o pipe2 \in Seq(Bytes)
  BY <1>0, <1>4, ByteStreams
<1>7. ((((f \o rhead) \o rgot) \o pipe2) \o p) \o pipe1 = f \o (((rhead \o rgot) \o pipe2) \o (p \o pipe1))
  <2>1. (f \o rhead) \o rgot = f \o (rhead \o rgot)
    <3>1. f \in Seq(Bytes) /\ rhead \in Seq(Bytes) /\ rgot \in Seq(Bytes)
      BY <1>0, <1>4
    <3> QED
      BY ONLY StreamsAssociate, <3>1
  <2>2. PICK gh, ghx, yz, ax : gh = rhead \o rgot /\ ghx = gh \o pipe2 /\ yz = p \o pipe1 /\ ax = f \o ghx
    OBVIOUS
  <2>3. gh \in Seq(Bytes) /\ ghx \in Seq(Bytes) /\ yz \in Seq(Bytes)
    BY <1>6, <2>2
  <2>4. ax \in Seq(Bytes)
    BY <1>4, <2>2, <2>3, ByteStreams
  <2>5. (f \o gh) \o pipe2 = f \o (gh \o pipe2)
    <3>1. f \in Seq(Bytes) /\ gh \in Seq(Bytes) /\ pipe2 \in Seq(Bytes)
      BY <1>0, <1>4, <2>3
    <3> QED
      BY ONLY StreamsAssociate, <3>1
  <2>6. (ax \o p) \o pipe1 = ax \o (p \o pipe1)
    BY ONLY StreamsAssociate, <1>0, <1>4, <2>4
  <2>7. (f \o ghx) \o yz = f \o (ghx \o yz)
    BY ONLY StreamsAssociate, <1>4, <2>3
  <2>8. ((f \o rhead) \o rgot) \o pipe2 = ax
    BY ONLY <2>1, <2>2, <2>5
  <2> QED
    BY ONLY <2>2, <2>6, <2>7, <2>8
<1>11. Rest = ((rhead \o rgot) \o pipe2) \o (p \o pipe1)
  BY <1>3 DEF Rest
<1>12. Rest \in Seq(Bytes) /\ Len(Rest) = Len(rhead) + Len(rgot) + Len(pipe2) + Len(p) + Len(pipe1)
  <2>1. /\ Len(rhead \o rgot) = Len(rhead) + Len(rgot) /\ Len(p \o pipe1) = Len(p) + Len(pipe1)
        /\ Len((rhead \o rgot) \o pipe2) = Len(rhead \o rgot) + Len(pipe2)
        /\ Len(Rest) = Len((rhead \o rgot) \o pipe2) + Len(p \o pipe1) /\ Rest \in Seq(Bytes)
    BY <1>0, <1>4, <1>6, <1>11, ByteStreams
  <2>2. Len(rhead) \in Nat /\ Len(rgot) \in Nat /\ Len(pipe2) \in Nat /\ Len(p) \in Nat /\ Len(pipe1) \in Nat
    BY <1>0, <1>4, LenProperties
  <2> QED
    BY <2>1, <2>2
<1> QED
  <2>1. Flat(received) = f /\ Pending = p /\ InTransit = f \o Rest
    BY <1>3, <1>5, <1>7, <1>11
  <2>2. Held = (f \o rhead) \o rgot
    BY <1>3 DEF Held
  <2> QED
    BY <1>1, <1>4, <1>5, <1>6, <1>12, <2>1, <2>2

\* What the receiver has not returned begins with its next message, or is the part of
\* it that has been sent.
LEMMA RestBegins ==
    ASSUME PipeTypes, SenderKept, Numbers <= smsg - 1, received = Upto(Numbers), StreamKept
    PROVE  /\ Numbers \in Nat /\ Flat(received) = Stream(Numbers)
           /\ Numbers < smsg - 1 => \E t \in Seq(Bytes) : Rest = Message(Numbers + 1) \o t
           /\ Numbers = smsg - 1 => Rest = IF smsg <= Len(lens) THEN SubSeq(Message(smsg), 1, sdone) ELSE <<>>
<1>1. Numbers \in Nat /\ Len(lens) \in Nat /\ smsg \in 1..(Len(lens) + 1) /\ Numbers <= Len(lens) /\ smsg - 1 <= Len(lens)
      /\ smsg - 1 \in Nat /\ sdone \in Nat
  BY LenProperties DEF PipeTypes, Numbers
<1>2. Flat(received) = Stream(Numbers)
  BY DEF Flat, Stream
<1>3. PICK part : part = IF smsg <= Len(lens) THEN SubSeq(Message(smsg), 1, sdone) ELSE <<>>
  OBVIOUS
<1>4. part \in Seq(Bytes)
  <2>1. CASE smsg <= Len(lens)
    <3>1. smsg \in 1..Len(lens) /\ sdone < Size(smsg)
      BY <1>1, <2>1 DEF SenderKept
    <3>2. Message(smsg) \in Seq(Bytes) /\ Len(Message(smsg)) = Size(smsg) /\ Size(smsg) \in Nat
      BY <3>1, MessageType
    <3>3. SubSeq(Message(smsg), 0 + 1, sdone) \in Seq(Bytes)
      BY <1>1, <3>1, <3>2, Pieces
    <3> QED
      BY <1>3, <2>1, <3>3
  <2>2. CASE ~(smsg <= Len(lens))
    BY <1>3, <2>2, ByteStreams
  <2> QED
    BY <2>1, <2>2
<1>5. Stream(smsg - 1) \in Seq(Bytes) /\ Stream(Numbers) \in Seq(Bytes) /\ Rest \in Seq(Bytes)
  BY <1>1, StreamGrows, RestIs
<1>6. Stream(smsg - 1) \o part = Stream(Numbers) \o Rest
  BY <1>2, <1>3, RestIs DEF StreamKept, SentTo
<1>7. ASSUME Numbers = smsg - 1 PROVE Rest = part
  BY <1>4, <1>5, <1>6, <1>7, StreamsCancel
<1>8. ASSUME Numbers < smsg - 1 PROVE \E t \in Seq(Bytes) : Rest = Message(Numbers + 1) \o t
  <2>1. PICK t \in Seq(Bytes) : Stream(smsg - 1) = Stream(Numbers) \o (Message(Numbers + 1) \o t)
    BY <1>1, <1>8, StreamBegins
  <2>2. Message(Numbers + 1) \in Seq(Bytes)
    BY <1>1, <1>8, MessageType
  <2>3. t \o part \in Seq(Bytes) /\ Message(Numbers + 1) \o t \in Seq(Bytes) /\ Message(Numbers + 1) \o (t \o part) \in Seq(Bytes)
    BY <1>4, <2>2, ByteStreams
  <2>4. (Stream(Numbers) \o (Message(Numbers + 1) \o t)) \o part = Stream(Numbers) \o ((Message(Numbers + 1) \o t) \o part)
    <3>1. PICK a, b : a = Stream(Numbers) /\ b = Message(Numbers + 1) \o t
      OBVIOUS
    <3>2. (a \o b) \o part = a \o (b \o part)
      <4>1. a \in Seq(Bytes) /\ b \in Seq(Bytes) /\ part \in Seq(Bytes)
        BY <1>4, <1>5, <2>3, <3>1
      <4> QED
        BY <4>1, StreamsAssociate
    <3> QED
      BY <3>1, <3>2
  <2>5. (Message(Numbers + 1) \o t) \o part = Message(Numbers + 1) \o (t \o part)
    BY <1>4, <2>2, StreamsAssociate
  <2>6. Stream(Numbers) \o (Message(Numbers + 1) \o (t \o part)) = Stream(Numbers) \o Rest
    BY <1>6, <2>1, <2>4, <2>5
  <2>7. Rest = Message(Numbers + 1) \o (t \o part)
    BY <1>5, <2>3, <2>6, StreamsCancel
  <2> QED
    BY <2>3, <2>7
<1> QED
  BY <1>1, <1>2, <1>3, <1>7, <1>8

\* So each byte that the receiver holds or is about to read has its place in that
\* message, and a message of which all bytes have come has been sent.
LEMMA RestBytes ==
    ASSUME PipeTypes, SenderKept, Numbers <= smsg - 1, received = Upto(Numbers), StreamKept, Rest # <<>>
    PROVE  /\ Numbers \in Nat /\ Numbers + 1 \in 1..Len(lens)
           /\ \A i \in 1..Len(Rest) : i <= Size(Numbers + 1) => Rest[i] = <<Numbers + 1, i>>
           /\ Len(Rest) >= Size(Numbers + 1) => Numbers + 1 <= smsg - 1
           /\ sdone = 0 => Len(Rest) >= Size(Numbers + 1)
<1>1. Numbers \in Nat /\ Len(lens) \in Nat /\ smsg \in 1..(Len(lens) + 1) /\ sdone \in Nat
  BY LenProperties DEF PipeTypes, Numbers
<1>2. Rest \in Seq(Bytes) /\ Len(Rest) \in Nat /\ Len(Rest) # 0
  BY RestIs, ByteStreams
<1>3. CASE Numbers < smsg - 1
  <2>1. PICK t \in Seq(Bytes) : Rest = Message(Numbers + 1) \o t
    BY <1>3, RestBegins
  <2>2. Numbers + 1 \in 1..Len(lens)
    BY <1>1, <1>3
  <2>3. PICK m : m = Message(Numbers + 1)
    OBVIOUS
  <2>4. m \in Seq(Bytes) /\ Len(m) = Size(Numbers + 1) /\ Size(Numbers + 1) \in Nat \ {0}
        /\ \A j \in 1..Size(Numbers + 1) : m[j] = <<Numbers + 1, j>>
    BY <2>2, <2>3, MessageType
  <2>5. Rest = m \o t /\ Len(m \o t) = Len(m) + Len(t) /\ Len(t) \in Nat
        /\ \A i \in 1..Len(m) + Len(t) : (m \o t)[i] = IF i <= Len(m) THEN m[i] ELSE t[i - Len(m)]
    BY <2>1, <2>3, <2>4, ConcatProperties, LenProperties
  <2>6. Len(Rest) >= Size(Numbers + 1)
    BY <2>4, <2>5
  <2>7. ASSUME NEW i \in 1..Len(Rest), i <= Size(Numbers + 1) PROVE Rest[i] = <<Numbers + 1, i>>
    <3>1. i \in 1..Len(m) + Len(t) /\ i <= Len(m) /\ i \in 1..Size(Numbers + 1)
      BY <2>4, <2>5, <2>7
    <3> QED
      BY <2>4, <2>5, <3>1
  <2> QED
    BY <1>1, <1>3, <2>2, <2>6, <2>7
<1>4. CASE Numbers = smsg - 1
  <2>1. Rest = IF smsg <= Len(lens) THEN SubSeq(Message(smsg), 1, sdone) ELSE <<>>
    BY <1>4, RestBegins
  <2>2. smsg <= Len(lens) /\ Rest = SubSeq(Message(smsg), 0 + 1, sdone)
    <3>1. 0 + 1 = 1
      OBVIOUS
    <3> QED
      BY <2>1, <3>1
  <2>3. smsg \in 1..Len(lens) /\ Numbers + 1 = smsg /\ sdone < Size(smsg)
    BY <1>1, <1>4, <2>2 DEF SenderKept
  <2>4. PICK m : m = Message(smsg)
    OBVIOUS
  <2>5. m \in Seq(Bytes) /\ Len(m) = Size(smsg) /\ Size(smsg) \in Nat \ {0} /\ \A j \in 1..Size(smsg) : m[j] = <<smsg, j>>
    BY <2>3, <2>4, MessageType
  <2>6. Len(Rest) = sdone - 0 /\ \A i \in 1..(sdone - 0) : Rest[i] = m[0 + i]
    <3>1. 0 \in Nat /\ 0 <= sdone /\ sdone <= sdone /\ sdone <= Len(m)
      BY <1>1, <2>3, <2>5
    <3> QED
      BY <1>1, <2>2, <2>4, <2>5, <3>1, Pieces
  <2>7. Len(Rest) = sdone /\ \A i \in 1..Len(Rest) : Rest[i] = m[i]
    BY <1>1, <2>6
  <2>8. \A i \in 1..Len(Rest) : Rest[i] = <<smsg, i>>
    BY <1>1, <2>3, <2>5, <2>7
  <2> QED
    BY <1>1, <1>2, <2>3, <2>5, <2>7, <2>8
<1> QED
  BY <1>1, <1>3, <1>4

-----------------------------------------------------------------------------
(* Every step of the pipeline.                                             *)

\* The k-th message cannot get through.
Stuck(k) == lens[k] > IF format = "packets" THEN MaxPack ELSE LineMax - 2
StuckOnes == {i \in 1..Len(lens) : Stuck(i)}
FirstOfThem == IF StuckOnes = {} THEN 0 ELSE CHOOSE x \in StuckOnes : \A y \in StuckOnes : x <= y

LEMMA FirstStuckIs == FirstStuck = FirstOfThem
BY DEF FirstStuck, SelectInSeq, Min, Stuck, StuckOnes, FirstOfThem

LEMMA DeliverableSame == ASSUME lens' = lens, format' = format PROVE Deliverable' = Deliverable
<1>1. FirstOfThem' = FirstOfThem
  BY DEF StuckOnes, Stuck, FirstOfThem
<1>2. FirstStuck = FirstOfThem
  BY FirstStuckIs
<1>3. (FirstStuck = FirstOfThem)'
  BY FirstStuckIs, PTL
<1>4. FirstStuck' = FirstStuck
  BY <1>1, <1>2, <1>3
<1> QED
  BY <1>4 DEF Deliverable

\* The messages that can get through: a number that has none stuck before it, and the
\* next one stuck.
LEMMA DeliverableIs ==
    ASSUME PipeTypes, NEW r \in Nat, r <= Len(lens), \A k \in 1..r : ~Stuck(k), r = Len(lens) \/ Stuck(r + 1)
    PROVE  Deliverable = r
<1>1. Len(lens) \in Nat
  BY LenProperties DEF PipeTypes
<1>2. CASE r = Len(lens)
  <2>1. StuckOnes = {}
    BY <1>2 DEF StuckOnes
  <2> QED
    BY <1>2, <2>1, FirstStuckIs DEF FirstOfThem, Deliverable
<1>3. CASE r # Len(lens)
  <2>1. r + 1 \in StuckOnes /\ \A y \in StuckOnes : r + 1 <= y
    BY <1>1, <1>3 DEF StuckOnes
  <2>2. StuckOnes \subseteq Nat
    BY DEF StuckOnes
  <2>3. StuckOnes # {} /\ \E x \in StuckOnes : \A y \in StuckOnes : x <= y
    BY <2>1
  <2>4. FirstOfThem \in StuckOnes /\ \A y \in StuckOnes : FirstOfThem <= y
    BY <2>3, Zenon DEF FirstOfThem
  <2>5. FirstOfThem <= r + 1 /\ r + 1 <= FirstOfThem /\ FirstOfThem \in Nat
    BY <2>1, <2>2, <2>4
  <2>6. FirstOfThem = r + 1
    BY <2>5
  <2> QED
    BY <2>6, FirstStuckIs DEF Deliverable
<1> QED
  BY <1>2, <1>3

\* What was given does not change, and with it the messages.
LEMMA GivenSame ==
    ASSUME UNCHANGED given
    PROVE  /\ format' = format /\ lens' = lens /\ iofaults' = iofaults /\ Deliverable' = Deliverable
           /\ \A k : Size(k)' = Size(k) /\ Message(k)' = Message(k) /\ (Refused(k)' <=> Refused(k))
           /\ \A n : Upto(n)' = Upto(n)
<1>1. format' = format /\ lens' = lens /\ iofaults' = iofaults
  BY DEF given
<1>2. Deliverable' = Deliverable
  BY <1>1, DeliverableSame
<1>3. \A k : Size(k)' = Size(k)
  BY <1>1 DEF Size
<1>4. \A k : Message(k)' = Message(k)
  BY <1>1 DEF Message, Size
<1>5. \A k : Refused(k)' <=> Refused(k)
  BY <1>1 DEF Refused
<1>6. \A n : Upto(n)' = Upto(n)
  BY <1>1 DEF Upto, Message, Size
<1> QED
  BY <1>1, <1>2, <1>3, <1>4, <1>5, <1>6

\* The bytes that have been sent.
LEMMA SentType ==
    ASSUME PipeTypes, NEW m \in 1..(Len(lens) + 1), NEW d \in Nat, m <= Len(lens) => d <= Size(m)
    PROVE  /\ SentTo(m, d) \in Seq(Bytes)
           /\ m <= Len(lens) => SentTo(m, d) = Stream(m - 1) \o SubSeq(Message(m), 1, d)
           /\ d = 0 => SentTo(m, d) = Stream(m - 1)
<1>1. Len(lens) \in Nat /\ m - 1 \in Nat /\ m - 1 <= Len(lens)
  BY LenProperties DEF PipeTypes
<1>2. Stream(m - 1) \in Seq(Bytes)
  BY <1>1, StreamGrows
<1>3. CASE m <= Len(lens)
  <2>1. m \in 1..Len(lens) /\ d <= Size(m)
    BY <1>1, <1>3
  <2>2. Message(m) \in Seq(Bytes) /\ Len(Message(m)) = Size(m) /\ Size(m) \in Nat
    BY <2>1, MessageType
  <2>3. SubSeq(Message(m), 0 + 1, d) \in Seq(Bytes) /\ Len(SubSeq(Message(m), 0 + 1, d)) = d - 0
    BY <1>1, <2>1, <2>2, Pieces
  <2>4. 0 + 1 = 1 /\ d - 0 = d
    OBVIOUS
  <2>5. SubSeq(Message(m), 1, d) \in Seq(Bytes) /\ Len(SubSeq(Message(m), 1, d)) = d
    BY <2>3, <2>4
  <2>6. SentTo(m, d) = Stream(m - 1) \o SubSeq(Message(m), 1, d)
    BY <1>3 DEF SentTo
  <2>7. d = 0 => SubSeq(Message(m), 1, d) = <<>>
    BY <2>5, ByteStreams
  <2> QED
    BY <1>2, <2>5, <2>6, <2>7, ByteStreams
<1>4. CASE ~(m <= Len(lens))
  <2>1. SentTo(m, d) = Stream(m - 1) \o <<>>
    BY <1>4 DEF SentTo
  <2> QED
    BY <1>2, <1>4, <2>1, ByteStreams
<1> QED
  BY <1>3, <1>4

\* Bytes put at the end of pipe1 are at the end of the bytes on their way.
LEMMA PutAtEnd ==
    ASSUME PipeTypes, NEW x \in Seq(Bytes), pipe1' = pipe1 \o x, UNCHANGED <<given, copier, receiver, pipe2>>
    PROVE  InTransit' = InTransit \o x /\ pipe1' \in Seq(Bytes)
<1>1. PICK g : g = (Held \o pipe2) \o Pending
  OBVIOUS
<1>2. pipe1 \in Seq(Bytes) /\ pipe2 \in Seq(Bytes) /\ Pending \in Seq(Bytes) /\ Held \in Seq(Bytes)
  BY RestIs DEF PipeTypes
<1>3. g \in Seq(Bytes)
  <2>1. Held \o pipe2 \in Seq(Bytes)
    BY <1>2, ByteStreams
  <2> QED
    BY <1>1, <1>2, <2>1, ByteStreams
<1>4. InTransit = g \o pipe1
  BY <1>1, RestIs
<1>5. (Held \o pipe2) \o Pending = g /\ Held' = Held /\ Pending' = Pending /\ pipe2' = pipe2
  BY <1>1 DEF Held, Pending, copier, receiver, Flat
<1>6. InTransit' = ((Held' \o pipe2') \o Pending') \o pipe1'
  BY DEF InTransit, Held, Pending
<1>7. InTransit' = g \o (pipe1 \o x)
  BY <1>5, <1>6
<1>8. (g \o pipe1) \o x = g \o (pipe1 \o x)
  <2>1. g \in Seq(Bytes) /\ pipe1 \in Seq(Bytes) /\ x \in Seq(Bytes)
    BY <1>2, <1>3
  <2> QED
    BY ONLY <2>1, StreamsAssociate
<1> QED
  BY <1>2, <1>4, <1>7, <1>8, ByteStreams

\* What write returns is -1 or a number of bytes there are and there is room for.
LEMMA WriteReturns ==
    ASSUME NEW size \in Int, NEW into, Len(into) \in Nat, NEW n \in Counts(size, into)
    PROVE  n \in Int /\ (n = -1 \/ (n >= 1 /\ n <= size))
BY RestartAssumption DEF Counts, Least

LEMMA SendKept == ASSUME PipeIInv, Send PROVE PipeIInv'
<1>0. PipeTypes /\ SenderKept
  BY DEF PipeIInv
<1>1. /\ spc = "run" /\ smsg <= Len(lens) /\ ~Refused(smsg)
      /\ UNCHANGED given /\ UNCHANGED copier /\ UNCHANGED receiver /\ pipe2' = pipe2 /\ spc' = spc
  BY DEF Send
<1>2. PICK n \in Counts(ChunkEnd - sdone, pipe1) :
          /\ pipe1' = pipe1 \o SubSeq(Message(smsg), sdone + 1, sdone + n)
          /\ IF Written(sdone, n) = Size(smsg)
             THEN smsg' = smsg + 1 /\ sdone' = 0
             ELSE smsg' = smsg /\ sdone' = Written(sdone, n)
  BY DEF Send
<1>3. /\ Len(lens) \in Nat /\ smsg \in 1..Len(lens) /\ sdone \in Nat /\ sdone < Size(smsg) /\ Len(pipe1) \in Nat
      /\ pipe1 \in Seq(Bytes)
  BY <1>0, <1>1, LenProperties DEF PipeTypes, SenderKept
<1>4. PICK m, size, len : m = Message(smsg) /\ size = Size(smsg) /\ len = lens[smsg]
  OBVIOUS
<1>5. /\ m \in Seq(Bytes) /\ Len(m) = size
      /\ size \in Nat /\ sdone < size /\ len \in Nat /\ size = IF format = "packets" THEN len + HeaderLen ELSE len + 1
  <2>1. /\ lens[smsg] \in Nat /\ Size(smsg) \in Nat \ {0} /\ Message(smsg) \in Seq(Bytes) /\ Len(Message(smsg)) = Size(smsg)
        /\ Size(smsg) = IF format = "packets" THEN lens[smsg] + HeaderLen ELSE lens[smsg] + 1
    BY <1>0, <1>3, MessageType
  <2> QED
    BY <1>3, <1>4, <2>1
<1>6. ChunkEnd \in Nat /\ ChunkEnd <= size
  <2>1. size \in Nat /\ len \in Nat /\ HeaderLen \in Nat /\ (format = "packets" => HeaderLen <= size)
    BY <1>5, RestartAssumption
  <2> QED
    BY <1>4, <2>1 DEF ChunkEnd
<1>7. n \in Int /\ (n = -1 \/ (n >= 1 /\ n <= ChunkEnd - sdone))
  <2>1. ChunkEnd - sdone \in Int
    BY <1>3, <1>6
  <2> QED
    BY <1>3, <2>1, WriteReturns
<1>8. PICK d, x : d = Written(sdone, n) /\ x = SubSeq(m, sdone + 1, d)
  OBVIOUS
<1>9. d \in Nat /\ sdone <= d /\ d <= size /\ (d = IF n = -1 THEN sdone ELSE sdone + n)
  <2>1. sdone \in Nat /\ size \in Nat /\ sdone < size /\ ChunkEnd \in Nat /\ ChunkEnd <= size
    BY <1>3, <1>5, <1>6
  <2>2. d = IF n = -1 THEN sdone ELSE sdone + n
    BY <1>8 DEF Written
  <2> QED
    BY <1>7, <2>1, <2>2
<1>10. /\ x \in Seq(Bytes) /\ Len(x) = d - sdone
       /\ SubSeq(m, 0 + 1, sdone) \o x = SubSeq(m, 0 + 1, d)
       /\ SubSeq(m, 0 + 1, sdone) \in Seq(Bytes) /\ SubSeq(m, 0 + 1, d) \in Seq(Bytes)
  <2>1. /\ 0 \in Nat /\ sdone \in Nat /\ d \in Nat /\ 0 <= sdone /\ 0 <= d /\ sdone <= d
        /\ sdone <= size /\ d <= size
    <3>1. sdone \in Nat /\ size \in Nat /\ sdone < size
      BY <1>3, <1>5
    <3> QED
      BY <1>9, <3>1
  <2>5. sdone <= Len(m) /\ d <= Len(m) /\ m \in Seq(Bytes)
    BY <1>5, <2>1
  <2>2. x \in Seq(Bytes) /\ Len(x) = d - sdone
    <3>1. SubSeq(m, sdone + 1, d) \in Seq(Bytes) /\ Len(SubSeq(m, sdone + 1, d)) = d - sdone
      <4>1. d <= d
        BY <2>1
      <4> QED
        BY <2>1, <2>5, <4>1, Pieces
    <3> QED
      BY <1>8, <3>1
  <2>3. SubSeq(m, 0 + 1, sdone) \o x = SubSeq(m, 0 + 1, d) /\ SubSeq(m, 0 + 1, sdone) \in Seq(Bytes)
    <3>1. /\ SubSeq(m, 0 + 1, sdone) \o SubSeq(m, sdone + 1, d) = SubSeq(m, 0 + 1, d)
          /\ SubSeq(m, 0 + 1, sdone) \in Seq(Bytes)
      BY <2>1, <2>5, Pieces
    <3> QED
      BY <1>8, <3>1
  <2>4. SubSeq(m, 0 + 1, d) \in Seq(Bytes)
    BY <2>1, <2>5, Pieces
  <2> QED
    BY <2>2, <2>3, <2>4
<1>11. pipe1' = pipe1 \o x
  <2>1. SubSeq(m, sdone + 1, sdone + n) = x
    <3>1. CASE n = -1
      <4>1. SubSeq(m, sdone + 1, sdone + n) = <<>>
        <5>1. sdone + 1 \in Int /\ sdone + n \in Int /\ sdone + n < sdone + 1 /\ \A i \in sdone + 1..sdone + n : m[i] \in Bytes
          BY <1>3, <3>1
        <5>2. SubSeq(m, sdone + 1, sdone + n) \in Seq(Bytes) /\ Len(SubSeq(m, sdone + 1, sdone + n)) = 0
          BY <5>1, SubSeqProperties
        <5> QED
          BY <5>2, ByteStreams
      <4>2. x = <<>>
        <5>1. Len(x) = 0
          BY <1>3, <1>9, <1>10, <3>1
        <5> QED
          BY <1>10, <5>1, ByteStreams
      <4> QED
        BY <4>1, <4>2
    <3>2. CASE n # -1
      BY <1>8, <1>9, <3>2
    <3> QED
      BY <3>1, <3>2
  <2> QED
    BY <1>2, <1>4, <2>1
<1>12. InTransit' = InTransit \o x /\ pipe1' \in Seq(Bytes)
  BY <1>0, <1>1, <1>10, <1>11, PutAtEnd
<1>13. SentTo(smsg, sdone) \o x = SentTo(smsg, d)
  <2>1. Stream(smsg - 1) \in Seq(Bytes)
    BY <1>0, <1>3, StreamGrows
  <2>2. SentTo(smsg, sdone) = Stream(smsg - 1) \o SubSeq(m, 1, sdone) /\ SentTo(smsg, d) = Stream(smsg - 1) \o SubSeq(m, 1, d)
    <3>1. smsg <= Len(lens)
      BY <1>1
    <3> QED
      BY <1>4, <3>1 DEF SentTo
  <2>3. (Stream(smsg - 1) \o SubSeq(m, 1, sdone)) \o x = Stream(smsg - 1) \o (SubSeq(m, 1, sdone) \o x)
    <3>1. Stream(smsg - 1) \in Seq(Bytes) /\ SubSeq(m, 1, sdone) \in Seq(Bytes) /\ x \in Seq(Bytes)
      BY <1>10, <2>1
    <3> QED
      BY ONLY <3>1, StreamsAssociate
  <2>4. SubSeq(m, 1, sdone) \o x = SubSeq(m, 1, d)
    <3>1. 0 + 1 = 1
      OBVIOUS
    <3> QED
      BY ONLY <1>10, <3>1
  <2> QED
    BY ONLY <2>2, <2>3, <2>4
<1>14. SentTo(smsg', sdone') = SentTo(smsg, d) /\ smsg' \in 1..(Len(lens) + 1) /\ sdone' \in Nat /\ smsg <= smsg'
       /\ (smsg' <= Len(lens) => sdone' < Size(smsg'))
       /\ (smsg' = smsg \/ (smsg' = smsg + 1 /\ sdone' = 0))
  <2>1. CASE d = size
    <3>1. smsg' = smsg + 1 /\ sdone' = 0
      BY <1>2, <1>4, <1>8, <2>1
    <3>2. smsg \in Nat /\ smsg - 1 \in Nat /\ smsg - 1 <= Len(lens) /\ (smsg - 1) + 1 = smsg /\ (smsg + 1) - 1 = smsg
          /\ smsg + 1 \in 1..(Len(lens) + 1) /\ smsg <= Len(lens)
      BY <1>3
    <3>3. Stream((smsg - 1) + 1) = Stream(smsg - 1) \o Message((smsg - 1) + 1)
      BY <1>0, <3>2, StreamGrows
    <3>4. SubSeq(m, 1, d) = m
      <4>1. Len(m) = d
        BY <1>5, <2>1
      <4> QED
        BY <1>5, <4>1, SubSeqFull
    <3>5. SentTo(smsg, d) = Stream(smsg - 1) \o SubSeq(m, 1, d)
      BY <1>1, <1>4 DEF SentTo
    <3>6. Stream((smsg + 1) - 1) = SentTo(smsg, d)
      BY <1>4, <3>2, <3>3, <3>4, <3>5
    <3>7. \A k \in 1..Len(lens) : 0 < Size(k)
      BY <1>0, MessageType
    <3>8. SentTo(smsg + 1, 0) = Stream((smsg + 1) - 1)
      <4>1. ASSUME smsg + 1 <= Len(lens) PROVE 0 <= Size(smsg + 1)
        <5>1. smsg + 1 \in 1..Len(lens)
          BY <1>3, <4>1
        <5>2. Size(smsg + 1) \in Nat \ {0}
          BY <1>0, <5>1, MessageType
        <5> QED
          BY <5>2
      <4>2. 0 \in Nat
        OBVIOUS
      <4> QED
        BY <1>0, <3>2, <4>1, <4>2, SentType
    <3> QED
      BY <1>3, <3>1, <3>2, <3>6, <3>7, <3>8
  <2>2. CASE d # size
    <3>1. smsg' = smsg /\ sdone' = d
      BY <1>2, <1>4, <1>8, <2>2
    <3>2. sdone \in Nat /\ size \in Nat /\ d \in Nat /\ d < size
      BY <1>3, <1>5, <1>9, <2>2
    <3>3. smsg \in 1..(Len(lens) + 1) /\ smsg <= smsg
      BY <1>3
    <3> QED
      BY <1>4, <3>1, <3>2, <3>3
  <2> QED
    BY <2>1, <2>2
<1>20. PipeTypes'
  BY <1>1, <1>12, <1>14 DEF PipeIInv, PipeTypes, given, copier, receiver
<1>21. SenderKept'
  <2>0. PICK k1, d1 : k1 = smsg' /\ d1 = sdone'
    OBVIOUS
  <2>1. lens' = lens /\ \A k : Size(k)' = Size(k) /\ (Refused(k)' <=> Refused(k))
    BY <1>1, GivenSame
  <2>2. k1 <= Len(lens) => d1 < Size(k1)
    BY <1>14, <2>0
  <2>3. k1 > Len(lens) \/ Refused(k1) => d1 = 0
    BY <1>1, <1>3, <1>14, <2>0
  <2>4. \A k \in 1..Len(lens) : k < k1 => ~Refused(k)
    <3> SUFFICES ASSUME NEW k \in 1..Len(lens), k < k1 PROVE ~Refused(k)
      OBVIOUS
    <3>1. k < smsg \/ k = smsg
      BY <1>3, <1>14, <2>0
    <3>2. SenderKept
      BY DEF PipeIInv
    <3> QED
      BY <1>1, <3>1, <3>2 DEF SenderKept
  <2> QED
    BY <2>0, <2>1, <2>2, <2>3, <2>4 DEF SenderKept, Size, Refused
<1>22. CopierKept'
  BY <1>1 DEF PipeIInv, CopierKept, copier
<1>23. ReceiverKept'
  <2>1. ReceiverKept /\ Numbers \in Nat
    BY LenProperties DEF PipeIInv, PipeTypes, Numbers
  <2>2. Numbers' = Numbers /\ received' = received /\ rhead' = rhead /\ rgot' = rgot /\ rpc' = rpc /\ lens' = lens /\ format' = format
    BY <1>1 DEF Numbers, receiver, given
  <2>3. Numbers <= smsg' - 1
    <3>1. smsg \in Nat /\ smsg' \in Nat /\ smsg <= smsg'
      BY <1>3, <1>14
    <3>2. Numbers <= smsg - 1
      BY <2>1 DEF ReceiverKept
    <3>3. PICK a, b, c : a = Numbers /\ b = smsg /\ c = smsg'
      OBVIOUS
    <3>4. a \in Nat /\ b \in Nat /\ c \in Nat /\ b <= c /\ a <= b - 1
      BY <2>1, <3>1, <3>2, <3>3
    <3>5. a <= c - 1
      BY ONLY <3>4
    <3> QED
      BY <3>3, <3>5
  <2> QED
    BY <2>1, <2>2, <2>3 DEF ReceiverKept, Upto, Message, Size
<1>24. StreamKept'
  <2>1. SentTo(smsg', sdone') = InTransit'
    BY <1>12, <1>13, <1>14 DEF PipeIInv, StreamKept
  <2>2. lens' = lens /\ format' = format
    BY <1>1 DEF given
  <2> QED
    BY <2>1, <2>2 DEF StreamKept, SentTo, Stream, Upto, Message, Size
<1>25. EndsKept'
  <2>1. /\ Numbers' = Numbers /\ rhead' = rhead /\ rgot' = rgot /\ rpc' = rpc /\ cpc' = cpc /\ iofaults' = iofaults
        /\ lens' = lens /\ format' = format /\ Deliverable' = Deliverable
    BY <1>1, GivenSame DEF Numbers, receiver, copier
  <2>2. EndsKept
    BY DEF PipeIInv
  <2> QED
    BY <1>1, <2>1, <2>2 DEF EndsKept
<1>26. CopyCounts'
  BY <1>1 DEF PipeIInv, CopyCounts, copier, receiver, Flat
<1> QED
  BY <1>20, <1>21, <1>22, <1>23, <1>24, <1>25, <1>26 DEF PipeIInv

LEMMA SendEndsKept == ASSUME PipeIInv, SendEnds PROVE PipeIInv'
<1>1. /\ spc = "run" /\ spc' = "end"
      /\ UNCHANGED <<given, smsg, sdone, pipe1, pipe2, copier, receiver>>
      /\ smsg > Len(lens) \/ (smsg <= Len(lens) /\ Refused(smsg)) \/ "write" \in iofaults \/ cpc = "end"
  BY DEF SendEnds
<1>2. UNCHANGED given
  BY <1>1
<1>20. PipeTypes'
  BY <1>1 DEF PipeIInv, PipeTypes, given, copier, receiver
<1>21. SenderKept'
  BY <1>1 DEF PipeIInv, SenderKept, Size, Refused, given
<1>22. CopierKept'
  BY <1>1 DEF PipeIInv, CopierKept, copier
<1>23. ReceiverKept'
  BY <1>1 DEF PipeIInv, ReceiverKept, Upto, Message, Size, Numbers, given, receiver
<1>24. StreamKept'
  BY <1>1 DEF PipeIInv, StreamKept, InTransit, Flat, SentTo, Stream, Upto, Message, Size, given, copier, receiver
<1>25. EndsKept'
  <2>1. /\ Numbers' = Numbers /\ rhead' = rhead /\ rgot' = rgot /\ rpc' = rpc /\ cpc' = cpc /\ cbuf' = cbuf
        /\ cdone' = cdone /\ iofaults' = iofaults
        /\ lens' = lens /\ format' = format /\ Deliverable' = Deliverable /\ (Refused(smsg)' <=> Refused(smsg))
    BY <1>1, GivenSame DEF Numbers, receiver, copier, Refused
  <2>2. EndsKept /\ SenderKept
    BY DEF PipeIInv
  <2> QED
    BY <1>1, <2>1, <2>2 DEF EndsKept, SenderKept
<1>26. CopyCounts'
  BY <1>1 DEF PipeIInv, CopyCounts, copier, receiver, Flat
<1> QED
  BY <1>20, <1>21, <1>22, <1>23, <1>24, <1>25, <1>26 DEF PipeIInv

\* What is copied and the rest of pipe1.
LEMMA CopyReadKept == ASSUME PipeIInv, CopyRead PROVE PipeIInv'
<1>1. /\ cpc = "read" /\ cpc' = "write" /\ cdone' = 0
      /\ UNCHANGED <<given, sender, pipe2, ctotal, receiver>>
  BY DEF CopyRead
<1>2. PICK n \in 1..Least(BlkSize, Len(pipe1)) :
          cbuf' = SubSeq(pipe1, 1, n) /\ pipe1' = SubSeq(pipe1, n + 1, Len(pipe1))
  BY DEF CopyRead
<1>3. pipe1 \in Seq(Bytes) /\ Len(pipe1) \in Nat /\ n \in Nat /\ 1 <= n /\ n <= Len(pipe1) /\ cdone = Len(cbuf) /\ cbuf \in Seq(Bytes)
      /\ Len(cbuf) \in Nat
  BY <1>1, LenProperties, RestartAssumption DEF PipeIInv, PipeTypes, Least, CopierKept
<1>4. /\ SubSeq(pipe1, 0 + 1, n) \in Seq(Bytes) /\ Len(SubSeq(pipe1, 0 + 1, n)) = n - 0
      /\ SubSeq(pipe1, 0 + 1, n) \o SubSeq(pipe1, n + 1, Len(pipe1)) = SubSeq(pipe1, 0 + 1, Len(pipe1))
  <2>1. 0 \in Nat /\ 0 <= n /\ Len(pipe1) <= Len(pipe1)
    BY <1>3
  <2> QED
    BY <1>3, <2>1, Pieces
<1>5. pipe1' \in Seq(Bytes)
  <2>1. SubSeq(pipe1, n + 1, Len(pipe1)) \in Seq(Bytes)
    BY <1>3, Pieces
  <2> QED
    BY <1>2, <2>1
<1>6. cbuf' \in Seq(Bytes) /\ Len(cbuf') = n /\ cbuf' \o pipe1' = pipe1
  <2>1. 0 + 1 = 1 /\ n - 0 = n /\ SubSeq(pipe1, 1, Len(pipe1)) = pipe1
    BY <1>3, SubSeqFull
  <2> QED
    BY <1>2, <1>4, <2>1
<1>7. InTransit' = InTransit
  <2>1. PICK g : g = Held \o pipe2
    OBVIOUS
  <2>2. g \in Seq(Bytes) /\ Pending \in Seq(Bytes) /\ InTransit = (g \o Pending) \o pipe1
    <3>1. Held \in Seq(Bytes) /\ pipe2 \in Seq(Bytes) /\ Pending \in Seq(Bytes) /\ InTransit = ((Held \o pipe2) \o Pending) \o pipe1
      BY RestIs DEF PipeIInv, PipeTypes
    <3> QED
      BY <2>1, <3>1, ByteStreams
  <2>3. Pending = <<>>
    <3>1. Len(Pending) = 0
      BY <1>3, RestIs DEF PipeIInv
    <3> QED
      BY <2>2, <3>1, ByteStreams
  <2>4. InTransit = g \o pipe1
    BY <2>2, <2>3, ByteStreams
  <2>5. Held' = Held /\ pipe2' = pipe2
    BY <1>1 DEF Held, Flat, receiver
  <2>6. Pending' = cbuf'
    <3>1. Pending' = SubSeq(cbuf', cdone' + 1, Len(cbuf'))
      BY DEF Pending
    <3>2. SubSeq(cbuf', 1, Len(cbuf')) = cbuf'
      BY <1>6, SubSeqFull
    <3>3. cdone' + 1 = 1
      BY <1>1
    <3> QED
      BY <3>1, <3>2, <3>3
  <2>7. InTransit' = ((Held' \o pipe2') \o Pending') \o pipe1'
    BY DEF InTransit, Held, Pending
  <2>8. InTransit' = (g \o cbuf') \o pipe1'
    BY <2>1, <2>5, <2>6, <2>7
  <2>9. (g \o cbuf') \o pipe1' = g \o (cbuf' \o pipe1')
    <3>1. PICK a, b : a = cbuf' /\ b = pipe1'
      OBVIOUS
    <3>2. g \in Seq(Bytes) /\ a \in Seq(Bytes) /\ b \in Seq(Bytes)
      BY <1>5, <1>6, <2>2, <3>1
    <3>3. (g \o a) \o b = g \o (a \o b)
      BY ONLY <3>2, StreamsAssociate
    <3> QED
      BY <3>1, <3>3
  <2> QED
    BY <1>6, <2>4, <2>8, <2>9
<1>20. PipeTypes'
  BY <1>1, <1>3, <1>5, <1>6 DEF PipeIInv, PipeTypes, given, sender, receiver
<1>21. SenderKept'
  BY <1>1 DEF PipeIInv, SenderKept, Size, Refused, given, sender
<1>22. CopierKept'
  BY <1>1, <1>3, <1>6 DEF CopierKept
<1>23. ReceiverKept'
  BY <1>1 DEF PipeIInv, ReceiverKept, Upto, Message, Size, Numbers, given, receiver, sender
<1>24. StreamKept'
  BY <1>1, <1>7 DEF PipeIInv, StreamKept, SentTo, Stream, Upto, Message, Size, given, sender
<1>25. EndsKept'
  <2>0. UNCHANGED given
    BY <1>1
  <2>1. /\ Numbers' = Numbers /\ rhead' = rhead /\ rgot' = rgot /\ rpc' = rpc
        /\ smsg' = smsg /\ sdone' = sdone /\ spc' = spc /\ iofaults' = iofaults
        /\ lens' = lens /\ format' = format /\ Deliverable' = Deliverable /\ (Refused(smsg)' <=> Refused(smsg))
    BY <1>1, <2>0, GivenSame DEF Numbers, receiver, sender, Refused
  <2>2. EndsKept
    BY DEF PipeIInv
  <2> QED
    BY <1>1, <2>1, <2>2 DEF EndsKept
<1>26. CopyCounts'
  BY <1>1, <1>3 DEF PipeIInv, CopyCounts, receiver, Flat
<1> QED
  BY <1>20, <1>21, <1>22, <1>23, <1>24, <1>25, <1>26 DEF PipeIInv

LEMMA CopyWriteKept == ASSUME PipeIInv, CopyWrite PROVE PipeIInv'
<1>1. /\ cpc = "write" /\ UNCHANGED <<given, sender, pipe1, cbuf, receiver>>
      /\ IF cdone' = Len(cbuf) THEN cpc' = "read" /\ ctotal' = ctotal + Len(cbuf) ELSE cpc' = cpc /\ ctotal' = ctotal
  BY DEF CopyWrite
<1>2. PICK n \in Counts(Len(cbuf) - cdone, pipe2) :
          pipe2' = pipe2 \o SubSeq(cbuf, cdone + 1, cdone + n) /\ cdone' = Written(cdone, n)
  BY DEF CopyWrite
<1>3. /\ cbuf \in Seq(Bytes) /\ Len(cbuf) \in Nat /\ cdone \in Nat /\ cdone < Len(cbuf) /\ pipe2 \in Seq(Bytes) /\ Len(pipe2) \in Nat
      /\ ctotal \in Int
  BY <1>1, LenProperties DEF PipeIInv, PipeTypes, CopierKept
<1>4. n \in Int /\ (n = -1 \/ (n >= 1 /\ n <= Len(cbuf) - cdone))
  <2>1. Len(cbuf) - cdone \in Int
    BY <1>3
  <2> QED
    BY <1>3, <2>1, WriteReturns
<1>5. PICK d, x : d = cdone' /\ x = SubSeq(cbuf, cdone + 1, d)
  OBVIOUS
<1>6. d \in Nat /\ cdone <= d /\ d <= Len(cbuf) /\ (d = IF n = -1 THEN cdone ELSE cdone + n)
  BY <1>2, <1>3, <1>4, <1>5 DEF Written
<1>7. x \in Seq(Bytes) /\ Len(x) = d - cdone /\ Pending = x \o SubSeq(cbuf, d + 1, Len(cbuf))
      /\ SubSeq(cbuf, d + 1, Len(cbuf)) \in Seq(Bytes)
  <2>1. Len(cbuf) <= Len(cbuf)
    BY <1>3
  <2>4. cdone \in Nat /\ d \in Nat /\ Len(cbuf) \in Nat /\ cdone <= d /\ d <= Len(cbuf) /\ d <= d
    BY <1>3, <1>6
  <2>2. x \in Seq(Bytes) /\ Len(x) = d - cdone /\ x \o SubSeq(cbuf, d + 1, Len(cbuf)) = SubSeq(cbuf, cdone + 1, Len(cbuf))
    <3>1. /\ SubSeq(cbuf, cdone + 1, d) \in Seq(Bytes) /\ Len(SubSeq(cbuf, cdone + 1, d)) = d - cdone
          /\ SubSeq(cbuf, cdone + 1, d) \o SubSeq(cbuf, d + 1, Len(cbuf)) = SubSeq(cbuf, cdone + 1, Len(cbuf))
      <4>1. PICK s, b, e : s = cbuf /\ b = cdone /\ e = Len(cbuf)
        OBVIOUS
      <4>2. s \in Seq(Bytes) /\ b \in Nat /\ d \in Nat /\ e \in Nat /\ b <= d /\ d <= e /\ e <= Len(s) /\ d <= Len(s)
        BY <1>3, <2>1, <2>4, <4>1
      <4>3. SubSeq(s, b + 1, d) \in Seq(Bytes) /\ Len(SubSeq(s, b + 1, d)) = d - b
            /\ SubSeq(s, b + 1, d) \o SubSeq(s, d + 1, e) = SubSeq(s, b + 1, e)
        BY ONLY <4>2, Pieces
      <4> QED
        BY <4>1, <4>3
    <3> QED
      BY <1>5, <3>1
  <2>3. SubSeq(cbuf, d + 1, Len(cbuf)) \in Seq(Bytes)
    BY <1>3, <1>6, <2>1, Pieces
  <2> QED
    BY <2>2, <2>3 DEF Pending
<1>8. pipe2' = pipe2 \o x
  <2>1. CASE n = -1
    <3>1. SubSeq(cbuf, cdone + 1, cdone + n) = <<>>
      <4>1. cdone + 1 \in Int /\ cdone + n \in Int /\ cdone + n < cdone + 1 /\ \A i \in cdone + 1..cdone + n : cbuf[i] \in Bytes
        BY <1>3, <2>1
      <4>2. SubSeq(cbuf, cdone + 1, cdone + n) \in Seq(Bytes) /\ Len(SubSeq(cbuf, cdone + 1, cdone + n)) = 0
        BY <4>1, SubSeqProperties
      <4> QED
        BY <4>2, ByteStreams
    <3>2. x = <<>>
      <4>1. Len(x) = 0
        BY <1>3, <1>6, <1>7, <2>1
      <4> QED
        BY <1>7, <4>1, ByteStreams
    <3> QED
      BY <1>2, <3>1, <3>2
  <2>2. CASE n # -1
    BY <1>2, <1>5, <1>6, <2>2
  <2> QED
    BY <2>1, <2>2
<1>9. PICK p : p = SubSeq(cbuf, d + 1, Len(cbuf))
  OBVIOUS
<1>10. p \in Seq(Bytes) /\ Pending = x \o p /\ Pending' = p
  BY <1>1, <1>5, <1>7, <1>9 DEF Pending
<1>11. Held' = Held /\ Held \in Seq(Bytes)
  BY <1>1, RestIs DEF PipeIInv, Held, Flat, receiver
<1>12. InTransit' = InTransit
  <2>1. InTransit = ((Held \o pipe2) \o (x \o p)) \o pipe1
    BY <1>10, RestIs DEF PipeIInv
  <2>2. InTransit' = ((Held' \o pipe2') \o Pending') \o pipe1'
    BY DEF InTransit, Held, Pending
  <2>3. InTransit' = ((Held \o (pipe2 \o x)) \o p) \o pipe1
    BY <1>1, <1>8, <1>10, <1>11, <2>2
  <2>4. (Held \o pipe2) \o x = Held \o (pipe2 \o x)
    <3>1. Held \in Seq(Bytes) /\ pipe2 \in Seq(Bytes) /\ x \in Seq(Bytes)
      BY <1>3, <1>7, <1>11
    <3> QED
      BY ONLY <3>1, StreamsAssociate
  <2>5. PICK g : g = Held \o pipe2
    OBVIOUS
  <2>6. (g \o x) \o p = g \o (x \o p)
    <3>1. g \in Seq(Bytes) /\ x \in Seq(Bytes) /\ p \in Seq(Bytes)
      BY <1>3, <1>7, <1>10, <1>11, <2>5, ByteStreams
    <3> QED
      BY ONLY <3>1, StreamsAssociate
  <2> QED
    BY <2>1, <2>3, <2>4, <2>5, <2>6
<1>13. pipe2' \in Seq(Bytes)
  BY <1>3, <1>7, <1>8, ByteStreams
<1>14. cdone' \in 0..Len(cbuf') /\ ctotal' \in Int /\ cpc' \in {"read", "write", "end"}
  <2>1. d \in 0..Len(cbuf) /\ ctotal + Len(cbuf) \in Int
    BY <1>3, <1>6
  <2>2. cbuf' = cbuf
    BY <1>1
  <2> QED
    BY <1>1, <1>3, <1>5, <2>1, <2>2
<1>20. PipeTypes'
  BY <1>1, <1>3, <1>13, <1>14 DEF PipeIInv, PipeTypes, given, sender, receiver
<1>21. SenderKept'
  BY <1>1 DEF PipeIInv, SenderKept, Size, Refused, given, sender
<1>22. CopierKept'
  BY <1>1, <1>3, <1>5, <1>6 DEF CopierKept
<1>23. ReceiverKept'
  BY <1>1 DEF PipeIInv, ReceiverKept, Upto, Message, Size, Numbers, given, receiver, sender
<1>24. StreamKept'
  BY <1>1, <1>12 DEF PipeIInv, StreamKept, SentTo, Stream, Upto, Message, Size, given, sender
<1>25. EndsKept'
  <2>0. UNCHANGED given
    BY <1>1
  <2>1. /\ Numbers' = Numbers /\ rhead' = rhead /\ rgot' = rgot /\ rpc' = rpc /\ pipe1' = pipe1 /\ cbuf' = cbuf
        /\ smsg' = smsg /\ sdone' = sdone /\ spc' = spc /\ iofaults' = iofaults
        /\ lens' = lens /\ format' = format /\ Deliverable' = Deliverable /\ (Refused(smsg)' <=> Refused(smsg))
    BY <1>1, <2>0, GivenSame DEF Numbers, receiver, sender, Refused
  <2>2. EndsKept /\ cpc' # "end"
    BY <1>1 DEF PipeIInv
  <2> QED
    BY <2>1, <2>2 DEF EndsKept
<1>26. CopyCounts'
  <2>1. PICK h : h = Held \o pipe2
    OBVIOUS
  <2>2. h \in Seq(Bytes) /\ Len(h) \in Nat /\ Held' \o pipe2' = h \o x /\ Len(h \o x) = Len(h) + Len(x)
    <3>1. Held \in Seq(Bytes) /\ pipe2 \in Seq(Bytes) /\ x \in Seq(Bytes)
      BY <1>3, <1>7, <1>11
    <3>2. (Held \o pipe2) \o x = Held \o (pipe2 \o x)
      BY ONLY <3>1, StreamsAssociate
    <3>3. h \in Seq(Bytes)
      BY <2>1, <3>1, ByteStreams
    <3> QED
      BY <1>8, <1>11, <2>1, <3>1, <3>2, <3>3, ByteStreams
  <2>3. ctotal = Len(h) - cdone
    <3>1. CopyCounts /\ cpc # "read" /\ cdone # Len(cbuf)
      BY <1>1, <1>3 DEF PipeIInv
    <3>2. ctotal = Len(h) - (IF cpc = "read" \/ cdone = Len(cbuf) THEN 0 ELSE cdone)
      BY <2>1, <3>1 DEF CopyCounts, Held
    <3> QED
      BY <3>1, <3>2
  <2>4. ctotal' = Len(h \o x) - (IF cpc' = "read" \/ cdone' = Len(cbuf') THEN 0 ELSE cdone')
    <3>1. cbuf' = cbuf /\ cdone' = d /\ (IF d = Len(cbuf) THEN cpc' = "read" /\ ctotal' = ctotal + Len(cbuf)
                                         ELSE cpc' = "write" /\ ctotal' = ctotal)
      BY <1>1, <1>5
    <3>2. PICK a, c, e, l, t : a = Len(h) /\ c = cdone /\ e = Len(cbuf) /\ l = Len(h \o x) /\ t = ctotal
      OBVIOUS
    <3>3. a \in Nat /\ c \in Nat /\ d \in Nat /\ e \in Nat /\ t = a - c /\ l = a + (d - c)
      BY <1>3, <1>6, <1>7, <2>2, <2>3, <3>2
    <3>4. CASE d = e
      <4>1. t + e = l - 0
        BY ONLY <3>3, <3>4
      <4> QED
        BY <3>1, <3>2, <3>4, <4>1
    <3>5. CASE d # e
      <4>1. t = l - d
        BY ONLY <3>3
      <4> QED
        BY <3>1, <3>2, <3>5, <4>1
    <3> QED
      BY <3>4, <3>5
  <2>5. Len(Held' \o pipe2') = Len(h \o x)
    BY <2>2
  <2> QED
    BY <2>4, <2>5 DEF CopyCounts, Held
<1> QED
  BY <1>20, <1>21, <1>22, <1>23, <1>24, <1>25, <1>26 DEF PipeIInv

LEMMA CopyEndsKept == ASSUME PipeIInv, CopyEnds PROVE PipeIInv'
<1>1. /\ cpc' = "end" /\ UNCHANGED <<given, sender, pipe1, pipe2, cbuf, cdone, ctotal, receiver>>
      /\ \/ cpc = "read" /\ pipe1 = <<>> /\ spc = "end"
         \/ cpc = "read" /\ "read" \in iofaults
         \/ cpc = "write" /\ ("write" \in iofaults \/ rpc # "run")
  BY DEF CopyEnds
<1>20. PipeTypes'
  BY <1>1 DEF PipeIInv, PipeTypes, given, sender, receiver
<1>21. SenderKept'
  BY <1>1 DEF PipeIInv, SenderKept, Size, Refused, given, sender
<1>22. CopierKept'
  BY <1>1 DEF CopierKept
<1>23. ReceiverKept'
  BY <1>1 DEF PipeIInv, ReceiverKept, Upto, Message, Size, Numbers, given, receiver, sender
<1>24. StreamKept'
  BY <1>1 DEF PipeIInv, StreamKept, InTransit, Flat, SentTo, Stream, Upto, Message, Size, given, sender, receiver
<1>25. EndsKept'
  <2>0. UNCHANGED given
    BY <1>1
  <2>1. /\ Numbers' = Numbers /\ rhead' = rhead /\ rgot' = rgot /\ rpc' = rpc /\ pipe1' = pipe1 /\ cbuf' = cbuf /\ cdone' = cdone
        /\ smsg' = smsg /\ sdone' = sdone /\ spc' = spc /\ iofaults' = iofaults
        /\ lens' = lens /\ format' = format /\ Deliverable' = Deliverable /\ (Refused(smsg)' <=> Refused(smsg))
    BY <1>1, <2>0, GivenSame DEF Numbers, receiver, sender, Refused
  <2>2. EndsKept /\ CopierKept
    BY DEF PipeIInv
  <2> QED
    BY <1>1, <2>1, <2>2 DEF EndsKept, CopierKept
<1>26. CopyCounts'
  <2>1. CopyCounts /\ CopierKept
    BY DEF PipeIInv
  <2> QED
    BY <1>1, <2>1 DEF CopyCounts, CopierKept, receiver, Flat
<1> QED
  BY <1>20, <1>21, <1>22, <1>23, <1>24, <1>25, <1>26 DEF PipeIInv

\* What is not yet returned can get through.
LEMMA NotRefused ==
    ASSUME PipeIInv, Rest # <<>>
    PROVE  ~Refused(Numbers + 1)
<1>1. /\ PipeTypes /\ SenderKept /\ Numbers <= smsg - 1 /\ received = Upto(Numbers) /\ StreamKept
  BY DEF PipeIInv, ReceiverKept
<1>2. Numbers \in Nat /\ Numbers + 1 \in 1..Len(lens) /\ smsg \in 1..(Len(lens) + 1) /\ Len(lens) \in Nat /\ sdone \in Nat
  BY <1>1, RestBytes, LenProperties DEF PipeTypes
<1>3. CASE Numbers < smsg - 1
  BY <1>1, <1>2, <1>3 DEF SenderKept
<1>4. CASE Numbers = smsg - 1
  <2>1. Numbers + 1 = smsg /\ smsg <= Len(lens)
    BY <1>2, <1>4
  <2>2. Rest = SubSeq(Message(smsg), 1, sdone)
    BY <1>1, <1>4, <2>1, RestBegins
  <2>3. Message(smsg) \in Seq(Bytes) /\ Len(Message(smsg)) = Size(smsg) /\ Size(smsg) \in Nat
    BY <1>1, <1>2, <2>1, MessageType
  <2>4. sdone # 0
    <3> SUFFICES ASSUME sdone = 0 PROVE FALSE
      OBVIOUS
    <3>1. 1 \in Int /\ 0 \in Int /\ \A i \in 1..0 : Message(smsg)[i] \in Bytes
      OBVIOUS
    <3>2. SubSeq(Message(smsg), 1, 0) \in Seq(Bytes) /\ Len(SubSeq(Message(smsg), 1, 0)) = 0
      BY <3>1, SubSeqProperties
    <3> QED
      BY <2>2, <3>2, ByteStreams
  <2> QED
    BY <1>1, <2>1, <2>4 DEF SenderKept
<1> QED
  BY <1>1, <1>2, <1>3, <1>4

\* A reader has taken all bytes of the next message that it asked for so far and some
\* more from pipe2.
LEMMA TakeBytes ==
    ASSUME PipeIInv, NEW n \in Nat, 1 <= n, n <= Len(pipe2)
    PROVE  LET part == rgot \o SubSeq(pipe2, 1, n)
               L == Len(rhead) + Len(rgot) + n
           IN  /\ Rest # <<>>
               /\ part \in Seq(Bytes) /\ Len(part) = Len(rgot) + n
               /\ SubSeq(pipe2, n + 1, Len(pipe2)) \in Seq(Bytes)
               /\ part \o SubSeq(pipe2, n + 1, Len(pipe2)) = rgot \o pipe2
               /\ rhead \o part \in Seq(Bytes) /\ Len(rhead \o part) = L /\ L \in Nat
               /\ \A i \in 1..L : i <= Size(Numbers + 1) => (rhead \o part)[i] = <<Numbers + 1, i>>
               /\ L <= Len(Rest)
<1>1. PICK x, y, part, L : x = SubSeq(pipe2, 1, n) /\ y = SubSeq(pipe2, n + 1, Len(pipe2)) /\ part = rgot \o x
                          /\ L = Len(rhead) + Len(rgot) + n
  OBVIOUS
<1>2. /\ pipe2 \in Seq(Bytes) /\ rhead \in Seq(Bytes) /\ rgot \in Seq(Bytes) /\ pipe1 \in Seq(Bytes)
      /\ Len(pipe2) \in Nat /\ Len(rhead) \in Nat /\ Len(rgot) \in Nat /\ Len(pipe1) \in Nat
  BY LenProperties DEF PipeIInv, PipeTypes
<1>3. x \in Seq(Bytes) /\ Len(x) = n /\ y \in Seq(Bytes) /\ x \o y = pipe2
  <2>1. 0 \in Nat /\ 0 <= n /\ Len(pipe2) <= Len(pipe2) /\ 0 + 1 = 1 /\ n - 0 = n
    BY <1>2
  <2>2. SubSeq(pipe2, 0 + 1, n) \in Seq(Bytes) /\ Len(SubSeq(pipe2, 0 + 1, n)) = n - 0
        /\ SubSeq(pipe2, 0 + 1, n) \o SubSeq(pipe2, n + 1, Len(pipe2)) = SubSeq(pipe2, 0 + 1, Len(pipe2))
    BY <1>2, <2>1, Pieces
  <2>3. SubSeq(pipe2, n + 1, Len(pipe2)) \in Seq(Bytes)
    BY <1>2, <2>1, Pieces
  <2>4. SubSeq(pipe2, 1, Len(pipe2)) = pipe2
    BY <1>2, SubSeqFull
  <2> QED
    BY <1>1, <2>1, <2>2, <2>3, <2>4
<1>4. part \in Seq(Bytes) /\ Len(part) = Len(rgot) + n
  BY <1>1, <1>2, <1>3, ByteStreams
<1>5. part \o y = rgot \o pipe2
  <2>1. rgot \in Seq(Bytes) /\ x \in Seq(Bytes) /\ y \in Seq(Bytes)
    BY <1>2, <1>3
  <2>2. (rgot \o x) \o y = rgot \o (x \o y)
    BY ONLY <2>1, StreamsAssociate
  <2> QED
    BY <1>1, <1>3, <2>2
<1>6. rhead \o part \in Seq(Bytes) /\ Len(rhead \o part) = L /\ L \in Nat /\ L >= 1
  <2>1. rhead \o part \in Seq(Bytes) /\ Len(rhead \o part) = Len(rhead) + Len(part)
    BY <1>2, <1>4, ByteStreams
  <2> QED
    BY <1>1, <1>2, <1>4, <2>1
<1>7. PICK z, head : z = y \o (Pending \o pipe1) /\ head = rhead \o part
  OBVIOUS
<1>8. z \in Seq(Bytes) /\ Rest = head \o z
  <2>1. Pending \in Seq(Bytes)
    BY RestIs DEF PipeIInv
  <2>2. PICK q, rg, rp : q = Pending \o pipe1 /\ rg = rgot \o pipe2 /\ rp = rhead \o part
    OBVIOUS
  <2>3. q \in Seq(Bytes)
    BY <1>2, <2>1, <2>2, ByteStreams
  <2>4. z = y \o q /\ z \in Seq(Bytes)
    BY <1>3, <1>7, <2>2, <2>3, ByteStreams
  <2>5. (rhead \o rgot) \o pipe2 = rhead \o (rgot \o pipe2)
    <3>1. rhead \in Seq(Bytes) /\ rgot \in Seq(Bytes) /\ pipe2 \in Seq(Bytes)
      BY <1>2
    <3> QED
      BY ONLY <3>1, StreamsAssociate
  <2>6. (rhead \o part) \o y = rhead \o (part \o y)
    <3>1. rhead \in Seq(Bytes) /\ part \in Seq(Bytes) /\ y \in Seq(Bytes)
      BY <1>2, <1>3, <1>4
    <3> QED
      BY ONLY <3>1, StreamsAssociate
  <2>7. (head \o y) \o q = head \o (y \o q)
    <3>1. head \in Seq(Bytes) /\ q \in Seq(Bytes) /\ y \in Seq(Bytes)
      BY <1>3, <1>6, <1>7, <2>3
    <3> QED
      BY ONLY <3>1, StreamsAssociate
  <2>8. Rest = ((rhead \o rgot) \o pipe2) \o q
    BY <2>2 DEF Rest
  <2> QED
    BY <1>5, <1>7, <2>4, <2>5, <2>6, <2>7, <2>8
<1>9. Len(z) \in Nat /\ Len(Rest) = L + Len(z) /\ \A i \in 1..L : Rest[i] = head[i]
  <2>1. head \in Seq(Bytes) /\ Len(head) = L
    BY <1>6, <1>7
  <2>2. Len(head \o z) = Len(head) + Len(z) /\ Len(z) \in Nat
        /\ \A i \in 1..Len(head) + Len(z) : (head \o z)[i] = IF i <= Len(head) THEN head[i] ELSE z[i - Len(head)]
    BY <1>8, <2>1, ConcatProperties, LenProperties
  <2>3. ASSUME NEW i \in 1..L PROVE Rest[i] = head[i]
    <3>1. i \in 1..Len(head) + Len(z) /\ i <= Len(head)
      BY <1>6, <2>1, <2>2
    <3> QED
      BY <1>8, <2>2, <3>1
  <2> QED
    BY <1>8, <2>1, <2>2, <2>3
<1>10. Rest # <<>>
  BY <1>6, <1>9, ByteStreams
<1>11. \A i \in 1..Len(Rest) : i <= Size(Numbers + 1) => Rest[i] = <<Numbers + 1, i>>
  BY <1>10, RestBytes DEF PipeIInv, ReceiverKept
<1>12. \A i \in 1..L : i <= Size(Numbers + 1) => head[i] = <<Numbers + 1, i>>
  <2> SUFFICES ASSUME NEW i \in 1..L, i <= Size(Numbers + 1) PROVE head[i] = <<Numbers + 1, i>>
    OBVIOUS
  <2>1. i \in 1..Len(Rest)
    BY <1>6, <1>9
  <2> QED
    BY <1>9, <1>11, <2>1
<1>13. L <= Len(Rest)
  BY <1>6, <1>9
<1> QED
  BY <1>1, <1>3, <1>4, <1>5, <1>6, <1>7, <1>10, <1>12, <1>13

\* A sequence of all bytes of the next message is that message.
LEMMA WholeMessage ==
    ASSUME PipeTypes, NEW k \in 1..Len(lens), NEW s \in Seq(Bytes), Len(s) = Size(k),
           \A i \in 1..Size(k) : s[i] = <<k, i>>
    PROVE  s = Message(k)
<1>1. PICK m, size : m = Message(k) /\ size = Size(k)
  OBVIOUS
<1>2. m \in Seq(Bytes) /\ Len(m) = size /\ size \in Nat /\ \A i \in 1..size : m[i] = <<k, i>>
  BY <1>1, MessageType
<1>3. Len(s) = size /\ \A i \in 1..size : s[i] = m[i]
  BY <1>1, <1>2
<1> QED
  BY <1>1, <1>2, <1>3, SeqEqual

\* The receiver moves bytes from pipe2 to what it holds or returns.
LEMMA TakenKept ==
    ASSUME PipeIInv, ReceiverKept', EndsKept',
           UNCHANGED <<given, sender, pipe1, copier>>,
           pipe2' \in Seq(Bytes), rhead' \in Seq(Bytes), rgot' \in Seq(Bytes), received' \in Seq(Seq(Bytes)),
           rpc' \in {"run", "eof", "error"},
           Held' \o pipe2' = Held \o pipe2
    PROVE  PipeIInv'
<1>1. PipeTypes'
  BY DEF PipeIInv, PipeTypes, given, sender, copier
<1>2. SenderKept'
  BY DEF PipeIInv, SenderKept, Size, Refused, given, sender
<1>3. CopierKept'
  BY DEF PipeIInv, CopierKept, copier
<1>4. StreamKept'
  <2>1. InTransit = ((Held \o pipe2) \o Pending) \o pipe1
    BY DEF InTransit, Held, Pending
  <2>2. InTransit' = ((Held' \o pipe2') \o Pending') \o pipe1'
    BY DEF InTransit, Held, Pending
  <2>3. Pending' = Pending /\ pipe1' = pipe1
    BY DEF Pending, copier
  <2>4. InTransit' = InTransit
    BY <2>1, <2>2, <2>3
  <2> QED
    BY <2>4 DEF PipeIInv, StreamKept, SentTo, Stream, Upto, Message, Size, given, sender
<1>5. CopyCounts'
  <2>1. CopyCounts
    BY DEF PipeIInv
  <2>2. Len(Held' \o pipe2') = Len(Held \o pipe2)
    OBVIOUS
  <2> QED
    BY <2>1, <2>2 DEF CopyCounts, Held, copier
<1> QED
  BY <1>1, <1>2, <1>3, <1>4, <1>5 DEF PipeIInv

\* The bytes held and in pipe2, when bytes have gone from there to the receiver.
LEMMA HeldMoves ==
    ASSUME PipeIInv, NEW part \in Seq(Bytes), NEW y \in Seq(Bytes), part \o y = rgot \o pipe2
    PROVE  /\ ((Flat(received) \o rhead) \o part) \o y = Held \o pipe2
           /\ (Flat(received) \o (rhead \o part)) \o y = Held \o pipe2
<1>1. PICK f : f = Flat(received)
  OBVIOUS
<1>2. f \in Seq(Bytes) /\ rhead \in Seq(Bytes) /\ rgot \in Seq(Bytes) /\ pipe2 \in Seq(Bytes)
  BY <1>1, RestIs DEF PipeIInv, PipeTypes
<1>3. PICK fh : fh = f \o rhead
  OBVIOUS
<1>4. fh \in Seq(Bytes)
  BY <1>2, <1>3, ByteStreams
<1>5. (fh \o part) \o y = fh \o (part \o y)
  <2>1. fh \in Seq(Bytes) /\ part \in Seq(Bytes) /\ y \in Seq(Bytes)
    BY <1>4
  <2> QED
    BY ONLY <2>1, StreamsAssociate
<1>6. (fh \o rgot) \o pipe2 = fh \o (rgot \o pipe2)
  <2>1. fh \in Seq(Bytes) /\ rgot \in Seq(Bytes) /\ pipe2 \in Seq(Bytes)
    BY <1>2, <1>4
  <2> QED
    BY ONLY <2>1, StreamsAssociate
<1>7. (f \o rhead) \o part = f \o (rhead \o part)
  <2>1. f \in Seq(Bytes) /\ rhead \in Seq(Bytes) /\ part \in Seq(Bytes)
    BY <1>2
  <2> QED
    BY ONLY <2>1, StreamsAssociate
<1>8. Held = fh \o rgot
  BY <1>1, <1>3 DEF Held
<1> QED
  BY <1>1, <1>3, <1>5, <1>6, <1>7, <1>8

\* The next message is returned.
LEMMA DeliverKept ==
    ASSUME PipeIInv, rpc = "run", UNCHANGED <<given, sender, pipe1, copier, rpc>>,
           NEW part \in Seq(Bytes), part \o pipe2' = rgot \o pipe2, pipe2' \in Seq(Bytes),
           Numbers + 1 \in 1..Len(lens), Numbers + 1 <= smsg - 1,
           rhead \o part = Message(Numbers + 1),
           format = "lines" => lens[Numbers + 1] <= LineMax - 2,
           received' = Append(received, rhead \o part), rhead' = <<>>, rgot' = <<>>
    PROVE  PipeIInv'
<1>1. PICK r, m : r = Numbers /\ m = Message(r + 1)
  OBVIOUS
<1>2. r \in Nat /\ r + 1 \in 1..Len(lens) /\ r + 1 <= smsg - 1 /\ m \in Seq(Bytes) /\ Len(lens) \in Nat /\ r <= Len(lens)
      /\ received \in Seq(Seq(Bytes)) /\ smsg \in Nat
  <2>1. PipeTypes
    BY DEF PipeIInv
  <2>2. received \in Seq(Seq(Bytes)) /\ lens \in Seq(Nat) /\ smsg \in Nat /\ r \in Nat /\ Len(lens) \in Nat
    BY <1>1, <2>1, LenProperties DEF PipeTypes, Numbers
  <2>3. r + 1 \in 1..Len(lens) /\ r + 1 <= smsg - 1
    BY <1>1
  <2>4. m \in Seq(Bytes)
    BY <1>1, <2>1, <2>3, MessageType
  <2>5. r <= Len(lens)
    BY <2>2, <2>3
  <2> QED
    BY <2>2, <2>3, <2>4, <2>5
<1>3. received = Upto(r) /\ Upto(r + 1) = Append(Upto(r), m)
  <2>1. r + 1 <= Len(lens)
    BY <1>2
  <2> QED
    BY <1>1, <1>2, <2>1, UptoType DEF PipeIInv, ReceiverKept
<1>4. received' = Append(received, m) /\ received' = Upto(r + 1)
  BY <1>1, <1>3
<1>5. received' \in Seq(Seq(Bytes)) /\ Len(received') = r + 1
  BY <1>1, <1>2, <1>4, AppendProperties DEF Numbers
<1>6. lens' = lens /\ format' = format /\ smsg' = smsg /\ \A n : Upto(n)' = Upto(n)
  <2>1. UNCHANGED given
    OBVIOUS
  <2> QED
    BY <2>1, GivenSame DEF sender
<1>7. ReceiverKept'
  <2>1. Numbers' = r + 1
    BY <1>5 DEF Numbers
  <2>2. (received = Upto(Numbers))'
    BY <1>4, <1>6, <2>1 DEF Upto, Message, Size
  <2>3. format = "lines" => \A k \in 1..(r + 1) : lens[k] <= LineMax - 2
    <3> SUFFICES ASSUME format = "lines", NEW k \in 1..(r + 1) PROVE lens[k] <= LineMax - 2
      OBVIOUS
    <3>1. CASE k = r + 1
      BY <1>1, <3>1
    <3>2. CASE k # r + 1
      <4>1. k \in 1..r
        BY <1>2, <3>2
      <4> QED
        BY <1>1, <4>1 DEF PipeIInv, ReceiverKept
    <3> QED
      BY <3>1, <3>2
  <2>4. Len(<<>>) = 0 /\ 0 <= LineMax - 2 /\ 0 < HeaderLen
    BY RestartAssumption
  <2> QED
    BY <1>2, <1>6, <2>1, <2>2, <2>3, <2>4 DEF ReceiverKept
<1>8. EndsKept'
  <2>1. EndsKept
    BY DEF PipeIInv
  <2> QED
    BY <2>1 DEF EndsKept, Refused, given, sender, copier
<1>9. Held' \o pipe2' = Held \o pipe2
  <2>1. Flat(received') = Flat(received) \o m
    BY <1>2, <1>4, FlattenAppend DEF Flat
  <2>2. Flat(received) \in Seq(Bytes)
    BY RestIs DEF PipeIInv
  <2>3. PICK fm : fm = Flat(received) \o m
    OBVIOUS
  <2>4. fm \in Seq(Bytes)
    BY <1>2, <2>2, <2>3, ByteStreams
  <2>5. Held' = (Flat(received') \o rhead') \o rgot'
    BY DEF Held, Flat
  <2>6. Held' = fm
    BY <2>1, <2>3, <2>4, <2>5, ByteStreams
  <2>7. (Flat(received) \o (rhead \o part)) \o pipe2' = Held \o pipe2
    <3>1. PICK y : y = pipe2'
      OBVIOUS
    <3>2. y \in Seq(Bytes) /\ part \o y = rgot \o pipe2
      BY <3>1
    <3>3. (Flat(received) \o (rhead \o part)) \o y = Held \o pipe2
      BY <3>2, HeldMoves
    <3> QED
      BY <3>1, <3>3
  <2> QED
    BY <1>1, <2>3, <2>6, <2>7
<1>10. rhead' \in Seq(Bytes) /\ rgot' \in Seq(Bytes) /\ rpc' \in {"run", "eof", "error"}
  BY ByteStreams
<1> QED
  BY <1>5, <1>7, <1>8, <1>9, <1>10, TakenKept

\* The header that has been read is that of the next message.
LEMMA HeaderRead ==
    ASSUME PipeIInv, rhead # <<>>
    PROVE  Numbers + 1 \in 1..Len(lens) /\ rhead[1] = <<Numbers + 1, 1>> /\ Len(rhead) = HeaderLen /\ format = "packets"
<1>1. Len(rhead) = HeaderLen /\ HeaderLen \in Nat \ {0} /\ format = "packets" /\ rhead \in Seq(Bytes)
  BY RestartAssumption DEF PipeIInv, PipeTypes, ReceiverKept
<1>2. PICK q, p : q = Pending \o pipe1 /\ p = rhead \o rgot
  OBVIOUS
<1>3. rgot \in Seq(Bytes) /\ pipe2 \in Seq(Bytes) /\ q \in Seq(Bytes) /\ p \in Seq(Bytes) /\ Len(rgot) \in Nat
      /\ Len(pipe2) \in Nat /\ Len(q) \in Nat
  <2>1. rgot \in Seq(Bytes) /\ pipe2 \in Seq(Bytes) /\ Pending \in Seq(Bytes) /\ pipe1 \in Seq(Bytes)
    BY RestIs DEF PipeIInv, PipeTypes
  <2> QED
    BY <1>1, <1>2, <2>1, ByteStreams
<1>4. Len(p) = Len(rhead) + Len(rgot) /\ p[1] = rhead[1]
  <2>1. Len(rhead \o rgot) = Len(rhead) + Len(rgot)
        /\ \A i \in 1..Len(rhead) + Len(rgot) : (rhead \o rgot)[i] = IF i <= Len(rhead) THEN rhead[i] ELSE rgot[i - Len(rhead)]
    BY <1>1, <1>3, ConcatProperties
  <2>2. 1 \in 1..Len(rhead) + Len(rgot) /\ 1 <= Len(rhead)
    BY <1>1, <1>3
  <2> QED
    BY <1>2, <2>1, <2>2
<1>5. PICK pp : pp = p \o pipe2
  OBVIOUS
<1>6. pp \in Seq(Bytes) /\ Len(pp) = Len(p) + Len(pipe2) /\ pp[1] = p[1]
  <2>1. pp \in Seq(Bytes) /\ Len(pp) = Len(p) + Len(pipe2)
        /\ \A i \in 1..Len(p) + Len(pipe2) : pp[i] = IF i <= Len(p) THEN p[i] ELSE pipe2[i - Len(p)]
    BY <1>3, <1>5, ConcatProperties
  <2>2. 1 \in 1..Len(p) + Len(pipe2) /\ 1 <= Len(p)
    BY <1>1, <1>3, <1>4
  <2> QED
    BY <2>1, <2>2
<1>7. Rest = pp \o q
  BY <1>2, <1>5 DEF Rest
<1>8. Rest \in Seq(Bytes) /\ Len(Rest) = Len(pp) + Len(q) /\ Rest[1] = pp[1] /\ Len(Rest) \in Nat /\ 1 <= Len(Rest)
  <2> DEFINE rest == pp \o q
  <2>1. rest \in Seq(Bytes) /\ Len(rest) = Len(pp) + Len(q)
        /\ \A i \in 1..Len(pp) + Len(q) : rest[i] = IF i <= Len(pp) THEN pp[i] ELSE q[i - Len(pp)]
    <3>1. pp \in Seq(Bytes) /\ q \in Seq(Bytes)
      BY <1>3, <1>6
    <3> QED
      BY ONLY <3>1, ConcatProperties
  <2>3. Rest = rest
    BY <1>7
  <2> HIDE DEF rest
  <2>2. 1 \in 1..Len(pp) + Len(q) /\ 1 <= Len(pp) /\ Len(pp) \in Nat
    BY <1>1, <1>3, <1>4, <1>6
  <2>4. rest[1] = pp[1]
    BY <2>1, <2>2
  <2> QED
    BY <1>3, <2>1, <2>2, <2>3, <2>4
<1>9. Rest # <<>>
  BY <1>8, ByteStreams
<1>10. /\ Numbers + 1 \in 1..Len(lens)
       /\ \A i \in 1..Len(Rest) : i <= Size(Numbers + 1) => Rest[i] = <<Numbers + 1, i>>
  BY <1>9, RestBytes DEF PipeIInv, ReceiverKept
<1>11. 1 <= Size(Numbers + 1) /\ 1 \in 1..Len(Rest)
  <2>1. Size(Numbers + 1) \in Nat \ {0}
    BY <1>10, MessageType DEF PipeIInv
  <2> QED
    BY <1>8, <2>1
<1>12. Rest[1] = <<Numbers + 1, 1>>
  BY <1>10, <1>11
<1> QED
  BY <1>1, <1>4, <1>6, <1>8, <1>10, <1>12

LEMMA GetBlockKept == ASSUME PipeIInv, GetBlock PROVE PipeIInv'
<1>1. format = "packets" /\ rpc = "run" /\ UNCHANGED <<given, sender, pipe1, copier>>
  BY DEF GetBlock
<1>2. PICK n \in 1..Least(Wanted - Len(rgot), Len(pipe2)) :
          LET part == rgot \o SubSeq(pipe2, 1, n) IN
          /\ pipe2' = SubSeq(pipe2, n + 1, Len(pipe2))
          /\ IF Len(part) < Wanted THEN rgot' = part /\ UNCHANGED <<rpc, rhead, received>>
             ELSE IF rhead # <<>> THEN Deliver(rhead \o part)
             ELSE IF lens[part[1][1]] > MaxPack
                  THEN rpc' = "error" /\ rgot' = part /\ UNCHANGED <<rhead, received>>
             ELSE IF lens[part[1][1]] = 0 THEN Deliver(part)
             ELSE rhead' = part /\ rgot' = <<>> /\ UNCHANGED <<rpc, received>>
  BY DEF GetBlock
<1>3. PICK part, r, w : part = rgot \o SubSeq(pipe2, 1, n) /\ r = Numbers /\ w = Wanted
  OBVIOUS
<1>4. /\ IF Len(part) < w THEN rgot' = part /\ UNCHANGED <<rpc, rhead, received>>
         ELSE IF rhead # <<>> THEN Deliver(rhead \o part)
         ELSE IF lens[part[1][1]] > MaxPack
              THEN rpc' = "error" /\ rgot' = part /\ UNCHANGED <<rhead, received>>
         ELSE IF lens[part[1][1]] = 0 THEN Deliver(part)
         ELSE rhead' = part /\ rgot' = <<>> /\ UNCHANGED <<rpc, received>>
  BY <1>2, <1>3
<1>5. /\ PipeTypes /\ SenderKept /\ ReceiverKept /\ StreamKept /\ EndsKept
      /\ rhead \in Seq(Bytes) /\ rgot \in Seq(Bytes) /\ pipe2 \in Seq(Bytes) /\ received \in Seq(Seq(Bytes))
      /\ Len(rhead) \in Nat /\ Len(rgot) \in Nat /\ Len(pipe2) \in Nat /\ r \in Nat /\ HeaderLen \in Nat /\ HeaderLen >= 1
      /\ smsg \in Nat
  BY <1>3, LenProperties, RestartAssumption DEF PipeIInv, PipeTypes, Numbers
<1>20. rhead # <<>> => Len(rhead) = HeaderLen /\ w = lens[r + 1] /\ w \in Nat
  <2> SUFFICES ASSUME rhead # <<>> PROVE Len(rhead) = HeaderLen /\ w = lens[r + 1] /\ w \in Nat
    OBVIOUS
  <2>1. Numbers + 1 \in 1..Len(lens) /\ rhead[1] = <<Numbers + 1, 1>> /\ Len(rhead) = HeaderLen
    BY HeaderRead
  <2>2. w = lens[r + 1]
    BY <1>3, <2>1 DEF Wanted
  <2>3. lens[Numbers + 1] \in Nat
    BY <1>5, <2>1, MessageType
  <2> QED
    BY <1>3, <2>1, <2>2, <2>3
<1>21. rhead = <<>> => Len(rhead) = 0 /\ w = HeaderLen
  BY <1>3, ByteStreams DEF Wanted
<1>22. w \in Nat
  BY <1>5, <1>20, <1>21
<1>6. n \in Nat /\ 1 <= n /\ n <= Len(pipe2) /\ n <= w - Len(rgot)
  <2>1. PICK a, b : a = w - Len(rgot) /\ b = Len(pipe2)
    OBVIOUS
  <2>2. a \in Int /\ b \in Nat /\ n \in 1..Least(a, b)
    BY <1>2, <1>3, <1>5, <1>22, <2>1
  <2>3. n \in Nat /\ 1 <= n /\ n <= a /\ n <= b
    BY ONLY <2>2 DEF Least
  <2> QED
    BY <2>1, <2>3
<1>7. /\ Rest # <<>> /\ part \in Seq(Bytes) /\ Len(part) = Len(rgot) + n
      /\ pipe2' \in Seq(Bytes) /\ part \o pipe2' = rgot \o pipe2
      /\ rhead \o part \in Seq(Bytes) /\ Len(rhead \o part) = Len(rhead) + Len(part)
      /\ \A i \in 1..Len(rhead) + Len(part) : i <= Size(r + 1) => (rhead \o part)[i] = <<r + 1, i>>
      /\ Len(rhead) + Len(part) <= Len(Rest)
  <2>1. PICK m, y : m = Len(rhead) + Len(rgot) + n /\ y = SubSeq(pipe2, n + 1, Len(pipe2))
    OBVIOUS
  <2>2. /\ Rest # <<>> /\ part \in Seq(Bytes) /\ Len(part) = Len(rgot) + n
        /\ y \in Seq(Bytes) /\ part \o y = rgot \o pipe2
        /\ rhead \o part \in Seq(Bytes) /\ Len(rhead \o part) = m
        /\ \A i \in 1..m : i <= Size(r + 1) => (rhead \o part)[i] = <<r + 1, i>>
        /\ m <= Len(Rest)
    BY <1>3, <1>6, <2>1, TakeBytes
  <2>3. m = Len(rhead) + Len(part)
    BY <1>5, <1>6, <2>1, <2>2
  <2> QED
    BY <1>2, <2>1, <2>2, <2>3
<1>8. r + 1 \in 1..Len(lens) /\ (Len(Rest) >= Size(r + 1) => r + 1 <= smsg - 1) /\ ~Refused(r + 1)
  BY <1>3, <1>5, <1>7, RestBytes, NotRefused DEF ReceiverKept
<1>9. PICK size, len, lh, lg : size = Size(r + 1) /\ len = lens[r + 1] /\ lh = Len(rhead) /\ lg = Len(part)
  OBVIOUS
<1>10. size \in Nat /\ len \in Nat /\ size = len + HeaderLen /\ len <= MaxPack
  BY <1>1, <1>5, <1>8, <1>9, MessageType, RestartAssumption DEF Refused
<1>11. rhead # <<>> => lh = HeaderLen /\ w = len
  BY <1>9, <1>20
<1>12. rhead = <<>> => lh = 0 /\ w = HeaderLen /\ rhead \o part = part
  BY <1>7, <1>9, <1>21, ByteStreams
<1>23. lg \in Nat /\ lh \in Nat /\ lg >= 1
  BY <1>5, <1>6, <1>7, <1>9
<1>13. w \in Nat /\ lg <= w /\ lh + lg <= size
  <2>1. lg <= w
    BY <1>5, <1>6, <1>7, <1>9, <1>22
  <2>2. HeaderLen \in Nat
    BY <1>5
  <2> QED
    BY <1>10, <1>11, <1>12, <1>22, <1>23, <2>1, <2>2
<1>14. ASSUME Len(rhead) + Len(part) = size PROVE rhead \o part = Message(r + 1) /\ r + 1 <= smsg - 1
  <2>1. PICK s, k : s = rhead \o part /\ k = r + 1
    OBVIOUS
  <2>2. s \in Seq(Bytes) /\ Len(s) = Size(k) /\ k \in 1..Len(lens) /\ PipeTypes
    BY <1>5, <1>7, <1>8, <1>9, <1>14, <2>1
  <2>3. \A i \in 1..Size(k) : s[i] = <<k, i>>
    <3> SUFFICES ASSUME NEW i \in 1..size PROVE (rhead \o part)[i] = <<r + 1, i>>
      BY <1>9, <2>1
    <3>1. i \in 1..Len(rhead) + Len(part) /\ i <= Size(r + 1)
      BY <1>9, <1>10, <1>14
    <3> QED
      BY <1>7, <3>1
  <2>4. s = Message(k)
    BY <2>2, <2>3, WholeMessage
  <2>5. Len(Rest) >= size
    BY <1>7, <1>14
  <2> QED
    BY <1>8, <1>9, <2>1, <2>4, <2>5
<1>15. ASSUME Len(rhead) + Len(part) = size, UNCHANGED rpc, received' = Append(received, rhead \o part), rhead' = <<>>, rgot' = <<>>
       PROVE  PipeIInv'
  BY <1>1, <1>3, <1>7, <1>8, <1>14, <1>15, DeliverKept
<1>16. CASE Len(part) < w
  <2>1. rgot' = part /\ UNCHANGED <<rpc, rhead, received>>
    BY <1>4, <1>16
  <2>2. Numbers' = r /\ received' = received /\ lens' = lens /\ format' = format /\ smsg' = smsg /\ rhead' = rhead /\ rpc' = rpc
    BY <1>1, <1>3, <2>1 DEF Numbers, given, sender
  <2>3. Len(rhead) + Len(part) < size
    <3>1. lg < w
      BY <1>9, <1>16
    <3>2. lh + lg < size
      BY <1>5, <1>10, <1>11, <1>12, <1>22, <1>23, <3>1
    <3> QED
      BY <1>9, <3>2
  <2>4. ReceiverKept'
    <3>1. (received = Upto(Numbers))'
      BY <1>3, <1>5, <2>2 DEF ReceiverKept, Upto, Message, Size, Numbers
    <3>2. Size(Numbers + 1)' = size /\ r < Len(lens) /\ r <= smsg - 1
      BY <1>3, <1>5, <1>8, <1>9, <2>2 DEF Size, ReceiverKept
    <3>3. rhead = <<>> => Len(part) < HeaderLen
      BY <1>12, <1>16
    <3> QED
      BY <1>1, <1>3, <1>5, <2>1, <2>2, <2>3, <3>1, <3>2, <3>3 DEF ReceiverKept
  <2>5. EndsKept'
    BY <1>1, <1>5, <2>1 DEF EndsKept, Refused, given, sender, copier
  <2>6. Held' \o pipe2' = Held \o pipe2
    <3>1. PICK y : y = pipe2'
      OBVIOUS
    <3>2. ((Flat(received) \o rhead) \o part) \o y = Held \o pipe2
      BY <1>7, <3>1, HeldMoves
    <3>3. Held' = (Flat(received') \o rhead') \o rgot'
      BY DEF Held, Flat
    <3> QED
      BY <2>1, <3>1, <3>2, <3>3
  <2>7. rhead' \in Seq(Bytes) /\ rgot' \in Seq(Bytes) /\ received' \in Seq(Seq(Bytes)) /\ rpc' \in {"run", "eof", "error"}
    BY <1>1, <1>5, <1>7, <2>1
  <2> QED
    BY <1>1, <1>7, <2>4, <2>5, <2>6, <2>7, TakenKept
<1>17. CASE ~(Len(part) < w) /\ rhead # <<>>
  <2>1. Deliver(rhead \o part)
    BY <1>4, <1>17
  <2>2. Len(rhead) + Len(part) = size
    <3>1. lh = HeaderLen /\ w = len /\ ~(lg < w)
      BY <1>9, <1>11, <1>17
    <3>2. lh + lg = size
      BY <1>5, <1>10, <1>13, <1>23, <3>1
    <3> QED
      BY <1>9, <3>2
  <2> QED
    BY <1>15, <2>1, <2>2 DEF Deliver
<1>18. CASE ~(Len(part) < w) /\ rhead = <<>>
  <2>1. Len(part) = HeaderLen /\ Len(part) >= 1
    <3>1. lh = 0 /\ w = HeaderLen /\ ~(lg < w)
      BY <1>9, <1>12, <1>18
    <3>2. lg = HeaderLen
      BY <1>13, <1>22, <1>23, <3>1
    <3> QED
      BY <1>9, <1>23, <3>2
  <2>2. part[1] = <<r + 1, 1>>
    <3>1. 1 \in 1..Len(rhead) + Len(part) /\ 1 <= size
      BY <1>5, <1>10, <1>12, <1>18, <2>1
    <3>2. (rhead \o part)[1] = <<r + 1, 1>>
      BY <1>7, <1>9, <3>1
    <3> QED
      BY <1>12, <1>18, <3>2
  <2>3. lens[part[1][1]] = len /\ ~(len > MaxPack)
    BY <1>9, <1>10, <2>2, RestartAssumption
  <2>4. CASE len = 0
    <3>1. Deliver(part)
      BY <1>4, <1>18, <2>3, <2>4
    <3>2. Len(rhead) + Len(part) = size
      BY <1>10, <1>12, <1>18, <2>1, <2>4
    <3> QED
      BY <1>12, <1>15, <1>18, <3>1, <3>2 DEF Deliver
  <2>5. CASE len # 0
    <3>1. rhead' = part /\ rgot' = <<>> /\ UNCHANGED <<rpc, received>>
      BY <1>4, <1>18, <2>3, <2>5
    <3>2. Numbers' = r /\ received' = received /\ lens' = lens /\ format' = format /\ smsg' = smsg /\ rpc' = rpc
      BY <1>1, <1>3, <3>1 DEF Numbers, given, sender
    <3>3. part # <<>> /\ Len(<<>>) = 0 /\ Len(part) + 0 < size
      BY <1>5, <1>10, <2>1, <2>5, ByteStreams
    <3>4. ReceiverKept'
      <4>1. (received = Upto(Numbers))'
        BY <1>3, <1>5, <3>2 DEF ReceiverKept, Upto, Message, Size, Numbers
      <4>2. Size(Numbers + 1)' = size /\ r < Len(lens) /\ r <= smsg - 1
        BY <1>3, <1>5, <1>8, <1>9, <3>2 DEF Size, ReceiverKept
      <4> QED
        BY <1>1, <1>3, <1>5, <2>1, <3>1, <3>2, <3>3, <4>1, <4>2 DEF ReceiverKept
    <3>5. EndsKept'
      BY <1>1, <1>5, <3>1 DEF EndsKept, Refused, given, sender, copier
    <3>6. Held' \o pipe2' = Held \o pipe2
      <4>1. PICK y : y = pipe2'
        OBVIOUS
      <4>2. (Flat(received) \o (rhead \o part)) \o y = Held \o pipe2
        BY <1>7, <4>1, HeldMoves
      <4>3. Held' = (Flat(received') \o rhead') \o rgot'
        BY DEF Held, Flat
      <4>4. Flat(received) \o part \in Seq(Bytes)
        BY <1>5, <1>7, RestIs, ByteStreams
      <4>5. Held' = Flat(received) \o part
        <5>1. (Flat(received) \o part) \o <<>> = Flat(received) \o part
          BY <4>4, ByteStreams
        <5> QED
          BY <3>1, <4>3, <5>1
      <4> QED
        BY <1>12, <1>18, <4>1, <4>2, <4>5
    <3>7. rhead' \in Seq(Bytes) /\ rgot' \in Seq(Bytes) /\ received' \in Seq(Seq(Bytes)) /\ rpc' \in {"run", "eof", "error"}
      BY <1>1, <1>5, <1>7, <3>1, ByteStreams
    <3> QED
      BY <1>1, <1>7, <3>4, <3>5, <3>6, <3>7, TakenKept
  <2> QED
    BY <2>4, <2>5
<1> QED
  BY <1>16, <1>17, <1>18

\* A line ends with the byte that has the number of its length.
LEMMA GetLineKept == ASSUME PipeIInv, GetLine PROVE PipeIInv'
<1>1. format = "lines" /\ rpc = "run" /\ pipe2 # <<>> /\ UNCHANGED <<given, sender, pipe1, copier>> /\ pipe2' = Tail(pipe2)
  BY DEF GetLine
<1>2. PICK part, r, h : part = Append(rgot, Head(pipe2)) /\ r = Numbers /\ h = Head(pipe2)
  OBVIOUS
<1>3. IF h[2] = Size(h[1]) THEN Deliver(part)
      ELSE /\ rgot' = part
           /\ rpc' = IF Len(part) = LineMax - 1 THEN "error" ELSE "run"
           /\ UNCHANGED <<rhead, received>>
  BY <1>2 DEF GetLine
<1>4. /\ PipeTypes /\ SenderKept /\ ReceiverKept /\ StreamKept /\ EndsKept
      /\ rhead \in Seq(Bytes) /\ rgot \in Seq(Bytes) /\ pipe2 \in Seq(Bytes) /\ received \in Seq(Seq(Bytes))
      /\ Len(rhead) \in Nat /\ Len(rgot) \in Nat /\ Len(pipe2) \in Nat /\ r \in Nat /\ LineMax \in Nat /\ LineMax >= 2
      /\ smsg \in Nat /\ Len(lens) \in Nat
  BY <1>2, LenProperties, RestartAssumption DEF PipeIInv, PipeTypes, Numbers
<1>5. rhead = <<>> /\ Len(rhead) = 0
  BY <1>1, <1>4, ByteStreams DEF ReceiverKept
<1>6. 1 <= Len(pipe2)
  BY <1>1, <1>4, ByteStreams
<1>7. PICK one : one = SubSeq(pipe2, 1, 1)
  OBVIOUS
<1>8. part = rgot \o one /\ pipe2' = SubSeq(pipe2, 1 + 1, Len(pipe2))
  <2>1. SubSeq(pipe2, 0 + 1, 1) \in Seq(Bytes) /\ Len(SubSeq(pipe2, 0 + 1, 1)) = 1 - 0
        /\ \A i \in 1..(1 - 0) : SubSeq(pipe2, 0 + 1, 1)[i] = pipe2[0 + i]
    <3>1. 0 \in Nat /\ 1 \in Nat /\ 0 <= 1
      OBVIOUS
    <3> QED
      BY <1>4, <1>6, <3>1, Pieces
  <2>2. one \in Seq(Bytes) /\ Len(one) = 1 /\ one[1] = pipe2[1]
    BY <1>7, <2>1
  <2>3. Head(pipe2) = pipe2[1] /\ Tail(pipe2) \in Seq(Bytes)
    BY <1>1, <1>4, HeadTailProperties
  <2>4. one = <<h>>
    BY <1>2, <2>2, <2>3
  <2>5. h \in Bytes
    BY <1>2, <1>4, <1>6, <2>3, ElementOfSeq
  <2>6. part = rgot \o one
    BY <1>2, <1>4, <2>4, <2>5, AppendIsConcat
  <2>7. Tail(pipe2) = SubSeq(pipe2, 2, Len(pipe2))
    BY <1>1, <1>4, TailIsSubSeq
  <2> QED
    BY <1>1, <2>6, <2>7
<1>9. /\ Rest # <<>> /\ part \in Seq(Bytes) /\ Len(part) = Len(rgot) + 1
      /\ pipe2' \in Seq(Bytes) /\ part \o pipe2' = rgot \o pipe2
      /\ rhead \o part = part
      /\ \A i \in 1..Len(part) : i <= Size(r + 1) => part[i] = <<r + 1, i>>
      /\ Len(part) <= Len(Rest)
  <2>1. 1 \in Nat /\ 1 <= 1
    OBVIOUS
  <2>2. /\ Rest # <<>> /\ part \in Seq(Bytes) /\ Len(part) = Len(rgot) + 1
        /\ pipe2' \in Seq(Bytes) /\ part \o pipe2' = rgot \o pipe2
        /\ \A i \in 1..(Len(rhead) + Len(rgot) + 1) : i <= Size(r + 1) => (rhead \o part)[i] = <<r + 1, i>>
        /\ Len(rhead) + Len(rgot) + 1 <= Len(Rest)
    BY <1>2, <1>6, <1>7, <1>8, <2>1, TakeBytes
  <2>3. rhead \o part = part
    BY <1>5, <2>2, ByteStreams
  <2> QED
    BY <1>4, <1>5, <2>2, <2>3
<1>10. r + 1 \in 1..Len(lens) /\ (Len(Rest) >= Size(r + 1) => r + 1 <= smsg - 1)
  BY <1>2, <1>4, <1>9, RestBytes DEF ReceiverKept
<1>11. PICK size, len, g : size = Size(r + 1) /\ len = lens[r + 1] /\ g = Len(part)
  OBVIOUS
<1>12. size \in Nat /\ len \in Nat /\ size = len + 1
  BY <1>1, <1>4, <1>10, <1>11, MessageType
<1>13. g \in Nat /\ 1 <= g /\ g <= size /\ g = Len(rgot) + 1 /\ Len(rgot) <= LineMax - 2
  <2>1. Len(rgot) < size
    <3>1. CASE rgot = <<>>
      BY <1>4, <1>12, <3>1, ByteStreams
    <3>2. CASE rgot # <<>>
      BY <1>2, <1>4, <1>5, <1>11, <3>2 DEF ReceiverKept
    <3> QED
      BY <3>1, <3>2
  <2>2. Len(rgot) <= LineMax - 2
    BY <1>1, <1>4 DEF ReceiverKept
  <2>3. g = Len(rgot) + 1
    BY <1>9, <1>11
  <2>4. PICK c : c = Len(rgot)
    OBVIOUS
  <2>5. c \in Nat /\ size \in Nat /\ g = c + 1 /\ c < size
    BY <1>4, <1>12, <2>1, <2>3, <2>4
  <2>6. g \in Nat /\ 1 <= g /\ g <= size
    BY ONLY <2>5
  <2> QED
    BY <2>2, <2>3, <2>6
<1>14. h = <<r + 1, g>>
  <2>1. part[g] = h
    <3>1. h \in Bytes
      BY <1>1, <1>2, <1>4, HeadTailProperties
    <3>2. part = Append(rgot, h) /\ Append(rgot, h)[Len(rgot) + 1] = h
      BY <1>2, <1>4, <3>1, AppendProperties
    <3> QED
      BY <1>13, <3>2
  <2>2. g \in 1..Len(part) /\ g <= Size(r + 1)
    BY <1>11, <1>13
  <2>3. part[g] = <<r + 1, g>>
    BY <1>9, <2>2
  <2> QED
    BY <2>1, <2>3
<1>15. h[2] = g /\ Size(h[1]) = size
  BY <1>11, <1>14
<1>16. CASE g = size
  <2>1. Deliver(part)
    BY <1>3, <1>15, <1>16
  <2>2. PICK k : k = r + 1
    OBVIOUS
  <2>3. k \in 1..Len(lens) /\ Len(part) = Size(k) /\ \A i \in 1..Size(k) : part[i] = <<k, i>>
    BY <1>9, <1>10, <1>11, <1>12, <1>13, <1>16, <2>2
  <2>4. part = Message(k)
    BY <1>4, <1>9, <2>3, WholeMessage
  <2>5. Numbers + 1 <= smsg - 1 /\ lens[Numbers + 1] <= LineMax - 2
    BY <1>2, <1>9, <1>10, <1>11, <1>12, <1>13, <1>4, <1>16
  <2>6. received' = Append(received, rhead \o part) /\ rhead' = <<>> /\ rgot' = <<>> /\ UNCHANGED rpc
    BY <1>9, <2>1 DEF Deliver
  <2>7. rhead \o part = Message(Numbers + 1) /\ Numbers + 1 \in 1..Len(lens)
    BY <1>2, <1>9, <1>10, <2>2, <2>4
  <2> QED
    BY <1>1, <1>9, <2>5, <2>6, <2>7, DeliverKept
<1>17. CASE g # size
  <2>1. rgot' = part /\ rpc' = (IF g = LineMax - 1 THEN "error" ELSE "run") /\ UNCHANGED <<rhead, received>>
    BY <1>3, <1>11, <1>15, <1>17
  <2>2. Numbers' = r /\ received' = received /\ lens' = lens /\ format' = format /\ smsg' = smsg /\ rhead' = rhead
    BY <1>1, <1>2, <2>1 DEF Numbers, given, sender
  <2>3. g < size
    BY <1>12, <1>13, <1>17
  <2>4. ReceiverKept'
    <3>1. (received = Upto(Numbers))'
      BY <1>2, <1>4, <2>2 DEF ReceiverKept, Upto, Message, Size, Numbers
    <3>2. Size(Numbers + 1)' = size /\ r < Len(lens) /\ r <= smsg - 1
      BY <1>2, <1>4, <1>10, <1>11, <2>2 DEF Size, ReceiverKept
    <3>3. rpc' = "run" => g <= LineMax - 2
      BY <1>4, <1>13, <2>1
    <3>4. \A k \in 1..r : lens[k] <= LineMax - 2
      BY <1>1, <1>2, <1>4 DEF ReceiverKept
    <3> QED
      BY <1>1, <1>2, <1>4, <1>5, <1>11, <2>1, <2>2, <2>3, <3>1, <3>2, <3>3, <3>4 DEF ReceiverKept
  <2>5. EndsKept'
    <3>0. UNCHANGED given
      BY <1>1
    <3>1. /\ spc' = spc /\ cpc' = cpc /\ pipe1' = pipe1 /\ cdone' = cdone /\ cbuf' = cbuf /\ sdone' = sdone /\ smsg' = smsg
          /\ iofaults' = iofaults /\ lens' = lens /\ format' = format /\ Deliverable' = Deliverable
          /\ (Refused(smsg)' <=> Refused(smsg))
      BY <1>1, <3>0, GivenSame DEF sender, copier, Refused
    <3>2. rpc' # "run" => rpc' = "error" /\ Deliverable = r /\ r < Len(lens)
      <4> SUFFICES ASSUME rpc' # "run" PROVE rpc' = "error" /\ Deliverable = r /\ r < Len(lens)
        OBVIOUS
      <4>1. g = LineMax - 1 /\ rpc' = "error"
        BY <2>1
      <4>2. Stuck(r + 1)
        BY <1>1, <1>4, <1>11, <1>12, <2>3, <4>1 DEF Stuck
      <4>3. \A k \in 1..r : ~Stuck(k)
        <5> SUFFICES ASSUME NEW k \in 1..r PROVE ~Stuck(k)
          OBVIOUS
        <5>1. lens[k] <= LineMax - 2 /\ k \in 1..Len(lens)
          BY <1>1, <1>2, <1>4, <1>10 DEF ReceiverKept
        <5>2. lens[k] \in Nat
          BY <1>4, <5>1, MessageType
        <5> QED
          BY <1>1, <1>4, <5>1, <5>2 DEF Stuck
      <4>4. r <= Len(lens) /\ r < Len(lens)
        BY <1>4, <1>10
      <4> QED
        BY <1>4, <4>1, <4>2, <4>3, <4>4, DeliverableIs
    <3>3. EndsKept
      BY <1>4
    <3> QED
      BY <1>1, <2>2, <3>1, <3>2, <3>3 DEF EndsKept
  <2>6. Held' \o pipe2' = Held \o pipe2
    <3>1. PICK y : y = pipe2'
      OBVIOUS
    <3>2. ((Flat(received) \o rhead) \o part) \o y = Held \o pipe2
      BY <1>9, <3>1, HeldMoves
    <3>3. Held' = (Flat(received') \o rhead') \o rgot'
      BY DEF Held, Flat
    <3> QED
      BY <2>1, <3>1, <3>2, <3>3
  <2>7. rhead' \in Seq(Bytes) /\ rgot' \in Seq(Bytes) /\ received' \in Seq(Seq(Bytes)) /\ rpc' \in {"run", "eof", "error"}
    BY <1>4, <1>9, <2>1
  <2> QED
    BY <1>1, <1>9, <2>4, <2>5, <2>6, <2>7, TakenKept
<1> QED
  BY <1>16, <1>17

\* Without failures the pipeline is empty when it ends, and all that can get through
\* has part through.
LEMMA EmptyAtEnd ==
    ASSUME PipeIInv, rpc = "run", cpc = "end", pipe2 = <<>>, iofaults = {}
    PROVE  rhead = <<>> /\ rgot = <<>> /\ Numbers = Deliverable
<1>1. spc = "end" /\ pipe1 = <<>> /\ cdone = Len(cbuf) /\ sdone = 0 /\ (smsg > Len(lens) \/ Refused(smsg))
  BY DEF PipeIInv, EndsKept
<1>2. /\ PipeTypes /\ SenderKept /\ ReceiverKept /\ StreamKept
      /\ rhead \in Seq(Bytes) /\ rgot \in Seq(Bytes) /\ Len(rhead) \in Nat /\ Len(rgot) \in Nat /\ Len(cbuf) \in Nat
      /\ Numbers \in Nat /\ smsg \in 1..(Len(lens) + 1) /\ Len(lens) \in Nat
  BY LenProperties DEF PipeIInv, PipeTypes, Numbers
<1>3. Len(Rest) = Len(rhead) + Len(rgot) /\ Rest \in Seq(Bytes)
  <2>1. Len(Pending) = 0 /\ Len(pipe2) = 0 /\ Len(pipe1) = 0
    BY <1>1, <1>2, RestIs, ByteStreams
  <2> QED
    BY <1>2, <2>1, RestIs
<1>4. Rest = <<>>
  <2> SUFFICES ASSUME Rest # <<>> PROVE FALSE
    OBVIOUS
  <2>1. Len(Rest) >= Size(Numbers + 1) /\ Numbers + 1 \in 1..Len(lens)
    BY <1>1, <1>2, RestBytes DEF ReceiverKept
  <2>2. rhead # <<>> \/ rgot # <<>>
    BY <1>2, <1>3, ByteStreams
  <2>3. Len(rhead) + Len(rgot) < Size(Numbers + 1)
    BY <1>2, <2>2 DEF ReceiverKept
  <2>4. Size(Numbers + 1) \in Nat
    BY <1>2, <2>1, MessageType
  <2> QED
    BY <1>2, <1>3, <2>1, <2>3, <2>4
<1>5. rhead = <<>> /\ rgot = <<>>
  BY <1>2, <1>3, <1>4, ByteStreams
<1>6. Numbers = smsg - 1
  <2> SUFFICES ASSUME Numbers < smsg - 1 PROVE FALSE
    BY <1>2 DEF ReceiverKept
  <2>1. PICK t \in Seq(Bytes) : Rest = Message(Numbers + 1) \o t
    BY <1>2, RestBegins DEF ReceiverKept
  <2>2. Message(Numbers + 1) \in Seq(Bytes) /\ Len(Message(Numbers + 1)) = Size(Numbers + 1) /\ Size(Numbers + 1) \in Nat \ {0}
    BY <1>2, MessageType
  <2>3. Len(Rest) = Len(Message(Numbers + 1)) + Len(t) /\ Len(t) \in Nat
    BY <2>1, <2>2, ByteStreams
  <2> QED
    BY <1>4, <2>2, <2>3, ByteStreams
<1>7. \A k \in 1..Numbers : ~Stuck(k)
  <2> SUFFICES ASSUME NEW k \in 1..Numbers PROVE ~Stuck(k)
    OBVIOUS
  <2>1. k \in 1..Len(lens) /\ k < smsg /\ lens[k] \in Nat
    BY <1>2, <1>6, MessageType
  <2>2. CASE format = "packets"
    BY <1>2, <2>1, <2>2, RestartAssumption DEF SenderKept, Refused, Stuck
  <2>3. CASE format # "packets"
    <3>1. lens[k] <= LineMax - 2
      BY <1>2, <2>3 DEF PipeTypes, ReceiverKept
    <3> QED
      BY <2>1, <2>3, <3>1, RestartAssumption DEF Stuck
  <2> QED
    BY <2>2, <2>3
<1>8. Numbers <= Len(lens) /\ (Numbers = Len(lens) \/ Stuck(Numbers + 1))
  <2>1. CASE smsg > Len(lens)
    BY <1>2, <1>6, <2>1
  <2>2. CASE ~(smsg > Len(lens))
    <3>1. Refused(smsg) /\ Numbers + 1 = smsg
      BY <1>1, <1>2, <1>6, <2>2
    <3> QED
      BY <1>2, <1>6, <2>2, <3>1 DEF Refused, Stuck
  <2> QED
    BY <2>1, <2>2
<1>9. Deliverable = Numbers
  <2>1. PICK r : r = Numbers
    OBVIOUS
  <2>2. r \in Nat /\ r <= Len(lens) /\ (\A k \in 1..r : ~Stuck(k)) /\ (r = Len(lens) \/ Stuck(r + 1))
    BY <1>2, <1>7, <1>8, <2>1
  <2> QED
    BY <1>2, <2>1, <2>2, DeliverableIs
<1> QED
  BY <1>5, <1>9

LEMMA GetEndsKept == ASSUME PipeIInv, GetEnds \/ GetFails PROVE PipeIInv'
<1>1. /\ rpc = "run" /\ rpc' \in {"eof", "error"} /\ UNCHANGED <<given, sender, pipe1, pipe2, copier, rhead, rgot, received>>
      /\ rpc' = "eof" => rhead = <<>> /\ rgot = <<>>
      /\ iofaults = {} => pipe2 = <<>> /\ cpc = "end" /\ (rpc' = "error" => ~(rhead = <<>> /\ rgot = <<>>))
  BY DEF GetEnds, GetFails
<1>2. UNCHANGED given /\ UNCHANGED <<given, sender, pipe1, copier>>
  BY <1>1
<1>3. ReceiverKept'
  BY <1>1 DEF PipeIInv, ReceiverKept, Upto, Message, Size, Numbers, given, sender
<1>4. EndsKept'
  <2>1. /\ Numbers' = Numbers /\ rhead' = rhead /\ rgot' = rgot /\ iofaults' = iofaults /\ Deliverable' = Deliverable
        /\ lens' = lens /\ format' = format
    BY <1>1, <1>2, GivenSame DEF Numbers
  <2>2. iofaults = {} => rhead = <<>> /\ rgot = <<>> /\ Numbers = Deliverable
    BY <1>1, EmptyAtEnd
  <2> QED
    BY <1>1, <2>1, <2>2 DEF EndsKept
<1>5. /\ pipe2' \in Seq(Bytes) /\ rhead' \in Seq(Bytes) /\ rgot' \in Seq(Bytes) /\ received' \in Seq(Seq(Bytes))
      /\ rpc' \in {"run", "eof", "error"}
  BY <1>1 DEF PipeIInv, PipeTypes
<1>6. Held' \o pipe2' = Held \o pipe2
  BY <1>1 DEF Held, Flat
<1> QED
  BY <1>2, <1>3, <1>4, <1>5, <1>6, TakenKept

LEMMA PipeInitKept == PipeInit => PipeIInv
<1> SUFFICES ASSUME PipeInit PROVE PipeIInv
  OBVIOUS
<1>1. /\ format \in {"packets", "lines"} /\ lens \in Seq(Nat) /\ spc = "run" /\ smsg = 1 /\ sdone = 0
      /\ pipe1 = <<>> /\ pipe2 = <<>> /\ cpc = "read" /\ cbuf = <<>> /\ cdone = 0 /\ ctotal = 0
      /\ rpc = "run" /\ rhead = <<>> /\ rgot = <<>> /\ received = <<>>
  BY RestartAssumption DEF PipeInit
<1>2. <<>> \in Seq(Bytes) /\ <<>> \in Seq(Seq(Bytes)) /\ Len(<<>>) = 0 /\ Len(lens) \in Nat
  BY <1>1, EmptySeq, LenProperties
<1>3. PipeTypes
  BY <1>1, <1>2 DEF PipeTypes
<1>4. \A k \in 1..Len(lens) : 0 < Size(k)
  BY <1>3, MessageType
<1>5. SenderKept
  BY <1>1, <1>2, <1>4 DEF SenderKept
<1>6. CopierKept
  BY <1>1, <1>2 DEF CopierKept
<1>7. Numbers = 0
  BY <1>1, <1>2 DEF Numbers
<1>8. received = Upto(0)
  <2>1. Upto(0) \in Seq(Seq(Bytes)) /\ Len(Upto(0)) = 0
    BY <1>2, <1>3, UptoType
  <2> QED
    BY <1>1, <2>1, EmptySeq
<1>9. ReceiverKept
  <2>1. 0 < HeaderLen /\ 0 <= LineMax - 2
    BY RestartAssumption
  <2> QED
    BY <1>1, <1>2, <1>7, <1>8, <2>1 DEF ReceiverKept
<1>10. Flat(received) = <<>>
  BY <1>1, FlattenOne DEF Flat
<1>11. Held \o pipe2 = <<>>
  <2>1. <<>> \o <<>> = <<>>
    BY <1>2, ByteStreams
  <2> QED
    BY <1>1, <1>10, <2>1 DEF Held
<1>12. StreamKept
  <2>1. SentTo(1, 0) = Stream(1 - 1)
    <3>1. 1 \in 1..(Len(lens) + 1) /\ 0 \in Nat
      BY <1>2
    <3>2. ASSUME 1 <= Len(lens) PROVE 0 <= Size(1)
      <4>1. 1 \in 1..Len(lens)
        BY <1>2, <3>2
      <4>2. Size(1) \in Nat \ {0}
        BY <1>3, <4>1, MessageType
      <4> QED
        BY <4>2
    <3> QED
      BY <1>3, <3>1, <3>2, SentType
  <2>2. 1 - 1 = 0
    OBVIOUS
  <2>3. Stream(0) = Flat(received)
    BY <1>8 DEF Stream, Flat
  <2>4. SentTo(smsg, sdone) = <<>>
    BY <1>1, <1>10, <2>1, <2>2, <2>3
  <2>5. Len(Pending) = 0 /\ Pending \in Seq(Bytes) /\ InTransit = ((Held \o pipe2) \o Pending) \o pipe1
    BY <1>1, <1>2, <1>3, RestIs
  <2>6. Pending = <<>> /\ <<>> \o <<>> = <<>>
    BY <1>2, <2>5, ByteStreams
  <2>7. InTransit = <<>>
    BY <1>1, <1>11, <2>5, <2>6
  <2> QED
    BY <2>4, <2>7 DEF StreamKept
<1>13. EndsKept
  BY <1>1 DEF EndsKept
<1>14. CopyCounts
  <2>1. Len(Held \o pipe2) = 0
    BY <1>2, <1>11
  <2> QED
    BY <1>1, <2>1 DEF CopyCounts, Held
<1> QED
  BY <1>3, <1>5, <1>6, <1>9, <1>12, <1>13, <1>14 DEF PipeIInv

LEMMA PipeStepKept == PipeIInv /\ [PipeNext]_pipevars => PipeIInv'
<1> SUFFICES ASSUME PipeIInv, [PipeNext]_pipevars PROVE PipeIInv'
  OBVIOUS
<1>1. CASE Send
  BY <1>1, SendKept
<1>2. CASE SendEnds
  BY <1>2, SendEndsKept
<1>3. CASE CopyRead
  BY <1>3, CopyReadKept
<1>4. CASE CopyWrite
  BY <1>4, CopyWriteKept
<1>5. CASE CopyEnds
  BY <1>5, CopyEndsKept
<1>6. CASE GetBlock
  BY <1>6, GetBlockKept
<1>7. CASE GetLine
  BY <1>7, GetLineKept
<1>8. CASE GetEnds \/ GetFails
  BY <1>8, GetEndsKept
<1>9. CASE UNCHANGED pipevars
  <2>1. UNCHANGED <<given, sender, pipe1, pipe2, copier, rpc, rhead, rgot, received>>
    BY <1>9 DEF pipevars, receiver
  <2>2. ReceiverKept'
    BY <2>1 DEF PipeIInv, ReceiverKept, Upto, Message, Size, Numbers, given, sender
  <2>3. EndsKept'
    <3>0. UNCHANGED given
      BY <2>1
    <3>1. Deliverable' = Deliverable /\ iofaults' = iofaults /\ format' = format /\ lens' = lens
      BY <3>0, GivenSame
    <3> QED
      BY <2>1, <3>1 DEF PipeIInv, EndsKept, Numbers, Refused, sender, copier
  <2>4. /\ pipe2' \in Seq(Bytes) /\ rhead' \in Seq(Bytes) /\ rgot' \in Seq(Bytes) /\ received' \in Seq(Seq(Bytes))
        /\ rpc' \in {"run", "eof", "error"}
    BY <2>1 DEF PipeIInv, PipeTypes
  <2>5. Held' \o pipe2' = Held \o pipe2
    BY <2>1 DEF Held, Flat
  <2> QED
    BY <2>1, <2>2, <2>3, <2>4, <2>5, TakenKept
<1> QED
  BY <1>1, <1>2, <1>3, <1>4, <1>5, <1>6, <1>7, <1>8, <1>9 DEF PipeNext, SenderStep, CopierStep, ReceiverStep

LEMMA PipeInvariant == PipeSpec => []PipeIInv
<1> QED
  BY PipeInitKept, PipeStepKept, PTL DEF PipeSpec

LEMMA PipeConsequence == PipeIInv => MessagesWhole
<1> SUFFICES ASSUME PipeIInv PROVE MessagesWhole
  OBVIOUS
<1>1. Sent = InTransit
  BY DEF PipeIInv, StreamKept, SentTo, Stream, Upto, Sent, Flat
<1>2. received = [k \in 1..Len(received) |-> Message(k)]
  BY DEF PipeIInv, ReceiverKept, Upto, Numbers
<1> QED
  BY <1>1, <1>2 DEF PipeIInv, EndsKept, Numbers, MessagesWhole

\* appendixB/restart.c: r_write, copyfile and readblock or readline in a pipeline.
\* However read and write cut a transfer short or are interrupted, no byte is lost,
\* duplicated or moved; what is returned are the whole messages in their order; the
\* end of the input is reported between messages only, and without failures after
\* the last message that can get through; what copyfile counts has been written.
\* For any messages, headers, packet and line limits, blocks and pipes.
THEOREM PipeMessagesWhole == PipeSpec => []MessagesWhole
<1> QED
  BY PipeInvariant, PipeConsequence, PTL

-----------------------------------------------------------------------------
(* PacketTools.  What is in the pipe is told by what follows each of its   *)
(* elements: the header of a packet is followed by its data, and the last  *)
(* of it by the next header.                                               *)

Following(t) == IF t[2] < typed[t[1]].length THEN <<t[1], t[2] + 1>> ELSE <<t[1] + 1, 0>>
InOrder(s) == \A i \in 1 .. Len(s) : i < Len(s) => s[i + 1] = Following(s[i])

\* What a2ts writes next, and what the reader expects to read next.
NextWritten ==
    IF a2ts.pc = "header" THEN <<a2ts.k, 0>>
    ELSE IF a2ts.left > 0 THEN <<a2ts.k, typed[a2ts.k].length - a2ts.left + 1>> ELSE <<a2ts.k + 1, 0>>
NextRead ==
    IF reader.pc = "data" /\ Len(reader.got) < typed[reader.k].length THEN <<reader.k, Len(reader.got) + 1>>
    ELSE IF reader.pc \in {"data", "show"} THEN <<reader.k + 1, 0>> ELSE <<Len(shown) + 1, 0>>
Coming == Append(pipe, NextWritten)

Token(t) == /\ t \in Nat \X Nat
            /\ t[1] \in 1 .. Len(typed) /\ t[2] <= typed[t[1]].length

PktTyped ==
    /\ tool \in {"ts2a", "ts2log"}
    /\ typed \in Seq(Packets)
    /\ a2ts \in [pc : {"type", "header", "data", "exit", "error", "killed"}, k : 0 .. Len(typed), left : Nat]
    /\ reader \in [pc : {"header", "data", "show", "exit", "error"}, k : 0 .. Len(typed), got : Seq(Nat \X Nat)]
    /\ pipe \in Seq(Nat \X Nat) /\ \A i \in 1 .. Len(pipe) : Token(pipe[i])
    /\ stack \in [1 .. BufSize -> Nat \X Nat] /\ buf \in [1 .. BufSize -> Nat \X Nat]
    /\ shown \in Seq(Seq(Nat \X Nat)) /\ Len(shown) <= Len(typed)

\* What is left to write; a packet that is not too long is not begun.
TypistKept ==
    /\ a2ts.pc \in {"type", "exit", "error"} => a2ts.left = 0
    /\ a2ts.pc \in {"header", "data", "killed"} => a2ts.k > 0 /\ a2ts.left <= typed[a2ts.k].length
    /\ a2ts.pc = "header" => a2ts.left = typed[a2ts.k].length
    /\ a2ts.pc = "data" /\ typed[a2ts.k].length <= AtomicWrite => a2ts.left = typed[a2ts.k].length
    /\ a2ts.pc = "killed" => reader.pc = "error"

ToolKept ==
    /\ reader.pc \in {"data", "show"} => /\ reader.k = Len(shown) + 1
                                         /\ Len(reader.got) <= typed[reader.k].length
                                         /\ \A j \in 1 .. Len(reader.got) : reader.got[j] = <<reader.k, j>>
    /\ reader.pc = "data" /\ tool = "ts2a" => reader.got = <<>>
    /\ reader.pc = "show" => Len(reader.got) = typed[reader.k].length
    /\ reader.pc = "exit" => ~Writing /\ pipe = <<>>

\* As long as somebody reads, what comes is what the reader expects, and then each
\* element follows the one before.
PipeInOrder == reader.pc # "error" => Coming[1] = NextRead /\ InOrder(Coming)

\* The buffer of the reader holds what the packets shown have left in it.
BufferKept == \A j \in 1 .. BufSize : IsLeft(Len(shown), j, buf[j])

PacketKept(k) ==
    IF tool = "ts2a" THEN /\ Len(shown[k]) = typed[k].length
                          /\ \A j \in 1 .. typed[k].length : shown[k][j] = <<k, j>>
    ELSE LoggedAsLeft(k)
ShownInOrder == \A k \in 1 .. Len(shown) : PacketKept(k)

ErrorsKept ==
    reader.pc = "error" => /\ Len(shown) + 1 <= Len(typed)
                           /\ \/ ~typed[Len(shown) + 1].valid
                              \/ tool = "ts2a" /\ typed[Len(shown) + 1].length > AtomicWrite

PktIInv == /\ PktTyped /\ TypistKept /\ ToolKept /\ PipeInOrder /\ BufferKept /\ ShownInOrder /\ ErrorsKept

-----------------------------------------------------------------------------
Tokens == Nat \X Nat

LEMMA PacketTypes ==
    ASSUME PktTyped
    PROVE  /\ Len(typed) \in Nat
           /\ \A k \in 1 .. Len(typed) : typed[k].length \in Nat /\ typed[k].valid \in BOOLEAN
<1>1. typed \in Seq(Packets)
  BY DEF PktTyped
<1>2. \A k \in 1 .. Len(typed) : typed[k] \in Packets
  BY <1>1, ElementOfSeq
<1>3. Len(typed) \in Nat
  BY <1>1, LenProperties
<1> QED
  BY <1>2, <1>3, PacketAssumption DEF Packets

LEMMA TypistTypes ==
    ASSUME PktTyped
    PROVE  /\ a2ts.k \in Nat /\ a2ts.left \in Nat /\ a2ts.k \in 0 .. Len(typed)
           /\ a2ts.pc \in {"type", "header", "data", "exit", "error", "killed"}
           /\ a2ts = [pc |-> a2ts.pc, k |-> a2ts.k, left |-> a2ts.left]
BY PacketTypes DEF PktTyped

LEMMA ReaderTypes ==
    ASSUME PktTyped
    PROVE  /\ reader.k \in 0 .. Len(typed) /\ reader.got \in Seq(Tokens)
           /\ Len(reader.got) \in Nat
           /\ reader.pc \in {"header", "data", "show", "exit", "error"}
           /\ reader = [pc |-> reader.pc, k |-> reader.k, got |-> reader.got]
<1>1. /\ reader.k \in 0 .. Len(typed) /\ reader.got \in Seq(Tokens)
      /\ reader.pc \in {"header", "data", "show", "exit", "error"}
      /\ reader = [pc |-> reader.pc, k |-> reader.k, got |-> reader.got]
  BY DEF PktTyped, Tokens
<1> QED
  BY <1>1, LenProperties

LEMMA NextWrittenType == ASSUME PktTyped, TypistKept PROVE NextWritten \in Tokens
<1>1. CASE a2ts.pc = "header" \/ a2ts.left = 0
  BY <1>1, TypistTypes DEF NextWritten, Tokens
<1>2. CASE a2ts.pc # "header" /\ a2ts.left # 0
  <2>1. a2ts.k \in 1 .. Len(typed) /\ a2ts.left <= typed[a2ts.k].length
    BY <1>2, TypistTypes, PacketTypes DEF TypistKept
  <2>2. typed[a2ts.k].length - a2ts.left + 1 \in Nat
    BY <2>1, TypistTypes, PacketTypes
  <2> QED
    BY <2>2, <1>2, TypistTypes DEF NextWritten, Tokens
<1> QED
  BY <1>1, <1>2

\* The elements of a sequence, and what they are when one is added.
LEMMA ComingIs ==
    ASSUME NEW s \in Seq(Tokens), NEW t \in Tokens
    PROVE  /\ Len(s) \in Nat /\ Append(s, t) \in Seq(Tokens) /\ Len(Append(s, t)) = Len(s) + 1
           /\ \A i \in 1 .. Len(s) : Append(s, t)[i] = s[i]
           /\ Append(s, t)[Len(s) + 1] = t
BY AppendProperties, LenProperties

\* PipeInOrder for the elements themselves.
LEMMA PipeOrder ==
    ASSUME PktTyped, TypistKept
    PROVE  /\ Coming \in Seq(Tokens) /\ Len(pipe) \in Nat /\ pipe \in Seq(Tokens) /\ Len(Coming) = Len(pipe) + 1
           /\ \A i \in 1 .. Len(pipe) : Coming[i] = pipe[i]
           /\ Coming[Len(pipe) + 1] = NextWritten
           /\ InOrder(Coming) <=> \A i \in 1 .. Len(pipe) : Coming[i + 1] = Following(Coming[i])
<1>1. pipe \in Seq(Tokens) /\ NextWritten \in Tokens
  BY NextWrittenType DEF PktTyped, Tokens
<1>2. /\ Coming \in Seq(Tokens) /\ Len(pipe) \in Nat /\ Len(Coming) = Len(pipe) + 1
      /\ \A i \in 1 .. Len(pipe) : Coming[i] = pipe[i]
      /\ Coming[Len(pipe) + 1] = NextWritten
  BY <1>1, ComingIs DEF Coming
<1>3. InOrder(Coming) <=> \A i \in 1 .. Len(pipe) : Coming[i + 1] = Following(Coming[i])
  BY <1>2 DEF InOrder
<1> QED
  BY <1>1, <1>2, <1>3

\* What comes after data of a packet: the data that follows it.
LEMMA DataFollows ==
    ASSUME PktTyped, NEW s \in Seq(Tokens), NEW k \in 1 .. Len(typed), NEW begun \in Nat,
           begun < typed[k].length, Len(s) > 0, s[1] = <<k, begun + 1>>, InOrder(s)
    PROVE  \A i \in 1 .. Len(s) : i <= typed[k].length - begun => s[i] = <<k, begun + i>>
<1> DEFINE Bad == {i \in 1 .. Len(s) : i <= typed[k].length - begun /\ s[i] # <<k, begun + i>>}
<1>1. SUFFICES ASSUME Bad # {} PROVE FALSE
  OBVIOUS
<1>0. Len(s) \in Nat /\ typed[k].length \in Nat
  BY LenProperties, PacketTypes
<1>2. Bad \subseteq Nat
  BY <1>0
<1>3. PICK m \in Bad : \A u \in Bad : m <= u
  BY <1>1, <1>2, LowestNumber
<1>4. m # 1
  BY <1>3
<1>5. m - 1 \in 1 .. Len(s) /\ m - 1 \in Nat /\ m \in Nat /\ m - 1 < Len(s) /\ m <= typed[k].length - begun
  BY <1>3, <1>4, <1>0
<1>6. m - 1 \notin Bad
  BY <1>3, <1>5
<1>7. s[m - 1] = <<k, begun + (m - 1)>>
  BY <1>5, <1>6, <1>0
<1>8. s[(m - 1) + 1] = Following(s[m - 1])
  BY <1>5 DEF InOrder
<1>9. begun + (m - 1) < typed[k].length /\ (begun + (m - 1)) + 1 = begun + m /\ (m - 1) + 1 = m
  BY <1>5, <1>0
<1>10. Following(<<k, begun + (m - 1)>>) = <<k, (begun + (m - 1)) + 1>>
  BY <1>9 DEF Following
<1> QED
  BY <1>3, <1>7, <1>8, <1>9, <1>10

-----------------------------------------------------------------------------
(* The steps of a2ts.                                                      *)

\* What has been shown, and the buffer, stay.
LEMMA BufferAlone ==
    ASSUME PktIInv, UNCHANGED <<tool, typed, stack, buf, shown>>
    PROVE  BufferKept' /\ ShownInOrder'
<1>1. \A k, j, byte : IsLeft(k, j, byte)' = IsLeft(k, j, byte)
  BY DEF IsLeft
<1>2. BufferKept'
  BY <1>1 DEF PktIInv, BufferKept, IsLeft
<1>3. \A k : LoggedAsLeft(k) => LoggedAsLeft(k)'
  BY <1>1 DEF LoggedAsLeft
<1>4. ShownInOrder'
  BY <1>3 DEF PktIInv, ShownInOrder, PacketKept
<1> QED
  BY <1>2, <1>4

\* They leave the reader alone.
LEMMA ReaderAlone ==
    ASSUME PktIInv, UNCHANGED <<tool, typed, reader, stack, buf, shown>>, reader.pc = "exit" => ~Writing' /\ pipe' = <<>>
    PROVE  ToolKept' /\ BufferKept' /\ ShownInOrder' /\ ErrorsKept'
<1>1. ToolKept'
  BY DEF PktIInv, ToolKept
<1>2. BufferKept' /\ ShownInOrder'
  BY BufferAlone
<1>4. ErrorsKept'
  BY DEF PktIInv, ErrorsKept
<1> QED
  BY <1>1, <1>2, <1>4

LEMMA SameOrder ==
    ASSUME PktIInv, UNCHANGED <<typed, pipe, reader, shown>>, NextWritten' = NextWritten
    PROVE  PipeInOrder'
<1>1. Coming' = Coming
  BY DEF Coming
<1>2. NextRead' = NextRead
  BY DEF NextRead
<1>3. InOrder(Coming) => InOrder(Coming)'
  BY <1>1 DEF InOrder, Following
<1> QED
  BY <1>1, <1>2, <1>3 DEF PktIInv, PipeInOrder

LEMMA TypePacketKept == ASSUME PktIInv, TypePacket PROVE PktIInv'
<1> DEFINE k == a2ts.k + 1
<1>0. PktTyped /\ TypistKept
  BY DEF PktIInv
<1>1. /\ a2ts.pc = "type" /\ a2ts.left = 0 /\ UNCHANGED <<tool, typed, pipe, reader, stack, buf, shown>>
      /\ k \in Nat /\ a2ts.k \in 0 .. Len(typed) /\ a2ts.k \in Nat /\ Len(typed) \in Nat
      /\ \/ k > Len(typed) /\ a2ts' = [pc |-> "exit", k |-> a2ts.k, left |-> 0]
         \/ k <= Len(typed) /\ a2ts' = [pc |-> "error", k |-> a2ts.k, left |-> 0]
         \/ k <= Len(typed) /\ a2ts' = [pc |-> "header", k |-> k, left |-> typed[k].length]
  <2>1. a2ts.pc = "type" /\ a2ts.left = 0 /\ UNCHANGED <<tool, typed, pipe, reader, stack, buf, shown>>
    BY <1>0 DEF TypePacket, TypistKept
  <2>2. a2ts' = IF k > Len(typed) THEN [a2ts EXCEPT !.pc = "exit"]
                ELSE IF typed[k].length >= MAX_PACK_SIZE THEN [a2ts EXCEPT !.pc = "error"]
                ELSE [pc |-> "header", k |-> k, left |-> typed[k].length]
    BY DEF TypePacket
  <2>3. a2ts = [pc |-> "type", k |-> a2ts.k, left |-> 0] /\ a2ts.k \in 0 .. Len(typed) /\ Len(typed) \in Nat
    BY <1>0, <2>1, TypistTypes, PacketTypes
  <2>4. [a2ts EXCEPT !.pc = "exit"] = [pc |-> "exit", k |-> a2ts.k, left |-> 0]
        /\ [a2ts EXCEPT !.pc = "error"] = [pc |-> "error", k |-> a2ts.k, left |-> 0]
    BY <2>3
  <2>5. k > Len(typed) \/ k <= Len(typed)
    BY <2>3
  <2> QED
    BY <2>1, <2>2, <2>3, <2>4, <2>5
<1>2. PktTyped'
  <2>1. k <= Len(typed) => typed[k].length \in Nat /\ k \in 0 .. Len(typed)
    BY <1>0, <1>1, PacketTypes
  <2>2. a2ts' \in [pc : {"type", "header", "data", "exit", "error", "killed"}, k : 0 .. Len(typed), left : Nat]
    BY <1>1, <2>1
  <2> QED
    BY <1>0, <1>1, <2>2 DEF PktTyped, Token
<1>3. TypistKept'
  <2>1. k <= Len(typed) => typed[k].length \in Nat /\ k > 0
    BY <1>0, <1>1, PacketTypes
  <2> QED
    BY <1>1, <2>1 DEF TypistKept
<1>4. NextWritten' = NextWritten
  <2>1. NextWritten = <<k, 0>>
    BY <1>1 DEF NextWritten
  <2> QED
    BY <1>1, <2>1 DEF NextWritten
<1>5. PipeInOrder'
  BY <1>1, <1>4, SameOrder
<1>6. reader.pc = "exit" => ~Writing' /\ pipe' = <<>>
  BY <1>1 DEF PktIInv, ToolKept, Writing
<1>7. ToolKept' /\ BufferKept' /\ ShownInOrder' /\ ErrorsKept'
  BY <1>1, <1>6, ReaderAlone
<1> QED
  BY <1>2, <1>3, <1>5, <1>7 DEF PktIInv

\* n more elements are written, each what was to be written next.
LEMMA MoreComing ==
    ASSUME PktIInv, UNCHANGED <<typed, reader, shown>>,
           NEW n \in Nat, NEW c, c = Coming', Len(c) = Len(pipe) + n + 1,
           \A i \in 1 .. Len(pipe) : c[i] = pipe[i],
           c[Len(pipe) + 1] = NextWritten,
           \A i \in 2 .. (n + 1) : c[Len(pipe) + i] = Following(c[Len(pipe) + (i - 1)])
    PROVE  PipeInOrder'
<1>0. PktTyped /\ TypistKept
  BY DEF PktIInv
<1>2. /\ Len(pipe) \in Nat /\ Len(Coming) = Len(pipe) + 1
      /\ \A i \in 1 .. Len(pipe) : Coming[i] = pipe[i]
      /\ Coming[Len(pipe) + 1] = NextWritten
      /\ InOrder(Coming) <=> \A i \in 1 .. Len(pipe) : Coming[i + 1] = Following(Coming[i])
  BY <1>0, PipeOrder
<1>3. /\ \A i \in 1 .. Len(pipe) : c[i] = Coming[i]
      /\ c[Len(pipe) + 1] = Coming[Len(pipe) + 1]
  BY <1>2
<1>4. NextRead' = NextRead
  BY DEF NextRead
<1>5. ASSUME reader.pc # "error"
      PROVE  c[1] = NextRead /\ \A i \in 1 .. Len(c) : i < Len(c) => c[i + 1] = Following(c[i])
  <2>1. Coming[1] = NextRead /\ \A i \in 1 .. Len(pipe) : Coming[i + 1] = Following(Coming[i])
    BY <1>2, <1>5 DEF PktIInv, PipeInOrder
  <2>2. c[1] = Coming[1]
    BY <1>2, <1>3
  <2>3. ASSUME NEW i \in 1 .. Len(c), i < Len(c)
        PROVE  c[i + 1] = Following(c[i])
    <3>1. CASE i <= Len(pipe)
      <4>1. i \in 1 .. Len(pipe) /\ (i + 1 \in 1 .. Len(pipe) \/ i + 1 = Len(pipe) + 1)
        BY <3>1, <1>2
      <4> QED
        BY <4>1, <2>1, <1>3
    <3>2. CASE i > Len(pipe)
      <4>0. PICK p \in Nat : p = Len(pipe)
        BY <1>2
      <4>1. i < p + n + 1 /\ i > p /\ i \in Nat
        BY <4>0, <3>2, <2>3
      <4>2. /\ (i + 1) - p \in 2 .. (n + 1) /\ p + ((i + 1) - p) = i + 1
            /\ p + (((i + 1) - p) - 1) = i
        BY ONLY <4>1, p \in Nat, n \in Nat
      <4> QED
        BY <4>2, <4>0
    <3> QED
      BY <3>1, <3>2, <1>2
  <2> QED
    BY <2>1, <2>2, <2>3
<1>6. reader.pc # "error" => InOrder(Coming)'
  BY <1>5 DEF InOrder, Following
<1> QED
  BY <1>4, <1>5, <1>6 DEF PipeInOrder

LEMMA WriteHeaderKept == ASSUME PktIInv, WriteHeader PROVE PktIInv'
<1> DEFINE t == <<a2ts.k, 0>>
<1>0. PktTyped /\ TypistKept
  BY DEF PktIInv
<1>1. /\ a2ts.pc = "header" /\ Reading /\ pipe' = Append(pipe, t) /\ UNCHANGED <<tool, typed, reader, stack, buf, shown>>
      /\ a2ts' = [pc |-> "data", k |-> a2ts.k, left |-> a2ts.left]
      /\ a2ts.k \in 1 .. Len(typed) /\ a2ts.left = typed[a2ts.k].length /\ a2ts.left \in Nat
  <2>1. a2ts.pc = "header" /\ Reading /\ pipe' = Append(pipe, t) /\ UNCHANGED <<tool, typed, reader, stack, buf, shown>>
        /\ a2ts' = [a2ts EXCEPT !.pc = "data"]
    BY DEF WriteHeader
  <2> QED
    BY <1>0, <2>1, TypistTypes, PacketTypes DEF TypistKept
<1>2. PICK w \in Tokens : w = Following(t)
  <2>1. Following(t) = IF 0 < typed[a2ts.k].length THEN <<a2ts.k, 0 + 1>> ELSE <<a2ts.k + 1, 0>>
    BY DEF Following
  <2>2. a2ts.k \in Nat /\ a2ts.k + 1 \in Nat /\ 0 + 1 \in Nat
    BY <1>1
  <2>3. Following(t) \in Tokens
    BY <2>1, <2>2 DEF Tokens
  <2> QED
    BY <2>3
<1>3. NextWritten' = w /\ NextWritten = t /\ t \in Tokens /\ Token(t)
  <2>1. NextWritten = t
    BY <1>1 DEF NextWritten
  <2>2. NextWritten' = IF typed[a2ts.k].length > 0 THEN <<a2ts.k, 1>> ELSE <<a2ts.k + 1, 0>>
    BY <1>1 DEF NextWritten
  <2> QED
    BY <1>1, <1>2, <2>1, <2>2 DEF Following, Tokens, Token
<1>4. /\ pipe \in Seq(Tokens) /\ Len(pipe) \in Nat
      /\ pipe' \in Seq(Tokens) /\ Len(pipe') = Len(pipe) + 1
      /\ \A i \in 1 .. Len(pipe) : pipe'[i] = pipe[i]
      /\ pipe'[Len(pipe) + 1] = t
  <2>1. pipe \in Seq(Tokens)
    BY <1>0, PipeOrder
  <2> QED
    BY <1>1, <1>3, <2>1, ComingIs
<1>5. PktTyped'
  <2>0. \A i \in 1 .. Len(pipe) : Token(pipe[i])
    BY <1>0 DEF PktTyped
  <2>1. \A i \in 1 .. Len(pipe') : Token(pipe'[i])
    <3> TAKE i \in 1 .. Len(pipe')
    <3>1. i \in 1 .. Len(pipe) \/ i = Len(pipe) + 1
      BY <1>4
    <3> QED
      BY <3>1, <2>0, <1>3, <1>4
  <2>2. a2ts' \in [pc : {"type", "header", "data", "exit", "error", "killed"}, k : 0 .. Len(typed), left : Nat]
    BY <1>1
  <2> QED
    BY <1>0, <1>1, <1>4, <2>1, <2>2 DEF PktTyped, Token, Tokens
<1>6. TypistKept'
  BY <1>1 DEF TypistKept
<1>7. PipeInOrder'
  <2>1. PICK q \in Seq(Tokens) : q = pipe'
    BY <1>4
  <2>2. PICK c : c = Append(q, w)
    OBVIOUS
  <2>3. c = Coming'
    BY <2>1, <2>2, <1>3 DEF Coming
  <2>4. Len(c) = Len(q) + 1 /\ (\A i \in 1 .. Len(q) : c[i] = q[i]) /\ c[Len(q) + 1] = w
    BY <2>2, ComingIs
  <2>5. Len(c) = Len(pipe) + 1 + 1 /\ (\A i \in 1 .. Len(pipe) : c[i] = pipe[i])
        /\ c[Len(pipe) + 1] = t /\ c[Len(pipe) + 2] = w
    BY <2>1, <2>4, <1>4
  <2>6. \A i \in 2 .. (1 + 1) : c[Len(pipe) + i] = Following(c[Len(pipe) + (i - 1)])
    BY <2>5, <1>2
  <2> QED
    BY <2>3, <2>5, <2>6, <1>1, <1>3, MoreComing
<1>8. ToolKept' /\ BufferKept' /\ ShownInOrder' /\ ErrorsKept'
  BY <1>1, ReaderAlone DEF Reading
<1> QED
  BY <1>5, <1>6, <1>7, <1>8 DEF PktIInv

LEMMA WriterKilledKept == ASSUME PktIInv, WriterKilled PROVE PktIInv'
<1>0. PktTyped /\ TypistKept
  BY DEF PktIInv
<1>1. /\ a2ts.pc \in {"header", "data"} /\ ~Reading /\ UNCHANGED <<tool, typed, pipe, reader, stack, buf, shown>>
      /\ a2ts' = [pc |-> "killed", k |-> a2ts.k, left |-> a2ts.left]
      /\ a2ts.k \in 0 .. Len(typed) /\ a2ts.left \in Nat
  <2>1. a2ts.pc \in {"header", "data"} /\ ~Reading /\ UNCHANGED <<tool, typed, pipe, reader, stack, buf, shown>>
        /\ a2ts' = [a2ts EXCEPT !.pc = "killed"]
    BY DEF WriterKilled
  <2> QED
    BY <1>0, <2>1, TypistTypes
<1>2. reader.pc = "error"
  BY <1>0, <1>1, ReaderTypes DEF PktIInv, ToolKept, Reading, Writing
<1>3. PktTyped'
  BY <1>0, <1>1 DEF PktTyped, Token
<1>4. TypistKept'
  BY <1>0, <1>1, <1>2 DEF TypistKept
<1>5. PipeInOrder'
  BY <1>1, <1>2 DEF PipeInOrder
<1>6. ToolKept' /\ BufferKept' /\ ShownInOrder' /\ ErrorsKept'
  BY <1>1, <1>2, ReaderAlone
<1> QED
  BY <1>3, <1>4, <1>5, <1>6 DEF PktIInv

LEMMA WriteDataKept == ASSUME PktIInv, WriteData PROVE PktIInv'
<1>0. PktTyped /\ TypistKept
  BY DEF PktIInv
<1>a. /\ a2ts.pc = "data" /\ Reading /\ UNCHANGED <<tool, typed, reader, stack, buf, shown>>
      /\ a2ts.k \in 1 .. Len(typed) /\ a2ts.k \in Nat /\ typed[a2ts.k].length \in Nat /\ a2ts.left \in Nat
      /\ a2ts.left <= typed[a2ts.k].length
      /\ a2ts = [pc |-> "data", k |-> a2ts.k, left |-> a2ts.left]
      /\ typed[a2ts.k].length <= AtomicWrite => a2ts.left = typed[a2ts.k].length
  BY <1>0, TypistTypes, PacketTypes DEF TypistKept, WriteData
<1>b. PICK k \in Nat, L \in Nat, unwritten \in Nat, begun \in Nat :
            k = a2ts.k /\ L = typed[k].length /\ unwritten = a2ts.left /\ begun = L - unwritten
  BY <1>a
<1>1. /\ a2ts.pc = "data" /\ Reading /\ UNCHANGED <<tool, typed, reader, stack, buf, shown>>
      /\ k \in 1 .. Len(typed) /\ unwritten <= L /\ begun = L - unwritten
      /\ a2ts = [pc |-> "data", k |-> k, left |-> unwritten]
      /\ L <= AtomicWrite => unwritten = L
  BY <1>a, <1>b
<1>2. PICK n \in IF L <= AtomicWrite THEN {unwritten} ELSE 1 .. unwritten :
            /\ pipe' = pipe \o SubSeq(Data(k), begun + 1, begun + n)
            /\ a2ts' = IF n = unwritten THEN [a2ts EXCEPT !.pc = "type", !.left = 0] ELSE [a2ts EXCEPT !.left = @ - n]
  BY <1>b DEF WriteData
<1>3. /\ n \in Nat /\ n <= unwritten /\ (n = 0 => unwritten = 0)
      /\ n < unwritten => a2ts' = [pc |-> "data", k |-> k, left |-> unwritten - n] /\ ~(L <= AtomicWrite)
      /\ n = unwritten => a2ts' = [pc |-> "type", k |-> k, left |-> 0]
  <2>0. n \in IF L <= AtomicWrite THEN {unwritten} ELSE 1 .. unwritten
    BY <1>2
  <2>1. n \in Nat /\ n <= unwritten /\ (n = 0 => unwritten = 0) /\ (n < unwritten => ~(L <= AtomicWrite) /\ n # unwritten)
    BY ONLY <2>0, unwritten \in Nat
  <2>2. n # unwritten => a2ts' = [pc |-> "data", k |-> k, left |-> unwritten - n]
    BY <1>1, <1>2
  <2>3. n = unwritten => a2ts' = [pc |-> "type", k |-> k, left |-> 0]
    BY <1>1, <1>2
  <2> QED
    BY <2>1, <2>2, <2>3
<1>4. unwritten - n \in Nat /\ (n < unwritten \/ n = unwritten)
  BY <1>1, <1>3
<1>5. PICK d : d = SubSeq(Data(k), begun + 1, begun + n)
  OBVIOUS
<1>6. d \in Seq(Tokens) /\ Len(d) = n /\ \A i \in 1 .. n : d[i] = <<k, begun + i>>
  <2>0. begun + 1 \in Int /\ begun + n \in Int /\ begun + n <= L
    BY <1>1, <1>3
  <2>1. \A i \in begun + 1 .. begun + n : Data(k)[i] = <<k, i>> /\ Data(k)[i] \in Tokens
    <3> TAKE i \in begun + 1 .. begun + n
    <3>1. i \in 1 .. L /\ i \in Nat
      BY <2>0
    <3> QED
      BY <3>1, <1>b DEF Data, Tokens
  <2>2. /\ d \in Seq(Tokens) /\ Len(d) = IF begun + 1 <= begun + n THEN (begun + n) - (begun + 1) + 1 ELSE 0
        /\ \A i \in 1 .. (begun + n) - (begun + 1) + 1 : d[i] = Data(k)[(begun + 1) + i - 1]
    <3>1. PICK f : f = Data(k)
      OBVIOUS
    <3>2. \A i \in begun + 1 .. begun + n : f[i] \in Tokens
      BY <2>1, <3>1
    <3>3. /\ SubSeq(f, begun + 1, begun + n) \in Seq(Tokens)
          /\ Len(SubSeq(f, begun + 1, begun + n)) = IF begun + 1 <= begun + n THEN (begun + n) - (begun + 1) + 1 ELSE 0
          /\ \A i \in 1 .. (begun + n) - (begun + 1) + 1 : SubSeq(f, begun + 1, begun + n)[i] = f[(begun + 1) + i - 1]
      BY ONLY <2>0, <3>2, SubSeqProperties
    <3> QED
      BY <1>5, <3>1, <3>3
  <2>3. Len(d) = n
    BY <2>2, <1>1, <1>3
  <2>4. \A i \in 1 .. n : i \in 1 .. (begun + n) - (begun + 1) + 1 /\ (begun + 1) + i - 1 = begun + i /\ begun + i \in begun + 1 .. begun + n
    BY ONLY n \in Nat, begun \in Nat
  <2> QED
    BY <2>1, <2>2, <2>3, <2>4
<1>7. pipe \in Seq(Tokens) /\ Len(pipe) \in Nat
  BY <1>0, PipeOrder
<1>8. /\ pipe' \in Seq(Tokens) /\ Len(pipe') = Len(pipe) + n
      /\ \A i \in 1 .. Len(pipe) : pipe'[i] = pipe[i]
      /\ \A i \in 1 .. n : pipe'[Len(pipe) + i] = <<k, begun + i>>
  <2>1. PICK p \in Seq(Tokens) : p = pipe
    BY <1>7
  <2>2. /\ p \o d \in Seq(Tokens) /\ Len(p \o d) = Len(p) + Len(d)
        /\ \A i \in 1 .. Len(p) + Len(d) : (p \o d)[i] = IF i <= Len(p) THEN p[i] ELSE d[i - Len(p)]
    BY <1>6, ConcatProperties
  <2>3. Len(p) \in Nat /\ pipe' = p \o d
    BY <2>1, <1>2, <1>5, <1>7
  <2>4. \A i \in 1 .. Len(p) : i \in 1 .. Len(p) + Len(d) /\ i <= Len(p)
    BY <2>3, <1>3, <1>6
  <2>5. \A i \in 1 .. n : /\ Len(p) + i \in 1 .. Len(p) + Len(d)
                          /\ ~(Len(p) + i <= Len(p)) /\ (Len(p) + i) - Len(p) = i
    BY <2>3, <1>3, <1>6
  <2> QED
    BY <2>1, <2>2, <2>3, <2>4, <2>5, <1>6
<1>9. \A i \in 1 .. n : Token(<<k, begun + i>>)
  <2> TAKE i \in 1 .. n
  <2>1. begun + i \in Nat /\ begun + i <= L
    BY <1>1, <1>3
  <2> QED
    BY <2>1, <1>1, <1>b DEF Token, Tokens
<1>10. PktTyped'
  <2>0. \A i \in 1 .. Len(pipe) : Token(pipe[i])
    BY <1>0 DEF PktTyped
  <2>1. \A i \in 1 .. Len(pipe') : Token(pipe'[i])
    <3> TAKE i \in 1 .. Len(pipe')
    <3>1. CASE i <= Len(pipe)
      <4>1. i \in 1 .. Len(pipe)
        BY <3>1, <1>7
      <4> QED
        BY <4>1, <2>0, <1>8
    <3>2. CASE i > Len(pipe)
      <4>1. i - Len(pipe) \in 1 .. n /\ Len(pipe) + (i - Len(pipe)) = i
        BY <3>2, <1>7, <1>8, <1>3
      <4>2. pipe'[i] = <<k, begun + (i - Len(pipe))>>
        BY <4>1, <1>8
      <4> QED
        BY <4>1, <4>2, <1>9
    <3> QED
      BY <3>1, <3>2, <1>7, <1>8
  <2>2. a2ts' \in [pc : {"type", "header", "data", "exit", "error", "killed"}, k : 0 .. Len(typed), left : Nat]
    BY <1>1, <1>3, <1>4
  <2> QED
    BY <1>0, <1>1, <1>8, <2>1, <2>2 DEF PktTyped, Token, Tokens
<1>11. TypistKept'
  <2>1. n < unwritten => unwritten - n <= L /\ k > 0
    BY <1>1, <1>3
  <2> QED
    BY <1>1, <1>b, <1>3, <1>4, <2>1 DEF TypistKept
<1>12. PICK w \in Tokens : w = IF n < unwritten THEN <<k, L - (unwritten - n) + 1>> ELSE <<k + 1, 0>>
  <2>1. L - (unwritten - n) + 1 \in Nat /\ k + 1 \in Nat
    BY <1>1, <1>3
  <2>2. <<k, L - (unwritten - n) + 1>> \in Tokens /\ <<k + 1, 0>> \in Tokens
    BY <2>1 DEF Tokens
  <2> QED
    BY <2>2
<1>13. NextWritten' = w
  <2>0. NextWritten' = IF a2ts'.pc = "header" THEN <<a2ts'.k, 0>> ELSE
                       IF a2ts'.left > 0 THEN <<a2ts'.k, typed[a2ts'.k].length - a2ts'.left + 1>> ELSE <<a2ts'.k + 1, 0>>
    BY <1>1 DEF NextWritten
  <2>1. CASE n < unwritten
    <3>1. unwritten - n > 0
      BY <2>1, <1>3
    <3>2. a2ts'.pc = "data" /\ a2ts'.k = k /\ a2ts'.left = unwritten - n
      BY <2>1, <1>3
    <3> QED
      BY <2>0, <2>1, <3>1, <3>2, <1>b, <1>12
  <2>2. CASE n = unwritten
    BY <2>0, <2>2, <1>3, <1>12
  <2> QED
    BY <2>1, <2>2, <1>4
<1>14. PipeInOrder'
  <2>1. PICK q \in Seq(Tokens) : q = pipe'
    BY <1>8
  <2>2. PICK c : c = Append(q, w)
    OBVIOUS
  <2>3. c = Coming'
    BY <2>1, <2>2, <1>13 DEF Coming
  <2>4. Len(c) = Len(q) + 1 /\ (\A i \in 1 .. Len(q) : c[i] = q[i]) /\ c[Len(q) + 1] = w
    BY <2>2, ComingIs
  <2>5. PICK p \in Nat : p = Len(pipe)
    BY <1>7
  <2>6. \A i \in 1 .. n : p + i \in 1 .. Len(q)
    BY <2>1, <2>5, <1>8, <1>3
  <2>7. \A i \in 1 .. p : i \in 1 .. Len(q)
    BY <2>1, <2>5, <1>8, <1>3
  <2>8. /\ Len(c) = p + n + 1 /\ (\A i \in 1 .. p : c[i] = pipe[i])
        /\ (\A i \in 1 .. n : c[p + i] = <<k, begun + i>>) /\ c[p + n + 1] = w
    BY <2>1, <2>4, <2>5, <2>6, <2>7, <1>8
  <2>9. c[p + 1] = NextWritten
    <3>1. NextWritten = IF unwritten > 0 THEN <<k, begun + 1>> ELSE <<k + 1, 0>>
      BY <1>1, <1>b DEF NextWritten
    <3>2. CASE n = 0
      BY <3>1, <3>2, <2>8, <1>3, <1>12
    <3>3. CASE n # 0
      <4>1. 1 \in 1 .. n /\ unwritten > 0
        BY <3>3, <1>3, <1>1
      <4> QED
        BY <3>1, <4>1, <2>8
    <3> QED
      BY <3>2, <3>3
  <2>10. ASSUME NEW i \in 2 .. (n + 1) PROVE c[p + i] = Following(c[p + (i - 1)])
    <3>1. i - 1 \in 1 .. n
      BY <1>3
    <3>2. c[p + (i - 1)] = <<k, begun + (i - 1)>>
      BY <3>1, <2>8
    <3>3. Following(<<k, begun + (i - 1)>>) = IF begun + (i - 1) < L THEN <<k, (begun + (i - 1)) + 1>> ELSE <<k + 1, 0>>
      BY <1>b DEF Following
    <3>4. CASE i \in 1 .. n
      <4>0. begun = L - unwritten /\ n <= unwritten /\ unwritten <= L /\ n \in Nat
        BY <1>1, <1>3
      <4>1. begun + (i - 1) < L /\ (begun + (i - 1)) + 1 = begun + i
        BY ONLY <3>4, <4>0, begun \in Nat, L \in Nat, unwritten \in Nat
      <4> QED
        BY <4>1, <3>2, <3>3, <3>4, <2>8
    <3>5. CASE i = n + 1
      <4>0. p + i = p + n + 1
        BY <3>5, <2>5, <1>3
      <4>1. c[p + i] = w
        BY <4>0, <2>8
      <4>2. /\ begun + (i - 1) < L <=> n < unwritten
            /\ (begun + (i - 1)) + 1 = L - (unwritten - n) + 1
        <5>1. begun = L - unwritten /\ n <= unwritten /\ unwritten <= L /\ n \in Nat
          BY <1>1, <1>3
        <5> QED
          BY ONLY <3>5, <5>1, begun \in Nat, L \in Nat, unwritten \in Nat
      <4> QED
        BY <4>1, <4>2, <3>2, <3>3, <1>12
    <3> QED
      BY <3>4, <3>5, <1>3
  <2> QED
    BY <2>3, <2>5, <2>8, <2>9, <2>10, <1>1, <1>3, MoreComing
<1>15. ToolKept' /\ BufferKept' /\ ShownInOrder' /\ ErrorsKept'
  BY <1>1, ReaderAlone DEF Reading
<1> QED
  BY <1>10, <1>11, <1>14, <1>15 DEF PktIInv

-----------------------------------------------------------------------------
(* The steps of ts2a and ts2log.                                           *)

\* A step of a reader that is not at its end leaves a2ts alone.
LEMMA TypistAlone ==
    ASSUME PktIInv, reader.pc # "error", UNCHANGED <<typed, a2ts>>
    PROVE  TypistKept' /\ NextWritten' = NextWritten /\ a2ts.pc # "killed"
BY DEF PktIInv, TypistKept, NextWritten

\* It takes n elements from the pipe, and then expects the next one.
LEMMA FewerComing ==
    ASSUME PktIInv, reader.pc # "error", UNCHANGED <<typed, a2ts>>,
           NEW n \in Nat, n <= Len(pipe), pipe' \in Seq(Tokens), Len(pipe') = Len(pipe) - n,
           \A i \in 1 .. (Len(pipe) - n) : pipe'[i] = pipe[n + i],
           NextRead' = Coming[n + 1]
    PROVE  PipeInOrder'
<1>0. PktTyped /\ TypistKept
  BY DEF PktIInv
<1>1. /\ Coming[1] = NextRead /\ \A i \in 1 .. Len(pipe) : Coming[i + 1] = Following(Coming[i])
      /\ Len(pipe) \in Nat /\ \A i \in 1 .. Len(pipe) : Coming[i] = pipe[i]
      /\ Coming[Len(pipe) + 1] = NextWritten
  BY <1>0, PipeOrder DEF PktIInv, PipeInOrder
<1>2. PICK q \in Seq(Tokens) : q = pipe'
  OBVIOUS
<1>3. PICK w \in Tokens : w = NextWritten
  BY <1>0, NextWrittenType
<1>4. PICK c : c = Append(q, w)
  OBVIOUS
<1>5. c = Coming'
  BY <1>2, <1>3, <1>4, TypistAlone DEF Coming
<1>6. Len(c) = Len(q) + 1 /\ (\A i \in 1 .. Len(q) : c[i] = q[i]) /\ c[Len(q) + 1] = w
  BY <1>4, ComingIs
<1>7. PICK p \in Nat : p = Len(pipe)
  BY <1>1
<1>8. n <= p /\ Len(q) = p - n /\ p - n \in Nat
  BY <1>2, <1>7
<1>9. ASSUME NEW i \in 1 .. (p - n + 1) PROVE c[i] = Coming[n + i]
  <2>1. CASE i \in 1 .. (p - n)
    <3>1. n + i \in 1 .. p
      BY <2>1, <1>8
    <3> QED
      BY <3>1, <2>1, <1>1, <1>2, <1>6, <1>7, <1>8
  <2>2. CASE i = p - n + 1
    <3>1. n + i = p + 1
      BY <2>2, <1>8
    <3> QED
      BY <3>1, <2>2, <1>1, <1>3, <1>6, <1>7, <1>8
  <2> QED
    BY <2>1, <2>2, <1>8
<1>10. c[1] = NextRead'
  BY <1>8, <1>9
<1>11. \A i \in 1 .. Len(c) : i < Len(c) => c[i + 1] = Following(c[i])
  <2> TAKE i \in 1 .. Len(c)
  <2> HAVE i < Len(c)
  <2>1. i \in 1 .. (p - n + 1) /\ i + 1 \in 1 .. (p - n + 1) /\ n + i \in 1 .. p /\ n + (i + 1) = (n + i) + 1
    BY <1>6, <1>8
  <2>2. Coming[(n + i) + 1] = Following(Coming[n + i])
    BY <2>1, <1>1, <1>7
  <2> QED
    BY <2>1, <2>2, <1>9
<1>12. InOrder(Coming)'
  BY <1>5, <1>11 DEF InOrder, Following
<1> QED
  BY <1>5, <1>10, <1>12 DEF PipeInOrder

LEMMA ReadHeaderKept == ASSUME PktIInv, ReadHeader PROVE PktIInv'
<1> DEFINE k == Len(shown) + 1
<1>0. PktTyped /\ TypistKept
  BY DEF PktIInv
<1>1. reader.pc = "header" /\ UNCHANGED <<tool, typed, a2ts, stack, buf, shown>>
  BY DEF ReadHeader
<1>2. BufferKept' /\ ShownInOrder'
  BY <1>1, BufferAlone
<1>3. TypistKept'
  BY <1>1, TypistAlone
<1>4. /\ Coming[1] = <<k, 0>> /\ \A i \in 1 .. Len(pipe) : Coming[i + 1] = Following(Coming[i])
      /\ Len(pipe) \in Nat /\ \A i \in 1 .. Len(pipe) : Coming[i] = pipe[i] /\ Token(pipe[i])
      /\ pipe \in Seq(Tokens) /\ Len(shown) \in Nat /\ Len(typed) \in Nat
  <2>1. NextRead = <<k, 0>>
    BY <1>1 DEF NextRead
  <2>2. Len(shown) \in Nat /\ Len(typed) \in Nat
    BY <1>0, LenProperties, PacketTypes DEF PktTyped
  <2> QED
    BY <1>0, <1>1, <2>1, <2>2, PipeOrder DEF PktIInv, PktTyped, PipeInOrder
<1>5. CASE pipe # <<>>
  <2>1. /\ pipe' = Tail(pipe)
        /\ reader' = IF typed[Head(pipe)[1]].valid /\ Head(pipe)[2] = 0
                     THEN [pc |-> "data", k |-> Head(pipe)[1], got |-> <<>>] ELSE [reader EXCEPT !.pc = "error"]
    BY <1>5 DEF ReadHeader
  <2>2. /\ Tail(pipe) \in Seq(Tokens) /\ Len(Tail(pipe)) = Len(pipe) - 1
        /\ \A i \in 1 .. Len(Tail(pipe)) : Tail(pipe)[i] = pipe[i + 1]
    BY <1>4, <1>5, HeadTailProperties
  <2>3. Len(pipe) > 0
    BY <1>4, <1>5, EmptySeq
  <2>4. Head(pipe) = pipe[1]
    BY <1>4
  <2>5. Head(pipe) = <<k, 0>> /\ Token(<<k, 0>>)
    BY <1>4, <2>3, <2>4
  <2>6. k \in 1 .. Len(typed)
    BY <2>5 DEF Token
  <2>7. \A i \in 1 .. Len(pipe') : Token(pipe'[i])
    BY <2>1, <2>2, <2>3, <1>4
  <2>8. CASE typed[k].valid
    <3>1. reader' = [pc |-> "data", k |-> k, got |-> <<>>]
      BY <2>1, <2>5, <2>8
    <3>2. PktTyped'
      <4>1. reader' \in [pc : {"header", "data", "show", "exit", "error"}, k : 0 .. Len(typed), got : Seq(Nat \X Nat)]
        BY <3>1, <2>6, <1>4, EmptySeq
      <4> QED
        BY <1>0, <1>1, <2>1, <2>2, <2>7, <4>1 DEF PktTyped, Token, Tokens
    <3>3. typed[k].length \in Nat
      BY <1>0, <2>6, PacketTypes
    <3>4. ToolKept'
      BY <1>1, <3>1, <3>3 DEF ToolKept
    <3>5. PipeInOrder'
      <4>1. Coming[1 + 1] = Following(<<k, 0>>)
        <5>1. 1 \in 1 .. Len(pipe)
          BY <1>4, <2>3
        <5>2. Coming[1 + 1] = Following(Coming[1])
          BY <5>1, <1>4
        <5> QED
          BY <5>2, <1>4
      <4>2. Following(<<k, 0>>) = IF 0 < typed[k].length THEN <<k, 0 + 1>> ELSE <<k + 1, 0>>
        BY DEF Following
      <4>3. NextRead' = IF 0 < typed[k].length THEN <<k, 0 + 1>> ELSE <<k + 1, 0>>
        BY <1>1, <3>1 DEF NextRead
      <4>4. 1 <= Len(pipe) /\ Len(pipe') = Len(pipe) - 1 /\ pipe' \in Seq(Tokens)
            /\ \A i \in 1 .. (Len(pipe) - 1) : pipe'[i] = pipe[1 + i]
        BY <2>1, <2>2, <2>3, <1>4
      <4>5. NextRead' = Coming[1 + 1]
        BY <4>1, <4>2, <4>3
      <4>6. reader.pc # "error" /\ UNCHANGED <<typed, a2ts>> /\ 1 \in Nat
        BY <1>1
      <4> QED
        BY <4>4, <4>5, <4>6, FewerComing
    <3>6. ErrorsKept'
      BY <3>1 DEF ErrorsKept
    <3> QED
      BY <1>2, <1>3, <3>2, <3>4, <3>5, <3>6 DEF PktIInv
  <2>9. CASE ~typed[k].valid
    <3>1. reader' = [pc |-> "error", k |-> reader.k, got |-> reader.got]
      BY <1>0, <2>1, <2>5, <2>9, ReaderTypes
    <3>2. PktTyped'
      <4>1. reader' \in [pc : {"header", "data", "show", "exit", "error"}, k : 0 .. Len(typed), got : Seq(Nat \X Nat)]
        BY <1>0, <3>1, ReaderTypes DEF Tokens
      <4> QED
        BY <1>0, <1>1, <2>1, <2>2, <2>7, <4>1 DEF PktTyped, Token, Tokens
    <3>3. ToolKept' /\ PipeInOrder'
      BY <3>1 DEF ToolKept, PipeInOrder
    <3>4. ErrorsKept'
      BY <1>1, <1>4, <2>6, <2>9 DEF ErrorsKept
    <3> QED
      BY <1>2, <1>3, <3>2, <3>3, <3>4 DEF PktIInv
  <2> QED
    BY <2>8, <2>9
<1>6. CASE pipe = <<>>
  <2>1. ~Writing /\ pipe' = pipe /\ reader' = [pc |-> "exit", k |-> reader.k, got |-> reader.got]
    BY <1>0, <1>6, ReaderTypes DEF ReadHeader
  <2>2. PktTyped'
    BY <1>0, <1>1, <2>1 DEF PktTyped, Token
  <2>3. ToolKept'
    BY <1>1, <1>6, <2>1 DEF ToolKept, Writing
  <2>4. PipeInOrder'
    <3>1. NextRead' = Coming[0 + 1]
      BY <1>1, <1>4, <2>1 DEF NextRead
    <3>2. 0 <= Len(pipe) /\ Len(pipe') = Len(pipe) - 0 /\ pipe' \in Seq(Tokens)
          /\ \A i \in 1 .. (Len(pipe) - 0) : pipe'[i] = pipe[0 + i]
      BY <1>4, <2>1
    <3>3. reader.pc # "error" /\ UNCHANGED <<typed, a2ts>> /\ 0 \in Nat
      BY <1>1
    <3> QED
      BY <3>1, <3>2, <3>3, FewerComing
  <2>5. ErrorsKept'
    BY <2>1 DEF ErrorsKept
  <2> QED
    BY <1>2, <1>3, <2>2, <2>3, <2>4, <2>5 DEF PktIInv
<1> QED
  BY <1>5, <1>6

LEMMA ReadBodyKept == ASSUME PktIInv, ReadBody PROVE PktIInv'
<1>0. PktTyped /\ TypistKept
  BY DEF PktIInv
<1>1. /\ reader.pc = "data" /\ UNCHANGED <<tool, typed, a2ts, stack, buf, shown>>
      /\ typed[reader.k].length > 0 /\ pipe = <<>> => ~Writing
  BY DEF ReadBody
<1>2. /\ reader.k = Len(shown) + 1 /\ reader.k \in 1 .. Len(typed) /\ reader.k \in Nat
      /\ typed[reader.k].length \in Nat /\ reader.got \in Seq(Tokens) /\ Len(reader.got) \in Nat
      /\ Len(reader.got) <= typed[reader.k].length
      /\ \A j \in 1 .. Len(reader.got) : reader.got[j] = <<reader.k, j>>
      /\ tool = "ts2a" => reader.got = <<>>
  <2>1. Len(shown) \in Nat /\ Len(typed) \in Nat
    BY <1>0, LenProperties, PacketTypes DEF PktTyped
  <2>2. /\ reader.k = Len(shown) + 1 /\ Len(reader.got) <= typed[reader.k].length
        /\ \A j \in 1 .. Len(reader.got) : reader.got[j] = <<reader.k, j>>
        /\ tool = "ts2a" => reader.got = <<>>
    BY <1>1 DEF PktIInv, ToolKept
  <2>3. reader.k \in 0 .. Len(typed) /\ reader.got \in Seq(Tokens) /\ Len(reader.got) \in Nat
    BY <1>0, ReaderTypes
  <2>4. reader.k \in 1 .. Len(typed) /\ reader.k \in Nat
    BY <2>1, <2>2, <2>3
  <2> QED
    BY <1>0, <2>2, <2>3, <2>4, PacketTypes
<1>3. PICK k \in Nat, L \in Nat, g \in Nat, p \in Nat :
            k = reader.k /\ L = typed[k].length /\ g = Len(reader.got) /\ p = Len(pipe)
  BY <1>0, <1>2, PipeOrder
<1>4. PICK n \in Nat : n = IF p < L - g THEN p ELSE L - g
  BY <1>2, <1>3
<1>5. g <= L /\ n <= p /\ g + n <= L /\ g + n \in Nat /\ (g + n = L \/ (g + n < L /\ n = p))
  <2>1. g <= L
    BY <1>2, <1>3
  <2> QED
    BY ONLY <2>1, <1>4, n \in Nat, p \in Nat, L \in Nat, g \in Nat
<1>6. PICK d : d = SubSeq(pipe, 1, n)
  OBVIOUS
<1>7. /\ pipe' = SubSeq(pipe, n + 1, p)
      /\ reader' = [reader EXCEPT !.got = reader.got \o d,
                       !.pc = IF Len(reader.got \o d) = L THEN "show"
                              ELSE IF tool = "ts2a" \/ pipe = <<>> THEN "error" ELSE "data"]
  <2>1. Smaller(Len(pipe), typed[reader.k].length - Len(reader.got)) = n
    BY <1>3, <1>4 DEF Smaller
  <2> QED
    BY <2>1, <1>3, <1>6 DEF ReadBody
\* What the pipe holds.
<1>8. /\ Coming[1] = NextRead /\ \A i \in 1 .. p : Coming[i + 1] = Following(Coming[i])
      /\ \A i \in 1 .. p : Coming[i] = pipe[i] /\ Token(pipe[i])
      /\ Coming[p + 1] = NextWritten /\ Coming \in Seq(Tokens) /\ Len(Coming) = p + 1
      /\ InOrder(Coming) /\ pipe \in Seq(Tokens)
  BY <1>0, <1>1, <1>3, PipeOrder DEF PktIInv, PktTyped, PipeInOrder
<1>9. /\ d \in Seq(Tokens) /\ Len(d) = n /\ \A i \in 1 .. n : d[i] = pipe[i]
      /\ pipe' \in Seq(Tokens) /\ Len(pipe') = p - n /\ \A i \in 1 .. (p - n) : pipe'[i] = pipe[n + i]
  <2>1. PICK s \in Seq(Tokens) : s = pipe
    BY <1>8
  <2>2. Len(s) = p /\ n <= Len(s) /\ 0 <= n
    BY <2>1, <1>3, <1>5
  <2>3. /\ SubSeq(s, 0 + 1, n) \in Seq(Tokens) /\ Len(SubSeq(s, 0 + 1, n)) = n - 0
        /\ \A i \in 1 .. (n - 0) : SubSeq(s, 0 + 1, n)[i] = s[0 + i]
    BY <2>2, Pieces
  <2>4. /\ SubSeq(s, n + 1, p) \in Seq(Tokens) /\ Len(SubSeq(s, n + 1, p)) = p - n
        /\ \A i \in 1 .. (p - n) : SubSeq(s, n + 1, p)[i] = s[n + i]
    BY <2>2, Pieces
  <2>5. 0 + 1 = 1 /\ n - 0 = n /\ \A i \in 1 .. n : 0 + i = i
    OBVIOUS
  <2> QED
    BY <2>1, <2>3, <2>4, <2>5, <1>6, <1>7
<1>10. ASSUME g < L PROVE \A i \in 1 .. (p + 1) : i <= L - g => Coming[i] = <<k, g + i>>
  <2>1. Coming[1] = <<k, g + 1>>
    BY <1>1, <1>3, <1>8, <1>10 DEF NextRead
  <2>2. k \in 1 .. Len(typed) /\ Len(Coming) > 0 /\ g < typed[k].length
    BY <1>2, <1>3, <1>8, <1>10
  <2>3. \A i \in 1 .. Len(Coming) : i <= typed[k].length - g => Coming[i] = <<k, g + i>>
    BY <1>0, <1>8, <2>1, <2>2, DataFollows
  <2> QED
    BY <2>3, <1>3, <1>8
<1>11. \A i \in 1 .. n : d[i] = <<k, g + i>>
  <2> TAKE i \in 1 .. n
  <2>1. g < L /\ i \in 1 .. p /\ i \in 1 .. (p + 1) /\ i <= L - g
    BY <1>5
  <2> QED
    BY <2>1, <1>8, <1>9, <1>10
<1>12. PICK whole \in Seq(Tokens) : whole = reader.got \o d
  BY <1>2, <1>9, ConcatProperties
<1>13. Len(whole) = g + n /\ \A j \in 1 .. Len(whole) : whole[j] = <<k, j>>
  <2>1. PICK r \in Seq(Tokens) : r = reader.got
    BY <1>2
  <2>a. /\ Len(r \o d) = Len(r) + Len(d)
        /\ \A i \in 1 .. Len(r) + Len(d) : (r \o d)[i] = IF i <= Len(r) THEN r[i] ELSE d[i - Len(r)]
    <3>1. d \in Seq(Tokens)
      BY <1>9
    <3> QED
      BY ONLY <3>1, r \in Seq(Tokens), ConcatProperties
  <2>b. whole = r \o d
    BY <1>12, <2>1
  <2>2. /\ Len(whole) = Len(r) + Len(d)
        /\ \A i \in 1 .. Len(r) + Len(d) : whole[i] = IF i <= Len(r) THEN r[i] ELSE d[i - Len(r)]
    BY <2>a, <2>b
  <2>3. Len(r) = g /\ Len(d) = n /\ \A j \in 1 .. g : r[j] = <<k, j>>
    BY <2>1, <1>2, <1>3, <1>9
  <2>4. \A j \in 1 .. (g + n) : whole[j] = <<k, j>>
    <3> TAKE j \in 1 .. (g + n)
    <3>1. CASE j <= g
      <4>1. j \in 1 .. g
        BY <3>1
      <4> QED
        BY <4>1, <2>2, <2>3
    <3>2. CASE j > g
      <4>1. j - g \in 1 .. n /\ g + (j - g) = j /\ ~(j <= g)
        BY <3>2
      <4> QED
        BY <4>1, <2>2, <2>3, <1>11
    <3> QED
      BY <3>1, <3>2
  <2> QED
    BY <2>2, <2>3, <2>4
<1>14. reader' = [pc |-> IF g + n = L THEN "show" ELSE IF tool = "ts2a" \/ pipe = <<>> THEN "error" ELSE "data",
                  k |-> k, got |-> whole]
  <2>1. reader = [pc |-> reader.pc, k |-> k, got |-> reader.got]
    BY <1>0, <1>3, ReaderTypes
  <2>2. reader' = [reader EXCEPT !.got = whole, !.pc = IF g + n = L THEN "show"
                              ELSE IF tool = "ts2a" \/ pipe = <<>> THEN "error" ELSE "data"]
    BY <1>7, <1>12, <1>13
  <2>3. PICK v : v = IF g + n = L THEN "show" ELSE IF tool = "ts2a" \/ pipe = <<>> THEN "error" ELSE "data"
    OBVIOUS
  <2>4. reader' = [reader EXCEPT !.got = whole, !.pc = v]
    BY <2>2, <2>3
  <2>5. PICK s : s = [reader EXCEPT !.got = whole, !.pc = v]
    OBVIOUS
  <2>6. v \in {"show", "error", "data"} /\ reader \in [pc : {"header", "data", "show", "exit", "error"}, k : 0 .. Len(typed), got : Seq(Nat \X Nat)]
    BY <1>0, <2>3 DEF PktTyped
  <2>7. s \in [pc : {"header", "data", "show", "exit", "error"}, k : 0 .. Len(typed), got : Seq(Nat \X Nat)]
    BY <2>5, <2>6 DEF Tokens
  <2>8. s = [pc |-> s.pc, k |-> s.k, got |-> s.got]
    BY <2>7
  <2>9. s.pc = v /\ s.k = k /\ s.got = whole
    BY <2>5, <2>6, <1>3
  <2> QED
    BY <2>3, <2>4, <2>5, <2>8, <2>9
<1>15. PktTyped'
  <2>1. \A i \in 1 .. Len(pipe') : Token(pipe'[i])
    <3> TAKE i \in 1 .. Len(pipe')
    <3>1. i \in 1 .. (p - n) /\ n + i \in 1 .. p
      BY <1>5, <1>9
    <3> QED
      BY <3>1, <1>8, <1>9
  <2>2. reader' \in [pc : {"header", "data", "show", "exit", "error"}, k : 0 .. Len(typed), got : Seq(Nat \X Nat)]
    <3>1. k \in 0 .. Len(typed)
      BY <1>2, <1>3
    <3> QED
      BY <1>14, <3>1 DEF Tokens
  <2> QED
    BY <1>0, <1>1, <1>9, <2>1, <2>2 DEF PktTyped, Token, Tokens
<1>16. TypistKept' /\ BufferKept' /\ ShownInOrder'
  BY <1>1, TypistAlone, BufferAlone
<1>17. CASE g + n = L
  <2>1. reader' = [pc |-> "show", k |-> k, got |-> whole]
    BY <1>14, <1>17
  <2>2. ToolKept'
    BY <2>1, <1>1, <1>2, <1>3, <1>13, <1>17 DEF ToolKept
  <2>3. NextRead' = <<k + 1, 0>>
    BY <2>1 DEF NextRead
  <2>4. Coming[n + 1] = <<k + 1, 0>>
    <3>1. CASE g = L
      <4>1. n = 0 /\ ~(g < L)
        BY <3>1, <1>17
      <4>2. NextRead = <<k + 1, 0>>
        BY <4>1, <1>1, <1>3 DEF NextRead
      <4> QED
        BY <4>1, <4>2, <1>8
    <3>2. CASE g < L
      <4>1. n \in 1 .. p /\ n \in 1 .. (p + 1) /\ n <= L - g
        BY <3>2, <1>5, <1>17
      <4>2. Coming[n] = <<k, g + n>>
        BY <4>1, <3>2, <1>10
      <4>3. Following(<<k, g + n>>) = <<k + 1, 0>>
        BY <1>3, <1>17 DEF Following
      <4> QED
        BY <4>1, <4>2, <4>3, <1>8
    <3> QED
      BY <3>1, <3>2, <1>5
  <2>5. PipeInOrder'
    BY <2>3, <2>4, <1>1, <1>3, <1>5, <1>9, FewerComing
  <2>6. ErrorsKept'
    BY <2>1 DEF ErrorsKept
  <2> QED
    BY <1>15, <1>16, <2>2, <2>5, <2>6 DEF PktIInv
<1>18. CASE g + n < L
  <2>0. n = p /\ g < L /\ g + n # L /\ n + 1 \in 1 .. (p + 1) /\ n + 1 <= L - g
    BY <1>5, <1>18
  <2>1. Coming[n + 1] = <<k, g + (n + 1)>>
    BY <2>0, <1>10
  <2>2. CASE tool = "ts2a" \/ pipe = <<>>
    <3>1. reader' = [pc |-> "error", k |-> k, got |-> whole]
      BY <1>14, <2>0, <2>2
    <3>2. ToolKept' /\ PipeInOrder'
      BY <3>1 DEF ToolKept, PipeInOrder
    <3>3. NextWritten = <<k, g + (n + 1)>>
      BY <2>0, <2>1, <1>8
    <3>4. a2ts.pc # "killed" /\ a2ts.left \in Nat /\ a2ts.pc \in {"type", "header", "data", "exit", "error", "killed"}
      BY <1>0, <1>1, TypistAlone, TypistTypes
    <3>5. a2ts.pc # "header" /\ a2ts.left > 0
      <4>1. g + (n + 1) # 0
        OBVIOUS
      <4> QED
        BY <3>3, <3>4, <4>1 DEF NextWritten
    <3>6. a2ts.pc = "data" /\ a2ts.k = k /\ L - a2ts.left + 1 = g + (n + 1)
      <4>1. NextWritten = <<a2ts.k, typed[a2ts.k].length - a2ts.left + 1>>
        BY <3>5 DEF NextWritten
      <4>2. a2ts.k = k /\ typed[a2ts.k].length - a2ts.left + 1 = g + (n + 1)
        BY <4>1, <3>3
      <4>3. a2ts.pc = "data"
        BY <1>0, <3>4, <3>5 DEF TypistKept
      <4> QED
        BY <4>2, <4>3, <1>3
    <3>7. pipe # <<>> /\ tool = "ts2a"
      <4>1. Writing /\ typed[reader.k].length > 0
        BY <3>6, <2>0, <1>3 DEF Writing
      <4> QED
        BY <4>1, <1>1, <2>2
    <3>8. g = 0 /\ p > 0
      <4>1. reader.got = <<>> /\ Len(reader.got) = 0
        BY <3>7, <1>2, EmptySeq
      <4>2. p # 0
        BY <3>7, <1>3, <1>8, EmptySeq
      <4> QED
        BY <4>1, <4>2, <1>3
    <3>9. a2ts.left # L
      <4>1. PICK unwritten \in Nat : unwritten = a2ts.left
        BY <3>4
      <4>2. L - unwritten + 1 = g + (n + 1) /\ g = 0 /\ p > 0 /\ n = p
        BY <4>1, <3>6, <3>8, <2>0
      <4>3. unwritten # L
        BY ONLY <4>2, unwritten \in Nat, L \in Nat, n \in Nat, p \in Nat
      <4> QED
        BY <4>1, <4>3
    <3>10. L > AtomicWrite
      <4>1. ~(L <= AtomicWrite)
        BY <3>6, <3>9, <1>0, <1>3 DEF TypistKept
      <4>2. AtomicWrite \in Nat
        BY PacketAssumption
      <4> QED
        BY <4>1, <4>2
    <3>11. ErrorsKept'
      <4>1. Len(shown') + 1 = k /\ k <= Len(typed')
        BY <1>0, <1>1, <1>2, <1>3, PacketTypes
      <4> QED
        BY <4>1, <3>7, <3>10, <1>1, <1>3 DEF ErrorsKept
    <3> QED
      BY <1>15, <1>16, <3>2, <3>11 DEF PktIInv
  <2>3. CASE tool # "ts2a" /\ pipe # <<>>
    <3>1. reader' = [pc |-> "data", k |-> k, got |-> whole]
      BY <1>14, <2>0, <2>3
    <3>2. ToolKept'
      BY <3>1, <2>3, <1>1, <1>2, <1>3, <1>13, <1>18 DEF ToolKept
    <3>3. NextRead' = <<k, (g + n) + 1>>
      BY <3>1, <1>1, <1>3, <1>13, <1>18 DEF NextRead
    <3>4. NextRead' = Coming[n + 1]
      <4>1. (g + n) + 1 = g + (n + 1)
        OBVIOUS
      <4> QED
        BY <4>1, <2>1, <3>3
    <3>5. PipeInOrder'
      BY <3>4, <1>1, <1>3, <1>5, <1>9, FewerComing
    <3>6. ErrorsKept'
      BY <3>1 DEF ErrorsKept
    <3> QED
      BY <1>15, <1>16, <3>2, <3>5, <3>6 DEF PktIInv
  <2> QED
    BY <2>2, <2>3
<1> QED
  BY <1>5, <1>17, <1>18

LEMMA BufferSize == BufSize \in Nat /\ MAX_PACK_SIZE \in Nat /\ MAX_PACK_SIZE <= BufSize
BY PacketAssumption DEF BufSize

\* What lprintf logs is a beginning of the buffer.
LEMMA LoggedBytes ==
    ASSUME NEW b \in [1 .. BufSize -> Tokens], NEW n \in Logged(b)
    PROVE  /\ n \in 0 .. BufSize /\ SubSeq(b, 1, n) \in Seq(Tokens) /\ Len(SubSeq(b, 1, n)) = n
           /\ \A j \in 1 .. n : SubSeq(b, 1, n)[j] = b[j]
           /\ \/ (\A j \in 1 .. n : b[j] # Zero) /\ (n < BufSize => b[n + 1] = Zero)
              \/ n = 0 /\ \A j \in 1 .. BufSize : b[j] # Zero
<1>1. BufSize \in Nat
  BY BufferSize
<1>2. n \in 0 .. BufSize /\ n \in Nat
  BY <1>1 DEF Logged
<1>3. b \in Seq(Tokens) /\ Len(b) = BufSize
  <2>1. b \in Seq(Tokens)
    BY <1>1, SeqDef
  <2>2. DOMAIN b = 1 .. BufSize
    OBVIOUS
  <2> QED
    BY <1>1, <2>1, <2>2, LenProperties
<1>4. /\ SubSeq(b, 0 + 1, n) \in Seq(Tokens) /\ Len(SubSeq(b, 0 + 1, n)) = n - 0
      /\ \A i \in 1 .. (n - 0) : SubSeq(b, 0 + 1, n)[i] = b[0 + i]
  BY <1>2, <1>3, Pieces
<1>5. 0 + 1 = 1 /\ n - 0 = n /\ \A i \in 1 .. n : i \in 1 .. (n - 0) /\ 0 + i = i
  BY <1>2
<1>6. \/ (\A j \in 1 .. n : b[j] # Zero) /\ (n < BufSize => b[n + 1] = Zero)
      \/ n = 0 /\ \A j \in 1 .. BufSize : b[j] # Zero
  BY DEF Logged
<1> QED
  BY <1>2, <1>4, <1>5, <1>6

\* Each place of the buffer holds one byte, and a byte 0 comes from the stack.
LEMMA OneByte ==
    ASSUME PktTyped, NEW k \in 0 .. Len(typed), NEW j \in 1 .. BufSize, NEW x, NEW y, IsLeft(k, j, x), IsLeft(k, j, y)
    PROVE  x = y
<1>1. k \in Nat /\ \A i \in 1 .. k : i \in Nat /\ i \in 1 .. Len(typed)
  BY PacketTypes
<1>2. j \in Nat /\ \A i \in 1 .. k : typed[i].length \in Nat
  BY <1>1, PacketTypes, BufferSize
<1>3. CASE \E i \in 1 .. k : j <= typed[i].length
  <2>1. ~(\A i \in 1 .. k : typed[i].length < j)
    BY <1>2, <1>3
  <2>2. PICK i \in 1 .. k : j <= typed[i].length /\ (\A h \in i + 1 .. k : typed[h].length < j) /\ x = <<i, j>>
    BY <2>1 DEF IsLeft
  <2>3. PICK l \in 1 .. k : j <= typed[l].length /\ (\A h \in l + 1 .. k : typed[h].length < j) /\ y = <<l, j>>
    BY <2>1 DEF IsLeft
  <2>4. ~(i < l) /\ ~(l < i)
    <3>1. i < l => l \in i + 1 .. k
      BY <1>1
    <3>2. l < i => i \in l + 1 .. k
      BY <1>1
    <3> QED
      BY <3>1, <3>2, <2>2, <2>3, <1>2
  <2>5. i = l
    BY <2>4, <1>1
  <2> QED
    BY <2>2, <2>3, <2>5
<1>4. CASE ~\E i \in 1 .. k : j <= typed[i].length
  BY <1>4 DEF IsLeft
<1> QED
  BY <1>3, <1>4

LEMMA ShowKept == ASSUME PktIInv, Show PROVE PktIInv'
<1>0. PktTyped /\ TypistKept
  BY DEF PktIInv
<1>1. /\ reader.pc = "show" /\ UNCHANGED <<tool, typed, a2ts, pipe, stack>>
      /\ reader' = [pc |-> "header", k |-> reader.k, got |-> reader.got]
  BY <1>0, ReaderTypes DEF Show
<1>2. PICK k \in Nat, L \in Nat, whole \in Seq(Tokens) :
            k = reader.k /\ L = typed[k].length /\ whole = reader.got
  <2>1. reader.k \in 1 .. Len(typed) /\ reader.k \in Nat
    BY <1>0, <1>1, ReaderTypes, PacketTypes, LenProperties DEF PktIInv, PktTyped, ToolKept
  <2> QED
    BY <1>0, <2>1, PacketTypes, ReaderTypes
<1>3. /\ k \in 1 .. Len(typed) /\ k = Len(shown) + 1 /\ Len(shown) \in Nat /\ Len(typed) \in Nat
      /\ Len(whole) = L /\ \A j \in 1 .. L : whole[j] = <<k, j>>
  <2>1. k \in 0 .. Len(typed) /\ Len(typed) \in Nat /\ Len(shown) \in Nat
    BY <1>0, <1>2, ReaderTypes, PacketTypes, LenProperties DEF PktTyped
  <2>2. k = Len(shown) + 1 /\ Len(whole) = L /\ \A j \in 1 .. Len(whole) : whole[j] = <<k, j>>
    BY <1>1, <1>2 DEF PktIInv, ToolKept
  <2> QED
    BY <2>1, <2>2
<1>4. PICK b : b = [j \in 1 .. BufSize |-> IF j <= L THEN whole[j] ELSE buf[j]]
  OBVIOUS
<1>5. buf' = b
  BY <1>2, <1>3, <1>4 DEF Show
<1>6. /\ BufSize \in Nat
      /\ b \in [1 .. BufSize -> Tokens]
      /\ \A j \in 1 .. BufSize : (j <= L => b[j] = <<k, j>>) /\ (L < j => b[j] = buf[j])
  <2>1. BufSize \in Nat
    BY BufferSize
  <2>2. ASSUME NEW j \in 1 .. BufSize
        PROVE  (j <= L => b[j] = <<k, j>>) /\ (L < j => b[j] = buf[j]) /\ b[j] \in Tokens
    <3>1. j \in Nat /\ (j <= L => j \in 1 .. L) /\ (j <= L \/ L < j) /\ (L < j => ~(j <= L))
      BY <2>1
    <3>2. b[j] = IF j <= L THEN whole[j] ELSE buf[j]
      BY <1>4
    <3>3. buf[j] \in Tokens /\ <<k, j>> \in Tokens
      BY <1>0, <3>1 DEF PktTyped, Tokens
    <3> QED
      BY <1>3, <3>1, <3>2, <3>3
  <2> QED
    BY <1>4, <2>1, <2>2
<1>7. \A j \in 1 .. BufSize : IsLeft(k, j, b[j])'
  <2> SUFFICES ASSUME NEW j \in 1 .. BufSize PROVE IsLeft(k, j, b[j])'
    OBVIOUS
  <2>1. j \in Nat
    BY <1>6
  <2>2. CASE j <= L
    <3>1. k \in 1 .. k /\ k + 1 .. k = {} /\ b[j] = <<k, j>>
      BY <1>3, <1>6, <2>2
    <3> QED
      BY <1>1, <1>2, <2>2, <3>1 DEF IsLeft
  <2>3. CASE L < j
    <3>1. b[j] = buf[j] /\ IsLeft(k - 1, j, buf[j])
      <4>1. k - 1 = Len(shown)
        BY <1>3
      <4>2. IsLeft(Len(shown), j, buf[j])
        BY DEF PktIInv, BufferKept
      <4> QED
        BY <1>6, <2>3, <4>1, <4>2
    <3>2. \A i \in 1 .. k : i = k \/ i \in 1 .. k - 1
      BY <1>3
    <3>3. \A i \in 1 .. k - 1 : i \in 1 .. k /\ \A h \in i + 1 .. k : h = k \/ h \in i + 1 .. k - 1
      BY <1>3
    <3>4. typed[k].length < j
      BY <1>2, <2>3
    <3>5. IsLeft(k, j, buf[j])
      <4>1. CASE \A i \in 1 .. k - 1 : typed[i].length < j
        <5>1. (\A i \in 1 .. k : typed[i].length < j)
          BY <3>2, <3>4, <4>1
        <5>2. buf[j] = stack[j]
          <6>1. \A i \in 1 .. k - 1 : ~(j <= typed[i].length)
            <7>1. \A i \in 1 .. k - 1 : typed[i].length \in Nat
              BY <1>0, <1>3, PacketTypes
            <7> QED
              BY <4>1, <2>1, <7>1
          <6> QED
            BY <3>1, <6>1 DEF IsLeft
        <5> QED
          BY <5>1, <5>2 DEF IsLeft
      <4>2. CASE ~\A i \in 1 .. k - 1 : typed[i].length < j
        <5>1. PICK i \in 1 .. k - 1 : j <= typed[i].length /\ (\A h \in i + 1 .. k - 1 : typed[h].length < j) /\ buf[j] = <<i, j>>
          BY <3>1, <4>2 DEF IsLeft
        <5>2. i \in 1 .. k /\ \A h \in i + 1 .. k : typed[h].length < j
          BY <3>3, <3>4, <5>1
        <5> QED
          BY <5>1, <5>2 DEF IsLeft
      <4> QED
        BY <4>1, <4>2
    <3>6. IsLeft(k, j, buf[j])'  = IsLeft(k, j, buf'[j])
      BY <1>1 DEF IsLeft
    <3> QED
      BY <3>1, <3>5, <1>1 DEF IsLeft
  <2> QED
    BY <1>2, <2>1, <2>2, <2>3
<1>8. PICK v \in Seq(Tokens) :
         /\ shown' = Append(shown, v)
         /\ tool = "ts2a" => v = whole
         /\ tool = "ts2log" => \E n \in Logged(b) : v = SubSeq(b, 1, n)
  <2>1. CASE tool = "ts2a"
    <3>1. shown' = Append(shown, whole)
      BY <2>1, <1>2 DEF Show
    <3> QED
      BY <2>1, <3>1
  <2>2. CASE tool = "ts2log"
    <3>1. PICK n \in Logged(b) : shown' = Append(shown, SubSeq(b, 1, n))
      BY <2>2, <1>5 DEF Show
    <3>2. SubSeq(b, 1, n) \in Seq(Tokens)
      BY <1>6, LoggedBytes
    <3> QED
      BY <2>2, <3>1, <3>2
  <2> QED
    BY <2>1, <2>2, <1>0 DEF PktTyped
<1>11. /\ shown' \in Seq(Seq(Tokens)) /\ Len(shown') = k
       /\ (\A i \in 1 .. (k - 1) : shown'[i] = shown[i]) /\ shown'[k] = v
  <2>1. shown \in Seq(Seq(Tokens))
    BY <1>0 DEF PktTyped, Tokens
  <2> QED
    BY <2>1, <1>3, <1>8, AppendProperties
<1>12. PktTyped'
  <2>1. reader' \in [pc : {"header", "data", "show", "exit", "error"}, k : 0 .. Len(typed), got : Seq(Nat \X Nat)]
    BY <1>0, <1>1, ReaderTypes DEF Tokens
  <2>2. Len(shown') <= Len(typed)
    BY <1>3, <1>11
  <2>3. buf' \in [1 .. BufSize -> Nat \X Nat]
    BY <1>5, <1>6 DEF Tokens
  <2> QED
    BY <1>0, <1>1, <1>11, <2>1, <2>2, <2>3 DEF PktTyped, Token, Tokens
<1>13. TypistKept'
  BY <1>1, TypistAlone
<1>14. ToolKept' /\ ErrorsKept'
  BY <1>1 DEF ToolKept, ErrorsKept
<1>15. PipeInOrder'
  <2>1. NextRead' = NextRead
    <3>1. NextRead = <<k + 1, 0>>
      BY <1>1, <1>2 DEF NextRead
    <3>2. NextRead' = <<Len(shown') + 1, 0>>
      BY <1>1 DEF NextRead
    <3> QED
      BY <3>1, <3>2, <1>11
  <2>2. Coming' = Coming /\ InOrder(Coming)' = InOrder(Coming)
    <3>1. Coming' = Coming
      BY <1>1, TypistAlone DEF Coming
    <3> QED
      BY <3>1, <1>1 DEF InOrder, Following
  <2> QED
    BY <2>1, <2>2, <1>1 DEF PktIInv, PipeInOrder
<1>16. BufferKept'
  <2>1. \A j \in 1 .. BufSize : IsLeft(k, j, b[j])' = IsLeft(Len(shown), j, buf[j])'
    BY <1>5, <1>11 DEF IsLeft
  <2> QED
    BY <1>7, <2>1 DEF BufferKept
<1>17. ShownInOrder'
  <2> SUFFICES ASSUME NEW m \in 1 .. Len(shown') PROVE PacketKept(m)'
    BY DEF ShownInOrder
  <2>1. CASE m # k
    <3>1. m \in 1 .. (k - 1) /\ m \in 1 .. Len(shown)
      BY <2>1, <1>3, <1>11
    <3>2. QED
      <4>1. shown'[m] = shown[m] /\ PacketKept(m)
        BY <3>1, <1>11 DEF PktIInv, ShownInOrder
      <4>2. \A i, j, byte : IsLeft(i, j, byte)' = IsLeft(i, j, byte)
        BY <1>1 DEF IsLeft
      <4>3. LoggedAsLeft(m) => LoggedAsLeft(m)'
        <5>1. shown'[m] = shown[m]
          BY <4>1
        <5> QED
          BY <4>2, <5>1 DEF LoggedAsLeft
      <4> QED
        BY <1>1, <4>1, <4>3 DEF PacketKept
  <2>2. CASE m = k /\ tool = "ts2a"
    <3>1. v = whole /\ Len(v) = L /\ \A j \in 1 .. L : v[j] = <<k, j>>
      BY <2>2, <1>3, <1>8
    <3> QED
      BY <2>2, <3>1, <1>1, <1>2, <1>11 DEF PacketKept
  <2>3. CASE m = k /\ tool = "ts2log"
    <3>1. PICK n \in Logged(b) : v = SubSeq(b, 1, n)
      BY <2>3, <1>8
    <3>2. /\ n \in 0 .. BufSize /\ Len(v) = n /\ \A j \in 1 .. n : v[j] = b[j]
          /\ \/ (\A j \in 1 .. n : b[j] # Zero) /\ (n < BufSize => b[n + 1] = Zero)
             \/ n = 0 /\ \A j \in 1 .. BufSize : b[j] # Zero
      BY <1>6, <3>1, LoggedBytes
    <3>3. \A j \in 1 .. n : j \in 1 .. BufSize
      BY <1>6, <3>2
    <3>4. CASE (\A j \in 1 .. n : b[j] # Zero) /\ (n < BufSize => b[n + 1] = Zero)
      <4>1. \A j \in 1 .. n : v[j] # Zero /\ IsLeft(k, j, v[j])'
        <5> SUFFICES ASSUME NEW j \in 1 .. n PROVE v[j] # Zero /\ IsLeft(k, j, v[j])'
          OBVIOUS
        <5>1. IsLeft(k, j, b[j])' /\ v[j] = b[j] /\ b[j] # Zero
          BY <1>7, <3>2, <3>3, <3>4
        <5> QED
          BY <5>1 DEF IsLeft
      <4>2. n < BufSize => IsLeft(k, n + 1, Zero)'
        <5>1. ASSUME n < BufSize PROVE IsLeft(k, n + 1, Zero)'
          <6>1. n + 1 \in 1 .. BufSize
            BY <1>6, <3>2, <5>1
          <6>2. IsLeft(k, n + 1, b[n + 1])' /\ b[n + 1] = Zero
            BY <1>7, <3>4, <5>1, <6>1
          <6> QED
            BY <6>2
        <5> QED
          BY <5>1
      <4>3. n <= BufSize
        BY <1>6, <3>2
      <4> QED
        BY <2>3, <1>1, <1>11, <3>2, <4>1, <4>2, <4>3 DEF PacketKept, LoggedAsLeft
    <3>5. CASE n = 0 /\ \A j \in 1 .. BufSize : b[j] # Zero
      <4>1. v = <<>>
        BY <3>2, <3>5, EmptySeq
      <4>2. \A j \in 1 .. BufSize : ~IsLeft(k, j, Zero)'
        <5> SUFFICES ASSUME NEW j \in 1 .. BufSize, IsLeft(k, j, Zero)' PROVE FALSE
          OBVIOUS
        <5>1. IsLeft(k, j, Zero) /\ IsLeft(k, j, b[j])
          BY <1>1, <1>7 DEF IsLeft
        <5>2. k \in 0 .. Len(typed)
          BY <1>3
        <5>3. Zero = b[j]
          BY <1>0, <5>1, <5>2, OneByte
        <5> QED
          BY <5>3, <3>5
      <4> QED
        BY <2>3, <1>1, <1>11, <4>1, <4>2 DEF PacketKept, LoggedAsLeft
    <3> QED
      BY <3>2, <3>4, <3>5
  <2> QED
    BY <2>1, <2>2, <2>3, <1>0 DEF PktTyped
<1> QED
  BY <1>12, <1>13, <1>14, <1>15, <1>16, <1>17 DEF PktIInv

-----------------------------------------------------------------------------
LEMMA PktInitKept == PacketsInit => PktIInv
<1> SUFFICES ASSUME PacketsInit PROVE PktIInv
  OBVIOUS
<1>1. /\ tool \in {"ts2a", "ts2log"} /\ pipe = <<>> /\ shown = <<>> /\ buf = stack
      /\ stack \in [1 .. BufSize -> Nat \X Nat]
      /\ a2ts = [pc |-> "type", k |-> 0, left |-> 0] /\ reader = [pc |-> "header", k |-> 0, got |-> <<>>]
  BY PacketAssumption DEF PacketsInit, Zero, Junk
<1>2. typed \in Seq(Packets) /\ Len(typed) \in Nat
  <2>1. PICK n \in 0 .. MaxPackets : typed \in [1 .. n -> Packets]
    BY DEF PacketsInit
  <2>2. n \in Nat
    BY PacketAssumption
  <2>3. typed \in Seq(Packets)
    BY <2>1, <2>2, SeqDef
  <2> QED
    BY <2>3, LenProperties
<1>3. Len(<<>>) = 0 /\ \A S : <<>> \in Seq(S)
  BY EmptySeq
<1>4. PktTyped
  <2>1. reader \in [pc : {"header", "data", "show", "exit", "error"}, k : 0 .. Len(typed), got : Seq(Nat \X Nat)]
    BY <1>1, <1>2, <1>3
  <2> QED
    BY <1>1, <1>2, <1>3, <2>1 DEF PktTyped
<1>5. TypistKept /\ ToolKept /\ ShownInOrder /\ ErrorsKept
  BY <1>1, <1>3 DEF TypistKept, ToolKept, ShownInOrder, ErrorsKept
<1>6. BufferKept
  BY <1>1, <1>3 DEF BufferKept, IsLeft
<1>7. PipeInOrder
  <2>1. NextWritten = <<1, 0>> /\ NextRead = <<1, 0>>
    BY <1>1, <1>3 DEF NextWritten, NextRead
  <2>2. /\ Len(Coming) = 1 /\ Coming[1] = NextWritten
    BY <1>1, <1>3, <1>4, <1>5, PipeOrder
  <2>3. InOrder(Coming)
    BY <2>2 DEF InOrder
  <2> QED
    BY <2>1, <2>2, <2>3 DEF PipeInOrder
<1> QED
  BY <1>4, <1>5, <1>6, <1>7 DEF PktIInv

LEMMA PktStepKept == PktIInv /\ [PacketsNext]_packetvars => PktIInv'
<1> SUFFICES ASSUME PktIInv, [PacketsNext]_packetvars PROVE PktIInv'
  OBVIOUS
<1>1. CASE TypePacket
  BY <1>1, TypePacketKept
<1>2. CASE WriteHeader
  BY <1>2, WriteHeaderKept
<1>3. CASE WriteData
  BY <1>3, WriteDataKept
<1>4. CASE WriterKilled
  BY <1>4, WriterKilledKept
<1>5. CASE ReadHeader
  BY <1>5, ReadHeaderKept
<1>6. CASE ReadBody
  BY <1>6, ReadBodyKept
<1>7. CASE Show
  BY <1>7, ShowKept
<1>8. CASE UNCHANGED packetvars
  <2>1. UNCHANGED <<tool, typed, a2ts, pipe, reader, stack, buf, shown>>
    BY <1>8 DEF packetvars
  <2>2. PktTyped' /\ TypistKept' /\ NextWritten' = NextWritten
    BY <2>1 DEF PktIInv, PktTyped, Token, TypistKept, NextWritten
  <2>3. PipeInOrder'
    BY <2>1, <2>2, SameOrder
  <2>4. ToolKept' /\ BufferKept' /\ ShownInOrder' /\ ErrorsKept'
    BY <2>1, ReaderAlone DEF PktIInv, ToolKept, Writing
  <2> QED
    BY <2>2, <2>3, <2>4 DEF PktIInv
<1> QED
  BY <1>1, <1>2, <1>3, <1>4, <1>5, <1>6, <1>7, <1>8 DEF PacketsNext, TypistStep, ToolStep

LEMMA PktInvariant == PacketsSpec => []PktIInv
BY PktInitKept, PktStepKept, PTL DEF PacketsSpec

LEMMA PktConsequence == PktIInv => PacketsShown
<1> SUFFICES ASSUME PktIInv PROVE PacketsShown
  OBVIOUS
<1>0. PktTyped /\ TypistKept
  BY DEF PktIInv
<1>1. Len(shown) \in Nat /\ Len(typed) \in Nat /\ Len(shown) <= Len(typed) /\ DOMAIN shown = 1 .. Len(shown)
      /\ shown \in Seq(Seq(Tokens))
  BY <1>0, PacketTypes, LenProperties DEF PktTyped, Tokens
<1>2. ASSUME NEW k \in DOMAIN shown
      PROVE  IF tool = "ts2a" THEN shown[k] = Data(k) ELSE LoggedAsLeft(k)
  <2>1. k \in 1 .. Len(shown) /\ k \in 1 .. Len(typed) /\ k \in Nat
    BY <1>1
  <2>2. PICK s \in Seq(Tokens) : s = shown[k]
    BY <1>1, <2>1, ElementOfSeq
  <2>3. PICK L \in Nat : L = typed[k].length
    BY <1>0, <2>1, PacketTypes
  <2>4. PacketKept(k)
    BY <2>1 DEF PktIInv, ShownInOrder
  <2>5. PICK e : e = Data(k)
    OBVIOUS
  <2>6. e = [j \in 1 .. L |-> <<k, j>>]
    BY <2>3, <2>5 DEF Data
  <2>7. e \in Seq(Tokens) /\ Len(e) = L /\ \A j \in 1 .. L : e[j] = <<k, j>>
    <3>1. \A j \in 1 .. L : <<k, j>> \in Tokens
      BY <2>1 DEF Tokens
    <3>2. e \in [1 .. L -> Tokens]
      BY <2>6, <3>1
    <3>3. e \in Seq(Tokens)
      BY <3>2, SeqDef
    <3> QED
      BY <2>6, <3>3, LenProperties
  <2>8. ASSUME tool = "ts2a" PROVE s = e
    <3>1. Len(s) = L /\ \A j \in 1 .. L : s[j] = <<k, j>>
      BY <2>2, <2>3, <2>4, <2>8 DEF PacketKept
    <3>2. \A j \in 1 .. Len(s) : s[j] = e[j]
      BY <2>7, <3>1
    <3> QED
      BY <3>1, <3>2, <2>7, SeqEqual
  <2> QED
    BY <2>2, <2>4, <2>5, <2>8 DEF PacketKept
<1>3. reader.pc = "exit" => Len(shown) = a2ts.k
  <2> SUFFICES ASSUME reader.pc = "exit" PROVE Len(shown) = a2ts.k
    OBVIOUS
  <2>1. NextRead = <<Len(shown) + 1, 0>>
    BY DEF NextRead
  <2>2. ~Writing /\ a2ts.left = 0 /\ a2ts.pc # "header"
    BY <1>0, TypistTypes DEF PktIInv, ToolKept, TypistKept, Writing
  <2>3. NextWritten = <<a2ts.k + 1, 0>>
    BY <2>2 DEF NextWritten
  <2>4. pipe = <<>>
    BY DEF PktIInv, ToolKept
  <2>5. Len(pipe) = 0 /\ 0 + 1 = 1
    BY <2>4
  <2>6. Coming[1] = NextWritten /\ Coming[1] = NextRead
    BY <1>0, <2>5, PipeOrder DEF PktIInv, PipeInOrder
  <2> QED
    BY <2>1, <2>3, <2>6, <1>0, <1>1, TypistTypes
<1>4. reader.pc = "error" => LET p == typed[Len(shown) + 1] IN ~p.valid \/ (tool = "ts2a" /\ p.length > AtomicWrite)
  BY DEF PktIInv, ErrorsKept
<1> QED
  BY <1>2, <1>3, <1>4 DEF PacketsShown

\* For all packets, room in the pipe and sizes, and whatever was on the stack of the
\* reader: ts2a shows the packets in their order and whole; ts2log shows after each what
\* earlier packets and the stack have left in its buffer, up to the first byte 0, and where
\* there is none it may show nothing; a reader fails only at a packet of an invalid type
\* or, ts2a, at one too long to be written at once.
THEOREM PacketsAreShown == PacketsSpec => []PacketsShown
BY PktInvariant, PktConsequence, PTL
=============================================================================
