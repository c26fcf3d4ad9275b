------------------------------- MODULE Timers -------------------------------
(***************************************************************************)
(* chapter09/abstime.c with the handler of abstimelib.c: a timer expires   *)
(* numtimes times, and main suspends until the handler sets exitflag.  The *)
(* timer is relative (the handler starts it again), absolute (again, for a *)
(* time computed from the last one) or periodic (it starts itself).        *)
(*                                                                         *)
(* The signal is blocked only while its handler runs.  Whenever it arrives *)
(* is right for a timer that may be late by any time, so that there is no  *)
(* clock; the times an absolute timer is set to are timespecs of Billion   *)
(* nanoseconds to the second.                                              *)
(***************************************************************************)
EXTENDS Naturals

CONSTANTS
    Billion,
    MaxTimes,       \* bound of numtimes
    Incs,           \* inctime, as timespecs: positive, for zero disarms
    Starts,         \* currenttime at the start, likewise
    TimerKinds      \* subset of {"relative", "absolute", "periodic"}

ASSUME BillionAssumption == Billion \in Nat \ {0}
ASSUME TimesAssumption == Incs \cup Starts \subseteq [sec : Nat, nsec : 0..(Billion - 1)]
ASSUME MaxTimesAssumption == MaxTimes \in Nat
ASSUME TimerKindsAssumption == TimerKinds \subseteq {"relative", "absolute", "periodic"}

VARIABLES
    tkind, tfaults, numtimes, inctime, tstart,      \* constant
    tpc,                    \* main: setup, test, call, suspend, end; call
                            \* is before sigsuspend has unblocked anything
    armed, alarm,           \* is the timer running; SIGALRM pending
    hpc,                    \* the handler: none, spin or settime
    timesentered, exitflag,
    itvalue,                \* tvalue.it_value
    raced                   \* ghost: exitflag was set after main tested it

tchoice == <<tkind, tfaults, numtimes, inctime, tstart>>
tvars == <<tchoice, tpc, armed, alarm, hpc, timesentered, exitflag, itvalue, raced>>

TimerInit ==
    /\ tkind \in TimerKinds /\ tfaults \in {{}, {"spin", "settime"}}
    /\ numtimes \in 1..MaxTimes /\ inctime \in Incs /\ tstart \in Starts
    /\ tpc = "setup" /\ armed = FALSE /\ alarm = FALSE /\ hpc = "none"
    /\ timesentered = 0 /\ exitflag = FALSE
    /\ itvalue = inctime /\ raced = FALSE

Plus(s, t) == [sec |-> s.sec + t.sec, nsec |-> s.nsec + t.nsec]
Carried(t) == IF t.nsec >= Billion THEN [sec |-> t.sec + 1, nsec |-> t.nsec - Billion] ELSE t

\* Mutant of AddToTime: the nanoseconds are not carried.
AddToTimeNoCarry(t, tm) == Plus(t, tm)

\* add_to_time carries in a loop; both addends are below a second.
AddToTime(t, tm) == Carried(Plus(t, tm))

-----------------------------------------------------------------------------
(* main.                                                                   *)

\* An absolute timer is set from the current time.
StartTimer ==
    /\ tpc = "setup"
    /\ itvalue' = IF tkind = "absolute" THEN Carried(Plus(inctime, tstart)) ELSE inctime
    /\ tpc' \in {"test"} \cup IF "settime" \in tfaults THEN {"end"} ELSE {}
    /\ armed' = (tpc' = "test")
    /\ UNCHANGED <<tchoice, alarm, hpc, timesentered, exitflag, raced>>

TestExit ==
    /\ tpc = "test" /\ hpc = "none"
    /\ tpc' = IF exitflag THEN "end" ELSE "call"
    /\ UNCHANGED <<tchoice, armed, alarm, hpc, timesentered, exitflag, itvalue, raced>>

CallSigsuspend ==
    /\ tpc = "call" /\ hpc = "none"
    /\ tpc' = "suspend"
    /\ UNCHANGED <<tchoice, armed, alarm, hpc, timesentered, exitflag, itvalue, raced>>

-----------------------------------------------------------------------------
(* The timer and its handler.                                              *)

\* SIGALRM does not queue: while it is pending an expiration only overruns.
Expire ==
    /\ armed /\ tpc # "end"
    /\ alarm' = TRUE
    /\ armed' = (tkind = "periodic")
    /\ UNCHANGED <<tchoice, tpc, hpc, timesentered, exitflag, itvalue, raced>>

SetExit(b) == exitflag' = (exitflag \/ b) /\ raced' = (raced \/ (b /\ tpc = "call"))

\* The handler returns, and sigsuspend with it.
Return == hpc' = "none" /\ tpc' = IF tpc = "suspend" THEN "test" ELSE tpc

\* Counts above numtimes are not told apart.
EnterHandler ==
    /\ alarm /\ hpc = "none" /\ tpc \in {"test", "call", "suspend"}
    /\ alarm' = FALSE
    /\ timesentered' = IF timesentered < numtimes THEN timesentered + 1 ELSE timesentered
    /\ SetExit(timesentered' >= numtimes)
    /\ IF timesentered' >= numtimes THEN Return ELSE hpc' = "spin" /\ UNCHANGED tpc
    /\ UNCHANGED <<tchoice, armed, itvalue>>

\* A failing spin sets exitflag and the handler goes on.
Spin ==
    /\ hpc = "spin"
    /\ \E failed \in {FALSE, "spin" \in tfaults} : SetExit(failed)
    /\ IF tkind = "periodic" THEN Return ELSE hpc' = "settime" /\ UNCHANGED tpc
    /\ UNCHANGED <<tchoice, armed, alarm, timesentered, itvalue>>

Settime ==
    /\ hpc = "settime"
    /\ itvalue' = IF tkind = "absolute" THEN AddToTime(itvalue, inctime) ELSE itvalue
    /\ \E failed \in {FALSE, "settime" \in tfaults} :
          /\ armed' = ~failed
          /\ SetExit(failed)
    /\ Return
    /\ UNCHANGED <<tchoice, alarm, timesentered>>

TimerMain == StartTimer \/ TestExit \/ CallSigsuspend
TimerHandler == EnterHandler \/ Spin \/ Settime
TimerNext == TimerMain \/ TimerHandler \/ Expire

TimerSpec == TimerInit /\ [][TimerNext]_tvars

-----------------------------------------------------------------------------
(* Properties.                                                             *)

Nanoseconds(t) == t.sec * Billion + t.nsec

\* Until exitflag is set there is always another expiration to come, so that a
\* suspended main is woken again.  The times of an absolute timer are the exact
\* multiples of inctime after the start, however late each handler runs, and
\* proper timespecs.  main ends only when it should; a main that sleeps although
\* exitflag is set was overtaken by the last signal between its test and
\* sigsuspend, which do not block it, or has a timer that wakes it.
TimerGoesOn ==
    /\ tpc \in {"test", "call", "suspend"} /\ ~exitflag => armed \/ alarm \/ hpc # "none"
    /\ tkind = "absolute" /\ tpc \notin {"setup", "end"} =>
           /\ itvalue.nsec < Billion
           /\ \E k \in 1..MaxTimes :
                 /\ Nanoseconds(itvalue) = Nanoseconds(tstart) + k * Nanoseconds(inctime)
                 /\ armed => k = timesentered + 1
    /\ tpc = "end" /\ tfaults = {} => timesentered >= numtimes
    /\ tpc = "suspend" /\ exitflag /\ hpc = "none" => raced
=============================================================================
