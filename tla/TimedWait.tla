----------------------------- MODULE TimedWait ------------------------------
(***************************************************************************)
(* appendixB/restart.c: readtimed waits for a descriptor with waitfdtimed  *)
(* until a deadline from add2currenttime, and reads.  A signal interrupts  *)
(* select any number of times; each time gettimeout computes what is left. *)
(* chapter04/readtimed1.c has another readtimed ("readtimed1"): it keeps   *)
(* when it started and for how long, and fixtimeout computes what is left. *)
(*                                                                         *)
(* Time is counted in microseconds, Million to the second; timevals are    *)
(* pairs as in the code.  Another process may read the data first.         *)
(*                                                                         *)
(* wpc: idle; gettimeout, before the clock is read; select, before select  *)
(* is called; selecting, in it; read, in r_read; etime, failed, done.      *)
(***************************************************************************)
EXTENDS Integers

CONSTANTS
    Million,    \* microseconds in a second
    Waits,      \* the times a caller may ask for: [sec, usec], usec <= Million
    MaxClock,   \* bound: the clock stops here, after the last deadline
    TimedKinds  \* subset of {"readtimed", "readtimed1"}

ASSUME MillionAssumption == Million \in Nat \ {0}
ASSUME WaitsAssumption == Waits \subseteq [sec : Nat, usec : 0..Million]
ASSUME MaxClockAssumption == MaxClock \in Nat
ASSUME TimedKindsAssumption == TimedKinds \subseteq {"readtimed", "readtimed1"}

VARIABLES
    timedkind,          \* constant: the function
    clock, wpc,
    wend,               \* end of waitfdtimed
    start, timeoutsave, \* of readtimed1
    wtimeout,           \* timeout
    due,                \* when the select under way times out
    ready,              \* is there something to read
    asked               \* ghost: the instant gettimeout has read

waitargs == <<timedkind, wend, start, timeoutsave>>
waitvars == <<waitargs, clock, wpc, wtimeout, due, ready, asked>>

Timeval(t) == [sec |-> t \div Million, usec |-> t % Million]
Microseconds(tv) == tv.sec * Million + tv.usec

WaitInit ==
    /\ timedkind \in TimedKinds
    /\ clock = 0 /\ wpc = "idle"
    /\ wend = Timeval(0) /\ start = Timeval(0) /\ timeoutsave = Timeval(0)
    /\ wtimeout = Timeval(0) /\ due = 0
    /\ ready = FALSE /\ asked = 0

\* The corrections after an addition and after a subtraction.
Carry(tv) == IF tv.usec >= Million THEN [sec |-> tv.sec + 1, usec |-> tv.usec - Million] ELSE tv

\* Mutant of Borrow: the seconds are left as they are.
BorrowNothing(tv) == IF tv.usec < 0 THEN [sec |-> tv.sec, usec |-> tv.usec + Million] ELSE tv

Borrow(tv) == IF tv.usec < 0 THEN [sec |-> tv.sec - 1, usec |-> tv.usec + Million] ELSE tv

\* The fraction is rounded to the nearest microsecond, at most to Million.
Add2currenttime(seconds) ==
    LET now == Timeval(clock) IN
    Carry([sec |-> now.sec + seconds.sec, usec |-> now.usec + seconds.usec])

Readtimed ==
    /\ wpc = "idle" /\ timedkind = "readtimed"
    /\ \E seconds \in Waits :
          /\ clock + Microseconds(seconds) < MaxClock
          /\ wend' = Add2currenttime(seconds)
    /\ wpc' = "gettimeout"
    /\ UNCHANGED <<timedkind, start, timeoutsave, clock, wtimeout, due, ready, asked>>

\* Without a time to wait it reads at once.
Readtimed1 ==
    /\ wpc = "idle" /\ timedkind = "readtimed1"
    /\ \E seconds \in Waits :
          /\ clock + Microseconds(seconds) < MaxClock
          /\ IF Microseconds(seconds) = 0
             THEN wpc' = "read" /\ UNCHANGED <<start, timeoutsave, wtimeout, asked>>
             ELSE /\ start' = Timeval(clock) /\ asked' = clock
                  /\ timeoutsave' = Carry(seconds) /\ wtimeout' = Carry(seconds)
                  /\ wpc' = "select"
    /\ UNCHANGED <<timedkind, wend, clock, due, ready>>

\* Mutant of Fixtimeout: it starts from the timeout computed last.
FixtimeoutAgain ==
    LET now == Timeval(clock) IN
    Borrow(Carry([sec |-> start.sec - now.sec + wtimeout.sec,
                  usec |-> start.usec - now.usec + wtimeout.usec]))

Fixtimeout ==
    LET now == Timeval(clock) IN
    Borrow(Carry([sec |-> start.sec - now.sec + timeoutsave.sec,
                  usec |-> start.usec - now.usec + timeoutsave.usec]))

\* What gettimeout and fixtimeout compute.
Remaining ==
    LET now == Timeval(clock) IN
    IF timedkind = "readtimed1" THEN Fixtimeout
    ELSE Borrow(Carry([sec |-> wend.sec - now.sec, usec |-> wend.usec - now.usec]))

Gettimeout ==
    /\ wpc = "gettimeout"
    /\ wtimeout' = Remaining
    /\ wpc' = IF \/ Remaining.sec < 0
                 \/ Remaining.sec = 0 /\ Remaining.usec = 0
              THEN "etime" ELSE "select"
    /\ asked' = clock
    /\ UNCHANGED <<waitargs, clock, due, ready>>

\* A select that would time out after MaxClock times out there.
Capped(t) == IF t > MaxClock THEN MaxClock ELSE t

\* select refuses a timeval that is not normalized.
Select ==
    /\ wpc = "select"
    /\ IF wtimeout.sec >= 0 /\ wtimeout.usec \in 0..(Million - 1)
       THEN wpc' = "selecting" /\ due' = Capped(clock + Microseconds(wtimeout))
       ELSE wpc' = "failed" /\ UNCHANGED due
    /\ UNCHANGED <<waitargs, clock, wtimeout, ready, asked>>

\* Mutant of SelectInterrupted: the same timeout is used again.
SelectStartsOver ==
    /\ wpc = "selecting"
    /\ wpc' = "select"
    /\ UNCHANGED <<waitargs, clock, wtimeout, due, ready, asked>>

SelectInterrupted ==
    /\ wpc = "selecting"
    /\ wpc' = "gettimeout"
    /\ UNCHANGED <<waitargs, clock, wtimeout, due, ready, asked>>

SelectReturns ==
    /\ wpc = "selecting"
    /\ \/ ready /\ wpc' = "read"
       \/ ~ready /\ clock >= due /\ wpc' = "etime"
    /\ UNCHANGED <<waitargs, clock, wtimeout, due, ready, asked>>

SelectFails ==
    /\ wpc = "selecting"
    /\ wpc' = "failed"
    /\ UNCHANGED <<waitargs, clock, wtimeout, due, ready, asked>>

\* r_read blocks when somebody else has taken what select reported.
Read ==
    /\ wpc = "read" /\ ready
    /\ ready' = FALSE
    /\ wpc' = "done"
    /\ UNCHANGED <<waitargs, clock, wtimeout, due, asked>>

Again ==
    /\ wpc \in {"etime", "failed", "done"}
    /\ wpc' = "idle"
    /\ UNCHANGED <<waitargs, clock, wtimeout, due, ready, asked>>

Tick == clock < MaxClock /\ clock' = clock + 1 /\ UNCHANGED <<waitargs, wpc, wtimeout, due, ready, asked>>

\* Data come, or another reader of the descriptor takes them.
DataChange == ready' = ~ready /\ UNCHANGED <<waitargs, clock, wpc, wtimeout, due, asked>>

WaitNext ==
    \/ Readtimed \/ Readtimed1 \/ Gettimeout \/ Select \/ Read \/ Again
    \/ SelectReturns \/ SelectInterrupted \/ SelectFails
    \/ Tick \/ DataChange

WaitSpec == WaitInit /\ [][WaitNext]_waitvars

-----------------------------------------------------------------------------
(* Properties.                                                             *)

WaitTypeOK ==
    /\ clock \in 0..MaxClock
    /\ wpc \in {"idle", "gettimeout", "select", "selecting", "read", "etime", "failed", "done"}
    /\ wend.usec \in 0..(Million - 1)

Deadline ==
    IF timedkind = "readtimed1" THEN Microseconds(start) + Microseconds(timeoutsave)
    ELSE Microseconds(wend)

\* The timeout handed to select is exactly the time left, in a form select
\* accepts, after any number of interruptions; ETIME is not reported before the
\* deadline has passed.
DeadlineKept ==
    /\ wpc \in {"select", "selecting"} =>
           /\ wtimeout.usec \in 0..(Million - 1) /\ wtimeout.sec >= 0
           /\ asked + Microseconds(wtimeout) = Deadline
    /\ wpc = "etime" => clock >= Deadline

InWaitfdtimed == wpc \in {"gettimeout", "select", "selecting"}
=============================================================================
