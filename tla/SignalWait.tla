----------------------------- MODULE SignalWait -----------------------------
(***************************************************************************)
(* Two ways of chapter08 to wait for a signal without missing it:          *)
(*                                                                         *)
(*   "notify"   notifyonoff.c: one signal turns notifyflag on, another     *)
(*              off; waitnotifyon returns when it is on;                   *)
(*   "suspend"  simplesuspend.c, called by simplesuspendtest.c: initsuspend*)
(*              installs the handler, simplesuspend waits for one signal,  *)
(*              restore takes the handler away.                            *)
(*                                                                         *)
(* A signal is pending until its handler runs, which it does between any   *)
(* two steps of the program unless the signal is blocked; sent again in the*)
(* meantime, it is still pending once.  A handler blocks all the signals   *)
(* it shares data with, so that it is one step.                            *)
(***************************************************************************)
EXTENDS Naturals

CONSTANTS
    MaxSignals,     \* bound: signals sent
    MaxWaits,       \* bound: calls of waitnotifyon or simplesuspend
    SigKinds        \* subset of {"notify", "suspend"}

ASSUME SigKindsAssumption == SigKinds \subseteq {"notify", "suspend"}

VARIABLES
    sigkind, callerblocks,  \* constant; does the caller block them already
    npc,                    \* uninit, idle, test, suspend, woken, clear or
                            \* restore; dead: killed by a signal
    flag,                   \* notifyflag or sigreceived
    blocked, pending,       \* are the signals blocked; those pending
    sends, waits,           \* for the bounds
    unanswered              \* ghost: caught since a wait last ended

sigchoice == <<sigkind, callerblocks>>
sigvars == <<sigchoice, npc, flag, blocked, pending, sends, waits, unanswered>>

Signals == IF sigkind = "notify" THEN {"on", "off"} ELSE {"usr1"}

SignalInit ==
    /\ sigkind \in SigKinds /\ callerblocks \in BOOLEAN
    /\ npc = "uninit" /\ flag = (sigkind = "notify")
    /\ blocked = callerblocks /\ pending = {}
    /\ sends = 0 /\ waits = 0 /\ unanswered = FALSE

\* Another process sends a signal; the program has started once it is set up.
Send(s) ==
    /\ npc \notin {"uninit", "dead"} \/ (waits > 0 /\ npc = "uninit")
    /\ sends < MaxSignals /\ sends' = sends + 1
    /\ pending' = pending \cup {s}
    /\ UNCHANGED <<sigchoice, npc, flag, blocked, waits, unanswered>>

-----------------------------------------------------------------------------
(* Delivery.                                                               *)

\* sigsuspend unblocks the signals, until the handlers that run have returned.
Unblocked == ~blocked \/ npc \in {"suspend", "woken"}
HandlerSet == npc # "uninit"

\* turnon, turnoff and catcher.
Handle(s) ==
    /\ s \in pending /\ Unblocked /\ HandlerSet
    /\ pending' = pending \ {s}
    /\ flag' = (s # "off")
    /\ unanswered' = TRUE
    /\ npc' = IF npc = "suspend" THEN "woken" ELSE npc
    /\ UNCHANGED <<sigchoice, blocked, sends, waits>>

\* Without its handler the signal ends the process.
Terminate ==
    /\ pending # {} /\ Unblocked /\ ~HandlerSet
    /\ npc' = "dead"
    /\ pending' = {}
    /\ UNCHANGED <<sigchoice, flag, blocked, sends, waits, unanswered>>

\* Some other signal, caught elsewhere, ends sigsuspend; when one of these is
\* pending too, its handler runs all the same.
OtherSignal ==
    /\ npc = "suspend" /\ pending = {}
    /\ npc' = "woken"
    /\ UNCHANGED <<sigchoice, flag, blocked, pending, sends, waits, unanswered>>

-----------------------------------------------------------------------------
(* The program.                                                            *)

\* initnotify, initsuspend.
Initialize ==
    /\ npc = "uninit" /\ waits < MaxWaits
    /\ npc' = "idle"
    /\ UNCHANGED <<sigchoice, flag, blocked, pending, sends, waits, unanswered>>

\* Mutant of Block: the signals stay as they were.
BlockNothing ==
    /\ npc = "idle" /\ waits < MaxWaits
    /\ waits' = waits + 1
    /\ npc' = "test"
    /\ UNCHANGED <<sigchoice, flag, blocked, pending, sends, unanswered>>

\* waitnotifyon and simplesuspend block the signals.
Block ==
    /\ npc = "idle" /\ waits < MaxWaits
    /\ waits' = waits + 1
    /\ blocked' = TRUE
    /\ npc' = "test"
    /\ UNCHANGED <<sigchoice, flag, pending, sends, unanswered>>

TestFlag ==
    /\ npc = "test"
    /\ npc' = IF ~flag THEN "suspend" ELSE IF sigkind = "notify" THEN "restore" ELSE "clear"
    /\ unanswered' = (unanswered /\ ~flag)
    /\ UNCHANGED <<sigchoice, flag, blocked, pending, sends, waits>>

SuspendReturns ==
    /\ npc = "woken"
    /\ npc' = "test"
    /\ UNCHANGED <<sigchoice, flag, blocked, pending, sends, waits, unanswered>>

ClearReceived ==
    /\ npc = "clear"
    /\ flag' = FALSE
    /\ npc' = "restore"
    /\ UNCHANGED <<sigchoice, blocked, pending, sends, waits, unanswered>>

RestoreMask ==
    /\ npc = "restore"
    /\ blocked' = callerblocks
    /\ npc' = "idle"
    /\ UNCHANGED <<sigchoice, flag, pending, sends, waits, unanswered>>

\* restore, of simplesuspend.c.
RestoreHandler ==
    /\ npc = "idle" /\ sigkind = "suspend" /\ waits > 0
    /\ npc' = "uninit"
    /\ UNCHANGED <<sigchoice, flag, blocked, pending, sends, waits, unanswered>>

WaiterStep == Initialize \/ TestFlag \/ SuspendReturns \/ ClearReceived \/ RestoreMask
Delivery == Terminate \/ \E s \in Signals : Handle(s)

SignalNext ==
    \/ WaiterStep \/ Delivery \/ OtherSignal \/ Block \/ RestoreHandler
    \/ \E s \in Signals : Send(s)
SignalSpec == SignalInit /\ [][SignalNext]_sigvars

-----------------------------------------------------------------------------
(* Properties.                                                             *)

\* The program never sleeps while the flag it waits for is on; it never goes
\* on while that flag is off; and no signal caught by simplesuspend's handler
\* is forgotten when sigreceived is cleared, so that the next wait returns at
\* once.
NoSignalLost ==
    /\ npc = "suspend" => ~flag
    /\ npc = "restore" /\ sigkind = "notify" => flag
    /\ sigkind = "suspend" /\ unanswered => flag

\* A wait that ought to end: its flag is on, or simplesuspend's signal pending.
DueToWake ==
    /\ npc \in {"test", "suspend", "woken"}
    /\ flag \/ (sigkind = "suspend" /\ pending # {})
Waiting == npc \in {"test", "suspend", "woken"}
=============================================================================
