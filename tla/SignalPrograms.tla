-------------------------- MODULE SignalPrograms ----------------------------
(***************************************************************************)
(* Programs of chapters 6, 8 and 9 that a signal may reach at any moment:  *)
(* each is the sequence of the calls of its roles, and the signal acts     *)
(* between two of them by its handler, or ends the program.  Also the      *)
(* programs that change the modes of the terminal and have to restore them.*)
(* sigaction and sigprocmask do not fail.                                  *)
(***************************************************************************)
EXTENDS SignalWait, Sequences

CONSTANTS
    SigScripts,     \* the programs to choose from
    MaxSends,       \* bound on the signals sent
    MaxCount        \* COUNT of timesignals

VARIABLES
    sg,             \* constant: the program
    mishap,         \* whether a call may still fail
    arrivals,       \* signals sent
    me,             \* the process: role, at, mask, old, handler, life, suspended
    raised,         \* pending signals
    world           \* what the program works on, see Fresh

sgvars == <<sg, mishap, arrivals, me, raised, world>>

Sigs == {"INT", "USR1", "ALRM"}

-----------------------------------------------------------------------------
(* The steps.                                                              *)

S(op, v) == [op |-> op, v |-> v, else |-> "failed"]
Ignored(step) == [step EXCEPT !.else = "next"]
OrElse(step, role) == [step EXCEPT !.else = role]
Handler(sig, h) == S("handle", [sig |-> sig, h |-> h])
BlockSigs(set) == S("block", set)
UnblockSigs(set) == S("unblock", set)
SetMask(which) == S("setmask", which)       \* "all", or "old": the one before
Suspend(set) == S("suspend", set)
Sigwait(set) == S("sigwait", set)
Pause == S("pause", 0)
To(role) == S("to", role)
While(var, role) == S("while", [flag |-> var, role |-> role])       \* to role as long as var is off
Perhaps(role) == S("perhaps", role)
Set(field, value) == S("set", [field |-> field, value |-> value])   \* may fail when it is a call

\* chapter08
results == <<BlockSigs({"USR1"}), Set("buf", "half"), Set("buf", "whole"), SetMask("old")>>
averagesin == [main |-> <<Handler("USR1", "write"), To("calculate")>>,
               calculate |-> results \o <<Perhaps("calculate"), To("last")>>, last |-> results]
signalterminate == [main |-> <<Handler("INT", "flag"), To("loop")>>, loop |-> <<While("flag", "loop")>>]

\* Mutant of sigjmp: jumpok is set before sigsetjmp.
sigjmpEarly == [main |-> <<Handler("INT", "jump"), Set("flag", TRUE), S("setjmp", 0), To("loop")>>, loop |-> <<Pause>>]

sigjmp == [main |-> <<Handler("INT", "jump"), S("setjmp", 0), Set("flag", TRUE), To("loop")>>, loop |-> <<Pause>>]
blocktest == [main |-> <<To("loop")>>, loop |-> <<BlockSigs({"INT"}), UnblockSigs({"INT"}), To("loop")>>]
countsignals == [main |-> <<BlockSigs({"USR1"}), To("loop")>>, loop |-> <<Sigwait({"USR1"}), Set("count", 1), To("loop")>>]

\* wait_for_signal: its flag, which nothing sets, is tested once with all signals blocked,
\* then a suspension that lets only this signal through; it has no handler.
sigsuspendtest1 == [main |-> <<SetMask("all"), While("flag", "suspend"), SetMask("old")>>,
                    suspend |-> <<Suspend(Sigs \ {"USR1"}), SetMask("old")>>]
\* Here the flag is a local variable that no handler sets.
sigsuspendtest2 == [main |-> <<Handler("USR1", "flag"), BlockSigs({"USR1"}), To("loop")>>, loop |-> <<Suspend({}), To("loop")>>]
sigsuspendtest3 == [main |-> <<Handler("USR1", "flag"), BlockSigs({"USR1"}), To("loop")>>, loop |-> <<Suspend({}), To("loop")>>]

makepair == [main |-> <<SetMask("all"), OrElse(Set("fifo1", TRUE), "undo"), OrElse(Set("fifo2", TRUE), "undo"), SetMask("old")>>,
             undo |-> <<Ignored(Set("fifo1", FALSE)), Ignored(Set("fifo2", FALSE)), SetMask("old"), To("failed")>>]
blockchild == [main |-> <<SetMask("all"), S("forkexec", 0), SetMask("old"), S("r_wait", 0)>>]
dontblockchild == [main |-> <<S("forkexec", 0), S("r_wait", 0)>>]

\* setecho changes nothing when it fails.
setecho(on) == Set("echo", on)
password == [main |-> <<S("open", 0), BlockSigs({"INT"}), OrElse(setecho(FALSE), "undo"),
                        OrElse(S("prompt", 0), "finish"), OrElse(S("readline", 0), "finish"), To("finish")>>,
             undo |-> <<SetMask("old"), Ignored(S("close", 0)), To("failed")>>,
             finish |-> <<Ignored(setecho(TRUE)), SetMask("old"), Ignored(S("close", 0))>>]

\* chapter06
passwordnosigs == [main |-> <<S("open", 0), OrElse(setecho(FALSE), "finish"),
                              OrElse(S("prompt", 0), "finish"), OrElse(S("readline", 0), "finish"), To("finish")>>,
                   finish |-> <<Ignored(setecho(TRUE)), Ignored(S("prompt", 0)), Ignored(S("close", 0))>>]
ttysetchar == Set("chars", "changed")
setnoncanonical == <<OrElse(S("open", 0), "on"), OrElse(Set("canonical", FALSE), "on"), OrElse(ttysetchar, "on"),
                     OrElse(ttysetchar, "on"), Ignored(S("close", 0)), To("on")>>
gettermios == <<S("open", 0), S("tcgetattr", 0), S("close", 0)>>
settermios == <<S("open", 0), Set("canonical", TRUE), S("close", 0)>>
setnoncanonicaltest == [main |-> <<Ignored(S("readline", 0))>> \o gettermios \o <<To("set")>>, set |-> setnoncanonical,
                        on |-> <<Ignored(S("readline", 0))>> \o settermios \o <<Ignored(S("readline", 0))>>]

\* chapter09
periodicmessage == [main |-> <<Handler("ALRM", "nothing"), S("timer", 0), To("loop")>>, loop |-> <<Pause>>]
periodicasterisk == [main |-> <<Handler("ALRM", "nothing"), S("timer", 0), To("loop")>>, loop |-> <<Pause>>]
timesignals == [main |-> <<Handler("ALRM", "count"), BlockSigs({"ALRM"}), Suspend({}), To("loop")>>,
                loop |-> <<S("counted", "rest"), Suspend({}), To("loop")>>, rest |-> <<>>]

Programs == [averagesin |-> averagesin, signalterminate |-> signalterminate, sigjmp |-> sigjmp, blocktest |-> blocktest,
             countsignals |-> countsignals, sigsuspendtest1 |-> sigsuspendtest1, sigsuspendtest2 |-> sigsuspendtest2,
             sigsuspendtest3 |-> sigsuspendtest3, makepair |-> makepair, blockchild |-> blockchild,
             dontblockchild |-> dontblockchild, password |-> password, passwordnosigs |-> passwordnosigs,
             setnoncanonicaltest |-> setnoncanonicaltest, periodicmessage |-> periodicmessage,
             periodicasterisk |-> periodicasterisk, timesignals |-> timesignals]

ASSUME SigScriptsAssumption == SigScripts \subseteq DOMAIN Programs /\ MaxCount \in Nat

-----------------------------------------------------------------------------
(* buf: the result string of averagesin; flag: doneflag, jumpok or         *)
(* sigreceived; fifo1, fifo2: the pair; echo, canonical, chars: the        *)
(* terminal; timer: armed; kid: the child and its mask; wrong: a handler   *)
(* found what it should not.                                               *)
FreshWorld == [buf |-> "whole", flag |-> FALSE, count |-> 0, fifo1 |-> FALSE, fifo2 |-> FALSE, echo |-> TRUE, canonical |-> TRUE,
               chars |-> "old", timer |-> FALSE, jump |-> 0, kid |-> "none", kidmask |-> {}, wrong |-> FALSE]

SigProgInit ==
    /\ sg \in SigScripts /\ mishap = TRUE /\ arrivals = 0 /\ raised = {}
    /\ me = [role |-> "main", at |-> 1, mask |-> {}, old |-> {}, suspended |-> FALSE, life |-> "run",
             handler |-> [s \in Sigs |-> "default"]]
    /\ world = FreshWorld

Code == IF me.role = "failed" THEN <<>> ELSE Programs[sg][me.role]
Running == me.life = "run" /\ me.at <= Len(Code)
This == Code[me.at]
Does(op) == Running /\ This.op = op /\ UNCHANGED <<sg, mishap, arrivals>>
Go == me' = [me EXCEPT !.at = @ + 1]
Plays(role) == me' = [me EXCEPT !.role = role, !.at = 1]

CallFails ==
    /\ Running /\ mishap /\ mishap' = FALSE
    /\ This.op \in {"open", "prompt", "readline", "tcgetattr", "timer"} \/ (This.op = "set" /\ This.v.field \notin {"buf", "flag", "count"})
    /\ IF This.else = "next" THEN Go ELSE Plays(This.else)
    /\ UNCHANGED <<sg, arrivals, raised, world>>

Install == /\ Does("handle") /\ me' = [me EXCEPT !.at = @ + 1, !.handler[This.v.sig] = This.v.h] /\ UNCHANGED <<raised, world>>
ChangeMask ==
    /\ \/ Does("block") /\ me' = [me EXCEPT !.at = @ + 1, !.old = me.mask, !.mask = @ \cup This.v]
       \/ Does("unblock") /\ me' = [me EXCEPT !.at = @ + 1, !.mask = @ \ This.v]
       \/ Does("setmask") /\ me' = [me EXCEPT !.at = @ + 1, !.old = me.mask, !.mask = IF This.v = "all" THEN Sigs ELSE me.old]
    /\ UNCHANGED <<raised, world>>

\* Mutant of StartSuspend: pause in its place, the mask stays.
StartPause ==
    /\ Does("suspend") /\ ~me.suspended
    /\ me' = [me EXCEPT !.suspended = TRUE, !.old = me.mask] /\ UNCHANGED <<raised, world>>

\* The mask is replaced and restored by the call itself.
StartSuspend ==
    /\ Does("suspend") /\ ~me.suspended
    /\ me' = [me EXCEPT !.suspended = TRUE, !.old = me.mask, !.mask = This.v] /\ UNCHANGED <<raised, world>>

TakeSignal ==
    /\ Does("sigwait") /\ raised \cap This.v # {} /\ raised' = raised \ This.v /\ Go /\ UNCHANGED world

SetField ==
    /\ Does("set") /\ Go /\ UNCHANGED raised
    /\ world' = IF This.v.field = "count" THEN [world EXCEPT !.count = @ + 1] ELSE [world EXCEPT ![This.v.field] = This.v.value]

Control ==
    /\ \/ Does("to") /\ Plays(This.v)
       \/ Does("while") /\ IF world.flag THEN Go ELSE Plays(This.v.role)
       \/ Does("perhaps") /\ (Go \/ Plays(This.v))
       \/ Does("counted") /\ IF world.count > MaxCount THEN Plays(This.v) ELSE Go
       \/ (\E op \in {"open", "prompt", "readline", "tcgetattr", "close"} : Does(op)) /\ Go
       \/ Does("r_wait") /\ world.kid \in {"end", "killed"} /\ Go
    /\ UNCHANGED <<raised, world>>

\* sigsetjmp saves the place and the mask; siglongjmp returns to them.
ArmAndFork ==
    /\ \/ Does("setjmp") /\ world' = [world EXCEPT !.jump = me.at + 1]
       \/ Does("timer") /\ world' = [world EXCEPT !.timer = TRUE]
       \/ Does("forkexec") /\ world' = [world EXCEPT !.kid = "run", !.kidmask = me.mask]
    /\ Go /\ UNCHANGED raised

Finish == /\ me.life = "run" /\ me.at > Len(Code) /\ me' = [me EXCEPT !.life = "end"] /\ UNCHANGED <<sg, mishap, arrivals, raised, world>>

ProgramStep == Install \/ ChangeMask \/ StartSuspend \/ TakeSignal \/ SetField \/ Control \/ ArmAndFork \/ Finish

-----------------------------------------------------------------------------
(* The signals.  One that is pending already is not queued.                *)

\* INT comes from the terminal and reaches the child, too.
SignalArrives(sig) ==
    /\ me.life = "run" /\ arrivals < MaxSends /\ arrivals' = arrivals + 1 /\ raised' = raised \cup {sig}
    /\ sig = "ALRM" => world.timer \/ sg = "timesignals"
    /\ world' = IF sig = "INT" /\ world.kid = "run" /\ "INT" \notin world.kidmask THEN [world EXCEPT !.kid = "killed"] ELSE world
    /\ UNCHANGED <<sg, mishap, me>>

Returned == IF me.suspended THEN [me EXCEPT !.suspended = FALSE, !.mask = me.old, !.at = @ + 1] ELSE me
Deliver(sig) ==
    /\ me.life = "run" /\ sig \in raised \ me.mask /\ raised' = raised \ {sig}
    /\ LET h == me.handler[sig] IN
       /\ me' = CASE h = "default" -> [me EXCEPT !.life = sig]
                  [] h = "jump" /\ world.flag /\ world.jump # 0 -> [me EXCEPT !.role = "main", !.at = world.jump]
                  [] OTHER -> Returned
       /\ world' = CASE h = "flag" -> [world EXCEPT !.flag = TRUE]
                     [] h = "count" -> [world EXCEPT !.count = @ + 1]
                     [] h = "write" -> [world EXCEPT !.wrong = @ \/ world.buf = "half"]
                     [] h = "jump" -> [world EXCEPT !.wrong = @ \/ (world.flag /\ world.jump = 0)]
                     [] OTHER -> world
    /\ UNCHANGED <<sg, mishap, arrivals>>

KidEnds == /\ world.kid = "run" /\ world' = [world EXCEPT !.kid = "end"] /\ UNCHANGED <<sg, mishap, arrivals, me, raised>>

SigProgNext == ProgramStep \/ CallFails \/ KidEnds \/ \E sig \in Sigs : SignalArrives(sig) \/ Deliver(sig)
SigProgSpec == SigProgInit /\ [][SigProgNext]_sgvars

-----------------------------------------------------------------------------
(* Properties.                                                             *)

\* Whenever a signal comes: averagesin writes only a complete result; sigjmp jumps only
\* where sigsetjmp was called; makepair leaves both FIFOs or none; password is
\* neither left nor interrupted from the terminal with the echo off, unless turning it
\* on fails, and passwordnosigs is not left so; setnoncanonicaltest restores the mode if nothing failed; no
\* signal of the timer ends a program that started one; the child of blockchild is
\* protected by the mask it inherits; timesignals ends after COUNT + 1 signals.
SignalsHarmless ==
    /\ ~world.wrong
    /\ sg = "makepair" /\ me.life # "run" /\ mishap => world.fifo1 = world.fifo2
    /\ sg = "password" /\ me.life \in {"INT", "end"} /\ mishap => world.echo
    /\ sg \in {"passwordnosigs", "password"} /\ me.life = "end" => world.echo \/ ~mishap
    /\ sg = "setnoncanonicaltest" /\ me.life = "end" /\ mishap => world.canonical
    /\ ~(world.timer /\ me.life = "ALRM")
    /\ sg = "blockchild" => world.kid # "killed"
    /\ sg = "timesignals" /\ me.life = "end" => world.count > MaxCount
    /\ sg = "countsignals" => world.count <= arrivals

\* No notification is lost between the test of a flag and sigsuspend (notifyonoff,
\* simplesuspend), and no handler or jump harms what the program was doing.
SignalsKept == NoSignalLost /\ SignalsHarmless

\* A signal that is to end a loop, or a suspension, does: the loop of signalterminate by
\* its handler, the suspension of wait_for_signal in sigsuspendtest1 by the default action;
\* a program that reads its terminal or waits for its child ends.
SignalDue == \/ sg = "signalterminate" /\ world.flag
             \/ sg \in {"makepair", "password", "passwordnosigs", "setnoncanonicaltest", "blockchild", "dontblockchild"}
             \/ sg = "sigsuspendtest1" /\ "USR1" \in raised
=============================================================================
