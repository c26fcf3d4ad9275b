--------------------------- MODULE ComputeThreads ---------------------------
(***************************************************************************)
(* computethreadmain.c and computethreadsig.c of chapter13: threads add    *)
(* values to a shared sum until the done flag is set, by main after a sleep*)
(* or by a thread that waits for SIGUSR1; main joins them and shows the    *)
(* results.  Each object (sum, done flag, global error, random numbers) has*)
(* a mutex of its own and is used in one critical section per call, which  *)
(* is one step here; but add writes sum and count one after the other.     *)
(***************************************************************************)
EXTENDS Naturals, FiniteSets

CONSTANTS
    ComputeSet,     \* the compute threads
    MaxAdds,        \* bound: values added while the flag is off
    CallFaults      \* calls that may fail: "rand", "sumlock", "donelock",
                    \* "errorlock", "create", "join", "sigwait"

VARIABLES
    bysignal,       \* constant: computethreadsig
    failing,        \* constant: the calls that may fail
    cmain,          \* init, create, sleep, setdone, join, show; shown, exit1
    cthr,           \* unborn, rand, add, count, getdone, end, gone
    leaving,        \* thread -> why it leaves the loop: "done" or "error"
    sthr,           \* signalthread: unborn, wait, setdone, gone, failed
    usr1,           \* SIGUSR1: none, pending, taken
    doneflag, globalerror, sum, count

compvars == <<bysignal, failing, cmain, cthr, leaving, sthr, usr1, doneflag, globalerror, sum, count>>

ComputeInit ==
    /\ bysignal \in BOOLEAN /\ failing \in {F \in SUBSET CallFaults : Cardinality(F) <= 2}
    /\ cmain = (IF bysignal THEN "init" ELSE "create")
    /\ cthr = [t \in ComputeSet |-> "unborn"] /\ leaving = [t \in ComputeSet |-> "done"]
    /\ sthr = "unborn" /\ usr1 = "none"
    /\ doneflag = FALSE /\ globalerror = FALSE /\ sum = 0 /\ count = 0

MayFail(call) == call \in failing
Left == cmain \in {"shown", "exit1"}        \* main has returned: no thread goes on

-----------------------------------------------------------------------------
(* globalerror.c, doneflag.c, sharedsum.c, randsafe.c as they are called.  *)

\* The first error stays; nothing is recorded when errorlock fails.
seterror == \/ globalerror' = TRUE
            \/ MayFail("errorlock") /\ UNCHANGED globalerror

Break(t) == cthr' = [cthr EXCEPT ![t] = "end"] /\ leaving' = [leaving EXCEPT ![t] = "error"]

randsafe(t) ==
    /\ cthr[t] = "rand"
    /\ \/ cthr' = [cthr EXCEPT ![t] = "add"] /\ UNCHANGED leaving
       \/ MayFail("rand") /\ Break(t)
    /\ UNCHANGED <<bysignal, failing, cmain, sthr, usr1, doneflag, globalerror, sum, count>>

AddError(t) ==
    /\ cthr[t] = "add" /\ MayFail("sumlock")
    /\ seterror /\ Break(t)
    /\ UNCHANGED <<bysignal, failing, cmain, sthr, usr1, doneflag, sum, count>>

\* sumlock is held between the two.
AddSum(t) ==
    /\ cthr[t] = "add" /\ \A u \in ComputeSet : cthr[u] # "count"
    /\ sum < MaxAdds \/ doneflag
    /\ sum' = sum + 1 /\ cthr' = [cthr EXCEPT ![t] = "count"]
    /\ UNCHANGED <<bysignal, failing, cmain, leaving, sthr, usr1, doneflag, globalerror, count>>

AddCount(t) ==
    /\ cthr[t] = "count"
    /\ count' = count + 1 /\ cthr' = [cthr EXCEPT ![t] = "getdone"]
    /\ UNCHANGED <<bysignal, failing, cmain, leaving, sthr, usr1, doneflag, globalerror, sum>>

getdone(t) ==
    /\ cthr[t] = "getdone"
    /\ \/ cthr' = [cthr EXCEPT ![t] = IF doneflag THEN "end" ELSE "rand"] /\ UNCHANGED leaving
       \/ MayFail("donelock") /\ Break(t)
    /\ UNCHANGED <<bysignal, failing, cmain, sthr, usr1, doneflag, globalerror, sum, count>>

\* Mutant of ComputeEnds: the error is not recorded.
EndUnrecorded(t) ==
    /\ cthr[t] = "end" /\ cthr' = [cthr EXCEPT ![t] = "gone"]
    /\ UNCHANGED <<bysignal, failing, cmain, leaving, sthr, usr1, doneflag, globalerror, sum, count>>

\* seterror(error) and the end of computethread.
ComputeEnds(t) ==
    /\ cthr[t] = "end" /\ cthr' = [cthr EXCEPT ![t] = "gone"]
    /\ IF leaving[t] = "error" THEN seterror ELSE UNCHANGED globalerror
    /\ UNCHANGED <<bysignal, failing, cmain, leaving, sthr, usr1, doneflag, sum, count>>

ComputeStep(t) == randsafe(t) \/ AddError(t) \/ AddSum(t) \/ AddCount(t) \/ getdone(t) \/ ComputeEnds(t)

-----------------------------------------------------------------------------
(* signalthread.c.                                                         *)

\* signalthreadinit blocks SIGUSR1 before it creates the thread.
signalthreadinit ==
    /\ cmain = "init"
    /\ \/ cmain' = "create" /\ sthr' = "wait"
       \/ MayFail("create") /\ cmain' = "exit1" /\ UNCHANGED sthr
    /\ UNCHANGED <<bysignal, failing, cthr, leaving, usr1, doneflag, globalerror, sum, count>>

\* The user sends SIGUSR1 when the program asks for it.
SendUsr1 ==
    /\ bysignal /\ usr1 = "none" /\ cmain = "join" /\ usr1' = "pending"
    /\ UNCHANGED <<bysignal, failing, cmain, cthr, leaving, sthr, doneflag, globalerror, sum, count>>

signalthread ==
    /\ sthr = "wait"
    /\ \/ usr1 = "pending" /\ usr1' = "taken" /\ sthr' = "setdone" /\ UNCHANGED globalerror
       \/ MayFail("sigwait") /\ sthr' = "failed" /\ seterror /\ UNCHANGED usr1
    /\ UNCHANGED <<bysignal, failing, cmain, cthr, leaving, doneflag, sum, count>>

\* seterror(setdone()).
SignalSetdone ==
    /\ sthr = "setdone"
    /\ \/ doneflag' = TRUE /\ sthr' = "gone" /\ UNCHANGED globalerror
       \/ MayFail("donelock") /\ sthr' = "failed" /\ seterror /\ UNCHANGED doneflag
    /\ UNCHANGED <<bysignal, failing, cmain, cthr, leaving, usr1, sum, count>>

-----------------------------------------------------------------------------
(* main.                                                                   *)

MainFails(call) == MayFail(call) /\ cmain' = "exit1"

CreateCompute ==
    /\ cmain = "create"
    /\ \/ \E t \in ComputeSet : cthr[t] = "unborn" /\ cthr' = [cthr EXCEPT ![t] = "rand"] /\ UNCHANGED cmain
       \/ /\ \A t \in ComputeSet : cthr[t] # "unborn"
          /\ cmain' = (IF bysignal THEN "join" ELSE "sleep") /\ UNCHANGED cthr
       \/ MainFails("create") /\ UNCHANGED cthr
    /\ UNCHANGED <<bysignal, failing, leaving, sthr, usr1, doneflag, globalerror, sum, count>>

\* computethreadmain: sleep, then setdone.
MainSetdone ==
    /\ cmain = "sleep"
    /\ \/ doneflag' = TRUE /\ cmain' = "join"
       \/ MainFails("donelock") /\ UNCHANGED doneflag
    /\ UNCHANGED <<bysignal, failing, cthr, leaving, sthr, usr1, globalerror, sum, count>>

JoinCompute ==
    /\ cmain = "join"
    /\ \/ (\A t \in ComputeSet : cthr[t] = "gone") /\ cmain' = "show"
       \/ MainFails("join")
    /\ UNCHANGED <<bysignal, failing, cthr, leaving, sthr, usr1, doneflag, globalerror, sum, count>>

showresults ==
    /\ cmain = "show"
    /\ cmain' = IF globalerror THEN "exit1" ELSE "shown"
    /\ UNCHANGED <<bysignal, failing, cthr, leaving, sthr, usr1, doneflag, globalerror, sum, count>>

ShowFails ==
    /\ cmain = "show" /\ (MainFails("sumlock") \/ MainFails("errorlock"))
    /\ UNCHANGED <<bysignal, failing, cthr, leaving, sthr, usr1, doneflag, globalerror, sum, count>>

SumMain == signalthreadinit \/ CreateCompute \/ MainSetdone \/ JoinCompute \/ showresults \/ ShowFails
SignalSide == signalthread \/ SignalSetdone
SumNext == ~Left /\ (SumMain \/ SignalSide \/ SendUsr1 \/ \E t \in ComputeSet : ComputeStep(t))
SumSpec == ComputeInit /\ [][SumNext]_compvars

-----------------------------------------------------------------------------
(* Properties.                                                             *)

\* Results are shown only when every thread went on until the done flag was set,
\* unless the call that records an error failed itself; and they are of as
\* many values as were added.
ShownIsComplete ==
    cmain = "shown" =>
        /\ "errorlock" \notin failing => \A t \in ComputeSet : leaving[t] = "done"
        /\ (\E t \in ComputeSet : leaving[t] = "done") => doneflag
        /\ sum = count

\* The program ends, computethreadsig when its signal is sent and unless its
\* signal thread failed: then nothing ever sets the done flag.
ComputeDue == (bysignal /\ usr1 # "none") \/ (~bysignal /\ cmain = "sleep")
ComputeEnd == Left \/ sthr = "failed"
=============================================================================
