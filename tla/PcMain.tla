------------------------------- MODULE PcMain -------------------------------
(***************************************************************************)
(* The producer-consumer programs of chapter16 around the buffer of        *)
(* CondBuffer.  First their worker threads: randproducerdone.c and         *)
(* randconsumerdone.c with the shared sum (sharedsum.c) and the shared     *)
(* error (globalerror.c).                                                  *)
(*                                                                         *)
(* The critical sections of sharedsum.c and globalerror.c are one step     *)
(* each: nothing in them blocks and nothing else uses their mutexes.  The  *)
(* count of sharedsum.c grows forever; the model keeps how far it is       *)
(* behind the number of putitem calls that returned 0.                     *)
(*                                                                         *)
(* Then the main threads of the two programs.  Both create the consumers   *)
(* and the producers, join the producers and then the consumers, and print *)
(* what was summed; they differ in who sets the done flag:                 *)
(*   randpcdone   main itself, after a sleep                               *)
(*   randpcsig    a thread (signalthread.c) that waits for SIGUSR1         *)
(* A return of main ends the process with all its threads.                 *)
(***************************************************************************)
EXTENDS CondBuffer, Integers

CONSTANTS
    Producers, Consumers,
    Faults      \* what else may fail: see FaultKinds

\* randsafe; pthread_create; pthread_join; the locks of sharedsum.c and
\* globalerror.c; pthread_getschedparam in the signal thread.
FaultKinds == {"rand", "create", "join", "sumlock", "errorlock", "sigthread"}

Workers == Producers \cup Consumers

ASSUME WorkersAssumption == /\ Workers \subseteq Threads
                            /\ Producers \cap Consumers = {}
ASSUME FaultsAssumption == Faults \subseteq FaultKinds

VARIABLES
    wpc,            \* where each worker is in its thread function
    globalerror,    \* "OK" or the first error any thread reported
    unsummed        \* putitem calls that returned 0, minus count

workvars == <<wpc, globalerror, unsummed>>

\* "unborn" before pthread_create; "failed" at seterror; "gone" after return.
WorkerPositions == {"unborn", "generate", "put", "getdone", "get", "add",
                    "failed", "gone"}

WorkInit ==
    /\ wpc = [w \in Workers |-> "unborn"]
    /\ globalerror = "OK"
    /\ unsummed = 0

\* A worker that is between two calls of the buffer.
At(w, position) == wpc[w] = position /\ pc[w] = "idle"

\* What a thread function does with the result of a call: it goes on, or leaves
\* its loop, for seterror unless the error is ECANCELED.
Outcome(result, next) ==
    IF result = "OK" THEN next ELSE IF result = "ECANCELED" THEN "gone" ELSE "failed"

MoveTo(w, position) == wpc' = [wpc EXCEPT ![w] = position]

-----------------------------------------------------------------------------
(* producer of randproducerdone.c.                                         *)

\* randsafe, then putitem.
Generate(p) ==
    /\ At(p, "generate")
    /\ \/ /\ \E i \in Items : CallPutitem(p, i)
          /\ MoveTo(p, "put")
       \/ /\ "rand" \in Faults
          /\ MoveTo(p, "failed")
          /\ UNCHANGED bufvars
    /\ UNCHANGED <<globalerror, unsummed>>

PutReturned(p) ==
    /\ wpc[p] = "put"
    /\ Return(p)
    /\ MoveTo(p, Outcome(error[p], "getdone"))
    /\ unsummed' = IF error[p] = "OK" THEN unsummed + 1 ELSE unsummed
    /\ UNCHANGED globalerror

AskDone(p) ==
    /\ At(p, "getdone")
    /\ CallGetdone(p)
    /\ UNCHANGED workvars

DoneReturned(p) ==
    /\ wpc[p] = "getdone"
    /\ Return(p)
    /\ MoveTo(p, Outcome(error[p], IF flag[p] THEN "gone" ELSE "generate"))
    /\ UNCHANGED <<globalerror, unsummed>>

Producer(p) == Generate(p) \/ PutReturned(p) \/ AskDone(p) \/ DoneReturned(p)

-----------------------------------------------------------------------------
(* consumer of randconsumerdone.c.                                         *)

Retrieve(c) ==
    /\ At(c, "get")
    /\ CallGetitem(c)
    /\ UNCHANGED workvars

GetReturned(c) ==
    /\ wpc[c] = "get"
    /\ Return(c)
    /\ MoveTo(c, Outcome(error[c], "add"))
    /\ UNCHANGED <<globalerror, unsummed>>

\* seterror: the first error stays; an error is lost if the lock fails.
SetError ==
    \/ globalerror' = "EFAIL"
    \/ "errorlock" \in Faults /\ UNCHANGED globalerror

\* add of sharedsum.c; when it cannot lock it reports that itself and returns
\* the error, which ends the consumer.
AddItem(c) ==
    /\ At(c, "add")
    /\ \/ /\ unsummed' = unsummed - 1
          /\ MoveTo(c, "get")
          /\ UNCHANGED globalerror
       \/ /\ "sumlock" \in Faults
          /\ SetError
          /\ MoveTo(c, "failed")
          /\ UNCHANGED unsummed
    /\ UNCHANGED bufvars

Consumer(c) == Retrieve(c) \/ GetReturned(c) \/ AddItem(c)

-----------------------------------------------------------------------------

\* The end of both thread functions after an error.
WorkerFailed(w) ==
    /\ wpc[w] = "failed"
    /\ SetError
    /\ MoveTo(w, "gone")
    /\ UNCHANGED <<bufvars, unsummed>>

\* pthread_create starts a worker at the beginning of its function.
Start(w) == MoveTo(w, IF w \in Producers THEN "generate" ELSE "get")

\* A step of a thread inside the buffer, or the end of a call that gives up.
Buffering(t) == Proceed(t) /\ UNCHANGED workvars
LockFails(t) == MutexLockFails(t) /\ UNCHANGED workvars
Wakeup(t) == SpuriousWakeup(t) /\ UNCHANGED workvars

WorkerStep(w) ==
    \/ w \in Producers /\ Producer(w)
    \/ w \in Consumers /\ Consumer(w)
    \/ WorkerFailed(w)
    \/ Buffering(w)

Gone(workers) == \A w \in workers : wpc[w] = "gone"

WorkTypeOK ==
    /\ BufTypeOK
    /\ wpc \in [Workers -> WorkerPositions]
    /\ globalerror \in {"OK", "EFAIL"}
    /\ unsummed \in Int

-----------------------------------------------------------------------------
(* Main.                                                                   *)

CONSTANTS Main, SigThread

ASSUME MainAssumption ==
    {Main, SigThread} \subseteq Threads \ Workers /\ Main # SigThread

VARIABLES
    program,    \* which of the two runs
    mpc,        \* where main is; "exit0", "exit1": it returned; or "killed"
    spc,        \* where the signal thread is; "failed": it gave up
    sigusr1     \* SIGUSR1: "none" sent, "pending" (blocked), or "taken"

sigvars == <<spc, sigusr1>>
mainvars == <<program, mpc, sigvars>>
vars == <<bufvars, workvars, mainvars>>

MainPositions == {"sigblock", "sigthread", "consumers", "producers", "sleep",
                  "setdone", "joinproducers", "joinconsumers", "results",
                  "exit0", "exit1", "killed"}
SigPositions == {"unborn", "start", "sigwait", "setdone", "gone", "failed"}

Exited == mpc \in {"exit0", "exit1", "killed"}

Init ==
    /\ BufInit
    /\ WorkInit
    /\ \/ program = "randpcdone" /\ mpc = "consumers"
       \/ program = "randpcsig" /\ mpc = "sigblock"
    /\ spc = "unborn"
    /\ sigusr1 = "none"

MainGoto(from, to) == mpc = from /\ mpc' = to /\ UNCHANGED <<program, sigvars>>

-----------------------------------------------------------------------------
(* main.                                                                   *)

\* One round of a loop that creates the threads of a set; initproducer and
\* initconsumer report a failed pthread_create and main returns 1.
Create(position, workers, next) ==
    /\ \/ \E w \in workers : /\ wpc[w] = "unborn"
                             /\ Start(w)
                             /\ mpc = position
                             /\ UNCHANGED <<mainvars, globalerror>>
       \/ /\ \A w \in workers : wpc[w] # "unborn"
          /\ MainGoto(position, next)
          /\ UNCHANGED <<wpc, globalerror>>
       \/ /\ "create" \in Faults
          /\ \E w \in workers : wpc[w] = "unborn"
          /\ SetError
          /\ MainGoto(position, "exit1")
          /\ UNCHANGED wpc
    /\ UNCHANGED <<bufvars, unsummed>>

CreateConsumers == Create("consumers", Consumers, "producers")
CreateProducers ==
    Create("producers", Producers, IF program = "randpcdone" THEN "sleep" ELSE "joinproducers")

\* sleep returns some time later; then main calls setdone.
Sleep ==
    /\ MainGoto("sleep", "setdone")
    /\ CallSetdone(Main)
    /\ UNCHANGED workvars

SetdoneReturned ==
    /\ MainGoto("setdone", IF error[Main] = "OK" THEN "joinproducers" ELSE "exit1")
    /\ Return(Main)
    /\ UNCHANGED workvars

\* The loop over pthread_join ends when every thread of the set has returned.
Join(position, workers, next) ==
    /\ Gone(workers)
    /\ MainGoto(position, next)
    /\ UNCHANGED <<bufvars, workvars>>

JoinProducers == Join("joinproducers", Producers, "joinconsumers")
JoinConsumers == Join("joinconsumers", Consumers, "results")

JoinFails ==
    /\ "join" \in Faults
    /\ MainGoto("joinproducers", "exit1") \/ MainGoto("joinconsumers", "exit1")
    /\ UNCHANGED <<bufvars, workvars>>

\* showresults fails when a lock fails or any thread has reported an error.
ShowResults ==
    /\ \/ globalerror = "OK" /\ MainGoto("results", "exit0")
       \/ /\ globalerror # "OK" \/ Faults \cap {"sumlock", "errorlock"} # {}
          /\ MainGoto("results", "exit1")
    /\ UNCHANGED <<bufvars, workvars>>

-----------------------------------------------------------------------------
(* The signal, signalthreadinit and signalthread.                          *)

\* The user sends SIGUSR1 once.  Until signalthreadinit has blocked it in main,
\* and so in every thread main creates, it kills the process.
SendSignal ==
    /\ program = "randpcsig"
    /\ sigusr1 = "none"
    /\ sigusr1' = "pending"
    /\ mpc' = IF mpc = "sigblock" THEN "killed" ELSE mpc
    /\ UNCHANGED <<bufvars, workvars, program, spc>>

BlockSignal ==
    /\ MainGoto("sigblock", "sigthread")
    /\ UNCHANGED <<bufvars, workvars>>

StartSigThread ==
    /\ mpc = "sigthread"
    /\ \/ mpc' = "consumers" /\ spc' = "start"
       \/ "create" \in Faults /\ mpc' = "exit1" /\ UNCHANGED spc
    /\ UNCHANGED <<bufvars, workvars, program, sigusr1>>

SigThreadStart ==
    /\ spc = "start"
    /\ \/ spc' = "sigwait" /\ UNCHANGED globalerror
       \/ "sigthread" \in Faults /\ spc' = "failed" /\ SetError
    /\ UNCHANGED <<bufvars, wpc, unsummed, program, mpc, sigusr1>>

\* sigwait takes the pending signal; then setdone is called.
SigWait ==
    /\ spc = "sigwait"
    /\ sigusr1 = "pending"
    /\ sigusr1' = "taken"
    /\ CallSetdone(SigThread)
    /\ spc' = "setdone"
    /\ UNCHANGED <<workvars, program, mpc>>

\* seterror(setdone()): an error of setdone is all that is reported of it.
SigSetdoneReturned ==
    /\ spc = "setdone"
    /\ Return(SigThread)
    /\ IF error[SigThread] = "OK"
       THEN spc' = "gone" /\ UNCHANGED globalerror
       ELSE spc' = "failed" /\ SetError
    /\ UNCHANGED <<wpc, unsummed, program, mpc, sigusr1>>

-----------------------------------------------------------------------------

MainStep ==
    \/ CreateConsumers \/ CreateProducers \/ Sleep \/ SetdoneReturned
    \/ JoinProducers \/ JoinConsumers \/ ShowResults
    \/ BlockSignal \/ StartSigThread
    \/ Buffering(Main) /\ UNCHANGED mainvars

SigStep ==
    \/ SigThreadStart \/ SigWait \/ SigSetdoneReturned
    \/ Buffering(SigThread) /\ UNCHANGED mainvars

WorkersStep(w) == WorkerStep(w) /\ UNCHANGED mainvars

Next ==
    \/ /\ ~Exited
       /\ \/ MainStep
          \/ SigStep
          \/ SendSignal
          \/ JoinFails
          \/ \E w \in Workers : WorkersStep(w)
          \/ \E t \in Threads : /\ Wakeup(t) \/ LockFails(t)
                                /\ UNCHANGED mainvars
    \/ Exited /\ UNCHANGED vars

Spec == Init /\ [][Next]_vars

\* Every thread that can run does, without a lock or a join having to fail for
\* it; sleep ends; and bufferlock is granted to a thread that keeps asking for
\* it to set the done flag: producers and consumers lock it over and over, so
\* that thread needs strong fairness.
Fairness ==
    /\ WF_vars(~Exited /\ MainStep)
    /\ WF_vars(~Exited /\ SigStep)
    /\ \A t \in {Main, SigThread} :
           SF_vars(~Exited /\ MutexLock(t) /\ UNCHANGED <<workvars, mainvars>>)
    /\ \A w \in Workers : WF_vars(~Exited /\ WorkersStep(w))

FairSpec == Spec /\ Fairness

-----------------------------------------------------------------------------
(* Properties.                                                             *)

TypeOK ==
    /\ WorkTypeOK
    /\ mpc \in MainPositions
    /\ spc \in SigPositions
    /\ sigusr1 \in {"none", "pending", "taken"}

\* No result is printed that misses an item: when main returns 0, every item
\* of a putitem that returned 0 was taken by a consumer and added to the sum,
\* although the done flag came at an arbitrary moment and some calls failed;
\* and randpcsig prints only after its signal, however its threads end.
ResultsAreComplete ==
    mpc = "exit0" => /\ unsummed = 0
                     /\ program = "randpcsig" => sigusr1 = "taken"

\* The program ends: randpcdone after its sleep, randpcsig after the signal,
\* whenever that comes, unless the signal thread itself has failed.
ProgramEnds ==
    program = "randpcdone" \/ sigusr1 = "pending" ~> Exited \/ spc = "failed"
=============================================================================
