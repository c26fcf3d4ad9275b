---------------------------- MODULE MCProcesses -----------------------------
(***************************************************************************)
(* One run for the programs about signals, processes and what they share:  *)
(* program says which of the modules takes steps in a behaviour; the       *)
(* others stay in their first state.                                       *)
(***************************************************************************)
EXTENDS SignalWait, AsyncMonitor, Timers, ProcessTree,
        SharedMemSum, Shells, IpcPrograms, NamedSemaphores, SignalPrograms

VARIABLE program

MCSigKinds == {"notify", "suspend"}
MCIncs == {[sec |-> 0, nsec |-> 2], [sec |-> 1, nsec |-> 1]}
MCStarts == {[sec |-> 0, nsec |-> 0], [sec |-> 0, nsec |-> 2]}
MCTimerKinds == {"relative", "absolute", "periodic"}
MCTreeKinds == {"chainwait", "chainsem", "fanwait", "fansync"}
MCFailureSets == {{}, {"shmget", "shmat", "semget", "setval", "semop", "killed"}}
MCShells == {"ush1", "ush2", "ush3", "ush4", "ush5", "ush6", "ush7"}
MCIpcKinds == {"queue", "monitor", "show", "initsem"}
MCSemPrograms == {chainnamed, chainsemaphoret, chaincritical, maincritical, maincriticalsem,
                  semsharedtest, sbarriertest, sbarrierthreads}
MCSigScripts == DOMAIN Programs
MCReadKinds == {"poll", "suspend"}

Init ==
    /\ program \in {"signal", "async", "timer", "tree", "ring",
                    "sum", "shell", "ipc", "semaphores", "signalprogram", "reads"}
    /\ SignalInit /\ (program # "signal" => sigkind = "notify" /\ ~callerblocks)
    /\ AsyncInit /\ (program # "async" => aiofaults = {} /\ ~suspends)
    /\ TimerInit /\ (program # "timer" => /\ tkind = "relative" /\ tfaults = {} /\ numtimes = 1
                                          /\ inctime.sec = 0 /\ tstart.nsec = 0)
    /\ TreeInit /\ (program # "tree" => treekind = "fanwait" /\ treefaults = {})
    /\ RingInit /\ (program # "ring" => rfaults = FALSE)
    /\ ShmInit /\ (program # "sum" => failures = {})
    /\ ShellInit /\ (program # "shell" => ush = "ush1")
    /\ IpcInit /\ (program # "ipc" => ipc = "queue")
    /\ SemProgInit /\ (program # "semaphores" => sprog = sbarriertest /\ ~stale)
    /\ SigProgInit /\ (program # "signalprogram" => sg = "password")
    /\ ReadsInit /\ (program # "reads" => rdkind = "poll" /\ regular = {} /\ ~rdfails)

Next ==
    /\ UNCHANGED program
    /\ IF program = "signal" THEN SignalNext ELSE UNCHANGED sigvars
    /\ IF program = "async" THEN AsyncNext ELSE UNCHANGED avars
    /\ IF program = "timer" THEN TimerNext ELSE UNCHANGED tvars
    /\ IF program = "tree" THEN TreeNext ELSE UNCHANGED treevars
    /\ IF program = "ring" THEN RingNext ELSE UNCHANGED ringvars
    /\ IF program = "sum" THEN ShmNext ELSE UNCHANGED shmvars
    /\ IF program = "shell" THEN ShellNext ELSE UNCHANGED shvars
    /\ IF program = "ipc" THEN IpcNext ELSE UNCHANGED ipcvars
    /\ IF program = "semaphores" THEN SemProgNext ELSE UNCHANGED semprogvars
    /\ IF program = "signalprogram" THEN SigProgNext ELSE UNCHANGED sgvars
    /\ IF program = "reads" THEN ReadsNext ELSE UNCHANGED rdvars

\* The processes go on, a signal that is pending and not blocked is delivered, a
\* read that was started completes, a running timer expires, and a child or a command
\* ends: k numbers the actions of each program that are fair one by one.
Scheduled(k) ==
    /\ UNCHANGED program
    /\ \/ program = "signal" /\ ((k = 1 /\ WaiterStep) \/ (k = 2 /\ Delivery))
       \/ program = "async" /\ ((k = 1 /\ AsyncMain) \/ (k = 2 /\ ReadCompletes) \/ (k = 3 /\ Aiohandler))
       \/ program = "timer" /\ ((k = 1 /\ TimerMain) \/ (k = 2 /\ TimerHandler) \/ (k = 3 /\ Expire))
       \/ program = "tree" /\ k \in Procs /\ TreeStep(k)
       \/ program = "ring" /\ k \in Ringers /\ RingStep(k)
       \/ program = "sum" /\ k \in Processes /\ ShmStep(k)
       \/ program = "shell" /\ ((k = 1 /\ ShellStep) \/ (k = 2 /\ ChildStep))
       \/ program = "ipc" /\ \/ k = 1 /\ (msgqueuesave \/ Monitor \/ SetUpShow \/ TakeShow)
                             \/ k = 2 /\ (msgqueuein("w1") \/ initsemset("w1"))
                             \/ k = 3 /\ (msgqueuein("w2") \/ initsemset("w2"))
       \/ program = "semaphores" /\ k \in Members /\ MemberStep(k)
       \/ program = "signalprogram" /\ \/ k = 1 /\ ProgramStep
                                       \/ k = 2 /\ KidEnds
                                       \/ k = 3 /\ Deliver("INT")
                                       \/ k = 4 /\ Deliver("USR1")
                                       \/ k = 5 /\ Deliver("ALRM")
       \/ program = "reads" /\ ((k = 0 /\ ReadsMain) \/ (k \in Inputs /\ Completes(k)))

Active ==
    CASE program = "signal" -> sigvars [] program = "async" -> avars [] program = "timer" -> tvars
      [] program = "tree" -> treevars [] program = "ring" -> ringvars [] program = "sum" -> shmvars
      [] program = "shell" -> shvars [] program = "ipc" -> ipcvars [] program = "semaphores" -> semprogvars
      [] program = "signalprogram" -> sgvars [] program = "reads" -> rdvars

vars == <<program, sigvars, avars, tvars, treevars, ringvars, shmvars, shvars, ipcvars, semprogvars, sgvars, rdvars>>
Spec == Init /\ [][Next]_vars /\ \A k \in 0 .. 5 : WF_Active(Scheduled(k))

\* Each program comes to its end: a wait for a signal returns when its flag is
\* on, or its signal pending, unless the flag is turned off again; the copy is done;
\* abstime ends, unless its last signal came between the test of exitflag and
\* sigsuspend, and always with a periodic timer; all processes of chains and fans
\* end and none of them waits for ever, but for those that wait for a semaphore whose
\* unlock failed, and those of a synchronizefan in which the last fork, or a write of the
\* parent, failed; the ring is built.
\* Everybody gets out of initshared if nobody fails or is killed; a shell comes
\* back to its prompt; every line sent is saved unless the queue is removed or its
\* reader fails, the parent of monitorshared ends, and everybody gets the semaphore
\* set unless its creator failed or was killed; every member gets through its critical
\* section or its barrier unless one was killed, but nobody through the barrier of
\* forked processes; a signal that is to end a wait or a loop does; every input read
\* asynchronously comes to its end.
Due ==
    \/ program = "signal" /\ DueToWake
    \/ program = "async" /\ apc = "work"
    \/ program = "tree" /\ DueToFinish
    \/ program = "sum" /\ failures = {}
    \/ program = "shell" /\ ShellBusy
    \/ program = "ipc" /\ IpcDue
    \/ program = "semaphores" /\ MembersDue
    \/ program = "signalprogram" /\ SignalDue
    \/ program \in {"timer", "ring", "reads"}

Settled ==
    CASE program = "signal" -> ~Waiting \/ (sigkind = "notify" /\ ~flag)
      [] program = "async" -> apc \in {"report", "exit"}
      [] program = "timer" -> tpc = "end" \/ (raced /\ tkind # "periodic")
      [] program = "tree" -> TreeEnded \/ UnlockFailed
      [] program = "ring" -> RingFormed
      [] program = "sum" -> AllInitialized
      [] program = "shell" -> ~ShellBusy
      [] program = "ipc" -> IpcDone
      [] program = "semaphores" -> MembersThrough
      [] program = "signalprogram" -> me.life # "run"
      [] program = "reads" -> ReadsOver

ProcessesEnd == Due ~> Settled
=============================================================================
