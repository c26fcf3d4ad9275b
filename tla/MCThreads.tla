------------------------------ MODULE MCThreads ------------------------------
(***************************************************************************)
(* One run for the programs and objects of several threads, and the tools  *)
(* of chapter 2, which have one: program says which of the modules takes   *)
(* steps in a behaviour; the others stay in their first state.             *)
(***************************************************************************)
EXTENDS ListThreads, DescriptorThreads, ThreadObjects, BufferVariants, TextTools

VARIABLE program

MCListFaults == {"malloc", "lock", "unlock"}
MCReadLocked == {"getdata"}
MCThreadPrograms == {badparameters, copymultiple, callcopypass, callcopymalloc, monitorfd, monitorfdcancel}
MCObjects == {"barrier", "counter", "printinit", "testandset", "once", "strerror"}
MCCallFaults == {"rand", "sumlock", "donelock", "errorlock", "create", "join", "sigwait"}
MCVariants == {bufferbad, buffer, buffercond, bufferseminit, bufferinitmutex, bufferinitonce}
MCVariantFaults == {"init", "lock", "wait", "signal", "unlock", "create", "wakeup"}
MCTextTools == {"argtestfree", "getpaths", "wordaverage", "wordaveragebad", "bubblesort", "keeplog", "keeploghistory"}
MCNameVersions == {"none", "r", "mutex", "posix", "u_accept_r1", "u_accept_r2"}

Init ==
    /\ program \in {"list", "descriptors", "objects", "compute", "variants", "names", "texts"}
    /\ ListInit
    /\ ThreadsInit /\ (program # "descriptors" => prog = monitorfd /\ broken = [k \in Index |-> "none"])
    /\ ObjInit /\ (program # "objects" => object = "barrier" /\ ~faulty)
    /\ ComputeInit /\ (program # "compute" => failing = {} /\ ~bysignal)
    /\ VariantInit /\ (program # "variants" => variant = buffer /\ fault = "none")
    /\ NamesInit /\ (program # "names" => version = "r" /\ \A t \in Lookers : looker[t] = Resting)
    /\ TextInit /\ (program # "texts" => texttool = "keeplog")

Next ==
    /\ UNCHANGED program
    /\ IF program = "list" THEN ListNext ELSE UNCHANGED listvars
    /\ IF program = "descriptors" THEN ThreadsNext ELSE UNCHANGED dtvars
    /\ IF program = "objects" THEN ObjNext ELSE UNCHANGED objvars
    /\ IF program = "compute" THEN SumNext ELSE UNCHANGED compvars
    /\ IF program = "variants" THEN VariantNext ELSE UNCHANGED bvars
    /\ IF program = "names" THEN NamesNext ELSE UNCHANGED namevars
    /\ IF program = "texts" THEN TextNext ELSE UNCHANGED textvars

\* The threads go on, and a mutex or a semaphore comes to those that wait for it
\* as long as it is free; k numbers the actions of each program that are fair one by one.
Scheduled(k) ==
    /\ UNCHANGED program
    /\ \/ program = "descriptors" /\ ((k = 0 /\ ThreadsMain) \/ (k = 1 /\ \E t \in Index : ThreadStep(t)))
       \/ program = "objects" /\ ((k = 0 /\ initbarrier) \/ (k \in ObjThreads /\ ObjStep(k)))
       \/ program = "compute" /\ ~Left /\ \/ k = 0 /\ SumMain
                                          \/ k = 3 /\ SignalSide
                                          \/ k \in ComputeSet /\ ComputeStep(k)
       \/ program = "variants" /\ k \in Users /\ UserStep(k)
       \/ program = "names" /\ k # 0 /\ LookerStep(<<"t1", "t2", "t3">>[k])
       \/ program = "texts" /\ k = 0 /\ TextNext

Active ==
    CASE program = "list" -> listvars [] program = "descriptors" -> dtvars [] program = "objects" -> objvars
      [] program = "compute" -> compvars [] program = "variants" -> bvars [] program = "names" -> namevars
      [] program = "texts" -> textvars

vars == <<program, listvars, dtvars, objvars, compvars, bvars, namevars, textvars>>
Spec == Init /\ [][Next]_vars /\ \A k \in 0 .. 3 : WF_Active(Scheduled(k))

\* The main thread of a program with descriptors ends or crashes; everybody comes
\* back from an object, from the barrier once enough threads have arrived; the
\* computation ends unless its signal thread failed; every item put is taken, unless
\* a call failed or the program ended; every caller gets its name; a tool comes
\* to its end.
Due ==
    \/ program = "descriptors" /\ mpc = "open"
    \/ program = "objects" /\ ObjectDue
    \/ program = "compute" /\ ComputeDue
    \/ program = "variants" /\ ItemsLeft
    \/ program \in {"names", "texts"}

Settled ==
    CASE program = "descriptors" -> mpc \in {"end", "exit", "crash"}
      [] program = "objects" -> ObjectDone
      [] program = "compute" -> ComputeEnd
      [] program = "variants" -> NoItemsLeft
      [] program = "names" -> NamesDone
      [] program = "texts" -> TextDone
      [] OTHER -> FALSE

ThreadsEnd == Due ~> Settled
=============================================================================
