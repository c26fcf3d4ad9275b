--------------------------- MODULE MCDescriptorIO ---------------------------
(***************************************************************************)
(* One run for the programs that work on descriptors: program says which   *)
(* of the modules takes steps in a behaviour; the others stay in their     *)
(* first state.                                                            *)
(***************************************************************************)
EXTENDS RestartIO, TimedWait, Loggers, Monitors, RequestReply, Uici, RemoteLog, PacketTools

CONSTANT Programs   \* those to choose from

VARIABLE program

AllPrograms == {"pipe", "timed", "log", "monitor", "request", "uici", "reflect", "remote", "packets"}
OnlyUici == {"uici"}
MCMessageLists == {<<2, 0, 1>>, <<4, 1>>}
MCIOFaultSets == {{}, {"read", "write"}}
MCWaits == [sec : {0}, usec : {0, 2, 3}] \cup {[sec |-> 1, usec |-> 2]}
MCLoads == {[d \in 1..2 |-> d], [d \in 1..2 |-> 0]}
MCKinds == {"atomic", "remote", "direct"}
MCMonKinds == {"select", "poll", "copy2", "which", "work"}
MCTimedKinds == {"readtimed", "readtimed1"}
MCRRKinds == {"wait", "timeout", "retry"}
MCUicKinds == {"server", "serverp"}
MCTools == {"ts2a", "ts2log"}
Clean == [j \in 1 .. BufSize |-> Zero]
MCStacks == {[j \in 1 .. BufSize |-> IF j \in zeros THEN Zero ELSE Junk] : zeros \in {{}, {3}, {5}, 1 .. BufSize}}

Init ==
    /\ program \in Programs
    /\ PipeInit /\ (program # "pipe" => format = "lines" /\ iofaults = {} /\ lens = <<4, 1>>)
    /\ WaitInit /\ (program # "timed" => timedkind = "readtimed")
    /\ LogInit /\ (program # "log" => logkind = "direct" /\ logfaults = {})
    /\ MonInit /\ (program # "monitor" => monkind = "poll" /\ monfaults = {} /\ Load[1] = 0)
    /\ ReqInit /\ (program # "request" => rrkind = "wait" /\ rrfaults = {})
    /\ UiciInit /\ slow \in {NoClient, CHOOSE c \in Clients : TRUE}   \* the clients are alike
    /\ (program # "uici" => ukind = "server" /\ ufaults = {} /\ slow = NoClient)
    /\ EchoInit /\ (program # "reflect" => efaults = {})
    /\ RemoteInit
    /\ PacketsInit /\ stack \in MCStacks
    /\ (program # "packets" => tool = "ts2a" /\ typed = <<>>) /\ (tool = "ts2a" => stack = Clean)

Next ==
    /\ UNCHANGED program
    /\ IF program = "pipe" THEN PipeNext ELSE UNCHANGED pipevars
    /\ IF program = "timed" THEN WaitNext ELSE UNCHANGED waitvars
    /\ IF program = "log" THEN LogNext ELSE UNCHANGED logvars
    /\ IF program = "monitor" THEN MonNext ELSE UNCHANGED monvars
    /\ IF program = "request" THEN ReqNext ELSE UNCHANGED rrvars
    /\ IF program = "uici" THEN UiciNext ELSE UNCHANGED uvars
    /\ IF program = "reflect" THEN EchoNext ELSE UNCHANGED evars
    /\ IF program = "remote" THEN RemoteNext ELSE UNCHANGED rlogvars
    /\ IF program = "packets" THEN PacketsNext ELSE UNCHANGED packetvars

\* The processes of the program go on, and so does time; a connection attempt
\* is answered.  An uninterrupted select is not assumed: only that a signal does
\* not interrupt every single read and write.  k numbers the actions of each
\* program that are fair one by one.
Scheduled(k) ==
    /\ UNCHANGED program
    /\ \/ program = "pipe" /\ ((k = 1 /\ SenderStep) \/ (k = 2 /\ CopierStep) \/ (k = 3 /\ ReceiverStep))
       \/ program = "timed" /\ ((k = 1 /\ (Gettimeout \/ Select)) \/ (k = 2 /\ SelectReturns) \/ (k = 3 /\ Tick))
       \/ program = "log" /\ k = 1 /\ ChildStep
       \/ program = "monitor" /\ ((k = 0 /\ MonStep) \/ (k \in Fds /\ WriterStep(k)))
       \/ program = "request" /\ k = 1 /\ RequesterStep
       \/ program = "uici" /\ ((k = 0 /\ ServerSteps) \/ (k \in Clients /\ ClientSteps(k)) \/ (k - 2 \in Clients /\ ChildCopies(k - 2)))
       \/ program = "reflect" /\ ((k = 1 /\ EchoClient) \/ (k = 2 /\ EchoServer))
       \/ program = "remote" /\ ((k \in LogThreads /\ LogStep(k)) \/ (k - 2 \in LogFiles /\ ChildSteps(k - 2)))
       \/ program = "packets" /\ ((k = 1 /\ TypistStep) \/ (k = 2 /\ ToolStep))

Active ==
    CASE program = "pipe" -> pipevars [] program = "timed" -> waitvars [] program = "log" -> logvars
      [] program = "monitor" -> monvars [] program = "request" -> rrvars [] program = "uici" -> uvars
      [] program = "reflect" -> evars [] program = "remote" -> rlogvars [] program = "packets" -> packetvars

vars == <<program, pipevars, waitvars, logvars, monvars, rrvars, uvars, evars, rlogvars, packetvars>>
SafeSpec == Init /\ [][Next]_vars
Spec == SafeSpec /\ \A k \in 0 .. 4 : WF_Active(Scheduled(k))

\* Each program comes to its end: all processes of the pipeline; a call of
\* waitfdtimed, also when every select is interrupted; what lprintf has put
\* into the pipe arrives; a monitor returns when all writers have closed, or has
\* taken what they wrote; a request with a timeout returns, whatever the network does; a connection is
\* served and closed, by serverp also beside a client that never ends; the
\* reflecting client is done; when every logger is closed the network
\* connections are; both ends of the packet pipe end.
Due ==
    \/ program = "timed" /\ InWaitfdtimed
    \/ program = "log" /\ LogUnderWay
    \/ program = "request" /\ InRequest
    \/ program = "remote" /\ AllLoggersClosed
    \/ program \in {"pipe", "monitor", "reflect", "packets"}

Settled ==
    CASE program = "pipe" -> PipelineEnded
      [] program = "timed" -> ~InWaitfdtimed
      [] program = "log" -> ~LogUnderWay
      [] program = "monitor" -> MonitorSettled
      [] program = "request" -> ~InRequest
      [] program = "reflect" -> epc \in {"done", "failed"}
      [] program = "remote" -> AllConnectionsClosed
      [] program = "packets" -> ToolsDone
      [] OTHER -> FALSE

IoEnds ==
    /\ Due ~> Settled
    /\ \A c \in Clients : (program = "uici" /\ DueToEnd(c)) ~> ~ServerEnd(c)
=============================================================================
