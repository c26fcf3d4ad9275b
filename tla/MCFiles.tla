------------------------------- MODULE MCFiles -------------------------------
(***************************************************************************)
(* One run for the programs made of system calls on files, pipes, FIFOs    *)
(* and sockets: program says which of the two modules takes steps in a     *)
(* behaviour; the other stays in its first state.                          *)
(***************************************************************************)
EXTENDS Descriptors, Sockets

VARIABLE program

MCScriptNames == DOMAIN Scripts
MCFaultyCalls == {"open", "write", "read", "copy", "fork", "chain", "fan", "dup2", "pipe", "mkfifo",
                  "exec", "makeargv", "wait", "setsid", "unlink"}
MCSocketScripts == DOMAIN Together

Init ==
    /\ program \in {"files", "sockets"}
    /\ DescriptorsInit /\ (program # "files" => script = "openfork")
    /\ SocketsInit /\ (program # "sockets" => net = "block")

Next ==
    /\ UNCHANGED program
    /\ IF program = "files" THEN DescriptorsNext ELSE UNCHANGED descvars
    /\ IF program = "sockets" THEN SocketsNext ELSE UNCHANGED netvars

\* Some process goes on as long as one can, whichever: none has a loop without end.
Scheduled ==
    /\ UNCHANGED program
    /\ \/ program = "files" /\ \E p \in Processes : ProcessStep(p)
       \/ program = "sockets" /\ \E p \in Peers : PeerStep(p)

Active == IF program = "files" THEN descvars ELSE netvars

vars == <<program, descvars, netvars>>
Spec == Init /\ [][Next]_vars /\ WF_Active(Scheduled)

\* Every client of a server ends, and so does every program on files but those that
\* wait for what does not come.
FilesEnd == TRUE ~> IF program = "files" THEN DescriptorsOver ELSE SocketsDone
=============================================================================
