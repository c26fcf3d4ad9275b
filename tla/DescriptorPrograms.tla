------------------------- MODULE DescriptorPrograms -------------------------
(***************************************************************************)
(* Programs of chapters 3, 4, 6, 9 and 11 that share files, pipes and FIFOs   *)
(* between processes, each written as the steps of its roles: main, its    *)
(* children, and the programs it executes.  Descriptors carries them out.  *)
(***************************************************************************)
EXTENDS Naturals, Sequences

CONSTANT PipeRoom       \* what a pipe has room for

-----------------------------------------------------------------------------
(* The steps.  When one fails the process ends, after perror, unless the   *)
(* step says where it goes on.                                             *)

Call(op, v, w) == [op |-> op, v |-> v, w |-> w, else |-> "failed"]
Unchecked(step) == [step EXCEPT !.else = "next"]
Or(step, role) == [step EXCEPT !.else = role]

Open(v, obj, flags) == Call("open", v, [obj |-> obj, flags |-> flags])
ReadOnly == {"read"}
WriteOnly == {"write"}
ReadWrite == {"read", "write"}
Creating == {"write", "creat"}
Truncating == {"write", "creat", "trunc"}
Appending == {"write", "creat", "append"}
Exclusive == {"write", "creat", "excl"}
Seek(v) == Unchecked(Call("seek", v, 0))
Write(v, tokens) == Call("write", v, tokens)    \* numbers, to be marked with the writer
Read(v, n) == Call("read", v, n)
Copy(v, w) == Unchecked(Call("copy", v, w))     \* copyfile(v, w): nobody tests its result
Close(v) == Call("close", v, 0)
Dup(v, w) == Call("dup2", v, w)
Pipe == Call("pipe", "r", "w")
Mkfifo(obj) == Call("mkfifo", obj, 0)
Unlink(obj) == Unchecked(Call("unlink", obj, 0))
Fork(role) == Call("fork", role, 0)             \* the child plays role, or the same one
Same == "same"
Chain == Call("chain", 0, 0)                    \* for (i = 1; i < n; i++) if (childpid = fork()) break;
Fan == Unchecked(Call("fan", 0, 0))             \* ... if ((childpid = fork()) <= 0) break;
Wait == Call("wait", 0, 0)                      \* may be interrupted by a signal
RWait == Call("r_wait", 0, 0)
WaitAll == Call("waitall", 0, 0)
Exec(role) == Call("exec", role, 0)
Goto(role) == Call("goto", role, 0)
Printf(newline) == Call("printf", newline, 0)
Makeargv == Call("makeargv", 0, 0)

-----------------------------------------------------------------------------
(* Chapter 4: descriptors before and after fork.                           *)

\* Mutant of chainopenfork: the log is opened after the forks.
chainopenforkLate == [main |-> <<Chain, Open("fd", "log", Truncating),
                                 Unchecked(Write("fd", <<1>>)), Unchecked(Write("fd", <<2>>))>>]

chainopenfork == [main |-> <<Open("fd", "log", Truncating), Chain,
                             Unchecked(Write("fd", <<1>>)), Unchecked(Write("fd", <<2>>))>>]
chainforkopen == [main |-> <<Chain, Open("fd", "log", Truncating),
                             Unchecked(Write("fd", <<1>>)), Unchecked(Write("fd", <<2>>))>>]
chainforkopenseek == [main |-> <<Chain, Open("fd", "log", Creating), Seek("fd"),
                                 Unchecked(Write("fd", <<1>>)), Unchecked(Write("fd", <<2>>))>>]
chainforkopenlog == [main |-> <<Chain, Open("fd", "log", Appending), Write("fd", <<1, 2>>)>>]
simplechainforkopenatomic1 == [main |-> <<Chain, Open("fd", "log", Appending), Write("fd", <<1, 2>>)>>]

openfork == [main |-> <<Open("fd", "in", ReadOnly), Fork(Same), Unchecked(Read("fd", 1))>>]
forkopen == [main |-> <<Fork(Same), Open("fd", "in", ReadOnly), Unchecked(Read("fd", 1))>>]
fileiofork == [main |-> <<Printf(FALSE), Unchecked(Fork(Same))>>]
fileioforkline == [main |-> <<Printf(TRUE), Unchecked(Fork(Same))>>]
redirect == [main |-> <<Open("fd", "log", Appending), Dup("fd", "1"), Close("fd"), Write("1", <<1>>)>>]
simplecopy == [main |-> <<Copy("0", "1")>>]
copyfilemain == [main |-> <<Open("from", "in", ReadOnly), Open("to", "log", Exclusive), Copy("from", "to")>>]
monitorfork == [main |-> <<Open("fd1", "in", ReadOnly), Open("fd2", "in2", ReadOnly), Fork("child"), Copy("fd1", "1")>>,
                child |-> <<Copy("fd2", "1")>>]

-----------------------------------------------------------------------------
(* Chapter 3: a process, its children and the programs they execute.       *)

simplefork == [main |-> <<Unchecked(Fork(Same))>>]
twoprocs == [main |-> <<Fork(Same)>>]
badprocessID == twoprocs    \* it shows a process ID that is older than the fork
simplechain == [main |-> <<Unchecked(Chain)>>]
simplefan == [main |-> <<Fan>>]
fanwaitmsg == [main |-> <<Fan, WaitAll>>]
parentwaitpid == [main |-> <<Fork("child"), Unchecked(Wait)>>, child |-> <<>>]
execls == [main |-> <<Fork("child"), Wait>>, child |-> <<Exec("command")>>, command |-> <<Write("1", <<1>>)>>]
execcmd == [main |-> <<Fork("child"), RWait>>, child |-> <<Exec("command")>>, command |-> <<Write("1", <<1>>)>>]
timechild == execcmd       \* of chapter 9; then it reads the clocks
execcmdargv == [main |-> <<Fork("child"), RWait>>,
                child |-> <<Makeargv, Exec("command")>>, command |-> <<Write("1", <<1>>)>>]
runback == [main |-> <<Fork("child")>>,
            child |-> <<Call("setsid", 0, 0), Makeargv, Exec("command")>>, command |-> <<Write("1", <<1>>)>>]
show_return_status == <<Unchecked(RWait)>>
showreturnstatustest == [main |-> <<Fork("child"), Goto("parent")>>, parent |-> show_return_status, child |-> <<>>]

-----------------------------------------------------------------------------
(* Chapter 6: pipes and FIFOs.                                             *)

parentwritepipe == [main |-> <<Pipe, Fork("child"), Unchecked(Write("w", <<1>>))>>,
                    child |-> <<Unchecked(Read("r", 2))>>]
parentwritepipe1 == [main |-> <<Pipe, Fork("child"), Copy("0", "w")>>, child |-> <<Copy("r", "1")>>]
parentwritepipe2 == [main |-> <<Pipe, Fork("child"), Unchecked(Close("r")), Copy("0", "w")>>,
                     child |-> <<Unchecked(Close("w")), Copy("r", "1")>>]
simpleredirect ==
    [main |-> <<Pipe, Fork("child"), Dup("r", "0"), Close("r"), Close("w"), Exec("sort")>>,
     child |-> <<Dup("w", "1"), Close("r"), Close("w"), Exec("ls")>>,
     sort |-> <<Copy("0", "1")>>, ls |-> <<Write("1", <<1>>), Write("1", <<2>>)>>]

dofifochild == <<Open("fd", "fifo", WriteOnly), Write("fd", <<1>>)>>
dofifoparent == <<Open("fd", "fifo", ReadOnly), Read("fd", PipeRoom)>>
parentchildfifo == [main |-> <<Mkfifo("fifo"), Fork("child"), Goto("parent")>>,
                    child |-> dofifochild, parent |-> dofifoparent]

pipeclient == <<Open("fd", "fifo", WriteOnly), Write("fd", <<1, 2>>), Unchecked(Close("fd"))>>
pipeserver == [main |-> <<Mkfifo("fifo"), Open("fd", "fifo", ReadWrite), Copy("fd", "1")>>, client |-> pipeclient]

OK_CHAR == 0
ERROR_CHAR == 9
seqclientbad ==
    [client |-> <<Open("req", "req", WriteOnly), Open("seq", "seq", ReadOnly), Goto("ask")>>,
     ask |-> <<Or(Write("req", <<OK_CHAR>>), "end"), Or(Read("seq", 1), "giveup"), Call("repeat", "ask", 0)>>,
     giveup |-> <<Unchecked(Write("req", <<ERROR_CHAR>>))>>, end |-> <<>>]
seqserverbad ==
    [main |-> <<Mkfifo("req"), Or(Mkfifo("seq"), "undo"), Open("req", "req", ReadWrite),
                Open("seq", "seq", ReadWrite), Goto("serve")>>,
     serve |-> <<Unchecked(Read("req", 1)), Call("answer", 0, 0)>>,
     stop |-> <<Unlink("req"), Unlink("seq")>>, undo |-> <<Unlink("req"), Goto("failed")>>]
sequence == [role \in DOMAIN seqclientbad \cup DOMAIN seqserverbad |->
                 IF role \in DOMAIN seqclientbad THEN seqclientbad[role] ELSE seqserverbad[role]]

-----------------------------------------------------------------------------
(* Chapter 11: redirections and pipelines.                                 *)

\* Everything after the sign is cut off the command; without it, and for a command
\* in the middle of a pipeline, nothing is done.
Cut(sign) == Call("cut", sign, 3)
parseandredirectin == <<Cut("<"), Open("t", "in", ReadOnly), Dup("t", "0"), Close("t")>>
parseandredirectout == <<Cut(">"), Open("t", "out", Truncating), Dup("t", "1"), Close("t")>>

filter == <<Copy("0", "1")>>
executecmdredirect == [main |-> parseandredirectout \o parseandredirectin \o <<Makeargv, Exec("filter")>>,
                       filter |-> filter]

\* The input first when it is named last.
executeredirect ==
    [stage |-> <<Call("inlast", "second", 0)>> \o parseandredirectout \o parseandredirectin \o <<Makeargv, Exec("filter")>>,
     second |-> parseandredirectin \o parseandredirectout \o <<Makeargv, Exec("filter")>>,
     filter |-> filter]

executecmdpipe ==
    [main |-> <<Call("last", "stage", 0), Pipe, Fork("rest"), Dup("w", "1"), Close("r"), Close("w"), Goto("stage")>>,
     rest |-> <<Dup("r", "0"), Close("r"), Close("w"), Call("loop", "main", 0)>>]
pipeline == [role \in DOMAIN executecmdpipe \cup DOMAIN executeredirect |->
                 IF role \in DOMAIN executecmdpipe THEN executecmdpipe[role] ELSE executeredirect[role]]

-----------------------------------------------------------------------------
Scripts ==
    [chainopenfork |-> chainopenfork, chainforkopen |-> chainforkopen, chainforkopenseek |-> chainforkopenseek,
     chainforkopenlog |-> chainforkopenlog, simplechainforkopenatomic1 |-> simplechainforkopenatomic1,
     openfork |-> openfork, forkopen |-> forkopen, fileiofork |-> fileiofork, fileioforkline |-> fileioforkline,
     redirect |-> redirect, simplecopy |-> simplecopy, copyfilemain |-> copyfilemain, monitorfork |-> monitorfork,
     simplefork |-> simplefork, twoprocs |-> twoprocs, badprocessID |-> badprocessID,
     simplechain |-> simplechain, simplefan |-> simplefan, fanwaitmsg |-> fanwaitmsg, parentwaitpid |-> parentwaitpid,
     execls |-> execls, execcmd |-> execcmd, timechild |-> timechild, execcmdargv |-> execcmdargv, runback |-> runback,
     showreturnstatustest |-> showreturnstatustest, parentwritepipe |-> parentwritepipe,
     parentwritepipe1 |-> parentwritepipe1, parentwritepipe2 |-> parentwritepipe2, simpleredirect |-> simpleredirect,
     parentchildfifo |-> parentchildfifo, pipeserver |-> pipeserver, sequence |-> sequence,
     executecmdredirect |-> executecmdredirect, pipeline |-> pipeline]
=============================================================================
