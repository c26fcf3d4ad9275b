---------------------------- MODULE Descriptors -----------------------------
(***************************************************************************)
(* The processes of DescriptorPrograms: their descriptor tables, the open  *)
(* file descriptions they share after fork, the contents of files, pipes   *)
(* and FIFOs; operations that fail, and processes that are killed.         *)
(***************************************************************************)
EXTENDS DescriptorPrograms, FiniteSets, SequencesExt

CONSTANTS
    NumProcesses,   \* n of the chains and fans; bound on processes
    CopyBlock,      \* what copyfile reads at a time
    RepeatMax,      \* REPEAT_MAX
    ScriptNames,    \* those to choose from
    FaultyCalls,    \* the operations that may fail
    MaxMishaps      \* bound on the calls that fail and the processes that are killed

VARIABLES
    script,         \* constant: the name of the program
    command,        \* constant: the redirections of the command, in their order
    stages,         \* constant: the commands of the pipeline
    mishaps,        \* failures and kills that may still happen
    proc,           \* process -> record, see Newborn
    files,          \* the open file descriptions, by process and number: [obj, flags, pos]
    data,           \* what each file, or pipe, holds
    exists          \* the files and FIFOs with a name

descvars == <<script, command, stages, mishaps, proc, files, data, exists>>
Unchanging == UNCHANGED <<script, command, stages, mishaps>>

Processes == 1 .. NumProcesses
Fifos == {"fifo", "req", "seq"}
PipeNames == <<"pipe1", "pipe2", "pipe3">>
Drained == Fifos \cup Range(PipeNames)      \* what is read from it is gone
Contents == [obj \in Drained \cup {"log", "in", "in2", "out", "tty"} |->
                CASE obj = "in" -> <<<<0, 1>>, <<0, 2>>, <<0, 3>>>> [] obj = "in2" -> <<<<0, 4>>, <<0, 5>>>> [] OTHER -> <<>>]
NoFds == [v \in {} |-> 0]

\* fds: the descriptor table; held: what was read and is not yet written; got: all
\* it has read; stdout: the buffer of standard output; nth: i, the index of its
\* loop; line: what is left of its command; opened: the descriptions it has made.
Newborn == [role |-> "main", at |-> 1, fds |-> NoFds, held |-> <<>>, got |-> <<>>, stdout |-> <<>>,
            nth |-> 1, line |-> <<>>, opened |-> 0, parent |-> 0, reaped |-> FALSE, status |-> "unborn"]

\* The server programs start beside their clients; standard input and output are the
\* first two descriptions.
Starts(s) == CASE s = "pipeserver" -> <<"main", "client", "client">>
               [] s = "sequence" -> <<"main", "client", "client">>
               [] OTHER -> <<"main">>
StdIn == <<0, 1>>
StdOut == <<0, 2>>
Fresh(obj, flags) == [obj |-> obj, flags |-> flags, pos |-> 0]

DescriptorsInit ==
    /\ script \in ScriptNames
    /\ command \in IF script \in {"executecmdredirect", "pipeline"}
                   THEN {<<"<", ">">>, <<">", "<">>} ELSE {<<>>}
    /\ mishaps = MaxMishaps
    /\ stages \in IF script = "pipeline" THEN {1, NumProcesses} ELSE {1}
    /\ proc = [p \in Processes |-> IF p > Len(Starts(script)) THEN Newborn ELSE
                 [Newborn EXCEPT !.role = Starts(script)[p], !.status = "running", !.line = command,
                                 !.fds = [v \in {"0", "1"} |-> <<0, IF v = "0" THEN 1 ELSE 2>>]]]
    /\ \E out \in IF script = "fileioforkline" THEN {"tty", "log"} ELSE {"tty"} :
          files = [i \in {StdIn, StdOut} |->
                      IF i = StdIn THEN Fresh(IF command = <<>> THEN "in" ELSE "in2", ReadOnly) ELSE Fresh(out, ReadWrite)]
    /\ data = Contents
    /\ exists \in {{"in", "in2", "tty"}} \cup IF script = "copyfilemain" THEN {{"in", "in2", "tty", "log"}} ELSE {}

-----------------------------------------------------------------------------
Code(p) == IF proc[p].role = "failed" THEN <<>> ELSE Scripts[script][proc[p].role]
Step(p) == Code(p)[proc[p].at]
Alive(p) == proc[p].status = "running"
At(p, op) == Alive(p) /\ proc[p].at <= Len(Code(p)) /\ Step(p).op = op

Advanced(r) == [r EXCEPT !.at = @ + 1]
Plays(r, role) == [r EXCEPT !.role = role, !.at = 1]
Otherwise(r, step) == IF step.else = "next" THEN Advanced([r EXCEPT !.held = <<>>]) ELSE Plays(r, step.else)
Becomes(p, r) == proc' = [proc EXCEPT ![p] = r]
Go(p) == Becomes(p, Advanced(proc[p]))
Fail(p) == Becomes(p, Otherwise(proc[p], Step(p)))

\* A call that may fail, and what it does when it does not.
Does(p, op) == At(p, op) /\ Unchanging
Mishap == mishaps > 0 /\ mishaps' = mishaps - 1 /\ UNCHANGED <<script, command, stages>>
Fails(p) == /\ Mishap /\ Alive(p) /\ proc[p].at <= Len(Code(p)) /\ Step(p).op \in FaultyCalls
            /\ Fail(p) /\ UNCHANGED <<files, data, exists>>

Description(p, v) == proc[p].fds[v]
Object(p, v) == files[Description(p, v)].obj
Ends(obj, mode) == {p \in Processes : \E v \in DOMAIN proc[p].fds :
                        Object(p, v) = obj /\ mode \in files[Description(p, v)].flags}
WithFd(r, v, i) == [r EXCEPT !.fds = [u \in DOMAIN @ \cup {v} |-> IF u = v THEN i ELSE @[u]]]
WithoutFd(r, v) == [r EXCEPT !.fds = [u \in DOMAIN @ \ {v} |-> @[u]]]

\* At the offset of the description or, with O_APPEND, at the end; a gap that is
\* left is filled with zeros.
Put(i, tokens) ==
    LET f == files[i]  held == data[f.obj]
        pos == IF "append" \in f.flags \/ f.obj \in Drained THEN Len(held) ELSE f.pos
        end == pos + Len(tokens)
    IN /\ data' = [data EXCEPT ![f.obj] =
                      [k \in 1 .. (IF end > Len(held) THEN end ELSE Len(held)) |->
                          IF k > pos /\ k <= end THEN tokens[k - pos] ELSE IF k <= Len(held) THEN held[k] ELSE <<0, 0>>]]
       /\ files' = [files EXCEPT ![i].pos = IF f.obj \in Drained THEN 0 ELSE end]

\* A write into a pipe waits for room for all of it; when nobody can read it any
\* more the writer is killed.
Room(p, v, n) == Object(p, v) \in Drained =>
    Ends(Object(p, v), "read") # {} /\ Len(data[Object(p, v)]) + n <= PipeRoom
Broken(p, v) == Object(p, v) \in Drained /\ Ends(Object(p, v), "read") = {}
Killed(p) == Becomes(p, [proc[p] EXCEPT !.status = "killed", !.fds = NoFds, !.held = <<>>])

\* A read takes up to n; from an empty pipe it waits for a writer, or returns nothing
\* when there is none.
Rest(p, v) == LET f == files[Description(p, v)] IN
    IF f.obj \in Drained THEN data[f.obj] ELSE SubSeq(data[f.obj], f.pos + 1, Len(data[f.obj]))
Block(p, v, n) == SubSeq(Rest(p, v), 1, IF Len(Rest(p, v)) < n THEN Len(Rest(p, v)) ELSE n)
Ready(p, v) == Object(p, v) \in Drained => data[Object(p, v)] # <<>> \/ Ends(Object(p, v), "write") = {}
Take(p, v, n) ==
    IF Object(p, v) \in Drained
    THEN data' = [data EXCEPT ![Object(p, v)] = SubSeq(@, Len(Block(p, v, n)) + 1, Len(@))] /\ UNCHANGED files
    ELSE files' = [files EXCEPT ![Description(p, v)].pos = @ + Len(Block(p, v, n))] /\ UNCHANGED data

-----------------------------------------------------------------------------
(* Files.                                                                  *)

\* The numbers of the next two descriptions of a process.
New(p) == <<p, proc[p].opened + 1>>
New2(p) == <<p, proc[p].opened + 2>>
Describe(descriptions) ==
    files' = [i \in DOMAIN files \cup DOMAIN descriptions |->
                 IF i \in DOMAIN files THEN files[i] ELSE descriptions[i]]
Describes(r, v, i) == [WithFd(r, v, i) EXCEPT !.opened = @ + 1]

Opened(p, obj, flags) ==
    /\ Describe([i \in {New(p)} |-> Fresh(obj, flags)])
    /\ data' = IF "trunc" \in flags THEN [data EXCEPT ![obj] = <<>>] ELSE data
    /\ exists' = exists \cup {obj}

OpenFile(p) ==
    /\ Does(p, "open")
    /\ LET obj == Step(p).w.obj  flags == Step(p).w.flags  there == obj \in exists IN
       IF IF there THEN "excl" \in flags ELSE "creat" \notin flags
       THEN Fail(p) /\ UNCHANGED <<files, data, exists>>
       ELSE /\ obj \in Fifos =>
                  \/ {"read", "write"} \subseteq flags
                  \/ "read" \in flags /\ Ends(obj, "write") # {}
                  \/ "write" \in flags /\ Ends(obj, "read") # {}
            /\ Opened(p, obj, flags)
            /\ Becomes(p, Advanced(Describes(proc[p], Step(p).v, New(p))))

\* The two ends of a FIFO, opened at once: each open waits for the other.
OpenBoth(p, q) ==
    /\ Does(p, "open") /\ At(q, "open")
    /\ LET obj == Step(p).w.obj IN
       /\ obj \in Fifos \cap exists /\ Step(q).w.obj = obj
       /\ Step(p).w.flags = ReadOnly /\ Step(q).w.flags = WriteOnly
       /\ Describe([i \in {New(p), New(q)} |-> Fresh(obj, IF i = New(p) THEN ReadOnly ELSE WriteOnly)])
       /\ proc' = [proc EXCEPT ![p] = Advanced(Describes(@, Step(p).v, New(p))),
                               ![q] = Advanced(Describes(@, Step(q).v, New(q)))]
    /\ UNCHANGED <<data, exists>>

SeekEnd(p) ==
    /\ Does(p, "seek") /\ Go(p)
    /\ files' = [files EXCEPT ![Description(p, Step(p).v)].pos = Len(data[Object(p, Step(p).v)])]
    /\ UNCHANGED <<data, exists>>

WriteTokens(p) ==
    /\ Does(p, "write")
    /\ LET v == Step(p).v  tokens == [k \in DOMAIN Step(p).w |-> <<p, Step(p).w[k]>>] IN
       IF Broken(p, v) THEN Killed(p) /\ UNCHANGED <<files, data>>
       ELSE Room(p, v, Len(tokens)) /\ Put(Description(p, v), tokens) /\ Go(p)
    /\ UNCHANGED exists

ReadTokens(p) ==
    /\ Does(p, "read") /\ Ready(p, Step(p).v)
    /\ LET v == Step(p).v  block == Block(p, v, Step(p).w) IN
       /\ Take(p, v, Step(p).w)
       /\ IF block = <<>> THEN Fail(p)
          ELSE Becomes(p, Advanced([proc[p] EXCEPT !.got = @ \o block, !.held = IF proc[p].role = "serve" THEN block ELSE @]))
    /\ UNCHANGED exists

\* copyfile: one block after the other, each read whole and then written whole, to the
\* end of the input or the first error.
CopyRead(p) ==
    /\ Does(p, "copy") /\ proc[p].held = <<>> /\ Ready(p, Step(p).v)
    /\ LET block == Block(p, Step(p).v, CopyBlock) IN
       /\ Take(p, Step(p).v, CopyBlock)
       /\ Becomes(p, IF block = <<>> THEN Advanced(proc[p]) ELSE [proc[p] EXCEPT !.held = block])
    /\ UNCHANGED exists

CopyWrite(p) ==
    /\ Does(p, "copy") /\ proc[p].held # <<>>
    /\ LET v == Step(p).w IN
       IF Broken(p, v) THEN Killed(p) /\ UNCHANGED <<files, data>>
       ELSE /\ Room(p, v, Len(proc[p].held)) /\ Put(Description(p, v), proc[p].held)
            /\ Becomes(p, [proc[p] EXCEPT !.held = <<>>])
    /\ UNCHANGED exists

CloseFd(p) ==
    /\ Does(p, "close") /\ Becomes(p, Advanced(WithoutFd(proc[p], Step(p).v)))
    /\ UNCHANGED <<files, data, exists>>

DupFd(p) ==
    /\ Does(p, "dup2")
    /\ Becomes(p, Advanced(WithFd(proc[p], Step(p).w, Description(p, Step(p).v))))
    /\ UNCHANGED <<files, data, exists>>

\* The pipe of this turn of the loop.
MakePipe(p) ==
    /\ Does(p, "pipe")
    /\ Describe([i \in {New(p), New2(p)} |->
                    Fresh(PipeNames[proc[p].nth], IF i = New(p) THEN ReadOnly ELSE WriteOnly)])
    /\ Becomes(p, Advanced(Describes(Describes(proc[p], Step(p).v, New(p)), Step(p).w, New2(p))))
    /\ UNCHANGED <<data, exists>>

\* EEXIST is no error.
MakeFifo(p) ==
    /\ Does(p, "mkfifo") /\ Go(p) /\ exists' = exists \cup {Step(p).v}
    /\ UNCHANGED <<files, data>>

UnlinkFifo(p) ==
    /\ Does(p, "unlink") /\ Go(p) /\ exists' = exists \ {Step(p).v}
    /\ UNCHANGED <<files, data>>

\* Standard output is written at the end of a line when it is a terminal, and else
\* when the process ends.
PrintLine(p) ==
    /\ Does(p, "printf")
    /\ IF Step(p).v /\ Object(p, "1") = "tty"
       THEN Put(Description(p, "1"), <<<<p, 1>>>>) /\ Go(p)
       ELSE Becomes(p, Advanced([proc[p] EXCEPT !.stdout = Append(@, <<p, 1>>)])) /\ UNCHANGED <<files, data>>
    /\ UNCHANGED exists

-----------------------------------------------------------------------------
(* Processes.                                                              *)

Unborn == {p \in Processes : proc[p].status = "unborn"}
Next1 == CHOOSE p \in Unborn : \A q \in Unborn : p <= q
Child(p) == [proc[p] EXCEPT !.parent = p, !.got = <<>>, !.opened = 0]
Forks(p, parent, child) == proc' = [proc EXCEPT ![p] = parent, ![Next1] = child]

ForkChild(p) ==
    /\ Does(p, "fork")
    /\ Forks(p, Advanced(proc[p]), IF Step(p).v = Same THEN Advanced(Child(p)) ELSE Plays(Child(p), Step(p).v))
    /\ UNCHANGED <<files, data, exists>>

\* The child goes on with the loop, and the parent leaves it.
ForkChain(p) ==
    /\ Does(p, "chain")
    /\ IF proc[p].nth = NumProcesses THEN Go(p)
       ELSE Forks(p, Advanced(proc[p]), [Child(p) EXCEPT !.nth = @ + 1])
    /\ UNCHANGED <<files, data, exists>>

\* The parent goes on with the loop, and the child leaves it.
ForkFan(p) ==
    /\ Does(p, "fan")
    /\ IF proc[p].nth = NumProcesses THEN Go(p)
       ELSE Forks(p, [proc[p] EXCEPT !.nth = @ + 1], Advanced(Child(p)))
    /\ UNCHANGED <<files, data, exists>>

Over(p) == proc[p].status \in {"ok", "failed", "killed"}
Children(p) == {q \in Processes : proc[q].parent = p /\ ~proc[q].reaped /\ proc[q].status # "unborn"}

\* Mutant of WaitForChild: it does not wait for the end of a child.
WaitForNothing(p) ==
    /\ \E op \in {"wait", "r_wait", "waitall"} : Does(p, op)
    /\ Go(p) /\ UNCHANGED <<files, data, exists>>

\* Any child that has ended; waitall goes on until there is none.  Without children
\* it is an error.
WaitForChild(p) ==
    /\ \E op \in {"wait", "r_wait", "waitall"} : Does(p, op)
    /\ IF Children(p) = {} THEN IF Step(p).op = "waitall" THEN Go(p) ELSE Fail(p)
       ELSE \E q \in Children(p) : /\ Over(q)
               /\ proc' = [proc EXCEPT ![q].reaped = TRUE,
                                       ![p] = IF Step(p).op = "waitall" THEN @ ELSE Advanced(@)]
    /\ UNCHANGED <<files, data, exists>>

\* exec keeps the descriptors.
ExecRole(p) ==
    /\ \/ Does(p, "exec") \/ Does(p, "goto")
    /\ Becomes(p, Plays(proc[p], Step(p).v)) /\ UNCHANGED <<files, data, exists>>

Succeeds(p) ==
    /\ \E op \in {"setsid", "makeargv"} : Does(p, op)
    /\ Go(p) /\ UNCHANGED <<files, data, exists>>

\* The end of the code, or of a failed process: the buffer of standard output is written.
Exit(p) ==
    /\ Alive(p) /\ proc[p].at > Len(Code(p)) /\ Unchanging
    /\ Becomes(p, [proc[p] EXCEPT !.status = IF proc[p].role = "failed" THEN "failed" ELSE "ok", !.fds = NoFds])
    /\ IF proc[p].stdout = <<>> THEN UNCHANGED <<files, data>> ELSE Put(Description(p, "1"), proc[p].stdout)
    /\ UNCHANGED exists

Kill(p) == /\ Mishap /\ Alive(p) /\ Killed(p)
           /\ UNCHANGED <<files, data, exists>>

-----------------------------------------------------------------------------
(* The steps of single programs.                                           *)

\* seqserverbad: a number for OK_CHAR, and the next one only when it could be written;
\* the end for ERROR_CHAR.
AnswerFails(p) ==
    /\ Mishap /\ At(p, "answer") /\ "write" \in FaultyCalls /\ proc[p].held # <<>> /\ proc[p].held[1][2] = OK_CHAR
    /\ Becomes(p, Plays([proc[p] EXCEPT !.held = <<>>], "serve")) /\ UNCHANGED <<files, data, exists>>

Answer(p) ==
    /\ Does(p, "answer")
    /\ LET r == [proc[p] EXCEPT !.held = <<>>] IN
       IF r # proc[p] /\ proc[p].held[1][2] = OK_CHAR
       THEN /\ Room(p, "seq", 1) /\ Put(Description(p, "seq"), <<<<0, r.nth>>>>)
            /\ Becomes(p, [Plays(r, "serve") EXCEPT !.nth = @ + 1])
       ELSE /\ Becomes(p, Plays(r, IF r # proc[p] THEN "stop" ELSE "serve")) /\ UNCHANGED <<files, data>>
    /\ UNCHANGED exists

Repeat(p) ==
    /\ Does(p, "repeat")
    /\ Becomes(p, IF proc[p].nth = RepeatMax THEN Advanced(proc[p])
                  ELSE [Plays(proc[p], Step(p).v) EXCEPT !.nth = @ + 1])
    /\ UNCHANGED <<files, data, exists>>

\* strchr and the cut: only the first command redirects its input and the last its output.
Before(s, sign) == SubSeq(s, 1, SelectInSeq(s, LAMBDA c : c = sign) - 1)
Named(p, sign) == sign \in Range(proc[p].line) /\ proc[p].nth = (IF sign = "<" THEN 1 ELSE stages)
CutLine(p) ==
    /\ Does(p, "cut")
    /\ Becomes(p, IF Named(p, Step(p).v) THEN Advanced([proc[p] EXCEPT !.line = Before(@, Step(p).v)])
                  ELSE [proc[p] EXCEPT !.at = @ + 1 + Step(p).w])
    /\ UNCHANGED <<files, data, exists>>

InputLast(p) ==
    /\ Does(p, "inlast")
    /\ Becomes(p, IF Named(p, "<") /\ Named(p, ">") /\ proc[p].line[1] = ">"
                  THEN Plays(proc[p], Step(p).v) ELSE Advanced(proc[p]))
    /\ UNCHANGED <<files, data, exists>>

LoopEnd(p) ==
    /\ \/ Does(p, "last") /\ Becomes(p, IF proc[p].nth = stages THEN Plays(proc[p], Step(p).v) ELSE Advanced(proc[p]))
       \/ Does(p, "loop") /\ Becomes(p, [Plays(proc[p], Step(p).v) EXCEPT !.nth = @ + 1])
    /\ UNCHANGED <<files, data, exists>>

-----------------------------------------------------------------------------
ProcessStep(p) == Alive(p) /\
  (    \/ OpenFile(p) \/ SeekEnd(p) \/ WriteTokens(p) \/ ReadTokens(p) \/ CopyRead(p) \/ CopyWrite(p)
    \/ CloseFd(p) \/ DupFd(p) \/ MakePipe(p) \/ MakeFifo(p) \/ UnlinkFifo(p) \/ PrintLine(p)
    \/ ForkChild(p) \/ ForkChain(p) \/ ForkFan(p) \/ WaitForChild(p) \/ ExecRole(p) \/ Succeeds(p) \/ Exit(p)
    \/ Answer(p) \/ Repeat(p) \/ CutLine(p) \/ InputLast(p) \/ LoopEnd(p)
    \/ \E q \in Processes : OpenBoth(p, q))

DescriptorsNext == \E p \in Processes : ProcessStep(p) \/ Fails(p) \/ AnswerFails(p) \/ Kill(p)

-----------------------------------------------------------------------------
(* Properties.                                                             *)

Fine == mishaps = MaxMishaps       \* nothing has failed
Quiet == \A p \in Processes : ~Alive(p)
Of(p, s) == SelectSeq(s, LAMBDA t : t[1] = p)
Both(p) == <<<<p, 1>>, <<p, 2>>>>
Whole(s) == /\ Len(s) % 2 = 0
            /\ \A k \in DOMAIN s : k % 2 = 1 => SubSeq(s, k, k + 1) = Both(s[k][1])
InputTokens(s) == SelectSeq(s, LAMBDA t : t[1] = 0 /\ t[2] <= 3)

\* What the files hold in the end, when nothing failed: a log opened before the
\* forks keeps both lines of every process, and one opened with O_APPEND keeps
\* them together; one opened at its end has no gap, but lines may be lost. A file opened
\* before fork is read on by the child, and one opened later from its beginning. The buffer of
\* standard output is copied by fork. Copies are complete; an existing file is
\* not overwritten; a pipe, a FIFO, and a pipeline pass on all that was written, and
\* redirections take effect in any order, but not an input named last in executecmdredirect.
FilesHold ==
    Quiet /\ Fine =>
    /\ script \in {"chainopenfork", "chainforkopenlog", "simplechainforkopenatomic1"} =>
          \A p \in Processes : Of(p, data["log"]) = Both(p)
    /\ script \in {"chainforkopenlog", "simplechainforkopenatomic1"} => Whole(data["log"])
    /\ script = "chainforkopenseek" => Of(0, data["log"]) = <<>> /\ Last(data["log"])[2] = 2
    /\ script = "openfork" => {proc[1].got, proc[2].got} = {<<<<0, 1>>>>, <<<<0, 2>>>>}
    /\ script = "forkopen" => {proc[1].got, proc[2].got} = {<<<<0, 1>>>>}
    /\ script = "fileiofork" => data["tty"] = <<<<1, 1>>, <<1, 1>>>>
    /\ script = "fileioforkline" => Len(data["tty"]) = IF files[StdOut].obj = "tty" THEN 1 ELSE 0
    /\ script = "fileioforkline" => Len(data["log"]) = IF files[StdOut].obj = "log" THEN 2 ELSE 0
    /\ script = "redirect" => Len(data["log"]) = 1 /\ data["tty"] = <<>>
    /\ script \in {"simplecopy", "parentwritepipe2"} => data["tty"] = Contents["in"]
    /\ script = "copyfilemain" => data["log"] = IF proc[1].status = "ok" THEN Contents["in"] ELSE <<>>
    /\ script = "monitorfork" => /\ InputTokens(data["tty"]) = Contents["in"]
                                 /\ Len(data["tty"]) = Len(Contents["in"]) + Len(Contents["in2"])
    /\ script = "parentwritepipe" => proc[2].got = <<<<1, 1>>>>
    /\ script = "parentchildfifo" => proc[1].got = <<<<2, 1>>>>
    /\ script = "simpleredirect" => data["tty"] = Both(2)
    /\ script = "pipeline" => data["out"] = Contents["in"]
    /\ script = "executecmdredirect" => data["out"] = Contents[IF command[1] = "<" THEN "in" ELSE "in2"]

Numbers == {p \in Processes : script = "sequence" /\ proc[p].role \in {"ask", "giveup", "end", "failed"}}

\* Who waits and who is served, whatever fails: a parent that has waited without
\* error ends after all its children; all n processes of a chain or fan are
\* made unless a fork fails; a program executed behind a pipe has no descriptors but the
\* redirected ones.  Messages of pipeclient stay whole.  No sequence number is
\* given out twice, and if nothing fails there is a request, or a number on its way, for
\* each client that waits, and no other.
ProcessesServed ==
    /\ script \in {"execls", "execcmd", "execcmdargv", "fanwaitmsg"} =>
          \A p \in Processes : proc[p].status = "ok" => \A q \in Children(p) : FALSE
    /\ script \in {"chainopenfork", "simplechain", "simplefan", "fanwaitmsg"} /\ Fine /\ Quiet => Unborn = {}
    /\ \A p \in Processes : Alive(p) /\ proc[p].role \in {"filter", "sort", "ls"} => DOMAIN proc[p].fds = {"0", "1"}
    /\ script = "pipeserver" /\ proc[1].at = 3 => Whole(data["tty"] \o proc[1].held \o data["fifo"])
    /\ \A p, q \in Numbers : p # q => Range(proc[p].got) \cap Range(proc[q].got) = {}
    /\ script = "sequence" /\ Fine =>
          Cardinality({p \in Processes : proc[p].role = "ask" /\ proc[p].at = 2}) =
             Len(data["req"]) + Len(data["seq"]) + Len(proc[1].held)

\* Every program ends, also when a process of it is killed, but a reader that holds
\* the write end of its own pipe (parentwritepipe1, and parentwritepipe when its parent
\* fails), a FIFO nobody else opens, and the servers.
MayStay == \/ script \in {"parentwritepipe1", "pipeserver", "sequence"}
           \/ script \in {"parentwritepipe", "parentchildfifo"} /\ ~Fine
DescriptorsOver == Quiet \/ MayStay
=============================================================================
