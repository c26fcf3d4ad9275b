------------------------------- MODULE Shells -------------------------------
(***************************************************************************)
(* The shells of chapter11.  A shell is the sequence of steps of its main  *)
(* loop, which it goes through again and again; ^C sends SIGINT to the     *)
(* shell and to all processes of its group, and a jump, from ush4 on, takes*)
(* the shell back to the first step.                                       *)
(***************************************************************************)
EXTENDS Naturals, FiniteSets, Sequences

CONSTANTS
    ShellNames,     \* subset of {"ush1", ..., "ush7"}
    MaxCommands,    \* bound: commands given to a shell
    MaxInterrupts   \* bound: times ^C is typed

ASSUME ShellAssumption == ShellNames \subseteq {"ush1", "ush2", "ush3", "ush4", "ush5", "ush6", "ush7"}

VARIABLES
    ush,            \* constant: the shell
    step,           \* index of its next step; 0 when it has ended
    okaytojump, masked, sigint,     \* sigint: pending for the shell
    childpid,       \* process forked last, or NoChild
    background,     \* inbackground
    procs,          \* the processes forked, in their order
    interrupts, given, jumps,
    shells          \* number of processes that run the loop

shvars == <<ush, step, okaytojump, masked, sigint, childpid, background, procs,
            interrupts, given, jumps, shells>>

line == <<childpid, background>>
counts == <<interrupts, given, jumps>>

NoChild == 0

Ush1 == <<"read", "fork", "wait">>
Ush2 == <<"read", "fork", "waitforked">>
Ush3 == <<"read", "fork", "wait">>
Ush4 == <<"wait", "okay", "read", "block", "fork", "unblock">>
Ush5 == <<"okay", "read", "block", "fork", "unblock", "waitforeground">>
Ush6 == <<"okay", "read", "block", "fork", "unblock", "wait">>
Ush7 == <<"okay", "read", "block", "fork", "unblock", "waitpid", "reap">>

Steps == [ush1 |-> Ush1, ush2 |-> Ush2, ush3 |-> Ush3, ush4 |-> Ush4, ush5 |-> Ush5,
          ush6 |-> Ush6, ush7 |-> Ush7][ush]

Default == ush \in {"ush1", "ush2"}             \* SIGINT has its default action
Jumps == ush \in {"ush4", "ush5", "ush6", "ush7"}
Backgrounds == IF ush \in {"ush5", "ush6", "ush7"} THEN BOOLEAN ELSE {FALSE}

\* signalsetup, with SIG_IGN and a blocked SIGINT in ush3.
ShellInit ==
    /\ ush \in ShellNames
    /\ step = 1 /\ okaytojump = FALSE /\ masked = (ush = "ush3") /\ sigint = FALSE
    /\ childpid = NoChild /\ background = FALSE /\ procs = <<>>
    /\ interrupts = 0 /\ given = 0 /\ jumps = 0 /\ shells = 1

At(s) == step # 0 /\ Steps[step] = s
Done == step' = IF step = Len(Steps) THEN 1 ELSE step + 1
StepOn(s) == At(s) /\ Done

Process(bg, m) == [st |-> "forked", bg |-> bg, group |-> "shell", masked |-> m, pending |-> FALSE,
                   parent |-> "shell"]
IsChild(p) == procs[p].parent = "shell" /\ procs[p].st # "reaped"
Zombies == {p \in DOMAIN procs : IsChild(p) /\ procs[p].st = "zombie"}
NoChildren == \A p \in DOMAIN procs : ~IsChild(p)
Reap(p) == procs' = [procs EXCEPT ![p].st = "reaped"]

-----------------------------------------------------------------------------
(* The steps of the loop.                                                  *)

SetOkay ==
    /\ StepOn("okay") /\ okaytojump' = TRUE
    /\ UNCHANGED <<ush, masked, sigint, line, procs, counts, shells>>

\* A line: a command, with & at its end or not; or "q". When there is none, because
\* fgets fails, the loop starts again; gets, in ush1, leaves the line it read before.
ReadCommand ==
    /\ At("read")
    /\ \/ /\ given < MaxCommands /\ given' = given + 1
          /\ Done /\ background' \in Backgrounds
       \/ step' = 0 /\ UNCHANGED <<background, given>>
       \/ ush # "ush1" /\ step' = 1 /\ UNCHANGED <<background, given>>
    /\ UNCHANGED <<ush, okaytojump, masked, sigint, childpid, procs, interrupts, jumps, shells>>

\* Mutant of BlockSignals: sigprocmask is left out.
BlockLater ==
    /\ StepOn("block") /\ masked' = FALSE
    /\ UNCHANGED <<ush, okaytojump, sigint, line, procs, counts, shells>>

BlockSignals ==
    /\ StepOn("block") /\ masked' = TRUE
    /\ UNCHANGED <<ush, okaytojump, sigint, line, procs, counts, shells>>

ForkCommand ==
    /\ StepOn("fork")
    /\ procs' = Append(procs, Process(background, masked)) /\ childpid' = Len(procs) + 1
    /\ UNCHANGED <<ush, okaytojump, masked, sigint, background, counts, shells>>

ForkFails ==
    /\ StepOn("fork")
    /\ childpid' = NoChild
    /\ UNCHANGED <<ush, okaytojump, masked, sigint, background, procs, counts, shells>>

UnblockSignals ==
    /\ StepOn("unblock") /\ masked' = FALSE
    /\ UNCHANGED <<ush, okaytojump, sigint, line, procs, counts, shells>>

\* wait(NULL), and the waitpid of ush7 after a failed fork, take any child that
\* has ended, and return at once when there is none.
WaitsForAny == \/ At("wait")
               \/ At("waitforked") /\ childpid # NoChild
               \/ At("waitforeground") /\ ~background
               \/ At("waitpid") /\ ~background /\ childpid = NoChild

WaitForCommand ==
    /\ Done
    /\ \/ WaitsForAny /\ \E p \in Zombies : Reap(p)
       \/ WaitsForAny /\ NoChildren /\ UNCHANGED procs
       \/ At("waitpid") /\ ~background /\ childpid \in Zombies /\ Reap(childpid)
    /\ UNCHANGED <<ush, okaytojump, masked, sigint, line, counts, shells>>

\* Nothing to wait for: a command in the background, or none at all in ush2.
SkipWait ==
    /\ \/ At("waitforked") /\ childpid = NoChild
       \/ (At("waitforeground") \/ At("waitpid")) /\ background
    /\ Done
    /\ UNCHANGED <<ush, okaytojump, masked, sigint, line, procs, counts, shells>>

\* while (waitpid(-1, NULL, WNOHANG) > 0).
ReapAll ==
    /\ StepOn("reap")
    /\ procs' = [p \in DOMAIN procs |-> IF p \in Zombies THEN [procs[p] EXCEPT !.st = "reaped"] ELSE procs[p]]
    /\ UNCHANGED <<ush, okaytojump, masked, sigint, line, counts, shells>>

-----------------------------------------------------------------------------
(* ^C.                                                                     *)

\* A process of the group that has not set its own handling keeps the signal
\* pending or, were it not blocked, would run the shell's handler; a command may
\* die of it or ignore it.
Interrupt ==
    /\ step # 0 /\ interrupts < MaxInterrupts /\ interrupts' = interrupts + 1
    /\ sigint' = TRUE
    /\ LET group == {p \in DOMAIN procs : procs[p].group = "shell" /\ procs[p].st \notin {"zombie", "reaped"}}
           early == {p \in group : procs[p].st # "running" /\ ~Default}
       IN \E dies \in SUBSET (group \ early) :
            /\ \A p \in group \ early : procs[p].st = "forked" => p \in dies
            /\ procs' = [p \in DOMAIN procs |->
                   IF p \in dies THEN [procs[p] EXCEPT !.st = "zombie"]
                   ELSE IF p \in early /\ procs[p].masked THEN [procs[p] EXCEPT !.pending = TRUE]
                   ELSE procs[p]]
            /\ shells' = shells + Cardinality({p \in early : ~procs[p].masked /\ Jumps})
    /\ UNCHANGED <<ush, step, okaytojump, masked, line, given, jumps>>

\* jumphd; a wait that the handler interrupts without a jump returns.
Catch ==
    /\ sigint /\ ~masked /\ step # 0 /\ sigint' = FALSE
    /\ IF Default THEN step' = 0 /\ UNCHANGED <<okaytojump, jumps>>
       ELSE IF okaytojump
       THEN step' = 1 /\ okaytojump' = FALSE /\ jumps' = jumps + 1
       ELSE step' = (IF WaitsForAny THEN step + 1 ELSE step) /\ UNCHANGED <<okaytojump, jumps>>
    /\ UNCHANGED <<ush, masked, line, procs, interrupts, given, shells>>

-----------------------------------------------------------------------------
(* The processes forked.                                                   *)

CommandDone(p) == procs' = [procs EXCEPT ![p].st = IF procs[p].parent = "init" THEN "reaped" ELSE "zombie"]

\* setpgid, for a command in the background, which ends when it fails.
NewGroup(p) ==
    /\ procs[p].st = "forked" /\ procs[p].bg
    /\ ush = "ush6" => procs[p].parent = "init"
    /\ \/ procs' = [procs EXCEPT ![p].st = "grouped", ![p].group = "own"]
       \/ CommandDone(p)
    /\ UNCHANGED <<ush, step, okaytojump, masked, sigint, line, counts, shells>>

\* ush6: the child forks the process that runs the command, if it can, and ends,
\* whereupon that process has init as its parent.
SecondFork(p) ==
    /\ ush = "ush6" /\ procs[p].st = "forked" /\ procs[p].bg /\ procs[p].parent = "shell"
    /\ LET ended == [procs EXCEPT ![p].st = "zombie"] IN
         \/ procs' = Append(ended, [Process(TRUE, procs[p].masked) EXCEPT !.parent = "init"])
         \/ procs' = ended
    /\ UNCHANGED <<ush, step, okaytojump, masked, sigint, line, counts, shells>>

\* The default handlers, the unblocked signals, of which a pending one ends the
\* process, and executecmd, which fails or runs the command.
RunCommand(p) ==
    /\ procs[p].st = IF procs[p].bg THEN "grouped" ELSE "forked"
    /\ \/ ~procs[p].pending /\ procs' = [procs EXCEPT ![p].st = "running"]
       \/ CommandDone(p)
    /\ UNCHANGED <<ush, step, okaytojump, masked, sigint, line, counts, shells>>

\* In ush1 a child whose makeargv or execvp fails falls into the loop.
ExecFails(p) ==
    /\ ush = "ush1" /\ procs[p].st = "forked"
    /\ procs' = [procs EXCEPT ![p].st = "running"]
    /\ shells' = shells + 1
    /\ UNCHANGED <<ush, step, okaytojump, masked, sigint, line, counts>>

CommandEnds(p) ==
    /\ procs[p].st = "running" /\ CommandDone(p)
    /\ UNCHANGED <<ush, step, okaytojump, masked, sigint, line, counts, shells>>

ShellStep == SetOkay \/ ReadCommand \/ BlockSignals \/ ForkCommand \/ ForkFails \/ UnblockSignals
             \/ WaitForCommand \/ SkipWait \/ ReapAll \/ Catch
ChildStep == \E p \in DOMAIN procs : NewGroup(p) \/ SecondFork(p) \/ RunCommand(p) \/ ExecFails(p) \/ CommandEnds(p)
ShellNext == ShellStep \/ ChildStep \/ Interrupt
ShellSpec == ShellInit /\ [][ShellNext]_shvars

-----------------------------------------------------------------------------
(* Properties.                                                             *)

\* No child ever runs the shell's loop, however ^C comes between fork and the
\* child's own handling of signals, but in ush1.  At a prompt, and with no jump
\* out of a wait, the foreground commands have ended; in ush5, whose wait(NULL)
\* may get an earlier command from the background instead, only if there was no
\* such command.  In ush2, ush3 and ush6 each jump leaves at most one child
\* that is never waited for.
ShellWaits ==
    /\ ush # "ush1" => shells = 1
    /\ At("read") /\ jumps = 0 /\ shells = 1
         /\ (ush = "ush5" => \A p \in DOMAIN procs : ~procs[p].bg) =>
           \A p \in DOMAIN procs : procs[p].bg \/ procs[p].st \in {"zombie", "reaped"}
    /\ At("read") /\ ush \in {"ush2", "ush3", "ush6"} =>
           Cardinality({p \in DOMAIN procs : IsChild(p)}) <= jumps

ShellBusy == step # 0 /\ ~At("read")
=============================================================================
