------------------------------ MODULE RemoteLog ------------------------------
(***************************************************************************)
(* The calls of rlogging.c, by the threads of one process: lopen with the  *)
(* child that go_through_pipe creates, lprintf, lprintfg, lgenerator,      *)
(* lsendtime and lclose.  (Loggers has the bytes of its writes.)           *)
(***************************************************************************)
EXTENDS Integers, Sequences, FiniteSets, SequencesExt

CONSTANTS
    LogThreads,     \* the threads of the process
    LogFiles,       \* the LFILEs, 1 .. n
    MaxLogCalls,    \* bound on the calls of the library
    LogFaults       \* bound on the steps that fail

\* 0 stands for the process itself, and for no thread and no LFILE.
ASSUME RemoteAssumption ==
    0 \notin LogThreads /\ LogFiles \subseteq Nat \ {0} /\ LogFaults \in Nat

VARIABLES
    logcalls, faultsleft,
    doing,          \* thread -> the call it is in, see NoLogCall
    lfile,          \* LFILE -> [state, id, gen, tmode, piped], gen in two halves
    nextID,
    genlock,        \* the owner of generator_mutex, or 0
    conn,           \* LFILE -> who has its connection open
    pipew, piper,   \* LFILE -> who has the write end, and the read end, of its pipe open
    inpipe, atnet,  \* LFILE -> what is in its pipe, and what has arrived
    logchild        \* LFILE -> the child that copies its pipe: "none", "run", "ended"

rlogvars == <<logcalls, faultsleft, doing, lfile, nextID, genlock, conn, pipew, piper, inpipe, atnet, logchild>>

NoLogCall == [op |-> "none", f |-> 0, pc |-> "none", gen |-> <<0, 0>>, known |-> FALSE, timed |-> FALSE, raced |-> FALSE, after |-> FALSE]
Parent == 0
NoId == -1
RemoteInit ==
    /\ logcalls = MaxLogCalls /\ faultsleft = LogFaults
    /\ doing = [t \in LogThreads |-> NoLogCall]
    /\ lfile = [f \in LogFiles |-> [state |-> "none", id |-> NoId, gen |-> <<0, 0>>, tmode |-> FALSE, told |-> FALSE, piped |-> FALSE]]
    /\ nextID = 0 /\ genlock = 0
    /\ conn = [f \in LogFiles |-> {}] /\ pipew = conn /\ piper = conn
    /\ inpipe = [f \in LogFiles |-> <<>>] /\ atnet = inpipe
    /\ logchild = [f \in LogFiles |-> "none"]

In(t, op, pc) == doing[t].op = op /\ doing[t].pc = pc
Turns(t, pc) == doing' = [doing EXCEPT ![t].pc = pc]
Returns(t) == doing' = [doing EXCEPT ![t] = NoLogCall]
Fault == faultsleft > 0 /\ faultsleft' = faultsleft - 1
Kept == UNCHANGED <<logcalls, faultsleft>>
SameFiles == UNCHANGED <<lfile, nextID>>
SameEnds == UNCHANGED <<conn, pipew, piper, logchild>>
SameData == UNCHANGED <<inpipe, atnet>>

FirstStep == [lopen |-> "connect", lclose |-> "close", lgenerator |-> "lock", lprintf |-> "lock", lprintfg |-> "times", lsendtime |-> "mode"]

\* A thread calls the library: lopen for a new LFILE, and lclose when no other thread
\* is using it.
CallLog(t, op, f) ==
    /\ doing[t] = NoLogCall /\ logcalls > 0 /\ logcalls' = logcalls - 1 /\ UNCHANGED faultsleft
    /\ lfile[f].state = IF op = "lopen" THEN "none" ELSE "open"
    /\ op = "lclose" => \A u \in LogThreads : doing[u].f # f
    /\ doing' = [doing EXCEPT ![t] = [NoLogCall EXCEPT !.op = op, !.f = f, !.pc = FirstStep[op], !.after = lfile[f].told,
                                                       !.gen = IF op = "lgenerator" THEN <<f, f>> ELSE @]]
    /\ lfile' = [lfile EXCEPT ![f].state = CASE op = "lopen" -> "opening" [] op = "lclose" -> "closing" [] OTHER -> @]
    /\ UNCHANGED <<nextID, genlock>> /\ SameEnds /\ SameData

-----------------------------------------------------------------------------
(* lopen and lclose.                                                       *)

\* u_connect and malloc; when malloc fails the connection stays open.
LopenConnect(t) ==
    /\ In(t, "lopen", "connect") /\ UNCHANGED <<logcalls, genlock, pipew, piper, logchild, nextID>> /\ SameData
    /\ LET f == doing[t].f IN
       \/ conn' = [conn EXCEPT ![f] = {Parent}] /\ Turns(t, "id") /\ UNCHANGED <<lfile, faultsleft>>
       \/ Fault /\ Returns(t) /\ lfile' = [lfile EXCEPT ![f].state = "failed"] /\ UNCHANGED conn
       \/ Fault /\ Returns(t) /\ lfile' = [lfile EXCEPT ![f].state = "failed"] /\ conn' = [conn EXCEPT ![f] = {Parent}]

\* nextID++, within ID_mutex; then the other members. Without the mutex lopen gives up,
\* and leaves the connection open.
LopenId(t) ==
    /\ In(t, "lopen", "id") /\ UNCHANGED <<logcalls, genlock>> /\ SameEnds /\ SameData
    /\ \/ /\ Turns(t, "pipe") /\ UNCHANGED faultsleft
          /\ lfile' = [lfile EXCEPT ![doing[t].f].id = nextID] /\ nextID' = nextID + 1
       \/ Fault /\ Returns(t) /\ lfile' = [lfile EXCEPT ![doing[t].f].state = "failed"] /\ UNCHANGED nextID

\* go_through_pipe: without a pipe the logger writes to the network.
MakePipe(t) ==
    /\ In(t, "lopen", "pipe") /\ UNCHANGED <<logcalls, genlock, nextID, conn, logchild>> /\ SameData
    /\ LET f == doing[t].f IN
       \/ /\ Turns(t, "fork") /\ pipew' = [pipew EXCEPT ![f] = {Parent}] /\ piper' = [piper EXCEPT ![f] = {Parent}]
          /\ UNCHANGED <<lfile, faultsleft>>
       \/ Fault /\ Returns(t) /\ lfile' = [lfile EXCEPT ![f].state = "open"] /\ UNCHANGED <<pipew, piper>>

\* The child gets all that the process has open by now, the ends of the pipes that other
\* threads have made, too; it closes the write end of its own pipe only, and copies.
GoThroughPipe(t) ==
    /\ In(t, "lopen", "fork") /\ UNCHANGED <<logcalls, genlock, nextID, lfile>> /\ SameData
    /\ LET f == doing[t].f
           inherits(ends) == [g \in LogFiles |-> IF Parent \in ends[g] THEN ends[g] \cup {f} ELSE ends[g]] IN
       \/ /\ Turns(t, "reader") /\ logchild' = [logchild EXCEPT ![f] = "run"] /\ UNCHANGED faultsleft
          /\ conn' = inherits(conn) /\ piper' = inherits(piper) /\ pipew' = [inherits(pipew) EXCEPT ![f] = @ \ {f}]
       \/ Fault /\ Turns(t, "undo") /\ UNCHANGED <<conn, pipew, piper, logchild>>

\* The parent closes the read end, whether there is a child or not.
CloseReader(t) ==
    /\ doing[t].op = "lopen" /\ doing[t].pc \in {"reader", "undo"} /\ Kept
    /\ Turns(t, IF doing[t].pc = "reader" THEN "handover" ELSE "giveup")
    /\ piper' = [piper EXCEPT ![doing[t].f] = @ \ {Parent}]
    /\ UNCHANGED <<lfile, nextID, genlock, conn, pipew, logchild>> /\ SameData

\* It closes the connection and writes to the pipe from now on; without a child it closes
\* the pipe.
LopenReturns(t) ==
    /\ doing[t].op = "lopen" /\ doing[t].pc \in {"handover", "giveup"} /\ Returns(t) /\ Kept
    /\ LET f == doing[t].f  forked == doing[t].pc = "handover" IN
       /\ lfile' = [lfile EXCEPT ![f].state = "open", ![f].piped = forked]
       /\ conn' = IF forked THEN [conn EXCEPT ![f] = @ \ {Parent}] ELSE conn
       /\ pipew' = IF forked THEN pipew ELSE [pipew EXCEPT ![f] = @ \ {Parent}]
    /\ UNCHANGED <<nextID, genlock, piper, logchild>> /\ SameData

Lclose(t) ==
    /\ In(t, "lclose", "close") /\ Returns(t) /\ Kept /\ UNCHANGED <<nextID, genlock, piper, logchild>> /\ SameData
    /\ LET f == doing[t].f IN
       /\ lfile' = [lfile EXCEPT ![f].state = "closed"]
       /\ conn' = [conn EXCEPT ![f] = @ \ {Parent}] /\ pipew' = [pipew EXCEPT ![f] = @ \ {Parent}]

-----------------------------------------------------------------------------
(* The child: readwriteall, to the end of the pipe or an error.            *)

ChildCopiesPipe(f) ==
    /\ logchild[f] = "run" /\ inpipe[f] # <<>> /\ Kept
    /\ atnet' = [atnet EXCEPT ![f] = Append(@, Head(inpipe[f]))] /\ inpipe' = [inpipe EXCEPT ![f] = Tail(@)]
    /\ UNCHANGED <<doing, lfile, nextID, genlock>> /\ SameEnds

ChildEndsCopy(f) ==
    /\ logchild[f] = "run" /\ UNCHANGED logcalls
    /\ \/ inpipe[f] = <<>> /\ pipew[f] = {} /\ UNCHANGED faultsleft
       \/ inpipe[f] # <<>> /\ Fault
    /\ logchild' = [logchild EXCEPT ![f] = "ended"]
    /\ conn' = [g \in LogFiles |-> conn[g] \ {f}]
    /\ pipew' = [g \in LogFiles |-> pipew[g] \ {f}] /\ piper' = [g \in LogFiles |-> piper[g] \ {f}]
    /\ UNCHANGED <<doing, lfile, nextID, genlock>> /\ SameData

-----------------------------------------------------------------------------
(* lprintf, lprintfg, lgenerator and lsendtime.                            *)

\* Mutant of LockGenerator: nothing is locked.
LockNothing(t) ==
    /\ doing[t].pc = "lock" /\ Turns(t, "copy") /\ UNCHANGED genlock
    /\ Kept /\ SameFiles /\ SameEnds /\ SameData

\* generator_mutex; a generator is copied in two halves. Without the mutex the call
\* returns. (An unlock does not fail.)
LockGenerator(t) ==
    /\ doing[t].pc = "lock" /\ UNCHANGED logcalls
    /\ \/ genlock = 0 /\ genlock' = t /\ Turns(t, "copy") /\ UNCHANGED faultsleft
       \/ Fault /\ Returns(t) /\ UNCHANGED genlock
    /\ SameFiles /\ SameEnds /\ SameData

CopyGenerator(t) ==
    /\ doing[t].pc \in {"copy", "copy2"} /\ Kept /\ UNCHANGED nextID /\ SameEnds /\ SameData
    /\ LET f == doing[t].f  half == IF doing[t].pc = "copy" THEN 1 ELSE 2 IN
       /\ IF doing[t].op = "lprintf"
          THEN doing' = [doing EXCEPT ![t].gen[half] = lfile[f].gen[half], ![t].pc = IF half = 1 THEN "copy2" ELSE "times"]
               /\ UNCHANGED lfile
          ELSE /\ lfile' = [lfile EXCEPT ![f].gen[half] = doing[t].gen[half]]
               /\ IF half = 1 THEN Turns(t, "copy2") ELSE Returns(t)
       /\ genlock' = IF half = 2 THEN 0 ELSE genlock

\* lprintfgen: the time is taken if tmode is set, and put into the entry if it is set
\* still, or by now.
TakeTime(t) ==
    /\ doing[t].pc = "times" /\ Kept /\ SameFiles /\ UNCHANGED genlock /\ SameEnds /\ SameData
    /\ doing' = [doing EXCEPT ![t].pc = "stamp", ![t].known = lfile[doing[t].f].tmode]

StampEntry(t) ==
    /\ doing[t].pc = "stamp" /\ Kept /\ SameFiles /\ UNCHANGED genlock /\ SameEnds /\ SameData
    /\ doing' = [doing EXCEPT ![t].pc = "write", ![t].timed = lfile[doing[t].f].tmode]

\* The write, to the pipe or the network; it fails when nobody has the read end, for
\* SIGPIPE is ignored by whoever uses the library.
PutEntry(t, entry) ==
    LET f == doing[t].f IN
    \/ /\ UNCHANGED faultsleft
       /\ IF ~lfile[f].piped THEN atnet' = [atnet EXCEPT ![f] = Append(@, entry)] /\ UNCHANGED inpipe
          ELSE IF piper[f] # {} THEN inpipe' = [inpipe EXCEPT ![f] = Append(@, entry)] /\ UNCHANGED atnet
          ELSE SameData
    \/ Fault /\ SameData

\* The default generator becomes the process and the thread.
expand_gen(gen, t) == [text |-> gen, thread |-> IF gen = <<0, 0>> THEN t ELSE 0]

WriteEntry(t) ==
    /\ doing[t].pc = "write" /\ Returns(t) /\ PutEntry(t, [by |-> t, gen |-> expand_gen(doing[t].gen, t), known |-> doing[t].known,
                                                           timed |-> doing[t].timed, raced |-> doing[t].raced, after |-> doing[t].after])
    /\ UNCHANGED logcalls /\ SameFiles /\ UNCHANGED genlock /\ SameEnds

\* lsendtime: entries carry times before the byte that says so is written.
SetMode(t) ==
    /\ In(t, "lsendtime", "mode") /\ Kept /\ UNCHANGED <<nextID, genlock>> /\ SameEnds /\ SameData
    /\ lfile' = [lfile EXCEPT ![doing[t].f].tmode = TRUE]
    /\ doing' = [u \in LogThreads |-> IF u = t THEN [doing[t] EXCEPT !.pc = "tell"]
                                      ELSE IF doing[u].f = doing[t].f THEN [doing[u] EXCEPT !.raced = TRUE] ELSE doing[u]]

Announcement == [by |-> 0, gen |-> expand_gen(<<0, 0>>, 0), known |-> TRUE, timed |-> FALSE, raced |-> FALSE, after |-> FALSE]
TellMode(t) ==
    /\ In(t, "lsendtime", "tell") /\ Returns(t) /\ PutEntry(t, Announcement) /\ UNCHANGED <<logcalls, nextID, genlock>> /\ SameEnds
    /\ lfile' = [lfile EXCEPT ![doing[t].f].told = TRUE]

-----------------------------------------------------------------------------
LogStep(t) ==
    \/ LopenConnect(t) \/ LopenId(t) \/ MakePipe(t) \/ GoThroughPipe(t) \/ CloseReader(t) \/ LopenReturns(t) \/ Lclose(t)
    \/ LockGenerator(t) \/ CopyGenerator(t) \/ TakeTime(t) \/ StampEntry(t) \/ WriteEntry(t) \/ SetMode(t) \/ TellMode(t)
ChildSteps(f) == ChildCopiesPipe(f) \/ ChildEndsCopy(f)

RemoteNext ==
    \/ \E t \in LogThreads : LogStep(t) \/ \E op \in DOMAIN FirstStep, f \in LogFiles : CallLog(t, op, f)
    \/ \E f \in LogFiles : ChildSteps(f)
RemoteSpec == RemoteInit /\ [][RemoteNext]_rlogvars

-----------------------------------------------------------------------------
(* Properties.                                                             *)

EntriesOf(f) == atnet[f] \o inpipe[f]

\* No two loggers have the same id. A generator is one that was set, never half of one
\* and half of another. An entry with a time has the time of the call, unless lsendtime
\* was called during the call; and when nothing failed, an entry that was begun after
\* lsendtime comes after its announcement.
RemoteEntries ==
    /\ \A f, g \in LogFiles : f # g /\ lfile[f].id = lfile[g].id => lfile[f].id = NoId
    /\ \A f \in LogFiles : \A k \in DOMAIN EntriesOf(f) :
          LET e == EntriesOf(f)[k] IN
          /\ e.gen.text \in {<<0, 0>>, <<f, f>>}
          /\ e.timed /\ ~e.raced => e.known
          /\ e.after /\ faultsleft = LogFaults => \E j \in 1 .. k - 1 : EntriesOf(f)[j] = Announcement

\* Two children that keep each other's pipes open wait for ever, each for the end of its
\* own: two threads made their pipes before either of them forked.
Entangled(f, g) == f \in pipew[g] /\ g \in pipew[f]

\* When every logger is closed every connection is closed in the end, and what was logged
\* has arrived, unless a step has failed or two children are entangled; until then a child
\* keeps the pipes that were open when it was created.
AllLoggersClosed == /\ \A f \in LogFiles : lfile[f].state \in {"none", "closed"}
                    /\ logcalls = 0 /\ faultsleft = LogFaults
                    /\ ~ \E f, g \in LogFiles : f # g /\ Entangled(f, g)
AllConnectionsClosed == \A f \in LogFiles : conn[f] = {} /\ (inpipe[f] = <<>> \/ faultsleft # LogFaults)
=============================================================================
