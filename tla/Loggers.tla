------------------------------ MODULE Loggers -------------------------------
(***************************************************************************)
(* The two loggers of appendixD, for several processes that log into one   *)
(* place without any lock between them:                                    *)
(*                                                                         *)
(*   "atomic"  atomic_logger.c: a process collects entries in a list and   *)
(*             sends the list with a single write to a file opened with    *)
(*             O_APPEND, shared by all;                                    *)
(*   "remote"  rlogging.c: lprintf makes a single write of an entry, at    *)
(*             most PIPE_BUF bytes, into a pipe; a child of the process    *)
(*             that called lopen copies the pipe to the network.  Without  *)
(*             the pipe (go_through_pipe failed) the write goes straight   *)
(*             to the network.                                             *)
(*                                                                         *)
(* A write to the file or to the network may be cut short (the disk is     *)
(* full, a signal came): logfaults holds "short" in a run where that       *)
(* happens.  A write of at most PIPE_BUF bytes to a pipe is all or         *)
(* nothing.  Entry k of process p is <<p, k>>, and its byte j <<p, k, j>>. *)
(***************************************************************************)
EXTENDS Integers, Sequences, SequencesExt

CONSTANTS
    LogProcs,       \* the processes that log
    EntryLen,       \* bytes of an entry
    MaxEntries,     \* bound: how many entries a process logs
    MaxSends,       \* bound: how many sends a process tries
    PipeRoom,       \* entries the pipe of lopen has room for
    LogKinds        \* subset of {"atomic", "remote", "direct"}

ASSUME EntryLenAssumption == EntryLen \in Nat \ {0}

VARIABLES
    logkind, logfaults,
    entered,            \* entries each process has logged so far
    list,               \* atomic_logger: first .. last of each process
    sends,              \* how often each process has called a send
    logpipe, chunk,     \* rlogging: the pipe, and buf of readwriteall
    log,                \* the file, or what the network has got: bytes
    accepted            \* ghost: per successful call, the entries of it

logchoice == <<logkind, logfaults>>
logvars == <<logchoice, entered, list, sends, logpipe, chunk, log, accepted>>

LogInit ==
    /\ logkind \in LogKinds
    /\ logfaults \in {{}, {"short"}}
    /\ entered = [p \in LogProcs |-> 0]
    /\ list = [p \in LogProcs |-> << >>]
    /\ sends = [p \in LogProcs |-> 0]
    /\ logpipe = << >> /\ chunk = << >>
    /\ log = << >> /\ accepted = << >>

EntryBytes(e) == [j \in 1..EntryLen |-> e \o <<j>>]
Text(entries) == FlattenSeq([k \in DOMAIN entries |-> EntryBytes(entries[k])])

\* What one write of size bytes may return: everything, or fewer.
WriteCounts(size) == IF "short" \in logfaults THEN -1..size ELSE {size}

-----------------------------------------------------------------------------
(* atomic_logger.c.                                                        *)

LogArray(p) ==
    /\ logkind = "atomic" /\ entered[p] < MaxEntries
    /\ entered' = [entered EXCEPT ![p] = @ + 1]
    /\ list' = [list EXCEPT ![p] = Append(@, <<p, entered'[p]>>)]
    /\ UNCHANGED <<logchoice, sends, logpipe, chunk, log, accepted>>

\* Mutant of LogSend: the list is not cleared.
LogSendKeeps(p) ==
    /\ logkind = "atomic" /\ list[p] # << >> /\ sends[p] < MaxSends
    /\ sends' = [sends EXCEPT ![p] = @ + 1]
    /\ log' = log \o Text(list[p])
    /\ accepted' = Append(accepted, list[p])
    /\ UNCHANGED <<logchoice, entered, list, logpipe, chunk>>

\* A send that did not write everything has failed, and keeps the list.
LogSend(p) ==
    /\ logkind = "atomic" /\ list[p] # << >> /\ sends[p] < MaxSends
    /\ sends' = [sends EXCEPT ![p] = @ + 1]
    /\ LET text == Text(list[p]) IN
       \E written \in WriteCounts(Len(text)) :
          /\ log' = log \o SubSeq(text, 1, written)
          /\ IF written # Len(text) THEN UNCHANGED <<list, accepted>>
             ELSE /\ list' = [list EXCEPT ![p] = << >>]
                  /\ accepted' = Append(accepted, list[p])
    /\ UNCHANGED <<logchoice, entered, logpipe, chunk>>

\* atomic_log_clear, and atomic_log_close with it, drop what was not sent.
LogClear(p) ==
    /\ list[p] # << >>
    /\ list' = [list EXCEPT ![p] = << >>]
    /\ UNCHANGED <<logchoice, entered, sends, logpipe, chunk, log, accepted>>

-----------------------------------------------------------------------------
(* rlogging.c.                                                             *)

\* lprintf, from its write on: into the pipe, or into the network.
Lprintf(p) ==
    /\ logkind # "atomic" /\ entered[p] < MaxEntries
    /\ entered' = [entered EXCEPT ![p] = @ + 1]
    /\ LET text == EntryBytes(<<p, entered'[p]>>) IN
       \/ /\ logkind = "remote"
          /\ Len(logpipe) + EntryLen <= PipeRoom * EntryLen
          /\ logpipe' = logpipe \o text
          /\ accepted' = Append(accepted, << <<p, entered'[p]>> >>)
          /\ UNCHANGED log
       \/ /\ logkind = "direct"
          /\ \E written \in WriteCounts(EntryLen) :
                /\ log' = log \o SubSeq(text, 1, written)
                /\ accepted' = IF written # EntryLen THEN accepted
                               ELSE Append(accepted, << <<p, entered'[p]>> >>)
          /\ UNCHANGED logpipe
    /\ UNCHANGED <<logchoice, list, sends, chunk>>

\* readwriteall: one r_read of whatever the pipe holds, up to RWBUFSIZE.
ChildReads ==
    /\ chunk = << >>
    /\ \E n \in 1..Len(logpipe) :
          /\ chunk' = SubSeq(logpipe, 1, n)
          /\ logpipe' = SubSeq(logpipe, n + 1, Len(logpipe))
    /\ UNCHANGED <<logchoice, entered, list, sends, log, accepted>>

\* One write of its r_write.
ChildWrites ==
    /\ \E n \in 1..Len(chunk) :
          /\ log' = log \o SubSeq(chunk, 1, n)
          /\ chunk' = SubSeq(chunk, n + 1, Len(chunk))
    /\ UNCHANGED <<logchoice, entered, list, sends, logpipe, accepted>>

ChildStep == ChildReads \/ ChildWrites

LogNext ==
    \/ \E p \in LogProcs : LogArray(p) \/ LogSend(p) \/ LogClear(p) \/ Lprintf(p)
    \/ ChildStep

LogSpec == LogInit /\ [][LogNext]_logvars

-----------------------------------------------------------------------------
(* Properties.                                                             *)

LogTypeOK ==
    /\ \A p \in LogProcs : entered[p] \in 0..MaxEntries /\ Len(list[p]) <= MaxEntries
    /\ logkind # "remote" => logpipe = << >> /\ chunk = << >>

LogStream == log \o chunk \o logpipe

StandsTogether(text) ==
    \E i \in 0..(Len(LogStream) - Len(text)) :
        SubSeq(LogStream, i + 1, i + Len(text)) = text

\* The entries of a call that reported success stand together in the log, with
\* nothing of another process between their bytes, whatever other processes
\* do; when no write is cut short, the log is those entries in the order of the
\* calls and nothing else, and none is there twice.
EntriesWhole ==
    /\ \A k \in DOMAIN accepted : StandsTogether(Text(accepted[k]))
    /\ logfaults = {} => LogStream = Text(FlattenSeq(accepted))
    /\ \A k, l \in DOMAIN accepted : k # l => Range(accepted[k]) \cap Range(accepted[l]) = {}

LogUnderWay == logpipe # << >> \/ chunk # << >>
=============================================================================
