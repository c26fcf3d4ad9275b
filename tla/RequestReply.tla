---------------------------- MODULE RequestReply ----------------------------
(***************************************************************************)
(* The three request-reply protocols of chapter20 over UDP, on one socket: *)
(*                                                                         *)
(*   "wait"     request_reply.c: send, then receive until the sender is    *)
(*              the server;                                                *)
(*   "timeout"  request_reply_timeout.c: the same with u_recvfromtimed;    *)
(*   "retry"    request_reply_timeout_retry.c: sends again, up to          *)
(*              maxretries times.                                          *)
(*                                                                         *)
(* The server echoes.  Call k sends request k; nothing in a datagram tells *)
(* one try from another.  Datagrams are lost, duplicated and reordered,    *)
(* and strangers send to the socket too.  A datagram is in flight until it *)
(* is received or lost, for nobody can tell whether it was still on its    *)
(* way or already queued at the socket.                                    *)
(***************************************************************************)
EXTENDS Integers

CONSTANTS
    MaxCalls,       \* bound: calls made on the socket
    MaxRetries,     \* maxretries
    MaxStrays,      \* bound: datagrams of strangers
    MaxDups,        \* bound: duplications
    RRKinds         \* subset of {"wait", "timeout", "retry"}

ASSUME MaxRetriesAssumption == MaxRetries \in Nat \ {0}
ASSUME MaxCallsAssumption == MaxCalls \in Nat
ASSUME RRKindsAssumption == RRKinds \subseteq {"wait", "timeout", "retry"}

Ids == 1..MaxCalls
Stranger == MaxCalls + 1

VARIABLES
    rrkind, rrfaults,       \* constant; subsets of {"send", "recv"}
    qpc, qcall, retries,    \* idle, send or wait; the call; its timeouts
    requests, replies,      \* how many datagrams are in flight, by request
    strays, dups,           \* sent by strangers; duplications so far
    returned,               \* what call k returned: an id, or 0
    tries, executed         \* ghosts: sends of call k; requests k served

rrchoice == <<rrkind, rrfaults>>
rrclient == <<qpc, qcall, retries, returned, tries>>
rrnet == <<requests, replies, strays, dups>>
rrvars == <<rrchoice, rrclient, rrnet, executed>>

ReqInit ==
    /\ rrkind \in RRKinds /\ rrfaults \in {{}, {"send", "recv"}}
    /\ qpc = "idle" /\ qcall = 0 /\ retries = 0
    /\ requests = [k \in Ids |-> 0] /\ replies = [k \in Ids \cup {Stranger} |-> 0]
    /\ strays = 0 /\ dups = 0
    /\ returned = [k \in Ids |-> 0]
    /\ tries = [k \in Ids |-> 0] /\ executed = [k \in Ids |-> 0]

Add(f, k, n) == [f EXCEPT ![k] = @ + n]

-----------------------------------------------------------------------------
(* The client.                                                             *)

CallRequest ==
    /\ qpc = "idle" /\ qcall < MaxCalls
    /\ qcall' = qcall + 1
    /\ retries' = 0
    /\ qpc' = "send"
    /\ UNCHANGED <<rrchoice, returned, tries, rrnet, executed>>

SendRequest ==
    /\ qpc = "send"
    /\ requests' = Add(requests, qcall, 1)
    /\ tries' = Add(tries, qcall, 1)
    /\ qpc' = "wait"
    /\ UNCHANGED <<rrchoice, qcall, retries, returned, replies, strays, dups, executed>>

\* u_sendtohost returns -1: so does the call, without another try.
SendRequestFails ==
    /\ qpc = "send" /\ "send" \in rrfaults
    /\ qpc' = "idle"
    /\ UNCHANGED <<rrchoice, qcall, retries, returned, tries, rrnet, executed>>

\* Mutant of ReceiveReply: u_comparehost is not asked.
ReceiveFromAnybody(k) ==
    /\ qpc = "wait" /\ replies[k] > 0
    /\ replies' = Add(replies, k, -1)
    /\ qpc' = "idle"
    /\ returned' = [returned EXCEPT ![qcall] = k]
    /\ UNCHANGED <<rrchoice, qcall, retries, tries, requests, strays, dups, executed>>

\* A datagram arrives.  u_comparehost drops it when it is from a stranger, or
\* cannot look up the server's name; the wait starts again, with its full timeout.
ReceiveReply(k) ==
    /\ qpc = "wait" /\ replies[k] > 0
    /\ replies' = Add(replies, k, -1)
    /\ \/ k # Stranger /\ qpc' = "idle" /\ returned' = [returned EXCEPT ![qcall] = k]
       \/ (k = Stranger \/ "recv" \in rrfaults) /\ UNCHANGED <<qpc, returned>>
    /\ UNCHANGED <<rrchoice, qcall, retries, tries, requests, strays, dups, executed>>

\* u_recvfromtimed returns -1: the time is up, or receiving failed.
WaitOver ==
    /\ qpc = "wait"
    /\ rrkind # "wait" \/ "recv" \in rrfaults
    /\ retries' = retries + 1
    /\ qpc' = IF rrkind = "retry" /\ retries' < MaxRetries THEN "send" ELSE "idle"
    /\ UNCHANGED <<rrchoice, qcall, returned, tries, rrnet, executed>>

-----------------------------------------------------------------------------
(* server_udp_request_reply.c and the network.                             *)

Serve(k) ==
    /\ requests[k] > 0
    /\ requests' = Add(requests, k, -1)
    /\ executed' = Add(executed, k, 1)
    /\ \/ replies' = Add(replies, k, 1)
       \/ "send" \in rrfaults /\ UNCHANGED replies
    /\ UNCHANGED <<rrchoice, rrclient, strays, dups>>

LoseRequest(k) == requests[k] > 0 /\ requests' = Add(requests, k, -1) /\ UNCHANGED replies
LoseReply(k) == replies[k] > 0 /\ replies' = Add(replies, k, -1) /\ UNCHANGED requests

Lose ==
    /\ \E k \in Ids : LoseRequest(k) \/ LoseReply(k)
    /\ UNCHANGED <<rrchoice, rrclient, strays, dups, executed>>

Duplicate(k) ==
    /\ dups < MaxDups /\ dups' = dups + 1
    /\ \/ requests[k] > 0 /\ requests' = Add(requests, k, 1) /\ UNCHANGED replies
       \/ replies[k] > 0 /\ replies' = Add(replies, k, 1) /\ UNCHANGED requests
    /\ UNCHANGED <<rrchoice, rrclient, strays, executed>>

Stray ==
    /\ strays < MaxStrays /\ strays' = strays + 1
    /\ replies' = Add(replies, Stranger, 1)
    /\ UNCHANGED <<rrchoice, rrclient, requests, dups, executed>>

RequesterStep ==
    \/ SendRequest \/ SendRequestFails \/ WaitOver
    \/ \E k \in Ids \cup {Stranger} : ReceiveReply(k)

ReqNext ==
    \/ CallRequest \/ RequesterStep \/ Lose \/ Stray
    \/ \E k \in Ids : Serve(k) \/ Duplicate(k)

ReqSpec == ReqInit /\ [][ReqNext]_rrvars

-----------------------------------------------------------------------------
(* Properties.                                                             *)

ReqTypeOK ==
    /\ qpc \in {"idle", "send", "wait"} /\ qcall \in 0..MaxCalls
    /\ \A k \in Ids : requests[k] >= 0 /\ replies[k] >= 0

Ended(k) == k < qcall \/ (k = qcall /\ qpc = "idle")

\* What a call returns is the server's answer to a request made on this socket,
\* and the server has served it.  It is an older request than the one just sent
\* only when the network duplicated something, or when that older call was
\* sent more than once or ended without its own answer.  No call sends more
\* than maxretries times, and without failures one that gives up has used them
\* all.
AnswersMatch ==
    \A k \in Ids :
        /\ returned[k] # 0 =>
               /\ returned[k] <= k /\ executed[returned[k]] > 0
               /\ returned[k] # k => \/ dups > 0
                                     \/ tries[returned[k]] > 1
                                     \/ returned[returned[k]] # returned[k]
        /\ tries[k] <= IF rrkind = "retry" THEN MaxRetries ELSE 1
        /\ Ended(k) /\ returned[k] = 0 /\ rrfaults = {} =>
               rrkind # "wait" /\ tries[k] = IF rrkind = "retry" THEN MaxRetries ELSE 1

InRequest == qpc # "idle" /\ rrkind # "wait"
=============================================================================
