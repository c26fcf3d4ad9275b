-------------------------------- MODULE Uici --------------------------------
(***************************************************************************)
(* appendixC/uici.c (u_open, u_accept, u_connect) and the servers and      *)
(* clients of chapter18 around it:                                         *)
(*                                                                         *)
(*   "server"   server.c: accept, copy until the client ends, close;       *)
(*   "serverp"  serverp.c: a child copies, the parent closes and reaps.    *)
(*                                                                         *)
(* Each client is one client.c: u_connect, copy, exit.  A signal may       *)
(* interrupt its connect; the connection attempt then goes on and u_connect*)
(* selects the socket for writing, which is reported when the attempt has  *)
(* succeeded and when it has failed.  accept starts again after EINTR, and *)
(* the servers do after any other error, which is no step here.  The pair  *)
(* of programs that reflects bytes is at the end.                          *)
(***************************************************************************)
EXTENDS Integers, Sequences, Functions

CONSTANTS
    Clients, NoClient,
    MaxSent,        \* bound: bytes a client sends
    MaxBacklog,     \* MAXBACKLOG
    UicKinds        \* subset of {"server", "serverp"}

ASSUME NoClientAssumption == NoClient \notin Clients
ASSUME UicKindsAssumption == UicKinds \subseteq {"server", "serverp"}

VARIABLES
    ukind, ufaults, slow,       \* constant; slow: a client that never ends
    upc, communfd,              \* the server; the connection in communfd
    backlog,                    \* connections not accepted yet
    client,                     \* start, connecting, select, connected,
                                \* closed; failed: u_connect returned -1
    link,                       \* none, pending, up or refused
    holders,                    \* who has the server's end open
    child,                      \* none, run, zombie or reaped
    sent, got,                  \* bytes
    async                       \* ghost: was connect interrupted

uchoice == <<ukind, ufaults, slow>>
userver == <<upc, communfd, holders, child, got>>
uclient == <<client, sent, async>>
uvars == <<uchoice, userver, backlog, uclient, link>>

UiciInit ==
    /\ ukind \in UicKinds
    /\ ufaults \in {{}, {"open", "fork", "copy", "connect"}}
    /\ slow \in Clients \cup {NoClient}
    /\ upc = "start" /\ communfd = NoClient /\ backlog = << >>
    /\ client = [c \in Clients |-> "start"]
    /\ link = [c \in Clients |-> "none"]
    /\ holders = [c \in Clients |-> {}]
    /\ child = [c \in Clients |-> "none"]
    /\ sent = [c \in Clients |-> 0] /\ got = [c \in Clients |-> 0]
    /\ async = [c \in Clients |-> FALSE]

Listening == upc \notin {"start", "exit"}

\* The server's end of the connection is open, accepted or not.
ServerEnd(c) == c \in Range(backlog) \/ holders[c] # {}

-----------------------------------------------------------------------------
(* u_connect.                                                              *)

ClientGoes(c, from, to) == client[c] = from /\ client' = [client EXCEPT ![c] = to]

\* connect sends its request, unless an earlier call of u_connect fails.
Connect(c) ==
    /\ \/ ClientGoes(c, "start", "connecting") /\ link' = [link EXCEPT ![c] = "pending"]
       \/ "connect" \in ufaults /\ ClientGoes(c, "start", "failed") /\ UNCHANGED link
    /\ UNCHANGED <<uchoice, userver, backlog, sent, async>>

ConnectReturns(c) ==
    /\ \/ link[c] = "up" /\ ClientGoes(c, "connecting", "connected")
       \/ link[c] = "refused" /\ ClientGoes(c, "connecting", "failed")
    /\ UNCHANGED <<uchoice, userver, backlog, sent, async, link>>

ConnectInterrupted(c) ==
    /\ link[c] = "pending"
    /\ ClientGoes(c, "connecting", "select")
    /\ async' = [async EXCEPT ![c] = TRUE]
    /\ UNCHANGED <<uchoice, userver, backlog, sent, link>>

\* select returns 1 once the attempt is over, and u_connect the socket.
ConnectSelected(c) ==
    /\ link[c] \in {"up", "refused"}
    /\ ClientGoes(c, "select", "connected")
    /\ UNCHANGED <<uchoice, userver, backlog, sent, async, link>>

(* The network.                                                            *)

Establish(c) ==
    /\ link[c] = "pending" /\ Listening
    /\ Len(backlog) < MaxBacklog
    /\ link' = [link EXCEPT ![c] = "up"]
    /\ backlog' = Append(backlog, c)
    /\ UNCHANGED <<uchoice, userver, uclient>>

Refuse(c) ==
    /\ link[c] = "pending" /\ ~Listening
    /\ link' = [link EXCEPT ![c] = "refused"]
    /\ UNCHANGED <<uchoice, userver, uclient, backlog>>

(* The rest of client.c.                                                   *)

ClientSends(c) ==
    /\ client[c] = "connected" /\ ServerEnd(c)
    /\ sent[c] < MaxSent
    /\ sent' = [sent EXCEPT ![c] = @ + 1]
    /\ UNCHANGED <<uchoice, userver, backlog, client, async, link>>

\* copyfile ends with its input, or because nobody is at the other end.
ClientCloses(c) ==
    /\ c # slow \/ ~ServerEnd(c)
    /\ ClientGoes(c, "connected", "closed")
    /\ UNCHANGED <<uchoice, userver, backlog, sent, async, link>>

-----------------------------------------------------------------------------
(* The servers.                                                            *)

\* u_open; an error of one of its calls closes the socket and ends the server.
Open ==
    /\ upc = "start"
    /\ upc' \in {"accept"} \cup (IF "open" \in ufaults THEN {"exit"} ELSE {})
    /\ UNCHANGED <<uchoice, communfd, holders, child, got, backlog, uclient, link>>

Accept ==
    /\ upc = "accept" /\ backlog # << >>
    /\ communfd' = Head(backlog)
    /\ backlog' = Tail(backlog)
    /\ holders' = [holders EXCEPT ![communfd'] = {"server"}]
    /\ upc' = IF ukind = "server" THEN "copy" ELSE "fork"
    /\ UNCHANGED <<uchoice, child, got, uclient, link>>

\* One round of copyfile, by whoever holds connection c.
CopyByte(c) ==
    /\ got[c] < sent[c]
    /\ got' = [got EXCEPT ![c] = @ + 1]
    /\ UNCHANGED <<uchoice, upc, communfd, holders, child, backlog, uclient, link>>

\* The client has ended and everything is read, or copying fails.
CopyOver(c) ==
    \/ client[c] = "closed" /\ got[c] = sent[c]
    \/ "copy" \in ufaults

ServerCopies ==
    /\ upc = "copy"
    /\ \/ CopyByte(communfd)
       \/ /\ CopyOver(communfd)
          /\ upc' = "close"
          /\ UNCHANGED <<uchoice, communfd, holders, child, got, backlog, uclient, link>>

\* Mutant of Fork: a failed fork continues the loop, like a failed accept.
ForkContinues ==
    /\ upc = "fork"
    /\ \/ /\ holders' = [holders EXCEPT ![communfd] = @ \cup {"child"}]
          /\ child' = [child EXCEPT ![communfd] = "run"]
          /\ upc' = "close"
       \/ "fork" \in ufaults /\ upc' = "accept" /\ UNCHANGED <<holders, child>>
    /\ UNCHANGED <<uchoice, communfd, got, backlog, uclient, link>>

\* Whether or not there is a child, the parent goes on to close communfd.
Fork ==
    /\ upc = "fork"
    /\ \/ /\ holders' = [holders EXCEPT ![communfd] = @ \cup {"child"}]
          /\ child' = [child EXCEPT ![communfd] = "run"]
       \/ "fork" \in ufaults /\ UNCHANGED <<holders, child>>
    /\ upc' = "close"
    /\ UNCHANGED <<uchoice, communfd, got, backlog, uclient, link>>

CloseCommun ==
    /\ upc = "close"
    /\ holders' = [holders EXCEPT ![communfd] = @ \ {"server"}]
    /\ communfd' = NoClient
    /\ upc' = IF ukind = "server" THEN "accept" ELSE "reap"
    /\ UNCHANGED <<uchoice, child, got, backlog, uclient, link>>

\* r_waitpid with WNOHANG until it finds no zombie.
Reap ==
    /\ upc = "reap"
    /\ \/ \E c \in Clients : /\ child[c] = "zombie"
                             /\ child' = [child EXCEPT ![c] = "reaped"]
                             /\ UNCHANGED upc
       \/ /\ \A c \in Clients : child[c] # "zombie"
          /\ upc' = "accept"
          /\ UNCHANGED child
    /\ UNCHANGED <<uchoice, communfd, holders, got, backlog, uclient, link>>

\* The child copies and exits.
ChildCopies(c) ==
    /\ child[c] = "run"
    /\ \/ CopyByte(c)
       \/ /\ CopyOver(c)
          /\ child' = [child EXCEPT ![c] = "zombie"]
          /\ holders' = [holders EXCEPT ![c] = @ \ {"child"}]
          /\ UNCHANGED <<uchoice, upc, communfd, got, backlog, uclient, link>>

ServerSteps == Open \/ Accept \/ ServerCopies \/ Fork \/ CloseCommun \/ Reap

ClientSteps(c) ==
    \/ ConnectReturns(c) \/ ConnectSelected(c) \/ ClientCloses(c)
    \/ Establish(c) \/ Refuse(c)

UiciNext ==
    \/ ServerSteps
    \/ \E c \in Clients :
          ClientSteps(c) \/ Connect(c) \/ ConnectInterrupted(c) \/ ClientSends(c) \/ ChildCopies(c)

UiciSpec == UiciInit /\ [][UiciNext]_uvars

-----------------------------------------------------------------------------
(* Properties.                                                             *)

UiciTypeOK ==
    /\ upc \in {"start", "accept", "copy", "fork", "close", "reap", "exit"}
    /\ Len(backlog) <= MaxBacklog
    /\ \A c \in Clients : holders[c] \subseteq {"server", "child"} /\ got[c] \in 0..sent[c]

\* Whatever fails: a server that waits for the next connection holds no other,
\* so descriptors never pile up and a client sees the end of its connection; a
\* connection has one reader, except between fork and close; the server never
\* leaves a client that is still there unless something failed, and has then
\* read all it sent.  u_connect tells an open connection from a refused one,
\* unless it was interrupted.
ConnectionsOwned ==
    \A c \in Clients :
        /\ upc = "accept" => "server" \notin holders[c]
        /\ holders[c] = {"server", "child"} => upc = "close" /\ communfd = c
        /\ child[c] = "run" <=> "child" \in holders[c]
        /\ link[c] = "up" /\ ~ServerEnd(c) /\ ufaults = {} =>
               client[c] = "closed" /\ got[c] = sent[c]
        /\ client[c] = "connected" /\ ~async[c] => link[c] = "up"

\* u_connect returns a descriptor only for a connection that was made, and -1
\* otherwise.
ConnectReportsFailure == \A c \in Clients : client[c] = "connected" => link[c] # "refused"

\* A connection the server ought to bring to its end: all but that of the slow
\* client with serverp, and with server when no client is slow.
DueToEnd(c) == link[c] = "up" /\ (slow = NoClient \/ (ukind = "serverp" /\ c # slow))

-----------------------------------------------------------------------------
(* chapter18/reflectclient.c and reflectserver.c: the client writes its    *)
(* whole test message before it reads any of the answer; the server copies *)
(* what it reads back, with copyfile on one descriptor.  Each direction of *)
(* the connection holds EchoRoom bytes.  The bytes arrive in order, so     *)
(* that their numbers say which they are.                                  *)

CONSTANTS EchoSize, EchoRoom, EchoBlock     \* BUFSIZE; BLKSIZE of readwrite

\* What lets the client finish writing: both directions and at least one byte
\* in the server's buffer take the message.
ASSUME EchoAssumption ==
    /\ {EchoSize, EchoRoom, EchoBlock} \subseteq Nat \ {0}
    /\ EchoSize <= 2 * EchoRoom + 1

VARIABLES
    epc, esent, erecvd,         \* client: write, read, done or failed
    eup, edown,                 \* bytes on their way to, and from, the server
    espc, eblock, ewritten,     \* server: read, write or end; its buffer
    efaults

evars == <<epc, esent, erecvd, eup, edown, espc, eblock, ewritten, efaults>>

EchoInit ==
    /\ epc = "write" /\ esent = 0 /\ erecvd = 0 /\ eup = 0 /\ edown = 0
    /\ espc = "read" /\ eblock = 0 /\ ewritten = 0
    /\ efaults \in {{}, {"io"}}

ClientWrites ==
    /\ epc = "write"
    /\ \E n \in 1..(EchoSize - esent) :
          /\ eup + n <= EchoRoom
          /\ eup' = eup + n /\ esent' = esent + n
    /\ epc' = IF esent' = EchoSize THEN "read" ELSE "write"
    /\ UNCHANGED <<erecvd, edown, espc, eblock, ewritten, efaults>>

ClientReads ==
    /\ epc = "read"
    /\ \E n \in 1..edown : edown' = edown - n /\ erecvd' = erecvd + n
    /\ epc' = IF erecvd' = EchoSize THEN "done" ELSE "read"
    /\ UNCHANGED <<esent, eup, espc, eblock, ewritten, efaults>>

\* The server has ended, so that a write fails and a read finds the end.
ClientFails ==
    /\ espc = "end"
    /\ epc = "write" \/ (epc = "read" /\ edown = 0)
    /\ epc' = "failed"
    /\ UNCHANGED <<esent, erecvd, eup, edown, espc, eblock, ewritten, efaults>>

EchoRead ==
    /\ espc = "read"
    /\ \E n \in 1..EchoBlock : n <= eup /\ eup' = eup - n /\ eblock' = n
    /\ ewritten' = 0
    /\ espc' = "write"
    /\ UNCHANGED <<epc, esent, erecvd, edown, efaults>>

\* Mutant of EchoWrite: a short write is not continued.
EchoWriteOnce ==
    /\ espc = "write"
    /\ \E n \in 1..(eblock - ewritten) :
          edown + n <= EchoRoom /\ edown' = edown + n /\ ewritten' = ewritten + n
    /\ espc' = "read"
    /\ UNCHANGED <<epc, esent, erecvd, eup, eblock, efaults>>

EchoWrite ==
    /\ espc = "write"
    /\ \E n \in 1..(eblock - ewritten) :
          edown + n <= EchoRoom /\ edown' = edown + n /\ ewritten' = ewritten + n
    /\ espc' = IF ewritten' = eblock THEN "read" ELSE "write"
    /\ UNCHANGED <<epc, esent, erecvd, eup, eblock, efaults>>

\* The client has exited, or a read or write fails; the connection is closed.
EchoEnds ==
    /\ espc \in {"read", "write"}
    /\ (epc \in {"done", "failed"} /\ eup = 0) \/ efaults # {}
    /\ espc' = "end"
    /\ UNCHANGED <<epc, esent, erecvd, eup, edown, eblock, ewritten, efaults>>

EchoClient == ClientWrites \/ ClientReads \/ ClientFails
EchoServer == EchoRead \/ EchoWrite \/ EchoEnds
EchoNext == EchoClient \/ EchoServer
EchoSpec == EchoInit /\ [][EchoNext]_evars

-----------------------------------------------------------------------------
(* Properties.                                                             *)

EchoTypeOK == eup \in 0..EchoRoom /\ edown \in 0..EchoRoom /\ ewritten \in 0..eblock

\* Every byte the client has sent and not got back is on its way, in the
\* server's buffer or on its way back; the client never takes the end of the
\* answer for more than there was.
EchoExact ==
    /\ esent = erecvd + edown + eup + IF espc = "read" THEN 0 ELSE eblock - ewritten
    /\ epc = "done" => erecvd = EchoSize
    /\ epc = "failed" => efaults # {}
=============================================================================
