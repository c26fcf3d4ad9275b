------------------------------- MODULE Sockets -------------------------------
(***************************************************************************)
(* The programs of chapters 18 and 20 as their routines and system calls:  *)
(* which descriptors each call leaves open when one of its steps fails,    *)
(* what a client may conclude from a datagram, how group members leave.    *)
(***************************************************************************)
EXTENDS Integers, Sequences

CONSTANTS
    NumPeers,       \* bound on processes
    SocketScripts,  \* the programs to choose from
    LeaveAfter,     \* the messages after which multicast_rectest leaves
    MaxLines,       \* bound on the lines sender_udp reads
    MaxStrays,      \* bound on datagrams of other senders
    MaxErrors       \* bound on the calls that fail

VARIABLES
    net,            \* constant: the name of the script
    errors,         \* the failures that may still happen
    strays,         \* the datagrams other senders may still send
    peer,           \* process -> record, see Idle
    wire,           \* the datagrams under way or queued: [from, to, body]
    calls           \* connections not yet accepted, by the client that made them

netvars == <<net, errors, strays, peer, wire, calls>>

Peers == 1..NumPeers

\* Server and port name the first process.  A stranger is another port of its host, or
\* the same port of another host, and none of the processes.
OtherPort == -1
OtherHost == -2
Strangers == {OtherPort, OtherHost}

ASSUME NumPeersAssumption == NumPeers \in Nat \ {0}
ASSUME ErrorsAssumption == MaxErrors \in Nat /\ MaxStrays \in Nat

-----------------------------------------------------------------------------
(* The code, by the name of each step: its system call, the descriptor,    *)
(* the step that follows, and the one that follows when it fails.  A       *)
(* routine is told where its caller goes on when it returns, and where     *)
(* when it returns -1.  A main program ends with "return" (0) or "error".  *)

Do(op, v, then, fail) == [op |-> op, v |-> v, then |-> then, fail |-> fail]
f ++ g == [label \in DOMAIN f \cup DOMAIN g |-> IF label \in DOMAIN f THEN f[label] ELSE g[label]]
Sys(then, fail) == Do("sys", "none", then, fail)      \* a call with no other effect than to fail
Shut(v, then, fail) == Do("close", v, then, fail)

u_ignore_sigpipe(then, fail) == [sigaction |-> Sys("ignore", fail), ignore |-> Do("ignore", "none", then, fail)]

\* Mutant of u_open: the socket stays open when the port cannot be bound.
u_openLeak(then, fail) ==
    u_ignore_sigpipe("socket", fail) ++
    [socket |-> Do("socket", "listen", "setsockopt", fail), setsockopt |-> Sys("bind", "u_open_error"),
     bind |-> Sys("listen", fail), listen |-> Do("listen", "listen", then, "u_open_error"),
     u_open_error |-> Shut("listen", fail, fail)]

u_open(then, fail) ==
    u_ignore_sigpipe("socket", fail) ++
    [socket |-> Do("socket", "listen", "setsockopt", fail), setsockopt |-> Sys("bind", "u_open_error"),
     bind |-> Sys("listen", "u_open_error"), listen |-> Do("listen", "listen", then, "u_open_error"),
     u_open_error |-> Shut("listen", fail, fail)]
u_accept(then, fail) == [accept |-> Do("accept", "listen", then, fail)]
u_connect(then, fail) ==
    u_ignore_sigpipe("socket", fail) ++
    [name2addr |-> Sys("sigaction", fail), socket |-> Do("socket", "comm", "connect", fail),
     connect |-> Do("connect", "comm", then, "u_connect_error"), u_connect_error |-> Shut("comm", fail, fail)]

server2 == u_open("accept", "error") ++ u_accept("copy", "accept") ++
    [copy |-> Do("copy", "comm", "close", "close"), close |-> Shut("comm", "accept", "accept")]
serverp2 == u_open("accept", "error") ++ u_accept("fork", "accept") ++
    [fork |-> Do("fork", "child", "parent", "parent"),
     parent |-> Shut("comm", "reap", "reap"), reap |-> Do("reap", "none", "accept", "accept"),
     child |-> Shut("listen", "copy", "copy"), copy |-> Do("copy", "comm", "close", "close"),
     close |-> Shut("comm", "return", "return")]
client2 == u_connect("copy", "error") ++ [copy |-> Do("copy", "comm", "return", "return")]
client_audio == u_connect("copy", "error") ++
    [copy |-> Do("copy", "comm", "close", "close"), close |-> Shut("comm", "return", "return")]

u_openudp(then, fail) ==
    [socket |-> Do("socket", "udp", "reuse", fail), reuse |-> Sys("bindudp", "u_openudp_error"),
     bindudp |-> Do("bind", "udp", then, "u_openudp_error"), u_openudp_error |-> Shut("udp", fail, fail)]
u_recvfrom(then, fail) == [recvfrom |-> Do("recvfrom", "udp", then, fail)]

\* Mutant of u_recvfromtimed: it waits without the timeout.
u_recvfromtimedLong(then, fail) == [wait |-> Do("recvfrom", "udp", then, fail)]

u_recvfromtimed(then, fail) == [wait |-> Do("waitfdtimed", "udp", "recvfrom", fail)] ++ u_recvfrom(then, fail)
u_sendto(then, fail) == [sendto |-> Do("sendto", "udp", then, fail)]
u_sendtohost(then, fail) == [findhost |-> Sys("sendto", fail)] ++ u_sendto(then, fail)
\* The port, the address found for the name, and the address of the sender; no match
\* also when the name is not found.
u_comparehost(then, fail) ==
    [sameport |-> Do("sameport", "none", "findaddress", fail), findaddress |-> Sys("sameaddress", fail),
     sameaddress |-> Do("sameaddress", "none", then, fail)]
u_join(then, fail) == u_openudp("join", fail) ++ [join |-> Do("join", "udp", then, fail)]
u_leave(then, fail) == [leave |-> Do("leave", "udp", then, fail)]
request_reply(then, fail) ==
    u_sendtohost("recvfrom", fail) ++ u_recvfrom("sameport", fail) ++ u_comparehost(then, "recvfrom")
request_reply_timeout(then, fail) ==
    u_sendtohost("wait", fail) ++ u_recvfromtimed("sameport", fail) ++ u_comparehost(then, "wait")

Output(then, fail) == [echo |-> Do("echo", "none", then, fail)]
Undo(v) == [close |-> Shut(v, "return", "error"), undo |-> Shut(v, "error", "error")]

server_udp == u_openudp("recvfrom", "error") ++ u_recvfrom("echo", "recvfrom") ++ Output("recvfrom", "recvfrom")
server_udp_request_reply == u_openudp("recvfrom", "error") ++ u_recvfrom("echo", "recvfrom") ++
    Output("sendto", "sendto") ++ u_sendto("recvfrom", "recvfrom")
sender_udp == u_openudp("line", "error") ++ [line |-> Do("line", "none", "findhost", "return")] ++
    u_sendtohost("line", "error")
client_udp == u_openudp("findhost", "error") ++ u_sendtohost("close", "undo") ++ Undo("udp")
client_udp_request_reply == u_openudp("findhost", "error") ++ request_reply("echo", "undo") ++
    Output("close", "undo") ++ Undo("udp")
client_udp_request_reply_timeout == u_openudp("findhost", "error") ++ request_reply_timeout("echo", "undo") ++
    Output("close", "undo") ++ Undo("udp")
multicast_receiver == u_join("recvfrom", "error") ++ u_recvfrom("echo", "return") ++ Output("recvfrom", "return")
multicast_rectest == u_join("recvfrom", "error") ++ u_recvfrom("echo", "return") ++ Output("count", "return") ++
    [count |-> Do("count", "none", "leave", "recvfrom")] ++ u_leave("recvfrom", "recvfrom")
putblock == [open |-> Do("socket", "file", "seek", "error"), seek |-> Do("seek", "file", "put", "undo"),
             put |-> Do("put", "file", "close", "undo")] ++ Undo("file")

Mains == [server2 |-> server2, serverp2 |-> serverp2, client2 |-> client2, client_audio |-> client_audio,
         server_udp |-> server_udp, server_udp_request_reply |-> server_udp_request_reply, sender_udp |-> sender_udp,
         client_udp |-> client_udp, client_udp_request_reply |-> client_udp_request_reply,
         client_udp_request_reply_timeout |-> client_udp_request_reply_timeout,
         multicast_receiver |-> multicast_receiver, multicast_rectest |-> multicast_rectest, putblock |-> putblock]
Entry(program) == CASE program \in {"server2", "serverp2"} -> "sigaction"
                    [] program \in {"client2", "client_audio"} -> "name2addr"
                    [] program = "putblock" -> "open"
                    [] OTHER -> "socket"

\* Which programs run together; the first is the server the others name.
Together == [tcp |-> <<"server2", "client2", "client_audio">>, tcpfork |-> <<"serverp2", "client2", "client_audio">>,
             datagrams |-> <<"server_udp", "client_udp", "sender_udp">>,
             reply |-> <<"server_udp_request_reply", "client_udp_request_reply">>,
             timeout |-> <<"server_udp_request_reply", "client_udp_request_reply_timeout">>,
             group |-> <<"multicast_receiver", "multicast_rectest", "sender_udp">>, block |-> <<"putblock">>]

ASSUME SocketScriptsAssumption == SocketScripts \subseteq DOMAIN Together

-----------------------------------------------------------------------------
\* at: the step a process is at; open: the descriptors; with: the client at the other end of
\* comm; got: what it has received; from: its sender; echoed: what it has written; sigpipe: the
\* action of SIGPIPE.
Idle == [program |-> "none", at |-> "return", open |-> {}, with |-> 0, got |-> <<>>, from |-> 0, sent |-> 0, late |-> FALSE,
         echoed |-> 0, joined |-> FALSE, placed |-> FALSE, sigpipe |-> "default", parent |-> 0, status |-> "unborn"]

Live(p) == peer[p].status = "running"
AtEnd(p) == peer[p].at \in {"return", "error"}
Current(p) == Mains[peer[p].program][peer[p].at]
Doing(p, op) == Live(p) /\ ~AtEnd(p) /\ Current(p).op = op
Fd(p) == Current(p).v

SocketsInit ==
    /\ net \in SocketScripts
    /\ errors = MaxErrors /\ strays = MaxStrays
    /\ \E sigpipe \in IF net = "tcp" THEN {"default", "caught"} ELSE {"default"} :
          peer = [p \in Peers |-> IF p > Len(Together[net]) THEN Idle
                    ELSE [Idle EXCEPT !.program = Together[net][p], !.at = Entry(Together[net][p]), !.sigpipe = sigpipe, !.status = "running"]]
    /\ wire = {} /\ calls = {}

Now(p, r) == peer' = [peer EXCEPT ![p] = r]
Works(p, r) == Now(p, [r EXCEPT !.at = Current(p).then])
Refuses(p, r) == Now(p, [r EXCEPT !.at = Current(p).fail])
UnchangedNet == UNCHANGED <<net, strays>>
Alone == UnchangedNet /\ UNCHANGED <<errors, wire, calls>>

-----------------------------------------------------------------------------
(* The end of main is the end of the process, which closes its descriptors. *)

Finish(p) ==
    /\ Live(p) /\ AtEnd(p) /\ Alone
    /\ Now(p, [peer[p] EXCEPT !.open = {}, !.joined = FALSE,
                              !.status = IF peer[p].at = "error" THEN "failed" ELSE "ok"])

Faulty == {"sys", "ignore", "socket", "listen", "accept", "connect", "bind", "recvfrom", "sendto", "waitfdtimed",
           "join", "leave", "line", "echo", "seek", "put", "fork", "close"}

\* A call fails; close gives its descriptor back all the same.
CallFails(p) ==
    /\ \E op \in Faulty : Doing(p, op)
    /\ errors > 0 /\ errors' = errors - 1 /\ UnchangedNet /\ UNCHANGED <<wire, calls>>
    /\ Refuses(p, [peer[p] EXCEPT !.open = IF Current(p).op = "close" THEN @ \ {Fd(p)} ELSE @])

Succeed(p) == /\ Doing(p, "sys") /\ Alone
              /\ Works(p, peer[p])

-----------------------------------------------------------------------------
(* Descriptors and connections.                                            *)

SetIgnored(p) == /\ Doing(p, "ignore") /\ Alone
                 /\ Works(p, [peer[p] EXCEPT !.sigpipe = IF @ = "default" THEN "ignored" ELSE @])
MakeSocket(p) == /\ Doing(p, "socket") /\ Alone
                 /\ Works(p, [peer[p] EXCEPT !.open = @ \cup {Fd(p)}])
StartListening(p) == /\ Doing(p, "listen") /\ Alone
                     /\ Works(p, [peer[p] EXCEPT !.joined = TRUE])
BindPort(p) == /\ Doing(p, "bind") /\ Alone /\ Works(p, peer[p])
CloseIt(p) == /\ Doing(p, "close") /\ Alone
              /\ Works(p, [peer[p] EXCEPT !.open = @ \ {Fd(p)}])

Serving == peer[1].joined
\* A server accepts the connections of its backlog, in any order.
AcceptCall(p) ==
    /\ Doing(p, "accept") /\ UnchangedNet /\ UNCHANGED <<errors, wire>>
    /\ \E c \in calls : /\ calls' = calls \ {c}
                        /\ Works(p, [peer[p] EXCEPT !.open = @ \cup {"comm"}, !.with = c])

\* Refused when the server does not listen: an error, but not when connect had been
\* interrupted before, and select has waited.
ConnectTo(p) ==
    /\ Doing(p, "connect") /\ UnchangedNet /\ UNCHANGED <<errors, wire>>
    /\ IF Serving THEN /\ calls' = calls \cup {p} /\ Works(p, [peer[p] EXCEPT !.with = p])
       ELSE /\ UNCHANGED calls /\ \/ Refuses(p, peer[p])
                                  \/ Works(p, peer[p])

Connected(p) == peer[p].with # 0
OtherEnd(p) == peer[p].with \in calls \/ \E q \in Peers \ {p} : "comm" \in peer[q].open /\ peer[q].with = peer[p].with

\* The copy ends with the input, or when the other end is closed: then writing to it
\* raises SIGPIPE.
CopyUntilEnd(p) ==
    /\ Doing(p, "copy") /\ Alone
    /\ \/ Works(p, [peer[p] EXCEPT !.sent = 1])
       \/ /\ Connected(p) /\ ~OtherEnd(p) /\ peer[p].sigpipe = "default"
          /\ Now(p, [peer[p] EXCEPT !.open = {}, !.status = "killed"])

Spare == {p \in Peers : peer[p].status = "unborn"}
ForkServer(p) ==
    /\ Doing(p, "fork") /\ Alone
    /\ \E q \in Spare : peer' = [peer EXCEPT ![p].at = Current(p).then,
                                  ![q] = [peer[p] EXCEPT !.at = Fd(p), !.parent = p]]
\* r_waitpid with WNOHANG, until there is no zombie.
ReapAll(p) ==
    /\ Doing(p, "reap") /\ Alone
    /\ peer' = [q \in Peers |-> IF q = p THEN [peer[p] EXCEPT !.at = Current(p).then]
                                ELSE IF peer[q].parent = p /\ peer[q].status \in {"ok", "failed"} THEN Idle ELSE peer[q]]

-----------------------------------------------------------------------------
(* Datagrams.                                                              *)

Groups == {q \in Peers : peer[q].joined}
\* To the server, to every member of the group, or back to the sender of a request.
Targets(p) == IF net = "group" THEN Groups ELSE IF p = 1 THEN {peer[p].from} ELSE {1}
Sent(p) == [n |-> peer[p].sent + 1, by |-> IF p = 1 THEN peer[p].got[Len(peer[p].got)].by ELSE p]

\* The network may lose it.
SendDatagram(p) ==
    /\ Doing(p, "sendto") /\ UnchangedNet /\ UNCHANGED calls
    /\ \/ /\ wire' = wire \cup {[from |-> p, to |-> q, body |-> Sent(p)] : q \in Targets(p)}
          /\ UNCHANGED errors
       \/ errors > 0 /\ errors' = errors - 1 /\ UNCHANGED wire
    /\ Works(p, [peer[p] EXCEPT !.sent = @ + 1])

Mine(p) == {d \in wire : d.to = p}
Receive(p) ==
    /\ Doing(p, "recvfrom") /\ UnchangedNet /\ UNCHANGED <<errors, calls>>
    /\ \E d \in Mine(p) : /\ wire' = wire \ {d}
                          /\ Works(p, [peer[p] EXCEPT !.got = Append(@, d.body), !.from = d.from])

\* select reports a datagram, or the time is over.
WaitTimed(p) ==
    /\ Doing(p, "waitfdtimed") /\ Alone
    /\ \/ Mine(p) # {} /\ Works(p, peer[p])
       \/ Refuses(p, [peer[p] EXCEPT !.late = TRUE])

\* Mutant of Compare: the port is enough.
ComparePort(p) ==
    /\ Alone
    /\ \/ Doing(p, "sameport") /\ IF peer[p].from = OtherPort THEN Refuses(p, peer[p]) ELSE Works(p, peer[p])
       \/ Doing(p, "sameaddress") /\ Works(p, peer[p])

Compare(p) ==
    /\ Alone
    /\ \/ Doing(p, "sameport") /\ IF peer[p].from = OtherPort THEN Refuses(p, peer[p]) ELSE Works(p, peer[p])
       \/ Doing(p, "sameaddress") /\ IF peer[p].from = OtherHost THEN Refuses(p, peer[p]) ELSE Works(p, peer[p])

Echo(p) == /\ Doing(p, "echo") /\ Alone
           /\ Works(p, [peer[p] EXCEPT !.echoed = @ + 1])
\* Standard input, to its end.
ReadInput(p) == /\ Doing(p, "line") /\ Alone
                /\ IF peer[p].sent < MaxLines THEN Works(p, peer[p]) ELSE Refuses(p, peer[p])
JoinGroup(p) == /\ Doing(p, "join") /\ Alone
                /\ Works(p, [peer[p] EXCEPT !.joined = TRUE])
LeaveGroup(p) == /\ Doing(p, "leave") /\ Alone
                 /\ Works(p, [peer[p] EXCEPT !.joined = FALSE])
CountMessage(p) == /\ Doing(p, "count") /\ Alone
                   /\ IF peer[p].echoed = LeaveAfter THEN Works(p, peer[p]) ELSE Refuses(p, peer[p])
\* putblock: the block is in its place when the write after the seek has worked.
SeekBlock(p) == /\ Doing(p, "seek") /\ Alone /\ Works(p, peer[p])
PutData(p) == /\ Doing(p, "put") /\ Alone
              /\ Works(p, [peer[p] EXCEPT !.placed = TRUE])

StrayDatagram ==
    /\ strays > 0 /\ strays' = strays - 1 /\ net \in {"reply", "timeout"} /\ UNCHANGED <<net, errors, peer, calls>>
    /\ \E from \in Strangers : wire' = wire \cup {[from |-> from, to |-> 2, body |-> [n |-> strays, by |-> from]]}

PeerStep(p) == Live(p) /\
  (    \/ Finish(p) \/ Succeed(p) \/ SetIgnored(p) \/ MakeSocket(p) \/ StartListening(p) \/ BindPort(p)
    \/ CloseIt(p) \/ AcceptCall(p) \/ ConnectTo(p) \/ CopyUntilEnd(p) \/ ForkServer(p) \/ ReapAll(p)
    \/ SendDatagram(p) \/ Receive(p) \/ WaitTimed(p) \/ Compare(p) \/ Echo(p) \/ ReadInput(p)
    \/ JoinGroup(p) \/ LeaveGroup(p) \/ CountMessage(p) \/ SeekBlock(p) \/ PutData(p))

SocketsNext == (\E p \in Peers : PeerStep(p) \/ CallFails(p)) \/ StrayDatagram

SocketsSpec == SocketsInit /\ [][SocketsNext]_netvars

-----------------------------------------------------------------------------
(* Properties.                                                             *)

Failed(p) == Live(p) /\ peer[p].at = "error"
Uses == {"listen", "accept", "connect", "copy", "bind", "sendto", "recvfrom", "waitfdtimed", "join", "leave", "seek", "put", "close"}

\* Whatever fails: no call uses a descriptor that is not open; a program that gives up has closed
\* what its routines had opened, but for u_join, whose callers end, and the two clients that end
\* with their descriptor; a server that waits for the next client
\* has no descriptor of the one before, and the child of one keeps no listening descriptor; a
\* write to a closed connection kills nobody.
SocketsClosed ==
    \A p \in Peers :
       /\ Live(p) /\ (\E op \in Uses : Doing(p, op)) => Fd(p) \in peer[p].open
       /\ Failed(p) /\ peer[p].program \notin {"multicast_receiver", "multicast_rectest", "sender_udp"} => peer[p].open = {}
       /\ Doing(p, "accept") => peer[p].open = {"listen"}
       /\ peer[p].parent # 0 /\ Doing(p, "copy") => peer[p].open = {"comm"}
       /\ peer[p].status # "killed"

Requesters == {p \in Peers : peer[p].program \in {"client_udp_request_reply", "client_udp_request_reply_timeout"}}

\* What an exit status says: a request was answered by the server it was sent to, not by a
\* stranger, and the answer written; a datagram was sent; the block is in its place and every
\* call has worked. A request without timeout fails only when something has failed.
StatusTells ==
    \A p \in Peers :
       /\ p \in Requesters /\ peer[p].echoed > 0 => peer[p].got[Len(peer[p].got)] = [n |-> 1, by |-> p]
       /\ p \in Requesters /\ peer[p].status = "ok" => peer[p].echoed = 1
       /\ p \in Requesters /\ peer[p].status = "failed" => errors < MaxErrors \/ peer[p].late
       /\ peer[p].program = "client_udp" /\ peer[p].status = "ok" => peer[p].sent = 1
       /\ peer[p].program = "putblock" /\ ~Live(p) => (peer[p].status = "ok") = (peer[p].placed /\ errors = MaxErrors)

\* Every client ends, but a request without timeout when a datagram or the name of its server was lost;
\* receivers wait on.
Receiver(p) == peer[p].program \in {"server2", "serverp2", "server_udp", "server_udp_request_reply", "multicast_receiver", "multicast_rectest"}
ClientsOver == \A p \in Peers : peer[p].status = "unborn" \/ (Receiver(p) /\ peer[p].parent = 0) \/ ~Live(p)
SocketsDone == ClientsOver \/ (net = "reply" /\ errors < MaxErrors)
=============================================================================
