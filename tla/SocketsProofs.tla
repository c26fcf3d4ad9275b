--------------------------- MODULE SocketsProofs ---------------------------
(***************************************************************************)
(* Theorems about Sockets (chapters 18 and 20: servers and clients of      *)
(* connections and of datagrams) for every set of its scripts and any      *)
(* number of processes, of failures and of datagrams of strangers.         *)
(***************************************************************************)
EXTENDS Sockets, SequenceTheorems, TLAPS

(* The steps of each program, as its routines put them together.           *)

LEMMA OpenudpCode ==
    ASSUME NEW then, NEW fail
    PROVE  /\ DOMAIN u_openudp(then, fail) = {"socket", "reuse", "bindudp", "u_openudp_error"}
           /\ u_openudp(then, fail).socket = Do("socket", "udp", "reuse", fail)
           /\ u_openudp(then, fail).reuse = Sys("bindudp", "u_openudp_error")
           /\ u_openudp(then, fail).bindudp = Do("bind", "udp", then, "u_openudp_error")
           /\ u_openudp(then, fail).u_openudp_error = Shut("udp", fail, fail)
  BY DEF u_openudp

LEMMA RequestCode ==
    ASSUME NEW then, NEW fail
    PROVE  /\ DOMAIN request_reply(then, fail) = {"findhost", "sendto", "recvfrom", "sameport", "findaddress",
               "sameaddress"}
           /\ request_reply(then, fail).findhost = Sys("sendto", fail)
           /\ request_reply(then, fail).sendto = Do("sendto", "udp", "recvfrom", fail)
           /\ request_reply(then, fail).recvfrom = Do("recvfrom", "udp", "sameport", fail)
           /\ request_reply(then, fail).sameport = Do("sameport", "none", "findaddress", "recvfrom")
           /\ request_reply(then, fail).findaddress = Sys("sameaddress", "recvfrom")
           /\ request_reply(then, fail).sameaddress = Do("sameaddress", "none", then, "recvfrom")
  BY DEF ++, request_reply, u_sendtohost, u_sendto, u_recvfrom, u_comparehost

LEMMA TimeoutCode ==
    ASSUME NEW then, NEW fail
    PROVE  /\ DOMAIN request_reply_timeout(then, fail) = {"findhost", "sendto", "wait", "recvfrom", "sameport",
               "findaddress", "sameaddress"}
           /\ request_reply_timeout(then, fail).findhost = Sys("sendto", fail)
           /\ request_reply_timeout(then, fail).sendto = Do("sendto", "udp", "wait", fail)
           /\ request_reply_timeout(then, fail).wait = Do("waitfdtimed", "udp", "recvfrom", fail)
           /\ request_reply_timeout(then, fail).recvfrom = Do("recvfrom", "udp", "sameport", fail)
           /\ request_reply_timeout(then, fail).sameport = Do("sameport", "none", "findaddress", "wait")
           /\ request_reply_timeout(then, fail).findaddress = Sys("sameaddress", "wait")
           /\ request_reply_timeout(then, fail).sameaddress = Do("sameaddress", "none", then, "wait")
  BY DEF ++, request_reply_timeout, u_sendtohost, u_sendto, u_recvfromtimed, u_recvfrom, u_comparehost

LEMMA OpenCode ==
    ASSUME NEW then, NEW fail
    PROVE  /\ DOMAIN u_open(then, fail) = {"sigaction", "ignore", "socket", "setsockopt", "bind", "listen",
               "u_open_error"}
           /\ u_open(then, fail).sigaction = Sys("ignore", fail)
           /\ u_open(then, fail).ignore = Do("ignore", "none", "socket", fail)
           /\ u_open(then, fail).socket = Do("socket", "listen", "setsockopt", fail)
           /\ u_open(then, fail).setsockopt = Sys("bind", "u_open_error")
           /\ u_open(then, fail).bind = Sys("listen", "u_open_error")
           /\ u_open(then, fail).listen = Do("listen", "listen", then, "u_open_error")
           /\ u_open(then, fail).u_open_error = Shut("listen", fail, fail)
  BY DEF ++, u_open, u_ignore_sigpipe

LEMMA ConnectCode ==
    ASSUME NEW then, NEW fail
    PROVE  /\ DOMAIN u_connect(then, fail) = {"sigaction", "ignore", "name2addr", "socket", "connect",
               "u_connect_error"}
           /\ u_connect(then, fail).sigaction = Sys("ignore", fail)
           /\ u_connect(then, fail).ignore = Do("ignore", "none", "socket", fail)
           /\ u_connect(then, fail).name2addr = Sys("sigaction", fail)
           /\ u_connect(then, fail).socket = Do("socket", "comm", "connect", fail)
           /\ u_connect(then, fail).connect = Do("connect", "comm", then, "u_connect_error")
           /\ u_connect(then, fail).u_connect_error = Shut("comm", fail, fail)
  BY DEF ++, u_connect, u_ignore_sigpipe

LEMMA Server2Code ==
    /\ DOMAIN server2 = {"sigaction", "ignore", "socket", "setsockopt", "bind", "listen", "u_open_error", "accept",
        "copy", "close"}
    /\ server2.sigaction = Sys("ignore", "error")
    /\ server2.ignore = Do("ignore", "none", "socket", "error")
    /\ server2.socket = Do("socket", "listen", "setsockopt", "error")
    /\ server2.setsockopt = Sys("bind", "u_open_error")
    /\ server2.bind = Sys("listen", "u_open_error")
    /\ server2.listen = Do("listen", "listen", "accept", "u_open_error")
    /\ server2.u_open_error = Shut("listen", "error", "error")
    /\ server2.accept = Do("accept", "listen", "copy", "accept")
    /\ server2.copy = Do("copy", "comm", "close", "close")
    /\ server2.close = Shut("comm", "accept", "accept")
  BY OpenCode DEF ++, server2, u_accept

LEMMA Serverp2Code ==
    /\ DOMAIN serverp2 = {"sigaction", "ignore", "socket", "setsockopt", "bind", "listen", "u_open_error", "accept",
        "fork", "parent", "reap", "child", "copy", "close"}
    /\ serverp2.sigaction = Sys("ignore", "error")
    /\ serverp2.ignore = Do("ignore", "none", "socket", "error")
    /\ serverp2.socket = Do("socket", "listen", "setsockopt", "error")
    /\ serverp2.setsockopt = Sys("bind", "u_open_error")
    /\ serverp2.bind = Sys("listen", "u_open_error")
    /\ serverp2.listen = Do("listen", "listen", "accept", "u_open_error")
    /\ serverp2.u_open_error = Shut("listen", "error", "error")
    /\ serverp2.accept = Do("accept", "listen", "fork", "accept")
    /\ serverp2.fork = Do("fork", "child", "parent", "parent")
    /\ serverp2.parent = Shut("comm", "reap", "reap")
    /\ serverp2.reap = Do("reap", "none", "accept", "accept")
    /\ serverp2.child = Shut("listen", "copy", "copy")
    /\ serverp2.copy = Do("copy", "comm", "close", "close")
    /\ serverp2.close = Shut("comm", "return", "return")
  BY OpenCode DEF ++, serverp2, u_accept

LEMMA Client2Code ==
    /\ DOMAIN client2 = {"sigaction", "ignore", "name2addr", "socket", "connect", "u_connect_error", "copy"}
    /\ client2.sigaction = Sys("ignore", "error")
    /\ client2.ignore = Do("ignore", "none", "socket", "error")
    /\ client2.name2addr = Sys("sigaction", "error")
    /\ client2.socket = Do("socket", "comm", "connect", "error")
    /\ client2.connect = Do("connect", "comm", "copy", "u_connect_error")
    /\ client2.u_connect_error = Shut("comm", "error", "error")
    /\ client2.copy = Do("copy", "comm", "return", "return")
  BY ConnectCode DEF ++, client2

LEMMA ClientAudioCode ==
    /\ DOMAIN client_audio = {"sigaction", "ignore", "name2addr", "socket", "connect", "u_connect_error", "copy",
        "close"}
    /\ client_audio.sigaction = Sys("ignore", "error")
    /\ client_audio.ignore = Do("ignore", "none", "socket", "error")
    /\ client_audio.name2addr = Sys("sigaction", "error")
    /\ client_audio.socket = Do("socket", "comm", "connect", "error")
    /\ client_audio.connect = Do("connect", "comm", "copy", "u_connect_error")
    /\ client_audio.u_connect_error = Shut("comm", "error", "error")
    /\ client_audio.copy = Do("copy", "comm", "close", "close")
    /\ client_audio.close = Shut("comm", "return", "return")
  BY ConnectCode DEF ++, client_audio

LEMMA ServerUdpCode ==
    /\ DOMAIN server_udp = {"socket", "reuse", "bindudp", "u_openudp_error", "recvfrom", "echo"}
    /\ server_udp.socket = Do("socket", "udp", "reuse", "error")
    /\ server_udp.reuse = Sys("bindudp", "u_openudp_error")
    /\ server_udp.bindudp = Do("bind", "udp", "recvfrom", "u_openudp_error")
    /\ server_udp.u_openudp_error = Shut("udp", "error", "error")
    /\ server_udp.recvfrom = Do("recvfrom", "udp", "echo", "recvfrom")
    /\ server_udp.echo = Do("echo", "none", "recvfrom", "recvfrom")
  BY OpenudpCode DEF ++, server_udp, u_recvfrom, Output

LEMMA ServerReplyCode ==
    /\ DOMAIN server_udp_request_reply = {"socket", "reuse", "bindudp", "u_openudp_error", "recvfrom", "echo",
        "sendto"}
    /\ server_udp_request_reply.socket = Do("socket", "udp", "reuse", "error")
    /\ server_udp_request_reply.reuse = Sys("bindudp", "u_openudp_error")
    /\ server_udp_request_reply.bindudp = Do("bind", "udp", "recvfrom", "u_openudp_error")
    /\ server_udp_request_reply.u_openudp_error = Shut("udp", "error", "error")
    /\ server_udp_request_reply.recvfrom = Do("recvfrom", "udp", "echo", "recvfrom")
    /\ server_udp_request_reply.echo = Do("echo", "none", "sendto", "sendto")
    /\ server_udp_request_reply.sendto = Do("sendto", "udp", "recvfrom", "recvfrom")
  BY OpenudpCode DEF ++, server_udp_request_reply, u_recvfrom, Output, u_sendto

LEMMA SenderUdpCode ==
    /\ DOMAIN sender_udp = {"socket", "reuse", "bindudp", "u_openudp_error", "line", "findhost", "sendto"}
    /\ sender_udp.socket = Do("socket", "udp", "reuse", "error")
    /\ sender_udp.reuse = Sys("bindudp", "u_openudp_error")
    /\ sender_udp.bindudp = Do("bind", "udp", "line", "u_openudp_error")
    /\ sender_udp.u_openudp_error = Shut("udp", "error", "error")
    /\ sender_udp.line = Do("line", "none", "findhost", "return")
    /\ sender_udp.findhost = Sys("sendto", "error")
    /\ sender_udp.sendto = Do("sendto", "udp", "line", "error")
  BY OpenudpCode DEF ++, sender_udp, u_sendtohost, u_sendto

LEMMA ClientUdpCode ==
    /\ DOMAIN client_udp = {"socket", "reuse", "bindudp", "u_openudp_error", "findhost", "sendto", "close", "undo"}
    /\ client_udp.socket = Do("socket", "udp", "reuse", "error")
    /\ client_udp.reuse = Sys("bindudp", "u_openudp_error")
    /\ client_udp.bindudp = Do("bind", "udp", "findhost", "u_openudp_error")
    /\ client_udp.u_openudp_error = Shut("udp", "error", "error")
    /\ client_udp.findhost = Sys("sendto", "undo")
    /\ client_udp.sendto = Do("sendto", "udp", "close", "undo")
    /\ client_udp.close = Shut("udp", "return", "error")
    /\ client_udp.undo = Shut("udp", "error", "error")
  BY OpenudpCode DEF ++, client_udp, u_sendtohost, u_sendto, Undo

\* A client around a request, of either kind.
LEMMA RequestClientCode ==
    ASSUME NEW request,
           \A a \in {"socket", "reuse", "bindudp", "u_openudp_error", "echo", "close", "undo"} : a \notin DOMAIN request
    PROVE  LET client == u_openudp("findhost", "error") ++ request ++ Output("close", "undo") ++ Undo("udp") IN
           /\ DOMAIN client = {"socket", "reuse", "bindudp", "u_openudp_error", "echo", "close", "undo"} \cup DOMAIN request
           /\ client.socket = Do("socket", "udp", "reuse", "error") /\ client.reuse = Sys("bindudp", "u_openudp_error")
           /\ client.bindudp = Do("bind", "udp", "findhost", "u_openudp_error")
           /\ client.u_openudp_error = Shut("udp", "error", "error")
           /\ client.echo = Do("echo", "none", "close", "undo")
           /\ client.close = Shut("udp", "return", "error") /\ client.undo = Shut("udp", "error", "error")
           /\ \A a \in DOMAIN request : client[a] = request[a]
<1> DEFINE f == u_openudp("findhost", "error") ++ request
           g == f ++ Output("close", "undo")
<1>1. /\ DOMAIN f = {"socket", "reuse", "bindudp", "u_openudp_error"} \cup DOMAIN request
      /\ f.socket = Do("socket", "udp", "reuse", "error") /\ f.reuse = Sys("bindudp", "u_openudp_error")
      /\ f.bindudp = Do("bind", "udp", "findhost", "u_openudp_error")
      /\ f.u_openudp_error = Shut("udp", "error", "error")
      /\ \A a \in DOMAIN request : f[a] = request[a]
  BY DEF ++, u_openudp
<1> HIDE DEF f
<1>2. /\ DOMAIN g = DOMAIN f \cup {"echo"} /\ g.echo = Do("echo", "none", "close", "undo")
      /\ \A a \in DOMAIN f : g[a] = f[a]
  BY <1>1 DEF ++, Output
<1> DEFINE h == g ++ Undo("udp")
<1> HIDE DEF g
<1>3. /\ DOMAIN h = DOMAIN g \cup {"close", "undo"}
      /\ h.close = Shut("udp", "return", "error") /\ h.undo = Shut("udp", "error", "error")
      /\ \A a \in DOMAIN g : h[a] = g[a]
  BY <1>1, <1>2 DEF ++, Undo
<1> HIDE DEF h
<1>4. h = u_openudp("findhost", "error") ++ request ++ Output("close", "undo") ++ Undo("udp")
  BY DEF f, g, h
<1> QED
  BY <1>1, <1>2, <1>3, <1>4

LEMMA ClientRequestCode ==
    /\ DOMAIN client_udp_request_reply = {"socket", "reuse", "bindudp", "u_openudp_error", "findhost", "sendto",
        "recvfrom", "sameport", "findaddress", "sameaddress", "echo", "close", "undo"}
    /\ client_udp_request_reply.socket = Do("socket", "udp", "reuse", "error")
    /\ client_udp_request_reply.reuse = Sys("bindudp", "u_openudp_error")
    /\ client_udp_request_reply.bindudp = Do("bind", "udp", "findhost", "u_openudp_error")
    /\ client_udp_request_reply.u_openudp_error = Shut("udp", "error", "error")
    /\ client_udp_request_reply.findhost = Sys("sendto", "undo")
    /\ client_udp_request_reply.sendto = Do("sendto", "udp", "recvfrom", "undo")
    /\ client_udp_request_reply.recvfrom = Do("recvfrom", "udp", "sameport", "undo")
    /\ client_udp_request_reply.sameport = Do("sameport", "none", "findaddress", "recvfrom")
    /\ client_udp_request_reply.findaddress = Sys("sameaddress", "recvfrom")
    /\ client_udp_request_reply.sameaddress = Do("sameaddress", "none", "echo", "recvfrom")
    /\ client_udp_request_reply.echo = Do("echo", "none", "close", "undo")
    /\ client_udp_request_reply.close = Shut("udp", "return", "error")
    /\ client_udp_request_reply.undo = Shut("udp", "error", "error")
<1> DEFINE request == request_reply("echo", "undo")
<1>1. \A a \in {"socket", "reuse", "bindudp", "u_openudp_error", "echo", "close", "undo"} : a \notin DOMAIN request
  BY RequestCode
<1>2. client_udp_request_reply = u_openudp("findhost", "error") ++ request ++ Output("close", "undo") ++ Undo("udp")
  BY DEF client_udp_request_reply
<1> HIDE DEF request
<1>3. /\ DOMAIN client_udp_request_reply =
          {"socket", "reuse", "bindudp", "u_openudp_error", "echo", "close", "undo"} \cup DOMAIN request
      /\ client_udp_request_reply.socket = Do("socket", "udp", "reuse", "error")
      /\ client_udp_request_reply.reuse = Sys("bindudp", "u_openudp_error")
      /\ client_udp_request_reply.bindudp = Do("bind", "udp", "findhost", "u_openudp_error")
      /\ client_udp_request_reply.u_openudp_error = Shut("udp", "error", "error")
      /\ client_udp_request_reply.echo = Do("echo", "none", "close", "undo")
      /\ client_udp_request_reply.close = Shut("udp", "return", "error")
      /\ client_udp_request_reply.undo = Shut("udp", "error", "error")
      /\ \A a \in DOMAIN request : client_udp_request_reply[a] = request[a]
  BY <1>1, <1>2, RequestClientCode
<1> QED
  BY <1>3, RequestCode DEF request

LEMMA ClientTimeoutCode ==
    /\ DOMAIN client_udp_request_reply_timeout =
        {"socket", "reuse", "bindudp", "u_openudp_error", "findhost", "sendto", "wait", "recvfrom", "sameport",
         "findaddress", "sameaddress", "echo", "close", "undo"}
    /\ client_udp_request_reply_timeout.socket = Do("socket", "udp", "reuse", "error")
    /\ client_udp_request_reply_timeout.reuse = Sys("bindudp", "u_openudp_error")
    /\ client_udp_request_reply_timeout.bindudp = Do("bind", "udp", "findhost", "u_openudp_error")
    /\ client_udp_request_reply_timeout.u_openudp_error = Shut("udp", "error", "error")
    /\ client_udp_request_reply_timeout.findhost = Sys("sendto", "undo")
    /\ client_udp_request_reply_timeout.sendto = Do("sendto", "udp", "wait", "undo")
    /\ client_udp_request_reply_timeout.wait = Do("waitfdtimed", "udp", "recvfrom", "undo")
    /\ client_udp_request_reply_timeout.recvfrom = Do("recvfrom", "udp", "sameport", "undo")
    /\ client_udp_request_reply_timeout.sameport = Do("sameport", "none", "findaddress", "wait")
    /\ client_udp_request_reply_timeout.findaddress = Sys("sameaddress", "wait")
    /\ client_udp_request_reply_timeout.sameaddress = Do("sameaddress", "none", "echo", "wait")
    /\ client_udp_request_reply_timeout.echo = Do("echo", "none", "close", "undo")
    /\ client_udp_request_reply_timeout.close = Shut("udp", "return", "error")
    /\ client_udp_request_reply_timeout.undo = Shut("udp", "error", "error")
<1> DEFINE request == request_reply_timeout("echo", "undo")
<1>1. \A a \in {"socket", "reuse", "bindudp", "u_openudp_error", "echo", "close", "undo"} : a \notin DOMAIN request
  BY TimeoutCode
<1>2. client_udp_request_reply_timeout = u_openudp("findhost", "error") ++ request ++ Output("close", "undo") ++ Undo("udp")
  BY DEF client_udp_request_reply_timeout
<1> HIDE DEF request
<1>3. /\ DOMAIN client_udp_request_reply_timeout =
          {"socket", "reuse", "bindudp", "u_openudp_error", "echo", "close", "undo"} \cup DOMAIN request
      /\ client_udp_request_reply_timeout.socket = Do("socket", "udp", "reuse", "error")
      /\ client_udp_request_reply_timeout.reuse = Sys("bindudp", "u_openudp_error")
      /\ client_udp_request_reply_timeout.bindudp = Do("bind", "udp", "findhost", "u_openudp_error")
      /\ client_udp_request_reply_timeout.u_openudp_error = Shut("udp", "error", "error")
      /\ client_udp_request_reply_timeout.echo = Do("echo", "none", "close", "undo")
      /\ client_udp_request_reply_timeout.close = Shut("udp", "return", "error")
      /\ client_udp_request_reply_timeout.undo = Shut("udp", "error", "error")
      /\ \A a \in DOMAIN request : client_udp_request_reply_timeout[a] = request[a]
  BY <1>1, <1>2, RequestClientCode
<1> QED
  BY <1>3, TimeoutCode DEF request

LEMMA MulticastReceiverCode ==
    /\ DOMAIN multicast_receiver = {"socket", "reuse", "bindudp", "u_openudp_error", "join", "recvfrom", "echo"}
    /\ multicast_receiver.socket = Do("socket", "udp", "reuse", "error")
    /\ multicast_receiver.reuse = Sys("bindudp", "u_openudp_error")
    /\ multicast_receiver.bindudp = Do("bind", "udp", "join", "u_openudp_error")
    /\ multicast_receiver.u_openudp_error = Shut("udp", "error", "error")
    /\ multicast_receiver.join = Do("join", "udp", "recvfrom", "error")
    /\ multicast_receiver.recvfrom = Do("recvfrom", "udp", "echo", "return")
    /\ multicast_receiver.echo = Do("echo", "none", "recvfrom", "return")
  BY OpenudpCode DEF ++, multicast_receiver, u_join, u_recvfrom, Output

LEMMA MulticastRectestCode ==
    /\ DOMAIN multicast_rectest = {"socket", "reuse", "bindudp", "u_openudp_error", "join", "recvfrom", "echo",
        "count", "leave"}
    /\ multicast_rectest.socket = Do("socket", "udp", "reuse", "error")
    /\ multicast_rectest.reuse = Sys("bindudp", "u_openudp_error")
    /\ multicast_rectest.bindudp = Do("bind", "udp", "join", "u_openudp_error")
    /\ multicast_rectest.u_openudp_error = Shut("udp", "error", "error")
    /\ multicast_rectest.join = Do("join", "udp", "recvfrom", "error")
    /\ multicast_rectest.recvfrom = Do("recvfrom", "udp", "echo", "return")
    /\ multicast_rectest.echo = Do("echo", "none", "count", "return")
    /\ multicast_rectest.count = Do("count", "none", "leave", "recvfrom")
    /\ multicast_rectest.leave = Do("leave", "udp", "recvfrom", "recvfrom")
<1> DEFINE f == u_join("recvfrom", "error") ++ u_recvfrom("echo", "return")
           g == f ++ Output("count", "return")
<1>1. /\ DOMAIN f = {"socket", "reuse", "bindudp", "u_openudp_error", "join", "recvfrom"}
      /\ f.socket = Do("socket", "udp", "reuse", "error") /\ f.reuse = Sys("bindudp", "u_openudp_error")
      /\ f.bindudp = Do("bind", "udp", "join", "u_openudp_error") /\ f.u_openudp_error = Shut("udp", "error", "error")
      /\ f.join = Do("join", "udp", "recvfrom", "error") /\ f.recvfrom = Do("recvfrom", "udp", "echo", "return")
  BY OpenudpCode DEF ++, u_join, u_recvfrom
<1> HIDE DEF f
<1>2. /\ DOMAIN g = DOMAIN f \cup {"echo"} /\ g.echo = Do("echo", "none", "count", "return")
      /\ \A a \in DOMAIN f : g[a] = f[a]
  BY <1>1 DEF ++, Output
<1> HIDE DEF g
<1>3. /\ DOMAIN multicast_rectest = DOMAIN g \cup {"count", "leave"}
      /\ multicast_rectest.count = Do("count", "none", "leave", "recvfrom")
      /\ multicast_rectest.leave = Do("leave", "udp", "recvfrom", "recvfrom")
      /\ \A a \in DOMAIN g : multicast_rectest[a] = g[a]
  BY <1>1, <1>2 DEF ++, u_leave, multicast_rectest, f, g
<1> QED
  BY <1>1, <1>2, <1>3

LEMMA PutblockCode ==
    /\ DOMAIN putblock = {"open", "seek", "put", "close", "undo"}
    /\ putblock.open = Do("socket", "file", "seek", "error")
    /\ putblock.seek = Do("seek", "file", "put", "undo")
    /\ putblock.put = Do("put", "file", "close", "undo")
    /\ putblock.close = Shut("file", "return", "error")
    /\ putblock.undo = Shut("file", "error", "error")
  BY DEF ++, putblock, Undo

-----------------------------------------------------------------------------
(* What is open at each step of a program, whatever has failed before.     *)

\* The descriptors a program has at each step: those its calls up to there have opened and not
\* closed again.
Fds == {"listen", "comm", "udp", "file"}
Ends == {"return", "error"}
Leaving == {"multicast_receiver", "multicast_rectest", "sender_udp"}
UdpClients == {"client_udp", "client_udp_request_reply", "client_udp_request_reply_timeout"}
Requests == UdpClients \ {"client_udp"}
StreamPrograms == {"server2", "serverp2", "client2", "client_audio"}
Holding(program, at) == {v \in Fds :
    \/ /\ v = "listen"
       /\ \/ at \in {"setsockopt", "bind", "listen", "u_open_error", "accept", "fork", "parent", "reap", "child"}
          \/ program = "server2" /\ at \in {"copy", "close"}
    \/ /\ v = "comm"
       /\ \/ at \in {"connect", "u_connect_error", "copy", "fork", "parent", "child"}
          \/ program \in StreamPrograms /\ at = "close"
          \/ program = "client2" /\ at = "return"
    \/ /\ v = "udp"
       /\ \/ at \in {"reuse", "bindudp", "u_openudp_error", "join", "leave", "recvfrom", "wait", "findhost", "sendto",
                     "sameport", "findaddress", "sameaddress", "echo", "line", "count"}
          \/ program \in UdpClients /\ at \in {"close", "undo"}
          \/ program \in Leaving /\ at = "return"
    \/ /\ v = "file"
       /\ \/ at \in {"seek", "put"}
          \/ program = "putblock" /\ at \in {"close", "undo"}}

\* Steps before SIGPIPE is ignored.
Unshielded == {"name2addr", "sigaction", "ignore", "error"}

\* What a step opens and closes.
Opening(step, open) == CASE step.op = "socket" -> open \cup {step.v} [] step.op = "accept" -> open \cup {"comm"} [] OTHER -> open
Closing(step, open) == IF step.op = "close" THEN open \ {step.v} ELSE open

StepSound(program, at, step) ==
    /\ step.v \in Fds \cup {"none", "child"}
    /\ step.op \in {"socket", "close"} => step.v \in Fds
    /\ Holding(program, step.then) = Closing(step, Opening(step, Holding(program, at)))
    /\ \/ program \in Leaving /\ step.fail = "error"
       \/ Holding(program, step.fail) = Closing(step, Holding(program, at))
    /\ step.op \in Uses => step.v \in Holding(program, at)
    /\ step.op = "accept" => Holding(program, at) = {"listen"}
    /\ step.op = "copy" => program \in StreamPrograms /\ at = "copy"
    /\ step.op = "fork" => program = "serverp2" /\ step.v = "child" /\ at = "fork"
    /\ step.op = "reap" => program = "serverp2"
    /\ step.op = "sendto" => at = "sendto" /\ program \in UdpClients \cup {"sender_udp", "server_udp_request_reply"}
    /\ program \in StreamPrograms =>
          /\ step.then \notin Unshielded => at \notin Unshielded \/ step.op = "ignore"
          /\ step.fail \notin Unshielded => at \notin Unshielded
    /\ program = "serverp2" /\ at \in {"child", "copy", "close"} =>
          step.then \in {"copy", "close", "return"} /\ step.fail \in {"copy", "close", "return"}

Flow(code, at) == code[at].then \in DOMAIN code \cup Ends /\ code[at].fail \in DOMAIN code \cup Ends
ProgramSound(program, code) == \A at \in DOMAIN code : Flow(code, at) /\ StepSound(program, at, code[at])

LEMMA Server2Sound == ProgramSound("server2", server2)
<1> SUFFICES ASSUME NEW at \in DOMAIN server2 PROVE Flow(server2, at) /\ StepSound("server2", at, server2[at])
  BY DEF ProgramSound
<1> USE DEF Do, Sys, Shut, Fds, Ends, Leaving, UdpClients, StreamPrograms, Unshielded, Uses
<1>1. Flow(server2, at)
  BY Server2Code DEF Flow
<1>2. StepSound("server2", at, server2[at])
  BY Server2Code DEF StepSound, Holding, Opening, Closing
<1> QED  BY <1>1, <1>2

LEMMA Serverp2Sound == ProgramSound("serverp2", serverp2)
<1> SUFFICES ASSUME NEW at \in DOMAIN serverp2 PROVE Flow(serverp2, at) /\ StepSound("serverp2", at, serverp2[at])
  BY DEF ProgramSound
<1> USE DEF Do, Sys, Shut, Fds, Ends, Leaving, UdpClients, StreamPrograms, Unshielded, Uses
<1>1. Flow(serverp2, at)
  BY Serverp2Code DEF Flow
<1>2. StepSound("serverp2", at, serverp2[at])
  BY Serverp2Code DEF StepSound, Holding, Opening, Closing
<1> QED  BY <1>1, <1>2

LEMMA Client2Sound == ProgramSound("client2", client2)
<1> SUFFICES ASSUME NEW at \in DOMAIN client2 PROVE Flow(client2, at) /\ StepSound("client2", at, client2[at])
  BY DEF ProgramSound
<1> USE DEF Do, Sys, Shut, Fds, Ends, Leaving, UdpClients, StreamPrograms, Unshielded, Uses
<1>1. Flow(client2, at)
  BY Client2Code DEF Flow
<1>2. StepSound("client2", at, client2[at])
  BY Client2Code DEF StepSound, Holding, Opening, Closing
<1> QED  BY <1>1, <1>2

LEMMA ClientAudioSound == ProgramSound("client_audio", client_audio)
<1> SUFFICES ASSUME NEW at \in DOMAIN client_audio PROVE Flow(client_audio, at) /\ StepSound("client_audio", at, client_audio[at])
  BY DEF ProgramSound
<1> USE DEF Do, Sys, Shut, Fds, Ends, Leaving, UdpClients, StreamPrograms, Unshielded, Uses
<1>1. Flow(client_audio, at)
  BY ClientAudioCode DEF Flow
<1>2. StepSound("client_audio", at, client_audio[at])
  BY ClientAudioCode DEF StepSound, Holding, Opening, Closing
<1> QED  BY <1>1, <1>2

LEMMA ServerUdpSound == ProgramSound("server_udp", server_udp)
<1> SUFFICES ASSUME NEW at \in DOMAIN server_udp PROVE Flow(server_udp, at) /\ StepSound("server_udp", at, server_udp[at])
  BY DEF ProgramSound
<1> USE DEF Do, Sys, Shut, Fds, Ends, Leaving, UdpClients, StreamPrograms, Unshielded, Uses
<1>1. Flow(server_udp, at)
  BY ServerUdpCode DEF Flow
<1>2. StepSound("server_udp", at, server_udp[at])
  BY ServerUdpCode DEF StepSound, Holding, Opening, Closing
<1> QED  BY <1>1, <1>2

LEMMA ServerReplySound == ProgramSound("server_udp_request_reply", server_udp_request_reply)
<1> SUFFICES ASSUME NEW at \in DOMAIN server_udp_request_reply PROVE Flow(server_udp_request_reply, at) /\ StepSound("server_udp_request_reply", at, server_udp_request_reply[at])
  BY DEF ProgramSound
<1> USE DEF Do, Sys, Shut, Fds, Ends, Leaving, UdpClients, StreamPrograms, Unshielded, Uses
<1>1. Flow(server_udp_request_reply, at)
  BY ServerReplyCode DEF Flow
<1>2. StepSound("server_udp_request_reply", at, server_udp_request_reply[at])
  BY ServerReplyCode DEF StepSound, Holding, Opening, Closing
<1> QED  BY <1>1, <1>2

LEMMA SenderUdpSound == ProgramSound("sender_udp", sender_udp)
<1> SUFFICES ASSUME NEW at \in DOMAIN sender_udp PROVE Flow(sender_udp, at) /\ StepSound("sender_udp", at, sender_udp[at])
  BY DEF ProgramSound
<1> USE DEF Do, Sys, Shut, Fds, Ends, Leaving, UdpClients, StreamPrograms, Unshielded, Uses
<1>1. Flow(sender_udp, at)
  BY SenderUdpCode DEF Flow
<1>2. StepSound("sender_udp", at, sender_udp[at])
  BY SenderUdpCode DEF StepSound, Holding, Opening, Closing
<1> QED  BY <1>1, <1>2

LEMMA ClientUdpSound == ProgramSound("client_udp", client_udp)
<1> SUFFICES ASSUME NEW at \in DOMAIN client_udp PROVE Flow(client_udp, at) /\ StepSound("client_udp", at, client_udp[at])
  BY DEF ProgramSound
<1> USE DEF Do, Sys, Shut, Fds, Ends, Leaving, UdpClients, StreamPrograms, Unshielded, Uses
<1>1. Flow(client_udp, at)
  BY ClientUdpCode DEF Flow
<1>2. StepSound("client_udp", at, client_udp[at])
  BY ClientUdpCode DEF StepSound, Holding, Opening, Closing
<1> QED  BY <1>1, <1>2

LEMMA ClientRequestSound == ProgramSound("client_udp_request_reply", client_udp_request_reply)
<1> SUFFICES ASSUME NEW at \in DOMAIN client_udp_request_reply PROVE Flow(client_udp_request_reply, at) /\ StepSound("client_udp_request_reply", at, client_udp_request_reply[at])
  BY DEF ProgramSound
<1> USE DEF Do, Sys, Shut, Fds, Ends, Leaving, UdpClients, StreamPrograms, Unshielded, Uses
<1>1. Flow(client_udp_request_reply, at)
  BY ClientRequestCode DEF Flow
<1>2. StepSound("client_udp_request_reply", at, client_udp_request_reply[at])
  BY ClientRequestCode DEF StepSound, Holding, Opening, Closing
<1> QED  BY <1>1, <1>2

LEMMA ClientTimeoutSound == ProgramSound("client_udp_request_reply_timeout", client_udp_request_reply_timeout)
<1> SUFFICES ASSUME NEW at \in DOMAIN client_udp_request_reply_timeout PROVE Flow(client_udp_request_reply_timeout, at) /\ StepSound("client_udp_request_reply_timeout", at, client_udp_request_reply_timeout[at])
  BY DEF ProgramSound
<1> USE DEF Do, Sys, Shut, Fds, Ends, Leaving, UdpClients, StreamPrograms, Unshielded, Uses
<1>1. Flow(client_udp_request_reply_timeout, at)
  BY ClientTimeoutCode DEF Flow
<1>2. StepSound("client_udp_request_reply_timeout", at, client_udp_request_reply_timeout[at])
  BY ClientTimeoutCode DEF StepSound, Holding, Opening, Closing
<1> QED  BY <1>1, <1>2

LEMMA MulticastReceiverSound == ProgramSound("multicast_receiver", multicast_receiver)
<1> SUFFICES ASSUME NEW at \in DOMAIN multicast_receiver PROVE Flow(multicast_receiver, at) /\ StepSound("multicast_receiver", at, multicast_receiver[at])
  BY DEF ProgramSound
<1> USE DEF Do, Sys, Shut, Fds, Ends, Leaving, UdpClients, StreamPrograms, Unshielded, Uses
<1>1. Flow(multicast_receiver, at)
  BY MulticastReceiverCode DEF Flow
<1>2. StepSound("multicast_receiver", at, multicast_receiver[at])
  BY MulticastReceiverCode DEF StepSound, Holding, Opening, Closing
<1> QED  BY <1>1, <1>2

LEMMA MulticastRectestSound == ProgramSound("multicast_rectest", multicast_rectest)
<1> SUFFICES ASSUME NEW at \in DOMAIN multicast_rectest PROVE Flow(multicast_rectest, at) /\ StepSound("multicast_rectest", at, multicast_rectest[at])
  BY DEF ProgramSound
<1> USE DEF Do, Sys, Shut, Fds, Ends, Leaving, UdpClients, StreamPrograms, Unshielded, Uses
<1>1. Flow(multicast_rectest, at)
  BY MulticastRectestCode DEF Flow
<1>2. StepSound("multicast_rectest", at, multicast_rectest[at])
  BY MulticastRectestCode DEF StepSound, Holding, Opening, Closing
<1> QED  BY <1>1, <1>2

LEMMA PutblockSound == ProgramSound("putblock", putblock)
<1> SUFFICES ASSUME NEW at \in DOMAIN putblock PROVE Flow(putblock, at) /\ StepSound("putblock", at, putblock[at])
  BY DEF ProgramSound
<1> USE DEF Do, Sys, Shut, Fds, Ends, Leaving, UdpClients, StreamPrograms, Unshielded, Uses
<1>1. Flow(putblock, at)
  BY PutblockCode DEF Flow
<1>2. StepSound("putblock", at, putblock[at])
  BY PutblockCode DEF StepSound, Holding, Opening, Closing
<1> QED  BY <1>1, <1>2

\* Every step of every program is as it should be.
LEMMA StepsSound == \A program \in DOMAIN Mains : ProgramSound(program, Mains[program])
BY Server2Sound, Serverp2Sound, Client2Sound, ClientAudioSound, ServerUdpSound, ServerReplySound, SenderUdpSound,
   ClientUdpSound, ClientRequestSound, ClientTimeoutSound, MulticastReceiverSound, MulticastRectestSound, PutblockSound
   DEF Mains

-----------------------------------------------------------------------------
(* The invariant of the processes.                                         *)

Labels == (UNION {DOMAIN Mains[program] : program \in DOMAIN Mains}) \cup Ends
Bodies == [n : Nat, by : Int]
LEMMA ProgramLabels == \A program \in DOMAIN Mains : DOMAIN Mains[program] \subseteq Labels
<1> SUFFICES ASSUME NEW program \in DOMAIN Mains PROVE DOMAIN Mains[program] \subseteq Labels
  OBVIOUS
<1>1. DOMAIN Mains[program] \in {DOMAIN Mains[x] : x \in DOMAIN Mains}
  OBVIOUS
<1> HIDE DEF Mains
<1> QED  BY <1>1 DEF Labels

PeerRecords ==
    [program : DOMAIN Mains \cup {"none"}, at : Labels, open : SUBSET Fds, with : Int, got : Seq(Bodies), from : Int, sent : Nat,
     late : BOOLEAN, echoed : Nat, joined : BOOLEAN, placed : BOOLEAN, sigpipe : {"default", "caught", "ignored"},
     parent : Nat, status : {"unborn", "running", "ok", "failed"}]

SockTypes ==
    /\ net \in DOMAIN Together
    /\ errors \in 0..MaxErrors /\ strays \in Nat
    /\ peer \in [Peers -> PeerRecords]
    /\ wire \subseteq [from : Int, to : Int, body : Bodies]
    /\ calls \subseteq Peers

\* Which program a process runs, and where its children are in it.
Placed(p, r) ==
    /\ r.status = "unborn" => r = Idle /\ p > Len(Together[net])
    /\ r.status # "unborn" =>
          /\ r.program \in DOMAIN Mains /\ r.at \in DOMAIN Mains[r.program] \cup Ends
          /\ r.parent = 0 => p <= Len(Together[net]) /\ r.program = Together[net][p]
          /\ r.parent # 0 => /\ p > Len(Together[net]) /\ r.program = "serverp2" /\ net = "tcpfork"
                             /\ r.at \in {"child", "copy", "close", "return"}
          /\ r.status = "ok" => r.at = "return"
          /\ r.status = "failed" => r.at = "error"
\* What it has open, and that SIGPIPE is ignored or caught.
Kept(r) ==
    r.status = "running" =>
       /\ r.open = Holding(r.program, r.at) \/ (r.at = "error" /\ r.program \in Leaving)
       /\ r.program \in StreamPrograms /\ r.at \notin Unshielded => r.sigpipe # "default"

PeersKept == \A p \in Peers : Placed(p, peer[p]) /\ Kept(peer[p])

LEMMA CurrentSound ==
    ASSUME SockTypes, PeersKept, NEW p \in Peers, Live(p), ~AtEnd(p)
    PROVE  /\ Current(p).then \in DOMAIN Mains[peer[p].program] \cup Ends
           /\ Current(p).fail \in DOMAIN Mains[peer[p].program] \cup Ends
           /\ StepSound(peer[p].program, peer[p].at, Current(p))
           /\ peer[p].open = Holding(peer[p].program, peer[p].at)
           /\ Current(p).then \in Labels /\ Current(p).fail \in Labels
<1>1. Placed(p, peer[p]) /\ Kept(peer[p]) /\ peer[p].status = "running" /\ peer[p].at \notin Ends
  BY DEF PeersKept, Live, AtEnd, Ends
<1>2. peer[p].program \in DOMAIN Mains /\ peer[p].at \in DOMAIN Mains[peer[p].program]
  BY <1>1 DEF Placed
<1>3. ProgramSound(peer[p].program, Mains[peer[p].program])
  BY <1>2, StepsSound
<1>4. Flow(Mains[peer[p].program], peer[p].at) /\ StepSound(peer[p].program, peer[p].at, Current(p))
  BY <1>2, <1>3 DEF ProgramSound, Current
<1>5. peer[p].open = Holding(peer[p].program, peer[p].at)
  BY <1>1 DEF Kept, Ends
<1>6. /\ Current(p).then \in DOMAIN Mains[peer[p].program] \cup Ends
      /\ Current(p).fail \in DOMAIN Mains[peer[p].program] \cup Ends
  BY <1>4 DEF Flow, Current
<1>7. Current(p).then \in Labels /\ Current(p).fail \in Labels
  <2>1. DOMAIN Mains[peer[p].program] \subseteq Labels
    BY <1>2, ProgramLabels
  <2>2. Ends \subseteq Labels
    BY DEF Labels
  <2> QED  BY <1>6, <2>1, <2>2
<1> QED
  BY <1>4, <1>5, <1>6, <1>7

\* A process goes on after a call that has worked, or failed.
Follows(p, r) ==
    /\ r \in PeerRecords /\ r.program = peer[p].program /\ r.parent = peer[p].parent /\ r.status = "running"
    /\ r.sigpipe = "default" => peer[p].sigpipe = "default"
    /\ \/ /\ r.at = Current(p).then /\ (r.sigpipe = "default" => Current(p).op # "ignore")
          /\ r.open = Closing(Current(p), Opening(Current(p), peer[p].open))
       \/ r.at = Current(p).fail /\ r.open = Closing(Current(p), peer[p].open)

LEMMA FollowsKept ==
    ASSUME SockTypes, PeersKept, NEW p \in Peers, Live(p), ~AtEnd(p), NEW r, Follows(p, r)
    PROVE  Placed(p, r) /\ Kept(r)
<1> DEFINE q == peer[p]
           c == Current(p)
<1>1. /\ c.then \in DOMAIN Mains[q.program] \cup Ends /\ c.fail \in DOMAIN Mains[q.program] \cup Ends
      /\ StepSound(q.program, q.at, c) /\ q.open = Holding(q.program, q.at)
  BY CurrentSound
<1>2. Placed(p, q) /\ Kept(q) /\ q.status = "running" /\ q.at \notin Ends
  BY DEF PeersKept, Live, AtEnd, Ends
<1>3. r.program = q.program /\ r.parent = q.parent /\ r.status = "running" /\ r.at \in {c.then, c.fail}
  BY DEF Follows
<1>4. Placed(p, r)
  <2>1. q.parent # 0 => q.program = "serverp2" /\ q.at \in {"child", "copy", "close"}
    BY <1>2 DEF Placed, Ends
  <2>2. q.parent # 0 => r.at \in {"copy", "close", "return"}
    BY <2>1, <1>1, <1>3 DEF StepSound
  <2> QED  BY <1>1, <1>2, <1>3, <2>2 DEF Placed
<1>5. r.open = Holding(r.program, r.at) \/ (r.at = "error" /\ r.program \in Leaving)
  BY <1>1, <1>3 DEF StepSound, Follows
<1>6. r.program \in StreamPrograms /\ r.at \notin Unshielded => r.sigpipe # "default"
  BY <1>1, <1>2, <1>3 DEF StepSound, Follows, Kept
<1> QED
  BY <1>3, <1>4, <1>5, <1>6 DEF Kept

LEMMA ChangesOne ==
    ASSUME SockTypes, PeersKept, NEW p \in Peers, NEW r \in PeerRecords, Placed(p, r), Kept(r), Now(p, r), net' = net
    PROVE  peer' \in [Peers -> PeerRecords] /\ PeersKept'
<1>1. peer' = [peer EXCEPT ![p] = r] /\ peer \in [Peers -> PeerRecords]
  BY DEF SockTypes, Now
<1>2. \A q \in Peers : peer'[q] = r \/ peer'[q] = peer[q]
  BY <1>1
<1>3. peer'[p] = r /\ \A q \in Peers : q # p => peer'[q] = peer[q]
  BY <1>1
<1> QED
  BY <1>1, <1>2, <1>3 DEF PeersKept, Placed

\* Two records of a process between calls: what the steps do not change.
Same(r, s) == /\ s \in PeerRecords /\ s.program = r.program /\ s.parent = r.parent /\ s.status = r.status /\ s.at = r.at


\* The process works on, and nothing but its record changes of what the invariant tells.
LEMMA WorkKept ==
    ASSUME SockTypes, PeersKept, NEW p \in Peers, Live(p), ~AtEnd(p), NEW r, Works(p, r), Same(peer[p], r),
           r.sigpipe = "default" => peer[p].sigpipe = "default" /\ Current(p).op # "ignore",
           r.open = Closing(Current(p), Opening(Current(p), peer[p].open)), net' = net
    PROVE  peer' \in [Peers -> PeerRecords] /\ PeersKept'
<1> DEFINE s == [r EXCEPT !.at = Current(p).then]
<1>1. Current(p).then \in Labels
  BY CurrentSound
<1>2. s \in PeerRecords /\ s.program = r.program /\ s.parent = r.parent /\ s.status = r.status /\ s.open = r.open
      /\ s.sigpipe = r.sigpipe /\ s.at = Current(p).then
  BY <1>1 DEF PeerRecords, Same
<1>3. Now(p, s) /\ r.status = "running"
  BY DEF Works, Same, Live
<1> HIDE DEF s
<1>4. Follows(p, s)
  BY <1>2, <1>3 DEF Follows, Same
<1> QED
  BY <1>2, <1>3, <1>4, FollowsKept, ChangesOne

LEMMA RefusalKept ==
    ASSUME SockTypes, PeersKept, NEW p \in Peers, Live(p), ~AtEnd(p), NEW r, Refuses(p, r), Same(peer[p], r),
           r.sigpipe = peer[p].sigpipe, r.open = Closing(Current(p), peer[p].open), net' = net
    PROVE  peer' \in [Peers -> PeerRecords] /\ PeersKept'
<1> DEFINE s == [r EXCEPT !.at = Current(p).fail]
<1>1. Current(p).fail \in Labels
  BY CurrentSound
<1>2. s \in PeerRecords /\ s.program = r.program /\ s.parent = r.parent /\ s.status = r.status /\ s.open = r.open
      /\ s.sigpipe = r.sigpipe /\ s.at = Current(p).fail
  BY <1>1 DEF PeerRecords, Same
<1>3. Now(p, s) /\ r.status = "running"
  BY DEF Refuses, Same, Live
<1> HIDE DEF s
<1>4. Follows(p, s)
  BY <1>2, <1>3 DEF Follows, Same
<1> QED
  BY <1>2, <1>3, <1>4, FollowsKept, ChangesOne

\* Every call keeps types and places of the processes.
LEMMA CallKept ==
    ASSUME SockTypes, PeersKept, NEW p \in Peers,
           \/ Succeed(p) \/ SetIgnored(p) \/ MakeSocket(p) \/ StartListening(p) \/ BindPort(p) \/ CloseIt(p)
           \/ AcceptCall(p) \/ ConnectTo(p) \/ SendDatagram(p) \/ Receive(p) \/ WaitTimed(p) \/ Compare(p)
           \/ Echo(p) \/ ReadInput(p) \/ JoinGroup(p) \/ LeaveGroup(p) \/ CountMessage(p) \/ SeekBlock(p)
           \/ PutData(p) \/ CallFails(p)
    PROVE  peer' \in [Peers -> PeerRecords] /\ PeersKept' /\ net' = net
<1>0. PICK q, c : q = peer[p] /\ c = Current(p)
  OBVIOUS
<1>1. /\ net' = net /\ Live(p) /\ ~AtEnd(p) /\ q \in PeerRecords /\ q.status = "running"
  BY <1>0 DEF SockTypes, Doing, Live, Succeed, SetIgnored, MakeSocket, StartListening, BindPort, CloseIt, AcceptCall, ConnectTo,
         SendDatagram, Receive, WaitTimed, Compare, Echo, ReadInput, JoinGroup, LeaveGroup, CountMessage, SeekBlock,
         PutData, CallFails, Alone, UnchangedNet
<1>2. StepSound(q.program, q.at, c)
  BY <1>0, <1>1, CurrentSound
<1>3. /\ q.open \in SUBSET Fds /\ q.got \in Seq(Bodies) /\ q.sent \in Nat /\ q.echoed \in Nat
      /\ q.sigpipe \in {"default", "caught", "ignored"}
  BY <1>0, <1>1 DEF PeerRecords
\* The calls that change nothing but their place.
<1>20. Same(q, q)
  BY <1>0, <1>1 DEF Same
<1>4. ASSUME Works(p, q), c.op \notin {"socket", "accept", "close", "ignore"}
      PROVE  peer' \in [Peers -> PeerRecords] /\ PeersKept'
  BY <1>0, <1>1, <1>4, <1>20, WorkKept DEF Opening, Closing
<1>5. ASSUME Refuses(p, q), c.op # "close"
      PROVE  peer' \in [Peers -> PeerRecords] /\ PeersKept'
  BY <1>0, <1>1, <1>5, <1>20, RefusalKept DEF Closing
<1>6. CASE Succeed(p) \/ BindPort(p) \/ Compare(p) \/ ReadInput(p) \/ CountMessage(p) \/ SeekBlock(p)
  BY <1>0, <1>1, <1>4, <1>5, <1>6 DEF Succeed, BindPort, Compare, ReadInput, CountMessage, SeekBlock, Doing
<1>7. CASE SetIgnored(p)
  <2> DEFINE r == [q EXCEPT !.sigpipe = IF @ = "default" THEN "ignored" ELSE @]
  <2>1. Works(p, r) /\ c.op = "ignore"
    BY <1>0, <1>7 DEF SetIgnored, Doing
  <2>2. Same(q, r) /\ r.open = q.open /\ r.sigpipe # "default"
    BY <1>1, <1>3 DEF PeerRecords, Same
  <2> HIDE DEF r
  <2> QED  BY <1>0, <1>1, <2>1, <2>2, WorkKept DEF Opening, Closing
<1>8. CASE MakeSocket(p)
  <2> DEFINE r == [q EXCEPT !.open = @ \cup {c.v}]
  <2>1. c.v \in Fds /\ c.op = "socket"
    BY <1>0, <1>2, <1>8 DEF StepSound, MakeSocket, Doing
  <2>2. Works(p, r)
    BY <1>0, <1>8 DEF MakeSocket, Fd
  <2>3. Same(q, r) /\ r.open = q.open \cup {c.v} /\ r.sigpipe = q.sigpipe
    BY <1>1, <1>3, <2>1 DEF PeerRecords, Same
  <2> HIDE DEF r
  <2> QED  BY <1>0, <1>1, <2>1, <2>2, <2>3, WorkKept DEF Opening, Closing
<1>9. CASE CloseIt(p)
  <2> DEFINE r == [q EXCEPT !.open = @ \ {c.v}]
  <2>1. Works(p, r) /\ c.op = "close"
    BY <1>0, <1>9 DEF CloseIt, Fd, Doing
  <2>2. Same(q, r) /\ r.open = q.open \ {c.v} /\ r.sigpipe = q.sigpipe
    BY <1>1, <1>3 DEF PeerRecords, Same
  <2> HIDE DEF r
  <2> QED  BY <1>0, <1>1, <2>1, <2>2, WorkKept DEF Opening, Closing
<1>10. CASE CallFails(p)
  <2> DEFINE r == [q EXCEPT !.open = IF c.op = "close" THEN @ \ {c.v} ELSE @]
  <2>1. Refuses(p, r)
    BY <1>0, <1>10 DEF CallFails, Fd
  <2>2. Same(q, r) /\ r.sigpipe = q.sigpipe /\ r.open = Closing(c, q.open)
    BY <1>1, <1>3 DEF PeerRecords, Same, Closing
  <2> HIDE DEF r
  <2> QED  BY <1>0, <1>1, <2>1, <2>2, RefusalKept
<1>11. CASE AcceptCall(p)
  <2>1. PICK k \in calls : Works(p, [q EXCEPT !.open = @ \cup {"comm"}, !.with = k])
    BY <1>0, <1>11 DEF AcceptCall
  <2> DEFINE r == [q EXCEPT !.open = @ \cup {"comm"}, !.with = k]
  <2>2. k \in Int
    BY <1>0, <2>1, NumPeersAssumption DEF SockTypes, Peers
  <2>3. c.op = "accept" /\ q.open \cup {"comm"} \in SUBSET Fds
    BY <1>0, <1>3, <1>11 DEF AcceptCall, Doing, Fds
  <2>4. Same(q, r) /\ r.open = q.open \cup {"comm"} /\ r.sigpipe = q.sigpipe
    BY <1>1, <2>2, <2>3 DEF PeerRecords, Same
  <2>5. Works(p, r)
    BY <1>0, <2>1
  <2> HIDE DEF r
  <2> QED  BY <1>0, <1>1, <2>3, <2>4, <2>5, WorkKept DEF Opening, Closing
\* The calls that change what the places do not depend on.
<1>12. ASSUME NEW r, Works(p, r), c.op \notin {"socket", "accept", "close", "ignore"},
              Same(q, r), r.open = q.open, r.sigpipe = q.sigpipe
       PROVE  peer' \in [Peers -> PeerRecords] /\ PeersKept'
  BY <1>0, <1>1, <1>12, WorkKept DEF Opening, Closing
<1>13. CASE ConnectTo(p)
  <2>1. c.op = "connect"
    BY <1>0, <1>13 DEF ConnectTo, Doing
  <2>2. CASE Works(p, [q EXCEPT !.with = p])
    <3> DEFINE r == [q EXCEPT !.with = p]
    <3>1. p \in Int
      BY <1>0, NumPeersAssumption DEF Peers
    <3>2. Same(q, r) /\ r.open = q.open /\ r.sigpipe = q.sigpipe
      BY <1>1, <3>1 DEF PeerRecords, Same
    <3>3. Works(p, r)
      BY <1>0, <2>2
    <3> HIDE DEF r
    <3> QED  BY <1>0, <1>1, <1>12, <2>1, <3>2, <3>3
  <2> QED  BY <1>0, <1>1, <1>4, <1>5, <1>13, <2>1, <2>2 DEF ConnectTo
<1>14. CASE StartListening(p) \/ JoinGroup(p) \/ LeaveGroup(p)
  <2>1. PICK b \in BOOLEAN : Works(p, [q EXCEPT !.joined = b]) /\ c.op \in {"listen", "join", "leave"}
    BY <1>0, <1>14 DEF StartListening, JoinGroup, LeaveGroup, Doing
  <2> DEFINE r == [q EXCEPT !.joined = b]
  <2>2. Same(q, r) /\ r.open = q.open /\ r.sigpipe = q.sigpipe
    BY <1>1 DEF PeerRecords, Same
  <2>3. Works(p, r) /\ c.op \notin {"socket", "accept", "close", "ignore"}
    BY <1>0, <2>1
  <2> HIDE DEF r
  <2> QED  BY <1>0, <1>1, <1>12, <2>2, <2>3
<1>15. CASE SendDatagram(p)
  <2> DEFINE r == [q EXCEPT !.sent = @ + 1]
  <2>1. Works(p, r) /\ c.op = "sendto"
    BY <1>0, <1>15 DEF SendDatagram, Doing
  <2>2. Same(q, r) /\ r.open = q.open /\ r.sigpipe = q.sigpipe
    BY <1>1, <1>3 DEF PeerRecords, Same
  <2> HIDE DEF r
  <2> QED  BY <1>0, <1>1, <1>12, <2>1, <2>2
<1>16. CASE Receive(p)
  <2>1. PICK d \in wire : Works(p, [q EXCEPT !.got = Append(@, d.body), !.from = d.from])
    BY <1>0, <1>16 DEF Receive, Mine
  <2> DEFINE r == [q EXCEPT !.got = Append(@, d.body), !.from = d.from]
  <2>2. d.body \in Bodies /\ d.from \in Int
    BY <1>0, <2>1 DEF SockTypes
  <2>3. Append(q.got, d.body) \in Seq(Bodies)
    BY <1>0, <1>3, <2>2, AppendProperties
  <2>4. Same(q, r) /\ r.open = q.open /\ r.sigpipe = q.sigpipe
    BY <1>1, <2>2, <2>3 DEF PeerRecords, Same
  <2>5. Works(p, r) /\ c.op = "recvfrom"
    BY <1>0, <1>16, <2>1 DEF Receive, Doing
  <2> HIDE DEF r
  <2> QED  BY <1>0, <1>1, <1>12, <2>4, <2>5
<1>17. CASE WaitTimed(p)
  <2> DEFINE r == [q EXCEPT !.late = TRUE]
  <2>1. c.op = "waitfdtimed"
    BY <1>0, <1>17 DEF WaitTimed, Doing
  <2>2. Same(q, r) /\ r.open = q.open /\ r.sigpipe = q.sigpipe
    BY <1>1 DEF PeerRecords, Same
  <2>3. Works(p, q) \/ Refuses(p, r)
    BY <1>0, <1>17 DEF WaitTimed
  <2> HIDE DEF r
  <2> QED  BY <1>0, <1>1, <1>4, <2>1, <2>2, <2>3, RefusalKept DEF Closing
<1>18. CASE Echo(p)
  <2> DEFINE r == [q EXCEPT !.echoed = @ + 1]
  <2>1. Works(p, r) /\ c.op = "echo"
    BY <1>0, <1>18 DEF Echo, Doing
  <2>2. Same(q, r) /\ r.open = q.open /\ r.sigpipe = q.sigpipe
    BY <1>1, <1>3 DEF PeerRecords, Same
  <2> HIDE DEF r
  <2> QED  BY <1>0, <1>1, <1>12, <2>1, <2>2
<1>19. CASE PutData(p)
  <2> DEFINE r == [q EXCEPT !.placed = TRUE]
  <2>1. Works(p, r) /\ c.op = "put"
    BY <1>0, <1>19 DEF PutData, Doing
  <2>2. Same(q, r) /\ r.open = q.open /\ r.sigpipe = q.sigpipe
    BY <1>1, <1>3 DEF PeerRecords, Same
  <2> HIDE DEF r
  <2> QED  BY <1>0, <1>1, <1>12, <2>1, <2>2
<1> QED
  BY <1>0, <1>1, <1>6, <1>7, <1>8, <1>9, <1>10, <1>11, <1>13, <1>14, <1>15, <1>16, <1>17, <1>18, <1>19

LEMMA IdlePlaced == \A p \in Peers : p > Len(Together[net]) => Idle \in PeerRecords /\ Placed(p, Idle) /\ Kept(Idle)
<1>1. Idle \in PeerRecords
  <2>1. "return" \in Labels
    BY DEF Labels, Ends
  <2>2. <<>> \in Seq(Bodies) /\ {} \in SUBSET Fds
    OBVIOUS
  <2> QED  BY <2>1, <2>2 DEF Idle, PeerRecords
<1> QED
  BY <1>1 DEF Placed, Kept, Idle

\* The programs that run together, and which of them run where.
LEMMA TogetherPrograms ==
    ASSUME net \in DOMAIN Together
    PROVE  /\ Len(Together[net]) \in 1..3
           /\ \A p \in 1..Len(Together[net]) : Together[net][p] \in DOMAIN Mains
BY DEF Together, Mains

LEMMA ServersAlone ==
    ASSUME net \in DOMAIN Together, NEW p \in Nat \ {0}, p <= Len(Together[net])
    PROVE  /\ Together[net][p] = "serverp2" => net = "tcpfork"
           /\ Together[net][p] = "putblock" => net = "block" /\ p = 1
           /\ Together[net][p] \in Requests => net \in {"reply", "timeout"} /\ p = 2
           /\ Together[net][p] = "server_udp_request_reply" => net \in {"reply", "timeout"} /\ p = 1
           /\ p = 1 => Together[net][p] \notin {"sender_udp", "client_udp"} \cup Requests
<1>1. p \in 1..3
  BY TogetherPrograms
<1>2. CASE p = 1
  BY <1>2 DEF Together, Requests, UdpClients
<1>3. CASE p = 2
  BY <1>3 DEF Together, Requests, UdpClients
<1>4. CASE p = 3
  BY <1>4 DEF Together, Requests, UdpClients
<1> QED  BY <1>1, <1>2, <1>3, <1>4

\* The end of a process, the copy between descriptors, fork and wait.
LEMMA OtherKept ==
    ASSUME SockTypes, PeersKept, NEW p \in Peers, Finish(p) \/ CopyUntilEnd(p) \/ ForkServer(p) \/ ReapAll(p)
    PROVE  peer' \in [Peers -> PeerRecords] /\ PeersKept' /\ net' = net
<1>0. PICK q, c : q = peer[p] /\ c = Current(p)
  OBVIOUS
<1>1. net' = net /\ Live(p) /\ q \in PeerRecords /\ q.status = "running" /\ Placed(p, q) /\ Kept(q)
  BY <1>0 DEF SockTypes, PeersKept, Doing, Live, Finish, CopyUntilEnd, ForkServer, ReapAll, Alone, UnchangedNet
<1>2. ASSUME ~AtEnd(p)
      PROVE  /\ StepSound(q.program, q.at, c) /\ q.open = Holding(q.program, q.at) /\ c.then \in Labels
  BY <1>0, <1>1, <1>2, CurrentSound
<1>3. CASE Finish(p)
  <2> DEFINE st == IF q.at = "error" THEN "failed" ELSE "ok"
             r == [q EXCEPT !.open = {}, !.joined = FALSE, !.status = st]
  <2>1. Now(p, r)
    BY <1>0, <1>3 DEF Finish
  <2>2. r \in PeerRecords /\ r.program = q.program /\ r.at = q.at /\ r.parent = q.parent /\ r.status = st
    BY <1>1 DEF PeerRecords
  <2>4. q.at \in {"return", "error"}
    BY <1>0, <1>3 DEF Finish, AtEnd
  <2> HIDE DEF r
  <2>3. Placed(p, r) /\ Kept(r)
    BY <1>1, <2>2, <2>4 DEF Placed, Kept
  <2> QED  BY <1>1, <2>1, <2>2, <2>3, ChangesOne
<1>4. CASE CopyUntilEnd(p)
  <2>1. ~AtEnd(p) /\ c.op = "copy"
    BY <1>0, <1>4 DEF CopyUntilEnd, Doing
  <2>2. q.program \in StreamPrograms /\ q.at = "copy"
    BY <1>2, <2>1 DEF StepSound
  <2>3. q.sigpipe # "default"
    BY <1>1, <2>2 DEF Kept, Unshielded
  <2> DEFINE r == [q EXCEPT !.sent = 1]
  <2>4. Works(p, r)
    BY <1>0, <1>4, <2>3 DEF CopyUntilEnd
  <2>5. Same(q, r) /\ r.open = q.open /\ r.sigpipe = q.sigpipe
    BY <1>1 DEF PeerRecords, Same
  <2> HIDE DEF r
  <2> QED  BY <1>0, <1>1, <2>1, <2>4, <2>5, WorkKept DEF Opening, Closing
<1>5. CASE ForkServer(p)
  <2>1. ~AtEnd(p) /\ c.op = "fork"
    BY <1>0, <1>5 DEF ForkServer, Doing
  <2>2. q.program = "serverp2" /\ q.at = "fork" /\ c.v = "child"
    BY <1>2, <2>1 DEF StepSound
  <2>3. PICK k \in Spare : peer' = [peer EXCEPT ![p].at = c.then, ![k] = [q EXCEPT !.at = "child", !.parent = p]]
    BY <1>0, <1>5, <2>2 DEF ForkServer, Fd
  <2> DEFINE r == [q EXCEPT !.at = c.then]
             s == [q EXCEPT !.at = "child", !.parent = p]
  <2>4. k \in Peers /\ k # p /\ peer[k].status = "unborn" /\ Placed(k, peer[k])
    BY <1>0, <1>1 DEF Spare, PeersKept
  <2>5. peer' = [peer EXCEPT ![p] = r, ![k] = s]
    BY <1>0, <2>3
  <2>6. r \in PeerRecords /\ r.program = q.program /\ r.parent = q.parent /\ r.status = "running" /\ r.open = q.open
        /\ r.sigpipe = q.sigpipe /\ r.at = c.then
    BY <1>1, <1>2, <2>1 DEF PeerRecords
  <2>7. "child" \in Labels /\ "child" \in DOMAIN Mains["serverp2"] /\ "serverp2" \in DOMAIN Mains
    BY Serverp2Code, ProgramLabels DEF Mains
  <2>8. p \in Nat \ {0}
    BY NumPeersAssumption DEF Peers
  <2>9. s \in PeerRecords /\ s.program = q.program /\ s.parent = p /\ s.status = "running" /\ s.open = q.open
        /\ s.sigpipe = q.sigpipe /\ s.at = "child"
    BY <1>1, <2>7, <2>8 DEF PeerRecords
  <2> HIDE DEF r, s
  <2>10. Placed(p, r) /\ Kept(r)
    <3>1. Follows(p, r)
      BY <1>0, <2>1, <2>6 DEF Follows, Opening, Closing
    <3> QED  BY <1>0, <1>1, <2>1, <3>1, FollowsKept
  <2>11. net = "tcpfork"
    <3>1. q.parent = 0 => p <= Len(Together[net]) /\ "serverp2" = Together[net][p]
      BY <1>1, <2>2 DEF Placed
    <3>2. net \in DOMAIN Together
      BY DEF SockTypes
    <3>3. p <= Len(Together[net]) /\ "serverp2" = Together[net][p] => net = "tcpfork"
      BY <2>8, <3>2, ServersAlone
    <3> QED  BY <1>1, <3>1, <3>3 DEF Placed
  <2>12. Placed(k, s)
    BY <2>2, <2>4, <2>7, <2>8, <2>9, <2>11 DEF Placed
  <2>13. Holding("serverp2", "child") = Holding("serverp2", "fork")
    BY DEF Holding
  <2>14. Kept(s)
    BY <1>1, <1>2, <2>1, <2>2, <2>9, <2>13 DEF Kept, Unshielded
  <2>15. /\ peer \in [Peers -> PeerRecords]
         /\ peer'[p] = r /\ peer'[k] = s /\ \A x \in Peers : x \notin {p, k} => peer'[x] = peer[x]
    BY <2>4, <2>5 DEF SockTypes
  <2>16. peer' \in [Peers -> PeerRecords]
    BY <2>5, <2>6, <2>9, <2>15
  <2>17. \A x \in Peers : Placed(x, peer'[x]) /\ Kept(peer'[x])
    BY <2>10, <2>12, <2>14, <2>15 DEF PeersKept
  <2> QED  BY <1>1, <2>16, <2>17 DEF PeersKept, Placed
<1>6. CASE ReapAll(p)
  <2>1. ~AtEnd(p) /\ c.op = "reap"
    BY <1>0, <1>6 DEF ReapAll, Doing
  <2> DEFINE r == [q EXCEPT !.at = c.then]
  <2>2. peer' = [x \in Peers |-> IF x = p THEN r
                                 ELSE IF peer[x].parent = p /\ peer[x].status \in {"ok", "failed"} THEN Idle ELSE peer[x]]
    BY <1>0, <1>6 DEF ReapAll
  <2>3. r \in PeerRecords /\ r.program = q.program /\ r.parent = q.parent /\ r.status = "running" /\ r.open = q.open
        /\ r.sigpipe = q.sigpipe /\ r.at = c.then
    BY <1>1, <1>2, <2>1 DEF PeerRecords
  <2> HIDE DEF r
  <2>4. Placed(p, r) /\ Kept(r)
    <3>1. Follows(p, r)
      BY <1>0, <2>1, <2>3 DEF Follows, Opening, Closing
    <3> QED  BY <1>0, <1>1, <2>1, <3>1, FollowsKept
  <2>5. p # 0
    BY NumPeersAssumption DEF Peers
  <2>6. ASSUME NEW x \in Peers PROVE peer'[x] \in PeerRecords /\ Placed(x, peer'[x]) /\ Kept(peer'[x])
    <3>1. peer[x] \in PeerRecords /\ Placed(x, peer[x]) /\ Kept(peer[x])
      BY DEF SockTypes, PeersKept
    <3>2. CASE x = p
      BY <2>2, <2>3, <2>4, <3>2
    <3>3. CASE x # p /\ peer[x].parent = p /\ peer[x].status \in {"ok", "failed"}
      <4>1. x > Len(Together[net])
        BY <2>5, <3>1, <3>3 DEF Placed
      <4> QED  BY <2>2, <3>3, <4>1, IdlePlaced
    <3> QED  BY <2>2, <3>1, <3>2, <3>3
  <2>7. peer' \in [Peers -> PeerRecords]
    BY <2>2, <2>6
  <2> QED  BY <1>1, <2>6, <2>7 DEF PeersKept, Placed
<1> QED
  BY <1>3, <1>4, <1>5, <1>6

-----------------------------------------------------------------------------
(* What the answers to requests depend on, and the end of client_udp and   *)
(* putblock.                                                               *)

\* The answer carries the number and the sender of the request.
Answer == [n |-> 1, by |-> 2]
Request == [from |-> 2, to |-> 1, body |-> Answer]
Newest(got) == got[Len(got)]
Giving == {"u_openudp_error", "undo", "error"}
Unsent == {"socket", "reuse", "bindudp", "findhost", "sendto"}
Checking == {"sameport", "findaddress", "sameaddress"}

\* The server gets the request, once, and answers it once.
ServerKept(r) ==
    /\ r.got = <<>> => r.sent = 0
    /\ r.got # <<>> => r.got = <<Answer>> /\ r.from = 2
    /\ r.at \in {"echo", "sendto"} => r.got # <<>> /\ r.sent = 0
\* What the client has got while it compares, after it has compared, and why it gives up.
ClientKept(r, left) ==
    /\ r.at \in Unsent => r.sent = 0
    /\ r.at \in Checking => r.got # <<>> /\ (r.from \in Strangers \/ Newest(r.got) = Answer)
    /\ r.at \in Checking \ {"sameport"} => r.from # OtherPort
    /\ r.at \in {"echo", "close", "return"} \/ r.echoed > 0 => r.got # <<>> /\ Newest(r.got) = Answer
    /\ r.at \in {"close", "return"} => r.echoed = 1
    /\ r.at \notin {"close", "return", "error"} => r.echoed = 0
    /\ r.at \in Giving => left < MaxErrors \/ r.late
Requested == 2 \in Peers /\ peer[2].sent > 0
RequestKept == net \in {"reply", "timeout"} =>
    /\ ServerKept(peer[1])
    /\ 2 \in Peers => ClientKept(peer[2], errors)
    /\ peer[1].got # <<>> => Requested
    /\ \A d \in wire :
          /\ d.to = 1 => d = Request /\ peer[1].got = <<>> /\ Requested
          /\ d.to = 2 => d.from \in Strangers \/ d.body = Answer

\* client_udp returns 0 when it has sent its datagram; putblock when its block is in its place.
SendKept(r) == /\ r.at \in Unsent => r.sent = 0
               /\ r.at \in {"close", "return"} => r.sent = 1
BlockKept(r, left) == /\ r.at \in {"open", "seek", "put"} => left = MaxErrors
                      /\ r.at \in {"close", "return"} => left = MaxErrors /\ r.placed
                      /\ r.at \in Giving => left < MaxErrors
EndsKept == /\ net = "datagrams" /\ 2 \in Peers => SendKept(peer[2])
            /\ net = "block" => BlockKept(peer[1], errors)

SockIInv == SockTypes /\ PeersKept /\ RequestKept /\ EndsKept

\* The steps of the programs in question, by what they lead to.
Quiet == {"sys", "socket", "bind", "close", "seek"}
RequestStep(at, step) ==
    /\ at \in Unsent \ {"sendto"} => step.op \in Quiet /\ step.then \in Unsent /\ step.fail \in Giving
    /\ at = "sendto" => step.op = "sendto" /\ step.then \in {"wait", "recvfrom"} /\ step.fail \in Giving
    /\ at = "wait" => step.op = "waitfdtimed" /\ step.then = "recvfrom" /\ step.fail \in Giving
    /\ at = "recvfrom" => step.op = "recvfrom" /\ step.then = "sameport" /\ step.fail \in Giving
    /\ at = "sameport" => step.op = "sameport" /\ step.then = "findaddress" /\ step.fail \in {"wait", "recvfrom"}
    /\ at = "findaddress" => step.op = "sys" /\ step.then = "sameaddress" /\ step.fail \in {"wait", "recvfrom"}
    /\ at = "sameaddress" => step.op = "sameaddress" /\ step.then = "echo" /\ step.fail \in {"wait", "recvfrom"}
    /\ at = "echo" => step.op = "echo" /\ step.then = "close" /\ step.fail \in Giving
    /\ at = "close" => step.op = "close" /\ step.then = "return" /\ step.fail = "error"
    /\ at \in Giving => step.op = "close" /\ step.then = "error" /\ step.fail = "error"
    /\ at \in Unsent \cup Checking \cup Giving \cup {"wait", "recvfrom", "echo", "close"}
ServerStep(at, step) ==
    /\ at \notin {"recvfrom", "echo", "sendto"} =>
          step.op \in Quiet /\ step.then \notin {"echo", "sendto"} /\ step.fail \notin {"echo", "sendto"}
    /\ at = "recvfrom" => step.op = "recvfrom" /\ step.then = "echo" /\ step.fail = "recvfrom"
    /\ at = "echo" => step.op = "echo" /\ step.then = "sendto" /\ step.fail = "sendto"
    /\ at = "sendto" => step.op = "sendto" /\ step.then = "recvfrom" /\ step.fail = "recvfrom"
SendStep(at, step) ==
    /\ at \in Unsent \ {"sendto"} => step.op \in Quiet /\ step.then \in Unsent /\ step.fail \in Giving
    /\ at = "sendto" => step.op = "sendto" /\ step.then = "close" /\ step.fail \in Giving
    /\ at = "close" => step.op = "close" /\ step.then = "return" /\ step.fail = "error"
    /\ at \in Giving => step.op = "close" /\ step.then = "error" /\ step.fail = "error"
    /\ at \in Unsent \cup Giving \cup {"close"}
BlockStep(at, step) ==
    /\ at \in {"open", "seek"} => step.op \in Quiet /\ step.then \in {"seek", "put"} /\ step.fail \in Giving
    /\ at = "put" => step.op = "put" /\ step.then = "close" /\ step.fail \in Giving
    /\ at = "close" => step.op = "close" /\ step.then = "return" /\ step.fail = "error"
    /\ at = "undo" => step.op = "close" /\ step.then = "error" /\ step.fail = "error"
    /\ at \in {"open", "seek", "put", "close", "undo"}

LEMMA StepsOfSome ==
    /\ \A at \in DOMAIN Mains["client_udp_request_reply"] : RequestStep(at, Mains["client_udp_request_reply"][at])
    /\ \A at \in DOMAIN Mains["client_udp_request_reply_timeout"] : RequestStep(at, Mains["client_udp_request_reply_timeout"][at])
    /\ \A at \in DOMAIN Mains["server_udp_request_reply"] : ServerStep(at, Mains["server_udp_request_reply"][at])
    /\ \A at \in DOMAIN Mains["client_udp"] : SendStep(at, Mains["client_udp"][at])
    /\ \A at \in DOMAIN Mains["putblock"] : BlockStep(at, Mains["putblock"][at])
<1> USE DEF Do, Sys, Shut, Quiet, Unsent, Giving, Checking
<1>1. \A at \in DOMAIN client_udp_request_reply : RequestStep(at, client_udp_request_reply[at])
  BY ClientRequestCode DEF RequestStep
<1>2. \A at \in DOMAIN client_udp_request_reply_timeout : RequestStep(at, client_udp_request_reply_timeout[at])
  BY ClientTimeoutCode DEF RequestStep
<1>3. \A at \in DOMAIN server_udp_request_reply : ServerStep(at, server_udp_request_reply[at])
  BY ServerReplyCode DEF ServerStep
<1>4. \A at \in DOMAIN client_udp : SendStep(at, client_udp[at])
  BY ClientUdpCode DEF SendStep
<1>5. \A at \in DOMAIN putblock : BlockStep(at, putblock[at])
  BY PutblockCode DEF BlockStep
<1> QED  BY <1>1, <1>2, <1>3, <1>4, <1>5 DEF Mains

\* What a call does to the records of its process, by the name of the call.
Goes(q, r, to) == /\ r.at = to /\ r.got = q.got /\ r.from = q.from /\ r.sent = q.sent
                  /\ r.echoed = q.echoed /\ r.late = q.late /\ r.placed = q.placed
Calm == errors' = errors /\ wire' = wire
Refused(q, r, c) == errors > 0 /\ errors' = errors - 1 /\ wire' = wire /\ Goes(q, r, c.fail)
Takes(p, q, r, c) ==
    /\ c.op \in Quiet => Calm /\ Goes(q, r, c.then)
    /\ c.op = "sendto" =>
          /\ Goes([q EXCEPT !.sent = @ + 1], r, c.then)
          /\ \/ errors' = errors /\ wire' = wire \cup {[from |-> p, to |-> x, body |-> Sent(p)] : x \in Targets(p)}
             \/ errors > 0 /\ errors' = errors - 1 /\ wire' = wire
    /\ c.op = "recvfrom" =>
          \E d \in wire : /\ d.to = p /\ errors' = errors /\ wire' = wire \ {d}
                          /\ Goes([q EXCEPT !.got = Append(@, d.body), !.from = d.from], r, c.then)
    /\ c.op = "waitfdtimed" => Calm /\ (Goes(q, r, c.then) \/ Goes([q EXCEPT !.late = TRUE], r, c.fail))
    /\ c.op = "sameport" => Calm /\ Goes(q, r, IF q.from = OtherPort THEN c.fail ELSE c.then)
    /\ c.op = "sameaddress" => Calm /\ Goes(q, r, IF q.from = OtherHost THEN c.fail ELSE c.then)
    /\ c.op = "echo" => Calm /\ Goes([q EXCEPT !.echoed = @ + 1], r, c.then)
    /\ c.op = "put" => Calm /\ Goes([q EXCEPT !.placed = TRUE], r, c.then)

LEMMA WhoActs ==
    ASSUME NEW p \in Peers, PeerStep(p), ~AtEnd(p), NEW c, c = Current(p)
    PROVE  /\ c.op = "sys" => Succeed(p)
           /\ c.op = "socket" => MakeSocket(p)
           /\ c.op = "bind" => BindPort(p)
           /\ c.op = "close" => CloseIt(p)
           /\ c.op = "seek" => SeekBlock(p)
           /\ c.op = "sendto" => SendDatagram(p)
           /\ c.op = "recvfrom" => Receive(p)
           /\ c.op = "waitfdtimed" => WaitTimed(p)
           /\ c.op \in {"sameport", "sameaddress"} => Compare(p)
           /\ c.op = "echo" => Echo(p)
           /\ c.op = "put" => PutData(p)
           /\ c.op \notin {"fork", "reap"} => ~ForkServer(p) /\ ~ReapAll(p)
BY DEF PeerStep, Doing, Finish, Succeed, SetIgnored, MakeSocket, StartListening, BindPort, CloseIt, AcceptCall, ConnectTo,
       CopyUntilEnd, ForkServer, ReapAll, SendDatagram, Receive, WaitTimed, Compare, Echo, ReadInput, JoinGroup, LeaveGroup,
       CountMessage, SeekBlock, PutData

LEMMA CallTakes ==
    ASSUME SockTypes, NEW p \in Peers, PeerStep(p) \/ CallFails(p), ~AtEnd(p), NEW q, q = peer[p], NEW c, c = Current(p)
    PROVE  Refused(q, peer'[p], c) \/ Takes(p, q, peer'[p], c)
<1>1. q \in PeerRecords /\ peer \in [Peers -> PeerRecords]
  BY DEF SockTypes
<1>2. ASSUME NEW r, DOMAIN r = DOMAIN q
      PROVE  /\ Works(p, r) => Goes(r, peer'[p], c.then)
             /\ Refuses(p, r) => Goes(r, peer'[p], c.fail)
  <2>1. {"at", "got", "from", "sent", "echoed", "late", "placed"} \subseteq DOMAIN r
    BY <1>1, <1>2 DEF PeerRecords
  <2>2. /\ Works(p, r) => peer'[p] = [r EXCEPT !.at = c.then]
        /\ Refuses(p, r) => peer'[p] = [r EXCEPT !.at = c.fail]
    BY <1>1 DEF Works, Refuses, Now
  <2> QED  BY <2>1, <2>2 DEF Goes
<1>5. DOMAIN q = DOMAIN q
  OBVIOUS
<1>3. CASE CallFails(p)
  <2> DEFINE r == [q EXCEPT !.open = IF c.op = "close" THEN @ \ {Fd(p)} ELSE @]
  <2>1. Refuses(p, r) /\ errors > 0 /\ errors' = errors - 1 /\ wire' = wire
    BY <1>3 DEF CallFails
  <2>2. Goes(r, peer'[p], c.fail)
    BY <1>2, <2>1
  <2>3. Goes(q, peer'[p], c.fail)
    BY <2>2 DEF Goes
  <2> QED  BY <2>1, <2>3 DEF Refused
<1>4. CASE PeerStep(p)
  <2>1. c.op \in Quiet => Calm /\ Goes(q, peer'[p], c.then)
    <3>1. CASE c.op \in {"sys", "bind", "seek"}
      <4>1. Works(p, q) /\ Calm
        BY <1>4, <3>1, WhoActs DEF Calm, Alone, Succeed, BindPort, SeekBlock
      <4> QED  BY <1>2, <1>5, <4>1
    <3>2. CASE c.op \in {"socket", "close"}
      <4>1. PICK open : Works(p, [q EXCEPT !.open = open]) /\ Calm
        BY <1>1, <1>4, <3>2, WhoActs DEF Calm, Alone, MakeSocket, CloseIt, PeerRecords
      <4>2. Goes([q EXCEPT !.open = open], peer'[p], c.then)
        BY <1>2, <4>1
      <4> QED  BY <4>1, <4>2 DEF Goes
    <3> QED  BY <3>1, <3>2 DEF Quiet
  <2>2. ASSUME c.op = "sendto"
        PROVE  /\ Goes([q EXCEPT !.sent = @ + 1], peer'[p], c.then)
               /\ \/ errors' = errors /\ wire' = wire \cup {[from |-> p, to |-> x, body |-> Sent(p)] : x \in Targets(p)}
                  \/ errors > 0 /\ errors' = errors - 1 /\ wire' = wire
    <3>1. SendDatagram(p)
      BY <1>4, <2>2, WhoActs
    <3>2. Works(p, [q EXCEPT !.sent = @ + 1])
      BY <3>1 DEF SendDatagram
    <3>3. Goes([q EXCEPT !.sent = @ + 1], peer'[p], c.then)
      BY <1>2, <3>2
    <3> QED  BY <3>1, <3>3 DEF SendDatagram
  <2>3. ASSUME c.op = "recvfrom"
        PROVE  \E d \in wire : /\ d.to = p /\ errors' = errors /\ wire' = wire \ {d}
                               /\ Goes([q EXCEPT !.got = Append(@, d.body), !.from = d.from], peer'[p], c.then)
    <3>1. Receive(p)
      BY <1>4, <2>3, WhoActs
    <3>2. PICK d \in wire : d.to = p /\ wire' = wire \ {d} /\ Works(p, [q EXCEPT !.got = Append(@, d.body), !.from = d.from])
      BY <3>1 DEF Receive, Mine
    <3>3. Goes([q EXCEPT !.got = Append(@, d.body), !.from = d.from], peer'[p], c.then)
      BY <1>2, <3>2
    <3> QED  BY <3>1, <3>2, <3>3 DEF Receive
  <2>4. ASSUME c.op = "waitfdtimed"
        PROVE  Calm /\ (Goes(q, peer'[p], c.then) \/ Goes([q EXCEPT !.late = TRUE], peer'[p], c.fail))
    <3>1. Calm /\ (Works(p, q) \/ Refuses(p, [q EXCEPT !.late = TRUE]))
      BY <1>4, <2>4, WhoActs DEF Calm, Alone, WaitTimed
    <3> QED  BY <1>2, <1>5, <3>1
  <2>5. /\ c.op = "sameport" => Calm /\ Goes(q, peer'[p], IF q.from = OtherPort THEN c.fail ELSE c.then)
        /\ c.op = "sameaddress" => Calm /\ Goes(q, peer'[p], IF q.from = OtherHost THEN c.fail ELSE c.then)
    <3>1. /\ c.op = "sameport" => Calm /\ IF q.from = OtherPort THEN Refuses(p, q) ELSE Works(p, q)
          /\ c.op = "sameaddress" => Calm /\ IF q.from = OtherHost THEN Refuses(p, q) ELSE Works(p, q)
      BY <1>4, WhoActs DEF Calm, Alone, Compare, Doing
    <3> QED  BY <1>2, <1>5, <3>1
  <2>6. c.op = "echo" => Calm /\ Goes([q EXCEPT !.echoed = @ + 1], peer'[p], c.then)
    <3>1. c.op = "echo" => Calm /\ Works(p, [q EXCEPT !.echoed = @ + 1])
      BY <1>4, WhoActs DEF Calm, Alone, Echo
    <3> QED  BY <1>2, <3>1
  <2>7. c.op = "put" => Calm /\ Goes([q EXCEPT !.placed = TRUE], peer'[p], c.then)
    <3>1. c.op = "put" => Calm /\ Works(p, [q EXCEPT !.placed = TRUE])
      BY <1>4, WhoActs DEF Calm, Alone, PutData
    <3> QED  BY <1>2, <3>1
  <2> QED  BY <2>1, <2>2, <2>3, <2>4, <2>5, <2>6, <2>7 DEF Takes
<1> QED
  BY <1>3, <1>4

\* A call that is neither fork nor wait changes the record of its process only.
LEMMA OthersStay ==
    ASSUME SockTypes, NEW p \in Peers, PeerStep(p) \/ CallFails(p), AtEnd(p) \/ Current(p).op \notin {"fork", "reap"}
    PROVE  \A x \in Peers : x # p => peer'[x] = peer[x]
<1>1. peer \in [Peers -> PeerRecords]
  BY DEF SockTypes
<1>2. ~ForkServer(p) /\ ~ReapAll(p)
  BY DEF ForkServer, ReapAll, Doing
<1>3. \E r : peer' = [peer EXCEPT ![p] = r]
  <2>1. CASE CallFails(p)
    BY <2>1 DEF CallFails, Refuses, Now
  <2>2. CASE Finish(p) \/ Succeed(p) \/ SetIgnored(p) \/ MakeSocket(p) \/ StartListening(p) \/ BindPort(p) \/ CloseIt(p)
    BY <2>2 DEF Finish, Succeed, SetIgnored, MakeSocket, StartListening, BindPort, CloseIt, Works, Now
  <2>3. CASE AcceptCall(p) \/ ConnectTo(p) \/ CopyUntilEnd(p)
    BY <2>3 DEF AcceptCall, ConnectTo, CopyUntilEnd, Works, Refuses, Now
  <2>4. CASE SendDatagram(p) \/ Receive(p) \/ WaitTimed(p) \/ Compare(p) \/ Echo(p) \/ ReadInput(p)
    BY <2>4 DEF SendDatagram, Receive, WaitTimed, Compare, Echo, ReadInput, Works, Refuses, Now
  <2>5. CASE JoinGroup(p) \/ LeaveGroup(p) \/ CountMessage(p) \/ SeekBlock(p) \/ PutData(p)
    BY <2>5 DEF JoinGroup, LeaveGroup, CountMessage, SeekBlock, PutData, Works, Refuses, Now
  <2> QED  BY <1>2, <2>1, <2>2, <2>3, <2>4, <2>5 DEF PeerStep
<1> QED
  BY <1>1, <1>3

\* The first processes run the programs of their script, and there are no others but children.
LEMMA Casting ==
    ASSUME SockTypes, PeersKept, NEW p \in Peers
    PROVE  /\ p <= Len(Together[net]) =>
                 /\ peer[p].program = Together[net][p] /\ peer[p].status # "unborn"
                 /\ peer[p].program \in DOMAIN Mains /\ peer[p].at \in DOMAIN Mains[peer[p].program] \cup Ends
           /\ p > Len(Together[net]) /\ net # "tcpfork" => peer[p].status = "unborn"
           /\ p \in Nat \ {0} /\ Len(Together[net]) \in 1..3
<1>1. Placed(p, peer[p]) /\ p \in Nat \ {0} /\ Len(Together[net]) \in 1..3
  BY TogetherPrograms, NumPeersAssumption DEF PeersKept, Peers, SockTypes
<1> QED
  BY <1>1 DEF Placed

\* What a client has got, when it has got one more.
LEMMA GotOne ==
    ASSUME NEW got \in Seq(Bodies), NEW b \in Bodies
    PROVE  Append(got, b) # <<>> /\ Newest(Append(got, b)) = b
BY AppendProperties, LenProperties DEF Newest

LEMMA ClientGoes ==
    ASSUME SockTypes, NEW q \in PeerRecords, NEW r, NEW c, RequestStep(q.at, c), ClientKept(q, errors),
           Refused(q, r, c) \/ Takes(2, q, r, c),
           \A d \in wire : d.to = 2 => d.from \in Strangers \/ d.body = Answer
    PROVE  ClientKept(r, errors') /\ r.sent >= q.sent
<1> USE DEF Unsent, Checking, Giving
<1>1. /\ q.got \in Seq(Bodies) /\ q.sent \in Nat /\ q.echoed \in Nat /\ errors \in Nat /\ MaxErrors \in Nat /\ errors <= MaxErrors
      /\ {"at", "got", "from", "sent", "echoed", "late", "placed"} \subseteq DOMAIN q
  BY ErrorsAssumption DEF PeerRecords, SockTypes
<1>2. CASE Refused(q, r, c)
  <2>1. errors' < MaxErrors /\ Goes(q, r, c.fail)
    BY <1>1, <1>2 DEF Refused
  <2>2. r.sent >= q.sent
    BY <1>1, <2>1 DEF Goes
  <2>3. CASE q.at \in Unsent \cup Giving \cup {"wait", "recvfrom", "echo", "close"}
    <3>1. \/ c.fail \in Giving /\ q.at # "close" /\ q.echoed = 0
          \/ q.at = "close" /\ c.fail = "error"
          \/ q.at \in Giving /\ c.fail = "error"
      BY <1>1, <2>3 DEF RequestStep, ClientKept
    <3> QED  BY <1>1, <2>1, <2>2, <2>3, <3>1 DEF ClientKept, Goes
  <2>4. CASE q.at \in Checking
    <3>1. c.fail \in {"wait", "recvfrom"} /\ q.echoed = 0
      BY <2>4 DEF RequestStep, ClientKept
    <3> QED  BY <1>1, <2>1, <2>2, <3>1 DEF ClientKept, Goes
  <2> QED  BY <2>3, <2>4 DEF RequestStep
<1>3. CASE Takes(2, q, r, c)
  <2>1. CASE q.at \in Unsent \ {"sendto"}
    <3>1. errors' = errors /\ Goes(q, r, c.then) /\ c.then \in Unsent
      BY <1>3, <2>1 DEF RequestStep, Takes, Calm
    <3> QED  BY <1>1, <2>1, <3>1 DEF ClientKept, Goes
  <2>2. CASE q.at = "sendto"
    <3>1. c.then \in {"wait", "recvfrom"} /\ Goes([q EXCEPT !.sent = @ + 1], r, c.then)
      BY <1>3, <2>2 DEF RequestStep, Takes
    <3>2. r.at \in {"wait", "recvfrom"} /\ r.echoed = q.echoed /\ r.sent = q.sent + 1
      BY <1>1, <3>1 DEF Goes
    <3>3. q.echoed = 0
      BY <2>2 DEF ClientKept
    <3> QED  BY <1>1, <3>2, <3>3 DEF ClientKept
  <2>3. CASE q.at = "wait"
    <3>1. c.then = "recvfrom" /\ c.fail \in Giving /\ errors' = errors
          /\ (Goes(q, r, c.then) \/ Goes([q EXCEPT !.late = TRUE], r, c.fail))
      BY <1>3, <2>3 DEF RequestStep, Takes, Calm
    <3>2. /\ r.at = "recvfrom" \/ (r.at \in Giving /\ r.late = TRUE)
          /\ r.echoed = q.echoed /\ r.sent = q.sent
      BY <1>1, <3>1 DEF Goes
    <3>3. q.echoed = 0
      BY <2>3 DEF ClientKept
    <3> QED  BY <1>1, <3>2, <3>3 DEF ClientKept
  <2>4. CASE q.at = "recvfrom"
    <3>1. c.then = "sameport" /\ c.op = "recvfrom"
      BY <2>4 DEF RequestStep
    <3>2. PICK d \in wire : /\ d.to = 2 /\ errors' = errors
                            /\ Goes([q EXCEPT !.got = Append(@, d.body), !.from = d.from], r, c.then)
      BY <1>3, <3>1 DEF Takes
    <3>3. r.at = "sameport" /\ r.got = Append(q.got, d.body) /\ r.from = d.from /\ r.sent = q.sent /\ r.echoed = q.echoed
      BY <1>1, <3>1, <3>2 DEF Goes
    <3>4. d.body \in Bodies
      BY DEF SockTypes
    <3>5. r.got # <<>> /\ Newest(r.got) = d.body
      BY <1>1, <3>3, <3>4, GotOne
    <3>6. q.echoed = 0 /\ (d.from \in Strangers \/ d.body = Answer)
      BY <2>4, <3>2 DEF ClientKept
    <3> QED  BY <1>1, <3>3, <3>5, <3>6 DEF ClientKept
  <2>5. CASE q.at \in {"sameport", "sameaddress"}
    <3>1. /\ errors' = errors
          /\ q.at = "sameport" => Goes(q, r, IF q.from = OtherPort THEN c.fail ELSE c.then)
          /\ q.at = "sameaddress" => Goes(q, r, IF q.from = OtherHost THEN c.fail ELSE c.then)
          /\ q.at = "sameport" => c.then = "findaddress"
          /\ q.at = "sameaddress" => c.then = "echo"
          /\ c.fail \in {"wait", "recvfrom"}
      BY <1>3, <2>5 DEF RequestStep, Takes, Calm
    <3> QED  BY <1>1, <2>5, <3>1 DEF ClientKept, Goes, Strangers
  <2>6. CASE q.at = "findaddress"
    <3>1. errors' = errors /\ Goes(q, r, "sameaddress")
      BY <1>3, <2>6 DEF RequestStep, Takes, Calm, Quiet
    <3> QED  BY <1>1, <2>6, <3>1 DEF ClientKept, Goes
  <2>7. CASE q.at = "echo"
    <3>1. errors' = errors /\ Goes([q EXCEPT !.echoed = @ + 1], r, "close")
      BY <1>3, <2>7 DEF RequestStep, Takes, Calm
    <3>2. r.at = "close" /\ r.echoed = q.echoed + 1 /\ r.got = q.got /\ r.sent = q.sent
      BY <1>1, <3>1 DEF Goes
    <3> QED  BY <1>1, <2>7, <3>2 DEF ClientKept
  <2>8. CASE q.at = "close"
    <3>1. errors' = errors /\ Goes(q, r, "return")
      BY <1>3, <2>8 DEF RequestStep, Takes, Calm, Quiet
    <3> QED  BY <1>1, <2>8, <3>1 DEF ClientKept, Goes
  <2>9. CASE q.at \in Giving
    <3>1. errors' = errors /\ Goes(q, r, "error")
      BY <1>3, <2>9 DEF RequestStep, Takes, Calm, Quiet
    <3> QED  BY <1>1, <2>9, <3>1 DEF ClientKept, Goes
  <2> QED  BY <2>1, <2>2, <2>3, <2>4, <2>5, <2>6, <2>7, <2>8, <2>9 DEF RequestStep
<1> QED
  BY <1>2, <1>3

LEMMA ServerGoes ==
    ASSUME SockTypes, NEW q \in PeerRecords, NEW r, NEW c, ServerStep(q.at, c), ServerKept(q),
           Refused(q, r, c) \/ Takes(1, q, r, c),
           \A d \in wire : d.to = 1 => d = Request /\ q.got = <<>>
    PROVE  ServerKept(r)
<1>1. /\ q.got \in Seq(Bodies) /\ q.sent \in Nat
      /\ {"at", "got", "from", "sent", "echoed", "late", "placed"} \subseteq DOMAIN q
  BY DEF PeerRecords
<1>2. CASE Refused(q, r, c)
  <2>1. Goes(q, r, c.fail)
    BY <1>2 DEF Refused
  <2> QED  BY <1>1, <2>1 DEF ServerKept, ServerStep, Goes
<1>3. CASE Takes(1, q, r, c)
  <2>1. CASE q.at \notin {"recvfrom", "echo", "sendto"}
    <3>1. Goes(q, r, c.then) /\ c.then \notin {"echo", "sendto"}
      BY <1>3, <2>1 DEF ServerStep, Takes
    <3> QED  BY <3>1 DEF ServerKept, Goes
  <2>2. CASE q.at = "recvfrom"
    <3>1. c.then = "echo" /\ c.op = "recvfrom"
      BY <2>2 DEF ServerStep
    <3>2. PICK d \in wire : d.to = 1 /\ Goes([q EXCEPT !.got = Append(@, d.body), !.from = d.from], r, c.then)
      BY <1>3, <3>1 DEF Takes
    <3>3. r.at = "echo" /\ r.got = Append(q.got, d.body) /\ r.from = d.from /\ r.sent = q.sent
      BY <1>1, <3>1, <3>2 DEF Goes
    <3>4. d = Request /\ q.got = <<>>
      BY <3>2
    <3>5. r.got = <<Answer>> /\ r.from = 2
      BY <3>3, <3>4 DEF Request
    <3> QED  BY <3>3, <3>4, <3>5 DEF ServerKept
  <2>3. CASE q.at = "echo"
    <3>1. Goes([q EXCEPT !.echoed = @ + 1], r, "sendto")
      BY <1>3, <2>3 DEF ServerStep, Takes
    <3>2. r.at = "sendto" /\ r.got = q.got /\ r.from = q.from /\ r.sent = q.sent
      BY <1>1, <3>1 DEF Goes
    <3> QED  BY <2>3, <3>2 DEF ServerKept
  <2>4. CASE q.at = "sendto"
    <3>1. Goes([q EXCEPT !.sent = @ + 1], r, "recvfrom")
      BY <1>3, <2>4 DEF ServerStep, Takes
    <3>2. r.at = "recvfrom" /\ r.got = q.got /\ r.from = q.from
      BY <1>1, <3>1 DEF Goes
    <3> QED  BY <2>4, <3>2 DEF ServerKept
  <2> QED  BY <2>1, <2>2, <2>3, <2>4
<1> QED
  BY <1>2, <1>3

LEMMA SendGoes ==
    ASSUME NEW q \in PeerRecords, NEW r, NEW c, NEW p, SendStep(q.at, c), SendKept(q), Refused(q, r, c) \/ Takes(p, q, r, c)
    PROVE  SendKept(r)
<1> USE DEF Unsent, Giving
<1>1. q.sent \in Nat /\ {"at", "got", "from", "sent", "echoed", "late", "placed"} \subseteq DOMAIN q
  BY DEF PeerRecords
<1>2. CASE Refused(q, r, c)
  <2>1. Goes(q, r, c.fail) /\ c.fail \in Giving
    BY <1>2 DEF Refused, SendStep
  <2> QED  BY <2>1 DEF SendKept, Goes
<1>3. CASE Takes(p, q, r, c)
  <2>1. CASE q.at = "sendto"
    <3>1. Goes([q EXCEPT !.sent = @ + 1], r, "close")
      BY <1>3, <2>1 DEF SendStep, Takes
    <3>2. r.at = "close" /\ r.sent = q.sent + 1
      BY <1>1, <3>1 DEF Goes
    <3> QED  BY <2>1, <3>2 DEF SendKept
  <2>2. CASE q.at # "sendto"
    <3>1. \/ q.at \in Unsent /\ c.then \in Unsent /\ c.op \in Quiet
          \/ q.at = "close" /\ c.then = "return" /\ c.op \in Quiet
          \/ c.then = "error" /\ c.op \in Quiet
      BY <2>2 DEF SendStep, Quiet
    <3>2. Goes(q, r, c.then)
      BY <1>3, <3>1 DEF Takes
    <3> QED  BY <3>1, <3>2 DEF SendKept, Goes
  <2> QED  BY <2>1, <2>2
<1> QED
  BY <1>2, <1>3

LEMMA BlockGoes ==
    ASSUME SockTypes, NEW q \in PeerRecords, NEW r, NEW c, NEW p, BlockStep(q.at, c), BlockKept(q, errors),
           Refused(q, r, c) \/ Takes(p, q, r, c)
    PROVE  BlockKept(r, errors')
<1> USE DEF Giving
<1>1. /\ errors \in Nat /\ MaxErrors \in Nat /\ errors <= MaxErrors
      /\ {"at", "got", "from", "sent", "echoed", "late", "placed"} \subseteq DOMAIN q
  BY ErrorsAssumption DEF PeerRecords, SockTypes
<1>2. CASE Refused(q, r, c)
  <2>1. Goes(q, r, c.fail) /\ c.fail \in Giving /\ errors' < MaxErrors
    BY <1>1, <1>2 DEF Refused, BlockStep
  <2> QED  BY <2>1 DEF BlockKept, Goes
<1>3. CASE Takes(p, q, r, c)
  <2>1. CASE q.at = "put"
    <3>1. errors' = errors /\ Goes([q EXCEPT !.placed = TRUE], r, "close")
      BY <1>3, <2>1 DEF BlockStep, Takes, Calm
    <3>2. r.at = "close" /\ r.placed = TRUE
      BY <1>1, <3>1 DEF Goes
    <3> QED  BY <2>1, <3>1, <3>2 DEF BlockKept
  <2>2. CASE q.at # "put"
    <3>1. /\ errors' = errors /\ Goes(q, r, c.then)
          /\ \/ q.at \in {"open", "seek"} /\ c.then \in {"seek", "put"}
             \/ q.at = "close" /\ c.then = "return"
             \/ q.at = "undo" /\ c.then = "error"
      BY <1>3, <2>2 DEF BlockStep, Takes, Quiet, Calm
    <3> QED  BY <3>1 DEF BlockKept, Goes
  <2> QED  BY <2>1, <2>2
<1> QED
  BY <1>2, <1>3

\* At its end a process does nothing but finish.
LEMMA EndTakes ==
    ASSUME SockTypes, NEW p \in Peers, PeerStep(p) \/ CallFails(p), AtEnd(p)
    PROVE  /\ Calm /\ UnchangedNet /\ calls' = calls /\ Goes(peer[p], peer'[p], peer[p].at)
           /\ Finish(p)
<1>1. Finish(p)
  BY DEF PeerStep, CallFails, Doing, Succeed, SetIgnored, MakeSocket, StartListening, BindPort, CloseIt, AcceptCall, ConnectTo,
       CopyUntilEnd, ForkServer, ReapAll, SendDatagram, Receive, WaitTimed, Compare, Echo, ReadInput, JoinGroup, LeaveGroup,
       CountMessage, SeekBlock, PutData
<1>2. peer \in [Peers -> PeerRecords] /\ {"at", "got", "from", "sent", "echoed", "late", "placed"} \subseteq DOMAIN peer[p]
  BY DEF SockTypes, PeerRecords
<1>3. \E st : peer'[p] = [peer[p] EXCEPT !.open = {}, !.joined = FALSE, !.status = st]
  BY <1>1, <1>2 DEF Finish, Now
<1> QED
  BY <1>1, <1>2, <1>3 DEF Finish, Alone, Calm, UnchangedNet, Goes

\* Only the server that forks its children forks and waits.
LEMMA NoFork ==
    ASSUME SockTypes, PeersKept, NEW p \in Peers, Live(p), net # "tcpfork"
    PROVE  AtEnd(p) \/ Current(p).op \notin {"fork", "reap"}
<1> SUFFICES ASSUME ~AtEnd(p), Current(p).op \in {"fork", "reap"} PROVE FALSE
  OBVIOUS
<1>1. peer[p].program = "serverp2" /\ peer[p].status = "running"
  BY CurrentSound DEF StepSound, Live
<1>2. p <= Len(Together[net]) /\ Together[net][p] = "serverp2"
  BY <1>1, Casting
<1> QED
  BY <1>2, Casting, ServersAlone DEF SockTypes

\* Who sends is no server, or has a request to answer.
LEMMA FirstSends ==
    ASSUME SockIInv, 1 \in Peers, Live(1), ~AtEnd(1), Current(1).op = "sendto"
    PROVE  /\ net \in {"reply", "timeout"}
           /\ peer[1].got = <<Answer>> /\ peer[1].from = 2 /\ peer[1].sent = 0
<1>0. SockTypes /\ PeersKept /\ RequestKept /\ net \in DOMAIN Together
  BY DEF SockIInv, SockTypes
<1>1. peer[1].at = "sendto" /\ peer[1].program \in UdpClients \cup {"sender_udp", "server_udp_request_reply"}
  BY <1>0, CurrentSound DEF StepSound
<1>2. 1 <= Len(Together[net]) /\ peer[1].program = Together[net][1]
  BY <1>0, Casting
<1>3. Together[net][1] \notin {"sender_udp", "client_udp"} \cup Requests
      /\ (Together[net][1] = "server_udp_request_reply" => net \in {"reply", "timeout"})
  BY <1>0, <1>2, ServersAlone
<1>4. net \in {"reply", "timeout"}
  BY <1>1, <1>2, <1>3 DEF Requests
<1> QED
  BY <1>0, <1>1, <1>4 DEF RequestKept, ServerKept

LEMMA WireTyped ==
    ASSUME SockIInv, NEW p \in Peers, PeerStep(p) \/ CallFails(p)
    PROVE  /\ errors' \in 0..MaxErrors /\ errors' <= errors /\ strays' = strays
           /\ wire' \subseteq [from : Int, to : Int, body : Bodies] /\ calls' \subseteq Peers
<1>0. /\ SockTypes /\ PeersKept /\ p \in Int /\ errors \in 0..MaxErrors /\ MaxErrors \in Nat
      /\ wire \subseteq [from : Int, to : Int, body : Bodies] /\ calls \subseteq Peers
  BY NumPeersAssumption, ErrorsAssumption DEF SockIInv, SockTypes, Peers
<1>1. CASE CallFails(p)
  BY <1>0, <1>1 DEF CallFails, UnchangedNet
<1>2. CASE SendDatagram(p)
  <2>1. Live(p) /\ ~AtEnd(p) /\ Current(p).op = "sendto"
    BY <1>2 DEF SendDatagram, Doing
  <2>2. peer[p] \in PeerRecords
    BY <1>0 DEF SockTypes
  <2>3. peer[p].sent \in Nat /\ peer[p].from \in Int
    BY <2>2 DEF PeerRecords
  <2>4. Sent(p) \in Bodies
    <3>1. CASE p = 1
      <4>1. peer[1].got = <<Answer>>
        BY <2>1, <3>1, FirstSends
      <4>2. peer[1].got[Len(peer[1].got)] = Answer
        BY <4>1
      <4> QED  BY <2>3, <3>1, <4>2 DEF Sent, Bodies, Answer
    <3>2. CASE p # 1
      BY <1>0, <2>3, <3>2 DEF Sent, Bodies
    <3> QED  BY <3>1, <3>2
  <2>5. Targets(p) \subseteq Int
    BY <2>3, NumPeersAssumption DEF Targets, Groups, Peers
  <2>6. {[from |-> p, to |-> x, body |-> Sent(p)] : x \in Targets(p)} \subseteq [from : Int, to : Int, body : Bodies]
    BY <1>0, <2>4, <2>5
  <2>7. UnchangedNet /\ calls' = calls
    BY <1>2 DEF SendDatagram
  <2>8. \/ wire' = wire \cup {[from |-> p, to |-> x, body |-> Sent(p)] : x \in Targets(p)} /\ errors' = errors
        \/ errors > 0 /\ errors' = errors - 1 /\ wire' = wire
    BY <1>2 DEF SendDatagram
  <2> HIDE DEF Targets, Sent
  <2> QED  BY <1>0, <2>6, <2>7, <2>8 DEF UnchangedNet
<1>3. CASE Receive(p)
  BY <1>0, <1>3 DEF Receive, UnchangedNet
<1>4. CASE AcceptCall(p) \/ ConnectTo(p)
  <2>1. calls' \subseteq calls \cup {p}
    BY <1>4 DEF AcceptCall, ConnectTo
  <2>2. UnchangedNet /\ errors' = errors /\ wire' = wire
    BY <1>4 DEF AcceptCall, ConnectTo
  <2> QED  BY <1>0, <2>1, <2>2 DEF UnchangedNet
<1>5. CASE Alone
  BY <1>0, <1>5 DEF Alone, UnchangedNet
<1>6. PeerStep(p) => Alone \/ SendDatagram(p) \/ Receive(p) \/ AcceptCall(p) \/ ConnectTo(p)
  <2>1. Finish(p) \/ Succeed(p) \/ SetIgnored(p) \/ MakeSocket(p) \/ StartListening(p) \/ BindPort(p) \/ CloseIt(p) => Alone
    BY DEF Finish, Succeed, SetIgnored, MakeSocket, StartListening, BindPort, CloseIt
  <2>2. CopyUntilEnd(p) \/ ForkServer(p) \/ ReapAll(p) \/ WaitTimed(p) \/ Compare(p) \/ Echo(p) \/ ReadInput(p) => Alone
    BY DEF CopyUntilEnd, ForkServer, ReapAll, WaitTimed, Compare, Echo, ReadInput
  <2>3. JoinGroup(p) \/ LeaveGroup(p) \/ CountMessage(p) \/ SeekBlock(p) \/ PutData(p) => Alone
    BY DEF JoinGroup, LeaveGroup, CountMessage, SeekBlock, PutData
  <2> QED  BY <2>1, <2>2, <2>3 DEF PeerStep
<1> QED
  BY <1>1, <1>2, <1>3, <1>4, <1>5, <1>6

\* A step of one process of a request, as it changes records and datagrams.
LEMMA StepTakes ==
    ASSUME SockIInv, NEW p \in Peers, PeerStep(p) \/ CallFails(p), net # "tcpfork"
    PROVE  /\ p <= Len(Together[net]) /\ peer[p].program = Together[net][p] /\ peer[p] \in PeerRecords
           /\ \A x \in Peers : x # p => peer'[x] = peer[x]
           /\ net' = net
           /\ \/ Calm /\ Goes(peer[p], peer'[p], peer[p].at) /\ AtEnd(p)
              \/ /\ Refused(peer[p], peer'[p], Current(p)) \/ Takes(p, peer[p], peer'[p], Current(p))
                 /\ ~AtEnd(p) /\ peer[p].at \in DOMAIN Mains[Together[net][p]]
                 /\ Current(p) = Mains[Together[net][p]][peer[p].at]
<1>0. SockTypes /\ PeersKept /\ peer[p] \in PeerRecords
  BY DEF SockIInv, SockTypes
<1>1. Live(p) /\ net' = net
  BY DEF PeerStep, CallFails, Doing, Finish, Succeed, SetIgnored, MakeSocket, StartListening, BindPort, CloseIt, AcceptCall,
         ConnectTo, CopyUntilEnd, ForkServer, ReapAll, SendDatagram, Receive, WaitTimed, Compare, Echo, ReadInput, JoinGroup,
         LeaveGroup, CountMessage, SeekBlock, PutData, Alone, UnchangedNet
<1>2. p <= Len(Together[net]) /\ peer[p].program = Together[net][p]
      /\ peer[p].at \in DOMAIN Mains[Together[net][p]] \cup Ends
  BY <1>0, <1>1, Casting DEF Live
<1>3. \A x \in Peers : x # p => peer'[x] = peer[x]
  BY <1>0, <1>1, NoFork, OthersStay
<1>4. CASE AtEnd(p)
  BY <1>0, <1>1, <1>2, <1>3, <1>4, EndTakes
<1>5. CASE ~AtEnd(p)
  <2>1. Refused(peer[p], peer'[p], Current(p)) \/ Takes(p, peer[p], peer'[p], Current(p))
    BY <1>0, <1>5, CallTakes
  <2>2. peer[p].at \in DOMAIN Mains[Together[net][p]] /\ Current(p) = Mains[Together[net][p]][peer[p].at]
    BY <1>2, <1>5 DEF AtEnd, Ends, Current
  <2> QED  BY <1>0, <1>1, <1>2, <1>3, <1>5, <2>1, <2>2
<1> QED
  BY <1>4, <1>5

LEMMA RequestPair ==
    ASSUME net \in {"reply", "timeout"}
    PROVE  /\ Len(Together[net]) = 2 /\ Together[net][1] = "server_udp_request_reply"
           /\ Together[net][2] \in {"client_udp_request_reply", "client_udp_request_reply_timeout"}
BY DEF Together

\* The server receives or answers, or does what the datagrams do not depend on.
LEMMA ServerSteps ==
    ASSUME SockIInv, 1 \in Peers, PeerStep(1) \/ CallFails(1), net \in {"reply", "timeout"}
    PROVE  RequestKept'
<1> DEFINE q == peer[1]
           r == peer'[1]
           c == Current(1)
<1>0. SockTypes /\ PeersKept /\ RequestKept /\ Len(Together[net]) = 2 /\ net # "tcpfork"
  BY RequestPair DEF SockIInv
<1>1. /\ q \in PeerRecords
      /\ \A x \in Peers : x # 1 => peer'[x] = peer[x]
      /\ \/ Calm /\ Goes(q, r, q.at) /\ AtEnd(1)
         \/ (Refused(q, r, c) \/ Takes(1, q, r, c)) /\ ~AtEnd(1) /\ ServerStep(q.at, c)
  BY <1>0, StepTakes, RequestPair, StepsOfSome
<1>2. /\ ServerKept(q) /\ (2 \in Peers => ClientKept(peer[2], errors)) /\ (q.got # <<>> => Requested)
      /\ \A d \in wire : /\ d.to = 1 => d = Request /\ q.got = <<>> /\ Requested
                         /\ d.to = 2 => d.from \in Strangers \/ d.body = Answer
  BY <1>0 DEF RequestKept
<1>3. Requested' <=> Requested
  BY <1>1 DEF Requested
<1>4. 2 \in Peers => ClientKept(peer'[2], errors')
  <2>1. errors' <= errors /\ errors' \in Int /\ errors \in Int /\ MaxErrors \in Int
    BY WireTyped, ErrorsAssumption, <1>0 DEF SockTypes
  <2>2. 2 \in Peers => peer'[2] = peer[2]
    BY <1>1
  <2> QED  BY <1>2, <2>1, <2>2 DEF ClientKept
<1>5. /\ ServerKept(r) /\ (r.got # <<>> => Requested)
      /\ \A d \in wire' : /\ d.to = 1 => d = Request /\ r.got = <<>> /\ Requested
                          /\ d.to = 2 => d.from \in Strangers \/ d.body = Answer
  <2>1. CASE Calm /\ Goes(q, r, q.at) /\ AtEnd(1)
    BY <1>2, <2>1 DEF ServerKept, Goes, Calm
  <2>2. CASE (Refused(q, r, c) \/ Takes(1, q, r, c)) /\ ~AtEnd(1) /\ ServerStep(q.at, c)
    <3>1. ServerKept(r)
      BY <1>0, <1>1, <1>2, <2>2, ServerGoes
    <3>2. {"at", "got", "from", "sent", "echoed", "late", "placed"} \subseteq DOMAIN q /\ q.sent \in Nat
      BY <1>1 DEF PeerRecords
    <3>3. CASE Refused(q, r, c)
      BY <1>2, <3>1, <3>3 DEF Refused, Goes
    <3>4. CASE Takes(1, q, r, c) /\ q.at = "recvfrom"
      <4>1. c.op = "recvfrom"
        BY <2>2, <3>4 DEF ServerStep
      <4>2. PICK d \in wire : d.to = 1 /\ wire' = wire \ {d}
        BY <3>4, <4>1 DEF Takes
      <4>3. \A x \in wire' : x \in wire /\ x.to # 1
        BY <1>2, <4>2
      <4> QED  BY <1>2, <3>1, <4>2, <4>3
    <3>5. CASE Takes(1, q, r, c) /\ q.at = "sendto"
      <4>1. c.op = "sendto"
        BY <2>2, <3>5 DEF ServerStep
      <4>2. q.got = <<Answer>> /\ q.from = 2 /\ q.sent = 0
        BY <1>2, <3>5 DEF ServerKept
      <4>3. Targets(1) = {2}
        BY <1>0, <4>2, RequestPair DEF Targets
      <4>4. Sent(1) = Answer
        <5>1. q.got[Len(q.got)] = Answer
          BY <4>2
        <5> QED  BY <4>2, <5>1 DEF Sent, Answer
      <4>5. \A x \in wire' : x \in wire \/ x = [from |-> 1, to |-> 2, body |-> Answer]
        BY <3>5, <4>1, <4>3, <4>4 DEF Takes
      <4>6. r.got = q.got
        BY <3>2, <3>5, <4>1 DEF Takes, Goes
      <4> QED  BY <1>2, <3>1, <4>5, <4>6
    <3>6. CASE Takes(1, q, r, c) /\ q.at \notin {"recvfrom", "sendto"}
      <4>1. c.op \in Quiet \/ c.op = "echo"
        BY <2>2, <3>6 DEF ServerStep
      <4>2. Calm /\ r.got = q.got
        BY <3>2, <3>6, <4>1 DEF Takes, Goes
      <4> QED  BY <1>2, <3>1, <4>2 DEF Calm
    <3> QED  BY <2>2, <3>3, <3>4, <3>5, <3>6
  <2> QED  BY <1>1, <2>1, <2>2
<1> QED
  BY <1>3, <1>4, <1>5 DEF RequestKept

\* The client sends, receives and compares.
LEMMA ClientSteps ==
    ASSUME SockIInv, 2 \in Peers, PeerStep(2) \/ CallFails(2), net \in {"reply", "timeout"}
    PROVE  RequestKept'
<1> DEFINE q == peer[2]
           r == peer'[2]
           c == Current(2)
<1>0. SockTypes /\ PeersKept /\ RequestKept /\ Len(Together[net]) = 2 /\ net # "tcpfork" /\ net # "group"
  BY RequestPair DEF SockIInv
<1>1. /\ q \in PeerRecords
      /\ \A x \in Peers : x # 2 => peer'[x] = peer[x]
      /\ \/ Calm /\ Goes(q, r, q.at) /\ AtEnd(2)
         \/ (Refused(q, r, c) \/ Takes(2, q, r, c)) /\ ~AtEnd(2) /\ RequestStep(q.at, c)
  BY <1>0, StepTakes, RequestPair, StepsOfSome
<1>2. /\ ServerKept(peer[1]) /\ ClientKept(q, errors) /\ (peer[1].got # <<>> => Requested)
      /\ \A d \in wire : /\ d.to = 1 => d = Request /\ peer[1].got = <<>> /\ Requested
                         /\ d.to = 2 => d.from \in Strangers \/ d.body = Answer
  BY <1>0 DEF RequestKept
<1>3. peer'[1] = peer[1]
  BY <1>1, NumPeersAssumption DEF Peers
<1>4. q.sent \in Nat /\ {"at", "got", "from", "sent", "echoed", "late", "placed"} \subseteq DOMAIN q
  BY <1>1 DEF PeerRecords
<1>5. /\ ClientKept(r, errors') /\ (Requested => Requested')
      /\ \A d \in wire' : /\ d.to = 1 => d = Request /\ peer[1].got = <<>> /\ Requested'
                          /\ d.to = 2 => d.from \in Strangers \/ d.body = Answer
  <2>1. CASE Calm /\ Goes(q, r, q.at) /\ AtEnd(2)
    <3>1. ClientKept(r, errors')
      BY <1>2, <2>1 DEF ClientKept, Goes, Calm
    <3>2. Requested' <=> Requested
      BY <2>1 DEF Requested, Goes
    <3> QED  BY <1>2, <2>1, <3>1, <3>2 DEF Calm
  <2>2. CASE (Refused(q, r, c) \/ Takes(2, q, r, c)) /\ ~AtEnd(2) /\ RequestStep(q.at, c)
    <3>1. ClientKept(r, errors') /\ r.sent >= q.sent
      BY <1>0, <1>1, <1>2, <2>2, ClientGoes
    <3>3. CASE Refused(q, r, c)
      <4>1. Requested' <=> Requested
        BY <3>3 DEF Requested, Refused, Goes
      <4> QED  BY <1>2, <3>1, <3>3, <4>1 DEF Refused
    <3>4. CASE Takes(2, q, r, c) /\ q.at = "recvfrom"
      <4>1. c.op = "recvfrom"
        BY <2>2, <3>4 DEF RequestStep
      <4>2. PICK d \in wire : /\ d.to = 2 /\ wire' = wire \ {d}
                              /\ Goes([q EXCEPT !.got = Append(@, d.body), !.from = d.from], r, c.then)
        BY <3>4, <4>1 DEF Takes
      <4>3. r.sent = q.sent
        BY <1>4, <4>2 DEF Goes
      <4>4. Requested' <=> Requested
        BY <4>3 DEF Requested
      <4> QED  BY <1>2, <3>1, <4>2, <4>4
    <3>5. CASE Takes(2, q, r, c) /\ q.at = "sendto"
      <4>1. c.op = "sendto"
        BY <2>2, <3>5 DEF RequestStep
      <4>2. q.sent = 0
        BY <1>2, <3>5 DEF ClientKept, Unsent
      <4>3. Targets(2) = {1}
        BY <1>0 DEF Targets
      <4>4. Sent(2) = Answer
        BY <4>2 DEF Sent, Answer
      <4>5. \A x \in wire' : x \in wire \/ x = Request
        BY <3>5, <4>1, <4>3, <4>4 DEF Takes, Request
      <4>6. r.sent = 1
        BY <1>4, <3>5, <4>1, <4>2 DEF Takes, Goes
      <4>7. Requested' /\ ~Requested
        BY <4>2, <4>6 DEF Requested
      <4>8. peer[1].got = <<>> /\ Request.to = 1
        BY <1>2, <4>7 DEF Request
      <4> QED  BY <1>2, <3>1, <4>5, <4>7, <4>8
    <3>6. CASE Takes(2, q, r, c) /\ q.at \notin {"recvfrom", "sendto"}
      <4>1. c.op \in Quiet \/ c.op \in {"echo", "waitfdtimed", "sameport", "sameaddress"}
        BY <2>2, <3>6 DEF RequestStep, Quiet, Unsent, Checking, Giving
      <4>2. Calm /\ r.sent = q.sent
        BY <1>4, <3>6, <4>1 DEF Takes, Goes
      <4>3. Requested' <=> Requested
        BY <4>2 DEF Requested
      <4> QED  BY <1>2, <3>1, <4>2, <4>3 DEF Calm
    <3> QED  BY <2>2, <3>3, <3>4, <3>5, <3>6
  <2> QED  BY <1>1, <2>1, <2>2
<1> QED
  BY <1>2, <1>3, <1>5 DEF RequestKept

LEMMA EndsStay ==
    ASSUME SockIInv, NEW p \in Peers, PeerStep(p) \/ CallFails(p)
    PROVE  EndsKept'
<1>0. SockTypes /\ PeersKept /\ EndsKept /\ p \in Nat \ {0} /\ net' = net
  BY NumPeersAssumption, CallKept, OtherKept DEF SockIInv, Peers, PeerStep
<1> DEFINE q == peer[p]
           r == peer'[p]
           c == Current(p)
<1>1. ASSUME net = "datagrams", 2 \in Peers PROVE SendKept(peer'[2])
  <2>0. net # "tcpfork" /\ Together[net][2] = "client_udp" /\ SendKept(peer[2])
    BY <1>0, <1>1 DEF Together, EndsKept
  <2>1. CASE p # 2
    BY <1>1, <2>0, <2>1, StepTakes
  <2>2. CASE p = 2
    <3>1. /\ q \in PeerRecords
          /\ \/ Goes(q, r, q.at)
             \/ (Refused(q, r, c) \/ Takes(2, q, r, c)) /\ SendStep(q.at, c)
      BY <2>0, <2>2, StepTakes, StepsOfSome
    <3>2. Goes(q, r, q.at) => SendKept(r)
      BY <2>0, <2>2 DEF SendKept, Goes
    <3> QED  BY <2>0, <2>2, <3>1, <3>2, SendGoes
  <2> QED  BY <2>1, <2>2
<1>2. ASSUME net = "block" PROVE BlockKept(peer'[1], errors')
  <2>0. net # "tcpfork" /\ Together[net][1] = "putblock" /\ Len(Together[net]) = 1 /\ BlockKept(peer[1], errors)
    BY <1>0, <1>2 DEF Together, EndsKept
  <2>1. p = 1
    BY <1>0, <2>0, StepTakes
  <2>2. /\ q \in PeerRecords
        /\ \/ Calm /\ Goes(q, r, q.at)
           \/ (Refused(q, r, c) \/ Takes(1, q, r, c)) /\ BlockStep(q.at, c)
    BY <2>0, <2>1, StepTakes, StepsOfSome
  <2>3. Calm /\ Goes(q, r, q.at) => BlockKept(r, errors')
    BY <2>0, <2>1 DEF BlockKept, Goes, Calm
  <2> QED  BY <1>0, <2>0, <2>1, <2>2, <2>3, BlockGoes
<1> QED
  BY <1>0, <1>1, <1>2 DEF EndsKept

\* A process in the first state.
Newborn(program, sigpipe) ==
    [Idle EXCEPT !.program = program, !.at = Entry(program), !.sigpipe = sigpipe, !.status = "running"]

LEMMA EntrySound ==
    ASSUME NEW program \in DOMAIN Mains
    PROVE  /\ Entry(program) \in DOMAIN Mains[program] /\ Holding(program, Entry(program)) = {}
           /\ (program \in StreamPrograms => Entry(program) \in Unshielded)
           /\ Entry(program) \in Labels /\ (program \in UdpClients \cup {"server_udp_request_reply"} => Entry(program) = "socket")
           /\ (program = "putblock" => Entry(program) = "open")
<1>1. Entry(program) \in {"sigaction", "name2addr", "open", "socket"}
      /\ (program \in StreamPrograms => Entry(program) \in {"sigaction", "name2addr"})
      /\ (program \in UdpClients \cup {"server_udp_request_reply"} => Entry(program) = "socket")
      /\ (program = "putblock" => Entry(program) = "open")
  BY DEF Entry, StreamPrograms, UdpClients
<1>2. Entry(program) \in DOMAIN Mains[program]
  <2>1. CASE program \in {"server2", "serverp2", "client2", "client_audio", "putblock"}
    BY <2>1, Server2Code, Serverp2Code, Client2Code, ClientAudioCode, PutblockCode DEF Entry, Mains
  <2>2. CASE program \in {"server_udp", "server_udp_request_reply", "sender_udp", "client_udp"}
    BY <2>2, ServerUdpCode, ServerReplyCode, SenderUdpCode, ClientUdpCode DEF Entry, Mains
  <2>3. CASE program \in {"client_udp_request_reply", "client_udp_request_reply_timeout", "multicast_receiver", "multicast_rectest"}
    BY <2>3, ClientRequestCode, ClientTimeoutCode, MulticastReceiverCode, MulticastRectestCode DEF Entry, Mains
  <2> QED  BY <2>1, <2>2, <2>3 DEF Mains
<1>3. Holding(program, Entry(program)) = {}
  BY <1>1 DEF Holding
<1>4. Entry(program) \in Labels
  BY <1>2, ProgramLabels
<1> QED
  BY <1>1, <1>2, <1>3, <1>4 DEF Unshielded

LEMMA NewbornFields ==
    \A program \in DOMAIN Mains, sigpipe \in {"default", "caught"} :
       LET r == Newborn(program, sigpipe)
       IN  /\ r \in PeerRecords /\ r.program = program /\ r.at = Entry(program) /\ r.status = "running" /\ r.parent = 0
           /\ r.open = {} /\ r.got = <<>> /\ r.sent = 0 /\ r.echoed = 0 /\ r.placed = FALSE
<1> TAKE program \in DOMAIN Mains, sigpipe \in {"default", "caught"}
<1>1. Entry(program) \in Labels /\ <<>> \in Seq(Bodies)
  BY EntrySound
<1>2. PICK r : r = Newborn(program, sigpipe)
  OBVIOUS
<1>3. r =
         [program |-> program, at |-> Entry(program), open |-> {}, with |-> 0, got |-> <<>>, from |-> 0, sent |-> 0, late |-> FALSE,
          echoed |-> 0, joined |-> FALSE, placed |-> FALSE, sigpipe |-> sigpipe, parent |-> 0, status |-> "running"]
  BY <1>2 DEF Newborn, Idle
<1> QED
  BY <1>1, <1>2, <1>3 DEF PeerRecords

LEMMA SockInit == SocketsInit => SockIInv
<1> SUFFICES ASSUME SocketsInit PROVE SockIInv
  OBVIOUS
<1>1. PICK sigpipe \in {"default", "caught"} :
         peer = [p \in Peers |-> IF p > Len(Together[net]) THEN Idle ELSE Newborn(Together[net][p], sigpipe)]
  BY DEF SocketsInit, Newborn
<1>2. net \in DOMAIN Together /\ errors = MaxErrors /\ strays \in Nat /\ wire = {} /\ calls = {}
  BY SocketScriptsAssumption, ErrorsAssumption DEF SocketsInit
<1>4. 1 \in Peers /\ Peers \subseteq Nat \ {0} /\ MaxErrors \in Nat /\ Len(Together[net]) \in 1..3
  BY <1>2, NumPeersAssumption, ErrorsAssumption, TogetherPrograms DEF Peers
<1>3. Idle \in PeerRecords
  <2>1. "return" \in Labels /\ <<>> \in Seq(Bodies) /\ {} \in SUBSET Fds
    BY DEF Labels, Ends
  <2> QED  BY <2>1 DEF Idle, PeerRecords
<1>6. \A p \in Peers : \/ p > Len(Together[net]) /\ peer[p] = Idle
                       \/ /\ p <= Len(Together[net]) /\ Together[net][p] \in DOMAIN Mains
                          /\ peer[p] = Newborn(Together[net][p], sigpipe)
  BY <1>1, <1>2, <1>4, TogetherPrograms
<1>7. SockTypes
  <2>1. peer \in [Peers -> PeerRecords]
    <3>1. \A p \in Peers : peer[p] \in PeerRecords
      BY <1>3, <1>6, NewbornFields
    <3> QED  BY <1>1, <3>1
  <2> QED  BY <1>2, <1>4, <2>1 DEF SockTypes
<1>8. PeersKept
  <2> SUFFICES ASSUME NEW p \in Peers PROVE Placed(p, peer[p]) /\ Kept(peer[p])
    BY DEF PeersKept
  <2>1. CASE p > Len(Together[net])
    BY <1>4, <1>6, <2>1, IdlePlaced
  <2>2. CASE p <= Len(Together[net])
    <3>1. PICK program, r : program = Together[net][p] /\ r = peer[p]
      OBVIOUS
    <3>2. program \in DOMAIN Mains /\ r = Newborn(program, sigpipe)
      BY <1>4, <1>6, <2>2, <3>1
    <3>3. r.program = program /\ r.at = Entry(program) /\ r.status = "running" /\ r.parent = 0 /\ r.open = {}
      BY <3>2, NewbornFields
    <3> QED  BY <2>2, <3>1, <3>2, <3>3, EntrySound DEF Placed, Kept
  <2> QED  BY <1>4, <2>1, <2>2
<1>9. RequestKept
  <2> SUFFICES ASSUME net \in {"reply", "timeout"} PROVE RequestKept
    BY DEF RequestKept
  <2>1. peer[1] = Newborn("server_udp_request_reply", sigpipe) /\ "server_udp_request_reply" \in DOMAIN Mains
    BY <1>4, <1>6, RequestPair
  <2>2. peer[1].at = "socket" /\ peer[1].got = <<>> /\ peer[1].sent = 0
    BY <2>1, NewbornFields, EntrySound
  <2>3. ASSUME 2 \in Peers PROVE ClientKept(peer[2], errors)
    <3>1. PICK program \in Requests : peer[2] = Newborn(program, sigpipe) /\ program \in DOMAIN Mains
      BY <1>6, <2>3, RequestPair DEF Requests, UdpClients
    <3>2. peer[2].at = "socket" /\ peer[2].sent = 0 /\ peer[2].echoed = 0
      BY <3>1, NewbornFields, EntrySound DEF Requests
    <3> QED  BY <3>2 DEF ClientKept, Unsent, Checking, Giving
  <2> QED  BY <1>2, <2>2, <2>3 DEF RequestKept, ServerKept
<1>10. EndsKept
  <2>1. ASSUME net = "datagrams", 2 \in Peers PROVE SendKept(peer[2])
    <3>1. Together[net][2] = "client_udp" /\ Len(Together[net]) = 3
      BY <2>1 DEF Together
    <3>2. peer[2] = Newborn("client_udp", sigpipe) /\ "client_udp" \in DOMAIN Mains
      BY <1>6, <2>1, <3>1
    <3>3. peer[2].at = "socket" /\ peer[2].sent = 0
      BY <3>2, NewbornFields, EntrySound DEF UdpClients
    <3> QED  BY <3>3 DEF SendKept
  <2>2. ASSUME net = "block" PROVE BlockKept(peer[1], errors)
    <3>1. Together[net][1] = "putblock" /\ Len(Together[net]) = 1
      BY <2>2 DEF Together
    <3>2. peer[1] = Newborn("putblock", sigpipe) /\ "putblock" \in DOMAIN Mains
      BY <1>4, <1>6, <3>1
    <3>3. peer[1].at = "open"
      BY <3>2, NewbornFields, EntrySound
    <3> QED  BY <1>2, <3>3 DEF BlockKept, Giving
  <2> QED  BY <2>1, <2>2 DEF EndsKept
<1> QED
  BY <1>7, <1>8, <1>9, <1>10 DEF SockIInv

LEMMA SockStep == SockIInv /\ [SocketsNext]_netvars => SockIInv'
<1> SUFFICES ASSUME SockIInv, [SocketsNext]_netvars PROVE SockIInv'
  OBVIOUS
<1>0. SockTypes /\ PeersKept /\ RequestKept /\ EndsKept
  BY DEF SockIInv
<1>1. ASSUME NEW p \in Peers, PeerStep(p) \/ CallFails(p) PROVE SockIInv'
  <2>1. peer' \in [Peers -> PeerRecords] /\ PeersKept' /\ net' = net
    BY <1>0, <1>1, CallKept, OtherKept DEF PeerStep
  <2>2. SockTypes'
    BY <1>0, <1>1, <2>1, WireTyped DEF SockTypes
  <2>3. RequestKept'
    <3>1. CASE net \in {"reply", "timeout"}
      <4>1. p \in {1, 2}
        <5>1. net # "tcpfork" /\ Len(Together[net]) = 2 /\ p \in Nat \ {0}
          BY <3>1, RequestPair, NumPeersAssumption DEF Peers
        <5> QED  BY <1>1, <5>1, StepTakes
      <4> QED  BY <1>1, <3>1, <4>1, ServerSteps, ClientSteps
    <3>2. CASE net \notin {"reply", "timeout"}
      BY <2>1, <3>2 DEF RequestKept
    <3> QED  BY <3>1, <3>2
  <2>4. EndsKept'
    BY <1>1, EndsStay
  <2> QED  BY <2>1, <2>2, <2>3, <2>4 DEF SockIInv
<1>2. CASE StrayDatagram
  <2>1. PICK d : /\ wire' = wire \cup {d} /\ d.to = 2 /\ d.from \in Strangers /\ d \in [from : Int, to : Int, body : Bodies]
    <3>1. PICK from \in Strangers : wire' = wire \cup {[from |-> from, to |-> 2, body |-> [n |-> strays, by |-> from]]}
      BY <1>2 DEF StrayDatagram
    <3>2. [from |-> from, to |-> 2, body |-> [n |-> strays, by |-> from]] \in [from : Int, to : Int, body : Bodies]
      BY <1>0, <3>1 DEF SockTypes, Bodies, Strangers, OtherPort, OtherHost
    <3> QED  BY <3>1, <3>2
  <2>2. net' = net /\ errors' = errors /\ peer' = peer /\ calls' = calls /\ strays' \in Nat
    BY <1>0, <1>2 DEF StrayDatagram, SockTypes
  <2>3. SockTypes'
    BY <1>0, <2>1, <2>2 DEF SockTypes
  <2>4. PeersKept' /\ EndsKept'
    BY <1>0, <2>2 DEF PeersKept, Placed, EndsKept
  <2>5. RequestKept'
    BY <1>0, <2>1, <2>2 DEF RequestKept, Requested
  <2> QED  BY <2>3, <2>4, <2>5 DEF SockIInv
<1>3. CASE UNCHANGED netvars
  BY <1>0, <1>3 DEF netvars, SockIInv, SockTypes, PeersKept, Placed, RequestKept, Requested, EndsKept
<1> QED
  BY <1>1, <1>2, <1>3 DEF SocketsNext

LEMMA ClosedFollows == SockIInv => SocketsClosed
<1> SUFFICES ASSUME SockIInv, NEW p \in Peers
             PROVE  /\ Live(p) /\ (\E op \in Uses : Doing(p, op)) => Fd(p) \in peer[p].open
                    /\ Failed(p) /\ peer[p].program \notin {"multicast_receiver", "multicast_rectest", "sender_udp"} => peer[p].open = {}
                    /\ Doing(p, "accept") => peer[p].open = {"listen"}
                    /\ peer[p].parent # 0 /\ Doing(p, "copy") => peer[p].open = {"comm"}
                    /\ peer[p].status # "killed"
  BY DEF SocketsClosed
<1>1. SockTypes /\ PeersKept /\ peer[p] \in PeerRecords /\ Placed(p, peer[p]) /\ Kept(peer[p])
  BY DEF SockIInv, SockTypes, PeersKept
<1>2. Live(p) /\ ~AtEnd(p) => StepSound(peer[p].program, peer[p].at, Current(p)) /\ peer[p].open = Holding(peer[p].program, peer[p].at)
  BY <1>1, CurrentSound
<1>3. ASSUME NEW op \in Uses, Doing(p, op) PROVE Fd(p) \in peer[p].open
  BY <1>2, <1>3 DEF Doing, StepSound, Fd
<1>4. Failed(p) /\ peer[p].program \notin Leaving => peer[p].open = {}
  <2>1. Holding(peer[p].program, "error") = {}
    BY DEF Holding
  <2> QED  BY <1>1, <2>1 DEF Failed, Live, Kept
<1>5. Doing(p, "accept") => peer[p].open = {"listen"}
  BY <1>2 DEF Doing, StepSound
<1>6. ASSUME peer[p].parent # 0, Doing(p, "copy") PROVE peer[p].open = {"comm"}
  <2>1. peer[p].at = "copy" /\ peer[p].open = Holding(peer[p].program, "copy")
    BY <1>2, <1>6 DEF Doing, StepSound
  <2>2. peer[p].program = "serverp2"
    BY <1>1, <1>6 DEF Placed, Doing, Live
  <2> QED  BY <2>1, <2>2 DEF Holding, Fds, UdpClients, Leaving, StreamPrograms
<1>7. peer[p].status # "killed"
  BY <1>1 DEF PeerRecords
<1> QED
  BY <1>3, <1>4, <1>5, <1>6, <1>7 DEF Leaving

LEMMA StatusFollows == SockIInv => StatusTells
<1> SUFFICES ASSUME SockIInv, NEW p \in Peers
             PROVE  /\ p \in Requesters /\ peer[p].echoed > 0 => peer[p].got[Len(peer[p].got)] = [n |-> 1, by |-> p]
                    /\ p \in Requesters /\ peer[p].status = "ok" => peer[p].echoed = 1
                    /\ p \in Requesters /\ peer[p].status = "failed" => errors < MaxErrors \/ peer[p].late
                    /\ peer[p].program = "client_udp" /\ peer[p].status = "ok" => peer[p].sent = 1
                    /\ peer[p].program = "putblock" /\ ~Live(p) => (peer[p].status = "ok") = (peer[p].placed /\ errors = MaxErrors)
  BY DEF StatusTells
<1>0. SockTypes /\ PeersKept /\ RequestKept /\ EndsKept /\ net \in DOMAIN Together /\ p \in Nat \ {0} /\ peer[p] \in PeerRecords
  BY NumPeersAssumption DEF SockIInv, SockTypes, Peers
<1>1. /\ Placed(p, peer[p]) /\ peer[p].status \in {"unborn", "running", "ok", "failed"}
      /\ peer[p].status = "unborn" => peer[p].program = "none"
      /\ peer[p].status = "ok" => peer[p].at = "return"
      /\ peer[p].status = "failed" => peer[p].at = "error"
  BY <1>0 DEF PeersKept, Placed, PeerRecords, Idle
<1>2. peer[p].program \in UdpClients \cup {"putblock"} => p <= Len(Together[net]) /\ peer[p].program = Together[net][p]
  BY <1>1 DEF Placed, UdpClients
<1>3. ASSUME p \in Requesters PROVE p = 2 /\ net \in {"reply", "timeout"} /\ ClientKept(peer[2], errors)
  <2>1. peer[p].program \in Requests
    BY <1>3 DEF Requesters, Requests, UdpClients
  <2>2. p = 2 /\ net \in {"reply", "timeout"}
    BY <1>0, <1>2, <2>1, ServersAlone DEF Requests
  <2> QED  BY <1>0, <2>2 DEF RequestKept
<1>4. ASSUME peer[p].program = "client_udp" PROVE p = 2 /\ net = "datagrams"
  <2>1. p <= Len(Together[net]) /\ Together[net][p] = "client_udp" /\ p \in 1..3
    BY <1>0, <1>2, <1>4, TogetherPrograms DEF UdpClients
  <2> QED  BY <1>0, <2>1 DEF Together
<1>5. ASSUME peer[p].program = "putblock" PROVE p = 1 /\ net = "block"
  BY <1>0, <1>2, <1>5, ServersAlone
<1>6. p \in Requesters => /\ peer[p].echoed > 0 => peer[p].got[Len(peer[p].got)] = [n |-> 1, by |-> p]
                          /\ peer[p].status = "ok" => peer[p].echoed = 1
                          /\ peer[p].status = "failed" => errors < MaxErrors \/ peer[p].late
  BY <1>1, <1>3 DEF ClientKept, Newest, Answer, Giving
<1>7. peer[p].program = "client_udp" /\ peer[p].status = "ok" => peer[p].sent = 1
  BY <1>0, <1>1, <1>4 DEF EndsKept, SendKept
<1>8. ASSUME peer[p].program = "putblock", ~Live(p) PROVE (peer[p].status = "ok") = (peer[p].placed /\ errors = MaxErrors)
  <2>1. BlockKept(peer[p], errors)
    BY <1>0, <1>5, <1>8 DEF EndsKept
  <2>2. peer[p].status \in {"ok", "failed"} /\ peer[p].placed \in BOOLEAN /\ errors \in Int /\ MaxErrors \in Int
    BY <1>0, <1>1, <1>8, ErrorsAssumption DEF Live, PeerRecords, SockTypes
  <2> QED  BY <1>1, <2>1, <2>2 DEF BlockKept, Giving
<1> QED
  BY <1>6, <1>7, <1>8

\* Whatever fails, no call uses a descriptor that is not open, a program that gives up has closed
\* what its routines had opened, a server that waits for the next client keeps none of the one
\* before, and a write to a closed connection kills nobody.
THEOREM SockSocketsClosed == SocketsSpec => []SocketsClosed
<1>1. SocketsSpec => []SockIInv
  BY SockInit, SockStep, PTL DEF SocketsSpec
<1> QED
  BY <1>1, ClosedFollows, PTL

\* A client that returns 0 has written the answer of the server it asked, sent its datagram, or
\* put its block in its place; one that fails has met a failure or waited too long.
THEOREM SockStatusTells == SocketsSpec => []StatusTells
<1>1. SocketsSpec => []SockIInv
  BY SockInit, SockStep, PTL DEF SocketsSpec
<1> QED
  BY <1>1, StatusFollows, PTL
=============================================================================
