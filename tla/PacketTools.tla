----------------------------- MODULE PacketTools -----------------------------
(***************************************************************************)
(* The packet tools of chapter 17 at both ends of a pipe: a2ts writes each *)
(* packet the user types as a header and its data, in two writes, and ts2a *)
(* or ts2log reads and shows them.  ts2log gives lprintf its buffer as the *)
(* format: the bytes are taken not to be '%' here.                         *)
(***************************************************************************)
EXTENDS Naturals, Sequences, SequencesExt

CONSTANTS
    Tools,          \* of {"ts2a", "ts2log"}
    MAX_PACK_SIZE,  \* in units of data
    MAX_LINE_SIZE,  \* what a buffer has room for beyond it
    AtomicWrite,    \* what a write of a pipe does at once: PIPE_BUF
    PipeSpace,      \* what the pipe has room for
    MaxPackets      \* bound on the packets the user types

ASSUME PacketAssumption ==
    /\ Tools \subseteq {"ts2a", "ts2log"}
    /\ {MAX_PACK_SIZE, MAX_LINE_SIZE, AtomicWrite, PipeSpace, MaxPackets} \subseteq Nat

VARIABLES
    tool,       \* constant: what reads
    typed,      \* constant: the packets: [length, valid], valid: a type ts2a knows
    a2ts,       \* the writer: [pc, k, left], packet k, and its data not yet written
    pipe,       \* headers <<k, 0>> and data <<k, j>>
    reader,     \* [pc, k, got], got: the data of packet k read so far
    stack,      \* constant: what the stack of the reader holds where its buffer is
    buf,        \* what the buffer of the reader holds
    shown       \* what it has shown for each packet

packetvars == <<tool, typed, a2ts, pipe, reader, stack, buf, shown>>

BufSize == MAX_PACK_SIZE + MAX_LINE_SIZE
Zero == <<0, 0>>    \* the byte that ends a string
Junk == <<0, 1>>    \* any other byte that was on the stack

Packets == [length : 0 .. MAX_PACK_SIZE, valid : BOOLEAN]
PacketsInit ==
    /\ tool \in Tools
    /\ typed \in UNION {[1 .. n -> Packets] : n \in 0 .. MaxPackets}
    /\ a2ts = [pc |-> "type", k |-> 0, left |-> 0]
    /\ pipe = <<>> /\ shown = <<>>
    /\ stack \in [1 .. BufSize -> {Zero, Junk}] /\ buf = stack
    /\ reader = [pc |-> "header", k |-> 0, got |-> <<>>]

Data(k) == [j \in 1 .. typed[k].length |-> <<k, j>>]
Writing == a2ts.pc \in {"type", "header", "data"}
Reading == reader.pc \in {"header", "data", "show"}
Smaller(a, b) == IF a < b THEN a ELSE b

-----------------------------------------------------------------------------
(* a2ts.                                                                   *)

\* The lines of the data, up to the terminating line; too many, and it gives up.
TypePacket ==
    /\ a2ts.pc = "type"
    /\ LET k == a2ts.k + 1 IN
       a2ts' = IF k > Len(typed) THEN [a2ts EXCEPT !.pc = "exit"]
               ELSE IF typed[k].length >= MAX_PACK_SIZE THEN [a2ts EXCEPT !.pc = "error"]
               ELSE [pc |-> "header", k |-> k, left |-> typed[k].length]
    /\ UNCHANGED <<tool, typed, pipe, reader, stack, buf, shown>>

WriteHeader ==
    /\ a2ts.pc = "header" /\ Reading /\ Len(pipe) < PipeSpace
    /\ pipe' = Append(pipe, <<a2ts.k, 0>>) /\ a2ts' = [a2ts EXCEPT !.pc = "data"]
    /\ UNCHANGED <<tool, typed, reader, stack, buf, shown>>

\* A write that is not too long is in the pipe at once, a longer one in parts.
WriteData ==
    /\ a2ts.pc = "data" /\ Reading
    /\ LET k == a2ts.k  done == typed[k].length - a2ts.left IN
       \E n \in IF typed[k].length <= AtomicWrite THEN {a2ts.left} ELSE 1 .. a2ts.left :
          /\ Len(pipe) + n <= PipeSpace
          /\ pipe' = pipe \o SubSeq(Data(k), done + 1, done + n)
          /\ a2ts' = IF n = a2ts.left THEN [a2ts EXCEPT !.pc = "type", !.left = 0] ELSE [a2ts EXCEPT !.left = @ - n]
    /\ UNCHANGED <<tool, typed, reader, stack, buf, shown>>

\* A write without a reader kills.
WriterKilled ==
    /\ a2ts.pc \in {"header", "data"} /\ ~Reading /\ a2ts' = [a2ts EXCEPT !.pc = "killed"]
    /\ UNCHANGED <<tool, typed, pipe, reader, stack, buf, shown>>

-----------------------------------------------------------------------------
(* ts2a and ts2log.                                                        *)

ReadHeader ==
    /\ reader.pc = "header"
    /\ \/ /\ pipe # <<>> /\ pipe' = Tail(pipe)
          /\ reader' = IF typed[Head(pipe)[1]].valid /\ Head(pipe)[2] = 0
                       THEN [pc |-> "data", k |-> Head(pipe)[1], got |-> <<>>] ELSE [reader EXCEPT !.pc = "error"]
       \/ pipe = <<>> /\ ~Writing /\ UNCHANGED pipe /\ reader' = [reader EXCEPT !.pc = "exit"]
    /\ UNCHANGED <<tool, typed, a2ts, stack, buf, shown>>

\* Mutant of ReadBody: readblock reads once.
ReadBodyOnce ==
    /\ reader.pc = "data" /\ typed[reader.k].length > 0 /\ pipe # <<>>
    /\ LET n == Smaller(Len(pipe), typed[reader.k].length) IN
       /\ reader' = [reader EXCEPT !.got = SubSeq(pipe, 1, n), !.pc = IF n = typed[reader.k].length THEN "show" ELSE "error"]
       /\ pipe' = SubSeq(pipe, n + 1, Len(pipe))
    /\ UNCHANGED <<tool, typed, a2ts, stack, buf, shown>>

\* ts2a reads once, and ts2log with readblock, to the length or the end of the pipe.
ReadBody ==
    /\ reader.pc = "data"
    /\ LET length == typed[reader.k].length
           n == Smaller(Len(pipe), length - Len(reader.got))
           got == reader.got \o SubSeq(pipe, 1, n) IN
       /\ length > 0 /\ pipe = <<>> => ~Writing
       /\ pipe' = SubSeq(pipe, n + 1, Len(pipe))
       /\ reader' = [reader EXCEPT !.got = got,
                        !.pc = IF Len(got) = length THEN "show" ELSE IF tool = "ts2a" \/ pipe = <<>> THEN "error" ELSE "data"]
    /\ UNCHANGED <<tool, typed, a2ts, stack, buf, shown>>

\* What lprintf logs of buf: up to the byte 0.  Without one it reads on beyond buf (that
\* part is left out), and logs nothing when it does not find one soon enough.
Logged(bytes) ==
    {n \in 0 .. BufSize : /\ \A j \in 1 .. n : bytes[j] # Zero
                          /\ n < BufSize => bytes[n + 1] = Zero}
    \cup {n \in {0} : \A j \in 1 .. BufSize : bytes[j] # Zero}

\* buf is never initialised and no byte 0 is put after the data.
Show ==
    /\ reader.pc = "show" /\ reader' = [reader EXCEPT !.pc = "header"]
    /\ buf' = [j \in 1 .. BufSize |-> IF j <= Len(reader.got) THEN reader.got[j] ELSE buf[j]]
    /\ \/ tool = "ts2a" /\ shown' = Append(shown, reader.got)
       \/ tool = "ts2log" /\ \E n \in Logged(buf') : shown' = Append(shown, SubSeq(buf', 1, n))
    /\ UNCHANGED <<tool, typed, a2ts, pipe, stack>>

ToolStep == ReadHeader \/ ReadBody \/ Show
TypistStep == TypePacket \/ WriteHeader \/ WriteData \/ WriterKilled
PacketsNext == TypistStep \/ ToolStep
PacketsSpec == PacketsInit /\ [][PacketsNext]_packetvars

-----------------------------------------------------------------------------
(* Properties.                                                             *)

\* After k packets place j holds the byte of the latest packet that reaches it, and the
\* one that was on the stack when there is none.
IsLeft(k, j, byte) ==
    \/ \E i \in 1 .. k : j <= typed[i].length /\ (\A h \in i + 1 .. k : typed[h].length < j) /\ byte = <<i, j>>
    \/ (\A i \in 1 .. k : typed[i].length < j) /\ byte = stack[j]

LoggedAsLeft(k) ==
    \/ /\ Len(shown[k]) <= BufSize
       /\ \A j \in 1 .. Len(shown[k]) : shown[k][j] # Zero /\ IsLeft(k, j, shown[k][j])
       /\ Len(shown[k]) < BufSize => IsLeft(k, Len(shown[k]) + 1, Zero)
    \/ shown[k] = <<>> /\ \A j \in 1 .. BufSize : ~IsLeft(k, j, Zero)

\* The packets are shown in their order.  ts2a shows each from its first byte to its last.
\* ts2log shows the packet, then what longer packets before it have left, then what was on
\* the stack, up to the first byte 0; only where buf has none, it may show nothing of the
\* packet.  ts2log fails only at a packet of an invalid type, and ts2a also at one that a2ts
\* cannot write at once; the packets before it are shown all the same.
PacketsShown ==
    /\ \A k \in DOMAIN shown : IF tool = "ts2a" THEN shown[k] = Data(k) ELSE LoggedAsLeft(k)
    /\ reader.pc = "exit" => Len(shown) = a2ts.k
    /\ reader.pc = "error" => LET p == typed[Len(shown) + 1] IN ~p.valid \/ (tool = "ts2a" /\ p.length > AtomicWrite)

ToolsDone == ~Writing /\ ~Reading
=============================================================================
