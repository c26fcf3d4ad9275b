----------------------------- MODULE RestartIO ------------------------------
(***************************************************************************)
(* appendixB/restart.c at work: r_write, copyfile, readblock and readline  *)
(* in three processes connected by two pipes,                              *)
(*                                                                         *)
(*     sender --pipe1--> copier --pipe2--> receiver                        *)
(*                                                                         *)
(* as in a2ts | pipeserver | ts2log.  The sender puts messages into pipe1  *)
(* with r_write, the copier runs copyfile, and the receiver takes packets  *)
(* with getpacket (readblock) or lines with readline.                      *)
(*                                                                         *)
(* read and write may move fewer bytes than asked for.  A call interrupted *)
(* by a signal returns -1 with EINTR: r_read and the readers start it      *)
(* again with nothing changed, which is no step here; r_write adds what    *)
(* write returned to its pointer, so there it is one (n = -1).             *)
(* Byte j of message k is <<k, j>>.                                        *)
(***************************************************************************)
EXTENDS Integers, Sequences, SequencesExt

CONSTANTS
    MessageLists,   \* the lists of data lengths a sender may have to send
    HeaderLen,      \* sizeof(taskpacket_t)
    MaxPack,        \* MAX_PACK_SIZE
    LineMax,        \* nbytes of readline
    BlkSize,        \* BLKSIZE of readwrite
    PipeSize,       \* how many bytes a pipe holds
    IOFaultSets     \* subsets of {"read", "write"}; one holds in a run

ASSUME RestartAssumption ==
    /\ MessageLists \subseteq Seq(Nat)
    /\ HeaderLen \in Nat \ {0} /\ MaxPack \in Nat /\ LineMax \in Nat \ {0, 1}
    /\ BlkSize \in Nat /\ PipeSize \in Nat

VARIABLES
    format, lens, iofaults,     \* constant: "packets" or "lines"; lengths
    spc, smsg, sdone,           \* sender: message, bytes of it written
    pipe1, pipe2,
    cpc, cbuf, cdone, ctotal,   \* copier: buf of readwrite; totalbytes
    rpc, rhead, rgot,           \* receiver: header; buf of the current call
    received                    \* the messages returned so far

given == <<format, lens, iofaults>>
sender == <<spc, smsg, sdone>>
copier == <<cpc, cbuf, cdone, ctotal>>
receiver == <<rpc, rhead, rgot, received>>
pipevars == <<given, sender, pipe1, pipe2, copier, receiver>>

PipeInit ==
    /\ format \in {"packets", "lines"}
    /\ lens \in MessageLists
    /\ iofaults \in IOFaultSets
    /\ spc = "run" /\ smsg = 1 /\ sdone = 0
    /\ pipe1 = << >> /\ pipe2 = << >>
    /\ cpc = "read" /\ cbuf = << >> /\ cdone = 0 /\ ctotal = 0
    /\ rpc = "run" /\ rhead = << >> /\ rgot = << >> /\ received = << >>

\* A packet is a header and its data; a line is its data and a newline.
Size(k) == lens[k] + IF format = "packets" THEN HeaderLen ELSE 1
Message(k) == [j \in 1..Size(k) |-> <<k, j>>]

Least(a, b) == IF a < b THEN a ELSE b

-----------------------------------------------------------------------------
(* r_write.                                                                *)

\* Mutant of Written: an interrupted write moves the pointer by -1.
WrittenBack(done, n) == IF done + n < 0 THEN 0 ELSE done + n

\* How far into its buffer r_write is after write has returned n.
Written(done, n) == IF n = -1 THEN done ELSE done + n

\* What one write of at most size bytes into a pipe may return.
Counts(size, pipe) == {-1} \cup 1..Least(size, PipeSize - Len(pipe))

-----------------------------------------------------------------------------
(* The sender: putpacket, with an r_write for the header and one for the   *)
(* data, or one r_write per line.                                          *)

ChunkEnd == IF format = "packets" /\ sdone < HeaderLen THEN HeaderLen ELSE Size(smsg)

\* putpacket refuses to send more data than a packet may have.
Refused(k) == format = "packets" /\ lens[k] > MaxPack

Send ==
    /\ spc = "run"
    /\ smsg <= Len(lens) /\ ~Refused(smsg)
    /\ \E n \in Counts(ChunkEnd - sdone, pipe1) :
          /\ pipe1' = pipe1 \o SubSeq(Message(smsg), sdone + 1, sdone + n)
          /\ IF Written(sdone, n) = Size(smsg)
             THEN smsg' = smsg + 1 /\ sdone' = 0
             ELSE smsg' = smsg /\ sdone' = Written(sdone, n)
    /\ UNCHANGED <<given, spc, pipe2, copier, receiver>>

\* The sender exits at the end, when putpacket returns -1, or when the copier
\* has exited; then the descriptor is closed.
SendEnds ==
    /\ spc = "run"
    /\ \/ smsg > Len(lens)
       \/ smsg <= Len(lens) /\ Refused(smsg)
       \/ "write" \in iofaults
       \/ cpc = "end"
    /\ spc' = "end"
    /\ UNCHANGED <<given, smsg, sdone, pipe1, pipe2, copier, receiver>>

-----------------------------------------------------------------------------
(* The copier: copyfile calls readwrite until that returns 0 or -1.        *)

CopyRead ==
    /\ cpc = "read"
    /\ \E n \in 1..Least(BlkSize, Len(pipe1)) :
          /\ cbuf' = SubSeq(pipe1, 1, n)
          /\ pipe1' = SubSeq(pipe1, n + 1, Len(pipe1))
    /\ cdone' = 0
    /\ cpc' = "write"
    /\ UNCHANGED <<given, sender, pipe2, ctotal, receiver>>

CopyWrite ==
    /\ cpc = "write"
    /\ \E n \in Counts(Len(cbuf) - cdone, pipe2) :
          /\ pipe2' = pipe2 \o SubSeq(cbuf, cdone + 1, cdone + n)
          /\ cdone' = Written(cdone, n)
    /\ IF cdone' = Len(cbuf)
       THEN cpc' = "read" /\ ctotal' = ctotal + Len(cbuf)
       ELSE UNCHANGED <<cpc, ctotal>>
    /\ UNCHANGED <<given, sender, pipe1, cbuf, receiver>>

\* End of file; an error of read or write; nobody reads pipe2 any more.
CopyEnds ==
    /\ \/ cpc = "read" /\ pipe1 = << >> /\ spc = "end"
       \/ cpc = "read" /\ "read" \in iofaults
       \/ cpc = "write" /\ ("write" \in iofaults \/ rpc # "run")
    /\ cpc' = "end"
    /\ UNCHANGED <<given, sender, pipe1, pipe2, cbuf, cdone, ctotal, receiver>>

-----------------------------------------------------------------------------
(* The receiver.                                                           *)

\* The message is complete; the receiver asks for the next one.
Deliver(message) ==
    /\ received' = Append(received, message)
    /\ rhead' = << >> /\ rgot' = << >>
    /\ UNCHANGED rpc

\* What readblock asks for: a header, then as many bytes as the header says.
Wanted == IF rhead = << >> THEN HeaderLen ELSE lens[rhead[1][1]]

\* One read of readblock.  A block that is complete is a header or data; a
\* header that announces no data completes the packet.
GetBlock ==
    /\ format = "packets" /\ rpc = "run"
    /\ \E n \in 1..Least(Wanted - Len(rgot), Len(pipe2)) :
          LET got == rgot \o SubSeq(pipe2, 1, n) IN
          /\ pipe2' = SubSeq(pipe2, n + 1, Len(pipe2))
          /\ IF Len(got) < Wanted THEN rgot' = got /\ UNCHANGED <<rpc, rhead, received>>
             ELSE IF rhead # << >> THEN Deliver(rhead \o got)
             ELSE IF lens[got[1][1]] > MaxPack
                  THEN rpc' = "error" /\ rgot' = got /\ UNCHANGED <<rhead, received>>
             ELSE IF lens[got[1][1]] = 0 THEN Deliver(got)
             ELSE rhead' = got /\ rgot' = << >> /\ UNCHANGED <<rpc, received>>
    /\ UNCHANGED <<given, sender, pipe1, copier>>

\* One read of readline: the line ends with its newline; without one among
\* nbytes - 1 bytes it is an error.
GetLine ==
    /\ format = "lines" /\ rpc = "run"
    /\ pipe2 # << >>
    /\ LET got == Append(rgot, Head(pipe2)) IN
       IF Head(pipe2)[2] = Size(Head(pipe2)[1]) THEN Deliver(got)
       ELSE /\ rgot' = got
            /\ rpc' = IF Len(got) = LineMax - 1 THEN "error" ELSE "run"
            /\ UNCHANGED <<rhead, received>>
    /\ pipe2' = Tail(pipe2)
    /\ UNCHANGED <<given, sender, pipe1, copier>>

\* read returns 0.  Between messages readblock and readline return 0, inside one
\* it is an error.  (For getpacket both are -1, and its callers stop.)
GetEnds ==
    /\ rpc = "run"
    /\ pipe2 = << >> /\ cpc = "end"
    /\ rpc' = IF rhead = << >> /\ rgot = << >> THEN "eof" ELSE "error"
    /\ UNCHANGED <<given, sender, pipe1, pipe2, copier, rhead, rgot, received>>

GetFails ==
    /\ rpc = "run" /\ "read" \in iofaults
    /\ rpc' = "error"
    /\ UNCHANGED <<given, sender, pipe1, pipe2, copier, rhead, rgot, received>>

SenderStep == Send \/ SendEnds
CopierStep == CopyRead \/ CopyWrite \/ CopyEnds
ReceiverStep == GetBlock \/ GetLine \/ GetEnds

PipeNext == SenderStep \/ CopierStep \/ ReceiverStep \/ GetFails
PipeSpec == PipeInit /\ [][PipeNext]_pipevars

-----------------------------------------------------------------------------
(* Properties.                                                             *)

PipeTypeOK ==
    /\ Len(pipe1) <= PipeSize /\ Len(pipe2) <= PipeSize
    /\ spc \in {"run", "end"} /\ smsg \in 1..(Len(lens) + 1)
    /\ cpc \in {"read", "write", "end"} /\ cdone \in 0..BlkSize
    /\ Len(cbuf) <= BlkSize /\ cdone <= Len(cbuf)
    /\ rpc \in {"run", "eof", "error"}

Flat(messages) == FlattenSeq(messages)

\* Everything on its way, in order: what was returned, what a reader holds, the
\* pipes, and what the copier still has to write.
InTransit ==
    Flat(received) \o rhead \o rgot \o pipe2
        \o SubSeq(cbuf, cdone + 1, Len(cbuf)) \o pipe1

Sent == Flat([k \in 1..(smsg - 1) |-> Message(k)])
            \o (IF smsg <= Len(lens) THEN SubSeq(Message(smsg), 1, sdone) ELSE << >>)

\* How many messages can get through: up to the first that putpacket refuses,
\* or that readline has no room for.
FirstStuck == SelectInSeq(lens, LAMBDA n : n > IF format = "packets" THEN MaxPack ELSE LineMax - 2)
Deliverable == IF FirstStuck = 0 THEN Len(lens) ELSE FirstStuck - 1

\* copyfile never counts a byte that was not written.  It does not count every
\* byte that was: when a write fails, those of the last block are missing.
CopyCounts ==
    LET out == Len(Flat(received) \o rhead \o rgot \o pipe2) IN
    ctotal = out - (IF cpc = "read" \/ cdone = Len(cbuf) THEN 0 ELSE cdone)

\* However calls are cut short or interrupted, no byte is lost, duplicated or
\* moved, and whatever is returned is one whole message, the next one; the end
\* of the input is reported as such only between messages, and without
\* failures only after the last one.  And copyfile's count is right.
MessagesWhole ==
    /\ Sent = InTransit
    /\ received = [k \in 1..Len(received) |-> Message(k)]
    /\ rpc = "eof" => rhead = << >> /\ rgot = << >>
    /\ rpc # "run" /\ iofaults = {} =>
           /\ Len(received) = Deliverable
           /\ rpc = "error" => format = "lines" /\ Deliverable < Len(lens)
    /\ CopyCounts

PipelineEnded == spc = "end" /\ cpc = "end" /\ rpc # "run"
=============================================================================
