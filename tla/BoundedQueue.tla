---------------------------- MODULE BoundedQueue ----------------------------
(***************************************************************************)
(* What the buffers of chapter16 promise (buffer.h): a FIFO queue of at    *)
(* most Capacity items that can be closed.  Each client holds one item in  *)
(* its hand: the item it offers, or the one it last received.              *)
(* buffer.c, buffersem.c and bufferconddone.c are shown to implement this  *)
(* specification.                                                          *)
(***************************************************************************)
EXTENDS Naturals, Sequences

CONSTANTS
    Clients,    \* the threads that call putitem and getitem
    Items,      \* the values of a buffer_t
    NoItem,     \* the content of a hand that was never used
    Capacity    \* BUFSIZE

VARIABLES
    queue,      \* the items put and not yet taken, oldest first
    closed,     \* TRUE once the queue takes no more items
    hand        \* hand[c]: the item client c offers or has received

vars == <<queue, closed, hand>>

Init ==
    /\ queue = << >>
    /\ closed = FALSE
    /\ hand = [c \in Clients |-> NoItem]

\* A client picks the item of its next Put, or empties its hand.
Offer(c, i) ==
    /\ hand' = [hand EXCEPT ![c] = i]
    /\ UNCHANGED <<queue, closed>>

\* The offered item enters at the tail, if there is room and the queue is open.
Put(c) ==
    /\ ~closed
    /\ Len(queue) < Capacity
    /\ queue' = Append(queue, hand[c])
    /\ UNCHANGED <<closed, hand>>

\* The oldest item leaves the queue into the client's hand, closed or not.
Get(c) ==
    /\ queue # << >>
    /\ hand' = [hand EXCEPT ![c] = Head(queue)]
    /\ queue' = Tail(queue)
    /\ UNCHANGED closed

Close ==
    /\ closed' = TRUE
    /\ UNCHANGED <<queue, hand>>

Next ==
    \/ Close
    \/ \E c \in Clients : \/ Put(c)
                          \/ Get(c)
                          \/ \E i \in Items \cup {NoItem} : Offer(c, i)

Spec == Init /\ [][Next]_vars
=============================================================================
