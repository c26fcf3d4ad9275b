--------------------------- MODULE BufferVariants ---------------------------
(***************************************************************************)
(* The other bounded buffers of chapter16, used as randpcforever.c uses    *)
(* them: main creates the consumers and the producers, shows the results   *)
(* twice and returns, whereupon all threads end.                           *)
(*                                                                         *)
(*   bufferbad      a mutex, and no test for items or slots;               *)
(*   buffer         tests, and returns EAGAIN, which ends the caller like  *)
(*                  any error;                                             *)
(*   buffercond     condition variables;                                   *)
(*   bufferseminit  semaphores, which main initializes, or each caller by  *)
(*                  bufferinitmutex or bufferinitonce, whose error it heeds*)
(***************************************************************************)
EXTENDS Naturals, Sequences, FiniteSets, SequencesExt

CONSTANTS
    Getters, Putters,   \* the consumers and the producers
    RingSize,           \* BUFSIZE
    MaxPuts,            \* bound on the items produced
    Variants,           \* subset of the records below
    VariantFaults       \* calls of which one may fail, once: "init", "lock",
                        \* "wait", "signal", "unlock", "create"; "wakeup": one that
                        \* nobody sent

bufferbad     == [sync |-> "bad", init |-> "no"]
buffer        == [sync |-> "test", init |-> "no"]
buffercond    == [sync |-> "cond", init |-> "no"]
bufferseminit == [sync |-> "sem", init |-> "main"]
bufferinitmutex == [sync |-> "sem", init |-> "mutex"]
bufferinitonce  == [sync |-> "sem", init |-> "once"]

ASSUME RingSizeAssumption == RingSize \in Nat \ {0}
ASSUME UsersAssumption == IsFiniteSet(Getters) /\ IsFiniteSet(Putters) /\ Getters \cap Putters = {}
ASSUME VariantsAssumption ==
    Variants \subseteq {bufferbad, buffer, buffercond, bufferseminit, bufferinitmutex, bufferinitonce}

VARIABLES
    variant,            \* constant: the buffer
    fault,              \* the call that will fail, or "none"
    bmain,              \* create, run, shown, exit
    bpc,                \* thread -> its place in getitem or putitem; unborn, end
    ringed,             \* the array
    bufin, bufout, totalitems,
    bufferlock,         \* <<owner>> or <<>>
    permits,            \* semitems, semslots
    inited,             \* new, done, failed
    puts, gets,         \* the items in the order they were put and taken
    hand,               \* thread -> its item, 0 for none
    added,              \* count of sharedsum.c
    bshown,             \* the results shown
    anerror             \* globalerror

bvars == <<variant, fault, bmain, bpc, ringed, bufin, bufout, totalitems, bufferlock, permits, inited,
           puts, gets, hand, added, bshown, anerror>>
contents == <<ringed, bufin, bufout, totalitems, puts, gets>>
results2 == <<added, bshown, anerror>>

Users == Getters \cup Putters
Sync == variant.sync

VariantInit ==
    /\ variant \in Variants /\ fault \in VariantFaults \cup {"none"}
    /\ bmain = "create" /\ bpc = [t \in Users |-> "unborn"]
    /\ ringed = [k \in 0..(RingSize - 1) |-> 0] /\ bufin = 0 /\ bufout = 0 /\ totalitems = 0
    /\ bufferlock = <<>> /\ permits = [items |-> 0, slots |-> 0] /\ inited = "new"
    /\ puts = <<>> /\ gets = <<>> /\ hand = [t \in Users |-> 0]
    /\ added = 0 /\ bshown = <<>> /\ anerror = FALSE

At(t, from) == bmain # "exit" /\ bpc[t] = from
Next1(t, from, to) == At(t, from) /\ bpc' = [bpc EXCEPT ![t] = to]
Breaks(call) == fault = call /\ fault' = "none"

-----------------------------------------------------------------------------
(* main, and the loops of the threads.                                     *)

\* bufferinit, with both semaphores or none.
bufferinit(ok) == /\ inited' = (IF ok THEN "done" ELSE "failed")
                  /\ permits' = IF ok THEN [items |-> 0, slots |-> RingSize] ELSE permits

randpcforever ==
    /\ \/ /\ bmain = "create"
          /\ \/ bmain' = "run" /\ bpc' = [t \in Users |-> "make"] /\ UNCHANGED fault
             \/ Breaks("create") /\ bmain' = "exit" /\ UNCHANGED bpc
          /\ IF variant.init = "main" THEN bufferinit(TRUE) ELSE UNCHANGED <<inited, permits>>
          /\ UNCHANGED bshown
       \/ /\ bmain \in {"run", "shown"}
          /\ IF anerror THEN bmain' = "exit" /\ UNCHANGED bshown
             ELSE bmain' = (IF bmain = "run" THEN "shown" ELSE "exit") /\ bshown' = Append(bshown, added)
          /\ UNCHANGED <<fault, bpc, inited, permits>>
    /\ UNCHANGED <<variant, contents, bufferlock, hand, added, anerror>>

First == IF variant.init \in {"mutex", "once"} THEN "init" ELSE IF Sync = "sem" THEN "semwait" ELSE "lock"

producer(t) ==
    /\ t \in Putters /\ Len(puts) + Cardinality({u \in Putters : hand[u] # 0}) < MaxPuts
    /\ Next1(t, "make", First) /\ hand' = [hand EXCEPT ![t] = 1]
    /\ UNCHANGED <<variant, fault, bmain, contents, bufferlock, permits, inited, results2>>

\* add, after which the consumer comes back for the next item.  Bound: the items
\* bufferbad.c makes up.
consumer(t) ==
    /\ t \in Getters /\ Next1(t, "make", First)
    /\ Sync = "bad" => Len(gets) < MaxPuts
    /\ added' = (IF hand[t] # 0 THEN added + 1 ELSE added) /\ hand' = [hand EXCEPT ![t] = 0]
    /\ UNCHANGED <<variant, fault, bmain, contents, bufferlock, permits, inited, bshown, anerror>>

\* seterror, and the end of the thread.
GiveError(t, from) == Next1(t, from, "end") /\ anerror' = TRUE

-----------------------------------------------------------------------------
(* Initialization by the callers.                                          *)

\* Mutant of bufferinitany: the flag is not tested.
bufferinitagain(t) ==
    /\ Next1(t, "init", "semwait") /\ bufferinit(TRUE)
    /\ UNCHANGED <<variant, fault, bmain, contents, bufferlock, hand, results2>>

\* bufferinitmutex tries again after a failure, bufferinitonce does not.
bufferinitany(t) ==
    /\ \/ inited = "done" /\ Next1(t, "init", "semwait") /\ UNCHANGED <<inited, permits, fault, anerror>>
       \/ inited = "failed" /\ variant.init = "once" /\ GiveError(t, "init") /\ UNCHANGED <<inited, permits, fault>>
       \/ /\ inited = "new" \/ (inited = "failed" /\ variant.init = "mutex")
          /\ \/ bufferinit(TRUE) /\ Next1(t, "init", "semwait") /\ UNCHANGED <<fault, anerror>>
             \/ Breaks("init") /\ bufferinit(FALSE) /\ GiveError(t, "init")
    /\ UNCHANGED <<variant, bmain, contents, bufferlock, hand, added, bshown>>

-----------------------------------------------------------------------------
(* getitem and putitem.                                                    *)

SemWaitAny(t) ==
    /\ LET p == IF t \in Getters THEN "items" ELSE "slots" IN
         \/ permits[p] > 0 /\ permits' = [permits EXCEPT ![p] = @ - 1] /\ Next1(t, "semwait", "lock") /\ UNCHANGED <<fault, anerror>>
         \/ Breaks("wait") /\ GiveError(t, "semwait") /\ UNCHANGED permits
    /\ UNCHANGED <<variant, bmain, contents, bufferlock, inited, hand, added, bshown>>

LockBuffer(t) ==
    /\ \/ bufferlock = <<>> /\ bufferlock' = <<t>> /\ Next1(t, "lock", "body") /\ UNCHANGED <<fault, anerror>>
       \/ Breaks("lock") /\ GiveError(t, "lock") /\ UNCHANGED bufferlock
    /\ UNCHANGED <<variant, bmain, contents, permits, inited, hand, added, bshown>>

Blocked(t) == IF t \in Getters THEN totalitems = 0 ELSE totalitems = RingSize
After == IF Sync = "cond" THEN "signal" ELSE "unlock"

\* EAGAIN.
NotNow(t) ==
    /\ Sync = "test" /\ Blocked(t) /\ Next1(t, "body", "again")
    /\ UNCHANGED <<variant, fault, bmain, contents, bufferlock, permits, inited, hand, results2>>

WaitCond(t) ==
    /\ Sync = "cond" /\ Blocked(t)
    /\ \/ Next1(t, "body", "waiting") /\ bufferlock' = <<>> /\ UNCHANGED <<fault, anerror>>
       \/ Breaks("wait") /\ GiveError(t, "body") /\ bufferlock' = <<>>
    /\ UNCHANGED <<variant, bmain, contents, permits, inited, hand, added, bshown>>

\* Mutant of RelockBuffer: if in place of while.
RelockBody(t) ==
    /\ bufferlock = <<>> /\ bufferlock' = <<t>> /\ Next1(t, "woken", "move")
    /\ UNCHANGED <<variant, fault, bmain, contents, permits, inited, hand, results2>>

RelockBuffer(t) ==
    /\ bufferlock = <<>> /\ bufferlock' = <<t>> /\ Next1(t, "woken", "body")
    /\ UNCHANGED <<variant, fault, bmain, contents, permits, inited, hand, results2>>

\* A wakeup nobody sent.
Spurious(t) ==
    /\ Breaks("wakeup") /\ Next1(t, "waiting", "woken")
    /\ UNCHANGED <<variant, bmain, contents, bufferlock, permits, inited, hand, results2>>

Move(t) ==
    /\ (At(t, "body") /\ (Sync \in {"bad", "sem"} \/ ~Blocked(t))) \/ At(t, "move")
    /\ bpc' = [bpc EXCEPT ![t] = After]
    /\ \/ /\ t \in Getters
          /\ hand' = [hand EXCEPT ![t] = ringed[bufout]] /\ gets' = Append(gets, ringed[bufout])
          /\ bufout' = (bufout + 1) % RingSize
          /\ totalitems' = (IF totalitems = 0 THEN 0 ELSE totalitems - 1)
          /\ UNCHANGED <<ringed, bufin, puts>>
       \/ /\ t \in Putters
          /\ hand' = [hand EXCEPT ![t] = 0] /\ puts' = Append(puts, Len(puts) + 1)
          /\ ringed' = [ringed EXCEPT ![bufin] = Len(puts) + 1]
          /\ bufin' = (bufin + 1) % RingSize /\ totalitems' = totalitems + 1
          /\ UNCHANGED <<bufout, gets>>
    /\ UNCHANGED <<variant, fault, bmain, bufferlock, permits, inited, results2>>

\* One thread that waits for what this call has provided, if there is one; an
\* error is returned although the item has been moved.
SignalOther(t) ==
    /\ LET waiters == {u \in (IF t \in Getters THEN Putters ELSE Getters) : bpc[u] = "waiting"} IN
         \/ /\ At(t, "signal") /\ UNCHANGED <<fault, anerror, bufferlock>>
            /\ \/ waiters = {} /\ bpc' = [bpc EXCEPT ![t] = "unlock"]
               \/ \E u \in waiters : bpc' = [bpc EXCEPT ![t] = "unlock", ![u] = "woken"]
         \/ Breaks("signal") /\ GiveError(t, "signal") /\ bufferlock' = <<>>
    /\ UNCHANGED <<variant, bmain, contents, permits, inited, hand, added, bshown>>

UnlockBuffer(t) ==
    /\ \/ /\ bufferlock' = <<>> /\ UNCHANGED fault
          /\ \/ Next1(t, "unlock", IF Sync = "sem" THEN "post" ELSE "make") /\ UNCHANGED anerror
             \/ GiveError(t, "again")
       \/ Breaks("unlock") /\ UNCHANGED bufferlock /\ (GiveError(t, "unlock") \/ GiveError(t, "again"))
    /\ UNCHANGED <<variant, bmain, contents, permits, inited, hand, added, bshown>>

PostOther(t) ==
    /\ Next1(t, "post", "make")
    /\ permits' = [permits EXCEPT ![IF t \in Getters THEN "slots" ELSE "items"] = @ + 1]
    /\ UNCHANGED <<variant, fault, bmain, contents, bufferlock, inited, hand, results2>>

UserStep(t) == \/ producer(t) \/ consumer(t) \/ bufferinitany(t) \/ SemWaitAny(t) \/ LockBuffer(t) \/ NotNow(t) \/ WaitCond(t)
               \/ RelockBuffer(t) \/ Move(t) \/ SignalOther(t) \/ UnlockBuffer(t) \/ PostOther(t)
VariantNext == randpcforever \/ \E t \in Users : UserStep(t) \/ Spurious(t)

VariantSpec == VariantInit /\ [][VariantNext]_bvars

-----------------------------------------------------------------------------
(* Properties.                                                             *)

\* Every buffer but bufferbad.c, which reads what was never put and overwrites
\* what was not taken, gives out the items in the order they were put, and keeps no
\* more than it has room for.  An item is added once, and lost only by the call that
\* failed.  The second results shown are not smaller than the first.
VariantIsFifo ==
    /\ Sync # "bad" => /\ IsPrefix(gets, puts)
                       /\ totalitems = Len(puts) - Len(gets) /\ totalitems <= RingSize
    /\ LET inhand == Cardinality({t \in Getters : hand[t] # 0}) IN Sync # "bad" =>
          Len(gets) = added + inhand
    /\ Sync = "sem" => permits.items + permits.slots <= RingSize
    /\ Len(bshown) = 2 => bshown[1] <= bshown[2]

\* Every item put is taken unless a call returned an error or the program ended: no
\* thread sleeps for ever beside an item.
ItemsLeft == Len(gets) < Len(puts) /\ Sync # "bad"
NoItemsLeft == Len(gets) = Len(puts) \/ anerror \/ bmain = "exit"
=============================================================================
