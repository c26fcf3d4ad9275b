-------------------------- MODULE SemaphoreProofs --------------------------
(***************************************************************************)
(* Theorems about SemBuffer (chapter16: the bounded buffer with            *)
(* semaphores) for any sizes and numbers of threads, and about             *)
(* NamedSemaphores (chapter14: chains of processes and threads around a    *)
(* semaphore, named or not, and sbarrierold.c) for any number of members.  *)
(***************************************************************************)
EXTENDS SemBuffer, NamedSemaphores, BufferLemmas

Functions == {"getitem", "putitem"}
Body == {"inititems", "initslots", "initdone"}
Inside == {"lock", "xfer", "unlock", "sempost"}
Positions == {"idle", "once", "semwait", "return"} \cup Body \cup Inside
Content == Items \cup {NoItem}

SemTypes ==
    /\ buffer \in Array(BufSize, Content)
    /\ bufin \in 0..(BufSize - 1) /\ bufout \in 0..(BufSize - 1)
    /\ stored \in 0..BufSize /\ semitems \in Nat /\ semslots \in Nat
    /\ once \in {"new", "running", "done"}
    /\ lock \in Threads \cup {NoThread}
    /\ pc \in [Threads -> Positions]
    /\ call \in [Threads -> Functions \cup {"none"}]
    /\ item \in [Threads -> Content]
    /\ \A t \in Threads : pc[t] # "idle" => call[t] \in Functions

\* One thread at most runs the body of pthread_once, and once says so.
BodyAlone ==
    \A t \in Threads : pc[t] \in Body =>
        once = "running" /\ \A s \in Threads : pc[s] \in Body => s = t

\* Nobody has passed a semaphore before the body has given semslots its value,
\* also not when the body failed before that.
NotStarted == once = "new" \/ \E t \in Threads : pc[t] \in {"inititems", "initslots"}
Untouched ==
    NotStarted => /\ semitems = 0 /\ semslots = 0 /\ stored = 0
                  /\ \A t \in Threads : pc[t] \notin Inside

\* The body ends with one of the two flags set, and nobody waits before it has.
BodyTells ==
    /\ once = "done" => initdone \/ initerror
    /\ initdone => once = "done"
    /\ "once" \notin faults =>
          \A t \in Threads : pc[t] \in {"semwait"} \cup Inside => once = "done"

\* The first two parts of PermitsAreBacked, and the third from the step on that
\* gives semslots its value.
Backed == ItemPermits <= stored /\ SlotPermits <= BufSize - stored
NoneLost ==
    faults = {} /\ ~NotStarted => ItemPermits + SlotPermits = BufSize

RingAgrees == bufin = Wrapped(bufout + stored, BufSize)

\* A thread between its lock and its unlock holds the mutex.
Excludes == \A t \in Threads : pc[t] \in {"xfer", "unlock"} => lock = t

\* The inductive invariant.
SemIInv ==
    /\ SemTypes
    /\ BodyAlone
    /\ Untouched
    /\ BodyTells
    /\ Backed
    /\ NoneLost
    /\ RingAgrees
    /\ Excludes

-----------------------------------------------------------------------------
(* Counting permits.                                                       *)

\* What a thread in function f at position p counts for.
ItemWeight(f, p) ==
    IF \/ f = "getitem" /\ p \in {"lock", "xfer"}
       \/ f = "putitem" /\ p \in {"unlock", "sempost"} THEN 1 ELSE 0
SlotWeight(f, p) ==
    IF \/ f = "putitem" /\ p \in {"lock", "xfer"}
       \/ f = "getitem" /\ p \in {"unlock", "sempost"} THEN 1 ELSE 0

ItemsOut == At("getitem", {"lock", "xfer"})
ItemsDue == At("putitem", {"unlock", "sempost"})
SlotsOut == At("putitem", {"lock", "xfer"})
SlotsDue == At("getitem", {"unlock", "sempost"})

PermitsShift(t, f, to) ==
    /\ ItemPermits \in Nat /\ SlotPermits \in Nat
    /\ ItemPermits' \in Nat /\ SlotPermits' \in Nat
    /\ ItemPermits >= semitems + ItemWeight(call[t], pc[t])
    /\ SlotPermits >= semslots + SlotWeight(call[t], pc[t])
    /\ ItemPermits' + semitems + ItemWeight(call[t], pc[t])
         = ItemPermits + semitems' + ItemWeight(f, to)
    /\ SlotPermits' + semslots + SlotWeight(call[t], pc[t])
         = SlotPermits + semslots' + SlotWeight(f, to)

\* When thread t moves, the permits change by what t counted for, by what it
\* counts for now, and by what the step does to the semaphores.
LEMMA PermitsMove ==
    ASSUME SemTypes, semitems' \in Nat, semslots' \in Nat,
           NEW t \in Threads, NEW to, pc' = [pc EXCEPT ![t] = to],
           NEW f, call' = [call EXCEPT ![t] = f]
    PROVE  PermitsShift(t, f, to)
<1>1. /\ pc[t] \in Positions /\ pc'[t] = to /\ call'[t] = f
      /\ \A s \in Threads \ {t} : pc'[s] = pc[s] /\ call'[s] = call[s]
  BY DEF SemTypes
<1>2. /\ ItemsOut \in SUBSET Threads /\ ItemsOut' \in SUBSET Threads
      /\ ItemsDue \in SUBSET Threads /\ ItemsDue' \in SUBSET Threads
      /\ SlotsOut \in SUBSET Threads /\ SlotsOut' \in SUBSET Threads
      /\ SlotsDue \in SUBSET Threads /\ SlotsDue' \in SUBSET Threads
  BY DEF ItemsOut, ItemsDue, SlotsOut, SlotsDue, At
<1>3. \A s \in Threads \ {t} : /\ s \in ItemsOut <=> s \in ItemsOut'
                               /\ s \in ItemsDue <=> s \in ItemsDue'
                               /\ s \in SlotsOut <=> s \in SlotsOut'
                               /\ s \in SlotsDue <=> s \in SlotsDue'
  BY <1>1 DEF ItemsOut, ItemsDue, SlotsOut, SlotsDue, At
<1>4. /\ Shift(ItemsOut, ItemsOut', t) /\ Shift(ItemsDue, ItemsDue', t)
      /\ Shift(SlotsOut, SlotsOut', t) /\ Shift(SlotsDue, SlotsDue', t)
  BY <1>2, <1>3, OneMoves, SemThreadsAssumption
<1>5. /\ ItemWeight(call[t], pc[t]) = (IF t \in ItemsOut THEN 1 ELSE 0)
                                      + (IF t \in ItemsDue THEN 1 ELSE 0)
      /\ SlotWeight(call[t], pc[t]) = (IF t \in SlotsOut THEN 1 ELSE 0)
                                      + (IF t \in SlotsDue THEN 1 ELSE 0)
  BY DEF ItemWeight, SlotWeight, ItemsOut, ItemsDue, SlotsOut, SlotsDue, At
<1>6. /\ ItemWeight(f, to) = (IF t \in ItemsOut' THEN 1 ELSE 0)
                               + (IF t \in ItemsDue' THEN 1 ELSE 0)
      /\ SlotWeight(f, to) = (IF t \in SlotsOut' THEN 1 ELSE 0)
                               + (IF t \in SlotsDue' THEN 1 ELSE 0)
  BY <1>1 DEF ItemWeight, SlotWeight, ItemsOut, ItemsDue, SlotsOut, SlotsDue, At
<1>7. /\ ItemPermits = semitems + Cardinality(ItemsOut) + Cardinality(ItemsDue)
      /\ SlotPermits = semslots + Cardinality(SlotsOut) + Cardinality(SlotsDue)
      /\ ItemPermits' = semitems' + Cardinality(ItemsOut') + Cardinality(ItemsDue')
      /\ SlotPermits' = semslots' + Cardinality(SlotsOut') + Cardinality(SlotsDue')
  BY DEF ItemPermits, SlotPermits, ItemsOut, ItemsDue, SlotsOut, SlotsDue
<1>8. semitems \in Nat /\ semslots \in Nat
  BY DEF SemTypes
<1> QED
  BY <1>4, <1>5, <1>6, <1>7, <1>8 DEF Shift, PermitsShift

-----------------------------------------------------------------------------
(* The invariant.                                                          *)

LEMMA SemInitIInv == Init => SemIInv
<1> SUFFICES ASSUME Init PROVE SemIInv
  OBVIOUS
<1> USE SemBufSizeAssumption DEF Init
<1>1. SemTypes
  BY DEF SemTypes, Array, Content, Positions, Functions
<1>2. BodyAlone /\ Untouched /\ BodyTells /\ Excludes
  BY DEF BodyAlone, Untouched, BodyTells, Excludes, Body, Inside
<1>3. /\ At("getitem", {"lock", "xfer"}) = {} /\ At("putitem", {"unlock", "sempost"}) = {}
      /\ At("putitem", {"lock", "xfer"}) = {} /\ At("getitem", {"unlock", "sempost"}) = {}
  BY DEF At
<1>4. ItemPermits = 0 /\ SlotPermits = 0
  <2>1. Cardinality({}) = 0
    BY FS_EmptySet
  <2>2. semitems = 0 /\ semslots = 0
    OBVIOUS
  <2> HIDE DEF Init
  <2> QED
    BY <1>3, <2>1, <2>2 DEF ItemPermits, SlotPermits
<1>5. Backed
  BY <1>4 DEF Backed
<1>6. NoneLost
  BY DEF NoneLost, NotStarted
<1>7. RingAgrees
  BY WrapOnce DEF RingAgrees
<1> QED
  BY <1>1, <1>2, <1>5, <1>6, <1>7 DEF SemIInv

\* A step that gives and takes no permit keeps the counts.
LEMMA QuietCounts ==
    ASSUME SemIInv, NEW t \in Threads, NEW to, pc' = [pc EXCEPT ![t] = to],
           NEW f, call' = [call EXCEPT ![t] = f],
           ItemWeight(f, to) = ItemWeight(call[t], pc[t]),
           SlotWeight(f, to) = SlotWeight(call[t], pc[t]),
           UNCHANGED <<sems, stored, faults>>, NotStarted => NotStarted'
    PROVE  Backed' /\ NoneLost'
<1>1. /\ semitems' \in Nat /\ semslots' \in Nat /\ semitems' = semitems
      /\ semslots' = semslots /\ stored' = stored /\ stored \in Nat
  BY DEF SemIInv, SemTypes, sems
<1>2. ItemWeight(f, to) \in Nat /\ SlotWeight(f, to) \in Nat
  BY DEF ItemWeight, SlotWeight
<1>3. PermitsShift(t, f, to)
  BY <1>1, PermitsMove DEF SemIInv
<1>4. ItemPermits' = ItemPermits /\ SlotPermits' = SlotPermits
  BY <1>1, <1>2, <1>3 DEF SemIInv, SemTypes, PermitsShift
<1> QED
  BY <1>1, <1>4 DEF SemIInv, Backed, NoneLost

LEMMA CallStep ==
    ASSUME SemIInv, NEW t \in Threads, NEW function \in Functions,
           NEW i \in Content, Call(t, function, i)
    PROVE  SemIInv'
<1> USE DEF Call, Goto, ring, init, sems
<1>1. SemTypes'
  BY DEF SemIInv, SemTypes, Positions
<1>2. \A s \in Threads : s # t => pc'[s] = pc[s]
  BY DEF SemIInv, SemTypes
<1>3. pc'[t] \in {"once", "semwait"} /\ (pc'[t] = "semwait" => initdone)
  BY DEF SemIInv, SemTypes
<1>4. BodyAlone' /\ Untouched' /\ Excludes'
  BY <1>2, <1>3 DEF SemIInv, BodyAlone, Untouched, NotStarted, Excludes, Body, Inside
<1>5. BodyTells'
  BY <1>2, <1>3 DEF SemIInv, BodyTells, Inside
<1>6. NotStarted => NotStarted'
  BY <1>2 DEF NotStarted
<1>7. Backed' /\ NoneLost'
  BY <1>3, <1>6, QuietCounts DEF ItemWeight, SlotWeight
<1>8. RingAgrees'
  BY DEF SemIInv, RingAgrees
<1> QED
  BY <1>1, <1>4, <1>5, <1>7, <1>8 DEF SemIInv

\* pthread_once.  The body is entered by one thread only.
LEMMA OnceStep ==
    ASSUME SemIInv, NEW t \in Threads, Once(t)
    PROVE  SemIInv'
<1> USE DEF Once, Goto, ring, sems, locals
<1>1. SemTypes'
  BY DEF SemIInv, SemTypes, Positions, Body
<1>2. \A s \in Threads : s # t => pc'[s] = pc[s]
  BY DEF SemIInv, SemTypes
<1>3. /\ pc[t] = "once" /\ pc'[t] \in {"inititems", "semwait"}
      /\ pc'[t] = "inititems" => once = "new" /\ once' = "running"
      /\ pc'[t] = "semwait" => /\ once' = once
                               /\ once = "done" \/ "once" \in faults
  BY DEF SemIInv, SemTypes
<1>4. BodyAlone'
  BY <1>2, <1>3 DEF SemIInv, BodyAlone, Body
<1>5. Untouched' /\ Excludes'
  BY <1>2, <1>3 DEF SemIInv, Untouched, NotStarted, Excludes, Inside
<1>6. BodyTells'
  BY <1>2, <1>3 DEF SemIInv, BodyTells, Inside
<1>7. NotStarted => NotStarted'
  BY <1>2, <1>3 DEF NotStarted
<1>8. Backed' /\ NoneLost'
  <2>1. call' = [call EXCEPT ![t] = call[t]]
    BY DEF SemIInv, SemTypes
  <2>2. pc' = [pc EXCEPT ![t] = pc'[t]]
    BY DEF SemIInv, SemTypes
  <2>3. UNCHANGED <<sems, stored, faults>>
    OBVIOUS
  <2> HIDE DEF Once, Goto, ring, sems, locals
  <2> QED
    BY <1>3, <1>7, <2>1, <2>2, <2>3, QuietCounts DEF ItemWeight, SlotWeight
<1>9. RingAgrees'
  BY DEF SemIInv, RingAgrees
<1> QED
  BY <1>1, <1>4, <1>5, <1>6, <1>8, <1>9 DEF SemIInv

\* The body of pthread_once.
LEMMA InitItemsStep ==
    ASSUME SemIInv, NEW t \in Threads, InitItems(t)
    PROVE  SemIInv'
<1> USE DEF InitItems, Goto, ring, init, locals
<1>1. SemTypes'
  BY DEF SemIInv, SemTypes, Positions, Body
<1>2. \A s \in Threads : s # t => pc'[s] = pc[s]
  BY DEF SemIInv, SemTypes
<1>3. pc[t] = "inititems" /\ pc'[t] = "initslots"
  BY DEF SemIInv, SemTypes
<1>4. NotStarted /\ NotStarted' /\ semitems = 0
  BY <1>3 DEF SemIInv, Untouched, NotStarted
<1>5. BodyAlone' /\ Untouched' /\ Excludes'
  BY <1>2, <1>3, <1>4 DEF SemIInv, BodyAlone, Untouched, Excludes, Body, Inside
<1>6. BodyTells'
  BY <1>2, <1>3 DEF SemIInv, BodyTells, Inside
<1>7. Backed' /\ NoneLost'
  <2>1. call' = [call EXCEPT ![t] = call[t]]
    BY DEF SemIInv, SemTypes
  <2>2. UNCHANGED <<sems, stored, faults>>
    BY <1>4 DEF sems
  <2> QED
    BY <1>3, <1>4, <2>1, <2>2, QuietCounts DEF ItemWeight, SlotWeight
<1>8. RingAgrees'
  BY DEF SemIInv, RingAgrees
<1> QED
  BY <1>1, <1>5, <1>6, <1>7, <1>8 DEF SemIInv

\* Until semslots has its value nobody is past a semaphore: from then on its
\* permits are all there are.
LEMMA InitSlotsStep ==
    ASSUME SemIInv, NEW t \in Threads, InitSlots(t)
    PROVE  SemIInv'
<1> USE SemBufSizeAssumption DEF InitSlots, Goto, ring, init, locals
<1>1. SemTypes'
  BY DEF SemIInv, SemTypes, Positions, Body
<1>2. \A s \in Threads : s # t => pc'[s] = pc[s]
  BY DEF SemIInv, SemTypes
<1>3. pc[t] = "initslots" /\ pc'[t] = "initdone"
  BY DEF SemIInv, SemTypes
<1>4. /\ NotStarted /\ semitems = 0 /\ semslots = 0 /\ stored = 0
      /\ \A s \in Threads : pc[s] \notin Inside
  BY <1>3 DEF SemIInv, Untouched, NotStarted
<1>5. BodyAlone' /\ Untouched' /\ Excludes'
  BY <1>2, <1>3, <1>4 DEF SemIInv, BodyAlone, Untouched, NotStarted, Excludes, Body, Inside
<1>6. BodyTells'
  BY <1>2, <1>3 DEF SemIInv, BodyTells, Inside
<1>7. Backed' /\ NoneLost'
  <2>1. \A s \in Threads : pc'[s] \notin Inside
    BY <1>2, <1>3, <1>4 DEF Inside
  <2>2. /\ At("getitem", {"lock", "xfer"})' = {} /\ At("putitem", {"unlock", "sempost"})' = {}
        /\ At("putitem", {"lock", "xfer"})' = {} /\ At("getitem", {"unlock", "sempost"})' = {}
    BY <2>1 DEF At, Inside
  <2>3. Cardinality({}) = 0
    BY FS_EmptySet
  <2>4. ItemPermits' = 0 /\ SlotPermits' = BufSize
    BY <1>4, <2>2, <2>3 DEF ItemPermits, SlotPermits
  <2> QED
    BY <1>4, <2>4 DEF Backed, NoneLost
<1>8. RingAgrees'
  BY DEF SemIInv, RingAgrees
<1> QED
  BY <1>1, <1>5, <1>6, <1>7, <1>8 DEF SemIInv

LEMMA InitDoneStep ==
    ASSUME SemIInv, NEW t \in Threads, InitDone(t)
    PROVE  SemIInv'
<1> USE DEF InitDone, Goto, ring, sems, locals
<1>1. SemTypes'
  BY DEF SemIInv, SemTypes, Positions, Body
<1>2. \A s \in Threads : s # t => pc'[s] = pc[s]
  BY DEF SemIInv, SemTypes
<1>3. pc[t] = "initdone" /\ pc'[t] = "semwait"
  BY DEF SemIInv, SemTypes
<1>4. \A s \in Threads : s # t => pc[s] \notin Body
  BY <1>3 DEF SemIInv, BodyAlone, Body
<1>5. ~NotStarted
  <2>1. once = "running"
    BY <1>3 DEF SemIInv, BodyAlone, Body
  <2> QED
    BY <1>3, <1>4, <2>1 DEF NotStarted, Body
<1>6. ~NotStarted'
  BY <1>2, <1>3, <1>4 DEF NotStarted, Body
<1>7. BodyAlone' /\ Untouched' /\ Excludes'
  BY <1>2, <1>3, <1>4, <1>6 DEF SemIInv, BodyAlone, Untouched, Excludes, Body
<1>8. BodyTells'
  BY <1>2, <1>3 DEF SemIInv, BodyTells, Inside
<1>9. Backed' /\ NoneLost'
  <2>1. call' = [call EXCEPT ![t] = call[t]]
    BY DEF SemIInv, SemTypes
  <2>2. UNCHANGED <<sems, stored, faults>>
    OBVIOUS
  <2> QED
    BY <1>3, <1>5, <2>1, <2>2, QuietCounts DEF ItemWeight, SlotWeight
<1>10. RingAgrees'
  BY DEF SemIInv, RingAgrees
<1> QED
  BY <1>1, <1>7, <1>8, <1>9, <1>10 DEF SemIInv

\* The body gives up: every semaphore is still zero, and stays so.
LEMMA InitFailsStep ==
    ASSUME SemIInv, NEW t \in Threads, InitFails(t)
    PROVE  SemIInv'
<1> USE DEF InitFails, Goto, ring, sems, locals
<1>1. SemTypes'
  BY DEF SemIInv, SemTypes, Positions, Body
<1>2. \A s \in Threads : s # t => pc'[s] = pc[s]
  BY DEF SemIInv, SemTypes
<1>3. pc[t] \in {"inititems", "initslots"} /\ pc'[t] = "semwait" /\ faults # {}
  BY DEF SemIInv, SemTypes
<1>4. \A s \in Threads : s # t => pc[s] \notin Body
  BY <1>3 DEF SemIInv, BodyAlone, Body
<1>5. ~NotStarted'
  BY <1>2, <1>3, <1>4 DEF NotStarted, Body
<1>6. BodyAlone' /\ Untouched' /\ Excludes'
  BY <1>2, <1>3, <1>4, <1>5 DEF SemIInv, BodyAlone, Untouched, Excludes, Body
<1>7. BodyTells'
  BY <1>2, <1>3 DEF SemIInv, BodyTells, Inside
<1>8. Backed'
  <2>1. call' = [call EXCEPT ![t] = call[t]]
    BY DEF SemIInv, SemTypes
  <2>2. /\ semitems' = semitems /\ semslots' = semslots /\ stored' = stored
        /\ semitems \in Nat /\ semslots \in Nat
        /\ pc' = [pc EXCEPT ![t] = "semwait"]
    BY DEF SemIInv, SemTypes
  <2>3. /\ ItemWeight(call[t], "semwait") = 0 /\ ItemWeight(call[t], pc[t]) = 0
        /\ SlotWeight(call[t], "semwait") = 0 /\ SlotWeight(call[t], pc[t]) = 0
    BY <1>3 DEF ItemWeight, SlotWeight
  <2>4. PermitsShift(t, call[t], "semwait")
    BY <2>1, <2>2, PermitsMove DEF SemIInv
  <2>5. ItemPermits' = ItemPermits /\ SlotPermits' = SlotPermits
    BY <2>2, <2>3, <2>4 DEF PermitsShift
  <2> QED
    BY <2>2, <2>5 DEF SemIInv, Backed
<1>9. NoneLost'
  BY <1>3 DEF NoneLost
<1>10. RingAgrees'
  BY DEF SemIInv, RingAgrees
<1> QED
  BY <1>1, <1>6, <1>7, <1>8, <1>9, <1>10 DEF SemIInv

\* A step inside the critical part of getitem or putitem, or on the way there,
\* that leaves the initialization alone.
LEMMA OutsideBody ==
    ASSUME SemIInv, NEW t \in Threads, NEW to \in {"lock", "xfer", "unlock", "sempost", "return"},
           pc[t] \in {"semwait"} \cup Inside, pc' = [pc EXCEPT ![t] = to],
           UNCHANGED init, semitems > 0 \/ semslots > 0 \/ pc[t] \in Inside
    PROVE  /\ BodyAlone' /\ Untouched' /\ BodyTells'
           /\ ~NotStarted /\ ~NotStarted'
<1> USE DEF init
<1>1. /\ pc'[t] = to
      /\ \A s \in Threads : s # t => pc'[s] = pc[s]
  BY DEF SemIInv, SemTypes
<1>2. ~NotStarted
  BY DEF SemIInv, Untouched, SemTypes
<1>3. ~NotStarted'
  BY <1>1, <1>2 DEF NotStarted
<1>4. BodyAlone' /\ Untouched'
  BY <1>1, <1>3 DEF SemIInv, BodyAlone, Untouched, Body, Inside
<1>5. BodyTells'
  BY <1>1 DEF SemIInv, BodyTells, Inside
<1> QED
  BY <1>2, <1>3, <1>4, <1>5

\* Taking a permit and giving one: the semaphore changes by what the thread
\* comes to count for, or stops to.
LEMMA SemWaitStep ==
    ASSUME SemIInv, NEW t \in Threads, SemWait(t)
    PROVE  SemIInv'
<1> USE DEF SemWait, Goto, ring, locals
<1>1. /\ pc[t] = "semwait" /\ pc' = [pc EXCEPT ![t] = "lock"]
      /\ semitems > 0 \/ semslots > 0
      /\ call' = [call EXCEPT ![t] = call[t]] /\ stored' = stored /\ stored \in Nat
      /\ semitems \in Nat /\ semslots \in Nat /\ semitems' \in Nat /\ semslots' \in Nat
      /\ UNCHANGED faults
  BY DEF SemIInv, SemTypes, init
<1>2. SemTypes'
  <2>1. pc' \in [Threads -> Positions]
    BY <1>1 DEF SemIInv, SemTypes, Positions, Inside
  <2>2. UNCHANGED <<buffer, bufin, bufout, stored, once, lock, call, item>>
    BY DEF init
  <2> QED
    BY <1>1, <2>1, <2>2 DEF SemIInv, SemTypes
<1>3. BodyAlone' /\ Untouched' /\ BodyTells' /\ ~NotStarted /\ ~NotStarted'
  BY <1>1, OutsideBody
<1>4. /\ semitems' + ItemWeight(call[t], "lock") = semitems
      /\ semslots' + SlotWeight(call[t], "lock") = semslots
      /\ ItemWeight(call[t], "semwait") = 0 /\ SlotWeight(call[t], "semwait") = 0
  BY <1>1 DEF ItemWeight, SlotWeight
<1>5. PermitsShift(t, call[t], "lock")
  BY <1>1, PermitsMove DEF SemIInv
<1>6. ItemPermits' = ItemPermits /\ SlotPermits' = SlotPermits
  <2>1. ItemWeight(call[t], "lock") \in Nat /\ SlotWeight(call[t], "lock") \in Nat
    BY DEF ItemWeight, SlotWeight
  <2> QED
    BY <1>1, <1>4, <1>5, <2>1 DEF PermitsShift
<1>7. Backed' /\ NoneLost'
  BY <1>1, <1>3, <1>6 DEF SemIInv, Backed, NoneLost
<1>8. RingAgrees' /\ Excludes'
  BY <1>1 DEF SemIInv, RingAgrees, Excludes, SemTypes
<1> QED
  BY <1>2, <1>3, <1>7, <1>8 DEF SemIInv

LEMMA SemPostStep ==
    ASSUME SemIInv, NEW t \in Threads, SemPost(t)
    PROVE  SemIInv'
<1> USE DEF SemPost, Goto, ring, locals
<1>1. /\ pc[t] = "sempost" /\ pc' = [pc EXCEPT ![t] = "return"] /\ call[t] \in Functions
      /\ call' = [call EXCEPT ![t] = call[t]] /\ stored' = stored /\ stored \in Nat
      /\ semitems \in Nat /\ semslots \in Nat /\ semitems' \in Nat /\ semslots' \in Nat
      /\ UNCHANGED faults
  BY DEF SemIInv, SemTypes, init, Functions
<1>2. SemTypes'
  <2>1. pc' \in [Threads -> Positions]
    BY <1>1 DEF SemIInv, SemTypes, Positions, Inside
  <2>2. UNCHANGED <<buffer, bufin, bufout, stored, once, lock, call, item>>
    BY DEF init
  <2> QED
    BY <1>1, <2>1, <2>2 DEF SemIInv, SemTypes
<1>3. BodyAlone' /\ Untouched' /\ BodyTells' /\ ~NotStarted /\ ~NotStarted'
  BY <1>1, OutsideBody DEF Inside
<1>4. /\ semitems' = semitems + ItemWeight(call[t], "sempost")
      /\ semslots' = semslots + SlotWeight(call[t], "sempost")
      /\ ItemWeight(call[t], "return") = 0 /\ SlotWeight(call[t], "return") = 0
  BY <1>1 DEF ItemWeight, SlotWeight
<1>5. PermitsShift(t, call[t], "return")
  BY <1>1, PermitsMove DEF SemIInv
<1>6. ItemPermits' = ItemPermits /\ SlotPermits' = SlotPermits
  <2>1. ItemWeight(call[t], "sempost") \in Nat /\ SlotWeight(call[t], "sempost") \in Nat
    BY DEF ItemWeight, SlotWeight
  <2> QED
    BY <1>1, <1>4, <1>5, <2>1 DEF PermitsShift
<1>7. Backed' /\ NoneLost'
  BY <1>1, <1>3, <1>6 DEF SemIInv, Backed, NoneLost
<1>8. RingAgrees' /\ Excludes'
  BY <1>1 DEF SemIInv, RingAgrees, Excludes, SemTypes
<1> QED
  BY <1>2, <1>3, <1>7, <1>8 DEF SemIInv

\* The mutex: who has a permit keeps it.
LEMMA MutexStep ==
    ASSUME SemIInv, NEW t \in Threads, MutexLock(t) \/ MutexUnlock(t)
    PROVE  SemIInv'
<1> USE DEF MutexLock, MutexUnlock, Goto, ring, locals
<1>1. PICK to \in {"xfer", "sempost"} :
          /\ pc[t] = IF to = "xfer" THEN "lock" ELSE "unlock"
          /\ pc' = [pc EXCEPT ![t] = to]
          /\ to = "xfer" => lock = NoThread /\ lock' = t
          /\ to = "sempost" => lock' = NoThread
          /\ UNCHANGED <<ring, init, sems, locals>>
  BY Zenon DEF MutexLock, MutexUnlock, Goto
<1> HIDE DEF MutexLock, MutexUnlock
<1>2. SemTypes'
  BY <1>1 DEF SemIInv, SemTypes, Positions, Inside, init, sems
<1>3. BodyAlone' /\ Untouched' /\ BodyTells' /\ ~NotStarted /\ ~NotStarted'
  BY <1>1, OutsideBody DEF Inside
<1>4. Backed' /\ NoneLost'
  <2>1. call' = [call EXCEPT ![t] = call[t]]
    BY <1>1 DEF SemIInv, SemTypes
  <2>2. UNCHANGED <<sems, stored, faults>>
    BY <1>1 DEF init
  <2>3. /\ ItemWeight(call[t], to) = ItemWeight(call[t], pc[t])
        /\ SlotWeight(call[t], to) = SlotWeight(call[t], pc[t])
    BY <1>1 DEF ItemWeight, SlotWeight
  <2> QED
    BY <1>1, <1>3, <2>1, <2>2, <2>3, QuietCounts
<1>5. RingAgrees' /\ Excludes'
  BY <1>1, SemNoThreadAssumption DEF SemIInv, RingAgrees, Excludes, SemTypes
<1> QED
  BY <1>2, <1>3, <1>4, <1>5 DEF SemIInv

\* Moving an item.  The permit taken proves that there is one, or room for one;
\* from here on it counts for the other semaphore.
LEMMA GetXferStep ==
    ASSUME SemIInv, NEW t \in Threads, GetXfer(t)
    PROVE  SemIInv'
<1> USE SemBufSizeAssumption DEF GetXfer, Goto
<1>1. /\ pc[t] = "xfer" /\ pc' = [pc EXCEPT ![t] = "unlock"] /\ call[t] = "getitem"
      /\ call' = [call EXCEPT ![t] = call[t]] /\ stored' = stored - 1
      /\ bufout' = Wrapped(bufout + 1, BufSize) /\ bufin' = bufin
      /\ semitems \in Nat /\ semslots \in Nat /\ semitems' = semitems /\ semslots' = semslots
      /\ UNCHANGED <<faults, lock>>
  BY DEF SemIInv, SemTypes, init, sems, Wrapped
<1>2. PermitsShift(t, "getitem", "unlock")
  BY <1>1, PermitsMove DEF SemIInv
<1>3. /\ ItemPermits > 0 /\ ItemPermits' = ItemPermits - 1
      /\ SlotPermits' = SlotPermits + 1
      /\ {ItemPermits, SlotPermits} \subseteq Nat
  BY <1>1, <1>2 DEF PermitsShift, ItemWeight, SlotWeight
<1>4. stored \in 1..BufSize
  BY <1>3 DEF SemIInv, SemTypes, Backed
<1>5. SemTypes'
  <2>1. stored' \in 0..BufSize
    BY <1>1, <1>4
  <2>2. bufout' \in 0..(BufSize - 1)
    BY <1>1, WrapType DEF SemIInv, SemTypes
  <2>3. item' \in [Threads -> Content]
    <3>1. buffer[bufout] \in Content
      BY DEF SemIInv, SemTypes, Array
    <3> QED
      BY <3>1 DEF SemIInv, SemTypes
  <2>4. pc' \in [Threads -> Positions]
    BY <1>1 DEF SemIInv, SemTypes, Positions, Inside
  <2>5. UNCHANGED <<buffer, bufin, once, lock, call, semitems, semslots>>
    BY DEF init, sems
  <2> QED
    BY <1>1, <2>1, <2>2, <2>3, <2>4, <2>5 DEF SemIInv, SemTypes
<1>6. BodyAlone' /\ Untouched' /\ BodyTells' /\ ~NotStarted /\ ~NotStarted'
  BY <1>1, OutsideBody DEF Inside
<1>7. Backed' /\ NoneLost'
  BY <1>1, <1>3, <1>4, <1>6 DEF SemIInv, Backed, NoneLost
<1>8. RingAgrees'
  BY <1>1, <1>4, RingAdvance DEF SemIInv, SemTypes, RingAgrees
<1>9. Excludes'
  BY <1>1 DEF SemIInv, SemTypes, Excludes
<1> QED
  BY <1>5, <1>6, <1>7, <1>8, <1>9 DEF SemIInv

LEMMA PutXferStep ==
    ASSUME SemIInv, NEW t \in Threads, PutXfer(t)
    PROVE  SemIInv'
<1> USE SemBufSizeAssumption DEF PutXfer, Goto
<1>1. /\ pc[t] = "xfer" /\ pc' = [pc EXCEPT ![t] = "unlock"] /\ call[t] = "putitem"
      /\ call' = [call EXCEPT ![t] = call[t]] /\ stored' = stored + 1
      /\ bufin' = Wrapped(bufin + 1, BufSize) /\ bufout' = bufout
      /\ semitems \in Nat /\ semslots \in Nat /\ semitems' = semitems /\ semslots' = semslots
      /\ UNCHANGED <<faults, lock>>
  BY DEF SemIInv, SemTypes, init, sems, Wrapped
<1>2. PermitsShift(t, "putitem", "unlock")
  BY <1>1, PermitsMove DEF SemIInv
<1>3. /\ SlotPermits > 0 /\ SlotPermits' = SlotPermits - 1
      /\ ItemPermits' = ItemPermits + 1
      /\ {ItemPermits, SlotPermits} \subseteq Nat
  BY <1>1, <1>2 DEF PermitsShift, ItemWeight, SlotWeight
<1>4. stored \in 0..(BufSize - 1)
  BY <1>3 DEF SemIInv, SemTypes, Backed
<1>5. SemTypes'
  <2>1. stored' \in 0..BufSize
    BY <1>1, <1>4
  <2>2. bufin' \in 0..(BufSize - 1)
    BY <1>1, WrapType DEF SemIInv, SemTypes
  <2>3. buffer' \in Array(BufSize, Content)
    BY DEF SemIInv, SemTypes, Array
  <2>4. pc' \in [Threads -> Positions]
    BY <1>1 DEF SemIInv, SemTypes, Positions, Inside
  <2>5. UNCHANGED <<item, bufout, once, lock, call, semitems, semslots>>
    BY DEF init, sems
  <2> QED
    BY <1>1, <2>1, <2>2, <2>3, <2>4, <2>5 DEF SemIInv, SemTypes
<1>6. BodyAlone' /\ Untouched' /\ BodyTells' /\ ~NotStarted /\ ~NotStarted'
  BY <1>1, OutsideBody DEF Inside
<1>7. Backed' /\ NoneLost'
  BY <1>1, <1>3, <1>4, <1>6 DEF SemIInv, SemTypes, Backed, NoneLost
<1>8. RingAgrees'
  BY <1>1, <1>4, RingExtend DEF SemIInv, SemTypes, RingAgrees
<1>9. Excludes'
  BY <1>1 DEF SemIInv, SemTypes, Excludes
<1> QED
  BY <1>5, <1>6, <1>7, <1>8, <1>9 DEF SemIInv

\* A call that fails loses its permit, if it has one: fewer are left than there
\* are items and free slots.  Returning changes nothing.
LEMMA LeaveStep ==
    ASSUME SemIInv, NEW t \in Threads,
           \/ SemWaitFails(t) \/ MutexLockFails(t) \/ MutexUnlockFails(t) \/ SemPostFails(t)
    PROVE  SemIInv'
<1>1. PICK from \in {"semwait", "lock", "unlock", "sempost"} :
          /\ pc[t] = from /\ pc' = [pc EXCEPT ![t] = "return"]
          /\ faults # {}
          /\ UNCHANGED <<ring, init, call, item, sems, lock>>
  BY Zenon DEF SemWaitFails, MutexLockFails, MutexUnlockFails, SemPostFails, Fails, Goto
<1>2. /\ call' = [call EXCEPT ![t] = call[t]] /\ stored' = stored /\ stored \in Nat
      /\ semitems \in Nat /\ semslots \in Nat /\ semitems' = semitems /\ semslots' = semslots
      /\ UNCHANGED <<init, faults, lock, bufin, bufout>>
  BY <1>1 DEF SemIInv, SemTypes, init, sems, ring
<1>3. SemTypes'
  <2>1. pc' \in [Threads -> Positions]
    BY <1>1 DEF SemIInv, SemTypes, Positions
  <2>2. UNCHANGED <<buffer, bufin, bufout, stored, once, lock, call, item, semitems, semslots>>
    BY <1>1 DEF init, sems, ring
  <2> QED
    BY <1>1, <2>1, <2>2 DEF SemIInv, SemTypes
<1>4. /\ pc'[t] = "return" /\ \A s \in Threads : s # t => pc'[s] = pc[s]
      /\ NotStarted' <=> NotStarted
  BY <1>1, <1>2 DEF SemIInv, SemTypes, NotStarted, init
<1>5. BodyAlone' /\ Untouched' /\ Excludes'
  BY <1>2, <1>4 DEF SemIInv, BodyAlone, Untouched, Excludes, Body, Inside, init
<1>6. BodyTells'
  BY <1>1, <1>2, <1>4 DEF SemIInv, BodyTells, Inside, init
<1>7. Backed'
  <2>1. PermitsShift(t, call[t], "return")
    BY <1>1, <1>2, PermitsMove DEF SemIInv
  <2>2. /\ ItemWeight(call[t], "return") = 0 /\ SlotWeight(call[t], "return") = 0
        /\ ItemWeight(call[t], pc[t]) \in Nat /\ SlotWeight(call[t], pc[t]) \in Nat
    BY DEF ItemWeight, SlotWeight
  <2>3. ItemPermits' <= ItemPermits /\ SlotPermits' <= SlotPermits
    BY <1>2, <2>1, <2>2 DEF PermitsShift
  <2> QED
    BY <1>2, <2>1, <2>3, SemBufSizeAssumption DEF SemIInv, SemTypes, Backed, PermitsShift
<1>8. NoneLost'
  BY <1>1, <1>2 DEF NoneLost
<1>9. RingAgrees'
  BY <1>2 DEF SemIInv, RingAgrees
<1> QED
  BY <1>3, <1>5, <1>6, <1>7, <1>8, <1>9 DEF SemIInv

LEMMA ReturnStep ==
    ASSUME SemIInv, NEW t \in Threads, Return(t)
    PROVE  SemIInv'
<1> USE DEF Return, Goto
<1>1. /\ pc[t] = "return" /\ pc' = [pc EXCEPT ![t] = "idle"]
      /\ call' = [call EXCEPT ![t] = "none"]
      /\ UNCHANGED <<init, sems, stored, faults, lock, bufin, bufout>>
  BY DEF init, ring
<1>2. SemTypes'
  BY DEF SemIInv, SemTypes, Positions, Content, ring, init, sems
<1>3. /\ pc'[t] = "idle" /\ \A s \in Threads : s # t => pc'[s] = pc[s]
      /\ NotStarted' <=> NotStarted
  BY <1>1 DEF SemIInv, SemTypes, NotStarted, init
<1> HIDE DEF Return, Goto
<1>4. BodyAlone' /\ Untouched' /\ Excludes'
  BY <1>1, <1>3 DEF SemIInv, BodyAlone, Untouched, Excludes, Body, Inside, init, sems
<1>5. BodyTells'
  BY <1>1, <1>3 DEF SemIInv, BodyTells, Inside, init
<1>6. Backed' /\ NoneLost'
  BY <1>1, <1>3, QuietCounts DEF ItemWeight, SlotWeight
<1>7. RingAgrees'
  BY <1>1 DEF SemIInv, RingAgrees
<1> QED
  BY <1>2, <1>4, <1>5, <1>6, <1>7 DEF SemIInv

LEMMA SemNextIInv == SemIInv /\ [Next]_vars => SemIInv'
<1> SUFFICES ASSUME SemIInv, [Next]_vars PROVE SemIInv'
  OBVIOUS
<1>1. CASE UNCHANGED vars
  <2> USE <1>1 DEF vars, ring, init, sems, locals
  <2>1. SemTypes' /\ BodyAlone' /\ Untouched' /\ BodyTells' /\ RingAgrees' /\ Excludes'
    BY DEF SemIInv, SemTypes, BodyAlone, Untouched, NotStarted, BodyTells, RingAgrees, Excludes
  <2>2. Backed' /\ NoneLost'
    BY DEF SemIInv, Backed, NoneLost, NotStarted, ItemPermits, SlotPermits, At
  <2> QED
    BY <2>1, <2>2 DEF SemIInv
<1>2. ASSUME NEW t \in Threads, Proceed(t) PROVE SemIInv'
  BY <1>2, OnceStep, InitItemsStep, InitSlotsStep, InitDoneStep, SemWaitStep, MutexStep,
     GetXferStep, PutXferStep, SemPostStep, ReturnStep DEF Proceed
<1>3. ASSUME NEW t \in Threads, Fail(t) PROVE SemIInv'
  BY <1>3, InitFailsStep, LeaveStep DEF Fail
<1>4. ASSUME NEW t \in Threads, NEW function \in Functions, NEW i \in Content,
             Call(t, function, i)
      PROVE  SemIInv'
  BY <1>4, CallStep
<1> QED
  BY <1>1, <1>2, <1>3, <1>4 DEF Next, Functions, Content

\* The invariant holds of every behaviour of buffersem.c.
THEOREM SemInvariant == Spec => []SemIInv
<1>1. Init => SemIInv
  BY SemInitIInv
<1>2. SemIInv /\ [Next]_vars => SemIInv'
  BY SemNextIInv
<1> QED
  BY <1>1, <1>2, PTL DEF Spec

\* The permits of the two semaphores stand for items and free slots that nobody
\* else can claim, none is lost without a failure, and nobody waits on a
\* semaphore that somebody is about to initialize.
THEOREM SemPermitsAreBacked == Spec => []PermitsAreBacked
<1>1. SemIInv => PermitsAreBacked
  <2> SUFFICES ASSUME SemIInv PROVE PermitsAreBacked
    OBVIOUS
  <2>1. initdone => ~NotStarted
    BY DEF SemIInv, BodyTells, BodyAlone, NotStarted, Body
  <2>2. "once" \notin faults =>
            \A t \in Threads : pc[t] \in {"semwait"} \cup Inside => initdone \/ initerror
    BY DEF SemIInv, BodyTells
  <2> QED
    BY <2>1, <2>2 DEF SemIInv, Backed, NoneLost, PermitsAreBacked, Inside
<1> QED
  BY <1>1, SemInvariant, PTL

-----------------------------------------------------------------------------
(* The semaphore buffer implements the FIFO queue of BoundedQueue.          *)

LEMMA ContentsAreTurn == Contents = Turn(buffer, bufout, stored, BufSize)
BY DEF Contents, Turn, Wrapped

LEMMA GetXferRefines ==
    ASSUME SemIInv, NEW t \in Threads, GetXfer(t)
    PROVE  Queue!Get(t)
<1>1. SemIInv' /\ stored' = stored - 1 /\ bufout' = Wrapped(bufout + 1, BufSize)
      /\ UNCHANGED buffer
  BY GetXferStep DEF GetXfer, Wrapped
<1>2. stored \in 1..BufSize /\ bufout \in 0..(BufSize - 1)
      /\ buffer \in Array(BufSize, Content)
  BY <1>1, SemBufSizeAssumption DEF SemIInv, SemTypes
<1>3. LET old == Turn(buffer, bufout, stored, BufSize)
      IN  /\ old # << >> /\ Head(old) = buffer[bufout]
          /\ Turn(buffer, Wrapped(bufout + 1, BufSize), stored - 1, BufSize) = Tail(old)
  BY <1>2, RingTail, SemBufSizeAssumption
<1>4. /\ Contents # << >> /\ Head(Contents) = buffer[bufout]
      /\ Contents' = Tail(Contents)
  BY <1>1, <1>3, ContentsAreTurn DEF Contents, Turn, Wrapped
<1> QED
  BY <1>4 DEF Queue!Get, GetXfer

LEMMA PutXferRefines ==
    ASSUME SemIInv, NEW t \in Threads, PutXfer(t)
    PROVE  Queue!Put(t)
<1>1. SemIInv' /\ stored' = stored + 1 /\ UNCHANGED bufout
      /\ buffer' = [buffer EXCEPT ![bufin] = item[t]]
  BY PutXferStep DEF PutXfer
<1>2. stored \in 0..(BufSize - 1) /\ bufout \in 0..(BufSize - 1)
      /\ buffer \in Array(BufSize, Content) /\ item[t] \in Content
  BY <1>1, SemBufSizeAssumption DEF SemIInv, SemTypes
<1>3. Appends(buffer, bufout, stored, item[t], BufSize)
  BY <1>2, RingAppend, SemBufSizeAssumption
<1>4. Contents' = Turn(buffer', bufout, stored + 1, BufSize)
  BY <1>1 DEF Contents, Turn, Wrapped
<1>5. Contents' = Append(Contents, item[t])
  BY <1>1, <1>3, <1>4, ContentsAreTurn DEF Appends, SemIInv, RingAgrees
<1>6. Len(Contents) = stored /\ stored < BufSize
  <2>1. stored \in 0..BufSize /\ stored < BufSize
    BY <1>2, SemBufSizeAssumption
  <2>2. Holds(buffer, bufout, stored, BufSize, Content)
    BY <2>1, <1>2, TurnSeq, SemBufSizeAssumption
  <2> QED
    BY <2>1, <2>2, ContentsAreTurn DEF Holds
<1> QED
  BY <1>5, <1>6 DEF Queue!Put, PutXfer

LEMMA Invisible ==
    ASSUME UNCHANGED <<ring, item>>
    PROVE  UNCHANGED Queue!vars
BY DEF Queue!vars, Contents, ring

LEMMA StepRefines ==
    ASSUME SemIInv, [Next]_vars
    PROVE  [Queue!Next]_Queue!vars
<1>1. CASE UNCHANGED vars
  BY <1>1, Invisible DEF vars, locals
<1>2. ASSUME NEW t \in Threads, NEW function, NEW i \in Content, Call(t, function, i)
      PROVE  Queue!Next
  BY <1>2 DEF Call, ring, Contents, Content, Queue!Next, Queue!Offer
<1>3. ASSUME NEW t \in Threads, Return(t) PROVE Queue!Next
  BY <1>3 DEF Return, ring, Contents, Queue!Next, Queue!Offer
<1>4. ASSUME NEW t \in Threads, GetXfer(t) \/ PutXfer(t) PROVE Queue!Next
  BY <1>4, GetXferRefines, PutXferRefines DEF Queue!Next
<1>5. ASSUME NEW t \in Threads, Fail(t) PROVE UNCHANGED Queue!vars
  BY <1>5, Invisible DEF Fail, InitFails, SemWaitFails, MutexLockFails, MutexUnlockFails,
     SemPostFails, Fails, locals
<1>6. ASSUME NEW t \in Threads,
             \/ Once(t) \/ InitItems(t) \/ InitSlots(t) \/ InitDone(t) \/ SemWait(t)
             \/ MutexLock(t) \/ MutexUnlock(t) \/ SemPost(t)
      PROVE  UNCHANGED Queue!vars
  BY <1>6, Invisible DEF Once, InitItems, InitSlots, InitDone, SemWait, MutexLock,
     MutexUnlock, SemPost, locals
<1> QED
  BY <1>1, <1>2, <1>3, <1>4, <1>5, <1>6 DEF Next, Proceed, Content

\* buffersem.c implements the FIFO queue, like bufferconddone.c: what is put is
\* taken at most once and in its order, whatever call fails.
THEOREM SemRefinesQueue == Spec => RefinesQueue
<1>1. Init => Queue!Init
  BY DEF Init, Queue!Init, Contents
<1>2. SemIInv /\ [Next]_vars => [Queue!Next]_Queue!vars
  BY StepRefines
<1> QED
  BY <1>1, <1>2, SemInvariant, PTL DEF Spec, RefinesQueue, Queue!Spec

-----------------------------------------------------------------------------
(* Chains of processes and threads around a semaphore.                     *)

\* Where a member can be: in its critical section, about to enter it, and at the barrier.
Section == {"critical", "half", "post"}
Guarded == {"wait"} \cup Section
AtBarrier == {"creategate", "opengate", "started", "arrive", "gate", "through"}
Places == {"unborn", "start", "create", "open", "failed", "done"} \cup Guarded \cup AtBarrier

SemProgTypes ==
    /\ sprog \in SemPrograms
    /\ stale \in BOOLEAN /\ killed \in BOOLEAN /\ unlinks \in {0, 1}
    /\ stale => sprog.sem = "named"
    /\ values \in Seq(Nat)
    /\ names \in [lock : 0..Len(values), wait : 0..Len(values)]
    /\ handle \in [Members -> Nat] /\ gate \in [Members -> Nat]
    /\ seq \in [Members -> Places]
    /\ shared \in Nat /\ copy \in [Members -> Nat]
    /\ barriercount \in [Members -> Nat]

\* Which places belong to which program, and that a chain grows at its end.
Early == IF IsBarrier THEN {"start", "create", "open", "creategate", "opengate", "started"}
         ELSE {"start"}
InPlace ==
    /\ IsBarrier => \A m \in Members : seq[m] \notin Guarded
    /\ ~IsBarrier => \A m \in Members : seq[m] \notin AtBarrier
    /\ sprog.sem # "named" => /\ unlinks = 0 /\ names.lock = None /\ names.wait = None
                              /\ \A m \in Members : seq[m] \notin {"create", "open"}
    /\ sprog.sem = "shared" => \A m \in Members : handle[m] = 1
    /\ sprog.forks \/ IsBarrier =>
          \A m \in Members : seq[m] \in Early => \A k \in Members : k > m => seq[k] = "unborn"
    /\ IsBarrier /\ ~sprog.forks => \A m \in Members : seq[m] \in Early => m = 1

\* Without an unlink the name stays with the semaphore it stands for.
NameKept ==
    unlinks = 0 => \A m \in Members : /\ seq[m] = "open" => names.lock # None
                                      /\ seq[m] = "opengate" => names.wait # None
                                      /\ seq[m] = "failed" => killed

\* The one lock of all members, and that it is one.
Lock == IF sprog.sem = "shared" THEN 1 ELSE names.lock
OneLock ==
    sprog.sem \in {"named", "shared"} /\ unlinks = 0 /\ ~IsBarrier =>
        /\ Lock \in 0..Len(values)
        /\ Lock # None => values[Lock] <= 1
        /\ \A m \in Members : seq[m] \in Guarded => handle[m] = Lock /\ Lock # None
        /\ \A m \in Members : seq[m] \in Section =>
               values[Lock] = 0 /\ \A k \in Members : seq[k] \in Section => k = m

\* Every increment that was stored has been counted, and one under way will be.
Counted == {m \in Members : seq[m] \in {"post", "done"}}
AllCounted ==
    sprog = semsharedtest => /\ shared = Cardinality(Counted)
                             /\ \A m \in Members : seq[m] = "half" => copy[m] = shared

\* Nobody has posted the gate until somebody has counted everybody.
GateOpen == IF sprog.forks THEN NumMembers = 1 ELSE barriercount[1] >= NumMembers
BarrierShut ==
    IsBarrier /\ ~stale =>
        /\ \A m \in Members : /\ seq[m] \notin {"open", "opengate"}
                              /\ seq[m] \in {"start", "create", "creategate"} => m = 1
                              /\ seq[m] \in {"start", "create"} => names.lock = None
                              /\ seq[m] \in {"start", "create", "creategate"} => names.wait = None /\ gate[1] = None
                              /\ seq[m] \in {"started", "arrive", "gate", "through", "done"} =>
                                     gate[1] \in 1..Len(values)
                              /\ seq[m] \in {"arrive", "gate", "through", "done"} => gate[m] = gate[1]
        /\ ~GateOpen => /\ \A m \in Members : seq[m] \notin {"through", "done"}
                        /\ gate[1] \in 1..Len(values) => values[gate[1]] = 0
        /\ sprog.forks => \A m \in Members : seq[m] \notin {"gate", "through", "done"} => barriercount[m] = 0
        /\ ~sprog.forks => barriercount[1] = Cardinality(Arrived)

SemProgIInv == SemProgTypes /\ InPlace /\ NameKept /\ OneLock /\ AllCounted /\ BarrierShut

-----------------------------------------------------------------------------

\* What the record of each program of chapter14 says.
ProgAgrees ==
    /\ sprog.forks \in BOOLEAN
    /\ sprog.sem \in {"named", "private", "shared", "no"}
    /\ IsBarrier => sprog.sem = "named" /\ sprog # chainnamed
    /\ sprog.sem = "shared" => ~sprog.forks /\ sprog # chainnamed
    /\ sprog = semsharedtest => sprog.sem = "shared" /\ sprog.body = "increment"
    /\ ~sprog.forks /\ ~IsBarrier => sprog.sem \in {"shared", "no"}
    /\ sprog.sem = "named" /\ ~IsBarrier => sprog = chainnamed

LEMMA ProgramsAgree == SemProgTypes => ProgAgrees
<1> SUFFICES ASSUME SemProgTypes PROVE ProgAgrees
  OBVIOUS
<1>1. /\ chainnamed.sem = "named" /\ chainnamed.body = "print"
      /\ semsharedtest.sem = "shared" /\ semsharedtest.body = "increment"
  BY DEF chainnamed, semsharedtest
<1>2. /\ sprog.forks = TRUE \/ sprog.forks = FALSE
      /\ sprog.sem \in {"named", "private", "shared", "no"}
      /\ sprog.body = "barrier" => sprog.sem = "named"
      /\ sprog.sem = "shared" => sprog.forks = FALSE
      /\ sprog.forks = FALSE /\ sprog.body # "barrier" => sprog.sem \in {"shared", "no"}
      /\ sprog.sem = "named" /\ sprog.body # "barrier" => sprog = chainnamed
  <2>1. CASE sprog = chainnamed
    BY <2>1 DEF chainnamed
  <2>2. CASE sprog = chainsemaphoret
    BY <2>2 DEF chainsemaphoret
  <2>3. CASE sprog = chaincritical
    BY <2>3 DEF chaincritical
  <2>4. CASE sprog = maincritical
    BY <2>4 DEF maincritical
  <2>5. CASE sprog = maincriticalsem
    BY <2>5 DEF maincriticalsem
  <2>6. CASE sprog = semsharedtest
    BY <2>6 DEF semsharedtest
  <2>7. CASE sprog = sbarriertest
    BY <2>7 DEF sbarriertest
  <2>8. CASE sprog = sbarrierthreads
    BY <2>8 DEF sbarrierthreads
  <2> QED
    BY <2>1, <2>2, <2>3, <2>4, <2>5, <2>6, <2>7, <2>8, SemProgramsAssumption DEF SemProgTypes
<1> QED
  BY <1>1, <1>2 DEF ProgAgrees, IsBarrier

\* There is a first member, and there are NumMembers of them.
LEMMA MembersFinite ==
    /\ IsFiniteSet(Members) /\ Cardinality(Members) = NumMembers
    /\ 1 \in Members /\ Members \subseteq Nat
<1>1. 1 \in Int /\ NumMembers \in Int /\ 1 <= NumMembers
  BY NumMembersAssumption
<1>2. IsFiniteSet(1..NumMembers) /\ Cardinality(1..NumMembers) = IF 1 > NumMembers THEN 0 ELSE NumMembers - 1 + 1
  BY <1>1, FS_Interval
<1> QED
  BY <1>1, <1>2 DEF Members

\* Member m is at its place p, and nobody else has moved.
MovedTo(m, p) ==
    /\ seq' \in [Members -> Places] /\ seq'[m] = p
    /\ \A k \in Members \ {m} : seq'[k] = seq[k]

\* What the assignments to seq in the actions mean.
LEMMA Moving ==
    ASSUME SemProgTypes, NEW m \in Members, NEW p \in Places, seq' = [seq EXCEPT ![m] = p]
    PROVE  MovedTo(m, p)
BY DEF SemProgTypes, MovedTo

\* One value of the sequence is changed, if there is such a place in it.
LEMMA ValueSet ==
    ASSUME NEW s \in Seq(Nat), NEW h \in Nat, NEW v, h \in 1..Len(s) => v \in Nat
    PROVE  /\ [s EXCEPT ![h] = v] \in Seq(Nat) /\ Len([s EXCEPT ![h] = v]) = Len(s)
           /\ \A i \in 1..Len(s) : [s EXCEPT ![h] = v][i] = IF i = h THEN v ELSE s[i]
<1>1. CASE h \in 1..Len(s)
  BY <1>1, ExceptSeq
<1>2. CASE h \notin 1..Len(s)
  <2>1. DOMAIN s = 1..Len(s) /\ s = [i \in DOMAIN s |-> s[i]]
    OBVIOUS
  <2>2. [s EXCEPT ![h] = v] = s
    BY <1>2, <2>1, Zenon
  <2> QED
    BY <1>2, <2>2
<1> QED
  BY <1>1, <1>2

\* A new semaphore is the last one.
LEMMA Appended ==
    ASSUME NEW s \in Seq(Nat), NEW v \in Nat
    PROVE  /\ Append(s, v) \in Seq(Nat) /\ Len(Append(s, v)) = Len(s) + 1 /\ Len(s) \in Nat
           /\ Append(s, v)[Len(s) + 1] = v /\ \A i \in 1..Len(s) : Append(s, v)[i] = s[i]
OBVIOUS

\* Setting one of the two names leaves the other one alone.
LEMMA Named ==
    ASSUME NEW L \in Nat, NEW n \in [lock : 0..L, wait : 0..L], NEW v \in 0..(L + 1), NEW name \in {"lock", "wait"}
    PROVE  /\ [n EXCEPT ![name] = v] \in [lock : 0..(L + 1), wait : 0..(L + 1)]
           /\ [n EXCEPT ![name] = v].lock = IF name = "lock" THEN v ELSE n.lock
           /\ [n EXCEPT ![name] = v].wait = IF name = "wait" THEN v ELSE n.wait
<1>1. n = [lock |-> n.lock, wait |-> n.wait] /\ n.lock \in 0..L /\ n.wait \in 0..L
  OBVIOUS
<1>2. DOMAIN n = {"lock", "wait"}
  BY <1>1
<1>3. [n EXCEPT ![name] = v] = [i \in {"lock", "wait"} |-> IF i = name THEN v ELSE n[i]]
  BY <1>2, Zenon
<1>4. [n EXCEPT ![name] = v] = [lock |-> IF name = "lock" THEN v ELSE n.lock, wait |-> IF name = "wait" THEN v ELSE n.wait]
  BY <1>3
<1> QED
  BY <1>1, <1>4

\* A member may go to any place of its program, but back to its start.
LEMMA MoveInPlace ==
    ASSUME SemProgTypes, InPlace, UNCHANGED <<sprog, unlinks>>,
           NEW m \in Members, NEW p \in Places, MovedTo(m, p), seq[m] # "unborn",
           IsBarrier => p \notin Guarded, ~IsBarrier => p \notin AtBarrier,
           sprog.sem # "named" => p \notin {"create", "open"} /\ UNCHANGED <<names, handle>>,
           p \in Early => seq[m] \in Early
    PROVE  InPlace'
<1>1. Early' = Early /\ IsBarrier' = IsBarrier
  BY DEF Early, IsBarrier
<1>2. ASSUME NEW k \in Members, seq'[k] \in Early PROVE seq[k] \in Early
  BY <1>2 DEF MovedTo
<1>3. ASSUME NEW k \in Members, seq[k] = "unborn" PROVE seq'[k] = "unborn"
  BY <1>3 DEF MovedTo
<1>4. /\ IsBarrier => \A k \in Members : seq'[k] \notin Guarded
      /\ ~IsBarrier => \A k \in Members : seq'[k] \notin AtBarrier
  BY DEF InPlace, MovedTo
<1>5. /\ sprog.sem # "named" => /\ unlinks' = 0 /\ names'.lock = None /\ names'.wait = None
                                /\ \A k \in Members : seq'[k] \notin {"create", "open"}
      /\ sprog.sem = "shared" => \A k \in Members : handle'[k] = 1
  BY DEF InPlace, MovedTo
<1>6. sprog.forks \/ IsBarrier =>
          \A k \in Members : seq'[k] \in Early => \A j \in Members : j > k => seq'[j] = "unborn"
  BY <1>2, <1>3 DEF InPlace
<1>7. IsBarrier /\ ~sprog.forks => \A k \in Members : seq'[k] \in Early => k = 1
  BY <1>2 DEF InPlace
<1> QED
  BY <1>1, <1>4, <1>5, <1>6, <1>7 DEF InPlace

\* A step that neither stores nor loads a value keeps the count.
LEMMA CountedSame ==
    ASSUME NEW m \in Members, NEW p, MovedTo(m, p), UNCHANGED <<sprog, shared, copy>>,
           AllCounted, seq[m] \in {"post", "done"} <=> p \in {"post", "done"},
           p # "half"
    PROVE  AllCounted'
<1>1. Counted' = Counted
  BY DEF Counted, MovedTo
<1> QED
  BY <1>1 DEF AllCounted, MovedTo

-----------------------------------------------------------------------------
(* The members of a critical section.                                      *)

\* Starting threads, and a kill.
LEMMA EnterKeeps ==
    ASSUME SemProgIInv, NEW m \in Members, ~IsBarrier,
           \/ ~sprog.forks /\ MemberMoves(m, "start", Entry) /\ UNCHANGED killed
           \/ sprog = chainnamed /\ MemberMoves(m, "half", "failed") /\ killed' = TRUE,
           UNCHANGED <<sprog, stale, unlinks, names, values, handle, gate, shared, copy, barriercount>>
    PROVE  SemProgIInv'
<1> USE DEF SemProgIInv
<1> DEFINE p == seq'[m]
<1>0. ProgAgrees
  BY ProgramsAgree
<1>1. p \in {"wait", "critical", "failed"} /\ MovedTo(m, p)
  <2>1. Entry \in Places /\ (~sprog.forks => Entry \in {"wait", "critical"})
    BY <1>0 DEF Entry, Places, Guarded, Section, ProgAgrees
  <2>2. "failed" \in Places /\ seq \in [Members -> Places]
    BY DEF Places, SemProgTypes
  <2> QED
    BY <2>1, <2>2 DEF MemberMoves, MovedTo
<1>2. /\ p = "wait" => sprog.sem = "shared" /\ seq[m] = "start"
      /\ p = "critical" => sprog.sem = "no" /\ seq[m] = "start"
      /\ p = "failed" => seq[m] = "half" /\ killed'
  <2>1. ~sprog.forks => Entry = IF sprog.sem = "no" THEN "critical" ELSE "wait"
    BY <1>0 DEF Entry, ProgAgrees
  <2> QED
    BY <1>0, <2>1 DEF MemberMoves, SemProgTypes, ProgAgrees
<1> HIDE DEF p
<1>3. SemProgTypes'
  <2>1. killed' \in BOOLEAN
    BY DEF SemProgTypes
  <2> QED
    BY <1>1, <2>1 DEF SemProgTypes, MovedTo
<1>4. InPlace'
  <2>1. p \in Places
    BY <1>1 DEF Places, Guarded, Section
  <2> QED
    BY <1>1, <1>2, <2>1, MoveInPlace DEF Early, AtBarrier, Guarded, Section
<1>5. NameKept'
  BY <1>1, <1>2 DEF NameKept, MovedTo
<1>6. OneLock'
  <2>1. IsBarrier' = IsBarrier /\ Lock' = Lock
    BY DEF IsBarrier, Lock
  <2>2. sprog.sem = "shared" => handle[m] = 1
    BY DEF InPlace
  <2> QED
    <3> SUFFICES ASSUME sprog.sem \in {"named", "shared"}, unlinks = 0
                 PROVE  OneLock'
      BY DEF OneLock
    <3>1. /\ Lock' \in 0..Len(values') /\ (Lock' # None => values'[Lock'] <= 1)
      BY <2>1 DEF OneLock
    <3>2. \A k \in Members : seq'[k] \in Section => seq[k] \in Section
      BY <1>1, <1>2 DEF MovedTo, Section
    <3>3. \A k \in Members : seq'[k] \in Guarded => handle[k] = Lock /\ Lock # None
      BY <1>1, <1>2, <2>2 DEF MovedTo, Section, Guarded, OneLock, Lock, None
    <3> QED
      BY <2>1, <3>1, <3>2, <3>3 DEF OneLock
<1>7. AllCounted'
  BY <1>0, <1>1, <1>2, CountedSame DEF ProgAgrees
<1>8. BarrierShut'
  BY DEF BarrierShut, IsBarrier
<1> QED
  BY <1>3, <1>4, <1>5, <1>6, <1>7, <1>8

LEMMA WaitLockKeeps == \A m \in Members : SemProgIInv /\ WaitLock(m) => SemProgIInv'
<1> SUFFICES ASSUME NEW m \in Members, SemProgIInv, WaitLock(m) PROVE SemProgIInv'
  OBVIOUS
<1> USE DEF SemProgIInv, WaitLock
<1>1. /\ seq[m] = "wait" /\ MovedTo(m, "critical") /\ values[handle[m]] > 0
      /\ UNCHANGED <<sprog, stale, unlinks, killed, names, handle, gate, shared, copy, barriercount>>
  BY Moving DEF MemberMoves, Places, Guarded, Section
<1>2. /\ values' \in Seq(Nat) /\ Len(values') = Len(values)
      /\ \A i \in 1..Len(values) : values'[i] = IF i = handle[m] THEN values[i] - 1 ELSE values[i]
  <2>1. handle[m] \in 1..Len(values) => values[handle[m]] - 1 \in Nat
    BY <1>1 DEF SemProgTypes
  <2>2. handle[m] \in Nat /\ values \in Seq(Nat)
    BY DEF SemProgTypes
  <2>3. values' = [values EXCEPT ![handle[m]] = values[handle[m]] - 1]
    OBVIOUS
  <2> QED
    BY <2>1, <2>2, <2>3, ValueSet
<1>3. SemProgTypes' /\ ~IsBarrier
  BY <1>1, <1>2 DEF SemProgTypes, MovedTo, InPlace, Guarded
<1>4. InPlace'
  BY <1>1, <1>3, MoveInPlace DEF Early, AtBarrier, Places, Guarded, Section
<1>5. NameKept'
  BY <1>1 DEF NameKept, MovedTo
<1>6. OneLock'
  <2>1. IsBarrier' = IsBarrier /\ Lock' = Lock
    BY <1>1 DEF IsBarrier, Lock
  <2> SUFFICES ASSUME sprog.sem \in {"named", "shared"}, unlinks = 0
               PROVE  OneLock'
    BY <1>1 DEF OneLock
  <2>2. Lock \in 1..Len(values) /\ handle[m] = Lock /\ values[Lock] = 1
    <3>1. Lock \in 0..Len(values) /\ handle[m] = Lock /\ Lock # None /\ values[Lock] <= 1
      BY <1>1, <1>3 DEF OneLock, Guarded
    <3> QED
      BY <1>1, <3>1 DEF SemProgTypes, None
  <2>3. values'[Lock] = 0 /\ \A k \in Members : seq[k] \notin Section
    BY <1>2, <1>3, <2>2 DEF OneLock
  <2>4. \A k \in Members : /\ seq'[k] \in Section => k = m
                           /\ seq'[k] \in Guarded => seq[k] \in Guarded
    BY <1>1, <2>3 DEF MovedTo, Guarded
  <2> QED
    BY <1>1, <1>2, <1>3, <2>1, <2>2, <2>3, <2>4 DEF OneLock
<1>7. AllCounted'
  BY <1>1, CountedSame
<1>8. BarrierShut'
  BY <1>1, <1>3 DEF BarrierShut, IsBarrier
<1> QED
  BY <1>3, <1>4, <1>5, <1>6, <1>7, <1>8

LEMMA InCriticalKeeps == \A m \in Members : SemProgIInv /\ InCritical(m) => SemProgIInv'
<1> SUFFICES ASSUME NEW m \in Members, SemProgIInv, InCritical(m) PROVE SemProgIInv'
  OBVIOUS
<1> USE DEF SemProgIInv, InCritical
<1> DEFINE p == seq'[m]
<1>0. ProgAgrees /\ seq[m] \in Section /\ ~IsBarrier
  BY ProgramsAgree DEF MemberMoves, Section, InPlace, Guarded, AtBarrier, IsBarrier
<1>1. /\ MovedTo(m, p) /\ p \in Places
      /\ UNCHANGED <<sprog, stale, unlinks, killed, names, values, handle, gate, barriercount>>
      /\ \/ /\ seq[m] = "critical" /\ p = "half"
            /\ copy' = [copy EXCEPT ![m] = shared] /\ shared' = shared
         \/ /\ seq[m] = "half" /\ p = (IF sprog.sem = "no" THEN "done" ELSE "post")
            /\ shared' = (IF sprog.body = "increment" THEN copy[m] + 1 ELSE shared) /\ copy' = copy
  BY DEF MemberMoves, Places, Guarded, Section, SemProgTypes, MovedTo
<1> HIDE DEF p
<1>2. SemProgTypes'
  BY <1>1 DEF SemProgTypes, MovedTo
<1>3. InPlace'
  BY <1>0, <1>1, MoveInPlace DEF Early, AtBarrier, Guarded, Section
<1>4. NameKept'
  BY <1>1 DEF NameKept, MovedTo
<1>5. OneLock'
  <2>1. IsBarrier' = IsBarrier /\ Lock' = Lock
    BY <1>1 DEF IsBarrier, Lock
  <2>2. \A k \in Members : /\ seq'[k] \in Section => seq[k] \in Section
                           /\ seq'[k] \in Guarded => seq[k] \in Guarded
    BY <1>0, <1>1 DEF MovedTo, Guarded, Section
  <2> QED
    BY <1>1, <2>1, <2>2 DEF OneLock
<1>6. AllCounted'
  <2> SUFFICES ASSUME sprog = semsharedtest PROVE AllCounted'
    BY <1>1 DEF AllCounted
  <2>1. sprog.sem = "shared" /\ sprog.body = "increment" /\ unlinks = 0
    BY <1>0 DEF ProgAgrees, InPlace
  <2>2. \A k \in Members : seq[k] = "half" => k = m
    BY <1>0, <2>1 DEF OneLock, Section
  <2>3. CASE seq[m] = "critical"
    <3>1. Counted' = Counted
      BY <1>1, <2>3 DEF Counted, MovedTo
    <3>2. \A k \in Members : seq'[k] = "half" => copy'[k] = shared'
      BY <1>1, <2>2, <2>3 DEF MovedTo, SemProgTypes
    <3> QED
      BY <1>1, <2>3, <3>1, <3>2 DEF AllCounted
  <2>4. CASE seq[m] = "half"
    <3>1. Counted' = Counted \cup {m} /\ m \notin Counted /\ Counted \in SUBSET Members
      BY <1>1, <2>1, <2>4 DEF Counted, MovedTo
    <3>2. Cardinality(Counted') = Cardinality(Counted) + 1
      BY <3>1, MembersFinite, FS_Subset, FS_AddElement
    <3>3. shared' = shared + 1
      BY <1>1, <2>1, <2>4 DEF AllCounted
    <3>4. \A k \in Members : seq'[k] # "half"
      BY <1>1, <2>1, <2>2, <2>4 DEF MovedTo
    <3> QED
      BY <3>2, <3>3, <3>4 DEF AllCounted
  <2> QED
    BY <1>1, <2>3, <2>4
<1>7. BarrierShut'
  BY <1>0, <1>1 DEF BarrierShut, IsBarrier
<1> QED
  BY <1>2, <1>3, <1>4, <1>5, <1>6, <1>7

LEMMA PostLockKeeps == \A m \in Members : SemProgIInv /\ PostLock(m) => SemProgIInv'
<1> SUFFICES ASSUME NEW m \in Members, SemProgIInv, PostLock(m) PROVE SemProgIInv'
  OBVIOUS
<1> USE DEF SemProgIInv, PostLock
<1>1. /\ seq[m] = "post" /\ MovedTo(m, "done")
      /\ UNCHANGED <<sprog, stale, unlinks, killed, names, handle, gate, shared, copy, barriercount>>
  BY Moving DEF MemberMoves, Places
<1>2. /\ values' \in Seq(Nat) /\ Len(values') = Len(values)
      /\ \A i \in 1..Len(values) : values'[i] = IF i = handle[m] THEN values[i] + 1 ELSE values[i]
  <2>1. handle[m] \in 1..Len(values) => values[handle[m]] + 1 \in Nat
    BY DEF SemProgTypes
  <2>2. handle[m] \in Nat /\ values \in Seq(Nat)
    BY DEF SemProgTypes
  <2>3. values' = [values EXCEPT ![handle[m]] = values[handle[m]] + 1]
    OBVIOUS
  <2> QED
    BY <2>1, <2>2, <2>3, ValueSet
<1>3. SemProgTypes' /\ ~IsBarrier
  BY <1>1, <1>2 DEF SemProgTypes, MovedTo, InPlace, Guarded, Section, Places
<1>4. InPlace'
  BY <1>1, <1>3, MoveInPlace DEF Early, AtBarrier, Places, Guarded, Section
<1>5. NameKept'
  BY <1>1 DEF NameKept, MovedTo
<1>6. OneLock'
  <2>1. IsBarrier' = IsBarrier /\ Lock' = Lock
    BY <1>1 DEF IsBarrier, Lock
  <2> SUFFICES ASSUME sprog.sem \in {"named", "shared"}, unlinks = 0
               PROVE  OneLock'
    BY <1>1 DEF OneLock
  <2>2. /\ Lock \in 1..Len(values) /\ handle[m] = Lock /\ values[Lock] = 0
        /\ \A k \in Members : seq[k] \in Section => k = m
    <3>1. /\ Lock \in 0..Len(values) /\ handle[m] = Lock /\ Lock # None /\ values[Lock] = 0
          /\ \A k \in Members : seq[k] \in Section => k = m
      BY <1>1, <1>3 DEF OneLock, Guarded, Section
    <3> QED
      BY <3>1 DEF None
  <2>3. values'[Lock] = 1
    BY <1>2, <2>2
  <2>4. \A k \in Members : /\ seq'[k] \notin Section
                           /\ seq'[k] \in Guarded => seq[k] \in Guarded
    BY <1>1, <2>2 DEF MovedTo, Guarded, Section
  <2> QED
    BY <1>1, <1>2, <1>3, <2>1, <2>2, <2>3, <2>4 DEF OneLock
<1>7. AllCounted'
  BY <1>1, CountedSame
<1>8. BarrierShut'
  BY <1>1, <1>3 DEF BarrierShut, IsBarrier
<1> QED
  BY <1>3, <1>4, <1>5, <1>6, <1>7, <1>8

-----------------------------------------------------------------------------
(* Names.                                                                  *)

LEMMA GetLockKeeps == \A m \in Members : SemProgIInv /\ GetLock(m) => SemProgIInv'
<1> SUFFICES ASSUME NEW m \in Members, SemProgIInv, GetLock(m) PROVE SemProgIInv'
  OBVIOUS
<1> USE DEF SemProgIInv
<1> DEFINE p == seq'[m]
<1> DEFINE next == IF IsBarrier THEN "creategate" ELSE "wait"
<1>0. ProgAgrees /\ seq[m] \in {"create", "open"} /\ sprog.sem = "named"
  BY ProgramsAgree DEF GetLock, Opens, Reopens, MemberMoves, InPlace, ProgAgrees
<1>1. /\ UNCHANGED <<sprog, stale, unlinks, killed, gate, shared, copy, barriercount>>
      /\ \/ /\ seq[m] = "create" /\ names.lock = None /\ seq' = [seq EXCEPT ![m] = next]
            /\ values' = Append(values, 1) /\ names' = [names EXCEPT !["lock"] = Len(values) + 1]
            /\ handle' = [handle EXCEPT ![m] = Len(values) + 1]
         \/ /\ seq[m] = "create" /\ names.lock # None /\ seq' = [seq EXCEPT ![m] = "open"]
            /\ UNCHANGED <<values, names, handle>>
         \/ /\ seq[m] = "open" /\ seq' = [seq EXCEPT ![m] = IF names.lock = None THEN "failed" ELSE next]
            /\ handle' = [handle EXCEPT ![m] = names.lock] /\ UNCHANGED <<values, names>>
  BY DEF GetLock, Opens, Reopens, MemberMoves
<1>2. /\ MovedTo(m, p) /\ p \in Places
      /\ \/ /\ seq[m] = "create" /\ names.lock = None /\ p = next
            /\ values' = Append(values, 1) /\ names' = [names EXCEPT !["lock"] = Len(values) + 1]
            /\ handle' = [handle EXCEPT ![m] = Len(values) + 1]
         \/ /\ seq[m] = "create" /\ names.lock # None /\ p = "open"
            /\ UNCHANGED <<values, names, handle>>
         \/ /\ seq[m] = "open" /\ p = IF names.lock = None THEN "failed" ELSE next
            /\ handle' = [handle EXCEPT ![m] = names.lock] /\ UNCHANGED <<values, names>>
  <2>1. seq \in [Members -> Places] /\ next \in Places /\ "open" \in Places /\ "failed" \in Places
    BY DEF SemProgTypes, Places, Guarded, AtBarrier
  <2> HIDE DEF next
  <2> QED
    BY <1>1, <2>1 DEF MovedTo
<1> HIDE DEF p
<1>3. SemProgTypes'
  <2>0. /\ values \in Seq(Nat) /\ Len(values) \in Nat /\ handle \in [Members -> Nat]
        /\ names \in [lock : 0..Len(values), wait : 0..Len(values)]
    BY DEF SemProgTypes
  <2>1. /\ values' \in Seq(Nat) /\ Len(values') \in Nat /\ Len(values') >= Len(values)
        /\ names' \in [lock : 0..Len(values'), wait : 0..Len(values')] /\ handle' \in [Members -> Nat]
    <3>1. CASE /\ values' = Append(values, 1) /\ names' = [names EXCEPT !["lock"] = Len(values) + 1]
               /\ handle' = [handle EXCEPT ![m] = Len(values) + 1]
      <4>1. values' \in Seq(Nat) /\ Len(values') = Len(values) + 1
        <5>1. 1 \in Nat
          OBVIOUS
        <5> QED
          BY <2>0, <3>1, <5>1, Appended
      <4>2. Len(values) + 1 \in 0..(Len(values) + 1) /\ Len(values) + 1 \in Nat
        BY <2>0
      <4>3. names' \in [lock : 0..(Len(values) + 1), wait : 0..(Len(values) + 1)]
        BY <2>0, <3>1, <4>2, Named
      <4>4. handle' \in [Members -> Nat]
        BY <2>0, <3>1, <4>2
      <4> QED
        BY <2>0, <4>1, <4>2, <4>3, <4>4
    <3>2. CASE values' = values /\ names' = names /\ (handle' = handle \/ handle' = [handle EXCEPT ![m] = names.lock])
      BY <2>0, <3>2
    <3> QED
      BY <1>2, <3>1, <3>2
  <2> QED
    BY <1>1, <1>2, <2>1 DEF SemProgTypes, MovedTo
<1>4. InPlace'
  <2>1. p \in {"open", "failed", next}
    BY <1>2
  <2> QED
    BY <1>0, <1>1, <1>2, <2>1, MoveInPlace DEF Early, AtBarrier, Guarded, Section
<1>5. NameKept'
  <2> SUFFICES ASSUME unlinks = 0 PROVE NameKept'
    BY <1>1 DEF NameKept
  <2>1. names'.wait = names.wait /\ (names.lock # None => names'.lock # None)
    BY <1>2 DEF SemProgTypes, None
  <2>2. /\ p = "open" => names.lock # None
        /\ p # "opengate" /\ p # "failed"
    BY <1>2 DEF NameKept
  <2> QED
    BY <1>1, <1>2, <2>1, <2>2 DEF NameKept, MovedTo
<1>6. OneLock'
  <2> SUFFICES ASSUME unlinks = 0, ~IsBarrier PROVE OneLock'
    BY <1>1 DEF OneLock, IsBarrier
  <2>1. Lock = names.lock /\ Lock' = names'.lock /\ Lock \in 0..Len(values)
    BY <1>0, <1>1 DEF Lock, SemProgTypes
  <2>2. p \notin Section /\ p \in {"wait", "open"}
    BY <1>2 DEF NameKept, Section
  <2>3. CASE seq[m] = "create" /\ names.lock = None
    <3>1. \A k \in Members : seq[k] \notin Guarded /\ seq[k] \notin Section
      BY <1>0, <2>1, <2>3 DEF OneLock, Guarded
    <3>2. values'[Lock'] = 1 /\ Lock' # None /\ handle'[m] = Lock'
      <4>1. /\ values' = Append(values, 1) /\ names' = [names EXCEPT !["lock"] = Len(values) + 1]
            /\ handle' = [handle EXCEPT ![m] = Len(values) + 1]
        BY <1>2, <2>3
      <4>2. names'.lock = Len(values) + 1 /\ handle'[m] = Len(values) + 1
        BY <4>1 DEF SemProgTypes
      <4> QED
        BY <2>1, <4>1, <4>2, Appended DEF SemProgTypes, None
    <3> QED
      <4>1. \A k \in Members : seq'[k] \notin Section /\ (seq'[k] \in Guarded => k = m)
        BY <1>2, <2>2, <3>1 DEF MovedTo
      <4>2. Lock' \in 0..Len(values')
        BY <1>3, <2>1 DEF SemProgTypes
      <4> QED
        BY <3>2, <4>1, <4>2 DEF OneLock
  <2>4. CASE ~(seq[m] = "create" /\ names.lock = None)
    <3>1. values' = values /\ Lock' = Lock
      BY <1>2, <2>1, <2>4
    <3>2. p \in Guarded => handle'[m] = Lock /\ Lock # None
      BY <1>2, <2>1, <2>4 DEF Guarded, Section, SemProgTypes
    <3>3. \A k \in Members \ {m} : seq'[k] = seq[k] /\ handle'[k] = handle[k]
      BY <1>2, <2>4 DEF MovedTo, SemProgTypes
    <3> QED
      BY <1>0, <1>2, <2>1, <2>2, <3>1, <3>2, <3>3 DEF OneLock, MovedTo
  <2> QED
    BY <2>3, <2>4
<1>7. AllCounted'
  BY <1>0, <1>1 DEF AllCounted, ProgAgrees
<1>8. BarrierShut'
  <2> SUFFICES ASSUME IsBarrier, ~stale PROVE BarrierShut'
    BY <1>1 DEF BarrierShut, IsBarrier
  <2>1. /\ seq[m] = "create" /\ m = 1 /\ names.lock = None /\ names.wait = None /\ gate[1] = None
        /\ \A k \in Members \ {m} : seq[k] = "unborn" /\ seq'[k] = "unborn"
    <3>1. seq[m] = "create" /\ m = 1 /\ names.lock = None /\ names.wait = None /\ gate[1] = None
      BY <1>0 DEF BarrierShut
    <3>2. \A k \in Members \ {m} : k > m
      BY <3>1, NumMembersAssumption DEF Members
    <3> QED
      BY <1>2, <3>1, <3>2 DEF InPlace, Early, MovedTo
  <2>2. p = "creategate" /\ names'.wait = None
    BY <1>2, <2>1 DEF SemProgTypes
  <2>3. Arrived' = Arrived
    BY <1>2, <2>1, <2>2 DEF Arrived, MovedTo
  <2>4. GateOpen' = GateOpen /\ ~(gate'[1] \in 1..Len(values'))
    BY <1>1, <2>1 DEF GateOpen, None
  <2>5. \A k \in Members : /\ seq'[k] \in {"creategate", "unborn"}
                           /\ seq'[k] = "creategate" => k = 1
    BY <1>2, <2>1, <2>2 DEF MovedTo
  <2>6. sprog'.forks => \A k \in Members : barriercount'[k] = 0
    <3>1. \A k \in Members : seq[k] \in {"create", "unborn"}
      BY <2>1
    <3> QED
      BY <1>1, <3>1 DEF BarrierShut
  <2>7. ~sprog'.forks => barriercount'[1] = Cardinality(Arrived')
    BY <1>1, <2>3 DEF BarrierShut
  <2> QED
    BY <1>1, <2>1, <2>2, <2>4, <2>5, <2>6, <2>7 DEF BarrierShut
<1> QED
  BY <1>3, <1>4, <1>5, <1>6, <1>7, <1>8

LEMMA UnlinkKeeps == SemProgIInv /\ Unlink => SemProgIInv'
<1> SUFFICES ASSUME SemProgIInv, Unlink PROVE SemProgIInv'
  OBVIOUS
<1> USE DEF SemProgIInv
<1>1. /\ unlinks = 0 /\ unlinks' = 1
      /\ UNCHANGED <<sprog, stale, killed, values, handle, gate, seq, shared, copy, barriercount>>
  BY DEF Unlink
<1>2. PICK n \in DOMAIN names : names[n] # None /\ names' = [names EXCEPT ![n] = None]
  BY DEF Unlink
<1>3. /\ names' \in [lock : 0..Len(values), wait : 0..Len(values)]
      /\ names.lock = None => names'.lock = None
      /\ names.wait = None => names'.wait = None
      /\ names.lock # None \/ names.wait # None
  <2>1. names \in [lock : 0..Len(values), wait : 0..Len(values)] /\ DOMAIN names = {"lock", "wait"}
    BY DEF SemProgTypes
  <2>2. Len(values) \in Nat /\ None \in 0..Len(values) /\ None \in 0..(Len(values) + 1)
    BY DEF SemProgTypes, None
  <2>3. n = "lock" \/ n = "wait"
    BY <2>1
  <2> QED
    BY <1>2, <2>1, <2>2, <2>3, Named DEF None
<1>4. SemProgTypes'
  BY <1>1, <1>3 DEF SemProgTypes
<1>5. InPlace'
  BY <1>1, <1>3 DEF InPlace, IsBarrier, Early
<1>6. NameKept' /\ OneLock'
  BY <1>1 DEF NameKept, OneLock
<1>7. AllCounted'
  BY <1>1 DEF AllCounted, Counted
<1>8. BarrierShut'
  <2>1. IsBarrier' = IsBarrier /\ GateOpen' = GateOpen /\ Arrived' = Arrived
    BY <1>1 DEF IsBarrier, GateOpen, Arrived
  <2> QED
    BY <1>1, <1>3, <2>1 DEF BarrierShut
<1> QED
  BY <1>4, <1>5, <1>6, <1>7, <1>8

-----------------------------------------------------------------------------
(* The barrier.                                                            *)

\* There is no critical section in the programs with a barrier.
LEMMA NoSection ==
    ASSUME SemProgTypes, IsBarrier, UNCHANGED sprog
    PROVE  OneLock' /\ AllCounted'
<1>1. IsBarrier' /\ sprog' # semsharedtest
  BY ProgramsAgree DEF ProgAgrees, IsBarrier
<1> QED
  BY <1>1 DEF OneLock, AllCounted

LEMMA ForkMemberKeeps ==
    \A m \in Members : SemProgIInv /\ (sprog.forks \/ IsBarrier) /\ ForkMember(m) => SemProgIInv'
<1> SUFFICES ASSUME NEW m \in Members, SemProgIInv, sprog.forks \/ IsBarrier, ForkMember(m)
             PROVE  SemProgIInv'
  OBVIOUS
<1> USE DEF SemProgIInv
<1> DEFINE on == IF IsBarrier THEN "arrive" ELSE Entry
<1>0. ProgAgrees
  BY ProgramsAgree
<1>1. /\ seq[m] = (IF IsBarrier THEN "started" ELSE "start")
      /\ seq' = [k \in Members |-> IF k = m \/ (IsBarrier /\ ~sprog.forks) THEN on
                                   ELSE IF k = m + 1 /\ sprog.forks THEN seq[m] ELSE seq[k]]
      /\ handle' = [k \in Members |-> IF IsBarrier THEN handle[1] ELSE handle[k]]
      /\ gate' = [k \in Members |-> gate[1]]
      /\ UNCHANGED <<sprog, stale, unlinks, killed, names, values, shared, copy, barriercount>>
  BY DEF ForkMember
<1>2. /\ on \in {"arrive", "create", "wait", "critical"}
      /\ IsBarrier <=> on = "arrive"
      /\ on = "create" => sprog.sem = "named"
      /\ sprog.sem = "named" /\ ~IsBarrier => on = "create"
  BY <1>0 DEF Entry, ProgAgrees
<1> HIDE DEF on
<1>3. seq[m] \in Early /\ (\A k \in Members : k > m => seq[k] = "unborn")
  BY <1>1 DEF InPlace, Early
<1>4. \A k \in Members : /\ seq'[k] = on \/ seq'[k] = seq[k] \/ (k = m + 1 /\ seq'[k] = seq[m] /\ seq[k] = "unborn")
                         /\ IsBarrier /\ ~sprog.forks => seq'[k] = on
                         /\ k # m + 1 /\ sprog.forks => seq'[k] = (IF k = m THEN on ELSE seq[k])
                         /\ k = m => seq'[k] = on
  BY <1>1, <1>3, MembersFinite
<1>5. SemProgTypes'
  <2>1. on \in Places
    BY <1>2 DEF Places, Guarded, Section, AtBarrier
  <2>2. seq' \in [Members -> Places] /\ gate' \in [Members -> Nat] /\ handle' \in [Members -> Nat]
    BY <1>1, <2>1, MembersFinite DEF SemProgTypes
  <2> QED
    BY <1>1, <2>2 DEF SemProgTypes
<1>6. InPlace'
  <2>1. Early' = Early /\ IsBarrier' = IsBarrier /\ on \notin Early
    BY <1>1, <1>2 DEF Early, IsBarrier
  <2>2. /\ IsBarrier => \A k \in Members : seq'[k] \notin Guarded
        /\ ~IsBarrier => \A k \in Members : seq'[k] \notin AtBarrier
    BY <1>1, <1>2, <1>4 DEF InPlace, Guarded, Section, AtBarrier
  <2>3. /\ sprog.sem # "named" => /\ unlinks' = 0 /\ names'.lock = None /\ names'.wait = None
                                  /\ \A k \in Members : seq'[k] \notin {"create", "open"}
        /\ sprog.sem # "shared"
    BY <1>0, <1>1, <1>2, <1>4 DEF InPlace, ProgAgrees
  <2>4. ASSUME NEW k \in Members, seq'[k] \in Early, NEW j \in Members, j > k
        PROVE  seq'[j] = "unborn"
    <3>1. sprog.forks /\ k # m
      BY <1>0, <1>4, <2>1, <2>4 DEF ProgAgrees
    <3>2. k >= m + 1
      <4>1. CASE k = m + 1
        BY <4>1
      <4>2. CASE k # m + 1 /\ k < m
        <5>1. seq[k] \in Early
          BY <1>4, <2>4, <3>1, <4>2
        <5>2. seq[m] = "unborn"
          BY <4>2, <5>1 DEF InPlace
        <5> QED
          BY <1>1, <5>2
      <4> QED
        BY <3>1, <4>1, <4>2, MembersFinite
    <3>3. j > m /\ j # m /\ j # m + 1
      BY <2>4, <3>2, MembersFinite
    <3> QED
      BY <1>3, <1>4, <3>1, <3>3
  <2>5. IsBarrier /\ ~sprog.forks => \A k \in Members : seq'[k] \notin Early
    BY <1>4, <2>1
  <2> QED
    BY <1>1, <2>1, <2>2, <2>3, <2>4, <2>5 DEF InPlace
<1>7. NameKept'
  BY <1>1, <1>2, <1>4 DEF NameKept
<1>8. OneLock'
  <2> SUFFICES ASSUME sprog.sem \in {"named", "shared"}, unlinks = 0, ~IsBarrier PROVE OneLock'
    BY <1>1 DEF OneLock, IsBarrier
  <2>1. on = "create" /\ handle' = handle /\ Lock' = Lock
    BY <1>0, <1>1, <1>2 DEF ProgAgrees, Lock, SemProgTypes
  <2>2. \A k \in Members : /\ seq'[k] \in Section => seq[k] \in Section
                           /\ seq'[k] \in Guarded => seq[k] \in Guarded
    BY <1>1, <1>4, <2>1 DEF Section, Guarded
  <2> QED
    BY <1>1, <2>1, <2>2 DEF OneLock
<1>9. AllCounted'
  BY <1>0, <1>1 DEF AllCounted, ProgAgrees
<1>10. BarrierShut'
  <2> SUFFICES ASSUME IsBarrier, ~stale PROVE BarrierShut'
    BY <1>1 DEF BarrierShut, IsBarrier
  <2>1. gate[1] \in 1..Len(values) /\ \A k \in Members : gate'[k] = gate[1]
    BY <1>1 DEF BarrierShut
  <2>2. \A k \in Members : seq'[k] \in {"arrive", "started", "unborn"} \/ seq'[k] = seq[k]
    BY <1>1, <1>2, <1>4
  <2>3. GateOpen' = GateOpen /\ IsBarrier'
    BY <1>1 DEF GateOpen, IsBarrier
  <2>4. \A k \in Members : seq[k] \in {"gate", "through", "done"} /\ sprog.forks => seq'[k] = seq[k]
    BY <1>1, <1>3, <1>4, MembersFinite
  <2>5. ASSUME ~sprog.forks PROVE barriercount'[1] = Cardinality(Arrived')
    <3>1. m = 1
      BY <1>3, <2>5 DEF InPlace
    <3>2. \A k \in Members : k = m \/ k > m
      BY <3>1 DEF Members
    <3>3. Arrived = {} /\ Arrived' = {}
      BY <1>1, <1>2, <1>3, <1>4, <2>5, <3>2 DEF Arrived
    <3> QED
      BY <1>1, <2>5, <3>3 DEF BarrierShut
  <2>6. \A k \in Members : /\ seq'[k] \notin {"open", "opengate"}
                           /\ seq'[k] \in {"start", "create", "creategate"} => seq[k] = seq'[k]
                           /\ seq'[k] \in {"through", "done"} => seq[k] = seq'[k]
    BY <2>2 DEF BarrierShut
  <2>7. sprog.forks => \A k \in Members : seq'[k] \notin {"gate", "through", "done"} => barriercount[k] = 0
    BY <2>4 DEF BarrierShut
  <2> QED
    BY <1>1, <2>1, <2>3, <2>5, <2>6, <2>7, MembersFinite DEF BarrierShut
<1> QED
  BY <1>5, <1>6, <1>7, <1>8, <1>9, <1>10

LEMMA StartBarrierKeeps == \A m \in Members : SemProgIInv /\ StartBarrier(m) => SemProgIInv'
<1> SUFFICES ASSUME NEW m \in Members, SemProgIInv, StartBarrier(m) PROVE SemProgIInv'
  OBVIOUS
<1> USE DEF SemProgIInv
<1>1. /\ IsBarrier /\ m = 1 /\ seq[m] = "start" /\ MovedTo(m, "create")
      /\ UNCHANGED <<sprog, stale, unlinks, killed, names, values, handle, gate, shared, copy, barriercount>>
  BY Moving DEF StartBarrier, MemberMoves, Places
<1>2. SemProgTypes' /\ ProgAgrees
  BY <1>1, ProgramsAgree DEF SemProgTypes, MovedTo
<1>3. InPlace'
  BY <1>1, <1>2, MoveInPlace DEF ProgAgrees, Early, AtBarrier, Guarded, Section, Places
<1>4. NameKept'
  BY <1>1 DEF NameKept, MovedTo
<1>5. OneLock' /\ AllCounted'
  BY <1>1, NoSection
<1>6. BarrierShut'
  <2>1. IsBarrier' = IsBarrier /\ GateOpen' = GateOpen /\ Arrived' = Arrived
    BY <1>1 DEF IsBarrier, GateOpen, Arrived, MovedTo
  <2> QED
    BY <1>1, <2>1 DEF BarrierShut, MovedTo
<1> QED
  BY <1>2, <1>3, <1>4, <1>5, <1>6

LEMMA GetGateKeeps == \A m \in Members : SemProgIInv /\ GetGate(m) => SemProgIInv'
<1> SUFFICES ASSUME NEW m \in Members, SemProgIInv, GetGate(m) PROVE SemProgIInv'
  OBVIOUS
<1> USE DEF SemProgIInv
<1> DEFINE p == seq'[m]
<1>0. ProgAgrees /\ seq[m] \in {"creategate", "opengate"} /\ IsBarrier /\ sprog.sem = "named"
  BY ProgramsAgree DEF GetGate, Opens, Reopens, MemberMoves, InPlace, AtBarrier, ProgAgrees
<1>1. /\ UNCHANGED <<sprog, stale, unlinks, killed, handle, shared, copy, barriercount>>
      /\ \/ /\ seq[m] = "creategate" /\ names.wait = None /\ seq' = [seq EXCEPT ![m] = "started"]
            /\ values' = Append(values, 0) /\ names' = [names EXCEPT !["wait"] = Len(values) + 1]
            /\ gate' = [gate EXCEPT ![m] = Len(values) + 1]
         \/ /\ seq[m] = "creategate" /\ names.wait # None /\ seq' = [seq EXCEPT ![m] = "opengate"]
            /\ UNCHANGED <<values, names, gate>>
         \/ /\ seq[m] = "opengate" /\ seq' = [seq EXCEPT ![m] = IF names.wait = None THEN "failed" ELSE "started"]
            /\ gate' = [gate EXCEPT ![m] = names.wait] /\ values' = values
            /\ names' = IF names.wait = None THEN [names EXCEPT !["lock"] = None] ELSE names
  BY DEF GetGate, Opens, Reopens, MemberMoves
<1>2. /\ MovedTo(m, p) /\ p \in {"started", "opengate", "failed"}
      /\ p = "opengate" => names.wait # None /\ names' = names
      /\ p = "failed" => names.wait = None /\ seq[m] = "opengate"
  <2>1. seq \in [Members -> Places] /\ {"started", "opengate", "failed"} \subseteq Places
    BY DEF SemProgTypes, Places, AtBarrier
  <2> QED
    BY <1>1, <2>1 DEF MovedTo
<1>3. /\ values' \in Seq(Nat) /\ Len(values') \in Nat /\ gate' \in [Members -> Nat]
      /\ names' \in [lock : 0..Len(values'), wait : 0..Len(values')]
      /\ names.wait # None => names'.wait # None /\ names'.lock = names.lock
  <2>0. /\ values \in Seq(Nat) /\ Len(values) \in Nat /\ gate \in [Members -> Nat]
        /\ names \in [lock : 0..Len(values), wait : 0..Len(values)]
    BY DEF SemProgTypes
  <2>1. CASE /\ names.wait = None
             /\ values' = Append(values, 0) /\ names' = [names EXCEPT !["wait"] = Len(values) + 1]
             /\ gate' = [gate EXCEPT ![m] = Len(values) + 1]
    <3>1. values' \in Seq(Nat) /\ Len(values') = Len(values) + 1
      <4>1. 0 \in Nat
        OBVIOUS
      <4> QED
        BY <2>0, <2>1, <4>1, Appended
    <3>2. Len(values) + 1 \in 0..(Len(values) + 1) /\ Len(values) + 1 \in Nat
      BY <2>0
    <3>3. names' \in [lock : 0..(Len(values) + 1), wait : 0..(Len(values) + 1)]
      BY <2>0, <2>1, <3>2, Named
    <3>4. gate' \in [Members -> Nat]
      BY <2>0, <2>1, <3>2
    <3> QED
      BY <2>0, <2>1, <3>1, <3>2, <3>3, <3>4
  <2>2. CASE /\ values' = values /\ names' = names
             /\ gate' = gate \/ gate' = [gate EXCEPT ![m] = names.wait]
    BY <2>0, <2>2
  <2>3. CASE /\ values' = values /\ names.wait = None /\ names' = [names EXCEPT !["lock"] = None]
             /\ gate' = [gate EXCEPT ![m] = names.wait]
    <3>1. None \in 0..(Len(values) + 1) /\ None \in 0..Len(values)
      BY <2>0 DEF None
    <3>2. names'.lock = None /\ names'.wait = names.wait /\ names' \in [lock : 0..(Len(values) + 1), wait : 0..(Len(values) + 1)]
      BY <2>0, <2>3, <3>1, Named
    <3>3. names' \in [lock : 0..Len(values), wait : 0..Len(values)]
      BY <2>0, <3>1, <3>2
    <3> QED
      BY <2>0, <2>3, <3>3
  <2> QED
    BY <1>1, <2>1, <2>2, <2>3
<1> HIDE DEF p
<1>4. SemProgTypes'
  BY <1>1, <1>2, <1>3 DEF SemProgTypes, MovedTo
<1>5. InPlace'
  BY <1>0, <1>1, <1>2, MoveInPlace DEF Early, AtBarrier, Guarded, Section, Places
<1>6. NameKept'
  <2> SUFFICES ASSUME unlinks = 0 PROVE NameKept'
    BY <1>1 DEF NameKept
  <2>1. p # "failed"
    BY <1>2 DEF NameKept
  <2>2. p # "open" /\ p # "failed"
    BY <1>2, <2>1
  <2>3. \A k \in Members \ {m} : seq[k] = "open" => names'.lock # None
    <3>1. ASSUME NEW k \in Members \ {m}, seq[k] = "open" PROVE FALSE
      <4>1. k > m \/ m > k
        BY <3>1, MembersFinite
      <4>2. seq[k] \in Early /\ seq[m] \in Early
        BY <1>0, <3>1 DEF Early
      <4> QED
        BY <1>0, <3>1, <4>1, <4>2 DEF InPlace
    <3> QED
      BY <3>1
  <2> QED
    BY <1>1, <1>2, <1>3, <2>2, <2>3 DEF NameKept, MovedTo
<1>7. OneLock' /\ AllCounted'
  BY <1>0, <1>1, NoSection
<1>8. BarrierShut'
  <2> SUFFICES ASSUME ~stale PROVE BarrierShut'
    BY <1>1 DEF BarrierShut
  <2>1. /\ seq[m] = "creategate" /\ m = 1 /\ names.wait = None
        /\ \A k \in Members \ {m} : seq[k] = "unborn" /\ seq'[k] = "unborn"
    <3>1. seq[m] = "creategate" /\ m = 1 /\ names.wait = None
      BY <1>0 DEF BarrierShut
    <3>2. \A k \in Members \ {m} : k > m
      BY <3>1, NumMembersAssumption DEF Members
    <3> QED
      BY <1>0, <1>2, <3>1, <3>2 DEF InPlace, Early, MovedTo
  <2>2. p = "started" /\ values' = Append(values, 0) /\ gate'[1] = Len(values) + 1
    BY <1>1, <1>2, <2>1 DEF SemProgTypes, MovedTo
  <2>3. gate'[1] \in 1..Len(values') /\ values'[gate'[1]] = 0
    <3>1. 0 \in Nat /\ values \in Seq(Nat)
      BY DEF SemProgTypes
    <3> QED
      BY <2>2, <3>1, Appended
  <2>4. \A k \in Members : seq'[k] \in {"started", "unborn"}
    BY <1>2, <2>1, <2>2 DEF MovedTo
  <2>5. Arrived = {} /\ Arrived' = {}
    BY <2>1, <2>4 DEF Arrived
  <2>6. sprog'.forks => \A k \in Members : barriercount'[k] = 0
    <3>1. \A k \in Members : seq[k] \in {"creategate", "unborn"}
      BY <2>1
    <3> QED
      BY <1>0, <1>1, <3>1 DEF BarrierShut
  <2>7. ~sprog'.forks => barriercount'[1] = Cardinality(Arrived')
    BY <1>0, <1>1, <2>5 DEF BarrierShut
  <2> QED
    BY <2>3, <2>4, <2>6, <2>7 DEF BarrierShut
<1> QED
  BY <1>4, <1>5, <1>6, <1>7, <1>8

LEMMA ArriveKeeps == \A m \in Members : SemProgIInv /\ Arrive(m) => SemProgIInv'
<1> SUFFICES ASSUME NEW m \in Members, SemProgIInv, Arrive(m) PROVE SemProgIInv'
  OBVIOUS
<1> USE DEF SemProgIInv
<1> DEFINE p == seq'[m]
<1>1. /\ seq[m] = "arrive" /\ MovedTo(m, p)
      /\ p = (IF barriercount[Counter(m)] + 1 < NumMembers THEN "gate" ELSE "through")
      /\ barriercount' = [barriercount EXCEPT ![Counter(m)] = barriercount[Counter(m)] + 1]
      /\ UNCHANGED <<sprog, stale, unlinks, killed, names, values, handle, gate, shared, copy>>
  BY DEF Arrive, MovedTo, SemProgTypes, Places, AtBarrier
<1> HIDE DEF p
<1>2. IsBarrier /\ ProgAgrees /\ p \in {"gate", "through"} /\ Counter(m) \in Members
  BY <1>1, ProgramsAgree, MembersFinite DEF InPlace, AtBarrier, Counter
<1>3. SemProgTypes'
  BY <1>1, <1>2 DEF SemProgTypes, MovedTo
<1>4. InPlace'
  BY <1>1, <1>2, MoveInPlace DEF Early, AtBarrier, Guarded, Section, Places
<1>5. NameKept'
  BY <1>1, <1>2 DEF NameKept, MovedTo
<1>6. OneLock' /\ AllCounted'
  BY <1>1, <1>2, NoSection
<1>7. BarrierShut'
  <2> SUFFICES ASSUME ~stale PROVE BarrierShut'
    BY <1>1 DEF BarrierShut
  <2>1. Arrived' = Arrived \cup {m} /\ m \notin Arrived /\ Arrived \in SUBSET Members
    BY <1>1, <1>2 DEF Arrived, MovedTo
  <2>2. Cardinality(Arrived') = Cardinality(Arrived) + 1
    BY <2>1, MembersFinite, FS_Subset, FS_AddElement
  <2>3. ASSUME sprog.forks
        PROVE  /\ GateOpen' = GateOpen /\ (~GateOpen => p = "gate")
               /\ \A k \in Members : seq'[k] \notin {"gate", "through", "done"} => barriercount'[k] = 0
    <3>1. Counter(m) = m /\ barriercount[m] = 0
      BY <1>1, <1>2, <2>3 DEF Counter, BarrierShut
    <3>2. GateOpen' = GateOpen /\ (~GateOpen => p = "gate")
      BY <1>1, <2>3, <3>1, NumMembersAssumption DEF GateOpen
    <3>3. \A k \in Members \ {m} : barriercount'[k] = barriercount[k] /\ seq'[k] = seq[k]
      BY <1>1, <3>1 DEF MovedTo, SemProgTypes
    <3>4. \A k \in Members : seq[k] \notin {"gate", "through", "done"} => barriercount[k] = 0
      BY <1>2, <2>3 DEF BarrierShut
    <3> QED
      BY <1>1, <1>2, <3>2, <3>3, <3>4 DEF MovedTo
  <2>4. ASSUME ~sprog.forks
        PROVE  /\ ~GateOpen' => ~GateOpen /\ p = "gate"
               /\ barriercount'[1] = Cardinality(Arrived')
    <3>1. Counter(m) = 1 /\ barriercount[1] = Cardinality(Arrived) /\ barriercount[1] \in Nat
      BY <1>2, <2>4, MembersFinite DEF Counter, BarrierShut, SemProgTypes
    <3>2. barriercount'[1] = barriercount[1] + 1
      BY <1>1, <3>1, MembersFinite DEF SemProgTypes
    <3> QED
      BY <1>1, <2>2, <2>4, <3>1, <3>2, NumMembersAssumption DEF GateOpen
  <2>5. ~GateOpen' => ~GateOpen /\ p = "gate"
    BY <2>3, <2>4
  <2>6. \A k \in Members : /\ k # m => seq'[k] = seq[k]
                           /\ k = m => seq[k] = "arrive" /\ seq'[k] = p
    BY <1>1 DEF MovedTo
  <2> QED
    BY <1>1, <1>2, <2>3, <2>4, <2>5, <2>6 DEF BarrierShut
<1> QED
  BY <1>3, <1>4, <1>5, <1>6, <1>7

\* Who waits for the gate or posts it, finds it open.
LEMMA GateKeeps ==
    ASSUME SemProgIInv, NEW m \in Members, NEW p, NEW v, gate[m] \in 1..Len(values) => v \in Nat,
           \/ seq[m] = "gate" /\ p = "through" /\ values[gate[m]] > 0
           \/ seq[m] = "through" /\ p = "done",
           MovedTo(m, p), values' = [values EXCEPT ![gate[m]] = v],
           UNCHANGED <<sprog, stale, unlinks, killed, names, handle, gate, shared, copy, barriercount>>
    PROVE  SemProgIInv'
<1> USE DEF SemProgIInv
<1>1. IsBarrier /\ ProgAgrees /\ p \in {"through", "done"} /\ seq[m] \in {"gate", "through"}
  BY ProgramsAgree DEF InPlace, AtBarrier
<1>2. values' \in Seq(Nat) /\ Len(values') = Len(values)
  BY ValueSet DEF SemProgTypes
<1>3. SemProgTypes'
  BY <1>2 DEF SemProgTypes, MovedTo
<1>4. InPlace'
  BY <1>1, MoveInPlace DEF Early, AtBarrier, Guarded, Section, Places
<1>5. NameKept'
  BY <1>1 DEF NameKept, MovedTo
<1>6. OneLock' /\ AllCounted'
  BY <1>1, NoSection
<1>7. BarrierShut'
  <2> SUFFICES ASSUME ~stale PROVE BarrierShut'
    BY DEF BarrierShut
  <2>1. GateOpen
    BY <1>1 DEF BarrierShut
  <2>2. IsBarrier' = IsBarrier /\ GateOpen' = GateOpen /\ Arrived' = Arrived
    BY <1>1 DEF IsBarrier, GateOpen, Arrived, MovedTo
  <2> QED
    BY <1>1, <1>2, <2>1, <2>2 DEF BarrierShut, MovedTo
<1> QED
  BY <1>3, <1>4, <1>5, <1>6, <1>7

LEMMA WaitGateKeeps == \A m \in Members : SemProgIInv /\ WaitGate(m) => SemProgIInv'
<1> SUFFICES ASSUME NEW m \in Members, SemProgIInv, WaitGate(m) PROVE SemProgIInv'
  OBVIOUS
<1>1. /\ seq[m] = "gate" /\ values[gate[m]] > 0 /\ MovedTo(m, "through")
      /\ values' = [values EXCEPT ![gate[m]] = values[gate[m]] - 1]
      /\ UNCHANGED <<sprog, stale, unlinks, killed, names, handle, gate, shared, copy, barriercount>>
  BY Moving DEF SemProgIInv, WaitGate, MemberMoves, Places, AtBarrier
<1>2. gate[m] \in 1..Len(values) => values[gate[m]] - 1 \in Nat
  BY <1>1 DEF SemProgIInv, SemProgTypes
<1> QED
  BY <1>1, <1>2, GateKeeps

LEMMA PostGateKeeps == \A m \in Members : SemProgIInv /\ PostGate(m) => SemProgIInv'
<1> SUFFICES ASSUME NEW m \in Members, SemProgIInv, PostGate(m) PROVE SemProgIInv'
  OBVIOUS
<1>1. /\ seq[m] = "through" /\ MovedTo(m, "done")
      /\ values' = [values EXCEPT ![gate[m]] = values[gate[m]] + 1]
      /\ UNCHANGED <<sprog, stale, unlinks, killed, names, handle, gate, shared, copy, barriercount>>
  BY Moving DEF SemProgIInv, PostGate, MemberMoves, Places
<1>2. gate[m] \in 1..Len(values) => values[gate[m]] + 1 \in Nat
  BY DEF SemProgIInv, SemProgTypes
<1> QED
  BY <1>1, <1>2, GateKeeps

-----------------------------------------------------------------------------

LEMMA SemProgInitInv == SemProgInit => SemProgIInv
<1> SUFFICES ASSUME SemProgInit PROVE SemProgIInv
  OBVIOUS
<1> USE DEF SemProgInit
<1>0. \A m \in Members : /\ seq[m] \in {"start", "unborn"} /\ gate[m] = None /\ barriercount[m] = 0
                         /\ seq[m] = "start" <=> m = 1 \/ (~sprog.forks /\ ~IsBarrier)
                         /\ sprog.sem = "shared" => handle[m] = 1
  BY DEF IsBarrier
<1>1. /\ values \in Seq(Nat) /\ Len(values) \in Nat
      /\ stale => Len(values) = 2
      /\ sprog.sem = "shared" => Len(values) = 1 /\ values[1] = 1
      /\ sprog.sem = "named" /\ ~stale => Len(values) = 0
      /\ sprog.sem = "named" /\ stale => values[1] = 1
  <2>0. stale => sprog.sem = "named"
    OBVIOUS
  <2>1. /\ sprog.sem = "private" => values = [m \in 1..NumMembers |-> 1]
        /\ sprog.sem = "shared" => values = <<1>>
        /\ sprog.sem \notin {"private", "shared"} => values = IF stale THEN <<1, 1>> ELSE <<>>
    BY DEF Members
  <2> HIDE DEF SemProgInit
  <2>2. CASE sprog.sem = "private"
    <3>1. NumMembers \in Nat /\ values = [m \in 1..NumMembers |-> 1]
      BY <2>1, <2>2, NumMembersAssumption
    <3>2. [m \in 1..NumMembers |-> 1] \in Seq(Nat) /\ Len([m \in 1..NumMembers |-> 1]) = NumMembers
      BY <3>1
    <3> QED
      BY <2>0, <2>2, <3>1, <3>2
  <2>3. CASE sprog.sem = "shared"
    BY <2>0, <2>1, <2>3
  <2>4. CASE sprog.sem \notin {"private", "shared"}
    <3>1. CASE stale
      <4>1. values = <<1, 1>>
        BY <2>1, <2>4, <3>1
      <4>2. <<1, 1>> \in Seq(Nat) /\ Len(<<1, 1>>) = 2 /\ <<1, 1>>[1] = 1
        OBVIOUS
      <4>3. Len(values) = 2 /\ values[1] = 1 /\ values \in Seq(Nat)
        BY <4>1, <4>2, Zenon
      <4> QED
        BY <2>4, <3>1, <4>3
    <3>2. CASE ~stale
      <4>1. values = <<>> /\ <<>> \in Seq(Nat) /\ Len(<<>>) = 0
        BY <2>1, <2>4, <3>2
      <4> QED
        BY <2>4, <3>2, <4>1
    <3> QED
      BY <3>1, <3>2
  <2> QED
    BY <2>2, <2>3, <2>4
<1>2. SemProgTypes
  <2>1. names \in [lock : 0..Len(values), wait : 0..Len(values)]
    BY <1>1 DEF None
  <2>2. /\ handle \in [Members -> Nat] /\ gate \in [Members -> Nat] /\ copy \in [Members -> Nat]
        /\ barriercount \in [Members -> Nat] /\ seq \in [Members -> Places]
    BY MembersFinite DEF None, Places
  <2> QED
    BY <1>1, <2>1, <2>2 DEF SemProgTypes
<1>3. ProgAgrees
  BY <1>2, ProgramsAgree
<1>4. InPlace
  <2>1. sprog.sem # "named" => names.lock = None /\ names.wait = None
    OBVIOUS
  <2>2. sprog.forks \/ IsBarrier => \A m, k \in Members : seq[m] \in Early /\ k > m => seq[k] = "unborn"
    BY <1>0, MembersFinite DEF Early, Members
  <2> QED
    BY <1>0, <1>3, <2>1, <2>2 DEF InPlace, Guarded, Section, AtBarrier, Early, ProgAgrees
<1>5. NameKept
  BY <1>0 DEF NameKept
<1>6. OneLock
  <2> SUFFICES ASSUME sprog.sem \in {"named", "shared"} PROVE OneLock
    BY DEF OneLock
  <2>1. Lock \in 0..Len(values) /\ (Lock # None => values[Lock] <= 1)
    BY <1>1 DEF Lock, None
  <2> QED
    BY <1>0, <2>1 DEF OneLock, Guarded, Section
<1>7. AllCounted
  <2>1. Counted = {} /\ shared = 0
    BY <1>0 DEF Counted
  <2>2. Cardinality({}) = 0
    BY FS_EmptySet
  <2> QED
    BY <1>0, <2>1, <2>2 DEF AllCounted
<1>8. BarrierShut
  <2>1. Arrived = {}
    BY <1>0 DEF Arrived
  <2>2. Cardinality({}) = 0
    BY FS_EmptySet
  <2> QED
    BY <1>0, <1>1, <2>1, <2>2, MembersFinite DEF BarrierShut, None
<1> QED
  BY <1>2, <1>4, <1>5, <1>6, <1>7, <1>8 DEF SemProgIInv

LEMMA SemProgStep == SemProgIInv /\ [SemProgNext]_semprogvars => SemProgIInv'
<1> SUFFICES ASSUME SemProgIInv, [SemProgNext]_semprogvars PROVE SemProgIInv'
  OBVIOUS
<1>1. CASE Unlink
  BY <1>1, UnlinkKeeps
<1>2. ASSUME NEW m \in Members, MemberKilled(m) PROVE SemProgIInv'
  <2>1. ~IsBarrier
    BY <1>2, ProgramsAgree DEF SemProgIInv, ProgAgrees, MemberKilled
  <2> QED
    BY <1>2, <2>1, EnterKeeps DEF MemberKilled
<1>3. ASSUME NEW m \in Members, MemberStep(m) PROVE SemProgIInv'
  <2>1. CASE (sprog.forks \/ IsBarrier) /\ StartBarrier(m)
    BY <2>1, StartBarrierKeeps
  <2>2. CASE (sprog.forks \/ IsBarrier) /\ ForkMember(m)
    BY <2>2, ForkMemberKeeps
  <2>3. CASE /\ ~sprog.forks /\ ~IsBarrier /\ MemberMoves(m, "start", Entry)
             /\ UNCHANGED <<sprog, stale, unlinks, killed, names, values, handle, gate, shared, copy, barriercount>>
    BY <2>3, EnterKeeps
  <2> QED
    BY <1>3, <2>1, <2>2, <2>3, GetLockKeeps, GetGateKeeps, WaitLockKeeps, InCriticalKeeps, PostLockKeeps,
       ArriveKeeps, WaitGateKeeps, PostGateKeeps DEF MemberStep
<1>4. CASE UNCHANGED semprogvars
  BY <1>4 DEF semprogvars, SemProgIInv, SemProgTypes, InPlace, Early, IsBarrier, NameKept, OneLock, Lock,
     AllCounted, Counted, BarrierShut, GateOpen, Arrived
<1> QED
  BY <1>1, <1>2, <1>3, <1>4 DEF SemProgNext

\* Who uses the one semaphore has opened it under its name, and it is 1 or somebody
\* is in the section; the gate of the barrier is shut until all have been counted.
THEOREM SemProgInvariant == SemProgSpec => []SemProgIInv
<1> QED
  BY SemProgInitInv, SemProgStep, PTL DEF SemProgSpec

\* What the invariant says of the members in their section and at the barrier.
LEMMA InvGuards == SemProgIInv => SemaphoresGuard
<1> SUFFICES ASSUME SemProgIInv PROVE SemaphoresGuard
  OBVIOUS
<1> USE DEF SemProgIInv
<1>0. ProgAgrees
  BY ProgramsAgree
<1>1. ASSUME sprog.sem \in {"named", "shared"}, unlinks = 0 PROVE Cardinality(InSection) <= 1
  <2>1. ASSUME NEW m \in InSection PROVE InSection = {m}
    <3>1. m \in Members /\ seq[m] \in Section /\ ~IsBarrier
      BY <2>1 DEF InSection, Section, InPlace, Guarded
    <3>2. \A k \in Members : seq[k] \in Section => k = m
      BY <1>1, <3>1 DEF OneLock
    <3> QED
      BY <3>1, <3>2 DEF InSection, Section
  <2>2. CASE InSection = {}
    BY <2>2, FS_EmptySet
  <2>3. CASE InSection # {}
    <3>1. PICK m \in InSection : TRUE
      BY <2>3
    <3> QED
      BY <2>1, <3>1, FS_Singleton
  <2> QED
    BY <2>2, <2>3
<1>2. unlinks = 0 /\ ~killed => \A m \in Members : seq[m] # "failed"
  BY DEF NameKept
<1>3. sprog = semsharedtest /\ (\A m \in Members : seq[m] = "done") => shared = NumMembers
  <2> SUFFICES ASSUME sprog = semsharedtest, \A m \in Members : seq[m] = "done" PROVE shared = NumMembers
    OBVIOUS
  <2>1. Counted = Members
    BY DEF Counted
  <2> QED
    BY <2>1, MembersFinite DEF AllCounted
<1>4. ASSUME IsBarrier, ~stale, Passed # {} PROVE Arrived = Members
  <2>1. PICK m \in Members : seq[m] \in {"through", "done"}
    BY <1>4 DEF Passed
  <2>2. GateOpen
    BY <1>4, <2>1 DEF BarrierShut
  <2>3. CASE sprog.forks
    <3>1. Members = {m}
      BY <2>2, <2>3 DEF GateOpen, Members
    <3> QED
      BY <2>1, <3>1 DEF Arrived
  <2>4. CASE ~sprog.forks
    <3>1. Arrived \subseteq Members /\ Cardinality(Arrived) >= NumMembers
      BY <1>4, <2>2, <2>4 DEF GateOpen, BarrierShut, Arrived
    <3>2. Cardinality(Arrived) \in Nat
      BY <3>1, MembersFinite, FS_Subset, FS_CardinalityType
    <3>3. Arrived # Members => Cardinality(Arrived) < NumMembers
      <4>1. Cardinality(Arrived) <= NumMembers /\ (NumMembers = Cardinality(Arrived) => Members = Arrived)
        BY <3>1, MembersFinite, FS_Subset
      <4> QED
        BY <3>2, <4>1, NumMembersAssumption
    <3> QED
      BY <3>1, <3>2, <3>3, NumMembersAssumption
  <2> QED
    BY <2>3, <2>4
<1>5. IsBarrier /\ sprog.forks /\ ~stale /\ NumMembers > 1 => Passed = {}
  BY NumMembersAssumption DEF BarrierShut, GateOpen, Passed
<1> QED
  BY <1>1, <1>2, <1>3, <1>4, <1>5 DEF SemaphoresGuard

\* The semaphores of the programs of chapter14 exclude, count every increment and
\* hold everybody at the barrier, for any number of members that open their names,
\* unlink them and are killed in any order.
THEOREM SemProgGuarded == SemProgSpec => []SemaphoresGuard
<1> QED
  BY SemProgInvariant, InvGuards, PTL
=============================================================================
