---------------------------- MODULE ListThreads -----------------------------
(***************************************************************************)
(* chapter13/listlib.c, a list with any number of traversals, called by    *)
(* threads through listlib_r.c (a mutex) or listlibrw_r.c (a read-write    *)
(* lock, under which getdata holds only a read lock).                      *)
(*                                                                         *)
(* A thread is a client that obeys the interface: it adds, or it gets a    *)
(* key, calls getdata with it until the end of the list and may give the   *)
(* key back before with freekey.  pc[t]:                                   *)
(*   idle, lock        between calls; at the lock of the call op[t]        *)
(*   body, body2       inside the call, holding the lock                   *)
(*   unlock            the call of listlib.c has returned                  *)
(* The list never shrinks, so item k is k.                                 *)
(***************************************************************************)
EXTENDS Naturals, Sequences, FiniteSets

CONSTANTS
    Threads,
    ReadLocked,     \* the calls under a read lock: {} or {"getdata"}
    InitSize,       \* TRAV_INIT_SIZE
    MaxItems,       \* bound: length of the list
    MaxSlots,       \* bound: size of travptrs
    Faults          \* {} or a subset of {"malloc", "lock", "unlock"}

ASSUME ThreadsAssumption == IsFiniteSet(Threads)
ASSUME ReadLockedAssumption == ReadLocked \subseteq {"getdata"}
ASSUME InitSizeAssumption == InitSize \in Nat \ {0}
ASSUME BoundsAssumption == MaxItems \in Nat /\ MaxSlots \in Nat

VARIABLES
    length,     \* how many items the list has
    travptrs,   \* slot k + 1: the next item of the traversal with key k
    locks,      \* locks[t]: "none", "read" or "write"
    pc, op,
    next,       \* what getdata has read of its slot
    key,        \* the slot whose key the thread holds, or None
    seen,       \* ghost: the items getdata returned for the key
    from        \* ghost: the length of the list when the key was given

listvars == <<length, travptrs, locks, pc, op, next, key, seen, from>>
client == <<key, seen, from>>

\* Contents of a slot that are not an item: NULL, &endlist and what realloc
\* leaves in memory, which may look like NULL or like a pointer.
Null == 0
EndList == MaxItems + 1
Junk == MaxItems + 2
None == 0

ListInit ==
    /\ length = 0
    /\ travptrs = << >>
    /\ locks = [t \in Threads |-> "none"]
    /\ pc = [t \in Threads |-> "idle"]
    /\ op = [t \in Threads |-> "none"]
    /\ next = [t \in Threads |-> Null]
    /\ key = [t \in Threads |-> None]
    /\ seen = [t \in Threads |-> << >>]
    /\ from = [t \in Threads |-> 0]

Goto(t, here, there) == pc[t] = here /\ pc' = [pc EXCEPT ![t] = there]

-----------------------------------------------------------------------------
(* The wrappers of listlib_r.c and listlibrw_r.c.                          *)

\* What a client may call: getdata and freekey need a key; one key at a time.
ListCall(t, function) ==
    /\ Goto(t, "idle", "lock")
    /\ function \in {"getdata", "freekey"} => key[t] # None
    /\ function = "accessdata" => key[t] = None
    /\ function = "adddata" => length + Cardinality({u \in Threads : op[u] = "adddata"}) < MaxItems
    /\ op' = [op EXCEPT ![t] = function]
    /\ UNCHANGED <<length, travptrs, locks, next, client>>

Lock(t) ==
    /\ IF op[t] \in ReadLocked
       THEN /\ \A u \in Threads : locks[u] # "write"
            /\ locks' = [locks EXCEPT ![t] = "read"]
       ELSE /\ \A u \in Threads : locks[u] = "none"
            /\ locks' = [locks EXCEPT ![t] = "write"]
    /\ Goto(t, "lock", "body")
    /\ UNCHANGED <<length, travptrs, op, next, client>>

LockFails(t) ==
    /\ "lock" \in Faults
    /\ Goto(t, "lock", "idle")
    /\ op' = [op EXCEPT ![t] = "none"]
    /\ UNCHANGED <<length, travptrs, locks, next, client>>

\* An error of the unlock hides the key that accessdata returned, and the
\* item that getdata returned.
Unlock(t) ==
    /\ Goto(t, "unlock", "idle")
    /\ locks' = [locks EXCEPT ![t] = "none"]
    /\ op' = [op EXCEPT ![t] = "none"]
    /\ next' = [next EXCEPT ![t] = Null]
    /\ UNCHANGED <<length, travptrs, client>>

UnlockFails(t) ==
    /\ "unlock" \in Faults
    /\ Goto(t, "unlock", "idle")
    /\ IF op[t] = "accessdata"
       THEN key' = [key EXCEPT ![t] = None] /\ seen' = [seen EXCEPT ![t] = << >>]
       ELSE UNCHANGED <<key, seen>>
    /\ op' = [op EXCEPT ![t] = "none"]
    /\ next' = [next EXCEPT ![t] = Null]
    /\ UNCHANGED <<length, travptrs, locks, from>>

-----------------------------------------------------------------------------
(* listlib.c.                                                              *)

Body(t, function) == op[t] = function /\ Goto(t, "body", "unlock")

\* EINVAL or an allocation that fails: nothing changes.
BodyFails(t) ==
    /\ \/ Body(t, "accessdata") /\ length = 0
       \/ "malloc" \in Faults /\ \E f \in {"accessdata", "adddata", "getdata"} : Body(t, f)
    /\ UNCHANGED <<length, travptrs, locks, op, next, client>>

Give(t, slot) ==
    /\ key' = [key EXCEPT ![t] = slot]
    /\ seen' = [seen EXCEPT ![t] = << >>]
    /\ from' = [from EXCEPT ![t] = length]

FreeSlots == {s \in 1..Len(travptrs) : travptrs[s] = Null}

\* The lowest free slot, or the first new one of an array of twice the size.
\* calloc clears the slots, realloc does not.
Accessdata(t) ==
    /\ Body(t, "accessdata")
    /\ length > 0
    /\ IF travptrs = << >> THEN
           /\ travptrs' = [s \in 1..InitSize |-> IF s = 1 THEN 1 ELSE Null]
           /\ Give(t, 1)
       ELSE IF FreeSlots # {} THEN
           LET slot == CHOOSE s \in FreeSlots : \A u \in FreeSlots : s <= u IN
           /\ travptrs' = [travptrs EXCEPT ![slot] = 1]
           /\ Give(t, slot)
       ELSE
           /\ 2 * Len(travptrs) <= MaxSlots
           /\ \E rest \in [1..(Len(travptrs) - 1) -> {Null, Junk}] :
                  travptrs' = travptrs \o <<1>> \o rest
           /\ Give(t, Len(travptrs) + 1)
    /\ UNCHANGED <<length, locks, op, next>>

Adddata(t) ==
    /\ Body(t, "adddata")
    /\ length' = length + 1
    /\ UNCHANGED <<travptrs, locks, op, next, client>>

\* The key is read, then the item is copied and the key moved on.
GetdataReads(t) ==
    /\ op[t] = "getdata"
    /\ Goto(t, "body", "body2")
    /\ next' = [next EXCEPT ![t] = travptrs[key[t]]]
    /\ UNCHANGED <<length, travptrs, locks, op, client>>

\* At the end the key is free again.
GetdataEnds(t) ==
    /\ Goto(t, "body2", "unlock")
    /\ next[t] = EndList
    /\ travptrs' = [travptrs EXCEPT ![key[t]] = Null]
    /\ key' = [key EXCEPT ![t] = None]
    /\ UNCHANGED <<length, locks, op, next, seen, from>>

\* Mutants of GetdataReturns: a traversal at the last item is marked NULL, not
\* &endlist; the pointer moves to the last item of the list.
GetdataFreesKey(t) ==
    /\ Goto(t, "body2", "unlock")
    /\ next[t] \in 1..length
    /\ travptrs' = [travptrs EXCEPT ![key[t]] = IF next[t] = length THEN Null ELSE next[t] + 1]
    /\ seen' = [seen EXCEPT ![t] = Append(@, next[t])]
    /\ UNCHANGED <<length, locks, op, next, key, from>>

GetdataSkips(t) ==
    /\ Goto(t, "body2", "unlock")
    /\ next[t] \in 1..length
    /\ travptrs' = [travptrs EXCEPT ![key[t]] = IF next[t] = length THEN EndList ELSE length]
    /\ seen' = [seen EXCEPT ![t] = Append(@, next[t])]
    /\ UNCHANGED <<length, locks, op, next, key, from>>

\* An item added after the last one was returned is not part of the traversal.
GetdataReturns(t) ==
    /\ Goto(t, "body2", "unlock")
    /\ next[t] \in 1..length
    /\ travptrs' = [travptrs EXCEPT ![key[t]] = IF next[t] = length THEN EndList ELSE next[t] + 1]
    /\ seen' = [seen EXCEPT ![t] = Append(@, next[t])]
    /\ UNCHANGED <<length, locks, op, next, key, from>>

Freekey(t) ==
    /\ Body(t, "freekey")
    /\ travptrs' = [travptrs EXCEPT ![key[t]] = Null]
    /\ key' = [key EXCEPT ![t] = None]
    /\ UNCHANGED <<length, locks, op, next, seen, from>>

ListStep(t) ==
    \/ Lock(t) \/ Unlock(t)
    \/ Accessdata(t) \/ Adddata(t) \/ Freekey(t)
    \/ GetdataReads(t) \/ GetdataEnds(t) \/ GetdataReturns(t)

ListNext ==
    \E t \in Threads :
        \/ ListStep(t) \/ LockFails(t) \/ UnlockFails(t) \/ BodyFails(t)
        \/ \E f \in {"accessdata", "adddata", "getdata", "freekey"} : ListCall(t, f)

ListSpec == ListInit /\ [][ListNext]_listvars

-----------------------------------------------------------------------------
(* Properties.                                                             *)

ListTypeOK ==
    /\ length \in 0..MaxItems
    /\ Len(travptrs) <= MaxSlots
    /\ \A s \in DOMAIN travptrs : travptrs[s] \in (0..length) \cup {EndList, Junk}
    /\ locks \in [Threads -> {"none", "read", "write"}]
    /\ pc \in [Threads -> {"idle", "lock", "body", "body2", "unlock"}]
    /\ key \in [Threads -> 0..MaxSlots]

Inside == {t \in Threads : pc[t] \in {"body", "body2"}}

\* However adds and other traversals interleave, a traversal returns the items
\* in order, none twice and none left out, and does not reach the end before
\* it has returned every item the list had when it began.
\* A key belongs to one traversal: no other thread is given it before the
\* traversal has reached the end of the list or freekey was called, and until
\* then its slot points into the list. getdata changes its slot under a read lock
\* only: whoever is inside the list at the same time is in getdata too, with another key.
TraversalIsComplete ==
    /\ \A t \in Threads : key[t] # None =>
          /\ travptrs[key[t]] \in (1..length) \cup {EndList}
          /\ \A u \in Threads \ {t} : key[u] # key[t]
          /\ seen[t] = [i \in 1..Len(seen[t]) |-> i]
          /\ travptrs[key[t]] = EndList => Len(seen[t]) >= from[t]
    /\ \A t, u \in Inside : t # u => op[t] = "getdata" /\ op[u] = "getdata" /\ key[t] # key[u]

\* accessdata looks for an empty slot: travptrs grows only when every slot has
\* a traversal.
GrowsOnlyWhenFull ==
    [][Len(travptrs') > Len(travptrs) =>
           \A s \in DOMAIN travptrs : \E t \in Threads : key[t] = s]_listvars
=============================================================================
