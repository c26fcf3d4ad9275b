---------------------------- MODULE ThreadProofs ----------------------------
(***************************************************************************)
(* Theorems about ListThreads (chapter13/listlib.c under listlib_r.c or    *)
(* listlibrw_r.c) for every finite set of threads, every size of the key   *)
(* table and every length of the list, and whatever call fails; and about  *)
(* BufferVariants (the other buffers of chapter16) for any producers and   *)
(* consumers, any size of the ring and any call that fails; about          *)
(* ThreadObjects and ComputeThreads (the shared objects of chapter13) for  *)
(* any threads; about DescriptorThreads (chapter12) for any number of      *)
(* threads and any length of their files; about HostNames (appendix C) for *)
(* any set of threads that resolve names; and about TextTools (chapter02)  *)
(* for any texts, arrays and lists.                                        *)
(***************************************************************************)
EXTENDS ListThreads, DescriptorThreads, ThreadObjects, TextTools, BufferVariants, BufferLemmas, FiniteSetTheorems,
        WellFoundedInduction

Functions == {"accessdata", "adddata", "getdata", "freekey"}

ListTypes ==
    /\ length \in 0..MaxItems
    /\ travptrs \in Seq(Nat)
    /\ locks \in [Threads -> {"none", "read", "write"}]
    /\ pc \in [Threads -> {"idle", "lock", "body", "body2", "unlock"}]
    /\ op \in [Threads -> Functions \cup {"none"}]
    /\ next \in [Threads -> Nat]
    /\ key \in [Threads -> Nat]
    /\ seen \in [Threads -> Seq(Nat)]
    /\ from \in [Threads -> Nat]

\* The calls of adddata that have not added their item yet.
Adders == {t \in Threads : op[t] = "adddata" /\ pc[t] \in {"lock", "body"}}

\* Every item still to be added has room below the bound.
Reserved == length + Cardinality(Adders) <= MaxItems

\* A thread is in the call that op names, with a key where the call takes one and
\* without where it gives one.
OpAgrees ==
    \A t \in Threads :
        /\ pc[t] = "idle" <=> op[t] = "none"
        /\ pc[t] = "body2" => op[t] = "getdata" /\ next[t] = travptrs[key[t]]
        /\ op[t] \in {"getdata", "freekey"} /\ pc[t] \in {"lock", "body", "body2"} => key[t] # None
        /\ op[t] = "accessdata" /\ pc[t] \in {"lock", "body"} => key[t] = None

\* Whoever is in a call holds its lock, and a write lock is held alone.
LocksExclude ==
    /\ \A t \in Threads : pc[t] \in {"body", "body2", "unlock"} =>
           locks[t] = IF op[t] \in ReadLocked THEN "read" ELSE "write"
    /\ \A t, u \in Threads : locks[t] = "write" /\ u # t => locks[u] = "none"

\* Where the traversal with a key is: its slot holds the item after those it has
\* returned, or &endlist after all items it has to return.
AtItem(t) == Len(seen[t]) + 1 \in 1..length /\ travptrs[key[t]] = Len(seen[t]) + 1
AtEnd(t) == from[t] <= Len(seen[t]) /\ travptrs[key[t]] = EndList

InOrder(s) == s = [i \in 1..Len(s) |-> i]

KeysKept ==
    \A t \in Threads : key[t] # None =>
        /\ key[t] \in 1..Len(travptrs)
        /\ \A u \in Threads \ {t} : key[u] # key[t]
        /\ InOrder(seen[t])
        /\ from[t] <= length
        /\ AtItem(t) \/ AtEnd(t)

ListIInv == ListTypes /\ Reserved /\ OpAgrees /\ LocksExclude /\ KeysKept

-----------------------------------------------------------------------------
(* The data.                                                               *)

\* A nonempty set of slots has a lowest one: the choice of accessdata.
LEMMA LowestSlot ==
    ASSUME NEW S, S \subseteq Nat, S # {}
    PROVE  \E s \in S : \A u \in S : s <= u
<1>1. \E s \in S : \A u \in S : <<u, s>> \notin OpToRel(<, Nat)
  BY NatLessThanWellFounded, WFMin
<1>2. PICK s \in S : \A u \in S : <<u, s>> \notin OpToRel(<, Nat)
  BY <1>1
<1>3. \A u \in S : ~ (u < s)
  BY <1>2 DEF OpToRel
<1> QED
  BY <1>3

\* One more item in order.
LEMMA AppendInOrder ==
    ASSUME NEW s \in Seq(Nat), InOrder(s)
    PROVE  InOrder(Append(s, Len(s) + 1)) /\ Len(Append(s, Len(s) + 1)) = Len(s) + 1
<1> DEFINE n == Len(s)
           a == Append(s, n + 1)
           b == [i \in 1..(n + 1) |-> i]
<1>1. n \in Nat /\ Len(a) = n + 1 /\ a \in Seq(Nat)
  OBVIOUS
<1>2. \A i \in 1..(n + 1) : a[i] = i
  BY DEF InOrder
<1>3. a = b
  BY <1>1, <1>2
<1> QED
  BY <1>1, <1>3 DEF InOrder

-----------------------------------------------------------------------------
(* The invariant, step by step.                                            *)

LEMMA ListInitIInv == ListInit => ListIInv
<1> SUFFICES ASSUME ListInit PROVE ListIInv
  OBVIOUS
<1> USE BoundsAssumption DEF ListInit
<1>1. ListTypes
  BY EmptySeq DEF ListTypes, Null, None
<1>2. Adders = {}
  BY DEF Adders
<1>3. Reserved
  BY <1>2, FS_EmptySet DEF Reserved
<1>4. OpAgrees /\ LocksExclude /\ KeysKept
  BY DEF OpAgrees, LocksExclude, KeysKept, None
<1> QED
  BY <1>1, <1>3, <1>4 DEF ListIInv

LEMMA AddersFinite == IsFiniteSet(Adders) /\ Cardinality(Adders) \in Nat
<1>1. Adders \subseteq Threads
  BY DEF Adders
<1> QED
  BY <1>1, ThreadsAssumption, FS_Subset, FS_CardinalityType

\* A step after which nobody is an adder who was not one.
LEMMA ReservedStep ==
    ASSUME ListIInv, UNCHANGED length, Adders' \subseteq Adders
    PROVE  Reserved'
<1>1. IsFiniteSet(Adders') /\ Cardinality(Adders') \in Nat /\ Cardinality(Adders') <= Cardinality(Adders)
  BY AddersFinite, FS_Subset, FS_CardinalityType
<1> QED
  BY <1>1, AddersFinite, BoundsAssumption DEF ListIInv, Reserved, ListTypes

\* A step that leaves the table, the list and the clients' keys alone.
LEMMA KeysStep ==
    ASSUME ListIInv, UNCHANGED <<length, travptrs, client>>
    PROVE  KeysKept'
BY DEF ListIInv, KeysKept, client, AtItem, AtEnd

LEMMA CallStep ==
    ASSUME ListIInv, NEW t \in Threads, NEW f \in Functions, ListCall(t, f)
    PROVE  ListIInv'
<1> USE DEF ListIInv, ListCall, Goto, client
<1>1. ListTypes'
  BY DEF ListTypes
<1>2. Reserved'
  <2>1. CASE f = "adddata"
    <3> DEFINE Callers == {u \in Threads : op[u] = "adddata"}
    <3>0. Callers \subseteq Threads
      OBVIOUS
    <3>1. IsFiniteSet(Callers) /\ Cardinality(Callers) \in Nat
      BY <3>0, ThreadsAssumption, FS_Subset, FS_CardinalityType
    <3>2. Adders \subseteq Callers
      BY DEF Adders
    <3>3. Cardinality(Adders) <= Cardinality(Callers)
      BY <3>1, <3>2, FS_Subset
    <3>4. Adders' = Adders \cup {t}
      BY <2>1 DEF Adders, ListTypes
    <3>5. Cardinality(Adders') <= Cardinality(Adders) + 1 /\ Cardinality(Adders') \in Nat
      <4> DEFINE A == Adders \cup {t}
      <4>1. IsFiniteSet(A) /\ (Cardinality(A) = Cardinality(Adders) \/ Cardinality(A) = Cardinality(Adders) + 1)
        BY AddersFinite, FS_AddElement
      <4>2. Cardinality(A) \in Nat
        BY <4>1, FS_CardinalityType
      <4> HIDE DEF A
      <4>3. Cardinality(A) <= Cardinality(Adders) + 1
        BY <4>1, <4>2, AddersFinite
      <4> QED
        BY <3>4, <4>2, <4>3 DEF A
    <3>6. length + Cardinality(Callers) < MaxItems
      BY <2>1
    <3> QED
      BY <3>1, <3>3, <3>5, <3>6, AddersFinite, BoundsAssumption DEF Reserved, ListTypes
  <2>2. CASE f # "adddata"
    <3>1. Adders' \subseteq Adders
      BY <2>2 DEF Adders, ListTypes
    <3> QED
      BY <3>1, ReservedStep
  <2> QED
    BY <2>1, <2>2
<1>3. OpAgrees'
  BY DEF OpAgrees, ListTypes, Functions
<1>4. LocksExclude'
  BY DEF LocksExclude, ListTypes
<1> QED
  BY <1>1, <1>2, <1>3, <1>4, KeysStep

LEMMA LockStep ==
    ASSUME ListIInv, NEW t \in Threads, Lock(t)
    PROVE  ListIInv'
<1> USE DEF ListIInv, Lock, Goto, client
<1>1. ListTypes'
  BY DEF ListTypes
<1>2. Adders' \subseteq Adders
  BY DEF Adders, ListTypes
<1>3. OpAgrees'
  BY DEF OpAgrees, ListTypes
<1>4. LocksExclude'
  BY DEF LocksExclude, ListTypes
<1> QED
  BY <1>1, <1>2, <1>3, <1>4, ReservedStep, KeysStep

\* A call ends: it was never inside, or it gives its lock up, or cannot and keeps it.
LEMMA LeaveStep ==
    ASSUME ListIInv, NEW t \in Threads, LockFails(t) \/ Unlock(t) \/ UnlockFails(t)
    PROVE  ListIInv'
<1> USE DEF ListIInv, Goto, client
<1>1. CASE LockFails(t)
  <2> USE <1>1 DEF LockFails
  <2>1. ListTypes'
    BY DEF ListTypes
  <2>2. Adders' \subseteq Adders
    BY DEF Adders, ListTypes
  <2>3. OpAgrees'
    BY DEF OpAgrees, ListTypes
  <2>4. LocksExclude'
    BY DEF LocksExclude, ListTypes
  <2> QED
    BY <2>1, <2>2, <2>3, <2>4, ReservedStep, KeysStep
<1>2. CASE Unlock(t)
  <2> USE <1>2 DEF Unlock
  <2>1. ListTypes'
    BY DEF ListTypes, Null
  <2>2. Adders' \subseteq Adders
    BY DEF Adders, ListTypes
  <2>3. OpAgrees'
    BY DEF OpAgrees, ListTypes
  <2>4. LocksExclude'
    BY DEF LocksExclude, ListTypes
  <2> QED
    BY <2>1, <2>2, <2>3, <2>4, ReservedStep, KeysStep
<1>3. CASE UnlockFails(t)
  <2> USE <1>3 DEF UnlockFails
  <2>1. ListTypes'
    <3>1. key' \in [Threads -> Nat]
      BY DEF ListTypes, None
    <3>2. seen' \in [Threads -> Seq(Nat)]
      <4>1. seen' = [seen EXCEPT ![t] = << >>] \/ seen' = seen
        OBVIOUS
      <4>2. << >> \in Seq(Nat) /\ seen \in [Threads -> Seq(Nat)]
        BY EmptySeq DEF ListTypes
      <4> QED
        BY <4>1, <4>2, Zenon
    <3>3. /\ pc' = [pc EXCEPT ![t] = "idle"]
          /\ op' = [op EXCEPT ![t] = "none"]
          /\ next' = [next EXCEPT ![t] = Null]
          /\ UNCHANGED <<length, travptrs, locks, from>>
      OBVIOUS
    <3> HIDE <1>3 DEF UnlockFails
    <3>4. /\ pc' \in [Threads -> {"idle", "lock", "body", "body2", "unlock"}]
          /\ op' \in [Threads -> Functions \cup {"none"}]
          /\ next' \in [Threads -> Nat]
          /\ UNCHANGED <<length, travptrs, locks, from>>
      BY <3>3 DEF ListTypes, Null
    <3> QED
      BY <3>1, <3>2, <3>4 DEF ListTypes
  <2>2. Adders' \subseteq Adders
    BY DEF Adders, ListTypes
  <2>3. OpAgrees'
    BY DEF OpAgrees, ListTypes
  <2>4. LocksExclude'
    BY DEF LocksExclude, ListTypes
  <2>5. KeysKept'
    BY DEF KeysKept, ListTypes, AtItem, AtEnd, None
  <2> QED
    BY <2>1, <2>2, <2>3, <2>4, <2>5, ReservedStep
<1> QED
  BY <1>1, <1>2, <1>3

\* The body of a call ends and its lock stays held; the parts of the invariant that
\* do not speak of the table.
LEMMA BodyStep ==
    ASSUME ListIInv, NEW t \in Threads, NEW here \in {"body", "body2"}, Goto(t, here, "unlock"),
           UNCHANGED <<locks, op, next>>,
           \A u \in Threads \ {t} : pc[u] = "body2" => travptrs'[key'[u]] = travptrs[key[u]],
           \A u \in Threads \ {t} : key'[u] = key[u]
    PROVE  OpAgrees' /\ LocksExclude' /\ Adders' \subseteq Adders
<1> USE DEF ListIInv, Goto
<1>1. OpAgrees'
  BY DEF OpAgrees, ListTypes
<1>2. LocksExclude'
  BY DEF LocksExclude, ListTypes
<1>3. Adders' \subseteq Adders
  BY DEF Adders, ListTypes
<1> QED
  BY <1>1, <1>2, <1>3

LEMMA BodyFailsStep ==
    ASSUME ListIInv, NEW t \in Threads, BodyFails(t)
    PROVE  ListIInv'
<1> USE DEF BodyFails, Body, client
<1>1. ListTypes'
  BY DEF ListIInv, ListTypes, Goto
<1>2. OpAgrees' /\ LocksExclude' /\ Adders' \subseteq Adders
  BY BodyStep
<1> QED
  BY <1>1, <1>2, ReservedStep, KeysStep DEF ListIInv

LEMMA AdddataStep ==
    ASSUME ListIInv, NEW t \in Threads, Adddata(t)
    PROVE  ListIInv'
<1> USE DEF Adddata, Body, client
<1>1. OpAgrees' /\ LocksExclude'
  BY BodyStep
<1>2. Adders' = Adders \ {t} /\ t \in Adders
  BY DEF Adders, Goto, ListIInv, ListTypes
<1>3. Cardinality(Adders') = Cardinality(Adders) - 1 /\ Cardinality(Adders') \in Nat
  BY <1>2, AddersFinite, FS_RemoveElement, FS_CardinalityType
<1>4. Reserved' /\ length + 1 \in 0..MaxItems
  BY <1>3, AddersFinite, BoundsAssumption DEF ListIInv, Reserved, ListTypes
<1>5. ListTypes'
  BY <1>4 DEF ListIInv, ListTypes, Goto
<1>6. KeysKept'
  BY DEF ListIInv, KeysKept, ListTypes, AtItem, AtEnd
<1> QED
  BY <1>1, <1>4, <1>5, <1>6 DEF ListIInv

LEMMA GetdataReadsStep ==
    ASSUME ListIInv, NEW t \in Threads, GetdataReads(t)
    PROVE  ListIInv'
<1> USE DEF ListIInv, GetdataReads, Goto, client
<1>1. key[t] \in 1..Len(travptrs)
  BY DEF OpAgrees, KeysKept
<1>2. travptrs[key[t]] \in Nat
  BY <1>1, ElementOfSeq DEF ListTypes
<1>3. ListTypes'
  BY <1>2 DEF ListTypes
<1>4. Adders' \subseteq Adders
  BY DEF Adders, ListTypes
<1>5. OpAgrees'
  BY DEF OpAgrees, ListTypes
<1>6. LocksExclude'
  BY DEF LocksExclude, ListTypes
<1> QED
  BY <1>3, <1>4, <1>5, <1>6, ReservedStep, KeysStep

\* The end of a traversal, and freekey.  The slot freed is nobody else's.
LEMMA KeyFreedStep ==
    ASSUME ListIInv, NEW t \in Threads, GetdataEnds(t) \/ Freekey(t)
    PROVE  ListIInv'
<1>1. /\ \E here \in {"body", "body2"} : Goto(t, here, "unlock")
      /\ travptrs' = [travptrs EXCEPT ![key[t]] = Null]
      /\ key' = [key EXCEPT ![t] = None]
      /\ UNCHANGED <<length, locks, op, next, seen, from>>
      /\ key[t] # None
  BY DEF GetdataEnds, Freekey, Body, Goto, ListIInv, OpAgrees
<1>2. key[t] \in 1..Len(travptrs) /\ \A u \in Threads \ {t} : key[u] # key[t]
  BY <1>1 DEF ListIInv, KeysKept
<1>3. /\ travptrs' \in Seq(Nat) /\ Len(travptrs') = Len(travptrs)
      /\ \A s \in 1..Len(travptrs) : s # key[t] => travptrs'[s] = travptrs[s]
  BY <1>1, <1>2, ExceptSeq DEF ListIInv, ListTypes, Null
<1>4. \A u \in Threads \ {t} : key'[u] = key[u]
  BY <1>1 DEF ListIInv, ListTypes
<1>5. \A u \in Threads \ {t} : key[u] # None => travptrs'[key'[u]] = travptrs[key[u]]
  BY <1>2, <1>3, <1>4 DEF ListIInv, KeysKept
<1>6. \A u \in Threads : pc[u] = "body2" => key[u] # None
  BY DEF ListIInv, OpAgrees
<1>7. OpAgrees' /\ LocksExclude' /\ Adders' \subseteq Adders
  BY <1>1, <1>4, <1>5, <1>6, BodyStep
<1>8. ListTypes'
  BY <1>1, <1>3 DEF ListIInv, ListTypes, Goto, None
<1>9. KeysKept'
  BY <1>1, <1>3, <1>4, <1>5 DEF ListIInv, KeysKept, ListTypes, AtItem, AtEnd
<1> QED
  BY <1>1, <1>7, <1>8, <1>9, ReservedStep DEF ListIInv

\* A traversal moves on by one item.
LEMMA GetdataReturnsStep ==
    ASSUME ListIInv, NEW t \in Threads, GetdataReturns(t)
    PROVE  ListIInv'
<1> DEFINE new == IF next[t] = length THEN EndList ELSE next[t] + 1
<1>1. /\ Goto(t, "body2", "unlock") /\ next[t] \in 1..length
      /\ travptrs' = [travptrs EXCEPT ![key[t]] = new]
      /\ seen' = [seen EXCEPT ![t] = Append(@, next[t])]
      /\ UNCHANGED <<length, locks, op, next, key, from>>
  BY DEF GetdataReturns
<1>2. new \in Nat /\ length \in Nat /\ MaxItems \in Nat /\ length < EndList
  BY <1>1, BoundsAssumption DEF ListIInv, ListTypes, EndList
<1> HIDE DEF new
<1>3. key[t] # None /\ next[t] = travptrs[key[t]]
  BY <1>1 DEF ListIInv, OpAgrees, Goto
<1>4. key[t] \in 1..Len(travptrs) /\ \A u \in Threads \ {t} : key[u] # key[t]
  BY <1>3 DEF ListIInv, KeysKept
<1>5. /\ travptrs' \in Seq(Nat) /\ Len(travptrs') = Len(travptrs)
      /\ \A s \in 1..Len(travptrs) : travptrs'[s] = IF s = key[t] THEN new ELSE travptrs[s]
  BY <1>1, <1>2, <1>4, ExceptSeq DEF ListIInv, ListTypes
<1>6. \A u \in Threads \ {t} : key[u] # None => travptrs'[key[u]] = travptrs[key[u]]
  BY <1>4, <1>5 DEF ListIInv, KeysKept
<1>7. \A u \in Threads : pc[u] = "body2" => key[u] # None
  BY DEF ListIInv, OpAgrees
<1>8. OpAgrees' /\ LocksExclude' /\ Adders' \subseteq Adders
  BY <1>1, <1>6, <1>7, BodyStep
<1>9. seen[t] \in Seq(Nat) /\ Len(seen[t]) \in Nat /\ InOrder(seen[t]) /\ from[t] <= length /\ from[t] \in Nat
  BY <1>3 DEF ListIInv, ListTypes, KeysKept
<1>10. next[t] = Len(seen[t]) + 1
  BY <1>1, <1>2, <1>3 DEF ListIInv, KeysKept, AtItem, AtEnd
<1>11. InOrder(seen'[t]) /\ Len(seen'[t]) = next[t] /\ seen'[t] \in Seq(Nat)
  BY <1>1, <1>9, <1>10, AppendInOrder DEF ListIInv, ListTypes
<1>12. (AtItem(t) \/ AtEnd(t))'
  BY <1>1, <1>2, <1>4, <1>5, <1>9, <1>11 DEF AtItem, AtEnd, new, EndList
<1>13. \A u \in Threads \ {t} : UNCHANGED <<seen[u], key[u], from[u]>>
  BY <1>1 DEF ListIInv, ListTypes
<1>14. ListTypes'
  BY <1>1, <1>5, <1>11 DEF ListIInv, ListTypes, Goto
<1>15. KeysKept'
  <2>1. ASSUME NEW u \in Threads \ {t}, key[u] # None
        PROVE  (AtItem(u) \/ AtEnd(u))'
    BY <2>1, <1>1, <1>6, <1>13 DEF ListIInv, KeysKept, AtItem, AtEnd
  <2>2. ASSUME NEW u \in Threads \ {t}, key[u] # None PROVE InOrder(seen'[u])
    BY <2>2, <1>13 DEF ListIInv, KeysKept
  <2> QED
    BY <1>1, <1>5, <1>11, <1>12, <1>13, <2>1, <2>2 DEF ListIInv, KeysKept
<1> QED
  BY <1>1, <1>8, <1>14, <1>15, ReservedStep DEF ListIInv

\* accessdata gives a slot that no traversal has: the first of a new newtable, the
\* lowest free one, or the first of the new half of a newtable that grows.
LEMMA SlotGiven ==
    ASSUME ListIInv, NEW t \in Threads, Accessdata(t)
    PROVE  \E slot \in 1..Len(travptrs') :
               /\ Give(t, slot)
               /\ travptrs' \in Seq(Nat) /\ Len(travptrs') >= Len(travptrs)
               /\ travptrs'[slot] = 1
               /\ \A s \in 1..Len(travptrs) : s # slot => travptrs'[s] = travptrs[s]
               /\ slot \in 1..Len(travptrs) => travptrs[slot] = Null
<1> USE DEF Null
<1>1. travptrs \in Seq(Nat) /\ Len(travptrs) \in Nat
  BY DEF ListIInv, ListTypes
<1>2. CASE travptrs = << >>
  <2> DEFINE newtable == [s \in 1..InitSize |-> IF s = 1 THEN 1 ELSE 0]
  <2>1. travptrs' = newtable /\ Give(t, 1)
    BY <1>2 DEF Accessdata
  <2>2. InitSize \in Nat /\ 1 \in 1..InitSize
    BY InitSizeAssumption
  <2>3. newtable \in [1..InitSize -> Nat]
    OBVIOUS
  <2>4. newtable \in Seq(Nat) /\ Len(newtable) = InitSize /\ newtable[1] = 1
    BY <2>2, <2>3
  <2> HIDE DEF newtable
  <2>5. Len(travptrs) = 0 /\ 1..Len(travptrs) = {}
    BY <1>2
  <2> QED
    BY <2>1, <2>2, <2>4, <2>5
<1>3. CASE travptrs # << >> /\ FreeSlots # {}
  <2> DEFINE slot == CHOOSE s \in FreeSlots : \A u \in FreeSlots : s <= u
  <2>1. travptrs' = [travptrs EXCEPT ![slot] = 1] /\ Give(t, slot)
    BY <1>3 DEF Accessdata
  <2>2. FreeSlots \subseteq Nat
    BY <1>1 DEF FreeSlots
  <2>3. slot \in FreeSlots
    BY <1>3, <2>2, LowestSlot, Zenon
  <2> HIDE DEF slot
  <2>4. slot \in 1..Len(travptrs) /\ travptrs[slot] = 0
    BY <2>3 DEF FreeSlots
  <2>5. /\ travptrs' \in Seq(Nat) /\ Len(travptrs') = Len(travptrs)
        /\ \A s \in 1..Len(travptrs) : travptrs'[s] = IF s = slot THEN 1 ELSE travptrs[s]
    BY <1>1, <2>1, <2>4, ExceptSeq
  <2> QED
    BY <1>1, <2>1, <2>4, <2>5
<1>4. CASE travptrs # << >> /\ FreeSlots = {}
  <2>1. PICK rest \in [1..(Len(travptrs) - 1) -> {0, Junk}] :
            travptrs' = travptrs \o <<1>> \o rest /\ Give(t, Len(travptrs) + 1)
    BY <1>4 DEF Accessdata
  <2>2. Len(travptrs) - 1 \in Nat
    BY <1>1, <1>4
  <2>3. Junk \in Nat
    BY BoundsAssumption DEF Junk
  <2>4. rest \in Seq(Nat) /\ Len(rest) = Len(travptrs) - 1
    <3>1. rest \in [1..(Len(travptrs) - 1) -> Nat]
      BY <2>3
    <3> QED
      BY <3>1, <2>2
  <2> DEFINE front == travptrs \o <<1>>
  <2>5. /\ front \in Seq(Nat) /\ Len(front) = Len(travptrs) + 1
        /\ front[Len(travptrs) + 1] = 1
        /\ \A s \in 1..Len(travptrs) : front[s] = travptrs[s]
    BY <1>1
  <2> HIDE DEF front
  <2>6. travptrs' = front \o rest
    BY <2>1 DEF front
  <2>7. /\ travptrs' \in Seq(Nat) /\ Len(travptrs') = Len(front) + Len(rest)
        /\ \A s \in 1..Len(front) : travptrs'[s] = front[s]
    <3>1. /\ front \o rest \in Seq(Nat)
          /\ Len(front \o rest) = Len(front) + Len(rest)
          /\ \A i \in 1..(Len(front) + Len(rest)) :
                 (front \o rest)[i] = IF i <= Len(front) THEN front[i] ELSE rest[i - Len(front)]
      BY <2>4, <2>5, ConcatProperties, Zenon
    <3>2. Len(front) \in Nat /\ Len(rest) \in Nat
      BY <2>4, <2>5, LenProperties
    <3> QED
      BY <2>6, <3>1, <3>2
  <2>8. Len(travptrs) + 1 \in 1..Len(travptrs') /\ Len(travptrs') >= Len(travptrs)
    <3>1. Len(travptrs') = (Len(travptrs) + 1) + (Len(travptrs) - 1)
      BY <2>4, <2>5, <2>7
    <3> QED
      BY <1>1, <2>2, <3>1
  <2> DEFINE slot == Len(travptrs) + 1
  <2>9. slot \notin 1..Len(travptrs) /\ slot \in 1..Len(front) /\ 1..Len(travptrs) \subseteq 1..Len(front)
    BY <1>1, <2>5
  <2>10. travptrs'[slot] = 1 /\ \A s \in 1..Len(travptrs) : travptrs'[s] = travptrs[s]
    BY <2>5, <2>7, <2>9
  <2>11. slot \in 1..Len(travptrs') /\ Give(t, slot)
    BY <2>1, <2>8
  <2> HIDE DEF slot
  <2> QED
    BY <2>7, <2>8, <2>9, <2>10, <2>11, Zenon
<1> QED
  BY <1>2, <1>3, <1>4

LEMMA AccessdataStep ==
    ASSUME ListIInv, NEW t \in Threads, Accessdata(t)
    PROVE  ListIInv'
<1>1. PICK slot \in 1..Len(travptrs') :
               /\ Give(t, slot)
               /\ travptrs' \in Seq(Nat) /\ Len(travptrs') >= Len(travptrs)
               /\ travptrs'[slot] = 1
               /\ \A s \in 1..Len(travptrs) : s # slot => travptrs'[s] = travptrs[s]
               /\ slot \in 1..Len(travptrs) => travptrs[slot] = Null
  BY SlotGiven
<1>2. /\ Goto(t, "body", "unlock") /\ length > 0
      /\ UNCHANGED <<length, locks, op, next>>
  BY DEF Accessdata, Body
<1>3. /\ key' = [key EXCEPT ![t] = slot]
      /\ seen' = [seen EXCEPT ![t] = << >>]
      /\ from' = [from EXCEPT ![t] = length]
  BY <1>1 DEF Give
<1>4. length \in Nat /\ Len(travptrs) \in Nat /\ Len(travptrs') \in Nat /\ EndList > 0
  BY <1>1, BoundsAssumption DEF ListIInv, ListTypes, EndList
<1>5. \A u \in Threads : key[u] # None => key[u] \in 1..Len(travptrs) /\ travptrs[key[u]] # Null
  BY <1>4 DEF ListIInv, KeysKept, AtItem, AtEnd, Null
<1>6. \A u \in Threads \ {t} : key[u] # None => /\ key[u] # slot
                                                /\ travptrs'[key[u]] = travptrs[key[u]]
  BY <1>1, <1>5
<1>7. \A u \in Threads \ {t} : UNCHANGED <<seen[u], key[u], from[u]>>
  BY <1>3 DEF ListIInv, ListTypes
<1>8. \A u \in Threads : pc[u] = "body2" => key[u] # None
  BY DEF ListIInv, OpAgrees
<1>9. OpAgrees' /\ LocksExclude' /\ Adders' \subseteq Adders
  BY <1>2, <1>6, <1>7, <1>8, BodyStep
<1>10. ListTypes'
  BY <1>1, <1>2, <1>3, <1>4, EmptySeq DEF ListIInv, ListTypes, Goto
<1>11. KeysKept'
  <2>1. key'[t] = slot /\ seen'[t] = << >> /\ from'[t] = length
    BY <1>3 DEF ListIInv, ListTypes
  <2>2. InOrder(seen'[t]) /\ AtItem(t)'
    BY <1>1, <1>2, <1>4, <2>1 DEF InOrder, AtItem
  <2>3. ASSUME NEW u \in Threads \ {t}, key[u] # None
        PROVE  (AtItem(u) \/ AtEnd(u))' /\ InOrder(seen'[u])
    <3>1. /\ seen'[u] = seen[u] /\ key'[u] = key[u] /\ from'[u] = from[u]
          /\ travptrs'[key[u]] = travptrs[key[u]] /\ length' = length
      BY <2>3, <1>2, <1>6, <1>7
    <3>2. (AtItem(u) \/ AtEnd(u)) /\ InOrder(seen[u])
      BY <2>3 DEF ListIInv, KeysKept
    <3> QED
      BY <3>1, <3>2 DEF AtItem, AtEnd
  <2> QED
    BY <1>1, <1>2, <1>4, <1>5, <1>6, <1>7, <2>1, <2>2, <2>3 DEF ListIInv, KeysKept
<1> QED
  BY <1>2, <1>9, <1>10, <1>11, ReservedStep DEF ListIInv

LEMMA ListNextIInv == ListIInv /\ [ListNext]_listvars => ListIInv'
<1> SUFFICES ASSUME ListIInv, [ListNext]_listvars PROVE ListIInv'
  OBVIOUS
<1>1. CASE UNCHANGED listvars
  BY <1>1 DEF listvars, client, ListIInv, ListTypes, Reserved, Adders, OpAgrees, LocksExclude,
     KeysKept, AtItem, AtEnd
<1>2. ASSUME NEW t \in Threads, ListStep(t) \/ LockFails(t) \/ UnlockFails(t) \/ BodyFails(t)
      PROVE  ListIInv'
  BY <1>2, LockStep, LeaveStep, BodyFailsStep, AccessdataStep, AdddataStep, KeyFreedStep,
     GetdataReadsStep, GetdataReturnsStep DEF ListStep
<1>3. ASSUME NEW t \in Threads, NEW f \in Functions, ListCall(t, f)
      PROVE  ListIInv'
  BY <1>3, CallStep
<1> QED
  BY <1>1, <1>2, <1>3 DEF ListNext, Functions

THEOREM ListInvariant == ListSpec => []ListIInv
BY ListInitIInv, ListNextIInv, PTL DEF ListSpec

\* A traversal is complete, in order and alone with its key, for any number of
\* traversals and adds at once, under the mutex and under the read-write lock, and
\* although calls fail and locks stay held.
THEOREM ListTraversalIsComplete == ListSpec => []TraversalIsComplete
<1>1. ListIInv => TraversalIsComplete
  <2> SUFFICES ASSUME ListIInv PROVE TraversalIsComplete
    OBVIOUS
  <2>1. length \in Nat /\ EndList \notin 1..length
    BY BoundsAssumption DEF ListIInv, ListTypes, EndList
  <2>2. ASSUME NEW t \in Threads, key[t] # None
        PROVE  /\ travptrs[key[t]] \in (1..length) \cup {EndList}
               /\ \A u \in Threads \ {t} : key[u] # key[t]
               /\ seen[t] = [i \in 1..Len(seen[t]) |-> i]
               /\ travptrs[key[t]] = EndList => Len(seen[t]) >= from[t]
    BY <2>1, <2>2 DEF ListIInv, ListTypes, KeysKept, AtItem, AtEnd, InOrder
  <2>3. ASSUME NEW t \in Inside, NEW u \in Inside, t # u
        PROVE  op[t] = "getdata" /\ op[u] = "getdata" /\ key[t] # key[u]
    <3>1. op[t] = "getdata" /\ op[u] = "getdata"
      BY <2>3, ReadLockedAssumption DEF Inside, ListIInv, LocksExclude
    <3>2. key[t] # None /\ key[u] # None
      BY <3>1 DEF Inside, ListIInv, OpAgrees
    <3> QED
      BY <2>3, <3>1, <3>2 DEF Inside, ListIInv, KeysKept
  <2> QED
    BY <2>2, <2>3 DEF TraversalIsComplete
<1> QED
  BY <1>1, ListInvariant, PTL

-----------------------------------------------------------------------------
(* The bounded buffers of BufferVariants.                                  *)

Begun == {"unborn", "make", "init", "end"}
Coming == {"init", "semwait", "lock", "body", "waiting", "woken", "again"}
VarPlaces == Begun \cup Coming \cup {"signal", "unlock", "post"}

VarTypes ==
    /\ variant \in Variants
    /\ bmain \in {"create", "run", "shown", "exit"}
    /\ bpc \in [Users -> VarPlaces]
    /\ ringed \in Array(RingSize, Nat)
    /\ bufin \in 0..(RingSize - 1) /\ bufout \in 0..(RingSize - 1) /\ totalitems \in Nat
    /\ permits \in [items : Nat, slots : Nat] /\ inited \in {"new", "done", "failed"}
    /\ puts \in Seq(Nat) /\ gets \in Seq(Nat)
    /\ hand \in [Users -> Nat] /\ added \in Nat
    /\ bshown \in Seq(Nat)

\* Which places belong to which buffer, and that nobody comes past an
\* initialization that was not done.
VarPlaced ==
    /\ bmain = "create" => inited = "new" /\ \A t \in Users : bpc[t] = "unborn"
    /\ variant.init = "main" /\ bmain # "create" => inited = "done"
    /\ Sync = "sem" /\ inited # "done" =>
           /\ permits.items = 0 /\ permits.slots = 0 /\ totalitems = 0
           /\ \A t \in Users : bpc[t] \in Begun
    /\ \A t \in Users : /\ bpc[t] \in {"waiting", "woken", "signal"} => Sync = "cond"
                        /\ bpc[t] = "again" => Sync = "test"
                        /\ bpc[t] \in {"init", "semwait", "post"} => Sync = "sem"
                        /\ bpc[t] = "init" => variant.init \in {"mutex", "once"}

\* The items are put and taken in the order of their numbers; the ring holds those
\* in between, each in the slot of its number.
Numbered ==
    Sync # "bad" =>
        /\ totalitems = Len(puts) - Len(gets) /\ totalitems <= RingSize
        /\ bufout = Wrapped(Len(gets), RingSize) /\ bufin = Wrapped(Len(puts), RingSize)
        /\ \A i \in 1..Len(puts) : puts[i] = i
        /\ \A i \in 1..Len(gets) : gets[i] = i
        /\ \A k \in Len(gets)..(Len(puts) - 1) : ringed[Wrapped(k, RingSize)] = k + 1

\* A consumer on its way to an item has none.
InHand == {t \in Getters : hand[t] # 0}
HandsCounted ==
    Sync # "bad" =>
        /\ \A t \in Getters : bpc[t] \in Coming \cup {"unborn"} => hand[t] = 0
        /\ Len(gets) = added + Cardinality(InHand)

\* A thread past its semaphore has an item, or a slot, of its own until it
\* has moved one, and then owes one of the other kind.
ItemsClaimed == {t \in Users : IF t \in Getters THEN bpc[t] \in {"lock", "body"} ELSE bpc[t] \in {"unlock", "post"}}
SlotsClaimed == {t \in Users : IF t \in Getters THEN bpc[t] \in {"unlock", "post"} ELSE bpc[t] \in {"lock", "body"}}
Backed ==
    Sync = "sem" =>
        /\ permits.items + Cardinality(ItemsClaimed) <= totalitems
        /\ inited = "done" => permits.slots + Cardinality(SlotsClaimed) + totalitems <= RingSize

\* The results were shown in the order in which they grew.
ShownInOrder ==
    /\ bmain \in {"create", "run"} => bshown = <<>>
    /\ bmain = "shown" => Len(bshown) = 1
    /\ \A i \in 1..Len(bshown) : bshown[i] <= added
    /\ Len(bshown) = 2 => bshown[1] <= bshown[2]

VarIInv == VarTypes /\ VarPlaced /\ Numbered /\ HandsCounted /\ Backed /\ ShownInOrder

-----------------------------------------------------------------------------

LEMMA VariantsAgree ==
    ASSUME VarTypes
    PROVE  /\ Sync \in {"bad", "test", "cond", "sem"} /\ variant.init \in {"no", "main", "mutex", "once"}
           /\ Sync = "sem" <=> variant.init # "no"
<1>1. CASE variant = bufferbad
  BY <1>1 DEF bufferbad, Sync
<1>2. CASE variant = buffer
  BY <1>2 DEF buffer, Sync
<1>3. CASE variant = buffercond
  BY <1>3 DEF buffercond, Sync
<1>4. CASE variant = bufferseminit
  BY <1>4 DEF bufferseminit, Sync
<1>5. CASE variant = bufferinitmutex
  BY <1>5 DEF bufferinitmutex, Sync
<1>6. CASE variant = bufferinitonce
  BY <1>6 DEF bufferinitonce, Sync
<1> QED
  BY <1>1, <1>2, <1>3, <1>4, <1>5, <1>6, VariantsAssumption DEF VarTypes

LEMMA UsersFinite == IsFiniteSet(Users) /\ IsFiniteSet(Getters) /\ Getters \subseteq Users
BY UsersAssumption, FS_Union DEF Users

\* Two multiples of the size are as far apart.
LEMMA Multiples ==
    ASSUME NEW a \in Nat, NEW b \in Nat, a < b
    PROVE  RingSize * a + RingSize <= RingSize * b
<1> DEFINE c == b - a - 1
<1>1. c \in Nat /\ b = a + c + 1 /\ RingSize \in Nat
  BY RingSizeAssumption
<1> HIDE DEF c
<1>2. RingSize * c \in Nat /\ RingSize * a \in Nat
  BY <1>1
<1>3. RingSize * (a + c + 1) = RingSize * a + RingSize * c + RingSize
  BY <1>1
<1> QED
  BY <1>1, <1>2, <1>3

\* A number is in one slot only.
LEMMA WrapIs ==
    ASSUME NEW q \in Nat, NEW r \in 0..(RingSize - 1), NEW n \in Nat, n = RingSize * q + r
    PROVE  Wrapped(n, RingSize) = r
<1> DEFINE p == n \div RingSize
           s == n % RingSize
<1>1. s \in 0..(RingSize - 1) /\ p \in Nat /\ n = RingSize * p + s
  <2>1. n = RingSize * (n \div RingSize) + (n % RingSize)
    BY RingSizeAssumption
  <2> QED
    BY <2>1, RingSizeAssumption
<1> HIDE DEF p, s
<1>2. RingSize \in Nat /\ RingSize * p \in Nat /\ RingSize * q \in Nat
  BY <1>1, RingSizeAssumption
<1>3. ~(p < q)
  <2> SUFFICES ASSUME p < q PROVE FALSE
    OBVIOUS
  <2>1. RingSize * p + RingSize <= RingSize * q
    BY <1>1, Multiples
  <2> QED
    BY <1>1, <1>2, <2>1
<1>4. ~(q < p)
  <2> SUFFICES ASSUME q < p PROVE FALSE
    OBVIOUS
  <2>1. RingSize * q + RingSize <= RingSize * p
    BY <1>1, Multiples
  <2> QED
    BY <1>1, <1>2, <2>1
<1>5. p = q
  BY <1>1, <1>3, <1>4
<1>6. s = r
  BY <1>1, <1>2, <1>5
<1> QED
  BY <1>6 DEF s, Wrapped

\* The slot of the next number, and numbers that are in different slots.
LEMMA WrapNext ==
    ASSUME NEW n \in Nat
    PROVE  (Wrapped(n, RingSize) + 1) % RingSize = Wrapped(n + 1, RingSize)
<1> DEFINE q == n \div RingSize
           r == n % RingSize
<1>1. r \in 0..(RingSize - 1) /\ q \in Nat /\ n = RingSize * q + r
  <2>1. n = RingSize * (n \div RingSize) + (n % RingSize)
    BY RingSizeAssumption
  <2> QED
    BY <2>1, RingSizeAssumption
<1>2. Wrapped(n, RingSize) = r
  BY DEF Wrapped
<1> HIDE DEF q, r
<1>3. CASE r + 1 < RingSize
  <2>1. n + 1 = RingSize * q + (r + 1) /\ r + 1 \in 0..(RingSize - 1)
    BY <1>1, <1>3, RingSizeAssumption
  <2>2. Wrapped(n + 1, RingSize) = r + 1
    BY <1>1, <2>1, WrapIs
  <2>3. (r + 1) % RingSize = r + 1
    BY <1>1, <1>3, RingSizeAssumption
  <2> QED
    BY <1>2, <2>2, <2>3
<1>4. CASE r + 1 = RingSize
  <2>1. RingSize * (q + 1) = RingSize * q + RingSize /\ q + 1 \in Nat
    BY <1>1, RingSizeAssumption
  <2>2. n + 1 = RingSize * (q + 1) + 0 /\ 0 \in 0..(RingSize - 1) /\ n + 1 \in Nat
    BY <1>1, <1>4, <2>1, RingSizeAssumption
  <2>3. Wrapped(n + 1, RingSize) = 0
    BY <2>1, <2>2, WrapIs
  <2>4. RingSize % RingSize = 0
    BY RingSizeAssumption
  <2> QED
    BY <1>2, <1>4, <2>3, <2>4
<1> QED
  BY <1>1, <1>3, <1>4, RingSizeAssumption

LEMMA WrapDiffers ==
    ASSUME NEW k \in Nat, NEW n \in Nat, k < n, n - k < RingSize
    PROVE  Wrapped(k, RingSize) # Wrapped(n, RingSize)
<1> DEFINE q == k \div RingSize
           r == k % RingSize
<1>1. r \in 0..(RingSize - 1) /\ q \in Nat /\ k = RingSize * q + r
  <2>1. k = RingSize * (k \div RingSize) + (k % RingSize)
    BY RingSizeAssumption
  <2> QED
    BY <2>1, RingSizeAssumption
<1>2. Wrapped(k, RingSize) = r
  BY DEF Wrapped
<1> HIDE DEF q, r
<1> DEFINE d == r + (n - k)
<1>3. d \in Nat /\ d > r /\ d < r + RingSize /\ n = RingSize * q + d /\ RingSize * q \in Nat
  BY <1>1, RingSizeAssumption
<1> HIDE DEF d
<1>4. CASE d < RingSize
  <2>1. Wrapped(n, RingSize) = d
    BY <1>1, <1>3, <1>4, RingSizeAssumption, WrapIs
  <2> QED
    BY <1>1, <1>2, <1>3, <2>1
<1>5. CASE d >= RingSize
  <2>1. RingSize * (q + 1) = RingSize * q + RingSize /\ q + 1 \in Nat
    BY <1>1, RingSizeAssumption
  <2>2. n = RingSize * (q + 1) + (d - RingSize) /\ d - RingSize \in 0..(RingSize - 1)
    BY <1>1, <1>3, <1>5, <2>1, RingSizeAssumption
  <2>3. Wrapped(n, RingSize) = d - RingSize
    BY <2>1, <2>2, WrapIs
  <2> QED
    BY <1>1, <1>2, <1>3, <2>3, RingSizeAssumption
<1> QED
  BY <1>1, <1>3, <1>4, <1>5, RingSizeAssumption

\* Thread t goes on to place q.
Goes(t, q) ==
    /\ bpc' \in [Users -> VarPlaces] /\ bpc'[t] = q
    /\ \A u \in Users \ {t} : bpc'[u] = bpc[u]

LEMMA GoesOn ==
    ASSUME VarTypes, NEW t \in Users, NEW q \in VarPlaces, bpc' = [bpc EXCEPT ![t] = q]
    PROVE  Goes(t, q)
BY DEF VarTypes, Goes

PlaceOk(q) ==
    /\ q \in {"waiting", "woken", "signal"} => Sync = "cond"
    /\ q = "again" => Sync = "test"
    /\ q \in {"init", "semwait", "post"} => Sync = "sem"
    /\ q = "init" => variant.init \in {"mutex", "once"}

LEMMA PlacedKept ==
    ASSUME VarTypes, VarPlaced, bmain # "create", bmain' # "create", UNCHANGED variant,
           \A u \in Users : bpc'[u] = bpc[u] \/ PlaceOk(bpc'[u]),
           variant.init = "main" => inited' = inited,
           Sync = "sem" /\ inited' # "done" =>
               /\ inited # "done" /\ permits' = permits /\ totalitems' = totalitems
               /\ \A u \in Users : bpc'[u] = bpc[u] \/ bpc'[u] \in Begun
    PROVE  VarPlaced'
<1>1. Sync' = Sync
  BY DEF Sync
<1> QED
  BY <1>1 DEF VarPlaced, PlaceOk

\* What a step of one thread gives and takes.
LEMMA BackedKept ==
    ASSUME VarTypes, VarTypes', Backed, UNCHANGED variant, NEW t \in Users, NEW q, Goes(t, q),
           inited' = "done" => inited = "done",
           permits.items' + (IF t \in ItemsClaimed' THEN 1 ELSE 0) + totalitems
               <= permits.items + (IF t \in ItemsClaimed THEN 1 ELSE 0) + totalitems',
           permits.slots' + (IF t \in SlotsClaimed' THEN 1 ELSE 0) + totalitems'
               <= permits.slots + (IF t \in SlotsClaimed THEN 1 ELSE 0) + totalitems
    PROVE  Backed'
<1>1. Shift(ItemsClaimed, ItemsClaimed', t)
  <2>1. ItemsClaimed \in SUBSET Users /\ ItemsClaimed' \in SUBSET Users
    BY DEF ItemsClaimed
  <2>2. \A u \in Users \ {t} : u \in ItemsClaimed <=> u \in ItemsClaimed'
    BY DEF ItemsClaimed, Goes
  <2> QED
    BY <2>1, <2>2, UsersFinite, OneMoves
<1>2. Shift(SlotsClaimed, SlotsClaimed', t)
  <2>1. SlotsClaimed \in SUBSET Users /\ SlotsClaimed' \in SUBSET Users
    BY DEF SlotsClaimed
  <2>2. \A u \in Users \ {t} : u \in SlotsClaimed <=> u \in SlotsClaimed'
    BY DEF SlotsClaimed, Goes
  <2> QED
    BY <2>1, <2>2, UsersFinite, OneMoves
<1>3. Sync' = Sync
  BY DEF Sync
<1>4. permits \in [items : Nat, slots : Nat] /\ permits' \in [items : Nat, slots : Nat]
      /\ totalitems \in Nat /\ totalitems' \in Nat
  BY DEF VarTypes
<1> DEFINE c == Cardinality(ItemsClaimed)
           d == Cardinality(ItemsClaimed')
           e == Cardinality(SlotsClaimed)
           f == Cardinality(SlotsClaimed')
<1>5. /\ c \in Nat /\ d \in Nat /\ e \in Nat /\ f \in Nat
      /\ d + (IF t \in ItemsClaimed THEN 1 ELSE 0) = c + (IF t \in ItemsClaimed' THEN 1 ELSE 0)
      /\ f + (IF t \in SlotsClaimed THEN 1 ELSE 0) = e + (IF t \in SlotsClaimed' THEN 1 ELSE 0)
  BY <1>1, <1>2 DEF Shift
<1>6. Sync = "sem" => permits.items + c <= totalitems
  BY DEF Backed
<1>7. Sync = "sem" /\ inited = "done" => permits.slots + e + totalitems <= RingSize
  BY DEF Backed
<1> HIDE DEF c, d, e, f
<1>8. Sync = "sem" => permits'.items + d <= totalitems'
  BY <1>4, <1>5, <1>6
<1>9. Sync = "sem" /\ inited' = "done" => permits'.slots + f + totalitems' <= RingSize
  BY <1>4, <1>5, <1>7, RingSizeAssumption
<1> QED
  BY <1>3, <1>8, <1>9 DEF Backed, c, d, e, f

\* The steps that leave the permits alone.
LEMMA BackedStill ==
    ASSUME VarTypes, Backed, UNCHANGED <<variant, permits, totalitems>>, NEW t \in Users, NEW q, Goes(t, q),
           Sync = "sem" /\ inited' = "done" => inited = "done",
           Sync = "sem" => (t \in ItemsClaimed <=> t \in ItemsClaimed') /\ (t \in SlotsClaimed <=> t \in SlotsClaimed')
    PROVE  Backed'
<1>1. Sync' = Sync
  BY DEF Sync
<1> SUFFICES ASSUME Sync = "sem" PROVE Backed'
  BY <1>1 DEF Backed
<1>2. \A u \in Users \ {t} : bpc'[u] = bpc[u]
  BY DEF Goes
<1>3. \A u \in Users \ {t} : (u \in ItemsClaimed <=> u \in ItemsClaimed') /\ (u \in SlotsClaimed <=> u \in SlotsClaimed')
  BY <1>2 DEF ItemsClaimed, SlotsClaimed
<1>4. ItemsClaimed \in SUBSET Users /\ ItemsClaimed' \in SUBSET Users /\ SlotsClaimed \in SUBSET Users /\ SlotsClaimed' \in SUBSET Users
  BY DEF ItemsClaimed, SlotsClaimed
<1>5. ItemsClaimed' = ItemsClaimed
  BY <1>3, <1>4
<1>6. SlotsClaimed' = SlotsClaimed
  BY <1>3, <1>4
<1> QED
  BY <1>1, <1>5, <1>6 DEF Backed

LEMMA Appended ==
    ASSUME NEW s \in Seq(Nat), NEW v \in Nat
    PROVE  /\ Append(s, v) \in Seq(Nat) /\ Len(Append(s, v)) = Len(s) + 1
           /\ Append(s, v)[Len(s) + 1] = v
           /\ \A i \in 1..Len(s) : Append(s, v)[i] = s[i]
OBVIOUS

LEMMA LastLargest ==
    ASSUME NEW s \in Seq(Nat), NEW v \in Nat, \A i \in 1..Len(s) : s[i] <= v
    PROVE  Len(Append(s, v)) = 2 => Append(s, v)[1] <= Append(s, v)[2]
<1> SUFFICES ASSUME Len(Append(s, v)) = 2 PROVE Append(s, v)[1] <= Append(s, v)[2]
  OBVIOUS
<1>1. Len(s) = 1
  <2>1. Len(s) \in Nat /\ Len(s) + 1 = 2
    BY Appended
  <2> DEFINE n == Len(s)
  <2>2. n \in Nat /\ n + 1 = 2
    BY <2>1
  <2> HIDE DEF n
  <2>3. n = 1
    BY <2>2
  <2> QED
    BY <2>3 DEF n
<1>2. Append(s, v)[2] = v /\ Append(s, v)[1] = s[1]
  BY <1>1, Appended
<1> QED
  BY <1>1, <1>2

\* A thread that goes from a to b moves no item, and claims none.
PlainGo(a, b) ==
    /\ b \in VarPlaces /\ PlaceOk(b) /\ (inited = "done" \/ a \notin Begun \/ b \in Begun)
    /\ b \in Coming => a \in Coming
    /\ b # "unborn"
    /\ Sync = "sem" => /\ b \in {"lock", "body"} => a \in {"lock", "body"}
                       /\ b \in {"unlock", "post"} => a \in {"unlock", "post"}

LEMMA PlainStep ==
    ASSUME VarIInv, bmain # "create", UNCHANGED <<variant, bmain, contents, permits, inited, hand, added, bshown>>,
           bpc' \in [Users -> VarPlaces], \A u \in Users : bpc'[u] = bpc[u] \/ PlainGo(bpc[u], bpc'[u])
    PROVE  VarIInv'
<1> USE DEF VarIInv
<1>1. /\ Sync' = Sync /\ InHand' = InHand /\ Getters \subseteq Users
      /\ UNCHANGED <<ringed, bufin, bufout, totalitems, puts, gets>>
  BY UsersFinite DEF Sync, InHand, contents
<1>2. VarTypes'
  BY <1>1 DEF VarTypes
<1>3. VarPlaced'
  <2>1. \A u \in Users : bpc'[u] = bpc[u] \/ PlaceOk(bpc'[u])
    BY DEF PlainGo
  <2>2. Sync = "sem" /\ inited' # "done" => \A u \in Users : bpc'[u] = bpc[u] \/ bpc'[u] \in Begun
    BY DEF PlainGo, VarPlaced
  <2> QED
    BY <1>1, <2>1, <2>2, PlacedKept
<1>4. Numbered'
  BY <1>1 DEF Numbered
<1>5. HandsCounted'
  <2>1. \A u \in Getters : bpc'[u] \in Coming \cup {"unborn"} => bpc[u] \in Coming \cup {"unborn"}
    BY <1>1 DEF PlainGo
  <2> QED
    BY <1>1, <2>1 DEF HandsCounted
<1>6. Backed'
  <2> SUFFICES ASSUME Sync = "sem" PROVE Backed'
    BY <1>1 DEF Backed
  <2>1. \A u \in Users : /\ bpc'[u] \in {"lock", "body"} => bpc[u] \in {"lock", "body"}
                         /\ bpc'[u] \in {"unlock", "post"} => bpc[u] \in {"unlock", "post"}
    BY DEF PlainGo
  <2>2. ItemsClaimed' \subseteq ItemsClaimed /\ SlotsClaimed' \subseteq SlotsClaimed
    BY <2>1 DEF ItemsClaimed, SlotsClaimed
  <2>3. IsFiniteSet(ItemsClaimed) /\ IsFiniteSet(SlotsClaimed)
    BY UsersFinite, FS_Subset DEF ItemsClaimed, SlotsClaimed
  <2>4. /\ Cardinality(ItemsClaimed) \in Nat /\ Cardinality(ItemsClaimed') \in Nat
        /\ Cardinality(ItemsClaimed') <= Cardinality(ItemsClaimed)
    BY <2>2, <2>3, FS_Subset, FS_CardinalityType
  <2>5. /\ Cardinality(SlotsClaimed) \in Nat /\ Cardinality(SlotsClaimed') \in Nat
        /\ Cardinality(SlotsClaimed') <= Cardinality(SlotsClaimed)
    BY <2>2, <2>3, FS_Subset, FS_CardinalityType
  <2>6. permits \in [items : Nat, slots : Nat] /\ permits' = permits /\ totalitems \in Nat
    BY DEF VarTypes
  <2>7. permits.items + Cardinality(ItemsClaimed') <= totalitems
    BY <2>4, <2>6 DEF Backed
  <2>8. inited = "done" => permits.slots + Cardinality(SlotsClaimed') + totalitems <= RingSize
    BY <2>5, <2>6, RingSizeAssumption DEF Backed
  <2> QED
    BY <1>1, <2>6, <2>7, <2>8 DEF Backed
<1>7. ShownInOrder'
  BY DEF ShownInOrder
<1> QED
  BY <1>2, <1>3, <1>4, <1>5, <1>6, <1>7

\* The same for a step of one thread.
LEMMA PlainOne ==
    ASSUME VarIInv, NEW t \in Users, NEW q \in VarPlaces, Next1(t, bpc[t], q), PlainGo(bpc[t], q), bpc[t] # "unborn",
           UNCHANGED <<variant, bmain, contents, permits, inited, hand, added, bshown>>
    PROVE  VarIInv'
<1>1. Goes(t, q)
  BY GoesOn DEF Next1, VarIInv
<1>2. bmain # "create"
  BY DEF VarIInv, VarPlaced
<1>3. \A u \in Users : bpc'[u] = bpc[u] \/ PlainGo(bpc[u], bpc'[u])
  BY <1>1 DEF Goes
<1> QED
  BY <1>1, <1>2, <1>3, PlainStep DEF Goes

LEMMA VarEnds ==
    ASSUME VarIInv, NEW t \in Users, NEW p, GiveError(t, p), p # "unborn",
           UNCHANGED <<variant, bmain, contents, permits, inited, hand, added, bshown>>
    PROVE  VarIInv'
<1>1. bpc[t] = p /\ Next1(t, bpc[t], "end")
  BY DEF GiveError, Next1, At
<1>2. "end" \in VarPlaces /\ PlainGo(bpc[t], "end")
  BY DEF VarPlaces, PlainGo, PlaceOk, Begun, Coming
<1> QED
  BY <1>1, <1>2, PlainOne

-----------------------------------------------------------------------------
(* The steps.                                                              *)

LEMMA VarInitIInv == VariantInit => VarIInv
<1> SUFFICES ASSUME VariantInit PROVE VarIInv
  OBVIOUS
<1> USE DEF VariantInit
<1>1. VarTypes
  <2>1. ringed \in Array(RingSize, Nat)
    BY DEF Array
  <2> QED
    BY <2>1, RingSizeAssumption DEF VarTypes, VarPlaces, Begun
<1>2. VarPlaced
  <2>1. \A t \in Users : bpc[t] = "unborn"
    OBVIOUS
  <2> QED
    BY <2>1 DEF VarPlaced, Begun
<1>3. Numbered
  <2>1. Wrapped(0, RingSize) = 0
    BY RingSizeAssumption DEF Wrapped
  <2> QED
    BY <2>1, RingSizeAssumption DEF Numbered
<1>4. HandsCounted
  <2>1. InHand = {} /\ \A t \in Getters : hand[t] = 0
    BY UsersFinite DEF InHand
  <2>2. Cardinality({}) = 0
    BY FS_EmptySet
  <2> QED
    BY <2>1, <2>2 DEF HandsCounted
<1>5. Backed
  <2>1. ItemsClaimed = {}
    BY DEF ItemsClaimed
  <2>2. Cardinality({}) = 0
    BY FS_EmptySet
  <2> QED
    BY <2>1, <2>2 DEF Backed
<1>6. ShownInOrder
  BY DEF ShownInOrder
<1> QED
  BY <1>1, <1>2, <1>3, <1>4, <1>5, <1>6 DEF VarIInv

LEMMA MainKeeps == VarIInv /\ randpcforever => VarIInv'
<1> SUFFICES ASSUME VarIInv, randpcforever PROVE VarIInv'
  OBVIOUS
<1> USE DEF VarIInv, randpcforever
<1>1. /\ UNCHANGED <<variant, bufferlock, hand, added, anerror>>
      /\ UNCHANGED <<ringed, bufin, bufout, totalitems, puts, gets>> /\ Sync' = Sync /\ InHand' = InHand
  BY DEF contents, Sync, InHand
<1>2. CASE bmain = "create"
  <2>1. /\ bmain' \in {"run", "exit"} /\ bshown' = bshown
        /\ bpc' = bpc \/ bpc' = [t \in Users |-> "make"]
        /\ IF variant.init = "main" THEN inited' = "done" /\ permits' = [items |-> 0, slots |-> RingSize]
                                    ELSE inited' = inited /\ permits' = permits
    BY <1>2 DEF bufferinit
  <2>2. inited = "new" /\ \A t \in Users : bpc[t] = "unborn" /\ bpc'[t] \in {"unborn", "make"}
    BY <1>2, <2>1 DEF VarPlaced
  <2>3. VarTypes'
    <3>1. bpc' \in [Users -> VarPlaces]
      BY <2>1 DEF VarTypes, VarPlaces, Begun
    <3>2. permits' \in [items : Nat, slots : Nat]
      BY <2>1, RingSizeAssumption DEF VarTypes
    <3> QED
      BY <1>1, <2>1, <3>1, <3>2 DEF VarTypes
  <2>4. VarPlaced'
    BY <1>1, <2>1, <2>2, VariantsAgree DEF VarPlaced, Begun
  <2>5. Numbered'
    BY <1>1 DEF Numbered
  <2>6. HandsCounted'
    BY <1>1, <2>2, UsersFinite DEF HandsCounted, Coming
  <2>7. Backed'
    <3>1. ItemsClaimed' = {} /\ SlotsClaimed' = {}
      BY <2>2 DEF ItemsClaimed, SlotsClaimed
    <3>2. Cardinality({}) = 0
      BY FS_EmptySet
    <3>3. Sync = "sem" => totalitems = 0 /\ permits.items = 0
      BY <2>2 DEF VarPlaced
    <3>4. inited' = "done" => permits' = [items |-> 0, slots |-> RingSize]
      BY <2>1, <2>2
    <3> QED
      BY <1>1, <2>1, <3>1, <3>2, <3>3, <3>4, RingSizeAssumption DEF Backed
  <2>8. ShownInOrder'
    BY <1>1, <1>2, <2>1 DEF ShownInOrder
  <2> QED
    BY <2>3, <2>4, <2>5, <2>6, <2>7, <2>8
<1>3. CASE bmain \in {"run", "shown"}
  <2>1. /\ UNCHANGED <<bpc, inited, permits>>
        /\ \/ bmain' = "exit" /\ bshown' = bshown
           \/ bmain' = (IF bmain = "run" THEN "shown" ELSE "exit") /\ bshown' = Append(bshown, added)
    BY <1>3
  <2>2. VarTypes'
    <3>1. bshown' \in Seq(Nat)
      <4>1. bshown \in Seq(Nat) /\ added \in Nat
        BY DEF VarTypes
      <4>2. Append(bshown, added) \in Seq(Nat)
        BY <4>1, Appended
      <4> QED
        BY <2>1, <4>1, <4>2
    <3>2. bmain' \in {"run", "shown", "exit"}
      BY <2>1
    <3> QED
      BY <1>1, <2>1, <3>1, <3>2 DEF VarTypes
  <2>3. VarPlaced'
    BY <1>1, <1>3, <2>1 DEF VarPlaced
  <2>4. Numbered' /\ HandsCounted'
    BY <1>1, <2>1 DEF Numbered, HandsCounted
  <2>5. Backed'
    <3>1. ItemsClaimed' = ItemsClaimed /\ SlotsClaimed' = SlotsClaimed
      BY <2>1 DEF ItemsClaimed, SlotsClaimed
    <3> QED
      BY <1>1, <2>1, <3>1 DEF Backed
  <2>6. ShownInOrder'
    <3>1. CASE bmain' = "exit" /\ bshown' = bshown
      BY <1>1, <3>1 DEF ShownInOrder
    <3>2. CASE bmain' = (IF bmain = "run" THEN "shown" ELSE "exit") /\ bshown' = Append(bshown, added)
      <4>1. /\ bshown \in Seq(Nat) /\ added \in Nat /\ added' = added
            /\ \A i \in 1..Len(bshown) : bshown[i] <= added
            /\ bmain = "run" => Len(bshown) = 0
            /\ bmain = "shown" => Len(bshown) = 1
        BY <1>1 DEF VarTypes, ShownInOrder
      <4>2. /\ Len(bshown') = Len(bshown) + 1 /\ bshown'[Len(bshown) + 1] = added
            /\ \A i \in 1..Len(bshown) : bshown'[i] = bshown[i]
        BY <3>2, <4>1, Appended
      <4>3. \A i \in 1..Len(bshown') : bshown'[i] <= added'
        BY <4>1, <4>2
      <4>4. Len(bshown') = 2 => bshown'[1] <= bshown'[2]
        BY <3>2, <4>1, LastLargest
      <4>5. bmain' = "shown" => Len(bshown') = 1
        BY <1>3, <3>2, <4>1, <4>2
      <4> QED
        BY <1>3, <3>2, <4>3, <4>4, <4>5 DEF ShownInOrder
    <3> QED
      BY <2>1, <3>1, <3>2
  <2> QED
    BY <2>2, <2>3, <2>4, <2>5, <2>6
<1> QED
  BY <1>2, <1>3

LEMMA ProducerKeeps == \A t \in Users : VarIInv /\ producer(t) => VarIInv'
<1> SUFFICES ASSUME NEW t \in Users, VarIInv, producer(t) PROVE VarIInv'
  OBVIOUS
<1> USE DEF VarIInv, producer
<1>1. /\ t \in Putters /\ t \notin Getters /\ bpc[t] = "make" /\ Goes(t, First) /\ hand' = [hand EXCEPT ![t] = 1]
      /\ UNCHANGED <<variant, bmain, permits, inited, added, bshown>>
      /\ UNCHANGED <<ringed, bufin, bufout, totalitems, puts, gets>> /\ Sync' = Sync
  <2>1. First \in VarPlaces
    BY DEF First, VarPlaces, Coming
  <2> QED
    BY <2>1, GoesOn, UsersAssumption DEF Next1, At, contents, results2, Sync
<1>2. bmain # "create" /\ PlaceOk(First) /\ (Sync = "sem" /\ inited # "done" => First \in Begun)
  BY <1>1, VariantsAgree DEF VarPlaced, PlaceOk, First, Begun
<1>3. VarTypes'
  <2>1. hand' \in [Users -> Nat]
    BY <1>1 DEF VarTypes
  <2> QED
    BY <1>1, <2>1 DEF VarTypes, Goes
<1>4. VarPlaced'
  <2>1. \A u \in Users : bpc'[u] = bpc[u] \/ (PlaceOk(bpc'[u]) /\ (Sync = "sem" /\ inited # "done" => bpc'[u] \in Begun))
    BY <1>1, <1>2 DEF Goes
  <2> QED
    BY <1>1, <1>2, <2>1, PlacedKept
<1>5. Numbered'
  BY <1>1 DEF Numbered
<1>6. HandsCounted'
  <2>1. \A u \in Getters : u # t /\ hand'[u] = hand[u] /\ bpc'[u] = bpc[u]
    BY <1>1, UsersFinite DEF Goes, VarTypes
  <2>2. InHand' = InHand
    BY <2>1 DEF InHand
  <2> QED
    BY <1>1, <2>1, <2>2 DEF HandsCounted
<1>7. Backed'
  <2>1. Sync = "sem" => /\ t \notin ItemsClaimed /\ t \notin ItemsClaimed'
                        /\ t \notin SlotsClaimed /\ t \notin SlotsClaimed'
    BY <1>1, VariantsAgree DEF ItemsClaimed, SlotsClaimed, Goes, First
  <2> QED
    BY <1>1, <2>1, BackedStill
<1>8. ShownInOrder'
  BY <1>1 DEF ShownInOrder
<1> QED
  BY <1>3, <1>4, <1>5, <1>6, <1>7, <1>8

LEMMA ConsumerKeeps == \A t \in Users : VarIInv /\ consumer(t) => VarIInv'
<1> SUFFICES ASSUME NEW t \in Users, VarIInv, consumer(t) PROVE VarIInv'
  OBVIOUS
<1> USE DEF VarIInv, consumer
<1>1. /\ t \in Getters /\ bpc[t] = "make" /\ Goes(t, First) /\ hand' = [hand EXCEPT ![t] = 0]
      /\ added' = (IF hand[t] # 0 THEN added + 1 ELSE added)
      /\ UNCHANGED <<variant, bmain, permits, inited, bshown>>
      /\ UNCHANGED <<ringed, bufin, bufout, totalitems, puts, gets>> /\ Sync' = Sync
  <2>1. First \in VarPlaces
    BY DEF First, VarPlaces, Coming
  <2> QED
    BY <2>1, GoesOn DEF Next1, At, contents, Sync
<1>2. bmain # "create" /\ PlaceOk(First) /\ (Sync = "sem" /\ inited # "done" => First \in Begun)
  BY <1>1, VariantsAgree DEF VarPlaced, PlaceOk, First, Begun
<1>3. VarTypes'
  <2>1. added' \in Nat /\ hand' \in [Users -> Nat]
    BY <1>1 DEF VarTypes
  <2> QED
    BY <1>1, <2>1 DEF VarTypes, Goes
<1>4. VarPlaced'
  <2>1. \A u \in Users : bpc'[u] = bpc[u] \/ (PlaceOk(bpc'[u]) /\ (Sync = "sem" /\ inited # "done" => bpc'[u] \in Begun))
    BY <1>1, <1>2 DEF Goes
  <2> QED
    BY <1>1, <1>2, <2>1, PlacedKept
<1>5. Numbered'
  BY <1>1 DEF Numbered
<1>6. HandsCounted'
  <2> SUFFICES ASSUME Sync # "bad" PROVE HandsCounted'
    BY <1>1 DEF HandsCounted
  <2>1. \A u \in Getters : hand'[u] = (IF u = t THEN 0 ELSE hand[u])
    BY <1>1, UsersFinite DEF VarTypes
  <2>2. \A u \in Getters : bpc'[u] \in Coming \cup {"unborn"} => hand'[u] = 0
    BY <1>1, <2>1, UsersFinite DEF HandsCounted, Goes
  <2>3. Shift(InHand, InHand', t) /\ t \notin InHand' /\ (t \in InHand <=> hand[t] # 0)
    <3>1. InHand \in SUBSET Getters /\ InHand' \in SUBSET Getters /\ t \notin InHand' /\ (t \in InHand <=> hand[t] # 0)
      BY <1>1, <2>1 DEF InHand
    <3>2. \A u \in Getters \ {t} : u \in InHand <=> u \in InHand'
      BY <2>1 DEF InHand
    <3> QED
      BY <1>1, <3>1, <3>2, UsersFinite, OneMoves
  <2>4. Len(gets) = added + Cardinality(InHand) /\ added \in Nat
    BY DEF HandsCounted, VarTypes
  <2>5. Len(gets') = added' + Cardinality(InHand')
    BY <1>1, <2>3, <2>4 DEF Shift
  <2> QED
    BY <2>2, <2>5 DEF HandsCounted
<1>7. Backed'
  <2>1. Sync = "sem" => /\ t \notin ItemsClaimed /\ t \notin ItemsClaimed'
                        /\ t \notin SlotsClaimed /\ t \notin SlotsClaimed'
    BY <1>1, VariantsAgree DEF ItemsClaimed, SlotsClaimed, Goes, First
  <2> QED
    BY <1>1, <2>1, BackedStill
<1>8. ShownInOrder'
  <2>1. added' >= added /\ added \in Nat /\ added' \in Nat
    BY <1>1 DEF VarTypes
  <2>2. \A k \in 1..Len(bshown) : bshown[k] \in Nat
    BY DEF VarTypes
  <2> QED
    BY <1>1, <2>1, <2>2 DEF ShownInOrder
<1> QED
  BY <1>3, <1>4, <1>5, <1>6, <1>7, <1>8

LEMMA LockKeeps == \A t \in Users : VarIInv /\ LockBuffer(t) => VarIInv'
<1> SUFFICES ASSUME NEW t \in Users, VarIInv, LockBuffer(t) PROVE VarIInv'
  OBVIOUS
<1>1. UNCHANGED <<variant, bmain, contents, permits, inited, hand, added, bshown>>
  BY DEF LockBuffer
<1>2. CASE Next1(t, "lock", "body")
  <2>1. bpc[t] = "lock" /\ Next1(t, bpc[t], "body")
    BY <1>2 DEF Next1, At
  <2>2. "body" \in VarPlaces /\ PlainGo(bpc[t], "body")
    BY <2>1 DEF VarPlaces, PlainGo, PlaceOk, Begun, Coming
  <2> QED
    BY <1>1, <2>1, <2>2, PlainOne
<1>3. CASE GiveError(t, "lock")
  BY <1>1, <1>3, VarEnds
<1> QED
  BY <1>2, <1>3 DEF LockBuffer

LEMMA NotNowKeeps == \A t \in Users : VarIInv /\ NotNow(t) => VarIInv'
<1> SUFFICES ASSUME NEW t \in Users, VarIInv, NotNow(t) PROVE VarIInv'
  OBVIOUS
<1>1. UNCHANGED <<variant, bmain, contents, permits, inited, hand, added, bshown>>
  BY DEF NotNow, results2
<1>2. bpc[t] = "body" /\ Next1(t, bpc[t], "again") /\ Sync = "test"
  BY DEF NotNow, Next1, At
<1>3. "again" \in VarPlaces /\ PlainGo(bpc[t], "again")
  BY <1>2 DEF VarPlaces, PlainGo, PlaceOk, Begun, Coming
<1> QED
  BY <1>1, <1>2, <1>3, PlainOne

LEMMA WaitKeeps == \A t \in Users : VarIInv /\ WaitCond(t) => VarIInv'
<1> SUFFICES ASSUME NEW t \in Users, VarIInv, WaitCond(t) PROVE VarIInv'
  OBVIOUS
<1>1. UNCHANGED <<variant, bmain, contents, permits, inited, hand, added, bshown>> /\ Sync = "cond"
  BY DEF WaitCond
<1>2. CASE Next1(t, "body", "waiting")
  <2>1. bpc[t] = "body" /\ Next1(t, bpc[t], "waiting")
    BY <1>2 DEF Next1, At
  <2>2. "waiting" \in VarPlaces /\ PlainGo(bpc[t], "waiting")
    BY <1>1, <2>1 DEF VarPlaces, PlainGo, PlaceOk, Begun, Coming
  <2> QED
    BY <1>1, <2>1, <2>2, PlainOne
<1>3. CASE GiveError(t, "body")
  BY <1>1, <1>3, VarEnds
<1> QED
  BY <1>2, <1>3 DEF WaitCond

LEMMA RelockKeeps == \A t \in Users : VarIInv /\ RelockBuffer(t) => VarIInv'
<1> SUFFICES ASSUME NEW t \in Users, VarIInv, RelockBuffer(t) PROVE VarIInv'
  OBVIOUS
<1>1. UNCHANGED <<variant, bmain, contents, permits, inited, hand, added, bshown>>
  BY DEF RelockBuffer, results2
<1>2. bpc[t] = "woken" /\ Next1(t, bpc[t], "body") /\ Sync = "cond"
  BY DEF RelockBuffer, Next1, At, VarIInv, VarPlaced
<1>3. "body" \in VarPlaces /\ PlainGo(bpc[t], "body")
  BY <1>2 DEF VarPlaces, PlainGo, PlaceOk, Begun, Coming
<1> QED
  BY <1>1, <1>2, <1>3, PlainOne

LEMMA SpuriousKeeps == \A t \in Users : VarIInv /\ Spurious(t) => VarIInv'
<1> SUFFICES ASSUME NEW t \in Users, VarIInv, Spurious(t) PROVE VarIInv'
  OBVIOUS
<1>1. UNCHANGED <<variant, bmain, contents, permits, inited, hand, added, bshown>>
  BY DEF Spurious, results2
<1>2. bpc[t] = "waiting" /\ Next1(t, bpc[t], "woken") /\ Sync = "cond"
  BY DEF Spurious, Next1, At, VarIInv, VarPlaced
<1>3. "woken" \in VarPlaces /\ PlainGo(bpc[t], "woken")
  BY <1>2 DEF VarPlaces, PlainGo, PlaceOk, Begun, Coming
<1> QED
  BY <1>1, <1>2, <1>3, PlainOne

LEMMA SignalKeeps == \A t \in Users : VarIInv /\ SignalOther(t) => VarIInv'
<1> SUFFICES ASSUME NEW t \in Users, VarIInv, SignalOther(t) PROVE VarIInv'
  OBVIOUS
<1>1. UNCHANGED <<variant, bmain, contents, permits, inited, hand, added, bshown>>
  BY DEF SignalOther
<1>2. CASE GiveError(t, "signal")
  BY <1>1, <1>2, VarEnds
<1>3. ASSUME At(t, "signal"),
             \/ bpc' = [bpc EXCEPT ![t] = "unlock"]
             \/ \E u \in Users : bpc[u] = "waiting" /\ bpc' = [bpc EXCEPT ![t] = "unlock", ![u] = "woken"]
      PROVE  VarIInv'
  <2>1. bpc[t] = "signal" /\ Sync = "cond" /\ bmain # "create" /\ bpc \in [Users -> VarPlaces]
    BY <1>3 DEF At, VarIInv, VarPlaced, VarTypes
  <2>2. \A u \in Users : bpc'[u] = bpc[u] \/ (u = t /\ bpc'[u] = "unlock") \/ (bpc[u] = "waiting" /\ bpc'[u] = "woken")
    BY <1>3, <2>1
  <2>3. "unlock" \in VarPlaces /\ "woken" \in VarPlaces
    BY DEF VarPlaces, Coming
  <2>4. bpc' \in [Users -> VarPlaces]
    BY <1>3, <2>1, <2>3
  <2>5. PlainGo("signal", "unlock") /\ PlainGo("waiting", "woken")
    BY <2>1, <2>3 DEF PlainGo, PlaceOk, Begun, Coming
  <2>6. \A u \in Users : bpc'[u] = bpc[u] \/ PlainGo(bpc[u], bpc'[u])
    BY <2>1, <2>2, <2>5
  <2> QED
    BY <1>1, <2>1, <2>4, <2>6, PlainStep
<1> QED
  BY <1>2, <1>3 DEF SignalOther, Users

LEMMA UnlockKeeps == \A t \in Users : VarIInv /\ UnlockBuffer(t) => VarIInv'
<1> SUFFICES ASSUME NEW t \in Users, VarIInv, UnlockBuffer(t) PROVE VarIInv'
  OBVIOUS
<1>1. UNCHANGED <<variant, bmain, contents, permits, inited, hand, added, bshown>>
  BY DEF UnlockBuffer
<1> DEFINE onward == IF Sync = "sem" THEN "post" ELSE "make"
<1>2. CASE Next1(t, "unlock", onward)
  <2>1. bpc[t] = "unlock" /\ Next1(t, bpc[t], onward)
    BY <1>2 DEF Next1, At
  <2>2. onward \in VarPlaces /\ PlainGo(bpc[t], onward)
    BY <2>1 DEF VarPlaces, PlainGo, PlaceOk, Begun, Coming
  <2> HIDE DEF onward
  <2> QED
    BY <1>1, <2>1, <2>2, PlainOne
<1>3. CASE GiveError(t, "again") \/ GiveError(t, "unlock")
  BY <1>1, <1>3, VarEnds
<1> QED
  BY <1>2, <1>3 DEF UnlockBuffer

LEMMA InitAnyKeeps == \A t \in Users : VarIInv /\ bufferinitany(t) => VarIInv'
<1> SUFFICES ASSUME NEW t \in Users, VarIInv, bufferinitany(t) PROVE VarIInv'
  OBVIOUS
<1>1. UNCHANGED <<variant, bmain, contents, hand, added, bshown>>
  BY DEF bufferinitany
<1>2. CASE inited = "done" /\ Next1(t, "init", "semwait") /\ UNCHANGED <<inited, permits>>
  <2>1. bpc[t] = "init" /\ Next1(t, bpc[t], "semwait") /\ Sync = "sem"
    BY <1>2 DEF Next1, At, VarIInv, VarPlaced
  <2>2. "semwait" \in VarPlaces /\ PlainGo(bpc[t], "semwait")
    BY <1>2, <2>1 DEF VarPlaces, PlainGo, PlaceOk, Begun, Coming
  <2> QED
    BY <1>1, <1>2, <2>1, <2>2, PlainOne
<1>3. CASE GiveError(t, "init") /\ UNCHANGED <<inited, permits>>
  BY <1>1, <1>3, VarEnds
<1>4. ASSUME NEW q \in {"semwait", "end"}, Next1(t, "init", q), inited # "done", inited' \in {"done", "failed"},
             q = "semwait" => inited' = "done",
             permits' = IF inited' = "done" THEN [items |-> 0, slots |-> RingSize] ELSE permits
      PROVE  VarIInv'
  <2> USE DEF VarIInv
  <2>1. bpc[t] = "init" /\ Goes(t, q) /\ Sync = "sem" /\ variant.init \in {"mutex", "once"} /\ bmain # "create"
    <3>1. q \in VarPlaces /\ bpc[t] = "init"
      BY <1>4 DEF VarPlaces, Begun, Coming, Next1, At
    <3> QED
      BY <1>4, <3>1, GoesOn DEF Next1, VarPlaced
  <2>2. /\ permits.items = 0 /\ permits.slots = 0 /\ totalitems = 0
        /\ \A u \in Users : bpc[u] \in Begun
    BY <1>4, <2>1 DEF VarPlaced
  <2>3. permits' \in [items : Nat, slots : Nat] /\ permits'.items = 0 /\ (inited' = "done" => permits'.slots = RingSize)
    BY <1>4, <2>2, RingSizeAssumption DEF VarTypes
  <2>4. UNCHANGED <<ringed, bufin, bufout, totalitems, puts, gets>> /\ Sync' = Sync /\ InHand' = InHand
    BY <1>1 DEF contents, Sync, InHand
  <2>5. VarTypes'
    BY <1>1, <1>4, <2>1, <2>3, <2>4 DEF VarTypes, Goes
  <2>6. VarPlaced'
    <3>1. PlaceOk(q)
      BY <2>1 DEF PlaceOk
    <3>2. \A u \in Users : bpc'[u] = bpc[u] \/ PlaceOk(bpc'[u])
      BY <2>1, <3>1 DEF Goes
    <3>3. inited' # "done" => permits' = permits /\ \A u \in Users : bpc'[u] = bpc[u] \/ bpc'[u] \in Begun
      BY <1>4, <2>1 DEF Goes, Begun
    <3> QED
      BY <1>1, <1>4, <2>1, <2>4, <3>2, <3>3, PlacedKept
  <2>7. Numbered'
    BY <2>4 DEF Numbered
  <2>8. HandsCounted'
    <3>1. \A u \in Getters : bpc'[u] \in Coming \cup {"unborn"} => bpc[u] \in Coming \cup {"unborn"}
      BY <1>4, <2>1, UsersFinite DEF Goes, Coming
    <3> QED
      BY <1>1, <2>4, <3>1 DEF HandsCounted
  <2>9. Backed'
    <3>1. \A u \in Users : bpc'[u] \in Begun \cup {"semwait"}
      BY <2>1, <2>2 DEF Goes, Begun
    <3>2. ItemsClaimed' = {} /\ SlotsClaimed' = {}
      BY <3>1 DEF ItemsClaimed, SlotsClaimed, Begun
    <3>3. Cardinality({}) = 0
      BY FS_EmptySet
    <3> QED
      BY <2>2, <2>3, <2>4, <3>2, <3>3, RingSizeAssumption DEF Backed
  <2>10. ShownInOrder'
    BY <1>1 DEF ShownInOrder
  <2> QED
    BY <2>5, <2>6, <2>7, <2>8, <2>9, <2>10
<1>5. CASE /\ inited = "new" \/ (inited = "failed" /\ variant.init = "mutex")
           /\ \/ bufferinit(TRUE) /\ Next1(t, "init", "semwait")
              \/ bufferinit(FALSE) /\ GiveError(t, "init")
  <2>1. inited # "done"
    BY <1>5
  <2>2. CASE bufferinit(TRUE) /\ Next1(t, "init", "semwait")
    <3>1. inited' = "done" /\ permits' = [items |-> 0, slots |-> RingSize]
      BY <2>2 DEF bufferinit
    <3> QED
      BY <1>4, <2>1, <2>2, <3>1
  <2>3. CASE bufferinit(FALSE) /\ GiveError(t, "init")
    <3>1. inited' = "failed" /\ permits' = permits /\ Next1(t, "init", "end")
      BY <2>3 DEF bufferinit, GiveError
    <3> QED
      BY <1>4, <2>1, <3>1
  <2> QED
    BY <1>5, <2>2, <2>3
<1> QED
  BY <1>2, <1>3, <1>5 DEF bufferinitany

LEMMA SemWaitKeeps == \A t \in Users : VarIInv /\ SemWaitAny(t) => VarIInv'
<1> SUFFICES ASSUME NEW t \in Users, VarIInv, SemWaitAny(t) PROVE VarIInv'
  OBVIOUS
<1>1. UNCHANGED <<variant, bmain, contents, inited, hand, added, bshown>>
  BY DEF SemWaitAny
<1>2. CASE GiveError(t, "semwait") /\ UNCHANGED permits
  BY <1>1, <1>2, VarEnds
<1> DEFINE p == IF t \in Getters THEN "items" ELSE "slots"
<1>3. CASE permits[p] > 0 /\ permits' = [permits EXCEPT ![p] = @ - 1] /\ Next1(t, "semwait", "lock")
  <2> USE DEF VarIInv
  <2>1. /\ bpc[t] = "semwait" /\ Goes(t, "lock") /\ Sync = "sem" /\ bmain # "create" /\ inited = "done"
    <3>1. "lock" \in VarPlaces /\ bpc[t] = "semwait"
      BY <1>3 DEF VarPlaces, Coming, Next1, At
    <3> QED
      BY <1>3, <3>1, GoesOn DEF Next1, VarPlaced, Begun
  <2>2. UNCHANGED <<ringed, bufin, bufout, totalitems, puts, gets>> /\ Sync' = Sync /\ InHand' = InHand
    BY <1>1 DEF contents, Sync, InHand
  <2>3. /\ permits \in [items : Nat, slots : Nat] /\ permits' \in [items : Nat, slots : Nat]
        /\ permits'.items = (IF t \in Getters THEN permits.items - 1 ELSE permits.items)
        /\ permits'.slots = (IF t \in Getters THEN permits.slots ELSE permits.slots - 1)
    <3>1. permits \in [items : Nat, slots : Nat]
      BY DEF VarTypes
    <3>2. CASE t \in Getters
      <4>1. permits.items > 0 /\ permits' = [permits EXCEPT !.items = @ - 1]
        BY <1>3, <3>2
      <4> QED
        BY <3>1, <3>2, <4>1
    <3>3. CASE t \notin Getters
      <4>1. permits.slots > 0 /\ permits' = [permits EXCEPT !.slots = @ - 1]
        BY <1>3, <3>3
      <4> QED
        BY <3>1, <3>3, <4>1
    <3> QED
      BY <3>2, <3>3
  <2>4. VarTypes'
    BY <1>1, <2>1, <2>2, <2>3 DEF VarTypes, Goes
  <2>5. VarPlaced'
    <3>1. \A u \in Users : bpc'[u] = bpc[u] \/ PlaceOk(bpc'[u])
      BY <2>1 DEF Goes, PlaceOk
    <3> QED
      BY <1>1, <2>1, <2>2, <3>1, PlacedKept
  <2>6. Numbered'
    BY <2>2 DEF Numbered
  <2>7. HandsCounted'
    <3>1. \A u \in Getters : bpc'[u] \in Coming \cup {"unborn"} => bpc[u] \in Coming \cup {"unborn"}
      BY <2>1, UsersFinite DEF Goes, Coming
    <3> QED
      BY <1>1, <2>2, <3>1 DEF HandsCounted
  <2>8. Backed'
    <3>1. /\ t \notin ItemsClaimed /\ (t \in ItemsClaimed' <=> t \in Getters)
          /\ t \notin SlotsClaimed /\ (t \in SlotsClaimed' <=> t \notin Getters)
      BY <2>1 DEF ItemsClaimed, SlotsClaimed, Goes
    <3>2. totalitems \in Nat /\ totalitems' = totalitems
      BY <2>2 DEF VarTypes
    <3>3. permits.items' + (IF t \in ItemsClaimed' THEN 1 ELSE 0) + totalitems
               <= permits.items + (IF t \in ItemsClaimed THEN 1 ELSE 0) + totalitems'
      BY <2>3, <3>1, <3>2
    <3>4. permits.slots' + (IF t \in SlotsClaimed' THEN 1 ELSE 0) + totalitems'
               <= permits.slots + (IF t \in SlotsClaimed THEN 1 ELSE 0) + totalitems
      BY <2>3, <3>1, <3>2
    <3> QED
      BY <1>1, <2>1, <2>4, <3>3, <3>4, BackedKept
  <2>9. ShownInOrder'
    BY <1>1 DEF ShownInOrder
  <2> QED
    BY <2>4, <2>5, <2>6, <2>7, <2>8, <2>9
<1> QED
  BY <1>2, <1>3 DEF SemWaitAny

LEMMA PostKeeps == \A t \in Users : VarIInv /\ PostOther(t) => VarIInv'
<1> SUFFICES ASSUME NEW t \in Users, VarIInv, PostOther(t) PROVE VarIInv'
  OBVIOUS
<1> USE DEF VarIInv
<1>1. /\ UNCHANGED <<variant, bmain, inited, hand, added, bshown>>
      /\ UNCHANGED <<ringed, bufin, bufout, totalitems, puts, gets>> /\ Sync' = Sync /\ InHand' = InHand
  BY DEF PostOther, contents, results2, Sync, InHand
<1>2. /\ bpc[t] = "post" /\ Goes(t, "make") /\ Sync = "sem" /\ bmain # "create" /\ inited = "done"
  <2>1. "make" \in VarPlaces /\ bpc[t] = "post"
    BY DEF VarPlaces, Begun, PostOther, Next1, At
  <2> QED
    BY <2>1, GoesOn DEF Next1, VarPlaced, Begun, PostOther
<1>3. /\ permits \in [items : Nat, slots : Nat] /\ permits' \in [items : Nat, slots : Nat]
      /\ permits'.items = (IF t \in Getters THEN permits.items ELSE permits.items + 1)
      /\ permits'.slots = (IF t \in Getters THEN permits.slots + 1 ELSE permits.slots)
  <2>1. permits \in [items : Nat, slots : Nat]
    BY DEF VarTypes
  <2>2. CASE t \in Getters
    <3>1. permits' = [permits EXCEPT !.slots = @ + 1]
      BY <2>2 DEF PostOther
    <3> QED
      BY <2>1, <2>2, <3>1
  <2>3. CASE t \notin Getters
    <3>1. permits' = [permits EXCEPT !.items = @ + 1]
      BY <2>3 DEF PostOther
    <3> QED
      BY <2>1, <2>3, <3>1
  <2> QED
    BY <2>2, <2>3
<1>4. VarTypes'
  BY <1>1, <1>2, <1>3 DEF VarTypes, Goes
<1>5. VarPlaced'
  <2>1. \A u \in Users : bpc'[u] = bpc[u] \/ PlaceOk(bpc'[u])
    BY <1>2 DEF Goes, PlaceOk
  <2> QED
    BY <1>1, <1>2, <2>1, PlacedKept
<1>6. Numbered'
  BY <1>1 DEF Numbered
<1>7. HandsCounted'
  <2>1. \A u \in Getters : bpc'[u] \in Coming \cup {"unborn"} => bpc[u] \in Coming \cup {"unborn"}
    BY <1>2, UsersFinite DEF Goes, Coming
  <2> QED
    BY <1>1, <2>1 DEF HandsCounted
<1>8. Backed'
  <2>1. /\ t \notin ItemsClaimed' /\ (t \in ItemsClaimed <=> t \notin Getters)
        /\ t \notin SlotsClaimed' /\ (t \in SlotsClaimed <=> t \in Getters)
    BY <1>2 DEF ItemsClaimed, SlotsClaimed, Goes
  <2>2. totalitems \in Nat /\ totalitems' = totalitems
    BY <1>1 DEF VarTypes
  <2>3. permits.items' + (IF t \in ItemsClaimed' THEN 1 ELSE 0) + totalitems
             <= permits.items + (IF t \in ItemsClaimed THEN 1 ELSE 0) + totalitems'
    BY <1>3, <2>1, <2>2
  <2>4. permits.slots' + (IF t \in SlotsClaimed' THEN 1 ELSE 0) + totalitems'
             <= permits.slots + (IF t \in SlotsClaimed THEN 1 ELSE 0) + totalitems
    BY <1>3, <2>1, <2>2
  <2> QED
    BY <1>1, <1>2, <1>4, <2>3, <2>4, BackedKept
<1>9. ShownInOrder'
  BY <1>1 DEF ShownInOrder
<1> QED
  BY <1>4, <1>5, <1>6, <1>7, <1>8, <1>9

\* A thread that moves an item has one, or room for one.
LEMMA CanMove ==
    ASSUME VarIInv, NEW t \in Users, bpc[t] = "body", Sync \in {"bad", "sem"} \/ ~Blocked(t), Sync # "bad"
    PROVE  IF t \in Getters THEN totalitems > 0 ELSE totalitems < RingSize
<1> USE DEF VarIInv
<1>1. totalitems \in Nat /\ totalitems <= RingSize /\ RingSize \in Nat
  BY RingSizeAssumption DEF VarTypes, Numbered
<1>2. CASE ~Blocked(t)
  BY <1>1, <1>2 DEF Blocked
<1>3. CASE Sync = "sem"
  <2>1. inited = "done"
    BY <1>3 DEF VarPlaced, Begun
  <2>2. /\ t \in Getters => t \in ItemsClaimed
        /\ t \notin Getters => t \in SlotsClaimed
    BY DEF ItemsClaimed, SlotsClaimed
  <2>3. IsFiniteSet(ItemsClaimed) /\ IsFiniteSet(SlotsClaimed)
    BY UsersFinite, FS_Subset DEF ItemsClaimed, SlotsClaimed
  <2>4. Shift(ItemsClaimed, ItemsClaimed, t) /\ Shift(SlotsClaimed, SlotsClaimed, t)
    BY UsersFinite, OneMoves DEF ItemsClaimed, SlotsClaimed
  <2>5. /\ Cardinality(ItemsClaimed) \in Nat /\ Cardinality(SlotsClaimed) \in Nat
        /\ t \in Getters => Cardinality(ItemsClaimed) > 0
        /\ t \notin Getters => Cardinality(SlotsClaimed) > 0
    BY <2>2, <2>4 DEF Shift
  <2>6. /\ permits.items \in Nat /\ permits.slots \in Nat
        /\ permits.items + Cardinality(ItemsClaimed) <= totalitems
        /\ permits.slots + Cardinality(SlotsClaimed) + totalitems <= RingSize
    BY <1>3, <2>1 DEF Backed, VarTypes
  <2> QED
    BY <1>1, <2>5, <2>6
<1> QED
  BY <1>2, <1>3

\* The place after the move.
LEMMA MoveOn ==
    ASSUME VarIInv, NEW t \in Users, Move(t)
    PROVE  /\ bpc[t] = "body" /\ Goes(t, After) /\ bmain # "create" /\ PlaceOk(After)
           /\ Sync = "sem" => inited = "done" /\ After = "unlock"
           /\ After \notin Coming \cup {"unborn"} /\ (Sync \in {"bad", "sem"} \/ ~Blocked(t))
           /\ UNCHANGED <<variant, bmain, permits, inited, added, bshown>> /\ Sync' = Sync
<1> USE DEF VarIInv
<1>1. bpc[t] = "body" /\ bmain # "create" /\ (Sync \in {"bad", "sem"} \/ ~Blocked(t))
  BY DEF Move, At, VarTypes, VarPlaces, Begun, Coming, VarPlaced
<1>2. After \in VarPlaces
  BY DEF After, VarPlaces
<1>3. Goes(t, After)
  BY <1>2, GoesOn DEF Move
<1> QED
  BY <1>1, <1>3 DEF Move, results2, Sync, After, PlaceOk, Coming, VarPlaced, Begun

LEMMA GetKeeps == \A t \in Getters : VarIInv /\ Move(t) => VarIInv'
<1> SUFFICES ASSUME NEW t \in Getters, VarIInv, Move(t) PROVE VarIInv'
  OBVIOUS
<1> USE DEF VarIInv
<1>1. t \in Users /\ t \notin Putters
  BY UsersAssumption, UsersFinite
<1> DEFINE v == ringed[bufout]
<1>2. /\ hand' = [hand EXCEPT ![t] = v] /\ gets' = Append(gets, v)
      /\ bufout' = (bufout + 1) % RingSize
      /\ totalitems' = (IF totalitems = 0 THEN 0 ELSE totalitems - 1)
      /\ UNCHANGED <<ringed, bufin, puts>>
  BY <1>1 DEF Move
<1>3. v \in Nat
  BY DEF VarTypes, Array
<1>4. /\ gets \in Seq(Nat) /\ gets' \in Seq(Nat) /\ Len(gets') = Len(gets) + 1 /\ gets'[Len(gets) + 1] = v
      /\ \A i \in 1..Len(gets) : gets'[i] = gets[i]
  BY <1>2, <1>3, Appended DEF VarTypes
<1>5. totalitems' \in Nat /\ bufout' \in 0..(RingSize - 1) /\ hand' \in [Users -> Nat]
  <2>1. bufout \in Nat /\ totalitems \in Nat /\ hand \in [Users -> Nat]
    BY RingSizeAssumption DEF VarTypes
  <2>2. bufout' \in 0..(RingSize - 1)
    BY <1>2, <2>1, RingSizeAssumption
  <2>3. totalitems' \in Nat
    BY <1>2, <2>1
  <2> HIDE DEF v
  <2>4. hand' \in [Users -> Nat]
    BY <1>2, <1>3, <2>1
  <2> QED
    BY <2>2, <2>3, <2>4
<1>6. VarTypes'
  BY <1>1, <1>2, <1>4, <1>5, MoveOn DEF VarTypes, Goes
<1>7. VarPlaced'
  <2>1. \A u \in Users : bpc'[u] = bpc[u] \/ PlaceOk(bpc'[u])
    BY <1>1, MoveOn DEF Goes
  <2> QED
    BY <1>1, <2>1, MoveOn, PlacedKept
<1>8. Sync # "bad" =>
          /\ totalitems > 0 /\ totalitems' = totalitems - 1 /\ Len(gets) < Len(puts) /\ v = Len(gets) + 1
          /\ Len(gets) \in Nat /\ Len(puts) \in Nat
  <2> SUFFICES ASSUME Sync # "bad"
               PROVE  /\ totalitems > 0 /\ totalitems' = totalitems - 1 /\ Len(gets) < Len(puts) /\ v = Len(gets) + 1
                      /\ Len(gets) \in Nat /\ Len(puts) \in Nat
    OBVIOUS
  <2>1. totalitems > 0
    BY <1>1, MoveOn, CanMove
  <2>2. totalitems \in Nat /\ Len(gets) \in Nat /\ Len(puts) \in Nat /\ totalitems = Len(puts) - Len(gets)
    BY DEF VarTypes, Numbered
  <2>3. Len(gets) \in Len(gets)..(Len(puts) - 1)
    BY <2>1, <2>2
  <2>4. ringed[Wrapped(Len(gets), RingSize)] = Len(gets) + 1 /\ bufout = Wrapped(Len(gets), RingSize)
    BY <2>3 DEF Numbered
  <2> QED
    BY <1>2, <2>1, <2>2, <2>4
<1> HIDE DEF v
<1>9. Numbered'
  <2> SUFFICES ASSUME Sync # "bad" PROVE Numbered'
    BY <1>1, MoveOn DEF Numbered
  <2>1. totalitems' = Len(puts') - Len(gets') /\ totalitems' <= RingSize
    BY <1>2, <1>4, <1>8, RingSizeAssumption DEF Numbered
  <2>2. bufin' = Wrapped(Len(puts'), RingSize) /\ \A i \in 1..Len(puts') : puts'[i] = i
    BY <1>2 DEF Numbered
  <2>3. bufout' = Wrapped(Len(gets'), RingSize)
    BY <1>2, <1>4, <1>8, WrapNext DEF Numbered
  <2>4. \A i \in 1..Len(gets') : gets'[i] = i
    <3> SUFFICES ASSUME NEW i \in 1..Len(gets') PROVE gets'[i] = i
      OBVIOUS
    <3>1. CASE i \in 1..Len(gets)
      BY <1>4, <3>1 DEF Numbered
    <3>2. CASE i = Len(gets) + 1
      BY <1>4, <1>8, <3>2
    <3> QED
      BY <1>4, <1>8, <3>1, <3>2
  <2>5. \A k \in Len(gets')..(Len(puts') - 1) : ringed'[Wrapped(k, RingSize)] = k + 1
    <3> SUFFICES ASSUME NEW k \in Len(gets')..(Len(puts') - 1) PROVE ringed'[Wrapped(k, RingSize)] = k + 1
      OBVIOUS
    <3>1. k \in Len(gets)..(Len(puts) - 1)
      BY <1>2, <1>4, <1>8
    <3> QED
      BY <1>2, <3>1 DEF Numbered
  <2> QED
    BY <2>1, <2>2, <2>3, <2>4, <2>5 DEF Numbered
<1>10. HandsCounted'
  <2> SUFFICES ASSUME Sync # "bad" PROVE HandsCounted'
    BY <1>1, MoveOn DEF HandsCounted
  <2>1. \A u \in Getters : hand'[u] = (IF u = t THEN v ELSE hand[u])
    BY <1>2, UsersFinite DEF VarTypes
  <2>2. \A u \in Getters : bpc'[u] \in Coming \cup {"unborn"} => hand'[u] = 0
    <3> SUFFICES ASSUME NEW u \in Getters, bpc'[u] \in Coming \cup {"unborn"} PROVE hand'[u] = 0
      OBVIOUS
    <3>1. u # t
      BY <1>1, MoveOn DEF Goes
    <3>2. bpc'[u] = bpc[u]
      BY <1>1, <3>1, MoveOn, UsersFinite DEF Goes
    <3> QED
      BY <2>1, <3>1, <3>2 DEF HandsCounted
  <2>3. hand[t] = 0
    BY <1>1, MoveOn DEF HandsCounted, Coming
  <2>4. InHand \in SUBSET Getters /\ InHand' \in SUBSET Getters /\ t \notin InHand
    BY <2>3 DEF InHand
  <2>5. t \in InHand'
    BY <1>8, <2>1 DEF InHand
  <2>6. \A u \in Getters \ {t} : u \in InHand <=> u \in InHand'
    BY <2>1 DEF InHand
  <2>7. Shift(InHand, InHand', t)
    BY <2>4, <2>6, UsersFinite, OneMoves
  <2>8. Cardinality(InHand') = Cardinality(InHand) + 1 /\ Cardinality(InHand) \in Nat
    BY <2>4, <2>5, <2>7 DEF Shift
  <2>9. Len(gets) = added + Cardinality(InHand) /\ added \in Nat /\ added' = added
    BY <1>1, MoveOn DEF HandsCounted, VarTypes
  <2>10. Len(gets') = added' + Cardinality(InHand')
    BY <1>4, <1>8, <2>8, <2>9
  <2> QED
    BY <2>2, <2>10 DEF HandsCounted
<1>11. Backed'
  <2>1. CASE Sync = "sem"
    <3>1. Goes(t, "unlock") /\ inited = "done" /\ bpc[t] = "body" /\ UNCHANGED <<variant, permits, inited>>
      BY <1>1, <2>1, MoveOn
    <3>2. /\ t \in ItemsClaimed /\ t \notin ItemsClaimed'
          /\ t \notin SlotsClaimed /\ t \in SlotsClaimed'
      BY <1>1, <3>1 DEF ItemsClaimed, SlotsClaimed, Goes
    <3>3. totalitems \in Nat /\ totalitems > 0 /\ totalitems' = totalitems - 1
          /\ permits \in [items : Nat, slots : Nat] /\ permits' = permits
      BY <1>8, <2>1, <3>1 DEF VarTypes
    <3>4. permits.items' + (IF t \in ItemsClaimed' THEN 1 ELSE 0) + totalitems
               <= permits.items + (IF t \in ItemsClaimed THEN 1 ELSE 0) + totalitems'
      BY <3>2, <3>3
    <3>5. permits.slots' + (IF t \in SlotsClaimed' THEN 1 ELSE 0) + totalitems'
               <= permits.slots + (IF t \in SlotsClaimed THEN 1 ELSE 0) + totalitems
      BY <3>2, <3>3
    <3> QED
      BY <1>1, <1>6, <3>1, <3>4, <3>5, BackedKept
  <2>2. CASE Sync # "sem"
    BY <1>1, <2>2, MoveOn DEF Backed
  <2> QED
    BY <2>1, <2>2
<1>12. ShownInOrder'
  BY <1>1, MoveOn DEF ShownInOrder
<1> QED
  BY <1>6, <1>7, <1>9, <1>10, <1>11, <1>12

LEMMA PutKeeps == \A t \in Putters : VarIInv /\ Move(t) => VarIInv'
<1> SUFFICES ASSUME NEW t \in Putters, VarIInv, Move(t) PROVE VarIInv'
  OBVIOUS
<1> USE DEF VarIInv
<1>1. t \in Users /\ t \notin Getters
  BY UsersAssumption DEF Users
<1> DEFINE n == Len(puts)
<1>2. /\ hand' = [hand EXCEPT ![t] = 0] /\ puts' = Append(puts, n + 1)
      /\ ringed' = [ringed EXCEPT ![bufin] = n + 1]
      /\ bufin' = (bufin + 1) % RingSize /\ totalitems' = totalitems + 1
      /\ UNCHANGED <<bufout, gets>>
  BY <1>1 DEF Move
<1>3. n \in Nat /\ n + 1 \in Nat /\ puts \in Seq(Nat) /\ totalitems \in Nat /\ totalitems + 1 \in Nat
  BY DEF VarTypes
<1>4. /\ puts' \in Seq(Nat) /\ Len(puts') = n + 1 /\ puts'[n + 1] = n + 1
      /\ \A i \in 1..n : puts'[i] = puts[i]
  BY <1>2, <1>3, Appended
<1>5. /\ bufin' \in 0..(RingSize - 1) /\ hand' \in [Users -> Nat]
      /\ ringed' \in Array(RingSize, Nat)
      /\ \A k \in 0..(RingSize - 1) : ringed'[k] = IF k = bufin THEN n + 1 ELSE ringed[k]
  <2>1. bufin \in Nat /\ bufin \in 0..(RingSize - 1) /\ hand \in [Users -> Nat] /\ ringed \in [0..(RingSize - 1) -> Nat]
    BY RingSizeAssumption DEF VarTypes, Array
  <2>2. bufin' \in 0..(RingSize - 1)
    BY <1>2, <2>1, RingSizeAssumption
  <2>3. hand' \in [Users -> Nat]
    BY <1>2, <2>1
  <2> HIDE DEF n
  <2>4. /\ ringed' \in [0..(RingSize - 1) -> Nat]
        /\ \A k \in 0..(RingSize - 1) : ringed'[k] = IF k = bufin THEN n + 1 ELSE ringed[k]
    BY <1>2, <1>3, <2>1
  <2> QED
    BY <2>2, <2>3, <2>4 DEF Array
<1>6. VarTypes'
  BY <1>1, <1>2, <1>3, <1>4, <1>5, MoveOn DEF VarTypes, Goes
<1>7. VarPlaced'
  <2>1. \A u \in Users : bpc'[u] = bpc[u] \/ PlaceOk(bpc'[u])
    BY <1>1, MoveOn DEF Goes
  <2> QED
    BY <1>1, <2>1, MoveOn, PlacedKept
<1>8. Sync # "bad" => /\ totalitems < RingSize /\ totalitems = n - Len(gets) /\ Len(gets) \in Nat
                      /\ bufin = Wrapped(n, RingSize)
  BY <1>1, MoveOn, CanMove DEF Numbered, VarTypes
<1>9. Numbered'
  <2> SUFFICES ASSUME Sync # "bad" PROVE Numbered'
    BY <1>1, MoveOn DEF Numbered
  <2>1. totalitems' = Len(puts') - Len(gets') /\ totalitems' <= RingSize
    <3> HIDE DEF n
    <3>1. totalitems' = (n + 1) - Len(gets)
      BY <1>2, <1>3, <1>8
    <3>2. totalitems' <= RingSize
      BY <1>2, <1>3, <1>8, RingSizeAssumption
    <3> QED
      BY <1>2, <1>4, <3>1, <3>2
  <2>2. bufout' = Wrapped(Len(gets'), RingSize) /\ \A i \in 1..Len(gets') : gets'[i] = i
    BY <1>2 DEF Numbered
  <2>3. bufin' = Wrapped(Len(puts'), RingSize)
    BY <1>2, <1>3, <1>4, <1>8, WrapNext
  <2>4. \A i \in 1..Len(puts') : puts'[i] = i
    <3> SUFFICES ASSUME NEW i \in 1..Len(puts') PROVE puts'[i] = i
      OBVIOUS
    <3>1. CASE i \in 1..n
      BY <1>4, <3>1 DEF Numbered
    <3>2. CASE i = n + 1
      BY <1>4, <3>2
    <3> QED
      BY <1>3, <1>4, <3>1, <3>2
  <2>5. \A k \in Len(gets')..(Len(puts') - 1) : ringed'[Wrapped(k, RingSize)] = k + 1
    <3> SUFFICES ASSUME NEW k \in Len(gets')..(Len(puts') - 1) PROVE ringed'[Wrapped(k, RingSize)] = k + 1
      OBVIOUS
    <3>1. k \in Nat /\ (k = n \/ (k < n /\ k \in Len(gets)..(n - 1))) /\ Wrapped(k, RingSize) \in 0..(RingSize - 1)
      <4>1. k \in Nat /\ (k = n \/ (k < n /\ k \in Len(gets)..(n - 1)))
        BY <1>2, <1>3, <1>4, <1>8
      <4> QED
        BY <4>1, WrapType, RingSizeAssumption
    <3>2. CASE k = n
      BY <1>5, <1>8, <3>1, <3>2
    <3>3. CASE k < n /\ k \in Len(gets)..(n - 1)
      <4>1. n - k < RingSize \/ n - k = RingSize
        BY <1>3, <1>8, <3>1, <3>3, RingSizeAssumption
      <4>2. n - k < RingSize
        BY <1>3, <1>8, <3>1, <3>3, RingSizeAssumption
      <4>3. Wrapped(k, RingSize) # Wrapped(n, RingSize)
        BY <1>3, <3>1, <3>3, <4>2, WrapDiffers
      <4>4. ringed'[Wrapped(k, RingSize)] = ringed[Wrapped(k, RingSize)]
        BY <1>5, <1>8, <3>1, <4>3
      <4> QED
        BY <3>3, <4>4 DEF Numbered
    <3> QED
      BY <3>1, <3>2, <3>3
  <2> QED
    BY <2>1, <2>2, <2>3, <2>4, <2>5 DEF Numbered
<1> HIDE DEF n
<1>10. HandsCounted'
  <2>1. \A u \in Getters : hand'[u] = hand[u] /\ bpc'[u] = bpc[u]
    <3> SUFFICES ASSUME NEW u \in Getters PROVE hand'[u] = hand[u] /\ bpc'[u] = bpc[u]
      OBVIOUS
    <3>1. u \in Users /\ u # t
      BY <1>1, UsersFinite
    <3>2. hand'[u] = hand[u]
      BY <1>2, <3>1 DEF VarTypes
    <3>3. bpc'[u] = bpc[u]
      BY <1>1, <3>1, MoveOn DEF Goes
    <3> QED
      BY <3>2, <3>3
  <2>2. InHand' = InHand
    BY <2>1 DEF InHand
  <2>3. gets' = gets /\ added' = added /\ Sync' = Sync
    BY <1>1, <1>2, MoveOn
  <2> QED
    BY <2>1, <2>2, <2>3 DEF HandsCounted
<1>11. Backed'
  <2>1. CASE Sync = "sem"
    <3>1. Goes(t, "unlock") /\ inited = "done" /\ bpc[t] = "body" /\ UNCHANGED <<variant, permits, inited>>
      BY <1>1, <2>1, MoveOn
    <3>2. /\ t \notin ItemsClaimed /\ t \in ItemsClaimed'
          /\ t \in SlotsClaimed /\ t \notin SlotsClaimed'
      BY <1>1, <3>1 DEF ItemsClaimed, SlotsClaimed, Goes
    <3>3. totalitems \in Nat /\ totalitems' = totalitems + 1
          /\ permits \in [items : Nat, slots : Nat] /\ permits' = permits
      BY <1>2, <3>1 DEF VarTypes
    <3>4. permits.items' + (IF t \in ItemsClaimed' THEN 1 ELSE 0) + totalitems
               <= permits.items + (IF t \in ItemsClaimed THEN 1 ELSE 0) + totalitems'
      BY <3>2, <3>3
    <3>5. permits.slots' + (IF t \in SlotsClaimed' THEN 1 ELSE 0) + totalitems'
               <= permits.slots + (IF t \in SlotsClaimed THEN 1 ELSE 0) + totalitems
      BY <3>2, <3>3
    <3> QED
      BY <1>1, <1>6, <3>1, <3>4, <3>5, BackedKept
  <2>2. CASE Sync # "sem"
    BY <1>1, <2>2, MoveOn DEF Backed
  <2> QED
    BY <2>1, <2>2
<1>12. ShownInOrder'
  BY <1>1, MoveOn DEF ShownInOrder
<1> QED
  BY <1>6, <1>7, <1>9, <1>10, <1>11, <1>12

LEMMA VarStill == VarIInv /\ UNCHANGED bvars => VarIInv'
<1> SUFFICES ASSUME VarIInv, UNCHANGED bvars PROVE VarIInv'
  OBVIOUS
<1> USE DEF VarIInv, bvars, contents, results2
<1>1. Sync' = Sync /\ InHand' = InHand /\ ItemsClaimed' = ItemsClaimed /\ SlotsClaimed' = SlotsClaimed
  BY DEF Sync, InHand, ItemsClaimed, SlotsClaimed
<1>2. VarTypes' /\ VarPlaced'
  BY <1>1 DEF VarTypes, VarPlaced
<1>3. Numbered' /\ HandsCounted'
  BY <1>1 DEF Numbered, HandsCounted
<1>4. Backed' /\ ShownInOrder'
  BY <1>1 DEF Backed, ShownInOrder
<1> QED
  BY <1>2, <1>3, <1>4

LEMMA VarNextIInv == VarIInv /\ [VariantNext]_bvars => VarIInv'
<1> SUFFICES ASSUME VarIInv, [VariantNext]_bvars PROVE VarIInv'
  OBVIOUS
<1>1. CASE randpcforever
  BY <1>1, MainKeeps
<1>2. ASSUME NEW t \in Users, UserStep(t) \/ Spurious(t) PROVE VarIInv'
  <2>1. CASE producer(t)
    BY <2>1, ProducerKeeps
  <2>2. CASE consumer(t)
    BY <2>2, ConsumerKeeps
  <2>3. CASE bufferinitany(t)
    BY <2>3, InitAnyKeeps
  <2>4. CASE SemWaitAny(t)
    BY <2>4, SemWaitKeeps
  <2>5. CASE LockBuffer(t)
    BY <2>5, LockKeeps
  <2>6. CASE NotNow(t)
    BY <2>6, NotNowKeeps
  <2>7. CASE WaitCond(t)
    BY <2>7, WaitKeeps
  <2>8. CASE RelockBuffer(t)
    BY <2>8, RelockKeeps
  <2>9. CASE Move(t)
    BY <2>9, GetKeeps, PutKeeps DEF Users
  <2>10. CASE SignalOther(t)
    BY <2>10, SignalKeeps
  <2>11. CASE UnlockBuffer(t)
    BY <2>11, UnlockKeeps
  <2>12. CASE PostOther(t)
    BY <2>12, PostKeeps
  <2>13. CASE Spurious(t)
    BY <2>13, SpuriousKeeps
  <2> QED
    BY <1>2, <2>1, <2>2, <2>3, <2>4, <2>5, <2>6, <2>7, <2>8, <2>9, <2>10, <2>11, <2>12, <2>13 DEF UserStep
<1>3. CASE UNCHANGED bvars
  BY <1>3, VarStill
<1> QED
  BY <1>1, <1>2, <1>3 DEF VariantNext

LEMMA VarIInvIsFifo == VarIInv => VariantIsFifo
<1> SUFFICES ASSUME VarIInv PROVE VariantIsFifo
  OBVIOUS
<1> USE DEF VarIInv
<1>1. ASSUME Sync # "bad"
      PROVE  IsPrefix(gets, puts) /\ totalitems = Len(puts) - Len(gets) /\ totalitems <= RingSize
  <2>1. gets \in Seq(Nat) /\ puts \in Seq(Nat) /\ totalitems \in Nat
        /\ totalitems = Len(puts) - Len(gets) /\ totalitems <= RingSize
    BY <1>1 DEF VarTypes, Numbered
  <2>2. Len(gets) \in Nat /\ Len(puts) \in Nat /\ Len(gets) <= Len(puts)
    BY <2>1
  <2>3. \A i \in 1..Len(gets) : gets[i] = puts[i]
    <3> SUFFICES ASSUME NEW i \in 1..Len(gets) PROVE gets[i] = puts[i]
      OBVIOUS
    <3>1. i \in 1..Len(puts)
      BY <2>2
    <3> QED
      BY <1>1, <3>1 DEF Numbered
  <2>4. SubSeq(gets, 1, Len(gets)) = SubSeq(puts, 1, Len(gets))
    BY <2>1, <2>2, <2>3
  <2> QED
    BY <2>1, <2>2, <2>4 DEF IsPrefix
<1>2. Sync # "bad" => Len(gets) = added + Cardinality({t \in Getters : hand[t] # 0})
  BY DEF HandsCounted, InHand
<1>3. Sync = "sem" => permits.items + permits.slots <= RingSize
  <2> SUFFICES ASSUME Sync = "sem" PROVE permits.items + permits.slots <= RingSize
    OBVIOUS
  <2>1. permits.items \in Nat /\ permits.slots \in Nat /\ totalitems \in Nat /\ RingSize \in Nat
    BY RingSizeAssumption DEF VarTypes
  <2>2. CASE inited = "done"
    <3>1. /\ permits.items + Cardinality(ItemsClaimed) <= totalitems
          /\ permits.slots + Cardinality(SlotsClaimed) + totalitems <= RingSize
      BY <2>2 DEF Backed
    <3>2. Cardinality(ItemsClaimed) \in Nat /\ Cardinality(SlotsClaimed) \in Nat
      <4>1. IsFiniteSet(ItemsClaimed) /\ IsFiniteSet(SlotsClaimed)
        BY UsersFinite, FS_Subset DEF ItemsClaimed, SlotsClaimed
      <4> QED
        BY <4>1, FS_CardinalityType
    <3> QED
      BY <2>1, <3>1, <3>2
  <2>3. CASE inited # "done"
    BY <2>1, <2>3 DEF VarPlaced
  <2> QED
    BY <2>2, <2>3
<1>4. Len(bshown) = 2 => bshown[1] <= bshown[2]
  BY DEF ShownInOrder
<1> QED
  BY <1>1, <1>2, <1>3, <1>4 DEF VariantIsFifo

\* Whatever calls fail and whoever is woken for nothing, every buffer that tests for
\* items and slots, by a flag, a condition or a semaphore, gives out the items in the
\* order they were put, holds no more than its ring, and accounts for each once.
THEOREM VarVariantIsFifo == VariantSpec => []VariantIsFifo
<1>1. VariantInit => VarIInv
  BY VarInitIInv
<1>2. VarIInv /\ [VariantNext]_bvars => VarIInv'
  BY VarNextIInv
<1>3. VarIInv => VariantIsFifo
  BY VarIInvIsFifo
<1> QED
  BY <1>1, <1>2, <1>3, PTL DEF VariantSpec
-----------------------------------------------------------------------------
(* The sum of ComputeThreads.                                              *)

SumTypes ==
    /\ cthr \in [ComputeSet -> {"unborn", "rand", "add", "count", "getdone", "end", "gone"}]
    /\ leaving \in [ComputeSet -> {"done", "error"}]
    /\ doneflag \in BOOLEAN /\ globalerror \in BOOLEAN
    /\ sum \in Nat /\ count \in Nat

\* sum is ahead of count by the one value whose adder holds sumlock.
SumAhead ==
    /\ \A t, u \in ComputeSet : cthr[t] = "count" /\ cthr[u] = "count" => t = u
    /\ sum = count + (IF \E t \in ComputeSet : cthr[t] = "count" THEN 1 ELSE 0)

\* Why a thread leaves, and what it has left behind.
ErrorsKept ==
    \A t \in ComputeSet :
        /\ leaving[t] = "error" => cthr[t] \in {"end", "gone"}
        /\ leaving[t] = "done" /\ cthr[t] \in {"end", "gone"} => doneflag
        /\ leaving[t] = "error" /\ cthr[t] = "gone" /\ "errorlock" \notin failing => globalerror

AllJoined ==
    /\ cmain \in {"show", "shown"} => \A t \in ComputeSet : cthr[t] = "gone"
    /\ cmain = "shown" => ~globalerror

SumIInv == SumTypes /\ SumAhead /\ ErrorsKept /\ AllJoined

\* A thread between its calls: it goes on from one place to another without adding.
LEMMA SumThreadMoves ==
    ASSUME SumIInv, ~Left, NEW t \in ComputeSet, NEW to \in {"rand", "add", "getdone", "end", "gone"},
           NEW why \in {"done", "error"},
           cthr[t] \in {"unborn", "rand", "add", "getdone", "end"},
           cmain \in {"show", "shown"} => cthr[t] = "gone",
           cthr' = [cthr EXCEPT ![t] = to], leaving' = [leaving EXCEPT ![t] = why],
           why = "error" => to \in {"end", "gone"},
           why = "done" /\ to \in {"end", "gone"} => doneflag,
           why = "error" /\ to = "gone" /\ "errorlock" \notin failing => globalerror',
           globalerror' \in BOOLEAN, globalerror => globalerror',
           UNCHANGED <<bysignal, failing, cmain, sthr, usr1, doneflag, sum, count>>
    PROVE  SumIInv'
<1>1. SumTypes'
  BY DEF SumIInv, SumTypes
<1>2. \A u \in ComputeSet : (cthr'[u] = "count" <=> cthr[u] = "count") /\ (u # t => cthr'[u] = cthr[u] /\ leaving'[u] = leaving[u])
  BY DEF SumIInv, SumTypes
<1>3. SumAhead'
  BY <1>2 DEF SumIInv, SumAhead
<1>4. cthr'[t] = to /\ leaving'[t] = why
  BY DEF SumIInv, SumTypes
<1>5. ErrorsKept'
  BY <1>2, <1>4 DEF SumIInv, ErrorsKept, SumTypes
<1>6. AllJoined'
  BY <1>2 DEF SumIInv, AllJoined, Left
<1> QED
  BY <1>1, <1>3, <1>5, <1>6 DEF SumIInv

LEMMA SumThreadKeeps ==
    ASSUME SumIInv, ~Left, NEW t \in ComputeSet, ComputeStep(t)
    PROVE  SumIInv'
<1>1. leaving = [leaving EXCEPT ![t] = leaving[t]] /\ leaving[t] \in {"done", "error"}
  BY DEF SumIInv, SumTypes
<1>2. cmain \in {"show", "shown"} => cthr[t] = "gone"
  BY DEF SumIInv, AllJoined
<1>3. CASE randsafe(t)
  <2>1. leaving[t] = "done"
    BY <1>1, <1>3 DEF randsafe, SumIInv, ErrorsKept
  <2>2. CASE cthr' = [cthr EXCEPT ![t] = "add"] /\ UNCHANGED leaving
    BY <1>1, <1>2, <1>3, <2>1, <2>2, SumThreadMoves DEF randsafe, SumIInv, SumTypes
  <2>3. CASE Break(t)
    BY <1>2, <1>3, <2>3, SumThreadMoves DEF randsafe, Break, SumIInv, SumTypes
  <2> QED
    BY <1>3, <2>2, <2>3 DEF randsafe
<1>4. CASE AddError(t)
  <2>1. globalerror' \in BOOLEAN /\ (globalerror => globalerror')
    <3>1. globalerror' = TRUE \/ globalerror' = globalerror
      BY <1>4, Zenon DEF AddError, seterror
    <3>2. globalerror \in BOOLEAN
      BY DEF SumIInv, SumTypes
    <3>3. globalerror' \in BOOLEAN
      BY <3>1, <3>2, Zenon
    <3>4. CASE globalerror' = TRUE
      BY <3>3, <3>4
    <3>5. CASE globalerror' = globalerror
      BY <3>3, <3>5
    <3> QED
      BY <3>1, <3>4, <3>5
  <2> QED
    BY <1>2, <1>4, <2>1, SumThreadMoves DEF AddError, Break
<1>5. CASE AddSum(t)
  <2>1. SumTypes'
    BY <1>5 DEF AddSum, SumIInv, SumTypes
  <2>2. cthr'[t] = "count" /\ \A u \in ComputeSet : u # t => cthr'[u] = cthr[u] /\ cthr[u] # "count"
    BY <1>5 DEF AddSum, SumIInv, SumTypes
  <2>3. SumAhead'
    <3>1. ~ \E u \in ComputeSet : cthr[u] = "count"
      BY <1>5 DEF AddSum
    <3>2. sum = count
      BY <3>1 DEF SumIInv, SumAhead, SumTypes
    <3>3. sum' = count' + 1
      BY <1>5, <3>2 DEF AddSum
    <3> QED
      BY <2>2, <3>3 DEF SumAhead
  <2>4. ErrorsKept'
    BY <1>5, <2>2 DEF AddSum, SumIInv, ErrorsKept
  <2>5. AllJoined'
    BY <1>2, <1>5, <2>2 DEF AddSum, SumIInv, AllJoined
  <2> QED
    BY <2>1, <2>3, <2>4, <2>5 DEF SumIInv
<1>6. CASE AddCount(t)
  <2>1. SumTypes'
    BY <1>6 DEF AddCount, SumIInv, SumTypes
  <2>2. cthr'[t] = "getdone" /\ \A u \in ComputeSet : u # t => cthr'[u] = cthr[u] /\ cthr[u] # "count"
    BY <1>6 DEF AddCount, SumIInv, SumTypes, SumAhead
  <2>3. SumAhead'
    <3>1. sum = count + 1
      BY <1>6 DEF AddCount, SumIInv, SumAhead
    <3>2. sum' = count' + 0
      BY <1>6, <3>1 DEF AddCount, SumIInv, SumTypes
    <3>3. ~ \E u \in ComputeSet : cthr'[u] = "count"
      BY <2>2
    <3> QED
      BY <2>2, <3>2, <3>3 DEF SumAhead
  <2>4. ErrorsKept'
    BY <1>6, <2>2 DEF AddCount, SumIInv, ErrorsKept
  <2>5. AllJoined'
    BY <1>2, <1>6, <2>2 DEF AddCount, SumIInv, AllJoined
  <2> QED
    BY <2>1, <2>3, <2>4, <2>5 DEF SumIInv
<1>7. CASE getdone(t)
  <2>1. leaving[t] = "done"
    BY <1>1, <1>7 DEF getdone, SumIInv, ErrorsKept
  <2>2. CASE cthr' = [cthr EXCEPT ![t] = IF doneflag THEN "end" ELSE "rand"] /\ UNCHANGED leaving
    <3>1. CASE doneflag
      BY <1>1, <1>2, <1>7, <2>1, <2>2, <3>1, SumThreadMoves DEF getdone, SumIInv, SumTypes
    <3>2. CASE ~doneflag
      BY <1>1, <1>2, <1>7, <2>1, <2>2, <3>2, SumThreadMoves DEF getdone, SumIInv, SumTypes
    <3> QED
      BY <3>1, <3>2
  <2>3. CASE Break(t)
    BY <1>2, <1>7, <2>3, SumThreadMoves DEF getdone, Break, SumIInv, SumTypes
  <2> QED
    BY <1>7, <2>2, <2>3 DEF getdone
<1>8. CASE ComputeEnds(t)
  <2>1. globalerror' \in BOOLEAN /\ (globalerror => globalerror')
    BY <1>8, Zenon DEF ComputeEnds, seterror, SumIInv, SumTypes
  <2>2. leaving[t] = "error" /\ "errorlock" \notin failing => globalerror'
    BY <1>8, Zenon DEF ComputeEnds, seterror, MayFail
  <2>3. leaving[t] = "done" => doneflag
    BY <1>8 DEF ComputeEnds, SumIInv, ErrorsKept
  <2> QED
    BY <1>1, <1>2, <1>8, <2>1, <2>2, <2>3, SumThreadMoves DEF ComputeEnds
<1> QED
  BY <1>3, <1>4, <1>5, <1>6, <1>7, <1>8 DEF ComputeStep

\* A step of main or of the signal thread, which starts threads at most.
LEMMA SumOtherKeeps ==
    ASSUME SumIInv, ~Left, SumMain \/ SignalSide \/ SendUsr1
    PROVE  SumIInv'
<1>1. doneflag' \in BOOLEAN /\ globalerror' \in BOOLEAN /\ (doneflag => doneflag') /\ (globalerror => globalerror')
      /\ (cmain' = "shown" => globalerror' = globalerror)
  <2>1. CASE SumMain
    BY <2>1, Zenon DEF SumMain, signalthreadinit, CreateCompute, MainSetdone, JoinCompute, showresults, ShowFails,
       SumIInv, SumTypes
  <2>2. CASE SignalSide
    BY <2>2, Zenon DEF SignalSide, signalthread, SignalSetdone, seterror, Left, SumIInv, SumTypes
  <2>3. CASE SendUsr1
    BY <2>3, Zenon DEF SendUsr1, SumIInv, SumTypes
  <2> QED
    BY <2>1, <2>2, <2>3
<1>2. UNCHANGED <<failing, leaving, sum, count>>
  BY DEF SumMain, signalthreadinit, CreateCompute, MainSetdone, JoinCompute, showresults, ShowFails,
     SignalSide, signalthread, SignalSetdone, SendUsr1
<1>3. CASE UNCHANGED cthr
  <2>1. cmain' \in {"show", "shown"} => \A t \in ComputeSet : cthr[t] = "gone"
    BY DEF SumMain, signalthreadinit, CreateCompute, MainSetdone, JoinCompute, showresults, ShowFails, MainFails,
       SignalSide, signalthread, SignalSetdone, SendUsr1, SumIInv, AllJoined
  <2>2. cmain' = "shown" => ~globalerror'
    <3>1. cmain' = "shown" => ~globalerror
      BY DEF SumMain, signalthreadinit, CreateCompute, MainSetdone, JoinCompute, showresults, ShowFails, MainFails,
         SignalSide, signalthread, SignalSetdone, SendUsr1, SumIInv, AllJoined
    <3> QED
      BY <1>1, <3>1, Zenon
  <2>3. AllJoined'
    BY <1>3, <2>1, <2>2 DEF AllJoined
  <2>4. SumTypes' /\ SumAhead' /\ ErrorsKept'
    BY <1>1, <1>2, <1>3 DEF SumIInv, SumTypes, SumAhead, ErrorsKept
  <2> QED
    BY <2>3, <2>4 DEF SumIInv
<1>4. CASE ~ UNCHANGED cthr
  <2>1. CreateCompute
    BY <1>4 DEF SumMain, signalthreadinit, CreateCompute, MainSetdone, JoinCompute, showresults, ShowFails,
       SignalSide, signalthread, SignalSetdone, SendUsr1
  <2>2. PICK t \in ComputeSet : cthr[t] = "unborn" /\ cthr' = [cthr EXCEPT ![t] = "rand"] /\ UNCHANGED cmain
    BY <1>4, <2>1 DEF CreateCompute
  <2>3. leaving[t] = "done" /\ leaving = [leaving EXCEPT ![t] = leaving[t]]
    BY <2>2 DEF SumIInv, SumTypes, ErrorsKept
  <2> QED
    BY <2>1, <2>2, <2>3, SumThreadMoves DEF CreateCompute, SumIInv, SumTypes
<1> QED
  BY <1>3, <1>4

LEMMA SumInvariant == SumSpec => []SumIInv
<1>1. ComputeInit => SumIInv
  <2> SUFFICES ASSUME ComputeInit PROVE SumIInv
    OBVIOUS
  <2>1. doneflag \in BOOLEAN /\ globalerror \in BOOLEAN
    BY Zenon DEF ComputeInit
  <2>2. SumTypes /\ SumAhead /\ ErrorsKept /\ AllJoined
    BY <2>1 DEF ComputeInit, SumTypes, SumAhead, ErrorsKept, AllJoined
  <2> QED
    BY <2>2 DEF SumIInv
<1>2. SumIInv /\ [SumNext]_compvars => SumIInv'
  <2>1. ASSUME SumIInv, SumNext PROVE SumIInv'
    BY <2>1, SumThreadKeeps, SumOtherKeeps DEF SumNext
  <2>2. ASSUME SumIInv, UNCHANGED compvars PROVE SumIInv'
    BY <2>2 DEF compvars, SumIInv, SumTypes, SumAhead, ErrorsKept, AllJoined
  <2> QED
    BY <2>1, <2>2
<1> QED
  BY <1>1, <1>2, PTL DEF SumSpec
-----------------------------------------------------------------------------
(* The objects of ThreadObjects.                                           *)

Places == {"call", "limit", "test", "waiting", "woken", "unlock", "fail", "end", "load", "store", "done", "use",
           "lock", "name", "copy", "restore"}
ObjectNames == {"barrier", "counter", "printinit", "testandset", "strerror", "once"}

\* The places of a thread in the calls of the object.
ObjPlace(p) ==
    /\ p \in Places
    /\ p \in {"limit", "test", "waiting", "woken", "fail"} => object = "barrier"
    /\ p \in {"load", "store"} => object = "counter"
    /\ p = "done" => object \in {"printinit", "testandset"}
    /\ p = "use" => object = "testandset"
    /\ p \in {"lock", "name", "copy", "restore"} => object = "strerror"
    /\ p = "unlock" => object # "once"

Inner == {"limit", "test", "load", "store", "done", "name", "copy", "unlock", "fail"}
MaskedAt == {"lock", "name", "copy", "unlock", "restore"}

StacksOk ==
    /\ stack \in [ObjThreads -> Seq(Places)]
    /\ \A t \in ObjThreads :
        /\ Len(stack[t]) > 0 /\ ObjPlace(Pc(t))
        /\ object # "strerror" => Len(stack[t]) = 1

ObjTypes ==
    /\ object \in ObjectNames
    /\ owner \in ObjThreads \cup {Nobody}
    /\ tally \in Int /\ limit \in Int /\ inits \in Nat
    /\ loaded \in [ObjThreads -> Int]
    /\ result \in [ObjThreads -> {"none", "ok", "error"}]

\* The mutex is owned by the thread inside its critical section.
OwnerInside == \A t \in ObjThreads : owner = t <=> Pc(t) \in Inner

BarrierKept ==
    object = "barrier" =>
        /\ limit \in {0, BarrierSize}
        /\ \A t \in ObjThreads :
            /\ Pc(t) \in {"test", "waiting", "woken", "unlock"} => limit = BarrierSize
            /\ Pc(t) = "unlock" \/ result[t] = "ok" => tally >= BarrierSize

\* What the threads that have stored have added to the counter.
Counted == {t \in ObjThreads : Pc(t) \in {"unlock", "end"}}
Ups == {t \in Counted : t % 2 = 0}
Downs == {t \in Counted : t % 2 # 0}
CounterKept ==
    object = "counter" /\ ~faulty =>
        /\ tally = Cardinality(Ups) - Cardinality(Downs)
        /\ \A t \in ObjThreads : Pc(t) = "store" => loaded[t] = tally

InitKept ==
    /\ object \in {"barrier", "counter", "strerror"} => inits = 0
    /\ object \in {"printinit", "once"} =>
        /\ tally \in {0, 1} /\ inits = tally /\ (tally = 1 => var = 1)
        /\ \A t \in ObjThreads : Pc(t) = "unlock" \/ result[t] = "ok" => tally = 1

\* testandset: the one thread that has found done unset, and not initialized the variable.
Claimer(t) == Pc(t) \in {"unlock", "use"} /\ loaded[t] = 0
ClaimKept ==
    object = "testandset" =>
        /\ inits <= 1
        /\ \A t \in ObjThreads : Claimer(t) => tally # 0 /\ inits = 0 /\ \A u \in ObjThreads : Claimer(u) => t = u
        /\ tally = 0 => inits = 0

\* strerror: calls run with the signals masked, on top of calls that have not
\* masked them yet or have restored the mask.
SigsOf == [masked : BOOLEAN, old : Seq(BOOLEAN), sent : BOOLEAN]
MaskKept ==
    /\ sigs \in [ObjThreads -> SigsOf]
    /\ object = "strerror" => \A t \in ObjThreads :
        /\ \A i \in 1..(Len(stack[t]) - 1) : stack[t][i] \in {"call", "end"}
        /\ Pc(t) \in MaskedAt => sigs[t].masked /\ sigs[t].old = <<FALSE>>
        /\ Pc(t) \notin MaskedAt => ~sigs[t].masked /\ sigs[t].old = <<>>
        /\ loaded[t] \in {0, t}
        /\ Pc(t) = "copy" => tally = t

ObjIInv == StacksOk /\ ObjTypes /\ OwnerInside /\ BarrierKept /\ CounterKept /\ InitKept /\ ClaimKept /\ MaskKept

\* A thread goes from one place to another in its current call.
LEMMA ObjGoes ==
    ASSUME StacksOk, object' = object, NEW t \in ObjThreads, NEW to, ObjPlace(to), To(t, to)
    PROVE  /\ StacksOk' /\ Pc(t)' = to
           /\ \A u \in ObjThreads : u # t => Pc(u)' = Pc(u) /\ stack'[u] = stack[u]
           /\ \A u \in ObjThreads : Len(stack'[u]) = Len(stack[u])
           /\ \A i \in 1..(Len(stack[t]) - 1) : stack'[t][i] = stack[t][i]
<1> DEFINE s == stack[t]
           n == Len(s)
           r == [s EXCEPT ![n] = to]
<1>1. s \in Seq(Places) /\ n \in Nat /\ n > 0
  BY DEF StacksOk
<1>2. to \in Places
  BY DEF ObjPlace
<1>3. r \in Seq(Places) /\ Len(r) = n /\ r[n] = to /\ \A i \in 1..(n - 1) : r[i] = s[i]
  BY <1>1, <1>2
<1>4. stack' = [stack EXCEPT ![t] = r]
  BY DEF To
<1>5. stack'[t] = r /\ \A u \in ObjThreads : u # t => stack'[u] = stack[u]
  BY <1>4 DEF StacksOk
<1>6. stack' \in [ObjThreads -> Seq(Places)]
  BY <1>3, <1>4 DEF StacksOk
<1>7. Pc(t)' = to
  BY <1>3, <1>5 DEF Pc
<1>8. \A u \in ObjThreads : u # t => Pc(u)' = Pc(u)
  BY <1>5 DEF Pc
<1>9. \A u \in ObjThreads : Len(stack'[u]) = Len(stack[u])
  BY <1>3, <1>5
<1>10. StacksOk'
  BY <1>6, <1>7, <1>8, <1>9 DEF StacksOk, ObjPlace
<1> QED
  BY <1>3, <1>5, <1>7, <1>8, <1>9, <1>10

\* ... and what it keeps of each part of the invariant.
LEMMA ObjStepTypes ==
    ASSUME ObjIInv, NEW t \in ObjThreads, ObjStep(t) \/ SpuriousWakeup(t)
    PROVE  ObjTypes' /\ object' = object /\ faulty' = faulty
<1> USE DEF ObjIInv, ObjTypes
<1>1. CASE LockObject(t)
  BY <1>1 DEF LockObject
<1>2. CASE LockError(t)
  BY <1>2 DEF LockError, Ends
<1>3. CASE UnlockObject(t)
  BY <1>3 DEF UnlockObject, Ends, Nobody
<1>4. CASE TestLimit(t)
  BY <1>4 DEF TestLimit
<1>5. CASE WaitBarrier(t)
  BY <1>5 DEF WaitBarrier
<1>6. CASE Broadcast(t)
  BY <1>6 DEF Broadcast
<1>7. CASE Relock(t)
  BY <1>7 DEF Relock
<1>8. CASE LoadCount(t)
  BY <1>8 DEF LoadCount
<1>9. CASE StoreCount(t)
  BY <1>9 DEF StoreCount
<1>10. CASE InitUnderLock(t)
  BY <1>10 DEF InitUnderLock
<1>11. CASE TestAndSet(t)
  BY <1>11 DEF TestAndSet
<1>12. CASE UseOnce(t)
  BY <1>12 DEF UseOnce
<1>13. CASE InitOnce(t)
  BY <1>13 DEF InitOnce, Ends
<1>14. CASE MaskAll(t)
  BY <1>14 DEF MaskAll
<1>15. CASE GetMessage(t)
  BY <1>15, ObjectsAssumption DEF GetMessage
<1>16. CASE CopyMessage(t)
  BY <1>16 DEF CopyMessage
<1>17. CASE RestoreOld(t)
  BY <1>17 DEF RestoreOld, Ends
<1>18. CASE HandlerReturns(t)
  BY <1>18 DEF HandlerReturns
<1>19. CASE SpuriousWakeup(t)
  BY <1>19 DEF SpuriousWakeup
<1> QED
  BY <1>1, <1>2, <1>3, <1>4, <1>5, <1>6, <1>7, <1>8, <1>9, <1>10, <1>11, <1>12, <1>13, <1>14, <1>15, <1>16,
     <1>17, <1>18, <1>19 DEF ObjStep

\* The mutex changes hands where the thread enters or leaves the critical section.
MutexFollows(t, to) ==
    \/ owner' = owner /\ (Pc(t) \in Inner <=> to \in Inner)
    \/ owner = Nobody /\ owner' = t /\ Pc(t) \notin Inner /\ to \in Inner
    \/ owner' = Nobody /\ Pc(t) \in Inner /\ to \notin Inner

LEMMA OwnerFollows ==
    ASSUME ObjIInv, NEW t \in ObjThreads, NEW to, MutexFollows(t, to), Pc(t)' = to,
           \A u \in ObjThreads : u # t => Pc(u)' = Pc(u)
    PROVE  OwnerInside'
<1>1. t # Nobody /\ \A u \in ObjThreads : u # Nobody
  BY ObjectsAssumption DEF Nobody
<1>2. \A u \in ObjThreads : owner = u <=> Pc(u) \in Inner
  BY DEF ObjIInv, OwnerInside
<1> HIDE DEF Inner
<1>3. \A u \in ObjThreads : owner' = u <=> Pc(u)' \in Inner
  BY <1>1, <1>2 DEF MutexFollows
<1> QED
  BY <1>3 DEF OwnerInside, Inner

\* What the steps of a thread other than a broadcast and a return from a handler do.
Advances(t) ==
    /\ StacksOk' /\ OwnerInside'
    /\ \E to \in Places :
        /\ To(t, to) /\ Pc(t)' = to
        /\ \A u \in ObjThreads : u # t => Pc(u)' = Pc(u) /\ stack'[u] = stack[u]
        /\ \A u \in ObjThreads : Len(stack'[u]) = Len(stack[u])
        /\ \A i \in 1..(Len(stack[t]) - 1) : stack'[t][i] = stack[t][i]

LEMMA ObjAdvances ==
    ASSUME ObjIInv, NEW t \in ObjThreads, ObjStep(t) \/ SpuriousWakeup(t), ~Broadcast(t), ~HandlerReturns(t)
    PROVE  Advances(t)
<1>1. object \in ObjectNames /\ ObjPlace(Pc(t)) /\ StacksOk /\ object' = object
  BY ObjStepTypes DEF ObjIInv, ObjTypes, StacksOk
<1>2. SUFFICES \E to : ObjPlace(to) /\ To(t, to) /\ MutexFollows(t, to)
  <2>1. PICK to : ObjPlace(to) /\ To(t, to) /\ MutexFollows(t, to)
    BY <1>2
  <2>2. to \in Places
    BY <2>1 DEF ObjPlace
  <2> QED
    BY <1>1, <2>1, <2>2, ObjGoes, OwnerFollows DEF Advances
<1> USE DEF MutexFollows, Inner, ObjPlace, Places
<1>3. CASE LockObject(t)
  <2>1. Locked[object] = IF object = "barrier" THEN "limit" ELSE IF object = "counter" THEN "load"
                         ELSE IF object = "strerror" THEN "name" ELSE "done"
    BY <1>1, <1>3 DEF LockObject, Locked, ObjectNames
  <2>2. Pc(t) = Entry /\ To(t, Locked[object]) /\ owner' = t /\ owner = Nobody /\ object # "once"
    BY <1>3 DEF LockObject, Go
  <2> QED
    BY <1>1, <2>1, <2>2 DEF Entry, ObjectNames
<1>4. CASE LockError(t)
  <2>1. CASE object = "strerror"
    BY <1>4, <2>1 DEF LockError, Go, Entry
  <2>2. CASE object # "strerror"
    BY <1>4, <2>2 DEF LockError, Go, Entry
  <2> QED
    BY <2>1, <2>2
<1>5. CASE UnlockObject(t)
  <2>1. CASE object = "strerror"
    BY <1>5, <2>1 DEF UnlockObject
  <2>2. CASE object = "testandset"
    BY <1>5, <2>2 DEF UnlockObject
  <2>3. CASE object \notin {"strerror", "testandset"}
    BY <1>5, <2>3 DEF UnlockObject
  <2> QED
    BY <2>1, <2>2, <2>3
<1>6. CASE TestLimit(t)
  <2>1. CASE limit <= 0
    BY <1>6, <2>1 DEF TestLimit, Go
  <2>2. CASE ~(limit <= 0)
    BY <1>6, <2>2 DEF TestLimit, Go
  <2> QED
    BY <2>1, <2>2
<1>7. CASE WaitBarrier(t)
  BY <1>7 DEF WaitBarrier, Go
<1>8. CASE Relock(t)
  BY <1>1, <1>8 DEF Relock, Go
<1>9. CASE LoadCount(t)
  BY <1>9 DEF LoadCount, Go
<1>10. CASE StoreCount(t)
  BY <1>1, <1>10 DEF StoreCount, Go
<1>11. CASE InitUnderLock(t)
  BY <1>11 DEF InitUnderLock, Go
<1>12. CASE TestAndSet(t)
  BY <1>12 DEF TestAndSet, Go
<1>13. CASE UseOnce(t)
  BY <1>13 DEF UseOnce, Go
<1>14. CASE InitOnce(t)
  BY <1>14 DEF InitOnce, Go
<1>15. CASE MaskAll(t)
  BY <1>15 DEF MaskAll, Go
<1>16. CASE GetMessage(t)
  BY <1>16 DEF GetMessage, Go
<1>17. CASE CopyMessage(t)
  BY <1>1, <1>17 DEF CopyMessage, Go
<1>18. CASE RestoreOld(t)
  BY <1>18 DEF RestoreOld, Go
<1>19. CASE SpuriousWakeup(t)
  BY <1>1, <1>19 DEF SpuriousWakeup, Go
<1> QED
  BY <1>3, <1>4, <1>5, <1>6, <1>7, <1>8, <1>9, <1>10, <1>11, <1>12, <1>13, <1>14, <1>15, <1>16,
     <1>17, <1>18, <1>19 DEF ObjStep

\* The steps of each object.
LEMMA StepsOfObject ==
    ASSUME ObjIInv, NEW t \in ObjThreads, ObjStep(t) \/ SpuriousWakeup(t), ~Broadcast(t), ~HandlerReturns(t)
    PROVE  /\ object = "barrier" => \/ LockObject(t) \/ LockError(t) \/ UnlockObject(t)
                                    \/ TestLimit(t) \/ WaitBarrier(t) \/ Relock(t) \/ SpuriousWakeup(t)
           /\ object = "counter" => LockObject(t) \/ LockError(t) \/ UnlockObject(t) \/ LoadCount(t) \/ StoreCount(t)
           /\ object = "printinit" => LockObject(t) \/ LockError(t) \/ UnlockObject(t) \/ InitUnderLock(t)
           /\ object = "testandset" => \/ LockObject(t) \/ LockError(t) \/ UnlockObject(t)
                                       \/ TestAndSet(t) \/ UseOnce(t)
           /\ object = "once" => InitOnce(t)
           /\ object = "strerror" => \/ LockObject(t) \/ LockError(t) \/ UnlockObject(t)
                                     \/ MaskAll(t) \/ GetMessage(t) \/ CopyMessage(t) \/ RestoreOld(t)
<1>1. ObjPlace(Pc(t))
  BY DEF ObjIInv, StacksOk
<1> QED
  BY <1>1 DEF ObjStep, ObjPlace, LockObject, LockError, UnlockObject, TestLimit, WaitBarrier, Relock, LoadCount, StoreCount,
     InitUnderLock, TestAndSet, UseOnce, InitOnce, MaskAll, GetMessage, CopyMessage, RestoreOld, SpuriousWakeup, Go

LEMMA BarrierStep ==
    ASSUME ObjIInv, NEW t \in ObjThreads, ObjStep(t) \/ SpuriousWakeup(t), ~Broadcast(t), ~HandlerReturns(t)
    PROVE  BarrierKept'
<1> SUFFICES ASSUME object = "barrier" PROVE BarrierKept'
  BY ObjStepTypes DEF BarrierKept
<1>1. \/ LockObject(t) \/ LockError(t) \/ UnlockObject(t) \/ TestLimit(t) \/ WaitBarrier(t) \/ Relock(t) \/ SpuriousWakeup(t)
  BY StepsOfObject
<1>2. PICK to : To(t, to) /\ Pc(t)' = to /\ \A u \in ObjThreads : u # t => Pc(u)' = Pc(u)
  BY ObjAdvances DEF Advances
<1>3. BarrierKept /\ ObjTypes /\ stack \in [ObjThreads -> Seq(Places)] /\ Len(stack[t]) = 1
  BY DEF ObjIInv, StacksOk
<1>4. \A p, q : To(t, p) /\ To(t, q) => p = q
  BY <1>3 DEF To
<1>5. limit' = limit /\ tally' \in Int /\ tally' >= tally
  BY <1>1, <1>3 DEF LockObject, LockError, UnlockObject, TestLimit, WaitBarrier, Relock, SpuriousWakeup, ObjTypes
<1>6. \A u \in ObjThreads : result'[u] = "ok" => result[u] = "ok" \/ (u = t /\ Pc(t) = "unlock")
  BY <1>1, <1>3 DEF LockObject, LockError, UnlockObject, TestLimit, WaitBarrier, Relock, SpuriousWakeup, ObjTypes, Ends
<1>7. \A u \in ObjThreads : result'[u] = "ok" => tally' >= BarrierSize
  BY <1>3, <1>5, <1>6, ObjectsAssumption DEF BarrierKept, ObjTypes
<1>8. to # "unlock" /\ (to \in {"test", "waiting", "woken"} => limit = BarrierSize)
  BY <1>1, <1>2, <1>3, <1>4, ObjectsAssumption DEF LockObject, LockError, UnlockObject, TestLimit, WaitBarrier, Relock,
     SpuriousWakeup, Go, BarrierKept, Entry, Locked
<1>9. \A u \in ObjThreads :
          /\ Pc(u)' \in {"test", "waiting", "woken", "unlock"} => limit' = BarrierSize
          /\ Pc(u)' = "unlock" => tally' >= BarrierSize
  BY <1>2, <1>3, <1>5, <1>8, ObjectsAssumption DEF BarrierKept, ObjTypes
<1> QED
  BY <1>3, <1>5, <1>7, <1>9 DEF BarrierKept

LEMMA CounterStep ==
    ASSUME ObjIInv, NEW t \in ObjThreads, ObjStep(t) \/ SpuriousWakeup(t), ~Broadcast(t), ~HandlerReturns(t)
    PROVE  CounterKept'
<1> SUFFICES ASSUME object = "counter", ~faulty PROVE CounterKept'
  BY ObjStepTypes DEF CounterKept
<1>1. LockObject(t) \/ UnlockObject(t) \/ LoadCount(t) \/ StoreCount(t)
  BY StepsOfObject DEF LockError
<1>2. PICK to : To(t, to) /\ Pc(t)' = to /\ \A u \in ObjThreads : u # t => Pc(u)' = Pc(u)
  BY ObjAdvances DEF Advances
<1>3. CounterKept /\ ObjTypes /\ OwnerInside /\ stack \in [ObjThreads -> Seq(Places)] /\ Len(stack[t]) = 1 /\ ObjPlace(Pc(t))
  BY DEF ObjIInv, StacksOk
<1>4. \A p, q : To(t, p) /\ To(t, q) => p = q
  BY <1>3 DEF To
<1>5. IsFiniteSet(Ups) /\ IsFiniteSet(Downs) /\ Cardinality(Ups) \in Nat /\ Cardinality(Downs) \in Nat
  <2>1. Ups \subseteq ObjThreads /\ Downs \subseteq ObjThreads
    BY DEF Ups, Downs, Counted
  <2> QED
    BY <2>1, ObjectsAssumption, FS_Subset, FS_CardinalityType
<1>6. CASE StoreCount(t)
  <2>1. Pc(t) = "store" /\ to = "unlock" /\ loaded[t] = tally
    BY <1>2, <1>3, <1>4, <1>6 DEF StoreCount, Go, CounterKept
  <2>2. Counted' = Counted \cup {t} /\ t \notin Counted
    BY <1>2, <2>1 DEF Counted
  <2>3. \A u \in ObjThreads : Pc(u)' # "store"
    BY <1>2, <1>3, <2>1 DEF OwnerInside, Inner
  <2>4. CASE t % 2 = 0
    <3>1. Ups' = Ups \cup {t} /\ t \notin Ups /\ Downs' = Downs
      BY <2>2, <2>4 DEF Ups, Downs
    <3>2. Cardinality(Ups') = Cardinality(Ups) + 1
      BY <1>5, <3>1, FS_AddElement
    <3>3. tally' = tally + 1
      BY <1>6, <2>1, <2>4 DEF StoreCount
    <3> QED
      BY <1>3, <1>5, <2>3, <3>1, <3>2, <3>3 DEF CounterKept, ObjTypes
  <2>5. CASE t % 2 # 0
    <3>1. Downs' = Downs \cup {t} /\ t \notin Downs /\ Ups' = Ups
      BY <2>2, <2>5 DEF Ups, Downs
    <3>2. Cardinality(Downs') = Cardinality(Downs) + 1
      BY <1>5, <3>1, FS_AddElement
    <3>3. tally' = tally - 1
      BY <1>6, <2>1, <2>5 DEF StoreCount
    <3> QED
      BY <1>3, <1>5, <2>3, <3>1, <3>2, <3>3 DEF CounterKept, ObjTypes
  <2> QED
    BY <2>4, <2>5
<1>7. CASE ~StoreCount(t)
  <2>1. /\ to \in {"unlock", "end"} <=> Pc(t) \in {"unlock", "end"}
        /\ to = "store" => loaded'[t] = tally
    <3>1. CASE LockObject(t)
      <4>1. Pc(t) = "call" /\ To(t, "load")
        BY <3>1 DEF LockObject, Go, Entry, Locked
      <4> QED
        BY <1>2, <1>4, <4>1
    <3>2. CASE UnlockObject(t)
      BY <1>2, <1>3, <1>4, <3>2 DEF UnlockObject, ObjPlace
    <3>3. CASE LoadCount(t)
      BY <1>2, <1>3, <1>4, <3>3 DEF LoadCount, Go, ObjTypes
    <3> QED
      BY <1>1, <1>7, <3>1, <3>2, <3>3
  <2>2. Counted' = Counted
    BY <1>2, <2>1 DEF Counted
  <2>3. Ups' = Ups /\ Downs' = Downs
    BY <2>2 DEF Ups, Downs
  <2>4. tally' = tally /\ \A u \in ObjThreads : u # t => loaded'[u] = loaded[u]
    BY <1>1, <1>3, <1>7 DEF LockObject, UnlockObject, LoadCount, ObjTypes
  <2> QED
    BY <1>2, <1>3, <2>1, <2>3, <2>4 DEF CounterKept
<1> QED
  BY <1>6, <1>7

LEMMA InitStep ==
    ASSUME ObjIInv, NEW t \in ObjThreads, ObjStep(t) \/ SpuriousWakeup(t), ~Broadcast(t), ~HandlerReturns(t)
    PROVE  InitKept'
<1>1. CASE object \in {"barrier", "counter", "strerror"}
  <2>1. inits' = inits /\ object' = object
    BY <1>1, StepsOfObject DEF LockObject, LockError, UnlockObject, TestLimit, WaitBarrier, Relock, LoadCount, StoreCount,
       MaskAll, GetMessage, CopyMessage, RestoreOld, SpuriousWakeup
  <2> QED
    BY <1>1, <2>1 DEF InitKept, ObjIInv
<1>2. CASE object \in {"printinit", "once"}
  <2>1. LockObject(t) \/ LockError(t) \/ UnlockObject(t) \/ InitUnderLock(t) \/ InitOnce(t)
    BY <1>2, StepsOfObject
  <2>2. PICK to : To(t, to) /\ Pc(t)' = to /\ \A u \in ObjThreads : u # t => Pc(u)' = Pc(u)
    BY ObjAdvances DEF Advances
  <2>3. /\ InitKept /\ ObjTypes /\ stack \in [ObjThreads -> Seq(Places)] /\ Len(stack[t]) = 1 /\ object' = object
        /\ ObjPlace(Pc(t))
    BY <1>2, ObjStepTypes DEF ObjIInv, StacksOk
  <2>4. \A p, q : To(t, p) /\ To(t, q) => p = q
    BY <2>3 DEF To
  <2>5. tally' \in {0, 1} /\ inits' = tally' /\ (tally' = 1 => var' = 1) /\ (tally = 1 => tally' = 1)
    BY <1>2, <2>1, <2>3 DEF LockObject, LockError, UnlockObject, InitUnderLock, InitOnce, InitKept
  <2>6. to = "unlock" => tally' = 1
    BY <1>2, <2>1, <2>2, <2>3, <2>4 DEF LockObject, LockError, UnlockObject, InitUnderLock, InitOnce, InitKept, Go, Entry,
       Locked
  <2>7. \A u \in ObjThreads : result'[u] = "ok" => tally' = 1
    BY <1>2, <2>1, <2>3 DEF LockObject, LockError, UnlockObject, InitUnderLock, InitOnce, InitKept, Ends, ObjPlace, ObjTypes
  <2> QED
    BY <1>2, <2>2, <2>3, <2>5, <2>6, <2>7 DEF InitKept
<1>3. CASE object = "testandset"
  BY <1>3, ObjStepTypes DEF InitKept
<1> QED
  BY <1>1, <1>2, <1>3 DEF ObjIInv, ObjTypes, ObjectNames

LEMMA ClaimStep ==
    ASSUME ObjIInv, NEW t \in ObjThreads, ObjStep(t) \/ SpuriousWakeup(t), ~Broadcast(t), ~HandlerReturns(t)
    PROVE  ClaimKept'
<1> SUFFICES ASSUME object = "testandset" PROVE ClaimKept'
  BY ObjStepTypes DEF ClaimKept
<1>1. LockObject(t) \/ LockError(t) \/ UnlockObject(t) \/ TestAndSet(t) \/ UseOnce(t)
  BY StepsOfObject
<1>2. PICK to : To(t, to) /\ Pc(t)' = to /\ \A u \in ObjThreads : u # t => Pc(u)' = Pc(u)
  BY ObjAdvances DEF Advances
<1>3. /\ ClaimKept /\ ObjTypes /\ stack \in [ObjThreads -> Seq(Places)] /\ Len(stack[t]) = 1
      /\ ObjPlace(Pc(t))
  BY ObjStepTypes DEF ObjIInv, StacksOk
<1>4. \A p, q : To(t, p) /\ To(t, q) => p = q
  BY <1>3 DEF To
<1>5. CASE TestAndSet(t)
  <2>1. to = "unlock" /\ Pc(t) = "done"
    BY <1>2, <1>4, <1>5 DEF TestAndSet, Go
  <2>2. loaded'[t] = tally /\ tally' = 1 /\ inits' = inits /\ \A u \in ObjThreads : u # t => loaded'[u] = loaded[u]
    BY <1>3, <1>5 DEF TestAndSet, ObjTypes
  <2>3. \A u \in ObjThreads : u # t => (Claimer(u)' <=> Claimer(u))
    BY <1>2, <2>2 DEF Claimer
  <2>4. Claimer(t)' <=> tally = 0
    BY <1>2, <2>1, <2>2 DEF Claimer
  <2> QED
    BY <1>3, <2>2, <2>3, <2>4 DEF ClaimKept, ObjTypes
<1>6. CASE UseOnce(t)
  <2>1. to = "end" /\ Pc(t) = "use"
    BY <1>2, <1>4, <1>6 DEF UseOnce, Go
  <2>2. \A u \in ObjThreads : u # t => (Claimer(u)' <=> Claimer(u))
    BY <1>2, <1>6 DEF Claimer, UseOnce
  <2>3. ~Claimer(t)' /\ (Claimer(t) <=> loaded[t] = 0)
    BY <1>2, <2>1 DEF Claimer
  <2> QED
    BY <1>3, <1>6, <2>2, <2>3 DEF ClaimKept, ObjTypes, UseOnce
<1>7. CASE LockObject(t) \/ LockError(t) \/ UnlockObject(t)
  <2>1. UNCHANGED <<tally, loaded, inits>>
    BY <1>7 DEF LockObject, LockError, UnlockObject
  <2>2. to \in {"unlock", "use"} => Pc(t) \in {"unlock", "use"}
    BY <1>2, <1>3, <1>4, <1>7 DEF LockObject, LockError, UnlockObject, Go, Entry, Locked, ObjPlace
  <2>3. \A u \in ObjThreads : Claimer(u)' => Claimer(u)
    BY <1>2, <2>1, <2>2 DEF Claimer
  <2> QED
    BY <1>3, <2>1, <2>3 DEF ClaimKept
<1> QED
  BY <1>1, <1>5, <1>6, <1>7

LEMMA MaskStep ==
    ASSUME ObjIInv, NEW t \in ObjThreads, ObjStep(t) \/ SpuriousWakeup(t), ~Broadcast(t), ~HandlerReturns(t)
    PROVE  MaskKept'
<1>1. object' = object /\ MaskKept /\ ObjTypes
  BY ObjStepTypes DEF ObjIInv
<1>2. CASE object # "strerror"
  <2>1. sigs' = sigs
    BY <1>1, <1>2, StepsOfObject DEF LockObject, LockError, UnlockObject, TestLimit, WaitBarrier, Relock, LoadCount, StoreCount,
       InitUnderLock, TestAndSet, UseOnce, InitOnce, SpuriousWakeup, ObjTypes, ObjectNames
  <2> QED
    BY <1>1, <1>2, <2>1 DEF MaskKept
<1>3. CASE object = "strerror"
  <2>1. LockObject(t) \/ LockError(t) \/ UnlockObject(t) \/ MaskAll(t) \/ GetMessage(t) \/ CopyMessage(t) \/ RestoreOld(t)
    BY <1>3, StepsOfObject
  <2>2. PICK to \in Places :
            /\ To(t, to) /\ Pc(t)' = to
            /\ \A u \in ObjThreads : u # t => Pc(u)' = Pc(u) /\ stack'[u] = stack[u]
            /\ \A u \in ObjThreads : Len(stack'[u]) = Len(stack[u])
            /\ \A i \in 1..(Len(stack[t]) - 1) : stack'[t][i] = stack[t][i]
    BY ObjAdvances DEF Advances
  <2>3. /\ stack \in [ObjThreads -> Seq(Places)] /\ Len(stack[t]) > 0 /\ ObjPlace(Pc(t))
        /\ OwnerInside /\ sigs \in [ObjThreads -> SigsOf] /\ sigs[t] \in SigsOf
    BY <1>1 DEF ObjIInv, StacksOk, MaskKept
  <2>10. \A u \in ObjThreads :
            /\ \A i \in 1..(Len(stack[u]) - 1) : stack[u][i] \in {"call", "end"}
            /\ Pc(u) \in MaskedAt => sigs[u].masked /\ sigs[u].old = <<FALSE>>
            /\ Pc(u) \notin MaskedAt => ~sigs[u].masked /\ sigs[u].old = <<>>
            /\ Pc(u) = "copy" => tally = u
    BY <1>1, <1>3, Zenon DEF MaskKept
  <2>4. \A p, q \in Places : To(t, p) /\ To(t, q) => p = q
    <3> DEFINE n == Len(stack[t])
    <3> SUFFICES ASSUME NEW p \in Places, NEW q \in Places, To(t, p), To(t, q) PROVE p = q
      OBVIOUS
    <3>1. stack'[t] = [stack[t] EXCEPT ![n] = p] /\ stack'[t] = [stack[t] EXCEPT ![n] = q]
      BY <2>3 DEF To
    <3>2. n \in DOMAIN stack[t]
      BY <2>3
    <3> QED
      BY <3>1, <3>2
  <2>5. /\ sigs' \in [ObjThreads -> SigsOf]
        /\ \A u \in ObjThreads : u # t => sigs'[u] = sigs[u]
        /\ to \in MaskedAt => sigs'[t].masked /\ sigs'[t].old = <<FALSE>>
        /\ to \notin MaskedAt => ~sigs'[t].masked /\ sigs'[t].old = <<>>
    <3>1. CASE MaskAll(t)
      <4> DEFINE old == Append(sigs[t].old, sigs[t].masked)
                 s == [sigs[t] EXCEPT !.old = old, !.masked = TRUE]
      <4>1. Pc(t) = "call" /\ to = "lock"
        BY <2>2, <2>4, <3>1 DEF MaskAll, Go, Places
      <4>2. sigs[t].old = <<>> /\ sigs[t].masked = FALSE
        BY <1>1, <1>3, <2>3, <4>1, Zenon DEF MaskKept, MaskedAt, SigsOf
      <4>3. old = <<FALSE>> /\ old \in Seq(BOOLEAN)
        <5>1. old = Append(<<>>, FALSE)
          BY <4>2, Zenon
        <5> QED
          BY <5>1
      <4>4. s \in SigsOf /\ s.masked = TRUE /\ s.old = old
        BY <2>3, <4>3 DEF SigsOf
      <4>5. sigs' = [sigs EXCEPT ![t] = s]
        BY <2>3, <3>1 DEF MaskAll, SigsOf
      <4>6. sigs'[t] = s
        BY <2>3, <4>5
      <4> HIDE DEF s
      <4> QED
        BY <2>3, <4>1, <4>3, <4>4, <4>5, <4>6 DEF MaskedAt
    <3>2. CASE RestoreOld(t)
      <4> DEFINE s == [sigs[t] EXCEPT !.old = <<>>, !.masked = FALSE]
      <4>1. Pc(t) = "restore" /\ to = "end"
        BY <2>2, <2>4, <3>2 DEF RestoreOld, Go, Places
      <4>2. sigs[t].old = <<FALSE>>
        BY <1>1, <1>3, <2>3, <4>1 DEF MaskKept, MaskedAt
      <4>3. SubSeq(sigs[t].old, 1, Len(sigs[t].old) - 1) = <<>> /\ sigs[t].old[Len(sigs[t].old)] = FALSE
        BY <4>2
      <4>4. s \in SigsOf /\ s.masked = FALSE /\ s.old = <<>>
        <5>1. <<>> \in Seq(BOOLEAN)
          OBVIOUS
        <5> QED
          BY <2>3, <5>1 DEF SigsOf
      <4>5. sigs' = [sigs EXCEPT ![t] = s]
        BY <2>3, <3>2, <4>3 DEF RestoreOld, SigsOf
      <4>6. sigs'[t] = s
        BY <2>3, <4>5
      <4> HIDE DEF s
      <4> QED
        BY <2>3, <4>1, <4>4, <4>5, <4>6 DEF MaskedAt
    <3>3. CASE LockObject(t) \/ LockError(t) \/ UnlockObject(t) \/ GetMessage(t) \/ CopyMessage(t)
      <4>1. sigs' = sigs
        BY <3>3 DEF LockObject, LockError, UnlockObject, GetMessage, CopyMessage
      <4>2. Pc(t) \in MaskedAt /\ to \in MaskedAt
        BY <1>3, <2>2, <2>3, <2>4, <3>3 DEF LockObject, LockError, UnlockObject, GetMessage, CopyMessage, Go, Entry,
           Locked, MaskedAt, Places, ObjPlace
      <4> QED
        BY <1>1, <1>3, <4>1, <4>2 DEF MaskKept
    <3> QED
      BY <2>1, <3>1, <3>2, <3>3
  <2>6. \A u \in ObjThreads : loaded'[u] \in {0, u}
    BY <1>1, <1>3, <2>1 DEF LockObject, LockError, UnlockObject, GetMessage, CopyMessage, MaskAll, RestoreOld, Go,
       MaskKept, ObjTypes
  <2>7. \A u \in ObjThreads : Pc(u)' = "copy" => tally' = u
    <3>1. CASE GetMessage(t)
      <4>1. Pc(t) = "name" /\ tally' = t
        BY <3>1 DEF GetMessage, Go
      <4>2. \A u \in ObjThreads : u # t => Pc(u) # "copy"
        BY <2>3, <4>1 DEF OwnerInside, Inner
      <4> QED
        BY <2>2, <4>1, <4>2
    <3>2. CASE ~GetMessage(t)
      <4>1. tally' = tally
        BY <2>1, <3>2 DEF LockObject, LockError, UnlockObject, CopyMessage, MaskAll, RestoreOld
      <4>2. to # "copy"
        BY <1>3, <2>1, <2>2, <2>4, <3>2 DEF LockObject, LockError, UnlockObject, CopyMessage, MaskAll, RestoreOld, Go,
           Entry, Locked, Places
      <4> QED
        BY <2>2, <2>10, <4>1, <4>2
    <3> QED
      BY <3>1, <3>2
  <2>8. \A u \in ObjThreads : \A i \in 1..(Len(stack'[u]) - 1) : stack'[u][i] \in {"call", "end"}
    BY <2>2, <2>10
  <2>9. \A u \in ObjThreads :
            /\ Pc(u)' \in MaskedAt => sigs'[u].masked /\ sigs'[u].old = <<FALSE>>
            /\ Pc(u)' \notin MaskedAt => ~sigs'[u].masked /\ sigs'[u].old = <<>>
    <3> TAKE u \in ObjThreads
    <3>1. CASE u = t
      BY <2>2, <2>5, <3>1
    <3>2. CASE u # t
      <4>1. Pc(u)' = Pc(u) /\ sigs'[u] = sigs[u]
        BY <2>2, <2>5, <3>2
      <4> QED
        BY <2>10, <4>1
    <3> QED
      BY <3>1, <3>2
  <2> QED
    BY <2>5, <2>6, <2>7, <2>8, <2>9, Zenon DEF MaskKept
<1> QED
  BY <1>2, <1>3

\* The steps that change other stacks, push a handler or return from it.
LEMMA BroadcastKeeps ==
    ASSUME ObjIInv, NEW t \in ObjThreads, Broadcast(t)
    PROVE  ObjIInv'
<1>1. object = "barrier" /\ Pc(t) = "test" /\ tally >= limit
  BY DEF Broadcast
<1>2. UNCHANGED <<object, faulty, owner, tally, limit, var, loaded, inits, result, sigs>>
  BY DEF Broadcast
<1>3. \A u \in ObjThreads : Len(stack[u]) = 1 /\ stack[u] \in Seq(Places) /\ ObjPlace(Pc(u))
  BY <1>1 DEF ObjIInv, StacksOk
<1>4. \A u \in ObjThreads : stack'[u] = IF u = t THEN <<"unlock">> ELSE IF Pc(u) = "waiting" THEN <<"woken">> ELSE stack[u]
  BY DEF Broadcast
<1>5. \A u \in ObjThreads : Pc(u)' = IF u = t THEN "unlock" ELSE IF Pc(u) = "waiting" THEN "woken" ELSE Pc(u)
  BY <1>4 DEF Pc
<1>6. <<"unlock">> \in Seq(Places) /\ <<"woken">> \in Seq(Places)
  BY DEF Places
<1>7. \A u \in ObjThreads : stack'[u] \in Seq(Places) /\ Len(stack'[u]) = 1
  BY <1>3, <1>4, <1>6
<1>8. StacksOk'
  <2>1. stack' \in [ObjThreads -> Seq(Places)]
    BY <1>7 DEF Broadcast
  <2>2. \A u \in ObjThreads : ObjPlace(Pc(u))'
    BY <1>1, <1>2, <1>3, <1>5 DEF ObjPlace, Places
  <2>3. \A u \in ObjThreads : Len(stack'[u]) = 1 /\ Len(stack'[u]) > 0
    <3>1. \A u \in ObjThreads : Len(stack'[u]) = 1
      BY <1>7, Zenon
    <3> QED
      BY <3>1
  <2> QED
    BY <2>1, <2>2, <2>3 DEF StacksOk
<1>9. ObjTypes'
  BY <1>2 DEF ObjIInv, ObjTypes
<1>10. OwnerInside'
  BY <1>1, <1>2, <1>5 DEF ObjIInv, OwnerInside, Inner
<1>11. BarrierKept'
  BY <1>1, <1>2, <1>5 DEF ObjIInv, BarrierKept
<1>12. CounterKept' /\ ClaimKept'
  BY <1>1, <1>2 DEF CounterKept, ClaimKept
<1>13. InitKept'
  BY <1>1, <1>2 DEF ObjIInv, InitKept
<1>14. MaskKept'
  BY <1>1, <1>2 DEF ObjIInv, MaskKept
<1> QED
  BY <1>8, <1>9, <1>10, <1>11, <1>12, <1>13, <1>14 DEF ObjIInv

LEMMA HandlerReturnsKeeps ==
    ASSUME ObjIInv, NEW t \in ObjThreads, HandlerReturns(t)
    PROVE  ObjIInv'
<1> DEFINE s == stack[t]
           r == SubSeq(s, 1, Len(s) - 1)
<1>1. UNCHANGED <<object, faulty, owner, tally, limit, var, loaded, inits, result, sigs>>
  BY DEF HandlerReturns
<1>2. Len(s) > 1 /\ Pc(t) = "end" /\ stack \in [ObjThreads -> Seq(Places)] /\ s \in Seq(Places) /\ object = "strerror"
  BY DEF HandlerReturns, ObjIInv, StacksOk
<1>3. r \in Seq(Places) /\ Len(r) = Len(s) - 1 /\ \A i \in 1..(Len(s) - 1) : r[i] = s[i]
  BY <1>2
<1>4. stack' = [stack EXCEPT ![t] = r]
  BY DEF HandlerReturns
<1>5. stack'[t] = r /\ \A u \in ObjThreads : u # t => stack'[u] = stack[u]
  BY <1>2, <1>4
<1>6. \A u \in ObjThreads : u # t => Pc(u)' = Pc(u)
  BY <1>5 DEF Pc
<1>7. Pc(t)' = s[Len(s) - 1] /\ s[Len(s) - 1] \in {"call", "end"}
  <2>1. Pc(t)' = r[Len(r)]
    BY <1>5 DEF Pc
  <2>2. Len(s) - 1 \in 1..(Len(s) - 1)
    BY <1>2
  <2>3. \A i \in 1..(Len(s) - 1) : s[i] \in {"call", "end"}
    BY <1>2, Zenon DEF ObjIInv, MaskKept
  <2> QED
    BY <1>3, <2>1, <2>2, <2>3
<1>8. StacksOk'
  <2>1. stack' \in [ObjThreads -> Seq(Places)]
    BY <1>2, <1>3, <1>4
  <2>2. \A u \in ObjThreads : ObjPlace(Pc(u))' /\ Len(stack'[u]) > 0
    BY <1>1, <1>2, <1>3, <1>5, <1>6, <1>7 DEF ObjIInv, StacksOk, ObjPlace, Places
  <2> QED
    BY <1>1, <1>2, <2>1, <2>2 DEF StacksOk
<1>9. ObjTypes'
  BY <1>1 DEF ObjIInv, ObjTypes
<1>10. OwnerInside'
  BY <1>1, <1>2, <1>6, <1>7 DEF ObjIInv, OwnerInside, Inner
<1>11. BarrierKept' /\ CounterKept' /\ ClaimKept'
  BY <1>1, <1>2 DEF BarrierKept, CounterKept, ClaimKept
<1>12. InitKept'
  BY <1>1, <1>2 DEF ObjIInv, InitKept
<1>13. MaskKept'
  <2>1. \A u \in ObjThreads :
            /\ \A i \in 1..(Len(stack[u]) - 1) : stack[u][i] \in {"call", "end"}
            /\ Pc(u) \in MaskedAt => sigs[u].masked /\ sigs[u].old = <<FALSE>>
            /\ Pc(u) \notin MaskedAt => ~sigs[u].masked /\ sigs[u].old = <<>>
            /\ loaded[u] \in {0, u}
            /\ Pc(u) = "copy" => tally = u
    BY <1>2, Zenon DEF ObjIInv, MaskKept
  <2>2. \A u \in ObjThreads : Pc(u)' \in MaskedAt <=> Pc(u) \in MaskedAt
    BY <1>2, <1>6, <1>7 DEF MaskedAt
  <2>3. \A u \in ObjThreads : \A i \in 1..(Len(stack'[u]) - 1) : stack'[u][i] \in {"call", "end"}
    <3> TAKE u \in ObjThreads
    <3>1. CASE u = t
      <4>1. \A i \in 1..(Len(s) - 1) : r[i] \in {"call", "end"}
        BY <1>2, <1>3, <2>1
      <4>2. Len(s) - 1 \in Nat /\ Len(r) = Len(s) - 1
        BY <1>2, <1>3
      <4> HIDE DEF s, r
      <4>3. \A i \in 1..(Len(r) - 1) : r[i] \in {"call", "end"}
        BY <4>1, <4>2
      <4> QED
        BY <1>5, <3>1, <4>3
    <3>2. CASE u # t
      BY <1>5, <2>1, <3>2
    <3> QED
      BY <3>1, <3>2
  <2>4. \A u \in ObjThreads : Pc(u)' = "copy" => Pc(u) = "copy"
    BY <1>6, <1>7
  <2>5. sigs' \in [ObjThreads -> SigsOf]
    BY <1>1 DEF ObjIInv, MaskKept
  <2> QED
    BY <1>1, <2>1, <2>2, <2>3, <2>4, <2>5, Zenon DEF MaskKept
<1> QED
  BY <1>8, <1>9, <1>10, <1>11, <1>12, <1>13 DEF ObjIInv

LEMMA SignalArrivesKeeps ==
    ASSUME ObjIInv, NEW t \in ObjThreads, SignalArrives(t)
    PROVE  ObjIInv'
<1> DEFINE s == stack[t]
           r == Append(s, "call")
<1>1. UNCHANGED <<object, faulty, owner, tally, limit, var, loaded, inits, result>>
  BY DEF SignalArrives
<1>2. Len(s) > 0 /\ stack \in [ObjThreads -> Seq(Places)] /\ s \in Seq(Places) /\ object = "strerror" /\ ObjPlace(Pc(t))
      /\ sigs \in [ObjThreads -> SigsOf]
  BY DEF SignalArrives, ObjIInv, StacksOk, MaskKept
<1>3. r \in Seq(Places) /\ Len(r) = Len(s) + 1 /\ r[Len(s) + 1] = "call" /\ \A i \in 1..Len(s) : r[i] = s[i]
  BY <1>2 DEF Places
<1>4. stack' = [stack EXCEPT ![t] = r]
  BY DEF SignalArrives
<1>5. stack'[t] = r /\ \A u \in ObjThreads : u # t => stack'[u] = stack[u]
  BY <1>2, <1>4
<1>6. \A u \in ObjThreads : u # t => Pc(u)' = Pc(u)
  BY <1>5 DEF Pc
<1>7. Pc(t)' = "call"
  BY <1>2, <1>3, <1>5 DEF Pc
<1>14. \A u \in ObjThreads :
            /\ \A i \in 1..(Len(stack[u]) - 1) : stack[u][i] \in {"call", "end"}
            /\ Pc(u) \in MaskedAt => sigs[u].masked /\ sigs[u].old = <<FALSE>>
            /\ Pc(u) \notin MaskedAt => ~sigs[u].masked /\ sigs[u].old = <<>>
            /\ loaded[u] \in {0, u}
            /\ Pc(u) = "copy" => tally = u
  BY <1>2, Zenon DEF ObjIInv, MaskKept
<1>15. Pc(t) \notin MaskedAt
  BY <1>14, Zenon DEF SignalArrives
<1>16. Pc(t) \in {"call", "end"}
  BY <1>2, <1>15 DEF ObjPlace, Places, MaskedAt
<1>8. StacksOk'
  <2>1. stack' \in [ObjThreads -> Seq(Places)]
    BY <1>2, <1>3, <1>4
  <2>2. \A u \in ObjThreads : ObjPlace(Pc(u))' /\ Len(stack'[u]) > 0
    BY <1>1, <1>2, <1>3, <1>5, <1>6, <1>7 DEF ObjIInv, StacksOk, ObjPlace, Places
  <2> QED
    BY <1>1, <1>2, <2>1, <2>2 DEF StacksOk
<1>9. ObjTypes'
  BY <1>1 DEF ObjIInv, ObjTypes
<1>10. OwnerInside'
  BY <1>1, <1>6, <1>7, <1>16 DEF ObjIInv, OwnerInside, Inner
<1>11. BarrierKept' /\ CounterKept' /\ ClaimKept'
  BY <1>1, <1>2 DEF BarrierKept, CounterKept, ClaimKept
<1>12. InitKept'
  BY <1>1, <1>2 DEF ObjIInv, InitKept
<1>13. MaskKept'
  <2>1. sigs' \in [ObjThreads -> SigsOf] /\ \A u \in ObjThreads : sigs'[u].masked = sigs[u].masked /\ sigs'[u].old = sigs[u].old
    <3> DEFINE g == [sigs[t] EXCEPT !.sent = TRUE]
    <3>1. g \in SigsOf /\ g.masked = sigs[t].masked /\ g.old = sigs[t].old
      BY <1>2 DEF SigsOf
    <3>2. sigs' = [sigs EXCEPT ![t] = g]
      BY DEF SignalArrives
    <3> HIDE DEF g
    <3> QED
      BY <1>2, <3>1, <3>2
  <2>2. \A u \in ObjThreads : Pc(u)' \in MaskedAt <=> Pc(u) \in MaskedAt
    BY <1>6, <1>7, <1>15 DEF MaskedAt
  <2>3. \A u \in ObjThreads : \A i \in 1..(Len(stack'[u]) - 1) : stack'[u][i] \in {"call", "end"}
    <3> TAKE u \in ObjThreads
    <3>1. CASE u = t
      <4>1. s[Len(s)] \in {"call", "end"}
        BY <1>16 DEF Pc
      <4>2. \A i \in 1..Len(s) : s[i] \in {"call", "end"}
        <5>1. \A i \in 1..(Len(s) - 1) : s[i] \in {"call", "end"}
          BY <1>14, Zenon
        <5>2. Len(s) \in Nat
          BY <1>2
        <5> HIDE DEF s
        <5> QED
          BY <4>1, <5>1, <5>2
      <4> QED
        <5>1. Len(s) \in Nat /\ Len(r) - 1 = Len(s) /\ \A i \in 1..Len(s) : r[i] = s[i]
          BY <1>2, <1>3
        <5> HIDE DEF s, r
        <5>2. \A i \in 1..(Len(r) - 1) : r[i] \in {"call", "end"}
          BY <4>2, <5>1
        <5> QED
          BY <1>5, <3>1, <5>2
    <3>2. CASE u # t
      BY <1>5, <1>14, <3>2
    <3> QED
      BY <3>1, <3>2
  <2>4. \A u \in ObjThreads : Pc(u)' = "copy" => Pc(u) = "copy"
    BY <1>6, <1>7
  <2> QED
    BY <1>1, <1>14, <2>1, <2>2, <2>3, <2>4, Zenon DEF MaskKept
<1> QED
  BY <1>8, <1>9, <1>10, <1>11, <1>12, <1>13 DEF ObjIInv

LEMMA ObjNextKeeps == ASSUME ObjIInv, ObjNext PROVE ObjIInv'
<1>1. CASE initbarrier
  <2>1. UNCHANGED <<object, faulty, stack, owner, tally, var, loaded, inits, result, sigs>> /\ object = "barrier"
        /\ limit = 0 /\ limit' = BarrierSize
    BY <1>1 DEF initbarrier
  <2>2. \A t \in ObjThreads : Pc(t)' = Pc(t)
    BY <2>1 DEF Pc
  <2>3. StacksOk' /\ OwnerInside'
    BY <2>1, <2>2 DEF ObjIInv, StacksOk, OwnerInside, ObjPlace
  <2>4. ObjTypes' /\ InitKept' /\ CounterKept' /\ ClaimKept' /\ MaskKept'
    BY <2>1, ObjectsAssumption DEF ObjIInv, ObjTypes, InitKept, CounterKept, ClaimKept, MaskKept
  <2>5. BarrierKept'
    BY <2>1, <2>2 DEF ObjIInv, BarrierKept
  <2> QED
    BY <2>3, <2>4, <2>5 DEF ObjIInv
<1>2. ASSUME NEW t \in ObjThreads, ObjStep(t) \/ SpuriousWakeup(t) PROVE ObjIInv'
  <2>1. CASE Broadcast(t)
    BY <2>1, BroadcastKeeps
  <2>2. CASE HandlerReturns(t)
    BY <2>2, HandlerReturnsKeeps
  <2>3. CASE ~Broadcast(t) /\ ~HandlerReturns(t)
    BY <1>2, <2>3, ObjStepTypes, ObjAdvances, BarrierStep, CounterStep, InitStep, ClaimStep, MaskStep DEF ObjIInv, Advances
  <2> QED
    BY <2>1, <2>2, <2>3
<1> QED
  BY <1>1, <1>2, SignalArrivesKeeps DEF ObjNext

LEMMA ObjInitIInv == ASSUME ObjInit PROVE ObjIInv
<1>1. stack = [t \in ObjThreads |-> <<"call">>] /\ sigs = [t \in ObjThreads |-> [masked |-> FALSE, old |-> <<>>, sent |-> FALSE]]
  BY DEF ObjInit
<1>2. \A t \in ObjThreads : Pc(t) = "call" /\ Len(stack[t]) = 1
  BY <1>1 DEF Pc
<1>3. <<"call">> \in Seq(Places) /\ <<>> \in Seq(BOOLEAN)
  BY DEF Places
<1>4. StacksOk
  BY <1>1, <1>2, <1>3 DEF StacksOk, ObjPlace, Places
<1>5. ObjTypes
  BY ObjectsAssumption DEF ObjInit, ObjTypes, Nobody, ObjectNames
<1>6. OwnerInside
  BY <1>2, ObjectsAssumption DEF ObjInit, OwnerInside, Inner, Nobody
<1>7. BarrierKept
  BY <1>2 DEF ObjInit, BarrierKept
<1>8. CounterKept
  <2>1. Counted = {} 
    BY <1>2 DEF Counted
  <2>2. Ups = {} /\ Downs = {}
    BY <2>1 DEF Ups, Downs
  <2>3. tally = 0 /\ Cardinality({}) = 0
    BY FS_EmptySet DEF ObjInit
  <2> QED
    BY <1>2, <2>2, <2>3 DEF CounterKept
<1>9. InitKept
  BY <1>2 DEF ObjInit, InitKept
<1>10. ClaimKept
  BY <1>2 DEF ObjInit, ClaimKept, Claimer
<1>11. MaskKept
  <2>1. [masked |-> FALSE, old |-> <<>>, sent |-> FALSE] \in SigsOf
    BY <1>3 DEF SigsOf
  <2>2. sigs \in [ObjThreads -> SigsOf]
    BY <1>1, <2>1
  <2>3. \A t \in ObjThreads : ~sigs[t].masked /\ sigs[t].old = <<>> /\ Pc(t) \notin MaskedAt /\ Pc(t) # "copy"
    BY <1>1, <1>2 DEF MaskedAt
  <2> QED
    <3>1. \A t \in ObjThreads : 1..(Len(stack[t]) - 1) = {} /\ loaded[t] \in {0, t}
      BY <1>2 DEF ObjInit
    <3>2. \A t \in ObjThreads : \A i \in 1..(Len(stack[t]) - 1) : stack[t][i] \in {"call", "end"}
      BY <3>1
    <3> HIDE DEF MaskedAt
    <3> QED
      BY <2>2, <2>3, <3>1, <3>2, Zenon DEF MaskKept
<1> QED
  BY <1>4, <1>5, <1>6, <1>7, <1>8, <1>9, <1>10, <1>11 DEF ObjIInv

LEMMA ObjKeptPromises == ASSUME ObjIInv PROVE ObjectsKeepPromises
<1>1. object = "counter" /\ ~faulty /\ (\A t \in ObjThreads : Pc(t) = "end") =>
          tally = 2 * Cardinality({t \in ObjThreads : t % 2 = 0}) - Cardinality(ObjThreads)
  <2> SUFFICES ASSUME object = "counter", ~faulty, \A t \in ObjThreads : Pc(t) = "end"
               PROVE  tally = 2 * Cardinality({t \in ObjThreads : t % 2 = 0}) - Cardinality(ObjThreads)
    OBVIOUS
  <2> DEFINE E == {t \in ObjThreads : t % 2 = 0}
  <2>1. Counted = ObjThreads
    BY DEF Counted
  <2>2. Ups = E /\ Downs = ObjThreads \ E
    BY <2>1 DEF Ups, Downs
  <2>3. tally = Cardinality(Ups) - Cardinality(Downs)
    BY DEF ObjIInv, CounterKept
  <2>4. IsFiniteSet(E) /\ IsFiniteSet(ObjThreads) /\ ObjThreads \cap E = E
    BY ObjectsAssumption, FS_Subset
  <2>5. Cardinality(ObjThreads \ E) = Cardinality(ObjThreads) - Cardinality(E)
    BY <2>4, FS_Difference
  <2>6. Cardinality(E) \in Nat /\ Cardinality(ObjThreads) \in Nat
    BY <2>4, FS_CardinalityType
  <2> HIDE DEF E
  <2>7. tally = 2 * Cardinality(E) - Cardinality(ObjThreads)
    BY <2>2, <2>3, <2>5, <2>6
  <2> QED
    BY <2>7 DEF E
<1>2. object = "barrier" /\ (\E t \in ObjThreads : result[t] = "ok") => tally >= BarrierSize
  BY DEF ObjIInv, BarrierKept
<1>3. inits <= 1
  BY DEF ObjIInv, InitKept, ClaimKept, ObjTypes, ObjectNames
<1>4. object \in {"printinit", "once"} => \A t \in ObjThreads : result[t] = "ok" => var = 1
  BY DEF ObjIInv, InitKept
<1>5. object = "strerror" => \A t \in ObjThreads :
          /\ Pc(t) = "lock" => owner # t
          /\ Pc(t) = "end" /\ Len(stack[t]) = 1 => ~sigs[t].masked /\ sigs[t].old = <<>> /\ loaded[t] \in {0, t}
  <2>1. \A t \in ObjThreads : Pc(t) = "lock" => owner # t
    BY DEF ObjIInv, OwnerInside, Inner
  <2>2. "end" \notin MaskedAt
    BY DEF MaskedAt
  <2> QED
    BY <2>1, <2>2, Zenon DEF ObjIInv, MaskKept
<1> QED
  BY <1>1, <1>2, <1>3, <1>4, <1>5, Zenon DEF ObjectsKeepPromises

LEMMA ObjInvariant == ObjSpec => []ObjIInv
<1>1. ObjIInv /\ [ObjNext]_objvars => ObjIInv'
  <2>1. ASSUME ObjIInv, UNCHANGED objvars PROVE ObjIInv'
    <3>1. \A t \in ObjThreads : Pc(t)' = Pc(t)
      BY <2>1 DEF objvars, Pc
    <3>2. StacksOk' /\ ObjTypes' /\ OwnerInside' /\ BarrierKept' /\ InitKept'
      BY <2>1, <3>1 DEF objvars, ObjIInv, StacksOk, ObjPlace, ObjTypes, OwnerInside, BarrierKept, InitKept
    <3>3. Ups' = Ups /\ Downs' = Downs
      BY <3>1 DEF Ups, Downs, Counted
    <3>4. CounterKept' /\ ClaimKept'
      BY <2>1, <3>1, <3>3 DEF objvars, ObjIInv, CounterKept, ClaimKept, Claimer
    <3>5. MaskKept'
      BY <2>1, <3>1 DEF objvars, ObjIInv, MaskKept
    <3> QED
      BY <3>2, <3>4, <3>5 DEF ObjIInv
  <2> QED
    BY <2>1, ObjNextKeeps
<1> QED
  BY <1>1, ObjInitIInv, PTL DEF ObjSpec

\* The barrier opens for nobody before BarrierSize threads have arrived, whatever
\* waits fail and whoever is woken for nothing; the counter loses no update; the
\* variable is initialized once; strerror_r is never called again, by a handler, below
\* the mutex it holds; and the sum that computethread shows is complete: for any
\* threads, calls that fail, and signals that arrive in any call.
THEOREM ObjObjectsAgree == ObjSpec /\ SumSpec => []ObjectsAgree
<1>1. SumIInv => ShownIsComplete
  <2> SUFFICES ASSUME SumIInv, cmain = "shown"
               PROVE  /\ "errorlock" \notin failing => \A t \in ComputeSet : leaving[t] = "done"
                      /\ (\E t \in ComputeSet : leaving[t] = "done") => doneflag
                      /\ sum = count
    BY DEF ShownIsComplete
  <2>1. \A t \in ComputeSet : cthr[t] = "gone"
    BY DEF SumIInv, AllJoined
  <2>2. "errorlock" \notin failing => \A t \in ComputeSet : leaving[t] = "done"
    BY <2>1 DEF SumIInv, SumTypes, AllJoined, ErrorsKept
  <2>3. (\E t \in ComputeSet : leaving[t] = "done") => doneflag
    BY <2>1 DEF SumIInv, ErrorsKept
  <2>4. sum = count
    BY <2>1 DEF SumIInv, SumTypes, SumAhead
  <2> QED
    BY <2>2, <2>3, <2>4
<1>2. ObjIInv /\ SumIInv => ObjectsAgree
  BY <1>1, ObjKeptPromises DEF ObjectsAgree
<1> QED
  BY <1>2, ObjInvariant, SumInvariant, PTL
-----------------------------------------------------------------------------
(* The threads and descriptors of DescriptorThreads.                       *)

Unmade == {"create", "source", "dest"}
ThreadPlaces == {"none", "start", "copy", "closein", "closeout", "read", "command", "done", "failed"}

DtTypes ==
    /\ prog \in ThreadPrograms /\ broken \in [Index -> Failures]
    /\ mpc \in {"open", "dest", "create", "join0", "join", "end", "exit", "crash"}
    /\ counter \in 0..NumIndexes
    /\ table \in [1..(2 * NumIndexes) -> 0..NumIndexes]
    /\ args \in [Index -> [in : 0..(2 * NumIndexes), out : 0..(2 * NumIndexes)]]
    /\ thr \in [Index -> ThreadPlaces]
    /\ blocks \in [Index -> Nat]
    /\ got \in [Index -> 0..NumIndexes]

\* Where main is: the threads of the earlier indexes are created or cannot be.
MainPlaced ==
    /\ mpc \in {"open", "dest"} => prog.opens
    /\ mpc \in {"open", "dest", "create"} => counter < NumIndexes
    /\ mpc = "dest" => broken[counter] # "source"
    /\ mpc = "create" => broken[counter] \notin {"source", "dest"}
    /\ \A k \in Index :
        /\ thr[k] # "none" => broken[k] \notin Unmade
        /\ mpc \in {"open", "dest", "create"} /\ k >= counter => thr[k] = "none"
        /\ thr[k] = "none" /\ broken[k] \notin Unmade =>
               mpc = "exit" \/ (mpc \in {"open", "dest", "create"} /\ k >= counter)
        /\ prog.shared /\ thr[k] # "none" => k < counter

ThreadsPlaced ==
    \A k \in Index :
        /\ thr[k] \in {"copy", "closein", "closeout"} => prog.opens
        /\ thr[k] \in {"read", "command"} => ~prog.opens
        /\ prog.opens /\ thr[k] \in {"copy", "closein", "closeout", "done"} => broken[k] # "malloc"
        /\ thr[k] = "failed" => broken[k] = "malloc"
        /\ prog.opens => blocks[k] <= Blocks
        /\ prog.opens /\ thr[k] \in {"closein", "closeout", "done"} /\ broken[k] # "copy" => blocks[k] = Blocks
        /\ got[k] # Free => got[k] \in k..NumIndexes /\ (~prog.shared => got[k] = k)

\* The files that are open for an index: those of a thread that has not closed them,
\* and of main until it has created the thread.
HasIn(k) == thr[k] \in {"start", "copy", "closein"} \/ (k = counter /\ mpc \in {"dest", "create"})
HasOut(k) == thr[k] \in {"start", "copy", "closein", "closeout"} \/ (k = counter /\ mpc = "create")
FilesOwned ==
    prog.opens => \A k \in Index :
        /\ HasIn(k) => Mine(args[k].in, k)
        /\ HasOut(k) => Mine(args[k].out, k) /\ args[k].in # args[k].out
        /\ \A d \in 1..(2 * NumIndexes) : table[d] = k =>
               \/ d = args[k].in /\ thr[k] \notin {"closeout", "done"}
               \/ d = args[k].out /\ thr[k] # "done"
        /\ (mpc = "open" /\ k >= counter) \/ (mpc \in {"dest", "create"} /\ k > counter) =>
               args[k].in = Closed /\ args[k].out = Closed
        /\ mpc = "dest" /\ k = counter => args[k].out = Closed
MonitorsOwn == ~prog.opens => \A k \in Index : args[k].in = k + 1 /\ table[k + 1] = k

TotalDue ==
    mpc = "end" /\ prog.opens =>
        /\ Blocks * Cardinality({k \in Index : broken[k] = "none"}) <= total
        /\ total <= Blocks * Cardinality({k \in Index : broken[k] \in {"none", "copy"}})
EndDue == mpc = "end" => \A k \in Index : thr[k] \in {"none", "done", "failed"}
CrashDue == mpc = "crash" => "malloc" \in {broken[k] : k \in Index} \/ prog = monitorfdcancel

DtIInv == DtTypes /\ MainPlaced /\ ThreadsPlaced /\ FilesOwned /\ MonitorsOwn /\ TotalDue /\ EndDue /\ CrashDue /\ ~wrong

LEMMA ProgramFacts ==
    ASSUME prog \in ThreadPrograms
    PROVE  /\ prog.opens <=> prog.entry \in {"copyfilepass", "copyfilemalloc"}
           /\ prog.shared <=> prog.entry = "printarg"
           /\ ~prog.many => prog.opens
           /\ ~prog.skips => prog = monitorfdcancel
           /\ NumIndexes \in Nat \ {0} /\ (~prog.many => NumIndexes = 1)
<1>1. prog \in {badparameters, copymultiple, callcopypass, callcopymalloc, monitorfd, monitorfdcancel}
  BY ProgramsAssumption
<1>2. NumIndexes \in Nat \ {0} /\ (~prog.many => NumIndexes = 1)
  BY NumThreadsAssumption DEF NumIndexes
<1>3. /\ prog.opens <=> prog.entry \in {"copyfilepass", "copyfilemalloc"}
      /\ prog.shared <=> prog.entry = "printarg"
      /\ ~prog.many => prog.opens
      /\ ~prog.skips => prog = monitorfdcancel
  BY <1>1 DEF badparameters, copymultiple, callcopypass, callcopymalloc, monitorfd, monitorfdcancel
<1> QED
  BY <1>2, <1>3

LEMMA SameIndexes ==
    ASSUME prog' = prog
    PROVE  NumIndexes' = NumIndexes /\ Index' = Index /\ Free' = Free /\ Failures' = Failures
BY DEF NumIndexes, Index, Free, Failures

\* A sum over the indexes below N, in order, is defined.
LEMMA SumExists ==
    ASSUME NEW N \in Nat, NEW w
    PROVE  \E h : h = [k \in 0..N |-> IF k = 0 THEN 0 ELSE h[k - 1] + w[k - 1]]
<1> DEFINE P(n) == \E h : h = [k \in 0..n |-> IF k = 0 THEN 0 ELSE h[k - 1] + w[k - 1]]
           Bad == {n \in Nat : ~P(n)}
<1>1. P(0)
  <2> DEFINE h == [k \in 0..0 |-> 0]
  <2>1. \A k \in 0..0 : k = 0
    OBVIOUS
  <2>2. h = [k \in 0..0 |-> IF k = 0 THEN 0 ELSE h[k - 1] + w[k - 1]]
    BY <2>1
  <2> QED
    BY <2>2
<1>2. ASSUME NEW m \in Nat \ {0}, P(m - 1) PROVE P(m)
  <2>1. PICK g : g = [k \in 0..(m - 1) |-> IF k = 0 THEN 0 ELSE g[k - 1] + w[k - 1]]
    BY <1>2
  <2> DEFINE h == [k \in 0..m |-> IF k = m THEN g[m - 1] + w[m - 1] ELSE g[k]]
  <2>2. \A k \in 0..m : h[k] = IF k = 0 THEN 0 ELSE h[k - 1] + w[k - 1]
    <3> TAKE k \in 0..m
    <3>1. CASE k = m
      BY <3>1
    <3>2. CASE k # m
      <4>1. k \in 0..(m - 1) /\ (k # 0 => k - 1 \in 0..m /\ k - 1 # m)
        BY <3>2
      <4>2. g[k] = IF k = 0 THEN 0 ELSE g[k - 1] + w[k - 1]
        BY <2>1, <4>1
      <4> QED
        BY <3>2, <4>1, <4>2
    <3> QED
      BY <3>1, <3>2
  <2>3. h = [k \in 0..m |-> IF k = 0 THEN 0 ELSE h[k - 1] + w[k - 1]]
    BY <2>2
  <2> QED
    BY <2>3
<1> HIDE DEF P
<1>3. Bad = {}
  <2> SUFFICES ASSUME Bad # {} PROVE FALSE
    OBVIOUS
  <2>1. Bad \subseteq Nat
    OBVIOUS
  <2>2. PICK m \in Bad : \A u \in Bad : m <= u
    BY <2>1, LowestSlot
  <2>3. m \in Nat /\ ~P(m) /\ m # 0
    BY <1>1, <2>2
  <2>4. P(m - 1)
    BY <2>2, <2>3
  <2> QED
    BY <1>2, <2>3, <2>4
<1>4. P(N)
  BY <1>3
<1> QED
  BY <1>4 DEF P

LEMMA JoinedBytesIs ==
    ASSUME NumIndexes \in Nat
    PROVE  JoinedBytes = [k \in 0..NumIndexes |->
               IF k = 0 THEN 0 ELSE JoinedBytes[k - 1] + (IF thr[k - 1] = "done" THEN blocks[k - 1] ELSE 0)]
<1> DEFINE w == [j \in 0..NumIndexes |-> IF thr[j] = "done" THEN blocks[j] ELSE 0]
<1>1. PICK h : h = [k \in 0..NumIndexes |-> IF k = 0 THEN 0 ELSE h[k - 1] + w[k - 1]]
  BY SumExists
<1>2. \A k \in 0..NumIndexes : k # 0 => w[k - 1] = IF thr[k - 1] = "done" THEN blocks[k - 1] ELSE 0
  OBVIOUS
<1> HIDE DEF w
<1>3. h = [k \in 0..NumIndexes |->
               IF k = 0 THEN 0 ELSE h[k - 1] + (IF thr[k - 1] = "done" THEN blocks[k - 1] ELSE 0)]
  <2>1. \A k \in 0..NumIndexes :
            h[k] = IF k = 0 THEN 0 ELSE h[k - 1] + (IF thr[k - 1] = "done" THEN blocks[k - 1] ELSE 0)
    BY <1>1, <1>2
  <2> QED
    BY <1>1, <2>1
<1> QED
  BY <1>3, Zenon DEF JoinedBytes

\* What main reports is at least that of the complete copies, and no thread has more.
LEMMA JoinedTotal ==
    ASSUME NumIndexes \in Nat, NEW Whole \in SUBSET Index,
           \A k \in Index : thr[k] = "done" => blocks[k] \in 0..Blocks,
           \A k \in Whole : thr[k] = "done" /\ blocks[k] = Blocks
    PROVE  /\ Blocks * Cardinality(Whole) <= JoinedBytes[NumIndexes]
           /\ JoinedBytes[NumIndexes] <= Blocks * Cardinality({k \in Index : thr[k] = "done"})
<1> DEFINE N == NumIndexes
           W(m) == {k \in 0..(m - 1) : k \in Whole}
           D(m) == {k \in 0..(m - 1) : thr[k] = "done"}
           Good(m) == /\ JoinedBytes[m] \in Nat
                      /\ Blocks * Cardinality(W(m)) <= JoinedBytes[m]
                      /\ JoinedBytes[m] <= Blocks * Cardinality(D(m))
           Bad == {m \in 0..N : ~Good(m)}
<1>1. \A m \in 0..N : /\ IsFiniteSet(D(m)) /\ Cardinality(D(m)) \in Nat
                      /\ IsFiniteSet(W(m)) /\ Cardinality(W(m)) \in Nat
  <2> TAKE m \in 0..N
  <2>1. IsFiniteSet(0..(m - 1))
    BY FS_Interval
  <2> QED
    BY <2>1, FS_Subset, FS_CardinalityType
<1>2. Bad = {}
  <2> SUFFICES ASSUME Bad # {} PROVE FALSE
    OBVIOUS
  <2>1. Bad \subseteq Nat
    OBVIOUS
  <2>2. PICK m \in Bad : \A u \in Bad : m <= u
    BY <2>1, LowestSlot
  <2>3. m \in 0..N /\ ~Good(m)
    BY <2>2
  <2>4. CASE m = 0
    <3>1. D(0) = {} /\ W(0) = {}
      OBVIOUS
    <3>2. JoinedBytes[0] = 0
      BY JoinedBytesIs
    <3>3. Cardinality(D(0)) = 0 /\ Cardinality(W(0)) = 0
      BY <3>1, FS_EmptySet
    <3>4. Blocks * 0 = 0
      BY NumThreadsAssumption
    <3>5. Good(0)
      <4> HIDE DEF D, W
      <4> QED
        BY <3>2, <3>3, <3>4
    <3> QED
      BY <2>3, <2>4, <3>5
  <2>5. CASE m # 0
    <3>1. m - 1 \in 0..N /\ m - 1 \in Index /\ m \in Nat
      BY <2>3, <2>5 DEF Index
    <3>2. Good(m - 1)
      BY <2>2, <3>1
    <3>3. JoinedBytes[m] = JoinedBytes[m - 1] + (IF thr[m - 1] = "done" THEN blocks[m - 1] ELSE 0)
      BY <2>3, <2>5, JoinedBytesIs
    <3>4. PICK w \in Nat, d \in Nat, x \in Nat :
              w = Cardinality(W(m - 1)) /\ d = Cardinality(D(m - 1)) /\ x = JoinedBytes[m - 1]
      BY <1>1, <3>1, <3>2
    <3>5. Blocks * w <= x /\ x <= Blocks * d
      <4> HIDE DEF D, W
      <4> QED
        BY <3>2, <3>4
    <3>6. PICK bw \in Nat, bd \in Nat : bw = Blocks * w /\ bd = Blocks * d
      BY NumThreadsAssumption
    <3>7. Blocks * (w + 1) = bw + Blocks /\ Blocks * (d + 1) = bd + Blocks
      BY <3>6, NumThreadsAssumption
    <3>8. bw <= x /\ x <= bd
      BY <3>5, <3>6
    <3>9. CASE thr[m - 1] = "done" /\ m - 1 \in Whole
      <4>1. D(m) = D(m - 1) \cup {m - 1} /\ m - 1 \notin D(m - 1)
        BY <3>1, <3>9
      <4>2. W(m) = W(m - 1) \cup {m - 1} /\ m - 1 \notin W(m - 1)
        BY <3>1, <3>9
      <4>3. Cardinality(D(m)) = d + 1 /\ Cardinality(W(m)) = w + 1
        BY <1>1, <3>1, <3>4, <4>1, <4>2, FS_AddElement
      <4>4. JoinedBytes[m] = x + Blocks
        BY <3>3, <3>4, <3>9
      <4>5. x + Blocks \in Nat /\ bw + Blocks <= x + Blocks /\ x + Blocks <= bd + Blocks
        BY <3>8, NumThreadsAssumption
      <4>6. Good(m)
        <5> HIDE DEF D, W
        <5> QED
          BY <3>7, <4>3, <4>4, <4>5
      <4> QED
        BY <2>3, <4>6
    <3>10. CASE thr[m - 1] = "done" /\ m - 1 \notin Whole
      <4>1. D(m) = D(m - 1) \cup {m - 1} /\ m - 1 \notin D(m - 1)
        BY <3>1, <3>10
      <4>2. W(m) = W(m - 1)
        BY <3>1, <3>10
      <4>3. Cardinality(D(m)) = d + 1 /\ Cardinality(W(m)) = w
        BY <1>1, <3>1, <3>4, <4>1, <4>2, FS_AddElement
      <4>4. PICK y \in 0..Blocks : y = blocks[m - 1]
        BY <3>1, <3>10
      <4>5. JoinedBytes[m] = x + y
        BY <3>3, <3>4, <3>10, <4>4
      <4>6. x + y \in Nat /\ bw <= x + y /\ x + y <= bd + Blocks
        BY <3>8, <4>4, NumThreadsAssumption
      <4>7. Good(m)
        <5> HIDE DEF D, W
        <5> QED
          BY <3>6, <3>7, <4>3, <4>5, <4>6
      <4> QED
        BY <2>3, <4>7
    <3>11. CASE thr[m - 1] # "done"
      <4>1. D(m) = D(m - 1) /\ W(m) = W(m - 1)
        BY <3>1, <3>11
      <4>2. JoinedBytes[m] = x
        BY <3>3, <3>4, <3>11
      <4>3. Good(m)
        <5> HIDE DEF D, W
        <5> QED
          BY <3>4, <3>5, <4>1, <4>2
      <4> QED
        BY <2>3, <4>3
    <3> QED
      BY <3>9, <3>10, <3>11
  <2> QED
    BY <2>4, <2>5
<1>3. Good(N)
  BY <1>2
<1>4. D(N) = {k \in Index : thr[k] = "done"} /\ W(N) = Whole
  BY DEF Index
<1> QED
  BY <1>3, <1>4

\* A thread goes on, to another place or not: what main and the end know of it stays true.
DtGoes(t, to) ==
    /\ thr[t] \notin {"none", "done", "failed"} /\ to \in ThreadPlaces \ {"none"}
    /\ thr' = [thr EXCEPT ![t] = to]
    /\ UNCHANGED <<prog, broken, mpc, counter, args, cancel, total>>

LEMMA DtGoing ==
    ASSUME DtIInv, NEW t \in Index, NEW to, DtGoes(t, to)
    PROVE  /\ MainPlaced' /\ TotalDue' /\ EndDue' /\ CrashDue'
           /\ thr' \in [Index -> ThreadPlaces] /\ thr'[t] = to /\ \A k \in Index : k # t => thr'[k] = thr[k]
           /\ NumIndexes' = NumIndexes /\ Index' = Index /\ Free' = Free /\ Failures' = Failures
<1>1. NumIndexes' = NumIndexes /\ Index' = Index /\ Free' = Free /\ Failures' = Failures
  BY SameIndexes DEF DtGoes
<1>2. thr' \in [Index -> ThreadPlaces] /\ thr'[t] = to /\ \A k \in Index : k # t => thr'[k] = thr[k]
  BY DEF DtGoes, DtIInv, DtTypes
<1>3. \A k \in Index : thr'[k] = "none" <=> thr[k] = "none"
  BY <1>2 DEF DtGoes
<1>4. UNCHANGED <<prog, broken, mpc, counter, args, total>>
  BY DEF DtGoes
<1>5. MainPlaced'
  BY <1>1, <1>3, <1>4 DEF DtIInv, MainPlaced
<1>6. mpc # "end"
  BY DEF DtGoes, DtIInv, EndDue
<1>7. TotalDue' /\ EndDue'
  BY <1>4, <1>6 DEF TotalDue, EndDue
<1>8. CrashDue'
  BY <1>1, <1>4 DEF DtIInv, CrashDue
<1> QED
  BY <1>1, <1>2, <1>5, <1>7, <1>8

\* ... and the files stay as they are.
LEMMA DtFilesStay ==
    ASSUME DtIInv, NEW t \in Index, NEW to, DtGoes(t, to), table' = table,
           prog.opens => \/ thr[t] = "start" /\ to \in {"copy", "failed"}
                         \/ thr[t] = "copy" /\ to \in {"copy", "closein"}
    PROVE  FilesOwned' /\ MonitorsOwn'
<1>1. /\ thr'[t] = to /\ (\A k \in Index : k # t => thr'[k] = thr[k])
      /\ NumIndexes' = NumIndexes /\ Index' = Index /\ Free' = Free
  BY DtGoing
<1>2. UNCHANGED <<prog, mpc, counter, args, table>>
  BY DEF DtGoes
<1>3. MonitorsOwn'
  BY <1>1, <1>2 DEF DtIInv, MonitorsOwn
<1>4. ASSUME prog.opens PROVE FilesOwned'
  <2>1. \A k \in Index : /\ HasIn(k)' => HasIn(k)
                         /\ HasOut(k)' => HasOut(k)
                         /\ thr'[k] \in {"closeout", "done"} => thr'[k] = thr[k]
    BY <1>1, <1>2, <1>4 DEF HasIn, HasOut
  <2>2. \A k \in Index : /\ Mine(args[k].in, k)' <=> Mine(args[k].in, k)
                         /\ Mine(args[k].out, k)' <=> Mine(args[k].out, k)
    BY <1>2 DEF Mine
  <2> HIDE DEF HasIn, HasOut, Mine
  <2>3. FilesOwned
    BY DEF DtIInv
  <2> QED
    BY <1>1, <1>2, <1>4, <2>1, <2>2, <2>3 DEF FilesOwned
<1>5. ASSUME ~prog.opens PROVE FilesOwned'
  BY <1>2, <1>5 DEF FilesOwned
<1> QED
  BY <1>3, <1>4, <1>5

LEMMA DtStartKeeps ==
    ASSUME DtIInv, NEW t \in Index, printarg(t) \/ copyfilepass(t) \/ copyfilemalloc(t) \/ processfd(t)
    PROVE  DtIInv'
<1> DEFINE to == IF prog.entry = "printarg" THEN "done" ELSE IF prog.entry = "copyfilepass" THEN "copy"
                 ELSE IF prog.entry = "copyfilemalloc" THEN IF broken[t] = "malloc" THEN "failed" ELSE "copy"
                 ELSE "read"
<1>1. DtTypes /\ MainPlaced /\ ThreadsPlaced
  BY DEF DtIInv
<1>2. /\ prog.opens <=> prog.entry \in {"copyfilepass", "copyfilemalloc"}
      /\ prog.shared <=> prog.entry = "printarg"
      /\ NumIndexes \in Nat \ {0}
  BY <1>1, ProgramFacts DEF DtTypes
<1>3. /\ thr[t] = "start" /\ thr' = [thr EXCEPT ![t] = to]
      /\ UNCHANGED <<prog, broken, mpc, counter, table, args, blocks, cancel, total, wrong>>
      /\ got' = [got EXCEPT ![t] = IF prog.entry = "printarg" THEN counter ELSE t]
  BY DEF printarg, copyfilepass, copyfilemalloc, processfd, ThreadMoves
<1>4. prog.entry \notin {"printarg", "copyfilepass", "copyfilemalloc"} => prog.entry \in {"processfd", "processfdcancel"}
  BY DEF printarg, copyfilepass, copyfilemalloc, processfd
<1>5. DtGoes(t, to)
  BY <1>3 DEF DtGoes, ThreadPlaces
<1>6. prog.opens => thr[t] = "start" /\ to \in {"copy", "failed"}
  BY <1>2, <1>3
<1>7. FilesOwned' /\ MonitorsOwn'
  BY <1>3, <1>5, <1>6, DtFilesStay
<1>8. prog.entry = "printarg" => counter \in (t + 1)..NumIndexes
  BY <1>1, <1>2, <1>3 DEF MainPlaced, DtTypes, Index
<1>9. got' \in [Index -> 0..NumIndexes]
  BY <1>1, <1>2, <1>3 DEF DtTypes, Index
<1>10. \A k \in Index : got'[k] = IF k # t THEN got[k] ELSE IF prog.entry = "printarg" THEN counter ELSE t
  BY <1>1, <1>3 DEF DtTypes
<1>11. \A k \in Index : got'[k] # Free => got'[k] \in k..NumIndexes /\ (~prog.shared => got'[k] = k)
  BY <1>1, <1>2, <1>8, <1>10 DEF ThreadsPlaced, Index
<1>12. DtTypes'
  BY <1>1, <1>3, <1>5, <1>9, DtGoing DEF DtTypes
<1>13. /\ thr'[t] = to /\ (\A k \in Index : k # t => thr'[k] = thr[k])
       /\ NumIndexes' = NumIndexes /\ Index' = Index /\ Free' = Free
  BY <1>5, DtGoing
<1>14. ThreadsPlaced'
  <2>1. to \in {"done", "copy", "failed", "read"} /\ (to = "copy" => prog.opens /\ broken[t] # "malloc")
        /\ (to = "read" => ~prog.opens) /\ (to = "done" => ~prog.opens) /\ (to = "failed" => broken[t] = "malloc")
    <3>1. prog.entry = "copyfilepass" => broken[t] # "malloc"
      BY <1>1, <1>2 DEF DtTypes, Failures
    <3> QED
      BY <1>2, <1>4, <3>1
  <2> HIDE DEF to
  <2> QED
    BY <1>1, <1>3, <1>11, <1>13, <2>1 DEF ThreadsPlaced
<1>15. ~wrong'
  BY <1>3 DEF DtIInv
<1> QED
  BY <1>5, <1>7, <1>12, <1>14, <1>15, DtGoing DEF DtIInv

LEMMA CopyfileKeeps ==
    ASSUME DtIInv, NEW t \in Index, copyfile(t)
    PROVE  DtIInv'
<1>1. DtTypes /\ MainPlaced /\ ThreadsPlaced /\ FilesOwned
  BY DEF DtIInv
<1>2. prog.opens /\ thr[t] = "copy" /\ broken[t] # "malloc"
  BY <1>1 DEF copyfile, ThreadsPlaced
<1>3. PICK to \in {"copy", "closein"}, b \in Nat :
         /\ thr' = [thr EXCEPT ![t] = to]
         /\ UNCHANGED <<prog, broken, mpc, counter, table, args, got, cancel, total>>
         /\ blocks' = [blocks EXCEPT ![t] = b] /\ b <= Blocks
         /\ to = "copy" \/ b = Blocks \/ broken[t] = "copy"
  <2>1. blocks[t] \in Nat /\ blocks[t] <= Blocks /\ blocks \in [Index -> Nat] /\ thr \in [Index -> ThreadPlaces]
    BY <1>1, <1>2 DEF ThreadsPlaced, DtTypes
  <2>2. CASE blocks[t] < Blocks /\ blocks' = [blocks EXCEPT ![t] = @ + 1] /\ UNCHANGED thr
    <3>1. thr' = [thr EXCEPT ![t] = "copy"] /\ blocks[t] + 1 \in Nat /\ blocks[t] + 1 <= Blocks
      BY <1>2, <2>1, <2>2, NumThreadsAssumption
    <3>2. blocks' = [blocks EXCEPT ![t] = blocks[t] + 1]
      BY <2>2
    <3> QED
      BY <3>1, <3>2 DEF copyfile
  <2>3. CASE (blocks[t] = Blocks \/ broken[t] = "copy") /\ ThreadMoves(t, "copy", "closein") /\ UNCHANGED blocks
    <3>1. thr' = [thr EXCEPT ![t] = "closein"] /\ blocks' = [blocks EXCEPT ![t] = blocks[t]]
      BY <2>1, <2>3 DEF ThreadMoves
    <3> QED
      BY <2>1, <2>3, <3>1 DEF copyfile
  <2> QED
    BY <2>2, <2>3 DEF copyfile
<1>4. DtGoes(t, to)
  BY <1>2, <1>3 DEF DtGoes, ThreadPlaces
<1>5. FilesOwned' /\ MonitorsOwn'
  BY <1>2, <1>3, <1>4, DtFilesStay
<1>6. /\ thr'[t] = to /\ (\A k \in Index : k # t => thr'[k] = thr[k])
      /\ NumIndexes' = NumIndexes /\ Index' = Index /\ Free' = Free
  BY <1>4, DtGoing
<1>7. /\ blocks' \in [Index -> Nat]
      /\ blocks'[t] = b /\ \A k \in Index : k # t => blocks'[k] = blocks[k]
  BY <1>1, <1>3 DEF DtTypes
<1>8. DtTypes'
  BY <1>1, <1>3, <1>4, <1>7, DtGoing DEF DtTypes
<1>9. blocks[t] <= Blocks /\ blocks[t] \in Nat
  BY <1>1, <1>2 DEF ThreadsPlaced, DtTypes
<1>10. ThreadsPlaced'
  BY <1>1, <1>2, <1>3, <1>6, <1>7, <1>9, NumThreadsAssumption DEF ThreadsPlaced
<1>11. Mine(args[t].in, t) /\ Mine(args[t].out, t)
  BY <1>1, <1>2 DEF FilesOwned, HasIn, HasOut
<1>12. ~wrong'
  BY <1>11 DEF copyfile, DtIInv
<1> QED
  BY <1>4, <1>5, <1>8, <1>10, <1>12, DtGoing DEF DtIInv

LEMMA CloseKeeps ==
    ASSUME DtIInv, NEW t \in Index, CloseFiles(t)
    PROVE  DtIInv'
<1> DEFINE d == IF thr[t] = "closein" THEN args[t].in ELSE args[t].out
           to == IF thr[t] = "closein" THEN "closeout" ELSE "done"
<1>1. DtTypes /\ MainPlaced /\ ThreadsPlaced /\ FilesOwned
  BY DEF DtIInv
<1>2. /\ thr[t] \in {"closein", "closeout"} /\ thr' = [thr EXCEPT ![t] = to]
      /\ UNCHANGED <<prog, broken, mpc, counter, args, blocks, got, cancel, total>>
      /\ table' = [table EXCEPT ![d] = Free] /\ wrong' = (wrong \/ ~Mine(d, t))
  BY DEF CloseFiles, Close, ThreadMoves
<1>3. prog.opens /\ broken[t] # "malloc"
  BY <1>1, <1>2 DEF ThreadsPlaced
<1>4. DtGoes(t, to)
  BY <1>2 DEF DtGoes, ThreadPlaces
<1>5. /\ thr'[t] = to /\ (\A k \in Index : k # t => thr'[k] = thr[k])
      /\ NumIndexes' = NumIndexes /\ Index' = Index /\ Free' = Free
  BY <1>4, DtGoing
<1>6. /\ HasOut(t) /\ Mine(args[t].out, t) /\ args[t].in # args[t].out
      /\ thr[t] = "closein" => Mine(args[t].in, t)
  BY <1>1, <1>2, <1>3 DEF FilesOwned, HasIn, HasOut
<1>7. Mine(d, t) /\ ~wrong'
  BY <1>2, <1>6 DEF DtIInv
<1>8. NumIndexes \in Nat \ {0}
  BY <1>1, ProgramFacts DEF DtTypes
<1>9. /\ table' \in [1..(2 * NumIndexes) -> 0..NumIndexes]
      /\ \A e \in 1..(2 * NumIndexes) : table'[e] = IF e = d THEN Free ELSE table[e]
  <2>1. Free \in 0..NumIndexes /\ table \in [1..(2 * NumIndexes) -> 0..NumIndexes]
    BY <1>1, <1>8 DEF DtTypes, Free
  <2>2. table' = [table EXCEPT ![d] = Free]
    BY <1>2
  <2> HIDE DEF d
  <2> QED
    BY <2>1, <2>2
<1>10. DtTypes'
  BY <1>1, <1>2, <1>4, <1>9, DtGoing DEF DtTypes
<1>11. ThreadsPlaced'
  BY <1>1, <1>2, <1>3, <1>5 DEF ThreadsPlaced
<1>12. d \in 1..(2 * NumIndexes) /\ table[d] = t
  BY <1>1, <1>7 DEF Mine, DtTypes, Closed
<1>13. FilesOwned'
  <2>1. \A k \in Index : k # Free
    BY <1>8 DEF Index, Free
  <2>2. \A k \in Index : \A e \in 1..(2 * NumIndexes) : table'[e] = k <=> table[e] = k /\ e # d
    BY <1>9, <2>1
  <2>3. \A k \in Index : args[k].in \in 0..(2 * NumIndexes) /\ args[k].out \in 0..(2 * NumIndexes)
    BY <1>1 DEF DtTypes
  <2>4. \A k \in Index : k # t => /\ Mine(args[k].in, k) => Mine(args[k].in, k)'
                                  /\ Mine(args[k].out, k) => Mine(args[k].out, k)'
    BY <1>2, <1>9, <1>12, <2>3 DEF Mine, Closed
  <2>5. to = "closeout" => Mine(args[t].out, t)'
    BY <1>2, <1>6, <1>9, <2>3 DEF Mine, Closed
  <2>6. ~HasIn(t)' /\ (HasOut(t)' => to = "closeout")
    <3>1. ~(t = counter /\ mpc \in {"dest", "create"})
      BY <1>1, <1>2 DEF MainPlaced, DtTypes
    <3> QED
      BY <1>2, <1>5, <3>1 DEF HasIn, HasOut
  <2>7. \A k \in Index : k # t => (HasIn(k)' <=> HasIn(k)) /\ (HasOut(k)' <=> HasOut(k))
    BY <1>2, <1>5 DEF HasIn, HasOut
  <2>8. ASSUME NEW k \in Index PROVE
            /\ HasIn(k)' => Mine(args[k].in, k)'
            /\ HasOut(k)' => Mine(args[k].out, k)' /\ args[k].in # args[k].out
    BY <1>1, <1>3, <1>6, <2>4, <2>5, <2>6, <2>7 DEF FilesOwned
  <2>9. ASSUME NEW k \in Index, NEW e \in 1..(2 * NumIndexes), table'[e] = k
        PROVE  \/ e = args[k].in /\ thr'[k] \notin {"closeout", "done"}
               \/ e = args[k].out /\ thr'[k] # "done"
    BY <1>1, <1>2, <1>3, <1>5, <2>2, <2>9 DEF FilesOwned
  <2> QED
    BY <1>1, <1>2, <1>3, <1>5, <2>8, <2>9 DEF FilesOwned
<1>14. MonitorsOwn'
  BY <1>2, <1>3 DEF MonitorsOwn
<1> QED
  BY <1>4, <1>7, <1>10, <1>11, <1>13, <1>14, DtGoing DEF DtIInv

LEMMA MonitorKeeps ==
    ASSUME DtIInv, NEW t \in Index, ReadCommandFrom(t) \/ docommand(t) \/ CanceledMonitor(t)
    PROVE  DtIInv'
<1>1. DtTypes /\ MainPlaced /\ ThreadsPlaced /\ MonitorsOwn
  BY DEF DtIInv
<1>2. PICK to \in {"done", "command", "read"} : thr' = [thr EXCEPT ![t] = to]
  BY DEF ReadCommandFrom, docommand, CanceledMonitor, ThreadMoves
<1>3. /\ thr[t] \in {"read", "command"}
      /\ UNCHANGED <<prog, broken, mpc, counter, table, args, got, cancel, total>>
  BY DEF ReadCommandFrom, docommand, CanceledMonitor, ThreadMoves
<1>4. ~prog.opens
  BY <1>1, <1>3 DEF ThreadsPlaced
<1>5. DtGoes(t, to)
  BY <1>2, <1>3 DEF DtGoes, ThreadPlaces
<1>6. FilesOwned' /\ MonitorsOwn'
  BY <1>3, <1>4, <1>5, DtFilesStay
<1>7. blocks' \in [Index -> Nat]
  BY <1>1 DEF ReadCommandFrom, docommand, CanceledMonitor, DtTypes
<1>8. DtTypes'
  BY <1>1, <1>3, <1>5, <1>7, DtGoing DEF DtTypes
<1>9. /\ thr'[t] = to /\ (\A k \in Index : k # t => thr'[k] = thr[k])
      /\ NumIndexes' = NumIndexes /\ Index' = Index /\ Free' = Free
  BY <1>5, DtGoing
<1>10. ThreadsPlaced'
  BY <1>1, <1>3, <1>4, <1>9 DEF ThreadsPlaced
<1>11. Mine(args[t].in, t)
  <2>1. t + 1 # 0
    BY <1>1, ProgramFacts DEF DtTypes, Index
  <2> QED
    BY <1>1, <1>4, <2>1 DEF MonitorsOwn, Mine, Closed
<1>12. ~wrong'
  BY <1>11 DEF ReadCommandFrom, docommand, CanceledMonitor, DtIInv
<1> QED
  BY <1>5, <1>6, <1>8, <1>10, <1>12, DtGoing DEF DtIInv

\* A new file gets a descriptor: those before it leave one free.
LEMMA LowestFree ==
    ASSUME DtIInv, mpc \in {"open", "dest"}
    PROVE  Lowest \in 1..(2 * NumIndexes) /\ table[Lowest] = Free
<1> DEFINE N == NumIndexes
           F == {d \in DOMAIN table : table[d] = Free}
           S == 1..(2 * N)
           T == 0..(2 * counter)
           f == [d \in S |-> IF d = args[table[d]].in THEN 2 * table[d] ELSE 2 * table[d] + 1]
<1>1. DtTypes /\ MainPlaced /\ FilesOwned /\ prog.opens /\ N \in Nat \ {0} /\ counter \in 0..(N - 1)
  BY ProgramFacts DEF DtIInv, MainPlaced, DtTypes
<1>2. F # {}
  <2> SUFFICES ASSUME \A d \in S : table[d] # Free PROVE FALSE
    BY <1>1 DEF DtTypes
  <2>1. ASSUME NEW d \in S
        PROVE  /\ table[d] \in Index /\ table[d] <= counter
               /\ d = args[table[d]].in \/ (d = args[table[d]].out /\ table[d] < counter)
    <3>1. table[d] \in Index
      BY <1>1 DEF DtTypes, Index, Free
    <3>2. d = args[table[d]].in \/ d = args[table[d]].out
      BY <1>1, <3>1 DEF FilesOwned
    <3>3. d # Closed
      BY DEF Closed
    <3> QED
      BY <1>1, <3>1, <3>2, <3>3 DEF FilesOwned, Index
  <2>2. ASSUME NEW d \in S PROVE f[d] \in T
    <3> DEFINE k == table[d]
    <3>1. k \in 0..counter /\ (d = args[k].in \/ k < counter)
      BY <2>1 DEF Index
    <3>2. f[d] = IF d = args[k].in THEN 2 * k ELSE 2 * k + 1
      OBVIOUS
    <3> HIDE DEF k, f
    <3> QED
      BY <1>1, <3>1, <3>2
  <2>3. ASSUME NEW d \in S, NEW e \in S, f[d] = f[e] PROVE d = e
    <3> DEFINE k == table[d]
               j == table[e]
    <3>1. k \in Nat /\ j \in Nat /\ (d = args[k].in \/ d = args[k].out) /\ (e = args[j].in \/ e = args[j].out)
      BY <2>1 DEF Index
    <3>2. f[d] = (IF d = args[k].in THEN 2 * k ELSE 2 * k + 1) /\ f[e] = (IF e = args[j].in THEN 2 * j ELSE 2 * j + 1)
      OBVIOUS
    <3> HIDE DEF k, j, f
    <3>3. k = j /\ (d = args[k].in <=> e = args[j].in)
      <4>1. CASE d = args[k].in /\ e = args[j].in
        <5>1. 2 * k = 2 * j
          BY <2>3, <3>2, <4>1
        <5> QED
          BY <3>1, <4>1, <5>1
      <4>2. CASE d # args[k].in /\ e # args[j].in
        <5>1. 2 * k + 1 = 2 * j + 1
          BY <2>3, <3>2, <4>2
        <5> QED
          BY <3>1, <4>2, <5>1
      <4>3. CASE d = args[k].in /\ e # args[j].in
        <5>1. 2 * k = 2 * j + 1
          BY <2>3, <3>2, <4>3
        <5> QED
          BY <3>1, <5>1
      <4>4. CASE d # args[k].in /\ e = args[j].in
        <5>1. 2 * k + 1 = 2 * j
          BY <2>3, <3>2, <4>4
        <5> QED
          BY <3>1, <5>1
      <4> QED
        BY <4>1, <4>2, <4>3, <4>4
    <3> QED
      BY <3>1, <3>3
  <2>4. f \in Injection(S, T)
    <3>1. f \in [S -> T]
      BY <2>2
    <3>2. \A d, e \in S : f[d] = f[e] => d = e
      BY <2>3, Zenon
    <3> HIDE DEF f, S, T
    <3> QED
      BY <3>1, <3>2 DEF Injection, IsInjective
  <2>5. Cardinality(S) = 2 * N /\ IsFiniteSet(T) /\ Cardinality(T) = 2 * counter + 1
    BY <1>1, FS_Interval
  <2>6. Cardinality(S) <= Cardinality(T)
    <3> HIDE DEF f, S, T
    <3> QED
      BY <2>4, <2>5, FS_Injection
  <2> QED
    BY <1>1, <2>5, <2>6
<1>3. F \subseteq Nat
  BY <1>1 DEF DtTypes
<1>4. Lowest \in F
  <2> HIDE DEF F
  <2>1. Lowest = Min(F)
    BY DEF Lowest, F
  <2>2. \E x \in F : \A y \in F : x <= y
    BY <1>2, <1>3, LowestSlot
  <2> QED
    BY <2>1, <2>2 DEF Min
<1> QED
  BY <1>1, <1>4 DEF DtTypes

\* Main goes to the next index: the thread of this one is created, or cannot be.
LEMMA NextIndexPlaces ==
    ASSUME DtIInv, counter < NumIndexes, NextIndex, prog' = prog, broken' = broken,
           mpc \in {"open", "dest", "create"},
           \/ thr' = thr /\ broken[counter] \in Unmade
           \/ thr' = [thr EXCEPT ![counter] = "start"] /\ broken[counter] \notin Unmade
    PROVE  /\ MainPlaced' /\ TotalDue' /\ EndDue' /\ CrashDue'
           /\ mpc' \in {"open", "create", "join0"} /\ counter' = counter + 1 /\ counter' \in 0..NumIndexes
           /\ mpc' = "open" => prog.opens
           /\ mpc' = "create" => ~prog.opens
<1>1. DtTypes /\ MainPlaced /\ NumIndexes \in Nat \ {0} /\ counter \in Nat
  BY ProgramFacts DEF DtIInv, DtTypes
<1>2. NumIndexes' = NumIndexes /\ Index' = Index /\ Free' = Free /\ Failures' = Failures
  BY SameIndexes
<1>3. counter' = counter + 1 /\ mpc' = IF counter + 1 < NumIndexes THEN (IF prog.opens THEN "open" ELSE "create") ELSE "join0"
  BY DEF NextIndex
<1>4. counter \in Index /\ thr[counter] = "none" /\ thr \in [Index -> ThreadPlaces]
  BY <1>1 DEF DtTypes, MainPlaced, Index
<1>5. \A k \in Index : /\ k # counter => thr'[k] = thr[k]
                       /\ thr'[counter] = "none" <=> broken[counter] \in Unmade
  BY <1>4
<1>6. ~prog.opens /\ mpc' = "create" => broken[counter'] \notin {"source", "dest"}
  <2> SUFFICES ASSUME ~prog.opens, mpc' = "create" PROVE broken[counter'] \notin {"source", "dest"}
    OBVIOUS
  <2>1. counter' \in Index
    BY <1>1, <1>3 DEF Index
  <2>2. broken[counter'] \in Failures
    BY <1>1, <2>1 DEF DtTypes
  <2>3. Failures \subseteq {"none", "create", "malloc"}
    BY DEF Failures
  <2> QED
    BY <2>2, <2>3
<1>7. MainPlaced'
  <2>1. mpc' \in {"open", "dest"} => prog.opens
    BY <1>3
  <2>2. mpc' \in {"open", "dest", "create"} => counter' < NumIndexes
    BY <1>1, <1>3
  <2>3. mpc' # "dest" /\ mpc' # "exit"
    BY <1>3
  <2>4. mpc' = "create" => broken[counter'] \notin {"source", "dest"}
    BY <1>3, <1>6
  <2>5. ASSUME NEW k \in Index
        PROVE  /\ thr'[k] # "none" => broken[k] \notin Unmade
               /\ mpc' \in {"open", "dest", "create"} /\ k >= counter' => thr'[k] = "none"
               /\ thr'[k] = "none" /\ broken[k] \notin Unmade => mpc' \in {"open", "dest", "create"} /\ k >= counter'
               /\ prog.shared /\ thr'[k] # "none" => k < counter'
    <3>1. k \in Nat /\ k < NumIndexes
      BY <1>1 DEF Index
    <3>2. CASE k = counter
      BY <1>1, <1>3, <1>5, <3>1, <3>2
    <3>3. CASE k # counter
      BY <1>1, <1>3, <1>5, <3>1, <3>3 DEF MainPlaced
    <3> QED
      BY <3>2, <3>3
  <2> QED
    BY <1>2, <2>1, <2>2, <2>3, <2>4, <2>5 DEF MainPlaced
<1>8. TotalDue' /\ EndDue' /\ CrashDue'
  BY <1>3 DEF TotalDue, EndDue, CrashDue
<1> QED
  BY <1>1, <1>3, <1>7, <1>8

\* A file of the index of main, once opened, is that index's own.
LEMMA DtOpenKeeps ==
    ASSUME DtIInv, OpenSource \/ OpenDest \/ CreateThread
    PROVE  DtIInv'
<1>1. /\ DtTypes /\ MainPlaced /\ ThreadsPlaced /\ FilesOwned /\ MonitorsOwn /\ ~wrong
      /\ NumIndexes \in Nat \ {0} /\ mpc \in {"open", "dest", "create"}
      /\ counter \in Index /\ counter < NumIndexes /\ counter \in Nat /\ thr[counter] = "none"
  BY ProgramFacts DEF DtIInv, DtTypes, MainPlaced, Index, OpenSource, OpenDest, CreateThread
<1>2. prog' = prog /\ broken' = broken /\ UNCHANGED <<blocks, got, cancel, total, wrong>>
  BY DEF OpenSource, OpenDest, CreateThread
<1>3. NumIndexes' = NumIndexes /\ Index' = Index /\ Free' = Free /\ Failures' = Failures
  BY <1>2, SameIndexes
<1>4. CASE GiveUp /\ UNCHANGED <<table, args, thr>> /\ broken[counter] \in Unmade
  <2>1. CASE prog.many
    <3>1. NextIndex
      BY <1>4, <2>1 DEF GiveUp
    <3>2. /\ MainPlaced' /\ TotalDue' /\ EndDue' /\ CrashDue' /\ mpc' \in {"open", "create", "join0"}
          /\ counter' = counter + 1 /\ counter' \in 0..NumIndexes /\ (mpc' = "create" => ~prog.opens)
      <4>1. thr' = thr /\ broken[counter] \in Unmade
        BY <1>4
      <4> QED
        BY <1>1, <1>2, <3>1, <4>1, NextIndexPlaces
    <3>3. DtTypes'
      BY <1>1, <1>2, <1>3, <1>4, <3>2 DEF DtTypes
    <3>4. ThreadsPlaced' /\ MonitorsOwn'
      BY <1>1, <1>2, <1>3, <1>4, <3>2 DEF ThreadsPlaced, MonitorsOwn
    <3>5. FilesOwned'
      <4>1. \A k \in Index : prog.opens => (HasIn(k)' => HasIn(k)) /\ (HasOut(k)' => HasOut(k))
        BY <1>4, <3>2 DEF HasIn, HasOut
      <4>2. \A k \in Index : (Mine(args[k].in, k)' <=> Mine(args[k].in, k)) /\ (Mine(args[k].out, k)' <=> Mine(args[k].out, k))
        BY <1>4 DEF Mine
      <4>3. \A k \in Index : k >= counter + 1 => k > counter
        BY <1>1 DEF Index
      <4> HIDE DEF HasIn, HasOut, Mine
      <4> QED
        BY <1>1, <1>2, <1>3, <1>4, <3>2, <4>1, <4>2, <4>3 DEF FilesOwned
    <3> QED
      BY <1>1, <1>2, <3>2, <3>3, <3>4, <3>5 DEF DtIInv
  <2>2. CASE ~prog.many
    <3>1. mpc' = "exit" /\ counter' = counter /\ NumIndexes = 1 /\ prog.opens
      BY <1>1, <1>4, <2>2, ProgramFacts DEF GiveUp, DtTypes
    <3>2. DtTypes'
      BY <1>1, <1>2, <1>3, <1>4, <3>1 DEF DtTypes
    <3>3. ThreadsPlaced' /\ MonitorsOwn' /\ TotalDue' /\ EndDue' /\ CrashDue'
      BY <1>1, <1>2, <1>3, <1>4, <3>1 DEF ThreadsPlaced, MonitorsOwn, TotalDue, EndDue, CrashDue
    <3>4. MainPlaced'
      BY <1>1, <1>2, <1>3, <1>4, <3>1 DEF MainPlaced
    <3>5. FilesOwned'
      <4>1. \A k \in Index : (HasIn(k)' => HasIn(k)) /\ (HasOut(k)' => HasOut(k))
        BY <1>4, <3>1 DEF HasIn, HasOut
      <4>2. \A k \in Index : (Mine(args[k].in, k)' <=> Mine(args[k].in, k)) /\ (Mine(args[k].out, k)' <=> Mine(args[k].out, k))
        BY <1>4 DEF Mine
      <4> HIDE DEF HasIn, HasOut, Mine
      <4> QED
        BY <1>1, <1>2, <1>3, <1>4, <3>1, <4>1, <4>2 DEF FilesOwned
    <3> QED
      BY <1>1, <1>2, <3>2, <3>3, <3>4, <3>5 DEF DtIInv
  <2> QED
    BY <2>1, <2>2
<1>5. CASE CreateThread /\ broken[counter] \notin Unmade
  <2>1. /\ mpc = "create" /\ NextIndex /\ thr' = [thr EXCEPT ![counter] = "start"] /\ UNCHANGED <<table, args>>
    BY <1>5 DEF CreateThread, Unmade
  <2>2. /\ MainPlaced' /\ TotalDue' /\ EndDue' /\ CrashDue' /\ mpc' \in {"open", "create", "join0"}
        /\ counter' = counter + 1 /\ counter' \in 0..NumIndexes /\ (mpc' = "create" => ~prog.opens)
    BY <1>1, <1>2, <1>5, <2>1, NextIndexPlaces
  <2>3. thr' \in [Index -> ThreadPlaces] /\ thr'[counter] = "start" /\ \A k \in Index : k # counter => thr'[k] = thr[k]
    BY <1>1, <2>1 DEF DtTypes, ThreadPlaces
  <2>4. DtTypes'
    BY <1>1, <1>2, <1>3, <2>1, <2>2, <2>3 DEF DtTypes
  <2>5. ThreadsPlaced' /\ MonitorsOwn'
    BY <1>1, <1>2, <1>3, <2>1, <2>3 DEF ThreadsPlaced, MonitorsOwn
  <2>6. FilesOwned'
    <3>1. \A k \in Index : prog.opens => /\ HasIn(k)' => HasIn(k)
                                         /\ HasOut(k)' => HasOut(k)
                                         /\ thr'[k] \in {"closeout", "done"} => thr'[k] = thr[k]
      BY <2>1, <2>2, <2>3 DEF HasIn, HasOut
    <3>2. \A k \in Index : (Mine(args[k].in, k)' <=> Mine(args[k].in, k)) /\ (Mine(args[k].out, k)' <=> Mine(args[k].out, k))
      BY <2>1 DEF Mine
    <3>3. \A k \in Index : k >= counter + 1 => k > counter
      BY <1>1 DEF Index
    <3> HIDE DEF HasIn, HasOut, Mine
    <3>4. mpc' \in {"open", "create", "join0"} /\ (prog.opens => mpc' # "create") /\ counter' = counter + 1
      BY <2>2
    <3>5. UNCHANGED <<prog, args, table>>
      BY <1>2, <2>1
    <3>6. FilesOwned /\ mpc = "create"
      BY <1>1, <2>1
    <3> QED
      BY <1>3, <3>1, <3>2, <3>3, <3>4, <3>5, <3>6 DEF FilesOwned
  <2> QED
    BY <1>1, <1>2, <2>2, <2>4, <2>5, <2>6 DEF DtIInv
<1>6. CASE /\ mpc \in {"open", "dest"} /\ table' = [table EXCEPT ![Lowest] = counter] /\ UNCHANGED <<thr, counter>>
           /\ \/ mpc = "open" /\ mpc' = "dest" /\ args' = [args EXCEPT ![counter].in = Lowest]
                 /\ broken[counter] # "source"
              \/ mpc = "dest" /\ mpc' = "create" /\ args' = [args EXCEPT ![counter].out = Lowest]
                 /\ broken[counter] # "dest"
  <2> DEFINE d == Lowest
             a == IF mpc = "open" THEN [args[counter] EXCEPT !.in = d] ELSE [args[counter] EXCEPT !.out = d]
  <2>1. d \in 1..(2 * NumIndexes) /\ table[d] = Free /\ prog.opens
    BY <1>1, <1>6, LowestFree DEF MainPlaced
  <2> HIDE DEF d
  <2>2. args[counter] \in [in : 0..(2 * NumIndexes), out : 0..(2 * NumIndexes)]
    BY <1>1 DEF DtTypes
  <2>3. args' = [args EXCEPT ![counter] = a]
    BY <1>6 DEF d
  <2>4. /\ a \in [in : 0..(2 * NumIndexes), out : 0..(2 * NumIndexes)]
        /\ mpc = "open" => a.in = d /\ a.out = args[counter].out
        /\ mpc = "dest" => a.in = args[counter].in /\ a.out = d
    BY <1>1, <1>6, <2>1, <2>2
  <2> HIDE DEF a
  <2>5. args' \in [Index -> [in : 0..(2 * NumIndexes), out : 0..(2 * NumIndexes)]] /\ args'[counter] = a
        /\ \A k \in Index : k # counter => args'[k] = args[k]
    BY <1>1, <2>3, <2>4 DEF DtTypes
  <2>6. table' \in [1..(2 * NumIndexes) -> 0..NumIndexes] /\ table'[d] = counter
        /\ \A e \in 1..(2 * NumIndexes) : e # d => table'[e] = table[e]
    BY <1>1, <1>6, <2>1 DEF DtTypes, d
  <2>7. DtTypes'
    BY <1>1, <1>2, <1>3, <1>6, <2>5, <2>6 DEF DtTypes
  <2>8. MainPlaced'
    BY <1>1, <1>2, <1>3, <1>6 DEF MainPlaced
  <2>9. ThreadsPlaced' /\ MonitorsOwn' /\ TotalDue' /\ EndDue' /\ CrashDue'
    BY <1>1, <1>2, <1>3, <1>6, <2>1 DEF ThreadsPlaced, MonitorsOwn, TotalDue, EndDue, CrashDue
  <2>10. FilesOwned'
    <3>1. \A k \in Index : k # Free
      BY <1>1 DEF Index, Free
    <3>2. \A k \in Index, e \in 0..(2 * NumIndexes) : Mine(e, k) => e # d /\ table'[e] = k
      BY <2>1, <2>6, <3>1 DEF Mine, Closed
    <3>3. \A k \in Index : args[k].in \in 0..(2 * NumIndexes) /\ args[k].out \in 0..(2 * NumIndexes)
      BY <1>1 DEF DtTypes
    <3>4. ASSUME NEW k \in Index, k # counter
          PROVE  /\ HasIn(k)' => Mine(args[k].in, k)'
                 /\ HasOut(k)' => Mine(args[k].out, k)' /\ args'[k].in # args'[k].out
                 /\ \A e \in 1..(2 * NumIndexes) : table'[e] = k =>
                       \/ e = args'[k].in /\ thr'[k] \notin {"closeout", "done"}
                       \/ e = args'[k].out /\ thr'[k] # "done"
                 /\ (mpc' = "open" /\ k >= counter') \/ (mpc' \in {"dest", "create"} /\ k > counter') =>
                       args'[k].in = Closed /\ args'[k].out = Closed
                 /\ ~(mpc' = "dest" /\ k = counter')
      <4>1. (HasIn(k)' <=> HasIn(k)) /\ (HasOut(k)' <=> HasOut(k))
        BY <1>6, <3>4 DEF HasIn, HasOut
      <4>2. args'[k] = args[k] /\ thr'[k] = thr[k]
        BY <1>6, <2>5, <3>4
      <4>3. (Mine(args[k].in, k) => Mine(args[k].in, k)') /\ (Mine(args[k].out, k) => Mine(args[k].out, k)')
        BY <3>2, <3>3, <4>2 DEF Mine
      <4>4. \A e \in 1..(2 * NumIndexes) : table'[e] = k => table[e] = k
        BY <2>6, <3>4
      <4> HIDE DEF HasIn, HasOut, Mine
      <4> QED
        BY <1>1, <1>6, <2>1, <3>4, <4>1, <4>2, <4>3, <4>4 DEF FilesOwned, Index
    <3>5. /\ HasIn(counter)' => Mine(args[counter].in, counter)'
          /\ HasOut(counter)' => Mine(args[counter].out, counter)' /\ args'[counter].in # args'[counter].out
          /\ \A e \in 1..(2 * NumIndexes) : table'[e] = counter => e = args'[counter].in \/ e = args'[counter].out
          /\ mpc' = "dest" => args'[counter].out = Closed
      <4>1. CASE mpc = "open"
        <5>1. args'[counter].in = d /\ args'[counter].out = Closed /\ mpc' = "dest" /\ thr'[counter] = "none"
          <6>1. args[counter].in = Closed /\ args[counter].out = Closed
            BY <1>1, <2>1, <4>1 DEF FilesOwned
          <6> QED
            BY <1>1, <1>6, <2>4, <2>5, <4>1, <6>1
        <5>2. ~HasOut(counter)'
          BY <1>6, <5>1 DEF HasOut
        <5>3. Mine(args[counter].in, counter)'
          BY <2>1, <2>6, <1>6, <5>1 DEF Mine, Closed
        <5>4. \A e \in 1..(2 * NumIndexes) : table[e] # counter
          BY <1>1, <2>1, <4>1 DEF FilesOwned, Closed
        <5> QED
          BY <2>6, <5>1, <5>2, <5>3, <5>4
      <4>2. CASE mpc = "dest"
        <5>1. args'[counter].in = args[counter].in /\ args'[counter].out = d /\ mpc' = "create" /\ thr'[counter] = "none"
          BY <1>1, <1>6, <2>4, <2>5, <4>2
        <5>2. Mine(args[counter].in, counter)
          BY <1>1, <2>1, <4>2 DEF FilesOwned, HasIn
        <5>3. Mine(args[counter].in, counter)' /\ args'[counter].in # d
          BY <1>1, <1>6, <3>2, <3>3, <5>1, <5>2 DEF Mine
        <5>4. Mine(args[counter].out, counter)'
          BY <1>6, <2>1, <2>6, <5>1 DEF Mine, Closed
        <5>5. \A e \in 1..(2 * NumIndexes) : table[e] = counter => e = args[counter].in
          BY <1>1, <2>1, <4>2 DEF FilesOwned, Closed
        <5> QED
          BY <2>6, <5>1, <5>3, <5>4, <5>5
      <4> QED
        BY <1>6, <4>1, <4>2
    <3>6. thr'[counter] = "none" /\ mpc' # "open" /\ counter' = counter /\ ~(counter > counter)
      BY <1>1, <1>6
    <3> QED
      BY <1>3, <3>4, <3>5, <3>6 DEF FilesOwned
  <2> QED
    BY <1>1, <1>2, <2>7, <2>8, <2>9, <2>10 DEF DtIInv
<1> QED
  <2>1. CASE OpenSource
    BY <1>4, <1>6, <2>1 DEF OpenSource, Unmade
  <2>2. CASE OpenDest
    BY <1>4, <1>6, <2>2 DEF OpenDest, Unmade
  <2>3. CASE CreateThread /\ broken[counter] = "create"
    BY <1>4, <2>3 DEF CreateThread, Unmade
  <2>4. CASE CreateThread /\ broken[counter] # "create"
    BY <1>1, <1>5, <2>4 DEF CreateThread, Unmade, MainPlaced
  <2> QED
    BY <2>1, <2>2, <2>3, <2>4

LEMMA DtJoinKeeps ==
    ASSUME DtIInv, StartJoin \/ JoinThread
    PROVE  DtIInv'
<1>1. /\ DtTypes /\ MainPlaced /\ ThreadsPlaced /\ FilesOwned /\ MonitorsOwn /\ ~wrong
      /\ NumIndexes \in Nat \ {0} /\ mpc \in {"join0", "join"}
  BY ProgramFacts DEF DtIInv, DtTypes, StartJoin, JoinThread
<1>2. prog' = prog /\ broken' = broken /\ UNCHANGED <<table, args, thr, blocks, got, cancel, wrong>>
      /\ mpc' \in {"join", "end", "crash"} /\ counter' \in {0, counter} /\ (prog.shared => counter' = counter)
  BY DEF StartJoin, JoinThread
<1>3. NumIndexes' = NumIndexes /\ Index' = Index /\ Free' = Free /\ Failures' = Failures
  BY <1>2, SameIndexes
<1>4. DtTypes'
  BY <1>1, <1>2, <1>3 DEF DtTypes
<1>5. ThreadsPlaced' /\ MonitorsOwn'
  BY <1>1, <1>2, <1>3 DEF ThreadsPlaced, MonitorsOwn
<1>6. MainPlaced'
  BY <1>1, <1>2, <1>3 DEF MainPlaced
<1>7. FilesOwned'
  <2>1. \A k \in Index : (HasIn(k)' => HasIn(k)) /\ (HasOut(k)' => HasOut(k))
    BY <1>2 DEF HasIn, HasOut
  <2>2. \A k \in Index : (Mine(args[k].in, k)' <=> Mine(args[k].in, k)) /\ (Mine(args[k].out, k)' <=> Mine(args[k].out, k))
    BY <1>2 DEF Mine
  <2> HIDE DEF HasIn, HasOut, Mine
  <2> QED
    BY <1>1, <1>2, <1>3, <2>1, <2>2 DEF FilesOwned
<1>8. EndDue'
  BY <1>2, <1>3 DEF EndDue, StartJoin, JoinThread
<1>9. CrashDue'
  <2> SUFFICES ASSUME mpc' = "crash" PROVE "malloc" \in {broken[k] : k \in Index} \/ prog = monitorfdcancel
    BY <1>2, <1>3 DEF CrashDue
  <2>1. ~prog.skips \/ (~prog.many /\ thr[0] = "failed")
    BY DEF StartJoin, JoinThread
  <2>2. ~prog.skips => prog = monitorfdcancel
    BY <1>1, ProgramFacts DEF DtTypes
  <2>3. 0 \in Index
    BY <1>1 DEF Index
  <2>4. thr[0] = "failed" => broken[0] = "malloc"
    BY <1>1, <2>3 DEF ThreadsPlaced
  <2> QED
    BY <2>1, <2>2, <2>3, <2>4
<1>10. TotalDue'
  <2> SUFFICES ASSUME mpc' = "end", prog.opens
               PROVE  /\ Blocks * Cardinality({k \in Index : broken[k] = "none"}) <= total'
                      /\ total' <= Blocks * Cardinality({k \in Index : broken[k] \in {"none", "copy"}})
    BY <1>2, <1>3 DEF TotalDue
  <2>1. JoinThread
    BY DEF StartJoin
  <2>2. ASSUME NEW k \in Index
        PROVE  /\ thr[k] = "done" <=> broken[k] \in {"none", "copy"}
               /\ thr[k] = "done" => blocks[k] \in 0..Blocks
               /\ thr[k] = "done" /\ broken[k] = "none" => blocks[k] = Blocks
    <3>1. thr[k] \in {"none", "done", "failed"} /\ broken[k] \in Failures /\ blocks[k] \in Nat
      BY <1>1, <2>1 DEF JoinThread, DtTypes
    <3>2. Failures \subseteq {"none", "copy", "malloc"} \cup Unmade
      BY DEF Failures, Unmade
    <3>3. thr[k] = "none" => broken[k] \in Unmade
      BY <1>1 DEF MainPlaced
    <3>4. thr[k] = "done" => broken[k] \notin Unmade /\ broken[k] # "malloc"
      BY <1>1 DEF MainPlaced, ThreadsPlaced
    <3>5. thr[k] = "failed" => broken[k] = "malloc"
      BY <1>1 DEF ThreadsPlaced
    <3>6. "none" \notin Unmade /\ "copy" \notin Unmade
      BY DEF Unmade
    <3>7. thr[k] = "done" => blocks[k] <= Blocks /\ (broken[k] # "copy" => blocks[k] = Blocks)
      BY <1>1 DEF ThreadsPlaced
    <3>8. thr[k] = "done" <=> broken[k] \in {"none", "copy"}
      BY <3>1, <3>2, <3>3, <3>4, <3>5, <3>6
    <3>9. Blocks \in Nat
      BY NumThreadsAssumption
    <3>10. blocks[k] <= Blocks => blocks[k] \in 0..Blocks
      BY <3>1, <3>9
    <3>11. broken[k] = "none" => broken[k] # "copy"
      OBVIOUS
    <3> QED
      BY <3>7, <3>8, <3>10, <3>11, Zenon
  <2> DEFINE Whole == {k \in Index : broken[k] = "none"}
  <2>3. {k \in Index : thr[k] = "done"} = {k \in Index : broken[k] \in {"none", "copy"}}
    BY <2>2
  <2>4. Whole \in SUBSET Index /\ \A k \in Whole : thr[k] = "done" /\ blocks[k] = Blocks
    BY <2>2
  <2> HIDE DEF Whole
  <2>5. /\ Blocks * Cardinality(Whole) <= JoinedBytes[NumIndexes]
        /\ JoinedBytes[NumIndexes] <= Blocks * Cardinality({k \in Index : thr[k] = "done"})
    BY <1>1, <2>2, <2>4, JoinedTotal
  <2> QED
    BY <2>1, <2>3, <2>5 DEF JoinThread, Whole
<1> QED
  BY <1>1, <1>2, <1>4, <1>5, <1>6, <1>7, <1>8, <1>9, <1>10 DEF DtIInv

LEMMA DtInit == ASSUME ThreadsInit PROVE DtIInv
<1>1. /\ prog \in ThreadPrograms /\ broken \in [Index -> Failures] /\ counter = 0 /\ wrong = FALSE
      /\ mpc = (IF prog.opens THEN "open" ELSE "create")
      /\ thr = [k \in Index |-> "none"] /\ blocks = [k \in Index |-> 0] /\ got = [k \in Index |-> Free]
  BY DEF ThreadsInit
<1>2. NumIndexes \in Nat \ {0} /\ (prog.opens <=> prog.entry \in {"copyfilepass", "copyfilemalloc"})
  BY <1>1, ProgramFacts
<1>3. \A k \in Index : args[k] = IF prog.opens THEN [in |-> Closed, out |-> Closed] ELSE [in |-> k + 1, out |-> Closed]
  BY DEF ThreadsInit
<1>4. args \in [Index -> [in : 0..(2 * NumIndexes), out : 0..(2 * NumIndexes)]]
  <2>1. ASSUME NEW k \in Index PROVE args[k] \in [in : 0..(2 * NumIndexes), out : 0..(2 * NumIndexes)]
    <3>1. CASE prog.opens
      <4>1. args[k] = [in |-> 0, out |-> 0]
        BY <1>3, <3>1 DEF Closed
      <4> QED
        BY <1>2, <4>1
    <3>2. CASE ~prog.opens
      <4>1. args[k] = [in |-> k + 1, out |-> 0]
        BY <1>3, <3>2 DEF Closed
      <4>2. k + 1 \in 0..(2 * NumIndexes)
        BY <1>2 DEF Index
      <4> QED
        BY <1>2, <4>1, <4>2
    <3> QED
      BY <3>1, <3>2
  <2>2. args = [k \in Index |-> args[k]]
    BY DEF ThreadsInit
  <2> QED
    BY <2>1, <2>2
<1>5. /\ table \in [1..(2 * NumIndexes) -> 0..NumIndexes]
      /\ \A d \in 1..(2 * NumIndexes) : table[d] = IF prog.opens \/ d > NumIndexes THEN Free ELSE d - 1
  <2>1. \A d \in 1..(2 * NumIndexes) : table[d] = IF prog.opens \/ d > NumIndexes THEN Free ELSE d - 1
    BY DEF ThreadsInit
  <2>2. \A d \in 1..(2 * NumIndexes) : table[d] \in 0..NumIndexes
    BY <1>2, <2>1 DEF Free
  <2>3. table = [d \in 1..(2 * NumIndexes) |-> table[d]]
    BY DEF ThreadsInit
  <2> QED
    BY <2>1, <2>2, <2>3
<1>6. DtTypes
  BY <1>1, <1>2, <1>4, <1>5 DEF DtTypes, ThreadPlaces, Free
<1>7. MainPlaced
  <2>1. ASSUME ~prog.opens PROVE broken[0] \notin {"source", "dest"}
    <3>1. broken[0] \in Failures
      BY <1>1, <1>2 DEF Index
    <3> QED
      BY <2>1, <3>1 DEF Failures
  <2>2. \A k \in Index : k >= 0
    BY DEF Index
  <2> QED
    BY <1>1, <1>2, <2>1, <2>2 DEF MainPlaced
<1>8. ThreadsPlaced
  BY <1>1, <1>2, NumThreadsAssumption DEF ThreadsPlaced
<1>9. FilesOwned
  <2> SUFFICES ASSUME prog.opens PROVE FilesOwned
    BY DEF FilesOwned
  <2>1. \A k \in Index : ~HasIn(k) /\ ~HasOut(k) /\ args[k].in = Closed /\ args[k].out = Closed /\ k # Free
    BY <1>1, <1>2, <1>3 DEF HasIn, HasOut, Index, Free
  <2>2. \A d \in 1..(2 * NumIndexes) : table[d] = Free
    BY <1>5
  <2>3. mpc = "open"
    BY <1>1
  <2> HIDE DEF HasIn, HasOut
  <2> QED
    BY <2>1, <2>2, <2>3 DEF FilesOwned
<1>10. MonitorsOwn
  <2> SUFFICES ASSUME ~prog.opens, NEW k \in Index PROVE args[k].in = k + 1 /\ table[k + 1] = k
    BY DEF MonitorsOwn
  <2>1. args[k] = [in |-> k + 1, out |-> Closed]
    BY <1>3
  <2>2. k + 1 \in 1..(2 * NumIndexes) /\ ~(k + 1 > NumIndexes) /\ (k + 1) - 1 = k
    BY <1>2 DEF Index
  <2> QED
    BY <1>5, <2>1, <2>2
<1>11. TotalDue /\ EndDue /\ CrashDue
  BY <1>1 DEF TotalDue, EndDue, CrashDue
<1> QED
  BY <1>1, <1>6, <1>7, <1>8, <1>9, <1>10, <1>11 DEF DtIInv

LEMMA DtUnchanged ==
    ASSUME DtIInv, UNCHANGED <<prog, broken, mpc, counter, table, args, thr, blocks, got, total, wrong>>
    PROVE  DtIInv'
<1>1. NumIndexes' = NumIndexes /\ Index' = Index /\ Free' = Free /\ Failures' = Failures
  BY SameIndexes
<1>2. \A k \in Index : (HasIn(k)' <=> HasIn(k)) /\ (HasOut(k)' <=> HasOut(k))
  BY DEF HasIn, HasOut
<1>3. \A k \in Index : (Mine(args[k].in, k)' <=> Mine(args[k].in, k)) /\ (Mine(args[k].out, k)' <=> Mine(args[k].out, k))
  BY DEF Mine
<1>4. DtTypes' /\ MainPlaced' /\ ThreadsPlaced'
  BY <1>1 DEF DtIInv, DtTypes, MainPlaced, ThreadsPlaced
<1>5. MonitorsOwn' /\ TotalDue' /\ EndDue' /\ CrashDue'
  BY <1>1 DEF DtIInv, MonitorsOwn, TotalDue, EndDue, CrashDue
<1>6. FilesOwned'
  <2> HIDE DEF HasIn, HasOut, Mine
  <2> QED
    BY <1>1, <1>2, <1>3 DEF DtIInv, FilesOwned
<1> QED
  BY <1>4, <1>5, <1>6 DEF DtIInv

\* Main and the threads open and close descriptors at the same time, and no thread
\* touches one of another: for any number of threads and any length of the files,
\* whatever calls fail, all files of a copy are closed, a copy whose reads and writes
\* succeed is complete, and main reports the bytes of these and what the others got.
THEOREM DtDescriptorsKept == ThreadsSpec => []DescriptorsKept
<1>1. ThreadsInit => DtIInv
  BY DtInit
<1>2. DtIInv /\ [ThreadsNext]_dtvars => DtIInv'
  <2> SUFFICES ASSUME DtIInv, [ThreadsNext]_dtvars PROVE DtIInv'
    OBVIOUS
  <2>1. CASE UNCHANGED dtvars
    BY <2>1, DtUnchanged DEF dtvars
  <2>2. CASE ThreadsMain
    BY <2>2, DtOpenKeeps, DtJoinKeeps DEF ThreadsMain
  <2>3. ASSUME NEW t \in Index, ThreadStep(t) PROVE DtIInv'
    BY <2>3, DtStartKeeps, CopyfileKeeps, CloseKeeps, MonitorKeeps DEF ThreadStep
  <2>4. ASSUME NEW t \in Index, CancelMonitor(t) PROVE DtIInv'
    BY <2>4, DtUnchanged DEF CancelMonitor
  <2> QED
    BY <2>1, <2>2, <2>3, <2>4 DEF ThreadsNext
<1>3. DtIInv => DescriptorsKept
  <2> SUFFICES ASSUME DtIInv PROVE DescriptorsKept
    OBVIOUS
  <2>1. ASSUME mpc = "end", prog.opens, NEW k \in Index, thr[k] = "done", NEW d \in DOMAIN table
        PROVE  table[d] # k
    <3>1. d \in 1..(2 * NumIndexes)
      BY DEF DtIInv, DtTypes
    <3> QED
      BY <2>1, <3>1 DEF DtIInv, FilesOwned
  <2>2. \A k \in Index : got[k] # Free => got[k] \in k..NumIndexes /\ (~prog.shared => got[k] = k)
    BY DEF DtIInv, ThreadsPlaced
  <2>3. mpc = "end" /\ prog.opens =>
            /\ Blocks * Cardinality({k \in Index : broken[k] = "none"}) <= total
            /\ total <= Blocks * Cardinality({k \in Index : broken[k] \in {"none", "copy"}})
    BY DEF DtIInv, TotalDue
  <2>4. mpc = "crash" => "malloc" \in {broken[k] : k \in Index} \/ prog = monitorfdcancel
    BY DEF DtIInv, CrashDue
  <2>5. ~wrong
    BY DEF DtIInv
  <2> QED
    BY <2>1, <2>2, <2>3, <2>4, <2>5 DEF DescriptorsKept
<1> QED
  BY <1>1, <1>2, <1>3, PTL DEF ThreadsSpec

-----------------------------------------------------------------------------
(* HostNames.                                                              *)

Lookups == [call : {"addr2name", "name2addr", "numeric"}, pc : {"number", "lock", "lookup", "copy", "unlock", "end"},
            found : BOOLEAN, name : Lookers \cup {NoThread}]
Converting == {"lookup", "copy", "unlock"}

NameTypes ==
    /\ version \in {"none", "r", "mutex", "posix", "u_accept_r1", "u_accept_r2"}
    /\ looker \in [Lookers -> Lookups]
    /\ namelock \in Lookers \cup {NoThread}
\* Between lock and unlock a thread owns mutex, if the version has it, and nobody
\* else does.
NameOwner == \A t \in Lookers : namelock = t <=> Guarded /\ looker[t].pc \in Converting
\* A version that is not reentrant has one thread.
OneCaller == version = "none" => \E u \in Lookers : \A t \in Lookers : t = u \/ looker[t].pc = "end"
\* What a thread has still to copy is its own.
AnswerStands == \A t \in Lookers : Static /\ looker[t].pc = "copy" => hostent = t
OwnName == \A t \in Lookers : looker[t].name \in {NoThread, t}
NameIInv == NameTypes /\ NameOwner /\ OneCaller /\ AnswerStands /\ OwnName

\* The threads of a version that is not reentrant are one at the start.
LEMMA NmInit == NamesInit => NameIInv
<1> SUFFICES ASSUME NamesInit PROVE NameIInv
  OBVIOUS
<1>1. PICK busy \in SUBSET Lookers :
          /\ version = "none" => Cardinality(busy) = 1
          /\ looker \in [Lookers -> {Asking(c) : c \in LookupCalls} \cup {Resting}]
          /\ \A t \in Lookers : t \in busy <=> looker[t] # Resting
  BY DEF NamesInit
<1>2. version \in {"none", "r", "mutex", "posix", "u_accept_r1", "u_accept_r2"} /\ hostent = NoThread /\ namelock = NoThread
  BY NamesAssumption DEF NamesInit
<1>3. Resting \in Lookups /\ Resting.pc = "end" /\ Resting.name = NoThread
  <2>1. PICK a : a = Asking("addr2name")
    OBVIOUS
  <2>2. a \in Lookups /\ a.name = NoThread
    BY <2>1 DEF Asking, Lookups
  <2> QED
    BY <2>1, <2>2 DEF Resting, Lookups
<1>4. \A c \in LookupCalls : Asking(c) \in Lookups /\ Asking(c).pc \in {"number", "lock"} /\ Asking(c).name = NoThread
  BY DEF Asking, LookupCalls, Lookups
<1>5. \A t \in Lookers : /\ looker[t] \in Lookups /\ looker[t].pc \in {"number", "lock", "end"}
                         /\ looker[t].name = NoThread
  <2> TAKE t \in Lookers
  <2>1. CASE looker[t] = Resting
    BY <1>3, <2>1 DEF Lookups
  <2>2. CASE looker[t] # Resting
    <3>1. PICK c \in LookupCalls : looker[t] = Asking(c)
      BY <1>1, <2>2
    <3> QED
      BY <1>4, <3>1
  <2> QED
    BY <2>1, <2>2
<1>6. NameTypes
  BY <1>1, <1>2, <1>5 DEF NameTypes
<1>7. NameOwner
  BY <1>2, <1>5, NamesAssumption DEF NameOwner, Converting
<1>8. AnswerStands /\ OwnName
  BY <1>5 DEF AnswerStands, OwnName
<1>9. OneCaller
  <2> SUFFICES ASSUME version = "none" PROVE \E u \in Lookers : \A t \in Lookers : t = u \/ looker[t].pc = "end"
    BY DEF OneCaller
  <2>1. IsFiniteSet(busy) /\ Cardinality(busy) = 1
    BY <1>1, NamesAssumption, FS_Subset
  <2>2. PICK u : busy = {u}
    BY <2>1, FS_Singleton
  <2>3. u \in Lookers /\ \A t \in Lookers : t = u \/ looker[t] = Resting
    BY <1>1, <2>2
  <2> QED
    BY <1>3, <2>3
<1> QED
  BY <1>6, <1>7, <1>8, <1>9 DEF NameIInv

\* A step of one thread leaves the others where they are.
LEMMA NmLookerTo == ASSUME NameIInv, NEW t \in Lookers, NEW here, NEW r \in Lookups, LookerTo(t, here, r)
                    PROVE  /\ version' = version /\ looker' \in [Lookers -> Lookups]
                           /\ looker[t].pc = here /\ looker'[t] = r
                           /\ \A u \in Lookers \ {t} : looker'[u] = looker[u]
  BY DEF LookerTo, NameIInv, NameTypes

\* NamesMatch is preserved by every step, with what it rests on.
LEMMA NmStep == NameIInv /\ [NamesNext]_namevars => NameIInv'
<1> SUFFICES ASSUME NameIInv, [NamesNext]_namevars PROVE NameIInv'
  OBVIOUS
<1>1. CASE UNCHANGED namevars
  BY <1>1 DEF NameIInv, NameTypes, NameOwner, OneCaller, AnswerStands, OwnName, namevars, Guarded, Static
<1>2. ASSUME NEW t \in Lookers, LookerStep(t) PROVE NameIInv'
  <2> DEFINE l == looker[t]
  <2>0. l \in Lookups /\ NoThread \notin Lookers
    BY NamesAssumption DEF NameIInv, NameTypes
  <2> USE DEF NameIInv
  <2>1. CASE LockNames(t)
    <3>1. [l EXCEPT !.pc = "lookup"] \in Lookups /\ [l EXCEPT !.pc = "lookup"].pc = "lookup"
          /\ [l EXCEPT !.pc = "lookup"].name = l.name
      BY <2>0 DEF Lookups
    <3>2. /\ version' = version /\ looker' \in [Lookers -> Lookups]
          /\ looker[t].pc = "lock" /\ looker'[t] = [l EXCEPT !.pc = "lookup"]
          /\ \A u \in Lookers \ {t} : looker'[u] = looker[u]
      BY <2>1, <3>1, NmLookerTo DEF LockNames
    <3>3. (Guarded => namelock = NoThread) /\ namelock' = (IF Guarded THEN t ELSE namelock) /\ hostent' = hostent
      BY <2>1 DEF LockNames
    <3>a. NameTypes' BY <3>2, <3>3 DEF NameTypes
    <3>b. NameOwner'
      BY <2>0, <3>1, <3>2, <3>3 DEF NameOwner, Converting, Guarded
    <3>c. OneCaller' BY <3>2, <3>1 DEF OneCaller
    <3>d. AnswerStands' BY <3>2, <3>1, <3>3 DEF AnswerStands, Static
    <3>e. OwnName' BY <3>2, <3>1 DEF OwnName
    <3> QED BY <3>a, <3>b, <3>c, <3>d, <3>e
  <2>2. CASE Number(t)
    <3>0. PICK r : r = [l EXCEPT !.pc = "end", !.name = t]
      OBVIOUS
    <3>1. r \in Lookups /\ r.pc = "end" /\ r.name = t
      BY <2>0, <3>0 DEF Lookups
    <3>2. /\ version' = version /\ looker' \in [Lookers -> Lookups]
          /\ looker[t].pc = "number" /\ looker'[t] = r
          /\ \A u \in Lookers \ {t} : looker'[u] = looker[u]
      BY <2>2, <3>0, <3>1, NmLookerTo DEF Number
    <3>3. namelock' = namelock /\ hostent' = hostent
      BY <2>2 DEF Number
    <3>a. NameTypes' BY <3>2, <3>3 DEF NameTypes
    <3>b. NameOwner'
      BY <2>0, <3>1, <3>2, <3>3 DEF NameOwner, Converting, Guarded
    <3>c. OneCaller' BY <3>2, <3>1 DEF OneCaller
    <3>d. AnswerStands' BY <3>2, <3>1, <3>3 DEF AnswerStands, Static
    <3>e. OwnName' BY <3>2, <3>1 DEF OwnName
    <3> QED BY <3>a, <3>b, <3>c, <3>d, <3>e
  <2>3. CASE LookupName(t)
    <3>f. PICK found \in BOOLEAN : LookerTo(t, "lookup", [l EXCEPT !.pc = "copy", !.found = found])
      BY <2>3 DEF LookupName
    <3>0. PICK r : r = [l EXCEPT !.pc = "copy", !.found = found]
      OBVIOUS
    <3>1. r \in Lookups /\ r.pc = "copy" /\ r.name = l.name
      BY <2>0, <3>0 DEF Lookups
    <3>2. /\ version' = version /\ looker' \in [Lookers -> Lookups]
          /\ looker[t].pc = "lookup" /\ looker'[t] = r
          /\ \A u \in Lookers \ {t} : looker'[u] = looker[u]
      BY <3>f, <3>0, <3>1, NmLookerTo
    <3>3. namelock' = namelock /\ hostent' = (IF Static THEN t ELSE hostent)
      BY <2>3 DEF LookupName
    \* Nobody else has an answer to copy from the storage that is overwritten.
    <3>4. ASSUME NEW u \in Lookers \ {t}, Static PROVE looker[u].pc # "copy"
      <4>1. CASE version = "none"
        BY <4>1, <3>2 DEF OneCaller
      <4>2. CASE Guarded
        BY <4>2, <3>2 DEF NameOwner, Converting
      <4> QED
        BY <4>1, <4>2, <3>4 DEF Static, Guarded
    <3>a. NameTypes' BY <3>2, <3>3 DEF NameTypes
    <3>b. NameOwner'
      BY <2>0, <3>1, <3>2, <3>3 DEF NameOwner, Converting, Guarded
    <3>c. OneCaller' BY <3>2, <3>1 DEF OneCaller
    <3>d. AnswerStands' BY <3>2, <3>1, <3>3, <3>4 DEF AnswerStands, Static
    <3>e. OwnName' BY <3>2, <3>1 DEF OwnName
    <3> QED BY <3>a, <3>b, <3>c, <3>d, <3>e
  <2>4. CASE CopyName(t)
    <3>f. PICK whose : whose = CASE l.found /\ Static -> hostent
                                 [] ~l.found /\ l.call = "name2addr" -> NoThread [] OTHER -> t
      OBVIOUS
    <3>p. l.pc = "copy"
      BY <2>4 DEF CopyName, LookerTo
    <3>o. whose \in {NoThread, t}
      BY <3>f, <3>p DEF AnswerStands
    <3>0. PICK r : r = [l EXCEPT !.pc = "unlock", !.name = whose]
      OBVIOUS
    <3>1. r \in Lookups /\ r.pc = "unlock" /\ r.name = whose
      BY <2>0, <3>0, <3>o DEF Lookups
    <3>2. /\ version' = version /\ looker' \in [Lookers -> Lookups]
          /\ looker[t].pc = "copy" /\ looker'[t] = r
          /\ \A u \in Lookers \ {t} : looker'[u] = looker[u]
      BY <2>4, <3>f, <3>0, <3>1, NmLookerTo DEF CopyName
    <3>3. namelock' = namelock /\ hostent' = hostent
      BY <2>4 DEF CopyName
    <3>a. NameTypes' BY <3>2, <3>3 DEF NameTypes
    <3>b. NameOwner'
      BY <2>0, <3>1, <3>2, <3>3 DEF NameOwner, Converting, Guarded
    <3>c. OneCaller' BY <3>2, <3>1 DEF OneCaller
    <3>d. AnswerStands' BY <3>2, <3>1, <3>3 DEF AnswerStands, Static
    <3>e. OwnName' BY <3>2, <3>1, <3>o DEF OwnName
    <3> QED BY <3>a, <3>b, <3>c, <3>d, <3>e
  <2>5. CASE UnlockNames(t)
    <3>1. [l EXCEPT !.pc = "end"] \in Lookups /\ [l EXCEPT !.pc = "end"].pc = "end"
          /\ [l EXCEPT !.pc = "end"].name = l.name
      BY <2>0 DEF Lookups
    <3>2. /\ version' = version /\ looker' \in [Lookers -> Lookups]
          /\ looker[t].pc = "unlock" /\ looker'[t] = [l EXCEPT !.pc = "end"]
          /\ \A u \in Lookers \ {t} : looker'[u] = looker[u]
      BY <2>5, <3>1, NmLookerTo DEF UnlockNames
    <3>3. namelock' = (IF Guarded /\ namelock = t THEN NoThread ELSE namelock) /\ hostent' = hostent
      BY <2>5 DEF UnlockNames
    <3>a. NameTypes' BY <3>2, <3>3 DEF NameTypes
    <3>b. NameOwner'
      BY <2>0, <3>1, <3>2, <3>3 DEF NameOwner, Converting, Guarded
    <3>c. OneCaller' BY <3>2, <3>1 DEF OneCaller
    <3>d. AnswerStands' BY <3>2, <3>1, <3>3 DEF AnswerStands, Static
    <3>e. OwnName' BY <3>2, <3>1 DEF OwnName
    <3> QED BY <3>a, <3>b, <3>c, <3>d, <3>e
  <2> QED
    BY <1>2, <2>1, <2>2, <2>3, <2>4, <2>5 DEF LookerStep
<1> QED
  BY <1>1, <1>2 DEF NamesNext

\* Every caller gets the name of its own host, in every version that any number of
\* threads may call, and in the version that is not reentrant for one; the mutex is
\* free in the end.
THEOREM NmNamesMatch == NamesSpec => []NamesMatch
<1>1. NamesInit => NameIInv
  BY NmInit
<1>2. NameIInv /\ [NamesNext]_namevars => NameIInv'
  BY NmStep
<1>3. NameIInv => NamesMatch
  BY DEF NameIInv, NameTypes, NameOwner, OwnName, NamesMatch, Converting
<1> QED
  BY <1>1, <1>2, <1>3, PTL DEF NamesSpec
-----------------------------------------------------------------------------
(* TextTools.                                                              *)

TextTypes ==
    /\ texttool \in {"argtestfree", "getpaths", "wordaverage", "wordaveragebad", "bubblesort", "keeplog", "keeploghistory"}
    /\ source \in Sources
    /\ Splitter => tpc \in {"makeargv", "count", "allocate", "insert", "made", "freed", "failed"}
    /\ Averager => tpc \in {"line", "firstword", "word", "averaged"}
    /\ Keeper => tpc \in {"read", "show", "getdata", "end"}
    /\ texttool = "bubblesort" => tpc \in {"compare", "sorted"}
    /\ tpc = "freed" => texttool = "argtestfree"

\* keeplog: the last command it ran is the last of its list until it stops reading, and
\* the one key it takes is given back unless memory was short.
LogKept ==
    Keeper =>
    /\ argv \in Seq(Nat) /\ counts \in [lines : Nat, keys : Nat]
    /\ history \in [ran : Nat, shown : Nat, broken : BOOLEAN, final : BOOLEAN]
    /\ ~history.final => history.ran = IF argv = << >> THEN 0 ELSE argv[Len(argv)]
    /\ tpc = "read" => ~history.final
    /\ tpc = "show" => history.shown = 0
    /\ tpc = "getdata" => history.shown <= Len(argv) /\ counts.keys >= 1
    /\ ~history.broken => counts.keys = IF tpc = "getdata" THEN 1 ELSE 0
    /\ tpc = "end" /\ ~history.broken => history.shown = Len(argv)

\* Nothing is allocated but the copy of the string and the array.
HeapKept ==
    Splitter =>
    /\ tpc \in {"makeargv", "freed", "failed"} => heap = {}
    /\ tpc \in {"count", "allocate"} => heap = {"t"}
    /\ tpc = "insert" => heap = {"t", "argv"}
    /\ tpc = "made" => heap = IF argv = << >> THEN {"argv"} ELSE {"t", "argv"}

\* bubblesort: what is behind the last `pass` elements, and of this pass the greatest so far.
SortKept ==
    texttool = "bubblesort" =>
    /\ string \in Seq(1..3) /\ Len(string) = Len(source)
    /\ counts \in [pass : Nat, j : Nat, changed : BOOLEAN, swaps : Nat]
    /\ tpc = "compare" => Len(string) > 1 /\ counts.pass < Len(string) - 1
                          /\ counts.j \in 1..(Len(string) - counts.pass)
    /\ \A i, k \in 1..Len(string) : i < k /\ (tpc = "sorted" \/ k > Len(string) - counts.pass) => string[i] <= string[k]
    /\ tpc = "compare" => \A i \in 1..(counts.j - 1) : string[i] <= string[counts.j]
    /\ tpc = "compare" /\ ~counts.changed => \A i, k \in 1..counts.j : i < k => string[i] <= string[k]
    /\ \A x \in 1..3 : Cardinality(Occurrences(source, x)) = Cardinality(Occurrences(string, x))
    /\ counts.swaps + Cardinality(Inversions(string)) = Cardinality(Inversions(source))

LEMMA UpToFinite == ASSUME NEW n \in Nat PROVE IsFiniteSet(1..n)
  BY FS_Interval

\* The interchange of neighbours in the wrong order, and what it does.
Interchanged(s, j, u) ==
    /\ s \in Seq(1..3) /\ j \in 1..(Len(s) - 1) /\ s[j] > s[j + 1]
    /\ u = [s EXCEPT ![j] = s[j + 1], ![j + 1] = s[j]]
Better(s, j, u) ==
    /\ u \in Seq(1..3) /\ Len(u) = Len(s)
    /\ u[j] = s[j + 1] /\ u[j + 1] = s[j] /\ \A i \in 1..Len(s) : i # j /\ i # j + 1 => u[i] = s[i]
    /\ Cardinality(Inversions(s)) \in Nat /\ Cardinality(Inversions(s)) = Cardinality(Inversions(u)) + 1
    /\ \A x \in 1..3 : Cardinality(Occurrences(s, x)) = Cardinality(Occurrences(u, x))

\* It takes away one inversion.
LEMMA Interchange == ASSUME NEW s, NEW j, NEW u, Interchanged(s, j, u) PROVE Better(s, j, u)
<1>0. s \in Seq(1..3) /\ j \in 1..(Len(s) - 1) /\ s[j] > s[j + 1] /\ u = [s EXCEPT ![j] = s[j + 1], ![j + 1] = s[j]]
  BY DEF Interchanged
<1> DEFINE N == 1..Len(s)
           other(i) == IF i = j THEN j + 1 ELSE IF i = j + 1 THEN j ELSE i
<1>1. Len(s) \in Nat /\ j \in Nat /\ j + 1 <= Len(s) /\ j \in N /\ j + 1 \in N /\ \A i \in N : s[i] \in 1..3
  BY <1>0
<1>2. u \in Seq(1..3) /\ Len(u) = Len(s)
  BY <1>0, <1>1
<1>3. u[j] = s[j + 1] /\ u[j + 1] = s[j] /\ \A i \in N : i # j /\ i # j + 1 => u[i] = s[i]
  BY <1>0, <1>1
<1>4. \A i \in N : other(i) \in N /\ other(other(i)) = i /\ u[i] = s[other(i)]
  BY <1>1, <1>3
<1>5. /\ IsFiniteSet(N) /\ IsFiniteSet(N \X N)
      /\ IsFiniteSet(Inversions(s)) /\ IsFiniteSet(Inversions(u))
  <2>0. IsFiniteSet(N)
    BY <1>1, UpToFinite
  <2>1. IsFiniteSet(N \X N)
    <3> HIDE DEF N
    <3> QED
      BY <2>0, FS_Product
  <2>2. Inversions(s) \subseteq N \X N /\ Inversions(u) \subseteq N \X N
    BY <1>2 DEF Inversions
  <2> QED
    BY <2>0, <2>1, <2>2, FS_Subset
<1>6. Cardinality(Inversions(s)) = Cardinality(Inversions(u)) + 1
  <2> DEFINE S == Inversions(u)
             T == Inversions(s) \ {<<j, j + 1>>}
             f == [p \in S |-> <<other(p[1]), other(p[2])>>]
  <2>1. <<j, j + 1>> \in Inversions(s)
    BY <1>0, <1>1 DEF Inversions
  <2>2. Cardinality(T) = Cardinality(Inversions(s)) - 1 /\ Cardinality(Inversions(s)) \in Nat
    <3>1. PICK I, e : I = Inversions(s) /\ e = <<j, j + 1>>
      OBVIOUS
    <3>2. Cardinality(I \ {e}) = Cardinality(I) - 1 /\ Cardinality(I) \in Nat
      BY <3>1, <1>5, <2>1, FS_RemoveElement, FS_CardinalityType
    <3> QED
      BY <3>1, <3>2
  <2>3. ASSUME NEW i \in N, NEW k \in N
        PROVE  <<i, k>> \in S <=> <<other(i), other(k)>> \in T
    <3> HIDE DEF other
    <3>1. <<i, k>> \in S <=> i < k /\ u[i] > u[k]
      BY <1>2 DEF Inversions
    <3>2. /\ other(i) \in N /\ other(k) \in N /\ u[i] = s[other(i)] /\ u[k] = s[other(k)]
      BY <1>4
    <3>3. <<other(i), other(k)>> \in T <=> /\ other(i) < other(k) /\ s[other(i)] > s[other(k)]
                                           /\ ~(other(i) = j /\ other(k) = j + 1)
      BY <3>2 DEF Inversions
    <3>4. u[i] > u[k] => (i < k <=> other(i) < other(k) /\ ~(other(i) = j /\ other(k) = j + 1))
      <4> USE DEF other
      <4>1. CASE i = j
        BY <4>1, <1>0, <1>1, <1>3
      <4>2. CASE i = j + 1
        BY <4>2, <1>0, <1>1, <1>3
      <4>3. CASE i # j /\ i # j + 1
        BY <4>3, <1>0, <1>1, <1>3
      <4> QED
        BY <4>1, <4>2, <4>3
    <3> QED
      BY <3>1, <3>2, <3>3, <3>4
  <2>4. \A p \in S : p = <<p[1], p[2]>> /\ p[1] \in N /\ p[2] \in N
    BY <1>2 DEF Inversions
  <2>5. \A p \in T : p = <<p[1], p[2]>> /\ p[1] \in N /\ p[2] \in N
    BY DEF Inversions
  <2> HIDE DEF S, T, other
  <2>6. f \in [S -> T]
    BY <2>3, <2>4
  <2>7. \A p, q \in S : f[p] = f[q] => p = q
    <3> SUFFICES ASSUME NEW p \in S, NEW q \in S, f[p] = f[q] PROVE p = q
      OBVIOUS
    <3>1. other(p[1]) = other(q[1]) /\ other(p[2]) = other(q[2])
      OBVIOUS
    <3> QED
      BY <3>1, <2>4, <1>4
  <2>8. \A t \in T : \E p \in S : f[p] = t
    <3> SUFFICES ASSUME NEW t \in T PROVE \E p \in S : f[p] = t
      OBVIOUS
    <3>1. PICK i, k : i = other(t[1]) /\ k = other(t[2])
      OBVIOUS
    <3>2. i \in N /\ k \in N /\ other(i) = t[1] /\ other(k) = t[2] /\ t = <<t[1], t[2]>>
      BY <3>1, <2>5, <1>4
    <3>3. <<i, k>> \in S
      BY <3>2, <2>3
    <3>4. f[<<i, k>>] = t
      BY <3>2, <3>3
    <3> QED
      BY <3>3, <3>4
  <2>9. ExistsBijection(S, T)
    <3> HIDE DEF f
    <3>1. f \in Bijection(S, T)
      BY <2>6, <2>7, <2>8 DEF Bijection, Injection, Surjection, IsInjective
    <3> QED
      BY <3>1 DEF ExistsBijection
  <2>10. Cardinality(T) = Cardinality(S)
    BY <2>9, <1>5, FS_Bijection DEF S
  <2> QED
    BY <2>2, <2>10 DEF S, T
<1>7. ASSUME NEW x \in 1..3 PROVE Cardinality(Occurrences(s, x)) = Cardinality(Occurrences(u, x))
  <2> DEFINE S == Occurrences(s, x)
             T == Occurrences(u, x)
             f == [i \in S |-> other(i)]
  <2>1. IsFiniteSet(S)
    <3>1. S \subseteq N
      BY DEF Occurrences
    <3> QED
      BY <3>1, <1>5, FS_Subset
  <2>2. \A i \in N : i \in T <=> other(i) \in S
    BY <1>2, <1>4 DEF Occurrences
  <2>3. S \subseteq N /\ T \subseteq N
    BY <1>2 DEF Occurrences
  <2> HIDE DEF S, T, other
  <2>4. f \in [S -> T]
    BY <2>2, <2>3, <1>4
  <2>5. \A p, q \in S : f[p] = f[q] => p = q
    BY <2>3, <1>4
  <2>6. \A t \in T : \E p \in S : f[p] = t
    <3> SUFFICES ASSUME NEW t \in T PROVE \E p \in S : f[p] = t
      OBVIOUS
    <3>1. other(t) \in S /\ other(other(t)) = t
      BY <2>2, <2>3, <1>4
    <3> QED
      BY <3>1
  <2>7. ExistsBijection(S, T)
    <3> HIDE DEF f
    <3>1. f \in Bijection(S, T)
      BY <2>4, <2>5, <2>6 DEF Bijection, Injection, Surjection, IsInjective
    <3> QED
      BY <3>1 DEF ExistsBijection
  <2>8. Cardinality(T) = Cardinality(S)
    BY <2>7, <2>1, FS_Bijection
  <2> QED
    BY <2>8 DEF S, T
<1>8. Cardinality(Inversions(s)) \in Nat
  BY <1>5, FS_CardinalityType
<1> QED
  BY <1>2, <1>3, <1>6, <1>7, <1>8 DEF Better

\* Without inversions an array is sorted, and without a number out of order it has none.
LEMMA SortedNone ==
    ASSUME NEW s \in Seq(1..3), \A i, k \in 1..Len(s) : i < k => s[i] <= s[k]
    PROVE  Cardinality(Inversions(s)) = 0
<1>1. Inversions(s) = {}
  BY DEF Inversions
<1> QED
  BY <1>1, FS_EmptySet

-----------------------------------------------------------------------------
(* TextTools: the steps.                                                   *)

SplitterStep == makeargv \/ CountToken \/ AllocateArray \/ InsertToken \/ freemakeargv
AveragerStep == wordaverage \/ wordcount
SorterStep == onepass \/ bubblesort
KeeperStep == runproc \/ AskHistory \/ EndOfInput \/ showhistory \/ ShowItem

\* Each tool takes its own steps.
LEMMA OwnSteps ==
    TextTypes /\ TextNext =>
    /\ texttool' = texttool /\ source' = source
    /\ \/ Splitter /\ SplitterStep
       \/ Averager /\ AveragerStep
       \/ texttool = "bubblesort" /\ SorterStep
       \/ Keeper /\ KeeperStep
<1> SUFFICES ASSUME TextTypes, TextNext
             PROVE  /\ texttool' = texttool /\ source' = source
                    /\ \/ Splitter /\ SplitterStep
                       \/ Averager /\ AveragerStep
                       \/ texttool = "bubblesort" /\ SorterStep
                       \/ Keeper /\ KeeperStep
  OBVIOUS
<1>1. Splitter \/ Averager \/ texttool = "bubblesort" \/ Keeper
  BY DEF TextTypes, Splitter, Averager, Keeper
<1>2. CASE SplitterStep
  <2>1. texttool' = texttool /\ source' = source
    BY <1>2 DEF SplitterStep, makeargv, CountToken, AllocateArray, InsertToken, freemakeargv, Failed
  <2>2. tpc \in {"makeargv", "count", "allocate", "insert", "made"}
    BY <1>2 DEF SplitterStep, makeargv, CountToken, AllocateArray, InsertToken, freemakeargv
  <2>3. Splitter
    BY <1>1, <2>2 DEF TextTypes
  <2> QED
    BY <1>2, <2>1, <2>3
<1>3. CASE AveragerStep
  <2>1. texttool' = texttool /\ source' = source
    BY <1>3 DEF AveragerStep, wordaverage, wordcount
  <2>2. tpc \in {"line", "firstword", "word"}
    BY <1>3 DEF AveragerStep, wordaverage, wordcount
  <2>3. Averager
    BY <1>1, <2>2 DEF TextTypes
  <2> QED
    BY <1>3, <2>1, <2>3
<1>4. CASE SorterStep
  <2>1. texttool' = texttool /\ source' = source /\ tpc = "compare"
    BY <1>4 DEF SorterStep, onepass, bubblesort
  <2>2. texttool = "bubblesort"
    BY <1>1, <2>1 DEF TextTypes
  <2> QED
    BY <1>4, <2>1, <2>2
<1>5. CASE KeeperStep
  <2>1. texttool' = texttool /\ source' = source
    BY <1>5 DEF KeeperStep, runproc, AskHistory, EndOfInput, showhistory, ShowItem, ShowEnds, KeepTo
  <2>2. tpc \in {"read", "show", "getdata"}
    BY <1>5 DEF KeeperStep, runproc, AskHistory, EndOfInput, showhistory, ShowItem
  <2>3. Keeper
    BY <1>1, <2>2 DEF TextTypes
  <2> QED
    BY <1>5, <2>1, <2>3
<1> QED
  BY <1>2, <1>3, <1>4, <1>5 DEF TextNext, SplitterStep, AveragerStep, SorterStep, KeeperStep

LEMMA LogStep == TextTypes /\ LogKept /\ TextNext => LogKept'
<1> SUFFICES ASSUME TextTypes, LogKept, TextNext, Keeper' PROVE LogKept'
  BY DEF LogKept
<1>0. Keeper /\ KeeperStep
  BY OwnSteps DEF Splitter, Averager, Keeper
<1> USE <1>0 DEF LogKept
<1>1. PICK h : h = history
  OBVIOUS
<1>2. /\ h \in [ran : Nat, shown : Nat, broken : BOOLEAN, final : BOOLEAN]
      /\ h = [ran |-> h.ran, shown |-> h.shown, broken |-> h.broken, final |-> h.final]
  BY <1>1
<1> DEFINE n == Len(argv)
<1>3. n \in Nat /\ (argv = << >> <=> n = 0)
  OBVIOUS
<1>4. CASE runproc
  <2>1. PICK f : f = [h EXCEPT !.final = TRUE, !.shown = 0]
    OBVIOUS
  <2>2. /\ f \in [ran : Nat, shown : Nat, broken : BOOLEAN, final : BOOLEAN]
        /\ f.final = TRUE /\ f.shown = 0 /\ f.broken = h.broken
    BY <1>2, <2>1
  <2>3. PICK line : line = counts.lines + 1
    OBVIOUS
  <2>4. line \in Nat
    BY <2>3
  <2>5. tpc = "read" /\ ~h.final
    BY <1>1, <1>4 DEF runproc
  <2>6. CASE KeepTo("show", argv, line, counts.keys, f) \/ KeepTo("show", argv, line, counts.keys, [f EXCEPT !.ran = line])
    BY <2>2, <2>4, <2>5, <2>6, <1>1 DEF KeepTo
  <2>7. CASE KeepTo("read", Append(argv, line), line, counts.keys, [h EXCEPT !.ran = line])
    <3>1. /\ Append(argv, line) \in Seq(Nat) /\ Append(argv, line) # << >>
          /\ Append(argv, line)[Len(Append(argv, line))] = line
      BY <2>4
    <3> QED
      BY <1>1, <1>2, <2>4, <2>5, <2>7, <3>1 DEF KeepTo
  <2> QED
    BY <1>1, <1>4, <2>1, <2>3, <2>6, <2>7 DEF runproc, Final
<1>5. CASE AskHistory
  BY <1>5, <1>3 DEF AskHistory, KeepTo
<1>6. CASE EndOfInput
  BY <1>6, <1>3 DEF EndOfInput, KeepTo, Final
<1>b. PICK b : b = [h EXCEPT !.broken = TRUE]
  OBVIOUS
<1>c. PICK s : s = [h EXCEPT !.shown = @ + 1]
  OBVIOUS
<1>d. /\ b \in [ran : Nat, shown : Nat, broken : BOOLEAN, final : BOOLEAN]
      /\ b.broken = TRUE /\ b.final = h.final /\ b.ran = h.ran
      /\ s \in [ran : Nat, shown : Nat, broken : BOOLEAN, final : BOOLEAN]
      /\ s.broken = h.broken /\ s.final = h.final /\ s.ran = h.ran /\ s.shown = h.shown + 1
  <2>1. b = [ran |-> h.ran, shown |-> h.shown, broken |-> TRUE, final |-> h.final]
    BY ONLY <1>2, <1>b
  <2>2. s = [ran |-> h.ran, shown |-> h.shown + 1, broken |-> h.broken, final |-> h.final]
    BY ONLY <1>2, <1>c
  <2> QED
    BY ONLY <2>1, <2>2, <1>2
<1>e. PICK k : k = counts.keys
  OBVIOUS
<1>f. k \in Nat /\ counts.lines \in Nat
  BY <1>e
<1>7. CASE showhistory
  <2>1. tpc = "show" /\ h.shown = 0
    BY <1>1, <1>7 DEF showhistory
  <2>2. PICK f : f = [h EXCEPT !.broken = @ \/ argv # << >>]
    OBVIOUS
  <2>3. f = IF argv # << >> THEN b ELSE h
    BY <2>2, <1>2, <1>b
  <2>4. CASE ShowEnds(k, f)
    BY <2>1, <2>3, <2>4, <1>1, <1>2, <1>3, <1>d, <1>e, <1>f DEF KeepTo, ShowEnds
  <2>5. CASE KeepTo("getdata", argv, counts.lines, k + 1, h)
    BY <2>1, <2>5, <1>1, <1>2, <1>3, <1>e, <1>f DEF KeepTo
  <2> QED
    BY <1>1, <1>7, <1>e, <2>2, <2>4, <2>5 DEF showhistory
<1>8. CASE ShowItem
  <2>1. tpc = "getdata" /\ h.shown <= n /\ k >= 1 /\ (~h.broken => k = 1)
    BY <1>1, <1>8, <1>e DEF ShowItem
  <2>2. CASE ShowEnds(k, b)
    BY <2>1, <2>2, <1>1, <1>2, <1>3, <1>d, <1>e, <1>f DEF KeepTo, ShowEnds
  <2>3. CASE h.shown = n /\ ShowEnds(k - 1, h)
    <3>1. tpc' = (IF h.final THEN "end" ELSE "read") /\ argv' = argv /\ history' = h
          /\ counts' = [lines |-> counts.lines, keys |-> k - 1]
      BY <2>3, <1>1 DEF KeepTo, ShowEnds
    <3>2. counts'.keys = k - 1 /\ counts'.lines = counts.lines
      BY <3>1
    <3> QED
      BY <2>1, <2>3, <3>1, <3>2, <1>1, <1>2, <1>3, <1>e, <1>f
  <2>4. CASE h.shown # n /\ KeepTo("getdata", argv, counts.lines, k, s)
    BY <2>1, <2>4, <1>1, <1>2, <1>3, <1>d, <1>e, <1>f DEF KeepTo
  <2> QED
    BY <1>1, <1>8, <1>b, <1>c, <1>e, <2>2, <2>3, <2>4 DEF ShowItem
<1> QED
  BY <1>4, <1>5, <1>6, <1>7, <1>8 DEF KeeperStep

LEMMA SortStep == TextTypes /\ SortKept /\ TextNext => SortKept'
<1> SUFFICES ASSUME TextTypes, SortKept, TextNext, texttool' = "bubblesort" PROVE SortKept'
  BY DEF SortKept
<1>0. texttool = "bubblesort" /\ SorterStep /\ source' = source /\ tpc = "compare"
  BY OwnSteps DEF Splitter, Averager, Keeper, SorterStep, onepass, bubblesort
<1>a. PICK n, j, p, w, c : n = Len(string) /\ j = counts.j /\ p = counts.pass /\ w = counts.swaps /\ c = counts.changed
  OBVIOUS
<1>1. /\ string \in Seq(1..3) /\ Len(string) = n /\ Len(source) = n
      /\ counts = [pass |-> p, j |-> j, changed |-> c, swaps |-> w]
      /\ n \in Nat /\ n > 1 /\ p \in Nat /\ p < n - 1 /\ j \in 1..(n - p) /\ w \in Nat /\ c \in BOOLEAN
  BY <1>0, <1>a DEF SortKept
<1>2. /\ \A i, k \in 1..n : i < k /\ k > n - p => string[i] <= string[k]
      /\ \A i \in 1..(j - 1) : string[i] <= string[j]
      /\ ~c => \A i, k \in 1..j : i < k => string[i] <= string[k]
      /\ \A x \in 1..3 : Cardinality(Occurrences(source, x)) = Cardinality(Occurrences(string, x))
      /\ w + Cardinality(Inversions(string)) = Cardinality(Inversions(source))
  BY <1>0, <1>1, <1>a DEF SortKept
<1>3. \A i \in 1..n : string[i] \in 1..3
  BY <1>1
<1>4. CASE onepass /\ string[j] > string[j + 1]
  <2>1. /\ j < n - p /\ tpc' = tpc
        /\ string' = [string EXCEPT ![j] = string[j + 1], ![j + 1] = string[j]]
        /\ counts' = [counts EXCEPT !.j = j + 1, !.changed = TRUE, !.swaps = @ + 1]
    BY <1>4, <1>a DEF onepass
  <2>2. j \in 1..(n - 1) /\ j + 1 \in 1..n /\ j + 1 <= n - p
    BY <1>1, <2>1
  <2>3. /\ string' \in Seq(1..3) /\ Len(string') = n
        /\ string'[j] = string[j + 1] /\ string'[j + 1] = string[j]
        /\ \A i \in 1..n : i # j /\ i # j + 1 => string'[i] = string[i]
        /\ Cardinality(Inversions(string)) \in Nat
        /\ Cardinality(Inversions(string)) = Cardinality(Inversions(string')) + 1
        /\ \A x \in 1..3 : Cardinality(Occurrences(string, x)) = Cardinality(Occurrences(string', x))
    <3>1. PICK s, u : s = string /\ u = string'
      OBVIOUS
    <3>2. Interchanged(s, j, u)
      BY <1>1, <1>a, <1>4, <2>1, <2>2, <3>1 DEF Interchanged
    <3>3. Better(s, j, u)
      BY <3>2, Interchange
    <3> QED
      BY <3>1, <3>3, <1>1 DEF Better
  <2>4. counts' = [pass |-> p, j |-> j + 1, changed |-> TRUE, swaps |-> w + 1]
    BY <1>1, <2>1
  <2>5. \A i, k \in 1..n : i < k /\ k > n - p => string'[i] <= string'[k]
    BY <1>1, <1>2, <1>3, <2>2, <2>3
  <2>6. \A i \in 1..j : string'[i] <= string'[j + 1]
    BY <1>1, <1>2, <1>3, <1>4, <2>2, <2>3
  <2>7. Cardinality(Inversions(string')) \in Nat
    <3>1. Inversions(string') \subseteq (1..n) \X (1..n) /\ IsFiniteSet(1..n)
      BY <2>3, <1>1, UpToFinite DEF Inversions
    <3>2. IsFiniteSet((1..n) \X (1..n))
      BY <3>1, FS_Product
    <3> QED
      BY <3>1, <3>2, FS_Subset, FS_CardinalityType
  <2>8. counts'.swaps + Cardinality(Inversions(string')) = Cardinality(Inversions(source'))
    BY <1>0, <1>1, <1>2, <2>3, <2>4, <2>7
  <2>9. /\ counts' \in [pass : Nat, j : Nat, changed : BOOLEAN, swaps : Nat]
        /\ counts'.pass = p /\ counts'.j = j + 1 /\ counts'.changed = TRUE
    BY <1>1, <2>2, <2>4
  <2>10. tpc' = "compare" /\ Len(source') = n /\ j + 1 \in 1..(n - p) /\ (j + 1) - 1 = j
    BY <1>0, <1>1, <2>1, <2>2
  <2>11. \A x \in 1..3 : Cardinality(Occurrences(source', x)) = Cardinality(Occurrences(string', x))
    BY <1>0, <1>2, <2>3
  <2>12. n > 1 /\ p < n - 1 /\ (j + 1) - 1 = j
    BY <1>1
  <2> QED
    BY <2>3, <2>5, <2>6, <2>8, <2>9, <2>10, <2>11, <2>12 DEF SortKept
<1>5. CASE onepass /\ ~(string[j] > string[j + 1])
  <2>1. /\ j < n - p /\ tpc' = tpc /\ string' = string /\ counts' = [counts EXCEPT !.j = j + 1]
    BY <1>5, <1>a DEF onepass
  <2>2. j + 1 \in 1..n /\ j + 1 <= n - p
    BY <1>1, <2>1
  <2>3. counts' = [pass |-> p, j |-> j + 1, changed |-> c, swaps |-> w]
    BY <1>1, <2>1
  <2>4. \A i \in 1..j : string[i] <= string[j + 1]
    BY <1>1, <1>2, <1>3, <1>5, <2>2
  <2>5. ~c => \A i, k \in 1..(j + 1) : i < k => string[i] <= string[k]
    BY <1>1, <1>2, <1>3, <2>2, <2>4
  <2> QED
    BY <1>0, <1>1, <1>2, <2>1, <2>2, <2>3, <2>4, <2>5 DEF SortKept
<1>6. CASE bubblesort
  <2>1. j = n - p /\ string' = string
    BY <1>6, <1>a DEF bubblesort
  <2>2. CASE c /\ p + 1 < n - 1
    <3>1. counts' = [counts EXCEPT !.pass = @ + 1, !.j = 1, !.changed = FALSE] /\ tpc' = tpc
      BY <1>6, <1>a, <2>2 DEF bubblesort
    <3>2. counts' = [pass |-> p + 1, j |-> 1, changed |-> FALSE, swaps |-> w]
      BY <1>1, <3>1
    <3>3. \A i, k \in 1..n : i < k /\ k > n - (p + 1) => string[i] <= string[k]
      BY <1>1, <1>2, <1>3, <2>1
    <3>4. /\ counts' \in [pass : Nat, j : Nat, changed : BOOLEAN, swaps : Nat]
          /\ counts'.pass = p + 1 /\ counts'.j = 1 /\ counts'.changed = FALSE /\ counts'.swaps = w
      BY <1>1, <3>2
    <3>5. tpc' = "compare" /\ Len(source') = n /\ 1 \in 1..(n - (p + 1)) /\ n > 1 /\ p + 1 < n - 1
      BY <1>0, <1>1, <2>2, <3>1
    <3>6. /\ \A x \in 1..3 : Cardinality(Occurrences(source', x)) = Cardinality(Occurrences(string', x))
          /\ w + Cardinality(Inversions(string')) = Cardinality(Inversions(source'))
      BY <1>0, <1>2, <2>1
    <3>7. string' \in Seq(1..3) /\ Len(string') = n /\ \A i, k \in 1..n : i < k /\ k > n - (p + 1) => string'[i] <= string'[k]
      BY <1>1, <2>1, <3>3
    <3>8. \A i, k \in 1..1 : ~(i < k)
      OBVIOUS
    <3> QED
      BY <3>4, <3>5, <3>6, <3>7, <3>8 DEF SortKept
  <2>3. CASE ~(c /\ p + 1 < n - 1)
    <3>1. counts' = counts /\ tpc' = "sorted"
      BY <1>6, <1>a, <2>3 DEF bubblesort
    <3>2. \A i, k \in 1..n : i < k => string[i] <= string[k]
      <4>1. \A i, k \in 1..n : i < k /\ k >= n - p => string[i] <= string[k]
        BY <1>1, <1>2, <1>3, <2>1
      <4>2. CASE ~c
        BY <4>1, <4>2, <1>1, <1>2, <2>1
      <4>3. CASE p + 1 >= n - 1
        BY <4>1, <4>3, <1>1
      <4> QED
        BY <2>3, <4>2, <4>3, <1>1
    <3> QED
      BY <1>0, <1>1, <1>2, <2>1, <3>1, <3>2 DEF SortKept
  <2> QED
    BY <2>2, <2>3
<1> QED
  BY <1>0, <1>4, <1>5, <1>6 DEF SorterStep

-----------------------------------------------------------------------------
(* TextTools: strtok.                                                      *)

Letters == Chars \cup {NUL}

LEMMA LeastIs == ASSUME NEW S, S \subseteq Nat, NEW m \in S, \A y \in S : m <= y PROVE Min(S) = m
<1>1. Min(S) \in S /\ \A y \in S : Min(S) <= y
  BY DEF Min
<1>2. Min(S) <= m /\ m <= Min(S) /\ m \in Nat /\ Min(S) \in Nat
  BY <1>1
<1> QED
  BY <1>2

LEMMA LeastIn == ASSUME NEW S, S \subseteq Nat, S # {} PROVE Min(S) \in S /\ \A y \in S : Min(S) <= y
<1>1. \E m \in S : \A y \in S : m <= y
  BY LowestSlot
<1> QED
  BY <1>1 DEF Min

\* The string from here to the NUL at e.
Unread(s, here, e) ==
    /\ s \in Seq(Letters) /\ e \in 1..Len(s) /\ here \in 1..e
    /\ s[e] = NUL /\ \A i \in here..(e - 1) : s[i] # NUL

\* The token from b to before x, if there is one before e, which b is if there is not.
Token(s, here, e, D, b, x) ==
    /\ b \in here..e /\ \A i \in here..(b - 1) : s[i] \in D
    /\ b < e => /\ x \in (b + 1)..e /\ s[b] \notin D /\ \A i \in b..(x - 1) : s[i] \notin D
                /\ x < e => s[x] \in D

\* Where strtok goes on.
Beyond(b, x, e) == IF b = e \/ x = e THEN e ELSE x + 1

LEMMA StrtokFinds ==
    ASSUME NEW here, NEW e, NEW D, Unread(string, here, e), NUL \notin D
    PROVE  \E b, x : /\ Token(string, here, e, D, b, x)
                     /\ Strtok(here, D) = IF b = e THEN [token |-> 0, next |-> e, string |-> string]
                                          ELSE [token |-> b, next |-> Beyond(b, x, e), string |-> [string EXCEPT ![x] = NUL]]
<1> DEFINE n == Len(string)
           S == {i \in here..n : string[i] \notin D}
<1>1. /\ n \in Nat /\ e \in 1..n /\ here \in 1..e /\ here \in Nat /\ e \in Nat
      /\ string[e] = NUL /\ \A i \in here..(e - 1) : string[i] # NUL
  BY DEF Unread
<1>2. S \subseteq Nat /\ e \in S
  BY <1>1
<1>3. PICK b : b = Min(S)
  OBVIOUS
<1>4. b \in S /\ \A y \in S : b <= y
  <2> HIDE DEF S
  <2> QED
    BY <1>2, <1>3, LeastIn
<1>5. /\ b \in here..e /\ b \in Nat /\ string[b] \notin D
      /\ \A i \in here..(b - 1) : string[i] \in D
      /\ string[b] = NUL <=> b = e
  BY <1>1, <1>2, <1>4
<1>6. CASE b = e
  <2>1. Strtok(here, D) = [token |-> 0, next |-> e, string |-> string]
    BY <1>1, <1>3, <1>6 DEF Strtok
  <2>2. Token(string, here, e, D, b, e)
    BY <1>5, <1>6 DEF Token
  <2> QED
    BY <1>6, <2>1, <2>2
<1>7. CASE b # e
  <2> DEFINE T == {i \in b..n : string[i] \in D \cup {NUL}}
  <2>1. T \subseteq Nat /\ e \in T
    BY <1>1, <1>5
  <2>2. PICK x : x = Min(T)
    OBVIOUS
  <2>3. x \in T /\ \A y \in T : x <= y
    <3> HIDE DEF T
    <3> QED
      BY <2>1, <2>2, LeastIn
  <2>4. /\ x \in (b + 1)..e /\ x \in Nat /\ \A i \in b..(x - 1) : string[i] \notin D
        /\ string[x] = NUL <=> x = e
        /\ x < e => string[x] \in D
    BY <1>1, <1>5, <1>7, <2>1, <2>3
  <2>5. x = FirstOf(string, b, D \cup {NUL})
    BY <2>2 DEF FirstOf
  <2>6. string[b] # NUL
    BY <1>5, <1>7
  <2>7. Strtok(here, D) = [token |-> b, next |-> IF string[x] = NUL THEN x ELSE x + 1, string |-> [string EXCEPT ![x] = NUL]]
    BY <1>3, <2>5, <2>6 DEF Strtok
  <2>8. (IF string[x] = NUL THEN x ELSE x + 1) = Beyond(b, x, e)
    BY <1>7, <2>4 DEF Beyond
  <2>9. Token(string, here, e, D, b, x)
    BY <1>5, <2>4 DEF Token
  <2> QED
    BY <1>7, <2>7, <2>8, <2>9
<1> QED
  BY <1>6, <1>7

Below(S, k) == {w \in S : w < k}

\* What is unread from here to e of the text t begins where a token may begin.
Reading(t, here, e, D) ==
    /\ t \in Seq(Chars) /\ e \in 1..(Len(t) + 1) /\ here \in 1..e
    /\ here = 1 \/ here = e \/ t[here - 1] \in D

\* The token found is the next one that starts in t.
LEMMA NextStart ==
    ASSUME NEW t, NEW D, NEW here, NEW e, NEW b, NEW x, NEW C, Reading(t, here, e, D), Token(t, here, e, C, b, x),
           \A i \in here..(e - 1) : t[i] \in C <=> t[i] \in D
    PROVE  /\ b = e => Below(Starts(t, D), e) = Below(Starts(t, D), here)
           /\ b # e => /\ b \in Starts(t, D) /\ b >= here /\ b < Beyond(b, x, e) /\ Beyond(b, x, e) \in here..e
                       /\ Below(Starts(t, D), Beyond(b, x, e)) = Below(Starts(t, D), here) \cup {b}
                       /\ Reading(t, Beyond(b, x, e), e, D)
<1> DEFINE n == Len(t)
<1>1. /\ n \in Nat /\ e \in 1..(n + 1) /\ here \in 1..e /\ here \in Nat /\ e \in Nat
      /\ here = 1 \/ here = e \/ t[here - 1] \in D
  BY DEF Reading
<1>2. b \in here..e /\ b \in Nat /\ \A i \in here..(b - 1) : t[i] \in D
  BY <1>1 DEF Token
<1>3. Starts(t, D) = {i \in 1..n : t[i] \notin D /\ (i = 1 \/ t[i - 1] \in D)}
  BY DEF Starts
<1>4. CASE b = e
  BY <1>1, <1>2, <1>3, <1>4 DEF Below
<1>5. CASE b # e
  <2>1. /\ b < e /\ x \in (b + 1)..e /\ x \in Nat /\ t[b] \notin D /\ \A i \in b..(x - 1) : t[i] \notin D
        /\ x < e => t[x] \in D
    BY <1>1, <1>2, <1>5 DEF Token
  <2>2. PICK a : a = Beyond(b, x, e)
    OBVIOUS
  <2>3. a = IF x = e THEN e ELSE x + 1
    BY <1>5, <2>2 DEF Beyond
  <2>4. b \in Starts(t, D)
    <3>1. b \in 1..n
      BY <1>1, <1>2, <2>1
    <3>2. b = here \/ t[b - 1] \in D
      BY <1>1, <1>2
    <3>3. b = here => b = 1 \/ t[b - 1] \in D
      BY <1>1, <2>1
    <3> QED
      BY <1>3, <2>1, <3>1, <3>2, <3>3
  <2>5. a \in here..e /\ b < a
    BY <1>1, <1>2, <2>1, <2>3
  <2>6. ASSUME NEW w \in Starts(t, D), w < a, w >= here PROVE w = b
    <3>1. w \in 1..n /\ t[w] \notin D /\ (w = 1 \/ t[w - 1] \in D)
      BY <1>3, <2>6
    <3>2. ~(w < b)
      BY <1>1, <1>2, <2>6, <3>1
    <3>3. ~(w > b)
      <4> SUFFICES ASSUME w > b PROVE FALSE
        OBVIOUS
      <4>1. w - 1 \in b..(x - 1) \/ w = x + 1
        BY <1>1, <1>2, <2>1, <2>3, <2>6, <3>1
      <4>2. CASE w - 1 \in b..(x - 1)
        BY <4>2, <2>1, <3>1, <1>1, <1>2
      <4>3. CASE w = x + 1
        BY <4>3, <2>3, <2>6, <2>1, <1>1
      <4> QED
        BY <4>1, <4>2, <4>3
    <3> QED
      BY <3>1, <3>2, <3>3, <1>1, <1>2
  <2>7. Below(Starts(t, D), a) = Below(Starts(t, D), here) \cup {b}
    <3>1. \A w \in Starts(t, D) : w \in Nat
      BY <1>3
    <3>2. \A w \in Starts(t, D) : w < here => w < a
      BY <1>1, <2>5, <3>1
    <3>3. \A w \in Starts(t, D) : w < a => w < here \/ w = b
      BY <2>6, <3>1, <1>1
    <3> QED
      BY <2>4, <2>5, <3>2, <3>3 DEF Below
  <2>8. Reading(t, a, e, D)
    <3>1. a = e \/ t[a - 1] \in D
      BY <2>1, <2>3, <1>1
    <3> QED
      BY <1>1, <2>5, <3>1 DEF Reading
  <2> QED
    BY <1>5, <2>2, <2>4, <2>5, <2>7, <2>8, <1>2
<1> QED
  BY <1>4, <1>5

\* One start more is counted: before a are those before here, and b.
OneStart(t, D, here, a, b) ==
    t \in Seq(Chars) /\ here \in Nat /\ b \in Nat /\ b >= here /\ Below(Starts(t, D), a) = Below(Starts(t, D), here) \cup {b}

LEMMA OneMore ==
    ASSUME NEW t, NEW D, NEW here, NEW a, NEW b, OneStart(t, D, here, a, b)
    PROVE  /\ Cardinality(Below(Starts(t, D), here)) \in Nat
           /\ Cardinality(Below(Starts(t, D), a)) = Cardinality(Below(Starts(t, D), here)) + 1
<1> USE DEF OneStart
<1>1. PICK S, R : S = Below(Starts(t, D), here) /\ R = Below(Starts(t, D), a)
  OBVIOUS
<1>2. IsFiniteSet(S)
  <2>1. S \subseteq 1..Len(t)
    BY <1>1 DEF Below, Starts
  <2>2. IsFiniteSet(1..Len(t))
    BY UpToFinite
  <2> QED
    BY <2>1, <2>2, FS_Subset
<1>3. b \notin S
  BY <1>1 DEF Below
<1>4. Cardinality(S \cup {b}) = Cardinality(S) + 1 /\ Cardinality(S) \in Nat
  BY <1>2, <1>3, FS_AddElement, FS_CardinalityType
<1> QED
  BY <1>1, <1>4

-----------------------------------------------------------------------------
(* TextTools: makeargv.                                                    *)

\* A token ends where a delimiter of the text was, or its end, and is a NUL now.
Stands(s, t, a) ==
    \E x \in (a + 1)..(Len(t) + 1) :
        /\ s[x] = NUL /\ (x = Len(t) + 1 \/ t[x] \in Delimiters)
        /\ \A i \in a..(x - 1) : s[i] = t[i] /\ t[i] \notin Delimiters

\* StartsCounted or inserted are the tokens that start before the place of strtok; those
\* that are inserted stand, and the rest of the string is untouched.
TokensKept(t, here) ==
    LET e == Len(t) + 1  S == Starts(t, Delimiters) IN
    /\ Reading(t, here, e, Delimiters)
    /\ string \in Seq(Letters) /\ Len(string) = e /\ string[e] = NUL
    /\ \A i \in here..Len(t) : string[i] = t[i]
    /\ tpc = "count" => argv = << >> /\ counts.tokens = Cardinality(Below(S, here))
    /\ tpc = "allocate" => argv = << >> /\ Below(S, here) = S
    /\ tpc # "count" => counts.tokens = Cardinality(S)
    /\ tpc = "insert" => Len(argv) < counts.tokens
    /\ tpc \in {"insert", "made", "freed"} =>
           /\ {argv[k] : k \in DOMAIN argv} = Below(S, here) /\ Len(argv) = Cardinality(Below(S, here))
           /\ \A k \in DOMAIN argv : /\ Stands(string, t, argv[k])
                                     /\ \A m \in DOMAIN argv : m < k => argv[m] < argv[k]
    /\ tpc \in {"made", "freed"} => Below(S, here) = S

SplitKept ==
    Splitter =>
    /\ argv \in Seq(Nat) /\ counts \in [tokens : Nat]
    /\ place = [static |-> place.static, line |-> place.line, word |-> place.word]
    /\ tpc = "makeargv" => place.static = 1 /\ argv = << >> /\ counts.tokens = 0
    /\ tpc \in {"count", "allocate", "insert", "made", "freed"} =>
           source # Unset /\ TokensKept(RealStart(source), place.static)

\* What RealStart leaves, t, starts with a token, if it leaves anything.
Skipped(s, t, sk) ==
    /\ t \in Seq(Chars) /\ sk = Len(s) - Len(t) /\ Len(t) <= Len(s)
    /\ \A i \in 1..Len(t) : t[i] = s[i + sk]
    /\ \A i \in 1..sk : s[i] \in Delimiters
    /\ Len(t) > 0 => t[1] \notin Delimiters
    /\ {w + sk : w \in Starts(t, Delimiters)} = Starts(s, Delimiters)

LEMMA RealStartIs ==
    ASSUME NEW s \in Seq(Chars)
    PROVE  Skipped(s, RealStart(s), Len(s) - Len(RealStart(s)))
<1> DEFINE n == Len(s)
           S == {i \in 1..(n + 1) : i > n \/ s[i] \notin Delimiters}
<1>1. n \in Nat /\ S \subseteq Nat /\ n + 1 \in S
  OBVIOUS
<1>2. PICK m : m = Min(S)
  OBVIOUS
<1>3. m \in S /\ \A y \in S : m <= y
  <2> HIDE DEF S
  <2> QED
    BY <1>1, <1>2, LeastIn
<1>4. m \in 1..(n + 1) /\ m \in Nat /\ (m <= n => s[m] \notin Delimiters) /\ \A i \in 1..(m - 1) : s[i] \in Delimiters
  BY <1>1, <1>3
<1>5. PICK t : t = SubSeq(s, m, n)
  OBVIOUS
<1>6. RealStart(s) = t
  BY <1>2, <1>5 DEF RealStart
<1>7. t \in Seq(Chars) /\ Len(t) = n + 1 - m /\ \A i \in 1..Len(t) : t[i] = s[i + (m - 1)]
  <2>1. t = [i \in 1..(n + 1 - m) |-> s[i + (m - 1)]]
    BY <1>1, <1>4, <1>5
  <2>2. n + 1 - m \in Nat /\ \A i \in 1..(n + 1 - m) : i + (m - 1) \in 1..n
    BY <1>1, <1>4
  <2>3. \A i \in 1..n : s[i] \in Chars
    BY <1>1
  <2> QED
    BY <2>1, <2>2, <2>3
<1>8. n - Len(t) = m - 1 /\ Len(t) \in Nat
  BY <1>1, <1>4, <1>7
<1>9. Len(t) > 0 => t[1] \notin Delimiters
  <2> SUFFICES ASSUME Len(t) > 0 PROVE t[1] \notin Delimiters
    OBVIOUS
  <2>1. m <= n /\ 1 \in 1..Len(t) /\ 1 + (m - 1) = m
    BY <1>1, <1>4, <1>7, <1>8
  <2>2. t[1] = s[1 + (m - 1)]
    BY <2>1, <1>7
  <2> QED
    BY <2>1, <2>2, <1>4
<1>10. {w + (m - 1) : w \in Starts(t, Delimiters)} = Starts(s, Delimiters)
  <2>1. ASSUME NEW w \in Starts(t, Delimiters) PROVE w + (m - 1) \in Starts(s, Delimiters)
    <3>1. w \in 1..Len(t) /\ t[w] \notin Delimiters /\ (w = 1 \/ t[w - 1] \in Delimiters)
      BY DEF Starts
    <3>2. PICK k \in Nat : k = w + (m - 1)
      BY <3>1, <1>4
    <3>3. k \in 1..n /\ s[k] \notin Delimiters
      BY <1>1, <1>4, <1>7, <3>1, <3>2
    <3>4. k = 1 \/ s[k - 1] \in Delimiters
      <4>1. CASE w = 1
        <5>1. k = m
          BY <4>1, <1>4, <3>2
        <5>2. m = 1 \/ m - 1 \in 1..(m - 1)
          BY <1>4
        <5> QED
          BY <5>1, <5>2, <1>4
      <4>2. CASE w # 1
        <5>1. w - 1 \in 1..Len(t) /\ (w - 1) + (m - 1) = k - 1
          BY <3>1, <3>2, <4>2, <1>4
        <5>2. t[w - 1] = s[k - 1]
          BY <5>1, <1>7
        <5> QED
          BY <5>2, <3>1, <4>2
      <4> QED
        BY <4>1, <4>2
    <3> QED
      BY <3>2, <3>3, <3>4 DEF Starts
  <2>2. ASSUME NEW v \in Starts(s, Delimiters) PROVE \E w \in Starts(t, Delimiters) : v = w + (m - 1)
    <3>1. v \in 1..n /\ s[v] \notin Delimiters /\ (v = 1 \/ s[v - 1] \in Delimiters)
      BY DEF Starts
    <3>2. v >= m
      BY <1>1, <1>4, <3>1
    <3>3. PICK w \in Nat : w = v - (m - 1)
      BY <1>4, <3>1, <3>2
    <3>4. w \in 1..Len(t) /\ v = w + (m - 1) /\ t[w] = s[v]
      BY <1>1, <1>4, <1>7, <3>1, <3>2, <3>3
    <3>5. w = 1 \/ t[w - 1] \in Delimiters
      <4>1. CASE w # 1
        <5>1. w - 1 \in 1..Len(t) /\ (w - 1) + (m - 1) = v - 1 /\ v # 1
          BY <3>1, <3>3, <3>4, <4>1, <1>4
        <5> QED
          BY <5>1, <3>1, <1>7
      <4> QED
        BY <4>1
    <3> QED
      BY <3>1, <3>4, <3>5 DEF Starts
  <2> QED
    BY <2>1, <2>2
<1>11. \A i \in 1..(m - 1) : s[i] \in Delimiters
  BY <1>4
<1>12. Len(t) <= n
  BY <1>1, <1>4, <1>7
<1>13. Skipped(s, t, m - 1)
  BY <1>7, <1>8, <1>9, <1>10, <1>11, <1>12 DEF Skipped
<1> QED
  BY <1>6, <1>8, <1>13

\* A delimiter ends the string nowhere.
LEMMA SourceIs == TextTypes /\ (Splitter \/ Averager) /\ source # Unset => source \in Seq(Chars)
<1> SUFFICES ASSUME TextTypes, Splitter \/ Averager, source # Unset PROVE source \in Seq(Chars)
  OBVIOUS
<1>1. source \in BoundedSeq(Chars, MaxText)
  BY DEF TextTypes, Sources, Splitter, Averager, Keeper
<1>2. PICK m \in 0..MaxText : source \in [1..m -> Chars]
  BY <1>1 DEF BoundedSeq, SeqOf
<1>3. m \in Nat
  BY <1>2, TextAssumption
<1> QED
  BY <1>2, <1>3

\* A copy of the text, as it is after RealStart and its NUL.
LEMMA FreshTokens ==
    ASSUME NEW t \in Seq(Chars)
    PROVE  /\ Append(t, NUL) \in Seq(Letters) /\ Len(Append(t, NUL)) = Len(t) + 1 /\ Append(t, NUL)[Len(t) + 1] = NUL
           /\ \A i \in 1..Len(t) : Append(t, NUL)[i] = t[i]
           /\ Reading(t, 1, Len(t) + 1, Delimiters)
           /\ Below(Starts(t, Delimiters), 1) = {}
<1>1. Len(t) \in Nat /\ \A i \in 1..Len(t) : t[i] \in Letters
  BY DEF Letters
<1>2. t \in Seq(Letters) /\ NUL \in Letters
  BY <1>1 DEF Letters
<1>3. Reading(t, 1, Len(t) + 1, Delimiters)
  BY <1>1 DEF Reading
<1>4. Below(Starts(t, Delimiters), 1) = {}
  BY DEF Below, Starts
<1> QED
  BY <1>1, <1>2, <1>3, <1>4

LEMMA StartsFinite == ASSUME NEW t \in Seq(Chars), NEW D, NEW S, S \subseteq Starts(t, D)
                      PROVE  IsFiniteSet(S) /\ Cardinality(S) \in Nat
<1>1. S \subseteq 1..Len(t)
  BY DEF Starts
<1>2. IsFiniteSet(1..Len(t))
  BY UpToFinite
<1> QED
  BY <1>1, <1>2, FS_Subset, FS_CardinalityType

\* One call of strtok by makeargv.
NoToken(t, here) ==
    /\ string' = string /\ place'.static = Len(t) + 1
    /\ Below(Starts(t, Delimiters), here) = Starts(t, Delimiters)
    /\ Below(Starts(t, Delimiters), Len(t) + 1) = Starts(t, Delimiters)
    /\ Reading(t, Len(t) + 1, Len(t) + 1, Delimiters)

NewToken(t, here, b) ==
    /\ string' \in Seq(Letters) /\ Len(string') = Len(t) + 1 /\ string'[Len(t) + 1] = NUL
    /\ \A i \in place'.static..Len(t) : string'[i] = t[i]
    /\ Reading(t, place'.static, Len(t) + 1, Delimiters)
    /\ b \in Nat /\ b >= here /\ b \in Starts(t, Delimiters)
    /\ Below(Starts(t, Delimiters), place'.static) = Below(Starts(t, Delimiters), here) \cup {b}
    /\ Cardinality(Below(Starts(t, Delimiters), here)) \in Nat
    /\ Cardinality(Below(Starts(t, Delimiters), place'.static)) = Cardinality(Below(Starts(t, Delimiters), here)) + 1
    /\ Stands(string', t, b)
    /\ \A a \in Nat : Stands(string, t, a) => Stands(string', t, a)

LEMMA MakeargvToken ==
    ASSUME NEW t \in Seq(Chars), NEW here, TokensKept(t, here),
           place = [static |-> here, line |-> place.line, word |-> place.word],
           Take("static", Strtok(here, Delimiters))
    PROVE  /\ place' = [static |-> place'.static, line |-> place'.line, word |-> place'.word]
           /\ \/ Strtok(here, Delimiters).token = 0 /\ NoToken(t, here)
              \/ \E b : b # 0 /\ Strtok(here, Delimiters).token = b /\ NewToken(t, here, b)
<1> DEFINE e == Len(t) + 1
           n == Len(t)
<1>0. n \in Nat /\ e \in Nat /\ \A i \in 1..n : t[i] \in Chars /\ t[i] # NUL
  <2>1. n \in Nat /\ \A i \in 1..n : t[i] \in Chars
    OBVIOUS
  <2>2. NUL \notin Chars
    BY DEF Chars, NUL
  <2> QED
    BY <2>1, <2>2
<1>1. /\ n \in Nat /\ e \in Nat /\ \A i \in 1..n : t[i] \in Chars /\ t[i] # NUL
      /\ Reading(t, here, e, Delimiters) /\ here \in 1..e /\ here \in Nat
      /\ string \in Seq(Letters) /\ Len(string) = e /\ string[e] = NUL
      /\ \A i \in here..n : string[i] = t[i]
  BY <1>0 DEF TokensKept, Reading
<1>2. Unread(string, here, e)
  BY <1>1 DEF Unread
<1>3. NUL \notin Delimiters
  BY DEF NUL, Delimiters
<1>4. PICK r : r = Strtok(here, Delimiters)
  OBVIOUS
<1>5. PICK b, x : /\ Token(string, here, e, Delimiters, b, x)
                  /\ r = IF b = e THEN [token |-> 0, next |-> e, string |-> string]
                         ELSE [token |-> b, next |-> Beyond(b, x, e), string |-> [string EXCEPT ![x] = NUL]]
  BY <1>2, <1>3, <1>4, StrtokFinds
<1>6. string' = r.string /\ place' = [place EXCEPT !["static"] = r.next]
  BY <1>4 DEF Take
<1>7. place' = [static |-> r.next, line |-> place.line, word |-> place.word]
  BY <1>6
<1>8. \A i \in here..(e - 1) : string[i] \in Delimiters <=> t[i] \in Delimiters
  BY <1>1
<1>9. /\ b = e => Below(Starts(t, Delimiters), e) = Below(Starts(t, Delimiters), here)
      /\ b # e => /\ b \in Starts(t, Delimiters) /\ b >= here /\ b < Beyond(b, x, e) /\ Beyond(b, x, e) \in here..e
                  /\ Below(Starts(t, Delimiters), Beyond(b, x, e)) = Below(Starts(t, Delimiters), here) \cup {b}
                  /\ Reading(t, Beyond(b, x, e), e, Delimiters)
  <2>1. Token(t, here, e, Delimiters, b, x)
    <3>1. b \in here..e /\ b \in Nat /\ \A i \in here..(b - 1) : string[i] \in Delimiters
      BY <1>1, <1>5 DEF Token
    <3>2. \A i \in here..(b - 1) : t[i] \in Delimiters
      BY <1>1, <1>8, <3>1
    <3>3. ASSUME b < e
          PROVE  /\ x \in (b + 1)..e /\ t[b] \notin Delimiters /\ \A i \in b..(x - 1) : t[i] \notin Delimiters
                 /\ x < e => t[x] \in Delimiters
      <4>1. /\ x \in (b + 1)..e /\ string[b] \notin Delimiters /\ \A i \in b..(x - 1) : string[i] \notin Delimiters
            /\ x < e => string[x] \in Delimiters
        BY <1>5, <3>3 DEF Token
      <4>2. x \in Nat /\ b \in here..(e - 1) /\ \A i \in b..(x - 1) : i \in here..(e - 1)
        BY <1>1, <3>1, <3>3, <4>1
      <4>3. x < e => x \in here..(e - 1)
        BY <1>1, <3>1, <4>1
      <4> QED
        BY <1>8, <4>1, <4>2, <4>3
    <3> QED
      BY <3>1, <3>2, <3>3 DEF Token
  <2> QED
    BY <1>1, <2>1, NextStart
<1>10. CASE b = e
  <2>1. r.token = 0 /\ string' = string /\ place'.static = e
    BY <1>5, <1>6, <1>7, <1>10
  <2>2. Below(Starts(t, Delimiters), e) = Starts(t, Delimiters)
    BY <1>1 DEF Below, Starts
  <2>3. Reading(t, e, e, Delimiters)
    BY <1>1 DEF Reading
  <2> QED
    BY <1>4, <1>7, <1>9, <1>10, <2>1, <2>2, <2>3 DEF NoToken
<1>11. CASE b # e
  <2>1. r.token = b /\ place'.static = Beyond(b, x, e) /\ string' = [string EXCEPT ![x] = NUL]
    BY <1>5, <1>6, <1>7, <1>11
  <2>2. /\ b \in here..e /\ b \in Nat /\ b # 0 /\ b < e /\ x \in (b + 1)..e /\ x \in Nat
        /\ string[b] \notin Delimiters /\ \A i \in b..(x - 1) : string[i] \notin Delimiters
        /\ x < e => string[x] \in Delimiters
    BY <1>1, <1>5, <1>11 DEF Token
  <2>3. PICK u, a : u = string' /\ a = place'.static
    OBVIOUS
  <2>4. /\ u \in Seq(Letters) /\ Len(u) = e /\ u[e] = NUL /\ u[x] = NUL
        /\ \A i \in 1..e : i # x => u[i] = string[i]
    BY <1>1, <2>1, <2>2, <2>3 DEF Letters
  <2>5. \A i \in a..n : u[i] = t[i]
    BY <1>1, <1>11, <2>1, <2>2, <2>3, <2>4 DEF Beyond
  <2>6. /\ Cardinality(Below(Starts(t, Delimiters), here)) \in Nat
        /\ Cardinality(Below(Starts(t, Delimiters), a)) = Cardinality(Below(Starts(t, Delimiters), here)) + 1
    <3>1. OneStart(t, Delimiters, here, a, b)
      BY <1>1, <1>9, <1>11, <2>1, <2>2, <2>3 DEF OneStart
    <3> QED
      BY <3>1, OneMore
  <2>7. Stands(u, t, b)
    <3>1. x \in (b + 1)..(n + 1) /\ u[x] = NUL /\ (x = n + 1 \/ t[x] \in Delimiters)
      BY <1>1, <2>2, <2>4
    <3>2. \A i \in b..(x - 1) : u[i] = t[i] /\ t[i] \notin Delimiters
      BY <1>1, <2>2, <2>4
    <3> QED
      BY <3>1, <3>2 DEF Stands
  <2>8. ASSUME NEW k \in Nat, Stands(string, t, k) PROVE Stands(u, t, k)
    <3>1. PICK y \in (k + 1)..(n + 1) :
              /\ string[y] = NUL /\ (y = n + 1 \/ t[y] \in Delimiters)
              /\ \A i \in k..(y - 1) : string[i] = t[i] /\ t[i] \notin Delimiters
      BY <2>8 DEF Stands
    <3>2. \A i \in k..(y - 1) : i # x
      <4> SUFFICES ASSUME NEW i \in k..(y - 1), i = x PROVE FALSE
        OBVIOUS
      <4>1. string[x] = t[x] /\ t[x] \notin Delimiters
        BY <3>1
      <4>2. x < e
        BY <1>1, <2>2, <3>1
      <4> QED
        BY <2>2, <4>1, <4>2
    <3>3. u[y] = NUL
      BY <1>1, <2>4, <3>1
    <3>4. \A i \in k..(y - 1) : u[i] = t[i] /\ t[i] \notin Delimiters
      <4> SUFFICES ASSUME NEW i \in k..(y - 1) PROVE u[i] = t[i] /\ t[i] \notin Delimiters
        OBVIOUS
      <4>1. string[i] = t[i] /\ t[i] \notin Delimiters /\ i # x
        BY <3>1, <3>2
      <4>2. CASE i \in 1..e
        BY <4>1, <4>2, <2>4
      <4>3. CASE i = 0
        <5>1. 0 \notin DOMAIN string /\ 0 \notin DOMAIN t
          BY <1>1
        <5> QED
          BY <4>1, <4>3, <2>1, <2>3
      <4> QED
        BY <4>2, <4>3, <1>1, <3>1
    <3> QED
      BY <3>1, <3>3, <3>4 DEF Stands
  <2>9. NewToken(t, here, b)
    BY <1>9, <1>11, <2>1, <2>2, <2>3, <2>4, <2>5, <2>6, <2>7, <2>8 DEF NewToken
  <2> QED
    BY <1>4, <1>7, <2>1, <2>2, <2>9
<1> QED
  BY <1>10, <1>11

LEMMA HeapStep == TextTypes /\ SplitKept /\ HeapKept /\ TextNext => HeapKept'
<1> SUFFICES ASSUME TextTypes, SplitKept, HeapKept, TextNext, Splitter' PROVE HeapKept'
  BY DEF HeapKept
<1>0. Splitter /\ SplitterStep
  BY OwnSteps DEF Splitter, Averager, Keeper
<1> USE <1>0 DEF HeapKept
<1>1. CASE makeargv
  BY <1>1 DEF makeargv, Failed
<1>2. CASE CountToken
  BY <1>2 DEF CountToken
<1>3. CASE AllocateArray
  <2>1. tpc = "allocate" /\ argv = << >> /\ heap = {"t"}
    BY <1>3 DEF AllocateArray, SplitKept, TokensKept
  <2> QED
    BY <1>3, <2>1 DEF AllocateArray, Failed
<1>4. CASE InsertToken
  <2>1. tpc = "insert" /\ heap = {"t", "argv"} /\ heap' = heap /\ argv' # << >> /\ tpc' \in {"made", "insert"}
    <3>1. argv \in Seq(Nat) /\ argv' = Append(argv, Strtok(place.static, Delimiters).token)
      BY <1>4 DEF InsertToken, SplitKept
    <3>2. argv' # << >>
      BY <3>1
    <3> QED
      BY <1>4, <3>2 DEF InsertToken
  <2> QED
    BY <2>1
\* The first token starts where the copy starts, so that freemakeargv frees the copy.
<1>5. CASE freemakeargv
  <2>1. /\ tpc = "made" /\ source # Unset /\ TokensKept(RealStart(source), place.static) /\ argv \in Seq(Nat)
        /\ heap = IF argv = << >> THEN {"argv"} ELSE {"t", "argv"}
        /\ heap' = heap \ ({"argv"} \cup IF argv # << >> /\ Head(argv) = 1 THEN {"t"} ELSE {})
        /\ tpc' = "freed" /\ argv' = argv
    BY <1>5 DEF freemakeargv, SplitKept
  <2>2. source \in Seq(Chars)
    BY <2>1, SourceIs
  <2>3. PICK t : t = RealStart(source)
    OBVIOUS
  <2>4. t \in Seq(Chars) /\ (Len(t) > 0 => t[1] \notin Delimiters)
    BY <2>2, <2>3, RealStartIs DEF Skipped
  <2>5. ASSUME argv # << >> PROVE Head(argv) = 1
    <3>1. 1 \in DOMAIN argv /\ Head(argv) = argv[1] /\ argv[1] \in Nat
      BY <2>1, <2>5
    <3>2. /\ {argv[k] : k \in DOMAIN argv} = Starts(t, Delimiters)
          /\ \A k, m \in DOMAIN argv : m < k => argv[m] < argv[k]
      BY <2>1, <2>3 DEF TokensKept
    <3>3. argv[1] \in Starts(t, Delimiters)
      BY <3>1, <3>2
    <3>4. argv[1] \in 1..Len(t)
      BY <3>3 DEF Starts
    <3>5. 1 \in Starts(t, Delimiters)
      BY <2>4, <3>4 DEF Starts
    <3>6. PICK k \in DOMAIN argv : argv[k] = 1
      BY <3>2, <3>5
    <3>7. k \in Nat /\ k >= 1
      BY <2>1, <3>6
    <3>8. ~(1 < k)
      BY <3>1, <3>2, <3>4, <3>6
    <3> QED
      BY <3>1, <3>6, <3>7, <3>8
  <2> QED
    BY <2>1, <2>5
<1> QED
  BY <1>1, <1>2, <1>3, <1>4, <1>5 DEF SplitterStep

LEMMA SplitStep == TextTypes /\ SplitKept /\ TextNext => SplitKept'
<1> SUFFICES ASSUME TextTypes, SplitKept, TextNext, Splitter' PROVE SplitKept'
  BY DEF SplitKept
<1>0. Splitter /\ SplitterStep /\ source' = source /\ texttool' = texttool
  BY OwnSteps DEF Splitter, Averager, Keeper
<1>1. /\ argv \in Seq(Nat) /\ counts \in [tokens : Nat]
      /\ place = [static |-> place.static, line |-> place.line, word |-> place.word]
  BY <1>0 DEF SplitKept
<1>2. PICK t, here, c : t = RealStart(source) /\ here = place.static /\ c = counts.tokens
  OBVIOUS
<1>3. source # Unset => t \in Seq(Chars)
  BY <1>0, <1>2, SourceIs, RealStartIs DEF Skipped
<1>4. tpc \in {"count", "allocate", "insert", "made", "freed"} => source # Unset /\ t \in Seq(Chars) /\ TokensKept(t, here)
  BY <1>0, <1>2, <1>3 DEF SplitKept
<1>5. c \in Nat /\ counts = [tokens |-> c]
  BY <1>1, <1>2
<1> DEFINE S == Starts(t, Delimiters)
           e == Len(t) + 1
<1>6. CASE makeargv
  <2>1. CASE tpc' = "failed"
    BY <1>0, <1>1, <1>6, <2>1 DEF makeargv, Failed, SplitKept
  <2>2. CASE tpc' # "failed"
    <3>1. /\ source # Unset /\ string' = Append(t, NUL) /\ tpc' = "count"
          /\ place' = place /\ argv' = argv /\ counts' = counts /\ here = 1 /\ argv = << >> /\ c = 0
      BY <1>0, <1>2, <1>6, <2>2 DEF makeargv, Failed, SplitKept
    <3>2. /\ string' \in Seq(Letters) /\ Len(string') = e /\ string'[e] = NUL /\ \A i \in 1..Len(t) : string'[i] = t[i]
          /\ Reading(t, 1, e, Delimiters) /\ Below(S, 1) = {}
      BY <1>3, <3>1, FreshTokens
    <3>3. Cardinality(Below(S, 1)) = 0
      BY <3>2, FS_EmptySet
    <3>4. TokensKept(t, 1)'
      BY <3>1, <3>2, <3>3, <1>2 DEF TokensKept
    <3> QED
      BY <1>0, <1>1, <1>2, <3>1, <3>4 DEF SplitKept
  <2> QED
    BY <2>1, <2>2
<1>7. CASE CountToken
  <2>1. /\ tpc = "count" /\ argv' = argv /\ Take("static", Strtok(here, Delimiters))
        /\ IF Strtok(here, Delimiters).token = 0 THEN tpc' = "allocate" /\ counts' = counts
           ELSE counts' = [counts EXCEPT !.tokens = @ + 1] /\ tpc' = tpc
    BY <1>2, <1>7 DEF CountToken
  <2>2. t \in Seq(Chars) /\ TokensKept(t, here) /\ source # Unset
    BY <1>4, <2>1
  <2>3. PICK f : f = place'.static
    OBVIOUS
  <2>4. /\ place' = [static |-> f, line |-> place'.line, word |-> place'.word]
        /\ \/ Strtok(here, Delimiters).token = 0 /\ NoToken(t, here)
           \/ \E b : b # 0 /\ Strtok(here, Delimiters).token = b /\ NewToken(t, here, b)
    BY <1>1, <1>2, <2>1, <2>2, <2>3, MakeargvToken
  <2>5. /\ argv = << >> /\ c = Cardinality(Below(S, here)) /\ string \in Seq(Letters) /\ Len(string) = e /\ string[e] = NUL
        /\ Len(t) \in Nat
    BY <1>2, <2>1, <2>2 DEF TokensKept
  <2>6. CASE Strtok(here, Delimiters).token = 0 /\ NoToken(t, here)
    <3>1. string' = string /\ f = e /\ Below(S, here) = S /\ Below(S, e) = S /\ Reading(t, e, e, Delimiters)
      BY <2>3, <2>6 DEF NoToken
    <3>2. tpc' = "allocate" /\ counts' = counts
      BY <2>1, <2>6
    <3>3. TokensKept(t, f)'
      <4>1. /\ argv' = << >> /\ counts'.tokens = Cardinality(S) /\ tpc' = "allocate"
            /\ string' \in Seq(Letters) /\ Len(string') = e /\ string'[e] = NUL
        BY <1>2, <2>1, <2>5, <3>1, <3>2
      <4>2. \A i \in f..Len(t) : string'[i] = t[i]
        BY <2>5, <3>1
      <4>3. Reading(t, f, e, Delimiters) /\ Below(S, f) = S
        BY <3>1
      <4> QED
        BY <4>1, <4>2, <4>3 DEF TokensKept
    <3> QED
      BY <1>0, <1>1, <1>2, <2>1, <2>2, <2>3, <2>4, <3>2, <3>3 DEF SplitKept
  <2>7. ASSUME NEW b, b # 0, Strtok(here, Delimiters).token = b, NewToken(t, here, b) PROVE SplitKept'
    <3>1. tpc' = "count" /\ counts' = [tokens |-> c + 1]
      BY <1>5, <2>1, <2>7
    <3>2. counts'.tokens = c + 1 /\ counts' \in [tokens : Nat]
      BY <1>5, <3>1
    <3>3. TokensKept(t, f)'
      BY <2>1, <2>3, <2>5, <2>7, <3>1, <3>2 DEF TokensKept, NewToken
    <3> QED
      BY <1>0, <1>1, <1>2, <2>1, <2>2, <2>3, <2>4, <3>1, <3>2, <3>3 DEF SplitKept
  <2> QED
    BY <2>4, <2>6, <2>7
<1>8. CASE AllocateArray
  <2>1. tpc = "allocate" /\ argv' = argv /\ counts' = counts
    BY <1>8 DEF AllocateArray, Failed
  <2>2. t \in Seq(Chars) /\ TokensKept(t, here) /\ source # Unset
    BY <1>4, <2>1
  <2>3. argv = << >> /\ Below(S, here) = S /\ c = Cardinality(S)
    BY <1>2, <2>1, <2>2 DEF TokensKept
  <2>4. CASE tpc' = "failed"
    <3>1. place' = place
      BY <1>8, <2>4 DEF AllocateArray, Failed
    <3> QED
      BY <1>0, <1>1, <2>1, <2>4, <3>1 DEF SplitKept
  <2>5. CASE tpc' # "failed" /\ c = 0
    <3>1. tpc' = "made" /\ string' = string /\ place' = place
      BY <1>2, <1>8, <2>5 DEF AllocateArray, Failed
    <3>2. S = {}
      BY <2>2, <2>3, <2>5, StartsFinite, FS_EmptySet
    <3>3. TokensKept(t, here)'
      BY <1>2, <2>1, <2>2, <2>3, <2>5, <3>1, <3>2 DEF TokensKept
    <3> QED
      BY <1>0, <1>1, <1>2, <2>1, <2>2, <3>1, <3>3 DEF SplitKept
  <2>6. CASE tpc' # "failed" /\ c # 0
    <3>1. tpc' = "insert" /\ string' = Append(t, NUL) /\ place' = [place EXCEPT !.static = 1]
      BY <1>2, <1>8, <2>6 DEF AllocateArray, Failed
    <3>2. /\ string' \in Seq(Letters) /\ Len(string') = e /\ string'[e] = NUL /\ \A i \in 1..Len(t) : string'[i] = t[i]
          /\ Reading(t, 1, e, Delimiters) /\ Below(S, 1) = {}
      BY <2>2, <3>1, FreshTokens
    <3>3. Cardinality(Below(S, 1)) = 0
      BY <3>2, FS_EmptySet
    <3>4. place' = [static |-> 1, line |-> place.line, word |-> place.word]
      BY <1>1, <3>1
    <3>5. Len(argv') = 0 /\ argv' = << >> /\ {argv'[k] : k \in DOMAIN argv'} = {} /\ DOMAIN argv' = {}
      BY <2>1, <2>3
    <3>6. counts'.tokens = c /\ 0 < c
      BY <1>2, <1>5, <2>1, <2>6
    <3>7. TokensKept(t, 1)'
      BY <2>3, <3>1, <3>2, <3>3, <3>5, <3>6 DEF TokensKept
    <3>8. place'.static = 1 /\ place' = [static |-> place'.static, line |-> place'.line, word |-> place'.word]
      BY <3>4
    <3> QED
      BY <1>0, <1>1, <1>2, <2>1, <2>2, <3>1, <3>7, <3>8 DEF SplitKept
  <2> QED
    BY <2>4, <2>5, <2>6
<1>9. CASE InsertToken
  <2>1. /\ tpc = "insert" /\ counts' = counts /\ Take("static", Strtok(here, Delimiters))
        /\ argv' = Append(argv, Strtok(here, Delimiters).token)
        /\ tpc' = IF Len(argv') = c THEN "made" ELSE "insert"
    BY <1>2, <1>9 DEF InsertToken
  <2>2. t \in Seq(Chars) /\ TokensKept(t, here) /\ source # Unset
    BY <1>4, <2>1
  <2>3. PICK f : f = place'.static
    OBVIOUS
  <2>4. /\ place' = [static |-> f, line |-> place'.line, word |-> place'.word]
        /\ \/ Strtok(here, Delimiters).token = 0 /\ NoToken(t, here)
           \/ \E b : b # 0 /\ Strtok(here, Delimiters).token = b /\ NewToken(t, here, b)
    BY <1>1, <1>2, <2>1, <2>2, <2>3, MakeargvToken
  <2>5. PICK n, v, w : n = Len(argv) /\ v = argv /\ w = argv'
    OBVIOUS
  <2>6. /\ n \in Nat /\ n < c /\ c = Cardinality(S) /\ n = Cardinality(Below(S, here))
        /\ {v[k] : k \in 1..n} = Below(S, here)
        /\ \A k \in 1..n : Stands(string, t, v[k]) /\ v[k] \in Nat /\ \A m \in 1..n : m < k => v[m] < v[k]
    BY <1>1, <1>2, <2>1, <2>2, <2>5 DEF TokensKept
  <2>7. ~NoToken(t, here)
    BY <2>6 DEF NoToken
  <2>8. PICK b : b # 0 /\ Strtok(here, Delimiters).token = b /\ NewToken(t, here, b)
    BY <2>4, <2>7
  <2>9. b \in Nat /\ b >= here /\ Below(S, f) = Below(S, here) \cup {b} /\ Cardinality(Below(S, f)) = n + 1 /\ b \in S
    BY <2>3, <2>6, <2>8 DEF NewToken
  <2>10. /\ w \in Seq(Nat) /\ Len(w) = n + 1 /\ w[n + 1] = b /\ \A k \in 1..n : w[k] = v[k]
    BY <1>1, <2>1, <2>5, <2>8, <2>9
  <2>11. {w[k] : k \in 1..(n + 1)} = Below(S, f)
    <3>1. {w[k] : k \in 1..(n + 1)} = {w[k] : k \in 1..n} \cup {w[n + 1]}
      BY <2>6
    <3>2. {w[k] : k \in 1..n} = {v[k] : k \in 1..n}
      BY <2>10
    <3> QED
      BY <2>6, <2>9, <2>10, <3>1, <3>2
  <2>12. \A k \in 1..(n + 1) : Stands(string', t, w[k])
    <3>1. Stands(string', t, b) /\ \A a \in Nat : Stands(string, t, a) => Stands(string', t, a)
      BY <2>8 DEF NewToken
    <3>2. \A k \in 1..n : Stands(string', t, w[k])
      BY <2>6, <2>10, <3>1
    <3>3. \A k \in 1..(n + 1) : k \in 1..n \/ k = n + 1
      BY <2>6
    <3> QED
      BY <2>10, <3>1, <3>2, <3>3
  <2>13. \A k, m \in 1..(n + 1) : m < k => w[m] < w[k]
    <3>1. \A m \in 1..n : v[m] < b
      <4>1. \A m \in 1..n : v[m] \in Below(S, here)
        BY <2>6
      <4>2. here \in Nat
        BY <1>2, <2>2 DEF TokensKept, Reading
      <4> QED
        BY <2>6, <2>9, <4>1, <4>2 DEF Below
    <3> SUFFICES ASSUME NEW k \in 1..(n + 1), NEW m \in 1..(n + 1), m < k PROVE w[m] < w[k]
      OBVIOUS
    <3>2. m \in 1..n /\ (k \in 1..n \/ k = n + 1)
      BY <2>6
    <3>3. CASE k \in 1..n
      BY <2>6, <2>10, <3>2, <3>3
    <3>4. CASE k = n + 1
      BY <2>10, <3>1, <3>2, <3>4
    <3> QED
      BY <3>2, <3>3, <3>4
  <2>14. tpc' \in {"made", "insert"} /\ (tpc' = "insert" => n + 1 < c) /\ (tpc' = "made" => n + 1 = c)
    BY <1>5, <2>1, <2>5, <2>6, <2>10
  <2>15. tpc' = "made" => Below(S, f) = S
    <3>1. Below(S, f) \subseteq S
      BY DEF Below
    <3>2. IsFiniteSet(S)
      BY <2>2, StartsFinite
    <3> QED
      BY <2>6, <2>9, <2>14, <3>1, <3>2, FS_Subset
  <2>16. /\ Reading(t, f, e, Delimiters) /\ string' \in Seq(Letters) /\ Len(string') = e /\ string'[e] = NUL
         /\ \A i \in f..Len(t) : string'[i] = t[i]
    BY <2>3, <2>8 DEF NewToken
  <2>17. counts'.tokens = c /\ argv' = w /\ DOMAIN w = 1..(n + 1)
    BY <1>2, <2>1, <2>5, <2>10
  <2>18. TokensKept(t, f)'
    <3>1. tpc' # "count" => counts'.tokens = Cardinality(S)
      BY <2>6, <2>17
    <3>2. tpc' = "insert" => Len(argv') < counts'.tokens
      BY <2>10, <2>14, <2>17
    <3>3. {argv'[k] : k \in DOMAIN argv'} = Below(S, f) /\ Len(argv') = Cardinality(Below(S, f))
      BY <2>9, <2>10, <2>11, <2>17
    <3>4. \A k \in DOMAIN argv' : /\ Stands(string', t, argv'[k])
                                  /\ \A m \in DOMAIN argv' : m < k => argv'[m] < argv'[k]
      BY <2>12, <2>13, <2>17
    <3> QED
      BY <2>14, <2>15, <2>16, <3>1, <3>2, <3>3, <3>4 DEF TokensKept
  <2> QED
    BY <1>0, <1>1, <1>2, <2>1, <2>2, <2>3, <2>4, <2>5, <2>10, <2>14, <2>18 DEF SplitKept
<1>10. CASE freemakeargv
  <2>1. tpc = "made" /\ tpc' = "freed" /\ string' = string /\ place' = place /\ argv' = argv /\ counts' = counts
    BY <1>10 DEF freemakeargv
  <2>2. TokensKept(t, here)'
    BY <1>2, <1>4, <2>1 DEF TokensKept
  <2> QED
    BY <1>0, <1>1, <1>2, <1>4, <2>1, <2>2 DEF SplitKept
<1> QED
  BY <1>0, <1>6, <1>7, <1>8, <1>9, <1>10 DEF SplitterStep

\* Where a token ends.
LEMMA TokenAtIs ==
    ASSUME NEW s \in Seq(Letters), NEW D, NEW a \in Nat \ {0}, NEW x \in (a + 1)..(Len(s) + 1),
           x = Len(s) + 1 \/ s[x] \in D \cup {NUL}, \A i \in a..(x - 1) : s[i] \notin D \cup {NUL}
    PROVE  FirstOf(Append(s, NUL), a, D \cup {NUL}) = x /\ TokenAt(s, a, D) = SubSeq(s, a, x - 1)
<1> DEFINE u == Append(s, NUL)
           T == {i \in a..Len(u) : u[i] \in D \cup {NUL}}
<1>1. Len(s) \in Nat /\ Len(u) = Len(s) + 1 /\ u[Len(s) + 1] = NUL /\ \A i \in 1..Len(s) : u[i] = s[i]
  <2>1. Len(s) \in Nat /\ s \in Seq(Letters \cup {NUL}) /\ NUL \in Letters
    BY DEF Letters
  <2> QED
    BY <2>1
<1>2. x \in Nat /\ x \in T
  BY <1>1
<1>3. \A y \in T : x <= y
  BY <1>1, <1>2
<1>4. T \subseteq Nat
  BY <1>1
<1>5. Min(T) = x
  <2> HIDE DEF T
  <2> QED
    BY <1>2, <1>3, <1>4, LeastIs
<1> QED
  BY <1>5 DEF FirstOf, TokenAt

\* What makeargv returns: where the tokens of its argument start, and what they are.
LEMMA SplitTold ==
    ASSUME TextTypes, SplitKept, Splitter, tpc \in {"made", "freed"}
    PROVE  LET skipped == Len(source) + 1 - Len(string) IN
           /\ {argv[k] + skipped : k \in DOMAIN argv} = Starts(source, Delimiters)
           /\ \A k \in DOMAIN argv :
                 /\ \A m \in DOMAIN argv : m < k => argv[m] < argv[k]
                 /\ TokenAt(string, argv[k], {NUL}) = TokenAt(source, argv[k] + skipped, Delimiters)
<1>1. PICK t : t = RealStart(source)
  OBVIOUS
<1>2. TokensKept(t, place.static) /\ source \in Seq(Chars) /\ argv \in Seq(Nat)
  BY <1>1, SourceIs DEF SplitKept
<1>3. PICK sk : sk = Len(source) - Len(t)
  OBVIOUS
<1>4. /\ t \in Seq(Chars) /\ Len(t) <= Len(source)
      /\ \A i \in 1..Len(t) : t[i] = source[i + sk]
      /\ {w + sk : w \in Starts(t, Delimiters)} = Starts(source, Delimiters)
  <2>1. Skipped(source, t, sk)
    BY <1>1, <1>2, <1>3, RealStartIs
  <2> QED
    BY <2>1 DEF Skipped
<1>5. /\ string \in Seq(Letters) /\ Len(string) = Len(t) + 1 /\ string[Len(t) + 1] = NUL
      /\ {argv[k] : k \in DOMAIN argv} = Starts(t, Delimiters)
      /\ \A k \in DOMAIN argv : /\ Stands(string, t, argv[k])
                                /\ \A m \in DOMAIN argv : m < k => argv[m] < argv[k]
  BY <1>2 DEF TokensKept
<1>6. sk \in Nat /\ Len(t) \in Nat /\ Len(source) \in Nat /\ Len(source) + 1 - Len(string) = sk
  BY <1>2, <1>3, <1>4, <1>5
<1>7. {argv[k] + sk : k \in DOMAIN argv} = Starts(source, Delimiters)
  BY <1>4, <1>5
<1>8. ASSUME NEW k \in DOMAIN argv PROVE TokenAt(string, argv[k], {NUL}) = TokenAt(source, argv[k] + sk, Delimiters)
  <2>1. PICK a \in Nat : a = argv[k]
    BY <1>2
  <2>2. a \in Starts(t, Delimiters)
    BY <1>5, <2>1
  <2>3. a \in 1..Len(t)
    BY <2>2 DEF Starts
  <2>4. PICK x \in (a + 1)..(Len(t) + 1) :
            /\ string[x] = NUL /\ (x = Len(t) + 1 \/ t[x] \in Delimiters)
            /\ \A i \in a..(x - 1) : string[i] = t[i] /\ t[i] \notin Delimiters
    BY <1>5, <2>1 DEF Stands
  <2>5. NUL \notin Chars /\ Chars \subseteq Letters
    BY DEF Chars, NUL, Letters
  <2>6. x \in Nat /\ \A i \in a..(x - 1) : i \in 1..Len(t)
    BY <1>6, <2>3, <2>4
  <2>7. \A i \in 1..Len(t) : t[i] \in Chars /\ t[i] # NUL
    BY <1>4, <2>5
  <2>8. TokenAt(string, a, {NUL}) = SubSeq(string, a, x - 1)
    <3>1. \A i \in a..(x - 1) : string[i] \notin {NUL} \cup {NUL}
      BY <2>4, <2>6, <2>7
    <3>2. a \in Nat \ {0} /\ x \in (a + 1)..(Len(string) + 1)
      BY <1>5, <1>6, <2>3, <2>4
    <3> QED
      BY <1>5, <2>4, <3>1, <3>2, TokenAtIs
  <2>9. PICK b, y : b = a + sk /\ y = x + sk
    OBVIOUS
  <2>10. b \in Nat \ {0} /\ y \in Nat /\ y \in (b + 1)..(Len(source) + 1)
    BY <1>3, <1>6, <2>3, <2>4, <2>9
  <2>11. source \in Seq(Letters)
    BY <1>2, <2>5
  <2>12. TokenAt(source, b, Delimiters) = SubSeq(source, b, y - 1)
    <3>1. y = Len(source) + 1 \/ source[y] \in Delimiters
      <4>1. x = Len(t) + 1 => y = Len(source) + 1
        BY <1>3, <1>6, <2>9
      <4>2. x # Len(t) + 1 => x \in 1..Len(t)
        BY <1>6, <2>3, <2>4
      <4> QED
        BY <1>4, <2>4, <2>9, <4>1, <4>2
    <3>2. \A i \in b..(y - 1) : source[i] \notin Delimiters \cup {NUL}
      <4> TAKE i \in b..(y - 1)
      <4>1. PICK j \in Nat : i = j + sk
        BY <1>6, <2>9, <2>10
      <4>2. j \in a..(x - 1) /\ j \in 1..Len(t)
        BY <1>6, <2>6, <2>9, <4>1
      <4> QED
        BY <1>4, <2>4, <2>7, <4>1, <4>2
    <3> QED
      BY <2>10, <2>11, <3>1, <3>2, TokenAtIs
  <2>13. SubSeq(string, a, x - 1) = SubSeq(source, b, y - 1)
    <3>1. SubSeq(string, a, x - 1) = [i \in 1..(x - a) |-> string[i + a - 1]]
      BY <2>3, <2>6
    <3>2. SubSeq(source, b, y - 1) = [i \in 1..(x - a) |-> source[i + b - 1]]
      BY <1>6, <2>6, <2>9, <2>10
    <3>3. \A i \in 1..(x - a) : string[i + a - 1] = source[i + b - 1]
      <4> TAKE i \in 1..(x - a)
      <4>1. PICK j \in Nat : j = i + a - 1
        BY <2>3, <2>6
      <4>2. j \in a..(x - 1) /\ j \in 1..Len(t) /\ i + b - 1 = j + sk
        BY <1>6, <2>3, <2>6, <2>9, <4>1
      <4>3. string[j] = source[j + sk]
        BY <1>4, <2>4, <4>2
      <4> QED
        BY <4>1, <4>2, <4>3
    <3> QED
      BY <3>1, <3>2, <3>3
  <2> QED
    BY <2>1, <2>8, <2>9, <2>12, <2>13
<1> QED
  BY <1>5, <1>6, <1>7, <1>8

-----------------------------------------------------------------------------
(* TextTools: wordaverage and wordcount.                                   *)

NewLine == {"\n"}
Lines == Starts(source, NewLine)
Words == Starts(source, Delimiters)
LastPlace == Len(source) + 1

\* The words of the line that ends at e are counted up to g.
InLine(e, g) ==
    /\ Reading(source, g, e, Delimiters)
    /\ string[e] = NUL /\ \A i \in g..(e - 1) : string[i] = source[i] /\ source[i] # "\n"
    /\ counts.words = Cardinality(Below(Words, g))

\* The first line, from l to before e.
FirstLine(l, e) ==
    /\ l \in Lines /\ e \in (l + 1)..LastPlace /\ (e = LastPlace \/ source[e] = "\n")
    /\ \A i \in 1..(l - 1) : source[i] = "\n"
    /\ \A i \in l..(e - 1) : source[i] # "\n"

FirstWords == {w \in Words : \E l \in Lines : w - l \in 0..(Len(TokenAt(source, l, NewLine)) - 1)
                                              /\ \A m \in Lines : l <= m}

\* Where wordcount goes on.
WordPlace == IF tpc = "firstword" THEN place.word ELSE place[PlaceOf("word")]

\* wordaverage: the lines that start before the place of the outer loop are counted, and
\* their words but for those that are still to be counted in the last.
LinesKept(f) ==
    /\ Reading(source, f, LastPlace, NewLine) /\ \A i \in f..Len(source) : string[i] = source[i]
    /\ counts.lines = Cardinality(Below(Lines, f))
    /\ tpc = "line" => counts.words = Cardinality(Below(Words, f))
    /\ tpc \in {"firstword", "word"} =>
           \E e \in 1..LastPlace : ((e = LastPlace /\ f = e) \/ (f = e + 1 /\ source[e] = "\n")) /\ InLine(e, WordPlace)
    /\ tpc = "averaged" => Below(Lines, f) = Lines /\ counts.words = Cardinality(Words)

\* wordaveragebad: wordcount leaves the place at the end of the first line.
FirstKept(f) ==
    /\ tpc = "line" =>
           \/ /\ counts.lines = 0 /\ counts.words = 0 /\ f = 1
              /\ \A i \in 1..Len(source) : string[i] = source[i]
           \/ /\ counts.lines = 1 /\ Lines # {} /\ counts.words = Cardinality(FirstWords)
              /\ f \in 1..LastPlace /\ string[f] = NUL
    /\ tpc \in {"firstword", "word"} =>
           counts.lines = 1 /\ \E l, e \in 1..LastPlace : FirstLine(l, e) /\ InLine(e, WordPlace)
    /\ tpc = "averaged" => /\ counts.lines = IF Lines = {} THEN 0 ELSE 1
                           /\ counts.words = Cardinality(FirstWords)

\* The text and the string that is read.
TextStands ==
    source \in Seq(Chars) /\ string \in Seq(Letters) /\ Len(string) = LastPlace /\ string[LastPlace] = NUL

AverKept ==
    Averager =>
    /\ counts \in [words : Nat, lines : Nat]
    /\ place = [static |-> place.static, line |-> place.line, word |-> place.word]
    /\ TextStands
    /\ texttool = "wordaverage" => LinesKept(place.line)
    /\ texttool = "wordaveragebad" => FirstKept(place.static)

\* The words of the first line.
LEMMA FirstWordsAre ==
    ASSUME source \in Seq(Chars), NEW l, NEW e, FirstLine(l, e)
    PROVE  FirstWords = Below(Words, e) /\ Lines # {}
<1>1. /\ Len(source) \in Nat /\ LastPlace = Len(source) + 1 /\ l \in Lines /\ l \in 1..Len(source) /\ l \in Nat
      /\ e \in (l + 1)..LastPlace /\ e \in Nat
  BY DEF FirstLine, Lines, Starts, LastPlace
<1>2. \A m \in Lines : l <= m
  <2> SUFFICES ASSUME NEW m \in Lines PROVE l <= m
    OBVIOUS
  <2>1. m \in 1..Len(source) /\ source[m] # "\n"
    BY DEF Lines, Starts, NewLine
  <2> QED
    BY <1>1, <2>1 DEF FirstLine
<1>3. Len(TokenAt(source, l, NewLine)) = e - l
  <2>1. source \in Seq(Letters) /\ \A i \in 1..Len(source) : source[i] # NUL
    <3>1. Chars \subseteq Letters /\ NUL \notin Chars
      BY DEF Letters, Chars, NUL
    <3> QED
      BY <3>1
  <2>2. \A i \in l..(e - 1) : source[i] \notin NewLine \cup {NUL}
    BY <1>1, <2>1 DEF FirstLine, NewLine
  <2>3. e = Len(source) + 1 \/ source[e] \in NewLine \cup {NUL}
    BY DEF FirstLine, NewLine, LastPlace
  <2>4. l \in Nat \ {0} /\ e \in (l + 1)..(Len(source) + 1)
    BY <1>1
  <2>5. TokenAt(source, l, NewLine) = SubSeq(source, l, e - 1)
    BY <2>1, <2>2, <2>3, <2>4, TokenAtIs
  <2>6. Len(SubSeq(source, l, e - 1)) = e - l
    BY <1>1
  <2> QED
    BY <2>5, <2>6
<1>4. \A w \in Words : w \in 1..Len(source) /\ source[w] # "\n"
  BY DEF Words, Starts, Delimiters
<1>5. \A w \in Words : w >= l
  BY <1>1, <1>4 DEF FirstLine
<1>6. ASSUME NEW w \in Words, w < e PROVE w \in FirstWords
  <2>1. w - l \in 0..(Len(TokenAt(source, l, NewLine)) - 1)
    BY <1>1, <1>3, <1>4, <1>5, <1>6
  <2> QED
    BY <1>1, <1>2, <2>1 DEF FirstWords
<1>7. ASSUME NEW w \in FirstWords PROVE w \in Words /\ w < e
  <2>1. w \in Words
    BY DEF FirstWords
  <2>2. PICK m \in Lines : w - m \in 0..(Len(TokenAt(source, m, NewLine)) - 1) /\ \A k \in Lines : m <= k
    BY DEF FirstWords
  <2>3. m \in Nat
    BY DEF Lines, Starts
  <2>4. m = l
    BY <1>1, <1>2, <2>2, <2>3
  <2> QED
    BY <1>1, <1>3, <1>4, <2>1, <2>2, <2>4
<1> QED
  BY <1>1, <1>6, <1>7 DEF Below

\* What a call of strtok or strtok_r in a line finds.
WordTold(e, g, r) ==
    \/ r.token = 0 /\ r.next = e /\ r.string = string /\ Below(Words, e) = Below(Words, g)
    \/ /\ r.token # 0 /\ r.string \in Seq(Letters) /\ Len(r.string) = LastPlace
       /\ \A i \in e..LastPlace : r.string[i] = string[i]
       /\ counts.words \in Nat /\ Cardinality(Below(Words, r.next)) = counts.words + 1
       /\ Reading(source, r.next, e, Delimiters)
       /\ \A i \in r.next..(e - 1) : r.string[i] = source[i] /\ source[i] # "\n"

LEMMA WordToken ==
    ASSUME NEW e, NEW g, TextStands, InLine(e, g)
    PROVE  WordTold(e, g, Strtok(g, {" "}))
<1>0. PICK n, D : n = Len(source) /\ D = {" "}
  OBVIOUS
<1>1. n \in Nat /\ e \in 1..(n + 1) /\ g \in 1..e /\ e \in Nat /\ g \in Nat /\ LastPlace = n + 1
  <2>0. source \in Seq(Chars)
    BY DEF TextStands
  <2>1. n \in Nat /\ LastPlace = n + 1
    <3>1. n \in Nat
      BY ONLY <1>0, <2>0, LenProperties
    <3> QED
      BY <1>0, <3>1 DEF LastPlace
  <2>2. e \in 1..(n + 1) /\ g \in 1..e
    BY <1>0 DEF InLine, Reading
  <2> QED
    BY <2>1, <2>2
<1>01. Reading(source, g, e, Delimiters) /\ source \in Seq(Chars) /\ string \in Seq(Letters) /\ Len(string) = n + 1
  BY <1>0 DEF InLine, TextStands, LastPlace
<1>2. string[e] = NUL /\ \A i \in g..(e - 1) : string[i] = source[i] /\ source[i] # "\n"
  BY DEF InLine
<1>3. counts.words = Cardinality(Below(Words, g))
  BY DEF InLine
<1>4. \A i \in 1..n : source[i] # NUL
  <2>1. NUL \notin Chars
    BY DEF NUL, Chars
  <2>2. \A i \in 1..Len(source) : source[i] \in Chars
    BY <1>01
  <2> QED
    BY <1>0, <2>1, <2>2
<1>5. Unread(string, g, e) /\ NUL \notin D
  <2>1. NUL \notin D
    BY <1>0 DEF NUL
  <2> QED
    BY <1>1, <1>01, <1>2, <1>4, <2>1 DEF Unread
<1>6. PICK r : r = Strtok(g, D)
  OBVIOUS
<1>7. PICK b, x : /\ Token(string, g, e, D, b, x)
                  /\ r = IF b = e THEN [token |-> 0, next |-> e, string |-> string]
                         ELSE [token |-> b, next |-> Beyond(b, x, e), string |-> [string EXCEPT ![x] = NUL]]
  BY <1>5, <1>6, StrtokFinds
<1>8. b \in g..e /\ b \in Nat /\ \A i \in g..(b - 1) : string[i] \in D
  BY <1>1, <1>7 DEF Token
<1>9. b < e => /\ x \in (b + 1)..e /\ x \in Nat /\ string[b] \notin D /\ \A i \in b..(x - 1) : string[i] \notin D
               /\ x < e => string[x] \in D
  BY <1>1, <1>7, <1>8 DEF Token
<1>10. Token(source, g, e, D, b, x)
  <2>1. \A i \in g..(b - 1) : source[i] \in D
    BY <1>1, <1>2, <1>8
  <2>2. ASSUME b < e
        PROVE  /\ source[b] \notin D /\ \A i \in b..(x - 1) : source[i] \notin D
               /\ x < e => source[x] \in D
    <3>1. b \in g..(e - 1) /\ \A i \in b..(x - 1) : i \in g..(e - 1)
      BY <1>1, <1>8, <1>9, <2>2
    <3>2. x < e => x \in g..(e - 1)
      BY <1>1, <1>8, <1>9, <2>2
    <3> QED
      BY <1>2, <1>9, <2>2, <3>1, <3>2
  <2> QED
    BY <1>8, <1>9, <2>1, <2>2 DEF Token
<1>11. \A i \in g..(e - 1) : source[i] \in D <=> source[i] \in Delimiters
  BY <1>0, <1>2 DEF Delimiters
<1>12. /\ b = e => Below(Words, e) = Below(Words, g)
       /\ b # e => /\ b \in Words /\ b >= g /\ b < Beyond(b, x, e) /\ Beyond(b, x, e) \in g..e
                   /\ Below(Words, Beyond(b, x, e)) = Below(Words, g) \cup {b}
                   /\ Reading(source, Beyond(b, x, e), e, Delimiters)
  BY <1>01, <1>10, <1>11, NextStart DEF Words
<1>13. CASE b = e
  <2>1. r.token = 0 /\ r.next = e /\ r.string = string
    BY <1>7, <1>13
  <2> QED
    BY <1>0, <1>6, <1>12, <1>13, <2>1 DEF WordTold
<1>14. CASE b # e
  <2>1. b # 0 /\ b < e
    BY <1>1, <1>8, <1>14
  <2>2. r.token = b /\ r.next = Beyond(b, x, e) /\ r.string = [string EXCEPT ![x] = NUL]
    BY <1>7, <1>14
  <2>3. PICK u, a : u = r.string /\ a = r.next
    OBVIOUS
  <2>4. NUL \in Letters /\ e \in 1..Len(string) /\ x \in 1..Len(string)
    BY <1>01, <1>1, <1>8, <1>9, <2>1 DEF Letters
  <2>5. u \in Seq(Letters) /\ Len(u) = LastPlace /\ \A i \in 1..LastPlace : u[i] = IF i = x THEN NUL ELSE string[i]
    BY <1>01, <1>1, <2>2, <2>3, <2>4
  <2>6. a \in Nat /\ a \in g..e /\ a = IF x = e THEN e ELSE x + 1
    BY <1>1, <1>12, <1>14, <2>2, <2>3 DEF Beyond
  <2>7. \A i \in a..(e - 1) : u[i] = source[i] /\ source[i] # "\n"
    <3> SUFFICES ASSUME NEW i \in a..(e - 1) PROVE u[i] = source[i] /\ source[i] # "\n"
      OBVIOUS
    <3>1. i \in g..(e - 1) /\ i \in 1..LastPlace /\ i # x
      BY <1>1, <1>9, <2>1, <2>6
    <3> QED
      BY <1>2, <2>5, <3>1
  <2>8. \A i \in e..LastPlace : u[i] = string[i]
    <3> SUFFICES ASSUME NEW i \in e..LastPlace PROVE u[i] = string[i]
      OBVIOUS
    <3>1. i \in 1..LastPlace /\ (i = x => i = e)
      BY <1>1, <1>9, <2>1
    <3> QED
      BY <1>2, <2>5, <3>1
  <2>9. counts.words \in Nat /\ Cardinality(Below(Words, a)) = counts.words + 1
    <3>1. Below(Starts(source, Delimiters), a) = Below(Starts(source, Delimiters), g) \cup {b} /\ b >= g
      BY <1>12, <1>14, <2>2, <2>3 DEF Words
    <3>2. OneStart(source, Delimiters, g, a, b)
      BY <1>01, <1>1, <1>8, <3>1 DEF OneStart
    <3>3. /\ Cardinality(Below(Starts(source, Delimiters), g)) \in Nat
          /\ Cardinality(Below(Starts(source, Delimiters), a)) = Cardinality(Below(Starts(source, Delimiters), g)) + 1
      BY <3>2, OneMore
    <3> QED
      BY <1>3, <3>3 DEF Words
  <2>10. Reading(source, a, e, Delimiters)
    BY <1>12, <1>14, <2>2, <2>3
  <2> QED
    BY <1>0, <1>1, <1>6, <2>1, <2>2, <2>3, <2>5, <2>7, <2>8, <2>9, <2>10 DEF WordTold
<1> QED
  BY <1>13, <1>14

\* What the outer call of strtok or strtok_r finds.
LineTold(f, r) ==
    \/ /\ r.token = 0 /\ r.next = LastPlace /\ r.string = string /\ Below(Lines, f) = Lines
       /\ \A i \in f..Len(source) : source[i] = "\n"
    \/ \E e \in 1..LastPlace :
          /\ r.token \in Lines /\ r.token >= f /\ r.token < e
          /\ \A i \in f..(r.token - 1) : source[i] = "\n"
          /\ \A i \in r.token..(e - 1) : source[i] # "\n"
          /\ (e = LastPlace /\ r.next = e) \/ (e < LastPlace /\ r.next = e + 1 /\ source[e] = "\n")
          /\ r.string = [string EXCEPT ![e] = NUL]
          /\ Below(Lines, r.next) = Below(Lines, f) \cup {r.token}
          /\ Reading(source, r.next, LastPlace, NewLine)

LEMMA LineToken ==
    ASSUME NEW f, TextStands, Reading(source, f, LastPlace, NewLine), \A i \in f..Len(source) : string[i] = source[i]
    PROVE  LineTold(f, Strtok(f, NewLine))
<1>0. PICK n, e : n = Len(source) /\ e = LastPlace
  OBVIOUS
<1>1. n \in Nat /\ e = n + 1 /\ f \in 1..e /\ e \in Nat /\ f \in Nat
  <2>0. source \in Seq(Chars)
    BY DEF TextStands
  <2>1. n \in Nat
    BY ONLY <1>0, <2>0, LenProperties
  <2>2. f \in 1..e
    BY <1>0 DEF Reading
  <2> QED
    BY <1>0, <2>1, <2>2 DEF LastPlace
<1>2. source \in Seq(Chars) /\ string \in Seq(Letters) /\ Len(string) = n + 1 /\ string[e] = NUL
  BY <1>0, <1>1 DEF TextStands, LastPlace
<1>3. \A i \in f..(e - 1) : string[i] = source[i]
  BY <1>0, <1>1
<1>4. \A i \in 1..n : source[i] # NUL
  <2>1. NUL \notin Chars
    BY DEF NUL, Chars
  <2>2. \A i \in 1..Len(source) : source[i] \in Chars
    BY <1>2
  <2> QED
    BY <1>0, <2>1, <2>2
<1>5. Unread(string, f, e) /\ NUL \notin NewLine
  <2>1. NUL \notin NewLine
    BY DEF NUL, NewLine
  <2> QED
    BY <1>1, <1>2, <1>3, <1>4, <2>1 DEF Unread
<1>6. PICK r : r = Strtok(f, NewLine)
  OBVIOUS
<1>7. PICK b, x : /\ Token(string, f, e, NewLine, b, x)
                  /\ r = IF b = e THEN [token |-> 0, next |-> e, string |-> string]
                         ELSE [token |-> b, next |-> Beyond(b, x, e), string |-> [string EXCEPT ![x] = NUL]]
  BY <1>5, <1>6, StrtokFinds
<1>8. b \in f..e /\ b \in Nat /\ \A i \in f..(b - 1) : string[i] \in NewLine
  BY <1>1, <1>7 DEF Token
<1>9. b < e => /\ x \in (b + 1)..e /\ x \in Nat /\ string[b] \notin NewLine /\ \A i \in b..(x - 1) : string[i] \notin NewLine
               /\ x < e => string[x] \in NewLine
  BY <1>1, <1>7, <1>8 DEF Token
<1>10. \A i \in f..(b - 1) : source[i] \in NewLine
  BY <1>1, <1>3, <1>8
<1>11. b < e => /\ source[b] \notin NewLine /\ \A i \in b..(x - 1) : source[i] \notin NewLine
                /\ x < e => source[x] \in NewLine
  <2> SUFFICES ASSUME b < e
               PROVE  /\ source[b] \notin NewLine /\ \A i \in b..(x - 1) : source[i] \notin NewLine
                      /\ x < e => source[x] \in NewLine
    OBVIOUS
  <2>1. b \in f..(e - 1) /\ \A i \in b..(x - 1) : i \in f..(e - 1)
    BY <1>1, <1>8, <1>9
  <2>2. x < e => x \in f..(e - 1)
    BY <1>1, <1>8, <1>9
  <2> QED
    BY <1>3, <1>9, <2>1, <2>2
<1>12. Token(source, f, e, NewLine, b, x)
  BY <1>8, <1>9, <1>10, <1>11 DEF Token
<1>13. Reading(source, f, e, NewLine)
  BY <1>0
<1>14. /\ b = e => Below(Lines, e) = Below(Lines, f)
       /\ b # e => /\ b \in Lines /\ b >= f /\ b < Beyond(b, x, e) /\ Beyond(b, x, e) \in f..e
                   /\ Below(Lines, Beyond(b, x, e)) = Below(Lines, f) \cup {b}
                   /\ Reading(source, Beyond(b, x, e), e, NewLine)
  BY <1>12, <1>13, NextStart DEF Lines
<1>15. CASE b = e
  <2>1. r.token = 0 /\ r.next = LastPlace /\ r.string = string
    BY <1>0, <1>7, <1>15
  <2>2. Below(Lines, e) = Lines
    <3>1. \A i \in Lines : i \in 1..n
      BY <1>0 DEF Lines, Starts
    <3> QED
      BY <1>1, <3>1 DEF Below
  <2>3. \A i \in f..n : source[i] = "\n"
    BY <1>1, <1>10, <1>15 DEF NewLine
  <2> QED
    BY <1>0, <1>6, <1>14, <1>15, <2>1, <2>2, <2>3 DEF LineTold
<1>16. CASE b # e
  <2>1. b < e
    BY <1>1, <1>8, <1>16
  <2>2. r.token = b /\ r.next = Beyond(b, x, e) /\ r.string = [string EXCEPT ![x] = NUL]
    BY <1>7, <1>16
  <2>3. x \in 1..LastPlace /\ b < x
    BY <1>0, <1>1, <1>8, <1>9, <2>1
  <2>4. \A i \in f..(b - 1) : source[i] = "\n"
    BY <1>10 DEF NewLine
  <2>5. \A i \in b..(x - 1) : source[i] # "\n"
    BY <1>11, <2>1 DEF NewLine
  <2>6. (x = LastPlace /\ r.next = x) \/ (x < LastPlace /\ r.next = x + 1 /\ source[x] = "\n")
    <3>1. CASE x = e
      BY <1>0, <2>2, <3>1 DEF Beyond
    <3>2. CASE x # e
      <4>1. x < e
        BY <1>1, <1>9, <2>1, <3>2
      <4>2. source[x] = "\n"
        BY <1>11, <2>1, <4>1 DEF NewLine
      <4>3. r.next = x + 1
        BY <1>16, <2>2, <3>2 DEF Beyond
      <4> QED
        BY <1>0, <4>1, <4>2, <4>3
    <3> QED
      BY <3>1, <3>2
  <2>7. b \in Lines /\ b >= f
    BY <1>14, <1>16
  <2>8. Below(Lines, r.next) = Below(Lines, f) \cup {b} /\ Reading(source, r.next, LastPlace, NewLine)
    BY <1>0, <1>14, <1>16, <2>2
  <2> QED
    BY <1>6, <2>2, <2>3, <2>4, <2>5, <2>6, <2>7, <2>8 DEF LineTold
<1> QED
  BY <1>15, <1>16

\* Nothing but new lines between f and g: no word starts there.
LEMMA SameWords ==
    ASSUME NEW f, NEW g, source \in Seq(Chars), f \in Nat, g \in Nat, f <= g,
           \A i \in f..(g - 1) : i <= Len(source) => source[i] = "\n"
    PROVE  Below(Words, g) = Below(Words, f)
<1>1. \A w \in Words : w \in 1..Len(source) /\ w \in Nat /\ source[w] # "\n"
  <2>1. PICK n : n = Len(source)
    OBVIOUS
  <2>2. n \in Nat
    BY ONLY <2>1, LenProperties, source \in Seq(Chars)
  <2>3. \A w \in Words : w \in 1..n /\ source[w] \notin Delimiters
    BY <2>1 DEF Words, Starts
  <2>4. "\n" \in Delimiters
    BY DEF Delimiters
  <2>5. \A w \in Words : source[w] # "\n"
    BY <2>3, <2>4
  <2>6. \A w \in Words : w \in Nat
    BY <2>2, <2>3
  <2> QED
    BY <2>1, <2>3, <2>5, <2>6
<1>2. \A w \in Words : w < g => w < f
  BY <1>1
<1> QED
  BY <1>1, <1>2 DEF Below

\* The starts are counted.
LEMMA StartsCounted ==
    ASSUME source \in Seq(Chars)
    PROVE  /\ \A f : Cardinality(Below(Words, f)) \in Nat /\ Cardinality(Below(Lines, f)) \in Nat
           /\ Below(Words, 1) = {} /\ Below(Lines, 1) = {} /\ Cardinality({}) = 0
           /\ Below(Words, LastPlace) = Words /\ Below(Lines, LastPlace) = Lines
<1>1. Words \subseteq 1..Len(source) /\ Lines \subseteq 1..Len(source) /\ Len(source) \in Nat
  BY DEF Words, Lines, Starts
<1>2. IsFiniteSet(1..Len(source))
  BY <1>1, UpToFinite
<1>3. ASSUME NEW f PROVE IsFiniteSet(Below(Words, f)) /\ IsFiniteSet(Below(Lines, f))
  <2>1. Below(Words, f) \subseteq 1..Len(source) /\ Below(Lines, f) \subseteq 1..Len(source)
    BY <1>1 DEF Below
  <2> QED
    BY <1>2, <2>1, FS_Subset
<1>4. \A f : Cardinality(Below(Words, f)) \in Nat /\ Cardinality(Below(Lines, f)) \in Nat
  BY <1>3, FS_CardinalityType
<1>5. Cardinality({}) = 0
  BY FS_EmptySet
<1>a. PICK n : n = Len(source)
  OBVIOUS
<1>b. n \in Nat /\ LastPlace = n + 1 /\ (\A w \in Words : w \in 1..n) /\ (\A w \in Lines : w \in 1..n)
  BY <1>1, <1>a DEF LastPlace
<1>6. Below(Words, 1) = {} /\ Below(Lines, 1) = {}
  BY <1>b DEF Below
<1>7. Below(Words, LastPlace) = Words /\ Below(Lines, LastPlace) = Lines
  BY <1>b DEF Below
<1> QED
  BY <1>4, <1>5, <1>6, <1>7

\* The string with one NUL more.
CutAt(e, u) ==
    /\ u \in Seq(Letters) /\ Len(u) = LastPlace /\ u[LastPlace] = NUL /\ u[e] = NUL
    /\ \A i \in 1..LastPlace : i # e => u[i] = string[i]

LEMMA Cut == ASSUME TextStands, NEW e \in 1..LastPlace PROVE CutAt(e, [string EXCEPT ![e] = NUL])
<1>1. string \in Seq(Letters) /\ Len(string) = LastPlace /\ string[LastPlace] = NUL /\ source \in Seq(Chars)
  BY DEF TextStands
<1>2. PICK n : n = LastPlace
  OBVIOUS
<1>3. n \in Nat /\ n >= 1
  <2>1. Len(source) \in Nat
    BY ONLY <1>1, LenProperties
  <2> QED
    BY <1>2, <2>1 DEF LastPlace
<1>4. NUL \in Letters
  BY DEF Letters
<1>5. PICK u : u = [string EXCEPT ![e] = NUL]
  OBVIOUS
<1>6. string \in Seq(Letters) /\ Len(string) = n /\ string[n] = NUL /\ e \in 1..n
  BY <1>1, <1>2
<1>7. u \in Seq(Letters) /\ Len(u) = n /\ \A i \in 1..n : u[i] = IF i = e THEN NUL ELSE string[i]
  BY ONLY <1>3, <1>4, <1>5, <1>6
<1> QED
  BY <1>2, <1>3, <1>5, <1>6, <1>7 DEF CutAt

\* What does not change while the average is taken.
SameText == source' = source /\ texttool' = texttool

LEMMA SameStarts ==
    SameText => Lines' = Lines /\ Words' = Words /\ LastPlace' = LastPlace /\ FirstWords' = FirstWords
<1> SUFFICES ASSUME SameText PROVE Lines' = Lines /\ Words' = Words /\ LastPlace' = LastPlace /\ FirstWords' = FirstWords
  OBVIOUS
<1>1. Lines' = Lines /\ Words' = Words /\ LastPlace' = LastPlace
  BY DEF SameText, Lines, Words, LastPlace
<1> QED
  BY <1>1 DEF SameText, FirstWords

\* What a token of the outer call leaves to wordcount.
LineFound(e, b, u) ==
    /\ CutAt(e, u) /\ e \in Nat /\ b \in 1..(e - 1) /\ e <= LastPlace
    /\ Reading(source, b, e, Delimiters)
    /\ \A i \in b..(e - 1) : u[i] = source[i] /\ source[i] # "\n"
    /\ \A i \in (e + 1)..LastPlace : u[i] = string[i]

LEMMA FoundLine ==
    ASSUME TextStands, NEW f, NEW e \in 1..LastPlace, NEW b \in Lines, f \in Nat, b >= f, b < e,
           \A i \in f..Len(source) : string[i] = source[i], \A i \in b..(e - 1) : source[i] # "\n"
    PROVE  LineFound(e, b, [string EXCEPT ![e] = NUL])
<1>0. PICK n, u : n = Len(source) /\ u = [string EXCEPT ![e] = NUL]
  OBVIOUS
<1>1. CutAt(e, u)
  BY <1>0, Cut
<1>2. source \in Seq(Chars)
  BY DEF TextStands
<1>3. n \in Nat /\ e \in Nat /\ e \in 1..(n + 1) /\ LastPlace = n + 1
  <2>1. n \in Nat
    BY ONLY <1>0, <1>2, LenProperties
  <2> QED
    BY <1>0, <2>1 DEF LastPlace
<1>4. b \in 1..n /\ b \in Nat /\ (b = 1 \/ source[b - 1] \in NewLine)
  BY <1>0, <1>3 DEF Lines, Starts
<1>5. Reading(source, b, e, Delimiters)
  <2>1. NewLine \subseteq Delimiters
    BY DEF NewLine, Delimiters
  <2>2. b = 1 \/ source[b - 1] \in Delimiters
    BY <1>4, <2>1
  <2>3. e \in 1..(n + 1) /\ b \in 1..e
    BY <1>3, <1>4
  <2> QED
    BY <1>0, <1>2, <2>2, <2>3 DEF Reading
<1>6. \A i \in b..(e - 1) : u[i] = source[i] /\ source[i] # "\n"
  <2> SUFFICES ASSUME NEW i \in b..(e - 1) PROVE u[i] = source[i] /\ source[i] # "\n"
    OBVIOUS
  <2>1. i \in f..n /\ i \in 1..LastPlace /\ i # e
    BY <1>3, <1>4
  <2>2. u[i] = string[i]
    BY <1>1, <2>1 DEF CutAt
  <2>3. string[i] = source[i]
    BY <1>0, <2>1
  <2> QED
    BY <2>2, <2>3
<1>7. \A i \in (e + 1)..LastPlace : u[i] = string[i]
  <2> SUFFICES ASSUME NEW i \in (e + 1)..LastPlace PROVE u[i] = string[i]
    OBVIOUS
  <2>1. i \in 1..LastPlace /\ i # e
    BY <1>3
  <2> QED
    BY <1>1, <2>1 DEF CutAt
<1>8. b \in 1..(e - 1) /\ e <= LastPlace
  BY <1>3, <1>4
<1> QED
  BY <1>0, <1>1, <1>3, <1>5, <1>6, <1>7, <1>8 DEF LineFound

\* One line more is counted.
LEMMA OneLine ==
    ASSUME source \in Seq(Chars), NEW f \in Nat, NEW a, NEW b \in Nat,
           Below(Lines, a) = Below(Lines, f) \cup {b}, b >= f
    PROVE  Cardinality(Below(Lines, a)) = Cardinality(Below(Lines, f)) + 1
<1>1. PICK S, R : S = Below(Lines, f) /\ R = Below(Lines, a)
  OBVIOUS
<1>2. IsFiniteSet(S)
  <2>1. S \subseteq 1..Len(source)
    BY <1>1 DEF Below, Lines, Starts
  <2>2. IsFiniteSet(1..Len(source))
    BY UpToFinite
  <2> QED
    BY <2>1, <2>2, FS_Subset
<1>3. b \notin S
  BY <1>1 DEF Below
<1>4. Cardinality(S \cup {b}) = Cardinality(S) + 1
  BY <1>2, <1>3, FS_AddElement
<1> QED
  BY <1>1, <1>4

\* wordaverage takes a line.
LEMMA TakesLine ==
    ASSUME Averager, texttool = "wordaverage", AverKept, wordaverage, SameText
    PROVE  AverKept'
<1>0. /\ TextStands /\ LinesKept(place.line)
      /\ counts \in [words : Nat, lines : Nat]
      /\ place = [static |-> place.static, line |-> place.line, word |-> place.word]
  BY DEF AverKept
<1>1. PICK w, m, s, f, d : w = counts.words /\ m = counts.lines /\ s = place.static /\ f = place.line /\ d = place.word
  OBVIOUS
<1>2. w \in Nat /\ m \in Nat /\ counts = [words |-> w, lines |-> m] /\ place = [static |-> s, line |-> f, word |-> d]
  BY <1>0, <1>1
<1>3. PlaceOf("line") = "line"
  BY DEF PlaceOf
<1>4. tpc = "line" /\ texttool' = "wordaverage" /\ source' = source
  BY DEF wordaverage, SameText
<1>5. /\ Reading(source, f, LastPlace, NewLine) /\ \A i \in f..Len(source) : string[i] = source[i]
      /\ m = Cardinality(Below(Lines, f)) /\ w = Cardinality(Below(Words, f))
  BY <1>0, <1>1, <1>4 DEF LinesKept
<1>6. PICK r : r = Strtok(f, NewLine)
  OBVIOUS
<1>7. LineTold(f, r)
  BY <1>0, <1>5, <1>6, LineToken
<1>8. \/ r.token = 0 /\ tpc' = "averaged" /\ Take("line", r) /\ counts' = counts
      \/ /\ r.token # 0 /\ tpc' = "firstword" /\ string' = r.string
         /\ place' = [[place EXCEPT !.line = r.next] EXCEPT !.word = r.token]
         /\ counts' = [counts EXCEPT !.lines = @ + 1]
  BY <1>1, <1>3, <1>6 DEF wordaverage, NewLine
<1>9. Lines' = Lines /\ Words' = Words /\ LastPlace' = LastPlace
  BY SameStarts
<1>a. PICK n : n = Len(source)
  OBVIOUS
<1>b. n \in Nat /\ LastPlace = n + 1 /\ f \in 1..(n + 1) /\ f \in Nat /\ source \in Seq(Chars)
  <2>0. source \in Seq(Chars)
    BY <1>0 DEF TextStands
  <2>1. n \in Nat
    BY ONLY <1>a, <2>0, LenProperties
  <2>2. LastPlace = n + 1
    BY <1>a DEF LastPlace
  <2>3. f \in 1..LastPlace
    BY <1>5 DEF Reading
  <2> QED
    BY <2>0, <2>1, <2>2, <2>3
<1>c. AverKept' <=> /\ counts' \in [words : Nat, lines : Nat]
                    /\ place' = [static |-> place'.static, line |-> place'.line, word |-> place'.word]
                    /\ TextStands' /\ LinesKept(place.line)'
  BY <1>4 DEF AverKept, Averager
<1>10. CASE r.token = 0
  <2>1. /\ r.next = LastPlace /\ r.string = string /\ Below(Lines, f) = Lines
        /\ \A i \in f..n : source[i] = "\n"
    <3>1. \A b \in Lines : b # 0
      BY DEF Lines, Starts
    <3> QED
      BY <1>7, <1>10, <1>a, <3>1 DEF LineTold
  <2>2. tpc' = "averaged" /\ counts' = counts /\ string' = string /\ place' = [place EXCEPT !.line = LastPlace]
    BY <1>8, <1>10, <2>1 DEF Take
  <2>3. place' = [static |-> s, line |-> LastPlace, word |-> d]
    BY <1>2, <2>2
  <2>4. TextStands'
    BY <1>0, <1>4, <1>9, <2>2 DEF TextStands
  <2>5. Below(Words, LastPlace) = Below(Words, f)
    <3>1. \A i \in f..(LastPlace - 1) : i <= Len(source) => source[i] = "\n"
      BY <1>a, <1>b, <2>1
    <3>2. f \in Nat /\ LastPlace \in Nat /\ f <= LastPlace
      BY <1>b
    <3> QED
      BY <1>b, <3>1, <3>2, SameWords
  <2>6. Below(Words, LastPlace) = Words /\ Below(Lines, LastPlace) = Lines
    BY <1>b, StartsCounted
  <2>7. Reading(source, LastPlace, LastPlace, NewLine)
    BY <1>a, <1>b DEF Reading
  <2>8. \A i \in LastPlace..Len(source) : string[i] = source[i]
    BY <1>a, <1>b
  <2>9. m = Cardinality(Lines) /\ w = Cardinality(Words)
    BY <1>5, <2>1, <2>5, <2>6
  <2>10. counts'.lines = m /\ counts'.words = w /\ place'.line = LastPlace
    BY <1>1, <2>2, <2>3
  <2>11. LinesKept(place.line)'
    BY <1>4, <1>9, <2>2, <2>6, <2>7, <2>8, <2>9, <2>10 DEF LinesKept
  <2> QED
    BY <1>0, <1>c, <2>2, <2>3, <2>4, <2>11
<1>11. CASE r.token # 0
  <2>1. PICK b, a : b = r.token /\ a = r.next
    OBVIOUS
  <2>2. PICK e \in 1..LastPlace :
          /\ b \in Lines /\ b >= f /\ b < e
          /\ \A i \in f..(b - 1) : source[i] = "\n"
          /\ \A i \in b..(e - 1) : source[i] # "\n"
          /\ (e = LastPlace /\ a = e) \/ (e < LastPlace /\ a = e + 1 /\ source[e] = "\n")
          /\ r.string = [string EXCEPT ![e] = NUL]
          /\ Below(Lines, a) = Below(Lines, f) \cup {b}
          /\ Reading(source, a, LastPlace, NewLine)
    BY <1>7, <1>11, <2>1 DEF LineTold
  <2>3. LineFound(e, b, [string EXCEPT ![e] = NUL])
    BY <1>0, <1>5, <1>b, <2>2, FoundLine
  <2>4. tpc' = "firstword" /\ string' = [string EXCEPT ![e] = NUL]
    BY <1>8, <1>11, <2>2
  <2>5. place' = [static |-> s, line |-> a, word |-> b] /\ counts' = [words |-> w, lines |-> m + 1]
    BY <1>2, <1>8, <1>11, <2>1
  <2>6. LineFound(e, b, string')
    BY <2>3, <2>4
  <2>7. /\ e \in Nat /\ b \in 1..(e - 1) /\ b \in Nat /\ e \in 1..(n + 1)
        /\ a \in Nat /\ a > b /\ (a = e \/ a = e + 1)
    <3>1. e \in Nat /\ b \in 1..(e - 1)
      BY <2>6 DEF LineFound
    <3> QED
      BY <1>b, <2>2, <3>1
  <2>8. TextStands'
    BY <1>4, <1>9, <1>b, <2>6 DEF TextStands, LineFound, CutAt
  <2>9. \A i \in a..Len(source) : string'[i] = source[i]
    <3> SUFFICES ASSUME NEW i \in a..Len(source) PROVE string'[i] = source[i]
      OBVIOUS
    <3>1. i \in (e + 1)..LastPlace
      BY <1>a, <1>b, <2>2, <2>7
    <3>2. i \in f..Len(source)
      BY <1>a, <1>b, <2>2, <2>7
    <3> QED
      BY <1>5, <2>6, <3>1, <3>2 DEF LineFound
  <2>10. Cardinality(Below(Lines, a)) = m + 1
    <3>1. b >= f /\ b \in Nat /\ f \in Nat /\ source \in Seq(Chars)
      BY <1>b, <2>2, <2>7
    <3>2. Below(Lines, a) = Below(Lines, f) \cup {b}
      BY <2>2
    <3> QED
      BY <1>5, <3>1, <3>2, OneLine
  <2>11. Below(Words, b) = Below(Words, f)
    <3>1. f <= b /\ \A i \in f..(b - 1) : i <= Len(source) => source[i] = "\n"
      BY <1>b, <2>2, <2>7
    <3> QED
      BY <1>b, <2>7, <3>1, SameWords
  <2>12. InLine(e, WordPlace)'
    <3>1. WordPlace' = b
      BY <2>4, <2>5 DEF WordPlace
    <3>2. Reading(source, b, e, Delimiters) /\ string'[e] = NUL /\ \A i \in b..(e - 1) : string'[i] = source[i] /\ source[i] # "\n"
      BY <2>6 DEF LineFound, CutAt
    <3>3. counts'.words = Cardinality(Below(Words, b))
      BY <1>5, <2>5, <2>11
    <3> QED
      BY <1>4, <1>9, <3>1, <3>2, <3>3 DEF InLine
  <2>13. LinesKept(place.line)'
    <3>1. place'.line = a /\ counts'.lines = m + 1
      BY <2>5
    <3>2. (Reading(source, place.line, LastPlace, NewLine))' /\ (\A i \in (place.line)..Len(source) : string[i] = source[i])'
      BY <1>4, <1>9, <2>2, <2>9, <3>1
    <3>3. counts'.lines = Cardinality(Below(Lines', place'.line))
      BY <1>9, <2>10, <3>1
    <3>4. e \in 1..LastPlace' /\ ((e = LastPlace' /\ place'.line = e) \/ (place'.line = e + 1 /\ source'[e] = "\n"))
      BY <1>4, <1>9, <2>2, <3>1
    <3> QED
      BY <2>4, <2>12, <3>2, <3>3, <3>4 DEF LinesKept
  <2>14. counts' \in [words : Nat, lines : Nat]
    BY <1>2, <2>5
  <2> QED
    BY <1>c, <2>5, <2>8, <2>13, <2>14
<1> QED
  BY <1>10, <1>11

\* wordcount takes a word or finds that there is none left, in either tool.
LEMMA TakesWord ==
    ASSUME TextStands, counts \in [words : Nat, lines : Nat], wordcount, SameText,
           NEW e \in 1..LastPlace, InLine(e, WordPlace)
    PROVE  \/ /\ tpc' = "line" /\ string' = string /\ counts' = counts
              /\ place' = [place EXCEPT ![PlaceOf("word")] = e]
              /\ counts.words = Cardinality(Below(Words, e))
           \/ /\ tpc' = "word" /\ TextStands' /\ (\A i \in e..LastPlace : string'[i] = string[i])
              /\ counts' = [words |-> counts.words + 1, lines |-> counts.lines]
              /\ \E a : /\ place' = [place EXCEPT ![PlaceOf("word")] = a]
                        /\ Reading(source, a, e, Delimiters)
                        /\ \A i \in a..(e - 1) : string'[i] = source[i] /\ source[i] # "\n"
                        /\ counts.words + 1 = Cardinality(Below(Words, a))
<1>1. PICK g, r, q : g = WordPlace /\ r = Strtok(g, {" "}) /\ q = PlaceOf("word")
  OBVIOUS
<1>2. WordTold(e, g, r)
  BY <1>1, WordToken
<1>3. /\ string' = r.string /\ place' = [place EXCEPT ![q] = r.next]
      /\ \/ r.token = 0 /\ tpc' = "line" /\ counts' = counts
         \/ r.token # 0 /\ tpc' = "word" /\ counts' = [counts EXCEPT !.words = @ + 1]
  BY <1>1 DEF wordcount, Take, WordPlace
<1>4. counts.words = Cardinality(Below(Words, g))
  BY <1>1 DEF InLine
<1>5. CASE r.token = 0
  <2>1. r.next = e /\ r.string = string /\ Below(Words, e) = Below(Words, g)
    BY <1>2, <1>5 DEF WordTold
  <2> QED
    BY <1>1, <1>3, <1>4, <1>5, <2>1
<1>6. CASE r.token # 0
  <2>1. PICK a, u : a = r.next /\ u = r.string
    OBVIOUS
  <2>2. /\ u \in Seq(Letters) /\ Len(u) = LastPlace
        /\ \A i \in e..LastPlace : u[i] = string[i]
        /\ Cardinality(Below(Words, a)) = counts.words + 1
        /\ Reading(source, a, e, Delimiters)
        /\ \A i \in a..(e - 1) : u[i] = source[i] /\ source[i] # "\n"
    BY <1>2, <1>6, <2>1 DEF WordTold
  <2>3. counts' = [words |-> counts.words + 1, lines |-> counts.lines]
    BY <1>3, <1>6
  <2>4. string' = u /\ place' = [place EXCEPT ![q] = a] /\ tpc' = "word"
    BY <1>3, <1>6, <2>1
  <2>5. LastPlace \in e..LastPlace
    <3>1. source \in Seq(Chars)
      BY DEF TextStands
    <3>2. Len(source) \in Nat
      BY ONLY <3>1, LenProperties
    <3> QED
      BY <3>2 DEF LastPlace
  <2>6. u[LastPlace] = NUL
    BY <2>2, <2>5 DEF TextStands
  <2>7. TextStands'
    <3>1. source' = source /\ LastPlace' = LastPlace /\ source \in Seq(Chars)
      BY SameStarts DEF SameText, TextStands
    <3> QED
      BY <2>2, <2>4, <2>6, <3>1 DEF TextStands
  <2> QED
    BY <1>1, <2>2, <2>3, <2>4, <2>7
<1> QED
  BY <1>5, <1>6

\* The words of a line of wordaverage.
LEMMA CountsWords ==
    ASSUME Averager, texttool = "wordaverage", AverKept, wordcount, SameText
    PROVE  AverKept'
<1>0. /\ TextStands /\ LinesKept(place.line)
      /\ counts \in [words : Nat, lines : Nat]
      /\ place = [static |-> place.static, line |-> place.line, word |-> place.word]
  BY DEF AverKept
<1>1. PICK w, m, s, f, d : w = counts.words /\ m = counts.lines /\ s = place.static /\ f = place.line /\ d = place.word
  OBVIOUS
<1>2. w \in Nat /\ m \in Nat /\ counts = [words |-> w, lines |-> m] /\ place = [static |-> s, line |-> f, word |-> d]
  BY <1>0, <1>1
<1>3. PlaceOf("word") = "word" /\ PlaceOf("word")' = "word"
  BY DEF PlaceOf, SameText
<1>4. tpc \in {"firstword", "word"} /\ texttool' = "wordaverage" /\ source' = source
  BY DEF wordcount, SameText
<1>5. /\ Reading(source, f, LastPlace, NewLine) /\ \A i \in f..Len(source) : string[i] = source[i]
      /\ m = Cardinality(Below(Lines, f))
  BY <1>0, <1>1 DEF LinesKept
<1>6. PICK e \in 1..LastPlace : ((e = LastPlace /\ f = e) \/ (f = e + 1 /\ source[e] = "\n")) /\ InLine(e, WordPlace)
  BY <1>0, <1>1, <1>4 DEF LinesKept
<1>9. Lines' = Lines /\ Words' = Words /\ LastPlace' = LastPlace
  BY SameStarts
<1>a. PICK n : n = Len(source)
  OBVIOUS
<1>b. n \in Nat /\ LastPlace = n + 1 /\ f \in 1..(n + 1) /\ f \in Nat /\ e \in Nat /\ source \in Seq(Chars)
  <2>0. source \in Seq(Chars)
    BY <1>0 DEF TextStands
  <2>1. n \in Nat
    BY ONLY <1>a, <2>0, LenProperties
  <2>2. LastPlace = n + 1
    BY <1>a DEF LastPlace
  <2>3. f \in 1..LastPlace
    BY <1>5 DEF Reading
  <2> QED
    BY <2>0, <2>1, <2>2, <2>3
<1>c. AverKept' <=> /\ counts' \in [words : Nat, lines : Nat]
                    /\ place' = [static |-> place'.static, line |-> place'.line, word |-> place'.word]
                    /\ TextStands' /\ LinesKept(place.line)'
  BY <1>4 DEF AverKept, Averager
<1>7. \/ /\ tpc' = "line" /\ string' = string /\ counts' = counts
         /\ place' = [place EXCEPT !.word = e]
         /\ w = Cardinality(Below(Words, e))
      \/ /\ tpc' = "word" /\ TextStands' /\ (\A i \in e..LastPlace : string'[i] = string[i])
         /\ counts' = [words |-> w + 1, lines |-> m]
         /\ \E a : /\ place' = [place EXCEPT !.word = a]
                   /\ Reading(source, a, e, Delimiters)
                   /\ \A i \in a..(e - 1) : string'[i] = source[i] /\ source[i] # "\n"
                   /\ w + 1 = Cardinality(Below(Words, a))
  BY <1>0, <1>1, <1>3, <1>6, TakesWord
<1>8. (Reading(source, f, LastPlace, NewLine))' <=> Reading(source, f, LastPlace, NewLine)
  BY <1>4, <1>9
<1>10. CASE tpc' = "line"
  <2>1. string' = string /\ counts' = counts /\ place' = [static |-> s, line |-> f, word |-> e] /\ w = Cardinality(Below(Words, e))
    BY <1>2, <1>7, <1>10
  <2>2. Below(Words, f) = Below(Words, e)
    <3>1. e <= f /\ \A i \in e..(f - 1) : i <= Len(source) => source[i] = "\n"
      BY <1>6, <1>b
    <3> QED
      BY <1>b, <3>1, SameWords
  <2>3. TextStands'
    BY <1>0, <1>4, <1>9, <2>1 DEF TextStands
  <2>4. place'.line = f /\ counts'.words = w /\ counts'.lines = m
    BY <1>1, <2>1
  <2>5. LinesKept(place.line)'
    BY <1>4, <1>5, <1>9, <1>10, <2>1, <2>2, <2>4 DEF LinesKept
  <2> QED
    BY <1>0, <1>c, <2>1, <2>3, <2>5
<1>11. CASE tpc' = "word"
  <2>1. PICK a : /\ place' = [place EXCEPT !.word = a]
                 /\ Reading(source, a, e, Delimiters)
                 /\ \A i \in a..(e - 1) : string'[i] = source[i] /\ source[i] # "\n"
                 /\ w + 1 = Cardinality(Below(Words, a))
    BY <1>7, <1>11
  <2>2. TextStands' /\ (\A i \in e..LastPlace : string'[i] = string[i]) /\ counts' = [words |-> w + 1, lines |-> m]
    BY <1>7, <1>11
  <2>3. place' = [static |-> s, line |-> f, word |-> a]
    BY <1>2, <2>1
  <2>4. place'.line = f /\ counts'.words = w + 1 /\ counts'.lines = m /\ WordPlace' = a
    BY <1>3, <1>11, <2>2, <2>3 DEF WordPlace
  <2>5. string'[e] = NUL
    BY <1>6, <1>b, <2>2 DEF InLine
  <2>6. InLine(e, WordPlace)'
    BY <1>4, <1>9, <2>1, <2>4, <2>5 DEF InLine
  <2>7. \A i \in f..Len(source) : string'[i] = source[i]
    BY <1>5, <1>6, <1>a, <1>b, <2>2
  <2>8. LinesKept(place.line)'
    BY <1>4, <1>5, <1>6, <1>9, <1>11, <2>4, <2>6, <2>7 DEF LinesKept
  <2>9. counts' \in [words : Nat, lines : Nat]
    BY <1>2, <2>2
  <2> QED
    BY <1>c, <2>2, <2>3, <2>8, <2>9
<1> QED
  BY <1>7, <1>10, <1>11

\* The line of wordaveragebad, and the call that takes wordcount's place for its own.
LEMMA TakesFirst ==
    ASSUME Averager, texttool = "wordaveragebad", AverKept, wordaverage, SameText
    PROVE  AverKept'
<1>0. /\ TextStands /\ FirstKept(place.static)
      /\ counts \in [words : Nat, lines : Nat]
      /\ place = [static |-> place.static, line |-> place.line, word |-> place.word]
  BY DEF AverKept
<1>1. PICK w, m, f, o, d : w = counts.words /\ m = counts.lines /\ f = place.static /\ o = place.line /\ d = place.word
  OBVIOUS
<1>2. w \in Nat /\ m \in Nat /\ counts = [words |-> w, lines |-> m] /\ place = [static |-> f, line |-> o, word |-> d]
  BY <1>0, <1>1
<1>3. PlaceOf("line") = "static"
  BY DEF PlaceOf
<1>4. tpc = "line" /\ texttool' = "wordaveragebad" /\ source' = source
  BY DEF wordaverage, SameText
<1>5. \/ /\ m = 0 /\ w = 0 /\ f = 1
         /\ \A i \in 1..Len(source) : string[i] = source[i]
      \/ /\ m = 1 /\ Lines # {} /\ w = Cardinality(FirstWords)
         /\ f \in 1..LastPlace /\ string[f] = NUL
  BY <1>0, <1>1, <1>4 DEF FirstKept
<1>6. PICK r : r = Strtok(f, NewLine)
  OBVIOUS
<1>8. \/ r.token = 0 /\ tpc' = "averaged" /\ Take("static", r) /\ counts' = counts
      \/ /\ r.token # 0 /\ tpc' = "firstword" /\ string' = r.string
         /\ place' = [[place EXCEPT !.static = r.next] EXCEPT !.word = r.token]
         /\ counts' = [counts EXCEPT !.lines = @ + 1]
  BY <1>1, <1>3, <1>6 DEF wordaverage, NewLine
<1>9. Lines' = Lines /\ Words' = Words /\ LastPlace' = LastPlace /\ FirstWords' = FirstWords
  BY SameStarts
<1>a. PICK n : n = Len(source)
  OBVIOUS
<1>b. n \in Nat /\ LastPlace = n + 1 /\ source \in Seq(Chars)
  <2>0. source \in Seq(Chars)
    BY <1>0 DEF TextStands
  <2>1. n \in Nat
    BY ONLY <1>a, <2>0, LenProperties
  <2> QED
    BY <1>a, <2>0, <2>1 DEF LastPlace
<1>c. AverKept' <=> /\ counts' \in [words : Nat, lines : Nat]
                    /\ place' = [static |-> place'.static, line |-> place'.line, word |-> place'.word]
                    /\ TextStands' /\ FirstKept(place.static)'
  BY <1>4 DEF AverKept, Averager
\* The end, whatever has been counted.
<1>d. ASSUME r.token = 0, r.string = string, m = IF Lines = {} THEN 0 ELSE 1, w = Cardinality(FirstWords)
      PROVE  AverKept'
  <2>1. tpc' = "averaged" /\ counts' = counts /\ string' = string /\ place' = [place EXCEPT !.static = r.next]
    BY <1>8, <1>d DEF Take
  <2>2. place' = [static |-> r.next, line |-> o, word |-> d]
    BY <1>2, <2>1
  <2>3. TextStands'
    BY <1>0, <1>4, <1>9, <2>1 DEF TextStands
  <2>4. FirstKept(place.static)'
    BY <1>1, <1>9, <1>d, <2>1 DEF FirstKept
  <2> QED
    BY <1>0, <1>c, <2>1, <2>2, <2>3, <2>4
<1>10. CASE m = 1
  <2>1. Unread(string, f, f) /\ NUL \notin NewLine
    <3>1. f \in Nat /\ f \in 1..Len(string) /\ f \in 1..f /\ string \in Seq(Letters) /\ string[f] = NUL
      <4>1. f \in 1..LastPlace /\ string[f] = NUL
        BY <1>5, <1>10
      <4> QED
        BY <1>0, <1>b, <4>1 DEF TextStands
    <3>2. NUL \notin NewLine
      BY DEF NUL, NewLine
    <3> QED
      BY <3>1, <3>2 DEF Unread
  <2>2. PICK b, x : /\ Token(string, f, f, NewLine, b, x)
                    /\ r = IF b = f THEN [token |-> 0, next |-> f, string |-> string]
                           ELSE [token |-> b, next |-> Beyond(b, x, f), string |-> [string EXCEPT ![x] = NUL]]
    BY <1>6, <2>1, StrtokFinds
  <2>3. b = f
    <3>1. b \in f..f /\ f \in Nat
      BY <1>5, <1>10, <1>b, <2>2 DEF Token
    <3> QED
      BY <3>1
  <2>4. r.token = 0 /\ r.string = string
    BY <2>2, <2>3
  <2> QED
    BY <1>5, <1>10, <1>d, <2>4
<1>11. CASE m = 0
  <2>0. w = 0 /\ f = 1 /\ \A i \in 1..Len(source) : string[i] = source[i]
    BY <1>5, <1>11
  <2>1. Reading(source, f, LastPlace, NewLine)
    BY <1>a, <1>b, <2>0 DEF Reading
  <2>2. LineTold(f, r)
    BY <1>0, <1>6, <2>0, <2>1, LineToken
  <2>c. Below(Words, 1) = {} /\ Below(Lines, 1) = {} /\ Cardinality({}) = 0
    BY <1>b, StartsCounted
  <2>3. CASE r.token = 0
    <3>1. r.string = string /\ Below(Lines, f) = Lines
      <4>1. \A b \in Lines : b # 0
        BY DEF Lines, Starts
      <4> QED
        BY <2>2, <2>3, <4>1 DEF LineTold
    <3>2. Lines = {}
      BY <2>0, <2>c, <3>1
    <3>3. FirstWords = {}
      BY <3>2 DEF FirstWords
    <3> QED
      BY <1>d, <1>11, <2>0, <2>3, <2>c, <3>1, <3>2, <3>3
  <2>4. CASE r.token # 0
    <3>1. PICK b, a : b = r.token /\ a = r.next
      OBVIOUS
    <3>2. PICK e \in 1..LastPlace :
            /\ b \in Lines /\ b >= f /\ b < e
            /\ \A i \in f..(b - 1) : source[i] = "\n"
            /\ \A i \in b..(e - 1) : source[i] # "\n"
            /\ (e = LastPlace /\ a = e) \/ (e < LastPlace /\ a = e + 1 /\ source[e] = "\n")
            /\ r.string = [string EXCEPT ![e] = NUL]
      BY <2>2, <2>4, <3>1 DEF LineTold
    <3>3. LineFound(e, b, [string EXCEPT ![e] = NUL])
      BY <1>0, <2>0, <1>b, <3>2, FoundLine
    <3>4. tpc' = "firstword" /\ string' = [string EXCEPT ![e] = NUL]
      BY <1>8, <2>4, <3>2
    <3>5. place' = [static |-> a, line |-> o, word |-> b] /\ counts' = [words |-> 0, lines |-> 1]
      <4>1. place' = [[place EXCEPT !.static = a] EXCEPT !.word = b] /\ counts' = [counts EXCEPT !.lines = @ + 1]
        BY <1>8, <2>4, <3>1
      <4>2. counts = [words |-> 0, lines |-> 0] /\ place = [static |-> f, line |-> o, word |-> d]
        BY <1>2, <1>11, <2>0
      <4>3. counts' = [words |-> 0, lines |-> 1]
        BY ONLY <4>1, <4>2
      <4>4. place' = [static |-> a, line |-> o, word |-> b]
        BY ONLY <4>1, <4>2
      <4> QED
        BY <4>3, <4>4
    <3>6. LineFound(e, b, string')
      BY <3>3, <3>4
    <3>7. e \in Nat /\ b \in 1..(e - 1) /\ b \in Nat
      BY <1>b, <3>6 DEF LineFound
    <3>8. TextStands'
      BY <1>4, <1>9, <1>b, <3>6 DEF TextStands, LineFound, CutAt
    <3>9. Below(Words, b) = {}
      <4>1. f <= b /\ \A i \in f..(b - 1) : i <= Len(source) => source[i] = "\n"
        BY <1>b, <2>0, <3>2, <3>7
      <4>2. Below(Words, b) = Below(Words, f)
        BY <1>b, <2>0, <3>7, <4>1, SameWords
      <4> QED
        BY <2>0, <2>c, <4>2
    <3>10. InLine(e, WordPlace)'
      <4>1. WordPlace' = b
        BY <3>4, <3>5 DEF WordPlace
      <4>2. Reading(source, b, e, Delimiters) /\ string'[e] = NUL /\ \A i \in b..(e - 1) : string'[i] = source[i] /\ source[i] # "\n"
        BY <3>6 DEF LineFound, CutAt
      <4>3. counts'.words = Cardinality(Below(Words, b))
        BY <2>c, <3>5, <3>9
      <4> QED
        BY <1>4, <1>9, <4>1, <4>2, <4>3 DEF InLine
    <3>11. FirstLine(b, e)
      <4>1. e \in (b + 1)..LastPlace
        BY <1>b, <3>2, <3>7
      <4> QED
        BY <2>0, <3>2, <4>1 DEF FirstLine
    <3>12. FirstLine(b, e)'
      BY <1>4, <1>9, <3>11 DEF FirstLine
    <3>13. b \in 1..LastPlace' /\ e \in 1..LastPlace'
      BY <1>9, <1>b, <3>2, <3>7
    <3>14. FirstKept(place.static)'
      BY <3>4, <3>5, <3>10, <3>12, <3>13 DEF FirstKept
    <3>15. counts' \in [words : Nat, lines : Nat]
      BY <3>5
    <3> QED
      BY <1>c, <3>5, <3>8, <3>14, <3>15
  <2> QED
    BY <2>3, <2>4
<1> QED
  BY <1>5, <1>10, <1>11

\* The words of its first line.
LEMMA CountsFirst ==
    ASSUME Averager, texttool = "wordaveragebad", AverKept, wordcount, SameText
    PROVE  AverKept'
<1>0. /\ TextStands /\ FirstKept(place.static)
      /\ counts \in [words : Nat, lines : Nat]
      /\ place = [static |-> place.static, line |-> place.line, word |-> place.word]
  BY DEF AverKept
<1>1. PICK w, m, f, o, d : w = counts.words /\ m = counts.lines /\ f = place.static /\ o = place.line /\ d = place.word
  OBVIOUS
<1>2. w \in Nat /\ m \in Nat /\ counts = [words |-> w, lines |-> m] /\ place = [static |-> f, line |-> o, word |-> d]
  BY <1>0, <1>1
<1>3. PlaceOf("word") = "static" /\ PlaceOf("word")' = "static"
  BY DEF PlaceOf, SameText
<1>4. tpc \in {"firstword", "word"} /\ texttool' = "wordaveragebad" /\ source' = source
  BY DEF wordcount, SameText
<1>5. m = 1 /\ \E l, e \in 1..LastPlace : FirstLine(l, e) /\ InLine(e, WordPlace)
  BY <1>0, <1>1, <1>4 DEF FirstKept
<1>6. PICK l \in 1..LastPlace, e \in 1..LastPlace : FirstLine(l, e) /\ InLine(e, WordPlace)
  BY <1>5
<1>9. Lines' = Lines /\ Words' = Words /\ LastPlace' = LastPlace /\ FirstWords' = FirstWords
  BY SameStarts
<1>b. LastPlace \in Nat /\ source \in Seq(Chars)
  <2>0. source \in Seq(Chars)
    BY <1>0 DEF TextStands
  <2>1. Len(source) \in Nat
    BY ONLY <2>0, LenProperties
  <2> QED
    BY <2>0, <2>1 DEF LastPlace
<1>c. AverKept' <=> /\ counts' \in [words : Nat, lines : Nat]
                    /\ place' = [static |-> place'.static, line |-> place'.line, word |-> place'.word]
                    /\ TextStands' /\ FirstKept(place.static)'
  BY <1>4 DEF AverKept, Averager
<1>7. \/ /\ tpc' = "line" /\ string' = string /\ counts' = counts
         /\ place' = [place EXCEPT !.static = e]
         /\ w = Cardinality(Below(Words, e))
      \/ /\ tpc' = "word" /\ TextStands' /\ (\A i \in e..LastPlace : string'[i] = string[i])
         /\ counts' = [words |-> w + 1, lines |-> m]
         /\ \E a : /\ place' = [place EXCEPT !.static = a]
                   /\ Reading(source, a, e, Delimiters)
                   /\ \A i \in a..(e - 1) : string'[i] = source[i] /\ source[i] # "\n"
                   /\ w + 1 = Cardinality(Below(Words, a))
  BY <1>0, <1>1, <1>3, <1>6, TakesWord
<1>8. string[e] = NUL
  BY <1>6 DEF InLine
<1>10. CASE tpc' = "line"
  <2>1. string' = string /\ counts' = counts /\ place' = [static |-> e, line |-> o, word |-> d] /\ w = Cardinality(Below(Words, e))
    BY <1>2, <1>7, <1>10
  <2>2. FirstWords = Below(Words, e) /\ Lines # {}
    BY <1>6, <1>b, FirstWordsAre
  <2>3. TextStands'
    BY <1>0, <1>4, <1>9, <2>1 DEF TextStands
  <2>4. place'.static = e /\ counts'.words = w /\ counts'.lines = 1
    BY <1>1, <1>5, <2>1
  <2>5. FirstKept(place.static)'
    BY <1>8, <1>9, <1>10, <2>1, <2>2, <2>4 DEF FirstKept
  <2> QED
    BY <1>0, <1>c, <2>1, <2>3, <2>5
<1>11. CASE tpc' = "word"
  <2>1. PICK a : /\ place' = [place EXCEPT !.static = a]
                 /\ Reading(source, a, e, Delimiters)
                 /\ \A i \in a..(e - 1) : string'[i] = source[i] /\ source[i] # "\n"
                 /\ w + 1 = Cardinality(Below(Words, a))
    BY <1>7, <1>11
  <2>2. TextStands' /\ (\A i \in e..LastPlace : string'[i] = string[i]) /\ counts' = [words |-> w + 1, lines |-> m]
    BY <1>7, <1>11
  <2>3. place' = [static |-> a, line |-> o, word |-> d]
    BY <1>2, <2>1
  <2>4. counts'.words = w + 1 /\ counts'.lines = 1 /\ WordPlace' = a
    BY <1>3, <1>5, <1>11, <2>2, <2>3 DEF WordPlace
  <2>5. string'[e] = NUL
    BY <1>8, <1>b, <2>2
  <2>6. InLine(e, WordPlace)'
    BY <1>4, <1>9, <2>1, <2>4, <2>5 DEF InLine
  <2>7. FirstLine(l, e)'
    BY <1>4, <1>6, <1>9 DEF FirstLine
  <2>8. FirstKept(place.static)'
    BY <1>9, <1>11, <2>4, <2>6, <2>7 DEF FirstKept
  <2>9. counts' \in [words : Nat, lines : Nat]
    BY <1>2, <2>2
  <2> QED
    BY <1>c, <2>2, <2>3, <2>8, <2>9
<1> QED
  BY <1>7, <1>10, <1>11

LEMMA AverStep == TextTypes /\ AverKept /\ TextNext => AverKept'
<1> SUFFICES ASSUME TextTypes, AverKept, TextNext, Averager' PROVE AverKept'
  BY DEF AverKept
<1>1. Averager /\ AveragerStep /\ SameText
  BY OwnSteps DEF Splitter, Averager, Keeper, SameText
<1> QED
  BY <1>1, TakesLine, CountsWords, TakesFirst, CountsFirst DEF AveragerStep, Averager

-----------------------------------------------------------------------------
(* TextTools: the theorem.                                                 *)

TextIInv == TextTypes /\ LogKept /\ HeapKept /\ SplitKept /\ SortKept /\ AverKept

LEMMA TextStarts == TextInit => TextIInv
<1> SUFFICES ASSUME TextInit PROVE TextIInv
  OBVIOUS
<1>1. TextTypes
  BY TextAssumption DEF TextInit, TextTypes, Splitter, Averager, Keeper
<1>2. LogKept
  BY DEF TextInit, LogKept, Splitter, Averager, Keeper
<1>3. HeapKept
  BY DEF TextInit, HeapKept, Splitter, Averager, Keeper
<1>4. SplitKept
  BY DEF TextInit, SplitKept, Splitter, Averager, Keeper
<1>5. SortKept
  <2> SUFFICES ASSUME texttool = "bubblesort" PROVE SortKept
    BY DEF SortKept
  <2>1. source \in BoundedSeq(1..3, MaxText) /\ string = source
    BY DEF TextInit, Sources, Splitter, Averager, Keeper
  <2>2. source \in Seq(1..3)
    <3>1. PICK m \in 0..MaxText : source \in [1..m -> 1..3]
      BY <2>1 DEF BoundedSeq, SeqOf
    <3>2. m \in Nat
      BY <3>1, TextAssumption
    <3> QED
      BY <3>1, <3>2
  <2>3. PICK n : n = Len(source)
    OBVIOUS
  <2>4. n \in Nat
    BY ONLY <2>2, <2>3, LenProperties
  <2>5. counts = [pass |-> 0, j |-> 1, changed |-> FALSE, swaps |-> 0] /\ tpc = IF n > 1 THEN "compare" ELSE "sorted"
    BY <2>3 DEF TextInit, Splitter, Averager, Keeper
  <2>6. Cardinality(Inversions(string)) \in Nat
    <3>1. Inversions(string) \subseteq (1..n) \X (1..n) /\ IsFiniteSet(1..n)
      BY <2>1, <2>3, <2>4, UpToFinite DEF Inversions
    <3>2. IsFiniteSet((1..n) \X (1..n))
      BY <3>1, FS_Product
    <3> QED
      BY <3>1, <3>2, FS_Subset, FS_CardinalityType
  <2>7. \A i, k \in 1..n : i < k /\ (tpc = "sorted" \/ k > n) => string[i] <= string[k]
    BY <2>4, <2>5
  <2>8. \A i, k \in 1..1 : ~(i < k)
    OBVIOUS
  <2>9. string \in Seq(1..3) /\ Len(string) = n
    BY <2>1, <2>2, <2>3
  <2>10. counts.pass = 0 /\ counts.j = 1 /\ counts.swaps = 0 /\ counts \in [pass : Nat, j : Nat, changed : BOOLEAN, swaps : Nat]
    BY <2>5
  <2>11. tpc = "compare" => n > 1 /\ 0 < n - 1 /\ 1 \in 1..(n - 0)
    BY <2>4, <2>5
  <2>12. counts.swaps + Cardinality(Inversions(string)) = Cardinality(Inversions(source))
    BY <2>1, <2>6, <2>10
  <2>13. n - 0 = n
    BY <2>4
  <2> QED
    BY <2>1, <2>3, <2>7, <2>8, <2>9, <2>10, <2>11, <2>12, <2>13 DEF SortKept
<1>6. AverKept
  <2> SUFFICES ASSUME Averager PROVE AverKept
    BY DEF AverKept
  <2>1. source \in Seq(Chars)
    <3>1. source # Unset
      <4>1. source \in BoundedSeq(Chars, MaxText)
        BY DEF TextInit, Sources, Splitter, Averager, Keeper
      <4>2. PICK m \in 0..MaxText : source \in [1..m -> Chars]
        BY <4>1 DEF BoundedSeq, SeqOf
      <4>3. \A i \in 1..m : source[i] # "unset"
        BY <4>2 DEF Chars
      <4> QED
        BY <4>2, <4>3, TextAssumption DEF Unset
    <3> QED
      BY <1>1, <3>1, SourceIs
  <2>2. PICK n : n = Len(source)
    OBVIOUS
  <2>3. n \in Nat /\ LastPlace = n + 1
    <3>1. n \in Nat
      BY ONLY <2>1, <2>2, LenProperties
    <3> QED
      BY <2>2, <3>1 DEF LastPlace
  <2>4. /\ string = Append(source, NUL) /\ place = [static |-> 1, line |-> 1, word |-> 1]
        /\ counts = [words |-> 0, lines |-> 0] /\ tpc = "line"
    BY DEF TextInit, Splitter, Averager, Keeper
  <2>5. /\ string \in Seq(Letters) /\ Len(string) = n + 1 /\ string[n + 1] = NUL
        /\ \A i \in 1..Len(source) : string[i] = source[i]
    BY <2>1, <2>2, <2>4, FreshTokens
  <2>6. TextStands
    BY <2>1, <2>3, <2>5 DEF TextStands
  <2>7. Below(Words, 1) = {} /\ Below(Lines, 1) = {} /\ Cardinality({}) = 0
    BY <2>1, StartsCounted
  <2>8. Reading(source, 1, LastPlace, NewLine)
    BY <2>1, <2>2, <2>3 DEF Reading
  <2>9. counts.words = 0 /\ counts.lines = 0 /\ place.line = 1 /\ place.static = 1
    BY <2>4
  <2>10. LinesKept(place.line)
    BY <2>4, <2>5, <2>7, <2>8, <2>9 DEF LinesKept
  <2>11. FirstKept(place.static)
    BY <2>4, <2>5, <2>9 DEF FirstKept
  <2>12. counts \in [words : Nat, lines : Nat] /\ place = [static |-> place.static, line |-> place.line, word |-> place.word]
    BY <2>4
  <2> QED
    BY <2>6, <2>10, <2>11, <2>12 DEF AverKept
<1> QED
  BY <1>1, <1>2, <1>3, <1>4, <1>5, <1>6 DEF TextIInv

LEMMA TypesStep == TextTypes /\ TextNext => TextTypes'
<1> SUFFICES ASSUME TextTypes, TextNext PROVE TextTypes'
  OBVIOUS
<1>1. texttool' = texttool /\ source' = source
  BY OwnSteps
<1>2. source' \in Sources'
  BY <1>1 DEF TextTypes, Sources, Keeper
<1>3. CASE Splitter /\ SplitterStep
  BY <1>1, <1>2, <1>3 DEF TextTypes, Splitter, Averager, Keeper, SplitterStep,
     makeargv, CountToken, AllocateArray, InsertToken, freemakeargv, Failed
<1>4. CASE Averager /\ AveragerStep
  BY <1>1, <1>2, <1>4 DEF TextTypes, Splitter, Averager, Keeper, AveragerStep, wordaverage, wordcount
<1>5. CASE texttool = "bubblesort" /\ SorterStep
  BY <1>1, <1>2, <1>5 DEF TextTypes, Splitter, Averager, Keeper, SorterStep, onepass, bubblesort
<1>6. CASE Keeper /\ KeeperStep
  BY <1>1, <1>2, <1>6 DEF TextTypes, Splitter, Averager, Keeper, KeeperStep,
     runproc, AskHistory, EndOfInput, showhistory, ShowItem, ShowEnds, KeepTo
<1> QED
  BY <1>3, <1>4, <1>5, <1>6, OwnSteps

LEMMA TextUnchanged == TextIInv /\ UNCHANGED textvars => TextIInv'
<1> SUFFICES ASSUME TextIInv, UNCHANGED textvars PROVE TextIInv'
  OBVIOUS
<1>0. /\ texttool' = texttool /\ source' = source /\ tpc' = tpc /\ string' = string /\ place' = place
      /\ argv' = argv /\ heap' = heap /\ counts' = counts /\ history' = history
  BY DEF textvars
<1>1. TextTypes'
  BY <1>0 DEF TextIInv, TextTypes, Sources, Splitter, Averager, Keeper
<1>2. LogKept'
  BY <1>0 DEF TextIInv, LogKept, Keeper
<1>3. HeapKept'
  BY <1>0 DEF TextIInv, HeapKept, Splitter
<1>4. SplitKept'
  BY <1>0 DEF TextIInv, SplitKept, TokensKept, Splitter
<1>5. SortKept'
  BY <1>0 DEF TextIInv, SortKept
<1>6. AverKept'
  <2>1. SameText
    BY <1>0 DEF SameText
  <2>2. Lines' = Lines /\ Words' = Words /\ LastPlace' = LastPlace /\ FirstWords' = FirstWords
    BY <2>1, SameStarts
  <2>3. AverKept
    BY DEF TextIInv
  <2>4. WordPlace' = WordPlace
    BY <1>0 DEF WordPlace, PlaceOf
  <2>5. TextStands' <=> TextStands
    BY <1>0, <2>2 DEF TextStands
  <2>6. ASSUME NEW e, NEW g PROVE InLine(e, g)' <=> InLine(e, g)
    BY <1>0, <2>2 DEF InLine
  <2>7. ASSUME NEW l, NEW e PROVE FirstLine(l, e)' <=> FirstLine(l, e)
    BY <1>0, <2>2 DEF FirstLine
  <2>8. ASSUME NEW f, LinesKept(f) PROVE LinesKept(f)'
    BY <1>0, <2>2, <2>4, <2>8 DEF LinesKept, InLine
  <2>9. ASSUME NEW f, FirstKept(f) PROVE FirstKept(f)'
    BY <1>0, <2>2, <2>4, <2>9 DEF FirstKept, InLine, FirstLine
  <2>10. Averager' <=> Averager
    BY <1>0 DEF Averager
  <2>11. PICK f, g : f = place.line /\ g = place.static
    OBVIOUS
  <2>12. place'.line = f /\ place'.static = g
    BY <1>0, <2>11
  <2>13. (Averager /\ texttool = "wordaverage") => LinesKept(place.line)'
    BY <1>0, <2>2, <2>3, <2>4 DEF AverKept, LinesKept, InLine
  <2>14. (Averager /\ texttool = "wordaveragebad") => FirstKept(place.static)'
    BY <1>0, <2>2, <2>3, <2>4 DEF AverKept, FirstKept, InLine, FirstLine
  <2> QED
    BY <1>0, <2>3, <2>5, <2>10, <2>13, <2>14 DEF AverKept
<1> QED
  BY <1>1, <1>2, <1>3, <1>4, <1>5, <1>6 DEF TextIInv

LEMMA TextsTold == TextIInv => TextsHandled
<1> SUFFICES ASSUME TextIInv PROVE TextsHandled
  OBVIOUS
<1>0. TextTypes /\ LogKept /\ HeapKept /\ SplitKept /\ SortKept /\ AverKept
  BY DEF TextIInv
<1>1. Splitter /\ tpc \in {"made", "freed"} =>
         LET skipped == Len(source) + 1 - Len(string) IN
         /\ {argv[k] + skipped : k \in DOMAIN argv} = Starts(source, Delimiters)
         /\ \A k \in DOMAIN argv :
               /\ \A m \in DOMAIN argv : m < k => argv[m] < argv[k]
               /\ TokenAt(string, argv[k], {NUL}) = TokenAt(source, argv[k] + skipped, Delimiters)
  BY <1>0, SplitTold
<1>2. tpc \in {"freed", "failed"} => heap = {}
  <2>1. tpc \in {"freed", "failed"} => Splitter
    BY <1>0 DEF TextTypes, Splitter, Averager, Keeper
  <2> QED
    BY <1>0, <2>1 DEF HeapKept
<1>3. ASSUME tpc = "averaged"
      PROVE  IF texttool = "wordaverage"
             THEN counts = [words |-> Cardinality(Words), lines |-> Cardinality(Lines)]
             ELSE counts = [words |-> Cardinality(FirstWords), lines |-> IF Lines = {} THEN 0 ELSE 1]
  <2>1. Averager
    BY <1>0, <1>3 DEF TextTypes, Splitter, Averager, Keeper
  <2>2. counts = [words |-> counts.words, lines |-> counts.lines]
    BY <1>0, <2>1 DEF AverKept
  <2>3. CASE texttool = "wordaverage"
    <3>1. counts.words = Cardinality(Words) /\ counts.lines = Cardinality(Lines)
      BY <1>0, <1>3, <2>1, <2>3 DEF AverKept, LinesKept
    <3> QED
      BY <2>2, <2>3, <3>1
  <2>4. CASE texttool = "wordaveragebad"
    <3>1. counts.words = Cardinality(FirstWords) /\ counts.lines = IF Lines = {} THEN 0 ELSE 1
      BY <1>0, <1>3, <2>1, <2>4 DEF AverKept, FirstKept
    <3> QED
      BY <2>2, <2>4, <3>1
  <2> QED
    BY <2>1, <2>3, <2>4 DEF Averager
<1>4. ASSUME tpc = "sorted"
      PROVE  /\ \A i, j \in 1..Len(source) : i < j => string[i] <= string[j]
             /\ \A x \in 1..3 : Cardinality(Occurrences(source, x)) = Cardinality(Occurrences(string, x))
             /\ counts.swaps = Cardinality(Inversions(source))
  <2>1. texttool = "bubblesort"
    BY <1>0, <1>4 DEF TextTypes, Splitter, Averager, Keeper
  <2>2. string \in Seq(1..3) /\ Len(string) = Len(source) /\ counts.swaps \in Nat
    BY <1>0, <2>1 DEF SortKept
  <2>3. \A i, j \in 1..Len(string) : i < j => string[i] <= string[j]
    BY <1>0, <1>4, <2>1 DEF SortKept
  <2>4. /\ \A x \in 1..3 : Cardinality(Occurrences(source, x)) = Cardinality(Occurrences(string, x))
        /\ counts.swaps + Cardinality(Inversions(string)) = Cardinality(Inversions(source))
    BY <1>0, <2>1 DEF SortKept
  <2>5. Cardinality(Inversions(string)) = 0
    BY <2>2, <2>3, SortedNone
  <2> QED
    BY <2>2, <2>3, <2>4, <2>5
<1>5. ASSUME Keeper
      PROVE  /\ tpc = "read" => history.ran = IF argv = << >> THEN 0 ELSE Last(argv)
             /\ tpc = "end" /\ ~history.broken => history.shown = Len(argv) /\ counts.keys = 0
  BY <1>0, <1>5 DEF LogKept, Last
<1>6. tpc = "averaged" =>
         LET lines == Starts(source, {"\n"})
             words == Starts(source, {" ", "\n"})
             first == {w \in words : \E l \in lines : w - l \in 0..(Len(TokenAt(source, l, {"\n"})) - 1)
                                                      /\ \A m \in lines : l <= m} IN
         IF texttool = "wordaverage"
         THEN counts = [words |-> Cardinality(words), lines |-> Cardinality(lines)]
         ELSE counts = [words |-> Cardinality(first), lines |-> IF lines = {} THEN 0 ELSE 1]
  BY <1>3 DEF Words, Lines, FirstWords, Delimiters, NewLine
<1> QED
  BY <1>1, <1>2, <1>4, <1>5, <1>6 DEF TextsHandled

\* makeargv returns the tokens of the string, in their order, and neither it nor
\* freemakeargv keeps memory; the average is over all words and lines with strtok_r,
\* and over those of the first line with strtok; the array gets sorted in as many
\* interchanges as it has pairs out of order; keeplog shows what it has run.
THEOREM TxTextsHandled == TextSpec => []TextsHandled
<1>1. TextInit => TextIInv
  BY TextStarts
<1>2. TextIInv /\ [TextNext]_textvars => TextIInv'
  <2> SUFFICES ASSUME TextIInv, [TextNext]_textvars PROVE TextIInv'
    OBVIOUS
  <2>1. CASE TextNext
    BY <2>1, TypesStep, LogStep, HeapStep, SplitStep, SortStep, AverStep DEF TextIInv
  <2>2. CASE UNCHANGED textvars
    BY <2>2, TextUnchanged
  <2> QED
    BY <2>1, <2>2
<1>3. TextIInv => TextsHandled
  BY TextsTold
<1> QED
  BY <1>1, <1>2, <1>3, PTL DEF TextSpec

\* Both of what the run checks: the names of HostNames and the tools of TextTools.
THEOREM TxNamesAndTexts == NamesSpec /\ TextSpec => []NamesAndTexts
<1>1. NamesMatch /\ TextsHandled => NamesAndTexts
  BY DEF NamesAndTexts
<1> QED
  BY <1>1, NmNamesMatch, TxTextsHandled, PTL
=============================================================================
