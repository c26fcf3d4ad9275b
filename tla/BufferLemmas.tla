---------------------------- MODULE BufferLemmas ----------------------------
(***************************************************************************)
(* What the proofs about the buffers of chapter16 share: facts about a     *)
(* ring of size slots, numbered from 0 (b is the array, out the index of   *)
(* its oldest item and n how many it holds), and about the number of       *)
(* threads at some point of the code when one thread moves.                *)
(***************************************************************************)
EXTENDS Naturals, FiniteSets, FiniteSetTheorems, SequenceTheorems, TLAPS

Array(size, S) == [0..(size - 1) -> S]

Wrapped(m, size) == m % size

\* The items of the ring, oldest first.
Turn(b, out, n, size) == [k \in 1..n |-> b[Wrapped(out + k - 1, size)]]

-----------------------------------------------------------------------------
(* Indexes.                                                                *)

\* An index that has moved by at most size is wrapped at most once.
LEMMA WrapOnce ==
    ASSUME NEW size \in Nat \ {0}, NEW m \in Nat, m < 2 * size
    PROVE  Wrapped(m, size) = IF m < size THEN m ELSE m - size
<1> USE DEF Wrapped
<1>1. CASE m < size
  BY <1>1, SMT
<1>2. CASE m >= size
  BY <1>2, SMT
<1> QED
  BY <1>1, <1>2

LEMMA WrapType ==
    ASSUME NEW size \in Nat \ {0}, NEW m \in Nat
    PROVE  Wrapped(m, size) \in 0..(size - 1)
BY DEF Wrapped

\* Taking the oldest item moves the first index and shortens the ring: the index
\* after the last item stays.  Storing one moves the latter.
LEMMA RingAdvance ==
    ASSUME NEW size \in Nat \ {0}, NEW out \in 0..(size - 1), NEW n \in 1..size
    PROVE  Wrapped(Wrapped(out + 1, size) + (n - 1), size) = Wrapped(out + n, size)
<1>1. /\ out + 1 \in Nat /\ out + 1 < 2 * size
      /\ out + n \in Nat /\ out + n < 2 * size
  OBVIOUS
<1>2. Wrapped(out + 1, size) = IF out + 1 < size THEN out + 1 ELSE out + 1 - size
  BY <1>1, WrapOnce
<1>3. Wrapped(out + n, size) = IF out + n < size THEN out + n ELSE out + n - size
  BY <1>1, WrapOnce
<1> DEFINE m == Wrapped(out + 1, size) + (n - 1)
<1>4. m = IF out + 1 < size THEN out + n ELSE out + n - size
  BY <1>2
<1>5. m \in Nat /\ m < 2 * size
  BY <1>1, <1>4
<1>6. Wrapped(m, size) = IF m < size THEN m ELSE m - size
  BY <1>5, WrapOnce
<1> HIDE DEF m
<1>7. Wrapped(m, size) = Wrapped(out + n, size)
  BY <1>1, <1>3, <1>4, <1>6
<1> QED
  BY <1>7 DEF m

LEMMA RingExtend ==
    ASSUME NEW size \in Nat \ {0}, NEW out \in 0..(size - 1), NEW n \in 0..(size - 1)
    PROVE  Wrapped(Wrapped(out + n, size) + 1, size) = Wrapped(out + (n + 1), size)
<1>1. /\ out + n \in Nat /\ out + n < 2 * size
      /\ out + (n + 1) \in Nat /\ out + (n + 1) < 2 * size
  OBVIOUS
<1>2. Wrapped(out + n, size) = IF out + n < size THEN out + n ELSE out + n - size
  BY <1>1, WrapOnce
<1>3. Wrapped(out + (n + 1), size) = IF out + (n + 1) < size THEN out + (n + 1)
                                     ELSE out + (n + 1) - size
  BY <1>1, WrapOnce
<1> DEFINE m == Wrapped(out + n, size) + 1
<1>4. m \in Nat /\ m < 2 * size
  BY <1>1, <1>2
<1>5. Wrapped(m, size) = IF m < size THEN m ELSE m - size
  BY <1>4, WrapOnce
<1> QED
  BY <1>1, <1>2, <1>3, <1>5

-----------------------------------------------------------------------------
(* The ring as a sequence.                                                 *)

Holds(b, out, n, size, S) ==
    /\ Turn(b, out, n, size) \in Seq(S)
    /\ Len(Turn(b, out, n, size)) = n
    /\ \A k \in 1..n : Turn(b, out, n, size)[k] = b[Wrapped(out + k - 1, size)]

\* The ring read from an index on is a sequence.
LEMMA TurnSeq ==
    ASSUME NEW size \in Nat \ {0}, NEW S, NEW b \in Array(size, S),
           NEW out \in 0..(size - 1), NEW n \in 0..size
    PROVE  Holds(b, out, n, size, S)
<1>1. \A k \in 1..n : Wrapped(out + k - 1, size) \in 0..(size - 1)
  BY WrapType
<1>2. \A k \in 1..n : b[Wrapped(out + k - 1, size)] \in S
  BY <1>1 DEF Array
<1>3. Turn(b, out, n, size) \in [1..n -> S]
  BY <1>2 DEF Turn
<1>4. n \in Nat
  OBVIOUS
<1> QED
  BY <1>3, <1>4 DEF Turn, Holds

\* Advancing the first index by one drops the first item of the sequence.
LEMMA RingTail ==
    ASSUME NEW size \in Nat \ {0}, NEW S, NEW b \in Array(size, S),
           NEW out \in 0..(size - 1), NEW n \in 1..size
    PROVE  /\ Turn(b, out, n, size) # << >>
           /\ Head(Turn(b, out, n, size)) = b[out]
           /\ Turn(b, Wrapped(out + 1, size), n - 1, size) = Tail(Turn(b, out, n, size))
<1> DEFINE old == Turn(b, out, n, size)
           new == Turn(b, Wrapped(out + 1, size), n - 1, size)
<1>1. Wrapped(out + 1 - 1, size) = out
  BY WrapOnce
<1>2. /\ old \in Seq(S) /\ Len(old) = n
      /\ \A k \in 1..n : old[k] = b[Wrapped(out + k - 1, size)]
  <2>1. Holds(b, out, n, size, S)
    BY TurnSeq
  <2> QED
    BY <2>1 DEF Holds
<1>3. Wrapped(out + 1, size) \in 0..(size - 1) /\ n - 1 \in 0..size
  BY WrapType
<1>4. /\ new \in Seq(S) /\ Len(new) = n - 1
      /\ \A k \in 1..(n - 1) : new[k] = b[Wrapped(Wrapped(out + 1, size) + k - 1, size)]
  <2>1. Holds(b, Wrapped(out + 1, size), n - 1, size, S)
    BY <1>3, TurnSeq
  <2> QED
    BY <2>1 DEF Holds
<1> HIDE DEF old, new
<1>5. ASSUME NEW k \in 1..(n - 1)
      PROVE  Wrapped(Wrapped(out + 1, size) + k - 1, size) = Wrapped(out + (k + 1) - 1, size)
  <2>1. Wrapped(out + 1, size) = IF out + 1 < size THEN out + 1 ELSE out + 1 - size
    BY WrapOnce
  <2>2. Wrapped(out + (k + 1) - 1, size) = IF out + k < size THEN out + k
                                  ELSE out + k - size
    <3>1. out + (k + 1) - 1 = out + k /\ out + k \in Nat /\ out + k < 2 * size
      OBVIOUS
    <3> QED
      BY <3>1, WrapOnce
  <2> DEFINE m == Wrapped(out + 1, size) + k - 1
  <2>3. m \in Nat /\ m < 2 * size
    BY <1>3
  <2>4. Wrapped(m, size) = IF m < size THEN m ELSE m - size
    BY <2>3, WrapOnce
  <2> QED
    BY <2>1, <2>2, <2>4
<1>6. ASSUME NEW k \in 1..(n - 1)
      PROVE  new[k] = old[k + 1]
  <2>1. k + 1 \in 1..n
    OBVIOUS
  <2> QED
    BY <2>1, <1>2, <1>4, <1>5
<1>7. old # << >> /\ Head(old) = b[out]
  BY <1>1, <1>2
<1>8. new = Tail(old)
  <2>1. /\ Tail(old) \in Seq(S) /\ Len(Tail(old)) = n - 1
        /\ \A k \in 1..(n - 1) : Tail(old)[k] = old[k + 1]
    BY <1>2, <1>7
  <2>2. \A k \in 1..Len(new) : new[k] = Tail(old)[k]
    BY <2>1, <1>4, <1>6
  <2> QED
    BY <2>1, <2>2, <1>4, SeqEqual
<1> QED
  BY <1>7, <1>8 DEF old, new

Appends(b, out, n, i, size) ==
    Turn([b EXCEPT ![Wrapped(out + n, size)] = i], out, n + 1, size)
      = Append(Turn(b, out, n, size), i)

\* Storing at the index after the last item appends to the sequence, when there
\* is room: the slot written is none of those that hold an item.
LEMMA RingAppend ==
    ASSUME NEW size \in Nat \ {0}, NEW S, NEW b \in Array(size, S),
           NEW out \in 0..(size - 1),
           NEW n \in 0..(size - 1), NEW i \in S
    PROVE  Appends(b, out, n, i, size)
<1> DEFINE in == Wrapped(out + n, size)
           c == [b EXCEPT ![in] = i]
           old == Turn(b, out, n, size)
           new == Turn(c, out, n + 1, size)
<1>1. in \in 0..(size - 1) /\ n \in 0..size /\ n + 1 \in 0..size
  BY WrapType
<1>2. c \in Array(size, S)
  BY DEF Array
<1>3. /\ old \in Seq(S) /\ Len(old) = n
      /\ \A k \in 1..n : old[k] = b[Wrapped(out + k - 1, size)]
  <2>1. Holds(b, out, n, size, S)
    BY <1>1, TurnSeq
  <2> QED
    BY <2>1 DEF Holds
<1>4. /\ new \in Seq(S) /\ Len(new) = n + 1
      /\ \A k \in 1..(n + 1) : new[k] = c[Wrapped(out + k - 1, size)]
  <2>1. Holds(c, out, n + 1, size, S)
    BY <1>1, <1>2, TurnSeq
  <2> QED
    BY <2>1 DEF Holds
<1>10. \A j \in 0..(size - 1) : c[j] = IF j = in THEN i ELSE b[j]
  BY <1>1 DEF Array
<1> HIDE DEF old, new, c, in
<1>5. ASSUME NEW k \in 1..n
      PROVE  Wrapped(out + k - 1, size) # in /\ Wrapped(out + k - 1, size) \in 0..(size - 1)
  <2>1. out + k - 1 \in Nat /\ out + k - 1 < 2 * size
        /\ out + n \in Nat /\ out + n < 2 * size
    OBVIOUS
  <2>2. Wrapped(out + k - 1, size) = IF out + k - 1 < size THEN out + k - 1
                            ELSE out + k - 1 - size
    BY <2>1, WrapOnce
  <2>3. in = IF out + n < size THEN out + n ELSE out + n - size
    BY <2>1, WrapOnce DEF in
  <2> QED
    BY <2>2, <2>3
<1>6. ASSUME NEW k \in 1..n PROVE new[k] = old[k]
  <2>1. k \in 1..(n + 1)
    OBVIOUS
  <2> QED
    BY <2>1, <1>3, <1>4, <1>5, <1>10
<1>7. Wrapped(out + (n + 1) - 1, size) = in /\ n + 1 \in 1..(n + 1)
  <2>1. out + (n + 1) - 1 = out + n
    OBVIOUS
  <2> QED
    BY <2>1 DEF in
<1>8. new[n + 1] = i
  BY <1>1, <1>4, <1>7, <1>10
<1>9. new = Append(old, i)
  BY <1>3, <1>4, <1>6, <1>8
<1> QED
  BY <1>9 DEF old, new, c, in, Appends

-----------------------------------------------------------------------------
(* Counting.                                                               *)

\* X and Y differ in t at most, and their sizes accordingly.
Shift(X, Y, t) ==
    /\ Cardinality(X) \in Nat /\ Cardinality(Y) \in Nat
    /\ t \in X => Cardinality(X) > 0
    /\ Cardinality(Y) + (IF t \in X THEN 1 ELSE 0)
         = Cardinality(X) + (IF t \in Y THEN 1 ELSE 0)

LEMMA OneMoves ==
    ASSUME NEW T, IsFiniteSet(T), NEW X \in SUBSET T, NEW Y \in SUBSET T, NEW t \in T,
           \A s \in T \ {t} : s \in X <=> s \in Y
    PROVE  Shift(X, Y, t)
<1>1. IsFiniteSet(X) /\ IsFiniteSet(Y)
  BY FS_Subset
<1>2. Cardinality(X) \in Nat /\ Cardinality(Y) \in Nat
  BY <1>1, FS_CardinalityType
<1>3. t \in X => Cardinality(X) > 0
  BY <1>1, <1>2, FS_EmptySet
<1>4. CASE t \in X /\ t \in Y
  <2>1. X = Y
    BY <1>4
  <2> QED
    BY <1>2, <1>3, <1>4, <2>1 DEF Shift
<1>5. CASE t \in X /\ t \notin Y
  <2>1. Y = X \ {t}
    BY <1>5
  <2>2. Cardinality(Y) = Cardinality(X) - 1
    BY <1>1, <1>5, <2>1, FS_RemoveElement
  <2> QED
    BY <1>2, <1>3, <1>5, <2>2 DEF Shift
<1>6. CASE t \notin X /\ t \in Y
  <2>1. Y = X \cup {t}
    BY <1>6
  <2>2. Cardinality(Y) = Cardinality(X) + 1
    BY <1>1, <1>6, <2>1, FS_AddElement
  <2> QED
    BY <1>2, <1>3, <1>6, <2>2 DEF Shift
<1>7. CASE t \notin X /\ t \notin Y
  <2>1. X = Y
    BY <1>7
  <2> QED
    BY <1>2, <1>3, <1>7, <2>1 DEF Shift
<1> QED
  BY <1>4, <1>5, <1>6, <1>7
=============================================================================
