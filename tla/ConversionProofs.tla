-------------------------- MODULE ConversionProofs ---------------------------
(***************************************************************************)
(* The ring implements the queue for every capacity and every item type;    *)
(* every packet survives the wire; every text is keyed as it asks for.      *)
(* The recursions of the model are unfolded with the iteration lemmas of    *)
(* SequenceLemmas and followed by induction on the bytes.                   *)
(***************************************************************************)
EXTENDS CircularBuffer, Conversions, SequenceLemmas, FiniteSetTheorems

N == max_size_

\* The remainder on the two laps an index can be in.
LEMMA FirstLap == ASSUME NEW k \in 0 .. N - 1 PROVE k % N = k
  BY BufferAssumption DEF N

LEMMA SecondLap == ASSUME NEW k \in N .. 2 * N - 1 PROVE k % N = k - N
  BY BufferAssumption DEF N

\* Indices stay in the ring, and the flag is set only with head on tail.
THEOREM RingTyped == Spec => []TypeOK
<1> USE BufferAssumption
<1>1. Init => TypeOK
  <2>1. Init => full_ \in BOOLEAN /\ ~full_
    BY DEF Init
  <2> QED
    BY <2>1 DEF Init, TypeOK
<1>2. TypeOK /\ [Next]_vars => TypeOK'
  <2> SUFFICES ASSUME TypeOK, [Next]_vars PROVE TypeOK'
    OBVIOUS
  <2>0. /\ (head_ + 1) % max_size_ \in 0 .. max_size_ - 1
        /\ (tail_ + 1) % max_size_ \in 0 .. max_size_ - 1
    BY DEF TypeOK
  <2>1. ASSUME NEW x \in Items, put(x) PROVE TypeOK'
    BY <2>0, <2>1 DEF put, TypeOK
  <2>2. CASE get
    BY <2>0, <2>2 DEF get, TypeOK, ring, empty
  <2>3. CASE peek
    BY <2>3 DEF peek, TypeOK, ring
  <2>4. CASE reset
    BY <2>4 DEF reset, TypeOK
  <2>5. CASE UNCHANGED vars
    BY <2>5 DEF vars, ring, TypeOK
  <2> QED
    BY <2>1, <2>2, <2>3, <2>4, <2>5 DEF Next
<1> QED
  BY <1>1, <1>2, PTL DEF Spec

-----------------------------------------------------------------------------
\* The cell of the i-th item, without the remainder.
Pos(t, i) == IF t + i - 1 < N THEN t + i - 1 ELSE t + i - 1 - N

LEMMA PosOfItem ==
  ASSUME NEW t \in 0 .. N - 1, NEW i \in 1 .. N
  PROVE  (t + i - 1) % N = Pos(t, i) /\ Pos(t, i) \in 0 .. N - 1
  BY FirstLap, SecondLap, BufferAssumption DEF Pos, N

LEMMA NextIndex ==
  ASSUME NEW h \in 0 .. N - 1
  PROVE  (h + 1) % N = IF h + 1 < N THEN h + 1 ELSE 0
  BY FirstLap, SecondLap, BufferAssumption DEF N

\* n items from cell t on: a sequence of n items.
ItemsFrom(b, t, n) == [i \in 1 .. n |-> b[(t + i - 1) % max_size_]]

LEMMA ItemsFromTyped ==
  ASSUME NEW b \in [0 .. N - 1 -> Items], NEW t \in 0 .. N - 1, NEW n \in 0 .. N
  PROVE  /\ ItemsFrom(b, t, n) \in Seq(Items)
         /\ Len(ItemsFrom(b, t, n)) = n
         /\ \A i \in 1 .. n : ItemsFrom(b, t, n)[i] = b[Pos(t, i)]
  <1>1. n \in Nat /\ \A i \in 1 .. n : i \in 1 .. N
    BY BufferAssumption DEF N
  <1>2. ASSUME NEW i \in 1 .. n
        PROVE  b[(t + i - 1) % N] = b[Pos(t, i)] /\ b[(t + i - 1) % N] \in Items
    BY <1>1, PosOfItem
  <1>3. ItemsFrom(b, t, n) \in [1 .. n -> Items]
    BY <1>2 DEF ItemsFrom, N
  <1>4. ItemsFrom(b, t, n) \in Seq(Items) /\ Len(ItemsFrom(b, t, n)) = n
    BY <1>1, <1>3
  <1> QED
    BY <1>2, <1>4 DEF ItemsFrom, N

\* size in the three cases of the flag and the indices.
LEMMA SizeBounded ==
  ASSUME TypeOK
  PROVE  size \in 0 .. N /\ (empty <=> size = 0) /\ (full_ <=> size = N)
  BY BufferAssumption DEF size, empty, TypeOK, N

LEMMA SizeBoundedNext ==
  ASSUME TypeOK' PROVE size' \in 0 .. N
  <1>1. head_' \in 0 .. N - 1 /\ tail_' \in 0 .. N - 1
    BY DEF TypeOK, N
  <1>2. CASE full_'
    BY <1>2, BufferAssumption DEF size, N
  <1>3. CASE ~full_'
    <2>1. size' = IF head_' >= tail_' THEN head_' - tail_'
                  ELSE max_size_ + head_' - tail_'
      BY <1>3 DEF size
    <2>2. ASSUME NEW h \in 0 .. N - 1, NEW t \in 0 .. N - 1
          PROVE  (IF h >= t THEN h - t ELSE max_size_ + h - t) \in 0 .. N
      BY BufferAssumption DEF N
    <2> QED
      BY <1>1, <2>1, <2>2
  <1> QED
    BY <1>2, <1>3

\* What Contents is made of, before and after a step.
LEMMA ContentsTyped ==
  ASSUME TypeOK
  PROVE  /\ Contents \in Seq(Items) /\ Len(Contents) = size
         /\ \A i \in 1 .. size : Contents[i] = buf_[Pos(tail_, i)]
  <1>1. Contents = ItemsFrom(buf_, tail_, size)
    BY DEF Contents, ItemsFrom
  <1>2. buf_ \in [0 .. N - 1 -> Items] /\ tail_ \in 0 .. N - 1
    BY DEF TypeOK, N
  <1> QED
    BY <1>1, <1>2, SizeBounded, ItemsFromTyped

LEMMA ContentsTypedNext ==
  ASSUME TypeOK'
  PROVE  /\ Contents' \in Seq(Items) /\ Len(Contents') = size'
         /\ \A i \in 1 .. size' : Contents'[i] = buf_'[Pos(tail_', i)]
  <1>1. Contents' = ItemsFrom(buf_', tail_', size')
    BY DEF Contents, ItemsFrom
  <1>2. buf_' \in [0 .. N - 1 -> Items] /\ tail_' \in 0 .. N - 1
    BY DEF TypeOK, N
  <1> QED
    BY <1>1, <1>2, SizeBoundedNext, ItemsFromTyped

\* A put fills the ring further, or leaves it full.
LEMMA PutSize ==
  ASSUME TypeOK, NEW x \in Items, put(x)
  PROVE  /\ full_ => size' = N
         /\ ~full_ => size' = size + 1
  <1>1. head_' = IF head_ + 1 < N THEN head_ + 1 ELSE 0
    BY NextIndex DEF put, N, TypeOK
  <1>2. CASE full_
    <2>1. tail_' = IF tail_ + 1 < N THEN tail_ + 1 ELSE 0
      BY <1>2, NextIndex DEF put, N, TypeOK
    <2>2. full_'
      BY <1>1, <1>2, <2>1 DEF put, TypeOK
    <2> QED
      BY <1>2, <2>2 DEF size, N
  <1>3. CASE ~full_
    <2>1. tail_' = tail_ /\ (full_' <=> head_' = tail_)
      BY <1>3 DEF put
    <2> QED
      BY <1>1, <1>3, <2>1, BufferAssumption DEF size, N, TypeOK
  <1> QED
    BY <1>2, <1>3

\* A put into a ring with room appends.
LEMMA PutAppends ==
  ASSUME TypeOK, TypeOK', NEW x \in Items, put(x), ~full_
  PROVE  Contents' = Append(Contents, x)
  <1>1. size \in 0 .. N /\ size < N /\ size' = size + 1
    BY PutSize, SizeBounded, BufferAssumption DEF N
  <1>2. /\ Contents' \in Seq(Items) /\ Len(Contents') = size + 1
        /\ \A i \in 1 .. size + 1 : Contents'[i] = buf_'[Pos(tail_', i)]
    BY ContentsTypedNext, <1>1
  <1>3. /\ Append(Contents, x) \in Seq(Items)
        /\ Len(Append(Contents, x)) = size + 1
        /\ \A i \in 1 .. size : Append(Contents, x)[i] = Contents[i]
        /\ Append(Contents, x)[size + 1] = x
    BY ContentsTyped
  <1>4. tail_' = tail_ /\ buf_' = [buf_ EXCEPT ![head_] = x]
    BY DEF put
  <1>5. /\ buf_ \in [0 .. N - 1 -> Items]
        /\ head_ \in 0 .. N - 1 /\ tail_ \in 0 .. N - 1
    BY DEF TypeOK, N
  <1>6. Pos(tail_, size + 1) = head_
    BY <1>1, <1>5, BufferAssumption DEF size, Pos, N
  <1>7. ASSUME NEW i \in 1 .. size
        PROVE  Pos(tail_, i) \in 0 .. N - 1 /\ Pos(tail_, i) # head_
    BY <1>1, <1>5, BufferAssumption DEF size, Pos, N
  <1>8. ASSUME NEW i \in 1 .. size + 1
        PROVE  Contents'[i] = Append(Contents, x)[i]
    <2>1. CASE i = size + 1
      BY <1>2, <1>3, <1>4, <1>5, <1>6, <2>1
    <2>2. CASE i \in 1 .. size
      <3>1. Contents'[i] = buf_[Pos(tail_, i)]
        BY <1>2, <1>4, <1>5, <1>7, <2>2
      <3>2. Contents[i] = buf_[Pos(tail_, i)]
        BY <2>2, ContentsTyped
      <3> QED
        BY <1>3, <2>2, <3>1, <3>2
    <2>3. i = size + 1 \/ i \in 1 .. size
      BY <1>1, BufferAssumption DEF N
    <2> QED
      BY <2>1, <2>2, <2>3
  <1> QED
    BY <1>2, <1>3, <1>8, SeqEqual

\* The items after the oldest one.
LEMMA TailTyped ==
  ASSUME TypeOK, ~empty
  PROVE  /\ Tail(Contents) \in Seq(Items) /\ Len(Tail(Contents)) = size - 1
         /\ \A i \in 1 .. size - 1 :
              Tail(Contents)[i] = buf_[Pos(tail_, i + 1)]
         /\ Contents # <<>> /\ Head(Contents) = buf_[tail_]
  <1>1. size \in 1 .. N
    BY SizeBounded, BufferAssumption DEF N
  <1>2. Contents \in Seq(Items) /\ Len(Contents) = size /\ Contents # <<>>
    BY <1>1, ContentsTyped
  <1>3. /\ Tail(Contents) \in Seq(Items) /\ Len(Tail(Contents)) = size - 1
        /\ \A i \in 1 .. size - 1 : Tail(Contents)[i] = Contents[i + 1]
    BY <1>1, <1>2
  <1>4. \A i \in 1 .. size - 1 : i + 1 \in 1 .. size
    BY <1>1, BufferAssumption DEF N
  <1>5. Pos(tail_, 1) = tail_ /\ 1 \in 1 .. size
    BY <1>1, BufferAssumption DEF Pos, N, TypeOK
  <1>6. Head(Contents) = Contents[1]
    BY <1>2
  <1> QED
    BY <1>2, <1>3, <1>4, <1>5, <1>6, ContentsTyped

\* The next cell of the ring holds the next item.
LEMMA PosShift ==
  ASSUME NEW t \in 0 .. N - 1, NEW i \in 1 .. N - 1
  PROVE  Pos((t + 1) % N, i) = Pos(t, i + 1)
  <1>1. (t + 1) % N = IF t + 1 < N THEN t + 1 ELSE 0
    BY NextIndex
  <1> QED
    BY <1>1, BufferAssumption DEF Pos, N

\* A put into a full ring drops exactly the oldest item.
LEMMA PutOverwrites ==
  ASSUME TypeOK, TypeOK', NEW x \in Items, put(x), full_
  PROVE  Contents' = Append(Tail(Contents), x)
  <1>1. size = N /\ size' = N /\ N \in Nat \ {0} /\ ~empty
    BY PutSize, SizeBounded, BufferAssumption DEF N, empty
  <1>2. /\ Contents' \in Seq(Items) /\ Len(Contents') = N
        /\ \A i \in 1 .. N : Contents'[i] = buf_'[Pos(tail_', i)]
    BY ContentsTypedNext, <1>1
  <1>3. /\ Tail(Contents) \in Seq(Items) /\ Len(Tail(Contents)) = N - 1
        /\ \A i \in 1 .. N - 1 : Tail(Contents)[i] = buf_[Pos(tail_, i + 1)]
    BY <1>1, TailTyped
  <1>4. /\ Append(Tail(Contents), x) \in Seq(Items)
        /\ Len(Append(Tail(Contents), x)) = N
        /\ \A i \in 1 .. N - 1 :
             Append(Tail(Contents), x)[i] = Tail(Contents)[i]
        /\ Append(Tail(Contents), x)[N] = x
    BY <1>1, <1>3
  <1>5. /\ tail_' = (tail_ + 1) % N /\ buf_' = [buf_ EXCEPT ![tail_] = x]
        /\ buf_ \in [0 .. N - 1 -> Items] /\ tail_ \in 0 .. N - 1
    BY DEF put, TypeOK, N
  <1>6. Pos(tail_', N) = tail_
    BY <1>1, <1>5, NextIndex DEF Pos
  <1>7. ASSUME NEW i \in 1 .. N - 1
        PROVE  /\ Pos(tail_', i) = Pos(tail_, i + 1)
               /\ Pos(tail_, i + 1) \in 0 .. N - 1 /\ Pos(tail_, i + 1) # tail_
    <2>1. Pos(tail_', i) = Pos(tail_, i + 1)
      BY <1>5, PosShift
    <2> QED
      BY <1>1, <1>5, <2>1 DEF Pos
  <1>8. ASSUME NEW i \in 1 .. N
        PROVE  Contents'[i] = Append(Tail(Contents), x)[i]
    <2>1. CASE i = N
      BY <1>1, <1>2, <1>4, <1>5, <1>6, <2>1
    <2>2. CASE i \in 1 .. N - 1
      <3>1. Contents'[i] = buf_[Pos(tail_, i + 1)]
        BY <1>2, <1>5, <1>7, <2>2
      <3> QED
        BY <1>3, <1>4, <2>2, <3>1
    <2>3. i = N \/ i \in 1 .. N - 1
      BY <1>1
    <2> QED
      BY <2>1, <2>2, <2>3
  <1> QED
    BY <1>2, <1>4, <1>8, SeqEqual

\* A get removes exactly the oldest item.
LEMMA GetRemoves ==
  ASSUME TypeOK, TypeOK', get, ~empty
  PROVE  Contents' = Tail(Contents) /\ ret' = Head(Contents)
  <1>1. /\ ret' = buf_[tail_] /\ ~full_' /\ tail_' = (tail_ + 1) % N
        /\ buf_' = buf_ /\ head_' = head_
    BY DEF get, N
  <1>2. head_ \in 0 .. N - 1 /\ tail_ \in 0 .. N - 1
    BY DEF TypeOK, N
  <1>3. size \in 1 .. N /\ size' = size - 1
    <2>1. tail_' = IF tail_ + 1 < N THEN tail_ + 1 ELSE 0
      BY <1>1, <1>2, NextIndex
    <2>2. CASE full_
      BY <1>1, <1>2, <2>1, <2>2, BufferAssumption DEF size, N, TypeOK
    <2>3. CASE ~full_
      BY <1>1, <1>2, <2>1, <2>3, BufferAssumption DEF size, N, empty
    <2> QED
      BY <2>2, <2>3
  <1>4. /\ Contents' \in Seq(Items) /\ Len(Contents') = size - 1
        /\ \A i \in 1 .. size - 1 : Contents'[i] = buf_[Pos(tail_', i)]
    BY ContentsTypedNext, <1>1, <1>3
  <1>5. ASSUME NEW i \in 1 .. size - 1
        PROVE  Pos(tail_', i) = Pos(tail_, i + 1)
    <2>1. i \in 1 .. N - 1
      BY <1>3, BufferAssumption DEF N
    <2> QED
      BY <1>1, <1>2, <2>1, PosShift
  <1>6. ASSUME NEW i \in 1 .. size - 1
        PROVE  Contents'[i] = Tail(Contents)[i]
    BY <1>4, <1>5, TailTyped
  <1> QED
    BY <1>1, <1>4, <1>6, TailTyped, SeqEqual

-----------------------------------------------------------------------------
\* The ring implements the queue: every put, get, peek and reset of the code
\* is the queue's, whatever the capacity, the items and the initial cells.
THEOREM RingImplementsQueue == Spec => ImplementsQueue
<1>1. Init => Abstract!Init
  <2> SUFFICES ASSUME Init PROVE Abstract!Init
    OBVIOUS
  <2>1. size = 0
    BY DEF Init, size
  <2>2. Contents = <<>>
    BY <2>1 DEF Contents
  <2> QED
    BY <2>2 DEF Init, Abstract!Init
<1>2. TypeOK /\ TypeOK' /\ [Next]_vars => [Abstract!Next]_(Abstract!vars)
  <2> SUFFICES ASSUME TypeOK, TypeOK', [Next]_vars
               PROVE  Abstract!Next \/ UNCHANGED Abstract!vars
    OBVIOUS
  <2>0. empty <=> Contents = <<>>
    <3>1. Contents \in Seq(Items) /\ Len(Contents) = size
      BY ContentsTyped
    <3> QED
      BY <3>1, SizeBounded
  <2>1. ASSUME NEW x \in Items, put(x) PROVE Abstract!Put(x)
    <3>1. Len(Contents) = max_size_ <=> full_
      BY ContentsTyped, SizeBounded DEF N
    <3>2. CASE full_
      BY <2>1, <3>1, <3>2, PutOverwrites DEF Abstract!Put, put
    <3>3. CASE ~full_
      BY <2>1, <3>1, <3>3, PutAppends DEF Abstract!Put, put
    <3> QED
      BY <3>2, <3>3
  <2>2. ASSUME get PROVE Abstract!Get
    <3>1. CASE empty
      <4>1. ret' = Default /\ UNCHANGED ring
        BY <2>2, <3>1 DEF get
      <4>2. Contents' = Contents
        BY <4>1 DEF ring, Contents, size
      <4> QED
        BY <2>0, <3>1, <4>1, <4>2 DEF Abstract!Get
    <3>2. CASE ~empty
      BY <2>0, <2>2, <3>2, GetRemoves DEF Abstract!Get
    <3> QED
      BY <3>1, <3>2
  <2>3. ASSUME peek PROVE Abstract!Peek
    <3>1. Contents' = Contents
      BY <2>3 DEF peek, ring, Contents, size
    <3>2. ~empty => Head(Contents) = buf_[tail_]
      BY TailTyped
    <3> QED
      BY <2>0, <2>3, <3>1, <3>2 DEF peek, Abstract!Peek
  <2>4. ASSUME reset PROVE Abstract!Reset
    <3>1. size' = 0
      BY <2>4 DEF reset, size, TypeOK
    <3>2. Contents' = <<>>
      BY <3>1, ContentsTypedNext
    <3> QED
      BY <2>4, <3>2 DEF reset, Abstract!Reset
  <2>5. ASSUME UNCHANGED vars PROVE UNCHANGED Abstract!vars
    BY <2>5 DEF vars, ring, Abstract!vars, Contents, size
  <2> QED
    BY <2>1, <2>2, <2>3, <2>4, <2>5 DEF Next, Abstract!Next
<1> QED
  BY <1>1, <1>2, RingTyped, PTL DEF Spec, ImplementsQueue, Abstract!Spec
-----------------------------------------------------------------------------
(* Numbers on the wire.                                                      *)

Digit == 0 .. Base - 1

\* f[i] is v shifted by i bytes.
Shifts(v, n, f) ==
  f \in [0 .. n -> Nat] /\ f[0] = v /\ \A i \in 1 .. n : f[i] = f[i - 1] \div Base

LEMMA Division ==
  ASSUME NEW x \in Nat
  PROVE  x \div Base \in Nat /\ x % Base \in Digit /\ (x \div Base) * Base + (x % Base) = x
<1>1. Base \in Nat /\ Base > 0
  BY WireAssumption
<1> QED
  BY <1>1 DEF Digit

LEMMA ShiftsExist ==
  ASSUME NEW v \in Nat, NEW n \in Nat
  PROVE  \E f : Shifts(v, n, f)
<1> DEFINE G == [i \in 1 .. n |-> [x \in Nat |-> x \div Base]]
<1>1. G \in [1 .. n -> [Nat -> Nat]]
  BY Division
<1>2. PICK f : Iterated(Nat, n, v, G, f)
  BY <1>1, IterationExists, Zenon
<1>3. f \in [0 .. n -> Nat] /\ f[0] = v /\ \A i \in 1 .. n : f[i] = G[i][f[i - 1]]
  BY <1>2, Zenon DEF Iterated
<1>4. ASSUME NEW i \in 1 .. n PROVE f[i] = f[i - 1] \div Base
  <2>0. i - 1 \in 0 .. n
    OBVIOUS
  <2>1. f[i - 1] \in Nat
    BY <1>3, <2>0
  <2>2. G[i][f[i - 1]] = f[i - 1] \div Base
    BY <2>1
  <2> QED
    BY <1>3, <2>2, Zenon
<1> QED
  BY <1>3, <1>4, Zenon DEF Shifts

LEMMA ShiftIs ==
  ASSUME NEW v \in Nat, NEW n \in Nat, NEW f, Shifts(v, n, f)
  PROVE  ShiftRight(v, n) = f[n]
<1> DEFINE G == [i \in 1 .. n |-> [x \in Nat |-> x \div Base]]
           D(h) == [i \in 0 .. n |-> IF i = 0 THEN v ELSE h[i - 1] \div Base]
           s == CHOOSE h : h = D(h)
<1>0. f \in [0 .. n -> Nat] /\ f[0] = v /\ \A i \in 1 .. n : f[i] = f[i - 1] \div Base
  BY Zenon DEF Shifts
<1>1. f = D(f)
  <2>1. \A i \in 0 .. n : f[i] = D(f)[i]
    BY <1>0
  <2>2. f = [i \in 0 .. n |-> f[i]]
    BY <1>0
  <2> QED
    BY <2>1, <2>2
<1>2. s = D(s)
  BY <1>1, Zenon
<1>3. ShiftRight(v, n) = s[n]
  BY Zenon DEF ShiftRight
<1> HIDE DEF s
<1>4. Follows(Nat, n, v, G, s)
  <2>1. \A i \in 0 .. n : s[i] = IF i = 0 THEN v ELSE s[i - 1] \div Base
    BY <1>2
  <2>2. s = [i \in 0 .. n |-> s[i]]
    BY <1>2
  <2>3. s[0] = v
    BY <2>1
  <2>4. ASSUME NEW i \in 1 .. n, s[i - 1] \in Nat PROVE s[i] = G[i][s[i - 1]]
    BY <2>1, <2>4
  <2> HIDE DEF G
  <2> QED
    BY <2>2, <2>3, <2>4, Zenon DEF Follows
<1>5. Iterated(Nat, n, v, G, f)
  <2>1. \A i \in 1 .. n : f[i] = G[i][f[i - 1]]
    BY <1>0
  <2> QED
    BY <1>0, <2>1, Zenon DEF Iterated
<1> HIDE DEF G
<1>6. s = f
  BY <1>4, <1>5, IterationUnique, Zenon
<1> QED
  BY <1>3, <1>6, Zenon

LEMMA ShiftStep ==
  ASSUME NEW v \in Nat, NEW k \in Nat
  PROVE  /\ ShiftRight(v, 0) = v /\ ShiftRight(v, k) \in Nat
         /\ ShiftRight(v, k + 1) = ShiftRight(v, k) \div Base
<1>1. PICK f : Shifts(v, k + 1, f)
  BY ShiftsExist
<1>2. f \in [0 .. k + 1 -> Nat] /\ f[0] = v /\ \A i \in 1 .. k + 1 : f[i] = f[i - 1] \div Base
  BY <1>1, Zenon DEF Shifts
<1>3. ASSUME NEW m \in 0 .. k + 1 PROVE ShiftRight(v, m) = f[m]
  <2> DEFINE g == [i \in 0 .. m |-> f[i]]
  <2>1. Shifts(v, m, g) /\ g[m] = f[m]
    BY <1>2 DEF Shifts
  <2> HIDE DEF g
  <2>2. m \in Nat
    OBVIOUS
  <2> QED
    BY <2>1, <2>2, ShiftIs, Zenon
<1>4. 0 \in 0 .. k + 1 /\ k \in 0 .. k + 1 /\ k + 1 \in 1 .. k + 1 /\ (k + 1) - 1 = k /\ k + 1 \in 0 .. k + 1
  OBVIOUS
<1>5. ShiftRight(v, 0) = f[0] /\ ShiftRight(v, k) = f[k] /\ ShiftRight(v, k + 1) = f[k + 1]
  BY <1>3, <1>4, Zenon
<1>6. f[k + 1] = f[k] \div Base
  BY <1>2, <1>4, Zenon
<1>7. f[k] \in Nat
  BY <1>2, <1>4
<1> QED
  BY <1>2, <1>5, <1>6, <1>7, Zenon

LEMMA PutType ==
  ASSUME NEW v \in Nat, NEW n \in Nat
  PROVE  PutInt(v, n) \in Seq(Digit) /\ Len(PutInt(v, n)) = n
<1>1. ASSUME NEW i \in 1 .. n PROVE ShiftRight(v, n - i) % Base \in Digit
  <2>1. n - i \in Nat
    OBVIOUS
  <2>2. ShiftRight(v, n - i) \in Nat
    BY <2>1, ShiftStep, Zenon
  <2> QED
    BY <2>2, Division, Zenon
<1>2. PutInt(v, n) \in [1 .. n -> Digit]
  BY <1>1 DEF PutInt
<1> QED
  BY <1>2

\* The number that was put is read back.
LEMMA GetPut ==
  ASSUME NEW v \in Nat, NEW n \in Nat, FitsIn(v, n)
  PROVE  GetInt(PutInt(v, n)) = v
<1> DEFINE b == PutInt(v, n)
           f == [i \in 0 .. n |-> ShiftRight(v, n - i)]
           G == [i \in 1 .. n |-> [x \in Nat |-> x * Base + b[i]]]
           D(h) == [i \in 0 .. Len(b) |-> IF i = 0 THEN 0 ELSE h[i - 1] * Base + b[i]]
           s == CHOOSE h : h = D(h)
<1>0. Len(b) = n /\ b \in Seq(Digit)
  BY PutType
<1>1. f \in [0 .. n -> Nat]
  <2>1. ASSUME NEW i \in 0 .. n PROVE ShiftRight(v, n - i) \in Nat
    <3>1. n - i \in Nat
      OBVIOUS
    <3> QED
      BY <3>1, ShiftStep, Zenon
  <2> QED
    BY <2>1
<1>2. f[0] = 0 /\ f[n] = v
  <2>1. f[0] = ShiftRight(v, n) /\ f[n] = ShiftRight(v, 0)
    <3>1. n - 0 = n /\ n - n = 0 /\ 0 \in 0 .. n /\ n \in 0 .. n
      OBVIOUS
    <3> QED
      BY <3>1
  <2> QED
    BY <2>1, ShiftStep, Zenon DEF FitsIn
<1>3. ASSUME NEW i \in 1 .. n PROVE f[i] = f[i - 1] * Base + b[i]
  <2> DEFINE k == n - i
             x == ShiftRight(v, k)
  <2>1. k \in Nat /\ n - (i - 1) = k + 1 /\ i \in 0 .. n /\ i - 1 \in 0 .. n
    OBVIOUS
  <2>2. f[i] = x /\ f[i - 1] = ShiftRight(v, k + 1)
    BY <2>1
  <2>3. b[i] = x % Base
    BY DEF PutInt
  <2> HIDE DEF f, b
  <2>4. x \in Nat /\ f[i - 1] = x \div Base
    BY <2>1, <2>2, ShiftStep, Zenon
  <2>5. (x \div Base) * Base + (x % Base) = x
    BY <2>4, Division, Zenon
  <2> QED
    BY <2>2, <2>3, <2>4, <2>5, Zenon
<1> HIDE DEF f
<1>4. f = D(f)
  <2>1. \A i \in 0 .. n : f[i] = D(f)[i]
    BY <1>0, <1>2, <1>3
  <2>2. f = [i \in 0 .. n |-> f[i]]
    BY <1>1
  <2> QED
    BY <1>0, <2>1, <2>2
<1>5. s = D(s)
  BY <1>4, Zenon
<1>6. GetInt(b) = s[Len(b)]
  BY Zenon DEF GetInt
<1> HIDE DEF s, b
<1>7. \A i \in 1 .. n : b[i] \in Nat
  BY <1>0, WireAssumption DEF Digit
<1>8. Follows(Nat, n, 0, G, s)
  <2>1. \A i \in 0 .. n : s[i] = IF i = 0 THEN 0 ELSE s[i - 1] * Base + b[i]
    BY <1>0, <1>5
  <2>2. s = [i \in 0 .. n |-> s[i]]
    BY <1>0, <1>5
  <2>3. s[0] = 0
    BY <2>1
  <2>4. ASSUME NEW i \in 1 .. n, s[i - 1] \in Nat PROVE s[i] = G[i][s[i - 1]]
    BY <2>1, <2>4
  <2> HIDE DEF G
  <2> QED
    BY <2>2, <2>3, <2>4, Zenon DEF Follows
<1>9. Iterated(Nat, n, 0, G, f)
  <2>1. \A i \in 1 .. n : f[i] = G[i][f[i - 1]]
    BY <1>1, <1>3
  <2> QED
    BY <1>1, <1>2, <2>1, Zenon DEF Iterated
<1> HIDE DEF G
<1>10. s = f
  BY <1>8, <1>9, IterationUnique, Zenon
<1> QED
  BY <1>0, <1>2, <1>6, <1>10, Zenon DEF b

-----------------------------------------------------------------------------
(* Edges and packets on the wire.                                            *)

WireEdge == [ts_us : {v \in Nat : FitsIn(v, TsBytes)}, state : Digit]

\* A part of a sequence, by its items.
LEMMA Part ==
  ASSUME NEW X, NEW s \in Seq(X), NEW t \in Seq(X), NEW k \in Nat, k + Len(t) <= Len(s),
         \A i \in 1 .. Len(t) : s[k + i] = t[i]
  PROVE  SubSeq(s, k + 1, k + Len(t)) = t
<1> DEFINE n == Len(t)
           p == SubSeq(s, k + 1, k + n)
<1>1. n \in Nat /\ (k + n) - (k + 1) + 1 = n /\ k + 1 \in Nat /\ k + n \in Nat
  OBVIOUS
<1>2. p = [i \in 1 .. n |-> s[i + k]]
  BY <1>1
<1>3. ASSUME NEW i \in 1 .. n PROVE s[i + k] = t[i]
  <2>1. i + k = k + i
    OBVIOUS
  <2> QED
    BY <2>1
<1>4. t = [i \in 1 .. n |-> t[i]]
  OBVIOUS
<1> HIDE DEF p
<1>5. p = t
  BY <1>2, <1>3, <1>4
<1> QED
  BY <1>5 DEF p

LEMMA Sizes ==
  /\ Base \in Nat /\ Base > 1 /\ TsBytes \in Nat /\ TsBytes > 0 /\ MAX_EDGES \in Nat /\ MAX_EDGES < Base
  /\ EDGE_BYTES \in Nat /\ EDGE_BYTES = TsBytes + 1
  /\ MAGIC \in Digit /\ VERSION \in Digit
BY WireAssumption DEF EDGE_BYTES, MAGIC, VERSION, Digit

LEMMA EdgeType ==
  ASSUME NEW e \in WireEdge
  PROVE  EncodeEdge(e) \in Seq(Digit) /\ Len(EncodeEdge(e)) = EDGE_BYTES
<1> DEFINE p == PutInt(e.ts_us, TsBytes)
           s == <<e.state>>
<1>1. e.ts_us \in Nat /\ e.state \in Digit
  BY DEF WireEdge
<1>2. p \in Seq(Digit) /\ Len(p) = TsBytes
  BY <1>1, Sizes, PutType, Zenon
<1>3. s \in Seq(Digit) /\ Len(s) = 1
  BY <1>1
<1> HIDE DEF p, s
<1>4. p \o s \in Seq(Digit) /\ Len(p \o s) = Len(p) + Len(s)
  BY <1>2, <1>3, Joining, Zenon DEF Joins
<1> QED
  BY <1>2, <1>3, <1>4, Sizes DEF p, s, EncodeEdge

LEMMA EdgeRead ==
  ASSUME NEW e \in WireEdge
  PROVE  DecodeEdge(EncodeEdge(e)) = e
<1> DEFINE p == PutInt(e.ts_us, TsBytes)
           s == <<e.state>>
           b == EncodeEdge(e)
<1>1. /\ e.ts_us \in Nat /\ e.state \in Digit /\ FitsIn(e.ts_us, TsBytes)
      /\ e = [ts_us |-> e.ts_us, state |-> e.state]
  BY DEF WireEdge
<1>2. p \in Seq(Digit) /\ Len(p) = TsBytes /\ GetInt(p) = e.ts_us
  BY <1>1, Sizes, PutType, GetPut, Zenon
<1>3. s \in Seq(Digit) /\ Len(s) = 1 /\ s[1] = e.state
  BY <1>1
<1>b. b = p \o s
  BY DEF EncodeEdge
<1> HIDE DEF p, s, b
<1>4. b \in Seq(Digit) /\ Joins(p, s, b)
  BY <1>2, <1>3, <1>b, Joining, Zenon
<1>5. /\ Len(b) = Len(p) + Len(s) /\ \A i \in 1 .. Len(p) : b[i] = p[i]
      /\ \A i \in 1 .. Len(s) : b[Len(p) + i] = s[i]
  BY <1>4, Zenon DEF Joins
<1>6. b[EDGE_BYTES] = e.state
  <2>1. 1 \in 1 .. Len(s) /\ EDGE_BYTES = Len(p) + 1
    BY <1>2, <1>3, Sizes
  <2> QED
    BY <1>3, <1>5, <2>1, Zenon
<1>7. SubSeq(b, 1, TsBytes) = p
  <2>1. \A i \in 1 .. Len(p) : b[0 + i] = p[i]
    BY <1>2, <1>5
  <2>2. 0 \in Nat /\ 0 + Len(p) <= Len(b) /\ 0 + 1 = 1 /\ 0 + Len(p) = TsBytes
    BY <1>2, <1>3, <1>5, Sizes
  <2>3. SubSeq(b, 0 + 1, 0 + Len(p)) = p
    BY <1>2, <1>4, <2>1, <2>2, Part, Zenon
  <2> QED
    BY <2>2, <2>3, Zenon
<1>8. DecodeEdge(b) = [ts_us |-> GetInt(p), state |-> e.state]
  BY <1>6, <1>7, Zenon DEF DecodeEdge
<1> QED
  BY <1>1, <1>2, <1>8, Zenon DEF b

\* Byte j of edge i is inside the body of m edges.
LEMMA Slot ==
  ASSUME NEW w \in Nat, NEW m \in Nat, NEW i \in 1 .. m, NEW j \in 1 .. w
  PROVE  (i - 1) * w + j \in 1 .. m * w /\ (i - 1) * w \in Nat /\ (i - 1) * w + w <= m * w
<1>1. i - 1 \in Nat /\ m - i \in Nat /\ m = (i - 1) + 1 + (m - i)
  OBVIOUS
<1>2. (i - 1) * w \in Nat /\ (m - i) * w \in Nat /\ m * w \in Nat
  BY <1>1
<1>3. m * w = (i - 1) * w + w + (m - i) * w
  BY <1>1
<1> QED
  BY <1>2, <1>3

\* f[i] is the body of the first i edges.
Bodies(e, n, f) ==
  /\ f \in [0 .. n -> Seq(Digit)] /\ f[0] = <<>>
  /\ \A i \in 1 .. n : f[i] = f[i - 1] \o EncodeEdge(e[i])

\* Byte j of edge i is where its edge begins and j bytes on.
LaidOut(e, m, b) ==
  /\ Len(b) = m * EDGE_BYTES
  /\ \A i \in 1 .. m : \A j \in 1 .. EDGE_BYTES : b[(i - 1) * EDGE_BYTES + j] = EncodeEdge(e[i])[j]

LEMMA BodiesExist ==
  ASSUME NEW e \in Seq(WireEdge), NEW n \in Nat, n = Len(e)
  PROVE  \E f : Bodies(e, n, f)
<1> DEFINE G == [i \in 1 .. n |-> [x \in Seq(Digit) |-> x \o EncodeEdge(e[i])]]
<1>0. ASSUME NEW i \in 1 .. n PROVE EncodeEdge(e[i]) \in Seq(Digit)
  <2>1. e[i] \in WireEdge
    OBVIOUS
  <2> QED
    BY <2>1, EdgeType, Zenon
<1>1. G \in [1 .. n -> [Seq(Digit) -> Seq(Digit)]]
  <2>1. ASSUME NEW i \in 1 .. n, NEW x \in Seq(Digit) PROVE x \o EncodeEdge(e[i]) \in Seq(Digit)
    BY <1>0, Joining, Zenon
  <2> QED
    BY <2>1
<1>2. <<>> \in Seq(Digit)
  OBVIOUS
<1>3. PICK f : Iterated(Seq(Digit), n, <<>>, G, f)
  BY <1>1, <1>2, IterationExists, Zenon
<1>4. /\ f \in [0 .. n -> Seq(Digit)] /\ f[0] = <<>>
      /\ \A i \in 1 .. n : f[i] = G[i][f[i - 1]]
  BY <1>3, Zenon DEF Iterated
<1>5. ASSUME NEW i \in 1 .. n PROVE f[i] = f[i - 1] \o EncodeEdge(e[i])
  <2>0. i - 1 \in 0 .. n
    OBVIOUS
  <2>1. f[i - 1] \in Seq(Digit)
    BY <1>4, <2>0, Zenon
  <2>2. G[i][f[i - 1]] = f[i - 1] \o EncodeEdge(e[i])
    BY <2>1, Zenon
  <2> QED
    BY <1>4, <2>2, Zenon
<1> QED
  BY <1>4, <1>5, Zenon DEF Bodies

LEMMA BodyLayout ==
  ASSUME NEW e \in Seq(WireEdge), NEW n \in Nat, n = Len(e), NEW f, Bodies(e, n, f)
  PROVE  LaidOut(e, n, f[n])
<1> DEFINE W == EDGE_BYTES
           T == {m \in Nat : m <= n => LaidOut(e, m, f[m])}
<1>0. W \in Nat
  BY Sizes
<1>b. /\ f \in [0 .. n -> Seq(Digit)] /\ f[0] = <<>>
      /\ \A i \in 1 .. n : f[i] = f[i - 1] \o EncodeEdge(e[i])
  BY Zenon DEF Bodies
<1>1. 0 \in T
  <2>1. 0 * W = 0 /\ Len(<<>>) = 0 /\ 1 .. 0 = {}
    BY <1>0
  <2>2. LaidOut(e, 0, f[0])
    BY <1>b, <2>1 DEF LaidOut
  <2> QED
    BY <2>2
<1>2. ASSUME NEW m \in Nat, m \in T PROVE m + 1 \in T
  <2> SUFFICES ASSUME m + 1 <= n PROVE LaidOut(e, m + 1, f[m + 1])
    OBVIOUS
  <2>0. LaidOut(e, m, f[m])
    BY <1>2
  <2> HIDE DEF T
  <2> DEFINE s == f[m]
             t == EncodeEdge(e[m + 1])
             u == f[m + 1]
  <2>1. m \in 0 .. n /\ m + 1 \in 1 .. n /\ (m + 1) - 1 = m /\ e[m + 1] \in WireEdge
    OBVIOUS
  <2>2. s \in Seq(Digit) /\ t \in Seq(Digit) /\ Len(t) = W
    BY <1>b, <2>1, EdgeType, Zenon
  <2>3. u = s \o t
    BY <1>b, <2>1, Zenon
  <2>l. Len(s) = m * W /\ \A i \in 1 .. m : \A j \in 1 .. W : s[(i - 1) * W + j] = EncodeEdge(e[i])[j]
    BY <2>0, Zenon DEF LaidOut
  <2> HIDE DEF s, u
  <2>4. Joins(s, t, u)
    BY <2>2, <2>3, Joining, Zenon
  <2>5. /\ Len(u) = Len(s) + Len(t) /\ (\A i \in 1 .. Len(s) : u[i] = s[i])
        /\ \A i \in 1 .. Len(t) : u[Len(s) + i] = t[i]
    BY <2>4, Zenon DEF Joins
  <2>6. Len(u) = (m + 1) * W
    <3>1. (m + 1) * W = m * W + W
      BY <1>0
    <3> QED
      BY <2>2, <2>5, <2>l, <3>1, Zenon
  <2>7. ASSUME NEW i \in 1 .. m + 1, NEW j \in 1 .. W
        PROVE  u[(i - 1) * W + j] = EncodeEdge(e[i])[j]
    <3>1. CASE i \in 1 .. m
      <4>1. (i - 1) * W + j \in 1 .. m * W
        BY <1>0, <3>1, Slot, Zenon
      <4> QED
        BY <2>5, <2>l, <3>1, <4>1, Zenon
    <3>2. CASE i = m + 1
      <4>1. (i - 1) * W = Len(s)
        BY <2>1, <2>l, <3>2, Zenon
      <4> QED
        BY <2>2, <2>5, <3>2, <4>1, Zenon
    <3>3. i \in 1 .. m \/ i = m + 1
      OBVIOUS
    <3> QED
      BY <3>1, <3>2, <3>3, Zenon
  <2> QED
    BY <2>6, <2>7, Zenon DEF LaidOut, u
<1> HIDE DEF T
<1>3. n \in T
  BY <1>1, <1>2, NatInduct
<1> QED
  BY <1>3 DEF T

LEMMA SentType ==
  ASSUME NEW e \in Seq(WireEdge)
  PROVE  /\ Sent(e) \in Seq(WireEdge) /\ Len(Sent(e)) \in Digit
         /\ Len(Sent(e)) = IF Len(e) > MAX_EDGES THEN MAX_EDGES ELSE Len(e)
         /\ Sent(e) = SubSeq(e, Len(e) - Len(Sent(e)) + 1, Len(e))
<1> DEFINE n == Len(e)
           M == MAX_EDGES
<1>0. n \in Nat /\ M \in Nat /\ M < Base /\ Base \in Nat
  BY Sizes
<1>1. CASE n > M
  <2> DEFINE p == SubSeq(e, n - M + 1, n)
  <2>1. Sent(e) = p
    BY <1>1 DEF Sent
  <2>2. n - M + 1 \in 1 .. n + 1 /\ n - (n - M + 1) + 1 = M
    BY <1>0, <1>1
  <2>3. p = [i \in 1 .. M |-> e[i + (n - M + 1) - 1]]
    BY <1>0, <2>2
  <2>4. ASSUME NEW i \in 1 .. M PROVE e[i + (n - M + 1) - 1] \in WireEdge
    <3>1. i + (n - M + 1) - 1 \in 1 .. n
      BY <1>0, <1>1
    <3> QED
      BY <3>1
  <2>5. p \in [1 .. M -> WireEdge]
    BY <2>3, <2>4
  <2> HIDE DEF p
  <2>6. p \in Seq(WireEdge) /\ Len(p) = M
    BY <1>0, <2>5
  <2>7. Len(p) \in Digit
    BY <1>0, <2>6 DEF Digit
  <2>8. p = SubSeq(e, n - Len(p) + 1, n)
    BY <2>6, Zenon DEF p
  <2> QED
    BY <1>1, <2>1, <2>6, <2>7, <2>8, Zenon
<1>2. CASE ~(n > M)
  <2>1. Sent(e) = e
    BY <1>2 DEF Sent
  <2>2. n \in Digit /\ n - n + 1 = 1
    BY <1>0, <1>2 DEF Digit
  <2>3. SubSeq(e, 1, n) = e
    <3>1. SubSeq(e, 1, n) = [i \in 1 .. n |-> e[i]]
      BY <1>0
    <3>2. e = [i \in 1 .. n |-> e[i]]
      OBVIOUS
    <3> QED
      BY <3>1, <3>2, Zenon
  <2> QED
    BY <1>2, <2>1, <2>2, <2>3, Zenon
<1> QED
  BY <1>1, <1>2

\* The header of a packet with n edges, and what follows it.
Header(pkt, n) == (<<MAGIC, VERSION, pkt.flags>> \o PutInt(pkt.session_id, 2)) \o <<n>>

LEMMA PacketType ==
  ASSUME NEW pkt \in Packet
  PROVE  /\ pkt.session_id \in Nat /\ FitsIn(pkt.session_id, 2) /\ pkt.flags \in Digit
         /\ pkt.edges \in Seq(WireEdge)
         /\ pkt = [session_id |-> pkt.session_id, flags |-> pkt.flags, edges |-> pkt.edges]
BY DEF Packet, WireEdge, Digit

HeaderIs(pkt, n, h) ==
  /\ h \in Seq(Digit) /\ Len(h) = 6 /\ h[1] = MAGIC /\ h[2] = VERSION /\ h[3] = pkt.flags
  /\ h[4] = PutInt(pkt.session_id, 2)[1] /\ h[5] = PutInt(pkt.session_id, 2)[2] /\ h[6] = n

LEMMA HeaderLayout ==
  ASSUME NEW pkt \in Packet, NEW n \in Digit, NEW h, h = Header(pkt, n)
  PROVE  HeaderIs(pkt, n, h)
<1> DEFINE s == <<MAGIC, VERSION, pkt.flags>>
           p == PutInt(pkt.session_id, 2)
           c == <<n>>
<1>1. s \in Seq(Digit) /\ Len(s) = 3 /\ s[1] = MAGIC /\ s[2] = VERSION /\ s[3] = pkt.flags
  BY PacketType, Sizes
<1>2. p \in Seq(Digit) /\ Len(p) = 2
  BY PacketType, PutType
<1>3. c \in Seq(Digit) /\ Len(c) = 1 /\ c[1] = n
  OBVIOUS
<1>h. h = (s \o p) \o c
  BY DEF Header
<1> HIDE DEF s, p, c
<1>4. s \o p \in Seq(Digit) /\ Joins(s, p, s \o p)
  BY <1>1, <1>2, Joining, Zenon
<1>5. h \in Seq(Digit) /\ Joins(s \o p, c, h)
  BY <1>3, <1>4, <1>h, Joining, Zenon
<1> DEFINE q == s \o p
<1> HIDE DEF q
<1>6. Len(q) = 5 /\ q[1] = s[1] /\ q[2] = s[2] /\ q[3] = s[3] /\ q[3 + 1] = p[1] /\ q[3 + 2] = p[2]
  <2>1. Joins(s, p, q)
    BY <1>4 DEF q
  <2> QED
    BY <1>1, <1>2, <2>1 DEF Joins
<1>7. Len(h) = 6 /\ h[1] = q[1] /\ h[2] = q[2] /\ h[3] = q[3] /\ h[4] = q[4] /\ h[5] = q[5] /\ h[5 + 1] = c[1]
  <2>1. Joins(q, c, h)
    BY <1>5 DEF q
  <2> QED
    BY <1>3, <1>6, <2>1 DEF Joins
<1>8. q[4] = p[1] /\ q[5] = p[2] /\ h[6] = n
  BY <1>3, <1>6, <1>7
<1> QED
  BY <1>1, <1>5, <1>6, <1>7, <1>8, Zenon DEF p, HeaderIs

\* A packet on the wire is its header and the body of the edges that are sent.
LEMMA EncodeIs ==
  ASSUME NEW pkt \in Packet
  PROVE  \E b : /\ b \in Seq(Digit) /\ LaidOut(Sent(pkt.edges), Len(Sent(pkt.edges)), b)
                /\ encode(pkt) = Header(pkt, Len(Sent(pkt.edges))) \o b
<1> DEFINE e == Sent(pkt.edges)
           n == Len(e)
           D(h) == [i \in 0 .. n |-> IF i = 0 THEN <<>> ELSE h[i - 1] \o EncodeEdge(e[i])]
           s == CHOOSE h : h = D(h)
           G == [i \in 1 .. n |-> [x \in Seq(Digit) |-> x \o EncodeEdge(e[i])]]
<1>0. e \in Seq(WireEdge) /\ n \in Nat
  BY PacketType, SentType
<1>e. encode(pkt) = Header(pkt, n) \o s[n]
  BY Zenon DEF encode, Header
<1> HIDE DEF e
<1>1. PICK f : Bodies(e, n, f)
  BY <1>0, BodiesExist, Zenon
<1>2. /\ f \in [0 .. n -> Seq(Digit)] /\ f[0] = <<>>
      /\ \A i \in 1 .. n : f[i] = f[i - 1] \o EncodeEdge(e[i])
  BY <1>1, Zenon DEF Bodies
<1>3. f = D(f)
  <2>1. ASSUME NEW i \in 0 .. n PROVE f[i] = D(f)[i]
    <3>1. CASE i = 0
      BY <1>2, <3>1
    <3>2. CASE i # 0
      <4>1. i \in 1 .. n
        BY <3>2
      <4>2. f[i] = f[i - 1] \o EncodeEdge(e[i])
        BY <1>2, <4>1, Zenon
      <4> QED
        BY <3>2, <4>2
    <3> QED
      BY <3>1, <3>2
  <2>2. f = [i \in 0 .. n |-> f[i]]
    BY <1>2
  <2> QED
    BY <2>1, <2>2
<1>4. s = D(s)
  BY <1>3, Zenon
<1> HIDE DEF s
<1>5. Follows(Seq(Digit), n, <<>>, G, s)
  <2>1. \A i \in 0 .. n : s[i] = IF i = 0 THEN <<>> ELSE s[i - 1] \o EncodeEdge(e[i])
    BY <1>4
  <2>2. s = [i \in 0 .. n |-> s[i]]
    BY <1>4
  <2>3. s[0] = <<>>
    BY <1>0, <2>1
  <2>4. ASSUME NEW i \in 1 .. n, s[i - 1] \in Seq(Digit) PROVE s[i] = G[i][s[i - 1]]
    <3>1. i \in 0 .. n /\ i # 0
      BY <1>0
    <3>2. s[i] = s[i - 1] \o EncodeEdge(e[i])
      BY <2>1, <3>1, Zenon
    <3> QED
      BY <2>4, <3>2, Zenon
  <2> HIDE DEF G
  <2> QED
    BY <2>2, <2>3, <2>4, Zenon DEF Follows
<1>6. Iterated(Seq(Digit), n, <<>>, G, f)
  <2>1. ASSUME NEW i \in 1 .. n PROVE f[i] = G[i][f[i - 1]]
    <3>1. i - 1 \in 0 .. n
      BY <1>0
    <3>2. f[i - 1] \in Seq(Digit)
      BY <1>2, <3>1, Zenon
    <3>3. f[i] = f[i - 1] \o EncodeEdge(e[i])
      BY <1>2, Zenon
    <3> QED
      BY <3>2, <3>3, Zenon
  <2> HIDE DEF G
  <2> QED
    BY <1>2, <2>1, Zenon DEF Iterated
<1> HIDE DEF G
<1>7. s = f
  BY <1>0, <1>5, <1>6, IterationUnique, Zenon
<1>8. LaidOut(e, n, f[n])
  BY <1>0, <1>1, BodyLayout, Zenon
<1>9. f[n] \in Seq(Digit)
  <2>1. n \in 0 .. n
    BY <1>0
  <2> QED
    BY <1>2, <2>1, Zenon
<1> QED
  BY <1>e, <1>7, <1>8, <1>9, Zenon DEF e

\* buf is a whole datagram: the header fields, and n edges of e behind them.
WholeDatagram(pkt, e, n, buf) ==
  /\ buf \in Seq(Digit) /\ Len(buf) = 6 + n * EDGE_BYTES
  /\ buf[1] = MAGIC /\ buf[2] = VERSION /\ buf[3] = pkt.flags /\ buf[6] = n
  /\ SubSeq(buf, 4, 5) = PutInt(pkt.session_id, 2)
  /\ \A i \in 1 .. n : SubSeq(buf, 6 + (i - 1) * EDGE_BYTES + 1, 6 + (i - 1) * EDGE_BYTES + EDGE_BYTES)
                         = EncodeEdge(e[i])

LEMMA EncodedWhole ==
  ASSUME NEW pkt \in Packet
  PROVE  WholeDatagram(pkt, Sent(pkt.edges), Len(Sent(pkt.edges)), encode(pkt))
<1> DEFINE e == Sent(pkt.edges)
           n == Len(e)
           W == EDGE_BYTES
           h == Header(pkt, n)
           buf == encode(pkt)
           p == PutInt(pkt.session_id, 2)
<1>0. /\ e \in Seq(WireEdge) /\ n \in Digit /\ n \in Nat /\ W \in Nat
  <2>1. e \in Seq(WireEdge) /\ n \in Digit
    BY PacketType, SentType, Zenon
  <2>2. n \in Nat
    BY <2>1
  <2> QED
    BY <2>1, <2>2, Sizes
<1>1. PICK b : b \in Seq(Digit) /\ LaidOut(e, n, b) /\ buf = h \o b
  BY EncodeIs, Zenon
<1> HIDE DEF e, buf
<1>2. /\ h \in Seq(Digit) /\ Len(h) = 6 /\ h[1] = MAGIC /\ h[2] = VERSION /\ h[3] = pkt.flags
      /\ h[4] = p[1] /\ h[5] = p[2] /\ h[6] = n
  <2>1. HeaderIs(pkt, n, h)
    BY <1>0, HeaderLayout, Zenon
  <2> QED
    BY <2>1, Zenon DEF HeaderIs
<1>3. p \in Seq(Digit) /\ Len(p) = 2
  <2>1. 2 \in Nat /\ pkt.session_id \in Nat
    BY PacketType
  <2> QED
    BY <2>1, PutType, Zenon
<1> HIDE DEF h, p
<1>4. buf \in Seq(Digit) /\ Joins(h, b, buf)
  BY <1>1, <1>2, Joining, Zenon
<1>5. /\ Len(buf) = Len(h) + Len(b) /\ (\A i \in 1 .. Len(h) : buf[i] = h[i])
      /\ \A i \in 1 .. Len(b) : buf[Len(h) + i] = b[i]
  BY <1>4, Zenon DEF Joins
<1>6. /\ Len(b) = n * W
      /\ \A i \in 1 .. n : \A j \in 1 .. W : b[(i - 1) * W + j] = EncodeEdge(e[i])[j]
  BY <1>1, Zenon DEF LaidOut
<1>7. Len(buf) = 6 + n * W
  BY <1>2, <1>5, <1>6, Zenon
<1>n. n * W \in Nat
  BY <1>0
<1>8. /\ buf[1] = MAGIC /\ buf[2] = VERSION /\ buf[3] = pkt.flags /\ buf[6] = n
      /\ buf[4] = p[1] /\ buf[5] = p[2]
  <2>1. /\ 1 \in 1 .. Len(h) /\ 2 \in 1 .. Len(h) /\ 3 \in 1 .. Len(h) /\ 4 \in 1 .. Len(h)
        /\ 5 \in 1 .. Len(h) /\ 6 \in 1 .. Len(h)
    BY <1>2
  <2> QED
    BY <1>2, <1>5, <2>1, Zenon
<1>9. SubSeq(buf, 4, 5) = p
  <2>1. \A i \in 1 .. Len(p) : buf[3 + i] = p[i]
    <3> TAKE i \in 1 .. Len(p)
    <3>1. i = 1 \/ i = 2
      BY <1>3
    <3>2. 3 + 1 = 4 /\ 3 + 2 = 5
      OBVIOUS
    <3> QED
      BY <1>8, <3>1, <3>2, Zenon
  <2>2. 3 \in Nat /\ 3 + Len(p) <= Len(buf) /\ 3 + 1 = 4 /\ 3 + Len(p) = 5
    BY <1>3, <1>7, <1>n
  <2>3. SubSeq(buf, 3 + 1, 3 + Len(p)) = p
    BY <1>3, <1>4, <2>1, <2>2, Part, Zenon
  <2> QED
    BY <2>2, <2>3, Zenon
<1>10. ASSUME NEW i \in 1 .. n
       PROVE  SubSeq(buf, 6 + (i - 1) * W + 1, 6 + (i - 1) * W + W) = EncodeEdge(e[i])
  <2> DEFINE t == EncodeEdge(e[i])
             k == (i - 1) * W
  <2>1. e[i] \in WireEdge
    BY <1>0
  <2>2. t \in Seq(Digit) /\ Len(t) = W
    BY <2>1, EdgeType, Zenon
  <2>3. ASSUME NEW j \in 1 .. W PROVE buf[(6 + k) + j] = t[j]
    <3>1. k + j \in 1 .. n * W /\ k \in Nat
      BY <1>0, Slot, Zenon
    <3>2. (6 + k) + j = 6 + (k + j)
      BY <3>1
    <3>3. buf[6 + (k + j)] = b[k + j]
      BY <1>2, <1>5, <1>6, <3>1, Zenon
    <3>4. b[k + j] = t[j]
      BY <1>6, Zenon
    <3> QED
      BY <3>2, <3>3, <3>4, Zenon
  <2>4. W \in 1 .. W
    BY Sizes
  <2>5. k \in Nat /\ k + W <= n * W
    BY <1>0, <2>4, Slot, Zenon
  <2> HIDE DEF t, k
  <2>6. 6 + k \in Nat /\ (6 + k) + Len(t) <= Len(buf)
    BY <1>0, <1>7, <1>n, <2>2, <2>5
  <2>7. SubSeq(buf, (6 + k) + 1, (6 + k) + Len(t)) = t
    BY <1>4, <2>2, <2>3, <2>6, Part, Zenon
  <2> QED
    BY <2>2, <2>7, Zenon DEF t, k
<1> QED
  BY <1>4, <1>7, <1>8, <1>9, <1>10, Zenon DEF WholeDatagram, e, buf, p

\* What decode makes of a whole datagram.
LEMMA DecodeWhole ==
  ASSUME NEW pkt \in Packet, NEW e \in Seq(WireEdge), NEW n \in Nat, n = Len(e),
         NEW buf, WholeDatagram(pkt, e, n, buf)
  PROVE  /\ Accepts(buf)
         /\ decode(buf) = [session_id |-> pkt.session_id, flags |-> pkt.flags, edges |-> e]
<1> DEFINE W == EDGE_BYTES
           D(i) == DecodeEdge(SubSeq(buf, 6 + (i - 1) * W + 1, 6 + (i - 1) * W + W))
<1>0. /\ buf \in Seq(Digit) /\ Len(buf) = 6 + n * W /\ buf[1] = MAGIC /\ buf[2] = VERSION
      /\ buf[3] = pkt.flags /\ buf[6] = n /\ SubSeq(buf, 4, 5) = PutInt(pkt.session_id, 2)
  BY Zenon DEF WholeDatagram
<1>n. n * W \in Nat
  BY Sizes
<1>1. Accepts(buf)
  <2>1. Len(buf) >= 6 /\ Len(buf) >= 6 + buf[6] * W
    BY <1>0, <1>n
  <2> QED
    BY <1>0, <2>1, Zenon DEF Accepts, HEADER_BYTES
<1>2. ASSUME NEW i \in 1 .. n PROVE D(i) = e[i]
  <2>1. e[i] \in WireEdge
    OBVIOUS
  <2>2. SubSeq(buf, 6 + (i - 1) * W + 1, 6 + (i - 1) * W + W) = EncodeEdge(e[i])
    BY Zenon DEF WholeDatagram
  <2> QED
    BY <2>1, <2>2, EdgeRead, Zenon
<1>3. e = [i \in 1 .. n |-> e[i]]
  OBVIOUS
<1>4. [i \in 1 .. n |-> D(i)] = e
  <2> HIDE DEF D
  <2> QED
    BY <1>2, <1>3
<1>5. GetInt(PutInt(pkt.session_id, 2)) = pkt.session_id
  <2>1. 2 \in Nat /\ pkt.session_id \in Nat /\ FitsIn(pkt.session_id, 2)
    BY PacketType
  <2> QED
    BY <2>1, GetPut, Zenon
<1>6. decode(buf) = [session_id |-> GetInt(SubSeq(buf, 4, 5)), flags |-> buf[3],
                     edges |-> [i \in 1 .. buf[6] |-> D(i)]]
  BY Zenon DEF decode, HEADER_BYTES
<1> QED
  BY <1>0, <1>1, <1>4, <1>5, <1>6, Zenon

\* A datagram that is accepted has all its bytes.
LEMMA CutRefused ==
  ASSUME NEW pkt, NEW e, NEW n \in Nat, NEW buf, WholeDatagram(pkt, e, n, buf),
         NEW k \in 1 .. Len(buf), Accepts(SubSeq(buf, 1, k))
  PROVE  SubSeq(buf, 1, k) = buf
<1> DEFINE w == SubSeq(buf, 1, k)
<1>0. buf \in Seq(Digit) /\ Len(buf) = 6 + n * EDGE_BYTES /\ buf[6] = n
  BY Zenon DEF WholeDatagram
<1>1. w = [i \in 1 .. k |-> buf[i]] /\ Len(w) = k
  BY <1>0
<1>2. Len(w) >= 6 /\ Len(w) >= 6 + w[6] * EDGE_BYTES
  BY Zenon DEF Accepts, HEADER_BYTES
<1> HIDE DEF w
<1>3. 6 \in 1 .. k
  BY <1>1, <1>2
<1>4. w[6] = n
  BY <1>0, <1>1, <1>3
<1>5. k >= 6 + n * EDGE_BYTES
  BY <1>1, <1>2, <1>4, Zenon
<1>6. k = Len(buf)
  <2>1. n * EDGE_BYTES \in Nat
    BY Sizes
  <2> QED
    BY <1>0, <1>5, <2>1
<1>7. buf = [i \in 1 .. Len(buf) |-> buf[i]]
  BY <1>0
<1> QED
  BY <1>1, <1>6, <1>7, Zenon DEF w

\* The samples the theorem is about: any packet whose fields have their widths,
\* of which at least one byte arrives (receive_loop drops an empty datagram).
WireSample ==
  sample.kind = "wire" => sample.pkt \in Packet /\ sample.size \in 1 .. Len(encode(sample.pkt))

\* encode and decode (remote_key_protocol.h), for every width of a byte and of a
\* timestamp, every limit on the edges, every packet and every cut: what is
\* accepted is what was sent, with the freshest of its edges in their order.
THEOREM PacketsSurvive == WireSample => WireRoundTrip
<1> SUFFICES ASSUME sample.kind = "wire", sample.pkt \in Packet,
                    sample.size \in 1 .. Len(encode(sample.pkt))
             PROVE  WireRoundTrip
  BY Zenon DEF WireSample, WireRoundTrip
<1> DEFINE pkt == sample.pkt
           e == Sent(pkt.edges)
           buf == encode(pkt)
           got == decode(Wire).edges
<1>0. /\ e \in Seq(WireEdge) /\ Len(e) \in Nat
      /\ Len(e) = IF Len(pkt.edges) > MAX_EDGES THEN MAX_EDGES ELSE Len(pkt.edges)
      /\ e = SubSeq(pkt.edges, Len(pkt.edges) - Len(e) + 1, Len(pkt.edges))
  <2>1. pkt.edges \in Seq(WireEdge)
    BY PacketType, Zenon
  <2>2. \A s \in Seq(WireEdge) : Len(s) \in Nat
    OBVIOUS
  <2> QED
    BY <2>1, <2>2, SentType, Zenon
<1>1. WholeDatagram(pkt, e, Len(e), buf)
  BY EncodedWhole, Zenon
<1>2. /\ Accepts(buf)
      /\ decode(buf) = [session_id |-> pkt.session_id, flags |-> pkt.flags, edges |-> e]
  BY <1>0, <1>1, DecodeWhole, Zenon
<1>3. Wire = SubSeq(buf, 1, sample.size)
  BY Zenon DEF Wire
<1>4. ASSUME Accepts(Wire) PROVE Wire = buf
  BY <1>0, <1>1, <1>3, <1>4, CutRefused, Zenon
<1>5. pkt = [session_id |-> pkt.session_id, flags |-> pkt.flags, edges |-> pkt.edges]
  BY PacketType, Zenon
<1> HIDE DEF pkt, e, buf
<1>6. ASSUME Accepts(Wire)
      PROVE  /\ [decode(Wire) EXCEPT !.edges = <<>>] = [pkt EXCEPT !.edges = <<>>]
             /\ got = e
  <2>1. decode(Wire) = [session_id |-> pkt.session_id, flags |-> pkt.flags, edges |-> e]
    BY <1>2, <1>4, <1>6, Zenon
  <2>2. got = e
    BY <2>1
  <2>3. [decode(Wire) EXCEPT !.edges = <<>>]
          = [session_id |-> pkt.session_id, flags |-> pkt.flags, edges |-> <<>>]
    BY <2>1
  <2>4. [pkt EXCEPT !.edges = <<>>]
          = [session_id |-> pkt.session_id, flags |-> pkt.flags, edges |-> <<>>]
    BY <1>5
  <2> QED
    BY <2>2, <2>3, <2>4, Zenon
<1> QED
  BY <1>0, <1>2, <1>6, Zenon DEF WireRoundTrip, pkt, buf

-----------------------------------------------------------------------------
(* What the keyer hears of a sequence of bytes.                              *)

Octet == 0 .. 255

Keys == Octet \X Octet

Hearings == [text : Seq(Keys), speed : Octet, command : BOOLEAN]

HearStart(initial) == [text |-> <<>>, speed |-> initial, command |-> FALSE]

\* f[i] is what is heard of the first i bytes.
HeardBy(bytes, initial, n, f) ==
  /\ f \in [0 .. n -> Hearings] /\ f[0] = HearStart(initial)
  /\ \A i \in 1 .. n : f[i] = HearByte(f[i - 1], bytes[i])

LEMMA HearStep ==
  ASSUME NEW a \in Hearings, NEW c \in Octet
  PROVE  /\ HearByte(a, c) \in Hearings
         /\ a.command => HearByte(a, c) = [text |-> a.text, speed |-> c, command |-> FALSE]
         /\ ~a.command /\ c = BufferedSpeed
              => HearByte(a, c) = [text |-> a.text, speed |-> a.speed, command |-> TRUE]
         /\ ~a.command /\ c # BufferedSpeed
              => HearByte(a, c) = [text |-> Append(a.text, <<c, a.speed>>), speed |-> a.speed,
                                   command |-> FALSE]
<1>1. /\ a.text \in Seq(Keys) /\ a.speed \in Octet /\ a.command \in BOOLEAN
      /\ a = [text |-> a.text, speed |-> a.speed, command |-> a.command]
  BY DEF Hearings
<1>2. CASE a.command
  <2>1. HearByte(a, c) = [a EXCEPT !.command = FALSE, !.speed = c]
    BY <1>2 DEF HearByte
  <2>2. HearByte(a, c) = [text |-> a.text, speed |-> c, command |-> FALSE]
    BY <1>1, <2>1
  <2>3. HearByte(a, c) \in Hearings
    BY <1>1, <2>2 DEF Hearings
  <2> QED
    BY <1>2, <2>2, <2>3, Zenon
<1>3. CASE ~a.command /\ c = BufferedSpeed
  <2>1. HearByte(a, c) = [a EXCEPT !.command = TRUE]
    BY <1>3, Zenon DEF HearByte
  <2>2. HearByte(a, c) = [text |-> a.text, speed |-> a.speed, command |-> TRUE]
    BY <1>1, <2>1
  <2>3. HearByte(a, c) \in Hearings
    BY <1>1, <2>2 DEF Hearings
  <2> QED
    BY <1>3, <2>2, <2>3, Zenon
<1>4. CASE ~a.command /\ c # BufferedSpeed
  <2> DEFINE t == Append(a.text, <<c, a.speed>>)
  <2>0. t \in Seq(Keys)
    <3>1. <<c, a.speed>> \in Keys
      BY <1>1 DEF Keys
    <3> QED
      BY <1>1, <3>1
  <2>1. HearByte(a, c) = [a EXCEPT !.text = t]
    BY <1>4 DEF HearByte
  <2> HIDE DEF t
  <2>2. HearByte(a, c) = [text |-> t, speed |-> a.speed, command |-> a.command]
    BY <1>1, <2>1
  <2>3. HearByte(a, c) = [text |-> t, speed |-> a.speed, command |-> FALSE]
    <3>1. a.command = FALSE
      BY <1>1, <1>4
    <3> QED
      BY <2>2, <3>1, Zenon
  <2>4. HearByte(a, c) \in Hearings
    BY <1>1, <2>0, <2>3 DEF Hearings
  <2> QED
    BY <1>4, <2>3, <2>4, Zenon DEF t
<1> QED
  BY <1>2, <1>3, <1>4

LEMMA StartType ==
  ASSUME NEW initial \in Octet
  PROVE  HearStart(initial) \in Hearings
BY DEF HearStart, Hearings

LEMMA HeardByExists ==
  ASSUME NEW bytes \in Seq(Octet), NEW initial \in Octet, NEW n \in Nat, n = Len(bytes)
  PROVE  \E f : HeardBy(bytes, initial, n, f)
<1> DEFINE G == [i \in 1 .. n |-> [x \in Hearings |-> HearByte(x, bytes[i])]]
<1>0. \A i \in 1 .. n : bytes[i] \in Octet
  OBVIOUS
<1>1. G \in [1 .. n -> [Hearings -> Hearings]]
  <2>1. ASSUME NEW i \in 1 .. n, NEW x \in Hearings PROVE HearByte(x, bytes[i]) \in Hearings
    BY <1>0, HearStep, Zenon
  <2> QED
    BY <2>1
<1>2. PICK f : Iterated(Hearings, n, HearStart(initial), G, f)
  BY <1>1, StartType, IterationExists, Zenon
<1>3. /\ f \in [0 .. n -> Hearings] /\ f[0] = HearStart(initial)
      /\ \A i \in 1 .. n : f[i] = G[i][f[i - 1]]
  BY <1>2, Zenon DEF Iterated
<1>4. ASSUME NEW i \in 1 .. n PROVE f[i] = HearByte(f[i - 1], bytes[i])
  <2>0. i - 1 \in 0 .. n
    OBVIOUS
  <2>1. f[i - 1] \in Hearings
    BY <1>3, <2>0, Zenon
  <2>2. G[i][f[i - 1]] = HearByte(f[i - 1], bytes[i])
    BY <2>1, Zenon
  <2> QED
    BY <1>3, <2>2, Zenon
<1> QED
  BY <1>3, <1>4, Zenon DEF HeardBy

LEMMA HeardIs ==
  ASSUME NEW bytes, NEW initial \in Octet, NEW n \in Nat, n = Len(bytes),
         NEW f, HeardBy(bytes, initial, n, f)
  PROVE  Heard(bytes, initial) = f[n]
<1> DEFINE a == HearStart(initial)
           G == [i \in 1 .. n |-> [x \in Hearings |-> HearByte(x, bytes[i])]]
           D(h) == [i \in 0 .. Len(bytes) |-> IF i = 0 THEN a ELSE HearByte(h[i - 1], bytes[i])]
           s == CHOOSE h : h = D(h)
<1>0. /\ f \in [0 .. n -> Hearings] /\ f[0] = a
      /\ \A i \in 1 .. n : f[i] = HearByte(f[i - 1], bytes[i])
  BY Zenon DEF HeardBy
<1>h. Heard(bytes, initial) = s[Len(bytes)]
  BY Zenon DEF Heard, HearStart
<1> HIDE DEF a
<1>1. f = D(f)
  <2>1. ASSUME NEW i \in 0 .. n PROVE f[i] = D(f)[i]
    <3>1. CASE i = 0
      BY <1>0, <3>1
    <3>2. CASE i # 0
      <4>1. i \in 1 .. n
        BY <3>2
      <4>2. f[i] = HearByte(f[i - 1], bytes[i])
        BY <1>0, <4>1, Zenon
      <4> QED
        BY <3>2, <4>2
    <3> QED
      BY <3>1, <3>2
  <2>2. f = [i \in 0 .. n |-> f[i]]
    BY <1>0
  <2> QED
    BY <2>1, <2>2
<1>2. s = D(s)
  BY <1>1, Zenon
<1> HIDE DEF s
<1>3. Follows(Hearings, n, a, G, s)
  <2>1. \A i \in 0 .. n : s[i] = IF i = 0 THEN a ELSE HearByte(s[i - 1], bytes[i])
    BY <1>2
  <2>2. s = [i \in 0 .. n |-> s[i]]
    BY <1>2
  <2>3. s[0] = a
    BY <2>1
  <2>4. ASSUME NEW i \in 1 .. n, s[i - 1] \in Hearings PROVE s[i] = G[i][s[i - 1]]
    <3>1. i \in 0 .. n /\ i # 0
      OBVIOUS
    <3>2. s[i] = HearByte(s[i - 1], bytes[i])
      BY <2>1, <3>1, Zenon
    <3> QED
      BY <2>4, <3>2, Zenon
  <2> HIDE DEF G
  <2> QED
    BY <2>2, <2>3, <2>4, Zenon DEF Follows
<1>4. Iterated(Hearings, n, a, G, f)
  <2>1. ASSUME NEW i \in 1 .. n PROVE f[i] = G[i][f[i - 1]]
    <3>1. i - 1 \in 0 .. n
      OBVIOUS
    <3>2. f[i - 1] \in Hearings
      BY <1>0, <3>1, Zenon
    <3>3. f[i] = HearByte(f[i - 1], bytes[i])
      BY <1>0, Zenon
    <3> QED
      BY <3>2, <3>3, Zenon
  <2> HIDE DEF G
  <2> QED
    BY <1>0, <2>1, Zenon DEF Iterated
<1> HIDE DEF G
<1>5. s = f
  BY <1>3, <1>4, IterationUnique, Zenon
<1> QED
  BY <1>h, <1>5, Zenon

\* Hearing goes from left to right.
LEMMA HeardAppend ==
  ASSUME NEW s \in Seq(Octet), NEW c \in Octet, NEW initial \in Octet
  PROVE  /\ Heard(s, initial) \in Hearings
         /\ Heard(s \o <<c>>, initial) = HearByte(Heard(s, initial), c)
<1> DEFINE t == <<c>>
           u == s \o t
           n == Len(s)
<1>0. t \in Seq(Octet) /\ Len(t) = 1 /\ t[1] = c /\ n \in Nat
  OBVIOUS
<1> HIDE DEF t
<1>1. u \in Seq(Octet) /\ Joins(s, t, u)
  BY <1>0, Joining, Zenon
<1> HIDE DEF u
<1>2. Len(u) = n + 1 /\ (\A i \in 1 .. n : u[i] = s[i]) /\ u[n + 1] = c
  BY <1>0, <1>1 DEF Joins
<1>3. n + 1 \in Nat
  BY <1>0
<1>4. PICK f : HeardBy(u, initial, n + 1, f)
  BY <1>1, <1>2, <1>3, HeardByExists, Zenon
<1>5. /\ f \in [0 .. n + 1 -> Hearings] /\ f[0] = HearStart(initial)
      /\ \A i \in 1 .. n + 1 : f[i] = HearByte(f[i - 1], u[i])
  BY <1>4, Zenon DEF HeardBy
<1>6. Heard(u, initial) = f[n + 1]
  BY <1>2, <1>3, <1>4, HeardIs, Zenon
<1> DEFINE g == [i \in 0 .. n |-> f[i]]
<1>7. g \in [0 .. n -> Hearings] /\ g[0] = HearStart(initial) /\ g[n] = f[n]
  BY <1>0, <1>5
<1>8. ASSUME NEW i \in 1 .. n PROVE g[i] = HearByte(g[i - 1], s[i])
  <2>1. i \in 1 .. n + 1 /\ i \in 0 .. n /\ i - 1 \in 0 .. n
    BY <1>0
  <2>2. g[i] = f[i] /\ g[i - 1] = f[i - 1]
    BY <2>1
  <2> QED
    BY <1>2, <1>5, <2>1, <2>2, Zenon
<1> HIDE DEF g
<1>9. HeardBy(s, initial, n, g)
  BY <1>7, <1>8, Zenon DEF HeardBy
<1>10. Heard(s, initial) = f[n]
  BY <1>0, <1>7, <1>9, HeardIs, Zenon
<1>11. n \in 0 .. n + 1 /\ n + 1 \in 1 .. n + 1 /\ (n + 1) - 1 = n
  BY <1>0
<1>12. f[n] \in Hearings /\ f[n + 1] = HearByte(f[n], u[n + 1])
  BY <1>5, <1>11, Zenon
<1> QED
  BY <1>2, <1>6, <1>10, <1>12, Zenon DEF u, t

LEMMA HeardNothing ==
  ASSUME NEW initial \in Octet
  PROVE  Heard(<<>>, initial) = HearStart(initial)
<1>1. <<>> \in Seq(Octet) /\ 0 \in Nat /\ 0 = Len(<<>>)
  OBVIOUS
<1>2. PICK f : HeardBy(<<>>, initial, 0, f)
  BY <1>1, HeardByExists, Zenon
<1>3. Heard(<<>>, initial) = f[0]
  BY <1>1, <1>2, HeardIs, Zenon
<1> QED
  BY <1>2, <1>3, Zenon DEF HeardBy

\* The bytes of s are heard as text and leave the keyer at speed.
Sounds(s, initial, text, speed) ==
  Heard(s, initial) = [text |-> text, speed |-> speed, command |-> FALSE]

\* A character is keyed at the speed in force.
LEMMA HeardKey ==
  ASSUME NEW s \in Seq(Octet), NEW initial \in Octet, NEW text, NEW speed,
         Sounds(s, initial, text, speed), NEW c \in Octet, c # BufferedSpeed
  PROVE  Sounds(s \o <<c>>, initial, Append(text, <<c, speed>>), speed)
<1> USE DEF Sounds
<1> DEFINE a == Heard(s, initial)
           u == s \o <<c>>
<1>1. a \in Hearings /\ Heard(u, initial) = HearByte(a, c)
  BY HeardAppend, Zenon
<1>2. a.text = text /\ a.speed = speed /\ ~a.command
  OBVIOUS
<1> HIDE DEF a, u
<1> QED
  BY <1>1, <1>2, HearStep, Zenon DEF u

\* A speed change is heard as one, whatever the speed.
LEMMA HeardSpeed ==
  ASSUME NEW s \in Seq(Octet), NEW initial \in Octet, ~Heard(s, initial).command, NEW n \in Octet
  PROVE  Sounds(s \o <<BufferedSpeed, n>>, initial, Heard(s, initial).text, n)
<1> DEFINE a == Heard(s, initial)
           x == <<BufferedSpeed>>
           u == s \o x
           b == [text |-> a.text, speed |-> a.speed, command |-> TRUE]
<1>0. BufferedSpeed \in Octet /\ x \in Seq(Octet)
  BY DEF BufferedSpeed, Octet
<1>1. a \in Hearings /\ Heard(u, initial) = HearByte(a, BufferedSpeed)
  BY <1>0, HeardAppend, Zenon
<1>2. Heard(u, initial) = b
  <2> HIDE DEF a, u
  <2> QED
    BY <1>0, <1>1, HearStep, Zenon DEF a
<1>3. u \in Seq(Octet)
  <2> HIDE DEF x
  <2> QED
    BY <1>0, Joining, Zenon
<1>4. b \in Hearings /\ Heard(u \o <<n>>, initial) = HearByte(b, n)
  <2> HIDE DEF u, b
  <2> QED
    BY <1>2, <1>3, HeardAppend, Zenon
<1>5. b.command = TRUE /\ b.text = a.text
  OBVIOUS
<1>6. Heard(u \o <<n>>, initial) = [text |-> a.text, speed |-> n, command |-> FALSE]
  <2> HIDE DEF b, u, a
  <2>1. b.command
    BY <1>5
  <2> QED
    BY <1>4, <1>5, <2>1, HearStep, Zenon
<1>7. u \o <<n>> = s \o <<BufferedSpeed, n>>
  BY <1>0
<1> QED
  BY <1>6, <1>7, Zenon DEF Sounds

LEMMA FourMore ==
  ASSUME NEW X, NEW t \in Seq(X), NEW k \in X
  PROVE  Append(Append(Append(Append(t, k), k), k), k) = t \o <<k, k, k, k>>
OBVIOUS

LEMMA HeardBars ==
  ASSUME NEW s \in Seq(Octet), NEW initial \in Octet, NEW text \in Seq(Keys), NEW speed \in Octet,
         Sounds(s, initial, text, speed), NEW k, k = <<Bar, speed>>
  PROVE  Sounds(s \o <<Bar, Bar, Bar, Bar>>, initial, text \o <<k, k, k, k>>, speed)
<1> DEFINE s1 == s \o <<Bar>>
           s2 == s1 \o <<Bar>>
           s3 == s2 \o <<Bar>>
           s4 == s3 \o <<Bar>>
           t1 == Append(text, k)
           t2 == Append(t1, k)
           t3 == Append(t2, k)
           t4 == Append(t3, k)
<1>a. Bar \in Octet /\ Bar # BufferedSpeed
  BY DEF Bar, BufferedSpeed, Octet
<1>b. k \in Keys
  BY <1>a DEF Keys
<1>c. \A u \in Seq(Octet) : \A t : Sounds(u, initial, t, speed)
                                  => Sounds(u \o <<Bar>>, initial, Append(t, k), speed)
  BY <1>a, HeardKey, Zenon
<1>1. s1 \in Seq(Octet) /\ s2 \in Seq(Octet) /\ s3 \in Seq(Octet)
  BY <1>a
<1>6. s4 = s \o <<Bar, Bar, Bar, Bar>>
  BY <1>a
<1>7. t4 = text \o <<k, k, k, k>>
  BY <1>b, FourMore, Zenon
<1>2. Sounds(s1, initial, t1, speed)
  BY <1>c, Zenon
<1> HIDE DEF s1, t1
<1>3. Sounds(s2, initial, t2, speed)
  BY <1>c, <1>1, <1>2, Zenon
<1> HIDE DEF s2, t2
<1>4. Sounds(s3, initial, t3, speed)
  BY <1>c, <1>1, <1>3, Zenon
<1> HIDE DEF s3, t3
<1>5. Sounds(s4, initial, t4, speed)
  BY <1>c, <1>1, <1>4, Zenon
<1> QED
  BY <1>5, <1>6, <1>7, Zenon

-----------------------------------------------------------------------------
(* What a text asks for, byte by byte.                                       *)

LEMMA CountStep ==
  ASSUME NEW chars, NEW c, NEW k \in Nat
  PROVE  /\ Count(chars, c, 0) = 0 /\ Count(chars, c, k) \in Nat
         /\ Count(chars, c, k + 1) = Count(chars, c, k) + (IF chars[k + 1] = c THEN 1 ELSE 0)
<1> DEFINE S(m) == {j \in 1 .. m : chars[j] = c}
<1>1. S(0) = {}
  OBVIOUS
<1>2. IsFiniteSet(S(k)) /\ Cardinality(S(k)) \in Nat
  <2>1. IsFiniteSet(1 .. k)
    BY FS_Interval
  <2>2. IsFiniteSet(S(k))
    <3>1. S(k) \subseteq 1 .. k
      OBVIOUS
    <3> QED
      BY <2>1, <3>1, FS_Subset, Zenon
  <2> QED
    BY <2>2, FS_CardinalityType, Zenon
<1>3. CASE chars[k + 1] = c
  <2>1. S(k + 1) = S(k) \cup {k + 1} /\ k + 1 \notin S(k)
    BY <1>3
  <2> HIDE DEF S
  <2>2. Cardinality(S(k + 1)) = Cardinality(S(k)) + 1
    BY <1>2, <2>1, FS_AddElement
  <2> QED
    BY <1>1, <1>2, <1>3, <2>2, FS_EmptySet DEF Count, S
<1>4. CASE chars[k + 1] # c
  <2>1. S(k + 1) = S(k)
    BY <1>4
  <2>2. Cardinality(S(k)) + 0 = Cardinality(S(k))
    BY <1>2
  <2>3. Cardinality(S(k + 1)) = Cardinality(S(k)) + 0 /\ Cardinality(S(0)) = 0
    BY <1>1, <2>1, <2>2, FS_EmptySet
  <2> QED
    BY <1>2, <1>4, <2>3, Zenon DEF Count
<1> QED
  BY <1>3, <1>4

LEMMA SpeedSum ==
  ASSUME NEW n \in Int, NEW d \in Int
  PROVE  ((n % 256) + d) % 256 = (n + d) % 256 /\ n % 256 \in Octet
BY DEF Octet

\* The change of speed one byte asks for.
Change(c) == IF c = Plus THEN 2 ELSE IF c = Minus THEN -2 ELSE 0

\* The speed after byte k + 1.
Speeding(chars, initial, k) ==
  Speed(chars, initial, k + 1) = (Speed(chars, initial, k) + Change(chars[k + 1])) % 256

LEMMA SpeedStep ==
  ASSUME NEW chars, NEW initial \in Octet, NEW k \in Nat
  PROVE  /\ Speed(chars, initial, 0) = initial /\ Speed(chars, initial, k) \in Octet
         /\ Speeding(chars, initial, k)
<1> DEFINE p == Count(chars, Plus, k)
           m == Count(chars, Minus, k)
           c == chars[k + 1]
           v == initial + 2 * p - 2 * m
<1>0. initial \in Int /\ initial % 256 = initial /\ Plus # Minus
  BY DEF Octet, Plus, Minus
<1>1. /\ p \in Nat /\ m \in Nat /\ Count(chars, Plus, 0) = 0 /\ Count(chars, Minus, 0) = 0
      /\ Count(chars, Plus, k + 1) = p + (IF c = Plus THEN 1 ELSE 0)
      /\ Count(chars, Minus, k + 1) = m + (IF c = Minus THEN 1 ELSE 0)
  <2>1. /\ Count(chars, Plus, 0) = 0 /\ p \in Nat
        /\ Count(chars, Plus, k + 1) = p + (IF c = Plus THEN 1 ELSE 0)
    BY CountStep
  <2>2. /\ Count(chars, Minus, 0) = 0 /\ m \in Nat
        /\ Count(chars, Minus, k + 1) = m + (IF c = Minus THEN 1 ELSE 0)
    BY CountStep
  <2> QED
    BY <2>1, <2>2, Zenon
<1>2. Speed(chars, initial, k) = v % 256
  BY DEF Speed
<1>3. Speed(chars, initial, k + 1)
        = (initial + 2 * (p + (IF c = Plus THEN 1 ELSE 0)) - 2 * (m + (IF c = Minus THEN 1 ELSE 0))) % 256
  BY <1>1, Zenon DEF Speed
<1> HIDE DEF p, m, c
<1>4. v \in Int
  BY <1>0, <1>1
<1>5. Speed(chars, initial, k + 1) = (v + Change(c)) % 256
  <2>1. initial + 2 * (p + (IF c = Plus THEN 1 ELSE 0)) - 2 * (m + (IF c = Minus THEN 1 ELSE 0))
          = v + Change(c)
    BY <1>0, <1>1 DEF Change
  <2> QED
    BY <1>3, <2>1, Zenon
<1>7. Change(c) \in Int
  BY DEF Change
<1> HIDE DEF v
<1>8. ((v % 256) + Change(c)) % 256 = (v + Change(c)) % 256 /\ v % 256 \in Octet
  BY <1>4, <1>7, SpeedSum
<1>9. Speed(chars, initial, 0) = initial
  <2>1. Speed(chars, initial, 0) = (initial + 2 * 0 - 2 * 0) % 256
    BY <1>1, Zenon DEF Speed
  <2> QED
    BY <1>0, <2>1
<1> QED
  BY <1>2, <1>5, <1>8, <1>9, Zenon DEF c, Speeding

\* A '~' asks for a gap, a character takes it.
LEMMA GapStep ==
  ASSUME NEW chars \in Seq(Octet), NEW k \in Nat, k + 1 <= Len(chars)
  PROVE  /\ ~Gap(chars, 0)
         /\ chars[k + 1] = Tilde => Gap(chars, k + 1)
         /\ k + 1 \in Kept(chars) => ~Gap(chars, k + 1)
         /\ chars[k + 1] # Tilde /\ k + 1 \notin Kept(chars) => (Gap(chars, k + 1) <=> Gap(chars, k))
<1> DEFINE K == Kept(chars)
<1>0. ~Gap(chars, 0)
  BY DEF Gap
<1>1. ASSUME chars[k + 1] = Tilde PROVE Gap(chars, k + 1)
  <2>1. k + 1 \notin K
    BY <1>1 DEF Kept
  <2>2. k + 1 \in 1 .. k + 1 /\ \A i \in (k + 1) .. (k + 1) : i = k + 1
    OBVIOUS
  <2> HIDE DEF K
  <2>3. \A i \in (k + 1) .. (k + 1) : i \notin K
    BY <2>1, <2>2, Zenon
  <2> QED
    BY <1>1, <2>2, <2>3, Zenon DEF Gap, K
<1>2. ASSUME k + 1 \in K PROVE ~Gap(chars, k + 1)
  <2> HIDE DEF K
  <2>1. \A j \in 1 .. k + 1 : k + 1 \in j .. k + 1
    OBVIOUS
  <2> QED
    BY <1>2, <2>1, Zenon DEF Gap, K
<1>3. ASSUME chars[k + 1] # Tilde, k + 1 \notin K PROVE Gap(chars, k + 1) <=> Gap(chars, k)
  <2> HIDE DEF K
  <2>1. ASSUME NEW j \in 1 .. k + 1, chars[j] = Tilde, \A i \in j .. k + 1 : i \notin K
        PROVE  Gap(chars, k)
    <3>1. j # k + 1
      BY <1>3, <2>1
    <3>2. j \in 1 .. k /\ \A i \in j .. k : i \in j .. k + 1
      BY <3>1
    <3> QED
      BY <2>1, <3>2, Zenon DEF Gap, K
  <2>2. ASSUME NEW j \in 1 .. k, chars[j] = Tilde, \A i \in j .. k : i \notin K
        PROVE  Gap(chars, k + 1)
    <3>1. j \in 1 .. k + 1 /\ \A i \in j .. k + 1 : i \in j .. k \/ i = k + 1
      OBVIOUS
    <3>2. \A i \in j .. k + 1 : i \notin K
      BY <1>3, <2>2, <3>1, Zenon
    <3> QED
      BY <2>2, <3>1, <3>2, Zenon DEF Gap, K
  <2> QED
    BY <2>1, <2>2, Zenon DEF Gap, K
<1> QED
  BY <1>0, <1>1, <1>2, <1>3, Zenon

\* What one character asks for.
LEMMA BlockIs ==
  ASSUME NEW chars \in Seq(Octet), NEW initial \in Octet, NEW i \in 1 .. Len(chars)
  PROVE  /\ Block(chars, initial, i) \in Seq(Keys)
         /\ i \notin Kept(chars) => Block(chars, initial, i) = <<>>
         /\ i \in Kept(chars) =>
              /\ toupper(chars[i]) \in 32 .. 127
              /\ Block(chars, initial, i) =
                   <<<<toupper(chars[i]), Speed(chars, initial, i)>>>> \o
                     (IF Gap(chars, i - 1)
                        THEN <<<<Bar, Speed(chars, initial, i)>>, <<Bar, Speed(chars, initial, i)>>,
                               <<Bar, Speed(chars, initial, i)>>, <<Bar, Speed(chars, initial, i)>>>>
                        ELSE <<>>)
<1> DEFINE v == Speed(chars, initial, i)
           c == toupper(chars[i])
           x == <<c, v>>
           y == <<Bar, v>>
           z == IF Gap(chars, i - 1) THEN <<y, y, y, y>> ELSE <<>>
<1>0. v \in Octet
  <2>1. i \in Nat
    OBVIOUS
  <2> QED
    BY <2>1, SpeedStep, Zenon
<1>1. CASE i \notin Kept(chars)
  <2>1. Block(chars, initial, i) = <<>>
    BY <1>1, Zenon DEF Block
  <2>2. <<>> \in Seq(Keys)
    OBVIOUS
  <2> QED
    BY <1>1, <2>1, <2>2, Zenon
<1>2. CASE i \in Kept(chars)
  <2>1. Block(chars, initial, i) = <<x>> \o z
    BY <1>2, Zenon DEF Block
  <2>2. c \in 32 .. 127
    <3>1. chars[i] \in 1 .. 127 /\ chars[i] >= 32
      BY <1>2 DEF Kept
    <3>2. ASSUME NEW q \in 1 .. 127, q >= 32 PROVE toupper(q) \in 32 .. 127
      BY <3>2 DEF toupper
    <3> QED
      BY <3>1, <3>2, Zenon
  <2>3. x \in Keys /\ y \in Keys
    BY <1>0, <2>2 DEF Keys, Octet, Bar
  <2>4. z \in Seq(Keys) /\ <<x>> \in Seq(Keys)
    <3> HIDE DEF x, y
    <3>1. <<x>> \in Seq(Keys) /\ <<y, y, y, y>> \in Seq(Keys) /\ <<>> \in Seq(Keys)
      BY <2>3
    <3> QED
      BY <3>1, Zenon
  <2>5. <<x>> \o z \in Seq(Keys)
    <3> DEFINE w == <<x>>
    <3> HIDE DEF w, z
    <3>1. w \o z \in Seq(Keys)
      BY <2>4, Joining, Zenon DEF w
    <3> QED
      BY <3>1 DEF w
  <2> QED
    BY <1>2, <2>1, <2>2, <2>5, Zenon
<1> QED
  BY <1>1, <1>2

-----------------------------------------------------------------------------
(* What TextBytes has made of the first bytes of a text.                     *)

Scans == [out : Seq(Octet), speed : Octet, run : {0, Plus, Minus}, gap : BOOLEAN, ended : BOOLEAN]

ScanStart(initial) ==
  [out |-> <<>>, speed |-> initial, run |-> 0, gap |-> FALSE, ended |-> FALSE]

\* What the next byte is to the scan.
Ending(a, c) == a.ended \/ c \notin 1 .. 127
Sign(a, c)   == ~a.ended /\ c \in 1 .. 127 /\ c \in {Plus, Minus}
Silent(a, c) == ~a.ended /\ c \in 1 .. 127 /\ c \notin {Plus, Minus} /\ (c = Tilde \/ c < 32)
Spoken(a, c) == ~a.ended /\ c \in 1 .. 127 /\ c \notin {Plus, Minus, Tilde} /\ c >= 32

Bars(gap) == IF gap THEN <<Bar, Bar, Bar, Bar>> ELSE <<>>

\* The scan after one more byte, by what that byte is.
Advanced(a, c, b) ==
  /\ b \in Scans
  /\ Ending(a, c) => /\ b.out = a.out /\ b.speed = a.speed /\ b.run = a.run /\ b.ended
  /\ Sign(a, c) =>
       /\ b.speed = (a.speed + Change(c)) % 256 /\ b.gap = a.gap /\ ~b.ended
       /\ b.out = IF a.run = c THEN WithLast(a.out, b.speed) ELSE a.out \o <<BufferedSpeed, b.speed>>
  /\ Silent(a, c) =>
       /\ b.out = a.out /\ b.speed = a.speed /\ b.run = 0 /\ ~b.ended
       /\ b.gap = (c = Tilde \/ a.gap)
  /\ Spoken(a, c) =>
       /\ b.out = (a.out \o <<toupper(c)>>) \o Bars(a.gap) /\ b.speed = a.speed /\ b.run = 0
       /\ ~b.ended /\ ~b.gap

LEMMA ScanKinds ==
  ASSUME NEW a \in Scans, NEW c \in Octet
  PROVE  /\ Ending(a, c) \/ Sign(a, c) \/ Silent(a, c) \/ Spoken(a, c)
         /\ Ending(a, c) => ~Sign(a, c) /\ ~Silent(a, c) /\ ~Spoken(a, c)
         /\ Sign(a, c) => ~Silent(a, c) /\ ~Spoken(a, c)
         /\ Silent(a, c) => ~Spoken(a, c)
<1>1. a.ended \in BOOLEAN
  BY DEF Scans
<1> QED
  BY <1>1 DEF Ending, Sign, Silent, Spoken, Octet

LEMMA ScanAdvances ==
  ASSUME NEW a \in Scans, NEW c \in Octet, NEW initial \in Octet
  PROVE  Advanced(a, c, ScanByte(a, c, initial))
<1> DEFINE b == ScanByte(a, c, initial)
<1> SUFFICES Advanced(a, c, b)
  OBVIOUS
<1>0. /\ a.out \in Seq(Octet) /\ a.speed \in Octet /\ a.run \in {0, Plus, Minus}
      /\ a.gap \in BOOLEAN /\ a.ended \in BOOLEAN
      /\ a = [out |-> a.out, speed |-> a.speed, run |-> a.run, gap |-> a.gap, ended |-> a.ended]
  BY DEF Scans
<1>1. CASE Ending(a, c)
  <2>1. b = [a EXCEPT !.ended = TRUE]
    BY <1>1, Zenon DEF ScanByte, Ending
  <2>2. b = [out |-> a.out, speed |-> a.speed, run |-> a.run, gap |-> a.gap, ended |-> TRUE]
    BY <1>0, <2>1
  <2> HIDE DEF b
  <2>3. b \in Scans /\ b.out = a.out /\ b.speed = a.speed /\ b.run = a.run /\ b.ended
    BY <1>0, <2>2 DEF Scans
  <2> QED
    BY <1>1, <2>3, ScanKinds, Zenon DEF Advanced
<1>2. CASE Sign(a, c)
  <2> DEFINE v == SpeedAfter(a, c, initial)
             o == IF a.run = c THEN WithLast(a.out, v) ELSE a.out \o <<BufferedSpeed, v>>
  <2>1. v = (a.speed + Change(c)) % 256
    BY <1>2 DEF SpeedAfter, Change, Sign, Plus, Minus
  <2>2. v \in Octet
    <3>1. a.speed + Change(c) \in Int
      <4>0. \A q \in Octet : q \in Int
        BY DEF Octet
      <4>1. a.speed \in Int
        BY <1>0, <4>0, Zenon
      <4> QED
        BY <4>1 DEF Change
    <3> QED
      BY <2>1, <3>1, SpeedSum
  <2>3. b = [a EXCEPT !.speed = v, !.run = c, !.out = o]
    BY <1>2 DEF ScanByte, Sign, WithLast
  <2>4. o \in Seq(Octet)
    <3> DEFINE x == <<BufferedSpeed, v>>
    <3>1. BufferedSpeed \in Octet
      BY DEF BufferedSpeed, Octet
    <3> HIDE DEF v
    <3>2. x \in Seq(Octet)
      BY <2>2, <3>1
    <3> HIDE DEF x
    <3>3. a.out \o x \in Seq(Octet)
      BY <1>0, <3>2, Joining, Zenon
    <3>4. WithLast(a.out, v) \in Seq(Octet)
      BY <1>0, <2>2, WithLastIs, Zenon
    <3> QED
      BY <3>3, <3>4, Zenon DEF x
  <2> HIDE DEF b, v, o
  <2>5. b = [out |-> o, speed |-> v, run |-> c, gap |-> a.gap, ended |-> a.ended]
    BY <1>0, <2>3
  <2>6. c \in {0, Plus, Minus} /\ ~a.ended
    BY <1>2 DEF Sign
  <2>7. b \in Scans
    BY <1>0, <2>2, <2>4, <2>5, <2>6 DEF Scans
  <2>8. b.speed = v /\ b.gap = a.gap /\ ~b.ended /\ b.out = o
    BY <2>5, <2>6
  <2> QED
    BY <1>2, <2>1, <2>7, <2>8, ScanKinds, Zenon DEF Advanced, o
<1>3. CASE Silent(a, c)
  <2>1. CASE c = Tilde
    <3>1. b = [a EXCEPT !.gap = TRUE, !.run = 0]
      BY <1>3, <2>1, Zenon DEF ScanByte, Silent
    <3>2. b = [out |-> a.out, speed |-> a.speed, run |-> 0, gap |-> TRUE, ended |-> a.ended]
      BY <1>0, <3>1
    <3> HIDE DEF b
    <3>3. /\ b \in Scans /\ b.out = a.out /\ b.speed = a.speed /\ b.run = 0 /\ b.gap = TRUE
          /\ ~b.ended
      BY <1>0, <1>3, <3>2 DEF Scans, Silent
    <3> QED
      BY <1>3, <2>1, <3>3, ScanKinds, Zenon DEF Advanced
  <2>2. CASE c # Tilde
    <3>1. b = [a EXCEPT !.run = 0]
      BY <1>3, <2>2, Zenon DEF ScanByte, Silent
    <3>2. b = [out |-> a.out, speed |-> a.speed, run |-> 0, gap |-> a.gap, ended |-> a.ended]
      BY <1>0, <3>1
    <3> HIDE DEF b
    <3>3. /\ b \in Scans /\ b.out = a.out /\ b.speed = a.speed /\ b.run = 0 /\ b.gap = a.gap
          /\ ~b.ended
      BY <1>0, <1>3, <3>2 DEF Scans, Silent
    <3>4. b.gap = (c = Tilde \/ a.gap)
      BY <1>0, <2>2, <3>3
    <3> QED
      BY <1>3, <3>3, <3>4, ScanKinds, Zenon DEF Advanced
  <2> QED
    BY <2>1, <2>2
<1>4. CASE Spoken(a, c)
  <2> DEFINE x == <<toupper(c)>>
             z == Bars(a.gap)
             o == (a.out \o x) \o z
  <2>1. b = [a EXCEPT !.gap = FALSE, !.run = 0, !.out = o]
    BY <1>4 DEF ScanByte, Spoken, Bars
  <2>2. x \in Seq(Octet)
    <3>1. toupper(c) \in Octet
      BY <1>4 DEF toupper, Spoken, Octet
    <3> QED
      BY <3>1
  <2>3. z \in Seq(Octet)
    <3>1. <<Bar, Bar, Bar, Bar>> \in Seq(Octet) /\ <<>> \in Seq(Octet)
      BY DEF Bar, Octet
    <3> QED
      BY <3>1, Zenon DEF Bars
  <2> HIDE DEF x, z, b
  <2>4. o \in Seq(Octet)
    <3>1. a.out \o x \in Seq(Octet)
      BY <1>0, <2>2, Joining, Zenon
    <3> QED
      BY <2>3, <3>1, Joining, Zenon
  <2> HIDE DEF o
  <2>5. b = [out |-> o, speed |-> a.speed, run |-> 0, gap |-> FALSE, ended |-> a.ended]
    BY <1>0, <2>1
  <2>6. ~a.ended
    BY <1>4 DEF Spoken
  <2>7. b \in Scans
    BY <1>0, <2>4, <2>5 DEF Scans
  <2>8. b.out = o /\ b.speed = a.speed /\ b.run = 0 /\ ~b.ended /\ ~b.gap
    BY <2>5, <2>6
  <2> QED
    BY <1>4, <2>7, <2>8, ScanKinds, Zenon DEF Advanced, o, x, z
<1> QED
  BY <1>1, <1>2, <1>3, <1>4, ScanKinds, Zenon

\* f[i] is the scan of the first i bytes.
ScannedBy(chars, initial, n, f) ==
  /\ f \in [0 .. n -> Scans] /\ f[0] = ScanStart(initial)
  /\ \A i \in 1 .. n : f[i] = ScanByte(f[i - 1], chars[i], initial)

LEMMA TextBytesIs ==
  ASSUME NEW chars \in Seq(Octet), NEW initial \in Octet, NEW n \in Nat, n = Len(chars)
  PROVE  \E f : /\ ScannedBy(chars, initial, n, f)
                /\ TextBytes(chars, initial) = f[n].out \o Restore(f[n], initial)
<1> DEFINE a == ScanStart(initial)
           G == [i \in 1 .. n |-> [x \in Scans |-> ScanByte(x, chars[i], initial)]]
           D(h) == [i \in 0 .. Len(chars) |-> IF i = 0 THEN a ELSE ScanByte(h[i - 1], chars[i], initial)]
           s == CHOOSE h : h = D(h)
<1>t. TextBytes(chars, initial) = s[Len(chars)].out \o Restore(s[Len(chars)], initial)
  BY Zenon DEF TextBytes, ScanStart
<1>c. \A i \in 1 .. n : chars[i] \in Octet
  OBVIOUS
<1>a. a \in Scans
  BY DEF ScanStart, Scans
<1> HIDE DEF a
<1>g. G \in [1 .. n -> [Scans -> Scans]]
  <2>1. ASSUME NEW i \in 1 .. n, NEW x \in Scans PROVE ScanByte(x, chars[i], initial) \in Scans
    BY <1>c, ScanAdvances, Zenon DEF Advanced
  <2> QED
    BY <2>1
<1>1. PICK f : Iterated(Scans, n, a, G, f)
  BY <1>a, <1>g, IterationExists, Zenon
<1>2. f \in [0 .. n -> Scans] /\ f[0] = a /\ \A i \in 1 .. n : f[i] = G[i][f[i - 1]]
  BY <1>1, Zenon DEF Iterated
<1>3. ASSUME NEW i \in 1 .. n PROVE f[i] = ScanByte(f[i - 1], chars[i], initial)
  <2>0. i - 1 \in 0 .. n
    OBVIOUS
  <2>1. f[i - 1] \in Scans
    BY <1>2, <2>0, Zenon
  <2>2. G[i][f[i - 1]] = ScanByte(f[i - 1], chars[i], initial)
    BY <2>1, Zenon
  <2> QED
    BY <1>2, <2>2, Zenon
<1>4. f = D(f)
  <2>1. ASSUME NEW i \in 0 .. n PROVE f[i] = D(f)[i]
    <3>1. CASE i = 0
      BY <1>2, <3>1
    <3>2. CASE i # 0
      <4>1. i \in 1 .. n
        BY <3>2
      <4>2. f[i] = ScanByte(f[i - 1], chars[i], initial)
        BY <1>3, <4>1, Zenon
      <4> QED
        BY <3>2, <4>2
    <3> QED
      BY <3>1, <3>2
  <2>2. f = [i \in 0 .. n |-> f[i]]
    BY <1>2
  <2> QED
    BY <2>1, <2>2
<1>5. s = D(s)
  BY <1>4, Zenon
<1> HIDE DEF s
<1>6. Follows(Scans, n, a, G, s)
  <2>1. \A i \in 0 .. n : s[i] = IF i = 0 THEN a ELSE ScanByte(s[i - 1], chars[i], initial)
    BY <1>5
  <2>2. s = [i \in 0 .. n |-> s[i]]
    BY <1>5
  <2>3. s[0] = a
    BY <2>1
  <2>4. ASSUME NEW i \in 1 .. n, s[i - 1] \in Scans PROVE s[i] = G[i][s[i - 1]]
    <3>1. i \in 0 .. n /\ i # 0
      OBVIOUS
    <3>2. s[i] = ScanByte(s[i - 1], chars[i], initial)
      BY <2>1, <3>1, Zenon
    <3> QED
      BY <2>4, <3>2, Zenon
  <2> HIDE DEF G
  <2> QED
    BY <2>2, <2>3, <2>4, Zenon DEF Follows
<1> HIDE DEF G
<1>7. s = f
  BY <1>1, <1>6, IterationUnique, Zenon
<1>8. ScannedBy(chars, initial, n, f)
  BY <1>2, <1>3, Zenon DEF ScannedBy, a
<1> QED
  BY <1>t, <1>7, <1>8, Zenon

\* f[i] is what the first i bytes ask for.
AskedBy(chars, initial, n, f) ==
  /\ f \in [0 .. n -> Seq(Keys)] /\ f[0] = <<>>
  /\ \A i \in 1 .. n : f[i] = f[i - 1] \o Block(chars, initial, i)

LEMMA ExpectedIs ==
  ASSUME NEW chars \in Seq(Octet), NEW initial \in Octet, NEW n \in Nat, n = Len(chars)
  PROVE  \E f : AskedBy(chars, initial, n, f) /\ Expected(chars, initial) = f[n]
<1> DEFINE B(i) == Block(chars, initial, i)
           G == [i \in 1 .. n |-> [x \in Seq(Keys) |-> x \o B(i)]]
           D(h) == [i \in 0 .. Len(chars) |-> IF i = 0 THEN <<>> ELSE h[i - 1] \o B(i)]
           s == CHOOSE h : h = D(h)
<1>t. Expected(chars, initial) = s[Len(chars)]
  BY Zenon DEF Expected
<1>c. \A i \in 1 .. n : B(i) \in Seq(Keys)
  BY BlockIs, Zenon
<1> HIDE DEF B
<1>a. <<>> \in Seq(Keys)
  OBVIOUS
<1>g. G \in [1 .. n -> [Seq(Keys) -> Seq(Keys)]]
  <2>1. ASSUME NEW i \in 1 .. n, NEW x \in Seq(Keys) PROVE x \o B(i) \in Seq(Keys)
    BY <1>c, Joining, Zenon
  <2> QED
    BY <2>1
<1>1. PICK f : Iterated(Seq(Keys), n, <<>>, G, f)
  BY <1>a, <1>g, IterationExists, Zenon
<1>2. f \in [0 .. n -> Seq(Keys)] /\ f[0] = <<>> /\ \A i \in 1 .. n : f[i] = G[i][f[i - 1]]
  BY <1>1, Zenon DEF Iterated
<1>3. ASSUME NEW i \in 1 .. n PROVE f[i] = f[i - 1] \o B(i)
  <2>0. i - 1 \in 0 .. n
    OBVIOUS
  <2>1. f[i - 1] \in Seq(Keys)
    BY <1>2, <2>0, Zenon
  <2>2. G[i][f[i - 1]] = f[i - 1] \o B(i)
    BY <2>1, Zenon
  <2> QED
    BY <1>2, <2>2, Zenon
<1>4. f = D(f)
  <2>1. ASSUME NEW i \in 0 .. n PROVE f[i] = D(f)[i]
    <3>1. CASE i = 0
      BY <1>2, <3>1
    <3>2. CASE i # 0
      <4>1. i \in 1 .. n
        BY <3>2
      <4>2. f[i] = f[i - 1] \o B(i)
        BY <1>3, <4>1, Zenon
      <4> QED
        BY <3>2, <4>2
    <3> QED
      BY <3>1, <3>2
  <2>2. f = [i \in 0 .. n |-> f[i]]
    BY <1>2
  <2> QED
    BY <2>1, <2>2
<1>5. s = D(s)
  BY <1>4, Zenon
<1> HIDE DEF s
<1>6. Follows(Seq(Keys), n, <<>>, G, s)
  <2>1. \A i \in 0 .. n : s[i] = IF i = 0 THEN <<>> ELSE s[i - 1] \o B(i)
    BY <1>5
  <2>2. s = [i \in 0 .. n |-> s[i]]
    BY <1>5
  <2>3. s[0] = <<>>
    BY <2>1
  <2>4. ASSUME NEW i \in 1 .. n, s[i - 1] \in Seq(Keys) PROVE s[i] = G[i][s[i - 1]]
    <3>1. i \in 0 .. n /\ i # 0
      OBVIOUS
    <3>2. s[i] = s[i - 1] \o B(i)
      BY <2>1, <3>1, Zenon
    <3> QED
      BY <2>4, <3>2, Zenon
  <2> HIDE DEF G
  <2> QED
    BY <2>2, <2>3, <2>4, Zenon DEF Follows
<1> HIDE DEF G
<1>7. s = f
  BY <1>1, <1>6, IterationUnique, Zenon
<1>8. AskedBy(chars, initial, n, f)
  BY <1>2, <1>3, Zenon DEF AskedBy, B
<1> QED
  BY <1>t, <1>7, <1>8, Zenon

-----------------------------------------------------------------------------
(* The scan and the text it stands for go together, byte by byte.            *)

\* The bytes end in a change to the speed of the scan.
EndsInSpeed(a, initial) ==
  \E u \in Seq(Octet) : a.out = u \o <<BufferedSpeed, a.speed>> /\ ~Heard(u, initial).command

\* a is the scan of the first k bytes, which ask for text.
Tracks(chars, initial, a, text, k) ==
  /\ a \in Scans /\ text \in Seq(Keys)
  /\ a.ended <=> \E j \in 1 .. k : chars[j] \notin 1 .. 127
  /\ ~a.ended => a.speed = Speed(chars, initial, k) /\ (a.gap <=> Gap(chars, k))
  /\ Sounds(a.out, initial, text, a.speed)
  /\ a.run # 0 => EndsInSpeed(a, initial)

LEMMA TrackStart ==
  ASSUME NEW chars, NEW initial \in Octet
  PROVE  Tracks(chars, initial, ScanStart(initial), <<>>, 0)
<1> DEFINE a == ScanStart(initial)
<1>1. /\ a.out = <<>> /\ a.speed = initial /\ a.run = 0 /\ ~a.ended /\ ~a.gap
      /\ a \in Scans /\ <<>> \in Seq(Keys)
  BY DEF ScanStart, Scans
<1> HIDE DEF a
<1>2. ~\E j \in 1 .. 0 : chars[j] \notin 1 .. 127
  OBVIOUS
<1>3. Speed(chars, initial, 0) = initial
  <2>1. 0 \in Nat
    OBVIOUS
  <2> QED
    BY <2>1, SpeedStep, Zenon
<1>4. ~Gap(chars, 0)
  BY DEF Gap
<1>5. Sounds(<<>>, initial, <<>>, initial)
  BY HeardNothing, Zenon DEF Sounds, HearStart
<1> QED
  BY <1>1, <1>2, <1>3, <1>4, <1>5, Zenon DEF Tracks, a

\* What the next byte is, seen from the scan and from the text.
LEMMA NextByte ==
  ASSUME NEW chars \in Seq(Octet), NEW initial \in Octet, NEW k \in Nat, k + 1 <= Len(chars),
         NEW a, NEW text, Tracks(chars, initial, a, text, k)
  PROVE  /\ Ending(a, chars[k + 1]) <=> \E j \in 1 .. k + 1 : chars[j] \notin 1 .. 127
         /\ Spoken(a, chars[k + 1]) <=> k + 1 \in Kept(chars)
<1> DEFINE c == chars[k + 1]
           I(q) == q \in 1 .. 127
<1>1. \A j : j \in 1 .. k + 1 <=> j \in 1 .. k \/ j = k + 1
  OBVIOUS
<1>2. a.ended <=> \E j \in 1 .. k : ~I(chars[j])
  BY Zenon DEF Tracks
<1>3. Ending(a, c) <=> a.ended \/ ~I(c)
  BY Zenon DEF Ending
<1>4. k + 1 \in Kept(chars) <=>
        /\ \A j \in 1 .. k + 1 : I(chars[j])
        /\ c >= 32 /\ c \notin {Plus, Minus, Tilde}
  BY DEF Kept
<1>5. Spoken(a, c) <=> ~a.ended /\ I(c) /\ c \notin {Plus, Minus, Tilde} /\ c >= 32
  BY Zenon DEF Spoken
<1> HIDE DEF I
<1>6. Ending(a, c) <=> \E j \in 1 .. k + 1 : ~I(chars[j])
  BY <1>1, <1>2, <1>3, Zenon
<1>7. Spoken(a, c) <=> k + 1 \in Kept(chars)
  BY <1>1, <1>2, <1>4, <1>5, Zenon
<1> QED
  BY <1>6, <1>7, Zenon DEF I

\* A character, and the gap after it.
LEMMA SpokenSounds ==
  ASSUME NEW chars \in Seq(Octet), NEW initial \in Octet, NEW i \in 1 .. Len(chars),
         i \in Kept(chars), NEW s \in Seq(Octet), NEW text \in Seq(Keys), NEW speed \in Octet,
         Sounds(s, initial, text, speed), speed = Speed(chars, initial, i),
         NEW gap \in BOOLEAN, gap <=> Gap(chars, i - 1)
  PROVE  Sounds((s \o <<toupper(chars[i])>>) \o Bars(gap), initial,
                text \o Block(chars, initial, i), speed)
<1> DEFINE c == toupper(chars[i])
           x == <<c, speed>>
           y == <<Bar, speed>>
           w == s \o <<c>>
           t == Append(text, x)
<1>1. /\ c \in 32 .. 127
      /\ Block(chars, initial, i) =
           <<x>> \o (IF Gap(chars, i - 1) THEN <<y, y, y, y>> ELSE <<>>)
  BY BlockIs
<1> HIDE DEF c
<1>2. c \in Octet /\ c # BufferedSpeed
  BY <1>1 DEF Octet, BufferedSpeed
<1>3. x \in Keys /\ y \in Keys
  <2>1. Bar \in Octet
    BY DEF Bar, Octet
  <2> QED
    BY <1>2, <2>1 DEF Keys
<1>4. Sounds(w, initial, t, speed)
  BY <1>2, HeardKey, Zenon
<1>5. w \in Seq(Octet)
  BY <1>2
<1> HIDE DEF x, y
<1>6. t \in Seq(Keys) /\ t = text \o <<x>>
  BY <1>3
<1>7. CASE gap
  <2> DEFINE z == <<y, y, y, y>>
             p == <<x>>
  <2>1. Sounds(w \o <<Bar, Bar, Bar, Bar>>, initial, t \o z, speed)
    <3> HIDE DEF w, t
    <3> QED
      BY <1>4, <1>5, <1>6, HeardBars, Zenon DEF y
  <2>2. Block(chars, initial, i) = p \o z
    BY <1>1, <1>7, Zenon
  <2>3. z \in Seq(Keys) /\ p \in Seq(Keys)
    BY <1>3
  <2>4. Bars(gap) = <<Bar, Bar, Bar, Bar>>
    BY <1>7, Zenon DEF Bars
  <2>6. t = text \o p
    BY <1>6, Zenon
  <2> HIDE DEF z, p, t, w
  <2>7. Regrouped(text, p, z)
    BY <2>3, Regroup, Zenon
  <2>5. (text \o p) \o z = text \o (p \o z)
    BY <2>7 DEF Regrouped
  <2> QED
    BY <2>1, <2>2, <2>4, <2>5, <2>6, Zenon DEF w, c
<1>8. CASE ~gap
  <2> DEFINE p == <<x>>
  <2>1. Block(chars, initial, i) = p \o <<>>
    BY <1>1, <1>8, Zenon
  <2>2. Bars(gap) = <<>>
    BY <1>8, Zenon DEF Bars
  <2>3. p \o <<>> = p
    BY <1>3
  <2>4. w \o <<>> = w
    <3> HIDE DEF w
    <3> QED
      BY <1>5
  <2> HIDE DEF p
  <2>5. t = text \o p
    BY <1>6, Zenon DEF p
  <2> HIDE DEF t, w
  <2> QED
    BY <1>4, <2>1, <2>2, <2>3, <2>4, <2>5, Zenon DEF w, c
<1> QED
  BY <1>7, <1>8

\* A sign: the change of speed is heard, and nothing else.
LEMMA SignSounds ==
  ASSUME NEW initial \in Octet, NEW a \in Scans, NEW text, NEW c, NEW b \in Scans,
         Sounds(a.out, initial, text, a.speed), a.run # 0 => EndsInSpeed(a, initial), c # 0,
         b.out = IF a.run = c THEN WithLast(a.out, b.speed) ELSE a.out \o <<BufferedSpeed, b.speed>>
  PROVE  Sounds(b.out, initial, text, b.speed) /\ EndsInSpeed(b, initial)
<1>1. /\ a.out \in Seq(Octet) /\ a.speed \in Octet /\ b.speed \in Octet
      /\ BufferedSpeed \in Octet
  BY DEF Scans, Octet, BufferedSpeed
<1>2. \A u, x, v : Sounds(u, initial, x, v) => Heard(u, initial).text = x /\ ~Heard(u, initial).command
  BY DEF Sounds
<1>3. \E u \in Seq(Octet) : /\ b.out = u \o <<BufferedSpeed, b.speed>>
                            /\ ~Heard(u, initial).command /\ Heard(u, initial).text = text
  <2>1. CASE a.run = c
    <3>1. PICK u \in Seq(Octet) : a.out = u \o <<BufferedSpeed, a.speed>> /\ ~Heard(u, initial).command
      BY <2>1, Zenon DEF EndsInSpeed
    <3>2. Replaced(u, BufferedSpeed, a.speed, b.speed)
      BY <1>1, ReplaceLast, Zenon
    <3>3. b.out = u \o <<BufferedSpeed, b.speed>>
      <4>1. b.out = WithLast(a.out, b.speed)
        BY <2>1, Zenon
      <4>2. WithLast(u \o <<BufferedSpeed, a.speed>>, b.speed) = u \o <<BufferedSpeed, b.speed>>
        BY <3>2 DEF Replaced
      <4> QED
        BY <3>1, <4>1, <4>2
    <3>4. Sounds(u \o <<BufferedSpeed, a.speed>>, initial, Heard(u, initial).text, a.speed)
      BY <1>1, <3>1, HeardSpeed, Zenon
    <3>6. Sounds(a.out, initial, Heard(u, initial).text, a.speed)
      BY <3>1, <3>4
    <3>5. Heard(u, initial).text = text
      BY <1>2, <3>6, Zenon
    <3> QED
      BY <3>1, <3>3, <3>5, Zenon
  <2>2. CASE a.run # c
    <3>1. b.out = a.out \o <<BufferedSpeed, b.speed>>
      BY <2>2, Zenon
    <3> QED
      BY <1>1, <1>2, <3>1, Zenon
  <2> QED
    BY <2>1, <2>2
<1>4. PICK u \in Seq(Octet) : /\ b.out = u \o <<BufferedSpeed, b.speed>>
                              /\ ~Heard(u, initial).command /\ Heard(u, initial).text = text
  BY <1>3, Zenon
<1>5. Sounds(u \o <<BufferedSpeed, b.speed>>, initial, Heard(u, initial).text, b.speed)
  BY <1>1, <1>4, HeardSpeed, Zenon
<1> QED
  BY <1>4, <1>5, Zenon DEF EndsInSpeed

LEMMA TrackStep ==
  ASSUME NEW chars \in Seq(Octet), NEW initial \in Octet, NEW k \in Nat, k + 1 <= Len(chars),
         NEW a, NEW text, Tracks(chars, initial, a, text, k),
         NEW b, Advanced(a, chars[k + 1], b)
  PROVE  Tracks(chars, initial, b, text \o Block(chars, initial, k + 1), k + 1)
<1> DEFINE c == chars[k + 1]
           B == Block(chars, initial, k + 1)
           E == \E j \in 1 .. k + 1 : chars[j] \notin 1 .. 127
<1>0. k + 1 \in 1 .. Len(chars) /\ (k + 1) - 1 = k
  OBVIOUS
<1>c. c \in Octet
  BY <1>0
<1>a. /\ a \in Scans /\ text \in Seq(Keys)
      /\ ~a.ended => a.speed = Speed(chars, initial, k) /\ (a.gap <=> Gap(chars, k))
      /\ Sounds(a.out, initial, text, a.speed)
      /\ a.run # 0 => EndsInSpeed(a, initial)
  BY Zenon DEF Tracks
<1>b. /\ b \in Scans
      /\ Ending(a, c) => /\ b.out = a.out /\ b.speed = a.speed /\ b.run = a.run /\ b.ended
      /\ Sign(a, c) =>
           /\ b.speed = (a.speed + Change(c)) % 256 /\ b.gap = a.gap /\ ~b.ended
           /\ b.out = IF a.run = c THEN WithLast(a.out, b.speed) ELSE a.out \o <<BufferedSpeed, b.speed>>
      /\ Silent(a, c) =>
           /\ b.out = a.out /\ b.speed = a.speed /\ b.run = 0 /\ ~b.ended
           /\ b.gap = (c = Tilde \/ a.gap)
      /\ Spoken(a, c) =>
           /\ b.out = (a.out \o <<toupper(c)>>) \o Bars(a.gap) /\ b.speed = a.speed /\ b.run = 0
           /\ ~b.ended /\ ~b.gap
  BY Zenon DEF Advanced
<1>t. /\ a.out \in Seq(Octet) /\ a.speed \in Octet /\ a.gap \in BOOLEAN /\ b.gap \in BOOLEAN
  BY <1>a, <1>b DEF Scans
<1>k. /\ Ending(a, c) \/ Sign(a, c) \/ Silent(a, c) \/ Spoken(a, c)
      /\ Ending(a, c) => ~Sign(a, c) /\ ~Silent(a, c) /\ ~Spoken(a, c)
      /\ Sign(a, c) => ~Silent(a, c) /\ ~Spoken(a, c)
      /\ Silent(a, c) => ~Spoken(a, c)
  BY <1>a, <1>c, ScanKinds, Zenon
<1>n. (Ending(a, c) <=> E) /\ (Spoken(a, c) <=> k + 1 \in Kept(chars))
  BY NextByte, Zenon
<1>s. Speed(chars, initial, k + 1) = (Speed(chars, initial, k) + Change(c)) % 256
  <2>1. Speeding(chars, initial, k)
    BY SpeedStep, Zenon
  <2> QED
    BY <2>1, Zenon DEF Speeding
<1>g. /\ c = Tilde => Gap(chars, k + 1)
      /\ k + 1 \in Kept(chars) => ~Gap(chars, k + 1)
      /\ c # Tilde /\ k + 1 \notin Kept(chars) => (Gap(chars, k + 1) <=> Gap(chars, k))
  BY GapStep, Zenon
<1>e. /\ ~Spoken(a, c) => text \o B = text
      /\ text \o B \in Seq(Keys)
  <2>1. B \in Seq(Keys) /\ (k + 1 \notin Kept(chars) => B = <<>>)
    BY <1>0, BlockIs, Zenon
  <2> HIDE DEF B
  <2>2. text \o B \in Seq(Keys)
    BY <1>a, <2>1, Joining, Zenon
  <2>3. text \o <<>> = text
    BY <1>a
  <2> QED
    BY <1>n, <2>1, <2>2, <2>3, Zenon
<1>u. ~Ending(a, c) /\ ~Sign(a, c) => Speed(chars, initial, k + 1) = Speed(chars, initial, k)
  <2>1. ASSUME ~Ending(a, c), ~Sign(a, c) PROVE Change(c) = 0
    BY <2>1 DEF Ending, Sign, Change
  <2>2. Speed(chars, initial, k) \in Octet
    BY SpeedStep, Zenon
  <2>3. \A v \in Octet : (v + 0) % 256 = v
    BY DEF Octet
  <2> QED
    BY <1>s, <2>1, <2>2, <2>3, Zenon
<1>d. ~Ending(a, c) => ~a.ended
  BY Zenon DEF Ending
<1> DEFINE P == /\ b.ended <=> E
                /\ ~b.ended => b.speed = Speed(chars, initial, k + 1) /\ (b.gap <=> Gap(chars, k + 1))
                /\ Sounds(b.out, initial, text \o B, b.speed)
                /\ b.run # 0 => EndsInSpeed(b, initial)
<1> SUFFICES P
  BY <1>b, <1>e, Zenon DEF Tracks
<1> HIDE DEF c, B, E
<1>1. CASE Ending(a, c)
  <2>1. b.run # 0 => EndsInSpeed(b, initial)
    BY <1>1, <1>a, <1>b, Zenon DEF EndsInSpeed
  <2> QED
    BY <1>1, <1>a, <1>b, <1>k, <1>n, <1>e, <2>1, Zenon
<1>2. CASE Sign(a, c)
  <2>1. c # 0 /\ c # Tilde
    BY <1>2 DEF Sign, Plus, Minus, Tilde
  <2>2. b.out = IF a.run = c THEN WithLast(a.out, b.speed) ELSE a.out \o <<BufferedSpeed, b.speed>>
    BY <1>2, <1>b, Zenon
  <2>3. Sounds(b.out, initial, text, b.speed) /\ EndsInSpeed(b, initial)
    BY <1>a, <1>b, <2>1, <2>2, SignSounds, Zenon
  <2>4. ~Ending(a, c) /\ ~Spoken(a, c)
    BY <1>2, <1>k, Zenon
  <2>5. b.speed = Speed(chars, initial, k + 1)
    BY <1>2, <1>a, <1>b, <1>d, <1>s, <2>4, Zenon
  <2>6. b.gap <=> Gap(chars, k + 1)
    BY <1>2, <1>a, <1>b, <1>d, <1>g, <1>n, <2>1, <2>4, Zenon
  <2> QED
    BY <1>2, <1>b, <1>n, <1>e, <2>3, <2>4, <2>5, <2>6, Zenon
<1>3. CASE Silent(a, c)
  <2>1. ~Ending(a, c) /\ ~Sign(a, c) /\ ~Spoken(a, c)
    BY <1>3, <1>k, Zenon
  <2>2. b.speed = Speed(chars, initial, k + 1)
    BY <1>3, <1>a, <1>b, <1>d, <1>u, <2>1, Zenon
  <2>3. b.gap <=> c = Tilde \/ a.gap
    BY <1>3, <1>b, <1>t
  <2>4. b.gap <=> Gap(chars, k + 1)
    BY <1>a, <1>d, <1>g, <1>n, <2>1, <2>3, Zenon
  <2> QED
    BY <1>3, <1>a, <1>b, <1>n, <1>e, <2>1, <2>2, <2>4, Zenon
<1>4. CASE Spoken(a, c)
  <2>1. ~Ending(a, c) /\ ~Sign(a, c)
    BY <1>4, <1>k, Zenon
  <2>2. k + 1 \in Kept(chars) /\ a.speed = Speed(chars, initial, k + 1)
    BY <1>4, <1>a, <1>d, <1>n, <1>u, <2>1, Zenon
  <2>3. a.gap <=> Gap(chars, (k + 1) - 1)
    BY <1>0, <1>a, <1>d, <2>1, Zenon
  <2>4. Sounds((a.out \o <<toupper(c)>>) \o Bars(a.gap), initial, text \o B, a.speed)
    BY <1>0, <1>a, <1>t, <2>2, <2>3, SpokenSounds, Zenon DEF c, B
  <2>5. Sounds(b.out, initial, text \o B, b.speed)
    BY <1>4, <1>b, <2>4, Zenon
  <2> QED
    BY <1>4, <1>b, <1>g, <1>n, <2>1, <2>2, <2>5, Zenon
<1> QED
  BY <1>1, <1>2, <1>3, <1>4, <1>k, Zenon

\* Every prefix of a text, and so the text.
LEMMA Tracked ==
  ASSUME NEW chars \in Seq(Octet), NEW initial \in Octet, NEW n \in Nat, n = Len(chars),
         NEW f, ScannedBy(chars, initial, n, f), NEW g, AskedBy(chars, initial, n, g)
  PROVE  Tracks(chars, initial, f[n], g[n], n)
<1> DEFINE T == {k \in Nat : k <= n => Tracks(chars, initial, f[k], g[k], k)}
<1>0. /\ f \in [0 .. n -> Scans] /\ f[0] = ScanStart(initial)
      /\ \A i \in 1 .. n : f[i] = ScanByte(f[i - 1], chars[i], initial)
      /\ g[0] = <<>> /\ \A i \in 1 .. n : g[i] = g[i - 1] \o Block(chars, initial, i)
  BY Zenon DEF ScannedBy, AskedBy
<1>1. 0 \in T
  <2>1. Tracks(chars, initial, f[0], g[0], 0)
    BY <1>0, TrackStart, Zenon
  <2> QED
    BY <2>1
<1>2. ASSUME NEW k \in Nat, k \in T PROVE k + 1 \in T
  <2> SUFFICES ASSUME k + 1 <= n PROVE Tracks(chars, initial, f[k + 1], g[k + 1], k + 1)
    OBVIOUS
  <2>1. k <= n /\ k + 1 \in 1 .. n /\ (k + 1) - 1 = k /\ k \in 0 .. n /\ k + 1 <= Len(chars)
    OBVIOUS
  <2>2. Tracks(chars, initial, f[k], g[k], k)
    BY <1>2, <2>1
  <2>3. f[k] \in Scans /\ chars[k + 1] \in Octet
    <3>1. f[k] \in Scans
      BY <1>0, <2>1, Zenon
    <3>2. chars[k + 1] \in Octet
      BY <2>1
    <3> QED
      BY <3>1, <3>2
  <2>4. f[k + 1] = ScanByte(f[k], chars[k + 1], initial)
    BY <1>0, <2>1, Zenon
  <2>5. g[k + 1] = g[k] \o Block(chars, initial, k + 1)
    BY <1>0, <2>1, Zenon
  <2>6. Advanced(f[k], chars[k + 1], f[k + 1])
    BY <2>3, <2>4, ScanAdvances, Zenon
  <2>7. Tracks(chars, initial, f[k + 1], g[k] \o Block(chars, initial, k + 1), k + 1)
    BY <2>1, <2>2, <2>6, TrackStep, Zenon
  <2> QED
    BY <2>5, <2>7, Zenon
<1> HIDE DEF T
<1>3. \A k \in Nat : k \in T
  BY <1>1, <1>2, NatInduct, Zenon
<1>4. n \in T /\ n <= n
  BY <1>3
<1> QED
  BY <1>4, Zenon DEF T

\* A text is keyed as it asks for, and leaves the speed as it was.
LEMMA TextSounds ==
  ASSUME NEW chars \in Seq(Octet), NEW initial \in Octet
  PROVE  Sounds(TextBytes(chars, initial), initial, Expected(chars, initial), initial)
<1> DEFINE n == Len(chars)
<1>0. n \in Nat
  OBVIOUS
<1> HIDE DEF n
<1>1. PICK f : /\ ScannedBy(chars, initial, n, f)
               /\ TextBytes(chars, initial) = f[n].out \o Restore(f[n], initial)
  BY <1>0, TextBytesIs, Zenon DEF n
<1>2. PICK g : AskedBy(chars, initial, n, g) /\ Expected(chars, initial) = g[n]
  BY <1>0, ExpectedIs, Zenon DEF n
<1>3. Tracks(chars, initial, f[n], g[n], n)
  BY <1>0, <1>1, <1>2, Tracked, Zenon DEF n
<1> DEFINE a == f[n]
           text == g[n]
<1>4. a \in Scans /\ Sounds(a.out, initial, text, a.speed)
  BY <1>3, Zenon DEF Tracks
<1>5. TextBytes(chars, initial) = a.out \o Restore(a, initial) /\ Expected(chars, initial) = text
  BY <1>1, <1>2, Zenon
<1> HIDE DEF a, text
<1>6. a.out \in Seq(Octet)
  BY <1>4 DEF Scans
<1>7. CASE a.speed = initial
  <2>1. Restore(a, initial) = <<>>
    BY <1>7, Zenon DEF Restore
  <2>2. a.out \o <<>> = a.out
    BY <1>6
  <2> QED
    BY <1>4, <1>5, <1>7, <2>1, <2>2, Zenon
<1>8. CASE a.speed # initial
  <2>1. Restore(a, initial) = <<BufferedSpeed, initial>>
    BY <1>8, Zenon DEF Restore
  <2>2. Heard(a.out, initial).text = text /\ ~Heard(a.out, initial).command
    BY <1>4 DEF Sounds
  <2>3. Sounds(a.out \o <<BufferedSpeed, initial>>, initial, Heard(a.out, initial).text, initial)
    BY <1>6, <2>2, HeardSpeed, Zenon
  <2> QED
    BY <1>5, <2>1, <2>2, <2>3, Zenon
<1> QED
  BY <1>7, <1>8

\* A text is a sequence of bytes, and the keyer's speed a byte.
TextSample ==
  sample.kind = "text" => sample.chars \in Seq(Octet) /\ sample.initial \in Octet

\* The translation of a text, for every text and every speed (cw_daemon.cpp,
\* to_winkeyer): nothing is lost, added or reordered, each character is keyed at
\* the speed the signs before it ask for, and the keyer is left at the speed the
\* message found.
THEOREM TextsTranslated == TextSample => ConversionCorrect
<1> SUFFICES ASSUME TextSample, sample.kind = "text"
             PROVE  LET bytes == to_winkeyer([kind |-> "text", chars |-> sample.chars], sample.initial)
                    IN  Heard(bytes, sample.initial)
                          = [text |-> Expected(sample.chars, sample.initial),
                             speed |-> sample.initial, command |-> FALSE]
  BY Zenon DEF ConversionCorrect
<1> DEFINE m == [kind |-> "text", chars |-> sample.chars]
<1>1. sample.chars \in Seq(Octet) /\ sample.initial \in Octet
  BY Zenon DEF TextSample
<1>2. m.kind = "text" /\ m.chars = sample.chars
  OBVIOUS
<1> HIDE DEF m
<1>3. to_winkeyer(m, sample.initial) = TextBytes(sample.chars, sample.initial)
  BY <1>2 DEF to_winkeyer
<1>4. Sounds(TextBytes(sample.chars, sample.initial), sample.initial,
             Expected(sample.chars, sample.initial), sample.initial)
  BY <1>1, TextSounds, Zenon
<1> QED
  BY <1>3, <1>4, Zenon DEF m, Sounds
=============================================================================
