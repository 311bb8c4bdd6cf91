---------------------------- MODULE CircularBuffer ----------------------------
(***************************************************************************)
(* circular_buffer<T> of circular_buffer.h: a ring of max_size_ cells with *)
(* head, tail and a flag that tells a full ring from an empty one.  The    *)
(* keyer uses one of 160 bytes for the text and commands not sent yet.     *)
(***************************************************************************)
EXTENDS Integers, Sequences

CONSTANTS Items, max_size_, Default

ASSUME BufferAssumption == max_size_ \in Nat \ {0} /\ Default \in Items

VARIABLES buf_, head_, tail_, full_,
          ret   \* the value the last get or peek returned

ring == <<buf_, head_, tail_, full_>>
vars == <<ring, ret>>

\* The cells are not initialised.
Init ==
  /\ buf_ \in [0 .. max_size_ - 1 -> Items]
  /\ head_ = 0 /\ tail_ = 0 /\ full_ = FALSE /\ ret = Default

empty == ~full_ /\ head_ = tail_

size ==
  IF full_ THEN max_size_
  ELSE IF head_ >= tail_ THEN head_ - tail_ ELSE max_size_ + head_ - tail_

\* Mutant: the oldest item is not dropped with its cell.
put_keep_tail(x) ==
  /\ buf_' = [buf_ EXCEPT ![head_] = x]
  /\ head_' = (head_ + 1) % max_size_
  /\ full_' = (head_' = tail_)
  /\ UNCHANGED <<tail_, ret>>

put(x) ==
  /\ buf_' = [buf_ EXCEPT ![head_] = x]
  /\ tail_' = IF full_ THEN (tail_ + 1) % max_size_ ELSE tail_
  /\ head_' = (head_ + 1) % max_size_
  /\ full_' = (head_' = tail_')
  /\ ret' = ret

get ==
  \/ empty /\ ret' = Default /\ UNCHANGED ring
  \/ /\ ~empty
     /\ ret' = buf_[tail_] /\ full_' = FALSE
     /\ tail_' = (tail_ + 1) % max_size_
     /\ UNCHANGED <<buf_, head_>>

peek ==
  /\ ret' = IF empty THEN Default ELSE buf_[tail_]
  /\ UNCHANGED ring

reset ==
  /\ head_' = tail_ /\ full_' = FALSE
  /\ UNCHANGED <<buf_, tail_, ret>>

Next == (\E x \in Items : put(x)) \/ get \/ peek \/ reset

Spec == Init /\ [][Next]_vars

-----------------------------------------------------------------------------
\* The items in the ring, oldest first.
Contents == [i \in 1 .. size |-> buf_[(tail_ + i - 1) % max_size_]]

\* The indices stay in the ring, and the flag is set only with head on tail:
\* full_ and head_ = tail_ together tell full from empty.
TypeOK ==
  /\ buf_ \in [0 .. max_size_ - 1 -> Items]
  /\ head_ \in 0 .. max_size_ - 1 /\ tail_ \in 0 .. max_size_ - 1
  /\ full_ \in BOOLEAN /\ (full_ => head_ = tail_)
  /\ ret \in Items

Abstract == INSTANCE OverwriteQueue
              WITH q <- Contents, Capacity <- max_size_

\* The ring implements the queue: items come out in the order they went in,
\* across the wrap of both indices; a put into a full ring drops exactly the
\* oldest item; and no cell that was never written is ever returned.
ImplementsQueue == Abstract!Spec
=============================================================================
