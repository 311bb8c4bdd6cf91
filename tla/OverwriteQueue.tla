---------------------------- MODULE OverwriteQueue ----------------------------
(***************************************************************************)
(* What the circular buffer promises its users (the keyer): a FIFO queue   *)
(* of at most Capacity items that makes room by dropping its oldest item.  *)
(***************************************************************************)
EXTENDS Naturals, Sequences

CONSTANTS Items, Capacity, Default   \* Default is T()

VARIABLES q,    \* the items, oldest first
          ret   \* the value last returned

vars == <<q, ret>>

Init == q = <<>> /\ ret = Default

Put(x) ==
  /\ q' = IF Len(q) = Capacity THEN Append(Tail(q), x) ELSE Append(q, x)
  /\ ret' = ret

Get ==
  \/ q = <<>> /\ ret' = Default /\ q' = q
  \/ q # <<>> /\ ret' = Head(q) /\ q' = Tail(q)

Peek == ret' = (IF q = <<>> THEN Default ELSE Head(q)) /\ q' = q

Reset == q' = <<>> /\ ret' = ret

Next == (\E x \in Items : Put(x)) \/ Get \/ Peek \/ Reset

Spec == Init /\ [][Next]_vars
=============================================================================
