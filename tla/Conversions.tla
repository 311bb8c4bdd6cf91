------------------------------ MODULE Conversions ------------------------------
(***************************************************************************)
(* What the remote key's wire format and the translation of a text promise. *)
(* A sample is a packet of which some bytes arrive, or a text that is       *)
(* translated at some speed.                                                *)
(***************************************************************************)
EXTENDS RemoteKeyProtocol, CwText, FiniteSets

VARIABLE sample

-----------------------------------------------------------------------------
\* Packets: the packet sent, and how many of its bytes arrive.

Packet ==
  [session_id : {v \in Nat : FitsIn(v, 2)}, flags : 0..(Base - 1),
   edges : Seq([ts_us : {v \in Nat : FitsIn(v, TsBytes)}, state : 0..(Base - 1)])]

Wire == SubSeq(encode(sample.pkt), 1, sample.size)

\* A datagram that is accepted carries the packet that was sent, with the
\* freshest of its edges in their order: no cut-off datagram is read as a packet
\* with other edges, every whole one is accepted and has the last transition
\* ("Send the *last* n edges so the freshest history wins when truncating").
WireRoundTrip ==
  sample.kind = "wire" =>
    LET edges == sample.pkt.edges
        got == decode(Wire).edges
    IN  /\ Wire = encode(sample.pkt) => Accepts(Wire)
        /\ Accepts(Wire) =>
             /\ [decode(Wire) EXCEPT !.edges = <<>>] = [sample.pkt EXCEPT !.edges = <<>>]
             /\ Len(got) = IF Len(edges) > MAX_EDGES THEN MAX_EDGES ELSE Len(edges)
             /\ got = SubSeq(edges, Len(edges) - Len(got) + 1, Len(edges))

-----------------------------------------------------------------------------
\* Texts: to_winkeyer against a reference that looks at the whole message.

\* What the operator asked for: every printable byte in front of the first
\* terminator, in upper case, at the speed the signs before it add up to, and
\* with a gap after it when a '~' precedes it and no printable byte lies between.
Kept(chars) ==
  {i \in 1..Len(chars) :
     /\ \A j \in 1..i : chars[j] \in 1..127
     /\ chars[i] >= 32 /\ chars[i] \notin {Plus, Minus, Tilde}}

Count(chars, c, i) == Cardinality({j \in 1..i : chars[j] = c})

Speed(chars, initial, i) == (initial + 2 * Count(chars, Plus, i) - 2 * Count(chars, Minus, i)) % 256

Gap(chars, i) == \E j \in 1..i : chars[j] = Tilde /\ \A k \in j..i : k \notin Kept(chars)

\* What is keyed for one byte: itself and the gap, each at the speed in force.
Block(chars, initial, i) ==
  LET key(c) == <<c, Speed(chars, initial, i)>>
  IN  IF i \notin Kept(chars) THEN <<>>
      ELSE <<key(toupper(chars[i]))>>
             \o (IF Gap(chars, i - 1) THEN <<key(Bar), key(Bar), key(Bar), key(Bar)>> ELSE <<>>)

\* The blocks of the message, in order.
Expected(chars, initial) ==
  LET join[i \in 0..Len(chars)] ==
        IF i = 0 THEN <<>> ELSE join[i - 1] \o Block(chars, initial, i)
  IN  join[Len(chars)]

\* What the keyer makes of the bytes: the text with the speed in force, and the
\* speed it is left with.
HearByte(a, c) ==
  IF a.command THEN [a EXCEPT !.command = FALSE, !.speed = c]
  ELSE IF c = BufferedSpeed THEN [a EXCEPT !.command = TRUE]
  ELSE [a EXCEPT !.text = Append(@, <<c, a.speed>>)]

Heard(bytes, initial) ==
  LET hear[i \in 0..Len(bytes)] ==
        IF i = 0 THEN [text |-> <<>>, speed |-> initial, command |-> FALSE]
        ELSE HearByte(hear[i - 1], bytes[i])
  IN  hear[Len(bytes)]

\* to_winkeyer loses, adds and reorders nothing, every character is keyed at the
\* speed the '+' and '-' before it ask for (runs, wrapped speeds, a speed that
\* equals a command code, and gaps included), and the bytes leave the keyer at
\* the speed the message found ("buffer original speed").
ConversionCorrect ==
  sample.kind = "text" =>
    LET bytes == to_winkeyer([kind |-> "text", chars |-> sample.chars], sample.initial)
    IN  Heard(bytes, sample.initial)
          = [text |-> Expected(sample.chars, sample.initial), speed |-> sample.initial,
             command |-> FALSE]
=============================================================================
