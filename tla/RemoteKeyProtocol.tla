--------------------------- MODULE RemoteKeyProtocol ---------------------------
(***************************************************************************)
(* The wire format of the remote keying stream (remote_key_protocol.h): a  *)
(* header of magic, version, flags, session id and edge count, then the    *)
(* edges, each a big-endian timestamp and a state byte.                    *)
(***************************************************************************)
EXTENDS Integers, Sequences

CONSTANTS
  Base,       \* values of one byte (256)
  TsBytes,    \* bytes of a timestamp (8)
  MAX_EDGES   \* edges of one packet (32)

\* Magic and version tell apart, and the count fits a byte.
ASSUME WireAssumption ==
  /\ Base \in Nat \ {0, 1} /\ TsBytes \in Nat \ {0}
  /\ MAX_EDGES \in Nat /\ MAX_EDGES < Base

MAGIC   == Base - 1
VERSION == 1
HEADER_BYTES == 6
EDGE_BYTES == TsBytes + 1

\* v shifted to the right by k bytes.
ShiftRight(v, k) ==
  LET shift[i \in 0 .. k] == IF i = 0 THEN v ELSE shift[i - 1] \div Base
  IN  shift[k]

FitsIn(v, n) == ShiftRight(v, n) = 0

\* v in n bytes, most significant first.
PutInt(v, n) == [i \in 1 .. n |-> ShiftRight(v, n - i) % Base]

\* The number in a sequence of bytes, most significant first.
GetInt(b) ==
  LET get[i \in 0 .. Len(b)] == IF i = 0 THEN 0 ELSE get[i - 1] * Base + b[i]
  IN  get[Len(b)]

EncodeEdge(e) == PutInt(e.ts_us, TsBytes) \o <<e.state>>
DecodeEdge(b) ==
  [ts_us |-> GetInt(SubSeq(b, 1, TsBytes)), state |-> b[EDGE_BYTES]]

\* Mutant: the oldest edges are sent.
SentOldest(edges) ==
  IF Len(edges) > MAX_EDGES THEN SubSeq(edges, 1, MAX_EDGES) ELSE edges

\* The edges that are sent: the most recent ones.
Sent(edges) ==
  IF Len(edges) > MAX_EDGES
    THEN SubSeq(edges, Len(edges) - MAX_EDGES + 1, Len(edges))
    ELSE edges

encode(pkt) ==
  LET edges == Sent(pkt.edges)
      body[i \in 0 .. Len(edges)] ==
        IF i = 0 THEN <<>> ELSE body[i - 1] \o EncodeEdge(edges[i])
  IN  <<MAGIC, VERSION, pkt.flags>> \o PutInt(pkt.session_id, 2)
        \o <<Len(edges)>> \o body[Len(edges)]

\* A datagram is taken if its header is ours and all its edges are there.
Accepts(buf) ==
  /\ Len(buf) >= HEADER_BYTES /\ buf[1] = MAGIC /\ buf[2] = VERSION
  /\ Len(buf) >= HEADER_BYTES + buf[6] * EDGE_BYTES

\* The packet in an accepted datagram.
decode(buf) ==
  [session_id |-> GetInt(SubSeq(buf, 4, 5)), flags |-> buf[3],
   edges |-> [i \in 1 .. buf[6] |->
                LET at == HEADER_BYTES + (i - 1) * EDGE_BYTES
                IN  DecodeEdge(SubSeq(buf, at + 1, at + EDGE_BYTES))]]
=============================================================================
