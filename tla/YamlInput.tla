------------------------------ MODULE YamlInput ------------------------------
(***************************************************************************)
(* How the YAML library (libs/node.hpp) turns the bytes of an input into    *)
(* the UTF-8 text its lexer reads: the detection of the encoding, the UTF   *)
(* converters and the input adapters for iterators over char, char8_t,      *)
(* char16_t and char32_t, for FILE and for istream (the one cwsd uses).     *)
(* A char32_t element is the tuple of its four bytes.  Every operator below *)
(* yields the buffer and whether it was filled without an exception.        *)
(***************************************************************************)
EXTENDS Integers, Sequences, FiniteSetsExt, SequencesExt

CONSTANT ChunkSize   \* bytes read at a time from a FILE or an istream (256)

ASSUME ChunkAssumption == ChunkSize \in Nat \ {0}

CR == 13

Filled(buffer) == [end |-> "filled", buffer |-> buffer]
Thrown == [end |-> "throws", buffer |-> <<>>]
Endless == [end |-> "never", buffer |-> <<>>]
Overread == [end |-> "undefined", buffer |-> <<>>]

utf_encode_t == {"UTF_8", "UTF_16BE", "UTF_16LE", "UTF_32BE", "UTF_32LE"}

-----------------------------------------------------------------------------
\* UTF-8.

\* The length the first byte announces, 0 for a byte that cannot come first.
get_num_bytes(b) ==
  CASE b < 128        -> 1
    [] b \in 192..223 -> 2
    [] b \in 224..239 -> 3
    [] b \in 240..247 -> 4
    [] OTHER          -> 0

\* The bytes allowed after a first one.  0xE0 is treated like 0xE1, so an
\* overlong form of three bytes passes.
SecondBytes(b) ==
  CASE b \in 194..236 \cup {238, 239} \cup 241..243 -> 128..191
    [] b = 237                                      -> 128..159
    [] b = 240                                      -> 144..191
    [] b = 244                                      -> 128..143
    [] OTHER                                        -> {}

validate(bytes) ==
  IF Len(bytes) = 1 THEN bytes[1] <= 127
  ELSE bytes[2] \in SecondBytes(bytes[1]) /\ \A i \in 3..Len(bytes) : bytes[i] \in 128..191

\* The walk over a buffer that every UTF-8 adapter makes: each first byte begins
\* a valid character and every other byte belongs to one.  Past the end there is
\* the terminating zero, which continues no character.
Utf8Valid(s) ==
  LET starts == {i \in 1..Len(s) : get_num_bytes(s[i]) > 0}
      size(i) == get_num_bytes(s[i])
  IN  /\ \A i \in starts : size(i) = 1 \/ validate(SubSeq(s \o <<0, 0, 0>>, i, i + size(i) - 1))
      /\ \A k \in 1..Len(s) \ starts : \E i \in starts : k \in i..(i + size(i) - 1)

-----------------------------------------------------------------------------
\* UTF-16 and UTF-32.

Continuation(c) == 128 + (c % 64)

from_utf32(c) ==
  CASE c < 128      -> <<c>>
    [] c <= 2047    -> <<192 + c \div 64, Continuation(c)>>
    [] c <= 65535   -> <<224 + c \div 4096, Continuation(c \div 64), Continuation(c)>>
    [] c <= 1114111 -> <<240 + c \div 262144, Continuation(c \div 4096),
                         Continuation(c \div 64), Continuation(c)>>
    [] OTHER        -> <<>>

\* One character off a buffer of two units, and how many of them it took.
from_utf16(u) ==
  CASE u[1] \notin 55296..57343                         -> [size |-> 1, bytes |-> from_utf32(u[1])]
    [] u[1] \in 55296..56319 /\ u[2] \in 56320..57343 ->
         [size |-> 2, bytes |-> from_utf32(65536 + (u[1] % 1024) * 1024 + (u[2] % 1024))]
    [] OTHER                                            -> [size |-> 0, bytes |-> <<>>]

\* The inner loop: carriage returns are dropped while the two places are filled.
RECURSIVE Fill(_, _, _)
Fill(units, two, n) ==
  IF n = 2 \/ units = <<>> THEN [units |-> units, two |-> two, n |-> n]
  ELSE IF units[1] = CR THEN Fill(Tail(units), two, n)
  ELSE Fill(Tail(units), [two EXCEPT ![n + 1] = units[1]], n + 1)

\* What is left of the two places; a pair stays in them.
Shifted(two, size) == IF size = 1 THEN <<two[2], 0>> ELSE two

\* The outer loop over iterators runs while there are units, read or not.  When
\* only carriage returns follow a pair, the count of units wraps below zero and
\* the loop does not end.
RECURSIVE DrainIterator(_, _, _, _)
DrainIterator(units, two, n, buffer) ==
  IF units = <<>> /\ n = 0 THEN Filled(buffer)
  ELSE LET f == Fill(units, two, n)
           c == from_utf16(f.two)
       IN  IF c.size = 0 THEN Thrown
           ELSE IF c.size > f.n THEN Endless
           ELSE DrainIterator(f.units, Shifted(f.two, c.size), f.n - c.size, buffer \o c.bytes)

\* Over a FILE or a stream it runs once more when the end is reached, on whatever
\* the two places hold.
RECURSIVE DrainFile(_, _, _, _)
DrainFile(units, two, n, buffer) ==
  LET f == Fill(units, two, n)
      c == from_utf16(f.two)
  IN  IF c.size = 0 THEN Thrown
      ELSE IF f.n < 2 THEN Filled(buffer \o c.bytes)
      ELSE DrainFile(f.units, Shifted(f.two, c.size), f.n - c.size, buffer \o c.bytes)

Unit16(pair, encoding) ==
  IF encoding = "UTF_16BE" THEN pair[1] * 256 + pair[2] ELSE pair[2] * 256 + pair[1]

\* A character of four bytes; more than 2^24 is no character.
Unit32(quad, encoding) ==
  LET b == IF encoding = "UTF_32BE" THEN quad ELSE Reverse(quad)
  IN  IF b[1] > 0 THEN 1114112 ELSE b[2] * 65536 + b[3] * 256 + b[4]

\* The units of a sequence of bytes; a FILE and a stream drop an incomplete one.
Units16(bytes, encoding) ==
  [i \in 1..(Len(bytes) \div 2) |-> Unit16(SubSeq(bytes, 2 * i - 1, 2 * i), encoding)]

Units32(bytes, encoding) ==
  [i \in 1..(Len(bytes) \div 4) |-> Unit32(SubSeq(bytes, 4 * i - 3, 4 * i), encoding)]

\* The iterator adapter shifts plain chars: a byte above 127 is negative and
\* fills the bits above it.
SignedUnit32(quad, encoding) ==
  IF \E i \in 1..4 : quad[i] > 127 THEN 1114112 ELSE Unit32(quad, encoding)

Utf32Text(chars) ==
  LET kept == SelectSeq(chars, LAMBDA c : c # CR)
  IN  IF \E i \in 1..Len(kept) : kept[i] > 1114111 THEN Thrown
      ELSE Filled(FlattenSeq([i \in 1..Len(kept) |-> from_utf32(kept[i])]))

-----------------------------------------------------------------------------
\* Which encoding, from the first four bytes: a byte order mark, or zeros around
\* a first character that is ASCII.
detect_encoding_type(b) ==
  LET ascii(i) == b[i] \in 1..127
      found(e, m) == [encoding |-> e, bom |-> m]
  IN  CASE SubSeq(b, 1, 3) = <<239, 187, 191>>            -> found("UTF_8", TRUE)
        [] b = <<0, 0, 254, 255>>                         -> found("UTF_32BE", TRUE)
        [] b = <<255, 254, 0, 0>>                         -> found("UTF_32LE", TRUE)
        [] SubSeq(b, 1, 2) = <<254, 255>>                 -> found("UTF_16BE", TRUE)
        [] SubSeq(b, 1, 2) = <<255, 254>> /\ (b[3] # 0 \/ b[4] # 0)
                                                          -> found("UTF_16LE", TRUE)
        [] SubSeq(b, 1, 3) = <<0, 0, 0>> /\ ascii(4)      -> found("UTF_32BE", FALSE)
        [] ascii(1) /\ SubSeq(b, 2, 4) = <<0, 0, 0>>      -> found("UTF_32LE", FALSE)
        [] b[1] = 0 /\ ascii(2)                           -> found("UTF_16BE", FALSE)
        [] ascii(1) /\ b[2] = 0 /\ (b[3] # 0 \/ b[4] # 0) -> found("UTF_16LE", FALSE)
        [] OTHER                                          -> found("UTF_8", FALSE)

BomSize(encoding) ==
  CASE encoding = "UTF_8" -> 3
    [] encoding \in {"UTF_16BE", "UTF_16LE"} -> 2
    [] OTHER -> 4

\* The bytes without their mark, and their encoding.
SkipBom(bytes) ==
  LET d == detect_encoding_type(SubSeq(bytes \o <<255, 255, 255, 255>>, 1, 4))
  IN  [encoding |-> d.encoding,
       rest |-> IF d.bom THEN SubSeq(bytes, BomSize(d.encoding) + 1, Len(bytes)) ELSE bytes]

\* A file and a stream are read for four bytes, then set to the end of the mark.
SkipBomFile(bytes) == SkipBom(bytes)
SkipBomStream(bytes) == SkipBom(bytes)

-----------------------------------------------------------------------------
\* The adapters.

IteratorUtf8(bytes) ==
  IF Utf8Valid(bytes) THEN Filled(SelectSeq(bytes, LAMBDA b : b # CR)) ELSE Thrown

\* An iterator passes the end when the last unit is not complete.
IteratorUtf16(bytes, encoding) ==
  IF Len(bytes) % 2 # 0 THEN Overread
  ELSE DrainIterator(Units16(bytes, encoding), <<0, 0>>, 0, <<>>)

IteratorUtf32(bytes, encoding) ==
  IF Len(bytes) % 4 # 0 THEN Overread
  ELSE Utf32Text([i \in 1..(Len(bytes) \div 4) |->
               SignedUnit32(SubSeq(bytes, 4 * i - 3, 4 * i), encoding)])

\* iterator_input_adapter over char.
ReadChars(bytes) ==
  LET source == SkipBom(bytes)
  IN  CASE source.encoding = "UTF_8" -> IteratorUtf8(source.rest)
        [] source.encoding \in {"UTF_16BE", "UTF_16LE"} -> IteratorUtf16(source.rest, source.encoding)
        [] OTHER -> IteratorUtf32(source.rest, source.encoding)

\* Over char8_t: nothing but UTF-8 is looked for.
ReadChar8(bytes) == IteratorUtf8(SkipBom(bytes).rest)

\* Over char16_t: the first two elements must look like UTF-16.
ReadChar16(units) ==
  LET halves(u) == <<u \div 256, u % 256>>
      first == FlattenSeq([i \in 1..Min({2, Len(units)}) |-> halves(units[i])])
      d == IF units = <<>> THEN [encoding |-> "UTF_16BE", bom |-> FALSE]
           ELSE detect_encoding_type(SubSeq(first \o <<255, 255>>, 1, 4))
      swapped(u) == (u % 256) * 256 + u \div 256
      rest == IF d.bom THEN Tail(units) ELSE units
  IN  IF d.encoding \notin {"UTF_16BE", "UTF_16LE"} THEN Thrown
      ELSE DrainIterator([i \in 1..Len(rest) |->
                            IF d.encoding = "UTF_16BE" THEN rest[i] ELSE swapped(rest[i])],
                         <<0, 0>>, 0, <<>>)

\* Over char32_t: the first element must look like UTF-32.
ReadChar32(quads) ==
  LET d == IF quads = <<>> THEN [encoding |-> "UTF_32BE", bom |-> FALSE]
           ELSE detect_encoding_type(quads[1])
      rest == IF d.bom THEN Tail(quads) ELSE quads
  IN  IF d.encoding \notin {"UTF_32BE", "UTF_32LE"} THEN Thrown
      ELSE Utf32Text([i \in 1..Len(rest) |-> Unit32(rest[i], d.encoding)])

\* The chunks as they are appended: in each one the search for a carriage return
\* goes on to the last one, so those before it stay in the text.
Chunked(bytes) ==
  LET chunk(i) == (i - 1) \div ChunkSize
      returns == {i \in 1..Len(bytes) : bytes[i] = CR}
      dropped == {i \in returns : \A j \in returns : chunk(j) = chunk(i) => j <= i}
      kept == SelectSeq([i \in 1..Len(bytes) |-> i], LAMBDA i : i \notin dropped)
  IN  [k \in 1..Len(kept) |-> bytes[kept[k]]]

FileUtf8(bytes) == IF Utf8Valid(Chunked(bytes)) THEN Filled(Chunked(bytes)) ELSE Thrown

FileUtf16(bytes, encoding) == DrainFile(Units16(bytes, encoding), <<0, 0>>, 0, <<>>)

FileUtf32(bytes, encoding) == Utf32Text(Units32(bytes, encoding))

\* file_input_adapter.
ReadFile(bytes) ==
  LET source == SkipBomFile(bytes)
  IN  CASE source.encoding = "UTF_8" -> FileUtf8(source.rest)
        [] source.encoding \in {"UTF_16BE", "UTF_16LE"} -> FileUtf16(source.rest, source.encoding)
        [] OTHER -> FileUtf32(source.rest, source.encoding)

\* stream_input_adapter makes the same loops over an istream, whose eof() is set,
\* like feof(), by the read that comes short.
StreamUtf8(bytes) == IF Utf8Valid(Chunked(bytes)) THEN Filled(Chunked(bytes)) ELSE Thrown

StreamUtf16(bytes, encoding) == DrainFile(Units16(bytes, encoding), <<0, 0>>, 0, <<>>)

StreamUtf32(bytes, encoding) == Utf32Text(Units32(bytes, encoding))

ReadStream(bytes) ==
  LET source == SkipBomStream(bytes)
  IN  CASE source.encoding = "UTF_8" -> StreamUtf8(source.rest)
        [] source.encoding \in {"UTF_16BE", "UTF_16LE"} -> StreamUtf16(source.rest, source.encoding)
        [] OTHER -> StreamUtf32(source.rest, source.encoding)
=============================================================================
