----------------------------- MODULE YamlScalar -----------------------------
(***************************************************************************)
(* The scalar level of the YAML library (libs/node.hpp): which type a plain *)
(* scalar has, the values of null, boolean and integer texts, the escapes   *)
(* of double-quoted scalars, and the characters of a tag.  A text is a      *)
(* TLA+ string, one character of it a string of length one.                 *)
(***************************************************************************)
EXTENDS Integers, Sequences, FiniteSetsExt

CONSTANT LongMax     \* the largest integer_type, 2^63 - 1

ASSUME LongAssumption == LongMax \in Nat

\* The character at a place; past the end the terminating zero, which is none.
At(s, i) == IF i \in 1..Len(s) THEN SubSeq(s, i, i) ELSE ""

Chars(s) == {At(s, i) : i \in 1..Len(s)}

Decimal == "0123456789"
Hexadecimal == "0123456789abcdef"
Alphabet == Chars("abcdefghijklmnopqrstuvwxyzABCDEFGHIJKLMNOPQRSTUVWXYZ")

is_digit(c) == c \in Chars(Decimal)
is_xdigit(c) == c \in Chars("0123456789abcdefABCDEF")

Nulls == {"null", "Null", "NULL", "~"}
Trues == {"true", "True", "TRUE"}
Falses == {"false", "False", "FALSE"}
Infinities == {".inf", ".Inf", ".INF", "-.inf", "-.Inf", "-.INF"}
NaNs == {".nan", ".NaN", ".NAN"}

-----------------------------------------------------------------------------
\* scalar_scanner: each operator looks at the characters that are left.

RECURSIVE scan_octal_number(_)
scan_octal_number(s) ==
  CASE At(s, 1) \notin Chars("01234567") -> "STRING_VALUE"
    [] Len(s) = 1 -> "INTEGER_VALUE"
    [] OTHER -> scan_octal_number(Tail(s))

RECURSIVE scan_hexadecimal_number(_)
scan_hexadecimal_number(s) ==
  CASE ~is_xdigit(At(s, 1)) -> "STRING_VALUE"
    [] Len(s) = 1 -> "INTEGER_VALUE"
    [] OTHER -> scan_hexadecimal_number(Tail(s))

RECURSIVE scan_decimal_number(_, _)

scan_after_decimal_point(s) ==
  CASE ~is_digit(At(s, 1)) -> "STRING_VALUE"
    [] Len(s) = 1 -> "FLOAT_NUMBER_VALUE"
    [] OTHER -> scan_decimal_number(Tail(s), TRUE)

\* An exponent of two digits or with a sign makes an integer of the token.
scan_after_exponent(s, point) ==
  CASE is_digit(At(s, 1)) /\ Len(s) = 1 -> "FLOAT_NUMBER_VALUE"
    [] is_digit(At(s, 1)) \/ (At(s, 1) \in {"+", "-"} /\ Len(s) > 1) ->
         scan_decimal_number(Tail(s), point)
    [] OTHER -> "STRING_VALUE"

FloatUnlessString(type) == IF type = "STRING_VALUE" THEN type ELSE "FLOAT_NUMBER_VALUE"

scan_decimal_number(s, point) ==
  CASE is_digit(At(s, 1)) ->
         IF Len(s) = 1 THEN "INTEGER_VALUE" ELSE scan_decimal_number(Tail(s), point)
    [] At(s, 1) = "." /\ ~point -> FloatUnlessString(scan_after_decimal_point(Tail(s)))
    [] At(s, 1) \in {"e", "E"} /\ Len(s) > 1 -> scan_after_exponent(Tail(s), point)
    [] OTHER -> "STRING_VALUE"

\* 0123 is no integer in YAML 1.2.
scan_after_zero_at_first(s) ==
  CASE Len(s) = 1 -> "STRING_VALUE"
    [] At(s, 1) = "." -> FloatUnlessString(scan_after_decimal_point(Tail(s)))
    [] At(s, 1) = "o" -> scan_octal_number(Tail(s))
    [] At(s, 1) = "x" -> scan_hexadecimal_number(Tail(s))
    [] OTHER -> "STRING_VALUE"

scan_negative_number(s) ==
  CASE ~is_digit(At(s, 1)) -> "STRING_VALUE"
    [] Len(s) = 1 -> "INTEGER_VALUE"
    [] OTHER -> scan_decimal_number(Tail(s), FALSE)

scan_possible_number_token(s) ==
  CASE At(s, 1) = "-" /\ Len(s) > 1 -> scan_negative_number(Tail(s))
    [] At(s, 1) = "+" /\ Len(s) > 1 -> scan_decimal_number(Tail(s), FALSE)
    [] At(s, 1) = "0" /\ Len(s) > 1 -> scan_after_zero_at_first(Tail(s))
    [] is_digit(At(s, 1)) ->
         IF Len(s) = 1 THEN "INTEGER_VALUE" ELSE scan_decimal_number(Tail(s), FALSE)
    [] OTHER -> "STRING_VALUE"

\* The type of a plain scalar.
scan(s) ==
  CASE s = "" -> "STRING_VALUE"
    [] s \in Nulls -> "NULL_VALUE"
    [] s \in Trues \cup Falses -> "BOOLEAN_VALUE"
    [] s \in Infinities \cup NaNs -> "FLOAT_NUMBER_VALUE"
    [] OTHER -> scan_possible_number_token(s)

-----------------------------------------------------------------------------
\* from_string.

\* The digits std::stoll reads from place i on in a base; it stops at the first
\* character that is none, and throws when there is none or too large a number.
DigitValue(c) ==
  LET lower(d) == IF d \in Chars("ABCDEF")
                  THEN At("abcdef", CHOOSE k \in 1..6 : At("ABCDEF", k) = d) ELSE d
  IN  (CHOOSE k \in 1..16 : At(Hexadecimal, k) = lower(c)) - 1

RECURSIVE Digits(_, _, _, _)
Digits(s, i, base, n) ==
  LET d == DigitValue(At(s, i))
  IN  IF is_xdigit(At(s, i)) /\ d < base
      THEN IF n > (LongMax - d) \div base THEN [ok |-> FALSE, num |-> 0]
           ELSE Digits(s, i + 1, base, n * base + d)
      ELSE [ok |-> TRUE, num |-> n]

\* from_string for integers: base 0, that is 0x for hexadecimal and 0 for octal.
integer_from_string(s) ==
  LET i == IF At(s, 1) \in {"+", "-"} THEN 2 ELSE 1
      base == CASE At(s, i) # "0" -> 10
                [] At(s, i + 1) \in {"x", "X"} /\ is_xdigit(At(s, i + 2)) -> 16
                [] OTHER -> 8
  IN  IF ~is_digit(At(s, i)) THEN [ok |-> FALSE, num |-> 0]
      ELSE [Digits(s, IF base = 16 THEN i + 2 ELSE i, base, 0) EXCEPT
              !.num = IF At(s, 1) = "-" THEN -@ ELSE @]

null_from_string(s) == [ok |-> s \in Nulls, num |-> 0]

bool_from_string(s) == [ok |-> s \in Trues \cup Falses, num |-> IF s \in Trues THEN 1 ELSE 0]

\* A floating point number is kept as its text: only whether std::stod takes it.
float_from_string(s) ==
  [ok |-> \/ s \in Infinities \cup NaNs
          \/ LET t == IF At(s, 1) \in {"+", "-"} THEN Tail(s) ELSE s
             IN  is_digit(At(t, 1)) \/ (At(t, 1) = "." /\ is_digit(At(t, 2))),
   num |-> 0]

-----------------------------------------------------------------------------
\* yaml_escaper.

\* The form feed also stands for the control and non-ASCII characters that a
\* TLA+ string cannot hold.
Other == "\f"

Printable ==   \* without the grave accent, which the lexer refuses like the at sign
  " !\"#$%&'()*+,-./0123456789:;<=>?@ABCDEFGHIJKLMNOPQRSTUVWXYZ[\\]^_abcdefghijklmnopqrstuvwxyz{|}~"

CharOf(code) ==
  CASE code \in 32..95  -> At(Printable, code - 31)
    [] code \in 97..126 -> At(Printable, code - 32)
    [] code = 9  -> "\t"
    [] code = 10 -> "\n"
    [] code = 13 -> "\r"
    [] OTHER     -> Other

convert_hexchar_to_byte(c) == DigitValue(c)

\* The 2 * n hexadecimal digits after place i; a larger code than Unicode has is
\* refused by the converter.  The check for room asks for fewer characters than
\* are read, but the terminating zero is no digit.
extract_codepoint(s, i, n) ==
  LET digits == (i + 1)..(i + 2 * n)
      high   == {k \in digits : k <= i + 2 * n - 6}
      value  == FoldSet(LAMBDA k, v : v + convert_hexchar_to_byte(At(s, k)) * 16 ^ (i + 2 * n - k),
                        0, digits \ high)
  IN  IF (\A k \in digits : is_xdigit(At(s, k))) /\ (\A k \in high : At(s, k) = "0") THEN value ELSE -1

unescape_escaped_unicode(code) == CharOf(code)

CodedEscape(code, last) ==
  [ok |-> code \in 0..1114111, last |-> last, char |-> unescape_escaped_unicode(code)]

\* The escape at place i: whether it is one, its last place and its character.
unescape(s, i) ==
  LET simple(c) == [ok |-> TRUE, last |-> i + 1, char |-> c]
      n == CASE At(s, i + 1) = "x" -> 1 [] At(s, i + 1) = "u" -> 2 [] OTHER -> 4
      c == At(s, i + 1)
  IN  CASE c \in {"t", "\t"} -> simple("\t")
        [] c = "n" -> simple("\n")
        [] c = "r" -> simple("\r")
        [] c \in {" ", "\"", "/", "\\"} -> simple(c)
        [] c \in {"a", "b", "v", "f", "e", "N", "_", "L", "P"} -> simple(Other)
        [] c \in {"x", "u", "U"} -> CodedEscape(extract_codepoint(s, i + 1, n), i + 1 + 2 * n)
        [] OTHER -> [ok |-> FALSE, last |-> i + 1, char |-> ""]

\* Mutant: the backslash itself is not escaped.
EscapedBackslashKept(c) ==
  CASE c = "\t" -> "\\t"
    [] c = "\n" -> "\\n"
    [] c = "\r" -> "\\r"
    [] c = Other -> "\\f"
    [] c = "\"" -> "\\\""
    [] OTHER -> c

Escaped(c) ==
  CASE c = "\t" -> "\\t"
    [] c = "\n" -> "\\n"
    [] c = "\r" -> "\\r"
    [] c = Other -> "\\f"
    [] c = "\"" -> "\\\""
    [] c = "\\" -> "\\\\"
    [] OTHER -> c

RECURSIVE escape(_)
escape(s) == IF s = "" THEN "" ELSE Escaped(At(s, 1)) \o escape(Tail(s))

-----------------------------------------------------------------------------
\* uri_encoding, for the prefixes and suffixes of tags.

validate_character(c) ==
  c \in Chars(":/?#[]@!$&'()*+,;=-._~") \cup Chars(Decimal) \cup Alphabet

validate_octets(s, i) == is_xdigit(At(s, i)) /\ is_xdigit(At(s, i + 1))

\* The loop steps over the character that follows an octet without looking at it,
\* and past the end when nothing follows.
RECURSIVE UriValid(_, _)
UriValid(s, i) ==
  CASE i = Len(s) + 1 -> "valid"
    [] i > Len(s) + 1 -> "overrun"
    [] At(s, i) = "%" -> IF validate_octets(s, i + 1) THEN UriValid(s, i + 4) ELSE "invalid"
    [] OTHER -> IF validate_character(At(s, i)) THEN UriValid(s, i + 1) ELSE "invalid"
=============================================================================
