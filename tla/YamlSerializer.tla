---------------------------- MODULE YamlSerializer ----------------------------
(***************************************************************************)
(* The serializer of the YAML library (libs/node.hpp): the text of a        *)
(* document, put together in one string as the code does, which looks back  *)
(* into it for the current indentation.                                     *)
(***************************************************************************)
EXTENDS YamlParser

-----------------------------------------------------------------------------
\* to_string.

RECURSIVE NaturalText(_)
NaturalText(n) ==
  (IF n < 10 THEN "" ELSE NaturalText(n \div 10)) \o At(Decimal, (n % 10) + 1)

IntegerText(i) == IF i < 0 THEN "-" \o NaturalText(-i) ELSE NaturalText(i)

\* A stream writes a number without the sign +, trailing zeros and a trailing
\* point; a number with an exponent is kept as it was read.
FloatText(s) ==
  LET t == IF At(s, 1) = "+" THEN Tail(s) ELSE s
      last == Max({0} \cup {k \in 1..Len(t) : At(t, k) # "0"})
  IN  CASE s \in NaNs -> ".nan"
        [] s \in Infinities -> IF At(s, 1) = "-" THEN "-.inf" ELSE ".inf"
        [] "." \notin Chars(t) \/ Chars(t) \cap {"e", "E"} # {} -> t
        [] At(t, last) = "." -> SubSeq(t, 1, last - 1)
        [] OTHER -> SubSeq(t, 1, last)

\* A string is quoted when it has escapes or when its first token is no string:
\* what follows that token is not looked at.
StringText(s) ==
  LET escaped == escape(s)
  IN  IF escaped = s /\ get_next_token(lexer(s)).type = "STRING_VALUE" THEN s ELSE "\"" \o escaped \o "\""

-----------------------------------------------------------------------------
get_cur_indent(s) == Len(s) - Max({0} \cup {k \in 1..Len(s) : At(s, k) = "\n"})

\* A width below the current one would ask for more spaces than there is memory.
insert_indentation(s, indent) ==
  IF indent = 0 THEN s ELSE s \o Repeat(" ", indent - get_cur_indent(s))

try_append_anchor(D, p, prepended) ==
  IF is_anchor(D, p) THEN (IF prepended THEN " " ELSE "") \o "&" \o D.cell[p].anchor ELSE ""

try_append_alias(D, p, prepended) ==
  IF is_alias(D, p) THEN (IF prepended THEN " " ELSE "") \o "*" \o D.cell[p].anchor ELSE ""

try_append_tag(D, p, prepended) ==
  IF D.cell[p].tag # "" THEN (IF prepended THEN " " ELSE "") \o D.cell[p].tag ELSE ""

ScalarText(v) ==
  CASE v.type = "NULL_OBJECT"  -> "null"
    [] v.type = "BOOLEAN"      -> IF v.num = 1 THEN "true" ELSE "false"
    [] v.type = "INTEGER"      -> IntegerText(v.num)
    [] v.type = "FLOAT_NUMBER" -> FloatText(v.str)
    [] v.type = "STRING"       -> StringText(v.str)

RECURSIVE serialize_node(_, _, _, _), SerializeKids(_, _, _, _)

\* What follows the dash of an element or the colon of a key.
SerializeValue(D, p, indent, s) ==
  LET t == s \o try_append_anchor(D, p, TRUE) \o try_append_tag(D, p, TRUE)
  IN  CASE is_alias(D, p)  -> s \o try_append_alias(D, p, TRUE) \o "\n"
        [] is_scalar(D, p) -> t \o " " \o ScalarText(Value(D, p)) \o "\n"
        [] OTHER -> serialize_node(D, p, indent + 2, t \o "\n")

\* A key, with the mark of an explicit one when it is a container.
SerializeKey(D, p, s) ==
  LET anchor == try_append_anchor(D, p, FALSE)
      tag == try_append_tag(D, p, anchor # "")
      t == s \o anchor \o tag \o IF anchor = "" /\ tag = "" THEN "" ELSE " "
      u == t \o "? "
  IN  CASE is_alias(D, p)  -> s \o try_append_alias(D, p, FALSE)
        [] is_scalar(D, p) -> t \o ScalarText(Value(D, p))
        [] OTHER -> insert_indentation(serialize_node(D, p, get_cur_indent(u), u), get_cur_indent(u) - 2)

SerializeKid(D, kid, indent, s) ==
  SerializeValue(D, kid.node, indent, IF kid.key = 0 THEN s \o "-" ELSE SerializeKey(D, kid.key, s) \o ":")

SerializeKids(D, kids, indent, s) ==
  IF kids = <<>> THEN s
  ELSE SerializeKids(D, Tail(kids), indent, SerializeKid(D, Head(kids), indent, insert_indentation(s, indent)))

serialize_node(D, p, indent, s) ==
  LET v == Value(D, p)
  IN  CASE v.type = "SEQUENCE" -> SerializeKids(D, v.kids, indent, s)
        [] v.type = "MAPPING"  -> SerializeKids(D, Sorted(D, v.kids), indent, s)
        [] OTHER -> s \o ScalarText(v)

serialize_directives(meta) ==
  LET line(handle, prefix) == IF prefix = "" THEN "" ELSE "%TAG " \o handle \o " " \o prefix \o "\n"
      text == (CASE meta.version = "" -> ""
                 [] meta.version = "VER_1_1" -> "%YAML 1.1\n"
                 [] OTHER -> "%YAML 1.2\n")
              \o line("!", meta.primary) \o line("!!", meta.secondary)
              \o FoldSet(LAMBDA n, t : t \o line(n.handle, n.prefix), "", meta.named)
  IN  IF text = "" THEN "" ELSE text \o "---\n"

serialize(P) == serialize_node(P.D, 1, 0, serialize_directives(P.meta))
=============================================================================
