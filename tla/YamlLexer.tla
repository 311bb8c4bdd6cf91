------------------------------ MODULE YamlLexer ------------------------------
(***************************************************************************)
(* The lexical analyzer of the YAML library (libs/node.hpp).  Its object is *)
(* a record, its iterators are places in the input and the end is one place *)
(* past the last character, where At yields no character.  Scanning yields  *)
(* the record with the token's type, which is "error" where the code throws *)
(* a parse_error and "undefined" where an iterator passes the end.  In the  *)
(* modules of the YAML library the arms of a CASE are tried in their order. *)
(***************************************************************************)
EXTENDS YamlScalar

lexer(text) ==
  [src |-> text, cur |-> 1, beg |-> 1, val |-> "", type |-> "END_OF_BUFFER",
   depth |-> 0, pos |-> 0, line |-> 0, handle |-> "", prefix |-> ""]

Blank == {" ", "\t"}
Break == {"\n"}
FlowIndicator == {"{", "}", "[", "]", ","}

End(L) == Len(L.src) + 1
Char(L) == At(L.src, L.cur)
Next1(L) == At(L.src, L.cur + 1)

\* The text between the beginning of the token and the cursor.
Text(L) == SubSeq(L.src, L.beg, L.cur - 1)

Token(L, type) == [L EXCEPT !.type = type]
emit_error(L) == [L EXCEPT !.type = "error"]
Overrun(L) == [L EXCEPT !.type = "undefined"]
Failed(L) == L.type \in {"error", "undefined"}

\* The first place from i on whose character is not in a set, or is in it.
RECURSIVE SkipFrom(_, _, _)
SkipFrom(s, i, set) == IF At(s, i) \in set THEN SkipFrom(s, i + 1, set) ELSE i

RECURSIVE FindFrom(_, _, _)
FindFrom(s, i, set) == IF i > Len(s) \/ At(s, i) \in set THEN i ELSE FindFrom(s, i + 1, set)

skip_white_spaces(L) == [L EXCEPT !.cur = SkipFrom(L.src, @, Blank)]
skip_white_spaces_and_newline_codes(L) == [L EXCEPT !.cur = SkipFrom(L.src, @, Blank \cup Break)]
skip_until_line_end(L) ==
  [L EXCEPT !.cur = LET i == FindFrom(L.src, @, Break) IN IF i = End(L) THEN i ELSE i + 1]

\* position_tracker: the lines before a place, and the place in its line.
get_lines_read(s, i) == Cardinality({k \in 1..(i - 1) : At(s, k) = "\n"})
get_cur_pos_in_line(s, i) == i - 1 - Max({0} \cup {k \in 1..(i - 1) : At(s, k) = "\n"})

-----------------------------------------------------------------------------
\* Directives.

scan_yaml_version_directive(L) ==
  LET M == [L EXCEPT !.beg = L.cur, !.cur = FindFrom(L.src, @, Blank \cup Break)]
      N == [M EXCEPT !.val = Text(M)]
  IN  IF N.val \in {"1.1", "1.2"} THEN Token(N, "YAML_VER_DIRECTIVE") ELSE emit_error(N)

\* The place after a tag handle (!, !! or !name!), which a blank must follow;
\* 0 when there is none.
HandleEnd(L) ==
  LET second == At(L.src, L.cur + 1)
      bang == FindFrom(L.src, L.cur + 1, {"!"} \cup Blank)
      name == {At(L.src, k) : k \in (L.cur + 1)..(bang - 1)}
      last == CASE second \in Blank -> L.cur
                [] second = "!" -> L.cur + 1
                [] name \subseteq Alphabet \cup Chars(Decimal) \cup {"-"} -> bang
                [] OTHER -> 0
  IN  IF Char(L) = "!" /\ last > 0 /\ At(L.src, last) = "!" /\ At(L.src, last + 1) \in Blank
      THEN last + 1 ELSE 0

\* A token with a URI in it.
UriToken(L, text, type) ==
  LET uri == UriValid(text, 1)
  IN  CASE uri = "overrun" -> Overrun(L)
        [] uri = "invalid" -> emit_error(L)
        [] OTHER -> Token(L, type)

\* The prefix runs to a blank.  At the end of the input the loop starts past it.
TagPrefix(L) ==
  LET end == FindFrom(L.src, L.cur, Blank \cup Break)
      M == [L EXCEPT !.beg = L.cur, !.cur = end, !.prefix = SubSeq(L.src, L.cur, end - 1)]
  IN  IF L.cur = End(L) THEN Overrun(M)
      ELSE IF Char(L) \in FlowIndicator THEN emit_error(M)
      ELSE UriToken(M, M.prefix, "TAG_DIRECTIVE")

TagHandle(L, end) == [L EXCEPT !.cur = end, !.handle = SubSeq(L.src, L.cur, end - 1)]

PrefixAfter(L, end) == IF end = 0 THEN emit_error(L) ELSE TagPrefix(skip_white_spaces(TagHandle(L, end)))

scan_tag_directive(L) == PrefixAfter(L, HandleEnd(L))

scan_directive(L) ==
  LET M == [L EXCEPT !.beg = L.cur + 1, !.cur = FindFrom(L.src, L.cur + 1, Blank \cup Break)]
      name == Text(M)
  IN  CASE Char(M) \notin Blank /\ name \in {"TAG", "YAML"} /\ M.cur = End(M) -> emit_error(M)
        [] Char(M) \in Blank /\ name = "TAG" -> scan_tag_directive(skip_white_spaces(M))
        [] Char(M) \in Blank /\ name = "YAML" -> scan_yaml_version_directive(skip_white_spaces(M))
        [] OTHER -> Token(skip_until_line_end(M), "INVALID_DIRECTIVE")

scan_comment(L) == skip_until_line_end(L)

-----------------------------------------------------------------------------
\* Node properties.

extract_anchor_name(L, type) ==
  LET M == [L EXCEPT !.beg = L.cur + 1,
                     !.cur = FindFrom(L.src, L.cur + 1, Blank \cup Break \cup FlowIndicator)]
      N == [M EXCEPT !.val = Text(M)]
  IN  IF N.val = "" THEN emit_error(N) ELSE Token(N, type)

\* "!", "!<uri>", "!!suffix", "!suffix" and "!name!suffix".
Suffix(tag, i) == SubSeq(tag, i, Len(tag))

TagName(L, tag) ==
  LET second == At(tag, 2)
      bangs == {k \in (IF second = "<" THEN 4 ELSE 3)..Len(tag) : At(tag, k) = "!"}
  IN  CASE Cardinality(bangs) > (IF second \in {"<", "!"} THEN 0 ELSE 1) -> emit_error(L)
        [] second = "<" -> IF At(tag, Len(tag)) # ">" \/ Len(tag) = 3 THEN emit_error(L)
                           ELSE UriToken(L, SubSeq(tag, 3, Len(tag) - 1), "TAG_PREFIX")
        [] Len(tag) \in bangs -> emit_error(L)
        [] bangs # {} -> UriToken(L, Suffix(tag, Max(bangs) + 1), "TAG_PREFIX")
        [] OTHER -> Token(L, "TAG_PREFIX")

TagUpTo(L, end) ==
  LET tag == SubSeq(L.src, L.cur, end - 1) IN TagName([L EXCEPT !.cur = end, !.val = tag], tag)

extract_tag_name(L) ==
  LET from == IF Next1(L) = "<" THEN L.cur + 3 ELSE L.cur + 2
  IN  CASE Next1(L) \in {"", " ", "\n"} -> [Token(L, "TAG_PREFIX") EXCEPT !.cur = @ + 1, !.val = "!"]
        [] from > End(L) -> Overrun(L)
        [] OTHER -> TagUpTo(L, FindFrom(L.src, from, Blank \cup Break))

-----------------------------------------------------------------------------
\* Plain and quoted scalars.  The checks yield "more" where the code allows the
\* character, and STRING_VALUE where the token ends.

More(L) == Token(L, "more")

\* The text up to the cursor, then n places further.
Taken(L, n) == [L EXCEPT !.val = @ \o Text(L), !.cur = @ + n]

\* The token goes on at the cursor.  The loop steps over the character there
\* without looking at it, unless it is the closing quote or the end.
Resumed(L, quote) ==
  More(IF L.cur = End(L) \/ Char(L) = quote THEN [L EXCEPT !.beg = L.cur, !.cur = @ - 1]
       ELSE [L EXCEPT !.beg = L.cur])

RECURSIVE Repeat(_, _)
Repeat(c, n) == IF n = 0 THEN "" ELSE c \o Repeat(c, n - 1)

\* A line break in quotes: blanks before it are dropped, it becomes a space, or
\* the empty lines after it.  The search for blanks stops at the token's first
\* character only when it starts behind it: an escaped blank before the break
\* leads it further back.
LineFolded(L, quote) ==
  LET first == IF L.cur - 1 < L.beg THEN 1 ELSE L.beg
      last == Max({first} \cup {k \in first..(L.cur - 1) : At(L.src, k) \notin Blank})
      M == skip_white_spaces_and_newline_codes([L EXCEPT !.cur = @ + 1])
      empty == get_lines_read(L.src, M.cur) - get_lines_read(L.src, L.cur + 1)
  IN  IF last + 1 < L.beg THEN Overrun(L)
      ELSE Resumed([M EXCEPT !.val = @ \o SubSeq(L.src, L.beg, last)
                                       \o IF empty > 0 THEN Repeat("\n", empty) ELSE " "], quote)

is_allowed_single(L) ==
  CASE Char(L) = "\n" -> LineFolded(L, "'")
    [] Next1(L) = "'" -> LET M == Taken([L EXCEPT !.cur = @ + 1], 0)
                         IN  More([M EXCEPT !.beg = M.cur + 1])
    [] OTHER -> Token(Taken(L, 1), "STRING_VALUE")

Unescaped(L, e) ==
  IF e.ok THEN More([Taken(L, 0) EXCEPT !.val = @ \o e.char, !.cur = e.last, !.beg = e.last + 1])
  ELSE emit_error(L)

is_allowed_double(L) ==
  CASE Char(L) = "\n" -> LineFolded(L, "\"")
    [] Char(L) = "\"" -> Token(Taken(L, 1), "STRING_VALUE")
    [] Next1(L) = "\n" -> Resumed(skip_white_spaces(Taken(L, 2)), "\"")
    [] OTHER -> Unescaped(L, unescape(L.src, L.cur))

is_allowed_plain(L) ==
  LET c == Char(L)
      next == Next1(L)
      ends == \/ c = " " /\ \/ L.depth # 0 /\ next \in FlowIndicator
                            \/ next = ":" /\ At(L.src, L.cur + 2) = " "
                            \/ next \in {" ", "\n", "#", "\\"}
              \/ c = ":" /\ next \in Blank \cup Break
              \/ c \in FlowIndicator /\ L.depth # 0
              \/ c = "\n"
  IN  IF ends THEN Token(Taken(L, IF c = " " THEN 1 ELSE 0), "STRING_VALUE") ELSE More(L)

\* A tab is safe, and so is a carriage return: the input adapters are trusted to
\* have dropped it.  Every other control character must be escaped.
handle_unescaped_control_char(L) == IF Char(L) = Other THEN emit_error(L) ELSE More(L)

CheckFilter(quote) ==
  CASE quote = "'"  -> {"\n", "'"}
    [] quote = "\"" -> {"\n", "\"", "\\"}
    [] OTHER        -> {"\n", " ", ":"} \cup FlowIndicator

Checked(L, quote) ==
  CASE Char(L) \notin CheckFilter(quote) -> handle_unescaped_control_char(L)
    [] quote = "'"  -> is_allowed_single(L)
    [] quote = "\"" -> is_allowed_double(L)
    [] OTHER        -> is_allowed_plain(L)

RECURSIVE extract_string_token(_, _)

GoOn(L, quote) ==
  IF L.type # "more" THEN L
  ELSE extract_string_token([L EXCEPT !.cur = IF @ = End(L) THEN @ ELSE @ + 1], quote)

extract_string_token(L, quote) ==
  CASE L.cur < End(L) -> GoOn(Checked(L, quote), quote)
    [] quote = ""     -> Token(Taken(L, 0), "STRING_VALUE")
    [] OTHER          -> emit_error(L)

\* Only a scalar without quotes may be something else than a string.
Typed(L, quote) == IF quote # "" \/ Failed(L) THEN L ELSE Token(L, scan(L.val))

scan_scalar(L) ==
  LET quote == IF L.cur = L.beg /\ Char(L) \in {"'", "\""} THEN Char(L) ELSE ""
      M == IF quote = "" THEN L ELSE [L EXCEPT !.cur = @ + 1, !.beg = L.cur + 1]
  IN  Typed(extract_string_token([M EXCEPT !.val = ""], quote), quote)

-----------------------------------------------------------------------------
\* Block scalars.

\* After | or >: the chomping indicator, then the indentation in one digit.
get_block_style_metadata(L) ==
  LET c == Next1(L)
      M == [L EXCEPT !.cur = IF c \in {"-", "+"} THEN @ + 2 ELSE @ + 1]
  IN  [chomp |-> CASE c = "-" -> "STRIP" [] c = "+" -> "KEEP" [] OTHER -> "CLIP",
       indent |-> IF is_digit(Char(M)) THEN DigitValue(Char(M)) ELSE 0,
       L |-> IF Char(M) = "0" THEN emit_error(M) ELSE skip_until_line_end(M)]

Push(L, c) == [L EXCEPT !.val = @ \o c]

\* Lines of spaces in front of the text.
RECURSIVE LeadingLines(_)
LeadingLines(L) ==
  CASE Char(L) = " "  -> LeadingLines([L EXCEPT !.cur = @ + 1])
    [] Char(L) = "\n" -> LeadingLines(Push([L EXCEPT !.cur = @ + 1], "\n"))
    [] OTHER          -> L

\* The indentation of the line after a folded one: where the cursor stops, and
\* whether that is the text, an empty line or the end of the token.
RECURSIVE NextIndent(_, _, _)
NextIndent(L, indent, i) ==
  LET M == [L EXCEPT !.cur = @ + 1]
  IN  CASE i = indent      -> [L |-> L, at |-> "text"]
        [] Char(M) = " "   -> NextIndent(M, indent, i + 1)
        [] Char(M) = "\n"  -> [L |-> M, at |-> "empty"]
        [] OTHER           -> [L |-> M, at |-> "end"]

\* A line break of a folded scalar: the lexer, the characters counted in the
\* line, whether it is more indented, and whether the token goes on.
GoOnAfter(L, k, x) == [L |-> [L EXCEPT !.cur = @ + 1], chars |-> k, extra |-> x, more |-> TRUE]

FoldedAt(n, chars, extra) ==
  CASE n.at = "end" -> [L |-> Push(n.L, "\n"), chars |-> chars, extra |-> extra, more |-> FALSE]
    [] n.at = "empty" -> GoOnAfter(Push(n.L, "\n"), chars, extra)
    [] Next1(n.L) = "\n" -> GoOnAfter(Push([n.L EXCEPT !.cur = @ + 1], "\n"), 0, FALSE)
    [] OTHER -> GoOnAfter(IF Next1(n.L) = " " THEN n.L ELSE Push(n.L, " "), 0, FALSE)

FoldedBreak(L, indent, chars, extra) ==
  IF chars = 0 \/ extra THEN GoOnAfter(Push(L, "\n"), 0, FALSE)
  ELSE FoldedAt(NextIndent(L, indent, 0), chars, extra)

\* The loop over the text.
RECURSIVE BlockText(_, _, _, _, _)

AfterFold(f, indent) == IF f.more THEN BlockText(f.L, "FOLDED", indent, f.chars, f.extra) ELSE f.L

BlockText(L, style, indent, chars, extra) ==
  LET step(M) == [M EXCEPT !.cur = @ + 1]
      more == style = "FOLDED" /\ chars = 0 /\ Char(L) = " "
  IN  CASE L.cur = End(L) -> L
        [] Char(L) = "\n" /\ style = "LITERAL" ->
             BlockText(step(Push(L, "\n")), style, indent, 0, FALSE)
        [] Char(L) = "\n" -> AfterFold(FoldedBreak(L, indent, chars, extra), indent)
        [] get_cur_pos_in_line(L.src, L.cur) < indent ->
             IF Char(L) = " " THEN BlockText(step(L), style, indent, chars, extra) ELSE L
        [] OTHER ->
             BlockText(step(Push(L, (IF more THEN "\n" ELSE "") \o Char(L))), style, indent,
                       chars + 1, extra \/ more)

\* What stays of the line breaks at the end.
Chomped(val, chomp) ==
  LET text == Max({0} \cup {k \in 1..Len(val) : At(val, k) # "\n"})
  IN  CASE chomp = "STRIP" -> SubSeq(val, 1, text)
        [] chomp = "CLIP" /\ text < Len(val) -> SubSeq(val, 1, text + 1)
        [] OTHER -> val

\* The text, whose first line starts at a column.
BlockBody(L, style, indent, column) ==
  LET extra == column > indent /\ style = "FOLDED"
  IN  BlockText(Push(L, (IF extra THEN "\n" ELSE "") \o Repeat(" ", column - indent)),
                style, indent, column - indent, extra)

BlockScalar(L, style, b, column) ==
  LET indent == IF b.indent = 0 THEN column ELSE b.indent
  IN  CASE L.cur = End(L) -> Token(IF b.chomp = "KEEP" THEN L ELSE [L EXCEPT !.val = ""], "STRING_VALUE")
        [] column < indent -> emit_error(L)
        [] OTHER -> Token([BlockBody(L, style, indent, column) EXCEPT !.val = Chomped(@, b.chomp)],
                          "STRING_VALUE")

BeginBlock(L, style, b) == BlockScalar(L, style, b, get_cur_pos_in_line(L.src, L.cur))

WithMetadata(b, style) ==
  IF Failed(b.L) THEN b.L ELSE BeginBlock(LeadingLines([b.L EXCEPT !.val = ""]), style, b)

scan_block_style_string_token(L, style) == WithMetadata(get_block_style_metadata(L), style)

-----------------------------------------------------------------------------
\* The next token.  The depth of flow contexts is unsigned: a bracket too many
\* wraps it, and then every place is in a flow context.

Step(L, n, type) == [L EXCEPT !.cur = @ + n, !.type = type]

\* "?", ":", "-" and "." start an indicator or, like any other character, a plain
\* scalar.  After "-" the scalar goes on three characters later, whatever they are.
Indicator(L) ==
  LET c == Char(L)
      next == Next1(L)
      three == SubSeq(L.src, L.cur, Min({L.cur + 2, Len(L.src)}))
      separates == next \in {""} \cup Blank \cup Break \/ (next \in FlowIndicator /\ L.depth # 0)
  IN  CASE c = "?" /\ next = ""  -> [Step(L, 1, "STRING_VALUE") EXCEPT !.val = "?"]
        [] c = "?" /\ next = " " -> Step(L, 1, "EXPLICIT_KEY_PREFIX")
        [] c = ":" /\ separates  -> Step(L, 1, "KEY_SEPARATOR")
        [] c \in {"?", ":"}      -> Step(L, 1, "plain")
        [] c = "-" /\ next \in Blank \cup Break -> Step(L, 2, "SEQUENCE_BLOCK_PREFIX")
        [] three = "---" -> Step(L, 3, "END_OF_DIRECTIVES")
        [] three = "..." -> Step(L, 3, "END_OF_DOCUMENT")
        [] c = "-" /\ Len(three) = 3 -> Step(L, 3, "plain")
        [] OTHER -> Step(L, 0, "plain")

ScanIndicator(L) == IF L.type = "plain" THEN scan_scalar(L) ELSE L

FlowToken(L) ==
  CASE Char(L) = "[" -> [Step(L, 1, "SEQUENCE_FLOW_BEGIN") EXCEPT !.depth = @ + 1]
    [] Char(L) = "]" -> [Step(L, 1, "SEQUENCE_FLOW_END") EXCEPT !.depth = @ - 1]
    [] Char(L) = "{" -> [Step(L, 1, "MAPPING_FLOW_BEGIN") EXCEPT !.depth = @ + 1]
    [] Char(L) = "}" -> [Step(L, 1, "MAPPING_FLOW_END") EXCEPT !.depth = @ - 1]

\* The token starts at the cursor.
Begun(L) ==
  [L EXCEPT !.beg = L.cur, !.pos = get_cur_pos_in_line(L.src, L.cur), !.line = get_lines_read(L.src, L.cur)]

RECURSIVE get_next_token(_)

ScanToken(L) ==
  LET c == Char(L)
  IN  CASE c = "" -> Token(L, "END_OF_BUFFER")
        [] c = "," -> Step(L, 1, "VALUE_SEPARATOR")
        [] c = "&" -> extract_anchor_name(L, "ANCHOR_PREFIX")
        [] c = "*" -> extract_anchor_name(L, "ALIAS_PREFIX")
        [] c = "!" -> extract_tag_name(L)
        [] c = "#" -> get_next_token(scan_comment(L))
        [] c = "%" -> scan_directive(L)
        [] c \in {"[", "]", "{", "}"} -> FlowToken(L)
        [] c = "@" -> emit_error(L)
        [] c \in {"|", ">"} -> scan_block_style_string_token(L, IF c = "|" THEN "LITERAL" ELSE "FOLDED")
        [] OTHER -> ScanIndicator(Indicator(L))

get_next_token(L) == ScanToken(Begun(skip_white_spaces_and_newline_codes(L)))

-----------------------------------------------------------------------------
\* The value of the last token.

get_null(L) == null_from_string(L.val)
get_boolean(L) == bool_from_string(L.val)
get_float_number(L) == float_from_string(L.val)

\* 0o17 is 017 to the standard library.
get_integer(L) ==
  integer_from_string(IF Len(L.val) > 2 /\ SubSeq(L.val, 1, 2) = "0o"
                      THEN "0" \o SubSeq(L.val, 3, Len(L.val)) ELSE L.val)
=============================================================================
