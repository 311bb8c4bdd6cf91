---------------------------- MODULE MCConversions ----------------------------
(***************************************************************************)
(* The pure algorithms of the program on every input of small sets, and the *)
(* ring buffer on every sequence of calls.  A behaviour is about one        *)
(* subject: the ring, or a sample that is taken in two steps (first a       *)
(* family of inputs, then one of them) and looked at by the invariants.     *)
(***************************************************************************)
EXTENDS CircularBuffer, Conversions, Config

CONSTANTS
  Stamps, Sessions, MaxEdges,            \* packets of the remote key
  TextAlphabet, MaxLength, Speeds,       \* texts for the keyer
  StringAlphabet, MaxString,             \* strings of a document
  MaxPoints                              \* characters of an input

\* Every class of characters that quoting and block scalars tell apart.
MCStringAlphabet == {"a", " ", "'", "\"", "\\", "\n", ":", "#", "-", "{"}

-----------------------------------------------------------------------------
\* Packets and texts.

Edge == [ts_us : Stamps, state : 0..1]

Packets ==
  UNION {[session_id : Sessions, flags : 0..1, edges : [1..n -> Edge]] : n \in 0..MaxEdges}

PacketSamples(family) ==
  {[kind |-> "wire", pkt |-> family.pkt, size |-> n] : n \in 1..Len(encode(family.pkt))}

TextSamples(family) ==
  {[kind |-> "text", chars |-> family.first \o rest, initial |-> family.initial] :
     rest \in UNION {[1..n -> TextAlphabet] : n \in 0..(MaxLength - 1)}}

-----------------------------------------------------------------------------
\* The text of a sequence of strings.
RECURSIVE JoinedText(_)
JoinedText(strings) == IF strings = <<>> THEN "" ELSE Head(strings) \o JoinedText(Tail(strings))

\* Documents: a term is a leaf (its number in Leaves) or a container of terms.
\* A plain string with ": " or " #" in it and an empty container do not come back:
\* the serializer looks at the first token of a string only, and writes nothing
\* for a container without elements.

Leaves ==
  <<NullNode, BooleanNode(0), BooleanNode(1), IntegerNode(0), IntegerNode(-12), IntegerNode(34),
    FloatNode("1.5"), FloatNode("-.inf"), StringNode("a"), StringNode("x y"), StringNode(""),
    StringNode("true"), StringNode("12"), StringNode("~"), StringNode("it's"), StringNode("q\"b"),
    StringNode("a\\b"), StringNode("n\nl"), StringNode("- d"), StringNode("#c"), StringNode("t\t"),
    StringNode("[f"), StringNode("*s"), StringNode("a:b"), StringNode("012"), StringNode("1.5"),
    StringNode("\\\nb")>>

Leaf(i) == [type |-> "LEAF", leaf |-> i, kids |-> <<>>]
Keyed(t, key, terms) ==
  [type |-> t, leaf |-> 0,
   kids |-> [i \in 1..Len(terms) |-> [key |-> IF t = "SEQUENCE" THEN 0 ELSE key + i, node |-> terms[i]]]]

Containers(terms, n) ==
  {Keyed(t, 8, kids) : t \in {"SEQUENCE", "MAPPING"}, kids \in UNION {[1..m -> terms] : m \in 1..n}}

Terms == {Leaf(i) : i \in 1..Len(Leaves)} \cup Containers({Leaf(i) : i \in {1, 5, 9, 18}}, 2)

TreeSamples(family) ==
  {[kind |-> "tree", term |-> Keyed(family.type, family.key, rest \o <<family.last>>)] :
     rest \in UNION {[1..n -> Terms] : n \in 0..1}}

RECURSIVE Plant(_, _)
Plant(D, term) ==
  LET planted == FoldLeft(LAMBDA a, k :
                   LET E == IF k.key = 0 THEN a.D ELSE New(a.D, Leaves[k.key])
                       F == Plant(E, k.node)
                   IN  [D |-> F, kids |-> Append(a.kids, Child(IF k.key = 0 THEN 0 ELSE Last1(E), Last1(F)))],
                   [D |-> D, kids |-> <<>>], term.kids)
  IN  IF term.type = "LEAF" THEN New(D, Leaves[term.leaf])
      ELSE New(planted.D, [Node(term.type) EXCEPT !.kids = planted.kids])

\* The document of a term; its root is the last cell.
Document == Plant([cell |-> <<>>, table |-> <<>>], sample.term)
SerializedText(D) == serialize_node(D, Last1(D), 0, "")

IsDocument(P, D, root) == ~Stopped(P) /\ Tree(P.D, 1) = Tree(D, root)

\* A string as an operator may write it.

StringSamples(family) ==
  {[kind |-> "string", style |-> family.style, str |-> JoinedText(<<family.first>> \o rest)] :
     rest \in UNION {[1..n -> StringAlphabet] : n \in 0..(MaxString - 1)}}

Written(s, Char1(_)) == JoinedText([i \in 1..Len(s) |-> Char1(At(s, i))])

\* Single quotes hold no line break, and a block scalar starts with text and ends
\* with it.
Writable(style, s) ==
  /\ style = "single" => "\n" \notin Chars(s)
  /\ style = "literal" => At(s, 1) \notin {"", " ", "\n"} /\ At(s, Len(s)) # "\n"

Spelled(style, s) ==
  LET double(c) == CASE c = "\n" -> "\\n" [] c \in {"\"", "\\"} -> "\\" \o c [] OTHER -> c
  IN  CASE style = "single"  -> "a: '" \o Written(s, LAMBDA c : IF c = "'" THEN "''" ELSE c) \o "'\n"
        [] style = "double"  -> "a: \"" \o Written(s, double) \o "\"  # c\n"
        [] style = "flow"    -> "{a: \"" \o Written(s, double) \o "\"}"
        [] style = "literal" -> "a: |-\n  " \o Written(s, LAMBDA c : IF c = "\n" THEN "\n  " ELSE c) \o "\n"

StringDocument ==
  [cell |-> <<StringNode("a"), StringNode(sample.str), [mapping EXCEPT !.kids = <<Child(1, 2)>>]>>,
   table |-> <<>>]

\* A document with directives: a version, and prefixes for the tag handles.
Directives ==
  {<<"%YAML 1.1">>, <<"%YAML 1.2">>, <<"%TAG ! tag:a,">>, <<"%TAG !! tag:b,">>, <<"%TAG !e! tag:c,">>}

DirectiveSamples(family) ==
  {[kind |-> "directives", lines |-> family.first \o rest] :
     rest \in UNION {[1..n -> {d[1] : d \in Directives}] : n \in 0..2}}

DirectivesText == JoinedText([i \in 1..Len(sample.lines) |-> sample.lines[i] \o "\n"]) \o "---\nk: v\n"

\* A handle is declared once, and so is the version; what was declared is written
\* in front of the document and read again.
DeclaredOnce ==
  LET kind(i) == IF At(sample.lines[i], 2) = "Y" THEN "%YAML" ELSE SubSeq(sample.lines[i], 1, 7)
  IN  \A i, j \in 1..Len(sample.lines) : kind(i) = kind(j) => i = j

SameHeader(P, Q) == Q.meta = P.meta /\ IsDocument(Q, P.D, 1)

DirectivesKept(P) ==
  /\ DeclaredOnce = ~Stopped(P)
  /\ DeclaredOnce => SameHeader(P, deserialize(serialize(P)))

\* Inputs: the characters of a text in an encoding, with a mark or without.

Utf8 ==
  (97 :> <<97>>) @@ (10 :> <<10>>) @@ (13 :> <<13>>) @@ (233 :> <<195, 169>>)
    @@ (8364 :> <<226, 130, 172>>) @@ (128512 :> <<240, 159, 152, 128>>)

InputSamples(family) ==
  {[kind |-> "input", encoding |-> family.encoding, bom |-> family.bom, points |-> points] :
     points \in UNION {[1..n -> DOMAIN Utf8] : n \in 0..MaxPoints}}

Mark == 65279
Marked == (IF sample.bom THEN <<Mark>> ELSE <<>>) \o sample.points

Words(c) ==
  IF c < 65536 THEN <<c>> ELSE <<55296 + (c - 65536) \div 1024, 56320 + ((c - 65536) % 1024)>>
Words16 == FlattenSeq([i \in 1..Len(Marked) |-> Words(Marked[i])])

BytesOfWord(w, n) ==
  LET big == [i \in 1..n |-> (w \div 256 ^ (n - i)) % 256]
  IN  IF sample.encoding \in {"UTF_16BE", "UTF_32BE"} THEN big ELSE Reverse(big)

Utf8Of(points) ==
  FlattenSeq([i \in 1..Len(points) |-> IF points[i] = Mark THEN <<239, 187, 191>> ELSE Utf8[points[i]]])

Encoded ==
  CASE sample.encoding = "UTF_8" -> Utf8Of(Marked)
    [] sample.encoding \in {"UTF_16BE", "UTF_16LE"} ->
         FlattenSeq([i \in 1..Len(Words16) |-> BytesOfWord(Words16[i], 2)])
    [] OTHER -> FlattenSeq([i \in 1..Len(Marked) |-> BytesOfWord(Marked[i], 4)])

\* The elements of an iterator over wider characters.
Words16Read == IF sample.encoding = "UTF_16BE" THEN Words16
               ELSE [i \in 1..Len(Words16) |-> (Words16[i] % 256) * 256 + Words16[i] \div 256]
Quads == [i \in 1..Len(Marked) |-> BytesOfWord(Marked[i], 4)]

KeptPoints == SelectSeq(sample.points, LAMBDA c : c # CR)
Decoded == Filled(Utf8Of(KeptPoints))

\* Without a mark the encoding shows in a first character that is ASCII.
Detectable == sample.bom \/ (sample.points # <<>> /\ sample.points[1] < 128)

\* Texts the adapters are known not to keep: an iterator over UTF-16 does not end
\* after a last carriage return, one over UTF-32 chars takes bytes above 127 for
\* negative; a FILE and a stream drop one carriage return of every chunk, give a
\* zero for an empty UTF-16 text and repeat a pair at its end.
EndsInReturn == sample.points # <<>> /\ sample.points[Len(sample.points)] = CR
OneReturn == Cardinality({i \in 1..Len(sample.points) : sample.points[i] = CR}) <= 1
EndsPlain == KeptPoints # <<>> /\ KeptPoints[Len(KeptPoints)] < 65536

InputKept ==
  LET wide == sample.encoding \in {"UTF_16BE", "UTF_16LE"}
      quad == sample.encoding \in {"UTF_32BE", "UTF_32LE"}
      iterable == (wide => ~EndsInReturn) /\ (quad => \A c \in Range(sample.points) : c < 128)
      readable == (~wide /\ ~quad => OneReturn) /\ (wide => EndsPlain)
  IN  /\ iterable => ReadChars(Encoded) = Decoded
      /\ readable => ReadFile(Encoded) = Decoded /\ ReadStream(Encoded) = Decoded
      /\ ~wide /\ ~quad => ReadChar8(Encoded) = Decoded
      /\ wide /\ ~EndsInReturn => ReadChar16(Words16Read) = Decoded
      /\ quad => ReadChar32(Quads) = Decoded

SampleText ==
  CASE sample.kind = "tree"       -> SerializedText(Document)
    [] sample.kind = "string"     -> Spelled(sample.style, sample.str)
    [] sample.kind = "directives" -> DirectivesText

SampleKept(P) ==
  CASE sample.kind = "tree"       -> IsDocument(P, Document, Last1(Document))
    [] sample.kind = "string"     -> Writable(sample.style, sample.str) => IsDocument(P, StringDocument, 3)
    [] sample.kind = "directives" -> DirectivesKept(P)

\* What is written is read back: a string through every style an operator may spell
\* it in, a tree of nodes through the serializer and the parser, the directives of
\* a document, and a text, without its carriage returns, through every encoding and
\* adapter that is not known to change it (InputKept names those that are: UTF-16
\* that ends in a pair or a return, UTF-32 above 127 from an iterator, several
\* returns in a file or a stream).  cwsd itself reads one UTF-8 stream and writes
\* no YAML: the serializer is the library's own, checked here with its parser.
YamlReadBack ==
  /\ sample.kind \in {"tree", "string", "directives"} => SampleKept(deserialize(SampleText))
  /\ sample.kind = "input" /\ Detectable => InputKept

-----------------------------------------------------------------------------
\* Starts: configuration files, with one value that is not the usual one, and
\* command lines.

Spelling(text, t, val) == [text |-> text, type |-> t, val |-> val]

Values ==
  <<Spelling("3073", "INTEGER", 3073), Spelling("true", "BOOLEAN", 1), Spelling("false", "BOOLEAN", 0),
    Spelling("/dev/ttyUSB0", "STRING", "/dev/ttyUSB0"), Spelling("Debug", "STRING", "Debug"),
    Spelling("WARNING", "STRING", "WARNING"), Spelling("'true'", "STRING", "true"),
    Spelling("-12", "INTEGER", -12), Spelling("70000", "INTEGER", 70000),
    Spelling("3000000", "INTEGER", 3000000), Spelling("5000000", "INTEGER", 5000000),
    Spelling("0x1f", "INTEGER", 31), Spelling("FALSE", "BOOLEAN", 0), Spelling("2.5", "FLOAT_NUMBER", -1),
    Spelling("~", "NULL_OBJECT", 0), Spelling("", "NULL_OBJECT", 0), Spelling("-5", "INTEGER", -5)>>

Absent == 0
Float == 14
Empty == 16
OneDigit == 17

\* The names of a section with their types and the usual value, and whether the
\* file must have them once they are asked for.
Expect(name, T, usual, required) == [name |-> name, T |-> T, usual |-> usual, required |-> required]

Fields ==
  [rig        |-> <<Expect("model", "int", 1, TRUE), Expect("port", "string", 4, TRUE),
                    Expect("serial_speed", "int", 1, FALSE)>>,
   cwdaemon   |-> <<Expect("enabled", "bool", 3, TRUE), Expect("port", "int", 1, TRUE),
                    Expect("initial_wpm", "int", 1, TRUE)>>,
   rigctld    |-> <<Expect("enabled", "bool", 2, TRUE), Expect("port", "int", 1, TRUE)>>,
   audio      |-> <<Expect("enabled", "bool", 2, TRUE), Expect("port", "uint16_t", 1, TRUE),
                    Expect("device", "string", 4, FALSE), Expect("sample_rate", "uint32_t", 1, FALSE),
                    Expect("channels", "int", 1, FALSE), Expect("bitrate", "int", 1, FALSE),
                    Expect("frame_ms", "int", 1, FALSE), Expect("client_timeout_ms", "int", 1, FALSE),
                    Expect("fec_loss_perc", "int", 1, FALSE)>>,
   remote_key |-> <<Expect("enabled", "bool", 2, TRUE), Expect("port", "int", 1, TRUE),
                    Expect("device", "string", 4, FALSE), Expect("playout_ms", "uint32_t", 1, FALSE),
                    Expect("silence_ms", "uint32_t", 1, FALSE), Expect("max_key_down_ms", "uint32_t", 1, FALSE),
                    Expect("ptt_lead_ms", "uint32_t", 1, FALSE), Expect("ptt_tail_ms", "uint32_t", 1, FALSE)>>,
   logging    |-> <<Expect("level", "string", 5, FALSE), Expect("filename", "string", 4, FALSE),
                    Expect("max_size", "uint32_t", 1, FALSE)>>]

SectionOrder == <<"rig", "cwdaemon", "rigctld", "audio", "remote_key", "logging">>

\* Every value for every field in a file without the other sections that may be
\* missing, some values in a whole file, and files that miss a section.
Optional == {"audio", "remote_key", "logging"}

FileFamily(style, section, off, missing, values) ==
  [kind |-> "file", style |-> style, section |-> section, off |-> off, missing |-> missing, values |-> values]

FileFamilies ==
  UNION {{FileFamily(y, section, {}, Optional \ {section}, 0..Len(Values)),
          FileFamily(y, section, {section} \cap {"audio", "remote_key"}, Optional \ {section}, 0..Len(Values)),
          FileFamily(y, section, {}, {}, {Absent, 3, 12}),
          FileFamily(y, section, {}, {section}, {Absent})} :
           y \in {"block", "commented", "flow"}, section \in DOMAIN Fields}

SettingsSamples(family) ==
  {[kind |-> "settings", style |-> family.style, off |-> family.off, missing |-> family.missing,
    section |-> family.section, field |-> i, value |-> v] :
     i \in 1..Len(Fields[family.section]), v \in family.values}

\* The number of the value a field has in the file, 0 when it is not there.
Given(section, i) ==
  CASE section \in sample.missing -> Absent
    [] section = sample.section /\ i = sample.field -> sample.value
    [] i = 1 /\ section \in sample.off -> 3
    [] OTHER -> Fields[section][i].usual

Present(section) == {i \in 1..Len(Fields[section]) : Given(section, i) # Absent}

\* The file, in three ways to write it.
FieldText(section, i) ==
  IF i \notin Present(section) THEN ""
  ELSE LET pair == Fields[section][i].name \o ": " \o Values[Given(section, i)].text
       IN  CASE sample.style = "block"     -> "  " \o pair \o "\n"
             [] sample.style = "commented" -> " " \o pair \o "  # set\n\n"
             [] sample.style = "flow"      -> pair \o (IF i = Max(Present(section)) THEN "" ELSE ", ")

SectionText(section) ==
  LET body == JoinedText([i \in 1..Len(Fields[section]) |-> FieldText(section, i)])
  IN  CASE section \in sample.missing -> ""
        [] sample.style = "flow" -> section \o ": {" \o body \o "}\n"
        [] OTHER -> section \o ":\n" \o body

FileText == JoinedText([k \in 1..Len(SectionOrder) |-> SectionText(SectionOrder[k])])

\* A flow mapping is not asked for an empty value.  Of a name no claim is made that
\* a lone "-" and a digit are not one: the lexer takes the character behind them
\* along, and the whole for a string.
FileWritable ==
  /\ sample.style = "flow" => sample.value # Empty
  /\ Fields[sample.section][sample.field].T = "string" => sample.value # OneDigit

Fits(T, v) ==
  CASE T = "bool"     -> v.type = "BOOLEAN"
    [] T = "string"   -> v.type = "STRING"
    [] T = "int"      -> v.type = "INTEGER" /\ v.val \in -IntMax..IntMax
    [] T = "uint16_t" -> v.type = "INTEGER" /\ v.val \in 0..65535
    [] T = "uint32_t" -> v.type = "INTEGER" /\ v.val \in 0..UIntMax

\* A server that is off is asked for nothing but that.
Consulted(section, i) ==
  CASE section \in Optional /\ section \in sample.missing -> FALSE
    [] section \in {"audio", "remote_key"} /\ i > 1 ->
         Given(section, 1) # Absent /\ Values[Given(section, 1)].val = 1
    [] OTHER -> TRUE

\* The frame of 2.5 ms that the sample file lists; the program reads an int.
HalfFrame(section, i) ==
  Consulted(section, i) /\ Fields[section][i].name = "frame_ms" /\ Given(section, i) = Float

\* Values that are no mistake of the operator's and that the program does not read:
\* this frame, and a negative number of one digit, with which the lexer takes the
\* line break, the comma or the bracket behind it into the scalar.
Unread(section, i) == HalfFrame(section, i) \/ Given(section, i) = OneDigit

Mistake(section, i) ==
  /\ Consulted(section, i) /\ ~HalfFrame(section, i)
  /\ IF Given(section, i) = Absent THEN Fields[section][i].required
     ELSE ~Fits(Fields[section][i].T, Values[Given(section, i)])

SomeField(Holds(_, _)) ==
  \E section \in DOMAIN Fields : \E i \in 1..Len(Fields[section]) : Holds(section, i)

\* The value in the file, else the default; the remote key has the rig's port.
Setting(section, i) ==
  LET name == Fields[section][i].name
  IN  CASE Consulted(section, i) /\ Given(section, i) # Absent -> Values[Given(section, i)].val
        [] Consulted(section, i) /\ <<section, name>> = <<"remote_key", "device">> ->
             Values[Given("rig", 2)].val
        [] OTHER -> cwsd_config[section][name]

\* The levels that are logged when the file asks for one.
LoggedFrom(level) ==
  {"Fatal", "Error"}
    \cup (IF level = "Error" THEN {} ELSE {"Warning"})
    \cup (IF level \in {"Error", "WARNING"} THEN {} ELSE {"Info"})
    \cup (IF level = "Debug" THEN {"Debug", "Verbose"} ELSE {})

LogAsAsked(log, logging) ==
  \A l \in Range(Levels) :
    /\ getConfigByVal(log.enabled, l) = (l \in LoggedFrom(logging.level))
    /\ getConfigByVal(log.toFile, l) /\ getConfigByVal(log.filename, l) = logging.filename
    /\ getConfigByVal(log.maxLogFileSize, l) = logging.max_size
    /\ getConfigByVal(log.logFormat, l) = "%datetime %level %msg"

Process(argv, home, forks, files) ==
  [argv |-> argv, home |-> home, cwd |-> "/home/op/", path |-> "", files |-> files, unwritable |-> {},
   fork1 |-> forks[1], setsid |-> forks[2], fork2 |-> forks[3], status |-> "running",
   cfg |-> cwsd_config, log |-> [enabled |-> Nothing]]

Undisturbed == <<"child", "ok", "child">>

ServesAsWritten(P) ==
  /\ P.status = "serving"
  /\ \A section \in DOMAIN Fields : \A i \in 1..Len(Fields[section]) :
       P.cfg[section][Fields[section][i].name] = Setting(section, i)
  /\ LogAsAsked(P.log, P.cfg.logging)

StartsAsWritten(P) ==
  IF SomeField(Mistake) THEN P.status = "fails"
  ELSE ServesAsWritten(P) \/ (SomeField(Unread) /\ P.status = "fails")

\* Command lines.  Every file has a rig of its own.
Paths == {"/etc/cwsdrc", "cwsdrc", "~/rc"}
Pieces == {<<"-d">>} \cup {<<option, path>> : option \in {"-c", "--config"}, path \in Paths}

SmallFile(model) ==
  BytesOf("rig: {model: " \o model \o ", port: p}\ncwdaemon: {enabled: true, port: 1, initial_wpm: 9}\n"
            \o "rigctld: {enabled: false, port: 2}\n")

Files ==
  [file \in {"/etc/cwsdrc", "/home/op/cwsdrc", "/home/op/rc", "/home/op/.config/cwsdrc"} |->
     SmallFile(CASE file = "/etc/cwsdrc" -> "1" [] file = "/home/op/cwsdrc" -> "2"
                 [] file = "/home/op/rc" -> "3" [] OTHER -> "4")]

ArgumentSamples(family) ==
  {[kind |-> "arguments", argv |-> family.first \o rest, home |-> family.home, forks |-> forks] :
     rest \in UNION {[1..n -> {"-d", "-c", "--config", "--version", "-x"} \cup Paths] : n \in 0..2},
     forks \in {Undisturbed, <<"parent", "ok", "child">>, <<"child", "fails", "child">>,
                <<"child", "ok", "parent">>, <<"child", "ok", "fails">>}}

\* The rig of the file a well-formed command line leads to, 0 when there is none.
\* In the background a path starts at the root directory.
RigOf(pieces) ==
  LET files == SelectSeq(pieces, LAMBDA p : Len(p) = 2)
      path == IF files = <<>> THEN "" ELSE files[Len(files)][2]
      daemon == <<"-d">> \in Range(pieces)
  IN  CASE daemon /\ sample.forks # Undisturbed -> 0
        [] path = "/etc/cwsdrc"                 -> 1
        [] path = "cwsdrc"                      -> IF daemon THEN 0 ELSE 2
        [] sample.home = ""                     -> 0
        [] path = "~/rc"                        -> 3
        [] OTHER                                -> 4

StartsAsMeant(P) ==
  LET meant == {RigOf(pieces) : pieces \in
                  {q \in UNION {[1..n -> Pieces] : n \in 0..Len(sample.argv)} : FlattenSeq(q) = sample.argv}}
  IN  IF meant \subseteq {0} THEN P.status \in {"fails", "succeeds"}
      ELSE P.status = "serving" /\ meant = {P.cfg.rig.model}

SampleProcess ==
  IF sample.kind = "arguments" THEN Process(sample.argv, sample.home, sample.forks, Files)
  ELSE Process(<<"-c", "/etc/cwsdrc">>, "", Undisturbed, "/etc/cwsdrc" :> BytesOf(FileText))

Starts(P) == IF sample.kind = "arguments" THEN StartsAsMeant(P) ELSE StartsAsWritten(P)

\* cwsd never serves with other settings than the operator wrote.  A value of the
\* wrong type or out of the range of its setting, and one that is missing without
\* a default, end the start with an error, but only where the setting is asked for;
\* what is not in the file has its default, and any other file is served with,
\* but for the values of Unread, of which the property only says that no other
\* setting is made of them (a frame_ms of 2.5 ends the start, although
\* cwsdrc.sample, README.md and audio_stream_server.h list it).  The log takes the levels, the file
\* and the size that were asked for, and the file read is the one the command
\* line names.
SettingsRead ==
  sample.kind = "arguments" \/ (sample.kind = "settings" /\ FileWritable) => Starts(main(SampleProcess))

-----------------------------------------------------------------------------
Idle == [kind |-> "ring"]

Families ==
  {[kind |-> "packet", pkt |-> p] : p \in Packets}
    \cup {[kind |-> "message", first |-> f, initial |-> i] :
            f \in {<<>>} \cup {<<c>> : c \in TextAlphabet}, i \in Speeds}
    \cup {[kind |-> "document", type |-> t, key |-> k, last |-> n] :
            t \in {"SEQUENCE", "MAPPING"}, k \in {0, 8, 14, 20}, n \in Terms}
    \cup {[kind |-> "spelling", style |-> y, first |-> c] :
            y \in {"single", "double", "flow", "literal"}, c \in {""} \cup StringAlphabet}
    \cup {[kind |-> "header", first |-> d] : d \in {<<>>} \cup Directives}
    \cup {[kind |-> "encoding", encoding |-> e, bom |-> m] : e \in utf_encode_t, m \in BOOLEAN}
    \cup FileFamilies
    \cup {[kind |-> "command", home |-> h, first |-> f] :
            h \in {"", "/home/op"}, f \in {<<>>, <<"-d">>, <<"-c">>, <<"--config">>, <<"-x">>}}

Samples ==
  CASE sample.kind = "packet"   -> PacketSamples(sample)
    [] sample.kind = "message"  -> TextSamples(sample)
    [] sample.kind = "document" -> TreeSamples(sample)
    [] sample.kind = "spelling" -> StringSamples(sample)
    [] sample.kind = "header"   -> DirectiveSamples(sample)
    [] sample.kind = "encoding" -> InputSamples(sample)
    [] sample.kind = "file"     -> SettingsSamples(sample)
    [] sample.kind = "command"  -> ArgumentSamples(sample)
    [] OTHER                    -> {}

MCInit ==
  /\ Init
  /\ \/ sample = Idle
     \/ buf_ = [i \in 0..(max_size_ - 1) |-> Default] /\ sample \in Families

Call == sample = Idle /\ Next /\ UNCHANGED sample

Take == sample' \in Samples /\ UNCHANGED vars

MCNext == Call \/ Take

MCSpec == MCInit /\ [][MCNext]_<<vars, sample>>
=============================================================================
