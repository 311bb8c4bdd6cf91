------------------------------ MODULE YamlParser ------------------------------
(***************************************************************************)
(* The deserializer of the YAML library (libs/node.hpp).  Its object is a   *)
(* record: the lexer L, which holds the last token, the line and indent of  *)
(* that token as the code keeps them, the document D, the stack of parse    *)
(* contexts, the current node, the depth of flow contexts, the anchor and   *)
(* the tag that wait for a node ("" when none does), the directives, and    *)
(* whether the loop comes to its end, which a continue passes over.         *)
(* The document's first cell is the root.  Once the lexer's token is        *)
(* "error" (an exception) or "undefined" (the stack is used when it is      *)
(* empty) nothing more happens.                                             *)
(***************************************************************************)
EXTENDS YamlNode

-----------------------------------------------------------------------------
\* The tag resolver.

YamlOrg == "tag:yaml.org,2002:"

PrefixOr(prefix, default) == IF prefix = "" THEN default ELSE prefix

NamedPrefixes(handle, meta) == {n.prefix : n \in {m \in meta.named : m.handle = handle}}

normalize_tag_name(tag, meta) ==
  LET rest(i) == SubSeq(tag, i, Len(tag))
      bang == FindFrom(tag, 2, {"!"})
      registered == NamedPrefixes(SubSeq(tag, 1, bang), meta)
      valid(t) == [ok |-> TRUE, tag |-> t]
  IN  CASE tag = "!" -> valid(tag)
        [] At(tag, 2) = "!" -> valid("!<" \o PrefixOr(meta.secondary, YamlOrg) \o rest(3) \o ">")
        [] At(tag, 2) = "<" /\ At(tag, 3) = "!" -> valid("!<" \o PrefixOr(meta.primary, "!") \o rest(4))
        [] At(tag, 2) = "<" -> valid(tag)
        [] bang > Len(tag) -> valid("!<" \o PrefixOr(meta.primary, "!") \o rest(2) \o ">")
        [] registered = {} -> [ok |-> FALSE, tag |-> tag]
        [] OTHER -> valid("!<" \o (CHOOSE p \in registered : TRUE) \o rest(bang + 1) \o ">")

convert_to_tag_type(normalized) ==
  LET is(name) == normalized = "!<" \o YamlOrg \o name \o ">"
  IN  CASE normalized = "!" -> "NON_SPECIFIC"
        [] is("seq")   -> "SEQUENCE"
        [] is("map")   -> "MAPPING"
        [] is("null")  -> "NULL_VALUE"
        [] is("bool")  -> "BOOLEAN"
        [] is("int")   -> "INTEGER"
        [] is("float") -> "FLOATING_NUMBER"
        [] is("str")   -> "STRING"
        [] OTHER       -> "CUSTOM_TAG"

resolve_tag(tag, meta) ==
  LET n == normalize_tag_name(tag, meta) IN IF n.ok THEN convert_to_tag_type(n.tag) ELSE "invalid"

-----------------------------------------------------------------------------
\* The deserializer's object.

parse_context(line, indent, state, node) ==
  [line |-> line, indent |-> indent, state |-> state, node |-> node]

deserializer(text) ==
  [L |-> lexer(text), line |-> 0, indent |-> 0, stack |-> <<>>, cur |-> 1, depth |-> 0,
   D |-> [cell |-> <<NullNode>>, table |-> <<>>], anchor |-> "", tag |-> "",
   meta |-> [version |-> "", primary |-> "", secondary |-> "", named |-> {}], fetch |-> FALSE]

Stopped(P) == Failed(P.L)
Throw(P) == [P EXCEPT !.L = emit_error(@)]
Undefined(P) == [P EXCEPT !.L = Overrun(@)]

Scan(P) == IF Stopped(P) THEN P ELSE [P EXCEPT !.L = get_next_token(@)]
Located(P) == [P EXCEPT !.line = P.L.line, !.indent = P.L.pos]

\* The end of the loop's body.
Fetch(P) == [P EXCEPT !.fetch = TRUE]
Fetched(P) == IF P.fetch THEN Located(Scan([P EXCEPT !.fetch = FALSE])) ELSE P

BackContext(P) == P.stack[Len(P.stack)]
PushContext(P, c) == [P EXCEPT !.stack = Append(@, c), !.cur = c.node]
SetBack(P, c) == [P EXCEPT !.stack[Len(P.stack)] = c]

\* n contexts are popped and the current node is the new last one's.
PopContexts(P, n) ==
  LET stack == SubSeq(P.stack, 1, Len(P.stack) - n)
  IN  CASE n = 0        -> P
        [] stack = <<>> -> Undefined(P)
        [] OTHER        -> [P EXCEPT !.stack = stack, !.cur = stack[Len(stack)].node]

\* How many contexts are above the last one with a property; all, if none has it.
Above(P, Test(_)) == Len(P.stack) - Max({0} \cup {i \in 1..Len(P.stack) : Test(P.stack[i])})

apply_node_properties(P, p) ==
  LET D == IF P.anchor = "" THEN P.D ELSE add_anchor_name(P.D, p, P.anchor)
      E == IF P.tag = "" THEN D ELSE add_tag_name(D, p, P.tag)
  IN  [P EXCEPT !.D = E, !.anchor = "", !.tag = ""]

\* *mp_current_node = node, and the same with the properties that wait for it.
SetCurrent(P, node) == [P EXCEPT !.D = assign(@, P.cur, node)]
SetContainer(P, node) == apply_node_properties(SetCurrent(P, node), P.cur)

\* A new element of the current node, which must be a sequence, becomes current.
EmplaceBack(P, node, state) ==
  LET D == emplace_back(P.D, P.cur, node)
  IN  IF ~is_sequence(P.D, P.cur) THEN Throw(P)
      ELSE PushContext([P EXCEPT !.D = D], parse_context(P.line, P.indent, state, Last1(D)))

-----------------------------------------------------------------------------
\* Directives.

convert_yaml_version(text) == IF text = "1.1" THEN "VER_1_1" ELSE "VER_1_2"

TagDirective(P) ==
  LET handle == P.L.handle
      prefix == P.L.prefix
  IN  CASE Len(handle) = 1 -> IF P.meta.primary # "" THEN Throw(P)
                              ELSE [P EXCEPT !.meta.primary = prefix]
        [] Len(handle) = 2 -> IF P.meta.secondary # "" THEN Throw(P)
                              ELSE [P EXCEPT !.meta.secondary = prefix]
        [] OTHER -> IF NamedPrefixes(handle, P.meta) # {} THEN Throw(P)
                    ELSE [P EXCEPT !.meta.named = @ \cup {[handle |-> handle, prefix |-> prefix]}]

RECURSIVE deserialize_directives(_)

Directive(P) ==
  CASE P.L.type = "YAML_VER_DIRECTIVE" ->
         IF P.meta.version # "" THEN Throw(P)
         ELSE deserialize_directives([P EXCEPT !.meta.version = convert_yaml_version(P.L.val)])
    [] P.L.type = "TAG_DIRECTIVE" -> deserialize_directives(TagDirective(P))
    [] P.L.type \in {"INVALID_DIRECTIVE", "END_OF_DIRECTIVES"} -> deserialize_directives(P)
    [] OTHER -> P

deserialize_directives(P) == Directive(Scan(P))

-----------------------------------------------------------------------------
\* Node properties, as far as they are on the line of the first one.

HasProperties(P) == P.anchor # "" \/ P.tag # ""

LocatedUnlessProperties(P) == IF HasProperties(P) THEN P ELSE Located(P)

RECURSIVE PropertyTokens(_)
PropertyTokens(P) ==
  LET Q == LocatedUnlessProperties(P)
      anchors == P.L.type = "ANCHOR_PREFIX"
  IN  CASE P.line < P.L.line \/ P.L.type \notin {"ANCHOR_PREFIX", "TAG_PREFIX"} -> P
        [] (IF anchors THEN P.anchor ELSE P.tag) # "" -> Throw(P)
        [] OTHER -> PropertyTokens(Scan(IF anchors THEN [Q EXCEPT !.anchor = P.L.val]
                                        ELSE [Q EXCEPT !.tag = P.L.val]))

deserialize_node_properties(P) ==
  LocatedUnlessProperties(PropertyTokens([P EXCEPT !.anchor = "", !.tag = ""]))

-----------------------------------------------------------------------------
\* Keys and scalars.

\* In a sequence the key belongs to a new mapping, its next element.
InMapping(P) ==
  IF ~Stopped(P) /\ is_sequence(P.D, P.cur) THEN EmplaceBack(P, mapping, "BLOCK_MAPPING") ELSE P

EmplaceKey(P, key) ==
  LET D == emplace(P.D, P.cur, key)
  IN  CASE Stopped(P) -> P
        [] ~is_mapping(P.D, P.cur) \/ contains(P.D, P.cur, Tree(P.D, key)) -> Throw(P)
        [] OTHER -> PushContext([P EXCEPT !.D = D],
                                parse_context(P.line, P.indent, "MAPPING_VALUE", Last1(D)))

\* A key that is a cell already.  Less indentation than the last context's must
\* be the indentation of one before it.
add_new_key(P, key) ==
  LET n == IF P.indent = 0 THEN Len(P.stack) - 1 ELSE Above(P, LAMBDA c : c.indent = P.indent)
      back == P.indent = 0 \/ P.indent < BackContext(P).indent
  IN  CASE Stopped(P)  -> P
        [] P.stack = <<>> -> Undefined(P)
        [] P.indent # 0 /\ back /\ n = Len(P.stack) -> Throw(P)
        [] OTHER -> EmplaceKey(InMapping(IF back THEN PopContexts(P, n) ELSE P), key)

\* A value that is a cell already.
assign_node_value(P, value) ==
  LET appended == [P EXCEPT !.D.cell[value_ptr(P.D, P.cur)].kids = Append(@, Child(0, value))]
      Q == SetCurrent(P, P.D.cell[value])
  IN  CASE Stopped(P) -> P
        [] is_sequence(P.D, P.cur) -> appended
        [] P.stack = <<>> -> Undefined(P)
        [] P.depth # 0 \/ BackContext(P).state # "BLOCK_MAPPING_EXPLICIT_KEY" -> PopContexts(Q, 1)
        [] OTHER -> Q

\* A tag decides what the text is read as.
TaggedToken(token, tag) ==
  CASE tag = "NULL_VALUE"      -> "NULL_VALUE"
    [] tag = "BOOLEAN"         -> "BOOLEAN_VALUE"
    [] tag = "INTEGER"         -> "INTEGER_VALUE"
    [] tag = "FLOATING_NUMBER" -> "FLOAT_NUMBER_VALUE"
    [] tag \in {"STRING", "NON_SPECIFIC"} -> "STRING_VALUE"
    [] OTHER -> token

\* The node of the last token is a new cell.
Made(P, node) == apply_node_properties([P EXCEPT !.D = New(@, node)], Last1(P.D) + 1)

\* A value and the node that holds it.
MadeOf(P, value, node) == IF value.ok THEN Made(P, [node EXCEPT !.num = value.num]) ELSE Throw(P)

AliasNode(P) ==
  LET anchors == Len(Entries(P.D, P.L.val))
  IN  IF P.tag # "" \/ anchors = 0 THEN Throw(P)
      ELSE Made(P, [NullNode EXCEPT !.status = "ALIAS", !.anchor = P.L.val, !.offset = anchors - 1])

ResolvedTag(P) == IF P.tag = "" THEN "CUSTOM_TAG" ELSE resolve_tag(P.tag, P.meta)

ScalarNode(P, tag) ==
  LET token == TaggedToken(P.L.type, tag)
  IN  CASE tag = "invalid" -> Throw(P)
        [] token = "NULL_VALUE" -> MadeOf(P, get_null(P.L), NullNode)
        [] token = "BOOLEAN_VALUE" -> MadeOf(P, get_boolean(P.L), Node("BOOLEAN"))
        [] token = "INTEGER_VALUE" -> MadeOf(P, get_integer(P.L), Node("INTEGER"))
        [] token = "FLOAT_NUMBER_VALUE" -> MadeOf(P, get_float_number(P.L), FloatNode(P.L.val))
        [] token = "STRING_VALUE" -> Made(P, StringNode(P.L.val))

create_scalar_node(P) == IF P.L.type = "ALIAS_PREFIX" THEN AliasNode(P) ELSE ScalarNode(P, ResolvedTag(P))

\* The scalar before a colon on its line is the first key of a new mapping.
BeginMapping(P) ==
  LET context == BackContext(P)
      Q == SetCurrent(P, mapping)
  IN  CASE context.state \in {"BLOCK_MAPPING_EXPLICIT_KEY", "BLOCK_MAPPING_EXPLICIT_VALUE"} ->
             PushContext(Q, parse_context(P.line, P.indent, "BLOCK_MAPPING", P.cur))
        [] context.line = P.line -> Throw(P)
        [] OTHER -> SetBack(Q, parse_context(P.line, P.indent, "BLOCK_MAPPING", context.node))

\* The scalar before a colon on another line ends an explicit key.
LeaveKey(P) ==
  LET context == BackContext(P)
  IN  CASE Stopped(P) -> P
        [] P.stack = <<>> -> Undefined(P)
        [] context.state = "BLOCK_MAPPING_EXPLICIT_KEY" -> P
        [] OTHER -> [P EXCEPT !.cur = context.node, !.stack = SubSeq(@, 1, Len(@) - 1)]

EndExplicitKey(P, value) == LeaveKey(assign_node_value(P, value))

\* What a scalar is, once the token after it is known.
PlaceScalar(P, node) ==
  LET first == is_scalar(P.D, P.cur)
  IN  CASE P.L.type # "KEY_SEPARATOR" -> assign_node_value(P, node)
        [] first /\ P.line # P.L.line -> EndExplicitKey(P, node)
        [] first /\ P.stack = <<>> -> Undefined(P)
        [] OTHER -> add_new_key(IF first THEN BeginMapping(P) ELSE P, node)

WithScalar(P, node) ==
  CASE Stopped(P) -> P
    [] is_mapping(P.D, P.cur) -> Fetch(add_new_key(P, node))
    [] OTHER -> Located(PlaceScalar(Scan(P), node))

deserialize_scalar(P) == WithScalar(create_scalar_node(P), Last1(P.D) + 1)

-----------------------------------------------------------------------------
\* One operator per case of deserialize_node.

MappingForKey(P) == IF ~Stopped(P) /\ is_null(P.D, P.cur) THEN SetCurrent(P, mapping) ELSE P

\* The key is a new cell; a dash after the question mark makes it a sequence.
BeginKey(P) ==
  LET key == parse_context(P.line, P.indent, "BLOCK_MAPPING_EXPLICIT_KEY", Last1(P.D) + 1)
      Q(node) == PushContext([P EXCEPT !.D = New(@, node)], key)
  IN  CASE Stopped(P) -> P
        [] P.L.type = "SEQUENCE_BLOCK_PREFIX" ->
             Fetch(PushContext(Q(sequence), parse_context(P.L.line, P.L.pos, "BLOCK_SEQUENCE", key.node)))
        [] OTHER -> Located(Q(NullNode))

ExplicitKeyPrefix(P) ==
  LET n == CASE P.indent = 0 -> Len(P.stack) - 1
             [] P.indent < BackContext(P).indent -> Above(P, LAMBDA c : c.indent < P.indent)
             [] OTHER -> 0
  IN  IF P.stack = <<>> THEN Undefined(P) ELSE BeginKey(Scan(MappingForKey(PopContexts(P, n))))

\* The value of an explicit key: the key leaves its context and is destroyed once
\* the mapping has a copy.
ValueOf(P, key, child) ==
  PushContext([P EXCEPT !.D = destroy(child.D, key)],
              parse_context(P.line, P.indent, "BLOCK_MAPPING_EXPLICIT_VALUE", child.node))

BeginValue(P) ==
  IF ~Stopped(P) /\ P.L.type = "SEQUENCE_BLOCK_PREFIX"
  THEN Fetch(PushContext(SetContainer(P, sequence), parse_context(P.line, P.indent, "BLOCK_SEQUENCE", P.cur)))
  ELSE P

ValueForKey(P, key) ==
  CASE Stopped(P) -> P
    [] ~is_mapping(P.D, P.cur) -> Throw(P)
    [] OTHER -> BeginValue(ValueOf(P, key, at_key(P.D, P.cur, key)))

ExplicitValue(P) ==
  LET n == Above(P, LAMBDA c : c.state = "BLOCK_MAPPING_EXPLICIT_KEY")
  IN  IF n = Len(P.stack) THEN Undefined(P)
      ELSE ValueForKey(PopContexts(P, n + 1), P.stack[Len(P.stack) - n].node)

\* The value of a key on a later line than the colon.
ValueOnLaterLine(P) ==
  LET tag == ResolvedTag(P)
      context == parse_context(P.line, P.indent, "BLOCK_SEQUENCE", BackContext(P).node)
  IN  CASE tag = "invalid" -> Throw(P)
        [] tag = "MAPPING" -> SetContainer(P, mapping)
        [] P.L.type # "SEQUENCE_BLOCK_PREFIX" -> P
        [] P.stack = <<>> -> Undefined(P)
        [] OTHER -> Fetch(SetBack(SetContainer(P, sequence), context))

\* K is the deserializer at the colon, P after the properties of the value.
AfterSeparator(K, P) ==
  LET sameLine == P.L.line = K.line /\ (K.stack = <<>> \/ K.indent > BackContext(K).indent)
  IN  CASE Stopped(P) \/ (HasProperties(P) /\ P.line = P.L.line) -> P
        [] sameLine -> Located(P)
        [] P.L.line > K.line -> ValueOnLaterLine(Located(P))
        [] OTHER -> ExplicitValue(Located(P))

KeySeparator(K) ==
  IF is_sequence(K.D, K.cur) /\ node_empty(K.D, K.cur) THEN Throw(K)
  ELSE AfterSeparator(K, deserialize_node_properties(Located(Scan(K))))

FetchElement(P) == IF Stopped(P) THEN P ELSE Fetch(apply_node_properties(P, P.cur))

SequenceBlockPrefix(P) ==
  LET n == Above(P, LAMBDA c : c.state = "BLOCK_SEQUENCE" /\ c.indent = P.indent)
  IN  CASE P.stack = <<>> -> Undefined(P)
        [] BackContext(P).indent < P.indent -> FetchElement(EmplaceBack(P, sequence, "BLOCK_SEQUENCE"))
        [] n = Len(P.stack) -> Undefined(P)
        [] OTHER -> Fetch([PopContexts(P, n) EXCEPT !.cur = P.stack[Len(P.stack) - n].node])

\* A flow container in a sequence is its next element; else it is the value that
\* the last context waits for.
FlowBegin(K, node, state) ==
  LET P == [K EXCEPT !.depth = @ + 1]
  IN  CASE is_sequence(P.D, P.cur) -> FetchElement(EmplaceBack(P, node, state))
        [] P.stack = <<>> -> Undefined(P)
        [] OTHER -> Fetch(SetContainer(SetBack(P, [BackContext(P) EXCEPT !.state = state]), node))

\* The contexts down to the last one of the state are popped.
FlowEnd(K, state) ==
  LET P == [K EXCEPT !.depth = @ - 1]
      n == Above(P, LAMBDA c : c.state = state)
      root == [P EXCEPT !.stack = <<>>, !.cur = P.stack[1].node]
  IN  CASE n = Len(P.stack) -> Throw(P)
        [] n + 1 = Len(P.stack) -> Fetch(root)
        [] OTHER -> Fetch(PopContexts(P, n + 1))

Scalars ==
  {"ALIAS_PREFIX", "NULL_VALUE", "BOOLEAN_VALUE", "INTEGER_VALUE", "FLOAT_NUMBER_VALUE", "STRING_VALUE"}

HandleToken(P) ==
  LET token == P.L.type
  IN  CASE token = "EXPLICIT_KEY_PREFIX"   -> ExplicitKeyPrefix(P)
        [] token = "KEY_SEPARATOR"         -> KeySeparator(P)
        [] token \in {"ANCHOR_PREFIX", "TAG_PREFIX"} -> deserialize_node_properties(P)
        [] token = "SEQUENCE_BLOCK_PREFIX" -> SequenceBlockPrefix(P)
        [] token = "SEQUENCE_FLOW_BEGIN"   -> FlowBegin(P, sequence, "FLOW_SEQUENCE")
        [] token = "MAPPING_FLOW_BEGIN"    -> FlowBegin(P, mapping, "FLOW_MAPPING")
        [] token = "SEQUENCE_FLOW_END"     -> FlowEnd(P, "FLOW_SEQUENCE")
        [] token = "MAPPING_FLOW_END"      -> FlowEnd(P, "FLOW_MAPPING")
        [] token \in Scalars               -> deserialize_scalar(P)
        [] OTHER -> Fetch(P)   \* directives, document markers and commas are ignored

\* The loop, 2^n times at most, in two halves.
RECURSIVE HandleTokens(_, _)
HandleTokens(P, n) ==
  CASE Stopped(P) \/ P.L.type = "END_OF_BUFFER" -> P
    [] n = 0 -> Fetched(HandleToken(P))
    [] OTHER -> HandleTokens(HandleTokens(P, n - 1), n - 1)

\* No text here has more than 2^TokenBits tokens.
TokenBits == 10
deserialize_node(P) == HandleTokens(P, TokenBits)

\* The first token decides what the root is.
DocumentRoot(P) ==
  LET root(node, state) ==
        PushContext(SetCurrent(P, node), parse_context(P.L.line, P.L.pos, state, 1))
      flow(Q) == [Q EXCEPT !.depth = 1]
  IN  CASE P.L.type = "SEQUENCE_BLOCK_PREFIX" -> Fetch(root(sequence, "BLOCK_SEQUENCE"))
        [] P.L.type = "SEQUENCE_FLOW_BEGIN" -> Fetch(flow(root(sequence, "FLOW_SEQUENCE")))
        [] P.L.type = "MAPPING_FLOW_BEGIN" -> Fetch(flow(root(mapping, "FLOW_MAPPING")))
        [] OTHER -> Located(root(mapping, "BLOCK_MAPPING"))

deserialize(text) == deserialize_node(Fetched(DocumentRoot(deserialize_directives(deserializer(text)))))
=============================================================================
