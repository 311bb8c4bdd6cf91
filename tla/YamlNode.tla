------------------------------ MODULE YamlNode ------------------------------
(***************************************************************************)
(* The node container of the YAML library (libs/node.hpp).  A document is a *)
(* record whose "cell" is a sequence of nodes, a pointer to a node being    *)
(* its number, and whose "table" is the multimap of anchored nodes that all *)
(* nodes of the document share.  A node with an anchor name, anchor or      *)
(* alias, keeps its value in the table and finds it there by the name and   *)
(* the number of earlier entries with that name.  A floating point number   *)
(* is kept as its text.                                                     *)
(***************************************************************************)
EXTENDS YamlLexer, SequencesExt

NullNode ==
  [type |-> "NULL_OBJECT", str |-> "", num |-> 0, kids |-> <<>>,
   status |-> "NONE", anchor |-> "", offset |-> 0, tag |-> ""]

Node(t) == [NullNode EXCEPT !.type = t]
sequence == Node("SEQUENCE")
mapping == Node("MAPPING")
BooleanNode(b) == [Node("BOOLEAN") EXCEPT !.num = b]
IntegerNode(i) == [Node("INTEGER") EXCEPT !.num = i]
FloatNode(s) == [Node("FLOAT_NUMBER") EXCEPT !.str = s]
StringNode(s) == [Node("STRING") EXCEPT !.str = s]

\* A child: the pointers to its key, 0 in a sequence, and to its value.
Child(key, node) == [key |-> key, node |-> node]

-----------------------------------------------------------------------------
has_anchor_name(D, p) == D.cell[p].status # "NONE" /\ D.cell[p].anchor # ""
is_anchor(D, p) == D.cell[p].status = "ANCHOR"
is_alias(D, p) == D.cell[p].status = "ALIAS"

Entries(D, name) == SelectSeq(D.table, LAMBDA e : e.name = name)

\* Where the value of a node is.
value_ptr(D, p) ==
  IF has_anchor_name(D, p) THEN Entries(D, D.cell[p].anchor)[D.cell[p].offset + 1].node ELSE p

Value(D, p) == D.cell[value_ptr(D, p)]
type(D, p) == Value(D, p).type
is_sequence(D, p) == type(D, p) = "SEQUENCE"
is_mapping(D, p) == type(D, p) = "MAPPING"
is_null(D, p) == type(D, p) = "NULL_OBJECT"
is_scalar(D, p) == ~is_sequence(D, p) /\ ~is_mapping(D, p)

node_size(D, p) == IF type(D, p) = "STRING" THEN Len(Value(D, p).str) ELSE Len(Value(D, p).kids)
node_empty(D, p) == node_size(D, p) = 0

\* What a node means, whatever its place: two nodes are == when it is equal.
RECURSIVE Tree(_, _)
Tree(D, p) ==
  LET v == Value(D, p)
      leaf(t, s, n) == [type |-> t, str |-> s, num |-> n, kids |-> {}]
      named(i) == IF v.kids[i].key = 0 THEN leaf("INTEGER", "", i) ELSE Tree(D, v.kids[i].key)
  IN  [leaf(v.type, v.str, v.num) EXCEPT
         !.kids = {[key |-> named(i), node |-> Tree(D, v.kids[i].node)] : i \in 1..Len(v.kids)}]

-----------------------------------------------------------------------------
\* Changing a document.

New(D, node) == [D EXCEPT !.cell = Append(@, node)]
Last1(D) == Len(D.cell)

\* The destructor.  A node with an anchor takes its entry's value with it: the
\* entry stays, as null, and so do the aliases of it.
RECURSIVE destroy(_, _)
destroy(D, p) ==
  LET kids(E, q) == FoldLeft(LAMBDA F, k : destroy(IF k.key = 0 THEN F ELSE destroy(F, k.key), k.node),
                             E, E.cell[q].kids)
      v == value_ptr(D, p)
  IN  CASE is_alias(D, p)  -> D
        [] is_anchor(D, p) -> [kids(D, v) EXCEPT !.cell[v] = NullNode]
        [] OTHER           -> kids(D, p)

\* *p = node: the old value is destroyed.
assign(D, p, node) == [destroy(D, p) EXCEPT !.cell[p] = node]

\* A new child of a container; the document's last cell is its value.
emplace_back(D, p, node) ==
  LET E == New(D, node) IN [E EXCEPT !.cell[value_ptr(D, p)].kids = Append(@, Child(0, Last1(E)))]

EqualKids(D, p, key) ==
  {i \in 1..Len(Value(D, p).kids) : Tree(D, Value(D, p).kids[i].key) = key}

contains(D, p, key) == is_mapping(D, p) /\ EqualKids(D, p, key) # {}

\* The value for a key that is there.
Find(D, p, key) == Value(D, p).kids[CHOOSE i \in EqualKids(D, p, key) : TRUE].node

\* emplace(key, null), where key is a cell already.
emplace(D, p, key) ==
  LET E == New(D, NullNode) IN [E EXCEPT !.cell[value_ptr(D, p)].kids = Append(@, Child(key, Last1(E)))]

\* operator[] with a node that is a cell already, on a mapping.
at_key(D, p, key) ==
  LET tree == Tree(D, key)
      E == emplace(D, p, key)
  IN  IF contains(D, p, tree) THEN [D |-> D, node |-> Find(D, p, tree)] ELSE [D |-> E, node |-> Last1(E)]

\* operator[] with a string: a mapping gets a null for a key it has not, a scalar
\* throws, and a sequence asks for an integer.
subscript(D, p, name) ==
  LET key == [type |-> "STRING", str |-> name, num |-> 0, kids |-> {}]
      E == New(D, StringNode(name))
  IN  CASE ~is_mapping(D, p)    -> [ok |-> FALSE, D |-> D, node |-> p]
        [] contains(D, p, key)  -> [ok |-> TRUE, D |-> D, node |-> Find(D, p, key)]
        [] OTHER -> LET F == emplace(E, p, Last1(E)) IN [ok |-> TRUE, D |-> F, node |-> Last1(F)]

\* The node's value moves into a new entry of the table, where the node finds it.
add_anchor_name(D, p, name) ==
  LET n == Len(Entries(D, name))
      E == New(D, D.cell[p])
  IN  [E EXCEPT !.table = Append(@, [name |-> name, node |-> Last1(E)]),
                !.cell[p] = [NullNode EXCEPT !.status = "ANCHOR", !.anchor = name, !.offset = n]]

add_tag_name(D, p, name) == [D EXCEPT !.cell[p].tag = name]

-----------------------------------------------------------------------------
\* from_node: a value is read as exactly the type it has, an integer within the
\* range of the one it is read into.

from_node_bool(v) == [ok |-> v.type = "BOOLEAN", value |-> v.num]
from_node_int(v, min, max) == [ok |-> v.type = "INTEGER" /\ v.num \in min..max, value |-> v.num]
from_node_string(v) == [ok |-> v.type = "STRING", value |-> v.str]

-----------------------------------------------------------------------------
\* The order of keys in a mapping, std::map's over operator<.

TypeOrder == <<"SEQUENCE", "MAPPING", "NULL_OBJECT", "BOOLEAN", "INTEGER", "FLOAT_NUMBER", "STRING">>

CodeOf(c) ==
  CASE c = "" -> 0 [] c = "\t" -> 9 [] c = "\n" -> 10 [] c = Other -> 12 [] c = "\r" -> 13
    [] OTHER -> LET i == CHOOSE k \in 1..Len(Printable) : At(Printable, k) = c
                IN  IF i <= 64 THEN 31 + i ELSE 32 + i

RECURSIVE StringLess(_, _)
StringLess(a, b) ==
  CASE CodeOf(At(a, 1)) # CodeOf(At(b, 1)) -> CodeOf(At(a, 1)) < CodeOf(At(b, 1))
    [] a = "" -> FALSE
    [] OTHER -> StringLess(Tail(a), Tail(b))

\* Containers compare by their elements in order; here, by how many there are.
node_less(D, p, q) ==
  LET a == Value(D, p)
      b == Value(D, q)
      rank(t) == CHOOSE i \in 1..7 : TypeOrder[i] = t
  IN  IF a.type # b.type THEN rank(a.type) < rank(b.type)
      ELSE IF a.type \in {"BOOLEAN", "INTEGER"} THEN a.num < b.num
      ELSE IF a.type \in {"SEQUENCE", "MAPPING"} THEN Len(a.kids) < Len(b.kids)
      ELSE StringLess(a.str, b.str)

Sorted(D, kids) == SortSeq(kids, LAMBDA k, l : node_less(D, k.key, l.key))
=============================================================================
