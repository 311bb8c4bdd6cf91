------------------------------ MODULE LogConfig ------------------------------
(***************************************************************************)
(* How cwsd sets up its log: configure_logging of main.cpp over the         *)
(* Configurations and TypedConfigurations of libs/easylogging++.  A         *)
(* configuration is a list of values for a level and a type; the level      *)
(* Global stands for the levels that have no value of their own.            *)
(***************************************************************************)
EXTENDS YamlSerializer

\* In the order of their bits, as forEachLevel takes them.
Levels == <<"Trace", "Debug", "Fatal", "Error", "Warning", "Verbose", "Info">>

kDefaultLogFile == "myeasylog.log"

-----------------------------------------------------------------------------
\* Configurations.

Entry(C, level, t) == {i \in 1..Len(C) : C[i].level = level /\ C[i].type = t}
hasConfiguration(C, level, t) == Entry(C, level, t) # {}

SetEntry(C, level, t, value) ==
  IF hasConfiguration(C, level, t)
  THEN [C EXCEPT ![CHOOSE i \in Entry(C, level, t) : TRUE].value = value]
  ELSE Append(C, [level |-> level, type |-> t, value |-> value])

\* Every level but Global: those that have a value keep their place.
unsafeSetGlobally(C, t, value) ==
  LET missing == SelectSeq(Levels, LAMBDA level : ~hasConfiguration(C, level, t))
  IN  [i \in 1..Len(C) |-> IF C[i].type = t /\ C[i].level # "Global" THEN [C[i] EXCEPT !.value = value] ELSE C[i]]
        \o [k \in 1..Len(missing) |-> [level |-> missing[k], type |-> t, value |-> value]]

\* A value for Global is a value for every level.
unsafeSet(C, level, t, value) ==
  LET D == SetEntry(C, level, t, value)
  IN  IF level = "Global" THEN unsafeSetGlobally(D, t, value) ELSE D

set(C, level, t, value) == unsafeSet(C, level, t, value)

\* Every level, Global only when asked to.
setGlobally(C, t, value, includeGlobalLevel) ==
  unsafeSetGlobally(IF includeGlobalLevel THEN set(C, "Global", t, value) ELSE C, t, value)

\* The types that say what is logged and where.
setToDefault(C) ==
  LET apply(D, entry) == IF entry[1] = "Global" THEN setGlobally(D, entry[2], entry[3], TRUE)
                         ELSE set(D, entry[1], entry[2], entry[3])
  IN  FoldLeft(apply, C,
        <<<<"Global", "Enabled", "true">>, <<"Global", "Filename", kDefaultLogFile>>,
          <<"Global", "ToFile", "true">>, <<"Global", "MaxLogFileSize", "0">>,
          <<"Global", "Format", "%datetime %level [%logger] %msg">>,
          <<"Debug", "Format", "%datetime %level [%logger] [%user@%host] [%func] [%loc] %msg">>,
          <<"Verbose", "Format", "%datetime %level-%vlevel [%logger] %msg">>,
          <<"Trace", "Format", "%datetime %level [%logger] [%func] [%loc] %msg">>>>)

\* set() for every entry of the base, in its order: a later entry of a level
\* replaces what an earlier one of Global set for it.  C has a place for every
\* entry of the base already.
setFromBase(C, base) ==
  LET of(e) == {k \in 1..Len(base) : base[k].type = e.type /\ base[k].level \in {e.level, "Global"}}
  IN  [i \in 1..Len(C) |-> IF of(C[i]) = {} THEN C[i]
                          ELSE [C[i] EXCEPT !.value = base[Max(of(C[i]))].value]]

-----------------------------------------------------------------------------
\* TypedConfigurations: a map from levels to values for every type.

Nothing == <<>>

\* The first value is Global's, whatever its level; a level is not given what
\* Global has.
setValue(map, level, value) ==
  CASE DOMAIN map = {} -> "Global" :> value
    [] "Global" \in DOMAIN map /\ map["Global"] = value -> map
    [] OTHER -> (level :> value) @@ map

getConfigByVal(map, level) == IF level \in DOMAIN map THEN map[level] ELSE map["Global"]

getBool(text) == text \in {"TRUE", "true", "1"}

getULong(text) ==
  IF text # "" /\ Chars(text) \subseteq Chars(Decimal) THEN integer_from_string(text).num ELSE 0

OfType(C, t) == SelectSeq(C, LAMBDA e : e.type = t)

\* A level has the file it was first given; one that cannot be opened is not
\* written to.  The first of all is opened for Global.
insertFile(T, level, file, unwritable) ==
  LET l == IF DOMAIN T.filename = {} THEN "Global" ELSE level
      named == IF l \in DOMAIN T.filename THEN T
               ELSE [T EXCEPT !.filename = IF DOMAIN @ = {} THEN l :> file ELSE (l :> file) @@ @]
  IN  IF file \in unwritable THEN [named EXCEPT !.toFile = setValue(@, l, FALSE)] ELSE named

build(C, unwritable) ==
  LET typed(t, Convert(_)) == FoldLeft(LAMBDA map, e : setValue(map, e.level, Convert(e.value)),
                                       Nothing, OfType(C, t))
      T == [enabled |-> typed("Enabled", getBool), toFile |-> typed("ToFile", getBool),
            logFormat |-> typed("Format", LAMBDA text : text),
            maxLogFileSize |-> typed("MaxLogFileSize", getULong), filename |-> Nothing]
  IN  FoldLeft(LAMBDA U, e : insertFile(U, e.level, e.value, unwritable), T, OfType(C, "Filename"))

\* Logger::configure, for the one logger, which has the default configuration.
configure(C, unwritable) == build(setFromBase(setToDefault(<<>>), C), unwritable)

-----------------------------------------------------------------------------
\* main.cpp.

tolower(text) ==
  LET upper == "ABCDEFGHIJKLMNOPQRSTUVWXYZ"
      lower(c) == IF c \in Chars(upper)
                  THEN At("abcdefghijklmnopqrstuvwxyz", CHOOSE k \in 1..26 : At(upper, k) = c) ELSE c
  IN  FoldLeft(LAMBDA s, k : s \o lower(At(text, k)), "", [k \in 1..Len(text) |-> k])

to_logging_level(text) ==
  CASE tolower(text) = "debug"   -> "Debug"
    [] tolower(text) = "error"   -> "Error"
    [] tolower(text) = "warning" -> "Warning"
    [] OTHER                     -> "Info"

severity_of(level) ==
  CASE level = "Trace" -> 0 [] level \in {"Debug", "Verbose"} -> 1 [] level = "Info" -> 2
    [] level = "Warning" -> 3 [] level = "Error" -> 4 [] level = "Fatal" -> 5

configure_logging(level, filename, max_file_size, unwritable) ==
  LET everywhere(C, entry) == setGlobally(C, entry[1], entry[2], FALSE)
      enable(C, l) ==
        set(C, l, "Enabled", IF severity_of(l) >= severity_of(level) THEN "true" ELSE "false")
      asked == <<<<"Format", "%datetime %level %msg">>, <<"Filename", filename>>,
                 <<"MaxLogFileSize", max_file_size>>>>
  IN  configure(FoldLeft(enable, FoldLeft(everywhere, setToDefault(<<>>), asked), Levels), unwritable)
=============================================================================
