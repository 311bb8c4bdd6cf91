-------------------------------- MODULE Config --------------------------------
(***************************************************************************)
(* How cwsd starts (main.cpp): the command line, the way into the           *)
(* background, the configuration file and the log, up to the construction   *)
(* of the servers.  The settings are read from the file through the YAML    *)
(* library, byte by byte.                                                   *)
(***************************************************************************)
EXTENDS YamlInput, LogConfig

CONSTANTS IntMax, UIntMax   \* the largest int, uint32_t

ASSUME IntAssumption == IntMax \in Nat /\ UIntMax \in Nat /\ IntMax < UIntMax /\ UIntMax < LongMax

-----------------------------------------------------------------------------
\* The settings, a value for every name of every section.  Those without a
\* default are not initialised and set before they are used.

Unset == [port |-> -1, model |-> -1]

cwsd_config ==
  [rig        |-> [port |-> "", model |-> Unset.model, serial_speed |-> 0],
   cwdaemon   |-> [enabled |-> 0, port |-> Unset.port, initial_wpm |-> 30],
   rigctld    |-> [enabled |-> 0, port |-> Unset.port],
   audio      |-> [enabled |-> 0, port |-> 0, device |-> "default", sample_rate |-> 8000,
                   channels |-> 1, bitrate |-> 96000, frame_ms |-> 20,
                   client_timeout_ms |-> 10000, fec_loss_perc |-> 10],
   remote_key |-> [enabled |-> 0, port |-> 0, device |-> "", playout_ms |-> 150,
                   silence_ms |-> 250, max_key_down_ms |-> 5000, ptt_lead_ms |-> 10,
                   ptt_tail_ms |-> 100],
   logging    |-> [filename |-> "cwsd.log", level |-> "info", max_size |-> 1048576]]

\* get_value<T>().
get_value(node, T) ==
  CASE T = "bool"     -> from_node_bool(node)
    [] T = "string"   -> from_node_string(node)
    [] T = "int"      -> from_node_int(node, -IntMax - 1, IntMax)
    [] T = "uint16_t" -> from_node_int(node, 0, 65535)
    [] T = "uint32_t" -> from_node_int(node, 0, UIntMax)

\* While the file is read: the document, the settings so far, and whether nothing
\* was thrown.  A section is copied, but an anchored node of it is shared with
\* the document, and goes with the copy.
Key(name) == [type |-> "STRING", str |-> name, num |-> 0, kids |-> {}]

Store(S, child, v, section, name) ==
  IF S.ok /\ child.ok /\ v.ok THEN [S EXCEPT !.D = child.D, !.cfg[section][name] = v.value]
  ELSE [S EXCEPT !.ok = FALSE]

ReadChild(S, child, section, name, T) ==
  Store(S, child, get_value(Value(child.D, child.node), T), section, name)

ReadValue(S, node, section, name, T) == ReadChild(S, subscript(S.D, node, name), section, name, T)

\* Mutant: a value is read without the question whether it is there.
ReadUnasked(S, node, section, name, T) == ReadValue(S, node, section, name, T)

ReadIfContained(S, node, section, name, T) ==
  IF S.ok /\ contains(S.D, node, Key(name)) THEN ReadValue(S, node, section, name, T) ELSE S

\* root[section][name].
ReadIn(S, child, section, f) ==
  IF child.ok THEN ReadValue([S EXCEPT !.D = child.D], child.node, section, f.name, f.T)
  ELSE [S EXCEPT !.ok = FALSE]

\* What is asked of a section: the names, their types and whether they must be there.
Field(name, T, required) == [name |-> name, T |-> T, required |-> required]

FieldsOf(section) ==
  CASE section = "rig"      -> <<Field("model", "int", TRUE), Field("port", "string", TRUE)>>
    [] section = "cwdaemon" -> <<Field("enabled", "bool", TRUE), Field("port", "int", TRUE),
                                 Field("initial_wpm", "int", TRUE)>>
    [] section = "rigctld"  -> <<Field("enabled", "bool", TRUE), Field("port", "int", TRUE)>>
    [] section = "audio" ->
         <<Field("port", "uint16_t", TRUE), Field("device", "string", FALSE),
           Field("sample_rate", "uint32_t", FALSE), Field("channels", "int", FALSE),
           Field("bitrate", "int", FALSE), Field("frame_ms", "int", FALSE),
           Field("client_timeout_ms", "int", FALSE), Field("fec_loss_perc", "int", FALSE)>>
    [] section = "remote_key" ->
         <<Field("port", "int", TRUE), Field("device", "string", FALSE),
           Field("playout_ms", "uint32_t", FALSE), Field("silence_ms", "uint32_t", FALSE),
           Field("max_key_down_ms", "uint32_t", FALSE), Field("ptt_lead_ms", "uint32_t", FALSE),
           Field("ptt_tail_ms", "uint32_t", FALSE)>>
    [] section = "logging" -> <<Field("level", "string", FALSE), Field("filename", "string", FALSE),
                                Field("max_size", "uint32_t", FALSE)>>

ReadField(S, node, section, f) ==
  IF f.required THEN ReadValue(S, node, section, f.name, f.T)
  ELSE ReadIfContained(S, node, section, f.name, f.T)

\* In order, from a node that is there.
RECURSIVE ReadFields(_, _, _, _)
ReadFields(S, node, section, fields) ==
  IF fields = <<>> THEN S
  ELSE ReadFields(ReadField(S, node, section, Head(fields)), node, section, Tail(fields))

\* The sections the file must have: root[section][name] for every value.
RECURSIVE ReadRequired(_, _, _)
ReadRequired(S, section, fields) ==
  IF fields = <<>> THEN S
  ELSE ReadRequired(ReadIn(S, subscript(S.D, 1, section), section, Head(fields)), section, Tail(fields))

SerialSpeed(S) ==
  IF S.ok THEN ReadIfContained(S, subscript(S.D, 1, "rig").node, "rig", "serial_speed", "int") ELSE S

\* The key's device is the rig's unless its section names one.
Defaults(S, section) ==
  IF section = "remote_key" THEN [S EXCEPT !.cfg.remote_key.device = S.cfg.rig.port] ELSE S

\* A server that is off is asked for nothing more.
ServerSettings(S, section, node) ==
  IF S.ok /\ S.cfg[section].enabled = 1
  THEN ReadFields(Defaults(S, section), node, section, FieldsOf(section)) ELSE S

ReadCopy(S, section, node) ==
  LET R == IF section = "logging" THEN ReadFields(S, node, section, FieldsOf(section))
           ELSE ServerSettings(ReadValue(S, node, section, "enabled", "bool"), section, node)
  IN  [R EXCEPT !.D = destroy(@, node)]

\* A section that may be missing.
ReadOptional(S, section) ==
  IF S.ok /\ contains(S.D, 1, Key(section)) THEN ReadCopy(S, section, subscript(S.D, 1, section).node) ELSE S

ReadSection(S, section) ==
  CASE section = "rig" -> SerialSpeed(ReadRequired(S, section, FieldsOf(section)))
    [] section \in {"cwdaemon", "rigctld"} -> ReadRequired(S, section, FieldsOf(section))
    [] OTHER -> ReadOptional(S, section)

RECURSIVE ReadSections(_, _)
ReadSections(S, sections) ==
  IF sections = <<>> THEN S ELSE ReadSections(ReadSection(S, Head(sections)), Tail(sections))

-----------------------------------------------------------------------------
\* The file.

BytesOf(text) == [i \in 1..Len(text) |-> CodeOf(At(text, i))]

RECURSIVE TextOf(_)
TextOf(bytes) ==
  LET half == Len(bytes) \div 2
  IN  CASE bytes = <<>>   -> ""
        [] Len(bytes) = 1 -> CharOf(bytes[1])
        [] OTHER -> TextOf(SubSeq(bytes, 1, half)) \o TextOf(SubSeq(bytes, half + 1, Len(bytes)))

Refused == [ok |-> FALSE, cfg |-> cwsd_config]

Sections == <<"rig", "cwdaemon", "rigctld", "audio", "remote_key", "logging">>

Settings(S) == IF S.ok THEN [ok |-> TRUE, cfg |-> S.cfg] ELSE Refused

OfDocument(P) ==
  IF Stopped(P) THEN Refused ELSE Settings(ReadSections([D |-> P.D, ok |-> TRUE, cfg |-> cwsd_config], Sections))

OfInput(input) == IF input.end # "filled" THEN Refused ELSE OfDocument(deserialize(TextOf(input.buffer)))

read_config(bytes) == OfInput(ReadStream(bytes))

-----------------------------------------------------------------------------
\* The process: its arguments, HOME ("" when it is not set), its working
\* directory, the files there are, those that cannot be written to, what its
\* forks return, and how it ended.

Ended(S, status) == [S EXCEPT !.status = status]

\* fork(), setsid() and fork() again; the parents leave at once.
daemonize(S) ==
  CASE S.fork1 = "parent" -> Ended(S, "succeeds")
    [] "fails" \in {S.fork1, S.setsid, S.fork2} -> Ended(S, "fails")
    [] S.fork2 = "parent" -> Ended(S, "succeeds")
    [] OTHER -> [S EXCEPT !.cwd = "/"]

RECURSIVE Arguments(_, _)
Arguments(S, i) ==
  LET argument == S.argv[i]
  IN  CASE S.status # "running" \/ i > Len(S.argv) -> S
        [] argument = "-d" -> Arguments(daemonize(S), i + 1)
        [] argument = "--version" -> Ended(S, "succeeds")
        [] argument \in {"-c", "--config"} ->
             IF i = Len(S.argv) THEN Ended(S, "fails")
             ELSE Arguments([S EXCEPT !.path = S.argv[i + 1]], i + 2)
        [] OTHER -> Ended(S, "fails")   \* usage()

\* A path from the home directory, or from the working directory.
Resolved(S, path) ==
  CASE At(path, 1) = "~" -> S.home \o Tail(path)
    [] At(path, 1) = "/" -> path
    [] OTHER             -> S.cwd \o path

\* The settings are those of a process that has come to its servers.
Serve(S, read) ==
  LET log == read.cfg.logging
  IN  IF ~read.ok THEN Ended(S, "fails")
      ELSE [S EXCEPT !.status = "serving", !.cfg = read.cfg,
                     !.log = configure_logging(to_logging_level(log.level), log.filename,
                                               IntegerText(log.max_size), S.unwritable)]

WithArguments(S) ==
  LET file == Resolved(S, S.path)
  IN  CASE S.status # "running" -> S
        [] At(S.path, 1) = "~" /\ S.home = "" -> Ended(S, "fails")
        [] file \notin DOMAIN S.files -> Ended(S, "fails")
        [] OTHER -> Serve(S, read_config(S.files[file]))

main(S) == WithArguments(Arguments([S EXCEPT !.path = "~/.config/cwsdrc"], 1))
=============================================================================
