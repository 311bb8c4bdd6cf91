------------------------------ MODULE RigCommands ------------------------------
(***************************************************************************)
(* The commands of the rigctld server (rigctld_server.cpp) as a function:   *)
(* what interpret_command does to the rig and what it replies.  A command   *)
(* is [op, args]: its first word and the others, numbers parsed.  Hamlib    *)
(* and the rig behind it are external: a record of settings that answers    *)
(* while the handle is good and the rig is not asleep.                      *)
(***************************************************************************)
EXTENDS Integers, Sequences

NotANumber == -1000   \* an argument on which std::stoi and std::stod throw

RIG_AGC_OFF  == 0
RIG_AGC_FAST == 2

\* One line of a reply: a report, a number or a name.
RPRT(n) == [kind |-> "RPRT", n |-> n]
Num(n)  == [kind |-> "num", n |-> n]
Name(s) == [kind |-> "name", s |-> s]

-----------------------------------------------------------------------------
(* The names of the protocol.  Hamlib's constants go by the same names,     *)
(* with "CURR", "NONE" and "ALL" for the values that are not rendered.      *)

Vfos  == {"VFOA", "VFOB", "VFOC"}
Modes == {"USB", "LSB", "CW", "RTTY", "RTTYR", "AM", "FM", "PKTLSB", "PKTUSB",
          "PKTFM"}

vfo_to_string(vfo)     == IF vfo \in Vfos THEN vfo ELSE "UNKNOWN"
vfo_from_string(name)  == IF name \in Vfos THEN name ELSE "CURR"
mode_to_string(mode)   == IF mode \in Modes THEN mode ELSE "UNKNOWN"
mode_from_string(name) == IF name \in Modes THEN name ELSE "ALL"
split_to_string(split) == Num(IF split THEN 1 ELSE 0)

-----------------------------------------------------------------------------
\* What each command needs of its arguments before the rig is asked.
Numeric(cmd) ==
  CASE cmd.op \in {"\\set_powerstat", "T", "F"} -> {cmd.args[1]}
    [] cmd.op \in {"M", "L"} /\ Len(cmd.args) > 1 -> {cmd.args[2]}
    [] OTHER -> {}

\* std::stoi or std::stod throws: read_from_client catches it.
Throws(cmd) == NotANumber \in Numeric(cmd)

\* The reply to "s": simplex on VFOA unless the rig says otherwise, and never a
\* VFO that has no name.
SplitVfo(rig, awake) ==
  LET known == awake /\ rig.txvfo # "NONE"
  IN  [split |-> known /\ rig.split,
       txvfo |-> IF known /\ rig.txvfo \in Vfos THEN rig.txvfo ELSE "VFOA"]

\* The IC-7300 cannot switch AGC off.
AgcValue(level, value, model) ==
  IF level = "AGC" /\ value = RIG_AGC_OFF /\ model = "IC7300"
    THEN RIG_AGC_FAST ELSE value

\* interpret_command for a command whose numbers parse, on a rig that can be
\* reached or not; junk is what an uninitialised variable holds.  The outcome:
\* the lines of the reply, the rig, whether the client quits, and whether Hamlib
\* reported a failed read.
Interpreted(cmd, rig, reached, model, junk) ==
  LET awake == reached /\ ~rig.asleep
      arg   == cmd.args
      get(v)       == IF awake THEN v ELSE junk
      local(lines) == [reply |-> lines, rig |-> rig, quit |-> FALSE,
                       failed |-> FALSE]
      says(lines)  == [local(lines) EXCEPT !.failed = ~awake]
      sets(r)      == [says(<<RPRT(0)>>) EXCEPT !.rig = IF awake THEN r ELSE rig]
  IN  CASE cmd.op = "\\get_powerstat" -> says(<<Num(get(rig.power))>>)
        [] cmd.op = "\\set_powerstat" ->
             [local(<<RPRT(0)>>) EXCEPT
                !.rig = IF reached THEN [rig EXCEPT !.power = arg[1],
                                                    !.asleep = arg[1] # 1]
                                   ELSE rig,
                !.failed = ~reached]
        [] cmd.op = "\\chk_vfo" -> local(<<Num(0)>>)
        [] cmd.op = "\\get_lock_mode" -> says(<<Num(get(rig.lock)), Name("")>>)
        [] cmd.op = "\\dump_state" -> local(<<Name("caps")>>)
        [] cmd.op = "f" -> says(<<Num(get(rig.freq))>>)
        [] cmd.op = "s" -> LET v == SplitVfo(rig, awake)
                           IN  says(<<split_to_string(v.split),
                                      Name(vfo_to_string(v.txvfo))>>)
        [] cmd.op = "S" ->
             sets([rig EXCEPT !.split = arg[1] = 1,
                              !.txvfo = IF Len(arg) > 1
                                          THEN vfo_from_string(arg[2])
                                          ELSE "VFOA"])
        [] cmd.op = "t" -> says(<<Num(get(rig.ptt))>>)
        [] cmd.op = "T" -> sets([rig EXCEPT !.ptt = arg[1]])
        [] cmd.op = "V" -> sets([rig EXCEPT !.vfo = vfo_from_string(arg[1])])
        [] cmd.op = "m" ->
             says(IF awake THEN <<Name(mode_to_string(rig.mode)), Num(rig.width)>>
                           ELSE <<Name(mode_to_string("NONE")), Num(0)>>)
        [] cmd.op = "M" -> sets([rig EXCEPT !.mode = mode_from_string(arg[1]),
                                            !.width = arg[2]])
        [] cmd.op = "F" -> sets([rig EXCEPT !.freq = arg[1]])
        [] cmd.op = "l" ->
             says(IF awake /\ arg[1] \in DOMAIN rig.levels
                    THEN <<Num(rig.levels[arg[1]])>> ELSE <<RPRT(-1)>>)
        [] cmd.op = "L" ->
             LET value == AgcValue(arg[1], IF Len(arg) > 1 THEN arg[2] ELSE 0,
                                   model)
             IN  IF awake /\ Len(arg) > 0 /\ arg[1] \in DOMAIN rig.levels
                   THEN sets([rig EXCEPT !.levels[arg[1]] = value])
                   ELSE says(<<RPRT(-1)>>)
        [] cmd.op \in {"q", "Q"} -> [local(<<RPRT(0)>>) EXCEPT !.quit = TRUE]
        [] cmd.op = "j" -> says(<<Num(IF awake THEN rig.rit ELSE 0)>>)
        [] cmd.op = "v" -> local(<<Name("Main")>>)
        [] OTHER -> local(<<>>)

\* A command that throws is answered with an error and leaves the rig alone.
interpret_command(cmd, rig, reached, model, junk) ==
  IF Throws(cmd)
    THEN [rig |-> rig, quit |-> FALSE, failed |-> FALSE, reply |-> <<RPRT(-1)>>]
    ELSE Interpreted(cmd, rig, reached, model, junk)
=============================================================================
