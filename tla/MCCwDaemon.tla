------------------------------ MODULE MCCwDaemon ------------------------------
(***************************************************************************)
(* Small instances of CwDaemon: three letters, two speeds, a few messages. *)
(***************************************************************************)
EXTENDS CwDaemon, TLC

\* E, T and A of char_table.
MCPattern == (69 :> <<"dit">>) @@ (84 :> <<"dah">>) @@ (65 :> <<"dit", "dah">>)

Text(chars) == [kind |-> "text", chars |-> chars]
Command(kind, n) == [kind |-> kind, arg |-> n]

\* "+a", "~tE" and "E   T".
Texts == {Text(<<43, 97>>), Text(<<126, 116, 69>>), Text(<<69, 32, 32, 32, 84>>)}

\* A tune, a text, and immediate commands of each kind.
Commands ==
  {Command("tune", 1), Text(<<43, 101>>), Command("abort", 0),
   Command("faster", 2), Command("weight", 20)}

\* A tune, "+e" and an exit.
Sessions == {Command("tune", 1), Text(<<43, 101>>), Command("exit", 0)}

ExitMessages == {Command("tune", 1), Command("exit", 0)}

\* Every two of the texts, and every three of the commands.
MCTextsOrCommands == {[of |-> Texts, number |-> 2], [of |-> Commands, number |-> 3]}

MCSessions == {[of |-> Sessions, number |-> 1]}

MCExit == {[of |-> ExitMessages, number |-> 2]}
=============================================================================
