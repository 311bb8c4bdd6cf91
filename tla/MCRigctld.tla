------------------------------- MODULE MCRigctld -------------------------------
(* Instances of Rigctld for TLC. *)
EXTENDS Rigctld

GetMode == [op |-> "m", args |-> <<>>]
Quit    == [op |-> "q", args |-> <<>>]

MCAll  == {GetMode, Quit}
MCJunk == {0}
=============================================================================
