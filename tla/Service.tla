-------------------------------- MODULE Service --------------------------------
(***************************************************************************)
(* What the main thread relies on of a server once it is constructed: its   *)
(* worker runs until its flag is cleared, and then comes to an end.  Cwsd    *)
(* composes servers that behave like this.  Rigctld is shown to implement   *)
(* it; StopReleases of RemoteKey and StopJoins of CwDaemon say as much.      *)
(***************************************************************************)
VARIABLES
  thread,   \* "starting", "running" or "ended"
  flag      \* is_running of the server

state == <<thread, flag>>

Init == thread \in {"starting", "running"} /\ flag \in BOOLEAN

\* The worker begins; rigctld's sets the flag itself.
Begin == thread = "starting" /\ thread' = "running" /\ flag' \in {flag, TRUE}

\* stop() clears the flag.
Stop == flag /\ flag' = FALSE /\ UNCHANGED thread

\* The worker sees it.
End == thread = "running" /\ ~flag /\ thread' = "ended" /\ UNCHANGED flag

\* A signal nobody handles ends the process.
Killed == thread' = "ended" /\ flag' = FALSE

Next == Begin \/ Stop \/ End \/ Killed

Spec == Init /\ [][Next]_state /\ WF_state(Begin) /\ WF_state(End)
==============================================================================
