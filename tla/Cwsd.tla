--------------------------------- MODULE Cwsd ---------------------------------
(***************************************************************************)
(* The life of the process (main.cpp, cwsd.cpp): the main thread constructs *)
(* the enabled servers, runs until a signal clears is_running, stops the    *)
(* servers one after the other and deletes them.  The audio stream server   *)
(* takes part as AudioStream models it; each of the others as what Service  *)
(* says of its threads and its flag, which their own modules implement.     *)
(***************************************************************************)
EXTENDS AudioStream, Sequences

CONSTANT Enabled   \* the servers the configuration enables

Servers == {"rigctld", "cwdaemon", "audio", "remote_key"}
Others  == Servers \ {"audio"}

ASSUME EnabledAssumption == Enabled \subseteq Servers

VARIABLES
  main,        \* the main thread: where it is, and at which server
  is_running,  \* cwsd::is_running
  object,      \* server -> "none", "made" or "deleted"
  thread,      \* the threads of the other servers
  flag,        \* their is_running
  asked,       \* history: a signal came while run() was in its loop
  overtaken    \* history: rigctld's thread set its flag after stop() cleared it

services == <<thread, flag>>
history  == <<asked, overtaken>>
mainVars == <<main, is_running, object, services, history>>
vars     == <<mainVars, audioVars>>

At(pc, k) == [pc |-> pc, k |-> k]

Init ==
  /\ AudioInit
  /\ main = At("construct", 1) /\ is_running = FALSE
  /\ object = [s \in Servers |-> "none"]
  /\ thread = [s \in Others |-> "none"] /\ flag = [s \in Others |-> FALSE]
  /\ asked = FALSE /\ overtaken = FALSE

-----------------------------------------------------------------------------
\* Mutant: a server whose destructor does not join is forgotten.
StopsWithoutRigctld == <<"cwdaemon", "audio", "remote_key">>

\* The orders of construction, of the stops in run() and of ~cwsd.
Order   == <<"rigctld", "cwdaemon", "audio", "remote_key">>
Stops   == <<"rigctld", "cwdaemon", "audio", "remote_key">>
Deletes == <<"remote_key", "audio", "cwdaemon", "rigctld">>

\* The main thread is in one of the three walks over the servers, at s.
Walking(pc, order, s) ==
  main.pc = pc /\ main.k <= Len(order) /\ order[main.k] = s

\* It goes on to the next server, or to what follows the walk.
NextServer(pc, order, after) ==
  main' = IF main.k < Len(order) THEN At(pc, main.k + 1) ELSE At(after, 1)

\* A server that is not enabled is passed over; its pointer is null.
PassOver(s) ==
  /\ s \notin Enabled
  /\ \/ Walking("construct", Order, s) /\ NextServer("construct", Order, "run")
     \/ Walking("stop", Stops, s) /\ NextServer("stop", Stops, "delete")
     \/ Walking("delete", Deletes, s) /\ NextServer("delete", Deletes, "exited")
  /\ UNCHANGED <<is_running, object, services, history, audioVars>>

\* A constructor succeeds.  All but rigctld set their flag before the threads run.
Construct(s) ==
  /\ s \in Enabled
  /\ Walking("construct", Order, s) /\ NextServer("construct", Order, "run")
  /\ object' = [object EXCEPT ![s] = "made"]
  /\ IF s = "audio"
       THEN AudioStart /\ UNCHANGED services
       ELSE /\ thread' = [thread EXCEPT ![s] = IF s = "rigctld" THEN "starting"
                                                                ELSE "running"]
            /\ flag' = [flag EXCEPT ![s] = s # "rigctld"]
            /\ UNCHANGED audioVars
  /\ UNCHANGED <<is_running, history>>

\* A constructor throws (a port is taken): main logs it and returns 1, with the
\* servers made so far and their threads as they are.
Throws(s) ==
  /\ s \in Enabled
  /\ Walking("construct", Order, s) /\ main' = At("failed", 1)
  /\ UNCHANGED <<is_running, object, services, history, audioVars>>

\* run(): the flag is set whatever a signal did before.
RunBegins ==
  /\ main.pc = "run" /\ main' = At("loop", 1) /\ is_running' = TRUE
  /\ UNCHANGED <<object, services, history, audioVars>>

\* The loop sees the flag.  Its updates do nothing.
LoopEnds ==
  /\ main.pc = "loop" /\ ~is_running /\ main' = At("stop", 1)
  /\ UNCHANGED <<is_running, object, services, history, audioVars>>

\* stop() of a server clears its flag ...
StopServer(s) ==
  /\ s \in Enabled
  /\ Walking("stop", Stops, s) /\ main' = At("join", main.k)
  /\ IF s = "audio"
       THEN AudioStop /\ UNCHANGED services
       ELSE flag' = [flag EXCEPT ![s] = FALSE] /\ UNCHANGED <<thread, audioVars>>
  /\ UNCHANGED <<is_running, object, history>>

Ended(s) == IF s = "audio" THEN au_pc = "done" ELSE thread[s] = "ended"

\* ... and returns when its threads are joined.
Join(s) ==
  /\ Walking("join", Stops, s) /\ Ended(s) /\ NextServer("stop", Stops, "delete")
  /\ UNCHANGED <<is_running, object, services, history, audioVars>>

\* ~cwsd: the second stop() of those whose destructor calls it does nothing.
Delete(s) ==
  /\ s \in Enabled
  /\ Walking("delete", Deletes, s) /\ NextServer("delete", Deletes, "exited")
  /\ object' = [object EXCEPT ![s] = "deleted"]
  /\ IF s = "audio" THEN AudioDelete ELSE UNCHANGED audioVars
  /\ UNCHANGED <<is_running, services, history>>

Main ==
  \/ RunBegins \/ LoopEnds
  \/ \E s \in Servers : \/ PassOver(s) \/ Construct(s) \/ Throws(s)
                        \/ StopServer(s) \/ Join(s) \/ Delete(s)

Up == main.pc \notin {"exited", "failed"}

\* signal_handler; the handler is installed before anything is constructed.
signal_handler == is_running' = FALSE

Signal ==
  /\ Up /\ ~asked /\ signal_handler
  /\ asked' = (main.pc = "loop")
  /\ UNCHANGED <<main, object, services, overtaken, audioVars>>

-----------------------------------------------------------------------------
(* The threads of the other servers.                                        *)

\* rigctld's thread begins and sets the flag itself.
ThreadBegins(s) ==
  /\ thread[s] = "starting" /\ thread' = [thread EXCEPT ![s] = "running"]
  /\ flag' = [flag EXCEPT ![s] = TRUE]
  /\ overtaken' = (main.pc = "join")
  /\ UNCHANGED <<main, is_running, object, asked, audioVars>>

\* A thread sees that its flag was cleared.
ThreadEnds(s) ==
  /\ thread[s] = "running" /\ ~flag[s]
  /\ thread' = [thread EXCEPT ![s] = "ended"]
  /\ UNCHANGED <<main, is_running, object, flag, history, audioVars>>

Threads == \E s \in Others : ThreadBegins(s) \/ ThreadEnds(s)

Next ==
  /\ Up
  /\ \/ Main \/ Signal \/ Threads
     \/ (AudioWorker \/ AudioWorld) /\ UNCHANGED mainVars

\* Every thread goes on as long as the process does.
Spec ==
  /\ Init /\ [][Next]_vars
  /\ WF_vars(Up /\ Main) /\ WF_vars(Up /\ Threads)
  /\ WF_vars(Up /\ AudioWorker /\ UNCHANGED mainVars)
  /\ WF_vars(Up /\ Tick /\ UNCHANGED mainVars)
  /\ \A l \in Listeners :
       WF_vars(Up /\ mode[l] = "in" /\ Datagram(l) /\ UNCHANGED mainVars)

-----------------------------------------------------------------------------
(* Properties.                                                              *)

\* The variables have their types.
TypeOK ==
  /\ AudioTypeOK
  /\ main \in [pc : {"construct", "run", "loop", "stop", "join", "delete", "exited",
                     "failed"},
               k : 1 .. Len(Order)]
  /\ is_running \in BOOLEAN /\ flag \in [Others -> BOOLEAN]
  /\ object \in [Servers -> {"none", "made", "deleted"}]
  /\ thread \in [Others -> {"none", "starting", "running", "ended"}]

\* No server is deleted while a thread of its own may still use it: rigctld and
\* cwdaemon have no destructor that joins, so run() must have stopped them.
DeletedOnlyEnded == \A s \in Servers : object[s] = "deleted" => Ended(s)

\* The process exits after a signal that came while run() was in its loop,
\* whatever the servers are doing and whichever of them are enabled, unless
\* stop() overtook the start of rigctld's thread.
SignalExits == asked ~> (main.pc = "exited" \/ overtaken)
==============================================================================
