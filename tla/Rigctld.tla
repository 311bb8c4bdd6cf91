-------------------------------- MODULE Rigctld --------------------------------
(***************************************************************************)
(* The rigctld server (rigctld_server.cpp): one worker thread that polls a  *)
(* listener and its clients, reads lines, asks the rig (RigCommands), queues *)
(* replies and writes them when the socket takes them; that opens the rig,   *)
(* and closes every client when the rig's device is gone.  Around it are the *)
(* clients, which connect, send, stop sending or reset; the rig, which is    *)
(* unplugged, plugged and put to sleep; and stop().                          *)
(***************************************************************************)
EXTENDS RigCommands, FiniteSets, SequencesExt, FiniteSetsExt

CONSTANTS
  NConns,        \* how many connections clients make
  Commands,      \* the commands they send
  Model,         \* rig_model
  Junk,          \* what an uninitialised number may hold
  MaxSends,      \* bound on the commands sent on all connections
  Window,        \* replies a client's socket takes before it reads them
  MaxFaults,     \* bound on unplugging, standby, resets and stop() together
  PluggedAtStart,\* whether the device is there when the server starts
  MayReset,      \* whether clients may reset a connection
  MayStop,       \* whether stop() is called
  StopEarly      \* whether it may come before the worker has begun

NL == [op |-> "\n", args |-> <<>>]   \* the end of a line in a stream

\* No command is an end of line, and a socket takes something.
ASSUME RigctldAssumption ==
  /\ NConns \in Nat /\ Window \in Nat \ {0} /\ NL \notin Commands
  /\ PluggedAtStart \in BOOLEAN

Conns == 1 .. NConns   \* the connections, in the order they are made

VARIABLES
  wk_pc, is_running, rig_disconnected, handle,
  clients,       \* fd -> [conn, read_buffer, write_buffer]
  pfds,          \* the array poll() is called with, after the listener
  revents,       \* what poll() reported and is still to be served
  fds_to_remove, fd_added,
  stopping,      \* stop(): "no", then "joining" the worker, then "joined"
  conn,          \* the clients' ends of their connections
  rig, present, faults,
  alive,         \* FALSE once SIGPIPE has ended the process
  absent         \* history: the device was gone since the rig was opened

worker  == <<wk_pc, is_running, rig_disconnected, handle, clients, pfds, revents,
             fds_to_remove, fd_added>>
outside == <<conn, rig, present, faults>>
vars    == <<worker, stopping, outside, alive, absent>>

\* A connection: its stage, what it has sent and the server not yet read (each
\* line in two pieces, its text and its end), how it ended its side and how many
\* replies it has not read.  History: the lines sent and interpreted, the replies to
\* them and those it was sent, whether its window was ever full, whether a line
\* was read while the rig was gone, and why it ended.
NewConn == [stage |-> "none", sending |-> <<>>, fin |-> FALSE,
            rst |-> FALSE, unread |-> 0, sent |-> 0, done |-> 0, answers |-> <<>>,
            got |-> <<>>, full |-> FALSE, deferred |-> FALSE, ended |-> "no"]

NewRig == [asleep |-> FALSE, power |-> 1, lock |-> 0, freq |-> 7, mode |-> "USB",
           width |-> 3, split |-> FALSE, txvfo |-> "CURR", vfo |-> "VFOA",
           ptt |-> 0, rit |-> 0, levels |-> [l \in {"AGC", "SWR"} |-> 1]]

Init ==
  /\ wk_pc = "init" /\ is_running = FALSE /\ rig_disconnected = TRUE
  /\ handle = "none" /\ clients = <<>> /\ pfds = <<>> /\ revents = <<>>
  /\ fds_to_remove = {} /\ fd_added = FALSE /\ stopping = "no"
  /\ conn = [c \in Conns |-> NewConn] /\ rig = NewRig
  /\ present = PluggedAtStart /\ faults = 0
  /\ alive = TRUE /\ absent = FALSE

-----------------------------------------------------------------------------
(* Helpers.                                                                 *)

\* The numbers in S from the least to the greatest.  (SetToSortSeq and SelectSeq
\* are built into TLC and have no definition a proof could use.)
Ascending(S) ==
  CHOOSE s \in [1 .. Cardinality(S) -> S] :
    \A i, j \in 1 .. Cardinality(S) : i < j => s[i] < s[j]

\* An entry per client in the order of the map, to be polled for writing while
\* replies wait.
update_poll_descriptors(cs) ==
  LET fds == Ascending(DOMAIN cs)
  IN  [i \in 1 .. Len(fds) |->
         [fd |-> fds[i], out |-> cs[fds[i]].write_buffer # <<>>]]

\* The flags alone, by position in the array.
update_poll_flags(entries, cs) ==
  LET fds == Ascending(DOMAIN cs)
  IN  [i \in 1 .. Len(entries) |->
         IF i <= Len(fds)
           THEN [entries[i] EXCEPT !.out = cs[fds[i]].write_buffer # <<>>]
           ELSE entries[i]]

\* The reply lines of one command as the client sees them: whose, to what.
Tagged(c, k, lines) == [i \in 1 .. Len(lines) |-> [conn |-> c, to |-> k,
                                                   line |-> lines[i]]]

\* close_client: the connection ends, for a reason.
close_client(cs, why) ==
  [c \in Conns |-> IF c \in cs
                     THEN [conn[c] EXCEPT !.stage = "closed", !.ended = why]
                     ELSE conn[c]]

ConnsOf(fds) == {clients[fd].conn : fd \in fds}

-----------------------------------------------------------------------------------------------------------------------------------------------
(* work().                                                                  *)

\* The thread starts: it sets is_running itself.
Start ==
  /\ wk_pc = "init" /\ wk_pc' = "top" /\ is_running' = TRUE
  /\ UNCHANGED <<rig_disconnected, handle, clients, pfds, revents,
                 fds_to_remove, fd_added, stopping, outside, alive, absent>>

\* rig_open, which fails without the device and then cleans the handle up.  The
\* model is one Hamlib knows and takes the settings of: rig_init or rig_set_conf
\* failing throws out of the thread and ends the process before it serves anyone.
open_rig == IF present THEN "open" ELSE "none"

\* Mutant: opening is retried until it succeeds.
OpenRigWaits ==
  present /\ handle' = "open" /\ rig_disconnected' = FALSE /\ absent' = FALSE

\* One attempt per turn.
OpenRig ==
  /\ handle' = open_rig /\ rig_disconnected' = (open_rig = "none")
  /\ absent' = FALSE

\* The head of the loop.  A lost rig costs every client its connection; then the
\* rig is opened.
Top ==
  /\ wk_pc = "top" /\ is_running /\ wk_pc' = "poll"
  /\ IF ~rig_disconnected
       THEN UNCHANGED <<rig_disconnected, handle, clients, pfds, conn, absent>>
       ELSE /\ IF handle # "none"
                 THEN /\ clients' = <<>> /\ pfds' = <<>>
                      /\ conn' = close_client(ConnsOf(DOMAIN clients), "rig")
                 ELSE UNCHANGED <<clients, pfds, conn>>
            /\ OpenRig
  /\ UNCHANGED <<is_running, revents, fds_to_remove, fd_added, stopping, rig,
                 present, faults, alive>>

\* What poll() reports of a client: a reset is an error.
Events(p) ==
  LET k == conn[clients[p.fd].conn]
  IN  [fd |-> p.fd, err |-> k.rst, in |-> k.sending # <<>> \/ k.fin,
       out |-> p.out /\ k.unread < Window]

\* The clients it reports something of, in the order of the array.
Reported ==
  LET some  == {i \in 1 .. Len(pfds) :
                  LET e == Events(pfds[i]) IN e.err \/ e.in \/ e.out}
      order == Ascending(some)
  IN  [j \in 1 .. Cardinality(some) |-> Events(pfds[order[j]])]

Waiting == {c \in Conns : conn[c].stage = "queued"}

\* fds_to_remove begins empty.
NoMarks == {}

\* poll(): a second passes with nothing to do, or there are events, the
\* listener's first.
Poll ==
  /\ wk_pc = "poll"
  /\ revents' = Reported
  /\ wk_pc' = IF Waiting # {} THEN "accept"
              ELSE IF Reported # <<>> THEN "serve" ELSE "top"
  /\ fds_to_remove' = NoMarks /\ fd_added' = FALSE
  /\ UNCHANGED <<is_running, rig_disconnected, handle, clients, pfds, stopping,
                 outside, alive, absent>>

\* accept_client: the new client gets the lowest free descriptor.
Accept(c) ==
  /\ wk_pc = "accept" /\ c \in Waiting
  /\ LET fd == Min(1 .. NConns \ DOMAIN clients)
         new == [conn |-> c, read_buffer |-> <<>>, write_buffer |-> <<>>]
     IN  clients' = [f \in DOMAIN clients \union {fd} |->
                       IF f = fd THEN new ELSE clients[f]]
  /\ conn' = [conn EXCEPT ![c].stage = "open"]
  /\ fd_added' = TRUE /\ wk_pc' = "serve"
  /\ UNCHANGED <<is_running, rig_disconnected, handle, pfds, revents,
                 fds_to_remove, stopping, rig, present, faults,
                 alive, absent>>

\* The client being served, and its end of the connection.
Served == Head(revents).fd
Self   == clients[Served].conn

\* poll_declares_error: the client is to be removed.
ServeError ==
  /\ wk_pc = "serve" /\ revents # <<>> /\ Head(revents).err
  /\ fds_to_remove' = fds_to_remove \cup {Served}
  /\ revents' = Tail(revents)
  /\ conn' = [conn EXCEPT ![Self].ended = "error"]
  /\ UNCHANGED <<wk_pc, is_running, rig_disconnected, handle, clients, pfds,
                 fd_added, stopping, rig, present, faults, alive,
                 absent>>

\* Mutant: requests are interpreted whether or not the rig is connected.
AlwaysLines == "lines"

\* Do not interpret client requests while the rig is disconnected.
AfterRecv == IF rig_disconnected THEN "write" ELSE "lines"

\* recv(): some of what was sent, cut anywhere; an error or the end of the stream
\* removes the client.
Read ==
  /\ wk_pc = "serve" /\ revents # <<>> /\ ~Head(revents).err
  /\ LET k == conn[Self]
     IN  \/ /\ ~Head(revents).in /\ wk_pc' = "write"
            /\ UNCHANGED <<clients, conn, fds_to_remove>>
         \/ /\ Head(revents).in /\ (k.rst \/ k.sending = <<>>) /\ wk_pc' = "write"
            /\ fds_to_remove' = fds_to_remove \cup {Served}
            /\ conn' = [conn EXCEPT ![Self].ended = IF k.rst THEN "error"
                                                             ELSE "eof"]
            /\ UNCHANGED clients
         \/ /\ Head(revents).in /\ ~k.rst
            /\ wk_pc' = AfterRecv
            /\ \E n \in 1 .. Len(k.sending) :
                 /\ clients' = [clients EXCEPT ![Served].read_buffer =
                                  @ \o SubSeq(k.sending, 1, n)]
                 /\ conn' = [conn EXCEPT
                      ![Self].sending = SubSeq(@, n + 1, Len(@)),
                      ![Self].deferred = @ \/ rig_disconnected]
            /\ UNCHANGED fds_to_remove
  /\ UNCHANGED <<is_running, rig_disconnected, handle, pfds, revents, fd_added,
                 stopping, rig, present, faults, alive, absent>>

\* Mutant: what quit writes at once stays in the buffer.
NotErased(k, replies) ==
  LET n == Min({Len(replies), Window - k.unread})
  IN  [conn |-> [k EXCEPT !.unread = @ + n, !.got = @ \o SubSeq(replies, 1, n),
                          !.full = @ \/ k.unread + n = Window],
       left |-> replies]

\* write(): the socket takes what it has room for.
Written(k, replies) ==
  LET n == Min({Len(replies), Window - k.unread})
  IN  [conn |-> [k EXCEPT !.unread = @ + n, !.got = @ \o SubSeq(replies, 1, n),
                          !.full = @ \/ k.unread + n = Window],
       left |-> SubSeq(replies, n + 1, Len(replies))]

\* A write to a connection that was reset fails, or the process receives
\* SIGPIPE, which it does not handle.
Piped(k) == alive' \in IF k.rst THEN BOOLEAN ELSE {TRUE}

\* Mutant: a rig that does not answer is taken for one that is unplugged.
LostAsleep(failed) == rig_disconnected \/ failed

\* on_rig_disconnect, from Hamlib's callback: only when the device is gone.
Lost(failed) == rig_disconnected \/ (failed /\ ~present)

\* One line of the buffer: interpreted, its reply queued and the line erased; a
\* quit writes at once and ends the client.
Interpret(junk) ==
  /\ wk_pc = "lines" /\ Contains(clients[Served].read_buffer, NL)
  /\ LET buf   == clients[Served].read_buffer
         k     == conn[Self]
         o     == interpret_command(buf[1], rig, handle = "open", Model, junk)
         lines == Tagged(Self, k.done + 1, o.reply)
         queue == clients[Served].write_buffer \o lines
         w     == IF o.quit /\ ~k.rst THEN Written(k, queue)
                                      ELSE [conn |-> k, left |-> queue]
     IN  /\ rig' = o.rig
         /\ rig_disconnected' = Lost(o.failed)
         /\ IF o.quit THEN Piped(k) ELSE UNCHANGED alive
         /\ clients' = [clients EXCEPT
              ![Served].write_buffer = w.left,
              ![Served].read_buffer  = IF o.quit THEN @ ELSE SubSeq(@, 3, Len(@))]
         /\ conn' = [conn EXCEPT ![Self] =
              [w.conn EXCEPT !.done = @ + 1, !.answers = @ \o lines,
                             !.ended = IF o.quit THEN "quit" ELSE @]]
         /\ fds_to_remove' = fds_to_remove \cup (IF o.quit THEN {Served} ELSE {})
         /\ wk_pc' = IF o.quit THEN "write" ELSE "lines"
  /\ UNCHANGED <<is_running, handle, pfds, revents, fd_added, stopping, present,
                 faults, absent>>

\* read_from_client has returned: no line is left, or nothing was to be read.
ReadDone ==
  \/ wk_pc = "write"
  \/ wk_pc = "lines" /\ ~Contains(clients[Served].read_buffer, NL)

\* Mutant: a client that is to be removed is not written to.
WriteUnlessRemoved ==
  /\ ReadDone
  /\ LET k == conn[Self]
         w == Written(k, clients[Served].write_buffer)
     IN  IF Head(revents).out /\ Served \notin fds_to_remove
           THEN /\ clients' = [clients EXCEPT ![Served].write_buffer = w.left]
                /\ conn' = [conn EXCEPT ![Self] = w.conn]
           ELSE UNCHANGED <<clients, conn>>
  /\ revents' = Tail(revents) /\ wk_pc' = "serve"
  /\ UNCHANGED <<is_running, rig_disconnected, handle, pfds, fds_to_remove,
                 fd_added, stopping, rig, present, faults, alive,
                 absent>>

\* write_from_client, when poll() said that the socket takes data.
Write ==
  /\ ReadDone
  /\ LET k == conn[Self]
         q == clients[Served].write_buffer
         w == Written(k, q)
     IN  IF Head(revents).out /\ q # <<>>
           THEN /\ Piped(k)
                /\ IF k.rst
                     THEN /\ fds_to_remove' = fds_to_remove \cup {Served}
                          /\ UNCHANGED <<clients, conn>>
                     ELSE /\ clients' = [clients EXCEPT
                                           ![Served].write_buffer = w.left]
                          /\ conn' = [conn EXCEPT ![Self] = w.conn]
                          /\ UNCHANGED fds_to_remove
           ELSE UNCHANGED <<clients, conn, fds_to_remove, alive>>
  /\ revents' = Tail(revents) /\ wk_pc' = "serve"
  /\ UNCHANGED <<is_running, rig_disconnected, handle, pfds, fd_added, stopping,
                 rig, present, faults, absent>>

\* Mutant: only the flags of the poll array are renewed for a new client.
StaleArray(cs) == update_poll_flags(pfds, cs)

\* The poll array after the marked clients are closed.
Renewed(cs) ==
  IF fd_added \/ fds_to_remove # {} THEN update_poll_descriptors(cs)
                                    ELSE update_poll_flags(pfds, cs)

\* All are served: the marked ones are closed and the poll array renewed.
Sweep ==
  /\ wk_pc = "serve" /\ revents = <<>> /\ wk_pc' = "top"
  /\ conn' = [c \in Conns |-> IF c \in ConnsOf(fds_to_remove)
                                THEN [conn[c] EXCEPT !.stage = "closed"]
                                ELSE conn[c]]
  /\ clients' = [fd \in DOMAIN clients \ fds_to_remove |-> clients[fd]]
  /\ pfds' = Renewed(clients')
  /\ UNCHANGED <<is_running, rig_disconnected, handle, revents, fds_to_remove,
                 fd_added, stopping, rig, present, faults, alive,
                 absent>>

\* Mutant: the thread ends only when its clients have left.
ExitWhenIdle ==
  /\ wk_pc = "top" /\ ~is_running /\ clients = <<>> /\ wk_pc' = "done"
  /\ UNCHANGED <<is_running, rig_disconnected, handle, clients, pfds, revents,
                 fds_to_remove, fd_added, stopping, outside, alive, absent>>

\* is_running was cleared: the thread ends.
Exit ==
  /\ wk_pc = "top" /\ ~is_running /\ wk_pc' = "done"
  /\ UNCHANGED <<is_running, rig_disconnected, handle, clients, pfds, revents,
                 fds_to_remove, fd_added, stopping, outside, alive, absent>>

Worker ==
  \/ Start \/ Top \/ Poll \/ ServeError \/ Read \/ Write \/ Sweep
  \/ Exit \/ \E c \in Conns : Accept(c) \/ \E junk \in Junk : Interpret(junk)

-----------------------------------------------------------------------------
(* Around the worker: clients, the rig and its cable, stop().               *)

\* One of the disturbances that are bounded together.
Fault == faults < MaxFaults /\ faults' = faults + 1

\* A step of one connection's client.
Client(c, k) ==
  /\ conn' = [conn EXCEPT ![c] = k]
  /\ UNCHANGED <<worker, stopping, rig, present, faults, alive, absent>>

Connect(c) ==
  /\ conn[c].stage = "none" /\ (c > 1 => conn[c - 1].stage # "none")
  /\ Client(c, [conn[c] EXCEPT !.stage = "queued"])

\* What is sent before the connection is accepted is read no earlier than what
\* is sent right after.
CanSend(c) == conn[c].stage = "open" /\ ~conn[c].fin /\ ~conn[c].rst

\* A client sends a line.
Send(c, cmd) ==
  /\ CanSend(c) /\ MapThenSumSet(LAMBDA d : conn[d].sent, Conns) < MaxSends
  /\ Client(c, [conn[c] EXCEPT !.sending = @ \o <<cmd, NL>>, !.sent = @ + 1])

Finish(c) == CanSend(c) /\ Client(c, [conn[c] EXCEPT !.fin = TRUE])

Reset(c) ==
  /\ MayReset /\ conn[c].stage = "open" /\ ~conn[c].rst /\ Fault
  /\ conn' = [conn EXCEPT ![c].rst = TRUE, ![c].sending = <<>>]
  /\ UNCHANGED <<worker, stopping, rig, present, alive, absent>>

\* The client reads the replies that have reached it.
Drain(c) ==
  conn[c].stage = "open" /\ conn[c].unread > 0 /\ Client(c, [conn[c] EXCEPT !.unread = 0])

\* A descriptor opened before the device was unplugged stays dead.
Unplug ==
  /\ present /\ Fault /\ present' = FALSE /\ absent' = TRUE
  /\ handle' = IF handle = "open" THEN "stale" ELSE handle
  /\ UNCHANGED <<wk_pc, is_running, rig_disconnected, clients, pfds, revents,
                 fds_to_remove, fd_added, stopping, conn, rig, alive>>

Plug ==
  /\ ~present /\ present' = TRUE
  /\ UNCHANGED <<worker, stopping, conn, rig, faults, alive, absent>>

\* Switched to standby at the front panel.
Sleep ==
  /\ ~rig.asleep /\ Fault /\ rig' = [rig EXCEPT !.asleep = TRUE]
  /\ UNCHANGED <<worker, stopping, conn, present, alive, absent>>

\* stop() clears the flag and joins the worker.
Stop ==
  /\ MayStop /\ stopping = "no" /\ (StopEarly \/ wk_pc # "init")
  /\ Fault /\ is_running' = FALSE /\ stopping' = "joining"
  /\ UNCHANGED <<wk_pc, rig_disconnected, handle, clients, pfds, revents,
                 fds_to_remove, fd_added, conn, rig, present, alive, absent>>

Joined ==
  /\ stopping = "joining" /\ wk_pc = "done" /\ stopping' = "joined"
  /\ UNCHANGED <<worker, outside, alive, absent>>

Environment ==
  \/ Unplug \/ Plug \/ Sleep \/ Stop \/ Joined
  \/ \E c \in Conns : \/ Connect(c) \/ Finish(c) \/ Reset(c) \/ Drain(c)
                      \/ \E cmd \in Commands : Send(c, cmd)

\* Nothing is told apart any more once the server has stopped.
Next == alive /\ stopping # "joined" /\ (Worker \/ Environment)

\* The worker and the caller of stop() run; clients read what they are sent.
Spec ==
  /\ Init /\ [][Next]_vars
  /\ WF_vars(alive /\ Worker) /\ WF_vars(alive /\ Joined)
  /\ \A c \in Conns : WF_vars(alive /\ Drain(c))

\* How the worker looks to the main thread.
Worker_as_Service == INSTANCE Service WITH
  thread <- CASE ~alive \/ wk_pc = "done" -> "ended"
              [] wk_pc = "init" -> "starting" [] OTHER -> "running",
  flag <- alive /\ is_running

-----------------------------------------------------------------------------
(* Properties.                                                              *)

\* The variables have their types, and what is marked for removal while clients
\* are served is a client (fds_to_remove is local to one turn of work's loop).
TypeOK ==
  /\ wk_pc \in {"init", "top", "poll", "accept", "serve", "lines", "write", "done"}
  /\ handle \in {"none", "open", "stale"} /\ stopping \in {"no", "joining", "joined"}
  /\ is_running \in BOOLEAN /\ rig_disconnected \in BOOLEAN
  /\ DOMAIN clients \subseteq 1 .. NConns
  /\ wk_pc \in {"serve", "lines", "write"} => fds_to_remove \subseteq DOMAIN clients
  /\ \A c \in Conns : conn[c].unread \in 0 .. Window

\* A connection is open exactly while one client record holds its descriptor: no
\* close is forgotten, none is done twice, and no two clients share one.
DescriptorsOwned ==
  \A c \in Conns :
    Cardinality({fd \in DOMAIN clients : clients[fd].conn = c})
      = IF conn[c].stage = "open" THEN 1 ELSE 0

\* The descriptors, the map of clients and the array given to poll() agree: no
\* descriptor leaks or is closed twice, the array has one entry per client, in
\* the order of the map, asked for writing exactly while replies wait (work,
\* update_poll_descriptors and update_poll_flags), and every lookup
\* clients[pfds[i].fd] finds a client, so no reply waits unpolled.
ClientTablesAgree ==
  /\ DescriptorsOwned
  /\ wk_pc = "poll" => pfds = update_poll_descriptors(clients)
  /\ \A i \in 1 .. Len(revents) : revents[i].fd \in DOMAIN clients

\* What a client was sent and what still waits for it are the replies to its own
\* lines, in the order of the lines, none twice and none lost while it is
\* connected (send_response_to_client, write_from_client, the flush of "q").
RepliesInOrder ==
  /\ \A fd \in DOMAIN clients :
       LET k == conn[clients[fd].conn]
       IN  k.got \o clients[fd].write_buffer = k.answers
  /\ \A c \in Conns : IsPrefix(conn[c].got, conn[c].answers)

\* A client that ended its stream or quit, and never let its window fill, had
\* every line answered before the server closed it (the write after the read in
\* work, the flush of "q"); lines read while the rig was gone are excepted.
AnsweredBeforeClose ==
  \A c \in Conns :
    LET k == conn[c]
    IN  (k.stage = "closed" /\ k.ended \in {"eof", "quit"} /\ ~k.full /\ ~k.rst) =>
          /\ k.got = k.answers
          /\ (k.ended = "eof" /\ ~k.deferred) => k.done = k.sent

\* A line is interpreted only with a rig that was opened: interpret_command and
\* dump_state dereference it without a test.
NeverWithoutRig == wk_pc = "lines" => handle # "none"

\* Clients lose their connection for the rig only if its device was gone at some
\* moment since it was opened, never because the rig is in standby
\* (on_rig_disconnect).
StandbyKeepsClients ==
  [][\A c \in Conns : (conn'[c].ended = "rig" /\ conn[c].ended # "rig") => absent]_vars

\* A line that was sent on a connection is interpreted, unless the connection
\* ends, the line was read while the rig was gone, or the server is stopped.
Answered ==
  \A c \in Conns :
    conn[c].done < conn[c].sent ~>
      \/ conn[c].done = conn[c].sent
      \/ conn[c].stage = "closed" \/ conn[c].deferred \/ ~alive \/ stopping # "no"

\* The server is a Service: its worker ends only after stop() cleared the flag
\* (or with the process), and does so whatever the clients and the rig do.
ImplementsService == Worker_as_Service!Spec
=============================================================================
