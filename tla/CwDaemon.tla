------------------------------- MODULE CwDaemon -------------------------------
(***************************************************************************)
(* The cwdaemon server of cwsd (cwdaemon_server.cpp).  The client thread   *)
(* receives datagrams, translates them (CwText) and feeds the keyer one    *)
(* byte at a time, taking the keyer's mutex for each; it also times the    *)
(* tune command.  The keyer thread ticks the keyer (Keyer) every           *)
(* millisecond and looks after the serial port.  stop() joins both.        *)
(***************************************************************************)
EXTENDS Keyer, CwText

CONSTANTS
  Conversations, \* what the clients may send: messages of a set, a bounded number
  InitialSpeed,  \* cfg.cwdaemon.initial_wpm
  RecvTimeout,   \* the 10 ms receive timeout of the socket
  TuneUnit,      \* the 1000 ms of one second of tuning
  CheckEvery,    \* the 100 ticks between two looks at the serial port
  KeyerLag,      \* the keyer thread, at real-time priority, runs this late
  ClientLag,     \* the client thread takes its next step within this time
  MaxTime,       \* bound on the clock while nothing is being sent
  MaxClock,      \* bound on the clock, beyond what all the work takes
  MaxPlugEvents, \* bound on how often the port is unplugged and plugged
  MayStop        \* whether stop() is called

\* The configuration is unsigned, and a number that an escape command carries is an
\* int (std::stoi).
ASSUME DaemonAssumption ==
  /\ InitialSpeed \in Byte /\ MayStop \in BOOLEAN
  /\ RecvTimeout \in Nat /\ TuneUnit \in Nat /\ CheckEvery \in Nat /\ KeyerLag \in Nat
  /\ ClientLag \in Nat /\ MaxTime \in Nat /\ MaxClock \in Nat /\ MaxPlugEvents \in Nat
ASSUME MessageAssumption ==
  \A talk \in Conversations :
    /\ talk = [of |-> talk.of, number |-> talk.number] /\ talk.number \in Nat
    /\ \A msg \in talk.of : IF msg.kind = "text" THEN msg.chars \in Seq(Byte)
                                                 ELSE msg.arg \in Int

VARIABLES
  is_running,
  cl_pc, cl_data, cl_by,     \* client thread: bytes to feed; next step due by
  is_tuning, tune_end_time,
  kt_done, iface_check_divider,   \* keyer thread: ended; ticks since a look
  plugged, plug_events, to_come,
  accepted, tune_due         \* history: elements of all text; end of tuning

client == <<cl_pc, cl_data, cl_by>>
tuning == <<is_tuning, tune_end_time, tune_due>>
port   == <<iface_check_divider, plugged, plug_events>>
vars   == <<keyerVars, is_running, client, tuning, kt_done, port, to_come,
            accepted>>

Init ==
  /\ KeyerInit(InitialSpeed)
  /\ is_running = TRUE
  /\ cl_pc = "recv" /\ cl_data = <<>> /\ cl_by = StartTime + RecvTimeout
  /\ is_tuning = FALSE /\ tune_end_time = 0 /\ tune_due = 0
  /\ kt_done = FALSE /\ iface_check_divider = 0
  /\ plugged = TRUE /\ plug_events = 0 /\ accepted = <<>>
  /\ to_come \in Conversations

-----------------------------------------------------------------------------
(* What the bytes of a message say: history of the text.                    *)

\* The elements of a byte, if it is text: a gap and a character without a
\* pattern have none.
ElementsOf(c) == IF c # Bar /\ c \in DOMAIN Pattern THEN Pattern[c] ELSE <<>>

\* One byte more: a parameter, a command, or text.
ReadByte(a, c) ==
  IF a.skip > 0 THEN [a EXCEPT !.skip = @ - 1]
  ELSE IF is_winkeyer_command(c)
    THEN [a EXCEPT !.skip = winkey_commands_parameter_count[c]]
  ELSE [a EXCEPT !.out = @ \o ElementsOf(c)]

\* The elements of the text in a sequence of bytes.
TextOf(bytes) ==
  LET read[i \in 0 .. Len(bytes)] ==
        IF i = 0 THEN [out |-> <<>>, skip |-> 0]
                 ELSE ReadByte(read[i - 1], bytes[i])
  IN  read[Len(bytes)].out

-----------------------------------------------------------------------------
(* client_worker.                                                           *)

\* The client thread goes to pc, to take its next step within ClientLag or,
\* from recvfrom, at the latest when that times out.
ClientTo(pc) ==
  /\ cl_pc' = pc
  /\ cl_by' = clock + (IF pc = "recv" THEN RecvTimeout ELSE ClientLag)

\* A datagram: the exit command ends the thread, an abort while tuning only ends
\* the tuning, everything else is translated at the current speed and fed.
Receive(msg) ==
  /\ cl_pc = "recv" /\ is_running /\ mtx = "free"   \* get_speed() locks
  /\ to_come.number > 0 /\ to_come' = [to_come EXCEPT !.number = @ - 1]
  /\ LET bytes == to_winkeyer(msg, profile_speed)
         tune  == is_tuning_command(bytes)
     IN  \/ /\ msg.kind = "exit"
            /\ ClientTo("done") /\ UNCHANGED <<cl_data, tuning, accepted>>
         \/ /\ msg.kind = "abort" /\ is_tuning
            /\ ClientTo("untune") /\ cl_data' = <<11, 0>>
            /\ UNCHANGED <<tuning, accepted>>
         \/ /\ msg.kind # "exit" /\ ~(msg.kind = "abort" /\ is_tuning)
            /\ ClientTo("feed")
            /\ cl_data' = IF tune THEN <<11, 1>> ELSE bytes
            /\ is_tuning' = (is_tuning \/ tune)
            /\ tune_end_time' = IF tune THEN (ms + TuneUnit * bytes[3]) % U32
                                        ELSE tune_end_time
            /\ tune_due' = IF tune THEN clock + TuneUnit * bytes[3] ELSE tune_due
            /\ accepted' = accepted \o TextOf(cl_data')
  /\ UNCHANGED <<keyerVars, is_running, kt_done, port>>

\* One byte of the translated message; history forgets what a clear removes.
Feed ==
  /\ cl_pc = "feed" /\ cl_data # <<>>
  /\ winkeyer_data(Head(cl_data))
  /\ cl_data' = Tail(cl_data) /\ ClientTo("feed")
  /\ accepted' = IF buffer' = <<>> /\ buffer # <<>> THEN sent \o playing
                                                    ELSE accepted
  /\ UNCHANGED <<is_running, tuning, kt_done, port, to_come>>

\* Mutant: the tuning is looked at only after a message.
CheckAfterMessage ==
  /\ \/ cl_pc = "feed" /\ cl_data = <<>>
     \/ cl_pc = "recv" /\ is_running /\ clock >= cl_by
  /\ IF cl_pc = "feed" /\ is_tuning /\ ms > tune_end_time
       THEN ClientTo("untune") /\ cl_data' = <<11, 0>>
       ELSE ClientTo("recv") /\ cl_data' = <<>>
  /\ UNCHANGED <<keyerVars, is_running, tuning, kt_done, port, to_come, accepted>>

\* The message is fed, or recvfrom timed out: is the tuning over?
Check ==
  /\ \/ cl_pc = "feed" /\ cl_data = <<>>
     \/ cl_pc = "recv" /\ is_running /\ clock >= cl_by
  /\ IF is_tuning /\ ms > tune_end_time
       THEN ClientTo("untune") /\ cl_data' = <<11, 0>>
       ELSE ClientTo("recv") /\ cl_data' = <<>>
  /\ UNCHANGED <<keyerVars, is_running, tuning, kt_done, port, to_come, accepted>>

\* The two bytes of an immediate key-up, then is_tuning = false.
Untune ==
  /\ cl_pc = "untune"
  /\ \/ /\ cl_data # <<>>
        /\ winkeyer_data(Head(cl_data))
        /\ cl_data' = Tail(cl_data) /\ ClientTo("untune")
        /\ UNCHANGED is_tuning
     \/ /\ cl_data = <<>> /\ is_tuning' = FALSE
        /\ ClientTo("recv") /\ UNCHANGED <<keyerVars, cl_data>>
  /\ UNCHANGED <<tune_end_time, tune_due, is_running, kt_done, port, to_come,
                 accepted>>

\* Mutant: a tune is waited for, by a thread that no longer looks at it.
ClientExitUntuned ==
  /\ cl_pc = "recv" /\ ~is_running /\ ~is_tuning
  /\ ClientTo("done")
  /\ UNCHANGED <<keyerVars, is_running, cl_data, tuning, kt_done, port,
                 to_come, accepted>>

\* The loop condition, read after recvfrom has returned.
ClientExit ==
  /\ cl_pc = "recv" /\ ~is_running
  /\ ClientTo("done")
  /\ UNCHANGED <<keyerVars, is_running, cl_data, tuning, kt_done, port,
                 to_come, accepted>>

-----------------------------------------------------------------------------
(* keyer_worker, the port, stop() and the clock.                            *)

\* One turn of update(), which begins only while the server runs; a tick that
\* ends counts towards the next look at the port.
KeyerTick ==
  /\ ~kt_done /\ iface_check_divider < CheckEvery
  /\ mtx = "keyer" \/ is_running
  /\ update
  /\ iface_check_divider' = IF mtx' = "free" THEN iface_check_divider + 1
                                             ELSE iface_check_divider
  /\ UNCHANGED <<is_running, client, tuning, kt_done, plugged, plug_events,
                 to_come, accepted>>

\* Mutant: the port is not opened again.
PortUpdateOnce == iface_check_divider' = 0 /\ UNCHANGED <<connected, dtr>>

\* Mutant: the key line is left as opening a tty sets it.
PortUpdateRaised ==
  /\ iface_check_divider' = 0
  /\ IF connected THEN UNCHANGED <<connected, dtr>>
                  ELSE connected' = plugged /\ dtr' = plugged

\* key_interface::update(): a port that is gone is opened again, key up.
PortUpdate ==
  /\ iface_check_divider' = 0
  /\ IF connected THEN UNCHANGED <<connected, dtr>>
                  ELSE connected' = plugged /\ dtr' = FALSE

PortCheck ==
  /\ ~kt_done /\ mtx = "free" /\ iface_check_divider >= CheckEvery
  /\ PortUpdate
  /\ UNCHANGED <<clock, thread, sending, buffer, protocol, speeds, history,
                 is_running, client, tuning, kt_done, plugged, plug_events,
                 to_come, accepted>>

KeyerExit ==
  /\ ~kt_done /\ mtx = "free" /\ iface_check_divider < CheckEvery /\ ~is_running
  /\ kt_done' = TRUE
  /\ UNCHANGED <<keyerVars, is_running, client, tuning, port, to_come, accepted>>

Stop ==
  /\ MayStop /\ is_running
  /\ is_running' = FALSE
  /\ UNCHANGED <<keyerVars, client, tuning, kt_done, port, to_come, accepted>>

\* The device goes, and with it the key line; it comes back.
Unplug ==
  /\ plugged /\ plug_events < MaxPlugEvents /\ plug_events' = plug_events + 1
  /\ plugged' = FALSE /\ connected' = FALSE /\ dtr' = FALSE
  /\ UNCHANGED <<clock, thread, sending, buffer, protocol, speeds, history,
                 is_running, client, tuning, kt_done, iface_check_divider,
                 to_come,
                 accepted>>

Plug ==
  /\ ~plugged /\ plug_events < MaxPlugEvents /\ plug_events' = plug_events + 1
  /\ plugged' = TRUE
  /\ UNCHANGED <<keyerVars, is_running, client, tuning, kt_done, iface_check_divider,
                 to_come, accepted>>

\* Nothing is being sent, fed or tuned, and the port needs no opening.
Quiet ==
  /\ buffer = <<>> /\ playing = <<>> /\ state \in {"idle", "winkeyer"}
  /\ cl_data = <<>> /\ ~is_tuning /\ connected = plugged

\* Time passes while the threads keep up, up to MaxTime when nothing happens.
Tick ==
  /\ kt_done \/ clock < wake + KeyerLag
  /\ cl_pc = "done" \/ clock < cl_by
  /\ clock < MaxTime \/ (~Quiet /\ ~kt_done /\ clock < MaxClock)
  /\ clock' = clock + 1
  /\ UNCHANGED <<thread, sending, buffer, protocol, speeds, connected, dtr,
                 history, is_running, client, tuning, kt_done, port, to_come,
                 accepted>>

ClientStep == Feed \/ Check \/ Untune \/ ClientExit
KeyerStep == KeyerTick \/ PortCheck \/ KeyerExit

Next ==
  \/ \E msg \in to_come.of : Receive(msg)
  \/ ClientStep \/ KeyerStep
  \/ Stop \/ Unplug \/ Plug \/ Tick

\* Both threads are scheduled and the clock advances.
Fairness == WF_vars(ClientStep) /\ WF_vars(KeyerStep) /\ WF_vars(Tick)

Spec == Init /\ [][Next]_vars /\ Fairness

-----------------------------------------------------------------------------
(* Properties.                                                              *)

\* Every variable keeps its type; the buffer never outgrows its capacity, and
\* the mutex is held across turns of one update() only.
TypeOK ==
  /\ clock \in Nat /\ mtx \in {"free", "keyer"} /\ drained \in 0 .. MaxTransitions
  /\ wake \in Nat /\ state \in Timed \cup {"idle", "winkeyer"} /\ deadline \in Nat
  /\ winkeyer_enabled \in BOOLEAN /\ playing \in Seq(Element)
  /\ inter_char_space_played \in BOOLEAN
  /\ sent_element \in Element \cup {"none"} /\ last_send_time \in Nat
  /\ buffer \in Seq(Byte) /\ Len(buffer) <= BufSize
  /\ pending \in Byte /\ waiting \in 0 .. 15 /\ argument \in Byte
  /\ remaining_args \in 0 .. 2
  /\ winkeyer_speed \in Byte /\ profile_speed \in Byte /\ weighting \in Byte
  /\ connected \in BOOLEAN /\ dtr \in BOOLEAN
  /\ entered \in Nat /\ nominal \in Nat /\ up_at \in Nat /\ spaces \in Nat
  /\ sent \in Seq(Element)
  /\ is_running \in BOOLEAN /\ cl_pc \in {"recv", "feed", "untune", "done"}
  /\ cl_data \in Seq(Byte) /\ cl_by \in Nat
  /\ is_tuning \in BOOLEAN /\ tune_end_time \in Nat /\ tune_due \in Nat
  /\ kt_done \in BOOLEAN /\ iface_check_divider \in Nat
  /\ plugged \in BOOLEAN /\ plug_events \in Nat /\ to_come.number \in Nat
  /\ accepted \in Seq(Element)

\* The key is down only for an element or for a tune, whichever thread moved it
\* last: the client thread's immediate key-up and key-down never leave it down
\* behind the keyer's back.
KeyDownAccounted == dtr => state = "send_element" \/ is_tuning

\* The text of every message is keyed completely and in order, across the bytes
\* still to be fed, the buffer and the character being sent: no parameter of a
\* command that was cut between two ticks is ever taken for text, and an abort
\* drops exactly what was not begun.
TextInOrder ==
  accepted = sent \o playing
               \o TextOf(buffer \o (IF waiting > 0 THEN <<>> ELSE cl_data))

\* "keeps element lengths close to their nominal duration": an element is never
\* shorter than its length, and longer by at most the thread's lag.
ElementOnTime ==
  [][state = "send_element" /\ state' # state
       => clock - entered \in nominal .. nominal + KeyerLag]_vars

\* The spaces of the code: an element space within a character, three dits
\* between characters, six for each space character (at an unchanged speed).
SpacingKept ==
  [][state # "send_element" /\ state' = "send_element" /\ sent # <<>>
       => clock - up_at >=
            IF spaces > 0 THEN 6 * dit_ms * spaces
            ELSE IF playing = <<>> THEN 3 * dit_ms
            ELSE inter_element_space_length_ms]_vars

\* "the cap guards against any unexpected routing cycle": update() ends because
\* a state asks to stay, never because of the cap.
DrainCapUnused == [][mtx = "keyer" /\ mtx' = "free" => state' = state]_vars

\* The bytes of the longest message.
LongestFeed ==
  LET lengths == {Len(to_winkeyer(m, InitialSpeed)) : m \in to_come.of}
  IN  CHOOSE n \in lengths : \A k \in lengths : k <= n

\* A tune ends on time: within one receive timeout and the feeding of the one
\* message that may come first.
TuneBounded ==
  dtr /\ state # "send_element"
    => clock <= tune_due + 1 + RecvTimeout + ClientLag * (LongestFeed + 4)

\* Everything buffered is sent, or cleared, while the server runs.
BufferDrains == buffer # <<>> ~> (buffer = <<>> \/ ~is_running)

\* A port that is back is driven again: the check is not misled by the stale
\* descriptor.
PortReopened == plugged ~> (connected \/ ~plugged \/ ~is_running)

\* stop() ends both threads wherever they are.
StopJoins == ~is_running ~> (kt_done /\ cl_pc = "done")
=============================================================================
