------------------------------ MODULE AudioStream ------------------------------
(***************************************************************************)
(* The audio stream server (audio_stream_server.cpp): one worker thread     *)
(* reads frames from a capture device, which may go away and come back,     *)
(* keeps the set of subscribers, who subscribe and refresh by sending any   *)
(* datagram and are dropped when they fall silent, and sends each encoded    *)
(* frame to all of them.  What is in a packet, its number included, is left  *)
(* out: nothing the server does depends on it.                              *)
(*                                                                         *)
(* The clock is the 32-bit millisecond counter of timer.h, taken modulo a   *)
(* small number: every difference the code takes is taken across the wrap.  *)
(***************************************************************************)
EXTENDS Integers, FiniteSets, Functions, TLC

CONSTANTS
  Listeners,   \* who may subscribe
  U32,         \* the modulus of the millisecond clock
  Timeout,     \* config.client_timeout_ms
  Period,      \* a subscriber's datagrams arrive at least this often
  MaxGap,      \* two sweeps over the subscribers are at most this far apart
  MaxUnplugs,  \* bound on how often the device goes away
  DevInit,     \* whether the device may be there at the start
  Faulty       \* whether every read of the device fails

\* A subscriber that keeps to its period cannot look silent, and the clock does
\* not wrap within a timeout.
ASSUME AudioTiming ==
  /\ U32 \in Nat /\ Timeout \in Nat /\ Period \in Nat /\ MaxGap \in Nat
  /\ Period + MaxGap < Timeout /\ Timeout + MaxGap < U32
ASSUME AudioDevice == MaxUnplugs \in Nat /\ DevInit \subseteq BOOLEAN /\ Faulty \in BOOLEAN

VARIABLES
  clock,                        \* clock.ellapsed_ms()
  gap,                          \* time since the last sweep
  au_pc, au_running, pcm, clients,
  pending,                      \* senders of datagrams in the socket's queue
  present, unplugs,             \* the capture device
  mode, age,                    \* each listener: in or out; since its last send
  late                          \* history: it has left since it was registered

worker    == <<au_pc, au_running, pcm, clients, gap>>
listeners == <<mode, age>>
cable     == <<present, unplugs>>
audioVars == <<worker, clock, pending, cable, listeners, late>>

AudioInit ==
  /\ clock = U32 - 1 /\ gap = 0
  /\ au_pc = "none" /\ au_running = FALSE /\ pcm = "none"
  /\ clients = <<>> /\ pending = {}
  /\ present \in DevInit /\ unplugs = 0
  /\ mode = [l \in Listeners |-> "out"] /\ age = [l \in Listeners |-> 0]
  /\ late = [l \in Listeners |-> FALSE]

-----------------------------------------------------------------------------
(* The constructor, stop() and the destructor, called by the main thread.   *)

\* The encoder and the socket are made; the flag is set before the thread runs.
AudioStart ==
  /\ au_pc = "none" /\ au_pc' = "top" /\ au_running' = TRUE
  /\ UNCHANGED <<pcm, clients, gap, clock, pending, cable, listeners, late>>

\* stop() up to its join.
AudioStop ==
  /\ au_running' = FALSE
  /\ UNCHANGED <<au_pc, pcm, clients, gap, clock, pending, cable,
                 listeners, late>>

\* The destructor: stop() returns at once, the device and the socket are closed
\* and what the object held is gone.
AudioDelete ==
  /\ pcm' = "none" /\ clients' = <<>> /\ pending' = {}
  /\ UNCHANGED <<au_pc, au_running, gap, clock, cable, listeners, late>>

-----------------------------------------------------------------------------
(* work().                                                                  *)

\* Mutant: without a device the thread sleeps and polls nobody.
OpenOrSleep ==
  /\ pcm' = IF pcm = "none" /\ present THEN "ready" ELSE pcm
  /\ au_pc' = IF pcm' = "none" THEN "top" ELSE "read"

\* open_capture when no device is open; it fails without one, and then the
\* subscribers are polled all the same.
OpenCapture ==
  /\ pcm' = IF pcm = "none" /\ present THEN "ready" ELSE pcm
  /\ au_pc' = IF pcm' = "none" THEN "drain" ELSE "read"

Top ==
  /\ au_pc = "top" /\ au_running /\ OpenCapture
  /\ UNCHANGED <<au_running, clients, gap, clock, pending, cable,
                 listeners, late>>

\* A frame is read.  A device just opened or prepared has not overrun.
FrameRead == pcm \in {"ready", "running"} /\ ~Faulty /\ pcm' = "running" /\ au_pc' = "drain"

\* -EPIPE: the device is prepared again.
Overrun == pcm = "running" /\ pcm' = "ready" /\ au_pc' = "top"

\* Mutant: the handle of a device that fails is kept.
ReadFailedKept == (pcm = "dead" \/ Faulty) /\ UNCHANGED pcm /\ au_pc' = "top"

\* Any other error closes the device, to be opened again.
ReadFailed == (pcm = "dead" \/ Faulty) /\ pcm' = "none" /\ au_pc' = "top"

\* snd_pcm_readi.
ReadFrame ==
  /\ au_pc = "read" /\ (FrameRead \/ Overrun \/ ReadFailed)
  /\ UNCHANGED <<au_running, clients, gap, clock, pending, cable,
                 listeners, late>>

\* One datagram: its sender is registered or refreshed.
Drain(l) ==
  /\ au_pc = "drain" /\ l \in pending
  /\ pending' = pending \ {l}
  /\ clients' = [m \in DOMAIN clients \cup {l} |-> IF m = l THEN clock ELSE clients[m]]
  /\ late' = [late EXCEPT ![l] = IF l \in DOMAIN clients THEN @ ELSE mode[l] = "out"]
  /\ UNCHANGED <<au_pc, au_running, pcm, gap, clock, cable, listeners>>

Drained ==
  /\ au_pc = "drain" /\ pending = {} /\ au_pc' = "sweep"
  /\ UNCHANGED <<au_running, pcm, clients, gap, clock, pending, cable,
                 listeners, late>>

\* Mutants: the deadline is computed, and compared across the wrap; the
\* difference is taken the wrong way round; silence is one millisecond longer.
PastDeadline(l) == clock >= clients[l] + Timeout
SilentReversed(l) == (clients[l] - clock) % U32 >= Timeout
SilentPast(l) == (clock - clients[l]) % U32 > Timeout

\* The subscriber has been silent past the timeout.
IsSilent(l) == (clock - clients[l]) % U32 >= Timeout

\* The silent ones are erased, with a clock read after the last datagram; then
\* the frame, if there is one, is encoded and sent to whoever is left, or the
\* thread sleeps.
Sweep ==
  /\ au_pc = "sweep" /\ au_pc' = "top" /\ gap' = 0
  /\ clients' = Restrict(clients, {l \in DOMAIN clients : ~IsSilent(l)})
  /\ UNCHANGED <<au_running, pcm, clock, pending, cable, listeners, late>>

\* Mutant: the flag is looked at only while capturing.
ExitCapturing ==
  /\ au_pc = "top" /\ ~au_running /\ pcm # "none" /\ au_pc' = "done"
  /\ UNCHANGED <<au_running, pcm, clients, gap, clock, pending, cable,
                 listeners, late>>

\* is_running was cleared.
Exit ==
  /\ au_pc = "top" /\ ~au_running /\ au_pc' = "done"
  /\ UNCHANGED <<au_running, pcm, clients, gap, clock, pending, cable,
                 listeners, late>>

AudioWorker ==
  \/ Top \/ ReadFrame \/ Drained \/ Sweep \/ Exit
  \/ \E l \in Listeners : Drain(l)

-----------------------------------------------------------------------------
(* The listeners, the device and the clock.                                 *)

Alive == au_pc \notin {"none", "done"}

\* A datagram reaches the socket: the first of a listener that comes (back), or
\* the next of one that stays.  Datagrams that arrive without a pause would hold
\* the worker in its drain for ever.
Datagram(l) ==
  /\ Alive /\ age[l] > 0
  /\ mode' = [mode EXCEPT ![l] = "in"] /\ age' = [age EXCEPT ![l] = 0]
  /\ pending' = pending \cup {l}
  /\ UNCHANGED <<worker, clock, cable, late>>

\* A listener stops sending, or its datagrams no longer arrive.
Leave(l) ==
  /\ Alive /\ mode[l] = "in"
  /\ mode' = [mode EXCEPT ![l] = "out"] /\ UNCHANGED age
  /\ late' = [late EXCEPT ![l] = TRUE]
  /\ UNCHANGED <<worker, clock, pending, cable>>

UnplugDevice ==
  /\ Alive /\ present /\ unplugs < MaxUnplugs
  /\ present' = FALSE /\ unplugs' = unplugs + 1
  /\ pcm' = IF pcm = "none" THEN pcm ELSE "dead"
  /\ UNCHANGED <<au_pc, au_running, clients, gap, clock, pending,
                 listeners, late>>

PlugDevice ==
  /\ Alive /\ ~present /\ present' = TRUE
  /\ UNCHANGED <<worker, clock, pending, unplugs, listeners, late>>

\* Time passes: the worker comes to its next sweep within MaxGap, and a
\* subscriber's datagrams keep to the period.
Tick ==
  /\ Alive /\ (gap < MaxGap \/ Faulty)
  /\ \A l \in Listeners : mode[l] = "in" => age[l] < Period
  /\ clock' = (clock + 1) % U32
  /\ gap' = IF gap < MaxGap THEN gap + 1 ELSE gap
  /\ age' = [l \in Listeners |-> IF age[l] < Period THEN age[l] + 1 ELSE age[l]]
  /\ UNCHANGED <<au_pc, au_running, pcm, clients, pending, cable, mode, late>>

AudioWorld ==
  \/ UnplugDevice \/ PlugDevice \/ Tick
  \/ \E l \in Listeners : Datagram(l) \/ Leave(l)

-----------------------------------------------------------------------------
(* Properties.                                                              *)

AudioTypeOK ==
  /\ clock \in 0 .. U32 - 1 /\ gap \in 0 .. MaxGap
  /\ au_pc \in {"none", "top", "read", "drain", "sweep", "done"}
  /\ pcm \in {"none", "ready", "running", "dead"} /\ au_running \in BOOLEAN
  /\ DOMAIN clients \subseteq Listeners
  /\ \A l \in DOMAIN clients : clients[l] \in 0 .. U32 - 1
  /\ pending \subseteq Listeners
  /\ present \in BOOLEAN /\ unplugs \in 0 .. MaxUnplugs
  /\ mode \in [Listeners -> {"in", "out"}] /\ age \in [Listeners -> 0 .. Period]
  /\ late \in [Listeners -> BOOLEAN]

\* A subscriber whose datagrams keep arriving is not dropped, wherever the clock
\* wraps, whether or not there is a device, and however its datagram falls
\* between the drain and the sweep of poll_clients.
KeepaliveSuffices ==
  [][\A l \in DOMAIN clients : l \notin DOMAIN clients' => late[l] \/ au_pc = "done"]_audioVars

\* No subscriber is kept longer than the timeout and one pass of the worker after
\* its last datagram was read, with a device or without one.  The age of an entry
\* so stays away from the wrap of the clock, beyond which the unsigned difference
\* of poll_clients would take a long silence for a short one.
SilenceBounded ==
  \A l \in DOMAIN clients : (clock - clients[l]) % U32 < Timeout + MaxGap

\* A listener that stays silent is dropped.
SilentDropped ==
  \A l \in Listeners :
    mode[l] = "out" ~> (mode[l] = "in" \/ l \notin DOMAIN clients \/ ~au_running)

\* Who keeps sending is subscribed, with or without a device, even if the first
\* datagram after a silence arrived just before the sweep that dropped it.
Subscribed ==
  \A l \in Listeners :
    (mode[l] = "in" /\ au_running)
      ~> (l \in DOMAIN clients \/ mode[l] = "out" \/ ~au_running)

\* A device that is there is captured from, however often it went away.
DeviceReopened ==
  (present /\ au_running)
    ~> (pcm \in {"ready", "running"} \/ ~present \/ ~au_running)
==============================================================================
