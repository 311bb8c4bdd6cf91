------------------------------ MODULE RemoteKey ------------------------------
(***************************************************************************)
(* The remote keying server of cwsd (remote_key_server.cpp): it receives   *)
(* an operator's key edges over UDP, holds them in a jitter buffer, and    *)
(* replays them on the DTR (key) and RTS (PTT) lines of a serial device.   *)
(*                                                                         *)
(* Two threads share the jitter buffer under one mutex and three atomics   *)
(* outside it.  Each thread is modelled with a program counter, one action *)
(* per stretch of code between two accesses to shared state.  A third      *)
(* actor stops the server, a fourth plugs and unplugs the device, and Tick *)
(* advances the monotonic clock both threads read.                         *)
(*                                                                         *)
(* Datagrams are modelled after decoding (RemoteKeyProtocol models the     *)
(* wire format); a malformed datagram and a receive timeout leave every    *)
(* variable unchanged.                                                     *)
(***************************************************************************)
EXTENDS Integers, Sequences

CONSTANTS
  Packets,       \* the decoded packets the network may deliver
  Playout,       \* cfg.playout_ms
  Silence,       \* cfg.silence_ms
  MaxKeyDown,    \* cfg.max_key_down_ms
  PttLead,       \* cfg.ptt_lead_ms
  PttTail,       \* cfg.ptt_tail_ms
  WatchdogTick,  \* the 5 ms cap on one sleep of the replay thread
  RetryGap,      \* the 100 ms between two attempts to open the device
  U64,           \* the modulus of uint64_t arithmetic
  MaxLag,        \* the replay thread wakes, and ends an iteration, this late
  RxLag,         \* the receive thread handles a packet within this time
  MaxTime,       \* bound on the clock while the server runs
  DevInit,       \* whether the device may be present/absent at the start
  MaxPlugEvents  \* bound on how often the device is plugged or unplugged

Edge == [ts_us : Nat, down : BOOLEAN]
Packet == [session_id : Nat, reset : BOOLEAN, edges : Seq(Edge)]
scheduled_edge == [at_us : Nat, down : BOOLEAN]

\* The configuration is a record of unsigned numbers and the two literals of
\* the replay loop are positive.
ASSUME ConfigAssumption ==
  /\ Playout \in Nat /\ Silence \in Nat /\ MaxKeyDown \in Nat
  /\ PttLead \in Nat /\ PttTail \in Nat
  /\ WatchdogTick \in Nat \ {0} /\ RetryGap \in Nat

\* Timing of the threads: the bounds are finite, and a thread that does not
\* sleep still takes time.
ASSUME LagAssumption ==
  MaxLag \in Nat \ {0} /\ RxLag \in Nat /\ MaxTime \in Nat

\* The receive thread is prompt on the scale of the silence watchdog and of the
\* jitter buffer (the defaults are 250 ms and 150 ms).
ASSUME PromptAssumption == RxLag <= Silence /\ RxLag < Playout

\* Packets are well formed (decode accepted them).
ASSUME PacketAssumption == Packets \subseteq Packet

\* The device is there or not at the start, and 64 bits hold every time reached.
ASSUME EnvAssumption ==
  /\ DevInit \subseteq BOOLEAN /\ MaxPlugEvents \in Nat
  /\ U64 \in Nat \ {0}

VARIABLES
  clock,            \* CLOCK_MONOTONIC
  is_running,
  last_rx_us,       \* atomic: time of the last datagram, 0 before the first
  reset_requested,  \* atomic
  mtx,              \* holder of the mutex: "free", "rx" or "replay"
  queue,            \* the jitter buffer
  have_anchor, anchor_src_us, anchor_local_us,
  last_enqueued_src, session_id, have_session,
  rx_pc, rx_now,                     \* the receive thread, and the packet
  rx_id, rx_reset, rx_edges,         \*   it handles: the edges still to do
  rp_pc, rp_now, rx_seen,            \* the replay thread
  key_is_down, key_down_since_us, ptt_is_on, ptt_release_at_us,
  last_iface_check, wake,
  plugged, fd, dtr, rts,             \* the device and its lines
  keyed_at, plugged_at,              \* history: when DTR rose, when plugged
  plug_events                        \* counts towards MaxPlugEvents

anchor  == <<have_anchor, anchor_src_us, anchor_local_us, last_enqueued_src>>
session == <<session_id, have_session>>
rxPkt   == <<rx_now, rx_id, rx_reset>>
rxVars  == <<rx_pc, rxPkt, rx_edges>>
rpFlags == <<key_is_down, key_down_since_us, ptt_is_on, ptt_release_at_us>>
rpVars  == <<rp_pc, rp_now, rx_seen, last_iface_check, wake>>
lines   == <<dtr, rts, keyed_at>>
plug    == <<plugged, plugged_at, plug_events>>
device  == <<plug, fd>>
vars == <<clock, is_running, last_rx_us, reset_requested, mtx, queue, anchor,
          session, rxVars, rpFlags, rpVars, lines, device>>

Lesser(a, b)  == IF a < b THEN a ELSE b
Greater(a, b) == IF a < b THEN b ELSE a

\* a - b of two uint64_t values: it wraps when b is the later time.
Sub64(a, b) == IF a >= b THEN a - b ELSE U64 + a - b

\* CLOCK_MONOTONIC counts from boot; the server starts after the first retry
\* gap has passed.
Init ==
  /\ clock = RetryGap + 1
  /\ is_running = TRUE /\ last_rx_us = 0 /\ reset_requested = FALSE
  /\ mtx = "free" /\ queue = <<>>
  /\ have_anchor = FALSE /\ anchor_src_us = 0 /\ anchor_local_us = 0
  /\ last_enqueued_src = 0 /\ session_id = 0 /\ have_session = FALSE
  /\ rx_pc = "recv" /\ rx_now = 0
  /\ rx_id = 0 /\ rx_reset = FALSE /\ rx_edges = <<>>
  /\ rp_pc = "start" /\ rp_now = RetryGap + 1 /\ rx_seen = 0
  /\ key_is_down = FALSE /\ key_down_since_us = 0
  /\ ptt_is_on = FALSE /\ ptt_release_at_us = 0
  /\ last_iface_check = 0 /\ wake = RetryGap + 1
  /\ plugged \in DevInit /\ plugged_at = RetryGap + 1 /\ plug_events = 0
  /\ fd = "none" /\ dtr = FALSE /\ rts = FALSE /\ keyed_at = 0

-----------------------------------------------------------------------------
(* The serial device.  An ioctl on a descriptor whose device has gone fails *)
(* and is not checked; without a descriptor it is skipped.                  *)

\* The key line after set_key(down), and when it rose.
set_key(down) ==
  /\ dtr' = IF fd = "open" THEN down ELSE dtr
  /\ keyed_at' = IF fd = "open" /\ down /\ ~dtr THEN clock ELSE keyed_at

set_ptt(on) == rts' = IF fd = "open" THEN on ELSE rts

force_safe == set_key(FALSE) /\ set_ptt(FALSE)

\* Mutant: the key line is left as opening a tty sets it.
open_port_raised ==
  /\ fd' = IF plugged THEN "open" ELSE "none"
  /\ dtr' = IF plugged THEN TRUE ELSE dtr
  /\ rts' = IF plugged THEN FALSE ELSE rts
  /\ keyed_at' = clock

\* Open the device if it is there; both lines start low.
open_port ==
  /\ fd' = IF plugged THEN "open" ELSE "none"
  /\ dtr' = IF plugged THEN FALSE ELSE dtr
  /\ rts' = IF plugged THEN FALSE ELSE rts
  /\ keyed_at' = keyed_at

-----------------------------------------------------------------------------
(* receive_worker: socket -> jitter buffer.                                 *)

\* recvfrom returns a packet: stamp it and publish the stamp, before the lock.
RxReceive(pkt) ==
  /\ rx_pc = "recv" /\ is_running
  /\ rx_now' = clock /\ last_rx_us' = clock
  /\ rx_id' = pkt.session_id /\ rx_reset' = pkt.reset /\ rx_edges' = pkt.edges
  /\ rx_pc' = "session"
  /\ UNCHANGED <<clock, is_running, reset_requested, mtx, queue, anchor,
                 session, rpFlags, rpVars, lines, device>>

\* Take the lock; a new session or a reset drops the buffer and the anchor.
RxSession ==
  /\ rx_pc = "session" /\ mtx = "free"
  /\ mtx' = "rx" /\ rx_pc' = "edges"
  /\ \/ /\ ~have_session \/ rx_id # session_id \/ rx_reset
        /\ session_id' = rx_id /\ have_session' = TRUE
        /\ have_anchor' = FALSE /\ last_enqueued_src' = 0 /\ queue' = <<>>
        /\ reset_requested' = TRUE
        /\ UNCHANGED <<anchor_src_us, anchor_local_us>>
     \/ /\ have_session /\ rx_id = session_id /\ ~rx_reset
        /\ UNCHANGED <<session, anchor, queue, reset_requested>>
  /\ UNCHANGED <<clock, is_running, last_rx_us, rxPkt, rx_edges,
                 rpFlags, rpVars, lines, device>>

\* Mutant: only the last edge counts as already received.
DuplicateOfLast(e) == e.ts_us = last_enqueued_src

\* The edge is history the client repeats, or a duplicated datagram.
Duplicate(e) == e.ts_us <= last_enqueued_src

\* Mutant: the playout delay is forgotten.
AnchorNow == rx_now

\* When the edge that sets the anchor is to be played.
AnchorLocal == rx_now + Playout

\* When an edge is to be played: relative to the anchor, and not in the past.
Scheduled(ts) ==
  Greater(rx_now, IF have_anchor THEN anchor_local_us + (ts - anchor_src_us)
                                 ELSE AnchorLocal)

\* One turn of the loop over the packet's edges, the mutex being held.
RxEdge ==
  /\ rx_pc = "edges" /\ rx_edges # <<>>
  /\ rx_edges' = Tail(rx_edges)
  /\ LET e == Head(rx_edges) IN
     \/ /\ Duplicate(e)
        /\ UNCHANGED <<anchor, queue>>
     \/ /\ ~Duplicate(e)
        /\ have_anchor' = TRUE
        /\ anchor_src_us' = IF have_anchor THEN anchor_src_us ELSE e.ts_us
        /\ anchor_local_us' = IF have_anchor THEN anchor_local_us
                                             ELSE AnchorLocal
        /\ last_enqueued_src' = e.ts_us
        /\ queue' = Append(queue, [at_us |-> Scheduled(e.ts_us),
                                   down |-> e.down])
  /\ UNCHANGED <<clock, is_running, last_rx_us, reset_requested, mtx, session,
                 rx_pc, rxPkt, rpFlags, rpVars, lines, device>>

\* The packet is done: unlock, and back to recvfrom.
RxRelease ==
  /\ rx_pc = "edges" /\ rx_edges = <<>>
  /\ mtx' = "free" /\ rx_pc' = "recv"
  /\ UNCHANGED <<clock, is_running, last_rx_us, reset_requested, queue, anchor,
                 session, rxPkt, rx_edges, rpFlags, rpVars, lines, device>>

\* Mutant: the thread waits for the jitter buffer to drain before it ends.
RxExitDrained ==
  /\ rx_pc = "recv" /\ ~is_running /\ queue = <<>>
  /\ rx_pc' = "done"
  /\ UNCHANGED <<clock, is_running, last_rx_us, reset_requested, mtx, queue,
                 anchor, session, rxPkt, rx_edges, rpFlags, rpVars, lines, device>>

\* recvfrom times out and the loop condition fails.
RxExit ==
  /\ rx_pc = "recv" /\ ~is_running
  /\ rx_pc' = "done"
  /\ UNCHANGED <<clock, is_running, last_rx_us, reset_requested, mtx, queue,
                 anchor, session, rxPkt, rx_edges, rpFlags, rpVars, lines, device>>

-----------------------------------------------------------------------------
(* replay_worker: jitter buffer -> hardware, with the safety watchdogs.     *)

\* The thread starts and tries the device once.
ReplayStart ==
  /\ rp_pc = "start"
  /\ open_port
  /\ rp_pc' = "top" /\ wake' = clock
  /\ UNCHANGED <<clock, is_running, last_rx_us, reset_requested, mtx, queue,
                 anchor, session, rxVars, rpFlags, rp_now, rx_seen,
                 last_iface_check, plug>>

\* Mutant: the device is retried once.
RetryOnce == fd = "none" /\ last_iface_check = 0

\* A missing device is retried after the gap.
RetryDue == fd = "none" /\ Sub64(clock, last_iface_check) > RetryGap

\* The sleep is over: read the clock, retry a missing device.
ReplayTop ==
  /\ rp_pc = "top" /\ is_running /\ clock >= wake
  /\ rp_now' = clock /\ rp_pc' = "reset"
  /\ IF RetryDue
       THEN open_port /\ last_iface_check' = clock
       ELSE UNCHANGED <<fd, lines, last_iface_check>>
  /\ UNCHANGED <<clock, is_running, last_rx_us, reset_requested, mtx, queue,
                 anchor, session, rxVars, rpFlags, rx_seen, wake,
                 plug>>

\* reset_requested.exchange(false).
ReplayReset ==
  /\ rp_pc = "reset"
  /\ rp_pc' = "load" /\ reset_requested' = FALSE
  /\ IF reset_requested
       THEN force_safe /\ key_is_down' = FALSE /\ ptt_is_on' = FALSE
       ELSE UNCHANGED <<lines, key_is_down, ptt_is_on>>
  /\ UNCHANGED <<clock, is_running, last_rx_us, mtx, queue, anchor, session,
                 rxVars, key_down_since_us, ptt_release_at_us, rp_now, rx_seen,
                 last_iface_check, wake, device>>

\* The first of the two loads of last_rx_us.
ReplayLoad ==
  /\ rp_pc = "load"
  /\ rp_pc' = "silence" /\ rx_seen' = last_rx_us
  /\ UNCHANGED <<clock, is_running, last_rx_us, reset_requested, mtx, queue,
                 anchor, session, rxVars, rpFlags, rp_now, last_iface_check,
                 wake, lines, device>>

\* Mutant: a held key is taken for a live stream.
SilentKeyUp ==
  last_rx_us # 0 /\ Sub64(rp_now, rx_seen) > Silence /\ ~key_is_down

\* The silence test, with the second load.
Silent == last_rx_us # 0 /\ Sub64(rp_now, rx_seen) > Silence

ReplaySilence ==
  /\ rp_pc = "silence"
  /\ rp_pc' = IF Silent THEN "clear" ELSE "watchdog"
  /\ IF Silent /\ (key_is_down \/ ptt_is_on)
       THEN force_safe /\ key_is_down' = FALSE /\ ptt_is_on' = FALSE
       ELSE UNCHANGED <<lines, key_is_down, ptt_is_on>>
  /\ UNCHANGED <<clock, is_running, last_rx_us, reset_requested, mtx, queue,
                 anchor, session, rxVars, key_down_since_us, ptt_release_at_us,
                 rp_now, rx_seen, last_iface_check, wake, device>>

\* Under the lock, silence drops the buffer and the anchor, not the highwater.
ReplayClear ==
  /\ rp_pc = "clear" /\ mtx = "free"
  /\ rp_pc' = "watchdog" /\ queue' = <<>> /\ have_anchor' = FALSE
  /\ UNCHANGED <<clock, is_running, last_rx_us, reset_requested, mtx,
                 anchor_src_us, anchor_local_us, last_enqueued_src, session,
                 rxVars, rpFlags, rp_now, rx_seen, last_iface_check, wake,
                 lines, device>>

\* Mutant: the watchdog measures from the last packet.
StuckSinceRx == key_is_down /\ Sub64(rp_now, rx_seen) > MaxKeyDown

\* The hard watchdog against a stuck key.
StuckKey == key_is_down /\ Sub64(rp_now, key_down_since_us) > MaxKeyDown

ReplayWatchdog ==
  /\ rp_pc = "watchdog"
  /\ rp_pc' = "apply"
  /\ IF StuckKey
       THEN set_key(FALSE) /\ key_is_down' = FALSE
       ELSE UNCHANGED <<dtr, keyed_at, key_is_down>>
  /\ UNCHANGED <<clock, is_running, last_rx_us, reset_requested, mtx, queue,
                 anchor, session, rxVars, key_down_since_us, ptt_is_on,
                 ptt_release_at_us, rp_now, rx_seen, last_iface_check, wake,
                 rts, device>>

Due == queue # <<>> /\ Head(queue).at_us <= rp_now

\* Under the lock, one turn of the loop over the edges now due.
ReplayApply ==
  /\ rp_pc = "apply" /\ mtx \in {"free", "replay"} /\ Due
  /\ mtx' = "replay" /\ queue' = Tail(queue)
  /\ LET down == Head(queue).down IN
     /\ IF down /\ ~ptt_is_on THEN set_ptt(TRUE) /\ ptt_is_on' = TRUE
                              ELSE UNCHANGED <<rts, ptt_is_on>>
     /\ IF down # key_is_down THEN set_key(down)
                              ELSE UNCHANGED <<dtr, keyed_at>>
     /\ key_is_down' = down
     /\ key_down_since_us' = IF down /\ ~key_is_down THEN rp_now
                                                     ELSE key_down_since_us
     /\ ptt_release_at_us' = IF ~down /\ key_is_down THEN rp_now + PttTail
                                                     ELSE ptt_release_at_us
  /\ UNCHANGED <<clock, is_running, last_rx_us, reset_requested, anchor,
                 session, rxVars, rpVars, device>>

\* The next edge is a key-down at or before t.
KeyDownBy(t) == queue # <<>> /\ Head(queue).down /\ Head(queue).at_us <= t

\* Mutant: the key is not consulted before PTT is released.
PttReleaseAnyKey(ptt) ==
  ptt /\ rp_now >= ptt_release_at_us /\ ~KeyDownBy(rp_now + PttTail - 1)

\* PTT is released after the tail, unless a key-down is imminent.
PttRelease(ptt) ==
  /\ ptt /\ ~key_is_down /\ rp_now >= ptt_release_at_us
  /\ ~KeyDownBy(rp_now + PttTail - 1)

\* Mutant: with nothing queued the thread takes a long sleep.
WakeAtIdle(ptt) ==
  IF queue = <<>> THEN rp_now + 2 * Silence ELSE rp_now + WatchdogTick

\* When the replay thread sleeps until, given the PTT state it leaves.
WakeAt(ptt) ==
  LET capped == rp_now + WatchdogTick
      edge   == IF queue = <<>> THEN capped
                                ELSE Lesser(Head(queue).at_us, capped)
  IN  IF ptt /\ ~key_is_down THEN Lesser(ptt_release_at_us, edge) ELSE edge

\* No edge is due: peek at the next one, unlock, sequence PTT (lead before a
\* key-down, tail after the last key-up) and sleep.  A wake time in the past
\* is no sleep at all.
ReplayPeek ==
  /\ rp_pc = "apply" /\ mtx \in {"free", "replay"} /\ ~Due
  /\ mtx' = "free" /\ rp_pc' = "top"
  /\ LET lead    == ~ptt_is_on /\ KeyDownBy(rp_now + PttLead)
         release == PttRelease(ptt_is_on \/ lead)
     IN  /\ ptt_is_on' = ((ptt_is_on \/ lead) /\ ~release)
         /\ IF lead \/ release THEN set_ptt(~release) ELSE rts' = rts
  /\ wake' = Greater(rp_now, WakeAt(ptt_is_on'))
  /\ UNCHANGED <<clock, is_running, last_rx_us, reset_requested, queue, anchor,
                 session, rxVars, key_is_down, key_down_since_us,
                 ptt_release_at_us, rp_now, rx_seen, last_iface_check,
                 dtr, keyed_at, device>>

\* The sleep is over and the server has been stopped: leave the lines safe.
ReplayExit ==
  /\ rp_pc = "top" /\ ~is_running /\ clock >= wake
  /\ rp_pc' = "done" /\ force_safe
  /\ UNCHANGED <<clock, is_running, last_rx_us, reset_requested, mtx, queue,
                 anchor, session, rxVars, rpFlags, rp_now, rx_seen,
                 last_iface_check, wake, device>>

-----------------------------------------------------------------------------
(* The main thread, the device and the clock.                               *)

\* stop() before its joins.
Stop ==
  /\ is_running
  /\ is_running' = FALSE
  /\ UNCHANGED <<clock, last_rx_us, reset_requested, mtx, queue, anchor,
                 session, rxVars, rpFlags, rpVars, lines, device>>

\* stop() after its joins: the descriptor is closed.
Close ==
  /\ rx_pc = "done" /\ rp_pc = "done" /\ fd # "none"
  /\ fd' = "none"
  /\ UNCHANGED <<clock, is_running, last_rx_us, reset_requested, mtx, queue,
                 anchor, session, rxVars, rpFlags, rpVars, lines, plug>>

\* The device disappears; nobody drives its lines any more.
Unplug ==
  /\ plugged /\ is_running /\ plug_events < MaxPlugEvents
  /\ plug_events' = plug_events + 1
  /\ plugged' = FALSE /\ dtr' = FALSE /\ rts' = FALSE
  /\ fd' = IF fd = "open" THEN "stale" ELSE fd
  /\ UNCHANGED <<clock, is_running, last_rx_us, reset_requested, mtx, queue,
                 anchor, session, rxVars, rpFlags, rpVars, keyed_at, plugged_at>>

\* The device appears: a descriptor opened before does not refer to it.
Plug ==
  /\ ~plugged /\ is_running /\ plug_events < MaxPlugEvents
  /\ plug_events' = plug_events + 1
  /\ plugged' = TRUE /\ plugged_at' = clock
  /\ UNCHANGED <<clock, is_running, last_rx_us, reset_requested, mtx, queue,
                 anchor, session, rxVars, rpFlags, rpVars, lines, fd>>

\* The replay thread (at real-time priority) is scheduled within MaxLag of its
\* wake time and ends an iteration within MaxLag of reading the clock.
ReplayOnTime ==
  \/ rp_pc = "done"
  \/ rp_pc = "top" /\ clock < wake + MaxLag
  \/ rp_pc \notin {"top", "done"} /\ clock < rp_now + MaxLag

\* The receive thread handles the packet it stamped within RxLag.
ReceiveOnTime == rx_pc \in {"recv", "done"} \/ clock < rx_now + RxLag

\* Time passes.  It is bounded while the server runs; a stopping server may
\* always finish.
Tick ==
  /\ ReplayOnTime /\ ReceiveOnTime
  /\ clock < MaxTime \/ (~is_running /\ rp_pc # "done")
  /\ clock' = clock + 1
  /\ UNCHANGED <<is_running, last_rx_us, reset_requested, mtx, queue, anchor,
                 session, rxVars, rpFlags, rpVars, lines, device>>

Receive == RxSession \/ RxEdge \/ RxRelease \/ RxExit

Replay ==
  \/ ReplayStart \/ ReplayTop \/ ReplayReset \/ ReplayLoad \/ ReplaySilence
  \/ ReplayClear \/ ReplayWatchdog \/ ReplayApply \/ ReplayPeek \/ ReplayExit

Next ==
  \/ \E pkt \in Packets : RxReceive(pkt)
  \/ Receive \/ Replay
  \/ Stop \/ Close \/ Unplug \/ Plug \/ Tick

\* Both threads and the clock keep running; the joins of stop() return.
Fairness == WF_vars(Receive) /\ WF_vars(Replay) /\ WF_vars(Close) /\ WF_vars(Tick)

Spec == Init /\ [][Next]_vars /\ Fairness

-----------------------------------------------------------------------------
(* Properties.                                                              *)

\* The type of the state, by the kind of variable.
TypeFlags ==
  /\ is_running \in BOOLEAN /\ reset_requested \in BOOLEAN
  /\ have_anchor \in BOOLEAN /\ have_session \in BOOLEAN
  /\ rx_reset \in BOOLEAN
  /\ key_is_down \in BOOLEAN /\ ptt_is_on \in BOOLEAN
  /\ plugged \in BOOLEAN /\ dtr \in BOOLEAN /\ rts \in BOOLEAN

TypeControl ==
  /\ mtx \in {"free", "rx", "replay"}
  /\ rx_pc \in {"recv", "session", "edges", "done"}
  /\ rp_pc \in {"start", "top", "reset", "load", "silence", "clear",
                "watchdog", "apply", "done"}
  /\ fd \in {"none", "open", "stale"}

TypeTimes ==
  /\ clock \in Nat /\ last_rx_us \in Nat
  /\ anchor_src_us \in Nat /\ anchor_local_us \in Nat
  /\ last_enqueued_src \in Nat
  /\ rx_now \in Nat /\ rp_now \in Nat /\ rx_seen \in Nat
  /\ key_down_since_us \in Nat /\ ptt_release_at_us \in Nat
  /\ last_iface_check \in Nat /\ wake \in Nat
  /\ keyed_at \in Nat /\ plugged_at \in Nat

TypeData ==
  /\ queue \in Seq(scheduled_edge) /\ rx_edges \in Seq(Edge)
  /\ session_id \in Nat /\ rx_id \in Nat /\ plug_events \in Nat

\* No interleaving of the threads leaves a variable outside its type: times are
\* never negative, the buffer holds scheduled edges, the mutex has one holder.
TypeOK == TypeFlags /\ TypeControl /\ TypeTimes /\ TypeData

\* The time from a watchdog's deadline to its effect: the replay thread may be
\* asleep for one tick, wake late, and take its time to reach the watchdog.
Reaction == WatchdogTick + 2 * MaxLag

\* "Hard watchdog: never hold the key down longer than this": whatever edges
\* are lost, DTR is not high longer than max_key_down_ms plus the reaction time.
KeyDownBounded == dtr => clock - keyed_at <= MaxKeyDown + Reaction

\* When the stream falls silent (a crashed operator, a dead link) the key and
\* the PTT line are low within silence_ms plus the reaction time, whatever the
\* buffer still held.
SilenceForcesSafe == dtr \/ rts => clock - last_rx_us <= Silence + Reaction

\* The replay thread looks only at the head of the jitter buffer: the buffer
\* stays in playout order across re-anchoring, clamping of late edges and
\* sessions.
QueueOrdered ==
  \A i, j \in 1 .. Len(queue) : i < j => queue[i].at_us <= queue[j].at_us

\* The watchdogs look at key_is_down and ptt_is_on, not at the lines: a line is
\* never high behind the back of its flag, whichever thread and whichever
\* device event came between.
LinesTracked ==
  /\ rp_pc # "done" => (dtr => key_is_down) /\ (rts => ptt_is_on)
  /\ rp_pc = "done" => ~dtr /\ ~rts

\* The transmitter is keyed only with PTT asserted.
KeyOnlyUnderPtt == dtr => rts

\* No edge waits in the buffer past its playout time by more than the replay
\* thread's reaction and the receive thread's handling time: the wake-up time
\* computed from the head of the queue misses no edge.
NoEdgeOverdue ==
  rp_pc # "done" =>
    \A i \in 1 .. Len(queue) : clock - queue[i].at_us <= Reaction + RxLag

\* A session reset is served before any edge of the new session is played: the
\* late force_safe of a reset never cuts an element of the session it begins.
ResetServedFirst == [][ReplayApply => ~reset_requested]_vars

\* A device that was missing is opened within the retry gap once it is there.
LateDeviceOpened ==
  plugged /\ is_running /\ clock - plugged_at > RetryGap + Reaction
    => fd # "none"

\* stop() ends both threads, leaves both lines low and closes the device, from
\* whatever point each thread had reached.
StopReleases ==
  ~is_running ~> (rx_pc = "done" /\ rp_pc = "done" /\ fd = "none"
                    /\ ~dtr /\ ~rts)

-----------------------------------------------------------------------------
(* What comments say of the code and the code does not do.                  *)

\* "force key-up if no packet (incl. keepalive) for this long": when the
\* silence watchdog trips, the datagram it looked at is that old.
SilenceTripIsGenuine == rp_pc = "clear" => clock - rx_seen > Silence

\* "Reconnect the serial device if it went away (USB unplug), roughly every
\* 100 ms": a device that is back is driven again.
DeviceReconnected ==
  plugged /\ is_running /\ clock - plugged_at > RetryGap + Reaction
    => fd = "open"
=============================================================================
