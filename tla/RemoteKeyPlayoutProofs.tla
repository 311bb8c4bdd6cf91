------------------------ MODULE RemoteKeyPlayoutProofs ------------------------
(***************************************************************************)
(* More proofs about the remote keying server, over the invariant that      *)
(* RemoteKeyProofs establishes: the device that comes late, PTT around the  *)
(* key, and the edges of the jitter buffer played in time.                  *)
(***************************************************************************)
EXTENDS RemoteKeyProofs

USE DEF vars, anchor, session, rxPkt, rxVars, rpFlags, rpVars, lines, plug,
        device

\* The steps of the receive thread.
ReceiveStep == (\E pkt \in Packets : RxReceive(pkt)) \/ Receive

\* What the receive thread never touches.
LEMMA ReceiveFrame ==
  ASSUME ReceiveStep
  PROVE  UNCHANGED <<clock, is_running, rpFlags, rpVars, lines, device>>
  <1>1. ASSUME NEW pkt \in Packets, RxReceive(pkt)
        PROVE  UNCHANGED <<clock, is_running, rpFlags, rpVars, lines, device>>
    BY <1>1 DEF RxReceive
  <1>2. CASE RxSession  BY <1>2 DEF RxSession
  <1>3. CASE RxEdge     BY <1>3 DEF RxEdge
  <1>4. CASE RxRelease  BY <1>4 DEF RxRelease
  <1>5. CASE RxExit     BY <1>5 DEF RxExit
  <1> QED
    BY <1>1, <1>2, <1>3, <1>4, <1>5, Zenon DEF ReceiveStep, Receive

LEMMA NextSteps ==
  ASSUME [Next]_vars
  PROVE  \/ ReceiveStep \/ UNCHANGED vars
         \/ ReplayStart \/ ReplayTop \/ ReplayReset \/ ReplayLoad \/ ReplaySilence
         \/ ReplayClear \/ ReplayWatchdog \/ ReplayApply \/ ReplayPeek \/ ReplayExit
         \/ Stop \/ Close \/ Unplug \/ Plug \/ Tick
  BY Zenon DEF Next, Replay, ReceiveStep

-----------------------------------------------------------------------------
(* A device that is plugged in late.                                        *)

\* While a device that is there has not been opened, the last attempt came before
\* it and the next is due: the iteration that is on, or the last one, began no
\* later than the gap after the device appeared.
DeviceInv ==
  /\ last_iface_check <= clock
  /\ rp_pc = "done" => ~is_running
  /\ rp_pc = "top" => wake <= rp_now + WatchdogTick + MaxLag
  /\ fd = "none" /\ plugged /\ is_running =>
       last_iface_check <= plugged_at /\ rp_now <= plugged_at + RetryGap

LEMMA DeviceUnchanged ==
  ASSUME DeviceInv,
         UNCHANGED <<clock, is_running, last_iface_check, wake, rp_now, rp_pc,
                     fd, plugged, plugged_at>>
  PROVE  DeviceInv'
  BY DEF DeviceInv

LEMMA DeviceStep ==
  ASSUME TypeOK, ClockInv, LinesInv, DeviceInv, [Next]_vars
  PROVE  DeviceInv'
  <1>0. TypeFlags /\ TypeControl /\ TypeTimes /\ TypeData
    BY DEF TypeOK
  <1>1. CASE ReceiveStep \/ UNCHANGED vars
    BY <1>1, ReceiveFrame, DeviceUnchanged
  <1>2. CASE ReplayStart
    BY <1>0, <1>2, ConfigAssumption, LagAssumption
    DEF ReplayStart, open_port, DeviceInv, ClockInv, LinesInv, TypeFlags, TypeControl, TypeTimes
  <1>3. CASE ReplayTop
    <2>1. /\ rp_pc' = "reset" /\ rp_now' = clock
          /\ UNCHANGED <<clock, is_running, plugged, plugged_at>>
      BY <1>3 DEF ReplayTop
    <2>2. CASE RetryDue
      <3>1. last_iface_check' = clock /\ (plugged => fd' = "open")
        BY <1>3, <2>2 DEF ReplayTop, open_port
      <3> QED
        BY <1>0, <2>1, <3>1 DEF DeviceInv, TypeTimes
    <2>3. CASE ~RetryDue
      <3>1. UNCHANGED <<fd, last_iface_check>>
        BY <1>3, <2>3 DEF ReplayTop
      <3>2. fd = "none" => clock - last_iface_check <= RetryGap
        BY <1>0, <2>3, ConfigAssumption DEF RetryDue, Sub64, DeviceInv, TypeTimes
      <3> QED
        BY <1>0, <2>1, <3>1, <3>2, ConfigAssumption DEF DeviceInv, TypeTimes
    <2> QED
      BY <2>2, <2>3
  <1>4. CASE ReplayReset \/ ReplayLoad \/ ReplaySilence \/ ReplayClear \/ ReplayWatchdog
    <2>1. /\ rp_pc' \notin {"top", "done"}
          /\ UNCHANGED <<clock, is_running, last_iface_check, rp_now, fd, plugged, plugged_at>>
      BY <1>4 DEF ReplayReset, ReplayLoad, ReplaySilence, ReplayClear, ReplayWatchdog
    <2> QED
      BY <2>1 DEF DeviceInv
  <1>5. CASE ReplayApply
    BY <1>5, DeviceUnchanged DEF ReplayApply
  <1>6. CASE ReplayPeek
    <2>1. wake' <= rp_now + WatchdogTick /\ wake' \in Nat
      BY <1>0, <1>6, WakeBounds DEF ReplayPeek
    <2>2. UNCHANGED <<clock, is_running, last_iface_check, rp_now, fd, plugged, plugged_at>>
          /\ rp_pc' = "top"
      BY <1>6 DEF ReplayPeek
    <2> QED
      BY <1>0, <2>1, <2>2, ConfigAssumption, LagAssumption DEF DeviceInv, TypeTimes
  <1>7. CASE ReplayExit
    BY <1>7 DEF ReplayExit, DeviceInv
  <1>8. CASE Stop
    BY <1>8 DEF Stop, DeviceInv
  <1>9. CASE Close
    BY <1>9 DEF Close, DeviceInv
  <1>10. CASE Unplug
    BY <1>10 DEF Unplug, DeviceInv
  <1>11. CASE Plug
    BY <1>0, <1>11, ConfigAssumption DEF Plug, DeviceInv, ClockInv, TypeTimes
  <1>12. CASE Tick
    BY <1>0, <1>12 DEF Tick, DeviceInv, TypeTimes
  <1> QED
    BY <1>1, <1>2, <1>3, <1>4, <1>5, <1>6, <1>7, <1>8, <1>9, <1>10, <1>11, <1>12,
       NextSteps

\* A device that was missing is opened within the retry gap and the replay thread's
\* reaction time once it is there, however often it came and went before.
THEOREM LateDeviceIsOpened == Spec => []LateDeviceOpened
  <1>1. Init => DeviceInv
    BY ConfigAssumption, LagAssumption DEF Init, DeviceInv
  <1>2. TypeOK /\ ServerInv /\ DeviceInv /\ [Next]_vars => DeviceInv'
    BY DeviceStep DEF ServerInv
  <1>3. TypeOK /\ ServerInv /\ DeviceInv => LateDeviceOpened
    <2> SUFFICES ASSUME TypeOK, ServerInv, DeviceInv, plugged, is_running, fd = "none"
                 PROVE  clock - plugged_at <= RetryGap + Reaction
      BY ConfigAssumption, LagAssumption DEF LateDeviceOpened, Reaction, TypeOK, TypeTimes
    <2>1. TypeTimes /\ TypeControl /\ ClockInv
      BY DEF TypeOK, ServerInv
    <2>2. rp_now <= plugged_at + RetryGap /\ rp_pc # "done"
      BY DEF DeviceInv
    <2>3. clock <= rp_now + WatchdogTick + 2 * MaxLag
      BY <2>1, <2>2, ConfigAssumption, LagAssumption DEF DeviceInv, ClockInv, TypeTimes
    <2> QED
      BY <2>1, <2>2, <2>3, ConfigAssumption, LagAssumption DEF TypeTimes, Reaction
  <1> QED
    BY <1>1, <1>2, <1>3, ServerInvariant, PTL DEF Spec

-----------------------------------------------------------------------------
(* PTT around the key.                                                      *)

\* With a device that was there from the start and does not come back once it is
\* gone: the key flag implies the PTT flag, an open device follows the PTT flag, and
\* no device is opened after the first iteration began.
PttInv ==
  /\ key_is_down => ptt_is_on
  /\ fd = "open" /\ rp_pc # "done" => (ptt_is_on => rts)
  /\ ~plugged => plug_events >= 1
  /\ plugged /\ rp_pc \notin {"start", "done"} => fd = "open"

LEMMA PttUnchanged ==
  ASSUME PttInv,
         UNCHANGED <<key_is_down, ptt_is_on, rts, rp_pc, fd, plugged, plug_events>>
  PROVE  PttInv'
  BY DEF PttInv

LEMMA PttStep ==
  ASSUME MaxPlugEvents <= 1, TypeOK, LinesInv, PttInv, [Next]_vars
  PROVE  PttInv'
  <1>0. TypeFlags /\ TypeControl /\ TypeTimes /\ TypeData
    BY DEF TypeOK
  <1> USE DEF TypeFlags, TypeControl
  <1>1. CASE ReceiveStep \/ UNCHANGED vars
    BY <1>1, ReceiveFrame, PttUnchanged
  <1>2. CASE ReplayStart
    BY <1>0, <1>2 DEF ReplayStart, open_port, PttInv, LinesInv
  <1>3. CASE ReplayTop
    BY <1>0, <1>3 DEF ReplayTop, open_port, PttInv, RetryDue
  <1>4. CASE ReplayReset
    BY <1>0, <1>4 DEF ReplayReset, force_safe, set_key, set_ptt, PttInv
  <1>5. CASE ReplayLoad \/ ReplayClear
    BY <1>0, <1>5 DEF ReplayLoad, ReplayClear, PttInv
  <1>6. CASE ReplaySilence
    BY <1>0, <1>6 DEF ReplaySilence, force_safe, set_key, set_ptt, PttInv
  <1>7. CASE ReplayWatchdog
    BY <1>0, <1>7 DEF ReplayWatchdog, PttInv
  <1>8. CASE ReplayApply
    <2>1. Head(queue).down \in BOOLEAN
      BY <1>0, <1>8, HeadOfQueue DEF ReplayApply, Due
    <2>2. /\ key_is_down' = Head(queue).down /\ UNCHANGED <<fd, rp_pc, plugged, plug_events>>
          /\ IF Head(queue).down /\ ~ptt_is_on
               THEN rts' = (IF fd = "open" THEN TRUE ELSE rts) /\ ptt_is_on' = TRUE
               ELSE UNCHANGED <<rts, ptt_is_on>>
      BY <1>8 DEF ReplayApply, set_ptt
    <2>3. key_is_down' => ptt_is_on'
      BY <1>0, <2>1, <2>2
    <2>4. fd = "open" => (ptt_is_on' => rts')
      BY <1>0, <1>8, <2>2 DEF PttInv, ReplayApply
    <2> QED
      BY <2>2, <2>3, <2>4 DEF PttInv
  <1>9. CASE ReplayPeek
    <2> DEFINE lead    == ~ptt_is_on /\ KeyDownBy(rp_now + PttLead)
               release == PttRelease(ptt_is_on \/ lead)
    <2>1. /\ ptt_is_on' = ((ptt_is_on \/ lead) /\ ~release)
          /\ IF lead \/ release THEN set_ptt(~release) ELSE rts' = rts
          /\ rp_pc = "apply" /\ rp_pc' = "top"
          /\ UNCHANGED <<key_is_down, fd, plugged, plug_events>>
      BY <1>9 DEF ReplayPeek
    <2>2. release => ~key_is_down
      BY DEF PttRelease
    <2>3. rts' = IF fd = "open" /\ (lead \/ release) THEN ~release ELSE rts
      BY <2>1 DEF set_ptt
    <2> HIDE DEF lead, release
    <2>4. key_is_down' => ptt_is_on'
      BY <1>0, <2>1, <2>2, Zenon DEF PttInv
    <2>5. fd = "open" => (ptt_is_on' => rts')
      BY <1>0, <2>1, <2>3 DEF PttInv
    <2> QED
      BY <2>1, <2>4, <2>5 DEF PttInv
  <1>10. CASE ReplayExit
    BY <1>0, <1>10 DEF ReplayExit, PttInv
  <1>11. CASE Stop
    BY <1>11, PttUnchanged DEF Stop
  <1>12. CASE Close
    BY <1>0, <1>12 DEF Close, PttInv
  <1>13. CASE Unplug
    BY <1>0, <1>13, EnvAssumption DEF Unplug, PttInv, TypeData
  <1>14. CASE Plug
    BY <1>0, <1>14, EnvAssumption DEF Plug, PttInv, TypeData
  <1>15. CASE Tick
    BY <1>15, PttUnchanged DEF Tick
  <1> QED
    BY <1>1, <1>2, <1>3, <1>4, <1>5, <1>6, <1>7, <1>8, <1>9, <1>10, <1>11, <1>12,
       <1>13, <1>14, <1>15, NextSteps

\* The transmitter is keyed only with PTT asserted, if the device is there from the
\* start and, once gone, does not come back (one that is opened in the middle of an
\* over finds the PTT flag already set and its PTT line low).
THEOREM KeyedUnderPtt ==
  ASSUME DevInit = {TRUE}, MaxPlugEvents <= 1
  PROVE  Spec => []KeyOnlyUnderPtt
  <1>1. Init => PttInv
    BY DEF Init, PttInv
  <1>2. TypeOK /\ ServerInv /\ PttInv /\ [Next]_vars => PttInv'
    BY PttStep DEF ServerInv
  <1>3. TypeOK /\ ServerInv /\ PttInv => KeyOnlyUnderPtt
    BY DEF ServerInv, LinesInv, LinesTracked, PttInv, KeyOnlyUnderPtt, TypeOK, TypeFlags
  <1> QED
    BY <1>1, <1>2, <1>3, ServerInvariant, PTL DEF Spec

-----------------------------------------------------------------------------
(* Edges are played in time.                                                *)

\* Before the replay thread first opens the device no edge is due within the playout
\* delay; asleep, it wakes within a tick of the time any queued edge could have come;
\* in an iteration, the clock it read is at most a tick and a lag past such an edge.
DueInv ==
  /\ rp_pc = "start" =>
       /\ rx_pc \in {"session", "edges"} => rp_now <= rx_now
       /\ have_anchor => rp_now + Playout <= anchor_local_us
       /\ \A i \in 1 .. Len(queue) : rp_now + Playout <= queue[i].at_us
  /\ rp_pc = "top" =>
       /\ wake <= clock + WatchdogTick
       /\ \A i \in 1 .. Len(queue) : wake <= queue[i].at_us + RxLag + WatchdogTick
  /\ rp_pc \notin {"start", "top", "done"} =>
       \A i \in 1 .. Len(queue) :
         rp_now <= queue[i].at_us + RxLag + WatchdogTick + MaxLag

\* A step that leaves the clocks alone and takes nothing into the queue.
LEMMA DueUnchanged ==
  ASSUME DueInv, UNCHANGED <<rp_pc, rp_now, wake, clock, rx_pc, rx_now, queue, have_anchor,
                             anchor_local_us>>
  PROVE  DueInv'
  BY DEF DueInv

LEMMA DueReceive ==
  ASSUME TypeOK, ClockInv, QueueInv, DueInv, ReceiveStep
  PROVE  DueInv'
  <1>0. TypeFlags /\ TypeControl /\ TypeTimes /\ TypeData
    BY DEF TypeOK
  <1>a. UNCHANGED <<rp_pc, rp_now, wake, clock>>
    BY ReceiveFrame
  <1>1. ASSUME NEW pkt \in Packets, RxReceive(pkt) PROVE DueInv'
    <2>1. rx_now' = clock /\ rp_now <= clock /\ UNCHANGED <<queue, have_anchor, anchor_local_us>>
      BY <1>1 DEF RxReceive, ClockInv
    <2> QED
      BY <1>a, <2>1 DEF DueInv
  <1>2. CASE RxSession
    <2>1. /\ rx_pc = "session" /\ UNCHANGED <<rx_now, anchor_local_us>>
          /\ \/ queue' = <<>> /\ ~have_anchor'
             \/ UNCHANGED <<queue, have_anchor>>
      BY <1>2 DEF RxSession
    <2>2. CASE queue' = <<>> /\ ~have_anchor'
      BY <1>a, <2>1, <2>2 DEF DueInv
    <2>3. CASE UNCHANGED <<queue, have_anchor>>
      BY <1>a, <2>1, <2>3 DEF DueInv
    <2> QED
      BY <2>1, <2>2, <2>3
  <1>3. CASE RxEdge
    <2> DEFINE ts == Head(rx_edges).ts_us
    <2>1. ts \in Nat /\ Scheduled(ts) \in Nat /\ rx_now <= Scheduled(ts)
      BY <1>0, <1>3, HeadOfPacket, ScheduledType DEF RxEdge
    <2>2. UNCHANGED <<rx_pc, rx_now>> /\ rx_pc = "edges"
      BY <1>3 DEF RxEdge
    <2>3. CASE ts <= last_enqueued_src
      <3>1. UNCHANGED <<queue, have_anchor, anchor_local_us>>
        BY <1>0, <1>3, <2>1, <2>3 DEF RxEdge, Duplicate, TypeTimes
      <3> QED
        BY <1>a, <2>2, <3>1, DueUnchanged
    <2>4. CASE ts > last_enqueued_src
      <3>1. /\ anchor_local_us' = IF have_anchor THEN anchor_local_us
                                                 ELSE rx_now + Playout
            /\ queue' = Append(queue, [at_us |-> Scheduled(ts),
                                        down |-> Head(rx_edges).down])
        BY <1>0, <1>3, <2>1, <2>4 DEF RxEdge, Duplicate, AnchorLocal, TypeTimes
      <3>2. ASSUME NEW i \in 1 .. Len(queue')
            PROVE  \/ i \in 1 .. Len(queue) /\ queue'[i] = queue[i]
                   \/ queue'[i].at_us = Scheduled(ts)
        BY <1>0, <3>1 DEF TypeData
      <3>3. clock <= Scheduled(ts) + RxLag /\ rp_now <= clock
        BY <1>0, <2>1, <2>2, LagAssumption DEF ClockInv, TypeTimes
      <3>4. ASSUME rp_pc = "start"
            PROVE  /\ rp_now + Playout <= anchor_local_us'
                   /\ rp_now + Playout <= Scheduled(ts)
        <4>1. rp_now <= rx_now /\ (have_anchor => rp_now + Playout <= anchor_local_us)
          BY <2>2, <3>4 DEF DueInv
        <4>2. have_anchor => anchor_src_us <= last_enqueued_src
          BY DEF QueueInv
        <4> QED
          BY <1>0, <2>1, <2>4, <3>1, <4>1, <4>2, ConfigAssumption
          DEF Scheduled, AnchorLocal, Greater, TypeTimes
      <3>5. ASSUME rp_pc = "top", NEW i \in 1 .. Len(queue')
            PROVE  wake <= queue'[i].at_us + RxLag + WatchdogTick
        <4>1. wake <= Scheduled(ts) + RxLag + WatchdogTick
          BY <1>0, <2>1, <3>3, <3>5, ConfigAssumption, LagAssumption DEF DueInv, TypeTimes
        <4> QED
          BY <3>2, <3>5, <4>1 DEF DueInv
      <3>6. ASSUME rp_pc \notin {"start", "top", "done"}, NEW i \in 1 .. Len(queue')
            PROVE  rp_now <= queue'[i].at_us + RxLag + WatchdogTick + MaxLag
        <4>1. rp_now <= Scheduled(ts) + RxLag + WatchdogTick + MaxLag
          BY <1>0, <2>1, <3>3, ConfigAssumption, LagAssumption DEF TypeTimes
        <4> QED
          BY <3>2, <3>6, <4>1 DEF DueInv
      <3>7. ASSUME rp_pc = "start", NEW i \in 1 .. Len(queue')
            PROVE  rp_now + Playout <= queue'[i].at_us
        BY <3>2, <3>4, <3>7 DEF DueInv
      <3> QED
        BY <1>a, <2>2, <3>4, <3>5, <3>6, <3>7 DEF DueInv
    <2> QED
      BY <1>0, <2>1, <2>3, <2>4 DEF TypeTimes
  <1>4. CASE RxRelease \/ RxExit
    BY <1>a, <1>4 DEF RxRelease, RxExit, DueInv
  <1> QED
    BY <1>1, <1>2, <1>3, <1>4, Zenon DEF ReceiveStep, Receive

LEMMA DueStep ==
  ASSUME MaxLag <= Playout + RxLag + WatchdogTick,
         TypeOK, ClockInv, QueueInv, DueInv, [Next]_vars
  PROVE  DueInv'
  <1>0. TypeFlags /\ TypeControl /\ TypeTimes /\ TypeData
    BY DEF TypeOK
  <1>a. \A i \in 1 .. Len(queue) : queue[i].at_us \in Nat
    BY <1>0, ElementOfQueue
  <1>1. CASE ReceiveStep
    BY <1>1, DueReceive
  <1>2. CASE ReplayStart
    <2>1. /\ rp_pc = "start" /\ rp_pc' = "top" /\ wake' = clock /\ UNCHANGED <<clock, queue>>
          /\ clock <= rp_now + MaxLag
      BY <1>2 DEF ReplayStart, ClockInv
    <2>2. \A i \in 1 .. Len(queue) : clock <= queue[i].at_us + RxLag + WatchdogTick
      BY <1>0, <1>a, <2>1, ConfigAssumption, LagAssumption DEF DueInv, TypeTimes
    <2> QED
      BY <1>0, <2>1, <2>2, ConfigAssumption DEF DueInv, TypeTimes
  <1>3. CASE ReplayTop
    <2>1. /\ rp_pc = "top" /\ rp_pc' = "reset" /\ rp_now' = clock /\ UNCHANGED queue
          /\ clock <= wake + MaxLag
      BY <1>3 DEF ReplayTop, ClockInv
    <2>2. \A i \in 1 .. Len(queue) : clock <= queue[i].at_us + RxLag + WatchdogTick + MaxLag
      BY <1>0, <1>a, <2>1, ConfigAssumption, LagAssumption DEF DueInv, TypeTimes
    <2> QED
      BY <2>1, <2>2 DEF DueInv
  <1>4. CASE ReplayReset \/ ReplayLoad \/ ReplaySilence \/ ReplayWatchdog
    <2>1. /\ rp_pc \notin {"start", "top", "done"} /\ rp_pc' \notin {"start", "top", "done"}
          /\ UNCHANGED <<rp_now, queue>>
      BY <1>4 DEF ReplayReset, ReplayLoad, ReplaySilence, ReplayWatchdog
    <2> QED
      BY <2>1 DEF DueInv
  <1>5. CASE ReplayClear
    BY <1>5 DEF ReplayClear, DueInv
  <1>6. CASE ReplayApply
    <2>1. /\ rp_pc = "apply" /\ UNCHANGED <<rp_pc, rp_now>> /\ queue # <<>> /\ queue' = Tail(queue)
      BY <1>6 DEF ReplayApply, Due
    <2>2. \A i \in 1 .. Len(queue') : i + 1 \in 1 .. Len(queue) /\ queue'[i] = queue[i + 1]
      BY <1>0, <2>1 DEF TypeData
    <2> QED
      BY <2>1, <2>2 DEF DueInv
  <1>7. CASE ReplayPeek
    <2>1. /\ rp_pc' = "top" /\ UNCHANGED <<clock, rp_now, queue>> /\ ~Due
          /\ wake' <= rp_now + WatchdogTick /\ wake' \in Nat
      BY <1>0, <1>7, WakeBounds DEF ReplayPeek
    <2>2. ASSUME NEW i \in 1 .. Len(queue) PROVE rp_now < queue[i].at_us
      <3>1. 1 \in 1 .. Len(queue) /\ queue # <<>> /\ Head(queue) = queue[1]
        BY <1>0 DEF TypeData
      <3>2. queue[1].at_us <= queue[i].at_us
        BY <1>0, <1>a, <3>1 DEF QueueInv, QueueOrdered
      <3> QED
        BY <1>0, <1>a, <2>1, <3>1, <3>2 DEF Due, TypeTimes
    <2>3. \A i \in 1 .. Len(queue) : wake' <= queue[i].at_us + RxLag + WatchdogTick
      BY <1>0, <1>a, <2>1, <2>2, ConfigAssumption, LagAssumption DEF TypeTimes
    <2>4. wake' <= clock + WatchdogTick
      BY <1>0, <2>1, ConfigAssumption DEF ClockInv, TypeTimes
    <2> QED
      BY <2>1, <2>3, <2>4 DEF DueInv
  <1>8. CASE ReplayExit
    BY <1>8 DEF ReplayExit, DueInv
  <1>9. CASE Stop \/ Close \/ Unplug \/ Plug \/ UNCHANGED vars
    BY <1>9, DueUnchanged DEF Stop, Close, Unplug, Plug
  <1>10. CASE Tick
    <2>1. /\ clock' = clock + 1
          /\ UNCHANGED <<rp_pc, rp_now, wake, rx_pc, rx_now, queue, have_anchor, anchor_local_us>>
      BY <1>10 DEF Tick
    <2>2. wake <= clock + WatchdogTick => wake <= clock' + WatchdogTick
      BY <1>0, <2>1, ConfigAssumption DEF TypeTimes
    <2> QED
      BY <2>1, <2>2 DEF DueInv
  <1> QED
    BY <1>1, <1>2, <1>3, <1>4, <1>5, <1>6, <1>7, <1>8, <1>9, <1>10, NextSteps

\* No edge waits in the jitter buffer past its playout time by more than the replay
\* thread's reaction and the receive thread's handling time, as long as the replay
\* thread is not started later than the playout delay: no wake-up misses an edge.
THEOREM EdgesPlayedInTime ==
  ASSUME MaxLag <= Playout + RxLag + WatchdogTick
  PROVE  Spec => []NoEdgeOverdue
  <1>1. Init => DueInv
    BY DEF Init, DueInv
  <1>2. TypeOK /\ ServerInv /\ DueInv /\ [Next]_vars => DueInv'
    BY DueStep DEF ServerInv
  <1>3. TypeOK /\ ServerInv /\ DueInv => NoEdgeOverdue
    <2> SUFFICES ASSUME TypeOK, ServerInv, DueInv, rp_pc # "done", NEW i \in 1 .. Len(queue)
                 PROVE  clock - queue[i].at_us <= Reaction + RxLag
      BY DEF NoEdgeOverdue
    <2>1. TypeTimes /\ TypeControl /\ ClockInv /\ queue[i].at_us \in Nat
      BY ElementOfQueue DEF TypeOK, ServerInv
    <2>2. CASE rp_pc = "start"
      BY <2>1, <2>2, ConfigAssumption, LagAssumption DEF DueInv, ClockInv, TypeTimes, Reaction
    <2>3. CASE rp_pc = "top"
      BY <2>1, <2>3, ConfigAssumption, LagAssumption DEF DueInv, ClockInv, TypeTimes, Reaction
    <2>4. CASE rp_pc \notin {"start", "top", "done"}
      BY <2>1, <2>4, ConfigAssumption, LagAssumption DEF DueInv, ClockInv, TypeTimes, Reaction
    <2> QED
      BY <2>2, <2>3, <2>4
  <1> QED
    BY <1>1, <1>2, <1>3, ServerInvariant, PTL DEF Spec
=============================================================================
