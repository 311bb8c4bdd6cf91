--------------------------- MODULE RemoteKeyProofs ---------------------------
(***************************************************************************)
(* Machine-checked proofs about the remote keying server, for every set of *)
(* packets, every configuration and every timing of the threads that the   *)
(* assumptions of RemoteKey allow.                                         *)
(***************************************************************************)
EXTENDS RemoteKey, TLAPS

USE DEF vars, anchor, session, rxPkt, rxVars, rpFlags, rpVars, lines, plug,
        device

\* What Head, Tail and Append do on typed sequences.
LEMMA HeadTail ==
  ASSUME NEW S, NEW s \in Seq(S), s # <<>>
  PROVE  Head(s) \in S /\ Tail(s) \in Seq(S)
  OBVIOUS

LEMMA AppendType ==
  ASSUME NEW S, NEW s \in Seq(S), NEW e \in S
  PROVE  Append(s, e) \in Seq(S)
  OBVIOUS

\* The head of a buffer or of a packet that is not empty.
LEMMA HeadOfQueue ==
  ASSUME TypeData, queue # <<>>
  PROVE  Head(queue).at_us \in Nat /\ Head(queue).down \in BOOLEAN
  <1>1. Head(queue) \in scheduled_edge
    BY HeadTail DEF TypeData
  <1> QED
    BY <1>1 DEF scheduled_edge

LEMMA ElementOfQueue ==
  ASSUME TypeData, NEW i \in 1 .. Len(queue)
  PROVE  queue[i].at_us \in Nat
  <1>1. queue[i] \in scheduled_edge
    BY DEF TypeData
  <1> QED
    BY <1>1 DEF scheduled_edge

LEMMA HeadOfPacket ==
  ASSUME TypeData, rx_edges # <<>>
  PROVE  Head(rx_edges).ts_us \in Nat /\ Head(rx_edges).down \in BOOLEAN
  <1>1. Head(rx_edges) \in Edge
    BY HeadTail DEF TypeData
  <1> QED
    BY <1>1 DEF Edge

\* The playout time is a time: the clamp to rx_now excludes a negative one.
LEMMA ScheduledType ==
  ASSUME TypeTimes, NEW ts \in Nat
  PROVE  Scheduled(ts) \in Nat /\ Scheduled(ts) >= rx_now
  BY ConfigAssumption DEF Scheduled, AnchorLocal, Greater, TypeTimes

\* The replay thread sleeps until a time that is not before the iteration it
\* ends and not beyond the watchdog tick.
LEMMA WakeBounds ==
  ASSUME TypeTimes, TypeData, NEW ptt
  PROVE  /\ Greater(rp_now, WakeAt(ptt)) \in Nat
         /\ rp_now <= Greater(rp_now, WakeAt(ptt))
         /\ Greater(rp_now, WakeAt(ptt)) <= rp_now + WatchdogTick
  BY HeadOfQueue, ConfigAssumption DEF WakeAt, Lesser, Greater, TypeTimes

\* No interleaving of the two threads, of a stop and of device events leaves a
\* variable outside its type.
THEOREM TypeCorrect == Spec => []TypeOK
<1>1. Init => TypeOK
  <2>1. Init => TypeFlags
    BY EnvAssumption DEF Init, TypeFlags
  <2>2. Init => TypeControl
    BY DEF Init, TypeControl
  <2>3. Init => TypeTimes
    BY ConfigAssumption DEF Init, TypeTimes
  <2>4. Init => TypeData
    BY DEF Init, TypeData
  <2> QED
    BY <2>1, <2>2, <2>3, <2>4 DEF TypeOK
<1>2. TypeOK /\ [Next]_vars => TypeOK'
  <2> SUFFICES ASSUME TypeOK, [Next]_vars PROVE TypeOK'
    OBVIOUS
  <2>0. TypeFlags /\ TypeControl /\ TypeTimes /\ TypeData
    BY DEF TypeOK
  <2>1. ASSUME NEW pkt \in Packets, RxReceive(pkt) PROVE TypeOK'
    <3>0. pkt \in Packet
      BY PacketAssumption
    <3>1. TypeFlags'
      BY <2>0, <2>1, <3>0
      DEF RxReceive, TypeFlags, Packet
    <3>2. TypeControl'
      BY <2>0, <2>1, <3>0
      DEF RxReceive, TypeControl, Packet
    <3>3. TypeTimes'
      BY <2>0, <2>1, <3>0
      DEF RxReceive, TypeTimes, Packet
    <3>4. TypeData'
      BY <2>0, <2>1, <3>0
      DEF RxReceive, TypeData, Packet
    <3> QED
      BY <3>1, <3>2, <3>3, <3>4 DEF TypeOK
  <2>2. CASE RxSession
    <3>1. TypeFlags'
      BY <2>0, <2>2
      DEF RxSession, TypeFlags
    <3>2. TypeControl'
      BY <2>0, <2>2
      DEF RxSession, TypeControl
    <3>3. TypeTimes'
      BY <2>0, <2>2
      DEF RxSession, TypeTimes
    <3>4. TypeData'
      <4>1. queue' = <<>> \/ queue' = queue
        BY <2>2 DEF RxSession
      <4>2. <<>> \in Seq(scheduled_edge) /\ queue \in Seq(scheduled_edge)
        BY <2>0 DEF TypeData
      <4>3. queue' \in Seq(scheduled_edge)
        BY <4>1, <4>2
      <4> QED
        BY <2>0, <2>2, <4>3 DEF RxSession, TypeData
    <3> QED
      BY <3>1, <3>2, <3>3, <3>4 DEF TypeOK
  <2>3. CASE RxEdge
    <3>0. /\ Head(rx_edges).ts_us \in Nat /\ Head(rx_edges).down \in BOOLEAN
          /\ Scheduled(Head(rx_edges).ts_us) \in Nat
      BY <2>0, <2>3, HeadOfPacket, ScheduledType DEF RxEdge
    <3>1. TypeFlags'
      BY <2>0, <2>3, <3>0
      DEF RxEdge, TypeFlags
    <3>2. TypeControl'
      BY <2>0, <2>3, <3>0
      DEF RxEdge, TypeControl
    <3>3. TypeTimes'
      BY <2>0, <2>3, <3>0, ConfigAssumption
      DEF RxEdge, AnchorLocal, TypeTimes
    <3>4. TypeData'
      <4>1. [at_us |-> Scheduled(Head(rx_edges).ts_us),
             down |-> Head(rx_edges).down] \in scheduled_edge
        BY <3>0 DEF scheduled_edge
      <4>2. queue' \in Seq(scheduled_edge)
        BY <2>0, <2>3, <4>1, AppendType DEF RxEdge, TypeData
      <4>3. rx_edges' \in Seq(Edge)
        BY <2>0, <2>3, HeadTail DEF RxEdge, TypeData
      <4> QED
        BY <2>0, <2>3, <4>2, <4>3 DEF RxEdge, TypeData
    <3> QED
      BY <3>1, <3>2, <3>3, <3>4 DEF TypeOK
  <2>4. CASE RxRelease
    <3>1. TypeFlags'
      BY <2>0, <2>4
      DEF RxRelease, TypeFlags
    <3>2. TypeControl'
      BY <2>0, <2>4
      DEF RxRelease, TypeControl
    <3>3. TypeTimes'
      BY <2>0, <2>4
      DEF RxRelease, TypeTimes
    <3>4. TypeData'
      BY <2>0, <2>4
      DEF RxRelease, TypeData
    <3> QED
      BY <3>1, <3>2, <3>3, <3>4 DEF TypeOK
  <2>5. CASE RxExit
    <3>1. TypeFlags'
      BY <2>0, <2>5
      DEF RxExit, TypeFlags
    <3>2. TypeControl'
      BY <2>0, <2>5
      DEF RxExit, TypeControl
    <3>3. TypeTimes'
      BY <2>0, <2>5
      DEF RxExit, TypeTimes
    <3>4. TypeData'
      BY <2>0, <2>5
      DEF RxExit, TypeData
    <3> QED
      BY <3>1, <3>2, <3>3, <3>4 DEF TypeOK
  <2>6. CASE ReplayStart
    <3>1. TypeFlags'
      BY <2>0, <2>6
      DEF ReplayStart, open_port, TypeFlags
    <3>2. TypeControl'
      BY <2>0, <2>6
      DEF ReplayStart, open_port, TypeControl
    <3>3. TypeTimes'
      BY <2>0, <2>6
      DEF ReplayStart, open_port, TypeTimes
    <3>4. TypeData'
      BY <2>0, <2>6
      DEF ReplayStart, open_port, TypeData
    <3> QED
      BY <3>1, <3>2, <3>3, <3>4 DEF TypeOK
  <2>7. CASE ReplayTop
    <3>1. TypeFlags'
      BY <2>0, <2>7
      DEF ReplayTop, open_port, TypeFlags
    <3>2. TypeControl'
      BY <2>0, <2>7
      DEF ReplayTop, open_port, TypeControl
    <3>3. TypeTimes'
      BY <2>0, <2>7
      DEF ReplayTop, open_port, TypeTimes
    <3>4. TypeData'
      BY <2>0, <2>7
      DEF ReplayTop, open_port, TypeData
    <3> QED
      BY <3>1, <3>2, <3>3, <3>4 DEF TypeOK
  <2>8. CASE ReplayReset
    <3>1. TypeFlags'
      BY <2>0, <2>8
      DEF ReplayReset, force_safe, set_key, set_ptt, TypeFlags
    <3>2. TypeControl'
      BY <2>0, <2>8
      DEF ReplayReset, force_safe, set_key, set_ptt, TypeControl
    <3>3. TypeTimes'
      BY <2>0, <2>8
      DEF ReplayReset, force_safe, set_key, set_ptt, TypeTimes
    <3>4. TypeData'
      BY <2>0, <2>8
      DEF ReplayReset, force_safe, set_key, set_ptt, TypeData
    <3> QED
      BY <3>1, <3>2, <3>3, <3>4 DEF TypeOK
  <2>9. CASE ReplayLoad
    <3>1. TypeFlags'
      BY <2>0, <2>9
      DEF ReplayLoad, TypeFlags
    <3>2. TypeControl'
      BY <2>0, <2>9
      DEF ReplayLoad, TypeControl
    <3>3. TypeTimes'
      BY <2>0, <2>9
      DEF ReplayLoad, TypeTimes
    <3>4. TypeData'
      BY <2>0, <2>9
      DEF ReplayLoad, TypeData
    <3> QED
      BY <3>1, <3>2, <3>3, <3>4 DEF TypeOK
  <2>10. CASE ReplaySilence
    <3>1. TypeFlags'
      BY <2>0, <2>10
      DEF ReplaySilence, force_safe, set_key, set_ptt, TypeFlags
    <3>2. TypeControl'
      BY <2>0, <2>10
      DEF ReplaySilence, force_safe, set_key, set_ptt, TypeControl
    <3>3. TypeTimes'
      BY <2>0, <2>10
      DEF ReplaySilence, force_safe, set_key, set_ptt, TypeTimes
    <3>4. TypeData'
      BY <2>0, <2>10
      DEF ReplaySilence, force_safe, set_key, set_ptt, TypeData
    <3> QED
      BY <3>1, <3>2, <3>3, <3>4 DEF TypeOK
  <2>11. CASE ReplayClear
    <3>1. TypeFlags'
      BY <2>0, <2>11
      DEF ReplayClear, TypeFlags
    <3>2. TypeControl'
      BY <2>0, <2>11
      DEF ReplayClear, TypeControl
    <3>3. TypeTimes'
      BY <2>0, <2>11
      DEF ReplayClear, TypeTimes
    <3>4. TypeData'
      BY <2>0, <2>11
      DEF ReplayClear, TypeData
    <3> QED
      BY <3>1, <3>2, <3>3, <3>4 DEF TypeOK
  <2>12. CASE ReplayWatchdog
    <3>1. TypeFlags'
      BY <2>0, <2>12
      DEF ReplayWatchdog, set_key, TypeFlags
    <3>2. TypeControl'
      BY <2>0, <2>12
      DEF ReplayWatchdog, set_key, TypeControl
    <3>3. TypeTimes'
      BY <2>0, <2>12
      DEF ReplayWatchdog, set_key, TypeTimes
    <3>4. TypeData'
      BY <2>0, <2>12
      DEF ReplayWatchdog, set_key, TypeData
    <3> QED
      BY <3>1, <3>2, <3>3, <3>4 DEF TypeOK
  <2>13. CASE ReplayApply
    <3>0. Head(queue).down \in BOOLEAN
      BY <2>0, <2>13, HeadOfQueue DEF ReplayApply, Due
    <3>1. TypeFlags'
      BY <2>0, <2>13, <3>0
      DEF ReplayApply, set_key, set_ptt, TypeFlags
    <3>2. TypeControl'
      BY <2>0, <2>13
      DEF ReplayApply, set_key, set_ptt, TypeControl
    <3>3. TypeTimes'
      BY <2>0, <2>13, ConfigAssumption
      DEF ReplayApply, set_key, set_ptt, TypeTimes
    <3>4. TypeData'
      BY <2>0, <2>13, HeadTail
      DEF ReplayApply, set_key, set_ptt, TypeData, Due
    <3> QED
      BY <3>1, <3>2, <3>3, <3>4 DEF TypeOK
  <2>14. CASE ReplayPeek
    <3>1. TypeFlags'
      BY <2>0, <2>14
      DEF ReplayPeek, set_ptt, TypeFlags
    <3>2. TypeControl'
      BY <2>0, <2>14
      DEF ReplayPeek, set_ptt, TypeControl
    <3>3. TypeTimes'
      BY <2>0, <2>14, WakeBounds
      DEF ReplayPeek, set_ptt, TypeTimes
    <3>4. TypeData'
      BY <2>0, <2>14
      DEF ReplayPeek, set_ptt, TypeData
    <3> QED
      BY <3>1, <3>2, <3>3, <3>4 DEF TypeOK
  <2>15. CASE ReplayExit
    <3>1. TypeFlags'
      BY <2>0, <2>15
      DEF ReplayExit, force_safe, set_key, set_ptt, TypeFlags
    <3>2. TypeControl'
      BY <2>0, <2>15
      DEF ReplayExit, force_safe, set_key, set_ptt, TypeControl
    <3>3. TypeTimes'
      BY <2>0, <2>15
      DEF ReplayExit, force_safe, set_key, set_ptt, TypeTimes
    <3>4. TypeData'
      BY <2>0, <2>15
      DEF ReplayExit, force_safe, set_key, set_ptt, TypeData
    <3> QED
      BY <3>1, <3>2, <3>3, <3>4 DEF TypeOK
  <2>16. CASE Stop
    <3>1. TypeFlags'
      BY <2>0, <2>16
      DEF Stop, TypeFlags
    <3>2. TypeControl'
      BY <2>0, <2>16
      DEF Stop, TypeControl
    <3>3. TypeTimes'
      BY <2>0, <2>16
      DEF Stop, TypeTimes
    <3>4. TypeData'
      BY <2>0, <2>16
      DEF Stop, TypeData
    <3> QED
      BY <3>1, <3>2, <3>3, <3>4 DEF TypeOK
  <2>17. CASE Close
    <3>1. TypeFlags'
      BY <2>0, <2>17
      DEF Close, TypeFlags
    <3>2. TypeControl'
      BY <2>0, <2>17
      DEF Close, TypeControl
    <3>3. TypeTimes'
      BY <2>0, <2>17
      DEF Close, TypeTimes
    <3>4. TypeData'
      BY <2>0, <2>17
      DEF Close, TypeData
    <3> QED
      BY <3>1, <3>2, <3>3, <3>4 DEF TypeOK
  <2>18. CASE Unplug
    <3>1. TypeFlags'
      BY <2>0, <2>18
      DEF Unplug, TypeFlags
    <3>2. TypeControl'
      BY <2>0, <2>18
      DEF Unplug, TypeControl
    <3>3. TypeTimes'
      BY <2>0, <2>18
      DEF Unplug, TypeTimes
    <3>4. TypeData'
      BY <2>0, <2>18
      DEF Unplug, TypeData
    <3> QED
      BY <3>1, <3>2, <3>3, <3>4 DEF TypeOK
  <2>19. CASE Plug
    <3>1. TypeFlags'
      BY <2>0, <2>19
      DEF Plug, TypeFlags
    <3>2. TypeControl'
      BY <2>0, <2>19
      DEF Plug, TypeControl
    <3>3. TypeTimes'
      BY <2>0, <2>19
      DEF Plug, TypeTimes
    <3>4. TypeData'
      BY <2>0, <2>19
      DEF Plug, TypeData
    <3> QED
      BY <3>1, <3>2, <3>3, <3>4 DEF TypeOK
  <2>20. CASE Tick
    <3>1. TypeFlags'
      BY <2>0, <2>20
      DEF Tick, TypeFlags
    <3>2. TypeControl'
      BY <2>0, <2>20
      DEF Tick, TypeControl
    <3>3. TypeTimes'
      BY <2>0, <2>20
      DEF Tick, TypeTimes
    <3>4. TypeData'
      BY <2>0, <2>20
      DEF Tick, TypeData
    <3> QED
      BY <3>1, <3>2, <3>3, <3>4 DEF TypeOK
  <2>21. CASE UNCHANGED vars
    <3>1. TypeFlags'
      BY <2>0, <2>21
      DEF TypeFlags
    <3>2. TypeControl'
      BY <2>0, <2>21
      DEF TypeControl
    <3>3. TypeTimes'
      BY <2>0, <2>21
      DEF TypeTimes
    <3>4. TypeData'
      BY <2>0, <2>21
      DEF TypeData
    <3> QED
      BY <3>1, <3>2, <3>3, <3>4 DEF TypeOK
  <2> QED
    BY <2>1, <2>2, <2>3, <2>4, <2>5, <2>6, <2>7, <2>8, <2>9, <2>10, <2>11,
       <2>12, <2>13, <2>14, <2>15, <2>16, <2>17, <2>18, <2>19, <2>20, <2>21
    DEF Next, Receive, Replay
<1> QED
  BY <1>1, <1>2, PTL DEF Spec

-----------------------------------------------------------------------------
\* The clock: no time stamp lies in the future, the replay thread is at most
\* MaxLag behind its wake time or its iteration, and the receive thread at most
\* RxLag behind the packet it handles.
ClockInv ==
  /\ 0 < clock /\ last_rx_us = rx_now /\ rx_now <= clock
  /\ rp_now <= clock /\ keyed_at <= clock
  /\ rp_pc = "top" => clock <= wake + MaxLag
  /\ rp_pc \notin {"top", "done"} => clock <= rp_now + MaxLag
  /\ rx_pc \in {"session", "edges"} => clock <= rx_now + RxLag

\* The lines: they are high only through an open descriptor, and only with
\* their flags.
LinesInv ==
  /\ rp_pc = "start" => fd = "none" /\ ~key_is_down /\ ~ptt_is_on
  /\ dtr \/ rts => fd = "open"
  /\ LinesTracked

\* The stuck-key watchdog: after its test the key has been down for at most
\* MaxKeyDown, and one sleep later for at most a tick and a lag more.
KeyInv ==
  /\ key_down_since_us <= rp_now
  /\ dtr => key_down_since_us <= keyed_at
  /\ key_is_down =>
       /\ rp_pc \in {"top", "apply"} => rp_now <= key_down_since_us + MaxKeyDown
       /\ rp_pc = "top" => wake <= rp_now + WatchdogTick
       /\ rp_pc \in {"reset", "load", "silence", "clear", "watchdog"} =>
            rp_now <= key_down_since_us + MaxKeyDown + WatchdogTick + MaxLag

\* Every step keeps the clock relations.
LEMMA ClockStep ==
  ASSUME TypeOK, ClockInv, [Next]_vars
  PROVE  ClockInv'
  <1>0. TypeFlags /\ TypeControl /\ TypeTimes /\ TypeData
    BY DEF TypeOK
  <1>1. ASSUME NEW pkt \in Packets, RxReceive(pkt) PROVE ClockInv'
    BY <1>0, <1>1, LagAssumption
    DEF RxReceive, ClockInv, TypeControl, TypeTimes
  <1>2. CASE RxSession
    BY <1>0, <1>2, LagAssumption
    DEF RxSession, ClockInv, TypeControl, TypeTimes
  <1>3. CASE RxEdge
    BY <1>0, <1>3, LagAssumption
    DEF RxEdge, ClockInv, TypeControl, TypeTimes
  <1>4. CASE RxRelease
    BY <1>0, <1>4, LagAssumption
    DEF RxRelease, ClockInv, TypeControl, TypeTimes
  <1>5. CASE RxExit
    BY <1>0, <1>5, LagAssumption
    DEF RxExit, ClockInv, TypeControl, TypeTimes
  <1>6. CASE ReplayStart
    BY <1>0, <1>6, LagAssumption
    DEF ReplayStart, open_port, ClockInv, TypeControl, TypeTimes
  <1>7. CASE ReplayTop
    <2>1. /\ rp_now' = clock /\ rp_pc' = "reset" /\ keyed_at' = keyed_at
          /\ UNCHANGED <<clock, last_rx_us, rx_now, rx_pc>>
      BY <1>7 DEF ReplayTop, open_port
    <2> QED
      BY <1>0, <2>1, LagAssumption DEF ClockInv, TypeControl, TypeTimes
  <1>8. CASE ReplayReset
    BY <1>0, <1>8, LagAssumption
    DEF ReplayReset, force_safe, set_key, set_ptt, ClockInv, TypeControl,
        TypeTimes
  <1>9. CASE ReplayLoad
    BY <1>0, <1>9, LagAssumption
    DEF ReplayLoad, ClockInv, TypeControl, TypeTimes
  <1>10. CASE ReplaySilence
    BY <1>0, <1>10, LagAssumption
    DEF ReplaySilence, force_safe, set_key, set_ptt, ClockInv, TypeControl,
        TypeTimes
  <1>11. CASE ReplayClear
    BY <1>0, <1>11, LagAssumption
    DEF ReplayClear, ClockInv, TypeControl, TypeTimes
  <1>12. CASE ReplayWatchdog
    BY <1>0, <1>12, LagAssumption
    DEF ReplayWatchdog, set_key, ClockInv, TypeControl, TypeTimes
  <1>13. CASE ReplayApply
    BY <1>0, <1>13, LagAssumption
    DEF ReplayApply, set_key, set_ptt, ClockInv, TypeControl, TypeTimes
  <1>14. CASE ReplayPeek
    BY <1>0, <1>14, LagAssumption, WakeBounds
    DEF ReplayPeek, set_ptt, ClockInv, TypeControl, TypeTimes
  <1>15. CASE ReplayExit
    BY <1>0, <1>15, LagAssumption
    DEF ReplayExit, force_safe, set_key, set_ptt, ClockInv, TypeControl,
        TypeTimes
  <1>16. CASE Stop
    BY <1>0, <1>16, LagAssumption
    DEF Stop, ClockInv, TypeControl, TypeTimes
  <1>17. CASE Close
    BY <1>0, <1>17, LagAssumption
    DEF Close, ClockInv, TypeControl, TypeTimes
  <1>18. CASE Unplug
    BY <1>0, <1>18, LagAssumption
    DEF Unplug, ClockInv, TypeControl, TypeTimes
  <1>19. CASE Plug
    BY <1>0, <1>19, LagAssumption
    DEF Plug, ClockInv, TypeControl, TypeTimes
  <1>20. CASE Tick
    BY <1>0, <1>20, LagAssumption
    DEF Tick, ClockInv, TypeControl, TypeTimes, ReplayOnTime, ReceiveOnTime
  <1>21. CASE UNCHANGED vars
    BY <1>0, <1>21, LagAssumption
    DEF ClockInv, TypeControl, TypeTimes
  <1> QED
    BY <1>1, <1>2, <1>3, <1>4, <1>5, <1>6, <1>7, <1>8, <1>9, <1>10, <1>11,
       <1>12, <1>13, <1>14, <1>15, <1>16, <1>17, <1>18, <1>19, <1>20, <1>21
    DEF Next, Receive, Replay

\* Every step keeps the lines under their flags.
LEMMA LinesStep ==
  ASSUME TypeOK, LinesInv, [Next]_vars
  PROVE  LinesInv'
  <1>0. TypeFlags /\ TypeControl /\ TypeTimes /\ TypeData
    BY DEF TypeOK
  <1>1. ASSUME NEW pkt \in Packets, RxReceive(pkt) PROVE LinesInv'
    BY <1>0, <1>1
    DEF RxReceive, LinesInv, LinesTracked, TypeFlags, TypeControl
  <1>2. CASE RxSession
    BY <1>0, <1>2
    DEF RxSession, LinesInv, LinesTracked, TypeFlags, TypeControl
  <1>3. CASE RxEdge
    BY <1>0, <1>3
    DEF RxEdge, LinesInv, LinesTracked, TypeFlags, TypeControl
  <1>4. CASE RxRelease
    BY <1>0, <1>4
    DEF RxRelease, LinesInv, LinesTracked, TypeFlags, TypeControl
  <1>5. CASE RxExit
    BY <1>0, <1>5
    DEF RxExit, LinesInv, LinesTracked, TypeFlags, TypeControl
  <1>6. CASE ReplayStart
    BY <1>0, <1>6
    DEF ReplayStart, open_port, LinesInv, LinesTracked, TypeFlags, TypeControl
  <1>7. CASE ReplayTop
    BY <1>0, <1>7
    DEF ReplayTop, open_port, LinesInv, LinesTracked, TypeFlags, TypeControl,
        RetryDue
  <1>8. CASE ReplayReset
    BY <1>0, <1>8
    DEF ReplayReset, force_safe, set_key, set_ptt, LinesInv, LinesTracked,
        TypeFlags, TypeControl
  <1>9. CASE ReplayLoad
    BY <1>0, <1>9
    DEF ReplayLoad, LinesInv, LinesTracked, TypeFlags, TypeControl
  <1>10. CASE ReplaySilence
    BY <1>0, <1>10
    DEF ReplaySilence, force_safe, set_key, set_ptt, LinesInv, LinesTracked,
        TypeFlags, TypeControl
  <1>11. CASE ReplayClear
    BY <1>0, <1>11
    DEF ReplayClear, LinesInv, LinesTracked, TypeFlags, TypeControl
  <1>12. CASE ReplayWatchdog
    BY <1>0, <1>12
    DEF ReplayWatchdog, set_key, LinesInv, LinesTracked, TypeFlags,
        TypeControl
  <1>13. CASE ReplayApply
    <2>1. Head(queue).down \in BOOLEAN
      BY <1>0, <1>13, HeadOfQueue DEF ReplayApply, Due
    <2>2. /\ key_is_down' = Head(queue).down /\ rp_pc = "apply"
          /\ rp_pc' = rp_pc /\ fd' = fd
      BY <1>13 DEF ReplayApply
    <2>3. dtr' => fd = "open" /\ key_is_down'
      BY <1>0, <1>13, <2>1, <2>2
      DEF ReplayApply, set_key, LinesInv, LinesTracked, TypeFlags
    <2>4. rts' => fd = "open" /\ ptt_is_on'
      BY <1>0, <1>13, <2>1, <2>2
      DEF ReplayApply, set_ptt, LinesInv, LinesTracked, TypeFlags
    <2> QED
      BY <2>2, <2>3, <2>4 DEF LinesInv, LinesTracked
  <1>14. CASE ReplayPeek
    BY <1>0, <1>14
    DEF ReplayPeek, set_ptt, LinesInv, LinesTracked, TypeFlags, TypeControl
  <1>15. CASE ReplayExit
    BY <1>0, <1>15
    DEF ReplayExit, force_safe, set_key, set_ptt, LinesInv, LinesTracked,
        TypeFlags, TypeControl
  <1>16. CASE Stop
    BY <1>0, <1>16
    DEF Stop, LinesInv, LinesTracked, TypeFlags, TypeControl
  <1>17. CASE Close
    BY <1>0, <1>17
    DEF Close, LinesInv, LinesTracked, TypeFlags, TypeControl
  <1>18. CASE Unplug
    BY <1>0, <1>18
    DEF Unplug, LinesInv, LinesTracked, TypeFlags, TypeControl
  <1>19. CASE Plug
    BY <1>0, <1>19
    DEF Plug, LinesInv, LinesTracked, TypeFlags, TypeControl
  <1>20. CASE Tick
    BY <1>0, <1>20
    DEF Tick, LinesInv, LinesTracked, TypeFlags, TypeControl
  <1>21. CASE UNCHANGED vars
    BY <1>0, <1>21
    DEF LinesInv, LinesTracked, TypeFlags, TypeControl
  <1> QED
    BY <1>1, <1>2, <1>3, <1>4, <1>5, <1>6, <1>7, <1>8, <1>9, <1>10, <1>11,
       <1>12, <1>13, <1>14, <1>15, <1>16, <1>17, <1>18, <1>19, <1>20, <1>21
    DEF Next, Receive, Replay

\* Every step keeps the bound on the time the key is down.
LEMMA KeyStep ==
  ASSUME TypeOK, ClockInv, LinesInv, KeyInv, [Next]_vars
  PROVE  KeyInv'
  <1>0. TypeFlags /\ TypeControl /\ TypeTimes /\ TypeData
    BY DEF TypeOK
  <1>1. ASSUME NEW pkt \in Packets, RxReceive(pkt) PROVE KeyInv'
    BY <1>0, <1>1, ConfigAssumption, LagAssumption
    DEF RxReceive, ClockInv, LinesInv, LinesTracked, KeyInv, TypeFlags,
        TypeControl, TypeTimes
  <1>2. CASE RxSession
    BY <1>0, <1>2, ConfigAssumption, LagAssumption
    DEF RxSession, ClockInv, LinesInv, LinesTracked, KeyInv, TypeFlags,
        TypeControl, TypeTimes
  <1>3. CASE RxEdge
    BY <1>0, <1>3, ConfigAssumption, LagAssumption
    DEF RxEdge, ClockInv, LinesInv, LinesTracked, KeyInv, TypeFlags,
        TypeControl, TypeTimes
  <1>4. CASE RxRelease
    BY <1>0, <1>4, ConfigAssumption, LagAssumption
    DEF RxRelease, ClockInv, LinesInv, LinesTracked, KeyInv, TypeFlags,
        TypeControl, TypeTimes
  <1>5. CASE RxExit
    BY <1>0, <1>5, ConfigAssumption, LagAssumption
    DEF RxExit, ClockInv, LinesInv, LinesTracked, KeyInv, TypeFlags,
        TypeControl, TypeTimes
  <1>6. CASE ReplayStart
    BY <1>0, <1>6, ConfigAssumption, LagAssumption
    DEF ReplayStart, open_port, ClockInv, LinesInv, LinesTracked, KeyInv,
        TypeFlags, TypeControl, TypeTimes
  <1>7. CASE ReplayTop
    <2>1. /\ rp_now' = clock /\ rp_pc = "top" /\ rp_pc' = "reset"
          /\ UNCHANGED <<key_is_down, key_down_since_us, wake>>
      BY <1>7 DEF ReplayTop
    <2>2. (dtr' => dtr) /\ keyed_at' = keyed_at
      BY <1>7 DEF ReplayTop, open_port
    <2> QED
      BY <1>0, <2>1, <2>2, ConfigAssumption, LagAssumption
      DEF ClockInv, KeyInv, TypeControl, TypeTimes
  <1>8. CASE ReplayReset
    BY <1>0, <1>8, ConfigAssumption, LagAssumption
    DEF ReplayReset, force_safe, set_key, set_ptt, ClockInv, LinesInv,
        LinesTracked, KeyInv, TypeFlags, TypeControl, TypeTimes
  <1>9. CASE ReplayLoad
    BY <1>0, <1>9, ConfigAssumption, LagAssumption
    DEF ReplayLoad, ClockInv, LinesInv, LinesTracked, KeyInv, TypeFlags,
        TypeControl, TypeTimes
  <1>10. CASE ReplaySilence
    BY <1>0, <1>10, ConfigAssumption, LagAssumption
    DEF ReplaySilence, force_safe, set_key, set_ptt, ClockInv, LinesInv,
        LinesTracked, KeyInv, TypeFlags, TypeControl, TypeTimes
  <1>11. CASE ReplayClear
    BY <1>0, <1>11, ConfigAssumption, LagAssumption
    DEF ReplayClear, ClockInv, LinesInv, LinesTracked, KeyInv, TypeFlags,
        TypeControl, TypeTimes
  <1>12. CASE ReplayWatchdog
    <2>1. /\ rp_pc = "watchdog" /\ rp_pc' = "apply"
          /\ UNCHANGED <<rp_now, key_down_since_us>>
      BY <1>12 DEF ReplayWatchdog
    <2>2. keyed_at' = keyed_at /\ (dtr' => dtr)
      BY <1>12 DEF ReplayWatchdog, set_key
    <2>3. Sub64(rp_now, key_down_since_us) = rp_now - key_down_since_us
      BY <1>0 DEF Sub64, KeyInv, TypeTimes
    <2>4. key_is_down' => ~(Sub64(rp_now, key_down_since_us) > MaxKeyDown)
      BY <1>12 DEF ReplayWatchdog, StuckKey
    <2> QED
      BY <1>0, <2>1, <2>2, <2>3, <2>4, ConfigAssumption
      DEF KeyInv, TypeControl, TypeTimes
  <1>13. CASE ReplayApply
    BY <1>0, <1>13, ConfigAssumption, LagAssumption
    DEF ReplayApply, set_key, set_ptt, ClockInv, LinesInv, LinesTracked,
        KeyInv, TypeFlags, TypeControl, TypeTimes
  <1>14. CASE ReplayPeek
    BY <1>0, <1>14, ConfigAssumption, LagAssumption, WakeBounds
    DEF ReplayPeek, set_ptt, ClockInv, LinesInv, LinesTracked, KeyInv,
        TypeFlags, TypeControl, TypeTimes
  <1>15. CASE ReplayExit
    BY <1>0, <1>15, ConfigAssumption, LagAssumption
    DEF ReplayExit, force_safe, set_key, set_ptt, ClockInv, LinesInv,
        LinesTracked, KeyInv, TypeFlags, TypeControl, TypeTimes
  <1>16. CASE Stop
    BY <1>0, <1>16, ConfigAssumption, LagAssumption
    DEF Stop, ClockInv, LinesInv, LinesTracked, KeyInv, TypeFlags,
        TypeControl, TypeTimes
  <1>17. CASE Close
    BY <1>0, <1>17, ConfigAssumption, LagAssumption
    DEF Close, ClockInv, LinesInv, LinesTracked, KeyInv, TypeFlags,
        TypeControl, TypeTimes
  <1>18. CASE Unplug
    BY <1>0, <1>18, ConfigAssumption, LagAssumption
    DEF Unplug, ClockInv, LinesInv, LinesTracked, KeyInv, TypeFlags,
        TypeControl, TypeTimes
  <1>19. CASE Plug
    BY <1>0, <1>19, ConfigAssumption, LagAssumption
    DEF Plug, ClockInv, LinesInv, LinesTracked, KeyInv, TypeFlags,
        TypeControl, TypeTimes
  <1>20. CASE Tick
    BY <1>0, <1>20, ConfigAssumption, LagAssumption
    DEF Tick, ClockInv, LinesInv, LinesTracked, KeyInv, TypeFlags,
        TypeControl, TypeTimes
  <1>21. CASE UNCHANGED vars
    BY <1>0, <1>21, ConfigAssumption, LagAssumption
    DEF ClockInv, LinesInv, LinesTracked, KeyInv, TypeFlags, TypeControl,
        TypeTimes
  <1> QED
    BY <1>1, <1>2, <1>3, <1>4, <1>5, <1>6, <1>7, <1>8, <1>9, <1>10, <1>11,
       <1>12, <1>13, <1>14, <1>15, <1>16, <1>17, <1>18, <1>19, <1>20, <1>21
    DEF Next, Receive, Replay

-----------------------------------------------------------------------------
\* The silence watchdog: after its test, a flag that is set and an edge that is
\* queued have a recent packet behind them.
SilenceInv ==
  /\ rx_seen <= last_rx_us
  /\ last_rx_us = 0 =>
       /\ queue = <<>> /\ ~key_is_down /\ ~ptt_is_on
       /\ rx_pc \in {"recv", "done"}
  /\ rp_pc = "clear" => ~key_is_down /\ ~ptt_is_on
  /\ key_is_down \/ ptt_is_on =>
       /\ rp_pc \in {"top", "watchdog", "apply"} => rp_now <= last_rx_us + Silence
       /\ rp_pc = "top" => wake <= rp_now + WatchdogTick
       /\ rp_pc \in {"reset", "load", "silence"} =>
            rp_now <= last_rx_us + Silence + WatchdogTick + MaxLag
  /\ rp_pc \in {"watchdog", "apply"} /\ queue # <<>> =>
       rp_now <= last_rx_us + Silence

\* Every step keeps a recent packet behind what is keyed and what is queued.
LEMMA SilenceStep ==
  ASSUME TypeOK, ClockInv, LinesInv, SilenceInv, [Next]_vars
  PROVE  SilenceInv'
  <1>0. TypeFlags /\ TypeControl /\ TypeTimes /\ TypeData
    BY DEF TypeOK
  <1>1. ASSUME NEW pkt \in Packets, RxReceive(pkt) PROVE SilenceInv'
    BY <1>0, <1>1, ConfigAssumption, LagAssumption
    DEF RxReceive, ClockInv, SilenceInv, TypeFlags, TypeControl, TypeTimes
  <1>2. CASE RxSession
    BY <1>0, <1>2, ConfigAssumption, LagAssumption
    DEF RxSession, ClockInv, SilenceInv, TypeFlags, TypeControl, TypeTimes
  <1>3. CASE RxEdge
    BY <1>0, <1>3, ConfigAssumption, LagAssumption, PromptAssumption
    DEF RxEdge, ClockInv, SilenceInv, TypeFlags, TypeControl, TypeTimes
  <1>4. CASE RxRelease
    BY <1>0, <1>4, ConfigAssumption, LagAssumption
    DEF RxRelease, ClockInv, SilenceInv, TypeFlags, TypeControl, TypeTimes
  <1>5. CASE RxExit
    BY <1>0, <1>5, ConfigAssumption, LagAssumption
    DEF RxExit, ClockInv, SilenceInv, TypeFlags, TypeControl, TypeTimes
  <1>6. CASE ReplayStart
    BY <1>0, <1>6, ConfigAssumption, LagAssumption
    DEF ReplayStart, open_port, ClockInv, SilenceInv, TypeFlags, TypeControl,
        TypeTimes, LinesInv
  <1>7. CASE ReplayTop
    BY <1>0, <1>7, ConfigAssumption, LagAssumption
    DEF ReplayTop, open_port, ClockInv, SilenceInv, TypeFlags, TypeControl,
        TypeTimes
  <1>8. CASE ReplayReset
    BY <1>0, <1>8, ConfigAssumption, LagAssumption
    DEF ReplayReset, force_safe, set_key, set_ptt, ClockInv, SilenceInv,
        TypeFlags, TypeControl, TypeTimes
  <1>9. CASE ReplayLoad
    BY <1>0, <1>9, ConfigAssumption, LagAssumption
    DEF ReplayLoad, ClockInv, SilenceInv, TypeFlags, TypeControl, TypeTimes
  <1>10. CASE ReplaySilence
    <2>1. /\ rp_pc = "silence"
          /\ UNCHANGED <<rx_seen, last_rx_us, rx_pc, queue, rp_now, wake>>
      BY <1>10 DEF ReplaySilence
    <2>2. (key_is_down' => key_is_down) /\ (ptt_is_on' => ptt_is_on)
      BY <1>10 DEF ReplaySilence
    <2>3. CASE Silent
      <3>1. rp_pc' = "clear" /\ ~key_is_down' /\ ~ptt_is_on'
        BY <1>0, <1>10, <2>3 DEF ReplaySilence, TypeFlags
      <3> QED
        BY <1>0, <2>1, <3>1 DEF SilenceInv
    <2>4. CASE ~Silent
      <3>1. rp_pc' = "watchdog"
        BY <1>10, <2>4 DEF ReplaySilence
      <3>2. last_rx_us # 0 => rp_now <= last_rx_us + Silence
        BY <1>0, <2>4, ConfigAssumption
        DEF Silent, Sub64, SilenceInv, TypeTimes
      <3> QED
        BY <1>0, <2>1, <2>2, <3>1, <3>2 DEF SilenceInv
    <2> QED
      BY <2>3, <2>4
  <1>11. CASE ReplayClear
    BY <1>0, <1>11, ConfigAssumption, LagAssumption
    DEF ReplayClear, ClockInv, SilenceInv, TypeFlags, TypeControl, TypeTimes
  <1>12. CASE ReplayWatchdog
    BY <1>0, <1>12, ConfigAssumption, LagAssumption
    DEF ReplayWatchdog, set_key, ClockInv, SilenceInv, TypeFlags, TypeControl,
        TypeTimes
  <1>13. CASE ReplayApply
    BY <1>0, <1>13, ConfigAssumption, LagAssumption
    DEF ReplayApply, set_key, set_ptt, ClockInv, SilenceInv, TypeFlags,
        TypeControl, TypeTimes, Due
  <1>14. CASE ReplayPeek
    BY <1>0, <1>14, ConfigAssumption, LagAssumption, WakeBounds
    DEF ReplayPeek, set_ptt, ClockInv, SilenceInv, TypeFlags, TypeControl,
        TypeTimes, KeyDownBy
  <1>15. CASE ReplayExit
    BY <1>0, <1>15, ConfigAssumption, LagAssumption
    DEF ReplayExit, force_safe, set_key, set_ptt, ClockInv, SilenceInv,
        TypeFlags, TypeControl, TypeTimes
  <1>16. CASE Stop
    BY <1>0, <1>16, ConfigAssumption, LagAssumption
    DEF Stop, ClockInv, SilenceInv, TypeFlags, TypeControl, TypeTimes
  <1>17. CASE Close
    BY <1>0, <1>17, ConfigAssumption, LagAssumption
    DEF Close, ClockInv, SilenceInv, TypeFlags, TypeControl, TypeTimes
  <1>18. CASE Unplug
    BY <1>0, <1>18, ConfigAssumption, LagAssumption
    DEF Unplug, ClockInv, SilenceInv, TypeFlags, TypeControl, TypeTimes
  <1>19. CASE Plug
    BY <1>0, <1>19, ConfigAssumption, LagAssumption
    DEF Plug, ClockInv, SilenceInv, TypeFlags, TypeControl, TypeTimes
  <1>20. CASE Tick
    BY <1>0, <1>20, ConfigAssumption, LagAssumption
    DEF Tick, ClockInv, SilenceInv, TypeFlags, TypeControl, TypeTimes
  <1>21. CASE UNCHANGED vars
    BY <1>0, <1>21, ConfigAssumption, LagAssumption
    DEF ClockInv, SilenceInv, TypeFlags, TypeControl, TypeTimes
  <1> QED
    BY <1>1, <1>2, <1>3, <1>4, <1>5, <1>6, <1>7, <1>8, <1>9, <1>10, <1>11,
       <1>12, <1>13, <1>14, <1>15, <1>16, <1>17, <1>18, <1>19, <1>20, <1>21
    DEF Next, Receive, Replay

-----------------------------------------------------------------------------
\* The jitter buffer: without an anchor it is empty, and with one no edge in it
\* is to be played after the edge last enqueued would be.
QueueInv ==
  /\ ~have_anchor => queue = <<>>
  /\ have_anchor => anchor_src_us <= last_enqueued_src
  /\ \A i \in 1 .. Len(queue) :
       queue[i].at_us <=
         Greater(rx_now, anchor_local_us + (last_enqueued_src - anchor_src_us))
  /\ QueueOrdered

\* Every step keeps the buffer in playout order.
LEMMA QueueStep ==
  ASSUME TypeOK, ClockInv, QueueInv, [Next]_vars
  PROVE  QueueInv'
  <1>0. TypeFlags /\ TypeControl /\ TypeTimes /\ TypeData
    BY DEF TypeOK
  <1>1. ASSUME NEW pkt \in Packets, RxReceive(pkt) PROVE QueueInv'
    <2>1. /\ rx_now <= clock /\ rx_now' = clock
          /\ UNCHANGED <<queue, anchor>>
      BY <1>1 DEF RxReceive, ClockInv
    <2>2. Greater(rx_now, anchor_local_us + (last_enqueued_src - anchor_src_us))
            <= Greater(clock,
                       anchor_local_us + (last_enqueued_src - anchor_src_us))
      BY <1>0, <2>1 DEF Greater, TypeTimes
    <2>3. ASSUME NEW i \in 1 .. Len(queue)
          PROVE  queue[i].at_us <=
                   Greater(clock,
                           anchor_local_us + (last_enqueued_src - anchor_src_us))
      BY <1>0, <2>1, <2>2, <2>3, ElementOfQueue DEF QueueInv, Greater, TypeTimes
    <2> QED
      BY <2>1, <2>3 DEF QueueInv, QueueOrdered
  <1>2. CASE RxSession
    BY <1>0, <1>2
    DEF RxSession, QueueInv, QueueOrdered
  <1>3. CASE RxEdge
    <2> DEFINE ts == Head(rx_edges).ts_us
               bound == Greater(rx_now, anchor_local_us +
                                          (last_enqueued_src - anchor_src_us))
    <2>1. ts \in Nat /\ Scheduled(ts) \in Nat /\ rx_now' = rx_now
      BY <1>0, <1>3, HeadOfPacket, ScheduledType DEF RxEdge
    <2>2. CASE ts <= last_enqueued_src
      BY <1>0, <1>3, <2>1, <2>2 DEF RxEdge, Duplicate, QueueInv, QueueOrdered, TypeTimes
    <2>3. CASE ts > last_enqueued_src
      <3>1. /\ have_anchor' = TRUE /\ last_enqueued_src' = ts
            /\ anchor_src_us' = IF have_anchor THEN anchor_src_us ELSE ts
            /\ anchor_local_us' = IF have_anchor THEN anchor_local_us
                                                 ELSE rx_now + Playout
            /\ queue' = Append(queue, [at_us |-> Scheduled(ts),
                                        down |-> Head(rx_edges).down])
        BY <1>0, <1>3, <2>1, <2>3 DEF RxEdge, Duplicate, AnchorLocal, TypeTimes
      <3>2. anchor_src_us' <= last_enqueued_src'
        BY <1>0, <2>1, <2>3, <3>1 DEF QueueInv, TypeTimes
      <3>3. bound' = Scheduled(ts)
        BY <1>0, <2>1, <3>1, ConfigAssumption
        DEF Scheduled, AnchorLocal, Greater, TypeTimes
      <3>4. ASSUME NEW i \in 1 .. Len(queue)
            PROVE  queue[i].at_us <= Scheduled(ts)
        <4>1. have_anchor
          BY <1>0, <3>4 DEF QueueInv
        <4>2. bound <= Scheduled(ts)
          BY <1>0, <2>1, <2>3, <4>1 DEF Scheduled, Greater, TypeTimes
        <4> QED
          BY <1>0, <2>1, <3>4, <4>2, ElementOfQueue
          DEF QueueInv, Greater, TypeTimes
      <3>5. /\ Len(queue') = Len(queue) + 1
            /\ \A i \in 1 .. Len(queue) : queue'[i] = queue[i]
            /\ queue'[Len(queue) + 1].at_us = Scheduled(ts)
        BY <1>0, <3>1 DEF TypeData
      <3>6. /\ QueueOrdered'
            /\ \A i \in 1 .. Len(queue') : queue'[i].at_us <= Scheduled(ts)
        <4>1. Len(queue) \in Nat
          BY <1>0 DEF TypeData
        <4>2. ASSUME NEW i \in 1 .. Len(queue')
              PROVE  \/ i \in 1 .. Len(queue) /\ queue'[i] = queue[i]
                     \/ i = Len(queue) + 1 /\ queue'[i].at_us = Scheduled(ts)
          BY <3>5, <4>1
        <4>3. ASSUME NEW i \in 1 .. Len(queue')
              PROVE  queue'[i].at_us <= Scheduled(ts)
          BY <2>1, <3>4, <4>2
        <4>4. ASSUME NEW i \in 1 .. Len(queue'), NEW j \in 1 .. Len(queue'),
                     i < j
              PROVE  queue'[i].at_us <= queue'[j].at_us
          <5>1. i \in 1 .. Len(queue) /\ queue'[i] = queue[i]
            BY <3>5, <4>1, <4>2, <4>4
          <5>2. CASE j \in 1 .. Len(queue)
            BY <3>5, <4>4, <5>1, <5>2 DEF QueueInv, QueueOrdered
          <5>3. CASE j = Len(queue) + 1
            BY <3>4, <3>5, <5>1, <5>3
          <5> QED
            BY <4>2, <5>2, <5>3
        <4> QED
          BY <4>3, <4>4 DEF QueueOrdered
      <3> QED
        BY <3>1, <3>2, <3>3, <3>6 DEF QueueInv
    <2> QED
      BY <1>0, <2>1, <2>2, <2>3 DEF TypeTimes
  <1>4. CASE RxRelease
    BY <1>0, <1>4
    DEF RxRelease, QueueInv, QueueOrdered
  <1>5. CASE RxExit
    BY <1>0, <1>5
    DEF RxExit, QueueInv, QueueOrdered
  <1>6. CASE ReplayStart
    BY <1>0, <1>6
    DEF ReplayStart, open_port, QueueInv, QueueOrdered
  <1>7. CASE ReplayTop
    BY <1>0, <1>7
    DEF ReplayTop, open_port, QueueInv, QueueOrdered
  <1>8. CASE ReplayReset
    BY <1>0, <1>8
    DEF ReplayReset, force_safe, set_key, set_ptt, QueueInv, QueueOrdered
  <1>9. CASE ReplayLoad
    BY <1>0, <1>9
    DEF ReplayLoad, QueueInv, QueueOrdered
  <1>10. CASE ReplaySilence
    BY <1>0, <1>10
    DEF ReplaySilence, force_safe, set_key, set_ptt, QueueInv, QueueOrdered
  <1>11. CASE ReplayClear
    BY <1>0, <1>11
    DEF ReplayClear, QueueInv, QueueOrdered
  <1>12. CASE ReplayWatchdog
    BY <1>0, <1>12
    DEF ReplayWatchdog, set_key, QueueInv, QueueOrdered
  <1>13. CASE ReplayApply
    BY <1>0, <1>13
    DEF ReplayApply, set_key, set_ptt, QueueInv, QueueOrdered
  <1>14. CASE ReplayPeek
    BY <1>0, <1>14
    DEF ReplayPeek, set_ptt, QueueInv, QueueOrdered
  <1>15. CASE ReplayExit
    BY <1>0, <1>15
    DEF ReplayExit, force_safe, set_key, set_ptt, QueueInv, QueueOrdered
  <1>16. CASE Stop
    BY <1>0, <1>16
    DEF Stop, QueueInv, QueueOrdered
  <1>17. CASE Close
    BY <1>0, <1>17
    DEF Close, QueueInv, QueueOrdered
  <1>18. CASE Unplug
    BY <1>0, <1>18
    DEF Unplug, QueueInv, QueueOrdered
  <1>19. CASE Plug
    BY <1>0, <1>19
    DEF Plug, QueueInv, QueueOrdered
  <1>20. CASE Tick
    BY <1>0, <1>20
    DEF Tick, QueueInv, QueueOrdered
  <1>21. CASE UNCHANGED vars
    BY <1>0, <1>21
    DEF QueueInv, QueueOrdered
  <1> QED
    BY <1>1, <1>2, <1>3, <1>4, <1>5, <1>6, <1>7, <1>8, <1>9, <1>10, <1>11,
       <1>12, <1>13, <1>14, <1>15, <1>16, <1>17, <1>18, <1>19, <1>20, <1>21
    DEF Next, Receive, Replay

-----------------------------------------------------------------------------
\* A reset that the replay thread has yet to serve: between its exchange of
\* reset_requested and the end of its iteration, what the receive thread has
\* queued for the new session is not due in this iteration.
ResetInv ==
  reset_requested /\ rp_pc \in {"load", "silence", "clear", "watchdog", "apply"} =>
    /\ have_anchor => anchor_local_us > rp_now
    /\ \A i \in 1 .. Len(queue) : queue[i].at_us > rp_now

\* Every step keeps the new session's edges out of the current iteration.
LEMMA ResetStep ==
  ASSUME TypeOK, ClockInv, QueueInv, ResetInv, [Next]_vars
  PROVE  ResetInv'
  <1>0. TypeFlags /\ TypeControl /\ TypeTimes /\ TypeData
    BY DEF TypeOK
  <1>1. ASSUME NEW pkt \in Packets, RxReceive(pkt) PROVE ResetInv'
    BY <1>0, <1>1
    DEF RxReceive, ResetInv, TypeFlags, TypeControl
  <1>2. CASE RxSession
    <2>1. UNCHANGED <<rp_pc, rp_now, anchor_local_us>>
      BY <1>2 DEF RxSession
    <2>2. \/ ~have_anchor' /\ queue' = <<>>
          \/ UNCHANGED <<have_anchor, queue, reset_requested>>
      BY <1>2 DEF RxSession
    <2>3. CASE ~have_anchor' /\ queue' = <<>>
      <3>1. 1 .. Len(queue') = {}
        BY <2>3
      <3> QED
        BY <2>3, <3>1 DEF ResetInv
    <2>4. CASE UNCHANGED <<have_anchor, queue, reset_requested>>
      BY <2>1, <2>4 DEF ResetInv
    <2> QED
      BY <2>2, <2>3, <2>4
  <1>3. CASE RxEdge
    <2> DEFINE ts == Head(rx_edges).ts_us
    <2>1. ts \in Nat /\ Scheduled(ts) \in Nat
      BY <1>0, <1>3, HeadOfPacket, ScheduledType DEF RxEdge
    <2>2. UNCHANGED <<reset_requested, rp_pc, rp_now>>
      BY <1>3 DEF RxEdge
    <2>3. CASE ts <= last_enqueued_src
      BY <1>0, <1>3, <2>1, <2>2, <2>3 DEF RxEdge, Duplicate, ResetInv, TypeTimes
    <2>4. CASE ts > last_enqueued_src
      <3> SUFFICES ASSUME reset_requested,
                          rp_pc \in {"load", "silence", "clear", "watchdog", "apply"}
                   PROVE  /\ anchor_local_us' > rp_now
                          /\ \A i \in 1 .. Len(queue') : queue'[i].at_us > rp_now
        BY <2>2 DEF ResetInv
      <3>1. /\ anchor_local_us' = IF have_anchor THEN anchor_local_us
                                                 ELSE rx_now + Playout
            /\ queue' = Append(queue, [at_us |-> Scheduled(ts),
                                        down |-> Head(rx_edges).down])
        BY <1>0, <1>3, <2>1, <2>4 DEF RxEdge, Duplicate, AnchorLocal, TypeTimes
      <3>2. rx_now + Playout > rp_now
        BY <1>0, <1>3, LagAssumption, PromptAssumption, ConfigAssumption
        DEF RxEdge, ClockInv, TypeTimes
      <3>3. anchor_local_us' > rp_now
        BY <3>1, <3>2 DEF ResetInv
      <3>4. Scheduled(ts) > rp_now
        BY <1>0, <2>1, <2>4, <3>1, <3>2, <3>3, ConfigAssumption
        DEF Scheduled, AnchorLocal, Greater, QueueInv, TypeTimes
      <3>5. ASSUME NEW i \in 1 .. Len(queue')
            PROVE  \/ i \in 1 .. Len(queue) /\ queue'[i] = queue[i]
                   \/ queue'[i].at_us = Scheduled(ts)
        BY <1>0, <3>1 DEF TypeData
      <3> QED
        BY <3>3, <3>4, <3>5 DEF ResetInv
    <2> QED
      BY <1>0, <2>1, <2>3, <2>4 DEF TypeTimes
  <1>4. CASE RxRelease
    BY <1>0, <1>4
    DEF RxRelease, ResetInv, TypeFlags, TypeControl
  <1>5. CASE RxExit
    BY <1>0, <1>5
    DEF RxExit, ResetInv, TypeFlags, TypeControl
  <1>6. CASE ReplayStart
    BY <1>0, <1>6
    DEF ReplayStart, open_port, ResetInv, TypeFlags, TypeControl
  <1>7. CASE ReplayTop
    BY <1>0, <1>7
    DEF ReplayTop, open_port, ResetInv, TypeFlags, TypeControl
  <1>8. CASE ReplayReset
    BY <1>0, <1>8
    DEF ReplayReset, force_safe, set_key, set_ptt, ResetInv, TypeFlags,
        TypeControl
  <1>9. CASE ReplayLoad
    BY <1>0, <1>9
    DEF ReplayLoad, ResetInv, TypeFlags, TypeControl
  <1>10. CASE ReplaySilence
    BY <1>0, <1>10
    DEF ReplaySilence, force_safe, set_key, set_ptt, ResetInv, TypeFlags,
        TypeControl
  <1>11. CASE ReplayClear
    BY <1>0, <1>11
    DEF ReplayClear, ResetInv, TypeFlags, TypeControl
  <1>12. CASE ReplayWatchdog
    BY <1>0, <1>12
    DEF ReplayWatchdog, set_key, ResetInv, TypeFlags, TypeControl
  <1>13. CASE ReplayApply
    BY <1>0, <1>13
    DEF ReplayApply, set_key, set_ptt, ResetInv, TypeFlags, TypeControl
  <1>14. CASE ReplayPeek
    BY <1>0, <1>14
    DEF ReplayPeek, set_ptt, ResetInv, TypeFlags, TypeControl
  <1>15. CASE ReplayExit
    BY <1>0, <1>15
    DEF ReplayExit, force_safe, set_key, set_ptt, ResetInv, TypeFlags,
        TypeControl
  <1>16. CASE Stop
    BY <1>0, <1>16
    DEF Stop, ResetInv, TypeFlags, TypeControl
  <1>17. CASE Close
    BY <1>0, <1>17
    DEF Close, ResetInv, TypeFlags, TypeControl
  <1>18. CASE Unplug
    BY <1>0, <1>18
    DEF Unplug, ResetInv, TypeFlags, TypeControl
  <1>19. CASE Plug
    BY <1>0, <1>19
    DEF Plug, ResetInv, TypeFlags, TypeControl
  <1>20. CASE Tick
    BY <1>0, <1>20
    DEF Tick, ResetInv, TypeFlags, TypeControl
  <1>21. CASE UNCHANGED vars
    BY <1>0, <1>21
    DEF ResetInv, TypeFlags, TypeControl
  <1> QED
    BY <1>1, <1>2, <1>3, <1>4, <1>5, <1>6, <1>7, <1>8, <1>9, <1>10, <1>11,
       <1>12, <1>13, <1>14, <1>15, <1>16, <1>17, <1>18, <1>19, <1>20, <1>21
    DEF Next, Receive, Replay

-----------------------------------------------------------------------------
\* The inductive invariant of the server, beside its type.
ServerInv == ClockInv /\ LinesInv /\ KeyInv /\ SilenceInv /\ QueueInv /\ ResetInv

LEMMA InitInv == Init => ServerInv
  <1>1. Init => ClockInv
    BY ConfigAssumption, LagAssumption DEF Init, ClockInv
  <1>2. Init => LinesInv
    BY DEF Init, LinesInv, LinesTracked
  <1>3. Init => KeyInv
    BY ConfigAssumption DEF Init, KeyInv
  <1>4. Init => SilenceInv
    BY ConfigAssumption DEF Init, SilenceInv
  <1>5. Init => QueueInv /\ ResetInv
    BY DEF Init, QueueInv, QueueOrdered, ResetInv
  <1> QED
    BY <1>1, <1>2, <1>3, <1>4, <1>5 DEF ServerInv

LEMMA ServerInvariant == Spec => [](TypeOK /\ ServerInv)
  <1>1. TypeOK /\ ServerInv /\ [Next]_vars => ServerInv'
    BY ClockStep, LinesStep, KeyStep, SilenceStep, QueueStep, ResetStep
    DEF ServerInv
  <1> QED
    BY <1>1, InitInv, TypeCorrect, PTL DEF Spec

\* A line is never high without its flag, so no watchdog misses a line that is
\* high; once the replay thread is gone both lines are low.
THEOREM LinesAlwaysTracked == Spec => []LinesTracked
  <1>1. ServerInv => LinesTracked
    BY DEF ServerInv, LinesInv
  <1> QED
    BY <1>1, ServerInvariant, PTL

\* The key is never down longer than max_key_down_ms plus the replay thread's
\* reaction time, whatever edges are lost, delayed or repeated.
THEOREM StuckKeyReleased == Spec => []KeyDownBounded
  <1>1. TypeOK /\ ServerInv => KeyDownBounded
    <2> SUFFICES ASSUME TypeOK, ServerInv, dtr
                 PROVE  clock - keyed_at <= MaxKeyDown + Reaction
      BY DEF KeyDownBounded
    <2>1. TypeTimes /\ TypeControl /\ ClockInv /\ KeyInv /\ LinesInv
      BY DEF TypeOK, ServerInv
    <2>2. key_is_down /\ rp_pc # "done" /\ rp_pc # "start"
      BY <2>1 DEF LinesInv, LinesTracked
    <2>3. clock - key_down_since_us <= MaxKeyDown + Reaction
      BY <2>1, <2>2, ConfigAssumption, LagAssumption
      DEF KeyInv, ClockInv, TypeControl, TypeTimes, Reaction
    <2>4. key_down_since_us <= keyed_at
      BY <2>1 DEF KeyInv
    <2> QED
      BY <2>1, <2>3, <2>4, ConfigAssumption, LagAssumption DEF TypeTimes, Reaction
  <1> QED
    BY <1>1, ServerInvariant, PTL

\* When the stream falls silent, the key and PTT are low within silence_ms plus
\* the replay thread's reaction time, whatever was queued.
THEOREM SilenceIsSafe == Spec => []SilenceForcesSafe
  <1>1. TypeOK /\ ServerInv => SilenceForcesSafe
    <2> SUFFICES ASSUME TypeOK, ServerInv, dtr \/ rts
                 PROVE  clock - last_rx_us <= Silence + Reaction
      BY DEF SilenceForcesSafe
    <2>1. TypeTimes /\ TypeControl /\ ClockInv /\ SilenceInv /\ LinesInv
      BY DEF TypeOK, ServerInv
    <2>2. (key_is_down \/ ptt_is_on) /\ rp_pc # "done" /\ rp_pc # "start"
      BY <2>1 DEF LinesInv, LinesTracked
    <2>3. rp_pc # "clear"
      BY <2>1, <2>2 DEF SilenceInv
    <2> QED
      BY <2>1, <2>2, <2>3, ConfigAssumption, LagAssumption
      DEF SilenceInv, ClockInv, TypeControl, TypeTimes, Reaction
  <1> QED
    BY <1>1, ServerInvariant, PTL

\* The jitter buffer is in playout order, so the replay thread may look at its
\* head only.
THEOREM BufferInOrder == Spec => []QueueOrdered
  <1>1. ServerInv => QueueOrdered
    BY DEF ServerInv, QueueInv
  <1> QED
    BY <1>1, ServerInvariant, PTL

\* A session reset is served before any edge of the session it begins.
THEOREM ResetBeforeEdges == Spec => ResetServedFirst
  <1>1. TypeOK /\ ServerInv /\ [Next]_vars => [ReplayApply => ~reset_requested]_vars
    <2> SUFFICES ASSUME TypeOK, ServerInv, ReplayApply PROVE ~reset_requested
      OBVIOUS
    <2>1. rp_pc = "apply" /\ queue # <<>> /\ Head(queue).at_us <= rp_now
      BY DEF ReplayApply, Due
    <2>2. 1 \in 1 .. Len(queue) /\ Head(queue) = queue[1]
      BY <2>1 DEF TypeOK, TypeData
    <2>3. queue[1].at_us \in Nat /\ rp_now \in Nat
      BY <2>2, ElementOfQueue DEF TypeOK, TypeTimes
    <2> QED
      BY <2>1, <2>2, <2>3 DEF ServerInv, ResetInv
  <1> QED
    BY <1>1, ServerInvariant, PTL DEF Spec, ResetServedFirst
=============================================================================
