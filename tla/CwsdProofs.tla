------------------------------ MODULE CwsdProofs ------------------------------
(***************************************************************************)
(* What TLAPS proves of Cwsd and of the audio stream server in it, for any  *)
(* set of listeners, any timing within AudioTiming and any enabled servers. *)
(***************************************************************************)
EXTENDS Cwsd, TLAPS

(* The steps of the process, one by one; every invariant below is shown over   *)
(* these disjuncts.                                                           *)
LEMMA NextCases ==
  ASSUME Next
  PROVE  \/ RunBegins \/ LoopEnds \/ Signal
         \/ \E s \in Servers : \/ PassOver(s) \/ Construct(s) \/ Throws(s)
                               \/ StopServer(s) \/ Join(s) \/ Delete(s)
         \/ \E s \in Others : ThreadBegins(s) \/ ThreadEnds(s)
         \/ /\ \/ Top \/ ReadFrame \/ Drained \/ Sweep \/ Exit
               \/ \E l \in Listeners : Drain(l)
               \/ UnplugDevice \/ PlugDevice \/ Tick
               \/ \E l \in Listeners : Datagram(l) \/ Leave(l)
            /\ UNCHANGED mainVars
BY Zenon DEF Next, Main, Threads, AudioWorker, AudioWorld

-----------------------------------------------------------------------------
(* Type correctness.                                                        *)

MainPcs == {"construct", "run", "loop", "stop", "join", "delete", "exited", "failed"}

\* The part of TypeOK that is about the main thread and the other servers.
MainTypeOK ==
  /\ main \in [pc : MainPcs, k : 1 .. 4]
  /\ is_running \in BOOLEAN /\ flag \in [Others -> BOOLEAN]
  /\ object \in [Servers -> {"none", "made", "deleted"}]
  /\ thread \in [Others -> {"none", "starting", "running", "ended"}]

LEMMA TypeSplit ==
  (TypeOK <=> AudioTypeOK /\ MainTypeOK) /\ (TypeOK' <=> AudioTypeOK' /\ MainTypeOK')
<1>1. Len(Order) = 4
  BY DEF Order
<1> QED
  BY <1>1, Zenon DEF TypeOK, MainTypeOK, MainPcs

LEMMA WalkType ==
  ASSUME main \in [pc : MainPcs, k : 1 .. 4],
         NEW pc \in MainPcs, NEW after \in MainPcs, NEW order, Len(order) = 4,
         NextServer(pc, order, after)
  PROVE  main' \in [pc : MainPcs, k : 1 .. 4]
BY DEF NextServer, At

LEMMA Orders == Len(Order) = 4 /\ Len(Stops) = 4 /\ Len(Deletes) = 4
BY DEF Order, Stops, Deletes

LEMMA AudioUnchanged ==
  ASSUME UNCHANGED audioVars
  PROVE  AudioTypeOK => AudioTypeOK'
BY Zenon DEF audioVars, worker, cable, listeners, AudioTypeOK

LEMMA AudioInitType == AudioInit => AudioTypeOK
<1> SUFFICES ASSUME AudioInit PROVE AudioTypeOK
  OBVIOUS
<1>1. clock \in 0 .. U32 - 1 /\ gap \in 0 .. MaxGap /\ unplugs \in 0 .. MaxUnplugs
  BY AudioTiming, AudioDevice DEF AudioInit
<1>2. DOMAIN clients = {}
  BY DEF AudioInit
<1>3. /\ mode \in [Listeners -> {"in", "out"}] /\ age \in [Listeners -> 0 .. Period]
      /\ late \in [Listeners -> BOOLEAN]
  BY AudioTiming DEF AudioInit
<1>4. present \in BOOLEAN /\ au_running \in BOOLEAN
  BY AudioDevice, Zenon DEF AudioInit
<1> QED
  BY <1>1, <1>2, <1>3, <1>4 DEF AudioInit, AudioTypeOK

LEMMA TickType == ASSUME AudioTypeOK, Tick PROVE AudioTypeOK'
<1>1. clock' \in 0 .. U32 - 1 /\ gap' \in 0 .. MaxGap
  BY AudioTiming DEF Tick, AudioTypeOK
<1>2. age' \in [Listeners -> 0 .. Period]
  BY AudioTiming DEF Tick, AudioTypeOK
<1> QED
  BY <1>1, <1>2 DEF Tick, AudioTypeOK, cable

LEMMA DrainType == ASSUME AudioTypeOK, NEW l \in Listeners, Drain(l) PROVE AudioTypeOK'
<1>1. /\ DOMAIN clients' = DOMAIN clients \cup {l}
      /\ \A m \in DOMAIN clients' : clients'[m] = IF m = l THEN clock ELSE clients[m]
  BY DEF Drain
<1>2. /\ DOMAIN clients' \subseteq Listeners
      /\ \A m \in DOMAIN clients' : clients'[m] \in 0 .. U32 - 1
  BY <1>1 DEF Drain, AudioTypeOK
<1>3. late' \in [Listeners -> BOOLEAN]
  BY DEF Drain, AudioTypeOK
<1> QED
  BY <1>2, <1>3 DEF Drain, AudioTypeOK, cable, listeners

\* What a sweep keeps of the table.
LEMMA SweptClients ==
  ASSUME Sweep
  PROVE  /\ DOMAIN clients' = {l \in DOMAIN clients : ~IsSilent(l)}
         /\ \A l \in DOMAIN clients' : clients'[l] = clients[l]
BY DEF Sweep, Restrict

LEMMA SweepType == ASSUME AudioTypeOK, Sweep PROVE AudioTypeOK'
<1>1. /\ DOMAIN clients' \subseteq Listeners
      /\ \A m \in DOMAIN clients' : clients'[m] \in 0 .. U32 - 1
  BY SweptClients DEF AudioTypeOK
<1> QED
  BY <1>1, AudioTiming DEF Sweep, AudioTypeOK, cable, listeners

LEMMA AudioStepType ==
  ASSUME AudioTypeOK,
         \/ AudioStart \/ AudioStop \/ AudioDelete
         \/ Top \/ ReadFrame \/ Drained \/ Exit
         \/ UnplugDevice \/ PlugDevice
         \/ \E l \in Listeners : Datagram(l) \/ Leave(l)
  PROVE  AudioTypeOK'
<1> USE DEF AudioTypeOK, cable, listeners, worker
<1>1. CASE AudioStart  BY <1>1 DEF AudioStart
<1>2. CASE AudioStop   BY <1>2 DEF AudioStop
<1>3. CASE AudioDelete BY <1>3 DEF AudioDelete
<1>4. CASE Top         BY <1>4 DEF Top, OpenCapture
<1>5. CASE ReadFrame
  BY <1>5 DEF ReadFrame, FrameRead, Overrun, ReadFailed
<1>6. CASE Drained     BY <1>6 DEF Drained
<1>7. CASE Exit        BY <1>7 DEF Exit
<1>8. CASE UnplugDevice
  <2>1. unplugs' \in 0 .. MaxUnplugs
    BY <1>8, AudioDevice DEF UnplugDevice
  <2>2. present' \in BOOLEAN /\ pcm' \in {"none", "ready", "running", "dead"}
    BY <1>8, Zenon DEF UnplugDevice
  <2> QED
    BY <1>8, <2>1, <2>2 DEF UnplugDevice
<1>9. CASE PlugDevice  BY <1>9 DEF PlugDevice
<1>10. ASSUME NEW l \in Listeners, Datagram(l) PROVE AudioTypeOK'
  BY <1>10, AudioTiming DEF Datagram
<1>11. ASSUME NEW l \in Listeners, Leave(l) PROVE AudioTypeOK'
  BY <1>11 DEF Leave
<1> QED
  BY <1>1, <1>2, <1>3, <1>4, <1>5, <1>6, <1>7, <1>8, <1>9, <1>10, <1>11, Zenon

LEMMA MainUnchanged ==
  ASSUME UNCHANGED mainVars
  PROVE  MainTypeOK => MainTypeOK'
BY Zenon DEF mainVars, services, history, MainTypeOK

LEMMA MainStepType ==
  ASSUME MainTypeOK,
         \/ RunBegins \/ LoopEnds \/ Signal
         \/ \E s \in Servers : \/ PassOver(s) \/ Construct(s) \/ Throws(s)
                               \/ StopServer(s) \/ Join(s) \/ Delete(s)
         \/ \E s \in Others : ThreadBegins(s) \/ ThreadEnds(s)
  PROVE  MainTypeOK'
<1> DEFINE MainIn == main \in [pc : MainPcs, k : 1 .. 4]
<1>a. MainIn
  BY DEF MainTypeOK
<1>b. \A pc, after \in MainPcs : \A order \in {Order, Stops, Deletes} :
        NextServer(pc, order, after) => MainIn'
  BY <1>a, Orders, WalkType
<1> HIDE DEF MainIn
<1>c. UNCHANGED main => MainIn'
  BY <1>a DEF MainIn
<1>d. \A pc \in MainPcs : main' = At(pc, 1) => MainIn'
  BY DEF MainIn, At
<1>e. ASSUME MainIn', is_running' \in BOOLEAN, flag' \in [Others -> BOOLEAN],
             object' \in [Servers -> {"none", "made", "deleted"}],
             thread' \in [Others -> {"none", "starting", "running", "ended"}]
      PROVE  MainTypeOK'
  BY <1>e DEF MainTypeOK, MainIn
<1>1. CASE RunBegins
  BY <1>1, <1>d, <1>e DEF RunBegins, services, MainTypeOK, MainPcs
<1>2. CASE LoopEnds
  BY <1>2, <1>d, <1>e DEF LoopEnds, services, MainTypeOK, MainPcs
<1>3. CASE Signal
  BY <1>3, <1>c, <1>e DEF Signal, signal_handler, services, MainTypeOK
<1>4. ASSUME NEW s \in Servers, PassOver(s) PROVE MainTypeOK'
  <2>1. MainIn'
    BY <1>4, <1>b DEF PassOver, MainPcs
  <2> QED
    BY <1>4, <2>1, <1>e DEF PassOver, services, MainTypeOK
<1>5. ASSUME NEW s \in Servers, Construct(s) PROVE MainTypeOK'
  <2>1. MainIn'
    BY <1>5, <1>b DEF Construct, MainPcs
  <2>2. object' \in [Servers -> {"none", "made", "deleted"}]
    BY <1>5 DEF Construct, MainTypeOK
  <2>3. CASE s = "audio"
    BY <1>5, <2>1, <2>2, <2>3, <1>e DEF Construct, services, MainTypeOK
  <2>4. CASE s # "audio"
    <3>1. thread' \in [Others -> {"none", "starting", "running", "ended"}]
      BY <1>5, <2>4 DEF Construct, MainTypeOK
    <3>2. flag' \in [Others -> BOOLEAN]
      BY <1>5, <2>4 DEF Construct, MainTypeOK
    <3> QED
      BY <1>5, <2>1, <2>2, <3>1, <3>2, <1>e DEF Construct, MainTypeOK
  <2> QED
    BY <2>3, <2>4
<1>6. ASSUME NEW s \in Servers, Throws(s) PROVE MainTypeOK'
  BY <1>6, <1>d, <1>e DEF Throws, services, MainTypeOK, MainPcs
<1>7. ASSUME NEW s \in Servers, StopServer(s) PROVE MainTypeOK'
  <2>1. MainIn'
    BY <1>7, <1>a DEF StopServer, MainIn, MainPcs, At
  <2>2. flag' \in [Others -> BOOLEAN] /\ UNCHANGED thread
    BY <1>7 DEF StopServer, MainTypeOK, services
  <2> QED
    BY <1>7, <2>1, <2>2, <1>e DEF StopServer, MainTypeOK
<1>8. ASSUME NEW s \in Servers, Join(s) PROVE MainTypeOK'
  <2>1. MainIn'
    BY <1>8, <1>b DEF Join, MainPcs
  <2> QED
    BY <1>8, <2>1, <1>e DEF Join, services, MainTypeOK
<1>9. ASSUME NEW s \in Servers, Delete(s) PROVE MainTypeOK'
  <2>1. MainIn'
    BY <1>9, <1>b DEF Delete, MainPcs
  <2> QED
    BY <1>9, <2>1, <1>e DEF Delete, services, MainTypeOK
<1>10. ASSUME NEW s \in Others, ThreadBegins(s) PROVE MainTypeOK'
  <2>1. flag' \in [Others -> BOOLEAN]
    BY <1>10 DEF ThreadBegins, MainTypeOK
  <2> QED
    BY <1>10, <2>1, <1>c, <1>e DEF ThreadBegins, MainTypeOK
<1>11. ASSUME NEW s \in Others, ThreadEnds(s) PROVE MainTypeOK'
  BY <1>11, <1>c, <1>e DEF ThreadEnds, MainTypeOK
<1> QED
  BY <1>1, <1>2, <1>3, <1>4, <1>5, <1>6, <1>7, <1>8, <1>9, <1>10, <1>11, Zenon

\* What each step of the main thread and of the other servers does to the audio
\* server: nothing, or one of its three operations.
LEMMA MainOnAudio ==
  ASSUME \/ RunBegins \/ LoopEnds \/ Signal
         \/ \E s \in Servers : \/ PassOver(s) \/ Construct(s) \/ Throws(s)
                               \/ StopServer(s) \/ Join(s) \/ Delete(s)
         \/ \E s \in Others : ThreadBegins(s) \/ ThreadEnds(s)
  PROVE  \/ UNCHANGED audioVars \/ AudioStart \/ AudioStop
         \/ Delete("audio") /\ AudioDelete
<1>1. ASSUME NEW s \in Servers, Construct(s) PROVE UNCHANGED audioVars \/ AudioStart
  BY <1>1, Zenon DEF Construct
<1>2. ASSUME NEW s \in Servers, StopServer(s) PROVE UNCHANGED audioVars \/ AudioStop
  BY <1>2, Zenon DEF StopServer, audioVars
<1>3. ASSUME NEW s \in Servers, Delete(s)
      PROVE  UNCHANGED audioVars \/ (Delete("audio") /\ AudioDelete)
  BY <1>3, Zenon DEF Delete
<1>4. CASE RunBegins  BY <1>4 DEF RunBegins, audioVars
<1>5. CASE LoopEnds  BY <1>5 DEF LoopEnds, audioVars
<1>6. CASE Signal  BY <1>6 DEF Signal, audioVars
<1>7. ASSUME NEW s \in Servers, PassOver(s) \/ Throws(s) \/ Join(s)
      PROVE  UNCHANGED audioVars
  BY <1>7, Zenon DEF PassOver, Throws, Join
<1>8. ASSUME NEW s \in Others, ThreadBegins(s) \/ ThreadEnds(s)
      PROVE  UNCHANGED audioVars
  BY <1>8, Zenon DEF ThreadBegins, ThreadEnds
<1> QED
  BY <1>1, <1>2, <1>3, <1>4, <1>5, <1>6, <1>7, <1>8, Zenon

LEMMA InitType == Init => TypeOK
<1> SUFFICES ASSUME Init PROVE AudioTypeOK /\ MainTypeOK
  BY TypeSplit
<1>1. AudioTypeOK
  BY AudioInitType DEF Init
<1>2. /\ main \in [pc : MainPcs, k : 1 .. 4]
      /\ object \in [Servers -> {"none", "made", "deleted"}]
      /\ thread \in [Others -> {"none", "starting", "running", "ended"}]
  BY DEF Init, MainPcs, At
<1>3. flag \in [Others -> BOOLEAN]
  BY DEF Init
<1>4. is_running \in BOOLEAN
  BY Zenon DEF Init
<1> QED
  BY <1>1, <1>2, <1>3, <1>4 DEF MainTypeOK

LEMMA NextType == TypeOK /\ [Next]_vars => TypeOK'
<1> SUFFICES ASSUME AudioTypeOK, MainTypeOK, [Next]_vars
             PROVE  AudioTypeOK' /\ MainTypeOK'
  BY TypeSplit
<1> DEFINE MainStep ==
      \/ RunBegins \/ LoopEnds \/ Signal
      \/ \E s \in Servers : \/ PassOver(s) \/ Construct(s) \/ Throws(s)
                            \/ StopServer(s) \/ Join(s) \/ Delete(s)
      \/ \E s \in Others : ThreadBegins(s) \/ ThreadEnds(s)
<1>1. CASE MainStep
  <2>1. MainTypeOK'
    BY <1>1, MainStepType, Zenon
  <2>2. AudioTypeOK'
    BY <1>1, MainOnAudio, AudioUnchanged, AudioStepType, Zenon
  <2> QED
    BY <2>1, <2>2
<1>2. CASE /\ \/ Top \/ ReadFrame \/ Drained \/ Sweep \/ Exit
              \/ \E l \in Listeners : Drain(l)
              \/ UnplugDevice \/ PlugDevice \/ Tick
              \/ \E l \in Listeners : Datagram(l) \/ Leave(l)
           /\ UNCHANGED mainVars
  BY <1>2, MainUnchanged, AudioStepType, TickType, DrainType, SweepType, Zenon
<1>3. CASE UNCHANGED vars
  BY <1>3, MainUnchanged, AudioUnchanged, Zenon DEF vars
<1> QED
  BY <1>1, <1>2, <1>3, NextCases, Zenon

\* The variables have their types in every reachable state.
THEOREM TypeCorrect == Spec => []TypeOK
<1> QED
  BY InitType, NextType, PTL DEF Spec

-----------------------------------------------------------------------------
(* Nothing is deleted under a thread that still runs.                       *)

\* The servers the main thread has stopped in run() have ended and stay ended;
\* it comes to its destructor when they all have, and nothing else deletes.
StopInv ==
  /\ \A s \in Servers :
       object[s] = "deleted" => main.pc \in {"delete", "exited"} /\ s \in Enabled
  /\ main.pc \in {"stop", "join"} =>
       \A i \in 1 .. main.k - 1 : Stops[i] \in Enabled => Ended(Stops[i])
  /\ main.pc \in {"delete", "exited"} => \A s \in Enabled : Ended(s)

\* Once construction is over, a server that has ended does not start again.
LEMMA EndedStable ==
  ASSUME TypeOK, [Next]_vars, main.pc # "construct", NEW s \in Servers, Ended(s)
  PROVE  Ended(s)'
<1>1. ASSUME s = "audio" PROVE Ended(s)'
  <2>0. au_pc = "done"
    BY <1>1 DEF Ended
  <2>1. au_pc' = "done"
    <3>1. UNCHANGED audioVars => au_pc' = au_pc
      BY DEF audioVars, worker
    <3>2. ~AudioStart /\ (AudioStop \/ AudioDelete => au_pc' = au_pc)
      BY <2>0 DEF AudioStart, AudioStop, AudioDelete
    <3>3. ~(Top \/ ReadFrame \/ Drained \/ Sweep \/ Exit \/ UnplugDevice \/ PlugDevice \/ Tick)
      BY <2>0 DEF Top, ReadFrame, Drained, Sweep, Exit, UnplugDevice, PlugDevice, Tick, Alive
    <3>4. ~ \E l \in Listeners : Drain(l) \/ Datagram(l) \/ Leave(l)
      BY <2>0 DEF Drain, Datagram, Leave, Alive
    <3>5. CASE UNCHANGED vars
      BY <3>5, <3>1, <2>0, Zenon DEF vars
    <3> QED
      BY <2>0, <3>1, <3>2, <3>3, <3>4, <3>5, NextCases, MainOnAudio, Zenon
  <2> QED
    BY <1>1, <2>1 DEF Ended
<1>2. ASSUME s # "audio" PROVE Ended(s)'
  <2>0. thread[s] = "ended" /\ s \in Others
    BY <1>2 DEF Ended, Others
  <2>1. UNCHANGED thread => thread'[s] = "ended"
    BY <2>0
  <2>2. \/ RunBegins \/ LoopEnds \/ Signal
        \/ \E r \in Servers : PassOver(r) \/ Throws(r) \/ StopServer(r) \/ Join(r) \/ Delete(r)
        => UNCHANGED thread
    BY DEF RunBegins, LoopEnds, Signal, PassOver, Throws, StopServer, Join, Delete, services
  <2>3. \A r \in Servers : ~Construct(r)
    BY DEF Construct, Walking
  <2>4. ASSUME NEW r \in Others, ThreadBegins(r) \/ ThreadEnds(r)
        PROVE  thread'[s] = "ended"
    <3>1. r # s
      BY <2>4, <2>0 DEF ThreadBegins, ThreadEnds
    <3> QED
      BY <2>4, <2>0, <3>1 DEF ThreadBegins, ThreadEnds, TypeOK
  <2>5. UNCHANGED mainVars \/ UNCHANGED vars => UNCHANGED thread
    BY DEF mainVars, vars, services
  <2>6. thread'[s] = "ended"
    BY <2>1, <2>2, <2>3, <2>4, <2>5, NextCases, Zenon
  <2> QED
    BY <1>2, <2>6 DEF Ended
<1> QED
  BY <1>1, <1>2

\* The main thread goes on in a walk, or it has come to its end.
LEMMA WalkOn ==
  ASSUME main \in [pc : MainPcs, k : 1 .. 4],
         NEW pc, NEW after, NEW order, Len(order) = 4, NextServer(pc, order, after)
  PROVE  \/ main.k < 4 /\ main'.pc = pc /\ main'.k = main.k + 1
         \/ main.k = 4 /\ main'.pc = after /\ main'.k = 1
BY DEF NextServer, At

\* What the walk of run() has stopped so far, with the server it is at.
LEMMA StoppedSoFar ==
  ASSUME TypeOK, StopInv, [Next]_vars, main.pc \in {"stop", "join"},
         NEW s \in Servers, Stops[main.k] = s, s \in Enabled => Ended(s),
         NextServer("stop", Stops, "delete")
  PROVE  /\ main'.pc = "stop" =>
              \A i \in 1 .. main'.k - 1 : Stops[i] \in Enabled => Ended(Stops[i])'
         /\ main'.pc = "delete" => \A r \in Enabled : Ended(r)'
         /\ main'.pc \in {"stop", "delete"}
<1>0. main \in [pc : MainPcs, k : 1 .. 4]
  BY TypeSplit DEF MainTypeOK
<1>1. \A i \in 1 .. main.k : Stops[i] \in Enabled => Ended(Stops[i])
  <2> SUFFICES ASSUME NEW i \in 1 .. main.k, Stops[i] \in Enabled PROVE Ended(Stops[i])
    OBVIOUS
  <2>1. CASE i = main.k
    BY <2>1
  <2>2. CASE i # main.k
    <3>1. i \in 1 .. main.k - 1
      BY <2>2, <1>0
    <3> QED
      BY <3>1 DEF StopInv
  <2> QED
    BY <2>1, <2>2
<1>2. \A i \in 1 .. 4 : Stops[i] \in Servers
  BY DEF Stops, Servers
<1>3. \A i \in 1 .. main.k : Stops[i] \in Enabled => Ended(Stops[i])'
  BY <1>0, <1>1, <1>2, EndedStable
<1>4. \A r \in Servers : \E i \in 1 .. 4 : Stops[i] = r
  BY DEF Stops, Servers
<1>5. CASE main.k < 4 /\ main'.pc = "stop" /\ main'.k = main.k + 1
  BY <1>0, <1>3, <1>5
<1>6. CASE main.k = 4 /\ main'.pc = "delete" /\ main'.k = 1
  BY <1>3, <1>4, <1>6, EnabledAssumption
<1> QED
  BY <1>0, <1>5, <1>6, Orders, WalkOn

LEMMA StopStep == TypeOK /\ StopInv /\ [Next]_vars => StopInv'
<1> SUFFICES ASSUME TypeOK, StopInv, [Next]_vars PROVE StopInv'
  OBVIOUS
<1>0. /\ main \in [pc : MainPcs, k : 1 .. 4]
      /\ object \in [Servers -> {"none", "made", "deleted"}]
      /\ Enabled \subseteq Servers
  BY TypeSplit, EnabledAssumption DEF MainTypeOK
<1>1. ASSUME UNCHANGED <<main, object>> PROVE StopInv'
  <2>1. main.pc \in {"delete", "exited"} => \A s \in Enabled : Ended(s)'
    BY <1>0, EndedStable DEF StopInv
  <2>2. main.pc \in {"stop", "join"} =>
          \A i \in 1 .. main.k - 1 : Stops[i] \in Enabled => Ended(Stops[i])'
    BY <1>0, EndedStable DEF StopInv
  <2> QED
    BY <1>1, <2>1, <2>2 DEF StopInv
\* In the other steps nothing is deleted before the destructor.
<1>2. ASSUME main.pc \notin {"stop", "join", "delete", "exited"},
             main'.pc \notin {"join", "delete", "exited"}, main'.pc = "stop" => main'.k = 1,
             \A s \in Servers : object'[s] = "deleted" => object[s] = "deleted"
      PROVE  StopInv'
  BY <1>2 DEF StopInv
<1>3. ASSUME NEW s \in Servers, Construct(s) PROVE StopInv'
  <2>1. main.pc = "construct" /\ main'.pc \in {"construct", "run"}
    BY <1>0, <1>3, Orders, WalkOn DEF Construct, Walking
  <2>2. \A r \in Servers : object'[r] = "deleted" => object[r] = "deleted"
    BY <1>0, <1>3 DEF Construct
  <2> QED
    BY <1>2, <2>1, <2>2
<1>4. ASSUME RunBegins \/ LoopEnds \/ \E s \in Servers : Throws(s) PROVE StopInv'
  BY <1>2, <1>4 DEF RunBegins, LoopEnds, Throws, Walking, At
<1>5. ASSUME NEW s \in Servers, StopServer(s) PROVE StopInv'
  <2>1. main.pc = "stop" /\ main'.pc = "join" /\ main'.k = main.k /\ UNCHANGED object
    BY <1>5 DEF StopServer, Walking, At
  <2>2. \A i \in 1 .. main.k - 1 : Stops[i] \in Enabled => Ended(Stops[i])'
    BY <1>0, <2>1, EndedStable DEF StopInv
  <2> QED
    BY <2>1, <2>2 DEF StopInv
<1>6. ASSUME NEW s \in Servers, UNCHANGED object, s \in Enabled => Ended(s),
             main.pc \in {"stop", "join"}, Stops[main.k] = s,
             NextServer("stop", Stops, "delete")
      PROVE  StopInv'
  <2>1. \A r \in Servers : object'[r] # "deleted"
    BY <1>6 DEF StopInv
  <2> QED
    BY <1>6, <2>1, StoppedSoFar DEF StopInv
<1>7. ASSUME NEW s \in Servers, Join(s) PROVE StopInv'
  BY <1>6, <1>7 DEF Join, Walking
<1>8. ASSUME NEW s \in Servers, PassOver(s) PROVE StopInv'
  <2>1. CASE Walking("construct", Order, s) /\ NextServer("construct", Order, "run")
    <3>1. main.pc = "construct" /\ main'.pc \in {"construct", "run"}
      BY <1>0, <2>1, Orders, WalkOn DEF Walking
    <3> QED
      BY <1>2, <1>8, <3>1 DEF PassOver
  <2>2. CASE Walking("stop", Stops, s) /\ NextServer("stop", Stops, "delete")
    BY <1>6, <1>8, <2>2 DEF PassOver, Walking
  <2>3. CASE Walking("delete", Deletes, s) /\ NextServer("delete", Deletes, "exited")
    <3>1. main.pc = "delete" /\ main'.pc \in {"delete", "exited"}
      BY <1>0, <2>3, Orders, WalkOn DEF Walking
    <3>2. \A r \in Enabled : Ended(r)'
      BY <1>0, <3>1, EndedStable DEF StopInv
    <3> QED
      BY <1>8, <3>1, <3>2 DEF PassOver, StopInv
  <2> QED
    BY <1>8, <2>1, <2>2, <2>3, Zenon DEF PassOver
<1>9. ASSUME NEW s \in Servers, Delete(s) PROVE StopInv'
  <2>1. main.pc = "delete" /\ main'.pc \in {"delete", "exited"}
    BY <1>0, <1>9, Orders, WalkOn DEF Delete, Walking
  <2>2. \A r \in Enabled : Ended(r)'
    BY <1>0, <2>1, EndedStable DEF StopInv
  <2>3. \A r \in Servers : object'[r] = "deleted" => r \in Enabled
    BY <1>0, <1>9 DEF Delete, StopInv
  <2> QED
    BY <2>1, <2>2, <2>3 DEF StopInv
<1>10. Signal => UNCHANGED <<main, object>>
  BY DEF Signal
<1>11. (\E s \in Others : ThreadBegins(s) \/ ThreadEnds(s)) => UNCHANGED <<main, object>>
  BY DEF ThreadBegins, ThreadEnds
<1>12. UNCHANGED mainVars \/ UNCHANGED vars => UNCHANGED <<main, object>>
  BY DEF mainVars, vars
<1> QED
  BY <1>1, <1>3, <1>4, <1>5, <1>7, <1>8, <1>9, <1>10, <1>11, <1>12, NextCases, Zenon

LEMMA StopInit == Init => StopInv
BY DEF Init, StopInv, At

\* No server is deleted while a thread of its own may still use it, whichever
\* servers are enabled and wherever the signal falls.
THEOREM DeletionSafe == Spec => []DeletedOnlyEnded
<1>1. StopInv => DeletedOnlyEnded
  BY DEF StopInv, DeletedOnlyEnded
<1> QED
  BY <1>1, InitType, NextType, StopInit, StopStep, PTL DEF Spec

-----------------------------------------------------------------------------
(* Who keeps sending stays subscribed.                                      *)

\* The time since a subscriber was last refreshed, as the sweep computes it.
Since(l) == (clock - clients[l]) % U32

\* A subscriber that has not left since it was registered was refreshed no longer
\* ago than its last datagram, unless the next one already waits in the socket;
\* and what waits when the sweep looks came after the drain, within this gap.
KeepInv ==
  \A l \in DOMAIN clients :
    ~late[l] => /\ mode[l] = "in"
                /\ l \notin pending => Since(l) <= age[l]
                /\ au_pc = "sweep" => Since(l) <= Period + gap

\* A difference taken on the wrapping clock, and the clock's next value.
LEMMA ClockDifference ==
  ASSUME NEW a \in 0 .. U32 - 1, NEW c \in 0 .. U32 - 1
  PROVE  (a - c) % U32 = IF a >= c THEN a - c ELSE a - c + U32
BY AudioTiming

LEMMA ClockNext ==
  ASSUME NEW a \in 0 .. U32 - 1
  PROVE  (a + 1) % U32 = IF a + 1 = U32 THEN 0 ELSE a + 1
BY AudioTiming

\* Over a tick the time since a refresh grows by one at most, across the wrap too.
LEMMA SinceTick ==
  ASSUME NEW a \in 0 .. U32 - 1, NEW c \in 0 .. U32 - 1
  PROVE  /\ (((a + 1) % U32) - c) % U32 <= ((a - c) % U32) + 1
         /\ (((a + 1) % U32) - c) % U32 \in Nat /\ (a - c) % U32 \in Nat
         /\ (a - a) % U32 = 0
<1>1. (a + 1) % U32 \in 0 .. U32 - 1 /\ U32 \in Nat
  BY ClockNext, AudioTiming
<1>2. (((a + 1) % U32) - c) % U32
        = IF (a + 1) % U32 >= c THEN ((a + 1) % U32) - c ELSE ((a + 1) % U32) - c + U32
  BY <1>1, ClockDifference
<1> DEFINE b == (a + 1) % U32
<1>3. b = IF a + 1 = U32 THEN 0 ELSE a + 1
  BY ClockNext
<1>4. (a - c) % U32 = IF a >= c THEN a - c ELSE a - c + U32
  BY ClockDifference
<1>5. (a - a) % U32 = 0
  BY ClockDifference
<1> HIDE DEF b
<1> DEFINE d == (a - c) % U32
           e == (b - c) % U32
<1>6. e = IF b >= c THEN b - c ELSE b - c + U32
  BY <1>2 DEF b
<1>7. d = IF a >= c THEN a - c ELSE a - c + U32
  BY <1>4
<1> HIDE DEF d, e
<1>8. e <= d + 1 /\ e \in Nat /\ d \in Nat
  BY <1>1, <1>3, <1>6, <1>7
<1> QED
  BY <1>5, <1>8 DEF b, d, e

\* Nothing the invariant speaks of changes.
LEMMA KeepUnchanged ==
  ASSUME KeepInv, UNCHANGED <<clients, late, mode, pending, clock, age, gap>>,
         au_pc' = "sweep" => au_pc = "sweep"
  PROVE  KeepInv'
BY DEF KeepInv, Since

LEMMA KeepTick ==
  ASSUME ~Faulty, AudioTypeOK, KeepInv, Tick
  PROVE  KeepInv'
<1> SUFFICES ASSUME NEW l \in DOMAIN clients', ~late'[l]
             PROVE  /\ mode'[l] = "in"
                    /\ l \notin pending' => Since(l)' <= age'[l]
                    /\ au_pc' = "sweep" => Since(l)' <= Period + gap'
  BY DEF KeepInv
<1>1. /\ l \in DOMAIN clients /\ l \in Listeners /\ ~late[l] /\ UNCHANGED <<clients, au_pc, pending, mode>>
      /\ mode[l] = "in" /\ gap \in Nat
      /\ clock \in 0 .. U32 - 1 /\ clients[l] \in 0 .. U32 - 1
      /\ age[l] \in Nat /\ age[l] < Period /\ age'[l] = age[l] + 1 /\ gap' = gap + 1
  BY AudioTiming DEF Tick, AudioTypeOK, KeepInv
<1>2. /\ Since(l)' <= Since(l) + 1
      /\ Since(l)' \in Nat /\ Since(l) \in Nat
  BY <1>1, SinceTick DEF Tick, Since
<1>3. /\ l \notin pending => Since(l) <= age[l]
      /\ au_pc = "sweep" => Since(l) <= Period + gap
  BY <1>1 DEF KeepInv
<1> HIDE DEF Since
<1> QED
  BY <1>1, <1>2, <1>3, AudioTiming

LEMMA KeepDrain ==
  ASSUME AudioTypeOK, KeepInv, NEW m \in Listeners, Drain(m)
  PROVE  KeepInv'
<1> SUFFICES ASSUME NEW l \in DOMAIN clients', ~late'[l]
             PROVE  /\ mode'[l] = "in"
                    /\ l \notin pending' => Since(l)' <= age'[l]
                    /\ au_pc' # "sweep"
  BY DEF KeepInv
<1>1. /\ DOMAIN clients' = DOMAIN clients \cup {m}
      /\ \A r \in DOMAIN clients' : clients'[r] = IF r = m THEN clock ELSE clients[r]
      /\ UNCHANGED <<mode, age, clock>> /\ au_pc' = "drain" /\ l \in Listeners
      /\ age[l] \in Nat
  BY DEF Drain, AudioTypeOK, listeners
<1>2. CASE l = m
  <2>1. mode[l] = "in"
    <3>1. CASE m \in DOMAIN clients
      BY <1>2, <3>1 DEF Drain, KeepInv, AudioTypeOK
    <3>2. CASE m \notin DOMAIN clients
      BY <1>2, <3>2 DEF Drain, AudioTypeOK
    <3> QED
      BY <3>1, <3>2
  <2>2. Since(l)' = 0
    BY <1>1, <1>2, SinceTick DEF Since, AudioTypeOK
  <2> QED
    BY <1>1, <2>1, <2>2
<1>3. CASE l # m
  <2>1. l \in DOMAIN clients /\ ~late[l] /\ (l \in pending' <=> l \in pending)
    BY <1>1, <1>3 DEF Drain, AudioTypeOK
  <2> QED
    BY <1>1, <1>3, <2>1 DEF KeepInv, Since
<1> QED
  BY <1>2, <1>3

\* With the bound on the gap, no subscriber that stays looks silent to a sweep.
LEMMA KeptBySweep ==
  ASSUME AudioTypeOK, KeepInv, Sweep, NEW l \in DOMAIN clients, ~late[l]
  PROVE  l \in DOMAIN clients'
<1>1. Since(l) <= Period + gap /\ gap <= MaxGap /\ gap \in Nat
  BY AudioTiming DEF KeepInv, Sweep, AudioTypeOK
<1>2. Since(l) \in Nat
  BY SinceTick DEF Since, AudioTypeOK
<1>3. Since(l) < Timeout
  <2> HIDE DEF Since
  <2> QED BY <1>1, <1>2, AudioTiming
<1>4. ~IsSilent(l)
  BY <1>2, <1>3, AudioTiming DEF IsSilent, Since
<1> QED
  BY <1>4, SweptClients

LEMMA KeepStep == ~Faulty /\ TypeOK /\ StopInv /\ KeepInv /\ [Next]_vars => KeepInv'
<1> SUFFICES ASSUME ~Faulty, AudioTypeOK, KeepInv, [Next]_vars PROVE KeepInv'
  BY TypeSplit
<1>1. ASSUME UNCHANGED audioVars PROVE KeepInv'
  BY <1>1, KeepUnchanged DEF audioVars, worker, listeners
<1>2. CASE AudioStart \/ AudioStop
  BY <1>2, KeepUnchanged DEF AudioStart, AudioStop, listeners
<1>3. CASE AudioDelete
  BY <1>3 DEF AudioDelete, KeepInv
<1>4. CASE Top \/ ReadFrame \/ Exit
  BY <1>4, KeepUnchanged
     DEF Top, OpenCapture, ReadFrame, FrameRead, Overrun, ReadFailed, Exit, listeners
<1>5. CASE UnplugDevice \/ PlugDevice
  BY <1>5, KeepUnchanged DEF UnplugDevice, PlugDevice, listeners, worker
<1>6. CASE Drained
  <2> SUFFICES ASSUME NEW l \in DOMAIN clients', ~late'[l]
               PROVE  /\ mode'[l] = "in" /\ Since(l)' <= age'[l]
                      /\ Since(l)' <= Period + gap'
    BY DEF KeepInv
  <2>1. /\ UNCHANGED <<clients, late, mode, clock, age, gap>> /\ pending = {}
    BY <1>6 DEF Drained, listeners
  <2>2. mode[l] = "in" /\ Since(l) <= age[l]
    BY <2>1 DEF KeepInv
  <2>3. /\ age[l] \in Nat /\ age[l] <= Period /\ gap \in Nat /\ Since(l) \in Nat
        /\ Since(l)' = Since(l)
    BY <2>1, SinceTick, AudioTiming DEF AudioTypeOK, Since
  <2> HIDE DEF Since
  <2> QED
    BY <2>1, <2>2, <2>3, AudioTiming
<1>7. CASE Sweep
  <2> SUFFICES ASSUME NEW l \in DOMAIN clients', ~late'[l]
               PROVE  mode'[l] = "in" /\ (l \notin pending' => Since(l)' <= age'[l])
    BY <1>7 DEF KeepInv, Sweep
  <2> QED
    BY <1>7, SweptClients DEF KeepInv, Sweep, Since, listeners
<1>8. CASE Tick
  BY <1>8, KeepTick
<1>9. ASSUME NEW m \in Listeners, Drain(m) PROVE KeepInv'
  BY <1>9, KeepDrain
<1>10. ASSUME NEW m \in Listeners, Datagram(m) PROVE KeepInv'
  BY <1>10 DEF Datagram, KeepInv, Since, AudioTypeOK, worker
<1>11. ASSUME NEW m \in Listeners, Leave(m) PROVE KeepInv'
  BY <1>11 DEF Leave, KeepInv, Since, AudioTypeOK, worker
<1>12. CASE UNCHANGED vars
  BY <1>12, <1>1, Zenon DEF vars
<1> QED
  BY <1>1, <1>2, <1>3, <1>4, <1>5, <1>6, <1>7, <1>8, <1>9, <1>10, <1>11, <1>12,
     NextCases, MainOnAudio, Zenon

\* A subscriber whose datagrams keep to their period is never dropped while the
\* server runs, for any timing that AudioTiming allows and any clock width, as long
\* as the device does not fail at every read.
THEOREM KeepaliveCorrect == ASSUME ~Faulty PROVE Spec => KeepaliveSuffices
<1> DEFINE Kept == \A l \in DOMAIN clients :
                     l \notin DOMAIN clients' => late[l] \/ au_pc = "done"
<1>1. Init => KeepInv
  BY DEF Init, AudioInit, KeepInv
<1>2. TypeOK /\ StopInv /\ KeepInv /\ [Next]_vars => [Kept]_audioVars
  <2> SUFFICES ASSUME TypeOK, StopInv, KeepInv, [Next]_vars,
                      ~UNCHANGED audioVars
               PROVE  Kept
    OBVIOUS
  <2>0. AudioTypeOK
    BY TypeSplit
  <2>1. UNCHANGED clients => Kept
    OBVIOUS
  <2>2. \/ AudioStart \/ AudioStop \/ Top \/ ReadFrame \/ Drained \/ Exit
        \/ UnplugDevice \/ PlugDevice \/ Tick
        => UNCHANGED clients
    BY DEF AudioStart, AudioStop, Top, ReadFrame, Drained, Exit, UnplugDevice, PlugDevice, Tick, worker
  <2>3. (\E l \in Listeners : Datagram(l) \/ Leave(l)) => UNCHANGED clients
    BY DEF Datagram, Leave, worker
  <2>4. (\E l \in Listeners : Drain(l)) => Kept
    BY DEF Drain
  <2>5. Sweep => Kept
    BY <2>0, KeptBySweep
  <2>6. Delete("audio") => au_pc = "done"
    BY DEF Delete, Walking, StopInv, Ended
  <2>7. Delete("audio") => Kept
    BY <2>6
  <2>8. ~UNCHANGED vars
    BY Zenon DEF vars
  <2> HIDE DEF Kept
  <2> QED
    BY <2>1, <2>2, <2>3, <2>4, <2>5, <2>7, <2>8, NextCases, MainOnAudio, Zenon
<1>3. ASSUME TypeOK, StopInv, KeepInv, [Next]_vars PROVE KeepInv'
  BY <1>3, KeepStep
<1> QED
  BY <1>1, <1>2, <1>3, InitType, NextType, StopInit, StopStep, PTL
     DEF Spec, KeepaliveSuffices

-----------------------------------------------------------------------------
(* Who falls silent is dropped in time.                                     *)

\* SilenceBounded says nothing of where the worker is in its pass.  What each step
\* keeps is that an entry is younger than the timeout at a sweep and grows no
\* older than the time since.
AgeInv == \A l \in DOMAIN clients : Since(l) < Timeout + gap

LEMMA AgeUnchanged ==
  ASSUME AgeInv, UNCHANGED <<clients, clock, gap>>
  PROVE  AgeInv'
BY DEF AgeInv, Since

LEMMA AgeTick ==
  ASSUME ~Faulty, AudioTypeOK, AgeInv, Tick
  PROVE  AgeInv'
<1> SUFFICES ASSUME NEW l \in DOMAIN clients' PROVE Since(l)' < Timeout + gap'
  BY DEF AgeInv
<1>1. /\ l \in DOMAIN clients /\ UNCHANGED clients /\ gap \in Nat /\ gap' = gap + 1
      /\ clock \in 0 .. U32 - 1 /\ clients[l] \in 0 .. U32 - 1
  BY AudioTiming DEF Tick, AudioTypeOK
<1>2. Since(l)' <= Since(l) + 1 /\ Since(l)' \in Nat /\ Since(l) \in Nat
  BY <1>1, SinceTick DEF Tick, Since
<1>3. Since(l) < Timeout + gap
  BY <1>1 DEF AgeInv
<1> HIDE DEF Since
<1> QED
  BY <1>1, <1>2, <1>3, AudioTiming

LEMMA AgeDrain ==
  ASSUME AudioTypeOK, AgeInv, NEW m \in Listeners, Drain(m)
  PROVE  AgeInv'
<1> SUFFICES ASSUME NEW l \in DOMAIN clients' PROVE Since(l)' < Timeout + gap'
  BY DEF AgeInv
<1>1. /\ DOMAIN clients' = DOMAIN clients \cup {m}
      /\ \A r \in DOMAIN clients' : clients'[r] = IF r = m THEN clock ELSE clients[r]
      /\ UNCHANGED <<clock, gap>> /\ clock \in 0 .. U32 - 1 /\ gap \in Nat
  BY DEF Drain, AudioTypeOK
<1>2. CASE l = m
  <2>1. Since(l)' = 0
    BY <1>1, <1>2, SinceTick DEF Since
  <2> QED
    BY <1>1, <2>1, AudioTiming
<1>3. CASE l # m
  BY <1>1, <1>3 DEF AgeInv, Since
<1> QED
  BY <1>2, <1>3

LEMMA AgeSweep ==
  ASSUME AudioTypeOK, Sweep
  PROVE  AgeInv'
<1> SUFFICES ASSUME NEW l \in DOMAIN clients' PROVE Since(l)' < Timeout + gap'
  BY DEF AgeInv
<1>1. l \in DOMAIN clients /\ ~IsSilent(l) /\ clients'[l] = clients[l] /\ gap' = 0 /\ UNCHANGED clock
  BY SweptClients DEF Sweep
<1>2. Since(l)' = Since(l) /\ Since(l) \in Nat
  BY <1>1, SinceTick DEF Since, AudioTypeOK
<1>3. ~(Since(l) >= Timeout)
  BY <1>1 DEF IsSilent, Since
<1> HIDE DEF Since
<1> QED
  BY <1>1, <1>2, <1>3, AudioTiming

LEMMA AgeStep == ~Faulty /\ TypeOK /\ AgeInv /\ [Next]_vars => AgeInv'
<1> SUFFICES ASSUME ~Faulty, AudioTypeOK, AgeInv, [Next]_vars PROVE AgeInv'
  BY TypeSplit
<1>1. ASSUME UNCHANGED audioVars PROVE AgeInv'
  BY <1>1, AgeUnchanged DEF audioVars, worker
<1>2. CASE AudioStart \/ AudioStop
  BY <1>2, AgeUnchanged DEF AudioStart, AudioStop
<1>3. CASE AudioDelete
  BY <1>3 DEF AudioDelete, AgeInv
<1>4. CASE Top \/ ReadFrame \/ Drained \/ Exit
  BY <1>4, AgeUnchanged DEF Top, ReadFrame, Drained, Exit
<1>5. CASE UnplugDevice \/ PlugDevice
  BY <1>5, AgeUnchanged DEF UnplugDevice, PlugDevice, worker
<1>6. CASE Sweep
  BY <1>6, AgeSweep
<1>7. CASE Tick
  BY <1>7, AgeTick
<1>8. ASSUME NEW m \in Listeners, Drain(m) PROVE AgeInv'
  BY <1>8, AgeDrain
<1>9. ASSUME NEW m \in Listeners, Datagram(m) \/ Leave(m) PROVE AgeInv'
  BY <1>9, AgeUnchanged DEF Datagram, Leave, worker
<1>10. CASE UNCHANGED vars
  BY <1>10, <1>1, Zenon DEF vars
<1> QED
  BY <1>1, <1>2, <1>3, <1>4, <1>5, <1>6, <1>7, <1>8, <1>9, <1>10,
     NextCases, MainOnAudio, Zenon

\* A subscriber that falls silent is gone from the table within the timeout and one
\* pass of the worker, for any timing that AudioTiming allows, any clock width and
\* however many subscribe, as long as the device does not fail at every read.
THEOREM SilenceCorrect == ASSUME ~Faulty PROVE Spec => []SilenceBounded
<1>1. Init => AgeInv
  BY DEF Init, AudioInit, AgeInv
<1>2. TypeOK /\ AgeInv => SilenceBounded
  <2> SUFFICES ASSUME AudioTypeOK, AgeInv, NEW l \in DOMAIN clients
               PROVE  Since(l) < Timeout + MaxGap
    BY TypeSplit DEF SilenceBounded, Since
  <2>1. Since(l) < Timeout + gap /\ gap \in Nat /\ gap <= MaxGap
    BY AudioTiming DEF AgeInv, AudioTypeOK
  <2>2. Since(l) \in Nat
    BY SinceTick DEF Since, AudioTypeOK
  <2> HIDE DEF Since
  <2> QED
    BY <2>1, <2>2, AudioTiming
<1>3. ASSUME TypeOK, AgeInv, [Next]_vars PROVE AgeInv'
  BY <1>3, AgeStep
<1> QED
  BY <1>1, <1>2, <1>3, InitType, NextType, PTL DEF Spec
==============================================================================
