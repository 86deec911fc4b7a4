-------------------------- MODULE LifecycleProofs --------------------------
(***************************************************************************)
(* For any loops, connections and discovery objects: the node is stopped   *)
(* once and stays stopped, no two discoveries are on, and a Stop lets go   *)
(* of the lock, or never does when it saves the peers.                     *)
(***************************************************************************)
EXTENDS Lifecycle, TLAPS

\* The initial state satisfies the invariant of the program counters.
LEMMA StopInvInit == ASSUME Init PROVE StopInv
BY FlagAssumption DEF Init, StopInv, TypeOK, HandlerAfterStart, StopIsTaken, OneStop, OnIsCurrent,
   Stopping, Goroutine, MainPc, SignalPc

\* Where Goto leads: an end of main ends the signal handler, too.
LEMMA GotoTyped ==
  ASSUME TypeOK, NEW g \in Goroutine, NEW l, Goto(g, l),
         g = "main" => l \in MainPc, g = "signal" => l \in SignalPc \ {"exited"}
  PROVE  /\ pc' \in [Goroutine -> MainPc \cup SignalPc]
         /\ pc'["main"] \in MainPc /\ pc'["signal"] \in SignalPc
         /\ pc'[g] = l
         /\ l # "exited" => \A h \in Goroutine \ {g} : pc'[h] = pc[h]
         /\ l = "exited" => \A h \in Goroutine \ {g} : pc'[h] = "done"
BY DEF Goto, TypeOK, Goroutine, Stopping, MainPc, SignalPc

\* Steps that leave isRunning, discovery and the program counters alone and
\* turn nothing on.
LEMMA Aside ==
  ASSUME StopInv, TypeOK', UNCHANGED <<isRunning, discovery, pc>>,
         \A i \in Instance : mdns'[i] = "on" => mdns[i] = "on"
  PROVE  StopInv'
BY DEF StopInv, HandlerAfterStart, StopIsTaken, OneStop, OnIsCurrent

\* The object that is turned on is Node.discovery, and no other is on.
LEMMA OneIsOn ==
  ASSUME TypeOK, OnIsCurrent, discovery = None, NewDiscovery
  PROVE  /\ discovery' \in Instance
         /\ mdns' \in [Instance -> {"unused", "on", "stopping", "off", "failed"}]
         /\ \A i \in Instance : mdns'[i] = "on" => discovery' = i
<1>1. PICK i \in Instance : discovery' = i /\ \E x \in {"on", "failed"} : mdns' = [mdns EXCEPT ![i] = x]
  BY DEF NewDiscovery
<1>2. \A j \in Instance : mdns[j] # "on"
  BY FlagAssumption DEF OnIsCurrent
<1> QED
  BY <1>1, <1>2 DEF TypeOK

\* Steps of main while it starts the node and while it turns discovery on or
\* off: one at most is on afterwards, and it is Node.discovery.
LEMMA MainSteps == ASSUME StopInv, Starting \/ Command \/ Obey PROVE StopInv'
<1> USE DEF Goroutine
<1>0. TypeOK /\ "main" \in Goroutine /\ "signal" \in Goroutine
  BY DEF StopInv
<1>1. CASE Listen
  <2>1. TypeOK'
    BY <1>0, <1>1, GotoTyped DEF Listen, TypeOK, MainPc
  <2>2. pc["signal"] = "none" /\ discovery = None /\ pc'["signal"] \notin Stopping
        /\ pc'["main"] \in {"discover", "exited"}
        /\ pc'["signal"] \in {"none", "done"} /\ (pc'["main"] = "discover" => pc'["signal"] = "none")
    BY <1>0, <1>1, GotoTyped DEF Listen, StopInv, HandlerAfterStart, MainPc, Stopping
  <2> QED
    BY <1>1, <2>1, <2>2 DEF Listen, StopInv, HandlerAfterStart, StopIsTaken, OneStop, OnIsCurrent, Stopping
<1>2. CASE StartDiscovery
  <2>1. TypeOK'
    <3>1. discovery' \in Instance \cup {None}
          /\ mdns' \in [Instance -> {"unused", "on", "stopping", "off", "failed"}]
      BY <1>0, <1>2, OneIsOn DEF StartDiscovery, StopInv, HandlerAfterStart, TypeOK
    <3> QED
      BY <1>0, <1>2, <3>1, GotoTyped DEF StartDiscovery, TypeOK, MainPc
  <2>2. pc'["main"] = "go" /\ pc'["signal"] = pc["signal"] /\ pc["signal"] = "none"
    BY <1>0, <1>2, GotoTyped DEF StartDiscovery, StopInv, HandlerAfterStart, MainPc
  <2>3. OnIsCurrent'
    <3>1. \A i \in Instance : mdns'[i] = "on" => discovery' = i
      BY <1>0, <1>2, OneIsOn DEF StartDiscovery, StopInv, HandlerAfterStart, OnIsCurrent
    <3> QED
      BY <2>2, <3>1 DEF OnIsCurrent
  <2> QED
    BY <1>2, <2>1, <2>2, <2>3 DEF StartDiscovery, StopInv, HandlerAfterStart, StopIsTaken, OneStop, Stopping
<1>3. CASE StartLoops
  <2>1. TypeOK'
    BY <1>0, <1>3, GotoTyped DEF StartLoops, TypeOK, MainPc
  <2>2. pc'["main"] = "wait" /\ pc'["signal"] = pc["signal"] /\ pc["signal"] = "none"
    BY <1>0, <1>3, GotoTyped DEF StartLoops, StopInv, HandlerAfterStart, MainPc
  <2> QED
    BY <1>3, <2>1, <2>2
       DEF StartLoops, StopInv, HandlerAfterStart, StopIsTaken, OneStop, OnIsCurrent, Stopping
<1>4. CASE Ready
  <2>1. TypeOK' /\ pc'["main"] = "prompt" /\ pc'["signal"] = "wait"
    BY <1>0, <1>4 DEF Ready, TypeOK, MainPc, SignalPc
  <2> QED
    BY <1>4, <2>1 DEF Ready, StopInv, HandlerAfterStart, StopIsTaken, OneStop, OnIsCurrent, Stopping
<1>5. CASE Command
  <2>1. pc["main"] = "prompt" /\ UNCHANGED <<isRunning, discovery>>
    BY <1>5 DEF Command, On, Off, Quit, EndOfInput
  <2>2. PICK l \in {"enable", "forget", "stop", "exited"} : Goto("main", l)
    BY <1>5 DEF Command, On, Off, Quit, EndOfInput
  <2>3. TypeOK'
    BY <1>0, <1>5, <2>2, GotoTyped DEF Command, On, Off, Quit, EndOfInput, Stopped, TypeOK, MainPc
  <2>4. pc'["main"] = l /\ pc'["signal"] \in {pc["signal"], "done"}
    BY <1>0, <2>2, GotoTyped DEF MainPc
  <2>5. l = "enable" => discovery = None
    BY <1>0, <1>5, <2>4, GotoTyped DEF Command, On, Off, Quit, EndOfInput, MayEnable, MainPc
  <2>6. \A i \in Instance : mdns'[i] = "on" => mdns[i] = "on" /\ (l = "forget" => i # discovery)
    BY <1>0, <1>5, <2>4, GotoTyped DEF Command, On, Off, Quit, EndOfInput, Stopped, TypeOK, MainPc
  <2>7. OnIsCurrent'
    BY <2>1, <2>4, <2>6 DEF StopInv, OnIsCurrent
  <2> QED
    BY <2>1, <2>3, <2>4, <2>5, <2>7
       DEF StopInv, HandlerAfterStart, StopIsTaken, OneStop, Stopping
<1>6. CASE EnableDiscovery
  <2>1. TypeOK'
    <3>1. discovery' \in Instance
          /\ mdns' \in [Instance -> {"unused", "on", "stopping", "off", "failed"}]
      BY <1>0, <1>6, OneIsOn DEF EnableDiscovery, StopInv, HandlerAfterStart
    <3> QED
      BY <1>0, <1>6, <3>1, GotoTyped DEF EnableDiscovery, TypeOK, MainPc
  <2>2. pc'["main"] = "prompt" /\ pc'["signal"] = pc["signal"] /\ discovery = None
    BY <1>0, <1>6, GotoTyped DEF EnableDiscovery, StopInv, HandlerAfterStart, MainPc
  <2>3. OnIsCurrent'
    BY <1>0, <1>6, <2>2, OneIsOn DEF EnableDiscovery, StopInv, OnIsCurrent
  <2> QED
    BY <1>6, <2>1, <2>2, <2>3
       DEF EnableDiscovery, StopInv, HandlerAfterStart, StopIsTaken, OneStop, Stopping
<1>7. CASE DisableDiscovery
  <2>1. TypeOK'
    BY <1>0, <1>7, GotoTyped DEF DisableDiscovery, TypeOK, MainPc
  <2>2. pc'["main"] = "prompt" /\ pc'["signal"] = pc["signal"] /\ pc["main"] = "forget"
    BY <1>0, <1>7, GotoTyped DEF DisableDiscovery, MainPc
  <2> QED
    BY <1>7, <2>1, <2>2
       DEF DisableDiscovery, StopInv, HandlerAfterStart, StopIsTaken, OneStop, OnIsCurrent, Stopping
<1> QED
  BY <1>1, <1>2, <1>3, <1>4, <1>5, <1>6, <1>7 DEF Starting, Obey

\* A Stop begins only while isRunning, and takes that away.
LEMMA StopSteps == ASSUME StopInv, NEW g \in Goroutine, Stop(g) PROVE StopInv'
<1> USE DEF Goroutine
<1>0. TypeOK /\ OnIsCurrent /\ OneStop /\ StopIsTaken /\ HandlerAfterStart
  BY DEF StopInv
<1>1. PICK l \in {"close", "unlisten", "undiscover", "lock", "unlock", Done(g)} : Goto(g, l)
  BY DEF Stop, BeginStop, CloseShutdown, CloseListener, StopDiscovery, ClosePeers, Unlock
<1>2. l \in Stopping \/ l = Done(g)
  BY <1>1 DEF Stopping
<1>3. /\ pc' \in [Goroutine -> MainPc \cup SignalPc]
      /\ pc'["main"] \in MainPc /\ pc'["signal"] \in SignalPc
      /\ pc'[g] = l
      /\ \A h \in Goroutine \ {g} : pc'[h] \in {pc[h], "done"}
  BY <1>0, <1>1, <1>2, GotoTyped DEF Done, MainPc, SignalPc, Stopping
<1>4. TypeOK'
  <2>1. CASE BeginStop(g)
    BY <1>0, <1>3, <2>1 DEF TypeOK, BeginStop
  <2>2. CASE CloseShutdown(g)
    BY <1>0, <1>3, <2>2 DEF TypeOK, CloseShutdown
  <2>3. CASE CloseListener(g)
    BY <1>0, <1>3, <2>3 DEF TypeOK, CloseListener, Unlistened
  <2>4. CASE StopDiscovery(g)
    BY <1>0, <1>3, <2>4 DEF TypeOK, StopDiscovery, Stopped
  <2>5. CASE ClosePeers(g)
    BY <1>0, <1>3, <2>5 DEF TypeOK, ClosePeers, Closed
  <2>6. CASE Unlock(g)
    BY <1>0, <1>3, <2>6 DEF TypeOK, Unlock
  <2> QED
    BY <2>1, <2>2, <2>3, <2>4, <2>5, <2>6 DEF Stop
<1>5. /\ isRunning' = FALSE \/ isRunning' = isRunning
      /\ discovery' = discovery
      /\ \A i \in Instance : mdns'[i] = "on" => mdns[i] = "on"
  BY <1>0 DEF Stop, BeginStop, CloseShutdown, CloseListener, StopDiscovery, ClosePeers, Unlock,
     Stopped, TypeOK
<1>6. /\ pc[g] = "stop" \/ pc[g] \in Stopping
      /\ pc[g] = "stop" => ~ isRunning' /\ (l \in Stopping => isRunning)
  <2>1. CASE BeginStop(g)
    <3>1. Goto(g, IF isRunning THEN "close" ELSE Done(g))
      BY <2>1 DEF BeginStop, MayStop
    <3>2. pc'[g] = IF isRunning THEN "close" ELSE Done(g)
      BY <1>0, <3>1, GotoTyped DEF Done, MainPc, SignalPc, Stopping
    <3> QED
      BY <1>0, <1>3, <2>1, <3>2 DEF BeginStop, Done, Stopping, TypeOK
  <2>2. CASE ~ BeginStop(g)
    BY <2>2 DEF Stop, CloseShutdown, CloseListener, StopDiscovery, ClosePeers, Unlock, Stopping
  <2> QED
    BY <2>1, <2>2
<1>7. StopIsTaken'
  BY <1>0, <1>3, <1>5, <1>6 DEF StopIsTaken, Stopping
<1>8. OneStop'
  BY <1>0, <1>3, <1>6 DEF StopIsTaken, OneStop, Stopping
<1>9. HandlerAfterStart' /\ OnIsCurrent'
  BY <1>0, <1>2, <1>3, <1>5, <1>6
     DEF HandlerAfterStart, OnIsCurrent, Stopping, Done, SignalPc, MainPc
<1> QED
  BY <1>4, <1>7, <1>8, <1>9 DEF StopInv

\* A signal starts the handler, or ends a process that has none yet.
LEMMA SignalSteps == ASSUME StopInv, Signal PROVE StopInv'
<1> USE DEF Goroutine
<1>0. TypeOK /\ UNCHANGED <<isRunning, discovery, mdns>>
  BY DEF StopInv, Signal
<1>1. CASE pc["signal"] = "wait" /\ Goto("signal", "stop")
  <2>1. TypeOK'
    BY <1>0, <1>1, GotoTyped DEF Signal, TypeOK, SignalPc
  <2>2. pc'["signal"] = "stop" /\ pc'["main"] = pc["main"]
    BY <1>0, <1>1, GotoTyped DEF SignalPc
  <2> QED
    BY <1>0, <1>1, <2>1, <2>2
       DEF StopInv, HandlerAfterStart, StopIsTaken, OneStop, OnIsCurrent, Stopping
<1>2. CASE Goto("main", "exited")
  <2>1. TypeOK'
    BY <1>0, <1>2, GotoTyped DEF Signal, TypeOK, MainPc
  <2>2. pc'["main"] = "exited" /\ pc'["signal"] = "done"
    BY <1>0, <1>2, GotoTyped DEF MainPc
  <2> QED
    BY <1>0, <2>1, <2>2
       DEF StopInv, HandlerAfterStart, StopIsTaken, OneStop, OnIsCurrent, Stopping
<1> QED
  BY <1>1, <1>2 DEF Signal

\* The loops, the accept loop and the connections.
LEMMA LoopSteps ==
  ASSUME StopInv, \/ \E t \in Ticker : Tick(t) \/ EndRound(t) \/ LoopEnds(t)
               \/ AcceptFiles \/ AcceptEnds
  PROVE  StopInv'
<1>1. UNCHANGED <<isRunning, discovery, mdns, pc>>
  BY DEF Tick, EndRound, LoopEnds, AcceptFiles, AcceptEnds
<1>2. TypeOK'
  BY DEF StopInv, TypeOK, Tick, EndRound, LoopEnds, AcceptFiles, AcceptEnds
<1> QED
  BY <1>1, <1>2, Aside

LEMMA ConnSteps ==
  ASSUME StopInv, NEW c \in Conn,
         \/ StartDial(c) \/ DialEnds(c) \/ File(c) \/ Breaks(c) \/ HandlerReturns(c)
         \/ disconnectPeer(c) \/ AcceptConn(c)
  PROVE  StopInv'
<1>1. UNCHANGED <<isRunning, discovery, mdns, pc>>
  BY DEF StartDial, DialEnds, File, Breaks, HandlerReturns, disconnectPeer, AcceptConn
<1>2. TypeOK'
  BY DEF StopInv, TypeOK, StartDial, DialEnds, File, Breaks, HandlerReturns, disconnectPeer, AcceptConn,
     Closed
<1> QED
  BY <1>1, <1>2, Aside

\* Every step keeps the invariant of the program counters.
LEMMA StopInvNext == ASSUME StopInv, [Next]_vars PROVE StopInv'
<1>1. CASE Starting \/ Command \/ Obey
  BY <1>1, MainSteps
<1>2. CASE Signal
  BY <1>2, SignalSteps
<1>3. CASE \E g \in Goroutine : Stop(g)
  BY <1>3, StopSteps
<1>4. CASE \/ \E t \in Ticker : Tick(t) \/ EndRound(t) \/ LoopEnds(t)
           \/ AcceptFiles \/ AcceptEnds
  BY <1>4, LoopSteps
<1>5. ASSUME NEW c \in Conn,
             \/ StartDial(c) \/ DialEnds(c) \/ File(c) \/ Breaks(c) \/ HandlerReturns(c)
             \/ disconnectPeer(c) \/ AcceptConn(c)
      PROVE  StopInv'
  BY <1>5, ConnSteps
<1>6. ASSUME NEW i \in Instance, DiscoverLoopEnds(i) PROVE StopInv'
  <2>1. TypeOK' /\ UNCHANGED <<isRunning, discovery, pc>>
        /\ \A j \in Instance : mdns'[j] = "on" => mdns[j] = "on"
    BY <1>6 DEF StopInv, TypeOK, DiscoverLoopEnds
  <2> QED
    BY <2>1, Aside
<1>7. CASE UNCHANGED vars
  BY <1>7 DEF vars, StopInv, TypeOK, HandlerAfterStart, StopIsTaken, OneStop, OnIsCurrent
<1> QED
  BY <1>1, <1>2, <1>3, <1>4, <1>5, <1>6, <1>7 DEF Next

----------------------------------------------------------------------------
(* The lock and the channel.                                               *)

LEMMA LockInvInit == ASSUME Init PROVE LockInv
BY DEF Init, LockInv, HolderUnlocks, ShutdownFollowsStart, Goroutine

\* A goroutine that is not where the lock is held goes on, not to there, and
\* touches neither the lock nor the channel.
LEMMA LockAside ==
  ASSUME TypeOK, LockInv, UNCHANGED <<mutex, shutdown>>, NEW g \in Goroutine, NEW l, Goto(g, l),
         g = "main" => l \in MainPc, g = "signal" => l \in SignalPc \ {"exited"},
         pc[g] \notin {"unlock", "exited"}, l # "unlock",
         shutdown => ~ isRunning' /\ l \notin {"listen", "discover", "go", "wait"}
  PROVE  LockInv'
<1>1. /\ pc'[g] = l
      /\ l # "exited" => \A h \in Goroutine \ {g} : pc'[h] = pc[h]
      /\ l = "exited" => \A h \in Goroutine \ {g} : pc'[h] = "done"
      /\ l = "exited" => g = "main"
  BY GotoTyped, Zenon DEF Goroutine, SignalPc, Stopping
<1>2. HolderUnlocks'
  <2>1. CASE l = "exited"
    BY <1>1, <2>1 DEF LockInv, HolderUnlocks, Up
  <2>2. CASE l # "exited"
    <3>1. Up' => Up
      BY <1>1, <2>2 DEF Up, Goto, TypeOK, Goroutine
    <3>2. ASSUME NEW h \in Goroutine
          PROVE  /\ pc'[h] = "unlock" => mutex' = h
                 /\ Up' /\ mutex' = h => pc'[h] = "unlock"
      <4>1. /\ pc[h] = "unlock" => mutex = h
            /\ Up /\ mutex = h => pc[h] = "unlock"
        BY <3>2 DEF LockInv, HolderUnlocks
      <4> QED BY <1>1, <2>2, <3>1, <3>2, <4>1
    <3> QED BY <3>2 DEF HolderUnlocks
  <2> QED BY <2>1, <2>2
<1>3. ShutdownFollowsStart'
  BY <1>1 DEF LockInv, ShutdownFollowsStart, Goroutine
<1> QED BY <1>2, <1>3 DEF LockInv

\* Main and the signal handler do not touch the lock, and nothing that main
\* does while it starts the node comes after a Stop.
LEMMA LockCommandSteps ==
  ASSUME StopInv, LockInv, Starting \/ Command \/ Obey \/ Signal
  PROVE  LockInv'
<1>0. TypeOK /\ "main" \in Goroutine /\ "signal" \in Goroutine
  BY DEF StopInv, Goroutine
<1>1. CASE Listen \/ StartDiscovery \/ StartLoops
  <2>1. ~ shutdown /\ pc["main"] \notin {"unlock", "exited"} /\ UNCHANGED <<mutex, shutdown>>
    BY <1>1 DEF Listen, StartDiscovery, StartLoops, LockInv, ShutdownFollowsStart
  <2>2. PICK l \in {"discover", "go", "wait", "exited"} : Goto("main", l)
    BY <1>1 DEF Listen, StartDiscovery, StartLoops
  <2> QED BY <1>0, <2>1, <2>2, LockAside DEF MainPc
<1>2. CASE Ready
  <2>1. /\ pc["main"] = "wait" /\ pc["signal"] = "none"
        /\ pc'["main"] = "prompt" /\ pc'["signal"] = "wait"
        /\ UNCHANGED <<isRunning, mutex, shutdown>>
    BY <1>0, <1>2 DEF Ready, StopInv, HandlerAfterStart, TypeOK, Goroutine
  <2> QED BY <2>1 DEF LockInv, HolderUnlocks, ShutdownFollowsStart, Goroutine, Up
<1>3. CASE Command \/ Obey
  <2>1. pc["main"] \in {"prompt", "enable", "forget"} /\ UNCHANGED <<isRunning, mutex, shutdown>>
    BY <1>3 DEF Command, Obey, On, Off, Quit, EndOfInput, EnableDiscovery, DisableDiscovery
  <2>2. PICK l \in {"prompt", "enable", "forget", "stop", "exited"} : Goto("main", l)
    BY <1>3 DEF Command, Obey, On, Off, Quit, EndOfInput, EnableDiscovery, DisableDiscovery
  <2>3. shutdown => ~ isRunning'
    BY <2>1 DEF LockInv, ShutdownFollowsStart
  <2> QED BY <1>0, <2>1, <2>2, <2>3, LockAside DEF MainPc
<1>4. CASE Signal
  <2>1. UNCHANGED <<isRunning, mutex, shutdown>> /\ (shutdown => ~ isRunning')
    BY <1>4 DEF Signal, LockInv, ShutdownFollowsStart
  <2>2. CASE pc["signal"] = "wait" /\ Goto("signal", "stop")
    BY <1>0, <2>1, <2>2, LockAside DEF SignalPc
  <2>3. CASE pc["signal"] = "none" /\ Goto("main", "exited")
    <3>1. /\ pc'["main"] = "exited" /\ pc'["signal"] = "done"
      BY <1>0, <2>3, GotoTyped DEF MainPc, Goroutine
    <3> QED BY <2>1, <3>1 DEF LockInv, HolderUnlocks, ShutdownFollowsStart, Goroutine, Up
  <2> QED BY <1>4, <2>2, <2>3 DEF Signal
<1> QED BY <1>1, <1>2, <1>3, <1>4 DEF Starting

\* A Stop closes the channel of a node it has found running, takes a lock that
\* is free and lets go of the one it holds.
LEMMA LockStopSteps ==
  ASSUME StopInv, LockInv, NEW g \in Goroutine, Stop(g)
  PROVE  LockInv'
<1>0. TypeOK /\ g \in {"main", "signal"} /\ Done(g) \in {"exited", "done"}
      /\ (g = "main" => Done(g) \in MainPc) /\ (g = "signal" => Done(g) \in SignalPc \ {"exited"})
      /\ Done(g) \notin {"unlock", "listen", "discover", "go", "wait"}
  BY DEF StopInv, Goroutine, Done, MainPc, SignalPc, Stopping
<1>1. CASE BeginStop(g) \/ StopDiscovery(g) \/ CloseListener(g)
  <2>1. /\ pc[g] \notin {"unlock", "exited"} /\ UNCHANGED <<mutex, shutdown>>
        /\ isRunning' = FALSE \/ UNCHANGED isRunning
    BY <1>1 DEF BeginStop, StopDiscovery, CloseListener
  <2>2. PICK l \in {"close", "lock", "undiscover", Done(g)} : Goto(g, l)
    BY <1>1 DEF BeginStop, StopDiscovery, CloseListener
  <2>3. shutdown => ~ isRunning'
    BY <2>1 DEF LockInv, ShutdownFollowsStart
  <2>4. (g = "main" => l \in MainPc) /\ (g = "signal" => l \in SignalPc \ {"exited"}) /\ l # "unlock"
        /\ l \notin {"listen", "discover", "go", "wait"}
    BY <1>0, <2>2 DEF MainPc, SignalPc, Stopping
  <2> QED BY <1>0, <2>1, <2>2, <2>3, <2>4, LockAside
<1>2. CASE CloseShutdown(g)
  <2>1. /\ pc[g] = "close" /\ UNCHANGED <<isRunning, mutex>> /\ ~ isRunning
        /\ pc' = [pc EXCEPT ![g] = "unlisten"]
    BY <1>2 DEF CloseShutdown, Goto, StopInv, StopIsTaken, Stopping
  <2>2. pc["main"] \notin {"listen", "discover", "go", "wait"}
    BY <1>0, <2>1 DEF StopInv, HandlerAfterStart
  <2>3. pc' = [h \in Goroutine |-> IF h = g THEN "unlisten" ELSE pc[h]]
    BY <1>0, <2>1 DEF TypeOK
  <2> QED BY <1>0, <2>1, <2>2, <2>3 DEF LockInv, HolderUnlocks, ShutdownFollowsStart, Goroutine, Up
<1>3. CASE ClosePeers(g)
  <2>1. /\ pc[g] = "lock" /\ mutex = "free" /\ mutex' = g /\ UNCHANGED <<isRunning, shutdown>>
        /\ pc' = [pc EXCEPT ![g] = "unlock"]
    BY <1>3 DEF ClosePeers, Goto
  <2>2. pc' = [h \in Goroutine |-> IF h = g THEN "unlock" ELSE pc[h]]
    BY <1>0, <2>1 DEF TypeOK
  <2> QED BY <1>0, <2>1, <2>2 DEF LockInv, HolderUnlocks, ShutdownFollowsStart, Goroutine, Up
<1>4. CASE Unlock(g)
  <2>1. pc[g] = "unlock" /\ mutex' = "free" /\ UNCHANGED <<isRunning, shutdown>> /\ Goto(g, Done(g))
    BY <1>4 DEF Unlock
  <2>2. /\ pc'[g] = Done(g)
        /\ \A h \in Goroutine \ {g} : pc'[h] \in {pc[h], "done"}
    BY <1>0, <2>1, GotoTyped
  <2>3. \A h \in Goroutine \ {g} : pc[h] # "unlock"
    BY <2>1 DEF LockInv, HolderUnlocks
  <2> QED BY <1>0, <2>1, <2>2, <2>3 DEF LockInv, HolderUnlocks, ShutdownFollowsStart, Goroutine
<1> QED BY <1>1, <1>2, <1>3, <1>4 DEF Stop

\* Every step keeps what is said of the lock and of the channel.
LEMMA LockInvNext == ASSUME StopInv, LockInv, [Next]_vars PROVE LockInv'
<1>1. CASE Starting \/ Command \/ Obey \/ Signal
  BY <1>1, LockCommandSteps
<1>2. CASE \E g \in Goroutine : Stop(g)
  BY <1>2, LockStopSteps
<1>3. CASE \/ \E t \in Ticker : Tick(t) \/ EndRound(t) \/ LoopEnds(t)
           \/ \E c \in Conn : StartDial(c) \/ DialEnds(c) \/ File(c) \/ Breaks(c)
                              \/ HandlerReturns(c) \/ disconnectPeer(c) \/ AcceptConn(c)
           \/ AcceptFiles \/ AcceptEnds
           \/ \E i \in Instance : DiscoverLoopEnds(i)
           \/ UNCHANGED vars
  <2>1. UNCHANGED <<isRunning, shutdown, mutex, pc>>
    BY <1>3 DEF Tick, EndRound, LoopEnds, StartDial, DialEnds, File, Breaks, HandlerReturns,
                disconnectPeer, AcceptConn, AcceptFiles, AcceptEnds, DiscoverLoopEnds, vars
  <2> QED BY <2>1 DEF LockInv, HolderUnlocks, ShutdownFollowsStart, Up
<1> QED BY <1>1, <1>2, <1>3 DEF Next

\* The inductive invariant holds of every behaviour.
LEMMA Invariance == Spec => []IInv
<1>1. Init => IInv
  BY StopInvInit, LockInvInit DEF IInv
<1>2. IInv /\ [Next]_vars => IInv'
  BY StopInvNext, LockInvNext DEF IInv
<1> QED
  BY <1>1, <1>2, PTL DEF Spec

\* Whatever the commands, signals and connections, the state is well typed.
THEOREM LifecycleTypes == Spec => []TypeOK
<1>1. IInv => TypeOK
  BY DEF IInv, StopInv
<1> QED
  BY <1>1, Invariance, PTL

\* quit and the signal handler never both carry out Node.Stop.
THEOREM NodeStopsOnce == Spec => []OneStop
<1>1. IInv => OneStop
  BY DEF IInv, StopInv
<1> QED
  BY <1>1, Invariance, PTL

\* No two MDNSDiscovery objects are on, however often the command line turns
\* discovery on and off and whenever the node is stopped.
THEOREM DiscoveryIsUnique == Spec => []OneDiscovery
<1>1. IInv => OneDiscovery
  BY DEF IInv, StopInv, OnIsCurrent, OneDiscovery
<1> QED
  BY <1>1, Invariance, PTL

\* Node.mutex is never left locked by a Stop that has returned, and no Stop
\* goes on without it.
THEOREM StopHoldsTheLock == Spec => []HolderUnlocks
<1>1. IInv => HolderUnlocks
  BY DEF IInv, LockInv
<1> QED
  BY <1>1, Invariance, PTL

\* After the channel is closed the node is not running again, its listener
\* stays closed and no loop begins.
LEMMA StoppedStaysStoppedNext ==
  ASSUME IInv, [Next]_vars, shutdown
  PROVE  /\ shutdown' /\ ~ isRunning'
         /\ listener = "closed" => listener' = "closed"
         /\ accept = "off" => accept' = "off"
         /\ \A t \in Ticker : loops[t] = "off" => loops'[t] = "off"
<1>1. /\ isRunning = FALSE /\ shutdown = TRUE /\ ~ Starting
      /\ loops \in [Ticker -> {"off", "select", "round"}]
  BY DEF IInv, StopInv, LockInv, ShutdownFollowsStart, TypeOK, Starting, Listen, StartDiscovery,
         StartLoops, Ready
<1>2. ASSUME Command \/ Obey \/ Signal
      PROVE  UNCHANGED <<shutdown, isRunning, listener, accept, loops>>
  BY <1>2 DEF Command, Obey, Signal, On, Off, Quit, EndOfInput, EnableDiscovery, DisableDiscovery
<1>3. ASSUME NEW g \in Goroutine, Stop(g)
      PROVE  /\ isRunning' = FALSE /\ shutdown' = TRUE
             /\ listener' = "closed" \/ listener' = listener
             /\ UNCHANGED <<accept, loops>>
  <2>1. CASE BeginStop(g)
    BY <2>1 DEF BeginStop
  <2>2. CASE CloseShutdown(g)
    BY <1>1, <2>2 DEF CloseShutdown
  <2>3. CASE CloseListener(g) \/ StopDiscovery(g) \/ ClosePeers(g) \/ Unlock(g)
    BY <1>1, <2>3 DEF CloseListener, StopDiscovery, ClosePeers, Unlock, Unlistened
  <2> QED BY <1>3, <2>1, <2>2, <2>3 DEF Stop
<1>4. ASSUME NEW t \in Ticker, Tick(t) \/ EndRound(t) \/ LoopEnds(t)
      PROVE  /\ UNCHANGED <<shutdown, isRunning, listener, accept>>
             /\ \A u \in Ticker : loops[u] = "off" => loops'[u] = "off"
  BY <1>1, <1>4 DEF Tick, EndRound, LoopEnds
<1>5. ASSUME NEW c \in Conn,
             \/ StartDial(c) \/ DialEnds(c) \/ File(c) \/ Breaks(c) \/ HandlerReturns(c)
             \/ disconnectPeer(c) \/ AcceptConn(c)
      PROVE  /\ UNCHANGED <<shutdown, isRunning, listener, loops>>
             /\ accept = "off" => accept' = "off"
  BY <1>5 DEF StartDial, DialEnds, File, Breaks, HandlerReturns, disconnectPeer, AcceptConn
<1>6. ASSUME AcceptFiles \/ AcceptEnds
      PROVE  /\ UNCHANGED <<shutdown, isRunning, listener, loops>>
             /\ accept = "off" => accept' = "off"
  BY <1>6, ConnAssumption DEF AcceptFiles, AcceptEnds
<1>7. ASSUME (\E i \in Instance : DiscoverLoopEnds(i)) \/ UNCHANGED vars
      PROVE  UNCHANGED <<shutdown, isRunning, listener, accept, loops>>
  BY <1>7 DEF DiscoverLoopEnds, vars
<1>8. /\ isRunning' = FALSE /\ shutdown' = TRUE
      /\ listener' = "closed" \/ listener' = listener
      /\ accept = "off" => accept' = "off"
      /\ \A t \in Ticker : loops[t] = "off" => loops'[t] = "off"
  <2>1. CASE Starting \/ Command \/ Obey \/ Signal
    BY <1>1, <1>2, <2>1
  <2>2. CASE \E g \in Goroutine : Stop(g)
    BY <1>3, <2>2
  <2>3. CASE \E t \in Ticker : Tick(t) \/ EndRound(t) \/ LoopEnds(t)
    BY <1>1, <1>4, <2>3
  <2>4. CASE \E c \in Conn : StartDial(c) \/ DialEnds(c) \/ File(c) \/ Breaks(c)
                             \/ HandlerReturns(c) \/ disconnectPeer(c) \/ AcceptConn(c)
    BY <1>1, <1>5, <2>4
  <2>5. CASE AcceptFiles \/ AcceptEnds
    BY <1>1, <1>6, <2>5
  <2>6. CASE (\E i \in Instance : DiscoverLoopEnds(i)) \/ UNCHANGED vars
    BY <1>1, <1>7, <2>6
  <2> QED BY <2>1, <2>2, <2>3, <2>4, <2>5, <2>6, Zenon DEF Next
<1> QED BY <1>1, <1>8

\* A node that has been told to shut down stays stopped.
THEOREM NodeStaysStopped == Spec => StoppedStaysStopped
<1> QED
  BY StoppedStaysStoppedNext, Invariance, PTL DEF Spec, StoppedStaysStopped

\* With a peers file nobody lets go of the lock a Stop has taken, and nothing
\* that needs it happens.
LockStaysHeld ==
  PeersFile /\ mutex # "free" =>
    UNCHANGED <<mutex, peers>> /\ (Up' => pc'[mutex] = "unlock")

LEMMA SavingStopIsStuckNext ==
  ASSUME IInv, [Next]_vars PROVE LockStaysHeld
<1> SUFFICES ASSUME PeersFile, mutex # "free"
             PROVE  UNCHANGED <<mutex, peers>> /\ (Up' => pc'[mutex] = "unlock")
  BY DEF LockStaysHeld
<1>1. ASSUME Starting \/ Command \/ Obey \/ Signal PROVE UNCHANGED <<mutex, peers>>
  BY <1>1 DEF Starting, Listen, StartDiscovery, StartLoops, Ready, Command, On, Off, Quit, EndOfInput,
              Obey, EnableDiscovery, DisableDiscovery, Signal
<1>2. ASSUME NEW g \in Goroutine, Stop(g) PROVE UNCHANGED <<mutex, peers>>
  BY <1>2 DEF Stop, BeginStop, CloseShutdown, CloseListener, StopDiscovery, ClosePeers, Unlock, Saves,
              RLock
<1>3. ASSUME NEW c \in Conn,
             \/ StartDial(c) \/ DialEnds(c) \/ File(c) \/ Breaks(c) \/ HandlerReturns(c)
             \/ disconnectPeer(c) \/ AcceptConn(c)
      PROVE  UNCHANGED <<mutex, peers>>
  BY <1>3 DEF StartDial, DialEnds, File, Breaks, HandlerReturns, disconnectPeer, AcceptConn
<1>4. ASSUME \/ \E t \in Ticker : Tick(t) \/ EndRound(t) \/ LoopEnds(t)
             \/ AcceptFiles \/ AcceptEnds
             \/ \E i \in Instance : DiscoverLoopEnds(i)
             \/ UNCHANGED vars
      PROVE  UNCHANGED <<mutex, peers>>
  BY <1>4 DEF Tick, EndRound, LoopEnds, AcceptFiles, AcceptEnds, DiscoverLoopEnds, vars
<1>5. UNCHANGED <<mutex, peers>>
  BY <1>1, <1>2, <1>3, <1>4 DEF Next
<1>6. HolderUnlocks' /\ mutex \in Goroutine
  BY LockInvNext DEF IInv, StopInv, LockInv, TypeOK
<1> QED BY <1>5, <1>6 DEF HolderUnlocks

\* The deadlock of a Stop that saves its peers is for good, for any loops and
\* connections: from the step that takes the lock on, the Stop is where it was,
\* the lock is held and the table of peers is frozen until the process ends.
THEOREM SavingStopNeverReturns == Spec => [][LockStaysHeld]_vars
<1> QED
  BY SavingStopIsStuckNext, Invariance, PTL DEF Spec
============================================================================
