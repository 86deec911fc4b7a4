----------------------------- MODULE Lifecycle -----------------------------
(***************************************************************************)
(* One AetherWave process from its start to its end: what main and the     *)
(* signal handler of cmd/aetherwave/main.go do to the node, Node.Start and *)
(* Node.Stop of pkg/network/node.go, the goroutines that Start leaves      *)
(* behind, and the mDNS discovery of pkg/network/discovery.go that the     *)
(* command line turns on and off.                                          *)
(*                                                                         *)
(* What the table says of each peer is in PeerTable; here a connection is  *)
(* dialled or accepted, filed, and closed.  The HTTP server, whose         *)
(* Shutdown waits at most five seconds before Stop, is left out.           *)
(***************************************************************************)

CONSTANTS
  Ticker,         \* the loops with a ticker that are modelled
  Conn,           \* connections (bound: those that exist at a time)
  Instance,       \* MDNSDiscovery objects (bound: times it is turned on)
  DiscoveryFlag,  \* -discovery
  PeersFile,      \* whether there is a -peers-file
  None

ASSUME TickerAssumption ==
  Ticker \subseteq {"broadcastPeerList", "probePeers", "pruneKnownPeers", "reconnectToKnownPeers"}
ASSUME ConnAssumption == "off" \notin Conn /\ "accept" \notin Conn
ASSUME FlagAssumption == DiscoveryFlag \in BOOLEAN /\ PeersFile \in BOOLEAN /\ None \notin Instance

VARIABLES
  isRunning,  \* Node.isRunning
  shutdown,   \* Node.shutdown is closed
  listener,   \* Node.listener: "none", "open" or "closed"
  mutex,      \* "free", or the goroutine whose Stop holds Node.mutex
  peers,      \* connections filed in Node.Peers
  conn,       \* conn[c]: "free", "dial", "new", "open" or "closed"
  loops,      \* the ticker loops: "off", "select" or "round"
  accept,     \* acceptConnections: "off", "accept", or the connection it files
  discovery,  \* Node.discovery
  mdns,       \* mdns[i]: "unused", "on", "stopping", "off" or "failed"
  pc          \* where main and the signal handler are

vars == <<isRunning, shutdown, listener, mutex, peers, conn, loops, accept, discovery, mdns, pc>>

Goroutine == {"main", "signal"}

\* The process has not ended; its end is that of all its goroutines.
Up == pc["main"] # "exited"

Goto(g, l) ==
  pc' = IF l = "exited" THEN [h \in Goroutine |-> IF h = "main" THEN l ELSE "done"]
        ELSE [pc EXCEPT ![g] = l]

Init ==
  /\ isRunning = FALSE /\ shutdown = FALSE /\ listener = "none" /\ mutex = "free"
  /\ peers = {} /\ conn = [c \in Conn |-> "free"]
  /\ loops = [t \in Ticker |-> "off"] /\ accept = "off"
  /\ discovery = None /\ mdns = [i \in Instance |-> "unused"]
  /\ pc = [g \in Goroutine |-> IF g = "main" THEN "listen" ELSE "none"]

----------------------------------------------------------------------------
(* Discovery.                                                              *)

\* A new MDNSDiscovery becomes Node.discovery and is started; when
\* registering or the resolver fails the object stays in place.
NewDiscovery ==
  \E i \in Instance :
    /\ mdns[i] = "unused"
    /\ discovery' = i
    /\ \E s \in {"on", "failed"} : mdns' = [mdns EXCEPT ![i] = s]

\* MDNSDiscovery.Stop, as often as one likes.
Stopped(i) == [mdns EXCEPT ![i] = IF @ = "on" THEN "stopping" ELSE @]

\* discoverLoop sees its closed channel after the browse in hand.
DiscoverLoopEnds(i) ==
  /\ Up /\ mdns[i] = "stopping"
  /\ mdns' = [mdns EXCEPT ![i] = "off"]
  /\ UNCHANGED <<isRunning, shutdown, listener, mutex, peers, conn, loops, accept, discovery, pc>>

----------------------------------------------------------------------------
(* Node.Start, called by main.                                             *)

\* Mutant of Listen: the signal handler is there before the node is started.
ListenHandled ==
  /\ pc["main"] = "listen"
  /\ isRunning' = TRUE /\ listener' = "open"
  /\ pc' = [pc EXCEPT !["main"] = "discover", !["signal"] = "wait"]
  /\ UNCHANGED <<shutdown, mutex, peers, conn, loops, accept, discovery, mdns>>

Listen ==
  /\ pc["main"] = "listen"
  /\ \/ isRunning' = TRUE /\ listener' = "open" /\ Goto("main", "discover")
     \/ isRunning' = FALSE /\ listener' = "none" /\ Goto("main", "exited")
  /\ UNCHANGED <<shutdown, mutex, peers, conn, loops, accept, discovery, mdns>>

StartDiscovery ==
  /\ pc["main"] = "discover"
  /\ IF DiscoveryFlag THEN NewDiscovery ELSE UNCHANGED <<discovery, mdns>>
  /\ Goto("main", "go")
  /\ UNCHANGED <<isRunning, shutdown, listener, mutex, peers, conn, loops, accept>>

StartLoops ==
  /\ pc["main"] = "go"
  /\ loops' = [t \in Ticker |-> "select"]
  /\ accept' = "accept"
  /\ Goto("main", "wait")
  /\ UNCHANGED <<isRunning, shutdown, listener, mutex, peers, conn, discovery, mdns>>

\* Six seconds later the signal handler is there and main reads commands.
Ready ==
  /\ pc["main"] = "wait"
  /\ pc' = [pc EXCEPT !["main"] = "prompt", !["signal"] = "wait"]
  /\ UNCHANGED <<isRunning, shutdown, listener, mutex, peers, conn, loops, accept, discovery, mdns>>

----------------------------------------------------------------------------
(* Connections.                                                            *)

\* Who calls ConnectToPeer: discovery while its loop runs, and once Start has
\* begun its goroutines anybody at any time.  bootstrapDiscovery, main's -peer,
\* POST /api/peers and the goroutines of a peer list or of a reconnect round
\* wait for nobody: a round may have ended before its goroutines dial, and a
\* request outlives the five seconds that Shutdown gives it before Stop.
Dials ==
  \/ \E i \in Instance : mdns[i] \in {"on", "stopping"}
  \/ pc["main"] \notin {"listen", "discover", "go"}

StartDial(c) ==
  /\ Up /\ conn[c] = "free" /\ c \notin peers
  /\ Dials /\ mutex = "free"
  /\ conn' = [conn EXCEPT ![c] = "dial"]
  /\ UNCHANGED <<isRunning, shutdown, listener, mutex, peers, loops, accept, discovery, mdns, pc>>

\* DialPeer returns a connection or, the status having been updated, fails.
DialEnds(c) ==
  /\ Up /\ conn[c] = "dial"
  /\ \/ conn' = [conn EXCEPT ![c] = "new"]
     \/ mutex = "free" /\ conn' = [conn EXCEPT ![c] = "free"]
  /\ UNCHANGED <<isRunning, shutdown, listener, mutex, peers, loops, accept, discovery, mdns, pc>>

\* The connection is filed and its handler starts, stopped or not.
File(c) ==
  /\ Up /\ conn[c] = "new" /\ accept # c
  /\ mutex = "free"
  /\ peers' = peers \cup {c}
  /\ conn' = [conn EXCEPT ![c] = "open"]
  /\ UNCHANGED <<isRunning, shutdown, listener, mutex, loops, accept, discovery, mdns, pc>>

\* The other end closes: the table keeps its entry.
Breaks(c) ==
  /\ Up /\ conn[c] = "open"
  /\ conn' = [conn EXCEPT ![c] = "closed"]
  /\ UNCHANGED <<isRunning, shutdown, listener, mutex, peers, loops, accept, discovery, mdns, pc>>

\* The handler of a closed connection.
HandlerReturns(c) ==
  /\ Up /\ conn[c] = "closed"
  /\ conn' = [conn EXCEPT ![c] = "free"]
  /\ UNCHANGED <<isRunning, shutdown, listener, mutex, peers, loops, accept, discovery, mdns, pc>>

Closed(cs) == [c \in Conn |-> IF c \in cs /\ conn[c] = "open" THEN "closed" ELSE conn[c]]

disconnectPeer(c) ==
  /\ Up /\ mutex = "free" /\ c \in peers
  /\ peers' = peers \ {c}
  /\ conn' = Closed({c})
  /\ UNCHANGED <<isRunning, shutdown, listener, mutex, loops, accept, discovery, mdns, pc>>

\* acceptConnections: Accept returns a connection, which is filed in another
\* step, or the error of a closed listener.
AcceptConn(c) ==
  /\ Up /\ accept = "accept" /\ listener = "open" /\ conn[c] = "free" /\ c \notin peers
  /\ accept' = c
  /\ conn' = [conn EXCEPT ![c] = "new"]
  /\ UNCHANGED <<isRunning, shutdown, listener, mutex, peers, loops, discovery, mdns, pc>>

AcceptFiles ==
  /\ Up /\ accept \in Conn /\ mutex = "free"
  /\ peers' = peers \cup {accept}
  /\ conn' = [conn EXCEPT ![accept] = "open"]
  /\ accept' = "accept"
  /\ UNCHANGED <<isRunning, shutdown, listener, mutex, loops, discovery, mdns, pc>>

AcceptEnds ==
  /\ Up /\ accept = "accept" /\ shutdown /\ listener = "closed"
  /\ accept' = "off"
  /\ UNCHANGED <<isRunning, shutdown, listener, mutex, peers, conn, loops, discovery, mdns, pc>>

----------------------------------------------------------------------------
(* The ticker loops.  A select with a closed channel and a due ticker      *)
(* takes either.                                                           *)

Tick(t) ==
  /\ Up /\ loops[t] = "select"
  /\ loops' = [loops EXCEPT ![t] = "round"]
  /\ UNCHANGED <<isRunning, shutdown, listener, mutex, peers, conn, accept, discovery, mdns, pc>>

EndRound(t) ==
  /\ Up /\ loops[t] = "round" /\ mutex = "free"
  /\ loops' = [loops EXCEPT ![t] = "select"]
  /\ UNCHANGED <<isRunning, shutdown, listener, mutex, peers, conn, accept, discovery, mdns, pc>>

LoopEnds(t) ==
  /\ Up /\ loops[t] = "select" /\ shutdown
  /\ loops' = [loops EXCEPT ![t] = "off"]
  /\ UNCHANGED <<isRunning, shutdown, listener, mutex, peers, conn, accept, discovery, mdns, pc>>

----------------------------------------------------------------------------
(* Node.Stop, called by g.                                                 *)

\* Mutant of Done: main does not return either.
DoneAlike(g) == "done"

\* After a Stop main returns and the signal handler ends.
Done(g) == IF g = "main" THEN "exited" ELSE "done"

\* Mutant of MayStop: no look at isRunning.
MayStopAgain == TRUE

MayStop == isRunning

BeginStop(g) ==
  /\ pc[g] = "stop"
  /\ isRunning' = FALSE
  /\ Goto(g, IF MayStop THEN "close" ELSE Done(g))
  /\ UNCHANGED <<shutdown, listener, mutex, peers, conn, loops, accept, discovery, mdns>>

CloseShutdown(g) ==
  /\ pc[g] = "close"
  /\ shutdown' = TRUE
  /\ Goto(g, "unlisten")
  /\ UNCHANGED <<isRunning, listener, mutex, peers, conn, loops, accept, discovery, mdns>>

\* Mutant of Unlistened: the listener stays open.
StillListening == listener

Unlistened == "closed"

CloseListener(g) ==
  /\ pc[g] = "unlisten"
  /\ listener' = Unlistened
  /\ Goto(g, IF discovery = None THEN "lock" ELSE "undiscover")
  /\ UNCHANGED <<isRunning, shutdown, mutex, peers, conn, loops, accept, discovery, mdns>>

\* Node.discovery is read a second time.  When it has become nil the call
\* panics, which ends the process in main and is recovered in the handler.
StopDiscovery(g) ==
  /\ pc[g] = "undiscover"
  /\ IF discovery = None
     THEN UNCHANGED mdns /\ Goto(g, Done(g))
     ELSE mdns' = Stopped(discovery) /\ Goto(g, "lock")
  /\ UNCHANGED <<isRunning, shutdown, listener, mutex, peers, conn, loops, accept, discovery>>

\* Every connection in the table is closed, and the table is empty.
ClosePeers(g) ==
  /\ pc[g] = "lock" /\ mutex = "free"
  /\ mutex' = g
  /\ conn' = Closed(peers)
  /\ peers' = {}
  /\ Goto(g, "unlock")
  /\ UNCHANGED <<isRunning, shutdown, listener, loops, accept, discovery, mdns>>

\* Mutant of Saves: peers are saved without looking at the path.
SavesAlways == TRUE

Saves == PeersFile

\* SavePeersToFile takes the lock for reading, its caller holding it or not.
RLock == mutex = "free"

\* Mutant of Unlock: the lock is let go on the way that saves only.
UnlockAfterSaving(g) ==
  /\ pc[g] = "unlock"
  /\ Saves => RLock
  /\ mutex' = IF Saves THEN "free" ELSE mutex
  /\ Goto(g, Done(g))
  /\ UNCHANGED <<isRunning, shutdown, listener, peers, conn, loops, accept, discovery, mdns>>

\* The deferred Unlock, after the peers have been saved.
Unlock(g) ==
  /\ pc[g] = "unlock"
  /\ Saves => RLock
  /\ mutex' = "free"
  /\ Goto(g, Done(g))
  /\ UNCHANGED <<isRunning, shutdown, listener, peers, conn, loops, accept, discovery, mdns>>

Stop(g) ==
  \/ BeginStop(g) \/ CloseShutdown(g) \/ CloseListener(g) \/ StopDiscovery(g)
  \/ ClosePeers(g) \/ Unlock(g)

----------------------------------------------------------------------------
(* The command line and the signal handler.                                *)

\* Mutant of MayEnable: Node.discovery is replaced, whatever it is.
MayEnableAgain == isRunning

MayEnable == isRunning /\ discovery = None

\* discovery on: the check of EnableDiscovery, and what follows it.
On ==
  /\ pc["main"] = "prompt" /\ MayEnable
  /\ \E i \in Instance : mdns[i] = "unused"
  /\ Goto("main", "enable")
  /\ UNCHANGED <<isRunning, shutdown, listener, mutex, peers, conn, loops, accept, discovery, mdns>>

EnableDiscovery ==
  /\ pc["main"] = "enable"
  /\ NewDiscovery
  /\ Goto("main", "prompt")
  /\ UNCHANGED <<isRunning, shutdown, listener, mutex, peers, conn, loops, accept>>

\* discovery off: DisableDiscovery stops the object, then forgets it.
Off ==
  /\ pc["main"] = "prompt" /\ discovery # None
  /\ mdns' = Stopped(discovery)
  /\ Goto("main", "forget")
  /\ UNCHANGED <<isRunning, shutdown, listener, mutex, peers, conn, loops, accept, discovery>>

DisableDiscovery ==
  /\ pc["main"] = "forget"
  /\ discovery' = None
  /\ Goto("main", "prompt")
  /\ UNCHANGED <<isRunning, shutdown, listener, mutex, peers, conn, loops, accept, mdns>>

\* quit stops the node first; the end of the input does not.
Quit ==
  /\ pc["main"] = "prompt"
  /\ Goto("main", "stop")
  /\ UNCHANGED <<isRunning, shutdown, listener, mutex, peers, conn, loops, accept, discovery, mdns>>

EndOfInput ==
  /\ pc["main"] = "prompt"
  /\ Goto("main", "exited")
  /\ UNCHANGED <<isRunning, shutdown, listener, mutex, peers, conn, loops, accept, discovery, mdns>>

\* SIGINT or SIGTERM: the first one starts the handler, and before there is
\* one it ends the process.  main goes on reading commands.
Signal ==
  /\ \/ pc["signal"] = "wait" /\ Goto("signal", "stop")
     \/ pc["signal"] = "none" /\ Goto("main", "exited")
  /\ UNCHANGED <<isRunning, shutdown, listener, mutex, peers, conn, loops, accept, discovery, mdns>>

Starting == Listen \/ StartDiscovery \/ StartLoops \/ Ready
Command == On \/ Off \/ Quit \/ EndOfInput
Obey == EnableDiscovery \/ DisableDiscovery

Next ==
  \/ Starting \/ Command \/ Obey \/ Signal
  \/ \E g \in Goroutine : Stop(g)
  \/ \E t \in Ticker : Tick(t) \/ EndRound(t) \/ LoopEnds(t)
  \/ \E c \in Conn : StartDial(c) \/ DialEnds(c) \/ File(c) \/ Breaks(c) \/ HandlerReturns(c)
                     \/ disconnectPeer(c) \/ AcceptConn(c)
  \/ AcceptFiles \/ AcceptEnds
  \/ \E i \in Instance : DiscoverLoopEnds(i)

Spec == Init /\ [][Next]_vars

\* Goroutines that can go on do.  A select whose channel is closed is not
\* taken by its ticker for ever.  Commands, signals and connections come
\* when they like.
FairSpec ==
  /\ Spec
  /\ WF_vars(Starting) /\ WF_vars(Obey)
  /\ \A g \in Goroutine : WF_vars(Stop(g))
  /\ \A t \in Ticker : WF_vars(EndRound(t)) /\ SF_vars(LoopEnds(t))
  /\ \A c \in Conn : WF_vars(DialEnds(c)) /\ WF_vars(File(c))
  /\ WF_vars(AcceptFiles) /\ WF_vars(AcceptEnds)

----------------------------------------------------------------------------
Stopping == {"close", "unlisten", "undiscover", "lock", "unlock"}

MainPc == {"listen", "discover", "go", "wait", "prompt", "enable", "forget", "stop", "exited"}
          \cup Stopping
SignalPc == {"none", "wait", "stop", "done"} \cup Stopping

\* Type invariant.
TypeOK ==
  /\ isRunning \in BOOLEAN /\ shutdown \in BOOLEAN
  /\ listener \in {"none", "open", "closed"} /\ mutex \in Goroutine \cup {"free"}
  /\ peers \subseteq Conn /\ conn \in [Conn -> {"free", "dial", "new", "open", "closed"}]
  /\ loops \in [Ticker -> {"off", "select", "round"}]
  /\ accept \in Conn \cup {"off", "accept"}
  /\ discovery \in Instance \cup {None}
  /\ mdns \in [Instance -> {"unused", "on", "stopping", "off", "failed"}]
  /\ pc \in [Goroutine -> MainPc \cup SignalPc]
  /\ pc["main"] \in MainPc /\ pc["signal"] \in SignalPc

\* Between quit and the signal handler only one gets to close the channel,
\* the listener and the connections.
OneStop ==
  \A g, h \in Goroutine : pc[g] \in Stopping /\ pc[h] \in Stopping => g = h

\* Whatever commands come and whenever the signal handler stops the node,
\* one discovery at most is not told to stop: the node has one mDNS name.
OneDiscovery ==
  \A i, j \in Instance : mdns[i] = "on" /\ mdns[j] = "on" => i = j

\* Node.mutex is held by a Stop that has still to let it go, and by that one
\* only: no Stop returns with the lock or carries on without it.
HolderUnlocks ==
  \A g \in Goroutine :
    /\ pc[g] = "unlock" => mutex = g
    /\ Up /\ mutex = g => pc[g] = "unlock"

\* A node that has been told to shut down stays so: it is not running again,
\* its listener does not open, and no loop of Start that has ended or has not
\* begun runs after all.  Start and Stop look at nothing that both hold.
StoppedStaysStopped ==
  [][shutdown =>
       /\ shutdown' /\ ~ isRunning'
       /\ listener = "closed" => listener' = "closed"
       /\ accept = "off" => accept' = "off"
       /\ \A t \in Ticker : loops[t] = "off" => loops'[t] = "off"]_vars

\* "Stop stops the node": it returns, in spite of the loops, the dials and
\* the handlers that want the same lock.
StopReturns ==
  \A g \in Goroutine : (pc[g] \in Stopping) ~> (pc[g] \notin Stopping)

\* A stopped node's loops end, the one that blocks in Accept too: main is
\* still there after a signal, and so would they be.
LoopsEnd ==
  shutdown ~> (~ Up \/ (accept = "off" /\ \A t \in Ticker : loops[t] = "off"))

----------------------------------------------------------------------------
(* The inductive invariant behind the safety properties.                   *)

\* The signal handler comes after Start, and nothing is discovered before.
HandlerAfterStart ==
  /\ pc["main"] \in {"listen", "discover", "go", "wait"} => pc["signal"] = "none"
  /\ pc["main"] \in {"listen", "discover", "enable"} => discovery = None

\* Who stops has made it impossible to begin another Stop.
StopIsTaken == \A g \in Goroutine : pc[g] \in Stopping => ~ isRunning

\* The channel is closed by a Stop, whose node was running and is no more.
ShutdownFollowsStart ==
  shutdown => ~ isRunning /\ pc["main"] \notin {"listen", "discover", "go", "wait"}

\* Discovery that has not been told to stop is Node.discovery's, and between
\* the two steps of DisableDiscovery there is none.
OnIsCurrent ==
  \A i \in Instance : mdns[i] = "on" => discovery = i /\ pc["main"] # "forget"

StopInv == TypeOK /\ HandlerAfterStart /\ StopIsTaken /\ OneStop /\ OnIsCurrent

LockInv == HolderUnlocks /\ ShutdownFollowsStart

IInv == StopInv /\ LockInv
============================================================================
