----------------------------- MODULE PeerTable -----------------------------
(***************************************************************************)
(* The connection table of one node, pkg/network/node.go: which            *)
(* connection it holds for which address (Peers), what it remembers of     *)
(* every address it has heard of (KnownPeers), and the goroutines that     *)
(* change both: one handler per connection, the dials, the probe, the      *)
(* peer-list broadcast, the pruning and the reconnect loop.                *)
(*                                                                         *)
(* The node's mutex guards every access to the two maps, so that a step is *)
(* one lock region (or one dial, one write, one read).  The rest of the    *)
(* network is free: other nodes connect, send, name addresses they have    *)
(* heard of, and go away whenever they like.                               *)
(***************************************************************************)
EXTENDS Integers, FiniteSets, Functions

CONSTANTS
  Self,            \* the node's own address
  Listening,       \* addresses at which other nodes listen
  Inbound,         \* remote addresses of connections that others dial
  Ephemeral,       \* those of them whose port is above 49152
  Bootstrap,       \* bootstrapPeers and the -peer flag
  Saved,           \* addresses in the peers file
  Announced,       \* addresses whose mDNS announcements come through, Self among them
  Keyed,           \* whether the node has a NetworkKey
  Conn,            \* connections (bound: those that exist at a time)
  None,
  MaxPeers,
  MaxFailedPings,
  MaxDials,        \* bound: ConnectToPeer calls that run at a time
  MaxRounds,       \* bound: probe and broadcast rounds that overlap
  MaxList,         \* bound: addresses in a received list
  MaxFaults        \* bound: connections cut, nodes gone, reads timed out, peers added by hand

Others == Listening \cup Inbound
Address == {Self} \cup Others

ASSUME AddressAssumption ==
  /\ Self \notin Listening \cup Inbound /\ Listening \cap Inbound = {}
  /\ Ephemeral \subseteq Inbound
  /\ Bootstrap \subseteq Listening /\ Cardinality(Bootstrap) <= 1 /\ Saved \subseteq Listening
  /\ Announced \subseteq Listening \cup {Self}
  /\ None \notin Address \cup Conn
ASSUME LimitsAssumption ==
  /\ Keyed \in BOOLEAN
  /\ MaxPeers \in Nat /\ MaxFailedPings \in Nat \ {0}
  /\ MaxDials \in Nat /\ (Bootstrap # {} => MaxDials >= 2) /\ MaxRounds \in 1..2 /\ MaxList \in Nat /\ MaxFaults \in Nat

VARIABLES
  peers,       \* Node.Peers: a function on the addresses that have an entry
  known,       \* Node.KnownPeers, likewise
  conn,        \* conn[c]: a connection and its handleConnection goroutine
  dials,       \* the running ConnectToPeer calls
  probe,       \* the probePeers goroutine
  cast,        \* the broadcastPeerList goroutine
  discovered,  \* MDNSDiscovery.discoveredMap
  up,          \* the nodes that are there
  faults

vars == <<peers, known, conn, dials, probe, cast, discovered, up, faults>>

----------------------------------------------------------------------------
(* Entries and connections.                                                *)

With(f, a, v) == [x \in DOMAIN f \cup {a} |-> IF x = a THEN v ELSE f[x]]
Without(f, S) == Restrict(f, DOMAIN f \ S)

\* LastSeen by what the loops ask of it: late is longer than PeerTimeout ago
\* for an active address, longer than MaxInactiveAge for an inactive one.
Entry(active, failed) == [active |-> active, failed |-> failed, late |-> FALSE]

\* An address that becomes inactive has not been silent for MaxInactiveAge.
Inactive(entry) == [entry EXCEPT !.active = FALSE, !.late = IF entry.active THEN FALSE ELSE @]

Active(a) == a \in DOMAIN known /\ known[a].active

\* A counter at MaxFailedPings or above is all the same to the code.
OneMore(failed) == IF failed < MaxFailedPings THEN failed + 1 ELSE failed

updatePeerStatus(k, a, active, failedPing) ==
  IF a \in DOMAIN k
  THEN With(k, a, Entry(active, IF failedPing THEN OneMore(k[a].failed) ELSE 0))
  ELSE IF a \in Ephemeral THEN k
  ELSE With(k, a, Entry(active, IF failedPing THEN 1 ELSE 0))

\* state: "open", "cut" (the other end has gone) or "closed" (by this node);
\* pc: where its handler is; initial and name: initialRemoteAddr and
\* peerAddr, which is initialRemoteAddr until a peer list changes it.
Connection(pc, initial, remote) ==
  [state |-> "open", pc |-> pc, initial |-> initial, remote |-> remote,
   name |-> initial, list |-> {}]

\* The handler has returned.
Dead == [state |-> "closed", pc |-> "done", initial |-> None, remote |-> None,
         name |-> None, list |-> {}]

Closed(cs, S) == [c \in Conn |-> IF c \in S THEN [cs[c] EXCEPT !.state = "closed"] ELSE cs[c]]

\* The connection filed under a, if there is one.
At(a) == {peers[x] : x \in DOMAIN peers \cap {a}}

Idle == [pc |-> "idle", todo |-> {}, addr |-> None]

\* A connection nothing refers to any more stands for the next new one.
Free(c) ==
  /\ conn[c] = Dead /\ c \notin Range(peers)
  /\ \A d \in dials : d.conn # c
  /\ \A x \in cast.todo : x[2] # c

Call(id, a) == [id |-> id, addr |-> a, pc |-> "check", conn |-> None]

\* go ConnectToPeer(a) for each a in S, as calls with numbers not in use.
Starts(S) ==
  \E id \in Injection(S, 1..MaxDials \ {d.id : d \in dials}) :
    dials' = dials \cup {Call(id[a], a) : a \in S}

\* Nothing refreshes the node's own entry, which is late by the first probe.
OwnEntry == [Entry(TRUE, 0) EXCEPT !.late = TRUE]

\* What main does: the peers of the file are known and inactive (the LastSeen
\* they come with may be old: that is Age), Start's goroutines run, and one of
\* them (bootstrapDiscovery) and main itself dial the bootstrap peer.
Init ==
  /\ peers = [a \in {} |-> None]
  /\ known = With([a \in Saved |-> Entry(FALSE, 0)], Self, OwnEntry)
  /\ conn = [c \in Conn |-> Dead]
  /\ dials = {Call(i, a) : i \in {1, 2}, a \in Bootstrap}
  /\ probe = Idle
  /\ cast = Idle
  /\ discovered = {}
  /\ up = Listening
  /\ faults = 0

\* disconnectPeer, in a step that makes cs of the connections otherwise.
disconnectPeer(a, cs) ==
  /\ conn' = Closed(cs, At(a))
  /\ peers' = Without(peers, {a})
  /\ known' = IF a \in DOMAIN known THEN [known EXCEPT ![a] = Inactive(@)] ELSE known

\* Writing to c: sure to work, sure to fail, or one or the other.  With a
\* NetworkKey json.Marshal refuses the message before it gets to c.
MaySend(c) == ~ Keyed /\ conn[c].state \in {"open", "cut"}
MayFail(c) == Keyed \/ conn[c].state \in {"cut", "closed"}

----------------------------------------------------------------------------
(* ConnectToPeer.                                                          *)

\* The read lock is released before the dial.
Check(d) ==
  /\ d.pc = "check"
  /\ dials' = IF d.addr = Self \/ Active(d.addr) THEN dials \ {d}
              ELSE (dials \ {d}) \cup {[d EXCEPT !.pc = "dial"]}
  /\ UNCHANGED <<peers, known, conn, probe, cast, discovered, up, faults>>

\* DialPeer gives up; a node that is there may answer too late.
DialFails(d) ==
  /\ d.pc = "dial"
  /\ known' = updatePeerStatus(known, d.addr, FALSE, TRUE)
  /\ dials' = dials \ {d}
  /\ UNCHANGED <<peers, conn, probe, cast, discovered, up, faults>>

\* The new connection is filed whatever the table holds by now.
Dialled(d) ==
  /\ d.pc = "dial" /\ d.addr \in up
  /\ \E c \in Conn :
       /\ Free(c)
       /\ conn' = [conn EXCEPT ![c] = Connection("starting", d.addr, d.addr)]
       /\ peers' = With(peers, d.addr, c)
       /\ dials' = (dials \ {d}) \cup {[d EXCEPT !.pc = "request", !.conn = c]}
  /\ known' = With(known, d.addr, Entry(TRUE, 0))
  /\ UNCHANGED <<probe, cast, discovered, up, faults>>

\* requestChain writes to whatever is filed under the address, and
\* disconnects it when that fails; then the handler starts.
RequestChain(d) ==
  /\ d.pc = "request"
  /\ dials' = dials \ {d}
  /\ LET started == [conn EXCEPT ![d.conn].pc = "read"]
     IN \/ /\ \A c \in At(d.addr) : MaySend(c)
           /\ conn' = started
           /\ UNCHANGED <<peers, known>>
        \/ /\ \E c \in At(d.addr) : MayFail(c)
           /\ disconnectPeer(d.addr, started)
  /\ UNCHANGED <<probe, cast, discovered, up, faults>>

Dial == \E d \in dials : Check(d) \/ DialFails(d) \/ Dialled(d) \/ RequestChain(d)

----------------------------------------------------------------------------
(* discovery.go.                                                           *)

\* handleDiscoveredNode: an announcement of r comes in.  The node hears its
\* own, too, and knows it by its address, or by its port on an own interface.
Discover(r) ==
  /\ r \in Announced /\ r \in up \cup {Self}
  /\ r # Self /\ r \notin discovered
  /\ discovered' = discovered \cup {r}
  /\ Starts({r})
  /\ UNCHANGED <<peers, known, conn, probe, cast, up, faults>>

----------------------------------------------------------------------------
(* POST /api/peers.                                                        *)

\* The handler calls ConnectToPeer with whatever address it is given.
AddPeer(a) ==
  /\ faults < MaxFaults
  /\ Starts({a})
  /\ faults' = faults + 1
  /\ UNCHANGED <<peers, known, conn, probe, cast, discovered, up>>

----------------------------------------------------------------------------
(* acceptConnections and handleConnection.                                 *)

\* Node r dials from the address e.
Accept(e, r) ==
  /\ r \in up /\ \A c \in Conn : conn[c].initial # e
  /\ \E c \in Conn :
       /\ Free(c)
       /\ conn' = [conn EXCEPT ![c] = Connection("read", e, r)]
       /\ peers' = With(peers, e, c)
  /\ known' = With(known, e, Entry(TRUE, 0))
  /\ UNCHANGED <<dials, probe, cast, discovered, up, faults>>

\* Mutant of Identities: no exception for this node's address.
IdentitiesWithSelf(list) == list \ Ephemeral

\* What the loop over a received list takes the sender's address to be: the
\* first one that is not this node's and not ephemeral.
Identities(list) == list \ ({Self} \cup Ephemeral)

\* Files c under the address a and closes what was filed there.
Identify(c, a, cs) ==
  LET first == conn[c].initial
      rest == IF a # first THEN Without(peers, {first}) ELSE peers
      replaced == {rest[x] : x \in DOMAIN rest \cap {a}} \ {c}
  IN /\ peers' = With(rest, a, c)
     /\ known' = IF a # first THEN Without(known, {first}) ELSE known
     /\ conn' = Closed([cs EXCEPT ![c].name = a], replaced)

\* Decodes a message; list is empty when it is not a peer list.
Receive(c, list) ==
  /\ conn[c].pc = "read" /\ conn[c].state = "open"
  /\ LET heard == [conn EXCEPT ![c].pc = "status", ![c].list = list]
     IN \/ /\ Identities(list) = {}
           /\ conn' = heard
           /\ UNCHANGED <<peers, known>>
        \/ \E a \in Identities(list) : Identify(c, a, heard)
  /\ UNCHANGED <<dials, probe, cast, discovered, up, faults>>

\* updatePeerStatus(peerAddr, true, false), in a lock region of its own.
Status(c) ==
  /\ conn[c].pc = "status"
  /\ known' = updatePeerStatus(known, conn[c].name, TRUE, FALSE)
  /\ conn' = [conn EXCEPT ![c].pc = IF conn[c].list = {} THEN "read" ELSE "list"]
  /\ UNCHANGED <<peers, dials, probe, cast, discovered, up, faults>>

\* handlePeerList: the addresses it has not heard of are added, in some
\* order, while there is room, and each is dialled.
handlePeerList(c) ==
  /\ conn[c].pc = "list"
  /\ LET new == Identities(conn[c].list) \ DOMAIN known
         room == MaxPeers - Cardinality(DOMAIN known)
     IN \E added \in SUBSET new :
          /\ Cardinality(added) = IF room < 0 THEN 0 ELSE IF Cardinality(new) < room THEN Cardinality(new) ELSE room
          /\ known' = [a \in DOMAIN known \cup added |->
                         IF a \in added THEN Entry(FALSE, 0) ELSE known[a]]
          /\ Starts(added)
  /\ conn' = [conn EXCEPT ![c].pc = "read", ![c].list = {}]
  /\ UNCHANGED <<peers, probe, cast, discovered, up, faults>>

\* The decoder fails and the handler closes its connection; the table keeps
\* its entry.
Return(c) ==
  /\ conn[c].pc = "read" /\ conn[c].state # "open"
  /\ conn' = [conn EXCEPT ![c] = Dead]
  /\ UNCHANGED <<peers, known, dials, probe, cast, discovered, up, faults>>

\* ReadTimeout: the loop continues with a decoder that repeats its error for
\* ever, and never reads nor returns again.
ReadTimesOut(c) ==
  /\ faults < MaxFaults
  /\ conn[c].pc = "read" /\ conn[c].state = "open"
  /\ conn' = [conn EXCEPT ![c].pc = "deaf"]
  /\ faults' = faults + 1
  /\ UNCHANGED <<peers, known, dials, probe, cast, discovered, up>>

Handle(c) == Status(c) \/ handlePeerList(c) \/ Return(c)

----------------------------------------------------------------------------
(* probePeers.                                                             *)

ProbeTick ==
  /\ probe = Idle /\ (cast = Idle \/ MaxRounds = 2)
  /\ probe' = [Idle EXCEPT !.pc = "ping", !.todo = DOMAIN peers \ {Self}]
  /\ UNCHANGED <<peers, known, conn, dials, cast, discovered, up, faults>>

\* sendPing: the entry may be gone by now; a failed write counts a failure
\* and then disconnects.
Ping(a) ==
  /\ probe.pc = "ping" /\ a \in probe.todo
  /\ LET left == [probe EXCEPT !.todo = @ \ {a}]
     IN \/ /\ \E c \in At(a) : MaySend(c)
           /\ probe' = left
           /\ UNCHANGED known
        \/ /\ At(a) = {}
           /\ probe' = left
           /\ known' = updatePeerStatus(known, a, FALSE, TRUE)
        \/ /\ \E c \in At(a) : MayFail(c)
           /\ probe' = [left EXCEPT !.pc = "hangup", !.addr = a]
           /\ known' = updatePeerStatus(known, a, FALSE, TRUE)
  /\ UNCHANGED <<peers, conn, dials, cast, discovered, up, faults>>

HangUp ==
  /\ probe.pc = "hangup"
  /\ disconnectPeer(probe.addr, conn)
  /\ probe' = [probe EXCEPT !.pc = "ping", !.addr = None]
  /\ UNCHANGED <<dials, cast, discovered, up, faults>>

\* Mutant of Silent: no exception for the node's own entry.
SilentOrSelf == {a \in DOMAIN known : known[a].active /\ known[a].late}

Silent == {a \in DOMAIN known \ {Self} : known[a].active /\ known[a].late}

\* Mutant of Counted: the raised counter is not stored.
CountedInVain(entry) == entry

Counted(entry) == [entry EXCEPT !.failed = @ + 1]

\* The last failure that makes an address inactive is not stored.
TooMany(a) == known[a].failed + 1 >= MaxFailedPings

Scan ==
  /\ probe.pc = "ping" /\ probe.todo = {}
  /\ known' = [a \in DOMAIN known |->
       IF a \notin Silent THEN known[a]
       ELSE IF TooMany(a) THEN Inactive(known[a])
       ELSE Counted(known[a])]
  /\ probe' = [Idle EXCEPT !.pc = "drop", !.todo = {a \in Silent : TooMany(a)}]
  /\ UNCHANGED <<peers, conn, dials, cast, discovered, up, faults>>

Drop ==
  /\ probe.pc = "drop"
  /\ IF probe.todo = {}
     THEN probe' = Idle /\ UNCHANGED <<peers, known, conn>>
     ELSE \E a \in probe.todo :
            /\ disconnectPeer(a, conn)
            /\ probe' = [probe EXCEPT !.todo = @ \ {a}]
  /\ UNCHANGED <<dials, cast, discovered, up, faults>>

Probe == ProbeTick \/ (\E a \in probe.todo : Ping(a)) \/ HangUp \/ Scan \/ Drop

----------------------------------------------------------------------------
(* broadcastPeerList and broadcastMessage.                                 *)

\* The snapshot is of connections under their addresses.
CastTick ==
  /\ cast = Idle /\ (probe = Idle \/ MaxRounds = 2)
  /\ \E a \in DOMAIN known \ {Self} : known[a].active
  /\ cast' = [Idle EXCEPT !.pc = "send", !.todo = {<<a, peers[a]>> : a \in DOMAIN peers}]
  /\ UNCHANGED <<peers, known, conn, dials, probe, discovered, up, faults>>

\* A write to the connection of the snapshot fails: the address is
\* disconnected, whatever is filed under it by then.
Send(x) ==
  /\ cast.pc = "send" /\ x \in cast.todo
  /\ LET left == [cast EXCEPT !.todo = @ \ {x}]
     IN \/ MaySend(x[2]) /\ cast' = left /\ UNCHANGED known
        \/ /\ MayFail(x[2])
           /\ cast' = [left EXCEPT !.pc = "hangup", !.addr = x[1]]
           /\ known' = updatePeerStatus(known, x[1], FALSE, TRUE)
  /\ UNCHANGED <<peers, conn, dials, probe, discovered, up, faults>>

CastHangsUp ==
  /\ cast.pc = "hangup"
  /\ disconnectPeer(cast.addr, conn)
  /\ cast' = [cast EXCEPT !.pc = "send", !.addr = None]
  /\ UNCHANGED <<dials, probe, discovered, up, faults>>

CastEnds ==
  /\ cast.pc = "send" /\ cast.todo = {}
  /\ cast' = Idle
  /\ UNCHANGED <<peers, known, conn, dials, probe, discovered, up, faults>>

Cast == CastTick \/ (\E x \in cast.todo : Send(x)) \/ CastHangsUp \/ CastEnds

----------------------------------------------------------------------------
(* The loops over KnownPeers, and time.                                    *)

Prunable == {a \in DOMAIN known \ {Self} : ~ known[a].active /\ known[a].late}

pruneKnownPeers ==
  /\ Prunable # {}
  /\ known' = Without(known, Prunable)
  /\ UNCHANGED <<peers, conn, dials, probe, cast, discovered, up, faults>>

\* Mutant of Hopeful: however often it has failed.
HopefulForever == {a \in DOMAIN known \ {Self} : ~ known[a].active}

Hopeful == {a \in DOMAIN known \ {Self} : ~ known[a].active /\ known[a].failed < MaxFailedPings}

\* A goroutine dials each of them, or those for which MaxDials has room.
reconnectToKnownPeers ==
  /\ \E S \in SUBSET Hopeful : S # {} /\ Starts(S)
  /\ UNCHANGED <<peers, known, conn, probe, cast, discovered, up, faults>>

\* Time passes without a word from a.
Age(a) ==
  /\ a \in DOMAIN known /\ ~ known[a].late
  /\ known' = [known EXCEPT ![a].late = TRUE]
  /\ UNCHANGED <<peers, conn, dials, probe, cast, discovered, up, faults>>

----------------------------------------------------------------------------
(* The rest of the network.                                                *)

\* The other end closes, or the connection breaks.
Cut(c) ==
  /\ faults < MaxFaults
  /\ conn[c].state = "open"
  /\ conn' = [conn EXCEPT ![c].state = "cut"]
  /\ faults' = faults + 1
  /\ UNCHANGED <<peers, known, dials, probe, cast, discovered, up>>

\* Node r stops or drops off the network, and its connections with it.
Leave(r) ==
  /\ faults < MaxFaults
  /\ r \in up
  /\ up' = up \ {r}
  /\ conn' = [c \in Conn |-> IF conn[c].remote = r /\ conn[c].state = "open"
                            THEN [conn[c] EXCEPT !.state = "cut"] ELSE conn[c]]
  /\ faults' = faults + 1
  /\ UNCHANGED <<peers, known, dials, probe, cast, discovered>>

Join(r) ==
  /\ r \in Listening \ up
  /\ up' = up \cup {r}
  /\ UNCHANGED <<peers, known, conn, dials, probe, cast, discovered, faults>>

Environment ==
  \/ \E a \in {Self} \cup Listening : AddPeer(a)
  \/ \E c \in Conn : Cut(c) \/ ReadTimesOut(c)
  \/ \E c \in Conn : \E list \in SUBSET (Address \ {conn[c].remote}) :
       Cardinality(list) <= MaxList /\ Receive(c, list)
  \/ \E r \in Listening : Leave(r) \/ Join(r) \/ (\E e \in Inbound : Accept(e, r))

Next ==
  \/ Dial \/ Probe \/ Cast \/ pruneKnownPeers
  \/ \E c \in Conn : Handle(c)
  \/ reconnectToKnownPeers \/ \E r \in Announced : Discover(r)
  \/ \E a \in Others : Age(a)
  \/ Environment

Spec == Init /\ [][Next]_vars

\* The goroutines run, tickers fire, time passes; strongly for the ticker of
\* the probe, which only MaxRounds makes wait for the broadcast.  Whether
\* anybody is dialled, how long that takes and what other nodes do is open.
FairSpec ==
  /\ Spec
  /\ \A c \in Conn : WF_vars(Handle(c))
  /\ WF_vars(Probe) /\ WF_vars(Cast)
  /\ SF_vars(ProbeTick)
  /\ WF_vars(pruneKnownPeers)
  /\ \A a \in Others : WF_vars(Age(a))

\* The node's own loops as well: its dials end, its searches hear who is
\* there, and it tries the peers it remembers again.
EagerSpec ==
  /\ FairSpec
  /\ WF_vars(Dial) /\ WF_vars(reconnectToKnownPeers)
  /\ \A r \in Announced : WF_vars(Discover(r))

----------------------------------------------------------------------------
PeerEntry == [active : BOOLEAN, failed : 0..MaxFailedPings, late : BOOLEAN]

ConnState ==
  {Dead} \cup
  [state : {"open", "cut", "closed"}, pc : {"starting", "read", "status", "list", "deaf"},
   initial : Others, remote : Listening, name : Others, list : SUBSET Address]

DialState ==
  [id : 1..MaxDials, addr : Address,
   pc : {"check", "dial", "request"}, conn : Conn \cup {None}]

\* Type invariant.
TypeOK ==
  /\ DOMAIN peers \subseteq Others /\ peers \in [DOMAIN peers -> Conn]
  /\ DOMAIN known \subseteq Address /\ known \in [DOMAIN known -> PeerEntry]
  /\ conn \in [Conn -> ConnState]
  /\ dials \subseteq DialState
  /\ probe \in [pc : {"idle", "ping", "hangup", "drop"}, todo : SUBSET Address,
                addr : Others \cup {None}]
  /\ cast \in [pc : {"idle", "send", "hangup"}, todo : SUBSET (Others \X Conn),
               addr : Others \cup {None}]
  /\ discovered \subseteq Announced
  /\ up \subseteq Listening
  /\ faults \in 0..MaxFaults

\* The node's own address goes round in everybody's peer lists, in its own
\* announcements and by hand, and its entry is never refreshed, yet it is not
\* dialled, filed, probed away or pruned.
SelfIsNoPeer ==
  /\ Self \notin DOMAIN peers
  /\ Self \in DOMAIN known /\ known[Self].active
  /\ \A d \in dials : d.addr = Self => d.pc = "check"

\* The probe is of others.
ProbeSparesSelf == Self \notin probe.todo

\* A dial that has filed its connection has it for itself until its handler
\* starts to read.
RequestsHoldTheirs ==
  \A d \in dials : d.pc = "request" =>
    /\ d.conn \in Conn /\ conn[d.conn].pc = "starting"
    /\ \A e \in dials : e.pc = "request" /\ e.conn = d.conn => e = d

\* The inductive invariant behind TypeOK and SelfIsNoPeer.
IInv == TypeOK /\ SelfIsNoPeer /\ ProbeSparesSelf /\ RequestsHoldTheirs

\* Some running handler takes what it receives for a's.
Heard(a) ==
  \E c \in Conn :
    /\ conn[c].state = "open" /\ conn[c].pc \in {"starting", "read", "status", "list"}
    /\ conn[c].name = a

\* An address nobody is heard from is not kept for ever: connections end
\* without a word to the table, and it takes failed writes, the probe's
\* failures and the pruning, however interleaved with handlers, broadcasts
\* and dials that count as having seen it, to notice and forget.
SilentIsForgotten ==
  \A a \in Others :
    (a \in DOMAIN known /\ ~ Heard(a)) ~> (a \notin DOMAIN known \/ Heard(a))

\* An address does not stay inactive, not even when the failure of a stale
\* dial has made it so while a connection filed under it is read from, and
\* every failed dial counts as having seen it.
InactiveIsResolved ==
  \A a \in Others :
    (a \in DOMAIN known /\ ~ Active(a)) ~> (a \notin DOMAIN known \/ Active(a))

\* Discovery has dialled r once, and nothing of the node refers to r any more:
\* no entry, call, round, name of a connection or list in hand.
Forgotten(r) ==
  /\ r \in discovered
  /\ r \notin DOMAIN known \cup DOMAIN peers \cup probe.todo
  /\ r \notin {probe.addr, cast.addr}
  /\ \A x \in cast.todo : x[1] # r
  /\ \A d \in dials : d.addr # r
  /\ \A c \in Conn : r \notin {conn[c].initial, conn[c].name} \cup conn[c].list

\* Someone tells the node of r: the API, or another node with a peer list.
Told(r) ==
  AddPeer(r) \/ \E c \in Conn : \E list \in SUBSET Address : r \in list /\ Receive(c, list)

\* None of the node's own loops comes back to an address it has forgotten,
\* though it is announced for ever: the discoveredMap, which nothing prunes,
\* outlives the entry that the pruning takes out of KnownPeers.
OnlyTheToldRemember ==
  [][\A r \in Listening : Forgotten(r) => Forgotten(r)' \/ Told(r)]_vars

----------------------------------------------------------------------------
(* What the comments and the README say, and runs refute.                  *)

\* Broadcasts go to all peers: every open connection that is read from is
\* filed in the table.
EveryConnectionIsAPeer ==
  \A c \in Conn : conn[c].state = "open" /\ conn[c].pc = "read" => c \in Range(peers)

============================================================================
