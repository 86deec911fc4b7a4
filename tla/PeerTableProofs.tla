-------------------------- MODULE PeerTableProofs --------------------------
(***************************************************************************)
(* For any addresses, connections, dials and faults: the table is type     *)
(* correct, the node does not become its own peer, and an address it has   *)
(* forgotten stays unknown until somebody names it.                        *)
(***************************************************************************)
EXTENDS PeerTable, TLAPS

PeersOK(p) == DOMAIN p \subseteq Others /\ p \in [DOMAIN p -> Conn]

KnownOK(k) ==
  /\ DOMAIN k \subseteq Address /\ k \in [DOMAIN k -> PeerEntry]
  /\ Self \in DOMAIN k /\ k[Self].active

ConnOK(cs) == cs \in [Conn -> ConnState]

DialsOK(ds) ==
  /\ ds \subseteq DialState
  /\ \A d \in ds : d.addr = Self => d.pc = "check"

ProbeOK(p) ==
  p \in [pc : {"idle", "ping", "hangup", "drop"}, todo : SUBSET Others, addr : Others \cup {None}]

CastOK(b) ==
  b \in [pc : {"idle", "send", "hangup"}, todo : SUBSET (Others \X Conn), addr : Others \cup {None}]

OthersOK == discovered \subseteq Announced /\ up \subseteq Listening /\ faults \in 0..MaxFaults

\* The inductive invariant, one part for each variable.
Typed ==
  /\ PeersOK(peers) /\ KnownOK(known) /\ ConnOK(conn) /\ DialsOK(dials)
  /\ ProbeOK(probe) /\ CastOK(cast) /\ OthersOK /\ RequestsHoldTheirs

\* The parts are the invariant.
LEMMA TypedIsIInv == Typed <=> IInv
<1>1. Self \notin Others /\ Others \subseteq Address
  BY AddressAssumption DEF Others, Address
<1>2. ASSUME TypeOK, ProbeSparesSelf PROVE ProbeOK(probe)
  BY <1>2 DEF TypeOK, ProbeSparesSelf, ProbeOK, Address, Others
<1>3. ASSUME ProbeOK(probe)
      PROVE  /\ ProbeSparesSelf
             /\ probe \in [pc : {"idle", "ping", "hangup", "drop"}, todo : SUBSET Address,
                           addr : Others \cup {None}]
  BY <1>1, <1>3 DEF ProbeSparesSelf, ProbeOK
<1> QED
  BY <1>1, <1>2, <1>3 DEF Typed, IInv, TypeOK, SelfIsNoPeer, PeersOK, KnownOK, ConnOK, DialsOK, CastOK, OthersOK

----------------------------------------------------------------------------
(* The helpers.                                                            *)

\* What a fresh entry is.
LEMMA EntryTyped ==
  ASSUME NEW active \in BOOLEAN, NEW failed \in 0..MaxFailedPings
  PROVE  Entry(active, failed) \in PeerEntry
BY DEF Entry, PeerEntry

\* An entry without failures.
LEMMA FreshTyped == \A active \in BOOLEAN : Entry(active, 0) \in PeerEntry
<1>1. 0 \in 0..MaxFailedPings
  BY LimitsAssumption
<1> QED
  BY <1>1, EntryTyped

\* A new or changed entry for another address.
LEMMA WithKnown ==
  ASSUME NEW k, KnownOK(k), NEW a \in Others, NEW v \in PeerEntry
  PROVE  KnownOK(With(k, a, v))
<1>1. a # Self /\ a \in Address
  BY AddressAssumption DEF Others, Address
<1> QED
  BY <1>1 DEF KnownOK, With

\* A connection filed under another address.
LEMMA WithPeers ==
  ASSUME NEW p, PeersOK(p), NEW a \in Others, NEW c \in Conn
  PROVE  PeersOK(With(p, a, c))
BY DEF PeersOK, With

\* Entries of Peers go away.
LEMMA WithoutPeers == ASSUME NEW p, PeersOK(p), NEW S PROVE PeersOK(Without(p, S))
BY DEF PeersOK, Without, Restrict

\* Entries of KnownPeers go away, but for the node's own.
LEMMA WithoutKnown == ASSUME NEW k, KnownOK(k), NEW S, Self \notin S PROVE KnownOK(Without(k, S))
BY DEF KnownOK, Without, Restrict

\* updatePeerStatus of another address; its counter stays within its bound.
LEMMA StatusTyped ==
  ASSUME NEW k, KnownOK(k), NEW a \in Others, NEW active \in BOOLEAN, NEW failedPing \in BOOLEAN
  PROVE  KnownOK(updatePeerStatus(k, a, active, failedPing))
<1>1. 0 \in 0..MaxFailedPings /\ 1 \in 0..MaxFailedPings
  BY LimitsAssumption
<1>2. ASSUME a \in DOMAIN k PROVE OneMore(k[a].failed) \in 0..MaxFailedPings
  BY <1>2, LimitsAssumption DEF KnownOK, PeerEntry, OneMore
<1>3. ASSUME NEW failed \in 0..MaxFailedPings PROVE KnownOK(With(k, a, Entry(active, failed)))
  BY EntryTyped, WithKnown
<1> QED
  BY <1>1, <1>2, <1>3 DEF updatePeerStatus

\* A connection is closed, or was.
LEMMA ClosedConn ==
  ASSUME NEW r \in ConnState
  PROVE  [r EXCEPT !.state = "closed"] \in ConnState /\ [r EXCEPT !.state = "closed"].pc = r.pc
<1>1. CASE r = Dead
  BY <1>1 DEF Dead, ConnState
<1>2. CASE r # Dead
  BY <1>2 DEF ConnState
<1> QED
  BY <1>1, <1>2

\* Connections are closed; handlers stay where they are.
LEMMA ClosedTyped ==
  ASSUME NEW cs, ConnOK(cs), NEW S
  PROVE  ConnOK(Closed(cs, S)) /\ \A c \in Conn : Closed(cs, S)[c].pc = cs[c].pc
BY ClosedConn DEF ConnOK, Closed

\* An entry becomes inactive.
LEMMA InactiveTyped == ASSUME NEW entry \in PeerEntry PROVE Inactive(entry) \in PeerEntry
BY DEF Inactive, PeerEntry

\* disconnectPeer of another address, or of none.
LEMMA Disconnects ==
  ASSUME PeersOK(peers), KnownOK(known), NEW a \in Others \cup {None}, NEW cs, ConnOK(cs),
         disconnectPeer(a, cs)
  PROVE  /\ PeersOK(peers') /\ KnownOK(known') /\ ConnOK(conn')
         /\ \A c \in Conn : conn'[c].pc = cs[c].pc
<1>1. PeersOK(peers') /\ ConnOK(conn') /\ \A c \in Conn : conn'[c].pc = cs[c].pc
  BY ClosedTyped, WithoutPeers DEF disconnectPeer
<1>2. CASE a \in DOMAIN known
  <2>1. a # Self
    BY AddressAssumption DEF Others, Address
  <2>2. known' = [known EXCEPT ![a] = Inactive(known[a])] /\ Inactive(known[a]) \in PeerEntry
    BY <1>2, InactiveTyped DEF disconnectPeer, KnownOK
  <2> QED
    BY <1>1, <1>2, <2>1, <2>2 DEF KnownOK
<1>3. CASE a \notin DOMAIN known
  BY <1>1, <1>3 DEF disconnectPeer
<1> QED
  BY <1>2, <1>3

\* New calls.
LEMMA StartsTyped ==
  ASSUME DialsOK(dials), NEW S \in SUBSET Address, Starts(S)
  PROVE  /\ DialsOK(dials')
         /\ \A d \in dials' : d.pc = "request" => d \in dials
<1>1. PICK id \in Injection(S, 1..MaxDials \ {d.id : d \in dials}) :
        dials' = dials \cup {Call(id[a], a) : a \in S}
  BY DEF Starts
<1>2. id \in [S -> 1..MaxDials \ {d.id : d \in dials}]
  BY <1>1 DEF Injection
<1>3. \A a \in S : Call(id[a], a) \in DialState /\ Call(id[a], a).pc = "check"
  BY <1>2 DEF Call, DialState
<1> QED
  BY <1>1, <1>3 DEF DialsOK

\* Handlers that are not starting are nobody's but their own.
LEMMA Held ==
  ASSUME RequestsHoldTheirs,
         \A d \in dials' : d.pc = "request" => d \in dials,
         \A c \in Conn : conn[c].pc = "starting" => conn'[c].pc = "starting"
  PROVE  RequestsHoldTheirs'
BY DEF RequestsHoldTheirs

----------------------------------------------------------------------------
\* main's start.
LEMMA InitTyped == ASSUME Init PROVE Typed
<1>1. Self \notin Others /\ Bootstrap \subseteq Others /\ Saved \subseteq Others
  BY AddressAssumption DEF Others
<1>2. 0 \in 0..MaxFailedPings /\ 0 \in 0..MaxFaults
  BY LimitsAssumption
<1>3. PeersOK(peers)
  BY DEF Init, PeersOK
<1>4. KnownOK(known)
  <2>1. Entry(FALSE, 0) \in PeerEntry /\ Entry(TRUE, 0) \in PeerEntry /\ Entry(TRUE, 0).active
    BY <1>2, EntryTyped DEF Entry
  <2>2. OwnEntry \in PeerEntry /\ OwnEntry.active
    BY <2>1 DEF OwnEntry, PeerEntry
  <2> QED
    BY <1>1, <2>1, <2>2 DEF Init, KnownOK, With, Address
<1>5. ConnOK(conn)
  BY DEF Init, ConnOK, ConnState
<1>6. DialsOK(dials) /\ RequestsHoldTheirs
  <2>1. Bootstrap # {} => 1 \in 1..MaxDials /\ 2 \in 1..MaxDials
    BY LimitsAssumption
  <2>2. \A i \in {1, 2}, a \in Bootstrap : Call(i, a) \in DialState /\ Call(i, a).pc = "check"
    BY <1>1, <2>1 DEF Call, DialState, Address
  <2>3. dials = {Call(i, a) : i \in {1, 2}, a \in Bootstrap}
    BY DEF Init
  <2> QED
    BY <2>2, <2>3 DEF DialsOK, RequestsHoldTheirs
<1>7. ProbeOK(probe) /\ CastOK(cast) /\ OthersOK
  BY <1>2 DEF Init, ProbeOK, CastOK, OthersOK, Idle
<1> QED
  BY <1>3, <1>4, <1>5, <1>6, <1>7 DEF Typed

----------------------------------------------------------------------------
(* ConnectToPeer, discovery and the API.                                   *)

\* Past its check a call is for another address.
LEMMA CheckKeeps == ASSUME Typed, NEW d \in dials, Check(d) PROVE Typed'
<1>1. DialsOK(dials') /\ \A e \in dials' : e.pc = "request" => e \in dials
  <2>1. CASE d.addr = Self \/ Active(d.addr)
    BY <2>1 DEF Check, DialsOK, Typed
  <2>2. CASE ~ (d.addr = Self \/ Active(d.addr))
    <3>1. [d EXCEPT !.pc = "dial"] \in DialState /\ [d EXCEPT !.pc = "dial"].addr # Self
          /\ [d EXCEPT !.pc = "dial"].pc = "dial"
      BY <2>2 DEF DialsOK, DialState, Typed
    <3>2. dials' = (dials \ {d}) \cup {[d EXCEPT !.pc = "dial"]}
      BY <2>2 DEF Check
    <3> QED
      BY <3>1, <3>2 DEF DialsOK, Typed
  <2> QED
    BY <2>1, <2>2
<1>2. RequestsHoldTheirs'
  BY <1>1, Held DEF Check, Typed
<1> QED
  BY <1>1, <1>2 DEF Check, Typed, OthersOK

\* The dial fails.
LEMMA DialFailsKeeps == ASSUME Typed, NEW d \in dials, DialFails(d) PROVE Typed'
<1>1. d.addr \in Others
  BY DEF Typed, DialsOK, DialFails, DialState, Address, Others
<1>2. KnownOK(known')
  BY <1>1, StatusTyped DEF DialFails, Typed
<1>3. DialsOK(dials') /\ \A e \in dials' : e \in dials
  BY DEF DialFails, Typed, DialsOK
<1>4. RequestsHoldTheirs'
  BY <1>3, Held DEF DialFails, Typed
<1> QED
  BY <1>2, <1>3, <1>4 DEF DialFails, Typed, OthersOK

\* The new connection was referred to by nobody, so that its call has it for itself.
LEMMA DialledKeeps == ASSUME Typed, NEW d \in dials, Dialled(d) PROVE Typed'
<1>1. PICK c \in Conn :
        /\ Free(c)
        /\ conn' = [conn EXCEPT ![c] = Connection("starting", d.addr, d.addr)]
        /\ peers' = With(peers, d.addr, c)
        /\ dials' = (dials \ {d}) \cup {[d EXCEPT !.pc = "request", !.conn = c]}
  BY DEF Dialled
<1>2. d \in DialState /\ d.addr \in Listening /\ d.addr \in Others /\ d.addr # Self
  BY AddressAssumption DEF Dialled, Typed, DialsOK, OthersOK, Others
<1>3. PeersOK(peers') /\ KnownOK(known')
  <2>1. Entry(TRUE, 0) \in PeerEntry
    BY FreshTyped
  <2>2. KnownOK(With(known, d.addr, Entry(TRUE, 0)))
    BY <1>2, <2>1, WithKnown DEF Typed
  <2>3. PeersOK(With(peers, d.addr, c))
    BY <1>2, WithPeers DEF Typed
  <2> QED
    BY <1>1, <2>2, <2>3 DEF Dialled
<1>4. ConnOK(conn')
  <2>1. Connection("starting", d.addr, d.addr) \in ConnState
    BY <1>2 DEF Connection, ConnState
  <2> QED
    BY <1>1, <2>1 DEF ConnOK, Typed
<1> DEFINE e == [d EXCEPT !.pc = "request", !.conn = c]
<1>5. e \in DialState /\ e.addr # Self /\ e.pc = "request" /\ e.conn = c
  BY <1>2 DEF DialState
<1>6. DialsOK(dials')
  BY <1>1, <1>5 DEF DialsOK, Typed
<1>7. RequestsHoldTheirs'
  <2>1. \A x \in dials : x.conn # c
    BY <1>1 DEF Free
  <2>2. conn'[c].pc = "starting" /\ \A b \in Conn : b # c => conn'[b] = conn[b]
    BY <1>1 DEF Connection, ConnOK, Typed
  <2>3. \A x \in dials' : x = e \/ x \in dials
    BY <1>1
  <2> HIDE DEF e
  <2> QED
    BY <1>5, <2>1, <2>2, <2>3 DEF RequestsHoldTheirs, Typed
<1> QED
  BY <1>3, <1>4, <1>6, <1>7 DEF Dialled, Typed, OthersOK

\* The handler of the call's own connection starts.
LEMMA RequestChainKeeps == ASSUME Typed, NEW d \in dials, RequestChain(d) PROVE Typed'
<1> DEFINE started == [conn EXCEPT ![d.conn].pc = "read"]
<1>1. d.pc = "request" /\ d.conn \in Conn /\ conn[d.conn].pc = "starting" /\ d.addr \in Others
  BY DEF RequestChain, Typed, RequestsHoldTheirs, DialsOK, DialState, Address, Others
<1>2. ConnOK(started) /\ \A c \in Conn : c # d.conn => started[c] = conn[c]
  <2>1. conn[d.conn] \in ConnState \ {Dead}
    BY <1>1 DEF Typed, ConnOK, Dead
  <2>2. [conn[d.conn] EXCEPT !.pc = "read"] \in ConnState
    BY <2>1 DEF ConnState
  <2> QED
    BY <1>1, <2>2 DEF Typed, ConnOK
<1>3. PeersOK(peers') /\ KnownOK(known') /\ ConnOK(conn') /\ \A c \in Conn : conn'[c].pc = started[c].pc
  <2>1. CASE conn' = started /\ UNCHANGED <<peers, known>>
    BY <1>2, <2>1 DEF Typed
  <2>2. CASE disconnectPeer(d.addr, started)
    <3> HIDE DEF started
    <3> QED
      BY <1>1, <1>2, <2>2, Disconnects DEF Typed
  <2> QED
    BY <2>1, <2>2 DEF RequestChain
<1>4. DialsOK(dials')
  BY DEF RequestChain, Typed, DialsOK
<1>5. RequestsHoldTheirs'
  <2>1. \A x \in dials' : x \in dials /\ x # d
    BY DEF RequestChain
  <2>2. \A x \in dials' : x.pc = "request" => x.conn # d.conn
    BY <1>1, <2>1 DEF Typed, RequestsHoldTheirs
  <2> HIDE DEF started
  <2> QED
    BY <1>2, <1>3, <2>1, <2>2 DEF Typed, RequestsHoldTheirs
<1> QED
  BY <1>3, <1>4, <1>5 DEF RequestChain, Typed, OthersOK

\* Steps that start calls.
LEMMA StartingKeeps ==
  ASSUME Typed, NEW S \in SUBSET Address, Starts(S),
         PeersOK(peers'), KnownOK(known'), ConnOK(conn'),
         \A c \in Conn : conn[c].pc = "starting" => conn'[c].pc = "starting",
         UNCHANGED <<probe, cast>>, OthersOK'
  PROVE  Typed'
<1>1. DialsOK(dials') /\ \A d \in dials' : d.pc = "request" => d \in dials
  BY StartsTyped DEF Typed
<1>2. RequestsHoldTheirs'
  BY <1>1, Held DEF Typed
<1> QED
  BY <1>1, <1>2 DEF Typed

\* An announcement.
LEMMA DiscoverKeeps == ASSUME Typed, NEW r \in Announced, Discover(r) PROVE Typed'
<1>1. {r} \in SUBSET Address
  BY AddressAssumption DEF Address, Others
<1>2. OthersOK'
  BY DEF Discover, Typed, OthersOK
<1> QED
  BY <1>1, <1>2, StartingKeeps DEF Discover, Typed

\* An address by hand, the node's own included.
LEMMA AddPeerKeeps == ASSUME Typed, NEW a \in {Self} \cup Listening, AddPeer(a) PROVE Typed'
<1>1. {a} \in SUBSET Address
  BY DEF Address, Others
<1>2. OthersOK'
  BY LimitsAssumption DEF AddPeer, Typed, OthersOK
<1> QED
  BY <1>1, <1>2, StartingKeeps DEF AddPeer, Typed

\* Inactive addresses are dialled again.
LEMMA ReconnectKeeps == ASSUME Typed, reconnectToKnownPeers PROVE Typed'
<1>1. Hopeful \subseteq Address
  BY DEF Hopeful, Typed, KnownOK
<1> QED
  BY <1>1, StartingKeeps DEF reconnectToKnownPeers, Typed, OthersOK

----------------------------------------------------------------------------
(* acceptConnections and handleConnection.                                 *)

\* A connection from elsewhere.
LEMMA AcceptKeeps ==
  ASSUME Typed, NEW e \in Inbound, NEW r \in Listening, Accept(e, r) PROVE Typed'
<1>1. PICK c \in Conn :
        /\ Free(c)
        /\ conn' = [conn EXCEPT ![c] = Connection("read", e, r)]
        /\ peers' = With(peers, e, c)
  BY DEF Accept
<1>2. e \in Others
  BY DEF Others
<1>3. PeersOK(peers') /\ KnownOK(known')
  <2>1. Entry(TRUE, 0) \in PeerEntry
    BY FreshTyped
  <2>2. KnownOK(With(known, e, Entry(TRUE, 0)))
    BY <1>2, <2>1, WithKnown DEF Typed
  <2>3. PeersOK(With(peers, e, c))
    BY <1>2, WithPeers DEF Typed
  <2> QED
    BY <1>1, <2>2, <2>3 DEF Accept
<1>4. ConnOK(conn')
  <2>1. Connection("read", e, r) \in ConnState
    BY <1>2 DEF Connection, ConnState
  <2> QED
    BY <1>1, <2>1 DEF ConnOK, Typed
<1>5. RequestsHoldTheirs'
  <2>1. conn[c].pc = "done" /\ \A b \in Conn : b # c => conn'[b] = conn[b]
    BY <1>1 DEF Free, Dead, Typed, ConnOK
  <2> QED
    BY <2>1, Held DEF Accept, Typed
<1> QED
  BY <1>3, <1>4, <1>5 DEF Accept, Typed, OthersOK

\* A message; the address it is filed under is never this node's.
LEMMA ReceiveKeeps ==
  ASSUME Typed, NEW c \in Conn, NEW list \in SUBSET Address, Receive(c, list) PROVE Typed'
<1> DEFINE heard == [conn EXCEPT ![c].pc = "status", ![c].list = list]
<1>1. conn[c] \in ConnState \ {Dead} /\ conn[c].pc = "read"
  BY DEF Receive, Typed, ConnOK, Dead
<1>2. ConnOK(heard) /\ heard[c].pc = "status" /\ heard[c] # Dead
      /\ \A b \in Conn : b # c => heard[b] = conn[b]
  <2>1. [conn[c] EXCEPT !.pc = "status", !.list = list] \in ConnState
    BY <1>1 DEF ConnState
  <2>2. heard = [conn EXCEPT ![c] = [conn[c] EXCEPT !.pc = "status", !.list = list]]
    BY DEF Typed, ConnOK
  <2> QED
    BY <1>1, <2>1, <2>2 DEF Typed, ConnOK, ConnState, Dead
<1> HIDE DEF heard
<1>3. ASSUME NEW a \in Identities(list), Identify(c, a, heard)
      PROVE  PeersOK(peers') /\ KnownOK(known') /\ ConnOK(conn')
             /\ \A b \in Conn : conn'[b].pc = heard[b].pc
  <2> DEFINE first == conn[c].initial
             rest == IF a # first THEN Without(peers, {first}) ELSE peers
             replaced == {rest[x] : x \in DOMAIN rest \cap {a}} \ {c}
             named == [heard EXCEPT ![c].name = a]
  <2>1. a \in Others /\ a # Self
    BY DEF Identities, Address
  <2>2. first \in Others /\ first # Self
    BY <1>1, AddressAssumption DEF ConnState, Others
  <2>3. PeersOK(rest)
    BY WithoutPeers DEF Typed
  <2>4. PeersOK(peers')
    <3>1. peers' = With(rest, a, c)
      BY <1>3 DEF Identify
    <3> HIDE DEF rest
    <3> QED
      BY <2>1, <2>3, <3>1, WithPeers
  <2>5. KnownOK(known')
    BY <1>3, <2>2, WithoutKnown DEF Identify, Typed
  <2>6. ConnOK(named) /\ \A b \in Conn : named[b].pc = heard[b].pc
    <3>1. [heard[c] EXCEPT !.name = a] \in ConnState /\ [heard[c] EXCEPT !.name = a].pc = heard[c].pc
      BY <1>2, <2>1 DEF ConnOK, ConnState
    <3> QED
      BY <1>2, <3>1 DEF ConnOK
  <2>7. conn' = Closed(named, replaced)
    BY <1>3 DEF Identify
  <2> HIDE DEF named, replaced
  <2> QED
    BY <2>4, <2>5, <2>6, <2>7, ClosedTyped
<1>4. PeersOK(peers') /\ KnownOK(known') /\ ConnOK(conn') /\ \A b \in Conn : conn'[b].pc = heard[b].pc
  <2>1. CASE conn' = heard /\ UNCHANGED <<peers, known>>
    BY <1>2, <2>1 DEF Typed
  <2>2. CASE \E a \in Identities(list) : Identify(c, a, heard)
    BY <1>3, <2>2
  <2> QED
    BY <2>1, <2>2 DEF Receive, heard
<1>5. RequestsHoldTheirs'
  <2>1. \A b \in Conn : conn[b].pc = "starting" => conn'[b].pc = "starting"
    BY <1>1, <1>2, <1>4
  <2> QED
    BY <2>1, Held DEF Receive, Typed
<1> QED
  BY <1>4, <1>5 DEF Receive, Typed, OthersOK

\* A step of c's handler, after it has started, that changes nothing but its
\* program counter and its list.
LEMMA HandlerMoves ==
  ASSUME Typed, NEW c \in Conn, conn[c] # Dead, conn[c].pc # "starting",
         NEW pc \in {"read", "status", "list", "deaf"}, NEW list \in SUBSET Address,
         conn' = [conn EXCEPT ![c] = [conn[c] EXCEPT !.pc = pc, !.list = list]]
  PROVE  ConnOK(conn') /\ \A b \in Conn : conn[b].pc = "starting" => conn'[b].pc = "starting"
<1>1. [conn[c] EXCEPT !.pc = pc, !.list = list] \in ConnState
  BY DEF Typed, ConnOK, ConnState
<1> QED
  BY <1>1 DEF Typed, ConnOK

\* The sender has been seen.
LEMMA StatusKeeps == ASSUME Typed, NEW c \in Conn, Status(c) PROVE Typed'
<1>1. conn[c] \in ConnState \ {Dead} /\ conn[c].pc = "status"
  BY DEF Status, Typed, ConnOK, Dead
<1>2. conn[c].name \in Others /\ conn[c].list \in SUBSET Address
  BY <1>1 DEF ConnState
<1>3. KnownOK(known')
  BY <1>2, StatusTyped DEF Status, Typed
<1>4. ConnOK(conn') /\ \A b \in Conn : conn[b].pc = "starting" => conn'[b].pc = "starting"
  <2> DEFINE pc == IF conn[c].list = {} THEN "read" ELSE "list"
  <2>1. conn' = [conn EXCEPT ![c] = [conn[c] EXCEPT !.pc = pc, !.list = conn[c].list]]
    BY <1>1 DEF Status, Typed, ConnOK, ConnState
  <2>2. pc \in {"read", "status", "list", "deaf"}
    OBVIOUS
  <2> HIDE DEF pc
  <2> QED
    BY <1>1, <1>2, <2>1, <2>2, HandlerMoves
<1>5. RequestsHoldTheirs'
  BY <1>4, Held DEF Status, Typed
<1> QED
  BY <1>3, <1>4, <1>5 DEF Status, Typed, OthersOK

\* The addresses of a list; the own one is known and not new.
LEMMA PeerListKeeps == ASSUME Typed, NEW c \in Conn, handlePeerList(c) PROVE Typed'
<1>1. conn[c] \in ConnState \ {Dead} /\ conn[c].pc = "list"
  BY DEF handlePeerList, Typed, ConnOK, Dead
<1>2. PICK added \in SUBSET (Identities(conn[c].list) \ DOMAIN known) :
        /\ known' = [a \in DOMAIN known \cup added |->
                       IF a \in added THEN Entry(FALSE, 0) ELSE known[a]]
        /\ Starts(added)
  BY DEF handlePeerList
<1>3. added \in SUBSET Address /\ Self \notin added
  <2>1. conn[c].list \in SUBSET Address
    BY <1>1 DEF ConnState
  <2> QED
    BY <2>1 DEF Identities
<1>4. KnownOK(known')
  <2>1. Entry(FALSE, 0) \in PeerEntry
    BY FreshTyped
  <2> QED
    BY <1>2, <1>3, <2>1 DEF KnownOK, Typed
<1>5. ConnOK(conn') /\ \A b \in Conn : conn[b].pc = "starting" => conn'[b].pc = "starting"
  <2>1. conn' = [conn EXCEPT ![c] = [conn[c] EXCEPT !.pc = "read", !.list = {}]]
    BY <1>1 DEF handlePeerList, Typed, ConnOK
  <2>2. {} \in SUBSET Address /\ "read" \in {"read", "status", "list", "deaf"}
    OBVIOUS
  <2> QED
    BY <1>1, <2>1, <2>2, HandlerMoves
<1> QED
  BY <1>2, <1>3, <1>4, <1>5, StartingKeeps DEF handlePeerList, Typed, OthersOK

\* A handler returns.
LEMMA ReturnKeeps == ASSUME Typed, NEW c \in Conn, Return(c) PROVE Typed'
<1>1. ConnOK(conn') /\ \A b \in Conn : conn[b].pc = "starting" => conn'[b].pc = "starting"
  BY DEF Return, Typed, ConnOK, ConnState
<1>2. RequestsHoldTheirs'
  BY <1>1, Held DEF Return, Typed
<1> QED
  BY <1>1, <1>2 DEF Return, Typed, OthersOK

\* A handler becomes deaf.
LEMMA ReadTimesOutKeeps == ASSUME Typed, NEW c \in Conn, ReadTimesOut(c) PROVE Typed'
<1>1. conn[c] \in ConnState \ {Dead} /\ conn[c].pc = "read"
  BY DEF ReadTimesOut, Typed, ConnOK, Dead
<1>2. ConnOK(conn') /\ \A b \in Conn : conn[b].pc = "starting" => conn'[b].pc = "starting"
  <2>1. conn[c].list \in SUBSET Address
    BY <1>1 DEF ConnState
  <2>2. conn' = [conn EXCEPT ![c] = [conn[c] EXCEPT !.pc = "deaf", !.list = conn[c].list]]
    BY <1>1 DEF ReadTimesOut, Typed, ConnOK, ConnState
  <2> QED
    BY <1>1, <2>1, <2>2, HandlerMoves
<1>3. RequestsHoldTheirs'
  BY <1>2, Held DEF ReadTimesOut, Typed
<1>4. OthersOK'
  BY LimitsAssumption DEF ReadTimesOut, Typed, OthersOK
<1> QED
  BY <1>2, <1>3, <1>4 DEF ReadTimesOut, Typed

----------------------------------------------------------------------------
(* probePeers and broadcastPeerList.                                       *)

\* Steps of the two that leave connections and dials alone.
LEMMA RoundKeeps ==
  ASSUME Typed, KnownOK(known'), ProbeOK(probe'), CastOK(cast'),
         UNCHANGED <<peers, conn, dials, discovered, up, faults>>
  PROVE  Typed'
<1>1. RequestsHoldTheirs'
  BY Held DEF Typed
<1> QED
  BY <1>1 DEF Typed, OthersOK

\* Steps of the two that disconnect.
LEMMA HangingUpKeeps ==
  ASSUME Typed, NEW a \in Others \cup {None}, disconnectPeer(a, conn), ProbeOK(probe'), CastOK(cast'),
         UNCHANGED <<dials, discovered, up, faults>>
  PROVE  Typed'
<1>1. /\ PeersOK(peers') /\ KnownOK(known') /\ ConnOK(conn')
      /\ \A c \in Conn : conn'[c].pc = conn[c].pc
  BY Disconnects DEF Typed
<1>2. RequestsHoldTheirs'
  BY <1>1, Held DEF Typed
<1> QED
  BY <1>1, <1>2 DEF Typed, OthersOK

\* The probe.
LEMMA ProbeKeeps == ASSUME Typed, Probe PROVE Typed'
<1>1. CASE ProbeTick
  <2>1. DOMAIN peers \ {Self} \in SUBSET Others
    BY DEF Typed, PeersOK
  <2>2. ProbeOK(probe')
    BY <1>1, <2>1 DEF ProbeTick, ProbeOK, Idle
  <2> QED
    BY <1>1, <2>2, RoundKeeps DEF ProbeTick, Typed
<1>2. ASSUME NEW a \in probe.todo, Ping(a) PROVE Typed'
  <2> DEFINE left == [probe EXCEPT !.todo = probe.todo \ {a}]
  <2>1. a \in Others
    BY DEF Typed, ProbeOK
  <2>2. ProbeOK(left) /\ ProbeOK([left EXCEPT !.pc = "hangup", !.addr = a])
    BY <2>1 DEF Typed, ProbeOK
  <2>3. ProbeOK(probe')
    BY <1>2, <2>2 DEF Ping
  <2>4. KnownOK(known')
    <3>1. KnownOK(updatePeerStatus(known, a, FALSE, TRUE))
      BY <2>1, StatusTyped DEF Typed
    <3> QED
      BY <1>2, <3>1 DEF Ping, Typed
  <2> QED
    BY <1>2, <2>3, <2>4, RoundKeeps DEF Ping, Typed
<1>3. CASE HangUp
  <2>1. probe.addr \in Others \cup {None} /\ ProbeOK(probe')
    BY <1>3 DEF HangUp, Typed, ProbeOK
  <2> QED
    BY <1>3, <2>1, HangingUpKeeps DEF HangUp, Typed
<1>4. CASE Scan
  <2>1. Silent \subseteq Others
    BY DEF Silent, Typed, KnownOK, Address, Others
  <2>2. ProbeOK(probe')
    BY <1>4, <2>1 DEF Scan, ProbeOK, Idle
  <2>3. \A a \in DOMAIN known : ~ TooMany(a) => Counted(known[a]) \in PeerEntry
    BY LimitsAssumption DEF TooMany, Counted, Typed, KnownOK, PeerEntry
  <2>4. Self \notin Silent
    BY DEF Silent
  <2>5. \A a \in DOMAIN known : Inactive(known[a]) \in PeerEntry
    BY InactiveTyped DEF Typed, KnownOK
  <2>6. KnownOK(known')
    BY <1>4, <2>3, <2>4, <2>5 DEF Scan, KnownOK, Typed
  <2> QED
    BY <1>4, <2>2, <2>6, RoundKeeps DEF Scan, Typed
<1>5. CASE Drop
  <2>1. CASE probe' = Idle /\ UNCHANGED <<peers, known, conn>>
    <3>1. ProbeOK(probe')
      BY <2>1 DEF ProbeOK, Idle
    <3> QED
      BY <1>5, <2>1, <3>1, RoundKeeps DEF Drop, Typed
  <2>2. ASSUME NEW a \in probe.todo, disconnectPeer(a, conn),
               probe' = [probe EXCEPT !.todo = probe.todo \ {a}]
        PROVE  Typed'
    <3>1. a \in Others \cup {None} /\ ProbeOK(probe')
      BY <2>2 DEF Typed, ProbeOK
    <3> QED
      BY <1>5, <2>2, <3>1, HangingUpKeeps DEF Drop, Typed
  <2> QED
    BY <1>5, <2>1, <2>2 DEF Drop
<1> QED
  BY <1>1, <1>2, <1>3, <1>4, <1>5 DEF Probe

\* The broadcast of the peer list.
LEMMA CastKeeps == ASSUME Typed, Cast PROVE Typed'
<1>1. CASE CastTick
  <2>1. {<<a, peers[a]>> : a \in DOMAIN peers} \in SUBSET (Others \X Conn)
    BY DEF Typed, PeersOK
  <2>2. CastOK(cast')
    BY <1>1, <2>1 DEF CastTick, CastOK, Idle
  <2> QED
    BY <1>1, <2>2, RoundKeeps DEF CastTick, Typed
<1>2. ASSUME NEW x \in cast.todo, Send(x) PROVE Typed'
  <2> DEFINE left == [cast EXCEPT !.todo = cast.todo \ {x}]
  <2>1. x[1] \in Others
    BY DEF Typed, CastOK
  <2>2. CastOK(left) /\ CastOK([left EXCEPT !.pc = "hangup", !.addr = x[1]])
    BY <2>1 DEF Typed, CastOK
  <2>3. CastOK(cast')
    BY <1>2, <2>2 DEF Send
  <2>4. KnownOK(known')
    <3>1. KnownOK(updatePeerStatus(known, x[1], FALSE, TRUE))
      BY <2>1, StatusTyped DEF Typed
    <3> QED
      BY <1>2, <3>1 DEF Send, Typed
  <2> QED
    BY <1>2, <2>3, <2>4, RoundKeeps DEF Send, Typed
<1>3. CASE CastHangsUp
  <2>1. cast.addr \in Others \cup {None} /\ CastOK(cast')
    BY <1>3 DEF CastHangsUp, Typed, CastOK
  <2> QED
    BY <1>3, <2>1, HangingUpKeeps DEF CastHangsUp, Typed
<1>4. CASE CastEnds
  <2>1. CastOK(cast')
    BY <1>4 DEF CastEnds, CastOK, Idle
  <2> QED
    BY <1>4, <2>1, RoundKeeps DEF CastEnds, Typed
<1> QED
  BY <1>1, <1>2, <1>3, <1>4 DEF Cast

----------------------------------------------------------------------------
(* Pruning, time and the rest of the network.                              *)

\* Pruning spares the own entry.
LEMMA PruneKeeps == ASSUME Typed, pruneKnownPeers PROVE Typed'
<1>1. Self \notin Prunable
  BY DEF Prunable
<1>2. KnownOK(known')
  BY <1>1, WithoutKnown DEF pruneKnownPeers, Typed
<1> QED
  BY <1>2, RoundKeeps DEF pruneKnownPeers, Typed

\* Time passes.
LEMMA AgeKeeps == ASSUME Typed, NEW a, Age(a) PROVE Typed'
<1>1. KnownOK(known')
  BY DEF Age, Typed, KnownOK, PeerEntry
<1> QED
  BY <1>1, RoundKeeps DEF Age, Typed

\* Connections are cut at the other end.
LEMMA CutKeeps ==
  ASSUME Typed, NEW S, OthersOK',
         conn' = [c \in Conn |-> IF c \in S /\ conn[c].state = "open"
                                 THEN [conn[c] EXCEPT !.state = "cut"] ELSE conn[c]],
         UNCHANGED <<peers, known, dials, probe, cast>>
  PROVE  Typed'
<1>1. ASSUME NEW c \in Conn
      PROVE  conn'[c] \in ConnState /\ conn'[c].pc = conn[c].pc
  <2>1. CASE c \in S /\ conn[c].state = "open"
    <3>1. conn[c] \in ConnState \ {Dead}
      BY <2>1 DEF Typed, ConnOK, Dead
    <3>2. [conn[c] EXCEPT !.state = "cut"] \in ConnState
          /\ [conn[c] EXCEPT !.state = "cut"].pc = conn[c].pc
      BY <3>1 DEF ConnState
    <3> QED
      BY <2>1, <3>2
  <2>2. CASE ~ (c \in S /\ conn[c].state = "open")
    BY <2>2 DEF Typed, ConnOK
  <2> QED
    BY <2>1, <2>2
<1>2. ConnOK(conn')
  BY <1>1 DEF ConnOK
<1>3. RequestsHoldTheirs'
  BY <1>1, Held DEF Typed
<1> QED
  BY <1>2, <1>3 DEF Typed

\* What others do.
LEMMA EnvironmentKeeps == ASSUME Typed, Environment PROVE Typed'
<1>1. ASSUME NEW c \in Conn, Cut(c) PROVE Typed'
  <2>1. conn' = [b \in Conn |-> IF b \in {c} /\ conn[b].state = "open"
                                THEN [conn[b] EXCEPT !.state = "cut"] ELSE conn[b]]
    BY <1>1 DEF Cut, Typed, ConnOK
  <2>2. OthersOK'
    BY <1>1, LimitsAssumption DEF Cut, Typed, OthersOK
  <2> QED
    BY <1>1, <2>1, <2>2, CutKeeps DEF Cut
<1>2. ASSUME NEW r \in Listening, Leave(r) PROVE Typed'
  <2> DEFINE S == {c \in Conn : conn[c].remote = r}
  <2>1. conn' = [c \in Conn |-> IF c \in S /\ conn[c].state = "open"
                                THEN [conn[c] EXCEPT !.state = "cut"] ELSE conn[c]]
    BY <1>2 DEF Leave
  <2>2. OthersOK'
    BY <1>2, LimitsAssumption DEF Leave, Typed, OthersOK
  <2> HIDE DEF S
  <2> QED
    BY <1>2, <2>1, <2>2, CutKeeps DEF Leave
<1>3. ASSUME NEW r \in Listening, Join(r) PROVE Typed'
  <2>1. OthersOK'
    BY <1>3 DEF Join, Typed, OthersOK
  <2>2. RequestsHoldTheirs'
    BY <1>3, Held DEF Join, Typed
  <2> QED
    BY <1>3, <2>1, <2>2 DEF Join, Typed
<1> QED
  BY <1>1, <1>2, <1>3, AddPeerKeeps, ReadTimesOutKeeps, ReceiveKeeps, AcceptKeeps DEF Environment

----------------------------------------------------------------------------
\* Every step of the table.
LEMMA TypedStep == ASSUME Typed, [Next]_vars PROVE Typed'
<1>1. CASE Dial
  BY <1>1, CheckKeeps, DialFailsKeeps, DialledKeeps, RequestChainKeeps DEF Dial
<1>2. CASE Probe \/ Cast
  BY <1>2, ProbeKeeps, CastKeeps
<1>3. CASE pruneKnownPeers \/ reconnectToKnownPeers
  BY <1>3, PruneKeeps, ReconnectKeeps
<1>4. ASSUME NEW c \in Conn, Handle(c) PROVE Typed'
  BY <1>4, StatusKeeps, PeerListKeeps, ReturnKeeps DEF Handle
<1>5. ASSUME NEW r \in Announced, Discover(r) PROVE Typed'
  BY <1>5, DiscoverKeeps
<1>6. ASSUME NEW a \in Others, Age(a) PROVE Typed'
  BY <1>6, AgeKeeps
<1>7. CASE Environment
  BY <1>7, EnvironmentKeeps
<1>8. CASE UNCHANGED vars
  BY <1>8 DEF vars, Typed, OthersOK, RequestsHoldTheirs
<1> QED
  BY <1>1, <1>2, <1>3, <1>4, <1>5, <1>6, <1>7, <1>8 DEF Next

\* The inductive invariant holds at every moment.
LEMMA AlwaysTyped == Spec => []Typed
<1>1. Init => Typed
  BY InitTyped
<1>2. Typed /\ [Next]_vars => Typed'
  BY TypedStep
<1> QED
  BY <1>1, <1>2, PTL DEF Spec

\* The table, its goroutines and its connections are typed at every moment,
\* whatever other nodes send and however dials, probes and reads interleave.
THEOREM PeerTableTypes == Spec => []TypeOK
<1>1. Typed => TypeOK
  BY TypedIsIInv DEF IInv
<1> QED
  BY <1>1, AlwaysTyped, PTL

\* The node never dials, files, probes away or prunes its own address, however
\* often others list it, discovery announces it or the API is given it.
THEOREM NodeIsNotItsOwnPeer == Spec => []SelfIsNoPeer
<1>1. Typed => SelfIsNoPeer
  BY TypedIsIInv DEF IInv
<1> QED
  BY <1>1, AlwaysTyped, PTL

----------------------------------------------------------------------------
(* Addresses the node has forgotten.                                       *)

\* What refers to r, one part for each variable.
NotIn(r, f) == r \notin DOMAIN f
NotDialled(r, ds) == \A d \in ds : d.addr # r
NotNamed(r, cs) == \A c \in Conn : r \notin {cs[c].initial, cs[c].name} \cup cs[c].list
NotProbed(r, p) == r \notin p.todo /\ p.addr # r
NotCast(r, b) == b.addr # r /\ \A x \in b.todo : x[1] # r

Gone(r) ==
  /\ r \in discovered /\ NotIn(r, known) /\ NotIn(r, peers)
  /\ NotDialled(r, dials) /\ NotNamed(r, conn) /\ NotProbed(r, probe) /\ NotCast(r, cast)

LEMMA GoneIsForgotten == \A r : Gone(r) <=> Forgotten(r)
BY DEF Gone, Forgotten, NotIn, NotDialled, NotNamed, NotProbed, NotCast

\* Entries of other addresses come and go.
LEMMA WithNotIn ==
  ASSUME NEW r, NEW f, NotIn(r, f), NEW a, a # r, NEW v PROVE NotIn(r, With(f, a, v))
BY DEF NotIn, With

LEMMA WithoutNotIn ==
  ASSUME NEW r, NEW f, NotIn(r, f), NEW S PROVE NotIn(r, Without(f, S))
BY DEF NotIn, Without, Restrict

LEMMA StatusNotIn ==
  ASSUME NEW r, NEW k, NotIn(r, k), NEW a, a # r, NEW active, NEW failedPing
  PROVE  NotIn(r, updatePeerStatus(k, a, active, failedPing))
BY WithNotIn DEF updatePeerStatus

\* Closing a connection leaves it its names.
LEMMA ClosedNotNamed ==
  ASSUME NEW r, NEW cs, ConnOK(cs), NotNamed(r, cs), NEW S PROVE NotNamed(r, Closed(cs, S))
<1>1. ASSUME NEW c \in Conn
      PROVE  LET x == Closed(cs, S)[c] IN
             x.initial = cs[c].initial /\ x.name = cs[c].name /\ x.list = cs[c].list
  <2>1. CASE c \notin S
    BY <2>1 DEF Closed
  <2>2. CASE c \in S
    <3>1. Closed(cs, S)[c] = [cs[c] EXCEPT !.state = "closed"] /\ cs[c] \in ConnState
      BY <2>2 DEF Closed, ConnOK
    <3>2. CASE cs[c] = Dead
      BY <3>1, <3>2 DEF Dead
    <3>3. CASE cs[c] # Dead
      BY <3>1, <3>3 DEF ConnState
    <3> QED
      BY <3>2, <3>3
  <2> QED
    BY <2>1, <2>2
<1> QED
  BY <1>1 DEF NotNamed

LEMMA DisconnectNotNamed ==
  ASSUME NEW r, NotIn(r, known), NotIn(r, peers), NEW cs, ConnOK(cs), NotNamed(r, cs),
         NEW a, disconnectPeer(a, cs)
  PROVE  NotIn(r, known') /\ NotIn(r, peers') /\ NotNamed(r, conn')
<1>1. DOMAIN known' = DOMAIN known
  BY DEF disconnectPeer
<1> QED
  BY <1>1, WithoutNotIn, ClosedNotNamed DEF disconnectPeer, NotIn

\* Calls of other addresses start.
LEMMA StartsNotDialled ==
  ASSUME NEW r, NotDialled(r, dials), NEW S, r \notin S, Starts(S) PROVE NotDialled(r, dials')
BY DEF Starts, Call, NotDialled

\* One connection's record changes and does not name r.
LEMMA OneNotNamed ==
  ASSUME NEW r, NEW cs, ConnOK(cs), NotNamed(r, cs), NEW c \in Conn, NEW x,
         r \notin {x.initial, x.name} \cup x.list
  PROVE  NotNamed(r, [cs EXCEPT ![c] = x])
BY DEF NotNamed, ConnOK

\* A running handler's record is a record.
LEMMA RunningConn ==
  ASSUME Typed, NEW c \in Conn, conn[c].pc # "done"
  PROVE  conn[c] \in [state : {"open", "cut", "closed"},
                      pc : {"starting", "read", "status", "list", "deaf"},
                      initial : Others, remote : Listening, name : Others, list : SUBSET Address]
BY DEF Typed, ConnOK, ConnState, Dead

LEMMA DialForgets ==
  ASSUME Typed, NEW r \in Listening, Gone(r), NEW d \in dials,
         Check(d) \/ DialFails(d) \/ Dialled(d) \/ RequestChain(d)
  PROVE  Gone(r)'
<1>0. d.addr # r /\ ConnOK(conn) /\ r # None
  BY AddressAssumption DEF Gone, NotDialled, Typed, Address, Others
<1>1. CASE Check(d)
  <2>1. [d EXCEPT !.pc = "dial"].addr = d.addr
    BY DEF Typed, DialsOK, DialState
  <2>2. NotDialled(r, dials')
    BY <1>0, <1>1, <2>1 DEF Check, Gone, NotDialled
  <2> QED
    BY <1>1, <2>2 DEF Check, Gone
<1>2. CASE DialFails(d)
  <2>1. NotIn(r, known') /\ NotDialled(r, dials')
    BY <1>0, <1>2, StatusNotIn DEF DialFails, Gone, NotDialled
  <2> QED
    BY <1>2, <2>1 DEF DialFails, Gone
<1>3. CASE Dialled(d)
  <2>1. PICK c \in Conn :
          /\ conn' = [conn EXCEPT ![c] = Connection("starting", d.addr, d.addr)]
          /\ peers' = With(peers, d.addr, c)
          /\ dials' = (dials \ {d}) \cup {[d EXCEPT !.pc = "request", !.conn = c]}
    BY <1>3 DEF Dialled
  <2>2. [d EXCEPT !.pc = "request", !.conn = c].addr = d.addr
    BY DEF Typed, DialsOK, DialState
  <2>3. NotDialled(r, dials')
    BY <1>0, <2>1, <2>2 DEF Gone, NotDialled
  <2>4. NotNamed(r, conn')
    BY <1>0, <2>1, OneNotNamed DEF Connection, Gone
  <2>5. NotIn(r, peers') /\ NotIn(r, known')
    BY <1>0, <1>3, <2>1, WithNotIn DEF Dialled, Gone
  <2> QED
    BY <1>3, <2>3, <2>4, <2>5 DEF Dialled, Gone
<1>4. CASE RequestChain(d)
  <2> DEFINE x == [conn[d.conn] EXCEPT !.pc = "read"]
             started == [conn EXCEPT ![d.conn] = x]
  <2>1. d.pc = "request" /\ d.conn \in Conn /\ conn[d.conn].pc = "starting"
    BY <1>4 DEF RequestChain, Typed, RequestsHoldTheirs
  <2>2. /\ x.initial = conn[d.conn].initial /\ x.name = conn[d.conn].name
        /\ x.list = conn[d.conn].list /\ x \in ConnState
    BY <2>1, RunningConn DEF ConnState
  <2>3. r \notin {x.initial, x.name} \cup x.list
    BY <2>1, <2>2 DEF Gone, NotNamed
  <2> HIDE DEF x
  <2>4. NotNamed(r, started) /\ ConnOK(started)
    <3>1. NotNamed(r, started)
      BY <1>0, <2>1, <2>3, OneNotNamed DEF Gone
    <3>2. ConnOK(started)
      BY <1>0, <2>1, <2>2 DEF ConnOK
    <3> QED
      BY <3>1, <3>2
  <2> HIDE DEF started
  <2>5. (conn' = started /\ UNCHANGED <<peers, known>>) \/ disconnectPeer(d.addr, started)
    BY <1>4 DEF RequestChain, started, x
  <2>6. NotIn(r, known') /\ NotIn(r, peers') /\ NotNamed(r, conn')
    BY <2>4, <2>5, DisconnectNotNamed DEF Gone
  <2>7. NotDialled(r, dials')
    BY <1>4 DEF RequestChain, Gone, NotDialled
  <2> QED
    BY <1>4, <2>6, <2>7 DEF RequestChain, Gone
<1> QED
  BY <1>1, <1>2, <1>3, <1>4

LEMMA ProbeForgets == ASSUME Typed, NEW r \in Listening, Gone(r), Probe PROVE Gone(r)'
<1>0. r # None /\ ConnOK(conn) /\ ConnOK(conn) /\ ProbeOK(probe)
  BY AddressAssumption DEF Typed, Address, Others
<1>1. CASE ProbeTick
  <2>1. NotProbed(r, probe')
    BY <1>0, <1>1 DEF ProbeTick, Idle, Gone, NotProbed, NotIn
  <2> QED
    BY <1>1, <2>1 DEF ProbeTick, Gone
<1>2. ASSUME NEW a \in probe.todo, Ping(a) PROVE Gone(r)'
  <2>1. a # r
    BY DEF Gone, NotProbed
  <2>2. NotProbed(r, probe')
    BY <1>0, <1>2, <2>1 DEF Ping, Gone, NotProbed, ProbeOK
  <2>3. NotIn(r, known')
    <3>1. NotIn(r, updatePeerStatus(known, a, FALSE, TRUE))
      BY <2>1, StatusNotIn DEF Gone
    <3> QED
      BY <1>2, <3>1 DEF Ping, Gone
  <2> QED
    BY <1>2, <2>2, <2>3 DEF Ping, Gone
<1>3. CASE HangUp
  <2>1. NotProbed(r, probe')
    BY <1>0, <1>3 DEF HangUp, Gone, NotProbed, ProbeOK
  <2> QED
    BY <1>0, <1>3, <2>1, DisconnectNotNamed DEF HangUp, Gone
<1>4. CASE Scan
  <2>1. NotProbed(r, probe')
    BY <1>0, <1>4 DEF Scan, Idle, Silent, Gone, NotProbed, NotIn
  <2>2. NotIn(r, known')
    BY <1>4 DEF Scan, Gone, NotIn
  <2> QED
    BY <1>4, <2>1, <2>2 DEF Scan, Gone
<1>5. CASE Drop
  <2>1. NotProbed(r, probe')
    BY <1>0, <1>5 DEF Drop, Idle, Gone, NotProbed, ProbeOK
  <2> QED
    BY <1>0, <1>5, <2>1, DisconnectNotNamed DEF Drop, Gone
<1> QED
  BY <1>1, <1>2, <1>3, <1>4, <1>5 DEF Probe

LEMMA CastForgets == ASSUME Typed, NEW r \in Listening, Gone(r), Cast PROVE Gone(r)'
<1>0. r # None /\ ConnOK(conn) /\ CastOK(cast)
  BY AddressAssumption DEF Typed, Address, Others
<1>1. CASE CastTick
  <2>1. NotCast(r, cast')
    BY <1>0, <1>1 DEF CastTick, Idle, Gone, NotCast, NotIn
  <2> QED
    BY <1>1, <2>1 DEF CastTick, Gone
<1>2. ASSUME NEW x \in cast.todo, Send(x) PROVE Gone(r)'
  <2>1. x[1] # r
    BY DEF Gone, NotCast
  <2>2. NotCast(r, cast')
    BY <1>0, <1>2, <2>1 DEF Send, Gone, NotCast, CastOK
  <2>3. NotIn(r, known')
    <3>1. NotIn(r, updatePeerStatus(known, x[1], FALSE, TRUE))
      BY <2>1, StatusNotIn DEF Gone
    <3> QED
      BY <1>2, <3>1 DEF Send, Gone
  <2> QED
    BY <1>2, <2>2, <2>3 DEF Send, Gone
<1>3. CASE CastHangsUp
  <2>1. NotCast(r, cast')
    BY <1>0, <1>3 DEF CastHangsUp, Gone, NotCast, CastOK
  <2> QED
    BY <1>0, <1>3, <2>1, DisconnectNotNamed DEF CastHangsUp, Gone
<1>4. CASE CastEnds
  <2>1. NotCast(r, cast')
    BY <1>0, <1>4 DEF CastEnds, Idle, NotCast
  <2> QED
    BY <1>4, <2>1 DEF CastEnds, Gone
<1> QED
  BY <1>1, <1>2, <1>3, <1>4 DEF Cast

\* What the handlers of connections do with the names they have.
LEMMA HandleForgets ==
  ASSUME Typed, NEW r \in Listening, Gone(r), NEW c \in Conn, Handle(c) PROVE Gone(r)'
<1>0. r # None /\ ConnOK(conn) /\ r \notin {conn[c].initial, conn[c].name} \cup conn[c].list
  BY AddressAssumption DEF Typed, Address, Others, Gone, NotNamed
<1>1. CASE Status(c)
  <2>1. NotIn(r, known')
    BY <1>0, <1>1, StatusNotIn DEF Status, Gone
  <2>2. PICK pc \in {"read", "list"} : conn' = [conn EXCEPT ![c] = [conn[c] EXCEPT !.pc = pc]]
    BY <1>1 DEF Status
  <2>3. LET x == [conn[c] EXCEPT !.pc = pc] IN
        x.initial = conn[c].initial /\ x.name = conn[c].name /\ x.list = conn[c].list
    BY <1>1, RunningConn DEF Status
  <2>4. NotNamed(r, conn')
    BY <1>0, <2>2, <2>3, OneNotNamed DEF Gone
  <2> QED
    BY <1>1, <2>1, <2>4 DEF Status, Gone
<1>2. CASE handlePeerList(c)
  <2>1. PICK added \in SUBSET (Identities(conn[c].list) \ DOMAIN known) :
          DOMAIN known' = DOMAIN known \cup added /\ Starts(added)
    BY <1>2 DEF handlePeerList
  <2>2. r \notin added
    BY <1>0, <2>1 DEF Identities
  <2>3. NotIn(r, known') /\ NotDialled(r, dials')
    BY <2>1, <2>2, StartsNotDialled DEF Gone, NotIn
  <2>4. LET x == [conn[c] EXCEPT !.pc = "read", !.list = {}] IN
        x.initial = conn[c].initial /\ x.name = conn[c].name /\ x.list = {}
    BY <1>2, RunningConn DEF handlePeerList
  <2>5. NotNamed(r, conn')
    <3>1. PICK x : x = [conn[c] EXCEPT !.pc = "read", !.list = {}]
      OBVIOUS
    <3>2. conn' = [conn EXCEPT ![c] = x]
      BY <1>2, <3>1 DEF handlePeerList
    <3> QED
      BY <1>0, <2>4, <3>1, <3>2, OneNotNamed DEF Gone
  <2> QED
    BY <1>2, <2>3, <2>5 DEF handlePeerList, Gone
<1>3. CASE Return(c)
  <2>1. NotNamed(r, conn')
    BY <1>0, <1>3, OneNotNamed DEF Return, Dead, Gone
  <2> QED
    BY <1>3, <2>1 DEF Return, Gone
<1> QED
  BY <1>1, <1>2, <1>3 DEF Handle

\* Connections keep their names.
LEMMA SameNames ==
  ASSUME NEW r, NotNamed(r, conn),
         \A c \in Conn : /\ conn'[c].initial = conn[c].initial
                         /\ conn'[c].name = conn[c].name /\ conn'[c].list = conn[c].list
  PROVE  NotNamed(r, conn')
BY DEF NotNamed

\* A message comes in; a list with r in it is the only way to learn of r.
LEMMA ReceiveForgets ==
  ASSUME Typed, NEW r \in Listening, Gone(r), NEW c \in Conn, NEW list \in SUBSET Address,
         r \notin list, Receive(c, list)
  PROVE  Gone(r)'
<1>0. ConnOK(conn) /\ r \notin {conn[c].initial, conn[c].name} \cup conn[c].list
  BY DEF Typed, Gone, NotNamed
<1> DEFINE x == [conn[c] EXCEPT !.pc = "status", !.list = list]
           heard == [conn EXCEPT ![c] = x]
<1>1. /\ x.initial = conn[c].initial /\ x.name = conn[c].name /\ x.list = list
      /\ x \in ConnState
      /\ \A a \in Others : [x EXCEPT !.name = a] \in ConnState
                           /\ [x EXCEPT !.name = a].initial = x.initial
                           /\ [x EXCEPT !.name = a].name = a
                           /\ [x EXCEPT !.name = a].list = list
  BY RunningConn DEF Receive, ConnState
<1>2. heard = [[conn EXCEPT ![c].pc = "status"] EXCEPT ![c].list = list]
  BY <1>0 DEF ConnOK
<1>3. CASE conn' = heard /\ UNCHANGED <<peers, known>>
  <2>1. NotNamed(r, conn')
    <3> HIDE DEF x
    <3> QED
      BY <1>0, <1>1, <1>3, OneNotNamed DEF Gone
  <2> QED
    BY <1>3, <2>1 DEF Receive, Gone
<1>4. ASSUME NEW a \in Identities(list), Identify(c, a, heard) PROVE Gone(r)'
  <2>1. a # r /\ a \in Others
    BY DEF Identities, Address, Others
  <2> DEFINE y == [x EXCEPT !.name = a]
             named == [conn EXCEPT ![c] = y]
  <2>2. named = [heard EXCEPT ![c].name = a]
    BY <1>0 DEF ConnOK
  <2>3. r \notin {y.initial, y.name} \cup y.list /\ y \in ConnState
    BY <1>0, <1>1, <2>1
  <2> HIDE DEF y
  <2>4. NotNamed(r, named) /\ ConnOK(named)
    <3>1. NotNamed(r, named)
      BY <1>0, <2>3, OneNotNamed DEF Gone
    <3>2. ConnOK(named)
      BY <1>0, <2>3 DEF ConnOK
    <3> QED
      BY <3>1, <3>2
  <2>5. \E S : conn' = Closed(named, S)
    BY <1>4, <2>2 DEF Identify
  <2>6. NotNamed(r, conn')
    BY <2>4, <2>5, ClosedNotNamed
  <2>7. NotIn(r, known')
    BY <1>4, WithoutNotIn DEF Identify, Gone
  <2>8. NotIn(r, peers')
    BY <1>4, <2>1, WithoutNotIn, WithNotIn DEF Identify, Gone
  <2> QED
    BY <2>6, <2>7, <2>8 DEF Receive, Gone
<1> QED
  BY <1>2, <1>3, <1>4 DEF Receive

\* What others do, short of telling the node of r.
LEMMA EnvironmentForgets ==
  ASSUME Typed, NEW r \in Listening, Gone(r), Environment, ~ Told(r) PROVE Gone(r)'
<1>0. ConnOK(conn)
  BY DEF Typed
<1>1. ASSUME NEW a \in {Self} \cup Listening, AddPeer(a) PROVE Gone(r)'
  <2>1. a # r
    BY <1>1 DEF Told
  <2>2. NotDialled(r, dials')
    BY <1>1, <2>1, StartsNotDialled DEF AddPeer, Gone
  <2> QED
    BY <1>1, <2>2 DEF AddPeer, Gone
<1>2. ASSUME NEW c \in Conn, Cut(c) PROVE Gone(r)'
  <2>1. NotNamed(r, conn')
    <3>1. conn[c] \in ConnState \ {Dead}
      BY <1>0, <1>2 DEF Cut, ConnOK, Dead
    <3>2. LET x == [conn[c] EXCEPT !.state = "cut"] IN
          x.initial = conn[c].initial /\ x.name = conn[c].name /\ x.list = conn[c].list
      BY <3>1 DEF ConnState
    <3> QED
      BY <1>0, <1>2, <3>2, SameNames DEF Cut, Gone, ConnOK
  <2> QED
    BY <1>2, <2>1 DEF Cut, Gone
<1>3. ASSUME NEW c \in Conn, ReadTimesOut(c) PROVE Gone(r)'
  <2>1. NotNamed(r, conn')
    <3>1. LET x == [conn[c] EXCEPT !.pc = "deaf"] IN
          x.initial = conn[c].initial /\ x.name = conn[c].name /\ x.list = conn[c].list
      BY <1>3, RunningConn DEF ReadTimesOut
    <3> QED
      BY <1>0, <1>3, <3>1, SameNames DEF ReadTimesOut, Gone, ConnOK
  <2> QED
    BY <1>3, <2>1 DEF ReadTimesOut, Gone
<1>4. ASSUME NEW c \in Conn, NEW list \in SUBSET (Address \ {conn[c].remote}), Receive(c, list)
      PROVE  Gone(r)'
  BY <1>4, ReceiveForgets DEF Told
<1>5. ASSUME NEW q \in Listening, Leave(q) PROVE Gone(r)'
  <2>1. ASSUME NEW c \in Conn
        PROVE  /\ conn'[c].initial = conn[c].initial
               /\ conn'[c].name = conn[c].name /\ conn'[c].list = conn[c].list
    <3>1. CASE conn[c].remote = q /\ conn[c].state = "open"
      <4>1. conn[c] \in ConnState \ {Dead}
        BY <1>0, <3>1 DEF ConnOK, Dead
      <4>2. conn'[c] = [conn[c] EXCEPT !.state = "cut"]
        BY <1>5, <3>1 DEF Leave
      <4> QED
        BY <4>1, <4>2 DEF ConnState
    <3>2. CASE ~ (conn[c].remote = q /\ conn[c].state = "open")
      BY <1>5, <3>2 DEF Leave
    <3> QED
      BY <3>1, <3>2
  <2>2. NotNamed(r, conn')
    BY <2>1, SameNames DEF Gone
  <2> QED
    BY <1>5, <2>2 DEF Leave, Gone
<1>6. ASSUME NEW q \in Listening, Join(q) PROVE Gone(r)'
  BY <1>6 DEF Join, Gone
<1>7. ASSUME NEW q \in Listening, NEW e \in Inbound, Accept(e, q) PROVE Gone(r)'
  <2>1. e # r
    BY AddressAssumption
  <2>2. PICK c \in Conn : /\ conn' = [conn EXCEPT ![c] = Connection("read", e, q)]
                          /\ peers' = With(peers, e, c)
    BY <1>7 DEF Accept
  <2>3. NotNamed(r, conn')
    BY <1>0, <2>1, <2>2, OneNotNamed DEF Connection, Gone
  <2>4. NotIn(r, peers') /\ NotIn(r, known')
    BY <1>7, <2>1, <2>2, WithNotIn DEF Accept, Gone
  <2> QED
    BY <1>7, <2>3, <2>4 DEF Accept, Gone
<1> QED
  BY <1>1, <1>2, <1>3, <1>4, <1>5, <1>6, <1>7 DEF Environment

\* Every step of the table but one that tells it of r.
LEMMA ForgetsStep ==
  ASSUME Typed, NEW r \in Listening, Gone(r), [Next]_vars, ~ Told(r) PROVE Gone(r)'
<1>1. CASE Dial
  BY <1>1, DialForgets DEF Dial
<1>2. CASE Probe \/ Cast
  BY <1>2, ProbeForgets, CastForgets
<1>3. CASE pruneKnownPeers
  BY <1>3, WithoutNotIn DEF pruneKnownPeers, Gone
<1>4. CASE reconnectToKnownPeers
  <2>1. NotDialled(r, dials')
    BY <1>4, StartsNotDialled DEF reconnectToKnownPeers, Hopeful, Gone, NotIn
  <2> QED
    BY <1>4, <2>1 DEF reconnectToKnownPeers, Gone
<1>5. ASSUME NEW c \in Conn, Handle(c) PROVE Gone(r)'
  BY <1>5, HandleForgets
<1>6. ASSUME NEW q \in Announced, Discover(q) PROVE Gone(r)'
  <2>1. NotDialled(r, dials')
    BY <1>6, StartsNotDialled DEF Discover, Gone
  <2> QED
    BY <1>6, <2>1 DEF Discover, Gone
<1>7. ASSUME NEW a \in Others, Age(a) PROVE Gone(r)'
  BY <1>7 DEF Age, Gone, NotIn
<1>8. CASE Environment
  BY <1>8, EnvironmentForgets
<1>9. CASE UNCHANGED vars
  BY <1>9 DEF vars, Gone
<1> QED
  BY <1>1, <1>2, <1>3, <1>4, <1>5, <1>6, <1>7, <1>8, <1>9 DEF Next

\* Once pruned after discovery has dialled it, an address stays unknown until
\* somebody names it, whatever it announces and for however long.
THEOREM ForgottenForGood == Spec => OnlyTheToldRemember
<1>1. Typed /\ [Next]_vars => \A r \in Listening : Forgotten(r) => Forgotten(r)' \/ Told(r)
  <2> SUFFICES ASSUME Typed, [Next]_vars, NEW r \in Listening, Forgotten(r), ~ Told(r)
               PROVE  Forgotten(r)'
    OBVIOUS
  <2>1. Gone(r)'
    BY GoneIsForgotten, ForgetsStep
  <2> QED
    BY <2>1 DEF Gone, Forgotten, NotIn, NotDialled, NotNamed, NotProbed, NotCast
<1> QED
  BY <1>1, AlwaysTyped, PTL DEF Spec, OnlyTheToldRemember
============================================================================
