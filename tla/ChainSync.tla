----------------------------- MODULE ChainSync -----------------------------
(***************************************************************************)
(* The block protocol between running nodes: pkg/network/node.go on top of *)
(* pkg/blockchain, and the /api/message handler that feeds it.             *)
(*                                                                         *)
(* Goroutines are the actors.  A connection has one handler goroutine at   *)
(* each end (handler[n][p]), every broadcast is a goroutine of its own (a  *)
(* member of casts), and an API request that has mined its block and not   *)
(* yet read the tip back is a member of pending.  No connection leads from *)
(* a node to itself: handler[n][n] is n's broadcastPeerList goroutine,     *)
(* busy while it saves the chain.  A step is what a goroutine does in one  *)
(* critical section of the chain's mutex or the node's, or one write to a  *)
(* connection.                                                             *)
(*                                                                         *)
(* Addresses are collapsed to nodes: at most one connection joins two      *)
(* nodes.  What peer lists do to the connection table is module PeerTable. *)
(***************************************************************************)
EXTENDS Chain, FiniteSets

CONSTANTS
  Node,                 \* running processes
  Overlay,              \* <<n, p>>: n has p among its bootstrap or known peers
  InitialLinks,         \* the dials already done when the model starts
  Poster,               \* nodes whose users post messages
  Keyed,                \* nodes with a NetworkKey
  Filed,                \* nodes with a ChainFile
  MaxBroadcastRetries,  \* retries of a broadcast after its first round
  MaxFaults             \* bound: connections lost and processes killed

ASSUME OverlayAssumption == Overlay \subseteq {e \in Node \X Node : e[1] # e[2]}
ASSUME LinksAssumption ==
  /\ InitialLinks \subseteq Overlay
  /\ \A e \in InitialLinks : e[1] \notin Keyed
ASSUME PosterAssumption == Poster \subseteq Node
ASSUME RetriesAssumption == MaxBroadcastRetries \in Nat
ASSUME FaultsAssumption == MaxFaults \in Nat

VARIABLES
  chain,    \* chain[n]: Blockchain.Chain of node n
  disk,     \* disk[n]: the contents of n's ChainFile
  pending,  \* pending[n]: messages whose request is between AddMessage and GetLastBlock
  acked,    \* messages whose request was answered with success
  link,     \* pairs {n, p} joined by an open connection
  peers,    \* peers[n]: Node.Peers, open or not
  wire,     \* wire[n][p]: sent by n and not yet read by p
  handler,  \* handler[n][p]: n's handleConnection goroutine for its connection to p,
            \* handler[n][n]: its broadcastPeerList goroutine
  casts,    \* running BroadcastBlockWithRetry goroutines
  mined,    \* history: every chain that mining has produced
  faults    \* faults so far

vars == <<chain, disk, pending, acked, link, peers, wire, handler, casts, mined, faults>>

----------------------------------------------------------------------------
\* An absent file, or one truncated by os.WriteFile and not yet written.
NoFile == <<>>

Idle == [pc |-> "idle"]

MinedBlock == {GetLastBlock(c) : c \in mined}

\* A message nobody has posted yet.
Fresh(m) == \A c \in mined : ~ HasMessage(c, m)

Linked(e, n, p) == <<n, p>> \in e \/ <<p, n>> \in e

Init ==
  /\ chain = [n \in Node |-> NewBlockchain]
  /\ disk = [n \in Node |-> NoFile]
  /\ pending = [n \in Node |-> {}]
  /\ acked = {}
  /\ link = {{e[1], e[2]} : e \in InitialLinks}
  /\ peers = [n \in Node |-> {p \in Node : Linked(InitialLinks, n, p)}]
  /\ wire = [n \in Node |-> [p \in Node |-> <<>>]]
  /\ handler = [n \in Node |-> [p \in Node |-> Idle]]
  /\ casts = {}
  /\ mined = {NewBlockchain}
  /\ faults = 0

----------------------------------------------------------------------------
(* Connections.                                                            *)

\* sendMessage on an open connection; with a NetworkKey it never gets to
\* the connection, because json.Marshal refuses the hex text that
\* encryptNetworkMessage stores as raw JSON.
CanSend(n, p) == n \notin Keyed /\ {n, p} \in link

\* sendMessage returns an error.
SendFails(n, p) == ~ CanSend(n, p)

\* The kernel takes the first bytes written after the other end has gone.
SendIsLost(n, p) == n \notin Keyed /\ {n, p} \notin link

Put(n, p, msg) == wire' = [wire EXCEPT ![n][p] = Append(@, msg)]

\* A broadcast keeps the connections of its snapshot, not the addresses.
WithoutLink(cs, n, p) ==
  {[c EXCEPT !.live = IF c.node = n THEN @ \ {p}
                      ELSE IF c.node = p THEN @ \ {n} ELSE @] : c \in cs}

\* n closes its connection to p.  What p has sent is discarded; what n has
\* sent is still read by p, unless the close resets the connection.
Close(n, p, cs) ==
  /\ link' = link \ {{n, p}}
  /\ casts' = WithoutLink(cs, n, p)
  /\ \E tail \in {<<>>, wire[n][p]} :
       wire' = [wire EXCEPT ![p][n] = <<>>, ![n][p] = tail]

\* disconnectPeer, in a step that leaves cs of the broadcasts.
disconnectPeer(n, p, cs) ==
  IF p \in peers[n]
  THEN /\ peers' = [peers EXCEPT ![n] = @ \ {p}]
       /\ Close(n, p, cs)
  ELSE /\ casts' = cs
       /\ UNCHANGED <<peers, link, wire>>

\* ConnectToPeer at n, acceptConnections at p and requestChain at n.  With a
\* NetworkKey the request fails and n drops the connection it has just
\* made, which p keeps in its table.  A new connection comes when the
\* handlers of the old one have read it to its end.
Dial(n, p) ==
  /\ <<n, p>> \in Overlay
  /\ p \notin peers[n]
  /\ {n, p} \notin link
  /\ wire[n][p] = <<>> /\ wire[p][n] = <<>>
  /\ handler[n][p] = Idle /\ handler[p][n] = Idle
  /\ IF n \in Keyed
     THEN /\ peers' = [peers EXCEPT ![p] = @ \cup {n}]
          /\ UNCHANGED <<link, wire>>
     ELSE /\ peers' = [peers EXCEPT ![n] = @ \cup {p}, ![p] = @ \cup {n}]
          /\ link' = link \cup {{n, p}}
          /\ Put(n, p, [type |-> "chain_request"])
  /\ UNCHANGED <<chain, disk, pending, acked, handler, casts, mined, faults>>

\* The periodic sends (sendPing, broadcastPeerList): a peer that cannot be
\* written to is disconnected.  A ping or a list that goes through changes
\* nothing here.  What broadcastPeerList does next is SaveTick.
Probe(n, p) ==
  /\ p \in peers[n]
  /\ IF SendFails(n, p)
     THEN disconnectPeer(n, p, casts)
     ELSE UNCHANGED <<peers, link, wire, casts>>
  /\ UNCHANGED <<chain, disk, pending, acked, handler, mined, faults>>

\* The connection is lost, with what is on it, or a write timed out half way
\* and the rest of the stream no longer decodes.  Both handlers return;
\* neither end touches its table.
Break(n, p) ==
  /\ faults < MaxFaults
  /\ {n, p} \in link
  /\ link' = link \ {{n, p}}
  /\ wire' = [wire EXCEPT ![n][p] = <<>>, ![p][n] = <<>>]
  /\ casts' = WithoutLink(casts, n, p)
  /\ faults' = faults + 1
  /\ UNCHANGED <<chain, disk, pending, acked, peers, handler, mined>>

\* Mutant of Restart: the new process does not load its file.
RestartWithoutLoading(n) ==
  /\ faults < MaxFaults
  /\ chain' = [chain EXCEPT ![n] = NewBlockchain]
  /\ pending' = [pending EXCEPT ![n] = {}]
  /\ peers' = [peers EXCEPT ![n] = {}]
  /\ link' = {l \in link : n \notin l}
  /\ wire' = [p \in Node |-> [q \in Node |-> IF n \in {p, q} THEN <<>> ELSE wire[p][q]]]
  /\ handler' = [handler EXCEPT ![n] = [p \in Node |-> Idle]]
  /\ casts' = {[c EXCEPT !.live = @ \ {n}] : c \in {d \in casts : d.node # n}}
  /\ faults' = faults + 1
  /\ UNCHANGED <<disk, acked, mined>>

\* The process of n is killed and started again with the same flags: its
\* goroutines and its table are gone, its chain is what the file holds.
Restart(n) ==
  /\ faults < MaxFaults
  /\ chain' = [chain EXCEPT ![n] = LoadFromFile(disk[n])]
  /\ pending' = [pending EXCEPT ![n] = {}]
  /\ peers' = [peers EXCEPT ![n] = {}]
  /\ link' = {l \in link : n \notin l}
  /\ wire' = [p \in Node |-> [q \in Node |-> IF n \in {p, q} THEN <<>> ELSE wire[p][q]]]
  /\ handler' = [handler EXCEPT ![n] = [p \in Node |-> Idle]]
  /\ casts' = {[c EXCEPT !.live = @ \ {n}] : c \in {d \in casts : d.node # n}}
  /\ faults' = faults + 1
  /\ UNCHANGED <<disk, acked, mined>>

----------------------------------------------------------------------------
(* Posting a message: the /api/message handler.                            *)

\* SaveToFile holds the chain's read lock while it writes, so that whoever
\* wants the write lock waits.
Writable(n) == \A p \in Node : handler[n][p].pc # "write"

\* AddMessage holds the chain's mutex from the read of the last block to
\* the append of the mined one.  It saves nothing.
AddMessage(n, m) ==
  /\ Fresh(m)
  /\ Writable(n)
  /\ \E k \in Nonce :
       /\ SimpleMineBlock(chain[n], m, k)
       /\ chain' = [chain EXCEPT ![n] = Append(@, Candidate(chain[n], m, k))]
  /\ mined' = mined \cup {chain'[n]}
  /\ pending' = [pending EXCEPT ![n] = @ \cup {m}]
  /\ UNCHANGED <<disk, acked, link, peers, wire, handler, casts, faults>>

\* go BroadcastBlockWithRetry(block), before its goroutine has run.
NewCast(n, by, b) ==
  [node |-> n, by |-> by, block |-> b, pc |-> "start",
   peers |-> {}, live |-> {}, todo |-> {}, failed |-> {}, attempt |-> 0]

\* The handler reads the tip back, which need not be the block it mined,
\* broadcasts it and answers the client.
BroadcastPost(n, m) ==
  /\ m \in pending[n]
  /\ pending' = [pending EXCEPT ![n] = @ \ {m}]
  /\ casts' = casts \cup {NewCast(n, m, GetLastBlock(chain[n]))}
  /\ acked' = acked \cup {m}
  /\ UNCHANGED <<chain, disk, link, peers, wire, handler, mined, faults>>

----------------------------------------------------------------------------
(* broadcastMessageWithRetry.                                              *)

\* The end of a round: the broadcast is over when nobody failed or the
\* attempts are used up, otherwise the next round goes over the peers that
\* have not failed.  A round with nobody left changes nothing any more.
EndRound(c) ==
  IF c.todo # {} THEN {c}
  ELSE IF c.failed = {} \/ c.attempt = MaxBroadcastRetries \/ c.peers = c.failed THEN {}
  ELSE {[c EXCEPT !.attempt = @ + 1, !.todo = c.peers \ c.failed]}

\* The snapshot of Peers; without peers the broadcast is over.
StartCast(c) ==
  /\ c.pc = "start"
  /\ LET n == c.node
         d == [c EXCEPT !.pc = "send", !.peers = peers[n], !.todo = peers[n],
                        !.live = {p \in peers[n] : {n, p} \in link}]
     IN casts' = (casts \ {c}) \cup EndRound(d)
  /\ UNCHANGED <<chain, disk, pending, acked, link, peers, wire, handler, mined, faults>>

CastSends(c, p) ==
  /\ c.node \notin Keyed /\ p \in c.live
  /\ Put(c.node, p, [type |-> "new_block", block |-> c.block])
  /\ casts' = (casts \ {c}) \cup EndRound([c EXCEPT !.todo = @ \ {p}])
  /\ UNCHANGED <<link, peers>>

CastLoses(c, p) ==
  /\ c.node \notin Keyed /\ p \notin c.live
  /\ casts' = (casts \ {c}) \cup EndRound([c EXCEPT !.todo = @ \ {p}])
  /\ UNCHANGED <<link, peers, wire>>

\* Only the last attempt disconnects the peer.
CastFails(c, p) ==
  /\ c.node \in Keyed \/ p \notin c.live
  /\ LET rest == (casts \ {c})
                   \cup EndRound([c EXCEPT !.todo = @ \ {p}, !.failed = @ \cup {p}])
     IN IF c.attempt = MaxBroadcastRetries
        THEN disconnectPeer(c.node, p, rest)
        ELSE casts' = rest /\ UNCHANGED <<link, peers, wire>>

SendCast(c, p) ==
  /\ c.pc = "send" /\ p \in c.todo
  /\ CastSends(c, p) \/ CastLoses(c, p) \/ CastFails(c, p)
  /\ UNCHANGED <<chain, disk, pending, acked, handler, mined, faults>>

----------------------------------------------------------------------------
(* handleConnection at n, for its connection to p.                         *)

\* The handler is at the top of its loop and decodes a message of type t.
Receives(n, p, t) ==
  /\ handler[n][p] = Idle
  /\ wire[p][n] # <<>> /\ Head(wire[p][n]).type = t

Pop(n, p) == wire' = [wire EXCEPT ![p][n] = Tail(@)]

Goto(n, p, h) == handler' = [handler EXCEPT ![n][p] = h]

\* Mutant of Asking: a block that does not extend the chain is dropped.
AskingNobody(ps) == Idle

\* requestChainFromPeers with the peers ps still to ask.
Asking(ps) == IF ps = {} THEN Idle ELSE [pc |-> "ask", todo |-> ps]

\* handleNewBlock up to its first decision: GetLastBlock, then the checks.
\* The read lock is released before any of the three continuations.
ReceiveNewBlock(n, p) ==
  /\ Receives(n, p, "new_block")
  /\ Pop(n, p)
  /\ LET b == Head(wire[p][n]).block
         lastBlock == GetLastBlock(chain[n])
     IN Goto(n, p,
          IF b.Hash # CalculateHash(b) \/ b.Index <= lastBlock.Index THEN Idle
          ELSE IF b.Index = lastBlock.Index + 1 /\ b.PrevHash = lastBlock.Hash
          THEN [pc |-> "copy", block |-> b]
          ELSE Asking(peers[n]))
  /\ UNCHANGED <<chain, disk, pending, acked, link, peers, casts, mined, faults>>

\* GetChain, in a critical section of its own.
CopyChain(n, p) ==
  /\ handler[n][p].pc = "copy"
  /\ Goto(n, p, [pc |-> "update", copy |-> chain[n], block |-> handler[n][p].block])
  /\ UNCHANGED <<chain, disk, pending, acked, link, peers, wire, casts, mined, faults>>

\* What follows a successful UpdateChain: saveChain when there is a
\* ChainFile, then the broadcasts that the handler starts.
SaveThen(n, p, casting) ==
  IF n \in Filed
  THEN Goto(n, p, [pc |-> "save", casting |-> casting]) /\ UNCHANGED casts
  ELSE Goto(n, p, Idle) /\ casts' = casts \cup casting

\* UpdateChain(append(chain, block)).
AppendBlock(n, p) ==
  /\ handler[n][p].pc = "update"
  /\ Writable(n)
  /\ LET b == handler[n][p].block
         new == Append(handler[n][p].copy, b)
     IN IF Accepts(chain[n], new)
        THEN /\ chain' = [chain EXCEPT ![n] = new]
             /\ SaveThen(n, p, {NewCast(n, p, b)})
        ELSE Goto(n, p, Idle) /\ UNCHANGED <<chain, casts>>
  /\ UNCHANGED <<disk, pending, acked, link, peers, wire, mined, faults>>

\* SaveToFile up to the os.WriteFile that has truncated the file.
Truncate(n, p, casting) ==
  /\ Goto(n, p, [pc |-> "write", casting |-> casting])
  /\ disk' = [disk EXCEPT ![n] = NoFile]
  /\ UNCHANGED casts

\* saveChain in a handler: nothing when the last save, anybody's, is less than
\* ChainSaveInterval ago, otherwise SaveToFile.
SaveChain(n, p) ==
  /\ handler[n][p].pc = "save"
  /\ \/ /\ Goto(n, p, Idle)
        /\ casts' = casts \cup handler[n][p].casting
        /\ UNCHANGED disk
     \/ Truncate(n, p, handler[n][p].casting)
  /\ UNCHANGED <<chain, pending, acked, link, peers, wire, mined, faults>>

\* Mutant of SaveTick: broadcastPeerList saves nothing, as if the handlers'
\* saves were enough.
SaveTickIdle(n) == n \in Filed /\ UNCHANGED vars

\* saveChain in broadcastPeerList, at a tick that does save: all that ever
\* writes the file of a node which mines and adopts nothing.
SaveTick(n) ==
  /\ n \in Filed
  /\ handler[n][n] = Idle
  /\ Truncate(n, n, {})
  /\ UNCHANGED <<chain, pending, acked, link, peers, wire, mined, faults>>

\* The rest of SaveToFile, under the same read lock.
WriteFile(n, p) ==
  /\ handler[n][p].pc = "write"
  /\ disk' = [disk EXCEPT ![n] = chain[n]]
  /\ casts' = casts \cup handler[n][p].casting
  /\ Goto(n, p, Idle)
  /\ UNCHANGED <<chain, pending, acked, link, peers, wire, mined, faults>>

\* requestChainFromPeers, one peer q of its snapshot: requestChain looks q up
\* again, and disconnects it when the request cannot be written.
AskPeer(n, p, q) ==
  /\ handler[n][p].pc = "ask" /\ q \in handler[n][p].todo
  /\ LET left == handler[n][p].todo \ {q}
     IN Goto(n, p, Asking(left))
  /\ \/ /\ q \in peers[n] /\ CanSend(n, q)
        /\ Put(n, q, [type |-> "chain_request"])
        /\ UNCHANGED <<link, peers, casts>>
     \/ /\ q \in peers[n] /\ SendFails(n, q)
        /\ disconnectPeer(n, q, casts)
     \/ /\ q \notin peers[n] \/ SendIsLost(n, q)
        /\ UNCHANGED <<link, peers, wire, casts>>
  /\ UNCHANGED <<chain, disk, pending, acked, mined, faults>>

\* sendChain copies the chain, then writes it.
ReceiveChainRequest(n, p) ==
  /\ Receives(n, p, "chain_request")
  /\ Pop(n, p)
  /\ Goto(n, p, [pc |-> "reply", copy |-> chain[n]])
  /\ UNCHANGED <<chain, disk, pending, acked, link, peers, casts, mined, faults>>

\* An error is only printed.
SendChain(n, p) ==
  /\ handler[n][p].pc = "reply"
  /\ \/ CanSend(n, p) /\ Put(n, p, [type |-> "chain_response", chain |-> handler[n][p].copy])
     \/ SendFails(n, p) /\ UNCHANGED wire
  /\ Goto(n, p, Idle)
  /\ UNCHANGED <<chain, disk, pending, acked, link, peers, casts, mined, faults>>

\* handleChainResponse: UpdateChain and saveChain; nobody else is told.
ReceiveChainResponse(n, p) ==
  /\ Receives(n, p, "chain_response")
  /\ Writable(n)
  /\ Pop(n, p)
  /\ LET new == Head(wire[p][n]).chain
     IN IF Accepts(chain[n], new)
        THEN /\ chain' = [chain EXCEPT ![n] = new]
             /\ SaveThen(n, p, {})
        ELSE Goto(n, p, Idle) /\ UNCHANGED <<chain, casts>>
  /\ UNCHANGED <<disk, pending, acked, link, peers, mined, faults>>

----------------------------------------------------------------------------
Post ==
  \E m \in Message : (\E n \in Poster : AddMessage(n, m)) \/ (\E n \in Node : BroadcastPost(n, m))

Cast == \E c \in casts : StartCast(c) \/ \E p \in c.todo : SendCast(c, p)

Handle(n, p) ==
  \/ ReceiveNewBlock(n, p) \/ CopyChain(n, p) \/ AppendBlock(n, p) \/ SaveChain(n, p) \/ WriteFile(n, p)
  \/ ReceiveChainRequest(n, p) \/ SendChain(n, p) \/ ReceiveChainResponse(n, p)
  \/ \E q \in Node : AskPeer(n, p, q)

Connect == \E n, p \in Node : Dial(n, p) \/ Probe(n, p)

Save == \E n \in Node : SaveTick(n)

Fault == (\E n, p \in Node : Break(n, p)) \/ (\E n \in Node : Restart(n))

Next == Post \/ Cast \/ (\E n, p \in Node : Handle(n, p)) \/ Save \/ Connect \/ Fault

Spec == Init /\ [][Next]_vars

\* The scheduler runs every goroutine that can run, strongly because a saver
\* makes a handler wait again and again, while RWMutex lets no new reader
\* pass a waiting writer.  Posting is the users' choice, losing a connection
\* nobody's.
FairSpec ==
  /\ Spec
  /\ \A n, p \in Node : SF_vars(Handle(n, p))
  /\ WF_vars(\E n \in Node, m \in Message : BroadcastPost(n, m))
  /\ WF_vars(Cast)
  /\ WF_vars(Connect)

\* The ticker of broadcastPeerList fires and what it has begun it ends; nothing
\* is asked of any other goroutine.  A tick saves nothing only when another
\* save began since the tick before it, and with adoptions the saves of
\* the handlers come to an end.
SaverSpec ==
  /\ Spec
  /\ \A n \in Filed : WF_vars(SaveTick(n)) /\ WF_vars(WriteFile(n, n))

----------------------------------------------------------------------------
InFlight ==
  [type : {"new_block"}, block : MinedBlock]
    \cup [type : {"chain_request"}]
    \cup [type : {"chain_response"}, chain : mined]

Broadcast ==
  [node : Node, by : Node \cup Message, block : MinedBlock, pc : {"start", "send"},
   peers : SUBSET Node, live : SUBSET Node, todo : SUBSET Node, failed : SUBSET Node,
   attempt : 0..MaxBroadcastRetries]

HandlerState ==
  {Idle}
    \cup [pc : {"copy"}, block : MinedBlock]
    \cup [pc : {"update"}, copy : mined, block : MinedBlock]
    \cup [pc : {"save", "write"}, casting : SUBSET Broadcast]
    \cup [pc : {"ask"}, todo : SUBSET Node]
    \cup [pc : {"reply"}, copy : mined]

\* Type invariant.  Its types are provenance: every chain that a node, a
\* file, a message or a goroutine's copy holds was mined as a whole, and every
\* block that travels or waits to be appended is the tip of such a chain.
TypeOK ==
  /\ chain \in [Node -> mined]
  /\ disk \in [Node -> mined \cup {NoFile}]
  /\ pending \in [Node -> SUBSET Message]
  /\ acked \subseteq Message
  /\ link \subseteq {{n, p} : n, p \in Node}
  /\ peers \in [Node -> SUBSET Node]
  /\ wire \in [Node -> [Node -> Seq(InFlight)]]
  /\ handler \in [Node -> [Node -> HandlerState]]
  /\ casts \subseteq Broadcast
  /\ faults \in Nat

\* A recipient's ReadMessages shows no message twice, although a block
\* reaches a node several times (re-broadcasts, retries, whole chains) and is
\* appended to a copy of the chain that may be stale.
NoDuplicateDelivery ==
  \A n \in Node : \A i, j \in 1..Len(chain[n]) :
    chain[n][i].Messages = chain[n][j].Messages /\ chain[n][i].Messages # <<>> => i = j

\* The chain c up to its block i.
History(c, i) == SubSeq(c, 1, i)

\* A block has the same history on every node that has it, though UpdateChain
\* and handleNewBlock compare no more than lengths and links: nodes with the
\* same last hash have the same chain, and forks part once and for ever.
SameBlockSameHistory ==
  \A n, p \in Node : \A i \in 1..Len(chain[n]), j \in 1..Len(chain[p]) :
    chain[n][i].Hash = chain[p][j].Hash => History(chain[n], i) = History(chain[p], j)

\* Nodes that show a message show the same messages before it, on forks too:
\* no block is appended to a chain it was not mined on.
MessageFixesHistory ==
  \A n, p \in Node : \A i \in 1..Len(chain[n]), j \in 1..Len(chain[p]) :
    chain[n][i].Messages = chain[p][j].Messages /\ chain[n][i].Messages # <<>> =>
      History(chain[n], i) = History(chain[p], j)

\* No restart brings a node forward: its file was written from its chain, and
\* the chain has grown since or was loaded from that file.
FileIsNotAhead == \A n \in Node : Len(disk[n]) <= Len(chain[n])

\* The file does not stay behind: AddMessage saves nothing, saveChain drops
\* saves, and two savers truncate the same file, but a message that stays in a
\* node's chain comes into its file.
MinedIsSaved ==
  \A n \in Filed, m \in Message :
    HasMessage(chain[n], m) ~> (HasMessage(disk[n], m) \/ ~ HasMessage(chain[n], m))

\* UpdateChain never looks at Index, but handleNewBlock decides by it
\* whether a block is old, next or ahead: a block's Index is its height.
IndexIsHeight ==
  \A n \in Node : \A i \in 1..Len(chain[n]) : chain[n][i].Index = i - 1

\* VerifyChain accepts the chain of every node, although it asks for more
\* than UpdateChain and LoadFromFile check and AddMessage checks nothing.
ChainsVerify == \A n \in Node : VerifyChain(chain[n])

\* While a process runs its chain is only replaced by a longer one, whoever
\* else changed it between GetLastBlock, GetChain and UpdateChain.
NeverShrinks ==
  [][\A n \in Node : chain'[n] # chain[n] => Len(chain'[n]) > Len(chain[n]) \/ Restart(n)]_vars

\* Connections and processes staying up, all nodes end up at the same height:
\* a block that arrives out of order or does not extend the receiver's chain
\* makes it fetch a longer one, and an appended block is passed on.
EventuallySameHeight == <>[](\A n, p \in Node : Len(chain[n]) = Len(chain[p]))

\* Every two nodes are joined by a connection from the start.
FullyLinked == \A n, p \in Node : n # p => Linked(InitialLinks, n, p)

\* Nothing is left to do until somebody posts or dials.
NothingUnderWay ==
  /\ casts = {}
  /\ \A n \in Node : pending[n] = {}
  /\ \A n, p \in Node : wire[n][p] = <<>> /\ handler[n][p] = Idle

\* A full mesh that has lost no connection and has nothing under way any more
\* is at one height: no order of blocks, chain requests and answers, no fork
\* and no stale copy lets the last word on a chain get lost, although an
\* adopted chain is passed on to nobody and a rejected block is just dropped.
QuietIsLevel ==
  FullyLinked /\ Keyed = {} /\ faults = 0 /\ NothingUnderWay =>
    \A n, p \in Node : Len(chain[n]) = Len(chain[p])

\* A node with a NetworkKey has nothing on any connection, and no other node's
\* handler has anything from it in hand, whoever dialled whom.
KeyedAreMute ==
  \A n \in Node \cap Keyed, p \in Node :
    wire[n][p] = <<>> /\ (p # n => handler[p][n] = Idle)

\* Where all have one, as main makes it, no message gets anywhere: a node whose
\* users post nothing has an empty chain, whatever is acknowledged elsewhere.
KeyedAreAlone ==
  Node \subseteq Keyed => \A n \in Node \ Poster : chain[n] = NewBlockchain

Tree == INSTANCE BlockTree WITH chain <- chain, disk <- disk, mined <- mined

\* The protocol implements BlockTree: no interleaving of handlers, requests,
\* saves, lost connections and restarts puts a chain anywhere that was not
\* mined as such.
ImplementsBlockTree == Tree!Spec

----------------------------------------------------------------------------
(* What the documentation and the tests say, and some run refutes.         *)

\* A message that was acknowledged reaches every node, the "distributed
\* blockchain for message storage" of the README.
AckedReachesEveryone ==
  \A m \in Message : (m \in acked) ~> \A n \in Node : HasMessage(chain[n], m)

\* A further round of a broadcast goes, as its log line says, to the peers
\* that have failed so far.
RetriesFailedPeers ==
  [][\A c \in casts, d \in casts' :
       /\ <<c.node, c.by, c.block>> = <<d.node, d.by, d.block>>
       /\ d.attempt = c.attempt + 1
       => c.failed \subseteq d.todo]_vars
============================================================================
