-------------------------- MODULE ChainSyncProofs --------------------------
(***************************************************************************)
(* ChainSync keeps its types, which say where every chain comes from, and  *)
(* implements BlockTree, for any number of nodes, messages, faults and     *)
(* retries, any overlay and any digest; and without faults a full mesh     *)
(* that has come to rest is at one height.                                 *)
(***************************************************************************)
EXTENDS ChainSync, ChainProofs

T == INSTANCE BlockTreeProofs

\* BlockTree's copies of the operators of Chain are the operators of Chain.
LEMMA SameOperators ==
  /\ \A c : T!IsChain(c) <=> IsChain(c)
  /\ \A c, m, k : T!Candidate(c, m, k) = Candidate(c, m, k)
  /\ \A c, m, k : T!SimpleMineBlock(c, m, k) <=> SimpleMineBlock(c, m, k)
  /\ \A f : T!LoadFromFile(f) = LoadFromFile(f)
  /\ \A m : T!Fresh(m) <=> Fresh(m)
  /\ T!NewBlockchain = NewBlockchain
  /\ T!NoFile = NoFile
<1>1. \A c : T!IsChain(c) <=> IsChain(c)
  BY DEF T!IsChain, IsChain, T!Blocks, Blocks, T!IsBlock, IsBlock, T!ValidChain, ValidChain,
         T!BlockFits, BlockFits, T!CalculateHash, CalculateHash, T!NoHash, NoHash,
         T!meetsDifficulty, meetsDifficulty
<1>2. \A c, m, k : T!Candidate(c, m, k) = Candidate(c, m, k)
  BY DEF T!Candidate, Candidate, T!WithHash, WithHash, T!GetLastBlock, GetLastBlock,
         T!CalculateHash, CalculateHash, T!NoHash, NoHash
<1>3. \A c, m, k : T!SimpleMineBlock(c, m, k) <=> SimpleMineBlock(c, m, k)
  BY <1>2 DEF T!SimpleMineBlock, SimpleMineBlock, T!meetsDifficulty, meetsDifficulty
<1>4. T!NewBlockchain = NewBlockchain
  BY DEF T!NewBlockchain, NewBlockchain, T!Genesis, Genesis, T!WithHash, WithHash,
         T!CalculateHash, CalculateHash, T!NoHash, NoHash
<1>5. \A f : T!LoadFromFile(f) = LoadFromFile(f)
  BY <1>4 DEF T!LoadFromFile, LoadFromFile, T!Accepts, Accepts, T!ValidChain, ValidChain,
         T!BlockFits, BlockFits, T!CalculateHash, CalculateHash, T!NoHash, NoHash,
         T!meetsDifficulty, meetsDifficulty
<1>6. \A m : T!Fresh(m) <=> Fresh(m)
  BY DEF T!Fresh, Fresh, T!HasMessage, HasMessage
<1>7. T!NoFile = NoFile
  BY DEF T!NoFile, NoFile
<1> QED BY <1>1, <1>2, <1>3, <1>4, <1>5, <1>6, <1>7

----------------------------------------------------------------------------
(* Types of the helpers.                                                   *)

\* What TypeOK says when the mined chains stay as they are.
LEMMA SameTypes ==
  ASSUME mined' = mined
  PROVE  /\ MinedBlock' = MinedBlock /\ InFlight' = InFlight
         /\ Broadcast' = Broadcast /\ HandlerState' = HandlerState
BY DEF MinedBlock, InFlight, Broadcast, HandlerState

\* A goroutine's locals, by the point it has reached.
LEMMA HandlerFields ==
  ASSUME NEW h \in HandlerState
  PROVE  /\ h.pc = "copy" => h.block \in MinedBlock
         /\ h.pc = "update" => h.copy \in mined /\ h.block \in MinedBlock
         /\ h.pc = "save" => h.casting \subseteq Broadcast
                             /\ [pc |-> "write", casting |-> h.casting] \in HandlerState
         /\ h.pc = "write" => h.casting \subseteq Broadcast
         /\ h.pc = "ask" => h.todo \subseteq Node
         /\ h.pc = "reply" => h.copy \in mined
<1> DEFINE D == MinedBlock
<1>1. CASE h = Idle
  BY <1>1 DEF Idle
<1>2. CASE h \in [pc : {"copy"}, block : D]
  BY <1>2
<1>3. CASE h \in [pc : {"update"}, copy : mined, block : D]
  BY <1>3
<1>4. CASE h \in [pc : {"save", "write"}, casting : SUBSET Broadcast]
  <2>1. h.casting \in SUBSET Broadcast
    BY <1>4
  <2>2. [pc |-> "write", casting |-> h.casting] \in HandlerState
    BY <2>1 DEF HandlerState
  <2> QED BY <1>4, <2>1, <2>2
<1>5. CASE h \in [pc : {"ask"}, todo : SUBSET Node]
  BY <1>5
<1>6. CASE h \in [pc : {"reply"}, copy : mined]
  BY <1>6
<1> QED BY <1>1, <1>2, <1>3, <1>4, <1>5, <1>6 DEF HandlerState

LEMMA HandlerStates ==
  /\ Idle \in HandlerState
  /\ \A b \in MinedBlock : [pc |-> "copy", block |-> b] \in HandlerState
  /\ \A c \in mined, b \in MinedBlock :
       [pc |-> "update", copy |-> c, block |-> b] \in HandlerState
  /\ \A cs \in SUBSET Broadcast : /\ [pc |-> "save", casting |-> cs] \in HandlerState
                                   /\ [pc |-> "write", casting |-> cs] \in HandlerState
  /\ \A ps \in SUBSET Node : Asking(ps) \in HandlerState
  /\ \A c \in mined : [pc |-> "reply", copy |-> c] \in HandlerState
BY DEF HandlerState, Asking

LEMMA Messages ==
  /\ \A b \in MinedBlock : [type |-> "new_block", block |-> b] \in InFlight
  /\ [type |-> "chain_request"] \in InFlight
  /\ \A c \in mined : [type |-> "chain_response", chain |-> c] \in InFlight
  /\ \A x \in InFlight : /\ x.type = "new_block" => x.block \in MinedBlock
                         /\ x.type = "chain_response" => x.chain \in mined
BY DEF InFlight

LEMMA NewCastType ==
  ASSUME NEW n \in Node, NEW by \in Node \cup Message, NEW b \in MinedBlock
  PROVE  NewCast(n, by, b) \in Broadcast
BY RetriesAssumption DEF NewCast, Broadcast

LEMMA EndRoundType ==
  ASSUME NEW c \in Broadcast
  PROVE  EndRound(c) \subseteq Broadcast
<1>1. ASSUME c.attempt # MaxBroadcastRetries
      PROVE  [c EXCEPT !.attempt = @ + 1, !.todo = c.peers \ c.failed] \in Broadcast
  <2>1. c.attempt \in 0..MaxBroadcastRetries
    BY DEF Broadcast
  <2>2. c.attempt + 1 \in 0..MaxBroadcastRetries
    BY <1>1, <2>1, RetriesAssumption
  <2>3. (c.peers \ c.failed) \in SUBSET Node
    BY DEF Broadcast
  <2> QED BY <2>2, <2>3 DEF Broadcast
<1> QED BY <1>1 DEF EndRound

LEMMA WithoutLinkType ==
  ASSUME NEW cs \in SUBSET Broadcast, NEW n \in Node, NEW p \in Node
  PROVE  WithoutLink(cs, n, p) \subseteq Broadcast
<1> SUFFICES ASSUME NEW c \in cs, NEW lv \in SUBSET Node
             PROVE  [c EXCEPT !.live = lv] \in Broadcast
  <2>1. \A c \in cs : c.live \ {p} \in SUBSET Node /\ c.live \ {n} \in SUBSET Node
                      /\ c.live \in SUBSET Node
    BY DEF Broadcast
  <2> QED BY <2>1 DEF WithoutLink
<1> QED BY DEF Broadcast

\* One queue changes, or two, and the others stay.
LEMMA WireType ==
  ASSUME NEW w \in [Node -> [Node -> Seq(InFlight)]],
         NEW n \in Node, NEW p \in Node, NEW q \in Seq(InFlight)
  PROVE  [w EXCEPT ![n][p] = q] \in [Node -> [Node -> Seq(InFlight)]]
OBVIOUS

LEMMA PutType ==
  ASSUME TypeOK, NEW n \in Node, NEW p \in Node, NEW x \in InFlight, Put(n, p, x)
  PROVE  wire' \in [Node -> [Node -> Seq(InFlight)]]
<1>1. Append(wire[n][p], x) \in Seq(InFlight)
  BY AppendProperties DEF TypeOK
<1>2. wire' = [wire EXCEPT ![n][p] = Append(wire[n][p], x)]
  BY DEF Put, TypeOK
<1> QED BY <1>1, <1>2, WireType DEF TypeOK

LEMMA PopType ==
  ASSUME TypeOK, NEW n \in Node, NEW p \in Node, wire[p][n] # <<>>, Pop(n, p)
  PROVE  /\ wire' \in [Node -> [Node -> Seq(InFlight)]]
         /\ Head(wire[p][n]) \in InFlight
<1>1. Tail(wire[p][n]) \in Seq(InFlight) /\ Head(wire[p][n]) \in InFlight
  BY HeadTailProperties DEF TypeOK
<1>2. wire' = [wire EXCEPT ![p][n] = Tail(wire[p][n])]
  BY DEF Pop, TypeOK
<1> QED BY <1>1, <1>2, WireType DEF TypeOK

LEMMA GotoType ==
  ASSUME TypeOK, NEW n \in Node, NEW p \in Node, NEW h \in HandlerState, Goto(n, p, h)
  PROVE  handler' \in [Node -> [Node -> HandlerState]]
BY DEF Goto, TypeOK

LEMMA DisconnectType ==
  ASSUME TypeOK, NEW n \in Node, NEW p \in Node, NEW cs \in SUBSET Broadcast,
         disconnectPeer(n, p, cs)
  PROVE  /\ peers' \in [Node -> SUBSET Node]
         /\ link' \subseteq {{i, j} : i, j \in Node}
         /\ wire' \in [Node -> [Node -> Seq(InFlight)]]
         /\ casts' \subseteq Broadcast
<1>1. CASE p \in peers[n]
  <2>0. /\ peers' = [peers EXCEPT ![n] = @ \ {p}]
        /\ link' = link \ {{n, p}}
        /\ casts' = WithoutLink(cs, n, p)
        /\ \E tail \in {<<>>, wire[n][p]} :
             wire' = [wire EXCEPT ![p][n] = <<>>, ![n][p] = tail]
    BY <1>1 DEF disconnectPeer, Close
  <2>1. peers' \in [Node -> SUBSET Node] /\ link' \subseteq {{i, j} : i, j \in Node}
    <3>1. peers' = [peers EXCEPT ![n] = peers[n] \ {p}] /\ peers[n] \ {p} \in SUBSET Node
      BY <2>0 DEF TypeOK
    <3>2. link' \subseteq link
      BY <2>0
    <3> QED BY <3>1, <3>2 DEF TypeOK
  <2>2. casts' \subseteq Broadcast
    BY <2>0, WithoutLinkType
  <2>3. PICK tail \in {<<>>, wire[n][p]} :
          wire' = [wire EXCEPT ![p][n] = <<>>, ![n][p] = tail]
    BY <2>0
  <2>4. <<>> \in Seq(InFlight)
    BY EmptySeq
  <2>5. wire \in [Node -> [Node -> Seq(InFlight)]] /\ tail \in Seq(InFlight)
    <3>1. wire \in [Node -> [Node -> Seq(InFlight)]]
      BY DEF TypeOK
    <3>2. wire[n][p] \in Seq(InFlight)
      BY <3>1
    <3> QED BY <2>3, <2>4, <3>1, <3>2
  <2>6. [wire EXCEPT ![p][n] = <<>>] \in [Node -> [Node -> Seq(InFlight)]]
    BY <2>4, <2>5, WireType
  <2>7. wire' \in [Node -> [Node -> Seq(InFlight)]]
    BY <2>3, <2>5, <2>6, WireType
  <2> QED BY <2>1, <2>2, <2>7
<1>2. CASE p \notin peers[n]
  BY <1>2 DEF disconnectPeer, TypeOK
<1> QED BY <1>1, <1>2

----------------------------------------------------------------------------
(* The steps that touch a chain, a file or the mined chains.               *)

IInv == TypeOK /\ T!Inv

LEMMA MinedChains ==
  ASSUME IInv
  PROVE  NewBlockchain \in mined /\ \A c \in mined : IsChain(c)
BY SameOperators DEF IInv, T!Inv, T!WellFormed

\* Provenance: a chain that UpdateChain accepts from handleNewBlock was
\* mined as a whole by whoever mined its last block.
LEMMA AcceptedWasMined ==
  ASSUME IInv, NEW c \in mined, NEW b \in MinedBlock, NEW cur,
         Accepts(cur, Append(c, b))
  PROVE  Append(c, b) \in mined
<1>1. PICK d \in mined : b = GetLastBlock(d)
  BY DEF MinedBlock
<1>2. IsChain(c) /\ IsChain(d)
  BY MinedChains
<1>3. IsBlock(b)
  BY <1>1, <1>2, ChainLength DEF IsChain, GetLastBlock
<1>4. IsChain(Append(c, b)) /\ GetLastBlock(Append(c, b)) = b
  BY <1>2, <1>3, ValidAppendIsChain, AppendShape DEF Accepts
<1>5. Append(c, b) = d
  BY <1>1, <1>2, <1>4, TipCommitsToChain
<1> QED BY <1>5

\* Every step is a step of BlockTree or leaves its variables alone.
LEMMA StepsImplementTree ==
  ASSUME IInv, [Next]_vars
  PROVE  [T!Next]_T!vars
<1> USE DEF IInv
<1>1. ASSUME UNCHANGED <<chain, disk, mined>> PROVE [T!Next]_T!vars
  BY <1>1 DEF T!vars
<1>2. ASSUME NEW n \in Node, NEW m \in Message, AddMessage(n, m) PROVE T!Next
  <2>1. T!Mine(n, m)
    BY <1>2, SameOperators DEF AddMessage, T!Mine
  <2> QED BY <2>1 DEF T!Next
<1>3. ASSUME NEW n \in Node, NEW c \in mined, Len(c) > Len(chain[n]),
             chain' = [chain EXCEPT ![n] = c], UNCHANGED <<disk, mined>>
      PROVE  T!Next
  BY <1>3 DEF T!Adopt, T!Next
<1>4. ASSUME NEW n \in Node, NEW p \in Node, AppendBlock(n, p) PROVE [T!Next]_T!vars
  <2> DEFINE h == handler[n][p]
             new == Append(h.copy, h.block)
  <2>1. CASE Accepts(chain[n], new)
    <3>1. h \in HandlerState /\ h.pc = "update"
      BY <1>4 DEF AppendBlock, TypeOK
    <3>2. h.copy \in mined /\ h.block \in MinedBlock
      BY <3>1, HandlerFields
    <3>3. new \in mined
      BY <2>1, <3>2, AcceptedWasMined
    <3>4. Len(new) > Len(chain[n])
      BY <2>1 DEF Accepts
    <3>5. chain' = [chain EXCEPT ![n] = new] /\ UNCHANGED <<disk, mined>>
      BY <1>4, <2>1 DEF AppendBlock
    <3> QED BY <1>3, <3>3, <3>4, <3>5
  <2>2. CASE ~ Accepts(chain[n], new)
    BY <1>1, <1>4, <2>2 DEF AppendBlock
  <2> QED BY <2>1, <2>2
<1>5. ASSUME NEW n \in Node, NEW p \in Node, ReceiveChainResponse(n, p) PROVE [T!Next]_T!vars
  <2> DEFINE new == Head(wire[p][n]).chain
  <2>1. CASE Accepts(chain[n], new)
    <3>1. Head(wire[p][n]) \in InFlight /\ Head(wire[p][n]).type = "chain_response"
      BY <1>5, PopType DEF ReceiveChainResponse, Receives
    <3>2. new \in mined
      BY <3>1, Messages
    <3>3. Len(new) > Len(chain[n])
      BY <2>1 DEF Accepts
    <3>4. chain' = [chain EXCEPT ![n] = new] /\ UNCHANGED <<disk, mined>>
      BY <1>5, <2>1 DEF ReceiveChainResponse
    <3> QED BY <1>3, <3>2, <3>3, <3>4
  <2>2. CASE ~ Accepts(chain[n], new)
    BY <1>1, <1>5, <2>2 DEF ReceiveChainResponse
  <2> QED BY <2>1, <2>2
<1>6. ASSUME NEW n \in Node, NEW p \in Node, SaveChain(n, p) PROVE [T!Next]_T!vars
  <2>1. UNCHANGED <<chain, mined>> /\ (disk' = disk \/ disk' = [disk EXCEPT ![n] = NoFile])
    BY <1>6 DEF SaveChain, Truncate
  <2>2. CASE disk' = [disk EXCEPT ![n] = NoFile]
    <3>1. T!Truncate(n)
      BY <2>1, <2>2, SameOperators DEF T!Truncate
    <3> QED BY <3>1 DEF T!Next
  <2> QED BY <1>1, <2>1, <2>2
<1>7. ASSUME NEW n \in Node, NEW p \in Node, WriteFile(n, p) PROVE T!Next
  <2>1. T!Save(n)
    BY <1>7 DEF WriteFile, T!Save
  <2> QED BY <2>1 DEF T!Next
<1>8. ASSUME NEW n \in Node, Restart(n) PROVE T!Next
  <2>1. T!Restart(n)
    BY <1>8, SameOperators DEF Restart, T!Restart
  <2> QED BY <2>1 DEF T!Next
<1>9. ASSUME NEW n \in Node, NEW p \in Node, Handle(n, p) PROVE [T!Next]_T!vars
  BY <1>1, <1>4, <1>5, <1>6, <1>7, <1>9
  DEF Handle, ReceiveNewBlock, CopyChain, ReceiveChainRequest, SendChain, AskPeer
<1>10. ASSUME Post PROVE [T!Next]_T!vars
  BY <1>1, <1>2, <1>10, PosterAssumption DEF Post, BroadcastPost
<1>11. ASSUME Cast PROVE [T!Next]_T!vars
  BY <1>1, <1>11 DEF Cast, StartCast, SendCast
<1>12. ASSUME Connect PROVE [T!Next]_T!vars
  BY <1>1, <1>12 DEF Connect, Dial, Probe
<1>13. ASSUME Fault PROVE [T!Next]_T!vars
  BY <1>1, <1>8, <1>13 DEF Fault, Break
<1>14. ASSUME UNCHANGED vars PROVE [T!Next]_T!vars
  BY <1>1, <1>14 DEF vars
<1>15. ASSUME NEW n \in Node, SaveTick(n) PROVE T!Next
  <2>1. T!Truncate(n)
    BY <1>15, SameOperators DEF SaveTick, Truncate, T!Truncate
  <2> QED BY <2>1 DEF T!Next
<1> QED BY <1>9, <1>10, <1>11, <1>12, <1>13, <1>14, <1>15 DEF Next, Save

----------------------------------------------------------------------------
(* The rest of the type invariant.                                         *)

LocalTypes ==
  /\ pending \in [Node -> SUBSET Message]
  /\ acked \subseteq Message
  /\ link \subseteq {{n, p} : n, p \in Node}
  /\ peers \in [Node -> SUBSET Node]
  /\ wire \in [Node -> [Node -> Seq(InFlight)]]
  /\ handler \in [Node -> [Node -> HandlerState]]
  /\ casts \subseteq Broadcast
  /\ faults \in Nat

\* LocalTypes', for a step that mines nothing, from what it does to each
\* variable.
LEMMA LocalTypesSame ==
  ASSUME mined' = mined,
         pending' \in [Node -> SUBSET Message], acked' \subseteq Message,
         link' \subseteq {{n, p} : n, p \in Node}, peers' \in [Node -> SUBSET Node],
         wire' \in [Node -> [Node -> Seq(InFlight)]],
         handler' \in [Node -> [Node -> HandlerState]],
         casts' \subseteq Broadcast, faults' \in Nat
  PROVE  LocalTypes'
BY SameTypes DEF LocalTypes

\* More mined chains, more values that messages and goroutines may hold.
LEMMA TypesGrow ==
  ASSUME mined \subseteq mined'
  PROVE  /\ MinedBlock \subseteq MinedBlock' /\ InFlight \subseteq InFlight'
         /\ Broadcast \subseteq Broadcast' /\ HandlerState \subseteq HandlerState'
<1>1. MinedBlock \subseteq MinedBlock'
  BY DEF MinedBlock
<1>2. InFlight \subseteq InFlight'
  BY <1>1 DEF InFlight
<1>3. Broadcast \subseteq Broadcast'
  BY <1>1 DEF Broadcast
<1>4. HandlerState \subseteq HandlerState'
  <2> DEFINE B == MinedBlock
             Bn == MinedBlock'
  <2> HIDE DEF B, Bn
  <2>1. B \subseteq Bn
    BY <1>1 DEF B, Bn
  <2>2. [pc : {"copy"}, block : B] \subseteq [pc : {"copy"}, block : Bn]
    BY <2>1
  <2>3. [pc : {"update"}, copy : mined, block : B]
          \subseteq [pc : {"update"}, copy : mined', block : Bn]
    BY <2>1
  <2>4. [pc : {"save", "write"}, casting : SUBSET Broadcast]
          \subseteq [pc : {"save", "write"}, casting : SUBSET Broadcast']
    BY <1>3
  <2>5. [pc : {"reply"}, copy : mined] \subseteq [pc : {"reply"}, copy : mined']
    OBVIOUS
  <2> QED BY <2>2, <2>3, <2>4, <2>5 DEF HandlerState, B, Bn
<1> QED BY <1>1, <1>2, <1>3, <1>4

LEMMA LocalTypesGrow ==
  ASSUME LocalTypes, mined \subseteq mined',
         pending' \in [Node -> SUBSET Message],
         UNCHANGED <<acked, link, peers, wire, handler, casts, faults>>
  PROVE  LocalTypes'
<1>1. InFlight \subseteq InFlight' /\ Broadcast \subseteq Broadcast'
      /\ HandlerState \subseteq HandlerState'
  BY TypesGrow
<1>2. wire' \in [Node -> [Node -> Seq(InFlight')]]
  <2>1. \A n, p \in Node : wire[n][p] \in Seq(InFlight')
    BY <1>1, SeqMonotonic DEF LocalTypes
  <2>2. wire \in [Node -> [Node -> Seq(InFlight')]]
    BY <2>1 DEF LocalTypes
  <2> QED BY <2>2
<1>3. handler' \in [Node -> [Node -> HandlerState']]
  BY <1>1 DEF LocalTypes
<1>4. casts' \subseteq Broadcast'
  BY <1>1 DEF LocalTypes
<1> QED BY <1>2, <1>3, <1>4 DEF LocalTypes

\* Every step of a handler.
LEMMA HandleTypes ==
  ASSUME IInv, NEW n \in Node, NEW p \in Node, Handle(n, p)
  PROVE  LocalTypes'
<1> USE DEF IInv
<1> DEFINE h == handler[n][p]
<1>0. /\ h \in HandlerState /\ chain[n] \in mined
      /\ pending \in [Node -> SUBSET Message] /\ acked \subseteq Message
      /\ link \subseteq {{i, j} : i, j \in Node} /\ peers \in [Node -> SUBSET Node]
      /\ wire \in [Node -> [Node -> Seq(InFlight)]]
      /\ handler \in [Node -> [Node -> HandlerState]]
      /\ casts \subseteq Broadcast /\ faults \in Nat
  BY DEF TypeOK
<1>a. ASSUME NEW casting \in SUBSET Broadcast, SaveThen(n, p, casting)
      PROVE  handler' \in [Node -> [Node -> HandlerState]] /\ casts' \subseteq Broadcast
  <2>1. CASE n \in Filed
    <3>1. Goto(n, p, [pc |-> "save", casting |-> casting]) /\ casts' = casts
      BY <1>a, <2>1 DEF SaveThen
    <3>2. [pc |-> "save", casting |-> casting] \in HandlerState
      BY HandlerStates
    <3>3. handler' \in [Node -> [Node -> HandlerState]]
      BY <3>1, <3>2, GotoType
    <3> QED BY <1>0, <3>1, <3>3
  <2>2. CASE n \notin Filed
    BY <1>0, <1>a, <2>2, HandlerStates, GotoType DEF SaveThen
  <2> QED BY <2>1, <2>2
<1> HIDE DEF h
<1>b. /\ h.pc = "copy" => h.block \in MinedBlock
      /\ h.pc = "update" => h.copy \in mined /\ h.block \in MinedBlock
      /\ h.pc = "save" => h.casting \subseteq Broadcast
                          /\ [pc |-> "write", casting |-> h.casting] \in HandlerState
      /\ h.pc = "write" => h.casting \subseteq Broadcast
      /\ h.pc = "ask" => h.todo \subseteq Node
      /\ h.pc = "reply" => h.copy \in mined
  BY <1>0, HandlerFields
<1> USE DEF h
<1>c. casts \in SUBSET Broadcast /\ TypeOK
  BY <1>0
<1>1. CASE ReceiveNewBlock(n, p)
  <2>1. wire' \in [Node -> [Node -> Seq(InFlight)]] /\ Head(wire[p][n]) \in InFlight
        /\ Head(wire[p][n]).type = "new_block"
    BY <1>1, PopType DEF ReceiveNewBlock, Receives
  <2>2. Head(wire[p][n]).block \in MinedBlock
    BY <2>1, Messages
  <2>3. PICK s \in HandlerState : Goto(n, p, s)
    <3>1. Idle \in HandlerState /\ Asking(peers[n]) \in HandlerState
          /\ [pc |-> "copy", block |-> Head(wire[p][n]).block] \in HandlerState
      BY <1>0, <2>2, HandlerStates
    <3> QED BY <1>1, <3>1 DEF ReceiveNewBlock
  <2>4. handler' \in [Node -> [Node -> HandlerState]]
    BY <2>3, GotoType
  <2> QED BY <1>0, <1>1, <2>1, <2>4, LocalTypesSame DEF ReceiveNewBlock
<1>2. CASE CopyChain(n, p)
  <2>1. h.pc = "copy" /\ Goto(n, p, [pc |-> "update", copy |-> chain[n], block |-> h.block])
    BY <1>2 DEF CopyChain
  <2>2. [pc |-> "update", copy |-> chain[n], block |-> h.block] \in HandlerState
    BY <1>0, <1>b, <2>1, HandlerStates
  <2>3. handler' \in [Node -> [Node -> HandlerState]]
    BY <2>1, <2>2, GotoType
  <2> QED BY <1>0, <1>2, <2>3, LocalTypesSame DEF CopyChain
<1>3. CASE AppendBlock(n, p)
  <2>1. h.block \in MinedBlock
    BY <1>3, <1>b DEF AppendBlock
  <2>2. {NewCast(n, p, h.block)} \in SUBSET Broadcast
    BY <2>1, NewCastType
  <2>3. handler' \in [Node -> [Node -> HandlerState]] /\ casts' \subseteq Broadcast
    <3>1. CASE Accepts(chain[n], Append(h.copy, h.block))
      BY <1>3, <1>a, <2>2, <3>1 DEF AppendBlock
    <3>2. CASE ~ Accepts(chain[n], Append(h.copy, h.block))
      BY <1>0, <1>3, <3>2, HandlerStates, GotoType DEF AppendBlock
    <3> QED BY <3>1, <3>2
  <2> QED BY <1>0, <1>3, <2>3, LocalTypesSame DEF AppendBlock
<1>4. CASE SaveChain(n, p)
  <2>1. h.casting \subseteq Broadcast /\ [pc |-> "write", casting |-> h.casting] \in HandlerState
    BY <1>4, <1>b DEF SaveChain, Truncate
  <2>2. handler' \in [Node -> [Node -> HandlerState]]
    BY <1>4, <2>1, HandlerStates, GotoType DEF SaveChain, Truncate
  <2>3. casts' \subseteq Broadcast
    BY <1>0, <1>4, <2>1 DEF SaveChain, Truncate
  <2> QED BY <1>0, <1>4, <2>2, <2>3, LocalTypesSame DEF SaveChain, Truncate
<1>5. CASE WriteFile(n, p)
  <2>1. h.casting \subseteq Broadcast
    BY <1>5, <1>b DEF WriteFile
  <2>2. handler' \in [Node -> [Node -> HandlerState]]
    BY <1>5, HandlerStates, GotoType DEF WriteFile
  <2>3. casts' \subseteq Broadcast
    BY <1>0, <1>5, <2>1 DEF WriteFile
  <2> QED BY <1>0, <1>5, <2>2, <2>3, LocalTypesSame DEF WriteFile
<1>6. CASE ReceiveChainRequest(n, p)
  <2>1. wire' \in [Node -> [Node -> Seq(InFlight)]]
    BY <1>6, PopType DEF ReceiveChainRequest, Receives
  <2>2. handler' \in [Node -> [Node -> HandlerState]]
    BY <1>0, <1>6, HandlerStates, GotoType DEF ReceiveChainRequest
  <2> QED BY <1>0, <1>6, <2>1, <2>2, LocalTypesSame DEF ReceiveChainRequest
<1>7. CASE SendChain(n, p)
  <2>0. h.copy \in mined
    BY <1>7, <1>b DEF SendChain
  <2>1. [type |-> "chain_response", chain |-> h.copy] \in InFlight
    BY <2>0, Messages
  <2>2. wire' \in [Node -> [Node -> Seq(InFlight)]]
    BY <1>0, <1>7, <2>1, PutType DEF SendChain
  <2>3. handler' \in [Node -> [Node -> HandlerState]]
    BY <1>7, HandlerStates, GotoType DEF SendChain
  <2>4. UNCHANGED <<pending, acked, link, peers, casts, mined, faults>>
    BY <1>7 DEF SendChain
  <2> QED BY <1>0, <2>2, <2>3, <2>4, LocalTypesSame
<1>8. CASE ReceiveChainResponse(n, p)
  <2>1. wire' \in [Node -> [Node -> Seq(InFlight)]]
    BY <1>8, PopType DEF ReceiveChainResponse, Receives
  <2>2. handler' \in [Node -> [Node -> HandlerState]] /\ casts' \subseteq Broadcast
    <3>1. CASE Accepts(chain[n], Head(wire[p][n]).chain)
      BY <1>8, <1>a, <3>1 DEF ReceiveChainResponse
    <3>2. CASE ~ Accepts(chain[n], Head(wire[p][n]).chain)
      BY <1>0, <1>8, <3>2, HandlerStates, GotoType DEF ReceiveChainResponse
    <3> QED BY <3>1, <3>2
  <2> QED BY <1>0, <1>8, <2>1, <2>2, LocalTypesSame DEF ReceiveChainResponse
<1>9. CASE \E q \in Node : AskPeer(n, p, q)
  <2>1. PICK q \in Node : AskPeer(n, p, q)
    BY <1>9
  <2>2. Asking(h.todo \ {q}) \in HandlerState
    <3>1. h.todo \ {q} \in SUBSET Node
      BY <1>b, <2>1 DEF AskPeer
    <3> QED BY <3>1, HandlerStates
  <2>3. handler' \in [Node -> [Node -> HandlerState]]
    BY <2>1, <2>2, GotoType DEF AskPeer
  <2>4. /\ peers' \in [Node -> SUBSET Node]
        /\ link' \subseteq {{i, j} : i, j \in Node}
        /\ wire' \in [Node -> [Node -> Seq(InFlight)]]
        /\ casts' \subseteq Broadcast
    <3>1. CASE Put(n, q, [type |-> "chain_request"]) /\ UNCHANGED <<link, peers, casts>>
      BY <1>0, <3>1, Messages, PutType
    <3>2. CASE disconnectPeer(n, q, casts)
      BY <1>c, <3>2, DisconnectType
    <3>3. CASE UNCHANGED <<link, peers, wire, casts>>
      BY <1>0, <3>3
    <3> QED BY <2>1, <3>1, <3>2, <3>3 DEF AskPeer
  <2>5. UNCHANGED <<pending, acked, mined, faults>>
    BY <2>1 DEF AskPeer
  <2> QED BY <1>0, <2>3, <2>4, <2>5, LocalTypesSame
<1> QED BY <1>1, <1>2, <1>3, <1>4, <1>5, <1>6, <1>7, <1>8, <1>9 DEF Handle

\* The periodic saver.
LEMMA SaveTypes ==
  ASSUME IInv, NEW n \in Node, SaveTick(n)
  PROVE  LocalTypes'
<1>1. [pc |-> "write", casting |-> {}] \in HandlerState
  BY HandlerStates
<1>2. Goto(n, n, [pc |-> "write", casting |-> {}])
      /\ UNCHANGED <<pending, acked, link, peers, wire, casts, mined, faults>>
  BY DEF SaveTick, Truncate
<1>3. handler' \in [Node -> [Node -> HandlerState]]
  BY <1>1, <1>2, GotoType DEF IInv
<1> QED BY <1>2, <1>3, LocalTypesSame DEF IInv, TypeOK

\* Posting a message.
LEMMA PostTypes ==
  ASSUME IInv, Post
  PROVE  LocalTypes'
<1> USE DEF IInv
<1>1. ASSUME NEW n \in Node, NEW m \in Message, AddMessage(n, m) PROVE LocalTypes'
  <2>1. mined \subseteq mined' /\ UNCHANGED <<acked, link, peers, wire, handler, casts, faults>>
    BY <1>1 DEF AddMessage
  <2>2. pending' \in [Node -> SUBSET Message]
    BY <1>1 DEF AddMessage, TypeOK
  <2>3. LocalTypes
    BY DEF TypeOK, LocalTypes
  <2> QED BY <2>1, <2>2, <2>3, LocalTypesGrow
<1>2. ASSUME NEW n \in Node, NEW m \in Message, BroadcastPost(n, m) PROVE LocalTypes'
  <2>1. GetLastBlock(chain[n]) \in MinedBlock
    BY DEF TypeOK, MinedBlock
  <2>2. NewCast(n, m, GetLastBlock(chain[n])) \in Broadcast
    BY <2>1, NewCastType
  <2>3. pending' \in [Node -> SUBSET Message] /\ acked' \subseteq Message
    BY <1>2 DEF BroadcastPost, TypeOK
  <2>4. casts' \subseteq Broadcast /\ UNCHANGED <<link, peers, wire, handler, mined, faults>>
    BY <1>2, <2>2 DEF BroadcastPost, TypeOK
  <2> QED BY <2>3, <2>4, LocalTypesSame DEF TypeOK
<1> QED BY <1>1, <1>2, PosterAssumption DEF Post

\* A step of a broadcast.
LEMMA CastTypes ==
  ASSUME IInv, Cast
  PROVE  LocalTypes'
<1> USE DEF IInv
<1>1. casts \in SUBSET Broadcast
  BY DEF TypeOK
<1>2. ASSUME NEW c \in casts, StartCast(c) PROVE LocalTypes'
  <2> DEFINE d == [c EXCEPT !.pc = "send", !.peers = peers[c.node], !.todo = peers[c.node],
                            !.live = {p \in peers[c.node] : {c.node, p} \in link}]
  <2>1. c \in Broadcast /\ peers[c.node] \in SUBSET Node
    BY <1>1 DEF TypeOK, Broadcast
  <2>2. d \in Broadcast
    <3>1. {p \in peers[c.node] : {c.node, p} \in link} \in SUBSET Node
      BY <2>1
    <3> QED BY <2>1, <3>1 DEF Broadcast
  <2>3. casts' = (casts \ {c}) \cup EndRound(d)
    BY <1>2 DEF StartCast
  <2>4. casts' \subseteq Broadcast
    BY <1>1, <2>2, <2>3, EndRoundType
  <2>5. UNCHANGED <<pending, acked, link, peers, wire, handler, mined, faults>>
    BY <1>2 DEF StartCast
  <2> QED BY <2>4, <2>5, LocalTypesSame DEF TypeOK
<1>3. ASSUME NEW c \in casts, NEW p \in c.todo, SendCast(c, p) PROVE LocalTypes'
  <2>1. c \in Broadcast /\ c.node \in Node /\ p \in Node /\ c.block \in MinedBlock
    BY <1>1 DEF Broadcast
  <2>2. /\ [c EXCEPT !.todo = @ \ {p}] \in Broadcast
        /\ [c EXCEPT !.todo = @ \ {p}, !.failed = @ \cup {p}] \in Broadcast
    <3>1. c.todo \ {p} \in SUBSET Node /\ c.failed \cup {p} \in SUBSET Node
      BY <2>1 DEF Broadcast
    <3> QED BY <2>1, <3>1 DEF Broadcast
  <2>3. /\ (casts \ {c}) \cup EndRound([c EXCEPT !.todo = @ \ {p}]) \in SUBSET Broadcast
        /\ (casts \ {c}) \cup EndRound([c EXCEPT !.todo = @ \ {p}, !.failed = @ \cup {p}])
             \in SUBSET Broadcast
    BY <1>1, <2>2, EndRoundType
  <2>4. UNCHANGED <<pending, acked, handler, mined, faults>>
    BY <1>3 DEF SendCast
  <2>5. /\ peers' \in [Node -> SUBSET Node]
        /\ link' \subseteq {{i, j} : i, j \in Node}
        /\ wire' \in [Node -> [Node -> Seq(InFlight)]]
        /\ casts' \subseteq Broadcast
    <3>1. CASE CastSends(c, p)
      <4>1. wire' \in [Node -> [Node -> Seq(InFlight)]]
        BY <2>1, <3>1, Messages, PutType DEF CastSends
      <4>2. casts' \in SUBSET Broadcast /\ UNCHANGED <<link, peers>>
        BY <2>3, <3>1 DEF CastSends
      <4> QED BY <4>1, <4>2 DEF TypeOK
    <3>2. CASE CastLoses(c, p)
      <4>1. casts' \in SUBSET Broadcast /\ UNCHANGED <<link, peers, wire>>
        BY <2>3, <3>2 DEF CastLoses
      <4> QED BY <4>1 DEF TypeOK
    <3>3. CASE CastFails(c, p)
      <4>1. CASE c.attempt = MaxBroadcastRetries
        BY <2>1, <2>3, <3>3, <4>1, DisconnectType DEF CastFails
      <4>2. CASE c.attempt # MaxBroadcastRetries
        BY <2>3, <3>3, <4>2 DEF CastFails, TypeOK
      <4> QED BY <4>1, <4>2
    <3> QED BY <1>3, <3>1, <3>2, <3>3 DEF SendCast
  <2> QED BY <2>4, <2>5, LocalTypesSame DEF TypeOK
<1> QED BY <1>2, <1>3 DEF Cast

\* Connections made, probed and lost, processes restarted.
LEMMA ConnectionTypes ==
  ASSUME IInv, Connect \/ Fault
  PROVE  LocalTypes'
<1> USE DEF IInv
<1>1. ASSUME NEW n \in Node, NEW p \in Node, Dial(n, p) PROVE LocalTypes'
  <2>1. peers' \in [Node -> SUBSET Node] /\ link' \subseteq {{i, j} : i, j \in Node}
    <3>0. /\ peers \in [Node -> SUBSET Node] /\ link \subseteq {{i, j} : i, j \in Node}
          /\ peers[n] \cup {p} \in SUBSET Node /\ peers[p] \cup {n} \in SUBSET Node
      BY DEF TypeOK
    <3>1. CASE n \in Keyed
      <4>1. peers' = [peers EXCEPT ![p] = peers[p] \cup {n}] /\ link' = link
        BY <1>1, <3>1 DEF Dial
      <4> QED BY <3>0, <4>1
    <3>2. CASE n \notin Keyed
      <4>1. link' = link \cup {{n, p}}
        BY <1>1, <3>2 DEF Dial
      <4>2. peers' = [peers EXCEPT ![n] = peers[n] \cup {p}, ![p] = peers[p] \cup {n}]
        BY <1>1, <3>2 DEF Dial
      <4>3. peers' \in [Node -> SUBSET Node]
        BY <3>0, <4>2
      <4>4. link' \subseteq {{i, j} : i, j \in Node}
        BY <3>0, <4>1
      <4> QED BY <4>3, <4>4
    <3> QED BY <3>1, <3>2
  <2>2. wire' \in [Node -> [Node -> Seq(InFlight)]]
    <3>1. CASE n \in Keyed
      BY <1>1, <3>1 DEF Dial, TypeOK
    <3>2. CASE n \notin Keyed
      BY <1>1, <3>2, Messages, PutType DEF Dial
    <3> QED BY <3>1, <3>2
  <2>3. UNCHANGED <<pending, acked, handler, casts, mined, faults>>
    BY <1>1 DEF Dial
  <2> QED BY <2>1, <2>2, <2>3, LocalTypesSame DEF TypeOK
<1>2. ASSUME NEW n \in Node, NEW p \in Node, Probe(n, p) PROVE LocalTypes'
  <2>1. casts \in SUBSET Broadcast
    BY DEF TypeOK
  <2>2. /\ peers' \in [Node -> SUBSET Node]
        /\ link' \subseteq {{i, j} : i, j \in Node}
        /\ wire' \in [Node -> [Node -> Seq(InFlight)]]
        /\ casts' \subseteq Broadcast
    <3>1. CASE disconnectPeer(n, p, casts)
      BY <2>1, <3>1, DisconnectType
    <3>2. CASE UNCHANGED <<peers, link, wire, casts>>
      BY <3>2 DEF TypeOK
    <3> QED BY <1>2, <3>1, <3>2 DEF Probe
  <2>3. UNCHANGED <<pending, acked, handler, mined, faults>>
    BY <1>2 DEF Probe
  <2> QED BY <2>2, <2>3, LocalTypesSame DEF TypeOK
<1>3. ASSUME NEW n \in Node, NEW p \in Node, Break(n, p) PROVE LocalTypes'
  <2>1. casts' \subseteq Broadcast
    BY <1>3, WithoutLinkType DEF Break, TypeOK
  <2>2. wire' \in [Node -> [Node -> Seq(InFlight)]]
    <3>1. <<>> \in Seq(InFlight)
      BY EmptySeq
    <3>2. wire' = [wire EXCEPT ![n][p] = <<>>, ![p][n] = <<>>]
      BY <1>3 DEF Break
    <3>3. [wire EXCEPT ![n][p] = <<>>] \in [Node -> [Node -> Seq(InFlight)]]
      BY <3>1, WireType DEF TypeOK
    <3> QED BY <3>1, <3>2, <3>3, WireType
  <2>3. link' \subseteq {{i, j} : i, j \in Node} /\ faults' \in Nat
    BY <1>3 DEF Break, TypeOK
  <2>4. UNCHANGED <<pending, acked, peers, handler, mined>>
    BY <1>3 DEF Break
  <2> QED BY <2>1, <2>2, <2>3, <2>4, LocalTypesSame DEF TypeOK
<1>4. ASSUME NEW n \in Node, Restart(n) PROVE LocalTypes'
  <2>1. casts' \subseteq Broadcast
    <3>1. ASSUME NEW d \in casts PROVE [d EXCEPT !.live = @ \ {n}] \in Broadcast
      <4>1. d \in Broadcast /\ d.live \ {n} \in SUBSET Node
        BY DEF TypeOK, Broadcast
      <4> QED BY <4>1 DEF Broadcast
    <3> QED BY <1>4, <3>1 DEF Restart
  <2>2. wire' \in [Node -> [Node -> Seq(InFlight)]]
    <3>1. <<>> \in Seq(InFlight)
      BY EmptySeq
    <3>2. \A p, q \in Node : wire[p][q] \in Seq(InFlight)
      BY DEF TypeOK
    <3>3. wire' = [p \in Node |-> [q \in Node |-> IF n \in {p, q} THEN <<>> ELSE wire[p][q]]]
      BY <1>4 DEF Restart
    <3> QED BY <3>1, <3>2, <3>3
  <2>3. handler' \in [Node -> [Node -> HandlerState]]
    <3>1. [p \in Node |-> Idle] \in [Node -> HandlerState]
      BY HandlerStates
    <3> QED BY <1>4, <3>1 DEF Restart, TypeOK
  <2>4. /\ link' \subseteq {{i, j} : i, j \in Node} /\ faults' \in Nat
        /\ pending' \in [Node -> SUBSET Message] /\ peers' \in [Node -> SUBSET Node]
    BY <1>4 DEF Restart, TypeOK
  <2>5. UNCHANGED <<acked, mined>>
    BY <1>4 DEF Restart
  <2> QED BY <2>1, <2>2, <2>3, <2>4, <2>5, LocalTypesSame DEF TypeOK
<1> QED BY <1>1, <1>2, <1>3, <1>4 DEF Connect, Fault

----------------------------------------------------------------------------
(* The theorems.                                                           *)

LEMMA IInvInit == Init => IInv
<1> SUFFICES ASSUME Init PROVE IInv
  OBVIOUS
<1>1. T!Inv
  <2>1. T!Init
    BY SameOperators DEF Init, T!Init
  <2> QED BY <2>1, T!InvInit, NonceAssumption, DifficultyAssumption
<1>2. chain \in [Node -> mined] /\ disk \in [Node -> mined \cup {NoFile}]
  BY DEF Init
<1>3. /\ pending \in [Node -> SUBSET Message] /\ acked \subseteq Message
      /\ peers \in [Node -> SUBSET Node] /\ casts \subseteq Broadcast /\ faults \in Nat
  BY DEF Init
<1>4. link \subseteq {{n, p} : n, p \in Node}
  <2>1. \A e \in InitialLinks : e[1] \in Node /\ e[2] \in Node
    BY LinksAssumption, OverlayAssumption
  <2>2. \A e \in InitialLinks : {e[1], e[2]} \in {{n, p} : n, p \in Node}
    BY <2>1
  <2>3. link = {{e[1], e[2]} : e \in InitialLinks}
    BY DEF Init
  <2> HIDE DEF Init
  <2> QED BY <2>2, <2>3
<1>5. wire \in [Node -> [Node -> Seq(InFlight)]]
  <2>1. <<>> \in Seq(InFlight)
    BY EmptySeq
  <2> QED BY <2>1 DEF Init
<1>6. handler \in [Node -> [Node -> HandlerState]]
  BY HandlerStates DEF Init
<1> QED BY <1>1, <1>2, <1>3, <1>4, <1>5, <1>6 DEF IInv, TypeOK

LEMMA IInvNext == IInv /\ [Next]_vars => IInv'
<1> SUFFICES ASSUME IInv, [Next]_vars PROVE IInv'
  OBVIOUS
<1>1. T!Inv'
  <2>1. T!Inv /\ [T!Next]_T!vars
    BY StepsImplementTree DEF IInv
  <2> QED BY <2>1, T!InvNext, NonceAssumption, DifficultyAssumption
<1>2. chain' \in [Node -> mined'] /\ disk' \in [Node -> mined' \cup {NoFile}]
  BY <1>1, SameOperators DEF T!Inv, T!TypeOK
<1>3. LocalTypes'
  <2>1. ASSUME NEW n \in Node, NEW p \in Node, Handle(n, p) PROVE LocalTypes'
    BY <2>1, HandleTypes
  <2>2. CASE Post
    BY <2>2, PostTypes
  <2>3. CASE Cast
    BY <2>3, CastTypes
  <2>4. CASE Connect \/ Fault
    BY <2>4, ConnectionTypes
  <2>5. CASE UNCHANGED vars
    BY <2>5, LocalTypesSame DEF vars, IInv, TypeOK
  <2>6. CASE Save
    BY <2>6, SaveTypes DEF Save
  <2> QED BY <2>1, <2>2, <2>3, <2>4, <2>5, <2>6 DEF Next
<1> QED BY <1>1, <1>2, <1>3 DEF IInv, TypeOK, LocalTypes

\* The invariant of the protocol: its types and BlockTree's invariant.
THEOREM SyncInvariant == Spec => []IInv
BY IInvInit, IInvNext, PTL DEF Spec

\* Provenance: whatever a node, a file, a message or a goroutine holds was
\* mined as a whole.
THEOREM SyncTypes == Spec => []TypeOK
<1>1. IInv => TypeOK
  BY DEF IInv
<1> QED BY <1>1, SyncInvariant, PTL

\* No recipient reads a message twice from the chain of any node.
THEOREM MessagesAreDeliveredOnce == Spec => []NoDuplicateDelivery
<1>1. IInv => NoDuplicateDelivery
  <2>1. IInv => T!NoDuplicateDelivery /\ \A n \in Node : chain[n] \in mined
    BY DEF IInv, TypeOK, T!Inv
  <2> QED BY <2>1 DEF T!NoDuplicateDelivery, NoDuplicateDelivery
<1> QED BY <1>1, SyncInvariant, PTL

\* A block's Index is its height, though UpdateChain never checks it.
THEOREM IndicesAreHeights == Spec => []IndexIsHeight
<1>1. IInv => IndexIsHeight
  <2>1. IInv => T!IndexIsHeight /\ \A n \in Node : chain[n] \in mined
    BY DEF IInv, TypeOK, T!Inv
  <2> QED BY <2>1 DEF T!IndexIsHeight, IndexIsHeight
<1> QED BY <1>1, SyncInvariant, PTL

\* VerifyChain succeeds on the chain of every node.
THEOREM ChainsAlwaysVerify == Spec => []ChainsVerify
<1>1. IInv => ChainsVerify
  <2> SUFFICES ASSUME IInv, NEW n \in Node PROVE VerifyChain(chain[n])
    BY DEF ChainsVerify
  <2>1. chain[n] \in mined /\ IsChain(chain[n])
    BY MinedChains DEF IInv, TypeOK
  <2>2. \A i \in 1..Len(chain[n]) : chain[n][i].Index = i - 1
    BY <2>1 DEF IInv, T!Inv, T!IndexIsHeight
  <2> QED BY <2>1, <2>2, ChainVerifies
<1> QED BY <1>1, SyncInvariant, PTL

\* A node that does not restart stays on its chain or changes to a longer one.
GrowsAt(n) == chain'[n] # chain[n] => Len(chain'[n]) > Len(chain[n]) \/ Restart(n)

LEMMA StepGrows ==
  ASSUME IInv, Next, NEW n \in Node
  PROVE  GrowsAt(n)
<1> USE DEF GrowsAt
<1>1. chain \in [Node -> mined] /\ \A c \in mined : Len(c) \in Nat /\ c \in Seq(Blocks(c))
  BY MinedChains, ChainLength DEF IInv, TypeOK, IsChain
<1>2. ASSUME NEW p \in Node, NEW m \in Message, AddMessage(p, m) PROVE GrowsAt(n)
  <2>1. PICK b : chain' = [chain EXCEPT ![p] = Append(@, b)]
    BY <1>2 DEF AddMessage
  <2>2. Len(Append(chain[p], b)) = Len(chain[p]) + 1
    <3> DEFINE S == Blocks(chain[p]) \cup {b}
    <3>1. chain[p] \in Seq(S) /\ b \in S
      BY <1>1, SeqMonotonic
    <3> HIDE DEF S
    <3> QED BY <3>1, AppendProperties
  <2> QED BY <1>1, <2>1, <2>2
<1>3. ASSUME NEW p \in Node, NEW q \in Node, Handle(p, q) PROVE GrowsAt(n)
  <2>1. CASE AppendBlock(p, q) \/ ReceiveChainResponse(p, q)
    BY <1>1, <2>1 DEF AppendBlock, ReceiveChainResponse, Accepts
  <2>2. CASE UNCHANGED chain
    BY <2>2
  <2> QED BY <1>3, <2>1, <2>2 DEF Handle, ReceiveNewBlock, CopyChain, SaveChain, Truncate, WriteFile,
            ReceiveChainRequest, SendChain, AskPeer
<1>4. ASSUME NEW p \in Node, Restart(p) PROVE GrowsAt(n)
  <2>1. CASE p = n
    BY <1>4, <2>1
  <2>2. CASE p # n
    <3>1. chain'[n] = chain[n]
      BY <1>1, <1>4, <2>2 DEF Restart
    <3> QED BY <3>1
  <2> QED BY <2>1, <2>2
<1>5. CASE UNCHANGED chain
  BY <1>5
<1>6. ASSUME NEW p \in Node, NEW q \in Node, Break(p, q) \/ Dial(p, q) \/ Probe(p, q)
      PROVE  UNCHANGED chain
  BY <1>6 DEF Break, Dial, Probe
<1>7. CASE Cast
  BY <1>7 DEF Cast, StartCast, SendCast
<1>8. ASSUME NEW p \in Node, NEW m \in Message, BroadcastPost(p, m) PROVE UNCHANGED chain
  BY <1>8 DEF BroadcastPost
<1>9. CASE Save
  BY <1>5, <1>9 DEF Save, SaveTick
<1> QED BY <1>2, <1>3, <1>4, <1>5, <1>6, <1>7, <1>8, <1>9, PosterAssumption
    DEF Next, Post, Connect, Fault

\* Without a restart a node only ever changes to a longer chain.
THEOREM ChainsOnlyGrow == Spec => NeverShrinks
<1>1. IInv /\ [Next]_vars => [\A n \in Node : GrowsAt(n)]_vars
  BY StepGrows
<1> QED BY <1>1, SyncInvariant, PTL DEF Spec, NeverShrinks, GrowsAt

\* Two nodes have the same chain up to a block they both have.
LEMMA SharedBlock ==
  ASSUME IInv, NEW n \in Node, NEW p \in Node,
         NEW i \in 1..Len(chain[n]), NEW j \in 1..Len(chain[p]),
         chain[n][i].Hash = chain[p][j].Hash
  PROVE  History(chain[n], i) = History(chain[p], j)
<1>1. chain[n] \in mined /\ chain[p] \in mined
  BY DEF IInv, TypeOK
<1>2. IsChain(chain[n]) /\ IsChain(chain[p])
  BY <1>1, MinedChains
<1>3. SubSeq(chain[n], 1, i) = SubSeq(chain[p], 1, j)
  BY <1>2, BlockCommitsToHistory
<1> QED BY <1>3 DEF History

\* Nodes that have a block agree on everything below it.
THEOREM BlocksDetermineHistory == Spec => []SameBlockSameHistory
<1>1. IInv => SameBlockSameHistory
  BY SharedBlock DEF SameBlockSameHistory
<1> QED BY <1>1, SyncInvariant, PTL

\* Nodes that show a message agree on everything before it.
THEOREM MessagesDetermineHistory == Spec => []MessageFixesHistory
<1>1. IInv => MessageFixesHistory
  <2> SUFFICES ASSUME IInv, NEW n \in Node, NEW p \in Node,
                      NEW i \in 1..Len(chain[n]), NEW j \in 1..Len(chain[p]),
                      chain[n][i].Messages = chain[p][j].Messages, chain[n][i].Messages # <<>>
               PROVE  History(chain[n], i) = History(chain[p], j)
    BY DEF MessageFixesHistory
  <2>1. chain[n] \in mined /\ chain[p] \in mined
    BY DEF IInv, TypeOK
  <2>2. chain[n][i] = chain[p][j]
    BY <2>1 DEF IInv, T!Inv, T!OneBlockPerMessage
  <2> QED BY <2>2, SharedBlock
<1> QED BY <1>1, SyncInvariant, PTL

\* What a node has saved is never more than what it has, whether a handler or
\* broadcastPeerList has saved it last, and however their writes interleave.
THEOREM FilesAreNotAhead == Spec => []FileIsNotAhead
<1>1. IInv => FileIsNotAhead
  BY DEF IInv, T!Inv, T!FileIsNotAhead, FileIsNotAhead
<1> QED BY <1>1, SyncInvariant, PTL

\* The protocol implements BlockTree.
THEOREM SyncImplementsTree == Spec => ImplementsBlockTree
<1>1. Init => Tree!Init
  BY DEF Init, Tree!Init, NoFile, Tree!NoFile, NewBlockchain, Tree!NewBlockchain,
         Genesis, Tree!Genesis, WithHash, Tree!WithHash, CalculateHash, Tree!CalculateHash,
         NoHash, Tree!NoHash
<1>2. IInv /\ [Next]_vars => [Tree!Next]_Tree!vars
  <2>1. [T!Next]_T!vars => [Tree!Next]_Tree!vars
    BY DEF T!Next, T!vars, T!Mine, T!Adopt, T!Truncate, T!Save, T!Restart, T!Fresh,
           T!HasMessage, T!SimpleMineBlock, T!Candidate, T!WithHash, T!CalculateHash,
           T!GetLastBlock, T!meetsDifficulty, T!LoadFromFile, T!Accepts, T!ValidChain,
           T!BlockFits, T!NewBlockchain, T!Genesis, T!NoHash, T!NoFile,
           Tree!Next, Tree!vars, Tree!Mine, Tree!Adopt, Tree!Truncate, Tree!Save,
           Tree!Restart, Tree!Fresh, Tree!HasMessage, Tree!SimpleMineBlock, Tree!Candidate,
           Tree!WithHash, Tree!CalculateHash, Tree!GetLastBlock, Tree!meetsDifficulty,
           Tree!LoadFromFile, Tree!Accepts, Tree!ValidChain, Tree!BlockFits,
           Tree!NewBlockchain, Tree!Genesis, Tree!NoHash, Tree!NoFile
  <2> QED BY <2>1, StepsImplementTree
<1> QED BY <1>1, <1>2, SyncInvariant, PTL DEF Spec, ImplementsBlockTree, Tree!Spec
----------------------------------------------------------------------------
(* What is queued on a connection.                                         *)

Queued(q) == {q[i] : i \in 1..Len(q)}

LEMMA QueuedAppend ==
  ASSUME NEW S, NEW q \in Seq(S), NEW x \in S
  PROVE  Queued(Append(q, x)) = Queued(q) \cup {x}
<1> DEFINE e == Append(q, x)
<1>1. /\ Len(e) = Len(q) + 1 /\ \A i \in 1..Len(q) : e[i] = q[i]
      /\ e[Len(q) + 1] = x
  BY AppendProperties
<1>2. Len(q) \in Nat
  BY LenProperties
<1> HIDE DEF e
<1>3. \A i \in 1..Len(e) : i \in 1..Len(q) \/ i = Len(q) + 1
  BY <1>1, <1>2
<1>4. 1..Len(q) \subseteq 1..Len(e) /\ Len(q) + 1 \in 1..Len(e)
  BY <1>1, <1>2
<1>5. Queued(e) \subseteq Queued(q) \cup {x}
  BY <1>1, <1>3 DEF Queued
<1>6. Queued(q) \cup {x} \subseteq Queued(e)
  BY <1>1, <1>4 DEF Queued
<1> QED BY <1>5, <1>6 DEF e

LEMMA QueuedTail ==
  ASSUME NEW S, NEW q \in Seq(S), q # <<>>
  PROVE  /\ Queued(q) = {Head(q)} \cup Queued(Tail(q))
         /\ Head(q) \in S
<1> DEFINE t == Tail(q)
<1>1. /\ Head(q) \in S /\ Head(q) = q[1] /\ Len(t) = Len(q) - 1
      /\ \A i \in 1..Len(t) : t[i] = q[i + 1]
  BY HeadTailProperties
<1>2. Len(q) \in Nat \ {0}
  BY LenProperties, EmptySeq
<1> HIDE DEF t
<1>3. 1 \in 1..Len(q) /\ \A i \in 1..Len(t) : i + 1 \in 1..Len(q)
  BY <1>1, <1>2
<1>4. \A i \in 1..Len(q) : i = 1 \/ (i - 1 \in 1..Len(t) /\ (i - 1) + 1 = i)
  BY <1>1, <1>2
<1>5. {Head(q)} \cup Queued(t) \subseteq Queued(q)
  BY <1>1, <1>3 DEF Queued
<1>6. Queued(q) \subseteq {Head(q)} \cup Queued(t)
  <2> SUFFICES ASSUME NEW i \in 1..Len(q) PROVE q[i] \in {Head(q)} \cup Queued(t)
    BY DEF Queued
  <2>1. CASE i = 1
    BY <1>1, <2>1
  <2>2. CASE i # 1
    <3>1. i - 1 \in 1..Len(t) /\ t[i - 1] = q[i]
      BY <1>1, <1>4, <2>2
    <3> QED BY <3>1 DEF Queued
  <2> QED BY <2>1, <2>2
<1> QED BY <1>1, <1>5, <1>6 DEF t

LEMMA QueuedNone == Queued(<<>>) = {}
<1>1. Len(<<>>) = 0
  BY EmptySeq
<1> QED BY <1>1 DEF Queued

\* What is on a connection and what a handler reads from it.
LEMMA PutQueued ==
  ASSUME TypeOK, NEW n \in Node, NEW p \in Node, NEW x \in InFlight, Put(n, p, x)
  PROVE  \A i, j \in Node :
           Queued(wire'[i][j]) = Queued(wire[i][j]) \cup (IF i = n /\ j = p THEN {x} ELSE {})
<1>1. wire \in [Node -> [Node -> Seq(InFlight)]]
  BY DEF TypeOK
<1>2. wire' = [wire EXCEPT ![n][p] = Append(wire[n][p], x)]
  BY DEF Put, TypeOK
<1>3. Queued(Append(wire[n][p], x)) = Queued(wire[n][p]) \cup {x}
  BY <1>1, QueuedAppend
<1>4. \A i, j \in Node : wire'[i][j] = IF i = n /\ j = p THEN Append(wire[n][p], x) ELSE wire[i][j]
  BY <1>1, <1>2
<1> QED BY <1>3, <1>4

LEMMA PutArrives ==
  ASSUME TypeOK, NEW n \in Node, NEW p \in Node, NEW x \in InFlight, Put(n, p, x)
  PROVE  x \in Queued(wire'[n][p])
<1>1. Queued(wire'[n][p]) = Queued(wire[n][p]) \cup {x}
  BY PutQueued
<1> QED BY <1>1

LEMMA PopQueued ==
  ASSUME TypeOK, NEW n \in Node, NEW p \in Node, wire[p][n] # <<>>, Pop(n, p)
  PROVE  /\ \A i, j \in Node : ~ (i = p /\ j = n) => wire'[i][j] = wire[i][j]
         /\ Queued(wire[p][n]) = {Head(wire[p][n])} \cup Queued(wire'[p][n])
         /\ Head(wire[p][n]) \in InFlight
<1>1. wire \in [Node -> [Node -> Seq(InFlight)]]
  BY DEF TypeOK
<1>2. wire' = [wire EXCEPT ![p][n] = Tail(wire[p][n])]
  BY DEF Pop, TypeOK
<1>3. \A i, j \in Node : wire'[i][j] = IF i = p /\ j = n THEN Tail(wire[p][n]) ELSE wire[i][j]
  BY <1>1, <1>2
<1>4. /\ Queued(wire[p][n]) = {Head(wire[p][n])} \cup Queued(Tail(wire[p][n]))
      /\ Head(wire[p][n]) \in InFlight
  BY <1>1, QueuedTail
<1> QED BY <1>3, <1>4

----------------------------------------------------------------------------
(* Steps while no fault has happened and nobody has a key.                 *)

\* No connection has been lost and no process killed; nobody has a NetworkKey.
Calm == faults = 0 /\ Keyed = {}

\* The first connections stay, and every peer is one that can be written to.
Connected ==
  \A n, p \in Node : /\ Linked(InitialLinks, n, p) => p \in peers[n]
                     /\ p \in peers[n] => {n, p} \in link

Untried(c) == c.pc = "start" /\ c.failed = {}

\* No broadcast has failed to reach a peer, or is going to.
CastsGoOut ==
  /\ \A c \in casts : c.failed = {} /\ (c.pc = "send" => c.todo \subseteq c.live)
  /\ \A n, p \in Node : handler[n][p].pc \in {"save", "write"} =>
       \A c \in handler[n][p].casting : Untried(c)

\* What a broadcast is after peer p has been written to.
Rest(c, p) == [c EXCEPT !.todo = @ \ {p}]

\* A tick of the periodic saver touches the file and its own goroutine.
LEMMA SaveLeaves ==
  ASSUME Save
  PROVE  UNCHANGED <<chain, pending, acked, link, peers, wire, casts, mined, faults>>
BY DEF Save, SaveTick, Truncate

\* n's broadcastPeerList begins to save.
Begins(i, j) == handler[i][j] = Idle /\ handler'[i][j] = [pc |-> "write", casting |-> {}]

LEMMA SaveBegins ==
  ASSUME TypeOK, Save, NEW i \in Node, NEW j \in Node
  PROVE  handler'[i][j] = handler[i][j] \/ Begins(i, j)
<1>1. PICK n \in Node : SaveTick(n)
  BY DEF Save
<1>2. /\ handler[n][n] = Idle
      /\ handler' = [handler EXCEPT ![n][n] = [pc |-> "write", casting |-> {}]]
  BY <1>1 DEF SaveTick, Truncate, Goto
<1>3. handler \in [Node -> [Node -> HandlerState]]
  BY DEF TypeOK
<1>4. CASE i = n /\ j = n
  BY <1>2, <1>3, <1>4 DEF Begins
<1>5. CASE ~ (i = n /\ j = n)
  BY <1>2, <1>3, <1>5
<1> QED BY <1>4, <1>5

LEMMA CalmBefore ==
  ASSUME TypeOK, Calm', [Next]_vars
  PROVE  /\ Calm
         /\ \/ Post \/ Cast \/ (\E n, p \in Node : Handle(n, p))
            \/ Save \/ Connect \/ UNCHANGED vars
<1>1. ~ Fault
  <2>1. faults \in Nat /\ faults' = 0
    BY DEF TypeOK, Calm
  <2>2. Fault => faults' = faults + 1
    <3>1. \A n, p \in Node : Break(n, p) => faults' = faults + 1
      BY DEF Break
    <3>2. \A n \in Node : Restart(n) => faults' = faults + 1
      BY DEF Restart
    <3> QED BY <3>1, <3>2 DEF Fault
  <2> QED BY <2>1, <2>2
<1>2. faults' = faults
  <2>1. ASSUME NEW n \in Node, NEW p \in Node, Handle(n, p) PROVE faults' = faults
    BY <2>1 DEF Handle, ReceiveNewBlock, CopyChain, AppendBlock, SaveChain, Truncate, WriteFile,
                ReceiveChainRequest, SendChain, ReceiveChainResponse, AskPeer
  <2>2. CASE Post
    BY <2>2 DEF Post, AddMessage, BroadcastPost
  <2>3. CASE Cast
    BY <2>3 DEF Cast, StartCast, SendCast
  <2>4. CASE Connect
    BY <2>4 DEF Connect, Dial, Probe
  <2>5. CASE UNCHANGED vars
    BY <2>5 DEF vars
  <2>6. CASE Save
    BY <2>6, SaveLeaves
  <2> QED BY <1>1, <2>1, <2>2, <2>3, <2>4, <2>5, <2>6 DEF Next
<1> QED BY <1>1, <1>2 DEF Calm, Next

LEMMA ChainTypes ==
  IInv => \A n \in Node : chain[n] \in mined /\ Len(chain[n]) \in Nat \ {0}
BY MinedChains, ChainLength DEF IInv, TypeOK

LEMMA ChainTypesNext == IInv' => \A n \in Node : chain'[n] \in mined' /\ Len(chain'[n]) \in Nat \ {0}
<1>1. (IInv => \A n \in Node : chain[n] \in mined /\ Len(chain[n]) \in Nat \ {0})'
  BY ChainTypes, PTL
<1> QED BY <1>1

LEMMA CalmGrowth ==
  ASSUME IInv, Calm', [Next]_vars, NEW n \in Node
  PROVE  /\ chain[n] \in mined /\ chain'[n] \in mined'
         /\ Len(chain[n]) \in Nat /\ Len(chain'[n]) \in Nat
         /\ chain'[n] = chain[n] \/ Len(chain'[n]) > Len(chain[n])
<1>1. chain[n] \in mined /\ Len(chain[n]) \in Nat
  BY ChainTypes
<1>2. chain'[n] \in mined' /\ Len(chain'[n]) \in Nat
  BY IInvNext, ChainTypesNext
<1>3. ~ Restart(n)
  <2>1. Calm
    BY CalmBefore DEF IInv
  <2> QED BY <2>1 DEF Calm, Restart
<1>4. chain'[n] = chain[n] \/ Len(chain'[n]) > Len(chain[n])
  BY <1>3, StepGrows DEF GrowsAt, vars
<1> QED BY <1>1, <1>2, <1>4

LEMMA CalmSend ==
  ASSUME TypeOK, Calm, CastsGoOut, NEW c \in casts, NEW p \in c.todo, SendCast(c, p)
  PROVE  /\ c \in Broadcast /\ c.node \in Node /\ p \in Node /\ c.block \in MinedBlock
         /\ c.failed = {}
         /\ CastSends(c, p)
         /\ Rest(c, p) \in Broadcast
         /\ Rest(c, p).node = c.node /\ Rest(c, p).block = c.block /\ Rest(c, p).pc = c.pc
         /\ Rest(c, p).failed = {} /\ Rest(c, p).live = c.live
         /\ Rest(c, p).todo = c.todo \ {p}
         /\ EndRound(Rest(c, p)) = IF c.todo = {p} THEN {} ELSE {Rest(c, p)}
<1>1. c \in Broadcast /\ c.failed = {} /\ p \in c.live /\ c.node \notin Keyed
  BY DEF TypeOK, CastsGoOut, SendCast, Calm
<1>2. CastSends(c, p)
  BY <1>1 DEF SendCast, CastLoses, CastFails
<1>3. c.todo \ {p} \in SUBSET Node
  BY <1>1 DEF Broadcast
<1>4. /\ Rest(c, p) \in Broadcast
      /\ Rest(c, p).node = c.node /\ Rest(c, p).block = c.block /\ Rest(c, p).pc = c.pc
      /\ Rest(c, p).failed = {} /\ Rest(c, p).live = c.live
      /\ Rest(c, p).todo = c.todo \ {p}
  BY <1>1, <1>3 DEF Rest, Broadcast
<1>5. EndRound(Rest(c, p)) = IF c.todo = {p} THEN {} ELSE {Rest(c, p)}
  BY <1>4 DEF EndRound
<1> QED BY <1>1, <1>2, <1>4, <1>5 DEF Broadcast

LEMMA CalmStart ==
  ASSUME TypeOK, Calm, Connected, CastsGoOut, NEW c \in casts, StartCast(c)
  PROVE  \E d \in Broadcast :
           /\ d.node = c.node /\ d.block = c.block /\ d.pc = "send" /\ d.failed = {}
           /\ d.todo = peers[c.node] /\ d.live = peers[c.node]
           /\ casts' = (casts \ {c}) \cup IF peers[c.node] = {} THEN {} ELSE {d}
<1> DEFINE n == c.node
           d == [c EXCEPT !.pc = "send", !.peers = peers[n], !.todo = peers[n],
                          !.live = {p \in peers[n] : {n, p} \in link}]
<1>1. c \in Broadcast /\ n \in Node /\ c.failed = {} /\ peers[n] \in SUBSET Node
  BY DEF TypeOK, CastsGoOut, Broadcast
<1>2. {p \in peers[n] : {n, p} \in link} = peers[n]
  BY <1>1 DEF Connected
<1>3. /\ d \in Broadcast
      /\ d.node = c.node /\ d.block = c.block /\ d.pc = "send" /\ d.failed = {}
      /\ d.todo = peers[c.node] /\ d.live = peers[c.node]
  BY <1>1, <1>2 DEF Broadcast
<1>4. casts' = (casts \ {c}) \cup EndRound(d)
  BY DEF StartCast
<1> HIDE DEF d
<1>5. EndRound(d) = IF peers[c.node] = {} THEN {} ELSE {d}
  BY <1>3 DEF EndRound
<1> QED BY <1>3, <1>4, <1>5

LEMMA CalmAsk ==
  ASSUME TypeOK, Calm, Connected, NEW n \in Node, NEW p \in Node, NEW q \in Node,
         AskPeer(n, p, q)
  PROVE  /\ q \in peers[n] => Put(n, q, [type |-> "chain_request"])
         /\ q \notin peers[n] => UNCHANGED wire
         /\ UNCHANGED <<link, peers, casts>>
BY DEF AskPeer, Calm, Connected, CanSend, SendFails, SendIsLost

LEMMA CalmProbe ==
  ASSUME TypeOK, Calm, Connected, NEW n \in Node, NEW p \in Node, Probe(n, p)
  PROVE  UNCHANGED <<peers, link, wire, casts>>
BY DEF Probe, Calm, Connected, CanSend, SendFails

LEMMA CalmDial ==
  ASSUME TypeOK, Calm, NEW n \in Node, NEW p \in Node, Dial(n, p)
  PROVE  /\ peers' = [peers EXCEPT ![n] = @ \cup {p}, ![p] = @ \cup {n}]
         /\ link' = link \cup {{n, p}}
         /\ Put(n, p, [type |-> "chain_request"])
         /\ n # p
BY OverlayAssumption DEF Dial, Calm

\* A goroutine's state is its own.
LEMMA CalmHandler ==
  ASSUME TypeOK, Calm', [Next]_vars, NEW i \in Node, NEW j \in Node
  PROVE  handler'[i][j] = handler[i][j] \/ Handle(i, j) \/ Begins(i, j)
<1>1. handler \in [Node -> [Node -> HandlerState]]
  BY DEF TypeOK
<1>2. ASSUME NEW n \in Node, NEW p \in Node, Handle(n, p)
      PROVE  handler'[i][j] = handler[i][j] \/ Handle(i, j)
  <2>1. CASE n = i /\ p = j
    BY <1>2, <2>1
  <2>2. CASE ~ (n = i /\ p = j)
    <3>1. \E h : Goto(n, p, h)
      BY <1>2 DEF Handle, ReceiveNewBlock, CopyChain, AppendBlock, SaveChain, Truncate, WriteFile,
                  ReceiveChainRequest, SendChain, ReceiveChainResponse, AskPeer, SaveThen
    <3> QED BY <1>1, <2>2, <3>1 DEF Goto
  <2> QED BY <2>1, <2>2
<1>3. CASE UNCHANGED handler
  BY <1>3
<1>4. CASE Save
  BY <1>4, SaveBegins
<1> QED BY <1>2, <1>3, <1>4, CalmBefore
    DEF Post, AddMessage, BroadcastPost, Cast, StartCast, SendCast, Connect, Dial, Probe, vars

\* What is busy goes on by itself.
LEMMA BusyHandler ==
  ASSUME TypeOK, Calm', [Next]_vars, NEW i \in Node, NEW j \in Node,
         handler[i][j].pc # "idle"
  PROVE  handler'[i][j] = handler[i][j] \/ Handle(i, j)
<1>1. ~ Begins(i, j)
  BY DEF Begins, Idle
<1> QED BY <1>1, CalmHandler

LEMMA ConnectedNext ==
  ASSUME TypeOK, Calm', Connected, CastsGoOut, [Next]_vars
  PROVE  Connected'
<1>1. Calm
  BY CalmBefore
<1>2. CASE UNCHANGED <<peers, link>>
  BY <1>2 DEF Connected
<1>3. ASSUME NEW n \in Node, NEW p \in Node, Dial(n, p) PROVE Connected'
  <2>1. /\ peers' = [peers EXCEPT ![n] = @ \cup {p}, ![p] = @ \cup {n}]
        /\ link' = link \cup {{n, p}} /\ n # p
    BY <1>1, <1>3, CalmDial
  <2>2. peers \in [Node -> SUBSET Node]
    BY DEF TypeOK
  <2>3. \A i \in Node : peers'[i] = peers[i] \cup (IF i = n THEN {p} ELSE IF i = p THEN {n} ELSE {})
    BY <2>1, <2>2
  <2> SUFFICES ASSUME NEW i \in Node, NEW j \in Node
               PROVE  /\ Linked(InitialLinks, i, j) => j \in peers'[i]
                      /\ j \in peers'[i] => {i, j} \in link'
    BY DEF Connected
  <2>4. Linked(InitialLinks, i, j) => j \in peers'[i]
    BY <2>3 DEF Connected
  <2>5. ASSUME j \in peers'[i], j \notin peers[i] PROVE {i, j} \in link'
    <3>1. (i = n /\ j = p) \/ (i = p /\ j = n)
      BY <2>3, <2>5
    <3>2. {i, j} = {n, p}
      BY <3>1
    <3> QED BY <2>1, <3>2
  <2> QED BY <2>1, <2>4, <2>5 DEF Connected
<1>4. ASSUME NEW n \in Node, NEW p \in Node, Handle(n, p) PROVE UNCHANGED <<peers, link>>
  BY <1>1, <1>4, CalmAsk
  DEF Handle, ReceiveNewBlock, CopyChain, AppendBlock, SaveChain, Truncate, WriteFile,
      ReceiveChainRequest, SendChain, ReceiveChainResponse
<1>5. CASE Cast
  <2>1. ASSUME NEW c \in casts, NEW p \in c.todo, SendCast(c, p) PROVE UNCHANGED <<peers, link>>
    BY <1>1, <2>1, CalmSend DEF CastSends
  <2> QED BY <1>2, <1>5, <2>1 DEF Cast, StartCast
<1>6. ASSUME NEW n \in Node, NEW p \in Node, Probe(n, p) PROVE UNCHANGED <<peers, link>>
  BY <1>1, <1>6, CalmProbe
<1> QED BY <1>2, <1>3, <1>4, <1>5, <1>6, CalmBefore, SaveLeaves
    DEF Post, AddMessage, BroadcastPost, Connect, vars

LEMMA NewCastFields ==
  ASSUME NEW n, NEW by, NEW b
  PROVE  /\ Untried(NewCast(n, by, b))
         /\ NewCast(n, by, b).node = n /\ NewCast(n, by, b).block = b
BY DEF NewCast, Untried

\* What a handler's step can add to the broadcasts.
LEMMA HandleCasts ==
  ASSUME TypeOK, Calm, Connected, CastsGoOut, NEW n \in Node, NEW p \in Node, Handle(n, p)
  PROVE  /\ casts \subseteq casts'
         /\ \A c \in casts' \ casts : Untried(c)
         /\ handler'[n][p].pc \in {"save", "write"} =>
              \A c \in handler'[n][p].casting : Untried(c)
<1> DEFINE h == handler[n][p]
           Goes == /\ casts \subseteq casts'
                   /\ \A c \in casts' \ casts : Untried(c)
                   /\ handler'[n][p].pc \in {"save", "write"} =>
                        \A c \in handler'[n][p].casting : Untried(c)
<1>1. handler \in [Node -> [Node -> HandlerState]] /\ h \in HandlerState
  BY DEF TypeOK
<1>2. ASSUME NEW s, Goto(n, p, s) PROVE handler'[n][p] = s
  BY <1>1, <1>2 DEF Goto
<1>3. Idle.pc = "idle" /\ \A ps : Asking(ps).pc \in {"idle", "ask"}
  BY DEF Idle, Asking
<1>4. ASSUME NEW cs, \A c \in cs : Untried(c), SaveThen(n, p, cs) PROVE Goes
  <2>1. CASE n \in Filed
    <3>1. handler'[n][p] = [pc |-> "save", casting |-> cs] /\ casts' = casts
      BY <1>2, <1>4, <2>1 DEF SaveThen
    <3> QED BY <1>4, <3>1
  <2>2. CASE n \notin Filed
    BY <1>2, <1>3, <1>4, <2>2 DEF SaveThen
  <2> QED BY <2>1, <2>2
<1>5. ASSUME casts' = casts, NEW s, Goto(n, p, s), s.pc \notin {"save", "write"} PROVE Goes
  BY <1>2, <1>5
<1>6. CASE ReceiveNewBlock(n, p)
  <2>1. \E s : Goto(n, p, s) /\ s.pc \in {"idle", "copy", "ask"}
    BY <1>3, <1>6 DEF ReceiveNewBlock
  <2> QED BY <1>5, <1>6, <2>1 DEF ReceiveNewBlock
<1>7. CASE CopyChain(n, p)
  <2>1. \E s : Goto(n, p, s) /\ s.pc = "update"
    BY <1>7 DEF CopyChain
  <2> QED BY <1>5, <1>7, <2>1 DEF CopyChain
<1>8. CASE AppendBlock(n, p)
  <2>1. \A c \in {NewCast(n, p, h.block)} : Untried(c)
    BY NewCastFields
  <2>2. CASE SaveThen(n, p, {NewCast(n, p, h.block)})
    BY <1>4, <2>1, <2>2
  <2>3. CASE Goto(n, p, Idle) /\ UNCHANGED casts
    BY <1>3, <1>5, <2>3
  <2> QED BY <1>8, <2>2, <2>3 DEF AppendBlock
<1>9. CASE SaveChain(n, p)
  <2>0. h.pc = "save" /\ \A c \in h.casting : Untried(c)
    BY <1>9 DEF SaveChain, Truncate, CastsGoOut
  <2>1. CASE Goto(n, p, Idle) /\ casts' = casts \cup h.casting
    BY <1>2, <1>3, <2>0, <2>1
  <2>2. CASE Goto(n, p, [pc |-> "write", casting |-> h.casting]) /\ UNCHANGED casts
    <3>1. handler'[n][p] = [pc |-> "write", casting |-> h.casting]
      BY <1>2, <2>2
    <3> QED BY <2>0, <2>2, <3>1
  <2> QED BY <1>9, <2>1, <2>2 DEF SaveChain, Truncate
<1>10. CASE WriteFile(n, p)
  <2>1. /\ h.pc = "write" /\ \A c \in h.casting : Untried(c)
        /\ casts' = casts \cup h.casting /\ handler'[n][p] = Idle
    BY <1>2, <1>10 DEF WriteFile, CastsGoOut
  <2> QED BY <1>3, <2>1
<1>11. CASE ReceiveChainRequest(n, p)
  <2>1. \E s : Goto(n, p, s) /\ s.pc = "reply"
    BY <1>11 DEF ReceiveChainRequest
  <2> QED BY <1>5, <1>11, <2>1 DEF ReceiveChainRequest
<1>12. CASE SendChain(n, p)
  BY <1>3, <1>5, <1>12 DEF SendChain
<1>13. CASE ReceiveChainResponse(n, p)
  <2>1. CASE SaveThen(n, p, {})
    BY <1>4, <2>1
  <2>2. CASE Goto(n, p, Idle) /\ UNCHANGED casts
    BY <1>3, <1>5, <2>2
  <2> QED BY <1>13, <2>1, <2>2 DEF ReceiveChainResponse
<1>14. ASSUME NEW q \in Node, AskPeer(n, p, q) PROVE Goes
  <2>1. casts' = casts
    BY <1>14, CalmAsk
  <2>2. \E s : Goto(n, p, s) /\ s.pc \in {"idle", "ask"}
    BY <1>3, <1>14 DEF AskPeer
  <2> QED BY <1>5, <2>1, <2>2
<1> QED BY <1>6, <1>7, <1>8, <1>9, <1>10, <1>11, <1>12, <1>13, <1>14 DEF Handle

LEMMA CastsGoOutNext ==
  ASSUME TypeOK, Calm', Connected, CastsGoOut, [Next]_vars
  PROVE  CastsGoOut'
<1>1. Calm
  BY CalmBefore
<1>2. ASSUME NEW i \in Node, NEW j \in Node, handler'[i][j].pc \in {"save", "write"}
      PROVE  \A c \in handler'[i][j].casting : Untried(c)
  <2>1. CASE Begins(i, j)
    BY <2>1 DEF Begins
  <2> QED BY <1>1, <1>2, <2>1, CalmHandler, HandleCasts DEF CastsGoOut
<1> DEFINE Goes(c) == c.failed = {} /\ (c.pc = "send" => c.todo \subseteq c.live)
<1>3. ASSUME NEW c \in casts' PROVE Goes(c)
  <2>1. \A d \in casts : Goes(d)
    BY DEF CastsGoOut
  <2>2. ASSUME Untried(c) PROVE Goes(c)
    BY <2>2 DEF Untried
  <2> HIDE DEF Goes
  <2>3. ASSUME NEW n \in Node, NEW p \in Node, Handle(n, p) PROVE Goes(c)
    BY <1>1, <1>3, <2>1, <2>2, <2>3, HandleCasts
  <2>4. CASE Post
    BY <1>3, <2>1, <2>2, <2>4, NewCastFields DEF Post, AddMessage, BroadcastPost
  <2>5. CASE Connect
    BY <1>1, <1>3, <2>1, <2>5, CalmProbe DEF Connect, Dial
  <2>6. CASE Cast
    <3>1. ASSUME NEW d \in casts, StartCast(d) PROVE Goes(c)
      <4>1. PICK e : /\ e.failed = {} /\ e.todo = peers[d.node] /\ e.live = peers[d.node]
                     /\ casts' = (casts \ {d}) \cup IF peers[d.node] = {} THEN {} ELSE {e}
        BY <1>1, <3>1, CalmStart
      <4>2. c \in casts \/ c = e
        BY <1>3, <4>1
      <4> QED BY <2>1, <4>1, <4>2 DEF Goes
    <3>2. ASSUME NEW d \in casts, NEW p \in d.todo, SendCast(d, p) PROVE Goes(c)
      <4>1. /\ CastSends(d, p) /\ Rest(d, p).failed = {} /\ Rest(d, p).live = d.live
            /\ Rest(d, p).pc = d.pc /\ Rest(d, p).todo = d.todo \ {p}
            /\ EndRound(Rest(d, p)) = IF d.todo = {p} THEN {} ELSE {Rest(d, p)}
        BY <1>1, <3>2, CalmSend
      <4>2. casts' = (casts \ {d}) \cup EndRound(Rest(d, p))
        BY <4>1 DEF CastSends, Rest
      <4>3. c \in casts \/ c = Rest(d, p)
        BY <1>3, <4>1, <4>2
      <4>4. Goes(Rest(d, p))
        BY <2>1, <4>1 DEF Goes
      <4> QED BY <2>1, <4>3, <4>4
    <3> QED BY <2>6, <3>1, <3>2 DEF Cast
  <2>7. CASE UNCHANGED vars
    BY <1>3, <2>1, <2>7 DEF vars
  <2>8. CASE Save
    BY <1>3, <2>1, <2>8, SaveLeaves
  <2> QED BY <2>3, <2>4, <2>5, <2>6, <2>7, <2>8, CalmBefore
<1> QED BY <1>2, <1>3 DEF CastsGoOut

\* What handleNewBlock may rely on when it reads a block's Index.
LEMMA TipHeight ==
  ASSUME IInv, NEW c \in mined
  PROVE  /\ Len(c) \in Nat \ {0} /\ IsChain(c)
         /\ GetLastBlock(c) \in MinedBlock
         /\ GetLastBlock(c).Index = Len(c) - 1
<1>1. IsChain(c) /\ Len(c) \in Nat \ {0}
  BY MinedChains, ChainLength
<1>2. Len(c) \in 1..Len(c)
  BY <1>1
<1> QED BY <1>1, <1>2 DEF IInv, T!Inv, T!IndexIsHeight, GetLastBlock, MinedBlock

LEMMA MinedBlockFacts ==
  ASSUME IInv, NEW b \in MinedBlock
  PROVE  /\ IsBlock(b) /\ b.Index \in Nat
         /\ b.Hash = CalculateHash(b)
         /\ b.Index > 0 => meetsDifficulty(b.Hash)
<1>1. PICK c \in mined : b = GetLastBlock(c)
  BY DEF MinedBlock
<1>2. IsChain(c) /\ Len(c) \in 1..Len(c) /\ b.Index = Len(c) - 1 /\ Len(c) \in Nat \ {0}
  BY <1>1, TipHeight
<1>3. IsBlock(c[Len(c)]) /\ BlockFits(c, Len(c))
  BY <1>2 DEF IsChain, ValidChain
<1> QED BY <1>1, <1>2, <1>3 DEF BlockFits, GetLastBlock

\* What handleNewBlock knows of its block between reading the tip, copying
\* the chain and updating it, in three critical sections: the chain c is as
\* high as it was, and then the block extends it, or higher.
CopyFits(c, h) == h.pc = "copy" =>
  /\ Len(c) >= h.block.Index
  /\ Len(c) = h.block.Index => h.block.PrevHash = GetLastBlock(c).Hash

UpdateFits(c, h) == h.pc = "update" =>
  /\ Len(c) >= h.block.Index
  /\ Len(c) = h.block.Index => Accepts(c, Append(h.copy, h.block))

AppendsFit ==
  \A n, p \in Node : CopyFits(chain[n], handler[n][p]) /\ UpdateFits(chain[n], handler[n][p])

LEMMA AppendsFitNext ==
  ASSUME IInv, Calm', AppendsFit, [Next]_vars
  PROVE  AppendsFit'
<1> USE DEF IInv
<1> SUFFICES ASSUME NEW n \in Node, NEW p \in Node
             PROVE  CopyFits(chain'[n], handler'[n][p]) /\ UpdateFits(chain'[n], handler'[n][p])
  BY DEF AppendsFit
<1> DEFINE h == handler[n][p]
<1>0. h \in HandlerState /\ handler \in [Node -> [Node -> HandlerState]]
  BY DEF TypeOK
<1> HIDE DEF h
<1>1. /\ h \in HandlerState /\ handler \in [Node -> [Node -> HandlerState]]
      /\ h.pc = "copy" => h.block \in MinedBlock
      /\ h.pc = "update" => h.copy \in mined /\ h.block \in MinedBlock
  BY <1>0, HandlerFields
<1> USE DEF h
<1>2. CopyFits(chain[n], h) /\ UpdateFits(chain[n], h)
  BY DEF AppendsFit
<1>3. /\ chain[n] \in mined /\ Len(chain[n]) \in Nat /\ Len(chain'[n]) \in Nat
      /\ chain'[n] = chain[n] \/ Len(chain'[n]) > Len(chain[n])
  BY CalmGrowth
<1>4. CASE handler'[n][p] = h
  <2>1. h.pc \in {"copy", "update"} => h.block.Index \in Nat
    BY <1>1, MinedBlockFacts
  <2> HIDE DEF h
  <2> QED BY <1>2, <1>3, <1>4, <2>1 DEF CopyFits, UpdateFits
<1>5. ASSUME NEW s, Goto(n, p, s) PROVE handler'[n][p] = s
  BY <1>1, <1>5 DEF Goto
<1>6. ASSUME NEW s, Goto(n, p, s), s.pc \notin {"copy", "update"}
      PROVE  CopyFits(chain'[n], handler'[n][p]) /\ UpdateFits(chain'[n], handler'[n][p])
  BY <1>5, <1>6 DEF CopyFits, UpdateFits
<1>7. Idle.pc = "idle" /\ \A ps : Asking(ps).pc \in {"idle", "ask"}
  BY DEF Idle, Asking
<1>8. CASE ReceiveNewBlock(n, p)
  <2> DEFINE b == Head(wire[p][n]).block
             lastBlock == GetLastBlock(chain[n])
  <2>1. b \in MinedBlock
    BY <1>8, PopType, Messages DEF ReceiveNewBlock, Receives
  <2>2. lastBlock.Index + 1 = Len(chain[n])
    BY <1>3, TipHeight
  <2>3. CASE b.Index = lastBlock.Index + 1 /\ b.PrevHash = lastBlock.Hash
             /\ Goto(n, p, [pc |-> "copy", block |-> b])
    <3>1. chain'[n] = chain[n]
      BY <1>8 DEF ReceiveNewBlock
    <3>2. handler'[n][p] = [pc |-> "copy", block |-> b]
      BY <1>5, <2>3
    <3> QED BY <1>3, <2>2, <2>3, <3>1, <3>2 DEF CopyFits, UpdateFits
  <2>4. CASE Goto(n, p, Idle) \/ Goto(n, p, Asking(peers[n]))
    BY <1>6, <1>7, <2>4
  <2> QED BY <1>8, <2>3, <2>4 DEF ReceiveNewBlock
<1>9. CASE CopyChain(n, p)
  <2> DEFINE b == h.block
             new == Append(chain[n], b)
  <2>1. /\ h.pc = "copy" /\ handler'[n][p] = [pc |-> "update", copy |-> chain[n], block |-> b]
        /\ chain' = chain
    BY <1>5, <1>9 DEF CopyChain
  <2>2. b \in MinedBlock
    BY <1>1, <2>1
  <2>3. ASSUME Len(chain[n]) = b.Index PROVE Accepts(chain[n], new)
    <3>1. /\ IsChain(chain[n]) /\ IsBlock(b) /\ b.PrevHash = GetLastBlock(chain[n]).Hash
          /\ b.Hash = CalculateHash(b) /\ (b.Index > 0 => meetsDifficulty(b.Hash))
      BY <1>2, <1>3, <2>1, <2>2, <2>3, TipHeight, MinedBlockFacts DEF CopyFits
    <3>2. IsChain(new) /\ Len(new) = Len(chain[n]) + 1
      BY <3>1, AppendIsChain, AppendShape
    <3> QED BY <1>3, <3>2 DEF Accepts, IsChain
  <2>4. Len(chain[n]) >= b.Index
    BY <1>2, <2>1 DEF CopyFits
  <2> QED BY <2>1, <2>3, <2>4 DEF CopyFits, UpdateFits
<1>10. CASE AppendBlock(n, p) \/ ReceiveChainResponse(n, p)
  <2>1. \E s : Goto(n, p, s) /\ s.pc \in {"idle", "save"}
    BY <1>7, <1>10 DEF AppendBlock, ReceiveChainResponse, SaveThen
  <2> QED BY <1>6, <2>1
<1>11. CASE SaveChain(n, p) \/ WriteFile(n, p)
  <2>1. \E s : Goto(n, p, s) /\ s.pc \in {"idle", "write"}
    BY <1>7, <1>11 DEF SaveChain, Truncate, WriteFile
  <2> QED BY <1>6, <2>1
<1>12. CASE ReceiveChainRequest(n, p) \/ SendChain(n, p)
  <2>1. \E s : Goto(n, p, s) /\ s.pc \in {"idle", "reply"}
    BY <1>7, <1>12 DEF ReceiveChainRequest, SendChain
  <2> QED BY <1>6, <2>1
<1>13. CASE \E q \in Node : AskPeer(n, p, q)
  <2>1. \E s : Goto(n, p, s) /\ s.pc \in {"idle", "ask"}
    BY <1>7, <1>13 DEF AskPeer
  <2> QED BY <1>6, <2>1
<1>14. CASE Begins(n, p)
  BY <1>14 DEF Begins, CopyFits, UpdateFits
<1> QED BY <1>4, <1>8, <1>9, <1>10, <1>11, <1>12, <1>13, <1>14, CalmHandler DEF Handle

----------------------------------------------------------------------------
(* Where the news of a chain can be.                                       *)

\* A message whose reader becomes as high as k, or asks the sender.
Tells(x, k) ==
  \/ x.type = "new_block" /\ x.block.Index + 1 >= k
  \/ x.type = "chain_response" /\ Len(x.chain) >= k

QueueTells(q, k) == \E x \in Queued(q) : Tells(x, k)

QueueAsks(q) == \E x \in Queued(q) : x.type = "chain_request"

\* A broadcast of o that p is still to get.
CastTells(cs, o, p, k) ==
  \E c \in cs : /\ c.node = o /\ c.block.Index + 1 >= k
                /\ c.pc = "start" \/ (c.pc = "send" /\ p \in c.todo)

Appends(h, k) == h.pc \in {"copy", "update"} /\ h.block.Index + 1 >= k

WillAsk(h, o) == h.pc = "ask" /\ o \in h.todo

WillReply(h, k) == h.pc = "reply" /\ Len(h.copy) >= k

\* p is at height k, or will be when what is under way between o and p has
\* been handled.
Reaches(o, p, k) ==
  \/ Len(chain[p]) >= k
  \/ pending[o] # {}
  \/ CastTells(casts, o, p, k)
  \/ QueueTells(wire[o][p], k)
  \/ Appends(handler[p][o], k)
  \/ WillAsk(handler[p][o], o)
  \/ QueueAsks(wire[p][o])
  \/ WillReply(handler[o][p], k)

\* Every chain that was mined has a node as high as it is that all its first
\* neighbours catch up with: the miner.
Spreads ==
  \A c \in mined \ {NewBlockchain} : \E o \in Node :
    /\ Len(chain[o]) >= Len(c)
    /\ \A p \in Node : Linked(InitialLinks, o, p) => Reaches(o, p, Len(c))

\* Messages stay on a connection until its reader gets to them.
LEMMA CalmWire ==
  ASSUME TypeOK, Calm', Connected, CastsGoOut, [Next]_vars, NEW i \in Node, NEW j \in Node
  PROVE  \/ Queued(wire[i][j]) \subseteq Queued(wire'[i][j])
         \/ ReceiveNewBlock(j, i) \/ ReceiveChainRequest(j, i) \/ ReceiveChainResponse(j, i)
<1> DEFINE Stays == Queued(wire[i][j]) \subseteq Queued(wire'[i][j])
           Reads(n, p) == ReceiveNewBlock(n, p) \/ ReceiveChainRequest(n, p) \/ ReceiveChainResponse(n, p)
<1>1. Calm
  BY CalmBefore
<1>2. ASSUME NEW n \in Node, NEW p \in Node, NEW x \in InFlight, Put(n, p, x) PROVE Stays
  BY <1>2, PutQueued
<1>3. ASSUME UNCHANGED wire PROVE Stays
  BY <1>3
<1>4. ASSUME NEW n \in Node, NEW p \in Node, Handle(n, p) PROVE Stays \/ Reads(j, i)
  <2>1. CASE Reads(n, p)
    <3>1. CASE n = j /\ p = i
      BY <2>1, <3>1
    <3>2. CASE ~ (n = j /\ p = i)
      <4>1. wire[p][n] # <<>> /\ Pop(n, p)
        BY <2>1 DEF ReceiveNewBlock, ReceiveChainRequest, ReceiveChainResponse, Receives
      <4> QED BY <3>2, <4>1, PopQueued
    <3> QED BY <3>1, <3>2
  <2>2. CASE SendChain(n, p)
    <3>1. handler[n][p] \in HandlerState /\ handler[n][p].pc = "reply"
      BY <2>2 DEF TypeOK, SendChain
    <3>2. [type |-> "chain_response", chain |-> handler[n][p].copy] \in InFlight
      BY <3>1, HandlerFields, Messages
    <3> QED BY <1>2, <1>3, <2>2, <3>2 DEF SendChain
  <2>3. ASSUME NEW q \in Node, AskPeer(n, p, q) PROVE Stays
    BY <1>1, <1>2, <1>3, <2>3, CalmAsk, Messages
  <2>4. CASE CopyChain(n, p) \/ AppendBlock(n, p) \/ SaveChain(n, p) \/ WriteFile(n, p)
    BY <1>3, <2>4 DEF CopyChain, AppendBlock, SaveChain, Truncate, WriteFile
  <2> HIDE DEF Stays
  <2> QED BY <1>4, <2>1, <2>2, <2>3, <2>4 DEF Handle
<1>5. CASE Post
  BY <1>3, <1>5 DEF Post, AddMessage, BroadcastPost
<1>6. CASE Cast
  <2>1. ASSUME NEW c \in casts, NEW p \in c.todo, SendCast(c, p) PROVE Stays
    <3>1. CastSends(c, p) /\ c.node \in Node /\ p \in Node /\ c.block \in MinedBlock
      BY <1>1, <2>1, CalmSend
    <3> QED BY <1>2, <3>1, Messages DEF CastSends
  <2> QED BY <1>3, <1>6, <2>1 DEF Cast, StartCast
<1>7. CASE Connect
  <2>1. ASSUME NEW n \in Node, NEW p \in Node, Dial(n, p) PROVE Stays
    BY <1>1, <1>2, <2>1, CalmDial, Messages
  <2>2. ASSUME NEW n \in Node, NEW p \in Node, Probe(n, p) PROVE Stays
    BY <1>1, <1>3, <2>2, CalmProbe
  <2> QED BY <1>7, <2>1, <2>2 DEF Connect
<1>8. CASE UNCHANGED vars
  BY <1>3, <1>8 DEF vars
<1>9. CASE Save
  BY <1>3, <1>9, SaveLeaves
<1> HIDE DEF Stays
<1> QED BY <1>4, <1>5, <1>6, <1>7, <1>8, <1>9, CalmBefore DEF Stays

LEMMA CalmPosts ==
  ASSUME IInv, Calm', [Next]_vars, NEW o \in Node, NEW k \in Nat,
         pending[o] # {}, Len(chain[o]) >= k
  PROVE  pending'[o] # {} \/ \A p \in Node : CastTells(casts', o, p, k)
<1>1. pending \in [Node -> SUBSET Message]
  BY DEF IInv, TypeOK
<1>2. CASE pending'[o] = pending[o]
  BY <1>2
<1>3. ASSUME NEW n \in Node, NEW m \in Message, AddMessage(n, m) PROVE pending'[o] # {}
  BY <1>1, <1>3 DEF AddMessage
<1>4. ASSUME NEW n \in Node, NEW m \in Message, BroadcastPost(n, m)
      PROVE  pending'[o] = pending[o] \/ \A p \in Node : CastTells(casts', o, p, k)
  <2>1. CASE n # o
    BY <1>1, <1>4, <2>1 DEF BroadcastPost
  <2>2. CASE n = o
    <3> DEFINE c == NewCast(n, m, GetLastBlock(chain[n]))
    <3>1. c \in casts'
      BY <1>4 DEF BroadcastPost
    <3>2. c.node = o /\ c.pc = "start" /\ c.block = GetLastBlock(chain[o])
      BY <2>2, NewCastFields DEF Untried
    <3>3. c.block.Index = Len(chain[o]) - 1 /\ Len(chain[o]) \in Nat
      BY <3>2, ChainTypes, TipHeight
    <3> HIDE DEF c
    <3>4. c.block.Index + 1 >= k
      BY <3>3
    <3> QED BY <3>1, <3>2, <3>4 DEF CastTells
  <2> QED BY <2>1, <2>2
<1>5. ASSUME NEW n \in Node, NEW p \in Node, Handle(n, p) PROVE UNCHANGED pending
  BY <1>5 DEF Handle, ReceiveNewBlock, CopyChain, AppendBlock, SaveChain, Truncate, WriteFile,
      ReceiveChainRequest, SendChain, ReceiveChainResponse, AskPeer
<1>6. CASE Cast \/ Connect \/ UNCHANGED vars
  BY <1>6 DEF Cast, StartCast, SendCast, Connect, Dial, Probe, vars
<1>7. TypeOK
  BY DEF IInv
<1>8. CASE Save
  BY <1>2, <1>8, SaveLeaves
<1> QED BY <1>2, <1>3, <1>4, <1>5, <1>6, <1>7, <1>8, CalmBefore, PosterAssumption DEF Post

\* A broadcast goes on, or its block is on the connection.
LEMMA CalmCasts ==
  ASSUME TypeOK, Calm', Connected, CastsGoOut, [Next]_vars,
         NEW o \in Node, NEW p \in Node, NEW k \in Nat, p \in peers[o],
         CastTells(casts, o, p, k)
  PROVE  CastTells(casts', o, p, k) \/ QueueTells(wire'[o][p], k)
<1>1. Calm
  BY CalmBefore
<1>2. PICK c \in casts : /\ c.node = o /\ c.block.Index + 1 >= k
                         /\ c.pc = "start" \/ (c.pc = "send" /\ p \in c.todo)
  BY DEF CastTells
<1>3. CASE c \in casts'
  BY <1>2, <1>3 DEF CastTells
<1>4. CASE casts \subseteq casts'
  BY <1>3, <1>4
<1>5. ASSUME NEW i \in Node, NEW j \in Node, Handle(i, j) PROVE casts \subseteq casts'
  BY <1>1, <1>5, HandleCasts
<1>6. CASE Post \/ Connect \/ UNCHANGED vars
  BY <1>1, <1>4, <1>6, CalmProbe DEF Post, AddMessage, BroadcastPost, Connect, Dial, vars
<1>7. ASSUME NEW d \in casts, StartCast(d), c \notin casts'
      PROVE  CastTells(casts', o, p, k)
  <2>1. PICK e \in Broadcast :
          /\ e.node = d.node /\ e.block = d.block /\ e.pc = "send" /\ e.todo = peers[d.node]
          /\ casts' = (casts \ {d}) \cup IF peers[d.node] = {} THEN {} ELSE {e}
    BY <1>1, <1>7, CalmStart
  <2>2. d = c
    BY <1>7, <2>1
  <2>3. e \in casts'
    BY <1>2, <2>1, <2>2
  <2> QED BY <1>2, <2>1, <2>2, <2>3 DEF CastTells
<1>8. ASSUME NEW d \in casts, NEW q \in d.todo, SendCast(d, q), c \notin casts'
      PROVE  CastTells(casts', o, p, k) \/ QueueTells(wire'[o][p], k)
  <2>1. /\ CastSends(d, q) /\ d.node \in Node /\ q \in Node /\ d.block \in MinedBlock
        /\ Rest(d, q).node = d.node /\ Rest(d, q).block = d.block /\ Rest(d, q).pc = d.pc
        /\ Rest(d, q).todo = d.todo \ {q}
        /\ EndRound(Rest(d, q)) = IF d.todo = {q} THEN {} ELSE {Rest(d, q)}
    BY <1>1, <1>8, CalmSend
  <2>2. casts' = (casts \ {d}) \cup EndRound(Rest(d, q))
    BY <2>1 DEF CastSends, Rest
  <2>3. d = c
    BY <1>8, <2>2
  <2>4. c.pc = "send" /\ p \in c.todo
    BY <1>2, <1>8, <2>3 DEF SendCast
  <2>5. CASE q = p
    <3> DEFINE x == [type |-> "new_block", block |-> c.block]
    <3>1. Put(o, p, x) /\ x \in InFlight
      BY <1>2, <2>1, <2>3, <2>5, Messages DEF CastSends
    <3>2. x \in Queued(wire'[o][p])
      <4> HIDE DEF x
      <4> QED BY <3>1, PutArrives
    <3>3. Tells(x, k)
      BY <1>2 DEF Tells
    <3> QED BY <3>2, <3>3 DEF QueueTells
  <2>6. CASE q # p
    <3>1. Rest(d, q) \in casts' /\ p \in Rest(d, q).todo
      BY <2>1, <2>2, <2>3, <2>4, <2>6
    <3> QED BY <1>2, <2>1, <2>3, <2>4, <3>1 DEF CastTells
  <2> QED BY <2>5, <2>6
<1>9. CASE Cast
  BY <1>3, <1>7, <1>8, <1>9 DEF Cast
<1>10. CASE Save
  BY <1>4, <1>10, SaveLeaves
<1> QED BY <1>4, <1>5, <1>6, <1>9, <1>10, CalmBefore

\* A message that tells of a chain is taken off the connection: its reader
\* has it, appends it, or asks the sender.
LEMMA CalmReads ==
  ASSUME IInv, Calm', Connected, CastsGoOut, [Next]_vars,
         NEW o \in Node, NEW p \in Node, NEW k \in Nat, o \in peers[p],
         QueueTells(wire[o][p], k)
  PROVE  \/ QueueTells(wire'[o][p], k) \/ Len(chain'[p]) >= k
         \/ Appends(handler'[p][o], k) \/ WillAsk(handler'[p][o], o)
<1> DEFINE w == wire[o][p]
<1>1. PICK x \in Queued(w) : Tells(x, k)
  BY DEF QueueTells
<1>2. CASE Queued(w) \subseteq Queued(wire'[o][p])
  BY <1>1, <1>2 DEF QueueTells
<1>3. TypeOK /\ handler \in [Node -> [Node -> HandlerState]]
  BY DEF IInv, TypeOK
<1>4. /\ chain[p] \in mined /\ Len(chain[p]) \in Nat /\ Len(chain'[p]) \in Nat
      /\ chain'[p] = chain[p] \/ Len(chain'[p]) > Len(chain[p])
  BY CalmGrowth
<1>5. ASSUME w # <<>>, Pop(p, o), ~ QueueTells(wire'[o][p], k)
      PROVE  x = Head(w) /\ x \in InFlight
  BY <1>1, <1>3, <1>5, PopQueued DEF QueueTells
<1>6. ASSUME ReceiveNewBlock(p, o), ~ QueueTells(wire'[o][p], k)
      PROVE  Len(chain'[p]) >= k \/ Appends(handler'[p][o], k) \/ WillAsk(handler'[p][o], o)
  <2> DEFINE b == x.block
             lastBlock == GetLastBlock(chain[p])
  <2>1. x = Head(w) /\ x \in InFlight /\ x.type = "new_block"
    BY <1>5, <1>6 DEF ReceiveNewBlock, Receives
  <2>2. b \in MinedBlock /\ b.Index + 1 >= k
    BY <1>1, <2>1, Messages DEF Tells
  <2>3. b.Hash = CalculateHash(b) /\ b.Index \in Nat
    BY <2>2, MinedBlockFacts
  <2>4. lastBlock.Index = Len(chain[p]) - 1
    BY <1>4, TipHeight
  <2> HIDE DEF lastBlock, w
  <2>5. CASE b.Index <= lastBlock.Index
    <3>1. Len(chain[p]) >= k
      BY <1>4, <2>2, <2>3, <2>4, <2>5
    <3> QED BY <1>4, <3>1
  <2>6. CASE ~ (b.Index <= lastBlock.Index)
    <3>1. \/ Goto(p, o, [pc |-> "copy", block |-> b])
          \/ Goto(p, o, Asking(peers[p]))
      BY <1>6, <2>1, <2>3, <2>6 DEF ReceiveNewBlock, w, lastBlock
    <3>2. CASE Goto(p, o, [pc |-> "copy", block |-> b])
      <4>1. handler'[p][o] = [pc |-> "copy", block |-> b]
        BY <1>3, <3>2 DEF Goto
      <4> QED BY <2>2, <4>1 DEF Appends
    <3>3. CASE Goto(p, o, Asking(peers[p]))
      <4>1. handler'[p][o] = [pc |-> "ask", todo |-> peers[p]]
        BY <1>3, <3>3 DEF Goto, Asking
      <4> QED BY <4>1 DEF WillAsk
    <3> QED BY <3>1, <3>2, <3>3
  <2> QED BY <2>5, <2>6
<1>7. ASSUME ReceiveChainResponse(p, o), ~ QueueTells(wire'[o][p], k)
      PROVE  Len(chain'[p]) >= k
  <2>1. x = Head(w) /\ x \in InFlight /\ x.type = "chain_response"
    BY <1>5, <1>7 DEF ReceiveChainResponse, Receives
  <2>2. x.chain \in mined /\ Len(x.chain) >= k
    BY <1>1, <2>1, Messages DEF Tells
  <2>3. Len(x.chain) \in Nat /\ ValidChain(x.chain)
    BY <2>2, TipHeight DEF IsChain
  <2>4. CASE Accepts(chain[p], x.chain)
    <3>1. chain' = [chain EXCEPT ![p] = x.chain]
      BY <1>7, <2>1, <2>4 DEF ReceiveChainResponse
    <3>2. chain'[p] = x.chain
      BY <3>1 DEF IInv, TypeOK
    <3> QED BY <2>2, <3>2
  <2>5. CASE ~ Accepts(chain[p], x.chain)
    <3>1. Len(chain[p]) >= k
      BY <1>4, <2>2, <2>3, <2>5 DEF Accepts
    <3> QED BY <1>4, <3>1
  <2> QED BY <2>4, <2>5
<1>8. ASSUME ReceiveChainRequest(p, o) PROVE QueueTells(wire'[o][p], k)
  BY <1>1, <1>5, <1>8 DEF ReceiveChainRequest, Receives, Tells
<1> QED BY <1>2, <1>3, <1>6, <1>7, <1>8, CalmWire

\* A block that waits to be appended is, unless the chain is as high by then.
LEMMA CalmAppends ==
  ASSUME IInv, Calm', AppendsFit, [Next]_vars,
         NEW o \in Node, NEW p \in Node, NEW k \in Nat,
         Appends(handler[p][o], k)
  PROVE  Appends(handler'[p][o], k) \/ Len(chain'[p]) >= k
<1> DEFINE h == handler[p][o]
           b == h.block
<1>1. TypeOK /\ handler \in [Node -> [Node -> HandlerState]] /\ h \in HandlerState
  BY DEF IInv, TypeOK
<1>2. /\ h.pc \in {"copy", "update"} /\ b.Index + 1 >= k
      /\ CopyFits(chain[p], h) /\ UpdateFits(chain[p], h)
  BY DEF Appends, AppendsFit
<1> HIDE DEF h
<1>3. b \in MinedBlock /\ (h.pc = "update" => h.copy \in mined)
  BY <1>1, <1>2, HandlerFields
<1>4. b.Index \in Nat
  BY <1>3, MinedBlockFacts
<1>5. /\ chain[p] \in mined /\ Len(chain[p]) \in Nat /\ Len(chain'[p]) \in Nat
      /\ chain'[p] = chain[p] \/ Len(chain'[p]) > Len(chain[p])
  BY CalmGrowth
<1>6. CASE handler'[p][o] = h
  BY <1>6 DEF h
<1>7. CASE CopyChain(p, o)
  <2>1. handler'[p][o] = [pc |-> "update", copy |-> chain[p], block |-> b]
    BY <1>1, <1>7 DEF CopyChain, Goto, h
  <2> QED BY <1>2, <2>1 DEF Appends
<1>8. CASE AppendBlock(p, o)
  <2> DEFINE new == Append(h.copy, b)
  <2>0. h.pc = "update" /\ h.copy \in mined
    BY <1>3, <1>8 DEF AppendBlock, h
  <2>1. CASE Accepts(chain[p], new)
    <3>1. new \in mined /\ chain' = [chain EXCEPT ![p] = new]
      BY <1>3, <1>8, <2>0, <2>1, AcceptedWasMined DEF AppendBlock, h
    <3>2. chain'[p] = new
      BY <3>1 DEF IInv, TypeOK
    <3>3. GetLastBlock(new) = b
      BY <1>3, <2>0, MinedBlockFacts, TipHeight, AppendShape
    <3>4. Len(new) = b.Index + 1
      <4> HIDE DEF new, b
      <4>1. Len(new) \in Nat /\ GetLastBlock(new).Index = Len(new) - 1
        BY <3>1, TipHeight
      <4> QED BY <3>3, <4>1
    <3> QED BY <1>2, <3>2, <3>4
  <2>2. CASE ~ Accepts(chain[p], new)
    <3>1. Len(chain[p]) >= b.Index + 1
      BY <1>2, <1>4, <1>5, <2>0, <2>2 DEF UpdateFits
    <3>2. Len(chain[p]) >= k
      BY <1>2, <1>4, <1>5, <3>1
    <3> QED BY <1>5, <3>2
  <2> QED BY <2>1, <2>2
<1>9. ASSUME Handle(p, o) PROVE CopyChain(p, o) \/ AppendBlock(p, o)
  <2>1. h # Idle /\ h.pc \notin {"save", "write", "ask", "reply"}
    BY <1>2 DEF Idle
  <2>2. h = handler[p][o]
    BY DEF h
  <2> QED BY <1>9, <2>1, <2>2 DEF Handle, ReceiveNewBlock, SaveChain, Truncate, WriteFile, AskPeer, Receives,
      ReceiveChainRequest, SendChain, ReceiveChainResponse
<1>10. handler[p][o].pc # "idle"
  BY <1>2 DEF h
<1> QED BY <1>1, <1>6, <1>7, <1>8, <1>9, <1>10, BusyHandler DEF h

\* A handler that is to ask o does.
LEMMA CalmAsks ==
  ASSUME IInv, Calm', Connected, [Next]_vars,
         NEW o \in Node, NEW p \in Node, o \in peers[p], WillAsk(handler[p][o], o)
  PROVE  WillAsk(handler'[p][o], o) \/ QueueAsks(wire'[p][o])
<1> DEFINE h == handler[p][o]
<1>1. TypeOK /\ handler \in [Node -> [Node -> HandlerState]] /\ Calm
  BY CalmBefore DEF IInv, TypeOK
<1>2. h.pc = "ask" /\ o \in h.todo
  BY DEF WillAsk
<1>3. CASE handler'[p][o] = h
  BY <1>3
<1>4. ASSUME NEW q \in Node, AskPeer(p, o, q)
      PROVE  WillAsk(handler'[p][o], o) \/ QueueAsks(wire'[p][o])
  <2>1. CASE q = o
    <3> DEFINE x == [type |-> "chain_request"]
    <3>1. Put(p, o, x)
      BY <1>1, <1>4, <2>1, CalmAsk
    <3>2. x \in InFlight /\ x.type = "chain_request"
      BY Messages
    <3> HIDE DEF x
    <3>3. x \in Queued(wire'[p][o])
      BY <1>1, <3>1, <3>2, PutArrives
    <3> QED BY <3>2, <3>3 DEF QueueAsks
  <2>2. CASE q # o
    <3>1. o \in h.todo \ {q}
      BY <1>2, <2>2
    <3>2. Goto(p, o, Asking(h.todo \ {q}))
      BY <1>4 DEF AskPeer
    <3>3. handler'[p][o] = Asking(h.todo \ {q})
      BY <1>1, <3>2 DEF Goto
    <3> QED BY <3>1, <3>3 DEF WillAsk, Asking
  <2> QED BY <2>1, <2>2
<1>5. ASSUME Handle(p, o) PROVE \E q \in Node : AskPeer(p, o, q)
  BY <1>2, <1>5 DEF Idle, Handle, ReceiveNewBlock, CopyChain, AppendBlock, SaveChain, Truncate, WriteFile,
      Receives, ReceiveChainRequest, SendChain, ReceiveChainResponse
<1> QED BY <1>1, <1>2, <1>3, <1>4, <1>5, BusyHandler

\* A request is read, and answered with the whole chain.
LEMMA CalmRequests ==
  ASSUME IInv, Calm', Connected, CastsGoOut, [Next]_vars,
         NEW o \in Node, NEW p \in Node, NEW k \in Nat, Len(chain[o]) >= k,
         QueueAsks(wire[p][o])
  PROVE  QueueAsks(wire'[p][o]) \/ WillReply(handler'[o][p], k)
<1>1. TypeOK /\ handler \in [Node -> [Node -> HandlerState]]
  BY DEF IInv, TypeOK
<1>2. PICK x \in Queued(wire[p][o]) : x.type = "chain_request"
  BY DEF QueueAsks
<1>3. CASE Queued(wire[p][o]) \subseteq Queued(wire'[p][o])
  BY <1>2, <1>3 DEF QueueAsks
<1>4. ASSUME wire[p][o] # <<>>, Pop(o, p), Head(wire[p][o]).type # "chain_request"
      PROVE  QueueAsks(wire'[p][o])
  BY <1>1, <1>2, <1>4, PopQueued DEF QueueAsks
<1>5. CASE ReceiveNewBlock(o, p) \/ ReceiveChainResponse(o, p)
  BY <1>4, <1>5 DEF ReceiveNewBlock, ReceiveChainResponse, Receives
<1>6. CASE ReceiveChainRequest(o, p)
  <2>1. handler'[o][p] = [pc |-> "reply", copy |-> chain[o]]
    BY <1>1, <1>6 DEF ReceiveChainRequest, Goto
  <2> QED BY <2>1 DEF WillReply
<1> QED BY <1>1, <1>3, <1>5, <1>6, CalmWire

LEMMA CalmReplies ==
  ASSUME IInv, Calm', Connected, [Next]_vars,
         NEW o \in Node, NEW p \in Node, NEW k \in Nat, p \in peers[o],
         WillReply(handler[o][p], k)
  PROVE  WillReply(handler'[o][p], k) \/ QueueTells(wire'[o][p], k)
<1> DEFINE h == handler[o][p]
           x == [type |-> "chain_response", chain |-> h.copy]
<1>1. /\ TypeOK /\ Calm /\ handler \in [Node -> [Node -> HandlerState]]
      /\ h \in HandlerState /\ h.pc = "reply" /\ Len(h.copy) >= k
  <2>1. TypeOK /\ handler \in [Node -> [Node -> HandlerState]]
    BY DEF IInv, TypeOK
  <2>2. Calm
    BY <2>1, CalmBefore
  <2> QED BY <2>1, <2>2 DEF WillReply
<1>2. CASE handler'[o][p] = h
  BY <1>2
<1>3. CASE SendChain(o, p)
  <2>1. Put(o, p, x)
    BY <1>1, <1>3 DEF SendChain, Calm, Connected, SendFails, CanSend
  <2>2. x \in InFlight
    <3> HIDE DEF h
    <3> QED BY <1>1, HandlerFields, Messages
  <2>3. Tells(x, k)
    BY <1>1 DEF Tells
  <2> HIDE DEF x
  <2>4. x \in Queued(wire'[o][p])
    BY <1>1, <2>1, <2>2, PutArrives
  <2> QED BY <2>3, <2>4 DEF QueueTells
<1>4. ASSUME Handle(o, p) PROVE SendChain(o, p)
  BY <1>1, <1>4 DEF Idle, Handle, ReceiveNewBlock, CopyChain, AppendBlock, SaveChain, Truncate, WriteFile,
      Receives, ReceiveChainRequest, ReceiveChainResponse, AskPeer
<1>5. handler[o][p].pc # "idle"
  BY <1>1
<1> QED BY <1>1, <1>2, <1>3, <1>4, <1>5, BusyHandler

LEMMA ReachesNext ==
  ASSUME IInv, Calm', Connected, CastsGoOut, AppendsFit, [Next]_vars,
         NEW o \in Node, NEW p \in Node, NEW k \in Nat,
         p \in peers[o], o \in peers[p], Len(chain[o]) >= k, Reaches(o, p, k)
  PROVE  Reaches(o, p, k)'
<1>1. TypeOK
  BY DEF IInv
<1>2. CASE Len(chain[p]) >= k
  <2>1. Len(chain'[p]) >= k
    BY <1>2, CalmGrowth
  <2> QED BY <2>1 DEF Reaches
<1>3. CASE pending[o] # {}
  BY <1>3, CalmPosts DEF Reaches
<1>4. CASE CastTells(casts, o, p, k)
  BY <1>1, <1>4, CalmCasts DEF Reaches
<1>5. CASE QueueTells(wire[o][p], k)
  BY <1>5, CalmReads DEF Reaches
<1>6. CASE Appends(handler[p][o], k)
  BY <1>6, CalmAppends DEF Reaches
<1>7. CASE WillAsk(handler[p][o], o)
  BY <1>7, CalmAsks DEF Reaches
<1>8. CASE QueueAsks(wire[p][o])
  BY <1>8, CalmRequests DEF Reaches
<1>9. CASE WillReply(handler[o][p], k)
  BY <1>9, CalmReplies DEF Reaches
<1> QED BY <1>2, <1>3, <1>4, <1>5, <1>6, <1>7, <1>8, <1>9 DEF Reaches

\* Only AddMessage mines, and its request is still to broadcast.
LEMMA NewlyMined ==
  ASSUME IInv, Calm', [Next]_vars, NEW c \in mined', c \notin mined
  PROVE  \E n \in Node : c = chain'[n] /\ pending'[n] # {}
<1>1. ASSUME NEW n \in Node, NEW m \in Message, AddMessage(n, m)
      PROVE  c = chain'[n] /\ pending'[n] # {}
  <2>1. mined' = mined \cup {chain'[n]} /\ pending' = [pending EXCEPT ![n] = @ \cup {m}]
    BY <1>1 DEF AddMessage
  <2> QED BY <2>1 DEF IInv, TypeOK
<1>2. ASSUME NEW n \in Node, NEW p \in Node, Handle(n, p) PROVE UNCHANGED mined
  BY <1>2 DEF Handle, ReceiveNewBlock, CopyChain, AppendBlock, SaveChain, Truncate, WriteFile,
      ReceiveChainRequest, SendChain, ReceiveChainResponse, AskPeer
<1>3. CASE Cast \/ Connect \/ UNCHANGED vars
  BY <1>3 DEF Cast, StartCast, SendCast, Connect, Dial, Probe, vars
<1>4. TypeOK
  BY DEF IInv
<1>5. CASE Save
  BY <1>5, SaveLeaves
<1> QED BY <1>1, <1>2, <1>3, <1>4, <1>5, CalmBefore, PosterAssumption DEF Post, BroadcastPost

LEMMA SpreadsNext ==
  ASSUME IInv, Calm', Connected, CastsGoOut, AppendsFit, Spreads, [Next]_vars
  PROVE  Spreads'
<1> SUFFICES ASSUME NEW c \in mined' \ {NewBlockchain}
             PROVE  \E o \in Node :
                      /\ Len(chain'[o]) >= Len(c)
                      /\ \A p \in Node : Linked(InitialLinks, o, p) => Reaches(o, p, Len(c))'
  BY DEF Spreads
<1>1. CASE c \in mined
  <2>1. PICK o \in Node :
          /\ Len(chain[o]) >= Len(c)
          /\ \A p \in Node : Linked(InitialLinks, o, p) => Reaches(o, p, Len(c))
    BY <1>1 DEF Spreads
  <2>2. Len(c) \in Nat
    BY <1>1, TipHeight
  <2>3. Len(chain'[o]) >= Len(c)
    BY <2>1, <2>2, CalmGrowth
  <2>4. ASSUME NEW p \in Node, Linked(InitialLinks, o, p) PROVE Reaches(o, p, Len(c))'
    <3>1. p \in peers[o] /\ o \in peers[p]
      BY <2>4 DEF Connected, Linked
    <3> QED BY <2>1, <2>2, <2>4, <3>1, ReachesNext
  <2> QED BY <2>3, <2>4
<1>2. CASE c \notin mined
  <2>1. PICK o \in Node : c = chain'[o] /\ pending'[o] # {}
    BY <1>2, NewlyMined
  <2>2. Len(chain'[o]) >= Len(c)
    BY <2>1, CalmGrowth
  <2>3. \A p \in Node : Reaches(o, p, Len(c))'
    BY <2>1 DEF Reaches
  <2> QED BY <2>2, <2>3
<1> QED BY <1>1, <1>2

\* The invariant of a network without faults.
SpreadInv == Calm => Connected /\ CastsGoOut /\ AppendsFit /\ Spreads

LEMMA SpreadInvInit == Init => SpreadInv
<1> SUFFICES ASSUME Init PROVE Connected /\ CastsGoOut /\ AppendsFit /\ Spreads
  BY DEF SpreadInv
<1>1. Connected
  <2> SUFFICES ASSUME NEW n \in Node, NEW p \in Node
               PROVE  /\ Linked(InitialLinks, n, p) => p \in peers[n]
                      /\ p \in peers[n] => {n, p} \in link
    BY DEF Connected
  <2>1. peers[n] = {q \in Node : Linked(InitialLinks, n, q)}
    BY DEF Init
  <2>2. ASSUME Linked(InitialLinks, n, p) PROVE {n, p} \in link
    <3>1. link = {{e[1], e[2]} : e \in InitialLinks}
      BY DEF Init
    <3>2. CASE <<n, p>> \in InitialLinks
      <4>1. {<<n, p>>[1], <<n, p>>[2]} \in link
        BY <3>1, <3>2
      <4> QED BY <4>1
    <3>3. CASE <<p, n>> \in InitialLinks
      <4>1. {<<p, n>>[1], <<p, n>>[2]} \in link
        BY <3>1, <3>3
      <4>2. {p, n} = {n, p}
        OBVIOUS
      <4> QED BY <4>1, <4>2
    <3> QED BY <2>2, <3>2, <3>3 DEF Linked
  <2> QED BY <2>1, <2>2
<1>2. \A n, p \in Node : handler[n][p].pc = "idle"
  BY DEF Init, Idle
<1>3. CastsGoOut
  BY <1>2 DEF Init, CastsGoOut
<1>4. AppendsFit
  BY <1>2 DEF AppendsFit, CopyFits, UpdateFits
<1>5. Spreads
  BY DEF Init, Spreads
<1> QED BY <1>1, <1>3, <1>4, <1>5

LEMMA SpreadInvNext == IInv /\ SpreadInv /\ [Next]_vars => SpreadInv'
<1> SUFFICES ASSUME IInv, SpreadInv, [Next]_vars, Calm'
             PROVE  Connected' /\ CastsGoOut' /\ AppendsFit' /\ Spreads'
  BY DEF SpreadInv
<1>1. TypeOK
  BY DEF IInv
<1>2. Connected /\ CastsGoOut /\ AppendsFit /\ Spreads
  BY <1>1, CalmBefore DEF SpreadInv
<1> QED BY <1>1, <1>2, ConnectedNext, CastsGoOutNext, AppendsFitNext, SpreadsNext

LEMMA SpreadInvariant == Spec => []SpreadInv
BY SpreadInvInit, SpreadInvNext, SyncInvariant, PTL DEF Spec

\* In any overlay: when nothing is under way any more, and no fault has
\* happened, no chain ever mined is known to its miner only.  Some node as
\* high has all the nodes it was first connected to at that height.
NeighboursCatchUp ==
  Calm /\ NothingUnderWay =>
    \A c \in mined \ {NewBlockchain} : \E o \in Node :
      /\ Len(chain[o]) >= Len(c)
      /\ \A p \in Node : Linked(InitialLinks, o, p) => Len(chain[p]) >= Len(c)

LEMMA QuietNeighbours == SpreadInv => NeighboursCatchUp
<1> SUFFICES ASSUME SpreadInv, Calm, NothingUnderWay, NEW c \in mined \ {NewBlockchain}
             PROVE  \E o \in Node :
                      /\ Len(chain[o]) >= Len(c)
                      /\ \A p \in Node : Linked(InitialLinks, o, p) => Len(chain[p]) >= Len(c)
  BY DEF NeighboursCatchUp
<1>1. PICK o \in Node :
        /\ Len(chain[o]) >= Len(c)
        /\ \A p \in Node : Linked(InitialLinks, o, p) => Reaches(o, p, Len(c))
  BY DEF SpreadInv, Spreads
<1>2. ASSUME NEW p \in Node, Reaches(o, p, Len(c)) PROVE Len(chain[p]) >= Len(c)
  <2>1. /\ casts = {} /\ pending[o] = {}
        /\ wire[o][p] = <<>> /\ wire[p][o] = <<>>
        /\ handler[o][p].pc = "idle" /\ handler[p][o].pc = "idle"
    BY DEF NothingUnderWay, Idle
  <2>2. Queued(wire[o][p]) = {} /\ Queued(wire[p][o]) = {}
    BY <2>1, QueuedNone
  <2> QED BY <1>2, <2>1, <2>2
          DEF Reaches, CastTells, QueueTells, QueueAsks, Appends, WillAsk, WillReply
<1> QED BY <1>1, <1>2

\* The news of every chain gets to the first neighbours of a node that is as
\* high, over broadcasts, copies that go stale, requests and answers.
THEOREM NewsReachesNeighbours == Spec => []NeighboursCatchUp
BY SpreadInvariant, QuietNeighbours, PTL

\* The safety half of EventuallySameHeight: a full mesh without faults cannot
\* come to rest with its nodes at different heights.
THEOREM QuietMeshIsLevel == Spec => []QuietIsLevel
<1>1. IInv /\ NeighboursCatchUp => QuietIsLevel
  <2> SUFFICES ASSUME IInv, NeighboursCatchUp, FullyLinked, Calm, NothingUnderWay,
                      NEW n \in Node, NEW p \in Node
               PROVE  Len(chain[n]) <= Len(chain[p])
    <3>1. QuietIsLevel <=> (FullyLinked /\ Calm /\ NothingUnderWay =>
                              \A n, p \in Node : Len(chain[n]) = Len(chain[p]))
      BY DEF QuietIsLevel, Calm
    <3>2. ASSUME IInv, \A n, p \in Node : Len(chain[n]) <= Len(chain[p])
          PROVE  \A n, p \in Node : Len(chain[n]) = Len(chain[p])
      BY <3>2, ChainTypes
    <3> QED BY <3>1, <3>2
  <2>1. chain[n] \in mined /\ Len(chain[n]) \in Nat /\ Len(chain[p]) \in Nat \ {0}
    BY ChainTypes
  <2>2. CASE chain[n] = NewBlockchain
    BY <2>1, <2>2, GenesisIsChain
  <2>3. CASE chain[n] # NewBlockchain
    <3>1. PICK o \in Node :
            /\ Len(chain[o]) >= Len(chain[n])
            /\ \A q \in Node : Linked(InitialLinks, o, q) => Len(chain[q]) >= Len(chain[n])
      BY <2>1, <2>3 DEF NeighboursCatchUp
    <3>2. o = p \/ Linked(InitialLinks, o, p)
      BY DEF FullyLinked
    <3> QED BY <2>1, <3>1, <3>2
  <2> QED BY <2>2, <2>3
<1> QED BY <1>1, SyncInvariant, NewsReachesNeighbours, PTL

----------------------------------------------------------------------------
(* Nodes with a network key.                                               *)

\* What a write, a read and a lost connection leave on the connections of a
\* node that has said nothing.
Muted(w) == \A n \in Node \cap Keyed, p \in Node : w[n][p] = <<>>

LEMMA PutMuted ==
  ASSUME TypeOK, Muted(wire), NEW n \in Node, n \notin Keyed, NEW p \in Node, NEW x, Put(n, p, x)
  PROVE  Muted(wire')
<1>1. \A i \in Node \ {n} : wire'[i] = wire[i]
  BY DEF Put, TypeOK
<1> QED BY <1>1 DEF Muted

LEMMA PopMuted ==
  ASSUME TypeOK, Muted(wire), NEW n \in Node, NEW p \in Node, p \notin Keyed, Pop(n, p)
  PROVE  Muted(wire')
<1>1. \A i \in Node \ {p} : wire'[i] = wire[i]
  BY DEF Pop, TypeOK
<1> QED BY <1>1 DEF Muted

LEMMA WrittenMuted ==
  ASSUME NEW w \in [Node -> [Node -> Seq(InFlight)]], Muted(w), NEW i \in Node, NEW j \in Node,
         NEW v \in Seq(InFlight), i \in Keyed => v = <<>>,
         NEW after, after = [w EXCEPT ![i][j] = v]
  PROVE  after \in [Node -> [Node -> Seq(InFlight)]] /\ Muted(after)
<1>1. after \in [Node -> [Node -> Seq(InFlight)]]
  OBVIOUS
<1>2. ASSUME NEW a \in Node \cap Keyed, NEW b \in Node
      PROVE  after[a][b] = <<>>
  <2>1. w[a][b] = <<>>
    BY DEF Muted
  <2>2. CASE a = i /\ b = j
    BY <2>2
  <2>3. CASE a # i \/ b # j
    BY <2>1, <2>3
  <2> QED BY <2>2, <2>3
<1> QED BY <1>1, <1>2 DEF Muted

Emptied(n, p, tail) == wire' = [wire EXCEPT ![p][n] = <<>>, ![n][p] = tail]

LEMMA EmptiedMuted ==
  ASSUME TypeOK, Muted(wire), NEW n \in Node, NEW p \in Node,
         NEW tail \in {<<>>, wire[n][p]}, Emptied(n, p, tail)
  PROVE  Muted(wire')
<1>1. wire \in [Node -> [Node -> Seq(InFlight)]]
  BY DEF TypeOK
<1>2. <<>> \in Seq(InFlight) /\ tail \in Seq(InFlight)
  <2>1. wire[n][p] \in Seq(InFlight)
    BY <1>1
  <2> QED BY <2>1, EmptySeq
<1>3. n \in Keyed => tail = <<>>
  BY DEF Muted
<1>4. PICK w1 : w1 = [wire EXCEPT ![p][n] = <<>>]
  OBVIOUS
<1>5. w1 \in [Node -> [Node -> Seq(InFlight)]] /\ Muted(w1)
  BY <1>1, <1>2, <1>4, WrittenMuted
<1>6. wire' = [w1 EXCEPT ![n][p] = tail]
  BY <1>4 DEF Emptied
<1> QED BY <1>2, <1>3, <1>5, <1>6, WrittenMuted

LEMMA DisconnectMuted ==
  ASSUME TypeOK, Muted(wire), NEW n \in Node, NEW p \in Node, NEW cs, disconnectPeer(n, p, cs)
  PROVE  Muted(wire')
<1>1. CASE UNCHANGED wire
  BY <1>1
<1>2. CASE \E tail \in {<<>>, wire[n][p]} : Emptied(n, p, tail)
  BY <1>2, EmptiedMuted
<1> QED BY <1>1, <1>2 DEF disconnectPeer, Close, Emptied

\* What a step of the handler of n for p needs.
LEMMA HandleNeeds ==
  ASSUME NEW n \in Node, NEW p \in Node, Handle(n, p)
  PROVE  handler[n][p] # Idle \/ wire[p][n] # <<>>
<1> SUFFICES ASSUME handler[n][p] = [pc |-> "idle"], wire[p][n] = <<>> PROVE FALSE
  BY DEF Idle
<1>1. ~ ReceiveNewBlock(n, p) /\ ~ ReceiveChainRequest(n, p) /\ ~ ReceiveChainResponse(n, p)
  BY DEF ReceiveNewBlock, ReceiveChainRequest, ReceiveChainResponse, Receives
<1>2. ~ CopyChain(n, p) /\ ~ AppendBlock(n, p) /\ ~ SaveChain(n, p) /\ ~ WriteFile(n, p)
  BY DEF CopyChain, AppendBlock, SaveChain, WriteFile
<1>3. ~ SendChain(n, p) /\ \A q \in Node : ~ AskPeer(n, p, q)
  BY DEF SendChain, AskPeer
<1> QED BY <1>1, <1>2, <1>3 DEF Handle

\* A handler of a connection to such a node never has anything to do.
LEMMA NothingFromKeyed ==
  ASSUME KeyedAreMute, NEW n \in Node, NEW p \in Node \cap Keyed, n # p
  PROVE  ~ Handle(n, p)
BY HandleNeeds DEF KeyedAreMute

LEMMA MuteHandle ==
  ASSUME TypeOK, KeyedAreMute, NEW n \in Node, NEW p \in Node, Handle(n, p)
  PROVE  KeyedAreMute'
<1>1. Muted(wire)
  BY DEF KeyedAreMute, Muted
<1>2. \E h : Goto(n, p, h)
  BY DEF Handle, ReceiveNewBlock, CopyChain, AppendBlock, SaveChain, Truncate, WriteFile,
         ReceiveChainRequest, SendChain, ReceiveChainResponse, AskPeer, SaveThen
<1>3. \A i, j \in Node : ~ (i = n /\ j = p) => handler'[i][j] = handler[i][j]
  BY <1>2 DEF Goto, TypeOK
<1>4. Muted(wire')
  <2>1. CASE ReceiveNewBlock(n, p) \/ ReceiveChainRequest(n, p) \/ ReceiveChainResponse(n, p)
    <3>1. wire[p][n] # <<>> /\ Pop(n, p)
      BY <2>1 DEF ReceiveNewBlock, ReceiveChainRequest, ReceiveChainResponse, Receives
    <3>2. p \notin Keyed
      BY <1>1, <3>1 DEF Muted
    <3> QED BY <1>1, <3>1, <3>2, PopMuted
  <2>2. CASE CopyChain(n, p) \/ AppendBlock(n, p) \/ SaveChain(n, p) \/ WriteFile(n, p)
    BY <1>1, <2>2 DEF CopyChain, AppendBlock, SaveChain, WriteFile
  <2>3. CASE SendChain(n, p)
    BY <1>1, <2>3, PutMuted DEF SendChain, CanSend
  <2>4. ASSUME NEW q \in Node, AskPeer(n, p, q) PROVE Muted(wire')
    BY <1>1, <2>4, PutMuted, DisconnectMuted DEF AskPeer, CanSend
  <2> QED BY <2>1, <2>2, <2>3, <2>4 DEF Handle
<1>5. n # p => p \notin Keyed
  BY NothingFromKeyed
<1>6. ASSUME NEW a \in Node \cap Keyed, NEW b \in Node, b # a PROVE handler'[b][a] = Idle
  <2>1. handler[b][a] = Idle
    BY <1>6 DEF KeyedAreMute
  <2>2. ~ (b = n /\ a = p)
    BY <1>5, <1>6
  <2> QED BY <1>3, <2>1, <2>2
<1> QED BY <1>4, <1>6 DEF KeyedAreMute, Muted

LEMMA MuteNext == TypeOK /\ KeyedAreMute /\ [Next]_vars => KeyedAreMute'
<1> SUFFICES ASSUME TypeOK, KeyedAreMute, [Next]_vars PROVE KeyedAreMute'
  OBVIOUS
<1>1. Muted(wire) /\ \A n \in Node \cap Keyed, p \in Node : p # n => handler[p][n] = Idle
  BY DEF KeyedAreMute, Muted
<1>2. ASSUME Muted(wire'),
             \A i, j \in Node : i # j => handler'[i][j] \in {handler[i][j], Idle}
      PROVE  KeyedAreMute'
  BY <1>1, <1>2 DEF KeyedAreMute, Muted
<1>3. CASE Post
  BY <1>1, <1>2, <1>3 DEF Post, AddMessage, BroadcastPost
<1>4. CASE Cast
  <2>1. ASSUME NEW c \in casts, StartCast(c) PROVE KeyedAreMute'
    BY <1>1, <1>2, <2>1 DEF StartCast
  <2>2. ASSUME NEW c \in casts, NEW p \in c.todo, SendCast(c, p) PROVE KeyedAreMute'
    <3>1. c.node \in Node /\ p \in Node /\ UNCHANGED handler
      BY <2>2 DEF TypeOK, Broadcast, SendCast
    <3>2. Muted(wire')
      BY <1>1, <2>2, <3>1, PutMuted, DisconnectMuted DEF SendCast, CastSends, CastLoses, CastFails
    <3> QED BY <1>2, <3>1, <3>2
  <2> QED BY <1>4, <2>1, <2>2 DEF Cast
<1>5. ASSUME NEW n \in Node, NEW p \in Node, Handle(n, p) PROVE KeyedAreMute'
  BY <1>5, MuteHandle
<1>6. CASE Connect
  <2>1. ASSUME NEW n \in Node, NEW p \in Node, Dial(n, p) PROVE KeyedAreMute'
    BY <1>1, <1>2, <2>1, PutMuted DEF Dial
  <2>2. ASSUME NEW n \in Node, NEW p \in Node, Probe(n, p) PROVE KeyedAreMute'
    BY <1>1, <1>2, <2>2, DisconnectMuted DEF Probe
  <2> QED BY <1>6, <2>1, <2>2 DEF Connect
<1>7. CASE Fault
  <2>1. ASSUME NEW n \in Node, NEW p \in Node, Break(n, p) PROVE KeyedAreMute'
    <3>1. Emptied(p, n, <<>>)
      BY <2>1 DEF Break, Emptied
    <3>2. Muted(wire')
      BY <1>1, <3>1, EmptiedMuted
    <3> QED BY <1>2, <2>1, <3>2 DEF Break
  <2>2. ASSUME NEW n \in Node, Restart(n) PROVE KeyedAreMute'
    <3>1. Muted(wire')
      BY <1>1, <2>2 DEF Restart, Muted
    <3>2. \A i, j \in Node : handler'[i][j] \in {handler[i][j], Idle}
      BY <2>2 DEF Restart, TypeOK
    <3> QED BY <1>2, <3>1, <3>2
  <2> QED BY <1>7, <2>1, <2>2 DEF Fault
<1>8. CASE UNCHANGED vars
  BY <1>1, <1>2, <1>8 DEF vars
<1>9. ASSUME NEW n \in Node, SaveTick(n) PROVE KeyedAreMute'
  <2>1. \A i, j \in Node : i # j => handler'[i][j] = handler[i][j]
    BY <1>9 DEF SaveTick, Truncate, Goto, TypeOK
  <2>2. wire' = wire
    BY <1>9 DEF SaveTick
  <2> QED BY <1>1, <1>2, <2>1, <2>2
<1> QED BY <1>3, <1>4, <1>5, <1>6, <1>7, <1>8, <1>9 DEF Next, Save

\* A network key silences a node for good, in any network and with any faults,
\* towards nodes without one, too.
THEOREM KeyedNodesAreMute == Spec => []KeyedAreMute
<1>1. Init => KeyedAreMute
  BY DEF Init, KeyedAreMute
<1> QED BY <1>1, MuteNext, SyncTypes, PTL DEF Spec

\* Only its own users change a node's chain, and only what it has mined itself
\* comes into its file: nothing of its own but the periodic saver runs.
AloneAt(n, c, d, h) ==
  /\ h[n][n].pc \in {"idle", "write"}
  /\ n \notin Poster => c[n] = NewBlockchain /\ d[n] \in {NoFile, NewBlockchain}

Alone == Node \subseteq Keyed => \A n \in Node : AloneAt(n, chain, disk, handler)

LEMMA AloneHandle ==
  ASSUME KeyedAreMute, Node \subseteq Keyed, NEW n \in Node, NEW p \in Node,
         AloneAt(n, chain, disk, handler), Handle(n, p)
  PROVE  n = p /\ WriteFile(n, n)
<1>1. n = p
  BY NothingFromKeyed
<1>2. wire[n][n] = <<>> /\ handler[n][n].pc \in {"idle", "write"}
  BY DEF KeyedAreMute, AloneAt
<1>3. WriteFile(n, n)
  BY <1>1, <1>2 DEF Handle, ReceiveNewBlock, CopyChain, AppendBlock, SaveChain,
     ReceiveChainRequest, SendChain, ReceiveChainResponse, AskPeer, Receives
<1> QED BY <1>1, <1>3

LEMMA AloneNext == TypeOK /\ KeyedAreMute /\ Alone /\ [Next]_vars => Alone'
<1> SUFFICES ASSUME TypeOK, KeyedAreMute, Alone, [Next]_vars, Node \subseteq Keyed, NEW i \in Node
             PROVE  AloneAt(i, chain', disk', handler')
  BY DEF Alone
<1>0. /\ \A n \in Node : AloneAt(n, chain, disk, handler)
      /\ DOMAIN chain = Node /\ DOMAIN disk = Node
      /\ handler \in [Node -> [Node -> HandlerState]]
  BY DEF Alone, TypeOK
<1>1. CASE UNCHANGED <<disk, handler>> /\ (i \notin Poster => chain'[i] = chain[i])
  BY <1>0, <1>1 DEF AloneAt
<1>2. CASE Post
  BY <1>0, <1>1, <1>2 DEF Post, AddMessage, BroadcastPost
<1>3. CASE Cast \/ Connect \/ (\E n, p \in Node : Break(n, p)) \/ UNCHANGED vars
  <2>1. UNCHANGED <<chain, disk, handler>>
    BY <1>3 DEF Cast, StartCast, SendCast, Connect, Dial, Probe, Break, vars
  <2> QED BY <1>1, <2>1
<1>4. ASSUME NEW n \in Node, Restart(n) PROVE AloneAt(i, chain', disk', handler')
  <2>1. LoadFromFile(NoFile) = NewBlockchain
    <3>1. Len(NoFile) = 0 /\ Len(NewBlockchain) = 1
      BY DEF NoFile, NewBlockchain
    <3> QED BY <3>1 DEF LoadFromFile, Accepts
  <2>2. LoadFromFile(NewBlockchain) = NewBlockchain
    BY DEF LoadFromFile
  <2>3. disk' = disk
    BY <1>4 DEF Restart
  <2>4. chain'[i] = IF i = n THEN LoadFromFile(disk[i]) ELSE chain[i]
    BY <1>0, <1>4 DEF Restart
  <2>5. handler'[i][i] = IF i = n THEN Idle ELSE handler[i][i]
    BY <1>0, <1>4 DEF Restart
  <2>6. handler'[i][i].pc \in {"idle", "write"}
    BY <1>0, <2>5 DEF Idle, AloneAt
  <2> QED BY <1>0, <2>1, <2>2, <2>3, <2>4, <2>6 DEF AloneAt
<1>5. ASSUME NEW n \in Node, NEW p \in Node, Handle(n, p)
      PROVE  AloneAt(i, chain', disk', handler')
  <2>1. n = p /\ WriteFile(n, n)
    BY <1>0, <1>5, AloneHandle
  <2>2. chain' = chain /\ disk' = [disk EXCEPT ![n] = chain[n]]
        /\ handler' = [handler EXCEPT ![n][n] = Idle]
    BY <2>1 DEF WriteFile, Goto
  <2>3. handler'[i][i] \in {handler[i][i], Idle} /\ disk'[i] \in {disk[i], chain[i]}
    BY <1>0, <2>2
  <2> QED BY <1>0, <2>2, <2>3 DEF AloneAt, Idle
<1>6. ASSUME NEW n \in Node, SaveTick(n) PROVE AloneAt(i, chain', disk', handler')
  <2>1. chain' = chain /\ disk' = [disk EXCEPT ![n] = NoFile]
        /\ handler' = [handler EXCEPT ![n][n] = [pc |-> "write", casting |-> {}]]
    BY <1>6 DEF SaveTick, Truncate, Goto
  <2>2. disk'[i] \in {disk[i], NoFile}
    BY <1>0, <2>1
  <2>3. handler'[i][i] \in {handler[i][i], [pc |-> "write", casting |-> {}]}
    BY <1>0, <2>1
  <2> QED BY <1>0, <2>1, <2>2, <2>3 DEF AloneAt
<1> QED BY <1>2, <1>3, <1>4, <1>5, <1>6 DEF Next, Save, Fault

\* In a network whose nodes all have a key no message reaches another node: a
\* node whose users post nothing has nothing but its genesis block, at every
\* moment, whatever is posted and acknowledged, dialled and restarted.
THEOREM KeyedNetworksAreSilent == Spec => []KeyedAreAlone
<1>1. Init => Alone
  BY DEF Init, Alone, AloneAt, Idle
<1>2. Alone => KeyedAreAlone
  BY DEF Alone, AloneAt, KeyedAreAlone
<1> QED BY <1>1, <1>2, AloneNext, SyncTypes, KeyedNodesAreMute, PTL DEF Spec
============================================================================
