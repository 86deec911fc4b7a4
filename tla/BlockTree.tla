----------------------------- MODULE BlockTree -----------------------------
(***************************************************************************)
(* What the nodes of an AetherWave network promise together, without the   *)
(* network: a node extends the chain it has with one new message, replaces *)
(* it by a strictly longer chain that some node has mined, writes it to    *)
(* its file, and after a restart goes on from the file or from genesis.    *)
(* Nothing else ever happens to a chain.  ChainSync implements this.       *)
(***************************************************************************)
EXTENDS Chain

CONSTANT Node

VARIABLES
  chain,   \* chain[n]: the chain node n has
  disk,    \* disk[n]: the chain in n's file, NoFile when there is none
  mined    \* every chain mining has produced

vars == <<chain, disk, mined>>

NoFile == <<>>

Fresh(m) == \A c \in mined : ~ HasMessage(c, m)

Init ==
  /\ chain = [n \in Node |-> NewBlockchain]
  /\ disk = [n \in Node |-> NoFile]
  /\ mined = {NewBlockchain}

\* A message is mined once, on top of what the node has.
Mine(n, m) ==
  /\ Fresh(m)
  /\ \E k \in Nonce :
       /\ SimpleMineBlock(chain[n], m, k)
       /\ chain' = [chain EXCEPT ![n] = Append(@, Candidate(chain[n], m, k))]
  /\ mined' = mined \cup {chain'[n]}
  /\ UNCHANGED disk

\* Longest chain rule.
Adopt(n) ==
  /\ \E c \in mined : Len(c) > Len(chain[n]) /\ chain' = [chain EXCEPT ![n] = c]
  /\ UNCHANGED <<disk, mined>>

Truncate(n) == disk' = [disk EXCEPT ![n] = NoFile] /\ UNCHANGED <<chain, mined>>

Save(n) == disk' = [disk EXCEPT ![n] = chain[n]] /\ UNCHANGED <<chain, mined>>

Restart(n) ==
  chain' = [chain EXCEPT ![n] = LoadFromFile(disk[n])] /\ UNCHANGED <<disk, mined>>

Next ==
  \/ \E n \in Node, m \in Message : Mine(n, m)
  \/ \E n \in Node : Adopt(n) \/ Truncate(n) \/ Save(n) \/ Restart(n)

Spec == Init /\ [][Next]_vars

----------------------------------------------------------------------------
\* Type invariant: nodes and files hold chains that were mined.
TypeOK ==
  /\ chain \in [Node -> mined]
  /\ disk \in [Node -> mined \cup {NoFile}]

\* UpdateChain never looks at Index, but handleNewBlock decides by it
\* whether a block is old, next or ahead: in every chain a block's Index is
\* its distance from genesis.
IndexIsHeight ==
  \A c \in mined : \A i \in 1..Len(c) : c[i].Index = i - 1

\* ReadMessages never shows a message twice: no chain has it in two blocks,
\* however the nodes fork, fall back to genesis and mine on.
NoDuplicateDelivery ==
  \A c \in mined : \A i, j \in 1..Len(c) :
    c[i].Messages = c[j].Messages /\ c[i].Messages # <<>> => i = j

\* A message is in one block, whatever chains show it: it was mined once, and
\* what else gets to a chain is a block some chain had.
OneBlockPerMessage ==
  \A c, d \in mined : \A i \in 1..Len(c), j \in 1..Len(d) :
    c[i].Messages = d[j].Messages /\ c[i].Messages # <<>> => c[i] = d[j]

\* A file is never ahead of its process, so that no restart brings a node
\* forward: what is written is the chain of that moment, a running process only
\* goes on to longer ones, and a restart refuses no file but a genesis chain.
FileIsNotAhead == \A n \in Node : Len(disk[n]) <= Len(chain[n])

----------------------------------------------------------------------------
\* The inductive invariant behind the properties above.
OneMessageEach(c) ==
  \A i \in 1..Len(c) : c[i].Messages = <<>> \/ \E m \in Message : c[i].Messages = <<m>>

WellFormed ==
  /\ NewBlockchain \in mined
  /\ \A c \in mined : IsChain(c) /\ OneMessageEach(c)

Inv ==
  /\ TypeOK /\ WellFormed /\ IndexIsHeight
  /\ NoDuplicateDelivery /\ OneBlockPerMessage /\ FileIsNotAhead
============================================================================
