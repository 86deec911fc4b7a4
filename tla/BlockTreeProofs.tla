-------------------------- MODULE BlockTreeProofs --------------------------
(***************************************************************************)
(* BlockTree keeps its invariants for any nodes, messages, nonces and      *)
(* difficulty, and whatever digests look like.                             *)
(***************************************************************************)
EXTENDS BlockTree, ChainProofs

LEMMA InvInit == Init => Inv
<1> SUFFICES ASSUME Init PROVE Inv
  OBVIOUS
<1>1. TypeOK
  BY DEF Init, TypeOK
<1>0. \A i \in 1..Len(NewBlockchain) :
        NewBlockchain[i].Index = i - 1 /\ NewBlockchain[i].Messages = <<>>
  <2>1. \A i \in 1..Len(NewBlockchain) : i = 1
    BY GenesisIsChain
  <2> QED BY <2>1, GenesisIsChain
<1>2. WellFormed
  BY <1>0, GenesisIsChain DEF Init, WellFormed, OneMessageEach
<1>3. IndexIsHeight
  BY <1>0 DEF Init, IndexIsHeight
<1>4. NoDuplicateDelivery /\ OneBlockPerMessage
  BY <1>0 DEF Init, NoDuplicateDelivery, OneBlockPerMessage
<1>5. FileIsNotAhead
  BY EmptySeq, GenesisIsChain DEF Init, FileIsNotAhead, NoFile
<1> QED BY <1>1, <1>2, <1>3, <1>4, <1>5 DEF Inv

\* What mining adds: a chain whose last block has the next height and a
\* message that no block below it has.
LEMMA MinedChain ==
  ASSUME Inv, NEW c \in mined, NEW m \in Message, NEW k,
         Fresh(m), SimpleMineBlock(c, m, k)
  PROVE  LET new == Append(c, Candidate(c, m, k))
         IN /\ IsChain(new) /\ OneMessageEach(new)
            /\ \A i \in 1..Len(new) : new[i].Index = i - 1
            /\ \A i, j \in 1..Len(new) :
                 new[i].Messages = new[j].Messages /\ new[i].Messages # <<>> => i = j
            /\ \A d \in mined : \A i \in 1..Len(new), j \in 1..Len(d) :
                 new[i].Messages = d[j].Messages /\ new[i].Messages # <<>> => new[i] = d[j]
            /\ Len(new) = Len(c) + 1 /\ Len(c) \in Nat
<1> DEFINE b == Candidate(c, m, k)
           new == Append(c, b)
<1>1. /\ IsChain(c) /\ OneMessageEach(c)
      /\ \A i \in 1..Len(c) : c[i].Index = i - 1
      /\ \A i, j \in 1..Len(c) :
           c[i].Messages = c[j].Messages /\ c[i].Messages # <<>> => i = j
      /\ ~ HasMessage(c, m)
  BY DEF Inv, WellFormed, IndexIsHeight, NoDuplicateDelivery, Fresh
<1>2. /\ IsBlock(b) /\ b.PrevHash = GetLastBlock(c).Hash
      /\ b.Hash = CalculateHash(b) /\ meetsDifficulty(b.Hash)
      /\ b.Index = Len(c) /\ b.Messages = <<m>>
  BY <1>1, CandidateFits
<1>3. Len(c) \in Nat \ {0}
  BY <1>1, ChainLength
<1> HIDE DEF b
<1>4. /\ Len(new) = Len(c) + 1
      /\ \A i \in 1..Len(c) : new[i] = c[i]
      /\ new[Len(c) + 1] = b
  BY <1>1, <1>2, AppendShape
<1>5. IsChain(new)
  BY <1>1, <1>2, AppendIsChain
<1> HIDE DEF new
<1>6. \A i \in 1..Len(new) : i \in 1..Len(c) \/ i = Len(c) + 1
  BY <1>3, <1>4
<1>7. OneMessageEach(new)
  BY <1>1, <1>2, <1>4, <1>6 DEF OneMessageEach
<1>8. \A i \in 1..Len(new) : new[i].Index = i - 1
  BY <1>1, <1>2, <1>3, <1>4, <1>6
<1>9. \A d \in mined : \A i \in 1..Len(d) : d[i].Messages # <<m>>
  <2> SUFFICES ASSUME NEW d \in mined, NEW i \in 1..Len(d), d[i].Messages = <<m>>
               PROVE  HasMessage(d, m)
    BY DEF Fresh
  <2>1. 1 \in 1..Len(d[i].Messages) /\ d[i].Messages[1] = m
    OBVIOUS
  <2> QED BY <2>1 DEF HasMessage
<1>10. ASSUME NEW i \in 1..Len(new), NEW j \in 1..Len(new),
              new[i].Messages = new[j].Messages, new[i].Messages # <<>>
       PROVE  i = j
  BY <1>1, <1>2, <1>4, <1>6, <1>9, <1>10
<1>11. ASSUME NEW d \in mined, NEW i \in 1..Len(new), NEW j \in 1..Len(d),
              new[i].Messages = d[j].Messages, new[i].Messages # <<>>
       PROVE  new[i] = d[j]
  <2>1. CASE i \in 1..Len(c)
    BY <1>4, <1>11, <2>1 DEF Inv, OneBlockPerMessage
  <2>2. CASE i = Len(c) + 1
    BY <1>2, <1>4, <1>9, <1>11, <2>2
  <2> QED BY <1>6, <2>1, <2>2
<1> QED BY <1>3, <1>4, <1>5, <1>7, <1>8, <1>10, <1>11 DEF new, b

LEMMA FileLength ==
  ASSUME TypeOK, WellFormed, NEW n \in Node
  PROVE  Len(disk[n]) \in Nat /\ Len(chain[n]) \in Nat
<1>1. \A c \in mined : Len(c) \in Nat
  BY ChainLength DEF WellFormed
<1>2. Len(<<>>) \in Nat
  BY EmptySeq
<1> QED BY <1>1, <1>2 DEF TypeOK, NoFile

LEMMA InvNext == Inv /\ [Next]_vars => Inv'
<1> SUFFICES ASSUME Inv, [Next]_vars PROVE Inv'
  OBVIOUS
<1> USE DEF Inv
<1>1. ASSUME NEW n \in Node, NEW m \in Message, Mine(n, m) PROVE Inv'
  <2>1. PICK k \in Nonce :
          /\ SimpleMineBlock(chain[n], m, k)
          /\ chain' = [chain EXCEPT ![n] = Append(@, Candidate(chain[n], m, k))]
    BY <1>1 DEF Mine
  <2> DEFINE new == Append(chain[n], Candidate(chain[n], m, k))
  <2>2. chain[n] \in mined /\ Fresh(m)
    BY <1>1 DEF TypeOK, Mine
  <2>3. /\ IsChain(new) /\ OneMessageEach(new)
        /\ \A i \in 1..Len(new) : new[i].Index = i - 1
        /\ \A i, j \in 1..Len(new) :
             new[i].Messages = new[j].Messages /\ new[i].Messages # <<>> => i = j
        /\ \A d \in mined : \A i \in 1..Len(new), j \in 1..Len(d) :
             new[i].Messages = d[j].Messages /\ new[i].Messages # <<>> => new[i] = d[j]
        /\ Len(new) = Len(chain[n]) + 1 /\ Len(chain[n]) \in Nat
    BY <2>1, <2>2, MinedChain
  <2>4. chain' = [chain EXCEPT ![n] = new] /\ mined' = mined \cup {new} /\ disk' = disk
    BY <1>1, <2>1 DEF Mine, TypeOK
  <2> HIDE DEF new
  <2>5. TypeOK'
    BY <2>4 DEF TypeOK
  <2>6. WellFormed'
    BY <2>3, <2>4 DEF WellFormed
  <2>7. IndexIsHeight'
    BY <2>3, <2>4 DEF IndexIsHeight
  <2>8. NoDuplicateDelivery'
    BY <2>3, <2>4 DEF NoDuplicateDelivery
  <2>9. OneBlockPerMessage'
    <3> SUFFICES ASSUME NEW c \in mined', NEW d \in mined', NEW i \in 1..Len(c), NEW j \in 1..Len(d),
                        c[i].Messages = d[j].Messages, c[i].Messages # <<>>
                 PROVE  c[i] = d[j]
      BY DEF OneBlockPerMessage
    <3>1. CASE c = new /\ d = new
      BY <2>3, <3>1
    <3>2. CASE c = new /\ d \in mined
      BY <2>3, <3>2
    <3>3. CASE c \in mined /\ d = new
      BY <2>3, <3>3
    <3>4. CASE c \in mined /\ d \in mined
      BY <3>4 DEF OneBlockPerMessage
    <3> QED BY <2>4, <3>1, <3>2, <3>3, <3>4
  <2>10. FileIsNotAhead'
    <3> SUFFICES ASSUME NEW p \in Node PROVE Len(disk[p]) <= Len(chain'[p])
      BY <2>4 DEF FileIsNotAhead
    <3>1. Len(disk[p]) <= Len(chain[p]) /\ Len(disk[p]) \in Nat
      BY FileLength DEF FileIsNotAhead
    <3>2. CASE p = n
      BY <2>3, <2>4, <3>1, <3>2 DEF TypeOK
    <3>3. CASE p # n
      BY <2>4, <3>1, <3>3 DEF TypeOK
    <3> QED BY <3>2, <3>3
  <2> QED BY <2>5, <2>6, <2>7, <2>8, <2>9, <2>10
<1>2. ASSUME mined' = mined, TypeOK', FileIsNotAhead' PROVE Inv'
  BY <1>2 DEF WellFormed, IndexIsHeight, NoDuplicateDelivery, OneBlockPerMessage
<1>0. \A n \in Node : Len(disk[n]) <= Len(chain[n]) /\ Len(disk[n]) \in Nat /\ Len(chain[n]) \in Nat
  BY FileLength DEF FileIsNotAhead
<1>3. ASSUME NEW n \in Node, Adopt(n) PROVE Inv'
  <2>1. PICK c \in mined : Len(c) > Len(chain[n]) /\ chain' = [chain EXCEPT ![n] = c]
    BY <1>3 DEF Adopt
  <2>2. TypeOK' /\ mined' = mined /\ disk' = disk
    BY <1>3, <2>1 DEF Adopt, TypeOK
  <2>3. Len(c) \in Nat
    BY ChainLength DEF WellFormed
  <2>4. \A p \in Node : chain'[p] = IF p = n THEN c ELSE chain[p]
    BY <2>1 DEF TypeOK
  <2>5. FileIsNotAhead'
    BY <1>0, <2>1, <2>2, <2>3, <2>4 DEF FileIsNotAhead
  <2> QED BY <1>2, <2>2, <2>5
<1>4. ASSUME NEW n \in Node, Truncate(n) PROVE Inv'
  <2>1. TypeOK' /\ mined' = mined /\ chain' = chain
    BY <1>4 DEF Truncate, TypeOK
  <2>2. \A p \in Node : disk'[p] = disk[p] \/ disk'[p] = <<>>
    BY <1>4 DEF Truncate, TypeOK, NoFile
  <2>3. FileIsNotAhead'
    BY <1>0, <2>1, <2>2, EmptySeq DEF FileIsNotAhead
  <2> QED BY <1>2, <2>1, <2>3
<1>5. ASSUME NEW n \in Node, Save(n) PROVE Inv'
  <2>1. TypeOK' /\ mined' = mined /\ chain' = chain
    BY <1>5 DEF Save, TypeOK
  <2>2. \A p \in Node : disk'[p] = disk[p] \/ disk'[p] = chain[p]
    BY <1>5 DEF Save, TypeOK
  <2>3. FileIsNotAhead'
    BY <1>0, <2>1, <2>2 DEF FileIsNotAhead
  <2> QED BY <1>2, <2>1, <2>3
<1>6. ASSUME NEW n \in Node, Restart(n) PROVE Inv'
  <2>0. LoadFromFile(disk[n]) \in mined /\ Len(disk[n]) <= Len(LoadFromFile(disk[n]))
    <3>1. NewBlockchain \in mined /\ Len(NewBlockchain) = 1
      BY GenesisIsChain DEF WellFormed
    <3>2. CASE disk[n] \in mined
      <4>1. ValidChain(disk[n]) /\ Len(disk[n]) \in Nat
        BY <3>2, ChainLength DEF WellFormed, IsChain
      <4> QED BY <3>1, <3>2, <4>1 DEF LoadFromFile, Accepts
    <3>3. CASE disk[n] = <<>>
      <4>1. Len(<<>>) = 0
        BY EmptySeq
      <4> QED BY <3>1, <3>3, <4>1 DEF LoadFromFile, Accepts
    <3> QED BY <3>2, <3>3 DEF TypeOK, NoFile
  <2>1. TypeOK' /\ mined' = mined /\ disk' = disk
    BY <1>6, <2>0 DEF Restart, TypeOK
  <2>2. \A p \in Node : chain'[p] = IF p = n THEN LoadFromFile(disk[n]) ELSE chain[p]
    BY <1>6 DEF Restart, TypeOK
  <2>3. FileIsNotAhead'
    BY <1>0, <2>0, <2>1, <2>2 DEF FileIsNotAhead
  <2> QED BY <1>2, <2>1, <2>3
<1>7. ASSUME UNCHANGED vars PROVE Inv'
  BY <1>2, <1>7 DEF vars, TypeOK, FileIsNotAhead
<1> QED BY <1>1, <1>3, <1>4, <1>5, <1>6, <1>7 DEF Next

\* Everything BlockTree promises holds in every reachable state.
THEOREM TreeInvariant == Spec => []Inv
BY InvInit, InvNext, PTL DEF Spec

\* Nodes and files only ever hold chains that were mined as a whole.
THEOREM TreeTypes == Spec => []TypeOK
<1>1. Inv => TypeOK
  BY DEF Inv
<1> QED BY <1>1, TreeInvariant, PTL
============================================================================
