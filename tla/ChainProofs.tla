---------------------------- MODULE ChainProofs ----------------------------
(* Lemmas about blocks and chains, for the proofs about what holds them. *)
EXTENDS Chain, SequenceTheorems, WellFoundedInduction, TLAPS

\* Blocks with the same digest are the same block: CalculateHash covers every
\* field but Hash, and ValidChain ties Hash to the digest.
LEMMA HashDeterminesBlock ==
  ASSUME NEW b, NEW d, IsBlock(b), IsBlock(d),
         b.Hash = CalculateHash(b), d.Hash = CalculateHash(d), b.Hash = d.Hash
  PROVE  b = d
<1>1. /\ b.Index = d.Index /\ b.PrevHash = d.PrevHash
      /\ b.Nonce = d.Nonce /\ b.Messages = d.Messages
  BY DEF CalculateHash
<1> QED BY <1>1 DEF IsBlock

\* No block follows NoHash: the genesis block of a chain has no predecessor.
LEMMA HashIsNotNoHash == \A b : CalculateHash(b) # NoHash
BY DEF CalculateHash, NoHash

\* A non-empty set of natural numbers has a least member.
LEMMA LeastNatural ==
  ASSUME NEW T, T \subseteq Nat, T # {}
  PROVE  \E k \in T : \A j \in T : k <= j
<1>1. PICK k \in T : \A j \in T : ~ (<<j, k>> \in OpToRel(<, Nat))
  BY WFMin, NatLessThanWellFounded
<1>2. \A j \in T : ~ (j < k)
  BY <1>1 DEF OpToRel
<1> QED BY <1>2

LEMMA ChainLength ==
  ASSUME NEW c, IsChain(c)
  PROVE  Len(c) \in Nat \ {0}
BY LenProperties, EmptySeq DEF IsChain

\* The tip of a valid chain commits to the chain: the argument behind every
\* comparison of last hashes in handleNewBlock and UpdateChain.
THEOREM TipCommitsToChain ==
  ASSUME NEW c, NEW d, IsChain(c), IsChain(d),
         GetLastBlock(c).Hash = GetLastBlock(d).Hash
  PROVE  c = d
<1> DEFINE m == Len(c)
           k == Len(d)
           Differ == {j \in Nat : j < m /\ j < k /\ c[m - j] # d[k - j]}
<1>1. m \in Nat \ {0} /\ k \in Nat \ {0}
  BY ChainLength
<1>2. \A i \in 1..m : IsBlock(c[i]) /\ c[i].Hash = CalculateHash(c[i])
  BY DEF IsChain, ValidChain, BlockFits
<1>3. \A i \in 1..k : IsBlock(d[i]) /\ d[i].Hash = CalculateHash(d[i])
  BY DEF IsChain, ValidChain, BlockFits
<1>4. \A i \in 1..m : c[i].PrevHash = IF i = 1 THEN NoHash ELSE c[i-1].Hash
  BY DEF IsChain, ValidChain, BlockFits
<1>5. \A i \in 1..k : d[i].PrevHash = IF i = 1 THEN NoHash ELSE d[i-1].Hash
  BY DEF IsChain, ValidChain, BlockFits
<1> HIDE DEF m, k
<1>6. Differ = {}
  <2> SUFFICES ASSUME Differ # {} PROVE FALSE
    OBVIOUS
  <2>1. PICK j \in Differ : \A i \in Differ : j <= i
    <3>1. Differ \subseteq Nat
      OBVIOUS
    <3> HIDE DEF Differ
    <3> QED BY <3>1, LeastNatural
  <2>2. CASE j = 0
    <3>1. c[m].Hash = d[k].Hash
      BY DEF GetLastBlock, m, k
    <3>2. c[m] = d[k]
      BY <1>1, <1>2, <1>3, <3>1, HashDeterminesBlock
    <3> QED BY <1>1, <2>1, <2>2, <3>2
  <2>3. CASE j # 0
    <3>1. j - 1 \in Nat /\ j - 1 < m /\ j - 1 < k /\ j - 1 \notin Differ
      BY <1>1, <2>1, <2>3
    <3>2. c[m - j + 1] = d[k - j + 1]
      <4>1. m - (j - 1) = m - j + 1 /\ k - (j - 1) = k - j + 1
        BY <1>1, <2>1
      <4> QED BY <3>1, <4>1
    <3>3. /\ m - j \in 1..m /\ k - j \in 1..k
          /\ m - j + 1 \in 1..m /\ k - j + 1 \in 1..k
          /\ (m - j + 1) - 1 = m - j /\ (k - j + 1) - 1 = k - j
          /\ m - j + 1 # 1 /\ k - j + 1 # 1
      BY <1>1, <2>1, <2>3
    <3>4. c[m - j].Hash = d[k - j].Hash
      BY <1>4, <1>5, <3>2, <3>3
    <3>5. c[m - j] = d[k - j]
      BY <1>2, <1>3, <3>3, <3>4, HashDeterminesBlock
    <3> QED BY <2>1, <3>5
  <2> QED BY <2>2, <2>3
<1>7. \A j \in Nat : j < m /\ j < k => c[m - j] = d[k - j]
  BY <1>6
<1>8. ~ (m < k)
  <2> SUFFICES ASSUME m < k PROVE FALSE
    OBVIOUS
  <2>1. m - 1 \in Nat /\ m - 1 < m /\ m - 1 < k /\ m - (m - 1) = 1 /\ k - (m - 1) = k - m + 1
    BY <1>1
  <2>2. c[1] = d[k - m + 1]
    BY <1>7, <2>1
  <2>3. 1 \in 1..m /\ k - m + 1 \in 1..k /\ k - m \in 1..k /\ k - m + 1 # 1 /\ (k - m + 1) - 1 = k - m
    BY <1>1
  <2>4. d[k - m].Hash = NoHash
    BY <1>4, <1>5, <2>2, <2>3
  <2> QED BY <1>3, <2>3, <2>4, HashIsNotNoHash
<1>9. ~ (k < m)
  <2> SUFFICES ASSUME k < m PROVE FALSE
    OBVIOUS
  <2>1. k - 1 \in Nat /\ k - 1 < m /\ k - 1 < k /\ k - (k - 1) = 1 /\ m - (k - 1) = m - k + 1
    BY <1>1
  <2>2. d[1] = c[m - k + 1]
    BY <1>7, <2>1
  <2>3. 1 \in 1..k /\ m - k + 1 \in 1..m /\ m - k \in 1..m /\ m - k + 1 # 1 /\ (m - k + 1) - 1 = m - k
    BY <1>1
  <2>4. c[m - k].Hash = NoHash
    BY <1>4, <1>5, <2>2, <2>3
  <2> QED BY <1>2, <2>3, <2>4, HashIsNotNoHash
<1>10. m = k
  BY <1>1, <1>8, <1>9
<1>11. \A i \in 1..m : c[i] = d[i]
  <2> TAKE i \in 1..m
  <2>1. m - i \in Nat /\ m - i < m /\ m - i < k /\ m - (m - i) = i /\ k - (m - i) = i
    BY <1>1, <1>10
  <2> QED BY <1>7, <2>1
<1>12. c \in Seq(Blocks(c) \cup Blocks(d)) /\ d \in Seq(Blocks(c) \cup Blocks(d))
  <2>1. c \in Seq(Blocks(c)) /\ d \in Seq(Blocks(d))
    BY DEF IsChain
  <2> QED BY <2>1, SeqMonotonic
<1> QED BY <1>10, <1>11, <1>12, SeqEqual DEF m, k

\* What a chain was before its later blocks is a chain.
LEMMA PrefixIsChain ==
  ASSUME NEW c, IsChain(c), NEW i \in 1..Len(c)
  PROVE  /\ IsChain(SubSeq(c, 1, i)) /\ Len(SubSeq(c, 1, i)) = i
         /\ GetLastBlock(SubSeq(c, 1, i)) = c[i]
<1> DEFINE e == SubSeq(c, 1, i)
<1>1. Len(c) \in Nat \ {0} /\ i \in Int /\ 1 <= i
  BY ChainLength
<1>2. \A k \in 1..i : k \in 1..Len(c) /\ 1 + k - 1 = k
  BY <1>1
<1>3. e \in Seq(Blocks(c)) /\ Len(e) = i /\ \A k \in 1..i : e[k] = c[k]
  <2>1. \A k \in 1..i : c[k] \in Blocks(c)
    BY <1>2 DEF Blocks
  <2>2. /\ e \in Seq(Blocks(c))
        /\ Len(e) = IF 1 <= i THEN i - 1 + 1 ELSE 0
        /\ \A k \in 1..i - 1 + 1 : e[k] = c[1 + k - 1]
    BY <1>1, <2>1, SubSeqProperties
  <2>3. i - 1 + 1 = i
    BY <1>1
  <2> HIDE DEF e
  <2> QED BY <1>1, <1>2, <2>2, <2>3
<1> HIDE DEF e
<1>4. e \in Seq(Blocks(e)) /\ e # <<>>
  <2>1. e \in [1..Len(e) -> Blocks(c)] /\ Len(e) \in Nat
    BY <1>3, LenProperties
  <2>2. e \in [1..Len(e) -> Blocks(e)]
    BY <2>1 DEF Blocks
  <2> QED BY <1>1, <1>3, <2>1, <2>2, SeqDef, EmptySeq
<1>5. ASSUME NEW k \in 1..Len(e) PROVE IsBlock(e[k]) /\ BlockFits(e, k)
  <2>1. k \in 1..Len(c) /\ e[k] = c[k] /\ (k # 1 => k - 1 \in 1..i /\ e[k - 1] = c[k - 1])
    BY <1>1, <1>3
  <2>2. IsBlock(c[k]) /\ BlockFits(c, k)
    BY <2>1 DEF IsChain, ValidChain
  <2> QED BY <2>1, <2>2 DEF BlockFits
<1>6. GetLastBlock(e) = c[i]
  BY <1>1, <1>3 DEF GetLastBlock
<1> QED BY <1>3, <1>4, <1>5, <1>6 DEF IsChain, ValidChain, e

\* A block commits to everything below it: two valid chains that have a hash
\* in common, wherever, have it at one height and agree up to there.
THEOREM BlockCommitsToHistory ==
  ASSUME NEW c, NEW d, IsChain(c), IsChain(d),
         NEW i \in 1..Len(c), NEW j \in 1..Len(d), c[i].Hash = d[j].Hash
  PROVE  i = j /\ SubSeq(c, 1, i) = SubSeq(d, 1, j)
<1>1. /\ IsChain(SubSeq(c, 1, i)) /\ Len(SubSeq(c, 1, i)) = i
      /\ GetLastBlock(SubSeq(c, 1, i)) = c[i]
  BY PrefixIsChain
<1>2. /\ IsChain(SubSeq(d, 1, j)) /\ Len(SubSeq(d, 1, j)) = j
      /\ GetLastBlock(SubSeq(d, 1, j)) = d[j]
  BY PrefixIsChain
<1>3. SubSeq(c, 1, i) = SubSeq(d, 1, j)
  BY <1>1, <1>2, TipCommitsToChain
<1> QED BY <1>1, <1>2, <1>3

\* Appending a block changes nothing below it.
LEMMA AppendShape ==
  ASSUME NEW c, NEW b, IsChain(c), IsBlock(b)
  PROVE  /\ Append(c, b) \in Seq(Blocks(Append(c, b)))
         /\ Append(c, b) # <<>>
         /\ Len(Append(c, b)) = Len(c) + 1
         /\ \A i \in 1..Len(c) : Append(c, b)[i] = c[i]
         /\ Append(c, b)[Len(c) + 1] = b
         /\ \A i \in 1..Len(Append(c, b)) : IsBlock(Append(c, b)[i])
         /\ GetLastBlock(Append(c, b)) = b
<1> DEFINE S == Blocks(c) \cup {b}
           e == Append(c, b)
<1>1. c \in Seq(S) /\ b \in S
  BY SeqMonotonic DEF IsChain
<1>2. /\ e \in Seq(S) /\ e # <<>> /\ Len(e) = Len(c) + 1
      /\ \A i \in 1..Len(c) : e[i] = c[i]
      /\ e[Len(c) + 1] = b
  <2> HIDE DEF S
  <2> QED BY <1>1, AppendProperties
<1>3. Len(c) \in Nat \ {0}
  BY ChainLength
<1>4. e \in Seq(Blocks(e))
  <2>1. e \in [1..Len(e) -> S] /\ Len(e) \in Nat
    <3> HIDE DEF S, e
    <3> QED BY <1>2, LenProperties
  <2>2. \A i \in 1..Len(e) : e[i] \in Blocks(e)
    BY DEF Blocks
  <2>3. e \in [1..Len(e) -> Blocks(e)]
    <3> HIDE DEF S, e
    <3> QED BY <2>1, <2>2
  <2> HIDE DEF e
  <2> QED BY <2>1, <2>3, SeqDef
<1>5. \A i \in 1..Len(e) : IsBlock(e[i])
  <2> TAKE i \in 1..Len(e)
  <2>1. i \in 1..Len(c) \/ i = Len(c) + 1
    BY <1>2, <1>3
  <2> QED BY <1>2, <2>1 DEF IsChain
<1>6. GetLastBlock(e) = b
  BY <1>2 DEF GetLastBlock
<1> QED BY <1>2, <1>4, <1>5, <1>6

\* A block that fits the tip of a chain extends it to a chain.
LEMMA AppendIsChain ==
  ASSUME NEW c, NEW b, IsChain(c), IsBlock(b),
         b.PrevHash = GetLastBlock(c).Hash, b.Hash = CalculateHash(b),
         b.Index > 0 => meetsDifficulty(b.Hash)
  PROVE  IsChain(Append(c, b))
<1> DEFINE e == Append(c, b)
<1>1. Len(c) \in Nat \ {0}
  BY ChainLength
<1>2. /\ e \in Seq(Blocks(e)) /\ e # <<>> /\ Len(e) = Len(c) + 1
      /\ \A i \in 1..Len(c) : e[i] = c[i]
      /\ e[Len(c) + 1] = b
      /\ \A i \in 1..Len(e) : IsBlock(e[i])
  BY AppendShape
<1> HIDE DEF e
<1>3. ASSUME NEW i \in 1..Len(e) PROVE BlockFits(e, i)
  <2>1. CASE i \in 1..Len(c)
    <3>1. BlockFits(c, i)
      BY <2>1 DEF IsChain, ValidChain
    <3>2. i # 1 => i - 1 \in 1..Len(c)
      BY <1>1, <2>1
    <3> QED BY <1>2, <2>1, <3>1, <3>2 DEF BlockFits
  <2>2. CASE i = Len(c) + 1
    <3>1. i # 1 /\ i - 1 = Len(c) /\ Len(c) \in 1..Len(c)
      BY <1>1, <2>2
    <3> QED BY <1>2, <2>2, <3>1 DEF BlockFits, GetLastBlock
  <2> QED BY <1>1, <1>2, <2>1, <2>2
<1> QED BY <1>2, <1>3 DEF IsChain, ValidChain, e

\* What UpdateChain accepts is a chain, if it was built from a chain and a
\* block of the right shape.
LEMMA ValidAppendIsChain ==
  ASSUME NEW c, NEW b, IsChain(c), IsBlock(b), ValidChain(Append(c, b))
  PROVE  IsChain(Append(c, b))
BY AppendShape DEF IsChain

LEMMA GenesisIsChain ==
  /\ IsChain(NewBlockchain)
  /\ Len(NewBlockchain) = 1
  /\ NewBlockchain[1] = Genesis
  /\ Genesis.Index = 0 /\ Genesis.Messages = <<>>
<1>1. /\ IsBlock(Genesis) /\ Genesis.PrevHash = NoHash
      /\ Genesis.Hash = CalculateHash(Genesis)
      /\ Genesis.Index = 0 /\ Genesis.Messages = <<>>
  <2> DEFINE raw == [Index |-> 0, PrevHash |-> NoHash, Nonce |-> 0,
                     Messages |-> <<>>, Hash |-> NoHash]
  <2>1. Genesis = [raw EXCEPT !.Hash = <<0, NoHash, 0, <<>> >>]
    BY DEF Genesis, WithHash, CalculateHash
  <2>2. Genesis = [Index |-> 0, PrevHash |-> NoHash, Nonce |-> 0,
                   Messages |-> <<>>, Hash |-> <<0, NoHash, 0, <<>> >>]
    BY <2>1
  <2> QED BY <2>2 DEF IsBlock, CalculateHash
<1> HIDE DEF Genesis
<1>2. Len(NewBlockchain) = 1 /\ NewBlockchain[1] = Genesis /\ NewBlockchain # <<>>
  BY DEF NewBlockchain
<1>3. NewBlockchain \in Seq(Blocks(NewBlockchain))
  <2>1. Genesis \in Blocks(NewBlockchain)
    BY <1>2 DEF Blocks
  <2> QED BY <2>1 DEF NewBlockchain
<1>4. \A i \in 1..Len(NewBlockchain) : i = 1
  BY <1>2
<1>5. ValidChain(NewBlockchain)
  BY <1>1, <1>2, <1>4 DEF ValidChain, BlockFits
<1> QED BY <1>1, <1>2, <1>3, <1>4, <1>5 DEF IsChain

\* The block that AddMessage mines on a chain whose indices are heights.
LEMMA CandidateFits ==
  ASSUME NEW c, NEW m, NEW k, IsChain(c),
         \A i \in 1..Len(c) : c[i].Index = i - 1,
         SimpleMineBlock(c, m, k)
  PROVE  LET b == Candidate(c, m, k)
         IN /\ IsBlock(b) /\ b.PrevHash = GetLastBlock(c).Hash
            /\ b.Hash = CalculateHash(b) /\ meetsDifficulty(b.Hash)
            /\ b.Index = Len(c) /\ b.Messages = <<m>>
<1>1. Len(c) \in Nat \ {0}
  BY ChainLength
<1>2. GetLastBlock(c).Index + 1 = Len(c)
  BY <1>1 DEF GetLastBlock
<1>3. /\ IsBlock(Candidate(c, m, k))
      /\ Candidate(c, m, k).PrevHash = GetLastBlock(c).Hash
      /\ Candidate(c, m, k).Hash = CalculateHash(Candidate(c, m, k))
      /\ Candidate(c, m, k).Index = GetLastBlock(c).Index + 1
      /\ Candidate(c, m, k).Messages = <<m>>
  BY DEF Candidate, WithHash, IsBlock, CalculateHash
<1>4. meetsDifficulty(Candidate(c, m, k).Hash)
  BY DEF SimpleMineBlock
<1> QED BY <1>2, <1>3, <1>4

\* VerifyChain asks for nothing that a chain with heights for indices lacks.
LEMMA ChainVerifies ==
  ASSUME NEW c, IsChain(c), \A i \in 1..Len(c) : c[i].Index = i - 1
  PROVE  VerifyChain(c)
<1>1. Len(c) \in Nat \ {0}
  BY ChainLength
<1>2. \A i \in 2..Len(c) : i \in 1..Len(c) /\ i # 1 /\ i - 1 > 0
  BY <1>1
<1>3. \A i \in 1..Len(c) : BlockFits(c, i)
  BY DEF IsChain, ValidChain
<1> QED BY <1>2, <1>3 DEF VerifyChain, BlockFits
============================================================================
