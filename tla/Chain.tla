------------------------------- MODULE Chain -------------------------------
(***************************************************************************)
(* Blocks and chains of pkg/blockchain: the pure part of the component,    *)
(* shared by every module that holds a chain.                              *)
(*                                                                         *)
(* A block keeps the fields that link and identify it.  A digest is the    *)
(* tuple of the fields CalculateHash feeds to SHA-256, so that two         *)
(* different blocks have different digests (collision freedom is the one   *)
(* idealisation); how many zeros a digest starts with is left open, as     *)
(* the code cannot know it before it has computed the digest.              *)
(***************************************************************************)
EXTENDS Integers, Sequences

CONSTANTS
  Message,          \* messages users post; each is encrypted and mined once
  Nonce,            \* the nonces the mining loop gets to try, from 0 up
  Difficulty,       \* leading zeros a mined digest needs
  LeadingZeros(_)   \* number of leading '0' characters of a digest

ASSUME NonceAssumption == Nonce \subseteq Nat
ASSUME DifficultyAssumption == Difficulty \in Nat

\* PrevHash of the genesis block: "0" in the code, no digest is equal to it.
NoHash == <<>>

CalculateHash(b) == <<b.Index, b.PrevHash, b.Nonce, b.Messages>>

meetsDifficulty(hash) == LeadingZeros(hash) >= Difficulty

WithHash(b) == [b EXCEPT !.Hash = CalculateHash(b)]

Genesis ==
  WithHash([Index |-> 0, PrevHash |-> NoHash, Nonce |-> 0,
            Messages |-> <<>>, Hash |-> NoHash])

NewBlockchain == <<Genesis>>

GetLastBlock(c) == c[Len(c)]

\* Mutant of Candidate: the index of the last block, not the next one.
CandidateSameIndex(c, m, k) ==
  WithHash([Index |-> GetLastBlock(c).Index,
            PrevHash |-> GetLastBlock(c).Hash, Nonce |-> k,
            Messages |-> <<m>>, Hash |-> NoHash])

\* The block AddMessage hands to the miner, at nonce k of the mining loop.
Candidate(c, m, k) ==
  WithHash([Index |-> GetLastBlock(c).Index + 1,
            PrevHash |-> GetLastBlock(c).Hash, Nonce |-> k,
            Messages |-> <<m>>, Hash |-> NoHash])

\* Mutant of SimpleMineBlock: the first nonce is taken as it is.
MineWithoutWork(c, m, k) == k = 0

\* The loop stops at the first nonce whose digest meets the difficulty.
SimpleMineBlock(c, m, k) ==
  /\ meetsDifficulty(Candidate(c, m, k).Hash)
  /\ \A j \in Nonce : j < k => ~ meetsDifficulty(Candidate(c, m, j).Hash)

\* Mutant of BlockFits: no look at the link.
BlockFitsUnlinked(c, i) ==
  /\ c[i].Hash = CalculateHash(c[i])
  /\ c[i].Index > 0 => meetsDifficulty(c[i].Hash)

\* What UpdateChain and LoadFromFile check of every block, in order.
BlockFits(c, i) ==
  /\ c[i].PrevHash = IF i = 1 THEN NoHash ELSE c[i-1].Hash
  /\ c[i].Hash = CalculateHash(c[i])
  /\ c[i].Index > 0 => meetsDifficulty(c[i].Hash)

ValidChain(c) == \A i \in 1..Len(c) : BlockFits(c, i)

\* Mutants of Accepts: any longer chain; any valid chain.
AcceptsUnchecked(cur, new) == Len(new) > Len(cur)
AcceptsAnyLength(cur, new) == new # <<>> /\ ValidChain(new)

\* UpdateChain replaces the chain cur by the chain new.
Accepts(cur, new) == Len(new) > Len(cur) /\ ValidChain(new)

\* VerifyChain looks at the links from the second block on and, unlike
\* UpdateChain, asks for proof of work whatever the block's Index.
VerifyChain(c) ==
  \A i \in 2..Len(c) :
    /\ c[i].Hash = CalculateHash(c[i])
    /\ c[i].PrevHash = c[i-1].Hash
    /\ meetsDifficulty(c[i].Hash)

\* The chain a starting process has: the file's when it is longer than the
\* genesis chain and valid, otherwise the genesis chain.  An unreadable
\* (torn) file is the empty sequence: its error is printed and ignored.
LoadFromFile(file) ==
  IF Accepts(NewBlockchain, file) THEN file ELSE NewBlockchain

\* The messages ReadMessages goes through, in chain order.
HasMessage(c, m) == \E i \in 1..Len(c) : \E k \in 1..Len(c[i].Messages) : c[i].Messages[k] = m

----------------------------------------------------------------------------
\* A block has the five fields that matter here and no others.
IsBlock(b) ==
  b = [Index |-> b.Index, PrevHash |-> b.PrevHash, Nonce |-> b.Nonce,
       Messages |-> b.Messages, Hash |-> b.Hash]

Blocks(c) == {c[i] : i \in 1..Len(c)}

\* What a value has to be for UpdateChain to accept it from anywhere.
IsChain(c) ==
  /\ c \in Seq(Blocks(c)) /\ c # <<>>
  /\ \A i \in 1..Len(c) : IsBlock(c[i])
  /\ ValidChain(c)
============================================================================
