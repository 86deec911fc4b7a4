-------------------------- MODULE RateLimiterProofs --------------------------
(***************************************************************************)
(* The rate limiter keeps within a token bucket, and serves who has kept   *)
(* quiet for a second, whatever the rates, the burst and the clients.      *)
(***************************************************************************)
EXTENDS RateLimiter, TLAPS

USE TicksAssumption, BurstAssumption, MinuteAssumption

\* Whole seconds, counted back in ticks, are never more than what has passed.
LEMMA WholeSeconds ==
  ASSUME NEW e \in Nat
  PROVE  /\ e \div TicksPerSecond \in Nat
         /\ (e \div TicksPerSecond) * TicksPerSecond <= e
         /\ e >= TicksPerSecond => e \div TicksPerSecond >= 1
  OBVIOUS

\* Products with the length of a second are ordered as their factors are.
LEMMA Scaled ==
  ASSUME NEW a \in Int, NEW b \in Int, a <= b
  PROVE  /\ a * TicksPerSecond \in Int
         /\ a * TicksPerSecond <= b * TicksPerSecond
         /\ (b - 1) * TicksPerSecond = b * TicksPerSecond - TicksPerSecond
         /\ (a + b) * TicksPerSecond = a * TicksPerSecond + b * TicksPerSecond
  OBVIOUS

LEMMA FullFacts == Full \in Nat /\ Full <= Minute /\ TicksPerSecond <= Full
  BY DEF Full

LEMMA LimiterInvInit == LimiterInit => LimiterInv
  BY FullFacts DEF LimiterInit, LimiterInv, LimiterTypeOK, Covered

LEMMA LimiterInvTick ==
  ASSUME LimiterInv, Tick
  PROVE  LimiterInv'
<1>1. LimiterTypeOK'
  BY FullFacts DEF LimiterInv, LimiterTypeOK, Tick, Lesser
<1>2. Covered'
  <2> SUFFICES ASSUME NEW k \in Client
               PROVE  IF k \in DOMAIN tokens
                      THEN /\ bucket'[k] <= Full
                           /\ \/ bucket'[k] = Full
                              \/ bucket'[k] >= tokens[k] * TicksPerSecond + (now' - lastSeen[k])
                      ELSE bucket'[k] = Full
    BY DEF Covered, Tick
  <2>1. bucket'[k] = Lesser(bucket[k] + 1, Full) /\ bucket[k] \in Int /\ now' = now + 1 /\ now \in Nat
    BY DEF Tick, LimiterInv, LimiterTypeOK
  <2>2. CASE k \notin DOMAIN tokens
    BY <2>1, <2>2, FullFacts DEF LimiterInv, Covered, Lesser
  <2>3. CASE k \in DOMAIN tokens
    <3> DEFINE due == tokens[k] * TicksPerSecond
    <3>1. tokens[k] \in 0..burstSize /\ lastSeen[k] \in 0..now
      BY <2>3 DEF LimiterInv, LimiterTypeOK
    <3>2. due \in Int
      BY <3>1
    <3>3. bucket[k] <= Full /\ (bucket[k] = Full \/ bucket[k] >= due + (now - lastSeen[k]))
      BY <2>3 DEF LimiterInv, Covered
    <3> HIDE DEF due
    <3>4. /\ bucket'[k] <= Full
          /\ bucket'[k] = Full \/ bucket'[k] >= due + (now' - lastSeen[k])
      BY <2>1, <3>1, <3>2, <3>3, FullFacts DEF Lesser
    <3> QED BY <3>4, <2>3 DEF due
  <2> QED BY <2>2, <2>3
<1> QED BY <1>1, <1>2 DEF LimiterInv

\* What the refill gives a client is covered by what it has earned.
LEMMA RefillIsEarned ==
  ASSUME LimiterInv, NEW k \in Client
  PROVE  /\ Refill(k) \in 0..burstSize
         /\ Refill(k) * TicksPerSecond \in Int
         /\ Refill(k) * TicksPerSecond <= bucket[k]
         /\ bucket[k] \in Int /\ bucket[k] <= Full
<1>1. bucket[k] \in Int /\ bucket[k] <= Full
  BY FullFacts DEF LimiterInv, LimiterTypeOK, Covered
<1>2. CASE k \notin Recent
  <2>1. Refill(k) = burstSize
    BY <1>2 DEF Refill
  <2>2. bucket[k] = Full
    <3>1. CASE k \notin DOMAIN tokens
      BY <3>1 DEF LimiterInv, Covered
    <3>2. CASE k \in DOMAIN tokens
      <4> DEFINE due == tokens[k] * TicksPerSecond
      <4>1. tokens[k] \in Nat /\ lastSeen[k] \in 0..now /\ now \in Nat
        BY <3>2 DEF LimiterInv, LimiterTypeOK
      <4>2. now - lastSeen[k] > Minute
        BY <1>2, <3>2, <4>1 DEF Recent, LimiterInv, LimiterTypeOK
      <4>3. due \in Nat
        BY <4>1
      <4>4. bucket[k] = Full \/ bucket[k] >= due + (now - lastSeen[k])
        BY <3>2 DEF LimiterInv, Covered
      <4> HIDE DEF due
      <4> QED BY <4>1, <4>2, <4>3, <4>4, <1>1, FullFacts
    <3> QED BY <3>1, <3>2
  <2> QED BY <2>1, <2>2, <1>1, FullFacts DEF Full
<1>3. CASE k \in Recent
  <2> DEFINE e == now - lastSeen[k]
             s == e \div TicksPerSecond
  <2>1. k \in DOMAIN tokens /\ tokens[k] \in 0..burstSize /\ lastSeen[k] \in 0..now /\ now \in Nat
    BY <1>3 DEF Recent, LimiterInv, LimiterTypeOK
  <2>2. e \in Nat
    BY <2>1
  <2> HIDE DEF e
  <2>3. s \in Nat /\ s * TicksPerSecond <= e /\ s * TicksPerSecond \in Int
    BY <2>2, WholeSeconds
  <2> HIDE DEF s
  <2>4. Refill(k) = Lesser(tokens[k] + s, burstSize)
    BY <1>3 DEF Refill, s, e
  <2>5. Refill(k) \in 0..burstSize /\ Refill(k) <= tokens[k] + s
    BY <2>1, <2>3, <2>4 DEF Lesser
  <2>6. (tokens[k] + s) * TicksPerSecond = tokens[k] * TicksPerSecond + s * TicksPerSecond
    BY <2>1, <2>3
  <2>7. /\ Refill(k) * TicksPerSecond <= (tokens[k] + s) * TicksPerSecond
        /\ Refill(k) * TicksPerSecond <= Full
        /\ Refill(k) * TicksPerSecond \in Int
    BY <2>1, <2>3, <2>5, Scaled DEF Full
  <2>8. bucket[k] = Full \/ bucket[k] >= tokens[k] * TicksPerSecond + e
    BY <2>1 DEF LimiterInv, Covered, e
  <2>9. tokens[k] * TicksPerSecond \in Int
    BY <2>1
  <2> QED BY <1>1, <2>2, <2>3, <2>5, <2>6, <2>7, <2>8, <2>9, FullFacts
<1> QED BY <1>2, <1>3

LEMMA LimiterInvRequest ==
  ASSUME LimiterInv, NEW k \in Client, Request(k)
  PROVE  LimiterInv'
<1> DEFINE t == Refill(k)
           left == IF Allowed(t) THEN t - 1 ELSE t
<1>1. /\ t \in 0..burstSize /\ t * TicksPerSecond \in Int /\ t * TicksPerSecond <= bucket[k]
      /\ bucket[k] \in Int /\ bucket[k] <= Full
  BY RefillIsEarned
<1>2. /\ tokens' = [c \in Kept(k) |-> IF c = k THEN left ELSE tokens[c]]
      /\ lastSeen' = [c \in Kept(k) |-> IF c = k THEN now ELSE lastSeen[c]]
      /\ bucket' = IF Allowed(t) THEN [bucket EXCEPT ![k] = @ - TicksPerSecond] ELSE bucket
      /\ now' = now
  BY DEF Request
<1>3. left \in 0..burstSize
  BY <1>1 DEF Allowed
<1>4. (t - 1) * TicksPerSecond = t * TicksPerSecond - TicksPerSecond
  BY <1>1
<1> HIDE DEF t
<1>5. Kept(k) \subseteq Client /\ Recent \subseteq DOMAIN tokens
  BY DEF Kept, Recent, LimiterInv, LimiterTypeOK
<1>6. LimiterTypeOK'
  <2>1. tokens' \in [Kept(k) -> 0..burstSize]
    BY <1>2, <1>3, <1>5 DEF Kept, LimiterInv, LimiterTypeOK
  <2>2. lastSeen' \in [Kept(k) -> 0..now']
    BY <1>2, <1>5 DEF Kept, LimiterInv, LimiterTypeOK
  <2>3. bucket' \in [Client -> Int]
    BY <1>2 DEF LimiterInv, LimiterTypeOK
  <2> QED BY <1>2, <1>5, <2>1, <2>2, <2>3 DEF LimiterTypeOK, LimiterInv
<1>7. ASSUME NEW c \in Client
      PROVE  IF c \in Kept(k)
             THEN /\ bucket'[c] <= Full
                  /\ \/ bucket'[c] = Full
                     \/ bucket'[c] >= tokens'[c] * TicksPerSecond + (now' - lastSeen'[c])
             ELSE bucket'[c] = Full
  <2>1. CASE c = k
    <3>1. tokens'[c] = left /\ lastSeen'[c] = now /\ now' - lastSeen'[c] = 0
      BY <1>2, <2>1 DEF Kept, LimiterInv, LimiterTypeOK
    <3>2. CASE Allowed(t)
      <4>1. bucket'[c] = bucket[k] - TicksPerSecond
        BY <1>2, <2>1, <3>2 DEF LimiterInv, LimiterTypeOK
      <4>2. tokens'[c] * TicksPerSecond = t * TicksPerSecond - TicksPerSecond
        BY <1>4, <3>1, <3>2
      <4>3. /\ bucket'[c] <= Full
            /\ bucket'[c] >= tokens'[c] * TicksPerSecond + (now' - lastSeen'[c])
        BY <1>1, <3>1, <4>1, <4>2, FullFacts
      <4> QED BY <4>3, <2>1 DEF Kept
    <3>3. CASE ~ Allowed(t)
      BY <1>1, <1>2, <2>1, <3>1, <3>3 DEF Kept
    <3> QED BY <3>2, <3>3
  <2>2. CASE c # k
    <3>1. bucket'[c] = bucket[c]
      BY <1>2, <2>2 DEF LimiterInv, LimiterTypeOK
    <3>2. CASE c \in Recent
      <4>1. c \in DOMAIN tokens /\ tokens'[c] = tokens[c] /\ lastSeen'[c] = lastSeen[c]
        BY <1>2, <1>5, <2>2, <3>2 DEF Kept
      <4> QED BY <1>2, <3>1, <3>2, <4>1 DEF Kept, LimiterInv, Covered
    <3>3. CASE c \notin Recent
      <4>1. Refill(c) = burstSize /\ bucket[c] = Full
        BY <3>3, RefillIsEarned DEF Refill, Full
      <4> QED BY <2>2, <3>1, <3>3, <4>1 DEF Kept
    <3> QED BY <3>2, <3>3
  <2> QED BY <2>1, <2>2
<1>8. Covered'
  BY <1>2, <1>7 DEF Covered, Full
<1> QED BY <1>6, <1>8 DEF LimiterInv

LEMMA LimiterInvNext == LimiterInv /\ [LimiterNext]_limiterVars => LimiterInv'
<1> SUFFICES ASSUME LimiterInv, [LimiterNext]_limiterVars PROVE LimiterInv'
  OBVIOUS
<1>1. CASE Tick
  BY <1>1, LimiterInvTick
<1>2. ASSUME NEW k \in Client, Request(k) PROVE LimiterInv'
  BY <1>2, LimiterInvRequest
<1>3. CASE UNCHANGED limiterVars
  BY <1>3 DEF LimiterInv, LimiterTypeOK, Covered, limiterVars
<1> QED BY <1>1, <1>2, <1>3 DEF LimiterNext

LEMMA LimiterInvariant == LimiterSpec => []LimiterInv
  BY LimiterInvInit, LimiterInvNext, PTL DEF LimiterSpec

\* The two maps keep the same keys and stay within the burst and the clock.
THEOREM LimiterTypes == LimiterSpec => []LimiterTypeOK
  BY LimiterInvariant, PTL DEF LimiterInv

\* Under one key no more requests get through than a token bucket with the
\* same burst lets through: in any stretch of time at most a burst and one
\* for every second of it.  Nothing is said of an address with many keys.
THEOREM NeverExceedsTokenBucket == LimiterSpec => []WithinTokenBucket
<1>1. LimiterInv => WithinTokenBucket
  <2> SUFFICES ASSUME LimiterInv, NEW k \in Client PROVE bucket[k] >= 0
    BY DEF WithinTokenBucket
  <2>1. Refill(k) * TicksPerSecond >= 0
    BY RefillIsEarned
  <2> QED BY <2>1, RefillIsEarned
<1> QED BY <1>1, LimiterInvariant, PTL

\* A key under which no request came for a second is not refused.
THEOREM QuietClientsAreServed == LimiterSpec => QuietClientIsServed
<1> DEFINE Quiet(k) == k \in DOMAIN lastSeen => now - lastSeen[k] >= TicksPerSecond
<1>1. LimiterInv /\ [LimiterNext]_limiterVars
        => [\A k \in Client : Request(k) /\ Quiet(k) => Served(k)]_limiterVars
  <2> SUFFICES ASSUME LimiterInv, NEW k \in Client, Request(k), Quiet(k) PROVE Served(k)
    OBVIOUS
  <2>1. Refill(k) > 0
    <3>1. CASE k \notin Recent
      BY <3>1 DEF Refill
    <3>2. CASE k \in Recent
      <4> DEFINE s == (now - lastSeen[k]) \div TicksPerSecond
      <4>1. k \in DOMAIN tokens /\ tokens[k] \in Nat /\ now - lastSeen[k] \in Nat
        BY <3>2 DEF Recent, LimiterInv, LimiterTypeOK
      <4>2. s \in Nat /\ s >= 1
        BY <3>2, <4>1, WholeSeconds DEF Recent
      <4>3. Refill(k) = Lesser(tokens[k] + s, burstSize)
        BY <3>2 DEF Refill
      <4> HIDE DEF s
      <4> QED BY <4>1, <4>2, <4>3 DEF Lesser
    <3> QED BY <3>1, <3>2
  <2>2. bucket' = [bucket EXCEPT ![k] = @ - TicksPerSecond]
    BY <2>1 DEF Request, Allowed
  <2> QED BY <2>2, RefillIsEarned DEF Served, LimiterInv, LimiterTypeOK
<1> QED BY <1>1, LimiterInvariant, PTL DEF LimiterSpec, QuietClientIsServed
==============================================================================
