---------------------------- MODULE RateLimiter ----------------------------
(***************************************************************************)
(* withRateLimit of cmd/aetherwave/main.go: the middleware in front of     *)
(* every HTTP handler.  One mutex covers a whole decision, so that a       *)
(* request is one step.                                                    *)
(*                                                                         *)
(* Time is in ticks.  bucket is what the token bucket the code is named    *)
(* after would hold, in ticks of earning: it earns one a tick, is full at  *)
(* burstSize tokens, and every admitted request takes a token out of it.   *)
(***************************************************************************)
EXTENDS Integers

CONSTANTS
  Client,          \* the limiter's keys: RemoteAddr with its port, or the first item
                   \* of the X-Forwarded-For header that the request brings
  TicksPerSecond,  \* ticks in a second, the time in which a token is earned
  Minute,          \* ticks after which an entry is deleted
  burstSize,
  MaxTime          \* bound: requests come before this tick

ASSUME TicksAssumption == TicksPerSecond \in Nat \ {0}
ASSUME BurstAssumption == burstSize \in Nat \ {0}
\* 10 tokens are earned in less than a minute.
ASSUME MinuteAssumption == Minute \in Nat /\ burstSize * TicksPerSecond <= Minute

VARIABLES
  now,       \* the clock
  tokens,    \* rateLimiter.tokens
  lastSeen,  \* rateLimiter.lastSeen
  bucket     \* history: the contents of a token bucket with the same requests

limiterVars == <<now, tokens, lastSeen, bucket>>

Lesser(a, b) == IF a < b THEN a ELSE b

Full == burstSize * TicksPerSecond

LimiterInit ==
  /\ now = 0
  /\ tokens = [k \in {} |-> 0]
  /\ lastSeen = [k \in {} |-> 0]
  /\ bucket = [k \in Client |-> Full]

Tick ==
  /\ now < MaxTime
  /\ now' = now + 1
  /\ bucket' = [k \in Client |-> Lesser(bucket[k] + 1, Full)]
  /\ UNCHANGED <<tokens, lastSeen>>

\* The entries that the clean-up loop of a request keeps.
Recent == {k \in DOMAIN lastSeen : now - lastSeen[k] <= Minute}

\* Mutant of Refill: divided by 60 before it is multiplied by 60.
RefillByMinutes(k) ==
  IF k \in Recent
  THEN Lesser(tokens[k] + ((now - lastSeen[k]) \div Minute) * (Minute \div TicksPerSecond), burstSize)
  ELSE burstSize

\* What k has after the refill: whole seconds since its last request, one
\* token each (60 a minute), or a full burst for a client without an entry.
Refill(k) ==
  IF k \in Recent
  THEN Lesser(tokens[k] + (now - lastSeen[k]) \div TicksPerSecond, burstSize)
  ELSE burstSize

Allowed(t) == t > 0

Kept(k) == Recent \cup {k}

\* A request of client k.  An entry's time moves to now even when the
\* request is refused and the fraction of a second is lost.
Request(k) ==
  LET t == Refill(k)
      left == IF Allowed(t) THEN t - 1 ELSE t
  IN /\ tokens' = [c \in Kept(k) |-> IF c = k THEN left ELSE tokens[c]]
     /\ lastSeen' = [c \in Kept(k) |-> IF c = k THEN now ELSE lastSeen[c]]
     /\ bucket' = IF Allowed(t) THEN [bucket EXCEPT ![k] = @ - TicksPerSecond] ELSE bucket
     /\ UNCHANGED now

LimiterNext == Tick \/ \E k \in Client : Request(k)

LimiterSpec == LimiterInit /\ [][LimiterNext]_limiterVars

----------------------------------------------------------------------------
\* Type invariant: the two maps have the same keys, and no entry is later
\* than the clock.
LimiterTypeOK ==
  /\ now \in Nat
  /\ DOMAIN tokens = DOMAIN lastSeen /\ DOMAIN tokens \subseteq Client
  /\ tokens \in [DOMAIN tokens -> 0..burstSize]
  /\ lastSeen \in [DOMAIN tokens -> 0..now]
  /\ bucket \in [Client -> Int]

\* Under no key are there ever more admissions than a token bucket of
\* burstSize admits: entries that are deleted and start again with a full
\* burst, and seconds counted from the last request, never add up to more.
\* It is no bound "by IP", as the comment of withRateLimit has it: a
\* connection from a new port, and a new header, are new keys.
WithinTokenBucket == \A k \in Client : bucket[k] >= 0

\* A client refused once is served as soon as it has kept quiet for a second
\* (the response tells it to wait 60).
Served(k) == bucket'[k] < bucket[k]

QuietClientIsServed ==
  [][\A k \in Client :
       Request(k) /\ (k \in DOMAIN lastSeen => now - lastSeen[k] >= TicksPerSecond)
       => Served(k)]_limiterVars

----------------------------------------------------------------------------
\* The inductive invariant behind WithinTokenBucket: what the code would give
\* a client now is covered by what it has earned.
Covered ==
  \A k \in Client :
    IF k \in DOMAIN tokens
    THEN /\ bucket[k] <= Full
         /\ \/ bucket[k] = Full
            \/ bucket[k] >= tokens[k] * TicksPerSecond + (now - lastSeen[k])
    ELSE bucket[k] = Full

LimiterInv == LimiterTypeOK /\ Covered
============================================================================
