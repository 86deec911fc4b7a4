--------------------------- MODULE DeliveryProofs ---------------------------
(***************************************************************************)
(* The promise about messages implies that a caller's messages are not     *)
(* reordered, for any callers, messages and number of copies.              *)
(***************************************************************************)
EXTENDS Delivery, TLAPS

LEMMA DeliveryInvInit == DeliveryInit => DeliveryInv
  BY DEF DeliveryInit, DeliveryInv, DeliveryTypeOK, LogFitsOutcomes, CallsAreSequential,
         FirstCopiesInOrder, Copies

\* Appending a message to the log gives it one more copy, the last.
LEMMA CopiesAppend ==
  ASSUME NEW m, log \in Seq(Message), log' = Append(log, m), m \in Message, NEW x
  PROVE  Copies(x)' = IF x = m THEN Copies(x) \cup {Len(log) + 1} ELSE Copies(x)
  BY DEF Copies

LEMMA CallKeepsInv ==
  ASSUME DeliveryInv, NEW c \in Caller, NEW m \in Message, Call(c, m)
  PROVE  DeliveryInv'
<1> USE DEF DeliveryInv
<1>1. /\ Free(c) /\ outcome[m] = "new"
      /\ calls' = [calls EXCEPT ![c] = Append(@, m)]
      /\ outcome' = [outcome EXCEPT ![m] = "open"]
      /\ log' = log
      /\ calls[c] \in Seq(Message)
      /\ Copies(m) = {}
  BY DEF Call, DeliveryTypeOK, LogFitsOutcomes
<1>2. \A x : Copies(x)' = Copies(x)
  BY <1>1 DEF Copies
<1>3. DeliveryTypeOK'
  BY <1>1 DEF DeliveryTypeOK
<1>4. LogFitsOutcomes'
  BY <1>1, <1>2 DEF LogFitsOutcomes, DeliveryTypeOK
<1>5. ASSUME NEW d \in Caller, NEW i \in 1..Len(calls'[d])
      PROVE  \/ i \in 1..Len(calls[d]) /\ calls'[d][i] = calls[d][i] /\ calls[d][i] # m
                /\ outcome'[calls[d][i]] = outcome[calls[d][i]]
                /\ calls[d][i] \in Message
             \/ d = c /\ i = Len(calls[c]) + 1 /\ i = Len(calls'[c]) /\ calls'[d][i] = m
  BY <1>1 DEF DeliveryTypeOK, CallsAreSequential
<1>6. CallsAreSequential'
  <2> SUFFICES ASSUME NEW d \in Caller, NEW i \in 1..Len(calls'[d])
               PROVE  /\ outcome'[calls'[d][i]] # "new"
                      /\ outcome'[calls'[d][i]] = "open" => i = Len(calls'[d])
    BY DEF CallsAreSequential
  <2>1. CASE d = c
    BY <1>1, <1>5, <2>1 DEF CallsAreSequential, Free, DeliveryTypeOK
  <2>2. CASE d # c
    <3>1. calls'[d] = calls[d]
      BY <1>1, <2>2 DEF DeliveryTypeOK
    <3> QED BY <1>5, <2>2, <3>1 DEF CallsAreSequential
  <2> QED BY <2>1, <2>2
<1>7. FirstCopiesInOrder'
  <2> SUFFICES ASSUME NEW d \in Caller, NEW j \in 1..Len(calls'[d]), NEW i \in 1..(j - 1),
                      outcome'[calls'[d][i]] = "ok", NEW q \in Copies(calls'[d][j])
               PROVE  \E p \in Copies(calls'[d][i]) : p < q
    BY <1>2 DEF FirstCopiesInOrder
  <2>1. calls'[d] \in Seq(Message)
    BY <1>3 DEF DeliveryTypeOK
  <2>2. calls'[d][j] # m /\ j \in 1..Len(calls[d]) /\ calls'[d][j] = calls[d][j]
    BY <1>1, <1>5
  <2>3. i \in 1..Len(calls[d]) /\ i \in 1..Len(calls'[d])
    BY <2>1, <2>2, <1>1 DEF DeliveryTypeOK
  <2>4. calls'[d][i] = calls[d][i] /\ outcome[calls[d][i]] = "ok"
    BY <1>1, <1>5, <2>3 DEF DeliveryTypeOK
  <2> QED BY <2>2, <2>4 DEF FirstCopiesInOrder
<1> QED BY <1>3, <1>4, <1>6, <1>7

LEMMA DeliverKeepsInv ==
  ASSUME DeliveryInv, NEW m \in Message, Deliver(m)
  PROVE  DeliveryInv'
<1> USE DEF DeliveryInv
<1>1. /\ outcome[m] \in {"open", "ok", "failed"}
      /\ log' = Append(log, m) /\ log \in Seq(Message)
      /\ calls' = calls /\ outcome' = outcome
  BY DEF Deliver, DeliveryTypeOK
<1>2. \A x : Copies(x)' = IF x = m THEN Copies(x) \cup {Len(log) + 1} ELSE Copies(x)
  BY <1>1, CopiesAppend
<1>3. DeliveryTypeOK'
  BY <1>1 DEF DeliveryTypeOK
<1>4. LogFitsOutcomes'
  BY <1>1, <1>2 DEF LogFitsOutcomes
<1>5. CallsAreSequential'
  BY <1>1 DEF CallsAreSequential
<1>6. FirstCopiesInOrder'
  <2> SUFFICES ASSUME NEW d \in Caller, NEW j \in 1..Len(calls[d]), NEW i \in 1..(j - 1),
                      outcome[calls[d][i]] = "ok", NEW q \in Copies(calls[d][j])'
               PROVE  \E p \in Copies(calls[d][i])' : p < q
    BY <1>1 DEF FirstCopiesInOrder
  <2> DEFINE x == calls[d][i]
             y == calls[d][j]
  <2>1. Copies(x) \subseteq Copies(x)' /\ Copies(y)' \subseteq Copies(y) \cup {Len(log) + 1}
    BY <1>1 DEF Copies
  <2>2. CASE q \in Copies(calls[d][j])
    BY <2>1, <2>2 DEF FirstCopiesInOrder
  <2>3. CASE q \notin Copies(calls[d][j])
    <3>1. q = Len(log) + 1
      BY <2>1, <2>3
    <3>2. calls[d][i] \in Message
      BY DEF DeliveryTypeOK
    <3>3. PICK p \in Copies(calls[d][i]) : TRUE
      BY <3>2 DEF LogFitsOutcomes
    <3>4. p \in 1..Len(log) /\ Len(log) \in Nat
      BY <1>1, <3>3 DEF Copies
    <3> QED BY <2>1, <3>1, <3>3, <3>4
  <2> QED BY <2>2, <2>3
<1> QED BY <1>3, <1>4, <1>5, <1>6

LEMMA EndKeepsInv ==
  ASSUME DeliveryInv, NEW m \in Message, NEW result \in {"ok", "failed", "refused"},
         End(m, result),
         result = "ok" => Copies(m) # {}, result = "refused" => Copies(m) = {}
  PROVE  DeliveryInv'
<1> USE DEF DeliveryInv
<1>1. /\ outcome[m] = "open"
      /\ outcome' = [outcome EXCEPT ![m] = result]
      /\ calls' = calls /\ log' = log
  BY DEF End
<1>2. \A x : Copies(x)' = Copies(x)
  BY <1>1 DEF Copies
<1>3. DeliveryTypeOK'
  BY <1>1 DEF DeliveryTypeOK
<1>4. LogFitsOutcomes'
  BY <1>1, <1>2 DEF LogFitsOutcomes, DeliveryTypeOK
<1>5. ASSUME NEW d \in Caller, NEW i \in 1..Len(calls[d])
      PROVE  /\ calls[d][i] \in Message
             /\ calls[d][i] = m => i = Len(calls[d])
             /\ calls[d][i] # m => outcome'[calls[d][i]] = outcome[calls[d][i]]
  BY <1>1 DEF DeliveryTypeOK, CallsAreSequential
<1>6. CallsAreSequential'
  BY <1>1, <1>5 DEF CallsAreSequential, DeliveryTypeOK
<1>7. FirstCopiesInOrder'
  <2> SUFFICES ASSUME NEW d \in Caller, NEW j \in 1..Len(calls[d]), NEW i \in 1..(j - 1),
                      outcome'[calls[d][i]] = "ok", NEW q \in Copies(calls[d][j])
               PROVE  \E p \in Copies(calls[d][i]) : p < q
    BY <1>1, <1>2 DEF FirstCopiesInOrder
  <2>1. i \in 1..Len(calls[d]) /\ i # Len(calls[d])
    BY DEF DeliveryTypeOK
  <2>2. outcome[calls[d][i]] = "ok"
    BY <1>5, <2>1
  <2> QED BY <2>2 DEF FirstCopiesInOrder
<1> QED BY <1>3, <1>4, <1>6, <1>7

LEMMA DeliveryInvNext == DeliveryInv /\ [DeliveryNext]_deliveryVars => DeliveryInv'
<1> SUFFICES ASSUME DeliveryInv, [DeliveryNext]_deliveryVars PROVE DeliveryInv'
  OBVIOUS
<1>1. ASSUME NEW c \in Caller, NEW m \in Message, Call(c, m) PROVE DeliveryInv'
  BY <1>1, CallKeepsInv
<1>2. ASSUME NEW m \in Message, Deliver(m) PROVE DeliveryInv'
  BY <1>2, DeliverKeepsInv
<1>3. ASSUME NEW m \in Message, Succeed(m) \/ Fail(m) \/ Refuse(m) PROVE DeliveryInv'
  BY <1>3, EndKeepsInv DEF Succeed, Fail, Refuse
<1>4. CASE UNCHANGED deliveryVars
  BY <1>4 DEF deliveryVars, DeliveryInv, DeliveryTypeOK, LogFitsOutcomes, CallsAreSequential,
              FirstCopiesInOrder, Copies
<1> QED BY <1>1, <1>2, <1>3, <1>4 DEF DeliveryNext

\* Whatever keeps the promise keeps a caller's messages in order, knows no
\* copy of a message that was refused and has one of every message whose
\* call succeeded.
THEOREM PromiseInvariant == DeliverySpec => []DeliveryInv
  BY DeliveryInvInit, DeliveryInvNext, PTL DEF DeliverySpec
=============================================================================
