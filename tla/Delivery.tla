------------------------------ MODULE Delivery ------------------------------
(***************************************************************************)
(* What an AetherWave node and its clients promise together about the     *)
(* messages that are sent through the HTTP API, without requests, answers, *)
(* timeouts and retries: a message may be delivered while its call is open *)
(* and after, up to MaxCopies times; a call that succeeds has been         *)
(* delivered; a call that fails may have been, or may still be; and one    *)
(* that is refused never is.                                               *)
(***************************************************************************)
EXTENDS Naturals, Sequences, FiniteSets

CONSTANTS
  Caller,    \* programs that send messages, one call at a time
  Message,   \* one for each call of SendMessage
  MaxCopies  \* deliveries of one message

VARIABLES
  calls,    \* calls[c]: the messages c has sent, in the order of its calls
  outcome,  \* outcome[m]: what has become of the call for m
  log       \* the messages delivered, in the order of delivery

deliveryVars == <<calls, outcome, log>>

DeliveryInit ==
  /\ calls = [c \in Caller |-> <<>>]
  /\ outcome = [m \in Message |-> "new"]
  /\ log = <<>>

Copies(m) == {i \in 1..Len(log) : log[i] = m}

\* c has no call open.
Free(c) == \A i \in 1..Len(calls[c]) : outcome[calls[c][i]] # "open"

Call(c, m) ==
  /\ Free(c)
  /\ outcome[m] = "new"
  /\ calls' = [calls EXCEPT ![c] = Append(@, m)]
  /\ outcome' = [outcome EXCEPT ![m] = "open"]
  /\ UNCHANGED log

Deliver(m) ==
  /\ outcome[m] \in {"open", "ok", "failed"}
  /\ Cardinality(Copies(m)) < MaxCopies
  /\ log' = Append(log, m)
  /\ UNCHANGED <<calls, outcome>>

End(m, result) ==
  /\ outcome[m] = "open"
  /\ outcome' = [outcome EXCEPT ![m] = result]
  /\ UNCHANGED <<calls, log>>

Succeed(m) == Copies(m) # {} /\ End(m, "ok")

Fail(m) == End(m, "failed")

Refuse(m) == Copies(m) = {} /\ End(m, "refused")

DeliveryNext ==
  \E m \in Message :
    \/ \E c \in Caller : Call(c, m)
    \/ Deliver(m) \/ Succeed(m) \/ Fail(m) \/ Refuse(m)

DeliverySpec == DeliveryInit /\ [][DeliveryNext]_deliveryVars

----------------------------------------------------------------------------
DeliveryTypeOK ==
  /\ calls \in [Caller -> Seq(Message)]
  /\ outcome \in [Message -> {"new", "open", "ok", "failed", "refused"}]
  /\ log \in Seq(Message)

\* A message is in the log once at least when its call succeeded, and not at
\* all before its call and when it was refused.
LogFitsOutcomes ==
  \A m \in Message :
    /\ outcome[m] = "ok" => Copies(m) # {}
    /\ outcome[m] \in {"new", "refused"} => Copies(m) = {}

\* Every call is for a message of its own, and only a caller's last call is
\* open.
CallsAreSequential ==
  \A c \in Caller : \A i \in 1..Len(calls[c]) :
    /\ outcome[calls[c][i]] # "new"
    /\ outcome[calls[c][i]] = "open" => i = Len(calls[c])

\* However often a message is delivered and however late, before the first
\* copy of a message there is one of every message that its sender sent
\* earlier with success.
FirstCopiesInOrder ==
  \A c \in Caller : \A j \in 1..Len(calls[c]) : \A i \in 1..(j-1) :
    outcome[calls[c][i]] = "ok"
      => \A q \in Copies(calls[c][j]) : \E p \in Copies(calls[c][i]) : p < q

DeliveryInv ==
  DeliveryTypeOK /\ LogFitsOutcomes /\ CallsAreSequential /\ FirstCopiesInOrder
============================================================================
