-------------------------------- MODULE Api --------------------------------
(***************************************************************************)
(* Programs that use a node through its HTTP API: the clients of sdk and   *)
(* pkg/sdk, the wrapper of mobile, and startAPIServer of                   *)
(* cmd/aetherwave/main.go behind its rate limiter.                         *)
(*                                                                         *)
(* A caller makes one call at a time.  A call is a loop of attempts, each  *)
(* of them a request of its own; an attempt ends with an answer, whatever  *)
(* its status, or with an error of the transport, the timeout included.    *)
(* The node goes on with a request whose caller has given up.              *)
(***************************************************************************)
EXTENDS RateLimiter, Sequences, FiniteSets

CONSTANTS
  Caller,      \* client objects
  Name, Key,   \* user names, 32-byte keys
  Unset,       \* the empty name, the empty key
  BadKey,      \* what is not the hex of 32 bytes
  MaxRetries,  \* after the first attempt
  ApiToken,    \* the node was started with -api-token
  MaxMessages  \* bound: calls of SendMessage

ASSUME KeysAssumption == Unset \notin Name \cup Key \cup {BadKey} /\ BadKey \notin Key
ASSUME RetriesAssumption == MaxRetries \in Nat \ {0}  \* NewClient makes 3 of 0
ASSUME MessagesAssumption == MaxMessages \in Nat
ASSUME TokenAssumption == ApiToken \in BOOLEAN

VARIABLES
  kind,      \* kind[c]: the library c is a client of
  name,      \* name[c]: the client's user name
  key,       \* key[c]: the client's encryption key
  loggedIn,  \* loggedIn[c]: AetherWaveMobile.isLoggedIn
  call,      \* call[c]: the call c is in
  net,       \* requests sent and not yet answered, and answers
  log,       \* what the node has mined, in order, with the attempt that brought it
  calls,     \* history: the messages each caller has sent, in call order
  outcome    \* history: what has become of the call for each message

callerVars == <<kind, name, key, loggedIn>>
historyVars == <<calls, outcome>>
vars == <<callerVars, call, net, log, historyVars, limiterVars>>

----------------------------------------------------------------------------
NoCall == [op |-> "none"]

\* Each call of SendMessage has a message of its own, numbered in call order.
Message == 1..MaxMessages

NoMessage == 0

\* NewClient of sdk takes a name and a key as they are, pkg/sdk has no such
\* options and the wrapper does not use them.
Init ==
  /\ LimiterInit
  /\ kind \in [Caller -> {"sdk", "pkg", "mobile"}]
  /\ name \in [Caller -> Name \cup {Unset}]
  /\ key \in [Caller -> Key \cup {Unset, BadKey}]
  /\ \A c \in Caller : kind[c] # "sdk" => name[c] = Unset /\ key[c] = Unset
  /\ loggedIn = [c \in Caller |-> FALSE]
  /\ call = [c \in Caller |-> NoCall]
  /\ net = {}
  /\ log = <<>>
  /\ calls = [c \in Caller |-> <<>>]
  /\ outcome = [m \in Message |-> "new"]

----------------------------------------------------------------------------
(* Names, keys and the wrapper's login.                                    *)

SetUsername(c, u) ==
  /\ kind[c] # "mobile"
  /\ call[c] = NoCall
  /\ name' = [name EXCEPT ![c] = u]
  /\ UNCHANGED <<kind, key, loggedIn, call, net, log, historyVars, limiterVars>>

\* A key that is not the hex of 32 bytes is refused and changes nothing.
SetEncryptionKey(c, k) ==
  /\ kind[c] # "mobile"
  /\ call[c] = NoCall
  /\ key' = [key EXCEPT ![c] = k]
  /\ UNCHANGED <<kind, name, loggedIn, call, net, log, historyVars, limiterVars>>

\* The name is the client's at once, an empty or refused login's too: when
\* the key is refused it stays, and so does an earlier login.
Login(c, u, k) ==
  /\ kind[c] = "mobile"
  /\ call[c] = NoCall
  /\ name' = [name EXCEPT ![c] = u]
  /\ IF k \in Key
     THEN /\ key' = [key EXCEPT ![c] = k]
          /\ loggedIn' = [loggedIn EXCEPT ![c] = TRUE]
     ELSE UNCHANGED <<key, loggedIn>>
  /\ UNCHANGED <<kind, call, net, log, historyVars, limiterVars>>

----------------------------------------------------------------------------
(* Calls.                                                                  *)

Begin(c, op, m, k) ==
  /\ call[c] = NoCall
  /\ call' = [call EXCEPT ![c] = [op |-> op, m |-> m, key |-> k,
                                  attempt |-> 0, pc |-> "send"]]
  /\ UNCHANGED <<callerVars, net, log, limiterVars>>

\* The guards of AetherWaveMobile.SendMessage, then those of the client's.
SendMessage(c, m) ==
  /\ kind[c] = "mobile" => loggedIn[c]
  /\ key[c] # Unset /\ name[c] # Unset
  /\ outcome[m] = "new" /\ \A x \in 1..(m - 1) : outcome[x] # "new"
  /\ Begin(c, "message", m, key[c])
  /\ calls' = [calls EXCEPT ![c] = Append(@, m)]
  /\ outcome' = [outcome EXCEPT ![m] = "open"]

\* GetMessages.  The client of pkg/sdk reads without a key, too, and then
\* gets what the node's own key decrypts.
GetMessages(c) ==
  /\ kind[c] = "mobile" => loggedIn[c]
  /\ name[c] # Unset
  /\ kind[c] = "pkg" \/ key[c] # Unset
  /\ Begin(c, "messages", NoMessage, key[c])
  /\ UNCHANGED historyVars

GenerateEncryptionKey(c) ==
  /\ Begin(c, "generate-key", NoMessage, Unset)
  /\ UNCHANGED historyVars

\* An attempt, after the RetryDelay when it is not the first.
Attempt(c) ==
  /\ call[c] # NoCall /\ call[c].pc = "send"
  /\ call' = [call EXCEPT ![c].pc = "wait"]
  /\ net' = net \cup {[from |-> c, op |-> call[c].op, m |-> call[c].m, key |-> call[c].key,
                       attempt |-> call[c].attempt, pc |-> "sent"]}
  /\ UNCHANGED <<callerVars, log, historyVars, limiterVars>>

\* c is waiting for the answer to r.
Awaited(r) ==
  LET w == call[r.from]
  IN w # NoCall /\ w.pc = "wait" /\ <<w.op, w.m, w.attempt>> = <<r.op, r.m, r.attempt>>

----------------------------------------------------------------------------
(* The node.                                                               *)

Step(r, pc) == (net \ {r}) \cup {[r EXCEPT !.pc = pc]}

\* The rest of r, which is of no effect when its caller has given up.
Answer(r, pc) == IF Awaited(r) THEN Step(r, pc) ELSE net \ {r}

\* The handlers of /api/message and /api/messages look at the key when
\* there is one.
WellFormed(r) == r.key # BadKey

\* r comes in on a connection that the limiter knows as k.  withRateLimit
\* is the outermost middleware, then comes withAuth, then the handler with
\* its checks; neither SDK sends a token.
Arrive(r, k) ==
  /\ r.pc = "sent"
  /\ Request(k)
  /\ net' = IF Allowed(Refill(k)) /\ ~ ApiToken /\ WellFormed(r)
            THEN Step(r, "handle")
            ELSE Answer(r, "refused")
  /\ UNCHANGED <<callerVars, call, log, historyVars>>

\* AddMessage, under the chain's mutex and for as long as mining takes.  What
\* is left of a request that nobody waits for changes nothing here.
AddMessage(r) ==
  /\ r.pc = "handle" /\ r.op = "message"
  /\ log' = Append(log, [m |-> r.m, attempt |-> r.attempt])
  /\ net' = Answer(r, "mined")
  /\ UNCHANGED <<callerVars, call, historyVars, limiterVars>>

\* Mutant of Reply: success is answered before the message is mined.
ReplyFirst(r) ==
  /\ r.pc = "handle"
  /\ net' = Answer(r, "ok")
  /\ UNCHANGED <<callerVars, call, log, historyVars, limiterVars>>

\* The last block is read back, its broadcast is started and success is
\* answered; the other handlers change nothing.
Reply(r) ==
  /\ r.pc = IF r.op = "message" THEN "mined" ELSE "handle"
  /\ net' = Answer(r, "ok")
  /\ UNCHANGED <<callerVars, call, log, historyVars, limiterVars>>

\* Anybody else's request, or a request without a message whose caller has
\* given up.
OtherRequest(k) ==
  /\ Request(k)
  /\ UNCHANGED <<callerVars, call, net, log, historyVars>>

----------------------------------------------------------------------------
(* The end of an attempt.                                                  *)

Concluded(c, result) ==
  IF call[c].op = "message" THEN [outcome EXCEPT ![call[c].m] = result] ELSE outcome

\* Mutant of Verdict: an error status is taken for "not delivered".
VerdictHasty(r) == IF r.pc = "ok" THEN "ok" ELSE "refused"

\* A status other than 200 is an error of the call.  What the caller cannot
\* see is whether an earlier attempt was mined: "refused" when there was none.
Verdict(r) ==
  IF r.pc = "ok" THEN "ok" ELSE IF r.attempt = 0 THEN "refused" ELSE "failed"

\* The answer is read, and the key it brings is the client's from now on.
\* An answer that breaks off is an error of the call: there is no retry.
Receive(c, r) ==
  /\ r.from = c /\ r.pc \in {"ok", "refused"} /\ Awaited(r)
  /\ call' = [call EXCEPT ![c] = NoCall]
  /\ net' = net \ {r}
  /\ outcome' = Concluded(c, Verdict(r))
  /\ \/ r.op = "generate-key" /\ r.pc = "ok" /\ \E k \in Key : key' = [key EXCEPT ![c] = k]
     \/ UNCHANGED key
  /\ UNCHANGED <<kind, name, loggedIn, log, calls, limiterVars>>

\* Mutant of MayRetry: one attempt more.
MayRetryOnceMore(c) == call[c].attempt <= MaxRetries

MayRetry(c) == call[c].attempt < MaxRetries

\* Mutant of Following: the attempts are not counted.
FollowingUncounted(n) == n

Following(n) == n + 1

\* Do returns an error: no connection, a lost one, or the timeout.
GiveUp(c) ==
  /\ call[c] # NoCall /\ call[c].pc = "wait"
  /\ net' = {r \in net : r.from = c => r.op = "message" /\ r.pc \in {"sent", "handle"}}
  /\ IF MayRetry(c)
     THEN /\ call' = [call EXCEPT ![c].attempt = Following(@), ![c].pc = "send"]
          /\ UNCHANGED outcome
     ELSE /\ call' = [call EXCEPT ![c] = NoCall]
          /\ outcome' = Concluded(c, "failed")
  /\ UNCHANGED <<callerVars, log, calls, limiterVars>>

----------------------------------------------------------------------------
Configure(c) ==
  \/ \E u \in Name \cup {Unset} : SetUsername(c, u) \/ \E k \in Key \cup {BadKey} : Login(c, u, k)
  \/ \E k \in Key : SetEncryptionKey(c, k)

Start(c) == (\E m \in Message : SendMessage(c, m)) \/ GetMessages(c) \/ GenerateEncryptionKey(c)

Proceed(c) == Attempt(c) \/ GiveUp(c) \/ \E r \in net : Receive(c, r)

Serve == \E r \in net : AddMessage(r) \/ Reply(r) \/ \E k \in Client : Arrive(r, k)

TimePasses == Tick /\ UNCHANGED <<callerVars, call, net, log, historyVars>>

Next ==
  \/ \E c \in Caller : Configure(c) \/ Start(c) \/ Proceed(c)
  \/ Serve
  \/ TimePasses \/ \E k \in Client : OtherRequest(k)

Spec == Init /\ [][Next]_vars

\* The callers' timers run.  Nothing is asked of the node or the network.
FairSpec == Spec /\ \A c \in Caller : WF_vars(Proceed(c))

----------------------------------------------------------------------------
Attempts == 0..MaxRetries

KeyState == Key \cup {Unset, BadKey}

CallState ==
  {NoCall}
    \cup [op : {"message"}, m : Message, key : Key \cup {BadKey}, attempt : Attempts,
          pc : {"send", "wait"}]
    \cup [op : {"messages", "generate-key"}, m : {NoMessage}, key : KeyState, attempt : Attempts,
          pc : {"send", "wait"}]

RequestState ==
  [from : Caller, op : {"message"}, m : Message, key : Key \cup {BadKey}, attempt : Attempts,
   pc : {"sent", "handle", "mined", "ok", "refused"}]
    \cup [from : Caller, op : {"messages", "generate-key"}, m : {NoMessage}, key : KeyState,
          attempt : Attempts, pc : {"sent", "handle", "ok", "refused"}]

ApiTypeOK ==
  /\ kind \in [Caller -> {"sdk", "pkg", "mobile"}]
  /\ name \in [Caller -> Name \cup {Unset}]
  /\ key \in [Caller -> KeyState]
  /\ loggedIn \in [Caller -> BOOLEAN]
  /\ call \in [Caller -> CallState]
  /\ net \subseteq RequestState
  /\ \A r \in net : r.op = "message" => outcome[r.m] \notin {"new", "refused"}
  /\ log \in Seq([m : Message, attempt : Attempts])
  /\ calls \in [Caller -> Seq(Message)]
  /\ outcome \in [Message -> {"new", "open", "ok", "failed", "refused"}]

\* Type invariant: no message travels whose call was not made or was refused.
TypeOK == LimiterTypeOK /\ ApiTypeOK

\* Every call returns, whatever becomes of its requests: the attempts are
\* counted and each of them times out.
EveryCallReturns == \A c \in Caller : call[c] # NoCall ~> call[c] = NoCall

\* The sends and the waits c's call may still go through.
StepsLeft(c) ==
  IF call[c] = NoCall THEN 0
  ELSE 2 * (MaxRetries - call[c].attempt) + (IF call[c].pc = "send" THEN 2 ELSE 1)

\* What makes every call return is a count that no step of anybody turns back:
\* an open call is left alone, or it has fewer sends and waits before it.  No
\* answer, late request or second call starts the retries of doRequest anew.
CallsMoveOn ==
  [][\A c \in Caller :
       call[c] # NoCall => call'[c] = call[c] \/ StepsLeft(c)' \in 0..(StepsLeft(c) - 1)]_vars

Promise == INSTANCE Delivery WITH
  MaxCopies <- MaxRetries + 1,
  calls <- calls,
  outcome <- outcome,
  log <- [i \in 1..Len(log) |-> log[i].m]

\* The clients and the node keep their promise about messages: retries, late
\* answers and requests that outlive their call never deliver a message too
\* often, without a call, or after the one attempt of its call was refused,
\* and success is never reported of a message that was not mined.
ImplementsDelivery == Promise!DeliverySpec

\* Retries do not reorder a caller's messages: before the first copy of a
\* message there is one of every message sent earlier with success, though
\* late copies of the earlier one may follow.
FirstCopiesInOrder == Promise!FirstCopiesInOrder

----------------------------------------------------------------------------
(* The inductive invariant behind ImplementsDelivery: every attempt of a   *)
(* call is at most one request and at most one copy.                       *)

Sending(c) == call[c].op = "message"

\* c has made its attempt n.
Made(c, n) == n <= call[c].attempt /\ (call[c].pc = "send" => n < call[c].attempt)

CallsAreOpen ==
  \A c \in Caller : Sending(c) =>
    /\ outcome[call[c].m] = "open"
    /\ \A d \in Caller : Sending(d) /\ call[d].m = call[c].m => d = c

OpenIsCurrent ==
  \A c \in Caller : \A i \in 1..Len(calls[c]) :
    /\ outcome[calls[c][i]] # "new"
    /\ outcome[calls[c][i]] = "open" => Sending(c) /\ call[c].m = calls[c][i]

MessageRequests == {r \in net : r.op = "message"}

RequestsAreAttempts ==
  /\ \A c \in Caller : \A r \in MessageRequests :
       Sending(c) /\ r.m = call[c].m => r.from = c /\ Made(c, r.attempt)
  /\ \A r, s \in MessageRequests : <<r.m, r.attempt>> = <<s.m, s.attempt>> => r = s

CopiesAreAttempts ==
  /\ \A i \in 1..Len(log) : outcome[log[i].m] \notin {"new", "refused"}
  /\ \A c \in Caller : \A i \in 1..Len(log) :
       Sending(c) /\ log[i].m = call[c].m => Made(c, log[i].attempt)
  /\ \A i, j \in 1..Len(log) : log[i] = log[j] => i = j

\* A request that has been mined has a copy, another one has none yet.
RequestsFitLog ==
  \A r \in MessageRequests :
    /\ r.pc \in {"mined", "ok"} => \E i \in 1..Len(log) : log[i].m = r.m
    /\ r.pc \notin {"mined", "ok"}
         => \A i \in 1..Len(log) : log[i] # [m |-> r.m, attempt |-> r.attempt]

ApiInv ==
  /\ ApiTypeOK
  /\ CallsAreOpen /\ OpenIsCurrent
  /\ RequestsAreAttempts /\ CopiesAreAttempts /\ RequestsFitLog
============================================================================
